------------------------------- MODULE Requantizer -----------------------------
(***************************************************************************)
(* rtl/compute/requantize.sv per clock edge: multiply, round and shift, add    *)
(* the zero point, clamp and apply ReLU.  Lanes do the same with their own      *)
(* sums, so there is one; the parameters may change with every request, as they *)
(* do from layer to layer (PER_CHANNEL = 0) or with the ROM (1).              *)
(***************************************************************************)
EXTENDS QuantMath, Sequences

CONSTANTS Layers,   (* the layers that may be compiled                       *)
          Others    (* those that may share the pipeline with one of them      *)

(* There are finitely many weights and samples, calibration saw two values at    *)
(* least of the inputs and of the results, and the weights are not all 0.     *)
Varies(S) == \E u, v \in S : u # v

ASSUME LayerAssumption ==
  \A l \in Layers \cup Others :
    /\ l.act \in {"none", "relu", "relu6"}
    /\ IsFiniteSet(DOMAIN l.w) /\ l.w \in [DOMAIN l.w -> Int] /\ l.b \in Int
    /\ IsFiniteSet(l.xs) /\ l.xs \subseteq [DOMAIN l.w -> Int]
    /\ Varies(Values(l)) /\ Varies(Results(l)) /\ \E i \in DOMAIN l.w : l.w[i] # 0

VARIABLES
  layers,           (* two layers, and                                      *)
  quant,            (* their quantized parameters                            *)
  product, valid1, shift1, zp1, relu1,        (* registers of stage 1        *)
  shifted, valid2, zp2, relu2,                (* of stage 2                  *)
  data_out, valid_out,                        (* of stage 3                  *)
  asked             (* what was requested at the last three edges             *)

requantRegs == <<product, valid1, shift1, zp1, relu1, shifted, valid2, zp2, relu2, data_out, valid_out>>
requantVars == <<layers, quant, requantRegs, asked>>

Nothing == <<>>

RequantInit ==
  /\ layers \in Layers \X Others
  /\ quant = [k \in 1 .. 2 |-> Quantized(layers[k])]
  /\ product = 0 /\ shift1 = 1 /\ zp1 = 0 /\ relu1 = FALSE
  /\ shifted = 0 /\ zp2 = 0 /\ relu2 = FALSE /\ data_out = 0
  /\ valid1 = FALSE /\ valid2 = FALSE /\ valid_out = FALSE
  /\ asked = <<Nothing, Nothing, Nothing>>

(* tile.sv and the layer tables: ReLU6 is a ReLU to the hardware.            *)
HasRelu(q) == q.act \in {"relu", "relu6"}

Stage1(valid, k, acc) ==
  /\ valid1' = valid
  /\ product' = acc * quant[k].m
  /\ shift1' = IF valid THEN quant[k].shift ELSE shift1
  /\ zp1'    = IF valid THEN quant[k].y.zero ELSE zp1
  /\ relu1'  = IF valid THEN HasRelu(quant[k]) ELSE relu1

Stage2 ==
  /\ valid2' = valid1 /\ zp2' = zp1 /\ relu2' = relu1
  /\ shifted' = (product + 2 ^ (shift1 - 1)) \div 2 ^ shift1

(* Mutant: the zero point of the request behind this one. *)
WithZeroPoint_Stage1 == shifted + zp1
WithZeroPoint == shifted + zp2

Stage3 ==
  LET clamped == Clip(WithZeroPoint, QMin, QMax)
  IN  /\ valid_out' = valid2
      /\ data_out' = IF relu2 /\ clamped < 0 THEN 0 ELSE clamped

Requantize(valid, k, x) ==
  /\ Stage1(valid, k, Accumulated(quant[k], x)) /\ Stage2 /\ Stage3
  /\ asked' = <<IF valid THEN <<k, x>> ELSE Nothing, asked[1], asked[2]>>
  /\ UNCHANGED <<layers, quant>>

(* Without valid_in the sums still hold some value. *)
RequantNext ==
  \/ \E k \in 1 .. 2 : \E x \in layers[k].xs : Requantize(TRUE, k, x)
  \/ Requantize(FALSE, 1, CHOOSE x \in layers[1].xs : TRUE)

RequantSpec == RequantInit /\ [][RequantNext]_requantVars

-------------------------------------------------------------------------------
Layer == layers[asked[3][1]]
Params == quant[asked[3][1]]
Input == asked[3][2]
Fanin(l) == Cardinality(DOMAIN l.w)

(* Every request, and nothing else, comes out three clocks later as            *)
(* INT8Interpreter computes it, whatever requests are around it: rounding, the *)
(* ends of INT8 and ReLU6 included, which the hardware clips at 127 only.      *)
HardwareIsInterpreter ==
  /\ valid_out <=> asked[3] # Nothing
  /\ valid_out => data_out = execute_fused_layer(Params, Input)

(* "Tolerance: output_scale * 10": the result of each layer on the very         *)
(* samples it was calibrated with.                                         *)
QuantizationKeepsMeaning == valid_out => Within(10, Layer, Params, Input, data_out)

(* It does so where no zero point is lost, for symmetric inputs, no activation    *)
(* and an output range that includes 0, unless the layer has too many inputs or  *)
(* its outputs are small beside the products summed.                        *)
SymmetricLayersKeepMeaning ==
  valid_out /\ Layer.act = "none"
    /\ Min(Values(Layer)) = -Max(Values(Layer))
    /\ Min(Results(Layer)) <= 0 /\ Max(Results(Layer)) >= 0
    /\ (4 * Fanin(Layer) + 1) * MaxAbs(Layer) * Params.x.span <= (38 - Fanin(Layer)) * Params.y.span =>
    Within(10, Layer, Params, Input, data_out)
===============================================================================
