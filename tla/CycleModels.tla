------------------------------- MODULE CycleModels -----------------------------
(***************************************************************************)
(* The cycle models of src/mlasic/dag_scheduler.py: what an operator costs,   *)
(* from the shapes of its tensors, and how many bytes of weights and biases   *)
(* it has.  Shapes leave out the batch of one: <<features>> for a vector,     *)
(* <<channels, height, width>> for an image.  The operators are one or two of *)
(* each cycle model that an optimised network keeps; unfused ones and the    *)
(* fallbacks for missing shapes and attributes are left out.               *)
(***************************************************************************)
EXTENDS Integers, Sequences, GraphIR

CONSTANT MaxParallelism   (* constraints.max_parallelism *)

ASSUME LanesAssumption == MaxParallelism \in Nat \ {0}

VARIABLES
  op,              (* node -> op_type                                       *)
  shape            (* tensor -> its shape                                   *)

opVars == <<op, shape>>

Kernel == 3          (* kernel_shape of the convolutions, with padding of 1    *)
Element == 1         (* bytes of a quantized activation                       *)

InShape(n)  == shape[ins[n][1]]
IsImage(t)  == Len(shape[t]) = 3
LastDim(s)  == s[Len(s)]
Numel(s)    == IF Len(s) = 3 THEN s[1] * s[2] * s[3] ELSE s[1]
CeilDiv(a, b) == (a + b - 1) \div b

(* _compute_parallelism: the most lanes that divide the outputs evenly. *)
LanesFor(outputs) ==
  CHOOSE p \in 1 .. MaxParallelism :
    /\ outputs % p = 0
    /\ \A q \in p + 1 .. MaxParallelism : outputs % q # 0

(* LinearCycleModel, MatMulCycleModel *)
LinearCycles(inDim, outDim) == (outDim \div LanesFor(outDim)) * (inDim + 149)

ConvCycles(n) ==
  LET out == shape[n]
  IN  CeilDiv(out[1], LanesFor(out[1])) * out[2] * out[3]
        * (Kernel * Kernel * InShape(n)[1] + 10)

(* GLOBAL_AVERAGE_POOL: every output pixel is made from the whole image.      *)
PoolCycles(n) == Numel(shape[n]) * InShape(n)[2] * InShape(n)[3]

ElementwiseCycles(n) == CeilDiv(Numel(shape[n]), MaxParallelism)

(* CYCLE_MODEL_REGISTRY *)
CycleModel ==
  [FUSED_LINEAR        |-> "Linear",      FUSED_CONV       |-> "Conv",
   FUSED_GELU          |-> "Elementwise", ADD              |-> "Elementwise",
   SOFTMAX             |-> "Softmax",     FUSED_LAYER_NORM |-> "LayerNorm",
   GROUP_NORM          |-> "LayerNorm",   FUSED_ATTENTION  |-> "MatMul",
   GLOBAL_AVERAGE_POOL |-> "Pool",        FLATTEN          |-> "Reshape",
   CONCAT              |-> "Reshape"]

EstimateCycles(n) ==
  CASE CycleModel[op[n]] \in {"Linear", "MatMul"} -> LinearCycles(LastDim(InShape(n)), LastDim(shape[n]))
    [] CycleModel[op[n]] = "Conv"        -> ConvCycles(n)
    [] CycleModel[op[n]] = "Softmax"     -> 3 * LastDim(InShape(n))
    [] CycleModel[op[n]] = "LayerNorm"   -> 2 * LastDim(InShape(n)) + 10
    [] CycleModel[op[n]] = "Elementwise" -> ElementwiseCycles(n)
    [] CycleModel[op[n]] = "Pool"        -> PoolCycles(n)
    [] CycleModel[op[n]] = "Reshape"     -> 0

(* INT8 weights and INT32 biases of the nodes with fused_attrs that have them. *)
IsMac(n)      == op[n] \in {"FUSED_LINEAR", "FUSED_CONV"}
OutputDim(n)  == shape[n][1]
BytesPerOutput(n) ==
  IF op[n] = "FUSED_CONV" THEN InShape(n)[1] * Kernel * Kernel ELSE InShape(n)[1]
WeightBytes(n) == IF IsMac(n) THEN OutputDim(n) * BytesPerOutput(n) ELSE 0
BiasBytes(n)   == IF IsMac(n) THEN 4 * OutputDim(n) ELSE 0

SizeBytes == [t \in Tensors |-> Element * Numel(shape[t])]

-------------------------------------------------------------------------------
(* Networks are built from what each node is for: the same use convolves an   *)
(* image and multiplies a vector.  A node of two activations adds what has    *)
(* the same shape and concatenates the rest.                               *)
CONSTANT Networks    (* bound: sets of [use, width, input]                    *)

ASSUME NetworksAssumption ==
  /\ Networks # {} => Forward
  /\ \A net \in Networks : DOMAIN net.use = Nodes /\ DOMAIN net.width = Nodes

OpFor(use, image) ==
  CASE use = "weights" -> IF image THEN "FUSED_CONV" ELSE "FUSED_LINEAR"
    [] use = "norm"    -> IF image THEN "GROUP_NORM" ELSE "FUSED_LAYER_NORM"
    [] use = "reduce"  -> IF image THEN "GLOBAL_AVERAGE_POOL" ELSE "SOFTMAX"
    [] use = "flat"    -> IF image THEN "FLATTEN" ELSE "FUSED_ATTENTION"
    [] use = "gelu"    -> "FUSED_GELU"

ShapeAfter(kind, s, width) ==
  CASE kind \in {"FUSED_LINEAR", "FUSED_CONV"} -> [s EXCEPT ![1] = width]
    [] kind = "GLOBAL_AVERAGE_POOL"            -> <<s[1], 1, 1>>
    [] kind = "FLATTEN"                        -> <<Numel(s)>>
    [] OTHER                                   -> s

(* Every tensor with the operator that makes it, earlier nodes first.        *)
Built(net) ==
  LET made[t \in Tensors] ==
        IF t \in Inputs THEN [op |-> "INPUT", shape |-> net.input] ELSE
        LET s == made[ins[t][1]].shape
            kind == OpFor(net.use[t], Len(s) = 3)
        IN  IF Len(ins[t]) = 1
              THEN [op |-> kind, shape |-> ShapeAfter(kind, s, net.width[t])]
            ELSE LET r == made[ins[t][2]].shape
                 IN  IF r = s THEN [op |-> "ADD", shape |-> s]
                     ELSE [op |-> "CONCAT", shape |-> [s EXCEPT ![1] = @ + r[1]]]
  IN  made

(* Every tensor has a known shape (INV-1.9 of ir.py), and what slides a window  *)
(* over an image has an image to read and to write.                         *)
Shaped ==
  /\ op \in [Nodes -> DOMAIN CycleModel]
  /\ shape \in [Tensors -> Seq(Nat \ {0})]
  /\ \A t \in Tensors : Len(shape[t]) \in {1, 3}
  /\ \A n \in Nodes : CycleModel[op[n]] \in {"Conv", "Pool"} => IsImage(ins[n][1]) /\ IsImage(n)

OpInit ==
  \E net \in Networks :
    /\ op = [n \in Nodes |-> Built(net)[n].op]
    /\ shape = [t \in Tensors |-> Built(net)[t].shape]
    /\ Shaped
    /\ \A n \in Nodes : op[n] = "CONCAT" => Tail(shape[ins[n][1]]) = Tail(shape[ins[n][2]])
===============================================================================
