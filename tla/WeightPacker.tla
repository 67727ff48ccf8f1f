------------------------------ MODULE WeightPacker -----------------------------
(***************************************************************************)
(* WeightPacker (src/mlasic/weight_packer.py): after scheduling it writes the *)
(* rows of the weight and bias memories, layer by layer in topological        *)
(* order.  A memory word is represented by its coordinates in the tensor it   *)
(* comes from; hex formatting and memory_map.json are left out.              *)
(*                                                                         *)
(* What the generated hardware reads is stated here with the address formulas *)
(* of the layer controller (rtl/layer/fused_linear_relu.sv), which knows the   *)
(* number of lanes and the bases but not the layer's own parallelism.        *)
(***************************************************************************)
EXTENDS LinearScheduler

VARIABLES
  weightBank,    (* all_weight_rows: lane -> <<node, input, output>>          *)
  biasBank       (* all_bias_rows: lane -> <<node, output>>                   *)

packVars == <<schedVars, weightBank, biasBank>>

Padding == <<>>
Lanes == 0 .. MaxParallelism - 1

PackInit == SchedInit /\ weightBank = <<>> /\ biasBank = <<>>

(* Mutant: rows follow the matrix, all tiles of an input together.            *)
PackLayerWeights_InputMajor(n, ls) ==
  [r \in 1 .. ls.tiles * InputDim(n) |->
     LET tile == (r - 1) % ls.tiles
         input == (r - 1) \div ls.tiles
     IN  [lane \in Lanes |-> IF lane < ls.parallelism
                             THEN <<n, input, tile * ls.parallelism + lane>> ELSE Padding]]

(* _pack_layer_weights: tile by tile, a row for every input. *)
PackLayerWeights(n, ls) ==
  [r \in 1 .. ls.tiles * InputDim(n) |->
     LET tile == (r - 1) \div InputDim(n)
         input == (r - 1) % InputDim(n)
     IN  [lane \in Lanes |-> IF lane < ls.parallelism
                             THEN <<n, input, tile * ls.parallelism + lane>> ELSE Padding]]

(* _pack_layer_biases: the vector cut into rows, whatever the tiles are.      *)
PackLayerBiases(n) ==
  [r \in 1 .. Ceil(OutputDim(n), BiasesPerRow) |->
     [k \in 0 .. BiasesPerRow - 1 |->
        LET o == (r - 1) * BiasesPerRow + k
        IN  IF o < OutputDim(n) THEN <<n, o>> ELSE Padding]]

Packed == Cardinality({n \in Nodes : \E r \in DOMAIN biasBank :
                                       biasBank[r][0] = <<n, 0>>})

(* One iteration of pack_weights; rows that are not the scheduled number raise. *)
Packing ==
  /\ stage = "scheduled" /\ Packed < NumNodes
  /\ LET n == order[Packed + 1]
         ls == plan[Packed + 1]
         rows == PackLayerWeights(n, ls)
     IN  /\ Len(rows) = ls.weightRows
         /\ weightBank' = weightBank \o rows
         /\ biasBank' = biasBank \o PackLayerBiases(n)
  /\ UNCHANGED schedVars

Scheduling == SchedNext /\ UNCHANGED <<weightBank, biasBank>>

PackNext == Scheduling \/ Packing

PackSpec == PackInit /\ [][PackNext]_packVars

-------------------------------------------------------------------------------
(* The reads of the layer controller in tile k of a layer. *)
WeightRead(ls, inDim, k, input) == weightBank[ls.weightStart + k * inDim + input + 1]
BiasRead(ls, k, cnt) ==
  biasBank[ls.biasStart + k * (MaxParallelism \div BiasesPerRow) + cnt \div BiasesPerRow + 1]
          [cnt % BiasesPerRow]

(* The byte of the next layer's input buffer that a lane is written to.       *)
WrittenTo(k, lane) == k * MaxParallelism + lane

UsesAllLanes(ls) == ls.tiles = 1 \/ ls.parallelism = MaxParallelism

(* Once everything is packed, each lane of each tile of layer number i finds   *)
(* in the shared memories the weight and the bias of the output it computes,   *)
(* and leaves that output where the next layer reads it.  The rows are laid    *)
(* out by the scheduler's cursors, filled by the packer and addressed by the   *)
(* hardware, each with a formula of its own.                                *)
LayerIsAddressed(i) ==
  LET ls == plan[i]
      n == order[i]
  IN  \A k \in 0 .. ls.tiles - 1, lane \in 0 .. ls.parallelism - 1 :
        LET o == k * ls.parallelism + lane IN
        /\ \A input \in 0 .. InputDim(n) - 1 :
             WeightRead(ls, InputDim(n), k, input)[lane] = <<n, input, o>>
        /\ BiasRead(ls, k, lane) = <<n, o>>
        /\ WrittenTo(k, lane) = o

(* A layer of one tile, and one whose tiles use all lanes, is laid out as the   *)
(* hardware reads it, behind any other layers.                              *)
OperandsAreWhereRead ==
  Packed = NumNodes => \A i \in DOMAIN plan : UsesAllLanes(plan[i]) => LayerIsAddressed(i)

(* "Packs quantized weights and biases into .mem files matching the SRAM layout *)
(* expected by RTL": every layer that the scheduler accepts.                  *)
EveryLayerIsAddressed ==
  Packed = NumNodes => \A i \in DOMAIN plan : LayerIsAddressed(i)

(* The checks of validate_stage3 on the annotations that schedule leaves:      *)
(* INV-4.2 to INV-4.5.                                                      *)
BanksAlternate(i) ==
  /\ layers[i].in = IF i % 2 = 1 THEN "A" ELSE "B"
  /\ layers[i].out = Other(layers[i].in)

RowsFollow(i) == i > 1 => plan[i].weightStart = plan[i - 1].weightStart + plan[i - 1].weightRows

validate_stage3 ==
  {i \in DOMAIN plan : \/ plan[i].index # i - 1
                       \/ ~BanksAlternate(i)
                       \/ ~RowsFollow(i)
                       \/ OutputDim(order[i]) % plan[i].parallelism # 0}

(* A chain is scheduled as validate_stage3 requires: the banks, chosen by       *)
(* liveness, alternate as the hardware does by the layer's parity, and the      *)
(* rows of the layers follow each other.                                     *)
ChainValidates == IsChain /\ stage = "scheduled" => validate_stage3 = {}
===============================================================================
