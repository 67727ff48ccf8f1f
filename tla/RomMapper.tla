------------------------------- MODULE RomMapper -------------------------------
(***************************************************************************)
(* WeightROMMapper.generate (src/mlasic/rom_mapper.py): what the ROM of each   *)
(* MAC tile holds.  A weight is named by its output and its input, <<o, i>>,  *)
(* and a weight tensor is laid out [outputs][inputs] for a convolution and    *)
(* [inputs][outputs] for a linear layer.  Files, manifest and biases, which   *)
(* are sliced alike, are left out.                                         *)
(***************************************************************************)
EXTENDS TileMapper

InputDim(n) == BytesPerOutput(n)

(* The extents of the weight tensor: dimension 0, and the rest flattened.    *)
Dim0(n) == IF op[n] = "FUSED_CONV" THEN OutputDim(n) ELSE InputDim(n)
Dim1(n) == IF op[n] = "FUSED_CONV" THEN InputDim(n) ELSE OutputDim(n)
WeightAt(n, a, b) == IF op[n] = "FUSED_CONV" THEN <<a, b>> ELSE <<b, a>>

(* weight_data[start:end], which ends with the dimension.                    *)
Slice(t) ==
  IF t.split THEN t.first .. Min({t.end, Dim0(t.node)}) - 1 ELSE 0 .. Dim0(t.node) - 1

(* flatten() of the slice. *)
Flat(t) ==
  [k \in 0 .. Cardinality(Slice(t)) * Dim1(t.node) - 1 |->
     WeightAt(t.node, t.first + k \div Dim1(t.node), k % Dim1(t.node))]

RomContents(t) == {Flat(t)[k] : k \in DOMAIN Flat(t)}

(* _write_weight_mem: lane l of row r; the last row is padded with zeros.     *)
RomWord(t, row, lane) ==
  LET k == row * MaxParallelism + lane
  IN  IF k \in DOMAIN Flat(t) THEN Flat(t)[k] ELSE "zero"

MacTiles == {tiles[i] : i \in {i \in DOMAIN tiles : tiles[i].type = "MAC"}}
OutputsOf(t) == t.first .. t.end - 1

-------------------------------------------------------------------------------
(* The tile of a linear layer reads row i for input i, and lane l computes the *)
(* l-th output of the tile.                                                *)
ServesItsLanes(t) ==
  \A i \in 0 .. InputDim(t.node) - 1, o \in OutputsOf(t) :
    o - t.first < MaxParallelism => RomWord(t, i, o - t.first) = <<o, i>>

(* The tiles of a node share its outputs out without a gap or an overlap,      *)
(* none gets more weights than its ROM holds unless one output alone is too   *)
(* large, the ROM of a convolution holds exactly the weights of its tile's    *)
(* outputs, and that of a linear layer as wide as the tile is laid out as its  *)
(* lanes read it.                                                          *)
TilesShareTheOutputs ==
  Routed =>
    /\ \A n \in Nodes : IsMac(n) =>
         \A o \in 0 .. OutputDim(n) - 1 :
           Cardinality({i \in TilesOf(n) : o \in OutputsOf(tiles[i])}) = 1
    /\ \A t \in MacTiles :
         /\ t.weight <= MaxWeightRomBytes \/ t.end = t.first + 1
         /\ op[t.node] = "FUSED_CONV" =>
              RomContents(t) = OutputsOf(t) \X (0 .. InputDim(t.node) - 1)
         /\ op[t.node] = "FUSED_LINEAR" /\ ~t.split /\ OutputDim(t.node) = MaxParallelism =>
              ServesItsLanes(t)

(* "pack per the tile's access pattern": linear layers of any width (README,   *)
(* section 6).                                                             *)
RomsServeTheirLanes ==
  Routed => \A t \in MacTiles : op[t.node] = "FUSED_LINEAR" => ServesItsLanes(t)
===============================================================================
