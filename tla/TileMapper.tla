------------------------------- MODULE TileMapper ------------------------------
(***************************************************************************)
(* TileMapper.map (src/mlasic/tile_mapper.py), stage 3b: every node of the     *)
(* scheduled graph gets a tile, or several when its weights exceed a tile's   *)
(* ROM, each for a range of its outputs; then StaticRouter routes every       *)
(* tensor from the tiles that make it to those that read it.  One step is     *)
(* one iteration of the loop over the topological order.  Tile ids start at  *)
(* one here, and sums of bytes, which are only reported, are left out.       *)
(***************************************************************************)
EXTENDS DagScheduler

CONSTANT MaxWeightRomBytes   (* constraints.max_weight_rom_bytes *)

ASSUME RomAssumption == MaxWeightRomBytes \in Nat \ {0}

VARIABLES
  mapped,          (* iterations of the loop                                *)
  tiles,           (* tiles, in the order of their tile_id                  *)
  routes           (* routes, a set: `seen` drops repetitions               *)

tileVars == <<mapped, tiles, routes>>

TileInit == Init /\ mapped = 0 /\ tiles = <<>> /\ routes = {}

(* OP_TO_TILE; what is not in it is skipped with a warning.                  *)
OpToTile ==
  [FUSED_LINEAR |-> "MAC", FUSED_CONV |-> "MAC", ADD |-> "ALU", FUSED_GELU |-> "ACTIVATION",
   FUSED_LAYER_NORM |-> "NORM", SOFTMAX |-> "SOFTMAX", GLOBAL_AVERAGE_POOL |-> "POOL",
   FLATTEN |-> "RESHAPE", CONCAT |-> "RESHAPE"]

NeedsPartition(n) == OpToTile[op[n]] = "MAC" /\ WeightBytes(n) > MaxWeightRomBytes

(* How many outputs fit in one tile's ROM, one at least.                     *)
MaxOutputsPerTile(n) == MaxOf(MaxWeightRomBytes \div BytesPerOutput(n), 1)

Tile(n, first, end, split) ==
  [node |-> n, type |-> OpToTile[op[n]], first |-> first, end |-> end, split |-> split,
   weight |-> IF split THEN (end - first) * BytesPerOutput(n) ELSE WeightBytes(n)]

(* Mutant: the last, partial range of outputs is forgotten. *)
PartitionFullOnly(n) ==
  LET most == MaxOutputsPerTile(n)
  IN  [i \in 1 .. OutputDim(n) \div most |-> Tile(n, (i - 1) * most, i * most, TRUE)]

(* WeightPartitioner.partition *)
Partition(n) ==
  LET most == MaxOutputsPerTile(n)
  IN  [i \in 1 .. CeilDiv(OutputDim(n), most) |->
         Tile(n, (i - 1) * most, Min({i * most, OutputDim(n)}), TRUE)]

TilesFor(n) ==
  IF op[n] \notin DOMAIN OpToTile THEN <<>>
  ELSE IF NeedsPartition(n) THEN Partition(n)
  ELSE <<Tile(n, 0, OutputDim(n), FALSE)>>

ScheduleDone == Swept /\ Len(plans) = NumNodes

Mapping ==
  /\ ScheduleDone /\ mapped < NumNodes
  /\ tiles' = tiles \o TilesFor(order[mapped + 1])
  /\ mapped' = mapped + 1
  /\ UNCHANGED <<vars, routes>>

TilesOf(n) == {i \in DOMAIN tiles : tiles[i].node = n}

Latency(src, dst) == LET d == IF src < dst THEN dst - src ELSE src - dst
                     IN  IF d <= 1 THEN 0 ELSE d - 1

Route(src, dst, t) == [src |-> src, dst |-> dst, tensor |-> t, latency |-> Latency(src, dst)]

(* Mutant: only from the first tile of a producer. *)
FirstTileRoutes ==
  UNION {{Route(Min(TilesOf(n)), dst, n) : dst \in UNION {TilesOf(m) : m \in Consumers(n)}} :
         n \in {n \in Nodes : TilesOf(n) # {}}}

(* StaticRouter.route *)
AllRoutes ==
  UNION {{Route(src, dst, n) : src \in TilesOf(n), dst \in UNION {TilesOf(m) : m \in Consumers(n)}} :
         n \in Nodes}

Routing ==
  /\ mapped = NumNodes /\ routes = {} /\ AllRoutes # {}
  /\ routes' = AllRoutes
  /\ UNCHANGED <<vars, mapped, tiles>>

Earlier == Next /\ UNCHANGED tileVars

TileNext == Earlier \/ Mapping \/ Routing

TileSpec == TileInit /\ [][TileNext]_<<vars, tileVars>>

Routed == mapped = NumNodes /\ routes = AllRoutes

(* The order in which route() appends routes to a tile: producers in the order *)
(* of graph.nodes, then by source tile.                                    *)
AppendedBefore(r, q) == r.tensor < q.tensor \/ (r.tensor = q.tensor /\ r.src < q.src)

(* input_routes of a tile. *)
InputRoutes(dst) ==
  LET arriving == {r \in routes : r.dst = dst}
  IN  Ranked(arriving, {p \in arriving \X arriving : AppendedBefore(p[1], p[2])})

-------------------------------------------------------------------------------
(* A tensor reaches every tile that needs it from every tile that makes a     *)
(* part of it, and only along the schedule: a tile never waits for one that   *)
(* comes after it, whatever order the memory-aware schedule chose, so the     *)
(* fabric may run its tiles by id.                                         *)
RoutesCarryTheDataflow ==
  Routed =>
    /\ \A r \in routes : r.src < r.dst
    /\ \A m \in Nodes : \A n \in Range(ins[m]) \cap Nodes :
         \A dst \in TilesOf(m), src \in TilesOf(n) :
           \E i \in DOMAIN InputRoutes(dst) :
             InputRoutes(dst)[i].src = src /\ InputRoutes(dst)[i].tensor = n
===============================================================================
