----------------------------- MODULE FabricLowering ----------------------------
(***************************************************************************)
(* The wiring of the generated tile fabric (lower_tile_fabric_module in        *)
(* src/mlasic/rtl_lowering_tile.py): tile i reads the buffer of tile i-1,      *)
(* and an ALU tile adds what it reads from the buffer of its skip source.     *)
(***************************************************************************)
EXTENDS RomMapper

FabricInput == 0     (* act_in_data, what the first tile reads *)
TiedOff     == -1    (* a skip port without a source           *)

(* Mutant: whichever producer was routed first is the skip source. *)
SkipSourceOf_First(id) ==
  IF tiles[id].type = "ALU" /\ Len(InputRoutes(id)) >= 2 THEN InputRoutes(id)[1].src ELSE TiedOff

(* _compute_skip_sources *)
SkipSourceOf(id) ==
  LET sources == [i \in DOMAIN InputRoutes(id) |-> InputRoutes(id)[i].src]
      others  == {i \in DOMAIN sources : sources[i] # id - 1}
  IN  IF tiles[id].type # "ALU" \/ Len(sources) < 2 THEN TiedOff
      ELSE IF others # {} THEN sources[Min(others)]
      ELSE sources[2]

MainSourceOf(id) == id - 1

(* The tile that makes a tensor, when one tile makes all of it.              *)
SourceOf(t) == IF t \in Inputs THEN FabricInput ELSE CHOOSE i \in TilesOf(t) : TRUE

Whole(t) == t \in Inputs \/ Cardinality(TilesOf(t)) = 1

-------------------------------------------------------------------------------
(* A residual addition whose operands come from two tiles, one of them the     *)
(* tile just before it, adds those two and nothing else; tiles that add       *)
(* nothing have no skip source.                                            *)
ResidualsAreWired ==
  Routed =>
    \A id \in DOMAIN tiles :
      LET n == tiles[id].node
          operands == {SourceOf(t) : t \in Range(ins[n])}
      IN  /\ tiles[id].type # "ALU" => SkipSourceOf(id) = TiedOff
          /\ /\ tiles[id].type = "ALU" /\ \A t \in Range(ins[n]) : Whole(t)
             /\ Cardinality(operands) = 2 /\ FabricInput \notin operands
             /\ id - 1 \in operands
             => {MainSourceOf(id), SkipSourceOf(id)} = operands

(* "wires up the static activation routing + skip connections": every         *)
(* addition is wired to what it adds.                                      *)
EveryAddIsWired ==
  Routed =>
    \A id \in DOMAIN tiles : tiles[id].type = "ALU" =>
      LET n == tiles[id].node
      IN  (\A t \in Range(ins[n]) : Whole(t))
          => {MainSourceOf(id), SkipSourceOf(id)} = {SourceOf(t) : t \in Range(ins[n])}
===============================================================================
