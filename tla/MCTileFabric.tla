------------------------------ MODULE MCTileFabric -----------------------------
(* Chains of two and three tiles for TileFabric: every sequence of types that     *)
(* TileMapper gives to operators, additions and activations included, linear      *)
(* layers as wide as the lanes and wider, pooling over windows whose side is     *)
(* below and at the modulus it is cut to.                                    *)
EXTENDS TileFabric

Tile(type, words, kernel) == [type |-> type, words |-> words, kernel |-> kernel]

AllTiles ==
  {Tile("LINEAR", 2, 1), Tile("LINEAR", 3, 1), Tile("POOL", 2, 2), Tile("POOL", 2, 4),
   Tile("ALU", 2, 1), Tile("ACTIVATION", 2, 1), Tile("RESHAPE", 2, 1)}

AllChains == UNION {[1 .. k -> AllTiles] : k \in 2 .. 3}
===============================================================================
