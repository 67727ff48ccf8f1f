--------------------------- MODULE TileFabric_proof ----------------------------
(***************************************************************************)
(* Proofs about TileFabric, for every chain of tiles, width, window and number   *)
(* of inferences, soft resets at any time included.  The inductive invariant     *)
(* says that no tile but the one at tile_idx has left its idle state, that the   *)
(* buffers behind that tile are full of what was written since the fabric was    *)
(* started, and how far the tile has filled its own.                         *)
(***************************************************************************)
EXTENDS TileFabric, TLAPS

TileType ==
  [st : {"IDLE", "READ", "WINDOW", "WRITE", "NEXT", "ACTIVE", "WAIT_MAC", "DONE"},
   cnt : Nat, out : Nat, pipe : BOOLEAN, acc : SUBSET Nat]

TypeInv ==
  /\ chain \in Chains
  /\ top \in {"IDLE", "RECV_IN", "RUN_FABRIC", "SEND_OUT", "DONE"}
  /\ run \in 0 .. MaxRuns
  /\ fab \in {"IDLE", "RUN_TILE", "NEXT_TILE", "DONE"}
  /\ idx \in Nat
  /\ fabRun \in Nat
  /\ tile \in [Ids -> TileType]
  /\ buf \in [Ids -> [0 .. ActDepth - 1 -> Nat]]

AtATile == fab \in {"RUN_TILE", "NEXT_TILE"} => idx \in Ids

(* Tiles at rest have no write under way. *)
AtRest(i) == tile[i].st = "IDLE" /\ ~tile[i].pipe

OthersAtRest == \A i \in Ids : ~TileStart(i) => AtRest(i)

Full(i, k) == \A w \in 0 .. ActDepth - 1 : w < k => buf[i][w] = fabRun

BehindIsFull ==
  \A i \in Ids :
    /\ \/ fab = "RUN_TILE" /\ i < idx
       \/ fab = "NEXT_TILE" /\ i <= idx
    /\ Type(i) # "RESHAPE"
    => Full(i, chain[i].words)

(* The states of each type of tile; activations never leave theirs.           *)
Shape(i) ==
  LET t == tile[i] IN
  CASE Type(i) = "LINEAR" -> ~t.pipe /\ t.st \in {"IDLE", "READ", "WRITE", "WAIT_MAC", "DONE"}
    [] Type(i) = "POOL"   -> ~t.pipe /\ t.st \in {"IDLE", "WINDOW", "WRITE", "NEXT", "DONE"}
    [] Type(i) = "ALU"    -> t.st \in {"IDLE", "ACTIVE"}
    [] OTHER              -> ~t.pipe /\ t.st = "IDLE"

Shapes == \A i \in Ids : Shape(i)

(* What a running tile has read, if the tile before it wrote a buffer.        *)
HasSource(i) == i > 1 /\ Type(i - 1) # "RESHAPE"

ReadSoFar(i) ==
  LET t == tile[i] IN
  /\ t.st \in {"READ", "WINDOW"} => t.acc \subseteq {fabRun}
  /\ t.st = "WRITE" => t.acc = {fabRun}
  /\ t.pipe /\ t.out < InWords(i) => t.acc = {fabRun}

(* What it has written: a tile that is done with its position k has filled its   *)
(* buffer up to k.                                                         *)
OutWords(i) == IF Type(i) = "LINEAR" THEN LaneWords ELSE chain[i].words

WrittenSoFar(i) ==
  LET t == tile[i] IN
  /\ t.st = "READ" => t.out = 0
  /\ t.st \in {"WINDOW", "WRITE"} => t.out < OutWords(i) /\ Full(i, t.out)
  /\ t.st = "NEXT" => t.out < OutWords(i) /\ Full(i, t.out + 1)
  /\ t.st = "DONE" => Full(i, chain[i].words)

RunningTile ==
  \A i \in Ids : TileStart(i) => (HasSource(i) => ReadSoFar(i)) /\ WrittenSoFar(i)

IInv == TypeInv /\ AtATile /\ Shapes /\ OthersAtRest /\ BehindIsFull /\ RunningTile

-------------------------------------------------------------------------------
(* A remainder is below its modulus, and what is below it is its remainder.  *)
LEMMA ModRange ==
  ASSUME NEW m \in Nat \ {0}, NEW x \in Nat
  PROVE  x % m \in 0 .. m - 1 /\ (x < m => x % m = x)
  OBVIOUS

(* The tiles of a chain are numbered from one, and fit the buffers. *)
LEMMA ChainFacts ==
  ASSUME TypeInv
  PROVE  /\ Len(chain) \in Nat \ {0} /\ Ids = 1 .. Len(chain)
         /\ \A i \in Ids : Type(i) \in TileTypes /\ chain[i].words \in 1 .. ActDepth
<1>1. chain \in Seq(Tiles) /\ chain # <<>>
  BY FabricAssumption DEF TypeInv
<1>2. Len(chain) \in Nat \ {0} /\ Ids = 1 .. Len(chain)
  BY <1>1 DEF Ids
<1>3. ASSUME NEW i \in Ids PROVE Type(i) \in TileTypes /\ chain[i].words \in 1 .. ActDepth
  <2>1. chain[i] \in Tiles
    BY <1>1, <1>2
  <2> QED BY <2>1 DEF Tiles, Type
<1> QED BY <1>2, <1>3

(* What a tile reads and writes fits the buffers; a linear tile with one output  *)
(* tile writes no fewer words than the tile behind it reads.                 *)
LEMMA WidthFacts ==
  ASSUME TypeInv, NEW i \in Ids
  PROVE  /\ InWords(i) \in 1 .. ActDepth /\ OutWords(i) \in 1 .. ActDepth
         /\ NumTiles(i) = 1 => chain[i].words <= LaneWords
<1>1. /\ ActDepth \in Nat \ {0} /\ LaneWords \in 1 .. ActDepth /\ Words \in 1 .. ActDepth
      /\ chain[i].words \in 1 .. ActDepth
  BY ChainFacts, FabricAssumption
<1>2. i # 1 => chain[i - 1].words \in 1 .. ActDepth
  BY ChainFacts
<1>3. \A v \in Nat : (v + LaneWords - 1) \div LaneWords = 1 => v <= LaneWords
  BY <1>1
<1> QED BY <1>1, <1>2, <1>3 DEF InWords, OutWords, NumTiles

(* What one clock edge does to tiles and buffers. *)
LEMMA ClkTiles ==
  ASSUME TypeInv, Clk
  PROVE  \E wire \in Nat :
           /\ tile' = [i \in Ids |-> TileClk(i, wire)] /\ buf' = [i \in Ids |-> BufClk(i)]
           /\ chain' = chain /\ Ids' = Ids
<1>1. StreamWords \subseteq Nat
  BY FabricAssumption DEF StreamWords, Never, TypeInv
<1> QED BY <1>1 DEF Clk, Ids

(* A wire into a tile carries the number of an inference. *)
LEMMA InDataNat ==
  ASSUME TypeInv, NEW i \in Ids, NEW w \in 0 .. ActDepth - 1, NEW wire \in Nat
  PROVE  InData(i, w, wire) \in Nat
<1>1. i # 1 => i - 1 \in Ids
  BY ChainFacts
<1>2. ASSUME NEW j \in Ids PROVE buf[j][w] \in Nat
  <2>1. buf[j] \in [0 .. ActDepth - 1 -> Nat]
    BY DEF TypeInv
  <2> QED BY <2>1
<1> QED BY <1>1, <1>2 DEF InData

(* A tile's registers stay in their types. *)
LEMMA TileClkType ==
  ASSUME TypeInv, NEW i \in Ids, Shape(i), NEW wire \in Nat
  PROVE  TileClk(i, wire) \in TileType
<1> DEFINE t == tile[i]
           n == InWords(i)
<1>1. t \in TileType /\ t.cnt \in Nat /\ t.out \in Nat /\ t.acc \in SUBSET Nat
  BY DEF TypeInv, TileType
<1>2. n \in 1 .. ActDepth
  BY WidthFacts
<1> HIDE DEF t, n
<1>3. ActDepth \in Nat \ {0} /\ CountMod \in Nat \ {0}
  BY FabricAssumption
<1>4. /\ (t.cnt + 1) % CountMod \in Nat
      /\ \A x \in Nat : x % n \in 0 .. ActDepth - 1
      /\ t.cnt % ActDepth \in 0 .. ActDepth - 1
  <2>1. t.cnt + 1 \in Nat
    BY <1>1
  <2>2. (t.cnt + 1) % CountMod \in 0 .. CountMod - 1
    BY <1>3, <2>1, ModRange
  <2>3. t.cnt % ActDepth \in 0 .. ActDepth - 1
    BY <1>1, <1>3, ModRange
  <2>4. ASSUME NEW x \in Nat PROVE x % n \in 0 .. ActDepth - 1
    <3>1. n \in Nat \ {0} /\ n <= ActDepth
      BY <1>2
    <3>2. x % n \in 0 .. n - 1
      BY <3>1, ModRange
    <3> QED BY <1>3, <3>1, <3>2
  <2> QED BY <1>3, <2>2, <2>3, <2>4
<1>5. \A w \in 0 .. ActDepth - 1 : Reading(t, i, w, wire) \in TileType
  <2> TAKE w \in 0 .. ActDepth - 1
  <2>1. InData(i, w, wire) \in Nat
    BY InDataNat
  <2> QED BY <1>1, <1>4, <2>1 DEF Reading, TileType
<1>6. Idle \in TileType
  BY DEF Idle, TileType
<1>7. Type(i) \in TileTypes
  BY ChainFacts
<1>8. CASE Type(i) = "LINEAR"
  <2>1. Reading(t, i, t.cnt % n, wire) \in TileType
    BY <1>1, <1>4, <1>5
  <2>2. t.st \in {"IDLE", "READ", "WRITE", "WAIT_MAC", "DONE"}
    BY <1>8 DEF Shape, t
  <2>3. LinearClk(t, i, wire) \in TileType
    <3>1. CASE t.st = "IDLE"
      BY <1>6, <3>1 DEF LinearClk, TileType, Idle
    <3>2. CASE t.st = "READ"
      BY <2>1, <3>2 DEF LinearClk, TileType, n
    <3>3. CASE t.st = "WRITE"
      BY <1>1, <3>3 DEF LinearClk, TileType
    <3>4. CASE t.st = "WAIT_MAC"
      BY <1>1, <3>4 DEF LinearClk
    <3>5. CASE t.st = "DONE"
      BY <1>1, <3>5 DEF LinearClk, TileType
    <3> QED BY <2>2, <3>1, <3>2, <3>3, <3>4, <3>5
  <2> QED BY <1>8, <2>3 DEF TileClk, t
<1>9. CASE Type(i) = "POOL"
  <2>1. Reading(t, i, (t.out + t.cnt) % n, wire) \in TileType
    BY <1>1, <1>4, <1>5
  <2>2. t.st \in {"IDLE", "WINDOW", "WRITE", "NEXT", "DONE"}
    BY <1>9 DEF Shape, t
  <2>3. PoolClk(t, i, wire) \in TileType
    <3>1. CASE t.st = "IDLE"
      BY <1>6, <3>1 DEF PoolClk, TileType, Idle
    <3>2. CASE t.st = "WINDOW"
      BY <2>1, <3>2 DEF PoolClk, TileType, n
    <3>3. CASE t.st = "WRITE"
      BY <1>1, <3>3 DEF PoolClk, TileType
    <3>4. CASE t.st = "NEXT"
      <4>1. t.out + 1 \in Nat
        BY <1>1
      <4>2. [t EXCEPT !.st = "DONE"] \in TileType
        BY <1>1 DEF TileType
      <4>3. [Idle EXCEPT !.st = "WINDOW", !.out = t.out + 1] \in TileType
        BY <4>1 DEF TileType, Idle
      <4> QED BY <3>4, <4>2, <4>3 DEF PoolClk
    <3>5. CASE t.st = "DONE"
      BY <1>1, <3>5 DEF PoolClk, TileType
    <3> QED BY <2>2, <3>1, <3>2, <3>3, <3>4, <3>5
  <2> QED BY <1>9, <2>3 DEF TileClk, t
<1>10. CASE Type(i) = "ALU"
  <2>1. InData(i, t.cnt % ActDepth, wire) \in Nat
    BY <1>4, InDataNat
  <2>2. AluClk(t, i, wire) \in TileType
    BY <1>1, <1>4, <1>6, <2>1 DEF AluClk, TileType, Idle
  <2> QED BY <1>10, <2>2 DEF TileClk, t
<1>11. CASE Type(i) = "ACTIVATION"
  BY <1>1, <1>6, <1>11 DEF TileClk, ActivationClk, t
<1>12. CASE Type(i) = "RESHAPE"
  BY <1>1, <1>12 DEF TileClk, t
<1> QED BY <1>7, <1>8, <1>9, <1>10, <1>11, <1>12 DEF TileTypes

(* The types are kept. *)
LEMMA ClkType == ASSUME TypeInv, Shapes, Clk PROVE TypeInv'
<1>1. PICK ctrlStart \in BOOLEAN, softRst \in BOOLEAN, inDone \in BOOLEAN, outDone \in BOOLEAN :
        /\ ctrlStart => run < MaxRuns
        /\ TopClk(ctrlStart, softRst, inDone, outDone)
        /\ FabricClk(FabricStart(inDone))
  BY DEF Clk
<1>2. PICK wire \in Nat :
        /\ tile' = [i \in Ids |-> TileClk(i, wire)] /\ buf' = [i \in Ids |-> BufClk(i)]
        /\ chain' = chain /\ Ids' = Ids
  BY ClkTiles
<1>3. tile' \in [Ids -> TileType]
  BY <1>2, TileClkType DEF Shapes
<1>4. ASSUME NEW i \in Ids PROVE BufClk(i) \in [0 .. ActDepth - 1 -> Nat]
  BY DEF TypeInv, BufClk
<1>5. buf' \in [Ids -> [0 .. ActDepth - 1 -> Nat]]
  BY <1>2, <1>4
<1>6. MaxRuns \in Nat /\ run \in 0 .. MaxRuns /\ idx \in Nat /\ fabRun \in Nat
  BY FabricAssumption DEF TypeInv
<1>7. top' \in {"IDLE", "RECV_IN", "RUN_FABRIC", "SEND_OUT", "DONE"} /\ run' \in 0 .. MaxRuns
  BY <1>1, <1>6 DEF TopClk, TypeInv
<1>8. /\ fab' \in {"IDLE", "RUN_TILE", "NEXT_TILE", "DONE"}
      /\ idx' \in Nat
      /\ fabRun' \in Nat
  BY <1>1, <1>6 DEF FabricClk, TypeInv
<1>9. chain' \in Chains
  BY <1>2 DEF TypeInv
<1> QED BY <1>2, <1>3, <1>5, <1>7, <1>8, <1>9 DEF TypeInv

(* Each kind of tile stays among its states. *)
LEMMA ClkShapes == ASSUME TypeInv, Shapes, Clk PROVE Shapes'
<1>1. PICK wire \in Nat : tile' = [i \in Ids |-> TileClk(i, wire)] /\ chain' = chain /\ Ids' = Ids
  BY ClkTiles
<1> SUFFICES ASSUME NEW i \in Ids PROVE Shape(i)'
  BY <1>1 DEF Shapes
<1> DEFINE t == tile[i]
<1>2. t \in TileType /\ tile'[i] = TileClk(i, wire) /\ Type(i)' = Type(i) /\ Shape(i)
  BY <1>1 DEF TypeInv, Shapes, Type
<1>3. Type(i) \in TileTypes
  BY ChainFacts
<1>4. CASE Type(i) = "LINEAR"
  BY <1>2, <1>4 DEF Shape, TileClk, LinearClk, Reading, Idle, TileType
<1>5. CASE Type(i) = "POOL"
  BY <1>2, <1>5 DEF Shape, TileClk, PoolClk, Reading, Idle, TileType
<1>6. CASE Type(i) = "ALU"
  BY <1>2, <1>6 DEF Shape, TileClk, AluClk, Idle, TileType
<1>7. CASE Type(i) = "ACTIVATION"
  BY <1>2, <1>7 DEF Shape, TileClk, ActivationClk, Idle
<1>8. CASE Type(i) = "RESHAPE"
  BY <1>2, <1>8 DEF Shape, TileClk
<1> QED BY <1>3, <1>4, <1>5, <1>6, <1>7, <1>8 DEF TileTypes

(* The fabric works at a tile of its chain. *)
LEMMA ClkAtATile == ASSUME TypeInv, AtATile, Clk PROVE AtATile'
<1>1. PICK inDone \in BOOLEAN : FabricClk(FabricStart(inDone))
  BY DEF Clk
<1>2. Ids' = Ids /\ Ids = 1 .. Len(chain) /\ Len(chain) \in Nat \ {0} /\ idx \in Nat
  BY ChainFacts, ClkTiles DEF TypeInv
<1> QED BY <1>1, <1>2 DEF FabricClk, AtATile, TypeInv

-------------------------------------------------------------------------------
(* Only pooling and linear tiles report that they are done from a state of     *)
(* their own; additions and activations never do.                           *)
LEMMA DoneStates ==
  ASSUME TypeInv, Shapes, NEW i \in Ids, TileDone(i)
  PROVE  Type(i) = "RESHAPE" \/ (Type(i) \in {"LINEAR", "POOL"} /\ tile[i].st = "DONE")
<1>1. Type(i) \in TileTypes /\ Shape(i)
  BY ChainFacts DEF Shapes
<1>2. tile[i].out \in Nat
  BY DEF TypeInv, TileType
<1>3. CASE Type(i) = "ALU"
  BY <1>2, <1>3 DEF TileDone, InputDim
<1>4. CASE Type(i) = "ACTIVATION"
  BY <1>1, <1>4 DEF TileDone, Shape
<1>5. CASE Type(i) \in {"LINEAR", "POOL", "RESHAPE"}
  BY <1>5 DEF TileDone
<1> QED BY <1>1, <1>3, <1>4, <1>5 DEF TileTypes

(* A tile at rest that is not started stays so, and writes nothing. *)
LEMMA RestStep ==
  ASSUME TypeInv, Clk, NEW i \in Ids, AtRest(i), ~TileStart(i)
  PROVE  AtRest(i)' /\ ~Writes(i) /\ buf'[i] = buf[i]
<1>1. PICK wire \in Nat : tile'[i] = TileClk(i, wire) /\ buf'[i] = BufClk(i)
  BY ClkTiles
<1>2. Type(i) \in TileTypes /\ tile[i] \in TileType
  BY ChainFacts DEF TypeInv
<1>3. ~Writes(i)
  BY <1>2 DEF Writes, AtRest, TileTypes
<1>4. AtRest(i)'
  BY <1>1, <1>2 DEF AtRest, TileClk, LinearClk, PoolClk, AluClk, ActivationClk, Idle, TileTypes, TileType
<1> QED BY <1>1, <1>3, <1>4 DEF BufClk

(* A running tile behind one that writes reads what belongs to this inference. *)
LEMMA SourceIsThisRun ==
  ASSUME IInv, NEW i \in Ids, TileStart(i), HasSource(i),
         NEW w \in 0 .. ActDepth - 1, w < InWords(i), NEW wire
  PROVE  InData(i, w, wire) = fabRun
<1>1. i - 1 \in Ids /\ i - 1 < i /\ i \in Nat /\ i # 1
  BY ChainFacts DEF IInv, HasSource
<1>2. Full(i - 1, chain[i - 1].words)
  BY <1>1 DEF IInv, BehindIsFull, TileStart, HasSource
<1>3. w < chain[i - 1].words
  BY <1>1 DEF InWords
<1> QED BY <1>1, <1>2, <1>3 DEF InData, Full

(* While the fabric runs it stays with its inference; when it steps on, the     *)
(* tile it leaves is done.                                                 *)
LEMMA FabricStep ==
  ASSUME TypeInv, Clk
  PROVE  /\ fab # "IDLE" => fabRun' = fabRun
         /\ fab = "IDLE" /\ fab' = "RUN_TILE" => idx' = 1
         /\ fab = "RUN_TILE" => /\ idx' = idx
                                /\ fab' = IF TileDone(idx) THEN "NEXT_TILE" ELSE "RUN_TILE"
         /\ fab = "NEXT_TILE" /\ fab' = "RUN_TILE" => idx' = idx + 1
         /\ fab' = "NEXT_TILE" => fab = "RUN_TILE"
         /\ fab' = "RUN_TILE" => fab \in {"IDLE", "RUN_TILE", "NEXT_TILE"}
         /\ chain' = chain /\ Ids' = Ids
<1>1. PICK inDone \in BOOLEAN : FabricClk(FabricStart(inDone))
  BY DEF Clk
<1> QED BY <1>1 DEF FabricClk, TypeInv, Clk, Ids

(* A tile that is left, and every other but the one at tile_idx, is at rest.   *)
LEMMA ClkOthers == ASSUME IInv, Clk PROVE OthersAtRest'
<1> USE DEF IInv
<1> SUFFICES ASSUME NEW i \in Ids, ~TileStart(i)' PROVE AtRest(i)'
  BY FabricStep DEF OthersAtRest
<1>1. CASE ~TileStart(i)
  BY <1>1, RestStep DEF OthersAtRest
<1>2. CASE TileStart(i)
  <2>1. TileDone(i)
    BY <1>2, FabricStep DEF TileStart
  <2>2. PICK wire \in Nat : tile'[i] = TileClk(i, wire)
    BY ClkTiles
  <2>3. tile[i] \in TileType /\ Shape(i)
    BY DEF TypeInv, Shapes
  <2>4. CASE Type(i) = "RESHAPE"
    BY <2>2, <2>3, <2>4 DEF TileClk, AtRest, Shape
  <2>5. CASE Type(i) = "LINEAR" /\ tile[i].st = "DONE"
    BY <2>2, <2>3, <2>5 DEF TileClk, LinearClk, AtRest, Shape, TileType
  <2>6. CASE Type(i) = "POOL" /\ tile[i].st = "DONE"
    BY <2>2, <2>3, <2>6 DEF TileClk, PoolClk, AtRest, Shape, TileType
  <2> QED BY <2>1, <2>4, <2>5, <2>6, DoneStates
<1> QED BY <1>1, <1>2

(* Buffers that are full stay as they are, and the tile left behind has filled *)
(* its own.                                                                *)
LEMMA ClkBehind == ASSUME IInv, Clk PROVE BehindIsFull'
<1> USE DEF IInv
<1>0. chain' = chain /\ Ids' = Ids
  BY FabricStep
<1> SUFFICES ASSUME NEW i \in Ids, Type(i) # "RESHAPE",
                    \/ fab' = "RUN_TILE" /\ i < idx'
                    \/ fab' = "NEXT_TILE" /\ i <= idx'
             PROVE  Full(i, chain[i].words)'
  BY <1>0 DEF BehindIsFull, Type
<1>1. i \in Nat \ {0} /\ idx \in Nat
  BY ChainFacts DEF TypeInv
<1>2. fab # "IDLE" /\ fabRun' = fabRun
  BY <1>1, FabricStep
<1>3. CASE ~TileStart(i)
  <2>1. Full(i, chain[i].words)
    BY <1>1, <1>2, <1>3, FabricStep DEF BehindIsFull, TileStart
  <2>2. buf'[i] = buf[i]
    BY <1>3, RestStep DEF OthersAtRest
  <2> QED BY <1>0, <1>2, <2>1, <2>2 DEF Full
<1>4. CASE TileStart(i)
  <2>1. TileDone(i)
    BY <1>1, <1>4, FabricStep DEF TileStart
  <2>2. Type(i) \in {"LINEAR", "POOL"} /\ tile[i].st = "DONE"
    BY <2>1, DoneStates
  <2>3. Full(i, chain[i].words)
    BY <1>4, <2>2 DEF RunningTile, WrittenSoFar
  <2>4. buf'[i] = buf[i]
    BY <2>2, ClkTiles DEF BufClk, Writes
  <2> QED BY <1>0, <1>2, <2>3, <2>4 DEF Full
<1> QED BY <1>3, <1>4

(* A write of the running tile adds one word to what its buffer has of this    *)
(* inference.                                                              *)
LEMMA WriteStep ==
  ASSUME IInv, Clk, NEW i \in Ids, Writes(i),
         tile[i].out < OutWords(i), Full(i, tile[i].out)
  PROVE  \A w \in 0 .. ActDepth - 1 : w < tile[i].out + 1 => buf'[i][w] = fabRun
<1> DEFINE k == tile[i].out
<1>1. k \in 0 .. ActDepth - 1 /\ k % ActDepth = k
  <2>1. k \in Nat /\ ActDepth \in Nat \ {0}
    BY FabricAssumption DEF IInv, TypeInv, TileType
  <2>2. k < ActDepth
    BY <2>1, WidthFacts DEF IInv
  <2> QED BY <2>1, <2>2, ModRange
<1>2. buf'[i] = [buf[i] EXCEPT ![k] = fabRun]
  <2>1. buf'[i] = BufClk(i)
    BY ClkTiles DEF IInv
  <2> QED BY <1>1, <2>1 DEF BufClk
<1>3. buf[i] \in [0 .. ActDepth - 1 -> Nat]
  BY DEF IInv, TypeInv
<1>4. \A w \in 0 .. ActDepth - 1 : w < k => buf[i][w] = fabRun
  BY DEF Full
<1>5. ActDepth \in Nat
  BY FabricAssumption
<1> HIDE DEF k
<1>6. ASSUME NEW w \in 0 .. ActDepth - 1, w < k + 1 PROVE buf'[i][w] = fabRun
  <2>1. CASE w = k
    BY <1>1, <1>2, <1>3, <2>1
  <2>2. CASE w # k
    <3>1. w < k
      BY <1>1, <1>5, <1>6, <2>2
    <3> QED BY <1>1, <1>2, <1>3, <1>4, <2>2, <3>1
  <2> QED BY <2>1, <2>2
<1> QED BY <1>6 DEF k

(* What the running tile has read, one clock later. *)
LEMMA ClkReadSoFar ==
  ASSUME IInv, Clk, NEW i \in Ids, TileStart(i), HasSource(i) PROVE ReadSoFar(i)'
<1> DEFINE t == tile[i]
           n == InWords(i)
<1>1. PICK wire \in Nat : tile'[i] = TileClk(i, wire)
  BY ClkTiles DEF IInv
<1> DEFINE u == TileClk(i, wire)
<1>2. fabRun' = fabRun /\ InWords(i)' = n
  BY FabricStep DEF IInv, TileStart, InWords
<1>3. t \in TileType /\ Shape(i) /\ ReadSoFar(i) /\ Type(i) \in TileTypes
  BY ChainFacts DEF IInv, TypeInv, Shapes, RunningTile
<1>4. t.cnt \in Nat /\ t.out \in Nat /\ n \in Nat \ {0} /\ n <= ActDepth /\ ActDepth \in Nat \ {0}
  BY <1>3, WidthFacts, FabricAssumption DEF TileType, IInv
<1>5. ASSUME NEW w \in Nat, w < n PROVE InData(i, w, wire) = fabRun
  <2>1. w \in 0 .. ActDepth - 1
    BY <1>4, <1>5
  <2> QED BY <1>5, <2>1, SourceIsThisRun
<1>6. ASSUME NEW x \in Nat PROVE InData(i, x % n, wire) = fabRun
  <2>1. x % n \in 0 .. n - 1
    BY <1>4, ModRange
  <2>2. x % n \in Nat /\ x % n < n
    BY <1>4, <2>1
  <2> QED BY <1>5, <2>2
<1>7. SUFFICES /\ u.st \in {"READ", "WINDOW"} => u.acc \subseteq {fabRun}
               /\ u.st = "WRITE" => u.acc = {fabRun}
               /\ u.pipe /\ u.out < n => u.acc = {fabRun}
  <2>1. tile'[i] = u
    BY <1>1
  <2> HIDE DEF u, n
  <2> QED BY <1>2, <1>7, <2>1 DEF ReadSoFar
<1>8. CASE Type(i) = "LINEAR"
  <2>1. u = LinearClk(t, i, wire) /\ ~t.pipe
        /\ t.st \in {"IDLE", "READ", "WRITE", "WAIT_MAC", "DONE"}
    BY <1>3, <1>8 DEF Shape, TileClk
  <2>2. InData(i, t.cnt % n, wire) = fabRun
    BY <1>4, <1>6
  <2>3. CASE t.st \in {"IDLE", "WAIT_MAC", "DONE"}
    BY <1>3, <2>1, <2>3 DEF LinearClk, Idle, TileType
  <2>4. CASE t.st = "READ"
    BY <1>3, <2>1, <2>2, <2>4 DEF LinearClk, Reading, ReadSoFar, TileType
  <2>5. CASE t.st = "WRITE"
    BY <1>3, <2>1, <2>5 DEF LinearClk, ReadSoFar, TileType
  <2> QED BY <2>1, <2>3, <2>4, <2>5
<1>9. CASE Type(i) = "POOL"
  <2>1. u = PoolClk(t, i, wire) /\ ~t.pipe /\ t.st \in {"IDLE", "WINDOW", "WRITE", "NEXT", "DONE"}
    BY <1>3, <1>9 DEF Shape, TileClk
  <2>2. InData(i, (t.out + t.cnt) % n, wire) = fabRun
    <3>1. t.out + t.cnt \in Nat
      BY <1>4
    <3> QED BY <1>6, <3>1
  <2>3. CASE t.st \in {"IDLE", "DONE", "NEXT"}
    BY <1>3, <2>1, <2>3 DEF PoolClk, Idle, TileType
  <2>4. CASE t.st = "WINDOW"
    BY <1>3, <2>1, <2>2, <2>4 DEF PoolClk, Reading, ReadSoFar, TileType
  <2>5. CASE t.st = "WRITE"
    BY <1>3, <2>1, <2>5 DEF PoolClk, ReadSoFar, TileType
  <2> QED BY <2>1, <2>3, <2>4, <2>5
<1>10. CASE Type(i) = "ALU"
  <2>1. u = AluClk(t, i, wire) /\ t.st \in {"IDLE", "ACTIVE"}
    BY <1>3, <1>10 DEF Shape, TileClk
  <2>2. u.st \in {"IDLE", "ACTIVE"}
    BY <1>3, <2>1 DEF AluClk, Idle, TileType
  <2>3. u.pipe => u.out = t.cnt /\ u.acc = {InData(i, t.cnt % ActDepth, wire)}
    BY <1>3, <2>1 DEF AluClk, Idle, TileType
  <2>4. t.cnt < n => InData(i, t.cnt % ActDepth, wire) = fabRun
    <3>1. t.cnt < n => t.cnt % ActDepth = t.cnt
      <4> HIDE DEF t, n
      <4>1. t.cnt < n => t.cnt < ActDepth
        BY <1>4
      <4> QED BY <1>4, <4>1, ModRange
    <3> QED BY <1>4, <1>5, <3>1
  <2> HIDE DEF u
  <2> QED BY <2>2, <2>3, <2>4
<1>11. CASE Type(i) \in {"ACTIVATION", "RESHAPE"}
  <2>1. u.st = "IDLE" /\ ~u.pipe
    BY <1>3, <1>11 DEF Shape, TileClk, ActivationClk, Idle
  <2> HIDE DEF u
  <2> QED BY <2>1
<1> QED BY <1>3, <1>8, <1>9, <1>10, <1>11 DEF TileTypes

(* What the running tile has written, one clock later. *)
LEMMA ClkWrittenSoFar ==
  ASSUME IInv, Clk, NEW i \in Ids, TileStart(i) PROVE WrittenSoFar(i)'
<1> DEFINE t == tile[i]
           k == OutWords(i)
           Filled(j) == \A w \in 0 .. ActDepth - 1 : w < j => buf'[i][w] = fabRun
<1>1. PICK wire \in Nat : tile'[i] = TileClk(i, wire) /\ buf'[i] = BufClk(i)
  BY ClkTiles DEF IInv
<1> DEFINE u == TileClk(i, wire)
<1>2. fabRun' = fabRun /\ OutWords(i)' = k /\ chain' = chain
  BY FabricStep DEF IInv, TileStart, OutWords, Type
<1>3. t \in TileType /\ Shape(i) /\ WrittenSoFar(i) /\ Type(i) \in TileTypes
  BY ChainFacts DEF IInv, TypeInv, Shapes, RunningTile
<1>4. t.out \in Nat /\ k \in Nat \ {0} /\ k <= ActDepth /\ ActDepth \in Nat \ {0}
  BY <1>3, WidthFacts, FabricAssumption DEF TileType, IInv
<1>5. ~Writes(i) => \A j : Full(i, j) => Filled(j)
  BY <1>1 DEF BufClk, Full
<1>6. Writes(i) /\ t.out < k /\ Full(i, t.out) => Filled(t.out + 1)
  BY WriteStep
<1>7. Filled(0)
  BY <1>4
<1>8. SUFFICES /\ u.st = "READ" => u.out = 0
               /\ u.st \in {"WINDOW", "WRITE"} => u.out < k /\ Filled(u.out)
               /\ u.st = "NEXT" => u.out < k /\ Filled(u.out + 1)
               /\ u.st = "DONE" => Filled(chain[i].words)
  <2>1. tile'[i] = u
    BY <1>1
  <2> HIDE DEF u, k
  <2> QED BY <1>2, <1>8, <2>1 DEF WrittenSoFar, Full
<1> HIDE DEF Filled
<1>9. CASE Type(i) = "LINEAR"
  <2>1. u = LinearClk(t, i, wire) /\ t.st \in {"IDLE", "READ", "WRITE", "WAIT_MAC", "DONE"}
    BY <1>3, <1>9 DEF Shape, TileClk
  <2>2. k = LaneWords
    BY <1>9 DEF OutWords
  <2>3. CASE t.st \in {"IDLE", "WAIT_MAC", "DONE"}
    <3>1. u.st \in {"IDLE", "READ", "WAIT_MAC"} /\ (u.st = "READ" => u.out = 0)
      BY <1>3, <2>1, <2>3 DEF LinearClk, Idle, TileType
    <3> HIDE DEF u
    <3> QED BY <3>1
  <2>4. CASE t.st = "READ"
    <3>1. u.out = 0 /\ u.st \in {"READ", "WRITE"}
      BY <1>3, <2>1, <2>4 DEF LinearClk, Reading, WrittenSoFar, TileType
    <3> HIDE DEF u, k
    <3> QED BY <1>4, <1>7, <3>1
  <2>5. CASE t.st = "WRITE"
    <3>1. t.out < k /\ Filled(t.out + 1)
      BY <1>3, <1>6, <1>9, <2>5 DEF WrittenSoFar, Writes
    <3>2. CASE t.out # LaneWords - 1
      <4>1. u.st = "WRITE" /\ u.out = t.out + 1
        BY <1>3, <2>1, <2>5, <3>2 DEF LinearClk, TileType
      <4>2. Filled(u.out)
        <5> HIDE DEF t, u
        <5> QED BY <3>1, <4>1, Zenon
      <4>3. u.out < k
        <5> HIDE DEF t, u, k
        <5> QED BY <1>4, <2>2, <3>1, <3>2, <4>1
      <4> HIDE DEF u, k
      <4> QED BY <4>1, <4>2, <4>3
    <3>3. CASE t.out = LaneWords - 1 /\ NumTiles(i) = 1
      <4>1. u.st = "DONE"
        BY <1>3, <2>1, <2>5, <3>3 DEF LinearClk, TileType
      <4>2. chain[i].words <= LaneWords /\ chain[i].words \in Nat
        BY <3>3, WidthFacts, ChainFacts DEF IInv
      <4>3. Filled(LaneWords)
        <5>1. t.out + 1 = LaneWords
          BY <1>4, <2>2, <3>3
        <5> HIDE DEF t
        <5> QED BY <3>1, <5>1, Zenon
      <4>4. Filled(chain[i].words)
        BY <1>4, <2>2, <4>2, <4>3 DEF Filled
      <4> HIDE DEF u
      <4> QED BY <4>1, <4>4
    <3>4. CASE t.out = LaneWords - 1 /\ NumTiles(i) # 1
      <4>1. u.st = "WAIT_MAC"
        BY <1>3, <2>1, <2>5, <3>4 DEF LinearClk, TileType
      <4> HIDE DEF u
      <4> QED BY <4>1
    <3> QED BY <3>2, <3>3, <3>4
  <2> QED BY <2>1, <2>3, <2>4, <2>5
<1>10. CASE Type(i) = "POOL"
  <2>1. u = PoolClk(t, i, wire) /\ t.st \in {"IDLE", "WINDOW", "WRITE", "NEXT", "DONE"}
    BY <1>3, <1>10 DEF Shape, TileClk
  <2>2. k = chain[i].words
    BY <1>10 DEF OutWords
  <2>3. CASE t.st \in {"IDLE", "DONE"}
    <3>1. u.st = "IDLE" \/ (u.st = "WINDOW" /\ u.out = 0)
      BY <1>3, <2>1, <2>3 DEF PoolClk, Idle, TileType
    <3> HIDE DEF u, k
    <3> QED BY <1>4, <1>7, <3>1
  <2>4. CASE t.st = "WINDOW"
    <3>1. u.out = t.out /\ u.st \in {"WINDOW", "WRITE"}
      BY <1>3, <2>1, <2>4 DEF PoolClk, Reading, TileType
    <3>2. t.out < k /\ Filled(t.out)
      BY <1>3, <1>5, <1>10, <2>4 DEF WrittenSoFar, Writes
    <3> HIDE DEF t, u, k
    <3> QED BY <3>1, <3>2
  <2>5. CASE t.st = "WRITE"
    <3>1. t.out < k /\ Filled(t.out + 1)
      BY <1>3, <1>6, <1>10, <2>5 DEF WrittenSoFar, Writes
    <3>2. u.st = "NEXT" /\ u.out = t.out
      BY <1>3, <2>1, <2>5 DEF PoolClk, TileType
    <3> HIDE DEF t, u, k
    <3> QED BY <3>1, <3>2
  <2>6. CASE t.st = "NEXT"
    <3>1. t.out < k /\ Filled(t.out + 1)
      BY <1>3, <1>5, <1>10, <2>6 DEF WrittenSoFar, Writes
    <3>2. \/ u.st = "DONE" /\ t.out = k - 1
          \/ u.st = "WINDOW" /\ u.out = t.out + 1 /\ t.out # k - 1
      BY <1>3, <2>1, <2>2, <2>6 DEF PoolClk, Idle, TileType
    <3>3. CASE u.st = "DONE" /\ t.out = k - 1
      <4>1. t.out + 1 = chain[i].words
        BY <1>4, <2>2, <3>3
      <4>2. Filled(chain[i].words)
        <5> HIDE DEF t
        <5> QED BY <3>1, <4>1, Zenon
      <4> HIDE DEF u
      <4> QED BY <3>3, <4>2
    <3>4. CASE u.st = "WINDOW" /\ u.out = t.out + 1 /\ t.out # k - 1
      <4>1. Filled(u.out)
        <5> HIDE DEF t, u
        <5> QED BY <3>1, <3>4, Zenon
      <4>2. u.out < k
        <5> HIDE DEF t, u, k
        <5> QED BY <1>4, <3>1, <3>4
      <4> HIDE DEF u, k
      <4> QED BY <3>4, <4>1, <4>2
    <3> QED BY <3>2, <3>3, <3>4
  <2> QED BY <2>1, <2>3, <2>4, <2>5, <2>6
<1>11. CASE Type(i) = "ALU"
  <2>1. u.st \in {"IDLE", "ACTIVE"}
    BY <1>3, <1>11 DEF Shape, TileClk, AluClk, Idle, TileType
  <2> HIDE DEF u
  <2> QED BY <2>1
<1>12. CASE Type(i) \in {"ACTIVATION", "RESHAPE"}
  <2>1. u.st = "IDLE"
    BY <1>3, <1>12 DEF Shape, TileClk, ActivationClk, Idle
  <2> HIDE DEF u
  <2> QED BY <2>1
<1> QED BY <1>3, <1>9, <1>10, <1>11, <1>12 DEF TileTypes

(* The running tile's registers and buffer, one clock later. *)
LEMMA ClkRunning == ASSUME IInv, Clk PROVE RunningTile'
<1>1. chain' = chain /\ Ids' = Ids
  BY FabricStep DEF IInv
<1> SUFFICES ASSUME NEW i \in Ids, TileStart(i)'
             PROVE  (HasSource(i) => ReadSoFar(i)') /\ WrittenSoFar(i)'
  BY <1>1 DEF RunningTile, HasSource, Type
<1>2. CASE ~TileStart(i)
  <2>1. AtRest(i)'
    BY <1>2, RestStep DEF IInv, OthersAtRest
  <2> QED BY <2>1 DEF AtRest, ReadSoFar, WrittenSoFar
<1>3. CASE TileStart(i)
  BY <1>3, ClkReadSoFar, ClkWrittenSoFar
<1> QED BY <1>2, <1>3

-------------------------------------------------------------------------------
(* After reset the fabric and its tiles are at rest.                        *)
LEMMA InitIInv == Init => IInv
<1> SUFFICES ASSUME Init PROVE IInv
  OBVIOUS
<1>1. ActDepth \in Nat /\ MaxRuns \in Nat
  BY FabricAssumption
<1>2. TypeInv
  BY <1>1 DEF Init, TypeInv, TileType, Idle, Never
<1>3. \A i \in Ids : tile[i] = Idle
  BY DEF Init
<1>4. Shapes /\ OthersAtRest
  <2>1. \A i \in Ids : Type(i) \in TileTypes
    BY <1>2, ChainFacts
  <2> QED BY <1>3, <2>1 DEF Shapes, Shape, OthersAtRest, AtRest, Idle, TileTypes
<1>5. AtATile /\ BehindIsFull /\ RunningTile
  BY DEF Init, AtATile, BehindIsFull, RunningTile, TileStart
<1> QED BY <1>2, <1>4, <1>5 DEF IInv

(* Every clock keeps the invariant.                                         *)
LEMMA NextIInv == IInv /\ [Clk]_vars => IInv'
<1>1. IInv /\ Clk => IInv'
  BY ClkType, ClkShapes, ClkAtATile, ClkOthers, ClkBehind, ClkRunning DEF IInv
<1>2. IInv /\ UNCHANGED vars => IInv'
  BY DEF vars, IInv, TypeInv, AtATile, Shapes, Shape, OthersAtRest, AtRest, TileStart, BehindIsFull,
         Full, RunningTile, HasSource, ReadSoFar, WrittenSoFar, InWords, OutWords, Type, Ids
<1> QED BY <1>1, <1>2

(* The inductive invariant holds in every behaviour of every chain. *)
THEOREM Invariance == Spec => []IInv
<1>1. Init => IInv
  BY InitIInv
<1>2. IInv /\ [Clk]_vars => IInv'
  BY NextIInv
<1> QED BY <1>1, <1>2, PTL DEF Spec

(* Whatever a tile behind the first one writes was computed from what the tile    *)
(* before it wrote for the inference that the fabric runs, in every chain and     *)
(* whatever the stream shows: start and done between fabric and tiles never let    *)
(* a tile read its neighbour's buffer early or a leftover, not even one of an     *)
(* inference that a soft reset has cut short.                                 *)
THEOREM WrittenFromRun == Spec => []WrittenFromThisRun
<1>1. IInv => WrittenFromThisRun
  <2> SUFFICES ASSUME IInv, NEW i \in Ids, Writes(i), HasInput(i) PROVE tile[i].acc = {fabRun}
    BY DEF WrittenFromThisRun
  <2>1. Type(i) \in TileTypes /\ Shape(i) /\ HasSource(i)
    BY ChainFacts DEF IInv, Shapes, HasInput, HasSource
  <2>2. TileStart(i)
    BY <2>1 DEF IInv, OthersAtRest, AtRest, Writes, TileTypes
  <2>3. ReadSoFar(i)
    BY <2>1, <2>2 DEF IInv, RunningTile
  <2> QED BY <2>1, <2>3 DEF ReadSoFar, Writes, HasInput, TileTypes
<1> QED BY <1>1, Invariance, PTL
===============================================================================
