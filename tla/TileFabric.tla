------------------------------- MODULE TileFabric ------------------------------
(***************************************************************************)
(* The accelerator generated for networks that are no MLP: the top-level FSM   *)
(* and the tile fabric of src/mlasic/rtl_lowering_tile.py with the tiles of    *)
(* rtl/tile/tile.sv, one step per clock edge.  The fabric runs one tile after *)
(* the other; tile i reads the buffer that tile i-1 has written, the first    *)
(* one the wires of the input stream.                                       *)
(*                                                                         *)
(* A word is abstracted to an inference: on the stream to the one whose packet *)
(* it belongs to, in a buffer to the one during which it was written.          *)
(* The streams end whenever they like, a soft reset may come on any edge,      *)
(* the linear tile (LayerEngine) is reduced to its reads and writes, and         *)
(* status registers and counters, which only report, are left out.            *)
(***************************************************************************)
EXTENDS Integers, Sequences, FiniteSets

CONSTANTS
  Chains,          (* sequences of tiles, one chosen for a behaviour         *)
  Words,           (* words of the input                                    *)
  LaneWords,       (* words that the lanes of a linear tile write at once    *)
  ActDepth,        (* words of a buffer                                     *)
  KernelMod,       (* 2^4, to which the size of a kernel is cut              *)
  CountMod,        (* 2^16, where elem_cnt wraps                            *)
  MaxRuns          (* bound: inferences started                             *)

TileTypes == {"LINEAR", "POOL", "ALU", "ACTIVATION", "RESHAPE"}

(* A tile's type, the words it is to write, and the side of a pooling window.  *)
Tiles == [type : TileTypes, words : 1 .. ActDepth, kernel : Nat \ {0}]

ASSUME FabricAssumption ==
  /\ {Words, LaneWords, ActDepth, KernelMod, CountMod, MaxRuns} \subseteq Nat \ {0}
  /\ Words <= ActDepth /\ LaneWords <= ActDepth
  /\ \A c \in Chains : c \in Seq(Tiles) /\ c # <<>>

VARIABLES
  chain,           (* the tiles                                             *)
  top, run,        (* FSM of accelerator_top; the inference it is at         *)
  fab, idx,        (* FSM of tile_fabric and tile_idx                        *)
  fabRun,          (* the inference the fabric was started for               *)
  tile,            (* registers of each tile                                *)
  buf              (* act_buf_i; the last one stands for the output wires    *)

vars == <<chain, top, run, fab, idx, fabRun, tile, buf>>

Ids == DOMAIN chain
Type(i) == chain[i].type
Never == 0          (* a word nothing was written to, a wire nobody drives *)

Idle == [st |-> "IDLE", cnt |-> 0, out |-> 0, pipe |-> FALSE, acc |-> {}]

Init ==
  /\ chain \in Chains
  /\ top = "IDLE" /\ run = 0
  /\ fab = "IDLE" /\ idx = 1 /\ fabRun = 0
  /\ tile = [i \in Ids |-> Idle]
  /\ buf = [i \in Ids |-> [w \in 0 .. ActDepth - 1 |-> Never]]

-------------------------------------------------------------------------------
(* Parameters.  INPUT_DIM, in words: _build_tile_params sets it for linear     *)
(* layers and activations only.                                            *)
InWords(i) == IF i = 1 THEN Words ELSE chain[i - 1].words

(* Mutant: it is set for activations only, as it is for no ALU tile.         *)
InputDim_Unset(i) == IF Type(i) = "ACTIVATION" THEN InWords(i) ELSE 0
InputDim(i) == IF Type(i) \in {"LINEAR", "ACTIVATION"} THEN InWords(i) ELSE 0

(* NUM_TILES, the output tiles that a linear tile takes one after the other.   *)
NumTiles(i) == (chain[i].words + LaneWords - 1) \div LaneWords

(* KERNEL_H[3:0], in_height[3:0]: what a kernel is cut to may be 0.           *)
Window(i) == (chain[i].kernel % KernelMod) * (chain[i].kernel % KernelMod)

(* s_axis_tdata is live.  When the packet has been received, its last word may  *)
(* stay, the next packet may be on offer, or nothing.                        *)
StreamWords == {Never, run, run + 1}

(* act_in_data: the stream's wires for the first tile, a buffer for others.   *)
InData(i, w, wire) == IF i = 1 THEN wire ELSE buf[i - 1][w]

(* Mutant: the next tile is started along with this one. *)
TileStart_Ahead(i) == fab = "RUN_TILE" /\ i <= idx + 1
TileStart(i)      == fab = "RUN_TILE" /\ idx = i

TileDone(i) ==
  CASE Type(i) \in {"LINEAR", "POOL"} -> tile[i].st = "DONE"
    [] Type(i) = "RESHAPE"    -> TileStart(i)
    [] Type(i) = "ACTIVATION" -> tile[i].st = "ACTIVE" /\ tile[i].cnt = InputDim(i) - 1
    [] Type(i) = "ALU"        -> tile[i].pipe /\ tile[i].out = InputDim(i) - 1

Writes(i) ==
  CASE Type(i) \in {"LINEAR", "POOL"} -> tile[i].st = "WRITE"
    [] Type(i) = "ALU"                -> tile[i].pipe
    [] OTHER                          -> FALSE

-------------------------------------------------------------------------------
(* One clock edge of each kind of tile.                                     *)
Reading(t, i, w, wire) == [t EXCEPT !.acc = @ \cup {InData(i, w, wire)}, !.cnt = (@ + 1) % CountMod]

(* After the first output tile the array is not started again: the layer        *)
(* controller waits for its done (LayerEngine, run layer_multi_tile).          *)
LinearClk(t, i, wire) ==
  CASE t.st = "IDLE"  -> IF TileStart(i) THEN [Idle EXCEPT !.st = "READ"] ELSE Idle
    [] t.st = "READ"  -> LET r == Reading(t, i, t.cnt % InWords(i), wire)
                         IN  IF t.cnt = InputDim(i) - 1 THEN [r EXCEPT !.st = "WRITE"] ELSE r
    [] t.st = "WRITE" -> IF t.out # LaneWords - 1 THEN [t EXCEPT !.out = @ + 1]
                         ELSE [t EXCEPT !.st = IF NumTiles(i) = 1 THEN "DONE" ELSE "WAIT_MAC"]
    [] t.st = "WAIT_MAC" -> t
    [] t.st = "DONE"  -> [t EXCEPT !.st = "IDLE"]

PoolClk(t, i, wire) ==
  CASE t.st = "IDLE"   -> IF TileStart(i) THEN [Idle EXCEPT !.st = "WINDOW"] ELSE Idle
    [] t.st = "WINDOW" -> LET r == Reading(t, i, (t.out + t.cnt) % InWords(i), wire)
                          IN  IF t.cnt = Window(i) - 1 THEN [r EXCEPT !.st = "WRITE"] ELSE r
    [] t.st = "WRITE"  -> [t EXCEPT !.st = "NEXT"]
    [] t.st = "NEXT"   -> IF t.out = chain[i].words - 1 THEN [t EXCEPT !.st = "DONE"]
                          ELSE [Idle EXCEPT !.st = "WINDOW", !.out = t.out + 1]
    [] t.st = "DONE"   -> [t EXCEPT !.st = "IDLE"]

(* elem_cnt runs a clock ahead of elem_cnt_d, the address that is written.     *)
AluClk(t, i, wire) ==
  IF TileStart(i) /\ t.st = "IDLE" THEN [Idle EXCEPT !.st = "ACTIVE", !.out = t.out]
  ELSE IF t.st = "ACTIVE"
    THEN [t EXCEPT !.pipe = TRUE, !.out = t.cnt, !.acc = {InData(i, t.cnt % ActDepth, wire)},
                   !.st  = IF t.cnt = InputDim(i) - 1 THEN "IDLE" ELSE @,
                   !.cnt = IF t.cnt = InputDim(i) - 1 THEN @ ELSE (@ + 1) % CountMod]
  ELSE [t EXCEPT !.pipe = FALSE]

(* Its reset is `!rst_n || !act_active`: it is never started.                *)
ActivationClk(t) == IF t.st = "IDLE" THEN Idle ELSE t

TileClk(i, wire) ==
  CASE Type(i) = "LINEAR"     -> LinearClk(tile[i], i, wire)
    [] Type(i) = "POOL"       -> PoolClk(tile[i], i, wire)
    [] Type(i) = "ALU"        -> AluClk(tile[i], i, wire)
    [] Type(i) = "ACTIVATION" -> ActivationClk(tile[i])
    [] Type(i) = "RESHAPE"    -> tile[i]

BufClk(i) ==
  IF Writes(i) THEN [buf[i] EXCEPT ![tile[i].out % ActDepth] = fabRun] ELSE buf[i]

(* The FSM of the fabric.  tile_idx leaves its range in S_DONE only.         *)
FabricClk(start) ==
  /\ fab' = CASE fab = "IDLE"      -> IF start THEN "RUN_TILE" ELSE "IDLE"
              [] fab = "RUN_TILE"  -> IF TileDone(idx) THEN "NEXT_TILE" ELSE "RUN_TILE"
              [] fab = "NEXT_TILE" -> IF idx = Len(chain) THEN "DONE" ELSE "RUN_TILE"
              [] fab = "DONE"      -> "IDLE"
  /\ idx' = CASE fab = "IDLE" -> 1 [] fab = "NEXT_TILE" -> idx + 1 [] OTHER -> idx
  /\ fabRun' = IF fab = "IDLE" /\ start THEN run ELSE fabRun

FabricStart(inDone) == top = "RECV_IN" /\ inDone

(* The FSM of the top: a soft reset brings it, and nothing else, to S_IDLE.   *)
TopClk(ctrlStart, softRst, inDone, outDone) ==
  /\ top' = IF softRst THEN "IDLE"
            ELSE CASE top = "IDLE"       -> IF ctrlStart THEN "RECV_IN" ELSE "IDLE"
                   [] top = "RECV_IN"    -> IF inDone THEN "RUN_FABRIC" ELSE "RECV_IN"
                   [] top = "RUN_FABRIC" -> IF fab = "DONE" THEN "SEND_OUT" ELSE "RUN_FABRIC"
                   [] top = "SEND_OUT"   -> IF outDone THEN "DONE" ELSE "SEND_OUT"
                   [] top = "DONE"       -> "IDLE"
  /\ run' = IF top = "IDLE" /\ top' = "RECV_IN" THEN run + 1 ELSE run

Clk ==
  \E ctrlStart, softRst, inDone, outDone \in BOOLEAN, wire \in StreamWords :
    /\ ctrlStart => run < MaxRuns
    /\ TopClk(ctrlStart, softRst, inDone, outDone)
    /\ FabricClk(FabricStart(inDone))
    /\ tile' = [i \in Ids |-> TileClk(i, wire)]
    /\ buf' = [i \in Ids |-> BufClk(i)]
    /\ UNCHANGED chain

Spec == Init /\ [][Clk]_vars /\ WF_vars(Clk)

-------------------------------------------------------------------------------
(* What a tile behind the first one writes was computed from words that the     *)
(* tile before it wrote while the fabric has been running for this inference:     *)
(* it starts when that tile has written all it reads, and no leftover of an       *)
(* earlier inference, finished or given up by a soft reset, is read.  A RESHAPE  *)
(* tile writes no buffer, so the tile behind it has nothing to read; an addition, *)
(* of width 0, runs on past the end of its operand.                          *)
HasInput(i) == i > 1 /\ Type(i - 1) # "RESHAPE" /\ (Type(i) = "ALU" => tile[i].out < InWords(i))

WrittenFromThisRun == \A i \in Ids : Writes(i) /\ HasInput(i) => tile[i].acc = {fabRun}

(* A linear tile ends if it has one output tile, pooling if its window is not    *)
(* cut to nothing, and a RESHAPE tile; those for additions and activations       *)
(* never do.  Where all tiles end, the fabric does, although their starts stay up *)
(* while they run and whatever the top does meanwhile.                      *)
Ends(i) ==
  CASE Type(i) = "LINEAR" -> NumTiles(i) = 1
    [] Type(i) = "POOL"   -> Window(i) # 0
    [] OTHER              -> Type(i) = "RESHAPE"

FabricEnds == (\A i \in Ids : Ends(i)) /\ fab = "RUN_TILE" ~> fab = "DONE"

(* What fails (README, section 6): the first tile works on the packet of its      *)
(* inference; every fabric ends; a done that the top takes for its inference     *)
(* ends the run that was started for it.                                    *)
FirstTileReadsThePacket == 1 \in Ids /\ Writes(1) => tile[1].acc = {fabRun}
EveryFabricEnds == fab = "RUN_TILE" ~> fab = "DONE"
DoneIsThisInference == top = "RUN_FABRIC" /\ fab = "DONE" => fabRun = run
===============================================================================
