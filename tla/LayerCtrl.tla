------------------------------- MODULE LayerCtrl ------------------------------
(***************************************************************************)
(* The layer controller (rtl/layer/fused_linear_relu.sv).  It walks the     *)
(* output tiles of one layer and, per tile, loads the biases, streams the   *)
(* input activations, waits for the MAC array and writes the tile back.  It *)
(* holds no data: it drives addresses and the array's control wires.        *)
(*                                                                         *)
(* As in MacArray, LcClk is one clock edge given the input wires.  The      *)
(* layer configuration (input_dim, num_tiles) is a wire too: accelerator_top*)
(* indexes it by its current layer_idx, so it can change under a running    *)
(* layer.                                                                  *)
(***************************************************************************)
EXTENDS Geometry

VARIABLES
  lcState,       (* state of the FSM                                        *)
  lcTile,        (* tile_idx                                                *)
  lcBias,        (* bias_cnt                                                *)
  lcInput,       (* input_cnt                                               *)
  lcWrite        (* write_cnt                                               *)

lcVars == <<lcState, lcTile, lcBias, lcInput, lcWrite>>

LcStates ==
  {"IDLE", "LOAD_BIAS", "COMPUTE", "WAIT_MAC", "WRITE_TILE", "NEXT_TILE", "DONE"}

LcTypeOK ==
  /\ lcState \in LcStates
  /\ lcTile \in 0 .. CountMod - 1
  /\ lcBias \in 0 .. Parallelism - 1
  /\ lcInput \in 0 .. CountMod - 1
  /\ lcWrite \in 0 .. WordsPerTile

LcInit ==
  /\ lcState = "IDLE"
  /\ lcTile = 0
  /\ lcBias = 0
  /\ lcInput = 0
  /\ lcWrite = 0

TileWritten     == lcWrite = WordsPerTile - 1

(* FSM next-state logic. *)
LcNextState(start, inDim, numTiles, macDone) ==
  CASE lcState = "IDLE"       -> IF start THEN "LOAD_BIAS" ELSE "IDLE"
    [] lcState = "LOAD_BIAS"  -> IF lcBias = Parallelism - 1 THEN "COMPUTE" ELSE "LOAD_BIAS"
    [] lcState = "COMPUTE"    -> IF lcInput = Minus1(inDim) THEN "WAIT_MAC" ELSE "COMPUTE"
    [] lcState = "WAIT_MAC"   -> IF macDone THEN "WRITE_TILE" ELSE "WAIT_MAC"
    [] lcState = "WRITE_TILE" -> IF TileWritten THEN "NEXT_TILE" ELSE "WRITE_TILE"
    [] lcState = "NEXT_TILE"  -> IF lcTile = Minus1(numTiles) THEN "DONE" ELSE "LOAD_BIAS"
    [] lcState = "DONE"       -> "IDLE"

(* Mutants: the array is started a clock late; inputs stay valid while the  *)
(* controller waits for the array.                                         *)
LcMacStartLate(start) == lcState = "LOAD_BIAS" /\ lcBias = 0
LcInputStaysValid     == lcState \in {"COMPUTE", "WAIT_MAC"}

(* Output wires.  mac_start is raised only when the layer starts, not when  *)
(* a later tile does.                                                      *)
LcMacStart(start) == lcState = "IDLE" /\ start
LcBiasValid       == lcState = "LOAD_BIAS"
LcInputValid      == lcState = "COMPUTE"
LcActRdAddr       == lcInput \div WordBytes
LcWriteEn         == lcState = "WRITE_TILE"
LcWriteWord       == lcTile * WordsPerTile + lcWrite
LcLayerDone       == lcState = "DONE"

(* One clock edge. *)
LcClk(start, inDim, numTiles, macDone) ==
  /\ lcState' = LcNextState(start, inDim, numTiles, macDone)
  /\ lcTile' = IF lcState = "IDLE" THEN 0
               ELSE IF lcState = "NEXT_TILE" THEN (lcTile + 1) % CountMod
               ELSE lcTile
  /\ lcBias' = IF lcState \in {"IDLE", "NEXT_TILE"} THEN 0
               ELSE IF lcState = "LOAD_BIAS" THEN (lcBias + 1) % Parallelism
               ELSE lcBias
  /\ lcInput' = IF lcState # "COMPUTE" THEN 0 ELSE (lcInput + 1) % CountMod
  /\ lcWrite' = IF lcState # "WRITE_TILE" THEN 0 ELSE lcWrite + 1
===============================================================================
