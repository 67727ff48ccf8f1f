------------------------------- MODULE MacArray -------------------------------
(***************************************************************************)
(* The control of the shared MAC array (rtl/compute/mac_array.sv): five     *)
(* registers that every clock edge updates together.  There is no Next of   *)
(* its own: MacClk is one edge, given the module's input wires, and the     *)
(* modules that compose the array conjoin it with the edges of the blocks   *)
(* that drive those wires.                                                 *)
(*                                                                         *)
(* The accumulators are abstracted to where their operands came from.  The  *)
(* requantization pipeline (rtl/compute/requantize.sv) is abstracted to its *)
(* latency: rq_valid_in is raised in the first cycle of S_REQUANT, the      *)
(* result leaves the third stage in the fourth, where output_data latches   *)
(* it.                                                                     *)
(***************************************************************************)
EXTENDS Geometry

VARIABLES
  macState,      (* state of the FSM                                        *)
  macBias,       (* bias_cnt: lanes loaded so far                           *)
  macCompute,    (* compute_cnt: products accumulated so far                *)
  macRequant     (* requant_cnt: cycles spent requantizing                  *)

macVars == <<macState, macBias, macCompute, macRequant>>

MacStates == {"IDLE", "BIAS_LOAD", "COMPUTE", "REQUANT", "OUTPUT", "DONE"}

MacTypeOK ==
  /\ macState \in MacStates
  /\ macBias \in 0 .. Parallelism - 1
  /\ macCompute \in 0 .. CountMod - 1
  /\ macRequant \in 0 .. 3

MacInit ==
  /\ macState = "IDLE"
  /\ macBias = 0
  /\ macCompute = 0
  /\ macRequant = 0

(* Mutants: the input counter is compared with the last index, or with one  *)
(* more than the count.                                                    *)
MacSummedEarly(inDim) == macCompute = Minus1(inDim)
MacSummedLate(inDim)  == macCompute = inDim + 1
MacSummed(inDim)      == macCompute = inDim

(* FSM next-state logic: where the array goes from each state, given the    *)
(* start wire and the layer's input_dim.                                   *)
MacNextState(start, inDim) ==
  CASE macState = "IDLE"      -> IF start THEN "BIAS_LOAD" ELSE "IDLE"
    [] macState = "BIAS_LOAD" -> IF macBias = Parallelism - 1 THEN "COMPUTE" ELSE "BIAS_LOAD"
    [] macState = "COMPUTE"   -> IF MacSummed(inDim) THEN "REQUANT" ELSE "COMPUTE"
    [] macState = "REQUANT"   -> IF macRequant = 3 THEN "OUTPUT" ELSE "REQUANT"
    [] macState = "OUTPUT"    -> "DONE"
    [] macState = "DONE"      -> "IDLE"

(* What a clock edge does to the accumulators and to the output register.   *)
MacLoads(biasValid)       == macState = "BIAS_LOAD" /\ biasValid
MacAccumulates(inputValid) == macState = "COMPUTE" /\ inputValid
MacLatches                == macState = "REQUANT" /\ macRequant = 3

MacDone == macState = "DONE"

(* One clock edge. *)
MacClk(start, inDim, inputValid, biasValid) ==
  /\ macState' = MacNextState(start, inDim)
  /\ macBias' = IF macState = "IDLE" THEN 0
                ELSE IF MacLoads(biasValid) THEN (macBias + 1) % Parallelism
                ELSE macBias
  /\ macCompute' = IF macState # "COMPUTE" THEN 0
                   ELSE IF inputValid THEN (macCompute + 1) % CountMod
                   ELSE macCompute
  /\ macRequant' = IF macState # "REQUANT" THEN 0 ELSE (macRequant + 1) % 4
===============================================================================
