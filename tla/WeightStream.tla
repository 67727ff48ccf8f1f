------------------------------ MODULE WeightStream ----------------------------
(***************************************************************************)
(* WeightStreamScheduler.schedule (src/mlasic/dag_scheduler.py): weights are *)
(* loaded over one AXI bus into one of two buffers while the layer before    *)
(* computes from the other.  One step plans one node of the DAG schedule.    *)
(* Bandwidth figures, which are only reported, are left out.               *)
(***************************************************************************)
EXTENDS Naturals, Sequences

CONSTANT AxiWidthBytes   (* axi_width_bytes *)

ASSUME AxiAssumption == AxiWidthBytes \in Nat \ {0}

VARIABLES
  nodeSchedules,   (* node_schedules: node, start and end cycle, weight bytes *)
  plans,           (* when each loads its weights and when it computes       *)
  currentCycle,    (* current_cycle                                         *)
  noOverlap        (* total_no_overlap                                      *)

streamVars == <<plans, currentCycle, noOverlap>>

MaxOf(a, b) == IF a >= b THEN a ELSE b

(* _compute_load_cycles: a last beat is needed for what is left over. *)
LoadCycles(w) == (w + AxiWidthBytes - 1) \div AxiWidthBytes

StreamTypeOK ==
  /\ plans \in Seq([loadStart : Nat, loadEnd : Nat, start : Nat, end : Nat, weight : Nat])
  /\ currentCycle \in Nat
  /\ noOverlap \in Nat

StreamInit ==
  /\ nodeSchedules = <<>>
  /\ plans = <<>>
  /\ currentCycle = 0
  /\ noOverlap = 0

Previous == plans[Len(plans)]

(* Mutants: the load starts as soon as the bus is free; or with the last one. *)
EarlyLoadStart == IF plans = <<>> THEN currentCycle ELSE Previous.loadEnd
SameLoadStart  == IF plans = <<>> THEN currentCycle ELSE Previous.loadStart
LoadStart      == IF plans = <<>> THEN currentCycle ELSE Previous.start

ComputeStart(loadEnd) ==
  IF plans = <<>> THEN loadEnd ELSE MaxOf(loadEnd, Previous.end)

(* A node whose weights have to be there before it computes. *)
StreamLayer(cycles, weight) ==
  /\ weight > 0
  /\ LET loadEnd == LoadStart + LoadCycles(weight)
         start   == ComputeStart(loadEnd)
     IN  /\ plans' = Append(plans, [loadStart |-> LoadStart, loadEnd |-> loadEnd,
                                    start |-> start, end |-> start + cycles,
                                    weight |-> weight])
         /\ currentCycle' = start + cycles
         /\ noOverlap' = noOverlap + LoadCycles(weight) + cycles

(* Mutant: its cycles are not added to total_no_overlap. *)
ComputeUncounted(cycles, weight) ==
  /\ weight = 0
  /\ plans' = Append(plans, [loadStart |-> currentCycle, loadEnd |-> currentCycle,
                             start |-> currentCycle, end |-> currentCycle + cycles,
                             weight |-> 0])
  /\ currentCycle' = currentCycle + cycles
  /\ UNCHANGED noOverlap

(* A node without weights only computes. *)
ComputeOnly(cycles, weight) ==
  /\ weight = 0
  /\ plans' = Append(plans, [loadStart |-> currentCycle, loadEnd |-> currentCycle,
                             start |-> currentCycle, end |-> currentCycle + cycles,
                             weight |-> 0])
  /\ currentCycle' = currentCycle + cycles
  /\ noOverlap' = noOverlap + cycles

PlanNext ==
  /\ Len(plans) < Len(nodeSchedules)
  /\ LET ns == nodeSchedules[Len(plans) + 1] IN
       \/ StreamLayer(ns.end - ns.start, ns.weight)
       \/ ComputeOnly(ns.end - ns.start, ns.weight)
  /\ UNCHANGED nodeSchedules

(* The list comes from the DAG scheduler, node by node. *)
NodeSchedule ==
  {ns \in [node : Nat, start : Nat, end : Nat, weight : Nat] : ns.start <= ns.end}

Scheduled ==
  /\ nodeSchedules' \in Seq(NodeSchedule)
  /\ Len(nodeSchedules') = Len(nodeSchedules) + 1
  /\ SubSeq(nodeSchedules', 1, Len(nodeSchedules)) = nodeSchedules
  /\ UNCHANGED streamVars

StreamSpec == StreamInit /\ [][Scheduled \/ PlanNext]_<<nodeSchedules, streamVars>>

-------------------------------------------------------------------------------
(* The one AXI bus loads for one layer at a time, although loads overlap     *)
(* with the computation of other layers.                                   *)
BusIsExclusive ==
  \A i, j \in DOMAIN plans : i < j => plans[i].loadEnd <= plans[j].loadStart

(* "Prefetch the next layer's weights into the other SRAM buffer": two        *)
(* buffers do.  The weights of a layer go to the buffer of the layer before   *)
(* the previous one, which no longer computes from it.                      *)
TwoBuffersSuffice ==
  \A i, j \in DOMAIN plans : i + 1 < j => plans[i].end <= plans[j].loadStart

(* The overlap reported as saved is never negative: prefetching is not        *)
(* slower than loading and computing in turns.                             *)
OverlapNeverCosts == currentCycle <= noOverlap
===============================================================================
