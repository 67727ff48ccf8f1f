------------------------------ MODULE DagScheduler ----------------------------
(***************************************************************************)
(* DAGScheduler.schedule (src/mlasic/dag_scheduler.py): the nodes in          *)
(* peak-aware order get consecutive cycles, ActivationLifetimeAnalyzer finds  *)
(* when each tensor lives, SRAMBudgetPlanner sweeps over the events to find   *)
(* the peak, and WeightStreamScheduler lays the loads of weights under it.    *)
(*                                                                         *)
(* What an operator costs comes from its cycle model (CycleModels); metadata   *)
(* operators (Flatten, Concat) take no cycle.  Snapshots, sums of bytes and   *)
(* the budget warning, which are only reported, are left out.              *)
(***************************************************************************)
EXTENDS PeakAwareOrder, WeightStream, CycleModels

VARIABLES
  lifetimes,       (* lifetimes, by tensor; empty before the analysis         *)
  events,          (* events still to be swept                              *)
  liveBytes, peakBytes

fixedVars == <<graphVars, opVars, bytes>>
sweepVars == <<lifetimes, events, liveBytes, peakBytes>>
vars == <<fixedVars, kahnVars, peakVars, nodeSchedules, sweepVars, streamVars>>

Init ==
  /\ GraphInit /\ OpInit /\ bytes = SizeBytes
  /\ KahnInit /\ PeakInit /\ StreamInit
  /\ lifetimes = <<>> /\ events = {} /\ liveBytes = 0 /\ peakBytes = 0

-------------------------------------------------------------------------------
Ordering ==
  /\ Pop \/ Finish
  /\ UNCHANGED <<fixedVars, peakVars, nodeSchedules, sweepVars, streamVars>>

Reordering ==
  /\ Choose
  /\ UNCHANGED <<graphVars, opVars, kahnVars, nodeSchedules, sweepVars, streamVars>>

(* Mutant: the next node starts when the last one starts. *)
NowOfStart == IF nodeSchedules = <<>> THEN 0 ELSE nodeSchedules[Len(nodeSchedules)].start

Now == IF nodeSchedules = <<>> THEN 0 ELSE nodeSchedules[Len(nodeSchedules)].end

NextNode == reorder[Len(nodeSchedules) + 1]

Scheduling ==
  /\ Reordered /\ Len(nodeSchedules) < NumNodes
  /\ nodeSchedules' =
       Append(nodeSchedules, [node |-> NextNode, start |-> Now,
                              end |-> Now + EstimateCycles(NextNode),
                              weight |-> WeightBytes(NextNode)])
  /\ UNCHANGED <<fixedVars, kahnVars, peakVars, sweepVars, streamVars>>

Slot(n) == CHOOSE ns \in Range(nodeSchedules) : ns.node = n
Consumers(t) == {r[1] : r \in Reads(t)}

(* Mutant: a tensor is freed when its first reader ends. *)
FreeAtFirst(t) == Min({Slot(m).end : m \in Consumers(t)} \cup
                      IF Consumers(t) = {} THEN {Slot(t).end} ELSE {})

(* When the last reader ends; an output nobody reads, when it is produced.    *)
FreeCycle(t) ==
  IF Consumers(t) = {} THEN Slot(t).end ELSE Max({Slot(m).end : m \in Consumers(t)})

Event(c, t, makesLive) == [cycle |-> c, tensor |-> t, live |-> makesLive]

Analyzing ==
  /\ Len(nodeSchedules) = NumNodes /\ lifetimes = <<>>
  /\ lifetimes' = [t \in Nodes |-> [produce |-> Slot(t).end, free |-> FreeCycle(t)]]
  /\ events' = {Event(lifetimes'[t].produce, t, TRUE) : t \in Nodes}
                 \cup {Event(lifetimes'[t].free, t, FALSE) : t \in Nodes}
  /\ UNCHANGED <<fixedVars, kahnVars, peakVars, nodeSchedules, liveBytes, peakBytes, streamVars>>

Delta(e) == IF e.live THEN bytes[e.tensor] ELSE -bytes[e.tensor]

(* Mutant: productions sort before frees. *)
ProducesFirst(e, f) ==
  e.cycle < f.cycle \/ (e.cycle = f.cycle /\ Delta(e) >= Delta(f))

(* The order of the sweep: by cycle, and at the same cycle frees first.      *)
Sooner(e, f) ==
  e.cycle < f.cycle \/ (e.cycle = f.cycle /\ Delta(e) <= Delta(f))

NextEvent == CHOOSE e \in events : \A f \in events : Sooner(e, f)

Sweeping ==
  /\ events # {}
  /\ liveBytes' = liveBytes + Delta(NextEvent)
  /\ peakBytes' = IF liveBytes' > peakBytes THEN liveBytes' ELSE peakBytes
  /\ events' = events \ {NextEvent}
  /\ UNCHANGED <<fixedVars, kahnVars, peakVars, nodeSchedules, lifetimes, streamVars>>

Swept == lifetimes # <<>> /\ events = {}

Streaming ==
  /\ Swept
  /\ PlanNext
  /\ UNCHANGED <<fixedVars, kahnVars, peakVars, sweepVars>>

Next ==
  Ordering \/ Reordering \/ Scheduling \/ Analyzing \/ Sweeping \/ Streaming

Spec == Init /\ [][Next]_vars

-------------------------------------------------------------------------------
(* Whenever a node computes, the tensors it reads are live: produced when it  *)
(* starts and not freed before it ends, also in an order chosen for its       *)
(* memory and with operators that take no cycle.                           *)
InputsAreLive ==
  lifetimes # <<>> =>
    \A m \in Nodes : \A t \in Range(ins[m]) \cap Nodes :
      /\ lifetimes[t].produce <= Slot(m).start
      /\ Slot(m).end <= lifetimes[t].free

LiveAt(c) == {t \in Nodes : lifetimes[t].produce <= c /\ c < lifetimes[t].free}
BytesOf(S) == Cardinality(UNION {{t} \X (1 .. bytes[t]) : t \in S})

(* The peak found by the sweep, with its ties of zero-cycle operators and of  *)
(* outputs that die when they are born, is the largest number of bytes live   *)
(* at one cycle, which is one at which something is produced; and nothing is  *)
(* left live at the end.                                                   *)
PeakIsLargest ==
  Swept =>
    /\ liveBytes = 0
    /\ peakBytes = Max({BytesOf(LiveAt(lifetimes[t].produce)) : t \in Nodes})

(* IRValidator.validate_stage3_dag: the nodes in canonical order, stably      *)
(* sorted by their start, and the neighbours it reports as overlapping.      *)
StartsBefore(n, m) ==
  \/ Slot(n).start < Slot(m).start
  \/ Slot(n).start = Slot(m).start /\ CanonicalIdx(n) < CanonicalIdx(m)

ByStart == Ranked(Nodes, {p \in Nodes \X Nodes : StartsBefore(p[1], p[2])})
Overlaps ==
  {i \in 1 .. NumNodes - 1 : Slot(ByStart[i]).end > Slot(ByStart[i + 1]).start}

(* What the validator of scheduled graphs reports is never two nodes at work  *)
(* at once: every overlap it sees is a node that takes no cycle, scheduled    *)
(* before one that starts at the same cycle and comes first in the canonical  *)
(* order.  A consumer never starts before its producers end.               *)
OverlapsAreTies ==
  Len(nodeSchedules) = NumNodes =>
    /\ \A m \in Nodes : \A n \in Range(ins[m]) \cap Nodes : Slot(n).end <= Slot(m).start
    /\ \A i \in Overlaps :
         LET zero == Slot(ByStart[i + 1])
         IN  zero.start = zero.end /\ zero.start = Slot(ByStart[i]).start
===============================================================================
