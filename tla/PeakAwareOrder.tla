----------------------------- MODULE PeakAwareOrder ---------------------------
(***************************************************************************)
(* peak_aware_topological_order (src/mlasic/dag_scheduler.py): a topological  *)
(* order built greedily, always taking the ready node that adds the fewest   *)
(* live bytes.  One step is one iteration of its loop; the loop starts when   *)
(* topological_order (KahnOrder) has returned.                             *)
(***************************************************************************)
EXTENDS KahnOrder

VARIABLES
  bytes,           (* tensor -> its size, fixed                             *)
  inDeg,           (* in_deg                                                *)
  remaining,       (* consumers_remaining                                   *)
  ready,           (* ready; a set, for it is sorted by distinct keys        *)
  reorder          (* order                                                 *)

peakVars == <<inDeg, remaining, ready, reorder>>

PeakInit ==
  /\ inDeg = [m \in Nodes |-> InDegreeOf(m)]
  /\ remaining = [t \in Tensors |-> Cardinality(Reads(t))]
  /\ ready = {m \in Nodes : InDegreeOf(m) = 0}
  /\ reorder = <<>>

LastReads(n) == {i \in DOMAIN ins[n] : remaining[ins[n][i]] = 1}

(* How many bytes a node sets free as the last reader: each one of each input. *)
Freed(n) == Cardinality(UNION {{i} \X (1 .. bytes[ins[n][i]]) : i \in LastReads(n)})

CanonicalIdx(n) == CHOOSE i \in DOMAIN order : order[i] = n

(* cost(n) <= cost(m), compared without negative numbers. *)
Before(n, m) ==
  LET dn == bytes[n] + Freed(m)
      dm == bytes[m] + Freed(n)
  IN  dn < dm \/ (dn = dm /\ CanonicalIdx(n) <= CanonicalIdx(m))

Cheapest == CHOOSE n \in ready : \A m \in ready : Before(n, m)

WokenBy(n) == {m \in Nodes : Edges(n, m) > 0 /\ inDeg[m] = Edges(n, m)}

Used(t, n) == IF remaining[t] <= Edges(t, n) THEN 0 ELSE remaining[t] - Edges(t, n)

Choose ==
  /\ status = "ORDERED" /\ ready # {}
  /\ LET n == Cheapest IN
     /\ reorder' = Append(reorder, n)
     /\ remaining' = [t \in Tensors |-> Used(t, n)]
     /\ inDeg' = [m \in Nodes |-> inDeg[m] - Edges(n, m)]
     /\ ready' = (ready \ {n}) \cup WokenBy(n)
  /\ UNCHANGED bytes

Reordered == status = "ORDERED" /\ ready = {}
===============================================================================
