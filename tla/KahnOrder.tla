------------------------------- MODULE KahnOrder ------------------------------
(***************************************************************************)
(* Graph.topological_order (src/mlasic/ir.py): Kahn's algorithm over the     *)
(* edges from producers to readers, an edge per occurrence.  One step is one *)
(* iteration of its loop.                                                  *)
(***************************************************************************)
EXTENDS GraphIR, SequencesExt

VARIABLES
  inDegree,      (* in_degree                                               *)
  queue,         (* queue                                                   *)
  order,         (* result                                                  *)
  status         (* ORDERING, then how the function ended                   *)

kahnVars == <<inDegree, queue, order, status>>

Edges(n, m) == Cardinality({i \in DOMAIN ins[m] : ins[m][i] = n})

InDegreeOf(m) == Cardinality({i \in DOMAIN ins[m] : ins[m][i] \in Nodes})

(* The members of S as a sequence, by a strict order given as a set of pairs.  *)
Ranked(S, earlier) ==
  [i \in 1 .. Cardinality(S) |->
     CHOOSE x \in S : Cardinality({y \in S : <<y, x>> \in earlier}) = i - 1]

(* The order in which loops over graph.nodes meet the members of S. *)
InsertionOrder(S) == Ranked(S, {p \in S \X S : p[1] < p[2]})

KahnInit ==
  /\ inDegree = [m \in Nodes |-> InDegreeOf(m)]
  /\ queue = InsertionOrder({m \in Nodes : InDegreeOf(m) = 0})
  /\ order = <<>>
  /\ status = "ORDERING"

(* Mutant: a neighbour is queued while one of its producers is pending. *)
WokenEarly(n) == {m \in Nodes : Edges(n, m) > 0 /\ inDegree[m] <= Edges(n, m) + 1}
Woken(n)      == {m \in Nodes : Edges(n, m) > 0 /\ inDegree[m] = Edges(n, m)}

Pop ==
  /\ status = "ORDERING" /\ queue # <<>>
  /\ LET n == Head(queue) IN
     /\ order' = Append(order, n)
     /\ inDegree' = [m \in Nodes |-> inDegree[m] - Edges(n, m)]
     /\ queue' = Tail(queue) \o InsertionOrder(Woken(n))
  /\ UNCHANGED status

(* All nodes were met, or the graph has a cycle and ValueError is raised.   *)
Finish ==
  /\ status = "ORDERING" /\ queue = <<>>
  /\ status' = IF Len(order) = NumNodes THEN "ORDERED" ELSE "CYCLE"
  /\ UNCHANGED <<inDegree, queue, order>>

-------------------------------------------------------------------------------
(* No node comes twice, and none before a producer of what it reads.         *)
Sorted ==
  \A i \in DOMAIN order :
    /\ order[i] \notin {order[j] : j \in 1 .. i - 1}
    /\ \A k \in DOMAIN ins[order[i]] :
         ins[order[i]][k] \in Inputs \cup {order[j] : j \in 1 .. i - 1}

(* The graph has a cycle: nodes each of which reads the output of another.    *)
HasCycle ==
  \E S \in SUBSET Nodes \ {{}} :
    \A n \in S : \E i \in DOMAIN ins[n] : ins[n][i] \in S

(* At every iteration the order so far is topological, also for a node with   *)
(* several producers and one that reads a tensor twice, and "Cycle detected"  *)
(* is only raised for a graph that has one.                                 *)
SortsOrRejects == Sorted /\ (status = "CYCLE" => HasCycle)
===============================================================================
