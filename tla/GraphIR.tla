-------------------------------- MODULE GraphIR -------------------------------
(***************************************************************************)
(* The part of a Graph (src/mlasic/ir.py) that scheduling depends on: which  *)
(* activations every node reads and which tensors leave the graph.  Every   *)
(* node has one output, so a tensor is named after the node that produces   *)
(* it; constants (weights, biases) are left out.  Nodes are numbered in the  *)
(* insertion order of graph.nodes.                                         *)
(*                                                                         *)
(* The graph is chosen in Init and then fixed, so that one run covers all    *)
(* graphs of a size.                                                       *)
(***************************************************************************)
EXTENDS Naturals, FiniteSets

CONSTANTS
  NumNodes,      (* nodes of a graph                                        *)
  NumInputs,     (* tensors in graph.inputs                                 *)
  MaxActs,       (* activations a node may read: 1 for linear layers        *)
  ExtraActs,     (* bound: activations read beyond one per node             *)
  Forward,       (* bound: nodes read earlier nodes in graph.nodes only      *)
  InnerOutputs   (* whether a tensor that a node reads may leave the graph   *)

ASSUME GraphAssumption ==
  /\ {NumNodes, NumInputs, MaxActs} \subseteq Nat \ {0}
  /\ ExtraActs \in Nat
  /\ {Forward, InnerOutputs} \subseteq BOOLEAN

VARIABLES
  ins,           (* node -> the activations among its inputs, in order       *)
  outs           (* graph.outputs                                           *)

graphVars == <<ins, outs>>

None   == 0
Nodes  == 1 .. NumNodes
Inputs == NumNodes + 1 .. NumNodes + NumInputs
Tensors == Nodes \cup Inputs

(* The activation lists a node may have. *)
ActLists == UNION {[1 .. k -> Tensors] : k \in 1 .. MaxActs}

(* Every occurrence of a tensor among the inputs of a node. *)
Reads(t) ==
  {r \in Nodes \X (1 .. MaxActs) : r[2] \in DOMAIN ins[r[1]] /\ ins[r[1]][r[2]] = t}

GraphTypeOK ==
  /\ ins \in [Nodes -> ActLists]
  /\ outs \subseteq Nodes

(* Dead nodes were eliminated: what no node reads leaves the graph. *)
Unread == {n \in Nodes : Reads(n) = {}}

GraphInit ==
  /\ ins \in {f \in [Nodes -> ActLists] :
              Cardinality({r \in Nodes \X (1 .. MaxActs) : r[2] \in DOMAIN f[r[1]]})
                <= NumNodes + ExtraActs}
  /\ Forward => \A n \in Nodes : \A i \in DOMAIN ins[n] : ins[n][i] \in Inputs \cup 1 .. n - 1
  /\ outs \in {o \in SUBSET Nodes : /\ Unread \subseteq o
                                    /\ o # Unread => InnerOutputs}
===============================================================================
