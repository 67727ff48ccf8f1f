---------------------------- MODULE GraphPartitioner --------------------------
(***************************************************************************)
(* GraphPartitioner of src/mlasic/optimization.py: a graph in blocks of nodes  *)
(* of one kind, with what each block reads from and leaves for the others.    *)
(***************************************************************************)
EXTENDS IrValidator

classify_node(node) ==
  CASE node.op = "FusedAttention" -> "attention"
    [] node.op \in ConvTypes \cup {"Conv"} -> "conv"
    [] node.op \in LinearTypes \cup {"FusedMLP", "MatMul", "Gemm"} -> "linear"
    [] node.op \in {"FusedLayerNorm", "LayerNormalization", "BatchNormalization"} -> "norm"
    [] node.op \in {"MaxPool", "AveragePool", "GlobalAveragePool"} -> "pool"
    [] node.op = "Add" -> "residual"
    [] OTHER -> "other"

(* One block per node: what reads its output is always outside of it, so the   *)
(* output is left for others whether anything reads it or not.               *)
partition(g) ==
  LET order == TopoOrder(g) IN
  [i \in DOMAIN order |->
     LET node == NodeOf(g, order[i])
     IN  [type |-> classify_node(node), names |-> <<node.name>>,
          inputs |-> {t \in ToSet(node.ins) : t # node.out /\ t \in DOMAIN g.tensors},
          outputs |-> <<node.out>>]]

Made(g, names) == {NodeOf(g, names[i]).out : i \in DOMAIN names}

(* Mutant: what the block makes itself stays among its inputs. *)
merge_KeepInputs(g, prev, part) ==
  [prev EXCEPT !.names = @ \o part.names, !.outputs = part.outputs,
               !.inputs = @ \cup part.inputs]

merge(g, prev, part) ==
  LET names == prev.names \o part.names
  IN  [prev EXCEPT !.names = names, !.outputs = part.outputs,
                   !.inputs = (@ \cup part.inputs) \ Made(g, names)]

(* One round of the loop: part joins the last block, or is the next one.       *)
Joined(g, merged, part) ==
  IF merged # <<>> /\ Last(merged).type = part.type /\ part.type # "other"
  THEN Append(Front(merged), merge(g, Last(merged), part))
  ELSE Append(merged, part)

MergedUpTo(g, parts) ==
  LET M[k \in 0 .. Len(parts)] == IF k = 0 THEN <<>> ELSE Joined(g, M[k - 1], parts[k])
  IN  M

partition_merged(g) == MergedUpTo(g, partition(g))[Len(partition(g))]
===============================================================================
