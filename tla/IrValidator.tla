------------------------------- MODULE IrValidator ----------------------------
(***************************************************************************)
(* IRValidator of src/mlasic/ir.py up to quantization: what each stage of a   *)
(* graph must satisfy.  A verdict is the set of errors, <<code, culprit>>.    *)
(* Shapes are not modelled (INV-1.9, INV-3.5), and what the representation    *)
(* makes impossible is left out: a duplicate name, a fused node without      *)
(* attributes, a constant without data.                                     *)
(***************************************************************************)
EXTENDS Quantizer

Errors(code, culprits) == {<<code, c>> : c \in culprits}
NodesOf(g, Test(_)) == {x.name : x \in {y \in ToSet(g.nodes) : Test(y)}}
get_producers(g, t) == {x \in ToSet(g.nodes) : x.out = t}

validate_stage1(g) ==
  Errors("INV-1.3", NodesOf(g, LAMBDA x : x.ins \notin Seq(DOMAIN g.tensors)))
    \cup Errors("INV-1.4", NodesOf(g, LAMBDA x : x.out \notin DOMAIN g.tensors))
    \cup Errors("INV-1.5", {t \in ToSet(g.inputs) : get_producers(g, t) # {}})
    \cup Errors("INV-1.6", {t \in ToSet(g.outputs) : Cardinality(get_producers(g, t)) # 1})
    \cup (IF IsAcyclic(g) THEN {} ELSE Errors("INV-1.10", {"cycle"}))

validate_stage2(g) ==
  validate_stage1(g)
    \cup Errors("INV-2.1", NodesOf(g, LAMBDA x : x.op = "BatchNormalization"))
    \cup Errors("INV-2.2", NodeNames(g) \ Reachable(g).nodes)

validate_stage2d(g) == Errors("INV-3.1", NodesOf(g, LAMBDA x : x.op \notin LinearTypes))

Unquantized(g, node) == ~IsQuantized(node)
WideWeight(g, node) ==
  Len(node.ins) >= 2 /\ IsConstant(g, node.ins[2]) /\ g.tensors[node.ins[2]].dtype # "int8"

validate_stage2e(g) ==
  validate_stage2d(g)
    \cup Errors("INV-Q.1", NodesOf(g, LAMBDA x : x.op \in LinearTypes /\ Unquantized(g, x)))
    \cup Errors("INV-Q.3", NodesOf(g, LAMBDA x : WideWeight(g, x)))

DAG_FUSED_OPS ==
  LinearTypes \cup ConvTypes
    \cup {"FusedLayerNorm", "FusedGELU", "FusedSiLU", "FusedAttention", "FusedMLP"}
DAG_PASSTHROUGH_OPS ==
  {"MaxPool", "AveragePool", "GlobalAveragePool", "Flatten", "Reshape", "Concat", "Add",
   "Transpose", "Gather", "Softmax", "MatMul", "Mul", "Div", "Sub"}

validate_stage2d_dag(g) ==
  Errors("INV-DAG.1", NodesOf(g, LAMBDA x : x.op \notin DAG_FUSED_OPS \cup DAG_PASSTHROUGH_OPS))
    \cup Errors("INV-DAG.3", NodesOf(g, LAMBDA x : x.op = "BatchNormalization"))
    \cup (IF IsAcyclic(g) THEN {} ELSE Errors("INV-DAG.4", {"cycle"}))
    \cup Errors("INV-DAG.5", NodesOf(g, LAMBDA x : ~(ToSet(x.ins) \cup {x.out} \subseteq DOMAIN g.tensors)))

validate_stage2e_dag(g) ==
  validate_stage2d_dag(g)
    \cup Errors("INV-QDAG.2", NodesOf(g, LAMBDA x : x.op \in ConvTypes /\ Unquantized(g, x)))
    \cup Errors("INV-QDAG.3", NodesOf(g, LAMBDA x : x.op \in ConvTypes /\ WideWeight(g, x)))
===============================================================================
