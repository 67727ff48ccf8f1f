------------------------------ MODULE Interpreter -----------------------------
(***************************************************************************)
(* IRInterpreter (src/mlasic/interpreter.py): the meaning of a graph.        *)
(*                                                                         *)
(* A tensor is one number of the field of P elements, written between -P/2   *)
(* and P/2, so that sums, products and quotients are exact and rewrites can *)
(* be compared as verify() compares them: on test vectors.  What a rewrite  *)
(* may use of an operator is kept: products are linear in the weight (and   *)
(* not in the activation, which tells the two operands apart), Relu and      *)
(* Clip cut, the others are unrelated polynomials.                          *)
(***************************************************************************)
EXTENDS IrGraph

P == 97

F(v) == ((v + P \div 2) % P) - (P \div 2)
Times(a, b) == F(a * b)
Plus(a, b)  == F(a + b)
Reciprocal  == [b \in 1 .. P - 1 |-> CHOOSE c \in 1 .. P - 1 : (b * c) % P = 1]
Over(a, b)  == Times(a, Reciprocal[b % P])
Cube(v)     == Times(v, Times(v, v))
Product(x, w) == Times(Times(x, x), w)

Half  == Over(1, 2)
Root2 == Over(1, 14)           (* 14 * 14 = 2, modulo 97: 1 / sqrt(2) *)

ReluOf(v)  == IF v > 0 THEN v ELSE 0
Clip(v, lo, hi) == IF v < lo THEN lo ELSE IF v > hi THEN hi ELSE v
Erf(v)     == Plus(Cube(v), Times(5, v))
Sigmoid(v) == Plus(Cube(v), 3)

op_matmul(x)     == Product(x[1], x[2])
op_add(x)        == Plus(x[1], x[2])
op_batch_norm(x) == Plus(Times(Plus(x[1], -x[4]), x[2]), x[3])
op_mul(x)        == Times(x[1], x[2])
op_div(x)        == Over(x[1], IF x[2] = 0 THEN 1 ELSE x[2])
WithBias(y, x)   == IF Len(x) > 2 THEN Plus(y, x[3]) ELSE y
op_gemm(x)       == WithBias(Product(x[1], x[2]), x)
op_conv(x)       == WithBias(Times(Cube(x[1]), x[2]), x)
op_layer_norm(x) == WithBias(Times(Times(x[1], Cube(x[1])), x[2]), x)
op_fused_gelu(x) == Times(Times(Half, x[1]), Plus(1, Erf(Times(x[1], Root2))))
op_fused_silu(x) == Times(x[1], Sigmoid(x[1]))

(* The operators that the dispatch table knows.  It has no entry for        *)
(* FusedAttention and FusedMLP.                                            *)
Executable ==
  {"MatMul", "Add", "Relu", "BatchNormalization", "Reshape", "Transpose", "Flatten", "Conv",
   "Gemm", "Softmax", "LayerNormalization", "Mul", "Div", "Sigmoid", "Erf", "Clip",
   "FusedLinear", "FusedLinearReLU", "FusedConv", "FusedConvReLU", "FusedConvReLU6",
   "FusedLayerNorm", "FusedGELU", "FusedSiLU"}

Execute(op, x) ==
  CASE op = "MatMul"             -> op_matmul(x)
    [] op = "Add"                -> op_add(x)
    [] op = "Relu"               -> ReluOf(x[1])
    [] op = "BatchNormalization" -> op_batch_norm(x)
    [] op = "Transpose"          -> Times(11, x[1])
    [] op \in {"Flatten", "Reshape"} -> Times(13, x[1])
    [] op = "Mul"                -> op_mul(x)
    [] op = "Div"                -> op_div(x)
    [] op = "Sigmoid"            -> Sigmoid(x[1])
    [] op = "Erf"                -> Erf(x[1])
    [] op = "Softmax"            -> Plus(Times(x[1], Cube(x[1])), 2)
    [] op = "Clip"               -> Clip(x[1], x[2], x[3])
    [] op \in {"Gemm", "FusedLinear"} -> op_gemm(x)
    [] op = "FusedLinearReLU"    -> ReluOf(op_gemm(x))
    [] op \in {"Conv", "FusedConv"}   -> op_conv(x)
    [] op = "FusedConvReLU"      -> ReluOf(op_conv(x))
    [] op = "FusedConvReLU6"     -> Clip(op_conv(x), 0, 6)
    [] op \in {"LayerNormalization", "FusedLayerNorm"} -> op_layer_norm(x)
    [] op = "FusedGELU"          -> op_fused_gelu(x)
    [] op = "FusedSiLU"          -> op_fused_silu(x)

(* What the dispatch table lacks: two products with an activation between.   *)
FusedMLP(x, attrs) ==
  LET hidden == op_gemm(SubSeq(x, 1, attrs.fc1))
      act == CASE attrs.act = "gelu" -> op_fused_gelu(<<hidden>>)
               [] attrs.act = "silu" -> op_fused_silu(<<hidden>>)
               [] attrs.act = "relu" -> ReluOf(hidden)
               [] OTHER -> hidden
  IN  op_gemm(<<act>> \o SubSeq(x, attrs.fc1 + 1, Len(x)))

-------------------------------------------------------------------------------
(* _run_internal: inputs are loaded, over them constants, then the nodes run in *)
(* topological order; what a node makes is a tensor of the graph (INV-1.4).   *)
(* Operand(node, j, v) is what the node makes of its j-th operand.           *)
Run(g, x, Operand(_, _, _), Apply(_, _)) ==
  LET order == TopoOrder(g)
      loaded == [t \in DOMAIN g.tensors |->
                   IF IsConstant(g, t) \/ t \notin ToSet(g.inputs) THEN g.tensors[t].raw ELSE x]
      Step(values, node) ==
        [values EXCEPT ![node.out] =
           Apply(node, [j \in DOMAIN node.ins |-> Operand(node, j, values[node.ins[j]])])]
      After[k \in 0 .. Len(order)] ==
        IF k = 0 THEN loaded ELSE Step(After[k - 1], NodeOf(g, order[k]))
  IN  After[Len(order)]

CanRun(g) == \A i \in DOMAIN g.nodes : g.nodes[i].op \in Executable
run_all(g, x) == Run(g, x, LAMBDA node, j, v : v, LAMBDA node, v : Execute(node.op, v))
===============================================================================
