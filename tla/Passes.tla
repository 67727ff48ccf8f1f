--------------------------------- MODULE Passes -------------------------------
(***************************************************************************)
(* The rewrites of src/mlasic/optimization.py, each as a function of the      *)
(* graph and of the node its loop has come to.  A rewrite that does not      *)
(* match leaves the graph as it is.                                        *)
(***************************************************************************)
EXTENDS Interpreter

(* fused_attrs: the activation and the number of first-layer operands of a    *)
(* FusedMLP, the scales of quantized weights, the ranges of input and output.*)
Blank == [act |-> "none", fc1 |-> 0, ws |-> <<>>, xq |-> <<>>, yq |-> <<>>]

LinearTypes == {"FusedLinear", "FusedLinearReLU"}
ConvTypes   == {"FusedConv", "FusedConvReLU", "FusedConvReLU6"}

NewNode(name, op, ins, out) ==
  [name |-> name, op |-> op, ins |-> ins, out |-> out, attrs |-> Blank]
OutputOf(name) == Append(name, 1)

(* A fused node with an output tensor of its own, in place of the nodes old.  *)
Fuse(g, old, name, op, ins, attrs) ==
  replace_subgraph(g, old,
    [NewNode(name, op, ins, OutputOf(name)) EXCEPT !.attrs = attrs],
    [t \in {OutputOf(name)} |-> Activation])

ConstantsOf(g, node) == {t \in ToSet(node.ins) : IsConstant(g, t)}
IsAbout(g, t, v) == IsConstant(g, t) /\ g.tensors[t].raw = v

-------------------------------------------------------------------------------
(* ConstantFoldingPass: the first node in topological order with constant     *)
(* operands and an operator that _evaluate knows, of those that the programs     *)
(* apply to constants.                                                     *)
Evaluated == {"MatMul", "Add", "Reshape", "Transpose", "Mul", "Div"}
CanFold(g, node) == node.op \in Evaluated /\ \A t \in ToSet(node.ins) : IsConstant(g, t)
Foldable(g) == Pick(TopoOrder(g), LAMBDA n : CanFold(g, NodeOf(g, n)))

fold_constant(g, n) ==
  LET node == NodeOf(g, n)
      value == Execute(node.op, [j \in DOMAIN node.ins |-> g.tensors[node.ins[j]].raw])
  IN  Invalidate(Without([g EXCEPT !.tensors[node.out] = [dtype |-> "fp32", raw |-> value]], {n}))

(* DeadCodeEliminationPass *)
eliminate_dead_code(g) ==
  LET live == Reachable(g)
      kept == ToSet(g.inputs) \cup live.tensors
  IN  IF NodeNames(g) = live.nodes /\ DOMAIN g.tensors \subseteq kept THEN Touch(g)
      ELSE Invalidate(Without([g EXCEPT !.tensors = Restrict(@, DOMAIN @ \cap kept)],
                              NodeNames(g) \ live.nodes))

-------------------------------------------------------------------------------
WithRaw(g, t, v) == [g EXCEPT !.tensors[t].raw = v]

(* Mutant: the mean is not taken off the bias. *)
ScaledInto_NoMean(g, bn, weight, bias) ==
  LET p(k) == g.tensors[bn.ins[k]].raw
      h    == WithRaw(g, weight, Times(g.tensors[weight].raw, p(2)))
  IN  WithRaw(h, bias, Plus(Times(p(2), h.tensors[bias].raw), p(3)))

(* W' = W * scale and b' = scale * (b - mean) + beta; operands of a BatchNorm  *)
(* are x, gamma / sqrt(var + eps), beta and mean.                           *)
ScaledInto(g, bn, weight, bias) ==
  LET p(k) == g.tensors[bn.ins[k]].raw
      h    == WithRaw(g, weight, Times(g.tensors[weight].raw, p(2)))
  IN  WithRaw(h, bias, Plus(Times(p(2), Plus(h.tensors[bias].raw, -p(4))), p(3)))

(* Consumers of the BatchNorm read what it read; the node and those of its    *)
(* tensors that nothing reads are removed.                                 *)
Bypass(g, bn) ==
  LET h == Without(Rewire(g, {bn.out}, bn.ins[1], NodeNames(g)), {bn.name})
      unread == {t \in {bn.out} \cup ToSet(Tail(bn.ins)) :
                   t \notin ToSet(h.outputs) /\ \A i \in DOMAIN h.nodes : t \notin ToSet(h.nodes[i].ins)}
  IN  [h EXCEPT !.tensors = Restrict(@, DOMAIN @ \ unread)]

(* Mutant: the adjacency maps survive. *)
fold_bn_Cached(g, bn) ==
  LET add      == Producer(g, bn.ins[1])
      products == Pick(add.ins, LAMBDA t : Producer(g, t).op = "MatMul")
      biases   == Pick(add.ins, LAMBDA t : Producer(g, t).op # "MatMul" /\ IsConstant(g, t))
  IN  IF add.op # "Add" \/ products = <<>> \/ biases = <<>> THEN Touch(g)
      ELSE Bypass(ScaledInto(Touch(g), bn, Producer(g, Last(products)).ins[2], Last(biases)), bn)

fold_bn(g, bn) ==
  LET add      == Producer(g, bn.ins[1])
      products == Pick(add.ins, LAMBDA t : Producer(g, t).op = "MatMul")
      biases   == Pick(add.ins, LAMBDA t : Producer(g, t).op # "MatMul" /\ IsConstant(g, t))
  IN  IF add.op # "Add" \/ products = <<>> \/ biases = <<>> THEN Touch(g)
      ELSE Invalidate(Bypass(
             ScaledInto(g, bn, Producer(g, Last(products)).ins[2], Last(biases)), bn))

(* A convolution without a bias gets a zero one. *)
WithZeroBias(g, conv) ==
  LET bias == Append(conv.name, 0) IN
  IF Len(conv.ins) > 2 THEN g
  ELSE [g EXCEPT !.tensors = [t \in {bias} \cup DOMAIN @ |->
                              IF t = bias THEN [dtype |-> "fp32", raw |-> 0] ELSE @[t]],
                 !.nodes = [i \in DOMAIN @ |->
                   IF @[i].name = conv.name THEN Reading(@[i], Append(@[i].ins, bias)) ELSE @[i]]]

fold_conv_bn(g, bn) ==
  LET conv == Producer(g, bn.ins[1])
      h    == WithZeroBias(g, conv)
  IN  IF conv.op # "Conv" THEN Touch(g)
      ELSE Invalidate(Bypass(ScaledInto(h, bn, conv.ins[2], NodeOf(h, conv.name).ins[3]), bn))

-------------------------------------------------------------------------------
Single(g, t, op) == LET c == OnlyConsumer(g, t) IN IF c.op = op THEN c ELSE NoNode

(* One MatMul with the Add and the Relu that follow it. *)
FusedLinearOf(g, m, k) ==
  LET add  == Single(g, m.out, "Add")
      sum  == IF add = NoNode THEN m.out ELSE add.out
      relu == Single(g, sum, "Relu")
      bias == Pick(add.ins, LAMBDA t : t # m.out)
  IN  [node |-> NewNode(<<"fused", k>>, IF relu = NoNode THEN "FusedLinear" ELSE "FusedLinearReLU",
                        m.ins \o (IF bias = <<>> THEN <<>> ELSE <<Last(bias)>>),
                        IF relu = NoNode THEN sum ELSE relu.out),
       used |-> {m.name, add.name, relu.name}]

(* The MatMuls among the first k names, unless an earlier layer took them.     *)
Consumed(g, s, n) ==
  LET f == FusedLinearOf(g, NodeOf(g, n), Len(s.nodes))
  IN  IF n \in s.used \/ NodeOf(g, n).op # "MatMul" THEN s
      ELSE [nodes |-> Append(s.nodes, f.node), used |-> s.used \cup f.used]

FusedUpTo(g, order) ==
  LET S[k \in 0 .. Len(order)] ==
        IF k = 0 THEN [nodes |-> <<>>, used |-> {}]
        ELSE LET s == S[k - 1] IN Consumed(g, s, order[k])
  IN  S

(* OperatorFusionPass: a new graph of the fused nodes and, in topological      *)
(* order, of those that were not consumed and whose name is not taken.       *)
fuse_operators(g) ==
  LET order == TopoOrder(g)
      s     == FusedUpTo(g, order)[Len(order)]
      rest  == Among(order, ToSet(order) \ (s.used \cup Names(s.nodes)))
  IN  DropOrphans(Invalidate(
        [g EXCEPT !.nodes = s.nodes \o [i \in DOMAIN rest |-> NodeOf(g, rest[i])]]))

(* ConvFusionPass *)
IsRelu6(g, node) == node.op = "Clip" /\ IsAbout(g, node.ins[2], 0) /\ IsAbout(g, node.ins[3], 6)

fuse_conv(g, conv, k) ==
  LET next == OnlyConsumer(g, conv.out)
      op   == CASE next.op = "Relu" -> "FusedConvReLU"
                [] IsRelu6(g, next) -> "FusedConvReLU6"
                [] OTHER            -> "FusedConv"
  IN  Fuse(g, {conv.name} \cup (IF op = "FusedConv" THEN {} ELSE {next.name}),
           <<"fused_conv", k>>, op, conv.ins, Blank)

(* LayerNormFusionPass *)
fuse_layer_norm(g, node, k) ==
  Fuse(g, {node.name}, <<"fused_ln", k>>, "FusedLayerNorm", node.ins, Blank)

-------------------------------------------------------------------------------
(* ActivationFusionPass: x * Sigmoid(x). *)
fuse_silu(g, sigmoid, k) ==
  LET muls == Pick(Consumers(g, sigmoid.out),
                   LAMBDA c : c.op = "Mul" /\ {sigmoid.ins[1], sigmoid.out} \subseteq ToSet(c.ins))
  IN  IF muls = <<>> THEN Touch(g)
      ELSE Fuse(g, {sigmoid.name, Head(muls).name}, <<"fused_silu", k>>, "FusedSiLU",
                <<sigmoid.ins[1]>>, Blank)

(* ActivationFusionPass: 0.5 * (x * (1 + Erf(x * 0.707))), whatever the order   *)
(* of the operands.                                                        *)
fuse_gelu(g, erf, k) ==
  LET scale == Producer(g, erf.ins[1])
      xs    == Pick(scale.ins, LAMBDA t : ~IsConstant(g, t))
      add   == Single(g, erf.out, "Add")
      mul1  == Single(g, add.out, "Mul")
      mul2  == Single(g, mul1.out, "Mul")
      Has(node, v) == \E t \in ConstantsOf(g, node) : IsAbout(g, t, v)
  IN  IF /\ scale.op = "Mul" /\ xs # <<>> /\ Has(scale, Root2)
         /\ add # NoNode /\ Has(add, 1)
         /\ mul1 # NoNode /\ Head(xs) \in ToSet(mul1.ins)
         /\ mul2 # NoNode /\ Has(mul2, Half)
      THEN Fuse(g, {scale.name, erf.name, add.name, mul1.name, mul2.name},
                <<"fused_gelu", k>>, "FusedGELU", <<Head(xs)>>, Blank)
      ELSE Touch(g)

(* FusedMLPPass: FusedLinear, an activation or none, FusedLinear. *)
fuse_mlp(g, fc1, k) ==
  LET next == OnlyConsumer(g, fc1.out)
      between == next.op \in {"FusedGELU", "FusedSiLU"}
      fc2  == IF between THEN OnlyConsumer(g, next.out) ELSE next
      act  == CASE next.op = "FusedGELU" -> "gelu"
                [] next.op = "FusedSiLU" -> "silu"
                [] OTHER -> IF fc1.op = "FusedLinearReLU" THEN "relu" ELSE "none"
  IN  IF fc2.op \notin LinearTypes THEN Touch(g)
      ELSE Fuse(g, {fc1.name, next.name, fc2.name}, <<"fused_mlp", k>>, "FusedMLP",
                fc1.ins \o Tail(fc2.ins), [Blank EXCEPT !.act = act, !.fc1 = Len(fc1.ins)])

-------------------------------------------------------------------------------
(* AttentionFusionPass: from a Softmax back to the products that project       *)
(* queries, keys and values, and forward to the output projection.  A trace is  *)
(* [found, chain]: the product it came to, or NoNode, and the nodes on the way. *)
Projections == {"MatMul", "Gemm"}
Reshapes    == {"Reshape", "Transpose", "Gather", "Unsqueeze"}

Activations(g, node) == Pick(node.ins, LAMBDA t : t \in DOMAIN g.tensors /\ ~IsConstant(g, t))
From(g, node, ops)   == Pick(node.ins, LAMBDA t : Producer(g, t).op \in ops)
HeadOr(seq, t)       == IF seq = <<>> THEN t ELSE Head(seq)
Nowhere              == <<>>

(* Back from the input of the Softmax over at most two scalings and masks.    *)
trace_pre_softmax(g, t) ==
  LET S[k \in 0 .. 3] ==
        IF k = 0 THEN [at |-> t, found |-> NoNode, chain |-> <<>>, mask |-> FALSE]
        ELSE LET s == S[k - 1]
                 p == Producer(g, s.at)
             IN  IF s.found # NoNode \/ p = NoNode THEN s
                 ELSE CASE p.op = "MatMul" -> [s EXCEPT !.found = p]
                      [] p.op \in {"Mul", "Div"} ->
                           [s EXCEPT !.at = HeadOr(Activations(g, p), Nowhere), !.chain = Append(@, p)]
                      [] p.op = "Add" ->
                           [s EXCEPT !.at = HeadOr(From(g, p, {"MatMul", "Mul", "Div"})
                                                     \o Activations(g, p), Nowhere),
                                     !.chain = Append(@, p), !.mask = TRUE]
                      [] OTHER -> [s EXCEPT !.at = Nowhere]
  IN  S[3]

(* Back from an operand of the products, over at most five reshapes and       *)
(* biases, to its projection.                                              *)
trace_projection(g, t) ==
  LET S[k \in 0 .. 6] ==
        IF k = 0 THEN [at |-> t, found |-> NoNode, chain |-> <<>>]
        ELSE LET s == S[k - 1]
                 p == Producer(g, s.at)
                 projected == From(g, p, Projections)
             IN  IF s.found # NoNode \/ p = NoNode THEN s
                 ELSE CASE p.op \in Projections -> [s EXCEPT !.found = p]
                      [] p.op = "Add" ->
                           [at |-> HeadOr(Activations(g, p), Nowhere), chain |-> Append(s.chain, p),
                            found |-> IF projected = <<>> THEN NoNode ELSE Producer(g, projected[1])]
                      [] p.op \in Reshapes ->
                           [s EXCEPT !.at = p.ins[1], !.chain = Append(@, p)]
                      [] OTHER -> [s EXCEPT !.at = Nowhere]
  IN  S[6]

(* Forward from the weighted values to the output projection, along the first *)
(* consumer of each tensor; out is the tensor that the block ends with.      *)
trace_output_projection(g, t) ==
  LET S[k \in 0 .. 6] ==
        IF k = 0 THEN [out |-> t, found |-> NoNode, chain |-> <<>>, more |-> TRUE]
        ELSE LET s == S[k - 1]
                 c == First(Consumers(g, s.out))
                 projected == From(g, c, Projections)
             IN  IF ~s.more THEN s
                 ELSE CASE c.op \in Projections -> [s EXCEPT !.found = c, !.out = c.out, !.more = FALSE]
                      [] c.op = "Add" /\ projected # <<>> ->
                           [out |-> c.out, found |-> Producer(g, projected[1]),
                            chain |-> Append(s.chain, c), more |-> FALSE]
                      [] c.op \in {"Reshape", "Transpose"} ->
                           [s EXCEPT !.out = c.out, !.chain = Append(@, c)]
                      [] OTHER -> [s EXCEPT !.more = FALSE]
  IN  S[6]

(* What _match_attention_pattern collects from its traces: the scores, the      *)
(* weighted values, the projections of q, k and v and the output projection;  *)
(* or a match with ok = FALSE.                                             *)
NoMatch == [ok |-> FALSE]

Collected(softmax, pre, mix, q, k, v, o) ==
  LET there == Pick([i \in 1 .. 3 |-> <<q, k, v>>[i].found], LAMBDA x : x # NoNode)
      last  == IF o.found = NoNode THEN <<>> ELSE <<o.found>>
  IN  IF q.found = NoNode \/ k.found = NoNode THEN NoMatch
      ELSE [ok    |-> TRUE,
            there |-> there,
            heads |-> there \o last,
            nodes |-> ToSet(<<pre.found, softmax, mix>> \o pre.chain \o q.chain \o k.chain
                              \o v.chain \o o.chain \o there \o last)]

match_attention_pattern(g, softmax) ==
  LET Match(pre, mix, other) ==
        IF pre.found = NoNode \/ mix = NoNode \/ other = <<>> THEN NoMatch
        ELSE Collected(softmax, pre, mix,
                       trace_projection(g, pre.found.ins[1]), trace_projection(g, pre.found.ins[2]),
                       trace_projection(g, Head(other)), trace_output_projection(g, mix.out))
      Mixed(mix) == Match(trace_pre_softmax(g, softmax.ins[1]), mix,
                          Pick(mix.ins, LAMBDA t : t # softmax.out))
  IN  Mixed(First(Pick(Consumers(g, softmax.out), LAMBDA c : c.op = "MatMul")))

(* The weights and biases among the operands of a fused node are those of the *)
(* projections; what a bias Add or a mask read is not.                      *)
fuse_attention(g, softmax, k) ==
  LET Fused(m) ==
        LET fed == Pick(m.there, LAMBDA x : ~IsConstant(g, x.ins[1]))
        IN  Fuse(g, {x.name : x \in m.nodes}, <<"fused_attention", k>>, "FusedAttention",
                 <<First(fed \o m.there).ins[1]>>
                   \o FlattenSeq([i \in DOMAIN m.heads |-> Tail(m.heads[i].ins)]), Blank)
      FusedIf(m) == IF m.ok THEN Fused(m) ELSE Touch(g)
  IN  FusedIf(match_attention_pattern(g, softmax))
===============================================================================
