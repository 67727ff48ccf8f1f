------------------------------- MODULE Quantizer ------------------------------
(***************************************************************************)
(* QuantizationPass, ConvQuantizationPass and AttentionQuantizationPass of     *)
(* src/mlasic/optimization.py on one-element tensors: calibration gives every  *)
(* tensor a range, and each layer, in place, its weights in units of their     *)
(* scale and its bias in units of weight scale times input scale.  Quotients *)
(* are exact; RoundHalfUp and the clips are modelled in QuantMath.           *)
(***************************************************************************)
EXTENDS Passes

CONSTANT Samples     (* calibration data *)

Abs(v) == IF v < 0 THEN -v ELSE v

(* _calibrate: min and max of every tensor over the samples. *)
Calibrate(g) ==
  LET all == [x \in Samples |-> run_all(g, x)]
  IN  [t \in DOMAIN g.tensors |->
         <<Min({all[x][t] : x \in Samples}), Max({all[x][t] : x \in Samples})>>]

RangeOf(ranges, t) == IF t \in DOMAIN ranges THEN ranges[t] ELSE <<0, 1>>

(* A range that is one point, or weights that are all zero, get the least     *)
(* scale instead of none (1 stands for 1e-8).                              *)
ScaleOf(range) == IF range[1] = range[2] THEN 1 ELSE Over(range[2] - range[1], 255)
WeightScale(w) == IF w = 0 THEN 1 ELSE Over(Abs(w), 127)

(* What the activation leaves of the range of the output. *)
Clamped(op, range) ==
  LET lo == IF op \in {"FusedLinearReLU", "FusedConvReLU", "FusedConvReLU6"}
            THEN Max({range[1], 0}) ELSE range[1]
  IN  <<lo, IF op = "FusedConvReLU6" THEN Min({range[2], 6}) ELSE range[2]>>

Divided(tensor, scale, dtype) == [dtype |-> dtype, raw |-> Over(tensor.raw, scale)]

(* Mutant: biases are narrowed like weights. *)
InUnits_Narrow(g, t, scale, dtype) == [g EXCEPT !.tensors[t] = Divided(@, scale, "int8")]

InUnits(g, t, scale, dtype) == [g EXCEPT !.tensors[t] = Divided(@, scale, dtype)]

Annotated(node, attrs) ==
  [name |-> node.name, op |-> node.op, ins |-> node.ins, out |-> node.out, attrs |-> attrs]
AnnotatedIn(nodes, name, attrs) ==
  [i \in DOMAIN nodes |-> IF nodes[i].name = name THEN Annotated(nodes[i], attrs) ELSE nodes[i]]
WithAttrs(g, name, attrs) == [g EXCEPT !.nodes = AnnotatedIn(@, name, attrs)]

Accumulated(ws, xq) == Times(ws, ScaleOf(xq))

(* One layer: weights in place, then the bias, then the attributes.           *)
QuantizedLayer(g, node, xq, yq) ==
  LET ws == WeightScale(g.tensors[node.ins[2]].raw)
      h  == InUnits(g, node.ins[2], ws, "int8")
      b  == IF Len(node.ins) > 2 THEN InUnits(h, node.ins[3], Accumulated(ws, xq), "int32") ELSE h
  IN  WithAttrs(b, node.name, [node.attrs EXCEPT !.ws = <<ws>>, !.xq = xq, !.yq = yq])

(* Mutant: the range of the output is not the calibrated one. *)
quantize_linear_OutputUnclamped(g, node, ranges) ==
  QuantizedLayer(g, node, RangeOf(ranges, node.ins[1]), <<0, 1>>)

(* QuantizationPass: a FusedLinear. *)
quantize_linear(g, node, ranges) ==
  QuantizedLayer(g, node, ranges[node.ins[1]], Clamped(node.op, ranges[node.out]))

(* ConvQuantizationPass: one channel of a FusedConv; a tensor that calibration *)
(* did not reach has the range from 0 to 1.                                 *)
quantize_conv(g, node, ranges) ==
  QuantizedLayer(g, node, RangeOf(ranges, node.ins[1]),
                 Clamped(node.op, RangeOf(ranges, node.out)))

(* Weights and biases that are computed have no data to quantize.            *)
Computed(g, node) == \E t \in ToSet(Tail(node.ins)) : ~IsConstant(g, t)

(* A FusedAttention: the operands after the first are taken to be the four    *)
(* projections' weights, each with a bias behind it.                       *)
QuantizedProjection(node, xq, h, i) ==
  LET w  == node.ins[2 * i]
      ws == WeightScale(h.g.tensors[w].raw)
      hw == InUnits(h.g, w, ws, "int8")
      b  == IF 2 * i + 1 <= Len(node.ins) THEN node.ins[2 * i + 1] ELSE Nowhere
  IN  IF 2 * i > Len(node.ins) \/ ~IsConstant(h.g, w) THEN h
      ELSE [ws |-> Append(h.ws, ws),
            g  |-> IF b # Nowhere /\ IsConstant(hw, b) /\ hw.tensors[b].dtype # "int32"
                   THEN InUnits(hw, b, Accumulated(ws, xq), "int32") ELSE hw]

QuantizedProjections(g, node, xq) ==
  LET After(h, i) == QuantizedProjection(node, xq, h, i)
  IN  After(After(After(After([ws |-> <<>>, g |-> g], 1), 2), 3), 4)

quantize_attention(g, node, ranges) ==
  LET xq == RangeOf(ranges, node.ins[1])
      done == QuantizedProjections(g, node, xq)
  IN  WithAttrs(done.g, node.name,
                [node.attrs EXCEPT !.ws = done.ws, !.xq = xq,
                                   !.yq = RangeOf(ranges, node.out)])

-------------------------------------------------------------------------------
(* is_quantized of the attributes of a node. *)
IsQuantized(node) == node.attrs.ws # <<>> /\ node.attrs.xq # <<>> /\ node.attrs.yq # <<>>

(* The number an operand of a quantized layer stands for. *)
Dequantized(node, j, v) ==
  IF ~IsQuantized(node) \/ j = 1 THEN v
  ELSE CASE j = 2 -> Times(v, node.attrs.ws[1])
         [] j = 3 -> Times(v, Times(node.attrs.ws[1], ScaleOf(node.attrs.xq)))

(* What the graph computes, quantized or not. *)
Meaning(g, x) ==
  LET Apply(node, v) == IF node.op = "FusedMLP" THEN FusedMLP(v, node.attrs) ELSE Execute(node.op, v)
      values == Run(g, x, Dequantized, Apply)
  IN  [i \in DOMAIN g.outputs |-> values[g.outputs[i]]]
===============================================================================
