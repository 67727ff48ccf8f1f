-------------------------------- MODULE QuantMath ------------------------------
(***************************************************************************)
(* One output of a layer in the two arithmetics of the compiler: real, and as  *)
(* INT8Interpreter and the hardware compute it with the parameters of          *)
(* QuantizationPass and ConvQuantizationPass.                              *)
(*                                                                         *)
(* A layer is a record of its weights w and bias b, its activation act and      *)
(* the calibration samples xs.  Real numbers are integers, scales are           *)
(* quotients of integers, floor(n/d + 0.5) is exact.  The guards against a      *)
(* range or weights of 0 (1e-8) are left out: layers do not have them.        *)
(***************************************************************************)
EXTENDS Integers, FiniteSetsExt, Functions

CONSTANTS
  Bits,              (* of an activation or a weight: 8                      *)
  FractionalBits     (* REQUANT_FRACTIONAL_BITS: 16                         *)

ASSUME QuantAssumption == Bits \in Nat \ {0, 1} /\ FractionalBits \in Nat \ {0}

QMax  == 2 ^ (Bits - 1) - 1
QMin  == -(2 ^ (Bits - 1))
Steps == QMax - QMin

Clip(x, lo, hi) == IF x < lo THEN lo ELSE IF x > hi THEN hi ELSE x

RoundHalfUp(n, d) == (2 * n + d) \div (2 * d)

Relu6Top == 6

-------------------------------------------------------------------------------
(* The real layer.                                                         *)
Dot(w, x) == SumFunction([i \in DOMAIN w |-> w[i] * x[i]])

Real(l, x) ==
  LET y == Dot(l.w, x) + l.b
  IN  CASE l.act = "none"  -> y
        [] l.act = "relu"  -> Clip(y, 0, Max({y, 0}))
        [] l.act = "relu6" -> Clip(y, 0, Relu6Top)

Values(l)  == UNION {Range(x) : x \in l.xs}
Results(l) == {Real(l, x) : x \in l.xs}

-------------------------------------------------------------------------------
(* The passes.  The scale of a range is (hi - lo) / Steps.  Where they clamp the *)
(* output range at 0 and 6 for an activation, Results is activated already.    *)
ZeroPoint(lo, hi) == Clip(RoundHalfUp(-lo * Steps, hi - lo) + QMin, QMin, QMax)

Asymmetric(vals) ==
  [span |-> Max(vals) - Min(vals), zero |-> ZeroPoint(Min(vals), Max(vals))]

MaxAbs(l) == Max({IF v < 0 THEN -v ELSE v : v \in Range(l.w)})

(* M_fixed = scale_w * scale_x / scale_y in fixed point.                     *)
(* Mutant: the scales of input and output are exchanged. *)
RequantScale_Swapped(l, x, y) == RoundHalfUp(MaxAbs(l) * y.span * 2 ^ FractionalBits, QMax * x.span)
RequantScale(l, x, y) == RoundHalfUp(MaxAbs(l) * x.span * 2 ^ FractionalBits, QMax * y.span)

Quantized(l) ==
  LET x == Asymmetric(Values(l))
      y == Asymmetric(Results(l))
  IN  [w     |-> [i \in DOMAIN l.w |-> Clip(RoundHalfUp(l.w[i] * QMax, MaxAbs(l)), -QMax, QMax)],
       b     |-> RoundHalfUp(l.b * QMax * Steps, MaxAbs(l) * x.span),
       m     |-> RequantScale(l, x, y),
       shift |-> FractionalBits,
       x     |-> x, y |-> y, act |-> l.act]

-------------------------------------------------------------------------------
(* INT8Interpreter.  QuantParams.quantize keeps -128 for asymmetric ranges.   *)
Quantize(v, p) ==
  Clip(RoundHalfUp(v * Steps, p.span) + p.zero, IF p.zero = 0 THEN -QMax ELSE QMin, QMax)

auto_quantize_input(q, x) == [i \in DOMAIN x |-> Quantize(x[i], q.x)]

Accumulated(q, x) == Dot(q.w, auto_quantize_input(q, x)) + q.b

Rescaled(q, acc) == (acc * q.m + 2 ^ (q.shift - 1)) \div 2 ^ q.shift

Top6(q) == Min({RoundHalfUp(Relu6Top * Steps, q.y.span) + q.y.zero, QMax})

Activated(q, r) ==
  CASE q.act = "none"  -> r
    [] q.act = "relu"  -> Max({r, 0})
    [] q.act = "relu6" -> Min({Max({r, 0}), Top6(q)})

execute_fused_layer(q, x) ==
  Activated(q, Clip(Rescaled(q, Accumulated(q, x)) + q.y.zero, QMin, QMax))

(* |Real - dequantize_output| in units of the output's scale, at most n.       *)
Within(n, l, q, x, out) ==
  LET d == Real(l, x) * Steps - (out - q.y.zero) * q.y.span
  IN  -n * q.y.span <= d /\ d <= n * q.y.span
===============================================================================
