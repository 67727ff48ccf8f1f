----------------------------- MODULE MCPassPipeline ---------------------------
(* Instance of PassPipeline for TLC: programs are sequences of operators on     *)
(* earlier results (0 is the input) and constants of their own (C), with the  *)
(* constants that patterns look for by name.  The last result leaves the       *)
(* graph; others that nothing reads are dead.                              *)
EXTENDS PassPipeline

CONSTANT Length      (* operators of the programs that are enumerated *)

C == -1      Zero == -2     Six == -3     Five == -4     One == -5     AHalf == -6
InvRoot2 == -7

Op(op, ins) == [op |-> op, ins |-> ins]

ValueOf(ref, k, j) ==
  CASE ref = Zero -> 0 [] ref = Six -> 6 [] ref = Five -> 5 [] ref = One -> 1
    [] ref = AHalf -> Half [] ref = InvRoot2 -> Root2 [] OTHER -> F(17 * k + 29 * j + 3)

Build(prog) ==
  LET Ref(k, j) == IF prog[k].ins[j] >= 0 THEN <<"t", prog[k].ins[j]>> ELSE <<"c", k, j>>
      owned == {<<k, j>> \in (DOMAIN prog) \X (1 .. 4) :
                  j \in DOMAIN prog[k].ins /\ prog[k].ins[j] < 0}
      acts  == {<<"t", k>> : k \in 0 .. Len(prog)}
  IN  [nodes |-> [k \in DOMAIN prog |->
                    NewNode(<<"n", k>>, prog[k].op, [j \in DOMAIN prog[k].ins |-> Ref(k, j)],
                            <<"t", k>>)],
       tensors |-> [t \in acts \cup {<<"c", o[1], o[2]>> : o \in owned} |->
                      IF t \in acts THEN Activation
                      ELSE [dtype |-> "fp32",
                            raw |-> ValueOf(prog[t[2]].ins[t[3]], t[2], t[3])]],
       inputs |-> <<<<"t", 0>>>>, outputs |-> <<<<"t", Len(prog)>>>>, cache |-> <<>>]

(* Every operator of an alphabet at every place. *)
Programs(Ops(_)) ==
  LET S[k \in 0 .. Length] ==
        IF k = 0 THEN {<<>>} ELSE {Append(p, o) : p \in S[k - 1], o \in Ops(0 .. k - 1)}
  IN  S[Length]

MlpOps(acts) ==
  {Op("MatMul", <<a, C>>) : a \in acts} \cup {Op("Add", <<a, C>>) : a \in acts}
    \cup {Op("Add", <<a, b>>) : a, b \in acts} \cup {Op("Relu", <<a>>) : a \in acts}
    \cup {Op("BatchNormalization", <<a, C, C, C>>) : a \in acts}

CnnOps(acts) ==
  {Op("Conv", <<a, C>>) : a \in acts} \cup {Op("Conv", <<a, C, C>>) : a \in acts}
    \cup {Op("Clip", <<a, Zero, h>>) : a \in acts, h \in {Five, Six}}
    \cup {Op("Relu", <<a>>) : a \in acts}
    \cup {Op("BatchNormalization", <<a, C, C, C>>) : a \in acts}

(* The shape that the rewrites rely on: weights are constants, a BatchNorm is    *)
(* the only reader of what it normalises and of the product below it, a sum    *)
(* has at most one product, and the inside of a SiLU or GELU is not read from  *)
(* outside.                                                                *)
Matching(g) ==
  LET nodes == ToSet(g.nodes)
      Private(t) == Len(Consumers(g, t)) = 1
  IN  \A x \in nodes :
        /\ x.op = "BatchNormalization" =>
             /\ Private(x.ins[1])
             /\ \A t \in ToSet(Producer(g, x.ins[1]).ins) : Producer(g, t).op = "MatMul" => Private(t)
        /\ x.op = "Add" =>
             Len(Pick(x.ins, LAMBDA t : Producer(g, t).op = "MatMul")) <= 1
        /\ x.op \in {"Sigmoid", "Erf"} => Private(x.out)
        /\ x.op = "Erf" => Private(x.ins[1])

Gelu(x) == <<Op("Mul", <<x, InvRoot2>>), Op("Erf", <<x + 1>>), Op("Add", <<x + 2, One>>),
             Op("Mul", <<x, x + 3>>), Op("Mul", <<x + 4, AHalf>>)>>
Silu(x) == <<Op("Sigmoid", <<x>>), Op("Mul", <<x + 1, x>>)>>
Linear(x) == <<Op("MatMul", <<x, C>>), Op("Add", <<C, x + 1>>)>>
Tail1(x, h) == <<Op("Add", <<x, h>>)>>

(* Attention over x, with a projection of kind p, from an optional scaling and  *)
(* mask.  A residual reads x again after an output projection; without one the *)
(* fusion would take the residual sum for it.                              *)
Attention(p, scaled, masked, projected) ==
  LET P3  == [i \in 1 .. 3 |-> Op(p, IF p = "Gemm" THEN <<0, C, C>> ELSE <<0, C>>)]
      qk  == <<Op("Transpose", <<2>>), Op("MatMul", <<1, 4>>)>>
      sc  == IF scaled THEN <<Op("Mul", <<5, C>>)>> ELSE <<>>
      ma  == IF masked THEN <<Op("Add", <<5 + Len(sc), C>>)>> ELSE <<>>
      top == 5 + Len(sc) + Len(ma)
      sm  == <<Op("Softmax", <<top>>), Op("MatMul", <<top + 1, 3>>)>>
      out == IF projected THEN <<Op("Gemm", <<top + 2, C, C>>)>> ELSE <<>>
      end == IF projected THEN Op("Add", <<0, top + 3>>) ELSE Op("Relu", <<top + 2>>)
  IN  P3 \o qk \o sc \o ma \o sm \o out \o <<end>>

(* Layers with and without what is fused into them, one after the other.       *)
Chain(k, l, act) == Linear(k) \o act \o Linear(l)
LongPrograms ==
  {<<Op("MatMul", <<0, C>>), Op("Add", <<C, 1>>), o, p>> :
     o \in {Op("BatchNormalization", <<2, C, C, C>>), Op("Relu", <<2>>), Op("MatMul", <<2, C>>)},
     p \in {Op("Relu", <<3>>), Op("Add", <<3, 2>>), Op("Add", <<2, 3>>), Op("Add", <<3, 0>>),
            Op("MatMul", <<3, C>>), Op("BatchNormalization", <<3, C, C, C>>)}}
  \cup {Chain(0, 3, <<Op("Relu", <<2>>)>>), Chain(0, 7, Gelu(2)), Chain(0, 4, Silu(2)),
        Chain(0, 4, <<Op("Relu", <<2>>), Op("Add", <<3, 0>>)>>) \o Chain(6, 9, <<Op("Relu", <<8>>)>>),
        Linear(0) \o Linear(2) \o <<Op("BatchNormalization", <<4, C, C, C>>), Op("Relu", <<5>>)>>,
        <<Op("Conv", <<0, C>>), Op("BatchNormalization", <<1, C, C, C>>), Op("Clip", <<2, Zero, Six>>),
          Op("Conv", <<3, C, C>>), Op("BatchNormalization", <<4, C, C, C>>), Op("Add", <<3, 5>>)>>}

CliPrograms ==
  {<<Op("Transpose", <<C>>), Op("Mul", <<1, C>>), Op("MatMul", <<0, 2>>), Op("Add", <<3, C>>)>>}

(* A convolutional network with a linear head. *)
CnnWithHead ==
  {Build(<<Op("Conv", <<0, C, C>>), Op("Relu", <<1>>), Op("MatMul", <<2, C>>), Op("Add", <<3, C>>)>>)}

(* Feed-forward networks as the structural passes leave them: FusedMLP finds    *)
(* fused layers where a caller runs those before the passes for transformers.   *)
FeedForward(op, act) == <<Op(op, <<0, C, C>>)>> \o act \o <<Op("FusedLinear", <<1 + Len(act), C, C>>)>>
FusedPrograms ==
  {FeedForward("FusedLinear", act) : act \in {<<>>, Gelu(1), Silu(1)}}
  \cup {FeedForward("FusedLinearReLU", <<>>),
        FeedForward("FusedLinearReLU", <<>>) \o <<Op("FusedLinear", <<2, C>>)>>,
        FeedForward("FusedLinear", Gelu(1)) \o <<Op("Add", <<0, 7>>)>>}

TransformerPrograms ==
  {<<Op("LayerNormalization", <<0, C, C>>)>> \o Gelu(1) \o Tail1(0, 6),
   Silu(0) \o <<Op("Sigmoid", <<0>>), Op("Mul", <<2, 3>>)>>}
  \cup FusedPrograms
  \cup {Attention(p, s, m, o) : p \in {"Gemm", "MatMul"}, s, m, o \in BOOLEAN}

MCSources ==
  {g \in {Build(p) : p \in Programs(MlpOps) \cup Programs(CnnOps)
                           \cup LongPrograms \cup CliPrograms
                           \cup TransformerPrograms} : Matching(g)}
MCSamples == {3, -7, 20}
===============================================================================
