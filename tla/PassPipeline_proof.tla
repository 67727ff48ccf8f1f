--------------------------- MODULE PassPipeline_proof --------------------------
(***************************************************************************)
(* Proofs about PassPipeline, for every graph that may be compiled.          *)
(***************************************************************************)
EXTENDS PassPipeline, FiniteSetTheorems, SequenceTheorems, TLAPS

-------------------------------------------------------------------------------
(* Induction up to a number, with the predicate as a set. *)
LEMMA UpTo ==
  ASSUME NEW n \in Nat, NEW Good, 0 \in Good, \A i \in 1 .. n : i - 1 \in Good => i \in Good
  PROVE  \A i \in 0 .. n : i \in Good
<1> DEFINE T == {i \in 0 .. n : i \notin Good}
<1>1. SUFFICES ASSUME T # {} PROVE FALSE
  OBVIOUS
<1>2. T \in SUBSET Nat
  OBVIOUS
<1>3. IsWellFoundedOn(OpToRel(<, Nat), Nat)
  BY NatLessThanWellFounded
<1>4. PICK x \in T : \A y \in T : <<y, x>> \notin OpToRel(<, Nat)
  BY <1>1, <1>2, <1>3, WFMin
<1>5. \A y \in T : ~(y < x)
  BY <1>2, <1>4 DEF OpToRel
<1>6. x \in 1 .. n /\ x - 1 \in 0 .. n /\ x - 1 < x
  OBVIOUS
<1>7. x - 1 \in Good
  BY <1>5, <1>6
<1> QED BY <1>6, <1>7

(* A function defined by recursion up to n exists, when each step stays in X.  *)
Recursive(A, n, X, x0, step) ==
  /\ A \in [0 .. n -> X]
  /\ A[0] = x0
  /\ \A i \in 1 .. n : A[i] = step[<<A[i - 1], i>>]

LEMMA Recursion ==
  ASSUME NEW n \in Nat, NEW X, NEW x0 \in X, NEW step \in [X \X (1 .. n) -> X]
  PROVE  \E A : Recursive(A, n, X, x0, step)
<1> DEFINE Good == {m \in 0 .. n : \E A : Recursive(A, m, X, x0, step)}
<1>1. 0 \in Good
  <2> DEFINE A == [i \in 0 .. 0 |-> x0]
  <2>1. Recursive(A, 0, X, x0, step)
    BY DEF Recursive
  <2> QED BY <2>1
<1>2. ASSUME NEW m \in 1 .. n, m - 1 \in Good PROVE m \in Good
  <2>1. PICK A : Recursive(A, m - 1, X, x0, step)
    BY <1>2
  <2> DEFINE B == [i \in 0 .. m |-> IF i = m THEN step[<<A[m - 1], m>>] ELSE A[i]]
  <2>2. A[m - 1] \in X /\ <<A[m - 1], m>> \in X \X (1 .. n)
    BY <2>1 DEF Recursive
  <2>3. \A i \in 0 .. m : B[i] \in X
    BY <2>1, <2>2 DEF Recursive
  <2>4. \A i \in 1 .. m : B[i] = step[<<B[i - 1], i>>]
    <3>1. SUFFICES ASSUME NEW i \in 1 .. m PROVE B[i] = step[<<B[i - 1], i>>]
      OBVIOUS
    <3>2. B[i - 1] = A[i - 1]
      OBVIOUS
    <3>3. CASE i = m
      <4>1. B[i] = step[<<A[m - 1], m>>]
        BY <3>3
      <4> QED BY <3>2, <3>3, <4>1
    <3>4. CASE i # m
      <4>1. i \in 1 .. m - 1 /\ B[i] = A[i]
        BY <3>4
      <4> QED BY <2>1, <3>2, <4>1 DEF Recursive
    <3> QED BY <3>3, <3>4
  <2>5. B[0] = x0
    BY <2>1 DEF Recursive
  <2>6. B \in [0 .. m -> X]
    BY <2>3
  <2>7. Recursive(B, m, X, x0, step)
    BY <2>4, <2>5, <2>6 DEF Recursive
  <2> QED BY <2>7
<1>3. n \in Good
  <2> HIDE DEF Good
  <2> QED BY <1>1, <1>2, UpTo
<1> QED BY <1>3

(* What satisfies the recursion stays in X. *)
LEMMA RecursionStays ==
  ASSUME NEW n \in Nat, NEW X, NEW x0 \in X, NEW step \in [X \X (1 .. n) -> X],
         NEW B, B = [i \in 0 .. n |-> B[i]], B[0] = x0,
         \A i \in 1 .. n : B[i - 1] \in X => B[i] = step[<<B[i - 1], i>>]
  PROVE  Recursive(B, n, X, x0, step)
<1> DEFINE Good == {i \in 0 .. n : B[i] \in X}
<1>1. 0 \in Good
  OBVIOUS
<1>2. ASSUME NEW i \in 1 .. n, i - 1 \in Good PROVE i \in Good
  <2>1. <<B[i - 1], i>> \in X \X (1 .. n)
    BY <1>2
  <2>2. step[<<B[i - 1], i>>] \in X
    BY <2>1
  <2>3. i \in 0 .. n /\ B[i - 1] \in X
    BY <1>2
  <2>4. B[i] = step[<<B[i - 1], i>>]
    BY <2>3
  <2> QED BY <2>2, <2>3, <2>4
<1>3. \A i \in 0 .. n : i \in Good
  <2> HIDE DEF Good
  <2> QED BY <1>1, <1>2, UpTo
<1>4. \A i \in 1 .. n : B[i] = step[<<B[i - 1], i>>]
  <2>1. SUFFICES ASSUME NEW i \in 1 .. n PROVE B[i] = step[<<B[i - 1], i>>]
    OBVIOUS
  <2>2. i - 1 \in Good
    BY <1>3
  <2> QED BY <2>2
<1>5. \A i \in 0 .. n : B[i] \in X
  BY <1>3
<1>6. B \in [0 .. n -> X]
  BY <1>5
<1> QED BY <1>4, <1>6 DEF Recursive

(* The members of a set, in the order of a sequence. *)
Picked(T, seq, S) ==
  [p \in Seq(T) \X (1 .. Len(seq)) |->
     IF seq[p[2]] \in S THEN Append(p[1], seq[p[2]]) ELSE p[1]]

LEMMA AmongUnfolds ==
  ASSUME NEW T, NEW seq \in Seq(T), NEW S
  PROVE  \E A : /\ Recursive(A, Len(seq), Seq(T), <<>>, Picked(T, seq, S))
               /\ Among(seq, S) = A[Len(seq)]
<1> DEFINE n == Len(seq)
           step == Picked(T, seq, S)
<1>1. n \in Nat /\ \A i \in 1 .. n : seq[i] \in T
  BY LenProperties, ElementOfSeq
<1>2. \A s \in Seq(T), i \in 1 .. n :
        step[<<s, i>>] = IF seq[i] \in S THEN Append(s, seq[i]) ELSE s
  BY DEF Picked
<1>3. step \in [Seq(T) \X (1 .. n) -> Seq(T)]
  <2>1. ASSUME NEW s \in Seq(T), NEW i \in 1 .. n PROVE step[<<s, i>>] \in Seq(T)
    <3>1. Append(s, seq[i]) \in Seq(T)
      BY <1>1, AppendProperties
    <3> QED BY <1>2, <3>1
  <2>2. step = [p \in Seq(T) \X (1 .. n) |-> step[p]]
    BY DEF Picked
  <2> HIDE DEF step
  <2>3. \A p \in Seq(T) \X (1 .. n) : step[p] \in Seq(T)
    BY <2>1
  <2> QED BY <2>2, <2>3
<1>4. <<>> \in Seq(T)
  BY EmptySeq
<1> HIDE DEF step
<1>5. PICK A : Recursive(A, n, Seq(T), <<>>, step)
  BY <1>1, <1>3, <1>4, Recursion
<1> DEFINE e(B, i) == IF i = 0 THEN <<>>
                      ELSE IF seq[i] \in S THEN Append(B[i - 1], seq[i]) ELSE B[i - 1]
<1>6. A = [i \in 0 .. n |-> e(A, i)]
  <2>1. A = [i \in 0 .. n |-> A[i]] /\ A[0] = <<>> /\ \A i \in 0 .. n : A[i] \in Seq(T)
    BY <1>5 DEF Recursive
  <2>2. ASSUME NEW i \in 1 .. n PROVE A[i] = e(A, i)
    <3>1. i - 1 \in 0 .. n /\ A[i] = step[<<A[i - 1], i>>] /\ i # 0
      BY <1>1, <1>5 DEF Recursive
    <3> QED BY <1>2, <2>1, <3>1
  <2>3. A[0] = e(A, 0)
    BY <2>1
  <2>4. \A i \in 0 .. n : i = 0 \/ i \in 1 .. n
    BY <1>1
  <2> HIDE DEF e
  <2>5. \A i \in 0 .. n : A[i] = e(A, i)
    BY <2>2, <2>3, <2>4
  <2> QED BY <2>1, <2>5
<1> DEFINE B == CHOOSE B : B = [i \in 0 .. n |-> e(B, i)]
<1>7. B = [i \in 0 .. n |-> e(B, i)]
  BY <1>6
<1>8. Among(seq, S) = B[n]
  BY DEF Among
<1> HIDE DEF B
<1>9. Recursive(B, n, Seq(T), <<>>, step)
  <2>1. B = [i \in 0 .. n |-> B[i]] /\ B[0] = <<>>
    BY <1>1, <1>7
  <2>2. \A i \in 1 .. n : B[i - 1] \in Seq(T) => B[i] = step[<<B[i - 1], i>>]
    <3>1. SUFFICES ASSUME NEW i \in 1 .. n, B[i - 1] \in Seq(T)
                   PROVE  B[i] = step[<<B[i - 1], i>>]
      OBVIOUS
    <3>2. i \in 0 .. n /\ i # 0
      BY <1>1
    <3>3. B[i] = e(B, i)
      <4> HIDE DEF e
      <4> QED BY <1>7, <3>2
    <3> QED BY <1>2, <3>1, <3>2, <3>3
  <2> QED BY <1>1, <1>3, <1>4, <2>1, <2>2, RecursionStays
<1> QED BY <1>8, <1>9 DEF step

(* Sequences as sets: what an end, a beginning or a tail adds or takes away.   *)
LEMMA AppendMembers ==
  ASSUME NEW S, NEW s \in Seq(S), NEW e \in S
  PROVE  /\ ToSet(Append(s, e)) = ToSet(s) \cup {e}
         /\ IsInjective(s) /\ e \notin ToSet(s) => IsInjective(Append(s, e))
<1> DEFINE t == Append(s, e)
<1>1. /\ t \in Seq(S) /\ Len(t) = Len(s) + 1 /\ Len(s) \in Nat
      /\ \A i \in 1 .. Len(s) : t[i] = s[i]
      /\ t[Len(s) + 1] = e
  BY AppendProperties, LenProperties
<1>2. DOMAIN s = 1 .. Len(s) /\ DOMAIN t = 1 .. Len(s) + 1
  BY <1>1, LenProperties
<1> HIDE DEF t
<1>3. ToSet(t) = ToSet(s) \cup {e}
  <2>1. \A x \in ToSet(t) : x \in ToSet(s) \cup {e}
    BY <1>1, <1>2 DEF ToSet
  <2>2. \A x \in ToSet(s) \cup {e} : x \in ToSet(t)
    <3>1. e \in ToSet(t)
      BY <1>1, <1>2 DEF ToSet
    <3>2. ASSUME NEW i \in 1 .. Len(s) PROVE s[i] \in ToSet(t)
      BY <1>1, <1>2 DEF ToSet
    <3> QED BY <3>1, <3>2, <1>2 DEF ToSet
  <2> QED BY <2>1, <2>2
<1>4. ASSUME IsInjective(s), e \notin ToSet(s) PROVE IsInjective(t)
  <2>1. \A i \in 1 .. Len(s) : t[i] # e
    BY <1>1, <1>2, <1>4 DEF ToSet
  <2>2. \A i, j \in 1 .. Len(s) : t[i] = t[j] => i = j
    BY <1>1, <1>2, <1>4 DEF IsInjective
  <2>3. \A i \in DOMAIN t : i \in 1 .. Len(s) \/ i = Len(s) + 1
    BY <1>1, <1>2
  <2> QED BY <1>1, <2>1, <2>2, <2>3 DEF IsInjective
<1> QED BY <1>3, <1>4 DEF t

LEMMA ConcatMembers ==
  ASSUME NEW S, NEW s \in Seq(S), NEW t \in Seq(S)
  PROVE  /\ ToSet(s \o t) = ToSet(s) \cup ToSet(t)
         /\ IsInjective(s) /\ IsInjective(t) /\ ToSet(s) \cap ToSet(t) = {}
              => IsInjective(s \o t)
<1> DEFINE u == s \o t
<1>1. /\ u \in Seq(S) /\ Len(u) = Len(s) + Len(t) /\ Len(s) \in Nat /\ Len(t) \in Nat
      /\ \A i \in 1 .. Len(s) + Len(t) : u[i] = IF i <= Len(s) THEN s[i] ELSE t[i - Len(s)]
  BY ConcatProperties, LenProperties
<1>2. DOMAIN s = 1 .. Len(s) /\ DOMAIN t = 1 .. Len(t) /\ DOMAIN u = 1 .. Len(s) + Len(t)
  BY <1>1, LenProperties
<1> HIDE DEF u
<1>3. \A i \in DOMAIN s : i \in DOMAIN u /\ u[i] = s[i]
  BY <1>1, <1>2
<1>4. \A i \in DOMAIN t : i + Len(s) \in DOMAIN u /\ u[i + Len(s)] = t[i]
  BY <1>1, <1>2
<1>5. \A i \in DOMAIN u : i \in DOMAIN s \/ i - Len(s) \in DOMAIN t
  BY <1>1, <1>2
<1>6. \A i \in DOMAIN u : i \notin DOMAIN s => u[i] = t[i - Len(s)]
  BY <1>1, <1>2
<1>7. ToSet(u) = ToSet(s) \cup ToSet(t)
  BY <1>3, <1>4, <1>5, <1>6 DEF ToSet
<1>8. ASSUME IsInjective(s), IsInjective(t), ToSet(s) \cap ToSet(t) = {}
      PROVE  IsInjective(u)
  <2>1. SUFFICES ASSUME NEW i \in DOMAIN u, NEW j \in DOMAIN u, u[i] = u[j] PROVE i = j
    BY DEF IsInjective
  <2>2. i \in Int /\ j \in Int
    BY <1>2
  <2>3. CASE i \in DOMAIN s /\ j \in DOMAIN s
    BY <1>3, <1>8, <2>1, <2>3 DEF IsInjective
  <2>4. CASE i \notin DOMAIN s /\ j \notin DOMAIN s
    <3>1. i - Len(s) = j - Len(s)
      BY <1>5, <1>6, <1>8, <2>1, <2>4 DEF IsInjective
    <3> QED BY <1>1, <2>2, <3>1
  <2>5. CASE i \in DOMAIN s /\ j \notin DOMAIN s
    BY <1>3, <1>5, <1>6, <1>8, <2>1, <2>5 DEF ToSet
  <2>6. CASE i \notin DOMAIN s /\ j \in DOMAIN s
    BY <1>3, <1>5, <1>6, <1>8, <2>1, <2>6 DEF ToSet
  <2> QED BY <2>3, <2>4, <2>5, <2>6
<1> QED BY <1>7, <1>8 DEF u

LEMMA TailMembers ==
  ASSUME NEW S, NEW s \in Seq(S), s # <<>>, IsInjective(s)
  PROVE  /\ Head(s) \in ToSet(s)
         /\ ToSet(Tail(s)) = ToSet(s) \ {Head(s)}
         /\ IsInjective(Tail(s))
<1> DEFINE t == Tail(s)
<1>1. /\ t \in Seq(S) /\ Len(t) = Len(s) - 1 /\ Len(s) \in Nat \ {0}
      /\ \A i \in 1 .. Len(t) : t[i] = s[i + 1]
  BY HeadTailProperties, LenProperties, EmptySeq
<1>2. DOMAIN s = 1 .. Len(s) /\ DOMAIN t = 1 .. Len(s) - 1 /\ Head(s) = s[1]
  BY <1>1, LenProperties
<1> HIDE DEF t
<1>3. \A i \in DOMAIN t : i + 1 \in DOMAIN s \ {1} /\ t[i] = s[i + 1]
  BY <1>1, <1>2
<1>4. \A i \in DOMAIN s \ {1} : i - 1 \in DOMAIN t /\ t[i - 1] = s[i]
  BY <1>1, <1>2
<1>5. 1 \in DOMAIN s
  BY <1>1, <1>2
<1>6. \A i \in DOMAIN s \ {1} : s[i] # s[1]
  BY <1>5 DEF IsInjective
<1>7. ToSet(t) = ToSet(s) \ {s[1]}
  BY <1>3, <1>4, <1>5, <1>6 DEF ToSet
<1>8. IsInjective(t)
  <2>1. SUFFICES ASSUME NEW i \in DOMAIN t, NEW j \in DOMAIN t, t[i] = t[j] PROVE i = j
    BY DEF IsInjective
  <2>2. i + 1 = j + 1 /\ i \in Int /\ j \in Int
    BY <1>2, <1>3, <2>1 DEF IsInjective
  <2> QED BY <2>2
<1> QED BY <1>2, <1>5, <1>7, <1>8 DEF t, ToSet

LEMMA AmongLists ==
  ASSUME NEW T, NEW seq \in Seq(T), NEW S
  PROVE  /\ Among(seq, S) \in Seq(T)
         /\ ToSet(Among(seq, S)) = ToSet(seq) \cap S
         /\ IsInjective(seq) => IsInjective(Among(seq, S))
<1> DEFINE n == Len(seq)
           Seen(i) == {seq[j] : j \in 1 .. i} \cap S
<1>1. PICK A : /\ Recursive(A, n, Seq(T), <<>>, Picked(T, seq, S))
               /\ Among(seq, S) = A[n]
  BY AmongUnfolds
<1>2. n \in Nat /\ DOMAIN seq = 1 .. n /\ \A i \in 1 .. n : seq[i] \in T
  BY LenProperties, ElementOfSeq
<1>3. /\ A[0] = <<>>
      /\ \A i \in 0 .. n : A[i] \in Seq(T)
      /\ \A i \in 1 .. n : i - 1 \in 0 .. n
           /\ A[i] = IF seq[i] \in S THEN Append(A[i - 1], seq[i]) ELSE A[i - 1]
  <2>1. /\ A[0] = <<>> /\ \A i \in 0 .. n : A[i] \in Seq(T)
        /\ \A i \in 1 .. n : A[i] = Picked(T, seq, S)[<<A[i - 1], i>>]
    BY <1>1 DEF Recursive
  <2>2. \A i \in 1 .. n : i - 1 \in 0 .. n
    BY <1>2
  <2>3. \A l \in Seq(T), i \in 1 .. n :
          Picked(T, seq, S)[<<l, i>>] = IF seq[i] \in S THEN Append(l, seq[i]) ELSE l
    BY DEF Picked
  <2> HIDE DEF n
  <2> QED BY <2>1, <2>2, <2>3
<1> HIDE DEF n
<1> DEFINE Good == {i \in 0 .. n : /\ ToSet(A[i]) = Seen(i)
                                   /\ IsInjective(seq) => IsInjective(A[i])}
<1>4. 0 \in Good
  <2>1. ToSet(A[0]) = Seen(0) /\ IsInjective(A[0])
    BY <1>3 DEF ToSet, IsInjective
  <2> QED BY <1>2, <2>1
<1>5. ASSUME NEW i \in 1 .. n, i - 1 \in Good PROVE i \in Good
  <2>1. Seen(i) = Seen(i - 1) \cup ({seq[i]} \cap S)
    <3>1. \A j \in 1 .. i : j \in 1 .. i - 1 \/ j = i
      BY <1>2
    <3>2. 1 .. i - 1 \subseteq 1 .. i /\ i \in 1 .. i
      BY <1>2
    <3> QED BY <3>1, <3>2
  <2>2. A[i - 1] \in Seq(T) /\ seq[i] \in T /\ i \in 0 .. n
    BY <1>2, <1>3
  <2>3. IsInjective(seq) => seq[i] \notin Seen(i - 1)
    <3>1. ASSUME IsInjective(seq), NEW j \in 1 .. i - 1, seq[i] = seq[j] PROVE FALSE
      <4>1. j \in 1 .. n /\ j # i
        BY <1>2
      <4> QED BY <1>2, <3>1, <4>1 DEF IsInjective
    <3> QED BY <3>1
  <2>4. CASE seq[i] \in S
    <3>1. A[i] = Append(A[i - 1], seq[i])
      BY <1>3, <2>4
    <3>2. /\ ToSet(A[i]) = ToSet(A[i - 1]) \cup {seq[i]}
          /\ IsInjective(A[i - 1]) /\ seq[i] \notin ToSet(A[i - 1]) => IsInjective(A[i])
      BY <2>2, <3>1, AppendMembers
    <3> HIDE DEF Seen
    <3> QED BY <1>5, <2>1, <2>2, <2>3, <2>4, <3>2
  <2>5. CASE seq[i] \notin S
    <3>1. A[i] = A[i - 1] /\ Seen(i) = Seen(i - 1)
      BY <1>3, <2>1, <2>5
    <3> HIDE DEF Seen
    <3> QED BY <1>5, <2>2, <3>1
  <2> QED BY <2>4, <2>5
<1>6. n \in Good
  <2> HIDE DEF Good
  <2> QED BY <1>2, <1>4, <1>5, UpTo
<1>7. Seen(n) = ToSet(seq) \cap S
  BY <1>2 DEF ToSet
<1> QED BY <1>1, <1>2, <1>3, <1>6, <1>7

(* A dict stays one when its nodes are picked, replaced or added to.          *)
LEMMA DictMembers ==
  ASSUME NEW nodes, Dict(nodes)
  PROVE  /\ DOMAIN nodes = 1 .. Len(nodes) /\ Len(nodes) \in Nat
         /\ \A i \in DOMAIN nodes : nodes[i] \in ToSet(nodes)
         /\ IsInjective(nodes)
BY LenProperties DEF Dict, ToSet, IsInjective

LEMMA ListIsSeq ==
  ASSUME NEW S, NEW seq \in Seq(S)
  PROVE  seq \in Seq(ToSet(seq))
<1>1. Len(seq) \in Nat /\ DOMAIN seq = 1 .. Len(seq) /\ seq = [i \in 1 .. Len(seq) |-> seq[i]]
  BY LenProperties
<1>2. \A i \in 1 .. Len(seq) : seq[i] \in ToSet(seq)
  BY <1>1 DEF ToSet
<1> QED BY <1>1, <1>2, IsASeq

LEMMA MadeSeq ==
  ASSUME NEW seq, NEW n \in Nat, seq = [i \in 1 .. n |-> seq[i]]
  PROVE  seq \in Seq(ToSet(seq)) /\ Len(seq) = n
<1>1. \A i \in 1 .. n : seq[i] \in ToSet(seq)
  BY DEF ToSet
<1>2. seq \in Seq(ToSet(seq))
  BY <1>1, IsASeq
<1> QED BY <1>2, LenProperties

LEMMA DictAmong ==
  ASSUME NEW nodes, Dict(nodes), NEW S
  PROVE  Dict(Among(nodes, S))
<1> DEFINE kept == Among(nodes, S)
           N == ToSet(nodes)
<1>1. kept \in Seq(N) /\ ToSet(kept) \subseteq N /\ IsInjective(kept)
  BY AmongLists, DictMembers DEF Dict
<1> HIDE DEF kept
<1>2. kept \in Seq(ToSet(kept))
  BY <1>1, ListIsSeq
<1>3. \A x, y \in N : x.name = y.name => x = y
  BY DEF Dict, ToSet
<1>4. \A i \in DOMAIN kept : kept[i] \in N
  BY <1>1 DEF ToSet
<1>5. \A i, j \in DOMAIN kept : kept[i].name = kept[j].name => i = j
  BY <1>1, <1>3, <1>4 DEF IsInjective
<1>6. \A i \in DOMAIN kept : IsNode(kept[i])
  BY <1>4 DEF Dict, ToSet
<1> QED BY <1>2, <1>5, <1>6 DEF Dict, kept

LEMMA DictSame ==
  ASSUME NEW nodes, Dict(nodes), NEW others, others = [i \in DOMAIN nodes |-> others[i]],
         \A i \in DOMAIN nodes :
           others[i].name = nodes[i].name /\ IsNode(others[i])
  PROVE  Dict(others)
<1>1. others = [i \in 1 .. Len(nodes) |-> others[i]] /\ Len(nodes) \in Nat
      /\ \A i \in 1 .. Len(nodes) : others[i] \in ToSet(others)
  BY DictMembers DEF ToSet
<1>2. others \in Seq(ToSet(others))
  BY <1>1, IsASeq
<1> QED BY <1>2 DEF Dict

LEMMA DictAppend ==
  ASSUME NEW nodes, Dict(nodes), NEW node, IsNode(node),
         node.name \notin Names(nodes)
  PROVE  Dict(Append(nodes, node))
<1> DEFINE t == Append(nodes, node)
           N == ToSet(nodes) \cup {node}
<1>1. nodes \in Seq(N) /\ node \in N /\ DOMAIN nodes = 1 .. Len(nodes) /\ Len(nodes) \in Nat
  <2>1. \A i \in 1 .. Len(nodes) : nodes[i] \in N
    BY DictMembers
  <2>2. nodes = [i \in 1 .. Len(nodes) |-> nodes[i]]
    BY LenProperties DEF Dict
  <2> QED BY <2>1, <2>2, DictMembers, IsASeq
<1>2. /\ t \in Seq(N) /\ Len(t) = Len(nodes) + 1
      /\ \A i \in 1 .. Len(nodes) : t[i] = nodes[i]
      /\ t[Len(nodes) + 1] = node
  BY <1>1, AppendProperties
<1> HIDE DEF t
<1>3. DOMAIN t = 1 .. Len(nodes) + 1
  BY <1>2, LenProperties
<1>4. ASSUME NEW i \in DOMAIN t, NEW j \in DOMAIN t, t[i].name = t[j].name PROVE i = j
  <2>1. \A k \in DOMAIN t : k \in DOMAIN nodes \/ k = Len(nodes) + 1
    BY <1>1, <1>3
  <2>2. \A k \in DOMAIN nodes : t[k] = nodes[k] /\ t[k].name # node.name
    BY <1>1, <1>2 DEF Names
  <2> QED BY <1>2, <1>4, <2>1, <2>2 DEF Dict
<1>5. t \in Seq(ToSet(t))
  BY <1>2, ListIsSeq
<1> QED BY <1>4, <1>5 DEF Dict, t

LEMMA DictConcat ==
  ASSUME NEW a, Dict(a), NEW b, Dict(b), Names(a) \cap Names(b) = {}
  PROVE  Dict(a \o b)
<1> DEFINE t == a \o b
           N == ToSet(a) \cup ToSet(b)
<1>1. a \in Seq(N) /\ b \in Seq(N)
  <2>1. a = [i \in 1 .. Len(a) |-> a[i]] /\ b = [i \in 1 .. Len(b) |-> b[i]]
    BY LenProperties DEF Dict
  <2>2. /\ \A i \in 1 .. Len(a) : a[i] \in N
        /\ \A i \in 1 .. Len(b) : b[i] \in N
    BY DictMembers
  <2> QED BY <2>1, <2>2, DictMembers, IsASeq
<1>2. /\ t \in Seq(N) /\ Len(t) = Len(a) + Len(b) /\ Len(a) \in Nat /\ Len(b) \in Nat
      /\ \A i \in 1 .. Len(a) + Len(b) : t[i] = IF i <= Len(a) THEN a[i] ELSE b[i - Len(a)]
  BY <1>1, ConcatProperties, LenProperties
<1>3. DOMAIN t = 1 .. Len(a) + Len(b) /\ DOMAIN a = 1 .. Len(a) /\ DOMAIN b = 1 .. Len(b)
  BY <1>1, <1>2, LenProperties
<1> HIDE DEF t
<1>4. ASSUME NEW i \in DOMAIN t, NEW j \in DOMAIN t, t[i].name = t[j].name PROVE i = j
  <2>1. i \in Int /\ j \in Int
    BY <1>3
  <2>2. \A k \in DOMAIN t :
          \/ k \in DOMAIN a /\ t[k] = a[k]
          \/ k - Len(a) \in DOMAIN b /\ t[k] = b[k - Len(a)]
    BY <1>2, <1>3
  <2>3. /\ \A k \in DOMAIN a : a[k].name \in Names(a)
        /\ \A k \in DOMAIN b : b[k].name \in Names(b)
    BY DEF Names
  <2>4. CASE i \in DOMAIN a /\ t[i] = a[i]
    <3>1. j \in DOMAIN a /\ t[j] = a[j]
      BY <1>4, <2>2, <2>3, <2>4
    <3> QED BY <1>4, <2>4, <3>1 DEF Dict
  <2>5. CASE i - Len(a) \in DOMAIN b /\ t[i] = b[i - Len(a)]
    <3>1. j - Len(a) \in DOMAIN b /\ t[j] = b[j - Len(a)]
      BY <1>4, <2>2, <2>3, <2>5
    <3>2. i - Len(a) = j - Len(a)
      BY <1>4, <2>5, <3>1 DEF Dict
    <3> QED BY <1>2, <2>1, <3>2
  <2> QED BY <2>2, <2>4, <2>5
<1>5. t \in Seq(ToSet(t))
  BY <1>2, ListIsSeq
<1> QED BY <1>4, <1>5 DEF Dict, t

LEMMA LookupFinds ==
  ASSUME NEW nodes, NEW n \in Names(nodes)
  PROVE  Lookup(nodes, n) \in ToSet(nodes) /\ Lookup(nodes, n).name = n
<1>1. \E x \in ToSet(nodes) : x.name = n
  BY DEF Names, ToSet
<1> QED BY <1>1 DEF Lookup

-------------------------------------------------------------------------------
(* topological_order: nodes come once and after what they need, whatever they  *)
(* need.                                                                   *)
States(M) == [queue : Seq(M), order : Seq(M)]

Round(names, needs, M) ==
  [p \in States(M) \X (1 .. Len(names)) |->
     IF p[1].queue = <<>> THEN p[1] ELSE Popped(names, needs, p[1])]

First0(names, needs) == [queue |-> Among(names, Free(needs, <<>>)), order |-> <<>>]

LEMMA PoppedStates ==
  ASSUME NEW M, NEW names \in Seq(M), NEW needs, NEW s \in States(M), s.queue # <<>>
  PROVE  Popped(names, needs, s) \in States(M)
<1>1. Head(s.queue) \in M /\ Tail(s.queue) \in Seq(M)
  BY HeadTailProperties DEF States
<1> DEFINE done == Append(s.order, Head(s.queue))
           freed == Among(names, Free(needs, done) \ Free(needs, s.order))
<1>2. done \in Seq(M)
  BY <1>1, AppendProperties DEF States
<1>3. freed \in Seq(M)
  BY AmongLists
<1>4. Tail(s.queue) \o freed \in Seq(M)
  BY <1>1, <1>3, ConcatProperties
<1> QED BY <1>2, <1>4 DEF Popped, States

LEMMA IterationsUnfold ==
  ASSUME NEW M, NEW names \in Seq(M), NEW needs
  PROVE  Recursive(Iterations(names, needs), Len(names), States(M), First0(names, needs),
                   Round(names, needs, M))
<1> DEFINE n == Len(names)
           X == States(M)
           x0 == First0(names, needs)
           step == Round(names, needs, M)
<1>1. n \in Nat
  BY LenProperties
<1>2. \A s \in X, i \in 1 .. n :
        step[<<s, i>>] = IF s.queue = <<>> THEN s ELSE Popped(names, needs, s)
  BY DEF Round
<1>3. step \in [X \X (1 .. n) -> X]
  <2>1. ASSUME NEW s \in X, NEW i \in 1 .. n PROVE step[<<s, i>>] \in X
    BY <1>2, PoppedStates
  <2>2. step = [p \in X \X (1 .. n) |-> step[p]]
    BY DEF Round
  <2> HIDE DEF step
  <2>3. \A p \in X \X (1 .. n) : step[p] \in X
    BY <2>1
  <2> QED BY <2>2, <2>3
<1>4. x0 \in X
  BY AmongLists, EmptySeq DEF States, First0
<1> HIDE DEF step, X, x0
<1>5. PICK A : Recursive(A, n, X, x0, step)
  BY <1>1, <1>3, <1>4, Recursion
<1> DEFINE e(S, k) ==
             IF k = 0 THEN [queue |-> Among(names, Free(needs, <<>>)), order |-> <<>>]
             ELSE IF S[k - 1].queue = <<>> THEN S[k - 1] ELSE Popped(names, needs, S[k - 1])
<1>6. A = [k \in 0 .. n |-> e(A, k)]
  <2>1. A = [i \in 0 .. n |-> A[i]] /\ A[0] = x0 /\ \A i \in 0 .. n : A[i] \in X
    BY <1>5 DEF Recursive
  <2>2. ASSUME NEW i \in 1 .. n PROVE A[i] = e(A, i)
    <3>1. i - 1 \in 0 .. n /\ A[i] = step[<<A[i - 1], i>>] /\ i # 0
      BY <1>1, <1>5 DEF Recursive
    <3> QED BY <1>2, <2>1, <3>1
  <2>3. A[0] = e(A, 0)
    BY <2>1 DEF x0, First0
  <2>4. \A i \in 0 .. n : i = 0 \/ i \in 1 .. n
    BY <1>1
  <2> HIDE DEF e
  <2>5. \A i \in 0 .. n : A[i] = e(A, i)
    BY <2>2, <2>3, <2>4
  <2> QED BY <2>1, <2>5
<1> DEFINE B == CHOOSE S : S = [k \in 0 .. n |-> e(S, k)]
<1>7. B = [k \in 0 .. n |-> e(B, k)]
  BY <1>6
<1>8. Iterations(names, needs) = B
  BY DEF Iterations
<1> HIDE DEF B
<1>9. Recursive(B, n, X, x0, step)
  <2>1. B = [i \in 0 .. n |-> B[i]] /\ B[0] = x0
    BY <1>1, <1>7 DEF x0, First0
  <2>2. \A i \in 1 .. n : B[i - 1] \in X => B[i] = step[<<B[i - 1], i>>]
    <3>1. SUFFICES ASSUME NEW i \in 1 .. n, B[i - 1] \in X
                   PROVE  B[i] = step[<<B[i - 1], i>>]
      OBVIOUS
    <3>2. i \in 0 .. n /\ i # 0
      BY <1>1
    <3>3. B[i] = e(B, i)
      <4> HIDE DEF e
      <4> QED BY <1>7, <3>2
    <3> QED BY <1>2, <3>1, <3>2, <3>3
  <2> QED BY <1>1, <1>3, <1>4, <2>1, <2>2, RecursionStays
<1> QED BY <1>8, <1>9 DEF step, X, x0

(* What an iteration keeps: order and queue list nodes once, and what a node    *)
(* in either of them needs is in the order, before it.                       *)
Before(seq, i) == {seq[j] : j \in 1 .. i - 1}

Ordered(needs, s) ==
  /\ IsInjective(s.order) /\ IsInjective(s.queue)
  /\ ToSet(s.order) \cap ToSet(s.queue) = {}
  /\ \A m \in ToSet(s.queue) : m \in Free(needs, s.order)
  /\ \A i \in DOMAIN s.order :
       s.order[i] \in DOMAIN needs /\ needs[s.order[i]] \subseteq Before(s.order, i)

LEMMA StartsOrdered ==
  ASSUME NEW M, NEW names \in Seq(M), IsInjective(names), NEW needs
  PROVE  Ordered(needs, First0(names, needs))
<1> DEFINE q == Among(names, Free(needs, <<>>))
<1>1. ToSet(q) \subseteq Free(needs, <<>>) /\ IsInjective(q)
  BY AmongLists
<1> HIDE DEF q
<1>2. IsInjective(<<>>) /\ ToSet(<<>>) = {}
  BY DEF IsInjective, ToSet
<1> QED BY <1>1, <1>2 DEF Ordered, First0, q

LEMMA PoppedOrdered ==
  ASSUME NEW M, NEW names \in Seq(M), IsInjective(names), NEW needs,
         NEW s \in States(M), s.queue # <<>>, Ordered(needs, s)
  PROVE  Ordered(needs, Popped(names, needs, s))
<1> DEFINE h == Head(s.queue)
           done == Append(s.order, h)
           freed == Among(names, Free(needs, done) \ Free(needs, s.order))
           q == Tail(s.queue) \o freed
<1>1. Popped(names, needs, s) = [queue |-> q, order |-> done]
  BY DEF Popped
<1>2. s.queue \in Seq(M) /\ s.order \in Seq(M) /\ h \in M /\ Tail(s.queue) \in Seq(M)
  BY HeadTailProperties DEF States
<1>3. /\ h \in ToSet(s.queue) /\ ToSet(Tail(s.queue)) = ToSet(s.queue) \ {h}
      /\ IsInjective(Tail(s.queue))
  BY <1>2, TailMembers DEF Ordered
<1>4. /\ ToSet(done) = ToSet(s.order) \cup {h} /\ IsInjective(done)
      /\ Len(done) = Len(s.order) + 1 /\ Len(s.order) \in Nat /\ done \in Seq(M)
      /\ \A i \in 1 .. Len(s.order) : done[i] = s.order[i]
      /\ done[Len(s.order) + 1] = h
  BY <1>2, <1>3, AppendMembers, AppendProperties, LenProperties DEF Ordered
<1>5. /\ freed \in Seq(M) /\ IsInjective(freed)
      /\ \A m \in ToSet(freed) : m \in Free(needs, done) /\ m \notin Free(needs, s.order)
  BY AmongLists
<1>6. DOMAIN s.order = 1 .. Len(s.order) /\ DOMAIN done = 1 .. Len(s.order) + 1
  BY <1>2, <1>4, LenProperties
<1> HIDE DEF h, done, freed
<1>7. Free(needs, s.order) \subseteq Free(needs, done)
  BY <1>4 DEF Free
<1>8. \A i \in DOMAIN s.order : Before(s.order, i) \subseteq ToSet(s.order)
  <2>1. \A i \in DOMAIN s.order : \A j \in 1 .. i - 1 : j \in DOMAIN s.order
    BY <1>4, <1>6
  <2> QED BY <2>1 DEF Before, ToSet
<1>9. ToSet(s.order) \subseteq Free(needs, s.order)
  <2>1. \A i \in DOMAIN s.order : s.order[i] \in Free(needs, s.order)
    BY <1>8 DEF Ordered, Free
  <2> QED BY <2>1 DEF ToSet
<1>10. ToSet(q) = ToSet(Tail(s.queue)) \cup ToSet(freed) /\ IsInjective(q)
  <2>1. ToSet(Tail(s.queue)) \cap ToSet(freed) = {}
    BY <1>3, <1>5 DEF Ordered
  <2> DEFINE tail == Tail(s.queue)
  <2>2. tail \in Seq(M) /\ IsInjective(tail) /\ ToSet(tail) \cap ToSet(freed) = {}
    BY <1>2, <1>3, <2>1
  <2> HIDE DEF tail
  <2>3. ToSet(tail \o freed) = ToSet(tail) \cup ToSet(freed) /\ IsInjective(tail \o freed)
    BY <1>5, <2>2, ConcatMembers
  <2> QED BY <2>3 DEF tail
<1> HIDE DEF q
<1>11. ToSet(done) \cap ToSet(q) = {}
  BY <1>3, <1>4, <1>5, <1>9, <1>10 DEF Ordered
<1>12. \A m \in ToSet(q) : m \in Free(needs, done)
  BY <1>3, <1>5, <1>7, <1>10 DEF Ordered
<1>13. ASSUME NEW i \in DOMAIN done
       PROVE  done[i] \in DOMAIN needs /\ needs[done[i]] \subseteq Before(done, i)
  <2>1. CASE i \in DOMAIN s.order
    <3>1. \A j \in 1 .. i - 1 : done[j] = s.order[j]
      BY <1>4, <1>6, <2>1
    <3>2. Before(done, i) = Before(s.order, i) /\ done[i] = s.order[i]
      BY <1>4, <1>6, <2>1, <3>1 DEF Before
    <3> QED BY <2>1, <3>2 DEF Ordered
  <2>2. CASE i = Len(s.order) + 1
    <3>1. \A j \in DOMAIN s.order : j \in 1 .. i - 1 /\ done[j] = s.order[j]
      BY <1>4, <1>6, <2>2
    <3>2. ToSet(s.order) \subseteq Before(done, i)
      BY <3>1 DEF Before, ToSet
    <3> QED BY <1>3, <1>4, <2>2, <3>2 DEF Ordered, Free
  <2> QED BY <1>4, <1>6, <2>1, <2>2
<1> QED BY <1>1, <1>4, <1>10, <1>11, <1>12, <1>13 DEF Ordered

LEMMA IterationsOrdered ==
  ASSUME NEW M, NEW names \in Seq(M), IsInjective(names), NEW needs,
         NEW k \in 0 .. Len(names)
  PROVE  /\ Iterations(names, needs)[k] \in States(M)
         /\ Ordered(needs, Iterations(names, needs)[k])
<1> DEFINE n == Len(names)
           S == Iterations(names, needs)
           Good == {i \in 0 .. n : Ordered(needs, S[i])}
<1>1. n \in Nat
  BY LenProperties
<1>2. /\ S[0] = First0(names, needs)
      /\ \A i \in 0 .. n : S[i] \in States(M)
      /\ \A i \in 1 .. n : S[i] = Round(names, needs, M)[<<S[i - 1], i>>]
  BY IterationsUnfold DEF Recursive
<1>3. \A s \in States(M), i \in 1 .. n :
        Round(names, needs, M)[<<s, i>>] = IF s.queue = <<>> THEN s ELSE Popped(names, needs, s)
  BY DEF Round
<1> HIDE DEF S
<1>4. 0 \in Good
  BY <1>1, <1>2, StartsOrdered
<1>5. ASSUME NEW i \in 1 .. n, i - 1 \in Good PROVE i \in Good
  <2>1. i - 1 \in 0 .. n /\ i \in 0 .. n /\ Ordered(needs, S[i - 1]) /\ S[i - 1] \in States(M)
    BY <1>1, <1>2, <1>5
  <2>2. S[i] = IF S[i - 1].queue = <<>> THEN S[i - 1] ELSE Popped(names, needs, S[i - 1])
    BY <1>2, <1>3, <2>1
  <2>3. Ordered(needs, S[i])
    BY <2>1, <2>2, PoppedOrdered
  <2> QED BY <2>1, <2>3
<1>6. k \in Good
  <2> HIDE DEF Good
  <2>1. \A i \in 0 .. n : i \in Good
    BY <1>1, <1>4, <1>5, UpTo
  <2> QED BY <2>1
<1> QED BY <1>2, <1>6 DEF S

(* The order of a graph: of its nodes, each once and after its producers.       *)
LEMMA TopoOrders ==
  ASSUME NEW g, Dict(g.nodes)
  PROVE  /\ TopoOrder(g) \in Seq(NodeNames(g)) /\ IsInjective(TopoOrder(g))
         /\ \A i \in DOMAIN TopoOrder(g) : Needs(g)[TopoOrder(g)[i]] \subseteq Before(TopoOrder(g), i)
<1> DEFINE names == NamesInOrder(g)
<1>1. /\ names = [i \in 1 .. Len(g.nodes) |-> names[i]] /\ Len(g.nodes) \in Nat
      /\ \A i \in 1 .. Len(g.nodes) : names[i] \in NodeNames(g)
  BY DictMembers DEF NamesInOrder, NodeNames, Names
<1>2. IsInjective(names)
  BY DEF NamesInOrder, IsInjective, Dict
<1> HIDE DEF names
<1>3. names \in Seq(NodeNames(g))
  BY <1>1, IsASeq
<1>4. Len(names) = Len(g.nodes)
  BY <1>1, <1>3, LenProperties
<1>5. Len(g.nodes) \in 0 .. Len(names)
  BY <1>1, <1>4
<1> QED BY <1>2, <1>3, <1>5, IterationsOrdered DEF TopoOrder, names, States, Ordered

-------------------------------------------------------------------------------
(* What every rewrite keeps: the nodes have an order and distinct names, and    *)
(* the maps are absent or those of the nodes as they are, whatever has been    *)
(* done to tensors, operators and attributes.                               *)
Whole(g) == DOMAIN g = GraphFields /\ Dict(g.nodes)
Fresh(g) == g.cache \in {<<>>, <<Links(g.nodes)>>}
Sound(g) == Whole(g) /\ Fresh(g)

CacheInv ==
  /\ Whole(source) /\ source.cache = <<>>
  /\ Sound(graph)
  /\ pass \in DOMAIN Kind \cup {"none"}

-------------------------------------------------------------------------------
(* Building the maps and dropping them. *)
LEMMA TouchSound ==
  ASSUME NEW g, Sound(g)
  PROVE  Sound(Touch(g)) /\ Touch(g).nodes = g.nodes /\ Touch(g).cache = <<Links(g.nodes)>>
BY DEF Sound, Whole, Fresh, Touch, GraphFields

LEMMA InvalidateSound ==
  ASSUME NEW g, Whole(g)
  PROVE  Sound(Invalidate(g)) /\ Invalidate(g).nodes = g.nodes /\ Invalidate(g).cache = <<>>
<1>1. DOMAIN Invalidate(g) = GraphFields /\ Invalidate(g).nodes = g.nodes
      /\ Invalidate(g).cache = <<>>
  BY DEF Whole, Invalidate, GraphFields
<1> QED BY <1>1 DEF Sound, Whole, Fresh

(* Nodes and tensors may be exchanged for others. *)
LEMMA NodesWhole ==
  ASSUME NEW g, NEW nodes, DOMAIN g = GraphFields, Dict(nodes)
  PROVE  Whole([g EXCEPT !.nodes = nodes]) /\ [g EXCEPT !.nodes = nodes].nodes = nodes
<1>1. DOMAIN [g EXCEPT !.nodes = nodes] = GraphFields /\ [g EXCEPT !.nodes = nodes].nodes = nodes
  BY DEF GraphFields
<1> QED BY <1>1 DEF Whole

LEMMA TensorsWhole ==
  ASSUME NEW g, NEW tensors, Whole(g)
  PROVE  Whole([g EXCEPT !.tensors = tensors]) /\ [g EXCEPT !.tensors = tensors].nodes = g.nodes
<1>1. /\ DOMAIN [g EXCEPT !.tensors = tensors] = GraphFields
      /\ [g EXCEPT !.tensors = tensors].nodes = g.nodes
  BY DEF GraphFields, Whole
<1> QED BY <1>1 DEF Whole

(* The mutations of IrGraph. *)
LEMMA WithoutWhole ==
  ASSUME NEW g, NEW names, Whole(g)
  PROVE  Whole(Without(g, names))
<1>1. Dict(Among(g.nodes, {x \in ToSet(g.nodes) : x.name \notin names}))
  BY DictAmong DEF Whole
<1> QED BY <1>1, NodesWhole DEF Without, Whole

LEMMA RewireWhole ==
  ASSUME NEW g, NEW from, NEW to, NEW affected, Whole(g)
  PROVE  Whole(Rewire(g, from, to, affected))
<1> DEFINE nodes == [i \in DOMAIN g.nodes |->
                      IF g.nodes[i].name \in affected
                      THEN Reading(g.nodes[i], Redirected(g.nodes[i].ins, from, to)) ELSE g.nodes[i]]
           h == Rewire(g, from, to, affected)
<1>1. nodes = [i \in DOMAIN g.nodes |-> nodes[i]]
  OBVIOUS
<1>2. \A i \in DOMAIN g.nodes : nodes[i].name = g.nodes[i].name /\ IsNode(nodes[i])
  BY DEF Reading, Whole, Dict, NodeFields, IsNode
<1>3. DOMAIN h = GraphFields /\ h.nodes = nodes
  BY DEF Rewire, Whole, GraphFields
<1> HIDE DEF nodes
<1>4. Dict(nodes)
  BY <1>1, <1>2, DictSame DEF Whole
<1> QED BY <1>3, <1>4 DEF Whole

LEMMA InsertSound ==
  ASSUME NEW g, NEW node, NEW tensors, Whole(g), IsNode(node)
  PROVE  /\ Sound(insert_node(g, node, tensors))
         /\ insert_node(g, node, tensors).cache = <<>>
<1> DEFINE nodes == IF node.name \in NodeNames(g)
                    THEN [i \in DOMAIN g.nodes |->
                            IF g.nodes[i].name = node.name THEN node ELSE g.nodes[i]]
                    ELSE Append(g.nodes, node)
           h == [g EXCEPT
    !.nodes = IF node.name \in NodeNames(g)
              THEN [i \in DOMAIN @ |-> IF @[i].name = node.name THEN node ELSE @[i]]
              ELSE Append(@, node),
    !.tensors = [t \in DOMAIN tensors \cup DOMAIN @ |->
                   IF t \in DOMAIN tensors THEN tensors[t] ELSE @[t]]]
<1>1. DOMAIN h = GraphFields /\ h.nodes = nodes
  BY DEF GraphFields, Whole
<1>2. Dict(nodes)
  <2>1. CASE node.name \in NodeNames(g)
    <3>1. /\ nodes = [i \in DOMAIN g.nodes |-> nodes[i]]
          /\ \A i \in DOMAIN g.nodes :
               nodes[i].name = g.nodes[i].name /\ IsNode(nodes[i])
      BY <2>1 DEF Whole, Dict
    <3> HIDE DEF nodes
    <3> QED BY <3>1, DictSame DEF Whole
  <2>2. CASE node.name \notin NodeNames(g)
    BY <2>2, DictAppend DEF Whole, NodeNames
  <2> QED BY <2>1, <2>2
<1>3. insert_node(g, node, tensors) = Invalidate(h)
  BY DEF insert_node
<1> HIDE DEF h, nodes
<1> QED BY <1>1, <1>2, <1>3, InvalidateSound DEF Whole

LEMMA OrphansSound ==
  ASSUME NEW g, Whole(g), g.cache = <<>>
  PROVE  Sound(DropOrphans(g))
<1> DEFINE h == DropOrphans(g)
<1>1. DOMAIN h = GraphFields /\ h.nodes = g.nodes /\ h.cache = <<>>
  BY DEF DropOrphans, Whole, GraphFields
<1> HIDE DEF h
<1> QED BY <1>1 DEF Sound, Whole, Fresh, h

LEMMA ReplaceSound ==
  ASSUME NEW g, NEW names, NEW node, NEW tensors, Whole(g), IsNode(node)
  PROVE  Sound(replace_subgraph(g, names, node, tensors))
<1> DEFINE old == {x \in ToSet(g.nodes) : x.name \in names}
           rewired == Rewire(g, ExternalOutputs(old), node.out, NodeNames(g) \ names)
           h == Without(rewired, names)
<1>1. Whole(h)
  BY RewireWhole, WithoutWhole
<1>2. replace_subgraph(g, names, node, tensors) = DropOrphans(insert_node(h, node, tensors))
  BY DEF replace_subgraph
<1> HIDE DEF h
<1>3. Whole(insert_node(h, node, tensors)) /\ insert_node(h, node, tensors).cache = <<>>
  BY <1>1, InsertSound DEF Sound
<1> QED BY <1>2, <1>3, OrphansSound

LEMMA FuseSound ==
  ASSUME NEW g, NEW old, NEW name, NEW op, NEW ins, NEW attrs, Whole(g),
         DOMAIN attrs = AttrFields
  PROVE  Sound(Fuse(g, old, name, op, ins, attrs))
<1>1. IsNode([NewNode(name, op, ins, OutputOf(name)) EXCEPT !.attrs = attrs])
  BY DEF NewNode, NodeFields, IsNode
<1> QED BY <1>1, ReplaceSound DEF Fuse

-------------------------------------------------------------------------------
(* Operator fusion: the layers it makes are named by their number, and a node   *)
(* whose name is taken is not carried over.                                  *)
Multiplies(g, order) == {n \in ToSet(order) : NodeOf(g, n).op = "MatMul"}
Layers(g, order) ==
  {FusedLinearOf(g, NodeOf(g, n), k).node : n \in Multiplies(g, order), k \in Nat}
Taken(g, order) ==
  UNION {FusedLinearOf(g, NodeOf(g, n), k).used : n \in ToSet(order), k \in Nat}
Fusions(g, order) == [nodes : Seq(Layers(g, order)), used : SUBSET Taken(g, order)]

Sweeps(g, order) ==
  [p \in Fusions(g, order) \X (1 .. Len(order)) |-> Consumed(g, p[1], order[p[2]])]

LEMMA FusedUpToUnfolds ==
  ASSUME NEW g, NEW order, order \in Seq(ToSet(order))
  PROVE  Recursive(FusedUpTo(g, order), Len(order), Fusions(g, order),
                   [nodes |-> <<>>, used |-> {}], Sweeps(g, order))
<1> DEFINE n == Len(order)
           X == Fusions(g, order)
           x0 == [nodes |-> <<>>, used |-> {}]
           step == Sweeps(g, order)
<1>1. n \in Nat /\ \A i \in 1 .. n : order[i] \in ToSet(order)
  BY LenProperties, ElementOfSeq
<1>2. \A s \in X, i \in 1 .. n : step[<<s, i>>] = Consumed(g, s, order[i])
  BY DEF Sweeps
<1>3. step \in [X \X (1 .. n) -> X]
  <2>1. ASSUME NEW s \in X, NEW i \in 1 .. n PROVE step[<<s, i>>] \in X
    <3> DEFINE f == FusedLinearOf(g, NodeOf(g, order[i]), Len(s.nodes))
    <3>1. s.nodes \in Seq(Layers(g, order)) /\ Len(s.nodes) \in Nat
          /\ s.used \subseteq Taken(g, order)
      BY LenProperties DEF Fusions
    <3>2. CASE NodeOf(g, order[i]).op # "MatMul"
      <4>1. Consumed(g, s, order[i]) = s
        BY <3>2 DEF Consumed
      <4> QED BY <1>2, <4>1
    <3>3. CASE NodeOf(g, order[i]).op = "MatMul"
      <4>1. f.node \in Layers(g, order) /\ f.used \subseteq Taken(g, order)
        BY <1>1, <3>1, <3>3 DEF Layers, Multiplies, Taken
      <4>2. Append(s.nodes, f.node) \in Seq(Layers(g, order))
        BY <3>1, <4>1, AppendProperties
      <4>3. [nodes |-> Append(s.nodes, f.node), used |-> s.used \cup f.used] \in X
        BY <3>1, <4>1, <4>2 DEF Fusions
      <4>4. Consumed(g, s, order[i])
              \in {s, [nodes |-> Append(s.nodes, f.node), used |-> s.used \cup f.used]}
        BY DEF Consumed
      <4> QED BY <1>2, <4>3, <4>4
    <3> QED BY <3>2, <3>3
  <2>2. step = [p \in X \X (1 .. n) |-> step[p]]
    BY DEF Sweeps
  <2> HIDE DEF step
  <2>3. \A p \in X \X (1 .. n) : step[p] \in X
    BY <2>1
  <2> QED BY <2>2, <2>3
<1>4. x0 \in X
  BY EmptySeq DEF Fusions
<1> HIDE DEF step, X, x0
<1>5. PICK A : Recursive(A, n, X, x0, step)
  BY <1>1, <1>3, <1>4, Recursion
<1> DEFINE e(S, k) == IF k = 0 THEN [nodes |-> <<>>, used |-> {}]
                      ELSE Consumed(g, S[k - 1], order[k])
<1>6. A = [k \in 0 .. n |-> e(A, k)]
  <2>1. A = [i \in 0 .. n |-> A[i]] /\ A[0] = x0 /\ \A i \in 0 .. n : A[i] \in X
    BY <1>5 DEF Recursive
  <2>2. ASSUME NEW i \in 1 .. n PROVE A[i] = e(A, i)
    <3>1. i - 1 \in 0 .. n /\ A[i] = step[<<A[i - 1], i>>] /\ i # 0
      BY <1>1, <1>5 DEF Recursive
    <3> QED BY <1>2, <2>1, <3>1
  <2>3. A[0] = e(A, 0)
    BY <2>1 DEF x0
  <2>4. \A i \in 0 .. n : i = 0 \/ i \in 1 .. n
    BY <1>1
  <2> HIDE DEF e
  <2>5. \A i \in 0 .. n : A[i] = e(A, i)
    BY <2>2, <2>3, <2>4
  <2> QED BY <2>1, <2>5
<1> DEFINE B == CHOOSE S : S = [k \in 0 .. n |-> e(S, k)]
<1>7. B = [k \in 0 .. n |-> e(B, k)]
  BY <1>6
<1>8. FusedUpTo(g, order) = B
  BY DEF FusedUpTo
<1> HIDE DEF B
<1>9. Recursive(B, n, X, x0, step)
  <2>1. B = [i \in 0 .. n |-> B[i]] /\ B[0] = x0
    BY <1>1, <1>7 DEF x0
  <2>2. \A i \in 1 .. n : B[i - 1] \in X => B[i] = step[<<B[i - 1], i>>]
    <3>1. SUFFICES ASSUME NEW i \in 1 .. n, B[i - 1] \in X
                   PROVE  B[i] = step[<<B[i - 1], i>>]
      OBVIOUS
    <3>2. i \in 0 .. n /\ i # 0
      BY <1>1
    <3>3. B[i] = e(B, i)
      <4> HIDE DEF e
      <4> QED BY <1>7, <3>2
    <3> QED BY <1>2, <3>1, <3>2, <3>3
  <2> QED BY <1>1, <1>3, <1>4, <2>1, <2>2, RecursionStays
<1> QED BY <1>8, <1>9 DEF step, X, x0

LEMMA FusedLayers ==
  ASSUME NEW g, NEW order, order \in Seq(ToSet(order)), NEW k \in 0 .. Len(order)
  PROVE  Dict(FusedUpTo(g, order)[k].nodes)
<1> DEFINE n == Len(order)
           S == FusedUpTo(g, order)
           Numbered(nodes) == \A i \in DOMAIN nodes : nodes[i].name = <<"fused", i - 1>>
           Good == {i \in 0 .. n : Numbered(S[i].nodes)}
<1>1. n \in Nat
  BY LenProperties
<1>2. /\ S[0] = [nodes |-> <<>>, used |-> {}]
      /\ \A i \in 0 .. n : S[i] \in Fusions(g, order)
      /\ \A i \in 1 .. n : S[i] = Sweeps(g, order)[<<S[i - 1], i>>]
  BY FusedUpToUnfolds DEF Recursive
<1>3. \A s \in Fusions(g, order), i \in 1 .. n :
        Sweeps(g, order)[<<s, i>>] = Consumed(g, s, order[i])
  BY DEF Sweeps
<1> HIDE DEF S
<1>4. 0 \in Good
  BY <1>1, <1>2
<1>5. ASSUME NEW i \in 1 .. n, i - 1 \in Good PROVE i \in Good
  <2> DEFINE s == S[i - 1]
             f == FusedLinearOf(g, NodeOf(g, order[i]), Len(s.nodes))
             t == Append(s.nodes, f.node)
  <2>1. i - 1 \in 0 .. n /\ i \in 0 .. n /\ Numbered(s.nodes) /\ s \in Fusions(g, order)
    BY <1>1, <1>2, <1>5
  <2>2. S[i] = Consumed(g, s, order[i])
    BY <1>2, <1>3, <2>1
  <2>3. f.node.name = <<"fused", Len(s.nodes)>>
    BY DEF FusedLinearOf, NewNode
  <2>4. S[i] = s \/ S[i].nodes = t
    BY <2>2 DEF Consumed
  <2>5. /\ s.nodes \in Seq(Layers(g, order) \cup {f.node}) /\ Len(s.nodes) \in Nat
        /\ DOMAIN s.nodes = 1 .. Len(s.nodes)
    <3>1. s.nodes \in Seq(Layers(g, order))
      BY <2>1 DEF Fusions
    <3>2. Seq(Layers(g, order)) \subseteq Seq(Layers(g, order) \cup {f.node})
      BY SeqMonotonic
    <3> QED BY <3>1, <3>2, LenProperties
  <2> HIDE DEF s, f
  <2>6. /\ t \in Seq(Layers(g, order) \cup {f.node}) /\ Len(t) = Len(s.nodes) + 1
        /\ \A j \in 1 .. Len(s.nodes) : t[j] = s.nodes[j]
        /\ t[Len(s.nodes) + 1] = f.node
    BY <2>5, AppendProperties
  <2>7. DOMAIN t = 1 .. Len(s.nodes) + 1
    BY <2>6, LenProperties
  <2> HIDE DEF t
  <2>8. Numbered(t)
    <3>1. SUFFICES ASSUME NEW j \in DOMAIN t PROVE t[j].name = <<"fused", j - 1>>
      OBVIOUS
    <3>2. j \in DOMAIN s.nodes \/ j = Len(s.nodes) + 1
      BY <2>5, <2>7
    <3>3. CASE j \in DOMAIN s.nodes
      BY <2>1, <2>5, <2>6, <3>3
    <3>4. CASE j = Len(s.nodes) + 1
      <4>1. j - 1 = Len(s.nodes)
        BY <2>5, <3>4
      <4> QED BY <2>3, <2>6, <3>4, <4>1
    <3> QED BY <3>2, <3>3, <3>4
  <2> QED BY <2>1, <2>4, <2>8
<1>6. Numbered(S[k].nodes) /\ S[k].nodes \in Seq(Layers(g, order))
  <2> HIDE DEF Good
  <2>1. \A i \in 0 .. n : i \in Good
    BY <1>1, <1>4, <1>5, UpTo
  <2>2. k \in Good
    BY <2>1
  <2> QED BY <1>2, <2>2 DEF Good, Fusions
<1> DEFINE nodes == S[k].nodes
<1> HIDE DEF nodes
<1>7. nodes \in Seq(ToSet(nodes)) /\ DOMAIN nodes \subseteq Nat
  BY <1>6, ListIsSeq, LenProperties DEF nodes
<1>8. \A i, j \in DOMAIN nodes : nodes[i].name = nodes[j].name => i = j
  <2>1. SUFFICES ASSUME NEW i \in DOMAIN nodes, NEW j \in DOMAIN nodes,
                        nodes[i].name = nodes[j].name
                 PROVE  i = j
    OBVIOUS
  <2>2. <<"fused", i - 1>> = <<"fused", j - 1>>
    BY <1>6, <2>1 DEF nodes
  <2>3. i - 1 = j - 1 /\ i \in Int /\ j \in Int
    BY <1>7, <2>2
  <2> QED BY <2>3
<1>9. \A i \in DOMAIN nodes : IsNode(nodes[i])
  <2>1. nodes \in Seq(Layers(g, order))
    BY <1>6 DEF nodes
  <2>2. DOMAIN nodes = 1 .. Len(nodes)
    BY <2>1, LenProperties
  <2>3. ASSUME NEW m, NEW i
        PROVE  IsNode(FusedLinearOf(g, NodeOf(g, m), i).node)
    BY DEF FusedLinearOf, NewNode, NodeFields, IsNode, Blank, AttrFields
  <2>4. \A x \in Layers(g, order) : IsNode(x)
    BY <2>3 DEF Layers
  <2>5. \A i \in DOMAIN nodes : nodes[i] \in Layers(g, order)
    BY <2>1, <2>2, ElementOfSeq
  <2> QED BY <2>4, <2>5
<1> QED BY <1>7, <1>8, <1>9 DEF Dict, nodes, S

LEMMA FusedNodes ==
  ASSUME NEW g, Dict(g.nodes), NEW fused_nodes, Dict(fused_nodes), NEW used,
         NEW rest, rest = Among(TopoOrder(g), ToSet(TopoOrder(g)) \ (used \cup Names(fused_nodes)))
  PROVE  Dict(fused_nodes \o [i \in DOMAIN rest |-> NodeOf(g, rest[i])])
<1> DEFINE kept == [i \in DOMAIN rest |-> NodeOf(g, rest[i])]
<1>1. /\ rest \in Seq(NodeNames(g)) /\ IsInjective(rest)
      /\ \A i \in DOMAIN rest : rest[i] \in NodeNames(g) /\ rest[i] \notin Names(fused_nodes)
  <2>1. /\ rest \in Seq(NodeNames(g)) /\ IsInjective(rest)
        /\ ToSet(rest) \cap Names(fused_nodes) = {}
    BY TopoOrders, AmongLists
  <2>2. DOMAIN rest = 1 .. Len(rest)
    BY <2>1, LenProperties
  <2>3. \A i \in DOMAIN rest : rest[i] \in NodeNames(g) /\ rest[i] \in ToSet(rest)
    BY <2>1, <2>2, ElementOfSeq DEF ToSet
  <2> QED BY <2>1, <2>3
<1>2. kept = [i \in 1 .. Len(rest) |-> kept[i]] /\ Len(rest) \in Nat
  BY <1>1, LenProperties
<1>3. \A i \in DOMAIN rest : kept[i].name = rest[i] /\ IsNode(kept[i])
  <2>1. \A x \in ToSet(g.nodes) : IsNode(x)
    BY DEF Dict, ToSet
  <2> QED BY <1>1, <2>1, LookupFinds DEF NodeOf, NodeNames
<1>4. DOMAIN kept = DOMAIN rest
  OBVIOUS
<1> HIDE DEF kept
<1>5. kept \in Seq(ToSet(kept))
  BY <1>2, MadeSeq
<1>6. Dict(kept)
  <2>1. \A i, j \in DOMAIN rest : rest[i] = rest[j] => i = j
    BY <1>1 DEF IsInjective
  <2>2. \A i, j \in DOMAIN kept : kept[i].name = kept[j].name => i = j
    BY <1>3, <1>4, <2>1
  <2> QED BY <1>3, <1>4, <1>5, <2>2 DEF Dict
<1>7. Names(fused_nodes) \cap Names(kept) = {}
  BY <1>1, <1>3, <1>4 DEF Names
<1> QED BY <1>6, <1>7, DictConcat DEF kept

(* The rewrites of the graph in one sweep. *)
LEMMA SweepsSound ==
  ASSUME NEW g, NEW n, Sound(g)
  PROVE  /\ Sound(fold_constant(g, n))
         /\ Sound(Invalidate(eliminate_dead_code(g)))
         /\ Sound(fuse_operators(g))
<1>1. Sound(fold_constant(g, n))
  <2> DEFINE node == NodeOf(g, n)
             value == Execute(node.op, [j \in DOMAIN node.ins |-> g.tensors[node.ins[j]].raw])
             h == [g EXCEPT !.tensors[node.out] = [dtype |-> "fp32", raw |-> value]]
  <2>1. DOMAIN h = GraphFields /\ h.nodes = g.nodes
    BY DEF Sound, Whole, GraphFields
  <2>2. fold_constant(g, n) = Invalidate(Without(h, {n}))
    BY DEF fold_constant
  <2> HIDE DEF h
  <2> QED BY <2>1, <2>2, WithoutWhole, InvalidateSound DEF Sound, Whole
<1>2. Whole(eliminate_dead_code(g))
  <2> DEFINE live == Reachable(g)
             kept == ToSet(g.inputs) \cup live.tensors
             h == [g EXCEPT !.tensors = Restrict(@, DOMAIN @ \cap kept)]
  <2>1. Whole(h)
    BY TensorsWhole DEF Sound
  <2>2. eliminate_dead_code(g)
          \in {Touch(g), Invalidate(Without(h, NodeNames(g) \ live.nodes))}
    BY DEF eliminate_dead_code
  <2> HIDE DEF h
  <2> QED BY <2>1, <2>2, TouchSound, WithoutWhole, InvalidateSound DEF Sound
<1>3. Sound(fuse_operators(g))
  <2> DEFINE order == TopoOrder(g)
             s     == FusedUpTo(g, order)[Len(order)]
             rest  == Among(order, ToSet(order) \ (s.used \cup Names(s.nodes)))
             nodes == s.nodes \o [i \in DOMAIN rest |-> NodeOf(g, rest[i])]
  <2>1. order \in Seq(ToSet(order)) /\ Len(order) \in 0 .. Len(order)
    BY TopoOrders, ListIsSeq, LenProperties DEF Sound, Whole
  <2>2. Dict(s.nodes)
    BY <2>1, FusedLayers
  <2>3. Dict(nodes)
    BY <2>2, FusedNodes DEF Sound, Whole
  <2>4. fuse_operators(g) = DropOrphans(Invalidate([g EXCEPT !.nodes = nodes]))
    BY DEF fuse_operators
  <2> HIDE DEF nodes
  <2>5. Whole([g EXCEPT !.nodes = nodes])
    BY <2>3, NodesWhole DEF Sound, Whole
  <2> QED BY <2>4, <2>5, InvalidateSound, OrphansSound DEF Sound
<1> QED BY <1>1, <1>2, <1>3, InvalidateSound

(* BatchNorms are folded into what lies below them. *)
LEMMA BypassSound ==
  ASSUME NEW g, NEW bn, Whole(g)
  PROVE  Sound(Invalidate(Bypass(g, bn)))
<1> DEFINE h == Without(Rewire(g, {bn.out}, bn.ins[1], NodeNames(g)), {bn.name})
<1>1. Whole(h)
  BY RewireWhole, WithoutWhole
<1>2. \A S : Whole([h EXCEPT !.tensors = Restrict(@, DOMAIN @ \ S)])
  BY <1>1, TensorsWhole
<1>3. Whole(Bypass(g, bn))
  <2> HIDE DEF h
  <2>1. \E S : Bypass(g, bn) = [h EXCEPT !.tensors = Restrict(@, DOMAIN @ \ S)]
    BY DEF Bypass, h
  <2> QED BY <1>2, <2>1
<1> QED BY <1>3, InvalidateSound

LEMMA ScaledWhole ==
  ASSUME NEW g, NEW bn, NEW weight, NEW bias, Whole(g)
  PROVE  Whole(ScaledInto(g, bn, weight, bias))
<1>1. ASSUME NEW h, Whole(h), NEW t, NEW v
      PROVE  Whole(WithRaw(h, t, v))
  <2>1. DOMAIN WithRaw(h, t, v) = GraphFields /\ WithRaw(h, t, v).nodes = h.nodes
    BY <1>1 DEF WithRaw, Whole, GraphFields
  <2> QED BY <1>1, <2>1 DEF Whole
<1> QED BY <1>1 DEF ScaledInto

LEMMA ZeroBiasWhole ==
  ASSUME NEW g, NEW conv, Whole(g)
  PROVE  Whole(WithZeroBias(g, conv))
<1> DEFINE bias == Append(conv.name, 0)
           nodes == [i \in DOMAIN g.nodes |->
                      IF g.nodes[i].name = conv.name
                      THEN Reading(g.nodes[i], Append(g.nodes[i].ins, bias)) ELSE g.nodes[i]]
           h == WithZeroBias(g, conv)
<1>1. nodes = [i \in DOMAIN g.nodes |-> nodes[i]]
  OBVIOUS
<1>2. \A i \in DOMAIN g.nodes : nodes[i].name = g.nodes[i].name /\ IsNode(nodes[i])
  BY DEF Reading, Whole, Dict, NodeFields, IsNode
<1>3. h = g \/ (DOMAIN h = GraphFields /\ h.nodes = nodes)
  BY DEF WithZeroBias, Whole, GraphFields
<1> HIDE DEF nodes
<1>4. Dict(nodes)
  BY <1>1, <1>2, DictSame DEF Whole
<1> QED BY <1>3, <1>4 DEF Whole

LEMMA NormsSound ==
  ASSUME NEW g, NEW bn, Sound(g)
  PROVE  Sound(fold_bn(g, bn)) /\ Sound(fold_conv_bn(g, bn))
<1>1. Sound(fold_bn(g, bn))
  <2>1. \A weight, bias : Sound(Invalidate(Bypass(ScaledInto(g, bn, weight, bias), bn)))
    BY ScaledWhole, BypassSound DEF Sound
  <2> QED BY <2>1, TouchSound DEF fold_bn
<1>2. Sound(fold_conv_bn(g, bn))
  <2>1. \A conv, weight, bias :
          Sound(Invalidate(Bypass(ScaledInto(WithZeroBias(g, conv), bn, weight, bias), bn)))
    BY ZeroBiasWhole, ScaledWhole, BypassSound DEF Sound
  <2> QED BY <2>1, TouchSound DEF fold_conv_bn
<1> QED BY <1>1, <1>2

(* The fusions: a match is replaced, anything else leaves the maps built. *)
LEMMA FusionsSound ==
  ASSUME NEW g, NEW node, NEW k, Sound(g)
  PROVE  /\ Sound(fuse_conv(g, node, k))
         /\ Sound(fuse_layer_norm(g, node, k))
         /\ Sound(fuse_silu(g, node, k))
         /\ Sound(fuse_gelu(g, node, k))
         /\ Sound(fuse_mlp(g, node, k))
         /\ Sound(fuse_attention(g, node, k))
<1>1. Sound(Touch(g))
  BY TouchSound
<1>2. \A old, name, op, ins, attrs :
        DOMAIN attrs = AttrFields => Sound(Fuse(g, old, name, op, ins, attrs))
  BY FuseSound DEF Sound
<1>8. DOMAIN Blank = AttrFields
      /\ \A a, n : DOMAIN [Blank EXCEPT !.act = a, !.fc1 = n] = AttrFields
  BY DEF Blank, AttrFields
<1>3. Sound(fuse_conv(g, node, k)) /\ Sound(fuse_layer_norm(g, node, k))
  BY <1>2, <1>8 DEF fuse_conv, fuse_layer_norm
<1>4. Sound(fuse_silu(g, node, k))
  BY <1>1, <1>2, <1>8 DEF fuse_silu
<1>5. Sound(fuse_gelu(g, node, k))
  BY <1>1, <1>2, <1>8 DEF fuse_gelu
<1>6. Sound(fuse_mlp(g, node, k))
  BY <1>1, <1>2, <1>8 DEF fuse_mlp
<1>7. Sound(fuse_attention(g, node, k))
  BY <1>1, <1>2, <1>8 DEF fuse_attention
<1> QED BY <1>3, <1>4, <1>5, <1>6, <1>7

(* Quantization writes tensors and attributes, which the maps do not mention. *)
LEMMA WithAttrsSound ==
  ASSUME NEW g, NEW name, NEW attrs, Sound(g), DOMAIN attrs = AttrFields
  PROVE  Sound(WithAttrs(g, name, attrs))
<1> DEFINE nodes == AnnotatedIn(g.nodes, name, attrs)
<1>1. Links(nodes) = Links(g.nodes)
  BY DEF Links, Annotated, AnnotatedIn
<1>2. DOMAIN WithAttrs(g, name, attrs) = GraphFields
      /\ WithAttrs(g, name, attrs).cache = g.cache
      /\ WithAttrs(g, name, attrs).nodes = nodes
  BY DEF WithAttrs, Sound, Whole, GraphFields
<1>3. /\ nodes = [i \in DOMAIN g.nodes |-> nodes[i]]
      /\ \A i \in DOMAIN g.nodes :
           nodes[i].name = g.nodes[i].name /\ IsNode(nodes[i])
  BY DEF AnnotatedIn, Annotated, Sound, Whole, Dict, NodeFields, IsNode
<1> HIDE DEF nodes
<1>4. Dict(nodes)
  BY <1>3, DictSame DEF Sound, Whole
<1> QED BY <1>1, <1>2, <1>4 DEF Sound, Whole, Fresh

LEMMA InUnitsSound ==
  ASSUME NEW g, NEW t, NEW scale, NEW dtype, Sound(g)
  PROVE  Sound(InUnits(g, t, scale, dtype)) /\ InUnits(g, t, scale, dtype).nodes = g.nodes
<1>1. DOMAIN InUnits(g, t, scale, dtype) = GraphFields
      /\ InUnits(g, t, scale, dtype).cache = g.cache
      /\ InUnits(g, t, scale, dtype).nodes = g.nodes
  BY DEF InUnits, Sound, Whole, GraphFields
<1> QED BY <1>1 DEF Sound, Whole, Fresh

LEMMA QuantizedSound ==
  ASSUME NEW g, NEW node, IsNode(node), NEW r, Sound(g)
  PROVE  /\ Sound(quantize_linear(g, node, r))
         /\ Sound(quantize_conv(g, node, r))
         /\ Sound(quantize_attention(g, node, r))
<1>0. \A ws, xq, yq : DOMAIN [node.attrs EXCEPT !.ws = ws, !.xq = xq, !.yq = yq] = AttrFields
  BY DEF IsNode
<1>1. ASSUME NEW xq, NEW yq PROVE Sound(QuantizedLayer(g, node, xq, yq))
  BY <1>0, InUnitsSound, WithAttrsSound DEF QuantizedLayer
<1>2. Sound(quantize_linear(g, node, r)) /\ Sound(quantize_conv(g, node, r))
  BY <1>1 DEF quantize_linear, quantize_conv
<1>3. Sound(quantize_attention(g, node, r))
  <2>1. ASSUME NEW h, NEW i, NEW xq, Sound(h.g)
        PROVE  Sound(QuantizedProjection(node, xq, h, i).g)
    BY <2>1, InUnitsSound DEF QuantizedProjection
  <2>2. \A xq : Sound(QuantizedProjections(g, node, xq).g)
    BY <2>1 DEF QuantizedProjections
  <2> QED BY <1>0, <2>2, WithAttrsSound DEF quantize_attention
<1> QED BY <1>2, <1>3

(* Every visit of every pass. *)
LEMMA RewriteSound ==
  ASSUME NEW p \in DOMAIN Kind, NEW g, NEW node, IsNode(node), NEW k, NEW r, Sound(g)
  PROVE  Sound(Rewrite(p, g, node, k, r))
<1>1. p \in {"BatchNormFolding", "ConvBatchNormFolding", "ConvFusion", "LayerNormFusion",
             "FuseSiLU", "FuseGELU", "AttentionFusion", "FusedMLP", "ConvQuantization",
             "AttentionQuantization", "Quantization"}
  BY DEF Kind
<1>2. Sound(fold_bn(g, node)) /\ Sound(fold_conv_bn(g, node))
  BY NormsSound
<1> QED BY <1>1, <1>2, FusionsSound, QuantizedSound DEF Rewrite

-------------------------------------------------------------------------------
LEMMA InitCacheInv == Init => CacheInv
<1> SUFFICES ASSUME Init PROVE CacheInv
  OBVIOUS
<1>1. Whole(source) /\ source.cache = <<>> /\ graph = source
  BY PipelineAssumption DEF Init, Whole
<1> QED BY <1>1 DEF Init, CacheInv, Sound, Fresh

LEMMA NextCacheInv == CacheInv /\ [Next]_vars => CacheInv'
<1> SUFFICES ASSUME CacheInv, [Next]_vars PROVE CacheInv'
  OBVIOUS
<1>1. source' = source
  BY DEF Next, vars, BeginPass, Unsupported, Visit, EndPass, FoldConstant, Sweep, Detect,
         Finish, Stopped
<1>2. Sound(graph)' /\ pass' \in DOMAIN Kind \cup {"none"}
  <2>1. CASE BeginPass
    BY <2>1, TouchSound DEF CacheInv, BeginPass
  <2>2. CASE Unsupported
    BY <2>2 DEF CacheInv, Unsupported
  <2>3. CASE Visit
    <3>1. CASE /\ Head(todo) \in NodeNames(graph)
               /\ NodeOf(graph, Head(todo)).op \in Kind[pass]
      <4>1. graph' = Rewrite(pass, graph, NodeOf(graph, Head(todo)), fused, ranges)
        BY <2>3, <3>1 DEF Visit
      <4>2. pass \in DOMAIN Kind /\ Sound(graph) /\ pass' = pass
        BY <2>3 DEF Visit, CacheInv
      <4>3. IsNode(NodeOf(graph, Head(todo)))
        <5>1. NodeOf(graph, Head(todo)) \in ToSet(graph.nodes)
          BY <3>1, LookupFinds DEF NodeOf, NodeNames
        <5> QED BY <4>2, <5>1 DEF Sound, Whole, Dict, ToSet
      <4>4. Sound(Rewrite(pass, graph, NodeOf(graph, Head(todo)), fused, ranges))
        BY <4>2, <4>3, RewriteSound
      <4> QED BY <4>1, <4>2, <4>4
    <3>2. CASE ~(/\ Head(todo) \in NodeNames(graph)
                 /\ NodeOf(graph, Head(todo)).op \in Kind[pass])
      BY <2>3, <3>2 DEF Visit, CacheInv
    <3> QED BY <3>1, <3>2
  <2>4. CASE EndPass
    BY <2>4, InvalidateSound DEF CacheInv, EndPass, Sound
  <2>5. CASE FoldConstant
    BY <2>5, SweepsSound DEF CacheInv, FoldConstant
  <2>6. CASE Sweep
    BY <2>6, SweepsSound, InvalidateSound DEF CacheInv, Sweep, Sound
  <2>7. CASE Detect
    BY <2>7 DEF CacheInv, Detect
  <2>8. CASE Finish
    BY <2>8 DEF CacheInv, Finish
  <2>9. CASE UNCHANGED vars
    BY <2>9 DEF CacheInv, vars
  <2> QED BY <2>1, <2>2, <2>3, <2>4, <2>5, <2>6, <2>7, <2>8, <2>9 DEF Next, Stopped
<1> QED BY <1>1, <1>2 DEF CacheInv

LEMMA CacheInvariance == Spec => []CacheInv
  BY InitCacheInv, NextCacheInv, PTL DEF Spec

(* Maps that are fresh are those that would be built from the graph as it is.  *)
LEMMA FreshMaps ==
  ASSUME NEW g, Sound(g)
  PROVE  Adjacency(g) = Links(g.nodes) /\ Adjacency(Invalidate(g)) = Links(g.nodes)
<1>1. <<Links(g.nodes)>> # <<>> /\ <<Links(g.nodes)>>[1] = Links(g.nodes)
  OBVIOUS
<1>2. Invalidate(g).cache = <<>> /\ Invalidate(g).nodes = g.nodes
  BY InvalidateSound DEF Sound
<1> QED BY <1>1, <1>2 DEF Sound, Fresh, Adjacency

(* No pass looks up a producer or consumer in maps of an earlier graph:        *)
(* whatever is rewritten, renamed, quantized or removed, and in which order,   *)
(* the lookup gives what maps built at that moment would give.               *)
THEOREM CachesAreFresh == Spec => []CachesFresh
<1>1. CacheInv => CachesFresh
  <2> SUFFICES ASSUME CacheInv, NEW t \in DOMAIN graph.tensors
               PROVE  /\ Producer(graph, t) = Producer(Invalidate(graph), t)
                      /\ Consumers(graph, t) = Consumers(Invalidate(graph), t)
    BY DEF CachesFresh
  <2>1. Adjacency(graph) = Adjacency(Invalidate(graph)) /\ Invalidate(graph).nodes = graph.nodes
    BY FreshMaps, InvalidateSound DEF CacheInv, Sound
  <2> QED BY <2>1 DEF Producer, Consumers
<1> QED BY <1>1, CacheInvariance, PTL

-------------------------------------------------------------------------------
(* The blocks of the partitioner. *)

(* The greatest of a bounded set, which the maps prefer. *)
LEMMA Greatest ==
  ASSUME NEW n \in Nat, NEW T \in SUBSET (0 .. n), T # {}
  PROVE  Max(T) \in T
<1> DEFINE D == {n - x : x \in T}
<1>1. D \in SUBSET Nat /\ D # {}
  <2>1. \A x \in T : x \in 0 .. n
    OBVIOUS
  <2>2. \A x \in T : n - x \in Nat
    BY <2>1
  <2> QED BY <2>2
<1>2. IsWellFoundedOn(OpToRel(<, Nat), Nat)
  BY NatLessThanWellFounded
<1>3. PICK d \in D : \A e \in D : <<e, d>> \notin OpToRel(<, Nat)
  BY <1>1, <1>2, WFMin
<1>4. PICK x \in T : d = n - x
  BY <1>3
<1>5. ASSUME NEW y \in T PROVE x >= y
  <2>1. n - y \in D /\ x \in Int /\ y \in Int
    OBVIOUS
  <2>2. ~(n - y < d)
    BY <1>1, <1>3, <2>1 DEF OpToRel
  <2> QED BY <1>4, <2>1, <2>2
<1> QED BY <1>4, <1>5 DEF Max

(* Nodes of a name are one node. *)
LEMMA NodeUnique ==
  ASSUME NEW g, Dict(g.nodes), NEW x \in ToSet(g.nodes)
  PROVE  x.name \in NodeNames(g) /\ NodeOf(g, x.name) = x /\ IsNode(x)
<1>1. PICK i \in DOMAIN g.nodes : x = g.nodes[i]
  BY DEF ToSet
<1>2. x.name \in Names(g.nodes)
  BY <1>1 DEF Names
<1>3. Lookup(g.nodes, x.name) \in ToSet(g.nodes) /\ Lookup(g.nodes, x.name).name = x.name
  BY <1>2, LookupFinds
<1>4. PICK j \in DOMAIN g.nodes : Lookup(g.nodes, x.name) = g.nodes[j]
  BY <1>3 DEF ToSet
<1>5. i = j
  BY <1>1, <1>3, <1>4 DEF Dict
<1> QED BY <1>1, <1>2, <1>4, <1>5 DEF Dict, NodeOf, NodeNames

(* What a node makes has a producer in the maps. *)
LEMMA ProducerFound ==
  ASSUME NEW g, Sound(g), NEW t, get_producers(g, t) # {}
  PROVE  /\ Producer(g, t) \in ToSet(g.nodes) /\ Producer(g, t) # NoNode
         /\ Producer(g, t).out = t
<1> DEFINE links == Links(g.nodes)
           made == {i \in DOMAIN links : links[i].out = t}
<1>1. Dict(g.nodes) /\ Adjacency(g) = links
  BY FreshMaps DEF Sound, Whole
<1>2. /\ DOMAIN g.nodes = 1 .. Len(g.nodes) /\ Len(g.nodes) \in Nat
      /\ DOMAIN links = DOMAIN g.nodes
      /\ \A i \in DOMAIN g.nodes : links[i].out = g.nodes[i].out /\ links[i].name = g.nodes[i].name
  BY <1>1, DictMembers DEF Links
<1>3. made # {}
  <2>1. PICK x \in ToSet(g.nodes) : x.out = t
    BY DEF get_producers
  <2>2. PICK i \in DOMAIN g.nodes : x = g.nodes[i]
    BY DEF ToSet
  <2> QED BY <1>2, <2>1, <2>2
<1>4. Max(made) \in made
  <2>1. made \in SUBSET (0 .. Len(g.nodes))
    BY <1>2
  <2> QED BY <1>2, <1>3, <2>1, Greatest
<1> DEFINE x == g.nodes[Max(made)]
<1>5. x \in ToSet(g.nodes) /\ x.out = t /\ links[Max(made)].name = x.name
  BY <1>2, <1>4 DEF ToSet
<1>6. NodeOf(g, x.name) = x /\ IsNode(x)
  BY <1>1, <1>5, NodeUnique
<1>7. Producer(g, t) = x
  BY <1>1, <1>3, <1>5, <1>6 DEF Producer, ProducerBy, NodeOf
<1>8. x # NoNode
  <2>1. "attrs" \in DOMAIN x
    BY <1>6 DEF NodeFields, IsNode
  <2>2. "attrs" \notin DOMAIN NoNode
    BY DEF NoNode
  <2> HIDE DEF x
  <2> QED BY <2>1, <2>2
<1> QED BY <1>5, <1>7, <1>8

(* What a sequence of sequences flattens to, one sequence at a time. *)
Runs(T, seqs) == [p \in Seq(T) \X (1 .. Len(seqs)) |-> p[1] \o seqs[p[2]]]

LEMMA FlattenUnfolds ==
  ASSUME NEW T, NEW seqs \in Seq(Seq(T))
  PROVE  \E A : /\ Recursive(A, Len(seqs), Seq(T), <<>>, Runs(T, seqs))
               /\ FlattenSeq(seqs) = A[Len(seqs)]
<1> DEFINE n == Len(seqs)
           step == Runs(T, seqs)
<1>1. n \in Nat /\ \A i \in 1 .. n : seqs[i] \in Seq(T)
  BY LenProperties, ElementOfSeq
<1>2. \A s \in Seq(T), i \in 1 .. n : step[<<s, i>>] = s \o seqs[i]
  BY DEF Runs
<1>3. step \in [Seq(T) \X (1 .. n) -> Seq(T)]
  <2>1. ASSUME NEW s \in Seq(T), NEW i \in 1 .. n PROVE step[<<s, i>>] \in Seq(T)
    BY <1>1, <1>2, ConcatProperties
  <2>2. step = [p \in Seq(T) \X (1 .. n) |-> step[p]]
    BY DEF Runs
  <2> HIDE DEF step
  <2>3. \A p \in Seq(T) \X (1 .. n) : step[p] \in Seq(T)
    BY <2>1
  <2> QED BY <2>2, <2>3
<1>4. <<>> \in Seq(T)
  BY EmptySeq
<1> HIDE DEF step
<1>5. PICK A : Recursive(A, n, Seq(T), <<>>, step)
  BY <1>1, <1>3, <1>4, Recursion
<1>6. /\ A[0] = <<>> /\ \A i \in 0 .. n : A[i] \in Seq(T)
      /\ \A i \in 1 .. n : i - 1 \in 0 .. n /\ A[i] = A[i - 1] \o seqs[i]
  <2>1. A[0] = <<>> /\ \A i \in 0 .. n : A[i] \in Seq(T)
    BY <1>5 DEF Recursive
  <2>2. ASSUME NEW i \in 1 .. n PROVE i - 1 \in 0 .. n /\ A[i] = A[i - 1] \o seqs[i]
    <3>1. i - 1 \in 0 .. n /\ A[i] = step[<<A[i - 1], i>>]
      BY <1>1, <1>5 DEF Recursive
    <3> QED BY <1>2, <2>1, <3>1
  <2> QED BY <2>1, <2>2
<1> DEFINE e(S, i) == IF i = 1 THEN seqs[i] ELSE S[i - 1] \o seqs[i]
           Prefix == [i \in 1 .. n |-> A[i]]
<1>7. ASSUME NEW i \in 1 .. n, i = 1 PROVE A[i] = seqs[i]
  <2>1. i - 1 = 0
    BY <1>7
  <2>2. A[i] = <<>> \o seqs[i] /\ seqs[i] \in Seq(T)
    BY <1>1, <1>6, <2>1
  <2> QED BY <2>2, ConcatEmptySeq
<1>8. Prefix = [i \in 1 .. n |-> e(Prefix, i)]
  <2>1. ASSUME NEW i \in 1 .. n PROVE A[i] = e(Prefix, i)
    <3>1. CASE i = 1
      BY <1>7, <3>1
    <3>2. CASE i # 1
      <4>1. i - 1 \in 1 .. n
        BY <1>1, <3>2
      <4> QED BY <1>6, <3>2, <4>1
    <3> QED BY <3>1, <3>2
  <2> HIDE DEF e
  <2> QED BY <2>1
<1> DEFINE B == CHOOSE S : S = [i \in 1 .. n |-> e(S, i)]
<1>9. B = [i \in 1 .. n |-> e(B, i)]
  <2> HIDE DEF e, Prefix
  <2> QED BY <1>8
<1>10. FlattenSeq(seqs) = IF n = 0 THEN seqs ELSE B[n]
  BY DEF FlattenSeq
<1> HIDE DEF B
<1> DEFINE Good == {i \in 0 .. n : i = 0 \/ B[i] = A[i]}
<1>11. 0 \in Good
  BY <1>1
<1>12. ASSUME NEW i \in 1 .. n, i - 1 \in Good PROVE i \in Good
  <2>1. B[i] = e(B, i)
    <3> HIDE DEF e
    <3> QED BY <1>9
  <2>2. CASE i = 1
    BY <1>1, <1>7, <2>1, <2>2
  <2>3. CASE i # 1
    <3>1. B[i - 1] = A[i - 1] /\ i \in 0 .. n
      BY <1>1, <1>12, <2>3
    <3> QED BY <1>6, <2>1, <2>3, <3>1
  <2> QED BY <2>2, <2>3
<1>13. n \in Good
  <2> HIDE DEF Good
  <2>1. \A i \in 0 .. n : i \in Good
    BY <1>1, <1>11, <1>12, UpTo
  <2> QED BY <1>1, <2>1
<1>14. n = 0 => seqs = <<>>
  BY EmptySeq
<1>15. FlattenSeq(seqs) = A[n]
  BY <1>6, <1>10, <1>13, <1>14
<1> QED BY <1>5, <1>15 DEF step

LEMMA FlattenAppend ==
  ASSUME NEW T, NEW seqs \in Seq(Seq(T)), NEW s \in Seq(T)
  PROVE  /\ FlattenSeq(seqs) \in Seq(T)
         /\ FlattenSeq(Append(seqs, s)) = FlattenSeq(seqs) \o s
<1> DEFINE n == Len(seqs)
           more == Append(seqs, s)
<1>1. /\ n \in Nat /\ more \in Seq(Seq(T)) /\ Len(more) = n + 1
      /\ \A i \in 1 .. n : more[i] = seqs[i]
      /\ more[n + 1] = s
  BY LenProperties, AppendProperties
<1> HIDE DEF more
<1>2. PICK A : /\ Recursive(A, n, Seq(T), <<>>, Runs(T, seqs))
               /\ FlattenSeq(seqs) = A[n]
  BY FlattenUnfolds
<1>3. PICK B : /\ Recursive(B, n + 1, Seq(T), <<>>, Runs(T, more))
               /\ FlattenSeq(more) = B[n + 1]
  BY <1>1, FlattenUnfolds
<1>4. /\ A[0] = <<>> /\ \A i \in 0 .. n : A[i] \in Seq(T)
      /\ \A i \in 1 .. n : A[i] = A[i - 1] \o seqs[i]
  <2>1. A[0] = <<>> /\ \A i \in 0 .. n : A[i] \in Seq(T)
    BY <1>2 DEF Recursive
  <2>2. ASSUME NEW i \in 1 .. n PROVE A[i] = A[i - 1] \o seqs[i]
    <3>1. i - 1 \in 0 .. n /\ A[i] = Runs(T, seqs)[<<A[i - 1], i>>]
      BY <1>1, <1>2 DEF Recursive
    <3> QED BY <2>1, <3>1 DEF Runs
  <2> QED BY <2>1, <2>2
<1>5. /\ B[0] = <<>>
      /\ \A i \in 1 .. n + 1 : B[i] = B[i - 1] \o more[i]
  <2>1. B[0] = <<>> /\ \A i \in 0 .. n + 1 : B[i] \in Seq(T)
    BY <1>3 DEF Recursive
  <2>2. ASSUME NEW i \in 1 .. n + 1 PROVE B[i] = B[i - 1] \o more[i]
    <3>1. i - 1 \in 0 .. n + 1 /\ B[i] = Runs(T, more)[<<B[i - 1], i>>]
      BY <1>1, <1>3 DEF Recursive
    <3> QED BY <1>1, <2>1, <3>1 DEF Runs
  <2> QED BY <2>1, <2>2
<1> DEFINE Good == {i \in 0 .. n : A[i] = B[i]}
<1>6. 0 \in Good
  BY <1>1, <1>4, <1>5
<1>7. ASSUME NEW i \in 1 .. n, i - 1 \in Good PROVE i \in Good
  <2>1. i \in 0 .. n /\ i \in 1 .. n + 1 /\ A[i - 1] = B[i - 1]
    BY <1>1, <1>7
  <2> QED BY <1>1, <1>4, <1>5, <2>1
<1>8. n \in Good
  <2> HIDE DEF Good
  <2>1. \A i \in 0 .. n : i \in Good
    BY <1>1, <1>6, <1>7, UpTo
  <2> QED BY <1>1, <2>1
<1>9. A[n] = B[n] /\ n \in 0 .. n /\ n + 1 \in 1 .. n + 1 /\ (n + 1) - 1 = n
  BY <1>1, <1>8
<1>10. FlattenSeq(more) = A[n] \o s
  BY <1>1, <1>3, <1>5, <1>9
<1> QED BY <1>2, <1>4, <1>9, <1>10 DEF more

(* Blocks of a graph, what they all make together, and that each reads only    *)
(* what comes from outside the graph or was made by one before it.           *)
BlocksOf(g) ==
  [type    : {classify_node(NodeOf(g, m)) : m \in NodeNames(g)},
   names   : Seq(NodeNames(g)),
   inputs  : SUBSET DOMAIN g.tensors,
   outputs : {<<NodeOf(g, m).out>> : m \in NodeNames(g)}]

Outside(g) == {t \in DOMAIN g.tensors : t \in ToSet(g.inputs) \/ IsConstant(g, t)}
MadeBefore(g, blocks, i) == UNION {Made(g, blocks[j].names) : j \in 1 .. i - 1}
MadeBy(g, blocks) == MadeBefore(g, blocks, Len(blocks) + 1)
Linked(g, blocks) ==
  \A i \in DOMAIN blocks : blocks[i].inputs \subseteq Outside(g) \cup MadeBefore(g, blocks, i)
NamesOf(blocks) == [i \in DOMAIN blocks |-> blocks[i].names]

LEMMA LinkedAppend ==
  ASSUME NEW g, NEW S, NEW blocks \in Seq(S), NEW b \in S
  PROVE  /\ MadeBy(g, Append(blocks, b)) = MadeBy(g, blocks) \cup Made(g, b.names)
         /\ Linked(g, Append(blocks, b)) <=>
              Linked(g, blocks) /\ b.inputs \subseteq Outside(g) \cup MadeBy(g, blocks)
<1> DEFINE n == Len(blocks)
           more == Append(blocks, b)
<1>1. /\ n \in Nat /\ DOMAIN blocks = 1 .. n /\ Len(more) = n + 1
      /\ DOMAIN more = 1 .. n + 1
      /\ \A i \in 1 .. n : more[i] = blocks[i]
      /\ more[n + 1] = b
  BY LenProperties, AppendProperties
<1> HIDE DEF more
<1>2. ASSUME NEW i \in 1 .. n + 1
      PROVE  MadeBefore(g, more, i) = MadeBefore(g, blocks, i)
  <2>1. \A j \in 1 .. i - 1 : more[j] = blocks[j]
    BY <1>1
  <2> QED BY <2>1 DEF MadeBefore
<1>3. MadeBefore(g, more, n + 2) = MadeBefore(g, blocks, n + 1) \cup Made(g, b.names)
  <2>1. \A x : x \in MadeBefore(g, more, n + 2) <=>
                 \E j \in 1 .. n + 1 : x \in Made(g, more[j].names)
    BY <1>1 DEF MadeBefore
  <2>2. \A x : x \in MadeBefore(g, blocks, n + 1) <=>
                 \E j \in 1 .. n : x \in Made(g, blocks[j].names)
    BY <1>1 DEF MadeBefore
  <2>3. \A j : j \in 1 .. n + 1 <=> j \in 1 .. n \/ j = n + 1
    BY <1>1
  <2>4. \A x : (\E j \in 1 .. n + 1 : x \in Made(g, more[j].names)) <=>
                 (\E j \in 1 .. n : x \in Made(g, blocks[j].names)) \/ x \in Made(g, b.names)
    BY <1>1, <2>3
  <2> QED BY <2>1, <2>2, <2>4
<1>4. MadeBy(g, more) = MadeBy(g, blocks) \cup Made(g, b.names)
  BY <1>1, <1>3 DEF MadeBy
<1>5. Linked(g, more) <=> Linked(g, blocks) /\ b.inputs \subseteq Outside(g) \cup MadeBy(g, blocks)
  <2>1. \A i \in 1 .. n : i \in 1 .. n + 1 /\ more[i] = blocks[i]
          /\ MadeBefore(g, more, i) = MadeBefore(g, blocks, i)
    BY <1>1, <1>2
  <2>2. n + 1 \in 1 .. n + 1 /\ MadeBefore(g, more, n + 1) = MadeBy(g, blocks)
    BY <1>1, <1>2 DEF MadeBy
  <2>3. \A i \in 1 .. n + 1 : i \in 1 .. n \/ i = n + 1
    BY <1>1
  <2> QED BY <1>1, <2>1, <2>2, <2>3 DEF Linked
<1> QED BY <1>4, <1>5 DEF more

(* What the partitioner starts from. *)
LEMMA PartOf ==
  ASSUME NEW g, Dict(g.nodes), NEW i \in DOMAIN TopoOrder(g)
  PROVE  LET n == TopoOrder(g)[i] part == partition(g)[i] IN
         /\ n \in NodeNames(g) /\ part \in BlocksOf(g)
         /\ part.names = <<n>> /\ Made(g, part.names) = {NodeOf(g, n).out}
         /\ \A t \in part.inputs : t \in ToSet(NodeOf(g, n).ins) /\ t \in DOMAIN g.tensors
<1> DEFINE n == TopoOrder(g)[i]
           part == partition(g)[i]
           node == NodeOf(g, n)
<1>1. n \in NodeNames(g)
  <2>1. TopoOrder(g) \in Seq(NodeNames(g))
    BY TopoOrders
  <2> QED BY <2>1, LenProperties, ElementOfSeq
<1>2. node.name = n
  BY <1>1, LookupFinds DEF NodeNames, NodeOf
<1>3. part = [type |-> classify_node(node), names |-> <<node.name>>,
              inputs |-> {t \in ToSet(node.ins) : t # node.out /\ t \in DOMAIN g.tensors},
              outputs |-> <<node.out>>]
  BY DEF partition
<1> HIDE DEF part, node
<1>4. part.names = <<n>>
  BY <1>2, <1>3
<1>5. Made(g, <<n>>) = {NodeOf(g, n).out}
  <2>1. DOMAIN <<n>> = {1} /\ <<n>>[1] = n
    OBVIOUS
  <2> QED BY <2>1 DEF Made
<1>6. part \in BlocksOf(g)
  <2>1. <<n>> \in Seq(NodeNames(g))
    BY <1>1
  <2>2. /\ classify_node(node) \in {classify_node(NodeOf(g, m)) : m \in NodeNames(g)}
        /\ <<node.out>> \in {<<NodeOf(g, m).out>> : m \in NodeNames(g)}
    BY <1>1 DEF node
  <2> HIDE DEF n
  <2> QED BY <1>2, <1>3, <2>1, <2>2 DEF BlocksOf
<1>7. \A t \in part.inputs : t \in ToSet(node.ins) /\ t \in DOMAIN g.tensors
  BY <1>3
<1> QED BY <1>1, <1>4, <1>5, <1>6, <1>7 DEF part, node

(* Operands come from outside the graph or from one of its nodes, which is     *)
(* what Accepted says of them.                                           *)
Fed(g) ==
  \A x \in ToSet(g.nodes) : \A t \in ToSet(x.ins) :
    t \in ToSet(g.inputs) \/ IsConstant(g, t) \/ get_producers(g, t) # {}

MadeUpTo(g, i) == {NodeOf(g, TopoOrder(g)[j]).out : j \in 1 .. i}

LEMMA PartReads ==
  ASSUME NEW g, Sound(g), Fed(g), NEW i \in DOMAIN TopoOrder(g)
  PROVE  partition(g)[i].inputs \subseteq Outside(g) \cup MadeUpTo(g, i - 1)
<1> DEFINE order == TopoOrder(g)
           n == order[i]
           part == partition(g)[i]
<1>1. /\ Dict(g.nodes) /\ n \in NodeNames(g)
      /\ \A t \in part.inputs : t \in ToSet(NodeOf(g, n).ins) /\ t \in DOMAIN g.tensors
  BY PartOf DEF Sound, Whole
<1>2. Needs(g)[n] \subseteq Before(order, i)
  BY <1>1, TopoOrders
<1> HIDE DEF part
<1>3. ASSUME NEW t \in part.inputs, t \notin Outside(g)
      PROVE  t \in MadeUpTo(g, i - 1)
  <2> DEFINE p == Producer(g, t)
  <2>1. NodeOf(g, n) \in ToSet(g.nodes)
    BY <1>1, LookupFinds DEF NodeNames, NodeOf
  <2>2. get_producers(g, t) # {}
    BY <1>1, <1>3, <2>1 DEF Fed, Outside
  <2>3. p \in ToSet(g.nodes) /\ p # NoNode /\ p.out = t
    BY <2>2, ProducerFound
  <2>4. p.name \in Needs(g)[n]
    <3>1. p \in {Producer(g, u) : u \in ToSet(NodeOf(g, n).ins)} \ {NoNode}
      BY <1>1, <2>3
    <3> HIDE DEF p
    <3> QED BY <1>1, <3>1 DEF Needs
  <2>5. PICK j \in 1 .. i - 1 : p.name = order[j]
    BY <1>2, <2>4 DEF Before
  <2>6. NodeOf(g, p.name) = p
    BY <1>1, <2>3, NodeUnique
  <2> HIDE DEF p, order, n
  <2>7. NodeOf(g, order[j]).out = t
    BY <2>3, <2>5, <2>6
  <2> QED BY <2>7 DEF MadeUpTo, order
<1> QED BY <1>3 DEF part

(* A part joins the last block or comes after it. *)
LEMMA JoinedCases ==
  ASSUME NEW g, NEW blocks \in Seq(BlocksOf(g)), NEW part \in BlocksOf(g)
  PROVE  \/ Joined(g, blocks, part) = Append(blocks, part)
         \/ \E init \in Seq(BlocksOf(g)), last \in BlocksOf(g) :
              /\ blocks = Append(init, last)
              /\ Joined(g, blocks, part) = Append(init, merge(g, last, part))
<1> DEFINE B == BlocksOf(g)
<1> SUFFICES ASSUME Joined(g, blocks, part) # Append(blocks, part)
             PROVE  \E init \in Seq(B), last \in B :
                      /\ blocks = Append(init, last)
                      /\ Joined(g, blocks, part) = Append(init, merge(g, last, part))
  OBVIOUS
<1>1. /\ blocks # <<>>
      /\ Joined(g, blocks, part) = Append(Front(blocks), merge(g, Last(blocks), part))
  BY DEF Joined
<1> HIDE DEF B
<1>2. PICK init \in Seq(B), last \in B : blocks = Append(init, last)
  BY <1>1, SequenceEmptyOrAppend DEF B
<1>3. /\ Len(init) \in Nat /\ Len(blocks) = Len(init) + 1
      /\ \A i \in 1 .. Len(init) : blocks[i] = init[i] /\ init[i] \in B
      /\ blocks[Len(init) + 1] = last
  BY <1>2, AppendProperties, LenProperties, ElementOfSeq
<1>4. Last(blocks) = last
  BY <1>3 DEF Last
<1>5. Front(blocks) = init
  <2> DEFINE f == SubSeq(blocks, 1, Len(init))
  <2>1. /\ f \in Seq(B) /\ Len(f) = Len(init)
        /\ \A i \in 1 .. Len(init) : f[i] = blocks[i]
    <3>1. \A i \in 1 .. Len(init) : blocks[i] \in B
      BY <1>3
    <3>2. /\ f \in Seq(B)
          /\ Len(f) = IF 1 <= Len(init) THEN Len(init) - 1 + 1 ELSE 0
          /\ \A i \in 1 .. Len(init) - 1 + 1 : f[i] = blocks[1 + i - 1]
      BY <1>3, <3>1, SubSeqProperties
    <3> HIDE DEF f
    <3> QED BY <1>3, <3>2
  <2>2. f = Front(blocks)
    BY <1>3 DEF Front
  <2> HIDE DEF f
  <2> QED BY <1>2, <1>3, <2>1, <2>2, SeqEqual
<1> QED BY <1>1, <1>2, <1>4, <1>5

LEMMA MergeMakes ==
  ASSUME NEW g, NEW prev \in BlocksOf(g), NEW b \in BlocksOf(g),
         NEW m, m = merge(g, prev, b)
  PROVE  /\ m \in BlocksOf(g)
         /\ Made(g, m.names) = Made(g, prev.names) \cup Made(g, b.names)
         /\ m.inputs = (prev.inputs \cup b.inputs) \ Made(g, m.names)
<1> DEFINE names == prev.names \o b.names
<1>1. /\ prev.names \in Seq(NodeNames(g)) /\ b.names \in Seq(NodeNames(g))
      /\ prev.inputs \in SUBSET DOMAIN g.tensors /\ b.inputs \in SUBSET DOMAIN g.tensors
  BY DEF BlocksOf
<1>2. names \in Seq(NodeNames(g))
  BY <1>1, ConcatProperties
<1>3. m = [prev EXCEPT !.names = names, !.outputs = b.outputs,
             !.inputs = (@ \cup b.inputs) \ Made(g, names)]
  BY DEF merge
<1>4. \A s : Made(g, s) = {NodeOf(g, x).out : x \in ToSet(s)}
  BY DEF Made, ToSet
<1>5. Made(g, names) = Made(g, prev.names) \cup Made(g, b.names)
  <2>1. ToSet(names) = ToSet(prev.names) \cup ToSet(b.names)
    BY <1>1, ConcatMembers
  <2> HIDE DEF names
  <2> QED BY <1>4, <2>1
<1> HIDE DEF names
<1>6. m.names = names /\ m.inputs = (prev.inputs \cup b.inputs) \ Made(g, names)
  BY <1>3 DEF BlocksOf
<1>7. m \in BlocksOf(g)
  BY <1>1, <1>2, <1>3 DEF BlocksOf
<1> QED BY <1>5, <1>6, <1>7 DEF names

LEMMA NamesAppend ==
  ASSUME NEW g, NEW blocks \in Seq(BlocksOf(g)), NEW b \in BlocksOf(g)
  PROVE  /\ NamesOf(blocks) \in Seq(Seq(NodeNames(g))) /\ b.names \in Seq(NodeNames(g))
         /\ NamesOf(Append(blocks, b)) = Append(NamesOf(blocks), b.names)
<1> DEFINE T == Seq(NodeNames(g))
           more == Append(blocks, b)
           both == NamesOf(more)
           each == NamesOf(blocks)
<1>1. /\ Len(blocks) \in Nat /\ DOMAIN blocks = 1 .. Len(blocks)
      /\ \A i \in 1 .. Len(blocks) : blocks[i].names \in T
      /\ b.names \in T
  <2>1. \A i \in 1 .. Len(blocks) : blocks[i] \in BlocksOf(g)
    BY ElementOfSeq
  <2> QED BY <2>1, LenProperties DEF BlocksOf
<1>2. /\ more \in Seq(BlocksOf(g)) /\ Len(more) = Len(blocks) + 1
      /\ DOMAIN more = 1 .. Len(blocks) + 1
      /\ \A i \in 1 .. Len(blocks) : more[i] = blocks[i]
      /\ more[Len(blocks) + 1] = b
  BY AppendProperties, LenProperties
<1>3. each = [i \in 1 .. Len(blocks) |-> blocks[i].names]
  BY <1>1 DEF NamesOf
<1> HIDE DEF more
<1>4. both = [i \in 1 .. Len(blocks) + 1 |-> more[i].names]
  BY <1>2 DEF NamesOf
<1>5. \A i \in 1 .. Len(blocks) + 1 :
        more[i].names = (IF i \in 1 .. Len(blocks) THEN blocks[i].names ELSE b.names)
  BY <1>1, <1>2
<1> HIDE DEF T, each, both
<1>6. each \in Seq(T) /\ Len(each) = Len(blocks)
  <2>1. each \in Seq(T)
    BY <1>1, <1>3, IsASeq
  <2> QED BY <1>1, <1>3, <2>1, LenProperties
<1>7. both \in Seq(T) /\ Len(both) = Len(blocks) + 1
  <2>1. \A i \in 1 .. Len(blocks) + 1 : more[i].names \in T
    BY <1>1, <1>5
  <2>2. Len(blocks) + 1 \in Nat
    BY <1>1
  <2>3. both \in Seq(T)
    BY <1>4, <2>1, <2>2, IsASeq
  <2> QED BY <1>4, <2>2, <2>3, LenProperties
<1>8. /\ Append(each, b.names) \in Seq(T) /\ Len(Append(each, b.names)) = Len(blocks) + 1
      /\ \A i \in 1 .. Len(blocks) : Append(each, b.names)[i] = each[i]
      /\ Append(each, b.names)[Len(blocks) + 1] = b.names
  BY <1>1, <1>6, AppendProperties
<1>9. \A i \in 1 .. Len(blocks) + 1 : both[i] = Append(each, b.names)[i]
  <2>1. SUFFICES ASSUME NEW i \in 1 .. Len(blocks) + 1
                 PROVE  both[i] = Append(each, b.names)[i]
    OBVIOUS
  <2>2. \/ i \in 1 .. Len(blocks)
        \/ i = Len(blocks) + 1 /\ i \notin 1 .. Len(blocks)
    BY <1>1
  <2> QED BY <1>3, <1>4, <1>5, <1>8, <2>2
<1>10. both = Append(each, b.names)
  BY <1>7, <1>8, <1>9, SeqEqual
<1> QED BY <1>1, <1>6, <1>10 DEF T, each, both, more

LEMMA FlattenNames ==
  ASSUME NEW g, NEW blocks \in Seq(BlocksOf(g)), NEW b \in BlocksOf(g)
  PROVE  /\ FlattenSeq(NamesOf(blocks)) \in Seq(NodeNames(g)) /\ b.names \in Seq(NodeNames(g))
         /\ FlattenSeq(NamesOf(Append(blocks, b))) = FlattenSeq(NamesOf(blocks)) \o b.names
<1> DEFINE T == NodeNames(g)
           each == NamesOf(blocks)
<1>1. /\ each \in Seq(Seq(T)) /\ b.names \in Seq(T)
      /\ NamesOf(Append(blocks, b)) = Append(each, b.names)
  BY NamesAppend
<1> HIDE DEF T, each
<1>2. /\ FlattenSeq(each) \in Seq(T)
      /\ FlattenSeq(Append(each, b.names)) = FlattenSeq(each) \o b.names
  BY <1>1, FlattenAppend
<1> QED BY <1>1, <1>2 DEF T, each

(* The blocks made of the first k parts. *)
Partial(g, k, blocks) ==
  /\ blocks \in Seq(BlocksOf(g))
  /\ FlattenSeq(NamesOf(blocks)) = SubSeq(TopoOrder(g), 1, k)
  /\ MadeBy(g, blocks) = MadeUpTo(g, k)
  /\ Linked(g, blocks)

LEMMA ConcatTwice ==
  ASSUME NEW S, NEW r \in Seq(S), NEW s \in Seq(S), NEW t \in Seq(S)
  PROVE  r \o (s \o t) = (r \o s) \o t
BY ConcatAssociative

LEMMA JoinedPartial ==
  ASSUME NEW g, Sound(g), Fed(g), NEW k \in 1 .. Len(TopoOrder(g)),
         NEW blocks, Partial(g, k - 1, blocks)
  PROVE  Partial(g, k, Joined(g, blocks, partition(g)[k]))
<1> DEFINE order == TopoOrder(g)
           part == partition(g)[k]
           B == BlocksOf(g)
           N == NodeNames(g)
<1>1. order \in Seq(N) /\ DOMAIN order = 1 .. Len(order) /\ Len(order) \in Nat
  BY TopoOrders, LenProperties DEF Sound, Whole
<1>2. /\ part \in B /\ part.names = <<order[k]>> /\ order[k] \in N
      /\ Made(g, part.names) = {NodeOf(g, order[k]).out}
  BY <1>1, PartOf DEF Sound, Whole
<1>3. part.inputs \subseteq Outside(g) \cup MadeUpTo(g, k - 1)
  BY <1>1, PartReads
<1>4. /\ blocks \in Seq(B) /\ FlattenSeq(NamesOf(blocks)) = SubSeq(order, 1, k - 1)
      /\ MadeBy(g, blocks) = MadeUpTo(g, k - 1) /\ Linked(g, blocks)
  BY DEF Partial
<1> HIDE DEF part, order, B, N
<1>5. SubSeq(order, 1, k) = SubSeq(order, 1, k - 1) \o part.names
  <2>1. 1 \in 1 .. Len(order) /\ k \in 1 .. Len(order)
    BY <1>1 DEF order
  <2> QED BY <1>1, <1>2, <2>1, SubSeqRecursiveSecond
<1>6. MadeUpTo(g, k) = MadeUpTo(g, k - 1) \cup Made(g, part.names)
  <2>1. \A j : j \in 1 .. k <=> j \in 1 .. k - 1 \/ j = k
    BY <1>1
  <2> QED BY <1>2, <2>1 DEF MadeUpTo, order
<1>7. CASE Joined(g, blocks, part) = Append(blocks, part)
  <2>1. Append(blocks, part) \in Seq(B)
    BY <1>2, <1>4, AppendProperties
  <2>2. FlattenSeq(NamesOf(Append(blocks, part))) = SubSeq(order, 1, k)
    BY <1>2, <1>4, <1>5, FlattenNames DEF B
  <2>3. MadeBy(g, Append(blocks, part)) = MadeUpTo(g, k) /\ Linked(g, Append(blocks, part))
    BY <1>2, <1>3, <1>4, <1>6, LinkedAppend
  <2> QED BY <1>7, <2>1, <2>2, <2>3 DEF Partial, part, order, B
<1>8. CASE \E init \in Seq(B), last \in B :
             /\ blocks = Append(init, last)
             /\ Joined(g, blocks, part) = Append(init, merge(g, last, part))
  <2>1. PICK init \in Seq(B), last \in B :
             /\ blocks = Append(init, last)
             /\ Joined(g, blocks, part) = Append(init, merge(g, last, part))
    BY <1>8
  <2> DEFINE m == merge(g, last, part)
  <2>2. last \in BlocksOf(g) /\ part \in BlocksOf(g) /\ m = merge(g, last, part)
    BY <1>2 DEF B
  <2> HIDE DEF m
  <2>3. /\ m \in BlocksOf(g)
        /\ Made(g, m.names) = Made(g, last.names) \cup Made(g, part.names)
        /\ m.inputs = (last.inputs \cup part.inputs) \ Made(g, m.names)
    BY <2>2, MergeMakes
  <2>4. m.names = last.names \o part.names
    BY <2>2 DEF merge, BlocksOf
  <2>5. m \in B /\ Append(init, m) \in Seq(B)
    <3>1. m \in B
      BY <2>3 DEF B
    <3> QED BY <3>1, AppendProperties
  <2>6. FlattenSeq(NamesOf(Append(init, m))) = SubSeq(order, 1, k)
    <3> DEFINE f == FlattenSeq(NamesOf(init))
    <3>1. /\ f \in Seq(N) /\ last.names \in Seq(N) /\ part.names \in Seq(N)
          /\ f \o last.names = SubSeq(order, 1, k - 1)
      BY <1>2, <1>4, <2>1, FlattenNames DEF B, N
    <3>2. FlattenSeq(NamesOf(Append(init, m))) = f \o m.names
      BY <2>1, <2>3, FlattenNames DEF B
    <3> HIDE DEF f
    <3>3. f \o (last.names \o part.names) = (f \o last.names) \o part.names
      <4> DEFINE a == last.names
                 b == part.names
      <4>1. f \in Seq(N) /\ a \in Seq(N) /\ b \in Seq(N)
        BY <3>1
      <4> HIDE DEF a, b, N
      <4>2. f \o (a \o b) = (f \o a) \o b
        BY <4>1, ConcatTwice, SMTT(30)
      <4> QED BY <4>2 DEF a, b
    <3> QED BY <1>5, <2>4, <3>1, <3>2, <3>3
  <2>7. /\ MadeUpTo(g, k - 1) = MadeBy(g, init) \cup Made(g, last.names)
        /\ Linked(g, init) /\ last.inputs \subseteq Outside(g) \cup MadeBy(g, init)
    BY <1>4, <2>1, LinkedAppend
  <2>8. m.inputs \subseteq Outside(g) \cup MadeBy(g, init)
    BY <1>3, <2>3, <2>7
  <2>9. MadeBy(g, Append(init, m)) = MadeUpTo(g, k) /\ Linked(g, Append(init, m))
    <3>1. /\ MadeBy(g, Append(init, m)) = MadeBy(g, init) \cup Made(g, m.names)
          /\ Linked(g, Append(init, m)) <=>
               Linked(g, init) /\ m.inputs \subseteq Outside(g) \cup MadeBy(g, init)
      BY <2>5, LinkedAppend
    <3> QED BY <1>6, <2>3, <2>7, <2>8, <3>1
  <2> QED BY <2>1, <2>5, <2>6, <2>9 DEF Partial, part, order, B, m
<1> QED BY <1>2, <1>4, <1>7, <1>8, JoinedCases DEF B

Joins(g) ==
  [p \in Seq(BlocksOf(g)) \X (1 .. Len(partition(g))) |-> Joined(g, p[1], partition(g)[p[2]])]

LEMMA MergedUnfolds ==
  ASSUME NEW g, Dict(g.nodes)
  PROVE  /\ Len(partition(g)) = Len(TopoOrder(g)) /\ Len(TopoOrder(g)) \in Nat
         /\ Recursive(MergedUpTo(g, partition(g)), Len(partition(g)), Seq(BlocksOf(g)), <<>>,
                      Joins(g))
<1> DEFINE parts == partition(g)
           n == Len(parts)
           X == Seq(BlocksOf(g))
           step == Joins(g)
<1>1. /\ n = Len(TopoOrder(g)) /\ n \in Nat
      /\ \A i \in 1 .. n : i \in DOMAIN TopoOrder(g)
  <2>1. TopoOrder(g) \in Seq(NodeNames(g))
    BY TopoOrders
  <2>2. DOMAIN TopoOrder(g) = 1 .. Len(TopoOrder(g)) /\ Len(TopoOrder(g)) \in Nat
    BY <2>1, LenProperties
  <2>3. parts = [i \in 1 .. Len(TopoOrder(g)) |-> parts[i]]
    BY <2>2 DEF partition
  <2> HIDE DEF parts
  <2>4. Len(parts) = Len(TopoOrder(g))
    BY <2>2, <2>3, MadeSeq
  <2> QED BY <2>2, <2>4
<1>2. \A i \in 1 .. n : parts[i] \in BlocksOf(g)
  BY <1>1, PartOf
<1> HIDE DEF parts
<1>3. \A s \in X, i \in 1 .. n : step[<<s, i>>] = Joined(g, s, parts[i])
  BY DEF Joins, parts
<1>4. step \in [X \X (1 .. n) -> X]
  <2>1. ASSUME NEW s \in X, NEW i \in 1 .. n PROVE step[<<s, i>>] \in X
    <3> DEFINE part == parts[i]
    <3>1. part \in BlocksOf(g)
      BY <1>2
    <3> HIDE DEF part
    <3>2. CASE Joined(g, s, part) = Append(s, part)
      <4>1. Append(s, part) \in X
        BY <3>1, AppendProperties
      <4> QED BY <1>3, <3>2, <4>1 DEF part
    <3>3. CASE \E init \in Seq(BlocksOf(g)), last \in BlocksOf(g) :
                 /\ s = Append(init, last)
                 /\ Joined(g, s, part) = Append(init, merge(g, last, part))
      <4>1. PICK init \in Seq(BlocksOf(g)), last \in BlocksOf(g) :
                 /\ s = Append(init, last)
                 /\ Joined(g, s, part) = Append(init, merge(g, last, part))
        BY <3>3
      <4>2. merge(g, last, part) \in BlocksOf(g)
        BY <3>1, MergeMakes
      <4>3. Append(init, merge(g, last, part)) \in X
        BY <4>2, AppendProperties
      <4> QED BY <1>3, <4>1, <4>3 DEF part
    <3> QED BY <3>1, <3>2, <3>3, JoinedCases
  <2>2. step = [p \in X \X (1 .. n) |-> step[p]]
    BY DEF Joins, parts
  <2> HIDE DEF step, X
  <2>3. \A p \in X \X (1 .. n) : step[p] \in X
    BY <2>1
  <2> QED BY <2>2, <2>3
<1>5. <<>> \in X
  BY EmptySeq
<1> HIDE DEF step, X
<1>6. PICK A : Recursive(A, n, X, <<>>, step)
  BY <1>1, <1>4, <1>5, Recursion
<1> DEFINE e(S, k) == IF k = 0 THEN <<>> ELSE Joined(g, S[k - 1], parts[k])
<1>7. A = [k \in 0 .. n |-> e(A, k)]
  <2>1. A = [i \in 0 .. n |-> A[i]] /\ A[0] = <<>> /\ \A i \in 0 .. n : A[i] \in X
    BY <1>6 DEF Recursive
  <2>2. ASSUME NEW i \in 1 .. n PROVE A[i] = e(A, i)
    <3>1. i - 1 \in 0 .. n /\ A[i] = step[<<A[i - 1], i>>] /\ i # 0
      BY <1>1, <1>6 DEF Recursive
    <3> QED BY <1>3, <2>1, <3>1
  <2>3. A[0] = e(A, 0)
    BY <2>1
  <2>4. \A i \in 0 .. n : i = 0 \/ i \in 1 .. n
    BY <1>1
  <2> HIDE DEF e
  <2>5. \A i \in 0 .. n : A[i] = e(A, i)
    BY <2>2, <2>3, <2>4
  <2> QED BY <2>1, <2>5
<1> DEFINE M == CHOOSE S : S = [k \in 0 .. n |-> e(S, k)]
<1>8. M = [k \in 0 .. n |-> e(M, k)]
  BY <1>7
<1>9. MergedUpTo(g, parts) = M
  BY DEF MergedUpTo
<1> HIDE DEF M
<1>10. Recursive(M, n, X, <<>>, step)
  <2>1. M = [i \in 0 .. n |-> M[i]] /\ M[0] = <<>>
    BY <1>1, <1>8
  <2>2. \A i \in 1 .. n : M[i - 1] \in X => M[i] = step[<<M[i - 1], i>>]
    <3>1. SUFFICES ASSUME NEW i \in 1 .. n, M[i - 1] \in X
                   PROVE  M[i] = step[<<M[i - 1], i>>]
      OBVIOUS
    <3>2. i \in 0 .. n /\ i # 0
      BY <1>1
    <3>3. M[i] = e(M, i)
      <4> HIDE DEF e
      <4> QED BY <1>8, <3>2
    <3> QED BY <1>3, <3>1, <3>2, <3>3
  <2> QED BY <1>1, <1>4, <1>5, <2>1, <2>2, RecursionStays
<1> QED BY <1>1, <1>9, <1>10 DEF step, X, parts

LEMMA MergedPartial ==
  ASSUME NEW g, Sound(g), Fed(g)
  PROVE  Partial(g, Len(TopoOrder(g)), partition_merged(g))
<1> DEFINE n == Len(TopoOrder(g))
           M == MergedUpTo(g, partition(g))
           Good == {k \in 0 .. n : Partial(g, k, M[k])}
<1>1. /\ Len(partition(g)) = n /\ n \in Nat
      /\ Recursive(M, n, Seq(BlocksOf(g)), <<>>, Joins(g))
  BY MergedUnfolds DEF Sound, Whole
<1>2. /\ M[0] = <<>>
      /\ \A i \in 1 .. n : /\ i - 1 \in 0 .. n /\ M[i - 1] \in Seq(BlocksOf(g))
                           /\ M[i] = Joins(g)[<<M[i - 1], i>>]
  <2>1. /\ M[0] = <<>> /\ \A i \in 0 .. n : M[i] \in Seq(BlocksOf(g))
        /\ \A i \in 1 .. n : M[i] = Joins(g)[<<M[i - 1], i>>]
    BY <1>1 DEF Recursive
  <2> QED BY <1>1, <2>1
<1>3. \A s \in Seq(BlocksOf(g)), i \in 1 .. n :
        Joins(g)[<<s, i>>] = Joined(g, s, partition(g)[i])
  BY <1>1 DEF Joins
<1> HIDE DEF M
<1>4. Partial(g, 0, <<>>)
  <2>1. <<>> \in Seq(BlocksOf(g)) /\ Len(<<>>) = 0 /\ DOMAIN <<>> = {}
    BY EmptySeq
  <2>2. NamesOf(<<>>) = <<>>
    BY DEF NamesOf
  <2>3. FlattenSeq(NamesOf(<<>>)) = SubSeq(TopoOrder(g), 1, 0)
    <3>1. FlattenSeq(<<>>) = <<>>
      BY <2>1 DEF FlattenSeq
    <3>2. SubSeq(TopoOrder(g), 1, 0) = <<>>
      BY SubSeqEmpty
    <3> QED BY <2>2, <3>1, <3>2
  <2>4. MadeBy(g, <<>>) = {} /\ MadeUpTo(g, 0) = {}
    BY <2>1 DEF MadeBy, MadeBefore, MadeUpTo
  <2>5. Linked(g, <<>>)
    BY <2>1 DEF Linked
  <2> QED BY <2>1, <2>3, <2>4, <2>5 DEF Partial
<1>5. 0 \in Good
  BY <1>1, <1>2, <1>4
<1>6. ASSUME NEW k \in 1 .. n, k - 1 \in Good PROVE k \in Good
  <2>1. Partial(g, k - 1, M[k - 1])
    BY <1>6
  <2>2. Partial(g, k, Joined(g, M[k - 1], partition(g)[k]))
    BY <2>1, JoinedPartial
  <2>3. M[k] = Joined(g, M[k - 1], partition(g)[k]) /\ k \in 0 .. n
    <3>1. k \in 0 .. n
      BY <1>1
    <3>2. M[k - 1] \in Seq(BlocksOf(g)) /\ M[k] = Joins(g)[<<M[k - 1], k>>]
      BY <1>2
    <3> HIDE DEF n
    <3>3. Joins(g)[<<M[k - 1], k>>] = Joined(g, M[k - 1], partition(g)[k])
      BY <1>3, <3>2
    <3> QED BY <3>1, <3>2, <3>3
  <2> QED BY <2>2, <2>3
<1>7. n \in Good
  <2> HIDE DEF Good
  <2>1. \A k \in 0 .. n : k \in Good
    BY <1>1, <1>5, <1>6, UpTo
  <2> QED BY <1>1, <2>1
<1> QED BY <1>1, <1>7 DEF partition_merged, M

(* The blocks of a graph whose operands have a source. *)
LEMMA FedComposes ==
  ASSUME Sound(graph), Fed(graph)
  PROVE  BlocksCompose
<1> DEFINE blocks == partition_merged(graph)
           order == TopoOrder(graph)
<1> SUFFICES /\ FlattenSeq(NamesOf(blocks)) = order
             /\ \A i \in DOMAIN blocks : \A t \in blocks[i].inputs :
                  \/ t \in ToSet(graph.inputs) \/ IsConstant(graph, t)
                  \/ t \in UNION {Made(graph, blocks[j].names) : j \in 1 .. i - 1}
  BY DEF BlocksCompose, NamesOf
<1>1. Partial(graph, Len(order), blocks)
  BY MergedPartial
<1>2. FlattenSeq(NamesOf(blocks)) = order
  <2>1. order \in Seq(NodeNames(graph))
    BY TopoOrders DEF Sound, Whole
  <2> QED BY <1>1, <2>1, SubSeqFull DEF Partial
<1>3. Linked(graph, blocks)
  BY <1>1 DEF Partial
<1> HIDE DEF blocks, order
<1> QED BY <1>2, <1>3 DEF Linked, Outside, MadeBefore

-------------------------------------------------------------------------------
(* Quantization leaves no layer out. *)

(* The order of an acyclic graph has all of its nodes. *)
LEMMA TopoComplete ==
  ASSUME NEW g, Dict(g.nodes), IsAcyclic(g)
  PROVE  ToSet(TopoOrder(g)) = NodeNames(g)
<1> DEFINE order == TopoOrder(g)
           n == Len(g.nodes)
           N == NodeNames(g)
           f == [i \in 1 .. n |-> g.nodes[i].name]
<1>1. /\ order \in Seq(N) /\ IsInjective(order) /\ Len(order) = n /\ n \in Nat
      /\ DOMAIN g.nodes = 1 .. n
  BY TopoOrders, DictMembers DEF IsAcyclic
<1>2. DOMAIN order = 1 .. n /\ \A i \in 1 .. n : order[i] \in N
  BY <1>1, LenProperties, ElementOfSeq
<1>3. IsFiniteSet(1 .. n) /\ Cardinality(1 .. n) = n
  <2>1. n \in Nat
    BY <1>1
  <2> HIDE DEF n
  <2>2. IsFiniteSet(1 .. n) /\ Cardinality(1 .. n) = IF 1 > n THEN 0 ELSE n - 1 + 1
    BY <2>1, FS_Interval
  <2> QED BY <2>1, <2>2
<1>4. IsFiniteSet(N) /\ Cardinality(N) <= n
  <2>1. f \in Surjection(1 .. n, N)
    BY <1>1 DEF NodeNames, Names, Surjection
  <2> QED BY <1>3, <2>1, FS_Surjection
<1> HIDE DEF order, N, n
<1>5. order \in Injection(1 .. n, N)
  <2>1. order \in [1 .. n -> N]
    BY <1>1, <1>2, LenProperties
  <2> QED BY <1>1, <1>2, <2>1 DEF Injection, IsInjective
<1>6. order \in Surjection(1 .. n, N)
  <2>1. n <= Cardinality(N)
    BY <1>3, <1>4, <1>5, FS_Injection
  <2>2. Cardinality(N) \in Nat
    BY <1>4, FS_CardinalityType
  <2>3. Cardinality(N) = Cardinality(1 .. n)
    BY <1>1, <1>3, <1>4, <2>1, <2>2 DEF n
  <2> QED BY <1>4, <1>5, <2>3, FS_Injection
<1>7. ToSet(order) = N
  BY <1>2, <1>6 DEF Surjection, ToSet
<1> QED BY <1>7 DEF order, N

(* A quantization pass has every node of its kind on its list. *)
LEMMA WorkListed ==
  ASSUME NEW g, Dict(g.nodes), IsAcyclic(g), NEW p \in Quantizing
  PROVE  /\ WorkList(p, g) \in Seq(NodeNames(g))
         /\ ToSet(WorkList(p, g)) = {n \in NodeNames(g) : NodeOf(g, n).op \in Kind[p]}
<1>1. TopoOrder(g) \in Seq(NodeNames(g)) /\ ToSet(TopoOrder(g)) = NodeNames(g)
  BY TopoOrders, TopoComplete
<1>2. WorkList(p, g) = Among(TopoOrder(g), {n \in NodeNames(g) : NodeOf(g, n).op \in Kind[p]})
  BY DEF WorkList, Quantizing
<1> QED BY <1>1, <1>2, AmongLists

(* What a quantization writes: types of weights and biases, in place. *)
Retyped(g, h, x) ==
  /\ DOMAIN g = GraphFields /\ DOMAIN h = GraphFields
  /\ DOMAIN h.tensors = DOMAIN g.tensors /\ h.inputs = g.inputs
  /\ \A t \in DOMAIN g.tensors :
       \/ h.tensors[t].dtype = g.tensors[t].dtype
       \/ t \in WeightsOf(x) /\ h.tensors[t].dtype = "int8"
       \/ t \in BiasesOf(x) /\ h.tensors[t].dtype = "int32"

LEMMA RetypedTwice ==
  ASSUME NEW f, NEW g, NEW h, NEW x, Retyped(f, g, x), Retyped(g, h, x)
  PROVE  Retyped(f, h, x)
BY DEF Retyped

LEMMA InUnitsTypes ==
  ASSUME NEW g, DOMAIN g = GraphFields, NEW t, NEW scale, NEW dtype
  PROVE  /\ DOMAIN InUnits(g, t, scale, dtype) = GraphFields
         /\ InUnits(g, t, scale, dtype).inputs = g.inputs
         /\ DOMAIN InUnits(g, t, scale, dtype).tensors = DOMAIN g.tensors
         /\ \A u \in DOMAIN g.tensors :
              InUnits(g, t, scale, dtype).tensors[u].dtype =
                IF u = t THEN dtype ELSE g.tensors[u].dtype
<1> DEFINE h == InUnits(g, t, scale, dtype)
<1>1. /\ DOMAIN h = GraphFields /\ h.inputs = g.inputs
      /\ h.tensors = [g.tensors EXCEPT ![t] = Divided(@, scale, dtype)]
  BY DEF InUnits, GraphFields
<1>2. Divided(g.tensors[t], scale, dtype).dtype = dtype
  BY DEF Divided
<1> HIDE DEF h
<1>3. /\ DOMAIN h.tensors = DOMAIN g.tensors
      /\ \A u \in DOMAIN g.tensors :
           h.tensors[u].dtype = IF u = t THEN dtype ELSE g.tensors[u].dtype
  BY <1>1, <1>2
<1> QED BY <1>1, <1>3 DEF h

LEMMA WeightRetypes ==
  ASSUME NEW g, DOMAIN g = GraphFields, NEW x, NEW t, t \in WeightsOf(x), NEW scale
  PROVE  Retyped(g, InUnits(g, t, scale, "int8"), x)
<1> DEFINE h == InUnits(g, t, scale, "int8")
<1>1. /\ DOMAIN h = GraphFields /\ DOMAIN h.tensors = DOMAIN g.tensors /\ h.inputs = g.inputs
      /\ \A u \in DOMAIN g.tensors :
           h.tensors[u].dtype = IF u = t THEN "int8" ELSE g.tensors[u].dtype
  BY InUnitsTypes
<1> HIDE DEF h
<1>2. Retyped(g, h, x)
  BY <1>1 DEF Retyped
<1> QED BY <1>2 DEF h

LEMMA BiasRetypes ==
  ASSUME NEW g, DOMAIN g = GraphFields, NEW x, NEW t, t \in BiasesOf(x), NEW scale
  PROVE  Retyped(g, InUnits(g, t, scale, "int32"), x)
<1> DEFINE h == InUnits(g, t, scale, "int32")
<1>1. /\ DOMAIN h = GraphFields /\ DOMAIN h.tensors = DOMAIN g.tensors /\ h.inputs = g.inputs
      /\ \A u \in DOMAIN g.tensors :
           h.tensors[u].dtype = IF u = t THEN "int32" ELSE g.tensors[u].dtype
  BY InUnitsTypes
<1> HIDE DEF h
<1>2. Retyped(g, h, x)
  BY <1>1 DEF Retyped
<1> QED BY <1>2 DEF h

LEMMA WithAttrsRetypes ==
  ASSUME NEW g, DOMAIN g = GraphFields, NEW x, NEW name, NEW attrs
  PROVE  /\ Retyped(g, WithAttrs(g, name, attrs), x)
         /\ WithAttrs(g, name, attrs).tensors = g.tensors
         /\ WithAttrs(g, name, attrs).nodes = AnnotatedIn(g.nodes, name, attrs)
<1>1. /\ DOMAIN WithAttrs(g, name, attrs) = GraphFields
      /\ WithAttrs(g, name, attrs).inputs = g.inputs
      /\ WithAttrs(g, name, attrs).tensors = g.tensors
      /\ WithAttrs(g, name, attrs).nodes = AnnotatedIn(g.nodes, name, attrs)
  BY DEF WithAttrs, GraphFields
<1> QED BY <1>1 DEF Retyped

LayerOps == LinearTypes \cup ConvTypes

(* A layer that is as it should be. *)
Fulfilled(g, x) ==
  /\ IsQuantized(x)
  /\ g.tensors[x.ins[2]].dtype = "int8"
  /\ Len(x.ins) > 2 => g.tensors[x.ins[3]].dtype = "int32"

(* Operands are tensors of the graph, and its nodes are in its order. *)
Arranged(g) == Sound(g) /\ Separate(g) /\ \A x \in ToSet(g.nodes) : x.ins \in Seq(DOMAIN g.tensors)

LEMMA LayerOperands ==
  ASSUME NEW g, Arranged(g), NEW x \in ToSet(g.nodes), x.op \in LayerOps
  PROVE  /\ x.ins[2] \in DOMAIN g.tensors /\ x.ins[2] \in WeightsOf(x)
         /\ Len(x.ins) > 2 => x.ins[3] \in DOMAIN g.tensors /\ x.ins[3] \in BiasesOf(x)
<1>1. x.ins \in Seq(DOMAIN g.tensors) /\ Len(x.ins) >= 2
  BY DEF Arranged, Separate, LayerOps
<1>2. Len(x.ins) \in Nat /\ DOMAIN x.ins = 1 .. Len(x.ins)
  BY <1>1, LenProperties
<1>3. 2 \in DOMAIN x.ins /\ x.ins[2] \in DOMAIN g.tensors
  <2>1. 2 \in 1 .. Len(x.ins)
    BY <1>1, <1>2
  <2> QED BY <1>1, <1>2, <2>1, ElementOfSeq
<1>4. Len(x.ins) > 2 => 3 \in DOMAIN x.ins /\ x.ins[3] \in DOMAIN g.tensors
  <2>1. Len(x.ins) > 2 => 3 \in 1 .. Len(x.ins)
    BY <1>2
  <2> QED BY <1>1, <1>2, <2>1, ElementOfSeq
<1> QED BY <1>3, <1>4 DEF WeightsOf, BiasesOf

(* What is as it should be stays so whatever else is quantized. *)
LEMMA FulfilledStays ==
  ASSUME NEW g, Arranged(g), NEW x \in ToSet(g.nodes), x.op \in LayerOps, Fulfilled(g, x),
         NEW y \in ToSet(g.nodes), y.op \in LayerOps \cup {"FusedAttention"},
         NEW h, Retyped(g, h, y)
  PROVE  Fulfilled(h, x)
<1>1. /\ x.ins[2] \in DOMAIN g.tensors /\ x.ins[2] \notin BiasesOf(y)
      /\ Len(x.ins) > 2 => x.ins[3] \in DOMAIN g.tensors /\ x.ins[3] \notin WeightsOf(y)
  BY LayerOperands DEF Arranged, Separate, LayerOps
<1> QED BY <1>1 DEF Fulfilled, Retyped

(* The visit of a layer. *)
LEMMA LayerQuantized ==
  ASSUME NEW g, Arranged(g), NEW x \in ToSet(g.nodes), x.op \in LayerOps,
         NEW xq, xq # <<>>, NEW yq, yq # <<>>
  PROVE  /\ Retyped(g, QuantizedLayer(g, x, xq, yq), x)
         /\ \E attrs : /\ QuantizedLayer(g, x, xq, yq).nodes = AnnotatedIn(g.nodes, x.name, attrs)
                       /\ Fulfilled(QuantizedLayer(g, x, xq, yq), Annotated(x, attrs))
                       /\ attrs.xq = xq /\ attrs.yq = yq
<1> DEFINE ws == WeightScale(g.tensors[x.ins[2]].raw)
           h  == InUnits(g, x.ins[2], ws, "int8")
           b  == IF Len(x.ins) > 2 THEN InUnits(h, x.ins[3], Accumulated(ws, xq), "int32") ELSE h
           attrs == [x.attrs EXCEPT !.ws = <<ws>>, !.xq = xq, !.yq = yq]
           q  == QuantizedLayer(g, x, xq, yq)
<1>1. /\ x.ins[2] \in DOMAIN g.tensors /\ x.ins[2] \in WeightsOf(x)
      /\ Len(x.ins) > 2 => /\ x.ins[3] \in DOMAIN g.tensors /\ x.ins[3] \in BiasesOf(x)
                           /\ x.ins[3] # x.ins[2]
  BY LayerOperands DEF Arranged, Separate, LayerOps
<1>2. DOMAIN g = GraphFields /\ IsNode(x) /\ Dict(g.nodes)
  BY DEF Arranged, Sound, Whole, Dict, ToSet
<1>3. /\ Retyped(g, h, x) /\ h.tensors[x.ins[2]].dtype = "int8" /\ h.nodes = g.nodes
      /\ DOMAIN h = GraphFields /\ DOMAIN h.tensors = DOMAIN g.tensors
  <2>1. Retyped(g, h, x)
    BY <1>1, <1>2, WeightRetypes
  <2>3. h.tensors[x.ins[2]].dtype = "int8"
    BY <1>1, <1>2, InUnitsTypes
  <2>2. h.nodes = g.nodes
    BY InUnitsSound DEF Arranged
  <2> HIDE DEF h
  <2> QED BY <2>1, <2>2, <2>3 DEF Retyped
<1>4. Sound(h)
  BY InUnitsSound DEF Arranged
<1> HIDE DEF h
<1>5. /\ Retyped(g, b, x) /\ b.nodes = g.nodes /\ DOMAIN b = GraphFields
      /\ b.tensors[x.ins[2]].dtype = "int8"
      /\ Len(x.ins) > 2 => b.tensors[x.ins[3]].dtype = "int32"
  <2>1. CASE Len(x.ins) > 2
    <3> DEFINE c == InUnits(h, x.ins[3], Accumulated(ws, xq), "int32")
    <3>6. Retyped(h, c, x)
      BY <1>1, <1>3, <2>1, BiasRetypes
    <3>1. \A u \in DOMAIN h.tensors :
            c.tensors[u].dtype = IF u = x.ins[3] THEN "int32" ELSE h.tensors[u].dtype
      BY <1>3, InUnitsTypes
    <3>2. c.nodes = g.nodes
      BY <1>3, <1>4, InUnitsSound
    <3> HIDE DEF c
    <3>3. Retyped(g, c, x) /\ DOMAIN c = GraphFields
      BY <1>3, <3>6, RetypedTwice DEF Retyped
    <3>4. c.tensors[x.ins[2]].dtype = "int8" /\ c.tensors[x.ins[3]].dtype = "int32"
      BY <1>1, <1>3, <2>1, <3>1
    <3>5. b = c
      BY <2>1 DEF c
    <3> QED BY <3>2, <3>3, <3>4, <3>5
  <2>2. CASE ~(Len(x.ins) > 2)
    BY <1>3, <2>2
  <2> QED BY <2>1, <2>2
<1>6. q = WithAttrs(b, x.name, attrs)
  BY DEF QuantizedLayer, h
<1>7. attrs.ws # <<>> /\ attrs.xq # <<>> /\ attrs.yq # <<>> /\ attrs.xq = xq /\ attrs.yq = yq
  <2>1. attrs.ws = <<ws>> /\ attrs.xq = xq /\ attrs.yq = yq
    BY <1>2 DEF IsNode, AttrFields
  <2> QED BY <2>1
<1> HIDE DEF b, attrs, q, ws
<1>8. Retyped(b, q, x) /\ q.tensors = b.tensors /\ q.nodes = AnnotatedIn(g.nodes, x.name, attrs)
  BY <1>5, <1>6, WithAttrsRetypes
<1>9. Retyped(g, q, x)
  BY <1>5, <1>8, RetypedTwice
<1>10. Fulfilled(q, Annotated(x, attrs))
  <2>1. Annotated(x, attrs).ins = x.ins /\ Annotated(x, attrs).attrs = attrs
    BY DEF Annotated
  <2> QED BY <1>5, <1>7, <1>8, <2>1 DEF Fulfilled, IsQuantized
<1> QED BY <1>7, <1>8, <1>9, <1>10 DEF q

(* The visit of an attention. *)
LEMMA AttentionQuantized ==
  ASSUME NEW g, Arranged(g), NEW x \in ToSet(g.nodes), NEW r
  PROVE  /\ Retyped(g, quantize_attention(g, x, r), x)
         /\ \E attrs : quantize_attention(g, x, r).nodes = AnnotatedIn(g.nodes, x.name, attrs)
<1>1. /\ x.ins \in Seq(DOMAIN g.tensors) /\ Len(x.ins) \in Nat
      /\ DOMAIN x.ins = 1 .. Len(x.ins)
  BY LenProperties DEF Arranged
<1> DEFINE Kept(h) == Sound(h) /\ Retyped(g, h, x) /\ h.nodes = g.nodes
<1>2. ASSUME NEW h, Kept(h), NEW t, NEW scale
      PROVE  /\ t \in WeightsOf(x) => Kept(InUnits(h, t, scale, "int8"))
             /\ t \in BiasesOf(x) => Kept(InUnits(h, t, scale, "int32"))
  <2>1. DOMAIN h = GraphFields
    BY <1>2 DEF Retyped
  <2>2. \A dtype : /\ Sound(InUnits(h, t, scale, dtype))
                   /\ InUnits(h, t, scale, dtype).nodes = g.nodes
    BY <1>2, InUnitsSound
  <2>3. ASSUME t \in WeightsOf(x)
        PROVE  Kept(InUnits(h, t, scale, "int8"))
    <3>1. Retyped(h, InUnits(h, t, scale, "int8"), x)
      BY <2>1, <2>3, WeightRetypes
    <3>2. Retyped(g, InUnits(h, t, scale, "int8"), x)
      BY <1>2, <3>1, RetypedTwice
    <3> QED BY <2>2, <3>2
  <2>4. ASSUME t \in BiasesOf(x)
        PROVE  Kept(InUnits(h, t, scale, "int32"))
    <3>1. Retyped(h, InUnits(h, t, scale, "int32"), x)
      BY <2>1, <2>4, BiasRetypes
    <3>2. Retyped(g, InUnits(h, t, scale, "int32"), x)
      BY <1>2, <3>1, RetypedTwice
    <3> QED BY <2>2, <3>2
  <2> QED BY <2>3, <2>4
<1>3. ASSUME NEW h, Kept(h.g), NEW xq, NEW i \in 1 .. 4
      PROVE  Kept(QuantizedProjection(x, xq, h, i).g)
  <2> DEFINE w  == x.ins[2 * i]
             ws == WeightScale(h.g.tensors[w].raw)
             hw == InUnits(h.g, w, ws, "int8")
             b  == IF 2 * i + 1 <= Len(x.ins) THEN x.ins[2 * i + 1] ELSE Nowhere
             p  == QuantizedProjection(x, xq, h, i)
  <2>1. CASE 2 * i > Len(x.ins) \/ ~IsConstant(h.g, w)
    <3>1. p = h
      BY <2>1 DEF QuantizedProjection
    <3> QED BY <1>3, <3>1
  <2>2. CASE ~(2 * i > Len(x.ins) \/ ~IsConstant(h.g, w))
    <3>1. w \in WeightsOf(x)
      <4>1. 2 * i \in 1 .. Len(x.ins) /\ 2 * i \in {2, 4, 6, 8}
        BY <1>1, <2>2
      <4> QED BY <1>1, <4>1 DEF WeightsOf
    <3>2. Kept(hw)
      BY <1>2, <1>3, <3>1
    <3>3. 2 * i + 1 <= Len(x.ins) => x.ins[2 * i + 1] \in BiasesOf(x)
      <4>1. 2 * i + 1 <= Len(x.ins) =>
              2 * i + 1 \in 1 .. Len(x.ins) /\ 2 * i + 1 \in {3, 5, 7, 9}
        BY <1>1
      <4> QED BY <1>1, <4>1 DEF BiasesOf
    <3>4. p.g = IF b # Nowhere /\ IsConstant(hw, b) /\ hw.tensors[b].dtype # "int32"
                THEN InUnits(hw, b, Accumulated(ws, xq), "int32") ELSE hw
      BY <2>2 DEF QuantizedProjection
    <3> HIDE DEF p, hw, ws, Kept
    <3>5. CASE b # Nowhere
      <4>1. b \in BiasesOf(x)
        BY <3>3, <3>5
      <4>2. Kept(InUnits(hw, b, Accumulated(ws, xq), "int32"))
        BY <1>2, <3>2, <4>1
      <4> QED BY <3>2, <3>4, <4>2 DEF p
    <3>6. CASE b = Nowhere
      BY <3>2, <3>4, <3>6 DEF p
    <3> QED BY <3>5, <3>6
  <2> QED BY <2>1, <2>2
<1>4. Kept(g)
  BY DEF Arranged, Sound, Whole, Retyped
<1>5. \A xq : Kept(QuantizedProjections(g, x, xq).g)
  <2> HIDE DEF Kept
  <2> QED BY <1>3, <1>4 DEF QuantizedProjections
<1> DEFINE done == QuantizedProjections(g, x, RangeOf(r, x.ins[1]))
           attrs == [x.attrs EXCEPT !.ws = done.ws, !.xq = RangeOf(r, x.ins[1]),
                                    !.yq = RangeOf(r, x.out)]
           q == quantize_attention(g, x, r)
<1>6. Kept(done.g) /\ q = WithAttrs(done.g, x.name, attrs)
  BY <1>5 DEF quantize_attention
<1> HIDE DEF done, attrs, q
<1>7. Retyped(done.g, q, x) /\ q.nodes = AnnotatedIn(g.nodes, x.name, attrs)
  <2>1. DOMAIN done.g = GraphFields
    BY <1>6 DEF Retyped
  <2> QED BY <1>6, <2>1, WithAttrsRetypes
<1>8. Retyped(g, q, x)
  BY <1>6, <1>7, RetypedTwice
<1> QED BY <1>7, <1>8 DEF q

(* The nodes of a graph of which one has been annotated. *)
LEMMA AnnotatedNodes ==
  ASSUME NEW nodes, Dict(nodes), NEW x \in ToSet(nodes), NEW attrs
  PROVE  /\ Names(AnnotatedIn(nodes, x.name, attrs)) = Names(nodes)
         /\ \A y \in ToSet(AnnotatedIn(nodes, x.name, attrs)) :
              \/ y \in ToSet(nodes) /\ y.name # x.name
              \/ y = Annotated(x, attrs)
         /\ \A y \in ToSet(nodes) : \E z \in ToSet(AnnotatedIn(nodes, x.name, attrs)) :
              z.name = y.name /\ z.op = y.op
<1> DEFINE new == AnnotatedIn(nodes, x.name, attrs)
<1>1. PICK k \in DOMAIN nodes : x = nodes[k]
  BY DEF ToSet
<1>2. /\ DOMAIN new = DOMAIN nodes
      /\ \A i \in DOMAIN nodes :
           new[i] = IF nodes[i].name = x.name THEN Annotated(nodes[i], attrs) ELSE nodes[i]
  BY DEF AnnotatedIn
<1> HIDE DEF new
<1>3. \A i \in DOMAIN nodes : new[i].name = nodes[i].name /\ new[i].op = nodes[i].op
  <2>1. \A y : Annotated(y, attrs).name = y.name /\ Annotated(y, attrs).op = y.op
    BY DEF Annotated
  <2> QED BY <1>2, <2>1
<1>4. \A i \in DOMAIN nodes : nodes[i].name = x.name => nodes[i] = x
  BY <1>1 DEF Dict
<1>5. Names(new) = Names(nodes)
  BY <1>2, <1>3 DEF Names
<1>6. \A y \in ToSet(new) : \/ y \in ToSet(nodes) /\ y.name # x.name
                           \/ y = Annotated(x, attrs)
  BY <1>2, <1>4 DEF ToSet
<1>7. \A y \in ToSet(nodes) : \E z \in ToSet(new) : z.name = y.name /\ z.op = y.op
  BY <1>2, <1>3 DEF ToSet
<1> QED BY <1>5, <1>6, <1>7 DEF new

LEMMA TailLists ==
  ASSUME NEW S, NEW s \in Seq(S), s # <<>>
  PROVE  /\ Head(s) \in S /\ Tail(s) \in Seq(S)
         /\ ToSet(s) = {Head(s)} \cup ToSet(Tail(s))
         /\ 1 \in DOMAIN s /\ s[1] = Head(s)
         /\ \A i \in DOMAIN Tail(s) : /\ i + 1 \in DOMAIN s /\ i \in Nat \ {0}
                                      /\ Tail(s)[i] = s[i + 1]
<1> DEFINE t == Tail(s)
<1>1. /\ t \in Seq(S) /\ Len(t) = Len(s) - 1 /\ Len(s) \in Nat \ {0}
      /\ \A i \in 1 .. Len(t) : t[i] = s[i + 1]
  BY HeadTailProperties, LenProperties, EmptySeq
<1>2. DOMAIN s = 1 .. Len(s) /\ DOMAIN t = 1 .. Len(s) - 1 /\ Head(s) = s[1]
  BY <1>1, LenProperties
<1> HIDE DEF t
<1>3. \A i \in DOMAIN t : i + 1 \in DOMAIN s \ {1} /\ t[i] = s[i + 1] /\ i \in Nat \ {0}
  BY <1>1, <1>2
<1>4. \A i \in DOMAIN s \ {1} : i - 1 \in DOMAIN t /\ t[i - 1] = s[i]
  BY <1>1, <1>2
<1>5. 1 \in DOMAIN s
  BY <1>1, <1>2
<1>6. ToSet(s) = {s[1]} \cup ToSet(t)
  <2>1. ASSUME NEW i \in DOMAIN s PROVE s[i] \in {s[1]} \cup ToSet(t)
    BY <1>4 DEF ToSet
  <2>2. s[1] \in ToSet(s) /\ ToSet(t) \subseteq ToSet(s)
    BY <1>3, <1>5 DEF ToSet
  <2> QED BY <2>1, <2>2 DEF ToSet
<1>7. Head(s) \in S
  BY <1>2, <1>5, ElementOfSeq
<1> QED BY <1>1, <1>2, <1>3, <1>5, <1>6, <1>7 DEF t

(* After a quantization come only quantizations, and other ones. *)
QuantizingLast(seq) ==
  /\ seq \in Seq(ToSet(seq))
  /\ \A i, j \in DOMAIN seq :
       i < j /\ seq[i] \in Quantizing => seq[j] \in Quantizing \ {seq[i]}

LEMMA LastTail ==
  ASSUME NEW seq, QuantizingLast(seq), seq # <<>>
  PROVE  /\ QuantizingLast(Tail(seq))
         /\ Head(seq) \in Quantizing => ToSet(Tail(seq)) \subseteq Quantizing \ {Head(seq)}
         /\ ToSet(seq) = {Head(seq)} \cup ToSet(Tail(seq))
<1>1. seq \in Seq(ToSet(seq))
  BY DEF QuantizingLast
<1> DEFINE t == Tail(seq)
<1>2. /\ t \in Seq(ToSet(seq)) /\ ToSet(seq) = {Head(seq)} \cup ToSet(t)
      /\ 1 \in DOMAIN seq /\ seq[1] = Head(seq)
      /\ \A i \in DOMAIN t : i + 1 \in DOMAIN seq /\ i \in Nat \ {0} /\ t[i] = seq[i + 1]
  BY <1>1, TailLists
<1> HIDE DEF t
<1>3. QuantizingLast(t)
  <2>1. ASSUME NEW i \in DOMAIN t, NEW j \in DOMAIN t, i < j, t[i] \in Quantizing
        PROVE  t[j] \in Quantizing \ {t[i]}
    <3>1. /\ i + 1 \in DOMAIN seq /\ j + 1 \in DOMAIN seq /\ i + 1 < j + 1
          /\ t[i] = seq[i + 1] /\ t[j] = seq[j + 1]
      BY <1>2, <2>1
    <3> QED BY <2>1, <3>1 DEF QuantizingLast
  <2> QED BY <1>2, <2>1, ListIsSeq DEF QuantizingLast
<1>4. ASSUME seq[1] \in Quantizing, NEW i \in DOMAIN t PROVE t[i] \in Quantizing \ {seq[1]}
  <2>1. i + 1 \in DOMAIN seq /\ 1 < i + 1 /\ t[i] = seq[i + 1]
    BY <1>2
  <2> QED BY <1>2, <1>4, <2>1 DEF QuantizingLast
<1>5. Head(seq) \in Quantizing => ToSet(t) \subseteq Quantizing \ {Head(seq)}
  BY <1>2, <1>4 DEF ToSet
<1> QED BY <1>2, <1>3, <1>5 DEF t

LEMMA LastConcat ==
  ASSUME NEW s, QuantizingLast(s), NEW r, QuantizingLast(r),
         ToSet(s) \cap Quantizing = {} \/ ToSet(r) \subseteq Quantizing \ ToSet(s)
  PROVE  QuantizingLast(s \o r) /\ ToSet(s \o r) = ToSet(s) \cup ToSet(r)
<1> DEFINE U == ToSet(s) \cup ToSet(r)
           c == s \o r
<1>1. /\ s \in Seq(U) /\ DOMAIN s = 1 .. Len(s) /\ Len(s) \in Nat
      /\ r \in Seq(U) /\ DOMAIN r = 1 .. Len(r) /\ Len(r) \in Nat
  BY LenProperties, SeqMonotonic DEF QuantizingLast
<1>2. /\ c \in Seq(U) /\ DOMAIN c = 1 .. Len(s) + Len(r)
      /\ \A i \in 1 .. Len(s) + Len(r) :
           c[i] = IF i <= Len(s) THEN s[i] ELSE r[i - Len(s)]
  BY <1>1, ConcatProperties, LenProperties
<1> HIDE DEF c
<1>3. \A i \in DOMAIN c :
        \/ i <= Len(s) /\ i \in DOMAIN s /\ c[i] = s[i]
        \/ i > Len(s) /\ i - Len(s) \in DOMAIN r /\ c[i] = r[i - Len(s)]
  BY <1>1, <1>2
<1>5. ToSet(c) = U
  BY <1>1, ConcatMembers DEF c
<1>6. ASSUME NEW i \in DOMAIN c, NEW j \in DOMAIN c, i < j, c[i] \in Quantizing
      PROVE  c[j] \in Quantizing \ {c[i]}
  <2>1. i \in Nat /\ j \in Nat
    BY <1>1, <1>2
  <2>2. CASE j <= Len(s)
    <3>1. /\ i \in DOMAIN s /\ c[i] = s[i] /\ j \in DOMAIN s /\ c[j] = s[j]
      BY <1>1, <1>3, <1>6, <2>1, <2>2
    <3> QED BY <1>6, <3>1 DEF QuantizingLast
  <2>3. CASE i > Len(s)
    <3>1. /\ i - Len(s) \in DOMAIN r /\ c[i] = r[i - Len(s)]
          /\ j - Len(s) \in DOMAIN r /\ c[j] = r[j - Len(s)]
          /\ i - Len(s) < j - Len(s)
      BY <1>1, <1>3, <1>6, <2>1, <2>3
    <3> QED BY <1>6, <3>1 DEF QuantizingLast
  <2>4. CASE i <= Len(s) /\ j > Len(s)
    <3>1. c[i] \in ToSet(s) /\ c[j] \in ToSet(r)
      BY <1>1, <1>3, <2>1, <2>4 DEF ToSet
    <3> QED BY <1>6, <3>1
  <2> QED BY <1>1, <2>1, <2>2, <2>3, <2>4
<1>7. c \in Seq(ToSet(c))
  BY <1>2, <1>5
<1> QED BY <1>5, <1>6, <1>7 DEF QuantizingLast, c

(* A list of names none of which is a quantization, or of a single name. *)
LEMMA AlikeOrdered ==
  ASSUME NEW n \in Nat, NEW seq, seq = [i \in 1 .. n |-> seq[i]],
         \/ \A i \in 1 .. n : seq[i] \notin Quantizing
         \/ n = 1
  PROVE  QuantizingLast(seq)
<1>1. DOMAIN seq = 1 .. n
  OBVIOUS
<1>2. \A i \in 1 .. n : seq[i] \in ToSet(seq)
  BY <1>1 DEF ToSet
<1>3. seq \in Seq(ToSet(seq))
  BY <1>2, IsASeq
<1> QED BY <1>1, <1>3 DEF QuantizingLast

(* The lists of passes that there are. *)
LEMMA PlansOrdered ==
  /\ QuantizingLast(Structural)
  /\ QuantizingLast(<<"DeadCodeElimination">> \o QuantPasses("transformer"))
  /\ {"ConvQuantization", "Quantization"}
       \subseteq ToSet(<<"DeadCodeElimination">> \o QuantPasses("transformer"))
  /\ \A a \in {"mlp", "cnn", "transformer"} :
       /\ QuantizingLast(QuantPasses(a))
       /\ "Quantization" \in ToSet(QuantPasses(a))
       /\ (a = "mlp") = ("ConvQuantization" \notin ToSet(QuantPasses(a)))
       /\ a = "mlp" => ToSet(QuantPasses(a)) \subseteq Quantizing
<1> DEFINE linear   == <<"Quantization">>
           conv     == <<"ConvQuantization">>
           dead     == <<"DeadCodeElimination">>
           blocks   == <<"LayerNormFusion", "FuseSiLU", "FuseGELU", "AttentionFusion", "FusedMLP",
                         "ConvQuantization", "AttentionQuantization">>
<1>1. /\ QuantPasses("mlp") = <<>> \o linear
      /\ QuantPasses("cnn") = conv \o linear
      /\ QuantPasses("transformer") = blocks \o linear
  BY DEF QuantPasses
<1>2. QuantizingLast(Structural)
  <2>1. Structural = [i \in 1 .. 7 |-> Structural[i]]
    BY DEF Structural
  <2>2. /\ Structural[1] = "ConstantFolding" /\ Structural[2] = "DeadCodeElimination"
        /\ Structural[3] = "BatchNormFolding" /\ Structural[4] = "ConvBatchNormFolding"
        /\ Structural[5] = "DeadCodeElimination" /\ Structural[6] = "ConvFusion"
        /\ Structural[7] = "OperatorFusion"
    BY DEF Structural
  <2>3. \A i \in 1 .. 7 : i = 1 \/ i = 2 \/ i = 3 \/ i = 4 \/ i = 5 \/ i = 6 \/ i = 7
    OBVIOUS
  <2>4. \A i \in 1 .. 7 : Structural[i] \notin Quantizing
    BY <2>2, <2>3 DEF Quantizing
  <2> HIDE DEF Structural
  <2> QED BY <2>1, <2>4, AlikeOrdered
<1>3. QuantizingLast(linear) /\ ToSet(linear) = {"Quantization"}
  <2>1. linear = [i \in 1 .. 1 |-> linear[i]] /\ linear[1] = "Quantization"
    OBVIOUS
  <2>2. ToSet(linear) = {"Quantization"}
    BY DEF ToSet
  <2> HIDE DEF linear
  <2> QED BY <2>1, <2>2, AlikeOrdered
<1>4. QuantizingLast(conv) /\ ToSet(conv) = {"ConvQuantization"}
  <2>1. conv = [i \in 1 .. 1 |-> conv[i]] /\ conv[1] = "ConvQuantization"
    OBVIOUS
  <2>2. ToSet(conv) = {"ConvQuantization"}
    BY DEF ToSet
  <2> HIDE DEF conv
  <2> QED BY <2>1, <2>2, AlikeOrdered
<1>5. QuantizingLast(dead) /\ ToSet(dead) = {"DeadCodeElimination"}
  <2>1. dead = [i \in 1 .. 1 |-> dead[i]] /\ dead[1] = "DeadCodeElimination"
    OBVIOUS
  <2>2. ToSet(dead) = {"DeadCodeElimination"}
    BY DEF ToSet
  <2>3. \A i \in 1 .. 1 : dead[i] \notin Quantizing
    BY <2>1 DEF Quantizing
  <2> HIDE DEF dead
  <2> QED BY <2>1, <2>2, <2>3, AlikeOrdered
<1>6. /\ QuantizingLast(blocks)
      /\ "ConvQuantization" \in ToSet(blocks) /\ "Quantization" \notin ToSet(blocks)
  <2>1. /\ blocks \in Seq(ToSet(blocks)) /\ DOMAIN blocks = 1 .. 7
        /\ "ConvQuantization" \in ToSet(blocks)
    <3>1. blocks = [i \in 1 .. 7 |-> blocks[i]] /\ blocks[6] = "ConvQuantization"
      OBVIOUS
    <3> HIDE DEF blocks
    <3>2. DOMAIN blocks = 1 .. 7
      BY <3>1
    <3>3. \A i \in 1 .. 7 : blocks[i] \in ToSet(blocks)
      BY <3>2 DEF ToSet
    <3> QED BY <3>1, <3>2, <3>3, IsASeq DEF ToSet
  <2>2. /\ blocks[1] = "LayerNormFusion" /\ blocks[2] = "FuseSiLU" /\ blocks[3] = "FuseGELU"
        /\ blocks[4] = "AttentionFusion" /\ blocks[5] = "FusedMLP"
        /\ blocks[6] = "ConvQuantization" /\ blocks[7] = "AttentionQuantization"
    OBVIOUS
  <2> HIDE DEF blocks
  <2>3. ASSUME NEW i \in 1 .. 7, blocks[i] \in Quantizing PROVE i = 6 \/ i = 7
    <3>1. i = 1 \/ i = 2 \/ i = 3 \/ i = 4 \/ i = 5 \/ i = 6 \/ i = 7
      OBVIOUS
    <3> QED BY <2>2, <2>3, <3>1 DEF Quantizing
  <2>4. ASSUME NEW i \in 1 .. 7, NEW j \in 1 .. 7, i < j, blocks[i] \in Quantizing
        PROVE  blocks[j] \in Quantizing \ {blocks[i]}
    <3>1. i = 6 /\ j = 7
      BY <2>3, <2>4
    <3> QED BY <2>2, <3>1 DEF Quantizing
  <2>5. "Quantization" \notin ToSet(blocks)
    <3>1. ASSUME NEW i \in 1 .. 7 PROVE blocks[i] # "Quantization"
      BY <2>2, <2>3 DEF Quantizing
    <3> QED BY <2>1, <3>1 DEF ToSet
  <2> QED BY <2>1, <2>4, <2>5 DEF QuantizingLast
<1>7. QuantizingLast(QuantPasses("mlp")) /\ ToSet(QuantPasses("mlp")) = {"Quantization"}
  <2>1. QuantPasses("mlp") = linear
    BY <1>1
  <2> QED BY <1>3, <2>1
<1> HIDE DEF linear, conv, dead, blocks
<1>8. /\ QuantizingLast(QuantPasses("cnn"))
      /\ ToSet(QuantPasses("cnn")) = {"ConvQuantization", "Quantization"}
  <2>1. ToSet(linear) \subseteq Quantizing \ ToSet(conv)
    BY <1>3, <1>4 DEF Quantizing
  <2>2. /\ QuantizingLast(conv \o linear)
        /\ ToSet(conv \o linear) = ToSet(conv) \cup ToSet(linear)
    BY <1>3, <1>4, <2>1, LastConcat
  <2>3. QuantPasses("cnn") = conv \o linear
    BY <1>1
  <2> QED BY <1>3, <1>4, <2>2, <2>3, Zenon
<1>9. /\ QuantizingLast(QuantPasses("transformer"))
      /\ {"ConvQuantization", "Quantization"} \subseteq ToSet(QuantPasses("transformer"))
  <2>1. ToSet(linear) \subseteq Quantizing \ ToSet(blocks)
    BY <1>3, <1>6 DEF Quantizing
  <2>2. /\ QuantizingLast(blocks \o linear)
        /\ ToSet(blocks \o linear) = ToSet(blocks) \cup ToSet(linear)
    BY <1>3, <1>6, <2>1, LastConcat
  <2>3. QuantPasses("transformer") = blocks \o linear
    BY <1>1
  <2> QED BY <1>3, <1>6, <2>2, <2>3, Zenon
<1>10. /\ QuantizingLast(dead \o QuantPasses("transformer"))
       /\ {"ConvQuantization", "Quantization"} \subseteq ToSet(dead \o QuantPasses("transformer"))
  <2>1. ToSet(dead) \cap Quantizing = {}
    BY <1>5 DEF Quantizing
  <2> DEFINE q == QuantPasses("transformer")
  <2>2. QuantizingLast(q) /\ {"ConvQuantization", "Quantization"} \subseteq ToSet(q)
    BY <1>9
  <2> HIDE DEF q
  <2>3. QuantizingLast(dead \o q) /\ ToSet(dead \o q) = ToSet(dead) \cup ToSet(q)
    BY <1>5, <2>1, <2>2, LastConcat
  <2> QED BY <2>2, <2>3 DEF q
<1>11. ASSUME NEW a \in {"mlp", "cnn", "transformer"}
       PROVE  /\ QuantizingLast(QuantPasses(a))
              /\ "Quantization" \in ToSet(QuantPasses(a))
              /\ (a = "mlp") = ("ConvQuantization" \notin ToSet(QuantPasses(a)))
              /\ a = "mlp" => ToSet(QuantPasses(a)) \subseteq Quantizing
  <2>1. CASE a = "mlp"
    BY <1>7, <2>1 DEF Quantizing
  <2>2. CASE a = "cnn"
    BY <1>8, <2>2
  <2>3. CASE a = "transformer"
    BY <1>9, <2>3
  <2> QED BY <2>1, <2>2, <2>3
<1> QED BY <1>2, <1>10, <1>11 DEF dead
-------------------------------------------------------------------------------
(* The pass that is to quantize a layer. *)
Due(x) == IF x.op \in ConvTypes THEN "ConvQuantization" ELSE "Quantization"

(* Once the quantization of layers has begun, or for a graph without          *)
(* convolutions once the architecture is known, only quantizations are left.  *)
PlanInv ==
  /\ QuantizingLast(passes)
  /\ pass \in Quantizing => ToSet(passes) \subseteq Quantizing \ {pass}
  /\ arch # "unknown" =>
       \/ {"ConvQuantization", "Quantization"} \subseteq ToSet(passes)
       \/ ToSet(passes) \subseteq Quantizing /\ pass \in Quantizing \cup {"none"}
  /\ arch = "mlp" => /\ "ConvQuantization" \notin ToSet(passes)
                     /\ \A x \in ToSet(graph.nodes) : x.op \in LinearTypes
  /\ status = "done" => pass = "none" /\ passes = <<>> /\ arch # "unknown"

(* What a quantization pass has calibrated, and the nodes it is to visit. *)
WorkInv ==
  pass \in Quantizing =>
    /\ DOMAIN ranges = DOMAIN graph.tensors
    /\ \A t \in DOMAIN ranges : ranges[t] # <<>>
    /\ todo \in Seq(NodeNames(graph))
    /\ \A n \in ToSet(todo) : \E x \in ToSet(graph.nodes) : x.name = n /\ x.op \in Kind[pass]

(* Every layer is quantized, or the pass under way will come to it, or its pass *)
(* is still to come.                                                       *)
DueInv ==
  arch # "unknown" =>
    \A x \in ToSet(graph.nodes) : x.op \in LayerOps =>
      \/ Due(x) \in ToSet(passes)
      \/ pass = Due(x) /\ x.name \in ToSet(todo)
      \/ Fulfilled(graph, x)

StageInv == PlanInv /\ WorkInv /\ DueInv

LEMMA InitStageInv == Init => StageInv
<1> SUFFICES ASSUME Init PROVE StageInv
  OBVIOUS
<1>1. pass = "none" /\ status = "running" /\ "none" \notin Quantizing
  BY DEF Init, Quantizing
<1>2. PICK m \in Managers :
        /\ passes = (IF m = "cli" THEN Structural
                     ELSE <<"DeadCodeElimination">> \o QuantPasses(m))
        /\ arch = (IF m = "cli" THEN "unknown" ELSE m)
  BY DEF Init
<1>3. CASE m = "cli"
  <2>1. passes = Structural /\ arch = "unknown"
    BY <1>2, <1>3
  <2> QED BY <1>1, <2>1, PlansOrdered DEF StageInv, PlanInv, WorkInv, DueInv
<1>4. CASE m # "cli"
  <2>1. m = "transformer"
    BY <1>4, PipelineAssumption
  <2>2. passes = <<"DeadCodeElimination">> \o QuantPasses("transformer") /\ arch = "transformer"
    BY <1>2, <2>1
  <2>3. /\ QuantizingLast(passes)
        /\ {"ConvQuantization", "Quantization"} \subseteq ToSet(passes)
    BY <2>2, PlansOrdered, Zenon
  <2>4. \A x : Due(x) \in ToSet(passes)
    BY <2>3 DEF Due
  <2> QED BY <1>1, <2>2, <2>3, <2>4 DEF StageInv, PlanInv, WorkInv, DueInv
<1> QED BY <1>3, <1>4

(* Calibration gives every tensor a range. *)
LEMMA CalibrateRanges ==
  ASSUME NEW g
  PROVE  /\ DOMAIN Calibrate(g) = DOMAIN g.tensors
         /\ \A t \in DOMAIN Calibrate(g) : Calibrate(g)[t] # <<>>
<1> DEFINE all == [x \in Samples |-> run_all(g, x)]
<1>1. Calibrate(g) = [t \in DOMAIN g.tensors |->
                        <<Min({all[x][t] : x \in Samples}), Max({all[x][t] : x \in Samples})>>]
  BY DEF Calibrate
<1> HIDE DEF all
<1>2. \A a, b : <<a, b>> # <<>>
  OBVIOUS
<1> QED BY <1>1, <1>2

(* Nodes that make the same tensor are one, where the tensor has one maker.     *)
LEMMA SoleProducer ==
  ASSUME CacheInv, NEW x \in ToSet(graph.nodes), NEW z \in ToSet(graph.nodes), z.out = x.out,
         Cardinality(get_producers(graph, x.out)) \in {0, 1}
  PROVE  z = x
<1> DEFINE makers == get_producers(graph, x.out)
           N == ToSet(graph.nodes)
<1>1. IsFiniteSet(N)
  <2> DEFINE n == Len(graph.nodes)
             f == [i \in 1 .. n |-> graph.nodes[i]]
  <2>1. DOMAIN graph.nodes = 1 .. n /\ n \in Nat
    BY DictMembers DEF CacheInv, Sound, Whole
  <2>2. f \in Surjection(1 .. n, N)
    BY <2>1 DEF ToSet, Surjection
  <2> HIDE DEF f, n, N
  <2>3. IsFiniteSet(1 .. n)
    BY <2>1, FS_Interval
  <2> QED BY <2>2, <2>3, FS_Surjection
<1>2. IsFiniteSet(makers) /\ x \in makers /\ z \in makers
  <2>1. makers \subseteq N /\ x \in makers /\ z \in makers
    BY DEF get_producers
  <2> QED BY <1>1, <2>1, FS_Subset
<1> HIDE DEF makers
<1>3. Cardinality(makers) = 1
  BY <1>2, FS_EmptySet DEF makers
<1>4. PICK p : makers = {p}
  BY <1>2, <1>3, FS_Singleton
<1> QED BY <1>2, <1>4

(* A tensor that a node reads is made by one node at most. *)
LEMMA OneProducer ==
  ASSUME CacheInv, Accepted, NEW x \in ToSet(graph.nodes), NEW y \in ToSet(graph.nodes),
         x.out \in ToSet(y.ins)
  PROVE  \A z \in ToSet(graph.nodes) : z.out = x.out => z = x
<1>1. Cardinality(get_producers(graph, x.out)) \in {0, 1}
  BY DEF Accepted
<1> QED BY <1>1, SoleProducer

(* What an accepted graph offers to the quantizations: operands that are there *)
(* and come from somewhere, an order with all nodes in it, and one maker of a   *)
(* tensor that is read.                                                    *)
Formed(g) ==
  /\ Arranged(g) /\ IsAcyclic(g) /\ Fed(g)
  /\ \A x \in ToSet(g.nodes) : x.out \in DOMAIN g.tensors
  /\ \A x, y \in ToSet(g.nodes) : x.out \in ToSet(y.ins) =>
       \A z \in ToSet(g.nodes) : z.out = x.out => z = x

LEMMA AcceptedIsFormed ==
  ASSUME CacheInv, Accepted
  PROVE  Formed(graph)
<1>1. \A e \in validate_stage1(graph) : e[1] = "INV-1.6"
  BY DEF Accepted
<1>2. IsAcyclic(graph)
  <2>1. SUFFICES ASSUME ~IsAcyclic(graph) PROVE FALSE
    OBVIOUS
  <2>2. <<"INV-1.10", "cycle">> \in validate_stage1(graph)
    BY <2>1 DEF validate_stage1, Errors
  <2>3. <<"INV-1.10", "cycle">>[1] = "INV-1.10"
    OBVIOUS
  <2> QED BY <1>1, <2>2, <2>3
<1>3. \A x \in ToSet(graph.nodes) : x.ins \in Seq(DOMAIN graph.tensors)
  <2>1. SUFFICES ASSUME NEW x \in ToSet(graph.nodes), x.ins \notin Seq(DOMAIN graph.tensors)
                 PROVE  FALSE
    OBVIOUS
  <2>2. <<"INV-1.3", x.name>> \in validate_stage1(graph)
    BY <2>1 DEF validate_stage1, Errors, NodesOf
  <2>3. <<"INV-1.3", x.name>>[1] = "INV-1.3"
    OBVIOUS
  <2> QED BY <1>1, <2>2, <2>3
<1>4. \A x \in ToSet(graph.nodes) : x.out \in DOMAIN graph.tensors
  <2>1. SUFFICES ASSUME NEW x \in ToSet(graph.nodes), x.out \notin DOMAIN graph.tensors
                 PROVE  FALSE
    OBVIOUS
  <2>2. <<"INV-1.4", x.name>> \in validate_stage1(graph)
    BY <2>1 DEF validate_stage1, Errors, NodesOf
  <2>3. <<"INV-1.4", x.name>>[1] = "INV-1.4"
    OBVIOUS
  <2> QED BY <1>1, <2>2, <2>3
<1>5. Fed(graph)
  <2> SUFFICES ASSUME NEW x \in ToSet(graph.nodes), NEW t \in ToSet(x.ins),
                      ~(t \in ToSet(graph.inputs) \/ IsConstant(graph, t))
               PROVE  get_producers(graph, t) # {}
    BY DEF Fed
  <2>1. Cardinality(get_producers(graph, t)) = 1
    BY DEF Accepted
  <2> QED BY <2>1, FS_EmptySet
<1>6. \A x, y \in ToSet(graph.nodes) : x.out \in ToSet(y.ins) =>
        \A z \in ToSet(graph.nodes) : z.out = x.out => z = x
  BY OneProducer
<1>7. Arranged(graph)
  BY <1>3 DEF Arranged, CacheInv, Accepted
<1> QED BY <1>2, <1>4, <1>5, <1>6, <1>7 DEF Formed

(* A pass over nodes begins. *)
LEMMA BeginStageInv ==
  ASSUME CacheInv, Formed(graph), StageInv, BeginPass
  PROVE  StageInv'
<1>1. /\ status = "running" /\ status' = status /\ arch' = arch
      /\ passes # <<>> /\ pass' = Head(passes) /\ passes' = Tail(passes)
      /\ todo' = WorkList(pass', graph)
      /\ pass' \in Quantizing => ranges' = Calibrate(graph)
  BY DEF BeginPass, Between
<1>2. graph'.nodes = graph.nodes /\ graph'.tensors = graph.tensors
  BY DEF BeginPass, Touch, CacheInv, Sound, Whole, GraphFields
<1>3. /\ QuantizingLast(passes')
      /\ pass' \in Quantizing => ToSet(passes') \subseteq Quantizing \ {pass'}
      /\ ToSet(passes) = {pass'} \cup ToSet(passes')
  BY <1>1, LastTail DEF StageInv, PlanInv
<1>4. PlanInv'
  <2>1. arch' # "unknown" =>
          \/ {"ConvQuantization", "Quantization"} \subseteq ToSet(passes')
          \/ ToSet(passes') \subseteq Quantizing /\ pass' \in Quantizing \cup {"none"}
    <3>1. CASE pass' \in Quantizing
      BY <1>3, <3>1
    <3>2. CASE pass' \notin Quantizing
      BY <1>1, <1>3, <3>2 DEF StageInv, PlanInv, Quantizing
    <3> QED BY <3>1, <3>2
  <2>2. arch' = "mlp" => /\ "ConvQuantization" \notin ToSet(passes')
                         /\ \A x \in ToSet(graph'.nodes) : x.op \in LinearTypes
    BY <1>1, <1>2, <1>3 DEF StageInv, PlanInv
  <2>3. status' # "done"
    BY <1>1
  <2> QED BY <1>3, <2>1, <2>2, <2>3 DEF PlanInv
<1>5. ASSUME pass' \in Quantizing
      PROVE  /\ todo' \in Seq(NodeNames(graph))
             /\ ToSet(todo') = {n \in NodeNames(graph) : NodeOf(graph, n).op \in Kind[pass']}
  BY <1>1, <1>5, WorkListed DEF Formed, Arranged, Sound, Whole
<1>6. WorkInv'
  <2>1. SUFFICES ASSUME pass' \in Quantizing
                 PROVE  /\ DOMAIN ranges' = DOMAIN graph'.tensors
                        /\ \A t \in DOMAIN ranges' : ranges'[t] # <<>>
                        /\ todo' \in Seq(NodeNames(graph'))
                        /\ \A n \in ToSet(todo') : \E x \in ToSet(graph'.nodes) :
                             x.name = n /\ x.op \in Kind[pass']
    BY DEF WorkInv
  <2>2. ranges' = Calibrate(graph)
    BY <1>1, <2>1
  <2>3. \A n \in NodeNames(graph) : NodeOf(graph, n) \in ToSet(graph.nodes)
                                    /\ NodeOf(graph, n).name = n
    BY LookupFinds DEF NodeOf, NodeNames
  <2>4. NodeNames(graph') = NodeNames(graph)
    BY <1>2 DEF NodeNames
  <2> QED BY <1>2, <1>5, <2>1, <2>2, <2>3, <2>4, CalibrateRanges
<1>7. DueInv'
  <2>1. SUFFICES ASSUME arch' # "unknown", NEW x \in ToSet(graph'.nodes), x.op \in LayerOps
                 PROVE  \/ Due(x) \in ToSet(passes')
                        \/ pass' = Due(x) /\ x.name \in ToSet(todo')
                        \/ Fulfilled(graph', x)
    BY DEF DueInv
  <2>2. x \in ToSet(graph.nodes)
    BY <1>2
  <2>3. CASE Fulfilled(graph, x)
    BY <1>2, <2>3 DEF Fulfilled
  <2>4. CASE ~Fulfilled(graph, x)
    <3>1. Due(x) \in ToSet(passes)
      <4>1. pass = "none" /\ Due(x) # "none"
        BY DEF BeginPass, Between, Due
      <4> QED BY <1>1, <2>1, <2>2, <2>4, <4>1 DEF StageInv, DueInv
    <3>2. CASE Due(x) = pass'
      <4>1. pass' \in Quantizing /\ x.op \in Kind[pass']
        BY <2>1, <3>2 DEF Due, Quantizing, Kind, LayerOps, ConvTypes, LinearTypes
      <4>2. x.name \in NodeNames(graph) /\ NodeOf(graph, x.name) = x
        BY <2>2, NodeUnique DEF CacheInv, Sound, Whole
      <4> QED BY <1>5, <3>2, <4>1, <4>2
    <3> QED BY <1>3, <3>1, <3>2
  <2> QED BY <2>3, <2>4
<1> QED BY <1>4, <1>6, <1>7 DEF StageInv

(* A visit of a quantization pass. *)
LEMMA VisitQuantizes ==
  ASSUME CacheInv, Formed(graph), StageInv, Visit, pass \in Quantizing
  PROVE  \E x \in ToSet(graph.nodes) : \E attrs :
           /\ x.name = Head(todo) /\ x.op \in Kind[pass]
           /\ graph'.nodes = AnnotatedIn(graph.nodes, x.name, attrs)
           /\ Retyped(graph, graph', x)
           /\ x.op \in LayerOps => /\ Fulfilled(graph', Annotated(x, attrs))
                                 /\ attrs.xq = RangeOf(ranges, x.ins[1])
                                 /\ attrs.yq = Clamped(x.op, RangeOf(ranges, x.out))
<1>1. /\ todo # <<>> /\ todo \in Seq(NodeNames(graph))
      /\ DOMAIN ranges = DOMAIN graph.tensors
      /\ \A t \in DOMAIN ranges : ranges[t] # <<>>
  BY DEF Visit, StageInv, WorkInv
<1>2. Head(todo) \in ToSet(todo) /\ Head(todo) \in NodeNames(graph)
  BY <1>1, TailLists
<1>3. PICK x \in ToSet(graph.nodes) : x.name = Head(todo) /\ x.op \in Kind[pass]
  BY <1>2 DEF StageInv, WorkInv
<1>4. NodeOf(graph, Head(todo)) = x
  BY <1>3, NodeUnique DEF CacheInv, Sound, Whole
<1>5. graph' = Rewrite(pass, graph, x, fused, ranges)
  BY <1>2, <1>3, <1>4 DEF Visit
<1>6. Arranged(graph)
  BY DEF Formed
<1>7. CASE pass = "AttentionQuantization"
  <2>1. graph' = quantize_attention(graph, x, ranges)
    BY <1>5, <1>7 DEF Rewrite
  <2>2. x.op \notin LayerOps
    BY <1>3, <1>7 DEF Kind, LayerOps, LinearTypes, ConvTypes
  <2> QED BY <1>3, <1>6, <2>1, <2>2, AttentionQuantized
<1>8. CASE pass \in {"ConvQuantization", "Quantization"}
  <2>1. x.op \in LayerOps
    BY <1>3, <1>8 DEF Kind, LayerOps
  <2>2. /\ RangeOf(ranges, x.ins[1]) = ranges[x.ins[1]] /\ ranges[x.ins[1]] # <<>>
        /\ RangeOf(ranges, x.out) = ranges[x.out]
    <3>1. x.ins[1] \in DOMAIN graph.tensors
      <4>1. x.ins \in Seq(DOMAIN graph.tensors) /\ Len(x.ins) >= 2
        BY <1>6, <2>1 DEF Arranged, Separate, LayerOps
      <4>2. Len(x.ins) \in Nat /\ 1 \in 1 .. Len(x.ins)
        BY <4>1, LenProperties
      <4> QED BY <4>1, <4>2, ElementOfSeq
    <3>2. x.out \in DOMAIN graph.tensors
      BY DEF Formed
    <3> QED BY <1>1, <3>1, <3>2 DEF RangeOf
  <2>3. \A op, range : Clamped(op, range) # <<>>
    BY DEF Clamped
  <2> DEFINE xq == RangeOf(ranges, x.ins[1])
             yq == Clamped(x.op, RangeOf(ranges, x.out))
  <2>4. xq # <<>> /\ yq # <<>> /\ graph' = QuantizedLayer(graph, x, xq, yq)
    BY <1>5, <1>8, <2>2, <2>3 DEF Rewrite, quantize_linear, quantize_conv
  <2> HIDE DEF xq, yq
  <2>5. /\ Retyped(graph, graph', x)
        /\ \E attrs : /\ graph'.nodes = AnnotatedIn(graph.nodes, x.name, attrs)
                      /\ Fulfilled(graph', Annotated(x, attrs))
                      /\ attrs.xq = xq /\ attrs.yq = yq
    BY <1>6, <2>1, <2>4, LayerQuantized
  <2> QED BY <1>3, <2>5 DEF xq, yq
<1> QED BY <1>7, <1>8 DEF Quantizing

(* A visit leaves on the list what it has not come to, and what it has come to *)
(* as it should be.                                                        *)
LEMMA VisitStageInv ==
  ASSUME CacheInv, Formed(graph), StageInv, Visit
  PROVE  StageInv'
<1>1. /\ status = "running" /\ status' = status /\ arch' = arch /\ pass # "none"
      /\ passes' = passes /\ pass' = pass /\ ranges' = ranges /\ todo # <<>> /\ todo' = Tail(todo)
  BY DEF Visit
<1>2. CASE pass \notin Quantizing
  <2>1. arch # "unknown" => {"ConvQuantization", "Quantization"} \subseteq ToSet(passes)
    BY <1>1, <1>2 DEF StageInv, PlanInv
  <2>2. arch # "mlp"
    BY <2>1 DEF StageInv, PlanInv
  <2>3. PlanInv'
    BY <1>1, <1>2, <2>1, <2>2 DEF StageInv, PlanInv
  <2>4. \A x : Due(x) \in {"ConvQuantization", "Quantization"}
    BY DEF Due
  <2> QED BY <1>1, <1>2, <2>1, <2>3, <2>4 DEF StageInv, WorkInv, DueInv
<1>3. CASE pass \in Quantizing
  <2>0. PICK x \in ToSet(graph.nodes) : \E attrs :
          /\ x.name = Head(todo) /\ x.op \in Kind[pass]
          /\ graph'.nodes = AnnotatedIn(graph.nodes, x.name, attrs)
          /\ Retyped(graph, graph', x)
          /\ x.op \in LayerOps => Fulfilled(graph', Annotated(x, attrs))
    BY <1>3, VisitQuantizes
  <2>1. PICK attrs :
          /\ x.name = Head(todo) /\ x.op \in Kind[pass]
          /\ graph'.nodes = AnnotatedIn(graph.nodes, x.name, attrs)
          /\ Retyped(graph, graph', x)
          /\ x.op \in LayerOps => Fulfilled(graph', Annotated(x, attrs))
    BY <2>0
  <2>2. Arranged(graph) /\ Dict(graph.nodes)
    BY DEF Formed, Arranged, Sound, Whole
  <2>3. /\ NodeNames(graph') = NodeNames(graph)
        /\ \A y \in ToSet(graph'.nodes) :
             \/ y \in ToSet(graph.nodes) /\ y.name # x.name
             \/ y = Annotated(x, attrs)
        /\ \A y \in ToSet(graph.nodes) : \E z \in ToSet(graph'.nodes) :
             z.name = y.name /\ z.op = y.op
    <3>1. graph'.nodes = AnnotatedIn(graph.nodes, x.name, attrs)
      BY <2>1
    <3>2. Dict(graph.nodes)
      BY <2>2
    <3> DEFINE new == AnnotatedIn(graph.nodes, x.name, attrs)
    <3>3. /\ Names(new) = Names(graph.nodes)
          /\ \A y \in ToSet(new) : \/ y \in ToSet(graph.nodes) /\ y.name # x.name
                                  \/ y = Annotated(x, attrs)
          /\ \A y \in ToSet(graph.nodes) : \E z \in ToSet(new) :
               z.name = y.name /\ z.op = y.op
      BY <3>2, AnnotatedNodes
    <3>4. NodeNames(graph) = Names(graph.nodes) /\ NodeNames(graph') = Names(graph'.nodes)
      BY DEF NodeNames
    <3> HIDE DEF new
    <3>5. graph'.nodes = new
      BY <3>1 DEF new
    <3> QED BY <3>3, <3>4, <3>5
  <2>4. Annotated(x, attrs).op = x.op
    BY DEF Annotated
  <2>5. /\ todo \in Seq(NodeNames(graph)) /\ todo' \in Seq(NodeNames(graph))
        /\ ToSet(todo) = {x.name} \cup ToSet(todo')
    BY <1>1, <1>3, <2>1, TailLists DEF StageInv, WorkInv
  <2>6. PlanInv'
    <3>1. arch = "mlp" => \A y \in ToSet(graph'.nodes) : y.op \in LinearTypes
      BY <2>3, <2>4 DEF StageInv, PlanInv
    <3> QED BY <1>1, <3>1 DEF StageInv, PlanInv
  <2>7. WorkInv'
    <3>1. DOMAIN graph'.tensors = DOMAIN graph.tensors
      BY <2>1 DEF Retyped
    <3>2. \A n \in ToSet(todo') : \E z \in ToSet(graph'.nodes) : z.name = n /\ z.op \in Kind[pass]
      BY <1>3, <2>3, <2>5 DEF StageInv, WorkInv
    <3> QED BY <1>1, <1>3, <2>3, <2>5, <3>1, <3>2 DEF StageInv, WorkInv
  <2>8. DueInv'
    <3>1. SUFFICES ASSUME arch # "unknown", NEW y \in ToSet(graph'.nodes), y.op \in LayerOps
                   PROVE  \/ Due(y) \in ToSet(passes)
                          \/ pass = Due(y) /\ y.name \in ToSet(todo')
                          \/ Fulfilled(graph', y)
      BY <1>1 DEF DueInv
    <3>2. CASE y = Annotated(x, attrs)
      BY <2>1, <2>4, <3>1, <3>2
    <3>3. CASE y \in ToSet(graph.nodes) /\ y.name # x.name
      <4>1. \/ Due(y) \in ToSet(passes)
            \/ pass = Due(y) /\ y.name \in ToSet(todo)
            \/ Fulfilled(graph, y)
        BY <3>1, <3>3 DEF StageInv, DueInv
      <4>2. CASE Fulfilled(graph, y)
        <5>1. x.op \in LayerOps \cup {"FusedAttention"}
          BY <1>3, <2>1 DEF Kind, Quantizing, LayerOps
        <5> QED BY <2>1, <2>2, <3>1, <3>3, <4>2, <5>1, FulfilledStays
      <4> QED BY <2>5, <3>3, <4>1, <4>2
    <3> QED BY <2>3, <3>2, <3>3
  <2> QED BY <2>6, <2>7, <2>8 DEF StageInv
<1> QED BY <1>2, <1>3
(* The steps that rewrite a graph as a whole come before every quantization. *)
LEMMA SweepStageInv ==
  ASSUME StageInv, FoldConstant \/ Sweep
  PROVE  StageInv'
<1>1. /\ status = "running" /\ status' = status /\ arch' = arch /\ pass = "none" /\ pass' = pass
      /\ passes # <<>> /\ passes' \in {passes, Tail(passes)}
      /\ Head(passes) \in {"ConstantFolding", "DeadCodeElimination", "OperatorFusion"}
  BY DEF FoldConstant, Sweep, Between
<1>2. /\ QuantizingLast(passes) /\ QuantizingLast(Tail(passes))
      /\ ToSet(passes) = {Head(passes)} \cup ToSet(Tail(passes))
  BY <1>1, LastTail DEF StageInv, PlanInv
<1>3. Head(passes) \notin Quantizing /\ "none" \notin Quantizing
  BY <1>1 DEF Quantizing
<1>4. arch # "unknown" =>
        /\ {"ConvQuantization", "Quantization"} \subseteq ToSet(passes)
        /\ {"ConvQuantization", "Quantization"} \subseteq ToSet(passes')
        /\ arch # "mlp"
  <2>1. arch # "unknown" => {"ConvQuantization", "Quantization"} \subseteq ToSet(passes)
    BY <1>2, <1>3 DEF StageInv, PlanInv
  <2>2. Head(passes) \notin {"ConvQuantization", "Quantization"}
    BY <1>3 DEF Quantizing
  <2> QED BY <1>1, <1>2, <2>1, <2>2 DEF StageInv, PlanInv
<1>5. PlanInv'
  <2>1. QuantizingLast(passes')
    BY <1>1, <1>2
  <2>2. arch # "mlp"
    BY <1>4
  <2> QED BY <1>1, <1>3, <1>4, <2>1, <2>2 DEF PlanInv
<1>6. \A x : Due(x) \in {"ConvQuantization", "Quantization"}
  BY DEF Due
<1> QED BY <1>1, <1>3, <1>4, <1>5, <1>6 DEF StageInv, WorkInv, DueInv

(* The architecture decides which quantizations come. *)
LEMMA DetectStageInv ==
  ASSUME StageInv, Detect
  PROVE  StageInv'
<1>1. /\ status = "running" /\ status' = status /\ pass = "none" /\ pass' = pass
      /\ graph' = graph /\ arch' = detect_architecture(graph) /\ passes' = QuantPasses(arch')
      /\ "none" \notin Quantizing
  BY DEF Detect, Between, Quantizing
<1>2. /\ arch' \in {"mlp", "cnn", "transformer"}
      /\ arch' = "mlp" => \A x \in ToSet(graph.nodes) : x.op \in LinearTypes
  <2> DEFINE ops == {graph.nodes[i].op : i \in DOMAIN graph.nodes}
  <2>1. ops \subseteq LinearTypes => \A x \in ToSet(graph.nodes) : x.op \in LinearTypes
    BY DEF ToSet
  <2>2. detect_architecture(graph) =
          CASE ops # {} /\ ops \subseteq LinearTypes -> "mlp"
            [] ops \cap {"FusedAttention", "FusedLayerNorm"} # {} -> "transformer"
            [] OTHER -> "cnn"
    BY DEF detect_architecture
  <2>3. ~(ops \subseteq LinearTypes /\ ops \cap {"FusedAttention", "FusedLayerNorm"} # {})
    BY DEF LinearTypes
  <2> HIDE DEF ops
  <2> QED BY <1>1, <2>1, <2>2, <2>3
<1>3. /\ QuantizingLast(passes')
      /\ "Quantization" \in ToSet(passes')
      /\ (arch' = "mlp") = ("ConvQuantization" \notin ToSet(passes'))
      /\ arch' = "mlp" => ToSet(passes') \subseteq Quantizing
  <2> HIDE DEF QuantPasses
  <2> QED BY <1>1, <1>2, PlansOrdered
<1>4. PlanInv'
  BY <1>1, <1>2, <1>3 DEF PlanInv
<1>5. DueInv'
  <2>1. SUFFICES ASSUME NEW x \in ToSet(graph.nodes), x.op \in LayerOps
                 PROVE  Due(x) \in ToSet(passes')
    BY <1>1 DEF DueInv
  <2>2. CASE x.op \in ConvTypes
    <3>1. arch' # "mlp"
      BY <1>2, <2>2 DEF ConvTypes, LinearTypes
    <3> QED BY <1>3, <2>2, <3>1 DEF Due
  <2>3. CASE x.op \notin ConvTypes
    BY <1>3, <2>3 DEF Due
  <2> QED BY <2>2, <2>3
<1> QED BY <1>1, <1>4, <1>5 DEF StageInv, WorkInv

LEMMA NextStageInv == CacheInv /\ Formed(graph) /\ StageInv /\ [Next]_vars => StageInv'
<1> SUFFICES ASSUME CacheInv, Formed(graph), StageInv, [Next]_vars PROVE StageInv'
  OBVIOUS
<1>1. CASE BeginPass
  BY <1>1, BeginStageInv
<1>2. CASE Unsupported
  <2>1. /\ status' = "unsupported"
        /\ UNCHANGED <<source, graph, passes, pass, todo, fused, ranges, arch>>
    BY <1>2 DEF Unsupported
  <2> QED BY <2>1 DEF StageInv, PlanInv, WorkInv, DueInv
<1>3. CASE Visit
  BY <1>3, VisitStageInv
<1>4. CASE EndPass
  <2>1. /\ pass' = "none" /\ todo = <<>>
        /\ UNCHANGED <<source, passes, todo, fused, ranges, arch, status>>
    BY <1>4 DEF EndPass
  <2>2. graph'.nodes = graph.nodes /\ graph'.tensors = graph.tensors
    BY <1>4 DEF EndPass, Invalidate, CacheInv, Sound, Whole, GraphFields
  <2>3. "none" \notin Quantizing /\ ToSet(todo) = {}
    BY <2>1 DEF Quantizing, ToSet
  <2>4. PlanInv'
    BY <2>1, <2>2, <2>3 DEF StageInv, PlanInv
  <2>5. \A x : Fulfilled(graph, x) => Fulfilled(graph', x)
    BY <2>2 DEF Fulfilled
  <2> QED BY <2>1, <2>2, <2>3, <2>4, <2>5 DEF StageInv, WorkInv, DueInv
<1>5. CASE FoldConstant
  BY <1>5, SweepStageInv
<1>6. CASE Sweep
  BY <1>6, SweepStageInv
<1>7. CASE Detect
  BY <1>7, DetectStageInv
<1>8. CASE Finish
  <2>1. /\ pass = "none" /\ passes = <<>> /\ arch # "unknown"
        /\ UNCHANGED <<source, graph, passes, pass, todo, fused, ranges, arch>>
    BY <1>8 DEF Finish, Between
  <2> QED BY <2>1 DEF StageInv, PlanInv, WorkInv, DueInv
<1>9. CASE UNCHANGED vars
  BY <1>9 DEF vars, StageInv, PlanInv, WorkInv, DueInv
<1> QED BY <1>1, <1>2, <1>3, <1>4, <1>5, <1>6, <1>7, <1>8, <1>9 DEF Next, Stopped
-------------------------------------------------------------------------------
(* Only quantization annotates nodes: while nothing is quantized every rewrite   *)
(* leaves nodes without a range.                                            *)
Plain(nodes) == \A x \in ToSet(nodes) : x.attrs.xq = <<>>

(* Nor has a graph other operators than it had and those that fusion makes.      *)
Bare(nodes, ops) == \A x \in ToSet(nodes) : x.attrs.xq = <<>> /\ x.op \in ops

FusedOps ==
  LinearTypes \cup {"FusedConv", "FusedConvReLU", "FusedConvReLU6", "FusedLayerNorm", "FusedSiLU",
                   "FusedGELU"}
BlockOps == {"FusedAttention", "FusedMLP"}

LEMMA BareWithout ==
  ASSUME NEW ops, NEW g, Whole(g), NEW names, Bare(g.nodes, ops)
  PROVE  Bare(Without(g, names).nodes, ops)
<1> DEFINE S == {x \in ToSet(g.nodes) : x.name \notin names}
<1>1. Without(g, names).nodes = Among(g.nodes, S)
  BY DEF Without, Whole, GraphFields
<1>2. ToSet(Among(g.nodes, S)) = ToSet(g.nodes) \cap S
  BY AmongLists DEF Whole, Dict
<1> QED BY <1>1, <1>2 DEF Bare

(* A node that is given other operands keeps its attributes. *)
LEMMA BareReading ==
  ASSUME NEW ops, NEW nodes, Bare(nodes, ops), NEW other, DOMAIN other = DOMAIN nodes,
         \A i \in DOMAIN nodes : other[i] = nodes[i] \/ \E ins : other[i] = Reading(nodes[i], ins)
  PROVE  Bare(other, ops)
<1> SUFFICES ASSUME NEW i \in DOMAIN nodes PROVE other[i].attrs.xq = <<>> /\ other[i].op \in ops
  BY DEF Bare, ToSet
<1>1. nodes[i].attrs.xq = <<>> /\ nodes[i].op \in ops
  BY DEF Bare, ToSet
<1>2. \A ins : /\ Reading(nodes[i], ins).attrs = nodes[i].attrs
              /\ Reading(nodes[i], ins).op = nodes[i].op
  BY DEF Reading
<1> QED BY <1>1, <1>2

LEMMA BareRewire ==
  ASSUME NEW ops, NEW g, Whole(g), NEW from, NEW to, NEW affected, Bare(g.nodes, ops)
  PROVE  Bare(Rewire(g, from, to, affected).nodes, ops)
<1> DEFINE nodes == [i \in DOMAIN g.nodes |->
                      IF g.nodes[i].name \in affected
                      THEN Reading(g.nodes[i], Redirected(g.nodes[i].ins, from, to)) ELSE g.nodes[i]]
<1>1. Rewire(g, from, to, affected).nodes = nodes
  BY DEF Rewire, Whole, GraphFields
<1>2. /\ DOMAIN nodes = DOMAIN g.nodes
      /\ \A i \in DOMAIN g.nodes : nodes[i] = g.nodes[i] \/ \E ins : nodes[i] = Reading(g.nodes[i], ins)
  OBVIOUS
<1> HIDE DEF nodes
<1> QED BY <1>1, <1>2, BareReading

LEMMA BareInsert ==
  ASSUME NEW ops, NEW g, Whole(g), NEW node, NEW tensors, Bare(g.nodes, ops),
         node.attrs.xq = <<>>, node.op \in ops
  PROVE  Bare(insert_node(g, node, tensors).nodes, ops)
<1> DEFINE h == insert_node(g, node, tensors)
           replaced == [i \in DOMAIN g.nodes |->
                         IF g.nodes[i].name = node.name THEN node ELSE g.nodes[i]]
<1>1. h.nodes = IF node.name \in NodeNames(g) THEN replaced ELSE Append(g.nodes, node)
  BY DEF insert_node, Invalidate, Whole, GraphFields
<1>2. Bare(replaced, ops)
  BY DEF Bare, ToSet
<1>3. Bare(Append(g.nodes, node), ops)
  <2> DEFINE S == ToSet(g.nodes) \cup {node}
  <2>1. g.nodes \in Seq(S) /\ node \in S
    BY SeqMonotonic DEF Whole, Dict
  <2>2. ToSet(Append(g.nodes, node)) = ToSet(g.nodes) \cup {node}
    BY <2>1, AppendMembers
  <2> QED BY <2>2 DEF Bare
<1> QED BY <1>1, <1>2, <1>3

LEMMA BareFuse ==
  ASSUME NEW ops, NEW g, Whole(g), NEW old, NEW name, NEW op \in ops, NEW ins, NEW attrs,
         attrs.xq = <<>>, DOMAIN attrs = AttrFields, Bare(g.nodes, ops)
  PROVE  Bare(Fuse(g, old, name, op, ins, attrs).nodes, ops)
<1> DEFINE node == [NewNode(name, op, ins, OutputOf(name)) EXCEPT !.attrs = attrs]
           tensors == [t \in {OutputOf(name)} |-> Activation]
           rewired == Rewire(g, ExternalOutputs({x \in ToSet(g.nodes) : x.name \in old}), node.out,
                             NodeNames(g) \ old)
           h == Without(rewired, old)
<1>1. node.attrs = attrs /\ node.op = op /\ IsNode(node)
  BY DEF NewNode, NodeFields, IsNode
<1>2. Fuse(g, old, name, op, ins, attrs) = DropOrphans(insert_node(h, node, tensors))
  BY DEF Fuse, replace_subgraph
<1> HIDE DEF node, tensors
<1>3. Whole(rewired) /\ Bare(rewired.nodes, ops)
  BY RewireWhole, BareRewire
<1> HIDE DEF rewired
<1>4. Whole(h) /\ Bare(h.nodes, ops)
  BY <1>3, WithoutWhole, BareWithout
<1> HIDE DEF h
<1>5. Whole(insert_node(h, node, tensors)) /\ Bare(insert_node(h, node, tensors).nodes, ops)
  BY <1>1, <1>4, InsertSound, BareInsert DEF Sound
<1>6. DropOrphans(insert_node(h, node, tensors)).nodes = insert_node(h, node, tensors).nodes
  BY <1>5 DEF DropOrphans, Whole, GraphFields
<1> QED BY <1>2, <1>5, <1>6

LEMMA BareFusions ==
  ASSUME NEW ops, NEW g, NEW node, NEW k, Whole(g), Bare(g.nodes, ops), FusedOps \subseteq ops
  PROVE  /\ Bare(fuse_conv(g, node, k).nodes, ops)
         /\ Bare(fuse_layer_norm(g, node, k).nodes, ops)
         /\ Bare(fuse_silu(g, node, k).nodes, ops)
         /\ Bare(fuse_gelu(g, node, k).nodes, ops)
<1>1. Bare(Touch(g).nodes, ops)
  BY DEF Touch, Whole, GraphFields
<1>2. \A old, name, ins : \A op \in FusedOps : Bare(Fuse(g, old, name, op, ins, Blank).nodes, ops)
  <2>1. Blank.xq = <<>> /\ DOMAIN Blank = AttrFields
    BY DEF Blank, AttrFields
  <2> QED BY <2>1, BareFuse
<1>3. /\ {"FusedConv", "FusedConvReLU", "FusedConvReLU6"} \subseteq FusedOps
      /\ "FusedLayerNorm" \in FusedOps /\ "FusedSiLU" \in FusedOps /\ "FusedGELU" \in FusedOps
  BY DEF FusedOps
<1>4. Bare(fuse_conv(g, node, k).nodes, ops)
  <2>1. \E old, name, ins : \E op \in {"FusedConv", "FusedConvReLU", "FusedConvReLU6"} :
          fuse_conv(g, node, k) = Fuse(g, old, name, op, ins, Blank)
    BY DEF fuse_conv
  <2> QED BY <1>2, <1>3, <2>1
<1>5. Bare(fuse_layer_norm(g, node, k).nodes, ops)
  BY <1>2, <1>3 DEF fuse_layer_norm
<1>6. Bare(fuse_silu(g, node, k).nodes, ops)
  BY <1>1, <1>2, <1>3 DEF fuse_silu
<1>7. Bare(fuse_gelu(g, node, k).nodes, ops)
  BY <1>1, <1>2, <1>3 DEF fuse_gelu
<1> QED BY <1>4, <1>5, <1>6, <1>7

LEMMA BareBlocks ==
  ASSUME NEW ops, NEW g, NEW node, NEW k, Whole(g), Bare(g.nodes, ops), BlockOps \subseteq ops
  PROVE  /\ Bare(fuse_mlp(g, node, k).nodes, ops)
         /\ Bare(fuse_attention(g, node, k).nodes, ops)
<1>1. Bare(Touch(g).nodes, ops)
  BY DEF Touch, Whole, GraphFields
<1>2. \A old, name, ins, attrs : \A op \in BlockOps :
        attrs.xq = <<>> /\ DOMAIN attrs = AttrFields
          => Bare(Fuse(g, old, name, op, ins, attrs).nodes, ops)
  BY BareFuse
<1>3. /\ Blank.xq = <<>> /\ DOMAIN Blank = AttrFields
      /\ \A a, n : /\ [Blank EXCEPT !.act = a, !.fc1 = n].xq = <<>>
                   /\ DOMAIN [Blank EXCEPT !.act = a, !.fc1 = n] = AttrFields
      /\ "FusedMLP" \in BlockOps /\ "FusedAttention" \in BlockOps
  BY DEF Blank, AttrFields, BlockOps
<1>4. Bare(fuse_mlp(g, node, k).nodes, ops)
  <2>1. \A old, name, ins, a, n :
          Bare(Fuse(g, old, name, "FusedMLP", ins, [Blank EXCEPT !.act = a, !.fc1 = n]).nodes, ops)
    BY <1>2, <1>3
  <2>2. \/ fuse_mlp(g, node, k) = Touch(g)
        \/ \E old, name, ins, a, n :
             fuse_mlp(g, node, k) = Fuse(g, old, name, "FusedMLP", ins, [Blank EXCEPT !.act = a, !.fc1 = n])
    BY DEF fuse_mlp
  <2> QED BY <1>1, <2>1, <2>2
<1>5. Bare(fuse_attention(g, node, k).nodes, ops)
  BY <1>1, <1>2, <1>3 DEF fuse_attention
<1> QED BY <1>4, <1>5

LEMMA BareBypass ==
  ASSUME NEW ops, NEW g, Whole(g), NEW bn, Bare(g.nodes, ops)
  PROVE  Bare(Invalidate(Bypass(g, bn)).nodes, ops)
<1> DEFINE h == Without(Rewire(g, {bn.out}, bn.ins[1], NodeNames(g)), {bn.name})
<1>1. Whole(h) /\ Bare(h.nodes, ops)
  BY RewireWhole, BareRewire, WithoutWhole, BareWithout
<1>2. \E S : Bypass(g, bn) = [h EXCEPT !.tensors = Restrict(@, DOMAIN @ \ S)]
  BY DEF Bypass
<1> HIDE DEF h
<1>3. Bypass(g, bn).nodes = h.nodes /\ Whole(Bypass(g, bn))
  BY <1>1, <1>2, TensorsWhole
<1> QED BY <1>1, <1>3, InvalidateSound

LEMMA BareNorms ==
  ASSUME NEW ops, NEW g, Whole(g), NEW bn, Bare(g.nodes, ops)
  PROVE  Bare(fold_bn(g, bn).nodes, ops) /\ Bare(fold_conv_bn(g, bn).nodes, ops)
<1>1. Bare(Touch(g).nodes, ops)
  BY DEF Touch, Whole, GraphFields
<1>2. ASSUME NEW h, Whole(h), Bare(h.nodes, ops), NEW weight, NEW bias
      PROVE  Bare(Invalidate(Bypass(ScaledInto(h, bn, weight, bias), bn)).nodes, ops)
  <2>1. \A f, t, v : Whole(f) => Whole(WithRaw(f, t, v)) /\ WithRaw(f, t, v).nodes = f.nodes
    BY DEF WithRaw, Whole, GraphFields
  <2>2. \E v, w : ScaledInto(h, bn, weight, bias) = WithRaw(WithRaw(h, weight, v), bias, w)
    BY Zenon DEF ScaledInto
  <2>3. ScaledInto(h, bn, weight, bias).nodes = h.nodes
    BY <1>2, <2>1, <2>2
  <2> QED BY <1>2, <2>3, ScaledWhole, BareBypass
<1>3. ASSUME NEW conv PROVE Bare(WithZeroBias(g, conv).nodes, ops)
  <2> DEFINE bias == Append(conv.name, 0)
             nodes == [i \in DOMAIN g.nodes |->
                        IF g.nodes[i].name = conv.name
                        THEN Reading(g.nodes[i], Append(g.nodes[i].ins, bias)) ELSE g.nodes[i]]
  <2>1. WithZeroBias(g, conv).nodes \in {g.nodes, nodes}
    BY DEF WithZeroBias, Whole, GraphFields
  <2>2. /\ DOMAIN nodes = DOMAIN g.nodes
        /\ \A i \in DOMAIN g.nodes :
             nodes[i] = g.nodes[i] \/ \E ins : nodes[i] = Reading(g.nodes[i], ins)
    OBVIOUS
  <2> HIDE DEF nodes
  <2> QED BY <2>1, <2>2, BareReading
<1>4. Bare(fold_bn(g, bn).nodes, ops)
  BY <1>1, <1>2 DEF fold_bn
<1>5. Bare(fold_conv_bn(g, bn).nodes, ops)
  <2>1. \A conv, weight, bias :
          Bare(Invalidate(Bypass(ScaledInto(WithZeroBias(g, conv), bn, weight, bias), bn)).nodes, ops)
    BY <1>2, <1>3, ZeroBiasWhole
  <2> QED BY <1>1, <2>1 DEF fold_conv_bn
<1> QED BY <1>4, <1>5

LEMMA BareRewrite ==
  ASSUME NEW ops, NEW p \in DOMAIN Kind \ Quantizing, NEW g, NEW node, NEW k, NEW r, Whole(g),
         Bare(g.nodes, ops), FusedOps \subseteq ops,
         p \in {"AttentionFusion", "FusedMLP"} => BlockOps \subseteq ops
  PROVE  Bare(Rewrite(p, g, node, k, r).nodes, ops)
<1>1. p \in {"BatchNormFolding", "ConvBatchNormFolding", "ConvFusion", "LayerNormFusion",
             "FuseSiLU", "FuseGELU", "AttentionFusion", "FusedMLP"}
  BY DEF Kind, Quantizing
<1>2. Bare(fold_bn(g, node).nodes, ops) /\ Bare(fold_conv_bn(g, node).nodes, ops)
  BY BareNorms
<1>3. /\ Bare(fuse_conv(g, node, k).nodes, ops) /\ Bare(fuse_layer_norm(g, node, k).nodes, ops)
      /\ Bare(fuse_silu(g, node, k).nodes, ops) /\ Bare(fuse_gelu(g, node, k).nodes, ops)
  BY BareFusions
<1>4. p \in {"AttentionFusion", "FusedMLP"} =>
        Bare(fuse_mlp(g, node, k).nodes, ops) /\ Bare(fuse_attention(g, node, k).nodes, ops)
  BY BareBlocks
<1> QED BY <1>1, <1>2, <1>3, <1>4 DEF Rewrite

LEMMA BareSweeps ==
  ASSUME NEW ops, NEW g, NEW n, Whole(g), Bare(g.nodes, ops), FusedOps \subseteq ops
  PROVE  /\ Bare(fold_constant(g, n).nodes, ops)
         /\ Bare(Invalidate(eliminate_dead_code(g)).nodes, ops)
         /\ Bare(fuse_operators(g).nodes, ops)
<1>0. \A h : Whole(h) => Invalidate(h).nodes = h.nodes
  BY InvalidateSound
<1>1. Bare(fold_constant(g, n).nodes, ops)
  <2> DEFINE node == NodeOf(g, n)
             value == Execute(node.op, [j \in DOMAIN node.ins |-> g.tensors[node.ins[j]].raw])
             h == [g EXCEPT !.tensors[node.out] = [dtype |-> "fp32", raw |-> value]]
  <2>1. DOMAIN h = GraphFields /\ h.nodes = g.nodes
    BY DEF Whole, GraphFields
  <2>2. fold_constant(g, n) = Invalidate(Without(h, {n}))
    BY DEF fold_constant
  <2> HIDE DEF h
  <2>3. Whole(h)
    BY <2>1 DEF Whole
  <2> QED BY <1>0, <2>1, <2>2, <2>3, WithoutWhole, BareWithout
<1>2. Whole(eliminate_dead_code(g)) /\ Bare(eliminate_dead_code(g).nodes, ops)
  <2> DEFINE live == Reachable(g)
             kept == ToSet(g.inputs) \cup live.tensors
             h == [g EXCEPT !.tensors = Restrict(@, DOMAIN @ \cap kept)]
  <2>1. Whole(h) /\ h.nodes = g.nodes
    BY TensorsWhole
  <2>2. eliminate_dead_code(g)
          \in {Touch(g), Invalidate(Without(h, NodeNames(g) \ live.nodes))}
    BY DEF eliminate_dead_code
  <2> HIDE DEF h
  <2>3. Whole(Touch(g)) /\ Touch(g).nodes = g.nodes
    BY DEF Touch, Whole, GraphFields
  <2>4. \A names : /\ Whole(Invalidate(Without(h, names)))
                   /\ Bare(Invalidate(Without(h, names)).nodes, ops)
    BY <1>0, <2>1, WithoutWhole, BareWithout, InvalidateSound DEF Sound
  <2> QED BY <2>2, <2>3, <2>4
<1>3. Bare(fuse_operators(g).nodes, ops)
  <2> DEFINE order == TopoOrder(g)
             s     == FusedUpTo(g, order)[Len(order)]
             rest  == Among(order, ToSet(order) \ (s.used \cup Names(s.nodes)))
             kept  == [i \in DOMAIN rest |-> NodeOf(g, rest[i])]
             nodes == s.nodes \o kept
  <2>1. /\ order \in Seq(ToSet(order)) /\ Len(order) \in Nat /\ Len(order) \in 0 .. Len(order)
        /\ order \in Seq(NodeNames(g))
    BY TopoOrders, ListIsSeq, LenProperties DEF Whole
  <2>2. s.nodes \in Seq(Layers(g, order)) /\ Dict(s.nodes)
    BY <2>1, FusedUpToUnfolds, FusedLayers DEF Recursive, Fusions
  <2>3. \A x \in Layers(g, order) : x.attrs.xq = <<>> /\ x.op \in ops
    <3>1. \A m, k : \E name, ins, out : \E op \in LinearTypes :
            FusedLinearOf(g, m, k).node = NewNode(name, op, ins, out)
      <4> SUFFICES ASSUME NEW m, NEW k
                   PROVE  \E name, ins, out : \E op \in LinearTypes :
                            FusedLinearOf(g, m, k).node = NewNode(name, op, ins, out)
        OBVIOUS
      <4> DEFINE add  == Single(g, m.out, "Add")
                 sum  == IF add = NoNode THEN m.out ELSE add.out
                 relu == Single(g, sum, "Relu")
                 bias == Pick(add.ins, LAMBDA t : t # m.out)
                 ins  == m.ins \o (IF bias = <<>> THEN <<>> ELSE <<Last(bias)>>)
                 op   == IF relu = NoNode THEN "FusedLinear" ELSE "FusedLinearReLU"
                 out  == IF relu = NoNode THEN sum ELSE relu.out
      <4>1. FusedLinearOf(g, m, k).node = NewNode(<<"fused", k>>, op, ins, out)
        BY DEF FusedLinearOf
      <4>2. op \in LinearTypes
        BY DEF LinearTypes
      <4> HIDE DEF op, ins, out
      <4> QED BY <4>1, <4>2
    <3>2. \A name, op, ins, out :
            NewNode(name, op, ins, out).attrs.xq = <<>> /\ NewNode(name, op, ins, out).op = op
      BY DEF NewNode, Blank
    <3>3. \A x \in Layers(g, order) : \E m, k : x = FusedLinearOf(g, m, k).node
      BY DEF Layers
    <3>4. LinearTypes \subseteq ops
      BY DEF FusedOps
    <3> QED BY <3>1, <3>2, <3>3, <3>4
  <2>4. /\ rest \in Seq(NodeNames(g)) /\ DOMAIN rest = 1 .. Len(rest) /\ Len(rest) \in Nat
        /\ \A i \in DOMAIN rest : rest[i] \in NodeNames(g)
    BY <2>1, AmongLists, LenProperties, ElementOfSeq
  <2>5. \A i \in DOMAIN kept : kept[i] \in ToSet(g.nodes)
    BY <2>4, LookupFinds DEF NodeOf, NodeNames
  <2>6. kept = [i \in 1 .. Len(rest) |-> kept[i]]
    BY <2>4
  <2> DEFINE U == Layers(g, order) \cup ToSet(g.nodes)
  <2> HIDE DEF kept, rest, s
  <2>7. kept \in Seq(ToSet(g.nodes))
    <3>1. \A i \in 1 .. Len(rest) : kept[i] \in ToSet(g.nodes)
      <4>1. DOMAIN kept = 1 .. Len(rest)
        BY <2>6
      <4> QED BY <2>5, <4>1
    <3> QED BY <2>4, <2>6, <3>1, IsASeq
  <2>8. s.nodes \in Seq(U) /\ kept \in Seq(U)
    BY <2>2, <2>7, SeqMonotonic
  <2>9. nodes \in Seq(U)
    BY <2>8, ConcatProperties
  <2>10. \A x \in ToSet(nodes) : x \in U
    BY <2>9, LenProperties, ElementOfSeq DEF ToSet
  <2>11. Bare(nodes, ops)
    BY <2>3, <2>10 DEF Bare
  <2>12. Dict(nodes)
    BY <2>2, FusedNodes DEF Whole, kept, rest, s
  <2>13. fuse_operators(g) = DropOrphans(Invalidate([g EXCEPT !.nodes = nodes]))
    BY DEF fuse_operators, kept, rest, s
  <2> HIDE DEF nodes
  <2>14. /\ Whole([g EXCEPT !.nodes = nodes])
         /\ [g EXCEPT !.nodes = nodes].nodes = nodes
    BY <2>12, NodesWhole DEF Whole
  <2>15. \A h : Whole(h) => DropOrphans(h).nodes = h.nodes
    BY DEF DropOrphans, Whole, GraphFields
  <2>16. Whole(Invalidate([g EXCEPT !.nodes = nodes]))
    BY <2>14, InvalidateSound DEF Sound
  <2> QED BY <1>0, <2>11, <2>13, <2>14, <2>15, <2>16
<1> QED BY <1>0, <1>1, <1>2, <1>3

(* So what is plain stays plain, *)
LEMMA PlainRewrite ==
  ASSUME NEW p \in DOMAIN Kind \ Quantizing, NEW g, NEW node, NEW k, NEW r, Whole(g),
         Plain(g.nodes)
  PROVE  Plain(Rewrite(p, g, node, k, r).nodes)
<1> DEFINE ops == {x.op : x \in ToSet(g.nodes)} \cup FusedOps \cup BlockOps
<1>1. Bare(g.nodes, ops) /\ FusedOps \subseteq ops /\ BlockOps \subseteq ops
  BY DEF Plain, Bare
<1> HIDE DEF ops
<1>2. Bare(Rewrite(p, g, node, k, r).nodes, ops)
  BY <1>1, BareRewrite
<1> QED BY <1>2 DEF Plain, Bare

LEMMA PlainSweeps ==
  ASSUME NEW g, NEW n, Whole(g), Plain(g.nodes)
  PROVE  /\ Plain(fold_constant(g, n).nodes)
         /\ Plain(Invalidate(eliminate_dead_code(g)).nodes)
         /\ Plain(fuse_operators(g).nodes)
<1> DEFINE ops == {x.op : x \in ToSet(g.nodes)} \cup FusedOps
<1>1. Bare(g.nodes, ops) /\ FusedOps \subseteq ops
  BY DEF Plain, Bare
<1> HIDE DEF ops
<1>2. /\ Bare(fold_constant(g, n).nodes, ops)
      /\ Bare(Invalidate(eliminate_dead_code(g)).nodes, ops)
      /\ Bare(fuse_operators(g).nodes, ops)
  BY <1>1, BareSweeps
<1> QED BY <1>2 DEF Plain, Bare

(* and what can be run, with every fusion but those that the interpreter does not *)
(* know.                                                                   *)
LEMMA RunsBare ==
  ASSUME NEW g, Plain(g.nodes)
  PROVE  CanRun(g) = Bare(g.nodes, Executable)
BY DEF Plain, Bare, CanRun, ToSet

LEMMA FusedOpsRun == FusedOps \subseteq Executable /\ BlockOps \cap Executable = {}
BY DEF FusedOps, BlockOps, LinearTypes, Executable

(* Kinds of the quantization passes have no operator in common, and what the    *)
(* interpreter can run is a layer if a quantization comes to it.             *)
LEMMA KindsApart ==
  /\ \A p, q \in Quantizing : \A op : op \in Kind[p] /\ op \in Kind[q] => p = q
  /\ \A p \in Quantizing : Kind[p] \cap Executable \subseteq LayerOps
BY DEF Kind, Quantizing, LinearTypes, ConvTypes, Executable, LayerOps

LEMMA PlainAgrees ==
  ASSUME NEW nodes, Plain(nodes)
  PROVE  \A x \in ToSet(nodes) : x.attrs.xq = <<>> /\ ~IsQuantized(x)
BY DEF Plain, IsQuantized

Untouched == Plain(graph.nodes)

(* Before the quantizations nothing is quantized, and before its quantization   *)
(* no layer is.                                                            *)
PlainInv ==
  /\ arch = "unknown" => (ToSet(passes) \cup {pass}) \cap Quantizing = {}
  /\ arch = "unknown" \/ ~(ToSet(passes) \cup {pass} \subseteq Quantizing \cup {"none"})
       => Untouched
  /\ \A p \in ToSet(passes) \cap Quantizing : \A x \in ToSet(graph.nodes) :
       x.op \in Kind[p] => x.attrs.xq = <<>>

LEMMA InitPlainInv == Init => Untouched /\ PlainInv
<1> SUFFICES ASSUME Init PROVE Untouched /\ PlainInv
  OBVIOUS
<1>1. pass = "none" /\ "none" \notin Quantizing /\ graph \in Sources
  BY DEF Init, Quantizing
<1>2. Untouched
  <2>1. \A x \in ToSet(graph.nodes) : x.attrs = Blank
    BY <1>1, PipelineAssumption
  <2> QED BY <2>1 DEF Untouched, Plain, Blank
<1>3. arch = "unknown" => passes = Structural
  <2>1. PICK m \in Managers :
          /\ passes = (IF m = "cli" THEN Structural
                       ELSE <<"DeadCodeElimination">> \o QuantPasses(m))
          /\ arch = (IF m = "cli" THEN "unknown" ELSE m)
    BY DEF Init
  <2>2. m \in {"cli", "transformer"}
    BY PipelineAssumption
  <2> QED BY <2>1, <2>2
<1>4. ToSet(Structural) \cap Quantizing = {}
  <2>1. /\ DOMAIN Structural = 1 .. 7
        /\ \A i \in 1 .. 7 : Structural[i] \notin Quantizing
    BY DEF Structural, Quantizing
  <2> QED BY <2>1 DEF ToSet
<1>5. \A x \in ToSet(graph.nodes) : x.attrs.xq = <<>>
  BY <1>2 DEF Untouched, Plain
<1> QED BY <1>1, <1>2, <1>3, <1>4, <1>5 DEF PlainInv

(* The rewrites before the quantizations. *)
LEMMA VisitUntouched ==
  ASSUME CacheInv, PlainInv, Visit, pass \notin Quantizing
  PROVE  Untouched'
<1>1. Plain(graph.nodes) /\ Whole(graph)
  BY DEF Visit, PlainInv, Untouched, CacheInv, Sound
<1>2. pass \in DOMAIN Kind \ Quantizing
  BY DEF Visit, CacheInv
<1>3. graph' = graph \/ \E node : graph' = Rewrite(pass, graph, node, fused, ranges)
  BY DEF Visit
<1>4. Plain(graph'.nodes)
  BY <1>1, <1>2, <1>3, PlainRewrite
<1> QED BY <1>4 DEF Untouched

LEMMA SweepUntouched ==
  ASSUME CacheInv, StageInv, PlainInv, FoldConstant \/ Sweep
  PROVE  Untouched' /\ ToSet(passes') \subseteq ToSet(passes)
<1>1. /\ passes # <<>> /\ passes' \in {passes, Tail(passes)}
      /\ Head(passes) \in {"ConstantFolding", "DeadCodeElimination", "OperatorFusion"}
  BY DEF FoldConstant, Sweep
<1>2. ToSet(passes) = {Head(passes)} \cup ToSet(Tail(passes))
  BY <1>1, LastTail DEF StageInv, PlanInv
<1>3. Plain(graph.nodes) /\ Whole(graph)
  <2>1. Head(passes) \in ToSet(passes) /\ Head(passes) \notin Quantizing \cup {"none"}
    BY <1>1, <1>2 DEF Quantizing
  <2> QED BY <2>1 DEF PlainInv, Untouched, CacheInv, Sound
<1>4. /\ Invalidate(graph).nodes = graph.nodes
      /\ Plain(Invalidate(eliminate_dead_code(graph)).nodes)
      /\ Plain(fuse_operators(graph).nodes)
      /\ \A n : Plain(fold_constant(graph, n).nodes)
  BY <1>3, InvalidateSound, PlainSweeps
<1>5. \/ graph' \in {Invalidate(graph), Invalidate(eliminate_dead_code(graph)),
                     fuse_operators(graph)}
      \/ \E n : graph' = fold_constant(graph, n)
  BY DEF FoldConstant, Sweep
<1>6. Plain(graph'.nodes)
  BY <1>3, <1>4, <1>5
<1> QED BY <1>1, <1>2, <1>6 DEF Untouched

(* A pass over nodes takes the next pass. *)
LEMMA BeginTakes ==
  ASSUME CacheInv, StageInv, BeginPass
  PROVE  /\ arch' = arch /\ graph'.nodes = graph.nodes /\ pass' \in DOMAIN Kind /\ pass' # "none"
         /\ pass' \in Quantizing => ToSet(passes') \subseteq Quantizing \ {pass'}
         /\ ToSet(passes) = {pass'} \cup ToSet(passes')
<1>1. /\ arch' = arch /\ passes # <<>> /\ pass' = Head(passes) /\ passes' = Tail(passes)
      /\ pass' \in DOMAIN Kind /\ pass' # "none"
  BY DEF BeginPass, Kind
<1>2. graph'.nodes = graph.nodes
  BY DEF BeginPass, Touch, CacheInv, Sound, Whole, GraphFields
<1> QED BY <1>1, <1>2, LastTail DEF StageInv, PlanInv

LEMMA NextPlainInv ==
  CacheInv /\ Formed(graph) /\ StageInv /\ PlainInv /\ [Next]_vars => PlainInv'
<1> SUFFICES ASSUME CacheInv, Formed(graph), StageInv, PlainInv, [Next]_vars PROVE PlainInv'
  OBVIOUS
<1>1. Untouched' => \A x \in ToSet(graph'.nodes) : x.attrs.xq = <<>>
  BY DEF Untouched, Plain
<1>2. CASE BeginPass
  <2>1. /\ arch' = arch /\ graph'.nodes = graph.nodes /\ pass' # "none"
        /\ pass' \in Quantizing => ToSet(passes') \subseteq Quantizing \ {pass'}
        /\ ToSet(passes) = {pass'} \cup ToSet(passes')
    BY <1>2, BeginTakes
  <2>2. Untouched' = Untouched
    BY <2>1 DEF Untouched
  <2> QED BY <2>1, <2>2 DEF PlainInv
<1>3. CASE Visit
  <2>1. arch' = arch /\ passes' = passes /\ pass' = pass
    BY <1>3 DEF Visit
  <2>2. CASE pass \notin Quantizing
    <3>1. Untouched'
      BY <1>3, <2>2, VisitUntouched
    <3> QED BY <1>1, <2>1, <3>1 DEF PlainInv
  <2>3. CASE pass \in Quantizing
    <3>1. PICK x \in ToSet(graph.nodes) : \E attrs :
            x.op \in Kind[pass] /\ graph'.nodes = AnnotatedIn(graph.nodes, x.name, attrs)
      BY <1>3, <2>3, VisitQuantizes
    <3>2. PICK attrs : graph'.nodes = AnnotatedIn(graph.nodes, x.name, attrs)
      BY <3>1
    <3> DEFINE z == Annotated(x, attrs)
    <3>3. z.op = x.op
      BY DEF Annotated
    <3> HIDE DEF z
    <3>4. \A y \in ToSet(graph'.nodes) : y \in ToSet(graph.nodes) \/ y = z
      <4>1. Dict(graph.nodes)
        BY DEF CacheInv, Sound, Whole
      <4> QED BY <3>2, <4>1, AnnotatedNodes DEF z
    <3>5. arch # "unknown" /\ ToSet(passes) \subseteq Quantizing \ {pass}
      BY <2>3 DEF PlainInv, StageInv, PlanInv
    <3>6. \A p \in ToSet(passes) : z.op \notin Kind[p]
      BY <2>3, <3>1, <3>3, <3>5, KindsApart
    <3> QED BY <2>1, <2>3, <3>4, <3>5, <3>6 DEF PlainInv
  <2> QED BY <2>2, <2>3
<1>4. CASE FoldConstant \/ Sweep
  <2>1. arch' = arch /\ pass = "none" /\ pass' = pass /\ "none" \notin Quantizing
    BY <1>4 DEF FoldConstant, Sweep, Between, Quantizing
  <2>2. Untouched' /\ ToSet(passes') \subseteq ToSet(passes)
    BY <1>4, SweepUntouched
  <2> QED BY <1>1, <2>1, <2>2 DEF PlainInv
<1>5. CASE EndPass
  <2>1. /\ pass' = "none" /\ pass # "none" /\ "none" \notin Quantizing
        /\ UNCHANGED <<passes, arch>>
    BY <1>5 DEF EndPass, Quantizing
  <2>2. graph'.nodes = graph.nodes
    BY <1>5 DEF EndPass, Invalidate, CacheInv, Sound, Whole, GraphFields
  <2>3. Untouched' = Untouched
    BY <2>2 DEF Untouched
  <2> QED BY <2>1, <2>2, <2>3 DEF PlainInv
<1>6. CASE Detect
  <2>1. graph' = graph /\ arch = "unknown" /\ arch' # "unknown"
    BY <1>6 DEF Detect, detect_architecture
  <2>2. Untouched'
    BY <2>1 DEF PlainInv, Untouched
  <2> QED BY <1>1, <2>1, <2>2 DEF PlainInv
<1>7. CASE UNCHANGED <<graph, passes, pass, arch>>
  BY <1>7 DEF PlainInv, Untouched
<1>8. Unsupported \/ Finish \/ Stopped \/ UNCHANGED vars
        => UNCHANGED <<graph, passes, pass, arch>>
  BY DEF Unsupported, Finish, Stopped, vars
<1> QED BY <1>2, <1>3, <1>4, <1>5, <1>6, <1>7, <1>8 DEF Next
-------------------------------------------------------------------------------
(* What is formed when the quantizations begin stays so: they change none of     *)
(* what that is about.                                                     *)
Reshaped(g, h) ==
  /\ DOMAIN h.nodes = DOMAIN g.nodes
  /\ \A i \in DOMAIN g.nodes : /\ h.nodes[i].name = g.nodes[i].name
                               /\ h.nodes[i].op = g.nodes[i].op
                               /\ h.nodes[i].ins = g.nodes[i].ins
                               /\ h.nodes[i].out = g.nodes[i].out
  /\ h.inputs = g.inputs /\ DOMAIN h.tensors = DOMAIN g.tensors
  /\ \A t \in DOMAIN g.tensors : IsConstant(g, t) => IsConstant(h, t)

(* The producer of a tensor has the same name in both. *)
LEMMA ProducerAlike ==
  ASSUME NEW g, Sound(g), NEW h, Sound(h), Reshaped(g, h), NEW t
  PROVE  /\ Producer(g, t) = NoNode <=> Producer(h, t) = NoNode
         /\ Producer(g, t) # NoNode => Producer(h, t).name = Producer(g, t).name
<1> DEFINE links == Links(g.nodes)
           made == {i \in DOMAIN links : links[i].out = t}
           m == links[Max(made)].name
<1>1. Dict(g.nodes) /\ Dict(h.nodes) /\ Links(h.nodes) = links
  BY DEF Sound, Whole, Reshaped, Links
<1>2. Adjacency(g) = links /\ Adjacency(h) = links
  BY <1>1, FreshMaps
<1>3. Names(h.nodes) = Names(g.nodes)
  BY DEF Reshaped, Names
<1>4. \A f : Dict(f.nodes) =>
        IF m \in Names(f.nodes)
        THEN Lookup(f.nodes, m) # NoNode /\ Lookup(f.nodes, m).name = m
        ELSE Lookup(f.nodes, m) = NoNode
  <2> HIDE DEF m
  <2> SUFFICES ASSUME NEW f, Dict(f.nodes), m \in Names(f.nodes)
               PROVE  Lookup(f.nodes, m) # NoNode /\ Lookup(f.nodes, m).name = m
    BY DEF Lookup
  <2>1. Lookup(f.nodes, m) \in ToSet(f.nodes) /\ Lookup(f.nodes, m).name = m
    BY LookupFinds
  <2>2. "attrs" \in DOMAIN Lookup(f.nodes, m)
    BY <2>1, NodeUnique DEF NodeFields, IsNode
  <2>3. "attrs" \notin DOMAIN NoNode
    BY DEF NoNode
  <2> QED BY <2>1, <2>2, <2>3
<1>5. /\ Producer(g, t) = IF made = {} THEN NoNode ELSE Lookup(g.nodes, m)
      /\ Producer(h, t) = IF made = {} THEN NoNode ELSE Lookup(h.nodes, m)
  BY <1>2 DEF Producer, ProducerBy
<1> HIDE DEF links, made, m
<1> QED BY <1>1, <1>3, <1>4, <1>5

LEMMA OrderAlike ==
  ASSUME NEW g, Sound(g), NEW h, Sound(h), Reshaped(g, h)
  PROVE  TopoOrder(h) = TopoOrder(g) /\ Len(h.nodes) = Len(g.nodes)
<1>1. Dict(g.nodes) /\ Dict(h.nodes) /\ NodeNames(h) = NodeNames(g)
  BY DEF Sound, Whole, Reshaped, NodeNames, Names
<1>2. Len(h.nodes) = Len(g.nodes)
  <2>1. /\ DOMAIN g.nodes = 1 .. Len(g.nodes) /\ Len(g.nodes) \in Nat
        /\ DOMAIN h.nodes = 1 .. Len(h.nodes) /\ Len(h.nodes) \in Nat
    BY <1>1, DictMembers
  <2>2. 1 .. Len(h.nodes) = 1 .. Len(g.nodes)
    BY <2>1 DEF Reshaped
  <2> QED BY <2>1, <2>2
<1>3. NamesInOrder(h) = NamesInOrder(g)
  BY DEF NamesInOrder, Reshaped
<1>4. ASSUME NEW n \in NodeNames(g) PROVE NodeOf(h, n).ins = NodeOf(g, n).ins
  <2>1. PICK i \in DOMAIN g.nodes : g.nodes[i].name = n
    BY DEF NodeNames, Names
  <2>2. g.nodes[i] \in ToSet(g.nodes) /\ h.nodes[i] \in ToSet(h.nodes) /\ h.nodes[i].name = n
    BY <2>1 DEF Reshaped, ToSet
  <2>3. NodeOf(g, n) = g.nodes[i] /\ NodeOf(h, n) = h.nodes[i]
    BY <1>1, <2>1, <2>2, NodeUnique
  <2> QED BY <2>3 DEF Reshaped
<1>5. Needs(h) = Needs(g)
  <2>1. ASSUME NEW T
        PROVE  {p.name : p \in {Producer(h, t) : t \in T} \ {NoNode}}
                 = {p.name : p \in {Producer(g, t) : t \in T} \ {NoNode}}
    <3>1. \A t : /\ Producer(g, t) = NoNode <=> Producer(h, t) = NoNode
                 /\ Producer(g, t) # NoNode => Producer(h, t).name = Producer(g, t).name
      BY ProducerAlike
    <3> QED BY <3>1
  <2> QED BY <1>1, <1>4, <2>1 DEF Needs
<1> QED BY <1>2, <1>3, <1>5 DEF TopoOrder

LEMMA FormedAlike ==
  ASSUME NEW g, Formed(g), NEW h, Sound(h), Reshaped(g, h)
  PROVE  Formed(h)
<1>1. Sound(g) /\ Dict(g.nodes)
  BY DEF Formed, Arranged, Sound, Whole
<1>2. \A y \in ToSet(h.nodes) : \E x \in ToSet(g.nodes) :
        y.name = x.name /\ y.op = x.op /\ y.ins = x.ins /\ y.out = x.out
  BY DEF Reshaped, ToSet
<1>3. Separate(h)
  <2> SUFFICES ASSUME NEW x \in ToSet(h.nodes), x.op \in LinearTypes \cup ConvTypes
               PROVE  /\ Len(x.ins) >= 2
                      /\ \A y \in ToSet(h.nodes) :
                           y.op \in LinearTypes \cup ConvTypes \cup {"FusedAttention"} =>
                             /\ x.ins[2] \notin BiasesOf(y)
                             /\ Len(x.ins) > 2 => x.ins[3] \notin WeightsOf(y)
    BY DEF Separate
  <2>1. PICK u \in ToSet(g.nodes) : u.op = x.op /\ u.ins = x.ins
    BY <1>2
  <2>2. Len(x.ins) >= 2
    BY <2>1 DEF Formed, Arranged, Separate
  <2>3. ASSUME NEW y \in ToSet(h.nodes),
               y.op \in LinearTypes \cup ConvTypes \cup {"FusedAttention"}
        PROVE  x.ins[2] \notin BiasesOf(y) /\ (Len(x.ins) > 2 => x.ins[3] \notin WeightsOf(y))
    <3>1. PICK v \in ToSet(g.nodes) : v.op = y.op /\ v.ins = y.ins
      BY <1>2
    <3>2. BiasesOf(v) = BiasesOf(y) /\ WeightsOf(v) = WeightsOf(y)
      BY <3>1 DEF BiasesOf, WeightsOf
    <3> QED BY <2>1, <2>3, <3>1, <3>2 DEF Formed, Arranged, Separate
  <2> QED BY <2>2, <2>3
<1>4. /\ \A y \in ToSet(h.nodes) : y.ins \in Seq(DOMAIN h.tensors)
      /\ \A y \in ToSet(h.nodes) : y.out \in DOMAIN h.tensors
  BY <1>2 DEF Formed, Arranged, Reshaped
<1>5. IsAcyclic(h)
  BY <1>1, OrderAlike DEF Formed, IsAcyclic
<1>6. Fed(h)
  <2> SUFFICES ASSUME NEW y \in ToSet(h.nodes), NEW t \in ToSet(y.ins),
                      t \notin ToSet(h.inputs), ~IsConstant(h, t)
               PROVE  get_producers(h, t) # {}
    BY DEF Fed
  <2>1. PICK x \in ToSet(g.nodes) : y.ins = x.ins
    BY <1>2
  <2>2. t \in DOMAIN g.tensors
    <3>1. x.ins \in Seq(DOMAIN g.tensors)
      BY DEF Formed, Arranged
    <3> QED BY <2>1, <3>1, LenProperties, ElementOfSeq DEF ToSet
  <2>3. get_producers(g, t) # {}
    BY <2>1, <2>2 DEF Formed, Fed, Reshaped
  <2>4. PICK i \in DOMAIN g.nodes : g.nodes[i].out = t
    BY <2>3 DEF get_producers, ToSet
  <2>5. h.nodes[i] \in ToSet(h.nodes) /\ h.nodes[i].out = t
    BY <2>4 DEF Reshaped, ToSet
  <2> QED BY <2>5 DEF get_producers
<1>7. ASSUME NEW x \in ToSet(h.nodes), NEW y \in ToSet(h.nodes), x.out \in ToSet(y.ins),
             NEW z \in ToSet(h.nodes), z.out = x.out
      PROVE  z = x
  <2>1. PICK i \in DOMAIN g.nodes, j \in DOMAIN g.nodes : x = h.nodes[i] /\ z = h.nodes[j]
    BY DEF Reshaped, ToSet
  <2>2. PICK u \in ToSet(g.nodes) : y.ins = u.ins
    BY <1>2
  <2>3. /\ g.nodes[i] \in ToSet(g.nodes) /\ g.nodes[j] \in ToSet(g.nodes)
        /\ g.nodes[i].out \in ToSet(u.ins) /\ g.nodes[j].out = g.nodes[i].out
    BY <1>7, <2>1, <2>2 DEF Reshaped, ToSet
  <2>4. g.nodes[j] = g.nodes[i]
    BY <2>3 DEF Formed
  <2>5. i = j
    BY <1>1, <2>4 DEF Dict
  <2> QED BY <2>1, <2>5
<1> QED BY <1>3, <1>4, <1>5, <1>6, <1>7 DEF Formed, Arranged

FormInv == Formed(graph)

(* A step after which some node is quantized leaves a formed graph so. *)
LEMMA NextFormInv ==
  CacheInv /\ CacheInv' /\ FormInv /\ StageInv /\ PlainInv /\ ~Untouched' /\ [Next]_vars
    => FormInv'
<1> SUFFICES ASSUME CacheInv, CacheInv', Formed(graph), StageInv, PlainInv, ~Untouched',
                    [Next]_vars
             PROVE  Formed(graph')
  BY DEF FormInv
<1>1. Sound(graph) /\ Sound(graph') /\ Whole(graph)
  BY DEF CacheInv, Sound
<1>2. CASE Visit
  <2>1. pass \in Quantizing
    BY <1>2, VisitUntouched
  <2>2. PICK x \in ToSet(graph.nodes) : \E attrs :
          /\ graph'.nodes = AnnotatedIn(graph.nodes, x.name, attrs)
          /\ Retyped(graph, graph', x)
    BY <1>2, <2>1, VisitQuantizes
  <2>3. Reshaped(graph, graph')
    <3>1. /\ DOMAIN graph'.nodes = DOMAIN graph.nodes
          /\ \A i \in DOMAIN graph.nodes :
               graph'.nodes[i] = graph.nodes[i]
                 \/ \E attrs : graph'.nodes[i] = Annotated(graph.nodes[i], attrs)
      BY <2>2 DEF AnnotatedIn
    <3>2. \A y, attrs : /\ Annotated(y, attrs).name = y.name /\ Annotated(y, attrs).op = y.op
                        /\ Annotated(y, attrs).ins = y.ins /\ Annotated(y, attrs).out = y.out
      BY DEF Annotated
    <3>3. /\ graph'.inputs = graph.inputs /\ DOMAIN graph'.tensors = DOMAIN graph.tensors
          /\ \A t \in DOMAIN graph.tensors : IsConstant(graph, t) => IsConstant(graph', t)
      BY <2>2 DEF Retyped, IsConstant
    <3> QED BY <3>1, <3>2, <3>3 DEF Reshaped
  <2> QED BY <1>1, <2>3, FormedAlike
<1>3. CASE FoldConstant \/ Sweep
  BY <1>3, SweepUntouched
<1>4. CASE BeginPass \/ EndPass
  <2>1. graph' \in {Touch(graph), Invalidate(graph)}
    BY <1>4 DEF BeginPass, EndPass
  <2>2. /\ graph'.nodes = graph.nodes /\ graph'.tensors = graph.tensors
        /\ graph'.inputs = graph.inputs
    BY <1>1, <2>1 DEF Touch, Invalidate, Whole, GraphFields
  <2>3. Reshaped(graph, graph')
    BY <2>2 DEF Reshaped, IsConstant
  <2> QED BY <1>1, <2>3, FormedAlike
<1>5. CASE graph' = graph
  BY <1>5
<1>6. Unsupported \/ Detect \/ Finish \/ Stopped \/ UNCHANGED vars => graph' = graph
  BY DEF Unsupported, Detect, Finish, Stopped, vars
<1> QED BY <1>2, <1>3, <1>4, <1>5, <1>6 DEF Next

(* As long as nothing is quantized the graph is accepted. *)
Prepared == Untouched => Accepted

LEMMA Formedness == Spec /\ []Prepared => [](CacheInv /\ FormInv /\ StageInv /\ PlainInv)
<1>1. CacheInv /\ Prepared /\ Untouched => FormInv
  BY AcceptedIsFormed DEF Prepared, FormInv
<1>2. CacheInv /\ FormInv /\ StageInv /\ [Next]_vars => StageInv'
  BY NextStageInv DEF FormInv
<1>3. CacheInv /\ FormInv /\ StageInv /\ PlainInv /\ [Next]_vars => PlainInv'
  BY NextPlainInv DEF FormInv
<1> QED
  BY <1>1, <1>2, <1>3, InitCacheInv, NextCacheInv, InitStageInv, InitPlainInv, NextFormInv,
     PTL DEF Spec

(* However the passes leave a graph, and at whatever moment it is partitioned: *)
(* the blocks list every node once, in the order of the graph, and no block    *)
(* reads what a later block makes, if every rewrite before the quantizations   *)
(* left a graph that is accepted, as it must for the interpreter.           *)
THEOREM BlocksAreComposed == Spec /\ []Prepared => []BlocksCompose
<1>1. FormInv => BlocksCompose
  BY FedComposes DEF FormInv, Formed, Arranged
<1> QED BY <1>1, Formedness, PTL

(* When stage 2 is done, its validator finds nothing that quantization should   *)
(* have seen to: no linear or convolutional layer is left out, half quantized, *)
(* or quantized and then replaced, whatever the graph and the architecture, as *)
(* long as every rewrite before the quantizations leaves a graph that           *)
(* validate_stage1 accepts and that separates weights from biases.           *)
THEOREM NoLayerIsLeftOut == Spec /\ []Prepared => []StageValidates
<1>1. StageInv => StageValidates
  <2> SUFFICES ASSUME StageInv, status = "done" PROVE StageValidates
    BY DEF StageValidates
  <2>1. /\ pass = "none" /\ passes = <<>> /\ arch # "unknown"
        /\ arch = "mlp" => \A x \in ToSet(graph.nodes) : x.op \in LinearTypes
    BY DEF StageInv, PlanInv
  <2>2. \A x \in ToSet(graph.nodes) : x.op \in LayerOps => Fulfilled(graph, x)
    <3>1. ToSet(passes) = {} /\ \A x : Due(x) # "none"
      BY <2>1 DEF ToSet, Due
    <3> QED BY <2>1, <3>1 DEF StageInv, DueInv
  <2>3. \A x \in ToSet(graph.nodes) : x.op \in LayerOps =>
          ~Unquantized(graph, x) /\ ~WideWeight(graph, x)
    BY <2>2 DEF Fulfilled, Unquantized, WideWeight
  <2>4. arch = "mlp" => validate_stage2e(graph) = {}
    BY <2>1, <2>3 DEF validate_stage2e, validate_stage2d, Errors, NodesOf, LayerOps
  <2>5. validate_stage2e_dag(graph) = validate_stage2d_dag(graph)
    <3>1. /\ NodesOf(graph, LAMBDA x : x.op \in ConvTypes /\ Unquantized(graph, x)) = {}
          /\ NodesOf(graph, LAMBDA x : x.op \in ConvTypes /\ WideWeight(graph, x)) = {}
      BY <2>3 DEF NodesOf, LayerOps
    <3>2. \A code : Errors(code, {}) = {}
      BY DEF Errors
    <3> QED BY <3>1, <3>2 DEF validate_stage2e_dag
  <2>6. \A x \in ToSet(graph.nodes) : x.op \in LayerOps =>
          IsQuantized(x) /\ (Len(x.ins) > 2 => graph.tensors[x.ins[3]].dtype = "int32")
    BY <2>2 DEF Fulfilled
  <2> QED BY <2>4, <2>5, <2>6 DEF StageValidates, LayerOps
<1> QED BY <1>1, Formedness, PTL

-------------------------------------------------------------------------------
(* Layers that follow each other agree on the scale between them.              *)

(* What a run computes: the tensors before the first node runs, what a node       *)
(* makes of them for calibration and in the meaning of a graph, and one step.   *)
Loaded(g, x) ==
  [t \in DOMAIN g.tensors |->
     IF IsConstant(g, t) \/ t \notin ToSet(g.inputs) THEN g.tensors[t].raw ELSE x]
Computes(node, values) == Execute(node.op, [j \in DOMAIN node.ins |-> values[node.ins[j]]])
Applied(node, v) == IF node.op = "FusedMLP" THEN FusedMLP(v, node.attrs) ELSE Execute(node.op, v)
Means(node, values) ==
  Applied(node, [j \in DOMAIN node.ins |-> Dequantized(node, j, values[node.ins[j]])])
Does(how, node, values) == IF how = "measure" THEN Computes(node, values) ELSE Means(node, values)
Stepped(how, g, values, n) == [values EXCEPT ![NodeOf(g, n).out] = Does(how, NodeOf(g, n), values)]

(* The values after each of the nodes in order. *)
Measures(how, g, x, A, n) ==
  /\ A = [k \in 0 .. n |-> A[k]]
  /\ A[0] = Loaded(g, x)
  /\ \A k \in 1 .. n : A[k] = Stepped(how, g, A[k - 1], TopoOrder(g)[k])

LEMMA MeasuresExist ==
  ASSUME NEW how, NEW g, NEW x, NEW n \in Nat
  PROVE  \E A : Measures(how, g, x, A, n)
<1> DEFINE Good == {m \in 0 .. n : \E A : Measures(how, g, x, A, m)}
<1>1. 0 \in Good
  <2> DEFINE A == [i \in 0 .. 0 |-> Loaded(g, x)]
  <2>1. Measures(how, g, x, A, 0)
    BY DEF Measures
  <2> QED BY <2>1
<1>2. ASSUME NEW m \in 1 .. n, m - 1 \in Good PROVE m \in Good
  <2>1. PICK A : Measures(how, g, x, A, m - 1)
    BY <1>2
  <2> DEFINE B == [i \in 0 .. m |->
                     IF i = m THEN Stepped(how, g, A[m - 1], TopoOrder(g)[m]) ELSE A[i]]
  <2>2. \A i \in 0 .. m : B[i] = IF i = m THEN Stepped(how, g, A[m - 1], TopoOrder(g)[m]) ELSE A[i]
    OBVIOUS
  <2>3. B = [i \in 0 .. m |-> B[i]]
    OBVIOUS
  <2> HIDE DEF B
  <2>4. B[0] = Loaded(g, x)
    <3>1. 0 \in 0 .. m /\ 0 # m
      OBVIOUS
    <3> QED BY <2>1, <2>2, <3>1 DEF Measures
  <2>5. ASSUME NEW i \in 1 .. m PROVE B[i] = Stepped(how, g, B[i - 1], TopoOrder(g)[i])
    <3>1. i - 1 \in 0 .. m /\ i - 1 # m /\ i \in 0 .. m
      OBVIOUS
    <3>2. B[i - 1] = A[i - 1]
      BY <2>2, <3>1
    <3>3. CASE i = m
      BY <2>2, <3>1, <3>2, <3>3
    <3>4. CASE i # m
      <4>1. i \in 1 .. m - 1
        BY <3>4
      <4>2. A[i] = Stepped(how, g, A[i - 1], TopoOrder(g)[i])
        BY <2>1, <4>1 DEF Measures
      <4> QED BY <2>2, <3>1, <3>2, <3>4, <4>2
    <3> QED BY <3>3, <3>4
  <2>6. Measures(how, g, x, B, m)
    BY <2>3, <2>4, <2>5 DEF Measures
  <2> QED BY <2>6
<1>3. n \in Good
  <2> HIDE DEF Good
  <2> QED BY <1>1, <1>2, UpTo
<1> QED BY <1>3

LEMMA RunUnfolds ==
  ASSUME NEW g, NEW x, Len(TopoOrder(g)) \in Nat
  PROVE  \E A : /\ Measures("measure", g, x, A, Len(TopoOrder(g)))
                /\ run_all(g, x) = A[Len(TopoOrder(g))]
<1> DEFINE order == TopoOrder(g)
           n == Len(order)
           e(S, k) == IF k = 0 THEN Loaded(g, x) ELSE
             [S[k - 1] EXCEPT ![NodeOf(g, order[k]).out] = Computes(NodeOf(g, order[k]), S[k - 1])]
           R == CHOOSE S : S = [k \in 0 .. n |-> e(S, k)]
<1>1. PICK A : Measures("measure", g, x, A, n)
  BY MeasuresExist
<1>2. A = [k \in 0 .. n |-> e(A, k)]
  <2>1. ASSUME NEW k \in 0 .. n PROVE A[k] = e(A, k)
    <3>1. CASE k = 0
      BY <1>1, <3>1 DEF Measures
    <3>2. CASE k # 0
      <4>1. k \in 1 .. n
        BY <3>2
      <4> QED BY <1>1, <3>2, <4>1 DEF Measures, Stepped, Does
    <3> QED BY <3>1, <3>2
  <2> HIDE DEF e
  <2>2. A = [k \in 0 .. n |-> A[k]]
    BY <1>1 DEF Measures
  <2> QED BY <2>1, <2>2
<1>3. R = [k \in 0 .. n |-> e(R, k)]
  BY <1>2
<1>4. run_all(g, x) = R[n]
  BY DEF run_all, Run, Loaded, Computes
<1> HIDE DEF R
<1>5. Measures("measure", g, x, R, n)
  <2>1. \A k \in 0 .. n : R[k] = e(R, k)
    BY <1>3
  <2>2. R = [k \in 0 .. n |-> R[k]]
    BY <1>3
  <2>3. 0 \in 0 .. n /\ \A k \in 1 .. n : k \in 0 .. n /\ k # 0
    OBVIOUS
  <2> QED BY <2>1, <2>2, <2>3 DEF Measures, Stepped, Does
<1> QED BY <1>4, <1>5

LEMMA MeaningUnfolds ==
  ASSUME NEW g, NEW x, Len(TopoOrder(g)) \in Nat
  PROVE  \E A : /\ Measures("mean", g, x, A, Len(TopoOrder(g)))
                /\ Meaning(g, x) = [i \in DOMAIN g.outputs |-> A[Len(TopoOrder(g))][g.outputs[i]]]
<1> DEFINE order == TopoOrder(g)
           n == Len(order)
           e(S, k) == IF k = 0 THEN Loaded(g, x) ELSE
             [S[k - 1] EXCEPT ![NodeOf(g, order[k]).out] = Means(NodeOf(g, order[k]), S[k - 1])]
           R == CHOOSE S : S = [k \in 0 .. n |-> e(S, k)]
<1>1. PICK A : Measures("mean", g, x, A, n)
  BY MeasuresExist
<1>2. A = [k \in 0 .. n |-> e(A, k)]
  <2>1. ASSUME NEW k \in 0 .. n PROVE A[k] = e(A, k)
    <3>1. CASE k = 0
      BY <1>1, <3>1 DEF Measures
    <3>2. CASE k # 0
      <4>1. k \in 1 .. n
        BY <3>2
      <4> QED BY <1>1, <3>2, <4>1 DEF Measures, Stepped, Does
    <3> QED BY <3>1, <3>2
  <2> HIDE DEF e
  <2>2. A = [k \in 0 .. n |-> A[k]]
    BY <1>1 DEF Measures
  <2> QED BY <2>1, <2>2
<1>3. R = [k \in 0 .. n |-> e(R, k)]
  BY <1>2
<1>4. Meaning(g, x) = [i \in DOMAIN g.outputs |-> R[n][g.outputs[i]]]
  BY DEF Meaning, Run, Loaded, Means, Applied
<1> HIDE DEF R
<1>5. Measures("mean", g, x, R, n)
  <2>1. \A k \in 0 .. n : R[k] = e(R, k)
    BY <1>3
  <2>2. R = [k \in 0 .. n |-> R[k]]
    BY <1>3
  <2>3. 0 \in 0 .. n /\ \A k \in 1 .. n : k \in 0 .. n /\ k # 0
    OBVIOUS
  <2> QED BY <2>1, <2>2, <2>3 DEF Measures, Stepped, Does
<1> QED BY <1>4, <1>5

LEMMA SteppedValues ==
  ASSUME NEW how, NEW g, NEW values, NEW n, NEW t \in DOMAIN values
  PROVE  /\ t \in DOMAIN Stepped(how, g, values, n)
         /\ Stepped(how, g, values, n)[t] =
              IF t = NodeOf(g, n).out THEN Does(how, NodeOf(g, n), values) ELSE values[t]
BY DEF Stepped

(* What only one node makes is what that node computes of something. *)
LEMMA RunMakes ==
  ASSUME NEW g, Dict(g.nodes), IsAcyclic(g), NEW s, NEW x \in ToSet(g.nodes),
         \A y \in ToSet(g.nodes) : y.out = x.out => y = x, x.out \in DOMAIN g.tensors
  PROVE  \E v : run_all(g, s)[x.out] = Execute(x.op, v)
<1> DEFINE order == TopoOrder(g)
           n == Len(order)
           t == x.out
<1>1. /\ n \in Nat /\ DOMAIN order = 1 .. n /\ ToSet(order) = NodeNames(g)
      /\ \A i \in 1 .. n : order[i] \in NodeNames(g)
  BY TopoOrders, TopoComplete, LenProperties, ElementOfSeq
<1>2. \A i \in 1 .. n : NodeOf(g, order[i]) \in ToSet(g.nodes)
                        /\ NodeOf(g, order[i]).name = order[i]
  BY <1>1, LookupFinds DEF NodeOf, NodeNames
<1>3. PICK p \in 1 .. n : order[p] = x.name
  <2>1. x.name \in ToSet(order)
    BY <1>1, NodeUnique
  <2> QED BY <1>1, <2>1 DEF ToSet
<1>4. NodeOf(g, order[p]) = x
  BY <1>3, NodeUnique
<1>5. PICK A : Measures("measure", g, s, A, n) /\ run_all(g, s) = A[n]
  BY <1>1, RunUnfolds
<1> DEFINE Made_(k) == \E v : A[k][t] = Execute(x.op, v)
           Good == {k \in 0 .. n : t \in DOMAIN A[k] /\ (k >= p => Made_(k))}
<1> HIDE DEF order, n, t
<1>6. 0 \in Good
  <2>1. A[0] = Loaded(g, s)
    BY <1>5 DEF Measures, order
  <2>2. t \in DOMAIN A[0]
    BY <2>1 DEF Loaded, t
  <2> QED BY <1>1, <2>2
<1>7. ASSUME NEW i \in 1 .. n, i - 1 \in Good PROVE i \in Good
  <2> DEFINE y == NodeOf(g, order[i])
             before == A[i - 1]
  <2>1. A[i] = Stepped("measure", g, before, order[i]) /\ t \in DOMAIN before
    BY <1>5, <1>7 DEF Measures, order
  <2>2. t \in DOMAIN A[i] /\ A[i][t] = IF t = y.out THEN Computes(y, before) ELSE before[t]
    <3> HIDE DEF before
    <3> QED BY <2>1, SteppedValues DEF Does
  <2>3. CASE y.out = t
    <3>1. y = x
      BY <1>2, <2>3 DEF t
    <3>2. Made_(i)
      BY <2>2, <2>3, <3>1 DEF Computes
    <3> QED BY <1>1, <2>2, <3>2
  <2>4. CASE y.out # t
    <3>1. SUFFICES ASSUME i >= p PROVE Made_(i)
      BY <1>1, <2>2
    <3>2. i # p
      BY <1>4, <2>4 DEF t
    <3>3. i - 1 >= p
      BY <1>1, <3>1, <3>2
    <3>4. Made_(i - 1)
      BY <1>7, <3>3
    <3> QED BY <2>2, <2>4, <3>4
  <2> QED BY <2>3, <2>4
<1>8. n \in Good
  <2> HIDE DEF Good
  <2>1. \A i \in 0 .. n : i \in Good
    BY <1>1, <1>6, <1>7, UpTo
  <2> QED BY <1>1, <2>1
<1>9. Made_(n)
  BY <1>1, <1>8
<1> QED BY <1>5, <1>9 DEF t

LEMMA MaxIs ==
  ASSUME NEW T \in SUBSET Int, NEW m \in T, \A y \in T : m >= y
  PROVE  Max(T) = m
<1>1. \E x \in T : \A y \in T : x >= y
  OBVIOUS
<1>2. Max(T) \in T /\ \A y \in T : Max(T) >= y
  BY <1>1 DEF Max
<1>3. m \in Int /\ Max(T) \in Int /\ m >= Max(T) /\ Max(T) >= m
  BY <1>2
<1> QED BY <1>3

LEMMA MinIs ==
  ASSUME NEW T \in SUBSET Int, NEW m \in T, \A y \in T : m <= y
  PROVE  Min(T) = m
<1>1. \E x \in T : \A y \in T : x <= y
  OBVIOUS
<1>2. Min(T) \in T /\ \A y \in T : Min(T) <= y
  BY <1>1 DEF Min
<1>3. m \in Int /\ Min(T) \in Int /\ m <= Min(T) /\ Min(T) <= m
  BY <1>2
<1> QED BY <1>3

LEMMA Least ==
  ASSUME NEW T \in SUBSET Nat, T # {}
  PROVE  Min(T) \in T
<1>1. IsWellFoundedOn(OpToRel(<, Nat), Nat)
  BY NatLessThanWellFounded
<1>2. PICK m \in T : \A y \in T : <<y, m>> \notin OpToRel(<, Nat)
  BY <1>1, WFMin
<1>3. \A y \in T : m <= y
  <2>1. \A y \in T : ~(y < m)
    BY <1>2 DEF OpToRel
  <2> QED BY <2>1
<1>4. Min(T) = m
  BY <1>3, MinIs
<1> QED BY <1>4

(* An activation leaves of the calibrated range all of it: what the layer       *)
(* computed during calibration has been through it.                         *)
LEMMA CalibrationIsCut ==
  ASSUME NEW g, Dict(g.nodes), IsAcyclic(g), NEW x \in ToSet(g.nodes),
         \A y \in ToSet(g.nodes) : y.out = x.out => y = x,
         x.out \in DOMAIN g.tensors, \A s \in Samples : run_all(g, s)[x.out] \in Int
  PROVE  Clamped(x.op, Calibrate(g)[x.out]) = Calibrate(g)[x.out]
<1> DEFINE all == [s \in Samples |-> run_all(g, s)]
           t == x.out
           T == {all[s][t] : s \in Samples}
<1>1. Calibrate(g)[t] = <<Min(T), Max(T)>>
  BY DEF Calibrate
<1>2. T \in SUBSET Int /\ T # {} /\ \A w \in T : \E v : w = Execute(x.op, v)
  <2>1. \A s \in Samples : \E v : all[s][t] = Execute(x.op, v)
    BY RunMakes
  <2>2. \A s \in Samples : all[s][t] \in Int
    OBVIOUS
  <2>3. Samples # {}
    BY PipelineAssumption
  <2> HIDE DEF all, t
  <2> QED BY <2>1, <2>2, <2>3
<1> HIDE DEF T
<1>3. CASE x.op \in {"FusedLinearReLU", "FusedConvReLU"}
  <2>1. ASSUME NEW w \in T PROVE w \in Nat
    <3>1. PICK v : w = Execute(x.op, v)
      BY <1>2
    <3>2. \E u : w = ReluOf(u)
      BY <1>3, <3>1 DEF Execute
    <3> QED BY <1>2, <3>2 DEF ReluOf
  <2>2. Min(T) \in Nat
    BY <1>2, <2>1, Least
  <2>3. Max({Min(T), 0}) = Min(T)
    BY <2>2, MaxIs
  <2> QED BY <1>1, <1>3, <2>3 DEF Clamped
<1>4. CASE x.op = "FusedConvReLU6"
  <2>1. ASSUME NEW w \in T PROVE w \in 0 .. 6
    <3>1. PICK v : w = Execute(x.op, v)
      BY <1>2
    <3>2. \E u : w = Clip(u, 0, 6)
      BY <1>4, <3>1 DEF Execute
    <3> QED BY <1>2, <3>2 DEF Clip
  <2>2. Min(T) \in Nat
    BY <1>2, <2>1, Least
  <2>3. Max({Min(T), 0}) = Min(T)
    BY <2>2, MaxIs
  <2>4. Max(T) \in 0 .. 6
    BY <1>2, <2>1, Greatest
  <2>5. Min({Max(T), 6}) = Max(T)
    <3> DEFINE m == Max(T)
    <3>1. m \in Int /\ m <= 6
      BY <2>4
    <3> HIDE DEF m
    <3>2. {m, 6} \in SUBSET Int /\ m \in {m, 6} /\ \A y \in {m, 6} : m <= y
      BY <3>1
    <3>3. Min({m, 6}) = m
      BY <3>2, MinIs
    <3> QED BY <3>3 DEF m
  <2> QED BY <1>1, <1>4, <2>3, <2>5 DEF Clamped
<1>5. CASE x.op \notin {"FusedLinearReLU", "FusedConvReLU", "FusedConvReLU6"}
  BY <1>1, <1>5 DEF Clamped
<1> QED BY <1>3, <1>4, <1>5

(* When a quantization is about to calibrate, what it measures are numbers.    *)
Measurable == Between /\ passes # <<>> /\ Head(passes) \in Quantizing => Numeric

(* Calibration gives a layer whose output is read a range that its activation  *)
(* leaves as it is.                                                        *)
Cut(op, range) == Clamped(op, range) = range

LEMMA CalibratedCut ==
  ASSUME Formed(graph), Measurable, Between, passes # <<>>, Head(passes) \in Quantizing,
         CanRun(graph), NEW x \in ToSet(graph.nodes), NEW y \in ToSet(graph.nodes),
         x.out \in ToSet(y.ins)
  PROVE  Cut(x.op, RangeOf(Calibrate(graph), x.out))
<1>1. Dict(graph.nodes) /\ IsAcyclic(graph) /\ x.out \in DOMAIN graph.tensors
  BY DEF Formed, Arranged, Sound, Whole
<1>2. \A z \in ToSet(graph.nodes) : z.out = x.out => z = x
  BY DEF Formed
<1>4. \A s \in Samples : run_all(graph, s)[x.out] \in Int
  BY <1>1 DEF Measurable, Numeric
<1>5. Clamped(x.op, Calibrate(graph)[x.out]) = Calibrate(graph)[x.out]
  BY <1>1, <1>2, <1>4, CalibrationIsCut
<1>6. RangeOf(Calibrate(graph), x.out) = Calibrate(graph)[x.out]
  BY <1>1, CalibrateRanges DEF RangeOf
<1> QED BY <1>5, <1>6 DEF Cut

(* What a quantization under way has written is what it calibrated.            *)
Written(x) ==
  /\ x.attrs.xq = RangeOf(ranges, x.ins[1])
  /\ x.attrs.yq = Clamped(x.op, RangeOf(ranges, x.out))

RangeInv ==
  pass \in Quantizing =>
    \A x \in ToSet(graph.nodes) :
      /\ x.op \in Executable
      /\ x.op \in Kind[pass] =>
           /\ IsQuantized(x) => Written(x)
           /\ \A y \in ToSet(graph.nodes) : x.out \in ToSet(y.ins) => Cut(x.op, RangeOf(ranges, x.out))

(* Layers that one pass quantizes. *)
Alike(x, y) == \E p \in Quantizing : {x.op, y.op} \subseteq Kind[p]

AgreeInv ==
  \A x, y \in ToSet(graph.nodes) :
    IsQuantized(x) /\ IsQuantized(y) /\ y.ins[1] = x.out /\ Alike(x, y) => x.attrs.yq = y.attrs.xq

ScaleInv == RangeInv /\ AgreeInv

(* While nothing is quantized, the invariant holds. *)
Quiet == Untouched /\ pass \notin Quantizing

LEMMA QuietScales == Quiet => ScaleInv
  BY PlainAgrees DEF Quiet, Untouched, ScaleInv, RangeInv, AgreeInv

(* A quantization begins. *)
LEMMA BeginScaleInv ==
  ASSUME CacheInv, Formed(graph), Measurable, StageInv, PlainInv, ScaleInv, BeginPass
  PROVE  ScaleInv'
<1>1. /\ Between /\ passes # <<>> /\ pass' = Head(passes)
      /\ pass' \in Quantizing => CanRun(graph) /\ ranges' = Calibrate(graph)
  BY DEF BeginPass
<1>2. /\ graph'.nodes = graph.nodes /\ ToSet(passes) = {pass'} \cup ToSet(passes')
  BY BeginTakes
<1>3. RangeInv'
  <2>1. SUFFICES ASSUME pass' \in Quantizing, NEW x \in ToSet(graph.nodes)
                 PROVE  /\ x.op \in Executable
                        /\ x.op \in Kind[pass'] =>
                             /\ ~IsQuantized(x)
                             /\ \A y \in ToSet(graph.nodes) :
                                  x.out \in ToSet(y.ins) => Cut(x.op, RangeOf(ranges', x.out))
    BY <1>2 DEF RangeInv
  <2>2. x.op \in Executable
    BY <1>1, <2>1 DEF CanRun, ToSet
  <2>3. x.op \in Kind[pass'] => ~IsQuantized(x)
    BY <1>2, <2>1 DEF PlainInv, IsQuantized
  <2>4. \A y \in ToSet(graph.nodes) :
          x.out \in ToSet(y.ins) => Cut(x.op, RangeOf(ranges', x.out))
    BY <1>1, <2>1, CalibratedCut
  <2> QED BY <2>2, <2>3, <2>4
<1>4. AgreeInv'
  BY <1>2 DEF ScaleInv, AgreeInv
<1> QED BY <1>3, <1>4 DEF ScaleInv

(* A layer is quantized. *)
LEMMA VisitScaleInv ==
  ASSUME CacheInv, Formed(graph), StageInv, ScaleInv, Visit, pass \in Quantizing
  PROVE  ScaleInv'
<1>1. pass' = pass /\ ranges' = ranges
  BY DEF Visit
<1>2. PICK x \in ToSet(graph.nodes) : \E attrs :
        /\ x.name = Head(todo) /\ x.op \in Kind[pass]
        /\ graph'.nodes = AnnotatedIn(graph.nodes, x.name, attrs)
        /\ Retyped(graph, graph', x)
        /\ x.op \in LayerOps => /\ Fulfilled(graph', Annotated(x, attrs))
                               /\ attrs.xq = RangeOf(ranges, x.ins[1])
                               /\ attrs.yq = Clamped(x.op, RangeOf(ranges, x.out))
  BY VisitQuantizes
<1>3. x.op \in LayerOps
  BY <1>2, KindsApart DEF ScaleInv, RangeInv
<1>4. PICK attrs : /\ graph'.nodes = AnnotatedIn(graph.nodes, x.name, attrs)
                   /\ attrs.xq = RangeOf(ranges, x.ins[1])
                   /\ attrs.yq = Clamped(x.op, RangeOf(ranges, x.out))
  BY <1>2, <1>3
<1> DEFINE z == Annotated(x, attrs)
<1>5. z.op = x.op /\ z.ins = x.ins /\ z.out = x.out /\ z.attrs = attrs
  BY DEF Annotated
<1> HIDE DEF z
<1>6. \A y \in ToSet(graph'.nodes) : y \in ToSet(graph.nodes) \/ y = z
  <2>1. Dict(graph.nodes)
    BY DEF CacheInv, Sound, Whole
  <2> QED BY <1>4, <2>1, AnnotatedNodes DEF z
<1>7. \A y \in ToSet(graph'.nodes) : \E o \in ToSet(graph.nodes) :
        y.op = o.op /\ y.ins = o.ins /\ y.out = o.out
  BY <1>5, <1>6
<1>8. RangeInv'
  <2>1. SUFFICES ASSUME NEW u \in ToSet(graph'.nodes)
                 PROVE  /\ u.op \in Executable
                        /\ u.op \in Kind[pass] =>
                             /\ IsQuantized(u) => Written(u)
                             /\ \A v \in ToSet(graph'.nodes) :
                                  u.out \in ToSet(v.ins) => Cut(u.op, RangeOf(ranges, u.out))
    BY <1>1 DEF RangeInv, Written
  <2>2. PICK o \in ToSet(graph.nodes) : u.op = o.op /\ u.ins = o.ins /\ u.out = o.out
    BY <1>7
  <2>3. u.op \in Kind[pass] /\ IsQuantized(u) => Written(u)
    <3>1. CASE u = z
      BY <1>4, <1>5, <3>1 DEF Written
    <3>2. CASE u \in ToSet(graph.nodes)
      BY <3>2 DEF ScaleInv, RangeInv
    <3> QED BY <1>6, <3>1, <3>2
  <2>4. ASSUME u.op \in Kind[pass], NEW v \in ToSet(graph'.nodes), u.out \in ToSet(v.ins)
        PROVE  Cut(u.op, RangeOf(ranges, u.out))
    <3>1. PICK w \in ToSet(graph.nodes) : v.ins = w.ins
      BY <1>7
    <3> QED BY <2>2, <2>4, <3>1 DEF ScaleInv, RangeInv
  <2>5. u.op \in Executable
    BY <2>2 DEF ScaleInv, RangeInv
  <2> QED BY <2>3, <2>4, <2>5
<1>9. AgreeInv'
  <2>1. SUFFICES ASSUME NEW u \in ToSet(graph'.nodes), NEW v \in ToSet(graph'.nodes),
                        IsQuantized(u), IsQuantized(v), v.ins[1] = u.out, Alike(u, v)
                 PROVE  u.attrs.yq = v.attrs.xq
    BY DEF AgreeInv
  <2>2. PICK p \in Quantizing : {u.op, v.op} \subseteq Kind[p]
    BY <2>1 DEF Alike
  <2>3. CASE p = pass
    <3>1. Written(u) /\ Written(v)
      BY <1>1, <1>8, <2>1, <2>2, <2>3 DEF RangeInv, Written
    <3>2. u.out \in ToSet(v.ins)
      <4>1. PICK w \in ToSet(graph.nodes) : v.op = w.op /\ v.ins = w.ins
        BY <1>7
      <4>2. w.op \in LayerOps
        BY <2>2, <2>3, <4>1, KindsApart DEF ScaleInv, RangeInv
      <4>3. w.ins \in Seq(DOMAIN graph.tensors) /\ Len(w.ins) >= 2
        BY <4>2 DEF Formed, Arranged, Separate, LayerOps
      <4>4. 1 \in DOMAIN w.ins
        BY <4>3, LenProperties
      <4> QED BY <2>1, <4>1, <4>4 DEF ToSet
    <3>3. Cut(u.op, RangeOf(ranges, u.out))
      BY <1>1, <1>8, <2>2, <2>3, <3>2 DEF RangeInv
    <3> QED BY <2>1, <3>1, <3>3 DEF Written, Cut
  <2>4. CASE p # pass
    <3>1. u # z /\ v # z
      BY <1>2, <1>5, <2>2, <2>4, KindsApart
    <3> QED BY <1>6, <2>1, <3>1 DEF ScaleInv, AgreeInv
  <2> QED BY <2>3, <2>4
<1> QED BY <1>8, <1>9 DEF ScaleInv

LEMMA NextScaleInv ==
  CacheInv /\ FormInv /\ Measurable /\ StageInv /\ PlainInv /\ ScaleInv /\ [Next]_vars
    => ScaleInv' \/ Quiet'
<1> SUFFICES ASSUME CacheInv, Formed(graph), Measurable, StageInv, PlainInv, ScaleInv, [Next]_vars
             PROVE  ScaleInv' \/ Quiet'
  BY DEF FormInv
<1>1. CASE BeginPass
  BY <1>1, BeginScaleInv
<1>2. CASE Visit
  <2>1. pass' = pass
    BY <1>2 DEF Visit
  <2> QED BY <1>2, <2>1, VisitUntouched, VisitScaleInv DEF Quiet
<1>3. CASE FoldConstant \/ Sweep
  <2>1. pass' = "none" /\ "none" \notin Quantizing
    BY <1>3 DEF FoldConstant, Sweep, Between, Quantizing
  <2> QED BY <1>3, <2>1, SweepUntouched DEF Quiet
<1>4. CASE EndPass
  <2>1. pass' = "none" /\ "none" \notin Quantizing
    BY <1>4 DEF EndPass, Quantizing
  <2>2. graph'.nodes = graph.nodes
    BY <1>4 DEF EndPass, Invalidate, CacheInv, Sound, Whole, GraphFields
  <2> QED BY <2>1, <2>2 DEF ScaleInv, RangeInv, AgreeInv
<1>5. CASE UNCHANGED <<graph, pass, ranges>>
  BY <1>5 DEF ScaleInv, RangeInv, Written, AgreeInv
<1>6. Unsupported \/ Detect \/ Finish \/ Stopped \/ UNCHANGED vars
        => UNCHANGED <<graph, pass, ranges>>
  BY DEF Unsupported, Detect, Finish, Stopped, vars
<1> QED BY <1>1, <1>2, <1>3, <1>4, <1>5, <1>6 DEF Next

(* Where two layers that follow each other are quantized by one pass.          *)
OneKind ==
  \A x, y \in ToSet(graph.nodes) :
    IsQuantized(x) /\ IsQuantized(y) /\ y.ins[1] = x.out => Alike(x, y)

(* What a quantized layer writes is read with the scale and zero point that it   *)
(* was written with, at every moment of every quantization, if one pass        *)
(* quantizes both, as in whatever the compiler calls an MLP: the range is        *)
(* calibrated once for both, and what the activation of the writer would take  *)
(* from it has been taken before it was measured.                           *)
THEOREM ScalesMatch ==
  Spec /\ []Prepared /\ []Measurable => [](OneKind \/ arch = "mlp" => ScalesAgree)
<1>1. StageInv /\ ScaleInv => (OneKind \/ arch = "mlp" => ScalesAgree)
  <2> SUFFICES ASSUME StageInv, ScaleInv, OneKind \/ arch = "mlp" PROVE ScalesAgree
    OBVIOUS
  <2>1. OneKind
    <3>1. SUFFICES ASSUME arch = "mlp" PROVE OneKind
      OBVIOUS
    <3>2. \A x \in ToSet(graph.nodes) : x.op \in Kind["Quantization"]
      BY <3>1 DEF StageInv, PlanInv, Kind
    <3> QED BY <3>2 DEF OneKind, Alike, Quantizing
  <2> QED BY <2>1 DEF ScaleInv, AgreeInv, OneKind, ScalesAgree
<1>2. Init => Quiet
  <2>1. Init => pass = "none" /\ "none" \notin Quantizing
    BY DEF Init, Quantizing
  <2> QED BY <2>1, InitPlainInv DEF Quiet
<1> QED BY <1>1, <1>2, Formedness, QuietScales, NextScaleInv, PTL DEF Spec

-------------------------------------------------------------------------------
(* Elimination of constants and of dead code keeps the meaning of a graph.     *)

(* The tensors that matter, and those that are there before a node runs.       *)
Observed(g) == ToSet(g.outputs) \cup UNION {ToSet(x.ins) : x \in ToSet(g.nodes)}
Given(g, t) == t \in ToSet(g.inputs) \/ IsConstant(g, t)

(* A graph whose equations have one solution: no node makes what is given, every *)
(* tensor that matters is given or made, and by one node only.               *)
Determined(g) ==
  /\ Formed(g)
  /\ \A x \in ToSet(g.nodes) : ~Given(g, x.out)
  /\ \A t \in ToSet(g.outputs) : t \in DOMAIN g.tensors /\ (Given(g, t) \/ get_producers(g, t) # {})
  /\ \A x, y \in ToSet(g.nodes) : x.out \in ToSet(g.outputs) /\ y.out = x.out => y = x

LEMMA AcceptedDetermines ==
  ASSUME CacheInv, Accepted
  PROVE  Determined(graph)
<1>1. \A e \in validate_stage1(graph) :
        e[1] = "INV-1.6" /\ e[2] \in DOMAIN graph.tensors /\ IsConstant(graph, e[2])
  BY DEF Accepted
<1>2. Formed(graph)
  BY AcceptedIsFormed
<1>3. ASSUME NEW x \in ToSet(graph.nodes) PROVE ~Given(graph, x.out)
  <2>1. x \in get_producers(graph, x.out)
    BY DEF get_producers
  <2>2. x.out \in ToSet(graph.inputs) => <<"INV-1.5", x.out>> \in validate_stage1(graph)
    BY <2>1 DEF validate_stage1, Errors
  <2>3. <<"INV-1.5", x.out>>[1] = "INV-1.5"
    OBVIOUS
  <2>4. ~IsConstant(graph, x.out)
    BY DEF Accepted
  <2> QED BY <1>1, <2>2, <2>3, <2>4 DEF Given
<1>4. ASSUME NEW t \in ToSet(graph.outputs), Cardinality(get_producers(graph, t)) # 1
      PROVE  t \in DOMAIN graph.tensors /\ IsConstant(graph, t)
  <2>1. <<"INV-1.6", t>> \in validate_stage1(graph)
    BY <1>4 DEF validate_stage1, Errors
  <2>2. <<"INV-1.6", t>>[2] = t
    OBVIOUS
  <2> QED BY <1>1, <2>1, <2>2
<1>5. ASSUME NEW t \in ToSet(graph.outputs)
      PROVE  t \in DOMAIN graph.tensors /\ (Given(graph, t) \/ get_producers(graph, t) # {})
  <2>1. CASE Cardinality(get_producers(graph, t)) = 1
    <3>1. get_producers(graph, t) # {}
      BY <2>1, FS_EmptySet
    <3>2. PICK x \in ToSet(graph.nodes) : x.out = t
      BY <3>1 DEF get_producers
    <3> QED BY <1>2, <3>1, <3>2 DEF Formed
  <2> QED BY <1>4, <2>1 DEF Given
<1>6. ASSUME NEW x \in ToSet(graph.nodes), NEW y \in ToSet(graph.nodes),
             x.out \in ToSet(graph.outputs), y.out = x.out
      PROVE  y = x
  <2>1. Cardinality(get_producers(graph, x.out)) = 1
    BY <1>3, <1>4, <1>6 DEF Given
  <2> QED BY <1>6, <2>1, SoleProducer
<1> QED BY <1>2, <1>3, <1>5, <1>6 DEF Determined

(* The order as positions. *)
LEMMA Positions ==
  ASSUME NEW g, Dict(g.nodes), IsAcyclic(g)
  PROVE  /\ Len(TopoOrder(g)) \in Nat /\ DOMAIN TopoOrder(g) = 1 .. Len(TopoOrder(g))
         /\ \A i \in 1 .. Len(TopoOrder(g)) : /\ NodeOf(g, TopoOrder(g)[i]) \in ToSet(g.nodes)
                                              /\ NodeOf(g, TopoOrder(g)[i]).name = TopoOrder(g)[i]
         /\ \A i, j \in 1 .. Len(TopoOrder(g)) : TopoOrder(g)[i] = TopoOrder(g)[j] => i = j
         /\ \A x \in ToSet(g.nodes) : \E i \in 1 .. Len(TopoOrder(g)) : NodeOf(g, TopoOrder(g)[i]) = x
<1> DEFINE order == TopoOrder(g)
<1>1. order \in Seq(NodeNames(g)) /\ IsInjective(order) /\ ToSet(order) = NodeNames(g)
  BY TopoOrders, TopoComplete
<1> HIDE DEF order
<1>2. /\ Len(order) \in Nat /\ DOMAIN order = 1 .. Len(order)
      /\ \A i \in 1 .. Len(order) : order[i] \in NodeNames(g)
  BY <1>1, LenProperties, ElementOfSeq
<1>3. \A i \in 1 .. Len(order) : NodeOf(g, order[i]) \in ToSet(g.nodes)
                                 /\ NodeOf(g, order[i]).name = order[i]
  BY <1>2, LookupFinds DEF NodeOf, NodeNames
<1>4. ASSUME NEW x \in ToSet(g.nodes) PROVE \E i \in 1 .. Len(order) : NodeOf(g, order[i]) = x
  <2>1. x.name \in ToSet(order) /\ NodeOf(g, x.name) = x
    BY <1>1, NodeUnique
  <2> QED BY <1>2, <2>1 DEF ToSet
<1>5. \A i, j \in 1 .. Len(order) : order[i] = order[j] => i = j
  BY <1>1, <1>2 DEF IsInjective
<1> QED BY <1>2, <1>3, <1>4, <1>5 DEF order

(* What a node reads was made before. *)
LEMMA OperandsFirst ==
  ASSUME NEW g, Formed(g), NEW i \in 1 .. Len(TopoOrder(g)), NEW p \in ToSet(g.nodes),
         p.out \in ToSet(NodeOf(g, TopoOrder(g)[i]).ins)
  PROVE  \E j \in 1 .. i - 1 : TopoOrder(g)[j] = p.name
<1> DEFINE order == TopoOrder(g)
           y == NodeOf(g, order[i])
<1>1. Sound(g) /\ Dict(g.nodes) /\ IsAcyclic(g)
  BY DEF Formed, Arranged, Sound, Whole
<1>2. y \in ToSet(g.nodes) /\ y.name = order[i] /\ i \in DOMAIN order
  BY <1>1, Positions
<1>3. get_producers(g, p.out) # {}
  BY DEF get_producers
<1>4. Producer(g, p.out) = p /\ p # NoNode
  <2>1. /\ Producer(g, p.out) \in ToSet(g.nodes) /\ Producer(g, p.out) # NoNode
        /\ Producer(g, p.out).out = p.out
    BY <1>1, <1>3, ProducerFound
  <2> QED BY <1>2, <2>1 DEF Formed
<1>5. Needs(g)[order[i]] \subseteq Before(order, i)
  BY <1>1, <1>2, TopoOrders
<1>6. order[i] \in NodeNames(g)
  BY <1>1, <1>2, NodeUnique
<1>7. p.name \in Needs(g)[order[i]]
  <2>1. p \in {Producer(g, t) : t \in ToSet(y.ins)} \ {NoNode}
    BY <1>4
  <2> HIDE DEF order
  <2> QED BY <1>6, <2>1 DEF Needs
<1> HIDE DEF order
<1> QED BY <1>5, <1>7 DEF Before, order

LEMMA MeansSame ==
  ASSUME NEW y, NEW V, NEW W, \A t \in ToSet(y.ins) : V[t] = W[t]
  PROVE  Means(y, V) = Means(y, W)
<1>1. \A j \in DOMAIN y.ins : V[y.ins[j]] = W[y.ins[j]]
  BY DEF ToSet
<1>2. [j \in DOMAIN y.ins |-> Dequantized(y, j, V[y.ins[j]])]
        = [j \in DOMAIN y.ins |-> Dequantized(y, j, W[y.ins[j]])]
  BY <1>1
<1> QED BY <1>2 DEF Means

(* The equations of a graph. *)
Solves(g, x, V) ==
  /\ \A t \in Observed(g) : Given(g, t) => V[t] = Loaded(g, x)[t]
  /\ \A y \in ToSet(g.nodes) : y.out \in Observed(g) => V[y.out] = Means(y, V)

(* What matters is a tensor of the graph, and is made by one node at most.      *)
LEMMA ObservedTensors ==
  ASSUME NEW g, Determined(g)
  PROVE  /\ \A t \in Observed(g) : t \in DOMAIN g.tensors
         /\ \A y \in ToSet(g.nodes) : \A t \in ToSet(y.ins) : t \in Observed(g)
         /\ \A y, z \in ToSet(g.nodes) : y.out \in Observed(g) /\ z.out = y.out => z = y
         /\ \A t \in Observed(g) : Given(g, t) \/ \E y \in ToSet(g.nodes) : y.out = t
<1>1. \A y \in ToSet(g.nodes) : \A t \in ToSet(y.ins) : t \in DOMAIN g.tensors
  <2>1. \A y \in ToSet(g.nodes) : y.ins \in Seq(DOMAIN g.tensors)
    BY DEF Determined, Formed, Arranged
  <2>2. ASSUME NEW seq \in Seq(DOMAIN g.tensors), NEW t \in ToSet(seq) PROVE t \in DOMAIN g.tensors
    BY LenProperties, ElementOfSeq DEF ToSet
  <2> QED BY <2>1, <2>2
<1>2. \A y \in ToSet(g.nodes) : \A t \in ToSet(y.ins) : t \in Observed(g)
  BY DEF Observed
<1>3. \A t \in Observed(g) : t \in DOMAIN g.tensors
  BY <1>1 DEF Observed, Determined
<1>4. \A y, z \in ToSet(g.nodes) : y.out \in Observed(g) /\ z.out = y.out => z = y
  BY DEF Observed, Determined, Formed
<1>5. ASSUME NEW t \in Observed(g) PROVE Given(g, t) \/ get_producers(g, t) # {}
  BY DEF Observed, Determined, Formed, Fed, Given
<1> QED BY <1>2, <1>3, <1>4, <1>5 DEF get_producers

(* A run solves the equations, *)
LEMMA RunSolves ==
  ASSUME NEW g, Determined(g), NEW x, NEW A, Measures("mean", g, x, A, Len(TopoOrder(g)))
  PROVE  Solves(g, x, A[Len(TopoOrder(g))])
<1> DEFINE order == TopoOrder(g)
           n == Len(order)
           N(i) == NodeOf(g, order[i])
           Good == {k \in 0 .. n :
                      /\ DOMAIN A[k] = DOMAIN g.tensors
                      /\ \A t \in Observed(g) : Given(g, t) => A[k][t] = Loaded(g, x)[t]
                      /\ \A j \in 1 .. k : N(j).out \in Observed(g) =>
                           A[k][N(j).out] = Means(N(j), A[k])}
<1>1. Formed(g) /\ Dict(g.nodes) /\ IsAcyclic(g)
  BY DEF Determined, Formed, Arranged, Sound, Whole
<1>2. /\ n \in Nat /\ \A i \in 1 .. n : N(i) \in ToSet(g.nodes) /\ N(i).name = order[i]
      /\ \A i, j \in 1 .. n : order[i] = order[j] => i = j
      /\ \A y \in ToSet(g.nodes) : \E i \in 1 .. n : N(i) = y
  BY <1>1, Positions
<1>3. \A i \in 1 .. n : \A t \in ToSet(N(i).ins) : t \in Observed(g)
  BY <1>2, ObservedTensors
<1>4. ASSUME NEW i \in 1 .. n, NEW j \in 1 .. n, i <= j
      PROVE  N(j).out \notin ToSet(N(i).ins)
  <2>1. SUFFICES ASSUME N(j).out \in ToSet(N(i).ins) PROVE FALSE
    OBVIOUS
  <2>2. PICK k \in 1 .. i - 1 : order[k] = N(j).name
    BY <1>1, <1>2, <2>1, OperandsFirst
  <2> HIDE DEF N
  <2>3. k \in 1 .. n /\ order[k] = order[j] /\ k # j
    BY <1>2, <1>4, <2>2
  <2> QED BY <1>2, <2>3
<1>5. \A i \in 1 .. n : ~Given(g, N(i).out)
  BY <1>2 DEF Determined
<1>6. \A i, j \in 1 .. n : N(i).out \in Observed(g) /\ N(j).out = N(i).out => i = j
  <2>1. \A y, z \in ToSet(g.nodes) : y.out \in Observed(g) /\ z.out = y.out => z = y
    BY ObservedTensors
  <2> HIDE DEF order, n, N
  <2> QED BY <1>2, <2>1
<1>7. \A t \in Observed(g) : t \in DOMAIN g.tensors
  BY ObservedTensors
<1>8. A[0] = Loaded(g, x) /\ \A k \in 1 .. n : A[k] = Stepped("mean", g, A[k - 1], order[k])
  BY DEF Measures
<1> HIDE DEF order, n
<1>9. 0 \in Good
  <2>1. DOMAIN A[0] = DOMAIN g.tensors
    BY <1>8 DEF Loaded
  <2> QED BY <1>2, <1>8, <2>1
<1>10. ASSUME NEW k \in 1 .. n, k - 1 \in Good PROVE k \in Good
  <2> DEFINE B == A[k - 1]
             C == A[k]
  <2>1. /\ DOMAIN B = DOMAIN g.tensors
        /\ \A t \in Observed(g) : Given(g, t) => B[t] = Loaded(g, x)[t]
        /\ \A j \in 1 .. k - 1 : N(j).out \in Observed(g) => B[N(j).out] = Means(N(j), B)
    BY <1>10
  <2>2. C = [B EXCEPT ![N(k).out] = Means(N(k), B)]
    BY <1>8 DEF Stepped, Does
  <2> HIDE DEF B, C, N, Good
  <2>3. /\ DOMAIN C = DOMAIN g.tensors
        /\ \A t \in DOMAIN g.tensors : C[t] = IF t = N(k).out THEN Means(N(k), B) ELSE B[t]
    BY <2>1, <2>2
  <2>4. \A t \in Observed(g) : Given(g, t) => C[t] = Loaded(g, x)[t]
    BY <1>5, <1>7, <2>1, <2>3
  <2>5. ASSUME NEW j \in 1 .. k PROVE Means(N(j), C) = Means(N(j), B)
    <3>1. j \in 1 .. n /\ j <= k
      BY <1>2
    <3>2. \A t \in ToSet(N(j).ins) : t # N(k).out /\ t \in DOMAIN g.tensors
      BY <1>3, <1>4, <1>7, <3>1
    <3>3. \A t \in ToSet(N(j).ins) : C[t] = B[t]
      BY <2>3, <3>2
    <3> QED BY <3>3, MeansSame
  <2>6. ASSUME NEW j \in 1 .. k, N(j).out \in Observed(g)
        PROVE  C[N(j).out] = Means(N(j), C)
    <3>1. CASE j = k
      BY <1>7, <2>3, <2>5, <2>6, <3>1
    <3>2. CASE j # k
      <4>1. j \in 1 .. k - 1 /\ j \in 1 .. n
        BY <1>2, <3>2
      <4>2. N(j).out # N(k).out
        BY <1>6, <2>6, <3>2, <4>1
      <4>3. B[N(j).out] = Means(N(j), B)
        BY <2>1, <2>6, <4>1
      <4> QED BY <1>7, <2>3, <2>5, <2>6, <4>2, <4>3
    <3> QED BY <3>1, <3>2
  <2> QED BY <1>2, <2>3, <2>4, <2>6 DEF C, Good
<1>11. n \in Good
  <2> HIDE DEF Good
  <2>1. \A k \in 0 .. n : k \in Good
    BY <1>2, <1>9, <1>10, UpTo
  <2> QED BY <1>2, <2>1
<1>12. \A y \in ToSet(g.nodes) : y.out \in Observed(g) => A[n][y.out] = Means(y, A[n])
  BY <1>2, <1>11
<1> QED BY <1>11, <1>12 DEF Solves, order, n

(* and there is no other solution. *)
LEMMA SolutionIsRun ==
  ASSUME NEW g, Determined(g), NEW x, NEW A, Measures("mean", g, x, A, Len(TopoOrder(g))),
         NEW V, Solves(g, x, V)
  PROVE  \A t \in Observed(g) : A[Len(TopoOrder(g))][t] = V[t]
<1> DEFINE order == TopoOrder(g)
           n == Len(order)
           N(i) == NodeOf(g, order[i])
           Settled(t, k) == Given(g, t) \/ \E j \in 1 .. k : N(j).out = t
           Good == {k \in 0 .. n :
                      /\ DOMAIN A[k] = DOMAIN g.tensors
                      /\ \A t \in Observed(g) : Settled(t, k) => A[k][t] = V[t]}
<1>1. Formed(g) /\ Dict(g.nodes) /\ IsAcyclic(g)
  BY DEF Determined, Formed, Arranged, Sound, Whole
<1>2. /\ n \in Nat /\ \A i \in 1 .. n : N(i) \in ToSet(g.nodes) /\ N(i).name = order[i]
      /\ \A i, j \in 1 .. n : order[i] = order[j] => i = j
      /\ \A y \in ToSet(g.nodes) : \E i \in 1 .. n : N(i) = y
  BY <1>1, Positions
<1>3. /\ \A i \in 1 .. n : \A t \in ToSet(N(i).ins) : t \in Observed(g)
      /\ \A t \in Observed(g) : t \in DOMAIN g.tensors
      /\ \A t \in Observed(g) : Given(g, t) \/ \E y \in ToSet(g.nodes) : y.out = t
  BY <1>2, ObservedTensors
<1>4. ASSUME NEW i \in 1 .. n, NEW t \in ToSet(N(i).ins) PROVE Settled(t, i - 1)
  <2>1. CASE Given(g, t)
    BY <2>1
  <2>2. CASE ~Given(g, t)
    <3>1. PICK p \in ToSet(g.nodes) : p.out = t
      BY <1>3, <2>2
    <3>2. PICK j \in 1 .. i - 1 : order[j] = p.name
      BY <1>1, <3>1, OperandsFirst
    <3>3. j \in 1 .. n /\ N(j) = p
      <4>1. NodeOf(g, p.name) = p
        BY <1>1, NodeUnique
      <4> QED BY <1>2, <3>2, <4>1
    <3> QED BY <3>1, <3>2, <3>3
  <2> QED BY <2>1, <2>2
<1>5. \A i \in 1 .. n : ~Given(g, N(i).out)
  BY <1>2 DEF Determined
<1>6. A[0] = Loaded(g, x) /\ \A k \in 1 .. n : A[k] = Stepped("mean", g, A[k - 1], order[k])
  BY DEF Measures
<1> HIDE DEF order, n
<1>7. 0 \in Good
  <2>1. DOMAIN A[0] = DOMAIN g.tensors
    BY <1>6 DEF Loaded
  <2>2. \A t \in Observed(g) : Given(g, t) => A[0][t] = V[t]
    BY <1>6 DEF Solves
  <2> QED BY <1>2, <2>1, <2>2
<1>8. ASSUME NEW k \in 1 .. n, k - 1 \in Good PROVE k \in Good
  <2> DEFINE B == A[k - 1]
             C == A[k]
  <2>1. /\ DOMAIN B = DOMAIN g.tensors
        /\ \A t \in Observed(g) : Settled(t, k - 1) => B[t] = V[t]
    BY <1>8
  <2>2. C = [B EXCEPT ![N(k).out] = Means(N(k), B)]
    BY <1>6 DEF Stepped, Does
  <2>3. ASSUME NEW t \in Observed(g), Settled(t, k), t # N(k).out PROVE Settled(t, k - 1)
    <3>1. CASE Given(g, t)
      BY <3>1
    <3>2. CASE ~Given(g, t)
      <4>1. PICK j \in 1 .. k : N(j).out = t
        BY <2>3, <3>2
      <4>2. j # k
        BY <2>3, <4>1
      <4>3. j \in 1 .. k - 1
        BY <1>2, <4>2
      <4> QED BY <4>1, <4>3
    <3> QED BY <3>1, <3>2
  <2> HIDE DEF B, C, N, Good, Settled
  <2>4. /\ DOMAIN C = DOMAIN g.tensors
        /\ \A t \in DOMAIN g.tensors : C[t] = IF t = N(k).out THEN Means(N(k), B) ELSE B[t]
    BY <2>1, <2>2
  <2>5. ASSUME NEW t \in Observed(g), Settled(t, k) PROVE C[t] = V[t]
    <3>1. CASE t # N(k).out
      BY <1>3, <2>1, <2>3, <2>4, <2>5, <3>1
    <3>2. CASE t = N(k).out
      <4>1. Means(N(k), B) = Means(N(k), V)
        <5>1. \A u \in ToSet(N(k).ins) : B[u] = V[u]
          BY <1>3, <1>4, <2>1
        <5> QED BY <5>1, MeansSame
      <4>2. V[N(k).out] = Means(N(k), V)
        BY <1>2, <2>5, <3>2 DEF Solves
      <4>3. C[N(k).out] = Means(N(k), B)
        BY <1>3, <2>4, <2>5, <3>2
      <4> QED BY <3>2, <4>1, <4>2, <4>3
    <3> QED BY <3>1, <3>2
  <2> QED BY <1>2, <2>4, <2>5 DEF C, Good
<1>9. n \in Good
  <2> HIDE DEF Good
  <2>1. \A k \in 0 .. n : k \in Good
    BY <1>2, <1>7, <1>8, UpTo
  <2> QED BY <1>2, <2>1
<1>10. \A t \in Observed(g) : Settled(t, n)
  BY <1>2, <1>3
<1> HIDE DEF Settled
<1> QED BY <1>9, <1>10 DEF n, order

(* The meaning of a graph is what its equations say. *)
LEMMA SolutionExists ==
  ASSUME NEW g, Determined(g), NEW x
  PROVE  \E V : Solves(g, x, V)
<1>1. Len(TopoOrder(g)) \in Nat
  BY Positions DEF Determined, Formed, Arranged, Sound, Whole
<1>2. PICK A : Measures("mean", g, x, A, Len(TopoOrder(g)))
  BY <1>1, MeaningUnfolds
<1> QED BY <1>2, RunSolves

LEMMA MeaningIsSolution ==
  ASSUME NEW g, Determined(g), NEW x, NEW V, Solves(g, x, V)
  PROVE  Meaning(g, x) = [i \in DOMAIN g.outputs |-> V[g.outputs[i]]]
<1> DEFINE n == Len(TopoOrder(g))
<1>1. n \in Nat
  BY Positions DEF Determined, Formed, Arranged, Sound, Whole
<1>2. PICK A : /\ Measures("mean", g, x, A, n)
               /\ Meaning(g, x) = [i \in DOMAIN g.outputs |-> A[n][g.outputs[i]]]
  BY <1>1, MeaningUnfolds
<1>3. \A t \in Observed(g) : A[n][t] = V[t]
  BY <1>2, SolutionIsRun
<1> HIDE DEF n
<1>4. \A i \in DOMAIN g.outputs : g.outputs[i] \in Observed(g)
  BY DEF Observed, ToSet
<1> QED BY <1>2, <1>3, <1>4

(* If every solution of g gives one of h with the same outputs, both mean the     *)
(* same.                                                                  *)
LEMMA SolutionsCarryOver ==
  ASSUME NEW g, NEW h, Determined(g), Determined(h), NEW x, DOMAIN h.outputs = DOMAIN g.outputs,
         \A V : Solves(g, x, V) => \E W : /\ Solves(h, x, W)
                                          /\ \A i \in DOMAIN g.outputs : W[h.outputs[i]] = V[g.outputs[i]]
  PROVE  Meaning(h, x) = Meaning(g, x)
<1>1. PICK V : Solves(g, x, V)
  BY SolutionExists
<1>2. PICK W : /\ Solves(h, x, W)
               /\ \A i \in DOMAIN g.outputs : W[h.outputs[i]] = V[g.outputs[i]]
  BY <1>1
<1>3. /\ Meaning(g, x) = [i \in DOMAIN g.outputs |-> V[g.outputs[i]]]
      /\ Meaning(h, x) = [i \in DOMAIN h.outputs |-> W[h.outputs[i]]]
  BY <1>1, <1>2, MeaningIsSolution
<1> QED BY <1>2, <1>3

(* Nodes may go if what they made and is still read is given the value they made. *)
LEMMA FewerNodes ==
  ASSUME NEW g, NEW h, Determined(g), Determined(h), NEW x, h.outputs = g.outputs,
         ToSet(h.nodes) \subseteq ToSet(g.nodes),
         \A V : Solves(g, x, V) =>
           \A t \in Observed(h) : Given(h, t) => V[t] = Loaded(h, x)[t]
  PROVE  Meaning(h, x) = Meaning(g, x)
<1>1. Observed(h) \subseteq Observed(g)
  BY DEF Observed
<1>2. ASSUME NEW V, Solves(g, x, V) PROVE Solves(h, x, V)
  BY <1>1, <1>2 DEF Solves
<1> QED BY <1>2, SolutionsCarryOver

(* What elimination of dead code leaves, *)
LEMMA EliminationLeaves ==
  ASSUME NEW g, Whole(g)
  PROVE  LET h == Invalidate(eliminate_dead_code(g))
         IN  /\ h.inputs = g.inputs /\ h.outputs = g.outputs
             /\ ToSet(h.nodes) \subseteq ToSet(g.nodes)
             /\ \A t \in DOMAIN h.tensors : t \in DOMAIN g.tensors /\ h.tensors[t] = g.tensors[t]
<1> DEFINE live == Reachable(g)
           kept == ToSet(g.inputs) \cup live.tensors
           cut == Restrict(g.tensors, DOMAIN g.tensors \cap kept)
           S == {y \in ToSet(g.nodes) : y.name \notin NodeNames(g) \ live.nodes}
           h == Invalidate(eliminate_dead_code(g))
<1>1. DOMAIN g = GraphFields
  BY DEF Whole
<1>2. CASE eliminate_dead_code(g) = Touch(g)
  BY <1>1, <1>2 DEF Touch, Invalidate, GraphFields
<1>3. CASE eliminate_dead_code(g)
             = Invalidate(Without([g EXCEPT !.tensors = cut], NodeNames(g) \ live.nodes))
  <2>1. ToSet(Among(g.nodes, S)) \subseteq ToSet(g.nodes)
    BY AmongLists, DictMembers DEF Whole, Dict
  <2>2. \A t \in DOMAIN cut : t \in DOMAIN g.tensors /\ cut[t] = g.tensors[t]
    BY DEF Restrict
  <2> HIDE DEF cut
  <2>3. /\ h.inputs = g.inputs /\ h.outputs = g.outputs /\ h.tensors = cut
        /\ h.nodes = Among(g.nodes, S)
    BY <1>1, <1>3 DEF Invalidate, Without, GraphFields
  <2> QED BY <2>1, <2>2, <2>3
<1> QED BY <1>2, <1>3 DEF eliminate_dead_code

(* and what a round of constant folding leaves. *)
LEMMA FoldingLeaves ==
  ASSUME NEW g, Whole(g), NEW n \in NodeNames(g)
  PROVE  LET h == fold_constant(g, n)
             node == NodeOf(g, n)
         IN  /\ h.inputs = g.inputs /\ h.outputs = g.outputs
             /\ ToSet(h.nodes) \subseteq ToSet(g.nodes)
             /\ DOMAIN h.tensors = DOMAIN g.tensors
             /\ \A t \in DOMAIN g.tensors :
                  h.tensors[t] = IF t = node.out
                    THEN [dtype |-> "fp32",
                          raw |-> Execute(node.op, [j \in DOMAIN node.ins |-> g.tensors[node.ins[j]].raw])]
                    ELSE g.tensors[t]
<1> DEFINE node == NodeOf(g, n)
           folded == [dtype |-> "fp32",
                      raw |-> Execute(node.op, [j \in DOMAIN node.ins |-> g.tensors[node.ins[j]].raw])]
           tensors == [g.tensors EXCEPT ![node.out] = folded]
           S == {y \in ToSet(g.nodes) : y.name \notin {n}}
           h == fold_constant(g, n)
<1>1. DOMAIN g = GraphFields
  BY DEF Whole
<1>2. ToSet(Among(g.nodes, S)) \subseteq ToSet(g.nodes)
  BY AmongLists, DictMembers DEF Whole, Dict
<1>3. h = Invalidate(Without([g EXCEPT !.tensors = tensors], {n}))
  BY <1>1 DEF fold_constant, GraphFields
<1> HIDE DEF folded
<1>4. /\ DOMAIN tensors = DOMAIN g.tensors
      /\ \A t \in DOMAIN g.tensors : tensors[t] = IF t = node.out THEN folded ELSE g.tensors[t]
  OBVIOUS
<1> HIDE DEF tensors, node
<1>5. /\ h.inputs = g.inputs /\ h.outputs = g.outputs /\ h.tensors = tensors
      /\ h.nodes = Among(g.nodes, S)
  BY <1>1, <1>3 DEF Invalidate, Without, GraphFields
<1> QED BY <1>2, <1>4, <1>5 DEF folded, node

(* Neither changes the meaning. *)
LEMMA EliminationMeans ==
  ASSUME NEW g, Determined(g), Determined(Invalidate(eliminate_dead_code(g))), NEW x
  PROVE  Meaning(Invalidate(eliminate_dead_code(g)), x) = Meaning(g, x)
<1> DEFINE h == Invalidate(eliminate_dead_code(g))
<1>1. /\ h.inputs = g.inputs /\ h.outputs = g.outputs
      /\ ToSet(h.nodes) \subseteq ToSet(g.nodes)
      /\ \A t \in DOMAIN h.tensors : t \in DOMAIN g.tensors /\ h.tensors[t] = g.tensors[t]
  BY EliminationLeaves DEF Determined, Formed, Arranged, Sound
<1> HIDE DEF h
<1>2. Determined(h)
  BY DEF h
<1>3. ASSUME NEW V, Solves(g, x, V), NEW t \in Observed(h), Given(h, t)
      PROVE  V[t] = Loaded(h, x)[t]
  <2>1. t \in DOMAIN h.tensors /\ t \in Observed(g)
    BY <1>1, <1>2, ObservedTensors DEF Observed
  <2>2. Given(g, t)
    BY <1>1, <1>3, <2>1 DEF Given, IsConstant
  <2>3. Loaded(h, x)[t] = Loaded(g, x)[t]
    BY <1>1, <2>1 DEF Loaded, IsConstant
  <2> QED BY <1>3, <2>1, <2>2, <2>3 DEF Solves
<1>4. Meaning(h, x) = Meaning(g, x)
  BY <1>1, <1>2, <1>3, FewerNodes
<1> QED BY <1>4 DEF h

LEMMA FoldingMeans ==
  ASSUME NEW g, Determined(g), Plain(g.nodes), NEW n \in NodeNames(g), CanFold(g, NodeOf(g, n)),
         Determined(fold_constant(g, n)), NEW x
  PROVE  Meaning(fold_constant(g, n), x) = Meaning(g, x)
<1> DEFINE h == fold_constant(g, n)
           node == NodeOf(g, n)
           raws == [j \in DOMAIN node.ins |-> g.tensors[node.ins[j]].raw]
<1>1. /\ h.inputs = g.inputs /\ h.outputs = g.outputs
      /\ ToSet(h.nodes) \subseteq ToSet(g.nodes)
      /\ DOMAIN h.tensors = DOMAIN g.tensors
      /\ \A t \in DOMAIN g.tensors :
           h.tensors[t] = IF t = node.out THEN [dtype |-> "fp32", raw |-> Execute(node.op, raws)]
                          ELSE g.tensors[t]
  BY FoldingLeaves DEF Determined, Formed, Arranged, Sound
<1>2. Determined(h)
  OBVIOUS
<1>3. node \in ToSet(g.nodes)
  BY LookupFinds DEF NodeOf, NodeNames
<1>4. /\ \A t \in ToSet(node.ins) : IsConstant(g, t)
      /\ node.op # "FusedMLP" /\ ~IsQuantized(node)
  BY <1>3, PlainAgrees DEF CanFold, Evaluated
<1>5. /\ \A j \in DOMAIN node.ins : node.ins[j] \in ToSet(node.ins)
      /\ \A t \in ToSet(node.ins) : t \in Observed(g)
      /\ \A t \in Observed(g) : t \in DOMAIN g.tensors
  BY <1>3, ObservedTensors DEF ToSet
<1> HIDE DEF h, node
<1>6. ASSUME NEW V, Solves(g, x, V), NEW t \in Observed(h), Given(h, t)
      PROVE  V[t] = Loaded(h, x)[t]
  <2>1. t \in DOMAIN h.tensors /\ t \in Observed(g)
    BY <1>1, <1>2, ObservedTensors DEF Observed
  <2>2. CASE t = node.out
    <3>1. \A j \in DOMAIN node.ins : V[node.ins[j]] = g.tensors[node.ins[j]].raw
      <4>1. \A u \in ToSet(node.ins) : V[u] = Loaded(g, x)[u]
        BY <1>4, <1>5, <1>6 DEF Solves, Given
      <4>2. \A u \in ToSet(node.ins) : Loaded(g, x)[u] = g.tensors[u].raw
        BY <1>4, <1>5 DEF Loaded
      <4> QED BY <1>5, <4>1, <4>2
    <3>2. Means(node, V) = Execute(node.op, raws)
      <4>1. \A j \in DOMAIN node.ins : Dequantized(node, j, V[node.ins[j]]) = V[node.ins[j]]
        BY <1>4 DEF Dequantized
      <4>2. [j \in DOMAIN node.ins |-> Dequantized(node, j, V[node.ins[j]])] = raws
        BY <3>1, <4>1
      <4> QED BY <1>4, <4>2 DEF Means, Applied
    <3>3. V[t] = Means(node, V)
      BY <1>3, <1>6, <2>1, <2>2 DEF Solves
    <3>4. IsConstant(h, t) /\ h.tensors[t].raw = Execute(node.op, raws)
      <4> DEFINE v == Execute(node.op, raws)
      <4> HIDE DEF raws
      <4>1. h.tensors[t] = [dtype |-> "fp32", raw |-> v]
        BY <1>1, <2>1, <2>2
      <4> HIDE DEF v
      <4>2. h.tensors[t].dtype = "fp32" /\ h.tensors[t].raw = v
        BY <4>1
      <4> QED BY <4>2 DEF IsConstant, v
    <3>5. Loaded(h, x)[t] = Execute(node.op, raws)
      BY <2>1, <3>4 DEF Loaded
    <3> QED BY <3>2, <3>3, <3>5
  <2>3. CASE t # node.out
    <3>1. h.tensors[t] = g.tensors[t] /\ t \in DOMAIN g.tensors
      BY <1>1, <2>1, <2>3
    <3>2. Given(g, t)
      BY <1>1, <1>6, <3>1 DEF Given, IsConstant
    <3>3. Loaded(h, x)[t] = Loaded(g, x)[t]
      BY <1>1, <2>1, <3>1 DEF Loaded, IsConstant
    <3> QED BY <1>6, <2>1, <3>2, <3>3 DEF Solves
  <2> QED BY <2>2, <2>3
<1>7. Meaning(h, x) = Meaning(g, x)
  BY <1>1, <1>2, <1>6, FewerNodes
<1> QED BY <1>7 DEF h

(* As long as nothing is quantized the equations of the graph have one solution. *)
Determinate == Untouched => Determined(graph)

Eliminates ==
  FoldConstant \/ (Sweep /\ Head(passes) \in {"ConstantFolding", "DeadCodeElimination"})

LEMMA EliminationSteps ==
  ASSUME CacheInv, StageInv, PlainInv, Determinate, Determinate', Eliminates, NEW x
  PROVE  Meaning(graph', x) = Meaning(graph, x)
<1>1. Determined(graph) /\ Determined(graph') /\ Plain(graph.nodes)
  <2>1. Untouched'
    BY SweepUntouched DEF Eliminates
  <2>2. passes # <<>> /\ Head(passes) \in {"ConstantFolding", "DeadCodeElimination"}
    BY DEF Eliminates, FoldConstant, Sweep
  <2>3. ToSet(passes) = {Head(passes)} \cup ToSet(Tail(passes))
    BY <2>2, LastTail DEF StageInv, PlanInv
  <2>4. Head(passes) \in ToSet(passes) /\ Head(passes) \notin Quantizing \cup {"none"}
    BY <2>2, <2>3 DEF Quantizing
  <2>5. Untouched
    BY <2>4 DEF PlainInv
  <2> QED BY <2>1, <2>5 DEF Determinate, Untouched
<1>2. Whole(graph)
  BY DEF CacheInv, Sound
<1>3. CASE FoldConstant
  <2> DEFINE order == TopoOrder(graph)
             able == {n \in ToSet(order) : CanFold(graph, NodeOf(graph, n))}
             n == Head(Foldable(graph))
  <2>1. Foldable(graph) = Among(order, able)
    BY DEF Foldable, Pick
  <2>2. order \in Seq(NodeNames(graph))
    BY <1>2, TopoOrders DEF Whole
  <2> HIDE DEF order
  <2>3. /\ Foldable(graph) \in Seq(NodeNames(graph))
        /\ ToSet(Foldable(graph)) \subseteq able
    BY <2>1, <2>2, AmongLists
  <2>4. Foldable(graph) # <<>> /\ graph' = fold_constant(graph, n)
    BY <1>3 DEF FoldConstant
  <2>5. n \in NodeNames(graph) /\ n \in ToSet(Foldable(graph))
    BY <2>3, <2>4, TailLists
  <2> HIDE DEF n
  <2>6. n \in NodeNames(graph) /\ CanFold(graph, NodeOf(graph, n))
    BY <2>3, <2>5
  <2>7. Determined(graph) /\ Plain(graph.nodes) /\ Determined(fold_constant(graph, n))
    BY <1>1, <2>4
  <2>8. Meaning(fold_constant(graph, n), x) = Meaning(graph, x)
    BY <2>6, <2>7, FoldingMeans
  <2> QED BY <2>4, <2>8
<1>4. CASE Sweep /\ Head(passes) = "DeadCodeElimination"
  <2>1. graph' = Invalidate(eliminate_dead_code(graph))
    BY <1>4 DEF Sweep
  <2> QED BY <1>1, <2>1, EliminationMeans
<1>5. CASE Sweep /\ Head(passes) = "ConstantFolding"
  <2>1. graph' = Invalidate(graph)
    BY <1>5 DEF Sweep
  <2>2. /\ graph'.nodes = graph.nodes /\ graph'.tensors = graph.tensors
        /\ graph'.inputs = graph.inputs /\ graph'.outputs = graph.outputs
    BY <1>2, <2>1 DEF Invalidate, Whole, GraphFields
  <2>3. ASSUME NEW V, Solves(graph, x, V), NEW t \in Observed(graph'), Given(graph', t)
        PROVE  V[t] = Loaded(graph', x)[t]
    <3>1. t \in Observed(graph) /\ Given(graph, t) /\ Loaded(graph', x) = Loaded(graph, x)
      BY <2>2, <2>3 DEF Observed, Given, IsConstant, Loaded
    <3> QED BY <2>3, <3>1 DEF Solves
  <2> QED BY <1>1, <2>2, <2>3, FewerNodes
<1> QED BY <1>3, <1>4, <1>5 DEF Eliminates

(* Constant folding and the elimination of dead code are exact: after every step  *)
(* of theirs the graph computes on every sample what it computed before, if      *)
(* every rewrite before the quantizations leaves a graph that is accepted.       *)
THEOREM EliminationIsExact ==
  Spec /\ []Prepared =>
    [][Eliminates => \A x \in Samples : Meaning(graph', x) = Meaning(graph, x)]_vars
<1>1. CacheInv /\ Prepared => Determinate
  BY AcceptedDetermines DEF Prepared, Determinate
<1>2. CacheInv /\ StageInv /\ PlainInv /\ Determinate /\ Determinate' =>
        [Eliminates => \A x \in Samples : Meaning(graph', x) = Meaning(graph, x)]_vars
  BY EliminationSteps
<1> QED BY <1>1, <1>2, Formedness, PTL

-------------------------------------------------------------------------------
(* Fusion keeps the meaning of a graph.                                        *)

(* What the maps give as consumers of a tensor are nodes that read it. *)
LEMMA FlattenedFrom ==
  ASSUME NEW T, NEW seqs \in Seq(Seq(T)), NEW S, \A i \in 1 .. Len(seqs) : ToSet(seqs[i]) \subseteq S
  PROVE  FlattenSeq(seqs) \in Seq(T) /\ ToSet(FlattenSeq(seqs)) \subseteq S
<1>1. PICK A : /\ Recursive(A, Len(seqs), Seq(T), <<>>, Runs(T, seqs))
               /\ FlattenSeq(seqs) = A[Len(seqs)]
  BY FlattenUnfolds
<1> DEFINE n == Len(seqs)
           Good == {i \in 0 .. n : ToSet(A[i]) \subseteq S}
<1>2. n \in Nat /\ \A i \in 1 .. n : seqs[i] \in Seq(T)
  BY LenProperties, ElementOfSeq
<1>3. /\ A[0] = <<>> /\ \A i \in 0 .. n : A[i] \in Seq(T)
      /\ \A i \in 1 .. n : i - 1 \in 0 .. n /\ A[i] = A[i - 1] \o seqs[i]
  <2>1. A[0] = <<>> /\ \A i \in 0 .. n : A[i] \in Seq(T)
    BY <1>1 DEF Recursive
  <2>2. ASSUME NEW i \in 1 .. n PROVE i - 1 \in 0 .. n /\ A[i] = A[i - 1] \o seqs[i]
    <3>1. i - 1 \in 0 .. n /\ A[i] = Runs(T, seqs)[<<A[i - 1], i>>]
      BY <1>1, <1>2 DEF Recursive
    <3> QED BY <2>1, <3>1 DEF Runs
  <2> QED BY <2>1, <2>2
<1> HIDE DEF n
<1>4. 0 \in Good
  <2>1. ToSet(<<>>) = {}
    BY DEF ToSet
  <2> QED BY <1>2, <1>3, <2>1
<1>5. ASSUME NEW i \in 1 .. n, i - 1 \in Good PROVE i \in Good
  <2>1. A[i - 1] \in Seq(T) /\ seqs[i] \in Seq(T) /\ A[i] = A[i - 1] \o seqs[i]
    BY <1>2, <1>3
  <2>2. ToSet(A[i]) = ToSet(A[i - 1]) \cup ToSet(seqs[i])
    BY <2>1, ConcatMembers
  <2>3. ToSet(seqs[i]) \subseteq S /\ i \in 0 .. n
    BY <1>2 DEF n
  <2> QED BY <1>5, <2>2, <2>3
<1>6. n \in Good
  <2> HIDE DEF Good
  <2>1. \A i \in 0 .. n : i \in Good
    BY <1>2, <1>4, <1>5, UpTo
  <2> QED BY <1>2, <2>1
<1> QED BY <1>1, <1>2, <1>3, <1>6 DEF n

(* The readers of a tensor, node by node: each as often as it reads it. *)
Readings(g, i, t) == {k \in DOMAIN g.nodes[i].ins : g.nodes[i].ins[k] = t}

LEMMA ConsumerRows ==
  ASSUME NEW g, Formed(g), NEW t
  PROVE  \E rows \in Seq(Seq(ToSet(g.nodes))) :
           /\ Consumers(g, t) = Pick(FlattenSeq(rows), LAMBDA x : x # NoNode)
           /\ DOMAIN g.nodes = 1 .. Len(g.nodes) /\ Len(rows) = Len(g.nodes)
           /\ \A i \in 1 .. Len(rows) :
                /\ ToSet(rows[i]) \subseteq {x \in ToSet(g.nodes) : t \in ToSet(x.ins)}
                /\ IsFiniteSet(Readings(g, i, t)) /\ Len(rows[i]) = Cardinality(Readings(g, i, t))
<1> DEFINE links == Links(g.nodes)
           Places(i) == {k \in DOMAIN links[i].ins : links[i].ins[k] = t}
           Row(i) == [j \in 1 .. Cardinality(Places(i)) |-> Lookup(g.nodes, links[i].name)]
           rows == [i \in DOMAIN links |-> Row(i)]
           S == {x \in ToSet(g.nodes) : t \in ToSet(x.ins)}
           T == ToSet(g.nodes)
<1>1. Dict(g.nodes) /\ Adjacency(g) = links /\ \A x \in T : x.ins \in Seq(DOMAIN g.tensors)
  BY FreshMaps DEF Formed, Arranged, Sound, Whole
<1>2. /\ DOMAIN g.nodes = 1 .. Len(g.nodes) /\ Len(g.nodes) \in Nat
      /\ DOMAIN links = DOMAIN g.nodes
      /\ \A i \in DOMAIN g.nodes : /\ links[i].name = g.nodes[i].name
                                   /\ links[i].ins = g.nodes[i].ins
  BY <1>1, DictMembers DEF Links
<1>3. ASSUME NEW i \in DOMAIN g.nodes
      PROVE  Lookup(g.nodes, links[i].name) = g.nodes[i] /\ g.nodes[i] \in T
  <2>1. g.nodes[i] \in T
    BY DEF ToSet
  <2> QED BY <1>1, <1>2, <2>1, NodeUnique DEF NodeOf
<1>4. Consumers(g, t) = Pick(FlattenSeq(rows), LAMBDA x : x # NoNode)
  BY <1>1 DEF Consumers, ConsumersBy
<1> HIDE DEF links
<1>5. ASSUME NEW i \in DOMAIN g.nodes
      PROVE  /\ Row(i) \in Seq(T) /\ ToSet(Row(i)) \subseteq S
             /\ IsFiniteSet(Readings(g, i, t)) /\ Len(Row(i)) = Cardinality(Readings(g, i, t))
  <2>1. /\ Places(i) = Readings(g, i, t)
        /\ Row(i) = [j \in 1 .. Cardinality(Places(i)) |-> g.nodes[i]]
    BY <1>2, <1>3 DEF Readings
  <2>2. Len(g.nodes[i].ins) \in Nat /\ Places(i) \subseteq 1 .. Len(g.nodes[i].ins)
    BY <1>1, <1>3, <2>1, LenProperties DEF Readings
  <2> HIDE DEF Places
  <2>3. IsFiniteSet(Places(i)) /\ Cardinality(Places(i)) \in Nat /\ (Places(i) = {} => Cardinality(Places(i)) = 0)
    <3>1. IsFiniteSet(1 .. Len(g.nodes[i].ins))
      BY <2>2, FS_Interval
    <3>2. IsFiniteSet(Places(i))
      BY <2>2, <3>1, FS_Subset
    <3> QED BY <3>2, FS_CardinalityType, FS_EmptySet
  <2>4. Places(i) # {} => g.nodes[i] \in S
    BY <1>3, <2>1 DEF ToSet, Readings
  <2>5. \A j \in 1 .. Cardinality(Places(i)) : g.nodes[i] \in S
    BY <2>3, <2>4
  <2>6. ToSet(Row(i)) \subseteq S /\ ToSet(Row(i)) \subseteq T
    BY <1>3, <2>1, <2>5 DEF ToSet
  <2>7. Row(i) = [j \in 1 .. Cardinality(Places(i)) |-> Row(i)[j]]
    OBVIOUS
  <2> HIDE DEF Row
  <2>8. Row(i) \in Seq(ToSet(Row(i))) /\ Len(Row(i)) = Cardinality(Places(i))
    BY <2>3, <2>7, MadeSeq
  <2>9. Row(i) \in Seq(T)
    BY <2>6, <2>8, SeqMonotonic
  <2> HIDE DEF Readings
  <2> QED BY <2>1, <2>3, <2>6, <2>8, <2>9
<1>6. /\ rows \in Seq(Seq(T)) /\ Len(rows) = Len(g.nodes)
      /\ \A i \in 1 .. Len(rows) :
           /\ ToSet(rows[i]) \subseteq S
           /\ IsFiniteSet(Readings(g, i, t)) /\ Len(rows[i]) = Cardinality(Readings(g, i, t))
  <2>1. /\ rows = [i \in 1 .. Len(g.nodes) |-> rows[i]]
        /\ \A i \in 1 .. Len(g.nodes) :
             /\ rows[i] \in Seq(T) /\ ToSet(rows[i]) \subseteq S
             /\ IsFiniteSet(Readings(g, i, t)) /\ Len(rows[i]) = Cardinality(Readings(g, i, t))
    BY <1>2, <1>5
  <2> HIDE DEF rows
  <2>2. ToSet(rows) \subseteq Seq(T)
    BY <2>1 DEF ToSet
  <2>3. rows \in Seq(Seq(T)) /\ Len(rows) = Len(g.nodes)
    BY <1>2, <2>1, <2>2, MadeSeq, SeqMonotonic
  <2> QED BY <2>1, <2>3
<1> HIDE DEF rows, S
<1> QED BY <1>2, <1>4, <1>6 DEF S

LEMMA ConsumersRead ==
  ASSUME NEW g, Formed(g), NEW t
  PROVE  /\ Consumers(g, t) \in Seq(ToSet(g.nodes))
         /\ \A c \in ToSet(Consumers(g, t)) : c \in ToSet(g.nodes) /\ t \in ToSet(c.ins)
<1> DEFINE S == {x \in ToSet(g.nodes) : t \in ToSet(x.ins)}
           T == ToSet(g.nodes)
<1>1. PICK rows \in Seq(Seq(T)) :
        /\ Consumers(g, t) = Pick(FlattenSeq(rows), LAMBDA x : x # NoNode)
        /\ \A i \in 1 .. Len(rows) : ToSet(rows[i]) \subseteq S
  BY ConsumerRows
<1> HIDE DEF S
<1>2. FlattenSeq(rows) \in Seq(T) /\ ToSet(FlattenSeq(rows)) \subseteq S
  BY <1>1, FlattenedFrom
<1>3. Consumers(g, t) \in Seq(T) /\ ToSet(Consumers(g, t)) \subseteq ToSet(FlattenSeq(rows))
  BY <1>1, <1>2, AmongLists DEF Pick
<1> QED BY <1>2, <1>3 DEF S

(* The only consumer of a tensor is one of them. *)
LEMMA OnlyConsumerReads ==
  ASSUME NEW g, Formed(g), NEW t, OnlyConsumer(g, t) # NoNode
  PROVE  OnlyConsumer(g, t) \in ToSet(g.nodes) /\ t \in ToSet(OnlyConsumer(g, t).ins)
<1>1. Len(Consumers(g, t)) = 1 /\ OnlyConsumer(g, t) = Head(Consumers(g, t))
  BY DEF OnlyConsumer
<1>2. Head(Consumers(g, t)) \in ToSet(Consumers(g, t))
  <2>1. Consumers(g, t) \in Seq(ToSet(g.nodes)) /\ Consumers(g, t) # <<>>
    BY <1>1, ConsumersRead, EmptySeq
  <2> QED BY <2>1, TailLists
<1> QED BY <1>1, <1>2, ConsumersRead

(* What is left when a new node replaces some nodes of a graph. *)
Replaced(g, old) == ExternalOutputs({x \in ToSet(g.nodes) : x.name \in old})
Reread(z, from, to) == Reading(z, Redirected(z.ins, from, to))

LEMMA ReplacementLeaves ==
  ASSUME NEW g, Whole(g), NEW old, NEW node, IsNode(node), node.name \notin NodeNames(g),
         NEW tensors, DOMAIN tensors = {node.out}
  PROVE  LET h == replace_subgraph(g, old, node, tensors)
             E == Replaced(g, old)
         IN  /\ h.inputs = g.inputs /\ h.outputs = Redirected(g.outputs, E, node.out)
             /\ \A y \in ToSet(h.nodes) :
                  y = node \/ \E z \in ToSet(g.nodes) : y = Reread(z, E, node.out)
             /\ \A t \in DOMAIN h.tensors :
                  t = node.out \/ (t \in DOMAIN g.tensors /\ h.tensors[t] = g.tensors[t])
             /\ node \in ToSet(h.nodes)
<1> DEFINE E == Replaced(g, old)
           affected == NodeNames(g) \ old
           rewired == Rewire(g, E, node.out, affected)
           S == {x \in ToSet(rewired.nodes) : x.name \notin old}
           cut == Without(rewired, old)
           added == insert_node(cut, node, tensors)
           h == DropOrphans(added)
           merged == [t \in DOMAIN tensors \cup DOMAIN g.tensors |->
                        IF t \in DOMAIN tensors THEN tensors[t] ELSE g.tensors[t]]
           reread == [i \in DOMAIN g.nodes |->
                        IF g.nodes[i].name \in affected
                        THEN Reading(g.nodes[i], Redirected(g.nodes[i].ins, E, node.out)) ELSE g.nodes[i]]
<1>1. h = replace_subgraph(g, old, node, tensors)
  BY DEF replace_subgraph, Replaced
<1> HIDE DEF E
<1>2. /\ rewired.nodes = reread /\ rewired.outputs = Redirected(g.outputs, E, node.out)
      /\ rewired.inputs = g.inputs /\ rewired.tensors = g.tensors /\ DOMAIN rewired = GraphFields
      /\ Whole(rewired)
  BY RewireWhole DEF Rewire, Whole, GraphFields
<1>3. \A i \in DOMAIN g.nodes :
        g.nodes[i].name \notin old => reread[i] = Reread(g.nodes[i], E, node.out)
  BY DEF NodeNames, Names, Reread
<1>4. \A i \in DOMAIN g.nodes : reread[i].name = g.nodes[i].name
  BY DEF Reading
<1> HIDE DEF affected, rewired, reread
<1>5. DOMAIN reread = DOMAIN g.nodes
  BY DEF reread
<1>6. /\ cut.nodes = Among(rewired.nodes, S) /\ cut.outputs = rewired.outputs
      /\ cut.inputs = rewired.inputs /\ cut.tensors = rewired.tensors
      /\ DOMAIN cut = GraphFields /\ Whole(cut)
  BY <1>2, WithoutWhole DEF Without, GraphFields
<1>7. ToSet(cut.nodes) = ToSet(rewired.nodes) \cap S
  BY <1>2, <1>6, AmongLists DEF Whole, Dict
<1>8. ASSUME NEW y \in ToSet(cut.nodes)
      PROVE  y.name \in NodeNames(g) /\ \E z \in ToSet(g.nodes) : y = Reread(z, E, node.out)
  <2>1. y \in ToSet(rewired.nodes) /\ y.name \notin old
    BY <1>7
  <2>2. PICK i \in DOMAIN g.nodes : y = reread[i]
    BY <1>2, <1>5, <2>1 DEF ToSet
  <2>3. y = Reread(g.nodes[i], E, node.out) /\ y.name = g.nodes[i].name
    BY <1>3, <1>4, <2>1, <2>2
  <2> QED BY <2>3 DEF ToSet, NodeNames, Names
<1>9. node.name \notin NodeNames(cut)
  BY <1>8 DEF NodeNames, Names, ToSet
<1> HIDE DEF cut, S
<1>10. /\ added.nodes = Append(cut.nodes, node) /\ added.outputs = cut.outputs
       /\ added.inputs = cut.inputs /\ added.tensors = merged /\ Whole(added)
  <2>1. Whole(added)
    BY <1>6, InsertSound DEF Sound
  <2>2. /\ added.nodes = Append(cut.nodes, node) /\ added.outputs = cut.outputs
        /\ added.inputs = cut.inputs
        /\ added.tensors = [t \in DOMAIN tensors \cup DOMAIN cut.tensors |->
                              IF t \in DOMAIN tensors THEN tensors[t] ELSE cut.tensors[t]]
    BY <1>6, <1>9 DEF insert_node, Invalidate, GraphFields
  <2> QED BY <1>2, <1>6, <2>1, <2>2
<1> HIDE DEF added
<1>11. ToSet(added.nodes) = ToSet(cut.nodes) \cup {node}
  <2>1. cut.nodes \in Seq(ToSet(cut.nodes) \cup {node})
    BY <1>6, SeqMonotonic DEF Whole, Dict
  <2> QED BY <1>10, <2>1, AppendMembers
<1>12. /\ h.nodes = added.nodes /\ h.outputs = added.outputs /\ h.inputs = added.inputs
       /\ \A t \in DOMAIN h.tensors : t \in DOMAIN merged /\ h.tensors[t] = merged[t]
  BY <1>10 DEF DropOrphans, Restrict, Whole, GraphFields
<1> HIDE DEF h
<1>13. \A t \in DOMAIN h.tensors :
         t = node.out \/ (t \in DOMAIN g.tensors /\ h.tensors[t] = g.tensors[t])
  BY <1>12
<1> QED BY <1>1, <1>2, <1>6, <1>8, <1>10, <1>11, <1>12, <1>13 DEF E

(* A node makes of its operands what those that it replaces made, as far as that *)
(* is still read.                                                            *)
Makes(g, old, node, x) ==
  \A V : Solves(g, x, V) =>
    \A e \in Observed(g) : e \in Replaced(g, old) => V[e] = Means(node, V)

(* Such a node in place of the others keeps the meaning. *)
LEMMA FuseMeans ==
  ASSUME NEW g, Determined(g), NEW old, NEW node, IsNode(node), node.name \notin NodeNames(g),
         node.out \notin DOMAIN g.tensors, \A t \in ToSet(node.ins) : t \in Observed(g),
         NEW tensors, DOMAIN tensors = {node.out},
         Determined(replace_subgraph(g, old, node, tensors)), NEW x, Makes(g, old, node, x)
  PROVE  Meaning(replace_subgraph(g, old, node, tensors), x) = Meaning(g, x)
<1> DEFINE h == replace_subgraph(g, old, node, tensors)
           E == Replaced(g, old)
<1>1. /\ h.inputs = g.inputs /\ h.outputs = Redirected(g.outputs, E, node.out)
      /\ \A y \in ToSet(h.nodes) : y = node \/ \E z \in ToSet(g.nodes) : y = Reread(z, E, node.out)
      /\ \A t \in DOMAIN h.tensors : t = node.out \/ (t \in DOMAIN g.tensors /\ h.tensors[t] = g.tensors[t])
      /\ node \in ToSet(h.nodes)
  BY ReplacementLeaves DEF Determined, Formed, Arranged, Sound
<1>2. Determined(h)
  OBVIOUS
<1> HIDE DEF h, E
<1>3. /\ \A t \in Observed(g) : t \in DOMAIN g.tensors /\ t # node.out
      /\ \A t \in Observed(h) : t \in DOMAIN h.tensors
      /\ \A y \in ToSet(g.nodes) : \A t \in ToSet(y.ins) : t \in Observed(g)
      /\ \A y, z \in ToSet(h.nodes) : y.out \in Observed(h) /\ z.out = y.out => z = y
  BY <1>2, ObservedTensors
<1>4. \A t \in Observed(h) : t = node.out \/ t \in Observed(g)
  <2>1. ASSUME NEW seq, NEW t \in ToSet(Redirected(seq, E, node.out)) PROVE t = node.out \/ t \in ToSet(seq)
    BY <2>1 DEF Redirected, ToSet
  <2>2. \A t \in ToSet(h.outputs) : t = node.out \/ t \in Observed(g)
    BY <1>1, <2>1 DEF Observed
  <2>3. ASSUME NEW y \in ToSet(h.nodes), NEW t \in ToSet(y.ins) PROVE t = node.out \/ t \in Observed(g)
    <3>1. CASE y = node
      BY <3>1
    <3>2. CASE \E z \in ToSet(g.nodes) : y = Reread(z, E, node.out)
      <4>1. PICK z \in ToSet(g.nodes) : y = Reread(z, E, node.out)
        BY <3>2
      <4>2. y.ins = Redirected(z.ins, E, node.out)
        BY <4>1 DEF Reread, Reading
      <4> QED BY <1>3, <2>1, <4>2
    <3> QED BY <1>1, <3>1, <3>2
  <2> QED BY <2>2, <2>3 DEF Observed
<1>5. ASSUME NEW V, Solves(g, x, V)
      PROVE  \E W : /\ Solves(h, x, W)
                    /\ \A i \in DOMAIN g.outputs : W[h.outputs[i]] = V[g.outputs[i]]
  <2> DEFINE v == Means(node, V)
             W == [t \in DOMAIN g.tensors \cup {node.out} |-> IF t = node.out THEN v ELSE V[t]]
  <2>1. /\ W[node.out] = v
        /\ \A t \in Observed(g) : W[t] = V[t]
    BY <1>3
  <2>2. \A e \in Observed(g) : e \in E => V[e] = v
    BY <1>5 DEF E, Makes
  <2>3. Means(node, W) = v
    <3>1. \A t \in ToSet(node.ins) : V[t] = W[t]
      BY <2>1
    <3> HIDE DEF W
    <3> QED BY <3>1, MeansSame
  <2> HIDE DEF v, W
  <2>4. ASSUME NEW t \in Observed(g) PROVE W[IF t \in E THEN node.out ELSE t] = V[t]
    BY <2>1, <2>2
  <2>5. \A i \in DOMAIN g.outputs : W[h.outputs[i]] = V[g.outputs[i]]
    <3>1. \A i \in DOMAIN g.outputs : g.outputs[i] \in Observed(g)
      BY DEF Observed, ToSet
    <3>2. \A i \in DOMAIN g.outputs :
            h.outputs[i] = IF g.outputs[i] \in E THEN node.out ELSE g.outputs[i]
      BY <1>1 DEF Redirected
    <3> QED BY <2>4, <3>1, <3>2
  <2>6. ASSUME NEW t \in Observed(h), Given(h, t) PROVE W[t] = Loaded(h, x)[t]
    <3>1. t # node.out
      BY <1>1, <1>2, <2>6 DEF Determined
    <3>2. t \in Observed(g) /\ t \in DOMAIN g.tensors /\ t \in DOMAIN h.tensors /\ h.tensors[t] = g.tensors[t]
      BY <1>1, <1>3, <1>4, <3>1
    <3>3. Given(g, t) /\ Loaded(h, x)[t] = Loaded(g, x)[t]
      BY <1>1, <2>6, <3>2 DEF Given, IsConstant, Loaded
    <3> QED BY <1>5, <2>1, <3>2, <3>3 DEF Solves
  <2>7. ASSUME NEW y \in ToSet(h.nodes), y.out \in Observed(h) PROVE W[y.out] = Means(y, W)
    <3>1. CASE y = node
      BY <2>1, <2>3, <3>1
    <3>2. CASE y # node
      <4>1. PICK z \in ToSet(g.nodes) : y = Reread(z, E, node.out)
        BY <1>1, <3>2
      <4>2. y.out = z.out /\ y.op = z.op /\ y.attrs = z.attrs /\ y.ins = Redirected(z.ins, E, node.out)
        BY <4>1 DEF Reread, Reading
      <4>3. y.out # node.out
        BY <1>1, <1>3, <2>7, <3>2
      <4>4. z.out \in Observed(g)
        BY <1>4, <2>7, <4>2, <4>3
      <4>5. V[z.out] = Means(z, V) /\ W[y.out] = V[z.out]
        BY <1>5, <2>1, <4>2, <4>4 DEF Solves
      <4>6. DOMAIN y.ins = DOMAIN z.ins /\ \A j \in DOMAIN z.ins : W[y.ins[j]] = V[z.ins[j]]
        <5>1. \A j \in DOMAIN z.ins : z.ins[j] \in Observed(g)
          BY <1>3 DEF ToSet
        <5>2. /\ DOMAIN y.ins = DOMAIN z.ins
              /\ \A j \in DOMAIN z.ins : y.ins[j] = IF z.ins[j] \in E THEN node.out ELSE z.ins[j]
          BY <4>2 DEF Redirected
        <5> QED BY <2>4, <5>1, <5>2
      <4>7. [j \in DOMAIN y.ins |-> Dequantized(y, j, W[y.ins[j]])]
              = [j \in DOMAIN z.ins |-> Dequantized(z, j, V[z.ins[j]])]
        <5>1. \A j, v1 : Dequantized(y, j, v1) = Dequantized(z, j, v1)
          BY <4>2 DEF Dequantized, IsQuantized
        <5> QED BY <4>6, <5>1
      <4>8. Means(y, W) = Means(z, V)
        BY <4>2, <4>7 DEF Means, Applied
      <4> QED BY <4>5, <4>8
    <3> QED BY <3>1, <3>2
  <2>8. Solves(h, x, W)
    BY <2>6, <2>7 DEF Solves
  <2> QED BY <2>5, <2>8
<1>6. DOMAIN h.outputs = DOMAIN g.outputs
  BY <1>1 DEF Redirected
<1>7. Meaning(h, x) = Meaning(g, x)
  BY <1>2, <1>5, <1>6, SolutionsCarryOver
<1> QED BY <1>7 DEF h

(* What is not quantized means what its operator computes of its operands; *)
ValuesOf(V, ins) == [j \in DOMAIN ins |-> V[ins[j]]]

LEMMA PlainMeans ==
  ASSUME NEW y, ~IsQuantized(y), y.op # "FusedMLP", NEW V
  PROVE  Means(y, V) = Execute(y.op, ValuesOf(V, y.ins))
<1>1. [j \in DOMAIN y.ins |-> Dequantized(y, j, V[y.ins[j]])] = [j \in DOMAIN y.ins |-> V[y.ins[j]]]
  BY DEF Dequantized
<1> QED BY <1>1 DEF Means, Applied, ValuesOf

(* and a solution is a run, of numbers. *)
LEMMA SolutionIsNumeric ==
  ASSUME NEW g, Determined(g), Plain(g.nodes), CanRun(g), NEW x,
         \A t \in DOMAIN g.tensors : run_all(g, x)[t] \in Int, NEW V, Solves(g, x, V)
  PROVE  \A t \in Observed(g) : V[t] \in Int
<1> DEFINE n == Len(TopoOrder(g))
<1>1. /\ n \in Nat
      /\ \A i \in 1 .. n : NodeOf(g, TopoOrder(g)[i]) \in ToSet(g.nodes)
  BY Positions DEF Determined, Formed, Arranged, Sound, Whole
<1>2. PICK A : Measures("measure", g, x, A, n) /\ run_all(g, x) = A[n]
  BY <1>1, RunUnfolds
<1> HIDE DEF n
<1>3. ASSUME NEW i \in 1 .. n, NEW v
      PROVE  Stepped("measure", g, v, TopoOrder(g)[i]) = Stepped("mean", g, v, TopoOrder(g)[i])
  <2> DEFINE y == NodeOf(g, TopoOrder(g)[i])
  <2>1. ~IsQuantized(y) /\ y.op # "FusedMLP"
    <3>1. y \in ToSet(g.nodes)
      BY <1>1
    <3>2. \A z \in ToSet(g.nodes) : z.op \in Executable
      BY DEF CanRun, ToSet
    <3> QED BY <3>1, <3>2, PlainAgrees DEF Executable
  <2>2. Computes(y, v) = Means(y, v)
    BY <2>1, PlainMeans DEF Computes, ValuesOf
  <2> QED BY <2>2 DEF Stepped, Does
<1>4. Measures("mean", g, x, A, n)
  BY <1>2, <1>3 DEF Measures
<1>5. \A t \in Observed(g) : A[n][t] = V[t] /\ t \in DOMAIN g.tensors
  BY <1>4, SolutionIsRun, ObservedTensors DEF n
<1> QED BY <1>2, <1>5

(* A fused node without attributes. *)
Computing(g, old, op, ins, x) ==
  \A V : Solves(g, x, V) =>
    \A e \in Observed(g) : e \in Replaced(g, old) => V[e] = Execute(op, ValuesOf(V, ins))

LEMMA FusedMeans ==
  ASSUME NEW g, Determined(g), NEW old, NEW name, name \notin NodeNames(g),
         OutputOf(name) \notin DOMAIN g.tensors, NEW op, op # "FusedMLP",
         NEW ins, \A t \in ToSet(ins) : t \in Observed(g),
         Determined(Fuse(g, old, name, op, ins, Blank)), NEW x, Computing(g, old, op, ins, x)
  PROVE  Meaning(Fuse(g, old, name, op, ins, Blank), x) = Meaning(g, x)
<1> DEFINE node == [NewNode(name, op, ins, OutputOf(name)) EXCEPT !.attrs = Blank]
           tensors == [t \in {OutputOf(name)} |-> Activation]
<1>1. /\ IsNode(node) /\ node.name = name /\ node.out = OutputOf(name) /\ node.ins = ins
      /\ node.op = op /\ ~IsQuantized(node)
  BY DEF NewNode, IsNode, NodeFields, AttrFields, Blank, IsQuantized
<1>2. DOMAIN tensors = {node.out}
  BY <1>1
<1>3. Fuse(g, old, name, op, ins, Blank) = replace_subgraph(g, old, node, tensors)
  BY DEF Fuse
<1> HIDE DEF node, tensors
<1>4. ASSUME NEW V PROVE Means(node, V) = Execute(op, ValuesOf(V, ins))
  <2>1. ~IsQuantized(node) /\ node.op # "FusedMLP"
    BY <1>1
  <2>2. Means(node, V) = Execute(node.op, ValuesOf(V, node.ins))
    BY <2>1, PlainMeans
  <2> QED BY <1>1, <2>2
<1>5. Determined(replace_subgraph(g, old, node, tensors))
  BY <1>3
<1>6. Makes(g, old, node, x)
  BY <1>4 DEF Makes, Computing
<1>7. /\ IsNode(node) /\ node.name \notin NodeNames(g) /\ node.out \notin DOMAIN g.tensors
      /\ \A t \in ToSet(node.ins) : t \in Observed(g)
  BY <1>1
<1>8. Meaning(replace_subgraph(g, old, node, tensors), x) = Meaning(g, x)
  <2> HIDE DEF Makes
  <2> QED BY <1>2, <1>5, <1>6, <1>7, FuseMeans
<1> QED BY <1>3, <1>8

(* What reads comes after what made. *)
LEMMA Ranked ==
  ASSUME NEW g, Formed(g)
  PROVE  \E rank \in [ToSet(g.nodes) -> Nat] :
           \A p, y \in ToSet(g.nodes) : p.out \in ToSet(y.ins) => rank[p] < rank[y]
<1> DEFINE order == TopoOrder(g)
           n == Len(order)
           rank == [y \in ToSet(g.nodes) |-> CHOOSE i \in 1 .. n : NodeOf(g, order[i]) = y]
<1>1. /\ n \in Nat
      /\ \A i \in 1 .. n : NodeOf(g, order[i]) \in ToSet(g.nodes) /\ NodeOf(g, order[i]).name = order[i]
      /\ \A i, j \in 1 .. n : order[i] = order[j] => i = j
      /\ \A x \in ToSet(g.nodes) : \E i \in 1 .. n : NodeOf(g, order[i]) = x
  BY Positions DEF Formed, Arranged, Sound, Whole
<1>2. ASSUME NEW p \in ToSet(g.nodes), NEW y \in ToSet(g.nodes), p.out \in ToSet(y.ins)
      PROVE  rank[p] < rank[y]
  <2>1. /\ rank[p] \in 1 .. n /\ NodeOf(g, order[rank[p]]) = p
        /\ rank[y] \in 1 .. n /\ NodeOf(g, order[rank[y]]) = y
    BY <1>1
  <2> HIDE DEF rank
  <2>2. PICK j \in 1 .. rank[y] - 1 : order[j] = p.name
    BY <1>2, <2>1, OperandsFirst
  <2>3. j \in 1 .. n /\ order[rank[p]] = p.name
    BY <1>1, <2>1
  <2> QED BY <1>1, <2>1, <2>2, <2>3
<1>3. rank \in [ToSet(g.nodes) -> Nat]
  BY <1>1
<1> QED BY <1>2, <1>3

(* The numbers modulo P: F picks one of each class. *)
LEMMA Wrapped ==
  ASSUME NEW v \in Int
  PROVE  F(v) \in Int /\ \E k \in Int : F(v) = v + 97 * k
<1> DEFINE w == v + 48
           q == w \div 97
<1>1. w \in Int /\ q \in Int /\ w = 97 * q + (w % 97) /\ w % 97 \in Int
  OBVIOUS
<1>2. F(v) = (w % 97) - 48
  <2>1. P \div 2 = 48
    BY DEF P
  <2> QED BY <2>1 DEF F, P
<1> HIDE DEF q
<1>3. F(v) = v + 97 * (-q) /\ -q \in Int
  BY <1>1, <1>2
<1>4. F(v) \in Int
  BY <1>1, <1>2
<1>5. \E k \in Int : F(v) = v + 97 * k
  <2> DEFINE k == -q
  <2>1. k \in Int /\ F(v) = v + 97 * k
    BY <1>3
  <2> HIDE DEF k
  <2> QED BY <2>1
<1> QED BY <1>4, <1>5

LEMMA Shifted ==
  ASSUME NEW v \in Int, NEW k \in Int
  PROVE  F(v + 97 * k) = F(v)
<1>1. ((v + 97 * k) + 48) % 97 = (v + 48) % 97
  OBVIOUS
<1> QED BY <1>1 DEF F, P

LEMMA Commute ==
  ASSUME NEW a \in Int, NEW b \in Int
  PROVE  /\ Times(a, b) = Times(b, a) /\ Times(a, b) \in Int
         /\ Plus(a, b) = Plus(b, a) /\ Plus(a, b) \in Int
<1>1. a * b = b * a /\ a + b = b + a /\ a * b \in Int /\ a + b \in Int
  OBVIOUS
<1> QED BY <1>1, Wrapped DEF Times, Plus

LEMMA Distribute ==
  ASSUME NEW a \in Int, NEW b \in Int, NEW c \in Int
  PROVE  a * (b + c) = a * b + a * c
OBVIOUS

LEMMA Group ==
  ASSUME NEW a \in Int, NEW b \in Int, NEW c \in Int
  PROVE  Times(a, Times(b, c)) = Times(Times(a, b), c)
<1>1. PICK k \in Int : F(b * c) = b * c + 97 * k
  BY Wrapped
<1>2. PICK l \in Int : F(a * b) = a * b + 97 * l
  BY Wrapped
<1>3. a * (b * c + 97 * k) = a * b * c + 97 * (a * k) /\ a * k \in Int /\ a * b * c \in Int
  <2>1. a * k \in Int /\ a * b \in Int /\ b * c \in Int /\ (a * b) * c \in Int
    OBVIOUS
  <2>2. a * (b * c + 97 * k) = a * (b * c) + a * (97 * k)
    BY <2>1, Distribute
  <2>3. a * (b * c) = (a * b) * c /\ a * (97 * k) = 97 * (a * k)
    OBVIOUS
  <2> QED BY <2>1, <2>2, <2>3
<1>4. (a * b + 97 * l) * c = a * b * c + 97 * (l * c) /\ l * c \in Int
  <2>1. l * c \in Int /\ a * b \in Int
    OBVIOUS
  <2>2. c * (a * b + 97 * l) = c * (a * b) + c * (97 * l)
    BY <2>1, Distribute
  <2>3. c * (a * b) = (a * b) * c /\ c * (97 * l) = 97 * (l * c) /\ (a * b + 97 * l) * c = c * (a * b + 97 * l)
    BY <2>1
  <2> QED BY <2>1, <2>2, <2>3
<1>5. F(a * F(b * c)) = F(a * b * c)
  <2>1. F(a * b * c + 97 * (a * k)) = F(a * b * c)
    BY <1>3, Shifted
  <2> QED BY <1>1, <1>3, <2>1
<1>6. F(F(a * b) * c) = F(a * b * c)
  <2>1. F(a * b * c + 97 * (l * c)) = F(a * b * c)
    BY <1>3, <1>4, Shifted
  <2> QED BY <1>2, <1>4, <2>1
<1> QED BY <1>5, <1>6 DEF Times

(* What a solution gives to what an unquantized node makes; *)
LEMMA Solved ==
  ASSUME NEW g, Plain(g.nodes), NEW x, NEW V, Solves(g, x, V), NEW y \in ToSet(g.nodes),
         y.op # "FusedMLP", y.out \in Observed(g)
  PROVE  V[y.out] = Execute(y.op, ValuesOf(V, y.ins))
<1>1. V[y.out] = Means(y, V)
  BY DEF Solves
<1> QED BY <1>1, PlainMeans, PlainAgrees

(* and to a constant. *)
LEMMA ConstantSolved ==
  ASSUME NEW g, Determined(g), NEW x, NEW V, Solves(g, x, V), NEW t \in Observed(g), IsConstant(g, t)
  PROVE  V[t] = g.tensors[t].raw
<1>1. V[t] = Loaded(g, x)[t] /\ t \in DOMAIN g.tensors
  BY ObservedTensors DEF Solves, Given
<1> QED BY <1>1 DEF Loaded

(* What is read again of a chain of nodes is what none of them reads. *)
LEMMA ReplacedOuts ==
  ASSUME NEW g, Whole(g), NEW nodes, nodes \subseteq ToSet(g.nodes), NEW old,
         old \cap NodeNames(g) = {y.name : y \in nodes}, NEW e \in Replaced(g, old)
  PROVE  /\ \E y \in nodes : e = y.out
         /\ \A y \in nodes : e \notin ToSet(y.ins)
<1>1. \A y \in nodes : y.name \in old
  OBVIOUS
<1>2. ASSUME NEW y \in ToSet(g.nodes), y.name \in old PROVE y \in nodes
  <2>1. y.name \in NodeNames(g) /\ NodeOf(g, y.name) = y
    BY NodeUnique DEF Whole
  <2>2. PICK z \in nodes : z.name = y.name
    BY <1>2, <2>1
  <2>3. NodeOf(g, z.name) = z
    BY NodeUnique DEF Whole
  <2> QED BY <2>1, <2>2, <2>3
<1>3. {y \in ToSet(g.nodes) : y.name \in old} = nodes
  BY <1>1, <1>2
<1> QED BY <1>3 DEF Replaced, ExternalOutputs

LEMMA LayerNormMeans ==
  ASSUME NEW g, Determined(g), Plain(g.nodes), NEW y \in ToSet(g.nodes), y.op = "LayerNormalization",
         NEW k, <<"fused_ln", k>> \notin NodeNames(g), OutputOf(<<"fused_ln", k>>) \notin DOMAIN g.tensors,
         Determined(fuse_layer_norm(g, y, k)), NEW x
  PROVE  Meaning(fuse_layer_norm(g, y, k), x) = Meaning(g, x)
<1>1. Whole(g) /\ y.name \in NodeNames(g)
  BY NodeUnique DEF Determined, Formed, Arranged, Sound, Whole
<1>2. \A t \in ToSet(y.ins) : t \in Observed(g)
  BY ObservedTensors
<1>3. ASSUME NEW V, Solves(g, x, V), NEW e \in Observed(g), e \in Replaced(g, {y.name})
      PROVE  V[e] = Execute("FusedLayerNorm", ValuesOf(V, y.ins))
  <2>1. e = y.out
    <3>1. {y.name} \cap NodeNames(g) = {z.name : z \in {y}} /\ {y} \subseteq ToSet(g.nodes)
      BY <1>1
    <3> DEFINE nodes == {y}
               old == {y.name}
    <3>2. /\ nodes \subseteq ToSet(g.nodes) /\ e \in Replaced(g, old)
          /\ old \cap NodeNames(g) = {z.name : z \in nodes}
      BY <1>3, <3>1
    <3> HIDE DEF nodes, old
    <3>3. \E z \in nodes : e = z.out
      BY <1>1, <3>2, ReplacedOuts
    <3> QED BY <3>3 DEF nodes
  <2>2. V[e] = Execute("LayerNormalization", ValuesOf(V, y.ins))
    BY <1>3, <2>1, Solved
  <2>3. \A v : Execute("LayerNormalization", v) = Execute("FusedLayerNorm", v)
    BY DEF Execute
  <2> QED BY <2>2, <2>3
<1> DEFINE name == <<"fused_ln", k>>
           op == "FusedLayerNorm"
           old == {y.name}
<1>4. fuse_layer_norm(g, y, k) = Fuse(g, old, name, op, y.ins, Blank)
  BY DEF fuse_layer_norm
<1>5. /\ Determined(Fuse(g, old, name, op, y.ins, Blank)) /\ op # "FusedMLP"
      /\ name \notin NodeNames(g) /\ OutputOf(name) \notin DOMAIN g.tensors
  BY <1>4
<1>6. Computing(g, old, op, y.ins, x)
  BY <1>3 DEF Computing
<1> HIDE DEF name, op, old
<1>7. Meaning(Fuse(g, old, name, op, y.ins, Blank), x) = Meaning(g, x)
  BY <1>2, <1>5, <1>6, FusedMeans
<1> QED BY <1>4, <1>7

(* What an operand stands for in what an operator computes of values. *)
LEMMA ValueAt ==
  ASSUME NEW V, NEW ins, NEW j \in DOMAIN ins
  PROVE  ValuesOf(V, ins)[j] = V[ins[j]]
BY DEF ValuesOf

LEMMA ConvExecutes ==
  ASSUME NEW v
  PROVE  /\ Execute("Conv", v) = op_conv(v) /\ Execute("FusedConv", v) = op_conv(v)
         /\ Execute("FusedConvReLU", v) = ReluOf(op_conv(v))
         /\ Execute("FusedConvReLU6", v) = Clip(op_conv(v), 0, 6)
         /\ Execute("Relu", v) = ReluOf(v[1])
         /\ Execute("Clip", v) = Clip(v[1], v[2], v[3])
BY DEF Execute

(* Operators have as many operands as they should. *)
Complete(g) == \A y \in ToSet(g.nodes) : y.op \in DOMAIN Operands => Len(y.ins) = Operands[y.op]

LEMMA OperandNumbers ==
  /\ DOMAIN Operands = {"MatMul", "Add", "Mul", "Relu", "Sigmoid", "Erf", "Clip"}
  /\ Operands["MatMul"] = 2 /\ Operands["Add"] = 2 /\ Operands["Mul"] = 2
  /\ Operands["Relu"] = 1 /\ Operands["Sigmoid"] = 1 /\ Operands["Erf"] = 1
  /\ Operands["Clip"] = 3
BY DEF Operands

LEMMA OperandCounts ==
  ASSUME NEW g, Formed(g), Complete(g), NEW y \in ToSet(g.nodes)
  PROVE  /\ y.ins \in Seq(DOMAIN g.tensors) /\ DOMAIN y.ins = 1 .. Len(y.ins) /\ Len(y.ins) \in Nat
         /\ y.op \in {"MatMul", "Add", "Mul"} => DOMAIN y.ins = {1, 2} /\ ToSet(y.ins) = {y.ins[1], y.ins[2]}
         /\ y.op \in {"Relu", "Sigmoid", "Erf"} => DOMAIN y.ins = {1} /\ ToSet(y.ins) = {y.ins[1]}
         /\ y.op = "Clip" => DOMAIN y.ins = {1, 2, 3} /\ ToSet(y.ins) = {y.ins[1], y.ins[2], y.ins[3]}
<1>1. y.ins \in Seq(DOMAIN g.tensors)
  BY DEF Formed, Arranged
<1>2. DOMAIN y.ins = 1 .. Len(y.ins) /\ Len(y.ins) \in Nat
  BY <1>1, LenProperties
<1>3. ToSet(y.ins) = {y.ins[j] : j \in DOMAIN y.ins}
  BY DEF ToSet
<1>4. CASE y.op \in {"MatMul", "Add", "Mul"}
  <2>1. Len(y.ins) = 2
    BY <1>4, OperandNumbers DEF Complete
  <2>2. DOMAIN y.ins = {1, 2}
    BY <1>2, <2>1
  <2> QED BY <1>1, <1>2, <1>3, <1>4, <2>2
<1>5. CASE y.op \in {"Relu", "Sigmoid", "Erf"}
  <2>1. Len(y.ins) = 1
    BY <1>5, OperandNumbers DEF Complete
  <2>2. DOMAIN y.ins = {1}
    BY <1>2, <2>1
  <2> QED BY <1>1, <1>2, <1>3, <1>5, <2>2
<1>6. CASE y.op = "Clip"
  <2>1. Len(y.ins) = 3
    BY <1>6, OperandNumbers DEF Complete
  <2>2. DOMAIN y.ins = {1, 2, 3}
    BY <1>2, <2>1
  <2> QED BY <1>1, <1>2, <1>3, <1>6, <2>2
<1> QED BY <1>1, <1>2, <1>4, <1>5, <1>6

LEMMA NoNodeOp == NoNode.op = "None"
BY DEF NoNode

LEMMA ReplacedOne ==
  ASSUME NEW g, Whole(g), NEW y \in ToSet(g.nodes), NEW e \in Replaced(g, {y.name})
  PROVE  e = y.out
<1> DEFINE nodes == {y}
           old == {y.name}
<1>1. /\ nodes \subseteq ToSet(g.nodes) /\ e \in Replaced(g, old)
      /\ old \cap NodeNames(g) = {z.name : z \in nodes}
  BY NodeUnique DEF Whole
<1> HIDE DEF nodes, old
<1>2. \E z \in nodes : e = z.out
  BY <1>1, ReplacedOuts
<1> QED BY <1>2 DEF nodes

LEMMA ReplacedTwo ==
  ASSUME NEW g, Whole(g), NEW y \in ToSet(g.nodes), NEW z \in ToSet(g.nodes), y.out \in ToSet(z.ins),
         NEW e \in Replaced(g, {y.name} \cup {z.name})
  PROVE  e = z.out
<1> DEFINE nodes == {y, z}
           old == {y.name} \cup {z.name}
<1>1. /\ nodes \subseteq ToSet(g.nodes) /\ e \in Replaced(g, old)
      /\ old \cap NodeNames(g) = {w.name : w \in nodes}
  BY NodeUnique DEF Whole
<1> HIDE DEF nodes, old
<1>2. /\ \E w \in nodes : e = w.out
      /\ \A w \in nodes : e \notin ToSet(w.ins)
  BY <1>1, ReplacedOuts
<1> QED BY <1>2 DEF nodes

LEMMA ConvMeans ==
  ASSUME NEW g, Determined(g), Plain(g.nodes), Complete(g), NEW y \in ToSet(g.nodes), y.op = "Conv",
         NEW k, <<"fused_conv", k>> \notin NodeNames(g), OutputOf(<<"fused_conv", k>>) \notin DOMAIN g.tensors,
         Determined(fuse_conv(g, y, k)), NEW x
  PROVE  Meaning(fuse_conv(g, y, k), x) = Meaning(g, x)
<1> DEFINE next == OnlyConsumer(g, y.out)
           op == CASE next.op = "Relu" -> "FusedConvReLU"
                   [] IsRelu6(g, next) -> "FusedConvReLU6"
                   [] OTHER            -> "FusedConv"
           old == {y.name} \cup (IF op = "FusedConv" THEN {} ELSE {next.name})
           name == <<"fused_conv", k>>
           v(V) == ValuesOf(V, y.ins)
<1>1. Formed(g) /\ Whole(g)
  BY DEF Determined, Formed, Arranged, Sound
<1>2. fuse_conv(g, y, k) = Fuse(g, old, name, op, y.ins, Blank)
  BY DEF fuse_conv
<1>3. \/ next.op = "Relu" /\ op = "FusedConvReLU"
      \/ next.op = "Clip" /\ IsRelu6(g, next) /\ op = "FusedConvReLU6"
      \/ op = "FusedConv"
  BY DEF IsRelu6
<1>4. next.op \in {"Relu", "Clip"} => next \in ToSet(g.nodes) /\ y.out \in ToSet(next.ins)
  <2>1. next.op \in {"Relu", "Clip"} => next # NoNode
    BY NoNodeOp
  <2> QED BY <1>1, <2>1, OnlyConsumerReads
<1> HIDE DEF next, op
<1>5. ASSUME NEW V, Solves(g, x, V), y.out \in Observed(g)
      PROVE  V[y.out] = op_conv(v(V))
  <2>1. V[y.out] = Execute("Conv", v(V))
    BY <1>5, Solved
  <2> QED BY <2>1, ConvExecutes
<1>6. ASSUME NEW V, Solves(g, x, V), NEW e \in Observed(g), e \in Replaced(g, old)
      PROVE  V[e] = Execute(op, v(V))
  <2>1. CASE op = "FusedConv"
    <3>1. e = y.out
      BY <1>1, <1>6, <2>1, ReplacedOne
    <3> QED BY <1>5, <1>6, <2>1, <3>1, ConvExecutes
  <2>2. CASE op # "FusedConv"
    <3>1. /\ next \in ToSet(g.nodes) /\ y.out \in ToSet(next.ins)
          /\ old = {y.name} \cup {next.name}
      BY <1>3, <1>4, <2>2
    <3> HIDE DEF old
    <3>2. e = next.out
      BY <1>1, <1>6, <3>1, ReplacedTwo
    <3>3. \A t \in ToSet(next.ins) : t \in Observed(g)
      BY <3>1, ObservedTensors
    <3>4. V[y.out] = op_conv(v(V))
      BY <1>5, <1>6, <3>1, <3>3
    <3>5. V[e] = Execute(next.op, ValuesOf(V, next.ins))
      <4>1. next.op # "FusedMLP"
        BY <1>3, <2>2
      <4>2. next.out \in Observed(g)
        BY <1>6, <3>2
      <4>3. V[next.out] = Execute(next.op, ValuesOf(V, next.ins))
        BY <1>6, <3>1, <4>1, <4>2, Solved
      <4> QED BY <3>2, <4>3
    <3>6. CASE next.op = "Relu"
      <4>1. DOMAIN next.ins = {1} /\ y.out = next.ins[1]
        <5>1. DOMAIN next.ins = {1} /\ ToSet(next.ins) = {next.ins[1]}
          BY <1>1, <3>1, <3>6, OperandCounts
        <5> QED BY <3>1, <5>1
      <4>2. ValuesOf(V, next.ins)[1] = V[y.out]
        BY <4>1, ValueAt
      <4>3. op = "FusedConvReLU"
        BY <1>3, <2>2, <3>6
      <4> QED BY <3>4, <3>5, <3>6, <4>2, <4>3, ConvExecutes
    <3>7. CASE next.op = "Clip"
      <4>1. /\ DOMAIN next.ins = {1, 2, 3}
            /\ ToSet(next.ins) = {next.ins[1], next.ins[2], next.ins[3]}
        BY <1>1, <3>1, <3>7, OperandCounts
      <4>2. IsRelu6(g, next) /\ op = "FusedConvReLU6"
        BY <1>3, <2>2, <3>7
      <4>3. /\ IsConstant(g, next.ins[2]) /\ g.tensors[next.ins[2]].raw = 0
            /\ IsConstant(g, next.ins[3]) /\ g.tensors[next.ins[3]].raw = 6
        BY <4>2 DEF IsRelu6, IsAbout
      <4>4. y.out = next.ins[1]
        <5>1. ~IsConstant(g, y.out)
          BY DEF Determined, Given
        <5> QED BY <3>1, <4>1, <4>3, <5>1
      <4>5. V[next.ins[2]] = 0 /\ V[next.ins[3]] = 6
        BY <1>6, <3>3, <4>1, <4>3, ConstantSolved
      <4>6. /\ ValuesOf(V, next.ins)[1] = V[y.out]
            /\ ValuesOf(V, next.ins)[2] = 0 /\ ValuesOf(V, next.ins)[3] = 6
        BY <4>1, <4>4, <4>5, ValueAt
      <4> QED BY <3>4, <3>5, <3>7, <4>2, <4>6, ConvExecutes
    <3> QED BY <1>3, <2>2, <3>6, <3>7
  <2> QED BY <2>1, <2>2
<1>7. Computing(g, old, op, y.ins, x)
  BY <1>6 DEF Computing
<1>8. /\ \A t \in ToSet(y.ins) : t \in Observed(g)
      /\ Determined(Fuse(g, old, name, op, y.ins, Blank)) /\ op # "FusedMLP"
      /\ name \notin NodeNames(g) /\ OutputOf(name) \notin DOMAIN g.tensors
  BY <1>2, <1>3, ObservedTensors
<1> HIDE DEF name, old
<1>9. Meaning(Fuse(g, old, name, op, y.ins, Blank), x) = Meaning(g, x)
  BY <1>7, <1>8, FusedMeans
<1> QED BY <1>2, <1>9

(* Maps do not matter. *)
LEMMA SameMeans ==
  ASSUME NEW g, NEW h, Determined(g), Determined(h), NEW x, h.nodes = g.nodes, h.tensors = g.tensors,
         h.inputs = g.inputs, h.outputs = g.outputs
  PROVE  Meaning(h, x) = Meaning(g, x)
<1>1. ASSUME NEW V, Solves(g, x, V), NEW t \in Observed(h), Given(h, t)
      PROVE  V[t] = Loaded(h, x)[t]
  <2>1. t \in Observed(g) /\ Given(g, t) /\ Loaded(h, x) = Loaded(g, x)
    BY <1>1 DEF Observed, Given, IsConstant, Loaded
  <2> QED BY <1>1, <2>1 DEF Solves
<1> QED BY <1>1, FewerNodes

LEMMA TouchMeans ==
  ASSUME NEW g, Determined(g), Determined(Touch(g)), NEW x
  PROVE  Meaning(Touch(g), x) = Meaning(g, x)
<1>1. /\ Touch(g).nodes = g.nodes /\ Touch(g).tensors = g.tensors
      /\ Touch(g).inputs = g.inputs /\ Touch(g).outputs = g.outputs
  BY DEF Touch, Determined, Formed, Arranged, Sound, Whole, GraphFields
<1> QED BY <1>1, SameMeans

RunsOn(g, x) == CanRun(g) /\ \A t \in DOMAIN g.tensors : run_all(g, x)[t] \in Int

LEMMA ActivationsExecute ==
  ASSUME NEW v
  PROVE  /\ Execute("Sigmoid", v) = Sigmoid(v[1]) /\ Execute("Mul", v) = Times(v[1], v[2])
         /\ Execute("Erf", v) = Erf(v[1]) /\ Execute("Add", v) = Plus(v[1], v[2])
         /\ Execute("FusedSiLU", v) = Times(v[1], Sigmoid(v[1]))
         /\ Execute("FusedGELU", v) = Times(Times(Half, v[1]), Plus(1, Erf(Times(v[1], Root2))))
BY DEF Execute, op_mul, op_add, op_fused_silu, op_fused_gelu

(* What a solution gives to sums and products, whatever the order of operands. *)
LEMMA PairSolved ==
  ASSUME NEW g, Determined(g), Plain(g.nodes), Complete(g), NEW x, RunsOn(g, x), NEW V, Solves(g, x, V),
         NEW y \in ToSet(g.nodes), y.out \in Observed(g),
         NEW t \in ToSet(y.ins), NEW u \in ToSet(y.ins), t # u
  PROVE  /\ y.op = "Mul" => V[y.out] = Times(V[t], V[u])
         /\ y.op = "Add" => V[y.out] = Plus(V[t], V[u])
         /\ V[t] \in Int /\ V[u] \in Int
<1>1. V[t] \in Int /\ V[u] \in Int
  <2>1. t \in Observed(g) /\ u \in Observed(g)
    BY ObservedTensors
  <2> QED BY <2>1, SolutionIsNumeric DEF RunsOn
<1>2. ASSUME y.op \in {"Mul", "Add"}
      PROVE  \/ y.ins[1] = t /\ y.ins[2] = u
             \/ y.ins[1] = u /\ y.ins[2] = t
  <2>1. ToSet(y.ins) = {y.ins[1], y.ins[2]}
    BY <1>2, OperandCounts DEF Determined
  <2> QED BY <2>1
<1>3. ASSUME y.op \in {"Mul", "Add"}
      PROVE  ValuesOf(V, y.ins)[1] = V[y.ins[1]] /\ ValuesOf(V, y.ins)[2] = V[y.ins[2]]
  <2>1. DOMAIN y.ins = {1, 2}
    BY <1>3, OperandCounts DEF Determined
  <2> QED BY <2>1, ValueAt
<1>4. y.op \in {"Mul", "Add"} => V[y.out] = Execute(y.op, ValuesOf(V, y.ins))
  BY Solved
<1>5. Times(V[t], V[u]) = Times(V[u], V[t]) /\ Plus(V[t], V[u]) = Plus(V[u], V[t])
  BY <1>1, Commute
<1>6. y.op = "Mul" => V[y.out] = Times(V[t], V[u])
  BY <1>2, <1>3, <1>4, <1>5, ActivationsExecute
<1>7. y.op = "Add" => V[y.out] = Plus(V[t], V[u])
  BY <1>2, <1>3, <1>4, <1>5, ActivationsExecute
<1> QED BY <1>1, <1>6, <1>7

LEMMA SingleSolved ==
  ASSUME NEW g, Determined(g), Plain(g.nodes), Complete(g), NEW x, NEW V, Solves(g, x, V),
         NEW y \in ToSet(g.nodes), y.out \in Observed(g)
  PROVE  /\ y.op = "Sigmoid" => V[y.out] = Sigmoid(V[y.ins[1]])
         /\ y.op = "Erf" => V[y.out] = Erf(V[y.ins[1]])
<1>1. y.op \in {"Sigmoid", "Erf"} => V[y.out] = Execute(y.op, ValuesOf(V, y.ins))
  BY Solved
<1>2. ASSUME y.op \in {"Sigmoid", "Erf"} PROVE ValuesOf(V, y.ins)[1] = V[y.ins[1]]
  <2>1. DOMAIN y.ins = {1}
    BY <1>2, OperandCounts DEF Determined
  <2> QED BY <2>1, ValueAt
<1> QED BY <1>1, <1>2, ActivationsExecute

LEMMA FirstPicked ==
  ASSUME NEW T, NEW seq \in Seq(T), NEW S, Among(seq, S) # <<>>
  PROVE  Head(Among(seq, S)) \in ToSet(seq) \cap S
<1>1. Among(seq, S) \in Seq(T) /\ ToSet(Among(seq, S)) = ToSet(seq) \cap S
  BY AmongLists
<1>2. Head(Among(seq, S)) \in ToSet(Among(seq, S))
  BY <1>1, TailLists
<1> QED BY <1>1, <1>2

LEMMA SiluMeans ==
  ASSUME NEW g, Determined(g), Plain(g.nodes), Complete(g), NEW y \in ToSet(g.nodes), y.op = "Sigmoid",
         NEW k, <<"fused_silu", k>> \notin NodeNames(g), OutputOf(<<"fused_silu", k>>) \notin DOMAIN g.tensors,
         Determined(fuse_silu(g, y, k)), NEW x, RunsOn(g, x)
  PROVE  Meaning(fuse_silu(g, y, k), x) = Meaning(g, x)
<1> DEFINE T == {c \in ToSet(Consumers(g, y.out)) :
                   c.op = "Mul" /\ {y.ins[1], y.out} \subseteq ToSet(c.ins)}
           muls == Among(Consumers(g, y.out), T)
           m == Head(muls)
           t == y.ins[1]
           old == {y.name} \cup {m.name}
           name == <<"fused_silu", k>>
           op == "FusedSiLU"
<1>1. Formed(g) /\ Whole(g)
  BY DEF Determined, Formed, Arranged, Sound
<1>2. fuse_silu(g, y, k) = IF muls = <<>> THEN Touch(g) ELSE Fuse(g, old, name, op, <<t>>, Blank)
  <2>1. {y.name, m.name} = old
    OBVIOUS
  <2> QED BY <2>1 DEF fuse_silu, Pick
<1>3. CASE muls = <<>>
  BY <1>2, <1>3, TouchMeans
<1>4. CASE muls # <<>>
  <2>1. /\ m \in ToSet(g.nodes) /\ m.op = "Mul" /\ t \in ToSet(m.ins) /\ y.out \in ToSet(m.ins)
    <3>1. Consumers(g, y.out) \in Seq(ToSet(g.nodes))
      BY <1>1, ConsumersRead
    <3>2. m \in ToSet(Consumers(g, y.out)) \cap T
      BY <1>4, <3>1, FirstPicked
    <3>3. m \in ToSet(g.nodes)
      BY <1>1, <3>2, ConsumersRead
    <3> QED BY <3>2, <3>3
  <2> HIDE DEF muls, m
  <2>2. /\ DOMAIN y.ins = {1} /\ ToSet(y.ins) = {t}
    BY <1>1, <2>1, OperandCounts
  <2>3. t # y.out
    <3>1. PICK rank \in [ToSet(g.nodes) -> Nat] :
            \A p, z \in ToSet(g.nodes) : p.out \in ToSet(z.ins) => rank[p] < rank[z]
      BY <1>1, Ranked
    <3>2. ~(rank[y] < rank[y])
      BY <3>1
    <3> QED BY <2>2, <3>1, <3>2
  <2>4. t \in Observed(g) /\ y.out \in Observed(g)
    BY <2>1, <2>2, ObservedTensors
  <2>5. ASSUME NEW V, Solves(g, x, V), NEW e \in Observed(g), e \in Replaced(g, old)
        PROVE  V[e] = Execute(op, ValuesOf(V, <<t>>))
    <3>1. e = m.out
      BY <1>1, <2>1, <2>5, ReplacedTwo
    <3>2. V[y.out] = Sigmoid(V[t])
      BY <2>4, <2>5, SingleSolved
    <3>3. m.out \in Observed(g)
      BY <2>5, <3>1
    <3>4. V[m.out] = Times(V[t], V[y.out])
      BY <2>1, <2>3, <2>5, <3>3, PairSolved
    <3>5. V[e] = Times(V[t], V[y.out])
      BY <3>1, <3>4
    <3>6. ValuesOf(V, <<t>>)[1] = V[t]
      BY DEF ValuesOf
    <3> QED BY <3>2, <3>5, <3>6, ActivationsExecute
  <2> HIDE DEF t, old, name, op
  <2>6. Computing(g, old, op, <<t>>, x)
    BY <2>5 DEF Computing
  <2>7. /\ \A u \in ToSet(<<t>>) : u \in Observed(g)
        /\ Determined(Fuse(g, old, name, op, <<t>>, Blank)) /\ op # "FusedMLP"
        /\ name \notin NodeNames(g) /\ OutputOf(name) \notin DOMAIN g.tensors
    <3>1. ToSet(<<t>>) = {t}
      BY DEF ToSet
    <3> QED BY <1>2, <1>4, <2>4, <3>1 DEF name, op
  <2>8. Meaning(Fuse(g, old, name, op, <<t>>, Blank), x) = Meaning(g, x)
    BY <2>6, <2>7, FusedMeans
  <2> QED BY <1>2, <1>4, <2>8
<1> QED BY <1>3, <1>4

LEMMA ProducerMakes ==
  ASSUME NEW g, Sound(g), NEW t, Producer(g, t) # NoNode
  PROVE  Producer(g, t) \in ToSet(g.nodes) /\ Producer(g, t).out = t
<1>1. get_producers(g, t) # {}
  <2> SUFFICES ASSUME get_producers(g, t) = {} PROVE FALSE
    OBVIOUS
  <2> DEFINE links == Links(g.nodes)
  <2>1. \A i \in DOMAIN g.nodes : g.nodes[i].out # t
    BY DEF get_producers, ToSet
  <2>2. DOMAIN links = DOMAIN g.nodes /\ \A i \in DOMAIN g.nodes : links[i].out = g.nodes[i].out
    BY DEF Links
  <2>3. Adjacency(g) = links
    BY DEF Sound, Fresh, Adjacency
  <2> HIDE DEF links
  <2>4. {i \in DOMAIN links : links[i].out = t} = {}
    BY <2>1, <2>2
  <2> QED BY <2>3, <2>4 DEF Producer, ProducerBy
<1> QED BY <1>1, ProducerFound

LEMMA SingleReads ==
  ASSUME NEW g, Formed(g), NEW t, NEW op, op # "None", Single(g, t, op) # NoNode
  PROVE  /\ Single(g, t, op) \in ToSet(g.nodes) /\ Single(g, t, op).op = op
         /\ t \in ToSet(Single(g, t, op).ins)
<1>1. Single(g, t, op) = OnlyConsumer(g, t) /\ OnlyConsumer(g, t).op = op /\ OnlyConsumer(g, t) # NoNode
  BY DEF Single
<1> QED BY <1>1, OnlyConsumerReads

LEMMA GeluMeans ==
  ASSUME NEW g, Determined(g), Plain(g.nodes), Complete(g), NEW y \in ToSet(g.nodes), y.op = "Erf",
         NEW k, <<"fused_gelu", k>> \notin NodeNames(g), OutputOf(<<"fused_gelu", k>>) \notin DOMAIN g.tensors,
         Determined(fuse_gelu(g, y, k)), NEW x, RunsOn(g, x)
  PROVE  Meaning(fuse_gelu(g, y, k), x) = Meaning(g, x)
<1> DEFINE s == Producer(g, y.ins[1])
           xs == Among(s.ins, {t \in ToSet(s.ins) : ~IsConstant(g, t)})
           t == Head(xs)
           add == Single(g, y.out, "Add")
           mul1 == Single(g, add.out, "Mul")
           mul2 == Single(g, mul1.out, "Mul")
           Has(node, v) == \E u \in ConstantsOf(g, node) : IsAbout(g, u, v)
           matches == /\ s.op = "Mul" /\ xs # <<>> /\ Has(s, Root2)
                      /\ add # NoNode /\ Has(add, 1)
                      /\ mul1 # NoNode /\ t \in ToSet(mul1.ins)
                      /\ mul2 # NoNode /\ Has(mul2, Half)
           nodes == {s, y, add, mul1, mul2}
           old == {s.name, y.name, add.name, mul1.name, mul2.name}
           name == <<"fused_gelu", k>>
           op == "FusedGELU"
<1>1. Formed(g) /\ Whole(g) /\ Sound(g)
  BY DEF Determined, Formed, Arranged, Sound
<1>2. fuse_gelu(g, y, k) = IF matches THEN Fuse(g, old, name, op, <<t>>, Blank) ELSE Touch(g)
  BY DEF fuse_gelu, Pick
<1>3. CASE ~matches
  BY <1>2, <1>3, TouchMeans
<1>4. CASE matches
  <2>1. /\ s \in ToSet(g.nodes) /\ s.op = "Mul" /\ s.out = y.ins[1]
        /\ add \in ToSet(g.nodes) /\ add.op = "Add" /\ y.out \in ToSet(add.ins)
        /\ mul1 \in ToSet(g.nodes) /\ mul1.op = "Mul" /\ add.out \in ToSet(mul1.ins)
        /\ mul2 \in ToSet(g.nodes) /\ mul2.op = "Mul" /\ mul1.out \in ToSet(mul2.ins)
    <3>1. s.op = "Mul" => s # NoNode
      BY NoNodeOp
    <3> HIDE DEF add, mul1, mul2, s
    <3>2. s \in ToSet(g.nodes) /\ s.out = y.ins[1]
      BY <1>1, <1>4, <3>1, ProducerMakes DEF s
    <3>3. add \in ToSet(g.nodes) /\ add.op = "Add" /\ y.out \in ToSet(add.ins)
      BY <1>1, <1>4, SingleReads DEF add
    <3>4. mul1 \in ToSet(g.nodes) /\ mul1.op = "Mul" /\ add.out \in ToSet(mul1.ins)
      BY <1>1, <1>4, SingleReads DEF mul1
    <3>5. mul2 \in ToSet(g.nodes) /\ mul2.op = "Mul" /\ mul1.out \in ToSet(mul2.ins)
      BY <1>1, <1>4, SingleReads DEF mul2
    <3> QED BY <1>4, <3>2, <3>3, <3>4, <3>5
  <2> HIDE DEF s, add, mul1, mul2
  <2>2. y.ins[1] = s.out /\ s.out \in ToSet(y.ins)
    <3>1. ToSet(y.ins) = {y.ins[1]}
      BY <1>1, OperandCounts
    <3> QED BY <2>1, <3>1
  <2>3. t \in ToSet(s.ins) /\ ~IsConstant(g, t)
    <3>1. s.ins \in Seq(DOMAIN g.tensors)
      BY <1>1, <2>1, OperandCounts
    <3> QED BY <1>4, <3>1, FirstPicked
  <2>4. PICK c \in ToSet(s.ins), one \in ToSet(add.ins), half \in ToSet(mul2.ins) :
          /\ IsConstant(g, c) /\ g.tensors[c].raw = Root2
          /\ IsConstant(g, one) /\ g.tensors[one].raw = 1
          /\ IsConstant(g, half) /\ g.tensors[half].raw = Half
    <3>1. /\ \E u \in ToSet(s.ins) : IsConstant(g, u) /\ g.tensors[u].raw = Root2
          /\ \E u \in ToSet(add.ins) : IsConstant(g, u) /\ g.tensors[u].raw = 1
          /\ \E u \in ToSet(mul2.ins) : IsConstant(g, u) /\ g.tensors[u].raw = Half
      BY <1>4 DEF ConstantsOf, IsAbout
    <3> QED BY <3>1
  <2> HIDE DEF xs, t, Has
  <2>5. \A z \in ToSet(g.nodes) : ~IsConstant(g, z.out)
    BY DEF Determined, Given
  <2>6. t # c /\ y.out # one /\ mul1.out # half
    BY <2>1, <2>3, <2>4, <2>5
  <2>7. t # add.out
    <3>1. PICK rank \in [ToSet(g.nodes) -> Nat] :
            \A p, z \in ToSet(g.nodes) : p.out \in ToSet(z.ins) => rank[p] < rank[z]
      BY <1>1, Ranked
    <3>2. rank[s] < rank[y] /\ rank[y] < rank[add] /\ rank[s] \in Nat /\ rank[y] \in Nat /\ rank[add] \in Nat
      BY <2>1, <2>2, <3>1
    <3>3. ~(rank[add] < rank[s])
      BY <3>2
    <3> QED BY <2>1, <2>3, <3>1, <3>3
  <2>8. t \in ToSet(mul1.ins)
    BY <1>4
  <2>9. /\ t \in Observed(g) /\ s.out \in Observed(g) /\ y.out \in Observed(g)
        /\ add.out \in Observed(g) /\ mul1.out \in Observed(g)
        /\ c \in Observed(g) /\ one \in Observed(g) /\ half \in Observed(g)
    BY <2>1, <2>2, <2>3, <2>4, ObservedTensors
  <2>10. ASSUME NEW V, Solves(g, x, V), NEW e \in Observed(g), e \in Replaced(g, old)
         PROVE  V[e] = Execute(op, ValuesOf(V, <<t>>))
    <3>1. e = mul2.out
      <4>1. /\ nodes \subseteq ToSet(g.nodes)
            /\ old \cap NodeNames(g) = {z.name : z \in nodes}
        BY <1>1, <2>1, NodeUnique DEF Whole
      <4>2. /\ \E z \in nodes : e = z.out
            /\ \A z \in nodes : e \notin ToSet(z.ins)
        <5> HIDE DEF nodes, old
        <5> QED BY <1>1, <2>10, <4>1, ReplacedOuts
      <4> QED BY <2>1, <2>2, <4>2
    <3>2. V[c] = Root2 /\ V[one] = 1 /\ V[half] = Half
      BY <2>4, <2>9, <2>10, ConstantSolved
    <3>3. V[s.out] = Times(V[t], Root2) /\ V[t] \in Int
      BY <2>1, <2>3, <2>6, <2>9, <2>10, <3>2, PairSolved
    <3>4. V[y.out] = Erf(V[s.out])
      BY <2>2, <2>9, <2>10, SingleSolved
    <3>5. V[add.out] = Plus(1, V[y.out])
      BY <2>1, <2>4, <2>6, <2>9, <2>10, <3>2, PairSolved
    <3>6. V[mul1.out] = Times(V[t], V[add.out]) /\ V[add.out] \in Int
      BY <2>1, <2>7, <2>8, <2>9, <2>10, PairSolved
    <3>7. V[mul2.out] = Times(Half, V[mul1.out]) /\ Half \in Int
      <4>1. mul2.out \in Observed(g)
        BY <2>10, <3>1
      <4> QED BY <2>1, <2>4, <2>6, <2>10, <3>2, <4>1, PairSolved
    <3>8. Times(Half, Times(V[t], V[add.out])) = Times(Times(Half, V[t]), V[add.out])
      BY <3>3, <3>6, <3>7, Group
    <3>9. ValuesOf(V, <<t>>)[1] = V[t]
      BY DEF ValuesOf
    <3> QED BY <3>1, <3>3, <3>4, <3>5, <3>6, <3>7, <3>8, <3>9, ActivationsExecute
  <2> HIDE DEF old, name, op, nodes
  <2>11. Computing(g, old, op, <<t>>, x)
    BY <2>10 DEF Computing
  <2>12. /\ \A u \in ToSet(<<t>>) : u \in Observed(g)
         /\ Determined(Fuse(g, old, name, op, <<t>>, Blank)) /\ op # "FusedMLP"
         /\ name \notin NodeNames(g) /\ OutputOf(name) \notin DOMAIN g.tensors
    <3>1. ToSet(<<t>>) = {t}
      BY DEF ToSet
    <3> HIDE DEF matches
    <3> QED BY <1>2, <1>4, <2>9, <3>1 DEF name, op
  <2>13. Meaning(Fuse(g, old, name, op, <<t>>, Blank), x) = Meaning(g, x)
    BY <2>11, <2>12, FusedMeans
  <2> HIDE DEF matches
  <2> QED BY <1>2, <1>4, <2>13
<1> QED BY <1>3, <1>4

(* Nothing is left out of a list of members of S only; *)
LEMMA AmongKeeps ==
  ASSUME NEW T, NEW seq \in Seq(T), NEW S, ToSet(seq) \subseteq S
  PROVE  Len(Among(seq, S)) = Len(seq)
<1>1. PICK A : /\ Recursive(A, Len(seq), Seq(T), <<>>, Picked(T, seq, S))
               /\ Among(seq, S) = A[Len(seq)]
  BY AmongUnfolds
<1> DEFINE n == Len(seq)
           Good == {i \in 0 .. n : Len(A[i]) = i}
<1>2. n \in Nat /\ \A i \in 1 .. n : seq[i] \in T /\ seq[i] \in S
  BY LenProperties, ElementOfSeq DEF ToSet
<1>3. /\ A[0] = <<>> /\ \A i \in 0 .. n : A[i] \in Seq(T)
      /\ \A i \in 1 .. n : i - 1 \in 0 .. n /\ A[i] = Append(A[i - 1], seq[i])
  <2>1. A[0] = <<>> /\ \A i \in 0 .. n : A[i] \in Seq(T)
    BY <1>1 DEF Recursive
  <2>2. ASSUME NEW i \in 1 .. n PROVE i - 1 \in 0 .. n /\ A[i] = Append(A[i - 1], seq[i])
    <3>1. i - 1 \in 0 .. n /\ A[i] = Picked(T, seq, S)[<<A[i - 1], i>>]
      BY <1>1, <1>2 DEF Recursive
    <3> QED BY <1>2, <2>1, <3>1 DEF Picked
  <2> QED BY <2>1, <2>2
<1> HIDE DEF n
<1>4. 0 \in Good
  <2>1. Len(<<>>) = 0
    BY EmptySeq
  <2> QED BY <1>2, <1>3, <2>1
<1>5. ASSUME NEW i \in 1 .. n, i - 1 \in Good PROVE i \in Good
  <2>1. A[i - 1] \in Seq(T) /\ seq[i] \in T /\ A[i] = Append(A[i - 1], seq[i]) /\ Len(A[i - 1]) = i - 1
    BY <1>2, <1>3, <1>5
  <2>2. Len(A[i]) = i
    BY <2>1, AppendProperties
  <2> QED BY <1>2, <2>2
<1>6. n \in Good
  <2> HIDE DEF Good
  <2>1. \A i \in 0 .. n : i \in Good
    BY <1>2, <1>4, <1>5, UpTo
  <2> QED BY <1>2, <2>1
<1> QED BY <1>1, <1>6 DEF n

(* and what sequences flatten to is as long as any of them at least. *)
LEMMA FlattenedLong ==
  ASSUME NEW T, NEW seqs \in Seq(Seq(T)), NEW m \in 1 .. Len(seqs)
  PROVE  Len(FlattenSeq(seqs)) >= Len(seqs[m])
<1>1. PICK A : /\ Recursive(A, Len(seqs), Seq(T), <<>>, Runs(T, seqs))
               /\ FlattenSeq(seqs) = A[Len(seqs)]
  BY FlattenUnfolds
<1> DEFINE n == Len(seqs)
           Good == {i \in 0 .. n : i >= m => Len(A[i]) >= Len(seqs[m])}
<1>2. n \in Nat /\ \A i \in 1 .. n : seqs[i] \in Seq(T)
  BY LenProperties, ElementOfSeq
<1>3. /\ \A i \in 0 .. n : A[i] \in Seq(T)
      /\ \A i \in 1 .. n : i - 1 \in 0 .. n /\ A[i] = A[i - 1] \o seqs[i]
  <2>1. \A i \in 0 .. n : A[i] \in Seq(T)
    BY <1>1 DEF Recursive
  <2>2. ASSUME NEW i \in 1 .. n PROVE i - 1 \in 0 .. n /\ A[i] = A[i - 1] \o seqs[i]
    <3>1. i - 1 \in 0 .. n /\ A[i] = Runs(T, seqs)[<<A[i - 1], i>>]
      BY <1>1, <1>2 DEF Recursive
    <3> QED BY <2>1, <3>1 DEF Runs
  <2> QED BY <2>1, <2>2
<1>4. \A i \in 0 .. n : Len(A[i]) \in Nat
  BY <1>3, LenProperties
<1>5. \A i \in 1 .. n : Len(A[i]) = Len(A[i - 1]) + Len(seqs[i]) /\ Len(seqs[i]) \in Nat
  <2> SUFFICES ASSUME NEW i \in 1 .. n
               PROVE  Len(A[i]) = Len(A[i - 1]) + Len(seqs[i]) /\ Len(seqs[i]) \in Nat
    OBVIOUS
  <2>1. A[i - 1] \in Seq(T) /\ seqs[i] \in Seq(T) /\ A[i] = A[i - 1] \o seqs[i]
    BY <1>2, <1>3
  <2>2. Len(A[i - 1] \o seqs[i]) = Len(A[i - 1]) + Len(seqs[i])
    BY <2>1, ConcatProperties
  <2>3. Len(seqs[i]) \in Nat
    BY <2>1, LenProperties
  <2> QED BY <2>1, <2>2, <2>3
<1> HIDE DEF n
<1>6. m \in 1 .. n
  BY DEF n
<1>7. 0 \in Good
  BY <1>2, <1>6
<1>8. ASSUME NEW i \in 1 .. n, i - 1 \in Good PROVE i \in Good
  <2>1. /\ Len(A[i]) = Len(A[i - 1]) + Len(seqs[i]) /\ Len(seqs[i]) \in Nat /\ Len(seqs[m]) \in Nat
        /\ i - 1 \in 0 .. n /\ Len(A[i - 1]) \in Nat
    BY <1>3, <1>4, <1>5, <1>6
  <2> DEFINE a == Len(A[i - 1])
             b == Len(seqs[i])
             w == Len(seqs[m])
  <2>2. a \in Nat /\ b \in Nat /\ w \in Nat /\ Len(A[i]) = a + b /\ i \in Nat /\ m \in Nat /\ i \in 0 .. n
    BY <1>2, <1>6, <2>1
  <2>3. i - 1 >= m => a >= w
    BY <1>8
  <2>4. i = m => b = w
    OBVIOUS
  <2> HIDE DEF a, b
  <2>5. i >= m => a + b >= w
    BY <2>2, <2>3, <2>4
  <2> QED BY <2>2, <2>5
<1>9. n \in Good
  <2> HIDE DEF Good
  <2>1. \A i \in 0 .. n : i \in Good
    BY <1>2, <1>7, <1>8, UpTo
  <2> QED BY <1>2, <2>1
<1> QED BY <1>1, <1>2, <1>6, <1>9 DEF n

LEMMA TwoMembers ==
  ASSUME NEW S, IsFiniteSet(S), NEW a \in S, NEW b \in S, a # b
  PROVE  Cardinality(S) >= 2
<1>1. IsFiniteSet(S \ {a}) /\ Cardinality(S \ {a}) = Cardinality(S) - 1 /\ Cardinality(S) \in Nat
  BY FS_RemoveElement, FS_CardinalityType
<1>2. Cardinality(S \ {a}) # 0 /\ Cardinality(S \ {a}) \in Nat
  <2>1. b \in S \ {a}
    OBVIOUS
  <2> QED BY <1>1, <2>1, FS_EmptySet, FS_CardinalityType
<1> QED BY <1>1, <1>2

(* The only consumer reads the tensor once. *)
LEMMA OnlyConsumerOnce ==
  ASSUME NEW g, Formed(g), NEW t, OnlyConsumer(g, t) # NoNode,
         NEW j \in DOMAIN OnlyConsumer(g, t).ins, NEW l \in DOMAIN OnlyConsumer(g, t).ins,
         OnlyConsumer(g, t).ins[j] = t, OnlyConsumer(g, t).ins[l] = t
  PROVE  j = l
<1> SUFFICES ASSUME j # l PROVE FALSE
  OBVIOUS
<1> DEFINE T == ToSet(g.nodes)
           N == {x \in T : x # NoNode}
           c == OnlyConsumer(g, t)
<1>1. Len(Consumers(g, t)) = 1
  BY DEF OnlyConsumer
<1>2. PICK rows \in Seq(Seq(T)) :
        /\ Consumers(g, t) = Pick(FlattenSeq(rows), LAMBDA x : x # NoNode)
        /\ DOMAIN g.nodes = 1 .. Len(g.nodes) /\ Len(rows) = Len(g.nodes)
        /\ \A i \in 1 .. Len(rows) :
             /\ ToSet(rows[i]) \subseteq {x \in T : t \in ToSet(x.ins)}
             /\ IsFiniteSet(Readings(g, i, t)) /\ Len(rows[i]) = Cardinality(Readings(g, i, t))
  BY ConsumerRows
<1>3. c \in T
  BY OnlyConsumerReads
<1>4. PICK i \in 1 .. Len(rows) : g.nodes[i] = c
  BY <1>2, <1>3 DEF ToSet
<1>5. Len(rows[i]) >= 2
  <2>1. j \in Readings(g, i, t) /\ l \in Readings(g, i, t)
    BY <1>4 DEF Readings
  <2> QED BY <1>2, <1>4, <2>1, TwoMembers
<1>6. /\ FlattenSeq(rows) \in Seq(T) /\ Len(FlattenSeq(rows)) >= Len(rows[i])
      /\ ToSet(FlattenSeq(rows)) \subseteq {x \in T : t \in ToSet(x.ins)}
  <2> DEFINE S == {x \in T : t \in ToSet(x.ins)}
  <2>1. \A k \in 1 .. Len(rows) : ToSet(rows[k]) \subseteq S
    BY <1>2
  <2> HIDE DEF S
  <2>2. FlattenSeq(rows) \in Seq(T) /\ ToSet(FlattenSeq(rows)) \subseteq S
    BY <2>1, FlattenedFrom
  <2> QED BY <2>2, FlattenedLong DEF S
<1>7. NoNode \notin T
  <2>1. \A x \in T : DOMAIN x = NodeFields
    BY DEF Formed, Arranged, Sound, Whole, Dict, IsNode, ToSet
  <2>2. DOMAIN NoNode # NodeFields
    <3>1. DOMAIN NoNode = {"name", "op", "ins", "out"}
      BY DEF NoNode
    <3>2. "attrs" \in NodeFields /\ "attrs" \notin DOMAIN NoNode
      BY <3>1 DEF NodeFields
    <3> QED BY <3>2
  <2> QED BY <2>1, <2>2
<1> DEFINE seq == FlattenSeq(rows)
           S == {x \in ToSet(seq) : x # NoNode}
<1>8. Consumers(g, t) = Among(seq, S) /\ ToSet(seq) \subseteq S
  BY <1>2, <1>6, <1>7 DEF Pick
<1> HIDE DEF S, seq
<1>9. Len(Consumers(g, t)) = Len(seq)
  BY <1>6, <1>8, AmongKeeps DEF seq
<1>10. Len(rows[i]) \in Nat /\ Len(seq) \in Nat
  <2>1. rows[i] \in Seq(T)
    BY ElementOfSeq
  <2> QED BY <1>6, <2>1, LenProperties DEF seq
<1>11. Len(seq) >= Len(rows[i])
  BY <1>6 DEF seq
<1> DEFINE p == Len(rows[i])
           q == Len(seq)
<1>12. q = 1 /\ p \in Nat /\ p >= 2 /\ q >= p
  <2>1. q = 1
    BY <1>1, <1>9
  <2> QED BY <2>1, <1>5, <1>10, <1>11
<1> HIDE DEF p, q
<1>13. p \in Nat /\ p >= 2 /\ 1 >= p
  BY <1>12
<1> QED BY <1>13

(* What is computed of operands is as long as they are. *)
LEMMA ValuesLength ==
  ASSUME NEW T, NEW ins \in Seq(T), NEW V
  PROVE  Len(ValuesOf(V, ins)) = Len(ins)
<1> DEFINE R == {V[t] : t \in T}
           v == ValuesOf(V, ins)
<1>1. DOMAIN ins = 1 .. Len(ins) /\ Len(ins) \in Nat /\ \A i \in 1 .. Len(ins) : ins[i] \in T
  BY LenProperties, ElementOfSeq
<1>2. v = [i \in 1 .. Len(ins) |-> v[i]] /\ \A i \in 1 .. Len(ins) : v[i] \in R
  BY <1>1 DEF ValuesOf
<1> HIDE DEF v, R
<1>3. v \in Seq(R)
  BY <1>1, <1>2, IsASeq
<1>4. DOMAIN v = 1 .. Len(v) /\ Len(v) \in Nat /\ DOMAIN v = 1 .. Len(ins)
  BY <1>2, <1>3, LenProperties
<1>5. Len(v) = Len(ins)
  <2> DEFINE a == Len(v)
             b == Len(ins)
  <2>1. a \in Nat /\ b \in Nat /\ 1 .. a = 1 .. b
    BY <1>1, <1>4
  <2> HIDE DEF a, b
  <2>2. /\ a # 0 => a \in 1 .. b
        /\ b # 0 => b \in 1 .. a
    BY <2>1
  <2>3. a = b
    BY <2>1, <2>2
  <2> QED BY <2>3 DEF a, b
<1> QED BY <1>5 DEF v

LEMMA LinearExecutes ==
  ASSUME NEW v, Len(v) \in Nat
  PROVE  /\ Execute("MatMul", v) = Product(v[1], v[2]) /\ Execute("Relu", v) = ReluOf(v[1])
         /\ Execute("FusedLinearReLU", v) = ReluOf(Execute("FusedLinear", v))
         /\ Len(v) = 2 => Execute("FusedLinear", v) = Product(v[1], v[2])
         /\ Len(v) = 3 => Execute("FusedLinear", v) = Plus(Product(v[1], v[2]), v[3])
<1>1. /\ Execute("MatMul", v) = op_matmul(v) /\ Execute("Relu", v) = ReluOf(v[1])
      /\ Execute("FusedLinear", v) = op_gemm(v) /\ Execute("FusedLinearReLU", v) = ReluOf(op_gemm(v))
  <2>1. /\ Execute("MatMul", v) = op_matmul(v) /\ Execute("FusedLinear", v) = op_gemm(v)
        /\ Execute("FusedLinearReLU", v) = ReluOf(op_gemm(v))
    BY DEF Execute
  <2> QED BY <2>1, ConvExecutes
<1>2. op_matmul(v) = Product(v[1], v[2])
  BY DEF op_matmul
<1>3. /\ Len(v) = 2 => op_gemm(v) = Product(v[1], v[2])
      /\ Len(v) = 3 => op_gemm(v) = Plus(Product(v[1], v[2]), v[3])
  BY DEF op_gemm, WithBias
<1> QED BY <1>1, <1>2, <1>3

(* The bias of a fused layer is what the sum adds to the product. *)
LEMMA BiasIsOther ==
  ASSUME NEW g, Formed(g), Complete(g), NEW t, OnlyConsumer(g, t) # NoNode, OnlyConsumer(g, t).op = "Add"
  PROVE  LET add  == OnlyConsumer(g, t)
             bias == Among(add.ins, {u \in ToSet(add.ins) : u # t})
         IN  add \in ToSet(g.nodes) /\ t \in ToSet(add.ins) /\ bias # <<>>
             /\ Last(bias) \in ToSet(add.ins) /\ Last(bias) # t
<1> DEFINE add == OnlyConsumer(g, t)
           others == {u \in ToSet(add.ins) : u # t}
           bias == Among(add.ins, others)
<1>1. add \in ToSet(g.nodes) /\ t \in ToSet(add.ins)
  BY OnlyConsumerReads
<1>2. add.ins \in Seq(DOMAIN g.tensors) /\ DOMAIN add.ins = {1, 2} /\ ToSet(add.ins) = {add.ins[1], add.ins[2]}
  BY <1>1, OperandCounts
<1>3. add.ins[1] # t \/ add.ins[2] # t
  <2> SUFFICES ASSUME add.ins[1] = t, add.ins[2] = t PROVE FALSE
    OBVIOUS
  <2>1. 1 = 2
    <3>1. 1 \in DOMAIN add.ins /\ 2 \in DOMAIN add.ins
      BY <1>2
    <3> QED BY <3>1, OnlyConsumerOnce
  <2> QED BY <2>1
<1>4. others # {}
  BY <1>2, <1>3
<1> HIDE DEF add, others
<1>5. bias \in Seq(DOMAIN g.tensors) /\ ToSet(bias) = ToSet(add.ins) \cap others
  BY <1>2, AmongLists
<1>6. ToSet(bias) = others
  BY <1>5 DEF others
<1> HIDE DEF bias
<1>7. bias # <<>>
  <2> SUFFICES ASSUME bias = <<>> PROVE FALSE
    OBVIOUS
  <2>1. ToSet(bias) = {}
    BY DEF ToSet
  <2> QED BY <1>4, <1>6, <2>1
<1>8. Last(bias) \in ToSet(bias)
  <2>1. Len(bias) \in Nat /\ DOMAIN bias = 1 .. Len(bias) /\ Len(bias) # 0
    BY <1>5, <1>7, LenProperties, EmptySeq
  <2>2. Len(bias) \in DOMAIN bias
    BY <2>1
  <2> QED BY <2>2 DEF Last, ToSet
<1>9. Last(bias) \in others
  BY <1>6, <1>8
<1> QED BY <1>1, <1>7, <1>9 DEF add, others, bias

(* What a solution gives to a product, *)
LEMMA ProductSolved ==
  ASSUME NEW g, Determined(g), Plain(g.nodes), Complete(g), NEW x, NEW V, Solves(g, x, V),
         NEW m \in ToSet(g.nodes), m.op = "MatMul", m.out \in Observed(g)
  PROVE  V[m.out] = Product(V[m.ins[1]], V[m.ins[2]])
<1>1. m.ins \in Seq(DOMAIN g.tensors) /\ DOMAIN m.ins = {1, 2}
  BY OperandCounts DEF Determined
<1>2. Len(ValuesOf(V, m.ins)) \in Nat
  BY <1>1, ValuesLength, LenProperties
<1>3. ValuesOf(V, m.ins)[1] = V[m.ins[1]] /\ ValuesOf(V, m.ins)[2] = V[m.ins[2]]
  BY <1>1, ValueAt
<1>4. V[m.out] = Execute("MatMul", ValuesOf(V, m.ins))
  BY Solved
<1> QED BY <1>2, <1>3, <1>4, LinearExecutes

(* to the operands of a layer without a bias *)
LEMMA LayerValues ==
  ASSUME NEW T, NEW ins \in Seq(T), Len(ins) = 2, NEW V
  PROVE  /\ Execute("FusedLinear", ValuesOf(V, ins)) = Product(V[ins[1]], V[ins[2]])
         /\ Len(ValuesOf(V, ins)) \in Nat
<1>1. DOMAIN ins = 1 .. 2
  BY LenProperties
<1>2. ValuesOf(V, ins)[1] = V[ins[1]] /\ ValuesOf(V, ins)[2] = V[ins[2]]
  BY <1>1, ValueAt
<1>3. Len(ValuesOf(V, ins)) = 2
  BY ValuesLength
<1> QED BY <1>2, <1>3, LinearExecutes

(* or with one, *)
Extended(ins, u) == ins \o <<u>>

LEMMA OneMore ==
  ASSUME NEW T, NEW ins \in Seq(T), NEW u \in T
  PROVE  /\ Extended(ins, u) \in Seq(T) /\ ToSet(Extended(ins, u)) = ToSet(ins) \cup {u}
         /\ Len(ins) = 2 => /\ Len(Extended(ins, u)) = 3 /\ Extended(ins, u)[3] = u
                            /\ Extended(ins, u)[1] = ins[1] /\ Extended(ins, u)[2] = ins[2]
<1> DEFINE t == Append(ins, u)
           n == Len(ins)
<1>1. t = Extended(ins, u) /\ ToSet(t) = ToSet(ins) \cup {u}
  BY AppendIsConcat, AppendMembers DEF Extended
<1>2. /\ t \in Seq(T) /\ Len(t) = n + 1 /\ \A i \in 1 .. n : t[i] = ins[i]
      /\ t[n + 1] = u
  BY AppendProperties, LenProperties
<1> HIDE DEF t, n
<1>3. n = 2 => Len(t) = 3 /\ t[3] = u /\ t[1] = ins[1] /\ t[2] = ins[2]
  BY <1>2
<1> QED BY <1>1, <1>2, <1>3 DEF n

LEMMA BiasedValues ==
  ASSUME NEW T, NEW ins \in Seq(T), Len(ins) = 2, NEW u \in T, NEW V
  PROVE  /\ ToSet(Extended(ins, u)) = ToSet(ins) \cup {u}
         /\ Execute("FusedLinear", ValuesOf(V, Extended(ins, u))) = Plus(Product(V[ins[1]], V[ins[2]]), V[u])
         /\ Len(ValuesOf(V, Extended(ins, u))) \in Nat
<1> DEFINE more == Extended(ins, u)
           v == ValuesOf(V, more)
<1>1. /\ more \in Seq(T) /\ Len(more) = 3 /\ more[3] = u /\ ToSet(more) = ToSet(ins) \cup {u}
      /\ more[1] = ins[1] /\ more[2] = ins[2]
  BY OneMore
<1> HIDE DEF more
<1>2. DOMAIN more = 1 .. 3
  BY <1>1, LenProperties
<1>3. 1 \in DOMAIN more /\ 2 \in DOMAIN more /\ 3 \in DOMAIN more
  BY <1>2
<1>4. Len(v) = 3
  BY <1>1, ValuesLength
<1>5. \A i \in DOMAIN more : v[i] = V[more[i]]
  BY DEF ValuesOf
<1> HIDE DEF v
<1>6. v[1] = V[ins[1]] /\ v[2] = V[ins[2]] /\ v[3] = V[u]
  BY <1>1, <1>2, <1>3, <1>5
<1>7. Execute("FusedLinear", v) = Plus(Product(V[ins[1]], V[ins[2]]), V[u])
  BY <1>4, <1>6, LinearExecutes
<1> QED BY <1>1, <1>4, <1>7 DEF v, more

(* and to the output of a layer: what the chain that it stands for computes. *)
LEMMA LayerSolved ==
  ASSUME NEW g, Determined(g), Plain(g.nodes), Complete(g), NEW x, RunsOn(g, x),
         NEW m \in ToSet(g.nodes), m.op = "MatMul", NEW k
  PROVE  LET f == FusedLinearOf(g, m, k).node
         IN  /\ \A t \in ToSet(f.ins) : t \in Observed(g)
             /\ \A V : Solves(g, x, V) /\ f.out \in Observed(g) =>
                  V[f.out] = Execute(f.op, ValuesOf(V, f.ins))
             /\ f.op \in {"FusedLinear", "FusedLinearReLU"} /\ f.attrs = Blank
<1> DEFINE add == Single(g, m.out, "Add")
           sum == IF add = NoNode THEN m.out ELSE add.out
           relu == Single(g, sum, "Relu")
           bias == Among(add.ins, {t \in ToSet(add.ins) : t # m.out})
           ins == m.ins \o (IF bias = <<>> THEN <<>> ELSE <<Last(bias)>>)
           op == IF relu = NoNode THEN "FusedLinear" ELSE "FusedLinearReLU"
           out == IF relu = NoNode THEN sum ELSE relu.out
           f == FusedLinearOf(g, m, k).node
<1>1. f = NewNode(<<"fused", k>>, op, ins, out)
  BY DEF FusedLinearOf, Pick
<1> HIDE DEF f
<1>2. f.op = op /\ f.ins = ins /\ f.out = out /\ f.attrs = Blank
  <2> HIDE DEF op, ins, out
  <2> QED BY <1>1 DEF NewNode
<1>3. Formed(g)
  BY DEF Determined
<1>4. m.ins \in Seq(DOMAIN g.tensors) /\ Len(m.ins) = 2 /\ \A t \in ToSet(m.ins) : t \in Observed(g)
  BY <1>3, OperandCounts, OperandNumbers, ObservedTensors DEF Complete
<1> DEFINE Sums(V) == /\ V[sum] = Execute("FusedLinear", ValuesOf(V, ins))
                      /\ Len(ValuesOf(V, ins)) \in Nat
<1>5. ASSUME add = NoNode
      PROVE  /\ \A t \in ToSet(ins) : t \in Observed(g)
             /\ \A V : Solves(g, x, V) /\ sum \in Observed(g) => Sums(V)
  <2>1. bias = <<>>
    <3>1. NoNode.ins = <<>>
      BY DEF NoNode
    <3>2. add.ins \in Seq({}) /\ ToSet(add.ins) = {}
      <4>1. <<>> \in Seq({}) /\ ToSet(<<>>) = {}
        BY EmptySeq DEF ToSet
      <4> HIDE DEF add
      <4> QED BY <1>5, <3>1, <4>1
    <3> HIDE DEF add
    <3>3. ToSet(bias) = {} /\ bias \in Seq({})
      BY <3>2, AmongLists
    <3> HIDE DEF bias
    <3> QED BY <3>3, TailLists
  <2>2. ins = m.ins
    <3> HIDE DEF bias
    <3> QED BY <1>4, <2>1, ConcatEmptySeq
  <2>3. sum = m.out
    BY <1>5
  <2> HIDE DEF ins, sum, add
  <2>4. ASSUME NEW V, Solves(g, x, V), sum \in Observed(g) PROVE Sums(V)
    <3>1. m.ins[1] \in DOMAIN g.tensors
      <4>1. 1 \in 1 .. Len(m.ins)
        BY <1>4
      <4> QED BY <1>4, <4>1, ElementOfSeq
    <3>2. /\ Execute("FusedLinear", ValuesOf(V, m.ins)) = Product(V[m.ins[1]], V[m.ins[2]])
          /\ Len(ValuesOf(V, m.ins)) \in Nat
      BY <1>4, <3>1, LayerValues
    <3>3. V[m.out] = Product(V[m.ins[1]], V[m.ins[2]])
      BY <2>3, <2>4, ProductSolved
    <3> QED BY <2>2, <2>3, <3>2, <3>3
  <2> QED BY <1>4, <2>2, <2>4
<1>6. ASSUME add # NoNode
      PROVE  /\ \A t \in ToSet(ins) : t \in Observed(g)
             /\ \A V : Solves(g, x, V) /\ sum \in Observed(g) => Sums(V)
  <2>1. add = OnlyConsumer(g, m.out) /\ OnlyConsumer(g, m.out).op = "Add" /\ OnlyConsumer(g, m.out) # NoNode
    BY <1>6 DEF Single
  <2> DEFINE u == Last(bias)
  <2>2. /\ add \in ToSet(g.nodes) /\ m.out \in ToSet(add.ins) /\ bias # <<>>
        /\ u \in ToSet(add.ins) /\ u # m.out
    <3> HIDE DEF add
    <3> QED BY <1>3, <2>1, BiasIsOther
  <2>3. sum = add.out /\ ins = Extended(m.ins, u)
    BY <1>6, <2>2 DEF Extended
  <2>4. add.op = "Add"
    BY <2>1
  <2> HIDE DEF u, bias, ins, sum, add
  <2>5. m.out \in Observed(g) /\ u \in Observed(g) /\ u \in DOMAIN g.tensors
    BY <2>2, ObservedTensors
  <2> DEFINE more == Extended(m.ins, u)
  <2>6. ASSUME NEW V
        PROVE  /\ ToSet(more) = ToSet(m.ins) \cup {u}
               /\ Execute("FusedLinear", ValuesOf(V, more)) = Plus(Product(V[m.ins[1]], V[m.ins[2]]), V[u])
               /\ Len(ValuesOf(V, more)) \in Nat
    BY <1>4, <2>5, BiasedValues
  <2>7. ins = more
    BY <2>3
  <2> HIDE DEF more
  <2>8. ASSUME NEW V, Solves(g, x, V), sum \in Observed(g) PROVE Sums(V)
    <3>1. /\ Execute("FusedLinear", ValuesOf(V, ins)) = Plus(Product(V[m.ins[1]], V[m.ins[2]]), V[u])
          /\ Len(ValuesOf(V, ins)) \in Nat
      BY <2>6, <2>7
    <3>2. V[m.out] = Product(V[m.ins[1]], V[m.ins[2]])
      BY <2>5, <2>8, ProductSolved
    <3>3. V[add.out] = Plus(V[m.out], V[u])
      BY <2>2, <2>3, <2>4, <2>8, PairSolved
    <3> QED BY <2>3, <3>1, <3>2, <3>3
  <2> QED BY <1>4, <2>5, <2>6, <2>7, <2>8
<1>7. /\ \A t \in ToSet(ins) : t \in Observed(g)
      /\ \A V : Solves(g, x, V) /\ sum \in Observed(g) => Sums(V)
  BY <1>5, <1>6
<1>8. relu # NoNode =>
        /\ relu \in ToSet(g.nodes) /\ relu.op = "Relu" /\ DOMAIN relu.ins = {1} /\ relu.ins[1] = sum
        /\ sum \in Observed(g)
  <2> SUFFICES ASSUME relu # NoNode
               PROVE  /\ relu \in ToSet(g.nodes) /\ relu.op = "Relu" /\ DOMAIN relu.ins = {1}
                      /\ relu.ins[1] = sum /\ sum \in Observed(g)
    OBVIOUS
  <2> HIDE DEF sum
  <2>1. relu \in ToSet(g.nodes) /\ relu.op = "Relu" /\ sum \in ToSet(relu.ins)
    BY <1>3, SingleReads
  <2> HIDE DEF relu
  <2>2. DOMAIN relu.ins = {1} /\ ToSet(relu.ins) = {relu.ins[1]}
    BY <1>3, <2>1, OperandCounts
  <2> QED BY <2>1, <2>2, ObservedTensors
<1> HIDE DEF sum, ins, relu
<1>9. ASSUME NEW V, Solves(g, x, V), out \in Observed(g)
      PROVE  V[out] = Execute(op, ValuesOf(V, ins))
  <2>1. CASE relu = NoNode
    BY <1>7, <1>9, <2>1
  <2>2. CASE relu # NoNode
    <3>1. V[relu.out] = Execute("Relu", ValuesOf(V, relu.ins))
      BY <1>8, <1>9, <2>2, Solved
    <3>2. ValuesOf(V, relu.ins)[1] = V[sum]
      BY <1>8, <2>2, ValueAt
    <3>3. Execute("Relu", ValuesOf(V, relu.ins)) = ReluOf(V[sum])
      BY <3>2, ConvExecutes
    <3>4. Sums(V)
      BY <1>7, <1>8, <1>9, <2>2
    <3>5. Execute("FusedLinearReLU", ValuesOf(V, ins)) = ReluOf(V[sum])
      BY <3>4, LinearExecutes
    <3> QED BY <2>2, <3>1, <3>3, <3>5
  <2> QED BY <2>1, <2>2
<1>10. op \in {"FusedLinear", "FusedLinearReLU"}
  OBVIOUS
<1> HIDE DEF op, out
<1> QED BY <1>2, <1>7, <1>9, <1>10 DEF f

(* What the fusion of operators leaves: layers, and nodes that were there. *)
LEMMA LayersLeft ==
  ASSUME NEW g, Whole(g)
  PROVE  LET h == fuse_operators(g)
         IN  /\ h.inputs = g.inputs /\ h.outputs = g.outputs
             /\ \A y \in ToSet(h.nodes) : y \in ToSet(g.nodes) \/ y \in Layers(g, TopoOrder(g))
             /\ \A t \in DOMAIN h.tensors : t \in DOMAIN g.tensors /\ h.tensors[t] = g.tensors[t]
<1> DEFINE order == TopoOrder(g)
           s     == FusedUpTo(g, order)[Len(order)]
           rest  == Among(order, ToSet(order) \ (s.used \cup Names(s.nodes)))
           kept  == [i \in DOMAIN rest |-> NodeOf(g, rest[i])]
           nodes == s.nodes \o kept
           U     == Layers(g, order) \cup ToSet(g.nodes)
           h1    == [g EXCEPT !.nodes = nodes]
           h2    == Invalidate(h1)
<1>1. /\ order \in Seq(ToSet(order)) /\ Len(order) \in Nat /\ Len(order) \in 0 .. Len(order)
      /\ order \in Seq(NodeNames(g))
  BY TopoOrders, ListIsSeq, LenProperties DEF Whole
<1>2. s.nodes \in Seq(Layers(g, order))
  BY <1>1, FusedUpToUnfolds DEF Recursive, Fusions
<1>3. /\ rest \in Seq(NodeNames(g)) /\ DOMAIN rest = 1 .. Len(rest) /\ Len(rest) \in Nat
      /\ \A i \in DOMAIN rest : rest[i] \in NodeNames(g)
  BY <1>1, AmongLists, LenProperties, ElementOfSeq
<1>4. \A i \in DOMAIN kept : kept[i] \in ToSet(g.nodes)
  BY <1>3, LookupFinds DEF NodeOf, NodeNames
<1>5. kept = [i \in 1 .. Len(rest) |-> kept[i]] /\ DOMAIN kept = 1 .. Len(rest)
  BY <1>3
<1>6. fuse_operators(g) = DropOrphans(h2)
  BY DEF fuse_operators
<1> HIDE DEF kept, rest, s
<1>7. kept \in Seq(ToSet(g.nodes))
  BY <1>3, <1>4, <1>5, IsASeq
<1>8. s.nodes \in Seq(U) /\ kept \in Seq(U)
  BY <1>2, <1>7, SeqMonotonic
<1>9. nodes \in Seq(U)
  BY <1>8, ConcatProperties
<1>10. \A y \in ToSet(nodes) : y \in U
  BY <1>9, LenProperties, ElementOfSeq DEF ToSet
<1> HIDE DEF nodes
<1>11. /\ DOMAIN h1 = GraphFields /\ h1.nodes = nodes /\ h1.inputs = g.inputs
       /\ h1.outputs = g.outputs /\ h1.tensors = g.tensors
  BY DEF Whole, GraphFields
<1> HIDE DEF h1
<1>12. /\ DOMAIN h2 = GraphFields /\ h2.nodes = nodes /\ h2.inputs = g.inputs
       /\ h2.outputs = g.outputs /\ h2.tensors = g.tensors
  BY <1>11 DEF Invalidate, GraphFields
<1> HIDE DEF h2
<1> DEFINE h == DropOrphans(h2)
<1>13. /\ h.nodes = nodes /\ h.inputs = g.inputs /\ h.outputs = g.outputs
       /\ \A t \in DOMAIN h.tensors : t \in DOMAIN g.tensors /\ h.tensors[t] = g.tensors[t]
  BY <1>12 DEF DropOrphans, Restrict, GraphFields
<1> HIDE DEF h
<1> QED BY <1>6, <1>10, <1>13 DEF h

LEMMA LayersMean ==
  ASSUME NEW g, Determined(g), Plain(g.nodes), Complete(g), Determined(fuse_operators(g)), NEW x, RunsOn(g, x)
  PROVE  Meaning(fuse_operators(g), x) = Meaning(g, x)
<1> DEFINE h == fuse_operators(g)
           order == TopoOrder(g)
<1>1. /\ h.inputs = g.inputs /\ h.outputs = g.outputs
      /\ \A y \in ToSet(h.nodes) : y \in ToSet(g.nodes) \/ y \in Layers(g, order)
      /\ \A t \in DOMAIN h.tensors : t \in DOMAIN g.tensors /\ h.tensors[t] = g.tensors[t]
  BY LayersLeft DEF Determined, Formed, Arranged, Sound
<1>2. Determined(h)
  OBVIOUS
<1> HIDE DEF h
<1>3. ASSUME NEW f \in Layers(g, order)
      PROVE  /\ \A t \in ToSet(f.ins) : t \in Observed(g)
             /\ \A V : Solves(g, x, V) /\ f.out \in Observed(g) => V[f.out] = Means(f, V)
  <2>1. PICK n \in Multiplies(g, order), k \in Nat : f = FusedLinearOf(g, NodeOf(g, n), k).node
    BY DEF Layers
  <2> DEFINE m == NodeOf(g, n)
  <2>2. m \in ToSet(g.nodes) /\ m.op = "MatMul"
    <3>1. n \in ToSet(order) /\ NodeOf(g, n).op = "MatMul"
      BY DEF Multiplies
    <3>2. \A i \in DOMAIN order : NodeOf(g, order[i]) \in ToSet(g.nodes)
      BY Positions DEF Determined, Formed, Arranged, Sound, Whole
    <3> HIDE DEF order
    <3> QED BY <3>1, <3>2 DEF ToSet
  <2> HIDE DEF m, order
  <2>3. f = FusedLinearOf(g, m, k).node
    BY <2>1 DEF m
  <2>4. /\ \A t \in ToSet(f.ins) : t \in Observed(g)
        /\ \A V : Solves(g, x, V) /\ f.out \in Observed(g) =>
             V[f.out] = Execute(f.op, ValuesOf(V, f.ins))
        /\ f.op \in {"FusedLinear", "FusedLinearReLU"} /\ f.attrs = Blank
    BY <2>2, <2>3, LayerSolved
  <2>5. ~IsQuantized(f) /\ f.op # "FusedMLP"
    BY <2>4 DEF IsQuantized, Blank
  <2> QED BY <2>4, <2>5, PlainMeans
<1>4. /\ \A t \in Observed(h) : t \in DOMAIN h.tensors
      /\ \A y \in ToSet(g.nodes) : \A t \in ToSet(y.ins) : t \in Observed(g)
  BY <1>2, ObservedTensors
<1>5. \A t \in Observed(h) : t \in Observed(g)
  <2>1. \A y \in ToSet(h.nodes) : \A t \in ToSet(y.ins) : t \in Observed(g)
    BY <1>1, <1>3, <1>4
  <2> QED BY <1>1, <2>1 DEF Observed
<1>6. ASSUME NEW V, Solves(g, x, V) PROVE Solves(h, x, V)
  <2>1. ASSUME NEW t \in Observed(h), Given(h, t) PROVE V[t] = Loaded(h, x)[t]
    <3>1. t \in Observed(g) /\ t \in DOMAIN h.tensors /\ t \in DOMAIN g.tensors /\ h.tensors[t] = g.tensors[t]
      BY <1>1, <1>4, <1>5
    <3>2. Given(g, t) /\ Loaded(h, x)[t] = Loaded(g, x)[t]
      BY <1>1, <2>1, <3>1 DEF Given, IsConstant, Loaded
    <3> QED BY <1>6, <3>1, <3>2 DEF Solves
  <2>2. ASSUME NEW y \in ToSet(h.nodes), y.out \in Observed(h) PROVE V[y.out] = Means(y, V)
    <3>1. y.out \in Observed(g)
      BY <1>5, <2>2
    <3>2. y \in ToSet(g.nodes) => V[y.out] = Means(y, V)
      BY <1>6, <3>1 DEF Solves
    <3>3. y \in Layers(g, order) => V[y.out] = Means(y, V)
      BY <1>3, <1>6, <3>1
    <3> QED BY <1>1, <3>2, <3>3
  <2> QED BY <2>1, <2>2 DEF Solves
<1>7. Meaning(h, x) = Meaning(g, x)
  BY <1>1, <1>2, <1>6, SolutionsCarryOver
<1> QED BY <1>7 DEF h

(* Before the quantizations a graph is as it must be for the rewrites.         *)
Fit == Untouched => WellFormed

Fuses ==
  \/ Visit /\ pass \in {"ConvFusion", "LayerNormFusion", "FuseSiLU", "FuseGELU"}
  \/ Sweep /\ Head(passes) = "OperatorFusion"

(* What is fit for a fusion, *)
LEMMA FitForFusion ==
  ASSUME Fit, Untouched, CanRun(graph), NEW x \in Samples
  PROVE  Complete(graph) /\ RunsOn(graph, x)
<1>1. Regular /\ Numeric
  BY DEF Fit, WellFormed
<1>2. Complete(graph)
  BY <1>1 DEF Regular, Complete
<1>3. RunsOn(graph, x)
  BY <1>1 DEF Numeric, RunsOn
<1> QED BY <1>2, <1>3

(* and the names that fusions give. *)
LEMMA FreshNames ==
  ASSUME Regular
  PROVE  /\ pass = "ConvFusion" => /\ <<"fused_conv", fused>> \notin NodeNames(graph)
                                   /\ OutputOf(<<"fused_conv", fused>>) \notin DOMAIN graph.tensors
         /\ pass = "LayerNormFusion" => /\ <<"fused_ln", fused>> \notin NodeNames(graph)
                                        /\ OutputOf(<<"fused_ln", fused>>) \notin DOMAIN graph.tensors
         /\ pass = "FuseSiLU" => /\ <<"fused_silu", fused>> \notin NodeNames(graph)
                                 /\ OutputOf(<<"fused_silu", fused>>) \notin DOMAIN graph.tensors
         /\ pass = "FuseGELU" => /\ <<"fused_gelu", fused>> \notin NodeNames(graph)
                                 /\ OutputOf(<<"fused_gelu", fused>>) \notin DOMAIN graph.tensors
<1>1. /\ {"ConvFusion", "LayerNormFusion", "FuseSiLU", "FuseGELU"} \subseteq DOMAIN FusedNames
      /\ FusedNames["ConvFusion"] = "fused_conv" /\ FusedNames["LayerNormFusion"] = "fused_ln"
      /\ FusedNames["FuseSiLU"] = "fused_silu" /\ FusedNames["FuseGELU"] = "fused_gelu"
  BY DEF FusedNames
<1>2. pass \in DOMAIN FusedNames =>
        /\ <<FusedNames[pass], fused>> \notin NodeNames(graph)
        /\ OutputOf(<<FusedNames[pass], fused>>) \notin DOMAIN graph.tensors
  BY DEF Regular
<1> QED BY <1>1, <1>2

LEMMA FusionVisits ==
  ASSUME CacheInv, PlainInv, Determinate, Determinate', Fit, CanRun(graph), Visit,
         pass \in {"ConvFusion", "LayerNormFusion", "FuseSiLU", "FuseGELU"}, NEW x \in Samples
  PROVE  Meaning(graph', x) = Meaning(graph, x)
<1>1. pass \notin Quantizing /\ pass # "none"
  BY DEF Quantizing
<1>2. Untouched /\ Untouched'
  BY <1>1, VisitUntouched DEF PlainInv
<1>3. Determined(graph) /\ Determined(graph') /\ Plain(graph.nodes)
  BY <1>2 DEF Determinate, Untouched
<1>4. Complete(graph) /\ RunsOn(graph, x) /\ Regular
  BY <1>2, FitForFusion DEF Fit, WellFormed
<1> DEFINE node == NodeOf(graph, Head(todo))
<1>5. CASE Head(todo) \notin NodeNames(graph) \/ node.op \notin Kind[pass]
  <2>1. graph' = graph
    BY <1>5 DEF Visit
  <2> QED BY <2>1
<1>6. CASE Head(todo) \in NodeNames(graph) /\ node.op \in Kind[pass]
  <2>1. node \in ToSet(graph.nodes)
    BY <1>6, LookupFinds DEF NodeOf, NodeNames
  <2>2. graph' = Rewrite(pass, graph, node, fused, ranges)
    BY <1>6 DEF Visit
  <2> HIDE DEF node
  <2>3. CASE pass = "ConvFusion"
    <3>1. node.op = "Conv" /\ graph' = fuse_conv(graph, node, fused)
      BY <1>6, <2>2, <2>3 DEF Kind, Rewrite
    <3>2. Meaning(fuse_conv(graph, node, fused), x) = Meaning(graph, x)
      BY <1>3, <1>4, <2>1, <2>3, <3>1, FreshNames, ConvMeans
    <3> QED BY <3>1, <3>2
  <2>4. CASE pass = "LayerNormFusion"
    <3>1. node.op = "LayerNormalization" /\ graph' = fuse_layer_norm(graph, node, fused)
      BY <1>6, <2>2, <2>4 DEF Kind, Rewrite
    <3>2. Meaning(fuse_layer_norm(graph, node, fused), x) = Meaning(graph, x)
      BY <1>3, <1>4, <2>1, <2>4, <3>1, FreshNames, LayerNormMeans
    <3> QED BY <3>1, <3>2
  <2>5. CASE pass = "FuseSiLU"
    <3>1. node.op = "Sigmoid" /\ graph' = fuse_silu(graph, node, fused)
      BY <1>6, <2>2, <2>5 DEF Kind, Rewrite
    <3>2. Meaning(fuse_silu(graph, node, fused), x) = Meaning(graph, x)
      BY <1>3, <1>4, <2>1, <2>5, <3>1, FreshNames, SiluMeans
    <3> QED BY <3>1, <3>2
  <2>6. CASE pass = "FuseGELU"
    <3>1. node.op = "Erf" /\ graph' = fuse_gelu(graph, node, fused)
      BY <1>6, <2>2, <2>6 DEF Kind, Rewrite
    <3>2. Meaning(fuse_gelu(graph, node, fused), x) = Meaning(graph, x)
      BY <1>3, <1>4, <2>1, <2>6, <3>1, FreshNames, GeluMeans
    <3> QED BY <3>1, <3>2
  <2> QED BY <2>3, <2>4, <2>5, <2>6
<1> QED BY <1>5, <1>6

LEMMA FusionSweeps ==
  ASSUME CacheInv, StageInv, PlainInv, Determinate, Determinate', Fit, CanRun(graph),
         Sweep, Head(passes) = "OperatorFusion", NEW x \in Samples
  PROVE  Meaning(graph', x) = Meaning(graph, x)
<1>1. Untouched
  <2>1. ToSet(passes) = {Head(passes)} \cup ToSet(Tail(passes))
    BY LastTail DEF Sweep, StageInv, PlanInv
  <2>2. Head(passes) \in ToSet(passes) /\ Head(passes) \notin Quantizing \cup {"none"}
    BY <2>1 DEF Quantizing
  <2> QED BY <2>2 DEF PlainInv
<1>2. Untouched'
  BY SweepUntouched
<1>3. Determined(graph) /\ Determined(graph') /\ Plain(graph.nodes)
  BY <1>1, <1>2 DEF Determinate, Untouched
<1>4. Complete(graph) /\ RunsOn(graph, x)
  BY <1>1, FitForFusion
<1>5. graph' = fuse_operators(graph)
  BY DEF Sweep
<1>6. Meaning(fuse_operators(graph), x) = Meaning(graph, x)
  BY <1>3, <1>4, <1>5, LayersMean
<1> QED BY <1>5, <1>6

(* Fusions are exact, of convolutions, of layer norms, of sigmoids, of Erfs and *)
(* of products: where the interpreter can run the graph, every step of theirs    *)
(* leaves one that computes on every sample what it computed before, if every    *)
(* rewrite before the quantizations leaves a graph that is fit for the next.    *)
THEOREM FusionIsExact ==
  Spec /\ []Fit =>
    [][Fuses /\ CanRun(graph) => \A x \in Samples : Meaning(graph', x) = Meaning(graph, x)]_vars
<1>1. Fit => Prepared
  BY DEF Fit, Prepared, WellFormed
<1>2. CacheInv /\ Prepared => Determinate
  BY AcceptedDetermines DEF Prepared, Determinate
<1>3. CacheInv /\ StageInv /\ PlainInv /\ Determinate /\ Determinate' /\ Fit =>
        [Fuses /\ CanRun(graph) => \A x \in Samples : Meaning(graph', x) = Meaning(graph, x)]_vars
  BY FusionVisits, FusionSweeps DEF Fuses
<1> QED BY <1>1, <1>2, <1>3, Formedness, PTL

(* What F picks may stand for any number of its class. *)
LEMMA Inside ==
  ASSUME NEW a \in Int, NEW b \in Int
  PROVE  F(F(a) + b) = F(a + b) /\ F(F(a) * b) = F(a * b) /\ F(F(a)) = F(a)
<1>1. PICK k \in Int : F(a) = a + 97 * k
  BY Wrapped
<1>2. F(a) + b = (a + b) + 97 * k /\ a + b \in Int
  BY <1>1
<1>3. F((a + b) + 97 * k) = F(a + b)
  BY <1>2, Shifted
<1>4. (a + 97 * k) * b = a * b + 97 * (k * b) /\ k * b \in Int /\ a * b \in Int
  <2>1. k * b \in Int /\ a * b \in Int /\ 97 * k \in Int
    OBVIOUS
  <2>2. b * (a + 97 * k) = b * a + b * (97 * k)
    BY <2>1, Distribute
  <2>3. b * a = a * b /\ b * (97 * k) = 97 * (k * b) /\ (a + 97 * k) * b = b * (a + 97 * k)
    BY <2>1
  <2> QED BY <2>1, <2>2, <2>3
<1>5. F(a * b + 97 * (k * b)) = F(a * b)
  BY <1>4, Shifted
<1>6. F(a + 97 * k) = F(a)
  BY Shifted
<1> QED BY <1>1, <1>2, <1>3, <1>4, <1>5, <1>6

(* A scaled weight and a shifted bias give what the normalization gives. *)
LEMMA FoldedSum ==
  ASSUME NEW c \in Int, NEW w \in Int, NEW b \in Int, NEW p \in Int, NEW q \in Int, NEW m \in Int
  PROVE  Plus(Times(c, Times(w, p)), Plus(Times(p, Plus(b, -m)), q))
           = Plus(Times(Plus(Plus(Times(c, w), b), -m), p), q)
<1> DEFINE s == c * w
<1>1. s \in Int /\ w * p \in Int /\ b + -m \in Int /\ s * p \in Int
  OBVIOUS
<1>2. Times(c, Times(w, p)) = F(s * p)
  <2>1. Times(c, Times(w, p)) = Times(Times(c, w), p)
    BY Group
  <2>2. Times(Times(c, w), p) = F(F(s) * p)
    BY DEF Times
  <2> QED BY <1>1, <2>1, <2>2, Inside
<1>3. Plus(Times(p, Plus(b, -m)), q) = F((b + -m) * p + q) /\ (b + -m) * p \in Int
  <2>1. Plus(b, -m) = F(b + -m)
    BY DEF Plus
  <2>2. Times(p, F(b + -m)) = Times(F(b + -m), p)
    BY <1>1, Wrapped, Commute
  <2>3. Times(F(b + -m), p) = F(F(b + -m) * p)
    BY DEF Times
  <2>4. F(F(b + -m) * p) = F((b + -m) * p)
    BY <1>1, Inside
  <2>5. (b + -m) * p \in Int
    BY <1>1
  <2>6. Plus(F((b + -m) * p), q) = F(F((b + -m) * p) + q)
    BY DEF Plus
  <2>7. F(F((b + -m) * p) + q) = F((b + -m) * p + q)
    BY <2>5, Inside
  <2> QED BY <2>1, <2>2, <2>3, <2>4, <2>5, <2>6, <2>7
<1>4. Times(Plus(Plus(Times(c, w), b), -m), p) = F((s + b + -m) * p) /\ s + b + -m \in Int
  <2>1. Times(c, w) = F(s)
    BY DEF Times
  <2>2. Plus(F(s), b) = F(s + b)
    <3>1. Plus(F(s), b) = F(F(s) + b)
      BY DEF Plus
    <3> QED BY <1>1, <3>1, Inside
  <2>3. Plus(F(s + b), -m) = F(s + b + -m)
    <3>1. Plus(F(s + b), -m) = F(F(s + b) + -m) /\ s + b \in Int /\ -m \in Int
      BY <1>1 DEF Plus
    <3> QED BY <3>1, Inside
  <2>4. Times(F(s + b + -m), p) = F((s + b + -m) * p)
    <3>1. Times(F(s + b + -m), p) = F(F(s + b + -m) * p) /\ s + b + -m \in Int
      BY <1>1 DEF Times
    <3> QED BY <3>1, Inside
  <2>5. s + b + -m \in Int
    BY <1>1
  <2> QED BY <2>1, <2>2, <2>3, <2>4, <2>5
<1> DEFINE l == (b + -m) * p
           r == (s + b + -m) * p
<1>5. r = s * p + l /\ l \in Int /\ r \in Int
  <2>1. p * (s + (b + -m)) = p * s + p * (b + -m)
    BY <1>1, Distribute
  <2>2. /\ p * s = s * p /\ p * (b + -m) = l /\ p * (s + (b + -m)) = r
        /\ l \in Int /\ r \in Int
    <3> HIDE DEF s
    <3>1. p * (b + -m) = (b + -m) * p /\ (b + -m) * p \in Int
      BY <1>1
    <3>2. s + (b + -m) = s + b + -m
      BY <1>1
    <3>3. p * (s + b + -m) = (s + b + -m) * p /\ (s + b + -m) * p \in Int
      BY <1>1
    <3>4. p * s = s * p
      BY <1>1
    <3> QED BY <3>1, <3>2, <3>3, <3>4
  <2> HIDE DEF l, r, s
  <2> QED BY <2>1, <2>2
<1> HIDE DEF l, r
<1>6. Plus(F(s * p), F(l + q)) = F(s * p + l + q)
  <2> DEFINE a == s * p
  <2>1. a \in Int /\ l + q \in Int /\ F(l + q) \in Int
    BY <1>1, <1>5, Wrapped
  <2> HIDE DEF a
  <2>2. Plus(F(a), F(l + q)) = F(F(a) + F(l + q))
    BY DEF Plus
  <2>3. F(F(a) + F(l + q)) = F(a + F(l + q))
    BY <2>1, Inside
  <2>4. a + F(l + q) = F(l + q) + a
    BY <2>1
  <2>5. F(F(l + q) + a) = F(l + q + a)
    BY <2>1, Inside
  <2>6. l + q + a = a + l + q
    BY <1>5, <2>1
  <2> QED BY <2>2, <2>3, <2>4, <2>5, <2>6 DEF a
<1>7. Plus(F(r), q) = F(r + q)
  <2>1. Plus(F(r), q) = F(F(r) + q)
    BY DEF Plus
  <2> QED BY <1>5, <2>1, Inside
<1>8. F(r + q) = F(s * p + l + q)
  BY <1>5
<1> QED BY <1>2, <1>3, <1>4, <1>6, <1>7, <1>8 DEF l, r

(* What is left when the readers of a node's output read its first operand.    *)
Bypassed(g, bn, h) ==
  /\ h.inputs = g.inputs /\ h.outputs = Redirected(g.outputs, {bn.out}, bn.ins[1])
  /\ \A y \in ToSet(h.nodes) : \E z \in ToSet(g.nodes) :
       z.name # bn.name /\ y = Reread(z, {bn.out}, bn.ins[1])
  /\ \A t \in DOMAIN h.tensors : t \in DOMAIN g.tensors /\ h.tensors[t] = g.tensors[t]

LEMMA BypassLeaves ==
  ASSUME NEW g, Whole(g), NEW bn
  PROVE  Bypassed(g, bn, Invalidate(Bypass(g, bn)))
<1> DEFINE E == {bn.out}
           to == bn.ins[1]
           rewired == Rewire(g, E, to, NodeNames(g))
           S == {x \in ToSet(rewired.nodes) : x.name \notin {bn.name}}
           cut == Without(rewired, {bn.name})
           unread == {t \in {bn.out} \cup ToSet(Tail(bn.ins)) :
                        t \notin ToSet(cut.outputs)
                          /\ \A i \in DOMAIN cut.nodes : t \notin ToSet(cut.nodes[i].ins)}
           left == [cut EXCEPT !.tensors = Restrict(@, DOMAIN @ \ unread)]
           h == Invalidate(left)
           reread == [i \in DOMAIN g.nodes |->
                        IF g.nodes[i].name \in NodeNames(g)
                        THEN Reading(g.nodes[i], Redirected(g.nodes[i].ins, E, to)) ELSE g.nodes[i]]
<1>1. h = Invalidate(Bypass(g, bn))
  BY DEF Bypass
<1> HIDE DEF E, to
<1>2. /\ rewired.nodes = reread /\ rewired.outputs = Redirected(g.outputs, E, to)
      /\ rewired.inputs = g.inputs /\ rewired.tensors = g.tensors /\ DOMAIN rewired = GraphFields
      /\ Whole(rewired)
  BY RewireWhole DEF Rewire, Whole, GraphFields
<1>3. \A i \in DOMAIN g.nodes : reread[i] = Reread(g.nodes[i], E, to)
  BY DEF NodeNames, Names, Reread
<1>4. \A i \in DOMAIN g.nodes : reread[i].name = g.nodes[i].name
  BY DEF Reading
<1> HIDE DEF rewired, reread
<1>5. DOMAIN reread = DOMAIN g.nodes
  BY DEF reread
<1>6. /\ cut.nodes = Among(rewired.nodes, S) /\ cut.outputs = rewired.outputs
      /\ cut.inputs = rewired.inputs /\ cut.tensors = rewired.tensors
      /\ DOMAIN cut = GraphFields /\ Whole(cut)
  BY <1>2, WithoutWhole DEF Without, GraphFields
<1>7. ToSet(cut.nodes) = ToSet(rewired.nodes) \cap S
  BY <1>2, <1>6, AmongLists DEF Whole, Dict
<1>8. ASSUME NEW y \in ToSet(cut.nodes)
      PROVE  \E z \in ToSet(g.nodes) : z.name # bn.name /\ y = Reread(z, E, to)
  <2>1. y \in ToSet(rewired.nodes) /\ y.name # bn.name
    BY <1>7
  <2>2. PICK i \in DOMAIN g.nodes : y = reread[i]
    BY <1>2, <1>5, <2>1 DEF ToSet
  <2>3. y = Reread(g.nodes[i], E, to) /\ y.name = g.nodes[i].name
    BY <1>3, <1>4, <2>2
  <2> QED BY <2>1, <2>3 DEF ToSet
<1> HIDE DEF cut, S, unread
<1>9. /\ left.nodes = cut.nodes /\ left.outputs = cut.outputs /\ left.inputs = cut.inputs
      /\ left.tensors = Restrict(cut.tensors, DOMAIN cut.tensors \ unread)
      /\ DOMAIN left = GraphFields
  BY <1>6 DEF GraphFields
<1> HIDE DEF left
<1>10. /\ h.nodes = cut.nodes /\ h.outputs = cut.outputs /\ h.inputs = cut.inputs
       /\ h.tensors = Restrict(cut.tensors, DOMAIN cut.tensors \ unread)
  BY <1>9 DEF Invalidate, GraphFields
<1> HIDE DEF h
<1>11. \A t \in DOMAIN h.tensors : t \in DOMAIN g.tensors /\ h.tensors[t] = g.tensors[t]
  BY <1>2, <1>6, <1>10 DEF Restrict
<1>12. Bypassed(g, bn, h)
  BY <1>2, <1>6, <1>8, <1>10, <1>11 DEF E, to, Bypassed
<1> QED BY <1>1, <1>12

(* A chain of nodes that is to make what a node above it made: its tensors C     *)
(* are read by the chain and by that node only, and what the chain makes of W is *)
(* W; then the readers of the node may read the end of the chain.              *)
Carries(g, h, x, bn, src, C, chain, V, W) ==
  /\ \A t \in Observed(g) : t \notin C => W[t] = V[t]
  /\ bn.out \in Observed(g) => W[src] = V[bn.out]
  /\ \A t \in Observed(h) : t \in C /\ Given(h, t) => W[t] = Loaded(h, x)[t]
  /\ \A y \in chain : y.out \in Observed(h) => W[y.out] = Means(y, W)

Carried(g, h, x, bn, src, C, chain) ==
  \A V : Solves(g, x, V) => \E W : Carries(g, h, x, bn, src, C, chain, V, W)

(* The rest reads the end of the chain for what the node made, and nothing else  *)
(* of it.                                                                    *)
Detours(g, h, bn, src, C, chain) ==
  /\ h.inputs = g.inputs /\ h.outputs = Redirected(g.outputs, {bn.out}, src)
  /\ src \in Observed(g) /\ src \in C /\ bn.out \notin C
  /\ \A t \in ToSet(g.outputs) : t \notin C
  /\ \A y \in chain : \A t \in ToSet(y.ins) : t \in C \/ t \in Observed(g)
  /\ \A y \in ToSet(h.nodes) : y \in chain \/ \E z \in ToSet(g.nodes) :
       /\ y = Reread(z, {bn.out}, src) /\ z.out \notin C
       /\ \A t \in ToSet(z.ins) : t \notin C
  /\ \A t \in DOMAIN h.tensors : t \notin C => t \in DOMAIN g.tensors /\ h.tensors[t] = g.tensors[t]

LEMMA BypassMeans ==
  ASSUME NEW g, Determined(g), NEW h, Determined(h), NEW x, NEW bn \in ToSet(g.nodes), NEW src,
         NEW C, NEW chain, Detours(g, h, bn, src, C, chain), Carried(g, h, x, bn, src, C, chain)
  PROVE  Meaning(h, x) = Meaning(g, x)
<1>d. /\ h.inputs = g.inputs /\ h.outputs = Redirected(g.outputs, {bn.out}, src)
      /\ src \in Observed(g) /\ src \in C /\ bn.out \notin C
      /\ \A t \in ToSet(g.outputs) : t \notin C
      /\ \A y \in chain : \A t \in ToSet(y.ins) : t \in C \/ t \in Observed(g)
      /\ \A y \in ToSet(h.nodes) : y \in chain \/ \E z \in ToSet(g.nodes) :
           /\ y = Reread(z, {bn.out}, src) /\ z.out \notin C
           /\ \A t \in ToSet(z.ins) : t \notin C
      /\ \A t \in DOMAIN h.tensors : t \notin C => t \in DOMAIN g.tensors /\ h.tensors[t] = g.tensors[t]
  BY DEF Detours
<1>c. \A V : Solves(g, x, V) => \E W : Carries(g, h, x, bn, src, C, chain, V, W)
  BY DEF Carried
<1> USE <1>d, <1>c
<1>1. /\ \A t \in Observed(h) : t \in DOMAIN h.tensors
      /\ \A y \in ToSet(g.nodes) : \A t \in ToSet(y.ins) : t \in Observed(g)
  BY ObservedTensors
<1>2. \A t \in Observed(h) : t \in C \/ t \in Observed(g)
  <2>1. ASSUME NEW seq, NEW t \in ToSet(Redirected(seq, {bn.out}, src)) PROVE t = src \/ t \in ToSet(seq)
    BY <2>1 DEF Redirected, ToSet
  <2>2. \A t \in ToSet(h.outputs) : t \in C \/ t \in Observed(g)
    BY <2>1 DEF Observed
  <2>3. ASSUME NEW y \in ToSet(h.nodes), NEW t \in ToSet(y.ins) PROVE t \in C \/ t \in Observed(g)
    <3>1. CASE y \in chain
      BY <3>1
    <3>2. CASE y \notin chain
      <4>1. PICK z \in ToSet(g.nodes) : y = Reread(z, {bn.out}, src)
        BY <3>2
      <4>2. y.ins = Redirected(z.ins, {bn.out}, src)
        BY <4>1 DEF Reread, Reading
      <4> QED BY <1>1, <2>1, <4>2
    <3> QED BY <3>1, <3>2
  <2> QED BY <2>2, <2>3 DEF Observed
<1>3. ASSUME NEW V, Solves(g, x, V)
      PROVE  \E W : /\ Solves(h, x, W)
                    /\ \A i \in DOMAIN g.outputs : W[h.outputs[i]] = V[g.outputs[i]]
  <2>1. PICK W : Carries(g, h, x, bn, src, C, chain, V, W)
    BY <1>3
  <2>2. /\ \A t \in Observed(g) : t \notin C => W[t] = V[t]
        /\ bn.out \in Observed(g) => W[src] = V[bn.out]
        /\ \A t \in Observed(h) : t \in C /\ Given(h, t) => W[t] = Loaded(h, x)[t]
        /\ \A y \in chain : y.out \in Observed(h) => W[y.out] = Means(y, W)
    BY <2>1 DEF Carries
  <2>3. ASSUME NEW t \in Observed(g), t \notin C
        PROVE  W[IF t \in {bn.out} THEN src ELSE t] = V[t]
    BY <2>2, <2>3
  <2>4. \A i \in DOMAIN g.outputs : W[h.outputs[i]] = V[g.outputs[i]]
    <3>1. \A i \in DOMAIN g.outputs : g.outputs[i] \in Observed(g) /\ g.outputs[i] \notin C
      BY DEF Observed, ToSet
    <3>2. \A i \in DOMAIN g.outputs :
            h.outputs[i] = IF g.outputs[i] \in {bn.out} THEN src ELSE g.outputs[i]
      BY DEF Redirected
    <3> QED BY <2>3, <3>1, <3>2
  <2>5. ASSUME NEW t \in Observed(h), Given(h, t) PROVE W[t] = Loaded(h, x)[t]
    <3>1. CASE t \in C
      BY <2>2, <2>5, <3>1
    <3>2. CASE t \notin C
      <4>1. t \in Observed(g) /\ t \in DOMAIN g.tensors /\ t \in DOMAIN h.tensors /\ h.tensors[t] = g.tensors[t]
        BY <1>1, <1>2, <3>2
      <4>2. Given(g, t) /\ Loaded(h, x)[t] = Loaded(g, x)[t]
        BY <2>5, <4>1 DEF Given, IsConstant, Loaded
      <4> QED BY <1>3, <2>2, <3>2, <4>1, <4>2 DEF Solves
    <3> QED BY <3>1, <3>2
  <2>6. ASSUME NEW y \in ToSet(h.nodes), y.out \in Observed(h) PROVE W[y.out] = Means(y, W)
    <3>1. CASE y \in chain
      BY <2>2, <2>6, <3>1
    <3>2. CASE y \notin chain
      <4>1. PICK z \in ToSet(g.nodes) : /\ y = Reread(z, {bn.out}, src) /\ z.out \notin C
                                        /\ \A t \in ToSet(z.ins) : t \notin C
        BY <3>2
      <4>2. y.out = z.out /\ y.op = z.op /\ y.attrs = z.attrs /\ y.ins = Redirected(z.ins, {bn.out}, src)
        BY <4>1 DEF Reread, Reading
      <4>3. z.out \in Observed(g)
        BY <1>2, <2>6, <4>1, <4>2
      <4>4. V[z.out] = Means(z, V) /\ W[y.out] = V[z.out]
        BY <1>3, <2>2, <4>1, <4>2, <4>3 DEF Solves
      <4>5. DOMAIN y.ins = DOMAIN z.ins /\ \A j \in DOMAIN z.ins : W[y.ins[j]] = V[z.ins[j]]
        <5>1. \A j \in DOMAIN z.ins : z.ins[j] \in Observed(g) /\ z.ins[j] \notin C
          BY <1>1, <4>1 DEF ToSet
        <5>2. /\ DOMAIN y.ins = DOMAIN z.ins
              /\ \A j \in DOMAIN z.ins : y.ins[j] = IF z.ins[j] \in {bn.out} THEN src ELSE z.ins[j]
          BY <4>2 DEF Redirected
        <5> QED BY <2>3, <5>1, <5>2
      <4>6. [j \in DOMAIN y.ins |-> Dequantized(y, j, W[y.ins[j]])]
              = [j \in DOMAIN z.ins |-> Dequantized(z, j, V[z.ins[j]])]
        <5>1. \A j, v1 : Dequantized(y, j, v1) = Dequantized(z, j, v1)
          BY <4>2 DEF Dequantized, IsQuantized
        <5> QED BY <4>5, <5>1
      <4>7. Means(y, W) = Means(z, V)
        BY <4>2, <4>6 DEF Means, Applied
      <4> QED BY <4>4, <4>7
    <3> QED BY <3>1, <3>2
  <2>7. Solves(h, x, W)
    BY <2>5, <2>6 DEF Solves
  <2> QED BY <2>4, <2>7
<1>4. DOMAIN h.outputs = DOMAIN g.outputs
  BY DEF Redirected
<1> QED BY <1>3, <1>4, SolutionsCarryOver

(* What is left when a normalization is folded into a weight and a bias. *)
LEMMA ScaledLeaves ==
  ASSUME NEW g, Whole(g), NEW bn, NEW weight \in DOMAIN g.tensors, NEW bias \in DOMAIN g.tensors,
         weight # bias, "raw" \in DOMAIN g.tensors[weight], "raw" \in DOMAIN g.tensors[bias],
         "dtype" \in DOMAIN g.tensors[weight], "dtype" \in DOMAIN g.tensors[bias]
  PROVE  LET h == ScaledInto(g, bn, weight, bias)
             p(k) == g.tensors[bn.ins[k]].raw
         IN  /\ h.nodes = g.nodes /\ h.inputs = g.inputs /\ h.outputs = g.outputs
             /\ DOMAIN h.tensors = DOMAIN g.tensors
             /\ \A t \in DOMAIN g.tensors : h.tensors[t].dtype = g.tensors[t].dtype
             /\ \A t \in DOMAIN g.tensors \ {weight, bias} : h.tensors[t] = g.tensors[t]
             /\ h.tensors[weight].raw = Times(g.tensors[weight].raw, p(2))
             /\ h.tensors[bias].raw = Plus(Times(p(2), Plus(g.tensors[bias].raw, -p(4))), p(3))
<1>1. ASSUME NEW j, Whole(j), NEW t \in DOMAIN j.tensors, NEW v, "raw" \in DOMAIN j.tensors[t]
      PROVE  LET l == WithRaw(j, t, v)
             IN  /\ l.nodes = j.nodes /\ l.inputs = j.inputs /\ l.outputs = j.outputs
                 /\ DOMAIN l.tensors = DOMAIN j.tensors
                 /\ \A u \in DOMAIN j.tensors \ {t} : l.tensors[u] = j.tensors[u]
                 /\ l.tensors[t].raw = v /\ DOMAIN l.tensors[t] = DOMAIN j.tensors[t]
                 /\ "dtype" \in DOMAIN j.tensors[t] => l.tensors[t].dtype = j.tensors[t].dtype
  BY <1>1 DEF WithRaw, Whole, GraphFields
<1> DEFINE p(k) == g.tensors[bn.ins[k]].raw
           l == WithRaw(g, weight, Times(g.tensors[weight].raw, p(2)))
           v == Plus(Times(p(2), Plus(l.tensors[bias].raw, -p(4))), p(3))
           h == WithRaw(l, bias, v)
<1>2. h = ScaledInto(g, bn, weight, bias)
  BY DEF ScaledInto
<1>3. /\ l.nodes = g.nodes /\ l.inputs = g.inputs /\ l.outputs = g.outputs
      /\ DOMAIN l.tensors = DOMAIN g.tensors
      /\ \A u \in DOMAIN g.tensors \ {weight} : l.tensors[u] = g.tensors[u]
      /\ l.tensors[weight].raw = Times(g.tensors[weight].raw, p(2))
      /\ l.tensors[weight].dtype = g.tensors[weight].dtype
  BY <1>1
<1>4. Whole(l)
  BY DEF WithRaw, Whole, GraphFields
<1>5. l.tensors[bias] = g.tensors[bias]
  BY <1>3
<1> HIDE DEF l
<1>6. v = Plus(Times(p(2), Plus(g.tensors[bias].raw, -p(4))), p(3))
  BY <1>5
<1> HIDE DEF v
<1>7. /\ h.nodes = l.nodes /\ h.inputs = l.inputs /\ h.outputs = l.outputs
      /\ DOMAIN h.tensors = DOMAIN l.tensors
      /\ \A u \in DOMAIN l.tensors \ {bias} : h.tensors[u] = l.tensors[u]
      /\ h.tensors[bias].raw = v /\ h.tensors[bias].dtype = l.tensors[bias].dtype
  BY <1>1, <1>3, <1>4, <1>5
<1> HIDE DEF h, p
<1>8. h.tensors[weight] = l.tensors[weight]
  BY <1>3, <1>7
<1>9. \A t \in DOMAIN g.tensors : h.tensors[t].dtype = g.tensors[t].dtype
  <2> TAKE t \in DOMAIN g.tensors
  <2>1. CASE t = bias
    BY <1>5, <1>7, <2>1
  <2>2. CASE t = weight
    BY <1>3, <1>8, <2>2
  <2>3. CASE t \notin {weight, bias}
    BY <1>3, <1>7, <2>3
  <2> QED BY <2>1, <2>2, <2>3
<1>10. \A t \in DOMAIN g.tensors \ {weight, bias} : h.tensors[t] = g.tensors[t]
  BY <1>3, <1>7
<1>11. /\ h.nodes = g.nodes /\ h.inputs = g.inputs /\ h.outputs = g.outputs
       /\ DOMAIN h.tensors = DOMAIN g.tensors
       /\ h.tensors[weight].raw = Times(g.tensors[weight].raw, p(2))
       /\ h.tensors[bias].raw = Plus(Times(p(2), Plus(g.tensors[bias].raw, -p(4))), p(3))
  BY <1>3, <1>6, <1>7, <1>8
<1> QED BY <1>2, <1>9, <1>10, <1>11 DEF p

(* The graph with the weight scaled and the normalization bypassed. *)
Tensored(g) == \A t \in DOMAIN g.tensors : DOMAIN g.tensors[t] = DOMAIN Activation

Folded(g, bn, weight, bias, h) ==
  LET p(k) == g.tensors[bn.ins[k]].raw
  IN  /\ h.inputs = g.inputs /\ h.outputs = Redirected(g.outputs, {bn.out}, bn.ins[1])
      /\ \A y \in ToSet(h.nodes) : \E z \in ToSet(g.nodes) :
           z.name # bn.name /\ y = Reread(z, {bn.out}, bn.ins[1])
      /\ \A t \in DOMAIN h.tensors :
           /\ t \in DOMAIN g.tensors /\ h.tensors[t].dtype = g.tensors[t].dtype
           /\ t \notin {weight, bias} => h.tensors[t] = g.tensors[t]
           /\ t = weight => h.tensors[t].raw = Times(g.tensors[weight].raw, p(2))
           /\ t = bias =>
                h.tensors[t].raw = Plus(Times(p(2), Plus(g.tensors[bias].raw, -p(4))), p(3))

LEMMA FoldedLeaves ==
  ASSUME NEW g, Whole(g), Tensored(g), NEW bn, NEW weight \in DOMAIN g.tensors, NEW bias \in DOMAIN g.tensors,
         weight # bias
  PROVE  Folded(g, bn, weight, bias, Invalidate(Bypass(ScaledInto(g, bn, weight, bias), bn)))
<1> DEFINE l == ScaledInto(g, bn, weight, bias)
           p(k) == g.tensors[bn.ins[k]].raw
           h == Invalidate(Bypass(l, bn))
<1>1. DOMAIN g.tensors[weight] = {"dtype", "raw"} /\ DOMAIN g.tensors[bias] = {"dtype", "raw"}
  BY DEF Tensored, Activation
<1>2. /\ l.nodes = g.nodes /\ l.inputs = g.inputs /\ l.outputs = g.outputs
      /\ DOMAIN l.tensors = DOMAIN g.tensors
      /\ \A t \in DOMAIN g.tensors : l.tensors[t].dtype = g.tensors[t].dtype
      /\ \A t \in DOMAIN g.tensors \ {weight, bias} : l.tensors[t] = g.tensors[t]
      /\ l.tensors[weight].raw = Times(g.tensors[weight].raw, p(2))
      /\ l.tensors[bias].raw = Plus(Times(p(2), Plus(g.tensors[bias].raw, -p(4))), p(3))
  BY <1>1, ScaledLeaves
<1>3. Whole(l)
  BY ScaledWhole
<1> HIDE DEF l, p
<1>4. Bypassed(l, bn, h)
  BY <1>3, BypassLeaves
<1> HIDE DEF h
<1>5. /\ h.inputs = l.inputs /\ h.outputs = Redirected(l.outputs, {bn.out}, bn.ins[1])
      /\ \A y \in ToSet(h.nodes) : \E z \in ToSet(l.nodes) :
           z.name # bn.name /\ y = Reread(z, {bn.out}, bn.ins[1])
      /\ \A t \in DOMAIN h.tensors : t \in DOMAIN l.tensors /\ h.tensors[t] = l.tensors[t]
  BY <1>4 DEF Bypassed
<1>6. Folded(g, bn, weight, bias, h)
  BY <1>2, <1>5 DEF p, Folded
<1> QED BY <1>6 DEF l, h

LEMMA LastPicked ==
  ASSUME NEW T, NEW seq \in Seq(T), NEW S, Among(seq, S) # <<>>
  PROVE  Last(Among(seq, S)) \in ToSet(seq) \cap S
<1> DEFINE some == Among(seq, S)
<1>1. some \in Seq(T) /\ ToSet(some) = ToSet(seq) \cap S
  BY AmongLists
<1> HIDE DEF some
<1>2. Len(some) \in Nat /\ DOMAIN some = 1 .. Len(some) /\ (some # <<>> => Len(some) # 0)
  BY <1>1, LenProperties, EmptySeq
<1>3. some # <<>> => Last(some) \in ToSet(some)
  <2>1. some # <<>> => Len(some) \in DOMAIN some
    BY <1>2
  <2> QED BY <2>1 DEF Last, ToSet
<1> QED BY <1>1, <1>3 DEF some

(* What a solution gives to what a normalization makes of its constants. *)
LEMMA NormSolved ==
  ASSUME NEW g, Determined(g), Plain(g.nodes), NEW x, RunsOn(g, x), NEW V, Solves(g, x, V),
         NEW bn \in ToSet(g.nodes), bn.op = "BatchNormalization", Len(bn.ins) = 4,
         \A k \in 2 .. 4 : IsConstant(g, bn.ins[k])
  PROVE  LET p(k) == g.tensors[bn.ins[k]].raw
         IN  /\ \A k \in 1 .. 4 : bn.ins[k] \in ToSet(bn.ins) /\ bn.ins[k] \in Observed(g)
             /\ p(2) \in Int /\ p(3) \in Int /\ p(4) \in Int
             /\ bn.out \in Observed(g) =>
                  V[bn.out] = Plus(Times(Plus(V[bn.ins[1]], -p(4)), p(2)), p(3))
<1> DEFINE p(k) == g.tensors[bn.ins[k]].raw
<1>1. bn.ins \in Seq(DOMAIN g.tensors)
  BY DEF Determined, Formed, Arranged
<1>2. DOMAIN bn.ins = 1 .. 4
  BY <1>1, LenProperties
<1>3. ToSet(bn.ins) \subseteq Observed(g)
  BY DEF Observed
<1>4. \A k \in 1 .. 4 : bn.ins[k] \in ToSet(bn.ins)
  BY <1>2 DEF ToSet
<1>5. V[bn.ins[2]] = p(2) /\ V[bn.ins[3]] = p(3) /\ V[bn.ins[4]] = p(4)
  <2>1. 2 \in 2 .. 4 /\ 3 \in 2 .. 4 /\ 4 \in 2 .. 4 /\ 2 \in 1 .. 4 /\ 3 \in 1 .. 4 /\ 4 \in 1 .. 4
    OBVIOUS
  <2>2. /\ bn.ins[2] \in Observed(g) /\ bn.ins[3] \in Observed(g) /\ bn.ins[4] \in Observed(g)
        /\ IsConstant(g, bn.ins[2]) /\ IsConstant(g, bn.ins[3]) /\ IsConstant(g, bn.ins[4])
    BY <1>3, <1>4, <2>1
  <2> QED BY <2>2, ConstantSolved
<1>6. \A t \in Observed(g) : V[t] \in Int
  BY SolutionIsNumeric DEF RunsOn
<1>7. p(2) \in Int /\ p(3) \in Int /\ p(4) \in Int
  <2>1. bn.ins[2] \in Observed(g) /\ bn.ins[3] \in Observed(g) /\ bn.ins[4] \in Observed(g)
    BY <1>3, <1>4
  <2> QED BY <1>5, <1>6, <2>1
<1>8. ASSUME bn.out \in Observed(g)
      PROVE  V[bn.out] = Plus(Times(Plus(V[bn.ins[1]], -p(4)), p(2)), p(3))
  <2> DEFINE v == ValuesOf(V, bn.ins)
  <2>1. V[bn.out] = Execute("BatchNormalization", v)
    BY <1>8, Solved
  <2>2. v[1] = V[bn.ins[1]] /\ v[2] = p(2) /\ v[3] = p(3) /\ v[4] = p(4)
    BY <1>2, <1>5, ValueAt
  <2> HIDE DEF v, p
  <2>3. Execute("BatchNormalization", v) = op_batch_norm(v)
    BY DEF Execute
  <2> QED BY <2>1, <2>2, <2>3 DEF op_batch_norm
<1> QED BY <1>3, <1>4, <1>7, <1>8

(* What a normalization is folded into: a sum of a product and a bias, there for *)
(* it alone, *)
Beneath(g, bn, add, mm, b) ==
  /\ add \in ToSet(g.nodes) /\ add.op = "Add" /\ add.out = bn.ins[1]
  /\ mm \in ToSet(g.nodes) /\ mm.op = "MatMul"
  /\ ToSet(add.ins) = {mm.out, b} /\ mm.out # b
  /\ ReadOnlyBy(g, add.out, bn) /\ ReadOnlyBy(g, mm.out, add)
  /\ ReadOnlyBy(g, mm.ins[2], mm) /\ ReadOnlyBy(g, b, add)
  /\ IsConstant(g, mm.ins[2]) /\ IsConstant(g, b) /\ mm.ins[1] # mm.ins[2]

LEMMA SumBeneath ==
  ASSUME NEW g, Determined(g), Complete(g), NEW bn \in ToSet(g.nodes), Exclusive(g, bn),
         NEW add, add = Producer(g, bn.ins[1]), add.op = "Add",
         NEW products, products = Pick(add.ins, LAMBDA t : Producer(g, t).op = "MatMul"),
         NEW biases,
         biases = Pick(add.ins, LAMBDA t : Producer(g, t).op # "MatMul" /\ IsConstant(g, t)),
         products # <<>>, biases # <<>>
  PROVE  /\ Beneath(g, bn, add, Producer(g, Last(products)), Last(biases))
<1>1. Sound(g) /\ Formed(g)
  BY DEF Determined, Formed, Arranged
<1>2. add # NoNode
  BY NoNodeOp
<1>3. add \in ToSet(g.nodes) /\ add.out = bn.ins[1]
  BY <1>1, <1>2, ProducerMakes
<1>4. add.ins \in Seq(DOMAIN g.tensors) /\ ToSet(add.ins) = {add.ins[1], add.ins[2]}
  BY <1>1, <1>3, OperandCounts
<1> DEFINE M == {t \in ToSet(add.ins) : Producer(g, t).op = "MatMul"}
           B == {t \in ToSet(add.ins) : Producer(g, t).op # "MatMul" /\ IsConstant(g, t)}
           u == Last(products)
           b == Last(biases)
           mm == Producer(g, u)
<1>5. products = Among(add.ins, M) /\ biases = Among(add.ins, B)
  BY DEF Pick
<1> HIDE DEF M, B
<1>6. u \in ToSet(add.ins) /\ u \in M /\ b \in ToSet(add.ins) /\ b \in B
  BY <1>4, <1>5, LastPicked
<1> HIDE DEF u, b
<1>7. mm.op = "MatMul" /\ Producer(g, b).op # "MatMul" /\ IsConstant(g, b)
  BY <1>6 DEF M, B
<1>8. u # b /\ ToSet(add.ins) = {u, b}
  BY <1>4, <1>6, <1>7
<1>9. mm # NoNode
  BY <1>7, NoNodeOp
<1>10. mm \in ToSet(g.nodes) /\ mm.out = u
  BY <1>1, <1>9, ProducerMakes
<1>11. /\ ReadOnlyBy(g, add.out, bn) /\ ReadOnlyBy(g, u, add) /\ ReadOnlyBy(g, b, add)
       /\ ReadOnlyBy(g, mm.ins[2], mm) /\ IsConstant(g, mm.ins[2]) /\ mm.ins[1] # mm.ins[2]
  <2> HIDE DEF mm
  <2>1. mm = Producer(g, u)
    BY DEF mm
  <2> QED BY <1>2, <1>6, <1>7, <2>1 DEF Exclusive
<1> HIDE DEF mm
<1>12. Beneath(g, bn, add, mm, b)
  BY <1>3, <1>7, <1>8, <1>10, <1>11 DEF Beneath
<1> QED BY <1>12 DEF mm, u, b

(* so that what it changes is read nowhere else. *)
Apart(g, bn, add, mm, b, C) ==
  /\ C \subseteq Observed(g) /\ bn.out \notin C /\ mm.ins[1] \notin C
  /\ ToSet(mm.ins) = {mm.ins[1], mm.ins[2]} /\ mm.ins[1] \in Observed(g)
  /\ mm.ins[2] # b /\ mm.ins[2] # mm.out /\ mm.ins[2] # add.out
  /\ b # mm.out /\ b # add.out /\ mm.out # add.out
  /\ bn.out # mm.ins[1]
  /\ \A t \in ToSet(g.outputs) : t \notin C
  /\ \A z \in ToSet(g.nodes) : z \notin {mm, add, bn} =>
       z.out \notin C /\ \A t \in ToSet(z.ins) : t \notin C

LEMMA BeneathApart ==
  ASSUME NEW g, Determined(g), Complete(g), NEW bn \in ToSet(g.nodes), bn.op = "BatchNormalization",
         Len(bn.ins) = 4, \A k \in 2 .. 4 : IsConstant(g, bn.ins[k]),
         NEW add, NEW mm, NEW b, Beneath(g, bn, add, mm, b)
  PROVE  Apart(g, bn, add, mm, b, {mm.ins[2], b, mm.out, add.out})
<1> DEFINE w == mm.ins[2]
           a == mm.ins[1]
           C == {w, b, mm.out, add.out}
<1>1. /\ add \in ToSet(g.nodes) /\ add.op = "Add" /\ add.out = bn.ins[1]
      /\ mm \in ToSet(g.nodes) /\ mm.op = "MatMul"
      /\ ToSet(add.ins) = {mm.out, b} /\ mm.out # b
      /\ ReadOnlyBy(g, add.out, bn) /\ ReadOnlyBy(g, mm.out, add)
      /\ ReadOnlyBy(g, w, mm) /\ ReadOnlyBy(g, b, add)
      /\ IsConstant(g, w) /\ IsConstant(g, b) /\ a # w
  BY DEF Beneath
<1>2. Formed(g) /\ \A z \in ToSet(g.nodes) : ~IsConstant(g, z.out)
  BY DEF Determined, Given
<1>3. ToSet(mm.ins) = {a, w}
  BY <1>1, <1>2, OperandCounts
<1>4. bn.ins[1] \in ToSet(bn.ins)
  <2>1. bn.ins \in Seq(DOMAIN g.tensors)
    BY <1>2 DEF Formed, Arranged
  <2>2. DOMAIN bn.ins = 1 .. 4
    BY <2>1, LenProperties
  <2> QED BY <2>2 DEF ToSet
<1>5. \A z \in ToSet(g.nodes) : \A t \in ToSet(z.ins) : t \in Observed(g)
  BY ObservedTensors
<1>6. C \subseteq Observed(g) /\ a \in Observed(g)
  BY <1>1, <1>3, <1>4, <1>5
<1>7. /\ \A z \in ToSet(g.nodes) : add.out \in ToSet(z.ins) => z = bn
      /\ \A z \in ToSet(g.nodes) : mm.out \in ToSet(z.ins) => z = add
      /\ \A z \in ToSet(g.nodes) : w \in ToSet(z.ins) => z = mm
      /\ \A z \in ToSet(g.nodes) : b \in ToSet(z.ins) => z = add
      /\ \A t \in ToSet(g.outputs) : t \notin C
  BY <1>1 DEF ReadOnlyBy
<1>8. add # mm /\ add # bn /\ mm # bn
  BY <1>1
<1>9. w # mm.out /\ w # add.out /\ b # mm.out /\ b # add.out /\ bn.out # w /\ bn.out # b
  BY <1>1, <1>2
<1>10. w # b /\ mm.out # add.out
  BY <1>1, <1>3, <1>4, <1>7, <1>8
<1>11. a # b /\ a # mm.out /\ a # add.out
  BY <1>1, <1>3, <1>7, <1>8
<1>12. \A z \in ToSet(g.nodes) : (z.out = mm.out => z = mm) /\ (z.out = add.out => z = add)
  BY <1>1, <1>6, ObservedTensors
<1>13. bn.out # mm.out /\ bn.out # add.out
  BY <1>8, <1>12
<1>14. bn.out # a
  <2> SUFFICES ASSUME bn.out = a PROVE FALSE
    OBVIOUS
  <2>1. PICK rank \in [ToSet(g.nodes) -> Nat] :
          \A p, y \in ToSet(g.nodes) : p.out \in ToSet(y.ins) => rank[p] < rank[y]
    BY <1>2, Ranked
  <2>2. rank[bn] < rank[mm] /\ rank[mm] < rank[add] /\ rank[add] < rank[bn]
    BY <1>1, <1>3, <1>4, <2>1
  <2>3. rank[bn] \in Nat /\ rank[mm] \in Nat /\ rank[add] \in Nat
    BY <1>1, <2>1
  <2> QED BY <2>2, <2>3
<1>15. ASSUME NEW z \in ToSet(g.nodes), z \notin {mm, add, bn}
       PROVE  z.out \notin C /\ \A t \in ToSet(z.ins) : t \notin C
  BY <1>1, <1>2, <1>7, <1>12, <1>15
<1> QED BY <1>1, <1>3, <1>6, <1>7, <1>9, <1>10, <1>11, <1>13, <1>14, <1>15 DEF Apart

(* Nodes that differ in their names only. *)
Same(y, z) == y.op = z.op /\ y.ins = z.ins /\ y.out = z.out /\ y.attrs = z.attrs

LEMMA SameNodesMean ==
  ASSUME NEW y, NEW z, Same(y, z), NEW V
  PROVE  Means(y, V) = Means(z, V)
<1>1. \A j, v1 : Dequantized(y, j, v1) = Dequantized(z, j, v1)
  BY DEF Same, Dequantized, IsQuantized
<1>2. [j \in DOMAIN y.ins |-> Dequantized(y, j, V[y.ins[j]])]
        = [j \in DOMAIN z.ins |-> Dequantized(z, j, V[z.ins[j]])]
  BY <1>1 DEF Same
<1> QED BY <1>2 DEF Same, Means, Applied

(* A node that does not read what is redirected is left as it was. *)
LEMMA Unredirected ==
  ASSUME NEW T, NEW z, z.ins \in Seq(T), NEW from, NEW to, \A t \in ToSet(z.ins) : t \notin from
  PROVE  Same(Reread(z, from, to), z)
<1>1. \A i \in DOMAIN z.ins : z.ins[i] \notin from
  BY DEF ToSet
<1>2. z.ins = [i \in DOMAIN z.ins |-> z.ins[i]]
  OBVIOUS
<1>3. Redirected(z.ins, from, to) = z.ins
  BY <1>1, <1>2 DEF Redirected
<1> QED BY <1>3 DEF Reread, Reading, Same

(* With the scaled weight and the shifted bias the sum is what the normalization *)
(* made of it.                                                               *)
LEMMA SumCarries ==
  ASSUME NEW g, Determined(g), Plain(g.nodes), Complete(g), NEW x, RunsOn(g, x),
         NEW bn \in ToSet(g.nodes), bn.op = "BatchNormalization",
         Len(bn.ins) = 4, \A k \in 2 .. 4 : IsConstant(g, bn.ins[k]),
         NEW add, NEW mm, NEW b, Beneath(g, bn, add, mm, b),
         NEW h, Determined(h), Folded(g, bn, mm.ins[2], b, h), NEW V, Solves(g, x, V),
         NEW chain, \A y \in chain : Same(y, mm) \/ Same(y, add)
  PROVE  \E W : Carries(g, h, x, bn, add.out, {mm.ins[2], b, mm.out, add.out}, chain, V, W)
<1> DEFINE w == mm.ins[2]
           a == mm.ins[1]
           C == {w, b, mm.out, add.out}
           p2 == g.tensors[bn.ins[2]].raw
           p3 == g.tensors[bn.ins[3]].raw
           p4 == g.tensors[bn.ins[4]].raw
           weight == Times(V[w], p2)
           bias == Plus(Times(p2, Plus(V[b], -p4)), p3)
           product == Product(V[a], weight)
           sum == Plus(product, bias)
           W == [t \in Observed(g) |-> IF t = w THEN weight ELSE IF t = b THEN bias
                                       ELSE IF t = mm.out THEN product
                                       ELSE IF t = add.out THEN sum ELSE V[t]]
<1>1. /\ add \in ToSet(g.nodes) /\ add.op = "Add" /\ add.out = bn.ins[1]
      /\ mm \in ToSet(g.nodes) /\ mm.op = "MatMul"
      /\ ToSet(add.ins) = {mm.out, b} /\ mm.out # b /\ IsConstant(g, w) /\ IsConstant(g, b)
  BY DEF Beneath
<1>2. /\ C \subseteq Observed(g) /\ a \notin C /\ a \in Observed(g)
      /\ w # b /\ w # mm.out /\ w # add.out /\ b # mm.out /\ b # add.out /\ mm.out # add.out
  BY BeneathApart DEF Apart
<1>3. /\ p2 \in Int /\ p3 \in Int /\ p4 \in Int
      /\ bn.out \in Observed(g) => V[bn.out] = Plus(Times(Plus(V[add.out], -p4), p2), p3)
  BY <1>1, NormSolved
<1>4. \A t \in Observed(g) : V[t] \in Int
  BY SolutionIsNumeric DEF RunsOn
<1>5. V[w] \in Int /\ V[b] \in Int /\ V[a] \in Int
  BY <1>2, <1>4
<1>6. /\ V[w] = g.tensors[w].raw /\ V[b] = g.tensors[b].raw
  BY <1>1, <1>2, ConstantSolved
<1>7. V[mm.out] = Product(V[a], V[w])
  BY <1>1, <1>2, ProductSolved
<1>8. V[add.out] = Plus(V[mm.out], V[b])
  BY <1>1, <1>2, PairSolved
<1> HIDE DEF p2, p3, p4
<1>9. weight \in Int /\ bias \in Int /\ product \in Int
  <2>1. weight \in Int
    BY <1>3, <1>5, Commute
  <2>2. Plus(V[b], -p4) \in Int
    <3>1. -p4 \in Int
      BY <1>3
    <3> QED BY <1>5, <3>1, Commute
  <2>3. Times(p2, Plus(V[b], -p4)) \in Int
    BY <1>3, <2>2, Commute
  <2>4. bias \in Int
    BY <1>3, <2>3, Commute
  <2>5. Times(V[a], V[a]) \in Int
    BY <1>5, Commute
  <2> HIDE DEF weight
  <2>6. product \in Int
    BY <2>1, <2>5, Commute DEF Product
  <2> QED BY <2>1, <2>4, <2>6
<1>10. bn.out \in Observed(g) => sum = V[bn.out]
  <2> DEFINE c == Times(V[a], V[a])
  <2>1. c \in Int
    BY <1>5, Commute
  <2>2. product = Times(c, Times(V[w], p2)) /\ V[mm.out] = Times(c, V[w])
    BY <1>7 DEF Product
  <2> HIDE DEF c
  <2>3. Plus(Times(c, Times(V[w], p2)), bias) = Plus(Times(Plus(Plus(Times(c, V[w]), V[b]), -p4), p2), p3)
    <3> DEFINE vw == V[w]
               vb == V[b]
    <3>1. vw \in Int /\ vb \in Int
      BY <1>5
    <3> HIDE DEF vw, vb
    <3>2. Plus(Times(c, Times(vw, p2)), Plus(Times(p2, Plus(vb, -p4)), p3))
            = Plus(Times(Plus(Plus(Times(c, vw), vb), -p4), p2), p3)
      BY <1>3, <2>1, <3>1, FoldedSum
    <3> QED BY <3>2 DEF vw, vb
  <2> QED BY <1>3, <1>8, <2>2, <2>3
<1> HIDE DEF weight, bias, product
<1>11. W[w] = weight /\ W[b] = bias /\ W[mm.out] = product /\ W[add.out] = sum /\ W[a] = V[a]
  BY <1>2
<1>12. \A t \in Observed(g) : t \notin C => W[t] = V[t]
  OBVIOUS
<1>13. W[add.out] = Plus(W[mm.out], W[b])
  BY <1>11
<1> HIDE DEF W, sum
<1>14. ASSUME NEW t \in Observed(h), t \in C, Given(h, t) PROVE W[t] = Loaded(h, x)[t]
  <2>1. /\ h.inputs = g.inputs
        /\ \A u \in DOMAIN h.tensors :
             /\ u \in DOMAIN g.tensors /\ h.tensors[u].dtype = g.tensors[u].dtype
             /\ u = w => h.tensors[u].raw = Times(g.tensors[w].raw, p2)
             /\ u = b => h.tensors[u].raw = Plus(Times(p2, Plus(g.tensors[b].raw, -p4)), p3)
    BY DEF Folded, p2, p3, p4
  <2>2. t \in DOMAIN h.tensors
    BY ObservedTensors
  <2>3. Given(g, t) /\ (IsConstant(g, t) => IsConstant(h, t))
    BY <1>14, <2>1, <2>2 DEF Given, IsConstant
  <2>4. ~Given(g, mm.out) /\ ~Given(g, add.out)
    BY <1>1 DEF Determined
  <2>5. t = w \/ t = b
    BY <1>14, <2>3, <2>4
  <2>6. IsConstant(h, t)
    BY <1>1, <2>3, <2>5
  <2>7. Loaded(h, x)[t] = h.tensors[t].raw
    BY <2>2, <2>6 DEF Loaded
  <2>8. CASE t = w
    BY <1>6, <1>11, <2>1, <2>2, <2>7, <2>8 DEF weight, p2
  <2>9. CASE t = b
    BY <1>6, <1>11, <2>1, <2>2, <2>7, <2>9 DEF bias, p2, p3, p4
  <2> QED BY <2>5, <2>8, <2>9
<1>15. Means(mm, W) = W[mm.out]
  <2>1. mm.ins \in Seq(DOMAIN g.tensors) /\ DOMAIN mm.ins = {1, 2}
    BY <1>1, OperandCounts DEF Determined
  <2>2. Len(ValuesOf(W, mm.ins)) \in Nat
    BY <2>1, ValuesLength, LenProperties
  <2>3. ValuesOf(W, mm.ins)[1] = W[a] /\ ValuesOf(W, mm.ins)[2] = W[w]
    BY <2>1, ValueAt
  <2>4. ~IsQuantized(mm)
    BY <1>1, PlainAgrees
  <2>5. Means(mm, W) = Execute("MatMul", ValuesOf(W, mm.ins))
    BY <1>1, <2>4, PlainMeans
  <2>6. Means(mm, W) = Product(W[a], W[w])
    BY <2>2, <2>3, <2>5, LinearExecutes
  <2> QED BY <1>11, <2>6 DEF product
<1>16. Means(add, W) = W[add.out]
  <2>1. DOMAIN add.ins = {1, 2} /\ ToSet(add.ins) = {add.ins[1], add.ins[2]}
    BY <1>1, OperandCounts DEF Determined
  <2>2. ValuesOf(W, add.ins)[1] = W[add.ins[1]] /\ ValuesOf(W, add.ins)[2] = W[add.ins[2]]
    BY <2>1, ValueAt
  <2>3. ~IsQuantized(add)
    BY <1>1, PlainAgrees
  <2>4. Means(add, W) = Execute("Add", ValuesOf(W, add.ins))
    BY <1>1, <2>3, PlainMeans
  <2>5. Means(add, W) = Plus(W[add.ins[1]], W[add.ins[2]])
    BY <2>2, <2>4, ActivationsExecute
  <2>6. Plus(W[mm.out], W[b]) = Plus(W[b], W[mm.out])
    BY <1>9, <1>11, Commute
  <2>7. \/ add.ins[1] = mm.out /\ add.ins[2] = b
        \/ add.ins[1] = b /\ add.ins[2] = mm.out
    BY <1>1, <2>1
  <2> QED BY <1>13, <2>5, <2>6, <2>7
<1>17. bn.out \in Observed(g) => W[add.out] = V[bn.out]
  BY <1>10, <1>11
<1>18. \A y \in chain : W[y.out] = Means(y, W)
  <2> TAKE y \in chain
  <2>1. CASE Same(y, mm)
    BY <1>15, <2>1, SameNodesMean DEF Same
  <2>2. CASE Same(y, add)
    BY <1>16, <2>2, SameNodesMean DEF Same
  <2> QED BY <2>1, <2>2
<1>19. Carries(g, h, x, bn, add.out, C, chain, V, W)
  BY <1>12, <1>14, <1>17, <1>18 DEF Carries
<1> QED BY <1>19

LEMMA NormFoldMeans ==
  ASSUME NEW g, Determined(g), Plain(g.nodes), Complete(g), Tensored(g),
         NEW bn \in ToSet(g.nodes), bn.op = "BatchNormalization", Exclusive(g, bn),
         Determined(fold_bn(g, bn)), NEW x, RunsOn(g, x)
  PROVE  Meaning(fold_bn(g, bn), x) = Meaning(g, x)
<1> DEFINE add == Producer(g, bn.ins[1])
           products == Pick(add.ins, LAMBDA t : Producer(g, t).op = "MatMul")
           biases == Pick(add.ins, LAMBDA t : Producer(g, t).op # "MatMul" /\ IsConstant(g, t))
           mm == Producer(g, Last(products))
           b == Last(biases)
           h == Invalidate(Bypass(ScaledInto(g, bn, mm.ins[2], b), bn))
<1>1. fold_bn(g, bn) = IF add.op # "Add" \/ products = <<>> \/ biases = <<>> THEN Touch(g) ELSE h
  BY DEF fold_bn
<1>2. CASE add.op # "Add" \/ products = <<>> \/ biases = <<>>
  <2>1. fold_bn(g, bn) = Touch(g)
    BY <1>1, <1>2
  <2>2. Determined(Touch(g))
    BY <2>1
  <2>3. Meaning(Touch(g), x) = Meaning(g, x)
    BY <2>2, TouchMeans
  <2> QED BY <2>1, <2>3
<1>3. CASE add.op = "Add" /\ products # <<>> /\ biases # <<>>
  <2>1. Beneath(g, bn, add, mm, b)
    <3> HIDE DEF add
    <3>1. add = Producer(g, bn.ins[1])
      BY DEF add
    <3> QED BY <1>3, <3>1, SumBeneath
  <2>2. Len(bn.ins) = 4 /\ \A k \in 2 .. 4 : IsConstant(g, bn.ins[k])
    BY DEF Exclusive
  <2>3. fold_bn(g, bn) = h /\ Determined(h)
    BY <1>1, <1>3
  <2>h. h = Invalidate(Bypass(ScaledInto(g, bn, mm.ins[2], b), bn))
    OBVIOUS
  <2> HIDE DEF add, mm, b, h
  <2> DEFINE E == {bn.out}
             C == {mm.ins[2], b, mm.out, add.out}
             chain == {Reread(mm, E, add.out), Reread(add, E, add.out)}
  <2>4. /\ C \subseteq Observed(g) /\ bn.out \notin C /\ mm.ins[1] \notin C
        /\ ToSet(mm.ins) = {mm.ins[1], mm.ins[2]} /\ mm.ins[2] # b /\ bn.out # mm.ins[1]
        /\ \A t \in ToSet(g.outputs) : t \notin C
        /\ \A z \in ToSet(g.nodes) : z \notin {mm, add, bn} =>
             z.out \notin C /\ \A t \in ToSet(z.ins) : t \notin C
    <3>1. Apart(g, bn, add, mm, b, C)
      BY <2>1, <2>2, BeneathApart
    <3> QED BY <3>1 DEF Apart
  <2>5. /\ add \in ToSet(g.nodes) /\ add.out = bn.ins[1] /\ mm \in ToSet(g.nodes)
        /\ ToSet(add.ins) = {mm.out, b}
    BY <2>1 DEF Beneath
  <2>6. Whole(g)
    BY DEF Determined, Formed, Arranged, Sound
  <2>7. mm.ins[2] \in DOMAIN g.tensors /\ b \in DOMAIN g.tensors
    BY <2>4, ObservedTensors
  <2>8. Folded(g, bn, mm.ins[2], b, h)
    BY <2>4, <2>6, <2>7, <2>h, FoldedLeaves
  <2>9. Same(Reread(mm, E, add.out), mm) /\ Same(Reread(add, E, add.out), add)
    <3>1. mm.ins \in Seq(DOMAIN g.tensors) /\ add.ins \in Seq(DOMAIN g.tensors)
      BY <2>5 DEF Determined, Formed, Arranged
    <3>2. \A t \in ToSet(mm.ins) \cup ToSet(add.ins) : t \notin E
      BY <2>4, <2>5
    <3> HIDE DEF E
    <3> QED BY <3>1, <3>2, Unredirected
  <2>10. /\ h.inputs = g.inputs /\ h.outputs = Redirected(g.outputs, E, add.out)
         /\ \A t \in DOMAIN h.tensors : t \notin C => t \in DOMAIN g.tensors /\ h.tensors[t] = g.tensors[t]
         /\ \A y \in ToSet(h.nodes) : \E z \in ToSet(g.nodes) :
              z.name # bn.name /\ y = Reread(z, E, add.out)
    BY <2>5, <2>8 DEF Folded
  <2>11. Carried(g, h, x, bn, add.out, C, chain)
    <3>1. \A y \in chain : Same(y, mm) \/ Same(y, add)
      BY <2>9
    <3> HIDE DEF chain
    <3> QED BY <2>1, <2>2, <2>3, <2>8, <3>1, SumCarries DEF Carried
  <2>12. ASSUME NEW y \in ToSet(h.nodes), y \notin chain
         PROVE  \E z \in ToSet(g.nodes) : /\ y = Reread(z, E, add.out) /\ z.out \notin C
                                          /\ \A t \in ToSet(z.ins) : t \notin C
    <3>1. PICK z \in ToSet(g.nodes) : z.name # bn.name /\ y = Reread(z, E, add.out)
      BY <2>10
    <3>2. z \notin {mm, add, bn}
      BY <2>12, <3>1
    <3> QED BY <2>4, <3>1, <3>2
  <2>13. \A z \in chain : \A t \in ToSet(z.ins) : t \in C \/ t \in Observed(g)
    BY <2>5, <2>9, ObservedTensors DEF Same
  <2>14. add.out \in C /\ add.out \in Observed(g)
    BY <2>4
  <2> HIDE DEF C, chain
  <2>15. \A y \in ToSet(h.nodes) : y \in chain \/ \E z \in ToSet(g.nodes) :
           /\ y = Reread(z, {bn.out}, add.out) /\ z.out \notin C /\ \A t \in ToSet(z.ins) : t \notin C
    BY <2>12
  <2>16. Detours(g, h, bn, add.out, C, chain)
    BY <2>4, <2>10, <2>13, <2>14, <2>15 DEF Detours
  <2>17. Meaning(h, x) = Meaning(g, x)
    BY <2>3, <2>11, <2>16, BypassMeans
  <2> QED BY <2>3, <2>17
<1> QED BY <1>2, <1>3

(* A convolution with a kernel of its own, there for a normalization alone, *)
Kernel(g, bn, conv) ==
  /\ conv \in ToSet(g.nodes) /\ conv.op = "Conv" /\ conv.out = bn.ins[1]
  /\ ReadOnlyBy(g, conv.out, bn) /\ ReadOnlyBy(g, conv.ins[2], conv)
  /\ IsConstant(g, conv.ins[2]) /\ conv.ins[1] # conv.ins[2]
  /\ Len(conv.ins) \in {2, 3}

(* and the bias that it has or is given. *)
Biased(g, conv, b) ==
  \/ Len(conv.ins) = 2 /\ b \notin DOMAIN g.tensors
  \/ /\ Len(conv.ins) = 3 /\ b = conv.ins[3] /\ b \notin {conv.ins[1], conv.ins[2]}
     /\ ReadOnlyBy(g, b, conv) /\ IsConstant(g, b)

Alone(g, bn, conv, b, C) ==
  /\ conv.ins[1] \in Observed(g) /\ conv.ins[2] \in Observed(g) /\ conv.out \in Observed(g)
  /\ bn.out \notin C /\ conv.ins[1] \notin C /\ bn.out # conv.ins[1]
  /\ conv.ins[2] # b /\ conv.ins[2] # conv.out /\ b # conv.out
  /\ ToSet(conv.ins) \subseteq {conv.ins[1], conv.ins[2], b}
  /\ \A t \in ToSet(g.outputs) : t \notin C
  /\ \A z \in ToSet(g.nodes) : z \notin {conv, bn} =>
       z.out \notin C /\ \A t \in ToSet(z.ins) : t \notin C

LEMMA KernelAlone ==
  ASSUME NEW g, Determined(g), NEW bn \in ToSet(g.nodes), bn.op = "BatchNormalization",
         Len(bn.ins) = 4, NEW conv, Kernel(g, bn, conv), NEW b, Biased(g, conv, b)
  PROVE  Alone(g, bn, conv, b, {conv.ins[2], b, conv.out})
<1> DEFINE w == conv.ins[2]
           a == conv.ins[1]
           C == {w, b, conv.out}
<1>1. /\ conv \in ToSet(g.nodes) /\ conv.op = "Conv" /\ conv.out = bn.ins[1]
      /\ ReadOnlyBy(g, conv.out, bn) /\ ReadOnlyBy(g, w, conv)
      /\ IsConstant(g, w) /\ a # w /\ Len(conv.ins) \in {2, 3}
  BY DEF Kernel
<1>2. Formed(g) /\ \A z \in ToSet(g.nodes) : ~IsConstant(g, z.out) /\ z.out \in DOMAIN g.tensors
  BY DEF Determined, Given, Formed
<1>3. /\ \A t \in Observed(g) : t \in DOMAIN g.tensors
      /\ \A z \in ToSet(g.nodes) : \A t \in ToSet(z.ins) : t \in Observed(g)
  BY ObservedTensors
<1>4. conv.ins \in Seq(DOMAIN g.tensors) /\ bn.ins \in Seq(DOMAIN g.tensors)
  BY <1>1, <1>2 DEF Formed, Arranged
<1>5. DOMAIN conv.ins = 1 .. Len(conv.ins) /\ DOMAIN bn.ins = 1 .. 4
  BY <1>4, LenProperties
<1>6. bn.ins[1] \in ToSet(bn.ins) /\ a \in ToSet(conv.ins) /\ w \in ToSet(conv.ins)
  BY <1>1, <1>5 DEF ToSet
<1>7. a \in Observed(g) /\ w \in Observed(g) /\ conv.out \in Observed(g)
  BY <1>1, <1>3, <1>6
<1>8. ToSet(conv.ins) \subseteq {a, w, b}
  <2>1. CASE Len(conv.ins) = 2
    <3>1. ToSet(conv.ins) = {conv.ins[i] : i \in 1 .. 2}
      BY <1>5, <2>1 DEF ToSet
    <3> QED BY <3>1
  <2>2. CASE Len(conv.ins) = 3
    <3>1. ToSet(conv.ins) = {conv.ins[i] : i \in 1 .. 3} /\ b = conv.ins[3]
      BY <1>5, <2>2 DEF ToSet, Biased
    <3> QED BY <3>1
  <2> QED BY <1>1, <2>1, <2>2
<1>9. /\ \A z \in ToSet(g.nodes) : conv.out \in ToSet(z.ins) => z = bn
      /\ \A z \in ToSet(g.nodes) : w \in ToSet(z.ins) => z = conv
      /\ \A t \in ToSet(g.outputs) : t \notin {conv.out, w}
  BY <1>1 DEF ReadOnlyBy
<1>10. /\ \A z \in ToSet(g.nodes) : b \in ToSet(z.ins) => z = conv
       /\ \A z \in ToSet(g.nodes) : z.out # b
       /\ \A t \in ToSet(g.outputs) : t # b
       /\ b # a /\ b # w
  <2>1. CASE Len(conv.ins) = 2 /\ b \notin DOMAIN g.tensors
    <3>1. \A t \in ToSet(g.outputs) : t \in Observed(g)
      BY DEF Observed
    <3> QED BY <1>2, <1>3, <1>7, <2>1, <3>1
  <2>2. CASE /\ Len(conv.ins) = 3 /\ b = conv.ins[3] /\ b \notin {a, w}
             /\ ReadOnlyBy(g, b, conv) /\ IsConstant(g, b)
    BY <1>2, <2>2 DEF ReadOnlyBy
  <2> QED BY <2>1, <2>2 DEF Biased
<1>11. conv # bn
  BY <1>1
<1>12. w # conv.out /\ b # conv.out /\ bn.out # w /\ bn.out # b
  BY <1>1, <1>2, <1>10
<1>13. a # conv.out
  BY <1>1, <1>6, <1>9, <1>11
<1>14. \A z \in ToSet(g.nodes) : z.out = conv.out => z = conv
  BY <1>1, <1>7, ObservedTensors
<1>15. bn.out # conv.out
  BY <1>11, <1>14
<1>16. bn.out # a
  <2> SUFFICES ASSUME bn.out = a PROVE FALSE
    OBVIOUS
  <2>1. PICK rank \in [ToSet(g.nodes) -> Nat] :
          \A p, y \in ToSet(g.nodes) : p.out \in ToSet(y.ins) => rank[p] < rank[y]
    BY <1>2, Ranked
  <2>2. rank[bn] < rank[conv] /\ rank[conv] < rank[bn]
    BY <1>1, <1>6, <2>1
  <2>3. rank[bn] \in Nat /\ rank[conv] \in Nat
    BY <1>1, <2>1
  <2> QED BY <2>2, <2>3
<1>17. ASSUME NEW z \in ToSet(g.nodes), z \notin {conv, bn}
       PROVE  z.out \notin C /\ \A t \in ToSet(z.ins) : t \notin C
  BY <1>1, <1>2, <1>9, <1>10, <1>14, <1>17
<1> QED BY <1>1, <1>7, <1>8, <1>9, <1>10, <1>12, <1>13, <1>15, <1>16, <1>17 DEF Alone

(* What a solution gives to what it makes, of a bias b that may be zero. *)
LEMMA KernelSolved ==
  ASSUME NEW g, Determined(g), Plain(g.nodes), NEW x, RunsOn(g, x), NEW V, Solves(g, x, V),
         NEW bn, NEW conv, Kernel(g, bn, conv), conv.out \in Observed(g)
  PROVE  /\ Len(conv.ins) = 2 => V[conv.out] = Plus(Times(Cube(V[conv.ins[1]]), V[conv.ins[2]]), 0)
         /\ Len(conv.ins) = 3 =>
              V[conv.out] = Plus(Times(Cube(V[conv.ins[1]]), V[conv.ins[2]]), V[conv.ins[3]])
<1> DEFINE v == ValuesOf(V, conv.ins)
           s == Times(Cube(v[1]), v[2])
<1>1. conv \in ToSet(g.nodes) /\ conv.op = "Conv" /\ Len(conv.ins) \in {2, 3}
  BY DEF Kernel
<1>2. conv.ins \in Seq(DOMAIN g.tensors)
  BY <1>1 DEF Determined, Formed, Arranged
<1>3. DOMAIN conv.ins = 1 .. Len(conv.ins) /\ Len(v) = Len(conv.ins)
  BY <1>2, ValuesLength, LenProperties
<1>4. v[1] = V[conv.ins[1]] /\ v[2] = V[conv.ins[2]] /\ (Len(conv.ins) = 3 => v[3] = V[conv.ins[3]])
  BY <1>1, <1>3, ValueAt
<1>5. V[conv.out] = op_conv(v)
  BY <1>1, Solved, ConvExecutes
<1>6. v[1] \in Int /\ v[2] \in Int
  <2>1. conv.ins[1] \in ToSet(conv.ins) /\ conv.ins[2] \in ToSet(conv.ins)
    BY <1>1, <1>3 DEF ToSet
  <2>2. conv.ins[1] \in Observed(g) /\ conv.ins[2] \in Observed(g)
    BY <1>1, <2>1, ObservedTensors
  <2>3. V[conv.ins[1]] \in Int /\ V[conv.ins[2]] \in Int
    BY <2>2, SolutionIsNumeric DEF RunsOn
  <2> QED BY <1>4, <2>3
<1>7. Len(v) = 2 => V[conv.out] = s
  BY <1>5 DEF op_conv, WithBias
<1>8. Len(v) = 3 => V[conv.out] = Plus(s, v[3])
  BY <1>5 DEF op_conv, WithBias
<1>9. Plus(s, 0) = s
  <2>1. Times(v[1], v[1]) \in Int
    BY <1>6, Commute
  <2>2. Cube(v[1]) \in Int
    BY <1>6, <2>1, Commute DEF Cube
  <2> DEFINE c == Cube(v[1]) * v[2]
  <2>3. c \in Int /\ s = F(c)
    BY <1>6, <2>2 DEF Times
  <2> HIDE DEF c, s
  <2>4. F(F(c) + 0) = F(c + 0) /\ c + 0 = c
    BY <2>3, Inside
  <2> QED BY <2>3, <2>4 DEF Plus
<1> HIDE DEF v
<1> QED BY <1>3, <1>4, <1>7, <1>8, <1>9

(* The same graph, but for the bias. *)
Rebased(g, g0, b) ==
  /\ g0.inputs = g.inputs /\ g0.outputs = g.outputs
  /\ DOMAIN g0.tensors = DOMAIN g.tensors \cup {b}
  /\ \A t \in DOMAIN g.tensors : g0.tensors[t] = g.tensors[t]
  /\ IsConstant(g0, b) /\ g0.tensors[b].raw \in Int

(* The convolution as it reads the bias. *)
Rebiased(y, conv, b) ==
  /\ y.op = "Conv" /\ y.out = conv.out /\ y.attrs = conv.attrs
  /\ DOMAIN y.ins = 1 .. 3 /\ Len(y.ins) = 3
  /\ y.ins[1] = conv.ins[1] /\ y.ins[2] = conv.ins[2] /\ y.ins[3] = b

LEMMA KernelCarries ==
  ASSUME NEW g, Determined(g), Plain(g.nodes), NEW x, RunsOn(g, x),
         NEW bn \in ToSet(g.nodes), bn.op = "BatchNormalization",
         Len(bn.ins) = 4, \A k \in 2 .. 4 : IsConstant(g, bn.ins[k]),
         NEW conv, Kernel(g, bn, conv), NEW b, Biased(g, conv, b),
         NEW g0, Rebased(g, g0, b), NEW h, Determined(h), Folded(g0, bn, conv.ins[2], b, h),
         NEW V, Solves(g, x, V),
         V[conv.out] = Plus(Times(Cube(V[conv.ins[1]]), V[conv.ins[2]]), g0.tensors[b].raw),
         NEW chain, \A y \in chain : Rebiased(y, conv, b)
  PROVE  \E W : Carries(g, h, x, bn, conv.out, {conv.ins[2], b, conv.out}, chain, V, W)
<1> DEFINE w == conv.ins[2]
           a == conv.ins[1]
           C == {w, b, conv.out}
           p2 == g.tensors[bn.ins[2]].raw
           p3 == g.tensors[bn.ins[3]].raw
           p4 == g.tensors[bn.ins[4]].raw
           old == g0.tensors[b].raw
           weight == Times(V[w], p2)
           bias == Plus(Times(p2, Plus(old, -p4)), p3)
           cube == Cube(V[a])
           sum == Plus(Times(cube, weight), bias)
           W == [t \in Observed(g) \cup {b} |-> IF t = w THEN weight ELSE IF t = b THEN bias
                                                ELSE IF t = conv.out THEN sum ELSE V[t]]
<1>1. conv \in ToSet(g.nodes) /\ conv.op = "Conv" /\ conv.out = bn.ins[1] /\ IsConstant(g, w)
  BY DEF Kernel
<1>2. /\ a \in Observed(g) /\ w \in Observed(g) /\ conv.out \in Observed(g) /\ a \notin C
      /\ w # b /\ w # conv.out /\ b # conv.out
  BY KernelAlone DEF Alone
<1>3. /\ \A k \in 1 .. 4 : bn.ins[k] \in Observed(g)
      /\ p2 \in Int /\ p3 \in Int /\ p4 \in Int
      /\ bn.out \in Observed(g) => V[bn.out] = Plus(Times(Plus(V[conv.out], -p4), p2), p3)
  BY <1>1, NormSolved
<1>4. \A t \in Observed(g) : V[t] \in Int /\ t \in DOMAIN g.tensors
  BY SolutionIsNumeric, ObservedTensors DEF RunsOn
<1>5. V[w] \in Int /\ V[a] \in Int /\ old \in Int
  BY <1>2, <1>4 DEF Rebased
<1>6. V[w] = g.tensors[w].raw
  BY <1>1, <1>2, ConstantSolved
<1>7. /\ g0.tensors[w] = g.tensors[w] /\ g0.inputs = g.inputs
      /\ g0.tensors[bn.ins[2]].raw = p2 /\ g0.tensors[bn.ins[3]].raw = p3
      /\ g0.tensors[bn.ins[4]].raw = p4
  BY <1>2, <1>3, <1>4 DEF Rebased
<1> HIDE DEF p2, p3, p4, old
<1>8. cube \in Int
  <2>1. Times(V[a], V[a]) \in Int
    BY <1>5, Commute
  <2> QED BY <1>5, <2>1, Commute DEF Cube
<1>9. V[conv.out] = Plus(Times(cube, V[w]), old)
  BY DEF old
<1> HIDE DEF cube
<1>10. bn.out \in Observed(g) => sum = V[bn.out]
  <2> DEFINE vw == V[w]
  <2>1. vw \in Int
    BY <1>5
  <2> HIDE DEF vw
  <2>2. Plus(Times(cube, Times(vw, p2)), Plus(Times(p2, Plus(old, -p4)), p3))
          = Plus(Times(Plus(Plus(Times(cube, vw), old), -p4), p2), p3)
    BY <1>3, <1>5, <1>8, <2>1, FoldedSum
  <2> QED BY <1>3, <1>9, <2>2 DEF vw
<1> HIDE DEF weight, bias
<1>11. W[w] = weight /\ W[b] = bias /\ W[conv.out] = sum /\ W[a] = V[a]
  BY <1>2
<1>12. \A t \in Observed(g) : t \notin C => W[t] = V[t]
  OBVIOUS
<1>13. W[conv.out] = Plus(Times(Cube(W[a]), W[w]), W[b])
  BY <1>11 DEF cube
<1> HIDE DEF W, sum
<1>14. ASSUME NEW t \in Observed(h), t \in C, Given(h, t) PROVE W[t] = Loaded(h, x)[t]
  <2>1. /\ h.inputs = g0.inputs
        /\ \A u \in DOMAIN h.tensors :
             /\ u \in DOMAIN g0.tensors /\ h.tensors[u].dtype = g0.tensors[u].dtype
             /\ u = w => h.tensors[u].raw = Times(g0.tensors[w].raw, g0.tensors[bn.ins[2]].raw)
             /\ u = b => h.tensors[u].raw = Plus(Times(g0.tensors[bn.ins[2]].raw,
                                                       Plus(g0.tensors[b].raw, -g0.tensors[bn.ins[4]].raw)),
                                                 g0.tensors[bn.ins[3]].raw)
    BY DEF Folded
  <2>2. t \in DOMAIN h.tensors
    BY ObservedTensors
  <2>3. IsConstant(h, t) <=> IsConstant(g0, t)
    BY <2>1, <2>2 DEF IsConstant
  <2>4. t # conv.out
    <3>1. ~Given(g, conv.out)
      BY <1>1 DEF Determined
    <3>2. g0.tensors[conv.out] = g.tensors[conv.out]
      BY <1>2, <1>4 DEF Rebased
    <3> QED BY <1>7, <1>14, <2>1, <2>3, <3>1, <3>2 DEF Given, IsConstant
  <2>5. t = w \/ t = b
    BY <1>14, <2>4
  <2>6. IsConstant(h, t)
    BY <1>1, <1>7, <2>3, <2>5 DEF IsConstant, Rebased
  <2>7. Loaded(h, x)[t] = h.tensors[t].raw
    BY <2>2, <2>6 DEF Loaded
  <2>8. CASE t = w
    BY <1>6, <1>7, <1>11, <2>1, <2>2, <2>7, <2>8 DEF weight
  <2>9. CASE t = b
    BY <1>7, <1>11, <2>1, <2>2, <2>7, <2>9 DEF bias, old
  <2> QED BY <2>5, <2>8, <2>9
<1>15. ASSUME NEW y \in chain PROVE W[y.out] = Means(y, W)
  <2> DEFINE v == ValuesOf(W, y.ins)
  <2>1. /\ y.op = "Conv" /\ y.out = conv.out /\ y.attrs = conv.attrs
        /\ DOMAIN y.ins = 1 .. 3 /\ Len(y.ins) = 3
        /\ y.ins[1] = a /\ y.ins[2] = w /\ y.ins[3] = b
    BY DEF Rebiased
  <2>2. v[1] = W[a] /\ v[2] = W[w] /\ v[3] = W[b]
    BY <2>1, ValueAt
  <2>3. Len(v) = 3
    <3>1. v = [j \in 1 .. 3 |-> v[j]]
      BY <2>1 DEF ValuesOf
    <3> HIDE DEF v
    <3> QED BY <3>1, MadeSeq
  <2>4. ~IsQuantized(y)
    BY <1>1, <2>1, PlainAgrees DEF IsQuantized
  <2>5. Means(y, W) = op_conv(v)
    BY <2>1, <2>4, PlainMeans, ConvExecutes
  <2> HIDE DEF v
  <2>6. op_conv(v) = Plus(Times(Cube(W[a]), W[w]), W[b])
    BY <2>2, <2>3 DEF op_conv, WithBias
  <2> QED BY <1>13, <2>1, <2>5, <2>6
<1>16. bn.out \in Observed(g) => W[conv.out] = V[bn.out]
  BY <1>10, <1>11
<1>17. Carries(g, h, x, bn, conv.out, C, chain, V, W)
  BY <1>12, <1>14, <1>15, <1>16 DEF Carries
<1> QED BY <1>17

LEMMA AppendedOperand ==
  ASSUME NEW T, NEW ins \in Seq(T), NEW u
  PROVE  Len(ins) = 2 => /\ DOMAIN Append(ins, u) = 1 .. 3 /\ Len(Append(ins, u)) = 3
                         /\ Append(ins, u)[1] = ins[1] /\ Append(ins, u)[2] = ins[2]
                         /\ Append(ins, u)[3] = u
<1> DEFINE S == T \cup {u}
<1>1. ins \in Seq(S) /\ u \in S
  BY SeqMonotonic
<1> HIDE DEF S
<1>2. Append(ins, u) = Extended(ins, u)
  BY <1>1, AppendIsConcat DEF Extended
<1>3. /\ Extended(ins, u) \in Seq(S)
      /\ Len(ins) = 2 => /\ Len(Extended(ins, u)) = 3 /\ Extended(ins, u)[3] = u
                         /\ Extended(ins, u)[1] = ins[1] /\ Extended(ins, u)[2] = ins[2]
  BY <1>1, OneMore
<1> DEFINE more == Extended(ins, u)
<1> HIDE DEF more
<1>4. more \in Seq(S) => DOMAIN more = 1 .. Len(more)
  BY LenProperties
<1> QED BY <1>2, <1>3, <1>4 DEF more

(* What is left when it is given a zero bias. *)
ZeroBiased(g, conv, b, g0) ==
  /\ Rebased(g, g0, b) /\ Whole(g0) /\ Tensored(g0) /\ g0.tensors[b].raw = 0
  /\ Rebiased(NodeOf(g0, conv.name), conv, b)
  /\ \A z \in ToSet(g0.nodes) : z = NodeOf(g0, conv.name) \/ (z \in ToSet(g.nodes) /\ z # conv)

LEMMA ZeroBiasLeaves ==
  ASSUME NEW g, Whole(g), Tensored(g), NEW conv \in ToSet(g.nodes), conv.op = "Conv",
         NEW T, conv.ins \in Seq(T), Len(conv.ins) = 2,
         NEW b, b = Append(conv.name, 0), b \notin DOMAIN g.tensors
  PROVE  ZeroBiased(g, conv, b, WithZeroBias(g, conv))
<1> DEFINE y == Reading(conv, Append(conv.ins, b))
           g0 == WithZeroBias(g, conv)
           nodes == [i \in DOMAIN g.nodes |->
                      IF g.nodes[i].name = conv.name
                      THEN Reading(g.nodes[i], Append(g.nodes[i].ins, b)) ELSE g.nodes[i]]
           tensors == [t \in {b} \cup DOMAIN g.tensors |->
                        IF t = b THEN [dtype |-> "fp32", raw |-> 0] ELSE g.tensors[t]]
<1>1. /\ g0.nodes = nodes /\ g0.tensors = tensors /\ g0.inputs = g.inputs /\ g0.outputs = g.outputs
  BY DEF WithZeroBias, Whole, GraphFields
<1>2. Whole(g0)
  BY ZeroBiasWhole
<1> HIDE DEF g0
<1>3. /\ DOMAIN tensors = DOMAIN g.tensors \cup {b} /\ tensors[b] = [dtype |-> "fp32", raw |-> 0]
      /\ \A t \in DOMAIN g.tensors : tensors[t] = g.tensors[t]
  OBVIOUS
<1> HIDE DEF tensors
<1>4. Rebased(g, g0, b) /\ g0.tensors[b].raw = 0
  BY <1>1, <1>3 DEF Rebased, IsConstant
<1>5. Tensored(g0)
  <2>1. DOMAIN tensors[b] = DOMAIN Activation
    BY <1>3 DEF Activation
  <2> QED BY <1>1, <1>3, <2>1 DEF Tensored
<1>6. \A i \in DOMAIN g.nodes : g.nodes[i].name = conv.name => g.nodes[i] = conv
  <2>1. PICK k \in DOMAIN g.nodes : g.nodes[k] = conv
    BY DEF ToSet
  <2> QED BY <2>1 DEF Whole, Dict
<1>7. \A i \in DOMAIN g.nodes : nodes[i] = IF g.nodes[i].name = conv.name THEN y ELSE g.nodes[i]
  BY <1>6
<1>8. DOMAIN nodes = DOMAIN g.nodes
  OBVIOUS
<1> HIDE DEF nodes
<1>9. \A z \in ToSet(g0.nodes) : z = y \/ (z \in ToSet(g.nodes) /\ z.name # conv.name)
  BY <1>1, <1>7, <1>8 DEF ToSet
<1>10. y \in ToSet(g0.nodes) /\ y.name = conv.name
  <2>1. PICK k \in DOMAIN g.nodes : g.nodes[k] = conv
    BY DEF ToSet
  <2>2. nodes[k] = y
    BY <1>7, <2>1
  <2> QED BY <1>1, <1>8, <2>2 DEF ToSet, Reading
<1>11. NodeOf(g0, conv.name) = y
  BY <1>2, <1>10, NodeUnique DEF Whole
<1>12. /\ y.op = conv.op /\ y.out = conv.out /\ y.attrs = conv.attrs /\ y.ins = Append(conv.ins, b)
  BY DEF Reading
<1>13. /\ DOMAIN Append(conv.ins, b) = 1 .. 3 /\ Len(Append(conv.ins, b)) = 3
       /\ Append(conv.ins, b)[1] = conv.ins[1] /\ Append(conv.ins, b)[2] = conv.ins[2]
       /\ Append(conv.ins, b)[3] = b
  <2> DEFINE ins == conv.ins
  <2>1. ins \in Seq(T) /\ Len(ins) = 2
    OBVIOUS
  <2> HIDE DEF ins
  <2>2. /\ DOMAIN Append(ins, b) = 1 .. 3 /\ Len(Append(ins, b)) = 3
        /\ Append(ins, b)[1] = ins[1] /\ Append(ins, b)[2] = ins[2] /\ Append(ins, b)[3] = b
    BY ONLY <2>1, AppendedOperand, Zenon
  <2> QED BY <2>2 DEF ins
<1>14. Rebiased(y, conv, b)
  BY <1>12, <1>13 DEF Rebiased
<1>15. \A z \in ToSet(g0.nodes) : z = y \/ (z \in ToSet(g.nodes) /\ z # conv)
  BY <1>9
<1>16. ZeroBiased(g, conv, b, g0)
  BY <1>2, <1>4, <1>5, <1>11, <1>14, <1>15 DEF ZeroBiased
<1> QED BY <1>16 DEF g0

LEMMA FoldsIntoKernel ==
  ASSUME NEW g, Determined(g), Plain(g.nodes),
         NEW bn \in ToSet(g.nodes), bn.op = "BatchNormalization",
         Len(bn.ins) = 4, \A k \in 2 .. 4 : IsConstant(g, bn.ins[k]),
         NEW conv, Kernel(g, bn, conv), NEW b, Biased(g, conv, b),
         NEW g0, Rebased(g, g0, b), Whole(g0), Tensored(g0),
         NEW reads, Rebiased(reads, conv, b),
         \A z \in ToSet(g0.nodes) : z = reads \/ (z \in ToSet(g.nodes) /\ z # conv),
         NEW h, h = Invalidate(Bypass(ScaledInto(g0, bn, conv.ins[2], b), bn)), Determined(h),
         NEW x, RunsOn(g, x),
         \A V : Solves(g, x, V) =>
           V[conv.out] = Plus(Times(Cube(V[conv.ins[1]]), V[conv.ins[2]]), g0.tensors[b].raw)
  PROVE  Meaning(h, x) = Meaning(g, x)
<1> DEFINE C == {conv.ins[2], b, conv.out}
           E == {bn.out}
           chain == {Reread(reads, E, conv.out)}
<1>1. Alone(g, bn, conv, b, C)
  BY KernelAlone
<1>2. conv \in ToSet(g.nodes) /\ conv.out = bn.ins[1]
  BY DEF Kernel
<1>3. /\ conv.ins[1] \in Observed(g) /\ conv.ins[2] \in Observed(g) /\ conv.out \in Observed(g)
      /\ bn.out \notin C /\ conv.ins[1] \notin C /\ bn.out # conv.ins[1] /\ conv.ins[2] # b
      /\ \A t \in ToSet(g.outputs) : t \notin C
      /\ \A z \in ToSet(g.nodes) : z \notin {conv, bn} =>
           z.out \notin C /\ \A t \in ToSet(z.ins) : t \notin C
  BY <1>1 DEF Alone
<1>4. /\ g0.inputs = g.inputs /\ g0.outputs = g.outputs
      /\ DOMAIN g0.tensors = DOMAIN g.tensors \cup {b}
      /\ \A t \in DOMAIN g.tensors : g0.tensors[t] = g.tensors[t]
  BY DEF Rebased
<1>5. conv.ins[2] \in DOMAIN g0.tensors /\ b \in DOMAIN g0.tensors
  BY <1>3, <1>4, ObservedTensors
<1>6. Folded(g0, bn, conv.ins[2], b, h)
  BY <1>3, <1>5, FoldedLeaves
<1>7. /\ h.inputs = g.inputs /\ h.outputs = Redirected(g.outputs, E, conv.out)
      /\ \A t \in DOMAIN h.tensors : t \notin C => t \in DOMAIN g.tensors /\ h.tensors[t] = g.tensors[t]
      /\ \A y \in ToSet(h.nodes) : \E z \in ToSet(g0.nodes) :
           z.name # bn.name /\ y = Reread(z, E, conv.out)
  <2>1. /\ h.inputs = g0.inputs /\ h.outputs = Redirected(g0.outputs, E, conv.out)
        /\ \A y \in ToSet(h.nodes) : \E z \in ToSet(g0.nodes) :
             z.name # bn.name /\ y = Reread(z, E, conv.out)
    BY <1>2, <1>6 DEF Folded
  <2>2. \A t \in DOMAIN h.tensors :
          t \in DOMAIN g0.tensors /\ (t \notin {conv.ins[2], b} => h.tensors[t] = g0.tensors[t])
    BY <1>6 DEF Folded
  <2>3. \A t \in DOMAIN h.tensors : t \notin C => t \in DOMAIN g.tensors /\ h.tensors[t] = g.tensors[t]
    BY <1>4, <2>2
  <2> QED BY <1>4, <2>1, <2>3
<1>8. ToSet(reads.ins) = {conv.ins[1], conv.ins[2], b}
  <2>1. /\ DOMAIN reads.ins = 1 .. 3
        /\ reads.ins[1] = conv.ins[1] /\ reads.ins[2] = conv.ins[2] /\ reads.ins[3] = b
    BY DEF Rebiased
  <2>2. ToSet(reads.ins) = {reads.ins[i] : i \in 1 .. 3}
    BY <2>1 DEF ToSet
  <2> QED BY <2>1, <2>2
<1>9. /\ DOMAIN Redirected(reads.ins, E, conv.out) = DOMAIN reads.ins
      /\ \A i \in DOMAIN reads.ins : Redirected(reads.ins, E, conv.out)[i] = reads.ins[i]
  <2>1. \A t \in ToSet(reads.ins) : t # bn.out
    BY <1>3, <1>8
  <2>2. \A i \in DOMAIN reads.ins : reads.ins[i] \notin E
    BY <2>1 DEF ToSet
  <2> QED BY <2>2 DEF Redirected
<1>10. \A y \in chain : Rebiased(y, conv, b)
  <2> DEFINE y == Reread(reads, E, conv.out)
  <2>1. /\ y.op = reads.op /\ y.out = reads.out /\ y.attrs = reads.attrs
        /\ y.ins = Redirected(reads.ins, E, conv.out)
    BY DEF Reread, Reading
  <2>2. /\ reads.op = "Conv" /\ reads.out = conv.out /\ reads.attrs = conv.attrs
        /\ DOMAIN reads.ins = 1 .. 3
        /\ reads.ins[1] = conv.ins[1] /\ reads.ins[2] = conv.ins[2] /\ reads.ins[3] = b
    BY DEF Rebiased
  <2> HIDE DEF y
  <2>3. /\ DOMAIN y.ins = 1 .. 3
        /\ y.ins[1] = conv.ins[1] /\ y.ins[2] = conv.ins[2] /\ y.ins[3] = b
    BY <1>9, <2>1, <2>2
  <2>4. Len(y.ins) = 3
    <3>1. y.ins = [i \in 1 .. 3 |-> y.ins[i]]
      BY <2>1, <2>2 DEF Redirected
    <3> QED BY <3>1, MadeSeq
  <2>5. Rebiased(y, conv, b)
    BY <2>1, <2>2, <2>3, <2>4 DEF Rebiased
  <2> QED BY <2>5 DEF y
<1>11. \A y \in chain : \A t \in ToSet(y.ins) : t \in C \/ t \in Observed(g)
  <2>1. ASSUME NEW y, Rebiased(y, conv, b), NEW t \in ToSet(y.ins) PROVE t \in C \/ t \in Observed(g)
    <3>1. DOMAIN y.ins = 1 .. 3
      BY <2>1 DEF Rebiased
    <3>2. PICK i \in 1 .. 3 : t = y.ins[i]
      BY <2>1, <3>1 DEF ToSet
    <3>3. i = 1 \/ i = 2 \/ i = 3
      OBVIOUS
    <3>4. t \in {conv.ins[1], conv.ins[2], b}
      BY <2>1, <3>2, <3>3 DEF Rebiased
    <3> QED BY <1>3, <3>4
  <2> QED BY <1>10, <2>1
<1>12. ASSUME NEW y \in ToSet(h.nodes), y \notin chain
       PROVE  \E z \in ToSet(g.nodes) : /\ y = Reread(z, E, conv.out) /\ z.out \notin C
                                        /\ \A t \in ToSet(z.ins) : t \notin C
  <2>1. PICK z \in ToSet(g0.nodes) : z.name # bn.name /\ y = Reread(z, E, conv.out)
    BY <1>7
  <2>2. z # reads
    BY <1>12, <2>1
  <2>3. z \in ToSet(g.nodes) /\ z \notin {conv, bn}
    BY <2>1, <2>2
  <2> QED BY <1>3, <2>1, <2>3
<1>13. Carried(g, h, x, bn, conv.out, C, chain)
  <2> HIDE DEF chain
  <2>1. ASSUME NEW V, Solves(g, x, V)
        PROVE  \E W : Carries(g, h, x, bn, conv.out, C, chain, V, W)
    BY <1>6, <1>10, <2>1, KernelCarries
  <2> QED BY <2>1 DEF Carried
<1> HIDE DEF chain
<1>14. conv.out \in C
  OBVIOUS
<1>15. Detours(g, h, bn, conv.out, C, chain)
  <2> HIDE DEF C
  <2>1. \A y \in ToSet(h.nodes) : y \in chain \/ \E z \in ToSet(g.nodes) :
          /\ y = Reread(z, {bn.out}, conv.out) /\ z.out \notin C /\ \A t \in ToSet(z.ins) : t \notin C
    BY <1>12
  <2> QED BY <1>3, <1>7, <1>11, <1>14, <2>1 DEF Detours
<1> HIDE DEF C
<1> QED BY <1>13, <1>15, BypassMeans

LEMMA ConvFoldMeans ==
  ASSUME NEW g, Determined(g), Plain(g.nodes), Tensored(g),
         NEW bn \in ToSet(g.nodes), bn.op = "BatchNormalization", Exclusive(g, bn),
         Determined(fold_conv_bn(g, bn)), NEW x, RunsOn(g, x)
  PROVE  Meaning(fold_conv_bn(g, bn), x) = Meaning(g, x)
<1> DEFINE conv == Producer(g, bn.ins[1])
           g0 == WithZeroBias(g, conv)
           reads == NodeOf(g0, conv.name)
           h == Invalidate(Bypass(ScaledInto(g0, bn, conv.ins[2], reads.ins[3]), bn))
<1>1. fold_conv_bn(g, bn) = IF conv.op # "Conv" THEN Touch(g) ELSE h
  BY DEF fold_conv_bn
<1>2. CASE conv.op # "Conv"
  <2>1. fold_conv_bn(g, bn) = Touch(g)
    BY <1>1, <1>2
  <2>2. Determined(Touch(g))
    BY <2>1
  <2>3. Meaning(Touch(g), x) = Meaning(g, x)
    BY <2>2, TouchMeans
  <2> QED BY <2>1, <2>3
<1>3. CASE conv.op = "Conv"
  <2>1. fold_conv_bn(g, bn) = h /\ Determined(h)
    BY <1>1, <1>3
  <2>2. Sound(g) /\ Whole(g)
    BY DEF Determined, Formed, Arranged, Sound
  <2>p. conv = Producer(g, bn.ins[1]) /\ g0 = WithZeroBias(g, conv) /\ reads = NodeOf(g0, conv.name)
    OBVIOUS
  <2>h. h = Invalidate(Bypass(ScaledInto(g0, bn, conv.ins[2], reads.ins[3]), bn))
    OBVIOUS
  <2> HIDE DEF h, reads, g0, conv
  <2>3. conv # NoNode
    BY <1>3, NoNodeOp
  <2>4. conv \in ToSet(g.nodes) /\ conv.out = bn.ins[1]
    BY <2>2, <2>3, <2>p, ProducerMakes
  <2>5. /\ Len(bn.ins) = 4 /\ \A k \in 2 .. 4 : IsConstant(g, bn.ins[k])
        /\ ReadOnlyBy(g, conv.out, bn) /\ ReadOnlyBy(g, conv.ins[2], conv)
        /\ IsConstant(g, conv.ins[2]) /\ conv.ins[1] # conv.ins[2]
        /\ Len(conv.ins) = 2 => Append(conv.name, 0) \notin DOMAIN g.tensors
        /\ Len(conv.ins) # 2 => /\ Len(conv.ins) = 3 /\ conv.ins[3] \notin {conv.ins[1], conv.ins[2]}
                                /\ ReadOnlyBy(g, conv.ins[3], conv) /\ IsConstant(g, conv.ins[3])
    BY <1>3, <2>3, <2>p DEF Exclusive
  <2>6. Kernel(g, bn, conv)
    BY <1>3, <2>4, <2>5 DEF Kernel
  <2>7. conv.ins \in Seq(DOMAIN g.tensors)
    BY <2>4 DEF Determined, Formed, Arranged
  <2>8. conv.out \in Observed(g)
    <3>1. bn.ins \in Seq(DOMAIN g.tensors)
      BY DEF Determined, Formed, Arranged
    <3>2. DOMAIN bn.ins = 1 .. 4
      BY <2>5, <3>1, LenProperties
    <3>3. conv.out \in ToSet(bn.ins)
      BY <2>4, <3>2 DEF ToSet
    <3> QED BY <3>3, ObservedTensors
  <2>9. \A V : Solves(g, x, V) =>
          /\ Len(conv.ins) = 2 => V[conv.out] = Plus(Times(Cube(V[conv.ins[1]]), V[conv.ins[2]]), 0)
          /\ Len(conv.ins) = 3 =>
               V[conv.out] = Plus(Times(Cube(V[conv.ins[1]]), V[conv.ins[2]]), V[conv.ins[3]])
    BY <2>6, <2>8, KernelSolved
  <2>10. CASE Len(conv.ins) = 2
    <3> DEFINE b == Append(conv.name, 0)
    <3>b. b = Append(conv.name, 0)
      OBVIOUS
    <3>1. b \notin DOMAIN g.tensors
      BY <2>5, <2>10
    <3> HIDE DEF b
    <3>2. ZeroBiased(g, conv, b, g0)
      BY <1>3, <2>2, <2>4, <2>7, <2>10, <2>p, <3>b, <3>1, ZeroBiasLeaves
    <3>3. /\ Rebased(g, g0, b) /\ Whole(g0) /\ Tensored(g0) /\ g0.tensors[b].raw = 0
          /\ Rebiased(reads, conv, b)
          /\ \A z \in ToSet(g0.nodes) : z = reads \/ (z \in ToSet(g.nodes) /\ z # conv)
      BY <2>p, <3>2 DEF ZeroBiased
    <3>4. Biased(g, conv, b)
      BY <2>10, <3>1 DEF Biased
    <3>5. h = Invalidate(Bypass(ScaledInto(g0, bn, conv.ins[2], b), bn))
      BY <2>h, <3>3 DEF Rebiased
    <3>6. \A V : Solves(g, x, V) =>
            V[conv.out] = Plus(Times(Cube(V[conv.ins[1]]), V[conv.ins[2]]), g0.tensors[b].raw)
      BY <2>9, <2>10, <3>3
    <3>7. Meaning(h, x) = Meaning(g, x)
      BY <2>1, <2>5, <2>6, <3>3, <3>4, <3>5, <3>6, FoldsIntoKernel
    <3> QED BY <2>1, <3>7
  <2>11. CASE Len(conv.ins) = 3
    <3> DEFINE b == conv.ins[3]
    <3>1. g0 = g
      BY <2>p, <2>11 DEF WithZeroBias
    <3>2. reads = conv
      BY <2>2, <2>4, <2>p, <3>1, NodeUnique DEF Whole
    <3>3. Biased(g, conv, b)
      BY <2>5, <2>11 DEF Biased
    <3>4. b \in Observed(g)
      <4>1. DOMAIN conv.ins = 1 .. 3
        BY <2>7, <2>11, LenProperties
      <4>2. b \in ToSet(conv.ins)
        BY <4>1 DEF ToSet
      <4> QED BY <2>4, <4>2, ObservedTensors
    <3>5. b \in DOMAIN g.tensors /\ IsConstant(g, b)
      BY <2>5, <2>11, <3>4, ObservedTensors
    <3>6. \A V : Solves(g, x, V) => V[b] = g.tensors[b].raw /\ V[b] \in Int
      BY <3>4, <3>5, ConstantSolved, SolutionIsNumeric DEF RunsOn
    <3>7. g.tensors[b].raw \in Int
      <4>1. PICK V : Solves(g, x, V)
        BY SolutionExists
      <4> QED BY <3>6, <4>1
    <3>8. Rebased(g, g0, b)
      BY <3>1, <3>5, <3>7 DEF Rebased
    <3>9. Rebiased(reads, conv, b)
      <4>1. DOMAIN conv.ins = 1 .. 3
        BY <2>7, <2>11, LenProperties
      <4> QED BY <1>3, <2>11, <3>2, <4>1 DEF Rebiased
    <3>10. \A z \in ToSet(g0.nodes) : z = reads \/ (z \in ToSet(g.nodes) /\ z # conv)
      BY <3>1, <3>2
    <3>11. h = Invalidate(Bypass(ScaledInto(g0, bn, conv.ins[2], b), bn))
      BY <2>h, <3>2
    <3>12. \A V : Solves(g, x, V) =>
             V[conv.out] = Plus(Times(Cube(V[conv.ins[1]]), V[conv.ins[2]]), g0.tensors[b].raw)
      BY <2>9, <2>11, <3>1, <3>6
    <3> HIDE DEF b
    <3>13. Meaning(h, x) = Meaning(g, x)
      BY <2>1, <2>2, <2>5, <2>6, <3>1, <3>3, <3>8, <3>9, <3>10, <3>11, <3>12, FoldsIntoKernel
    <3> QED BY <2>1, <3>13
  <2> QED BY <2>5, <2>10, <2>11
<1> QED BY <1>2, <1>3

Folds == Visit /\ pass \in {"BatchNormFolding", "ConvBatchNormFolding"}

LEMMA NormVisits ==
  ASSUME CacheInv, PlainInv, Determinate, Determinate', Fit, CanRun(graph), Folds, NEW x \in Samples
  PROVE  Meaning(graph', x) = Meaning(graph, x)
<1>1. pass \notin Quantizing /\ pass # "none"
  BY DEF Quantizing, Folds
<1>2. Untouched /\ Untouched'
  BY <1>1, VisitUntouched DEF PlainInv, Folds
<1>3. Determined(graph) /\ Determined(graph') /\ Plain(graph.nodes)
  BY <1>2 DEF Determinate, Untouched
<1>4. Complete(graph) /\ RunsOn(graph, x) /\ Regular
  BY <1>2, FitForFusion DEF Fit, WellFormed
<1>5. Tensored(graph)
  BY <1>4 DEF Regular, Tensored
<1> DEFINE node == NodeOf(graph, Head(todo))
<1>6. CASE Head(todo) \notin NodeNames(graph) \/ node.op \notin Kind[pass]
  <2>1. graph' = graph
    BY <1>6 DEF Visit, Folds
  <2> QED BY <2>1
<1>7. CASE Head(todo) \in NodeNames(graph) /\ node.op \in Kind[pass]
  <2>1. node \in ToSet(graph.nodes)
    BY <1>7, LookupFinds DEF NodeOf, NodeNames
  <2>2. graph' = Rewrite(pass, graph, node, fused, ranges)
    BY <1>7 DEF Visit, Folds
  <2>3. node.op = "BatchNormalization"
    BY <1>7 DEF Kind, Folds
  <2> HIDE DEF node
  <2>4. Exclusive(graph, node)
    BY <1>2, <2>1, <2>3 DEF Fit, WellFormed
  <2>5. CASE pass = "BatchNormFolding"
    <3>1. graph' = fold_bn(graph, node)
      BY <2>2, <2>5 DEF Rewrite
    <3>2. Meaning(fold_bn(graph, node), x) = Meaning(graph, x)
      BY <1>3, <1>4, <1>5, <2>1, <2>3, <2>4, <3>1, NormFoldMeans
    <3> QED BY <3>1, <3>2
  <2>6. CASE pass = "ConvBatchNormFolding"
    <3>1. graph' = fold_conv_bn(graph, node)
      BY <2>2, <2>6 DEF Rewrite
    <3>2. Meaning(fold_conv_bn(graph, node), x) = Meaning(graph, x)
      BY <1>3, <1>4, <1>5, <2>1, <2>3, <2>4, <3>1, ConvFoldMeans
    <3> QED BY <3>1, <3>2
  <2> QED BY <2>5, <2>6 DEF Folds
<1> QED BY <1>6, <1>7

(* A BatchNorm that is folded goes without a trace, into the layer or into the  *)
(* convolution before it: on every sample the graph computes with the scaled   *)
(* weights and the shifted bias what it computed with the BatchNorm, in the     *)
(* arithmetic of the interpreter, if every rewrite before the quantizations    *)
(* leaves a graph that is fit for the next.                                *)
THEOREM FoldingIsExact ==
  Spec /\ []Fit =>
    [][Folds /\ CanRun(graph) => \A x \in Samples : Meaning(graph', x) = Meaning(graph, x)]_vars
<1>1. Fit => Prepared
  BY DEF Fit, Prepared, WellFormed
<1>2. CacheInv /\ Prepared => Determinate
  BY AcceptedDetermines DEF Prepared, Determinate
<1>3. CacheInv /\ PlainInv /\ Determinate /\ Determinate' /\ Fit =>
        [Folds /\ CanRun(graph) => \A x \in Samples : Meaning(graph', x) = Meaning(graph, x)]_vars
  BY NormVisits
<1> QED BY <1>1, <1>2, <1>3, Formedness, PTL

-------------------------------------------------------------------------------
(* Passes that a graph need not come out of as one that the interpreter can run,  *)
(* or that quantize it, come after all others.                             *)
Late == {"AttentionFusion", "FusedMLP"} \cup Quantizing

LateLast(seq) ==
  /\ seq \in Seq(ToSet(seq))
  /\ \A i, j \in DOMAIN seq : i < j /\ seq[i] \in Late => seq[j] \in Late

LEMMA LateTail ==
  ASSUME NEW seq, LateLast(seq), seq # <<>>
  PROVE  /\ LateLast(Tail(seq)) /\ ToSet(seq) = {Head(seq)} \cup ToSet(Tail(seq))
         /\ Head(seq) \in Late => ToSet(Tail(seq)) \subseteq Late
<1>1. seq \in Seq(ToSet(seq))
  BY DEF LateLast
<1> DEFINE t == Tail(seq)
<1>2. /\ t \in Seq(ToSet(seq)) /\ ToSet(seq) = {Head(seq)} \cup ToSet(t)
      /\ 1 \in DOMAIN seq /\ seq[1] = Head(seq)
      /\ \A i \in DOMAIN t : i + 1 \in DOMAIN seq /\ i \in Nat \ {0} /\ t[i] = seq[i + 1]
  BY <1>1, TailLists
<1> HIDE DEF t
<1>3. LateLast(t)
  <2>1. ASSUME NEW i \in DOMAIN t, NEW j \in DOMAIN t, i < j, t[i] \in Late PROVE t[j] \in Late
    <3>1. /\ i + 1 \in DOMAIN seq /\ j + 1 \in DOMAIN seq /\ i + 1 < j + 1
          /\ t[i] = seq[i + 1] /\ t[j] = seq[j + 1]
      BY <1>2, <2>1
    <3> QED BY <2>1, <3>1 DEF LateLast
  <2> QED BY <1>2, <2>1, ListIsSeq DEF LateLast
<1>4. ASSUME seq[1] \in Late, NEW i \in DOMAIN t PROVE t[i] \in Late
  <2>1. i + 1 \in DOMAIN seq /\ 1 < i + 1 /\ t[i] = seq[i + 1]
    BY <1>2
  <2> QED BY <1>2, <1>4, <2>1 DEF LateLast
<1>5. Head(seq) \in Late => ToSet(t) \subseteq Late
  BY <1>2, <1>4 DEF ToSet
<1> QED BY <1>2, <1>3, <1>5 DEF t

LEMMA LateConcat ==
  ASSUME NEW s, LateLast(s), NEW r, LateLast(r), ToSet(s) \cap Late = {} \/ ToSet(r) \subseteq Late
  PROVE  LateLast(s \o r)
<1> DEFINE U == ToSet(s) \cup ToSet(r)
           c == s \o r
<1>1. /\ s \in Seq(U) /\ DOMAIN s = 1 .. Len(s) /\ Len(s) \in Nat
      /\ r \in Seq(U) /\ DOMAIN r = 1 .. Len(r) /\ Len(r) \in Nat
  BY LenProperties, SeqMonotonic DEF LateLast
<1>2. /\ c \in Seq(U) /\ DOMAIN c = 1 .. Len(s) + Len(r)
      /\ \A i \in 1 .. Len(s) + Len(r) :
           c[i] = IF i <= Len(s) THEN s[i] ELSE r[i - Len(s)]
  BY <1>1, ConcatProperties, LenProperties
<1>3. ToSet(c) = U
  BY <1>1, ConcatMembers
<1> HIDE DEF c
<1>4. \A i \in DOMAIN c :
        \/ i <= Len(s) /\ i \in DOMAIN s /\ c[i] = s[i]
        \/ i > Len(s) /\ i - Len(s) \in DOMAIN r /\ c[i] = r[i - Len(s)]
  BY <1>1, <1>2
<1>5. ASSUME NEW i \in DOMAIN c, NEW j \in DOMAIN c, i < j, c[i] \in Late
      PROVE  c[j] \in Late
  <2>1. i \in Nat /\ j \in Nat
    BY <1>1, <1>2
  <2>2. CASE j <= Len(s)
    <3>1. /\ i \in DOMAIN s /\ c[i] = s[i] /\ j \in DOMAIN s /\ c[j] = s[j]
      BY <1>1, <1>4, <1>5, <2>1, <2>2
    <3> QED BY <1>5, <3>1 DEF LateLast
  <2>3. CASE i > Len(s)
    <3>1. /\ i - Len(s) \in DOMAIN r /\ c[i] = r[i - Len(s)]
          /\ j - Len(s) \in DOMAIN r /\ c[j] = r[j - Len(s)]
          /\ i - Len(s) < j - Len(s)
      BY <1>1, <1>4, <1>5, <2>1, <2>3
    <3> QED BY <1>5, <3>1 DEF LateLast
  <2>4. CASE i <= Len(s) /\ j > Len(s)
    <3>1. c[i] \in ToSet(s) /\ c[j] \in ToSet(r)
      BY <1>1, <1>4, <2>1, <2>4 DEF ToSet
    <3> QED BY <1>5, <3>1
  <2> QED BY <1>1, <2>1, <2>2, <2>3, <2>4
<1>6. c \in Seq(ToSet(c))
  BY <1>2, <1>3
<1> QED BY <1>5, <1>6 DEF LateLast, c

(* A list in which all that follows some place is late, and nothing before it. *)
LEMMA LateFrom ==
  ASSUME NEW n \in Nat, NEW seq, seq = [i \in 1 .. n |-> seq[i]], NEW k \in Nat,
         \A i \in 1 .. n : seq[i] \in Late <=> i > k
  PROVE  LateLast(seq)
<1>1. DOMAIN seq = 1 .. n
  OBVIOUS
<1>2. \A i \in 1 .. n : seq[i] \in ToSet(seq)
  BY <1>1 DEF ToSet
<1>3. seq \in Seq(ToSet(seq))
  BY <1>2, IsASeq
<1>4. ASSUME NEW i \in 1 .. n, NEW j \in 1 .. n, i < j, seq[i] \in Late PROVE seq[j] \in Late
  BY <1>4
<1> QED BY <1>1, <1>3, <1>4 DEF LateLast

LEMMA LatePlans ==
  /\ LateLast(Structural) /\ ToSet(Structural) \cap Late = {}
  /\ LateLast(<<"DeadCodeElimination">> \o QuantPasses("transformer"))
  /\ \A a \in {"mlp", "cnn", "transformer"} : LateLast(QuantPasses(a))
<1> DEFINE linear == <<"Quantization">>
           conv   == <<"ConvQuantization">>
           dead   == <<"DeadCodeElimination">>
           blocks == <<"LayerNormFusion", "FuseSiLU", "FuseGELU", "AttentionFusion", "FusedMLP",
                       "ConvQuantization", "AttentionQuantization">>
<1>1. /\ QuantPasses("mlp") = <<>> \o linear
      /\ QuantPasses("cnn") = conv \o linear
      /\ QuantPasses("transformer") = blocks \o linear
  BY DEF QuantPasses
<1>2. LateLast(Structural) /\ ToSet(Structural) \cap Late = {}
  <2>1. Structural = [i \in 1 .. 7 |-> Structural[i]] /\ DOMAIN Structural = 1 .. 7
    BY DEF Structural
  <2>2. \A i \in 1 .. 7 : Structural[i] \notin Late
    BY DEF Structural, Late, Quantizing
  <2> HIDE DEF Structural
  <2>3. ToSet(Structural) \cap Late = {}
    BY <2>1, <2>2 DEF ToSet
  <2>4. 7 \in Nat /\ \A i \in 1 .. 7 : Structural[i] \in Late <=> i > 7
    BY <2>2
  <2> QED BY <2>1, <2>3, <2>4, LateFrom
<1>3. LateLast(linear) /\ ToSet(linear) \subseteq Late
  <2>1. linear = [i \in 1 .. 1 |-> linear[i]] /\ linear[1] \in Late /\ DOMAIN linear = 1 .. 1
    BY DEF Late, Quantizing
  <2> HIDE DEF linear
  <2>2. ToSet(linear) \subseteq Late
    BY <2>1 DEF ToSet
  <2>3. 1 \in Nat /\ 0 \in Nat /\ \A i \in 1 .. 1 : linear[i] \in Late <=> i > 0
    BY <2>1
  <2> QED BY <2>1, <2>2, <2>3, LateFrom
<1>4. LateLast(conv)
  <2>1. conv = [i \in 1 .. 1 |-> conv[i]] /\ conv[1] \in Late
    BY DEF Late, Quantizing
  <2> HIDE DEF conv
  <2>2. 1 \in Nat /\ 0 \in Nat /\ \A i \in 1 .. 1 : conv[i] \in Late <=> i > 0
    BY <2>1
  <2> QED BY <2>1, <2>2, LateFrom
<1>5. LateLast(dead) /\ ToSet(dead) \cap Late = {}
  <2>1. dead = [i \in 1 .. 1 |-> dead[i]] /\ dead[1] \notin Late /\ DOMAIN dead = 1 .. 1
    BY DEF Late, Quantizing
  <2> HIDE DEF dead
  <2>2. ToSet(dead) \cap Late = {}
    BY <2>1 DEF ToSet
  <2>3. 1 \in Nat /\ \A i \in 1 .. 1 : dead[i] \in Late <=> i > 1
    BY <2>1
  <2> QED BY <2>1, <2>2, <2>3, LateFrom
<1>6. LateLast(blocks)
  <2>1. blocks = [i \in 1 .. 7 |-> blocks[i]]
    OBVIOUS
  <2>2. \A i \in 1 .. 7 : blocks[i] \in Late <=> i > 3
    BY DEF Late, Quantizing
  <2> HIDE DEF blocks
  <2> QED BY <2>1, <2>2, LateFrom
<1>7. LateLast(QuantPasses("mlp"))
  <2>1. QuantPasses("mlp") = linear
    BY <1>1
  <2> QED BY <1>3, <2>1
<1> HIDE DEF linear, conv, dead, blocks
<1>8. LateLast(QuantPasses("cnn")) /\ LateLast(QuantPasses("transformer"))
  <2>1. LateLast(conv \o linear) /\ LateLast(blocks \o linear)
    BY <1>3, <1>4, <1>6, LateConcat
  <2> QED BY <1>1, <2>1, Zenon
<1>9. LateLast(dead \o QuantPasses("transformer"))
  <2> DEFINE q == QuantPasses("transformer")
  <2>1. LateLast(q)
    BY <1>8
  <2> HIDE DEF q
  <2>2. LateLast(dead \o q)
    BY <1>5, <2>1, LateConcat
  <2> QED BY <2>2 DEF q
<1>10. \A a \in {"mlp", "cnn", "transformer"} : LateLast(QuantPasses(a))
  BY <1>7, <1>8
<1> QED BY <1>2, <1>9, <1>10 DEF dead

PhaseInv ==
  /\ LateLast(passes)
  /\ pass \in Late => ToSet(passes) \subseteq Late
  /\ arch = "unknown" => (ToSet(passes) \cup {pass}) \cap Late = {}

LEMMA InitPhaseInv == Init => PhaseInv
<1> SUFFICES ASSUME Init PROVE PhaseInv
  OBVIOUS
<1>1. pass = "none" /\ "none" \notin Late
  BY DEF Init, Late, Quantizing
<1>2. PICK m \in Managers :
        /\ passes = (IF m = "cli" THEN Structural
                     ELSE <<"DeadCodeElimination">> \o QuantPasses(m))
        /\ arch = (IF m = "cli" THEN "unknown" ELSE m)
  BY DEF Init
<1>3. CASE m = "cli"
  <2>1. passes = Structural
    BY <1>2, <1>3
  <2> QED BY <1>1, <2>1, LatePlans DEF PhaseInv
<1>4. CASE m # "cli"
  <2>1. m = "transformer"
    BY <1>4, PipelineAssumption
  <2>2. passes = <<"DeadCodeElimination">> \o QuantPasses("transformer") /\ arch = "transformer"
    BY <1>2, <2>1
  <2>3. LateLast(passes)
    BY <2>2, LatePlans, Zenon
  <2> QED BY <1>1, <2>2, <2>3 DEF PhaseInv
<1> QED BY <1>3, <1>4

LEMMA NextPhaseInv == PhaseInv /\ [Next]_vars => PhaseInv'
<1> SUFFICES ASSUME PhaseInv, [Next]_vars PROVE PhaseInv'
  OBVIOUS
<1>1. "none" \notin Late
  BY DEF Late, Quantizing
<1>2. CASE BeginPass
  <2>1. passes # <<>> /\ pass' = Head(passes) /\ passes' = Tail(passes) /\ arch' = arch
    BY <1>2 DEF BeginPass
  <2>2. /\ LateLast(passes') /\ ToSet(passes) = {pass'} \cup ToSet(passes')
        /\ pass' \in Late => ToSet(passes') \subseteq Late
    BY <2>1, LateTail DEF PhaseInv
  <2> QED BY <2>1, <2>2 DEF PhaseInv
<1>3. CASE EndPass
  <2>1. pass' = "none" /\ passes' = passes /\ arch' = arch
    BY <1>3 DEF EndPass
  <2> QED BY <1>1, <2>1 DEF PhaseInv
<1>4. CASE Sweep
  <2>1. passes # <<>> /\ passes' = Tail(passes) /\ pass' = pass /\ arch' = arch /\ pass = "none"
    BY <1>4 DEF Sweep, Between
  <2>2. LateLast(passes') /\ ToSet(passes) = {Head(passes)} \cup ToSet(passes')
    BY <2>1, LateTail DEF PhaseInv
  <2> QED BY <1>1, <2>1, <2>2 DEF PhaseInv
<1>5. CASE Detect
  <2>1. /\ pass' = pass /\ pass = "none" /\ arch' = detect_architecture(graph)
        /\ passes' = QuantPasses(arch')
    BY <1>5 DEF Detect, Between
  <2>2. arch' \in {"mlp", "cnn", "transformer"}
    <3> DEFINE ops == {graph.nodes[i].op : i \in DOMAIN graph.nodes}
    <3>1. detect_architecture(graph) =
            CASE ops # {} /\ ops \subseteq LinearTypes -> "mlp"
              [] ops \cap {"FusedAttention", "FusedLayerNorm"} # {} -> "transformer"
              [] OTHER -> "cnn"
      BY DEF detect_architecture
    <3>2. ~(ops \subseteq LinearTypes /\ ops \cap {"FusedAttention", "FusedLayerNorm"} # {})
      BY DEF LinearTypes
    <3> HIDE DEF ops
    <3> QED BY <2>1, <3>1, <3>2
  <2>3. LateLast(QuantPasses(arch'))
    BY <2>2, LatePlans
  <2>4. arch' # "unknown"
    BY <2>2
  <2> QED BY <1>1, <2>1, <2>3, <2>4 DEF PhaseInv
<1>6. CASE UNCHANGED <<passes, pass, arch>>
  BY <1>6 DEF PhaseInv
<1>7. Unsupported \/ Visit \/ FoldConstant \/ Finish \/ Stopped \/ UNCHANGED vars
        => UNCHANGED <<passes, pass, arch>>
  BY DEF Unsupported, Visit, FoldConstant, Finish, Stopped, vars
<1> QED BY <1>2, <1>3, <1>4, <1>5, <1>6, <1>7 DEF Next

(* While such passes are to come, or the architecture is yet unknown, the graph   *)
(* can be run.                                                             *)
Ahead == arch = "unknown" \/ ~(ToSet(passes) \cup {pass} \subseteq Late \cup {"none"})

MeansSource == \A x \in Samples : Meaning(graph, x) = Meaning(source, x)

MeantInv ==
  /\ Ahead => CanRun(graph)
  /\ Untouched /\ CanRun(graph) => MeansSource

(* Steps that drop the maps of a graph, or build them, or do not touch it. *)
LEMMA CachedMeant ==
  ASSUME MeantInv, Determinate, Determinate', Ahead' => Ahead, source' = source,
         graph'.nodes = graph.nodes, graph'.tensors = graph.tensors,
         graph'.inputs = graph.inputs, graph'.outputs = graph.outputs
  PROVE  MeantInv'
<1>1. CanRun(graph') = CanRun(graph)
  BY DEF CanRun
<1>2. Untouched' = Untouched
  BY DEF Untouched
<1>3. ASSUME Untouched', CanRun(graph'), NEW x \in Samples PROVE Meaning(graph', x) = Meaning(source', x)
  <2>1. Determined(graph) /\ Determined(graph')
    BY <1>2, <1>3 DEF Determinate
  <2>2. Meaning(graph', x) = Meaning(graph, x)
    BY <2>1, SameMeans
  <2> QED BY <1>1, <1>2, <1>3, <2>2 DEF MeantInv, MeansSource
<1> QED BY <1>1, <1>3 DEF MeantInv, MeansSource

(* Steps that keep what can be run and what it means. *)
LEMMA ExactMeant ==
  ASSUME MeantInv, Untouched, CanRun(graph), CanRun(graph'), source' = source,
         \A x \in Samples : Meaning(graph', x) = Meaning(graph, x)
  PROVE  MeantInv'
BY DEF MeantInv, MeansSource

LEMMA SweepMeant ==
  ASSUME CacheInv, StageInv, PlainInv, PhaseInv, MeantInv, Determinate, Determinate', Fit,
         FoldConstant \/ Sweep
  PROVE  MeantInv'
<1>1. /\ passes # <<>> /\ source' = source
      /\ Head(passes) \in {"ConstantFolding", "DeadCodeElimination", "OperatorFusion"}
  BY DEF FoldConstant, Sweep
<1>2. Head(passes) \in ToSet(passes)
  BY <1>1, LateTail DEF PhaseInv
<1>3. Untouched /\ CanRun(graph)
  <2>1. Head(passes) \notin Quantizing \cup {"none"} /\ Head(passes) \notin Late \cup {"none"}
    BY <1>1 DEF Quantizing, Late
  <2> QED BY <1>2, <2>1 DEF PlainInv, Ahead, MeantInv
<1>4. Whole(graph)
  BY DEF CacheInv, Sound
<1>5. CanRun(graph')
  <2>1. Bare(graph.nodes, Executable) /\ FusedOps \subseteq Executable
    BY <1>3, RunsBare, FusedOpsRun DEF Untouched
  <2>2. /\ Invalidate(graph).nodes = graph.nodes
        /\ Bare(Invalidate(eliminate_dead_code(graph)).nodes, Executable)
        /\ Bare(fuse_operators(graph).nodes, Executable)
        /\ \A n : Bare(fold_constant(graph, n).nodes, Executable)
    BY <1>4, <2>1, BareSweeps, InvalidateSound
  <2>3. \/ graph' \in {Invalidate(graph), Invalidate(eliminate_dead_code(graph)),
                       fuse_operators(graph)}
        \/ \E n : graph' = fold_constant(graph, n)
    BY DEF FoldConstant, Sweep
  <2>4. Bare(graph'.nodes, Executable)
    BY <2>1, <2>2, <2>3
  <2>5. Plain(graph'.nodes)
    BY <2>4 DEF Plain, Bare
  <2> QED BY <2>4, <2>5, RunsBare
<1>6. ASSUME NEW x \in Samples PROVE Meaning(graph', x) = Meaning(graph, x)
  <2>1. CASE Eliminates
    BY <2>1, EliminationSteps
  <2>2. CASE Sweep /\ Head(passes) = "OperatorFusion"
    BY <1>3, <2>2, FusionSweeps
  <2> QED BY <1>1, <2>1, <2>2 DEF Eliminates
<1> QED BY <1>1, <1>3, <1>5, <1>6, ExactMeant

(* The visits of early passes, *)
LEMMA EarlyMeant ==
  ASSUME CacheInv, StageInv, PlainInv, PhaseInv, MeantInv, Determinate, Determinate', Fit,
         Visit, pass \notin Late
  PROVE  MeantInv'
<1>1. pass \in DOMAIN Kind \ Late /\ pass # "none" /\ source' = source
  BY DEF Visit, CacheInv
<1>2. Untouched /\ CanRun(graph)
  BY <1>1 DEF PlainInv, Late, Ahead, MeantInv
<1>3. CanRun(graph')
  <2>1. Bare(graph.nodes, Executable) /\ FusedOps \subseteq Executable /\ Whole(graph)
    BY <1>2, RunsBare, FusedOpsRun DEF Untouched, CacheInv, Sound
  <2>2. graph' = graph \/ \E node : graph' = Rewrite(pass, graph, node, fused, ranges)
    BY DEF Visit
  <2>3. pass \in DOMAIN Kind \ Quantizing /\ pass \notin {"AttentionFusion", "FusedMLP"}
    BY <1>1 DEF Late
  <2>4. \A node : Bare(Rewrite(pass, graph, node, fused, ranges).nodes, Executable)
    BY <2>1, <2>3, BareRewrite
  <2>5. Bare(graph'.nodes, Executable)
    BY <2>1, <2>2, <2>4
  <2>6. Plain(graph'.nodes)
    BY <2>5 DEF Plain, Bare
  <2> QED BY <2>5, <2>6, RunsBare
<1>4. pass \in {"BatchNormFolding", "ConvBatchNormFolding", "ConvFusion", "LayerNormFusion",
                "FuseSiLU", "FuseGELU"}
  BY <1>1 DEF Kind, Late, Quantizing
<1>5. \A x \in Samples : Meaning(graph', x) = Meaning(graph, x)
  BY <1>2, <1>4, NormVisits, FusionVisits DEF Folds
<1> QED BY <1>1, <1>2, <1>3, <1>5, ExactMeant

LEMMA FuseAdds ==
  ASSUME NEW g, Whole(g), NEW old, NEW name, NEW op, NEW ins, NEW attrs, DOMAIN attrs = AttrFields
  PROVE  \E y \in ToSet(Fuse(g, old, name, op, ins, attrs).nodes) : y.op = op
<1> DEFINE node == [NewNode(name, op, ins, OutputOf(name)) EXCEPT !.attrs = attrs]
           tensors == [t \in {OutputOf(name)} |-> Activation]
           rewired == Rewire(g, ExternalOutputs({x \in ToSet(g.nodes) : x.name \in old}), node.out,
                             NodeNames(g) \ old)
           h == Without(rewired, old)
           replaced == [i \in DOMAIN h.nodes |-> IF h.nodes[i].name = node.name THEN node ELSE h.nodes[i]]
<1>1. node.op = op /\ IsNode(node)
  BY DEF NewNode, NodeFields, IsNode
<1>2. Fuse(g, old, name, op, ins, attrs) = DropOrphans(insert_node(h, node, tensors))
  BY DEF Fuse, replace_subgraph
<1> HIDE DEF node, tensors
<1>3. Whole(rewired)
  BY RewireWhole
<1> HIDE DEF rewired
<1>4. Whole(h)
  BY <1>3, WithoutWhole
<1> HIDE DEF h
<1>5. insert_node(h, node, tensors).nodes
        = IF node.name \in NodeNames(h) THEN replaced ELSE Append(h.nodes, node)
  BY <1>4 DEF insert_node, Invalidate, Whole, GraphFields
<1>6. node.name \in NodeNames(h) => node \in ToSet(replaced)
  BY DEF NodeNames, Names, ToSet
<1>7. node \in ToSet(Append(h.nodes, node))
  <2>1. h.nodes \in Seq(ToSet(h.nodes) \cup {node})
    BY <1>4, SeqMonotonic DEF Whole, Dict
  <2> QED BY <2>1, AppendMembers
<1>8. Whole(insert_node(h, node, tensors))
  BY <1>1, <1>4, InsertSound DEF Sound
<1>9. DropOrphans(insert_node(h, node, tensors)).nodes = insert_node(h, node, tensors).nodes
  BY <1>8 DEF DropOrphans, Whole, GraphFields
<1> HIDE DEF replaced
<1>10. node \in ToSet(Fuse(g, old, name, op, ins, attrs).nodes)
  BY <1>2, <1>5, <1>6, <1>7, <1>9
<1> QED BY <1>1, <1>10

(* of those that fuse blocks, after which nothing can be run, *)
LEMMA BlockMeant ==
  ASSUME CacheInv, PhaseInv, MeantInv, Determinate, Determinate', Ahead' => Ahead,
         Visit, pass \in {"AttentionFusion", "FusedMLP"}
  PROVE  MeantInv'
<1>1. Whole(graph) /\ source' = source
  BY DEF Visit, CacheInv, Sound
<1>2. /\ Touch(graph).nodes = graph.nodes /\ Touch(graph).tensors = graph.tensors
      /\ Touch(graph).inputs = graph.inputs /\ Touch(graph).outputs = graph.outputs
  BY <1>1 DEF Touch, Whole, GraphFields
<1>3. graph' = graph \/ \E node : graph' = fuse_mlp(graph, node, fused)
                               \/ graph' = fuse_attention(graph, node, fused)
  BY DEF Visit, Rewrite
<1>4. \/ graph' = graph \/ graph' = Touch(graph)
      \/ \E old, name, ins, attrs : \E op \in BlockOps :
           DOMAIN attrs = AttrFields /\ graph' = Fuse(graph, old, name, op, ins, attrs)
  <2>1. DOMAIN Blank = AttrFields /\ \A a, n : DOMAIN [Blank EXCEPT !.act = a, !.fc1 = n] = AttrFields
    BY DEF Blank, AttrFields
  <2>2. "FusedMLP" \in BlockOps /\ "FusedAttention" \in BlockOps
    BY DEF BlockOps
  <2>3. \A node : \/ fuse_mlp(graph, node, fused) = Touch(graph)
                  \/ \E old, name, ins, a, n :
                       fuse_mlp(graph, node, fused)
                         = Fuse(graph, old, name, "FusedMLP", ins, [Blank EXCEPT !.act = a, !.fc1 = n])
    BY DEF fuse_mlp
  <2>4. \A node : \/ fuse_attention(graph, node, fused) = Touch(graph)
                  \/ \E old, name, ins :
                       fuse_attention(graph, node, fused)
                         = Fuse(graph, old, name, "FusedAttention", ins, Blank)
    BY DEF fuse_attention
  <2> QED BY <1>3, <2>1, <2>2, <2>3, <2>4
<1>5. CASE graph' \in {graph, Touch(graph)}
  BY <1>1, <1>2, <1>5, CachedMeant
<1>6. CASE \E old, name, ins, attrs : \E op \in BlockOps :
             DOMAIN attrs = AttrFields /\ graph' = Fuse(graph, old, name, op, ins, attrs)
  <2>1. PICK old, name, ins, attrs : \E op \in BlockOps :
          DOMAIN attrs = AttrFields /\ graph' = Fuse(graph, old, name, op, ins, attrs)
    BY <1>6
  <2>2. PICK op \in BlockOps :
          DOMAIN attrs = AttrFields /\ graph' = Fuse(graph, old, name, op, ins, attrs)
    BY <2>1
  <2>3. \E y \in ToSet(graph'.nodes) : y.op = op
    BY <1>1, <2>2, FuseAdds
  <2>4. ~CanRun(graph')
    BY <2>2, <2>3, FusedOpsRun DEF CanRun, ToSet
  <2>5. ~Ahead'
    <3>1. pass \in Late /\ pass' = pass /\ passes' = passes /\ arch' = arch
      BY DEF Visit, Late
    <3> QED BY <3>1 DEF PhaseInv, Ahead
  <2> QED BY <2>4, <2>5 DEF MeantInv
<1> QED BY <1>4, <1>5, <1>6

(* and of those that quantize: a layer is quantized then, or there is a fused     *)
(* attention, which cannot be run.                                          *)
LEMMA QuantizedMeant ==
  ASSUME CacheInv, FormInv, StageInv, PhaseInv, MeantInv, Visit, pass \in Quantizing
  PROVE  MeantInv'
<1>1. PICK x \in ToSet(graph.nodes) : \E attrs :
        /\ x.op \in Kind[pass] /\ graph'.nodes = AnnotatedIn(graph.nodes, x.name, attrs)
        /\ x.op \in LayerOps => Fulfilled(graph', Annotated(x, attrs))
  BY VisitQuantizes DEF FormInv
<1>2. PICK attrs : /\ graph'.nodes = AnnotatedIn(graph.nodes, x.name, attrs)
                   /\ x.op \in LayerOps => Fulfilled(graph', Annotated(x, attrs))
  BY <1>1
<1> DEFINE z == Annotated(x, attrs)
<1>3. z.op = x.op
  BY DEF Annotated
<1> HIDE DEF z
<1>4. z \in ToSet(graph'.nodes)
  BY <1>2 DEF AnnotatedIn, ToSet, z
<1>5. x.op \in LayerOps \/ x.op \notin Executable
  BY <1>1, KindsApart
<1>6. ~Ahead'
  <2>1. UNCHANGED <<passes, pass, arch>> /\ pass \in Late
    BY DEF Visit, Late
  <2> QED BY <2>1 DEF PhaseInv, Ahead
<1>7. CASE x.op \in LayerOps
  <2>1. IsQuantized(z)
    BY <1>2, <1>7 DEF Fulfilled, z
  <2>2. ~Untouched'
    BY <1>4, <2>1 DEF Untouched, Plain, IsQuantized
  <2> QED BY <1>6, <2>2 DEF MeantInv
<1>8. CASE x.op \notin Executable
  <2>1. ~CanRun(graph')
    BY <1>3, <1>4, <1>8 DEF CanRun, ToSet
  <2> QED BY <1>6, <2>1 DEF MeantInv
<1> QED BY <1>5, <1>7, <1>8

LEMMA NextMeantInv ==
  ASSUME CacheInv, FormInv, StageInv, PlainInv, PhaseInv, MeantInv, Determinate, Determinate', Fit,
         [Next]_vars
  PROVE  MeantInv'
<1>1. Whole(graph) /\ "none" \notin Late
  BY DEF CacheInv, Sound, Late, Quantizing
<1>2. /\ Touch(graph).nodes = graph.nodes /\ Touch(graph).tensors = graph.tensors
      /\ Touch(graph).inputs = graph.inputs /\ Touch(graph).outputs = graph.outputs
      /\ Invalidate(graph).nodes = graph.nodes /\ Invalidate(graph).tensors = graph.tensors
      /\ Invalidate(graph).inputs = graph.inputs /\ Invalidate(graph).outputs = graph.outputs
  BY <1>1 DEF Touch, Invalidate, Whole, GraphFields
<1>3. CASE BeginPass
  <2>1. /\ graph' = Touch(graph) /\ source' = source /\ arch' = arch /\ pass = "none"
        /\ passes # <<>> /\ pass' = Head(passes) /\ passes' = Tail(passes)
    BY <1>3 DEF BeginPass, Between
  <2>2. ToSet(passes) = {pass'} \cup ToSet(passes')
    BY <2>1, LateTail DEF PhaseInv
  <2>3. Ahead' => Ahead
    BY <2>1, <2>2 DEF Ahead
  <2> QED BY <1>2, <2>1, <2>3, CachedMeant
<1>4. CASE Visit
  <2>1. UNCHANGED <<passes, pass, arch>>
    BY <1>4 DEF Visit
  <2>2. Ahead' => Ahead
    BY <2>1 DEF Ahead
  <2> QED BY <1>4, <2>2, EarlyMeant, BlockMeant, QuantizedMeant DEF Late
<1>5. CASE EndPass
  <2>1. graph' = Invalidate(graph) /\ source' = source /\ arch' = arch /\ pass' = "none"
        /\ passes' = passes
    BY <1>5 DEF EndPass
  <2>2. Ahead' => Ahead
    BY <2>1 DEF Ahead
  <2> QED BY <1>2, <2>1, <2>2, CachedMeant
<1>6. CASE FoldConstant \/ Sweep
  BY <1>6, SweepMeant
<1>7. CASE Detect
  <2>1. UNCHANGED <<graph, source>> /\ Ahead
    BY <1>7 DEF Detect, Ahead
  <2> QED BY <2>1, CachedMeant
<1>8. CASE UNCHANGED <<graph, source, passes, pass, arch>>
  <2>1. Ahead' => Ahead
    BY <1>8 DEF Ahead
  <2> QED BY <1>8, <2>1, CachedMeant
<1>9. Unsupported \/ Finish \/ Stopped \/ UNCHANGED vars
        => UNCHANGED <<graph, source, passes, pass, arch>>
  BY DEF Unsupported, Finish, Stopped, vars
<1> QED BY <1>3, <1>4, <1>5, <1>6, <1>7, <1>8, <1>9 DEF Next

(* A graph keeps its meaning: if the interpreter can run what is compiled, then,   *)
(* until something is quantized, whatever it can run computes on every sample     *)
(* what the source computes, after every step of every pass, if every rewrite     *)
(* before the quantizations leaves a graph that is fit for the next.            *)
THEOREM MeaningStays ==
  Spec /\ CanRun(source) /\ []Fit => [](Untouched /\ CanRun(graph) => MeaningPreserved)
<1>1. Init /\ CanRun(source) => MeantInv
  BY DEF Init, MeantInv, MeansSource
<1>2. Fit => Prepared
  BY DEF Fit, Prepared, WellFormed
<1>3. CacheInv /\ Prepared => Determinate
  BY AcceptedDetermines DEF Prepared, Determinate
<1>4. CacheInv /\ FormInv /\ StageInv /\ PlainInv /\ PhaseInv /\ MeantInv /\ Determinate
        /\ Determinate' /\ Fit /\ [Next]_vars => MeantInv'
  BY NextMeantInv
<1>5. MeantInv => (Untouched /\ CanRun(graph) => MeaningPreserved)
  BY DEF MeantInv, MeansSource, MeaningPreserved
<1> QED
  BY <1>1, <1>2, <1>3, <1>4, <1>5, Formedness, InitPhaseInv, NextPhaseInv, PTL DEF Spec

===============================================================================
