---------------------------- MODULE KahnOrder_proof ---------------------------
(***************************************************************************)
(* Proofs about KahnOrder, for every graph: with cycles, with nodes that read *)
(* several tensors or the same one several times.  The modules that compose   *)
(* KahnOrder with a scheduler take the steps of its invariant from here.      *)
(***************************************************************************)
EXTENDS KahnOrder, FiniteSetTheorems, SequenceTheorems, TLAPS

Placed == Range(order)
Queued == Range(queue)

(* The positions at which m reads a node that is not in the order yet.       *)
Pending(m) == {i \in DOMAIN ins[m] : ins[m][i] \in Nodes \ Placed}

KahnTypeOK ==
  /\ ins \in [Nodes -> ActLists]
  /\ inDegree \in [Nodes -> Nat]
  /\ queue \in Seq(Nodes)
  /\ order \in Seq(Nodes)
  /\ status \in {"ORDERING", "ORDERED", "CYCLE"}

(* in_degree counts what is pending; a node is queued when nothing is, once;   *)
(* the loop ends with the whole graph ordered, or with nodes that wait for    *)
(* each other.                                                             *)
Counts   == \A m \in Nodes : inDegree[m] = Cardinality(Pending(m))
Once     == IsInjective(order) /\ IsInjective(queue) /\ Placed \cap Queued = {}
Woke     == \A m \in Nodes : m \in Placed \cup Queued <=> Pending(m) = {}
Complete ==
  /\ status = "ORDERED" => Len(order) = NumNodes
  /\ status = "CYCLE" => queue = <<>> /\ Len(order) # NumNodes

KahnInv == KahnTypeOK /\ Counts /\ Once /\ Woke /\ Complete /\ Sorted

-------------------------------------------------------------------------------
(* A non-empty set of naturals has a least member. *)
LEMMA Least ==
  ASSUME NEW T \in SUBSET Nat, T # {}
  PROVE  \E x \in T : \A y \in T : x <= y
<1>1. IsWellFoundedOn(OpToRel(<, Nat), Nat)
  BY NatLessThanWellFounded
<1>2. PICK x \in T : \A y \in T : <<y, x>> \notin OpToRel(<, Nat)
  BY <1>1, WFMin
<1>3. \A y \in T : ~(y < x)
  BY <1>2 DEF OpToRel
<1> QED BY <1>3

(* Ranked lists every member of a finite set once, earlier ones first, when    *)
(* `earlier' is a strict total order of them.                                *)
StrictOrder(S, R) ==
  /\ \A x \in S : <<x, x>> \notin R
  /\ \A x, y, z \in S : <<x, y>> \in R /\ <<y, z>> \in R => <<x, z>> \in R
  /\ \A x, y \in S : x # y => <<x, y>> \in R \/ <<y, x>> \in R

Lists(s, S, R) ==
  /\ s \in Seq(S) /\ Len(s) = Cardinality(S) /\ Range(s) = S /\ IsInjective(s)
  /\ \A i, j \in DOMAIN s : i < j => <<s[i], s[j]>> \in R

LEMMA RankedLists ==
  ASSUME NEW S, IsFiniteSet(S), NEW R, StrictOrder(S, R)
  PROVE  Lists(Ranked(S, R), S, R)
<1> DEFINE Below(n) == {m \in S : <<m, n>> \in R}
           Rank == [n \in S |-> Cardinality(Below(n))]
           c == Cardinality(S)
           s == Ranked(S, R)
<1>1. c \in Nat
  BY FS_CardinalityType
<1>2. \A n \in S : IsFiniteSet(Below(n)) /\ Rank[n] \in 0 .. c - 1
  <2>1. SUFFICES ASSUME NEW n \in S
                 PROVE  IsFiniteSet(Below(n)) /\ Rank[n] \in 0 .. c - 1
    OBVIOUS
  <2>2. Below(n) \in SUBSET (S \ {n})
    BY DEF StrictOrder
  <2>3. IsFiniteSet(S \ {n}) /\ Cardinality(S \ {n}) = c - 1
    BY FS_RemoveElement
  <2> HIDE DEF Below
  <2>4. IsFiniteSet(Below(n)) /\ Cardinality(Below(n)) <= c - 1
    BY <2>2, <2>3, FS_Subset
  <2>5. Cardinality(Below(n)) \in Nat
    BY <2>4, FS_CardinalityType
  <2> QED BY <1>1, <2>4, <2>5
<1>3. ASSUME NEW n \in S, NEW k \in S, <<n, k>> \in R
      PROVE  Rank[n] < Rank[k]
  <2>1. Below(n) \cup {n} \in SUBSET Below(k)
    BY <1>3 DEF StrictOrder
  <2>2. IsFiniteSet(Below(n)) /\ IsFiniteSet(Below(k)) /\ n \notin Below(n)
    BY <1>2 DEF StrictOrder
  <2>3. Cardinality(Below(n) \cup {n}) = Cardinality(Below(n)) + 1
    BY <2>2, FS_AddElement
  <2>4. Cardinality(Below(n) \cup {n}) <= Cardinality(Below(k))
    BY <2>1, <2>2, FS_Subset
  <2>5. Rank[n] = Cardinality(Below(n)) /\ Rank[k] = Cardinality(Below(k))
    OBVIOUS
  <2> HIDE DEF Rank, Below
  <2>6. Rank[n] \in Int /\ Rank[k] \in Int
    BY <1>1, <1>2
  <2> QED BY <2>3, <2>4, <2>5, <2>6
<1>4. \A n, k \in S : Rank[n] = Rank[k] => n = k
  <2>1. SUFFICES ASSUME NEW n \in S, NEW k \in S, Rank[n] = Rank[k], n # k
                 PROVE  FALSE
    OBVIOUS
  <2>2. Rank[n] \in Int
    BY <1>1, <1>2
  <2>3. <<n, k>> \in R \/ <<k, n>> \in R
    BY <2>1 DEF StrictOrder
  <2> HIDE DEF Rank
  <2> QED BY <1>3, <2>1, <2>2, <2>3
<1>5. Rank \in Injection(S, 0 .. c - 1)
  <2>1. Rank \in [S -> 0 .. c - 1]
    BY <1>2
  <2> HIDE DEF Rank
  <2> QED BY <1>4, <2>1 DEF Injection, IsInjective
<1>6. Rank \in Surjection(S, 0 .. c - 1)
  <2>1. IsFiniteSet(0 .. c - 1) /\ Cardinality(0 .. c - 1) = c
    <3> HIDE DEF c
    <3>1. c - 1 \in Int /\ 0 \in Int
      BY <1>1
    <3>2. /\ IsFiniteSet(0 .. c - 1)
          /\ Cardinality(0 .. c - 1) = IF 0 > c - 1 THEN 0 ELSE (c - 1) - 0 + 1
      BY <3>1, FS_Interval
    <3> QED BY <1>1, <3>2
  <2> HIDE DEF Rank
  <2> QED BY <1>5, <2>1, FS_Injection
<1>7. \A i \in 1 .. c : \E n \in S : Rank[n] = i - 1
  <2> HIDE DEF Rank, c
  <2>1. \A i \in 1 .. c : i - 1 \in 0 .. c - 1
    BY <1>1
  <2>2. \A t \in 0 .. c - 1 : \E n \in S : Rank[n] = t
    BY ONLY <1>6 DEF Surjection
  <2> QED BY ONLY <2>1, <2>2
<1>8. \A i \in 1 .. c : \E n \in S : Cardinality({m \in S : <<m, n>> \in R}) = i - 1
  BY <1>7
<1>9. \A i \in 1 .. c : s[i] \in S /\ Rank[s[i]] = i - 1
  <2>1. SUFFICES ASSUME NEW i \in 1 .. c PROVE s[i] \in S /\ Rank[s[i]] = i - 1
    OBVIOUS
  <2>2. s[i] = CHOOSE n \in S : Cardinality({m \in S : <<m, n>> \in R}) = i - 1
    BY DEF Ranked
  <2>3. s[i] \in S /\ Cardinality({m \in S : <<m, s[i]>> \in R}) = i - 1
    <3> HIDE DEF s
    <3> QED BY <1>8, <2>2
  <2> HIDE DEF s
  <2> QED BY <2>3
<1>10. s \in [1 .. c -> S]
  BY <1>9 DEF Ranked
<1>11. s \in Seq(S) /\ Len(s) = c /\ DOMAIN s = 1 .. c
  <2> HIDE DEF s
  <2> QED BY <1>1, <1>10
<1>12. Range(s) = S
  <2>1. ASSUME NEW n \in S PROVE n \in Range(s)
    <3> HIDE DEF Below, Rank, s, c
    <3>1. Rank[n] + 1 \in 1 .. c /\ Rank[n] \in Int
      BY <1>1, <1>2
    <3>2. PICK k \in 1 .. c : k = Rank[n] + 1
      BY <3>1
    <3>3. s[k] \in S /\ Rank[s[k]] = k - 1
      BY ONLY <1>9, <3>2
    <3>4. Rank[s[k]] = Rank[n]
      BY ONLY <3>1, <3>2, <3>3
    <3>5. s[k] = n
      BY ONLY <1>4, <2>1, <3>3, <3>4
    <3> QED BY <1>11, <3>2, <3>5 DEF Range
  <2> HIDE DEF Rank, s
  <2> QED BY <1>9, <1>11, <2>1 DEF Range
<1>13. IsInjective(s)
  <2> HIDE DEF Rank, s
  <2> QED BY <1>1, <1>9, <1>11 DEF IsInjective
<1>14. \A i, j \in DOMAIN s : i < j => <<s[i], s[j]>> \in R
  <2>1. SUFFICES ASSUME NEW i \in 1 .. c, NEW j \in 1 .. c, i < j
                 PROVE  <<s[i], s[j]>> \in R
    BY <1>11
  <2> HIDE DEF Rank, s
  <2>2. s[i] \in S /\ s[j] \in S /\ Rank[s[i]] = i - 1 /\ Rank[s[j]] = j - 1
    BY <1>9
  <2>3. i \in Int /\ j \in Int
    BY <1>1
  <2>4. s[i] # s[j] /\ ~(Rank[s[j]] < Rank[s[i]])
    BY <2>1, <2>2, <2>3
  <2>5. <<s[j], s[i]>> \notin R
    BY <1>3, <2>2, <2>4
  <2> QED BY <2>2, <2>4, <2>5 DEF StrictOrder
<1> HIDE DEF s
<1> QED BY <1>11, <1>12, <1>13, <1>14 DEF Lists, s

(* InsertionOrder lists every member of a finite set of numbers once. *)
LEMMA InsertionOrderLists ==
  ASSUME NEW S \in SUBSET Nat, IsFiniteSet(S)
  PROVE  /\ InsertionOrder(S) \in Seq(S)
         /\ Len(InsertionOrder(S)) = Cardinality(S)
         /\ Range(InsertionOrder(S)) = S
         /\ IsInjective(InsertionOrder(S))
<1> DEFINE R == {p \in S \X S : p[1] < p[2]}
<1>1. \A x, y \in S : <<x, y>> \in R <=> x < y
  OBVIOUS
<1>2. \A x \in S : x \in Nat
  OBVIOUS
<1> HIDE DEF R
<1>3. StrictOrder(S, R)
  <2>1. \A x \in S : <<x, x>> \notin R
    BY <1>1, <1>2
  <2>2. ASSUME NEW x \in S, NEW y \in S, NEW z \in S, <<x, y>> \in R, <<y, z>> \in R
        PROVE  <<x, z>> \in R
    <3>1. x < y /\ y < z /\ x \in Nat /\ y \in Nat /\ z \in Nat
      BY <1>1, <1>2, <2>2
    <3>2. x < z
      BY <3>1
    <3> QED BY <1>1, <3>2
  <2>3. \A x, y \in S : x # y => <<x, y>> \in R \/ <<y, x>> \in R
    BY <1>1, <1>2
  <2> QED BY <2>1, <2>2, <2>3 DEF StrictOrder
<1>4. Lists(Ranked(S, R), S, R)
  BY <1>3, RankedLists
<1>5. InsertionOrder(S) = Ranked(S, R)
  BY DEF InsertionOrder, R
<1> QED BY <1>4, <1>5 DEF Lists

(* A bounded non-empty set of naturals has a greatest member. *)
LEMMA Greatest ==
  ASSUME NEW n \in Nat, NEW T \in SUBSET (0 .. n), T # {}
  PROVE  Max(T) \in T /\ \A y \in T : y <= Max(T)
<1> DEFINE D == {n - x : x \in T}
<1>1. D \in SUBSET Nat /\ D # {}
  <2>1. \A x \in T : x \in 0 .. n
    OBVIOUS
  <2>2. \A x \in T : n - x \in Nat
    BY <2>1
  <2> QED BY <2>2
<1>2. PICK d \in D : \A e \in D : d <= e
  BY <1>1, Least
<1>3. PICK x \in T : d = n - x
  BY <1>2
<1>4. \A y \in T : x >= y
  <2>1. SUFFICES ASSUME NEW y \in T PROVE x >= y
    OBVIOUS
  <2>2. n - y \in D /\ x \in Int /\ y \in Int
    OBVIOUS
  <2> QED BY <1>2, <1>3, <2>2
<1>5. Max(T) \in T /\ \A y \in T : Max(T) >= y
  BY <1>4 DEF Max
<1>6. \A y \in T : y \in Int
  OBVIOUS
<1> QED BY <1>5, <1>6

(* Sequences as sets: what an end, a beginning or a tail adds or takes away.   *)
LEMMA AppendRange ==
  ASSUME NEW S, NEW s \in Seq(S), NEW e \in S
  PROVE  /\ Range(Append(s, e)) = Range(s) \cup {e}
         /\ IsInjective(s) /\ e \notin Range(s) => IsInjective(Append(s, e))
<1> DEFINE t == Append(s, e)
<1>1. /\ t \in Seq(S) /\ Len(t) = Len(s) + 1 /\ Len(s) \in Nat
      /\ \A i \in 1 .. Len(s) : t[i] = s[i]
      /\ t[Len(s) + 1] = e
  BY AppendProperties, LenProperties
<1>2. DOMAIN s = 1 .. Len(s) /\ DOMAIN t = 1 .. Len(s) + 1
  BY <1>1, LenProperties
<1> HIDE DEF t
<1>3. Range(t) = Range(s) \cup {e}
  <2>1. \A x \in Range(t) : x \in Range(s) \cup {e}
    BY <1>1, <1>2 DEF Range
  <2>2. \A x \in Range(s) \cup {e} : x \in Range(t)
    <3>1. e \in Range(t)
      BY <1>1, <1>2 DEF Range
    <3>2. ASSUME NEW i \in 1 .. Len(s) PROVE s[i] \in Range(t)
      BY <1>1, <1>2 DEF Range
    <3> QED BY <3>1, <3>2, <1>2 DEF Range
  <2> QED BY <2>1, <2>2
<1>4. ASSUME IsInjective(s), e \notin Range(s) PROVE IsInjective(t)
  <2>1. \A i \in 1 .. Len(s) : t[i] # e
    BY <1>1, <1>2, <1>4 DEF Range
  <2>2. \A i, j \in 1 .. Len(s) : t[i] = t[j] => i = j
    BY <1>1, <1>2, <1>4 DEF IsInjective
  <2>3. \A i \in DOMAIN t : i \in 1 .. Len(s) \/ i = Len(s) + 1
    BY <1>1, <1>2
  <2> QED BY <1>1, <2>1, <2>2, <2>3 DEF IsInjective
<1> QED BY <1>3, <1>4 DEF t

LEMMA ConcatRange ==
  ASSUME NEW S, NEW s \in Seq(S), NEW t \in Seq(S)
  PROVE  /\ Range(s \o t) = Range(s) \cup Range(t)
         /\ IsInjective(s) /\ IsInjective(t) /\ Range(s) \cap Range(t) = {}
              => IsInjective(s \o t)
<1> DEFINE u == s \o t
<1>1. /\ u \in Seq(S) /\ Len(u) = Len(s) + Len(t) /\ Len(s) \in Nat /\ Len(t) \in Nat
      /\ \A i \in 1 .. Len(s) + Len(t) : u[i] = IF i <= Len(s) THEN s[i] ELSE t[i - Len(s)]
  BY ConcatProperties, LenProperties
<1>2. DOMAIN s = 1 .. Len(s) /\ DOMAIN t = 1 .. Len(t) /\ DOMAIN u = 1 .. Len(s) + Len(t)
  BY <1>1, LenProperties
<1> HIDE DEF u
<1>3. \A i \in DOMAIN s : i \in DOMAIN u /\ u[i] = s[i]
  BY <1>1, <1>2
<1>4. \A i \in DOMAIN t : i + Len(s) \in DOMAIN u /\ u[i + Len(s)] = t[i]
  BY <1>1, <1>2
<1>5. \A i \in DOMAIN u : i \in DOMAIN s \/ i - Len(s) \in DOMAIN t
  BY <1>1, <1>2
<1>6. \A i \in DOMAIN u : i \notin DOMAIN s => u[i] = t[i - Len(s)]
  BY <1>1, <1>2
<1>7. Range(u) = Range(s) \cup Range(t)
  BY <1>3, <1>4, <1>5, <1>6 DEF Range
<1>8. ASSUME IsInjective(s), IsInjective(t), Range(s) \cap Range(t) = {}
      PROVE  IsInjective(u)
  <2>1. SUFFICES ASSUME NEW i \in DOMAIN u, NEW j \in DOMAIN u, u[i] = u[j] PROVE i = j
    BY DEF IsInjective
  <2>2. i \in Int /\ j \in Int
    BY <1>2
  <2>3. CASE i \in DOMAIN s /\ j \in DOMAIN s
    BY <1>3, <1>8, <2>1, <2>3 DEF IsInjective
  <2>4. CASE i \notin DOMAIN s /\ j \notin DOMAIN s
    <3>1. i - Len(s) = j - Len(s)
      BY <1>5, <1>6, <1>8, <2>1, <2>4 DEF IsInjective
    <3> QED BY <1>1, <2>2, <3>1
  <2>5. CASE i \in DOMAIN s /\ j \notin DOMAIN s
    BY <1>3, <1>5, <1>6, <1>8, <2>1, <2>5 DEF Range
  <2>6. CASE i \notin DOMAIN s /\ j \in DOMAIN s
    BY <1>3, <1>5, <1>6, <1>8, <2>1, <2>6 DEF Range
  <2> QED BY <2>3, <2>4, <2>5, <2>6
<1> QED BY <1>7, <1>8 DEF u

LEMMA TailRange ==
  ASSUME NEW S, NEW s \in Seq(S), s # <<>>, IsInjective(s)
  PROVE  /\ Head(s) \in Range(s)
         /\ Range(Tail(s)) = Range(s) \ {Head(s)}
         /\ IsInjective(Tail(s))
<1> DEFINE t == Tail(s)
<1>1. /\ t \in Seq(S) /\ Len(t) = Len(s) - 1 /\ Len(s) \in Nat \ {0}
      /\ \A i \in 1 .. Len(t) : t[i] = s[i + 1]
  BY HeadTailProperties, LenProperties, EmptySeq
<1>2. DOMAIN s = 1 .. Len(s) /\ DOMAIN t = 1 .. Len(s) - 1 /\ Head(s) = s[1]
  BY <1>1, LenProperties
<1> HIDE DEF t
<1>3. \A i \in DOMAIN t : i + 1 \in DOMAIN s \ {1} /\ t[i] = s[i + 1]
  BY <1>1, <1>2
<1>4. \A i \in DOMAIN s \ {1} : i - 1 \in DOMAIN t /\ t[i - 1] = s[i]
  BY <1>1, <1>2
<1>5. 1 \in DOMAIN s
  BY <1>1, <1>2
<1>6. \A i \in DOMAIN s \ {1} : s[i] # s[1]
  BY <1>5 DEF IsInjective
<1>7. Range(t) = Range(s) \ {s[1]}
  BY <1>3, <1>4, <1>5, <1>6 DEF Range
<1>8. IsInjective(t)
  <2>1. SUFFICES ASSUME NEW i \in DOMAIN t, NEW j \in DOMAIN t, t[i] = t[j] PROVE i = j
    BY DEF IsInjective
  <2>2. i + 1 = j + 1 /\ i \in Int /\ j \in Int
    BY <1>2, <1>3, <2>1 DEF IsInjective
  <2> QED BY <2>2
<1> QED BY <1>2, <1>5, <1>7, <1>8 DEF t, Range

LEMMA Within ==
  ASSUME NEW a \in Nat, NEW b \in Nat, NEW c \in Nat, NEW d \in Nat, a + b <= c
  PROVE  (\A r \in 1 .. b : a + r \in 1 .. c) /\ a + b <= c + d
  OBVIOUS

LEMMA Behind ==
  ASSUME NEW T, NEW s \in Seq(T), NEW t \in Seq(T), NEW u, u = s \o t
  PROVE  /\ u \in Seq(T) /\ Len(u) = Len(s) + Len(t) /\ Len(s) \in Nat
         /\ \A i \in 1 .. Len(s) : u[i] = s[i]
         /\ \A i \in 1 .. Len(t) : u[Len(s) + i] = t[i]
<1>1. /\ u \in Seq(T) /\ Len(u) = Len(s) + Len(t) /\ Len(s) \in Nat /\ Len(t) \in Nat
      /\ \A i \in 1 .. Len(s) + Len(t) : u[i] = IF i <= Len(s) THEN s[i] ELSE t[i - Len(s)]
  BY ConcatProperties, LenProperties
<1>2. ASSUME NEW i \in 1 .. Len(t) PROVE u[Len(s) + i] = t[i]
  <2>1. /\ Len(s) + i \in 1 .. Len(s) + Len(t) /\ ~(Len(s) + i <= Len(s))
        /\ (Len(s) + i) - Len(s) = i
    BY <1>1
  <2>2. u[Len(s) + i] = t[(Len(s) + i) - Len(s)]
    BY <1>1, <2>1
  <2> QED BY <2>1, <2>2
<1> QED BY <1>1, <1>2

-------------------------------------------------------------------------------
(* Whole-number division.                                                    *)
LEMMA Quotient ==
  ASSUME NEW b \in Nat \ {0}, NEW q \in Nat, NEW r \in 0 .. b - 1
  PROVE  (q * b + r) \div b = q /\ (q * b + r) % b = r
  OBVIOUS

LEMMA Remainder ==
  ASSUME NEW a \in Nat, NEW b \in Nat \ {0}
  PROVE  a \div b \in Nat /\ a % b \in 0 .. b - 1 /\ a = (a \div b) * b + (a % b)
<1> DEFINE q == a \div b
           m == a % b
<1>1. q \in Int /\ q >= 0 /\ m \in 0 .. b - 1
  OBVIOUS
<1>2. a = b * q + m
  OBVIOUS
<1> HIDE DEF q, m
<1>3. a = q * b + m /\ q \in Nat
  BY <1>1, <1>2
<1>4. q \in Nat /\ m \in 0 .. b - 1 /\ a = q * b + m
  BY <1>1, <1>3
<1> QED BY ONLY <1>4 DEF q, m

LEMMA Rows ==
  ASSUME NEW b \in Nat, NEW m \in Nat, NEW k \in 0 .. m - 1
  PROVE  k * b \in Nat /\ m * b \in Nat /\ k * b + b <= m * b
  OBVIOUS

LEMMA Entry ==
  ASSUME NEW a \in Nat, NEW b \in Nat \ {0}, NEW c \in Nat, NEW d \in Nat
  PROVE  a % b \in Nat /\ a \div b \in Nat /\ (a \div b) * c + d \in Nat /\ a * c + d \in Nat
<1> DEFINE q == a \div b
<1>1. q \in Nat /\ a % b \in Nat
  BY Remainder
<1> HIDE DEF q
<1>2. q * c + d \in Nat /\ a * c + d \in Nat
  BY <1>1
<1> QED BY <1>1, <1>2 DEF q

(* The ceiling of a quotient. *)
LEMMA Ceiling ==
  ASSUME NEW a \in Nat \ {0}, NEW b \in Nat \ {0}
  PROVE  /\ (a + b - 1) \div b \in Nat \ {0}
         /\ \A q \in Nat, r \in 0 .. b - 1 : q * b + r < a => q < (a + b - 1) \div b
<1> DEFINE c == (a + b - 1) \div b
<1>1. c \in Nat /\ (a + b - 1) % b \in 0 .. b - 1 /\ a + b - 1 = c * b + ((a + b - 1) % b)
  <2>1. a + b - 1 \in Nat
    OBVIOUS
  <2> QED BY <2>1, Remainder
<1> HIDE DEF c
<1>2. c * b >= a
  BY <1>1
<1>3. ASSUME NEW q \in Nat, NEW r \in 0 .. b - 1, q * b + r < a PROVE q < c
  <2>1. SUFFICES ASSUME c <= q PROVE FALSE
    BY <1>1
  <2>2. c * b <= q * b
    BY <1>1, <2>1
  <2>3. q * b \in Nat /\ c * b \in Nat
    BY <1>1
  <2> QED BY <1>2, <1>3, <2>2, <2>3
<1>4. 0 * b + 0 < a
  OBVIOUS
<1>5. 0 < c
  BY <1>3, <1>4
<1> QED BY <1>1, <1>3, <1>5 DEF c

-------------------------------------------------------------------------------
LEMMA NodesFinite ==
  /\ Nodes \in SUBSET Nat /\ IsFiniteSet(Nodes) /\ Cardinality(Nodes) = NumNodes
  /\ \A S \in SUBSET Nodes : S \in SUBSET Nat /\ IsFiniteSet(S)
<1>1. NumNodes \in Nat \ {0}
  BY GraphAssumption
<1>2. IsFiniteSet(1 .. NumNodes) /\ Cardinality(1 .. NumNodes) = NumNodes
  BY <1>1, FS_Interval
<1>3. IsFiniteSet(Nodes) /\ Cardinality(Nodes) = NumNodes /\ Nodes \in SUBSET Nat
  BY <1>1, <1>2 DEF Nodes
<1> QED BY <1>3, FS_Subset

(* A node has finitely many positions at which it reads. *)
LEMMA PositionsFinite ==
  ASSUME ins \in [Nodes -> ActLists], NEW m \in Nodes, NEW P \in SUBSET DOMAIN ins[m]
  PROVE  IsFiniteSet(P) /\ Cardinality(P) \in Nat
<1>1. PICK k \in 1 .. MaxActs : ins[m] \in [1 .. k -> Tensors]
  BY DEF ActLists
<1>2. k \in Int
  OBVIOUS
<1>3. IsFiniteSet(DOMAIN ins[m])
  BY <1>1, <1>2, FS_Interval
<1>4. IsFiniteSet(P)
  BY <1>3, FS_Subset
<1> QED BY <1>4, FS_CardinalityType

LEMMA ReadsTensors ==
  ASSUME ins \in [Nodes -> ActLists], NEW m \in Nodes, NEW i \in DOMAIN ins[m]
  PROVE  ins[m][i] \in Nodes \cup Inputs
<1>1. PICK k \in 1 .. MaxActs : ins[m] \in [1 .. k -> Tensors]
  BY DEF ActLists
<1> QED BY <1>1 DEF Tensors

(* The invariant holds before the first iteration. *)
LEMMA KahnStarts ==
  ASSUME ins \in [Nodes -> ActLists], KahnInit
  PROVE  KahnInv
<1> DEFINE S == {m \in Nodes : InDegreeOf(m) = 0}
<1>1. /\ Placed = {} /\ order \in Seq(Nodes) /\ DOMAIN order = {}
      /\ status = "ORDERING" /\ queue = InsertionOrder(S)
  BY DEF KahnInit, Placed, Range
<1>2. \A m \in Nodes : InDegreeOf(m) = Cardinality(Pending(m))
  BY <1>1 DEF InDegreeOf, Pending
<1>3. \A m \in Nodes : IsFiniteSet(Pending(m)) /\ Cardinality(Pending(m)) \in Nat
  BY PositionsFinite DEF Pending
<1>4. inDegree \in [Nodes -> Nat] /\ Counts
  BY <1>2, <1>3 DEF KahnInit, Counts
<1>5. S \in SUBSET Nodes /\ S \in SUBSET Nat /\ IsFiniteSet(S)
  BY NodesFinite
<1>6. queue \in Seq(S) /\ Range(queue) = S /\ IsInjective(queue)
  <2> HIDE DEF S
  <2> QED BY <1>1, <1>5, InsertionOrderLists
<1>7. queue \in Seq(Nodes)
  <2> HIDE DEF S
  <2> QED BY <1>5, <1>6, SeqMonotonic
<1>8. \A m \in Nodes : m \in S <=> Pending(m) = {}
  BY <1>2, <1>3, FS_EmptySet
<1>9. Once /\ Woke
  <2> HIDE DEF S
  <2> QED BY <1>1, <1>6, <1>8 DEF Once, Woke, Queued, IsInjective
<1> QED BY <1>1, <1>4, <1>7, <1>9 DEF KahnInv, KahnTypeOK, Complete, Sorted

(* An iteration of the loop preserves it. *)
LEMMA KahnPops ==
  ASSUME KahnInv, Pop, UNCHANGED ins
  PROVE  KahnInv'
<1> DEFINE n == Head(queue)
           Gone(m) == {i \in DOMAIN ins[m] : ins[m][i] = n}
<1>1. /\ ins \in [Nodes -> ActLists] /\ inDegree \in [Nodes -> Nat]
      /\ queue \in Seq(Nodes) /\ order \in Seq(Nodes)
      /\ queue # <<>> /\ status = "ORDERING" /\ status' = status /\ ins' = ins
  BY DEF KahnInv, KahnTypeOK, Pop
<1>2. /\ order' = Append(order, n)
      /\ inDegree' = [m \in Nodes |-> inDegree[m] - Edges(n, m)]
      /\ queue' = Tail(queue) \o InsertionOrder(Woken(n))
  BY DEF Pop
<1>3. /\ n \in Nodes /\ n \in Queued /\ n \notin Placed /\ Pending(n) = {}
      /\ Tail(queue) \in Seq(Nodes)
      /\ Range(Tail(queue)) = Queued \ {n} /\ IsInjective(Tail(queue))
  BY <1>1, TailRange, HeadTailProperties DEF KahnInv, Once, Woke, Queued
<1>4. Placed' = Placed \cup {n} /\ order' \in Seq(Nodes) /\ IsInjective(order')
  BY <1>1, <1>2, <1>3, AppendRange, AppendProperties DEF Placed, KahnInv, Once
<1>5. \A m \in Nodes : /\ Gone(m) \in SUBSET Pending(m) /\ Pending(m)' = Pending(m) \ Gone(m)
                       /\ Edges(n, m) = Cardinality(Gone(m))
  BY <1>1, <1>3, <1>4 DEF Pending, Edges
<1>6. ASSUME NEW m \in Nodes
      PROVE  /\ IsFiniteSet(Pending(m)) /\ IsFiniteSet(Gone(m)) /\ IsFiniteSet(Pending(m)')
             /\ Cardinality(Pending(m)) \in Nat /\ Cardinality(Gone(m)) \in Nat
             /\ Cardinality(Pending(m)') \in Nat
             /\ Cardinality(Pending(m)') = Cardinality(Pending(m)) - Cardinality(Gone(m))
  <2>1. Pending(m) \in SUBSET DOMAIN ins[m] /\ Gone(m) \in SUBSET DOMAIN ins[m]
    BY DEF Pending
  <2>2. IsFiniteSet(Pending(m)) /\ IsFiniteSet(Gone(m)) /\ IsFiniteSet(Pending(m) \ Gone(m))
    BY <1>1, <2>1, PositionsFinite, FS_Subset
  <2>3. Pending(m) \cap Gone(m) = Gone(m)
    BY <1>5
  <2> HIDE DEF Gone
  <2>4. Cardinality(Pending(m) \ Gone(m)) = Cardinality(Pending(m)) - Cardinality(Gone(m))
    BY <2>2, <2>3, FS_Difference
  <2> QED BY <1>5, <2>2, <2>4, FS_CardinalityType
<1> HIDE DEF Gone
<1>7. inDegree' \in [Nodes -> Nat] /\ Counts'
  BY <1>2, <1>5, <1>6 DEF KahnInv, Counts
<1>8. Woken(n) = {m \in Nodes : Pending(m) # {} /\ Pending(m)' = {}}
  <2>1. SUFFICES ASSUME NEW m \in Nodes
                 PROVE  m \in Woken(n) <=> Pending(m) # {} /\ Pending(m)' = {}
    BY DEF Woken
  <2>2. m \in Woken(n) <=> Cardinality(Gone(m)) > 0 /\ Cardinality(Pending(m)') = 0
    BY <1>5, <1>6 DEF Woken, KahnInv, Counts
  <2>3. /\ Cardinality(Pending(m)') = 0 <=> Pending(m)' = {}
        /\ Cardinality(Gone(m)) = 0 <=> Gone(m) = {}
    BY <1>6, FS_EmptySet
  <2>4. Cardinality(Gone(m)) > 0 <=> Gone(m) # {}
    BY <1>6, <2>3
  <2>5. Pending(m)' = {} => (Gone(m) # {} <=> Pending(m) # {})
    BY <1>5
  <2> QED BY <2>2, <2>3, <2>4, <2>5
<1>9. Woken(n) \in SUBSET Nodes /\ Woken(n) \in SUBSET Nat /\ IsFiniteSet(Woken(n))
  BY NodesFinite DEF Woken
<1>10. /\ InsertionOrder(Woken(n)) \in Seq(Nodes)
       /\ Range(InsertionOrder(Woken(n))) = Woken(n)
       /\ IsInjective(InsertionOrder(Woken(n)))
  BY <1>9, InsertionOrderLists, SeqMonotonic
<1>11. \A m \in Nodes : m \in Placed \cup Queued <=> Pending(m) = {}
  BY DEF KahnInv, Woke
<1>12. Woken(n) \cap (Placed \cup Queued) = {}
  BY <1>8, <1>11
<1>13. /\ queue' \in Seq(Nodes) /\ IsInjective(queue')
       /\ Queued' = (Queued \ {n}) \cup Woken(n)
  <2> DEFINE T == Tail(queue)
             W == InsertionOrder(Woken(n))
  <2>1. Range(T) \cap Range(W) = {}
    BY <1>3, <1>10, <1>12
  <2>2. T \in Seq(Nodes) /\ W \in Seq(Nodes) /\ IsInjective(T) /\ IsInjective(W)
    BY <1>3, <1>10
  <2> HIDE DEF T, W
  <2>3. T \o W \in Seq(Nodes) /\ IsInjective(T \o W) /\ Range(T \o W) = Range(T) \cup Range(W)
    BY <2>1, <2>2, ConcatRange, ConcatProperties
  <2> QED BY <1>2, <1>3, <1>10, <2>3 DEF Queued, T, W
<1>14. Once'
  BY <1>3, <1>4, <1>12, <1>13 DEF Once, KahnInv
<1>15. Woke'
  <2>1. ASSUME NEW m \in Nodes PROVE Pending(m) = {} => Pending(m)' = {}
    BY <1>5
  <2>2. \A m \in Nodes : m \in (Placed \cup Queued)' <=> Pending(m)' = {}
    BY <1>3, <1>4, <1>8, <1>11, <1>13, <2>1
  <2> QED BY <2>2 DEF Woke
<1>16. Sorted'
  <2>1. /\ Len(order) \in Nat /\ DOMAIN order = 1 .. Len(order)
        /\ DOMAIN order' = 1 .. Len(order) + 1
        /\ \A i \in 1 .. Len(order) : order'[i] = order[i]
        /\ order'[Len(order) + 1] = n
    BY <1>1, <1>2, <1>3, AppendProperties, LenProperties
  <2>2. SUFFICES ASSUME NEW i \in DOMAIN order'
                 PROVE  /\ order'[i] \notin {order'[j] : j \in 1 .. i - 1}
                        /\ \A k \in DOMAIN ins[order'[i]] :
                             ins[order'[i]][k] \in Inputs \cup {order'[j] : j \in 1 .. i - 1}
    BY <1>1 DEF Sorted
  <2>3. CASE i \in DOMAIN order
    <3>1. {order'[j] : j \in 1 .. i - 1} = {order[j] : j \in 1 .. i - 1} /\ order'[i] = order[i]
      BY <2>1, <2>3
    <3> QED BY <2>3, <3>1 DEF KahnInv, Sorted
  <2>4. CASE i = Len(order) + 1
    <3>1. {order'[j] : j \in 1 .. i - 1} = Placed
      BY <2>1, <2>4 DEF Placed, Range
    <3>2. \A k \in DOMAIN ins[n] : ins[n][k] \in Inputs \cup Placed
      BY <1>1, <1>3, ReadsTensors DEF Pending
    <3> QED BY <1>3, <2>1, <2>4, <3>1, <3>2
  <2> QED BY <2>1, <2>2, <2>3, <2>4
<1> QED BY <1>1, <1>4, <1>7, <1>13, <1>14, <1>15, <1>16 DEF KahnInv, KahnTypeOK, Complete

(* So does the end of the loop, whichever way it ends, and any step that        *)
(* leaves the graph and the algorithm alone.                                 *)
LEMMA KahnFinishes ==
  ASSUME KahnInv, Finish, UNCHANGED ins
  PROVE  KahnInv'
<1>1. /\ UNCHANGED <<ins, inDegree, queue, order>> /\ queue = <<>>
      /\ status' = IF Len(order) = NumNodes THEN "ORDERED" ELSE "CYCLE"
  BY DEF Finish
<1>2. Placed' = Placed /\ Queued' = Queued /\ \A m : Pending(m)' = Pending(m)
  BY <1>1 DEF Placed, Queued, Pending
<1>3. Counts' /\ Once' /\ Woke'
  BY <1>1, <1>2 DEF KahnInv, Counts, Once, Woke
<1> QED BY <1>1, <1>3 DEF KahnInv, KahnTypeOK, Complete, Sorted

LEMMA KahnRests ==
  ASSUME KahnInv, UNCHANGED <<ins, kahnVars>>
  PROVE  KahnInv'
<1>1. UNCHANGED <<ins, inDegree, queue, order, status>>
  BY DEF kahnVars
<1>2. Placed' = Placed /\ Queued' = Queued /\ \A m : Pending(m)' = Pending(m)
  BY <1>1 DEF Placed, Queued, Pending
<1>3. Counts' /\ Once' /\ Woke'
  BY <1>1, <1>2 DEF KahnInv, Counts, Once, Woke
<1> QED BY <1>1, <1>3 DEF KahnInv, KahnTypeOK, Complete, Sorted

-------------------------------------------------------------------------------
(* A node of the graph comes once, so an order as long as the graph has all.   *)
LEMMA OrderIsWhole ==
  ASSUME KahnInv
  PROVE  /\ Len(order) = NumNodes <=> Placed = Nodes
         /\ Len(order) \in 0 .. NumNodes
<1>1. order \in [1 .. Len(order) -> Nodes] /\ Len(order) \in Nat /\ NumNodes \in Nat
  BY GraphAssumption, LenProperties DEF KahnInv, KahnTypeOK
<1>2. order \in Injection(1 .. Len(order), Nodes)
  BY <1>1 DEF Injection, KahnInv, Once
<1>3. IsFiniteSet(Nodes) /\ Cardinality(Nodes) = NumNodes
  BY NodesFinite
<1>4. Cardinality(1 .. Len(order)) = Len(order)
  <2> DEFINE l == Len(order)
  <2> HIDE DEF l
  <2>1. Cardinality(1 .. l) = IF 1 > l THEN 0 ELSE l - 1 + 1
    BY <1>1, FS_Interval DEF l
  <2>2. Cardinality(1 .. l) = l
    BY <1>1, <2>1 DEF l
  <2> QED BY <2>2 DEF l
<1>5. /\ Len(order) <= NumNodes
      /\ Len(order) = NumNodes <=> order \in Surjection(1 .. Len(order), Nodes)
  BY ONLY <1>2, <1>3, <1>4, FS_Injection
<1>6. order \in Surjection(1 .. Len(order), Nodes) <=> Placed = Nodes
  <2>1. order \in Surjection(1 .. Len(order), Nodes)
          <=> \A t \in Nodes : \E i \in 1 .. Len(order) : order[i] = t
    BY <1>1 DEF Surjection
  <2>2. DOMAIN order = 1 .. Len(order) /\ Placed \in SUBSET Nodes
    BY <1>1 DEF Placed, Range
  <2> QED BY <2>1, <2>2 DEF Placed, Range
<1>7. Len(order) \in 0 .. NumNodes
  <2>1. Len(order) <= NumNodes
    BY ONLY <1>5
  <2>2. Len(order) \in Nat /\ NumNodes \in Nat
    BY ONLY <1>1
  <2> QED BY ONLY <2>1, <2>2
<1>8. Len(order) = NumNodes <=> Placed = Nodes
  BY ONLY <1>5, <1>6
<1> QED BY <1>7, <1>8

(* The nodes that a full queue never reached wait for each other.             *)
LEMMA KahnSorts ==
  ASSUME KahnInv
  PROVE  SortsOrRejects
<1>1. ASSUME status = "CYCLE" PROVE HasCycle
  <2> DEFINE S == Nodes \ Placed
  <2>1. queue = <<>> /\ Len(order) # NumNodes
    BY <1>1 DEF KahnInv, Complete
  <2>2. Queued = {} /\ S # {}
    BY <2>1, OrderIsWhole DEF Queued, Range, KahnInv, KahnTypeOK, Placed
  <2>3. ASSUME NEW n \in S PROVE \E i \in DOMAIN ins[n] : ins[n][i] \in S
    BY <2>2 DEF KahnInv, Woke, Pending
  <2> QED BY <2>2, <2>3 DEF HasCycle
<1> QED BY <1>1 DEF SortsOrRejects, KahnInv

(* When a node gets its turn, the nodes it reads had theirs.                  *)
LEMMA ProducersFirst ==
  ASSUME KahnInv, NEW i \in DOMAIN order, NEW k \in DOMAIN ins[order[i]],
         ins[order[i]][k] \in Nodes
  PROVE  \E j \in 1 .. i - 1 : order[j] = ins[order[i]][k]
<1>1. ins[order[i]][k] \in Inputs \cup {order[j] : j \in 1 .. i - 1}
  BY DEF KahnInv, Sorted
<1>2. Nodes \cap Inputs = {}
  BY GraphAssumption DEF Nodes, Inputs
<1> QED BY <1>1, <1>2
===============================================================================
