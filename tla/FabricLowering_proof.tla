-------------------------- MODULE FabricLowering_proof ------------------------
(***************************************************************************)
(* Proofs about the DAG pipeline, for every graph and every network: weight   *)
(* streaming, peak-aware order, schedule, lifetimes, tiles, routes, ROM        *)
(* slices and the wiring of the fabric.                                     *)
(***************************************************************************)
EXTENDS FabricLowering, KahnOrder_proof

-------------------------------------------------------------------------------
(* Weight streaming, for every schedule, bus width and number of nodes.  The   *)
(* inductive invariant orders the plans pairwise: a load starts no earlier     *)
(* than the computation of the plan before it, which in turn starts no        *)
(* earlier than the one before that ends.                                   *)
Plan == [loadStart : Nat, loadEnd : Nat, start : Nat, end : Nat, weight : Nat]

InTurn(p) == p.loadStart <= p.loadEnd /\ p.loadEnd <= p.start /\ p.start <= p.end

Ordered(ps) ==
  /\ \A i \in DOMAIN ps : InTurn(ps[i])
  /\ \A i, j \in DOMAIN ps :
       i < j => ps[i].start <= ps[j].loadStart /\ ps[i].end <= ps[j].start
  /\ \A i, j \in DOMAIN ps : i + 1 < j => ps[i].end <= ps[j].loadStart

LastEnd(ps) == IF ps = <<>> THEN 0 ELSE ps[Len(ps)].end

StreamInv ==
  /\ nodeSchedules \in Seq(NodeSchedule)
  /\ plans \in Seq(Plan)
  /\ noOverlap \in Nat
  /\ Ordered(plans)
  /\ currentCycle = LastEnd(plans)
  /\ currentCycle <= noOverlap

(* A load takes a natural number of cycles. *)
LEMMA LoadCyclesNat == ASSUME NEW w \in Nat PROVE LoadCycles(w) \in Nat
BY AxiAssumption DEF LoadCycles

(* The cycles of a plan are natural numbers. *)
LEMMA PlanFields ==
  ASSUME NEW q \in Plan
  PROVE  q.loadStart \in Nat /\ q.loadEnd \in Nat /\ q.start \in Nat /\ q.end \in Nat
BY DEF Plan

(* Plans stay ordered when one is added that starts to load no earlier than    *)
(* the last one starts to compute, and computes after it.                    *)
LEMMA AppendOrdered ==
  ASSUME NEW ps \in Seq(Plan), Ordered(ps), NEW p \in Plan, InTurn(p),
         ps # <<>> => /\ ps[Len(ps)].start <= p.loadStart
                      /\ ps[Len(ps)].end <= p.start
  PROVE  /\ Append(ps, p) \in Seq(Plan)
         /\ Ordered(Append(ps, p))
         /\ LastEnd(Append(ps, p)) = p.end
<1> DEFINE qs == Append(ps, p)
           n  == Len(ps)
<1>1. /\ qs \in Seq(Plan) /\ n \in Nat /\ Len(qs) = n + 1 /\ DOMAIN qs = 1 .. n + 1
      /\ DOMAIN ps = 1 .. n /\ qs[n + 1] = p /\ \A i \in 1 .. n : qs[i] = ps[i] /\ ps[i] \in Plan
  OBVIOUS
<1>2. n # 0 => ps # <<>>
  OBVIOUS
<1> HIDE DEF qs, n
<1>3. ASSUME NEW i \in 1 .. n + 1 PROVE InTurn(qs[i])
  BY <1>1 DEF Ordered
<1>4. ASSUME NEW i \in 1 .. n PROVE ps[i].start <= p.loadStart /\ ps[i].end <= p.start
  <2>1. n # 0 /\ n \in 1 .. n
    BY <1>1
  <2>2. ps[n].start <= p.loadStart /\ ps[n].end <= p.start
    BY <1>2, <2>1 DEF n
  <2>3. CASE i = n
    BY <2>2, <2>3
  <2>4. CASE i < n
    <3>1. ps[i].start <= ps[n].loadStart /\ ps[i].end <= ps[n].start
      BY <1>1, <2>1, <2>4 DEF Ordered
    <3>2. InTurn(ps[n])
      BY <1>1, <2>1 DEF Ordered
    <3>3. ps[i] \in Plan /\ ps[n] \in Plan
      BY <1>1, <2>1
    <3>4. ps[i].start \in Nat /\ ps[i].end \in Nat
      BY <3>3, PlanFields
    <3>5. ps[n].loadStart \in Nat /\ ps[n].loadEnd \in Nat /\ ps[n].start \in Nat /\ ps[n].end \in Nat
      BY <3>3, PlanFields
    <3>6. p.loadStart \in Nat /\ p.start \in Nat
      BY PlanFields
    <3>7. ps[n].loadStart <= ps[n].start /\ ps[n].start <= ps[n].end
      BY <3>2, <3>5 DEF InTurn
    <3>8. ps[i].start <= p.loadStart
      BY <2>2, <3>1, <3>4, <3>5, <3>6, <3>7, SMTT(30)
    <3>9. ps[i].end <= p.start
      BY <2>2, <3>1, <3>4, <3>5, <3>6, <3>7, SMTT(30)
    <3> QED
      BY <3>8, <3>9
  <2> QED
    BY <1>1, <2>3, <2>4
<1>5. ASSUME NEW i \in 1 .. n, i < n PROVE ps[i].end <= p.loadStart
  <2>1. n \in 1 .. n /\ n # 0
    BY <1>1, <1>5
  <2>2. ps[i].end <= ps[n].start
    BY <1>1, <1>5, <2>1 DEF Ordered
  <2>3. ps[n].start <= p.loadStart
    BY <1>4, <2>1
  <2>4. ps[i].end \in Nat /\ ps[n].start \in Nat /\ p.loadStart \in Nat
    BY <1>1, <2>1, PlanFields
  <2> QED
    BY <2>2, <2>3, <2>4
<1>6. ASSUME NEW i \in 1 .. n + 1, NEW j \in 1 .. n + 1, i < j
      PROVE  qs[i].start <= qs[j].loadStart /\ qs[i].end <= qs[j].start
  <2>1. CASE j = n + 1
    BY <1>1, <1>4, <1>6, <2>1
  <2>2. CASE j # n + 1
    BY SMTT(30), <1>1, <1>6, <2>2 DEF Ordered
  <2> QED
    BY <2>1, <2>2
<1>7. ASSUME NEW i \in 1 .. n + 1, NEW j \in 1 .. n + 1, i + 1 < j
      PROVE  qs[i].end <= qs[j].loadStart
  <2>1. CASE j = n + 1
    BY <1>1, <1>5, <1>7, <2>1
  <2>2. CASE j # n + 1
    BY SMTT(30), <1>1, <1>7, <2>2 DEF Ordered
  <2> QED
    BY <2>1, <2>2
<1>8. Ordered(qs)
  BY <1>1, <1>3, <1>6, <1>7 DEF Ordered
<1>9. LastEnd(qs) = p.end
  BY <1>1 DEF LastEnd
<1> QED
  BY <1>1, <1>8, <1>9 DEF qs

(* The invariant holds before the first plan. *)
LEMMA StreamStarts == StreamInit => StreamInv
BY DEF StreamInit, StreamInv, Ordered, LastEnd

(* A layer with weights keeps the invariant. *)
LEMMA LayerStep ==
  ASSUME StreamInv, NEW c \in Nat, NEW w \in Nat, StreamLayer(c, w), UNCHANGED nodeSchedules
  PROVE  StreamInv'
<1> DEFINE load == LoadCycles(w)
           ls   == LoadStart
           st   == ComputeStart(ls + load)
           p    == [loadStart |-> ls, loadEnd |-> ls + load, start |-> st,
                    end |-> st + c, weight |-> w]
<1>1. load \in Nat
  BY LoadCyclesNat
<1>2. /\ plans' = Append(plans, p)
      /\ currentCycle' = st + c
      /\ noOverlap' = noOverlap + load + c
  BY DEF StreamLayer
<1>3. /\ ls \in Nat /\ st \in Nat
      /\ ls + load <= st
      /\ st <= currentCycle + load
      /\ plans # <<>> => plans[Len(plans)].start <= ls /\ plans[Len(plans)].end <= st
  <2>1. CASE plans = <<>>
    BY <1>1, <2>1 DEF StreamInv, LastEnd, LoadStart, ComputeStart
  <2>2. CASE plans # <<>>
    <3>1. Len(plans) \in DOMAIN plans /\ plans[Len(plans)] \in Plan
      BY <2>2 DEF StreamInv
    <3>2. plans[Len(plans)].start <= plans[Len(plans)].end
      BY <3>1 DEF StreamInv, Ordered, InTurn
    <3>3. currentCycle = plans[Len(plans)].end
      BY <2>2 DEF StreamInv, LastEnd
    <3> QED
      BY <1>1, <2>2, <3>1, <3>2, <3>3 DEF LoadStart, ComputeStart, Previous, MaxOf, Plan
  <2> QED
    BY <2>1, <2>2
<1> HIDE DEF load, ls, st
<1>4. p \in Plan /\ InTurn(p)
  BY <1>1, <1>3 DEF Plan, InTurn
<1>5. plans' \in Seq(Plan) /\ Ordered(plans') /\ LastEnd(plans') = st + c
  <2> HIDE DEF p
  <2>1. p.loadStart = ls /\ p.start = st /\ p.end = st + c
    BY DEF p
  <2> QED
    BY <1>2, <1>3, <1>4, <2>1, AppendOrdered DEF StreamInv
<1>6. noOverlap' \in Nat /\ st + c <= noOverlap'
  <2>1. currentCycle \in Nat
    <3>1. CASE plans = <<>>
      BY <3>1 DEF StreamInv, LastEnd
    <3>2. CASE plans # <<>>
      <4>1. plans[Len(plans)] \in Plan
        BY <3>2 DEF StreamInv
      <4> QED
        BY <3>2, <4>1, PlanFields DEF StreamInv, LastEnd
    <3> QED
      BY <3>1, <3>2
  <2> QED
    BY <1>1, <1>2, <1>3, <2>1 DEF StreamInv
<1> QED
  BY <1>2, <1>5, <1>6 DEF StreamInv

(* A node without weights keeps the invariant. *)
LEMMA ComputeStep ==
  ASSUME StreamInv, NEW c \in Nat, NEW w \in Nat, ComputeOnly(c, w), UNCHANGED nodeSchedules
  PROVE  StreamInv'
<1> DEFINE p == [loadStart |-> currentCycle, loadEnd |-> currentCycle,
                 start |-> currentCycle, end |-> currentCycle + c, weight |-> 0]
<1>1. /\ currentCycle \in Nat
      /\ plans # <<>> => /\ plans[Len(plans)].start <= currentCycle
                         /\ plans[Len(plans)].end <= currentCycle
  <2>1. CASE plans = <<>>
    BY <2>1 DEF StreamInv, LastEnd
  <2>2. CASE plans # <<>>
    <3>1. Len(plans) \in DOMAIN plans /\ plans[Len(plans)] \in Plan
      BY <2>2 DEF StreamInv
    <3>2. plans[Len(plans)].start <= plans[Len(plans)].end
      BY <3>1 DEF StreamInv, Ordered, InTurn
    <3> QED
      BY <2>2, <3>1, <3>2 DEF StreamInv, LastEnd, Plan
  <2> QED
    BY <2>1, <2>2
<1>2. p \in Plan /\ InTurn(p)
  BY <1>1 DEF Plan, InTurn
<1>3. plans' \in Seq(Plan) /\ Ordered(plans') /\ LastEnd(plans') = currentCycle + c
  <2>1. plans' = Append(plans, p)
    BY DEF ComputeOnly
  <2>2. p.loadStart = currentCycle /\ p.start = currentCycle /\ p.end = currentCycle + c
    OBVIOUS
  <2> HIDE DEF p
  <2> QED
    BY <1>1, <1>2, <2>1, <2>2, AppendOrdered DEF StreamInv
<1> QED
  BY <1>1, <1>3 DEF StreamInv, ComputeOnly

(* Every step of WeightStream keeps the invariant. *)
LEMMA StreamKeeps ==
  StreamInv /\ [Scheduled \/ PlanNext]_<<nodeSchedules, streamVars>> => StreamInv'
<1> SUFFICES ASSUME StreamInv, [Scheduled \/ PlanNext]_<<nodeSchedules, streamVars>>
             PROVE  StreamInv'
  OBVIOUS
<1>1. CASE Scheduled
  BY <1>1 DEF StreamInv, Scheduled, streamVars
<1>2. CASE PlanNext
  <2> DEFINE ns == nodeSchedules[Len(plans) + 1]
             c  == ns.end - ns.start
  <2>1. /\ ns \in NodeSchedule /\ UNCHANGED nodeSchedules
        /\ StreamLayer(c, ns.weight) \/ ComputeOnly(c, ns.weight)
    BY <1>2 DEF StreamInv, PlanNext
  <2>2. c \in Nat /\ ns.weight \in Nat
    BY <2>1 DEF NodeSchedule
  <2> HIDE DEF ns, c
  <2> QED
    BY <2>1, <2>2, LayerStep, ComputeStep
<1>3. CASE UNCHANGED <<nodeSchedules, streamVars>>
  BY <1>3 DEF StreamInv, streamVars
<1> QED
  BY <1>1, <1>2, <1>3

(* The inductive invariant of the weight streamer. *)
THEOREM StreamInvariance == StreamSpec => []StreamInv
BY StreamStarts, StreamKeeps, PTL DEF StreamSpec

(* The bus never loads for two layers at once. *)
THEOREM Bus == StreamSpec => []BusIsExclusive
<1>1. ASSUME StreamInv, NEW i \in DOMAIN plans, NEW j \in DOMAIN plans, i < j
      PROVE  plans[i].loadEnd <= plans[j].loadStart
  <2>1. plans[i] \in Plan /\ plans[j] \in Plan
    BY <1>1 DEF StreamInv
  <2>2. plans[i].loadEnd \in Nat /\ plans[i].start \in Nat /\ plans[j].loadStart \in Nat
    BY <2>1, PlanFields
  <2>3. plans[i].loadEnd <= plans[i].start
    BY <1>1 DEF StreamInv, Ordered, InTurn
  <2>4. plans[i].start <= plans[j].loadStart
    BY <1>1 DEF StreamInv, Ordered
  <2> QED
    BY <2>2, <2>3, <2>4
<1>2. StreamInv => BusIsExclusive
  BY <1>1 DEF BusIsExclusive
<1> QED
  BY <1>2, StreamInvariance, PTL

(* Two weight buffers are enough for a network of any depth. *)
THEOREM Buffers == StreamSpec => []TwoBuffersSuffice
<1>1. StreamInv => TwoBuffersSuffice
  BY DEF StreamInv, Ordered, TwoBuffersSuffice
<1> QED
  BY <1>1, StreamInvariance, PTL

(* Prefetching never makes a schedule longer. *)
THEOREM Savings == StreamSpec => []OverlapNeverCosts
<1>1. StreamInv => OverlapNeverCosts
  BY DEF StreamInv, OverlapNeverCosts
<1> QED
  BY <1>1, StreamInvariance, PTL

-------------------------------------------------------------------------------
LEMMA Counted ==
  ASSUME NEW k \in Nat
  PROVE  IsFiniteSet(1 .. k) /\ Cardinality(1 .. k) = k
<1>1. IsFiniteSet(1 .. k) /\ Cardinality(1 .. k) = IF 1 > k THEN 0 ELSE k - 1 + 1
  BY FS_Interval
<1> QED BY <1>1

(* A finite set with a total preorder, given as what comes no sooner than each  *)
(* member, has a first member.                                              *)
LEMMA FirstOf ==
  ASSUME NEW S, IsFiniteSet(S), S # {}, NEW later \in [S -> SUBSET S],
         \A x, y \in S : y \in later[x] \/ x \in later[y],
         \A x, y, z \in S : y \in later[x] /\ z \in later[y] => z \in later[x]
  PROVE  \E x \in S : \A y \in S : y \in later[x]
<1> DEFINE Sooner_(x) == S \ later[x]
           Number == {Cardinality(Sooner_(x)) : x \in S}
<1>1. \A x \in S : IsFiniteSet(Sooner_(x)) /\ Cardinality(Sooner_(x)) \in Nat
  BY FS_Difference, FS_CardinalityType
<1>2. Number \in SUBSET Nat /\ Number # {}
  BY <1>1
<1>3. PICK k \in Number : \A j \in Number : k <= j
  <2> HIDE DEF Number
  <2> QED BY <1>2, Least
<1>4. PICK x \in S : Cardinality(Sooner_(x)) = k
  OBVIOUS
<1>5. ASSUME NEW y \in S, y \notin later[x] PROVE FALSE
  <2>1. x \in later[y] /\ y \in later[y]
    BY <1>5
  <2>2. Sooner_(y) \in SUBSET Sooner_(x) /\ y \in Sooner_(x) /\ y \notin Sooner_(y)
    BY <1>5, <2>1
  <2>3. k <= Cardinality(Sooner_(y))
    BY ONLY <1>3, <1>5
  <2> HIDE DEF Sooner_, Number
  <2>4. Cardinality(Sooner_(y)) <= Cardinality(Sooner_(x))
        /\ (Cardinality(Sooner_(x)) = Cardinality(Sooner_(y)) => Sooner_(x) = Sooner_(y))
    BY <1>1, <2>2, FS_Subset
  <2>5. Cardinality(Sooner_(x)) = Cardinality(Sooner_(y))
    BY <1>1, <1>4, <2>3, <2>4
  <2> QED BY <2>2, <2>4, <2>5
<1> QED BY <1>5

(* A set of bytes: f[x] of them for every x in S.                            *)
Stack(S, f) == UNION {{x} \X (1 .. f[x]) : x \in S}

LEMMA StackSize ==
  ASSUME NEW S, IsFiniteSet(S), NEW f, \A x \in S : f[x] \in Nat
  PROVE  IsFiniteSet(Stack(S, f)) /\ Cardinality(Stack(S, f)) \in Nat
<1> DEFINE T == {{x} \X (1 .. f[x]) : x \in S}
           h == [x \in S |-> {x} \X (1 .. f[x])]
<1>1. h \in Surjection(S, T)
  <2>1. h \in [S -> T] /\ \A t \in T : \E x \in S : h[x] = t
    OBVIOUS
  <2> HIDE DEF h, T
  <2> QED BY <2>1 DEF Surjection
<1>2. IsFiniteSet(T)
  <2> HIDE DEF T, h
  <2> QED BY <1>1, FS_Surjection
<1>3. ASSUME NEW x \in S PROVE IsFiniteSet({x} \X (1 .. f[x]))
  <2>1. IsFiniteSet({x}) /\ IsFiniteSet(1 .. f[x])
    BY FS_Singleton, Counted
  <2> QED BY <2>1, FS_Product
<1>4. \A t \in T : IsFiniteSet(t)
  BY <1>3
<1>5. IsFiniteSet(UNION T)
  <2> HIDE DEF T
  <2> QED BY <1>2, <1>4, FS_UNION
<1> QED BY <1>5, FS_CardinalityType DEF Stack

LEMMA StackAdds ==
  ASSUME NEW S, IsFiniteSet(S), NEW f, \A x \in S : f[x] \in Nat,
         NEW e, e \notin S, f[e] \in Nat
  PROVE  Cardinality(Stack(S \cup {e}, f)) = Cardinality(Stack(S, f)) + f[e]
<1> DEFINE A == Stack(S, f)
           B == {e} \X (1 .. f[e])
<1>1. Stack(S \cup {e}, f) = A \cup B
  BY DEF Stack
<1>2. A \cap B = {}
  BY DEF Stack
<1>3. IsFiniteSet(A) /\ Cardinality(A) \in Nat
  BY StackSize
<1>4. IsFiniteSet(B) /\ Cardinality(B) = f[e]
  <2>1. IsFiniteSet({e}) /\ Cardinality({e}) = 1
    BY FS_Singleton
  <2> DEFINE I == 1 .. f[e]
  <2>2. IsFiniteSet(I) /\ Cardinality(I) = f[e]
    BY Counted
  <2> HIDE DEF I
  <2>3. IsFiniteSet({e} \X I) /\ Cardinality({e} \X I) = 1 * Cardinality(I)
    BY <2>1, <2>2, FS_Product
  <2>4. Cardinality({e} \X I) = f[e]
    BY <2>2, <2>3
  <2> QED BY <2>3, <2>4 DEF I
<1> DEFINE k == f[e]
<1>7. k \in Nat
  OBVIOUS
<1> HIDE DEF A, B, k
<1>5. Cardinality(A \cup B) = Cardinality(A) + Cardinality(B) - Cardinality(A \cap B)
  BY <1>3, <1>4, FS_Union
<1>6. Cardinality({}) = 0
  BY FS_EmptySet
<1>8. Cardinality(B) = k
  BY <1>4 DEF k
<1>9. Cardinality(A \cup B) = Cardinality(A) + k
  <2>1. Cardinality(A \cap B) = 0
    BY <1>2, <1>6
  <2> QED BY ONLY <2>1, <1>3, <1>5, <1>7, <1>8
<1> QED BY <1>1, <1>9 DEF A, k

-------------------------------------------------------------------------------
(* What the cycle models return, for tensors of any shape.                    *)
Positive == Nat \ {0}

LEMMA ShapeFacts ==
  ASSUME Shaped, NEW t \in Tensors
  PROVE  /\ shape[t] \in Seq(Positive) /\ Len(shape[t]) \in {1, 3}
         /\ Numel(shape[t]) \in Positive /\ LastDim(shape[t]) \in Positive
         /\ shape[t][1] \in Positive
         /\ IsImage(t) => shape[t][2] \in Positive /\ shape[t][3] \in Positive
<1> DEFINE s == shape[t]
<1>1. s \in Seq(Positive) /\ Len(s) \in {1, 3}
  BY DEF Shaped, Positive
<1> HIDE DEF s
<1>2. \A i \in 1 .. Len(s) : s[i] \in Positive
  BY <1>1
<1>3. s[1] \in Positive /\ s[Len(s)] \in Positive
  BY <1>1, <1>2
<1>4. Len(s) = 3 => s[2] \in Positive /\ s[3] \in Positive
  BY <1>1, <1>2
<1>5. Numel(s) \in Positive
  <2>1. CASE Len(s) = 3
    <3>1. \A a, b \in Positive : a * b \in Positive
      BY DEF Positive
    <3>2. s[1] * s[2] * s[3] \in Positive
      BY <1>3, <1>4, <2>1, <3>1
    <3> QED BY <2>1, <3>2 DEF Numel
  <2> QED BY <1>3, <2>1 DEF Numel
<1> QED BY <1>1, <1>3, <1>4, <1>5 DEF s, LastDim, IsImage

(* The tensors a node reads.                                                *)
LEMMA ReadShapes ==
  ASSUME Shaped, ins \in [Nodes -> ActLists], NEW n \in Nodes
  PROVE  ins[n][1] \in Tensors /\ n \in Tensors
<1>1. PICK k \in 1 .. MaxActs : ins[n] \in [1 .. k -> Tensors]
  BY DEF ActLists
<1>2. 1 \in 1 .. k
  OBVIOUS
<1> QED BY <1>1, <1>2 DEF Tensors

LEMMA LanesExist ==
  ASSUME NEW o \in Positive
  PROVE  LanesFor(o) \in 1 .. MaxParallelism
<1> DEFINE T == {p \in 1 .. MaxParallelism : o % p = 0}
           P(p) == o % p = 0 /\ \A q \in p + 1 .. MaxParallelism : o % q # 0
<1>1. MaxParallelism \in Nat \ {0} /\ 1 \in 1 .. MaxParallelism
  BY LanesAssumption
<1>2. o % 1 = 0
  BY DEF Positive
<1>3. T \in SUBSET (0 .. MaxParallelism) /\ T # {}
  BY <1>1, <1>2
<1>4. PICK p \in T : \A y \in T : y <= p
  <2> HIDE DEF T
  <2> QED BY <1>1, <1>3, Greatest
<1>5. P(p)
  <2>1. \A q \in p + 1 .. MaxParallelism : q \in 1 .. MaxParallelism /\ ~(q <= p)
    BY <1>1
  <2> QED BY <1>4, <2>1
<1>6. \E x \in 1 .. MaxParallelism : P(x)
  BY <1>5
<1> QED BY <1>6 DEF LanesFor

LEMMA DivNat ==
  ASSUME NEW a \in Nat, NEW b \in Positive
  PROVE  a \div b \in Nat /\ CeilDiv(a, b) \in Nat
<1>1. b \in Nat \ {0} /\ a + b - 1 \in Nat
  BY DEF Positive
<1> DEFINE c == a + b - 1
<1> HIDE DEF c
<1>2. a \div b \in Nat /\ c \div b \in Nat
  BY <1>1, Remainder DEF c
<1> QED BY <1>2 DEF c, CeilDiv

LEMMA ProductNat == \A a, b \in Nat : a * b \in Nat /\ a + b \in Nat
  OBVIOUS

LEMMA CyclesNat ==
  ASSUME Shaped, ins \in [Nodes -> ActLists], NEW n \in Nodes
  PROVE  EstimateCycles(n) \in Nat
<1> DEFINE i == InShape(n)
           o == shape[n]
           model == CycleModel[op[n]]
           lanes(k) == LanesFor(k)
<1>1. /\ LastDim(i) \in Positive /\ LastDim(o) \in Positive
      /\ Numel(i) \in Positive /\ Numel(o) \in Positive
      /\ i[1] \in Positive /\ o[1] \in Positive
  BY ReadShapes, ShapeFacts DEF InShape
<1>2. model \in {"Conv", "Pool"} =>
        i[2] \in Positive /\ i[3] \in Positive /\ o[2] \in Positive /\ o[3] \in Positive
  BY ReadShapes, ShapeFacts DEF InShape, Shaped
<1>3. \A k \in Positive : k \in Nat
  BY DEF Positive
<1>4. \A k \in Positive : LanesFor(k) \in Positive
  BY LanesExist, LanesAssumption DEF Positive
<1>5. MaxParallelism \in Positive /\ Kernel \in Nat /\ 149 \in Nat /\ 10 \in Nat /\ 2 \in Nat /\ 3 \in Nat /\ 0 \in Nat
  BY LanesAssumption DEF Positive, Kernel
<1> HIDE DEF i, o
<1>6. LinearCycles(LastDim(i), LastDim(o)) \in Nat
  <2> DEFINE a == LastDim(o) \div LanesFor(LastDim(o))
  <2>1. a \in Nat /\ LastDim(i) \in Nat
    BY <1>1, <1>3, <1>4, DivNat
  <2> HIDE DEF a
  <2>2. a * (LastDim(i) + 149) \in Nat
    BY <1>5, <2>1, ProductNat
  <2> QED BY <2>2 DEF LinearCycles, a
<1>7. model = "Conv" => ConvCycles(n) \in Nat
  <2> SUFFICES ASSUME model = "Conv" PROVE ConvCycles(n) \in Nat
    OBVIOUS
  <2> DEFINE a == CeilDiv(o[1], LanesFor(o[1]))
             b == Kernel * Kernel * i[1] + 10
  <2>1. a \in Nat /\ o[2] \in Nat /\ o[3] \in Nat /\ i[1] \in Nat
    BY <1>1, <1>2, <1>3, <1>4, DivNat
  <2>2. b \in Nat
    BY <1>5, <2>1, ProductNat
  <2> HIDE DEF a, b
  <2>3. a * o[2] * o[3] * b \in Nat
    BY <2>1, <2>2, ProductNat
  <2> QED BY <2>3 DEF ConvCycles, a, b, i, o
<1>8. model = "Pool" => PoolCycles(n) \in Nat
  <2> SUFFICES ASSUME model = "Pool" PROVE PoolCycles(n) \in Nat
    OBVIOUS
  <2>1. Numel(o) \in Nat /\ i[2] \in Nat /\ i[3] \in Nat
    BY <1>1, <1>2, <1>3
  <2>2. Numel(o) * i[2] * i[3] \in Nat
    BY <2>1, ProductNat
  <2> QED BY <2>2 DEF PoolCycles, i, o
<1>9. ElementwiseCycles(n) \in Nat
  <2>1. Numel(o) \in Nat
    BY <1>1, <1>3
  <2> QED BY <1>5, <2>1, DivNat DEF ElementwiseCycles, o
<1>10. 3 * LastDim(i) \in Nat /\ 2 * LastDim(i) + 10 \in Nat
  BY <1>1, <1>3, <1>5, ProductNat
<1>11. model \in {"Linear", "Conv", "Elementwise", "Softmax", "LayerNorm", "MatMul", "Pool", "Reshape"}
  BY DEF Shaped, CycleModel
<1>12. EstimateCycles(n) =
         CASE model \in {"Linear", "MatMul"} -> LinearCycles(LastDim(i), LastDim(o))
           [] model = "Conv"        -> ConvCycles(n)
           [] model = "Softmax"     -> 3 * LastDim(i)
           [] model = "LayerNorm"   -> 2 * LastDim(i) + 10
           [] model = "Elementwise" -> ElementwiseCycles(n)
           [] model = "Pool"        -> PoolCycles(n)
           [] model = "Reshape"     -> 0
  BY DEF EstimateCycles, i, o
<1> HIDE DEF model
<1> QED BY <1>6, <1>7, <1>8, <1>9, <1>10, <1>11, <1>12

LEMMA WeightsNat ==
  ASSUME Shaped, ins \in [Nodes -> ActLists], NEW n \in Nodes
  PROVE  /\ BytesPerOutput(n) \in Positive /\ OutputDim(n) \in Positive
         /\ WeightBytes(n) \in Nat
<1>1. InShape(n)[1] \in Positive /\ OutputDim(n) \in Positive
  BY ReadShapes, ShapeFacts DEF InShape, OutputDim
<1>2. \A a, b \in Positive : a * b \in Positive
  BY DEF Positive
<1>3. Kernel \in Positive
  BY DEF Kernel, Positive
<1>4. BytesPerOutput(n) \in Positive
  BY <1>1, <1>2, <1>3 DEF BytesPerOutput
<1>5. OutputDim(n) * BytesPerOutput(n) \in Positive
  BY <1>1, <1>2, <1>4
<1> QED BY <1>1, <1>4, <1>5 DEF WeightBytes, Positive

LEMMA BytesNat ==
  ASSUME Shaped, NEW t \in Tensors
  PROVE  SizeBytes[t] \in Nat
<1>1. Numel(shape[t]) \in Nat
  BY ShapeFacts DEF Positive
<1> QED BY <1>1, ProductNat DEF SizeBytes, Element

-------------------------------------------------------------------------------
(* The peak-aware order.  in_deg counts the reads whose producer is not chosen   *)
(* yet, and a node is ready when nothing is: the loop only takes nodes whose   *)
(* producers it took.                                                       *)
Chosen == Range(reorder)

Waiting(m, D) == {i \in DOMAIN ins[m] : ins[m][i] \in Nodes \ D}

ReadsChosen(s) ==
  \A i \in DOMAIN s : \A k \in DOMAIN ins[s[i]] :
    ins[s[i]][k] \in Inputs \cup {s[j] : j \in 1 .. i - 1}

PeakInv ==
  /\ inDeg \in [Nodes -> Nat]
  /\ remaining \in [Tensors -> Nat]
  /\ ready \in SUBSET Nodes
  /\ reorder \in Seq(Nodes)
  /\ \A m \in Nodes : inDeg[m] = Cardinality(Waiting(m, Chosen))
  /\ IsInjective(reorder) /\ Chosen \cap ready = {}
  /\ \A m \in Nodes : m \in Chosen \cup ready <=> Waiting(m, Chosen) = {}
  /\ ReadsChosen(reorder)

LEMMA WaitingFinite ==
  ASSUME ins \in [Nodes -> ActLists], NEW m \in Nodes, NEW D
  PROVE  /\ IsFiniteSet(Waiting(m, D)) /\ Cardinality(Waiting(m, D)) \in Nat
         /\ Cardinality(Waiting(m, D)) = 0 <=> Waiting(m, D) = {}
<1>1. Waiting(m, D) \in SUBSET DOMAIN ins[m]
  BY DEF Waiting
<1>2. IsFiniteSet(Waiting(m, D)) /\ Cardinality(Waiting(m, D)) \in Nat
  BY <1>1, PositionsFinite
<1> QED BY <1>2, FS_EmptySet

(* What choosing n changes for a node that reads it.                         *)
LEMMA WaitsLess ==
  ASSUME ins \in [Nodes -> ActLists], NEW m \in Nodes, NEW n \in Nodes, NEW D, n \notin D
  PROVE  /\ Edges(n, m) \in Nat
         /\ Cardinality(Waiting(m, D \cup {n})) = Cardinality(Waiting(m, D)) - Edges(n, m)
         /\ Waiting(m, D) = {} => Waiting(m, D \cup {n}) = {} /\ Edges(n, m) = 0
         /\ (Edges(n, m) > 0 /\ Cardinality(Waiting(m, D)) = Edges(n, m))
              <=> (Waiting(m, D) # {} /\ Waiting(m, D \cup {n}) = {})
<1> DEFINE W == Waiting(m, D)
           V == Waiting(m, D \cup {n})
           G == {i \in DOMAIN ins[m] : ins[m][i] = n}
<1>1. V = W \ G /\ G \in SUBSET W /\ G \in SUBSET DOMAIN ins[m]
  BY DEF Waiting
<1>2. Edges(n, m) = Cardinality(G)
  BY DEF Edges
<1>3. IsFiniteSet(G) /\ Cardinality(G) \in Nat
  <2> HIDE DEF G
  <2> QED BY <1>1, PositionsFinite
<1>4. /\ IsFiniteSet(W) /\ Cardinality(W) \in Nat /\ (Cardinality(W) = 0 <=> W = {})
      /\ IsFiniteSet(V) /\ Cardinality(V) \in Nat /\ (Cardinality(V) = 0 <=> V = {})
  BY WaitingFinite
<1> HIDE DEF W, V, G
<1>5. Cardinality(V) = Cardinality(W) - Cardinality(G)
  <2>1. W \cap G = G
    BY <1>1
  <2>2. Cardinality(W \ G) = Cardinality(W) - Cardinality(W \cap G)
    BY <1>4, FS_Difference
  <2> QED BY <1>1, <2>1, <2>2
<1>6. Cardinality(G) = 0 <=> G = {}
  BY <1>3, FS_EmptySet
<1>7. W = {} => V = {} /\ G = {}
  BY <1>1
<1>8. V = {} <=> Cardinality(W) = Cardinality(G)
  BY <1>3, <1>4, <1>5
<1>9. (Cardinality(G) > 0 /\ Cardinality(W) = Cardinality(G)) <=> (W # {} /\ V = {})
  BY <1>1, <1>3, <1>4, <1>6, <1>8
<1> QED BY <1>2, <1>3, <1>5, <1>6, <1>7, <1>9 DEF W, V

LEMMA ReadsNat == \A t \in Tensors : Cardinality(Reads(t)) \in Nat
<1>1. IsFiniteSet(Nodes) /\ MaxActs \in Nat
  BY NodesFinite, GraphAssumption
<1>2. IsFiniteSet(Nodes \X (1 .. MaxActs))
  BY <1>1, Counted, FS_Product
<1> SUFFICES ASSUME NEW t \in Tensors PROVE Cardinality(Reads(t)) \in Nat
  OBVIOUS
<1>3. Reads(t) \in SUBSET (Nodes \X (1 .. MaxActs))
  BY DEF Reads
<1>4. IsFiniteSet(Reads(t))
  BY <1>2, <1>3, FS_Subset
<1> QED BY <1>4, FS_CardinalityType

(* The cost of a node is a number.                                           *)
LEMMA FreedNat ==
  ASSUME ins \in [Nodes -> ActLists], bytes \in [Tensors -> Nat], NEW n \in Nodes
  PROVE  Freed(n) \in Nat
<1> DEFINE L == LastReads(n)
           f == [i \in DOMAIN ins[n] |-> bytes[ins[n][i]]]
<1>1. L \in SUBSET DOMAIN ins[n]
  BY DEF LastReads
<1>2. IsFiniteSet(L)
  <2> HIDE DEF L
  <2> QED BY <1>1, PositionsFinite
<1>3. \A i \in L : f[i] \in Nat /\ f[i] = bytes[ins[n][i]]
  <2> HIDE DEF L
  <2>1. \A i \in DOMAIN ins[n] : ins[n][i] \in Tensors
    BY ReadsTensors DEF Tensors
  <2> QED BY <1>1, <2>1
<1>4. Freed(n) = Cardinality(Stack(L, f))
  <2>1. \A i \in L : {i} \X (1 .. bytes[ins[n][i]]) = {i} \X (1 .. f[i])
    BY <1>3
  <2> HIDE DEF f
  <2> QED BY <2>1 DEF Freed, Stack
<1> HIDE DEF L, f
<1> QED BY <1>2, <1>3, <1>4, StackSize

LEMMA CanonicalPlace ==
  ASSUME KahnInv, status = "ORDERED", NEW n \in Nodes
  PROVE  /\ CanonicalIdx(n) \in DOMAIN order /\ CanonicalIdx(n) \in Nat
         /\ order[CanonicalIdx(n)] = n
<1>1. Placed = Nodes /\ order \in Seq(Nodes)
  BY OrderIsWhole DEF KahnInv, Complete, KahnTypeOK
<1>2. \E i \in DOMAIN order : order[i] = n
  BY <1>1 DEF Placed, Range
<1>3. CanonicalIdx(n) \in DOMAIN order /\ order[CanonicalIdx(n)] = n
  BY <1>2 DEF CanonicalIdx
<1> QED BY <1>1, <1>3

(* There is always a cheapest ready node.                                    *)
LEMMA CheapestIsReady ==
  ASSUME KahnInv, status = "ORDERED", bytes \in [Tensors -> Nat],
         ready \in SUBSET Nodes, ready # {}
  PROVE  Cheapest \in ready
<1>1. IsFiniteSet(ready)
  BY NodesFinite
<1>2. \A n \in ready : bytes[n] \in Nat /\ Freed(n) \in Nat /\ CanonicalIdx(n) \in Nat
  BY FreedNat, CanonicalPlace DEF Tensors, KahnInv, KahnTypeOK
<1> DEFINE later == [n \in ready |-> {m \in ready : Before(n, m)}]
<1>3. \A n, m \in ready : Before(n, m) \/ Before(m, n)
  BY <1>2 DEF Before
<1>4. \A n, m, k \in ready : Before(n, m) /\ Before(m, k) => Before(n, k)
  <2> SUFFICES ASSUME NEW n \in ready, NEW m \in ready, NEW k \in ready,
                      Before(n, m), Before(m, k)
               PROVE  Before(n, k)
    OBVIOUS
  <2> QED BY <1>2 DEF Before
<1>5. /\ later \in [ready -> SUBSET ready]
      /\ \A n, m \in ready : m \in later[n] <=> Before(n, m)
  OBVIOUS
<1> HIDE DEF later
<1>6. \E n \in ready : \A m \in ready : m \in later[n]
  BY <1>1, <1>3, <1>4, <1>5, FirstOf
<1>7. \E n \in ready : \A m \in ready : Before(n, m)
  BY <1>5, <1>6
<1> QED BY <1>7 DEF Cheapest

LEMMA PeakStarts ==
  ASSUME ins \in [Nodes -> ActLists], PeakInit
  PROVE  PeakInv
<1>1. Chosen = {} /\ reorder \in Seq(Nodes) /\ DOMAIN reorder = {}
  BY DEF PeakInit, Chosen, Range
<1>2. \A m \in Nodes : InDegreeOf(m) = Cardinality(Waiting(m, Chosen))
  BY <1>1 DEF InDegreeOf, Waiting
<1>3. inDeg \in [Nodes -> Nat] /\ \A m \in Nodes : inDeg[m] = Cardinality(Waiting(m, Chosen))
  BY <1>2, WaitingFinite DEF PeakInit
<1>4. remaining \in [Tensors -> Nat]
  BY ReadsNat DEF PeakInit
<1>5. \A m \in Nodes : m \in ready <=> Waiting(m, Chosen) = {}
  BY <1>2, WaitingFinite DEF PeakInit
<1> QED BY <1>1, <1>3, <1>4, <1>5 DEF PeakInv, PeakInit, IsInjective, ReadsChosen

LEMMA PeakKeeps ==
  ASSUME PeakInv, KahnInv, bytes \in [Tensors -> Nat], Choose, UNCHANGED ins
  PROVE  PeakInv'
<1> DEFINE n == Cheapest
           D == Chosen
<1>1. /\ ins \in [Nodes -> ActLists] /\ ins' = ins
      /\ inDeg \in [Nodes -> Nat] /\ remaining \in [Tensors -> Nat]
      /\ reorder \in Seq(Nodes) /\ ready \in SUBSET Nodes
  BY DEF PeakInv, KahnInv, KahnTypeOK
<1>2. /\ reorder' = Append(reorder, n)
      /\ remaining' = [t \in Tensors |-> Used(t, n)]
      /\ inDeg' = [m \in Nodes |-> inDeg[m] - Edges(n, m)]
      /\ ready' = (ready \ {n}) \cup WokenBy(n)
  BY DEF Choose
<1>3. n \in ready /\ n \in Nodes
  BY <1>1, CheapestIsReady DEF Choose
<1> HIDE DEF n
<1>4. n \notin D /\ Waiting(n, D) = {}
  BY <1>3 DEF PeakInv
<1>5. Chosen' = D \cup {n} /\ IsInjective(reorder') /\ reorder' \in Seq(Nodes)
  BY <1>1, <1>2, <1>3, <1>4, AppendRange, AppendProperties DEF PeakInv, Chosen
<1>6. \A m \in Nodes : Waiting(m, Chosen)' = Waiting(m, D \cup {n})
  BY <1>1, <1>5 DEF Waiting
<1>7. \A m \in Nodes : inDeg[m] = Cardinality(Waiting(m, D))
  BY DEF PeakInv
<1>8. ASSUME NEW m \in Nodes
      PROVE  /\ inDeg'[m] = Cardinality(Waiting(m, D \cup {n})) /\ inDeg'[m] \in Nat
             /\ m \in WokenBy(n) <=> (Waiting(m, D) # {} /\ Waiting(m, D \cup {n}) = {})
             /\ Waiting(m, D) = {} => Waiting(m, D \cup {n}) = {}
  <2>1. /\ Cardinality(Waiting(m, D \cup {n})) = Cardinality(Waiting(m, D)) - Edges(n, m)
        /\ Waiting(m, D) = {} => Waiting(m, D \cup {n}) = {}
        /\ (Edges(n, m) > 0 /\ Cardinality(Waiting(m, D)) = Edges(n, m))
              <=> (Waiting(m, D) # {} /\ Waiting(m, D \cup {n}) = {})
    BY <1>1, <1>3, <1>4, WaitsLess
  <2>2. Cardinality(Waiting(m, D \cup {n})) \in Nat
    BY <1>1, WaitingFinite
  <2> QED BY <1>2, <1>7, <2>1, <2>2 DEF WokenBy
<1>9. inDeg' \in [Nodes -> Nat] /\ \A m \in Nodes : inDeg'[m] = Cardinality(Waiting(m, Chosen)')
  BY <1>2, <1>6, <1>8
<1>10. remaining' \in [Tensors -> Nat]
  <2>1. ASSUME NEW t \in Tensors PROVE Used(t, n) \in Nat
    <3>1. {i \in DOMAIN ins[n] : ins[n][i] = t} \in SUBSET DOMAIN ins[n]
      OBVIOUS
    <3>2. Edges(t, n) \in Nat /\ remaining[t] \in Nat
      BY <1>1, <1>3, <3>1, PositionsFinite DEF Edges
    <3> QED BY <3>2 DEF Used
  <2> QED BY <1>2, <2>1
<1>11. ready' \in SUBSET Nodes /\ Chosen' \cap ready' = {}
  <2>1. \A m \in Nodes : m \in D \cup ready <=> Waiting(m, D) = {}
    BY DEF PeakInv
  <2>2. WokenBy(n) \in SUBSET Nodes
    BY DEF WokenBy
  <2>3. WokenBy(n) \cap (D \cup ready) = {}
    BY <1>8, <2>1, <2>2
  <2>4. D \cap ready = {}
    BY DEF PeakInv
  <2> QED BY <1>1, <1>2, <1>3, <1>5, <2>2, <2>3, <2>4
<1>12. \A m \in Nodes : m \in Chosen' \cup ready' <=> Waiting(m, Chosen)' = {}
  <2>1. \A m \in Nodes : m \in D \cup ready <=> Waiting(m, D) = {}
    BY DEF PeakInv
  <2> QED BY <1>2, <1>3, <1>5, <1>6, <1>8, <2>1
<1>13. ReadsChosen(reorder)'
  <2>1. /\ Len(reorder) \in Nat /\ DOMAIN reorder = 1 .. Len(reorder)
        /\ DOMAIN reorder' = 1 .. Len(reorder) + 1
        /\ \A i \in 1 .. Len(reorder) : reorder'[i] = reorder[i]
        /\ reorder'[Len(reorder) + 1] = n
    BY <1>1, <1>2, <1>3, AppendProperties, LenProperties
  <2>2. SUFFICES ASSUME NEW i \in DOMAIN reorder', NEW k \in DOMAIN ins[reorder'[i]]
                 PROVE  ins[reorder'[i]][k] \in Inputs \cup {reorder'[j] : j \in 1 .. i - 1}
    BY <1>1 DEF ReadsChosen
  <2>3. CASE i \in DOMAIN reorder
    <3>1. {reorder'[j] : j \in 1 .. i - 1} = {reorder[j] : j \in 1 .. i - 1} /\ reorder'[i] = reorder[i]
      BY <2>1, <2>3
    <3> QED BY <2>2, <2>3, <3>1 DEF PeakInv, ReadsChosen
  <2>4. CASE i = Len(reorder) + 1
    <3>1. {reorder'[j] : j \in 1 .. i - 1} = D
      BY <2>1, <2>4 DEF Chosen, Range
    <3>2. reorder'[i] = n /\ k \in DOMAIN ins[n]
      BY <2>1, <2>2, <2>4
    <3>3. ins[n][k] \in Inputs \cup D
      BY <1>1, <1>3, <1>4, <3>2, ReadsTensors DEF Waiting
    <3> QED BY <3>1, <3>2, <3>3
  <2> QED BY <2>1, <2>2, <2>3, <2>4
<1>14. /\ \A m \in Nodes : (inDeg[m] = Cardinality(Waiting(m, Chosen)))'
       /\ \A m \in Nodes : (m \in Chosen \cup ready <=> Waiting(m, Chosen) = {})'
  BY <1>9, <1>12
<1> QED BY <1>5, <1>9, <1>10, <1>11, <1>13, <1>14 DEF PeakInv

LEMMA PeakRests ==
  ASSUME PeakInv, UNCHANGED <<ins, peakVars>>
  PROVE  PeakInv'
<1>1. UNCHANGED <<ins, inDeg, remaining, ready, reorder>>
  BY DEF peakVars
<1>2. Chosen' = Chosen /\ \A m, D : Waiting(m, D)' = Waiting(m, D)
  BY <1>1 DEF Chosen, Waiting
<1>3. ReadsChosen(reorder)' = ReadsChosen(reorder)
  BY <1>1 DEF ReadsChosen
<1>4. \A m : Waiting(m, Chosen)' = Waiting(m, Chosen)
  BY <1>1 DEF Chosen, Waiting
<1> QED BY <1>1, <1>2, <1>3, <1>4 DEF PeakInv

(* When no node is ready the order has every node: of those it lacked, the first *)
(* in the canonical order would have been ready.                              *)
LEMMA ReorderIsWhole ==
  ASSUME PeakInv, KahnInv, Reordered
  PROVE  Chosen = Nodes /\ Len(reorder) = NumNodes
<1>1. /\ Placed = Nodes /\ order \in Seq(Nodes) /\ status = "ORDERED" /\ ready = {}
      /\ ins \in [Nodes -> ActLists] /\ reorder \in Seq(Nodes)
  BY OrderIsWhole DEF KahnInv, Complete, KahnTypeOK, Reordered, PeakInv
<1>2. Chosen = Nodes
  <2> DEFINE T == {i \in DOMAIN order : order[i] \notin Chosen}
  <2>1. SUFFICES ASSUME T # {} PROVE FALSE
    <3>1. Chosen \in SUBSET Nodes
      BY <1>1 DEF Chosen, Range
    <3> QED BY <1>1, <2>1, <3>1 DEF Placed, Range
  <2>2. T \in SUBSET Nat
    BY <1>1
  <2>3. PICK i \in T : \A j \in T : i <= j
    <3> HIDE DEF T
    <3> QED BY <2>1, <2>2, Least
  <2>4. order[i] \in Nodes /\ i \in DOMAIN order /\ i \in Nat /\ DOMAIN order = 1 .. Len(order) /\ Len(order) \in Nat
    BY <1>1
  <2>5. \A j \in 1 .. i - 1 : order[j] \in Chosen
    BY <2>3, <2>4
  <2>6. Waiting(order[i], Chosen) = {}
    <3>1. SUFFICES ASSUME NEW k \in DOMAIN ins[order[i]], ins[order[i]][k] \in Nodes \ Chosen
                   PROVE  FALSE
      BY DEF Waiting
    <3>2. \E j \in 1 .. i - 1 : order[j] = ins[order[i]][k]
      BY <2>4, <3>1, ProducersFirst
    <3> QED BY <2>5, <3>1, <3>2
  <2>7. order[i] \in Chosen
    BY <1>1, <2>4, <2>6 DEF PeakInv
  <2> QED BY <2>7
<1>3. Len(reorder) = NumNodes
  <2>1. Len(reorder) \in Nat /\ reorder \in [1 .. Len(reorder) -> Nodes]
    BY <1>1
  <2>2. reorder \in Injection(1 .. Len(reorder), Nodes)
    BY <2>1 DEF Injection, PeakInv
  <2>3. IsFiniteSet(Nodes) /\ Cardinality(Nodes) = NumNodes
    BY NodesFinite
  <2>4. reorder \in Surjection(1 .. Len(reorder), Nodes)
    <3>1. DOMAIN reorder = 1 .. Len(reorder)
      BY <2>1
    <3>2. \A t \in Nodes : \E i \in 1 .. Len(reorder) : reorder[i] = t
      BY <1>2, <3>1 DEF Chosen, Range
    <3> QED BY <2>1, <3>2 DEF Surjection
  <2>5. Cardinality(1 .. Len(reorder)) = Cardinality(Nodes)
    BY ONLY <2>2, <2>3, <2>4, FS_Injection
  <2>6. Cardinality(1 .. Len(reorder)) = Len(reorder)
    BY <2>1, Counted
  <2> QED BY <2>3, <2>5, <2>6
<1> QED BY <1>2, <1>3

-------------------------------------------------------------------------------
(* The schedule: the nodes in the peak-aware order, each slot beginning no       *)
(* earlier than those before it end, and lifetimes computed from all of them.  *)
Ends == \A i, j \in DOMAIN nodeSchedules : i < j => nodeSchedules[i].end <= nodeSchedules[j].start

Slots ==
  /\ nodeSchedules \in Seq(NodeSchedule) /\ Len(nodeSchedules) \in 0 .. NumNodes
  /\ nodeSchedules # <<>> => Reordered
  /\ \A i \in DOMAIN nodeSchedules : nodeSchedules[i].node = reorder[i]
  /\ Ends

Lifetimes == [t \in Nodes |-> [produce |-> Slot(t).end, free |-> FreeCycle(t)]]

DagInv ==
  /\ KahnInv /\ PeakInv
  /\ Shaped /\ bytes = SizeBytes
  /\ Slots
  /\ lifetimes # <<>> => Len(nodeSchedules) = NumNodes /\ lifetimes = Lifetimes

LEMMA DagBytes == ASSUME DagInv PROVE bytes \in [Tensors -> Nat]
<1>1. \A t \in Tensors : SizeBytes[t] \in Nat
  BY BytesNat DEF DagInv
<1>2. bytes = [t \in Tensors |-> SizeBytes[t]]
  BY DEF DagInv, SizeBytes
<1> QED BY <1>1, <1>2

LEMMA DagStarts == Init => DagInv
<1> SUFFICES ASSUME Init PROVE DagInv
  OBVIOUS
<1>1. ins \in [Nodes -> ActLists]
  BY DEF Init, GraphInit
<1>2. KahnInv /\ PeakInv
  BY <1>1, KahnStarts, PeakStarts DEF Init
<1>3. Shaped /\ bytes = SizeBytes
  BY DEF Init, OpInit
<1>4. nodeSchedules = <<>> /\ lifetimes = <<>>
  BY DEF Init, StreamInit
<1>5. 0 \in 0 .. NumNodes
  BY GraphAssumption
<1> QED BY <1>2, <1>3, <1>4, <1>5 DEF DagInv, Slots, Ends

(* Another slot, behind the last one. *)
LEMMA SlotAdded ==
  ASSUME DagInv, Scheduling
  PROVE  /\ Slots' /\ lifetimes = <<>>
         /\ Scheduled
<1> DEFINE ns == nodeSchedules
           k  == Len(nodeSchedules)
           e  == [node |-> NextNode, start |-> Now,
                  end |-> Now + EstimateCycles(NextNode), weight |-> WeightBytes(NextNode)]
<1>1. /\ ns \in Seq(NodeSchedule) /\ k \in 0 .. NumNodes /\ k < NumNodes /\ Reordered
      /\ ns' = Append(ns, e) /\ Ends
      /\ \A i \in DOMAIN ns : ns[i].node = reorder[i]
  BY DEF DagInv, Slots, Scheduling
<1>2. NumNodes \in Nat /\ k \in Nat /\ lifetimes = <<>>
  BY <1>1, GraphAssumption DEF DagInv
<1>3. UNCHANGED <<reorder, status, ready, streamVars>>
  BY DEF Scheduling, kahnVars, peakVars
<1>4. reorder \in Seq(Nodes) /\ Len(reorder) = NumNodes
  BY <1>1, ReorderIsWhole DEF DagInv, PeakInv
<1>5. NextNode \in Nodes /\ NextNode = reorder[k + 1] /\ NextNode \in Nat
  BY <1>1, <1>2, <1>4, GraphAssumption DEF NextNode, Nodes
<1>6. ins \in [Nodes -> ActLists] /\ Shaped
  BY DEF DagInv, KahnInv, KahnTypeOK
<1>7. EstimateCycles(NextNode) \in Nat /\ WeightBytes(NextNode) \in Nat
  BY <1>5, <1>6, CyclesNat, WeightsNat
<1>8. Now \in Nat /\ \A i \in DOMAIN ns : ns[i].end <= Now
  <2>1. CASE ns = <<>>
    BY <2>1 DEF Now
  <2>2. CASE ns # <<>>
    <3>1. k \in 1 .. k /\ Now = ns[k].end /\ DOMAIN ns = 1 .. k
      BY <1>1, <1>2, <2>2 DEF Now
    <3>2. \A i \in 1 .. k : ns[i] \in NodeSchedule
      BY <1>1
    <3>3. \A i \in 1 .. k : ns[i].end \in Nat /\ ns[i].start \in Nat /\ ns[i].start <= ns[i].end
      BY <3>2 DEF NodeSchedule
    <3> HIDE DEF ns, k
    <3>4. ASSUME NEW i \in 1 .. k PROVE ns[i].end <= ns[k].end
      <4>1. CASE i = k
        BY <3>1, <3>3, <4>1
      <4>2. CASE i < k
        <5>1. ns[i].end <= ns[k].start
          BY <1>1, <3>1, <4>2 DEF Ends, ns
        <5> QED BY <3>1, <3>3, <5>1
      <4> QED BY <1>2, <4>1, <4>2
    <3> QED BY <3>1, <3>3, <3>4
  <2> QED BY <2>1, <2>2
<1>9. e \in NodeSchedule
  BY <1>5, <1>7, <1>8 DEF NodeSchedule
<1>10. e.node = reorder[k + 1] /\ e.start = Now
  BY <1>5
<1> HIDE DEF e
<1>11. /\ ns' \in Seq(NodeSchedule) /\ Len(ns') = k + 1 /\ DOMAIN ns' = 1 .. k + 1
       /\ DOMAIN ns = 1 .. k /\ \A i \in 1 .. k : ns'[i] = ns[i]
       /\ ns'[k + 1] = e /\ ns' # <<>>
  BY <1>1, <1>9, AppendProperties, LenProperties
<1>12. Ends'
  <2>1. SUFFICES ASSUME NEW i \in 1 .. k + 1, NEW j \in 1 .. k + 1, i < j
                 PROVE  ns'[i].end <= ns'[j].start
    BY <1>11 DEF Ends
  <2>2. i \in 1 .. k
    BY <1>2, <2>1
  <2>3. CASE j = k + 1
    BY <1>8, <1>10, <1>11, <2>2, <2>3
  <2>4. CASE j \in 1 .. k
    BY <1>1, <1>11, <2>1, <2>2, <2>4 DEF Ends
  <2> QED BY <1>2, <2>3, <2>4
<1>13. \A i \in DOMAIN ns' : ns'[i].node = reorder'[i]
  BY <1>1, <1>3, <1>10, <1>11
<1>14. Reordered' /\ Len(ns') \in 0 .. NumNodes
  BY <1>1, <1>2, <1>3, <1>11 DEF Reordered
<1>15. Slots'
  BY <1>11, <1>12, <1>13, <1>14 DEF Slots
<1>16. SubSeq(ns', 1, k) = ns
  <2>1. SubSeq(ns', 1, k) = [i \in 1 .. k |-> ns'[i]]
    BY <1>2, <1>11
  <2> QED BY <1>1, <1>11, <2>1
<1> QED BY <1>2, <1>3, <1>11, <1>15, <1>16 DEF Scheduled

LEMMA SlotsRest ==
  ASSUME DagInv, UNCHANGED <<nodeSchedules, reorder, status, ready, ins>>
  PROVE  Slots' /\ Lifetimes' = Lifetimes
<1>1. Slots'
  BY DEF DagInv, Slots, Ends, Reordered
<1>2. \A t : Slot(t)' = Slot(t)
  BY DEF Slot
<1>3. \A t : Consumers(t)' = Consumers(t)
  BY DEF Consumers, Reads
<1>4. \A t : FreeCycle(t)' = FreeCycle(t)
  BY <1>2, <1>3 DEF FreeCycle
<1> QED BY <1>1, <1>2, <1>4 DEF Lifetimes

LEMMA DagKeeps == DagInv /\ [Next]_vars => DagInv'
<1> SUFFICES ASSUME DagInv, [Next]_vars PROVE DagInv'
  OBVIOUS
<1>1. CASE Ordering
  <2>1. UNCHANGED <<ins, op, shape, bytes, peakVars, nodeSchedules, lifetimes, inDeg, remaining, ready, reorder>>
    BY <1>1 DEF Ordering, fixedVars, graphVars, opVars, peakVars, sweepVars
  <2>2. KahnInv'
    BY <1>1, <2>1, KahnPops, KahnFinishes DEF Ordering, DagInv
  <2>3. PeakInv'
    BY <2>1, PeakRests DEF DagInv
  <2>4. nodeSchedules = <<>> /\ lifetimes = <<>>
    <3>1. status # "ORDERED"
      BY <1>1 DEF Ordering, Pop, Finish
    <3>2. nodeSchedules = <<>>
      BY <3>1 DEF DagInv, Slots, Reordered
    <3>3. Len(nodeSchedules) # NumNodes
      BY <3>2, GraphAssumption
    <3> QED BY <3>2, <3>3 DEF DagInv
  <2>5. Slots'
    <3>1. 0 \in 0 .. NumNodes
      BY GraphAssumption
    <3> QED BY <2>1, <2>4, <3>1 DEF Slots, Ends
  <2>6. Shaped' /\ bytes' = SizeBytes'
    BY <2>1 DEF DagInv, Shaped, SizeBytes, IsImage, Numel
  <2> QED BY <2>1, <2>2, <2>3, <2>4, <2>5, <2>6 DEF DagInv
<1>2. CASE Reordering
  <2>1. /\ UNCHANGED <<ins, op, shape, kahnVars, nodeSchedules, lifetimes>> /\ Choose /\ bytes' = bytes
        /\ ready # {}
    BY <1>2 DEF Reordering, graphVars, opVars, sweepVars, Choose
  <2>2. KahnInv'
    BY <2>1, KahnRests DEF DagInv
  <2>3. PeakInv'
    BY <2>1, DagBytes, PeakKeeps DEF DagInv
  <2>4. nodeSchedules = <<>> /\ lifetimes = <<>>
    <3>1. nodeSchedules = <<>>
      BY <2>1 DEF DagInv, Slots, Reordered
    <3>2. Len(nodeSchedules) # NumNodes
      BY <3>1, GraphAssumption
    <3> QED BY <3>1, <3>2 DEF DagInv
  <2>5. Slots'
    <3>1. 0 \in 0 .. NumNodes
      BY GraphAssumption
    <3> QED BY <2>1, <2>4, <3>1 DEF Slots, Ends
  <2>6. Shaped' /\ bytes' = SizeBytes'
    BY <2>1 DEF DagInv, Shaped, SizeBytes, IsImage, Numel
  <2> QED BY <2>1, <2>2, <2>3, <2>4, <2>5, <2>6 DEF DagInv
<1>3. CASE UNCHANGED <<fixedVars, kahnVars, peakVars>>
  <2>1. UNCHANGED <<ins, op, shape, bytes, kahnVars, peakVars, reorder, status, ready>>
    BY <1>3 DEF fixedVars, graphVars, opVars, kahnVars, peakVars
  <2>2. KahnInv' /\ PeakInv'
    BY <2>1, KahnRests, PeakRests DEF DagInv
  <2>3. Shaped' /\ bytes' = SizeBytes'
    BY <2>1 DEF DagInv, Shaped, SizeBytes, IsImage, Numel
  <2>4. CASE Scheduling
    <3>1. Slots' /\ lifetimes = <<>> /\ lifetimes' = lifetimes
      BY <2>4, SlotAdded DEF Scheduling, sweepVars
    <3> QED BY <2>2, <2>3, <3>1 DEF DagInv
  <2>5. CASE Analyzing
    <3>1. /\ UNCHANGED nodeSchedules /\ Len(nodeSchedules) = NumNodes
          /\ lifetimes' = Lifetimes
      BY <2>5 DEF Analyzing, Lifetimes
    <3>2. Slots' /\ Lifetimes' = Lifetimes
      BY <2>1, <3>1, SlotsRest
    <3> QED BY <2>2, <2>3, <3>1, <3>2 DEF DagInv
  <2>6. CASE UNCHANGED <<nodeSchedules, lifetimes>>
    <3>1. Slots' /\ Lifetimes' = Lifetimes
      BY <2>1, <2>6, SlotsRest
    <3> QED BY <2>2, <2>3, <2>6, <3>1 DEF DagInv
  <2>7. Scheduling \/ Analyzing \/ UNCHANGED <<nodeSchedules, lifetimes>> \/ Ordering \/ Reordering
    <3>1. CASE Sweeping
      BY <3>1 DEF Sweeping
    <3>2. CASE Streaming
      BY <3>2 DEF Streaming, PlanNext, sweepVars
    <3>3. CASE UNCHANGED vars
      BY <3>3 DEF vars, sweepVars
    <3> QED BY <3>1, <3>2, <3>3 DEF Next
  <2> QED BY <1>1, <1>2, <2>4, <2>5, <2>6, <2>7
<1>4. Ordering \/ Reordering \/ UNCHANGED <<fixedVars, kahnVars, peakVars>>
  BY DEF Next, Scheduling, Analyzing, Sweeping, Streaming, vars
<1> QED BY <1>1, <1>2, <1>3, <1>4

LEMMA TileSteps == [TileNext]_<<vars, tileVars>> => [Next]_vars
BY DEF TileNext, Earlier, Mapping, Routing

LEMMA DagInvariance == TileSpec => []DagInv
<1>1. TileInit => DagInv
  BY DagStarts DEF TileInit
<1>2. DagInv /\ [TileNext]_<<vars, tileVars>> => DagInv'
  BY DagKeeps, TileSteps
<1> QED BY <1>1, <1>2, PTL DEF TileSpec

(* The pipeline uses the weight streamer the way the streamer expects: it hands *)
(* over the schedule one node at a time, numbers in it are natural, and nothing  *)
(* it does later touches a plan.  So what is proved of the streamer alone holds *)
(* of the pipeline.                                                         *)
THEOREM PipelineStreams == TileSpec => StreamSpec
<1>1. TileInit => StreamInit
  BY DEF TileInit, Init
<1>2. DagInv /\ [TileNext]_<<vars, tileVars>>
        => [Scheduled \/ PlanNext]_<<nodeSchedules, streamVars>>
  <2> SUFFICES ASSUME DagInv, [Next]_vars
               PROVE  [Scheduled \/ PlanNext]_<<nodeSchedules, streamVars>>
    BY TileSteps
  <2>1. CASE Scheduling
    BY <2>1, SlotAdded
  <2>2. CASE Streaming
    BY <2>2 DEF Streaming
  <2>3. CASE UNCHANGED <<nodeSchedules, streamVars>>
    BY <2>3
  <2>4. Scheduling \/ Streaming \/ UNCHANGED <<nodeSchedules, streamVars>>
    BY DEF Next, Ordering, Reordering, Analyzing, Sweeping, vars
  <2> QED BY <2>1, <2>2, <2>3, <2>4
<1> QED BY <1>1, <1>2, DagInvariance, PTL DEF TileSpec, StreamSpec

(* In the whole pipeline, for every graph and every network, weights load over   *)
(* one bus into two buffers, and prefetching never costs.                    *)
COROLLARY PipelineLoads == TileSpec => [](BusIsExclusive /\ TwoBuffersSuffice /\ OverlapNeverCosts)
BY PipelineStreams, Bus, Buffers, Savings, PTL

-------------------------------------------------------------------------------
(* When everything is scheduled, every node has its slot, and a reader's comes   *)
(* after those of the nodes it reads.                                        *)
LEMMA SlotOf ==
  ASSUME DagInv, Len(nodeSchedules) = NumNodes, NEW i \in 1 .. NumNodes
  PROVE  Slot(reorder[i]) = nodeSchedules[i]
<1>1. /\ nodeSchedules \in Seq(NodeSchedule) /\ DOMAIN nodeSchedules = 1 .. NumNodes
      /\ \A j \in 1 .. NumNodes : nodeSchedules[j].node = reorder[j]
      /\ IsInjective(reorder) /\ Len(reorder) = NumNodes /\ reorder \in Seq(Nodes)
  <2>1. nodeSchedules # <<>>
    BY GraphAssumption
  <2>2. Reordered
    BY <2>1 DEF DagInv, Slots
  <2>3. Len(reorder) = NumNodes
    BY <2>2, ReorderIsWhole DEF DagInv
  <2> QED BY <2>3 DEF DagInv, Slots, PeakInv
<1>2. nodeSchedules[i] \in Range(nodeSchedules) /\ nodeSchedules[i].node = reorder[i]
  BY <1>1 DEF Range
<1>3. ASSUME NEW ns \in Range(nodeSchedules), ns.node = reorder[i] PROVE ns = nodeSchedules[i]
  <2>1. PICK j \in 1 .. NumNodes : ns = nodeSchedules[j]
    BY <1>1, <1>3 DEF Range
  <2>2. reorder[j] = reorder[i] /\ DOMAIN reorder = 1 .. NumNodes
    BY <1>1, <1>3, <2>1
  <2> QED BY <1>1, <2>1, <2>2 DEF IsInjective
<1> QED BY <1>2, <1>3 DEF Slot

(* Where a node stands in the peak-aware order.                               *)
LEMMA SlotPlace ==
  ASSUME DagInv, Len(nodeSchedules) = NumNodes, NEW n \in Nodes
  PROVE  \E i \in 1 .. NumNodes : reorder[i] = n /\ Slot(n) = nodeSchedules[i]
<1>1. nodeSchedules # <<>>
  BY GraphAssumption
<1>2. Reordered
  BY <1>1 DEF DagInv, Slots
<1>3. Chosen = Nodes /\ Len(reorder) = NumNodes /\ reorder \in Seq(Nodes)
  BY <1>2, ReorderIsWhole DEF DagInv, PeakInv
<1>4. DOMAIN reorder = 1 .. NumNodes
  BY <1>3
<1>5. PICK i \in 1 .. NumNodes : reorder[i] = n
  BY <1>3, <1>4 DEF Chosen, Range
<1> QED BY <1>5, SlotOf

LEMMA SlotTimes ==
  ASSUME DagInv, NEW i \in DOMAIN nodeSchedules
  PROVE  /\ nodeSchedules[i].start \in Nat /\ nodeSchedules[i].end \in Nat
         /\ nodeSchedules[i].start <= nodeSchedules[i].end
<1>1. nodeSchedules[i] \in NodeSchedule
  BY DEF DagInv, Slots
<1> QED BY <1>1 DEF NodeSchedule

LEMMA ReadersWait ==
  ASSUME DagInv, Len(nodeSchedules) = NumNodes, NEW m \in Nodes, NEW n \in Range(ins[m]) \cap Nodes
  PROVE  Slot(n).end <= Slot(m).start
<1>1. PICK i \in 1 .. NumNodes : reorder[i] = m /\ Slot(m) = nodeSchedules[i]
  BY SlotPlace
<1>2. PICK k \in DOMAIN ins[m] : ins[m][k] = n
  BY DEF Range
<1>3. DOMAIN nodeSchedules = 1 .. NumNodes /\ DOMAIN reorder = 1 .. NumNodes /\ NumNodes \in Nat
  <2>1. nodeSchedules # <<>>
    BY GraphAssumption
  <2>2. Reordered
    BY <2>1 DEF DagInv, Slots
  <2>3. Len(reorder) = NumNodes /\ reorder \in Seq(Nodes)
    BY <2>2, ReorderIsWhole DEF DagInv, PeakInv
  <2> QED BY <2>3, GraphAssumption DEF DagInv, Slots
<1>4. n \in {reorder[j] : j \in 1 .. i - 1}
  <2>1. n \in Inputs \cup {reorder[j] : j \in 1 .. i - 1}
    BY <1>1, <1>2, <1>3 DEF DagInv, PeakInv, ReadsChosen
  <2>2. Nodes \cap Inputs = {}
    BY GraphAssumption DEF Nodes, Inputs
  <2> QED BY <2>1, <2>2
<1>5. PICK j \in 1 .. i - 1 : reorder[j] = n
  BY <1>4
<1>6. j \in 1 .. NumNodes /\ j < i
  BY <1>3
<1>7. Slot(n) = nodeSchedules[j]
  BY <1>5, <1>6, SlotOf
<1>8. nodeSchedules[j].end <= nodeSchedules[i].start
  BY <1>3, <1>6 DEF DagInv, Slots, Ends
<1> QED BY <1>1, <1>7, <1>8

(* Nothing ends later than the last slot. *)
LEMMA LatestEnd ==
  ASSUME DagInv, Len(nodeSchedules) = NumNodes, NEW n \in Nodes
  PROVE  /\ Slot(n).end \in 0 .. nodeSchedules[NumNodes].end
         /\ Slot(n).start \in Nat /\ Slot(n).start <= Slot(n).end
         /\ nodeSchedules[NumNodes].end \in Nat
<1>1. PICK i \in 1 .. NumNodes : reorder[i] = n /\ Slot(n) = nodeSchedules[i]
  BY SlotPlace
<1>2. DOMAIN nodeSchedules = 1 .. NumNodes /\ NumNodes \in Nat \ {0} /\ NumNodes \in 1 .. NumNodes
  BY GraphAssumption DEF DagInv, Slots
<1> DEFINE e == nodeSchedules[NumNodes]
           s == nodeSchedules[i]
<1>3. /\ s.start \in Nat /\ s.end \in Nat /\ s.start <= s.end
      /\ e.start \in Nat /\ e.end \in Nat /\ e.start <= e.end
  BY <1>2, SlotTimes
<1>4. i = NumNodes \/ s.end <= e.start
  BY <1>2 DEF DagInv, Slots, Ends
<1>5. s.end <= e.end
  BY <1>3, <1>4
<1> HIDE DEF e
<1> QED BY <1>1, <1>3, <1>5 DEF e

(* What a node reads is live from before it starts until it ends: in every graph, *)
(* whatever order saved most memory and whatever each operator costs.         *)
THEOREM InputsStayLive == TileSpec => []InputsAreLive
<1>1. ASSUME DagInv, lifetimes # <<>>, NEW m \in Nodes, NEW t \in Range(ins[m]) \cap Nodes
      PROVE  lifetimes[t].produce <= Slot(m).start /\ Slot(m).end <= lifetimes[t].free
  <2>1. Len(nodeSchedules) = NumNodes /\ lifetimes = Lifetimes
    BY <1>1 DEF DagInv
  <2>2. lifetimes[t].produce = Slot(t).end /\ lifetimes[t].free = FreeCycle(t)
    BY <2>1 DEF Lifetimes
  <2>3. Slot(t).end <= Slot(m).start
    BY <1>1, <2>1, ReadersWait
  <2>4. m \in Consumers(t)
    <3>1. PICK k \in DOMAIN ins[m] : ins[m][k] = t
      BY DEF Range
    <3>2. ins \in [Nodes -> ActLists]
      BY <1>1 DEF DagInv, KahnInv, KahnTypeOK
    <3>3. PICK q \in 1 .. MaxActs : ins[m] \in [1 .. q -> Tensors]
      BY <3>2 DEF ActLists
    <3>4. k \in 1 .. MaxActs
      BY <3>1, <3>3, GraphAssumption
    <3>5. <<m, k>> \in Reads(t)
      BY <3>1, <3>4 DEF Reads
    <3> QED BY <3>5 DEF Consumers
  <2>5. Consumers(t) \in SUBSET Nodes
    BY DEF Consumers, Reads
  <2> DEFINE T == {Slot(q).end : q \in Consumers(t)}
             b == nodeSchedules[NumNodes].end
  <2>6. T \in SUBSET (0 .. b) /\ b \in Nat /\ Slot(m).end \in T
    BY <1>1, <2>1, <2>4, <2>5, LatestEnd
  <2> HIDE DEF b
  <2>7. FreeCycle(t) = Max(T)
    BY <2>4 DEF FreeCycle
  <2> HIDE DEF T
  <2>8. Slot(m).end <= Max(T)
    BY <2>6, Greatest
  <2> QED BY <2>2, <2>3, <2>7, <2>8
<1>2. DagInv => InputsAreLive
  BY <1>1 DEF InputsAreLive
<1> QED BY <1>2, DagInvariance, PTL

(* The start of a slot, and the canonical order among equals, order the nodes.   *)
LEMMA StartsOrder ==
  ASSUME DagInv, Len(nodeSchedules) = NumNodes
  PROVE  Lists(ByStart, Nodes, {p \in Nodes \X Nodes : StartsBefore(p[1], p[2])})
<1> DEFINE R == {p \in Nodes \X Nodes : StartsBefore(p[1], p[2])}
<1>1. \A x, y \in Nodes : <<x, y>> \in R <=> StartsBefore(x, y)
  OBVIOUS
<1> HIDE DEF R
<1>2. KahnInv /\ status = "ORDERED"
  <2>1. nodeSchedules # <<>>
    BY GraphAssumption
  <2> QED BY <2>1 DEF DagInv, Slots, Reordered
<1>3. \A x \in Nodes : /\ Slot(x).start \in Nat /\ CanonicalIdx(x) \in Nat
                       /\ order[CanonicalIdx(x)] = x
  BY <1>2, CanonicalPlace, LatestEnd
<1>4. \A x, y \in Nodes : CanonicalIdx(x) = CanonicalIdx(y) => x = y
  BY <1>3
<1>5. StrictOrder(Nodes, R)
  <2>1. \A x \in Nodes : <<x, x>> \notin R
    BY <1>1, <1>3 DEF StartsBefore
  <2>2. ASSUME NEW x \in Nodes, NEW y \in Nodes, NEW z \in Nodes, StartsBefore(x, y), StartsBefore(y, z)
        PROVE  StartsBefore(x, z)
    BY <1>3, <2>2 DEF StartsBefore
  <2>3. ASSUME NEW x \in Nodes, NEW y \in Nodes, x # y
        PROVE  StartsBefore(x, y) \/ StartsBefore(y, x)
    <3>1. CanonicalIdx(x) # CanonicalIdx(y)
      BY <1>4, <2>3
    <3> QED BY <1>3, <3>1 DEF StartsBefore
  <2>4. \A x, y, z \in Nodes : <<x, y>> \in R /\ <<y, z>> \in R => <<x, z>> \in R
    BY <1>1, <2>2
  <2>5. \A x, y \in Nodes : x # y => <<x, y>> \in R \/ <<y, x>> \in R
    BY <1>1, <2>3
  <2> QED BY <2>1, <2>4, <2>5 DEF StrictOrder
<1>6. Lists(Ranked(Nodes, R), Nodes, R)
  BY <1>5, NodesFinite, RankedLists
<1> QED BY <1>6 DEF ByStart, R

(* The overlaps that the validator reports are ties of operators that take no    *)
(* cycle, and nothing starts before what it reads is produced.                *)
THEOREM OverlapsAreOnlyTies == TileSpec => []OverlapsAreTies
<1>1. ASSUME DagInv, Len(nodeSchedules) = NumNodes, NEW i \in Overlaps
      PROVE  /\ Slot(ByStart[i + 1]).start = Slot(ByStart[i + 1]).end
             /\ Slot(ByStart[i + 1]).start = Slot(ByStart[i]).start
  <2> DEFINE R == {p \in Nodes \X Nodes : StartsBefore(p[1], p[2])}
  <2>1. Lists(ByStart, Nodes, R)
    BY <1>1, StartsOrder
  <2>2. ByStart \in Seq(Nodes) /\ Len(ByStart) = NumNodes /\ NumNodes \in Nat /\ IsInjective(ByStart)
    <3> HIDE DEF R
    <3> QED BY <2>1, NodesFinite, GraphAssumption DEF Lists
  <2>3. i \in 1 .. NumNodes - 1 /\ Slot(ByStart[i]).end > Slot(ByStart[i + 1]).start
    BY DEF Overlaps
  <2>4. i \in 1 .. NumNodes /\ i + 1 \in 1 .. NumNodes /\ i < i + 1
    BY <2>2, <2>3
  <2> DEFINE a == ByStart[i]
             b == ByStart[i + 1]
  <2>5. a \in Nodes /\ b \in Nodes
    BY <2>2, <2>4
  <2>6. <<a, b>> \in R
    <3> HIDE DEF R
    <3> QED BY <2>1, <2>2, <2>4 DEF Lists
  <2>7. StartsBefore(a, b) /\ a # b
    <3>1. a # b
      BY <2>2, <2>4 DEF IsInjective
    <3> HIDE DEF a, b
    <3> QED BY <2>6, <3>1
  <2> HIDE DEF a, b, R
  <2>8. PICK p \in 1 .. NumNodes : reorder[p] = a /\ Slot(a) = nodeSchedules[p]
    BY <1>1, <2>5, SlotPlace
  <2>9. PICK q \in 1 .. NumNodes : reorder[q] = b /\ Slot(b) = nodeSchedules[q]
    BY <1>1, <2>5, SlotPlace
  <2>10. DOMAIN nodeSchedules = 1 .. NumNodes
    BY <1>1 DEF DagInv, Slots
  <2> DEFINE s == nodeSchedules[p]
             t == nodeSchedules[q]
  <2>11. /\ s.start \in Nat /\ s.end \in Nat /\ s.start <= s.end
         /\ t.start \in Nat /\ t.end \in Nat /\ t.start <= t.end
    BY <1>1, <2>10, SlotTimes
  <2>12. p < q => s.end <= t.start
    BY <1>1, <2>10 DEF DagInv, Slots, Ends
  <2>13. q < p => t.end <= s.start
    BY <1>1, <2>10 DEF DagInv, Slots, Ends
  <2>14. p # q
    BY <2>7, <2>8, <2>9
  <2> HIDE DEF s, t
  <2>15. s.end > t.start
    BY <2>3, <2>8, <2>9 DEF a, b, s, t
  <2>16. s.start <= t.start
    <3>1. Slot(a).start <= Slot(b).start
      BY <2>7, <2>8, <2>9, <2>11 DEF StartsBefore, s, t
    <3> QED BY <2>8, <2>9, <3>1 DEF s, t
  <2>17. q < p
    BY <2>2, <2>11, <2>12, <2>14, <2>15
  <2>18. t.start = t.end /\ t.start = s.start
    BY <2>11, <2>13, <2>16, <2>17
  <2> QED BY <2>8, <2>9, <2>18 DEF a, b, s, t
<1>2. DagInv => OverlapsAreTies
  BY <1>1, ReadersWait DEF OverlapsAreTies
<1> QED BY <1>2, DagInvariance, PTL

-------------------------------------------------------------------------------
(* The sweep.  Two sets say how far it is: what has been born and what has died *)
(* by now; the bytes live are the difference, the peak is at least what was    *)
(* live at every cycle passed, and at most what is live at some cycle at which  *)
(* a tensor is born.                                                        *)
Born(t) == Event(lifetimes[t].produce, t, TRUE)
Dies(t) == Event(lifetimes[t].free, t, FALSE)

AllEvents == {Born(t) : t \in Nodes} \cup {Dies(t) : t \in Nodes}

Made(E) == {t \in Nodes : Born(t) \notin E}
Gone(E) == {t \in Nodes : Dies(t) \notin E}

InTurns(E) == \A e \in AllEvents \ E, f \in E : Sooner(e, f)

LiveWhenBorn(t) == BytesOf(LiveAt(lifetimes[t].produce))

SweepInv ==
  IF lifetimes = <<>> THEN events = {} /\ liveBytes = 0 /\ peakBytes = 0 ELSE
  /\ events \in SUBSET AllEvents
  /\ InTurns(events)
  /\ liveBytes = BytesOf(Made(events)) - BytesOf(Gone(events))
  /\ peakBytes \in Nat
  /\ \A t \in Nodes : (\A e \in events : e.cycle > lifetimes[t].produce) => LiveWhenBorn(t) <= peakBytes
  /\ peakBytes = 0 \/ \E t \in Nodes : peakBytes <= LiveWhenBorn(t)

(* Bytes of sets of tensors. *)
LEMMA BytesOfSet ==
  ASSUME bytes \in [Tensors -> Nat], NEW S \in SUBSET Nodes
  PROVE  /\ BytesOf(S) \in Nat
         /\ \A t \in Nodes \ S : BytesOf(S \cup {t}) = BytesOf(S) + bytes[t]
<1>1. IsFiniteSet(S) /\ \A t \in Nodes : bytes[t] \in Nat
  BY NodesFinite DEF Tensors
<1>2. \A T : BytesOf(T) = Cardinality(Stack(T, bytes))
  BY DEF BytesOf, Stack
<1>3. BytesOf(S) \in Nat
  BY <1>1, <1>2, StackSize
<1>4. ASSUME NEW t \in Nodes \ S PROVE BytesOf(S \cup {t}) = BytesOf(S) + bytes[t]
  <2>1. Cardinality(Stack(S \cup {t}, bytes)) = Cardinality(Stack(S, bytes)) + bytes[t]
    BY <1>1, StackAdds
  <2> QED BY <1>2, <2>1
<1> QED BY <1>3, <1>4

LEMMA BytesSplit ==
  ASSUME bytes \in [Tensors -> Nat], NEW S \in SUBSET Nodes, NEW T \in SUBSET Nodes
  PROVE  /\ S \in SUBSET T => BytesOf(S) <= BytesOf(T)
         /\ S \cap T = {} => BytesOf(S \cup T) = BytesOf(S) + BytesOf(T)
<1>1. IsFiniteSet(S) /\ IsFiniteSet(T) /\ \A t \in Nodes : bytes[t] \in Nat
  BY NodesFinite DEF Tensors
<1>2. \A U : BytesOf(U) = Cardinality(Stack(U, bytes))
  BY DEF BytesOf, Stack
<1> DEFINE A == Stack(S, bytes)
           B == Stack(T, bytes)
<1>3. /\ IsFiniteSet(A) /\ Cardinality(A) \in Nat
      /\ IsFiniteSet(B) /\ Cardinality(B) \in Nat
  BY <1>1, StackSize
<1>4. ASSUME S \in SUBSET T PROVE Cardinality(A) <= Cardinality(B)
  <2>1. A \in SUBSET B
    BY <1>4 DEF Stack
  <2> HIDE DEF A, B
  <2> QED BY <1>3, <2>1, FS_Subset
<1>5. ASSUME S \cap T = {} PROVE Cardinality(Stack(S \cup T, bytes)) = Cardinality(A) + Cardinality(B)
  <2>1. Stack(S \cup T, bytes) = A \cup B
    BY DEF Stack
  <2>2. A \cap B = {}
    BY <1>5 DEF Stack
  <2> HIDE DEF A, B
  <2>3. Cardinality(A \cup B) = Cardinality(A) + Cardinality(B) - Cardinality(A \cap B)
    BY <1>3, FS_Union
  <2>4. Cardinality(A \cap B) = 0
    BY <2>2, FS_EmptySet
  <2>5. Cardinality(A \cup B) = Cardinality(A) + Cardinality(B)
    BY ONLY <1>3, <2>3, <2>4
  <2> QED BY <2>1, <2>5
<1> HIDE DEF A, B
<1> QED BY <1>2, <1>4, <1>5 DEF A, B

LEMMA EventFacts ==
  /\ \A t : Born(t).cycle = lifetimes[t].produce /\ Born(t).tensor = t /\ Born(t).live = TRUE
  /\ \A t : Dies(t).cycle = lifetimes[t].free /\ Dies(t).tensor = t /\ Dies(t).live = FALSE
BY DEF Born, Dies, Event

(* The numbers of the sweep. *)
LEMMA LifetimesNat ==
  ASSUME DagInv, lifetimes # <<>>, NEW t \in Nodes
  PROVE  /\ lifetimes[t].produce \in Nat /\ lifetimes[t].free \in Nat
         /\ lifetimes[t].produce <= lifetimes[t].free
         /\ bytes[t] \in Positive
<1>1. Len(nodeSchedules) = NumNodes /\ lifetimes = Lifetimes
  BY DEF DagInv
<1>2. lifetimes[t].produce = Slot(t).end /\ lifetimes[t].free = FreeCycle(t)
  BY <1>1 DEF Lifetimes
<1>3. Slot(t).end \in Nat
  BY <1>1, LatestEnd
<1>4. FreeCycle(t) \in Nat /\ Slot(t).end <= FreeCycle(t)
  <2>1. CASE Consumers(t) = {}
    BY <1>3, <2>1 DEF FreeCycle
  <2>2. CASE Consumers(t) # {}
    <3> DEFINE T == {Slot(q).end : q \in Consumers(t)}
               b == nodeSchedules[NumNodes].end
    <3>1. Consumers(t) \in SUBSET Nodes
      BY DEF Consumers, Reads
    <3>2. T \in SUBSET (0 .. b) /\ b \in Nat /\ T # {}
      BY <1>1, <2>2, <3>1, LatestEnd
    <3>3. PICK m \in Consumers(t) : TRUE
      BY <2>2
    <3>4. t \in Range(ins[m]) \cap Nodes
      <4>1. PICK r \in Reads(t) : r[1] = m
        BY <3>3 DEF Consumers
      <4>2. r[2] \in DOMAIN ins[m] /\ ins[m][r[2]] = t
        BY <4>1 DEF Reads
      <4> QED BY <4>2 DEF Range
    <3>5. Slot(t).end <= Slot(m).start /\ Slot(m).end \in T /\ m \in Nodes
      BY <1>1, <3>1, <3>3, <3>4, ReadersWait
    <3>6. Slot(m).start \in Nat /\ Slot(m).start <= Slot(m).end /\ Slot(m).end \in Nat
      BY <1>1, <3>5, LatestEnd
    <3> HIDE DEF T, b
    <3>7. Max(T) \in T /\ Slot(m).end <= Max(T)
      BY <3>2, <3>5, Greatest
    <3>8. Max(T) \in Nat
      <4>1. \A y \in 0 .. b : y \in Nat
        BY <3>2
      <4> QED BY <3>2, <3>7, <4>1
    <3>9. FreeCycle(t) = Max(T)
      BY <2>2 DEF FreeCycle, T
    <3> QED BY <1>3, <3>5, <3>6, <3>7, <3>8, <3>9
  <2> QED BY <2>1, <2>2
<1>5. bytes[t] \in Positive
  <2>1. bytes[t] = Element * Numel(shape[t]) /\ t \in Tensors
    BY DEF DagInv, SizeBytes, Tensors
  <2>2. Numel(shape[t]) \in Positive
    BY <2>1, ShapeFacts DEF DagInv
  <2> QED BY <2>1, <2>2 DEF Element, Positive
<1> QED BY <1>2, <1>3, <1>4, <1>5

LEMMA DeltaFacts ==
  ASSUME DagInv, lifetimes # <<>>
  PROVE  /\ IsFiniteSet(AllEvents)
         /\ \A e \in AllEvents : Delta(e) \in Int /\ e.cycle \in Nat
         /\ \A t \in Nodes : Delta(Born(t)) = bytes[t] /\ Delta(Dies(t)) = -bytes[t]
<1>1. \A t \in Nodes : Delta(Born(t)) = bytes[t] /\ Delta(Dies(t)) = -bytes[t]
  BY EventFacts DEF Delta
<1>2. \A t \in Nodes : bytes[t] \in Int /\ lifetimes[t].produce \in Nat /\ lifetimes[t].free \in Nat
  BY LifetimesNat DEF Positive
<1>3. \A t \in Nodes : Delta(Born(t)) \in Int /\ Delta(Dies(t)) \in Int
  BY <1>1, <1>2
<1>4. \A t \in Nodes : Born(t).cycle \in Nat /\ Dies(t).cycle \in Nat
  BY <1>2, EventFacts
<1>5. \A e \in AllEvents : Delta(e) \in Int /\ e.cycle \in Nat
  BY <1>3, <1>4 DEF AllEvents
<1> DEFINE B == {Born(t) : t \in Nodes}
           D == {Dies(t) : t \in Nodes}
           b == [t \in Nodes |-> Born(t)]
           d == [t \in Nodes |-> Dies(t)]
<1>6. /\ b \in [Nodes -> B] /\ \A e \in B : \E t \in Nodes : b[t] = e
      /\ d \in [Nodes -> D] /\ \A e \in D : \E t \in Nodes : d[t] = e
  OBVIOUS
<1> HIDE DEF B, D, b, d
<1>7. b \in Surjection(Nodes, B) /\ d \in Surjection(Nodes, D)
  BY <1>6 DEF Surjection
<1>8. IsFiniteSet(B) /\ IsFiniteSet(D)
  BY <1>7, NodesFinite, FS_Surjection
<1>9. IsFiniteSet(B \cup D)
  BY <1>8, FS_Union
<1> QED BY <1>1, <1>5, <1>9 DEF AllEvents, B, D

(* The sweep always finds the next event. *)
LEMMA NextEventFirst ==
  ASSUME DagInv, lifetimes # <<>>, events \in SUBSET AllEvents, events # {}
  PROVE  NextEvent \in events /\ \A f \in events : Sooner(NextEvent, f)
<1>1. IsFiniteSet(events)
  BY DeltaFacts, FS_Subset
<1>2. \A e \in events : Delta(e) \in Int /\ e.cycle \in Nat
  BY DeltaFacts
<1> DEFINE later == [e \in events |-> {f \in events : Sooner(e, f)}]
<1>3. \A e, f \in events : Sooner(e, f) \/ Sooner(f, e)
  BY <1>2 DEF Sooner
<1>4. \A e, f, g \in events : Sooner(e, f) /\ Sooner(f, g) => Sooner(e, g)
  <2> SUFFICES ASSUME NEW e \in events, NEW f \in events, NEW g \in events, Sooner(e, f), Sooner(f, g)
               PROVE  Sooner(e, g)
    OBVIOUS
  <2> QED BY <1>2 DEF Sooner
<1>5. /\ later \in [events -> SUBSET events]
      /\ \A e, f \in events : f \in later[e] <=> Sooner(e, f)
  OBVIOUS
<1> HIDE DEF later
<1>6. \E e \in events : \A f \in events : f \in later[e]
  BY <1>1, <1>3, <1>4, <1>5, FirstOf
<1>7. \E e \in events : \A f \in events : Sooner(e, f)
  BY <1>5, <1>6
<1> QED BY <1>7 DEF NextEvent

(* What is live is what was born and has not died; when all events up to a cycle *)
(* are swept and no later one, it is what lives at that cycle.                *)
LEMMA LiveNow ==
  ASSUME DagInv, lifetimes # <<>>, NEW E \in SUBSET AllEvents, NEW c \in Nat,
         \A f \in E : f.cycle > c,
         \A e \in AllEvents \ E : e.cycle <= c
  PROVE  BytesOf(Made(E)) - BytesOf(Gone(E)) = BytesOf(LiveAt(c))
<1>1. bytes \in [Tensors -> Nat]
  BY DagBytes
<1>2. \A u \in Nodes : /\ lifetimes[u].produce \in Nat /\ lifetimes[u].free \in Nat
                       /\ lifetimes[u].produce <= lifetimes[u].free
  BY LifetimesNat
<1>3. \A u \in Nodes : Born(u) \in AllEvents /\ Dies(u) \in AllEvents
  BY DEF AllEvents
<1>4. \A u \in Nodes : /\ u \in Made(E) <=> lifetimes[u].produce <= c
                       /\ u \in Gone(E) <=> lifetimes[u].free <= c
  BY <1>2, <1>3, EventFacts DEF Made, Gone
<1>5. Made(E) \in SUBSET Nodes /\ Gone(E) \in SUBSET Nodes /\ LiveAt(c) \in SUBSET Nodes
  BY DEF Made, Gone, LiveAt
<1>6. Made(E) = LiveAt(c) \cup Gone(E) /\ LiveAt(c) \cap Gone(E) = {}
  <2>1. \A u \in Nodes : u \in LiveAt(c) <=> (lifetimes[u].produce <= c /\ ~(lifetimes[u].free <= c))
    BY <1>2 DEF LiveAt
  <2>2. \A u \in Nodes : lifetimes[u].free <= c => lifetimes[u].produce <= c
    BY <1>2
  <2> QED BY <1>4, <1>5, <2>1, <2>2
<1>7. BytesOf(Made(E)) = BytesOf(LiveAt(c)) + BytesOf(Gone(E))
  BY <1>1, <1>5, <1>6, BytesSplit
<1>8. BytesOf(LiveAt(c)) \in Nat /\ BytesOf(Gone(E)) \in Nat
  BY <1>1, <1>5, BytesOfSet
<1> QED BY <1>7, <1>8

(* At any moment of the sweep, no more is live than at the last birth swept: what *)
(* dies at the cycle of a birth is swept before it.                           *)
LEMMA LiveBound ==
  ASSUME DagInv, lifetimes # <<>>, NEW E \in SUBSET AllEvents, InTurns(E)
  PROVE  \/ BytesOf(Made(E)) - BytesOf(Gone(E)) <= 0
         \/ \E t \in Nodes : BytesOf(Made(E)) - BytesOf(Gone(E)) <= LiveWhenBorn(t)
<1>1. bytes \in [Tensors -> Nat]
  BY DagBytes
<1>2. \A u \in Nodes : /\ lifetimes[u].produce \in Nat /\ lifetimes[u].free \in Nat
                       /\ lifetimes[u].produce <= lifetimes[u].free /\ bytes[u] \in Positive
  BY LifetimesNat
<1>3. \A u \in Nodes : Born(u) \in AllEvents /\ Dies(u) \in AllEvents
  BY DEF AllEvents
<1> DEFINE M == Made(E)
           G == Gone(E)
<1>4. M \in SUBSET Nodes /\ G \in SUBSET Nodes
  BY DEF Made, Gone
<1>5. BytesOf(M) \in Nat /\ BytesOf(G) \in Nat
  BY <1>1, <1>4, BytesOfSet
<1>6. CASE M = {}
  <2>1. M \in SUBSET G
    BY <1>6
  <2>2. BytesOf(M) <= BytesOf(G)
    <3> HIDE DEF M, G
    <3> QED BY <1>1, <1>4, <2>1, BytesSplit
  <2> HIDE DEF M, G
  <2>3. BytesOf(M) - BytesOf(G) <= 0
    BY <1>5, <2>2
  <2> QED BY <2>3 DEF M, G
<1>7. CASE M # {}
  <2> DEFINE T == {lifetimes[u].produce : u \in M}
             b == nodeSchedules[NumNodes].end
  <2>1. \A u \in Nodes : lifetimes[u].produce \in 0 .. b /\ b \in Nat
    <3>1. Len(nodeSchedules) = NumNodes /\ lifetimes = Lifetimes
      BY DEF DagInv
    <3>2. \A u \in Nodes : lifetimes[u].produce = Slot(u).end
      BY <3>1 DEF Lifetimes
    <3> QED BY <3>1, <3>2, LatestEnd
  <2>2. T \in SUBSET (0 .. b) /\ b \in Nat /\ T # {}
    BY <1>4, <1>7, <2>1
  <2>3. PICK c \in T : \A y \in T : y <= c
    <3> HIDE DEF T, b
    <3> QED BY <2>2, Greatest
  <2>4. PICK t \in M : c = lifetimes[t].produce
    OBVIOUS
  <2>5. \A u \in M : lifetimes[u].produce <= c
    BY <2>3
  <2> HIDE DEF T, b
  <2>6. t \in Nodes /\ Born(t) \in AllEvents \ E /\ c \in Nat
    BY <1>2, <1>3, <1>4, <2>4 DEF Made
  <2>7. ASSUME NEW u \in M \ G PROVE c < lifetimes[u].free
    <3>1. Dies(u) \in E /\ u \in Nodes
      BY <1>4, <2>7 DEF Gone
    <3>2. Sooner(Born(t), Dies(u))
      BY <2>6, <3>1 DEF InTurns
    <3>3. /\ Born(t).cycle = c /\ Dies(u).cycle = lifetimes[u].free
          /\ Delta(Born(t)) = bytes[t] /\ Delta(Dies(u)) = -bytes[u]
      BY <2>4, <2>6, <3>1, EventFacts, DeltaFacts
    <3>4. bytes[t] \in Nat \ {0} /\ bytes[u] \in Nat \ {0}
      BY <1>2, <2>6, <3>1 DEF Positive
    <3>5. ~(bytes[t] <= -bytes[u])
      BY <3>4
    <3> QED BY <3>2, <3>3, <3>5 DEF Sooner
  <2> DEFINE D == M \ G
  <2>8. D \in SUBSET LiveAt(c) /\ D \in SUBSET Nodes /\ LiveAt(c) \in SUBSET Nodes
    BY <1>4, <2>5, <2>7 DEF LiveAt
  <2>9. M \in SUBSET (D \cup G) /\ D \cap G = {} /\ D \cup G \in SUBSET Nodes
    BY <1>4
  <2> HIDE DEF D, M, G
  <2>10. BytesOf(D) <= BytesOf(LiveAt(c))
    BY <1>1, <2>8, BytesSplit
  <2>11. BytesOf(M) <= BytesOf(D \cup G)
    BY <1>1, <1>4, <2>9, BytesSplit
  <2>12. BytesOf(D \cup G) = BytesOf(D) + BytesOf(G)
    BY <1>1, <1>4, <2>8, <2>9, BytesSplit
  <2>13. BytesOf(D) \in Nat /\ BytesOf(LiveAt(c)) \in Nat
    BY <1>1, <2>8, BytesOfSet
  <2>14. BytesOf(M) - BytesOf(G) <= BytesOf(LiveAt(c))
    BY <1>5, <2>10, <2>11, <2>12, <2>13
  <2> QED BY <2>4, <2>6, <2>14 DEF LiveWhenBorn, M, G
<1> QED BY <1>6, <1>7

(* What an event changes. *)
LEMMA EventCounts ==
  ASSUME DagInv, lifetimes # <<>>, NEW e \in events, events \in SUBSET AllEvents
  PROVE  BytesOf(Made(events \ {e})) - BytesOf(Gone(events \ {e}))
           = (BytesOf(Made(events)) - BytesOf(Gone(events))) + Delta(e)
<1> DEFINE E == events \ {e}
           M == Made(events)
           G == Gone(events)
<1>1. bytes \in [Tensors -> Nat]
  BY DagBytes
<1>2. M \in SUBSET Nodes /\ G \in SUBSET Nodes
  BY DEF Made, Gone
<1>3. BytesOf(M) \in Nat /\ BytesOf(G) \in Nat
  BY <1>1, <1>2, BytesOfSet
<1>4. CASE \E t \in Nodes : e = Born(t)
  <2>1. PICK t \in Nodes : e = Born(t)
    BY <1>4
  <2>2. t \notin M
    BY <2>1 DEF Made
  <2>3. Made(E) = M \cup {t}
    <3>1. \A u \in Nodes : Born(u) = e <=> u = t
      BY <2>1, EventFacts
    <3> QED BY <2>1, <3>1 DEF Made
  <2>4. Gone(E) = G
    <3>1. \A u \in Nodes : Dies(u) # e
      BY <2>1, EventFacts
    <3> QED BY <3>1 DEF Gone
  <2>5. bytes[t] \in Int /\ Delta(e) = bytes[t]
    BY <2>1, DeltaFacts, LifetimesNat DEF Positive
  <2> HIDE DEF M, G, E
  <2>6. BytesOf(M \cup {t}) = BytesOf(M) + bytes[t]
    BY <1>1, <1>2, <2>1, <2>2, BytesOfSet
  <2>7. BytesOf(Made(E)) - BytesOf(Gone(E)) = (BytesOf(M) - BytesOf(G)) + Delta(e)
    BY <1>3, <2>3, <2>4, <2>5, <2>6
  <2> QED BY <2>7 DEF M, G, E
<1>5. CASE \E t \in Nodes : e = Dies(t)
  <2>1. PICK t \in Nodes : e = Dies(t)
    BY <1>5
  <2>2. t \notin G
    BY <2>1 DEF Gone
  <2>3. Gone(E) = G \cup {t}
    <3>1. \A u \in Nodes : Dies(u) = e <=> u = t
      BY <2>1, EventFacts
    <3> QED BY <2>1, <3>1 DEF Gone
  <2>4. Made(E) = M
    <3>1. \A u \in Nodes : Born(u) # e
      BY <2>1, EventFacts
    <3> QED BY <3>1 DEF Made
  <2>5. bytes[t] \in Int /\ Delta(e) = -bytes[t]
    BY <2>1, DeltaFacts, LifetimesNat DEF Positive
  <2> HIDE DEF M, G, E
  <2>6. BytesOf(G \cup {t}) = BytesOf(G) + bytes[t]
    BY <1>1, <1>2, <2>1, <2>2, BytesOfSet
  <2>7. BytesOf(Made(E)) - BytesOf(Gone(E)) = (BytesOf(M) - BytesOf(G)) + Delta(e)
    BY <1>3, <2>3, <2>4, <2>5, <2>6
  <2> QED BY <2>7 DEF M, G, E
<1> QED BY <1>4, <1>5 DEF AllEvents

(* An event is swept. *)
LEMMA SweepKeeps ==
  ASSUME DagInv, SweepInv, lifetimes # <<>>, Sweeping
  PROVE  SweepInv'
<1> DEFINE e == NextEvent
           E == events \ {e}
           L == BytesOf(Made(E)) - BytesOf(Gone(E))
           P == IF L > peakBytes THEN L ELSE peakBytes
<1>1. /\ events \in SUBSET AllEvents /\ events # {} /\ InTurns(events)
      /\ liveBytes = BytesOf(Made(events)) - BytesOf(Gone(events)) /\ peakBytes \in Nat
  BY DEF SweepInv, Sweeping
<1>2. e \in events /\ \A f \in events : Sooner(e, f)
  BY <1>1, NextEventFirst
<1>3. bytes \in [Tensors -> Nat]
  BY DagBytes
<1> HIDE DEF e
<1>4. E \in SUBSET AllEvents /\ AllEvents \ E = (AllEvents \ events) \cup {e}
  BY <1>1, <1>2
<1>5. InTurns(E)
  BY <1>1, <1>2, <1>4 DEF InTurns
<1>6. L = liveBytes + Delta(e)
  BY <1>1, <1>2, EventCounts
<1>7. events' = E /\ liveBytes' = L /\ peakBytes' = P
  BY <1>6 DEF Sweeping, e
<1>8. L \in Int
  <2>1. Made(E) \in SUBSET Nodes /\ Gone(E) \in SUBSET Nodes
    BY DEF Made, Gone
  <2>2. BytesOf(Made(E)) \in Nat /\ BytesOf(Gone(E)) \in Nat
    <3> HIDE DEF E
    <3> QED BY <1>3, <2>1, BytesOfSet
  <2> HIDE DEF E
  <2> QED BY <2>2
<1>9. P \in Nat /\ peakBytes <= P /\ L <= P
  <2> HIDE DEF L
  <2> QED BY <1>1, <1>8
<1>10. \A t \in Nodes : LiveWhenBorn(t) \in Nat
  <2>1. \A t \in Nodes : LiveAt(lifetimes[t].produce) \in SUBSET Nodes
    BY DEF LiveAt
  <2> QED BY <1>3, <2>1, BytesOfSet DEF LiveWhenBorn
<1>11. ASSUME NEW t \in Nodes, \A f \in E : f.cycle > lifetimes[t].produce
       PROVE  LiveWhenBorn(t) <= P
  <2> DEFINE c == lifetimes[t].produce
  <2>1. c \in Nat
    BY LifetimesNat
  <2>2. CASE e.cycle > c
    <3>1. \A f \in events : f.cycle > c
      BY <1>11, <2>2
    <3>2. LiveWhenBorn(t) <= peakBytes
      BY <3>1 DEF SweepInv
    <3> HIDE DEF P
    <3> QED BY <1>1, <1>9, <1>10, <3>2
  <2>3. CASE ~(e.cycle > c)
    <3>1. ASSUME NEW f \in AllEvents \ E PROVE f.cycle <= c
      <4>1. f = e \/ Sooner(f, e)
        BY <1>1, <1>2, <1>4 DEF InTurns
      <4>2. f.cycle \in Nat /\ e.cycle \in Nat
        BY <1>1, <1>2, DeltaFacts
      <4> QED BY <2>1, <2>3, <4>1, <4>2 DEF Sooner
    <3> HIDE DEF E
    <3>2. L = BytesOf(LiveAt(c))
      BY <1>4, <1>11, <2>1, <3>1, LiveNow
    <3> QED BY <1>9, <3>2 DEF LiveWhenBorn
  <2> QED BY <2>2, <2>3
<1>12. P = 0 \/ \E t \in Nodes : P <= LiveWhenBorn(t)
  <2>1. CASE P = peakBytes
    BY <2>1 DEF SweepInv
  <2>2. CASE P # peakBytes
    <3>1. P = L /\ L > peakBytes
      BY <2>2
    <3>2. L <= 0 \/ \E t \in Nodes : L <= LiveWhenBorn(t)
      <4> HIDE DEF E
      <4> QED BY <1>4, <1>5, LiveBound
    <3> HIDE DEF L, P
    <3>3. ~(L <= 0)
      BY <1>1, <1>8, <3>1
    <3> QED BY <3>1, <3>2, <3>3
  <2> QED BY <2>1, <2>2
<1>13. UNCHANGED <<bytes, lifetimes>>
  BY DEF Sweeping, fixedVars
<1>14. /\ \A t : Born(t)' = Born(t) /\ Dies(t)' = Dies(t) /\ LiveWhenBorn(t)' = LiveWhenBorn(t)
       /\ AllEvents' = AllEvents
  BY <1>13 DEF Born, Dies, AllEvents, LiveWhenBorn, BytesOf, LiveAt
<1>15. InTurns(events)'
  BY <1>5, <1>7, <1>13, <1>14 DEF InTurns, Sooner, Delta
<1>16. /\ BytesOf(Made(events))' = BytesOf(Made(E))
       /\ BytesOf(Gone(events))' = BytesOf(Gone(E))
  BY <1>7, <1>13, <1>14 DEF BytesOf, Made, Gone
<1>17. (liveBytes = BytesOf(Made(events)) - BytesOf(Gone(events)))'
  BY <1>7, <1>16
<1>18. (\A t \in Nodes : (\A f \in events : f.cycle > lifetimes[t].produce) => LiveWhenBorn(t) <= peakBytes)'
  BY <1>7, <1>11, <1>13, <1>14
<1>19. (peakBytes = 0 \/ \E t \in Nodes : peakBytes <= LiveWhenBorn(t))'
  BY <1>7, <1>12, <1>14
<1> QED BY <1>4, <1>7, <1>9, <1>13, <1>14, <1>15, <1>17, <1>18, <1>19 DEF SweepInv

(* The events are collected.  None is swept yet. *)
LEMMA SweepStarts ==
  ASSUME DagInv, SweepInv, Analyzing
  PROVE  SweepInv'
<1>1. /\ lifetimes = <<>> /\ lifetimes' = Lifetimes
      /\ liveBytes' = 0 /\ peakBytes' = 0
      /\ events' = AllEvents'
  BY DEF Analyzing, SweepInv, Lifetimes, AllEvents, Born, Dies
<1>2. lifetimes' # <<>>
  <2>2. 1 \in DOMAIN lifetimes'
    BY <1>1, GraphAssumption DEF Lifetimes, Nodes
  <2> QED BY <2>2
<1>3. Made(events)' = {} /\ Gone(events)' = {}
  BY <1>1 DEF Made, Gone, AllEvents
<1>4. BytesOf({})' = 0
  <2>1. \A t : BytesOf({})' = Cardinality({})
    BY DEF BytesOf
  <2> QED BY <2>1, FS_EmptySet
<1>5. (liveBytes = BytesOf(Made(events)) - BytesOf(Gone(events)))'
  <2>1. BytesOf(Made(events))' = BytesOf({})' /\ BytesOf(Gone(events))' = BytesOf({})'
    BY <1>3 DEF BytesOf
  <2> QED BY <1>1, <1>4, <2>1
<1>6. InTurns(events)'
  BY <1>1 DEF InTurns
<1>7. ASSUME NEW t \in Nodes, \A f \in events' : f.cycle > lifetimes'[t].produce PROVE FALSE
  <2>1. Born(t)' \in events' /\ Born(t)'.cycle = lifetimes'[t].produce
    BY <1>1 DEF AllEvents, Born, Event
  <2>2. lifetimes'[t].produce \in Nat
    <3>1. lifetimes'[t].produce = Slot(t).end
      BY <1>1 DEF Lifetimes
    <3>2. Slot(t).end \in Nat
      BY LatestEnd DEF Analyzing
    <3> QED BY <3>1, <3>2
  <2> QED BY <1>7, <2>1, <2>2
<1> QED BY <1>1, <1>2, <1>5, <1>6, <1>7 DEF SweepInv

LEMMA SweepRests ==
  ASSUME SweepInv, UNCHANGED <<bytes, sweepVars>>
  PROVE  SweepInv'
<1>1. UNCHANGED <<bytes, lifetimes, events, liveBytes, peakBytes>>
  BY DEF sweepVars
<1>2. /\ \A t : Born(t)' = Born(t) /\ Dies(t)' = Dies(t) /\ LiveWhenBorn(t)' = LiveWhenBorn(t)
      /\ AllEvents' = AllEvents
  BY <1>1 DEF Born, Dies, AllEvents, LiveWhenBorn, BytesOf, LiveAt
<1>3. InTurns(events)' = InTurns(events)
  BY <1>1, <1>2 DEF InTurns, Sooner, Delta
<1>4. BytesOf(Made(events))' = BytesOf(Made(events)) /\ BytesOf(Gone(events))' = BytesOf(Gone(events))
  BY <1>1, <1>2 DEF BytesOf, Made, Gone
<1>5. liveBytes' = liveBytes
  BY <1>1
<1> QED BY <1>1, <1>2, <1>3, <1>4, <1>5 DEF SweepInv

LEMMA SweepSteps == DagInv /\ SweepInv /\ [Next]_vars => SweepInv'
<1> SUFFICES ASSUME DagInv, SweepInv, [Next]_vars PROVE SweepInv'
  OBVIOUS
<1>1. CASE Sweeping
  <2>1. lifetimes # <<>>
    BY <1>1 DEF Sweeping, SweepInv
  <2> QED BY <1>1, <2>1, SweepKeeps
<1>2. CASE Analyzing
  BY <1>2, SweepStarts
<1>3. CASE UNCHANGED <<bytes, sweepVars>>
  BY <1>3, SweepRests
<1>4. Sweeping \/ Analyzing \/ UNCHANGED <<bytes, sweepVars>>
  BY DEF Next, Ordering, Reordering, Choose, Scheduling, Streaming, PlanNext, vars, fixedVars
<1> QED BY <1>1, <1>2, <1>3, <1>4

LEMMA SweepInvariance == TileSpec => [](DagInv /\ SweepInv)
<1>1. TileInit => DagInv /\ SweepInv
  BY DagStarts DEF TileInit, Init, SweepInv
<1>2. DagInv /\ SweepInv /\ [TileNext]_<<vars, tileVars>> => (DagInv /\ SweepInv)'
  BY DagKeeps, SweepSteps, TileSteps
<1> QED BY <1>1, <1>2, PTL DEF TileSpec

(* The peak that the sweep reports is the most that is live at any cycle at which *)
(* something is produced, in every graph and with every tie, and everything is *)
(* free at the end.                                                         *)
THEOREM PeakIsExact == TileSpec => []PeakIsLargest
<1>1. ASSUME DagInv, SweepInv, Swept
      PROVE  /\ liveBytes = 0
             /\ peakBytes = Max({BytesOf(LiveAt(lifetimes[t].produce)) : t \in Nodes})
  <2>1. lifetimes # <<>> /\ events = {}
    BY <1>1 DEF Swept
  <2>2. Made(events) = Nodes /\ Gone(events) = Nodes
    BY <2>1 DEF Made, Gone
  <2>3. bytes \in [Tensors -> Nat]
    BY <1>1, DagBytes
  <2>4. BytesOf(Nodes) \in Nat
    BY <2>3, BytesOfSet
  <2>5. liveBytes = BytesOf(Nodes) - BytesOf(Nodes) /\ peakBytes \in Nat
    BY <1>1, <2>1, <2>2 DEF SweepInv
  <2>6. \A t \in Nodes : LiveWhenBorn(t) \in Nat /\ LiveWhenBorn(t) <= peakBytes
    <3>1. \A t \in Nodes : LiveAt(lifetimes[t].produce) \in SUBSET Nodes
      BY DEF LiveAt
    <3>2. \A t \in Nodes : LiveWhenBorn(t) \in Nat
      BY <2>3, <3>1, BytesOfSet DEF LiveWhenBorn
    <3> QED BY <1>1, <2>1, <3>2 DEF SweepInv
  <2>7. \E t \in Nodes : peakBytes = LiveWhenBorn(t)
    <3>1. CASE peakBytes = 0
      <4>1. 1 \in Nodes
        BY GraphAssumption DEF Nodes
      <4>2. LiveWhenBorn(1) = 0
        BY <2>6, <3>1, <4>1
      <4> QED BY <3>1, <4>1, <4>2
    <3>2. CASE \E t \in Nodes : peakBytes <= LiveWhenBorn(t)
      BY <2>5, <2>6, <3>2
    <3> QED BY <1>1, <2>1, <3>1, <3>2 DEF SweepInv
  <2> DEFINE T == {LiveWhenBorn(t) : t \in Nodes}
  <2>8. T \in SUBSET (0 .. peakBytes) /\ peakBytes \in T
    BY <2>5, <2>6, <2>7
  <2> HIDE DEF T
  <2>9. Max(T) \in T /\ peakBytes <= Max(T)
    BY <2>5, <2>8, Greatest
  <2>10. peakBytes = Max(T)
    <3>1. Max(T) \in 0 .. peakBytes
      BY <2>8, <2>9
    <3> QED BY <2>5, <2>9, <3>1
  <2>11. T = {BytesOf(LiveAt(lifetimes[t].produce)) : t \in Nodes}
    BY DEF T, LiveWhenBorn
  <2> QED BY <2>4, <2>5, <2>10, <2>11
<1>2. DagInv /\ SweepInv => PeakIsLargest
  BY <1>1 DEF PeakIsLargest
<1> QED BY <1>2, SweepInvariance, PTL

-------------------------------------------------------------------------------
(* Tiles.  The node at a position of the canonical order has the tiles of one   *)
(* block, and the blocks follow each other as the nodes do.                  *)
TileRecord ==
  [node : Nodes, type : {"MAC", "ALU", "ACTIVATION", "NORM", "SOFTMAX", "POOL", "RESHAPE"},
   first : Nat, end : Nat, split : BOOLEAN, weight : Nat]

Block(p, b) ==
  LET made == TilesFor(order[p])
  IN  /\ b + Len(made) <= Len(tiles)
      /\ TilesOf(order[p]) = b + 1 .. b + Len(made)
      /\ \A k \in 1 .. Len(made) : tiles[b + k] = made[k]

TilesInv ==
  /\ mapped \in 0 .. NumNodes
  /\ mapped > 0 => Len(nodeSchedules) = NumNodes
  /\ tiles \in Seq(TileRecord)
  /\ \A p \in 1 .. mapped : \E b \in Nat : Block(p, b)
  /\ \A p, q \in 1 .. mapped : p < q =>
       \A i \in TilesOf(order[p]), j \in TilesOf(order[q]) : i < j
  /\ \A i \in DOMAIN tiles : \E p \in 1 .. mapped : tiles[i].node = order[p]

LEMMA MinOfTwo ==
  ASSUME NEW a \in Nat, NEW b \in Nat
  PROVE  Min({a, b}) = IF a <= b THEN a ELSE b
<1> DEFINE m == IF a <= b THEN a ELSE b
<1>1. m \in {a, b} /\ \A x \in {a, b} : m <= x
  OBVIOUS
<1>2. \A x \in {a, b} : (\A y \in {a, b} : x <= y) => x = m
  OBVIOUS
<1> HIDE DEF m
<1>3. (CHOOSE x \in {a, b} : \A y \in {a, b} : x <= y) = m
  BY <1>1, <1>2
<1> QED BY <1>3 DEF Min, m

(* How the outputs of a node are cut. *)
LEMMA Cuts ==
  ASSUME Shaped, ins \in [Nodes -> ActLists], NEW n \in Nodes
  PROVE  /\ MaxOutputsPerTile(n) \in Positive
         /\ CeilDiv(OutputDim(n), MaxOutputsPerTile(n)) \in Positive
<1>1. BytesPerOutput(n) \in Positive /\ OutputDim(n) \in Positive
  BY WeightsNat
<1>2. MaxWeightRomBytes \div BytesPerOutput(n) \in Nat
  BY <1>1, DivNat, RomAssumption
<1>3. MaxOutputsPerTile(n) \in Positive
  BY <1>2 DEF MaxOutputsPerTile, MaxOf, Positive
<1>4. CeilDiv(OutputDim(n), MaxOutputsPerTile(n)) \in Positive
  BY <1>1, <1>3, Ceiling DEF Positive, CeilDiv
<1> QED BY <1>3, <1>4

LEMMA PieceIsTile ==
  ASSUME Shaped, ins \in [Nodes -> ActLists], NEW n \in Nodes, op[n] \in DOMAIN OpToTile,
         NEW i \in 1 .. CeilDiv(OutputDim(n), MaxOutputsPerTile(n))
  PROVE  /\ Partition(n)[i] \in TileRecord /\ Partition(n)[i].node = n
         /\ Partition(n)[i].first = (i - 1) * MaxOutputsPerTile(n)
         /\ Partition(n)[i].end = IF i * MaxOutputsPerTile(n) <= OutputDim(n)
                                    THEN i * MaxOutputsPerTile(n) ELSE OutputDim(n)
         /\ Partition(n)[i].split = TRUE
         /\ Partition(n)[i].type = OpToTile[op[n]]
         /\ Partition(n)[i].weight = (Partition(n)[i].end - Partition(n)[i].first) * BytesPerOutput(n)
         /\ Partition(n)[i].first < Partition(n)[i].end
<1> DEFINE most == MaxOutputsPerTile(n)
           out == OutputDim(n)
           c == CeilDiv(out, most)
           f == (i - 1) * most
           e == IF i * most <= out THEN i * most ELSE out
<1>1. most \in Positive /\ c \in Positive /\ out \in Positive /\ BytesPerOutput(n) \in Positive
  BY Cuts, WeightsNat
<1>0. i \in 1 .. c
  OBVIOUS
<1> HIDE DEF most, out
<1>2. i \in Nat /\ i >= 1 /\ i <= c
  <2> HIDE DEF c
  <2> QED BY <1>0, <1>1 DEF Positive
<1>3. f \in Nat /\ i * most \in Nat /\ i * most = f + most
  BY <1>1, <1>2 DEF Positive
<1>4. f < out
  <2>1. c * most <= out + most - 1
    <3> DEFINE a == out + most - 1
    <3>1. a \in Nat /\ most \in Nat \ {0}
      BY <1>1 DEF Positive
    <3> HIDE DEF a
    <3>2. a \div most \in Nat /\ a % most \in 0 .. most - 1 /\ a = (a \div most) * most + (a % most)
      BY <3>1, Remainder
    <3>3. (a \div most) * most <= a
      <4> DEFINE x == (a \div most) * most
                 y == a % most
      <4>1. x \in Int /\ y \in Int /\ y >= 0 /\ a = x + y
        BY <3>1, <3>2
      <4> HIDE DEF x, y
      <4>2. x <= a
        BY <3>1, <4>1
      <4> QED BY <4>2 DEF x
    <3> QED BY <3>3 DEF a, CeilDiv
  <2>2. i * most <= c * most
    <3>1. c \in Nat /\ most \in Nat
      BY <1>1 DEF Positive
    <3> HIDE DEF c
    <3> QED BY <1>2, <3>1
  <2>3. c * most \in Int /\ out \in Nat /\ most \in Nat
    BY <1>1 DEF Positive
  <2> HIDE DEF c, f
  <2> QED BY <1>3, <2>1, <2>2, <2>3
<1>5. e \in Nat /\ f < e
  <2>1. out \in Nat /\ most \in Nat \ {0}
    BY <1>1 DEF Positive
  <2> DEFINE g == i * most
  <2>2. g \in Nat /\ g = f + most
    BY <1>3
  <2> HIDE DEF f, g
  <2>3. (IF g <= out THEN g ELSE out) \in Nat /\ f < (IF g <= out THEN g ELSE out)
    BY <1>3, <1>4, <2>1, <2>2
  <2> QED BY <2>3 DEF g
<1>6. Min({i * most, out}) = e
  BY <1>1, <1>3, MinOfTwo DEF Positive
<1>7. Partition(n)[i] = Tile(n, f, e, TRUE)
  BY <1>6 DEF Partition, most, out
<1>8. (e - f) * BytesPerOutput(n) \in Nat
  <2>1. e - f \in Nat /\ BytesPerOutput(n) \in Nat
    <3> HIDE DEF e, f
    <3> QED BY <1>1, <1>3, <1>5 DEF Positive
  <2> HIDE DEF e, f
  <2> QED BY <2>1, ProductNat
<1>9. OpToTile[op[n]] \in {"MAC", "ALU", "ACTIVATION", "NORM", "SOFTMAX", "POOL", "RESHAPE"}
  BY DEF OpToTile
<1> HIDE DEF e, f
<1>10. Tile(n, f, e, TRUE) \in TileRecord
  BY <1>3, <1>5, <1>8, <1>9 DEF Tile, TileRecord
<1>11. /\ Tile(n, f, e, TRUE).node = n /\ Tile(n, f, e, TRUE).first = f
       /\ Tile(n, f, e, TRUE).end = e /\ Tile(n, f, e, TRUE).split = TRUE
       /\ Tile(n, f, e, TRUE).type = OpToTile[op[n]]
       /\ Tile(n, f, e, TRUE).weight = (e - f) * BytesPerOutput(n)
  BY DEF Tile
<1> QED BY <1>5, <1>7, <1>10, <1>11 DEF e, f, most, out

LEMMA TilesMade ==
  ASSUME Shaped, ins \in [Nodes -> ActLists], NEW n \in Nodes
  PROVE  /\ TilesFor(n) \in Seq(TileRecord)
         /\ \A k \in 1 .. Len(TilesFor(n)) : TilesFor(n)[k].node = n
<1>1. CASE op[n] \notin DOMAIN OpToTile
  BY <1>1 DEF TilesFor
<1>2. CASE op[n] \in DOMAIN OpToTile /\ NeedsPartition(n)
  <2> DEFINE c == CeilDiv(OutputDim(n), MaxOutputsPerTile(n))
             s == Partition(n)
  <2>1. s \in [1 .. c -> TileRecord] /\ \A k \in 1 .. c : s[k].node = n
    BY <1>2, PieceIsTile DEF Partition
  <2>2. c \in Nat
    BY Cuts DEF Positive
  <2> HIDE DEF c, s
  <2>3. s \in Seq(TileRecord) /\ Len(s) = c
    BY <2>1, <2>2
  <2>4. TilesFor(n) = s
    BY <1>2 DEF TilesFor, s
  <2> QED BY <2>1, <2>3, <2>4
<1>3. CASE op[n] \in DOMAIN OpToTile /\ ~NeedsPartition(n)
  <2> DEFINE t == Tile(n, 0, OutputDim(n), FALSE)
  <2>1. OutputDim(n) \in Nat /\ WeightBytes(n) \in Nat
    BY WeightsNat DEF Positive
  <2>2. OpToTile[op[n]] \in {"MAC", "ALU", "ACTIVATION", "NORM", "SOFTMAX", "POOL", "RESHAPE"}
    BY <1>3 DEF OpToTile
  <2>3. t \in TileRecord /\ t.node = n
    BY <2>1, <2>2 DEF Tile, TileRecord
  <2>4. TilesFor(n) = <<t>>
    BY <1>3 DEF TilesFor
  <2> HIDE DEF t
  <2> QED BY <2>3, <2>4
<1> QED BY <1>1, <1>2, <1>3

(* The canonical order is whole once everything is scheduled. *)
LEMMA OrderDone ==
  ASSUME DagInv, Len(nodeSchedules) = NumNodes
  PROVE  /\ status = "ORDERED" /\ Reordered
         /\ order \in [1 .. NumNodes -> Nodes] /\ order \in Seq(Nodes) /\ Len(order) = NumNodes
         /\ \A p, q \in 1 .. NumNodes : order[p] = order[q] => p = q
         /\ \A n \in Nodes : \E p \in 1 .. NumNodes : order[p] = n
<1>1. nodeSchedules # <<>>
  BY GraphAssumption
<1>2. status = "ORDERED" /\ Reordered
  BY <1>1 DEF DagInv, Slots, Reordered
<1>3. /\ order \in Seq(Nodes) /\ Len(order) = NumNodes /\ IsInjective(order) /\ Placed = Nodes
  BY <1>2, OrderIsWhole DEF DagInv, KahnInv, KahnTypeOK, Complete, Once
<1>4. order \in [1 .. NumNodes -> Nodes] /\ DOMAIN order = 1 .. NumNodes
  BY <1>3, LenProperties
<1>5. \A p, q \in 1 .. NumNodes : order[p] = order[q] => p = q
  BY <1>3, <1>4 DEF IsInjective
<1>6. \A n \in Nodes : \E p \in 1 .. NumNodes : order[p] = n
  BY <1>3, <1>4 DEF Placed, Range
<1> QED BY <1>2, <1>3, <1>4, <1>5, <1>6

(* What the tiles of a node are depends on nothing that changes. *)
LEMMA TilesFixed ==
  ASSUME UNCHANGED <<ins, op, shape>>
  PROVE  \A n : TilesFor(n)' = TilesFor(n)
<1>1. \A n : InShape(n)' = InShape(n) /\ OutputDim(n)' = OutputDim(n) /\ IsMac(n)' = IsMac(n)
  BY DEF InShape, OutputDim, IsMac
<1>2. \A n : BytesPerOutput(n)' = BytesPerOutput(n)
  BY <1>1 DEF BytesPerOutput
<1>3. \A n : WeightBytes(n)' = WeightBytes(n) /\ NeedsPartition(n)' = NeedsPartition(n)
  BY <1>1, <1>2 DEF WeightBytes, NeedsPartition
<1>4. \A n : MaxOutputsPerTile(n)' = MaxOutputsPerTile(n)
  BY <1>2 DEF MaxOutputsPerTile
<1>5. \A n, a, b, c : Tile(n, a, b, c)' = Tile(n, a, b, c)
  BY <1>2, <1>3 DEF Tile
<1>6. \A n : Partition(n)' = Partition(n)
  BY <1>1, <1>4, <1>5 DEF Partition
<1> QED BY <1>1, <1>3, <1>5, <1>6 DEF TilesFor

LEMMA TilesStart == TileInit => TilesInv
BY GraphAssumption DEF TileInit, TilesInv

LEMMA TilesRest ==
  ASSUME TilesInv, UNCHANGED <<ins, op, shape, order, nodeSchedules, mapped, tiles>>
  PROVE  TilesInv'
<1>1. \A n : TilesFor(n)' = TilesFor(n) /\ TilesOf(n)' = TilesOf(n)
  BY TilesFixed DEF TilesOf
<1>2. \A p, b : Block(p, b) <=> Block(p, b)'
  BY <1>1 DEF Block
<1> QED BY <1>1, <1>2 DEF TilesInv

(* The rest of the pipeline leaves the tiles and what they come from alone. *)
LEMMA TilesWait == ASSUME DagInv, TilesInv, Earlier PROVE TilesInv'
<1>1. UNCHANGED <<ins, op, shape, mapped, tiles>>
  BY DEF Earlier, Next, Ordering, Reordering, Scheduling, Analyzing, Sweeping, Streaming,
         fixedVars, graphVars, opVars, tileVars
<1>2. CASE mapped = 0
  <2>1. DOMAIN tiles = {}
    BY <1>2 DEF TilesInv
  <2> QED BY <1>1, <1>2, <2>1, GraphAssumption DEF TilesInv
<1>3. CASE mapped > 0
  <2>1. Len(nodeSchedules) = NumNodes
    BY <1>3 DEF TilesInv
  <2>2. status = "ORDERED"
    BY <2>1, OrderDone
  <2>3. ~Ordering /\ ~Scheduling
    BY <2>1, <2>2, GraphAssumption DEF Ordering, Scheduling, Pop, Finish
  <2>4. UNCHANGED <<order, nodeSchedules>>
    <3>1. Reordering \/ Analyzing \/ Sweeping \/ Streaming
      BY <2>3 DEF Earlier, Next
    <3>2. CASE Reordering
      BY <3>2 DEF Reordering, kahnVars
    <3>3. CASE Analyzing
      BY <3>3 DEF Analyzing, kahnVars
    <3>4. CASE Sweeping
      BY <3>4 DEF Sweeping, kahnVars
    <3>5. CASE Streaming
      BY <3>5 DEF Streaming, PlanNext, kahnVars
    <3> QED BY <3>1, <3>2, <3>3, <3>4, <3>5
  <2> QED BY <1>1, <2>4, TilesRest
<1>4. mapped \in Nat
  BY GraphAssumption DEF TilesInv
<1> QED BY <1>2, <1>3, <1>4

(* An iteration of the loop over the nodes adds a block. *)
LEMMA TilesMapped == ASSUME DagInv, TilesInv, Mapping PROVE TilesInv'
<1>a. PICK q : q = mapped + 1
  OBVIOUS
<1>b. PICK n : n = order[q]
  OBVIOUS
<1>c. PICK f : f = TilesFor(n)
  OBVIOUS
<1>d. PICK k : k = Len(tiles)
  OBVIOUS
<1>1. /\ UNCHANGED <<ins, op, shape, order, nodeSchedules>>
      /\ mapped' = q /\ tiles' = tiles \o f /\ mapped < NumNodes
  BY <1>a, <1>b, <1>c DEF Mapping, vars, fixedVars, graphVars, opVars, kahnVars
<1>2. Len(nodeSchedules) = NumNodes
  BY DEF Mapping, ScheduleDone, Swept, DagInv
<1>3. /\ mapped \in Nat /\ q \in 1 .. NumNodes /\ q \in 0 .. NumNodes /\ NumNodes \in Nat
      /\ \A p \in 1 .. q : p \in 1 .. mapped \/ p = q
      /\ \A p \in 1 .. mapped : p \in 1 .. NumNodes /\ p < q
  BY <1>a, <1>1, GraphAssumption DEF TilesInv
<1>4. n \in Nodes /\ \A p \in 1 .. mapped : order[p] # n
  BY <1>b, <1>2, <1>3, OrderDone
<1>5. f \in Seq(TileRecord) /\ \A i \in 1 .. Len(f) : f[i].node = n
  BY <1>c, <1>4, TilesMade DEF DagInv, KahnInv, KahnTypeOK
<1>6. \A m : TilesFor(m)' = TilesFor(m)
  BY <1>1, TilesFixed
<1>7. /\ tiles' \in Seq(TileRecord) /\ Len(tiles') = k + Len(f) /\ k \in Nat
      /\ \A i \in 1 .. k : tiles'[i] = tiles[i]
      /\ \A i \in 1 .. Len(f) : tiles'[k + i] = f[i]
  BY <1>d, <1>1, <1>5, Behind DEF TilesInv
<1>8. /\ DOMAIN tiles = 1 .. k /\ DOMAIN tiles' = 1 .. k + Len(f) /\ Len(f) \in Nat
  BY <1>d, <1>5, <1>7, LenProperties DEF TilesInv
<1>9. \A i \in 1 .. k + Len(f) : i \in 1 .. k \/ (i - k \in 1 .. Len(f) /\ i = k + (i - k))
  BY <1>7, <1>8
<1>10. \A i \in k + 1 .. k + Len(f) : i - k \in 1 .. Len(f) /\ i = k + (i - k)
  BY <1>7, <1>8
<1>11. /\ \A i \in 1 .. k : i \in 1 .. k + Len(f) /\ i \notin k + 1 .. k + Len(f)
       /\ \A i \in k + 1 .. k + Len(f) : i \in 1 .. k + Len(f)
       /\ \A i \in 1 .. k + Len(f) : i \in 1 .. k \/ i \in k + 1 .. k + Len(f)
  BY <1>7, <1>8
<1>12. \A i \in 1 .. k : tiles[i].node # n
  BY <1>4, <1>8 DEF TilesInv
<1>13. \A i \in k + 1 .. k + Len(f) : tiles'[i].node = n
  BY <1>5, <1>7, <1>10
<1>14. TilesOf(n)' = k + 1 .. k + Len(f)
  <2>1. TilesOf(n)' = {i \in DOMAIN tiles' : tiles'[i].node = n}
    BY DEF TilesOf
  <2> QED BY <2>1, <1>7, <1>8, <1>11, <1>12, <1>13
<1>15. \A p \in 1 .. mapped : TilesOf(order[p])' = TilesOf(order[p])
  <2>1. SUFFICES ASSUME NEW p \in 1 .. mapped
                 PROVE  TilesOf(order[p])' = TilesOf(order[p])
    OBVIOUS
  <2>2. TilesOf(order[p])' = {i \in DOMAIN tiles' : tiles'[i].node = order[p]}
    BY <1>1 DEF TilesOf
  <2> QED BY <2>2, <1>4, <1>7, <1>8, <1>11, <1>13 DEF TilesOf
<1>16. TilesOf(order[q])' = k + 1 .. k + Len(f) /\ order'[q] = n
  BY <1>b, <1>1, <1>14
<1>17. ASSUME NEW p \in 1 .. q PROVE (\E b \in Nat : Block(p, b))'
  <2>1. CASE p \in 1 .. mapped
    <3>1. PICK b \in Nat : Block(p, b)
      BY <2>1 DEF TilesInv
    <3>2. order'[p] = order[p] /\ TilesFor(order[p])' = TilesFor(order[p])
      BY <1>1, <1>6
    <3>3. TilesFor(order[p]) \in Seq(TileRecord)
      BY <1>2, <1>3, <2>1, OrderDone, TilesMade DEF DagInv, KahnInv, KahnTypeOK
    <3> DEFINE made == TilesFor(order[p])
    <3>4. made' = made /\ Len(made) \in Nat
      BY <3>2, <3>3, LenProperties
    <3>5. b + Len(made) <= k /\ TilesOf(order[p]) = b + 1 .. b + Len(made)
          /\ \A i \in 1 .. Len(made) : tiles[b + i] = made[i]
      BY <1>d, <3>1 DEF Block
    <3> HIDE DEF made
    <3>6. b + Len(made) <= k + Len(f) /\ \A i \in 1 .. Len(made) : b + i \in 1 .. k
      BY <1>7, <1>8, <3>4, <3>5
    <3>7. Block(p, b)'
      BY <1>7, <1>15, <2>1, <3>4, <3>5, <3>6 DEF Block, made
    <3> QED BY <3>7
  <2>2. CASE p = q
    <3>1. TilesFor(order[q])' = f
      BY <1>b, <1>c, <1>1, <1>6
    <3>2. Block(q, k)'
      BY <1>7, <1>16, <3>1, <1>8 DEF Block
    <3> QED BY <1>7, <2>2, <3>2
  <2> QED BY <1>3, <2>1, <2>2
<1>18. ASSUME NEW p \in 1 .. q, NEW r \in 1 .. q, p < r,
              NEW i \in TilesOf(order[p])', NEW j \in TilesOf(order[r])'
       PROVE  i < j
  <2>1. p \in 1 .. mapped
    <3>1. p # q
      BY <1>3, <1>18
    <3> QED BY <1>3, <3>1
  <2>2. i \in TilesOf(order[p])
    BY <1>15, <2>1
  <2>3. CASE r \in 1 .. mapped
    <3>1. j \in TilesOf(order[r])
      BY <1>15, <2>3
    <3>2. \A a, b \in 1 .. mapped : a < b =>
              \A x \in TilesOf(order[a]), y \in TilesOf(order[b]) : x < y
      BY DEF TilesInv
    <3> QED BY <1>18, <2>1, <2>2, <2>3, <3>1, <3>2
  <2>4. CASE r = q
    <3>1. i \in 1 .. k
      BY <1>8, <2>2 DEF TilesOf
    <3>2. TilesOf(order[r])' = k + 1 .. k + Len(f)
      BY <1>16, <2>4
    <3> QED BY <1>7, <1>8, <3>1, <3>2
  <2> QED BY <1>3, <2>3, <2>4
<1>19. ASSUME NEW i \in DOMAIN tiles' PROVE \E p \in 1 .. q : tiles'[i].node = order'[p]
  <2>1. \A p \in 1 .. mapped : p \in 1 .. q
    BY <1>3
  <2>2. CASE i \in 1 .. k
    <3>1. PICK p \in 1 .. mapped : tiles[i].node = order[p]
      BY <1>8, <2>2 DEF TilesInv
    <3> QED BY <1>1, <1>7, <2>1, <2>2, <3>1
  <2>3. CASE i \in k + 1 .. k + Len(f)
    <3>1. q \in 1 .. q
      BY <1>3
    <3> QED BY <1>13, <1>16, <2>3, <3>1
  <2> QED BY <1>8, <1>11, <2>2, <2>3
<1> QED BY <1>1, <1>2, <1>3, <1>7, <1>17, <1>18, <1>19 DEF TilesInv

LEMMA TilesInvariance == TileSpec => [](DagInv /\ TilesInv)
<1>1. TileInit => DagInv /\ TilesInv
  BY TilesStart, DagStarts DEF TileInit
<1>2. DagInv /\ TilesInv /\ [TileNext]_<<vars, tileVars>> => (DagInv /\ TilesInv)'
  <2> SUFFICES ASSUME DagInv, TilesInv, [TileNext]_<<vars, tileVars>> PROVE (DagInv /\ TilesInv)'
    OBVIOUS
  <2>1. DagInv'
    BY DagKeeps, TileSteps
  <2>2. CASE Mapping
    BY <2>1, <2>2, TilesMapped
  <2>3. CASE Earlier
    BY <2>1, <2>3, TilesWait
  <2>4. CASE Routing \/ UNCHANGED <<vars, tileVars>>
    <3>1. UNCHANGED <<ins, op, shape, order, nodeSchedules, mapped, tiles>>
      BY <2>4 DEF Routing, vars, fixedVars, graphVars, opVars, kahnVars, tileVars
    <3> QED BY <2>1, <3>1, TilesRest
  <2> QED BY <2>2, <2>3, <2>4 DEF TileNext
<1> QED BY <1>1, <1>2, PTL DEF TileSpec

-------------------------------------------------------------------------------
(* Routes.  The tiles of a node come after those of the nodes it reads. *)
Mapped == DagInv /\ TilesInv /\ mapped = NumNodes

LEMMA TilesAreDone ==
  ASSUME Mapped
  PROVE  /\ Len(nodeSchedules) = NumNodes /\ mapped = NumNodes /\ NumNodes \in Nat \ {0}
         /\ tiles \in Seq(TileRecord) /\ DOMAIN tiles = 1 .. Len(tiles) /\ Len(tiles) \in Nat
         /\ \A i \in DOMAIN tiles : tiles[i].node \in Nodes /\ i \in TilesOf(tiles[i].node)
<1>1. Len(nodeSchedules) = NumNodes /\ NumNodes \in Nat \ {0} /\ tiles \in Seq(TileRecord)
  BY GraphAssumption DEF Mapped, TilesInv
<1>2. DOMAIN tiles = 1 .. Len(tiles) /\ Len(tiles) \in Nat
  BY <1>1, LenProperties
<1>3. \A i \in DOMAIN tiles : tiles[i].node \in Nodes
  <2>1. \A t \in TileRecord : t.node \in Nodes
    BY DEF TileRecord
  <2>2. \A i \in 1 .. Len(tiles) : tiles[i] \in TileRecord
    BY <1>1, ElementOfSeq
  <2> QED BY <1>2, <2>1, <2>2
<1> QED BY <1>1, <1>2, <1>3 DEF Mapped, TilesOf

LEMMA TilesPrecede ==
  ASSUME Mapped, NEW m \in Nodes, NEW n \in Range(ins[m]) \cap Nodes,
         NEW src \in TilesOf(n), NEW dst \in TilesOf(m)
  PROVE  src < dst
<1>1. Len(nodeSchedules) = NumNodes /\ mapped = NumNodes
  BY TilesAreDone
<1>2. PICK p \in 1 .. NumNodes : order[p] = m
  BY <1>1, OrderDone DEF Mapped
<1>3. DOMAIN order = 1 .. NumNodes
  BY <1>1, OrderDone DEF Mapped
<1>4. PICK k \in DOMAIN ins[order[p]] : ins[order[p]][k] = n
  BY <1>2 DEF Range
<1>5. PICK q \in 1 .. p - 1 : order[q] = n
  BY <1>2, <1>3, <1>4, ProducersFirst DEF Mapped, DagInv
<1>6. q \in 1 .. NumNodes /\ q < p
  BY <1>2, TilesAreDone
<1> QED BY <1>1, <1>2, <1>5, <1>6 DEF Mapped, TilesInv

LEMMA ConsumersRead ==
  ASSUME ins \in [Nodes -> ActLists], NEW m \in Nodes, NEW t \in Tensors
  PROVE  m \in Consumers(t) <=> t \in Range(ins[m])
<1>1. PICK k \in 1 .. MaxActs : ins[m] \in [1 .. k -> Tensors]
  BY DEF ActLists
<1>2. DOMAIN ins[m] = 1 .. k /\ \A i \in 1 .. k : i \in 1 .. MaxActs
  BY <1>1, GraphAssumption
<1>3. ASSUME m \in Consumers(t) PROVE t \in Range(ins[m])
  <2>1. PICK r \in Reads(t) : m = r[1]
    BY <1>3 DEF Consumers
  <2> QED BY <2>1 DEF Reads, Range
<1>4. ASSUME t \in Range(ins[m]) PROVE m \in Consumers(t)
  <2>1. PICK i \in DOMAIN ins[m] : ins[m][i] = t
    BY <1>4 DEF Range
  <2>2. <<m, i>> \in Reads(t) /\ <<m, i>>[1] = m
    BY <1>2, <2>1 DEF Reads
  <2> QED BY <2>2 DEF Consumers
<1> QED BY <1>3, <1>4

(* A route is one from a tile of a node to a tile of one that reads it. *)
LEMMA RoutesAre ==
  ASSUME Mapped, routes = AllRoutes
  PROVE  /\ \A r \in routes : \E n \in Nodes, m \in Nodes :
              /\ n \in Range(ins[m]) /\ r.src \in TilesOf(n) /\ r.dst \in TilesOf(m)
              /\ r.tensor = n /\ r = Route(r.src, r.dst, n)
         /\ \A n \in Nodes, m \in Nodes : \A src \in TilesOf(n), dst \in TilesOf(m) :
              n \in Range(ins[m]) => Route(src, dst, n) \in routes
<1>1. ins \in [Nodes -> ActLists]
  BY DEF Mapped, DagInv, KahnInv, KahnTypeOK
<1>2. \A n, m \in Nodes : m \in Consumers(n) <=> n \in Range(ins[m])
  BY <1>1, ConsumersRead DEF Tensors
<1>3. ASSUME NEW r \in routes
      PROVE  \E n \in Nodes, m \in Nodes :
               /\ n \in Range(ins[m]) /\ r.src \in TilesOf(n) /\ r.dst \in TilesOf(m)
               /\ r.tensor = n /\ r = Route(r.src, r.dst, n)
  <2>1. PICK n \in Nodes : \E src \in TilesOf(n), dst \in UNION {TilesOf(m) : m \in Consumers(n)} :
               r = Route(src, dst, n)
    BY DEF AllRoutes
  <2>2. PICK src \in TilesOf(n), dst \in UNION {TilesOf(m) : m \in Consumers(n)} :
               r = Route(src, dst, n)
    BY <2>1
  <2>3. PICK m \in Consumers(n) : dst \in TilesOf(m)
    OBVIOUS
  <2>4. m \in Nodes
    BY DEF Consumers, Reads
  <2>5. r.src = src /\ r.dst = dst /\ r.tensor = n
    BY <2>2 DEF Route
  <2> QED BY <1>2, <2>2, <2>3, <2>4, <2>5
<1>4. ASSUME NEW n \in Nodes, NEW m \in Nodes, NEW src \in TilesOf(n), NEW dst \in TilesOf(m),
             n \in Range(ins[m])
      PROVE  Route(src, dst, n) \in routes
  <2>1. dst \in UNION {TilesOf(k) : k \in Consumers(n)}
    BY <1>2, <1>4
  <2> QED BY <2>1 DEF AllRoutes
<1> QED BY <1>3, <1>4

(* input_routes lists what arrives at a tile. *)
LEMMA InputRoutesList ==
  ASSUME Mapped, routes = AllRoutes, NEW dst
  PROVE  /\ InputRoutes(dst) \in Seq(routes)
         /\ Range(InputRoutes(dst)) = {r \in routes : r.dst = dst}
         /\ IsInjective(InputRoutes(dst))
<1>a. PICK D : D = DOMAIN tiles
  OBVIOUS
<1>b. PICK P : P = D \X Nodes
  OBVIOUS
<1> DEFINE S == {r \in routes : r.dst = dst}
           R == {p \in S \X S : AppendedBefore(p[1], p[2])}
           T == {Route(p[1], dst, p[2]) : p \in P}
           h == [p \in P |-> Route(p[1], dst, p[2])]
<1>1. \A r \in S : /\ r.tensor \in Nodes /\ r.tensor \in Nat
                   /\ r.src \in DOMAIN tiles /\ r.src \in Nat
                   /\ r = Route(r.src, dst, r.tensor)
  <2>1. \A n : TilesOf(n) \in SUBSET DOMAIN tiles
    BY DEF TilesOf
  <2>2. DOMAIN tiles \in SUBSET Nat
    BY TilesAreDone
  <2> QED BY RoutesAre, NodesFinite, <2>1, <2>2
<1>2. IsFiniteSet(P)
  <2>1. IsFiniteSet(D) /\ IsFiniteSet(Nodes)
    BY <1>a, TilesAreDone, NodesFinite, Counted
  <2> HIDE DEF S, R, T, h
  <2>2. IsFiniteSet(D \X Nodes)
    BY <2>1, FS_Product
  <2> QED BY <1>b, <2>2
<1>3. IsFiniteSet(T)
  <2>1. h \in [P -> T] /\ \A t \in T : \E p \in P : h[p] = t
    OBVIOUS
  <2> HIDE DEF T, h
  <2>2. h \in Surjection(P, T)
    BY <2>1 DEF Surjection
  <2> QED BY <1>2, <2>2, FS_Surjection
<1>4. IsFiniteSet(S)
  <2>1. S \in SUBSET T
    <3>1. ASSUME NEW r \in S PROVE r \in T
      <4>1. <<r.src, r.tensor>> \in P
        <5>1. r.src \in D /\ r.tensor \in Nodes
          BY <1>1, <1>a
        <5> HIDE DEF S, R, T, h
        <5> QED BY <1>b, <5>1
      <4>2. h[<<r.src, r.tensor>>] = r
        BY <1>1, <4>1
      <4> QED BY <4>1, <4>2
    <3> QED BY <3>1
  <2> HIDE DEF S, T
  <2> QED BY <1>3, <2>1, FS_Subset
<1>5. \A x, y \in S : <<x, y>> \in R <=> AppendedBefore(x, y)
  OBVIOUS
<1>6. S \in SUBSET routes
  OBVIOUS
<1>7. InputRoutes(dst) = Ranked(S, R)
  BY DEF InputRoutes
<1>8. S = {r \in routes : r.dst = dst}
  OBVIOUS
<1> HIDE DEF S, R
<1>9. StrictOrder(S, R)
  <2>1. \A x \in S : <<x, x>> \notin R
    BY <1>1, <1>5 DEF AppendedBefore
  <2>2. ASSUME NEW x \in S, NEW y \in S, NEW z \in S, AppendedBefore(x, y), AppendedBefore(y, z)
        PROVE  AppendedBefore(x, z)
    BY <1>1, <2>2 DEF AppendedBefore
  <2>3. ASSUME NEW x \in S, NEW y \in S, x # y
        PROVE  AppendedBefore(x, y) \/ AppendedBefore(y, x)
    <3>1. x.tensor # y.tensor \/ x.src # y.src
      BY <1>1, <2>3
    <3> QED BY <1>1, <3>1 DEF AppendedBefore
  <2>4. \A x, y, z \in S : <<x, y>> \in R /\ <<y, z>> \in R => <<x, z>> \in R
    BY <1>5, <2>2
  <2>5. \A x, y \in S : x # y => <<x, y>> \in R \/ <<y, x>> \in R
    BY <1>5, <2>3
  <2> QED BY <2>1, <2>4, <2>5 DEF StrictOrder
<1>10. Lists(Ranked(S, R), S, R)
  BY <1>4, <1>9, RankedLists
<1>11. Ranked(S, R) \in Seq(S) /\ Range(Ranked(S, R)) = S /\ IsInjective(Ranked(S, R))
  BY <1>10 DEF Lists
<1>12. Ranked(S, R) \in Seq(routes)
  BY <1>6, <1>11
<1> QED BY <1>7, <1>8, <1>11, <1>12

(* Every tile reads, along its routes, every part of every tensor that it needs, *)
(* and waits only for tiles before it, in every graph and however the nodes    *)
(* were ordered and cut.                                                    *)
THEOREM RoutesFollowTheSchedule == TileSpec => []RoutesCarryTheDataflow
<1>1. ASSUME DagInv, TilesInv PROVE RoutesCarryTheDataflow
  <2>1. SUFFICES ASSUME Routed PROVE RoutesCarryTheDataflow!2
    BY DEF RoutesCarryTheDataflow
  <2>2. Mapped /\ routes = AllRoutes
    BY <1>1, <2>1 DEF Routed, Mapped
  <2>3. \A r \in routes : r.src < r.dst
    BY <2>2, RoutesAre, TilesPrecede
  <2>4. ASSUME NEW m \in Nodes, NEW n \in Range(ins[m]) \cap Nodes,
               NEW dst \in TilesOf(m), NEW src \in TilesOf(n)
        PROVE  \E i \in DOMAIN InputRoutes(dst) :
                 InputRoutes(dst)[i].src = src /\ InputRoutes(dst)[i].tensor = n
    <3> DEFINE r == Route(src, dst, n)
    <3>1. r \in routes
      BY <2>2, RoutesAre
    <3>2. r.src = src /\ r.tensor = n /\ r.dst = dst
      BY DEF Route
    <3>3. r \in Range(InputRoutes(dst))
      BY <2>2, <3>1, <3>2, InputRoutesList
    <3> QED BY <3>2, <3>3 DEF Range
  <2> QED BY <2>3, <2>4
<1> QED BY <1>1, TilesInvariance, PTL

-------------------------------------------------------------------------------
(* Wiring. *)
LEMMA MinIsIn == ASSUME NEW T \in SUBSET Nat, T # {} PROVE Min(T) \in T
<1>1. \E x \in T : \A y \in T : x <= y
  BY Least
<1> QED BY <1>1 DEF Min

LEMMA OneTile ==
  ASSUME Mapped, NEW n \in Nodes, Cardinality(TilesOf(n)) = 1
  PROVE  /\ TilesOf(n) = {SourceOf(n)} /\ SourceOf(n) \in DOMAIN tiles
<1> DEFINE D == DOMAIN tiles
<1>1. IsFiniteSet(D)
  BY TilesAreDone, Counted
<1>2. TilesOf(n) \in SUBSET D
  BY DEF TilesOf
<1> HIDE DEF D
<1>3. IsFiniteSet(TilesOf(n))
  BY <1>1, <1>2, FS_Subset
<1>4. PICK x : TilesOf(n) = {x}
  BY <1>3, FS_Singleton
<1>5. n \notin Inputs
  BY GraphAssumption DEF Nodes, Inputs
<1>6. SourceOf(n) = x
  BY <1>4, <1>5 DEF SourceOf
<1> QED BY <1>2, <1>4, <1>6 DEF D

(* What arrives at the tile of a node, when one tile makes each thing it reads,  *)
(* arrives from its operands, and every operand arrives.                      *)
LEMMA OperandsArrive ==
  ASSUME Mapped, routes = AllRoutes, NEW id \in DOMAIN tiles, NEW n, n = tiles[id].node,
         \A t \in Range(ins[n]) : t \in Nodes /\ Whole(t)
  PROVE  {InputRoutes(id)[i].src : i \in DOMAIN InputRoutes(id)}
           = {SourceOf(t) : t \in Range(ins[n])}
<1>1. n \in Nodes /\ id \in TilesOf(n)
  BY TilesAreDone
<1>2. \A t \in Range(ins[n]) : TilesOf(t) = {SourceOf(t)}
  <2>1. ASSUME NEW t \in Range(ins[n]) PROVE TilesOf(t) = {SourceOf(t)}
    <3>1. t \in Nodes /\ t \notin Inputs
      BY GraphAssumption DEF Nodes, Inputs
    <3> QED BY <3>1, OneTile DEF Whole
  <2> QED BY <2>1
<1>3. \A m \in Nodes : id \in TilesOf(m) => m = n
  BY DEF TilesOf
<1>4. ASSUME NEW i \in DOMAIN InputRoutes(id)
      PROVE  \E t \in Range(ins[n]) : InputRoutes(id)[i].src = SourceOf(t)
  <2> DEFINE r == InputRoutes(id)[i]
  <2>1. r \in Range(InputRoutes(id))
    BY DEF Range
  <2>2. r \in routes /\ r.dst = id
    BY <2>1, InputRoutesList
  <2> HIDE DEF r
  <2>3. PICK t \in Nodes, m \in Nodes : t \in Range(ins[m]) /\ r.src \in TilesOf(t) /\ r.dst \in TilesOf(m)
    BY <2>2, RoutesAre
  <2>4. m = n
    BY <1>3, <2>2, <2>3
  <2> QED BY <1>2, <2>3, <2>4 DEF r
<1>5. ASSUME NEW t \in Range(ins[n])
      PROVE  \E i \in DOMAIN InputRoutes(id) : InputRoutes(id)[i].src = SourceOf(t)
  <2> DEFINE r == Route(SourceOf(t), id, t)
  <2>1. r \in routes
    BY <1>1, <1>2, RoutesAre
  <2>2. r.dst = id /\ r.src = SourceOf(t)
    BY DEF Route
  <2>3. r \in Range(InputRoutes(id))
    BY <2>1, <2>2, InputRoutesList
  <2> QED BY <2>2, <2>3 DEF Range
<1> QED BY <1>4, <1>5

LEMMA TwoOperands ==
  ASSUME Mapped, routes = AllRoutes, NEW id \in DOMAIN tiles, NEW n, n = tiles[id].node,
         NEW operands, operands = {SourceOf(t) : t \in Range(ins[n])},
         tiles[id].type = "ALU", \A t \in Range(ins[n]) : Whole(t),
         Cardinality(operands) = 2, FabricInput \notin operands, id - 1 \in operands
  PROVE  {MainSourceOf(id), SkipSourceOf(id)} = operands
<1> DEFINE s == InputRoutes(id)
           L == Len(s)
           sources == [i \in DOMAIN s |-> s[i].src]
           others == {i \in DOMAIN sources : sources[i] # id - 1}
<1>1. n \in Nodes /\ ins \in [Nodes -> ActLists]
  BY TilesAreDone DEF Mapped, DagInv, KahnInv, KahnTypeOK
<1>2. \A t \in Range(ins[n]) : t \in Nodes /\ Whole(t)
  <2>1. ASSUME NEW t \in Range(ins[n]) PROVE t \in Nodes
    <3>1. t \in Nodes \cup Inputs
      BY <1>1, ReadsTensors DEF Range
    <3>2. t \notin Inputs
      BY DEF SourceOf
    <3> QED BY <3>1, <3>2
  <2> QED BY <2>1
<1>3. {s[i].src : i \in DOMAIN s} = operands
  BY <1>2, OperandsArrive
<1>4. IsFiniteSet(operands)
  <2> DEFINE D == DOMAIN ins[n]
             h == [i \in D |-> SourceOf(ins[n][i])]
  <2>1. IsFiniteSet(D)
    BY <1>1, PositionsFinite
  <2>2. h \in [D -> operands] /\ \A x \in operands : \E i \in D : h[i] = x
    BY DEF Range
  <2> HIDE DEF D, h
  <2>3. h \in Surjection(D, operands)
    BY <2>2 DEF Surjection
  <2> QED BY <2>1, <2>3, FS_Surjection
<1>5. PICK y : operands \ {id - 1} = {y}
  <2> DEFINE a == id - 1
  <2> HIDE DEF a
  <2>1. a \in operands
    BY DEF a
  <2>2. IsFiniteSet(operands \ {a}) /\ Cardinality(operands \ {a}) = Cardinality(operands) - 1
    BY <1>4, <2>1, FS_RemoveElement
  <2>3. Cardinality(operands \ {a}) = 1
    BY <2>2
  <2> QED BY <2>2, <2>3, FS_Singleton DEF a
<1>6. operands = {id - 1, y} /\ y # id - 1
  BY <1>5
<1>7. s \in Seq(routes) /\ DOMAIN s = 1 .. L /\ L \in Nat
  BY InputRoutesList, LenProperties
<1> HIDE DEF s, L
<1>8. \A x \in operands : \E i \in 1 .. L : s[i].src = x
  <2> HIDE DEF sources, others
  <2> QED BY <1>3, <1>7
<1>9. PICK i \in 1 .. L : s[i].src = id - 1
  BY <1>8
<1>10. PICK j \in 1 .. L : s[j].src = y
  BY <1>6, <1>8
<1>11. L >= 2
  <2>1. i # j
    BY <1>6, <1>10, <1>9
  <2> QED BY <1>7, <1>10, <2>1
<1>12. Len(sources) = L /\ DOMAIN sources = 1 .. L
  BY <1>7
<1>13. j \in others /\ others \in SUBSET Nat
  BY <1>6, <1>7, <1>10
<1>14. Min(others) \in others
  <2> HIDE DEF others
  <2> QED BY <1>13, MinIsIn
<1>15. sources[Min(others)] = y
  <2> DEFINE k == Min(others)
  <2>1. k \in DOMAIN s /\ s[k].src # id - 1 /\ sources[k] = s[k].src
    BY <1>14
  <2>2. s[k].src \in operands
    BY <1>3, <2>1
  <2> QED BY <1>6, <2>1, <2>2
<1>16. SkipSourceOf(id) = sources[Min(others)]
  BY <1>11, <1>12, <1>13 DEF SkipSourceOf, s
<1> QED BY <1>6, <1>15, <1>16 DEF MainSourceOf

(* In every graph, a residual addition of two tiles of which one is just before  *)
(* it is wired to both, and nothing but an addition has a skip source.         *)
THEOREM SkipsAreTheOperands == TileSpec => []ResidualsAreWired
<1>1. ASSUME DagInv, TilesInv PROVE ResidualsAreWired
  <2>1. SUFFICES ASSUME Routed, NEW id \in DOMAIN tiles, NEW n, n = tiles[id].node,
                        NEW operands, operands = {SourceOf(t) : t \in Range(ins[n])}
                 PROVE  /\ tiles[id].type # "ALU" => SkipSourceOf(id) = TiedOff
                        /\ /\ tiles[id].type = "ALU" /\ \A t \in Range(ins[n]) : Whole(t)
                           /\ Cardinality(operands) = 2 /\ FabricInput \notin operands
                           /\ id - 1 \in operands
                           => {MainSourceOf(id), SkipSourceOf(id)} = operands
    BY DEF ResidualsAreWired
  <2>2. Mapped /\ routes = AllRoutes
    BY <1>1, <2>1 DEF Routed, Mapped
  <2>3. tiles[id].type # "ALU" => SkipSourceOf(id) = TiedOff
    BY DEF SkipSourceOf
  <2> QED BY <2>1, <2>2, <2>3, TwoOperands
<1> QED BY <1>1, TilesInvariance, PTL

-------------------------------------------------------------------------------
(* Shares and ROMs.  An output falls in exactly one piece. *)
LEMMA PieceOf ==
  ASSUME NEW out \in Positive, NEW most \in Positive, NEW o \in 0 .. out - 1
  PROVE  \E k \in 1 .. CeilDiv(out, most) :
           /\ (k - 1) * most <= o /\ o < k * most
           /\ \A i \in 1 .. CeilDiv(out, most) : (i - 1) * most <= o /\ o < i * most => i = k
<1>a. PICK c : c = CeilDiv(out, most)
  OBVIOUS
<1>b. PICK q : q = o \div most
  OBVIOUS
<1>c. PICK r : r = o % most
  OBVIOUS
<1>1. out \in Nat \ {0} /\ most \in Nat \ {0} /\ o \in Nat /\ o < out
  BY DEF Positive
<1>2. q \in Nat /\ r \in 0 .. most - 1 /\ o = q * most + r
  <2>1. o \div most \in Nat /\ o % most \in 0 .. most - 1 /\ o = (o \div most) * most + (o % most)
    BY <1>1, Remainder
  <2> QED BY <1>b, <1>c, <2>1
<1>3. c \in Nat /\ q < c
  <2>1. /\ CeilDiv(out, most) \in Nat
        /\ \A x \in Nat, y \in 0 .. most - 1 : x * most + y < out => x < CeilDiv(out, most)
    BY <1>1, Ceiling DEF CeilDiv
  <2> QED BY <1>a, <1>1, <1>2, <2>1
<1>4. q + 1 \in 1 .. c /\ (q + 1) - 1 = q
  BY <1>2, <1>3
<1>5. PICK a : a = q * most
  OBVIOUS
<1>6. a \in Nat /\ a <= o /\ o < a + most
  <2>1. a \in Nat
    BY <1>1, <1>2, <1>5, ProductNat
  <2>2. o = a + r
    BY <1>2, <1>5
  <2> QED BY <1>1, <1>2, <2>1, <2>2
<1>7. (q + 1) * most = a + most
  BY <1>1, <1>2, <1>5
<1>8. (q + 1 - 1) * most <= o /\ o < (q + 1) * most
  BY <1>4, <1>5, <1>6, <1>7
<1>9. ASSUME NEW i \in 1 .. c, (i - 1) * most <= o, o < i * most PROVE i = q + 1
  <2>1. PICK j : j = i - 1
    OBVIOUS
  <2>2. j \in Nat /\ i = j + 1
    BY <1>3, <2>1
  <2>3. PICK e : e = j * most
    OBVIOUS
  <2>4. e \in Nat /\ i * most = e + most
    BY <1>1, <2>2, <2>3, ProductNat
  <2>5. e <= o /\ o < e + most
    BY <1>9, <2>1, <2>3, <2>4
  <2>6. o - e \in 0 .. most - 1 /\ o = e + (o - e)
    BY <1>1, <2>4, <2>5
  <2>7. PICK d : d = o - e
    OBVIOUS
  <2>8. (j * most + d) \div most = j
    BY <1>1, <2>2, <2>6, <2>7, Quotient
  <2>9. j = q
    BY <1>b, <2>3, <2>6, <2>7, <2>8
  <2> QED BY <2>2, <2>9
<1> QED BY <1>a, <1>4, <1>8, <1>9

LEMMA Multiplies == ASSUME NEW n \in Nodes, op[n] \in DOMAIN OpToTile
                    PROVE  IsMac(n) <=> OpToTile[op[n]] = "MAC"
BY DEF OpToTile, IsMac

(* Every output of a node that multiplies is in one of its tiles only. *)
LEMMA OneShare ==
  ASSUME Shaped, ins \in [Nodes -> ActLists], NEW n \in Nodes, IsMac(n),
         NEW o \in 0 .. OutputDim(n) - 1
  PROVE  \E k \in 1 .. Len(TilesFor(n)) :
           \A i \in 1 .. Len(TilesFor(n)) : o \in OutputsOf(TilesFor(n)[i]) <=> i = k
<1>1. op[n] \in DOMAIN OpToTile
  BY DEF IsMac, OpToTile
<1>2. OutputDim(n) \in Positive /\ MaxOutputsPerTile(n) \in Positive
  BY WeightsNat, Cuts
<1>3. CASE ~NeedsPartition(n)
  <2> DEFINE t == Tile(n, 0, OutputDim(n), FALSE)
  <2>1. TilesFor(n) = <<t>> /\ OutputsOf(t) = 0 .. OutputDim(n) - 1
    BY <1>1, <1>3 DEF TilesFor, OutputsOf, Tile
  <2> HIDE DEF t
  <2>2. Len(TilesFor(n)) = 1 /\ TilesFor(n)[1] = t
    BY <2>1
  <2>3. 1 \in 1 .. 1 /\ \A i \in 1 .. 1 : i = 1
    OBVIOUS
  <2>4. o \in OutputsOf(TilesFor(n)[1])
    BY <2>1, <2>2
  <2>5. \A i \in 1 .. 1 : o \in OutputsOf(TilesFor(n)[i]) <=> i = 1
    BY <2>3, <2>4
  <2> QED BY <2>2, <2>3, <2>5
<1>4. CASE NeedsPartition(n)
  <2>a. PICK out : out = OutputDim(n)
    OBVIOUS
  <2>b. PICK most : most = MaxOutputsPerTile(n)
    OBVIOUS
  <2>c. PICK c : c = CeilDiv(out, most)
    OBVIOUS
  <2>d. PICK s : s = Partition(n)
    OBVIOUS
  <2>1. out \in Positive /\ most \in Positive /\ o \in 0 .. out - 1 /\ c \in Nat
    BY <1>2, <2>a, <2>b, <2>c, Cuts DEF Positive
  <2>2. TilesFor(n) = s /\ Len(s) = c /\ DOMAIN s = 1 .. c
    BY <1>1, <1>4, <2>a, <2>b, <2>c, <2>d, <2>1 DEF TilesFor, Partition
  <2>3. ASSUME NEW i \in 1 .. c
        PROVE  o \in OutputsOf(s[i]) <=> (i - 1) * most <= o /\ o < i * most
    <3>1. /\ s[i].first = (i - 1) * most
          /\ s[i].end = IF i * most <= out THEN i * most ELSE out
      BY <1>1, <2>a, <2>b, <2>c, <2>d, PieceIsTile
    <3>2. PICK f : f = (i - 1) * most
      OBVIOUS
    <3>3. PICK e : e = i * most
      OBVIOUS
    <3>4. f \in Int /\ e \in Int
      <4>1. i \in Int /\ most \in Int
        BY <2>1 DEF Positive
      <4> QED BY <3>2, <3>3, <4>1
    <3>5. out \in Nat /\ o \in Nat /\ o < out
      BY <2>1 DEF Positive
    <3>6. OutputsOf(s[i]) = f .. (IF e <= out THEN e ELSE out) - 1
      BY <3>1, <3>2, <3>3 DEF OutputsOf
    <3>7. o \in f .. (IF e <= out THEN e ELSE out) - 1 <=> f <= o /\ o < e
      BY <3>4, <3>5
    <3> QED BY <3>2, <3>3, <3>6, <3>7
  <2>4. PICK k \in 1 .. c :
          /\ (k - 1) * most <= o /\ o < k * most
          /\ \A i \in 1 .. c : (i - 1) * most <= o /\ o < i * most => i = k
    BY <2>1, <2>c, PieceOf
  <2> QED BY <2>2, <2>3, <2>4
<1> QED BY <1>3, <1>4

LEMMA SharedOut ==
  ASSUME Mapped, NEW n \in Nodes, IsMac(n), NEW o \in 0 .. OutputDim(n) - 1
  PROVE  Cardinality({i \in TilesOf(n) : o \in OutputsOf(tiles[i])}) = 1
<1>1. Len(nodeSchedules) = NumNodes /\ mapped = NumNodes
  BY TilesAreDone
<1>2. PICK p \in 1 .. mapped : order[p] = n
  BY <1>1, OrderDone DEF Mapped
<1>3. PICK b \in Nat : Block(p, b)
  BY DEF Mapped, TilesInv
<1>4. PICK made : made = TilesFor(n)
  OBVIOUS
<1>5. made \in Seq(TileRecord) /\ Len(made) \in Nat
  BY <1>4, TilesMade, LenProperties DEF Mapped, DagInv, KahnInv, KahnTypeOK
<1>6. TilesOf(n) = b + 1 .. b + Len(made) /\ \A k \in 1 .. Len(made) : tiles[b + k] = made[k]
  BY <1>2, <1>3, <1>4 DEF Block
<1>7. PICK k \in 1 .. Len(made) : \A i \in 1 .. Len(made) : o \in OutputsOf(made[i]) <=> i = k
  BY <1>4, OneShare DEF Mapped, DagInv, KahnInv, KahnTypeOK
<1>8. ASSUME NEW i \in TilesOf(n) PROVE o \in OutputsOf(tiles[i]) <=> i = b + k
  <2>1. /\ i - b \in 1 .. Len(made) /\ i = b + (i - b)
        /\ (i - b = k) <=> (i = b + k)
    <3>1. i \in b + 1 .. b + Len(made)
      BY <1>6
    <3>2. k \in Nat /\ b \in Nat /\ i \in Nat
      BY <1>5, <3>1
    <3>3. i - b \in 1 .. Len(made) /\ i = b + (i - b)
      BY <1>5, <3>1
    <3>4. (i - b = k) <=> (i = b + k)
      BY <3>2
    <3> QED BY <3>3, <3>4
  <2>2. tiles[i] = made[i - b]
    BY <1>6, <2>1
  <2> QED BY <1>7, <2>1, <2>2
<1>9. b + k \in TilesOf(n)
  BY <1>5, <1>6
<1>10. {i \in TilesOf(n) : o \in OutputsOf(tiles[i])} = {b + k}
  BY <1>8, <1>9
<1> QED BY <1>10, FS_Singleton

(* What a tile that multiplies is. *)
LEMMA MacTileIs ==
  ASSUME Mapped, NEW t \in MacTiles
  PROVE  /\ t.node \in Nodes /\ IsMac(t.node) /\ op[t.node] \in DOMAIN OpToTile
         /\ \/ ~NeedsPartition(t.node) /\ t = Tile(t.node, 0, OutputDim(t.node), FALSE)
            \/ \E i \in 1 .. CeilDiv(OutputDim(t.node), MaxOutputsPerTile(t.node)) :
                 NeedsPartition(t.node) /\ t = Partition(t.node)[i]
<1>1. PICK j \in DOMAIN tiles : t = tiles[j] /\ t.type = "MAC"
  BY DEF MacTiles
<1>2. PICK n : n = t.node
  OBVIOUS
<1>3. n \in Nodes /\ j \in TilesOf(n)
  BY <1>1, <1>2, TilesAreDone
<1>4. Len(nodeSchedules) = NumNodes /\ mapped = NumNodes
  BY TilesAreDone
<1>5. PICK p \in 1 .. mapped : order[p] = n
  BY <1>3, <1>4, OrderDone DEF Mapped
<1>6. PICK b \in Nat : Block(p, b)
  BY DEF Mapped, TilesInv
<1>7. PICK made : made = TilesFor(n)
  OBVIOUS
<1>8. /\ Shaped /\ ins \in [Nodes -> ActLists]
      /\ made \in Seq(TileRecord) /\ Len(made) \in Nat
  BY <1>3, <1>7, TilesMade, LenProperties DEF Mapped, DagInv, KahnInv, KahnTypeOK
<1>9. j \in b + 1 .. b + Len(made) /\ \A k \in 1 .. Len(made) : tiles[b + k] = made[k]
  BY <1>3, <1>5, <1>6, <1>7 DEF Block
<1>10. PICK k \in 1 .. Len(made) : j = b + k
  <2>1. j - b \in 1 .. Len(made) /\ j = b + (j - b)
    BY <1>8, <1>9
  <2> QED BY <2>1
<1>11. t = made[k]
  BY <1>1, <1>9, <1>10
<1>12. op[n] \in DOMAIN OpToTile
  <2>1. TilesFor(n) # <<>>
    BY <1>7, <1>8, <1>10
  <2> QED BY <2>1 DEF TilesFor
<1>13. CASE ~NeedsPartition(n)
  <2>1. made = <<Tile(n, 0, OutputDim(n), FALSE)>>
    BY <1>7, <1>12, <1>13 DEF TilesFor
  <2>2. t = Tile(n, 0, OutputDim(n), FALSE)
    <3>1. PICK x : x = Tile(n, 0, OutputDim(n), FALSE)
      OBVIOUS
    <3>2. made = <<x>>
      BY <2>1, <3>1
    <3>3. Len(made) = 1 /\ made[1] = x
      BY <3>2
    <3>4. k = 1
      BY <1>10, <3>3
    <3> QED BY <1>11, <3>1, <3>3, <3>4
  <2>3. t.type = OpToTile[op[n]]
    BY <2>2 DEF Tile
  <2> QED BY <1>1, <1>2, <1>3, <1>12, <1>13, <2>2, <2>3, Multiplies
<1>14. CASE NeedsPartition(n)
  <2>1. made = Partition(n)
    BY <1>7, <1>12, <1>14 DEF TilesFor
  <2>2. Len(made) = CeilDiv(OutputDim(n), MaxOutputsPerTile(n))
    BY <1>3, <1>8, <2>1, Cuts DEF Partition, Positive
  <2>3. IsMac(n)
    BY <1>3, <1>12, <1>14, Multiplies DEF NeedsPartition
  <2> QED BY <1>2, <1>3, <1>10, <1>11, <1>12, <1>14, <2>1, <2>2, <2>3
<1> QED BY <1>13, <1>14

(* A piece fills its ROM, or is one output alone. *)
Fits(t) == t.weight <= MaxWeightRomBytes \/ t.end = t.first + 1

LEMMA PieceFits ==
  ASSUME Shaped, ins \in [Nodes -> ActLists], NEW n \in Nodes, op[n] \in DOMAIN OpToTile,
         NEW i \in 1 .. CeilDiv(OutputDim(n), MaxOutputsPerTile(n)),
         NEW t, t = Partition(n)[i]
  PROVE  /\ Fits(t)
         /\ t.node = n /\ t.split = TRUE
         /\ t.first \in Nat /\ t.end \in Nat /\ t.first < t.end /\ t.end <= OutputDim(n)
<1>a. PICK most : most = MaxOutputsPerTile(n)
  OBVIOUS
<1>b. PICK out : out = OutputDim(n)
  OBVIOUS
<1>c. PICK per : per = BytesPerOutput(n)
  OBVIOUS
<1>d. PICK q : q = MaxWeightRomBytes \div per
  OBVIOUS
<1>e. PICK f : f = (i - 1) * most
  OBVIOUS
<1>f. PICK g : g = i * most
  OBVIOUS
<1>g. PICK e : e = IF g <= out THEN g ELSE out
  OBVIOUS
<1>1. most \in Nat \ {0} /\ out \in Nat \ {0} /\ per \in Nat \ {0}
  BY <1>a, <1>b, <1>c, Cuts, WeightsNat DEF Positive
<1>2. /\ t \in TileRecord /\ t.node = n /\ t.split = TRUE
      /\ t.first = f /\ t.end = e /\ t.weight = (e - f) * per /\ f < e
  <2>1. /\ t \in TileRecord /\ t.node = n /\ t.split = TRUE
        /\ t.first = (i - 1) * MaxOutputsPerTile(n)
        /\ t.end = IF i * MaxOutputsPerTile(n) <= OutputDim(n)
                     THEN i * MaxOutputsPerTile(n) ELSE OutputDim(n)
        /\ t.weight = (t.end - t.first) * BytesPerOutput(n) /\ t.first < t.end
    BY PieceIsTile
  <2>2. t.first = f
    BY <1>a, <1>e, <2>1
  <2>3. t.end = e
    BY <1>a, <1>b, <1>f, <1>g, <2>1
  <2> QED BY <1>c, <2>1, <2>2, <2>3
<1>3. f \in Nat /\ e \in Nat
  BY <1>2 DEF TileRecord
<1>4. g = f + most /\ g \in Nat
  <2>1. PICK j : j = i - 1
    OBVIOUS
  <2>2. CeilDiv(out, most) \in Nat
    BY <1>a, <1>b, Cuts DEF Positive
  <2>3. j \in Nat /\ i = j + 1
    BY <1>a, <1>b, <2>1, <2>2
  <2>4. (j + 1) * most = j * most + most
    BY <1>1, <2>3
  <2> QED BY <1>1, <1>3, <1>e, <1>f, <2>1, <2>3, <2>4
<1>5. e <= out /\ e <= f + most
  BY <1>1, <1>3, <1>4, <1>g
<1>6. q \in Nat /\ q * per <= MaxWeightRomBytes
  <2>1. MaxWeightRomBytes \in Nat
    BY RomAssumption
  <2>2. /\ MaxWeightRomBytes \div per \in Nat /\ MaxWeightRomBytes % per \in 0 .. per - 1
        /\ MaxWeightRomBytes = (MaxWeightRomBytes \div per) * per + (MaxWeightRomBytes % per)
    BY <1>1, <2>1, Remainder
  <2>3. PICK r : r = MaxWeightRomBytes % per
    OBVIOUS
  <2>4. PICK x : x = q * per
    OBVIOUS
  <2>5. x \in Nat
    BY <1>1, <1>d, <2>2, <2>4, ProductNat
  <2>6. MaxWeightRomBytes = x + r /\ r \in Nat
    BY <1>1, <1>d, <2>2, <2>3, <2>4
  <2>7. x <= MaxWeightRomBytes
    BY <2>1, <2>5, <2>6
  <2> QED BY <1>d, <2>2, <2>4, <2>7
<1>7. most = IF q >= 1 THEN q ELSE 1
  BY <1>a, <1>c, <1>d, <1>6 DEF MaxOutputsPerTile, MaxOf
<1>8. CASE q >= 1
  <2>1. PICK w : w = e - f
    OBVIOUS
  <2>2. w \in Nat /\ w <= q
    BY <1>1, <1>2, <1>3, <1>5, <1>6, <1>7, <1>8, <2>1
  <2>3. w * per <= q * per /\ w * per \in Nat /\ q * per \in Nat
    BY <1>1, <1>6, <2>2
  <2>4. w * per <= MaxWeightRomBytes
    BY <1>6, <2>3, RomAssumption
  <2> QED BY <1>2, <1>3, <1>5, <1>b, <2>1, <2>4 DEF Fits
<1>9. CASE ~(q >= 1)
  <2>1. e = f + 1
    BY <1>2, <1>3, <1>5, <1>7, <1>9
  <2> QED BY <1>2, <1>3, <1>5, <1>b, <2>1 DEF Fits
<1> QED BY <1>8, <1>9

(* Rows of d numbers each, from row f on. *)
LEMMA Grid ==
  ASSUME NEW w \in Nat, NEW d \in Nat \ {0}, NEW f \in Nat
  PROVE  {<<f + k \div d, k % d>> : k \in 0 .. w * d - 1} = (f .. f + w - 1) \X (0 .. d - 1)
<1>1. ASSUME NEW k \in 0 .. w * d - 1
      PROVE  f + k \div d \in f .. f + w - 1 /\ k % d \in 0 .. d - 1
  <2>1. PICK q : q = k \div d
    OBVIOUS
  <2>2. PICK r : r = k % d
    OBVIOUS
  <2>3. w * d \in Nat /\ k \in Nat /\ k < w * d
    BY ProductNat
  <2>4. q \in Nat /\ r \in 0 .. d - 1 /\ k = q * d + r
    BY <2>1, <2>2, <2>3, Remainder
  <2>5. q < w
    <3>1. SUFFICES ASSUME w <= q PROVE FALSE
      BY <2>4
    <3>2. w * d <= q * d /\ q * d \in Nat
      BY <2>4, <3>1
    <3>3. PICK a : a = q * d
      OBVIOUS
    <3>4. PICK b : b = w * d
      OBVIOUS
    <3>5. a \in Nat /\ b \in Nat /\ b <= a /\ k = a + r /\ r \in Nat /\ k < b
      BY <2>3, <2>4, <3>2, <3>3, <3>4
    <3> QED BY ONLY <3>5
  <2> QED BY <2>1, <2>2, <2>4, <2>5
<1>2. ASSUME NEW a \in f .. f + w - 1, NEW b \in 0 .. d - 1
      PROVE  \E k \in 0 .. w * d - 1 : a = f + k \div d /\ b = k % d
  <2>1. PICK q : q = a - f
    OBVIOUS
  <2>2. q \in 0 .. w - 1 /\ q \in Nat /\ a = f + q
    BY <2>1
  <2>3. PICK k : k = q * d + b
    OBVIOUS
  <2>4. k \div d = q /\ k % d = b
    BY <2>2, <2>3, Quotient
  <2>5. q * d \in Nat /\ w * d \in Nat /\ q * d + d <= w * d
    BY <2>2, Rows
  <2>6. k \in 0 .. w * d - 1
    <3>1. PICK x : x = q * d
      OBVIOUS
    <3>2. PICK y : y = w * d
      OBVIOUS
    <3>3. x \in Nat /\ y \in Nat /\ x + d <= y /\ k = x + b /\ d \in Nat /\ b \in 0 .. d - 1
      BY <2>3, <2>5, <3>1, <3>2
    <3>4. k \in 0 .. y - 1
      BY ONLY <3>3
    <3> QED BY <3>2, <3>4
  <2> QED BY <2>2, <2>4, <2>6
<1>3. PICK K : K = 0 .. w * d - 1
  OBVIOUS
<1>4. PICK A : A = f .. f + w - 1
  OBVIOUS
<1>5. PICK B : B = 0 .. d - 1
  OBVIOUS
<1>6. \A k \in K : f + k \div d \in A /\ k % d \in B
  BY <1>1, <1>3, <1>4, <1>5
<1>7. \A a \in A, b \in B : \E k \in K : a = f + k \div d /\ b = k % d
  BY <1>2, <1>3, <1>4, <1>5
<1>8. {<<f + k \div d, k % d>> : k \in K} = A \X B
  BY ONLY <1>6, <1>7
<1> QED BY <1>3, <1>4, <1>5, <1>8

LEMMA TileSpans ==
  ASSUME Mapped, NEW t \in MacTiles
  PROVE  /\ t.first \in Nat /\ t.end \in Nat /\ t.first < t.end /\ t.end <= OutputDim(t.node)
         /\ ~t.split => t.first = 0 /\ t.end = OutputDim(t.node)
         /\ Fits(t)
<1>1. PICK n : n = t.node
  OBVIOUS
<1>2. n \in Nodes /\ IsMac(n) /\ op[n] \in DOMAIN OpToTile
  BY <1>1, MacTileIs
<1>3. Shaped /\ ins \in [Nodes -> ActLists]
  BY DEF Mapped, DagInv, KahnInv, KahnTypeOK
<1>4. CASE ~NeedsPartition(n) /\ t = Tile(n, 0, OutputDim(n), FALSE)
  <2>1. t.first = 0 /\ t.end = OutputDim(n) /\ t.weight = WeightBytes(n)
    BY <1>4 DEF Tile
  <2>2. OutputDim(n) \in Nat /\ 0 < OutputDim(n) /\ WeightBytes(n) \in Nat
    BY <1>2, <1>3, WeightsNat DEF Positive
  <2>3. ~(WeightBytes(n) > MaxWeightRomBytes)
    BY <1>2, <1>4, Multiplies DEF NeedsPartition
  <2>4. WeightBytes(n) <= MaxWeightRomBytes
    BY <2>2, <2>3, RomAssumption
  <2> QED BY <1>1, <2>1, <2>2, <2>4 DEF Fits
<1>5. CASE \E i \in 1 .. CeilDiv(OutputDim(n), MaxOutputsPerTile(n)) : t = Partition(n)[i]
  <2>1. PICK i \in 1 .. CeilDiv(OutputDim(n), MaxOutputsPerTile(n)) : t = Partition(n)[i]
    BY <1>5
  <2>2. Fits(t)
    BY <1>2, <1>3, <2>1, PieceFits
  <2>3. t.split = TRUE
    BY <1>2, <1>3, <2>1, PieceFits
  <2>4. t.first \in Nat /\ t.end \in Nat /\ t.first < t.end
    BY <1>2, <1>3, <2>1, PieceFits
  <2>5. t.end <= OutputDim(n)
    BY <1>2, <1>3, <2>1, PieceFits
  <2> QED BY <1>1, <2>2, <2>3, <2>4, <2>5
<1> QED BY <1>1, <1>4, <1>5, MacTileIs

LEMMA Spans ==
  ASSUME NEW f \in Nat, NEW e \in Nat, f < e
  PROVE  /\ Cardinality(f .. e - 1) = e - f
         /\ e - f \in Nat /\ f + (e - f) - 1 = e - 1
<1>1. f \in Int /\ e - 1 \in Int /\ ~(f > e - 1) /\ (e - 1) - f + 1 = e - f
  OBVIOUS
<1>2. Cardinality(f .. e - 1) = IF f > e - 1 THEN 0 ELSE (e - 1) - f + 1
  BY <1>1, FS_Interval
<1>3. Cardinality(f .. e - 1) = e - f
  BY <1>1, <1>2
<1> QED BY <1>3

(* The ROM of a convolution's tile. *)
LEMMA ConvRom ==
  ASSUME Mapped, NEW t \in MacTiles, op[t.node] = "FUSED_CONV"
  PROVE  RomContents(t) = OutputsOf(t) \X (0 .. InputDim(t.node) - 1)
<1>1. PICK n : n = t.node
  OBVIOUS
<1>2. PICK f : f = t.first
  OBVIOUS
<1>3. PICK e : e = t.end
  OBVIOUS
<1>4. PICK d : d = InputDim(n)
  OBVIOUS
<1>5. PICK w : w = e - f
  OBVIOUS
<1>6. /\ f \in Nat /\ e \in Nat /\ f < e /\ e <= OutputDim(n)
      /\ ~t.split => f = 0 /\ e = OutputDim(n)
  BY <1>1, <1>2, <1>3, TileSpans
<1>7. n \in Nodes /\ d \in Nat \ {0} /\ OutputDim(n) \in Nat
  BY <1>1, <1>4, MacTileIs, WeightsNat DEF InputDim, Positive, Mapped, DagInv, KahnInv, KahnTypeOK
<1>8. Dim0(n) = OutputDim(n) /\ Dim1(n) = d /\ \A a, b : WeightAt(n, a, b) = <<a, b>>
  BY <1>1, <1>4 DEF Dim0, Dim1, WeightAt
<1>9. Slice(t) = f .. e - 1
  <2>1. Min({e, OutputDim(n)}) = e
    BY <1>6, <1>7, MinOfTwo
  <2> QED BY <1>1, <1>2, <1>3, <1>6, <1>8, <2>1 DEF Slice
<1>10. Cardinality(f .. e - 1) = w /\ w \in Nat /\ f + w - 1 = e - 1
  BY <1>5, <1>6, Spans
<1>11. Flat(t) = [k \in 0 .. w * d - 1 |-> <<f + k \div d, k % d>>]
  BY <1>1, <1>2, <1>8, <1>9, <1>10 DEF Flat
<1>12. RomContents(t) = {<<f + k \div d, k % d>> : k \in 0 .. w * d - 1}
  <2>1. PICK K : K = 0 .. w * d - 1
    OBVIOUS
  <2>2. Flat(t) = [k \in K |-> <<f + k \div d, k % d>>]
    BY <1>11, <2>1
  <2>3. RomContents(t) = {<<f + k \div d, k % d>> : k \in K}
    BY <2>2 DEF RomContents
  <2> QED BY <2>1, <2>3
<1>13. RomContents(t) = (f .. f + w - 1) \X (0 .. d - 1)
  BY <1>6, <1>7, <1>10, <1>12, Grid
<1> QED BY <1>1, <1>2, <1>3, <1>4, <1>10, <1>13 DEF OutputsOf

(* The ROM of a linear layer as wide as its tile. *)
LEMMA LinearRom ==
  ASSUME Mapped, NEW t \in MacTiles, op[t.node] = "FUSED_LINEAR", ~t.split,
         OutputDim(t.node) = MaxParallelism
  PROVE  ServesItsLanes(t)
<1>1. PICK n : n = t.node
  OBVIOUS
<1>2. PICK d : d = InputDim(n)
  OBVIOUS
<1>3. PICK m : m = MaxParallelism
  OBVIOUS
<1>4. n \in Nodes /\ d \in Nat \ {0} /\ m \in Nat \ {0} /\ OutputDim(n) = m
  BY <1>1, <1>2, <1>3, MacTileIs, WeightsNat, LanesAssumption
     DEF InputDim, Positive, Mapped, DagInv, KahnInv, KahnTypeOK
<1>5. t.first = 0 /\ OutputsOf(t) = 0 .. m - 1
  BY <1>1, <1>4, TileSpans DEF OutputsOf
<1>6. Dim0(n) = d /\ Dim1(n) = m /\ \A a, b : WeightAt(n, a, b) = <<b, a>>
  BY <1>1, <1>2, <1>4 DEF Dim0, Dim1, WeightAt
<1>7. Slice(t) = 0 .. d - 1
  BY <1>1, <1>6 DEF Slice
<1>8. Cardinality(0 .. d - 1) = d
  <2>1. 0 \in Nat /\ d \in Nat /\ 0 < d /\ d - 0 = d
    BY <1>4
  <2>2. Cardinality(0 .. d - 1) = d - 0
    BY <2>1, Spans
  <2> QED BY <2>1, <2>2
<1>9. Flat(t) = [k \in 0 .. d * m - 1 |-> <<k % m, 0 + k \div m>>]
  BY <1>1, <1>5, <1>6, <1>7, <1>8 DEF Flat
<1>10. ASSUME NEW i \in 0 .. d - 1, NEW o \in 0 .. m - 1 PROVE RomWord(t, i, o) = <<o, i>>
  <2>1. PICK k : k = i * m + o
    OBVIOUS
  <2>2. k \div m = i /\ k % m = o
    BY <1>4, <2>1, Quotient
  <2>3. i * m \in Nat /\ d * m \in Nat /\ i * m + m <= d * m
    BY <1>4, Rows
  <2>4. k \in 0 .. d * m - 1
    <3>1. PICK x : x = i * m
      OBVIOUS
    <3>2. PICK y : y = d * m
      OBVIOUS
    <3>3. x \in Nat /\ y \in Nat /\ x + m <= y /\ k = x + o /\ m \in Nat /\ o \in 0 .. m - 1
      BY <1>4, <2>1, <2>3, <3>1, <3>2
    <3>4. k \in 0 .. y - 1
      BY ONLY <3>3
    <3> QED BY <3>2, <3>4
  <2>5. k \in DOMAIN Flat(t) /\ Flat(t)[k] = <<o, 0 + i>>
    BY <1>9, <2>2, <2>4
  <2>6. 0 + i = i
    BY <1>4
  <2> QED BY <1>3, <2>1, <2>5, <2>6 DEF RomWord
<1>11. \A o \in 0 .. m - 1 : o - 0 = o
  BY <1>4
<1> QED BY <1>1, <1>2, <1>5, <1>10, <1>11 DEF ServesItsLanes

(* In every graph, with ROMs and lanes of any size: the tiles of a node share    *)
(* its outputs out, what does not fit is one output alone, and the ROMs hold    *)
(* what the tiles read.                                                     *)
THEOREM TilesShare == TileSpec => []TilesShareTheOutputs
<1>1. ASSUME DagInv, TilesInv PROVE TilesShareTheOutputs
  <2>1. SUFFICES ASSUME Mapped PROVE TilesShareTheOutputs
    BY <1>1 DEF TilesShareTheOutputs, Routed, Mapped
  <2>2. \A n \in Nodes : IsMac(n) =>
          \A o \in 0 .. OutputDim(n) - 1 :
            Cardinality({i \in TilesOf(n) : o \in OutputsOf(tiles[i])}) = 1
    BY <2>1, SharedOut
  <2>3. \A t \in MacTiles : t.weight <= MaxWeightRomBytes \/ t.end = t.first + 1
    BY <2>1, TileSpans DEF Fits
  <2>4. \A t \in MacTiles : op[t.node] = "FUSED_CONV" =>
          RomContents(t) = OutputsOf(t) \X (0 .. InputDim(t.node) - 1)
    BY <2>1, ConvRom
  <2>5. \A t \in MacTiles :
          op[t.node] = "FUSED_LINEAR" /\ ~t.split /\ OutputDim(t.node) = MaxParallelism =>
            ServesItsLanes(t)
    BY <2>1, LinearRom
  <2> QED BY <2>2, <2>3, <2>4, <2>5 DEF TilesShareTheOutputs
<1> QED BY <1>1, TilesInvariance, PTL
===============================================================================
