--------------------------- MODULE WeightPacker_proof --------------------------
(***************************************************************************)
(* Proofs about the linear scheduler and the weight packer, bottom up.        *)
(*                                                                         *)
(* BankAllocator, for every graph and every order of its nodes that respects  *)
(* the data flow: until a node is refused, a bank counts no fewer uses than   *)
(* there are reads to come, and what is still needed has a bank.              *)
(*                                                                         *)
(* LinearScheduler and WeightPacker, which take KahnOrder's invariant along:   *)
(* the order in which the allocator is asked respects the data flow, and the   *)
(* two memories are filled as the scheduler's cursors say.                    *)
(***************************************************************************)
EXTENDS WeightPacker, KahnOrder_proof

Needed(t) == PendingReads(t) # {} \/ t \in outs

InBank(b, t) ==
  /\ state[b].tensor = t
  /\ memory[b] = t
  /\ state[b].uses \in Nat
  /\ Cardinality(PendingReads(t)) <= state[b].uses

AllocTypeOK ==
  /\ ins \in [Nodes -> ActLists]
  /\ outs \in SUBSET Nodes /\ Unread \subseteq outs
  /\ layers \in Seq([node : Nodes, in : Banks, out : Banks])
  /\ state \in [Banks -> [tensor : Tensors \cup {None}, uses : Nat]]
  /\ memory \in [Banks -> Tensors \cup {None}]

TypeInv == AllocTypeOK /\ outs \in SUBSET Unread

Counted == \A b \in Banks : state[b].tensor # None => InBank(b, state[b].tensor)
Kept    == \A t \in Produced : Needed(t) => \E b \in Banks : state[b].tensor = t

IInv ==
  /\ TypeInv
  /\ refused = None => Counted /\ Kept
  /\ NothingLiveIsLost

(* With one activation per layer a bank counts exactly: what is in it was made *)
(* by a scheduled node, is in no other bank, and is read as often as counted,   *)
(* or by nobody.                                                            *)
ExactIn(b, t) ==
  /\ memory[b] = t
  /\ t \in Produced
  /\ Reads(t) # {} => state[b].uses > 0 /\ state[b].uses = Cardinality(PendingReads(t))

Exact      == \A b \in Banks : state[b].tensor # None => ExactIn(b, state[b].tensor)

KeptToRead == \A t \in Produced : PendingReads(t) # {} => \E b \in Banks : state[b].tensor = t
Distinct   == state["A"].tensor # None => state["A"].tensor # state["B"].tensor
Fed        == Scheduled # {} => Reads(StagedInput) # {}
InOrder    == \A n \in Scheduled : \A i \in DOMAIN ins[n] : ins[n][i] \in Inputs \cup Scheduled

LinearInv ==
  /\ AllocTypeOK
  /\ AllLinear /\ refused = None => Exact /\ KeptToRead /\ Distinct /\ Fed /\ InOrder
  /\ RefusesOnlyWhenFull

(* In a chain the one bank in use is the one the layer before wrote.           *)
HeldBank == IF Len(layers) % 2 = 0 THEN "A" ELSE "B"

ChainInv ==
  AllocTypeOK /\ (IsChain =>
    /\ \A i \in DOMAIN layers : BanksAlternate(i)
    /\ refused = None => state[HeldBank].uses <= 1 /\ state[Other(HeldBank)].tensor = None)

(* The scheduler: layers come in the order of Kahn's algorithm, and every layer *)
(* has the rows behind those of the layer before.                            *)
LayerRecord ==
  [index : Nat, parallelism : Nat, tiles : Nat, weightStart : Nat, weightRows : Nat,
   biasStart : Nat, biasRows : Nat, start : Nat, end : Nat]

WeightEnd(i) == IF i = 0 THEN 0 ELSE plan[i].weightStart + plan[i].weightRows
BiasEnd(i)   == IF i = 0 THEN 0 ELSE plan[i].biasStart + plan[i].biasRows

PlannedAs(i, n) ==
  /\ plan[i].index = i - 1
  /\ plan[i].parallelism = Parallelism(OutputDim(n))
  /\ plan[i].tiles = OutputDim(n) \div plan[i].parallelism
  /\ plan[i].weightRows = plan[i].tiles * InputDim(n)
  /\ plan[i].biasRows = Ceil(OutputDim(n), BiasesPerRow)
  /\ plan[i].weightStart = WeightEnd(i - 1)
  /\ plan[i].biasStart = BiasEnd(i - 1)

SchedInv ==
  /\ KahnInv /\ AllocTypeOK
  /\ width \in [Tensors -> Nat \ {0}]
  /\ plan \in Seq(LayerRecord) /\ Len(plan) = Len(layers) /\ Len(layers) <= NumNodes
  /\ \A i \in 1 .. Len(layers) : layers[i].node = order[i] /\ PlannedAs(i, order[i])
  /\ status # "ORDERED" => Len(layers) = 0
  /\ stage \in {"quantized", "scheduled", "overflow"}
  /\ stage # "quantized" => Len(layers) = NumNodes

(* The packer: the rows of the first p layers are in the memories, each where   *)
(* the scheduler's cursors say.                                              *)
Word      == (Nodes \X Nat \X Nat) \cup {Padding}
WeightRow == [Lanes -> Word]
BiasRow   == [0 .. BiasesPerRow - 1 -> (Nodes \X Nat) \cup {Padding}]

PackedNodes == {n \in Nodes : \E r \in DOMAIN biasBank : biasBank[r][0] = <<n, 0>>}

WeightsIn(j) ==
  /\ WeightEnd(j) <= Len(weightBank)
  /\ \A r \in 1 .. plan[j].weightRows :
       weightBank[plan[j].weightStart + r] = PackLayerWeights(order[j], plan[j])[r]

BiasesIn(j) ==
  /\ BiasEnd(j) <= Len(biasBank)
  /\ \A r \in 1 .. plan[j].biasRows :
       biasBank[plan[j].biasStart + r] = PackLayerBiases(order[j])[r]

Filled(p) ==
  /\ PackedNodes = {order[j] : j \in 1 .. p}
  /\ Len(weightBank) = WeightEnd(p) /\ Len(biasBank) = BiasEnd(p)
  /\ \A j \in 1 .. p : WeightsIn(j) /\ BiasesIn(j)

PackInv ==
  /\ SchedInv
  /\ weightBank \in Seq(WeightRow) /\ biasBank \in Seq(BiasRow)
  /\ \E p \in 0 .. Len(plan) : Filled(p) /\ (stage # "scheduled" => p = 0)

-------------------------------------------------------------------------------
(* A tensor is read finitely often. *)
LEMMA ReadsFinite ==
  ASSUME NEW t
  PROVE  /\ IsFiniteSet(Reads(t)) /\ Cardinality(Reads(t)) \in Nat
         /\ IsFiniteSet(PendingReads(t)) /\ Cardinality(PendingReads(t)) \in Nat
         /\ Cardinality(PendingReads(t)) <= Cardinality(Reads(t))
<1>1. NumNodes \in Int /\ MaxActs \in Int
  BY GraphAssumption
<1>2. IsFiniteSet(Nodes) /\ IsFiniteSet(1 .. MaxActs)
  BY <1>1, FS_Interval DEF Nodes
<1>3. IsFiniteSet(Nodes \X (1 .. MaxActs))
  BY <1>2, FS_Product
<1>4. Reads(t) \in SUBSET (Nodes \X (1 .. MaxActs)) /\ PendingReads(t) \in SUBSET Reads(t)
  BY DEF Reads, PendingReads
<1>5. IsFiniteSet(Reads(t))
  BY <1>3, <1>4, FS_Subset
<1>6. IsFiniteSet(PendingReads(t)) /\ Cardinality(PendingReads(t)) <= Cardinality(Reads(t))
  BY <1>4, <1>5, FS_Subset
<1> QED BY <1>5, <1>6, FS_CardinalityType

(* What a bank is given to count covers every read of the tensor. *)
LEMMA UsesCover ==
  ASSUME NEW t
  PROVE  UsesOf(t) \in Nat /\ Cardinality(PendingReads(t)) <= UsesOf(t)
<1>1. CASE Reads(t) = {}
  <2>1. PendingReads(t) = {}
    BY <1>1 DEF PendingReads
  <2> QED BY <1>1, <2>1, FS_EmptySet DEF UsesOf
<1>2. CASE Reads(t) # {}
  BY <1>2, ReadsFinite DEF UsesOf
<1> QED BY <1>1, <1>2

(* Graph inputs are no nodes, and nothing is named None. *)
LEMMA Names ==
  /\ StagedInput \in Tensors /\ StagedInput \notin Nodes
  /\ Nodes \subseteq Tensors /\ None \notin Tensors
  BY GraphAssumption DEF StagedInput, Tensors, Nodes, Inputs, None

(* Before the first node only the staged input exists, and bank A has it.      *)
LEMMA InitIInv == ASSUME ~InnerOutputs, Init PROVE IInv
<1>1. /\ ins \in [Nodes -> ActLists] /\ outs \in SUBSET Unread
      /\ outs \in SUBSET Nodes /\ Unread \subseteq outs
  BY DEF Init, GraphInit
<1>2. layers = <<>> /\ Scheduled = {} /\ Produced = {StagedInput}
  BY DEF Init, AllocInit, Scheduled, Produced
<1>3. UsesOf(StagedInput) \in Nat /\ Cardinality(PendingReads(StagedInput)) <= UsesOf(StagedInput)
  BY UsesCover
<1>4. /\ state["A"] = [tensor |-> StagedInput, uses |-> UsesOf(StagedInput)]
      /\ state["B"] = [tensor |-> None, uses |-> 0]
      /\ memory["A"] = StagedInput /\ memory["B"] = None
      /\ DOMAIN state = Banks /\ DOMAIN memory = Banks
      /\ state = [b \in Banks |-> state[b]] /\ memory = [b \in Banks |-> memory[b]]
  BY DEF Init, AllocInit, Held, Free, Banks
<1>5. TypeInv
  BY <1>1, <1>2, <1>3, <1>4, Names DEF TypeInv, AllocTypeOK, Banks
<1>6. Counted
  BY <1>3, <1>4 DEF Counted, InBank, Banks
<1>7. Kept /\ NothingLiveIsLost
  BY <1>2, <1>4 DEF Kept, NothingLiveIsLost, Banks
<1> QED BY <1>5, <1>6, <1>7 DEF IInv

-------------------------------------------------------------------------------
(* A node reads its first activation. *)
LEMMA FirstRead ==
  ASSUME AllocTypeOK, NEW n \in Nodes
  PROVE  ins[n][1] \in Tensors /\ <<n, 1>> \in Reads(ins[n][1])
<1>0. ins[n] \in ActLists
  BY DEF AllocTypeOK
<1>1. PICK k \in 1 .. MaxActs : ins[n] \in [1 .. k -> Tensors]
  BY <1>0 DEF ActLists
<1>2. 1 \in 1 .. k /\ 1 \in 1 .. MaxActs
  BY <1>1, GraphAssumption
<1> QED BY <1>1, <1>2 DEF Reads

(* Scheduling a node leaves fewer reads to come, one of its first activation at *)
(* the least.                                                              *)
LEMMA FewerReads ==
  ASSUME AllocTypeOK, NEW n \in Nodes, n \notin Scheduled, ins' = ins, Scheduled' = Scheduled \cup {n},
         NEW t
  PROVE  /\ Reads(t)' = Reads(t)
         /\ PendingReads(t)' \in SUBSET PendingReads(t)
         /\ Cardinality(PendingReads(t)') \in Nat
         /\ Cardinality(PendingReads(t)') <= Cardinality(PendingReads(t))
         /\ t = ins[n][1] => Cardinality(PendingReads(t)') + 1 <= Cardinality(PendingReads(t))
         /\ t = ins[n][1] /\ Cardinality(PendingReads(t)) <= 1 => PendingReads(t)' = {}
<1>1. Reads(t)' = Reads(t)
  BY DEF Reads
<1>2. PendingReads(t)' \in SUBSET PendingReads(t)
  BY <1>1 DEF PendingReads
<1>3. IsFiniteSet(PendingReads(t)) /\ Cardinality(PendingReads(t)) \in Nat
  BY ReadsFinite
<1>4. /\ IsFiniteSet(PendingReads(t)')
      /\ Cardinality(PendingReads(t)') <= Cardinality(PendingReads(t))
  BY <1>2, <1>3, FS_Subset
<1>5. Cardinality(PendingReads(t)') \in Nat
  BY <1>4, FS_CardinalityType
<1>6. ASSUME t = ins[n][1]
      PROVE  Cardinality(PendingReads(t)') + 1 <= Cardinality(PendingReads(t))
  <2>1. <<n, 1>> \in PendingReads(t)
    BY <1>6, FirstRead DEF PendingReads
  <2>2. <<n, 1>> \notin PendingReads(t)'
    BY DEF PendingReads
  <2>3. Cardinality(PendingReads(t)) # Cardinality(PendingReads(t)')
    BY <1>2, <1>3, <2>1, <2>2, FS_Subset
  <2> QED BY <1>3, <1>4, <1>5, <2>3
<1>7. ASSUME t = ins[n][1], Cardinality(PendingReads(t)) <= 1
      PROVE  PendingReads(t)' = {}
  <2>1. Cardinality(PendingReads(t)') = 0
    BY <1>3, <1>5, <1>6, <1>7
  <2> QED BY <1>4, <2>1, FS_EmptySet
<1> QED BY <1>1, <1>2, <1>4, <1>5, <1>6, <1>7

(* What assign's read of bank b does to it. *)
LEMMA ReadStep ==
  ASSUME TypeInv, Counted, NEW n \in Nodes, NEW b \in FindBank(ins[n][1])
  PROVE  /\ b \in Banks /\ InBank(b, ins[n][1])
         /\ AfterRead(b) \in [Banks -> [tensor : Tensors \cup {None}, uses : Nat]]
         /\ \A c \in Banks : c # b => AfterRead(b)[c] = state[c]
         /\ \/ /\ AfterRead(b)[b].tensor = ins[n][1]
               /\ AfterRead(b)[b].uses = state[b].uses - 1
            \/ /\ AfterRead(b)[b].tensor = None
               /\ state[b].uses <= 1
<1> DEFINE t == ins[n][1]
<1>1. b \in Banks /\ state[b].tensor = t
  BY DEF FindBank, Banks
<1>2. t \in Tensors /\ t # None
  BY FirstRead, Names DEF TypeInv
<1> HIDE DEF t
<1>3. InBank(b, t)
  BY <1>1, <1>2 DEF Counted
<1>4. state[b].uses \in Nat
  BY <1>3 DEF InBank
<1>5. Consumed(b) \in [tensor : Tensors \cup {None}, uses : Nat]
  BY <1>1, <1>2, <1>4 DEF Consumed, Free, Held
<1>6. \/ Consumed(b).tensor = t /\ Consumed(b).uses = state[b].uses - 1
      \/ Consumed(b).tensor = None /\ state[b].uses <= 1
  BY <1>1, <1>4 DEF Consumed, Free, Held
<1>7. state \in [Banks -> [tensor : Tensors \cup {None}, uses : Nat]]
  BY DEF TypeInv, AllocTypeOK
<1>8. AfterRead(b)[b] = Consumed(b) /\ \A c \in Banks : c # b => AfterRead(b)[c] = state[c]
  BY <1>1, <1>7 DEF AfterRead
<1>9. AfterRead(b) \in [Banks -> [tensor : Tensors \cup {None}, uses : Nat]]
  BY <1>5, <1>7 DEF AfterRead
<1> QED BY <1>1, <1>3, <1>6, <1>8, <1>9 DEF t

(* Placing a node loses no tensor that is still needed. *)
LEMMA PlaceStep ==
  ASSUME IInv, refused = None, NEW n \in Nodes, Ready(n), Place(n), UNCHANGED graphVars
  PROVE  IInv'
<1>t. PICK t : t = ins[n][1]
  OBVIOUS
<1>1. TypeInv /\ Counted /\ Kept
  BY DEF IInv
<1>0. PICK b \in FindBank(t) : \E out \in PickFree(AfterRead(b), b) :
        /\ state' = [AfterRead(b) EXCEPT ![out] = Held(n, UsesOf(n))]
        /\ layers' = Append(layers, [node |-> n, in |-> b, out |-> out])
        /\ memory' = [memory EXCEPT ![out] = n]
  BY <1>t DEF Place
<1>2. PICK out \in PickFree(AfterRead(b), b) :
        /\ state' = [AfterRead(b) EXCEPT ![out] = Held(n, UsesOf(n))]
        /\ layers' = Append(layers, [node |-> n, in |-> b, out |-> out])
        /\ memory' = [memory EXCEPT ![out] = n]
  BY <1>0
<1> DEFINE s == AfterRead(b)
<1>3. /\ b \in Banks /\ InBank(b, t)
      /\ s \in [Banks -> [tensor : Tensors \cup {None}, uses : Nat]]
      /\ \A c \in Banks : c # b => s[c] = state[c]
      /\ \/ s[b].tensor = t /\ s[b].uses = state[b].uses - 1
         \/ s[b].tensor = None /\ state[b].uses <= 1
  BY <1>t, <1>1, ReadStep
<1>4. t \in Tensors /\ t # None /\ <<n, 1>> \in Reads(t) /\ n \in Tensors /\ n # None
  BY <1>t, <1>1, FirstRead, Names DEF TypeInv
<1>5. ins' = ins /\ outs' = outs
  BY DEF graphVars
<1> HIDE DEF s
<1>6. out \in Banks /\ s[out].tensor = None
  BY <1>2, <1>3 DEF PickFree, Banks, Other, s
<1>7. UsesOf(n) \in Nat /\ Cardinality(PendingReads(n)) <= UsesOf(n)
  BY UsesCover
<1>8. /\ state' \in [Banks -> [tensor : Tensors \cup {None}, uses : Nat]]
      /\ state'[out] = Held(n, UsesOf(n))
      /\ \A c \in Banks : c # out => state'[c] = s[c]
  BY <1>2, <1>3, <1>4, <1>6, <1>7 DEF Held, s
<1>9. /\ memory' \in [Banks -> Tensors \cup {None}]
      /\ memory'[out] = n
      /\ \A c \in Banks : c # out => memory'[c] = memory[c]
  BY <1>1, <1>2, <1>4, <1>6 DEF TypeInv, AllocTypeOK
<1>10. n \notin Scheduled /\ Scheduled' = Scheduled \cup {n} /\ Produced' = Produced \cup {n}
  <2> DEFINE q == layers
             e == [node |-> n, in |-> b, out |-> out]
             N == [node : Nodes, in : Banks, out : Banks]
  <2>1. q \in Seq(N) /\ e \in N /\ layers' = Append(q, e) /\ e.node = n
    BY <1>1, <1>2, <1>3, <1>6 DEF TypeInv, AllocTypeOK
  <2> HIDE DEF q, e, N
  <2>2. /\ DOMAIN q = 1 .. Len(q) /\ DOMAIN layers' = 1 .. Len(q) + 1 /\ Len(q) \in Nat
        /\ layers'[Len(q) + 1] = e /\ \A i \in 1 .. Len(q) : layers'[i] = q[i]
    BY <2>1
  <2>3. {layers'[i].node : i \in DOMAIN layers'} = {q[i].node : i \in DOMAIN q} \cup {n}
    BY <2>1, <2>2
  <2>4. Scheduled' = Scheduled \cup {n}
    BY <2>3 DEF Scheduled, q
  <2> QED BY <2>4 DEF Ready, Produced, StagedInput
<1>11. TypeInv'
  <2>1. layers' \in Seq([node : Nodes, in : Banks, out : Banks])
    BY <1>1, <1>2, <1>3, <1>6 DEF TypeInv, AllocTypeOK
  <2>2. Unread' = Unread
    BY <1>5 DEF Unread, Reads
  <2> QED BY <1>1, <1>5, <1>8, <1>9, <2>1, <2>2 DEF TypeInv, AllocTypeOK
<1>12. \A u : /\ Reads(u)' = Reads(u)
              /\ PendingReads(u)' \in SUBSET PendingReads(u)
              /\ Cardinality(PendingReads(u)') \in Nat
              /\ Cardinality(PendingReads(u)') <= Cardinality(PendingReads(u))
              /\ u = t => Cardinality(PendingReads(u)') + 1 <= Cardinality(PendingReads(u))
              /\ u = t /\ Cardinality(PendingReads(u)) <= 1 => PendingReads(u)' = {}
  BY <1>1, <1>5, <1>10, <1>t, FewerReads DEF TypeInv
<1>13. Counted'
  <2> SUFFICES ASSUME NEW c \in Banks, state'[c].tensor # None
               PROVE  InBank(c, state[c].tensor)'
    BY DEF Counted
  <2>1. CASE c = out
    <3>1. /\ state'[c].tensor = n /\ state'[c].uses = UsesOf(n) /\ memory'[c] = n
      BY <1>8, <1>9, <2>1 DEF Held
    <3>2. Cardinality(PendingReads(n)') <= UsesOf(n)
      BY <1>7, <1>12, ReadsFinite
    <3> QED BY <1>7, <3>1, <3>2 DEF InBank
  <2>2. CASE c # out /\ c # b
    <3>1. state'[c] = state[c] /\ memory'[c] = memory[c]
      BY <1>3, <1>8, <1>9, <2>2
    <3>2. InBank(c, state[c].tensor)
      BY <1>1, <3>1 DEF Counted
    <3>v. PICK v : v = state[c].tensor
      OBVIOUS
    <3>3. /\ Cardinality(PendingReads(v)') \in Nat
          /\ Cardinality(PendingReads(v)') <= Cardinality(PendingReads(v))
      BY <1>12
    <3>4. /\ Cardinality(PendingReads(v)) \in Nat
          /\ Cardinality(PendingReads(v)) <= state[c].uses
      BY <3>v, <3>2, ReadsFinite DEF InBank
    <3>5. Cardinality(PendingReads(v)') <= state[c].uses
      BY <3>v, <3>2, <3>3, <3>4 DEF InBank
    <3>6. state'[c].tensor = v
      BY <3>v, <3>1
    <3> QED BY <3>v, <3>1, <3>2, <3>5, <3>6 DEF InBank
  <2>3. CASE c # out /\ c = b
    <3>1. state'[c].tensor = t /\ state'[c].uses = state[b].uses - 1 /\ memory'[c] = memory[b]
      BY <1>3, <1>8, <1>9, <2>3
    <3>2. /\ Cardinality(PendingReads(t)') \in Nat
          /\ Cardinality(PendingReads(t)') + 1 <= Cardinality(PendingReads(t))
      BY <1>12
    <3>3. /\ Cardinality(PendingReads(t)) \in Nat /\ state[b].uses \in Nat
          /\ Cardinality(PendingReads(t)) <= state[b].uses
      BY <1>3, ReadsFinite DEF InBank
    <3>4. /\ state[b].uses - 1 \in Nat
          /\ Cardinality(PendingReads(t)') <= state[b].uses - 1
      BY <3>2, <3>3
    <3> QED BY <1>3, <2>3, <3>1, <3>4 DEF InBank
  <2> QED BY <2>1, <2>2, <2>3
<1>14. Produced' \subseteq Tensors
  <2> DEFINE N == [node : Nodes, in : Banks, out : Banks]
  <2>0. layers' \in Seq(N) /\ \A e \in N : e.node \in Nodes
    BY <1>11 DEF TypeInv, AllocTypeOK
  <2> HIDE DEF N
  <2>1. \A i \in DOMAIN layers' : layers'[i].node \in Nodes
    BY <2>0
  <2> QED BY <2>1, Names DEF Produced, Scheduled, StagedInput
<1>15. Kept'
  <2> SUFFICES ASSUME NEW u \in Produced', Needed(u)'
               PROVE  \E c \in Banks : state'[c].tensor = u
    BY DEF Kept
  <2>1. u # None
    BY <1>14, Names
  <2>2. CASE u = n
    BY <1>6, <1>8, <2>2 DEF Held
  <2>3. CASE u # n
    <3>1. u \in Produced /\ Needed(u)
      BY <1>5, <1>10, <1>12, <2>3 DEF Needed
    <3>2. PICK c \in Banks : state[c].tensor = u
      BY <1>1, <3>1 DEF Kept
    <3>3. CASE c # b
      BY <1>3, <1>6, <1>8, <2>1, <3>2, <3>3
    <3>4. CASE c = b
      <4>1. u = t
        BY <1>3, <3>2, <3>4 DEF InBank
      <4>2. u \notin outs'
        BY <1>1, <1>4, <1>5, <4>1 DEF TypeInv, AllocTypeOK, Unread
      <4>3. PendingReads(u)' # {}
        BY <4>2 DEF Needed
      <4>4. Cardinality(PendingReads(t)) > 1
        BY <1>12, <4>1, <4>3, ReadsFinite
      <4>5. s[b].tensor = t
        BY <1>3, <4>4, ReadsFinite DEF InBank
      <4> QED BY <1>3, <1>6, <1>8, <2>1, <4>1, <4>5
    <3> QED BY <3>3, <3>4
  <2> QED BY <2>2, <2>3
<1>16. NothingLiveIsLost'
  <2> SUFFICES ASSUME NEW u \in Produced', Needed(u)'
               PROVE  \E c \in Banks : memory'[c] = u
    BY DEF NothingLiveIsLost, Needed
  <2>1. PICK c \in Banks : state'[c].tensor = u
    BY <1>15 DEF Kept
  <2>2. u # None
    BY <1>14, Names
  <2> QED BY <1>13, <2>1, <2>2 DEF Counted, InBank
<1> QED BY <1>11, <1>13, <1>15, <1>16 DEF IInv

(* A refusal may leave the read of the refused node counted, but overwrites     *)
(* nothing.                                                                *)
LEMMA RefuseStep ==
  ASSUME IInv, NEW n \in Nodes, refused = None, UNCHANGED graphVars,
         RefuseInput(n) \/ RefuseOutput(n)
  PROVE  IInv'
<1>1. UNCHANGED <<ins, outs, layers, memory>> /\ refused' = n /\ n # None
  BY Names DEF graphVars, RefuseInput, RefuseOutput
<1>2. state' \in [Banks -> [tensor : Tensors \cup {None}, uses : Nat]]
  <2>1. CASE RefuseInput(n)
    BY <2>1 DEF RefuseInput, IInv, TypeInv, AllocTypeOK
  <2>2. CASE RefuseOutput(n)
    <3>1. PICK b \in FindBank(ins[n][1]) : state' = AfterRead(b)
      BY <2>2 DEF RefuseOutput
    <3> QED BY <3>1, ReadStep DEF IInv
  <2> QED BY <2>1, <2>2
<1>3. TypeInv'
  BY <1>1, <1>2 DEF IInv, TypeInv, AllocTypeOK, Unread, Reads
<1>4. NothingLiveIsLost'
  BY <1>1 DEF IInv, NothingLiveIsLost, Produced, Scheduled, PendingReads, Reads
<1> QED BY <1>1, <1>3, <1>4 DEF IInv

(* Every node scheduled keeps the invariant.                                *)
LEMMA NextIInv == IInv /\ [Next]_vars => IInv'
<1>1. ASSUME IInv, UNCHANGED vars PROVE IInv'
  <2>1. UNCHANGED <<ins, outs, state, layers, refused, memory>>
    BY <1>1 DEF vars, graphVars, allocVars
  <2>2. TypeInv'
    BY <1>1, <2>1 DEF IInv, TypeInv, AllocTypeOK, Unread, Reads
  <2>3. Produced' = Produced /\ \A t : PendingReads(t)' = PendingReads(t)
    BY <2>1 DEF Produced, Scheduled, PendingReads, Reads
  <2>4. (refused = None => Counted)'
    BY <1>1, <2>1, <2>3 DEF IInv, Counted, InBank
  <2>5. (refused = None => Kept)'
    BY <1>1, <2>1, <2>3 DEF IInv, Kept, Needed
  <2>6. NothingLiveIsLost'
    BY <1>1, <2>1, <2>3 DEF IInv, NothingLiveIsLost
  <2> QED BY <2>2, <2>4, <2>5, <2>6 DEF IInv
<1>2. ASSUME IInv, Next PROVE IInv'
  <2>1. PICK n \in Nodes : Ready(n) /\ Assign(n)
    BY <1>2 DEF Next
  <2>2. CASE Place(n)
    BY <1>2, <2>1, <2>2, PlaceStep DEF Assign
  <2>3. CASE RefuseInput(n) \/ RefuseOutput(n)
    BY <1>2, <2>1, <2>3, RefuseStep DEF Assign
  <2> QED BY <2>1, <2>2, <2>3 DEF Assign
<1> QED BY <1>1, <1>2

-------------------------------------------------------------------------------
(* For graphs whose outputs are not read, the inductive invariant holds in      *)
(* every behaviour of the allocator.                                        *)
THEOREM Invariance == ASSUME ~InnerOutputs PROVE Spec => []IInv
<1>1. Init => IInv
  BY InitIInv
<1> QED BY <1>1, NextIInv, PTL DEF Spec

(* For every such graph, with nodes of one or more activations, and every order *)
(* that respects the data flow: assign never overwrites a tensor that a node    *)
(* still reads or that leaves the graph.                                    *)
THEOREM NothingLost == ASSUME ~InnerOutputs PROVE Spec => []NothingLiveIsLost
<1>1. IInv => NothingLiveIsLost
  BY DEF IInv
<1> QED BY <1>1, Invariance, PTL

-------------------------------------------------------------------------------
(* Graphs whose layers have one activation: what assign counts is exact.      *)

LEMMA InitLinear == Init => LinearInv
<1> SUFFICES ASSUME Init PROVE LinearInv
  OBVIOUS
<1>1. ins \in [Nodes -> ActLists] /\ outs \in SUBSET Nodes /\ Unread \subseteq outs
  BY DEF Init, GraphInit
<1>2. /\ layers = <<>> /\ Scheduled = {} /\ Produced = {StagedInput} /\ refused = None
  BY DEF Init, AllocInit, Scheduled, Produced
<1>3. UsesOf(StagedInput) \in Nat
  BY UsesCover
<1>4. /\ state["A"] = [tensor |-> StagedInput, uses |-> UsesOf(StagedInput)]
      /\ state["B"] = [tensor |-> None, uses |-> 0]
      /\ memory["A"] = StagedInput /\ memory["B"] = None
      /\ state = [b \in Banks |-> state[b]] /\ memory = [b \in Banks |-> memory[b]]
  BY DEF Init, AllocInit, Held, Free, Banks
<1>5. AllocTypeOK
  BY <1>1, <1>2, <1>3, <1>4, Names DEF AllocTypeOK, Banks
<1>6. PendingReads(StagedInput) = Reads(StagedInput)
  BY <1>2 DEF PendingReads
<1>7. Reads(StagedInput) # {} => /\ Cardinality(Reads(StagedInput)) > 0
                                 /\ UsesOf(StagedInput) = Cardinality(PendingReads(StagedInput))
  BY <1>6, ReadsFinite, FS_EmptySet DEF UsesOf
<1>8. Exact
  <2>1. SUFFICES ASSUME NEW b \in Banks, state[b].tensor # None
                 PROVE  ExactIn(b, state[b].tensor)
    BY DEF Exact
  <2>2. b = "A" /\ state[b].tensor = StagedInput /\ state[b].uses = UsesOf(StagedInput)
    BY <1>4, <2>1 DEF Banks
  <2> QED BY <1>2, <1>4, <1>6, <1>7, <2>2 DEF ExactIn
<1>9. KeptToRead /\ Distinct /\ Fed /\ InOrder
  BY <1>2, <1>4, Names DEF KeptToRead, Distinct, Fed, InOrder, Banks
<1> QED BY <1>2, <1>5, <1>8, <1>9 DEF LinearInv, RefusesOnlyWhenFull

(* A layer of one activation reads it at one position. *)
LEMMA OneRead ==
  ASSUME AllocTypeOK, AllLinear
  PROVE  /\ \A n \in Nodes : DOMAIN ins[n] = 1 .. 1
         /\ \A t : \A r \in Reads(t) : r[1] \in Nodes /\ r = <<r[1], 1>> /\ t = ins[r[1]][1]
<1>1. ASSUME NEW n \in Nodes PROVE DOMAIN ins[n] = 1 .. 1
  <2>0. ins[n] \in ActLists
    BY DEF AllocTypeOK
  <2>1. PICK k \in 1 .. MaxActs : ins[n] \in [1 .. k -> Tensors]
    BY <2>0 DEF ActLists
  <2>2. Len(ins[n]) = 1
    BY DEF AllLinear
  <2>3. ins[n] \in Seq(Tensors) /\ DOMAIN ins[n] = 1 .. k
    BY <2>1
  <2> QED BY <2>2, <2>3, LenProperties
<1>2. ASSUME NEW t, NEW r \in Reads(t)
      PROVE  r[1] \in Nodes /\ r = <<r[1], 1>> /\ t = ins[r[1]][1]
  <2>1. r \in Nodes \X (1 .. MaxActs) /\ r[2] \in DOMAIN ins[r[1]] /\ ins[r[1]][r[2]] = t
    BY DEF Reads
  <2>2. r[2] = 1
    BY <1>1, <2>1
  <2> QED BY <2>1, <2>2
<1> QED BY <1>1, <1>2

(* What placing a node does to the model, whatever the counts are.            *)
LEMMA PlaceShape ==
  ASSUME AllocTypeOK, NEW n \in Nodes, Ready(n), Place(n), UNCHANGED graphVars
  PROVE  /\ AllocTypeOK' /\ Scheduled' = Scheduled \cup {n} /\ Produced' = Produced \cup {n}
         /\ \E b \in FindBank(ins[n][1]) : \E out \in Banks :
              /\ out \in PickFree(AfterRead(b), b)
              /\ layers' = Append(layers, [node |-> n, in |-> b, out |-> out])
              /\ b \in Banks /\ AfterRead(b)[out].tensor = None
              /\ state'[out] = Held(n, UsesOf(n)) /\ memory'[out] = n
              /\ \A c \in Banks : c # out => /\ state'[c] = AfterRead(b)[c]
                                             /\ memory'[c] = memory[c]
<1>0. PICK b \in FindBank(ins[n][1]) : \E out \in PickFree(AfterRead(b), b) :
        /\ state' = [AfterRead(b) EXCEPT ![out] = Held(n, UsesOf(n))]
        /\ layers' = Append(layers, [node |-> n, in |-> b, out |-> out])
        /\ memory' = [memory EXCEPT ![out] = n]
  BY DEF Place
<1>1. PICK out \in PickFree(AfterRead(b), b) :
        /\ state' = [AfterRead(b) EXCEPT ![out] = Held(n, UsesOf(n))]
        /\ layers' = Append(layers, [node |-> n, in |-> b, out |-> out])
        /\ memory' = [memory EXCEPT ![out] = n]
  BY <1>0
<1> DEFINE s == AfterRead(b)
           Cell == [tensor : Tensors \cup {None}, uses : Nat]
<1>2. b \in Banks /\ state \in [Banks -> Cell] /\ memory \in [Banks -> Tensors \cup {None}]
  BY DEF FindBank, Banks, AllocTypeOK
<1>3. s \in [Banks -> Cell]
  <2>1. Consumed(b) \in Cell
    BY <1>2 DEF Consumed, Free, Held
  <2> QED BY <1>2, <2>1 DEF AfterRead
<1>4. out \in Banks /\ s[out].tensor = None
  BY <1>1, <1>2 DEF PickFree, Banks, Other
<1>5. Held(n, UsesOf(n)) \in Cell /\ n \in Tensors
  BY UsesCover, Names DEF Held
<1> HIDE DEF s, Cell
<1>6. /\ state' \in [Banks -> Cell] /\ state'[out] = Held(n, UsesOf(n))
      /\ \A c \in Banks : c # out => state'[c] = s[c]
  BY <1>1, <1>3, <1>4, <1>5 DEF s
<1>7. /\ memory' \in [Banks -> Tensors \cup {None}] /\ memory'[out] = n
      /\ \A c \in Banks : c # out => memory'[c] = memory[c]
  BY <1>1, <1>2, <1>4, <1>5
<1>8. Scheduled' = Scheduled \cup {n} /\ layers' \in Seq([node : Nodes, in : Banks, out : Banks])
  <2> DEFINE e == [node |-> n, in |-> b, out |-> out]
             N == [node : Nodes, in : Banks, out : Banks]
             q == layers
  <2>1. q \in Seq(N) /\ e \in N /\ layers' = Append(q, e) /\ e.node = n
    BY <1>1, <1>2, <1>4 DEF AllocTypeOK
  <2> HIDE DEF q, e, N
  <2>2. /\ DOMAIN q = 1 .. Len(q) /\ DOMAIN layers' = 1 .. Len(q) + 1 /\ Len(q) \in Nat
        /\ layers'[Len(q) + 1] = e /\ \A i \in 1 .. Len(q) : layers'[i] = q[i]
        /\ layers' \in Seq(N)
    BY <2>1
  <2>3. {layers'[i].node : i \in DOMAIN layers'} = {q[i].node : i \in DOMAIN q} \cup {n}
    BY <2>1, <2>2
  <2> QED BY <2>2, <2>3 DEF Scheduled, q, N
<1>9. Produced' = Produced \cup {n}
  BY <1>8 DEF Produced, StagedInput
<1>10. AllocTypeOK'
  <2>1. ins' = ins /\ outs' = outs /\ Unread' = Unread
    BY DEF graphVars, Unread, Reads
  <2> QED BY <1>6, <1>7, <1>8, <2>1 DEF AllocTypeOK, Cell
<1> QED BY <1>1, <1>2, <1>4, <1>6, <1>7, <1>8, <1>9, <1>10 DEF s

(* Scheduling a node whose one activation is t takes its read from those to    *)
(* come, and no other.                                                      *)
LEMMA OneReadLess ==
  ASSUME AllocTypeOK, AllLinear, NEW n \in Nodes, n \notin Scheduled, ins' = ins,
         Scheduled' = Scheduled \cup {n}, NEW t, t = ins[n][1]
  PROVE  /\ \A u : Reads(u)' = Reads(u)
         /\ \A u : u # t => PendingReads(u)' = PendingReads(u)
         /\ PendingReads(t)' = PendingReads(t) \ {<<n, 1>>}
         /\ <<n, 1>> \in PendingReads(t) /\ Reads(t) # {}
         /\ Cardinality(PendingReads(t)') = Cardinality(PendingReads(t)) - 1
         /\ Cardinality(PendingReads(t)) \in Nat
<1>1. \A u : Reads(u)' = Reads(u)
  BY DEF Reads
<1>2. \A u : \A r \in Reads(u) : r[1] \in Nodes /\ r = <<r[1], 1>> /\ u = ins[r[1]][1]
  BY OneRead
<1>3. <<n, 1>> \in Reads(t)
  BY FirstRead
<1>4. <<n, 1>> \in PendingReads(t) /\ Reads(t) # {}
  BY <1>3 DEF PendingReads
<1>5. \A u : PendingReads(u)' = {r \in PendingReads(u) : r[1] # n}
  BY <1>1 DEF PendingReads
<1>6. ASSUME NEW u, u # t PROVE PendingReads(u)' = PendingReads(u)
  <2>1. \A r \in PendingReads(u) : r[1] # n
    BY <1>2, <1>6 DEF PendingReads
  <2> QED BY <1>5, <2>1
<1>7. PendingReads(t)' = PendingReads(t) \ {<<n, 1>>}
  <2>1. \A r \in PendingReads(t) : r[1] # n <=> r # <<n, 1>>
    BY <1>2 DEF PendingReads
  <2> QED BY <1>5, <2>1
<1>8. IsFiniteSet(PendingReads(t)) /\ Cardinality(PendingReads(t)) \in Nat
  BY ReadsFinite
<1>9. Cardinality(PendingReads(t)') = Cardinality(PendingReads(t)) - 1
  BY <1>4, <1>7, <1>8, FS_RemoveElement
<1> QED BY <1>1, <1>4, <1>6, <1>7, <1>8, <1>9

(* No node that was scheduled reads one that is about to be.                   *)
LEMMA UnreadSoFar ==
  ASSUME AllocTypeOK, AllLinear, InOrder, NEW n \in Nodes, Ready(n), ins' = ins,
         Scheduled' = Scheduled \cup {n}
  PROVE  PendingReads(n)' = Reads(n) /\ ins[n][1] # n
<1>1. n \notin Scheduled /\ n \notin Inputs
  BY GraphAssumption DEF Ready, Nodes, Inputs
<1>2. \A r \in Reads(n) : r[1] \in Nodes /\ r = <<r[1], 1>> /\ n = ins[r[1]][1]
  BY OneRead
<1>3. \A m \in Nodes : 1 \in DOMAIN ins[m]
  BY OneRead
<1>4. ASSUME NEW m \in Nodes, ins[m][1] = n PROVE m \notin Scheduled /\ m # n
  BY <1>1, <1>3, <1>4 DEF InOrder, Ready
<1>5. \A r \in Reads(n) : r[1] \notin Scheduled'
  BY <1>2, <1>4
<1>6. Reads(n)' = Reads(n)
  BY DEF Reads
<1> QED BY <1>4, <1>5, <1>6 DEF PendingReads

LEMMA PlaceLinear ==
  ASSUME LinearInv, refused = None, NEW n \in Nodes, Ready(n), Place(n), UNCHANGED graphVars,
         refused' = None
  PROVE  LinearInv'
<1>1. AllocTypeOK /\ AllocTypeOK' /\ ins' = ins
  BY PlaceShape DEF LinearInv, graphVars
<1>2. RefusesOnlyWhenFull'
  BY DEF RefusesOnlyWhenFull
<1>3. SUFFICES ASSUME AllLinear
               PROVE  Exact' /\ KeptToRead' /\ Distinct' /\ Fed' /\ InOrder'
  BY <1>1, <1>2 DEF LinearInv, AllLinear
<1>4. Exact /\ KeptToRead /\ Distinct /\ Fed /\ InOrder
  BY <1>3 DEF LinearInv
<1>t. PICK t : t = ins[n][1]
  OBVIOUS
<1>5. /\ Scheduled' = Scheduled \cup {n} /\ Produced' = Produced \cup {n}
      /\ n \notin Scheduled /\ n \notin Produced
  BY <1>1, PlaceShape, Names DEF Ready, Produced
<1>6. /\ \A u : Reads(u)' = Reads(u)
      /\ \A u : u # t => PendingReads(u)' = PendingReads(u)
      /\ PendingReads(t)' = PendingReads(t) \ {<<n, 1>>}
      /\ <<n, 1>> \in PendingReads(t) /\ Reads(t) # {}
      /\ Cardinality(PendingReads(t)') = Cardinality(PendingReads(t)) - 1
      /\ Cardinality(PendingReads(t)) \in Nat
  BY <1>t, <1>1, <1>3, <1>5, OneReadLess
<1>7. PendingReads(n)' = Reads(n) /\ t # n
  BY <1>t, <1>1, <1>3, <1>4, <1>5, UnreadSoFar
<1>8. PICK b \in FindBank(t) : \E out \in Banks :
        /\ b \in Banks /\ AfterRead(b)[out].tensor = None
        /\ state'[out] = Held(n, UsesOf(n)) /\ memory'[out] = n
        /\ \A c \in Banks : c # out => state'[c] = AfterRead(b)[c] /\ memory'[c] = memory[c]
  BY <1>t, <1>1, PlaceShape, ZenonT(30)
<1>9. PICK out \in Banks :
        /\ b \in Banks /\ AfterRead(b)[out].tensor = None
        /\ state'[out] = Held(n, UsesOf(n)) /\ memory'[out] = n
        /\ \A c \in Banks : c # out => state'[c] = AfterRead(b)[c] /\ memory'[c] = memory[c]
  BY <1>8
<1>10. state[b].tensor = t /\ t \in Tensors /\ t # None /\ n \in Tensors /\ n # None
  BY <1>t, <1>1, FirstRead, Names DEF FindBank
<1>11. /\ t \in Produced /\ memory[b] = t /\ state[b].uses > 0
       /\ state[b].uses = Cardinality(PendingReads(t))
  BY <1>4, <1>6, <1>9, <1>10 DEF Exact, ExactIn
<1>12. /\ \A c \in Banks : c # b => AfterRead(b)[c] = state[c]
       /\ \/ /\ AfterRead(b)[b].tensor = t
             /\ AfterRead(b)[b].uses = Cardinality(PendingReads(t)')
             /\ AfterRead(b)[b].uses > 0
          \/ AfterRead(b)[b].tensor = None /\ PendingReads(t)' = {}
  <2>1. state \in [Banks -> [tensor : Tensors \cup {None}, uses : Nat]]
    BY <1>1 DEF AllocTypeOK
  <2>2. AfterRead(b)[b] = Consumed(b) /\ \A c \in Banks : c # b => AfterRead(b)[c] = state[c]
    BY <1>9, <2>1 DEF AfterRead
  <2>3. CASE state[b].uses <= 1
    <3>1. Cardinality(PendingReads(t)') = 0
      BY <1>6, <1>11, <2>3
    <3>2. IsFiniteSet(PendingReads(t)')
      BY <1>6, ReadsFinite, FS_RemoveElement
    <3>3. PendingReads(t)' = {}
      BY <3>1, <3>2, FS_EmptySet
    <3> QED BY <2>2, <2>3, <3>3 DEF Consumed, Free, Held
  <2>4. CASE ~(state[b].uses <= 1)
    BY <1>6, <1>10, <1>11, <2>2, <2>4 DEF Consumed, Held
  <2> QED BY <2>2, <2>3, <2>4
<1>13. \A c \in Banks : c # b => state[c].tensor # t
  BY <1>4, <1>9, <1>10 DEF Distinct, Banks
<1>14. /\ UsesOf(n) \in Nat
       /\ Reads(n) # {} => UsesOf(n) = Cardinality(PendingReads(n)') /\ UsesOf(n) > 0
  BY <1>7, UsesCover, ReadsFinite, FS_EmptySet DEF UsesOf
<1>15. Exact'
  <2>1. SUFFICES ASSUME NEW c \in Banks, state'[c].tensor # None
                 PROVE  ExactIn(c, state[c].tensor)'
    BY DEF Exact
  <2>2. CASE c = out
    <3>1. state'[c].tensor = n /\ state'[c].uses = UsesOf(n) /\ memory'[c] = n
      BY <1>9, <2>2 DEF Held
    <3> QED BY <1>5, <1>6, <1>14, <3>1 DEF ExactIn
  <2>3. CASE c # out /\ c = b
    <3>1. state'[c] = AfterRead(b)[b] /\ memory'[c] = t
      BY <1>9, <1>11, <2>3
    <3>2. state'[c].tensor = t /\ state'[c].uses = Cardinality(PendingReads(t)') /\ state'[c].uses > 0
      BY <1>12, <2>1, <3>1
    <3> QED BY <1>5, <1>11, <3>1, <3>2 DEF ExactIn
  <2>4. CASE c # out /\ c # b
    <3>1. state'[c] = state[c] /\ memory'[c] = memory[c]
      BY <1>9, <1>12, <2>4
    <3>u. PICK u : u = state[c].tensor
      OBVIOUS
    <3>2. u # t /\ PendingReads(u)' = PendingReads(u) /\ Reads(u)' = Reads(u)
      BY <1>6, <1>13, <2>4, <3>u
    <3>3. ExactIn(c, u) /\ state'[c].tensor = u
      BY <1>4, <2>1, <3>1, <3>u DEF Exact
    <3> QED BY <1>5, <3>1, <3>2, <3>3 DEF ExactIn
  <2> QED BY <2>2, <2>3, <2>4
<1>16. KeptToRead'
  <2>1. SUFFICES ASSUME NEW u \in Produced', PendingReads(u)' # {}
                 PROVE  \E c \in Banks : state'[c].tensor = u
    BY DEF KeptToRead
  <2>2. CASE u = n
    BY <1>9, <2>2 DEF Held
  <2>3. CASE u # n
    <3>1. u \in Produced /\ PendingReads(u) # {}
      BY <1>5, <1>6, <2>1, <2>3
    <3>2. PICK c \in Banks : state[c].tensor = u
      BY <1>4, <3>1 DEF KeptToRead
    <3>3. u # None
      <4>1. Produced' \subseteq Tensors
        <5> DEFINE N == [node : Nodes, in : Banks, out : Banks]
        <5>1. layers' \in Seq(N) /\ \A e \in N : e.node \in Nodes
          BY <1>1 DEF AllocTypeOK
        <5> HIDE DEF N
        <5>2. \A i \in DOMAIN layers' : layers'[i].node \in Nodes
          BY <5>1
        <5> QED BY <5>2, Names DEF Produced, Scheduled, StagedInput
      <4> QED BY <4>1, Names
    <3>4. CASE c # b
      BY <1>9, <1>12, <3>2, <3>3, <3>4
    <3>5. CASE c = b
      BY <1>9, <1>10, <1>12, <2>1, <3>2, <3>3, <3>5
    <3> QED BY <3>4, <3>5
  <2> QED BY <2>2, <2>3
<1>17. Distinct'
  <2>1. SUFFICES ASSUME NEW c \in Banks, c # out PROVE state'[c].tensor # n
    BY <1>9, <1>10 DEF Distinct, Banks, Held
  <2>2. state'[c].tensor = None \/ state'[c].tensor = t \/ state'[c].tensor \in Produced
    BY <1>4, <1>9, <1>12, <2>1 DEF Exact, ExactIn
  <2> QED BY <1>5, <1>7, <1>10, <2>2
<1>18. Fed'
  <2>1. Scheduled = {} => t = StagedInput
    BY <1>11 DEF Produced
  <2> QED BY <1>4, <1>6, <2>1 DEF Fed, StagedInput
<1>19. InOrder'
  BY <1>1, <1>4, <1>5 DEF InOrder, Ready
<1> QED BY <1>15, <1>16, <1>17, <1>18, <1>19

(* The refused node finds what it reads staged or in a bank, and the banks that *)
(* it finds taken are taken by what others read or what leaves the graph.      *)
LEMMA RefuseLinear ==
  ASSUME LinearInv, NEW n \in Nodes, Ready(n), refused = None, UNCHANGED graphVars,
         RefuseInput(n) \/ RefuseOutput(n)
  PROVE  LinearInv'
<1>1. /\ UNCHANGED <<ins, outs, layers, memory>> /\ refused' = n /\ n # None
      /\ AllLinear' = AllLinear /\ \A u : Reads(u)' = Reads(u) /\ PendingReads(u)' = PendingReads(u)
  BY Names DEF graphVars, RefuseInput, RefuseOutput, AllLinear, Reads, PendingReads, Scheduled
<1>2. AllocTypeOK
  BY DEF LinearInv
<1>t. PICK t : t = ins[n][1]
  OBVIOUS
<1>3. AllocTypeOK'
  <2>1. state' \in [Banks -> [tensor : Tensors \cup {None}, uses : Nat]]
    <3>1. CASE RefuseInput(n)
      BY <1>2, <3>1 DEF RefuseInput, AllocTypeOK
    <3>2. CASE RefuseOutput(n)
      <4>1. PICK b \in FindBank(t) : state' = AfterRead(b)
        BY <1>t, <3>2 DEF RefuseOutput
      <4>2. b \in Banks /\ state \in [Banks -> [tensor : Tensors \cup {None}, uses : Nat]]
        BY <1>2 DEF FindBank, Banks, AllocTypeOK
      <4>3. Consumed(b) \in [tensor : Tensors \cup {None}, uses : Nat]
        BY <4>2 DEF Consumed, Free, Held
      <4> QED BY <4>1, <4>2, <4>3 DEF AfterRead
    <3> QED BY <3>1, <3>2
  <2> QED BY <1>1, <1>2, <2>1 DEF AllocTypeOK, Unread
<1>4. SUFFICES ASSUME AllLinear
               PROVE  \/ t \in Inputs \ {StagedInput}
                      \/ \A b \in Banks : \/ memory[b] \in outs
                                          \/ \E r \in PendingReads(memory[b]) : r[1] # n
  <2>1. AllLinear => \/ t \in Inputs \ {StagedInput}
                     \/ \A b \in Banks : \/ memory[b] \in outs
                                         \/ \E r \in PendingReads(memory[b]) : r[1] # n
    BY <1>4
  <2>2. \A b : PendingReads(memory[b])' = PendingReads(memory[b])
    BY <1>1 DEF PendingReads, Reads, Scheduled
  <2>3. RefusesOnlyWhenFull'
    BY <1>t, <1>1, <2>1, <2>2 DEF RefusesOnlyWhenFull
  <2> QED BY <1>1, <1>3, <2>3 DEF LinearInv
<1>5. Exact /\ KeptToRead /\ Distinct /\ Fed /\ InOrder
  BY <1>4 DEF LinearInv
<1>6. t \in Tensors /\ t # None /\ <<n, 1>> \in Reads(t)
  BY <1>t, <1>2, FirstRead, Names
<1>7. <<n, 1>> \in PendingReads(t) /\ Reads(t) # {}
  BY <1>6 DEF PendingReads, Ready
<1>8. \A u : \A r \in Reads(u) : r[1] \in Nodes /\ r = <<r[1], 1>> /\ u = ins[r[1]][1]
  BY <1>2, <1>4, OneRead
<1>9. CASE RefuseInput(n)
  <2>1. \A b \in Banks : state[b].tensor # t
    BY <1>t, <1>9 DEF RefuseInput, FindBank, Banks
  <2>2. t \notin Produced
    BY <1>5, <1>7, <2>1 DEF KeptToRead
  <2>3. t \in Inputs \cup Scheduled
    BY <1>t, <1>2, <1>4, OneRead DEF Ready
  <2> QED BY <2>2, <2>3 DEF Produced
<1>10. CASE RefuseOutput(n)
  <2>1. PICK b \in FindBank(t) : PickFree(AfterRead(b), b) = {}
    BY <1>t, <1>10 DEF RefuseOutput
  <2>2. /\ b \in Banks /\ state[b].tensor = t
        /\ \A c \in Banks : AfterRead(b)[c].tensor # None
    BY <2>1 DEF FindBank, PickFree, Banks, Other
  <2>3. /\ AfterRead(b)[b] = Consumed(b)
        /\ \A c \in Banks : c # b => AfterRead(b)[c] = state[c]
    BY <1>2, <2>2 DEF AfterRead, AllocTypeOK
  <2>4. ExactIn(b, t)
    BY <1>5, <1>6, <2>2 DEF Exact
  <2>5. \E r \in PendingReads(t) : r[1] # n
    <3>1. ~(state[b].uses <= 1)
      BY <2>2, <2>3 DEF Consumed, Free, Held
    <3>2. Cardinality(PendingReads(t)) # 1 /\ IsFiniteSet(PendingReads(t))
      BY <1>7, <2>4, <3>1, ReadsFinite DEF ExactIn
    <3>3. PendingReads(t) # {<<n, 1>>}
      BY <3>2, FS_Singleton
    <3>4. PICK r \in PendingReads(t) : r # <<n, 1>>
      BY <1>7, <3>3
    <3> QED BY <1>8, <3>4 DEF PendingReads
  <2>6. ASSUME NEW c \in Banks, c # b
        PROVE  memory[c] \in outs \/ \E r \in PendingReads(memory[c]) : r[1] # n
    <3>u. PICK u : u = state[c].tensor
      OBVIOUS
    <3>1. u # None /\ ExactIn(c, u) /\ u # t
      BY <1>5, <1>6, <2>2, <2>3, <2>6, <3>u DEF Exact, Distinct, Banks
    <3>2. memory[c] = u /\ u \in Produced
      BY <3>1 DEF ExactIn
    <3>3. CASE Reads(u) = {}
      <4>1. u # StagedInput
        BY <1>5, <1>7, <2>4, <3>1, <3>3 DEF ExactIn, Produced, Fed
      <4>2. u \in Nodes
        <5> DEFINE N == [node : Nodes, in : Banks, out : Banks]
        <5>1. layers \in Seq(N) /\ \A e \in N : e.node \in Nodes
          BY <1>2 DEF AllocTypeOK
        <5> HIDE DEF N
        <5>2. \A i \in DOMAIN layers : layers[i].node \in Nodes
          BY <5>1
        <5> QED BY <3>2, <4>1, <5>2 DEF Produced, Scheduled
      <4> QED BY <1>2, <3>2, <3>3, <4>2 DEF AllocTypeOK, Unread
    <3>4. CASE Reads(u) # {}
      <4>1. Cardinality(PendingReads(u)) # 0
        BY <3>1, <3>4, ReadsFinite DEF ExactIn
      <4>2. PICK r \in PendingReads(u) : TRUE
        BY <4>1, FS_EmptySet
      <4>3. r \in Reads(u) /\ u = ins[r[1]][1]
        BY <1>8, <4>2 DEF PendingReads
      <4> QED BY <1>t, <3>1, <3>2, <4>2, <4>3
    <3> QED BY <3>3, <3>4
  <2>7. memory[b] = t
    BY <2>4 DEF ExactIn
  <2> QED BY <2>5, <2>6, <2>7
<1> QED BY <1>9, <1>10

LEMMA NextLinear == LinearInv /\ [Next]_vars => LinearInv'
<1>1. ASSUME LinearInv, UNCHANGED vars PROVE LinearInv'
  <2>1. UNCHANGED <<ins, outs, state, layers, refused, memory>>
    BY <1>1 DEF vars, graphVars, allocVars
  <2>2. /\ AllocTypeOK' /\ AllLinear' = AllLinear /\ Produced' = Produced /\ Scheduled' = Scheduled
        /\ \A u : Reads(u)' = Reads(u) /\ PendingReads(u)' = PendingReads(u)
    BY <1>1, <2>1 DEF LinearInv, AllocTypeOK, AllLinear, Unread, Produced, Scheduled, Reads,
                      PendingReads
  <2>3. RefusesOnlyWhenFull'
    BY <1>1, <2>1 DEF LinearInv, RefusesOnlyWhenFull, AllLinear, Reads, PendingReads, Scheduled
  <2>4. ASSUME AllLinear, refused = None
        PROVE  Exact' /\ KeptToRead' /\ Distinct' /\ Fed' /\ InOrder'
    <3>1. Exact /\ KeptToRead /\ Distinct /\ Fed /\ InOrder
      BY <1>1, <2>4 DEF LinearInv
    <3>2. \A b, t : ExactIn(b, t)' <=> ExactIn(b, t)
      BY <2>1, <2>2 DEF ExactIn
    <3>3. Exact'
      BY <2>1, <3>1, <3>2 DEF Exact
    <3>4. Fed'
      BY <2>1, <2>2, <3>1 DEF Fed, StagedInput
    <3> QED BY <2>1, <2>2, <3>1, <3>3, <3>4 DEF KeptToRead, Distinct, InOrder
  <2> QED BY <2>1, <2>2, <2>3, <2>4 DEF LinearInv
<1>2. ASSUME LinearInv, Next PROVE LinearInv'
  <2>1. PICK n \in Nodes : Ready(n) /\ Assign(n)
    BY <1>2 DEF Next
  <2>2. CASE Place(n)
    <3>1. refused' = None
      BY <2>1, <2>2 DEF Assign, Place
    <3> QED BY <1>2, <2>1, <2>2, <3>1, PlaceLinear DEF Assign
  <2>3. CASE RefuseInput(n) \/ RefuseOutput(n)
    BY <1>2, <2>1, <2>3, RefuseLinear DEF Assign
  <2> QED BY <2>1, <2>2, <2>3 DEF Assign
<1> QED BY <1>1, <1>2

(* For every graph, every order that respects the data flow and any outputs:     *)
(* when all layers have one activation, BankConflict is raised only where two   *)
(* banks cannot hold what is needed, or for an input that nothing stages.      *)
THEOREM RefusalsAreNeeded == Spec => []RefusesOnlyWhenFull
<1>1. LinearInv => RefusesOnlyWhenFull
  BY DEF LinearInv
<1> QED BY <1>1, InitLinear, NextLinear, PTL DEF Spec

-------------------------------------------------------------------------------
(* The ceiling of a quotient, for the row that holds member o of a vector.     *)
LEMMA CeilCovers ==
  ASSUME NEW a \in Nat \ {0}, NEW b \in Nat \ {0}
  PROVE  /\ Ceil(a, b) \in Nat \ {0}
         /\ \A q \in Nat, r \in 0 .. b - 1 : q * b + r < a => q < Ceil(a, b)
BY Ceiling DEF Ceil

(* _compute_parallelism returns a factor of the dimension, and of lanes there    *)
(* are.                                                                     *)
LEMMA ParallelismDivides ==
  ASSUME NEW dim \in Nat \ {0}
  PROVE  /\ Parallelism(dim) \in 1 .. MaxParallelism
         /\ dim % Parallelism(dim) = 0
         /\ dim \div Parallelism(dim) \in Nat \ {0}
         /\ dim = (dim \div Parallelism(dim)) * Parallelism(dim)
<1> DEFINE T == {p \in 1 .. MaxParallelism : dim % p = 0}
<1>1. MaxParallelism \in Nat \ {0}
  BY LayoutAssumption
<1>2. dim % 1 = 0
  OBVIOUS
<1>3. 1 \in T /\ T \in SUBSET (0 .. MaxParallelism)
  BY <1>1, <1>2
<1>4. Max(T) \in T
  <2> HIDE DEF T
  <2> QED BY <1>1, <1>3, Greatest
<1>5. Parallelism(dim) \in 1 .. MaxParallelism /\ dim % Parallelism(dim) = 0
  BY <1>4 DEF Parallelism
<1> DEFINE P == Parallelism(dim)
<1> HIDE DEF P, T
<1>6. P \in Nat \ {0} /\ dim % P = 0
  BY <1>1, <1>5 DEF P
<1>7. dim \div P \in Nat /\ dim = (dim \div P) * P + (dim % P)
  BY <1>6, Remainder
<1>8. dim = (dim \div P) * P
  BY <1>6, <1>7
<1>9. dim \div P # 0
  BY <1>6, <1>8
<1> QED BY <1>5, <1>7, <1>8, <1>9 DEF P

-------------------------------------------------------------------------------
(* In a chain the two banks take turns.                                      *)
LEMMA InitChain == Init => ChainInv
<1> SUFFICES ASSUME Init PROVE ChainInv
  OBVIOUS
<1>1. AllocTypeOK
  BY InitLinear DEF LinearInv
<1>2. /\ DOMAIN layers = {} /\ Len(layers) = 0
      /\ state["A"].uses = UsesOf(StagedInput) /\ state["B"].tensor = None
  BY DEF Init, AllocInit, Held, Free, Banks
<1>3. HeldBank = "A" /\ Other(HeldBank) = "B"
  BY <1>2 DEF HeldBank, Other
<1>4. IsChain => UsesOf(StagedInput) <= 1
  BY Names DEF IsChain, UsesOf
<1> QED BY <1>1, <1>2, <1>3, <1>4 DEF ChainInv

LEMMA PlaceChain ==
  ASSUME ChainInv, refused = None, NEW n \in Nodes, Ready(n), Place(n), UNCHANGED graphVars
  PROVE  ChainInv'
<1>1. AllocTypeOK /\ AllocTypeOK' /\ (IsChain' <=> IsChain)
  BY PlaceShape DEF ChainInv, graphVars, IsChain, AllLinear, Reads
<1>2. SUFFICES ASSUME IsChain
               PROVE  /\ \A i \in DOMAIN layers' : BanksAlternate(i)'
                      /\ state'[HeldBank'].uses <= 1 /\ state'[Other(HeldBank)'].tensor = None
  BY <1>1 DEF ChainInv
<1>3. PICK b \in FindBank(ins[n][1]) : \E out \in Banks :
        /\ out \in PickFree(AfterRead(b), b)
        /\ layers' = Append(layers, [node |-> n, in |-> b, out |-> out])
        /\ b \in Banks /\ state'[out] = Held(n, UsesOf(n))
        /\ \A c \in Banks : c # out => state'[c] = AfterRead(b)[c]
  BY <1>1, PlaceShape
<1>4. PICK out \in Banks :
        /\ out \in PickFree(AfterRead(b), b)
        /\ layers' = Append(layers, [node |-> n, in |-> b, out |-> out])
        /\ b \in Banks /\ state'[out] = Held(n, UsesOf(n))
        /\ \A c \in Banks : c # out => state'[c] = AfterRead(b)[c]
  BY <1>3
<1>5. state[b].tensor = ins[n][1] /\ ins[n][1] # None
  BY <1>1, <1>4, FirstRead, Names DEF FindBank
<1>6. /\ state[HeldBank].uses <= 1 /\ state[Other(HeldBank)].tensor = None
      /\ \A i \in DOMAIN layers : BanksAlternate(i)
  BY <1>2 DEF ChainInv
<1>7. b = HeldBank
  BY <1>4, <1>5, <1>6 DEF HeldBank, Other, Banks
<1>8. AfterRead(b)[b] = Free /\ AfterRead(b)[Other(b)] = state[Other(b)]
  BY <1>1, <1>4, <1>6, <1>7 DEF AfterRead, Consumed, AllocTypeOK, Other, Banks
<1>9. out = Other(b)
  BY <1>4, <1>6, <1>7, <1>8 DEF PickFree
<1>10. UsesOf(n) <= 1
  BY <1>2, Names DEF IsChain, UsesOf
<1>k. PICK k : k = Len(layers)
  OBVIOUS
<1>11. /\ k \in Nat /\ DOMAIN layers = 1 .. k /\ DOMAIN layers' = 1 .. k + 1 /\ Len(layers') = k + 1
       /\ layers'[k + 1] = [node |-> n, in |-> b, out |-> out]
       /\ \A i \in 1 .. k : layers'[i] = layers[i]
  BY <1>k, <1>1, <1>4 DEF AllocTypeOK
<1>12. /\ k % 2 = 0 <=> (k + 1) % 2 = 1
       /\ k % 2 # 0 <=> (k + 1) % 2 = 0
  BY <1>11
<1>13. HeldBank' = out /\ Other(HeldBank)' = b
  <2>1. HeldBank = (IF k % 2 = 0 THEN "A" ELSE "B") /\ HeldBank' = IF (k + 1) % 2 = 0 THEN "A" ELSE "B"
    BY <1>k, <1>11 DEF HeldBank
  <2> QED BY <1>7, <1>9, <1>12, <2>1 DEF Other
<1>14. BanksAlternate(k + 1)'
  BY <1>k, <1>7, <1>9, <1>11, <1>12 DEF BanksAlternate, HeldBank
<1>15. \A i \in 1 .. k : BanksAlternate(i)'
  BY <1>6, <1>11 DEF BanksAlternate
<1>16. \A i \in DOMAIN layers' : BanksAlternate(i)'
  <2>1. \A i \in 1 .. k + 1 : i = k + 1 \/ i \in 1 .. k
    BY <1>11
  <2> QED BY <1>11, <1>14, <1>15, <2>1
<1>17. state'[out].uses <= 1 /\ state'[b].tensor = None
  BY <1>4, <1>8, <1>9, <1>10 DEF Held, Free, Other
<1> QED BY <1>13, <1>16, <1>17

LEMMA NextChain == ChainInv /\ LinearInv' /\ [Next]_vars => ChainInv'
<1>1. ASSUME ChainInv, LinearInv', UNCHANGED <<ins, outs, layers>>,
             refused' # None \/ UNCHANGED <<state, refused>>
      PROVE  ChainInv'
  <2>1. AllocTypeOK' /\ (IsChain' <=> IsChain) /\ HeldBank' = HeldBank
    BY <1>1 DEF LinearInv, IsChain, AllLinear, Reads, HeldBank
  <2>2. \A i \in DOMAIN layers : BanksAlternate(i)' <=> BanksAlternate(i)
    BY <1>1 DEF BanksAlternate
  <2>3. Other(HeldBank)' = Other(HeldBank)
    BY <2>1 DEF Other
  <2> QED BY <1>1, <2>1, <2>2, <2>3 DEF ChainInv
<1>2. ASSUME ChainInv, LinearInv', UNCHANGED vars PROVE ChainInv'
  BY <1>1, <1>2 DEF vars, graphVars, allocVars
<1>3. ASSUME ChainInv, LinearInv', Next PROVE ChainInv'
  <2>1. PICK n \in Nodes : Ready(n) /\ Assign(n)
    BY <1>3 DEF Next
  <2>2. CASE Place(n)
    BY <1>3, <2>1, <2>2, PlaceChain DEF Assign
  <2>3. CASE RefuseInput(n) \/ RefuseOutput(n)
    <3>1. UNCHANGED <<ins, outs, layers>> /\ refused' # None
      BY <2>1, <2>3, Names DEF Assign, graphVars, RefuseInput, RefuseOutput
    <3> QED BY <1>1, <1>3, <3>1
  <2> QED BY <2>1, <2>2, <2>3 DEF Assign
<1> QED BY <1>2, <1>3

-------------------------------------------------------------------------------
(* The scheduler asks the allocator for nodes whose producers were placed.      *)
LEMMA SchedStarts == SchedInit => SchedInv
<1> SUFFICES ASSUME SchedInit PROVE SchedInv
  OBVIOUS
<1>1. AllocTypeOK /\ KahnInv
  BY InitLinear, KahnStarts DEF SchedInit, LinearInv, AllocTypeOK
<1>2. width \in [Tensors -> Nat \ {0}] /\ plan = <<>> /\ layers = <<>> /\ stage = "quantized"
  BY LayoutAssumption DEF SchedInit, Init, AllocInit
<1>3. plan \in Seq(LayerRecord) /\ Len(plan) = Len(layers) /\ Len(layers) = 0
  BY <1>2
<1>4. 0 <= NumNodes /\ \A i \in 1 .. 0 : FALSE
  BY GraphAssumption
<1> QED BY <1>1, <1>2, <1>3, <1>4 DEF SchedInv

(* The nodes placed so far are the first of the order. *)
LEMMA ScheduledInOrder ==
  ASSUME SchedInv
  PROVE  /\ Len(layers) \in Nat
         /\ Scheduled = {order[i] : i \in 1 .. Len(layers)}
<1>1. layers \in Seq([node : Nodes, in : Banks, out : Banks])
  BY DEF SchedInv, AllocTypeOK
<1>2. DOMAIN layers = 1 .. Len(layers) /\ Len(layers) \in Nat
  BY <1>1, LenProperties
<1> QED BY <1>2 DEF SchedInv, Scheduled

LEMMA NextNodeReady ==
  ASSUME SchedInv, Placing
  PROVE  NextNode \in Nodes /\ Ready(NextNode)
<1> DEFINE i == Len(layers) + 1
<1>1. /\ order \in Seq(Nodes) /\ DOMAIN order = 1 .. NumNodes /\ NumNodes \in Nat
      /\ IsInjective(order) /\ ins \in [Nodes -> ActLists]
  BY GraphAssumption, LenProperties DEF SchedInv, Placing, KahnInv, KahnTypeOK, Complete, Once
<1>2. i \in DOMAIN order /\ \A j \in 1 .. Len(layers) : j \in DOMAIN order /\ j # i /\ j \in 1 .. i - 1
  BY <1>1, ScheduledInOrder DEF Placing
<1>3. NextNode = order[i] /\ order[i] \in Nodes
  BY <1>1, <1>2, ElementOfSeq DEF NextNode
<1>4. order[i] \notin Scheduled
  BY <1>1, <1>2, ScheduledInOrder DEF IsInjective
<1>5. ASSUME NEW k \in DOMAIN ins[order[i]], ins[order[i]][k] \notin Inputs
      PROVE  ins[order[i]][k] \in Scheduled
  <2>1. ins[order[i]][k] \in Nodes
    BY <1>1, <1>3, <1>5, ReadsTensors
  <2>2. KahnInv
    BY DEF SchedInv
  <2> HIDE DEF i
  <2>3. PICK j \in 1 .. i - 1 : order[j] = ins[order[i]][k]
    BY <1>2, <2>1, <2>2, ProducersFirst
  <2> USE DEF i
  <2>4. j \in 1 .. Len(layers)
    BY ScheduledInOrder
  <2> QED BY <2>3, <2>4, ScheduledInOrder
<1> QED BY <1>3, <1>4, <1>5 DEF Ready

LEMMA OrderingKeeps ==
  ASSUME SchedInv, Ordering
  PROVE  SchedInv' /\ UNCHANGED vars
<1>1. UNCHANGED <<ins, outs, state, layers, refused, memory, width, plan, stage>> /\ status = "ORDERING"
  BY DEF Ordering, vars, graphVars, allocVars, planVars, Pop, Finish
<1>2. KahnInv'
  BY <1>1, KahnPops, KahnFinishes DEF SchedInv, Ordering
<1>3. AllocTypeOK'
  BY <1>1 DEF SchedInv, AllocTypeOK, Unread, Reads
<1>4. Len(layers) = 0
  BY <1>1 DEF SchedInv
<1>5. UNCHANGED vars
  BY <1>1 DEF vars, graphVars, allocVars
<1> QED BY <1>1, <1>2, <1>3, <1>4, <1>5 DEF SchedInv

(* What one iteration appends has the rows behind the layer before. *)
LEMMA LayerIsPlanned ==
  ASSUME SchedInv, NEW n \in Nodes, NEW e, e = LayerSchedule(n), plan' = Append(plan, e),
         width' = width, ins' = ins, NEW k, k = Len(plan)
  PROVE  /\ plan' \in Seq(LayerRecord) /\ Len(plan') = k + 1 /\ k \in Nat
         /\ \A i \in 1 .. k : plan'[i] = plan[i]
         /\ PlannedAs(k + 1, n)'
<1>1. plan \in Seq(LayerRecord) /\ Len(plan) \in Nat /\ width \in [Tensors -> Nat \ {0}]
  BY DEF SchedInv
<1>2. LastLayer \in LayerRecord \/ LastLayer = NoLayer
  BY <1>1, EmptySeq, ElementOfSeq DEF LastLayer
<1>3. /\ {LastLayer.weightStart, LastLayer.weightRows, LastLayer.biasStart, LastLayer.biasRows,
          LastLayer.end} \subseteq Nat
      /\ LastLayer.weightStart + LastLayer.weightRows = WeightEnd(Len(plan))
      /\ LastLayer.biasStart + LastLayer.biasRows = BiasEnd(Len(plan))
  <2>1. CASE plan = <<>>
    BY <2>1 DEF LastLayer, NoLayer, WeightEnd, BiasEnd
  <2>2. CASE plan # <<>>
    <3>1. LastLayer = plan[Len(plan)] /\ Len(plan) \in 1 .. Len(plan) /\ Len(plan) # 0
      BY <1>1, <2>2, EmptySeq DEF LastLayer
    <3>2. LastLayer \in LayerRecord
      BY <1>1, <3>1, ElementOfSeq
    <3> QED BY <3>1, <3>2 DEF LayerRecord, WeightEnd, BiasEnd
  <2> QED BY <2>1, <2>2
<1>4. OutputDim(n) \in Nat \ {0} /\ InputDim(n) \in Nat \ {0}
  BY <1>1, FirstRead, Names DEF OutputDim, InputDim, SchedInv
<1> DEFINE par == Parallelism(OutputDim(n))
           tiles == OutputDim(n) \div par
<1>5. par \in Nat /\ tiles \in Nat
  <2>1. OutputDim(n) \in Nat \ {0}
    BY <1>4
  <2>2. Parallelism(OutputDim(n)) \in 1 .. MaxParallelism /\ tiles \in Nat \ {0}
    BY <2>1, ParallelismDivides
  <2>3. MaxParallelism \in Nat
    BY LayoutAssumption
  <2> HIDE DEF tiles
  <2> QED BY <2>2, <2>3
<1>6. Ceil(OutputDim(n), BiasesPerRow) \in Nat /\ TileOverhead \in Nat
  BY <1>4, CeilCovers, LayoutAssumption
<1> HIDE DEF par, tiles
<1>7. tiles * InputDim(n) \in Nat /\ tiles * (InputDim(n) + TileOverhead) \in Nat
  BY <1>4, <1>5, <1>6
<1>8. /\ e.index = Len(plan) /\ e.parallelism = par /\ e.tiles = tiles
      /\ e.weightStart = WeightEnd(Len(plan)) /\ e.weightRows = tiles * InputDim(n)
      /\ e.biasStart = BiasEnd(Len(plan)) /\ e.biasRows = Ceil(OutputDim(n), BiasesPerRow)
  BY <1>3 DEF LayerSchedule, WeightRows, BiasRows, par, tiles
<1>9. e \in LayerRecord
  <2>1. LastLayer.end + tiles * (InputDim(n) + TileOverhead) \in Nat
    BY <1>3, <1>7
  <2>2. WeightEnd(Len(plan)) \in Nat /\ BiasEnd(Len(plan)) \in Nat
    BY <1>3
  <2> HIDE DEF LayerRecord
  <2>3. e = [index |-> Len(plan), parallelism |-> par, tiles |-> tiles,
             weightStart |-> WeightEnd(Len(plan)), weightRows |-> tiles * InputDim(n),
             biasStart |-> BiasEnd(Len(plan)), biasRows |-> Ceil(OutputDim(n), BiasesPerRow),
             start |-> LastLayer.end, end |-> LastLayer.end + tiles * (InputDim(n) + TileOverhead)]
    BY <1>3 DEF LayerSchedule, WeightRows, BiasRows, par, tiles
  <2> QED BY <1>1, <1>3, <1>5, <1>6, <1>7, <2>1, <2>2, <2>3 DEF LayerRecord
<1>10. /\ plan' \in Seq(LayerRecord) /\ Len(plan') = Len(plan) + 1
       /\ \A i \in 1 .. Len(plan) : plan'[i] = plan[i]
       /\ plan'[Len(plan) + 1] = e
  BY <1>1, <1>9, AppendProperties
<1>11. OutputDim(n)' = OutputDim(n) /\ InputDim(n)' = InputDim(n)
  BY DEF OutputDim, InputDim
<1>12. WeightEnd(k)' = WeightEnd(k) /\ BiasEnd(k)' = BiasEnd(k)
  BY <1>1, <1>10 DEF WeightEnd, BiasEnd
<1>13. PlannedAs(k + 1, n)'
  BY <1>1, <1>8, <1>10, <1>11, <1>12 DEF PlannedAs, par, tiles
<1> QED BY <1>1, <1>10, <1>13

(* A layer keeps its rows while others are planned behind it.                  *)
LEMMA RowsStay ==
  ASSUME NEW k \in Nat, \A i \in 1 .. k : plan'[i] = plan[i], UNCHANGED <<ins, width>>,
         NEW i \in 1 .. k, NEW n
  PROVE  /\ PlannedAs(i, n) => PlannedAs(i, n)'
         /\ WeightEnd(i)' = WeightEnd(i) /\ BiasEnd(i)' = BiasEnd(i)
<1>1. OutputDim(n)' = OutputDim(n) /\ InputDim(n)' = InputDim(n)
  BY DEF OutputDim, InputDim
<1>2. plan'[i] = plan[i] /\ i - 1 \in 0 .. k /\ (i - 1 # 0 => i - 1 \in 1 .. k)
  OBVIOUS
<1>3. WeightEnd(i - 1)' = WeightEnd(i - 1) /\ BiasEnd(i - 1)' = BiasEnd(i - 1)
  BY <1>2 DEF WeightEnd, BiasEnd
<1>4. WeightEnd(i)' = WeightEnd(i) /\ BiasEnd(i)' = BiasEnd(i)
  BY <1>2 DEF WeightEnd, BiasEnd
<1> QED BY <1>1, <1>2, <1>3, <1>4 DEF PlannedAs

LEMMA PlacingKeeps ==
  ASSUME SchedInv, LinearInv, Placing
  PROVE  SchedInv' /\ Next
<1>1. PICK n \in Nodes : n = NextNode /\ Ready(n)
  BY NextNodeReady
<1>2. /\ Assign(n) /\ refused = None /\ status = "ORDERED" /\ Len(layers) < NumNodes
      /\ UNCHANGED <<ins, outs, kahnVars, width, stage>>
      /\ plan' = IF refused' = None THEN Append(plan, LayerSchedule(n)) ELSE plan
  BY <1>1 DEF Placing, Assign, graphVars
<1>3. Next
  BY <1>1, <1>2 DEF Next
<1>4. AllocTypeOK' /\ KahnInv'
  BY <1>2, <1>3, NextLinear, KahnRests DEF SchedInv, LinearInv
<1>5. UNCHANGED <<order, status>> /\ stage = "quantized"
  BY <1>2 DEF kahnVars, SchedInv
<1>6. CASE Place(n)
  <2>1. refused' = None
    BY <1>2, <1>6 DEF Place
  <2>e. PICK e : e = LayerSchedule(n)
    OBVIOUS
  <2>k. PICK k : k = Len(layers)
    OBVIOUS
  <2>2. k \in Nat /\ Len(plan) = k /\ k < NumNodes /\ NumNodes \in Nat
    BY <1>2, <2>k, ScheduledInOrder, GraphAssumption DEF SchedInv
  <2>3. PICK b \in FindBank(ins[n][1]) : \E out \in Banks :
          b \in Banks /\ layers' = Append(layers, [node |-> n, in |-> b, out |-> out])
    <3>1. AllocTypeOK /\ Ready(n) /\ UNCHANGED graphVars
      BY <1>1, <1>2 DEF SchedInv, graphVars
    <3> QED BY ONLY <1>6, <3>1, n \in Nodes, PlaceShape
  <2>4. PICK out \in Banks :
          b \in Banks /\ layers' = Append(layers, [node |-> n, in |-> b, out |-> out])
    BY <2>3
  <2>5. /\ Len(layers') = k + 1 /\ layers'[k + 1] = [node |-> n, in |-> b, out |-> out]
        /\ \A i \in 1 .. k : layers'[i] = layers[i]
    BY <2>k, <2>4, AppendProperties DEF SchedInv, AllocTypeOK
  <2>6. /\ plan' \in Seq(LayerRecord) /\ Len(plan') = k + 1
        /\ \A i \in 1 .. k : plan'[i] = plan[i]
        /\ PlannedAs(k + 1, n)'
    <3>1. plan' = Append(plan, e) /\ UNCHANGED <<ins, width>>
      BY <1>2, <2>1, <2>e
    <3> QED BY <2>2, <2>e, <3>1, LayerIsPlanned
  <2>7. ASSUME NEW i \in 1 .. k + 1
        PROVE  layers'[i].node = order[i] /\ PlannedAs(i, order[i])'
    <3>1. CASE i = k + 1
      <4>1. n = order[i]
        BY <1>1, <2>k, <3>1 DEF NextNode
      <4> QED BY <1>5, <2>5, <2>6, <3>1, <4>1
    <3>2. CASE i \in 1 .. k
      <4>1. layers[i].node = order[i] /\ PlannedAs(i, order[i])
        BY <2>k, <3>2 DEF SchedInv
      <4>2. PICK m : m = order[i]
        OBVIOUS
      <4>3. PlannedAs(i, m)'
        BY <1>2, <2>2, <2>6, <3>2, <4>1, <4>2, RowsStay
      <4> QED BY <1>5, <2>5, <3>2, <4>1, <4>2, <4>3
    <3> QED BY <2>2, <3>1, <3>2
  <2>8. width' \in [Tensors -> Nat \ {0}] /\ stage' = "quantized"
    BY <1>2, <1>5 DEF SchedInv
  <2>9. Len(layers') <= NumNodes
    BY <2>2, <2>5
  <2>10. \A i \in 1 .. Len(layers') : layers'[i].node = order'[i] /\ PlannedAs(i, order[i])'
    BY <1>5, <2>5, <2>7
  <2> QED BY <1>2, <1>3, <1>4, <1>5, <2>5, <2>6, <2>8, <2>9, <2>10 DEF SchedInv
<1>7. CASE RefuseInput(n) \/ RefuseOutput(n)
  <2>1. UNCHANGED layers /\ refused' # None
    BY <1>1, <1>7, Names DEF RefuseInput, RefuseOutput
  <2>2. UNCHANGED <<plan, ins, width, layers, order, status, stage>>
    BY <1>2, <1>5, <2>1
  <2>3. \A i : PlannedAs(i, order[i])' <=> PlannedAs(i, order[i])
    BY <2>2 DEF PlannedAs, OutputDim, InputDim, WeightEnd, BiasEnd
  <2> QED BY <1>3, <1>4, <2>2, <2>3 DEF SchedInv
<1> QED BY <1>2, <1>6, <1>7 DEF Assign

LEMMA SchedRests ==
  ASSUME SchedInv, UNCHANGED <<ins, outs, state, layers, refused, memory, kahnVars, width, plan>>,
         \/ UNCHANGED stage
         \/ stage' \in {"scheduled", "overflow"} /\ Len(layers) = NumNodes
  PROVE  SchedInv'
<1>1. KahnInv'
  BY KahnRests DEF SchedInv
<1>2. AllocTypeOK'
  BY DEF SchedInv, AllocTypeOK, Unread, Reads
<1>3. \A i : PlannedAs(i, order[i])' <=> PlannedAs(i, order[i])
  BY DEF PlannedAs, OutputDim, InputDim, WeightEnd, BiasEnd, kahnVars
<1> QED BY <1>1, <1>2, <1>3 DEF SchedInv, kahnVars

(* A step of the scheduler is one of the allocator, or none of its business.    *)
LEMMA SchedSteps ==
  ASSUME SchedInv, LinearInv, [SchedNext]_schedVars
  PROVE  SchedInv' /\ [Next]_vars
<1>1. CASE Ordering
  BY <1>1, OrderingKeeps
<1>2. CASE Placing
  BY <1>2, PlacingKeeps
<1>3. CASE Budgeting
  <2>1. /\ UNCHANGED <<ins, outs, state, layers, refused, memory, kahnVars, width, plan, vars>>
        /\ stage' \in {"scheduled", "overflow"} /\ Len(layers) = NumNodes
    BY <1>3 DEF Budgeting, vars, graphVars, allocVars
  <2> QED BY <2>1, SchedRests
<1>4. CASE UNCHANGED schedVars
  <2>1. UNCHANGED <<ins, outs, state, layers, refused, memory, kahnVars, width, plan, stage, vars>>
    BY <1>4 DEF schedVars, planVars, vars, graphVars, allocVars
  <2> QED BY <2>1, SchedRests
<1> QED BY <1>1, <1>2, <1>3, <1>4 DEF SchedNext

-------------------------------------------------------------------------------
(* A step of the packer is one of the scheduler, or leaves it alone. *)
LEMMA PackSteps == [PackNext]_packVars => [SchedNext]_schedVars
  BY DEF PackNext, Scheduling, Packing, packVars

LEMMA PackStarts == PackInit => SchedInv /\ LinearInv /\ ChainInv /\ Init
  BY SchedStarts, InitLinear, InitChain DEF PackInit, SchedInit

LEMMA PackKeeps ==
  ASSUME SchedInv, LinearInv, ChainInv, [PackNext]_packVars
  PROVE  SchedInv' /\ LinearInv' /\ ChainInv' /\ [Next]_vars
<1>1. SchedInv' /\ [Next]_vars
  BY PackSteps, SchedSteps
<1>2. LinearInv'
  BY <1>1, NextLinear
<1> QED BY <1>1, <1>2, NextChain

(* For every graph, the order in which the scheduler places layers is           *)
(* topological while it grows, and it is refused only for a cycle.             *)
THEOREM LayersAreSorted == PackSpec => []SortsOrRejects
<1>1. SchedInv => SortsOrRejects
  BY KahnSorts DEF SchedInv
<1>2. SchedInv /\ LinearInv /\ ChainInv /\ [PackNext]_packVars
        => SchedInv' /\ LinearInv' /\ ChainInv'
  BY PackKeeps
<1> QED BY <1>1, <1>2, PackStarts, PTL DEF PackSpec

(* The instance of BankAllocator means what the module itself does. *)
LEMMA SameAllocator ==
  /\ Allocator!Init <=> Init
  /\ Allocator!Next <=> Next
  /\ Allocator!vars = vars
<1>1. /\ Allocator!Nodes = Nodes /\ Allocator!Inputs = Inputs /\ Allocator!Tensors = Tensors
      /\ Allocator!None = None /\ Allocator!Banks = Banks
      /\ Allocator!StagedInput = StagedInput /\ Allocator!Scheduled = Scheduled
  BY DEF Allocator!Nodes, Allocator!Inputs, Allocator!Tensors, Allocator!None, Allocator!Banks,
         Allocator!StagedInput, Allocator!Scheduled, Nodes, Inputs, Tensors, None, Banks,
         StagedInput, Scheduled
<1>2. /\ \A t : Allocator!Reads(t) = Reads(t)
      /\ \A b : Allocator!Other(b) = Other(b)
      /\ \A t, u : Allocator!Held(t, u) = Held(t, u)
  BY <1>1 DEF Allocator!Reads, Allocator!Other, Allocator!Held, Reads, Other, Held
<1>c. \A S : Allocator!Cardinality(S) = Cardinality(S)
  BY DEF Allocator!Cardinality, Allocator!IsFiniteSet, Cardinality, IsFiniteSet
<1>3. /\ \A t : Allocator!UsesOf(t) = UsesOf(t)
      /\ Allocator!Free = Free /\ Allocator!Unread = Unread
      /\ \A t : Allocator!FindBank(t) = FindBank(t)
  BY <1>1, <1>2, <1>c DEF Allocator!UsesOf, Allocator!Free, Allocator!Unread, Allocator!FindBank,
                    UsesOf, Free, Unread, FindBank
<1>4. \A b : Allocator!AfterRead(b) = AfterRead(b)
  BY <1>2, <1>3 DEF Allocator!AfterRead, Allocator!Consumed, AfterRead, Consumed
<1>5. \A s, b : Allocator!PickFree(s, b) = PickFree(s, b)
  BY <1>1, <1>2 DEF Allocator!PickFree, PickFree
<1>6. Allocator!Init <=> Init
  <2>1. Allocator!AllocInit <=> AllocInit
    BY <1>1, <1>2, <1>3 DEF Allocator!AllocInit, AllocInit
  <2>2. Allocator!ActLists = ActLists
    BY <1>1 DEF Allocator!ActLists, ActLists
  <2>3. Allocator!GraphInit <=> GraphInit
    BY <1>1, <1>3, <1>c, <2>2 DEF Allocator!GraphInit, GraphInit
  <2> QED BY <2>1, <2>3 DEF Allocator!Init, Init
<1>7. Allocator!vars = vars
  BY DEF Allocator!vars, Allocator!graphVars, Allocator!allocVars, vars, graphVars, allocVars
<1>8. Allocator!Next <=> Next
  <2>1. ASSUME NEW n \in Nodes PROVE Allocator!Place(n) <=> Place(n)
    BY <1>2, <1>3, <1>4, <1>5 DEF Allocator!Place, Place
  <2>2. ASSUME NEW n \in Nodes PROVE Allocator!RefuseInput(n) <=> RefuseInput(n)
    BY <1>3 DEF Allocator!RefuseInput, RefuseInput
  <2>3. ASSUME NEW n \in Nodes PROVE Allocator!RefuseOutput(n) <=> RefuseOutput(n)
    BY <1>3, <1>4, <1>5 DEF Allocator!RefuseOutput, RefuseOutput
  <2>4. ASSUME NEW n \in Nodes PROVE Allocator!Assign(n) <=> Assign(n)
    BY <1>1, <2>1, <2>2, <2>3 DEF Allocator!Assign, Assign, Allocator!graphVars, graphVars
  <2>5. ASSUME NEW n \in Nodes PROVE Allocator!Ready(n) <=> Ready(n)
    BY <1>1 DEF Allocator!Ready, Ready
  <2> QED BY <1>1, <2>4, <2>5 DEF Allocator!Next, Next
<1> QED BY <1>6, <1>7, <1>8

(* For every graph, what the scheduler asks of the allocator is what the         *)
(* allocator allows to be asked: a node comes once, after the producers of all    *)
(* that it reads.                                                           *)
THEOREM SchedulerRefines == PackSpec => ImplementsAllocator
<1>1. Init => Allocator!Init
  BY SameAllocator
<1>2. SchedInv /\ LinearInv /\ ChainInv /\ [PackNext]_packVars
        => SchedInv' /\ LinearInv' /\ ChainInv' /\ [Allocator!Next]_(Allocator!vars)
  BY PackKeeps, SameAllocator DEF vars, graphVars, allocVars, Allocator!vars, Allocator!graphVars,
                                  Allocator!allocVars
<1> QED BY <1>1, <1>2, PackStarts, PTL DEF PackSpec, ImplementsAllocator, Allocator!Spec

(* For every chain, the annotations of a schedule are what validate_stage3       *)
(* asks for.                                                                *)
THEOREM ChainsValidate == PackSpec => []ChainValidates
<1>1. ASSUME SchedInv, ChainInv PROVE ChainValidates
  <2>1. SUFFICES ASSUME IsChain, NEW i \in DOMAIN plan
                 PROVE  /\ plan[i].index = i - 1 /\ BanksAlternate(i) /\ RowsFollow(i)
                        /\ OutputDim(order[i]) % plan[i].parallelism = 0
    BY DEF ChainValidates, validate_stage3
  <2>2. /\ Len(layers) \in Nat /\ DOMAIN plan = 1 .. Len(layers) /\ DOMAIN layers = 1 .. Len(layers)
        /\ i \in 1 .. Len(layers)
    BY <1>1, LenProperties DEF SchedInv, AllocTypeOK
  <2>3. PlannedAs(i, order[i]) /\ order[i] \in Nodes
    <3>1. layers[i] \in [node : Nodes, in : Banks, out : Banks]
      BY <1>1, <2>2, ElementOfSeq DEF SchedInv, AllocTypeOK
    <3> QED BY <1>1, <2>2, <3>1 DEF SchedInv
  <2>4. BanksAlternate(i)
    BY <1>1, <2>1, <2>2 DEF ChainInv
  <2>5. RowsFollow(i)
    BY <2>2, <2>3 DEF RowsFollow, PlannedAs, WeightEnd
  <2>6. OutputDim(order[i]) \in Nat \ {0}
    BY <1>1, <2>3 DEF OutputDim, SchedInv, Tensors
  <2>7. OutputDim(order[i]) % plan[i].parallelism = 0
    BY <2>3, <2>6, ParallelismDivides DEF PlannedAs
  <2> QED BY <2>3, <2>4, <2>5, <2>7 DEF PlannedAs
<1>2. SchedInv /\ LinearInv /\ ChainInv /\ [PackNext]_packVars
        => SchedInv' /\ LinearInv' /\ ChainInv'
  BY PackKeeps
<1> QED BY <1>1, <1>2, PackStarts, PTL DEF PackSpec

-------------------------------------------------------------------------------
(* The packer fills the memories a layer at a time. *)
LEMMA PackedCount ==
  ASSUME SchedInv, NEW p \in 0 .. Len(plan), Filled(p)
  PROVE  Packed = p /\ Len(plan) \in 0 .. NumNodes
<1>1. /\ Len(plan) \in Nat /\ Len(plan) <= NumNodes /\ NumNodes \in Nat
      /\ order \in Seq(Nodes) /\ IsInjective(order)
      /\ p > 0 => DOMAIN order = 1 .. NumNodes
  BY GraphAssumption, LenProperties DEF SchedInv, KahnInv, KahnTypeOK, Complete, Once
<1> DEFINE f == [j \in 1 .. p |-> order[j]]
           S == {order[j] : j \in 1 .. p}
<1>2. \A j \in 1 .. p : j \in DOMAIN order
  BY <1>1
<1>3. f \in Bijection(1 .. p, S)
  <2>1. \A j, k \in 1 .. p : order[j] = order[k] => j = k
    BY <1>1, <1>2 DEF IsInjective
  <2>2. f \in Injection(1 .. p, S)
    BY <2>1 DEF Injection, IsInjective
  <2>3. f \in Surjection(1 .. p, S)
    BY DEF Surjection
  <2> QED BY <2>2, <2>3 DEF Bijection
<1>4. IsFiniteSet(1 .. p) /\ Cardinality(1 .. p) = p
  BY <1>1, FS_Interval
<1>5. Cardinality(S) = p
  <2> HIDE DEF f, S
  <2>1. ExistsBijection(1 .. p, S)
    BY <1>3 DEF ExistsBijection
  <2> QED BY <1>4, <2>1, FS_Bijection
<1>6. Packed = Cardinality(PackedNodes)
  BY DEF Packed, PackedNodes
<1> QED BY <1>1, <1>5, <1>6 DEF Filled

(* What the schedule says of a layer, and the rows that the packer makes of it. *)
LEMMA LayerShape ==
  ASSUME SchedInv, NEW i \in 1 .. Len(plan), NEW n, n = order[i], NEW ls, ls = plan[i]
  PROVE  /\ n \in Nodes /\ InputDim(n) \in Nat \ {0} /\ OutputDim(n) \in Nat \ {0}
         /\ ls.parallelism \in 1 .. MaxParallelism /\ ls.tiles \in Nat \ {0}
         /\ OutputDim(n) = ls.tiles * ls.parallelism
         /\ ls.weightRows = ls.tiles * InputDim(n)
         /\ ls.biasRows = Ceil(OutputDim(n), BiasesPerRow) /\ ls.biasRows \in Nat \ {0}
         /\ ls.weightStart = WeightEnd(i - 1) /\ ls.biasStart = BiasEnd(i - 1)
         /\ {ls.weightStart, ls.weightRows, ls.biasStart} \subseteq Nat
<1>1. Len(layers) = Len(plan) /\ layers[i].node = order[i] /\ PlannedAs(i, n)
  BY DEF SchedInv
<1>2. layers[i] \in [node : Nodes, in : Banks, out : Banks]
  BY <1>1, ElementOfSeq DEF SchedInv, AllocTypeOK
<1>3. n \in Nodes
  BY <1>1, <1>2
<1>4. plan[i] \in LayerRecord
  BY ElementOfSeq DEF SchedInv
<1>5. InputDim(n) \in Nat \ {0} /\ OutputDim(n) \in Nat \ {0}
  BY <1>3, FirstRead, Names DEF OutputDim, InputDim, SchedInv
<1>6. /\ ls.parallelism \in 1 .. MaxParallelism /\ ls.tiles \in Nat \ {0}
      /\ OutputDim(n) = ls.tiles * ls.parallelism
  BY <1>1, <1>5, ParallelismDivides DEF PlannedAs
<1>7. BiasesPerRow \in Nat \ {0}
  BY LayoutAssumption
<1>8. Ceil(OutputDim(n), BiasesPerRow) \in Nat \ {0}
  BY <1>5, <1>7, CeilCovers
<1> QED BY <1>1, <1>3, <1>4, <1>5, <1>6, <1>8 DEF PlannedAs, LayerRecord

LEMMA LayerRows ==
  ASSUME SchedInv, NEW i \in 1 .. Len(plan), NEW n, n = order[i], NEW ls, ls = plan[i]
  PROVE  /\ PackLayerWeights(n, ls) \in Seq(WeightRow)
         /\ Len(PackLayerWeights(n, ls)) = ls.weightRows
         /\ PackLayerBiases(n) \in Seq(BiasRow)
         /\ Len(PackLayerBiases(n)) = ls.biasRows
         /\ \E r \in 1 .. ls.biasRows : PackLayerBiases(n)[r][0] = <<n, 0>>
         /\ \A r \in 1 .. ls.biasRows :
              PackLayerBiases(n)[r][0] = Padding \/ PackLayerBiases(n)[r][0][1] = n
<1>1. /\ n \in Nodes /\ InputDim(n) \in Nat \ {0} /\ OutputDim(n) \in Nat \ {0}
      /\ ls.parallelism \in 1 .. MaxParallelism /\ ls.tiles \in Nat \ {0}
      /\ ls.weightRows = ls.tiles * InputDim(n) /\ ls.weightRows \in Nat
      /\ ls.biasRows = Ceil(OutputDim(n), BiasesPerRow) /\ ls.biasRows \in Nat \ {0}
  BY LayerShape
<1>2. BiasesPerRow \in Nat \ {0} /\ MaxParallelism \in Nat \ {0}
  BY LayoutAssumption
<1> DEFINE I == InputDim(n)
           O == OutputDim(n)
           w == ls.weightRows
           b == ls.biasRows
<1>3. ASSUME NEW r \in 1 .. w, NEW lane \in Lanes
      PROVE  (IF lane < ls.parallelism
              THEN <<n, (r - 1) % I, ((r - 1) \div I) * ls.parallelism + lane>> ELSE Padding) \in Word
  <2> HIDE DEF I
  <2>1. r - 1 \in Nat /\ lane \in Nat /\ ls.parallelism \in Nat /\ I \in Nat \ {0}
    BY <1>1, <1>2 DEF Lanes, I
  <2>2. /\ (r - 1) % I \in Nat /\ (r - 1) \div I \in Nat
        /\ ((r - 1) \div I) * ls.parallelism + lane \in Nat
    BY ONLY <2>1, Entry
  <2> QED BY <1>1, <2>2 DEF Word
<1>4. PackLayerWeights(n, ls) = [r \in 1 .. w |-> [lane \in Lanes |->
        IF lane < ls.parallelism
        THEN <<n, (r - 1) % I, ((r - 1) \div I) * ls.parallelism + lane>> ELSE Padding]]
  BY <1>1 DEF PackLayerWeights
<1>5. /\ PackLayerWeights(n, ls) \in Seq(WeightRow)
      /\ Len(PackLayerWeights(n, ls)) = w
  <2> HIDE DEF w, I
  <2>1. PackLayerWeights(n, ls) \in [1 .. w -> WeightRow]
    BY <1>3, <1>4 DEF WeightRow
  <2>2. w \in Nat
    BY <1>1 DEF w
  <2> QED BY <2>1, <2>2, LenProperties
<1>6. PackLayerBiases(n) = [r \in 1 .. b |-> [k \in 0 .. BiasesPerRow - 1 |->
        IF (r - 1) * BiasesPerRow + k < O THEN <<n, (r - 1) * BiasesPerRow + k>> ELSE Padding]]
  BY <1>1 DEF PackLayerBiases
<1>7. \A r \in 1 .. b, k \in 0 .. BiasesPerRow - 1 : (r - 1) * BiasesPerRow + k \in Nat
  <2>1. ASSUME NEW r \in 1 .. b, NEW k \in 0 .. BiasesPerRow - 1
        PROVE  r - 1 \in Nat /\ BiasesPerRow \in Nat \ {0} /\ k \in Nat
    BY <1>2
  <2> QED BY <2>1, Entry
<1> HIDE DEF b, O
<1>8. /\ PackLayerBiases(n) \in Seq(BiasRow)
      /\ Len(PackLayerBiases(n)) = b
  <2>1. PackLayerBiases(n) \in [1 .. b -> BiasRow]
    BY <1>1, <1>6, <1>7, SMTT(30) DEF BiasRow
  <2>2. b \in Nat
    BY <1>1 DEF b
  <2> QED BY <2>1, <2>2, LenProperties
<1>9. \A r \in 1 .. b : PackLayerBiases(n)[r][0] =
        IF (r - 1) * BiasesPerRow + 0 < O THEN <<n, (r - 1) * BiasesPerRow + 0>> ELSE Padding
  BY <1>2, <1>6
<1>10. 1 \in 1 .. b /\ (1 - 1) * BiasesPerRow + 0 = 0 /\ 0 < O
  BY <1>1, <1>2 DEF b, O
<1>11. PackLayerBiases(n)[1][0] = <<n, 0>>
  BY <1>9, <1>10
<1>12. ASSUME NEW r \in 1 .. b
       PROVE  PackLayerBiases(n)[r][0] = Padding \/ PackLayerBiases(n)[r][0][1] = n
  <2>1. PICK x : x = (r - 1) * BiasesPerRow + 0
    OBVIOUS
  <2>2. PackLayerBiases(n)[r][0] = <<n, x>> \/ PackLayerBiases(n)[r][0] = Padding
    BY <1>9, <2>1
  <2>3. <<n, x>>[1] = n
    OBVIOUS
  <2> QED BY <2>2, <2>3
<1> QED BY <1>5, <1>8, <1>10, <1>11, <1>12 DEF b, w

LEMMA FilledStays ==
  ASSUME UNCHANGED <<ins, width, order, plan, weightBank, biasBank>>, NEW p
  PROVE  Filled(p)' <=> Filled(p)
<1>1. \A i : WeightEnd(i)' = WeightEnd(i) /\ BiasEnd(i)' = BiasEnd(i)
  BY DEF WeightEnd, BiasEnd
<1>2. \A n : OutputDim(n)' = OutputDim(n) /\ InputDim(n)' = InputDim(n)
  BY DEF OutputDim, InputDim
<1>3. /\ \A n, ls : PackLayerWeights(n, ls)' = PackLayerWeights(n, ls)
      /\ \A n : PackLayerBiases(n)' = PackLayerBiases(n)
  BY <1>2 DEF PackLayerWeights, PackLayerBiases
<1>4. \A j : WeightsIn(j)' <=> WeightsIn(j)
  BY <1>1, <1>3 DEF WeightsIn
<1>5. \A j : BiasesIn(j)' <=> BiasesIn(j)
  BY <1>1, <1>3 DEF BiasesIn
<1>6. PackedNodes' = PackedNodes
  BY DEF PackedNodes
<1> QED BY <1>1, <1>4, <1>5, <1>6 DEF Filled

LEMMA PackingKeeps ==
  ASSUME PackInv, Packing
  PROVE  PackInv'
<1>0. PICK p \in 0 .. Len(plan) : Filled(p) /\ (stage # "scheduled" => p = 0)
  BY DEF PackInv
<1>1. /\ SchedInv /\ weightBank \in Seq(WeightRow) /\ biasBank \in Seq(BiasRow)
      /\ stage = "scheduled"
      /\ UNCHANGED <<ins, outs, state, layers, refused, memory, kahnVars, order, width, plan, stage>>
  BY DEF PackInv, Packing, schedVars, kahnVars, vars, graphVars, allocVars, planVars
<1>2. Packed = p /\ p < NumNodes /\ Len(plan) = NumNodes /\ NumNodes \in Nat
      /\ p + 1 \in 1 .. Len(plan) /\ p \in Nat
  BY <1>0, <1>1, PackedCount, GraphAssumption DEF Packing, SchedInv
<1>n. PICK n, ls : n = order[p + 1] /\ ls = plan[p + 1]
  OBVIOUS
<1>R. PICK R : R = PackLayerWeights(n, ls)
  OBVIOUS
<1>S. PICK S : S = PackLayerBiases(n)
  OBVIOUS
<1>3. weightBank' = weightBank \o R /\ biasBank' = biasBank \o S
  BY <1>2, <1>n, <1>R, <1>S DEF Packing
<1>4. /\ R \in Seq(WeightRow) /\ Len(R) = ls.weightRows
      /\ S \in Seq(BiasRow) /\ Len(S) = ls.biasRows
      /\ \E r \in 1 .. ls.biasRows : S[r][0] = <<n, 0>>
      /\ \A r \in 1 .. ls.biasRows : S[r][0] = Padding \/ S[r][0][1] = n
  <2>1. /\ PackLayerWeights(n, ls) \in Seq(WeightRow)
        /\ Len(PackLayerWeights(n, ls)) = ls.weightRows
        /\ PackLayerBiases(n) \in Seq(BiasRow)
        /\ Len(PackLayerBiases(n)) = ls.biasRows
        /\ \E r \in 1 .. ls.biasRows : PackLayerBiases(n)[r][0] = <<n, 0>>
        /\ \A r \in 1 .. ls.biasRows :
             PackLayerBiases(n)[r][0] = Padding \/ PackLayerBiases(n)[r][0][1] = n
    <3>1. SchedInv /\ p + 1 \in 1 .. Len(plan) /\ n = order[p + 1] /\ ls = plan[p + 1]
      BY <1>1, <1>2, <1>n
    <3>2. PICK i \in 1 .. Len(plan) : n = order[i] /\ ls = plan[i]
      BY <3>1
    <3>3. /\ PackLayerWeights(n, ls) \in Seq(WeightRow)
          /\ Len(PackLayerWeights(n, ls)) = ls.weightRows
      BY ONLY <3>1, <3>2, LayerRows
    <3>4. /\ PackLayerBiases(n) \in Seq(BiasRow)
          /\ Len(PackLayerBiases(n)) = ls.biasRows
      BY ONLY <3>1, <3>2, LayerRows
    <3>5. \E r \in 1 .. ls.biasRows : PackLayerBiases(n)[r][0] = <<n, 0>>
      BY ONLY <3>1, <3>2, LayerRows, ZenonT(30)
    <3>6. \A r \in 1 .. ls.biasRows :
            PackLayerBiases(n)[r][0] = Padding \/ PackLayerBiases(n)[r][0][1] = n
      BY ONLY <3>1, <3>2, LayerRows
    <3> QED BY <3>3, <3>4, <3>5, <3>6
  <2> QED BY ONLY <1>R, <1>S, <2>1
<1>5. /\ n \in Nodes
      /\ ls.weightStart = WeightEnd(p) /\ ls.biasStart = BiasEnd(p)
      /\ {ls.weightStart, ls.weightRows, ls.biasStart, ls.biasRows} \subseteq Nat
  <2>1. (p + 1) - 1 = p
    BY <1>2
  <2> QED BY <1>1, <1>2, <1>n, <2>1, LayerShape
<1>6. /\ weightBank' \in Seq(WeightRow) /\ Len(weightBank') = Len(weightBank) + ls.weightRows
      /\ \A i \in 1 .. Len(weightBank) : weightBank'[i] = weightBank[i]
      /\ \A i \in 1 .. ls.weightRows : weightBank'[Len(weightBank) + i] = R[i]
      /\ Len(weightBank) \in Nat
  <2>1. weightBank \in Seq(WeightRow) /\ R \in Seq(WeightRow) /\ weightBank' = weightBank \o R
    BY <1>1, <1>3, <1>4
  <2>2. PICK u : u = weightBank'
    OBVIOUS
  <2>3. /\ u \in Seq(WeightRow) /\ Len(u) = Len(weightBank) + Len(R) /\ Len(weightBank) \in Nat
        /\ \A i \in 1 .. Len(weightBank) : u[i] = weightBank[i]
        /\ \A i \in 1 .. Len(R) : u[Len(weightBank) + i] = R[i]
    BY ONLY <2>1, <2>2, Behind
  <2> QED BY <1>4, <2>2, <2>3
<1>7. /\ biasBank' \in Seq(BiasRow) /\ Len(biasBank') = Len(biasBank) + ls.biasRows
      /\ \A i \in 1 .. Len(biasBank) : biasBank'[i] = biasBank[i]
      /\ \A i \in 1 .. ls.biasRows : biasBank'[Len(biasBank) + i] = S[i]
      /\ Len(biasBank) \in Nat
  <2>1. biasBank \in Seq(BiasRow) /\ S \in Seq(BiasRow) /\ biasBank' = biasBank \o S
    BY <1>1, <1>3, <1>4
  <2>2. PICK u : u = biasBank'
    OBVIOUS
  <2>3. /\ u \in Seq(BiasRow) /\ Len(u) = Len(biasBank) + Len(S) /\ Len(biasBank) \in Nat
        /\ \A i \in 1 .. Len(biasBank) : u[i] = biasBank[i]
        /\ \A i \in 1 .. Len(S) : u[Len(biasBank) + i] = S[i]
    BY ONLY <2>1, <2>2, Behind
  <2> QED BY <1>4, <2>2, <2>3
<1>8. /\ \A i : WeightEnd(i)' = WeightEnd(i) /\ BiasEnd(i)' = BiasEnd(i)
      /\ \A m, l : PackLayerWeights(m, l)' = PackLayerWeights(m, l)
      /\ \A m : PackLayerBiases(m)' = PackLayerBiases(m)
  <2>1. \A m : OutputDim(m)' = OutputDim(m) /\ InputDim(m)' = InputDim(m)
    BY <1>1 DEF OutputDim, InputDim
  <2> QED BY <1>1, <2>1 DEF WeightEnd, BiasEnd, PackLayerWeights, PackLayerBiases
<1>9. /\ PackedNodes = {order[j] : j \in 1 .. p} /\ Len(weightBank) = WeightEnd(p)
      /\ Len(biasBank) = BiasEnd(p) /\ \A j \in 1 .. p : WeightsIn(j) /\ BiasesIn(j)
  BY <1>0 DEF Filled
<1>10. PackedNodes' = {order[j] : j \in 1 .. p + 1}
  <2>0. DOMAIN biasBank = 1 .. Len(biasBank) /\ DOMAIN biasBank' = 1 .. Len(biasBank) + ls.biasRows
    BY <1>1, <1>7, LenProperties
  <2>1. \A m : (\E r \in DOMAIN biasBank' : biasBank'[r][0] = <<m, 0>>)
               <=> (\E r \in DOMAIN biasBank : biasBank[r][0] = <<m, 0>>) \/ m = n
    <3>1. ASSUME NEW m, NEW r \in DOMAIN biasBank', biasBank'[r][0] = <<m, 0>>
          PROVE  (\E q \in DOMAIN biasBank : biasBank[q][0] = <<m, 0>>) \/ m = n
      <4>1. CASE r \in 1 .. Len(biasBank)
        <5>1. biasBank'[r] = biasBank[r] /\ r \in DOMAIN biasBank
          BY <1>7, <2>0, <4>1
        <5> QED BY ONLY <3>1, <5>1
      <4>2. CASE r \notin 1 .. Len(biasBank)
        <5>1. r - Len(biasBank) \in 1 .. ls.biasRows /\ r = Len(biasBank) + (r - Len(biasBank))
          <6>1. Len(biasBank) \in Nat /\ ls.biasRows \in Nat /\ r \in 1 .. Len(biasBank) + ls.biasRows
            BY <1>5, <1>7, <2>0
          <6> QED BY ONLY <4>2, <6>1
        <5>2. S[r - Len(biasBank)][0] = <<m, 0>>
          BY <1>7, <3>1, <5>1
        <5>3. <<m, 0>> # Padding /\ <<m, 0>>[1] = m
          BY DEF Padding
        <5> QED BY <1>4, <5>1, <5>2, <5>3
      <4> QED BY <4>1, <4>2
    <3>2. ASSUME NEW m, NEW r \in DOMAIN biasBank, biasBank[r][0] = <<m, 0>>
          PROVE  \E q \in DOMAIN biasBank' : biasBank'[q][0] = <<m, 0>>
      <4>1. r \in DOMAIN biasBank' /\ biasBank'[r] = biasBank[r]
        BY <1>5, <1>7, <2>0
      <4> QED BY <3>2, <4>1
    <3>3. \E q \in DOMAIN biasBank' : biasBank'[q][0] = <<n, 0>>
      <4>1. PICK r \in 1 .. ls.biasRows : S[r][0] = <<n, 0>>
        BY <1>4
      <4>2. Len(biasBank) + r \in DOMAIN biasBank' /\ biasBank'[Len(biasBank) + r] = S[r]
        BY <1>5, <1>7, <2>0
      <4> QED BY <4>1, <4>2
    <3> QED BY <3>1, <3>2, <3>3
  <2>2. PackedNodes' = PackedNodes \cup {n}
    BY <1>5, <2>1 DEF PackedNodes
  <2>3. {order[j] : j \in 1 .. p + 1} = {order[j] : j \in 1 .. p} \cup {n}
    <3>1. \A j : j \in 1 .. p + 1 <=> j \in 1 .. p \/ j = p + 1
      BY <1>2
    <3> QED BY <1>n, <3>1
  <2> QED BY <1>9, <2>2, <2>3
<1>11. Len(weightBank') = WeightEnd(p + 1) /\ Len(biasBank') = BiasEnd(p + 1)
  BY <1>2, <1>n, <1>5, <1>6, <1>7, <1>9 DEF WeightEnd, BiasEnd
<1>12. ASSUME NEW j \in 1 .. p + 1 PROVE (WeightsIn(j) /\ BiasesIn(j))'
  <2>1. CASE j \in 1 .. p
    <3>m. PICK m, l : m = order[j] /\ l = plan[j]
      OBVIOUS
    <3>1. j \in 1 .. Len(plan)
      BY <1>2, <2>1
    <3>2. {l.weightStart, l.weightRows, l.biasStart, l.biasRows} \subseteq Nat
      BY <1>1, <3>m, <3>1, LayerShape
    <3>3. /\ WeightEnd(j) = l.weightStart + l.weightRows /\ BiasEnd(j) = l.biasStart + l.biasRows
          /\ l.weightStart + l.weightRows <= Len(weightBank)
          /\ l.biasStart + l.biasRows <= Len(biasBank)
      BY <1>9, <2>1, <3>m DEF WeightsIn, BiasesIn, WeightEnd, BiasEnd
    <3>4. /\ \A r \in 1 .. l.weightRows : l.weightStart + r \in 1 .. Len(weightBank)
          /\ \A r \in 1 .. l.biasRows : l.biasStart + r \in 1 .. Len(biasBank)
          /\ l.weightStart + l.weightRows <= Len(weightBank')
          /\ l.biasStart + l.biasRows <= Len(biasBank')
      <4>1. /\ {l.weightStart, l.weightRows, l.biasStart, l.biasRows} \subseteq Nat
            /\ {Len(weightBank), Len(biasBank), ls.weightRows, ls.biasRows} \subseteq Nat
        BY <1>5, <1>6, <1>7, <3>2
      <4>2. /\ \A r \in 1 .. l.weightRows : l.weightStart + r \in 1 .. Len(weightBank)
            /\ l.weightStart + l.weightRows <= Len(weightBank) + ls.weightRows
        BY ONLY <3>3, <4>1, Within
      <4>3. /\ \A r \in 1 .. l.biasRows : l.biasStart + r \in 1 .. Len(biasBank)
            /\ l.biasStart + l.biasRows <= Len(biasBank) + ls.biasRows
        BY ONLY <3>3, <4>1, Within
      <4> QED BY <1>6, <1>7, <4>2, <4>3
    <3>5. /\ \A r \in 1 .. l.weightRows :
               weightBank'[l.weightStart + r] = PackLayerWeights(m, l)[r]
          /\ \A r \in 1 .. l.biasRows : biasBank'[l.biasStart + r] = PackLayerBiases(m)[r]
      <4>1. WeightsIn(j) /\ BiasesIn(j)
        BY <1>9, <2>1
      <4>2. \A r \in 1 .. l.weightRows : weightBank[l.weightStart + r] = PackLayerWeights(m, l)[r]
        BY ONLY <3>m, <4>1 DEF WeightsIn
      <4>3. \A r \in 1 .. l.biasRows : biasBank[l.biasStart + r] = PackLayerBiases(m)[r]
        BY ONLY <3>m, <4>1 DEF BiasesIn
      <4>4. \A i \in 1 .. Len(weightBank) : weightBank'[i] = weightBank[i]
        BY <1>6
      <4>5. \A i \in 1 .. Len(biasBank) : biasBank'[i] = biasBank[i]
        BY <1>7
      <4> QED BY ONLY <3>4, <4>2, <4>3, <4>4, <4>5
    <3>6. WeightEnd(j) <= Len(weightBank') /\ BiasEnd(j) <= Len(biasBank')
      BY <3>3, <3>4
    <3> QED BY <1>1, <1>8, <3>m, <3>5, <3>6 DEF WeightsIn, BiasesIn
  <2>2. CASE j = p + 1
    <3>1. WeightEnd(j) = Len(weightBank') /\ BiasEnd(j) = Len(biasBank')
      BY <1>11, <2>2
    <3>2. /\ \A r \in 1 .. ls.weightRows : weightBank'[ls.weightStart + r] = R[r]
          /\ \A r \in 1 .. ls.biasRows : biasBank'[ls.biasStart + r] = S[r]
      BY <1>5, <1>6, <1>7, <1>9
    <3>3. Len(weightBank') \in Nat /\ Len(biasBank') \in Nat
      BY <1>5, <1>6, <1>7
    <3> QED BY <1>1, <1>8, <1>n, <1>R, <1>S, <2>2, <3>1, <3>2, <3>3 DEF WeightsIn, BiasesIn
  <2> QED BY <1>2, <2>1, <2>2
<1>13. PICK q : q = p + 1
  OBVIOUS
<1>14. Filled(q)'
  BY <1>1, <1>8, <1>10, <1>11, <1>12, <1>13 DEF Filled
<1>15. SchedInv'
  BY <1>1, SchedRests
<1> QED BY <1>1, <1>2, <1>6, <1>7, <1>13, <1>14, <1>15 DEF PackInv

LEMMA PackInvStarts == PackInit => PackInv
<1> SUFFICES ASSUME PackInit PROVE PackInv
  OBVIOUS
<1>1. SchedInv /\ plan = <<>> /\ weightBank = <<>> /\ biasBank = <<>>
  BY PackStarts DEF PackInit, SchedInit
<1>2. DOMAIN biasBank = {} /\ Len(weightBank) = 0 /\ Len(biasBank) = 0 /\ Len(plan) = 0
  BY <1>1
<1>3. PackedNodes = {}
  BY <1>2 DEF PackedNodes
<1>4. Filled(0)
  BY <1>2, <1>3 DEF Filled, WeightEnd, BiasEnd
<1>5. weightBank \in Seq(WeightRow) /\ biasBank \in Seq(BiasRow) /\ 0 \in 0 .. Len(plan)
  BY <1>1, <1>2
<1> QED BY <1>1, <1>4, <1>5 DEF PackInv

LEMMA PackInvKeeps ==
  ASSUME PackInv, LinearInv, [PackNext]_packVars
  PROVE  PackInv'
<1>0. PICK p \in 0 .. Len(plan) : Filled(p) /\ (stage # "scheduled" => p = 0)
  BY DEF PackInv
<1>1. SchedInv /\ SchedInv'
  BY PackSteps, SchedSteps DEF PackInv
<1>2. CASE Packing
  BY <1>2, PackingKeeps
<1>3. CASE UNCHANGED packVars
  <2>1. UNCHANGED <<ins, width, order, plan, weightBank, biasBank, stage>>
    BY <1>3 DEF packVars, schedVars, kahnVars, vars, graphVars, planVars
  <2>2. Filled(p)'
    BY <1>0, <2>1, FilledStays
  <2> QED BY <1>0, <1>1, <2>1, <2>2 DEF PackInv
<1>4. CASE Scheduling
  <2>1. stage # "scheduled"
    <3>1. ASSUME stage = "scheduled" PROVE FALSE
      <4>1. Len(layers) = NumNodes /\ NumNodes \in Nat \ {0} /\ status = "ORDERED"
        BY <1>1, <3>1, GraphAssumption DEF SchedInv
      <4> QED BY <1>4, <3>1, <4>1 DEF Scheduling, SchedNext, Ordering, Pop, Finish, Placing,
                                      Budgeting
    <3> QED BY <3>1
  <2>2. p = 0 /\ UNCHANGED <<weightBank, biasBank>>
    BY <1>0, <1>4, <2>1 DEF Scheduling
  <2>3. /\ PackedNodes = {order[j] : j \in 1 .. 0} /\ Len(weightBank) = 0 /\ Len(biasBank) = 0
    BY <1>0, <2>2 DEF Filled, WeightEnd, BiasEnd
  <2>4. PackedNodes' = {} /\ 1 .. 0 = {}
    BY <2>2, <2>3 DEF PackedNodes
  <2>5. Filled(0)'
    BY <2>2, <2>3, <2>4 DEF Filled, WeightEnd, BiasEnd
  <2>6. Len(plan') \in Nat
    BY <1>1, LenProperties DEF SchedInv
  <2> QED BY <1>1, <2>2, <2>5, <2>6 DEF PackInv
<1> QED BY <1>2, <1>3, <1>4 DEF PackNext

(* The row and the column of a bias, as the hardware computes them, are those   *)
(* of a vector cut into rows.                                               *)
InVector(B, M, tiles, par, k, lane) ==
  /\ k * (M \div B) + lane \div B + 1 \in 1 .. Ceil(tiles * par, B)
  /\ lane % B \in 0 .. B - 1
  /\ (k * (M \div B) + lane \div B) * B + (lane % B) = k * par + lane
  /\ k * par + lane < tiles * par /\ k * par + lane \in Nat
  /\ k * M + lane = k * par + lane

LEMMA BiasAddress ==
  ASSUME NEW B \in Nat \ {0}, NEW M \in Nat \ {0}, M % B = 0, NEW tiles \in Nat \ {0},
         NEW par \in 1 .. M, tiles = 1 \/ par = M,
         NEW k \in 0 .. tiles - 1, NEW lane \in 0 .. par - 1
  PROVE  InVector(B, M, tiles, par, k, lane)
<1> DEFINE L == lane \div B
           r == lane % B
           m == M \div B
           o == k * par + lane
<1>1. L \in Nat /\ r \in 0 .. B - 1 /\ lane = L * B + r
  <2>1. lane \in Nat
    OBVIOUS
  <2> QED BY ONLY <2>1, B \in Nat \ {0}, Remainder
<1>2. m \in Nat /\ M = m * B
  <2>1. M = m * B + (M % B) /\ m \in Nat
    BY Remainder
  <2> HIDE DEF m
  <2> QED BY <2>1
<1>3. k * par = k * M
  <2>1. CASE tiles = 1
    BY <2>1
  <2>2. CASE par = M
    BY <2>2
  <2> QED BY <2>1, <2>2
<1> HIDE DEF L, r, m
<1>4. k * M = (k * m) * B /\ k * m \in Nat
  BY <1>2
<1>5. (k * m + L) * B + r = k * par + lane /\ k * m + L \in Nat
  <2> DEFINE u == k * m
  <2>1. u \in Nat /\ k * M = u * B
    BY <1>4
  <2> HIDE DEF u
  <2>2. (u + L) * B = u * B + L * B
    BY <1>1, <2>1
  <2>3. (u + L) * B + r = k * par + lane
    <3>1. u * B \in Nat /\ L * B \in Nat
      BY <1>1, <2>1
    <3> QED BY <1>1, <1>3, <2>1, <2>2, <3>1
  <2>4. u + L \in Nat
    BY <1>1, <2>1
  <2> QED BY <2>3, <2>4 DEF u
<1>6. k * par + par <= tiles * par /\ k * par \in Nat /\ tiles * par \in Nat \ {0}
  BY Rows
<1>7. o \in Nat /\ o < tiles * par
  BY <1>6
<1>8. k * m + L < Ceil(tiles * par, B)
  <2>1. (k * m + L) * B + r < tiles * par
    BY <1>5, <1>7
  <2> DEFINE a == tiles * par
             q == k * m + L
  <2>2. a \in Nat \ {0} /\ q \in Nat /\ q * B + r < a
    BY <1>5, <1>6, <2>1
  <2> HIDE DEF a, q
  <2>3. q < Ceil(a, B)
    BY <1>1, <2>2, CeilCovers
  <2> QED BY <2>3 DEF a, q
<1>9. Ceil(tiles * par, B) \in Nat
  BY <1>6, CeilCovers
<1>10. k * m + L + 1 \in 1 .. Ceil(tiles * par, B)
  BY <1>5, <1>8, <1>9
<1>11. k * M + lane = k * par + lane
  BY <1>3
<1> QED BY <1>1, <1>5, <1>7, <1>10, <1>11 DEF L, r, m, InVector

(* The generator's 128 lanes are a whole number of its rows of 32 biases.      *)
LEMMA Addressed ==
  ASSUME MaxParallelism % BiasesPerRow = 0, PackInv, Packed = NumNodes,
         NEW i \in DOMAIN plan, UsesAllLanes(plan[i])
  PROVE  LayerIsAddressed(i)
<1>0. PICK p \in 0 .. Len(plan) : Filled(p)
  BY DEF PackInv
<1>1. /\ SchedInv /\ weightBank \in Seq(WeightRow) /\ biasBank \in Seq(BiasRow)
      /\ i \in 1 .. Len(plan) /\ p = Len(plan)
  <2>1. Packed = p /\ Len(plan) \in 0 .. NumNodes /\ NumNodes \in Nat
    BY <1>0, PackedCount, GraphAssumption DEF PackInv
  <2> QED BY <2>1, LenProperties DEF PackInv, SchedInv
<1>n. PICK n, ls : n = order[i] /\ ls = plan[i]
  OBVIOUS
<1>2. /\ n \in Nodes /\ InputDim(n) \in Nat \ {0} /\ OutputDim(n) \in Nat \ {0}
      /\ ls.parallelism \in 1 .. MaxParallelism /\ ls.tiles \in Nat \ {0}
      /\ OutputDim(n) = ls.tiles * ls.parallelism
      /\ ls.weightRows = ls.tiles * InputDim(n)
      /\ ls.biasRows = Ceil(OutputDim(n), BiasesPerRow) /\ ls.biasRows \in Nat \ {0}
      /\ {ls.weightStart, ls.weightRows, ls.biasStart} \subseteq Nat
  <2>1. PICK m \in 1 .. Len(plan) : n = order[m] /\ ls = plan[m]
    BY <1>1, <1>n
  <2>2. /\ n \in Nodes /\ InputDim(n) \in Nat \ {0} /\ OutputDim(n) \in Nat \ {0}
        /\ ls.parallelism \in 1 .. MaxParallelism /\ ls.tiles \in Nat \ {0}
    BY ONLY <1>1, <2>1, LayerShape
  <2>3. OutputDim(n) = ls.tiles * ls.parallelism /\ ls.weightRows = ls.tiles * InputDim(n)
    BY ONLY <1>1, <2>1, LayerShape
  <2>4. ls.biasRows = Ceil(OutputDim(n), BiasesPerRow) /\ ls.biasRows \in Nat \ {0}
    BY ONLY <1>1, <2>1, LayerShape, SMTT(30)
  <2>5. ls.weightStart \in Nat /\ ls.weightRows \in Nat /\ ls.biasStart \in Nat
    BY ONLY <1>1, <2>1, LayerShape
  <2> QED BY <2>2, <2>3, <2>4, <2>5
<1>3. BiasesPerRow \in Nat \ {0} /\ MaxParallelism \in Nat \ {0}
  BY LayoutAssumption
<1>4. /\ \A r \in 1 .. ls.weightRows : weightBank[ls.weightStart + r] = PackLayerWeights(n, ls)[r]
      /\ \A r \in 1 .. ls.biasRows : biasBank[ls.biasStart + r] = PackLayerBiases(n)[r]
  BY <1>0, <1>1, <1>n DEF Filled, WeightsIn, BiasesIn
<1>5. ASSUME NEW k \in 0 .. ls.tiles - 1, NEW lane \in 0 .. ls.parallelism - 1
      PROVE  /\ \A input \in 0 .. InputDim(n) - 1 :
                  WeightRead(ls, InputDim(n), k, input)[lane] = <<n, input, k * ls.parallelism + lane>>
             /\ BiasRead(ls, k, lane) = <<n, k * ls.parallelism + lane>>
             /\ WrittenTo(k, lane) = k * ls.parallelism + lane
  <2>0. ls.tiles = 1 \/ ls.parallelism = MaxParallelism
    BY <1>n DEF UsesAllLanes
  <2>p. PICK par, tiles, start : par = ls.parallelism /\ tiles = ls.tiles /\ start = ls.weightStart
    OBVIOUS
  <2>t. /\ par \in 1 .. MaxParallelism /\ tiles \in Nat \ {0} /\ start \in Nat
        /\ k \in 0 .. tiles - 1 /\ lane \in 0 .. par - 1
        /\ (tiles = 1 \/ par = MaxParallelism)
        /\ OutputDim(n) = tiles * par /\ ls.biasRows = Ceil(tiles * par, BiasesPerRow)
    BY <1>2, <2>0, <2>p
  <2>l. lane \in Nat /\ k \in Nat /\ lane \in 0 .. MaxParallelism - 1 /\ lane < par
    <3>1. par \in Nat /\ tiles \in Nat /\ par <= MaxParallelism
      BY <1>3, <2>t
    <3>2. lane \in Nat /\ lane < par /\ k \in Nat
      BY <2>t, <3>1
    <3> QED BY <1>3, <3>1, <3>2
  <2>1. ASSUME NEW input \in 0 .. InputDim(n) - 1
        PROVE  WeightRead(ls, InputDim(n), k, input)[lane] = <<n, input, k * ls.parallelism + lane>>
    <3> DEFINE I == InputDim(n)
    <3>i. PICK r : r = k * I + input + 1
      OBVIOUS
    <3>1. r \in 1 .. ls.weightRows /\ r - 1 = k * I + input
      <4>1. k * I \in Nat /\ ls.tiles * I \in Nat /\ k * I + I <= ls.tiles * I
        BY <1>2, Rows
      <4> HIDE DEF I
      <4>2. input \in 0 .. I - 1 /\ I \in Nat /\ ls.weightRows = ls.tiles * I
        BY <1>2 DEF I
      <4> QED BY <3>i, <4>1, <4>2
    <3>2. (k * I + input) \div I = k /\ (k * I + input) % I = input
      <4>1. I \in Nat \ {0} /\ k \in Nat /\ input \in 0 .. I - 1
        BY <1>2
      <4> HIDE DEF I
      <4> QED BY ONLY <4>1, Quotient
    <3>3. lane \in Lanes /\ lane < ls.parallelism
      BY <2>p, <2>l DEF Lanes
    <3>4. PackLayerWeights(n, ls)[r][lane] = <<n, input, k * ls.parallelism + lane>>
      <4>1. r \in 1 .. ls.tiles * InputDim(n)
        BY <1>2, <3>1
      <4>2. PackLayerWeights(n, ls)[r] =
              [l \in Lanes |-> IF l < ls.parallelism
                 THEN <<n, (r - 1) % I, ((r - 1) \div I) * ls.parallelism + l>> ELSE Padding]
        BY <4>1 DEF PackLayerWeights
      <4>3. (r - 1) \div I = k /\ (r - 1) % I = input
        BY ONLY <3>1, <3>2
      <4>t. r - 1 \in Nat /\ I \in Nat \ {0} /\ k \in Nat /\ input \in Nat /\ ls.parallelism \in Nat
        <5>0. ls.weightRows \in Nat /\ InputDim(n) \in Nat \ {0}
          BY <1>2
        <5>1. ls.weightRows \in Nat /\ InputDim(n) \in Nat \ {0} /\ ls.parallelism \in Nat
          BY ONLY <1>3, <2>p, <2>t, <5>0
        <5>2. k \in Nat
          BY <2>l
        <5>3. r - 1 \in Nat
          BY ONLY <3>1, <5>1
        <5>4. input \in Nat
          BY ONLY <5>1, input \in 0 .. InputDim(n) - 1
        <5> QED BY ONLY <5>1, <5>2, <5>3, <5>4
      <4> HIDE DEF I
      <4>4. PackLayerWeights(n, ls)[r][lane] =
              <<n, (r - 1) % I, ((r - 1) \div I) * ls.parallelism + lane>>
        BY ONLY <3>3, <4>2
      <4>5. ((r - 1) \div I) * ls.parallelism + lane = k * ls.parallelism + lane
        BY ONLY <4>t, <4>3
      <4> QED BY ONLY <4>3, <4>4, <4>5
    <3>5. WeightRead(ls, I, k, input) = weightBank[ls.weightStart + r]
      <4>1. k * I \in Nat
        <5>1. InputDim(n) \in Nat /\ k \in Nat
          BY <1>2, <2>l
        <5> QED BY ONLY <5>1
      <4>3. input \in Nat
        <5>1. InputDim(n) \in Nat
          BY <1>2
        <5> QED BY ONLY <5>1, input \in 0 .. InputDim(n) - 1
      <4> HIDE DEF I
      <4>2. ls.weightStart + k * I + input + 1 = ls.weightStart + r
        <5>1. start + k * I + input + 1 = start + r
          BY ONLY <2>t, <3>i, <4>1, <4>3
        <5> QED BY <2>p, <5>1
      <4> QED BY <4>2 DEF WeightRead
    <3> QED BY <1>4, <3>1, <3>4, <3>5
  <2>2. /\ k * (MaxParallelism \div BiasesPerRow) + lane \div BiasesPerRow + 1 \in 1 .. ls.biasRows
        /\ lane % BiasesPerRow \in 0 .. BiasesPerRow - 1
        /\ (k * (MaxParallelism \div BiasesPerRow) + lane \div BiasesPerRow) * BiasesPerRow
             + (lane % BiasesPerRow) = k * ls.parallelism + lane
        /\ k * ls.parallelism + lane < OutputDim(n)
        /\ k * MaxParallelism + lane = k * ls.parallelism + lane
    <3>1. MaxParallelism % BiasesPerRow = 0
      OBVIOUS
    <3>2. /\ k * (MaxParallelism \div BiasesPerRow) + lane \div BiasesPerRow + 1
               \in 1 .. Ceil(tiles * par, BiasesPerRow)
          /\ lane % BiasesPerRow \in 0 .. BiasesPerRow - 1
          /\ (k * (MaxParallelism \div BiasesPerRow) + lane \div BiasesPerRow) * BiasesPerRow
               + (lane % BiasesPerRow) = k * par + lane
          /\ k * par + lane < tiles * par
          /\ k * MaxParallelism + lane = k * par + lane
      <4>1. InVector(BiasesPerRow, MaxParallelism, tiles, par, k, lane)
        BY ONLY <1>3, <2>t, <3>1, BiasAddress
      <4> QED BY <4>1 DEF InVector
    <3> QED BY <2>p, <2>t, <3>2
  <2>3. BiasRead(ls, k, lane) = <<n, k * ls.parallelism + lane>>
    <3> DEFINE q == k * (MaxParallelism \div BiasesPerRow) + lane \div BiasesPerRow
               c == lane % BiasesPerRow
    <3>1. q + 1 \in 1 .. ls.biasRows /\ q * BiasesPerRow + c = k * ls.parallelism + lane
      BY <2>2
    <3>2. q \in Nat
      <4>1. lane \in Nat /\ k \in Nat
        OBVIOUS
      <4>2. lane \div BiasesPerRow \in Nat /\ MaxParallelism \div BiasesPerRow \in Nat
        BY <1>3, <4>1, Remainder
      <4> QED BY <4>1, <4>2
    <3>3. c \in 0 .. BiasesPerRow - 1 /\ q * BiasesPerRow + c < OutputDim(n)
      BY <2>2
    <3>4. BiasRead(ls, k, lane) = biasBank[ls.biasStart + (q + 1)][c]
      <4>1. BiasRead(ls, k, lane) = biasBank[ls.biasStart + k * (MaxParallelism \div BiasesPerRow)
                                               + lane \div BiasesPerRow + 1][c]
        BY DEF BiasRead
      <4>2. lane \div BiasesPerRow \in Nat /\ k * (MaxParallelism \div BiasesPerRow) \in Nat
        <5>1. lane \in Nat /\ k \in Nat
          OBVIOUS
        <5>2. lane \div BiasesPerRow \in Nat /\ MaxParallelism \div BiasesPerRow \in Nat
          BY <1>3, <5>1, Remainder
        <5> QED BY <5>1, <5>2
      <4>3. ls.biasStart + k * (MaxParallelism \div BiasesPerRow) + lane \div BiasesPerRow + 1
              = ls.biasStart + (q + 1)
        <5> DEFINE L == lane \div BiasesPerRow
                   K == k * (MaxParallelism \div BiasesPerRow)
        <5>1. L \in Nat /\ K \in Nat /\ ls.biasStart \in Nat
          BY <1>2, <4>2
        <5> HIDE DEF L, K
        <5>2. ls.biasStart + K + L + 1 = ls.biasStart + ((K + L) + 1)
          BY ONLY <5>1
        <5> QED BY <5>2 DEF L, K
      <4> QED BY <4>1, <4>3 DEF q
    <3> HIDE DEF q, c
    <3>5. PackLayerBiases(n)[q + 1][c] = <<n, q * BiasesPerRow + c>>
      <4>1. q + 1 \in 1 .. Ceil(OutputDim(n), BiasesPerRow) /\ (q + 1) - 1 = q
        BY <1>2, <3>1, <3>2
      <4>2. PackLayerBiases(n)[q + 1] =
              [j \in 0 .. BiasesPerRow - 1 |->
                 IF ((q + 1) - 1) * BiasesPerRow + j < OutputDim(n)
                 THEN <<n, ((q + 1) - 1) * BiasesPerRow + j>> ELSE Padding]
        BY <4>1 DEF PackLayerBiases
      <4> QED BY <3>3, <4>1, <4>2
    <3> QED BY <1>4, <3>1, <3>4, <3>5
  <2>4. WrittenTo(k, lane) = k * ls.parallelism + lane
    BY <2>2 DEF WrittenTo
  <2> QED BY <2>1, <2>3, <2>4
<1> QED BY <1>n, <1>5 DEF LayerIsAddressed

(* For every graph and all dimensions that layers may have: where a row of      *)
(* biases divides the lanes, as 32 divides 128, each lane of a layer of one       *)
(* tile, or of tiles that use all lanes, finds its weights and its bias where     *)
(* the scheduler, the packer and the hardware each compute it to be.            *)
THEOREM OperandsInPlace ==
  ASSUME MaxParallelism % BiasesPerRow = 0
  PROVE  PackSpec => []OperandsAreWhereRead
<1>1. PackInv => OperandsAreWhereRead
  BY Addressed DEF OperandsAreWhereRead
<1>2. PackInit => PackInv /\ LinearInv
  BY PackInvStarts, PackStarts
<1>3. PackInv /\ LinearInv /\ [PackNext]_packVars => PackInv' /\ LinearInv'
  BY PackInvKeeps, PackSteps, SchedSteps, NextLinear DEF PackInv
<1> QED BY <1>1, <1>2, <1>3, PTL DEF PackSpec

(* What was shown for every order that respects the data flow holds in the       *)
(* scheduler's.                                                             *)
COROLLARY SchedulerKeeps ==
  PackSpec => []RefusesOnlyWhenFull /\ (~InnerOutputs => []NothingLiveIsLost)
<1>1. SchedInv /\ LinearInv /\ ChainInv /\ [PackNext]_packVars
        => SchedInv' /\ LinearInv' /\ ChainInv' /\ [Next]_vars
  BY PackKeeps
<1>2. PackSpec => Spec
  BY <1>1, PackStarts, PTL DEF PackSpec, Spec
<1>3. CASE InnerOutputs
  BY <1>2, <1>3, RefusalsAreNeeded, PTL
<1>4. CASE ~InnerOutputs
  <2>1. Spec => []NothingLiveIsLost
    BY <1>4, NothingLost
  <2> QED BY <1>2, <2>1, RefusalsAreNeeded, PTL
<1> QED BY <1>3, <1>4
===============================================================================
