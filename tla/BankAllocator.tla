----------------------------- MODULE BankAllocator ----------------------------
(***************************************************************************)
(* BankAllocator (src/mlasic/scheduler.py): it places the activation of each *)
(* node in one of the two banks as the schedule walks the nodes, and frees a *)
(* bank when the tensor in it was read as often as the graph reads it.       *)
(*                                                                         *)
(* Here the nodes come in any order that respects the data flow; the        *)
(* scheduler's own order is KahnOrder's (LinearScheduler composes the two).  *)
(***************************************************************************)
EXTENDS GraphIR, Sequences

VARIABLES
  state,         (* bank -> its tensor and remaining_uses                   *)
  layers,        (* layer_schedules: node, act_in_bank and act_out_bank       *)
  refused,       (* the node BankConflict was raised for                    *)
  memory         (* history: the tensor last written to each bank           *)

allocVars == <<state, layers, refused, memory>>
vars == <<graphVars, allocVars>>

Banks == {"A", "B"}
Other(b) == IF b = "A" THEN "B" ELSE "A"
Held(t, u) == [tensor |-> t, uses |-> u]
Free == Held(None, 0)
StagedInput == NumNodes + 1

Scheduled == {layers[i].node : i \in DOMAIN layers}

(* _count_consumers, with the default that assign and __init__ give .get.   *)
UsesOf(t) == IF Reads(t) = {} THEN 1 ELSE Cardinality(Reads(t))

(* The first graph input is staged into bank A. *)
AllocInit ==
  /\ state = [b \in Banks |-> IF b = "A" THEN Held(StagedInput, UsesOf(StagedInput))
                              ELSE Free]
  /\ layers = <<>>
  /\ refused = None
  /\ memory = [b \in Banks |-> IF b = "A" THEN StagedInput ELSE None]

Init == GraphInit /\ AllocInit

(* The bank with tensor t, if any; A is looked at first. *)
FindBank(t) ==
  IF state["A"].tensor = t THEN {"A"} ELSE IF state["B"].tensor = t THEN {"B"} ELSE {}

(* Mutants: a bank is freed with a use left; its uses are not counted down.   *)
FreedEarly(b)  == IF state[b].uses <= 2 THEN Free
                  ELSE Held(state[b].tensor, state[b].uses - 1)
NeverFreed(b)  == state[b]
Consumed(b)    == IF state[b].uses <= 1 THEN Free
                  ELSE Held(state[b].tensor, state[b].uses - 1)

AfterRead(b) == [state EXCEPT ![b] = Consumed(b)]

(* Mutant: the bank just read is preferred. *)
PickReadFirst(s, b) ==
  IF s[b].tensor = None THEN {b}
  ELSE IF s[Other(b)].tensor = None THEN {Other(b)} ELSE {}

(* _pick_free_bank, preferring a bank other than b. *)
PickFree(s, b) ==
  IF s[Other(b)].tensor = None THEN {Other(b)}
  ELSE IF s[b].tensor = None THEN {b} ELSE {}

(* The input is the first activation; further ones are not looked at.       *)
Place(n) ==
  \E b \in FindBank(ins[n][1]) : \E out \in PickFree(AfterRead(b), b) :
    /\ state' = [AfterRead(b) EXCEPT ![out] = Held(n, UsesOf(n))]
    /\ layers' = Append(layers, [node |-> n, in |-> b, out |-> out])
    /\ memory' = [memory EXCEPT ![out] = n]
    /\ UNCHANGED refused

RefuseInput(n) ==
  /\ FindBank(ins[n][1]) = {}
  /\ refused' = n
  /\ UNCHANGED <<state, layers, memory>>

RefuseOutput(n) ==
  \E b \in FindBank(ins[n][1]) :
    /\ PickFree(AfterRead(b), b) = {}
    /\ state' = AfterRead(b)
    /\ refused' = n
    /\ UNCHANGED <<layers, memory>>

Assign(n) ==
  /\ refused = None
  /\ Place(n) \/ RefuseInput(n) \/ RefuseOutput(n)
  /\ UNCHANGED graphVars

(* The data flow allows n to run. *)
Ready(n) ==
  /\ n \notin Scheduled
  /\ \A i \in DOMAIN ins[n] : ins[n][i] \in Inputs \cup Scheduled

Next == \E n \in Nodes : Ready(n) /\ Assign(n)

Spec == Init /\ [][Next]_vars

-------------------------------------------------------------------------------
(* Reads of t by nodes still to come. *)
PendingReads(t) == {r \in Reads(t) : r[1] \notin Scheduled}

Produced == Scheduled \cup {StagedInput}

(* "We refuse to silently overwrite it": a tensor that exists and is still   *)
(* to be read, by a node or by the egress path, is in some bank.            *)
NothingLiveIsLost ==
  \A t \in Produced :
    PendingReads(t) # {} \/ t \in outs => \E b \in Banks : memory[b] = t

AllLinear == \A n \in Nodes : Len(ins[n]) = 1

(* A conflict is raised only for a graph two banks cannot hold, or for an    *)
(* input that nothing stages: for layers with one activation, both banks     *)
(* contain a tensor that must survive the node.                             *)
RefusesOnlyWhenFull ==
  AllLinear /\ refused # None =>
    \/ ins[refused][1] \in Inputs \ {StagedInput}
    \/ \A b \in Banks : \/ memory[b] \in outs
                        \/ \E r \in PendingReads(memory[b]) : r[1] # refused

(* A plain chain of layers, which the generated hardware can run. *)
IsChain == AllLinear /\ Cardinality(outs) = 1 /\ \A t \in Tensors : Cardinality(Reads(t)) <= 1
===============================================================================
