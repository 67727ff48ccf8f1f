--------------------------- MODULE InferenceService ---------------------------
(***************************************************************************)
(* What the accelerator promises its host: it answers one packet at a time. *)
(* After START it takes the words of the next input packet, and then gives  *)
(* the words of the result of that packet, in order, each offered until it  *)
(* is taken, before it becomes idle again.                                 *)
(***************************************************************************)
EXTENDS Naturals

CONSTANTS
  ActDepth,      (* words of a packet                                       *)
  MaxInferences  (* bound: how often the host starts it                     *)

VARIABLES
  busy,          (* an inference was started and has not ended               *)
  started,       (* inferences started so far                               *)
  taken,         (* words of the input packet taken                         *)
  given,         (* words of the result given                               *)
  offer          (* the word on offer, as <<inference, position>>, or <<>>   *)

isVars == <<busy, started, taken, given, offer>>

Init ==
  /\ busy = FALSE
  /\ started = 0
  /\ taken = 0
  /\ given = 0
  /\ offer = <<>>

Start ==
  /\ ~busy /\ started < MaxInferences
  /\ busy' = TRUE
  /\ started' = started + 1
  /\ taken' = 0
  /\ given' = 0
  /\ UNCHANGED offer

Take ==
  /\ busy /\ taken < ActDepth
  /\ taken' = taken + 1
  /\ UNCHANGED <<busy, started, given, offer>>

(* A word is offered only when the whole packet was taken. *)
Offer ==
  /\ busy /\ taken = ActDepth /\ given < ActDepth /\ offer = <<>>
  /\ offer' = <<started, given>>
  /\ UNCHANGED <<busy, started, taken, given>>

Give ==
  /\ offer # <<>>
  /\ offer' = <<>>
  /\ given' = given + 1
  /\ UNCHANGED <<busy, started, taken>>

Finish ==
  /\ busy /\ given = ActDepth
  /\ busy' = FALSE
  /\ UNCHANGED <<started, taken, given, offer>>

Next == Start \/ Take \/ Offer \/ Give \/ Finish

Spec == Init /\ [][Next]_isVars
===============================================================================
