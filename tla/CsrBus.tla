-------------------------------- MODULE CsrBus --------------------------------
(***************************************************************************)
(* What the control/status register block promises the processor, without   *)
(* its handshake registers: an address and a word that were accepted meet   *)
(* in exactly one commit, the commit writes that word to that register, and *)
(* one response follows before anything else is accepted.                  *)
(*                                                                         *)
(* A word is the set of its bits that are 1.  A pending item is a set with  *)
(* at most one member.                                                     *)
(***************************************************************************)
CONSTANTS
  Words,         (* the words the processor writes and the status inputs carry*)
  Events         (* IRQ_STATUS bits an event can set                        *)

VARIABLES
  addr,          (* accepted write address not yet committed                *)
  data,          (* accepted write data not yet committed                   *)
  resp,          (* a write response is owed                                *)
  file,          (* the writable registers                                  *)
  read           (* read data not yet delivered                             *)

csrVars == <<addr, data, resp, file, read>>

Registers ==
  {"CTRL", "STATUS", "IRQ_EN", "IRQ_STATUS", "CYCLE_COUNT", "INF_COUNT",
   "VERSION", "SCRATCH", "ERROR_CODE", "LAYER_STATUS"}

(* A register file after w is written to register a.  IRQ_STATUS is write-  *)
(* one-to-clear, registers without a field of their own ignore writes.      *)
Write(f, a, w) ==
  [ctrl      |-> IF a = "CTRL" THEN w ELSE f.ctrl,
   irqEn     |-> IF a = "IRQ_EN" THEN w ELSE f.irqEn,
   irqStatus |-> IF a = "IRQ_STATUS" THEN f.irqStatus \ w ELSE f.irqStatus,
   scratch   |-> IF a = "SCRATCH" THEN w ELSE f.scratch]

(* START and SOFT_RST last one step; events may arrive in any step.         *)
Settled(f, e) ==
  [ctrl |-> f.ctrl \ {0, 1}, irqEn |-> f.irqEn,
   irqStatus |-> f.irqStatus \cup e, scratch |-> f.scratch]

(* What a read of register a may return. *)
Values(f, a) ==
  CASE a = "CTRL"       -> {f.ctrl}
    [] a = "IRQ_EN"     -> {f.irqEn}
    [] a = "IRQ_STATUS" -> {f.irqStatus}
    [] a = "SCRATCH"    -> {f.scratch}
    [] OTHER            -> Words

Init ==
  /\ addr = {}
  /\ data = {}
  /\ resp = FALSE
  /\ file = [ctrl |-> {}, irqEn |-> {}, irqStatus |-> {}, scratch |-> {}]
  /\ read = {}

(* Address and data are accepted independently, in either order or at once. *)
Accept ==
  /\ ~resp
  /\ addr' = addr \/ (addr = {} /\ \E a \in Registers : addr' = {a})
  /\ data' = data \/ (data = {} /\ \E w \in Words : data' = {w})
  /\ \E e \in SUBSET Events : file' = Settled(file, e)
  /\ UNCHANGED resp

Commit ==
  /\ ~resp
  /\ \E a \in addr, w \in data, e \in SUBSET Events :
        file' = Write(Settled(file, e), a, w)
  /\ addr' = {}
  /\ data' = {}
  /\ resp' = TRUE

Respond ==
  /\ resp
  /\ resp' \in BOOLEAN
  /\ \E e \in SUBSET Events : file' = Settled(file, e)
  /\ UNCHANGED <<addr, data>>

(* The read channel runs beside the write channel and sees the registers as *)
(* they were before the step.                                              *)
Read ==
  \/ \E a \in Registers : \E v \in Values(file, a) : read' = {v}
  \/ read' = {}
  \/ UNCHANGED read

Next == (Accept \/ Commit \/ Respond) /\ Read

Spec == Init /\ [][Next]_csrVars
===============================================================================
