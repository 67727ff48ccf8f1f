----------------------------- MODULE AxiLiteCtrl ------------------------------
(***************************************************************************)
(* The CSR block (rtl/interface/axi_lite_ctrl.sv) and the processor's end   *)
(* of the AXI-Lite bus.  One step is one clock edge: every register of the  *)
(* block is updated from the values before the edge, and the processor may  *)
(* move its own lines as AXI allows (a raised valid stays up, its payload   *)
(* unchanged, until the handshake).                                        *)
(*                                                                         *)
(* A word is the set of its bits that are 1.                               *)
(***************************************************************************)
CONSTANTS
  Words,         (* the words on the bus and on the status inputs            *)
  WriteAddrs,    (* registers the processor writes                          *)
  ReadAddrs,     (* registers the processor reads                           *)
  Events,        (* IRQ_STATUS bits with an event input: 0 done, 1 error     *)
  HoldData       (* whether the processor leaves the data of an accepted     *)
                 (* write on the bus until the write is answered            *)

Registers ==
  {"CTRL", "STATUS", "IRQ_EN", "IRQ_STATUS", "CYCLE_COUNT", "INF_COUNT",
   "VERSION", "SCRATCH", "ERROR_CODE", "LAYER_STATUS"}

ASSUME CsrAssumption ==
  /\ {} \in Words
  /\ WriteAddrs \subseteq Registers
  /\ WriteAddrs # {}
  /\ ReadAddrs \subseteq Registers
  /\ ReadAddrs # {}
  /\ Events \subseteq {0, 1}
  /\ HoldData \in BOOLEAN

VARIABLES
  (* write channel registers *)
  awReady, wReady, bvalid, wrValid, wrAddr,
  (* register file *)
  regCtrl, regIrqEn, regIrqStatus, regScratch,
  (* read channel registers *)
  rvalid, rdata,
  (* lines the processor drives; bready and rready are chosen in each step   *)
  awvalid, awaddr, wvalid, wdata, arvalid, araddr,
  (* event inputs, registers of the block that drives them                  *)
  irqIn,
  (* history: the word on the bus when the write data was last accepted      *)
  wTaken

fsmVars == <<awReady, wReady, bvalid, wrValid, wrAddr>>
regVars == <<regCtrl, regIrqEn, regIrqStatus, regScratch>>
busVars == <<awvalid, awaddr, wvalid, wdata, arvalid, araddr>>
axiVars == <<fsmVars, regVars, rvalid, rdata, busVars, irqIn, wTaken>>

AxiTypeOK ==
  /\ {awReady, wReady, bvalid, wrValid, rvalid} \subseteq BOOLEAN
  /\ {awvalid, wvalid, arvalid} \subseteq BOOLEAN
  /\ wrAddr \in Registers
  /\ awaddr \in WriteAddrs
  /\ araddr \in ReadAddrs
  /\ {wdata, wTaken} \subseteq Words
  /\ irqIn \subseteq Events
  /\ regIrqStatus \subseteq Events
  /\ {regIrqEn, regScratch} \subseteq Words
  /\ regCtrl \in Words \cup {w \ {0, 1} : w \in Words}

(* Reset; the processor's lines are idle but their payload is arbitrary.    *)
AxiInit ==
  /\ awReady = TRUE
  /\ wReady = TRUE
  /\ bvalid = FALSE
  /\ wrValid = FALSE
  /\ wrAddr = "CTRL"
  /\ regCtrl = {}
  /\ regIrqEn = {}
  /\ regIrqStatus = {}
  /\ regScratch = {}
  /\ rvalid = FALSE
  /\ rdata = {}
  /\ awvalid = FALSE /\ awaddr \in WriteAddrs
  /\ wvalid = FALSE /\ wdata \in Words
  /\ arvalid = FALSE /\ araddr \in ReadAddrs
  /\ irqIn = {}
  /\ wTaken = {}

(* Handshakes on the five channels and the commit of a write. *)
AwTaken == awvalid /\ awReady
WTaken  == wvalid /\ wReady

(* Mutant: the write does not wait for its address. *)
CommitsEarly == wrValid /\ ~wReady
Commits == wrValid /\ ~awReady /\ ~wReady

(* Mutants: bready alone, or bready before bvalid, ends a write. *)
AnsweredByReady(bready) == bready
AnsweredTooSoon(bready) == bready /\ ~bvalid
Answered(bready) == bvalid /\ bready

ArReady(rready) == ~rvalid \/ rready

(* Write channel FSM.  Where two branches assign the same register the      *)
(* later one in the text wins, as in the always_ff block.                  *)
WriteFsm(bready) ==
  /\ wrAddr' = IF AwTaken THEN awaddr ELSE wrAddr
  /\ awReady' = (Answered(bready) \/ (awReady /\ ~AwTaken))
  /\ wReady' = (Answered(bready) \/ (wReady /\ ~WTaken))
  /\ wrValid' = (~Commits /\ (WTaken \/ wrValid))
  /\ bvalid' = (~Answered(bready) /\ (Commits \/ bvalid))

(* Mutant: only SOFT_RST clears itself. *)
HalfCleared(c) == c \ {1}
SelfCleared(c) == c \ {0, 1}

NotCleared(w) == regIrqStatus \ w

(* Register write logic.  The word written is the one on the bus at the     *)
(* commit; a write to IRQ_STATUS overrides the events of the same edge.     *)
RegisterWrites ==
  LET writes(a) == Commits /\ wrAddr = a IN
  /\ regCtrl' = IF writes("CTRL") THEN wdata ELSE SelfCleared(regCtrl)
  /\ regIrqEn' = IF writes("IRQ_EN") THEN wdata ELSE regIrqEn
  /\ regIrqStatus' = IF writes("IRQ_STATUS") THEN NotCleared(wdata)
                     ELSE regIrqStatus \cup irqIn
  /\ regScratch' = IF writes("SCRATCH") THEN wdata ELSE regScratch

(* What a read of a returns; the read-only registers show their inputs.     *)
ReadValues(a) ==
  CASE a = "CTRL"       -> {regCtrl}
    [] a = "IRQ_EN"     -> {regIrqEn}
    [] a = "IRQ_STATUS" -> {regIrqStatus}
    [] a = "SCRATCH"    -> {regScratch}
    [] OTHER            -> Words

ReadChannel(rready) ==
  IF arvalid /\ ArReady(rready)
  THEN rvalid' = TRUE /\ rdata' \in ReadValues(araddr)
  ELSE rvalid' = (rvalid /\ ~rready) /\ UNCHANGED rdata

(* The processor's lines.  Nothing moves between raising a valid and its    *)
(* handshake, and a payload only changes with its valid raised, for nothing *)
(* looks at it otherwise; the exception is the write data, which a          *)
(* processor without HoldData may change once they are accepted.            *)
Processor(bready, rready) ==
  /\ IF awvalid /\ ~awReady
     THEN UNCHANGED <<awvalid, awaddr>>
     ELSE /\ awvalid' \in BOOLEAN
          /\ awaddr' \in IF awvalid' THEN WriteAddrs ELSE {awaddr}
  /\ IF wvalid /\ ~wReady
     THEN UNCHANGED <<wvalid, wdata>>
     ELSE IF HoldData /\ (WTaken \/ (~wReady /\ ~Answered(bready)))
     THEN wvalid' = FALSE /\ UNCHANGED wdata
     ELSE /\ wvalid' \in BOOLEAN
          /\ wdata' \in IF wvalid' \/ ~HoldData THEN Words ELSE {wdata}
  /\ IF arvalid /\ ~ArReady(rready)
     THEN UNCHANGED <<arvalid, araddr>>
     ELSE /\ arvalid' \in BOOLEAN
          /\ araddr' \in IF arvalid' THEN ReadAddrs ELSE {araddr}

(* One clock edge. *)
Edge(bready, rready) ==
  /\ WriteFsm(bready)
  /\ RegisterWrites
  /\ ReadChannel(rready)
  /\ Processor(bready, rready)
  /\ irqIn' \in SUBSET Events
  /\ wTaken' = IF WTaken THEN wdata ELSE wTaken

AxiNext == \E bready, rready \in BOOLEAN : Edge(bready, rready)

AxiSpec == AxiInit /\ [][AxiNext]_axiVars

(* The clock never stops, and the processor does not refuse responses for   *)
(* ever: infinitely many edges find bready and rready high.                 *)
AxiFairSpec == AxiSpec /\ WF_axiVars(Edge(TRUE, TRUE))

-------------------------------------------------------------------------------
(* Between reset and reset at most one write is in flight, and its stage    *)
(* can be read off the handshake registers: either its response is owed     *)
(* and both channels are closed, or the data channel is closed exactly      *)
(* while a word waits for its address.  (The write channel FSM has no state *)
(* register; this is what its five flags have to agree on.)                 *)
OneWriteInFlight ==
  IF bvalid THEN ~awReady /\ ~wReady /\ ~wrValid ELSE wrValid = ~wReady

(* A processor that holds its data has the accepted word on the bus as long *)
(* as it waits to be committed: the register write logic reads the live bus.*)
DataHeld ==
  HoldData => /\ wrValid => wdata = wTaken
              /\ ~wReady => ~wvalid

(* Every accepted address and word meet in one commit of that word to that  *)
(* register, followed by one response: the block implements CsrBus.         *)
Csr == INSTANCE CsrBus WITH
  addr <- IF ~awReady /\ ~bvalid THEN {wrAddr} ELSE {},
  data <- IF wrValid THEN {wTaken} ELSE {},
  resp <- bvalid,
  file <- [ctrl |-> regCtrl, irqEn |-> regIrqEn,
           irqStatus |-> regIrqStatus, scratch |-> regScratch],
  read <- IF rvalid THEN {rdata} ELSE {}

ImplementsCsrBus == Csr!Spec

(* START is a pulse of one clock: the top-level FSM may sample it in every  *)
(* cycle without starting twice for one write, even when writes to CTRL     *)
(* follow each other as fast as the handshake allows.                       *)
StartIsAPulse == [][0 \in regCtrl => 0 \notin regCtrl']_axiVars

(* A write whose address and data the processor offers is committed.        *)
WriteIsCommitted == (awvalid /\ wvalid) ~> Commits
===============================================================================
