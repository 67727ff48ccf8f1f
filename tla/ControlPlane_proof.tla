-------------------------- MODULE ControlPlane_proof --------------------------
(***************************************************************************)
(* Proofs about the two ends of the control plane, AccelDriver and            *)
(* AxiLiteCtrl.                                                            *)
(*                                                                         *)
(* The driver: for its careful use, any number of inferences, with and        *)
(* without DMA errors and with either wiring of the DMA interrupt.  The       *)
(* inductive invariant follows one inference from the call to the copy: its   *)
(* packet, the result, the completion event and the completion bit are each   *)
(* in one place at a time, and all four have left when the application may    *)
(* call again.                                                             *)
(***************************************************************************)
EXTENDS AccelDriver, AxiLiteCtrl, TLAPS

TypeInv ==
  /\ pc \in {"APP", "ARM", "ENABLE", "START", "SEND", "WAIT_MM2S",
             "WAIT_S2MM", "COPY", "RESET"}
  /\ api \in {"start", "get"}
  /\ acc \in {"IDLE", "RECV", "RUN", "SEND", "ANSWERED"}
  /\ cur \in Nat
  /\ gDone \in BOOLEAN /\ isr \in BOOLEAN
  /\ irqPending \in BOOLEAN /\ torn \in BOOLEAN
  /\ mm2s \in [st : {"IDLE", "BUSY", "HALTED"}, ioc : BOOLEAN, err : BOOLEAN]
  /\ s2mm \in [st : {"IDLE", "ARMED", "FULL", "HALTED"}, inf : Nat, ioc : BOOLEAN,
               err : BOOLEAN, irq : BOOLEAN]

(* The application asks for one inference at a time, with one function.      *)
Asked ==
  /\ asked = cur
  /\ api = "start" => pc \notin {"WAIT_S2MM", "COPY"}
  /\ api = "get" => pc \in {"APP", "WAIT_S2MM", "COPY"}
  /\ pc \in {"ARM", "ENABLE", "START", "SEND", "WAIT_MM2S"} => collected # cur

(* The input packet.  A channel that has failed stays halted, so the streams  *)
(* that a reset has torn never carry another packet.                         *)
Packet ==
  /\ mm2s.st = "BUSY" => acc = "RECV" /\ inBuf = cur /\ ~mm2s.ioc
  /\ mm2s.st = "BUSY" \/ mm2s.ioc => pc = "WAIT_MM2S"
  /\ mm2s.err => pc = "WAIT_MM2S" /\ ~mm2s.ioc
  /\ mm2s.err \/ torn => mm2s.st = "HALTED"
  /\ mm2s.ioc => mm2s.st # "HALTED" /\ acc # "RECV"
  /\ pc \in {"ARM", "ENABLE", "START"} => acc = "IDLE"
  /\ pc = "SEND" => acc = "RECV"
  /\ pc = "WAIT_MM2S" /\ ~mm2s.ioc => acc = "RECV" /\ mm2s.st # "IDLE"
  /\ pc = "RESET" => acc = "RECV" /\ mm2s.st = "HALTED"
  /\ acc = "RECV" => pc \in {"SEND", "WAIT_MM2S", "RESET"}
  /\ acc \in {"RUN", "SEND"} => accInf = cur

(* The completion event: the one clock of STATUS.done, the bit in IRQ_STATUS, *)
(* the flag.                                                               *)
Event ==
  /\ acc = "ANSWERED" => ~irqPending /\ ~gDone /\ answered = cur
  /\ irqPending \/ gDone => acc = "IDLE" /\ answered = cur
  /\ isr => gDone
  /\ gDone => (irqPending <=> isr)
  /\ irqPending => pc \in {"APP", "WAIT_MM2S"}
  /\ gDone => pc \in {"APP", "WAIT_MM2S", "WAIT_S2MM", "COPY"}
  /\ pc \in {"WAIT_S2MM", "COPY"} => gDone

(* The result and its completion bit. *)
Result ==
  /\ s2mm.st = "FULL" => s2mm.inf = cur /\ ~s2mm.ioc
  /\ s2mm.ioc => s2mm.st = "IDLE" /\ outBuf = cur
  /\ s2mm.st = "FULL" \/ s2mm.ioc =>
       acc \in {"ANSWERED", "IDLE"} /\ pc \in {"APP", "WAIT_MM2S", "WAIT_S2MM"}
  /\ pc = "COPY" => outBuf = cur
  /\ s2mm.err => s2mm.st = "HALTED"

(* Nothing of an inference is left when the application may ask for another.  *)
Quiet ==
  pc = "APP" /\ collected = cur =>
    acc = "IDLE" /\ ~irqPending /\ s2mm.st # "FULL" /\ ~s2mm.ioc

(* What the application has been told. *)
Told == pc = "APP" /\ api = "get" /\ rc = "OK" => output = asked

IInv == TypeInv /\ Asked /\ Packet /\ Event /\ Result /\ Quiet /\ Told
CarefulInv == Careful => IInv

-------------------------------------------------------------------------------
(* After accel_init nothing is under way.                                   *)
LEMMA InitInv == Init => CarefulInv
<1> SUFFICES ASSUME Init, Careful PROVE IInv
  BY DEF CarefulInv
<1>1. TypeInv
  BY DEF Init, TypeInv
<1>2. Asked
  BY DEF Init, Asked
<1>3. Packet
  BY DEF Init, Packet
<1>4. Event
  BY DEF Init, Event
<1>5. Result
  BY DEF Init, Result
<1>6. Quiet
  BY DEF Init, Quiet
<1>7. Told
  BY DEF Init, Told
<1> QED BY <1>1, <1>2, <1>3, <1>4, <1>5, <1>6, <1>7 DEF IInv

(* Steps of the accelerator and the channels. *)
LEMMA HardwareStep ==
  ASSUME IInv, Careful, Hardware \/ Break
  PROVE  IInv'
<1> USE DEF IInv, vars, usageVars, mainVars, isrVars, accVars, dmaVars
<1>1. CASE Take
  <2>1. TypeInv'
    BY <1>1 DEF Take, TypeInv, Asked, Packet, Event, Result, Quiet, Told, Careful
  <2>2. Asked'
    BY <1>1 DEF Take, TypeInv, Asked, Packet, Event, Result, Quiet, Told, Careful
  <2>3. Packet'
    BY <1>1 DEF Take, TypeInv, Asked, Packet, Event, Result, Quiet, Told, Careful
  <2>4. Event'
    BY <1>1 DEF Take, TypeInv, Asked, Packet, Event, Result, Quiet, Told, Careful
  <2>5. Result'
    BY <1>1 DEF Take, TypeInv, Asked, Packet, Event, Result, Quiet, Told, Careful
  <2>6. Quiet'
    BY <1>1 DEF Take, TypeInv, Asked, Packet, Event, Result, Quiet, Told, Careful
  <2>7. Told'
    BY <1>1 DEF Take, TypeInv, Asked, Packet, Event, Result, Quiet, Told, Careful
  <2> QED BY <2>1, <2>2, <2>3, <2>4, <2>5, <2>6, <2>7
<1>2. CASE Compute
  <2>1. TypeInv'
    BY <1>2 DEF Compute, TypeInv, Asked, Packet, Event, Result, Quiet, Told, Careful
  <2>2. Asked'
    BY <1>2 DEF Compute, TypeInv, Asked, Packet, Event, Result, Quiet, Told, Careful
  <2>3. Packet'
    BY <1>2 DEF Compute, TypeInv, Asked, Packet, Event, Result, Quiet, Told, Careful
  <2>4. Event'
    BY <1>2 DEF Compute, TypeInv, Asked, Packet, Event, Result, Quiet, Told, Careful
  <2>5. Result'
    BY <1>2 DEF Compute, TypeInv, Asked, Packet, Event, Result, Quiet, Told, Careful
  <2>6. Quiet'
    BY <1>2 DEF Compute, TypeInv, Asked, Packet, Event, Result, Quiet, Told, Careful
  <2>7. Told'
    BY <1>2 DEF Compute, TypeInv, Asked, Packet, Event, Result, Quiet, Told, Careful
  <2> QED BY <2>1, <2>2, <2>3, <2>4, <2>5, <2>6, <2>7
<1>3. CASE Give
  <2>1. TypeInv'
    BY <1>3 DEF Give, TypeInv, Asked, Packet, Event, Result, Quiet, Told, Careful
  <2>2. Asked'
    BY <1>3 DEF Give, TypeInv, Asked, Packet, Event, Result, Quiet, Told, Careful
  <2>3. Packet'
    BY <1>3 DEF Give, TypeInv, Asked, Packet, Event, Result, Quiet, Told, Careful
  <2>4. Event'
    BY <1>3 DEF Give, TypeInv, Asked, Packet, Event, Result, Quiet, Told, Careful
  <2>5. Result'
    BY <1>3 DEF Give, TypeInv, Asked, Packet, Event, Result, Quiet, Told, Careful
  <2>6. Quiet'
    BY <1>3 DEF Give, TypeInv, Asked, Packet, Event, Result, Quiet, Told, Careful
  <2>7. Told'
    BY <1>3 DEF Give, TypeInv, Asked, Packet, Event, Result, Quiet, Told, Careful
  <2> QED BY <2>1, <2>2, <2>3, <2>4, <2>5, <2>6, <2>7
<1>4. CASE Settle
  <2>1. TypeInv'
    BY <1>4 DEF Settle, TypeInv, Asked, Packet, Event, Result, Quiet, Told, Careful
  <2>2. Asked'
    BY <1>4 DEF Settle, TypeInv, Asked, Packet, Event, Result, Quiet, Told, Careful
  <2>3. Packet'
    BY <1>4 DEF Settle, TypeInv, Asked, Packet, Event, Result, Quiet, Told, Careful
  <2>4. Event'
    BY <1>4 DEF Settle, TypeInv, Asked, Packet, Event, Result, Quiet, Told, Careful
  <2>5. Result'
    BY <1>4 DEF Settle, TypeInv, Asked, Packet, Event, Result, Quiet, Told, Careful
  <2>6. Quiet'
    BY <1>4 DEF Settle, TypeInv, Asked, Packet, Event, Result, Quiet, Told, Careful
  <2>7. Told'
    BY <1>4 DEF Settle, TypeInv, Asked, Packet, Event, Result, Quiet, Told, Careful
  <2> QED BY <2>1, <2>2, <2>3, <2>4, <2>5, <2>6, <2>7
<1>5. CASE Land
  <2>1. TypeInv'
    BY <1>5 DEF Land, TypeInv, Asked, Packet, Event, Result, Quiet, Told, Careful
  <2>2. Asked'
    BY <1>5 DEF Land, TypeInv, Asked, Packet, Event, Result, Quiet, Told, Careful
  <2>3. Packet'
    BY <1>5 DEF Land, TypeInv, Asked, Packet, Event, Result, Quiet, Told, Careful
  <2>4. Event'
    BY <1>5 DEF Land, TypeInv, Asked, Packet, Event, Result, Quiet, Told, Careful
  <2>5. Result'
    BY <1>5 DEF Land, TypeInv, Asked, Packet, Event, Result, Quiet, Told, Careful
  <2>6. Quiet'
    BY <1>5 DEF Land, TypeInv, Asked, Packet, Event, Result, Quiet, Told, Careful
  <2>7. Told'
    BY <1>5 DEF Land, TypeInv, Asked, Packet, Event, Result, Quiet, Told, Careful
  <2> QED BY <2>1, <2>2, <2>3, <2>4, <2>5, <2>6, <2>7
<1>6. CASE Break
  <2>1. TypeInv'
    BY <1>6 DEF Break, TypeInv, Asked, Packet, Event, Result, Quiet, Told, Careful
  <2>2. Asked'
    BY <1>6 DEF Break, TypeInv, Asked, Packet, Event, Result, Quiet, Told, Careful
  <2>3. Packet'
    BY <1>6 DEF Break, TypeInv, Asked, Packet, Event, Result, Quiet, Told, Careful
  <2>4. Event'
    BY <1>6 DEF Break, TypeInv, Asked, Packet, Event, Result, Quiet, Told, Careful
  <2>5. Result'
    BY <1>6 DEF Break, TypeInv, Asked, Packet, Event, Result, Quiet, Told, Careful
  <2>6. Quiet'
    BY <1>6 DEF Break, TypeInv, Asked, Packet, Event, Result, Quiet, Told, Careful
  <2>7. Told'
    BY <1>6 DEF Break, TypeInv, Asked, Packet, Event, Result, Quiet, Told, Careful
  <2> QED BY <2>1, <2>2, <2>3, <2>4, <2>5, <2>6, <2>7
<1> QED BY <1>1, <1>2, <1>3, <1>4, <1>5, <1>6 DEF Hardware

(* Steps of the interrupt service routines. *)
LEMMA IsrStep ==
  ASSUME IInv, Careful, Isr
  PROVE  IInv'
<1> USE DEF IInv, vars, usageVars, mainVars, isrVars, accVars, dmaVars
<1>1. CASE IsrRead
  <2>1. TypeInv'
    BY <1>1 DEF IsrRead, TypeInv, Asked, Packet, Event, Result, Quiet, Told, Careful
  <2>2. Asked'
    BY <1>1 DEF IsrRead, TypeInv, Asked, Packet, Event, Result, Quiet, Told, Careful
  <2>3. Packet'
    BY <1>1 DEF IsrRead, TypeInv, Asked, Packet, Event, Result, Quiet, Told, Careful
  <2>4. Event'
    BY <1>1 DEF IsrRead, TypeInv, Asked, Packet, Event, Result, Quiet, Told, Careful
  <2>5. Result'
    BY <1>1 DEF IsrRead, TypeInv, Asked, Packet, Event, Result, Quiet, Told, Careful
  <2>6. Quiet'
    BY <1>1 DEF IsrRead, TypeInv, Asked, Packet, Event, Result, Quiet, Told, Careful
  <2>7. Told'
    BY <1>1 DEF IsrRead, TypeInv, Asked, Packet, Event, Result, Quiet, Told, Careful
  <2> QED BY <2>1, <2>2, <2>3, <2>4, <2>5, <2>6, <2>7
<1>2. CASE IsrClear
  <2>1. TypeInv'
    BY <1>2 DEF IsrClear, AckLost, Acked, TypeInv, Asked, Packet, Event, Result, Quiet, Told, Careful
  <2>2. Asked'
    BY <1>2 DEF IsrClear, AckLost, Acked, TypeInv, Asked, Packet, Event, Result, Quiet, Told, Careful
  <2>3. Packet'
    BY <1>2 DEF IsrClear, AckLost, Acked, TypeInv, Asked, Packet, Event, Result, Quiet, Told, Careful
  <2>4. Event'
    BY <1>2 DEF IsrClear, AckLost, Acked, TypeInv, Asked, Packet, Event, Result, Quiet, Told, Careful
  <2>5. Result'
    BY <1>2 DEF IsrClear, AckLost, Acked, TypeInv, Asked, Packet, Event, Result, Quiet, Told, Careful
  <2>6. Quiet'
    BY <1>2 DEF IsrClear, AckLost, Acked, TypeInv, Asked, Packet, Event, Result, Quiet, Told, Careful
  <2>7. Told'
    BY <1>2 DEF IsrClear, AckLost, Acked, TypeInv, Asked, Packet, Event, Result, Quiet, Told, Careful
  <2> QED BY <2>1, <2>2, <2>3, <2>4, <2>5, <2>6, <2>7
<1>3. CASE DmaS2mmIsr
  <2>1. TypeInv'
    BY <1>3 DEF DmaS2mmIsr, TypeInv, Asked, Packet, Event, Result, Quiet, Told, Careful
  <2>2. Asked'
    BY <1>3 DEF DmaS2mmIsr, TypeInv, Asked, Packet, Event, Result, Quiet, Told, Careful
  <2>3. Packet'
    BY <1>3 DEF DmaS2mmIsr, TypeInv, Asked, Packet, Event, Result, Quiet, Told, Careful
  <2>4. Event'
    BY <1>3 DEF DmaS2mmIsr, TypeInv, Asked, Packet, Event, Result, Quiet, Told, Careful
  <2>5. Result'
    BY <1>3 DEF DmaS2mmIsr, TypeInv, Asked, Packet, Event, Result, Quiet, Told, Careful
  <2>6. Quiet'
    BY <1>3 DEF DmaS2mmIsr, TypeInv, Asked, Packet, Event, Result, Quiet, Told, Careful
  <2>7. Told'
    BY <1>3 DEF DmaS2mmIsr, TypeInv, Asked, Packet, Event, Result, Quiet, Told, Careful
  <2> QED BY <2>1, <2>2, <2>3, <2>4, <2>5, <2>6, <2>7
<1> QED BY <1>1, <1>2, <1>3 DEF Isr

(* Steps of the main program. *)
LEMMA MainStepInv ==
  ASSUME IInv, Careful, MainStep
  PROVE  IInv'
<1> USE DEF IInv, vars, usageVars, mainVars, isrVars, accVars, dmaVars
<1>1. CASE Call("start")
  <2>1. TypeInv'
    <3>1. cur' \in Nat
      BY <1>1 DEF Call, TypeInv
    <3>2. pc' = "ARM" /\ api' = "start" /\ gDone' \in BOOLEAN
      BY <1>1 DEF Call
    <3>3. UNCHANGED <<isr, acc, irqPending, torn, mm2s, s2mm>>
      BY <1>1 DEF Call
    <3>4. isr' \in BOOLEAN /\ irqPending' \in BOOLEAN /\ torn' \in BOOLEAN
      BY <3>3 DEF TypeInv
    <3>5. mm2s' = mm2s /\ s2mm' = s2mm /\ acc' = acc
      BY <3>3
    <3> QED BY <3>1, <3>2, <3>4, <3>5 DEF TypeInv
  <2>2. Asked'
    BY <1>1 DEF Call, Main, IsReady, TypeInv, Asked, Packet, Event, Result, Quiet, Told, Careful
  <2>3. Packet'
    BY <1>1 DEF Call, Main, IsReady, TypeInv, Asked, Packet, Event, Result, Quiet, Told, Careful
  <2>4. Event'
    BY <1>1 DEF Call, Main, IsReady, TypeInv, Asked, Packet, Event, Result, Quiet, Told, Careful
  <2>5. Result'
    BY <1>1 DEF Call, Main, IsReady, TypeInv, Asked, Packet, Event, Result, Quiet, Told, Careful
  <2>6. Quiet'
    BY <1>1 DEF Call, Main, IsReady, TypeInv, Asked, Packet, Event, Result, Quiet, Told, Careful
  <2>7. Told'
    BY <1>1 DEF Call, Main, IsReady, TypeInv, Asked, Packet, Event, Result, Quiet, Told, Careful
  <2> QED BY <2>1, <2>2, <2>3, <2>4, <2>5, <2>6, <2>7
<1>2. CASE CallGetOutput
  <2>1. TypeInv'
    BY <1>2 DEF CallGetOutput, Main, TypeInv, Asked, Packet, Event, Result, Quiet, Told, Careful
  <2>2. Asked'
    BY <1>2 DEF CallGetOutput, Main, TypeInv, Asked, Packet, Event, Result, Quiet, Told, Careful
  <2>3. Packet'
    BY <1>2 DEF CallGetOutput, Main, TypeInv, Asked, Packet, Event, Result, Quiet, Told, Careful
  <2>4. Event'
    BY <1>2 DEF CallGetOutput, Main, TypeInv, Asked, Packet, Event, Result, Quiet, Told, Careful
  <2>5. Result'
    BY <1>2 DEF CallGetOutput, Main, TypeInv, Asked, Packet, Event, Result, Quiet, Told, Careful
  <2>6. Quiet'
    BY <1>2 DEF CallGetOutput, Main, TypeInv, Asked, Packet, Event, Result, Quiet, Told, Careful
  <2>7. Told'
    BY <1>2 DEF CallGetOutput, Main, TypeInv, Asked, Packet, Event, Result, Quiet, Told, Careful
  <2> QED BY <2>1, <2>2, <2>3, <2>4, <2>5, <2>6, <2>7
<1>3. CASE Arm
  <2>1. TypeInv'
    BY <1>3 DEF Arm, Main, Goto, TypeInv, Asked, Packet, Event, Result, Quiet, Told, Careful
  <2>2. Asked'
    BY <1>3 DEF Arm, Main, Goto, TypeInv, Asked, Packet, Event, Result, Quiet, Told, Careful
  <2>3. Packet'
    BY <1>3 DEF Arm, Main, Goto, TypeInv, Asked, Packet, Event, Result, Quiet, Told, Careful
  <2>4. Event'
    BY <1>3 DEF Arm, Main, Goto, TypeInv, Asked, Packet, Event, Result, Quiet, Told, Careful
  <2>5. Result'
    BY <1>3 DEF Arm, Main, Goto, TypeInv, Asked, Packet, Event, Result, Quiet, Told, Careful
  <2>6. Quiet'
    BY <1>3 DEF Arm, Main, Goto, TypeInv, Asked, Packet, Event, Result, Quiet, Told, Careful
  <2>7. Told'
    BY <1>3 DEF Arm, Main, Goto, TypeInv, Asked, Packet, Event, Result, Quiet, Told, Careful
  <2> QED BY <2>1, <2>2, <2>3, <2>4, <2>5, <2>6, <2>7
<1>4. CASE EnableInterrupts
  <2>1. TypeInv'
    BY <1>4 DEF EnableInterrupts, Main, Goto, TypeInv, Asked, Packet, Event, Result, Quiet, Told, Careful
  <2>2. Asked'
    BY <1>4 DEF EnableInterrupts, Main, Goto, TypeInv, Asked, Packet, Event, Result, Quiet, Told, Careful
  <2>3. Packet'
    BY <1>4 DEF EnableInterrupts, Main, Goto, TypeInv, Asked, Packet, Event, Result, Quiet, Told, Careful
  <2>4. Event'
    BY <1>4 DEF EnableInterrupts, Main, Goto, TypeInv, Asked, Packet, Event, Result, Quiet, Told, Careful
  <2>5. Result'
    BY <1>4 DEF EnableInterrupts, Main, Goto, TypeInv, Asked, Packet, Event, Result, Quiet, Told, Careful
  <2>6. Quiet'
    BY <1>4 DEF EnableInterrupts, Main, Goto, TypeInv, Asked, Packet, Event, Result, Quiet, Told, Careful
  <2>7. Told'
    BY <1>4 DEF EnableInterrupts, Main, Goto, TypeInv, Asked, Packet, Event, Result, Quiet, Told, Careful
  <2> QED BY <2>1, <2>2, <2>3, <2>4, <2>5, <2>6, <2>7
<1>5. CASE Start
  <2>1. TypeInv'
    BY <1>5 DEF Start, Main, Goto, TypeInv, Asked, Packet, Event, Result, Quiet, Told, Careful
  <2>2. Asked'
    BY <1>5 DEF Start, Main, Goto, TypeInv, Asked, Packet, Event, Result, Quiet, Told, Careful
  <2>3. Packet'
    BY <1>5 DEF Start, Main, Goto, TypeInv, Asked, Packet, Event, Result, Quiet, Told, Careful
  <2>4. Event'
    BY <1>5 DEF Start, Main, Goto, TypeInv, Asked, Packet, Event, Result, Quiet, Told, Careful
  <2>5. Result'
    BY <1>5 DEF Start, Main, Goto, TypeInv, Asked, Packet, Event, Result, Quiet, Told, Careful
  <2>6. Quiet'
    BY <1>5 DEF Start, Main, Goto, TypeInv, Asked, Packet, Event, Result, Quiet, Told, Careful
  <2>7. Told'
    BY <1>5 DEF Start, Main, Goto, TypeInv, Asked, Packet, Event, Result, Quiet, Told, Careful
  <2> QED BY <2>1, <2>2, <2>3, <2>4, <2>5, <2>6, <2>7
<1>6. CASE Send
  <2>1. TypeInv'
    BY <1>6 DEF Send, Main, Goto, TypeInv, Asked, Packet, Event, Result, Quiet, Told, Careful
  <2>2. Asked'
    BY <1>6 DEF Send, Main, Goto, TypeInv, Asked, Packet, Event, Result, Quiet, Told, Careful
  <2>3. Packet'
    BY <1>6 DEF Send, Main, Goto, TypeInv, Asked, Packet, Event, Result, Quiet, Told, Careful
  <2>4. Event'
    BY <1>6 DEF Send, Main, Goto, TypeInv, Asked, Packet, Event, Result, Quiet, Told, Careful
  <2>5. Result'
    BY <1>6 DEF Send, Main, Goto, TypeInv, Asked, Packet, Event, Result, Quiet, Told, Careful
  <2>6. Quiet'
    BY <1>6 DEF Send, Main, Goto, TypeInv, Asked, Packet, Event, Result, Quiet, Told, Careful
  <2>7. Told'
    BY <1>6 DEF Send, Main, Goto, TypeInv, Asked, Packet, Event, Result, Quiet, Told, Careful
  <2> QED BY <2>1, <2>2, <2>3, <2>4, <2>5, <2>6, <2>7
<1>7. CASE WaitMm2s
  <2>1. TypeInv'
    BY <1>7 DEF WaitMm2s, Main, Goto, Return, AtRest, TypeInv, Asked, Packet, Event, Result, Quiet, Told, Careful
  <2>2. Asked'
    BY <1>7 DEF WaitMm2s, Main, Goto, Return, AtRest, TypeInv, Asked, Packet, Event, Result, Quiet, Told, Careful
  <2>3. Packet'
    BY <1>7 DEF WaitMm2s, Main, Goto, Return, AtRest, TypeInv, Asked, Packet, Event, Result, Quiet, Told, Careful
  <2>4. Event'
    BY <1>7 DEF WaitMm2s, Main, Goto, Return, AtRest, TypeInv, Asked, Packet, Event, Result, Quiet, Told, Careful
  <2>5. Result'
    BY <1>7 DEF WaitMm2s, Main, Goto, Return, AtRest, TypeInv, Asked, Packet, Event, Result, Quiet, Told, Careful
  <2>6. Quiet'
    BY <1>7 DEF WaitMm2s, Main, Goto, Return, AtRest, TypeInv, Asked, Packet, Event, Result, Quiet, Told, Careful
  <2>7. Told'
    BY <1>7 DEF WaitMm2s, Main, Goto, Return, AtRest, TypeInv, Asked, Packet, Event, Result, Quiet, Told, Careful
  <2> QED BY <2>1, <2>2, <2>3, <2>4, <2>5, <2>6, <2>7
<1>8. CASE PollDone
  <2>1. TypeInv'
    BY <1>8 DEF PollDone, Main, TypeInv, Asked, Packet, Event, Result, Quiet, Told, Careful
  <2>2. Asked'
    BY <1>8 DEF PollDone, Main, TypeInv, Asked, Packet, Event, Result, Quiet, Told, Careful
  <2>3. Packet'
    BY <1>8 DEF PollDone, Main, TypeInv, Asked, Packet, Event, Result, Quiet, Told, Careful
  <2>4. Event'
    BY <1>8 DEF PollDone, Main, TypeInv, Asked, Packet, Event, Result, Quiet, Told, Careful
  <2>5. Result'
    BY <1>8 DEF PollDone, Main, TypeInv, Asked, Packet, Event, Result, Quiet, Told, Careful
  <2>6. Quiet'
    BY <1>8 DEF PollDone, Main, TypeInv, Asked, Packet, Event, Result, Quiet, Told, Careful
  <2>7. Told'
    BY <1>8 DEF PollDone, Main, TypeInv, Asked, Packet, Event, Result, Quiet, Told, Careful
  <2> QED BY <2>1, <2>2, <2>3, <2>4, <2>5, <2>6, <2>7
<1>9. CASE WaitS2mm
  <2>1. TypeInv'
    BY <1>9 DEF WaitS2mm, Main, Goto, Failed, AtRest, IocTaken, TypeInv, Asked, Packet, Event, Result, Quiet, Told, Careful
  <2>2. Asked'
    BY <1>9 DEF WaitS2mm, Main, Goto, Failed, AtRest, IocTaken, TypeInv, Asked, Packet, Event, Result, Quiet, Told, Careful
  <2>3. Packet'
    BY <1>9 DEF WaitS2mm, Main, Goto, Failed, AtRest, IocTaken, TypeInv, Asked, Packet, Event, Result, Quiet, Told, Careful
  <2>4. Event'
    BY <1>9 DEF WaitS2mm, Main, Goto, Failed, AtRest, IocTaken, TypeInv, Asked, Packet, Event, Result, Quiet, Told, Careful
  <2>5. Result'
    BY <1>9 DEF WaitS2mm, Main, Goto, Failed, AtRest, IocTaken, TypeInv, Asked, Packet, Event, Result, Quiet, Told, Careful
  <2>6. Quiet'
    BY <1>9 DEF WaitS2mm, Main, Goto, Failed, AtRest, IocTaken, TypeInv, Asked, Packet, Event, Result, Quiet, Told, Careful
  <2>7. Told'
    BY <1>9 DEF WaitS2mm, Main, Goto, Failed, AtRest, IocTaken, TypeInv, Asked, Packet, Event, Result, Quiet, Told, Careful
  <2> QED BY <2>1, <2>2, <2>3, <2>4, <2>5, <2>6, <2>7
<1>10. CASE Copy
  <2>1. TypeInv'
    BY <1>10 DEF Copy, Main, Return, TypeInv, Asked, Packet, Event, Result, Quiet, Told, Careful
  <2>2. Asked'
    BY <1>10 DEF Copy, Main, Return, TypeInv, Asked, Packet, Event, Result, Quiet, Told, Careful
  <2>3. Packet'
    BY <1>10 DEF Copy, Main, Return, TypeInv, Asked, Packet, Event, Result, Quiet, Told, Careful
  <2>4. Event'
    BY <1>10 DEF Copy, Main, Return, TypeInv, Asked, Packet, Event, Result, Quiet, Told, Careful
  <2>5. Result'
    BY <1>10 DEF Copy, Main, Return, TypeInv, Asked, Packet, Event, Result, Quiet, Told, Careful
  <2>6. Quiet'
    BY <1>10 DEF Copy, Main, Return, TypeInv, Asked, Packet, Event, Result, Quiet, Told, Careful
  <2>7. Told'
    BY <1>10 DEF Copy, Main, Return, TypeInv, Asked, Packet, Event, Result, Quiet, Told, Careful
  <2> QED BY <2>1, <2>2, <2>3, <2>4, <2>5, <2>6, <2>7
<1>11. CASE Reset
  <2>1. TypeInv'
    BY <1>11 DEF Reset, Main, Return, TypeInv, Asked, Packet, Event, Result, Quiet, Told, Careful
  <2>2. Asked'
    BY <1>11 DEF Reset, Main, Return, TypeInv, Asked, Packet, Event, Result, Quiet, Told, Careful
  <2>3. Packet'
    BY <1>11 DEF Reset, Main, Return, TypeInv, Asked, Packet, Event, Result, Quiet, Told, Careful
  <2>4. Event'
    BY <1>11 DEF Reset, Main, Return, TypeInv, Asked, Packet, Event, Result, Quiet, Told, Careful
  <2>5. Result'
    BY <1>11 DEF Reset, Main, Return, TypeInv, Asked, Packet, Event, Result, Quiet, Told, Careful
  <2>6. Quiet'
    BY <1>11 DEF Reset, Main, Return, TypeInv, Asked, Packet, Event, Result, Quiet, Told, Careful
  <2>7. Told'
    BY <1>11 DEF Reset, Main, Return, TypeInv, Asked, Packet, Event, Result, Quiet, Told, Careful
  <2> QED BY <2>1, <2>2, <2>3, <2>4, <2>5, <2>6, <2>7
<1>12. CASE \E f \in calls : Call(f)
  BY <1>1, <1>12 DEF Careful
<1> QED BY <1>2, <1>3, <1>4, <1>5, <1>6, <1>7, <1>8, <1>9, <1>10, <1>11, <1>12 DEF MainStep

(* The inductive invariant holds whenever the driver is used with care.     *)
LEMMA Invariance == Spec => []CarefulInv
<1>1. Init => CarefulInv
  BY InitInv
<1>2. CarefulInv /\ [Next]_vars => CarefulInv'
  <2> SUFFICES ASSUME CarefulInv, [Next]_vars, Careful' PROVE IInv'
    BY DEF CarefulInv
  <2>1. Careful /\ IInv
    BY DEF CarefulInv, Careful, Next, vars, usageVars
  <2>2. CASE UNCHANGED vars
    BY <2>1, <2>2 DEF IInv, TypeInv, Asked, Packet, Event, Result, Quiet, Told,
                      vars, usageVars, mainVars, isrVars, accVars, dmaVars
  <2>3. CASE Next
    BY <2>1, <2>3, HardwareStep, IsrStep, MainStepInv DEF Next
  <2> QED BY <2>2, <2>3
<1> QED BY <1>1, <1>2, PTL DEF Spec

(* "Wait for S2MM DMA completion", then "copy output": for a careful          *)
(* application ACCEL_OK comes with the result it asked for, however many       *)
(* inferences it runs and whatever the DMA does.                            *)
THEOREM OkMeansOutputs == Spec => []OkMeansOutput
<1>1. CarefulInv => OkMeansOutput
  BY DEF CarefulInv, IInv, Told, OkMeansOutput
<1> QED BY <1>1, Invariance, PTL

(* The completion flag of accel_isr is about the inference started last.      *)
THEOREM FlagIsFresh == Spec => []FlagIsThisInference
<1>1. CarefulInv => FlagIsThisInference
  BY DEF CarefulInv, IInv, TypeInv, Asked, Event, FlagIsThisInference
<1> QED BY <1>1, Invariance, PTL

-------------------------------------------------------------------------------
(* The CSR block, for every set of words and addresses.  A START that is up   *)
(* was written by the commit of the last edge, so its response is still owed: *)
(* that is what keeps the next commit away while the bit clears itself.       *)
StartOwesResponse == 0 \in regCtrl => bvalid

AxiInv == AxiTypeOK /\ OneWriteInFlight /\ DataHeld /\ StartOwesResponse

(* The registers after reset satisfy the invariant. *)
LEMMA InitAxiInv == AxiInit => AxiInv
  BY CsrAssumption
  DEF AxiInit, AxiInv, AxiTypeOK, OneWriteInFlight, DataHeld, StartOwesResponse, Registers

(* The invariant speaks of the variables only. *)
LEMMA StutterAxiInv == AxiInv /\ UNCHANGED axiVars => AxiInv'
  BY DEF axiVars, fsmVars, regVars, busVars, AxiInv, AxiTypeOK, OneWriteInFlight,
         DataHeld, StartOwesResponse

(* A clock edge keeps every register and bus wire in its type. *)
LEMMA EdgeTypeOK ==
  ASSUME AxiTypeOK, NEW bready \in BOOLEAN, NEW rready \in BOOLEAN, Edge(bready, rready)
  PROVE  AxiTypeOK'
<1>1. {awReady, wReady, bvalid, wrValid}' \subseteq BOOLEAN /\ wrAddr' \in Registers
  BY CsrAssumption DEF AxiTypeOK, Edge, WriteFsm, Answered
<1>2. {awvalid, wvalid, arvalid}' \subseteq BOOLEAN
  BY DEF AxiTypeOK, Edge, Processor
<1>3. awaddr' \in WriteAddrs /\ araddr' \in ReadAddrs /\ wdata' \in Words
  BY DEF AxiTypeOK, Edge, Processor
<1>4. rvalid' \in BOOLEAN
  BY DEF AxiTypeOK, Edge, ReadChannel
<1>5. wTaken' \in Words /\ irqIn' \subseteq Events
  BY DEF AxiTypeOK, Edge
<1>6. regIrqStatus' \subseteq Events
  BY DEF AxiTypeOK, Edge, RegisterWrites, NotCleared
<1>7. regIrqEn' \in Words /\ regScratch' \in Words
  BY DEF AxiTypeOK, Edge, RegisterWrites
<1>8. regCtrl' \in Words \cup {w \ {0, 1} : w \in Words}
  <2>1. regCtrl' = wdata \/ regCtrl' = regCtrl \ {0, 1}
    BY DEF Edge, RegisterWrites, SelfCleared
  <2>2. CASE regCtrl' = wdata
    BY <2>2 DEF AxiTypeOK
  <2>3. CASE regCtrl' = regCtrl \ {0, 1}
    <3>1. PICK w \in Words : regCtrl = w \/ regCtrl = w \ {0, 1}
      BY DEF AxiTypeOK
    <3>2. regCtrl' = w \ {0, 1}
      BY <2>3, <3>1
    <3> QED BY <3>2
  <2> QED BY <2>1, <2>2, <2>3
<1> QED BY <1>1, <1>2, <1>3, <1>4, <1>5, <1>6, <1>7, <1>8 DEF AxiTypeOK

(* A clock edge keeps the handshake flags on one write, accepted data held
   and the response to a START owed. *)
LEMMA EdgeHandshake ==
  ASSUME AxiInv, NEW bready \in BOOLEAN, NEW rready \in BOOLEAN, Edge(bready, rready)
  PROVE  OneWriteInFlight' /\ DataHeld' /\ StartOwesResponse'
<1> USE DEF AxiInv, AxiTypeOK, OneWriteInFlight, AwTaken, WTaken, Commits, Answered
<1>1. OneWriteInFlight'
  BY DEF Edge, WriteFsm
<1>2. DataHeld'
  BY DEF DataHeld, Edge, WriteFsm, Processor
<1>3. StartOwesResponse'
  BY DEF StartOwesResponse, Edge, WriteFsm, RegisterWrites, SelfCleared
<1> QED BY <1>1, <1>2, <1>3

(* Every step keeps the invariant. *)
LEMMA NextAxiInv == AxiInv /\ [AxiNext]_axiVars => AxiInv'
<1> SUFFICES ASSUME AxiInv, AxiNext PROVE AxiInv'
  BY StutterAxiInv
<1>1. PICK bready \in BOOLEAN, rready \in BOOLEAN : Edge(bready, rready)
  BY DEF AxiNext
<1> QED BY <1>1, EdgeTypeOK, EdgeHandshake DEF AxiInv

(* The inductive invariant holds in every behaviour of the block: the       *)
(* handshake flags agree on one write, accepted data are held and a START    *)
(* that is up still owes its response.                                    *)
THEOREM AxiInvariance == AxiSpec => []AxiInv
  BY InitAxiInv, NextAxiInv, PTL DEF AxiSpec

(* The write channel never holds two writes, and its five flags always name *)
(* one stage.                                                              *)
THEOREM OneWrite == AxiSpec => []OneWriteInFlight
<1>1. AxiInv => OneWriteInFlight
  BY DEF AxiInv
<1> QED BY <1>1, AxiInvariance, PTL

(* START, once written, is seen by exactly one clock edge.                  *)
THEOREM StartPulse == AxiSpec => StartIsAPulse
<1>1. AxiInv /\ [AxiNext]_axiVars => [0 \in regCtrl => 0 \notin regCtrl']_axiVars
  <2> SUFFICES ASSUME AxiInv, AxiNext, 0 \in regCtrl PROVE 0 \notin regCtrl'
    OBVIOUS
  <2>1. PICK bready \in BOOLEAN, rready \in BOOLEAN : Edge(bready, rready)
    BY DEF AxiNext
  <2>2. ~Commits
    BY DEF AxiInv, OneWriteInFlight, StartOwesResponse, Commits
  <2> QED BY <2>1, <2>2 DEF Edge, RegisterWrites, SelfCleared
<1> QED BY <1>1, AxiInvariance, PTL DEF AxiSpec, StartIsAPulse

-------------------------------------------------------------------------------
(* Refinement: the handshake registers implement the abstract bus.          *)

(* After reset no request is under way in CsrBus either. *)
LEMMA InitCsr == AxiInit => Csr!Init
  BY DEF AxiInit, Csr!Init

(* The registers are written as CsrBus says: with the accepted word at a    *)
(* commit, and otherwise by the events and the self-clearing bits only.     *)
LEMMA FileStep ==
  ASSUME AxiInv, HoldData, NEW bready \in BOOLEAN, NEW rready \in BOOLEAN,
         Edge(bready, rready)
  PROVE  LET f == [ctrl |-> regCtrl, irqEn |-> regIrqEn,
                   irqStatus |-> regIrqStatus, scratch |-> regScratch]
             fp == [ctrl |-> regCtrl', irqEn |-> regIrqEn',
                    irqStatus |-> regIrqStatus', scratch |-> regScratch']
         IN  /\ ~Commits => fp = Csr!Settled(f, irqIn)
             /\ Commits => \E e \in SUBSET Events :
                             fp = Csr!Write(Csr!Settled(f, e), wrAddr, wTaken)
<1> DEFINE f == [ctrl |-> regCtrl, irqEn |-> regIrqEn,
                 irqStatus |-> regIrqStatus, scratch |-> regScratch]
           fp == [ctrl |-> regCtrl', irqEn |-> regIrqEn',
                  irqStatus |-> regIrqStatus', scratch |-> regScratch']
           settled(e) == [ctrl |-> regCtrl \ {0, 1}, irqEn |-> regIrqEn,
                          irqStatus |-> regIrqStatus \cup e, scratch |-> regScratch]
<1>1. \A e : Csr!Settled(f, e) = settled(e)
  BY DEF Csr!Settled
<1>2. ~Commits => fp = settled(irqIn)
  BY DEF Edge, RegisterWrites, SelfCleared
<1>3. ASSUME Commits
      PROVE  \E e \in SUBSET Events : fp = Csr!Write(settled(e), wrAddr, wTaken)
  <2>1. wdata = wTaken
    BY <1>3 DEF Commits, AxiInv, DataHeld
  <2>2. CASE wrAddr = "IRQ_STATUS"
    <3>1. fp = Csr!Write(settled({}), wrAddr, wTaken)
      BY <1>3, <2>1, <2>2 DEF Edge, RegisterWrites, SelfCleared, NotCleared, Csr!Write
    <3> QED BY <3>1
  <2>3. CASE wrAddr # "IRQ_STATUS"
    <3>1. fp = Csr!Write(settled(irqIn), wrAddr, wTaken)
      BY <1>3, <2>1, <2>3 DEF Edge, RegisterWrites, SelfCleared, NotCleared, Csr!Write
    <3>2. irqIn \in SUBSET Events
      BY DEF AxiInv, AxiTypeOK
    <3> QED BY <3>1, <3>2
  <2> QED BY <2>2, <2>3
<1> QED BY <1>1, <1>2, <1>3

(* The read channel's edge is an answer, a delivery or nothing in CsrBus. *)
LEMMA ReadStep ==
  ASSUME AxiInv, NEW bready \in BOOLEAN, NEW rready \in BOOLEAN, Edge(bready, rready)
  PROVE  Csr!Read
<1>1. CASE arvalid /\ ArReady(rready)
  <2>1. rvalid' = TRUE /\ rdata' \in ReadValues(araddr)
    BY <1>1 DEF Edge, ReadChannel
  <2>2. araddr \in Csr!Registers
    BY CsrAssumption DEF AxiInv, AxiTypeOK, Registers, Csr!Registers
  <2>3. rdata' \in Csr!Values([ctrl |-> regCtrl, irqEn |-> regIrqEn,
             irqStatus |-> regIrqStatus, scratch |-> regScratch], araddr)
    BY <2>1, Zenon DEF ReadValues, Csr!Values
  <2> QED BY <2>1, <2>2, <2>3 DEF Csr!Read
<1>2. CASE ~(arvalid /\ ArReady(rready))
  BY <1>2 DEF Edge, ReadChannel, Csr!Read
<1> QED BY <1>1, <1>2

(* Every clock edge is a step of CsrBus or changes nothing there. *)
LEMMA StepCsr ==
  ASSUME AxiInv, HoldData, NEW bready \in BOOLEAN, NEW rready \in BOOLEAN,
         Edge(bready, rready)
  PROVE  Csr!Next
<1> USE DEF AxiInv, AxiTypeOK, OneWriteInFlight, AwTaken, WTaken, Answered
<1>1. CASE Commits
  <2>1. Csr!Commit
    BY <1>1, FileStep DEF Commits, Edge, WriteFsm, Csr!Commit
  <2> QED BY <2>1, ReadStep DEF Csr!Next
<1>2. CASE ~Commits /\ bvalid
  <2>1. Csr!Respond
    BY <1>2, FileStep DEF Commits, Edge, WriteFsm, Csr!Respond
  <2> QED BY <2>1, ReadStep DEF Csr!Next
<1>3. CASE ~Commits /\ ~bvalid
  <2>1. /\ wrAddr' = IF AwTaken THEN awaddr ELSE wrAddr
        /\ awReady' = (awReady /\ ~AwTaken)
        /\ wReady' = (wReady /\ ~WTaken)
        /\ wrValid' = (WTaken \/ wrValid)
        /\ bvalid' = FALSE
        /\ wTaken' = IF WTaken THEN wdata ELSE wTaken
    BY <1>3 DEF Edge, WriteFsm
  <2>2. awaddr \in Csr!Registers
    BY CsrAssumption DEF Registers, Csr!Registers
  <2>3. Csr!Accept
    BY <1>3, <2>1, <2>2, FileStep DEF Csr!Accept
  <2> QED BY <2>3, ReadStep DEF Csr!Next
<1> QED BY <1>1, <1>2, <1>3

(* What CsrBus sees depends on the variables only. *)
LEMMA StutterCsr == UNCHANGED axiVars => UNCHANGED Csr!csrVars
  BY DEF axiVars, fsmVars, regVars, Csr!csrVars

(* A processor that holds its write data sees CsrBus: no write is lost,     *)
(* repeated, misdirected or answered before it took effect.                 *)
THEOREM Refinement ==
  ASSUME HoldData
  PROVE  AxiSpec => ImplementsCsrBus
<1>1. AxiInv /\ [AxiNext]_axiVars => [Csr!Next]_(Csr!csrVars)
  <2> SUFFICES ASSUME AxiInv, AxiNext PROVE Csr!Next
    BY StutterCsr
  <2>1. PICK bready \in BOOLEAN, rready \in BOOLEAN : Edge(bready, rready)
    BY DEF AxiNext
  <2> QED BY <2>1, StepCsr
<1> QED BY <1>1, InitCsr, AxiInvariance, PTL DEF AxiSpec, ImplementsCsrBus, Csr!Spec
===============================================================================
