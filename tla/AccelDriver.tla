------------------------------ MODULE AccelDriver -----------------------------
(***************************************************************************)
(* The firmware driver (firmware/accel.c, interrupt.c) between an           *)
(* application, the two DMA channels and the accelerator.  The main program, *)
(* the interrupt service routines that preempt it and the hardware move in  *)
(* turns; one step of the driver is one access to a device register.        *)
(*                                                                         *)
(* An input packet, a result and a buffer are abstracted to the number of   *)
(* the inference they belong to.  The accelerator is what AccelTop shows of  *)
(* itself to a patient host: STATUS.done is up for one clock ("ANSWERED"),   *)
(* the error bit never, and SOFT_RST leaves its streams as they are.  Every  *)
(* inference takes the polling loops less than their million reads, so a     *)
(* loop gives up only when the hardware has come to rest.                   *)
(***************************************************************************)
EXTENDS Naturals

CONSTANTS
  Usages,        (* sets of functions an application may call: "run", "start" *)
  MaxInferences  (* bound: how often the application calls                  *)

ASSUME DriverAssumption ==
  /\ Usages \subseteq SUBSET {"run", "start"}
  /\ MaxInferences \in Nat

VARIABLES
  (* what the driver is used in, chosen in Init and then fixed              *)
  calls,               (* accel_run_inference and/or accel_start_inference  *)
  patient,             (* the application collects a result before it asks   *)
                       (* for the next one                                  *)
  irqWired,            (* the S2MM interrupt reaches the processor           *)
  dmaErrors,           (* a DMA channel may fail                            *)
  (* main program *)
  pc, api, rc,         (* next access, function it is in, value returned     *)
  cur, asked,          (* inferences asked for; the last one by "start"      *)
  collected,           (* the last one whose result the application has      *)
  output,              (* the application's buffer                          *)
  (* interrupts *)
  gDone,               (* g_inference_done                                  *)
  isr,                 (* whether accel_isr has yet to clear what it read    *)
  (* accelerator *)
  acc, accInf, torn, irqEn, irqPending,
  answered,            (* history: the inference last answered              *)
  (* DMA channels and the buffers in memory *)
  mm2s, s2mm, inBuf, outBuf

usageVars == <<calls, patient, irqWired, dmaErrors>>
mainVars == <<pc, api, rc, cur, asked, collected, output>>
isrVars  == <<gDone, isr>>
accVars  == <<acc, accInf, torn, irqEn, irqPending, answered>>
dmaVars  == <<mm2s, s2mm, inBuf, outBuf>>
vars == <<usageVars, mainVars, isrVars, accVars, dmaVars>>

Infs == 0 .. MaxInferences
Mm2s == [st : {"IDLE", "BUSY", "HALTED"}, ioc : BOOLEAN, err : BOOLEAN]
S2mm == [st : {"IDLE", "ARMED", "FULL", "HALTED"}, inf : Infs, ioc : BOOLEAN,
         err : BOOLEAN, irq : BOOLEAN]

TypeOK ==
  /\ calls \in Usages
  /\ {patient, irqWired, dmaErrors} \subseteq BOOLEAN
  /\ pc \in {"APP", "ARM", "ENABLE", "START", "SEND", "WAIT_MM2S", "POLL_DONE",
             "WAIT_S2MM", "COPY", "RESET"}
  /\ api \in {"run", "start", "get"}
  /\ rc \in {"OK", "TIMEOUT", "DMA"}
  /\ {cur, asked, collected, output, accInf, answered, inBuf, outBuf} \subseteq Infs
  /\ {gDone, isr, torn, irqEn, irqPending} \subseteq BOOLEAN
  /\ acc \in {"IDLE", "RECV", "RUN", "SEND", "ANSWERED"}
  /\ mm2s \in Mm2s
  /\ s2mm \in S2mm

(* After accel_init. *)
Init ==
  /\ calls \in Usages
  /\ patient \in BOOLEAN /\ irqWired \in BOOLEAN /\ dmaErrors \in BOOLEAN
  /\ pc = "APP" /\ api = "get" /\ rc = "OK"
  /\ cur = 0 /\ asked = 0 /\ collected = 0 /\ output = 0
  /\ gDone = FALSE /\ isr = FALSE
  /\ acc = "IDLE" /\ accInf = 0 /\ torn = FALSE
  /\ irqEn = FALSE /\ irqPending = FALSE /\ answered = 0
  /\ mm2s = [st |-> "IDLE", ioc |-> FALSE, err |-> FALSE]
  /\ s2mm = [st |-> "IDLE", inf |-> 0, ioc |-> FALSE, err |-> FALSE, irq |-> FALSE]
  /\ inBuf = 0 /\ outBuf = 0

-------------------------------------------------------------------------------
(* Hardware. *)

(* The packet goes to an accelerator in RECV_IN.  After a soft reset in the  *)
(* middle of an inference the streams no longer know where a packet starts.  *)
Take ==
  /\ acc = "RECV" /\ mm2s.st = "BUSY"
  /\ acc' = "RUN"
  /\ accInf' \in {inBuf} \cup IF torn THEN {0} ELSE {}
  /\ mm2s' = [mm2s EXCEPT !.st = "IDLE", !.ioc = TRUE]
  /\ UNCHANGED <<mainVars, isrVars, torn, irqEn, irqPending, answered, s2mm, inBuf, outBuf>>

Compute ==
  /\ acc = "RUN"
  /\ acc' = "SEND"
  /\ UNCHANGED <<mainVars, isrVars, accInf, torn, irqEn, irqPending, answered, dmaVars>>

(* The stream waits for an armed channel, which buffers the result. *)
Give ==
  /\ acc = "SEND" /\ s2mm.st = "ARMED"
  /\ acc' = "ANSWERED"
  /\ answered' = cur
  /\ s2mm' = [s2mm EXCEPT !.st = "FULL", !.inf = accInf]
  /\ UNCHANGED <<mainVars, isrVars, accInf, torn, irqEn, irqPending, mm2s, inBuf, outBuf>>

(* The next clock: done is gone, and its event is in IRQ_STATUS. *)
Settle ==
  /\ acc = "ANSWERED"
  /\ acc' = "IDLE"
  /\ irqPending' = TRUE
  /\ UNCHANGED <<mainVars, isrVars, accInf, torn, irqEn, answered, dmaVars>>

Land ==
  /\ s2mm.st = "FULL"
  /\ outBuf' = s2mm.inf
  /\ s2mm' = [s2mm EXCEPT !.st = "IDLE", !.ioc = TRUE]
  /\ UNCHANGED <<mainVars, isrVars, accVars, mm2s, inBuf>>

Break ==
  /\ dmaErrors
  /\ \/ /\ mm2s.st = "BUSY"
        /\ mm2s' = [mm2s EXCEPT !.st = "HALTED", !.err = TRUE]
        /\ UNCHANGED s2mm
     \/ /\ s2mm.st \in {"ARMED", "FULL"}
        /\ s2mm' = [s2mm EXCEPT !.st = "HALTED", !.err = TRUE]
        /\ UNCHANGED mm2s
  /\ UNCHANGED <<mainVars, isrVars, accVars, inBuf, outBuf>>

Hardware == Take \/ Compute \/ Give \/ Settle \/ Land

(* The hardware has come to rest: what a loop still waits for never comes.   *)
AtRest ==
  /\ s2mm.st # "FULL"
  /\ \/ acc = "IDLE"
     \/ acc = "RECV" /\ mm2s.st # "BUSY"
     \/ acc = "SEND" /\ s2mm.st # "ARMED"

-------------------------------------------------------------------------------
(* Interrupt service routines.  They run between two steps of the main       *)
(* program, which stands still while accel_isr is under way.                *)

(* accel_isr reads IRQ_STATUS and sets the flag ... *)
IsrRead ==
  /\ ~isr /\ irqEn /\ irqPending
  /\ gDone' = TRUE
  /\ isr' = TRUE
  /\ UNCHANGED <<mainVars, accVars, dmaVars>>

(* Mutant: the write does not clear the bit. *)
AckLost == irqPending
Acked   == FALSE

(* ... and writes back what it read, which clears it. *)
IsrClear ==
  /\ isr
  /\ irqPending' = Acked
  /\ isr' = FALSE
  /\ UNCHANGED <<mainVars, gDone, acc, accInf, torn, irqEn, answered, dmaVars>>

DmaS2mmIsr ==
  /\ irqWired /\ ~isr /\ s2mm.irq /\ s2mm.ioc
  /\ s2mm' = [s2mm EXCEPT !.ioc = FALSE, !.err = FALSE]
  /\ UNCHANGED <<mainVars, isrVars, accVars, mm2s, inBuf, outBuf>>

Isr == IsrRead \/ IsrClear \/ DmaS2mmIsr

-------------------------------------------------------------------------------
(* Main program. *)

Main(at) == pc = at /\ ~isr
Return(code) == pc' = "APP" /\ rc' = code /\ UNCHANGED api
Goto(label) == pc' = label /\ UNCHANGED <<api, rc>>

IsReady == acc \in {"IDLE", "ANSWERED"}

(* The checks in front of accel_run_inference and accel_start_inference; a   *)
(* call that is told ACCEL_ERR_BUSY changes nothing.                        *)
Call(f) ==
  /\ Main("APP")
  /\ cur < MaxInferences
  /\ patient => collected = cur
  /\ IsReady
  /\ pc' = "ARM" /\ api' = f
  /\ cur' = cur + 1
  /\ IF f = "start" THEN gDone' = FALSE /\ asked' = cur + 1
     ELSE UNCHANGED <<gDone, asked>>
  /\ UNCHANGED <<rc, collected, output, isr, accVars, dmaVars>>

(* accel_get_output, which refuses while g_inference_done is down. *)
CallGetOutput ==
  /\ Main("APP")
  /\ gDone /\ collected < asked
  /\ pc' = "WAIT_S2MM" /\ api' = "get"
  /\ UNCHANGED <<rc, cur, asked, collected, output, isrVars, accVars, dmaVars>>

(* Only an idle channel takes a new length; status bits are left as they are.*)
Arm ==
  /\ Main("ARM")
  /\ s2mm' = [s2mm EXCEPT !.irq = (api = "start"),
                          !.st = IF @ = "IDLE" THEN "ARMED" ELSE @]
  /\ Goto(IF api = "start" THEN "ENABLE" ELSE "START")
  /\ UNCHANGED <<cur, asked, collected, output, isrVars, accVars, mm2s, inBuf, outBuf>>

(* Mutant: the argument done_irq is lost. *)
DoneIrqOff == FALSE
DoneIrqOn  == TRUE

EnableInterrupts ==
  /\ Main("ENABLE")
  /\ irqEn' = DoneIrqOn
  /\ Goto("START")
  /\ UNCHANGED <<cur, asked, collected, output, isrVars, acc, accInf, torn,
                 irqPending, answered, dmaVars>>

(* The top-level FSM looks at START in IDLE only.  (The clock of ANSWERED is  *)
(* over before the writes of Arm are.)                                     *)
Start ==
  /\ Main("START") /\ acc # "ANSWERED"
  /\ acc' = IF acc = "IDLE" THEN "RECV" ELSE acc
  /\ Goto("SEND")
  /\ UNCHANGED <<cur, asked, collected, output, isrVars, accInf, torn, irqEn,
                 irqPending, answered, dmaVars>>

Send ==
  /\ Main("SEND")
  /\ inBuf' = cur
  /\ mm2s' = [mm2s EXCEPT !.st = IF @ = "IDLE" THEN "BUSY" ELSE @]
  /\ Goto("WAIT_MM2S")
  /\ UNCHANGED <<cur, asked, collected, output, isrVars, accVars, s2mm, outBuf>>

(* The loop of dma_send_mm2s. *)
WaitMm2s ==
  /\ Main("WAIT_MM2S")
  /\ \/ /\ mm2s.err
        /\ mm2s' = [mm2s EXCEPT !.err = FALSE]
        /\ pc' = "RESET" /\ rc' = "DMA" /\ UNCHANGED api
     \/ /\ ~mm2s.err /\ mm2s.ioc
        /\ mm2s' = [mm2s EXCEPT !.ioc = FALSE]
        /\ IF api = "run" THEN Goto("POLL_DONE") ELSE Return("OK")
     \/ /\ ~mm2s.err /\ ~mm2s.ioc /\ AtRest
        /\ pc' = "RESET" /\ rc' = "TIMEOUT" /\ UNCHANGED <<api, mm2s>>
  /\ UNCHANGED <<cur, asked, collected, output, isrVars, accVars, s2mm, inBuf, outBuf>>

(* Mutant: the loop has no limit. *)
NoLimit  == FALSE
DoneSeen == acc = "ANSWERED"
GivesUp  == acc # "ANSWERED" /\ AtRest

(* The loop over STATUS in accel_run_inference. *)
PollDone ==
  /\ Main("POLL_DONE")
  /\ \/ DoneSeen /\ Goto("WAIT_S2MM")
     \/ GivesUp /\ pc' = "RESET" /\ rc' = "TIMEOUT" /\ UNCHANGED api
  /\ UNCHANGED <<cur, asked, collected, output, isrVars, accVars, dmaVars>>

(* A failed wait resets the accelerator in accel_run_inference, and returns  *)
(* the code in accel_get_output.                                           *)
Failed(code) ==
  /\ pc' = IF api = "run" THEN "RESET" ELSE "APP"
  /\ rc' = code
  /\ collected' = IF api = "get" THEN asked ELSE collected
  /\ UNCHANGED api

(* Mutant: the status bit is read but not written back. *)
IocKept(ch)  == ch
IocTaken(ch) == [ch EXCEPT !.ioc = FALSE]

(* dma_wait_s2mm. *)
WaitS2mm ==
  /\ Main("WAIT_S2MM")
  /\ \/ /\ s2mm.err
        /\ s2mm' = [s2mm EXCEPT !.err = FALSE]
        /\ Failed("DMA")
     \/ /\ ~s2mm.err /\ s2mm.ioc
        /\ s2mm' = IocTaken(s2mm)
        /\ Goto("COPY") /\ UNCHANGED collected
     \/ /\ ~s2mm.err /\ ~s2mm.ioc /\ AtRest
        /\ Failed("TIMEOUT") /\ UNCHANGED s2mm
  /\ UNCHANGED <<cur, asked, output, isrVars, accVars, mm2s, inBuf, outBuf>>

Copy ==
  /\ Main("COPY")
  /\ output' = outBuf
  /\ collected' = IF api = "get" THEN asked ELSE cur
  /\ Return("OK")
  /\ UNCHANGED <<cur, asked, isrVars, accVars, dmaVars>>

(* accel_reset on behalf of a failed call: SOFT_RST, and STATUS is idle.     *)
Reset ==
  /\ Main("RESET")
  /\ acc' = "IDLE"
  /\ torn' = (torn \/ acc \notin {"IDLE", "ANSWERED"})
  /\ collected' = cur
  /\ Return(rc)
  /\ irqPending' = (irqPending \/ acc = "ANSWERED")
  /\ UNCHANGED <<cur, asked, output, isrVars, accInf, irqEn, answered, dmaVars>>

MainStep ==
  \/ \E f \in calls : Call(f)
  \/ CallGetOutput \/ Arm \/ EnableInterrupts \/ Start \/ Send
  \/ WaitMm2s \/ PollDone \/ WaitS2mm \/ Copy \/ Reset

Next == (MainStep \/ Isr \/ Hardware \/ Break) /\ UNCHANGED usageVars

Spec == Init /\ [][Next]_vars

(* The hardware runs, an asserted interrupt is taken, and the processor      *)
(* executes the function it is in.  The application need not call anything.  *)
FairSpec ==
  /\ Spec
  /\ WF_vars(Hardware /\ UNCHANGED usageVars)
  /\ WF_vars(Isr /\ UNCHANGED usageVars)
  /\ WF_vars(pc # "APP" /\ MainStep /\ UNCHANGED usageVars)

-------------------------------------------------------------------------------
(* Every call returns: no polling loop waits for ever, a lost done included. *)
CallsReturn == (pc # "APP") ~> (pc = "APP")

(* The use the driver is right for: interrupt-driven inferences only, each   *)
(* result collected before the next call.  Blocking calls leave the done bit *)
(* in IRQ_STATUS and, when they give up, the completion bit in DMASR, and    *)
(* the next call cannot tell these from its own.                            *)
Careful == patient /\ calls = {"start"}

(* "Wait for S2MM DMA completion", then "copy output": ACCEL_OK comes with    *)
(* the result of the inference that was asked for.                         *)
OkMeansOutput ==
  Careful /\ pc = "APP" /\ api = "get" /\ rc = "OK" => output = asked

(* The flag and the callback are about the inference started last, although  *)
(* the event passes through IRQ_STATUS and an ISR that may be late.          *)
FlagIsThisInference == Careful /\ gDone => answered >= asked

(* An inference that accel_start_inference accepted is reported: neither its  *)
(* event nor the flag is lost on the way through IRQ_STATUS and the ISR.     *)
EveryStartIsReported ==
  (Careful /\ ~dmaErrors /\ pc = "APP" /\ api = "start" /\ rc = "OK") ~> gDone

(* "Returns ACCEL_OK if done, ACCEL_ERR_BUSY if still running": so it should   *)
(* be for every patient application, also when it calls both functions.      *)
DoneMeansDone == patient /\ gDone => answered >= asked
===============================================================================
