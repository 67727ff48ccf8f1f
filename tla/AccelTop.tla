------------------------------- MODULE AccelTop -------------------------------
(***************************************************************************)
(* The generated accelerator_top: the top-level FSM, the two activation     *)
(* banks and the multiplexer in front of them, the streams, one layer       *)
(* controller and one MAC array shared by all layers, and the status        *)
(* registers, as rtl_lowering.py emits them.  One step is one clock edge of *)
(* all of them.                                                            *)
(*                                                                         *)
(* A word of activations is abstracted to what it is: word pos of the       *)
(* output of layer stage - 1 (stage 0: of the input packet) in inference    *)
(* inf.  Layers have one tile; LayerEngine covers tiles and the position of  *)
(* each operand.  Memory contents before the first write are Junk.          *)
(***************************************************************************)
EXTENDS LayerCtrl, MacArray, AxiStreams

CONSTANTS
  NumLayers,
  LayerInDim,    (* LAYER_IN_DIM, for the layers 0 .. NumLayers - 1          *)
  StrayDims,     (* what LAYER_IN_DIM may yield past its end                *)
  MaxInferences, (* bound: how often the host starts the accelerator        *)
  PatientHost,   (* the host starts and resets an engine at rest only         *)
  HostResets     (* the host may write SOFT_RST                             *)

ASSUME TopAssumption ==
  /\ NumLayers \in Nat \ {0}
  /\ LayerInDim \in [0 .. NumLayers - 1 -> 1 .. CountMod - 1]
  /\ StrayDims \subseteq 0 .. CountMod - 1
  /\ StrayDims # {}
  /\ MaxInferences \in Nat
  /\ {PatientHost, HostResets} \subseteq BOOLEAN

VARIABLES
  topState, layerIdx,                  (* the top-level FSM                 *)
  statusDone, irqDone, infCount,       (* status registers                  *)
  bankA, bankB, rdA, rdB,              (* banks and their read registers    *)
  sums,                                (* what the accumulators contain     *)
  result,                              (* what output_data is, without pos  *)
  strayDim,                            (* the build's LAYER_IN_DIM[NumLayers] *)
  started, sent, received              (* host: inferences started, words of
                                          packets sent and received         *)

topVars == <<topState, layerIdx, statusDone, irqDone, infCount>>
memVars == <<bankA, bankB, rdA, rdB, sums, result>>
hostVars == <<started, sent, received>>
vars == <<lcVars, macVars, siVars, soVars, topVars, memVars, strayDim, hostVars>>

TopStates == {"IDLE", "RECV_IN", "RUN_LAYER", "NEXT_LAYER", "SEND_OUT", "DONE"}

Words == 0 .. ActDepth - 1
Word(i, s, p) == [inf |-> i, stage |-> s, pos |-> p]
Junk == Word(0, 0, 0)
Empty == [biases |-> {}, inputs |-> {}]

TypeOK ==
  /\ LcTypeOK /\ MacTypeOK /\ SiTypeOK /\ SoTypeOK
  /\ topState \in TopStates
  /\ layerIdx \in 0 .. NumLayers
  /\ {statusDone, irqDone} \subseteq BOOLEAN
  /\ infCount \in Nat
  /\ started \in 0 .. MaxInferences
  /\ sent \in 0 .. started * ActDepth

Init ==
  /\ LcInit /\ MacInit /\ SiInit /\ SoInit
  /\ topState = "IDLE" /\ layerIdx = 0
  /\ statusDone = FALSE /\ irqDone = FALSE /\ infCount = 0
  /\ bankA = [w \in Words |-> Junk]
  /\ bankB = [w \in Words |-> Junk]
  /\ rdA = Junk /\ rdB = Junk
  /\ sums = Empty
  /\ result = [inf |-> 0, stage |-> 0]
  /\ strayDim \in StrayDims
  /\ started = 0 /\ sent = 0 /\ received = 0

-------------------------------------------------------------------------------
(* Wires. *)

InDim == IF layerIdx < NumLayers THEN LayerInDim[layerIdx] ELSE strayDim

InEnable   == topState = "RECV_IN"
OutEnable  == topState = "SEND_OUT"

(* Mutant: only the first layer is started. *)
FirstLayerStart == topState = "RECV_IN" /\ siDone
LayerStart == topState = "NEXT_LAYER" \/ (topState = "RECV_IN" /\ siDone)
MacStart   == LcMacStart(LayerStart)

(* Mutant: the bank select is inverted. *)
ReadsA == layerIdx % 2 = 0

(* input_bank_sel: odd layers read bank B and write bank A. *)
ReadsB == layerIdx % 2 = 1

LayerOutWord == Word(result.inf, result.stage, lcWrite)
HostWord     == Word(sent \div ActDepth + 1, 0, sent % ActDepth)

(* The bank multiplexer.  In RECV_IN and SEND_OUT the streams own bank A    *)
(* and nothing reaches bank B; in every other state, IDLE included, the     *)
(* layer controller owns both.                                             *)
ToBankA(tvalid) ==
  CASE topState = "RECV_IN"  -> [addr |-> SiAddr, we |-> SiTakes(InEnable, tvalid),
                                 data |-> HostWord]
    [] topState = "SEND_OUT" -> [addr |-> SoAddr, we |-> FALSE, data |-> Junk]
    [] OTHER -> IF ReadsB
                THEN [addr |-> LcWriteWord % ActDepth, we |-> LcWriteEn,
                      data |-> LayerOutWord]
                ELSE [addr |-> LcActRdAddr % ActDepth, we |-> FALSE, data |-> Junk]

ToBankB ==
  IF topState \in {"RECV_IN", "SEND_OUT"} THEN [addr |-> 0, we |-> FALSE, data |-> Junk]
  ELSE IF ReadsB THEN [addr |-> LcActRdAddr % ActDepth, we |-> FALSE, data |-> Junk]
  ELSE [addr |-> LcWriteWord % ActDepth, we |-> LcWriteEn, data |-> LayerOutWord]

-------------------------------------------------------------------------------
(* The always_ff blocks. *)

(* Mutant: the last layer is not run. *)
LastLayerEarly == layerIdx + 2 >= NumLayers
LastLayer      == layerIdx = NumLayers - 1

EndsOnEdge == topState = "DONE"

TopNextState(start) ==
  CASE topState = "IDLE"       -> IF start THEN "RECV_IN" ELSE "IDLE"
    [] topState = "RECV_IN"    -> IF siDone THEN "RUN_LAYER" ELSE "RECV_IN"
    [] topState = "RUN_LAYER"  -> IF LcLayerDone THEN "NEXT_LAYER" ELSE "RUN_LAYER"
    [] topState = "NEXT_LAYER" -> IF LastLayer THEN "SEND_OUT" ELSE "RUN_LAYER"
    [] topState = "SEND_OUT"   -> IF SoDone THEN "DONE" ELSE "SEND_OUT"
    [] topState = "DONE"       -> "IDLE"

(* SOFT_RST resets the state register and nothing else. *)
TopFsm(start, softRst) ==
  /\ topState' = IF softRst THEN "IDLE" ELSE TopNextState(start)
  /\ layerIdx' = IF topState = "IDLE" THEN 0
                 ELSE IF topState = "NEXT_LAYER" THEN layerIdx + 1 ELSE layerIdx

(* The cycle counter beside these is left out: nothing depends on it.       *)
Status ==
  /\ statusDone' = (topState = "DONE" \/ (topState # "IDLE" /\ statusDone))
  /\ irqDone' = (topState = "DONE")
  /\ infCount' = IF EndsOnEdge THEN infCount + 1 ELSE infCount

(* Read-first memories: the read register gets the word before the write.   *)
Banks(tvalid) ==
  LET a == ToBankA(tvalid) IN
  /\ bankA' = IF a.we THEN [bankA EXCEPT ![a.addr] = a.data] ELSE bankA
  /\ bankB' = IF ToBankB.we THEN [bankB EXCEPT ![ToBankB.addr] = ToBankB.data] ELSE bankB
  /\ rdA' = bankA[a.addr]
  /\ rdB' = bankB[ToBankB.addr]

(* The accumulators collect the layers whose biases and weights, and the    *)
(* activations that, went into them.                                       *)
Sums ==
  LET word == IF ReadsB THEN rdB ELSE rdA IN
  sums' = IF MacLoads(LcBiasValid)
          THEN [biases |-> {layerIdx} \cup IF lcBias = 0 THEN {} ELSE sums.biases,
                inputs |-> {}]
          ELSE IF MacAccumulates(LcInputValid)
          THEN [sums EXCEPT !.inputs = @ \cup {<<layerIdx, word.inf, word.stage>>}]
          ELSE sums

(* The sums are layer l of inference i when they started from its biases    *)
(* and nothing but its input went through its weights.                      *)
IsLayer(l, i) ==
  /\ layerIdx = l
  /\ sums = [biases |-> {l}, inputs |-> {<<l, i, l>>}]

Output ==
  result' =
    IF ~MacLatches THEN result
    ELSE IF \E l \in 0 .. NumLayers - 1, i \in 1 .. MaxInferences : IsLayer(l, i)
    THEN CHOOSE r \in [inf : 1 .. MaxInferences, stage : 1 .. NumLayers] :
           IsLayer(r.stage - 1, r.inf)
    ELSE [inf |-> 0, stage |-> 0]

(* The host's side.  Its DMA sends one packet per inference and may offer   *)
(* the next one at any time; after a soft reset the rest of the packet is   *)
(* dropped.                                                                *)
Host(start, softRst, tvalid, tready) ==
  /\ start => started < MaxInferences /\ topState = "IDLE"
  /\ softRst => HostResets /\ ~start
  /\ PatientHost /\ (start \/ softRst) =>
       topState = "IDLE" /\ lcState = "IDLE" /\ macState = "IDLE"
  /\ tvalid => sent < MaxInferences * ActDepth
  /\ started' = IF start THEN started + 1 ELSE started
  /\ sent' = IF softRst THEN started * ActDepth
             ELSE IF SiTakes(InEnable, tvalid) THEN sent + 1 ELSE sent
  /\ received' = IF softRst THEN started * ActDepth
                 ELSE IF SoValid /\ tready THEN received + 1 ELSE received

(* One clock edge. *)
Clk(start, softRst, tvalid, tready) ==
  /\ TopFsm(start, softRst)
  /\ Status
  /\ Banks(tvalid)
  /\ Sums
  /\ Output
  /\ LcClk(LayerStart, InDim, 1, MacDone)
  /\ MacClk(MacStart, InDim, LcInputValid, LcBiasValid)
  /\ SiClk(InEnable, tvalid, (sent + 1) % ActDepth = 0)
  /\ SoClk(OutEnable, tready)
  /\ Host(start, softRst, tvalid, tready)
  /\ UNCHANGED strayDim

Next == \E start, softRst, tvalid, tready \in BOOLEAN : Clk(start, softRst, tvalid, tready)

Spec == Init /\ [][Next]_vars

(* The clock runs and the DMA engines move their data on: infinitely often  *)
(* an edge finds m_axis_tready high, and s_axis_tvalid too while there are  *)
(* packets left.  Nothing makes the host start or reset.                    *)
FairSpec ==
  Spec /\ WF_vars(Clk(FALSE, FALSE, sent < MaxInferences * ActDepth, TRUE))

-------------------------------------------------------------------------------
(* Whatever the accelerator offers its host is the answer to the inference  *)
(* the host started last: all layers applied in order to that inference's   *)
(* packet, word by word.  The banks are shared by every inference and every *)
(* layer and are never cleared, and one array accumulates for all of them.  *)
OutputIsThisInference == SoValid => rdA = Word(started, NumLayers, soBeat)

(* As long as the host takes and gives words, an inference ends.            *)
EveryInferenceEnds == (topState # "IDLE") ~> (topState = "IDLE")

(* To its host the accelerator is InferenceService. *)
Service == INSTANCE InferenceService WITH
  busy  <- topState # "IDLE",
  taken <- IF started = 0 THEN 0 ELSE sent - (started - 1) * ActDepth,
  given <- IF started = 0 THEN 0 ELSE received - (started - 1) * ActDepth,
  offer <- IF ~SoValid THEN <<>>
           ELSE IF rdA.stage = NumLayers /\ rdA.pos = soBeat THEN <<rdA.inf, soBeat>>
           ELSE <<0, 0>>

ImplementsService == Service!Spec

(* "Wait for STATUS_DONE (polling or interrupt)": done can be polled for,   *)
(* it stays up until the next inference.                                   *)
DoneStaysUntilStart == [][statusDone /\ topState' = "IDLE" => statusDone']_vars
===============================================================================
