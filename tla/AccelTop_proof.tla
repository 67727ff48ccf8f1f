---------------------------- MODULE AccelTop_proof ----------------------------
(***************************************************************************)
(* Proofs about AccelTop: a patient host gets the answer to its inference,    *)
(* for every even number of layers of one tile, every input dimension, every  *)
(* number of lanes and of inferences, whatever LAYER_IN_DIM yields past its    *)
(* end, with and without soft resets.  The inductive invariant says for every *)
(* state of the top-level FSM what the banks hold and where controller and     *)
(* array are; of the run of the controller behind the last layer it need not   *)
(* say anything.                                                           *)
(***************************************************************************)
EXTENDS AccelTop, TLAPS

AtRest == lcState = "IDLE" /\ macState = "IDLE"

(* A memory has every word; nothing is said of their values. *)
IsBank(bank) == bank = [w \in Words |-> bank[w]]

(* The bank layer s reads, and its read register. *)
In(s) == IF s % 2 = 1 THEN bankB ELSE bankA
Rd(s) == IF s % 2 = 1 THEN rdB ELSE rdA

(* The first n words of what layer s reads, in the inference under way.      *)
Holds(s, n) == \A w \in Words : w < n => In(s)[w] = Word(started, s, w)

Sum(ins) == sums = [biases |-> {layerIdx}, inputs |-> ins]
ThisInput == {<<layerIdx, started, layerIdx>>}
ThisResult == result = [inf |-> started, stage |-> layerIdx + 1]

(* The phases of a layer. *)
LoadingBias ==
  /\ lcState = "LOAD_BIAS" /\ macState = "BIAS_LOAD"
  /\ lcBias \in 0 .. Parallelism - 1 /\ macBias = lcBias /\ lcInput = 0
  /\ lcBias # 0 => Sum({})

Computing ==
  /\ lcState = "COMPUTE" /\ macState = "COMPUTE"
  /\ lcInput \in 0 .. InDim - 1 /\ macCompute = lcInput
  /\ Rd(layerIdx).inf = started /\ Rd(layerIdx).stage = layerIdx
  /\ Sum(IF lcInput = 0 THEN {} ELSE ThisInput)

WaitingForMac ==
  /\ lcState = "WAIT_MAC"
  /\ Sum(ThisInput)
  /\ \/ macState = "COMPUTE" /\ macCompute = InDim
     \/ macState = "REQUANT" /\ macRequant \in 0 .. 3
     \/ macState \in {"OUTPUT", "DONE"} /\ ThisResult

WritingTile ==
  /\ lcState = "WRITE_TILE" /\ macState = "IDLE"
  /\ ThisResult
  /\ lcWrite \in 0 .. ActDepth - 1
  /\ Holds(layerIdx + 1, lcWrite)

TileInBank ==
  /\ lcState \in {"NEXT_TILE", "DONE"} /\ macState = "IDLE"
  /\ Holds(layerIdx + 1, ActDepth)

(* The states of the top-level FSM. *)
Idling ==
  /\ topState = "IDLE"
  /\ started \in Nat /\ sent = started * ActDepth
  /\ ~siReceiving /\ ~siDone /\ soState = "IDLE"

Busy == started \in 1 .. MaxInferences /\ (topState # "SEND_OUT" => soState = "IDLE")

Receiving ==
  /\ topState = "RECV_IN" /\ Busy
  /\ AtRest /\ layerIdx = 0
  /\ siReceiving \in BOOLEAN /\ siDone \in BOOLEAN
  /\ ~siReceiving /\ ~siDone => sent = (started - 1) * ActDepth
  /\ siReceiving =>
       /\ ~siDone /\ siBeat \in 0 .. ActDepth - 1
       /\ sent = (started - 1) * ActDepth + siBeat
       /\ Holds(0, siBeat)
  /\ siDone => sent = started * ActDepth /\ Holds(0, ActDepth)

PacketTaken == Busy /\ ~siReceiving /\ sent = started * ActDepth

RunningLayer ==
  /\ topState = "RUN_LAYER" /\ PacketTaken
  /\ layerIdx \in 0 .. NumLayers - 1
  /\ siDone => lcState = "LOAD_BIAS"
  /\ Holds(layerIdx, ActDepth)
  /\ lcState # "DONE" => lcTile = 0
  /\ LoadingBias \/ Computing \/ WaitingForMac \/ WritingTile \/ TileInBank

BetweenLayers ==
  /\ topState = "NEXT_LAYER" /\ PacketTaken /\ ~siDone
  /\ layerIdx \in 0 .. NumLayers - 1
  /\ AtRest
  /\ Holds(layerIdx + 1, ActDepth)

Sending ==
  /\ topState = "SEND_OUT" /\ PacketTaken /\ ~siDone
  /\ Holds(NumLayers, ActDepth)
  /\ soState \in {"IDLE", "READ", "TRANSMIT", "DONE"}
  /\ soState \in {"READ", "TRANSMIT"} => soBeat \in 0 .. ActDepth - 1
  /\ soState = "TRANSMIT" => rdA = Word(started, NumLayers, soBeat)

Ending == topState = "DONE" /\ PacketTaken /\ ~siDone

IInv ==
  /\ IsBank(bankA) /\ IsBank(bankB)
  /\ Idling \/ Receiving \/ RunningLayer \/ BetweenLayers \/ Sending \/ Ending

(* The host waits until the engine is at rest; a tile fills a bank; the last  *)
(* layer writes bank A, which is the one that is sent.                       *)
Premises ==
  /\ PatientHost
  /\ ActDepth = WordsPerTile
  /\ NumLayers % 2 = 0

-------------------------------------------------------------------------------
(* Arithmetic. *)

(* A counter of modulus m stays in its range, and does not wrap below it.   *)
LEMMA Successor ==
  ASSUME NEW m \in Nat \ {0}, NEW x \in 0 .. m - 1
  PROVE  /\ (x + 1) % m \in 0 .. m - 1
         /\ x + 1 < m => (x + 1) % m = x + 1
         /\ x + 1 = m => (x + 1) % m = 0
         /\ x % m = x
  OBVIOUS

(* A remainder is below its modulus.                                        *)
LEMMA ModRange ==
  ASSUME NEW m \in Nat \ {0}, NEW x \in Nat
  PROVE  x % m \in 0 .. m - 1
  OBVIOUS

(* The hardware's subtraction of one does not wrap for a positive width.    *)
LEMMA MinusOne ==
  ASSUME NEW x \in 1 .. CountMod - 1
  PROVE  Minus1(x) = x - 1
  BY GeometryAssumption DEF Minus1

(* Neighbouring layers read different banks. *)
LEMMA Alternate ==
  ASSUME NEW n \in Nat
  PROVE  /\ n % 2 = 1 => (n + 1) % 2 # 1
         /\ n % 2 # 1 => (n + 1) % 2 = 1
  OBVIOUS

(* Word r of packet q. *)
LEMMA PacketPos ==
  ASSUME NEW d \in Nat \ {0}, NEW q \in Nat, NEW r \in 0 .. d - 1
  PROVE  (q * d + r) \div d = q /\ (q * d + r) % d = r
  OBVIOUS

-------------------------------------------------------------------------------
(* One edge of each block. *)

(* The controller: states and counters, state by state, for a layer of one tile. *)
LEMMA LcStep ==
  ASSUME NEW s, NEW d, LcClk(s, d, 1, MacDone)
  PROVE  /\ lcState = "IDLE" => /\ lcState' = IF s THEN "LOAD_BIAS" ELSE "IDLE"
                                /\ lcTile' = 0 /\ lcBias' = 0 /\ lcInput' = 0
         /\ lcState = "LOAD_BIAS" =>
              /\ lcState' = IF lcBias = Parallelism - 1 THEN "COMPUTE" ELSE "LOAD_BIAS"
              /\ lcBias' = (lcBias + 1) % Parallelism
              /\ lcTile' = lcTile /\ lcInput' = 0
         /\ lcState = "COMPUTE" =>
              /\ lcState' = IF lcInput = Minus1(d) THEN "WAIT_MAC" ELSE "COMPUTE"
              /\ lcInput' = (lcInput + 1) % CountMod
              /\ lcTile' = lcTile
         /\ lcState = "WAIT_MAC" =>
              /\ lcState' = IF MacDone THEN "WRITE_TILE" ELSE "WAIT_MAC"
              /\ lcTile' = lcTile /\ lcWrite' = 0
         /\ lcState = "WRITE_TILE" =>
              /\ lcState' = IF lcWrite = WordsPerTile - 1 THEN "NEXT_TILE" ELSE "WRITE_TILE"
              /\ lcTile' = lcTile /\ lcWrite' = lcWrite + 1
         /\ lcState = "NEXT_TILE" =>
              lcState' = IF lcTile = Minus1(1) THEN "DONE" ELSE "LOAD_BIAS"
         /\ lcState = "DONE" => lcState' = "IDLE"
  BY Zenon DEF LcClk, LcNextState, TileWritten

(* The array: states and counters, state by state.                          *)
LEMMA MacStep ==
  ASSUME NEW s, NEW d, MacClk(s, d, LcInputValid, LcBiasValid)
  PROVE  /\ macState = "IDLE" => /\ macState' = IF s THEN "BIAS_LOAD" ELSE "IDLE"
                                 /\ macBias' = 0
         /\ macState = "BIAS_LOAD" =>
              /\ macState' = IF macBias = Parallelism - 1 THEN "COMPUTE" ELSE "BIAS_LOAD"
              /\ lcState = "LOAD_BIAS" => macBias' = (macBias + 1) % Parallelism
              /\ macCompute' = 0
         /\ macState = "COMPUTE" =>
              /\ macState' = IF macCompute = d THEN "REQUANT" ELSE "COMPUTE"
              /\ lcState = "COMPUTE" => macCompute' = (macCompute + 1) % CountMod
              /\ macRequant' = 0
         /\ macState = "REQUANT" =>
              /\ macState' = IF macRequant = 3 THEN "OUTPUT" ELSE "REQUANT"
              /\ macRequant' = (macRequant + 1) % 4
         /\ macState = "OUTPUT" => macState' = "DONE"
         /\ macState = "DONE" => macState' = "IDLE"
  BY Zenon DEF MacClk, MacNextState, MacSummed, MacLoads, LcInputValid, LcBiasValid

(* A write changes one word. *)
LEMMA WriteWord ==
  ASSUME NEW bank, IsBank(bank), NEW x, NEW v
  PROVE  /\ IsBank([bank EXCEPT ![x] = v])
         /\ x \in Words => [bank EXCEPT ![x] = v][x] = v
         /\ \A w \in Words : w # x => [bank EXCEPT ![x] = v][w] = bank[w]
  BY DEF IsBank

(* A write adds no word to a memory and removes none.                       *)
LEMMA BanksStay ==
  ASSUME IsBank(bankA), IsBank(bankB), NEW tvalid, Banks(tvalid)
  PROVE  IsBank(bankA)' /\ IsBank(bankB)'
<1>1. IsBank(bankA')
  BY WriteWord DEF Banks
<1>2. IsBank(bankB')
  BY WriteWord DEF Banks
<1> QED BY <1>1, <1>2 DEF IsBank, Words

(* While an inference runs the patient host leaves the engine alone.         *)
LEMMA HostWaits ==
  ASSUME Premises, topState # "IDLE",
         NEW start \in BOOLEAN, NEW softRst \in BOOLEAN,
         NEW tvalid \in BOOLEAN, NEW tready \in BOOLEAN,
         Clk(start, softRst, tvalid, tready)
  PROVE  /\ topState' = TopNextState(FALSE)
         /\ started' = started
         /\ sent' = IF topState = "RECV_IN" /\ siReceiving /\ tvalid THEN sent + 1 ELSE sent
         /\ layerIdx' = IF topState = "NEXT_LAYER" THEN layerIdx + 1 ELSE layerIdx
         /\ strayDim' = strayDim
<1>1. start = FALSE /\ softRst = FALSE
  BY DEF Clk, Host, Premises
<1> QED
  BY <1>1 DEF Clk, Host, TopFsm, SiTakes, SiReady, InEnable

(* Outside RECV_IN the receiver is off, outside SEND_OUT the transmitter      *)
(* stays idle.                                                             *)
LEMMA StreamsOff ==
  ASSUME NEW start \in BOOLEAN, NEW softRst \in BOOLEAN,
         NEW tvalid \in BOOLEAN, NEW tready \in BOOLEAN,
         Clk(start, softRst, tvalid, tready)
  PROVE  /\ topState # "RECV_IN" => siReceiving' = FALSE /\ siDone' = FALSE
         /\ topState # "SEND_OUT" /\ soState = "IDLE" => soState' = "IDLE"
<1>1. topState # "RECV_IN" => siReceiving' = FALSE /\ siDone' = FALSE
  BY DEF Clk, SiClk, SiTakes, SiReady, InEnable
<1>2. topState # "SEND_OUT" /\ soState = "IDLE" => soState' = "IDLE"
  BY DEF Clk, SoClk, SoNextState, OutEnable
<1> QED BY <1>1, <1>2

(* An engine at rest stays so until the FSM starts it, and then starts with   *)
(* all counters at 0.                                                      *)
LEMMA EngineStart ==
  ASSUME AtRest, NEW start \in BOOLEAN, NEW softRst \in BOOLEAN,
         NEW tvalid \in BOOLEAN, NEW tready \in BOOLEAN,
         Clk(start, softRst, tvalid, tready)
  PROVE  /\ ~LayerStart => AtRest'
         /\ LayerStart => /\ lcState' = "LOAD_BIAS" /\ macState' = "BIAS_LOAD"
                          /\ lcTile' = 0 /\ lcBias' = 0 /\ lcInput' = 0 /\ macBias' = 0
<1>1. LcClk(LayerStart, InDim, 1, MacDone)
      /\ MacClk(MacStart, InDim, LcInputValid, LcBiasValid)
  BY DEF Clk
<1>2. MacStart <=> LayerStart
  BY DEF MacStart, LcMacStart, AtRest
<1>3. /\ lcState' = IF LayerStart THEN "LOAD_BIAS" ELSE "IDLE"
      /\ lcTile' = 0 /\ lcBias' = 0 /\ lcInput' = 0
  BY <1>1, LcStep DEF AtRest
<1>4. macState' = (IF MacStart THEN "BIAS_LOAD" ELSE "IDLE") /\ macBias' = 0
  BY <1>1, MacStep, Zenon DEF AtRest
<1>5. CASE LayerStart
  BY <1>2, <1>3, <1>4, <1>5, Zenon
<1>6. CASE ~LayerStart
  BY <1>2, <1>3, <1>4, <1>6, Zenon DEF AtRest
<1> QED BY <1>5, <1>6

-------------------------------------------------------------------------------
(* At rest between two inferences. *)
LEMMA IdleStep ==
  ASSUME Premises, Idling, NEW start \in BOOLEAN, NEW softRst \in BOOLEAN,
         NEW tvalid \in BOOLEAN, NEW tready \in BOOLEAN,
         Clk(start, softRst, tvalid, tready)
  PROVE  Idling' \/ Receiving'
<1>1. /\ siReceiving' = FALSE /\ siDone' = FALSE /\ soState' = "IDLE"
      /\ layerIdx' = 0
      /\ topState' = IF ~softRst /\ start THEN "RECV_IN" ELSE "IDLE"
  BY StreamsOff DEF Idling, Clk, TopFsm, TopNextState
<1>2. sent' = started * ActDepth
  BY DEF Idling, Clk, Host, SiTakes, SiReady, InEnable
<1>3. CASE start
  <2>1. ~softRst /\ started < MaxInferences /\ started' = started + 1 /\ AtRest
    BY <1>3 DEF Clk, Host, Premises, AtRest
  <2>2. ~LayerStart
    BY DEF LayerStart, Idling
  <2>3. AtRest'
    BY <2>1, <2>2, EngineStart
  <2>4. started' \in 1 .. MaxInferences /\ started' - 1 = started
    BY <2>1, TopAssumption DEF Idling
  <2> QED BY <1>1, <1>2, <1>3, <2>1, <2>3, <2>4 DEF Receiving, Busy
<1>4. CASE ~start
  <2>1. started' = started
    BY <1>4 DEF Clk, Host
  <2> QED BY <1>1, <1>2, <1>4, <2>1 DEF Idling
<1> QED BY <1>3, <1>4

(* The receiver writes bank A in order. *)
LEMMA ReceiveStep ==
  ASSUME Premises, IsBank(bankA), Receiving,
         NEW start \in BOOLEAN, NEW softRst \in BOOLEAN,
         NEW tvalid \in BOOLEAN, NEW tready \in BOOLEAN,
         Clk(start, softRst, tvalid, tready)
  PROVE  Receiving' \/ RunningLayer'
<1> USE GeometryAssumption, TopAssumption
<1>1. /\ topState' = IF siDone THEN "RUN_LAYER" ELSE "RECV_IN"
      /\ started' = started /\ layerIdx' = 0
      /\ sent' = IF siReceiving /\ tvalid THEN sent + 1 ELSE sent
  BY HostWaits DEF Receiving, TopNextState
<1>2. soState' = "IDLE" /\ Busy'
  BY <1>1, StreamsOff DEF Receiving, Busy
<1>3. LayerStart <=> siDone
  BY DEF LayerStart, Receiving
<1>4. /\ ToBankA(tvalid).addr = siBeat % ActDepth
      /\ ToBankA(tvalid).we = (siReceiving /\ tvalid)
      /\ ToBankA(tvalid).data = HostWord
  BY DEF ToBankA, Receiving, SiAddr, SiTakes, SiReady, InEnable
<1>5. bankA' = IF siReceiving /\ tvalid
               THEN [bankA EXCEPT ![siBeat % ActDepth] = HostWord] ELSE bankA
  BY <1>4 DEF Clk, Banks
<1>6. CASE siDone
  <2>1. ~siReceiving /\ sent = started * ActDepth /\ Holds(0, ActDepth)
    BY <1>6 DEF Receiving
  <2>2. siReceiving' = siReceiving
    BY <1>6, <2>1 DEF Clk, SiClk, SiTakes, SiReady, InEnable, Receiving, siVars
  <2>3. bankA' = bankA /\ sent' = sent
    BY <1>1, <1>5, <2>1
  <2>4. Holds(0, ActDepth)'
    BY <1>1, <2>1, <2>3 DEF Holds, In, Words, Word
  <2>5. LoadingBias' /\ lcTile' = 0
    BY <1>3, <1>6, EngineStart DEF LoadingBias, Receiving
  <2>6. layerIdx' \in 0 .. NumLayers - 1 /\ lcState' = "LOAD_BIAS"
    BY <1>1, <2>5 DEF LoadingBias
  <2>7. PacketTaken'
    BY <1>1, <1>2, <2>1, <2>2, <2>3 DEF PacketTaken
  <2>8. Holds(layerIdx, ActDepth)'
    BY <1>1, <2>4 DEF Holds, In
  <2> QED BY <1>1, <1>6, <2>5, <2>6, <2>7, <2>8 DEF RunningLayer
<1>7. CASE ~siDone
  <2>1. AtRest' /\ topState' = "RECV_IN"
    BY <1>1, <1>3, <1>7, EngineStart DEF Receiving
  <2>2. CASE ~siReceiving
    <3>1. siReceiving' = TRUE /\ siBeat' = 0 /\ siDone' = siDone
      BY <1>7, <2>2 DEF Clk, SiClk, InEnable, Receiving
    <3>2. sent' = (started' - 1) * ActDepth
      BY <1>1, <1>7, <2>2 DEF Receiving, Busy
    <3>3. Holds(0, siBeat)'
      BY <3>1 DEF Holds, Words
    <3> QED BY <1>1, <1>2, <1>7, <2>1, <3>1, <3>2, <3>3 DEF Receiving
  <2>3. CASE siReceiving /\ ~tvalid
    <3>1. UNCHANGED siVars
      BY <1>7, <2>3 DEF Clk, SiClk, SiTakes, SiReady, InEnable, Receiving
    <3>2. bankA' = bankA /\ sent' = sent
      BY <1>1, <1>5, <2>3
    <3>3. Holds(0, siBeat)'
      BY <1>1, <2>3, <3>1, <3>2 DEF Receiving, Holds, In, Words, Word, siVars
    <3> QED BY <1>1, <1>2, <1>7, <2>1, <2>3, <3>1, <3>2, <3>3 DEF Receiving, siVars
  <2>4. CASE siReceiving /\ tvalid
    <3> DEFINE q == started - 1
    <3>1. /\ siBeat \in 0 .. ActDepth - 1 /\ sent = q * ActDepth + siBeat
          /\ q \in Nat /\ Holds(0, siBeat)
      BY <2>4 DEF Receiving, Busy
    <3>2. HostWord = Word(started, 0, siBeat) /\ siBeat % ActDepth = siBeat
      <4>1. sent \div ActDepth = q /\ sent % ActDepth = siBeat
        BY <3>1, PacketPos
      <4>2. siBeat % ActDepth = siBeat
        BY <3>1, Successor
      <4>3. sent \div ActDepth + 1 = started
        BY <4>1 DEF Receiving, Busy
      <4> QED BY <4>1, <4>2, <4>3 DEF HostWord
    <3>3. bankA' = [bankA EXCEPT ![siBeat] = Word(started, 0, siBeat)]
      BY <1>5, <2>4, <3>2
    <3>4. ASSUME NEW w \in Words, w < siBeat + 1
          PROVE  bankA'[w] = Word(started, 0, w)
      <4>1. CASE w = siBeat
        BY <3>3, <4>1 DEF IsBank
      <4>2. CASE w # siBeat
        <5>1. w < siBeat
          BY <3>1, <3>4, <4>2 DEF Words
        <5>2. bankA[w] = Word(started, 0, w)
          BY <3>1, <5>1 DEF Holds, In
        <5> QED BY <3>3, <4>2, <5>2, WriteWord
      <4> QED BY <4>1, <4>2
    <3>5. siBeat' = siBeat + 1
      BY <1>7, <2>4 DEF Clk, SiClk, SiTakes, SiReady, InEnable, Receiving
    <3>6. Holds(0, siBeat)'
      BY <1>1, <3>4, <3>5 DEF Holds, In, Words, Word
    <3>7. sent' = q * ActDepth + (siBeat + 1)
      BY <1>1, <2>4, <3>1
    <3>8. SiLast((sent + 1) % ActDepth = 0) <=> siBeat = ActDepth - 1
      <4>1. CASE siBeat = ActDepth - 1
        BY <4>1 DEF SiLast
      <4>2. CASE siBeat # ActDepth - 1
        <5>1. siBeat + 1 \in 0 .. ActDepth - 1
          BY <3>1, <4>2
        <5>2. (q * ActDepth + (siBeat + 1)) % ActDepth = siBeat + 1
          BY <3>1, <5>1, PacketPos
        <5>3. sent + 1 = q * ActDepth + (siBeat + 1)
          BY <3>1
        <5>4. (sent + 1) % ActDepth # 0
          BY <3>1, <5>2, <5>3
        <5> QED BY <4>2, <5>4 DEF SiLast
      <4> QED BY <4>1, <4>2
    <3>9. IF siBeat = ActDepth - 1 THEN siReceiving' = FALSE /\ siDone' = TRUE
          ELSE siReceiving' = TRUE /\ siDone' = FALSE
      BY <1>7, <2>4, <3>8 DEF Clk, SiClk, SiTakes, SiReady, InEnable, Receiving
    <3>10. CASE siBeat = ActDepth - 1
      <4>1. sent' = started' * ActDepth
        BY <1>1, <3>1, <3>7, <3>10 DEF Receiving, Busy
      <4>2. Holds(0, ActDepth)' /\ siReceiving' = FALSE /\ siDone' = TRUE
        BY <3>1, <3>5, <3>6, <3>9, <3>10
      <4> QED BY <1>1, <1>2, <2>1, <4>1, <4>2 DEF Receiving
    <3>11. CASE siBeat # ActDepth - 1
      <4>1. siBeat' \in 0 .. ActDepth - 1 /\ siReceiving' = TRUE /\ siDone' = FALSE
        BY <3>1, <3>5, <3>9, <3>11
      <4>2. sent' = (started' - 1) * ActDepth + siBeat'
        BY <1>1, <3>5, <3>7
      <4> QED BY <1>1, <1>2, <2>1, <3>6, <4>1, <4>2 DEF Receiving
    <3> QED BY <3>10, <3>11
  <2> QED BY <2>2, <2>3, <2>4 DEF Receiving
<1> QED BY <1>6, <1>7 DEF Receiving

-------------------------------------------------------------------------------
(* A running layer. *)

(* The layer owns both banks: it reads one and writes the other.             *)
LEMMA LayerBanks ==
  ASSUME topState \notin {"RECV_IN", "SEND_OUT"}, NEW tvalid, Banks(tvalid)
  PROVE  /\ layerIdx % 2 = 1 =>
              /\ bankB' = bankB /\ rdB' = bankB[LcActRdAddr % ActDepth]
              /\ bankA' = IF LcWriteEn
                          THEN [bankA EXCEPT ![LcWriteWord % ActDepth] = LayerOutWord]
                          ELSE bankA
         /\ layerIdx % 2 # 1 =>
              /\ bankA' = bankA /\ rdA' = bankA[LcActRdAddr % ActDepth]
              /\ bankB' = IF LcWriteEn
                          THEN [bankB EXCEPT ![LcWriteWord % ActDepth] = LayerOutWord]
                          ELSE bankB
<1>1. CASE layerIdx % 2 = 1
  <2>1. /\ ToBankB = [addr |-> LcActRdAddr % ActDepth, we |-> FALSE, data |-> Junk]
        /\ ToBankA(tvalid) = [addr |-> LcWriteWord % ActDepth, we |-> LcWriteEn,
                              data |-> LayerOutWord]
    BY <1>1 DEF ToBankA, ToBankB, ReadsB
  <2> QED BY <1>1, <2>1 DEF Banks
<1>2. CASE layerIdx % 2 # 1
  <2>1. /\ ToBankA(tvalid) = [addr |-> LcActRdAddr % ActDepth, we |-> FALSE, data |-> Junk]
        /\ ToBankB = [addr |-> LcWriteWord % ActDepth, we |-> LcWriteEn,
                      data |-> LayerOutWord]
    BY <1>2 DEF ToBankA, ToBankB, ReadsB
  <2> QED BY <1>2, <2>1 DEF Banks
<1> QED BY <1>1, <1>2

(* What a layer reads stays, and so does what it has written.               *)
LEMMA LayerReads ==
  ASSUME topState \notin {"RECV_IN", "SEND_OUT"}, NEW tvalid, Banks(tvalid),
         layerIdx \in Nat, layerIdx' = layerIdx, started' = started,
         Holds(layerIdx, ActDepth)
  PROVE  /\ Holds(layerIdx, ActDepth)'
         /\ lcInput \in Nat =>
              Rd(layerIdx)'.inf = started' /\ Rd(layerIdx)'.stage = layerIdx'
         /\ ~LcWriteEn /\ Holds(layerIdx + 1, ActDepth) => Holds(layerIdx + 1, ActDepth)'
<1> USE GeometryAssumption
<1>1. In(layerIdx)' = In(layerIdx)
  BY LayerBanks DEF In
<1>2. Holds(layerIdx, ActDepth)'
  BY <1>1 DEF Holds, Words, Word
<1>3. ASSUME lcInput \in Nat
      PROVE  Rd(layerIdx)'.inf = started' /\ Rd(layerIdx)'.stage = layerIdx'
  <2>1. LcActRdAddr \in Nat
    BY <1>3 DEF LcActRdAddr
  <2>2. LcActRdAddr % ActDepth \in Words /\ LcActRdAddr % ActDepth < ActDepth
    <3>1. LcActRdAddr % ActDepth \in 0 .. ActDepth - 1
      BY <2>1, ModRange
    <3> QED BY <3>1 DEF Words
  <2>3. Rd(layerIdx)' = In(layerIdx)[LcActRdAddr % ActDepth]
    BY LayerBanks DEF Rd, In
  <2>4. Rd(layerIdx)' = Word(started, layerIdx, LcActRdAddr % ActDepth)
    BY <2>2, <2>3 DEF Holds
  <2> QED BY <2>4 DEF Word
<1>4. ASSUME ~LcWriteEn, Holds(layerIdx + 1, ActDepth)
      PROVE  Holds(layerIdx + 1, ActDepth)'
  <2>1. In(layerIdx + 1)' = In(layerIdx + 1)
    BY <1>4, LayerBanks DEF In
  <2> QED BY <1>4, <2>1 DEF Holds, Words, Word
<1> QED BY <1>2, <1>3, <1>4

(* The words of a tile go to the other bank, in order. *)
LEMMA LayerWrites ==
  ASSUME Premises, IsBank(bankA), IsBank(bankB),
         topState = "RUN_LAYER", NEW tvalid, Banks(tvalid),
         layerIdx \in Nat, layerIdx' = layerIdx, started' = started,
         WritingTile, lcTile = 0, lcWrite' = lcWrite + 1
  PROVE  Holds(layerIdx + 1, lcWrite)'
<1> USE GeometryAssumption
<1>1. lcWrite \in Words /\ LcWriteEn /\ LcWriteWord % ActDepth = lcWrite
  <2>1. LcWriteWord = lcWrite
    BY DEF LcWriteWord, WritingTile
  <2>2. lcWrite % ActDepth = lcWrite
    BY Successor DEF WritingTile
  <2> QED BY <2>1, <2>2 DEF WritingTile, Words, LcWriteEn
<1>2. LayerOutWord = Word(started, layerIdx + 1, lcWrite)
  BY DEF LayerOutWord, WritingTile, ThisResult
<1>3. In(layerIdx + 1)' =
        [In(layerIdx + 1) EXCEPT ![lcWrite] = Word(started, layerIdx + 1, lcWrite)]
  BY <1>1, <1>2, LayerBanks, Alternate DEF In
<1>4. IsBank(In(layerIdx + 1))
  BY DEF In
<1>5. ASSUME NEW w \in Words, w < lcWrite + 1
      PROVE  In(layerIdx + 1)'[w] = Word(started, layerIdx + 1, w)
  <2>1. CASE w = lcWrite
    BY <1>3, <1>4, <2>1 DEF IsBank
  <2>2. CASE w # lcWrite
    <3>1. w < lcWrite
      BY <1>1, <1>5, <2>2 DEF Words
    <3>2. In(layerIdx + 1)[w] = Word(started, layerIdx + 1, w)
      BY <3>1 DEF WritingTile, Holds
    <3> QED BY <1>3, <1>4, <2>2, <3>2 DEF IsBank
  <2> QED BY <2>1, <2>2
<1> QED BY <1>5 DEF Holds, Words, Word

(* The sums. *)
LEMMA SumStep ==
  ASSUME Sums
  PROVE  /\ lcState = "LOAD_BIAS" /\ macState = "BIAS_LOAD" =>
              sums' = [biases |-> {layerIdx} \cup IF lcBias = 0 THEN {} ELSE sums.biases,
                       inputs |-> {}]
         /\ lcState = "COMPUTE" /\ macState = "COMPUTE" =>
              sums' = [sums EXCEPT !.inputs =
                         @ \cup {<<layerIdx, Rd(layerIdx).inf, Rd(layerIdx).stage>>}]
         /\ lcState \notin {"LOAD_BIAS", "COMPUTE"} => sums' = sums
  BY DEF Sums, MacLoads, MacAccumulates, LcBiasValid, LcInputValid, Rd, ReadsB

(* Complete sums are recognized as what they are. *)
LEMMA LatchStep ==
  ASSUME Output, layerIdx \in 0 .. NumLayers - 1, started \in 1 .. MaxInferences,
         Sum(ThisInput)
  PROVE  /\ MacLatches => result' = [inf |-> started, stage |-> layerIdx + 1]
         /\ ~MacLatches => result' = result
<1> USE TopAssumption
<1>1. ASSUME NEW l \in Nat, NEW i
      PROVE  IsLayer(l, i) <=> l = layerIdx /\ i = started
  <2>1. IsLayer(layerIdx, started)
    BY DEF IsLayer, Sum, ThisInput
  <2>2. ASSUME IsLayer(l, i) PROVE l = layerIdx /\ i = started
    <3>1. {<<l, i, l>>} = {<<layerIdx, started, layerIdx>>} /\ l = layerIdx
      BY <2>2 DEF IsLayer, Sum, ThisInput
    <3>2. <<l, i, l>> = <<layerIdx, started, layerIdx>>
      BY <3>1
    <3> QED BY <3>1, <3>2
  <2> QED BY <2>1, <2>2
<1> DEFINE R == [inf : 1 .. MaxInferences, stage : 1 .. NumLayers]
           this == [inf |-> started, stage |-> layerIdx + 1]
<1>2. this \in R /\ IsLayer(this.stage - 1, this.inf)
  BY <1>1
<1>3. ASSUME NEW r \in R, IsLayer(r.stage - 1, r.inf) PROVE r = this
  <2>1. r.stage - 1 = layerIdx /\ r.inf = started
    BY <1>1, <1>3
  <2> QED BY <2>1
<1>4. (CHOOSE r \in R : IsLayer(r.stage - 1, r.inf)) = this
  BY <1>2, <1>3
<1>5. \E l \in 0 .. NumLayers - 1, i \in 1 .. MaxInferences : IsLayer(l, i)
  BY <1>1
<1> QED BY <1>4, <1>5 DEF Output

(* What every edge of a running layer has in common. *)
LEMMA RunCommon ==
  ASSUME Premises, RunningLayer, NEW start \in BOOLEAN, NEW softRst \in BOOLEAN,
         NEW tvalid \in BOOLEAN, NEW tready \in BOOLEAN,
         Clk(start, softRst, tvalid, tready)
  PROVE  /\ layerIdx' = layerIdx /\ started' = started
         /\ topState' = IF lcState = "DONE" THEN "NEXT_LAYER" ELSE "RUN_LAYER"
         /\ siDone' = FALSE /\ PacketTaken'
         /\ InDim' = InDim /\ InDim \in 1 .. CountMod - 1
         /\ Minus1(InDim) = InDim - 1 /\ Minus1(1) = 0
         /\ LayerStart = FALSE /\ MacStart = FALSE
         /\ layerIdx \in Nat /\ Banks(tvalid)
         /\ Holds(layerIdx, ActDepth)'
<1> USE GeometryAssumption, TopAssumption
<1>1. /\ layerIdx' = layerIdx /\ started' = started /\ sent' = sent
      /\ strayDim' = strayDim
      /\ topState' = IF lcState = "DONE" THEN "NEXT_LAYER" ELSE "RUN_LAYER"
  BY HostWaits DEF RunningLayer, TopNextState, LcLayerDone
<1>2. siReceiving' = FALSE /\ siDone' = FALSE /\ soState' = "IDLE"
  BY StreamsOff DEF RunningLayer, PacketTaken, Busy
<1>3. PacketTaken'
  BY <1>1, <1>2 DEF RunningLayer, PacketTaken, Busy
<1>4. InDim' = InDim /\ InDim \in 1 .. CountMod - 1
  BY <1>1 DEF InDim, RunningLayer
<1>5. Minus1(InDim) = InDim - 1
  BY <1>4, MinusOne
<1>6. Minus1(1) = 0
  <2>1. 1 \in 1 .. CountMod - 1
    BY <1>4
  <2> QED BY <2>1, MinusOne
<1>7. LayerStart = FALSE /\ MacStart = FALSE
  BY DEF LayerStart, MacStart, LcMacStart, RunningLayer
<1>8. layerIdx \in Nat /\ Banks(tvalid)
  BY DEF RunningLayer, Clk
<1>9. Holds(layerIdx, ActDepth)'
  BY <1>1, <1>8, LayerReads DEF RunningLayer
<1> QED BY <1>1, <1>2, <1>3, <1>4, <1>5, <1>6, <1>7, <1>8, <1>9

(* The biases are loaded lane by lane, into sums that start from nothing.    *)
LEMMA BiasStep ==
  ASSUME Premises, RunningLayer, LoadingBias,
         NEW start \in BOOLEAN, NEW softRst \in BOOLEAN,
         NEW tvalid \in BOOLEAN, NEW tready \in BOOLEAN,
         Clk(start, softRst, tvalid, tready)
  PROVE  RunningLayer'
<1> USE GeometryAssumption
<1>1. LcClk(FALSE, InDim, 1, MacDone) /\ MacClk(FALSE, InDim, LcInputValid, LcBiasValid)
  BY RunCommon DEF Clk
<1>2. Sum({})'
  <2>1. sums' = [biases |-> {layerIdx} \cup IF lcBias = 0 THEN {} ELSE sums.biases,
                 inputs |-> {}]
    BY SumStep DEF LoadingBias, Clk
  <2>2. lcBias # 0 => sums.biases = {layerIdx}
    BY DEF LoadingBias, Sum
  <2>3. {layerIdx} \cup (IF lcBias = 0 THEN {} ELSE sums.biases) = {layerIdx}
    BY <2>2
  <2> QED BY <2>1, <2>3, RunCommon DEF Sum
<1>3. /\ lcTile = 0 /\ lcInput = 0
      /\ lcBias \in 0 .. Parallelism - 1 /\ macBias = lcBias
  BY DEF RunningLayer, LoadingBias
<1>4. /\ lcState' = IF lcBias = Parallelism - 1 THEN "COMPUTE" ELSE "LOAD_BIAS"
      /\ lcBias' = (lcBias + 1) % Parallelism
      /\ lcTile' = 0 /\ lcInput' = 0
  BY <1>1, <1>3, LcStep DEF LoadingBias
<1>5. /\ macState' = IF lcBias = Parallelism - 1 THEN "COMPUTE" ELSE "BIAS_LOAD"
      /\ macBias' = lcBias' /\ macCompute' = 0
  BY <1>1, <1>3, <1>4, MacStep DEF LoadingBias
<1>6. CASE lcBias = Parallelism - 1
  <2>1. Rd(layerIdx)'.inf = started' /\ Rd(layerIdx)'.stage = layerIdx'
    BY <1>3, RunCommon, LayerReads DEF RunningLayer
  <2>2. lcInput' \in 0 .. InDim' - 1 /\ lcInput' = 0
    <3>1. InDim \in 1 .. CountMod - 1 /\ InDim' = InDim
      BY RunCommon
    <3>2. 0 \in 0 .. InDim - 1
      BY <3>1
    <3> QED BY <1>4, <3>1, <3>2
  <2>3. Computing'
    BY <1>2, <1>4, <1>5, <1>6, <2>1, <2>2 DEF Computing
  <2> QED BY <1>4, <2>3, RunCommon DEF RunningLayer, LoadingBias
<1>7. CASE lcBias # Parallelism - 1
  <2>1. lcBias' = lcBias + 1 /\ lcBias' \in 0 .. Parallelism - 1
    <3>1. lcBias + 1 < Parallelism
      BY <1>3, <1>7
    <3>2. (lcBias + 1) % Parallelism = lcBias + 1
      BY <1>3, <3>1, Successor
    <3> QED BY <1>3, <1>4, <3>1, <3>2
  <2>2. LoadingBias'
    BY <1>2, <1>4, <1>5, <1>7, <2>1 DEF LoadingBias
  <2> QED BY <1>4, <2>2, RunCommon DEF RunningLayer, LoadingBias
<1> QED BY <1>6, <1>7

(* Every input is multiplied once, and is this layer's input of this          *)
(* inference.                                                              *)
LEMMA ComputeStep ==
  ASSUME Premises, RunningLayer, Computing,
         NEW start \in BOOLEAN, NEW softRst \in BOOLEAN,
         NEW tvalid \in BOOLEAN, NEW tready \in BOOLEAN,
         Clk(start, softRst, tvalid, tready)
  PROVE  RunningLayer'
<1> USE GeometryAssumption
<1>1. LcClk(FALSE, InDim, 1, MacDone) /\ MacClk(FALSE, InDim, LcInputValid, LcBiasValid)
  BY RunCommon DEF Clk
<1>2. Sum(ThisInput)'
  <2>1. sums' = [sums EXCEPT !.inputs =
                   @ \cup {<<layerIdx, Rd(layerIdx).inf, Rd(layerIdx).stage>>}]
    BY SumStep DEF Computing, Clk
  <2>2. {<<layerIdx, Rd(layerIdx).inf, Rd(layerIdx).stage>>} = ThisInput
    BY DEF Computing, ThisInput
  <2>3. (IF lcInput = 0 THEN {} ELSE ThisInput) \cup ThisInput = ThisInput
    OBVIOUS
  <2>4. sums' = [biases |-> {layerIdx}, inputs |-> ThisInput]
    BY <2>1, <2>2, <2>3 DEF Computing, Sum
  <2>5. ThisInput' = ThisInput
    BY RunCommon DEF ThisInput
  <2> QED BY <2>4, <2>5, RunCommon DEF Sum
<1>3. /\ lcInput \in 0 .. InDim - 1 /\ macCompute = lcInput /\ lcTile = 0
      /\ InDim \in 1 .. CountMod - 1 /\ Minus1(InDim) = InDim - 1
      /\ InDim' = InDim
  BY RunCommon DEF RunningLayer, Computing
<1>a. lcInput \in Nat /\ lcInput # InDim
  BY <1>3
<1>4. (lcInput + 1) % CountMod = lcInput + 1
  <2>1. lcInput \in 0 .. CountMod - 1 /\ lcInput + 1 < CountMod
    BY <1>3
  <2> QED BY <2>1, Successor
<1>5. /\ lcState' = IF lcInput = InDim - 1 THEN "WAIT_MAC" ELSE "COMPUTE"
      /\ lcInput' = lcInput + 1 /\ lcTile' = 0
  BY <1>1, <1>3, <1>4, LcStep DEF Computing
<1>6. macState' = "COMPUTE" /\ macCompute' = lcInput + 1
  BY <1>1, <1>3, <1>4, <1>a, MacStep DEF Computing
<1>7. CASE lcInput = InDim - 1
  <2>1. macCompute' = InDim'
    BY <1>3, <1>6, <1>7
  <2>2. WaitingForMac'
    BY <1>2, <1>5, <1>6, <1>7, <2>1 DEF WaitingForMac
  <2> QED BY <1>5, <2>2, RunCommon DEF RunningLayer, Computing
<1>8. CASE lcInput # InDim - 1
  <2>1. Rd(layerIdx)'.inf = started' /\ Rd(layerIdx)'.stage = layerIdx'
    BY <1>a, RunCommon, LayerReads DEF RunningLayer
  <2>2. lcInput' \in 0 .. InDim' - 1 /\ lcInput' # 0
    BY <1>3, <1>5, <1>8
  <2>3. Computing'
    BY <1>2, <1>5, <1>6, <1>8, <2>1, <2>2 DEF Computing
  <2> QED BY <1>5, <2>3, RunCommon DEF RunningLayer, Computing
<1> QED BY <1>7, <1>8

(* The result is latched from complete sums. *)
LEMMA WaitStep ==
  ASSUME Premises, RunningLayer, WaitingForMac,
         NEW start \in BOOLEAN, NEW softRst \in BOOLEAN,
         NEW tvalid \in BOOLEAN, NEW tready \in BOOLEAN,
         Clk(start, softRst, tvalid, tready)
  PROVE  RunningLayer'
<1> USE GeometryAssumption
<1>1. LcClk(FALSE, InDim, 1, MacDone) /\ MacClk(FALSE, InDim, LcInputValid, LcBiasValid)
  BY RunCommon DEF Clk
<1>2. /\ lcState' = IF macState = "DONE" THEN "WRITE_TILE" ELSE "WAIT_MAC"
      /\ lcTile' = 0 /\ lcWrite' = 0
  BY <1>1, LcStep DEF WaitingForMac, RunningLayer, MacDone
<1>3. Sum(ThisInput)'
  BY RunCommon, SumStep DEF WaitingForMac, Clk, Sum, ThisInput
<1>4. /\ MacLatches => result' = [inf |-> started, stage |-> layerIdx + 1]
      /\ ~MacLatches => result' = result
  BY LatchStep DEF WaitingForMac, RunningLayer, PacketTaken, Busy, Clk
<1>5. RunningLayer' <=> (lcState' # "DONE" => lcTile' = 0) /\
        (LoadingBias \/ Computing \/ WaitingForMac \/ WritingTile \/ TileInBank)'
  BY RunCommon DEF RunningLayer, WaitingForMac
<1>6. CASE macState = "COMPUTE"
  <2>1. macState' = "REQUANT" /\ macRequant' = 0
    BY <1>1, <1>6, MacStep DEF WaitingForMac
  <2>2. WaitingForMac'
    BY <1>2, <1>3, <1>6, <2>1 DEF WaitingForMac
  <2> QED BY <1>2, <1>5, <2>2
<1>7. CASE macState = "REQUANT"
  <2>1. /\ macRequant \in 0 .. 3
        /\ macState' = IF macRequant = 3 THEN "OUTPUT" ELSE "REQUANT"
        /\ macRequant' = (macRequant + 1) % 4
    BY <1>1, <1>7, MacStep DEF WaitingForMac
  <2>2. macRequant = 3 => ThisResult'
    BY <1>4, <1>7, RunCommon DEF ThisResult, MacLatches
  <2>3. WaitingForMac'
    BY <1>2, <1>3, <1>7, <2>1, <2>2 DEF WaitingForMac
  <2> QED BY <1>2, <1>5, <2>3
<1>8. CASE macState = "OUTPUT"
  <2>1. macState' = "DONE" /\ ThisResult'
    BY <1>1, <1>4, <1>8, MacStep, RunCommon DEF WaitingForMac, ThisResult, MacLatches
  <2>2. WaitingForMac'
    BY <1>2, <1>3, <1>8, <2>1 DEF WaitingForMac
  <2> QED BY <1>2, <1>5, <2>2
<1>9. CASE macState = "DONE"
  <2>1. macState' = "IDLE" /\ ThisResult'
    BY <1>1, <1>4, <1>9, MacStep, RunCommon DEF WaitingForMac, ThisResult, MacLatches
  <2>2. WritingTile'
    BY <1>2, <1>9, <2>1 DEF WritingTile, Holds, Words
  <2> QED BY <1>2, <1>5, <2>2
<1> QED BY <1>6, <1>7, <1>8, <1>9 DEF WaitingForMac

(* The tile is written word by word, and is complete when the layer ends.    *)
LEMMA WriteStep ==
  ASSUME Premises, IsBank(bankA), IsBank(bankB), RunningLayer, WritingTile,
         NEW start \in BOOLEAN, NEW softRst \in BOOLEAN,
         NEW tvalid \in BOOLEAN, NEW tready \in BOOLEAN,
         Clk(start, softRst, tvalid, tready)
  PROVE  RunningLayer'
<1> USE GeometryAssumption
<1>1. LcClk(FALSE, InDim, 1, MacDone) /\ MacClk(FALSE, InDim, LcInputValid, LcBiasValid)
  BY RunCommon DEF Clk
<1>2. /\ lcWrite \in 0 .. ActDepth - 1 /\ lcTile = 0 /\ ThisResult
      /\ topState = "RUN_LAYER" /\ lcState = "WRITE_TILE"
  BY DEF RunningLayer, WritingTile
<1>3. /\ lcState' = IF lcWrite = ActDepth - 1 THEN "NEXT_TILE" ELSE "WRITE_TILE"
      /\ lcWrite' = lcWrite + 1 /\ lcTile' = 0
  BY <1>1, <1>2, LcStep DEF Premises
<1>4. macState' = "IDLE"
  BY <1>1, MacStep DEF WritingTile
<1>5. Holds(layerIdx + 1, lcWrite)'
  BY <1>2, <1>3, RunCommon, LayerWrites
<1>6. ThisResult'
  <2>1. ~MacLatches
    BY DEF MacLatches, WritingTile
  <2>2. result' = result
    BY <2>1 DEF Output, Clk
  <2> QED BY <1>2, <2>2, RunCommon DEF ThisResult
<1>7. CASE lcWrite = ActDepth - 1
  <2>1. lcWrite' = ActDepth
    BY <1>3, <1>7
  <2>2. Holds(layerIdx + 1, ActDepth)'
    BY <1>5, <2>1 DEF Holds
  <2>3. TileInBank'
    BY <1>3, <1>4, <1>7, <2>2 DEF TileInBank
  <2> QED BY <1>2, <1>3, <2>3, RunCommon DEF RunningLayer
<1>8. CASE lcWrite # ActDepth - 1
  <2>1. lcWrite' \in 0 .. ActDepth - 1
    BY <1>2, <1>3, <1>8
  <2>2. WritingTile'
    BY <1>3, <1>4, <1>5, <1>6, <1>8, <2>1 DEF WritingTile
  <2> QED BY <1>2, <1>3, <2>2, RunCommon DEF RunningLayer
<1> QED BY <1>7, <1>8

(* A finished layer hands a full bank to the top-level FSM.                 *)
LEMMA EndStep ==
  ASSUME Premises, RunningLayer, TileInBank,
         NEW start \in BOOLEAN, NEW softRst \in BOOLEAN,
         NEW tvalid \in BOOLEAN, NEW tready \in BOOLEAN,
         Clk(start, softRst, tvalid, tready)
  PROVE  RunningLayer' \/ BetweenLayers'
<1>1. LcClk(FALSE, InDim, 1, MacDone) /\ MacClk(FALSE, InDim, LcInputValid, LcBiasValid)
  BY RunCommon DEF Clk
<1>2. macState' = "IDLE"
  BY <1>1, MacStep DEF TileInBank
<1>3. Holds(layerIdx + 1, ActDepth)'
  <2>1. ~LcWriteEn /\ Holds(layerIdx + 1, ActDepth) /\ Holds(layerIdx, ActDepth)
        /\ topState = "RUN_LAYER"
    BY DEF LcWriteEn, TileInBank, RunningLayer
  <2> QED BY <2>1, RunCommon, LayerReads
<1>4. CASE lcState = "NEXT_TILE"
  <2>1. lcState' = "DONE"
    BY <1>1, <1>4, LcStep, RunCommon DEF RunningLayer
  <2>2. TileInBank'
    BY <1>2, <1>3, <2>1 DEF TileInBank
  <2> QED BY <1>4, <2>1, <2>2, RunCommon DEF RunningLayer
<1>5. CASE lcState = "DONE"
  <2>1. AtRest'
    BY <1>1, <1>2, <1>5, LcStep DEF AtRest
  <2> QED BY <1>3, <1>5, <2>1, RunCommon DEF RunningLayer, BetweenLayers
<1> QED BY <1>4, <1>5 DEF TileInBank

(* An edge of a running layer goes on with it, or ends it.                  *)
LEMMA RunStep ==
  ASSUME Premises, IsBank(bankA), IsBank(bankB), RunningLayer,
         NEW start \in BOOLEAN, NEW softRst \in BOOLEAN,
         NEW tvalid \in BOOLEAN, NEW tready \in BOOLEAN,
         Clk(start, softRst, tvalid, tready)
  PROVE  RunningLayer' \/ BetweenLayers'
  BY BiasStep, ComputeStep, WaitStep, WriteStep, EndStep DEF RunningLayer

-------------------------------------------------------------------------------
(* From layer to layer, and out. *)

(* The bank written is the bank read next, or the one that is sent.          *)
LEMMA NextLayerStep ==
  ASSUME Premises, BetweenLayers, NEW start \in BOOLEAN, NEW softRst \in BOOLEAN,
         NEW tvalid \in BOOLEAN, NEW tready \in BOOLEAN,
         Clk(start, softRst, tvalid, tready)
  PROVE  RunningLayer' \/ Sending'
<1> USE GeometryAssumption, TopAssumption
<1>1. /\ topState' = IF LastLayer THEN "SEND_OUT" ELSE "RUN_LAYER"
      /\ layerIdx' = layerIdx + 1 /\ started' = started /\ sent' = sent
  BY HostWaits DEF BetweenLayers, TopNextState
<1>2. siReceiving' = FALSE /\ siDone' = FALSE /\ soState' = "IDLE"
  BY StreamsOff DEF BetweenLayers, PacketTaken, Busy
<1>3. PacketTaken' /\ layerIdx \in 0 .. NumLayers - 1
  BY <1>1, <1>2 DEF BetweenLayers, PacketTaken, Busy
<1>4. bankA' = bankA /\ bankB' = bankB
  <2>1. ~LcWriteEn /\ Banks(tvalid)
    BY DEF LcWriteEn, BetweenLayers, AtRest, Clk
  <2> QED BY <2>1, LayerBanks DEF BetweenLayers
<1>5. Holds(layerIdx, ActDepth)'
  BY <1>1, <1>4 DEF BetweenLayers, Holds, In, Words, Word
<1>6. CASE LastLayer
  <2>1. layerIdx' = NumLayers
    BY <1>1, <1>3, <1>6 DEF LastLayer
  <2>2. Holds(NumLayers, ActDepth)'
    BY <1>5, <2>1 DEF Holds, In
  <2> QED BY <1>1, <1>2, <1>3, <1>6, <2>2 DEF Sending
<1>7. CASE ~LastLayer
  <2>1. layerIdx' \in 0 .. NumLayers - 1
    BY <1>1, <1>3, <1>7 DEF LastLayer
  <2>2. LoadingBias' /\ lcTile' = 0
    BY EngineStart DEF BetweenLayers, LayerStart, LoadingBias
  <2> QED BY <1>1, <1>2, <1>3, <1>5, <1>7, <2>1, <2>2 DEF RunningLayer, LoadingBias
<1> QED BY <1>6, <1>7

(* The transmitter reads bank A, which nothing writes, in order.             *)
LEMMA SendStep ==
  ASSUME Premises, Sending, NEW start \in BOOLEAN, NEW softRst \in BOOLEAN,
         NEW tvalid \in BOOLEAN, NEW tready \in BOOLEAN,
         Clk(start, softRst, tvalid, tready)
  PROVE  Sending' \/ Ending'
<1> USE GeometryAssumption, TopAssumption
<1>1. /\ topState' = IF soState = "DONE" THEN "DONE" ELSE "SEND_OUT"
      /\ started' = started /\ sent' = sent
  BY HostWaits DEF Sending, TopNextState, SoDone
<1>2. siReceiving' = FALSE /\ siDone' = FALSE
  BY StreamsOff DEF Sending
<1>3. /\ ToBankA(tvalid).addr = soBeat % ActDepth /\ ToBankA(tvalid).we = FALSE
  BY DEF ToBankA, Sending, SoAddr
<1>4. bankA' = bankA /\ rdA' = bankA[soBeat % ActDepth]
  BY <1>3 DEF Clk, Banks
<1>5. Holds(NumLayers, ActDepth)'
  BY <1>1, <1>4 DEF Sending, Premises, Holds, In, Words, Word
<1>6. /\ soState' = SoNextState(TRUE, tready)
      /\ soBeat' = IF soState = "IDLE" THEN 0
                   ELSE IF SoValid /\ tready THEN soBeat + 1 ELSE soBeat
  BY DEF Clk, SoClk, OutEnable, Sending
<1>7. CASE soState = "IDLE"
  <2>1. soState' = "READ" /\ soBeat' = 0 /\ soBeat' \in 0 .. ActDepth - 1
    BY <1>6, <1>7 DEF SoNextState
  <2>2. PacketTaken'
    BY <1>1, <1>2, <1>7 DEF Sending, PacketTaken, Busy
  <2> QED BY <1>1, <1>2, <1>5, <1>7, <2>1, <2>2 DEF Sending
<1>8. CASE soState = "READ"
  <2>1. soState' = "TRANSMIT" /\ soBeat' = soBeat /\ soBeat \in 0 .. ActDepth - 1
    BY <1>6, <1>8 DEF SoNextState, SoValid, Sending
  <2>2. rdA' = Word(started, NumLayers, soBeat)
    <3>a. soBeat % ActDepth = soBeat
      BY <2>1, Successor
    <3>b. soBeat \in Words /\ soBeat < ActDepth
      BY <2>1 DEF Words
    <3>1. soBeat % ActDepth = soBeat /\ soBeat \in Words /\ soBeat < ActDepth
      BY <3>a, <3>b
    <3>2. bankA[soBeat] = Word(started, NumLayers, soBeat)
      BY <3>1 DEF Sending, Holds, In, Premises
    <3> QED BY <1>4, <3>1, <3>2
  <2>3. PacketTaken'
    BY <1>1, <1>2, <1>8 DEF Sending, PacketTaken, Busy
  <2> QED BY <1>1, <1>2, <1>5, <1>8, <2>1, <2>2, <2>3 DEF Sending, Word
<1>9. CASE soState = "TRANSMIT"
  <2>1. soBeat \in 0 .. ActDepth - 1 /\ rdA = Word(started, NumLayers, soBeat)
    BY <1>9 DEF Sending
  <2>2. PacketTaken'
    BY <1>1, <1>2, <1>9 DEF Sending, PacketTaken, Busy
  <2>3. CASE ~tready
    <3>1. soState' = "TRANSMIT" /\ soBeat' = soBeat
      BY <1>6, <1>9, <2>3 DEF SoNextState, SoValid
    <3>2. rdA' = Word(started, NumLayers, soBeat)
      <4>a. soBeat % ActDepth = soBeat
        BY <2>1, Successor
      <4>b. soBeat \in Words /\ soBeat < ActDepth
        BY <2>1 DEF Words
      <4>1. soBeat % ActDepth = soBeat /\ soBeat \in Words /\ soBeat < ActDepth
        BY <4>a, <4>b
      <4>2. bankA[soBeat] = Word(started, NumLayers, soBeat)
        BY <4>1 DEF Sending, Holds, In, Premises
      <4> QED BY <1>4, <4>1, <4>2
    <3> QED BY <1>1, <1>2, <1>5, <1>9, <2>1, <2>2, <3>1, <3>2 DEF Sending, Word
  <2>4. CASE tready /\ soBeat = ActDepth - 1
    <3>1. soState' = "DONE"
      BY <1>6, <1>9, <2>4 DEF SoNextState, SoLast, SoValid
    <3> QED BY <1>1, <1>2, <1>5, <1>9, <2>2, <3>1 DEF Sending
  <2>5. CASE tready /\ soBeat # ActDepth - 1
    <3>1. soState' = "READ" /\ soBeat' = soBeat + 1
      BY <1>6, <1>9, <2>5 DEF SoNextState, SoLast, SoValid
    <3>2. soBeat' \in 0 .. ActDepth - 1
      BY <2>1, <2>5, <3>1
    <3> QED BY <1>1, <1>2, <1>5, <1>9, <2>2, <3>1, <3>2 DEF Sending
  <2> QED BY <2>3, <2>4, <2>5
<1>10. CASE soState = "DONE"
  <2>1. soState' = "IDLE"
    BY <1>6, <1>10 DEF SoNextState
  <2> QED BY <1>1, <1>2, <1>10, <2>1 DEF Sending, Ending, PacketTaken, Busy
<1> QED BY <1>7, <1>8, <1>9, <1>10 DEF Sending

(* DONE is one clock long.                                                  *)
LEMMA EndingStep ==
  ASSUME Premises, Ending, NEW start \in BOOLEAN, NEW softRst \in BOOLEAN,
         NEW tvalid \in BOOLEAN, NEW tready \in BOOLEAN,
         Clk(start, softRst, tvalid, tready)
  PROVE  Idling'
<1>1. topState' = "IDLE" /\ started' = started /\ sent' = sent
  BY HostWaits DEF Ending, TopNextState
<1>2. siReceiving' = FALSE /\ siDone' = FALSE /\ soState' = "IDLE"
  BY StreamsOff DEF Ending, PacketTaken, Busy
<1> QED BY <1>1, <1>2 DEF Ending, PacketTaken, Busy, Idling

-------------------------------------------------------------------------------
(* After reset the engine is idle.                                          *)
LEMMA InitInv == Init => IInv
<1> SUFFICES ASSUME Init PROVE IInv
  OBVIOUS
<1>1. IsBank(bankA) /\ IsBank(bankB)
  BY DEF Init, IsBank
<1>2. Idling
  BY GeometryAssumption DEF Init, Idling, SiInit, SoInit
<1> QED BY <1>1, <1>2 DEF IInv

(* Every step keeps the invariant.                                          *)
LEMMA NextInv == Premises /\ IInv /\ [Next]_vars => IInv'
<1> SUFFICES ASSUME Premises, IInv, [Next]_vars PROVE IInv'
  OBVIOUS
<1>1. CASE UNCHANGED vars
  BY <1>1 DEF vars, lcVars, macVars, siVars, soVars, topVars, memVars, hostVars,
     IInv, IsBank, Idling, Receiving, Busy, PacketTaken, RunningLayer, LoadingBias,
     Computing, WaitingForMac, WritingTile, TileInBank, BetweenLayers, Sending, Ending,
     Sum, ThisInput, ThisResult, Holds, In, Rd, AtRest, InDim, Words, Word
<1>2. ASSUME NEW start \in BOOLEAN, NEW softRst \in BOOLEAN,
             NEW tvalid \in BOOLEAN, NEW tready \in BOOLEAN,
             Clk(start, softRst, tvalid, tready)
      PROVE  IInv'
  <2>1. IsBank(bankA) /\ IsBank(bankB) /\ IsBank(bankA)' /\ IsBank(bankB)'
    BY <1>2, BanksStay DEF IInv, Clk
  <2>2. (Idling \/ Receiving \/ RunningLayer \/ BetweenLayers \/ Sending \/ Ending)'
    BY <1>2, <2>1, IdleStep, ReceiveStep, RunStep, NextLayerStep, SendStep, EndingStep
    DEF IInv
  <2> QED BY <2>1, <2>2 DEF IInv
<1> QED BY <1>1, <1>2 DEF Next

(* The inductive invariant holds in every behaviour with a patient host.    *)
LEMMA Invariance == ASSUME Premises PROVE Spec => []IInv
<1>1. IInv /\ [Next]_vars => IInv'
  BY NextInv
<1> QED BY <1>1, InitInv, PTL DEF Spec

(* Whatever is offered to a patient host is the answer to the inference it    *)
(* started last: every layer, in order, applied to that inference's packet.  *)
THEOREM AnswersAreFresh == ASSUME Premises PROVE Spec => []OutputIsThisInference
<1>1. IInv => OutputIsThisInference
  BY DEF IInv, Idling, Receiving, PacketTaken, Busy, RunningLayer, BetweenLayers,
         Sending, Ending, SoValid, OutputIsThisInference
<1> QED BY <1>1, Invariance, PTL

-------------------------------------------------------------------------------
(* The refinement.  The host has received the words of all results but those  *)
(* still to come.                                                          *)
Before == (started - 1) * ActDepth

Delivered ==
  /\ received \in Nat
  /\ topState \in {"IDLE", "DONE"} => received = started * ActDepth
  /\ topState \in {"RECV_IN", "RUN_LAYER", "NEXT_LAYER"} => received = Before
  /\ topState = "SEND_OUT" =>
       /\ soState = "IDLE" => received = Before
       /\ soState \in {"READ", "TRANSMIT"} => received = Before + soBeat
       /\ soState = "DONE" => received = Before + ActDepth

(* What InferenceService sees of the accelerator. *)
ServiceTaken == IF started = 0 THEN 0 ELSE sent - Before
ServiceGiven == IF started = 0 THEN 0 ELSE received - Before
ServiceOffer == IF ~SoValid THEN <<>>
                ELSE IF rdA.stage = NumLayers /\ rdA.pos = soBeat
                THEN <<rdA.inf, soBeat>> ELSE <<0, 0>>

(* Products of naturals, one factor stepped.                                *)
LEMMA Packets ==
  ASSUME NEW q \in Nat, NEW d \in Nat
  PROVE  q * d \in Nat /\ (q + 1) * d = q * d + d
  OBVIOUS

(* The packets of the inferences before the one under way. *)
LEMMA BeforeIsNat ==
  ASSUME Busy
  PROVE  /\ started \in Nat /\ started # 0
         /\ Before \in Nat /\ started * ActDepth = Before + ActDepth
<1> DEFINE q == started - 1
<1>1. q \in Nat /\ started = q + 1 /\ ActDepth \in Nat
  BY GeometryAssumption, TopAssumption DEF Busy
<1>2. q * ActDepth \in Nat /\ (q + 1) * ActDepth = q * ActDepth + ActDepth
  BY <1>1, Packets
<1> QED BY <1>1, <1>2 DEF Before

(* At rest, an edge starts an inference or changes nothing the host sees.   *)
LEMMA IdleService ==
  ASSUME Premises, Idling, Delivered, Idling' \/ Receiving',
         NEW start \in BOOLEAN, NEW softRst \in BOOLEAN,
         NEW tvalid \in BOOLEAN, NEW tready \in BOOLEAN,
         Clk(start, softRst, tvalid, tready)
  PROVE  /\ Delivered'
         /\ \/ /\ UNCHANGED <<started, ServiceTaken, ServiceGiven, ServiceOffer>>
               /\ topState' = "IDLE"
            \/ /\ topState' # "IDLE"
               /\ started < MaxInferences /\ started' = started + 1
               /\ ServiceTaken' = 0 /\ ServiceGiven' = 0
               /\ UNCHANGED ServiceOffer
<1> USE GeometryAssumption, TopAssumption
<1>1. /\ soState = "IDLE" /\ soState' = "IDLE"
      /\ sent' = started * ActDepth /\ received' = started * ActDepth
      /\ sent = started * ActDepth /\ received = started * ActDepth
      /\ started \in Nat
      /\ started' = IF start THEN started + 1 ELSE started
      /\ start => started < MaxInferences /\ ~softRst
      /\ topState' = IF ~softRst /\ start THEN "RECV_IN" ELSE "IDLE"
  <2>1. soState' = "IDLE"
    BY StreamsOff DEF Idling
  <2>2. topState' = IF ~softRst /\ start THEN "RECV_IN" ELSE "IDLE"
    BY DEF Idling, Clk, TopFsm, TopNextState
  <2>3. sent' = started * ActDepth /\ received' = started * ActDepth
    BY DEF Idling, Delivered, Clk, Host, SiTakes, SiReady, InEnable, SoValid
  <2> QED BY <2>1, <2>2, <2>3 DEF Idling, Delivered, Clk, Host
<1>2. ServiceOffer = <<>> /\ ServiceOffer' = <<>>
  BY <1>1 DEF ServiceOffer, SoValid
<1>3. CASE start
  <2>1. Before' = started * ActDepth /\ started' # 0
    BY <1>1, <1>3 DEF Before
  <2>2. started * ActDepth \in Nat
    BY <1>1, Packets
  <2>3. ServiceTaken' = 0 /\ ServiceGiven' = 0
    BY <1>1, <2>1, <2>2 DEF ServiceTaken, ServiceGiven
  <2>4. Delivered'
    BY <1>1, <1>3, <2>1, <2>2 DEF Delivered
  <2> QED BY <1>1, <1>2, <1>3, <2>3, <2>4
<1>4. CASE ~start
  <2>1. started' = started /\ sent' = sent /\ received' = received /\ topState' = "IDLE"
    BY <1>1, <1>4
  <2>2. ServiceTaken' = ServiceTaken /\ ServiceGiven' = ServiceGiven
    BY <2>1 DEF ServiceTaken, ServiceGiven, Before
  <2>3. Delivered'
    BY <1>1, <2>1 DEF Delivered
  <2> QED BY <1>2, <2>1, <2>2, <2>3
<1> QED BY <1>3, <1>4

(* Taking the packet, and computing. *)
LEMMA BusyService ==
  ASSUME Premises, Delivered, Receiving \/ RunningLayer \/ BetweenLayers,
         (Receiving \/ RunningLayer \/ BetweenLayers \/ Sending)',
         NEW start \in BOOLEAN, NEW softRst \in BOOLEAN,
         NEW tvalid \in BOOLEAN, NEW tready \in BOOLEAN,
         Clk(start, softRst, tvalid, tready)
  PROVE  /\ Delivered'
         /\ topState # "IDLE" /\ topState' # "IDLE" /\ started' = started
         /\ UNCHANGED <<ServiceGiven, ServiceOffer>>
         /\ \/ UNCHANGED ServiceTaken
            \/ ServiceTaken < ActDepth /\ ServiceTaken' = ServiceTaken + 1
<1> USE GeometryAssumption, TopAssumption
<1>1. /\ topState \in {"RECV_IN", "RUN_LAYER", "NEXT_LAYER"} /\ Busy
      /\ soState = "IDLE" /\ received = Before
  BY DEF Receiving, RunningLayer, BetweenLayers, PacketTaken, Busy, Delivered
<1>2. /\ topState' \in {"RECV_IN", "RUN_LAYER", "NEXT_LAYER", "SEND_OUT"}
      /\ started' = started
      /\ sent' = IF topState = "RECV_IN" /\ siReceiving /\ tvalid THEN sent + 1 ELSE sent
  BY <1>1, HostWaits DEF Receiving, RunningLayer, BetweenLayers, Sending
<1>3. soState' = "IDLE" /\ received' = received /\ Before' = Before
  <2>1. soState' = "IDLE"
    BY <1>1, StreamsOff
  <2>2. received' = received
    BY <1>1 DEF Clk, Host, Premises, SoValid
  <2> QED BY <1>2, <2>1, <2>2 DEF Before
<1>4. Delivered'
  BY <1>1, <1>2, <1>3 DEF Delivered
<1>5. UNCHANGED <<ServiceGiven, ServiceOffer>>
  BY <1>1, <1>2, <1>3 DEF ServiceGiven, ServiceOffer, SoValid
<1>6. started # 0 /\ Before \in Nat
  BY <1>1, BeforeIsNat
<1>7. CASE sent' = sent
  <2>1. UNCHANGED ServiceTaken
    BY <1>2, <1>3, <1>7 DEF ServiceTaken
  <2> QED BY <1>1, <1>2, <1>4, <1>5, <2>1
<1>8. CASE sent' # sent
  <2>1. topState = "RECV_IN" /\ siReceiving /\ sent' = sent + 1
    BY <1>2, <1>8
  <2>2. siBeat \in 0 .. ActDepth - 1 /\ sent = Before + siBeat
    BY <2>1 DEF Receiving, RunningLayer, BetweenLayers, Before
  <2>3. ServiceTaken = siBeat /\ ServiceTaken' = siBeat + 1
    BY <1>2, <1>3, <1>6, <2>1, <2>2 DEF ServiceTaken
  <2> QED BY <1>1, <1>2, <1>4, <1>5, <2>2, <2>3
<1> QED BY <1>7, <1>8

(* The word on offer while the packet is sent. *)
LEMMA OfferedWord ==
  ASSUME Sending
  PROVE  ServiceOffer = IF soState = "TRANSMIT" THEN <<started, soBeat>> ELSE <<>>
  BY DEF Sending, ServiceOffer, SoValid, Word

(* The same after an edge.                                                  *)
LEMMA OfferedWordNext ==
  ASSUME Sending'
  PROVE  ServiceOffer' = IF soState' = "TRANSMIT" THEN <<started', soBeat'>> ELSE <<>>
  BY DEF Sending, ServiceOffer, SoValid, Word

(* Sending the result. *)
LEMMA SendService ==
  ASSUME Premises, Delivered, Sending, Sending' \/ Ending',
         NEW start \in BOOLEAN, NEW softRst \in BOOLEAN,
         NEW tvalid \in BOOLEAN, NEW tready \in BOOLEAN,
         Clk(start, softRst, tvalid, tready)
  PROVE  /\ Delivered'
         /\ topState # "IDLE" /\ topState' # "IDLE" /\ started' = started
         /\ UNCHANGED ServiceTaken
         /\ \/ UNCHANGED <<ServiceGiven, ServiceOffer>>
            \/ /\ ServiceTaken = ActDepth /\ ServiceGiven < ActDepth /\ ServiceOffer = <<>>
               /\ ServiceOffer' = <<started, ServiceGiven>> /\ UNCHANGED ServiceGiven
            \/ /\ ServiceOffer # <<>> /\ ServiceOffer' = <<>>
               /\ ServiceGiven' = ServiceGiven + 1
<1> USE GeometryAssumption, TopAssumption
<1>1. /\ topState = "SEND_OUT" /\ Busy /\ sent = started * ActDepth
      /\ topState' = IF soState = "DONE" THEN "DONE" ELSE "SEND_OUT"
      /\ started' = started /\ sent' = sent /\ Before' = Before
  <2>1. topState = "SEND_OUT" /\ Busy /\ sent = started * ActDepth
    BY DEF Sending, PacketTaken
  <2>2. /\ topState' = IF soState = "DONE" THEN "DONE" ELSE "SEND_OUT"
        /\ started' = started /\ sent' = sent
    BY <2>1, HostWaits DEF TopNextState, SoDone
  <2> QED BY <2>1, <2>2 DEF Before
<1>2. /\ started \in Nat /\ started # 0 /\ Before \in Nat
      /\ started * ActDepth = Before + ActDepth
      /\ started' * ActDepth = Before + ActDepth
  BY <1>1, BeforeIsNat
<1>3. ServiceTaken = ActDepth /\ UNCHANGED ServiceTaken
  BY <1>1, <1>2 DEF ServiceTaken
<1>4. ServiceGiven = received - Before /\ ServiceGiven' = received' - Before
  BY <1>1, <1>2 DEF ServiceGiven
<1>5. /\ soState' = SoNextState(TRUE, tready)
      /\ soBeat' = IF soState = "IDLE" THEN 0
                   ELSE IF SoValid /\ tready THEN soBeat + 1 ELSE soBeat
      /\ received' = IF SoValid /\ tready THEN received + 1 ELSE received
  BY <1>1 DEF Clk, SoClk, OutEnable, Host, Premises
<1>6. CASE soState = "IDLE"
  <2>1. soState' = "READ" /\ soBeat' = 0 /\ received' = Before /\ received = Before
        /\ topState' = "SEND_OUT"
    BY <1>1, <1>5, <1>6 DEF SoNextState, SoValid, Delivered
  <2>2. Sending'
    BY <2>1 DEF Ending
  <2>3. Delivered'
    BY <1>1, <1>2, <2>1 DEF Delivered
  <2>4. UNCHANGED <<ServiceGiven, ServiceOffer>>
    BY <1>4, <1>6, <2>1, <2>2, OfferedWord, OfferedWordNext
  <2> QED BY <1>1, <1>3, <2>1, <2>3, <2>4
<1>7. CASE soState = "READ"
  <2>1. soState' = "TRANSMIT" /\ soBeat' = soBeat /\ received' = received
        /\ topState' = "SEND_OUT"
    BY <1>1, <1>5, <1>7 DEF SoNextState, SoValid
  <2>2. received = Before + soBeat /\ soBeat \in 0 .. ActDepth - 1
    BY <1>1, <1>7 DEF Delivered, Sending
  <2>3. Sending'
    BY <2>1 DEF Ending
  <2>4. Delivered'
    BY <1>1, <1>2, <2>1, <2>2 DEF Delivered
  <2>5. ServiceGiven = soBeat /\ ServiceGiven' = soBeat /\ ServiceGiven < ActDepth
    BY <1>2, <1>4, <2>1, <2>2
  <2>6. ServiceOffer = <<>> /\ ServiceOffer' = <<started, soBeat>>
    BY <1>1, <1>7, <2>1, <2>3, OfferedWord, OfferedWordNext
  <2> QED BY <1>1, <1>3, <2>1, <2>4, <2>5, <2>6
<1>8. CASE soState = "TRANSMIT"
  <2>1. received = Before + soBeat /\ soBeat \in 0 .. ActDepth - 1
        /\ topState' = "SEND_OUT"
    BY <1>1, <1>8 DEF Delivered, Sending
  <2>2. Sending' /\ ServiceOffer = <<started, soBeat>>
    BY <1>8, <2>1, OfferedWord DEF Ending
  <2>3. CASE ~tready
    <3>1. soState' = "TRANSMIT" /\ soBeat' = soBeat /\ received' = received
      BY <1>5, <1>8, <2>3 DEF SoNextState, SoValid
    <3>2. Delivered'
      BY <1>1, <1>2, <2>1, <3>1 DEF Delivered
    <3>3. UNCHANGED <<ServiceGiven, ServiceOffer>>
      BY <1>1, <1>4, <2>2, <3>1, OfferedWordNext
    <3> QED BY <1>1, <1>3, <2>1, <3>2, <3>3
  <2>4. CASE tready
    <3>1. /\ soState' = IF soBeat = ActDepth - 1 THEN "DONE" ELSE "READ"
          /\ soBeat' = soBeat + 1 /\ received' = received + 1
      BY <1>5, <1>8, <2>4 DEF SoNextState, SoValid, SoLast
    <3>2. Delivered'
      BY <1>1, <1>2, <2>1, <3>1 DEF Delivered
    <3>3. ServiceOffer # <<>> /\ ServiceOffer' = <<>>
      BY <2>2, <3>1, OfferedWordNext
    <3>4. ServiceGiven' = ServiceGiven + 1
      BY <1>2, <1>4, <2>1, <3>1
    <3> QED BY <1>1, <1>3, <2>1, <3>2, <3>3, <3>4
  <2> QED BY <2>3, <2>4
<1>9. CASE soState = "DONE"
  <2>1. soState' = "IDLE" /\ received' = received /\ topState' = "DONE"
        /\ received = Before + ActDepth
    BY <1>1, <1>5, <1>9 DEF SoNextState, SoValid, Delivered
  <2>2. Delivered'
    BY <1>2, <2>1 DEF Delivered
  <2>3. UNCHANGED <<ServiceGiven, ServiceOffer>>
    BY <1>4, <1>9, <2>1 DEF ServiceOffer, SoValid
  <2> QED BY <1>1, <1>3, <2>1, <2>2, <2>3
<1> QED BY <1>6, <1>7, <1>8, <1>9 DEF Sending

(* The last clock of an inference, when all words are delivered.            *)
LEMMA EndService ==
  ASSUME Premises, Delivered, Ending, Idling',
         NEW start \in BOOLEAN, NEW softRst \in BOOLEAN,
         NEW tvalid \in BOOLEAN, NEW tready \in BOOLEAN,
         Clk(start, softRst, tvalid, tready)
  PROVE  /\ Delivered'
         /\ topState # "IDLE" /\ topState' = "IDLE" /\ started' = started
         /\ ServiceGiven = ActDepth
         /\ UNCHANGED <<ServiceTaken, ServiceGiven, ServiceOffer>>
<1> USE GeometryAssumption, TopAssumption
<1>1. topState = "DONE" /\ Busy /\ soState = "IDLE" /\ received = started * ActDepth
  BY DEF Ending, PacketTaken, Busy, Delivered
<1>2. topState' = "IDLE" /\ started' = started /\ sent' = sent
  BY <1>1, HostWaits DEF TopNextState
<1>3. soState' = "IDLE" /\ received' = received
  BY <1>1, StreamsOff DEF Clk, Host, Premises, SoValid
<1>4. /\ started \in Nat /\ started # 0 /\ Before \in Nat
      /\ started * ActDepth = Before + ActDepth
  BY <1>1, BeforeIsNat
<1>5. Delivered'
  BY <1>1, <1>2, <1>3 DEF Delivered
<1>6. ServiceGiven = ActDepth
  BY <1>1, <1>4 DEF ServiceGiven
<1>7. UNCHANGED <<ServiceTaken, ServiceGiven, ServiceOffer>>
  BY <1>1, <1>2, <1>3 DEF ServiceTaken, ServiceGiven, ServiceOffer, SoValid, Before
<1> QED BY <1>1, <1>2, <1>5, <1>6, <1>7

(* Every edge is a step of InferenceService or none. *)
LEMMA StepSimulation ==
  ASSUME Premises, IInv, Delivered, IInv',
         NEW start \in BOOLEAN, NEW softRst \in BOOLEAN,
         NEW tvalid \in BOOLEAN, NEW tready \in BOOLEAN,
         Clk(start, softRst, tvalid, tready)
  PROVE  Delivered' /\ [Service!Next]_Service!isVars
<1> USE DEF ServiceTaken, ServiceGiven, ServiceOffer, Before
<1>1. CASE Idling
  <2>1. Idling' \/ Receiving'
    BY <1>1, IdleStep
  <2>2. /\ Delivered'
        /\ \/ /\ UNCHANGED <<started, ServiceTaken, ServiceGiven, ServiceOffer>>
              /\ topState' = "IDLE"
           \/ /\ topState' # "IDLE"
              /\ started < MaxInferences /\ started' = started + 1
              /\ ServiceTaken' = 0 /\ ServiceGiven' = 0
              /\ UNCHANGED ServiceOffer
    BY <1>1, <2>1, IdleService
  <2>3. topState = "IDLE"
    BY <1>1 DEF Idling
  <2> QED BY <2>2, <2>3 DEF Service!Next, Service!Start, Service!isVars
<1>2. CASE Receiving \/ RunningLayer \/ BetweenLayers
  <2>1. (Receiving \/ RunningLayer \/ BetweenLayers \/ Sending)'
    BY <1>2, ReceiveStep, RunStep, NextLayerStep DEF IInv
  <2>2. /\ Delivered'
        /\ topState # "IDLE" /\ topState' # "IDLE" /\ started' = started
        /\ UNCHANGED <<ServiceGiven, ServiceOffer>>
        /\ \/ UNCHANGED ServiceTaken
           \/ ServiceTaken < ActDepth /\ ServiceTaken' = ServiceTaken + 1
    BY <1>2, <2>1, BusyService
  <2> QED BY <2>2 DEF Service!Next, Service!Take, Service!isVars
<1>3. CASE Sending
  <2>1. Sending' \/ Ending'
    BY <1>3, SendStep
  <2>2. /\ Delivered'
        /\ topState # "IDLE" /\ topState' # "IDLE" /\ started' = started
        /\ UNCHANGED ServiceTaken
        /\ \/ UNCHANGED <<ServiceGiven, ServiceOffer>>
           \/ /\ ServiceTaken = ActDepth /\ ServiceGiven < ActDepth /\ ServiceOffer = <<>>
              /\ ServiceOffer' = <<started, ServiceGiven>> /\ UNCHANGED ServiceGiven
           \/ /\ ServiceOffer # <<>> /\ ServiceOffer' = <<>>
              /\ ServiceGiven' = ServiceGiven + 1
    BY <1>3, <2>1, SendService
  <2> QED BY <2>2 DEF Service!Next, Service!Offer, Service!Give, Service!isVars
<1>4. CASE Ending
  <2>1. /\ Delivered'
        /\ topState # "IDLE" /\ topState' = "IDLE" /\ started' = started
        /\ ServiceGiven = ActDepth
        /\ UNCHANGED <<ServiceTaken, ServiceGiven, ServiceOffer>>
    BY <1>4, EndingStep, EndService
  <2> QED BY <2>1 DEF Service!Next, Service!Finish, Service!isVars
<1> QED BY <1>1, <1>2, <1>3, <1>4 DEF IInv

(* To a patient host the accelerator is InferenceService, for every even      *)
(* number of layers: one packet at a time is taken, computed and answered,    *)
(* word by word, before it is idle again.                                   *)
THEOREM Refinement == ASSUME Premises PROVE Spec => ImplementsService
<1>1. Init => Service!Init /\ Delivered
  <2> SUFFICES ASSUME Init PROVE Service!Init /\ Delivered
    OBVIOUS
  <2>1. Service!Init
    BY DEF Init, SoInit, SoValid, Service!Init
  <2>2. 0 * ActDepth = 0
    BY GeometryAssumption
  <2>3. Delivered
    BY <2>2 DEF Init, Delivered
  <2> QED BY <2>1, <2>3
<1>2. IInv /\ IInv' /\ Delivered /\ [Next]_vars => Delivered' /\ [Service!Next]_Service!isVars
  <2> SUFFICES ASSUME IInv, IInv', Delivered, [Next]_vars
               PROVE  Delivered' /\ [Service!Next]_Service!isVars
    OBVIOUS
  <2>1. CASE UNCHANGED vars
    BY <2>1 DEF vars, siVars, soVars, topVars, memVars, hostVars, Delivered, Before,
       Service!isVars, SoValid
  <2>2. CASE Next
    BY <2>2, StepSimulation DEF Next
  <2> QED BY <2>1, <2>2
<1>3. Spec => []IInv
  BY Invariance
<1> QED BY <1>1, <1>2, <1>3, PTL DEF Spec, ImplementsService, Service!Spec
===============================================================================
