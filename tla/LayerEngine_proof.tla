--------------------------- MODULE LayerEngine_proof --------------------------
(***************************************************************************)
(* Proofs about one layer on the accelerator: its control and its arithmetic. *)
(*                                                                         *)
(* LayerEngine: a one-tile layer keeps the controller and the array in step   *)
(* for every number of lanes and every input dimension.                      *)
(*                                                                         *)
(* Requantizer: for the eight bits and the sixteen fractional bits of the     *)
(* code, any two layers and any sequence of requests, the pipeline computes    *)
(* what INT8Interpreter does.  The inductive invariant says of every stage     *)
(* what request it holds and how far it is computed; that the missing upper    *)
(* clip of ReLU6 does no harm is a fact about calibrated scales.  For layers    *)
(* with symmetric inputs, what it computes is near the real result: the errors    *)
(* of rounding the weights, the sample, the bias, the scale and the result add up. *)
(***************************************************************************)
EXTENDS LayerEngine, Requantizer, FiniteSetTheorems, WellFoundedInduction, TLAPS

(* A counter of modulus m stays in its range, and does not wrap below it.   *)
LEMMA Successor ==
  ASSUME NEW m \in Nat \ {0}, NEW x \in 0 .. m - 1
  PROVE  /\ (x + 1) % m \in 0 .. m - 1
         /\ x + 1 < m => (x + 1) % m = x + 1
  OBVIOUS

(* A remainder is below its modulus. *)
LEMMA ModRange ==
  ASSUME NEW m \in Nat \ {0}, NEW x \in Nat
  PROVE  x % m \in 0 .. m - 1
  OBVIOUS

(* The hardware's subtraction of one does not wrap for a positive width. *)
LEMMA MinusOne ==
  ASSUME NEW x \in 1 .. CountMod - 1
  PROVE  Minus1(x) = x - 1
  BY GeometryAssumption DEF Minus1

-------------------------------------------------------------------------------
(* What one edge does to the controller and to the array, state by state.   *)

(* The controller: which state follows which, and on what. *)
LEMMA LcStep ==
  ASSUME NEW start, LcClk(start, inDim, numTiles, MacDone)
  PROVE  /\ lcState = "IDLE" => lcState' = IF start THEN "LOAD_BIAS" ELSE "IDLE"
         /\ lcState = "LOAD_BIAS" =>
              lcState' = IF lcBias = Parallelism - 1 THEN "COMPUTE" ELSE "LOAD_BIAS"
         /\ lcState = "COMPUTE" =>
              lcState' = IF lcInput = Minus1(inDim) THEN "WAIT_MAC" ELSE "COMPUTE"
         /\ lcState = "WAIT_MAC" =>
              lcState' = IF MacDone THEN "WRITE_TILE" ELSE "WAIT_MAC"
         /\ lcState = "WRITE_TILE" =>
              lcState' = IF lcWrite = WordsPerTile - 1 THEN "NEXT_TILE" ELSE "WRITE_TILE"
         /\ lcState = "NEXT_TILE" =>
              lcState' = IF lcTile = Minus1(numTiles) THEN "DONE" ELSE "LOAD_BIAS"
         /\ lcState = "DONE" => lcState' = "IDLE"
  BY Zenon DEF LcClk, LcNextState, TileWritten

(* The array: which state follows which, and on what. *)
LEMMA MacStep ==
  ASSUME NEW start, NEW iv, NEW bv, MacClk(start, inDim, iv, bv)
  PROVE  /\ macState = "IDLE" => macState' = IF start THEN "BIAS_LOAD" ELSE "IDLE"
         /\ macState = "BIAS_LOAD" =>
              macState' = IF macBias = Parallelism - 1 THEN "COMPUTE" ELSE "BIAS_LOAD"
         /\ macState = "COMPUTE" =>
              macState' = IF macCompute = inDim THEN "REQUANT" ELSE "COMPUTE"
         /\ macState = "REQUANT" =>
              macState' = IF macRequant = 3 THEN "OUTPUT" ELSE "REQUANT"
         /\ macState = "OUTPUT" => macState' = "DONE"
         /\ macState = "DONE" => macState' = "IDLE"
  BY Zenon DEF MacClk, MacNextState, MacSummed

(* The counters of both, without the state machines. *)
LcCounters ==
  /\ lcTile' = IF lcState = "IDLE" THEN 0
               ELSE IF lcState = "NEXT_TILE" THEN (lcTile + 1) % CountMod
               ELSE lcTile
  /\ lcBias' = IF lcState \in {"IDLE", "NEXT_TILE"} THEN 0
               ELSE IF lcState = "LOAD_BIAS" THEN (lcBias + 1) % Parallelism
               ELSE lcBias
  /\ lcInput' = IF lcState # "COMPUTE" THEN 0 ELSE (lcInput + 1) % CountMod
  /\ lcWrite' = IF lcState # "WRITE_TILE" THEN 0 ELSE lcWrite + 1

MacCounters ==
  /\ macBias' = IF macState = "IDLE" THEN 0
                ELSE IF MacLoads(LcBiasValid) THEN (macBias + 1) % Parallelism
                ELSE macBias
  /\ macCompute' = IF macState # "COMPUTE" THEN 0
                   ELSE IF LcInputValid THEN (macCompute + 1) % CountMod
                   ELSE macCompute
  /\ macRequant' = IF macState # "REQUANT" THEN 0 ELSE (macRequant + 1) % 4

(* An edge updates the counters of both FSMs. *)
LEMMA Counters ==
  ASSUME NEW start, Clk(start)
  PROVE  LcCounters /\ MacCounters
  BY Zenon DEF Clk, LcClk, MacClk, LcCounters, MacCounters

-------------------------------------------------------------------------------
(* Type correctness, for any number of tiles.  The write counter needs the  *)
(* bound it has while writing.                                             *)
WriteBound == lcState = "WRITE_TILE" => lcWrite < WordsPerTile

(* The state after reset is well typed. *)
LEMMA InitType == Init => TypeOK /\ WriteBound
  BY GeometryAssumption, EngineAssumption
  DEF Init, TypeOK, WriteBound, LcInit, MacInit, LcTypeOK, MacTypeOK, LcStates, MacStates

(* The operands a product is labelled with are natural numbers. *)
LEMMA OperandType ==
  ASSUME TypeOK
  PROVE  InputOperands \in Nat \X Nat \X Nat
<1>1. lcInput % WordBytes \in Nat
  BY GeometryAssumption, ModRange DEF TypeOK, LcTypeOK
<1> QED BY <1>1 DEF InputOperands, TypeOK

(* An edge keeps every register in its type and the write counter in bounds. *)
LEMMA ClkType ==
  ASSUME TypeOK, WriteBound, NEW start \in BOOLEAN, Clk(start)
  PROVE  TypeOK' /\ WriteBound'
<1> USE GeometryAssumption, EngineAssumption
<1>1. LcClk(start, inDim, numTiles, MacDone) /\
      MacClk(LcMacStart(start), inDim, LcInputValid, LcBiasValid) /\ LcCounters /\ MacCounters
  BY Counters DEF Clk
<1>2. lcState' \in LcStates
  BY <1>1, LcStep DEF TypeOK, LcTypeOK, LcStates
<1>3. macState' \in MacStates
  BY <1>1, MacStep DEF TypeOK, MacTypeOK, MacStates
<1>a. /\ (lcTile + 1) % CountMod \in 0 .. CountMod - 1
      /\ (lcInput + 1) % CountMod \in 0 .. CountMod - 1
      /\ (macCompute + 1) % CountMod \in 0 .. CountMod - 1
  BY Successor DEF TypeOK, LcTypeOK, MacTypeOK
<1>b. /\ (lcBias + 1) % Parallelism \in 0 .. Parallelism - 1
      /\ (macBias + 1) % Parallelism \in 0 .. Parallelism - 1
  BY Successor DEF TypeOK, LcTypeOK, MacTypeOK
<1>4. lcTile' \in 0 .. CountMod - 1
  BY <1>1, <1>a DEF LcCounters, TypeOK, LcTypeOK
<1>5. lcBias' \in 0 .. Parallelism - 1
  BY <1>1, <1>b DEF LcCounters, TypeOK, LcTypeOK
<1>6. lcInput' \in 0 .. CountMod - 1
  BY <1>1, <1>a DEF LcCounters, TypeOK, LcTypeOK
<1>7. lcWrite' \in 0 .. WordsPerTile /\ WriteBound'
  BY <1>1, LcStep DEF LcCounters, WriteBound, TypeOK, LcTypeOK, LcStates
<1>8. macBias' \in 0 .. Parallelism - 1 /\ macCompute' \in 0 .. CountMod - 1
  BY <1>1, <1>a, <1>b DEF MacCounters, TypeOK, MacTypeOK
<1>9. macRequant' \in 0 .. 3
  BY <1>1 DEF MacCounters, TypeOK, MacTypeOK
<1>10. inDim' \in InDims /\ numTiles' \in TileCounts /\ elapsed' \in 0 .. ElapsedCap
  BY DEF Clk, cfgVars, TypeOK
<1>11. wRow' \in Nat /\ aWord' \in Nat
  <2>1. inDim \in Nat /\ lcTile \in Nat /\ lcInput \in Nat
    BY DEF TypeOK, LcTypeOK
  <2>2. lcTile * inDim \in Nat
    BY <2>1
  <2> QED BY <2>1, <2>2 DEF Clk, Memories, WeightAddr, LcActRdAddr
<1>12. products' \in Seq(Nat \X Nat \X Nat)
  BY OperandType DEF Clk, Accumulators, TypeOK
<1>13. outputs' \in Seq(Nat \X Nat \X Nat)
  BY DEF Clk, Accumulators, TypeOK
<1> QED
  BY <1>2, <1>3, <1>4, <1>5, <1>6, <1>7, <1>8, <1>9, <1>10, <1>11, <1>12, <1>13
  DEF TypeOK, LcTypeOK, MacTypeOK

-------------------------------------------------------------------------------
(* The inductive invariant of a one-tile layer: for every state of the      *)
(* controller, where the array is, how much it has summed and how many      *)
(* clocks have passed.                                                     *)
At(n) == ElapsedCap >= LayerCycles => elapsed = n

Computed == Parallelism + inDim

MacPhase ==
  \/ macState = "COMPUTE" /\ macCompute = inDim /\ At(Computed)
  \/ macState = "REQUANT" /\ At(Computed + 1 + macRequant)
  \/ macState = "OUTPUT" /\ outputs = products /\ At(Computed + 5)
  \/ macState = "DONE" /\ outputs = products /\ At(Computed + 6)

Idle == macState = "IDLE"

Phase ==
  /\ lcState \notin {"IDLE", "DONE"} => lcTile = 0
  /\ lcState = "IDLE" => Idle
  /\ lcState = "LOAD_BIAS" =>
       macState = "BIAS_LOAD" /\ macBias = lcBias /\ lcInput = 0 /\ At(lcBias)
  /\ lcState = "COMPUTE" =>
       /\ macState = "COMPUTE" /\ macCompute = lcInput /\ lcInput < inDim
       /\ Len(products) = lcInput /\ At(Parallelism + lcInput)
  /\ lcState = "WAIT_MAC" => Len(products) = inDim /\ MacPhase
  /\ lcState = "WRITE_TILE" =>
       /\ Idle /\ Len(products) = inDim /\ outputs = products
       /\ At(Computed + 7 + lcWrite)
  /\ lcState = "NEXT_TILE" => Idle /\ At(Computed + 7 + WordsPerTile)
  /\ lcState = "DONE" => Idle /\ At(LayerCycles)

IInv == TypeOK /\ WriteBound /\ (numTiles = 1 => Phase)

(* After reset both FSMs are idle. *)
LEMMA InitPhase == Init => Phase
  BY DEF Init, LcInit, MacInit, Phase, Idle

(* The data registers and the cycle history of one edge. *)
LEMMA DataStep ==
  ASSUME TypeOK, NEW start \in BOOLEAN, Clk(start)
  PROVE  /\ macState = "BIAS_LOAD" /\ lcState = "LOAD_BIAS" => products' = <<>>
         /\ macState = "COMPUTE" /\ lcState = "COMPUTE" =>
              Len(products') = Len(products) + 1
         /\ lcState \notin {"LOAD_BIAS", "COMPUTE"} => products' = products
         /\ macState = "REQUANT" /\ macRequant = 3 => outputs' = products
         /\ ~(macState = "REQUANT" /\ macRequant = 3) => outputs' = outputs
         /\ lcState = "IDLE" => elapsed' = 0
         /\ lcState # "IDLE" /\ elapsed < ElapsedCap => elapsed' = elapsed + 1
         /\ UNCHANGED <<inDim, numTiles>>
<1>1. products' = IF MacLoads(LcBiasValid) THEN <<>>
                  ELSE IF MacAccumulates(LcInputValid)
                  THEN Append(products, InputOperands) ELSE products
  BY DEF Clk, Accumulators
<1>2. products \in Seq(Nat \X Nat \X Nat)
  BY DEF TypeOK
<1>3. InputOperands \in Nat \X Nat \X Nat
  BY OperandType
<1>4. Len(Append(products, InputOperands)) = Len(products) + 1
  <2> HIDE DEF InputOperands
  <2> QED BY <1>2, <1>3
<1>5. /\ outputs' = IF MacLatches THEN products ELSE outputs
      /\ elapsed' = IF lcState = "IDLE" THEN 0
                    ELSE IF elapsed < ElapsedCap THEN elapsed + 1 ELSE elapsed
      /\ UNCHANGED <<inDim, numTiles>>
  BY DEF Clk, Accumulators, cfgVars
<1> QED
  BY <1>1, <1>4, <1>5
  DEF MacLoads, MacAccumulates, MacLatches, LcBiasValid, LcInputValid

(* The history counts every clock of a run, up to its cap. *)
LEMMA Tick ==
  ASSUME TypeOK, NEW start \in BOOLEAN, Clk(start), lcState # "IDLE",
         NEW n \in Nat, At(n), n < LayerCycles, LayerCycles \in Nat
  PROVE  ElapsedCap >= LayerCycles => elapsed' = n + 1
<1>1. elapsed < ElapsedCap => elapsed' = elapsed + 1
  BY DataStep
<1> QED BY <1>1, EngineAssumption DEF At

(* One edge takes a phase to itself or to the next one.                     *)
LEMMA ClkPhase ==
  ASSUME TypeOK, WriteBound, numTiles = 1, Phase, NEW start \in BOOLEAN, Clk(start)
  PROVE  Phase'
<1> USE GeometryAssumption, EngineAssumption
<1>1. LcClk(start, inDim, numTiles, MacDone) /\
      MacClk(LcMacStart(start), inDim, LcInputValid, LcBiasValid)
  BY DEF Clk
<1>2. LcCounters /\ MacCounters
  BY Counters
<1>t. /\ inDim \in InDims /\ lcState \in LcStates
      /\ lcBias \in 0 .. Parallelism - 1 /\ lcInput \in 0 .. CountMod - 1
      /\ lcWrite \in 0 .. WordsPerTile /\ macRequant \in 0 .. 3
      /\ macBias \in 0 .. Parallelism - 1 /\ macCompute \in 0 .. CountMod - 1
  BY DEF TypeOK, LcTypeOK, MacTypeOK
<1>3. inDim \in 1 .. CountMod - 1 /\ LayerCycles \in Nat /\ Computed \in Nat
  BY <1>t DEF LayerCycles, Computed
<1>4. Minus1(inDim) = inDim - 1 /\ Minus1(numTiles) = 0
  BY <1>3, MinusOne
<1>5. /\ lcBias + 1 < Parallelism => (lcBias + 1) % Parallelism = lcBias + 1
      /\ lcInput + 1 < CountMod => (lcInput + 1) % CountMod = lcInput + 1
      /\ macRequant + 1 < 4 => (macRequant + 1) % 4 = macRequant + 1
  <2>1. lcBias + 1 < Parallelism => (lcBias + 1) % Parallelism = lcBias + 1
    BY <1>t, Successor
  <2>2. lcInput + 1 < CountMod => (lcInput + 1) % CountMod = lcInput + 1
    BY <1>t, Successor
  <2>3. macRequant + 1 < 4 => (macRequant + 1) % 4 = macRequant + 1
    BY <1>t
  <2> QED BY <2>1, <2>2, <2>3
<1>6. inDim' = inDim
  BY DataStep
<1>7. CASE lcState = "IDLE"
  BY <1>1, <1>2, <1>7, LcStep, MacStep, DataStep
  DEF Phase, Idle, At, LcCounters, MacCounters, LcMacStart
<1>8. CASE lcState = "LOAD_BIAS"
  <2>1. macState = "BIAS_LOAD" /\ macBias = lcBias /\ lcInput = 0 /\ At(lcBias) /\ lcTile = 0
    BY <1>8 DEF Phase
  <2>2. ElapsedCap >= LayerCycles => elapsed' = lcBias + 1
    BY <1>3, <1>8, <1>t, <2>1, Tick DEF LayerCycles
  <2>3. products' = <<>>
    BY <1>8, <2>1, DataStep
  <2>4. lcTile' = 0 /\ lcInput' = 0 /\ macCompute' = 0
    BY <1>2, <1>8, <2>1 DEF LcCounters, MacCounters
  <2>5. CASE lcBias = Parallelism - 1
    <3>1. lcState' = "COMPUTE" /\ macState' = "COMPUTE"
      BY <1>1, <1>8, <2>1, <2>5, LcStep, MacStep
    <3>2. Len(products') = 0 /\ inDim' > 0
      BY <1>3, <1>6, <2>3
    <3> QED BY <1>t, <1>6, <2>2, <2>4, <2>5, <3>1, <3>2 DEF Phase, At, LayerCycles
  <2>6. CASE lcBias # Parallelism - 1
    <3>1. lcState' = "LOAD_BIAS" /\ macState' = "BIAS_LOAD"
      BY <1>1, <1>8, <2>1, <2>6, LcStep, MacStep
    <3>2. lcBias' = lcBias + 1 /\ macBias' = lcBias + 1
      BY <1>2, <1>5, <1>8, <1>t, <2>1, <2>6
      DEF LcCounters, MacCounters, MacLoads, LcBiasValid
    <3> QED BY <1>6, <2>2, <2>4, <3>1, <3>2 DEF Phase, At, LayerCycles
  <2> QED BY <2>5, <2>6
<1>9. CASE lcState = "COMPUTE"
  <2>1. /\ macState = "COMPUTE" /\ macCompute = lcInput /\ lcInput < inDim
        /\ Len(products) = lcInput /\ At(Parallelism + lcInput) /\ lcTile = 0
    BY <1>9 DEF Phase
  <2>2. ElapsedCap >= LayerCycles => elapsed' = Parallelism + lcInput + 1
    BY <1>3, <1>9, <1>t, <2>1, Tick DEF LayerCycles
  <2>3. Len(products') = lcInput + 1 /\ lcTile' = 0 /\ macState' = "COMPUTE"
    BY <1>1, <1>2, <1>3, <1>9, <1>t, <2>1, DataStep, MacStep DEF LcCounters
  <2>4. macCompute' = lcInput + 1 /\ lcInput' = lcInput + 1
    BY <1>2, <1>3, <1>5, <1>9, <1>t, <2>1 DEF LcCounters, MacCounters, LcInputValid
  <2>5. CASE lcInput = inDim - 1
    <3>1. lcState' = "WAIT_MAC"
      BY <1>1, <1>4, <1>9, <2>5, LcStep
    <3> QED
      BY <1>3, <1>6, <2>2, <2>3, <2>4, <2>5, <3>1
      DEF Phase, MacPhase, At, LayerCycles, Computed
  <2>6. CASE lcInput # inDim - 1
    <3>1. lcState' = "COMPUTE"
      BY <1>1, <1>4, <1>9, <2>6, LcStep
    <3> QED
      BY <1>3, <1>6, <1>t, <2>1, <2>2, <2>3, <2>4, <2>6, <3>1 DEF Phase, At, LayerCycles
  <2> QED BY <2>5, <2>6
<1>10. CASE lcState = "WAIT_MAC"
  <2>1. /\ Len(products) = inDim /\ MacPhase /\ lcTile = 0
    BY <1>10 DEF Phase
  <2>2. lcTile' = 0 /\ products' = products /\ lcWrite' = 0
    BY <1>2, <1>10, <2>1, DataStep DEF LcCounters
  <2>3. CASE macState = "COMPUTE"
    <3>1. macCompute = inDim /\ At(Computed)
      BY <2>1, <2>3 DEF MacPhase
    <3>2. lcState' = "WAIT_MAC" /\ macState' = "REQUANT" /\ macRequant' = 0
      BY <1>1, <1>2, <1>10, <2>3, <3>1, LcStep, MacStep DEF MacDone, MacCounters
    <3>3. ElapsedCap >= LayerCycles => elapsed' = Computed + 1
      BY <1>3, <1>10, <3>1, Tick DEF LayerCycles, Computed
    <3> QED
      BY <1>3, <1>6, <2>1, <2>2, <3>2, <3>3 DEF Phase, MacPhase, At, LayerCycles, Computed
  <2>4. CASE macState = "REQUANT"
    <3>1. At(Computed + 1 + macRequant)
      BY <2>1, <2>4 DEF MacPhase
    <3>2. ElapsedCap >= LayerCycles => elapsed' = Computed + 1 + macRequant + 1
      BY <1>3, <1>10, <1>t, <3>1, Tick DEF LayerCycles, Computed
    <3>3. lcState' = "WAIT_MAC"
      BY <1>1, <1>10, <2>4, LcStep DEF MacDone
    <3>4. CASE macRequant = 3
      <4>1. macState' = "OUTPUT" /\ outputs' = products
        BY <1>1, <2>4, <3>4, MacStep, DataStep
      <4> QED
        BY <1>3, <1>6, <2>1, <2>2, <3>2, <3>3, <3>4, <4>1
        DEF Phase, MacPhase, At, LayerCycles, Computed
    <3>5. CASE macRequant # 3
      <4>1. macState' = "REQUANT" /\ macRequant' = macRequant + 1
        BY <1>1, <1>2, <1>5, <1>t, <2>4, <3>5, MacStep DEF MacCounters
      <4> QED
        BY <1>3, <1>6, <1>t, <2>1, <2>2, <3>2, <3>3, <4>1
        DEF Phase, MacPhase, At, LayerCycles, Computed
    <3> QED BY <3>4, <3>5
  <2>5. CASE macState = "OUTPUT"
    <3>1. At(Computed + 5) /\ outputs = products
      BY <2>1, <2>5 DEF MacPhase
    <3>2. ElapsedCap >= LayerCycles => elapsed' = Computed + 6
      BY <1>3, <1>10, <3>1, Tick DEF LayerCycles, Computed
    <3>3. lcState' = "WAIT_MAC" /\ macState' = "DONE" /\ outputs' = outputs
      BY <1>1, <1>10, <2>5, LcStep, MacStep, DataStep DEF MacDone
    <3> QED
      BY <1>3, <1>6, <2>1, <2>2, <3>1, <3>2, <3>3
      DEF Phase, MacPhase, At, LayerCycles, Computed
  <2>6. CASE macState = "DONE"
    <3>1. At(Computed + 6) /\ outputs = products
      BY <2>1, <2>6 DEF MacPhase
    <3>2. ElapsedCap >= LayerCycles => elapsed' = Computed + 7
      BY <1>3, <1>10, <3>1, Tick DEF LayerCycles, Computed
    <3>3. lcState' = "WRITE_TILE" /\ macState' = "IDLE" /\ outputs' = outputs
      BY <1>1, <1>10, <2>6, LcStep, MacStep, DataStep DEF MacDone
    <3> QED
      BY <1>3, <1>6, <2>1, <2>2, <3>1, <3>2, <3>3
      DEF Phase, Idle, At, LayerCycles, Computed
  <2> QED BY <2>1, <2>3, <2>4, <2>5, <2>6 DEF MacPhase
<1>11. CASE lcState = "WRITE_TILE"
  <2>1. /\ Idle /\ Len(products) = inDim /\ outputs = products
        /\ At(Computed + 7 + lcWrite) /\ lcTile = 0 /\ lcWrite < WordsPerTile
    BY <1>11 DEF Phase, WriteBound
  <2>2. ElapsedCap >= LayerCycles => elapsed' = Computed + 7 + lcWrite + 1
    BY <1>3, <1>11, <1>t, <2>1, Tick DEF LayerCycles, Computed
  <2>3. /\ lcTile' = 0 /\ lcWrite' = lcWrite + 1 /\ macState' = "IDLE"
        /\ products' = products /\ outputs' = outputs
    BY <1>1, <1>2, <1>11, <2>1, MacStep, DataStep DEF LcCounters, Idle, LcMacStart
  <2>4. CASE lcWrite = WordsPerTile - 1
    <3>1. lcState' = "NEXT_TILE"
      BY <1>1, <1>11, <2>4, LcStep
    <3> QED
      BY <1>3, <1>6, <2>2, <2>3, <2>4, <3>1 DEF Phase, Idle, At, LayerCycles, Computed
  <2>5. CASE lcWrite # WordsPerTile - 1
    <3>1. lcState' = "WRITE_TILE"
      BY <1>1, <1>11, <2>5, LcStep
    <3> QED
      BY <1>3, <1>6, <1>t, <2>1, <2>2, <2>3, <3>1 DEF Phase, Idle, At, LayerCycles, Computed
  <2> QED BY <2>4, <2>5
<1>12. CASE lcState = "NEXT_TILE"
  <2>1. Idle /\ At(Computed + 7 + WordsPerTile) /\ lcTile = 0
    BY <1>12 DEF Phase
  <2>2. ElapsedCap >= LayerCycles => elapsed' = LayerCycles
    BY <1>3, <1>12, <2>1, Tick DEF LayerCycles, Computed
  <2>3. lcState' = "DONE" /\ macState' = "IDLE"
    BY <1>1, <1>4, <1>12, <2>1, LcStep, MacStep DEF Idle, LcMacStart
  <2> QED BY <1>6, <2>2, <2>3 DEF Phase, Idle, At, LayerCycles
<1>13. CASE lcState = "DONE"
  <2>1. lcState' = "IDLE" /\ macState' = "IDLE"
    BY <1>1, <1>13, LcStep, MacStep DEF Phase, Idle, LcMacStart
  <2> QED BY <2>1 DEF Phase, Idle
<1> QED BY <1>t, <1>7, <1>8, <1>9, <1>10, <1>11, <1>12, <1>13 DEF LcStates

(* Every step keeps the invariant. *)
LEMMA NextIInv == IInv /\ [Next]_vars => IInv'
<1>1. IInv /\ UNCHANGED vars => IInv'
  BY DEF vars, lcVars, macVars, cfgVars, dataVars, IInv, TypeOK, LcTypeOK, MacTypeOK,
         WriteBound, Phase, MacPhase, Idle, At, LayerCycles, Computed
<1>2. ASSUME IInv, NEW start \in BOOLEAN, Clk(start) PROVE IInv'
  BY <1>2, ClkType, ClkPhase, DataStep DEF IInv
<1> QED BY <1>1, <1>2 DEF Next

(* The inductive invariant holds in every behaviour of a one-tile layer:     *)
(* the two FSMs are in matching phases with matching counters.             *)
THEOREM Invariance == Spec => []IInv
<1>1. Init => IInv
  BY InitType, InitPhase DEF IInv
<1> QED BY <1>1, NextIInv, PTL DEF Spec

(* The array is always where the controller's valid wires expect it.        *)
THEOREM Lockstep == Spec => []InStep
<1>1. IInv => InStep
  BY DEF IInv, Phase, MacPhase, Idle, InStep
<1> QED BY <1>1, Invariance, PTL

(* Every output is computed from as many products as the layer has inputs,  *)
(* all of this run.                                                        *)
THEOREM CompleteTile == Spec => []TileIsComplete
<1>1. IInv => TileIsComplete
  BY DEF IInv, Phase, TileIsComplete
<1> QED BY <1>1, Invariance, PTL

(* A one-tile layer takes Parallelism + inDim + WordsPerTile + 8 clocks.    *)
THEOREM Latency == Spec => []LatencyIsFixed
<1>1. IInv => LatencyIsFixed
  BY DEF IInv, Phase, At, LatencyIsFixed, LcLayerDone
<1> QED BY <1>1, Invariance, PTL
-------------------------------------------------------------------------------
AllLayers == Layers \cup Others

-------------------------------------------------------------------------------
LEMMA UpTo ==
  ASSUME NEW n \in Nat, NEW Good, 0 \in Good, \A i \in 1 .. n : i - 1 \in Good => i \in Good
  PROVE  \A i \in 0 .. n : i \in Good
<1> DEFINE T == {i \in 0 .. n : i \notin Good}
<1>1. SUFFICES ASSUME T # {} PROVE FALSE
  OBVIOUS
<1>2. T \in SUBSET Nat
  OBVIOUS
<1>3. IsWellFoundedOn(OpToRel(<, Nat), Nat)
  BY NatLessThanWellFounded
<1>4. PICK x \in T : \A y \in T : <<y, x>> \notin OpToRel(<, Nat)
  BY <1>1, <1>2, <1>3, WFMin
<1>5. \A y \in T : ~(y < x)
  BY <1>2, <1>4 DEF OpToRel
<1>6. x \in 1 .. n /\ x - 1 \in 0 .. n /\ x - 1 < x
  OBVIOUS
<1>7. x - 1 \in Good
  BY <1>5, <1>6
<1> QED BY <1>6, <1>7

(* A sum takes what some order of its terms gives it. *)
Any(s) == CHOOSE i \in s : TRUE

Totals(f, total, n) ==
  /\ total \in [SUBSET DOMAIN f -> Int] /\ total[{}] = 0
  /\ \A s \in SUBSET DOMAIN f : s # {} /\ Cardinality(s) <= n =>
       total[s] = f[Any(s)] + total[s \ {Any(s)}]

LEMMA Smaller ==
  ASSUME NEW D, IsFiniteSet(D), NEW s \in SUBSET D, s # {}
  PROVE  /\ Any(s) \in s /\ s \ {Any(s)} \in SUBSET D
         /\ IsFiniteSet(s) /\ Cardinality(s) \in Nat \ {0} /\ Cardinality(s) <= Cardinality(D)
         /\ Cardinality(s \ {Any(s)}) = Cardinality(s) - 1
<1>1. Any(s) \in s
  BY DEF Any
<1>2. IsFiniteSet(s) /\ Cardinality(s) \in Nat /\ Cardinality(s) <= Cardinality(D)
  BY FS_Subset, FS_CardinalityType
<1>3. Cardinality(s) # 0
  BY <1>2, FS_EmptySet
<1>4. Cardinality(s \ {Any(s)}) = Cardinality(s) - 1
  BY <1>1, <1>2, FS_RemoveElement
<1> QED BY <1>1, <1>2, <1>3, <1>4

LEMMA TotalsExist ==
  ASSUME NEW D, IsFiniteSet(D), NEW f \in [D -> Int]
  PROVE  \E total : Totals(f, total, Cardinality(D))
<1>1. Cardinality(D) \in Nat /\ DOMAIN f = D
  BY FS_CardinalityType
<1> DEFINE N == Cardinality(D)
           Good == {n \in 0 .. N : \E total : Totals(f, total, n)}
<1>2. 0 \in Good
  <2> DEFINE none == [s \in SUBSET D |-> 0]
  <2>1. none \in [SUBSET D -> Int] /\ none[{}] = 0
    OBVIOUS
  <2>2. ASSUME NEW s \in SUBSET D, s # {} PROVE ~(Cardinality(s) <= 0)
    <3>1. Cardinality(s) \in Nat \ {0}
      BY <2>2, Smaller
    <3> QED BY <3>1
  <2> HIDE DEF none
  <2>3. Totals(f, none, 0)
    BY <1>1, <2>1, <2>2 DEF Totals
  <2> QED BY <1>1, <2>3
<1>3. ASSUME NEW n \in 1 .. N, n - 1 \in Good PROVE n \in Good
  <2>1. PICK before : Totals(f, before, n - 1)
    BY <1>3
  <2> DEFINE after == [s \in SUBSET D |->
                IF s # {} /\ Cardinality(s) = n THEN f[Any(s)] + before[s \ {Any(s)}] ELSE before[s]]
  <2>2. before \in [SUBSET D -> Int] /\ before[{}] = 0
    BY <1>1, <2>1 DEF Totals
  <2>3. \A s \in SUBSET D : after[s] \in Int
    <3>1. SUFFICES ASSUME NEW s \in SUBSET D, s # {} PROVE f[Any(s)] + before[s \ {Any(s)}] \in Int
      BY <2>2
    <3>2. Any(s) \in D /\ s \ {Any(s)} \in SUBSET D
      BY <3>1, Smaller
    <3> QED BY <2>2, <3>2
  <2>4. after \in [SUBSET D -> Int] /\ after[{}] = 0
    BY <2>2, <2>3
  <2>5. ASSUME NEW s \in SUBSET D, s # {}, Cardinality(s) <= n
        PROVE  after[s] = f[Any(s)] + after[s \ {Any(s)}]
    <3>1. /\ s \ {Any(s)} \in SUBSET D /\ Cardinality(s) \in Nat \ {0}
          /\ Cardinality(s \ {Any(s)}) = Cardinality(s) - 1
      BY <2>5, Smaller
    <3>2. after[s \ {Any(s)}] = before[s \ {Any(s)}]
      BY <1>1, <2>5, <3>1
    <3>3. CASE Cardinality(s) = n
      BY <2>5, <3>2, <3>3
    <3>4. CASE Cardinality(s) # n
      <4>1. Cardinality(s) <= n - 1
        BY <2>5, <3>1, <3>4
      <4> QED BY <1>1, <2>1, <2>5, <3>2, <3>4, <4>1 DEF Totals
    <3> QED BY <3>3, <3>4
  <2> HIDE DEF after
  <2>6. Totals(f, after, n)
    BY <1>1, <2>4, <2>5 DEF Totals
  <2> QED BY <2>6
<1>4. N \in 0 .. N
  BY <1>1
<1> HIDE DEF N
<1>5. N \in Good
  BY <1>1, <1>2, <1>3, <1>4, UpTo DEF N
<1> QED BY <1>5 DEF N

LEMMA SumIsTotal ==
  ASSUME NEW D, IsFiniteSet(D), NEW f \in [D -> Int]
  PROVE  \E total : Totals(f, total, Cardinality(D)) /\ SumFunction(f) = total[D]
<1> DEFINE Step(g) == [s \in SUBSET D |-> IF s = {} THEN 0 ELSE f[Any(s)] + g[s \ {Any(s)}]]
           sum == CHOOSE g : g = Step(g)
<1>1. PICK total : Totals(f, total, Cardinality(D))
  BY TotalsExist
<1>2. total \in [SUBSET D -> Int] /\ total[{}] = 0
  BY <1>1 DEF Totals
<1>3. ASSUME NEW s \in SUBSET D, s # {} PROVE total[s] = f[Any(s)] + total[s \ {Any(s)}]
  BY <1>1, <1>3, Smaller DEF Totals
<1>4. total = Step(total)
  BY <1>2, <1>3
<1>5. sum = Step(sum)
  BY <1>4
<1>6. SumFunction(f) = sum[D]
  BY DEF SumFunction, SumFunctionOnSet, FoldFunctionOnSet, MapThenFoldSet, Any
<1> HIDE DEF sum
<1>7. sum[{}] = 0 /\ \A s \in SUBSET D : s # {} => sum[s] = f[Any(s)] + sum[s \ {Any(s)}]
  BY <1>5
<1> DEFINE N == Cardinality(D)
           Good == {n \in 0 .. N : \A s \in SUBSET D : Cardinality(s) = n => sum[s] = total[s]}
<1>8. N \in 0 .. N /\ N \in Nat
  BY FS_CardinalityType
<1>9. 0 \in Good
  <2>1. ASSUME NEW s \in SUBSET D, Cardinality(s) = 0 PROVE s = {}
    BY <2>1, Smaller
  <2>2. sum[{}] = total[{}]
    BY <1>2, <1>7
  <2>3. \A s \in SUBSET D : Cardinality(s) = 0 => sum[s] = total[s]
    BY <2>1, <2>2
  <2> QED BY <1>8, <2>3
<1>10. ASSUME NEW n \in 1 .. N, n - 1 \in Good PROVE n \in Good
  <2>1. SUFFICES ASSUME NEW s \in SUBSET D, Cardinality(s) = n PROVE sum[s] = total[s]
    BY <1>8
  <2>2. s # {}
    BY <1>8, <2>1, FS_EmptySet
  <2>3. s \ {Any(s)} \in SUBSET D /\ Cardinality(s \ {Any(s)}) = n - 1
    BY <2>1, <2>2, Smaller
  <2>4. sum[s \ {Any(s)}] = total[s \ {Any(s)}]
    BY <1>10, <2>3
  <2> QED BY <1>3, <1>7, <2>2, <2>4
<1> HIDE DEF N
<1>11. N \in Good
  BY <1>8, <1>9, <1>10, UpTo
<1> QED BY <1>1, <1>6, <1>11 DEF N

(* Sums that are near each other term by term are near each other. *)
Near(a, u, b, v, c) == -c <= a * u - b * v /\ a * u - b * v <= c

LEMMA SumsNear ==
  ASSUME NEW D, IsFiniteSet(D), NEW f \in [D -> Int], NEW g \in [D -> Int],
         NEW a \in Int, NEW b \in Int, NEW c \in Int, \A i \in D : Near(a, f[i], b, g[i], c)
  PROVE  /\ SumFunction(f) \in Int /\ SumFunction(g) \in Int /\ Cardinality(D) \in Nat
         /\ Near(a, SumFunction(f), b, SumFunction(g), Cardinality(D) * c)
<1>1. PICK F : Totals(f, F, Cardinality(D)) /\ SumFunction(f) = F[D]
  BY SumIsTotal
<1>2. PICK G : Totals(g, G, Cardinality(D)) /\ SumFunction(g) = G[D]
  BY SumIsTotal
<1>3. F \in [SUBSET D -> Int] /\ F[{}] = 0 /\ G \in [SUBSET D -> Int] /\ G[{}] = 0
  BY <1>1, <1>2 DEF Totals
<1>4. ASSUME NEW s \in SUBSET D, s # {}
      PROVE  F[s] = f[Any(s)] + F[s \ {Any(s)}] /\ G[s] = g[Any(s)] + G[s \ {Any(s)}]
  BY <1>1, <1>2, <1>4, Smaller DEF Totals
<1> DEFINE N == Cardinality(D)
           Good == {n \in 0 .. N : \A s \in SUBSET D :
                      Cardinality(s) = n => Near(a, F[s], b, G[s], n * c)}
<1>5. N \in 0 .. N /\ N \in Nat
  BY FS_CardinalityType
<1>6. 0 \in Good
  <2>1. ASSUME NEW s \in SUBSET D, Cardinality(s) = 0 PROVE s = {}
    BY <2>1, Smaller
  <2>2. a * F[{}] - b * G[{}] = 0 /\ 0 * c = 0
    BY <1>3
  <2>3. Near(a, F[{}], b, G[{}], 0 * c)
    BY <2>2 DEF Near
  <2>4. \A s \in SUBSET D : Cardinality(s) = 0 => Near(a, F[s], b, G[s], 0 * c)
    BY <2>1, <2>3
  <2> QED BY <1>5, <2>4
<1>7. ASSUME NEW n \in 1 .. N, n - 1 \in Good PROVE n \in Good
  <2>1. SUFFICES ASSUME NEW s \in SUBSET D, Cardinality(s) = n PROVE Near(a, F[s], b, G[s], n * c)
    BY <1>5
  <2>2. s # {}
    <3>1. n # 0
      BY <1>5
    <3>2. Cardinality({}) = 0
      BY FS_EmptySet
    <3> QED BY <2>1, <3>1, <3>2
  <2> DEFINE i == Any(s)
             r == s \ {Any(s)}
  <2>3. r \in SUBSET D /\ Cardinality(r) = n - 1 /\ i \in D
    BY <2>1, <2>2, Smaller
  <2>4. Near(a, F[r], b, G[r], (n - 1) * c)
    BY <1>7, <2>3
  <2>5. F[s] = f[i] + F[r] /\ G[s] = g[i] + G[r]
    BY <1>4, <2>2
  <2>6. F[r] \in Int /\ G[r] \in Int /\ f[i] \in Int /\ g[i] \in Int /\ n \in Int
    BY <1>3, <2>3
  <2>7. -c <= a * f[i] - b * g[i] /\ a * f[i] - b * g[i] <= c
    BY <2>3 DEF Near
  <2> HIDE DEF i, r
  <2>8. a * F[s] - b * G[s] = (a * f[i] - b * g[i]) + (a * F[r] - b * G[r])
    BY <2>5, <2>6
  <2>9. n * c = (n - 1) * c + c
    BY <2>6
  <2> QED BY <2>4, <2>6, <2>7, <2>8, <2>9 DEF Near
<1> HIDE DEF N
<1>8. N \in Good
  BY <1>5, <1>6, <1>7, UpTo
<1>9. Near(a, F[D], b, G[D], N * c) /\ F[D] \in Int /\ G[D] \in Int
  BY <1>3, <1>8 DEF N
<1> QED BY <1>1, <1>2, <1>5, <1>9 DEF N

(* A finite set of whole numbers has extremes. *)
LEMMA Least ==
  ASSUME NEW S, IsFiniteSet(S), S \subseteq Int, S # {}, NEW sign \in {1, -1}
  PROVE  \E x \in S : \A y \in S : sign * x <= sign * y
<1> DEFINE Below(x) == {y \in S : sign * y < sign * x}
           size == [x \in S |-> Cardinality(Below(x))]
<1>1. \A x \in S : IsFiniteSet(Below(x)) /\ size[x] \in Nat
  <2>1. SUFFICES ASSUME NEW x \in S PROVE IsFiniteSet(Below(x)) /\ Cardinality(Below(x)) \in Nat
    OBVIOUS
  <2>2. Below(x) \in SUBSET S
    OBVIOUS
  <2>3. IsFiniteSet(Below(x))
    BY <2>2, FS_Subset
  <2> QED BY <2>3, FS_CardinalityType
<1> DEFINE T == {size[x] : x \in S}
<1>2. T \in SUBSET Nat /\ T # {}
  BY <1>1
<1>3. PICK n \in T : \A m \in T : ~(m < n)
  <2>1. IsWellFoundedOn(OpToRel(<, Nat), Nat)
    BY NatLessThanWellFounded
  <2> HIDE DEF T
  <2>2. PICK n \in T : \A m \in T : <<m, n>> \notin OpToRel(<, Nat)
    BY <1>2, <2>1, WFMin
  <2>3. \A m \in T : ~(m < n)
    BY <1>2, <2>2 DEF OpToRel
  <2> QED BY <2>3
<1>4. PICK x \in S : n = size[x]
  OBVIOUS
<1>5. ASSUME NEW y \in S, ~(sign * x <= sign * y) PROVE FALSE
  <2>1. x \in Int /\ y \in Int /\ sign \in Int /\ \A z \in S : z \in Int
    OBVIOUS
  <2>2. sign * x \in Int /\ sign * y \in Int /\ \A z \in S : sign * z \in Int
    BY <2>1
  <2>3. sign * y < sign * x
    BY <1>5, <2>2
  <2>4. \A z \in S : sign * z < sign * y => sign * z < sign * x
    BY <2>2, <2>3
  <2>5. Below(y) \in SUBSET Below(x) /\ y \in Below(x) /\ y \notin Below(y)
    <3>1. ~(sign * y < sign * y)
      BY <2>2
    <3>2. Below(y) \subseteq Below(x)
      BY <2>4
    <3> QED BY <2>3, <3>1, <3>2
  <2>6. Cardinality(Below(y)) <= Cardinality(Below(x)) /\ Cardinality(Below(y)) # Cardinality(Below(x))
    <3> HIDE DEF Below
    <3>1. IsFiniteSet(Below(x))
      BY <1>1
    <3> QED BY <2>5, <3>1, FS_Subset
  <2>7. size[y] < size[x] /\ size[y] \in T
    <3>1. size[y] = Cardinality(Below(y)) /\ size[x] = Cardinality(Below(x)) /\ size[y] \in T
      OBVIOUS
    <3>2. size[x] \in Nat /\ size[y] \in Nat
      BY <1>1
    <3> HIDE DEF Below, size, T
    <3> QED BY <2>6, <3>1, <3>2
  <2> QED BY <1>3, <1>4, <2>7
<1> QED BY <1>5

HasExtremes(S) ==
  /\ S \subseteq Int /\ Max(S) \in S /\ Min(S) \in S /\ Max(S) \in Int /\ Min(S) \in Int
  /\ Min(S) < Max(S) /\ \A y \in S : Min(S) <= y /\ y <= Max(S)

LEMMA HaveExtremes ==
  ASSUME NEW S, IsFiniteSet(S), S \subseteq Int, NEW u \in S, NEW v \in S, u # v
  PROVE  HasExtremes(S)
<1>1. \E x \in S : \A y \in S : x <= y
  <2>1. PICK x \in S : \A y \in S : 1 * x <= 1 * y
    BY Least
  <2> QED BY <2>1
<1>2. \E x \in S : \A y \in S : x >= y
  <2>1. PICK x \in S : \A y \in S : (-1) * x <= (-1) * y
    <3>1. -1 \in {1, -1}
      OBVIOUS
    <3> QED BY <3>1, Least
  <2>2. \A y \in S : x \in Int /\ y \in Int
    OBVIOUS
  <2>3. \A y \in S : x >= y
    BY <2>1, <2>2
  <2> QED BY <2>3
<1>3. Min(S) \in S /\ \A y \in S : Min(S) <= y
  BY <1>1 DEF Min
<1>4. Max(S) \in S /\ \A y \in S : Max(S) >= y
  BY <1>2 DEF Max
<1>5. Max(S) \in Int /\ Min(S) \in Int /\ u \in Int /\ v \in Int
  BY <1>3, <1>4
<1>6. Min(S) <= u /\ Min(S) <= v /\ u <= Max(S) /\ v <= Max(S)
  BY <1>3, <1>4, <1>5
<1>7. Min(S) < Max(S)
  BY <1>5, <1>6
<1>8. \A y \in S : Min(S) <= y /\ y <= Max(S)
  BY <1>3, <1>4, <1>5
<1> QED BY <1>3, <1>4, <1>5, <1>7, <1>8 DEF HasExtremes

-------------------------------------------------------------------------------
(* Rounding is off by a half at most.                                       *)
LEMMA Rounded ==
  ASSUME NEW n \in Int, NEW d \in Nat \ {0}
  PROVE  LET r == RoundHalfUp(n, d)
         IN  r \in Int /\ 2 * (r * d) <= 2 * n + d /\ 2 * n - d < 2 * (r * d)
<1> DEFINE r == (2 * n + d) \div (2 * d)
<1>1. 2 * d > 0 /\ 2 * d \in Int /\ 2 * n + d \in Int
  OBVIOUS
<1>2. r \in Int /\ r * (2 * d) <= 2 * n + d /\ 2 * n + d < (r + 1) * (2 * d)
  BY <1>1
<1> HIDE DEF r
<1>3. r * (2 * d) = 2 * (r * d) /\ (r + 1) * (2 * d) = 2 * (r * d) + 2 * d
  BY <1>2
<1>4. RoundHalfUp(n, d) = r
  BY DEF RoundHalfUp, r
<1> QED BY <1>2, <1>3, <1>4

(* and so stays between what rounds to whole numbers. *)
LEMMA RoundedWithin ==
  ASSUME NEW n \in Int, NEW d \in Nat \ {0}, NEW lo \in Int, NEW hi \in Int,
         2 * lo * d - d <= 2 * n, 2 * n < 2 * hi * d + d
  PROVE  RoundHalfUp(n, d) \in lo .. hi
<1> DEFINE r == RoundHalfUp(n, d)
<1>1. r \in Int /\ 2 * (r * d) <= 2 * n + d /\ 2 * n - d < 2 * (r * d)
  BY Rounded
<1> HIDE DEF r
<1>2. 2 * (r * d) < 2 * hi * d + 2 * d /\ 2 * lo * d - 2 * d < 2 * (r * d)
  BY <1>1
<1>3. r * d < (hi + 1) * d /\ (lo - 1) * d < r * d
  BY <1>1, <1>2
<1>4. r < hi + 1 /\ lo - 1 < r
  BY <1>1, <1>3
<1> QED BY <1>1, <1>4 DEF r

LEMMA Absolute ==
  ASSUME NEW a \in Int, NEW b \in Int, NEW m \in Nat, NEW n \in Nat,
         -m <= a, a <= m, -n <= b, b <= n
  PROVE  -(m * n) <= a * b /\ a * b <= m * n
<1>1. \A c \in Nat, d \in Nat : c <= m /\ d <= n => c * d <= m * n /\ 0 <= c * d
  <2>1. SUFFICES ASSUME NEW c \in Nat, NEW d \in Nat, c <= m, d <= n PROVE c * d <= m * n /\ 0 <= c * d
    OBVIOUS
  <2>2. c * d <= m * d /\ m * d <= m * n /\ 0 <= c * d
    BY <2>1
  <2> QED BY <2>2
<1>2. CASE a >= 0 /\ b >= 0
  BY <1>1, <1>2
<1>3. CASE a >= 0 /\ b <= 0
  <2>1. -b \in Nat /\ -b <= n /\ a \in Nat /\ a * (-b) = -(a * b)
    BY <1>3
  <2>2. a * (-b) <= m * n /\ 0 <= a * (-b)
    BY <1>1, <2>1
  <2> QED BY <2>1, <2>2
<1>4. CASE a <= 0 /\ b >= 0
  <2>1. -a \in Nat /\ -a <= m /\ b \in Nat /\ (-a) * b = -(a * b)
    BY <1>4
  <2>2. (-a) * b <= m * n /\ 0 <= (-a) * b
    BY <1>1, <2>1
  <2> QED BY <2>1, <2>2
<1>5. CASE a <= 0 /\ b <= 0
  <2>1. -a \in Nat /\ -a <= m /\ -b \in Nat /\ -b <= n /\ (-a) * (-b) = a * b
    BY <1>5
  <2>2. (-a) * (-b) <= m * n /\ 0 <= (-a) * (-b)
    BY <1>1, <2>1
  <2> QED BY <2>1, <2>2
<1> QED BY <1>2, <1>3, <1>4, <1>5

LEMMA Eight ==
  ASSUME Bits = 8
  PROVE  QMax = 127 /\ QMin = -128 /\ Steps = 255
<1>1. 2 ^ 7 = 128
  OBVIOUS
<1> QED BY <1>1 DEF QMax, QMin, Steps

LEMMA Sixteen == 2 ^ 16 = 65536
  OBVIOUS

-------------------------------------------------------------------------------
(* What calibration has seen. *)
LEMMA SumIsWhole ==
  ASSUME NEW D, IsFiniteSet(D), NEW f \in [D -> Int]
  PROVE  SumFunction(f) \in Int
<1>1. PICK total : Totals(f, total, Cardinality(D)) /\ SumFunction(f) = total[D]
  BY SumIsTotal
<1> QED BY <1>1 DEF Totals

LEMMA FiniteRange ==
  ASSUME NEW D, IsFiniteSet(D), NEW f, D = DOMAIN f
  PROVE  IsFiniteSet({f[i] : i \in D})
<1> DEFINE T == {f[i] : i \in D}
           h == [i \in D |-> f[i]]
<1>1. h \in [D -> T] /\ \A t \in T : \E i \in D : h[i] = t
  OBVIOUS
<1> HIDE DEF T, h
<1>2. h \in Surjection(D, T)
  BY <1>1 DEF Surjection
<1>3. IsFiniteSet(T)
  BY <1>2, FS_Surjection
<1> QED BY <1>3 DEF T

LEMMA LargestWeight ==
  ASSUME NEW l \in AllLayers
  PROVE  /\ MaxAbs(l) \in Nat \ {0}
         /\ \A i \in DOMAIN l.w : -MaxAbs(l) <= l.w[i] /\ l.w[i] <= MaxAbs(l)
<1> DEFINE D == DOMAIN l.w
           abs(v) == IF v < 0 THEN -v ELSE v
           S == {abs(v) : v \in Range(l.w)}
           size == [i \in D |-> abs(l.w[i])]
<1>1. IsFiniteSet(D) /\ l.w \in [D -> Int] /\ \E i \in D : l.w[i] # 0
  BY LayerAssumption DEF AllLayers
<1>2. S = {size[i] : i \in D}
  BY DEF Range
<1>3. \A i \in D : l.w[i] \in Int
  BY <1>1
<1>4. \A i \in D : size[i] \in Nat /\ (l.w[i] # 0 => size[i] # 0) /\ -size[i] <= l.w[i] /\ l.w[i] <= size[i]
  BY <1>3
<1>5. DOMAIN size = D /\ D # {}
  BY <1>1
<1>6. MaxAbs(l) = Max(S)
  BY DEF MaxAbs
<1> HIDE DEF S, size, D
<1>7. IsFiniteSet(S)
  BY <1>1, <1>2, <1>5, FiniteRange
<1>8. S \subseteq Int /\ S # {}
  BY <1>2, <1>4, <1>5
<1>9. PICK n \in S : \A y \in S : -n <= -y
  <2>1. PICK n \in S : \A y \in S : (-1) * n <= (-1) * y
    <3>1. -1 \in {1, -1}
      OBVIOUS
    <3> QED BY <1>7, <1>8, <3>1, Least
  <2>2. \A y \in S : (-1) * y = -y
    BY <1>8
  <2> QED BY <2>1, <2>2
<1>10. n >= n /\ \A y \in S : n >= y
  BY <1>8, <1>9
<1>11. Max(S) \in S /\ \A y \in S : Max(S) >= y
  BY <1>10 DEF Max
<1>12. PICK j \in D : l.w[j] # 0
  BY <1>1
<1>13. \A i \in D : size[i] \in S
  BY <1>2
<1>14. Max(S) \in Nat /\ size[j] > 0 /\ Max(S) >= size[j] /\ size[j] \in Nat
  BY <1>2, <1>4, <1>11, <1>12, <1>13
<1>15. ASSUME NEW i \in D PROVE -Max(S) <= l.w[i] /\ l.w[i] <= Max(S)
  <2>1. Max(S) >= size[i] /\ size[i] \in Nat /\ l.w[i] \in Int /\ Max(S) \in Int
    BY <1>3, <1>4, <1>11, <1>13, <1>14
  <2>2. -size[i] <= l.w[i] /\ l.w[i] <= size[i]
    BY <1>4
  <2> HIDE DEF abs
  <2> QED BY <2>1, <2>2
<1>16. Max(S) \in Nat \ {0}
  BY <1>14
<1> QED BY <1>6, <1>15, <1>16 DEF D

LEMMA ValuesExtreme ==
  ASSUME NEW l \in AllLayers
  PROVE  HasExtremes(Values(l)) /\ \A x \in l.xs, i \in DOMAIN l.w : x[i] \in Values(l)
<1> DEFINE D == DOMAIN l.w
           ranges == [x \in l.xs |-> Range(x)]
<1>1. /\ IsFiniteSet(D) /\ IsFiniteSet(l.xs) /\ l.xs \subseteq [D -> Int]
      /\ \E u, v \in Values(l) : u # v
  BY LayerAssumption DEF AllLayers, Varies
<1>2. Values(l) = UNION {ranges[x] : x \in l.xs}
  BY DEF Values
<1>3. \A x \in l.xs : x \in [D -> Int] /\ DOMAIN x = D /\ ranges[x] = {x[i] : i \in D} /\ ranges[x] \subseteq Int
  BY <1>1 DEF Range
<1>4. \A x \in l.xs : IsFiniteSet(ranges[x])
  <2>1. SUFFICES ASSUME NEW x \in l.xs PROVE IsFiniteSet({x[i] : i \in D})
    BY <1>3
  <2> QED BY <1>1, <1>3, FiniteRange
<1>5. DOMAIN ranges = l.xs
  OBVIOUS
<1> HIDE DEF ranges, D
<1>6. IsFiniteSet({ranges[x] : x \in l.xs})
  BY <1>1, <1>5, FiniteRange
<1> DEFINE T == {ranges[x] : x \in l.xs}
<1>7. \A t \in T : IsFiniteSet(t)
  BY <1>4
<1>8. IsFiniteSet(T)
  BY <1>6
<1> HIDE DEF T
<1>9. IsFiniteSet(UNION T)
  BY <1>7, <1>8, FS_UNION
<1>10. IsFiniteSet(Values(l)) /\ Values(l) \subseteq Int
  BY <1>2, <1>3, <1>9 DEF T
<1>11. HasExtremes(Values(l))
  BY <1>1, <1>10, HaveExtremes
<1>12. \A x \in l.xs, i \in D : x[i] \in Values(l)
  BY <1>2, <1>3
<1> QED BY <1>11, <1>12 DEF D

LEMMA DotIsWhole ==
  ASSUME NEW D, IsFiniteSet(D), NEW w \in [D -> Int], NEW x \in [D -> Int]
  PROVE  Dot(w, x) \in Int
<1> DEFINE f == [i \in D |-> w[i] * x[i]]
<1>1. f \in [D -> Int]
  OBVIOUS
<1>2. Dot(w, x) = SumFunction(f)
  BY DEF Dot
<1> HIDE DEF f
<1> QED BY <1>1, <1>2, SumIsWhole

LEMMA ResultsExtreme ==
  ASSUME NEW l \in AllLayers
  PROVE  /\ HasExtremes(Results(l))
         /\ \A x \in l.xs : Dot(l.w, x) + l.b \in Int /\ Real(l, x) \in Results(l)
<1> DEFINE results == [x \in l.xs |-> Real(l, x)]
<1>1. /\ IsFiniteSet(DOMAIN l.w) /\ l.w \in [DOMAIN l.w -> Int] /\ l.b \in Int
      /\ IsFiniteSet(l.xs) /\ l.xs \subseteq [DOMAIN l.w -> Int]
      /\ \E u, v \in Results(l) : u # v
      /\ l.act \in {"none", "relu", "relu6"}
  BY LayerAssumption DEF AllLayers, Varies
<1>2. \A x \in l.xs : Dot(l.w, x) + l.b \in Int
  <2>1. SUFFICES ASSUME NEW x \in l.xs PROVE Dot(l.w, x) \in Int
    BY <1>1
  <2>2. x \in [DOMAIN l.w -> Int]
    BY <1>1
  <2> QED BY <1>1, <2>2, DotIsWhole
<1>3. \A x \in l.xs : Real(l, x) \in Int
  <2>1. SUFFICES ASSUME NEW x \in l.xs PROVE Real(l, x) \in Int
    OBVIOUS
  <2> DEFINE y == Dot(l.w, x) + l.b
  <2>2. y \in Int
    BY <1>2
  <2> HIDE DEF y
  <2>3. Max({y, 0}) \in Int
    BY <2>2 DEF Max
  <2>4. Clip(y, 0, Max({y, 0})) \in Int /\ Clip(y, 0, 6) \in Int
    BY <2>2, <2>3 DEF Clip
  <2> QED BY <1>1, <2>2, <2>4 DEF Real, Relu6Top, y
<1>4. Results(l) = {results[x] : x \in l.xs} /\ DOMAIN results = l.xs
  BY DEF Results
<1> HIDE DEF results
<1>5. IsFiniteSet(Results(l))
  BY <1>1, <1>4, FiniteRange
<1>6. Results(l) \subseteq Int
  BY <1>3 DEF Results
<1>7. HasExtremes(Results(l))
  BY <1>1, <1>5, <1>6, HaveExtremes
<1>8. \A x \in l.xs : Real(l, x) \in Results(l)
  BY DEF Results
<1> QED BY <1>2, <1>7, <1>8

-------------------------------------------------------------------------------
(* The parameters of a calibrated layer. *)
LEMMA Parameters ==
  ASSUME Bits = 8, FractionalBits = 16, NEW l \in AllLayers
  PROVE  /\ Quantized(l).act = l.act
         /\ Quantized(l).shift = 16
         /\ Quantized(l).m \in Int
         /\ Quantized(l).y.zero \in -128 .. 127
         /\ Quantized(l).y.span = Max(Results(l)) - Min(Results(l))
         /\ Quantized(l).y.span \in Nat \ {0}
<1> DEFINE q == Quantized(l)
           lo == Min(Results(l))
           hi == Max(Results(l))
<1>1. lo \in Int /\ hi \in Int /\ lo < hi
  BY ResultsExtreme DEF HasExtremes
<1>2. Min(Values(l)) \in Int /\ Max(Values(l)) \in Int
  BY ValuesExtreme DEF HasExtremes
<1>3. /\ q.act = l.act /\ q.shift = 16
      /\ q.y = Asymmetric(Results(l)) /\ q.x = Asymmetric(Values(l))
      /\ q.m = RequantScale(l, q.x, q.y)
  BY DEF Quantized
<1>4. q.y.span = hi - lo /\ q.x.span \in Int /\ q.y.zero = ZeroPoint(lo, hi)
  BY <1>2, <1>3 DEF Asymmetric
<1>5. q.y.span \in Nat \ {0}
  BY <1>1, <1>4
<1>6. RoundHalfUp(-lo * 255, hi - lo) \in Int
  <2>1. -lo * 255 \in Int /\ hi - lo \in Nat \ {0}
    BY <1>1
  <2> QED BY <2>1, Rounded
<1>7. q.y.zero \in -128 .. 127
  BY <1>4, <1>6, Eight DEF ZeroPoint, Clip
<1>8. q.m \in Int
  <2>1. MaxAbs(l) \in Int /\ 2 ^ FractionalBits \in Int
    BY LargestWeight, Sixteen
  <2>2. MaxAbs(l) * q.x.span * 2 ^ FractionalBits \in Int
    BY <2>1, <1>4
  <2>3. QMax * q.y.span \in Nat \ {0}
    BY <1>5, Eight
  <2> QED BY <2>2, <2>3, <1>3, Rounded DEF RequantScale
<1> QED BY <1>3, <1>4, <1>5, <1>7, <1>8

LEMMA InputParameters ==
  ASSUME Bits = 8, NEW l \in AllLayers
  PROVE  /\ Quantized(l).x.span = Max(Values(l)) - Min(Values(l))
         /\ Quantized(l).x.span \in Nat \ {0}
         /\ Quantized(l).x.zero = ZeroPoint(Min(Values(l)), Max(Values(l)))
         /\ Quantized(l).x.zero \in Int
<1> DEFINE q == Quantized(l)
           lo == Min(Values(l))
           hi == Max(Values(l))
<1>1. lo \in Int /\ hi \in Int /\ lo < hi
  BY ValuesExtreme DEF HasExtremes
<1>2. q.x = Asymmetric(Values(l))
  BY DEF Quantized
<1>3. q.x.span = hi - lo /\ q.x.zero = ZeroPoint(lo, hi)
  BY <1>2 DEF Asymmetric
<1> HIDE DEF q, lo, hi
<1>4. RoundHalfUp(-lo * 255, hi - lo) \in Int
  <2>1. -lo * 255 \in Int /\ hi - lo \in Nat \ {0}
    BY <1>1
  <2> QED BY <2>1, Rounded
<1>5. ZeroPoint(lo, hi) \in Int
  BY <1>4, Eight DEF ZeroPoint, Clip
<1>6. hi - lo \in Nat \ {0}
  BY <1>1
<1> QED BY <1>3, <1>5, <1>6 DEF q, lo, hi

(* Quantized weights, biases and inputs are whole. *)
LEMMA QuantizedIsWhole ==
  ASSUME Bits = 8, NEW l \in AllLayers, NEW x \in l.xs
  PROVE  /\ Quantized(l).w \in [DOMAIN l.w -> Int] /\ Quantized(l).b \in Int
         /\ auto_quantize_input(Quantized(l), x) \in [DOMAIN l.w -> Int]
<1> DEFINE q == Quantized(l)
           D == DOMAIN l.w
<1>1. MaxAbs(l) \in Nat \ {0} /\ q.x.span \in Nat \ {0} /\ q.x.zero \in Int
  BY LargestWeight, InputParameters
<1>2. l.w \in [D -> Int] /\ l.b \in Int /\ x \in [D -> Int]
  BY LayerAssumption DEF AllLayers
<1>3. q.w = [i \in D |-> Clip(RoundHalfUp(l.w[i] * 127, MaxAbs(l)), -127, 127)]
  BY Eight DEF Quantized
<1>4. q.b = RoundHalfUp(l.b * 127 * 255, MaxAbs(l) * q.x.span)
  BY Eight DEF Quantized
<1>5. auto_quantize_input(q, x) = [i \in D |-> Quantize(x[i], q.x)]
  BY <1>2 DEF auto_quantize_input
<1> HIDE DEF q, D
<1>6. ASSUME NEW i \in D PROVE Clip(RoundHalfUp(l.w[i] * 127, MaxAbs(l)), -127, 127) \in Int
  <2>1. l.w[i] * 127 \in Int
    BY <1>2
  <2>2. RoundHalfUp(l.w[i] * 127, MaxAbs(l)) \in Int
    BY <1>1, <2>1, Rounded
  <2> QED BY <2>2 DEF Clip
<1>7. q.b \in Int
  <2>1. l.b * 127 * 255 \in Int /\ MaxAbs(l) * q.x.span \in Nat \ {0}
    BY <1>1, <1>2
  <2> QED BY <1>4, <2>1, Rounded
<1>8. ASSUME NEW i \in D PROVE Quantize(x[i], q.x) \in Int
  <2>1. x[i] * 255 \in Int
    BY <1>2
  <2>2. RoundHalfUp(x[i] * 255, q.x.span) \in Int
    BY <1>1, <2>1, Rounded
  <2> QED BY <1>1, <2>2, Eight DEF Quantize, Clip
<1>9. q.w \in [D -> Int] /\ auto_quantize_input(q, x) \in [D -> Int]
  BY <1>3, <1>5, <1>6, <1>8
<1> QED BY <1>7, <1>9 DEF q, D

LEMMA AccumulatedIsWhole ==
  ASSUME Bits = 8, NEW l \in AllLayers, NEW x \in l.xs
  PROVE  Accumulated(Quantized(l), x) \in Int
<1>1. IsFiniteSet(DOMAIN l.w)
  BY LayerAssumption DEF AllLayers
<1>2. Dot(Quantized(l).w, auto_quantize_input(Quantized(l), x)) \in Int
  BY <1>1, QuantizedIsWhole, DotIsWhole
<1> QED BY <1>2, QuantizedIsWhole DEF Accumulated

(* The results of a layer with ReLU6 lie in 0 .. 6, so six is at or above the  *)
(* upper end of INT8 in the scale they are written in.                       *)
LEMMA SixIsTheTop ==
  ASSUME Bits = 8, FractionalBits = 16, NEW l \in AllLayers, l.act = "relu6"
  PROVE  Top6(Quantized(l)) = 127
<1> DEFINE y == Quantized(l).y
<1>1. \A r \in Results(l) : r \in 0 .. 6
  <2>1. \A x \in l.xs : Dot(l.w, x) + l.b \in Int
    BY ResultsExtreme
  <2> QED BY <2>1 DEF Results, Real, Clip, Relu6Top
<1>2. Max(Results(l)) \in 0 .. 6 /\ Min(Results(l)) \in 0 .. 6
  BY <1>1, ResultsExtreme DEF HasExtremes
<1>3. y.span \in 1 .. 6 /\ y.zero \in -128 .. 127
  BY <1>2, Parameters
<1>4. RoundHalfUp(6 * 255, y.span) >= 255 /\ RoundHalfUp(6 * 255, y.span) \in Int
  <2>1. \A s \in 1 .. 6 : RoundHalfUp(6 * 255, s) >= 255 /\ RoundHalfUp(6 * 255, s) \in Int
    BY DEF RoundHalfUp
  <2> QED BY <2>1, <1>3
<1>5. RoundHalfUp(6 * 255, y.span) + y.zero \in Int /\ RoundHalfUp(6 * 255, y.span) + y.zero >= 127
  BY <1>3, <1>4
<1>6. \A v \in Int : v >= 127 => Min({v, 127}) = 127
  BY DEF Min
<1> QED BY <1>5, <1>6, Eight DEF Top6, Relu6Top

(* So clamping and ReLU are all an activation does. *)
LEMMA OnlyRelu ==
  ASSUME Bits = 8, FractionalBits = 16, NEW l \in AllLayers, NEW r \in -128 .. 127
  PROVE  Activated(Quantized(l), r) = IF HasRelu(Quantized(l)) /\ r < 0 THEN 0 ELSE r
<1> DEFINE q == Quantized(l)
<1>1. q.act = l.act /\ q.act \in {"none", "relu", "relu6"}
  BY Parameters, LayerAssumption DEF AllLayers
<1>2. Max({r, 0}) = IF r < 0 THEN 0 ELSE r
  BY DEF Max
<1>3. \A v \in -128 .. 127 : Min({v, 127}) = v
  BY DEF Min
<1>4. CASE q.act = "relu6"
  <2>1. Top6(q) = 127
    BY <1>1, <1>4, SixIsTheTop
  <2>2. Activated(q, r) = Min({Max({r, 0}), 127})
    BY <1>4, <2>1 DEF Activated
  <2>3. Max({r, 0}) \in -128 .. 127
    BY <1>2
  <2>4. Activated(q, r) = Max({r, 0})
    BY <1>3, <2>2, <2>3
  <2>5. HasRelu(q)
    BY <1>4 DEF HasRelu
  <2> QED BY <1>2, <2>4, <2>5
<1>5. CASE q.act = "relu"
  BY <1>2, <1>5 DEF Activated, HasRelu
<1>6. CASE q.act = "none"
  BY <1>6 DEF Activated, HasRelu
<1>7. q.act = "relu6" \/ q.act = "relu" \/ q.act = "none"
  BY <1>1
<1> QED BY <1>4, <1>5, <1>6, <1>7

(* The three stages, from a sum to a value. *)
LEMMA Composed ==
  ASSUME Bits = 8, FractionalBits = 16, NEW l \in AllLayers, NEW x \in l.xs
  PROVE  LET q == Quantized(l)
             r == Clip(Rescaled(q, Accumulated(q, x)) + q.y.zero, QMin, QMax)
         IN  execute_fused_layer(q, x) = IF HasRelu(q) /\ r < 0 THEN 0 ELSE r
<1> DEFINE q == Quantized(l)
           sum == Accumulated(q, x)
           r == Clip(Rescaled(q, sum) + q.y.zero, QMin, QMax)
<1>1. sum \in Int /\ q.m \in Int /\ q.shift = 16 /\ q.y.zero \in -128 .. 127
  BY Parameters, AccumulatedIsWhole
<1>2. 2 ^ 15 = 32768
  OBVIOUS
<1>3. Rescaled(q, sum) = (sum * q.m + 32768) \div 65536
  BY <1>1, <1>2, Sixteen DEF Rescaled
<1>4. sum * q.m \in Int
  BY <1>1
<1>5. Rescaled(q, sum) \in Int
  BY <1>3, <1>4
<1>6. r \in -128 .. 127
  <2>1. \A v \in Int : Clip(v, -128, 127) \in -128 .. 127
    BY DEF Clip
  <2>2. Rescaled(q, sum) + q.y.zero \in Int
    BY <1>1, <1>5
  <2> QED BY <2>1, <2>2, Eight
<1>7. Activated(q, r) = IF HasRelu(q) /\ r < 0 THEN 0 ELSE r
  BY <1>6, OnlyRelu
<1> QED BY <1>7 DEF execute_fused_layer

-------------------------------------------------------------------------------
(* A request of the past, or none. *)
IsRequest(a) == a = Nothing \/ \E k \in 1 .. 2 : \E x \in layers[k].xs : a = <<k, x>>

(* What the stages hold for the request a. *)
InStage1(a) ==
  LET q == quant[a[1]] IN
  /\ product = Accumulated(q, a[2]) * q.m
  /\ shift1 = q.shift /\ zp1 = q.y.zero /\ relu1 = HasRelu(q)

InStage2(a) ==
  LET q == quant[a[1]] IN
  /\ shifted = Rescaled(q, Accumulated(q, a[2]))
  /\ zp2 = q.y.zero /\ relu2 = HasRelu(q)

InStage3(a) == data_out = execute_fused_layer(quant[a[1]], a[2])

RequantInv ==
  /\ layers \in Layers \X Others
  /\ quant = [k \in 1 .. 2 |-> Quantized(layers[k])]
  /\ asked = <<asked[1], asked[2], asked[3]>>
  /\ \A i \in 1 .. 3 : IsRequest(asked[i])
  /\ (valid1 <=> asked[1] # Nothing) /\ (valid1 => InStage1(asked[1]))
  /\ (valid2 <=> asked[2] # Nothing) /\ (valid2 => InStage2(asked[2]))
  /\ (valid_out <=> asked[3] # Nothing) /\ (valid_out => InStage3(asked[3]))

LEMMA RequantStarts == RequantInit => RequantInv
<1> SUFFICES ASSUME RequantInit PROVE RequantInv
  OBVIOUS
<1>1. asked = <<Nothing, Nothing, Nothing>>
  BY DEF RequantInit
<1>2. asked[1] = Nothing /\ asked[2] = Nothing /\ asked[3] = Nothing
  BY <1>1
<1> QED BY <1>1, <1>2 DEF RequantInit, RequantInv, IsRequest

(* A request is a layer and one of its inputs. *)
LEMMA RequestOf ==
  ASSUME RequantInv, NEW i \in 1 .. 3, asked[i] # Nothing
  PROVE  \E l \in AllLayers : \E x \in l.xs : asked[i][2] = x /\ quant[asked[i][1]] = Quantized(l)
<1>1. PICK k \in 1 .. 2 : \E x \in layers[k].xs : asked[i] = <<k, x>>
  BY DEF RequantInv, IsRequest
<1>2. PICK x \in layers[k].xs : asked[i] = <<k, x>>
  BY <1>1
<1>3. layers[k] \in AllLayers
  <2>1. layers[1] \in Layers /\ layers[2] \in Others
    BY DEF RequantInv
  <2> QED BY <2>1 DEF AllLayers
<1>4. quant[k] = Quantized(layers[k])
  BY DEF RequantInv
<1>5. asked[i][1] = k /\ asked[i][2] = x
  BY <1>2
<1> QED BY <1>3, <1>4, <1>5

LEMMA RequantizeKeeps ==
  ASSUME Bits = 8, FractionalBits = 16, RequantInv, NEW valid \in BOOLEAN,
         NEW k \in 1 .. 2, NEW x, x \in layers[k].xs, Requantize(valid, k, x)
  PROVE  RequantInv'
<1>1. layers' = layers /\ quant' = quant
  BY DEF Requantize
<1>2. asked' = <<IF valid THEN <<k, x>> ELSE Nothing, asked[1], asked[2]>>
  BY DEF Requantize
<1>3. /\ asked'[1] = (IF valid THEN <<k, x>> ELSE Nothing)
      /\ asked'[2] = asked[1] /\ asked'[3] = asked[2]
      /\ asked' = <<asked'[1], asked'[2], asked'[3]>>
  BY <1>2
<1>4. <<k, x>> # Nothing
  BY DEF Nothing
<1>5. \A i \in 1 .. 3 : IsRequest(asked[i])'
  <2>1. IsRequest(asked[1])' /\ IsRequest(asked[2])' /\ IsRequest(asked[3])'
    BY <1>1, <1>3 DEF RequantInv, IsRequest
  <2> QED BY <2>1
<1>6. (valid1 <=> asked[1] # Nothing)' /\ (valid1 => InStage1(asked[1]))'
  <2>1. valid1' = valid
    BY DEF Requantize, Stage1
  <2>2. CASE valid
    <3>1. asked'[1][1] = k /\ asked'[1][2] = x
      BY <1>3, <2>2
    <3> QED BY <1>1, <1>3, <1>4, <2>1, <2>2, <3>1 DEF Requantize, Stage1, InStage1
  <2>3. CASE ~valid
    BY <1>3, <2>1, <2>3
  <2> QED BY <2>2, <2>3
<1>7. (valid2 <=> asked[2] # Nothing)' /\ (valid2 => InStage2(asked[2]))'
  BY <1>1, <1>3 DEF RequantInv, Requantize, Stage2, InStage1, InStage2, Rescaled
<1>8. (valid_out <=> asked[3] # Nothing)' /\ (valid_out => InStage3(asked[3]))'
  <2>1. valid_out' = valid2
    BY DEF Requantize, Stage3
  <2>2. CASE valid2
    <3>1. PICK l \in AllLayers : asked[2][2] \in l.xs /\ quant[asked[2][1]] = Quantized(l)
      BY <2>2, RequestOf DEF RequantInv
    <3> DEFINE q == Quantized(l)
               r == Clip(Rescaled(q, Accumulated(q, asked[2][2])) + q.y.zero, QMin, QMax)
    <3>2. WithZeroPoint = Rescaled(q, Accumulated(q, asked[2][2])) + q.y.zero /\ relu2 = HasRelu(q)
      BY <2>2, <3>1 DEF RequantInv, InStage2, WithZeroPoint
    <3>3. data_out' = IF relu2 /\ r < 0 THEN 0 ELSE r
      BY <3>2 DEF Requantize, Stage3
    <3>4. data_out' = execute_fused_layer(q, asked[2][2])
      BY <3>1, <3>2, <3>3, Composed
    <3> QED BY <1>1, <1>3, <2>1, <2>2, <3>1, <3>4 DEF RequantInv, InStage3
  <2>3. CASE ~valid2
    BY <1>3, <2>1, <2>3 DEF RequantInv
  <2> QED BY <2>2, <2>3
<1> QED BY <1>1, <1>3, <1>5, <1>6, <1>7, <1>8 DEF RequantInv

LEMMA RequantKeeps == ASSUME Bits = 8, FractionalBits = 16 PROVE RequantInv /\ [RequantNext]_requantVars => RequantInv'
<1> SUFFICES ASSUME RequantInv, [RequantNext]_requantVars PROVE RequantInv'
  OBVIOUS
<1>1. ASSUME NEW k \in 1 .. 2, NEW x, x \in layers[k].xs, Requantize(TRUE, k, x) PROVE RequantInv'
  BY <1>1, RequantizeKeeps
<1>2. CASE Requantize(FALSE, 1, CHOOSE x \in layers[1].xs : TRUE)
  <2>1. \E x \in layers[1].xs : TRUE
    <3>1. layers[1] \in AllLayers
      BY DEF RequantInv, AllLayers
    <3>2. Results(layers[1]) # {}
      BY <3>1, ResultsExtreme DEF HasExtremes
    <3> QED BY <3>2 DEF Results
  <2> DEFINE any == CHOOSE x \in layers[1].xs : TRUE
  <2>2. any \in layers[1].xs
    BY <2>1
  <2>3. Requantize(FALSE, 1, any)
    BY <1>2
  <2> HIDE DEF any
  <2>4. ASSUME NEW k \in 1 .. 2, NEW x, x \in layers[k].xs, Requantize(FALSE, k, x) PROVE RequantInv'
    BY <2>4, RequantizeKeeps
  <2>5. 1 \in 1 .. 2
    OBVIOUS
  <2> QED BY ONLY <2>2, <2>3, <2>4, <2>5, Zenon
<1>3. CASE UNCHANGED requantVars
  BY <1>3 DEF requantVars, requantRegs, RequantInv, IsRequest, InStage1, InStage2, InStage3
<1> QED BY <1>1, <1>2, <1>3 DEF RequantNext

(* requantize.sv computes what INT8Interpreter.execute_fused_layer does, for     *)
(* every request and only for requests, three clocks later, whatever requests   *)
(* are before and behind it.                                               *)
THEOREM BitExact == ASSUME Bits = 8, FractionalBits = 16 PROVE RequantSpec => []HardwareIsInterpreter
<1>1. RequantInit => RequantInv
  BY RequantStarts
<1>2. RequantInv /\ [RequantNext]_requantVars => RequantInv'
  BY RequantKeeps
<1>3. RequantInv => HardwareIsInterpreter
  BY DEF RequantInv, InStage3, HardwareIsInterpreter, Params, Input
<1> QED BY <1>1, <1>2, <1>3, PTL DEF RequantSpec

-------------------------------------------------------------------------------
(* How far the result in integers is from the real one.  To a half of a step,   *)
(* weights, *)
LEMMA WeightRounded ==
  ASSUME NEW a \in Nat \ {0}, NEW w \in Int, -a <= w, w <= a
  PROVE  LET r == Clip(RoundHalfUp(w * 127, a), -127, 127)
         IN  r \in -127 .. 127 /\ -a <= 2 * (r * a) - 254 * w /\ 2 * (r * a) - 254 * w <= a
<1> DEFINE r == RoundHalfUp(w * 127, a)
<1>1. w * 127 \in Int /\ 127 \in Int /\ -127 \in Int
  OBVIOUS
<1>2. r \in Int /\ 2 * (r * a) <= 2 * (w * 127) + a /\ 2 * (w * 127) - a < 2 * (r * a)
  BY <1>1, Rounded
<1>3. 2 * (-127) * a - a <= 2 * (w * 127) /\ 2 * (w * 127) < 2 * 127 * a + a
  OBVIOUS
<1>4. r \in -127 .. 127
  BY <1>1, <1>3, RoundedWithin
<1> HIDE DEF r
<1>5. Clip(r, -127, 127) = r
  BY <1>4 DEF Clip
<1> QED BY <1>2, <1>4, <1>5 DEF r

(* symmetric inputs, *)
LEMMA SymmetricZero ==
  ASSUME Bits = 8, NEW h \in Nat \ {0}
  PROVE  ZeroPoint(-h, h) = 0
<1>1. RoundHalfUp(h * 255, 2 * h) \in 128 .. 128
  <2>1. h * 255 \in Int /\ 2 * h \in Nat \ {0}
    OBVIOUS
  <2>2. 2 * 128 * (2 * h) - 2 * h <= 2 * (h * 255) /\ 2 * (h * 255) < 2 * 128 * (2 * h) + 2 * h
    OBVIOUS
  <2> QED BY <2>1, <2>2, RoundedWithin
<1>2. - (-h) * 255 = h * 255 /\ h - (-h) = 2 * h
  OBVIOUS
<1> QED BY <1>1, <1>2, Eight DEF ZeroPoint, Clip

LEMMA InputRounded ==
  ASSUME Bits = 8, NEW h \in Nat \ {0}, NEW v \in Int, -h <= v, v <= h,
         NEW p, NEW d \in Nat \ {0}, d = 2 * h, p.span = d, p.zero = 0
  PROVE  LET r == Quantize(v, p)
         IN  r \in -127 .. 127 /\ -d <= 2 * (r * d) - 510 * v /\ 2 * (r * d) - 510 * v <= d
<1> DEFINE r == RoundHalfUp(v * 255, d)
<1>1. v * 255 \in Int
  OBVIOUS
<1>2. r \in Int /\ 2 * (r * d) <= 2 * (v * 255) + d /\ 2 * (v * 255) - d < 2 * (r * d)
  <2>1. d \in Nat \ {0}
    OBVIOUS
  <2> DEFINE n == v * 255
  <2>2. n \in Int /\ r = RoundHalfUp(n, d)
    BY <1>1
  <2> HIDE DEF n, r
  <2>3. r \in Int /\ 2 * (r * d) <= 2 * n + d /\ 2 * n - d < 2 * (r * d)
    BY ONLY <2>1, <2>2, Rounded
  <2> QED BY <2>3 DEF n
<1>3. r \in -127 .. 128
  <2>1. 2 * (-127) * d - d <= 2 * (v * 255) /\ 2 * (v * 255) < 2 * 128 * d + d
    OBVIOUS
  <2>2. -127 \in Int /\ 128 \in Int /\ d \in Nat \ {0}
    OBVIOUS
  <2> QED BY ONLY <1>1, <2>1, <2>2, RoundedWithin
<1> HIDE DEF r
<1>4. Quantize(v, p) = Clip(r, -127, 127)
  <2>1. r + 0 = r
    BY <1>2
  <2> QED BY <2>1, Eight DEF Quantize, r
<1>5. CASE r = 128
  <2>1. Clip(r, -127, 127) = 127
    BY <1>5 DEF Clip
  <2>2. 2 * (128 * d) <= 2 * (v * 255) + d
    BY <1>2, <1>5
  <2>3. v = h
    BY <2>2
  <2> QED BY <1>4, <2>1, <2>3
<1>6. CASE r # 128
  <2>1. Clip(r, -127, 127) = r /\ r \in -127 .. 127
    BY <1>3, <1>6 DEF Clip
  <2> QED BY <1>2, <1>4, <2>1
<1> QED BY <1>5, <1>6

(* their products, *)
Halves(a, s, w, v, k, j) ==
  /\ a \in Nat \ {0} /\ s \in Nat \ {0} /\ w \in Int /\ v \in Int /\ -a <= w /\ w <= a
  /\ k \in -127 .. 127 /\ -a <= 2 * (k * a) - 254 * w /\ 2 * (k * a) - 254 * w <= a
  /\ j \in -127 .. 127 /\ -s <= 2 * (j * s) - 510 * v /\ 2 * (j * s) - 510 * v <= s

LEMMA ProductRounded ==
  ASSUME NEW a, NEW s, NEW w, NEW v, NEW k, NEW j, Halves(a, s, w, v, k, j)
  PROVE  Near(a * s, k * j, 32385, w * v, 127 * (a * s))
<1> USE DEF Halves
<1> DEFINE e == 2 * (k * a) - 254 * w
           f == 2 * (j * s) - 510 * v
           js == j * s
<1>1. js \in Int /\ -(127 * s) <= js /\ js <= 127 * s /\ e \in Int /\ f \in Int
  OBVIOUS
<1>2. 2 * ((a * s) * (k * j) - 32385 * (w * v)) = e * js + (127 * w) * f
  <2>1. e * js = 2 * ((k * a) * js) - 254 * (w * js)
    BY <1>1
  <2>2. (127 * w) * f = 254 * (w * js) - 64770 * (w * v)
    <3>1. (127 * w) * (2 * js - 510 * v) = 254 * (w * js) - 64770 * (w * v)
      <4> HIDE DEF js
      <4> QED BY <1>1
    <3> QED BY <3>1
  <2>3. (k * a) * js = (a * s) * (k * j)
    OBVIOUS
  <2> HIDE DEF e, f, js
  <2> QED BY <1>1, <2>1, <2>2, <2>3
<1> HIDE DEF e, js
<1>3. -(a * (127 * s)) <= e * js /\ e * js <= a * (127 * s)
  <2>1. a \in Nat /\ 127 * s \in Nat /\ -a <= e /\ e <= a
    BY DEF e
  <2> QED BY <1>1, <2>1, Absolute
<1>4. -((127 * a) * s) <= (127 * w) * f /\ (127 * w) * f <= (127 * a) * s
  <2>1. 127 * w \in Int /\ 127 * a \in Nat /\ s \in Nat /\ -(127 * a) <= 127 * w /\ 127 * w <= 127 * a
    OBVIOUS
  <2>2. -s <= f /\ f <= s
    OBVIOUS
  <2> HIDE DEF f
  <2> QED BY <1>1, <2>1, <2>2, Absolute
<1>5. a * (127 * s) = 127 * (a * s) /\ (127 * a) * s = 127 * (a * s) /\ a * s \in Int
  OBVIOUS
<1> HIDE DEF f
<1>6. (a * s) * (k * j) - 32385 * (w * v) \in Int /\ e * js \in Int /\ (127 * w) * f \in Int
  BY <1>1
<1>7. /\ -(127 * (a * s)) <= (a * s) * (k * j) - 32385 * (w * v)
      /\ (a * s) * (k * j) - 32385 * (w * v) <= 127 * (a * s)
  BY ONLY <1>2, <1>3, <1>4, <1>5, <1>6, SMT
<1> QED BY <1>7 DEF Near

(* and the sums of them. *)
NearTerms(D, a, k, j, b, w, v, c) ==
  /\ IsFiniteSet(D) /\ a \in Int /\ b \in Int /\ c \in Int
  /\ k \in [D -> Int] /\ j \in [D -> Int] /\ w \in [D -> Int] /\ v \in [D -> Int]
  /\ \A i \in D : Near(a, k[i] * j[i], b, w[i] * v[i], c)

LEMMA DotRounded ==
  ASSUME NEW D, NEW a, NEW k, NEW j, NEW b, NEW w, NEW v, NEW c, NearTerms(D, a, k, j, b, w, v, c)
  PROVE  /\ Dot(w, v) \in Int /\ Dot(k, j) \in Int /\ Cardinality(D) \in Nat
         /\ Near(a, Dot(k, j), b, Dot(w, v), Cardinality(D) * c)
<1> USE DEF NearTerms
<1> DEFINE f == [i \in D |-> k[i] * j[i]]
           g == [i \in D |-> w[i] * v[i]]
<1>1. f \in [D -> Int] /\ g \in [D -> Int]
  OBVIOUS
<1>2. Dot(k, j) = SumFunction(f) /\ Dot(w, v) = SumFunction(g)
  BY DEF Dot
<1>3. \A i \in D : Near(a, f[i], b, g[i], c)
  OBVIOUS
<1> HIDE DEF f, g
<1>4. IsFiniteSet(D) /\ a \in Int /\ b \in Int /\ c \in Int
  OBVIOUS
<1>5. /\ SumFunction(f) \in Int /\ SumFunction(g) \in Int /\ Cardinality(D) \in Nat
      /\ Near(a, SumFunction(f), b, SumFunction(g), Cardinality(D) * c)
  BY ONLY <1>1, <1>3, <1>4, SumsNear
<1> QED BY ONLY <1>2, <1>5

(* The sum that the layer accumulates, in units of the product of both scales.  *)
SymmetricInputs(l) == Min(Values(l)) = -Max(Values(l))

LEMMA SymmetricSpan ==
  ASSUME Bits = 8, NEW l \in AllLayers, SymmetricInputs(l)
  PROVE  /\ Max(Values(l)) \in Nat \ {0} /\ Quantized(l).x.span = 2 * Max(Values(l))
         /\ Quantized(l).x.zero = 0
         /\ \A x \in l.xs, i \in DOMAIN l.w : -Max(Values(l)) <= x[i] /\ x[i] <= Max(Values(l))
<1> DEFINE h == Max(Values(l))
<1>1. Min(Values(l)) = -h /\ h \in Int /\ -h < h /\ \A y \in Values(l) : -h <= y /\ y <= h
  BY ValuesExtreme DEF HasExtremes, SymmetricInputs
<1>2. \A x \in l.xs, i \in DOMAIN l.w : x[i] \in Values(l)
  BY ValuesExtreme
<1>3. Quantized(l).x.span = h - (-h) /\ Quantized(l).x.zero = ZeroPoint(-h, h)
  BY <1>1, InputParameters
<1> HIDE DEF h
<1>4. h \in Nat \ {0} /\ h - (-h) = 2 * h
  BY <1>1
<1>5. Quantized(l).x.zero = 0
  BY <1>3, <1>4, SymmetricZero
<1> QED BY <1>1, <1>2, <1>3, <1>4, <1>5 DEF h

Product(l) == MaxAbs(l) * Quantized(l).x.span

LEMMA SumRounded ==
  ASSUME Bits = 8, NEW l \in AllLayers, SymmetricInputs(l), NEW x \in l.xs
  PROVE  LET n == Fanin(l)
             e == 2 * (Product(l) * Accumulated(Quantized(l), x)) - 64770 * (Dot(l.w, x) + l.b)
         IN  /\ Fanin(l) \in Nat /\ Product(l) \in Nat \ {0}
             /\ Dot(l.w, x) \in Int
             /\ -((254 * n + 1) * Product(l)) <= e /\ e <= (254 * n + 1) * Product(l)
<1> DEFINE q == Quantized(l)
           D == DOMAIN l.w
           a == MaxAbs(l)
           s == q.x.span
           h == Max(Values(l))
           j == auto_quantize_input(q, x)
           n == Fanin(l)
<1>1. /\ IsFiniteSet(D) /\ l.w \in [D -> Int] /\ l.b \in Int /\ x \in [D -> Int]
  BY LayerAssumption DEF AllLayers
<1>2. a \in Nat \ {0} /\ \A i \in D : -a <= l.w[i] /\ l.w[i] <= a
  BY LargestWeight
<1>3. s \in Nat \ {0} /\ h \in Nat \ {0} /\ s = 2 * h /\ q.x.zero = 0 /\ \A i \in D : -h <= x[i] /\ x[i] <= h
  BY SymmetricSpan, InputParameters
<1>4. q.w \in [D -> Int] /\ q.b \in Int /\ j \in [D -> Int]
  BY QuantizedIsWhole
<1>5. \A i \in D : q.w[i] = Clip(RoundHalfUp(l.w[i] * 127, a), -127, 127)
  BY Eight DEF Quantized
<1>6. \A i \in D : j[i] = Quantize(x[i], q.x)
  BY <1>1 DEF auto_quantize_input
<1>7. q.b = RoundHalfUp(l.b * 127 * 255, a * s)
  BY Eight DEF Quantized
<1>8. Accumulated(q, x) = Dot(q.w, j) + q.b /\ Product(l) = a * s /\ n = Cardinality(D)
  BY DEF Accumulated, Product, Fanin
<1> HIDE DEF q, D, a, s, h, j, n
<1>9. ASSUME NEW i \in D
      PROVE  Near(a * s, q.w[i] * j[i], 32385, l.w[i] * x[i], 127 * (a * s))
  <2>1. l.w[i] \in Int /\ x[i] \in Int /\ -a <= l.w[i] /\ l.w[i] <= a /\ -h <= x[i] /\ x[i] <= h
    BY <1>1, <1>2, <1>3
  <2>2. q.w[i] \in -127 .. 127 /\ -a <= 2 * (q.w[i] * a) - 254 * l.w[i] /\ 2 * (q.w[i] * a) - 254 * l.w[i] <= a
    BY <1>2, <1>5, <2>1, WeightRounded
  <2>3. j[i] \in -127 .. 127 /\ -s <= 2 * (j[i] * s) - 510 * x[i] /\ 2 * (j[i] * s) - 510 * x[i] <= s
    BY <1>3, <1>6, <2>1, InputRounded DEF s
  <2>4. a \in Nat \ {0} /\ s \in Nat \ {0}
    BY <1>2, <1>3
  <2>5. Halves(a, s, l.w[i], x[i], q.w[i], j[i])
    BY <2>1, <2>2, <2>3, <2>4 DEF Halves
  <2> QED BY ONLY <2>5, ProductRounded
<1> DEFINE c == 127 * (a * s)
<1>10. a * s \in Int /\ a * s \in Nat \ {0} /\ c \in Int /\ 32385 \in Int
  BY <1>2, <1>3
<1>11. /\ Dot(l.w, x) \in Int /\ Dot(q.w, j) \in Int /\ n \in Nat
       /\ Near(a * s, Dot(q.w, j), 32385, Dot(l.w, x), n * c)
  <2>1. NearTerms(D, a * s, q.w, j, 32385, l.w, x, c)
    BY <1>1, <1>4, <1>9, <1>10 DEF NearTerms
  <2> HIDE DEF c
  <2>2. /\ Dot(l.w, x) \in Int /\ Dot(q.w, j) \in Int /\ Cardinality(D) \in Nat
        /\ Near(a * s, Dot(q.w, j), 32385, Dot(l.w, x), Cardinality(D) * c)
    BY ONLY <2>1, DotRounded
  <2> QED BY <1>8, <2>2
<1>12. /\ 2 * (q.b * (a * s)) <= 2 * (l.b * 127 * 255) + a * s
       /\ 2 * (l.b * 127 * 255) - a * s < 2 * (q.b * (a * s))
  <2>1. l.b * 127 * 255 \in Int
    BY <1>1
  <2> QED BY <1>7, <1>10, <2>1, Rounded
<1> DEFINE p == a * s
           dot == Dot(l.w, x)
           sum == Dot(q.w, j)
           bias == q.b
           b == l.b
<1>13. /\ p \in Nat \ {0} /\ dot \in Int /\ sum \in Int /\ bias \in Int /\ b \in Int /\ n \in Nat
       /\ -(n * (127 * p)) <= p * sum - 32385 * dot /\ p * sum - 32385 * dot <= n * (127 * p)
       /\ 2 * (bias * p) <= 64770 * b + p /\ 64770 * b - p < 2 * (bias * p)
  BY <1>1, <1>4, <1>10, <1>11, <1>12 DEF Near
<1> HIDE DEF p, dot, sum, bias, b
<1>14. /\ 2 * (p * (sum + bias)) - 64770 * (dot + b)
            = 2 * (p * sum - 32385 * dot) + (2 * (bias * p) - 64770 * b)
       /\ (254 * n + 1) * p = 2 * (n * (127 * p)) + p
  BY <1>13
<1>15. /\ -((254 * n + 1) * p) <= 2 * (p * (sum + bias)) - 64770 * (dot + b)
       /\ 2 * (p * (sum + bias)) - 64770 * (dot + b) <= (254 * n + 1) * p
  BY <1>13, <1>14
<1> QED BY <1>8, <1>13, <1>15 DEF p, dot, sum, bias, b, n, q

(* The range of the results is no more than inputs and weights can make.       *)
LEMMA SpanBounded ==
  ASSUME Bits = 8, FractionalBits = 16, NEW l \in AllLayers, SymmetricInputs(l), l.act = "none"
  PROVE  Quantized(l).y.span <= Fanin(l) * Product(l)
<1> DEFINE D == DOMAIN l.w
           a == MaxAbs(l)
           h == Max(Values(l))
           hi == Max(Results(l))
           lo == Min(Results(l))
           c == Product(l)
<1>1. /\ IsFiniteSet(D) /\ l.w \in [D -> Int] /\ l.b \in Int /\ \A x \in l.xs : x \in [D -> Int]
  BY LayerAssumption DEF AllLayers
<1>2. a \in Nat \ {0} /\ \A i \in D : -a <= l.w[i] /\ l.w[i] <= a
  BY LargestWeight
<1>3. h \in Nat \ {0} /\ c = a * (2 * h) /\ \A x \in l.xs, i \in D : -h <= x[i] /\ x[i] <= h
  BY SymmetricSpan DEF Product
<1>4. hi \in Results(l) /\ lo \in Results(l)
  BY ResultsExtreme DEF HasExtremes
<1>5. Quantized(l).y.span = hi - lo
  BY Parameters
<1>6. \A x \in l.xs : Real(l, x) = Dot(l.w, x) + l.b
  BY DEF Real
<1>7. PICK u \in l.xs, v \in l.xs : hi = Dot(l.w, u) + l.b /\ lo = Dot(l.w, v) + l.b
  BY <1>4, <1>6 DEF Results
<1> HIDE DEF D, a, h, hi, lo, c
<1>8. c \in Int
  BY <1>2, <1>3
<1>9. ASSUME NEW i \in D PROVE Near(1, l.w[i] * u[i], 1, l.w[i] * v[i], c)
  <2> DEFINE wi == l.w[i]
             ui == u[i]
             vi == v[i]
  <2>1. wi \in Int /\ ui \in Int /\ vi \in Int /\ -a <= wi /\ wi <= a /\ -h <= ui /\ ui <= h /\ -h <= vi /\ vi <= h
    BY <1>1, <1>2, <1>3
  <2> HIDE DEF wi, ui, vi
  <2>2. ui - vi \in Int /\ 2 * h \in Nat /\ -(2 * h) <= ui - vi /\ ui - vi <= 2 * h /\ a \in Nat
    BY <1>2, <1>3, <2>1
  <2>3. -(a * (2 * h)) <= wi * (ui - vi) /\ wi * (ui - vi) <= a * (2 * h)
    BY <2>1, <2>2, Absolute
  <2>4. wi * (ui - vi) = 1 * (wi * ui) - 1 * (wi * vi)
    BY <2>1
  <2>5. Near(1, wi * ui, 1, wi * vi, c)
    BY <1>3, <2>3, <2>4 DEF Near
  <2> QED BY <2>5 DEF wi, ui, vi
<1>10. NearTerms(D, 1, l.w, u, 1, l.w, v, c)
  BY <1>1, <1>8, <1>9 DEF NearTerms
<1>11. /\ Dot(l.w, v) \in Int /\ Dot(l.w, u) \in Int /\ Cardinality(D) \in Nat
       /\ Near(1, Dot(l.w, u), 1, Dot(l.w, v), Cardinality(D) * c)
  BY <1>10, DotRounded
<1>12. hi - lo = 1 * Dot(l.w, u) - 1 * Dot(l.w, v)
  BY <1>1, <1>7, <1>11
<1> QED BY <1>5, <1>11, <1>12 DEF Near, Fanin, D, c

(* The sum of n products beside the result y, the multiplier m, the scaled sum r. *)
IsSum(p, n, span, y, sum) ==
  /\ p \in Nat \ {0} /\ n \in Nat /\ span \in Nat \ {0} /\ y \in Int /\ sum \in Int
  /\ -span <= y /\ y <= span /\ span <= n * p
  /\ -((254 * n + 1) * p) <= 2 * (p * sum) - 64770 * y
  /\ 2 * (p * sum) - 64770 * y <= (254 * n + 1) * p

IsScale(p, span, m) ==
  m \in Int /\ -(127 * span) <= 254 * (m * span) - 131072 * p /\ 254 * (m * span) - 131072 * p <= 127 * span

IsScaled(sum, m, r) == r \in Int /\ -32768 <= 65536 * r - sum * m /\ 65536 * r - sum * m <= 32768

(* So the sum stays small. *)
LEMMA SumBounded ==
  ASSUME NEW p, NEW n, NEW span, NEW y, NEW sum, IsSum(p, n, span, y, sum)
  PROVE  -(32512 * n) <= sum /\ sum <= 32512 * n
<1> USE DEF IsSum
<1>1. 64770 * y <= 64770 * (n * p) /\ -(64770 * (n * p)) <= 64770 * y
  OBVIOUS
<1>2. (254 * n + 1) * p + 64770 * (n * p) = (65024 * n + 1) * p
  OBVIOUS
<1>3. (2 * sum) * p <= (65024 * n + 1) * p /\ -((65024 * n + 1) * p) <= (2 * sum) * p
  <2>1. (2 * sum) * p = 2 * (p * sum)
    OBVIOUS
  <2> QED BY <1>1, <1>2, <2>1
<1>4. \A s \in Int : s * p <= (65024 * n + 1) * p => s <= 65024 * n + 1
  OBVIOUS
<1>5. 2 * sum <= 65024 * n + 1
  BY <1>3, <1>4
<1>6. (-(2 * sum)) * p <= (65024 * n + 1) * p
  BY <1>3
<1>7. -(2 * sum) <= 65024 * n + 1
  BY <1>4, <1>6
<1> QED BY <1>5, <1>7

(* Rounding the multiplier and the scaled sum adds little. *)
LEMMA RescaledNear ==
  ASSUME NEW p, NEW span, NEW n, NEW y, NEW sum, NEW m, NEW r,
         IsSum(p, n, span, y, sum), IsScale(p, span, m), IsScaled(sum, m, r)
  PROVE  /\ -((4 * n + 1) * p + (n + 2) * span) <= 4 * (255 * y - r * span)
         /\ 4 * (255 * y - r * span) <= (4 * n + 1) * p + (n + 2) * span
<1>0. -(32512 * n) <= sum /\ sum <= 32512 * n
  BY ONLY IsSum(p, n, span, y, sum), SumBounded
<1> USE <1>0 DEF IsSum, IsScale, IsScaled
<1> DEFINE e1 == 65536 * r - sum * m
           e2 == 254 * (m * span) - 131072 * p
           e3 == 2 * (p * sum) - 64770 * y
           rs == r * span
           np == n * p
           ns == n * span
<1>1. 16646144 * (rs - 255 * y) = 65536 * e3 + sum * e2 + (254 * span) * e1
  <2> DEFINE ps == p * sum
             ms == m * span
             sms == sum * ms
  <2>1. sum * e2 = 254 * sms - 131072 * ps
    <3>1. ms \in Int /\ e2 = 254 * ms - 131072 * p
      OBVIOUS
    <3> HIDE DEF ms, e2
    <3> QED BY <3>1
  <2>2. (254 * span) * e1 = 16646144 * rs - 254 * sms
    OBVIOUS
  <2>3. rs \in Int /\ ps \in Int /\ sms \in Int
    OBVIOUS
  <2> HIDE DEF rs, ps, sms
  <2>4. 65536 * e3 = 131072 * ps - 4244766720 * y
    BY DEF ps
  <2> HIDE DEF e1, e2, e3
  <2> QED BY <2>1, <2>2, <2>3, <2>4
<1>2. rs \in Int /\ np \in Nat /\ ns \in Nat /\ e1 \in Int /\ e2 \in Int /\ e3 \in Int
  OBVIOUS
<1>3. -(254 * np + p) <= e3 /\ e3 <= 254 * np + p
  OBVIOUS
<1>4. -(4129024 * ns) <= sum * e2 /\ sum * e2 <= 4129024 * ns
  <2>1. 32512 * n \in Nat /\ 127 * span \in Nat /\ -(127 * span) <= e2 /\ e2 <= 127 * span
    OBVIOUS
  <2>2. (32512 * n) * (127 * span) = 4129024 * ns
    OBVIOUS
  <2> HIDE DEF e2, ns
  <2> QED BY <1>2, <2>1, <2>2, Absolute
<1>5. -(8323072 * span) <= (254 * span) * e1 /\ (254 * span) * e1 <= 8323072 * span
  <2>1. 254 * span \in Nat /\ 32768 \in Nat /\ -32768 <= e1 /\ e1 <= 32768
    OBVIOUS
  <2>2. (254 * span) * 32768 = 8323072 * span /\ -(254 * span) <= 254 * span /\ 254 * span <= 254 * span
    OBVIOUS
  <2> HIDE DEF e1
  <2> QED BY <1>2, <2>1, <2>2, Absolute
<1>6. (4 * n + 1) * p + (n + 2) * span = 4 * np + p + ns + 2 * span
  OBVIOUS
<1> HIDE DEF e1, e2, e3, rs, np, ns
<1> DEFINE f == sum * e2
           g == (254 * span) * e1
<1>7. f \in Int /\ g \in Int
  BY <1>2
<1> HIDE DEF f, g
<1>8. 16646144 * (rs - 255 * y) = 65536 * e3 + f + g
  BY <1>1 DEF f, g
<1>9. -(4129024 * ns) <= f /\ f <= 4129024 * ns /\ -(8323072 * span) <= g /\ g <= 8323072 * span
  BY <1>4, <1>5 DEF f, g
<1>10. /\ 4 * (rs - 255 * y) <= 4 * np + p + ns + 2 * span
       /\ -(4 * np + p + ns + 2 * span) <= 4 * (rs - 255 * y)
  BY <1>2, <1>3, <1>7, <1>8, <1>9
<1>11. 4 * (255 * y - r * span) = -(4 * (rs - 255 * y))
  BY DEF rs
<1> QED BY <1>2, <1>6, <1>10, <1>11

(* Clipping brings a value no further from the range than its rounded ends are. *)
LEMMA Clipped ==
  ASSUME Bits = 8, NEW lo \in Int, NEW hi \in Int, NEW span \in Nat \ {0}, span = hi - lo,
         lo <= 0, 0 <= hi, NEW y \in lo .. hi, NEW r \in Int, NEW bound \in Int, 2 * span <= bound,
         -bound <= 4 * (255 * y - r * span), 4 * (255 * y - r * span) <= bound
  PROVE  LET z == ZeroPoint(lo, hi)
             d == 255 * y - (Clip(r + z, -128, 127) - z) * span
         IN  -bound <= 4 * d /\ 4 * d <= bound
<1> DEFINE k == RoundHalfUp(-lo * 255, span)
           z == ZeroPoint(lo, hi)
           out == Clip(r + z, -128, 127)
           rs == r * span
           ks == k * span
<1>1. -lo * 255 \in Int
  OBVIOUS
<1>2. k \in Int /\ 2 * ks <= 2 * (-lo * 255) + span /\ 2 * (-lo * 255) - span < 2 * ks
  BY <1>1, Rounded
<1>3. k \in 0 .. 255
  <2>1. 2 * 0 * span - span <= 2 * (-lo * 255) /\ 2 * (-lo * 255) < 2 * 255 * span + span
    OBVIOUS
  <2>2. 0 \in Int /\ 255 \in Int /\ span \in Nat \ {0}
    OBVIOUS
  <2> QED BY ONLY <1>1, <2>1, <2>2, RoundedWithin
<1>4. z = k - 128
  <2>1. z = Clip(k + -128, -128, 127)
    BY Eight DEF ZeroPoint
  <2> HIDE DEF k
  <2> QED BY <1>3, <2>1 DEF Clip
<1> HIDE DEF k, z
<1>5. rs \in Int /\ ks \in Int
  BY <1>2
<1>6. CASE r + z < -128
  <2>1. out = -128
    BY <1>3, <1>4, <1>6 DEF Clip
  <2>2. (out - z) * span = -ks
    <3>1. out - z = -k
      BY <1>3, <1>4, <2>1
    <3> HIDE DEF out
    <3> QED BY <1>2, <3>1
  <2>3. rs <= -ks
    <3>1. r <= -k
      BY <1>3, <1>4, <1>6
    <3>2. r * span <= (-k) * span
      BY <1>3, <3>1
    <3> QED BY <1>3, <3>2
  <2>4. -span < 2 * (255 * y + ks)
    BY <1>2, <1>5
  <2> HIDE DEF out, rs, ks
  <2>5. -bound <= 4 * (255 * y - (-ks)) /\ 4 * (255 * y - (-ks)) <= bound
    BY <1>5, <2>3, <2>4 DEF rs
  <2> QED BY <2>2, <2>5 DEF out, z
<1>7. CASE r + z > 127
  <2>1. out = 127
    BY <1>3, <1>4, <1>7 DEF Clip
  <2>2. (out - z) * span = 255 * span - ks
    <3>1. out - z = 255 - k
      BY <1>3, <1>4, <2>1
    <3> HIDE DEF out
    <3> QED BY <1>2, <3>1
  <2>3. 255 * span - ks <= rs
    <3>1. 255 - k <= r
      BY <1>3, <1>4, <1>7
    <3>2. (255 - k) * span <= r * span
      BY <1>3, <3>1
    <3> QED BY <1>3, <3>2
  <2>4. 2 * (255 * y - (255 * span - ks)) <= span
    BY <1>2, <1>5
  <2> HIDE DEF out, rs, ks
  <2>5. /\ -bound <= 4 * (255 * y - (255 * span - ks))
        /\ 4 * (255 * y - (255 * span - ks)) <= bound
    BY <1>5, <2>3, <2>4 DEF rs
  <2> QED BY <2>2, <2>5 DEF out, z
<1>8. CASE r + z \in -128 .. 127
  <2>1. out - z = r
    BY <1>3, <1>4, <1>8 DEF Clip
  <2> HIDE DEF out
  <2>2. 255 * y - (out - z) * span = 255 * y - r * span
    BY <2>1
  <2> QED BY <2>2 DEF out, z
<1>9. r + z \in Int
  BY <1>3, <1>4
<1> QED BY <1>6, <1>7, <1>8, <1>9

(* The multiplier, to half a step. *)
LEMMA ScaleRounded ==
  ASSUME Bits = 8, FractionalBits = 16, NEW l \in AllLayers
  PROVE  LET q == Quantized(l)
             e == 254 * (q.m * q.y.span) - 131072 * Product(l)
         IN  q.m \in Int /\ -(127 * q.y.span) <= e /\ e <= 127 * q.y.span
<1> DEFINE q == Quantized(l)
           p == Product(l)
           span == q.y.span
           m == q.m
           n == p * 65536
<1>1. p \in Int /\ span \in Nat \ {0}
  BY LargestWeight, InputParameters, Parameters DEF Product
<1>2. m = RoundHalfUp(n, 127 * span)
  BY Eight, Sixteen DEF Quantized, RequantScale, Product
<1> HIDE DEF q, p, span, m
<1> DEFINE w == 127 * span
<1>3. n \in Int /\ w \in Nat \ {0}
  BY <1>1
<1>4. m \in Int /\ 2 * (m * w) <= 2 * n + w /\ 2 * n - w < 2 * (m * w)
  <2> HIDE DEF n, w
  <2>1. m = RoundHalfUp(n, w)
    BY <1>2 DEF w
  <2> QED BY <1>3, <2>1, Rounded
<1>5. m * w = 127 * (m * span) /\ m * span \in Int
  BY <1>1, <1>4
<1>6. -(127 * span) <= 254 * (m * span) - 131072 * p /\ 254 * (m * span) - 131072 * p <= 127 * span
  BY <1>1, <1>4, <1>5
<1> QED BY <1>4, <1>6 DEF q, p, span, m

(* And so the error of the whole layer, in 255ths of the output's scale. *)
Symmetric(l) ==
  l.act = "none" /\ SymmetricInputs(l) /\ Min(Results(l)) <= 0 /\ Max(Results(l)) >= 0

ErrorBound(l) == (4 * Fanin(l) + 1) * Product(l) + (Fanin(l) + 2) * Quantized(l).y.span

LEMMA ErrorBounded ==
  ASSUME Bits = 8, FractionalBits = 16, NEW l \in AllLayers, Symmetric(l), NEW x \in l.xs
  PROVE  LET q == Quantized(l)
             d == Real(l, x) * 255 - (execute_fused_layer(q, x) - q.y.zero) * q.y.span
         IN  d \in Int /\ -ErrorBound(l) <= 4 * d /\ 4 * d <= ErrorBound(l)
<1> DEFINE q == Quantized(l)
           n == Fanin(l)
           p == Product(l)
           span == q.y.span
           sum == Accumulated(q, x)
           y == Real(l, x)
           r == Rescaled(q, sum)
           lo == Min(Results(l))
           hi == Max(Results(l))
           z == q.y.zero
           m == q.m
<1>1. l.act = "none" /\ SymmetricInputs(l) /\ lo <= 0 /\ 0 <= hi /\ lo \in Int /\ hi \in Int
  BY ResultsExtreme DEF Symmetric, HasExtremes
<1>2. y = Dot(l.w, x) + l.b /\ y \in Int /\ lo <= y /\ y <= hi
  <2>1. Real(l, x) = Dot(l.w, x) + l.b
    BY <1>1 DEF Real
  <2>2. Dot(l.w, x) + l.b \in Int /\ Real(l, x) \in Results(l)
    BY ResultsExtreme
  <2> QED BY <2>1, <2>2, ResultsExtreme DEF HasExtremes
<1>3. span = hi - lo /\ span \in Nat \ {0} /\ z \in -128 .. 127 /\ q.shift = 16 /\ q.act = "none"
  BY <1>1, Parameters
<1>4. z = ZeroPoint(lo, hi)
  BY DEF Quantized, Asymmetric
<1>5. sum \in Int /\ m \in Int /\ -(127 * span) <= 254 * (m * span) - 131072 * p
      /\ 254 * (m * span) - 131072 * p <= 127 * span
  BY AccumulatedIsWhole, ScaleRounded
<1>6. /\ n \in Nat /\ p \in Nat \ {0}
      /\ -((254 * n + 1) * p) <= 2 * (p * sum) - 64770 * y
      /\ 2 * (p * sum) - 64770 * y <= (254 * n + 1) * p
  BY <1>1, <1>2, SumRounded
<1>7. span <= n * p
  BY <1>1, SpanBounded
<1>8. r \in Int /\ -32768 <= 65536 * r - sum * m /\ 65536 * r - sum * m <= 32768
  <2>1. r = (sum * m + 32768) \div 65536
    <3>1. 2 ^ 15 = 32768
      OBVIOUS
    <3> QED BY <1>3, <3>1, Sixteen DEF Rescaled
  <2>2. \A a \in Int : LET b == (a + 32768) \div 65536
                       IN  b \in Int /\ -32768 <= 65536 * b - a /\ 65536 * b - a <= 32768
    OBVIOUS
  <2>3. sum * m \in Int
    BY <1>5
  <2> HIDE DEF sum, r, m
  <2> QED BY <2>1, <2>2, <2>3
<1>9. execute_fused_layer(q, x) = Clip(r + z, -128, 127)
  BY <1>3, Eight DEF execute_fused_layer, Activated
<1>10. ErrorBound(l) = (4 * n + 1) * p + (n + 2) * span
  BY DEF ErrorBound
<1> DEFINE bound == (4 * n + 1) * p + (n + 2) * span
<1> HIDE DEF q, n, p, span, sum, y, r, lo, hi, z, m
<1>11. IsSum(p, n, span, y, sum) /\ IsScale(p, span, m) /\ IsScaled(sum, m, r)
  <2>1. -span <= y /\ y <= span
    BY <1>1, <1>2, <1>3
  <2> QED BY <1>2, <1>3, <1>5, <1>6, <1>7, <1>8, <2>1 DEF IsSum, IsScale, IsScaled
<1>12. -bound <= 4 * (255 * y - r * span) /\ 4 * (255 * y - r * span) <= bound
  BY ONLY <1>11, RescaledNear
<1>13. bound \in Int /\ 2 * span <= bound
  BY <1>3, <1>6
<1> HIDE DEF bound
<1> DEFINE d == 255 * y - (Clip(r + z, -128, 127) - z) * span
<1>14. -bound <= 4 * d /\ 4 * d <= bound
  BY <1>1, <1>2, <1>3, <1>4, <1>8, <1>12, <1>13, Clipped
<1>15. y * 255 = 255 * y /\ d \in Int
  BY <1>2, <1>3, <1>8 DEF Clip
<1> QED BY <1>9, <1>10, <1>14, <1>15 DEF bound, q, y, span, z

(* A layer keeps its meaning as far as its inputs are few and its range is wide. *)
LEMMA WideKeepsMeaning ==
  ASSUME Bits = 8, FractionalBits = 16, NEW l \in AllLayers, Symmetric(l), NEW x \in l.xs,
         (4 * Fanin(l) + 1) * MaxAbs(l) * Quantized(l).x.span <= (38 - Fanin(l)) * Quantized(l).y.span
  PROVE  Within(10, l, Quantized(l), x, execute_fused_layer(Quantized(l), x))
<1> DEFINE q == Quantized(l)
           n == Fanin(l)
           span == q.y.span
           d == Real(l, x) * 255 - (execute_fused_layer(q, x) - q.y.zero) * span
           bound == ErrorBound(l)
<1>1. span \in Nat \ {0} /\ MaxAbs(l) \in Int /\ q.x.span \in Int /\ n \in Int
  BY Parameters, LargestWeight, InputParameters, SumRounded DEF Symmetric
<1>2. d \in Int /\ -bound <= 4 * d /\ 4 * d <= bound
  BY ErrorBounded
<1>3. bound <= 40 * span
  <2> DEFINE a == MaxAbs(l)
             s == q.x.span
  <2>1. bound = (4 * n + 1) * (a * s) + (n + 2) * span /\ (4 * n + 1) * a * s <= (38 - n) * span
    BY DEF ErrorBound, Product
  <2> HIDE DEF a, s, n, span, bound
  <2>2. (4 * n + 1) * a * s = (4 * n + 1) * (a * s) /\ (38 - n) * span + (n + 2) * span = 40 * span
    BY <1>1 DEF a, s
  <2>3. (4 * n + 1) * (a * s) \in Int /\ (38 - n) * span \in Int /\ (n + 2) * span \in Int
    BY <1>1 DEF a, s
  <2> QED BY <2>1, <2>2, <2>3
<1>4. bound \in Int
  BY <1>1 DEF ErrorBound, Product
<1> HIDE DEF d, bound, span
<1>5. -10 * span <= d /\ d <= 10 * span
  BY <1>1, <1>2, <1>3, <1>4
<1> QED BY <1>5, Eight DEF Within, d, span

-------------------------------------------------------------------------------
(* The layer of the request that comes out, its sample and its parameters. *)
LEMMA RequestOut ==
  ASSUME RequantInv, asked[3] # Nothing
  PROVE  Layer \in AllLayers /\ Input \in Layer.xs /\ Params = Quantized(Layer)
<1>1. PICK k \in 1 .. 2 : \E x \in layers[k].xs : asked[3] = <<k, x>>
  BY DEF RequantInv, IsRequest
<1>2. PICK x \in layers[k].xs : asked[3] = <<k, x>>
  BY <1>1
<1>3. layers[k] \in AllLayers
  <2>1. layers[1] \in Layers /\ layers[2] \in Others
    BY DEF RequantInv
  <2> QED BY <2>1 DEF AllLayers
<1>4. quant[k] = Quantized(layers[k])
  BY DEF RequantInv
<1>5. asked[3][1] = k /\ asked[3][2] = x
  BY <1>2
<1> QED BY <1>3, <1>4, <1>5 DEF Layer, Input, Params

(* What comes out of the pipeline for a layer with symmetric inputs, no          *)
(* activation and 0 among its outputs differs from its real result by at most     *)
(* ten steps of the output's scale, where its fan-in and its weights leave room     *)
(* for that: the claim of INT8Interpreter's tolerance, for every such layer.     *)
THEOREM MeaningIsKept ==
  ASSUME Bits = 8, FractionalBits = 16 PROVE RequantSpec => []SymmetricLayersKeepMeaning
<1>1. RequantInit => RequantInv
  BY RequantStarts
<1>2. RequantInv /\ [RequantNext]_requantVars => RequantInv'
  BY RequantKeeps
<1>3. RequantInv => SymmetricLayersKeepMeaning
  <2> SUFFICES ASSUME RequantInv, valid_out, Layer.act = "none",
                      Min(Values(Layer)) = -Max(Values(Layer)),
                      Min(Results(Layer)) <= 0, Max(Results(Layer)) >= 0,
                      (4 * Fanin(Layer) + 1) * MaxAbs(Layer) * Params.x.span
                        <= (38 - Fanin(Layer)) * Params.y.span
               PROVE  Within(10, Layer, Params, Input, data_out)
    BY DEF SymmetricLayersKeepMeaning
  <2>1. Layer \in AllLayers /\ Input \in Layer.xs /\ Params = Quantized(Layer)
    BY RequestOut DEF RequantInv
  <2>2. Symmetric(Layer)
    BY DEF Symmetric, SymmetricInputs
  <2>3. data_out = execute_fused_layer(Params, Input)
    BY DEF RequantInv, InStage3, Params, Input
  <2> QED BY <2>1, <2>2, <2>3, WideKeepsMeaning
<1> QED BY <1>1, <1>2, <1>3, PTL DEF RequantSpec
===============================================================================
