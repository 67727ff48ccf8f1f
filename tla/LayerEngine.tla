----------------------------- MODULE LayerEngine ------------------------------
(***************************************************************************)
(* One layer on the accelerator: the layer controller drives the MAC array  *)
(* and the weight, bias and activation memories, whose read data come one   *)
(* clock after their address (rtl/memory/sram_bank.sv).  Configuration      *)
(* wires are fixed here; AccelTop, where they follow the layer index,       *)
(* composes the same controller and array.                                  *)
(*                                                                         *)
(* The arithmetic is abstracted to where each operand came from: a memory   *)
(* register holds the row it was read from, an accumulator the pairs that   *)
(* were multiplied.                                                        *)
(***************************************************************************)
EXTENDS LayerCtrl, MacArray, Sequences

CONSTANTS
  BiasPerRow,    (* biases in one row of the bias memory: 32                *)
  InDims,        (* input dimensions a layer may be configured with         *)
  TileCounts,    (* numbers of output tiles a layer may be configured with  *)
  ElapsedCap     (* where the cycle history stops counting                  *)

ASSUME EngineAssumption ==
  /\ BiasPerRow \in Nat \ {0}
  /\ InDims \subseteq 1 .. CountMod - 1
  /\ TileCounts \subseteq 1 .. CountMod - 1
  /\ ElapsedCap \in Nat

VARIABLES
  inDim, numTiles,     (* the configuration                                 *)
  wRow, bRow, aWord,   (* rows the memory registers were read from          *)
  products,            (* operands accumulated since the biases were loaded *)
  biasOf,              (* lane -> the bias its accumulator started from     *)
  outputs,             (* what output_data was computed from                *)
  elapsed              (* history: clock edges since the layer started      *)

cfgVars == <<inDim, numTiles>>
dataVars == <<wRow, bRow, aWord, products, biasOf, outputs, elapsed>>
vars == <<lcVars, macVars, cfgVars, dataVars>>

Lanes == 0 .. Parallelism - 1

TypeOK ==
  /\ LcTypeOK
  /\ MacTypeOK
  /\ inDim \in InDims
  /\ numTiles \in TileCounts
  /\ {wRow, aWord} \subseteq Nat
  /\ products \in Seq(Nat \X Nat \X Nat)
  /\ outputs \in Seq(Nat \X Nat \X Nat)
  /\ elapsed \in 0 .. ElapsedCap

Init ==
  /\ LcInit
  /\ MacInit
  /\ inDim \in InDims
  /\ numTiles \in TileCounts
  /\ wRow = 0 /\ bRow = 0 /\ aWord = 0
  /\ products = <<>>
  /\ biasOf = [lane \in Lanes |-> <<0, 0>>]
  /\ outputs = <<>>
  /\ elapsed = 0

(* Addresses the controller drives, relative to the layer's bases. *)
WeightAddr == lcTile * inDim + lcInput
BiasAddr   == lcTile * (Parallelism \div BiasPerRow) + lcBias \div BiasPerRow

(* What the array's operand wires carry: the row read for the address of    *)
(* the previous clock, the lane or byte selected by this clock's counter.   *)
BiasOperand   == <<bRow, lcBias % BiasPerRow>>
InputOperands == <<wRow, aWord, lcInput % WordBytes>>

Memories ==
  /\ wRow' = WeightAddr
  /\ bRow' = BiasAddr
  /\ aWord' = LcActRdAddr

(* Loading a bias restarts the lane's sum; the last bias restarts the last. *)
Accumulators ==
  /\ biasOf' = IF MacLoads(LcBiasValid)
               THEN [biasOf EXCEPT ![lcBias] = BiasOperand] ELSE biasOf
  /\ products' = IF MacLoads(LcBiasValid) THEN <<>>
                 ELSE IF MacAccumulates(LcInputValid)
                 THEN Append(products, InputOperands)
                 ELSE products
  /\ outputs' = IF MacLatches THEN products ELSE outputs

(* One clock edge with the start wire at the given level. *)
Clk(start) ==
  /\ LcClk(start, inDim, numTiles, MacDone)
  /\ MacClk(LcMacStart(start), inDim, LcInputValid, LcBiasValid)
  /\ Memories
  /\ Accumulators
  /\ elapsed' = IF lcState = "IDLE" THEN 0
                ELSE IF elapsed < ElapsedCap THEN elapsed + 1 ELSE elapsed
  /\ UNCHANGED cfgVars

Next == \E start \in BOOLEAN : Clk(start)

Spec == Init /\ [][Next]_vars

(* The clock does not stop. *)
FairSpec == Spec /\ WF_vars(Next)

-------------------------------------------------------------------------------
(* Layers of one tile.  The two FSMs have no common state: each counts the   *)
(* biases and the inputs on its own, the array with a comparison that is     *)
(* one later (input_dim, not input_dim - 1), and they meet again only at     *)
(* mac_done.  They stay in step, so the controller's valid wires always find *)
(* the array listening.                                                     *)
InStep ==
  numTiles = 1 =>
    /\ lcState = "LOAD_BIAS" => macState = "BIAS_LOAD" /\ macBias = lcBias
    /\ lcState = "COMPUTE" => macState = "COMPUTE" /\ macCompute = lcInput
    /\ lcState = "WAIT_MAC" => \/ macState = "COMPUTE" /\ macCompute = inDim
                               \/ macState \in {"REQUANT", "OUTPUT", "DONE"}
    /\ lcState \in {"IDLE", "WRITE_TILE", "NEXT_TILE", "DONE"} => macState = "IDLE"

(* While a tile is written the output register holds the sums of this run:  *)
(* one product per input, no fewer and none left over from the run before.  *)
TileIsComplete ==
  numTiles = 1 /\ lcState = "WRITE_TILE" => /\ Len(outputs) = inDim
                                            /\ outputs = products

(* A one-tile layer takes the same number of clocks in every run. *)
LayerCycles == Parallelism + inDim + 7 + WordsPerTile + 1

LatencyIsFixed ==
  numTiles = 1 /\ LcLayerDone /\ ElapsedCap >= LayerCycles => elapsed = LayerCycles

(* A started layer ends: "FSM: ... WRITE_TILE -> NEXT_TILE/DONE". *)
LayerEnds == (lcState # "IDLE") ~> (lcState = "IDLE")

(* The address comments: input i is multiplied by row tile * input_dim + i  *)
(* of the weights, and is byte i % 8 of word i / 8.                         *)
OperandsAreAligned ==
  lcState = "WRITE_TILE" =>
    \A i \in 0 .. Len(outputs) - 1 :
      outputs[i + 1] = <<lcTile * inDim + i, i \div WordBytes, i % WordBytes>>
===============================================================================
