---------------------------- MODULE LinearScheduler ---------------------------
(***************************************************************************)
(* Scheduler.schedule (src/mlasic/scheduler.py): it orders the graph with     *)
(* topological_order, and then gives one layer after the other its banks,     *)
(* its share of the two parameter memories and its cycles; a graph that does  *)
(* not fit the memories is refused at the end.                              *)
(***************************************************************************)
EXTENDS KahnOrder, BankAllocator

CONSTANTS
  Widths,          (* bound: the dimensions that tensors may have            *)
  MaxParallelism,  (* lanes of the MAC array: 128                           *)
  BiasesPerRow,    (* 32                                                    *)
  TileOverhead,    (* CycleBreakdown.overhead: 149                          *)
  WeightBankDepth, BiasBankDepth

ASSUME LayoutAssumption ==
  /\ Widths \subseteq [Tensors -> Nat \ {0}]
  /\ {MaxParallelism, BiasesPerRow} \subseteq Nat \ {0}
  /\ {TileOverhead, WeightBankDepth, BiasBankDepth} \subseteq Nat

VARIABLES
  width,         (* tensor -> its dimension, fixed                          *)
  plan,          (* the LayerSchedule of every node in layers                *)
  stage          (* graph.stage, or "overflow" when schedule raised          *)

planVars  == <<width, plan, stage>>
schedVars == <<kahnVars, vars, planVars>>

SchedInit ==
  /\ Init /\ KahnInit
  /\ width \in Widths /\ plan = <<>> /\ stage = "quantized"

Ceil(a, b) == (a + b - 1) \div b

(* _compute_parallelism: the largest factor of a dimension up to the lanes.    *)
Parallelism(dim) == Max({p \in 1 .. MaxParallelism : dim % p = 0})

InputDim(n)  == width[ins[n][1]]
OutputDim(n) == width[n]

WeightRows(n) == (OutputDim(n) \div Parallelism(OutputDim(n))) * InputDim(n)
BiasRows(n)   == Ceil(OutputDim(n), BiasesPerRow)

NoLayer == [weightStart |-> 0, weightRows |-> 0, biasStart |-> 0, biasRows |-> 0, end |-> 0]
LastLayer == IF plan = <<>> THEN NoLayer ELSE plan[Len(plan)]

(* What one iteration appends: the cursors are the ends of the layer before.   *)
LayerSchedule(n) ==
  LET prev == LastLayer
      par == Parallelism(OutputDim(n))
      tiles == OutputDim(n) \div par
  IN  [index |-> Len(plan), parallelism |-> par, tiles |-> tiles,
       weightStart |-> prev.weightStart + prev.weightRows, weightRows |-> WeightRows(n),
       biasStart |-> prev.biasStart + prev.biasRows, biasRows |-> BiasRows(n),
       start |-> prev.end, end |-> prev.end + tiles * (InputDim(n) + TileOverhead)]

Ordering == (Pop \/ Finish) /\ UNCHANGED <<vars, planVars>>

(* Mutant: nodes are placed in the order of graph.nodes. *)
NextInserted == Len(layers) + 1
NextNode     == order[Len(layers) + 1]

(* A conflict of the banks raises in the middle of the loop. *)
Placing ==
  /\ status = "ORDERED" /\ Len(layers) < NumNodes
  /\ Assign(NextNode)
  /\ plan' = IF refused' = None THEN Append(plan, LayerSchedule(NextNode)) ELSE plan
  /\ UNCHANGED <<kahnVars, width, stage>>

Fits ==
  /\ LastLayer.weightStart + LastLayer.weightRows <= WeightBankDepth
  /\ LastLayer.biasStart + LastLayer.biasRows <= BiasBankDepth

Budgeting ==
  /\ Len(layers) = NumNodes /\ stage = "quantized"
  /\ stage' = IF Fits THEN "scheduled" ELSE "overflow"
  /\ UNCHANGED <<kahnVars, vars, width, plan>>

SchedNext == Ordering \/ Placing \/ Budgeting

SchedSpec == SchedInit /\ [][SchedNext]_schedVars

-------------------------------------------------------------------------------
(* The scheduler's allocator is BankAllocator: it never asks for the node    *)
(* before the producers of all it reads were placed.                        *)
Allocator == INSTANCE BankAllocator

ImplementsAllocator == Allocator!Spec
===============================================================================
