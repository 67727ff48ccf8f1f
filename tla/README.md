# Verification of Computive

TLA+ specifications of *Computive* (`mlasic`), a compiler that turns quantized
neural networks into an accelerator: Python passes rewrite, quantize, schedule and pack a
graph, SystemVerilog blocks compute it, C firmware drives the result. Paths below are
relative to `src/`. Modules are checked with TLC on the small instances in the `.cfg`
files; theorems are checked with TLAPS for every value of the constants.

    tlc -config <run>.cfg <module>.tla        # one run; PROJECT.json lists them
    tlapm <module>_proof.tla                  # the proofs of one module

## 1. Inventory

| component | state | operations | talks to |
|---|---|---|---|
| CSR block, `rtl/interface/axi_lite_ctrl.sv` | five handshake flags, latched address, CTRL / IRQ_EN / IRQ_STATUS / SCRATCH, read data | one clock edge: accept address, accept data, commit, respond, self-clear, W1C, events, read | processor (AXI-Lite), top FSM (START, events) |
| layer controller, `rtl/layer/fused_linear_relu.sv` | FSM, bias / input / write counters, tile | one clock edge | MAC array (valid wires, `mac_done`), memories (addresses), top FSM (`layer_start`, `layer_done`) |
| MAC array, `rtl/compute/mac_array.sv` | FSM, its own counters, accumulators, output register | one clock edge | layer controller |
| requantization, `rtl/compute/requantize.sv` | three pipeline stages | one clock edge | MAC array; must agree with the INT8 interpreter |
| memories, `rtl/memory/sram_bank.sv` | words and a read register | read-first access | both |
| streams, `rtl/interface/axi_stream_{in,out}.sv` | FSM, beat counter | one clock edge with back-pressure | DMA, bank A |
| MLP top, `src/mlasic/rtl_lowering.py` | top FSM, layer index, bank multiplexer, status registers | one clock edge | all of the above |
| tile fabric, `src/mlasic/rtl_lowering_tile.py`, `rtl/tile/tile.sv`, `rtl/compute/pool_unit.sv` | top FSM, fabric FSM, tile FSMs, buffers between tiles | one clock edge | tiles chosen by the tile mapper |
| driver, `firmware/accel.c`, `interrupt.c` | `g_inference_done`, buffers | blocking and interrupt-driven inference, polling, ISRs, reset | CSRs, two DMA channels |
| graph IR, `src/mlasic/ir.py` | nodes, tensors, adjacency caches, stage | topological order, insertion, `replace_subgraph`, validation of each stage | every pass |
| optimization passes, `src/mlasic/optimization.py` | the graph they rewrite, a fusion counter, calibration ranges | folding, fusion, elimination, quantization; pass manager; partitioner | IR, interpreters |
| interpreters, `src/mlasic/interpreter.py`, `int8_interpreter.py` | values of tensors | one node after the other | passes (verification, calibration, constant folding) |
| linear scheduler, `src/mlasic/scheduler.py` | bank states, use counts, layer schedules, row cursors | `assign` per node, `schedule`, budget | IR, weight packer, hardware banks |
| weight packer, `src/mlasic/weight_packer.py` | rows of the weight and bias memories | one layer after the other | schedule; addresses of the layer controller |
| DAG scheduler, `src/mlasic/dag_scheduler.py` | ready list, remaining uses, schedule, lifetimes, stream plans | reorder, schedule, analyse, sweep, stream | IR, tile mapper |
| tile mapper, ROM mapper, `src/mlasic/tile_mapper.py`, `rom_mapper.py` | tiles, partitions, routes, ROM contents | one node after the other, then routing | DAG schedule, tile fabric |
| ingestion, RTL emitter, generators, export | | | see section 7 |

Hard behaviour, and what makes each component correct:

- **Independent FSMs without a common state register.** Controller and array count the
  same biases and inputs separately; the CSR write channel is five flags; tiles and fabric
  meet at a start that stays up and a done of one clock. They must agree at every clock,
  for every dimension.
- **Shared memories that are never cleared.** All layers and inferences use two banks and
  one array, all runs of the fabric the same buffers. What the host reads must be all
  layers applied to *its* packet.
- **Back-pressure and stalls.** Streams may stall at any clock; a word on offer must stay.
- **Interrupts, polling and time-outs.** Completion bits live in three places (IRQ_STATUS,
  DMASR, a C flag) and survive a call that gave up; a result must belong to the call that
  returns it.
- **Incremental bookkeeping in schedulers.** Use counts, in-degrees and ready lists must
  equal what they abbreviate, also when a node reads a tensor twice; nothing live may be
  freed, overwritten or streamed over.
- **Rewriting in place.** A dozen passes edit one graph, each looking at names collected
  before and at caches. After every rewrite the graph must be well formed and compute what
  it computed.
- **One layout, several formulas.** Rows, tiles, partitions and routes are computed by
  scheduler, packer, mapper and lowering, and once more by the hardware that reads them.
- **Arithmetic at eight bits.** Software and hardware must round and saturate alike, and
  the integers must stand for the reals that were calibrated.

`PROJECT.json` lists each hazard at its line with the properties that cover it.

## 2. Modules

Hardware and firmware:

| module | models | states and actions |
|---|---|---|
| `CsrBus` | abstract register bus | pending address, data, response; `Accept`, `Commit`, `Respond`, `Read` |
| `AxiLiteCtrl` | `axi_lite_ctrl.sv` | one `Edge` of all `always_ff` blocks, with a processor on the five channels |
| `Geometry` | parameters shared by the RTL | lanes, word size, counter width |
| `LayerCtrl`, `MacArray` | `fused_linear_relu.sv`, `mac_array.sv` | `LcClk`, `MacClk`: next state as a function of input wires |
| `LayerEngine` | the two, with registered memories | `Clk(start)`; operands are labelled with the rows they came from |
| `AxiStreams` | the stream endpoints | `SiClk`, `SoClk` |
| `InferenceService` | what the accelerator promises its host | `Start`, `Take`, `Offer`, `Give`, `Finish` |
| `AccelTop` | the top that `rtl_lowering.py` emits, composing all RTL modules but the CSR block | `Clk(start, softRst, tvalid, tready)` |
| `AccelDriver` | `accel.c`, `interrupt.c`, DMA channels, accelerator as seen from the bus | one action per register access of the driver, per ISR step, per hardware step |
| `QuantMath` | scales, zero points and rounding of the quantization passes; a layer in real and in INT8 arithmetic | operators |
| `Requantizer` | `requantize.sv` | `Requantize(valid, k, x)`: a request of layer `k`, or none |
| `TileFabric` | top, fabric and tiles of networks that are no MLP | one `Clk` of `TopClk`, `FabricClk` and `TileClk(i)` |

Compiler:

| module | models | states and actions |
|---|---|---|
| `GraphIR` | what scheduling needs of a graph | chosen in `Init`: `ins`, `outs` |
| `KahnOrder` | `Graph.topological_order` | `Pop` (one iteration), `Finish` |
| `BankAllocator` | `BankAllocator` of `scheduler.py` | `Assign(n)`: `Place`, `RefuseInput`, `RefuseOutput` |
| `LinearScheduler` | `Scheduler.schedule`: `KahnOrder`, then `BankAllocator` with rows and cycles, then the budget | `Ordering`, `Placing`, `Budgeting` |
| `WeightPacker` | `WeightPacker.pack` after `LinearScheduler`, the addresses at which the hardware reads, and `validate_stage3` | `Packing` (one layer) |
| `PeakAwareOrder` | `peak_aware_topological_order`, after `KahnOrder` | `Choose` (one iteration) |
| `CycleModels` | the cycle models, and the operators and shapes of a network | operators; `OpInit` |
| `WeightStream` | `WeightStreamScheduler.schedule` | `PlanNext` (one node): `StreamLayer` or `ComputeOnly` |
| `DagScheduler` | `DAGScheduler.schedule`: composes the three above with lifetimes and the budget sweep; `validate_stage3_dag` | `Ordering`, `Reordering`, `Scheduling`, `Analyzing`, `Sweeping`, `Streaming` |
| `TileMapper` | `TileMapper.map` and `StaticRouter` after `DagScheduler` | `Mapping` (one node), `Routing` |
| `RomMapper`, `FabricLowering` | ROM contents of a tile; what the generated fabric wires to it | operators on the mapped tiles |
| `IrGraph` | `Graph` with its caches, `insert_node`, `replace_subgraph` | operators on a graph as a value |
| `Interpreter` | `IRInterpreter` | `run_all`: the values of all tensors |
| `Passes`, `Quantizer` | the rewrites | one operator per rewrite |
| `IrValidator`, `GraphPartitioner` | the validator up to stage 2e; the partitioner | operators |
| `PassPipeline` | pass manager and choice of passes by the CLI | `BeginPass`, `Visit` (one match), `EndPass`, `FoldConstant`, `Sweep`, `Detect`, `Unsupported`, `Finish` |
| `MC*` | values for TLC | |
| `*_proof` | theorems | |

The modules extend each other along the stages: `KahnOrder` ← `LinearScheduler` ←
`WeightPacker` for MLPs, `KahnOrder` ← `PeakAwareOrder` ← `DagScheduler` ← `TileMapper` ←
`RomMapper` ← `FabricLowering` for the others; `IrGraph` ← `Interpreter` ← `Passes` ←
`Quantizer` ← `IrValidator` ← `GraphPartitioner` ← `PassPipeline`. A run
at the end of a chain takes a graph through all of its stages.

Conventions. A clocked block is one action that gives every register its next value, so
that blocks compose by conjunction as they do in hardware. Configuration that a program
fixes once (a graph, a layer's dimensions, how an application uses the driver) is a
variable chosen in `Init` and never changed, so one run covers all of them. Variables
marked *history* in the declarations exist for properties only. Definitions that are
marked *Mutant* are wrong variants of the next definition; they are used to
show that each property would notice.

Data abstractions. A CSR word is the set of its bits. An operand is the row, word and byte
it was read from (`LayerEngine`); a word of activations is inference, layer and position
(`AccelTop`); in `TileFabric` it is the inference
whose packet it belongs to (on the stream) or during which it was written (in a buffer), and a
pooling tile's element counts as a word, where other tiles pack eight elements into one; a buffer is the number of its inference
(`AccelDriver`); a tensor is its producer (`GraphIR`); a weight is its output and its input
(`WeightPacker`, `RomMapper`). In `Interpreter` a tensor is one number of a prime field, so
that sums, products and quotients are exact; operators that a rewrite must not confuse are
unrelated polynomials. Constant folding evaluates the six operators that the programs apply to
constants (`Evaluated`), of the eighteen that the code evaluates. `QuantMath` computes in integers, with scales as quotients of
integers; the guards against ranges of zero (1e-8) are left out, for layers whose range is
zero are not among those compiled.

## 3. Runs

| run | shows | bounds |
|---|---|---|
| `csr_protocol` | `OneWriteInFlight`, `StartIsAPulse`, refinement of `CsrBus`, `WriteIsCommitted` for a processor that holds its data | two words, four kinds of register, one event bit: all the logic distinguishes |
| `layer_single_tile` | controller and array `InStep`, `TileIsComplete`, `LatencyIsFixed`, `LayerEnds` | 4 lanes, words of 2 bytes; input dimensions 1, 2, 4, 7: below, at, above a word and not a multiple of one. Restarts are unbounded |
| `layer_multi_tile` | a second tile never ends (section 6) | two tiles |
| `top_inference` | `OutputIsThisInference`, `ImplementsService`, `EveryInferenceEnds` | four layers, dimensions short of, equal to and past a packet; three inferences, so that state left by one meets two others; every value of the undefined table entry; any stall pattern |
| `top_back_to_back` | section 6 | two layers, two inferences |
| `driver` | `OkMeansOutput`, `FlagIsThisInference`, `CallsReturn`, `EveryStartIsReported` | three inferences under each mix of blocking and interrupt-driven calls, with and without DMA errors, DMA interrupt and patience: time-outs and resets leave their traces for a later call |
| `requant` | `HardwareIsInterpreter`, `SymmetricLayersKeepMeaning` | the full eight bits; two inputs, the activations none, ReLU and ReLU6, calibration data that are symmetric, never negative and mixed; any two layers share the pipeline, with requests in every order and at every distance |
| `quantized_meaning` | section 6 | one layer of pixels |
| `tile_fabric` | `WrittenFromThisRun`, `FabricEnds` | every sequence of two or three of seven kinds of tiles (a first, a middle and a last one): linear layers as wide as the lanes and wider, pooling with a kernel below the modulus it is cut to and at it, additions, activations, reshapes. Two words, so that first and last differ; buffers of four, so that wide tiles read past what was written; three inferences, soft resets on any edge, any word on the live input wire |
| `passes` | `MeaningPreserved`, `WellFormed`, `CachesFresh`, `ScalesAgree`, `StageValidates`, `BlocksCompose` | every program of three linear or three convolutional operators on any earlier results; longer ones with residuals, activations and two or three layers; attention with MatMul or Gemm, scaled or not, masked or not, projected or not; feed-forward networks whose layers are fused already, without activation and with ReLU, GELU or SiLU, followed by a layer, a residual or nothing, so that MLP fusion is reached. Attention is fused and then refused by calibration, as in the code, so `quantize_attention` is reached in neither. No rewrite but attention's looks further than three operators |
| `schedule_dag` | `SortsOrRejects`, `NothingLiveIsLost`, `RefusesOnlyWhenFull`, `OperandsAreWhereRead`, `ChainValidates`, refinement of `BankAllocator` | all graphs of four nodes and two inputs with at most one second activation, cyclic and out of order ones included. Three live tensors, the fewest that two banks cannot hold, need three nodes. Dimensions that underfill the lanes, fill them, and take two tiles; memories that some graphs overflow |
| `dag_schedule` | `InputsAreLive`, `PeakIsLargest`, `OverlapsAreTies`, `BusIsExclusive`, `TwoBuffersSuffice`, `OverlapNeverCosts`, `RoutesCarryTheDataflow`, `TilesShareTheOutputs`, `ResidualsAreWired` | four nodes with up to two second activations (chains, diamonds, double reads), in five networks of images and vectors: operators of no cost, weights that load slower and faster than they compute, widths that fit a tile, need two or exceed one with a single output |

What some of them say:

- `ImplementsCsrBus`: however address, data, responses and reads interleave on AXI, each
  accepted address meets the word accepted with it, once.
- `OutputIsThisInference`: whatever the engine's stray run after the last layer reads past
  the end of `LAYER_IN_DIM`, a host that lets it finish gets the right answer, also after a
  soft reset of the idle engine.
- `OkMeansOutput` and the flag's properties are stated for `Careful` applications:
  interrupt-driven calls only, each result collected before the next call. That is not a
  convenience: each weakening fails. With blocking calls mixed in, a done bit left in
  IRQ_STATUS or a completion bit left in DMASR is taken for the next call's. With DMA errors
  `EveryStartIsReported` fails as well, for `accel_reset` leaves the channel halted.
- `HardwareIsInterpreter`: the interpreter clips ReLU6 at the quantized 6, the hardware only
  at 127. They agree because the output range of a ReLU6 was calibrated to at most 6, so that
  the quantized 6 is 127 or more. A request is accepted on any clock, which is more than the
  MAC array makes of it.
- `SymmetricLayersKeepMeaning`: integers stand for the reals they were calibrated with, to
  ten output scales, as long as no zero point is in play: symmetric inputs, no activation,
  an output range that contains 0 and is not small beside the products summed: of *n* inputs,
  (4*n* + 1) * `MaxAbs` * `x.span` <= (38 - *n*) * `y.span`. Section 6
  has what happens otherwise.
- `WrittenFromThisRun`, `FabricEnds`: a tile's start stays up while the tile runs and the
  fabric steps on at its done. No tile behind the first reads a buffer too early or writes
  anything that was not computed from what the tile before it wrote for this inference, and none
  starts twice, also when a soft reset sent the top back while the fabric ran on.
  Chains contain every kind of tile. The first property says nothing of the first tile, which reads
  the live wire of the input stream, nor of a tile behind a RESHAPE, which writes no buffer;
  the second is about chains of tiles that end: linear layers of one output tile, pooling
  whose window is not cut to nothing, reshapes. Section 6 has the others.
- `MeaningPreserved` holds after every single rewrite, half-way through a pass, and through
  quantization, where layers in integers stand beside layers in reals. It is stated for
  `Matching` programs (`MCPassPipeline`), the shape that the rewrites rely on without testing
  for it; section 6 lists what each clause excludes.
- `RefusesOnlyWhenFull`: `BankConflict` is raised only when both banks hold something that
  is still needed, for nodes with one activation.
- `OperandsAreWhereRead`: the row and lane at which the layer controller reads a weight or a
  bias hold that weight or bias, and outputs are written in order, for layers of one tile and
  for those that use all lanes.
- `ChainValidates`: for chains, allocator, hardware parity and `validate_stage3` agree.
- `PeakIsLargest`: the event sweep, with its ties, finds the maximum over all cycles of the
  live bytes, a tensor being live from the end of its producer to the end of its last reader.
- `TilesShareTheOutputs`: every output of a layer is computed by one tile, whose ROM it fits
  unless it is too large alone; a convolution's tile holds its weights and no others.
- `ResidualsAreWired`: an addition of two whole tensors, one of them its neighbour's, reads
  exactly these two.

Every passing run explores to the end. `schedule_dag`, `dag_schedule`, `tile_fabric` and
`driver` may stop (the functions return, the host need not call again), so they do not check
for deadlock; the other runs do.

## 4. Fairness

- Hardware: weak fairness of the clock (`WF_vars(Next)`, or of the edge on which the
  environment is ready). `csr_protocol` needs that responses are not refused for ever;
  `top_inference` that DMA takes and offers words again and again. Nothing makes the host
  start or reset. `FabricEnds` needs the clock only.
- Driver: weak fairness of the hardware as a whole, of pending interrupts, and of the
  function under execution. The application need never call.
- A polling loop gives up after a million reads, and every hardware action takes far
  fewer clocks; so a loop times out in the model only once the hardware has come to rest
  (`AtRest`). This is the one assumption about time.
- Passes and schedulers: safety only; their termination is the end of a bounded loop.

## 5. Proofs

| theorem | statement | hypotheses |
|---|---|---|
| `ControlPlane_proof!OneWrite`, `StartPulse` | `OneWriteInFlight` and `StartIsAPulse` | |
| `ControlPlane_proof!Refinement` | the block implements `CsrBus` | the processor holds its data |
| `LayerEngine_proof!Lockstep`, `CompleteTile`, `Latency` | `InStep`, `TileIsComplete`, `LatencyIsFixed` | one tile |
| `AccelTop_proof!AnswersAreFresh` | `OutputIsThisInference` | `Premises` |
| `AccelTop_proof!Refinement` | the accelerator implements `InferenceService` | `Premises` |
| `ControlPlane_proof!OkMeansOutputs`, `FlagIsFresh` | `OkMeansOutput`, `FlagIsThisInference` | (the properties are about the careful use) |
| `LayerEngine_proof!BitExact` | `HardwareIsInterpreter` | 8 bits, 16 fractional bits |
| `LayerEngine_proof!MeaningIsKept` | `SymmetricLayersKeepMeaning` | 8 bits, 16 fractional bits |
| `TileFabric_proof!WrittenFromRun` | `WrittenFromThisRun` | |
| `WeightPacker_proof!NothingLost` | `NothingLiveIsLost`, of the allocator alone | no output is read by a node |
| `WeightPacker_proof!RefusalsAreNeeded` | `RefusesOnlyWhenFull`, of the allocator alone | (the property is about nodes with one activation) |
| `WeightPacker_proof!LayersAreSorted`, `ChainsValidate` | `SortsOrRejects`, `ChainValidates` | |
| `WeightPacker_proof!SchedulerRefines`, `SchedulerKeeps` | scheduler and packer implement `BankAllocator`, and inherit the two allocator theorems | |
| `WeightPacker_proof!OperandsInPlace` | `OperandsAreWhereRead` | a row of biases divides the lanes |
| `FabricLowering_proof!Bus`, `Buffers`, `Savings` | `BusIsExclusive`, `TwoBuffersSuffice`, `OverlapNeverCosts`, of the streamer alone | |
| `FabricLowering_proof!PipelineStreams`, `PipelineLoads` | the pipeline implements the streamer, and inherits its three theorems | |
| `FabricLowering_proof!InputsStayLive`, `OverlapsAreOnlyTies`, `PeakIsExact` | `InputsAreLive`, `OverlapsAreTies`, `PeakIsLargest` | |
| `FabricLowering_proof!RoutesFollowTheSchedule`, `TilesShare`, `SkipsAreTheOperands` | `RoutesCarryTheDataflow`, `TilesShareTheOutputs`, `ResidualsAreWired` | |
| `PassPipeline_proof!CachesAreFresh` | `CachesFresh` | |
| `PassPipeline_proof!BlocksAreComposed` | `BlocksCompose` | `WellFormed` while nothing is quantized |
| `PassPipeline_proof!NoLayerIsLeftOut` | `StageValidates` | `WellFormed` while nothing is quantized |
| `PassPipeline_proof!ScalesMatch` | `ScalesAgree`, where one pass quantizes writer and reader, and throughout an MLP | the same, and `Measurable` when a calibration begins |
| `PassPipeline_proof!EliminationIsExact` | a step of constant folding or dead-code elimination leaves `Meaning` as it is | `Accepted` while nothing is quantized |
| `PassPipeline_proof!FusionIsExact` | a step of the six fusions of operators does, of a graph that can be run | `Fit` |
| `PassPipeline_proof!FoldingIsExact` | a step of the two BatchNorm foldings does | `Fit` |
| `PassPipeline_proof!MeaningStays` | `MeaningPreserved` until something is quantized, wherever the graph can be run | `Fit`, and a source that can be run |

Each holds for all values of the constants that the named assumption of its module admits,
and rests on an inductive invariant. Section 6 shows for most hypotheses how the
property fails without them. `WellFormed` is an invariant that the run `passes` checks: whether
a graph stays well formed depends on the program that is compiled. It says that the graph is
`Accepted` (what `validate_stage1` demands, and that operands have an origin), that operators
have the operands ONNX gives them and names of fused nodes are new (`Regular`), that the interpreter
computes numbers (`Numeric`), and that what a BatchNorm is folded into is there for it alone
(`Exclusive`). The theorems need it only until a node is quantized (`Prepared` asks for `Accepted`,
`Fit` for all of it), as the rewrites that leave it so are the structural ones: that quantization
preserves what they use of it (`Formed`) is proved.

- **CSR block** (`CsrAssumption`): the flags agree on one stage of one write, accepted
  data are still on the bus, and *a START that is up still owes its response*. Without the
  last part START could be written again on the edge on which it clears: the invariant
  keeps the next commit away. The refinement maps latched flags to pending items and
  every edge to `Commit`, `Respond`, `Accept` or a stutter, each with a read beside it.
- **Layer engine** (`GeometryAssumption`, `EngineAssumption`): `Phase` lists, for every
  controller state, the array's state, both counters, the number of products so far and
  the elapsed clocks as sums of those counters. It is inductive because `input_dim` and
  `Parallelism` are at least one and below the counter width; the properties are
  projections. It holds for one tile only, and section 6 shows why.
- **Top** (`GeometryAssumption`, `TopAssumption`): for every state of the top FSM the
  invariant names what the banks hold and, inside `RUN_LAYER`, the phase of controller and
  array: how much of the sum there is, that the register between bank and array holds a word of
  this layer and inference, and how many words of the next layer are written. The controller
  starts once more behind the last layer, with dimensions from past the end of a table; of
  that run the invariant says nothing, because in `SEND_OUT` the stream owns the address of
  bank A, and the host starts again only after controller and array rest. `Premises`
  are what the argument uses: that host; tiles that fill a bank, so that a layer leaves no word
  of its predecessor's; and an even number of layers, so that the last one writes bank A, the
  one that is sent. The refinement maps the words accepted and sent to those of the
  service; a step is `Start`, `Take`, `Offer`, `Give`, `Finish` or a stutter.
- **Driver** (`DriverAssumption`): the invariant follows one inference from call to copy. Its
  packet, its result, its completion event and its completion bit are each in one place
  (`Packet`, `Result`, `Event`, `Told`), and all have gone when the application may call
  again (`Quiet`). A channel that failed stays halted, so the streams that a reset tears
  carry no packet afterwards. DMA errors and both wirings of the DMA interrupt are covered.
- **Tile fabric** (`FabricAssumption`): whatever the top does, soft resets included, a fabric
  that runs is at a tile of its chain, no tile but that one has left its idle state, and every
  buffer behind it is full of words written since the fabric was started (`BehindIsFull`). What
  a running tile accumulates comes from the buffer before it (`ReadSoFar`), and the counters of its
  states say that it fills its own buffer before its done (`WrittenSoFar`). Linear tiles of several
  output tiles, windows cut to nothing, additions and activations stay where they are, which
  disturbs none of this.
- **Requantization** (`QuantAssumption`, `LayerAssumption`): the invariant says which of the
  last three requests each stage holds and how far it is computed, so parameters that change
  with every request do not mix. The rest is arithmetic. For `BitExact`, the results of a layer
  with ReLU6 lie in 0 .. 6, so in the scale they are written in six is at or above 127, and the
  clip the hardware lacks would change nothing. For `MeaningIsKept`, the rounding errors of
  weights, inputs, bias and multiplier add up: with *p* = `MaxAbs` * `x.span` and *n* inputs the
  result is off by at most ((4*n* + 1) *p* + (*n* + 2) `y.span`) / (4 `y.span`) output scales
  (`RescaledNear`), and saturation only brings it nearer (`Clipped`), as 0 is among the
  outputs. That sums over a layer's inputs are whole and bounded (`SumIsTotal`, `SumsNear`), and
  that a finite calibration has extremes (`HaveExtremes`), goes by induction on cardinality.
- **Bank allocation** (`GraphAssumption`): a bank counts no fewer uses than its
  tensor has reads to come, and every tensor that is still needed has a bank, until a node is
  refused. A pending read keeps the count above zero, so `_pick_free_bank` does not return its
  bank. The order of the nodes may be any that respects the data flow. With one activation
  per node the counts are exact (`LinearInv`), so a bank that is not free holds something
  that must survive.
- **Topological order** (`KahnInv`): `in_degree` counts the reads that are pending, a node
  is in the queue or in the order, once, exactly when nothing it reads is pending. When the
  queue runs dry with nodes left, each of those waits for another of them: a cycle.
- **Linear scheduler and packer**: the allocator's steps come in Kahn's order, which respects
  the data flow, so the scheduler's are steps of the allocator or stutters, whatever the graph.
  In a chain one bank is in use, the one that the parity of the layer names (`ChainInv`).
  The plan of a layer starts where the one before ended (`SchedInv`), and the packer has
  written exactly the rows of the layers done, each at the plan's cursor (`PackInv`); the rest
  is the arithmetic of quotients and remainders of lane, tile and row.
- **Weight streaming** (`AxiAssumption`): plans are ordered pairwise, a load starting no
  earlier than the plan before it computes, which starts no earlier than the one before
  that ends; and the last plan ends at `current_cycle`. Adding a plan needs the order to
  the last one only (`AppendOrdered`). The pipeline hands over the schedule node by node,
  with natural numbers for any network, and touches no plan later.
- **DAG scheduler** (`GraphAssumption`, `LanesAssumption`): the memory-aware loop keeps the
  counts of Kahn's over its own order (`PeakInv`), and since the canonical order is whole it
  ends with all nodes: the first node of the canonical order that is missing would be ready.
  That `Cheapest` exists, and that the cycle models return naturals for any shape, are lemmas.
  Slots follow each other in that order (`Slots`), so a reader starts after what it reads ended
  and frees it no earlier than it ends. Two neighbours that overlap in the validator's order
  must start together, so one of them takes no cycle.
- **Budget sweep** (`SweepInv`): the live bytes are those of the tensors produced so far less
  those freed so far, events are taken in order, and the peak is at least what is live after any
  production that was taken and equals one of them. Because frees sort first at a cycle, what is
  live at the last production of a cycle is what the definition calls live; a tensor that dies
  as it is born adds and subtracts the same, in either order of its events.
- **Tiles** (`RomAssumption`): the tiles of a node are one block of ids, blocks come in
  canonical order, and a block is what `TilesFor` says of its node (`TilesInv`). Producers come
  first in that order, so routes go forward. A number falls in exactly one piece of
  `max_outputs_per_tile`, a piece needs no more ROM than fits unless it is a single output, and
  row and column of the flattened slice are quotient and remainder of its position. The routes
  that arrive at an addition come from its operands, so the one that is not its neighbour
  is the first other source.

- **Passes, caches** (`PipelineAssumption`, `CacheInv`): a graph has its fields, its nodes are a
  dictionary (in an order, names unique), and the adjacency maps are absent or those of
  the nodes as they are. A lookup builds them. Quantization changes types, attributes
  and tensors, of which the maps say nothing; every other rewrite ends with `invalidate`, also
  where it looked something up half-way.
- **Partitioner** (`Partial`): for any graph `TopoOrder` respects the data flow, and the first
  *k* parts, merged, are blocks whose names concatenate to the first *k* nodes of it and which
  read only what comes from outside or an earlier block made (`Linked`). Merging a part into the
  block before it drops only the operand that this block makes. Well-formedness gives every
  operand an origin, and an order that holds every node.
- **Quantization is complete** (`StageInv`, which TLC checked on the run before it was proved):
  once the architecture is known every layer is quantized, or on the work list of the pass under
  way, or the pass of its kind is still to come (`DueInv`). That needs the plan: only
  quantizations follow a quantization, so nothing rewrites what it did (`PlanInv`). And it needs
  the work: calibration gives every tensor a range, so no visit returns early, and the work
  list names nodes of the pass's kind that exist (`WorkInv`). `WellFormed` enters twice. A cyclic
  graph would leave nodes out of the order and so off the work list; and of a tensor that is one
  layer's weights and another's bias the later visit would undo the earlier one's type.
- **Well-formedness lasts** (`PlainInv`, `FormInv`): nothing is quantized before the architecture
  is known, nor while a pass that is no quantization is to come, nor any layer before the pass of
  its kind; so as soon as some node is quantized only quantizations write the graph. They
  change attributes, types and data (`Reshaped`): names, operands, the order and who makes
  what stay, and so does `Formed`.
- **Meaning, step by step**: of an acyclic graph in which every tensor has one origin, the values
  `run_all` computes are the only solution of the graph's equations, one for each node
  (`Determined`, `Solves`): the recursion over the order is used once, to show that, and the
  rewrites are compared through their equations. Elimination keeps every equation that an output
  depends on (`FewerNodes`, `FoldingMeans`). A fusion puts one equation in the place of several:
  the new operator makes of the operands what the chain made, and nothing else read what is gone
  (`FuseMeans`, `FusedMeans`); for products the loop over the nodes is followed fusion by fusion
  (`LayersMean`). Folding a BatchNorm scales the weights and the bias and lets the readers
  of the normalised tensor read the one before it, which now has its value (`BypassMeans`,
  `NormFoldMeans`, `ConvFoldMeans`); that uses that the interpreter's numbers, kept in a finite
  range, add and multiply as residues do (`Commute`, `Distribute`, `Group`).
- **Meaning, from end to end** (`MeantInv`): the passes that fuse attention or an MLP and those that
  quantize come after all others in every plan (`Late`, `PhaseInv`), and the others add only operators
  the interpreter has (`BareRewrite`, `BareSweeps`). So while an early pass is to come the graph can be
  run and each of its steps is exact; of the late ones, `MeaningStays` claims nothing but that they
  leave a graph that cannot be run, or one with a quantized layer, or the graph as it was.
- **Scales agree** (`ScaleInv`): while a quantization is under way what it has quantized carries the
  ranges of its one calibration, input and output (`RangeInv`). The writer's range is cut by its
  activation and the reader's is not; but calibration ran the writer, activation
  included, so there was nothing left to cut (`CalibrationIsCut`, from `RunMakes`: the value
  of a tensor is what its only maker computes). What an earlier quantization left agrees
  already and no later one touches it (`AgreeInv`), kinds of passes having no operator in
  common. Between two passes nothing of the kind holds, which is why the theorem is about
  layers of one pass (`OneKind`): section 6 has the convolutional network whose linear head
  breaks it.

A list that the code builds in some order (the queue, the validator's sort, the routes of a
tile) is modelled by the rank of its elements (`Ranked`); that such a list holds every element
once and in order is one lemma (`RankedLists`), for any strict total order.

Recursion in these modules is by recursive functions, which lemmas unfold one step at a time
(`Recursion`, `UpTo`); sequences folded by the code are related to their prefixes.

Only model-checked:

- all liveness (`WriteIsCommitted`, `LayerEnds`, `EveryInferenceEnds`, `CallsReturn`,
  `EveryStartIsReported`, `FabricEnds`): fairness needs ENABLED, which is outside the prover's
  reach;
- `MeaningPreserved` of graphs with fused attention or MLPs and of quantized ones. The fusion of an MLP
  is not exact in general (section 6), only for the feed-forward networks of the run; of quantized layers
  the model's integers stand for exact quotients, and the theorems on what is left of them in the
  hardware are `BitExact` and `MeaningIsKept`;
- nothing is claimed of the operators and shapes that `Built` derives for a network, an
  induction over data; the theorems on the DAG scheduler and the tiles hold for every network whose
  shapes are positive (`Shaped`), built or not;
- `WellFormed`: rewrites rely on the shape of the program (`Matching`) without testing for it, so
  it is true of what is compiled and not of every graph. The theorems on the passes, but for
  `CachesAreFresh`, have it or a part of it as hypothesis, `ScalesMatch` also that calibration
  measures numbers (`Measurable`, which is `Numeric` when a calibration begins).

## 6. Disagreements between the code and its documentation

With a run (`findings` in `PROJECT.json`):

- `layer_multi_tile`: `mac_start` is raised in `S_IDLE` only (`rtl/layer/fused_linear_relu.sv:183`),
  so the second tile waits for `mac_done` for ever.
- `top_back_to_back`: `layer_start` is raised once more after the last layer
  (`src/mlasic/rtl_lowering.py:745`); an inference started at once takes the stray run's
  `layer_done` for its first layer's. The stray run may also hold the engine when a new
  `layer_start` comes, and the inference never ends. `PatientHost` names the assumption
  that avoids both.
- `quantized_meaning`: inputs have a zero point, but the INT8 sums are taken of the raw values
  (`src/mlasic/int8_interpreter.py:120`), and no term of the bias makes up for it. `verify` says
  "Tolerance: output_scale * 10" (`src/mlasic/optimization.py:859`), allows 256 (line 876), and
  the layer of the run is some 56 scales off on a sample of its own calibration.

Reproducible by changing a configuration (the property goes in place of those listed,
with the constants named; each fails):

| property | configuration | what is found |
|---|---|---|
| `OperandsAreAligned` | `layer_single_tile`, `InDims = {4}` | memories register their output (`rtl/memory/sram_bank.sv:25`), the controller applies address and byte select on the same clock (`fused_linear_relu.sv:164`, `:170`): operands are one row off |
| `DoneStaysUntilStart` | `top_back_to_back`, `PatientHost = TRUE`, `MaxInferences = 1` | STATUS.done is cleared in IDLE (`rtl_lowering.py:756`) and up for one clock, while the driver polls for it (`firmware/accel.c:13`) |
| `DoneMeansDone` | `driver` | `accel_start_inference` clears its flag but not IRQ_STATUS (`accel.c:249`): a done bit of an earlier blocking call raises the flag (`firmware/accel.h:72` says done) |
| `NothingLiveIsLost` | `schedule_dag`, `InnerOutputs = TRUE` | a graph output that is also read keeps no use for the egress path (`src/mlasic/scheduler.py:122`, against the comment at `:90`) and may be overwritten |
| `EveryLayerIsAddressed` | `schedule_dag`, `Widths <- WidthsWithThreeLanes`, `NumNodes = 2` | a layer of several tiles that leaves lanes unused packs its biases without gaps (`src/mlasic/weight_packer.py:218`), while the controller reads and writes at `tile * Parallelism` |
| `RomsServeTheirLanes` | `dag_schedule` | `rom_mapper.py:145` cuts rows of the row-major tensor by the lanes and partitions along its first dimension: right only if a layer is exactly as wide as the tile |
| `EveryAddIsWired` | `dag_schedule` | tile *i* reads the buffer of tile *i - 1* whatever the routes say (`rtl_lowering_tile.py:709`); the skip input is tied off if an addition reads one tensor twice, or a graph input |
| `FirstTileReadsThePacket` | `tile_fabric` | the "first tile reads from input buffer" (`rtl_lowering_tile.py:402`) is the live `s_axis_tdata` (`:843`), read after the packet has been taken in: the tile may work on the next packet, or on nothing |
| `EveryFabricEnds` | `tile_fabric` | an ALU tile of width 0 and an activation tile never report done (`rtl/tile/tile.sv:577`); a linear layer wider than the lanes gets several output tiles (`rtl_lowering_tile.py:650`) and waits like `layer_multi_tile`; a kernel of 16, as of a global pool over 16 rows, is cut to 0 (`rtl/tile/tile.sv:622`, `rtl/compute/pool_unit.sv:79`) and its window never ends. A chain with such a tile waits for ever |
| `DoneIsThisInference` | `tile_fabric` | a soft reset reaches the top FSM only (`rtl_lowering_tile.py:976`): the next inference takes the fabric's old done |
| `ScalesAgree` | `passes`, `Sources <- CnnWithHead`, `Managers = {"cli"}` | convolution weights are quantized in place before the linear layers' calibration runs the graph: the head reads with another scale than the convolution writes with |

Met while modelling. The models behave as the code does; the properties are stated so
that it is not asserted away.

*Registers, top, driver*

- A write of IRQ_STATUS assigns the whole register after the event branches
  (`rtl/interface/axi_lite_ctrl.sv:145`): an event on that edge is lost. `CsrBus!Commit`
  allows it.
- The commit takes the live `wdata` (`axi_lite_ctrl.sv:143`), so a processor that changes
  the bus after the handshake, as AXI allows, gets another word written. `HoldData`
  names the assumption.
- A one-tile layer takes `IN_DIM + 152` clocks (`LatencyIsFixed` at 128 lanes and 16
  words), the scheduler says `IN_DIM + 149` (`scheduler.py:39-41`).
- The output stream reads bank A (`rtl_lowering.py:448`): an odd number of layers leaves the
  result in bank B.
- SOFT_RST resets the top FSM's state only (`rtl_lowering.py:726`), not streams, controller or
  array; `accel.h:42-43` calls it a recovery from any error and says it also resets both
  DMA channels, which `accel_reset` (`accel.c:154`) does not.
- The cycle counter is cleared in IDLE (`rtl_lowering.py:771`), where `main.c:204` reads it.
- `dma_arm_s2mm` leaves DMASR.IOC (`accel.c:79-83`), so the next wait may return at once;
  `dma_s2mm_isr` clears it (`interrupt.c:75`), so `accel_get_output` may wait in vain.

*Tiles*

- `conv_engine.sv:231` offers biases before it raises `mac_start` (`:243`), and `mac_array` takes
  them only after it: a convolution tile waits for ever. Its counters `ic_cnt` and `kh_cnt`
  have no driver. Read from the source, without a model.
- The top sends the last tile's wire, not what was stored; an ALU tile adds whatever operator it was made for, and starts
  again on a start that stays up; a RESHAPE tile writes no buffer; NORM and SOFTMAX tiles
  get feature dimension 0.
- Operators that the tile mapper does not know (FUSED_ATTENTION, GROUP_NORM) get no tile and
  no routes. The ROM limits do not count biases, and a single output may exceed them.
- `requantize.sv:69` and `:103` say "Round-half-away-from-zero", the shifter rounds halves up,
  as the interpreter does.
- INT8 ReLU cuts at 0, not at the output's zero point; zero points are clipped, so a range
  without 0 saturates; a constant output makes the multiplier overflow and the packer raise.

*Schedulers*

- The last reader of a tensor may be placed in the tensor's own bank (`scheduler.py:182`), which
  `tests/test_placement.py:126` excludes; and the hardware picks banks by layer parity
  (`rtl_lowering.py:433`) whatever the allocator says (`scheduler.py:250-251`). `validate_stage3`
  demands the ping-pong of a chain, also of graphs the allocator places otherwise.
- The greedy cost counts a tensor as freed only if one read is left
  (`dag_scheduler.py:776`): a node that reads it twice frees it and gets no credit.
- The peak leaves out graph inputs and unread outputs, and the time in which an operator
  has its inputs and its output at once (`dag_scheduler.py:616`).
- `validate_stage3_dag` reports an overlap between operators without cost and a long one
  that starts with them (`ir.py:1234`). `OverlapsAreTies` says that it reports nothing else.

*Passes* (what `Matching` excludes, and the operators `CanRun` refuses)

- BatchNorm folding changes weights that others share, and what others read of the
  normalised tensor. Constant folding may leave a graph output without a producer.
- Operator fusion takes a product of two activations for a layer, an activation for a bias,
  and two products added for two layers with one output. Weights that two layers share are
  quantized twice.
- MLP fusion keeps no ReLU of the second layer, and none of the first if a GELU or SiLU follows
  (`optimization.py:2001`).
- SiLU and GELU fusion do not ask whether the inner tensors have other readers, or leave the
  graph. Attention fusion drops bias additions and the mask, and takes a residual sum for the
  output projection if there is none.
- `detect_architecture` runs before the passes that make the operators it looks for, so the
  CLI never finds a transformer; the interpreter has no handler for FusedAttention and
  FusedMLP, so a pass manager that makes them cannot calibrate, and `quantize_attention` is never
  reached.
- `partition_merged` drops what an earlier merged node leaves for other blocks.
- The CLI calls no validator, and `stage_start` above 1 always ends with an error.

## 7. Not modelled

- *Constant folding of Sub, Concat, Squeeze, Unsqueeze, Cast, Gather, Shape, ConstantOfShape, Expand,
  Tile, Pad and Slice*: evaluation of more operators by the same pass; a tensor is one number.
- *ONNX ingestion, RTL IR and emitter, golden vectors, test benches, export, argument
  parsing*: sequential text and file processing without state of its own. What the emitter
  writes is modelled as `AccelTop` and `TileFabric`.
- *Arithmetic over tensors* (convolution windows, softmax, layer norm, activation tables,
  broadcasting): numerical. Tensors have one element in `Interpreter`, one pixel and one weight
  per input in `QuantMath`; `verify()`'s tolerances compare vectors.
- *conv_engine, softmax, layer_norm and activation units and their tiles*: the first never ends,
  the others are arithmetic behind a start and a done like those of `TileFabric`'s tiles.
- *Packers for convolutions, attention and INT4 weights*: no stage calls them.
- *Cycle models of unfused operators, fallbacks for missing shapes, shapes in the validator,
  reports*: formulas and text.
- *GIC setup, `accel_init`, self tests* of the firmware: straight-line register writes.

## 8. Plan

Done, in this order: CSR block, layer engine, top, linear scheduling, driver, DAG scheduling
and weight streaming; then the tile mapper with ROMs and routes, the tile fabric, the weight
packer, the passes with IR, interpreter, validator and partitioner, and quantization with the
requantization pipeline; the proofs of section 5, those of the two schedulers, the packer
and the tiles, and of the passes last.

Next, most important first:

1. `AccelTop` composed with `AxiLiteCtrl`: START and STATUS through the CSR block.
2. `conv_engine` with `MacArray`, once its first pixel ends.
3. `AccelTop` with layers of several tiles, once the array's start is one pulse per tile.
4. Proofs: `WellFormed` for `Matching` programs, which would free the theorems on the passes of
   their hypothesis, and the type invariants as theorems of their own.
