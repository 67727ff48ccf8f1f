------------------------------ MODULE PassPipeline ----------------------------
(***************************************************************************)
(* Stage 2 of the compiler: PassManager.run (src/mlasic/optimization.py) over *)
(* the passes that src/mlasic/cli.py chooses, first the structural ones, then *)
(* those for the architecture it detects.  A step is one iteration of the     *)
(* loop of the current pass; the node names it walks over are a snapshot.    *)
(***************************************************************************)
EXTENDS GraphPartitioner

CONSTANTS
  Sources,      (* the graphs that may be compiled                          *)
  Managers      (* "cli", or "transformer" for a caller that builds that    *)
                (* pass manager itself and runs it on a graph without dead code *)

(* A graph as the ingestion hands it over: its fields, no maps yet, and a dict  *)
(* of nodes, which keeps their order and has a name once and in which nothing  *)
(* is quantized; and there are data to calibrate with.                       *)
ASSUME PipelineAssumption ==
  /\ \A g \in Sources : /\ DOMAIN g = GraphFields /\ Dict(g.nodes) /\ g.cache = <<>>
                        /\ \A x \in ToSet(g.nodes) : x.attrs = Blank
  /\ Samples # {}
  /\ Managers \subseteq {"cli", "transformer"}

VARIABLES
  source,       (* the graph as ingested                                    *)
  graph,        (* the graph as rewritten so far                            *)
  passes,       (* names of the passes to come                              *)
  pass,         (* the pass under way, or "none"                            *)
  todo,         (* node names its loop has yet to visit                     *)
  fused,        (* its fused_counter                                        *)
  ranges,       (* the calibration of a quantization pass                   *)
  arch,         (* what detect_architecture said, "unknown" before           *)
  status        (* "running", then "done" or "unsupported"                  *)

vars == <<source, graph, passes, pass, todo, fused, ranges, arch, status>>

Structural ==
  <<"ConstantFolding", "DeadCodeElimination", "BatchNormFolding", "ConvBatchNormFolding",
    "DeadCodeElimination", "ConvFusion", "OperatorFusion">>

(* build_quant_pass_manager; ActivationFusion is its two loops. *)
QuantPasses(a) ==
  (CASE a = "transformer" -> <<"LayerNormFusion", "FuseSiLU", "FuseGELU", "AttentionFusion",
                               "FusedMLP", "ConvQuantization", "AttentionQuantization">>
     [] a = "cnn" -> <<"ConvQuantization">>
     [] a = "mlp" -> <<>>) \o <<"Quantization">>

(* Passes that visit nodes of one kind, in which order, and what they do.    *)
Kind ==
  [BatchNormFolding |-> {"BatchNormalization"}, ConvBatchNormFolding |-> {"BatchNormalization"},
   ConvFusion |-> {"Conv"}, LayerNormFusion |-> {"LayerNormalization"},
   FuseSiLU |-> {"Sigmoid"}, FuseGELU |-> {"Erf"}, AttentionFusion |-> {"Softmax"},
   FusedMLP |-> LinearTypes, ConvQuantization |-> ConvTypes,
   AttentionQuantization |-> {"FusedAttention"}, Quantization |-> LinearTypes]

Quantizing == {"ConvQuantization", "AttentionQuantization", "Quantization"}

Rewrite(p, g, node, k, r) ==
  CASE p = "BatchNormFolding"      -> fold_bn(g, node)
    [] p = "ConvBatchNormFolding"  -> fold_conv_bn(g, node)
    [] p = "ConvFusion"            -> fuse_conv(g, node, k)
    [] p = "LayerNormFusion"       -> fuse_layer_norm(g, node, k)
    [] p = "FuseSiLU"              -> fuse_silu(g, node, k)
    [] p = "FuseGELU"              -> fuse_gelu(g, node, k)
    [] p = "AttentionFusion"       -> fuse_attention(g, node, k)
    [] p = "FusedMLP"              -> fuse_mlp(g, node, k)
    [] p = "AttentionQuantization" -> quantize_attention(g, node, r)
    [] p = "ConvQuantization"      -> quantize_conv(g, node, r)
    [] p = "Quantization"          -> quantize_linear(g, node, r)

(* The nodes are looked up when their turn comes: an earlier rewrite may have  *)
(* removed them or given their name to another.  The passes over BatchNorms   *)
(* take insertion order.                                                   *)
WorkList(p, g) ==
  LET names == IF p \in {"BatchNormFolding", "ConvBatchNormFolding"}
               THEN NamesInOrder(g) ELSE TopoOrder(g)
  IN  Among(names, {n \in NodeNames(g) : NodeOf(g, n).op \in Kind[p]})

detect_architecture(g) ==
  LET ops == {g.nodes[i].op : i \in DOMAIN g.nodes}
  IN  CASE ops # {} /\ ops \subseteq LinearTypes -> "mlp"
        [] ops \cap {"FusedAttention", "FusedLayerNorm"} # {} -> "transformer"
        [] OTHER -> "cnn"

-------------------------------------------------------------------------------
Init ==
  /\ source \in Sources
  /\ graph = source
  /\ \E m \in Managers :
       /\ passes = (IF m = "cli" THEN Structural
                   ELSE <<"DeadCodeElimination">> \o QuantPasses(m))
       /\ arch = (IF m = "cli" THEN "unknown" ELSE m)
  /\ pass = "none" /\ todo = <<>> /\ fused = 0 /\ ranges = <<>> /\ status = "running"

Between == status = "running" /\ pass = "none"

Raises ==
  /\ status = "running" /\ pass \in {"ConvQuantization", "Quantization"} /\ todo # <<>>
  /\ Computed(graph, NodeOf(graph, Head(todo)))

(* A pass that loops over nodes begins; quantization calibrates first.       *)
BeginPass ==
  /\ Between /\ passes # <<>> /\ Head(passes) \in DOMAIN Kind
  /\ Head(passes) \in Quantizing => CanRun(graph)
  /\ pass' = Head(passes) /\ passes' = Tail(passes)
  /\ graph' = Touch(graph)
  /\ todo' = WorkList(pass', graph) /\ fused' = 0
  /\ ranges' = IF pass' \in Quantizing THEN Calibrate(graph) ELSE <<>>
  /\ UNCHANGED <<source, arch, status>>

(* IRInterpreter raises for an operator it has no handler for, the            *)
(* quantization of a layer for weights or a bias that are not constants.     *)
Unsupported ==
  /\ \/ /\ Between /\ passes # <<>> /\ Head(passes) \in Quantizing /\ ~CanRun(graph)
     \/ Raises
  /\ status' = "unsupported"
  /\ UNCHANGED <<source, graph, passes, pass, todo, fused, ranges, arch>>

Visit ==
  /\ status = "running" /\ pass # "none" /\ todo # <<>> /\ ~Raises
  /\ graph' = IF /\ Head(todo) \in NodeNames(graph)
                 /\ NodeOf(graph, Head(todo)).op \in Kind[pass]
              THEN Rewrite(pass, graph, NodeOf(graph, Head(todo)), fused, ranges) ELSE graph
  /\ fused' = IF Len(graph'.nodes) < Len(graph.nodes) \/ NodeNames(graph') # NodeNames(graph)
              THEN fused + 1 ELSE fused
  /\ todo' = Tail(todo)
  /\ UNCHANGED <<source, passes, pass, ranges, arch, status>>

(* PassManager.run invalidates the caches after every pass. *)
EndPass ==
  /\ pass # "none" /\ todo = <<>>
  /\ pass' = "none" /\ graph' = Invalidate(graph)
  /\ UNCHANGED <<source, passes, todo, fused, ranges, arch, status>>

(* One round of constant folding; the order is computed afresh after each.   *)
FoldConstant ==
  /\ Between /\ passes # <<>> /\ Head(passes) = "ConstantFolding" /\ Foldable(graph) # <<>>
  /\ graph' = fold_constant(graph, Head(Foldable(graph)))
  /\ UNCHANGED <<source, passes, pass, todo, fused, ranges, arch, status>>

(* The passes that rewrite the graph in one sweep. *)
Sweep ==
  /\ Between /\ passes # <<>>
  /\ \/ /\ Head(passes) = "ConstantFolding" /\ Foldable(graph) = <<>>
        /\ graph' = Invalidate(graph)
     \/ /\ Head(passes) = "DeadCodeElimination"
        /\ graph' = Invalidate(eliminate_dead_code(graph))
     \/ /\ Head(passes) = "OperatorFusion"
        /\ graph' = fuse_operators(graph)
  /\ passes' = Tail(passes)
  /\ UNCHANGED <<source, pass, todo, fused, ranges, arch, status>>

Detect ==
  /\ Between /\ passes = <<>> /\ arch = "unknown"
  /\ arch' = detect_architecture(graph)
  /\ passes' = QuantPasses(arch')
  /\ UNCHANGED <<source, graph, pass, todo, fused, ranges, status>>

Finish ==
  /\ Between /\ passes = <<>> /\ arch # "unknown"
  /\ status' = "done"
  /\ UNCHANGED <<source, graph, passes, pass, todo, fused, ranges, arch>>

Stopped == status # "running" /\ UNCHANGED vars

Next == BeginPass \/ Unsupported \/ Visit \/ EndPass \/ FoldConstant \/ Sweep \/ Detect \/ Finish
          \/ Stopped

Spec == Init /\ [][Next]_vars

-------------------------------------------------------------------------------
(* After every step of every pass the graph computes what the source computes: *)
(* also half-way through a pass, when some layers are folded or quantized.    *)
(* It is what verify() samples between passes.  Fused attention has no        *)
(* meaning in the interpreter to compare with.                             *)
MeaningPreserved ==
  (\A i \in DOMAIN graph.nodes : graph.nodes[i].op # "FusedAttention") =>
    \A x \in Samples : Meaning(graph, x) = Meaning(source, x)

(* What quantization takes for weights and biases, of attention too.          *)
WeightsOf(x) == {x.ins[j] : j \in DOMAIN x.ins \cap {2, 4, 6, 8}}
BiasesOf(x)  == {x.ins[j] : j \in DOMAIN x.ins \cap {3, 5, 7, 9}}

Separate(g) ==
  \A x \in ToSet(g.nodes) : x.op \in LinearTypes \cup ConvTypes =>
    /\ Len(x.ins) >= 2
    /\ \A y \in ToSet(g.nodes) :
         y.op \in LinearTypes \cup ConvTypes \cup {"FusedAttention"} =>
           /\ x.ins[2] \notin BiasesOf(y)
           /\ Len(x.ins) > 2 => x.ins[3] \notin WeightsOf(y)

(* Operators have as many operands as ONNX gives them. *)
Operands == [MatMul |-> 2, Add |-> 2, Mul |-> 2, Relu |-> 1, Sigmoid |-> 1, Erf |-> 1, Clip |-> 3]

(* The names of fused nodes. *)
FusedNames ==
  [ConvFusion |-> "fused_conv", LayerNormFusion |-> "fused_ln", FuseSiLU |-> "fused_silu",
   FuseGELU |-> "fused_gelu", AttentionFusion |-> "fused_attention", FusedMLP |-> "fused_mlp"]

(* What the interpreter computes, and calibration measures, are numbers.       *)
Numeric ==
  CanRun(graph) =>
    \A s \in Samples :
      LET values == run_all(graph, s) IN \A t \in DOMAIN graph.tensors : values[t] \in Int

(* Tensors have their fields and operators their operands, and a name that a pass *)
(* is about to give is new.                                                *)
Regular ==
  /\ \A t \in DOMAIN graph.tensors : DOMAIN graph.tensors[t] = DOMAIN Activation
  /\ \A x \in ToSet(graph.nodes) : x.op \in DOMAIN Operands => Len(x.ins) = Operands[x.op]
  /\ pass \in DOMAIN FusedNames =>
       LET name == <<FusedNames[pass], fused>>
       IN  name \notin NodeNames(graph) /\ OutputOf(name) \notin DOMAIN graph.tensors

(* The graph is what validate_stage1 accepts, save that an output may have      *)
(* become a constant; no node makes a constant, and every operand is an input,  *)
(* a constant or produced by exactly one node; and every layer has weights, and *)
(* no layer takes them for its bias or the bias for its weights.             *)
Accepted ==
  /\ \A e \in validate_stage1(graph) :
       e[1] = "INV-1.6" /\ e[2] \in DOMAIN graph.tensors /\ IsConstant(graph, e[2])
  /\ \A x \in ToSet(graph.nodes) : ~IsConstant(graph, x.out)
  /\ \A x \in ToSet(graph.nodes) : \A t \in ToSet(x.ins) :
       Cardinality(get_producers(graph, t)) =
         IF t \in ToSet(graph.inputs) \/ IsConstant(graph, t) THEN 0 ELSE 1
  /\ Separate(graph)

ReadOnlyBy(g, t, reader) ==
  t \notin ToSet(g.outputs) /\ \A z \in ToSet(g.nodes) : t \in ToSet(z.ins) => z = reader

(* A BatchNorm has constants, and what it would be folded into is there for it   *)
(* alone: nothing else reads what the folding changes, and nothing twice.        *)
Exclusive(g, bn) ==
  LET below == Producer(g, bn.ins[1])
      Weight(node) == /\ ReadOnlyBy(g, node.ins[2], node) /\ IsConstant(g, node.ins[2])
                      /\ node.ins[1] # node.ins[2]
  IN  /\ Len(bn.ins) = 4 /\ \A k \in 2 .. 4 : IsConstant(g, bn.ins[k])
      /\ below # NoNode => ReadOnlyBy(g, below.out, bn)
      /\ below.op = "Add" => \A t \in ToSet(below.ins) :
           /\ Producer(g, t).op = "MatMul" =>
                ReadOnlyBy(g, t, below) /\ Weight(Producer(g, t))
           /\ IsConstant(g, t) => ReadOnlyBy(g, t, below)
      /\ below.op = "Conv" =>
           /\ Weight(below)
           /\ IF Len(below.ins) = 2 THEN Append(below.name, 0) \notin DOMAIN g.tensors
              ELSE /\ Len(below.ins) = 3 /\ below.ins[3] \notin {below.ins[1], below.ins[2]}
                   /\ ReadOnlyBy(g, below.ins[3], below) /\ IsConstant(g, below.ins[3])

(* Between any two rewrites the graph is as it must be for the rewrites.       *)
WellFormed ==
  /\ Accepted /\ Regular /\ Numeric
  /\ \A x \in ToSet(graph.nodes) : x.op = "BatchNormalization" => Exclusive(graph, x)

(* Whenever a pass looks up producers and consumers, the maps it is given are   *)
(* those of the graph as it is.                                            *)
CachesFresh ==
  graph.cache # <<>> =>
    \A t \in DOMAIN graph.tensors :
      /\ Producer(graph, t) = Producer(Invalidate(graph), t)
      /\ Consumers(graph, t) = Consumers(Invalidate(graph), t)

(* A tensor that passes from one quantized layer to another is written with     *)
(* the scale and zero point it is read with.                               *)
ScalesAgree ==
  \A x, y \in ToSet(graph.nodes) :
    IsQuantized(x) /\ IsQuantized(y) /\ y.ins[1] = x.out => x.attrs.yq = y.attrs.xq

(* What the compiler calls an MLP leaves stage 2 as validate_stage2e wants it.   *)
(* Of any other graph quantization leaves no linear or convolutional layer out: *)
(* validate_stage2e_dag objects to what validate_stage2d_dag objects to.      *)
StageValidates ==
  status = "done" =>
    /\ arch = "mlp" => validate_stage2e(graph) = {}
    /\ validate_stage2e_dag(graph) = validate_stage2d_dag(graph)
    /\ \A x \in ToSet(graph.nodes) : x.op \in LinearTypes \cup ConvTypes =>
         IsQuantized(x) /\ (Len(x.ins) > 2 => graph.tensors[x.ins[3]].dtype = "int32")

(* The blocks that the partitioner makes of a finished graph run one after the *)
(* other: each node is in one block, and a block reads only what comes from    *)
(* outside the graph or was made by an earlier block.                        *)
BlocksCompose ==
  LET Earlier(blocks, i) == UNION {Made(graph, blocks[j].names) : j \in 1 .. i - 1}
      Compose(blocks) ==
        /\ FlattenSeq([i \in DOMAIN blocks |-> blocks[i].names]) = TopoOrder(graph)
        /\ \A i \in DOMAIN blocks : \A t \in blocks[i].inputs :
             t \in ToSet(graph.inputs) \/ IsConstant(graph, t) \/ t \in Earlier(blocks, i)
  IN  status = "done" => Compose(partition_merged(graph))
===============================================================================
