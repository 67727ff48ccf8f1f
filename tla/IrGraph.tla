-------------------------------- MODULE IrGraph -------------------------------
(***************************************************************************)
(* The Graph of src/mlasic/ir.py as a value that passes rewrite: operator    *)
(* nodes in insertion order, tensors, and the adjacency caches.  Every node *)
(* has one output.  A graph is a record                                    *)
(*   nodes    sequence of [name, op, ins, out, attrs]                        *)
(*   tensors  name -> [dtype, raw]; raw is the data of a constant           *)
(*   inputs, outputs   sequences of tensor names                            *)
(*   cache    <<links the adjacency maps were built from>>, or <<>>          *)
(* Names are tuples.  Unlike GraphIR, which fixes a graph for the           *)
(* schedulers, this module is about how graphs change.                     *)
(***************************************************************************)
EXTENDS Integers, Sequences, FiniteSets, SequencesExt, FiniteSetsExt, Functions

Activation == [dtype |-> "activation", raw |-> 0]
NodeFields  == {"name", "op", "ins", "out", "attrs"}
AttrFields  == {"act", "fc1", "ws", "xq", "yq"}
GraphFields == {"nodes", "tensors", "inputs", "outputs", "cache"}
NoNode  == [name |-> <<"no node">>, op |-> "None", ins |-> <<>>, out |-> <<>>]

First(seq) == IF seq = <<>> THEN NoNode ELSE Head(seq)

(* The members of S in the order of seq. *)
Among(seq, S) ==
  LET A[i \in 0 .. Len(seq)] ==
        IF i = 0 THEN <<>> ELSE IF seq[i] \in S THEN Append(A[i - 1], seq[i]) ELSE A[i - 1]
  IN  A[Len(seq)]

Pick(seq, Test(_)) == Among(seq, {x \in ToSet(seq) : Test(x)})

Names(nodes) == {nodes[i].name : i \in DOMAIN nodes}
Lookup(nodes, n) ==
  IF n \in Names(nodes) THEN CHOOSE x \in ToSet(nodes) : x.name = n ELSE NoNode

(* What can be said of graph.nodes, whatever the nodes are. *)
IsNode(x) == DOMAIN x = NodeFields /\ DOMAIN x.attrs = AttrFields
Dict(nodes) ==
  /\ nodes \in Seq(ToSet(nodes)) /\ \A i \in DOMAIN nodes : IsNode(nodes[i])
  /\ \A i, j \in DOMAIN nodes : nodes[i].name = nodes[j].name => i = j

NodeNames(g) == Names(g.nodes)
NodeOf(g, n) == Lookup(g.nodes, n)
IsConstant(g, t) == g.tensors[t].dtype # "activation"

(* _build_adjacency: maps of names are built once and kept until              *)
(* invalidate_cache; they depend on what the nodes read and make only.       *)
Links(nodes) ==
  [i \in DOMAIN nodes |-> [name |-> nodes[i].name, ins |-> nodes[i].ins, out |-> nodes[i].out]]

Touch(g)      == [g EXCEPT !.cache = IF @ = <<>> THEN <<Links(g.nodes)>> ELSE @]
Invalidate(g) == [g EXCEPT !.cache = <<>>]
Adjacency(g)  == IF g.cache = <<>> THEN Links(g.nodes) ELSE g.cache[1]

(* The node that the maps give for t, if it is still in the graph: a later    *)
(* node in graph.nodes overrides an earlier one.                           *)
ProducerBy(links, nodes, t) ==
  LET made == {i \in DOMAIN links : links[i].out = t}
  IN  IF made = {} THEN NoNode ELSE Lookup(nodes, links[Max(made)].name)

(* A node that reads t twice is listed twice. *)
ConsumersBy(links, nodes, t) ==
  LET readings == FlattenSeq([i \in DOMAIN links |->
                    [j \in 1 .. Cardinality({k \in DOMAIN links[i].ins : links[i].ins[k] = t})
                       |-> Lookup(nodes, links[i].name)]])
  IN  Pick(readings, LAMBDA x : x # NoNode)

Producer(g, t)  == ProducerBy(Adjacency(g), g.nodes, t)
Consumers(g, t) == ConsumersBy(Adjacency(g), g.nodes, t)

OnlyConsumer(g, t) ==
  IF Len(Consumers(g, t)) = 1 THEN Head(Consumers(g, t)) ELSE NoNode

(* topological_order: the queue and the result after k iterations, for nodes  *)
(* that need those in needs[n] before them.                                *)
Free(needs, done) == {n \in DOMAIN needs : needs[n] \subseteq ToSet(done)}

Popped(names, needs, s) ==
  LET done == Append(s.order, Head(s.queue))
  IN  [queue |-> Tail(s.queue) \o Among(names, Free(needs, done) \ Free(needs, s.order)),
       order |-> done]

Iterations(names, needs) ==
  LET S[k \in 0 .. Len(names)] ==
        IF k = 0 THEN [queue |-> Among(names, Free(needs, <<>>)), order |-> <<>>]
        ELSE LET s == S[k - 1] IN IF s.queue = <<>> THEN s ELSE Popped(names, needs, s)
  IN  S

NamesInOrder(g) == [i \in DOMAIN g.nodes |-> g.nodes[i].name]
Needs(g) ==
  [n \in NodeNames(g) |->
     {p.name : p \in {Producer(g, t) : t \in ToSet(NodeOf(g, n).ins)} \ {NoNode}}]

TopoOrder(g) == Iterations(NamesInOrder(g), Needs(g))[Len(g.nodes)].order

IsAcyclic(g) == Len(TopoOrder(g)) = Len(g.nodes)

-------------------------------------------------------------------------------
(* Mutations.  Every one of them ends with invalidate_cache.                *)

(* Reads of the tensors in from become reads of to, in the nodes affected and  *)
(* among the outputs of the graph.                                         *)
Redirected(seq, from, to) == [i \in DOMAIN seq |-> IF seq[i] \in from THEN to ELSE seq[i]]
Reading(node, operands) ==
  [name |-> node.name, op |-> node.op, ins |-> operands, out |-> node.out, attrs |-> node.attrs]

Rewire(g, from, to, affected) ==
  [g EXCEPT !.nodes = [i \in DOMAIN @ |->
                         IF @[i].name \in affected
                         THEN Reading(@[i], Redirected(@[i].ins, from, to)) ELSE @[i]],
            !.outputs = Redirected(@, from, to)]

Without(g, names) == [g EXCEPT !.nodes = Among(@, {x \in ToSet(@) : x.name \notin names})]

(* insert_node: a dict keeps the place of a key that it has already.        *)
insert_node(g, node, tensors) ==
  Invalidate([g EXCEPT
    !.nodes = IF node.name \in NodeNames(g)
              THEN [i \in DOMAIN @ |-> IF @[i].name = node.name THEN node ELSE @[i]]
              ELSE Append(@, node),
    !.tensors = [t \in DOMAIN tensors \cup DOMAIN @ |->
                   IF t \in DOMAIN tensors THEN tensors[t] ELSE @[t]]])

Referenced(g) ==
  ToSet(g.inputs) \cup ToSet(g.outputs)
    \cup UNION {ToSet(g.nodes[i].ins) \cup {g.nodes[i].out} : i \in DOMAIN g.nodes}

DropOrphans(g) == [g EXCEPT !.tensors = Restrict(@, DOMAIN @ \cap Referenced(g))]

(* What leaves a subgraph: outputs that no node of it reads. *)
ExternalOutputs(old) ==
  {x.out : x \in old} \ UNION {ToSet(x.ins) : x \in old}

(* Mutant: graph.outputs is not rewired. *)
replace_subgraph_InnerOnly(g, names, node, tensors) ==
  LET old == {x \in ToSet(g.nodes) : x.name \in names}
      rewired == Rewire(g, ExternalOutputs(old), node.out, NodeNames(g) \ names)
  IN  DropOrphans(insert_node(Without([rewired EXCEPT !.outputs = g.outputs], names),
                              node, tensors))

replace_subgraph(g, names, node, tensors) ==
  LET old == {x \in ToSet(g.nodes) : x.name \in names}
      rewired == Rewire(g, ExternalOutputs(old), node.out, NodeNames(g) \ names)
  IN  DropOrphans(insert_node(Without(rewired, names), node, tensors))

-------------------------------------------------------------------------------
(* Nodes from which a graph output is reached, and the tensors met.          *)
Reachable(g) ==
  LET S[k \in 0 .. Len(g.nodes)] ==
        IF k = 0 THEN ToSet(g.outputs)
        ELSE LET met == S[k - 1] IN met \cup UNION {ToSet(Producer(g, t).ins) : t \in met}
      reached == S[Len(g.nodes)]
  IN  [nodes |-> {Producer(g, t).name : t \in reached} \cap NodeNames(g),
       tensors |-> reached]
===============================================================================
