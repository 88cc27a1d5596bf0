------------------------------ MODULE GraphEdits ------------------------------
(***************************************************************************)
(* Pure functions on workflow graphs (crates/graph, canvas_edit.rs of      *)
(* crates/agent, prepare_ops and the semantics helpers of crates/server):  *)
(* validation, the proposal operations, the topological order and the      *)
(* plan, the embedded semantics and their sidecar, the migration of legacy *)
(* graphs, and the translation of the agent's canvas edits.                *)
(*                                                                         *)
(* An operation that fails gives Refused; which error it is makes no       *)
(* difference to the graph.  Positions, sizes and titles are left out (the *)
(* layout routes are in Canvas.tla), and so are the values of parameters:  *)
(* a node has a set of keys.                                               *)
(***************************************************************************)
EXTENDS Catalog, SequencesExt, TLC

CONSTANT Refused    \* the outcome of a request that is turned down

\* Catalog revisions are numbers; a legacy graph has none.
NoRevision == 0

\* What is left of a sequence when only the members of a set are retained.
Among(seq, set) ==
    LET kept[i \in 0..Len(seq)] ==
            IF i = 0 THEN <<>>
            ELSE IF seq[i] \in set THEN Append(kept[i - 1], seq[i]) ELSE kept[i - 1]
    IN  kept[Len(seq)]

(***************************************************************************)
(* Graphs: [rev, nodes, edges].  A node is [type, params, model, sem] where *)
(* model is the "model" parameter legacy graphs carry; an edge is          *)
(* [from, to, type] with ends <<node, port>>.                              *)
(***************************************************************************)
Ids(g) == DOMAIN g.nodes
\* The edges into a node, by their places in the list.
Into(g, id) == {k \in DOMAIN g.edges : g.edges[k].to[1] = id}
Sources(g, id) == {g.edges[k].from[1] : k \in Into(g, id)}
Wired(g, id) == {g.edges[k].to[2] : k \in Into(g, id)}
Known(node) == node.type \in Types
CapabilityOf(node) == Registry[node.type].capability

\* The node half of validate_graph_inner: its parameters fit the registry and
\* each required input is connected or given as a parameter.  "model" is no
\* parameter of any registry schema.
NodeFits(g, id) ==
    LET node == g.nodes[id]
    IN  /\ NodeParamsFit(node.type, node.params)
        /\ node.model = None
        /\ \A p \in Elements(Registry[node.type].inputs) :
               p.required => p.name \in Wired(g, id) \cup node.params

\* The edge half, but for the endpoints: both ports exist and the types agree.
EdgeFits(g, e) ==
    LET out == OutputPort(g.nodes[e.from[1]].type, e.from[2])
        input == InputPort(g.nodes[e.to[1]].type, e.to[2])
    IN  out # None /\ input # None /\ EdgeTypeMatches(out, input, e.type)

\* input_connections: a One input takes a single edge.
OneInputTwice(g, Judged(_)) ==
    \E i, j \in DOMAIN g.edges :
        /\ i < j /\ Judged(g.edges[i]) /\ Judged(g.edges[j])
        /\ g.edges[i].to = g.edges[j].to
        /\ ~InputPort(g.nodes[g.edges[i].to[1]].type, g.edges[i].to[2]).many

(***************************************************************************)
(* topological_order: Kahn's algorithm, the smallest ready id first.  The  *)
(* counts are of edges, so parallel edges count and uncount alike.         *)
(***************************************************************************)
Between(g, source, target) == {k \in Into(g, target) : g.edges[k].from[1] = source}

Smallest(set) == CHOOSE x \in set : \A y \in set : x <= y

Unordered(g) == [order |-> <<>>,
                 incoming |-> [id \in Ids(g) |-> Cardinality(Into(g, id))],
                 ready |-> {id \in Ids(g) : Into(g, id) = {}}]

\* Mutant: a node is ready as soon as one source is done.
WithPlacedAnySource(g, s, id) ==
    [order |-> Append(s.order, id),
     incoming |-> [x \in Ids(g) |-> s.incoming[x] - Cardinality(Between(g, id, x))],
     ready |-> (s.ready \ {id})
               \cup {x \in Ids(g) : Between(g, id, x) # {} /\ x \notin Elements(s.order)}]

WithPlaced(g, s, id) ==
    [order |-> Append(s.order, id),
     incoming |-> [x \in Ids(g) |-> s.incoming[x] - Cardinality(Between(g, id, x))],
     ready |-> (s.ready \ {id})
               \cup {x \in Ids(g) : /\ Between(g, id, x) # {}
                                    /\ s.incoming[x] = Cardinality(Between(g, id, x))}]

Popped(g, s) == IF s.ready = {} THEN s ELSE WithPlaced(g, s, Smallest(s.ready))

TopologicalOrder(g) ==
    LET after[k \in 0..Cardinality(Ids(g))] ==
            IF k = 0 THEN Unordered(g) ELSE Popped(g, after[k - 1])
    IN  after[Cardinality(Ids(g))].order

HasCycle(g) == Len(TopologicalOrder(g)) # Cardinality(Ids(g))

\* validate_graph_inner; the lenient form, for migrations, skips the nodes of
\* unknown types and the edges that touch one.
ValidFor(g, lenient) ==
    LET judged(e) == Known(g.nodes[e.from[1]]) /\ Known(g.nodes[e.to[1]])
    IN  /\ lenient \/ \A id \in Ids(g) : Known(g.nodes[id])
        /\ \A id \in Ids(g) : Known(g.nodes[id]) => NodeFits(g, id)
        /\ \A e \in Elements(g.edges) : {e.from[1], e.to[1]} \subseteq Ids(g)
        /\ \A e \in Elements(g.edges) : judged(e) => EdgeFits(g, e)
        /\ ~OneInputTwice(g, judged)
        /\ ~HasCycle(g)

Valid(g) == ValidFor(g, FALSE)

(***************************************************************************)
(* Proposal operations                                                     *)
(***************************************************************************)
\* The parts of a graph or a node an operation replaces.
WithEdges(g, edges) == [rev |-> g.rev, nodes |-> g.nodes, edges |-> edges]
WithNode(g, id, node) ==
    [rev |-> g.rev, edges |-> g.edges,
     nodes |-> [x \in Ids(g) \cup {id} |-> IF x = id THEN node ELSE g.nodes[x]]]
WithParams(node, params) ==
    [type |-> node.type, params |-> params, model |-> node.model, sem |-> node.sem]
WithSem(node, sem) ==
    [type |-> node.type, params |-> node.params, model |-> node.model, sem |-> sem]

Apart(g, id) == {e \in Elements(g.edges) : id \notin {e.from[1], e.to[1]}}
WithoutNode(g, id) ==
    [rev |-> g.rev, nodes |-> [x \in Ids(g) \ {id} |-> g.nodes[x]],
     edges |-> Among(g.edges, Apart(g, id))]

\* spawn_derived: the node and one lineage edge whose ports the registry picks.
LineagePorts(g, o) == MatchingConnectionPorts(g.nodes[o.from].type, o.node.type)
CanSpawn(g, o) ==
    /\ o.id # o.from /\ o.from \in Ids(g) /\ o.id \notin Ids(g)
    /\ Known(g.nodes[o.from]) /\ Known(o.node)
    /\ LineagePorts(g, o) # None
SpawnDerived(g, o) ==
    LET ports == LineagePorts(g, o)
    IN  WithNode(WithEdges(g, Append(g.edges, [from |-> <<o.from, ports.out.name>>,
                                               to |-> <<o.id, ports.input.name>>,
                                               type |-> ports.out.type])), o.id, o.node)

\* The errors apply_op_in_place returns before it changes anything.
Accepts(g, o) ==
    CASE o.op = "add_node" -> o.id \notin Ids(g)
      [] o.op = "add_edge" -> TRUE
      [] o.op = "remove_edge" -> o.edge \in Elements(g.edges)
      [] o.op = "spawn_node" -> CanSpawn(g, o)
      [] OTHER -> o.id \in Ids(g)

\* What it changes.  remove_edge takes every edge equal to the one named.
Edited(g, o) ==
    CASE o.op = "add_node" -> WithNode(g, o.id, o.node)
      [] o.op = "remove_node" -> WithoutNode(g, o.id)
      [] o.op = "set_param" ->
            WithNode(g, o.id, WithParams(g.nodes[o.id], g.nodes[o.id].params \cup {o.key}))
      [] o.op = "add_edge" -> WithEdges(g, Append(g.edges, o.edge))
      [] o.op = "remove_edge" -> WithEdges(g, Among(g.edges, Elements(g.edges) \ {o.edge}))
      [] o.op = "set_semantics" -> WithNode(g, o.id, WithSem(g.nodes[o.id], o.sem))
      [] o.op = "spawn_node" -> SpawnDerived(g, o)

Done(g) == [code |-> "OK", graph |-> g]
ApplyOp(g, o) == IF Accepts(g, o) THEN Done(Edited(g, o)) ELSE Refusal("OP_REFUSED")

\* Operations in their order, until one is refused.
AndThen(result, o) == IF IsFound(result) THEN ApplyOp(result.graph, o) ELSE result
ApplyOps(base, ops) ==
    LET after[i \in 0..Len(ops)] == IF i = 0 THEN Done(base) ELSE AndThen(after[i - 1], ops[i])
    IN  after[Len(ops)]

(***************************************************************************)
(* Semantics: the entries embedded in the nodes, and the sidecar, the      *)
(* version's semantics_json column that indexes them.                      *)
(***************************************************************************)
Embedded(g) == {id \in Ids(g) : g.nodes[id].sem # None}
CollectedSemantics(g) == [id \in Embedded(g) |-> g.nodes[id].sem]

\* validate_semantics: the catalog's own revision, a valid structure, and an
\* entry that fits on every executable node and on no other.
ValidSemantics(g, rev) ==
    /\ g.rev = rev
    /\ Valid(g)
    /\ \A id \in Ids(g) :
           LET node == g.nodes[id]
           IN  IF CapabilityOf(node) = None THEN node.sem = None
               ELSE node.sem # None /\ EntryFits(node.type, node.params, Wired(g, id), node.sem)

\* layer_sidecar_semantics: the sidecar's entries replace the embedded ones.
Layered(g, sidecar, rev) ==
    IF ~(DOMAIN sidecar \subseteq Ids(g)) THEN Refused
    ELSE [rev |-> rev, edges |-> g.edges,
          nodes |-> [id \in Ids(g) |-> IF id \in DOMAIN sidecar
                                       THEN WithSem(g.nodes[id], sidecar[id]) ELSE g.nodes[id]]]

\* A legacy graph without any semantics: canonical_semantics_graph has none for it.
Unmigrated(g, sidecar) == g.rev = NoRevision /\ sidecar = None /\ Embedded(g) = {}

\* canonical_semantics_graph of any other graph.
CanonicalSemanticsGraph(g, sidecar, rev) ==
    IF g.rev = NoRevision /\ sidecar # None THEN Layered(g, sidecar, rev) ELSE g

\* derive_semantics_json: the sidecar of a version made from one with the given
\* sidecar; entries of nodes that are gone are dropped first.
IndexOf(canonical, rev) ==
    IF canonical = Refused THEN Refused
    ELSE IF ~ValidSemantics(canonical, rev) THEN Refused
    ELSE CollectedSemantics(canonical)

DeriveSemantics(sidecar, after, rev) ==
    LET kept == IF sidecar = None THEN None
                ELSE [id \in DOMAIN sidecar \cap Ids(after) |-> sidecar[id]]
    IN  IF Unmigrated(after, kept) THEN None
        ELSE IndexOf(CanonicalSemanticsGraph(after, kept, rev), rev)

\* version_semantics: what a run of the version resolves its steps by.
VersionSemantics(version) ==
    IF Embedded(version.graph) # {} THEN CollectedSemantics(version.graph)
    ELSE IF version.sidecar # None THEN version.sidecar
    ELSE <<>>

EntryOf(semantics, id) == IF id \in DOMAIN semantics THEN semantics[id] ELSE None

(***************************************************************************)
(* Migration of a legacy graph                                             *)
(***************************************************************************)
\* migrate_executable_node: a declared model becomes a pin, no model the policy
\* default, when the connector (all of them for None) can resolve it.
EntryFor(node, result) ==
    LET capability == CapabilityOf(node)
    IN  CASE ~IsFound(result) -> Refused
          [] node.model = None /\ capability \notin DOMAIN DefaultOf -> Refused
          [] node.model # None /\ IsFound(result) -> Pinned(capability, result.binding)
          [] OTHER -> Policy(capability)

MigratedEntry(node, connector) ==
    EntryFor(node, Resolve(CapabilityOf(node), node.model, connector,
                           IF connector = None THEN Connectors ELSE {connector}))

WithoutModel(node) ==
    [type |-> node.type, params |-> node.params, model |-> None, sem |-> node.sem]

\* migrate_v1_with_connector: whatever entry an executable node had is replaced.
MigrateV1(g, connector, rev) ==
    LET executable(id) == CapabilityOf(g.nodes[id]) # None
    IN  IF \E id \in Ids(g) : \/ ~Known(g.nodes[id])
                              \/ executable(id) /\ MigratedEntry(g.nodes[id], connector) = Refused
        THEN Refused
        ELSE [rev |-> rev, edges |-> g.edges,
              nodes |-> [id \in Ids(g) |->
                  IF executable(id)
                  THEN WithSem(WithoutModel(g.nodes[id]), MigratedEntry(g.nodes[id], connector))
                  ELSE g.nodes[id]]]

\* validate_legacy_migration_source: the source must be sound but for the "model"
\* parameters the migration takes away and the nodes it cannot know.
LegacySourceFits(g) ==
    LET node(id) == g.nodes[id]
        migrates(id) == Known(node(id)) /\ CapabilityOf(node(id)) # None
    IN  ValidFor([rev |-> g.rev, edges |-> g.edges,
                  nodes |-> [id \in Ids(g) |-> IF migrates(id) THEN WithoutModel(node(id))
                                               ELSE node(id)]], TRUE)

(***************************************************************************)
(* Canvas edits of the agent                                               *)
(***************************************************************************)
\* resolve_semantics, merge_defaults: an executable node is pinned at once, to the
\* model asked for or to the default, and gets the parameters of its binding.
NodeRunning(o, result) ==
    IF ~IsFound(result) THEN Refused
    ELSE [type |-> o.type, params |-> o.params \cup result.binding.defaults,
          model |-> None, sem |-> Pinned(Registry[o.type].capability, result.binding)]

\* The add_node arm of translate_op.
AddedNode(o, preference, up) ==
    CASE o.type \notin Types -> Refused
      [] o.type \in Types /\ Registry[o.type].capability = None ->
            [type |-> o.type, params |-> o.params, model |-> None, sem |-> None]
      [] OTHER -> NodeRunning(o, Resolve(Registry[o.type].capability, o.query, preference, up))

\* typed_edge: the two handles exist and have the same type, reference inputs too.
EdgeOfPorts(o, out, input) ==
    IF out = None \/ input = None THEN Refused
    ELSE IF out.type # input.type THEN Refused
    ELSE [from |-> o.from, to |-> o.to, type |-> out.type]

TypedEdge(g, o) ==
    LET known == {o.from[1], o.to[1]} \subseteq Ids(g)
                 /\ Known(g.nodes[o.from[1]]) /\ Known(g.nodes[o.to[1]])
    IN  IF ~known THEN Refused
        ELSE EdgeOfPorts(o, OutputPort(g.nodes[o.from[1]].type, o.from[2]),
                            InputPort(g.nodes[o.to[1]].type, o.to[2]))

\* translate_op: the proposal operations one edit stands for, in the graph the
\* earlier edits of the plan have made; none of them when the edit is turned down.
AddNodeOps(o, node) ==
    IF node = Refused THEN Refused ELSE <<[op |-> "add_node", id |-> o.id, node |-> node]>>
EdgeOps(op, edge) ==
    IF edge \in {Refused, None} THEN Refused ELSE <<[op |-> op, edge |-> edge]>>

TranslateOp(g, o, preference, up) ==
    CASE o.edit = "add_node" -> AddNodeOps(o, AddedNode(o, preference, up))
      [] o.edit = "update_node" ->
            IF o.id \notin Ids(g) THEN Refused
            ELSE SetToSeq({[op |-> "set_param", id |-> o.id, key |-> k] : k \in o.params})
      [] o.edit = "remove_node" ->
            IF o.id \notin Ids(g) THEN Refused ELSE <<[op |-> "remove_node", id |-> o.id]>>
      [] o.edit = "connect" -> EdgeOps("add_edge", TypedEdge(g, o))
      [] o.edit = "disconnect" ->
            EdgeOps("remove_edge", First(g.edges, LAMBDA e : e.from = o.from /\ e.to = o.to))

\* compile_canvas_edit_with: each edit is translated and applied in turn; the
\* parameters of the result are checked, its structure is not.
Extended(acc, ops, result) ==
    IF IsFound(result) THEN [preview |-> result.graph, ops |-> acc.ops \o ops] ELSE Refused
Translated(acc, ops) ==
    IF ops = Refused THEN Refused ELSE Extended(acc, ops, ApplyOps(acc.preview, ops))
WithFittingParams(compiled) ==
    LET fits(node) == Known(node) /\ NodeParamsFit(node.type, node.params) /\ node.model = None
    IN  IF compiled = Refused THEN Refused
        ELSE IF \E id \in Ids(compiled.preview) : ~fits(compiled.preview.nodes[id]) THEN Refused
        ELSE compiled

AfterEdit(acc, o, preference, up) ==
    IF acc = Refused THEN Refused
    ELSE Translated(acc, TranslateOp(acc.preview, o, preference, up))

TranslatePlan(base, plan, preference, up) ==
    LET acc[i \in 0..Len(plan)] ==
            IF i = 0 THEN [preview |-> base, ops |-> <<>>]
            ELSE AfterEdit(acc[i - 1], plan[i], preference, up)
    IN  acc[Len(plan)]

CompileCanvasEdit(base, plan, preference, up) ==
    IF plan = <<>> THEN Refused ELSE WithFittingParams(TranslatePlan(base, plan, preference, up))

\* preview_proposal and apply_proposal on the version the edit was compiled for.
\* Mutant: what the compiler previewed is applied as it is.
ApplyProposalUnvalidated(base, ops) ==
    LET result == ApplyOps(base, ops) IN IF IsFound(result) THEN result.graph ELSE Refused

ApplyProposal(base, ops) ==
    LET result == ApplyOps(base, ops)
        valid == IsFound(result) /\ Valid(result.graph)
    IN  IF valid THEN result.graph ELSE Refused

(***************************************************************************)
(* Manual operations of the workbench                                      *)
(***************************************************************************)
\* prepare_ops: the first set_semantics on a graph without a revision migrates
\* the whole graph first; one request sets a parameter of a node once.
\* Mutant: a graph that has its revision is migrated again.
PreparedAgain(g, o, rev) == IF o.op = "set_semantics" THEN MigrateV1(g, None, rev) ELSE g

Prepared(g, o, rev) ==
    IF o.op = "set_semantics" /\ g.rev = NoRevision THEN MigrateV1(g, None, rev) ELSE g
AppliedIfReady(g, o) == IF g = Refused THEN Refusal("MIGRATION_REFUSED") ELSE ApplyOp(g, o)

AndThenPrepared(result, o, rev) ==
    IF IsFound(result) THEN AppliedIfReady(Prepared(result.graph, o, rev), o) ELSE result

PreparedOps(base, ops, rev) ==
    LET after[i \in 0..Len(ops)] ==
            IF i = 0 THEN Done(base) ELSE AndThenPrepared(after[i - 1], ops[i], rev)
    IN  after[Len(ops)]

PrepareOps(base, ops, rev) ==
    LET twice == \E i, j \in DOMAIN ops : i < j /\ ops[i].op = "set_param" /\ ops[i] = ops[j]
    IN  IF ops = <<>> \/ twice THEN Refusal("BAD_REQUEST") ELSE PreparedOps(base, ops, rev)

\* The node ids a request names: the only ones it was asked to change.
NamedBy(ops) ==
    UNION {CASE o.op \in {"add_edge", "remove_edge"} -> {o.edge.from[1], o.edge.to[1]}
             [] OTHER -> {o.id} : o \in Elements(ops)}

(***************************************************************************)
(* Plans                                                                   *)
(***************************************************************************)
\* compile_plan: one step per node in topological order, with the sources of its
\* incoming edges by port.
CompilePlan(g) ==
    LET order == TopologicalOrder(g)
    IN  [k \in DOMAIN order |->
            [node |-> order[k], capability |-> CapabilityOf(g.nodes[order[k]]),
             inputs |-> {[port |-> g.edges[n].to[2], source |-> g.edges[n].from] :
                            n \in Into(g, order[k])}]]

\* StepDag::from_plan: which steps a step waits for, by index.
Upstream(plan, k) ==
    {j \in DOMAIN plan : \E i \in plan[k].inputs : i.source[1] = plan[j].node}
Downstream(plan, j) == {k \in DOMAIN plan : j \in Upstream(plan, k)}

\* attach_resolved_bindings: the bindings frozen into the plan of a run on a
\* catalog connector, or Refused when a step cannot be resolved.
ResolvedStep(step, connector, semantics) ==
    ResolveStepBinding(step.capability, connector, EntryOf(semantics, step.node))
Executable(plan) == {k \in DOMAIN plan : plan[k].capability # None}
Resolvable(plan, connector, semantics) ==
    \A k \in Executable(plan) : IsFound(ResolvedStep(plan[k], connector, semantics))

AttachResolvedBindings(plan, connector, semantics) ==
    IF Resolvable(plan, connector, semantics)
    THEN [k \in Executable(plan) |-> ResolvedStep(plan[k], connector, semantics).binding]
    ELSE Refused
==============================================================================
