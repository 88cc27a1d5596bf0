----------------------------- MODULE GraphVersions -----------------------------
(***************************************************************************)
(* The history of a workspace's graph: every request that makes a version  *)
(* out of another one (the agent's canvas edits, the workbench's ops, a    *)
(* migration, a restore), what the version says its nodes run on, and the  *)
(* compile-intent request, which only answers.                             *)
(*                                                                         *)
(* A request is one step; the races between requests, the version files    *)
(* and their commit are in Versions.tla.  A new release may carry another  *)
(* catalog, whose revision the graphs made before do not have.             *)
(***************************************************************************)
EXTENDS IntentCompiler

CONSTANTS
    StartGraphs,    \* set of [graph, sidecar] a workspace may begin with or have inherited
    AgentPlans,     \* the canvas edits the agent may submit: sequences of edits
    OpRequests,     \* the op lists the workbench may post: sequences of ops
    Intents,        \* the intents that may be compiled
    MaxVersions,    \* bound on the workspace's history
    MaxRevision     \* bound on the catalog revision

\* What a request is before anything of it is judged: operations and edits of the
\* kinds their routes parse, numbered nodes, finitely many parameters.
Kinds == {"add_node", "remove_node", "set_param", "add_edge", "remove_edge", "set_semantics",
          "spawn_node"}
EditKinds == {"add_node", "update_node", "remove_node", "connect", "disconnect"}

IsOp(o) == o.op \in Kinds /\ (o.op \in {"add_node", "spawn_node"} => o.id \in Nat)
IsEdit(o) ==
    /\ o.edit \in EditKinds
    /\ o.edit = "add_node" => o.id \in Nat
    /\ o.edit = "update_node" => IsFiniteSet(o.params)

\* An intent's stages are numbered, and so are the input nodes made for them.
IsStage(stage) ==
    /\ stage.id \in Nat /\ InputNodeOf[stage.id] \in Nat
    /\ stage.from \in Seq(Elements(stage.from))
    /\ IsFiniteSet(stage.params)

\* A stored graph may be unsound, but it is a graph: numbered nodes and a list of
\* edges; and the sidecar of a migrated one only indexes what its nodes embed.
GraphShape(g) ==
    /\ IsFiniteSet(Ids(g)) /\ Ids(g) \subseteq Nat
    /\ g.edges \in Seq(Elements(g.edges))
SidecarFits(g, sidecar) ==
    g.rev # NoRevision => sidecar = None \/ DOMAIN sidecar \subseteq Embedded(g)

ASSUME RequestsParse ==
    /\ \A s \in StartGraphs : GraphShape(s.graph) /\ SidecarFits(s.graph, s.sidecar)
    /\ \A ops \in OpRequests :
           ops \in Seq(Elements(ops)) /\ \A i \in 1..Len(ops) : IsOp(ops[i])
    /\ \A plan \in AgentPlans :
           plan \in Seq(Elements(plan)) /\ \A i \in 1..Len(plan) : IsEdit(plan[i])
    /\ \A intent \in Intents :
           /\ intent.stages \in Seq(Elements(intent.stages))
           /\ \A i \in 1..Len(intent.stages) : IsStage(intent.stages[i])

VARIABLES
    versions,       \* the workspace's versions: [graph, sidecar, by]; the last is current
    revision,       \* the revision of the catalog the server was built with
    proposal        \* the answer of the last compile-intent request, or None

vars == <<versions, revision, proposal>>

Current == versions[Len(versions)]
CanGrow == Len(versions) < MaxVersions

\* by says what made a version: the kind of request, the connector it was made for
\* and the nodes it named.
By(kind, connector, named) == [kind |-> kind, connector |-> connector, named |-> named]

Commit(graph, sidecar, by) ==
    /\ versions' = Append(versions, [graph |-> graph, sidecar |-> sidecar, by |-> by])
    /\ proposal' = None
    /\ UNCHANGED revision

Init ==
    /\ \E s \in StartGraphs :
           versions = <<[graph |-> s.graph, sidecar |-> s.sidecar, by |-> By("start", None, {})]>>
    /\ revision = 1
    /\ proposal = None

\* canvas_edit_readiness: with a catalog connector selected, edits prefer it and
\* the healthy ones are up; a development provider takes the whole catalog.
Readiness(connector, up) ==
    IF connector = None THEN up = Connectors ELSE connector \in up

\* handle_intent_turn: the edit is compiled on the current graph, previewed and
\* applied; the sidecar it stores is what the preview embeds, unvalidated.
AgentEdit(plan, connector, up) ==
    /\ CanGrow /\ Readiness(connector, up)
    /\ \E compiled \in {CompileCanvasEdit(Current.graph, plan, connector, up)} \ {Refused} :
       \E after \in {ApplyProposal(Current.graph, compiled.ops)} \ {Refused} :
           Commit(after, CollectedSemantics(compiled.preview),
                  By("agent", connector, NamedBy(compiled.ops)))

\* apply_workspace_ops: prepared, validated, and refused unless the semantics of
\* the result are whole.
ManualOps(ops) ==
    /\ CanGrow
    /\ \E result \in {PrepareOps(Current.graph, ops, revision)} :
       /\ IsFound(result)
       /\ \E sidecar \in {DeriveSemantics(Current.sidecar, result.graph, revision)} \ {Refused} :
           /\ Valid(result.graph)
           /\ Commit(result.graph, sidecar, By("manual", None, NamedBy(ops)))

\* assess_current_version and apply_version_migration, for a graph with no
\* semantics anywhere: a sound source, every node resolvable on the connector, and
\* a sound result.
Migrate(connector) ==
    /\ CanGrow
    /\ Unmigrated(Current.graph, Current.sidecar)
    /\ LegacySourceFits(Current.graph)
    /\ \E migrated \in {MigrateV1(Current.graph, connector, revision)} \ {Refused} :
           /\ ValidSemantics(migrated, revision)
           /\ Commit(migrated, CollectedSemantics(migrated), By("migration", connector, {}))

\* create_restore_version, for a restore or an undo to an earlier version.
Restore(i) ==
    /\ CanGrow
    /\ \E sidecar \in {DeriveSemantics(versions[i].sidecar, versions[i].graph, revision)} \ {Refused} :
           Commit(versions[i].graph, sidecar, By("restore", None, Ids(versions[i].graph)))

\* compile_intent: an answer about the current graph; no connector is preferred.
\* An answer does not depend on the one before it: one is kept between two versions.
Compile(intent, up) ==
    /\ proposal = None
    /\ \E answer \in {CompileIntent(intent, Current.graph, None, up, revision)} \ {Refused} :
           proposal' = [intent |-> intent, base |-> answer.base, target |-> answer.target,
                        ops |-> answer.ops]
    /\ UNCHANGED <<versions, revision>>

\* A release with another catalog: every revision is a hash of its content.
Release ==
    /\ revision < MaxRevision
    /\ revision' = revision + 1
    /\ proposal' = None
    /\ UNCHANGED versions

Next ==
    \/ \E plan \in AgentPlans, connector \in Connectors \cup {None}, up \in SUBSET Connectors :
           AgentEdit(plan, connector, up)
    \/ \E ops \in OpRequests : ManualOps(ops)
    \/ \E connector \in Connectors : Migrate(connector)
    \/ \E i \in 1..(Len(versions) - 1) : Restore(i)
    \/ \E intent \in Intents, up \in SUBSET Connectors : Compile(intent, up)
    \/ Release

Spec == Init /\ [][Next]_vars

(***************************************************************************)
(* Properties                                                              *)
(***************************************************************************)
\* No cycle, said without the algorithm: in every set of nodes some node takes
\* nothing from that set.
Acyclic(g) ==
    \A set \in (SUBSET Ids(g)) \ {{}} :
        \E id \in set : Sources(g, id) \cap set = {}

\* The current version's graph can be executed: known nodes, no dangling edge, every
\* required input fed, at most one edge into a single input, and no cycle.
\* compile_canvas_edit checks none of this and prepare_ops little of it
\* (crates/graph/src/lib.rs validate_graph_inner); what a workspace began with may
\* be less than sound, and a restore brings back what the history already had.
VersionsAreSound ==
    LET g == Current.graph
        inherited == Current.by.kind = "start"
                     \/ \E j \in 1..(Len(versions) - 1) : versions[j].graph = g
    IN  inherited \/
        /\ \A id \in Ids(g) :
               /\ Known(g.nodes[id])
               /\ \A p \in Elements(Registry[g.nodes[id].type].inputs) :
                      /\ p.required => p.name \in Wired(g, id) \cup g.nodes[id].params
                      /\ p.many \/ \A k, n \in Into(g, id) :
                             g.edges[k].to = g.edges[n].to /\ g.edges[k].to[2] = p.name => k = n
        /\ \A e \in Elements(g.edges) : {e.from[1], e.to[1]} \subseteq Ids(g)
        /\ Acyclic(g)

\* The plan of the current version lists every node once, after everything that
\* feeds it, and the executor's own dependency counts (step_dag.rs) let every step
\* become ready: a step only waits for steps before it, also when two nodes are
\* joined by several edges (compile_plan, topological_order).
PlansFollowTheEdges ==
    LET g == Current.graph
        plan == CompilePlan(g)
    IN  Valid(g) =>
            /\ {plan[k].node : k \in DOMAIN plan} = Ids(g)
            /\ Len(plan) = Cardinality(Ids(g))
            /\ \A k \in DOMAIN plan :
                   /\ Cardinality({plan[j].node : j \in Upstream(plan, k)})
                          = Cardinality(Sources(g, plan[k].node))
                   /\ \A j \in Upstream(plan, k) : j < k /\ k \in Downstream(plan, j)

\* What the agent pins for a connector a run on that connector resolves to: of the
\* nodes that are new in a version the agent made for the selected provider, none
\* is refused, or run on another model, when the run freezes its bindings
\* (canvas_edit.rs resolve_semantics against run/src/resolved.rs
\* attach_resolved_bindings).
AgentPinsRun ==
    (Current.by.kind = "agent" /\ Current.by.connector # None) =>
        LET new == Ids(Current.graph) \ Ids(versions[Len(versions) - 1].graph)
            plan == CompilePlan(Current.graph)
            steps == [k \in {j \in DOMAIN plan : plan[j].node \in new} |-> plan[k]]
            semantics == VersionSemantics(Current)
            frozen == AttachResolvedBindings(steps, Current.by.connector, semantics)
        IN  /\ Resolvable(steps, Current.by.connector, semantics)
            /\ \A k \in DOMAIN frozen :
                   LET entry == EntryOf(semantics, steps[k].node)
                   IN  IsPinned(entry) /\ frozen[k].id = entry.binding

\* Applying a compiled proposal to the graph it was compiled for gives the compiled
\* graph: its nodes with their types and semantics, at least their parameters, and
\* its edges (compiler/src/lib.rs compile, proposal_diff.rs).  Two cases in which
\* the diff falls short are left out: a node replaced by one of another type takes
\* edges with it that are not added again, and an edge the current graph has twice
\* is removed twice.
ProposalsConverge ==
    proposal # None =>
        LET outcome == ApplyOps(proposal.base, proposal.ops)
            result == outcome.graph
            target == proposal.target
            replaced == \E id \in Ids(target) \cap Ids(proposal.base) :
                            proposal.base.nodes[id].type # target.nodes[id].type
            doubled == Cardinality(Elements(proposal.base.edges)) # Len(proposal.base.edges)
        IN  replaced \/ doubled \/
            /\ IsFound(outcome)
            /\ Ids(result) = Ids(target)
            /\ Elements(result.edges) = Elements(target.edges)
            /\ \A id \in Ids(target) :
                   /\ result.nodes[id].type = target.nodes[id].type
                   /\ result.nodes[id].sem = target.nodes[id].sem
                   /\ target.nodes[id].params \subseteq result.nodes[id].params

\* A pinned node stays pinned to its model through every request that does not name
\* it, as runs of the version see it.
KeepsPins(before, after) ==
    \A id \in Ids(before.graph) \cap Ids(after.graph) :
        LET was == EntryOf(VersionSemantics(before), id)
        IN  (IsPinned(was) /\ id \notin after.by.named) =>
                EntryOf(VersionSemantics(after), id) = was

NewVersion == Len(versions') > Len(versions)

\* Once a graph carries a catalog revision, ops, canvas edits and migrations keep
\* the pins of the nodes they do not name (GH144 invariant 15, ops_routes.rs
\* prepare_ops, workbench_message_intent.rs).
MigratedPinsSurvive ==
    [][(NewVersion /\ Current.graph.rev # NoRevision)
           => KeepsPins(Current, versions'[Len(versions')])]_vars

\* "layout, restore, ops, manual proposal and agent proposal keep the embedded
\* semantics" (specs/GH144/product.md invariant 15), for every graph.
PinsSurvive == [][NewVersion => KeepsPins(Current, versions'[Len(versions')])]_vars
==============================================================================
