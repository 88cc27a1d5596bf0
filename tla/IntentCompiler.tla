---------------------------- MODULE IntentCompiler ----------------------------
(***************************************************************************)
(* The compiler of intents (crates/compiler): an intent names stages, the  *)
(* capability and perhaps the model of each, and what feeds it; the        *)
(* compiler makes a graph of it and the proposal that turns the current    *)
(* graph into that one.  POST /api/workflows/compile-intent returns both   *)
(* and writes nothing.                                                     *)
(*                                                                         *)
(* An intent is [linear, stages, outputs]; a stage is [id, capability,     *)
(* query, from, params], with from a sequence of [stage, output].  A       *)
(* clarification and an error are both Refused; the layout is left out.    *)
(***************************************************************************)
EXTENDS GraphEdits

CONSTANT InputNodeOf    \* [stage id -> id of the input.text node made for it]

Feeds(stage) == {i.stage : i \in Elements(stage.from)}

\* IntentPlan::validate and validate_topology: stages refer to earlier ones, the
\* outputs are the sinks, and a linear intent is one chain.
IntentFits(intent) ==
    LET stages == intent.stages
        earlier(k) == {stages[j].id : j \in 1..(k - 1)}
        sinks == {s.id : s \in Elements(stages)} \ UNION {Feeds(s) : s \in Elements(stages)}
    IN  /\ stages # <<>> /\ intent.outputs # {}
        /\ \A k \in DOMAIN stages : stages[k].id \notin earlier(k) /\ Feeds(stages[k]) \subseteq earlier(k)
        /\ intent.outputs = sinks
        /\ intent.linear =>
               /\ stages[1].from = <<>>
               /\ \A k \in 2..Len(stages) : Feeds(stages[k]) = {stages[k - 1].id}
               /\ Cardinality(sinks) = 1

TypeFor(capability) == CHOOSE t \in Types : Registry[t].capability = capability

\* The edge that brings one output of an earlier stage in: to the input that has
\* the output's own name and type.
WireOf(stage, i, out, input) ==
    IF out = None \/ input = None THEN Refused
    ELSE [from |-> <<i.stage, out.name>>, to |-> <<stage.id, input.name>>, type |-> out.type]

StageWire(intent, stage, i) ==
    LET source == First(intent.stages, LAMBDA s : s.id = i.stage)
        out == OutputPort(TypeFor(source.capability), i.output)
        input == First(Registry[TypeFor(stage.capability)].inputs,
                       LAMBDA p : p.name = i.output /\ out # None /\ p.type = out.type)
    IN  WireOf(stage, i, out, input)

RequiredInputs(type) == {p \in Elements(Registry[type].inputs) : p.required}

\* A required text input that only has a literal value gets a node of its own.
LiteralInputs(type, wired, given) ==
    {p.name : p \in {q \in RequiredInputs(type) :
                        /\ q.type = "text"
                        /\ q.name \notin wired \cup Registry[type].known
                        /\ q.name \in given}}

\* The graph with one more stage, unless an input or a parameter is still missing.
WithStage(g, stage, entry, wires, wired, literal, params) ==
    LET type == TypeFor(stage.capability)
        fed == wired \cup literal
        node == [type |-> type, params |-> params \cup (Registry[type].required \cap fed),
                 model |-> None, sem |-> entry]
        text == [type |-> "input.text", params |-> {"text"}, model |-> None, sem |-> None]
        input == InputNodeOf[stage.id]
        textEdges == SetToSeq({[from |-> <<input, "text">>, to |-> <<stage.id, name>>,
                                type |-> "text"] : name \in literal})
    IN  IF ~(({p.name : p \in RequiredInputs(type)} \cup Registry[type].required)
                 \subseteq fed \cup params) THEN Refused
        ELSE WithNode(WithEdges(IF literal = {} THEN g ELSE WithNode(g, input, text),
                                g.edges \o wires \o textEdges), stage.id, node)

\* The binding's defaults go under the stage's parameters.
WiredStage(g, stage, binding, wires, wired) ==
    LET given == stage.params \cup binding.defaults
        literal == LiteralInputs(TypeFor(stage.capability), wired, given)
        entry == IF stage.query # None THEN Pinned(stage.capability, binding)
                 ELSE Policy(stage.capability)
    IN  WithStage(g, stage, entry, wires, wired, literal, given \ literal)

ResolvedStage(g, stage, result, wires) ==
    IF ~IsFound(result) \/ Refused \in Elements(wires) THEN Refused
    ELSE WiredStage(g, stage, result.binding, wires, {w.to[2] : w \in Elements(wires)})

\* One stage of graph_builder::build.
BuildStage(g, intent, stage, preference, up) ==
    ResolvedStage(g, stage, Resolve(stage.capability, stage.query, preference, up),
                  [k \in DOMAIN stage.from |-> StageWire(intent, stage, stage.from[k])])

\* build: the compiled graph must pass the full semantic validation.
IfSemantic(g, rev) == IF g = Refused THEN Refused ELSE IF ValidSemantics(g, rev) THEN g ELSE Refused

AndThenBuilt(g, intent, stage, preference, up) ==
    IF g = Refused THEN Refused ELSE BuildStage(g, intent, stage, preference, up)

BuiltStages(intent, preference, up, rev) ==
    LET built[i \in 0..Len(intent.stages)] ==
            IF i = 0 THEN [rev |-> rev, nodes |-> <<>>, edges |-> <<>>]
            ELSE AndThenBuilt(built[i - 1], intent, intent.stages[i], preference, up)
    IN  built[Len(intent.stages)]

Build(intent, preference, up, rev) == IfSemantic(BuiltStages(intent, preference, up, rev), rev)

\* proposal_diff::diff.  A kept node never loses a parameter, and a replaced node
\* takes its edges with it.
\* Mutant: a kept node's semantics are not compared.
NodeDiffOfParams(current, target, id) ==
    LET node == target.nodes[id]
        adds == <<[op |-> "add_node", id |-> id, node |-> node]>>
    IN  IF id \notin Ids(current) THEN adds
        ELSE IF current.nodes[id].type # node.type
             THEN <<[op |-> "remove_node", id |-> id]>> \o adds
             ELSE SetToSeq({[op |-> "set_param", id |-> id, key |-> k] :
                               k \in node.params \ current.nodes[id].params})

NodeDiff(current, target, id) ==
    LET node == target.nodes[id]
        adds == <<[op |-> "add_node", id |-> id, node |-> node]>>
        params == SetToSeq({[op |-> "set_param", id |-> id, key |-> k] :
                               k \in node.params \ current.nodes[id].params})
        sem == IF current.nodes[id].sem = node.sem THEN <<>>
               ELSE <<[op |-> "set_semantics", id |-> id, sem |-> node.sem]>>
    IN  IF id \notin Ids(current) THEN adds
        ELSE IF current.nodes[id].type # node.type
             THEN <<[op |-> "remove_node", id |-> id]>> \o adds
             ELSE params \o sem

\* A removed edge is named once for each copy of it.
ProposalDiff(current, target) ==
    LET edgeOps(name, edges) == [k \in DOMAIN edges |-> [op |-> name, edge |-> edges[k]]]
        removed == Among(current.edges, Elements(current.edges) \ Elements(target.edges))
        added == Among(target.edges, Elements(target.edges) \ Elements(current.edges))
        gone == SetToSeq(Ids(current) \ Ids(target))
        kept == SetToSeq(Ids(target))
    IN  edgeOps("remove_edge", removed)
        \o [k \in DOMAIN gone |-> [op |-> "remove_node", id |-> gone[k]]]
        \o FlattenSeq([k \in DOMAIN kept |-> NodeDiff(current, target, kept[k])])
        \o edgeOps("add_edge", added)

\* compile_for_connector
Answer(current, target) ==
    IF target = Refused THEN Refused
    ELSE [base |-> current, target |-> target, ops |-> ProposalDiff(current, target)]

CompileIntent(intent, current, preference, up, rev) ==
    Answer(current, IF IntentFits(intent) THEN Build(intent, preference, up, rev) ELSE Refused)
==============================================================================
