--------------------------- MODULE MCGraphVersions ---------------------------
(***************************************************************************)
(* A small instance of GraphVersions: four node types of the built-in      *)
(* registry, two connectors, a capability with a second binding on another *)
(* connector, one with two models on the same connector, and a model name  *)
(* that two models answer to.                                              *)
(***************************************************************************)
EXTENDS GraphVersions

Port(name, type, required, many) ==
    [name |-> name, type |-> type, required |-> required, many |-> many]

MCRegistry ==
    ("input.text" :> [inputs |-> <<Port("in", "text", FALSE, TRUE)>>,
                      outputs |-> <<Port("text", "text", TRUE, FALSE)>>,
                      capability |-> None, required |-> {"text"}, known |-> {"text"}]) @@
    ("prompt_writer" :> [inputs |-> <<Port("text", "text", TRUE, FALSE)>>,
                         outputs |-> <<Port("prompt", "text", TRUE, FALSE)>>,
                         capability |-> "writer", required |-> {}, known |-> {"style"}]) @@
    ("image.generate" :> [inputs |-> <<Port("prompt", "text", TRUE, FALSE),
                                       Port("in", "image", FALSE, TRUE)>>,
                          outputs |-> <<Port("image", "image", TRUE, FALSE)>>,
                          capability |-> "t2i", required |-> {"prompt", "ratio"},
                          known |-> {"prompt", "ratio"}]) @@
    ("video.animate" :> [inputs |-> <<Port("image", "image", TRUE, TRUE),
                                      Port("prompt", "text", FALSE, FALSE)>>,
                         outputs |-> <<Port("video", "video", TRUE, FALSE)>>,
                         capability |-> "i2v", required |-> {"duration"},
                         known |-> {"prompt", "duration"}])

Binding(id, capability, model, connector, requires, known, defaults) ==
    [id |-> id, capability |-> capability, model |-> model, connector |-> connector,
     enabled |-> TRUE, requires |-> requires, known |-> known, defaults |-> defaults]

MCBindings ==
    {Binding("w1", "writer", "deepseek", "atlas", {}, {"style"}, {}),
     Binding("n1", "t2i", "nano", "atlas", {"prompt", "ratio"}, {"prompt", "ratio"}, {"ratio"}),
     Binding("n2", "t2i", "nano", "fal", {"prompt"}, {"prompt", "ratio"}, {"ratio"}),
     Binding("s1", "i2v", "seed1", "atlas", {"duration"}, {"prompt", "duration"}, {"duration"}),
     Binding("s2", "i2v", "seed2", "atlas", {"duration"}, {"prompt", "duration"}, {"duration"})}

MCDefaultOf == [writer |-> "w1", t2i |-> "n1", i2v |-> "s2"]
MCMatches == [deepseek |-> {"deepseek"}, nano |-> {"nano"}, seed1 |-> {"seed1"},
              seed2 |-> {"seed2"}, seedance |-> {"seed1", "seed2"}, nobody |-> {}]
MCInputNodeOf == [id \in 1..3 |-> id + 3]

Node(type, params, model, sem) == [type |-> type, params |-> params, model |-> model, sem |-> sem]
Text == Node("input.text", {"text"}, None, None)
Image(model, sem) == Node("image.generate", {"prompt", "ratio"}, model, sem)
Video(model, sem) == Node("video.animate", {"duration"}, model, sem)
Edge(a, out, b, input, type) == [from |-> <<a, out>>, to |-> <<b, input>>, type |-> type]
ImageToVideo == Edge(2, "image", 3, "image", "image")
PinOf(id) == LET b == CHOOSE x \in MCBindings : x.id = id IN Pinned(b.capability, b)
Graph(rev, nodes, edges) == [rev |-> rev, nodes |-> nodes, edges |-> edges]

\* A new workspace; legacy graphs with a model, without one, with an ambiguous one;
\* a version migrated before the semantics moved into the nodes; a migrated graph.
MCStartGraphs ==
    LET two(rev, a, b) == Graph(rev, (2 :> a) @@ (3 :> b), <<ImageToVideo>>)
    IN  {[graph |-> Graph(0, <<>>, <<>>), sidecar |-> None],
         [graph |-> two(0, Image("nano", None), Video("seed1", None)), sidecar |-> None],
         [graph |-> two(0, Image(None, None), Video("seedance", None)), sidecar |-> None],
         [graph |-> two(0, Image(None, None), Video(None, None)),
          sidecar |-> (2 :> PinOf("n1")) @@ (3 :> PinOf("s1"))],
         [graph |-> two(1, Image(None, PinOf("n2")), Video(None, PinOf("s1"))),
          sidecar |-> (2 :> PinOf("n2")) @@ (3 :> PinOf("s1"))]}

Add(id, type, query, params) ==
    [edit |-> "add_node", id |-> id, type |-> type, query |-> query, params |-> params]
Ends == {<<<<1, "text">>, <<2, "prompt">>>>, <<<<1, "text">>, <<2, "text">>>>,
         <<<<2, "image">>, <<2, "in">>>>, <<<<2, "image">>, <<3, "image">>>>,
         <<<<2, "prompt">>, <<3, "prompt">>>>, <<<<3, "image">>, <<2, "in">>>>,
         <<<<1, "text">>, <<3, "prompt">>>>}
Edits ==
    {Add(1, "input.text", None, {"text"}), Add(2, "prompt_writer", None, {}),
     Add(2, "image.generate", None, {"prompt"}), Add(3, "image.generate", "nano", {"prompt"}),
     Add(3, "image.generate", None, {}),
     Add(3, "video.animate", "seed1", {}), Add(3, "video.animate", "seedance", {}),
     Add(3, "video.animate", None, {}), Add(3, "unknown.type", None, {})}
    \cup {[edit |-> "remove_node", id |-> id] : id \in 1..3}
    \cup {[edit |-> "update_node", id |-> 3, params |-> {k}] : k \in {"prompt", "nonsense"}}
    \cup {[edit |-> e, from |-> p[1], to |-> p[2]] : e \in {"connect", "disconnect"}, p \in Ends}

\* Single edits, and the pairs that need each other.
MCAgentPlans ==
    {<<e>> : e \in Edits}
    \cup {<<Add(2, "image.generate", None, {"prompt"}), e>> :
             e \in {[edit |-> "connect", from |-> p[1], to |-> p[2]] : p \in Ends}
                   \cup {[edit |-> "remove_node", id |-> 2]}}
    \cup {<<Add(3, "video.animate", q, {}),
            [edit |-> "connect", from |-> <<2, "image">>, to |-> <<3, "image">>]>> :
             q \in {None, "seed1", "seedance"}}
    \cup {<<[edit |-> "remove_node", id |-> 3], Add(3, "image.generate", None, {"prompt"})>>}

Spawn(id, node, from) == [op |-> "spawn_node", id |-> id, node |-> node, from |-> from]
SetSem(id, sem) == [op |-> "set_semantics", id |-> id, sem |-> sem]
Ops ==
    {[op |-> "remove_node", id |-> id] : id \in 1..3}
    \cup {[op |-> "set_param", id |-> 3, key |-> "prompt"]}
    \cup {[op |-> o, edge |-> e] : o \in {"add_edge", "remove_edge"},
             e \in {ImageToVideo, Edge(2, "image", 2, "in", "image"),
                    Edge(1, "text", 2, "prompt", "text"), Edge(3, "image", 2, "in", "image"),
                    Edge(1, "text", 1, "in", "text"), Edge(2, "image", 3, "in", "image")}}
    \cup {SetSem(2, PinOf("n1")), SetSem(3, PinOf("s1")), SetSem(3, PinOf("s2")),
          SetSem(3, Policy("i2v")), SetSem(3, None)}
    \cup {Spawn(3, Video(None, None), 2), Spawn(3, Image(None, None), 2), Spawn(1, Text, 2),
          Spawn(3, Image(None, None), 3), [op |-> "add_node", id |-> 1, node |-> Text],
          [op |-> "add_node", id |-> 2, node |-> Image(None, None)]}
\* Single ops, and the pairs that replace a node or repeat an op.
MCOpRequests ==
    {<<o>> : o \in Ops} \cup {<<o, o>> : o \in Ops}
    \cup {<<[op |-> "remove_node", id |-> 3], o>> :
             o \in {Spawn(3, Video(None, None), 2), Spawn(3, Image(None, None), 2),
                    SetSem(2, PinOf("n1"))}}

Stage(id, capability, query, from, params) ==
    [id |-> id, capability |-> capability, query |-> query, from |-> from, params |-> params]
From(stage, output) == <<[stage |-> stage, output |-> output]>>
MCIntents ==
    LET writer == Stage(1, "writer", None, <<>>, {"text"})
        alone == Stage(2, "t2i", "nano", <<>>, {"prompt"})
        written == Stage(2, "t2i", None, From(1, "prompt"), {})
        animated(q) == Stage(3, "i2v", q, From(2, "image"), {})
        unfed == Stage(3, "i2v", None, <<>>, {})
    IN  {[linear |-> TRUE, stages |-> <<writer, written, animated("seed1")>>, outputs |-> {3}],
         [linear |-> TRUE, stages |-> <<alone, animated(None)>>, outputs |-> {3}],
         [linear |-> TRUE, stages |-> <<alone, animated("seedance")>>, outputs |-> {3}],
         [linear |-> FALSE, stages |-> <<alone, unfed>>, outputs |-> {2, 3}],
         [linear |-> FALSE, stages |-> <<writer, alone>>, outputs |-> {1, 2}],
         [linear |-> TRUE, stages |-> <<writer, alone>>, outputs |-> {2}]}
==============================================================================
