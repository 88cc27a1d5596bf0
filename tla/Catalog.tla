------------------------------- MODULE Catalog -------------------------------
(***************************************************************************)
(* The node registry, the capability catalog and the resolver              *)
(* (crates/registry, crates/run/src/resolved.rs): pure functions that the  *)
(* graph edits, the compiler and the run admission share.                  *)
(*                                                                         *)
(* The registry and the catalog are data; they are constants here.  A      *)
(* parameter object is the set of keys it holds (the types and ranges of   *)
(* the values are not modelled), a model name is a query with the set of   *)
(* models whose names it equals, and every binding's mode is its           *)
(* capability, as in the built-in catalog.                                 *)
(***************************************************************************)
EXTENDS Naturals, Sequences, FiniteSets

CONSTANTS
    Registry,     \* [node type -> [inputs, outputs: sequences of ports, capability, required, known]]
    Bindings,     \* set of [id, capability, model, connector, enabled, requires, known, defaults]
    DefaultOf,    \* [some capabilities -> binding id]: default_bindings
    Connectors,   \* the enabled connectors of the catalog
    Matches,      \* [query -> set of models]: the models a name normalizes to
    None          \* no capability, no model, no connector preference, no entry

Types == DOMAIN Registry
Queries == DOMAIN Matches
Capabilities == {Registry[t].capability : t \in Types} \ {None}

Elements(seq) == {seq[i] : i \in DOMAIN seq}

ASSUME DefaultsAreBindings ==
    \A c \in DOMAIN DefaultOf : \E b \in Bindings : b.id = DefaultOf[c] /\ b.capability = c

\* A model's own id names that model and no other.
ASSUME IdsAreUnambiguous ==
    \A b \in Bindings : b.model \in Queries /\ Matches[b.model] = {b.model}

ASSUME CatalogIsFinite ==
    /\ IsFiniteSet(Bindings) /\ \A b \in Bindings : IsFiniteSet(b.defaults)
    /\ \A t \in Types : IsFiniteSet(Registry[t].required)

\* Asking for no model is not asking for one, and a pin is an entry.
ASSUME NoneIsNothing ==
    /\ None \notin Queries
    /\ \A b \in Bindings, c \in Capabilities :
           [kind |-> "pinned", capability |-> c, model |-> b.model, binding |-> b.id] # None

\* The registry lists the input ports of a node type, each name once.
ASSUME InputPortsAreNamed ==
    \A t \in Types :
        /\ Registry[t].inputs \in Seq(Elements(Registry[t].inputs))
        /\ \A i, j \in DOMAIN Registry[t].inputs :
               Registry[t].inputs[i].name = Registry[t].inputs[j].name => i = j

First(seq, Test(_)) ==
    LET hits == {i \in DOMAIN seq : Test(seq[i])}
    IN  IF hits = {} THEN None ELSE seq[CHOOSE i \in hits : \A j \in hits : i <= j]

(***************************************************************************)
(* Parameters                                                              *)
(***************************************************************************)
\* validate_value_with_wired: a required key may arrive over the wire; an
\* unknown key is refused.
ParamsFit(required, known, params, wired) ==
    /\ required \subseteq params \cup wired
    /\ params \subseteq known

\* validate_node_params: nothing counts as wired for the node's own schema.
NodeParamsFit(type, params) ==
    ParamsFit(Registry[type].required, Registry[type].known, params, {})

(***************************************************************************)
(* Ports                                                                   *)
(***************************************************************************)
InputPort(type, name) == First(Registry[type].inputs, LAMBDA p : p.name = name)
OutputPort(type, name) == First(Registry[type].outputs, LAMBDA p : p.name = name)

\* is_reference_input: the optional many-port every media node has.
IsReferenceInput(port) == port.name = "in" /\ ~port.required /\ port.many

\* An "artifact" edge may only end in a json port; any other edge carries the
\* type both of its ports have.  A reference input takes whatever its source is.
EdgeTypeMatches(out, input, label) ==
    IF IsReferenceInput(input) THEN label = out.type
    ELSE IF label = "artifact" THEN input.type = "json"
    ELSE out.type = input.type /\ label = out.type

\* matching_connection_ports: the first output that fits an execution input, else
\* one that fits the reference input, else the first output into the reference.
MatchingConnectionPorts(source, target) ==
    LET outputs == Registry[source].outputs
        execution == SelectSeq(Registry[target].inputs, LAMBDA p : p.name # "in")
        reference == InputPort(target, "in")
        fed == First(outputs, LAMBDA o : \E p \in Elements(execution) : p.type = o.type)
        alike == First(outputs, LAMBDA o : reference # None /\ reference.type = o.type)
    IN  CASE fed # None -> [out |-> fed, input |-> First(execution, LAMBDA p : p.type = fed.type)]
          [] fed = None /\ alike # None -> [out |-> alike, input |-> reference]
          [] fed = None /\ alike = None /\ reference # None /\ outputs # <<>> ->
                [out |-> outputs[1], input |-> reference]
          [] OTHER -> None

(***************************************************************************)
(* The resolver                                                            *)
(***************************************************************************)
Refusal(code) == [code |-> code]
Found(binding) == [code |-> "OK", binding |-> binding]
IsFound(result) == result.code = "OK"

\* binding_available: enabled, on a connector that is declared and up.
BindingAvailable(b, up) == b.enabled /\ b.connector \in Connectors \cap up

Preferred(candidates, preference) ==
    {b \in candidates : preference # None => b.connector = preference}

IsDefault(b) == b.capability \in DOMAIN DefaultOf /\ DefaultOf[b.capability] = b.id

\* select_unique: the default when it is available, else the only one available.
SelectAvailable(available) ==
    LET default == {b \in available : IsDefault(b)}
    IN  CASE available = {} -> Refusal("BINDING_UNAVAILABLE")
          [] default # {} -> Found(CHOOSE b \in default : TRUE)
          [] default = {} /\ Cardinality(available) = 1 -> Found(CHOOSE b \in available : TRUE)
          [] OTHER -> Refusal("BINDING_AMBIGUOUS")

SelectUnique(candidates, up) ==
    IF candidates = {} THEN Refusal("BINDING_NOT_FOUND")
    ELSE SelectAvailable({b \in candidates : BindingAvailable(b, up)})

\* resolve_pinned and normalize_model: the query names one model, on the preferred
\* connector.
ResolvePinned(capability, query, preference, up) ==
    LET model == CHOOSE m \in Matches[query] : TRUE
        pair == {b \in Bindings : b.capability = capability /\ b.model = model}
    IN  IF Matches[query] = {} THEN Refusal("MODEL_NOT_FOUND")
        ELSE IF Cardinality(Matches[query]) > 1 THEN Refusal("MODEL_AMBIGUOUS")
        ELSE SelectUnique(Preferred(pair, preference), up)

\* resolve_policy: the configured default; with a preference that excludes it, a
\* single candidate; availability never selects.
PolicyAmong(candidates, preference) ==
    LET default == {b \in candidates : IsDefault(b)}
    IN  IF default # {} THEN default
        ELSE IF preference # None /\ Cardinality(candidates) = 1 THEN candidates
        ELSE {}

IfAvailable(candidates, chosen, up) ==
    CASE candidates = {} -> Refusal("BINDING_NOT_FOUND")
      [] candidates # {} /\ chosen = {} -> Refusal("BINDING_AMBIGUOUS")
      [] OTHER -> LET binding == CHOOSE b \in chosen : TRUE
                  IN  IF BindingAvailable(binding, up) THEN Found(binding)
                      ELSE Refusal("BINDING_UNAVAILABLE")

\* Mutant: the default is taken whatever connector is preferred.
ResolvePolicyAnyConnector(capability, preference, up) ==
    LET candidates == {b \in Bindings : b.capability = capability}
    IN  IfAvailable(candidates, PolicyAmong(candidates, preference), up)

ResolvePolicy(capability, preference, up) ==
    LET candidates == Preferred({b \in Bindings : b.capability = capability}, preference)
    IN  IfAvailable(candidates, PolicyAmong(candidates, preference), up)

Resolve(capability, query, preference, up) ==
    CASE capability \notin Capabilities -> Refusal("CAPABILITY_NOT_FOUND")
      [] capability \in Capabilities /\ query # None ->
            ResolvePinned(capability, query, preference, up)
      [] OTHER -> ResolvePolicy(capability, preference, up)

(***************************************************************************)
(* Semantics entries and the resolution of a run's steps                   *)
(***************************************************************************)
Policy(capability) == [kind |-> "policy", capability |-> capability]
Pinned(capability, binding) ==
    [kind |-> "pinned", capability |-> capability, model |-> binding.model, binding |-> binding.id]

IsPinned(entry) == entry # None /\ entry.kind = "pinned"

\* resolve_step_binding: a run resolves a pinned model by its id on the connector
\* it will use, and refuses when that gives another binding or model.
ResolveStepBinding(capability, connector, entry) ==
    LET result == Resolve(capability, IF IsPinned(entry) THEN entry.model ELSE None,
                          connector, {connector})
    IN  IF IsFound(result) /\ IsPinned(entry)
            /\ (result.binding.model # entry.model \/ result.binding.id # entry.binding)
        THEN Refusal("PINNED_MODEL_MISMATCH")
        ELSE result

\* validate_entry: the entry names the node's capability and a binding of it, and
\* the node's parameters satisfy what that binding requires.
EntryFits(type, params, wired, entry) ==
    /\ entry.capability = Registry[type].capability
    /\ IF entry.kind = "pinned"
       THEN \E b \in Bindings :
                /\ b.id = entry.binding
                /\ b.capability = entry.capability
                /\ b.model = entry.model
                /\ ParamsFit(b.requires, b.known, params, wired)
       ELSE entry.capability \in DOMAIN DefaultOf
==============================================================================
