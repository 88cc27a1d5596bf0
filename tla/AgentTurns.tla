----------------------------- MODULE AgentTurns -----------------------------
(***************************************************************************)
(* The agent's turns in one workspace: a message of the user is routed,    *)
(* recorded as a durable turn, given to the agent (AgentRounds) and ended  *)
(* with a status and a visible message; a turn that edits the graph also   *)
(* carries an observation, which commits together with the version.        *)
(*                                                                         *)
(* One handler at a time holds the workspace's place in the registry.  The *)
(* user may interrupt it, the client may disconnect - the handler is then  *)
(* dropped where it stands, and a task settles the turn it left - and the  *)
(* process may crash.  A handler's step is one statement or transaction.   *)
(***************************************************************************)
EXTENDS AgentRounds, FiniteSetsExt

CONSTANTS
    MaxTurns,   \* bound: turns
    MaxSaves,   \* bound: versions other writers commit
    MaxFaults,  \* bound: statements of a handler and settlements that fail
    MaxCrashes  \* bound

ASSUME TurnsAssumption == {MaxTurns, MaxSaves, MaxFaults, MaxCrashes} \subseteq Nat

VARIABLES
    turn,      \* agent_turns: status and reason_code
    seen,      \* agent_contract_observations: the outcome of the turn's edit
    said,      \* the agent's primary messages of the turn, in order
    version,   \* the idx of the workspace's current version
    made,      \* the version each turn committed; 0: none
    handler,   \* the request that holds the workspace's place in the registry
    settling,  \* spawned settle_dropped_agent_turn tasks
    unsettled, \* history: turns that a failed settlement has left since the start
    late,      \* inserts of dropped handlers that have not reached SQLite yet
    up,        \* "up", or the step of the startup that comes next
    saves, faults, crashes

rows == <<turn, seen, said, version, made>>
bounds == <<saves, faults, crashes>>
vars == <<rounds, rows, handler, settling, unsettled, late, up, bounds>>

Turns == 1 .. MaxTurns
Modes == {"chat", "edit", "run"}
NoTurn == [status |-> "none", reason |-> "none"]
Ended(t) == turn[t].status \notin {"none", "running"}
Idle == [turn |-> 0, mode |-> "chat", at |-> "idle", told |-> FALSE, base |-> 0]

Statuses == {"none", "running", "succeeded", "clarify", "error", "interrupted"}
Kinds == {"chat", "applied", "run", "clarify", "status", "error", "interrupted"}

\* Where a handler stands: before the durable row, ...
Before == {"routing", "checking", "rechecking", "starting"}
\* ... between the row and the dispatch, ...
Preparing == {"recording", "attaching"}
\* ... in the dispatched part, which the interrupt is selected against, ...
Dispatched ==
    {"dispatching", "asking", "identity", "sayChat", "logging", "endChat", "compiling",
     "applying", "clarifying", "endClarify", "requesting", "assigning", "endRun",
     "failing", "sayError", "endError", "replying"}
\* ... and in the branch the interrupt takes.
Interrupting == {"observe", "sayInterrupted", "endInterrupted"}
\* The places where the handler's own statement inserts or moves one message.
Says == [sayChat |-> "chat", assigning |-> "run",
         sayError |-> "error", sayInterrupted |-> "interrupted"]

AgentTurnsTypeOK ==
    /\ RoundsTypeOK
    /\ turn \in [Turns -> [status : Statuses,
                           reason : {"none", "dropped", "process", "other"}]]
    /\ seen \in [Turns -> {"none", "started", "success", "clarify", "error"}]
    /\ \A t \in Turns : said[t] \in Seq(Kinds)
    /\ version \in Nat /\ made \in [Turns -> Nat]
    /\ handler \in [turn : 0 .. MaxTurns, mode : Modes, told : BOOLEAN, base : Nat,
                    at : Before \cup Preparing \cup Dispatched \cup Interrupting \cup {"idle"}]
    /\ settling \in SUBSET [turn : Turns, observed : BOOLEAN]
    /\ unsettled \subseteq Turns
    /\ late \in SUBSET [turn : Turns, kind : Kinds]
    /\ up \in {"up", "turns", "observations"}
    /\ handler.at \in Dispatched \cup Interrupting => turn[handler.turn].status # "none"

Init ==
    /\ RoundsInit
    /\ turn = [t \in Turns |-> NoTurn]
    /\ seen = [t \in Turns |-> "none"]
    /\ said = [t \in Turns |-> <<>>]
    /\ version = 1
    /\ made = [t \in Turns |-> 0]
    /\ handler = Idle
    /\ settling = {} /\ unsettled = {} /\ late = {}
    /\ up = "up"
    /\ saves = 0 /\ faults = 0 /\ crashes = 0

-----------------------------------------------------------------------------
(* Statements of the store.                                                *)

Finalize(t, status, reason) ==
    turn' = [turn EXCEPT ![t] = [status |-> status, reason |-> reason]]
Say(t, kind) == said' = [said EXCEPT ![t] = Append(@, kind)]
Observe(t, outcome) == seen' = [seen EXCEPT ![t] = outcome]
Running(t) == turn[t].status = "running"

Goes(at) == handler' = [handler EXCEPT !.at = at]
Others == UNCHANGED <<settling, unsettled, late, up, bounds>>
Store == UNCHANGED rows

\* The registry's entry and the session go with the handler's future.
Gone == handler' = Idle /\ EndSession

\* Mutant: the guard learns of the observation after it was written.
KnowsOnceAttached ==
    handler.mode = "edit" /\ handler.at \notin Before \cup Preparing

\* Mutant: the guard is made after the turn was prepared.
ArmedOnceAttached == handler.at \notin Before \cup Preparing

\* The durable guard of a handler that ends without a response: it is armed
\* before the row is written and knows the observation before that is written.
Knows == handler.mode = "edit" /\ handler.at \notin Before
Armed == handler.at \notin Before \ {"starting"}
Dropped ==
    settling' = IF Armed THEN settling \cup {[turn |-> handler.turn, observed |-> Knows]}
                ELSE settling
\* An error response, whatever the error: the guard stays armed.
GivesUp == Gone /\ Dropped /\ UNCHANGED <<unsettled, late, up, bounds>>

-----------------------------------------------------------------------------
(* From the message to the dispatch.                                       *)

Unused == {t \in Turns : turn[t].status = "none"
                         /\ \A s \in settling : s.turn # t}
\* The graph was verified against the current version; other writers go on.
\* A handler without an explicit mode asks the agent first.
Register ==
    /\ up = "up" /\ handler.at = "idle"
    /\ \E t \in Unused, mode \in Modes, explicit \in BOOLEAN :
         /\ t = Min(Unused)
         /\ handler' = [turn |-> t, mode |-> mode, told |-> FALSE, base |-> version,
                        at |-> IF explicit THEN "checking" ELSE "routing"]
         /\ IF explicit THEN UNCHANGED rounds ELSE StartSession("route")
    /\ Store /\ Others

\* The route names the mode; it was chosen with the registration.
Routed ==
    /\ handler.at = "routing"
    /\ session.at = "accepted"
    /\ Goes("rechecking") /\ EndSession
    /\ Store /\ Others
RouteFails ==
    /\ handler.at = "routing"
    /\ session.at = "failed" \/ handler.told
    /\ Gone
    /\ Store /\ Others

\* A pending proposal or an unknown selection; after routing, also a graph that
\* is no longer the current one.
Refuses ==
    /\ handler.at \in {"checking", "rechecking"}
    /\ Gone
    /\ Store /\ Others
Checked ==
    /\ handler.at = "checking" \/ (handler.at = "rechecking" /\ version = handler.base)
    /\ Goes("starting")
    /\ Store /\ Others /\ UNCHANGED rounds

\* start_agent_turn_with_id
StartTurn ==
    /\ handler.at = "starting"
    /\ Finalize(handler.turn, "running", "none")
    /\ Goes("recording")
    /\ Others /\ UNCHANGED <<rounds, seen, said, version, made>>

\* The user's message, for an edit in one transaction with the observation.
Record ==
    /\ handler.at = "recording"
    /\ IF handler.mode = "edit" THEN Observe(handler.turn, "started") ELSE UNCHANGED seen
    /\ Goes("attaching")
    /\ Others /\ UNCHANGED <<rounds, turn, said, version, made>>

\* attach_turn_user_message
Attach ==
    /\ handler.at = "attaching"
    /\ Running(handler.turn)
    /\ Goes("dispatching")
    /\ Store /\ Others /\ UNCHANGED rounds

-----------------------------------------------------------------------------
(* The dispatched part.                                                    *)

Dispatch ==
    /\ handler.at = "dispatching"
    /\ CASE handler.mode = "run" -> Goes("requesting") /\ UNCHANGED rounds
         [] handler.mode = "chat" -> Goes("asking") /\ StartSession("reply")
         [] handler.mode = "edit" -> Goes("asking") /\ StartSession("edit")
    /\ Store /\ Others

\* An error of an edit ends the observation first.
OnError == Goes(IF handler.mode = "edit" THEN "failing" ELSE "sayError")
Answered ==
    /\ handler.at = "asking"
    /\ session.at \in {"accepted", "failed"}
    /\ IF session.at = "accepted" THEN Goes("identity") ELSE OnError
    /\ EndSession
    /\ Store /\ Others

\* The identity of the agent's thread may conflict with the conversation's.
PersistIdentity ==
    /\ handler.at = "identity"
    /\ \/ Goes(IF handler.mode = "edit" THEN "logging" ELSE "sayChat")
       \/ OnError
    /\ Store /\ Others /\ UNCHANGED rounds
PersistLogs ==
    /\ handler.at = "logging"
    /\ Goes(IF handler.mode = "edit" THEN "compiling" ELSE "endChat")
    /\ Store /\ Others /\ UNCHANGED rounds

SayChat ==
    /\ handler.at = "sayChat"
    /\ Say(handler.turn, "chat")
    /\ Goes("logging")
    /\ Others /\ UNCHANGED <<rounds, turn, seen, version, made>>

\* handle_run_request, which asks RunAdmission for the run, and writes a message
\* that is given to the turn afterwards.
RequestRun ==
    /\ handler.at = "requesting"
    /\ Goes("assigning") \/ Goes("sayError")
    /\ Store /\ Others /\ UNCHANGED rounds
AssignMessage ==
    /\ handler.at = "assigning"
    /\ Say(handler.turn, "run")
    /\ Goes("endRun")
    /\ Others /\ UNCHANGED <<rounds, turn, seen, version, made>>

\* Readiness, compilation and preview: a plan, a question, or an error.
Compile ==
    /\ handler.at = "compiling"
    /\ Goes("applying") \/ Goes("clarifying") \/ Goes("failing")
    /\ Store /\ Others /\ UNCHANGED rounds

\* complete_observation_in_tx
MayComplete(t) == seen[t] = "started"
\* auto_apply_proposal_version_inner: version, message, observation and turn.
Apply ==
    /\ handler.at = "applying"
    /\ version = handler.base /\ MayComplete(handler.turn) /\ Running(handler.turn)
    /\ version' = version + 1
    /\ made' = [made EXCEPT ![handler.turn] = version + 1]
    /\ Say(handler.turn, "applied")
    /\ Observe(handler.turn, "success")
    /\ Finalize(handler.turn, "succeeded", "none")
    /\ Goes("replying")
    /\ Others /\ UNCHANGED rounds
ApplyRefused ==
    /\ handler.at = "applying"
    /\ version # handler.base \/ ~MayComplete(handler.turn) \/ ~Running(handler.turn)
    /\ Goes("failing")
    /\ Store /\ Others /\ UNCHANGED rounds

\* create_clarification_and_finalize_observation
Clarify ==
    /\ handler.at = "clarifying"
    /\ MayComplete(handler.turn)
    /\ Say(handler.turn, "clarify")
    /\ Observe(handler.turn, "clarify")
    /\ Goes("endClarify")
    /\ Others /\ UNCHANGED <<rounds, turn, version, made>>

\* finalize_agent_contract_error: a success stays; another end is a conflict,
\* and the handler gives up.
ObserveError(next) ==
    CASE seen[handler.turn] = "success" ->
           Goes(next) /\ Others /\ Store /\ UNCHANGED rounds
      [] seen[handler.turn] = "started" ->
           /\ Observe(handler.turn, "error")
           /\ Goes(next)
           /\ Others /\ UNCHANGED <<rounds, turn, said, version, made>>
      [] OTHER -> GivesUp /\ Store
FailObservation == handler.at = "failing" /\ ObserveError("sayError")

SayError ==
    /\ handler.at = "sayError"
    /\ Say(handler.turn, "error")
    /\ Goes("endError")
    /\ Others /\ UNCHANGED <<rounds, turn, seen, version, made>>

\* finalize_agent_turn: the first end wins; another one is a conflict.
Finals == [endChat |-> "succeeded", endRun |-> "succeeded", endClarify |-> "clarify",
           endError |-> "error", endInterrupted |-> "interrupted"]
EndTurn ==
    /\ handler.at \in DOMAIN Finals
    /\ IF Running(handler.turn)
       THEN /\ Finalize(handler.turn, Finals[handler.at], "other")
            /\ Goes("replying")
            /\ Others /\ UNCHANGED <<rounds, seen, said, version, made>>
       ELSE GivesUp /\ Store

\* The response: the place is given back and the guard disarmed.
Reply ==
    /\ handler.at = "replying"
    /\ Gone
    /\ Store /\ Others

-----------------------------------------------------------------------------
(* What cuts a handler short.                                              *)

Interrupt ==
    /\ up = "up" /\ handler.at # "idle" /\ ~handler.told
    /\ handler' = [handler EXCEPT !.told = TRUE]
    /\ Store /\ Others /\ UNCHANGED rounds

\* select!: the dispatched future is dropped wherever it stands.
TakeInterrupt ==
    /\ handler.told /\ handler.at \in Dispatched
    /\ handler' = [handler EXCEPT
           !.at = IF handler.mode = "edit" THEN "observe" ELSE "sayInterrupted"]
    /\ EndSession
    /\ Store /\ Others
ObserveInterrupt == handler.at = "observe" /\ ObserveError("sayInterrupted")
SayInterrupted ==
    /\ handler.at = "sayInterrupted"
    /\ Say(handler.turn, "interrupted")
    /\ Goes("endInterrupted")
    /\ Others /\ UNCHANGED <<rounds, turn, seen, version, made>>

\* A statement of the handler fails: the log and the commit of an edit are
\* answered with an error message, any other with an error response.
Statements ==
    Preparing \cup DOMAIN Says \cup DOMAIN Finals
        \cup {"starting", "clarifying", "failing", "observe"}
Fault ==
    /\ faults < MaxFaults /\ faults' = faults + 1
    /\ \/ handler.at \in {"logging", "applying"} /\ OnError /\ UNCHANGED <<rounds, settling>>
       \/ handler.at \in Statements /\ Gone /\ Dropped
    /\ Store /\ UNCHANGED <<unsettled, late, up, saves, crashes>>

\* The client goes away; an insert already handed to SQLite still happens.
Disconnect ==
    /\ up = "up" /\ handler.at # "idle"
    /\ Gone /\ Dropped
    /\ \/ UNCHANGED late
       \/ /\ handler.at \in DOMAIN Says
          /\ late' = late \cup {[turn |-> handler.turn, kind |-> Says[handler.at]]}
    /\ Store /\ UNCHANGED <<unsettled, up, bounds>>
LateInsert(m) ==
    /\ Say(m.turn, m.kind)
    /\ late' = late \ {m}
    /\ UNCHANGED <<rounds, turn, seen, version, made, handler, settling, unsettled, up,
                   bounds>>

\* settle_dropped_agent_turn: the observation tells, then the last message said.
Recovered == [success |-> "succeeded", clarify |-> "clarify", error |-> "error"]
\* Mutant: the settled turn gets no message.
RecoverySilent == [success |-> "none", clarify |-> "none", error |-> "none"]
Recovery == [success |-> "status", clarify |-> "clarify", error |-> "error"]
Settlement(s) ==
    LET outcome == IF s.observed THEN seen[s.turn] ELSE "none"
    IN CASE outcome \in DOMAIN Recovered ->
              [status |-> Recovered[outcome], says |-> Recovery[outcome]]
         [] outcome = "none" /\ said[s.turn] # <<>> ->
              [status |-> CASE Last(said[s.turn]) = "error" -> "error"
                            [] Last(said[s.turn]) = "interrupted" -> "interrupted"
                            [] OTHER -> "succeeded",
               says |-> "none"]
         [] OTHER -> [status |-> "interrupted", says |-> "interrupted"]
Settle(s) ==
    /\ settling' = settling \ {s}
    /\ IF Running(s.turn)
       THEN LET how == Settlement(s)
            IN /\ Finalize(s.turn, how.status, "dropped")
               /\ IF how.says # "none" /\ said[s.turn] = <<>> THEN Say(s.turn, how.says)
                  ELSE UNCHANGED said
               /\ IF s.observed /\ seen[s.turn] = "started" THEN Observe(s.turn, "error")
                  ELSE UNCHANGED seen
       ELSE UNCHANGED <<turn, said, seen>>
    /\ UNCHANGED <<rounds, version, made, handler, unsettled, late, up, bounds>>

\* Its transaction fails: the error is logged, and nobody tries again.
SettleFails(s) ==
    /\ faults < MaxFaults /\ faults' = faults + 1
    /\ settling' = settling \ {s}
    /\ unsettled' = unsettled \cup {t \in {s.turn} : Running(t)}
    /\ Store /\ UNCHANGED <<rounds, handler, late, up, saves, crashes>>

\* Another writer of the graph.
SaveGraph ==
    /\ up = "up" /\ saves < MaxSaves /\ saves' = saves + 1
    /\ version' = version + 1
    /\ UNCHANGED <<rounds, turn, seen, said, made, handler, settling, unsettled, late, up,
                   faults, crashes>>

Crash ==
    /\ crashes < MaxCrashes /\ crashes' = crashes + 1
    /\ up' = "turns"
    /\ Gone
    /\ settling' = {} /\ unsettled' = {} /\ late' = {}
    /\ Store /\ UNCHANGED <<saves, faults>>

\* Before the server listens: finalize_interrupted_agent_turns, then
\* finalize_interrupted_agent_contract_observations.
FinalizeTurns ==
    /\ up = "turns"
    /\ turn' = [t \in Turns |-> IF Running(t) THEN [status |-> "interrupted", reason |-> "process"]
                                ELSE turn[t]]
    /\ up' = "observations"
    /\ UNCHANGED <<rounds, seen, said, version, made, handler, settling, unsettled, late,
                   bounds>>
FinalizeObservations ==
    /\ up = "observations"
    /\ seen' = [t \in Turns |-> IF seen[t] = "started" THEN "error" ELSE seen[t]]
    /\ up' = "up"
    /\ UNCHANGED <<rounds, turn, said, version, made, handler, settling, unsettled, late,
                   bounds>>

-----------------------------------------------------------------------------
HandlerSteps ==
    \/ Routed \/ RouteFails \/ Refuses \/ Checked \/ StartTurn
    \/ Record \/ Attach \/ Dispatch \/ Answered \/ PersistIdentity \/ PersistLogs
    \/ SayChat \/ RequestRun \/ AssignMessage \/ Compile \/ Apply \/ ApplyRefused
    \/ Clarify \/ FailObservation \/ SayError \/ EndTurn \/ Reply
    \/ ObserveInterrupt \/ SayInterrupted
Rest == UNCHANGED <<rows, handler, settling, unsettled, late, up, bounds>>
AgentSteps == (Service \/ \E r \in Rounds : Runtime(r)) /\ Rest
StartupSteps == FinalizeTurns \/ FinalizeObservations

Next ==
    \/ Register \/ HandlerSteps
    \/ AgentSteps
    \/ Interrupt \/ TakeInterrupt
    \/ Fault \/ Disconnect \/ Crash
    \/ \E m \in late : LateInsert(m)
    \/ \E s \in settling : Settle(s) \/ SettleFails(s)
    \/ SaveGraph
    \/ StartupSteps

(* A turn and its observation tell the same: it succeeded exactly when its  *)
(* edit was committed, and a question stays one unless a restart ended it. *)
OutcomesAgree ==
    /\ AgentTurnsTypeOK
    /\ \A t \in Turns :
        /\ seen[t] = "success" <=> made[t] # 0
        /\ seen[t] # "none" => (turn[t].status = "succeeded" <=> seen[t] = "success")
        /\ turn[t].status = "clarify" => seen[t] = "clarify"
        /\ seen[t] = "clarify" /\ Ended(t) /\ turn[t].reason # "process"
             => turn[t].status = "clarify"
        /\ Ended(t) /\ up = "up" => seen[t] # "started"

(* A turn that ended, except by a restart, has a visible message that fits *)
(* its end: no turn ends in silence.                                       *)
Fitting(status) ==
    CASE status = "succeeded" -> {"chat", "applied", "run", "status"}
      [] status = "clarify" -> {"clarify"}
      [] OTHER -> {"error", "interrupted"}
EndedTurnsSayWhy ==
    \A t \in Turns :
        Ended(t) /\ turn[t].reason # "process"
            => \E i \in 1 .. Len(said[t]) : said[t][i] \in Fitting(turn[t].status)

(* A turn that ended well does not also say that it was stopped.           *)
SuccessIsNotDenied ==
    \A t \in Turns : turn[t].status = "succeeded"
        => \A i \in 1 .. Len(said[t]) : said[t][i] \notin {"error", "interrupted"}

TurnsSpec == Init /\ [][Next]_vars

\* The runtime polls a handler, runs a spawned task and starts the server; an
\* agent may be silent for ever, but its time runs out.
Fairness ==
    /\ WF_vars(HandlerSteps)
    /\ WF_vars(Service /\ Rest)
    /\ \A t \in Turns, o \in BOOLEAN :
         WF_vars([turn |-> t, observed |-> o] \in settling /\ Settle([turn |-> t, observed |-> o]))
    /\ WF_vars(StartupSteps)
FairTurnsSpec == TurnsSpec /\ Fairness

(* Every running turn ends, whoever leaves it: only a turn whose settlement  *)
(* failed stays "running", and that one until the server starts again       *)
(* (DurableAgentTurnGuard, finalize_interrupted_agent_turns).               *)
TurnsEnd == \A t \in Turns : Running(t) ~> ~Running(t) \/ t \in unsettled
=============================================================================
