------------------------------ MODULE RunStore ------------------------------
(***************************************************************************)
(* The durable half of one run: the rows of runs, run_steps,               *)
(* run_provider_tasks, run_terminalization_work_items, cost_ledger,        *)
(* run_failure_continuations, run_events and messages that belong to it,   *)
(* and every SQLite transaction of crates/store that writes them.          *)
(*                                                                         *)
(* One action is one committed transaction.  Next lets any caller run any  *)
(* transaction at any time, so what holds here holds however the server's  *)
(* tasks interleave and wherever the process stops.  RunSettlement says    *)
(* which process runs which transaction when.                              *)
(*                                                                         *)
(* A timestamp column is modelled by the one thing its readers ask of it:  *)
(* whether it has passed.  Time is the three Lapse actions.                *)
(***************************************************************************)
EXTENDS FiniteSets

CONSTANTS
    Steps,    \* the provider-backed steps of the run's plan
    Owners,   \* identities of calls that may hold a lease (one UUID each)
    NoOwner,  \* SQL NULL in an owner column
    Ghost     \* the owner of a lease whose holder can never call again

ASSUME OwnerAssumption == NoOwner \notin Owners /\ Ghost \notin Owners

VARIABLES
    runStatus,     \* runs.status
    stepState,     \* run_steps.state
    task,          \* the step's run_provider_tasks row
    work,          \* the run's run_terminalization_work_items row
    ledger,        \* steps with an "actual:{step}" row in cost_ledger
    risk,          \* steps whose billing-risk message is in messages
    continuation,  \* run_failure_continuations.state, "none" for no row
    endEvents      \* names of the terminal events in run_events

storeVars == <<runStatus, stepState, task, work, ledger, risk,
               continuation, endEvents>>

Active   == {"queued", "estimating", "running"}
Terminal == {"succeeded", "failed", "interrupted"}
Statuses == Active \cup Terminal \cup {"waiting_confirmation"}

StepTerminal == {"succeeded", "failed", "skipped"}
StepStates   == StepTerminal \cup {"queued", "running"}

InFlight     == {"dispatching", "active", "result_ready"}
TaskTerminal == {"completed", "cancelled", "abandoned"}
Codes        == {"none", "stopped", "lost", "unknown", "refused",
                 "deadline", "invalid", "interrupted"}

AnyOwner == Owners \cup {NoOwner, Ghost}

\* overdue: the deadline of the row's present state has passed
\* (dispatch_deadline_at, recovery_deadline_at, materialization_deadline_at).
Tasks == [state   : InFlight \cup TaskTerminal \cup {"none"},
          owner   : AnyOwner,
          lease   : BOOLEAN,
          code    : Codes,
          overdue : BOOLEAN]

Works == [state   : {"none", "settling", "completed"},
          desired : {"failed", "interrupted"},
          owner   : AnyOwner,
          live    : BOOLEAN]

NoTask == [state |-> "none", owner |-> NoOwner, lease |-> FALSE,
           code |-> "none", overdue |-> FALSE]
NoWork == [state |-> "none", desired |-> "failed", owner |-> NoOwner,
           live |-> FALSE]

TypeOK ==
    /\ runStatus \in Statuses
    /\ stepState \in [Steps -> StepStates]
    /\ task \in [Steps -> Tasks]
    /\ work \in Works
    /\ ledger \in SUBSET Steps
    /\ risk \in SUBSET Steps
    /\ continuation \in {"none", "pending"}
    /\ endEvents \in SUBSET Terminal

\* A run is claimed before its executor starts; its steps are queued rows.
Init ==
    /\ runStatus = "running"
    /\ stepState = [s \in Steps |-> "queued"]
    /\ task = [s \in Steps |-> NoTask]
    /\ work = NoWork
    /\ ledger = {}
    /\ risk = {}
    /\ continuation = "none"
    /\ endEvents = {}

-----------------------------------------------------------------------------
(* Provider tasks.  CanX is the WHERE clause of X: a caller that finds it   *)
(* false sees no row affected and the rows stay as they are.               *)

OwnsDispatch(s, o) == task[s].state = "dispatching" /\ task[s].owner = o

InsertTask(s, o) ==
    /\ task[s].state = "none"
    /\ task' = [task EXCEPT ![s] = [NoTask EXCEPT !.state = "dispatching",
                                                  !.owner = o, !.lease = TRUE]]
    /\ UNCHANGED <<runStatus, stepState, work, ledger, risk, continuation, endEvents>>

RenewDispatch(s, o) ==
    /\ OwnsDispatch(s, o) /\ ~task[s].overdue
    /\ task' = [task EXCEPT ![s] = [@ EXCEPT !.lease = TRUE]]
    /\ UNCHANGED <<runStatus, stepState, work, ledger, risk, continuation, endEvents>>

Activate(s, o) ==
    /\ OwnsDispatch(s, o)
    /\ task' = [task EXCEPT ![s] = [@ EXCEPT !.state = "active", !.lease = FALSE,
                                             !.overdue = FALSE]]
    /\ UNCHANGED <<runStatus, stepState, work, ledger, risk, continuation, endEvents>>

\* Mutant: the WHERE clause does not look at the state.
CanResultReadyAnyState(s, o) == task[s].state # "none"

CanResultReady(s, o) == task[s].state = "active" \/ OwnsDispatch(s, o)

\* The result and its actual cost are recorded in the same transaction.
ResultReady(s, o) ==
    /\ CanResultReady(s, o)
    /\ task' = [task EXCEPT ![s] = [@ EXCEPT !.state = "result_ready", !.lease = FALSE,
                                             !.overdue = FALSE]]
    /\ ledger' = ledger \cup {s}
    /\ UNCHANGED <<runStatus, stepState, work, risk, continuation, endEvents>>

\* The compare-and-swap behind complete_, cancel_ and abandon_provider_task,
\* for the pairs of states its callers pass.
Closings == {<<"active", "cancelled">>, <<"active", "abandoned">>,
             <<"dispatching", "abandoned">>, <<"dispatching", "completed">>,
             <<"result_ready", "completed">>}

\* Mutant: an UPDATE by id alone, without the compare.
CloseTaskBlind(s, from, to, code) ==
    /\ <<from, to>> \in Closings /\ task[s].state # "none"
    /\ task' = [task EXCEPT ![s] = [@ EXCEPT !.state = to, !.code = code]]
    /\ UNCHANGED <<runStatus, stepState, work, ledger, risk, continuation, endEvents>>

CloseTask(s, from, to, code) ==
    /\ <<from, to>> \in Closings
    /\ task[s].state = from
    /\ task' = [task EXCEPT ![s] = [@ EXCEPT !.state = to, !.code = code]]
    /\ UNCHANGED <<runStatus, stepState, work, ledger, risk, continuation, endEvents>>

-----------------------------------------------------------------------------
(* Terminalization work item.                                              *)

\* INSERT ... ON CONFLICT DO UPDATE WHERE state = 'settling'.
Requested(d) ==
    CASE work.state = "none"      -> [NoWork EXCEPT !.state = "settling", !.desired = d]
      [] work.state = "settling"  ->
            [work EXCEPT !.desired = IF d = "interrupted" THEN d ELSE @]
      [] work.state = "completed" -> work

RequestWork(d) ==
    /\ work' = Requested(d)
    /\ UNCHANGED <<runStatus, stepState, task, ledger, risk, continuation, endEvents>>

CanClaim(o) ==
    /\ work.state = "settling"
    /\ work.owner \in {NoOwner, o} \/ ~work.live

ClaimWork(o) ==
    /\ CanClaim(o)
    /\ work' = [work EXCEPT !.owner = o, !.live = TRUE]
    /\ UNCHANGED <<runStatus, stepState, task, ledger, risk, continuation, endEvents>>

HoldsWork(o) == work.state = "settling" /\ work.owner = o /\ work.live

CanComplete(o) ==
    /\ HoldsWork(o)
    /\ \A s \in Steps : task[s].state \notin InFlight
    /\ runStatus \in Active

\* Mutant: every settled run gets a continuation, interrupted ones too.
CompleteWorkAlwaysRetries(o) ==
    /\ CanComplete(o)
    /\ stepState' = [s \in Steps |->
                        IF stepState[s] \in {"queued", "running"}
                        THEN "skipped" ELSE stepState[s]]
    /\ runStatus' = work.desired
    /\ continuation' = "pending"
    /\ endEvents' = endEvents \cup {work.desired}
    /\ work' = [work EXCEPT !.state = "completed"]
    /\ UNCHANGED <<task, ledger, risk>>

\* Mutant: the event is named after the work item's state.
CompleteWorkWrongEvent(o) ==
    /\ CanComplete(o)
    /\ stepState' = [s \in Steps |->
                        IF stepState[s] \in {"queued", "running"}
                        THEN "skipped" ELSE stepState[s]]
    /\ runStatus' = work.desired
    /\ continuation' = IF work.desired = "failed" THEN "pending" ELSE continuation
    /\ endEvents' = endEvents \cup {work.state}
    /\ work' = [work EXCEPT !.state = "completed"]
    /\ UNCHANGED <<task, ledger, risk>>

\* The one transaction that ends a run which did not succeed.
CompleteWork(o) ==
    /\ CanComplete(o)
    /\ stepState' = [s \in Steps |->
                        IF stepState[s] \in {"queued", "running"}
                        THEN "skipped" ELSE stepState[s]]
    /\ runStatus' = work.desired
    /\ continuation' = IF work.desired = "failed" THEN "pending" ELSE continuation
    /\ endEvents' = endEvents \cup {work.desired}
    /\ work' = [work EXCEPT !.state = "completed"]
    /\ UNCHANGED <<task, ledger, risk>>

\* Mutant: the step is failed whatever its state.
CanFinalizeFailureAnyStep(s, from, to, code) ==
    task[s].state = from \/ (task[s].state = to /\ task[s].code = code)

\* A step's provider task ends badly: task, step and work item together.
CanFinalizeFailure(s, from, to, code) ==
    /\ task[s].state = from \/ (task[s].state = to /\ task[s].code = code)
    /\ stepState[s] \in {"queued", "running", "failed"}

FinalizeFailure(s, from, to, code, d) ==
    /\ CanFinalizeFailure(s, from, to, code)
    /\ <<from, to>> \in Closings
    /\ task' = IF task[s].state = to THEN task
               ELSE [task EXCEPT ![s] = [@ EXCEPT !.state = to, !.code = code,
                                                  !.owner = NoOwner, !.lease = FALSE]]
    /\ stepState' = [stepState EXCEPT ![s] = "failed"]
    /\ work' = Requested(d)
    /\ UNCHANGED <<runStatus, ledger, risk, continuation, endEvents>>

CanFinalizeSuccess(s) ==
    /\ task[s].state \in {"result_ready", "completed"}
    /\ stepState[s] \in {"queued", "running", "succeeded"}

FinalizeSuccess(s) ==
    /\ CanFinalizeSuccess(s)
    /\ stepState' = [stepState EXCEPT ![s] = "succeeded"]
    /\ task' = IF task[s].state = "result_ready"
               THEN [task EXCEPT ![s] = [@ EXCEPT !.state = "completed",
                                                  !.owner = NoOwner, !.lease = FALSE]]
               ELSE task
    /\ UNCHANGED <<runStatus, work, ledger, risk, continuation, endEvents>>

\* The same method without a provider task, for a result out of the cache.
CanFinalizeReuse(s) == stepState[s] \in {"queued", "running", "succeeded"}

FinalizeReuse(s) ==
    /\ CanFinalizeReuse(s)
    /\ stepState' = [stepState EXCEPT ![s] = "succeeded"]
    /\ UNCHANGED <<runStatus, task, work, ledger, risk, continuation, endEvents>>

-----------------------------------------------------------------------------
(* Run and step rows, messages and events.                                 *)

CanSetStep(s, st) == stepState[s] \notin StepTerminal \/ stepState[s] = st

SetStep(s, st) ==
    /\ CanSetStep(s, st)
    /\ stepState' = [stepState EXCEPT ![s] = st]
    /\ UNCHANGED <<runStatus, task, work, ledger, risk, continuation, endEvents>>

\* Mutant: update_run_status without its terminal guard.
CanSetRunAlways(st) == st \in Statuses

CanSetRun(st) == runStatus \notin Terminal \/ runStatus = st

SetRun(st) ==
    /\ CanSetRun(st)
    /\ runStatus' = st
    /\ UNCHANGED <<stepState, task, work, ledger, risk, continuation, endEvents>>

NotifyRisk(S) ==
    /\ risk' = risk \cup S
    /\ UNCHANGED <<runStatus, stepState, task, work, ledger, continuation, endEvents>>

\* The executor appends run.succeeded after it has updated the run.
AppendSucceeded ==
    /\ endEvents' = endEvents \cup {"succeeded"}
    /\ UNCHANGED <<runStatus, stepState, task, work, ledger, risk, continuation>>

-----------------------------------------------------------------------------
(* Time, and owners that are gone.  Every call takes a fresh identity, so  *)
(* the identity of a call that returned or died can be renamed to Ghost.   *)

LapseDispatch(s) ==
    /\ task[s].state = "dispatching" /\ task[s].lease
    /\ task' = [task EXCEPT ![s] = [@ EXCEPT !.lease = FALSE]]
    /\ UNCHANGED <<runStatus, stepState, work, ledger, risk, continuation, endEvents>>

LapseDeadline(s) ==
    /\ task[s].state \in InFlight /\ ~task[s].overdue
    /\ task' = [task EXCEPT ![s] = [@ EXCEPT !.overdue = TRUE]]
    /\ UNCHANGED <<runStatus, stepState, work, ledger, risk, continuation, endEvents>>

LapseWork ==
    /\ work.state = "settling" /\ work.live
    /\ work' = [work EXCEPT !.live = FALSE]
    /\ UNCHANGED <<runStatus, stepState, task, ledger, risk, continuation, endEvents>>

Retired(O) ==
    /\ task' = [s \in Steps |->
                   IF task[s].owner \in O THEN [task[s] EXCEPT !.owner = Ghost]
                                          ELSE task[s]]
    /\ work' = IF work.owner \in O THEN [work EXCEPT !.owner = Ghost] ELSE work

Retire(O) ==
    /\ Retired(O)
    /\ UNCHANGED <<runStatus, stepState, ledger, risk, continuation, endEvents>>

-----------------------------------------------------------------------------
TaskNext(s) ==
    \/ \E o \in Owners : \/ InsertTask(s, o)
                         \/ RenewDispatch(s, o)
                         \/ Activate(s, o)
                         \/ ResultReady(s, o)
    \/ \E c \in Closings, code \in Codes :
          \/ CloseTask(s, c[1], c[2], code)
          \/ \E d \in {"failed", "interrupted"} :
                FinalizeFailure(s, c[1], c[2], code, d)
    \/ FinalizeSuccess(s) \/ FinalizeReuse(s)
    \/ \E st \in StepStates : SetStep(s, st)
    \/ LapseDispatch(s)
    \/ LapseDeadline(s)

RunNext ==
    \/ \E d \in {"failed", "interrupted"} : RequestWork(d)
    \/ \E o \in Owners : ClaimWork(o) \/ CompleteWork(o)
    \/ \E st \in Statuses : SetRun(st)
    \/ \E S \in SUBSET Steps : NotifyRisk(S)
    \/ AppendSucceeded
    \/ LapseWork
    \/ \E O \in SUBSET Owners : Retire(O)

Next == RunNext \/ \E s \in Steps : TaskNext(s)

Spec == Init /\ [][Next]_storeVars

-----------------------------------------------------------------------------
(* A provider result and its cost commit together and a closed task never  *)
(* reopens: a step is charged exactly when its provider reported a result, *)
(* and a task that was charged is never recorded as cancelled or abandoned *)
(* (mark_provider_task_result_ready against the closers that race it).     *)
ChargedIffReported ==
    \A s \in Steps :
        /\ task[s].state = "result_ready" => s \in ledger
        /\ s \in ledger => task[s].state \in {"result_ready", "completed"}

(* Once a work item is completed the run, its steps, its terminal event    *)
(* and its self-heal hand-off all agree with it, whatever late transaction *)
(* still arrives (complete_run_terminalization).                           *)
SettledRunAgrees ==
    work.state = "completed" =>
        /\ runStatus = work.desired
        /\ work.desired \in endEvents
        /\ (work.desired = "failed") <=> (continuation = "pending")
        /\ \A s \in Steps : stepState[s] \in StepTerminal

(* A run is handed to self-heal only by a work item that settled it as     *)
(* failed: an explicit interrupt that reached the work item first is never *)
(* retried (the CASE on desired_status in request_run_terminalization).    *)
OnlySettledFailuresRetry ==
    continuation = "pending" =>
        work.state = "completed" /\ work.desired = "failed"

(* No late writer moves a terminal run, step or task anywhere else, and a  *)
(* requested interrupt is never weakened to a failure.                     *)
TerminalIsFinal ==
    [][ /\ runStatus \in Terminal => runStatus' = runStatus
        /\ \A s \in Steps :
              /\ stepState[s] \in StepTerminal => stepState'[s] = stepState[s]
              /\ task[s].state \in TaskTerminal => task'[s].state = task[s].state
        /\ work.state # "none" /\ work.desired = "interrupted" =>
              work'.desired = "interrupted" ]_storeVars

(* The rows implement RunLifecycle: no transaction charges a step twice or  *)
(* after its task was given up, reopens a run, or starts a retry later than *)
(* the failure it belongs to.                                               *)
Lifecycle == INSTANCE RunLifecycle WITH
    phase   <- IF runStatus \in Terminal THEN runStatus ELSE "open",
    retry   <- continuation = "pending",
    charged <- ledger,
    closed  <- {s \in Steps : task[s].state \in TaskTerminal}

Promise == Lifecycle!Spec
=============================================================================
