--------------------------- MODULE RunSettlement ---------------------------
(***************************************************************************)
(* One run from its claim to its terminal status, with everything in       *)
(* crates/run that drives it: the executor and its step workers, the       *)
(* terminal settler each of them (and the interrupt route, and recovery)   *)
(* may call, the remote provider, a server that can stop between any two   *)
(* transactions and the recovery that follows.                             *)
(*                                                                         *)
(* A step of a process here is the code between two awaits: at most one    *)
(* transaction of RunStore, or one call of the remote provider.            *)
(***************************************************************************)
EXTENDS RunStore, Naturals

CONSTANTS
    Deps,           \* Deps[s]: the steps whose outputs s reads (StepDag)
    MaxParallel,    \* max_parallel_steps
    MaxCrashes,     \* bound: how often the server stops
    MayInterrupt,   \* whether the user presses stop once
    Reusable,       \* the steps for which a cached result may be found
    Stalls          \* whether a live process may be paused past its leases

ASSUME ScheduleAssumption ==
    /\ Deps \in [Steps -> SUBSET Steps]
    /\ MaxParallel \in Nat \ {0}
    /\ MaxCrashes \in Nat
    /\ MayInterrupt \in BOOLEAN /\ Stalls \in BOOLEAN
    /\ Reusable \subseteq Steps

\* A graph with a cycle is refused before it is planned (GraphError::CycleDetected).
ASSUME AcyclicAssumption ==
    \A S \in SUBSET Steps : S # {} => \E s \in S : Deps[s] \cap S = {}

VARIABLES
    interrupt,   \* the executor's RunInterrupt flag
    exec,        \* execute_created_run
    worker,      \* worker[s]: where execute_step is for step s
    settler,     \* settler[a]: actor a's call of request_and_settle_terminal
    user,        \* interrupt_run
    boot,        \* recover_after_restart, for this run
    lease,       \* run_recovery_leases: none (or expired), held, orphan
    remote,      \* remote[s]: what the provider knows of the step's request
    crashes,
    reused       \* history: the steps that a cached result has finished

procVars == <<interrupt, exec, worker, settler, user, boot, lease, remote, crashes, reused>>
vars == <<storeVars, procVars>>

\* Each actor's calls hold leases under an identity of their own; a worker
\* dispatches its step under the step's.
Actors == {"user", "exec", "boot"} \cup Steps
ASSUME ActorAssumption ==
    /\ Owners = Actors
    /\ Steps \cap {"user", "exec", "boot"} = {}

Idle == [at |-> "off", seen |-> {}, cur |-> {}, wait |-> FALSE]
Settling(d) == [Idle EXCEPT !.at = d]

Results == {"ok", "interrupted", "error"}
Busy(s) == worker[s] # "idle"
Running == {s \in Steps : Busy(s)}
Registered == exec.at \notin {"off", "spawned"}  \* interrupts holds the run

SettleInit ==
    /\ Init
    /\ interrupt = FALSE
    /\ exec = [at |-> "start", started |-> {}, finished |-> {},
               interrupted |-> FALSE, failed |-> FALSE]
    /\ worker = [s \in Steps |-> "idle"]
    /\ settler = [a \in Actors |-> Idle]
    /\ user = "idle"
    /\ boot = "off"
    /\ lease = "none"
    /\ remote = [s \in Steps |-> "none"]
    /\ crashes = 0 /\ reused = {}

-----------------------------------------------------------------------------
(* request_and_settle_terminal, called by actor a.                         *)

SettlerAt(a, at) == settler[a].at = at
SettlerGoes(a, at) == settler' = [settler EXCEPT ![a].at = at]
Keep == UNCHANGED storeVars  \* a transaction that affected no row
SettlerOnly == UNCHANGED <<interrupt, exec, worker, user, boot, lease, crashes, reused>>

\* The call returns; its caller goes on, and its identity is never used again.
Return(a) ==
    /\ settler' = [settler EXCEPT ![a] = Idle]
    /\ Retire({a})
    /\ exec' = IF a # "exec" THEN exec
               ELSE [exec EXCEPT !.at = IF @ = "settleFailed" THEN "failing" ELSE "off"]
    /\ lease' = IF a = "exec" /\ exec'.at = "off" THEN "none" ELSE lease
    /\ worker' = IF a \in Steps THEN [worker EXCEPT ![a] = "interrupted"] ELSE worker
    /\ user' = IF a = "user" THEN "done" ELSE user
    /\ boot' = IF a # "boot" THEN boot
               ELSE IF boot = "resettle" THEN "scan" ELSE "release"
    /\ UNCHANGED <<interrupt, remote, crashes, reused>>

SettleRequest(a) ==
    \E d \in {"failed", "interrupted"} :
        /\ SettlerAt(a, d)
        /\ RequestWork(d)
        /\ SettlerGoes(a, "claim")
        /\ SettlerOnly /\ UNCHANGED remote

SettleClaim(a) ==
    /\ SettlerAt(a, "claim")
    /\ ClaimWork(a)
    /\ SettlerGoes(a, "renew")
    /\ SettlerOnly /\ UNCHANGED remote

SettleNotNeeded(a) ==
    /\ SettlerAt(a, "claim") /\ ~CanClaim(a)
    /\ runStatus \notin Active
    /\ Return(a)

\* Renew the lease and read the run's tasks; seen is what was read.
SettleRenew(a) ==
    /\ SettlerAt(a, "renew") /\ HoldsWork(a)
    /\ settler' = [settler EXCEPT ![a] =
          [Idle EXCEPT !.at = "scan",
             !.seen = {<<s, task[s].state>> : s \in
                         {t \in Steps : task[t].state \in InFlight}}]]
    /\ Keep /\ SettlerOnly /\ UNCHANGED remote

SettleLostLease(a) ==
    /\ SettlerAt(a, "renew") /\ ~HoldsWork(a)
    /\ Return(a)

\* The for loop takes the next task: p is the task as the scan read it.
Looks(a, p, at) ==
    settler' = [settler EXCEPT ![a].at = at, ![a].seen = @ \ {p}, ![a].cur = {p[1]}]
Waits(a, p) ==
    settler' = [settler EXCEPT ![a].seen = @ \ {p}, ![a].wait = TRUE]

ScanActive(a, p) ==
    /\ p[2] = "active"
    /\ Looks(a, p, "cancel")
    /\ Keep

\* Mutant: dispatch_owner_live is not asked for.
ScanDispatchingAnyOwner(a, p) ==
    p[2] = "dispatching" /\ Looks(a, p, "stopped") /\ Keep

ScanDispatching(a, p) ==
    /\ p[2] = "dispatching"
    /\ LET t == task[p[1]]
       IN  IF t.state = "dispatching" /\ t.lease THEN Waits(a, p)
                                                 ELSE Looks(a, p, "stopped")
    /\ Keep

ScanResultReady(a, p) ==
    LET t == task[p[1]]
        code == IF work.desired = "interrupted" THEN "interrupted" ELSE "deadline"
    IN  /\ p[2] = "result_ready"
        /\ IF work.desired = "interrupted" \/ (t.state = "result_ready" /\ t.overdue)
           THEN /\ Looks(a, p, "scan")
                /\ IF t.state = "result_ready"
                   THEN CloseTask(p[1], "result_ready", "completed", code)
                   ELSE Keep
           ELSE Waits(a, p) /\ Keep

SettleScan(a) ==
    /\ SettlerAt(a, "scan")
    /\ \E p \in settler[a].seen :
          ScanActive(a, p) \/ ScanDispatching(a, p) \/ ScanResultReady(a, p)
    /\ SettlerOnly /\ UNCHANGED remote

\* Mutant: a cancel that timed out counts as done.
SettleCancelOptimist(a) ==
    /\ SettlerAt(a, "cancel")
    /\ \/ \E s \in settler[a].cur :
             /\ remote[s] = "live"
             /\ remote' = [remote EXCEPT ![s] = "cancelled"]
       \/ UNCHANGED remote
    /\ SettlerGoes(a, "cancelled")
    /\ Keep /\ SettlerOnly

\* cancel_durable, up to 30 s: it succeeds only on a request still running.
SettleCancel(a) ==
    /\ SettlerAt(a, "cancel")
    /\ \/ \E s \in settler[a].cur :
             /\ remote[s] = "live"
             /\ remote' = [remote EXCEPT ![s] = "cancelled"]
             /\ SettlerGoes(a, "cancelled")
       \/ UNCHANGED remote /\ SettlerGoes(a, "unconfirmed")
    /\ Keep /\ SettlerOnly

\* Mutant: the billing-risk message is forgotten.
SettleCloseSilently(a) ==
    \E at \in {"cancelled", "unconfirmed", "stopped"}, s \in settler[a].cur :
        LET from == IF at = "stopped" THEN "dispatching" ELSE "active"
        IN  /\ SettlerAt(a, at)
            /\ IF task[s].state # from THEN Keep
               ELSE IF at = "cancelled" THEN CloseTask(s, from, "cancelled", "none")
               ELSE CloseTask(s, from, "abandoned", "stopped")
            /\ SettlerGoes(a, "scan")
            /\ SettlerOnly /\ UNCHANGED remote

\* The compare-and-swap that follows; its "no row" outcome is ignored.
SettleClose(a) ==
    \E at \in {"cancelled", "unconfirmed", "stopped"}, s \in settler[a].cur :
        LET from == IF at = "stopped" THEN "dispatching" ELSE "active"
        IN  /\ SettlerAt(a, at)
            /\ IF task[s].state # from THEN Keep
               ELSE IF at = "cancelled" THEN CloseTask(s, from, "cancelled", "none")
               ELSE CloseTask(s, from, "abandoned", "stopped")
            /\ SettlerGoes(a, IF at = "cancelled" THEN "scan" ELSE "risk")
            /\ SettlerOnly /\ UNCHANGED remote

SettleNotify(a) ==
    /\ SettlerAt(a, "risk")
    /\ NotifyRisk(settler[a].cur)
    /\ SettlerGoes(a, "scan")
    /\ SettlerOnly /\ UNCHANGED remote

SettleScanned(a) ==
    /\ SettlerAt(a, "scan") /\ settler[a].seen = {}
    /\ SettlerGoes(a, IF settler[a].wait THEN "renew" ELSE "complete")
    /\ Keep /\ SettlerOnly /\ UNCHANGED remote

SettleComplete(a) ==
    /\ SettlerAt(a, "complete")
    /\ IF CanComplete(a) THEN CompleteWork(a) ELSE Keep
    /\ SettlerGoes(a, "return")
    /\ SettlerOnly /\ UNCHANGED remote

SettleReturn(a) == SettlerAt(a, "return") /\ Return(a)

SettleStep(a) ==
    \/ SettleRequest(a)  \/ SettleClaim(a)  \/ SettleNotNeeded(a)
    \/ SettleRenew(a)    \/ SettleLostLease(a)
    \/ SettleScan(a)     \/ SettleCancel(a) \/ SettleClose(a)
    \/ SettleNotify(a)   \/ SettleScanned(a)
    \/ SettleComplete(a) \/ SettleReturn(a)

-----------------------------------------------------------------------------
(* execute_step for step s, up to the result its executor joins.           *)

WorkerAt(s, at) == worker[s] = at
WorkerGoes(s, at) == worker' = [worker EXCEPT ![s] = at]
WorkerOnly == UNCHANGED <<interrupt, exec, settler, user, boot, lease, crashes, reused>>

\* The worker calls the settler and goes on when it returns.
WorkerSettles(s) ==
    /\ WorkerGoes(s, "settling")
    /\ settler' = [settler EXCEPT ![s] = Settling("interrupted")]
    /\ Keep
    /\ UNCHANGED <<interrupt, exec, user, boot, lease, crashes, reused, remote>>

\* try_cache_hit: copies of a cached result finish the step, without a task of
\* the provider and without a charge; nothing else is looked at, not even the
\* interrupt.  A copy may fail, and the step may be closed already.  What the
\* entry says is left open here (see Artifacts).
StepReuses(s) ==
    /\ WorkerAt(s, "begin") /\ s \in Reusable
    /\ \/ FinalizeReuse(s) /\ reused' = reused \cup {s} /\ WorkerGoes(s, "ok")
       \/ Keep /\ UNCHANGED reused /\ WorkerGoes(s, "error")
    /\ UNCHANGED <<interrupt, exec, settler, user, boot, lease, remote, crashes>>

\* No usable entry, or the run was asked for with force_rerun.
StepBegin(s) ==
    /\ WorkerAt(s, "begin")
    /\ IF CanSetStep(s, "running")
       THEN SetStep(s, "running") /\ WorkerGoes(s, "insert")
       ELSE Keep /\ WorkerGoes(s, "error")
    /\ WorkerOnly /\ UNCHANGED remote

\* Mutant: a row that is neither active nor result_ready is dispatched anew.
StepInsertAgain(s) ==
    /\ WorkerAt(s, "insert")
    /\ IF task[s].state = "none"
       THEN InsertTask(s, s) /\ WorkerGoes(s, "dispatch")
       ELSE /\ Keep
            /\ WorkerGoes(s, CASE task[s].state = "active"       -> "poll"
                               [] task[s].state = "result_ready" -> "materialize"
                               [] OTHER                          -> "dispatch")
    /\ WorkerOnly /\ UNCHANGED remote

\* insert_or_read_provider_task, then the match on the row's state.
StepInsert(s) ==
    /\ WorkerAt(s, "insert")
    /\ IF task[s].state = "none"
       THEN InsertTask(s, s) /\ WorkerGoes(s, "dispatch")
       ELSE /\ Keep
            /\ WorkerGoes(s, CASE task[s].state = "active"       -> "poll"
                               [] task[s].state = "result_ready" -> "materialize"
                               [] OTHER                          -> "error")
    /\ WorkerOnly /\ UNCHANGED remote

StepRenew(s) ==
    /\ WorkerAt(s, "dispatch")
    /\ RenewDispatch(s, s) /\ ~task[s].lease
    /\ UNCHANGED procVars

\* The request reaches the provider; its answer is still on the way.
RemoteAccepts(s) ==
    /\ WorkerAt(s, "dispatch") /\ remote[s] = "none"
    /\ remote' = [remote EXCEPT ![s] = "live"]
    /\ Keep /\ UNCHANGED worker /\ WorkerOnly

DispatchAccepted(s) ==
    /\ WorkerAt(s, "dispatch") /\ remote[s] # "none"
    /\ IF OwnsDispatch(s, s) THEN Activate(s, s) /\ WorkerGoes(s, "activated")
                             ELSE Keep /\ WorkerGoes(s, "error")
    /\ WorkerOnly /\ UNCHANGED remote

\* A synchronous provider answers with the result itself.
DispatchCompleted(s) ==
    /\ WorkerAt(s, "dispatch") /\ remote[s] = "live"
    /\ remote' = [remote EXCEPT ![s] = "done"]
    /\ WorkerGoes(s, "spool")
    /\ Keep /\ WorkerOnly

\* Mutant: the rows fail without the work item of the same transaction.
FailsWithoutWork(s, from, to, code, d) ==
    IF CanFinalizeFailure(s, from, to, code) /\ task[s].state # to
    THEN /\ task' = [task EXCEPT ![s] = [@ EXCEPT !.state = to, !.code = code]]
         /\ stepState' = [stepState EXCEPT ![s] = "failed"]
         /\ UNCHANGED <<runStatus, work, ledger, risk, continuation, endEvents>>
    ELSE Keep

\* The step's task and step rows fail together when the rows still allow it.
Fails(s, from, to, code, d) ==
    IF CanFinalizeFailure(s, from, to, code)
    THEN FinalizeFailure(s, from, to, code, d) ELSE Keep

\* NotSubmitted (submitted = FALSE) or Rejected: nothing runs remotely.
DispatchRefused(s) ==
    /\ WorkerAt(s, "dispatch") /\ remote[s] = "none"
    /\ \E submitted \in BOOLEAN :
          IF interrupt /\ ~submitted
          THEN /\ IF task[s].state = "dispatching"
                  THEN CloseTask(s, "dispatching", "completed", "interrupted")
                  ELSE Keep
               /\ WorkerGoes(s, "interrupted")
          ELSE /\ Fails(s, "dispatching", "completed", "refused", "failed")
               /\ WorkerGoes(s, "error")
    /\ WorkerOnly /\ UNCHANGED remote

\* Timeout, broken answer, or an owner lease that could not be renewed.
DispatchUnknown(s) ==
    /\ WorkerAt(s, "dispatch")
    /\ Fails(s, "dispatching", "abandoned", "unknown", "interrupted")
    /\ WorkerGoes(s, "unknownRisk")
    /\ WorkerOnly /\ UNCHANGED remote

StepNotify(s) ==
    /\ worker[s] \in {"unknownRisk", "overdueRisk"}
    /\ NotifyRisk({s})
    /\ WorkerGoes(s, IF WorkerAt(s, "unknownRisk") THEN "settle" ELSE "interrupted")
    /\ WorkerOnly /\ UNCHANGED remote

StepSettle(s) == WorkerAt(s, "settle") /\ WorkerSettles(s)

\* The handle is durable; an interrupt seen now is handed to the settler.
StepActivated(s) ==
    /\ WorkerAt(s, "activated")
    /\ IF interrupt THEN WorkerSettles(s)
       ELSE WorkerGoes(s, "poll") /\ Keep /\ WorkerOnly /\ UNCHANGED remote

\* resume_provider_task.
PollStops(s) ==
    /\ WorkerAt(s, "poll")
    /\ WorkerGoes(s, IF interrupt THEN "interrupted" ELSE "error")  \* resume()?
    /\ Keep /\ WorkerOnly /\ UNCHANGED remote

PollAnswered(s) ==
    /\ WorkerAt(s, "poll") /\ remote[s] \in {"done", "failed"}
    /\ WorkerGoes(s, IF remote[s] = "done" THEN "spool" ELSE "spoolFailed")
    /\ Keep /\ WorkerOnly /\ UNCHANGED remote

\* The recovery deadline passed: cancel, or abandon what cannot be cancelled.
PollOverdue(s) ==
    /\ WorkerAt(s, "poll") /\ ~interrupt
    /\ task[s].state = "active" /\ task[s].overdue
    /\ \/ /\ remote[s] = "live"
          /\ remote' = [remote EXCEPT ![s] = "cancelled"]
          /\ WorkerGoes(s, "overdueCancelled")
       \/ WorkerGoes(s, "overdueAbandon") /\ UNCHANGED remote
    /\ Keep /\ WorkerOnly

CloseOverdue(s) ==
    \/ /\ WorkerAt(s, "overdueCancelled")
       /\ IF task[s].state = "active"
          THEN CloseTask(s, "active", "cancelled", "none") ELSE Keep
       /\ WorkerGoes(s, "interrupted")
       /\ WorkerOnly /\ UNCHANGED remote
    \/ /\ WorkerAt(s, "overdueAbandon")
       /\ IF task[s].state = "active"
          THEN CloseTask(s, "active", "abandoned", "deadline") ELSE Keep
       /\ WorkerGoes(s, "overdueRisk")
       /\ WorkerOnly /\ UNCHANGED remote

\* spool_provider_result; a provider failure is spooled like a result.
StepSpool(s) ==
    /\ worker[s] \in {"spool", "spoolFailed"}
    /\ IF CanResultReady(s, s)
       THEN /\ ResultReady(s, s)
            /\ WorkerGoes(s, IF WorkerAt(s, "spool") THEN "materialize" ELSE "failFinal")
       ELSE Keep /\ WorkerGoes(s, "error")
    /\ WorkerOnly /\ UNCHANGED remote

StepFailFinal(s) ==
    /\ WorkerAt(s, "failFinal")
    /\ Fails(s, "result_ready", "completed", "refused", "failed")
    /\ WorkerGoes(s, "error")
    /\ WorkerOnly /\ UNCHANGED remote

\* materialize_provider_task reads the timing columns of the row first; both
\* are false of a task that is no longer result_ready, and the loop sleeps.
Materialize(s) ==
    /\ WorkerAt(s, "materialize") /\ task[s].state = "result_ready"
    /\ IF task[s].overdue
       THEN /\ Fails(s, "result_ready", "completed", "deadline", "failed")
            /\ WorkerGoes(s, "error")
       ELSE Keep /\ WorkerGoes(s, "publish")
    /\ WorkerOnly /\ UNCHANGED remote

\* materialize_provider_task_once: publish the artifacts and finish the step,
\* or give up (the result is invalid), or record the failure and try again.
Publish(s) ==
    /\ WorkerAt(s, "publish")
    /\ \/ /\ task[s].state # "result_ready"
          /\ Keep /\ WorkerGoes(s, "interrupted")
       \/ /\ task[s].state = "result_ready" /\ CanFinalizeSuccess(s)
          /\ FinalizeSuccess(s) /\ WorkerGoes(s, "published")
       \/ /\ Fails(s, "result_ready", "completed", "invalid", "failed")
          /\ WorkerGoes(s, "error")
       \/ /\ Keep
          /\ WorkerGoes(s, IF task[s].state = "result_ready" /\ ~task[s].overdue
                           THEN "materialize" ELSE "error")
    /\ WorkerOnly /\ UNCHANGED remote

StepPublished(s) ==
    /\ WorkerAt(s, "published")
    /\ WorkerGoes(s, IF interrupt THEN "interrupted" ELSE "ok")
    /\ Keep /\ WorkerOnly /\ UNCHANGED remote

StepStep(s) ==
    \/ StepReuses(s)
    \/ StepBegin(s)        \/ StepInsert(s)      \/ StepRenew(s)
    \/ DispatchAccepted(s) \/ DispatchCompleted(s)
    \/ DispatchRefused(s)  \/ DispatchUnknown(s) \/ StepNotify(s)
    \/ StepSettle(s)       \/ StepActivated(s)   \/ PollStops(s)
    \/ PollAnswered(s)     \/ PollOverdue(s)     \/ CloseOverdue(s)
    \/ StepSpool(s)        \/ StepFailFinal(s)   \/ Materialize(s)
    \/ Publish(s)          \/ StepPublished(s)

RemoteFinishes(s) ==
    /\ remote[s] = "live"
    /\ \E end \in {"done", "failed"} : remote' = [remote EXCEPT ![s] = end]
    /\ Keep /\ UNCHANGED worker /\ WorkerOnly

-----------------------------------------------------------------------------
(* execute_created_run: the scheduling loop over the step DAG.             *)

ExecAt(at) == exec.at = at
ExecGoes(at) == exec' = [exec EXCEPT !.at = at]
ExecOnly == UNCHANGED <<settler, user, boot, lease, remote, crashes, reused>>

\* ? inside execute_created_run_inner: its JoinSet is dropped, which aborts
\* every worker where it awaits, and the run is settled as failed.
ExecErrs ==
    /\ ExecGoes("failing")
    /\ worker' = [s \in Steps |-> "idle"]
    /\ settler' = [a \in Actors |-> IF a \in Steps THEN Idle ELSE settler[a]]
    /\ Retire(Steps)
    /\ UNCHANGED <<user, boot, lease, remote, crashes, reused>>

ExecSettles(d, at) ==
    /\ ExecGoes(at)
    /\ settler' = [settler EXCEPT !["exec"] = Settling(d)]
    /\ Keep
    /\ UNCHANGED <<interrupt, worker, user, boot, lease, remote, crashes, reused>>

ExecRegister ==
    /\ ExecAt("spawned") /\ ExecGoes("start")
    /\ interrupt' = FALSE
    /\ Keep /\ UNCHANGED worker /\ ExecOnly

ExecStart ==
    LET done == {s \in Steps : stepState[s] = "succeeded"}
    IN  /\ ExecAt("start")
        /\ IF CanSetRun("running")
           THEN /\ SetRun("running")
                /\ exec' = [at |-> "top", started |-> done, finished |-> done,
                            interrupted |-> FALSE, failed |-> FALSE]
                /\ UNCHANGED worker /\ ExecOnly
           ELSE ExecErrs
        /\ UNCHANGED interrupt

Unstarted == Steps \ exec.started
Stopping == exec.failed \/ exec.interrupted \/ interrupt
\* Mutant: the DAG is ignored.
ReadyAnyOrder == Unstarted

Ready == {s \in Unstarted : Deps[s] \subseteq exec.finished}

ExecSkips ==
    /\ ExecAt("top") /\ Stopping
    /\ \E s \in Unstarted :
          IF CanSetStep(s, "skipped")
          THEN /\ SetStep(s, "skipped")
               /\ exec' = [exec EXCEPT !.started = @ \cup {s}, !.finished = @ \cup {s},
                                       !.interrupted = @ \/ (interrupt /\ ~exec.failed)]
               /\ UNCHANGED worker /\ ExecOnly
          ELSE ExecErrs
    /\ UNCHANGED interrupt

\* Spawn what is ready and leave the top of the loop.
ExecTop ==
    /\ ExecAt("top") /\ (Stopping => Unstarted = {})
    /\ \E S \in SUBSET Ready :
          LET free == MaxParallel - Cardinality(Running)
              spawned == IF Stopping THEN {} ELSE S
          IN  /\ Cardinality(S) <= free
              /\ Cardinality(S) = free \/ S = Ready
              /\ worker' = [s \in Steps |-> IF s \in spawned THEN "begin" ELSE worker[s]]
              /\ exec' = [exec EXCEPT
                     !.at = IF exec.finished = Steps \/ Running \cup spawned = {}
                            THEN "finish" ELSE "join",
                     !.started = @ \cup spawned,
                     !.interrupted = @ \/ (interrupt /\ ~exec.failed)]
    /\ Keep /\ UNCHANGED interrupt /\ ExecOnly

\* The loop joins one worker; joined is the executor's state after it.
ExecJoin(s) ==
    LET joined == [exec EXCEPT !.at = "top", !.finished = @ \cup {s}]
        sets(st, next) ==
            IF CanSetStep(s, st)
            THEN /\ SetStep(s, st)
                 /\ exec' = next
                 /\ worker' = [worker EXCEPT ![s] = "idle"] /\ ExecOnly
            ELSE ExecErrs
    IN  /\ ExecAt("join")
        /\ \/ /\ WorkerAt(s, "ok") \/ (WorkerAt(s, "error") /\ exec.failed)
              /\ exec' = joined
              /\ worker' = [worker EXCEPT ![s] = "idle"]
              /\ Keep /\ UNCHANGED interrupt /\ ExecOnly
           \/ /\ WorkerAt(s, "interrupted")
              /\ interrupt' = TRUE
              /\ sets("skipped", [joined EXCEPT !.interrupted = TRUE])
           \/ /\ WorkerAt(s, "error") /\ ~exec.failed
              /\ sets("failed", [joined EXCEPT !.failed = TRUE])
              /\ interrupt' = (interrupt \/ CanSetStep(s, "failed"))

ExecSettleFailed ==
    ExecAt("finish") /\ exec.failed /\ ExecSettles("failed", "settleFailed")

ExecSettleInterrupted ==
    /\ ExecAt("finish") /\ ~exec.failed /\ (exec.interrupted \/ interrupt)
    /\ ExecSettles("interrupted", "settling")

ExecFailing == ExecAt("failing") /\ ExecSettles("failed", "settling")

\* Mutant: only failures keep a run from succeeding.
ExecUndisturbedByStops ==
    /\ ExecAt("finish") /\ ~exec.failed
    /\ ExecGoes("succeed")
    /\ Keep /\ UNCHANGED <<interrupt, worker>> /\ ExecOnly

\* The flag is read before update_run_status is awaited.
ExecUndisturbed ==
    /\ ExecAt("finish") /\ ~exec.failed /\ ~exec.interrupted /\ ~interrupt
    /\ ExecGoes("succeed")
    /\ Keep /\ UNCHANGED <<interrupt, worker>> /\ ExecOnly

ExecSucceeds ==
    /\ ExecAt("succeed")
    /\ IF CanSetRun("succeeded")
       THEN SetRun("succeeded") /\ ExecGoes("announce")
       ELSE Keep /\ ExecGoes("failing")
    /\ UNCHANGED <<interrupt, worker>> /\ ExecOnly

ExecAnnounces ==
    /\ ExecAt("announce")
    /\ AppendSucceeded
    /\ ExecGoes("off") /\ lease' = "none"
    /\ UNCHANGED <<interrupt, worker, settler, user, boot, remote, crashes, reused>>

ExecStep ==
    \/ ExecRegister \/ ExecStart \/ ExecSkips \/ ExecTop
    \/ \E s \in Steps : ExecJoin(s)
    \/ ExecSettleFailed \/ ExecSettleInterrupted \/ ExecFailing
    \/ ExecUndisturbed \/ ExecSucceeds \/ ExecAnnounces

-----------------------------------------------------------------------------
(* interrupt_run.                                                          *)

UserInterrupts ==
    /\ MayInterrupt /\ user = "idle"
    /\ user' = "check"
    /\ interrupt' = (interrupt \/ Registered)
    /\ Keep /\ UNCHANGED <<exec, worker, settler, boot, lease, remote, crashes, reused>>

UserChecks ==
    /\ user = "check"
    /\ IF runStatus \in Active
       THEN /\ user' = "settling"
            /\ settler' = [settler EXCEPT !["user"] = Settling("interrupted")]
       ELSE user' = "done" /\ UNCHANGED settler  \* RunNotActive
    /\ Keep /\ UNCHANGED <<interrupt, exec, worker, boot, lease, remote, crashes, reused>>

-----------------------------------------------------------------------------
(* The server stops, and recover_after_restart when it is back.            *)

\* Memory is lost; rows, leases and what the provider runs are not.
Crash ==
    /\ crashes < MaxCrashes
    /\ crashes' = crashes + 1
    /\ Retire(Actors)
    /\ interrupt' = FALSE
    /\ exec' = [at |-> "off", started |-> {}, finished |-> {},
                interrupted |-> FALSE, failed |-> FALSE]
    /\ worker' = [s \in Steps |-> "idle"]
    /\ settler' = [a \in Actors |-> Idle]
    /\ user' = IF user = "idle" THEN "idle" ELSE "done"
    /\ boot' = "pending"
    /\ lease' = IF lease = "none" THEN "none" ELSE "orphan"
    /\ UNCHANGED <<remote, reused>>

BootGoes(at) == boot' = at
BootOnly == UNCHANGED <<interrupt, worker, user, remote, crashes, reused>>

BootSettles(at, d) ==
    /\ BootGoes(at)
    /\ settler' = [settler EXCEPT !["boot"] = Settling(d)]
    /\ Keep /\ UNCHANGED <<exec, lease>> /\ BootOnly

Dispatching == {s \in Steps : task[s].state = "dispatching"}
MissingHandle == {s \in Steps : stepState[s] = "running" /\ task[s].state = "none"}

BootPending ==
    /\ boot = "pending"
    /\ IF work.state = "settling" THEN BootSettles("resettle", work.desired)
       ELSE BootGoes("scan") /\ Keep /\ UNCHANGED <<exec, settler, lease>> /\ BootOnly

\* Mutant: the run is left as it is when its steps have not all been queued.
BootScanOnlyQueued ==
    /\ boot = "scan"
    /\ IF runStatus \in Active /\ lease = "none" /\ \A s \in Steps : stepState[s] = "queued"
       THEN BootGoes("await") /\ lease' = "held"
       ELSE BootGoes("off") /\ UNCHANGED lease
    /\ Keep /\ UNCHANGED <<exec, settler>> /\ BootOnly

\* claim_run_recovery_lease: a lease another owner still holds is left alone.
BootScan ==
    /\ boot = "scan"
    /\ IF runStatus \in Active /\ lease = "none"
       THEN BootGoes("await") /\ lease' = "held"
       ELSE BootGoes("off") /\ UNCHANGED lease
    /\ Keep /\ UNCHANGED <<exec, settler>> /\ BootOnly

BootLostLease ==
    /\ boot = "await" /\ lease = "none"
    /\ \E s \in Steps : task[s].state = "dispatching" /\ task[s].lease
    /\ BootGoes("off")
    /\ Keep /\ UNCHANGED <<exec, settler, lease>> /\ BootOnly

\* No dispatch owner is alive any more; the code reads the rows again.
BootAwaited ==
    /\ boot = "await"
    /\ \A s \in Dispatching : ~task[s].lease
    /\ BootGoes(IF Dispatching = {} THEN "classify" ELSE "abandon")
    /\ Keep /\ UNCHANGED <<exec, settler, lease>> /\ BootOnly

\* One dispatching task at a time: abandon it, then tell the user.
BootAbandons ==
    /\ boot = "abandon"
    /\ IF Dispatching = {} THEN BootSettles("giveup", "interrupted")
       ELSE /\ \E s \in Dispatching :
                   /\ CloseTask(s, "dispatching", "abandoned", "lost")
                   /\ settler' = [settler EXCEPT !["boot"].cur = {s}]
            /\ BootGoes("abandonRisk")
            /\ UNCHANGED <<exec, lease>> /\ BootOnly

BootNotifies ==
    /\ boot \in {"abandonRisk", "handleRisk"}
    /\ IF boot = "handleRisk"
       THEN /\ NotifyRisk(MissingHandle)
            /\ BootGoes("giveup")
            /\ settler' = [settler EXCEPT !["boot"] = Settling("interrupted")]
       ELSE /\ NotifyRisk(settler["boot"].cur)
            /\ BootGoes("abandon") /\ UNCHANGED settler
    /\ UNCHANGED <<exec, lease>> /\ BootOnly

\* restart_intent_is_complete reads rows this module does not have: either.
BootClassifies ==
    /\ boot = "classify"
    /\ \/ /\ MissingHandle # {}
          /\ BootGoes("handleRisk") /\ Keep /\ UNCHANGED <<exec, settler, lease>> /\ BootOnly
       \/ /\ \A s \in Steps : stepState[s] = "queued"
          /\ BootSettles("giveup", "interrupted")
       \/ /\ MissingHandle = {}
          /\ exec' = [exec EXCEPT !.at = "spawned"]
          /\ BootGoes("off") /\ Keep /\ UNCHANGED <<settler, lease>> /\ BootOnly

BootReleases ==
    /\ boot = "release"
    /\ BootGoes("off") /\ lease' = "none"
    /\ Keep /\ UNCHANGED <<exec, settler>> /\ BootOnly

BootStep ==
    \/ BootPending \/ BootScan \/ BootLostLease \/ BootAwaited \/ BootAbandons
    \/ BootNotifies \/ BootClassifies \/ BootReleases

-----------------------------------------------------------------------------
(* Time.  A lease lapses when nobody renews it: its owner is gone, or a    *)
(* deadline stops the renewal, or (Stalls) its owner does not run for 60 s. *)

DispatchLeaseLapses(s) ==
    /\ \/ Stalls
       \/ task[s].owner = Ghost \/ task[s].overdue
       \/ worker[s] \notin {"dispatch", "spool"}
    /\ LapseDispatch(s) /\ UNCHANGED procVars

DeadlinePasses(s) == LapseDeadline(s) /\ UNCHANGED procVars

WorkLeaseLapses ==
    /\ Stalls \/ work.owner = Ghost
    /\ LapseWork /\ UNCHANGED procVars

\* The heartbeat of a recovered run finds its lease lost and interrupts it.
RecoveryLeaseLapses ==
    /\ lease = "orphan" \/ (lease = "held" /\ Stalls)
    /\ lease' = "none"
    /\ interrupt' = (interrupt \/ (lease = "held" /\ Registered))
    /\ Keep /\ UNCHANGED <<exec, worker, settler, user, boot, remote, crashes, reused>>

Time ==
    \/ \E s \in Steps : DispatchLeaseLapses(s) \/ DeadlinePasses(s)
    \/ WorkLeaseLapses \/ RecoveryLeaseLapses

-----------------------------------------------------------------------------
SettleNext ==
    \/ ExecStep
    \/ \E s \in Steps : StepStep(s) \/ RemoteAccepts(s) \/ RemoteFinishes(s)
    \/ \E a \in Actors : SettleStep(a)
    \/ UserInterrupts \/ UserChecks
    \/ Crash \/ BootStep \/ Time

SettleSpec == SettleInit /\ [][SettleNext]_vars

(* tokio runs every task that can run, provider requests end, and clocks   *)
(* advance.  Nothing makes the user press stop or the server crash.        *)
Fairness ==
    /\ WF_vars(ExecStep) /\ WF_vars(UserChecks) /\ WF_vars(BootStep)
    /\ \A a \in Actors : WF_vars(SettleStep(a))
    /\ \A s \in Steps : /\ WF_vars(StepStep(s)) /\ WF_vars(RemoteFinishes(s))
                        /\ WF_vars(DispatchLeaseLapses(s)) /\ WF_vars(DeadlinePasses(s))
    /\ WF_vars(WorkLeaseLapses) /\ WF_vars(RecoveryLeaseLapses)

FairSpec == SettleSpec /\ Fairness

-----------------------------------------------------------------------------
SettlerPlaces == {"off", "failed", "interrupted", "claim", "renew", "scan",
                  "cancel", "cancelled", "unconfirmed", "stopped", "risk",
                  "complete", "return"}
WorkerPlaces == Results \cup
    {"idle", "begin", "insert", "dispatch", "activated", "poll", "spool",
     "spoolFailed", "failFinal", "materialize", "publish", "published",
     "unknownRisk", "overdueRisk", "overdueCancelled", "overdueAbandon",
     "settle", "settling"}
ExecPlaces == {"off", "spawned", "start", "top", "join", "finish", "succeed",
               "settleFailed", "settling", "failing", "announce"}
BootPlaces == {"off", "pending", "resettle", "scan", "await", "abandon",
               "abandonRisk", "classify", "handleRisk", "giveup", "release"}

\* The type invariant of the processes; the rows have RunStore's.
ProcTypeOK ==
    /\ interrupt \in BOOLEAN
    /\ exec \in [at : ExecPlaces, started : SUBSET Steps, finished : SUBSET Steps,
                 interrupted : BOOLEAN, failed : BOOLEAN]
    /\ worker \in [Steps -> WorkerPlaces]
    /\ settler \in [Actors -> [at : SettlerPlaces, seen : SUBSET (Steps \X InFlight),
                               cur : SUBSET Steps, wait : BOOLEAN]]
    /\ user \in {"idle", "check", "settling", "done"}
    /\ boot \in BootPlaces
    /\ lease \in {"none", "held", "orphan"}
    /\ remote \in [Steps -> {"none", "live", "done", "failed", "cancelled"}]
    /\ crashes \in 0 .. MaxCrashes
    /\ reused \subseteq Steps

(* A run is recorded as succeeded only when every step of its plan is, and  *)
(* each of them was finished by a cached result or has its task closed and  *)
(* its cost in the ledger, however often the run was resumed and whoever    *)
(* tried to stop it (execute_created_run_inner, execute_step).              *)
SucceededRunIsComplete ==
    runStatus = "succeeded" =>
        \A s \in Steps :
            /\ stepState[s] = "succeeded"
            /\ s \in reused \/ (task[s].state = "completed" /\ s \in ledger)

(* What the rows say of money is true of the provider: a charged step was   *)
(* reported on, a cancelled task was really stopped, and a task closed as   *)
(* refused before any result never reached the provider (the two halves of  *)
(* each remote call, with a crash, a timeout or another closer between).    *)
RowsTellTheTruth ==
    /\ ProcTypeOK
    /\ \A s \in Steps :
        /\ s \in ledger => remote[s] \in {"done", "failed"}
        /\ task[s].state = "cancelled" => remote[s] = "cancelled"
        /\ task[s].state = "completed" /\ s \notin ledger => remote[s] = "none"

(* A request the provider may already have is never sent again: not by the  *)
(* recovered executor, not after an unknown outcome (product.md, 3 and 11). *)
NeverResubmits ==
    [][\A s \in Steps :
          worker[s] # "dispatch" /\ worker'[s] = "dispatch" => remote[s] = "none"]_vars

(* While a dispatch call is renewing its lease nobody declares its owner    *)
(* stopped or lost: settler and recovery wait for it (product.md, 2).       *)
LiveOwnerIsWaitedFor ==
    [][\A s \in Steps :
          /\ OwnsDispatch(s, s) /\ task[s].lease
          /\ task'[s].state = "abandoned"
          => task'[s].code = "unknown"]_vars

(* A step is only given to a worker when the steps it reads from have       *)
(* succeeded, also when the executor resumes a run from its rows.           *)
InputsAreReady ==
    [][\A s \in Steps : WorkerAt(s, "idle") /\ worker'[s] = "begin" =>
          \A d \in Deps[s] : stepState[d] = "succeeded"]_vars

\* Every step of every process is a transaction of the store, or none.
StoreSpec == Spec

(* Once a terminal status is asked for the run gets there: no settler waits *)
(* for another one, or for a task, for ever (request_and_settle_terminal).  *)
SettlingEnds == work.state = "settling" ~> runStatus \in Terminal

(* Every run ends, whichever worker, executor or recovery was the last to   *)
(* hold it (recover_after_restart, fail_active_run_after_error).            *)
RunEnds == <>(runStatus \in Terminal)

(* The user is told of every task the server stopped following while it may *)
(* still cost money, unless it stops between abandon_provider_task and      *)
(* persist_billing_risk.  (Of parallel steps not even that: see             *)
(* AbandonedIsTold.)                                                        *)
ToldUnlessStopped ==
    \A s \in Steps :
        task[s].state = "abandoned" /\ crashes = 0 ~> s \in risk \/ crashes > 0

-----------------------------------------------------------------------------
(* What specs/GH154 says of this code and the code does not do.            *)

(* product.md, 12: a run is not terminal while a task of it is active.      *)
NoTaskOutlivesItsRun ==
    runStatus \in Terminal => \A s \in Steps : task[s].state \notin InFlight

(* product.md, 16: the task is abandoned and the user told in one write, so *)
(* that nothing can come between them.                                      *)
AbandonedIsTold == \A s \in Steps : task[s].state = "abandoned" ~> s \in risk

(* tech.md: a task whose provider failed is charged and has no success.     *)
FailedResultIsNoSuccess ==
    \A s \in Steps : stepState[s] = "succeeded" => remote[s] = "done" \/ s \in reused

(* product.md, acceptance: a late completion does not overwrite a run whose *)
(* interrupt is already in the work item.                                   *)
InterruptIsNotOverwritten ==
    [][work.state = "settling" /\ work.desired = "interrupted" /\ runStatus \in Active
       => runStatus' # "succeeded"]_vars

(* product.md, 12: the work item stops the scheduling of new steps.         *)
NoStepAfterWorkItem ==
    [][\A s \in Steps : work.state # "none" /\ worker[s] = "idle"
          => worker'[s] # "begin"]_vars

(* tests.rs, parallel_tests.rs: an interrupted run's execution returns.     *)
InterruptedExecutionReturns == user = "settling" ~> exec.at = "off"

=============================================================================
