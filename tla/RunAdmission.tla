---------------------------- MODULE RunAdmission ----------------------------
(***************************************************************************)
(* Which runs of one workspace may start, and who starts them: the queue,  *)
(* confirm, hold, stop and reject routes, the agent's run and sweep        *)
(* requests, the cost gate, the sweep task, the self-heal loop, and the    *)
(* recovery that runs beside new requests after the server has stopped.    *)
(*                                                                         *)
(* A step is the code between two awaits: at most one transaction.  What   *)
(* an executor does with its steps is the subject of RunSettlement; here   *)
(* it ends its run in one of three ways.                                   *)
(***************************************************************************)
EXTENDS Naturals, Sequences, FiniteSets

CONSTANTS
    Calls,       \* requests the server receives
    Ops,         \* which routes they may use
    Earlier,     \* bound: the requests that come before a request, if ordered
    NoCall,      \* nobody
    MaxRuns,     \* bound: run rows, in the order of their creation
    SweepSize,   \* variants of a seed sweep
    MaxRetries,  \* max_run_retries
    Requeue,     \* HELIXFLOW_RUN_REQUEUE_ON_RESTART
    MaxCrashes   \* bound: how often the server stops

ASSUME AdmissionAssumption ==
    /\ NoCall \notin Calls /\ Earlier \in [Calls -> SUBSET Calls]
    /\ MaxRuns \in Nat \ {0} /\ SweepSize \in Nat \ {0, 1}
    /\ MaxRetries \in Nat /\ MaxCrashes \in Nat /\ Requeue \in BOOLEAN

VARIABLES
    run,        \* runs
    work,       \* run_terminalization_work_items: none, a status, or done
    cont,       \* run_failure_continuations: state and child_run_id
    rejected,   \* run_reject_retries: child_run_id
    intent,     \* run_execution_intents
    flag,       \* the interrupts map: whose RunInterrupt it holds for a run
    signalled,  \* RunInterrupts that were requested, as <<run, owner>>
    execs,      \* tasks inside execute_created_run
    heals,      \* tasks inside prepare_retry
    call,       \* requests and the sweep tasks they spawn
    queueLock,  \* run_queue_locks of the workspace
    boot,       \* recover_after_restart
    crashes,
    confirmed   \* runs a user has confirmed (history; never read)

rowVars == <<run, work, cont, rejected, intent>>
memVars == <<flag, signalled, execs, heals>>
vars == <<rowVars, memVars, call, queueLock, boot, crashes, confirmed>>

Runs == 1 .. MaxRuns
ActiveStates == {"queued", "estimating", "running"}
Terminal == {"succeeded", "failed", "interrupted"}
Tags == Calls \cup {"loop", "boot", "respawn", "resume"}

NoRun == [st |-> "none", grp |-> 0, cost |-> "none", attempt |-> 0,
          parent |-> 0, force |-> FALSE]
NoCont == [state |-> "none", child |-> 0]
NewCall == [op |-> "none", at |-> "new", r |-> 0, list |-> <<>>, i |-> 0]
Finished == [op |-> "none", at |-> "done", r |-> 0, list |-> <<>>, i |-> 0]
NoBoot == [at |-> "off", todo |-> {}, keeper |-> 0]

Existing == {r \in Runs : run[r].st # "none"}
Latest == Cardinality(Existing)
IsActive(r) == run[r].st \in ActiveStates
IsSweep(r) == run[r].grp # 0
Members(g) == {r \in Runs : run[r].grp = g}
\* The sequence (as a set of one) and the least of a set of runs.
Ascending(S) == {q \in [1 .. Cardinality(S) -> S] :
                    \A j, k \in 1 .. Cardinality(S) : j < k => q[j] < q[k]}
Least(S) == {r \in S : \A o \in S : r <= o}

AdmissionInit ==
    /\ run = [r \in Runs |-> NoRun]
    /\ work = [r \in Runs |-> "none"]
    /\ cont = [r \in Runs |-> NoCont]
    /\ rejected = [r \in Runs |-> 0]
    /\ intent = {}
    /\ flag = [r \in Runs |-> NoCall]
    /\ signalled = {}
    /\ execs = {}
    /\ heals = {}
    /\ call = [c \in Calls |-> NewCall]
    /\ queueLock = NoCall
    /\ boot = NoBoot
    /\ crashes = 0
    /\ confirmed = {}

-----------------------------------------------------------------------------
(* Transactions on runs.                                                   *)

\* Mutant: a sweep member shares the workspace with any other sweep.
BusyWithAnySweep(r, g) ==
    \E o \in Runs \ {r} : IsActive(o) /\ (g = 0 \/ run[o].grp = 0)

\* ensure_workspace_not_busy, and the same test inside every admission.
Busy(r, g) == \E o \in Runs \ {r} : IsActive(o) /\ (g = 0 \/ run[o].grp # g)

SetStatus(r, st) == run' = [run EXCEPT ![r].st = st]

\* Mutant: the claim compares the status and leaves out NOT EXISTS.
ClaimableWhenBusy(r, from) == run[r].st = from

\* The WHERE clause of claim_run_if_workspace_idle.
Claimable(r, from) == run[r].st = from /\ ~Busy(r, run[r].grp)

\* update_run_status_if_current, which refuses a busy workspace too.
Swappable(r, from, to) ==
    /\ run[r].st = from
    /\ to \in ActiveStates => ~Busy(r, run[r].grp)

\* update_run_status and update_run_estimate_and_status refuse a run that
\* has ended.
Accepts(r, st) == run[r].st \notin Terminal \/ run[r].st = st

\* create_run; also create_retry_run_once and create_reject_retry_run_once.
Insert(row) == run' = [run EXCEPT ![Latest + 1] = row]
Room(n) == Latest + n <= MaxRuns  \* bound

NewRun(g) == [st |-> "estimating", grp |-> g, cost |-> "none",
              attempt |-> 0, parent |-> 0, force |-> FALSE]

\* A retry is detached from its sweep and waits, at its parent's estimate.
RetryOf(p, force) ==
    [st |-> "waiting", grp |-> 0, cost |-> run[p].cost,
     attempt |-> run[p].attempt + 1, parent |-> p, force |-> force]

\* request_run_terminalization.
Requested(r, d) ==
    CASE work[r] = "done"        -> "done"
      [] work[r] = "interrupted" -> "interrupted"
      [] OTHER                   -> d
RequestWork(r, d) == work' = [work EXCEPT ![r] = Requested(r, d)]

\* complete_run_terminalization: rolled back unless the run is active.
CompleteWork(r) ==
    IF work[r] \in Terminal /\ IsActive(r)
    THEN /\ SetStatus(r, work[r])
         /\ work' = [work EXCEPT ![r] = "done"]
         /\ cont' = IF work[r] = "failed" /\ cont[r] = NoCont
                    THEN [cont EXCEPT ![r].state = "pending"] ELSE cont
    ELSE UNCHANGED <<run, work, cont>>

\* complete_failure_continuation.
CloseCont(r, state) ==
    cont' = IF cont[r].state \in {"pending", "retry_created"}
            THEN [cont EXCEPT ![r].state = state] ELSE cont

-----------------------------------------------------------------------------
(* The interrupts map and the tasks.                                       *)

PutFlag(r, t) == flag' = [flag EXCEPT ![r] = t]
DropFlag(r) == PutFlag(r, NoCall)  \* whoever put it there

Executor(r, t, then) == [r |-> r, tag |-> t, at |-> "start", then |-> then]
Healer(r, by) == [r |-> r, by |-> by, at |-> "read", child |-> 0]

At(c, at) == call[c].at = at
Goes(c, at) == call' = [call EXCEPT ![c].at = at]
Opens(c, op, at, r, list) ==
    call' = [call EXCEPT ![c] = [op |-> op, at |-> at, r |-> r, list |-> list, i |-> 1]]
Done(c) == call' = [call EXCEPT ![c] = Finished]
Unlock(c) == queueLock' = IF queueLock = c THEN NoCall ELSE queueLock
Returns(c) == Done(c) /\ Unlock(c)
CallOnly == UNCHANGED <<boot, crashes, confirmed>>

-----------------------------------------------------------------------------
(* queue_workspace_run, handle_run_request, request_seed_sweep: each calls *)
(* request_confirmed_run for every run it asks for.                        *)

\* The route holds the workspace's queue lock, or is refused.
Queue(c) ==
    /\ "queue" \in Ops /\ At(c, "new") /\ Room(1)
    /\ queueLock = NoCall
    /\ Latest > 0 => run[Latest].st \notin ActiveStates \cup {"waiting"}
    /\ queueLock' = c
    /\ Opens(c, "queue", "create", 0, <<>>)
    /\ UNCHANGED <<rowVars, memVars>> /\ CallOnly

Ask(c) ==
    /\ "ask" \in Ops /\ At(c, "new") /\ Room(1)
    /\ Opens(c, "ask", "create", 0, <<>>)
    /\ UNCHANGED <<rowVars, memVars, queueLock>> /\ CallOnly

AskSweep(c) ==
    /\ "sweep" \in Ops /\ At(c, "new") /\ Room(SweepSize)
    /\ Opens(c, "sweep", "create", 0, <<>>)
    /\ UNCHANGED <<rowVars, memVars, queueLock>> /\ CallOnly

GroupOf(c) == IF call[c].op # "sweep"       THEN 0
              ELSE IF call[c].list # <<>> THEN call[c].list[1]
              ELSE Latest + 1

\* create_run, with its own busy test; WorkspaceBusy ends the request.
Create(c) ==
    /\ At(c, "create")
    /\ IF Busy(0, GroupOf(c)) \/ ~Room(1)
       THEN Returns(c) /\ UNCHANGED <<run>>
       ELSE /\ Insert(NewRun(GroupOf(c)))
            /\ call' = [call EXCEPT ![c].at = "flag", ![c].r = Latest + 1,
                                    ![c].list = Append(@, Latest + 1)]
            /\ UNCHANGED queueLock
    /\ UNCHANGED <<work, cont, rejected, intent, memVars>> /\ CallOnly

\* ensure_run_steps has returned; the run can be interrupted from here on.
InsertFlag(c) ==
    /\ At(c, "flag")
    /\ PutFlag(call[c].r, c)
    /\ Goes(c, "estimate")
    /\ UNCHANGED <<rowVars, signalled, execs, heals, queueLock>> /\ CallOnly

\* estimate_created_run: the flag is looked at before and during each call
\* of the provider, not after the last.
Estimate(c) ==
    /\ At(c, "estimate")
    /\ \/ <<call[c].r, c>> \in signalled /\ Goes(c, "cancel")
       \/ Goes(c, "fail")
       \/ <<call[c].r, c>> \notin signalled /\ Goes(c, "save")
    /\ UNCHANGED <<rowVars, memVars, queueLock>> /\ CallOnly

\* The estimate was interrupted or failed.  A run that has ended otherwise
\* refuses the update, and the error leaves the flag behind.
EndEstimate(c, at, st) ==
    /\ At(c, at)
    /\ IF Accepts(call[c].r, st)
       THEN SetStatus(call[c].r, st) /\ DropFlag(call[c].r)
       ELSE UNCHANGED <<run, flag>>
    /\ Returns(c)
    /\ UNCHANGED <<work, cont, rejected, intent, signalled, execs, heals>> /\ CallOnly

SaveEstimate(c, cost) ==
    /\ At(c, "save")
    /\ IF run[call[c].r].st \notin Terminal
       THEN /\ run' = [run EXCEPT ![call[c].r].st = "waiting", ![call[c].r].cost = cost]
            /\ Goes(c, "saved") /\ UNCHANGED queueLock
       ELSE Returns(c) /\ UNCHANGED run
    /\ UNCHANGED <<work, cont, rejected, intent, memVars>> /\ CallOnly

\* Mutant: a free variant starts whatever the others of its sweep cost.
AutomaticIfAnyCheap(S) == \E r \in S : run[r].cost = "cheap"

\* run_requires_confirmation said no.  The total of cheap variants may still
\* exceed the threshold, so a sweep may be held up even then.
Automatic(S) == \A r \in S : run[r].cost = "cheap"

\* The events are out, the flag goes; the next variant, or the cost gate.
Decide(c) ==
    /\ At(c, "saved")
    /\ DropFlag(call[c].r)
    /\ LET asked == {call[c].list[j] : j \in DOMAIN call[c].list} IN
       IF call[c].op = "sweep" /\ Cardinality(asked) < SweepSize
       THEN Goes(c, "create") /\ UNCHANGED queueLock
       ELSE \/ /\ Automatic(asked)
               /\ Goes(c, IF call[c].op = "sweep" THEN "validate" ELSE "claim")
               /\ UNCHANGED queueLock
            \/ (~Automatic(asked) \/ call[c].op = "sweep") /\ Returns(c)
    /\ UNCHANGED <<rowVars, signalled, execs, heals>> /\ CallOnly

-----------------------------------------------------------------------------
(* start_confirmed_run -> claim_run_for_background.  T is the task that    *)
(* claims: a request, a healer or the recovery.                            *)

\* The reads that precede the claim.
MayClaim(r) == run[r].st = "waiting" /\ ~Busy(r, run[r].grp)

\* ensure_execution_intent, then a fresh RunInterrupt replaces the old one.
PrepareClaim(r, t) == intent' = intent \cup {r} /\ PutFlag(r, t)

StartClaim(c) ==
    /\ At(c, "claim")
    /\ IF MayClaim(call[c].r)
       THEN PrepareClaim(call[c].r, c) /\ Goes(c, "cas") /\ UNCHANGED queueLock
       ELSE Returns(c) /\ UNCHANGED <<intent, flag>>
    /\ UNCHANGED <<run, work, cont, rejected, signalled, execs, heals>> /\ CallOnly

\* The claim; the loser removes whatever flag the map holds for the run.
FinishClaim(c) ==
    /\ At(c, "cas")
    /\ LET r == call[c].r IN
       IF Claimable(r, "waiting")
       THEN /\ SetStatus(r, "running")
            /\ execs' = execs \cup {Executor(r, c, "heal")}
            /\ UNCHANGED flag
       ELSE DropFlag(r) /\ UNCHANGED <<run, execs>>
    /\ Returns(c)
    /\ UNCHANGED <<work, cont, rejected, intent, signalled, heals>> /\ CallOnly

-----------------------------------------------------------------------------
(* confirm_run and hold_run.                                               *)

Targets(r) == IF IsSweep(r) THEN Ascending(Members(run[r].grp)) ELSE {<<r>>}

Confirm(c, r) ==
    /\ "confirm" \in Ops /\ At(c, "new") /\ run[r].st = "waiting"
    /\ \E list \in Targets(r) :
          /\ Opens(c, "confirm", IF IsSweep(r) THEN "validate" ELSE "claim", r, list)
          /\ confirmed' = confirmed \cup {list[j] : j \in DOMAIN list}
    /\ UNCHANGED <<rowVars, memVars, queueLock, boot, crashes>>

Hold(c, r) ==
    /\ "hold" \in Ops /\ At(c, "new") /\ run[r].st = "waiting"
    /\ \E list \in Targets(r) : Opens(c, "hold", "hold", r, list)
    /\ UNCHANGED <<rowVars, memVars, queueLock>> /\ CallOnly

Item(c) == call[c].list[call[c].i]
IsLast(c) == call[c].i = Len(call[c].list)
Advance(c, at) == call' = [call EXCEPT ![c].at = at, ![c].i = @ + 1]

\* hold_run for the next of the group; the first that is not waiting ends it.
HoldNext(c) ==
    /\ At(c, "hold")
    /\ IF Swappable(Item(c), "waiting", "interrupted")
       THEN /\ SetStatus(Item(c), "interrupted")
            /\ IF IsLast(c) THEN Done(c) ELSE Advance(c, "hold")
       ELSE Done(c) /\ UNCHANGED run
    /\ UNCHANGED <<work, cont, rejected, intent, memVars, queueLock>> /\ CallOnly

-----------------------------------------------------------------------------
(* start_confirmed_sweep and the task it spawns.  The recommended run is    *)
(* the one the user clicked, or the last.                                  *)

Validate(c) ==
    /\ At(c, "validate")
    /\ IF \A j \in DOMAIN call[c].list : run[call[c].list[j]].st = "waiting"
       THEN /\ PutFlag(call[c].list[1], c)
            /\ call' = [call EXCEPT ![c].at = "enqueue", ![c].i = 1]
       ELSE Done(c) /\ UNCHANGED flag
    /\ UNCHANGED <<rowVars, signalled, execs, heals, queueLock>> /\ CallOnly

\* One member is queued and the next member's flag inserted, or the members
\* queued so far are rolled back.
Enqueue(c) ==
    /\ At(c, "enqueue")
    /\ IF Swappable(Item(c), "waiting", "queued")
       THEN /\ SetStatus(Item(c), "queued")
            /\ IF IsLast(c)
               THEN call' = [call EXCEPT ![c].at = "next", ![c].i = 1] /\ UNCHANGED flag
               ELSE PutFlag(call[c].list[call[c].i + 1], c) /\ Advance(c, "enqueue")
       ELSE /\ DropFlag(Item(c))
            /\ call' = IF call[c].i = 1 THEN [call EXCEPT ![c] = Finished]
                       ELSE [call EXCEPT ![c].at = "rollback", ![c].i = 1,
                                         ![c].list = SubSeq(@, 1, call[c].i - 1)]
            /\ UNCHANGED run
    /\ UNCHANGED <<work, cont, rejected, intent, signalled, execs, heals, queueLock>>
    /\ CallOnly

Rollback(c) ==
    /\ At(c, "rollback")
    /\ IF Swappable(Item(c), "queued", "waiting")
       THEN SetStatus(Item(c), "waiting") ELSE UNCHANGED run
    /\ DropFlag(Item(c))
    /\ IF IsLast(c) THEN Done(c) ELSE Advance(c, "rollback")
    /\ UNCHANGED <<work, cont, rejected, intent, signalled, execs, heals, queueLock>>
    /\ CallOnly

\* Nothing is left to interrupt, or the rest is interrupted one by one.
SkipRest(c) == IF IsLast(c) THEN Done(c) ELSE Advance(c, "interrupt")

\* execute_started_sweep, for the next member.  A member whose flag is gone
\* ends the task with RunNotActive, after the status has changed.
RunNext(c) ==
    /\ At(c, "next")
    /\ LET r == Item(c) IN
       \/ /\ Swappable(r, "queued", "running")
          /\ SetStatus(r, "running")
          /\ IF flag[r] = NoCall
             THEN Done(c) /\ UNCHANGED execs
             ELSE /\ execs' = execs \cup {Executor(r, flag[r], "sweep")}
                  /\ Goes(c, "executing")
       \/ /\ ~Swappable(r, "queued", "running")
          /\ IF run[r].st = "interrupted" THEN SkipRest(c) ELSE Done(c)
          /\ UNCHANGED <<run, execs>>
    /\ UNCHANGED <<work, cont, rejected, intent, flag, signalled, heals, queueLock>>
    /\ CallOnly

\* Mutant: an interrupted member does not stop the sweep.
AfterMemberGoesOn(c, e) ==
    IF e.at = "failed" THEN IF e.r = call[c].r
                            THEN Goes(c, "healing") /\ heals' = heals \cup {Healer(e.r, "loop")}
                            ELSE SkipRest(c) /\ UNCHANGED heals
    ELSE /\ IF IsLast(c) THEN Done(c) ELSE Advance(c, "next")
         /\ UNCHANGED heals

\* What the sweep does after a member: only the recommended one is healed.
AfterMember(c, e) ==
    CASE e.at = "failed" /\ e.r = call[c].r ->
            Goes(c, "healing") /\ heals' = heals \cup {Healer(e.r, "loop")}
      [] e.at # "failed" /\ run[e.r].st # "interrupted" ->
            (IF IsLast(c) THEN Done(c) ELSE Advance(c, "next")) /\ UNCHANGED heals
      [] OTHER -> SkipRest(c) /\ UNCHANGED heals

MemberEnds(c) ==
    /\ At(c, "executing")
    /\ \E e \in execs :
        /\ e.r = Item(c) /\ e.then = "sweep" /\ e.at \in {"ok", "failed"}
        /\ execs' = execs \ {e}
        /\ AfterMember(c, e)
    /\ DropFlag(Item(c))
    /\ UNCHANGED <<rowVars, signalled, queueLock>> /\ CallOnly

\* continue_self_heal_from_failed has returned, the child's execution with
\* it; an error of prepare_retry ends the task before the rest is interrupted.
HealEnds(c) ==
    /\ At(c, "healing")
    /\ \E h \in heals :
        /\ h.r = Item(c) /\ h.by = "loop"
        /\ \/ h.at = "error" /\ Done(c)
           \/ h.at = "fine" /\ SkipRest(c)
        /\ ~\E e \in execs : e.r = h.child
        /\ ~\E g \in heals : g.r = h.child
        /\ heals' = heals \ {h}
    /\ UNCHANGED <<rowVars, flag, signalled, execs, queueLock>> /\ CallOnly

InterruptNext(c) ==
    /\ At(c, "interrupt")
    /\ IF Swappable(Item(c), "queued", "interrupted")
       THEN SetStatus(Item(c), "interrupted") ELSE UNCHANGED run
    /\ DropFlag(Item(c))
    /\ SkipRest(c)
    /\ UNCHANGED <<work, cont, rejected, intent, signalled, execs, heals, queueLock>>
    /\ CallOnly

-----------------------------------------------------------------------------
(* interrupt_active_run.                                                   *)

\* interrupt_target_run: of a sweep, the running member, else a queued one
\* whose flag the server holds, else the run that was named.
StopTarget(r) ==
    LET running == {m \in Members(run[r].grp) : run[m].st = "running"}
        queued == {m \in Members(run[r].grp) : run[m].st = "queued" /\ flag[m] # NoCall}
    IN IF ~IsSweep(r)          THEN {r}
       ELSE IF running # {} THEN Least(running)
       ELSE IF queued # {}  THEN Least(queued)
       ELSE {r}

Stop(c, r) ==
    /\ "stop" \in Ops /\ At(c, "new") /\ r \in Existing
    /\ \E t \in StopTarget(r) :
          /\ IsActive(t)
          /\ Opens(c, "stop", "signal", t, <<>>)
    /\ UNCHANGED <<rowVars, memVars, queueLock>> /\ CallOnly

\* interrupt_run: the flag first, then the row.
Signal(c) ==
    /\ At(c, "signal")
    /\ signalled' = signalled \cup
                    (IF flag[call[c].r] = NoCall THEN {} ELSE {<<call[c].r, flag[call[c].r]>>})
    /\ IF IsActive(call[c].r) THEN Goes(c, "request") ELSE Done(c)
    /\ UNCHANGED <<rowVars, flag, execs, heals, queueLock>> /\ CallOnly

StopRequest(c) ==
    /\ At(c, "request")
    /\ RequestWork(call[c].r, "interrupted")
    /\ Goes(c, "settle")
    /\ UNCHANGED <<run, cont, rejected, intent, memVars, queueLock>> /\ CallOnly

StopSettle(c) ==
    /\ At(c, "settle")
    /\ CompleteWork(call[c].r)
    /\ Done(c)
    /\ UNCHANGED <<rejected, intent, memVars, queueLock>> /\ CallOnly

-----------------------------------------------------------------------------
(* reject_output with rerun.                                               *)

\* latest_output_scope_for_reject.
InReview(r) ==
    \/ r = Latest
    \/ IsSweep(Latest) /\ run[Latest].grp = run[r].grp
    \/ run[Latest].force /\ run[Latest].parent = r

\* Only a run that was executed has outputs to reject.
Reject(c, r) ==
    /\ "reject" \in Ops /\ At(c, "new")
    /\ r \in intent /\ run[r].st \in Terminal /\ InReview(r)
    /\ Opens(c, "reject", "derive", r, <<>>)
    /\ UNCHANGED <<rowVars, memVars, queueLock>> /\ CallOnly

\* The child that run_reject_retries already names for the parent.
KnownRejectChild(p) == rejected[p]

\* retry_rejected_run: the child is made once, and started when it is free.
Derive(c) ==
    /\ At(c, "derive")
    /\ LET p == call[c].r
           known == KnownRejectChild(p)
           child == IF known = 0 THEN Latest + 1 ELSE known
       IN IF known = 0 /\ ~Room(1) THEN Done(c) /\ UNCHANGED <<run, rejected>>
          ELSE /\ IF known = 0
                  THEN /\ Insert(RetryOf(p, TRUE))
                       /\ rejected' = [rejected EXCEPT ![p] = child]
                  ELSE UNCHANGED <<run, rejected>>
               /\ IF run[p].cost = "cheap" /\ run'[child].st = "waiting"
                  THEN call' = [call EXCEPT ![c].at = "claim", ![c].r = child]
                  ELSE Done(c)
    /\ UNCHANGED <<work, cont, intent, memVars, queueLock>> /\ CallOnly

-----------------------------------------------------------------------------
(* execute_created_run, as far as its run's row is concerned.              *)

ExecGoes(e, at) == execs' = (execs \ {e}) \cup {[e EXCEPT !.at = at]}
ExecOnly == UNCHANGED <<rejected, signalled, call, queueLock>> /\ CallOnly

\* The intent, then update_run_status(running), which a run that was stopped
\* in the meantime refuses.
ExecStart(e) ==
    /\ e.at = "start"
    /\ intent' = intent \cup {e.r}
    /\ IF Accepts(e.r, "running")
       THEN SetStatus(e.r, "running") /\ ExecGoes(e, "run")
       ELSE ExecGoes(e, "refused") /\ UNCHANGED run
    /\ UNCHANGED <<work, cont, flag, heals>> /\ ExecOnly

ExecSucceeds(e) ==
    /\ e.at = "run"
    /\ IF Accepts(e.r, "succeeded")
       THEN SetStatus(e.r, "succeeded") /\ ExecGoes(e, "ok")
       ELSE ExecGoes(e, "refused") /\ UNCHANGED run
    /\ UNCHANGED <<work, cont, intent, flag, heals>> /\ ExecOnly

\* A step failed, or a status was refused: settle as failed.
ExecFails(e) ==
    /\ e.at \in {"run", "refused"}
    /\ RequestWork(e.r, "failed")
    /\ ExecGoes(e, "settle_failed")
    /\ UNCHANGED <<run, cont, intent, flag, heals>> /\ ExecOnly

\* Only the flag this executor was given can interrupt it.
ExecInterrupted(e) ==
    /\ e.at = "run" /\ <<e.r, e.tag>> \in signalled
    /\ RequestWork(e.r, "interrupted")
    /\ ExecGoes(e, "settle_ok")
    /\ UNCHANGED <<run, cont, intent, flag, heals>> /\ ExecOnly

ExecSettles(e) ==
    /\ e.at \in {"settle_failed", "settle_ok"}
    /\ CompleteWork(e.r)
    /\ ExecGoes(e, IF e.at = "settle_ok" THEN "ok" ELSE "failed")
    /\ UNCHANGED <<intent, flag, heals>> /\ ExecOnly

\* run_with_self_heal goes on to prepare_retry; a recovered run's task ends.
ExecReturns(e) ==
    /\ e.at \in {"ok", "failed"} /\ e.then # "sweep"
    /\ execs' = execs \ {e}
    /\ DropFlag(e.r)
    /\ heals' = IF e.then = "heal" THEN heals \cup {Healer(e.r, "loop")} ELSE heals
    /\ UNCHANGED <<run, work, cont, intent>> /\ ExecOnly

-----------------------------------------------------------------------------
(* prepare_retry, from the self-heal loop or from recovery.                *)

HealGoes(h, at) == heals' = (heals \ {h}) \cup {[h EXCEPT !.at = at]}
HealOnly == UNCHANGED <<work, signalled, call, queueLock>> /\ CallOnly

\* A sweep task that waits for the healer learns how it ended.
Awaited(h) == \E c \in Calls : At(c, "healing") /\ Item(c) = h.r /\ h.by = "loop"
HealStops(h, res) ==
    IF Awaited(h) THEN HealGoes(h, res) ELSE heals' = heals \ {h}

WithinLimit(r) == run[r].attempt < MaxRetries

HealRead(h) ==
    /\ h.at = "read"
    /\ CASE run[h.r].st # "failed"                         -> HealStops(h, "fine") /\ UNCHANGED cont
         [] run[h.r].st = "failed" /\ ~WithinLimit(h.r)    -> /\ CloseCont(h.r, "exhausted")
                                                              /\ HealStops(h, "fine")
         [] OTHER                                          -> HealGoes(h, "create") /\ UNCHANGED cont
    /\ UNCHANGED <<run, rejected, intent, flag, execs>> /\ HealOnly

\* Mutant: the child is linked to its parent's continuation later on.
LinkRetryLater(p, child) == cont' = cont

\* The child's row and the link to it are one transaction.
LinkRetry(p, child) ==
    cont' = [cont EXCEPT ![p] = [state |-> "retry_created", child |-> child]]

\* create_retry_run_once, then the cost gate at the parent's estimate.
HealCreate(h) ==
    /\ h.at = "create"
    /\ LET known == cont[h.r].child
           child == IF known = 0 THEN Latest + 1 ELSE known
           next == IF run[h.r].cost = "cheap" THEN "claim" ELSE "close"
       IN /\ known = 0 => Room(1)
          /\ IF known = 0 /\ cont[h.r].state # "pending"
             THEN HealStops(h, "error") /\ UNCHANGED <<run, cont>>
             ELSE /\ heals' = (heals \ {h}) \cup {[h EXCEPT !.at = next, !.child = child]}
                  /\ IF known = 0
                     THEN Insert(RetryOf(h.r, FALSE)) /\ LinkRetry(h.r, child)
                     ELSE UNCHANGED <<run, cont>>
    /\ UNCHANGED <<rejected, intent, flag, execs>> /\ HealOnly

HealClaim(h) ==
    /\ h.at = "claim"
    /\ IF MayClaim(h.child)
       THEN PrepareClaim(h.child, h.by) /\ HealGoes(h, "cas")
       ELSE HealStops(h, "error") /\ UNCHANGED <<intent, flag>>
    /\ UNCHANGED <<run, cont, rejected, execs>> /\ HealOnly

HealCas(h) ==
    /\ h.at = "cas"
    /\ IF Claimable(h.child, "waiting")
       THEN SetStatus(h.child, "running") /\ HealGoes(h, "claimed") /\ UNCHANGED flag
       ELSE DropFlag(h.child) /\ HealStops(h, "error") /\ UNCHANGED run
    /\ UNCHANGED <<cont, rejected, intent, execs>> /\ HealOnly

\* The continuation is completed; a claimed child executes in the same task.
HealCloses(h) ==
    /\ h.at \in {"close", "claimed"}
    /\ CloseCont(h.r, "completed")
    /\ execs' = IF h.at = "claimed" THEN execs \cup {Executor(h.child, h.by, "heal")} ELSE execs
    /\ HealStops(h, "fine")
    /\ UNCHANGED <<run, rejected, intent, flag>> /\ HealOnly

-----------------------------------------------------------------------------
(* recover_after_restart, a task of its own beside the new requests.       *)

BootAt(at) == boot.at = at
BootOnly == UNCHANGED <<rejected, signalled, call, queueLock, crashes, confirmed>>
BootGoes(at) == boot' = [boot EXCEPT !.at = at]

\* What a list of runs held when it was read, and its first entry.
BootPhase(at, todo) == boot' = [boot EXCEPT !.at = at, !.todo = todo]
BootHas(p) == p \in boot.todo /\ \A q \in boot.todo : p[1] <= q[1]
Past(p, at) == [boot EXCEPT !.at = at, !.todo = @ \ {p}]

BootReadItems ==
    /\ BootAt("start")
    /\ BootPhase("items", {<<r, work[r]>> : r \in {o \in Runs : work[o] \in Terminal}})
    /\ UNCHANGED <<run, work, cont, intent, flag, execs, heals>> /\ BootOnly

\* request_and_settle_terminal: its request asks for what is asked already.
BootItem(p) ==
    /\ BootAt("items") /\ BootHas(p)
    /\ CompleteWork(p[1])
    /\ boot' = Past(p, "items")
    /\ UNCHANGED <<intent, flag, execs, heals>> /\ BootOnly

BootReadRuns ==
    /\ BootAt("items") /\ boot.todo = {}
    /\ BootPhase("runs", {<<r, run[r].st>> : r \in {o \in Runs : IsActive(o)}})
    /\ UNCHANGED <<run, work, cont, intent, flag, execs, heals>> /\ BootOnly

\* Mutant: estimating runs are left alone.
StaleUnlessEstimating(r, st) == st = "queued"

\* claim_restart_queued_run wants a complete intent, which a retry never
\* has: its estimates name no step.
Requeueable(r, st) ==
    st = "queued" /\ Requeue /\ r \in intent /\ run[r].parent = 0 /\ Claimable(r, "queued")

\* An estimate cannot be resumed, nor a queued run that is not requeued.
Stale(r, st) == st \in {"estimating", "queued"} /\ ~Requeueable(r, st)

\* A running run beyond the first, unless it is of the first one's sweep.
Surplus(r, st) ==
    st = "running" /\ boot.keeper # 0 /\ (run[r].grp = 0 \/ run[r].grp # run[boot.keeper].grp)

Keeper(r, st) == IF boot.keeper = 0 /\ st = "running" THEN r ELSE boot.keeper

\* The row is the snapshot's: the run may have gone on since, or be one that
\* a request of this server has just made.  A running run may be interrupted
\* for what its steps' rows say, which is left open.
BootInterrupts(p) ==
    /\ BootAt("runs") /\ BootHas(p)
    /\ LET r == p[1]
           st == p[2]
       IN IF st = "running" \/ Stale(r, st)
          THEN /\ RequestWork(r, "interrupted")
               /\ boot' = [boot EXCEPT !.at = "settle", !.keeper = Keeper(r, st)]
               /\ UNCHANGED run
          ELSE /\ IF Requeueable(r, st) THEN SetStatus(r, "running") ELSE UNCHANGED run
               /\ boot' = [boot EXCEPT !.todo = (@ \ {p}) \cup
                              (IF Requeueable(r, st) THEN {<<r, "running">>} ELSE {})]
               /\ UNCHANGED work
    /\ UNCHANGED <<cont, intent, flag, execs, heals>> /\ BootOnly

BootSettles(p) ==
    /\ BootAt("settle") /\ BootHas(p)
    /\ CompleteWork(p[1])
    /\ boot' = Past(p, "runs")
    /\ UNCHANGED <<intent, flag, execs, heals>> /\ BootOnly

\* classify_running_restart: what the steps' rows decide is either outcome,
\* but a run without an intent is never resumed.  The row is the snapshot's.
BootResumes(p) ==
    /\ BootAt("runs") /\ BootHas(p)
    /\ LET r == p[1] st == p[2]
       IN /\ st = "running" /\ ~Surplus(r, st) /\ r \in intent
          /\ PutFlag(r, "respawn")
          /\ execs' = execs \cup {Executor(r, "respawn", "none")}
          /\ boot' = [boot EXCEPT !.todo = @ \ {p}, !.keeper = Keeper(r, st)]
    /\ UNCHANGED <<run, work, cont, intent, heals>> /\ BootOnly

BootReadConts ==
    /\ BootAt("runs") /\ boot.todo = {}
    /\ BootPhase("conts", {<<r, cont[r].state>> :
                             r \in {o \in Runs : cont[o].state \in {"pending", "retry_created"}}})
    /\ UNCHANGED <<run, work, cont, intent, flag, execs, heals>> /\ BootOnly

\* A pending continuation gets a task of its own; resume_retry_created
\* starts a child that still waits and is free, then completes the record.
BootContinues(p) ==
    /\ BootAt("conts") /\ BootHas(p)
    /\ LET child == cont[p[1]].child
       IN IF p[2] = "pending"
          THEN /\ heals' = heals \cup {Healer(p[1], "boot")}
               /\ boot' = Past(p, "conts")
          ELSE /\ BootGoes(IF run[child].st = "waiting" /\ run[child].cost = "cheap"
                           THEN "claim" ELSE "close")
               /\ UNCHANGED heals
    /\ UNCHANGED <<run, work, cont, intent, flag, execs>> /\ BootOnly

\* An error of start_confirmed_run ends the recovery.
BootClaim(p) ==
    /\ BootAt("claim") /\ BootHas(p)
    /\ LET child == cont[p[1]].child IN
       IF MayClaim(child)
       THEN PrepareClaim(child, "resume") /\ BootGoes("cas")
       ELSE boot' = NoBoot /\ UNCHANGED <<intent, flag>>
    /\ UNCHANGED <<run, work, cont, execs, heals>> /\ BootOnly

BootCas(p) ==
    /\ BootAt("cas") /\ BootHas(p)
    /\ LET child == cont[p[1]].child IN
       IF Claimable(child, "waiting")
       THEN /\ SetStatus(child, "running")
            /\ execs' = execs \cup {Executor(child, "resume", "heal")}
            /\ BootGoes("close") /\ UNCHANGED flag
       ELSE DropFlag(child) /\ boot' = NoBoot /\ UNCHANGED <<run, execs>>
    /\ UNCHANGED <<work, cont, intent, heals>> /\ BootOnly

BootCloses(p) ==
    /\ BootAt("close") /\ BootHas(p)
    /\ CloseCont(p[1], "completed")
    /\ boot' = Past(p, "conts")
    /\ UNCHANGED <<run, work, intent, flag, execs, heals>> /\ BootOnly

BootEnds ==
    /\ BootAt("conts") /\ boot.todo = {}
    /\ boot' = NoBoot
    /\ UNCHANGED <<run, work, cont, intent, flag, execs, heals>> /\ BootOnly

\* The server stops between two steps and starts again.
Crash ==
    /\ crashes < MaxCrashes /\ Existing # {}
    /\ crashes' = crashes + 1
    /\ flag' = [r \in Runs |-> NoCall]
    /\ signalled' = {} /\ execs' = {} /\ heals' = {}
    /\ call' = [c \in Calls |-> IF At(c, "new") THEN NewCall ELSE Finished]
    /\ queueLock' = NoCall
    /\ boot' = [at |-> "start", todo |-> {}, keeper |-> 0]
    /\ UNCHANGED <<rowVars, confirmed>>

-----------------------------------------------------------------------------
Request(c) ==
    \/ Queue(c) \/ Ask(c) \/ AskSweep(c)
    \/ \E r \in Runs : Confirm(c, r) \/ Hold(c, r) \/ Stop(c, r) \/ Reject(c, r)

CallStep(c) ==
    \/ Create(c) \/ InsertFlag(c) \/ Estimate(c)
    \/ EndEstimate(c, "cancel", "interrupted") \/ EndEstimate(c, "fail", "failed")
    \/ \E cost \in {"cheap", "dear"} : SaveEstimate(c, cost)
    \/ Decide(c) \/ StartClaim(c) \/ FinishClaim(c)
    \/ HoldNext(c)
    \/ Validate(c) \/ Enqueue(c) \/ Rollback(c)
    \/ RunNext(c) \/ MemberEnds(c) \/ HealEnds(c) \/ InterruptNext(c)
    \/ Signal(c) \/ StopRequest(c) \/ StopSettle(c) \/ Derive(c)

ExecStep ==
    \E e \in execs :
        \/ ExecStart(e) \/ ExecSucceeds(e) \/ ExecFails(e)
        \/ ExecInterrupted(e) \/ ExecSettles(e) \/ ExecReturns(e)

HealStep ==
    \E h \in heals :
        HealRead(h) \/ HealCreate(h) \/ HealClaim(h) \/ HealCas(h) \/ HealCloses(h)

BootStep ==
    \/ BootReadItems \/ BootReadRuns \/ BootReadConts \/ BootEnds
    \/ \E p \in boot.todo :
          \/ BootItem(p) \/ BootInterrupts(p) \/ BootSettles(p) \/ BootResumes(p)
          \/ BootContinues(p) \/ BootClaim(p) \/ BootCas(p) \/ BootCloses(p)

InOrder(c) == \A d \in Earlier[c] : ~At(d, "new")  \* bound

AdmissionNext ==
    \/ \E c \in Calls : (InOrder(c) /\ Request(c)) \/ CallStep(c)
    \/ ExecStep \/ HealStep \/ BootStep \/ Crash

AdmissionSpec == AdmissionInit /\ [][AdmissionNext]_vars

\* The runtime goes on with every request it has and with the recovery; no
\* user has to send a request, and no executor has to end.
FairAdmission ==
    /\ AdmissionSpec
    /\ \A c \in Calls : WF_vars(CallStep(c))
    /\ WF_vars(BootStep)

-----------------------------------------------------------------------------
(* Properties.                                                             *)

\* The rows are those the code can write; a retry is never part of a sweep,
\* and a continuation whose retry exists names it.
AdmissionTypeOK ==
    /\ run \in [Runs -> [st : ActiveStates \cup Terminal \cup {"none", "waiting"},
                         grp : 0 .. MaxRuns, cost : {"none", "cheap", "dear"},
                         attempt : 0 .. MaxRuns, parent : 0 .. MaxRuns, force : BOOLEAN]]
    /\ work \in [Runs -> {"none", "failed", "interrupted", "done"}]
    /\ cont \in [Runs -> [state : {"none", "pending", "retry_created", "completed", "exhausted"},
                          child : 0 .. MaxRuns]]
    /\ \A r \in Runs : run[r].parent # 0 => run[r].grp = 0
    /\ \A r \in Runs : cont[r].state = "retry_created" => cont[r].child \in Existing
    /\ rejected \in [Runs -> 0 .. MaxRuns]
    /\ intent \in SUBSET Runs /\ confirmed \in SUBSET Runs
    /\ flag \in [Runs -> Tags \cup {NoCall}]
    /\ signalled \in SUBSET (Runs \X Tags)
    /\ queueLock \in Calls \cup {NoCall}
    /\ crashes \in 0 .. MaxCrashes

\* One active run per workspace, or the members of one sweep, whichever
\* requests, healers and recovery admit runs at the same time.
OneActive ==
    /\ AdmissionTypeOK
    /\ \A a, b \in Runs : a # b /\ IsActive(a) /\ IsActive(b)
                             => IsSweep(a) /\ run[a].grp = run[b].grp

\* A run that costs more than the threshold starts only after a user has
\* confirmed it, also after a failure, a rejected output or a restart.
NothingUnapproved ==
    \A r \in Runs : run[r].st \in {"running", "succeeded"} /\ run[r].cost # "cheap"
                       => r \in confirmed

\* One failure is answered by at most one retry, and one rejected run by at
\* most one rerun, however often and by whomever they are asked for; and
\* self-heal never goes past max_run_retries, across restarts and reruns.
OneRetryPerFailure ==
    /\ \A a, b \in Existing :
          a # b /\ run[a].parent # 0 /\ run[a].parent = run[b].parent
             => run[a].force # run[b].force
    /\ \A r \in Existing :
          run[r].parent # 0 /\ ~run[r].force => run[r].attempt <= MaxRetries

MembersInOrder ==
    \A r \in Runs :
        IsSweep(r) /\ run[r].st # "running" /\ run'[r].st = "running"
           => \A m \in Members(run[r].grp) : m < r => run[m].st = "succeeded"

\* A sweep goes on to its next member only if all before it succeeded, until
\* the server first stops.
SweepStopsAtFailure == [][crashes = 0 => MembersInOrder]_vars

\* Does not hold: after a restart the recovery, beside new requests, can take a
\* member that was just started for a stale one and give it a second executor.
AnySweepStopsAtFailure == [][MembersInOrder]_vars

\* An estimate ends: by itself, by a stop, or by the recovery after a crash.
EstimatingEnds == \A r \in Runs : run[r].st = "estimating" ~> run[r].st # "estimating"

\* A running run has a task that will end it, or a recovery that will.
RunningIsDriven ==
    \A r \in Runs : run[r].st = "running" =>
        \/ \E e \in execs : e.r = r
        \/ \E h \in heals : h.child = r
        \/ boot.at # "off"
=============================================================================
