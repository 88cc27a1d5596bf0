----------------------------- MODULE Artifacts ------------------------------
(***************************************************************************)
(* From the result of a paid provider task to artifact rows and files: the *)
(* materialization of a spooled result, the publish journal, the garbage   *)
(* collection of expired journals at a start, and the step cache with the  *)
(* review that blocks it.                                                  *)
(*                                                                         *)
(* Runs of one workspace, each with one step of the same node, follow one  *)
(* another.  A file is named by the hash of its payload, so a body stands  *)
(* for the file that holds it.  A run may have two drivers: the executor   *)
(* that started it and the one the recovery respawns.  Of the queue, the   *)
(* dispatch and the settlement of a run only the outcome is here: they are *)
(* in RunAdmission and RunSettlement.                                      *)
(***************************************************************************)
EXTENDS Naturals, Sequences, FiniteSets

CONSTANTS
    MaxSteps,     \* bound: runs of the node, one after the other
    LastPort,     \* number of output ports of the node
    Bodies,       \* payloads a provider may return
    MayRepeat,    \* may two steps be given the same payload?
    MaxArtifacts, \* bound: rows of artifacts
    MaxDrivers,   \* bound: executors at work at once
    MaxReviews,   \* bound: reviews users ask for
    MaxFaults,    \* bound: kinds of I/O calls that fail, each once
    MaxCrashes,   \* bound: how often the process dies
    MaxTroubles   \* bound: reviews, faults and crashes together

ASSUME ArtifactsAssumption ==
    /\ MaxSteps \in Nat \ {0} /\ MaxArtifacts \in Nat
    /\ MayRepeat \in BOOLEAN /\ {MaxDrivers, MaxReviews} \subseteq Nat
    /\ {MaxFaults, MaxCrashes, MaxTroubles} \subseteq Nat
    /\ LastPort \in Nat \ {0}

Steps == 1 .. MaxSteps
Drivers == Steps \X {"live", "again"}
StepOf(d) == d[1]
Ports == 1 .. LastPort

VARIABLES
    run,       \* "none", "open", "failing", "stopping" or "over"
    force,     \* does the run bypass the cache (runs.force_rerun)?
    step,      \* run_steps.state
    task,      \* run_provider_tasks.state: "none", "result_ready", "completed"
    result,    \* the spooled result: a body per port
    late,      \* steps past their materialization deadline
    expired,   \* steps whose journals are past expires_at
    outputs,   \* run_step_outputs: port -> artifact, 0 when there is none
    journal,   \* artifact_publish_journal, by step and port
    artifacts, \* rows of artifacts, in the order of their ids
    cache,     \* node_cache_entries: the artifacts the entry links
    disk,      \* bodies whose file is in artifacts/
    driver,    \* the executors
    recovery,  \* the start's recovery: its stage, and the journals it claimed,
               \* each with the number of artifact rows there were then
    mine,      \* steps begun while this process's recovery was not done
    review,    \* a review request between its scope check and its write
    faults, crashes,
    denied     \* per step, the artifacts rejected before it began (history)

rows == <<run, force, step, task, result, outputs, journal, artifacts, cache>>
clock == <<late, expired>>
vars == <<rows, clock, disk, driver, recovery, mine, review, faults, crashes, denied>>

NoJournal == [state |-> "none", owner |-> "none", art |-> 0]
Staged == [state |-> "staged", owner |-> "materializer", art |-> 0]
NoReview == [at |-> "idle", art |-> 0, to |-> "none", rerun |-> FALSE, n |-> 0]
Reviewed == [NoReview EXCEPT !.n = review.n]
NewDriver == [at |-> "idle", i |-> 1, ids |-> <<>>, keys |-> {}, old |-> [p \in Ports |-> 0]]
Stopped == {"idle", "done"}

Artifact(s, p, b, from) ==
    [step |-> s, port |-> p, body |-> b, review |-> "pending", from |-> from]

Rejected == {a \in DOMAIN artifacts : artifacts[a].review = "rejected"}
HasFile(a) == artifacts[a].body \in disk
Row(a) == artifacts[a]

Troubles == review.n + Cardinality(faults) + crashes
MayFail(kind) ==
    /\ kind \notin faults
    /\ Cardinality(faults) < MaxFaults /\ Troubles < MaxTroubles

-----------------------------------------------------------------------------
(* A run begins when the one before it is over.                            *)

MayDrive == Cardinality({d \in Drivers : driver[d].at \notin Stopped}) < MaxDrivers
Begun == {s \in Steps : run[s] # "none"}
MayBegin(s) ==
    /\ run[s] = "none" /\ MayDrive
    /\ \A r \in 1 .. s - 1 : run[r] = "over"

StartRun(s, forced) ==
    /\ run' = [run EXCEPT ![s] = "open"]
    /\ step' = [step EXCEPT ![s] = "queued"]
    /\ force' = [force EXCEPT ![s] = forced]
    /\ driver' = [driver EXCEPT ![<<s, "live">>] = [NewDriver EXCEPT !.at = "lookup"]]
    /\ mine' = IF recovery.at = "up" THEN {} ELSE mine \cup {s}
    /\ denied' = [denied EXCEPT ![s] = Rejected]

Begin(s) ==
    /\ MayBegin(s)
    /\ StartRun(s, FALSE)
    /\ UNCHANGED <<task, result, outputs, journal, artifacts, cache, clock, disk,
                   recovery, review, faults, crashes>>

-----------------------------------------------------------------------------
(* What a driver does next; nothing else of it changes but what is named.  *)

At(d, place) == driver[d].at = place
Move(d, q) ==
    driver' = [driver EXCEPT ![d] = IF q.at \in Stopped THEN [NewDriver EXCEPT !.at = q.at] ELSE q]
Goto(d, place) == Move(d, [driver[d] EXCEPT !.at = place])
Here(d) == UNCHANGED <<force, result, clock, recovery, mine, review, crashes, denied>>
OnlyDriver(d) == Here(d) /\ UNCHANGED <<run, step, task, outputs, journal, artifacts,
                                        cache, disk, faults>>

\* A step that is final already rejects a late "failed" or "skipped", which
\* is an error of the executor like any other.
EndStep(s, state) ==
    step' = [step EXCEPT ![s] = IF @ \in {"queued", "running"} THEN state ELSE @]
EndRun(s, status) == run' = [run EXCEPT ![s] = IF @ = "open" THEN status ELSE @]
GoesOn == UNCHANGED <<run, step>>

\* The step returns an error: the run is to end as failed.
Errs(d) ==
    /\ Goto(d, "idle")
    /\ EndStep(StepOf(d), "failed") /\ EndRun(StepOf(d), "failing")

\* The step returns "interrupted": it is skipped and the run is to end so.
Interrupts(d) ==
    /\ Goto(d, "idle")
    /\ EndStep(StepOf(d), "skipped")
    /\ EndRun(StepOf(d), IF step[StepOf(d)] \in {"succeeded", "failed"}
                         THEN "failing" ELSE "stopping")

-----------------------------------------------------------------------------
(* The cache: the entry is read, then every artifact it links, then each   *)
(* is copied into a row of this run, then the step is finalized.           *)

\* Mutant: the review state is not looked at.
UsableIfStored(a) == HasFile(a)

Usable(a) == Row(a).review # "rejected" /\ HasFile(a)

Lookup(d) ==
    /\ At(d, "lookup")
    /\ IF force[StepOf(d)] \/ cache = <<>>
       THEN Goto(d, "execute")
       ELSE Move(d, [driver[d] EXCEPT !.at = "source", !.i = 1, !.ids = cache])
    /\ OnlyDriver(d)

Source(d) ==
    /\ At(d, "source")
    /\ LET q == driver[d] IN
       Move(d, IF ~Usable(q.ids[q.i])
               THEN [q EXCEPT !.at = "execute", !.ids = <<>>]
               ELSE IF q.i < Len(q.ids) THEN [q EXCEPT !.i = @ + 1]
               ELSE [q EXCEPT !.at = "copy", !.i = 1])
    /\ OnlyDriver(d)

Copy(d) ==
    /\ At(d, "copy") /\ Len(artifacts) < MaxArtifacts
    /\ LET q == driver[d]
           a == q.ids[q.i]
           n == Len(artifacts) + 1
       IN /\ artifacts' = Append(artifacts,
                             Artifact(StepOf(d), Row(a).port, Row(a).body, a))
          /\ Move(d, [q EXCEPT !.ids[q.i] = n,
                               !.i = @ + 1,
                               !.at = IF q.i = Len(q.ids) THEN "hit" ELSE "copy"])
    /\ Here(d)
    /\ UNCHANGED <<run, step, task, outputs, journal, cache, disk, faults>>

\* finalize_run_step_success: an output already mapped elsewhere is an error,
\* a step that is final otherwise is a no.
Mapping(ids) == [p \in Ports |-> ids[p]]
Conflicts(s, ids) == \E p \in Ports : outputs[s][p] \notin {0, ids[p]}
MayFinalize(s) == step[s] \in {"queued", "running", "succeeded"}

Hit(d) ==
    /\ At(d, "hit")
    /\ LET s == StepOf(d) ids == driver[d].ids IN
       IF Conflicts(s, ids) \/ ~MayFinalize(s)
       THEN Errs(d) /\ UNCHANGED outputs
       ELSE /\ step' = [step EXCEPT ![s] = "succeeded"]
            /\ outputs' = [outputs EXCEPT ![s] = Mapping(ids)]
            /\ Goto(d, "done")
            /\ UNCHANGED run
    /\ Here(d)
    /\ UNCHANGED <<task, journal, artifacts, cache, disk, faults>>

-----------------------------------------------------------------------------
(* The provider: of its work only the spooled result counts here.          *)

Returned == {r \in Steps : task[r] # "none"}
NotYetReturned(b) == \A r \in Returned : \A p \in Ports : result[r][p] # b
Payloads == {f \in [Ports -> Bodies] :
                MayRepeat \/ ( /\ \A p \in Ports : NotYetReturned(f[p])
                               /\ \A p, o \in Ports : f[p] = f[o] => p = o )}

Provided(d) ==
    /\ At(d, "execute") /\ task[StepOf(d)] = "none" /\ step[StepOf(d)] \in {"queued", "running"}
    /\ LET s == StepOf(d) IN
       /\ \E f \in Payloads : result' = [result EXCEPT ![s] = f]
       /\ task' = [task EXCEPT ![s] = "result_ready"]
       /\ step' = [step EXCEPT ![s] = "running"]
    /\ Goto(d, "round")
    /\ UNCHANGED <<run, force, outputs, journal, artifacts, cache, clock, disk, recovery,
                   mine, review, faults, crashes, denied>>

\* An executor that finds the task of its step takes it from where it is.
Resumed(d) ==
    /\ At(d, "execute")
    /\ LET s == StepOf(d) final == step[s] \notin {"queued", "running"} IN
       \/ /\ ~final /\ task[s] = "result_ready"
          /\ step' = [step EXCEPT ![s] = "running"]
          /\ Goto(d, "round") /\ UNCHANGED run
       \/ (final \/ task[s] = "completed") /\ Errs(d)
    /\ Here(d)
    /\ UNCHANGED <<task, outputs, journal, artifacts, cache, disk, faults>>

-----------------------------------------------------------------------------
(* Materialization: one round, and what ends or repeats it.                *)

Ready(s) == task[s] = "result_ready"

\* finalize_provider_task_failure: the task, its step and the work item of
\* its run change together, or not at all.
FinalizeFailure(d) ==
    LET s == StepOf(d) IN
    /\ task' = [task EXCEPT ![s] = IF Ready(s) /\ step[s] \in {"queued", "running", "failed"}
                                   THEN "completed" ELSE @]
    /\ Errs(d)

Round(d) ==
    /\ At(d, "round")
    /\ LET s == StepOf(d) IN
       \/ s \in late /\ FinalizeFailure(d) /\ UNCHANGED faults
       \/ s \notin late /\ ~Ready(s) /\ Interrupts(d) /\ UNCHANGED <<task, faults>>
       \/ /\ s \notin late /\ Ready(s)
          /\ Move(d, [driver[d] EXCEPT !.at = "port", !.i = 1, !.ids = <<>>,
                                       !.keys = {}, !.old = outputs[s]])
          /\ UNCHANGED <<run, task, step, faults>>
       \/ /\ s \notin late /\ Ready(s) /\ MayFail("spool")
          /\ faults' = faults \cup {"spool"}
          /\ FinalizeFailure(d)
    /\ Here(d)
    /\ UNCHANGED <<outputs, journal, artifacts, cache, disk>>

Take(d, a, keys) ==
    Move(d, [driver[d] EXCEPT !.at = IF driver[d].i = LastPort THEN "finalize" ELSE "port", !.i = @ + 1, !.ids = Append(@, a),
                              !.keys = @ \cup keys])

\* record_materialization_failure: another round, unless it is too late.
Again(d) ==
    IF Ready(StepOf(d)) /\ StepOf(d) \notin late
    THEN Goto(d, "round") /\ GoesOn
    ELSE Errs(d)

Body(d) == result[StepOf(d)][driver[d].i]

\* A port has its artifact already, or its journal is read or written, and
\* then a file of that name is taken as it is.
Port(d) ==
    /\ At(d, "port")
    /\ LET s == StepOf(d) q == driver[d] p == q.i IN
       IF ~Ready(s)
       THEN Interrupts(d) /\ UNCHANGED journal
       ELSE IF q.old[p] # 0
       THEN Take(d, q.old[p], {}) /\ GoesOn /\ UNCHANGED journal
       ELSE IF journal[s][p].art # 0
       THEN Take(d, journal[s][p].art, {p}) /\ GoesOn /\ UNCHANGED journal
       ELSE /\ journal' = [journal EXCEPT ![s][p] = IF @ = NoJournal THEN Staged ELSE @]
            /\ Goto(d, IF Body(d) \in disk THEN "sha" ELSE "link")
            /\ GoesOn
    /\ Here(d)
    /\ UNCHANGED <<task, outputs, artifacts, cache, disk, faults>>

\* The complete file appears under its name, or not when the name is taken.
Link(d) ==
    /\ At(d, "link")
    /\ IF Body(d) \in disk
       THEN Again(d) /\ UNCHANGED disk
       ELSE disk' = disk \cup {Body(d)} /\ Goto(d, "unlink") /\ GoesOn
    /\ Here(d)
    /\ UNCHANGED <<task, outputs, journal, artifacts, cache, faults>>

\* Then its partial name is removed; when that fails the file goes as well.
Unlink(d) ==
    /\ At(d, "unlink")
    /\ \/ Goto(d, "sha") /\ GoesOn /\ UNCHANGED <<disk, faults>>
       \/ /\ MayFail("unlink")
          /\ faults' = faults \cup {"unlink"}
          /\ disk' = disk \ {Body(d)}
          /\ Again(d)
    /\ Here(d)
    /\ UNCHANGED <<task, outputs, journal, artifacts, cache>>

\* The file is read back for its hash; reading it may fail.
Hash(d) ==
    /\ At(d, "sha")
    /\ \/ Body(d) \in disk /\ Goto(d, "row") /\ GoesOn /\ UNCHANGED faults
       \/ Body(d) \notin disk /\ Again(d) /\ UNCHANGED faults
       \/ /\ MayFail("read")
          /\ faults' = faults \cup {"read"}
          /\ Again(d)
    /\ Here(d)
    /\ UNCHANGED <<task, outputs, journal, artifacts, cache, disk>>

\* publish_artifact_from_journal: the row and the journal in one transaction.
\* Mutant: the journal's artifact is not taken a second time.
KnownArtifactIgnored(s, p) == 0

KnownArtifact(s, p) == journal[s][p].art

Publish(d) ==
    /\ At(d, "row") /\ Len(artifacts) < MaxArtifacts
    /\ LET s == StepOf(d) p == driver[d].i n == Len(artifacts) + 1 IN
       IF journal[s][p].owner # "materializer"
       THEN Again(d) /\ UNCHANGED <<journal, artifacts>>
       ELSE IF KnownArtifact(s, p) # 0
       THEN Take(d, KnownArtifact(s, p), {p}) /\ GoesOn /\ UNCHANGED <<journal, artifacts>>
       ELSE /\ artifacts' = Append(artifacts, Artifact(s, p, Body(d), 0))
            /\ journal' = [journal EXCEPT ![s][p].state = "published", ![s][p].art = n]
            /\ Take(d, n, {p})
            /\ GoesOn
    /\ Here(d)
    /\ UNCHANGED <<task, outputs, cache, disk, faults>>

Finalize(d) ==
    /\ At(d, "finalize")
    /\ LET s == StepOf(d) ids == driver[d].ids IN
       IF Conflicts(s, ids)
       THEN Again(d) /\ UNCHANGED <<task, outputs>>
       ELSE IF MayFinalize(s)
       THEN /\ outputs' = [outputs EXCEPT ![s] = Mapping(ids)]
            /\ step' = [step EXCEPT ![s] = "succeeded"]
            /\ task' = [task EXCEPT ![s] = "completed"]
            /\ Goto(d, IF driver[d].keys = {} THEN "refresh" ELSE "commit")
            /\ UNCHANGED run
       ELSE /\ IF Ready(s) THEN Again(d) ELSE Interrupts(d)
            /\ UNCHANGED <<task, outputs>>
    /\ Here(d)
    /\ UNCHANGED <<journal, artifacts, cache, disk, faults>>

MarkCommitted(d) ==
    /\ At(d, "commit")
    /\ LET s == StepOf(d) q == driver[d] IN
       \E p \in q.keys :
          /\ \A o \in q.keys : p <= o
          /\ journal' = [journal EXCEPT ![s][p].state =
                            IF @ = "published" /\ journal[s][p].owner = "materializer"
                            THEN "committed" ELSE @]
          /\ Move(d, [q EXCEPT !.keys = @ \ {p},
                               !.at = IF q.keys = {p} THEN "refresh" ELSE "commit"])
    /\ Here(d)
    /\ UNCHANGED <<run, step, task, outputs, artifacts, cache, disk, faults>>

\* Back in execute_step: an interrupt ends it here; else the step is
\* finalized once more and its artifacts become the cache entry.
Refresh(d) ==
    /\ At(d, "refresh")
    /\ LET s == StepOf(d) IN
       IF run[s] = "stopping"
       THEN Interrupts(d) /\ UNCHANGED cache
       ELSE IF Conflicts(s, driver[d].ids) \/ ~MayFinalize(s)
       THEN Errs(d) /\ UNCHANGED cache
       ELSE cache' = driver[d].ids /\ Goto(d, "done") /\ GoesOn
    /\ Here(d)
    /\ UNCHANGED <<task, outputs, journal, artifacts, disk, faults>>

-----------------------------------------------------------------------------
(* How a run ends.                                                         *)

Served(s) == s \in mine \/ recovery.at = "up"

RunSucceeds(s) ==
    /\ run[s] = "open" /\ step[s] = "succeeded" /\ Served(s)
    /\ \E d \in Drivers : StepOf(d) = s /\ At(d, "done") /\ Goto(d, "idle")
    /\ run' = [run EXCEPT ![s] = "over"]
    /\ UNCHANGED <<force, step, task, result, outputs, journal, artifacts, cache, clock,
                   disk, recovery, mine, review, faults, crashes, denied>>

\* A user stops the run.
Stop(s) ==
    /\ run[s] \in {"open", "failing"}
    /\ run' = [run EXCEPT ![s] = "stopping"]
    /\ UNCHANGED <<force, step, task, result, outputs, journal, artifacts, cache, clock,
                   disk, driver, recovery, mine, review, faults, crashes, denied>>

\* The settler completes a result-ready task of a stopped run at once, and
\* waits for the deadline of a failing one.
Settle(s) ==
    /\ Served(s)
    /\ run[s] = "stopping" \/ (run[s] = "failing" /\ (Ready(s) => s \in late))
    /\ task' = [task EXCEPT ![s] = IF @ = "result_ready" THEN "completed" ELSE @]
    /\ run' = [run EXCEPT ![s] = "over"]
    /\ UNCHANGED <<force, step, result, outputs, journal, artifacts, cache, clock, disk,
                   driver, recovery, mine, review, faults, crashes, denied>>

TooLate(s) ==
    /\ Ready(s) /\ s \notin late
    /\ late' = late \cup {s}
    /\ UNCHANGED <<rows, expired, disk, driver, recovery, mine, review, faults, crashes, denied>>

-----------------------------------------------------------------------------
(* Review: the scope is read, then the state is written.                   *)

Latest(s) == s \in Begun /\ s + 1 \notin Begun

AskReview(a, to, rerun) ==
    /\ review.at = "idle" /\ review.n < MaxReviews /\ Troubles < MaxTroubles
    /\ a \in DOMAIN artifacts
    /\ to = "accepted" => ~rerun
    /\ \/ Latest(Row(a).step)
       \/ /\ rerun /\ Row(a).step < MaxSteps
          /\ force[Row(a).step + 1] /\ Latest(Row(a).step + 1)
    /\ review' = [at |-> "write", art |-> a, to |-> to, rerun |-> rerun,
                  n |-> review.n + 1]
    /\ UNCHANGED <<rows, clock, disk, driver, recovery, mine, faults, crashes, denied>>

MayReview(a, to) ==
    Row(a).review \in (IF to = "accepted" THEN {"pending"} ELSE {"pending", "rejected"})

WriteReview ==
    /\ review.at = "write"
    /\ LET a == review.art may == MayReview(a, review.to) IN
       /\ artifacts' = IF may THEN [artifacts EXCEPT ![a].review = review.to] ELSE artifacts
       /\ review' = IF may /\ review.rerun THEN [review EXCEPT !.at = "rerun"] ELSE Reviewed
    /\ UNCHANGED <<run, force, step, task, result, outputs, journal, cache, clock, disk,
                   driver, recovery, mine, faults, crashes, denied>>

\* retry_rejected_run: one forced run of the same graph, if the parent ended.
Rerun ==
    /\ review.at = "rerun"
    /\ LET s == Row(review.art).step + 1 IN
       IF s \in Steps /\ MayBegin(s)
       THEN StartRun(s, TRUE)
       ELSE UNCHANGED <<run, step, force, driver, mine, denied>>
    /\ review' = Reviewed
    /\ UNCHANGED <<task, result, outputs, journal, artifacts, cache, clock, disk,
                   recovery, faults, crashes>>

-----------------------------------------------------------------------------
(* A crash, and the recovery of the next start.  The server serves while   *)
(* the recovery runs.                                                      *)

Crash(long) ==
    /\ crashes < MaxCrashes /\ Troubles < MaxTroubles
    /\ crashes' = crashes + 1
    /\ driver' = [d \in Drivers |-> NewDriver]
    /\ recovery' = [at |-> "commit", todo |-> {}, claimed |-> {}]
    /\ mine' = {}
    /\ review' = Reviewed
    /\ late' = IF long THEN Begun ELSE late
    /\ expired' = IF long THEN Begun ELSE expired
    /\ UNCHANGED <<rows, disk, faults, denied>>

Keys == Steps \X Ports
Entry(k) == journal[k[1]][k[2]]
File(k) == result[k[1]][k[2]]
Pending(k) == Entry(k).state \in {"staged", "published"}
Expired(k) == k[1] \in expired

\* Mutant: only the rows of the journal's own step are looked at.
UnnamedByItsStep(k) ==
    \A a \in DOMAIN artifacts : Row(a).step = k[1] => Row(a).body # File(k)

Unnamed(k) == \A a \in DOMAIN artifacts : Row(a).body # File(k)

\* Claimed for removal: pending, expired, without an artifact, and neither a
\* live task nor an unsettled run may still want it.
Collectable(k) ==
    /\ Pending(k) /\ Expired(k) /\ Entry(k).art = 0
    /\ Unnamed(k)
    /\ ~Ready(k[1])
    /\ run[k[1]] \notin {"failing", "stopping"}

Recovers(place) == recovery.at = place
OnlyRecovery ==
    /\ mine' = IF recovery'.at = "up" THEN {} ELSE mine
    /\ UNCHANGED <<run, force, step, task, result, outputs, artifacts, cache, clock, driver,
                   review, crashes, denied>>

ReconcileCommitted ==
    /\ Recovers("commit")
    /\ journal' = [s \in Steps |-> [p \in Ports |->
                     IF journal[s][p].state = "published" /\ step[s] = "succeeded"
                     THEN [journal[s][p] EXCEPT !.state = "committed"] ELSE journal[s][p]]]
    /\ recovery' = [at |-> "claim", claimed |-> {},
                    todo |-> {k \in Keys : Pending(k) /\ Expired(k) /\ Entry(k).art = 0}]
    /\ OnlyRecovery /\ UNCHANGED <<disk, faults>>

ClaimForGC ==
    /\ Recovers("claim")
    /\ IF recovery.todo = {}
       THEN recovery' = [recovery EXCEPT !.at = "remove"] /\ UNCHANGED journal
       ELSE \E k \in recovery.todo :
            /\ \A y \in recovery.todo : k[1] < y[1] \/ (k[1] = y[1] /\ k[2] <= y[2])
            /\ recovery' = [recovery EXCEPT !.todo = @ \ {k},
                               !.claimed = IF Collectable(k) THEN @ \cup {<<k, Len(artifacts)>>} ELSE @]
            /\ journal' = IF Collectable(k)
                          THEN [journal EXCEPT ![k[1]][k[2]].owner = "gc"] ELSE journal
    /\ OnlyRecovery /\ UNCHANGED <<disk, faults>>

RemoveFile ==
    /\ Recovers("remove")
    /\ IF recovery.claimed = {}
       THEN recovery' = [recovery EXCEPT !.at = "up"] /\ UNCHANGED <<disk, faults>>
       ELSE \E c \in recovery.claimed :
            \/ /\ disk' = disk \ {File(c[1])}
               /\ recovery' = [recovery EXCEPT !.at = "complete", !.todo = {c}]
               /\ UNCHANGED faults
            \/ /\ MayFail("remove")
               /\ faults' = faults \cup {"remove"}
               /\ recovery' = [recovery EXCEPT !.at = "failed"]
               /\ UNCHANGED disk
    /\ OnlyRecovery /\ UNCHANGED journal

\* An artifact that names the file now is an error that ends the recovery.
CompleteGC ==
    /\ Recovers("complete")
    /\ \E c \in recovery.todo : LET k == c[1] IN
          IF Pending(k) /\ Entry(k).owner = "gc" /\ Entry(k).art = 0 /\ Unnamed(k)
          THEN /\ journal' = [journal EXCEPT ![k[1]][k[2]] = NoJournal]
               /\ recovery' = [recovery EXCEPT !.at = "remove", !.todo = {},
                                               !.claimed = @ \ {c}]
          ELSE /\ recovery' = [recovery EXCEPT !.at = "failed"]
               /\ UNCHANGED journal
    /\ OnlyRecovery /\ UNCHANGED <<disk, faults>>

\* The recovery respawns an open run, also one this process has just begun;
\* a run whose step succeeded has nothing left to execute.
Respawn(s) ==
    /\ Recovers("up") /\ crashes > 0 /\ MayDrive
    /\ run[s] = "open" /\ At(<<s, "again">>, "idle")
    /\ Move(<<s, "again">>, [NewDriver EXCEPT !.at = IF step[s] = "succeeded" THEN "done"
                                                    ELSE "lookup"])
    /\ OnlyDriver(<<s, "again">>)

-----------------------------------------------------------------------------
ArtifactsInit ==
    /\ run = [s \in Steps |-> "none"] /\ step = [s \in Steps |-> "none"]
    /\ force = [s \in Steps |-> FALSE]
    /\ task = [s \in Steps |-> "none"]
    /\ \E b \in Bodies :
          result = [s \in Steps |-> [p \in Ports |-> b]]
    /\ late = {} /\ expired = {}
    /\ outputs = [s \in Steps |-> [p \in Ports |-> 0]]
    /\ journal = [s \in Steps |-> [p \in Ports |-> NoJournal]]
    /\ artifacts = <<>> /\ cache = <<>> /\ disk = {}
    /\ driver = [d \in Drivers |-> NewDriver]
    /\ recovery = [at |-> "up", todo |-> {}, claimed |-> {}]
    /\ mine = {} /\ review = NoReview
    /\ faults = {} /\ crashes = 0
    /\ denied = [s \in Steps |-> {}]

Drive(d) ==
    \/ Lookup(d) \/ Source(d) \/ Copy(d) \/ Hit(d)
    \/ Provided(d) \/ Resumed(d)
    \/ Round(d) \/ Port(d) \/ Link(d) \/ Unlink(d)
    \/ Hash(d) \/ Publish(d) \/ Finalize(d) \/ MarkCommitted(d) \/ Refresh(d)

ArtifactsNext ==
    \/ \E d \in Drivers : Drive(d)
    \/ \E s \in Steps :
          Begin(s) \/ RunSucceeds(s) \/ Stop(s) \/ Settle(s) \/ TooLate(s) \/ Respawn(s)
    \/ \E a \in DOMAIN artifacts, to \in {"accepted", "rejected"}, rerun \in BOOLEAN :
          AskReview(a, to, rerun)
    \/ WriteReview \/ Rerun
    \/ \E long \in BOOLEAN : Crash(long)
    \/ ReconcileCommitted \/ ClaimForGC \/ RemoveFile \/ CompleteGC

ArtifactsSpec == ArtifactsInit /\ [][ArtifactsNext]_vars

-----------------------------------------------------------------------------
(* What should hold.                                                       *)

RunStates == {"none", "open", "failing", "stopping", "over"}
Places == Stopped \cup {"lookup", "source", "copy", "hit", "execute", "round", "port",
                        "link", "unlink", "sha", "row", "finalize", "commit",
                        "refresh"}

\* Every variable has its type; an output, a journal and a cache entry name
\* rows that exist, and an output is a row of its own step and port.
ArtifactsTypeOK ==
    /\ run \in [Steps -> RunStates] /\ force \in [Steps -> BOOLEAN]
    /\ step \in [Steps -> {"none", "queued", "running", "succeeded", "failed", "skipped"}]
    /\ task \in [Steps -> {"none", "result_ready", "completed"}]
    /\ late \cup expired \subseteq Steps /\ disk \subseteq Bodies
    /\ \A s \in Steps, p \in Ports :
          /\ outputs[s][p] # 0 =>
                outputs[s][p] \in DOMAIN artifacts /\ Row(outputs[s][p]).step = s
                /\ Row(outputs[s][p]).port = p
          /\ journal[s][p].art # 0 => journal[s][p].art \in DOMAIN artifacts
          /\ journal[s][p].state \in {"none", "staged", "published", "committed"}
          /\ step[s] = "succeeded" => outputs[s][p] # 0
    /\ \A n \in DOMAIN cache : cache[n] \in DOMAIN artifacts
    /\ \A d \in Drivers : driver[d].at \in Places
    /\ recovery.at \in {"commit", "claim", "remove", "complete", "up", "failed"}

\* However often a paid result is materialized, by the executor, by the one
\* the recovery respawns beside it or after a crash, each port of the step
\* gets one artifact row (the journal's operation key; a cache hit makes
\* copies, which have a source).
OneArtifactPerPort ==
    /\ ArtifactsTypeOK
    /\ \A a, b \in DOMAIN artifacts :
          /\ Row(a).from = 0 /\ Row(b).from = 0
          /\ Row(a).step = Row(b).step /\ Row(a).port = Row(b).port
          => a = b

\* A step never succeeds with a copy of an artifact that a user had rejected
\* before the run began (try_cache_hit reads the review state of every
\* source; a source may itself be a copy).
NoRejectedReuse ==
    \A s \in Steps, p \in Ports :
        outputs[s][p] # 0 => Row(outputs[s][p]).from \notin denied[s]

\* The garbage collection never removes a file that an artifact row named
\* when the journal was claimed: the claim looks at the rows of every step,
\* since steps with the same payload share one file.
GcSparesKnownRows ==
    [][ recovery.at = "remove" /\ recovery'.at = "complete" =>
           \A a \in DOMAIN artifacts :
               HasFile(a) /\ Row(a).body \notin disk'
               => \E c \in recovery.claimed : File(c[1]) = Row(a).body /\ a > c[2] ]_vars

\* specs/GH154/product.md:171 and 172: a content-addressed file in reference is
\* never deleted by mistake.
ReferencedFileIsKept ==
    "unlink" \notin faults => \A a \in DOMAIN artifacts : HasFile(a)
=============================================================================
