# A TLA+ model of helixflow

helixflow turns a canvas graph into an execution plan and runs it against paid,
slow, remote media providers. Its workspaces are edited by people and by an
agent at the same time, and its server may stop at any moment. This project
models the parts of the program where that is hard, checks the models with TLC
and proves part of what holds of them with TLAPS.

Paths below are relative to `src/`; `crates/` is left out where it is clear.

## 1. The system

| part | state | operations | talks to |
|---|---|---|---|
| store (`crates/store`) | SQLite rows: runs, run_steps, run_provider_tasks, run_terminalization_work_items, run_failure_continuations, cost_ledger, artifacts and their journal, versions, proposals, agent_turns, canvas rows, messages | one transaction per method; guards are WHERE clauses, so a caller that lost a race sees "no row" | everyone |
| admission (`run/cost_gate.rs`, `background.rs`, `sweep_background.rs`, `store/run_claim.rs`) | run status, the interrupts map | create, estimate, hold, claim, confirm, sweep, revert | store, executor |
| self-heal (`run/self_heal.rs`) | failure continuations, retry chain | prepare a retry, start it within budget, resume after a restart | store, admission, executor |
| executor (`run/executor.rs`) | started, finished, skipped, first error, interrupted; a JoinSet of step workers | start, spawn ready steps, join, skip, settle, succeed | store, workers, settler |
| step worker (`executor.rs`, `provider_recovery.rs`, `dispatch_wait.rs`) | its place in `execute_step` | insert the task, dispatch under a renewed lease, poll, spool the result | store, provider, settler |
| settler (`run/terminal_settlement.rs`) | the work item it holds, the tasks it has read | request, claim, renew, cancel or abandon tasks, complete | store, provider; called by worker, executor, stop route, recovery |
| recovery (`run/provider_recovery.rs`) | recovery lease | collect expired artifact files, settle pending work, classify active runs, resume, continue failures | store, executor, settler, self-heal |
| materialization, cache (`provider_materialization.rs`, `artifact*.rs`, `cache.rs`) | files named by their content, journal, cache entries | hit, stage, link, publish, commit, refresh, collect | store, file system |
| versions and their files (`server/version_*`, `ops_routes.rs`, `proposal_routes.rs`) | version rows and graph files | publish a file, commit a row, clean up, check and sweep at startup | store, file system |
| graph logic (`crates/graph`, `registry`, `compiler`, `agent/canvas_edit.rs`) | none | validate, apply ops, order, plan, migrate, pin, compile, diff | version routes, admission |
| canvas (`server/canvas_collaboration.rs`, `layout_routes.rs`) | comments and their sequence, layout and its revision | comment, import, save, show | store |
| agent turns (`server/workbench_message*.rs`, `agent_turn_control.rs`, `agent/service.rs`) | turn, message and observation rows; the registry of active turns; the codex process | route, start, run rounds, apply, answer, interrupt, settle | store, agent process, versions, admission |
| image jobs, uploads, events, WebSockets, gateway HTTP, web | their rows or none | see section 6 | |

What makes it hard. A run is driven by up to five kinds of actors at once, all
of them `await` between any two transactions; a request sent to a provider
cannot be taken back, or asked about before its handle is stored; leases and
deadlines lapse under the actors that rely on them. Rows and files cannot be
written together. Handlers are dropped where they stand when a client
disconnects. Recovery is spawned beside the serving API (`app_state.rs:79-86`),
so it meets runs that are younger than itself.

What makes each part correct:

- rows: a charge exists exactly for a reported result; nothing terminal moves
  again; a settled run, its steps, its event and its retry agree;
- workers: no request is sent twice; what the rows say of money is true;
- executor: steps run after their inputs; success means every step succeeded;
- settler: it waits for live owners, it ends, it tells the user what it gave up;
- recovery: every run found at startup ends, whatever was cut off;
- admission: one active run (or sweep) per workspace, nothing dear unasked;
- self-heal: at most one retry per failure, within its budget;
- journal and cache: one artifact per output, nothing rejected handed out again,
  no file of a known row collected;
- versions: linear history, a file for every row, every proposal and keyed
  request takes effect once, orphans are accounted for;
- graphs: versions can be planned, plans follow edges, pins survive;
- canvas: no comment lost, operation ids commit once, saves do not undo others;
- turns: turn, message and observation agree, and the turn ends.

`PROJECT.json` lists every part with its status, and under "hazards" the places
where this code is hard to test, each with the properties that watch it.

## 2. Modules

    RunLifecycle            what the rows of a run promise their readers
        ^  implemented by (refinement mapping RunStore!Lifecycle)
    RunStore                the rows of one run; one action per transaction
        ^  implemented by (RunSettlement!StoreSpec)
    RunSettlement           the processes that call those transactions

    RunAdmission            the runs of one workspace, and who starts them
    Artifacts               results, files, journal, cache, collection

    Versions                version rows against graph files, every route
    Catalog <- GraphEdits <- IntentCompiler <- GraphVersions
                            pure graph logic, and the versions made with it
    Canvas                  comments and layout under compare-and-swap
    AgentRounds <- AgentTurns
                            the codex process, and the turn that uses it

    RunStoreProofs <- RunSettlementProofs, RunAdmissionProofs,
    ArtifactsProofs, VersionsProofs, CanvasProofs, GraphVersionsProofs,
    AgentTurnsProofs                                                 theorems
    MC*.tla and their .cfg files                                     instances

An arrow `<-` is EXTENDS. In every module a step is the code between two awaits:
at most one transaction, one file operation, or one call of the outside world.
Definitions whose comment begins with "Mutant:" are not part of any
specification: each is a plausible slip in the code that one property must
catch.

**RunStore.** Variables are columns or sets of rows: `runStatus`, `stepState`,
`task` (run_provider_tasks), `work` (run_terminalization_work_items), `ledger`
(cost_ledger rows "actual:{step}"), `risk` (billing-risk messages),
`continuation`, `endEvents` (terminal run events). An action `X` is the
transaction of the store method `X`; `CanX` is its WHERE clause. `Next` lets
anyone call anything at any time, with any identity: whatever holds here does
not depend on the callers' discipline, with one exception, the pairs of states
passed to `transition_provider_task` (`Closings`), which are literals at every
call site. A timestamp is one Boolean, "has it passed": `lease`, `overdue`,
`live`; the `Lapse` actions are the clock. A UUID of one call is renamed `Ghost`
when the call is over (`Retire`).

**RunSettlement** adds the processes. `exec` is `execute_created_run` with its
local variables; `worker[s]` is the place of `execute_step` and
`execute_provider_step`; `settler[a]` is actor a's call of
`request_and_settle_terminal`, where `seen` is the list of tasks read by the scan
(stale from then on); `user` is `interrupt_run`; `boot` is `recover_after_restart`
and `classify_running_restart`; `lease` is the run's recovery lease ("orphan" when
its holder died); `remote[s]` is what the provider knows of the step's request
(external: modelled from how `Provider::dispatch`, `resume` and `cancel_durable`
are used). `Crash` loses the processes and keeps rows, leases and remote
requests. Aborted workers (the JoinSet dropped by an error, `ExecErrs`) stop
where they are. A worker may find a cached result (`StepReuses`): its step succeeds
without a task and without a charge. `Reusable` names the steps for which the cache
may hold one, and the history `reused` those it has finished.

| code | actions |
|---|---|
| `request_and_settle_terminal` | `SettleRequest` ... `SettleReturn` |
| `execute_step`, `try_cache_hit`, `execute_provider_step`, `dispatch_with_durable_owner` | `StepReuses`, `StepBegin`, `StepInsert`, `StepRenew`, `Dispatch*`, `StepNotify`, `StepSettle`, `StepActivated` |
| `resume_provider_task`, `spool_provider_result` | `Poll*`, `CloseOverdue`, `StepSpool`, `StepFailFinal` |
| `materialize_provider_task(_once)` | `Materialize`, `Publish`, `StepPublished` |
| `execute_created_run(_inner)` | `ExecRegister` ... `ExecAnnounces` |
| `interrupt_run` | `UserInterrupts`, `UserChecks` |
| `recover_after_restart`, `classify_running_restart` | `BootPending` ... `BootReleases` |

Risk messages are keyed by run, provider and reason in the code and by step here:
steps are taken to use different providers. `restart_intent_is_complete` reads
rows the model does not have and may answer either way.

**RunAdmission** has several runs and forgets their steps: an executor ends its
run in one of three ways. `run[r]` is the row with its sweep group, cost, attempt
and parent; `cont` is run_failure_continuations; `flag` is the interrupts map with
the owner of the entry, because two requests for one run overwrite and remove each
other's; `call[c]` is a request of `run_routes.rs` or of the agent, and the sweep
task it spawns; `queueLock` is `run_queue_locks`; `boot` is the recovery, with the
list it read once. Routes: queue, ask (the agent's run request), sweep, confirm (a
run or a sweep), hold, stop, reject.

**Artifacts** follows runs of one node, each with one provider step, from the
spooled result to rows and files. `driver[d]` is an executor, or the second one a
restart spawns for the same run; `journal[s][p]` is artifact_publish_journal;
`disk` is the set of payloads whose file exists (a file is named by its hash, so
equal payloads share it); `recovery` is `reconcile_artifact_publish_journals` with
the journals it claimed; `cache` is the node's cache entry; `review` is a review
between its check and its write.

**Versions** has the nine routes that commit a version: create, ops, restore,
undo, apply and dismiss of a proposal, the agent's edit, migration, provider
switch. `req[c]` is a request with what it read (`cur`, `base`, `conn`), the
candidates it has published and its place: read, write the temporary file,
publish without replacing, commit, clean up. `disk` holds names and contents;
`left` remembers which names a fault, a lost client or a crash left behind.
`VerifyReferences`, `RemoveOrphan` and `Serve` are the start.

**Catalog, GraphEdits, IntentCompiler** are pure operators: ports, params and
binding resolution; validation, ops, Kahn's order, plans, embedded and sidecar
semantics, migration, canvas edits; intents to graphs and graphs to ops.
**GraphVersions** composes them: one request at a time makes the next version, by
ops, by an agent's plan, by a migration, by a restore, after a release with a new
catalog revision. Parameters are sets of keys; positions and titles are left out.

**Canvas.** `table` is the row of canvas_comment_states, `committed` the table of
operation ids, `snapshot` the layout with its revision, `legacy` the comments file
of an older release; `log`, `origin` and `shown` are history. A call reads, then
commits by comparing the sequence or the revision, and retries when its client
gave no base.

**AgentRounds, AgentTurns.** A session sends up to `MaxRounds` rounds to the codex
runtime; the processes of all rounds share one channel, one cancel slot and one
output file, as in `app_server_runtime.rs`. A turn's handler is dropped where it
stands by a disconnect; its guard spawns `settle_dropped_agent_turn`, and an
insert that was already under way may still arrive (`late`). The transaction of a
settlement may fail (`SettleFails`), which is logged and not tried again; the history
`unsettled` names the turns left so since the server started. `seen` is the contract
observation, `said` the visible messages.

## 3. Runs

| run | instance | checks | states |
|---|---|---|---|
| store | 1 step, 2 callers | `TypeOK`, `ChargedIffReported`, `SettledRunAgrees`, `OnlySettledFailuresRetry`, `TerminalIsFinal`, `Promise` | 412,220 |
| one_step | 1 step, stop, 2 crashes, paused processes | `RowsTellTheTruth`, `NeverResubmits`, `StoreSpec` | 1,220,668 |
| siblings | 2 parallel steps, 1 crash | `SucceededRunIsComplete`, `LiveOwnerIsWaitedFor` | 739,661 |
| chain | 2 dependent steps, stop, 1 crash, fair | `InputsAreReady`, `RunEnds`, `ToldUnlessStopped` | 184,823 |
| admission | 3 requests of any route, 3 run rows, sweeps of 2 | `OneActive`, `NothingUnapproved`, `SweepStopsAtFailure` | 530,875 |
| restart | 2 requests in order, 1 crash, fair | `OneActive`, `OneRetryPerFailure`, `EstimatingEnds` | 275,889 |
| artifacts | 2 runs, 2 executors, 1 payload, at most 2 of {review, fault, crash} | `OneArtifactPerPort`, `NoRejectedReuse`, `GcSparesKnownRows` | 1,613,498 |
| versions | 2 requests of any route, 1 shared key, 1 fault, 1 crash | `RowsHaveTheirFiles`, `HistoryIsLinear`, `ProposalsResolveOnce`, `RepeatsCommitOnce`, `OrphansAreExplained` | 183,676 |
| graph | 3 versions from small graphs, plans, ops and intents, 2 catalog revisions | `VersionsAreSound`, `PlansFollowTheEdges`, `AgentPinsRun`, `ProposalsConverge`, `MigratedPinsSurvive` | 18,272 |
| canvas | 3 clients, 2 comments, 2 nodes, 1 version | `CommentsAreTheLog`, `OperationsCommitOnce`, `SeqNamesComments`, `SavesTouchOnlyTheirNodes` | 832,783 |
| turns | 1 turn, 3 rounds, 1 save, 1 fault, 1 crash, fair | `OutcomesAgree`, `EndedTurnsSayWhy`, `TurnsEnd` | 217,318 |
| paid_task | 1 step, stop | `NoTaskOutlivesItsRun` is violated (section 4) | - |

The type invariant of a module is a conjunct of one of its safety invariants
(`AdmissionTypeOK` of `OneActive`, `VersionsTypeOK` of `RowsHaveTheirFiles`, and so
on), and `TypeOK` in RunStore, where the proofs cite it.

Bounds, and why they are enough.

- RunStore, RunSettlement: one step has every race between actors; two have the
  races of siblings and the dependence of one on the other. No transaction except
  `CompleteWork` reads two steps, and the proofs cover every number.
  `MaxCrashes` = 2 lets the recovery itself be cut off. `Stalls`: whether a live
  process may be paused longer than its 60 s leases. `Reusable` is every step, except
  in the chain, where it is the second: with both, `InputsAreReady` also passes, but
  the liveness takes more than five minutes.
- RunAdmission: `MaxRuns` = 3 holds a sweep of two and a third run that must not
  start beside it, or a run, its retry and a newcomer; three requests are a
  creation, a confirmation and the one that races them. `Earlier` orders the two
  requests of the restart run, because which comes first makes no difference
  there; unordered, the safety properties and `EstimatingEnds` also pass (415,586
  states, 3 minutes).
- Artifacts: two runs with one payload is the shared file; two executors are the
  one that is alive and the one the recovery adds. `MaxTroubles` = 2 lets any two
  troubles meet; without it the instance passes too (4.3 million states, 3
  minutes). `MaxDrivers`, `MaxReviews`, `MaxFaults`, `MaxCrashes`, `MaxArtifacts`
  bound each kind.
- Versions: races are between two writers of one head; a third adds nothing that
  `Legacy` files and proposals do not (3 requests without faults and crashes pass:
  329,000 states; with a crash: 3.1 million; with a fault: 1.6 million).
- GraphVersions: the graphs of `MCGraphVersions` have the shapes the code tells
  apart: parallel edges, an edge into a reference input, a legacy model parameter,
  a structural node, an unknown binding, a replaced type. Three versions let a
  restore bring back the first after the second.
- Canvas: the third client is the one that commits between another's read and its
  commit while the first repeats; `MaxRetries` is 64 in the code and 1 here, so
  that running out of retries happens. Two clients with two versions pass as well
  (169,000 states).
- AgentTurns: three rounds let a process of the first report in the third. Two
  turns of two rounds with one crash pass too (560,000 states); with a fault as well
  their invariants do (1.4 million states).

Deadlock is checked only in RunStore: everything else may come to rest when its
requests are answered.

Fairness. `FairSpec` (RunSettlement): weak fairness of each actor's steps, because
tokio runs every task that can run and every wait is a sleep that ends; of
`RemoteFinishes`, because a provider's job ends; of the lapses, because clocks
advance; none for `Crash`, the user, `RemoteAccepts` or a lapse under a live owner.
`FairAdmission`: weak fairness of each request that was received and of the
recovery; none for new requests, executors or healers. `FairTurnsSpec`: of the
handler, of the service (its timeout ends every wait), of the spawned settling
tasks and of the startup; none for the codex process, the user or the network.

## 4. Where the code departs from its documents

Run `paid_task` is kept as a check: `specs/GH154/product.md:82` excludes a terminal
run with an active paid task, and a worker about to insert its task when the
settler ends the run dispatches it all the same (`provider_recovery.rs:372`).

The other departures met while modelling are stated as properties too, each with
a configuration that finds the violation (`tlc -config <cfg> <module>`):

| configuration | property | what happens |
|---|---|---|
| `MCRunSettlement_untold` | `AbandonedIsTold` | an executor error aborts a sibling between abandon and billing-risk message (GH154 product.md:97) |
| `MCRunSettlement_failed_result` | `FailedResultIsNoSuccess` | crash after spooling a failure: recovery publishes it as a success without outputs (GH154 tech.md:354) |
| `MCRunSettlement_two_restarts` | `RunEnds` | a second restart respects the dead first one's lease and never comes back (GH154 product.md:96) |
| `MCRunSettlement_overwrite` | `InterruptIsNotOverwritten` | success is written over a settling interrupt (GH154 product.md:155) |
| `MCRunSettlement_new_step` | `NoStepAfterWorkItem` | a step is spawned after a sibling's failure was committed (GH154 product.md:79) |
| `MCRunSettlement_hang` | `InterruptedExecutionReturns` | the materialization loop waits for a task the settler closed |
| `MCRunAdmission_stranded` | `RunningIsDriven` | of two confirmations of one sweep the losing one removes the interrupt flag; the sweep task marks its member running, misses the flag and ends (GH102 product.md:39, GH58 product.md:38) |
| `MCRunAdmission_sweep_restart` | `AnySweepStopsAtFailure` | after a restart the recovery takes a sweep member that a new request has just started for a stale running run and gives it a second executor; that one fails the run while a stop ends the sweep's own executor, which returns ok, and the sweep goes on to the next member (GH58 tech.md:45: the task stops at the member boundary) |
| `MCArtifacts_shared` | `ReferencedFileIsKept` | the collector claims an expired journal, a new run with the same payload publishes its row, the file is removed under it (GH154 product.md:171) |
| `MCCanvas_repeat` | `RepeatsSucceed` | a retry reads the comments again but not the operation ids: a repeat that was committed meanwhile finds its own comment there and is answered with a conflict (`canvas_collaboration.rs:208-213`; GH120 product.md, P3) |
| `MCAgentTurns_rounds` | `OneRoundPerFailure` | a process killed by the timeout also reports a failure: two rounds for one (`service.rs:250-258`, GH67 product.md:42) |
| `MCGraphVersions_pins` | `PinsSurvive` | an agent edit stores only the compiled semantics, so pins that were only in the sidecar are lost (`workbench_message_intent.rs:172`); ops on a graph without a catalog revision migrate it again, over its pins (`ops_routes.rs:208`; GH144 product.md, invariant 15) |

`MCRunSettlement_siblings_end` is the opposite: `SettlingEnds` and `RunEnds` of two
parallel steps that settle at once hold; `SettlingEnds` also holds of the chain.

What narrows the passing properties: `RunEnds` holds with one crash and not with
two; `ToldUnlessStopped` allows for a crash, and holds of a chain because only
parallel steps can be aborted by a sibling's error; `LiveOwnerIsWaitedFor` holds
while live owners renew in time, and not with `Stalls = TRUE`; `SweepStopsAtFailure`
holds until the server first stops; `GcSparesKnownRows` speaks of the rows there
were when a journal was claimed; `MigratedPinsSurvive` of graphs with a catalog
revision; `ProposalsConverge` leaves out a node replaced by one of another type (its
kept edges are lost, `proposal_diff.rs:37-46`) and an edge held twice;
`AgentPinsRun` speaks of the nodes new in an agent's version; `TurnsEnd` excepts a
turn whose settlement failed, which stays `running` until the next restart
(`agent_turn_control.rs:126-131`). `AgentTurns!SuccessIsNotDenied` fails: after a
commit the handler may still answer with an error (`workbench_message.rs:581-617`).

Consequences seen in RunAdmission that no document excludes: a run the recovery
respawned never self-heals until the next restart; a failing sweep member that is
not the recommended one leaves its siblings queued, blocking the workspace; queued
runs are never requeued, so `HELIXFLOW_RUN_REQUEUE_ON_RESTART` has no effect on
retries; a stop during estimation may leave a work item that is still settling; one
failing `resume_retry_created` ends the recovery. In RunSettlement: a step that is
resumed looks for a cached result before it looks at its own task, so the task it
had may stay in flight with nobody to follow it (`executor.rs:338`). In Versions: a
keyed file left by a crash is deliberately never removed and its key stays unusable;
restoring a keyed version makes a later repeat of its key a conflict; dismissing
writes the state and the message in two transactions. In Artifacts: a failing
removal of a link may take a file another executor has just published
(`artifact_path.rs:165-172`); one failing removal or lost lease ends the whole
recovery.

## 5. Proofs

For every value of the constants, from the ASSUMEs of the modules alone:

| module | theorem | statement |
|---|---|---|
| `RunStoreProofs` | `TypeCorrect` | `Spec => []TypeOK` |
| | `ChargedCorrect` | `Spec => []ChargedIffReported` |
| | `SettledCorrect` | `Spec => []SettledRunAgrees` |
| | `RetryCorrect` | `Spec => []OnlySettledFailuresRetry` |
| | `TerminalStays` | `Spec => TerminalIsFinal` |
| | `ImplementsLifecycle` | `Spec => Promise` |
| `RunSettlementProofs` | `SettlementInvariant` | `SettleSpec => []Inv` |
| | `StoreImplemented` | `SettleSpec => StoreSpec` |
| | `RowsAreTruthful` | `SettleSpec => []RowsTellTheTruth` |
| | `SuccessIsComplete` | `SettleSpec => []SucceededRunIsComplete` |
| | `NothingIsResubmitted` | `SettleSpec => NeverResubmits` |
| | `StepsFindTheirInputs` | `SettleSpec => InputsAreReady` |
| | `LiveOwnersAreWaitedFor` | `~Stalls => (SettleSpec => LiveOwnerIsWaitedFor)` |
| | `SettlementKeepsPromise` | `SettleSpec => Promise` |
| `RunAdmissionProofs` | `AdmissionInvariant` | `AdmissionSpec => []Inv` |
| | `OneActiveAlways` | `AdmissionSpec => []OneActive` |
| | `NothingUnapprovedAlways` | `AdmissionSpec => []NothingUnapproved` |
| | `OneRetryPerFailureAlways` | `AdmissionSpec => []OneRetryPerFailure` |
| | `SweepsInOrder` | `AdmissionSpec => SweepStopsAtFailure` |
| `ArtifactsProofs` | `ArtifactsInvariant` | `ArtifactsSpec => []Inv` |
| | `OneRowPerPort` | `ArtifactsSpec => []OneArtifactPerPort` |
| | `RejectedIsNotReused` | `ArtifactsSpec => []NoRejectedReuse` |
| | `KnownRowsAreSpared` | `ArtifactsSpec => GcSparesKnownRows` |
| `VersionsProofs` | `LinearHistory` | `Spec => []HistoryIsLinear` |
| | `FilesOutliveRows` | `Spec => []RowsHaveTheirFiles` |
| | `ResolvedOnce` | `Spec => []ProposalsResolveOnce` |
| | `RepeatedOnce` | `Spec => []RepeatsCommitOnce` |
| | `OrphansExplained` | `Spec => []OrphansAreExplained` |
| `CanvasProofs` | `CommitsOnce` | `CanvasSpec => []OperationsCommitOnce` |
| | `SequenceNamesComments` | `CanvasSpec => []SeqNamesComments` |
| | `NoCommentIsLost` | `CanvasSpec => CommitsOnWhatIsThere` |
| | `CommentsFollowTheLog` | `CanvasSpec => []CommentsAreTheLog` |
| | `SavesHold` | `CanvasSpec => SavesTouchOnlyTheirNodes` |
| `GraphVersionsProofs` | `HistoryIsWellKept` | `Spec => []WellKept` |
| | `MigratedPinsAreKept` | `Spec => MigratedPinsSurvive` |
| | `EveryVersionIsSound` | `Spec => []VersionsAreSound` |
| | `EveryPlanFollows` | `Spec => []PlansFollowTheEdges` |
| | `EveryAgentPinRuns` | `Spec => []AgentPinsRun` |
| | `ProposalsAlwaysConverge` | `Spec => []ProposalsConverge` |
| `AgentTurnsProofs` | `TurnsInvariant` | `TurnsSpec => []Inv` |
| | `ObservationTellsTheTurn` | `TurnsSpec => []OutcomesAgree` |
| | `NoTurnEndsInSilence` | `TurnsSpec => []EndedTurnsSayWhy` |

RunStore. Type correctness is inductive with two lemmas about what transactions do
to `task` and `work`. `ChargedIffReported` is inductive given types: the only
transaction that enters `result_ready` writes the ledger, and from there `Closings`
allows only `completed`. `SettledRunAgrees` is not inductive alone: it needs
`OnlySettledFailuresRetry`, because a continuation that existed before the work item
is completed as "interrupted" would break the equivalence; the two are proved
together (`SettledInductive`). `TerminalIsFinal` and the step part of `Promise` use
`OneThingAtATime`: a transaction either ends the run, or charges, or closes one step.

RunSettlement. First, every step of every process is one transaction of RunStore or
none (`SettlerTransactions`, `WorkerTransactions`, ...), given that the states a caller
passes are one of `Closings` and its identity is one of the store's owners. That is
`StoreImplemented`, and with it everything proved of the rows holds of the processes,
`Promise` included (`SettlementKeepsPromise`). What the rows cannot say is in `Inv`.
`Money` ties a task row to what the provider knows; it is inductive because a place
that closes a task has first heard the provider's answer (`Workers`, `Settlers`: what
a worker or a settler remembers of the task it is about to close, which its lease
alone does not protect). `StepsSound` and `Scheduling` lead from a joined worker to
`SucceededRunIsComplete`: a step that has succeeded was finished by a cached result
(`ReusesInv`: and is remembered so) or has its task closed and charged; as
long as nothing failed, what the executor has joined has succeeded, and it leaves its
loop only with all steps; that something can start while
not everything is finished (no silent dead end) is where the plan must have no cycle.
`Recovering` and `BootCalls` say that recovery is alone, so that a restart cannot
submit what a live worker is submitting. `LiveOwnersAreWaitedFor` has `~Stalls` as its
hypothesis, because a task that is paused for longer than its lease loses it.

Two assumptions carry these proofs. `ActorAssumption`: the identities of the store are
the actors of RunSettlement and no step is called "user", "exec" or "boot", which are
UUIDs made per call in the code. `AcyclicAssumption`: the plan has no cycle, which
`Graph::plan` refuses with `CycleDetected` (`crates/graph/src/lib.rs:717`).

RunAdmission. None of its three invariants is inductive: each admission reads a run,
awaits, and changes it later. The proof is in two parts. What a step may do to the
rows is `RowStep`: a guarded change of one status (`Moved`), a new run (`Asked`), a
saved estimate (`Priced`) or a retry (`Retried`); `RowsAfter` shows that such a step
keeps `Alone` (one active run or sweep) and `Approved` (what starts is cheap or
confirmed), because every way into an active status repeats the busy test in its
transaction. It also keeps what anyone has learned of a run (`Keeps`): a run that has
begun has, a settled price stays, an ended run stays ended. The rest of the
invariant says what each task knows of the run it is about to change: a request that
claims, a sweep that queues its members, a healer and the recovery hold runs that are
`Cleared` (`CallsInv`, `HealsInv`, `BootInv`), an executor's run has begun
(`ExecsInv`), and no two requests estimate one run (`Apart`), so that a saved price
is never another request's. `LinksInv` says that the continuation of a failed run, or
the record of a rejected one, names the only child there is; `OneRetryPerFailure`
follows. The rows are an initial segment (`RowsInv`), whose length is `Latest`
(`SegmentSize`, by `FiniteSetTheorems`), so a new row is nobody's yet.

`SweepsInOrder` is about more than one action: that the task of a sweep goes on only
from a member that has succeeded rests on who else could have started or ended one.
`SweepInv`, beside `Inv` and until the first crash, says five things. A group is named
after its first run, no retry or rerun is in one, and two requests never make one group
(`GroupsInv`, `OwnGroups`). A request's list has every older member of a group before
each member it has (`Covers`, which `Ascending` gives a confirmed sweep by counting:
`AscendingCovers`), and while the request is still making the group, all of its members
(`Complete`). A member has one executor, its sweep's
(`OneExecutor`), because claims, healers and reruns only start runs of no group. Only
that executor asks for the member to fail, so as long as it has not, nobody has, and
when it returns ok the run has ended and did not fail (`MemberOK`). What the task has
passed has succeeded (`SweepCall`). Each step is digested into what it does to the rows
and to the work items (`Kept`, `Worked`): a run fails only if it was asked to or its
estimate failed, and a member starts only when it is `Ready`. The recovery breaks
`OneExecutor`, which is the violation of section 4 and the reason for the hypothesis
`crashes = 0`.

Artifacts. `OneArtifactPerPort` needs the converse of what the journal says: a row
that was published, not copied, is the one its journal names (`Books`), so a journal
without an artifact has no row yet. `NoRejectedReuse` is about a chain: an executor
looks at every source of a cache entry before it copies the first one, and a review
may come between. `Denials` says that a rejection is final and that no row of a run is
a copy of what was rejected before the run began; `Executors` says of the places in
between which of the sources have been looked at (`Looked`) and which ids are rows made
for the step (`Made`). `Claims` holds for the collector: the file of a claimed journal
is named by none of the rows there were, and its name stays the same because a journal
exists only for a task that has its result. `RowsGrow` is what every step does to the
rows, and with it one lemma covers all executors but the one that moves. For these
proofs the first claim of `ClaimForGC` is picked by a quantifier and not by CHOOSE.

Versions. Every insert but the first compares its parent with `current` in the same
transaction, which the invariant says is the last row, so the new row continues the
line. The first has no parent to compare: `LinearInv` adds that one request creates
the workspace, before any version exists and while nobody else can (`Creation`), and
that requests are records of one shape, changed one at a time (`RequestShape`). Each
of the nine commits is a step of the proof.

The files need much more, because nothing in the database protects a file. `FilesInv`
says of each request how far it is with its candidates and which of them it has
published and neither handed to a row nor removed (`Progress`), that these are on disk
with its content and named by no row before its transaction (`Held`), that a temporary
file lives no longer than its publish (`TempGone`), that a name of its own is taken by
nobody (`Unshared`), and that the version it goes back to exists (`Target`); of two
requests, that they never hold the same file, keyed ones included (`Exclusive`).
Ownership is the argument: a cleanup removes only what its request holds, so it never
removes what a row names, and a collision happens only under a key. Every step is first
digested into a `Frame` (which files it adds and removes, which rows it adds, all of
them of one request); `OthersKept` then covers all other requests, `RowFilesKept` the
rows, and each action is left with the invariant of its own request (`OwnInv`).

`ProposalInv` adds to `ProposalsResolveOnce` that an agent's proposal is never pending
and that each has a version of its own; resolving compares the state and the current
version in one transaction, which is what leaves one winner. `RepeatsInv` says that a
keyed file names one manual version and one migration record one version; a request
that is being answered as a repeat holds the version it was found by (`Answered`).
`OrphanInv` counts a file as explained when a row names it, a request has it in hand or
`left` remembers it. While it was being proved, a conjunct of `OrphansAreExplained`
turned out to stand inside the scope of the quantifier before it and so to say less
than meant; it is corrected, and checked again.

Canvas. `Shape` gives each call the fields its place needs. `Views` is the heart:
whatever a call has read with the sequence the row still has is what the row
still holds, also for records read before the row existed or before a version
moved the sequence, and two records with one sequence agree. From it follow
`SeqNamesComments` and that a commit whose sequence matches was computed on the
comments that are there (`CommitIsCurrent`), which is `NoCommentIsLost`.
`CommentsAreTheLog` repeats that step over the whole log (`CommentsFollowTheLog`).
Its recursive function exists because every step of it stays among the lists of
comments (`Recursion`, `AppliedComments`), and two logs that agree up to an entry
make the same of it (`ReplayOneMore`). The library's induction theorems take an
operator and cannot be used; the induction is over sets instead: the finite sets of
numbers are well founded, so a nonempty set of numbers has a least member
(`LeastNatural`, `Induction`). Around it `Contents` says that a row that is yet to be
made has an empty log, that a call about to make it holds what a sound file held, and
that a layout about to be saved places nodes of its graph.
`OperationsCommitOnce` is inductive with the shape of the log (`LogInv`); its
conjunct on cardinalities uses `FiniteSetTheorems`. For saves,
`SaveInv` says that a save whose revision is still the layout's holds a merge of the
layout that is there, which survives every other step because a layout changes
only with its revision and a version's graph never changes (`History`).

AgentTurns. `Stands` says for each place of the handler what has been observed and
said when it stands there: an edit that compiles has a started observation, a handler
about to end a turn with an error has said one. `HandlerOK` adds that no task and no
late insert writes for the handler's turn, so only its own steps disturb `Stands`.
`LeftOK` is the bargain of the durable guard: a task that does not know of the
observation was spawned before there was one, and an insert still under way fits what
was observed when its handler was dropped. `TurnOK` relates the three tables; besides the
two properties it needs that a turn says nothing while its observation is open, and
nothing but errors once that ended in one, which is why the settling task finds a
fitting message or may write one (`SettlementIs`). A first form demanded that no ended
turn keep an open observation except while the startup finalizes observations; it passed
TLC with one crash and is not inductive, because a second crash may come between the two
finalizers (`app_state.rs:61`): `TurnOK` demands it of a server that is up. Steps
that only move the handler are one lemma (`StepMoves`), dropping it another
(`HandlerEnds`), and what others write for a turn nobody holds a third (`OthersWrite`). A
settlement that fails leaves the rows as they are (`SettleFailsKeeps`).

GraphVersions. The state is small; what is proved is what loops over lists and graphs
compute, of any length. Each loop is a recursive function in the model, and for each a
lemma says that the function exists (`AppliedTrace`, `PreparedTrace`, `OrderedTrace`,
...), again by induction over sets of numbers (`LeastNatural`, `Induction`); what holds
of the loop is an invariant carried along that function. `WellKept` says of each
version that its graph has a graph's shape (a finite set of numbered nodes, a list of
edges) and that a migrated one keeps its sidecar within what its nodes embed.
`MigratedPinsAreKept`: an operation changes the semantics of the nodes it names
(`UntouchedPins`), on a migrated graph nothing is migrated again, and the sidecar hides
nothing, so what a run sees is what the nodes embed (`PinsAreEmbedded`).
`EveryVersionIsSound` needs Kahn's algorithm: `SoFar` says that what is placed has all
its sources placed, that a ready node has no unplaced source and that everything else
has one; so an order that covers all nodes (`Valid` compares the lengths) leaves no set
of nodes that feeds itself (`OrderedIsAcyclic`: its first member in the order takes
nothing from it). A request that yields no valid graph made no version, except those
that bring back what was there (`ValidOrInherited`: so a version that is not valid has
the graph of an earlier one or of the start). `EveryPlanFollows` reads the same
order: the position of a source is before its target's, and two nodes joined by several
edges wait for one step. `EveryAgentPinRuns` follows an added node from the plan through
translation, the operations and the sidecar to the run (`AppliedPinned`). The agent
resolves a name or the policy among the connectors that are up, the run a model's id on
one connector: what the first finds there is the second's only choice, or both take the
default (`FoundByName`, `FoundByPolicy`, `FoundAgain`, `PinResolves`).

`ProposalsAlwaysConverge` follows a proposal through its four lists (`DiffConverges`),
and each needs the one before. The edges that go are named once each, because the graph
has each once (`NotDoubled`, `AmongOnce`), so each removal finds its edge
(`EdgesRemoved`). When the nodes go, the edges that are left belong to the target, which
is valid, so no removal takes one with it (`NodesRemoved`). A node that stays gets the
parameters and the semantics it lacks (`ParamsSet`, `NodeDone`, one list behind the
other in `NodesDone`), and the new edges come last (`EdgesAdded`). That the target is
valid and finite comes from the compiler (`BuiltTarget`); `ProposalFits` keeps it with
the proposal.

Their assumptions are those of `Catalog` and `GraphVersions`. Of the built-in tables
(`registry/src/builtin.rs`, `catalog_seed.rs`): they are finite, a type's input ports
have different names, defaults are bindings of their capability, and no model's id is
another one's name or alias, which `normalize_model` does not check but relies on.
Of requests: they have the shape their routes parse (`RequestsParse`).

Only model-checked: all liveness (`RunEnds`, `ToldUnlessStopped`, `EstimatingEnds`,
`TurnsEnd`), which is out of the prover's reach. Every invariant of a passing run is
stated by a theorem of this table.

## 6. Not modelled

- RunSettlement: whether a run was asked for with `force_rerun` and what the cache
  holds for a step (each worker of a reusable step may find a result or not), the
  mark `cached` written to its row after the hit; builtin steps, database errors
  (each would end in `ExecErrs` or a worker's "error"), a panicking worker,
  providers that can neither resume nor cancel (the mock), the wait for a foreign
  dispatch owner (`provider_recovery.rs:386-427`, only with two live instances).
  Durations: that two cancellations of 30 s use up the settler's 60 s lease.
- RunAdmission: functions that no server route calls (`confirm_run`,
  `confirm_sweep_runs`, `start_manual_run`, `execute_manual_run`,
  `request_agent_run`, `request_sweep_plan`), a retry without an estimate, the
  choice of artifacts in `finalize_sweep`. The recovery lease is in RunSettlement.
- Artifacts: `.part` files, review selection and metadata, remote downloads, builtin
  steps, the cache key.
- Versions: the export route's safety check; a second failing removal during one
  cleanup; migration with `migration_apply_enabled` off.
- Graph: values and types of parameters, positions, titles, the `prev` conflict of
  ops, which question a clarification asks. Binding modes equal capabilities and
  readiness is "the connector is up", as in the built-in catalog.
- Canvas: viewport and sizes, access tickets, the WebSocket stream, presence.
- AgentTurns: what a turn's run request does after it is made (RunAdmission), the
  wording of messages; the codex process is external, modelled from the events
  `app_server_runtime.rs` makes of it.
- Image jobs: one detached task drives a job through guarded updates, the startup
  finalizer runs before the server serves, and the link route writes only rows that
  have succeeded: no two actors compete. Uploads are append-only. Events and
  WebSockets broadcast rows already committed. Gateway HTTP, authentication and
  the web interface are I/O and rendering.

## 7. Running

    tlc -workers 2 -config MCRunStore.cfg MCRunStore.tla
    tlc -workers 2 -config MCRunSettlement_chain.cfg MCRunSettlement.tla
    tlc -workers 2 -config MCRunAdmission_restart.cfg MCRunAdmission.tla
    tlapm RunStoreProofs.tla

Each run takes at most two minutes. `tlapm` needs about a minute per module,
and several for RunAdmissionProofs, VersionsProofs and GraphVersionsProofs when nothing is cached.
