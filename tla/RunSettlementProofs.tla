------------------------ MODULE RunSettlementProofs ------------------------
(***************************************************************************)
(* What RunSettlement's processes keep true for every plan, every number   *)
(* of crashes and every interleaving: the proofs behind the runs one_step, *)
(* siblings and chain.                                                     *)
(***************************************************************************)
EXTENDS RunSettlement, RunStoreProofs, FiniteSetTheorems

-----------------------------------------------------------------------------
(* The inductive invariant, by what its parts are about.                   *)

\* The money half: what task row and provider know of each other.
Money ==
    \A s \in Steps :
        /\ task[s].state = "none" => remote[s] = "none"
        /\ s \in ledger => remote[s] \in {"done", "failed"}
        /\ task[s].state = "cancelled" => remote[s] = "cancelled"
        /\ task[s].state = "completed" /\ s \notin ledger => remote[s] = "none"

\* What the worker of step s knows of its own task where it relies on it.
WorkerOK(s) ==
    /\ worker[s] \in {"spool", "spoolFailed"} => remote[s] \in {"done", "failed"}
    /\ worker[s] = "overdueCancelled" => remote[s] = "cancelled"
    /\ worker[s] = "dispatch" => task[s].state \in {"dispatching", "abandoned"}
    /\ worker[s] = "dispatch" /\ OwnsDispatch(s, s) /\ ~task[s].lease /\ ~Stalls
       => task[s].overdue
    /\ worker[s] \in {"published", "ok"} => stepState[s] = "succeeded"

\* What the settler of actor a remembers of the tasks it has read.
SettlerOK(a) ==
    /\ \A p \in settler[a].seen : task[p[1]].state # "none"
    /\ \A s \in settler[a].cur : task[s].state # "none"
    /\ \A s, t \in settler[a].cur : s = t
    /\ settler[a].at = "cancelled" => \A s \in settler[a].cur : remote[s] = "cancelled"
    /\ settler[a].at = "stopped" /\ ~Stalls =>
          \A s \in settler[a].cur : ~(OwnsDispatch(s, s) /\ task[s].lease)
    /\ a \in Steps /\ settler[a].at # "off" => worker[a] = "settling"

Workers  == \A s \in Steps : WorkerOK(s)
Settlers == \A a \in Actors : SettlerOK(a)

\* Recovery is alone: the processes of the crashed server are gone.
Recovering ==
    boot # "off" =>
        /\ exec.at = "off"
        /\ \A s \in Steps : worker[s] = "idle" /\ ~OwnsDispatch(s, s)

\* Recovery calls the settler only where it waits for it.
BootCalls == settler["boot"].at # "off" => boot \in {"resettle", "giveup"}

\* A step that succeeded has a closed and charged task, or needed none.
StepsSound ==
    \A s \in Steps :
        stepState[s] = "succeeded" =>
            s \in reused \/ (task[s].state = "completed" /\ s \in ledger)

\* The executor's sets: what it started and has not joined is running, and
\* as long as nothing failed or was stopped what it joined has succeeded.
Scheduling ==
    /\ exec.at \in {"spawned", "start"} => Running = {}
    /\ exec.at \in {"top", "join"} =>
          /\ exec.finished \subseteq exec.started
          /\ Running = exec.started \ exec.finished
    /\ exec.at \in {"top", "join", "finish"} /\ ~exec.failed /\ ~exec.interrupted =>
          \A s \in exec.finished : stepState[s] = "succeeded"
    /\ exec.at = "finish" /\ ~exec.failed /\ ~exec.interrupted => exec.finished = Steps
    /\ exec.at = "succeed" \/ runStatus = "succeeded" =>
          \A s \in Steps : stepState[s] = "succeeded"

Rows == TypeOK /\ ChargedIffReported /\ ProcTypeOK

Inv ==
    /\ Rows /\ Money /\ Workers /\ Settlers
    /\ Recovering /\ BootCalls /\ StepsSound /\ Scheduling

-----------------------------------------------------------------------------
(* Every step of every process is one transaction of the store, or none.   *)

\* The caller's compare-and-swap is one of the pairs the store knows.
LEMMA CloseIsStep ==
    ASSUME NEW s \in Steps, NEW from, NEW to, NEW code \in Codes, CloseTask(s, from, to, code)
    PROVE  Next
<1> DEFINE c == <<from, to>>
<1>1. c \in Closings /\ c[1] = from /\ c[2] = to
  BY DEF CloseTask
<1>2. CloseTask(s, c[1], c[2], code)
  BY <1>1
<1> HIDE DEF c
<1> QED BY <1>1, <1>2 DEF Next, TaskNext

\* A failed step is one transaction, or no row was affected.
LEMMA FailsIsStep ==
    ASSUME NEW s \in Steps, NEW from, NEW to, NEW code \in Codes,
           NEW d \in {"failed", "interrupted"}, Fails(s, from, to, code, d)
    PROVE  [Next]_storeVars
<1>1. CASE CanFinalizeFailure(s, from, to, code)
  <2> DEFINE c == <<from, to>>
  <2>1. c \in Closings /\ c[1] = from /\ c[2] = to
    BY <1>1 DEF Fails, FinalizeFailure
  <2>2. FinalizeFailure(s, c[1], c[2], code, d)
    BY <1>1, <2>1 DEF Fails
  <2> HIDE DEF c
  <2> QED BY <2>1, <2>2 DEF Next, TaskNext
<1>2. CASE ~CanFinalizeFailure(s, from, to, code)
  BY <1>2 DEF Fails, Keep
<1> QED BY <1>1, <1>2

\* An identity that is not used again is one of the store's owners.
LEMMA RetireIsStep ==
    ASSUME NEW O \in SUBSET Actors, Retire(O)
    PROVE  Next
  BY ActorAssumption DEF Next, RunNext

\* Setting a step's row is a transaction of that step.
LEMMA SetStepIsStep ==
    ASSUME NEW s \in Steps, NEW st \in StepStates, SetStep(s, st)
    PROVE  Next
  BY DEF Next, TaskNext

LEMMA SettlerTransactions ==
    ASSUME Rows, NEW a \in Actors, SettleStep(a)
    PROVE  [Next]_storeVars
<1> USE DEF Keep
<1>1. CASE SettleRequest(a)
  BY <1>1 DEF SettleRequest, Next, RunNext
<1>2. CASE SettleClaim(a)
  BY <1>2, ActorAssumption DEF SettleClaim, Next, RunNext
<1>3. CASE SettleNotNeeded(a) \/ SettleLostLease(a) \/ SettleReturn(a)
  BY <1>3, RetireIsStep DEF SettleNotNeeded, SettleLostLease, SettleReturn, Return
<1>4. CASE SettleRenew(a) \/ SettleCancel(a) \/ SettleScanned(a)
  BY <1>4 DEF SettleRenew, SettleCancel, SettleScanned
<1>5. CASE SettleScan(a)
  <2>1. PICK p \in settler[a].seen :
              ScanActive(a, p) \/ ScanDispatching(a, p) \/ ScanResultReady(a, p)
    BY <1>5 DEF SettleScan
  <2>2. p[1] \in Steps
    BY <2>1 DEF Rows, ProcTypeOK
  <2>3. CASE ScanActive(a, p) \/ ScanDispatching(a, p)
    BY <2>3 DEF ScanActive, ScanDispatching
  <2>4. CASE ScanResultReady(a, p)
    BY <2>2, <2>4, CloseIsStep DEF ScanResultReady, Codes
  <2> QED BY <2>1, <2>3, <2>4
<1>6. CASE SettleClose(a)
  <2>1. PICK s \in settler[a].cur, from \in {"dispatching", "active"}, at \in {"cancelled", "other"} :
              IF task[s].state # from THEN Keep
              ELSE IF at = "cancelled" THEN CloseTask(s, from, "cancelled", "none")
              ELSE CloseTask(s, from, "abandoned", "stopped")
    BY <1>6 DEF SettleClose
  <2>2. s \in Steps
    BY <2>1 DEF Rows, ProcTypeOK
  <2> QED BY <2>1, <2>2, CloseIsStep DEF Codes
<1>7. CASE SettleNotify(a)
  BY <1>7 DEF SettleNotify, Rows, ProcTypeOK, Next, RunNext
<1>8. CASE SettleComplete(a)
  BY <1>8, ActorAssumption DEF SettleComplete, Next, RunNext
<1> QED
  BY <1>1, <1>2, <1>3, <1>4, <1>5, <1>6, <1>7, <1>8 DEF SettleStep

LEMMA WorkerTransactions ==
    ASSUME Rows, NEW s \in Steps, StepStep(s)
    PROVE  [Next]_storeVars
<1> USE DEF Keep
<1>1. s \in Owners
  BY ActorAssumption DEF Actors
<1>2. CASE StepBegin(s)
  BY <1>2, SetStepIsStep DEF StepBegin, StepStates
<1>3. CASE StepInsert(s)
  BY <1>1, <1>3 DEF StepInsert, Next, TaskNext
<1>4. CASE StepRenew(s)
  BY <1>1, <1>4 DEF StepRenew, Next, TaskNext
<1>5. CASE DispatchAccepted(s)
  BY <1>1, <1>5 DEF DispatchAccepted, Next, TaskNext
<1>6. CASE StepSpool(s)
  BY <1>1, <1>6 DEF StepSpool, Next, TaskNext
<1>7. CASE DispatchCompleted(s) \/ StepSettle(s) \/ StepActivated(s) \/ PollStops(s)
           \/ PollAnswered(s) \/ PollOverdue(s) \/ StepPublished(s)
  BY <1>7 DEF DispatchCompleted, StepSettle, StepActivated, WorkerSettles, PollStops,
     PollAnswered, PollOverdue, StepPublished
<1>8. CASE DispatchRefused(s)
  BY <1>8, CloseIsStep, FailsIsStep DEF DispatchRefused, Codes
<1>9. CASE DispatchUnknown(s) \/ StepFailFinal(s) \/ Materialize(s)
  BY <1>9, FailsIsStep DEF DispatchUnknown, StepFailFinal, Materialize, Codes
<1>10. CASE StepNotify(s)
  BY <1>10 DEF StepNotify, Next, RunNext
<1>11. CASE CloseOverdue(s)
  BY <1>11, CloseIsStep DEF CloseOverdue, Codes
<1>12. CASE Publish(s)
  <2>1. FinalizeSuccess(s) => Next
    BY DEF Next, TaskNext
  <2>2. Fails(s, "result_ready", "completed", "invalid", "failed") => [Next]_storeVars
    BY FailsIsStep DEF Codes
  <2> QED BY <1>12, <2>1, <2>2 DEF Publish
<1>13. CASE StepReuses(s)
  BY <1>13 DEF StepReuses, Next, TaskNext
<1> QED
  BY <1>2, <1>3, <1>4, <1>5, <1>6, <1>7, <1>8, <1>9, <1>10, <1>11, <1>12, <1>13 DEF StepStep

LEMMA ExecutorTransactions ==
    ASSUME ExecStep
    PROVE  [Next]_storeVars
<1> USE DEF Keep
<1>1. ExecErrs => Next
  BY RetireIsStep DEF ExecErrs, Actors
<1>2. CASE ExecRegister \/ ExecTop \/ ExecSettleFailed \/ ExecSettleInterrupted \/ ExecFailing
           \/ ExecUndisturbed
  BY <1>2 DEF ExecRegister, ExecTop, ExecSettleFailed, ExecSettleInterrupted, ExecFailing,
     ExecSettles, ExecUndisturbed
<1>3. CASE ExecStart
  BY <1>1, <1>3 DEF ExecStart, Next, RunNext, Statuses, Active
<1>4. CASE ExecSkips
  BY <1>1, <1>4, SetStepIsStep DEF ExecSkips, Unstarted, StepStates, StepTerminal
<1>5. ASSUME NEW s \in Steps, ExecJoin(s) PROVE [Next]_storeVars
  BY <1>1, <1>5, SetStepIsStep DEF ExecJoin, StepStates, StepTerminal
<1>6. CASE ExecSucceeds
  BY <1>6 DEF ExecSucceeds, Next, RunNext, Statuses, Terminal
<1>7. CASE ExecAnnounces
  BY <1>7 DEF ExecAnnounces, Next, RunNext
<1> QED
  BY <1>2, <1>3, <1>4, <1>5, <1>6, <1>7 DEF ExecStep

LEMMA RecoveryTransactions ==
    ASSUME Rows, BootStep
    PROVE  [Next]_storeVars
<1> USE DEF Keep
<1>1. CASE BootPending \/ BootScan \/ BootLostLease \/ BootAwaited \/ BootClassifies
           \/ BootReleases
  BY <1>1 DEF BootPending, BootSettles, BootScan, BootLostLease, BootAwaited,
     BootClassifies, BootReleases
<1>2. CASE BootAbandons
  BY <1>2, CloseIsStep DEF BootAbandons, BootSettles, Dispatching, Codes
<1>3. CASE BootNotifies
  <2>1. MissingHandle \in SUBSET Steps /\ settler["boot"].cur \in SUBSET Steps
    BY DEF MissingHandle, Rows, ProcTypeOK, Actors
  <2> QED BY <1>3, <2>1 DEF BootNotifies, Next, RunNext
<1> QED
  BY <1>1, <1>2, <1>3 DEF BootStep

LEMMA SettlementTransactions ==
    ASSUME Rows, [SettleNext]_vars
    PROVE  [Next]_storeVars
<1>1. ASSUME NEW s \in Steps, RemoteAccepts(s) \/ RemoteFinishes(s) PROVE [Next]_storeVars
  BY <1>1 DEF RemoteAccepts, RemoteFinishes, Keep
<1>2. CASE UserInterrupts \/ UserChecks
  BY <1>2 DEF UserInterrupts, UserChecks, Keep
<1>3. CASE Crash
  BY <1>3, RetireIsStep DEF Crash
<1>4. CASE Time
  BY <1>4 DEF Time, DispatchLeaseLapses, DeadlinePasses, WorkLeaseLapses,
     RecoveryLeaseLapses, Keep, Next, RunNext, TaskNext
<1>5. CASE UNCHANGED vars
  BY <1>5 DEF vars
<1> QED
  BY <1>1, <1>2, <1>3, <1>4, <1>5, SettlerTransactions, WorkerTransactions,
     ExecutorTransactions, RecoveryTransactions DEF SettleNext

-----------------------------------------------------------------------------
(* What any step may do to the rows and to the provider's side.            *)

\* The provider's side only goes forward, and no row moves in the same step.
RemoteMoves ==
    \A s \in Steps :
        \/ remote'[s] = remote[s]
        \/ /\ task' = task /\ ledger' = ledger
           /\ \/ remote[s] = "none" /\ worker[s] = "dispatch" /\ remote'[s] = "live"
              \/ remote[s] = "live" /\ remote'[s] \in {"done", "failed", "cancelled"}

\* Rows change for a reason: the provider's side, or the end of the step.
RowMoves ==
    /\ \A s \in Steps :
        /\ task'[s].state = "result_ready" =>
              task[s].state = "result_ready" \/ remote[s] \in {"done", "failed"}
        /\ task'[s].state = "cancelled" =>
              task[s].state = "cancelled" \/ remote[s] = "cancelled"
        /\ task[s].state = "dispatching" /\ task'[s].state = "completed" => remote[s] = "none"
        /\ stepState'[s] = "succeeded" =>
              \/ stepState[s] = "succeeded"
              \/ task[s].state = "result_ready" /\ task'[s].state = "completed"
              \/ s \in reused'
    /\ runStatus' = "succeeded" => runStatus = "succeeded" \/ exec.at = "succeed"

\* Nobody but its worker takes, renews or loses the dispatch lease of step s.
LeaseMoves(s) ==
    /\ OwnsDispatch(s, s)' => OwnsDispatch(s, s) \/ (task[s].state = "none" /\ worker[s] = "insert")
    /\ ~Stalls /\ OwnsDispatch(s, s)' /\ task'[s].lease =>
          (OwnsDispatch(s, s) /\ task[s].lease) \/ task[s].state = "none"
    /\ ~Stalls /\ OwnsDispatch(s, s)' /\ ~task'[s].lease /\ worker[s] = "dispatch" =>
          task'[s].overdue \/ (OwnsDispatch(s, s) /\ ~task[s].lease /\ ~task[s].overdue)
    /\ worker'[s] = "dispatch" /\ task[s].state = "dispatching" =>
          task'[s].state \in {"dispatching", "abandoned"}

Moves == RemoteMoves /\ RowMoves /\ \A s \in Steps : LeaseMoves(s)

\* What is final stays so in every step; a charge comes with a result.
RowsKeep ==
    /\ \A s \in Steps :
        /\ task[s].state # "none" => task'[s].state # "none"
        /\ task[s].state \in TaskTerminal => task'[s].state = task[s].state
        /\ stepState[s] = "succeeded" => stepState'[s] = "succeeded"
        /\ s \in ledger' => s \in ledger \/ (/\ task[s].state # "result_ready"
                                            /\ task'[s].state = "result_ready")
        /\ task'[s].state = "completed" =>
              task[s].state \in {"dispatching", "result_ready", "completed"}
    /\ ledger \subseteq ledger'
    /\ runStatus = "succeeded" => runStatus' = "succeeded"

\* The transactions keep what is final (from the store's own lemmas).
LEMMA RowsAreKept ==
    ASSUME Rows, [Next]_storeVars
    PROVE  RowsKeep
<1>1. TypeOK
  BY DEF Rows
<1>2. TaskStep
  BY <1>1, TaskSteps
<1>3. \A s \in Steps :
         /\ task[s].state # "none" => task'[s].state # "none"
         /\ task[s].state \in TaskTerminal => task'[s].state = task[s].state
         /\ s \in ledger' => s \in ledger \/ (/\ task[s].state # "result_ready"
                                             /\ task'[s].state = "result_ready")
         /\ task'[s].state = "completed" =>
               task[s].state \in {"dispatching", "result_ready", "completed"}
  BY <1>2 DEF TaskStep, SameTaskStates, TaskMoves, Closings, TaskTerminal
<1>4. ledger \subseteq ledger'
  BY <1>2 DEF TaskStep
<1>5. ASSUME NEW o \in Owners, CompleteWork(o)
      PROVE  /\ \A s \in Steps : stepState[s] = "succeeded" => stepState'[s] = "succeeded"
             /\ runStatus = "succeeded" => runStatus' = "succeeded"
  BY <1>1, <1>5 DEF CompleteWork, CanComplete, TypeOK, Active
<1>6. CASE RunKeeps
  BY <1>3, <1>4, <1>6 DEF RunKeeps, StepsKeep, StepTerminal, Terminal, RowsKeep
<1> QED
  BY <1>1, <1>3, <1>4, <1>5, <1>6, RunSteps DEF RowsKeep

\* A step that leaves tasks and charges alone moves nothing the others rely on.
LEMMA QuietMoves ==
    ASSUME Rows, task' = task, RemoteMoves, 
           \A s \in Steps : stepState'[s] = "succeeded" => stepState[s] = "succeeded",
           runStatus' = "succeeded" => runStatus = "succeeded" \/ exec.at = "succeed"
    PROVE  Moves
<1>1. RowMoves
  BY DEF RowMoves
<1>2. ASSUME NEW s \in Steps PROVE LeaseMoves(s)
  BY DEF LeaseMoves, OwnsDispatch, Rows, TypeOK, Tasks
<1> QED BY <1>1, <1>2 DEF Moves

\* Closing a task changes one row, and of it what the row is about.
LEMMA CloseMoves ==
    ASSUME Rows, NEW s \in Steps, NEW from, NEW to, NEW code,
           CloseTask(s, from, to, code), remote' = remote,
           to = "cancelled" => remote[s] = "cancelled",
           from = "dispatching" /\ to = "completed" => remote[s] = "none" /\ worker'[s] # "dispatch"
    PROVE  Moves
<1>1. /\ task[s].state = from /\ task'[s].state = to
      /\ task'[s].owner = task[s].owner /\ task'[s].lease = task[s].lease
      /\ task'[s].overdue = task[s].overdue
      /\ \A t \in Steps \ {s} : task'[t] = task[t]
  BY DEF CloseTask, Rows, TypeOK, Tasks
<1>2. <<from, to>> \in Closings /\ stepState' = stepState /\ runStatus' = runStatus
  BY DEF CloseTask
<1>3. RowMoves
  BY <1>1, <1>2 DEF RowMoves, Closings
<1>4. ASSUME NEW t \in Steps PROVE LeaseMoves(t)
  BY <1>1, <1>2 DEF LeaseMoves, OwnsDispatch, Closings, Rows, TypeOK, Tasks
<1> QED BY <1>3, <1>4 DEF Moves, RemoteMoves

\* So does failing a step.
LEMMA FailsMoves ==
    ASSUME Rows, NEW s \in Steps, NEW from, NEW to, NEW code \in Codes,
           NEW d \in {"failed", "interrupted"}, Fails(s, from, to, code, d),
           remote' = remote, to # "cancelled",
           from = "dispatching" /\ to = "completed" => remote[s] = "none" /\ worker'[s] # "dispatch"
    PROVE  Moves
<1>1. CASE task' = task
  <2>1. /\ \A t \in Steps : stepState'[t] = "succeeded" => stepState[t] = "succeeded"
        /\ runStatus' = runStatus
    BY <1>1 DEF Fails, FinalizeFailure, Keep, storeVars, Rows, TypeOK
  <2> QED BY <1>1, <2>1, QuietMoves DEF RemoteMoves
<1>2. CASE task' # task
  <2>1. FinalizeFailure(s, from, to, code, d) /\ task[s].state # to
    BY <1>2 DEF Fails, FinalizeFailure, Keep, storeVars
  <2>2. task[s].state = from
    BY <2>1 DEF FinalizeFailure, CanFinalizeFailure
  <2>3. /\ task'[s].state = to /\ task'[s].owner = NoOwner
        /\ \A t \in Steps \ {s} : task'[t] = task[t]
    BY <2>1 DEF FinalizeFailure, Rows, TypeOK, Tasks
  <2>4. /\ <<from, to>> \in Closings /\ runStatus' = runStatus
        /\ \A t \in Steps : stepState'[t] = "succeeded" => stepState[t] = "succeeded"
    BY <2>1 DEF FinalizeFailure, Rows, TypeOK
  <2>5. RowMoves
    BY <2>2, <2>3, <2>4 DEF RowMoves, Closings
  <2>6. ASSUME NEW t \in Steps PROVE LeaseMoves(t)
    BY <2>2, <2>3, <2>4, OwnerAssumption, ActorAssumption
       DEF LeaseMoves, OwnsDispatch, Closings, Rows, TypeOK, Tasks, Actors
  <2> QED BY <2>5, <2>6 DEF Moves, RemoteMoves
<1> QED BY <1>1, <1>2

\* An identity that is renamed to Ghost holds no lease under its own name.
LEMMA RetireMoves ==
    ASSUME Rows, NEW O \in SUBSET Actors, Retire(O), remote' = remote,
           \A s \in Steps : worker'[s] = "dispatch" => worker[s] = "dispatch"
    PROVE  Moves
<1>1. \A s \in Steps :
         /\ task'[s].state = task[s].state /\ task'[s].lease = task[s].lease
         /\ task'[s].overdue = task[s].overdue
         /\ task'[s].owner \in {task[s].owner, Ghost}
  BY DEF Retire, Retired, Rows, TypeOK, Tasks
<1>2. stepState' = stepState /\ runStatus' = runStatus
  BY DEF Retire
<1>3. RowMoves
  BY <1>1, <1>2 DEF RowMoves
<1>4. ASSUME NEW s \in Steps PROVE LeaseMoves(s)
  BY <1>1, OwnerAssumption, ActorAssumption
     DEF LeaseMoves, OwnsDispatch, Rows, TypeOK, Tasks, Actors
<1> QED BY <1>3, <1>4 DEF Moves, RemoteMoves

-----------------------------------------------------------------------------
(* What every step keeps of the invariant, whoever takes it.               *)

\* One step from a state where the invariant holds, seen from the rows.
Stepping ==
    /\ Inv /\ Moves /\ RowsKeep
    /\ TypeOK' /\ ChargedIffReported'
    /\ reused \subseteq reused'

LEMMA SteppingIf ==
    ASSUME Inv, Moves, [Next]_storeVars, reused \subseteq reused'
    PROVE  Stepping
  BY TypeStep, ChargedStep, RowsAreKept DEF Inv, Rows, Stepping

LEMMA MoneyKept ==
    ASSUME Stepping
    PROVE  Money'
<1> SUFFICES ASSUME NEW s \in Steps
             PROVE  /\ task'[s].state = "none" => remote'[s] = "none"
                    /\ s \in ledger' => remote'[s] \in {"done", "failed"}
                    /\ task'[s].state = "cancelled" => remote'[s] = "cancelled"
                    /\ task'[s].state = "completed" /\ s \notin ledger' => remote'[s] = "none"
  BY DEF Money
<1> USE DEF Stepping, Inv, Moves
<1>1. Money /\ WorkerOK(s)
  BY DEF Workers
<1>2. CASE remote'[s] # remote[s]
  <2>1. task' = task /\ ledger' = ledger
    BY <1>2 DEF RemoteMoves
  <2>2. \/ remote[s] = "none" /\ task[s].state \in {"dispatching", "abandoned"}
        \/ remote[s] = "live"
    BY <1>1, <1>2 DEF RemoteMoves, WorkerOK
  <2> QED BY <1>1, <2>1, <2>2 DEF Money
<1>3. CASE remote'[s] = remote[s]
  <2>1. s \in ledger' /\ s \notin ledger => remote[s] \in {"done", "failed"}
    BY DEF RowMoves, RowsKeep
  <2> QED BY <1>1, <1>3, <2>1 DEF RowMoves, RowsKeep, Rows, ChargedIffReported, Money
<1> QED BY <1>2, <1>3

LEMMA WorkerKept ==
    ASSUME Stepping, NEW s \in Steps, worker'[s] = worker[s]
    PROVE  WorkerOK(s)'
<1> USE DEF Stepping, Inv, Moves
<1>1. WorkerOK(s) /\ LeaseMoves(s)
  BY DEF Workers
<1>2. worker'[s] \in {"spool", "spoolFailed"} => remote'[s] \in {"done", "failed"}
  BY <1>1 DEF WorkerOK, RemoteMoves
<1>3. worker'[s] = "overdueCancelled" => remote'[s] = "cancelled"
  BY <1>1 DEF WorkerOK, RemoteMoves
<1>4. worker'[s] = "dispatch" => task'[s].state \in {"dispatching", "abandoned"}
  BY <1>1 DEF WorkerOK, LeaseMoves, RowsKeep, TaskTerminal
<1>5. worker'[s] = "dispatch" /\ OwnsDispatch(s, s)' /\ ~task'[s].lease /\ ~Stalls
      => task'[s].overdue
  BY <1>1 DEF WorkerOK, LeaseMoves
<1>6. worker'[s] \in {"published", "ok"} => stepState'[s] = "succeeded"
  BY <1>1 DEF WorkerOK, RowsKeep
<1> QED BY <1>2, <1>3, <1>4, <1>5, <1>6 DEF WorkerOK

LEMMA SettlerKept ==
    ASSUME Stepping, NEW a \in Actors, settler'[a] = settler[a],
           a \in Steps /\ worker[a] = "settling" => worker'[a] = "settling"
    PROVE  SettlerOK(a)'
<1> USE DEF Stepping, Inv, Moves
<1>1. SettlerOK(a)
  BY DEF Settlers
<1>2. settler[a].cur \subseteq Steps /\ \A p \in settler[a].seen : p[1] \in Steps
  BY DEF Rows, ProcTypeOK
<1>3. /\ \A p \in settler'[a].seen : task'[p[1]].state # "none"
      /\ \A s \in settler'[a].cur : task'[s].state # "none"
      /\ \A s, t \in settler'[a].cur : s = t
  BY <1>1, <1>2 DEF SettlerOK, RowsKeep
<1>4. settler'[a].at = "cancelled" => \A s \in settler'[a].cur : remote'[s] = "cancelled"
  BY <1>1, <1>2 DEF SettlerOK, RemoteMoves
<1>5. settler'[a].at = "stopped" /\ ~Stalls =>
          \A s \in settler'[a].cur : ~(OwnsDispatch(s, s)' /\ task'[s].lease)
  BY <1>1, <1>2 DEF SettlerOK, LeaseMoves
<1>6. a \in Steps /\ settler'[a].at # "off" => worker'[a] = "settling"
  BY <1>1 DEF SettlerOK
<1> QED BY <1>3, <1>4, <1>5, <1>6 DEF SettlerOK

LEMMA StepsSoundKept ==
    ASSUME Stepping
    PROVE  StepsSound'
<1> SUFFICES ASSUME NEW s \in Steps, stepState'[s] = "succeeded"
             PROVE  s \in reused' \/ (task'[s].state = "completed" /\ s \in ledger')
  BY DEF StepsSound
<1>1. CASE stepState[s] = "succeeded"
  BY <1>1 DEF Stepping, Inv, StepsSound, RowsKeep, TaskTerminal
<1>2. CASE stepState[s] # "succeeded"
  BY <1>2 DEF Stepping, Inv, Moves, RowMoves, Rows, ChargedIffReported, RowsKeep
<1> QED BY <1>1, <1>2

\* While the executor does not move and nobody else starts or ends a worker.
LEMMA SchedulingKept ==
    ASSUME Stepping, exec' = exec, Running' = Running
    PROVE  Scheduling'
<1> USE DEF Stepping, Inv, Moves
<1>1. Scheduling /\ RowsKeep /\ RowMoves /\ exec.finished \subseteq Steps
  BY DEF Rows, ProcTypeOK
<1> QED BY <1>1 DEF Scheduling, RowsKeep, RowMoves

\* When the executor has left its loop only the run's own row is of interest.
LEMMA SchedulingOver ==
    ASSUME Stepping,
           exec'.at \notin {"spawned", "start", "top", "join", "finish", "succeed"}
    PROVE  Scheduling'
  BY DEF Stepping, Inv, Moves, Scheduling, RowsKeep, RowMoves

\* While recovery runs nobody else starts, and it ends by itself.
LEMMA RecoveringKept ==
    ASSUME Stepping, exec' = exec, worker' = worker, boot' # "off" => boot # "off"
    PROVE  Recovering'
  BY DEF Stepping, Inv, Moves, Recovering, LeaseMoves

LEMMA RecoveringOver ==
    ASSUME boot' = "off"
    PROVE  Recovering'
  BY DEF Recovering

\* A step that moves rows only.
LEMMA ProcsKept ==
    ASSUME Inv, Moves, [Next]_storeVars, UNCHANGED procVars
    PROVE  Inv'
<1>1. Stepping
  BY SteppingIf DEF procVars
<1>2. UNCHANGED <<interrupt, exec, worker, settler, user, boot, lease, remote, crashes, reused>>
  BY DEF procVars
<1>3. ProcTypeOK' /\ BootCalls' /\ Running' = Running
  BY <1>2 DEF ProcTypeOK, BootCalls, Running, Busy, Inv, Rows
<1>4. Workers' /\ Settlers'
  BY <1>1, <1>2, WorkerKept, SettlerKept DEF Workers, Settlers
<1> QED
  BY <1>1, <1>2, <1>3, <1>4, MoneyKept, StepsSoundKept, SchedulingKept, RecoveringKept
     DEF Inv, Rows, Stepping

-----------------------------------------------------------------------------
(* The settler.                                                            *)

SettlerRec == [at : SettlerPlaces, seen : SUBSET (Steps \X InFlight),
               cur : SUBSET Steps, wait : BOOLEAN]

\* Actor a's call goes to place at with these tasks in hand; no other moves.
SettlerMoves(a, at, seen, cur) ==
    /\ settler' \in [Actors -> SettlerRec]
    /\ settler'[a].at = at /\ settler'[a].seen = seen /\ settler'[a].cur = cur
    /\ \A b \in Actors \ {a} : settler'[b] = settler[b]

LEMMA GoesMoves ==
    ASSUME ProcTypeOK, NEW a \in Actors, NEW at \in SettlerPlaces, SettlerGoes(a, at)
    PROVE  SettlerMoves(a, at, settler[a].seen, settler[a].cur)
  BY DEF ProcTypeOK, SettlerGoes, SettlerMoves, SettlerRec

LEMMA LooksMoves ==
    ASSUME ProcTypeOK, NEW a \in Actors, NEW at \in SettlerPlaces, NEW p \in settler[a].seen,
           Looks(a, p, at)
    PROVE  SettlerMoves(a, at, settler[a].seen \ {p}, {p[1]})
<1>1. settler[a] \in SettlerRec /\ settler \in [Actors -> SettlerRec]
  BY DEF ProcTypeOK, SettlerRec
<1>2. p[1] \in Steps /\ settler[a].seen \ {p} \in SUBSET (Steps \X InFlight)
  BY <1>1 DEF SettlerRec
<1>3. settler' = [settler EXCEPT ![a] = [at |-> at, seen |-> settler[a].seen \ {p},
                                         cur |-> {p[1]}, wait |-> settler[a].wait]]
  BY <1>1 DEF Looks, SettlerRec
<1> QED BY <1>1, <1>2, <1>3 DEF SettlerMoves, SettlerRec

LEMMA WaitsMoves ==
    ASSUME ProcTypeOK, NEW a \in Actors, NEW p \in settler[a].seen, Waits(a, p)
    PROVE  SettlerMoves(a, settler[a].at, settler[a].seen \ {p}, settler[a].cur)
<1>1. settler \in [Actors -> SettlerRec]
  BY DEF ProcTypeOK, SettlerRec
<1>2. settler' \in [Actors -> SettlerRec]
  <2> PICK m : m = [settler EXCEPT ![a].seen = settler[a].seen \ {p}]
    OBVIOUS
  <2>1. m \in [Actors -> SettlerRec]
    BY <1>1 DEF SettlerRec
  <2>2. settler' = [m EXCEPT ![a].wait = TRUE]
    BY DEF Waits
  <2> QED BY <2>1, <2>2 DEF SettlerRec
<1> QED BY <1>1, <1>2 DEF Waits, SettlerMoves, SettlerRec

LEMMA StartMoves ==
    ASSUME ProcTypeOK, NEW a \in Actors, NEW d \in {"off", "failed", "interrupted"},
           settler' = [settler EXCEPT ![a] = Settling(d)]
    PROVE  SettlerMoves(a, d, {}, {})
<1>1. Settling(d).at = d /\ Settling(d).seen = {} /\ Settling(d).cur = {}
  BY DEF Settling, Idle
<1>2. Settling(d) \in SettlerRec
  BY DEF Settling, Idle, SettlerRec, SettlerPlaces
<1> QED BY <1>1, <1>2 DEF ProcTypeOK, SettlerMoves, SettlerRec

LEMMA IdleMoves ==
    ASSUME ProcTypeOK, NEW a \in Actors, settler' = [settler EXCEPT ![a] = Idle]
    PROVE  SettlerMoves(a, "off", {}, {})
<1>1. Idle = Settling("off")
  BY DEF Settling, Idle
<1> QED BY <1>1, StartMoves

\* A call that goes on leaves the other processes alone.
LEMMA SettlerGoesOn ==
    ASSUME Inv, Moves, [Next]_storeVars, NEW a \in Actors, NEW at, NEW seen, NEW cur,
           SettlerMoves(a, at, seen, cur), settler[a].at # "off",
           SettlerOnly, remote' \in [Steps -> {"none", "live", "done", "failed", "cancelled"}],
           \A p \in seen : task'[p[1]].state # "none",
           \A s \in cur : task'[s].state # "none",
           \A s, t \in cur : s = t,
           at = "cancelled" => \A s \in cur : remote'[s] = "cancelled",
           at = "stopped" /\ ~Stalls => \A s \in cur : ~(OwnsDispatch(s, s)' /\ task'[s].lease)
    PROVE  Inv'
<1>1. Stepping
  BY SteppingIf DEF SettlerOnly
<1>2. ProcTypeOK' /\ Rows'
  BY <1>1 DEF Inv, Rows, ProcTypeOK, SettlerOnly, SettlerMoves, SettlerRec, Stepping
<1>3. worker' = worker /\ exec' = exec /\ boot' = boot
  BY DEF SettlerOnly
<1>4. SettlerOK(a)'
  BY <1>3 DEF SettlerMoves, SettlerOK, Inv, Settlers
<1>5. \A b \in Actors \ {a} : SettlerOK(b)'
  BY <1>1, <1>3, SettlerKept DEF SettlerMoves
<1>6. Workers'
  BY <1>1, <1>3, WorkerKept DEF Workers
<1>7. Running' = Running
  BY <1>3 DEF Running, Busy
<1>8. BootCalls'
  BY <1>3 DEF BootCalls, Inv, SettlerMoves, Actors
<1> QED
  BY <1>1, <1>2, <1>3, <1>4, <1>5, <1>6, <1>7, <1>8, MoneyKept, StepsSoundKept,
     SchedulingKept, RecoveringKept DEF Inv, Settlers

\* The call returns to its caller.
LEMMA ReturnInv ==
    ASSUME Inv, NEW a \in Actors, settler[a].at # "off", Return(a)
    PROVE  Inv'
<1>1. Moves /\ [Next]_storeVars
  <2>1. \A s \in Steps : worker'[s] = "dispatch" => worker[s] = "dispatch"
    BY DEF Return, Inv, Rows, ProcTypeOK
  <2>2. Moves
    BY <2>1, RetireMoves DEF Return, Inv
  <2> QED BY <2>2, RetireIsStep DEF Return
<1>2. Stepping
  BY <1>1, SteppingIf DEF Return
<1>3. SettlerMoves(a, "off", {}, {})
  BY IdleMoves DEF Return, Inv, Rows
<1>4. a \in Steps => worker[a] = "settling" /\ worker' = [worker EXCEPT ![a] = "interrupted"]
  BY DEF Return, Inv, Settlers, SettlerOK
<1>5. a \notin Steps => worker' = worker
  BY DEF Return
<1>6. \/ exec' = exec
      \/ a = "exec" /\ exec' = [exec EXCEPT !.at = "failing"]
      \/ a = "exec" /\ exec' = [exec EXCEPT !.at = "off"]
  BY DEF Return
<1>7. ProcTypeOK'
  <2>1. exec' \in [at : ExecPlaces, started : SUBSET Steps, finished : SUBSET Steps,
                   interrupted : BOOLEAN, failed : BOOLEAN]
    BY <1>6 DEF Inv, Rows, ProcTypeOK, ExecPlaces
  <2>2. worker' \in [Steps -> WorkerPlaces]
    BY <1>4, <1>5 DEF Inv, Rows, ProcTypeOK, WorkerPlaces, Results
  <2>3. boot' \in BootPlaces /\ user' \in {"idle", "check", "settling", "done"}
        /\ lease' \in {"none", "held", "orphan"}
    BY DEF Return, Inv, Rows, ProcTypeOK, BootPlaces
  <2> QED BY <1>3, <2>1, <2>2, <2>3 DEF Return, Inv, Rows, ProcTypeOK, SettlerMoves, SettlerRec
<1>8. Workers'
  <2>1. ASSUME NEW s \in Steps, s = a PROVE WorkerOK(s)'
    BY <1>4, <2>1 DEF WorkerOK, Inv, Rows, ProcTypeOK
  <2>2. ASSUME NEW s \in Steps, s # a PROVE WorkerOK(s)'
    BY <1>2, <1>4, <1>5, <2>2, WorkerKept DEF Inv, Rows, ProcTypeOK
  <2> QED BY <2>1, <2>2 DEF Workers
<1>9. Settlers'
  <2>1. SettlerOK(a)'
    BY <1>3 DEF SettlerMoves, SettlerOK
  <2>2. ASSUME NEW b \in Actors, b # a PROVE SettlerOK(b)'
    <3>1. b \in Steps => worker'[b] = worker[b]
      BY <1>4, <1>5, <2>2 DEF Inv, Rows, ProcTypeOK
    <3> QED BY <1>2, <1>3, <2>2, <3>1, SettlerKept DEF SettlerMoves
  <2> QED BY <2>1, <2>2 DEF Settlers
<1>10. Recovering'
  <2>1. boot # "off" => worker' = worker /\ exec' = exec
    BY <1>4, <1>5, <1>6 DEF Inv, Recovering, Return, Rows, ProcTypeOK
  <2>2. boot' # "off" => boot # "off"
    BY DEF Return, Inv, BootCalls
  <2> QED BY <1>2, <2>1, <2>2, RecoveringKept, RecoveringOver
<1>11. BootCalls'
  BY <1>3 DEF Return, SettlerMoves, Inv, BootCalls, Actors
<1>12. Scheduling'
  <2>1. Running' = Running
    BY <1>4, <1>5 DEF Running, Busy, Inv, Rows, ProcTypeOK
  <2>2. exec' = exec \/ exec'.at \in {"off", "failing"}
    BY <1>6 DEF Inv, Rows, ProcTypeOK
  <2> QED BY <1>2, <2>1, <2>2, SchedulingKept, SchedulingOver
<1> QED
  BY <1>2, <1>7, <1>8, <1>9, <1>10, <1>11, <1>12, MoneyKept, StepsSoundKept
     DEF Inv, Rows, Stepping

\* Asking, claiming, telling and completing: the tasks in hand stay the same.
LEMMA SettlerProceeds ==
    ASSUME Inv, Moves, [Next]_storeVars, NEW a \in Actors, NEW at \in SettlerPlaces,
           SettlerGoes(a, at), at \notin {"cancelled", "stopped"}, settler[a].at # "off",
           SettlerOnly, UNCHANGED remote
    PROVE  Inv'
<1>1. SettlerMoves(a, at, settler[a].seen, settler[a].cur)
  BY GoesMoves DEF Inv, Rows
<1>2. SettlerOK(a) /\ settler[a].cur \subseteq Steps /\ \A p \in settler[a].seen : p[1] \in Steps
  BY DEF Inv, Settlers, Rows, ProcTypeOK
<1>3. RowsKeep
  BY RowsAreKept DEF Inv
<1>4. /\ \A p \in settler[a].seen : task'[p[1]].state # "none"
      /\ \A s \in settler[a].cur : task'[s].state # "none"
      /\ \A s, t \in settler[a].cur : s = t
  BY <1>2, <1>3 DEF SettlerOK, RowsKeep
<1>5. remote' \in [Steps -> {"none", "live", "done", "failed", "cancelled"}]
  BY DEF Inv, Rows, ProcTypeOK
<1> QED BY <1>1, <1>4, <1>5, SettlerGoesOn

\* The scan takes one task in hand: what it was read as, it has been.
LEMMA ScanInv ==
    ASSUME Inv, NEW a \in Actors, SettleScan(a)
    PROVE  Inv'
<1>1. PICK p \in settler[a].seen :
            ScanActive(a, p) \/ ScanDispatching(a, p) \/ ScanResultReady(a, p)
  BY DEF SettleScan
<1>2. p[1] \in Steps /\ settler[a].at = "scan" /\ SettlerOnly /\ UNCHANGED remote /\ ProcTypeOK
  BY <1>1 DEF SettleScan, SettlerAt, Inv, Rows, ProcTypeOK
<1>3. SettlerOK(a) /\ settler[a].cur \subseteq Steps /\ \A q \in settler[a].seen : q[1] \in Steps
  BY DEF Inv, Settlers, Rows, ProcTypeOK
<1>4. [Next]_storeVars
  BY SettlerTransactions DEF Inv, SettleStep
<1>5. RowsKeep
  BY <1>4, RowsAreKept DEF Inv
<1>6. Moves
  <2>1. CASE task' = task /\ stepState' = stepState /\ runStatus' = runStatus
    BY <1>2, <2>1, QuietMoves DEF Inv, RemoteMoves
  <2>2. ASSUME NEW code, CloseTask(p[1], "result_ready", "completed", code) PROVE Moves
    BY <1>2, <2>2, CloseMoves DEF Inv
  <2> QED
    BY <1>1, <2>1, <2>2 DEF ScanActive, ScanDispatching, ScanResultReady, Keep, storeVars
<1>7. PICK at \in SettlerPlaces :
            /\ at # "cancelled"
            /\ at = "stopped" => task' = task /\ ~(task[p[1]].state = "dispatching" /\ task[p[1]].lease)
            /\ \/ SettlerMoves(a, at, settler[a].seen \ {p}, {p[1]})
               \/ SettlerMoves(a, at, settler[a].seen \ {p}, settler[a].cur) /\ at = "scan"
  <2>1. CASE ScanActive(a, p)
    BY <1>2, <2>1, LooksMoves DEF ScanActive, SettlerPlaces
  <2>2. CASE ScanDispatching(a, p)
    <3>1. task' = task
      BY <2>2 DEF ScanDispatching, Keep, storeVars
    <3>2. CASE task[p[1]].state = "dispatching" /\ task[p[1]].lease
      BY <1>2, <2>2, <3>1, <3>2, WaitsMoves DEF ScanDispatching, SettlerPlaces
    <3>3. CASE ~(task[p[1]].state = "dispatching" /\ task[p[1]].lease)
      <4>1. Looks(a, p, "stopped") /\ "stopped" \in SettlerPlaces
        BY <2>2, <3>3 DEF ScanDispatching, SettlerPlaces
      <4>2. SettlerMoves(a, "stopped", settler[a].seen \ {p}, {p[1]})
        BY <1>2, <4>1, LooksMoves
      <4> QED BY <3>1, <3>3, <4>1, <4>2
    <3> QED BY <3>2, <3>3
  <2>3. CASE ScanResultReady(a, p)
    <3>1. Looks(a, p, "scan") \/ Waits(a, p)
      BY <2>3 DEF ScanResultReady
    <3> QED BY <1>2, <3>1, LooksMoves, WaitsMoves DEF SettlerPlaces
  <2> QED BY <1>1, <2>1, <2>2, <2>3
<1>8. /\ \A q \in settler[a].seen \ {p} : task'[q[1]].state # "none"
      /\ task'[p[1]].state # "none"
      /\ \A s \in settler[a].cur : task'[s].state # "none"
      /\ \A s, t \in settler[a].cur : s = t
  BY <1>1, <1>3, <1>5 DEF SettlerOK, RowsKeep
<1>9. remote' \in [Steps -> {"none", "live", "done", "failed", "cancelled"}]
  BY <1>2 DEF Inv, Rows, ProcTypeOK
<1>10. CASE SettlerMoves(a, at, settler[a].seen \ {p}, {p[1]})
  <2>1. at = "stopped" => ~(OwnsDispatch(p[1], p[1])' /\ task'[p[1]].lease)
    BY <1>7 DEF OwnsDispatch
  <2> QED BY <1>2, <1>4, <1>6, <1>7, <1>8, <1>9, <1>10, <2>1, SettlerGoesOn
<1>11. CASE SettlerMoves(a, at, settler[a].seen \ {p}, settler[a].cur) /\ at = "scan"
  BY <1>2, <1>4, <1>6, <1>8, <1>9, <1>11, SettlerGoesOn
<1> QED BY <1>7, <1>10, <1>11

\* The cancel call: only what the provider confirms counts as cancelled.
LEMMA CancelInv ==
    ASSUME Inv, NEW a \in Actors, SettleCancel(a)
    PROVE  Inv'
<1>1. SettlerOnly /\ Keep /\ settler[a].at = "cancel"
  BY DEF SettleCancel, SettlerAt
<1>2. SettlerOK(a) /\ settler[a].cur \subseteq Steps /\ \A q \in settler[a].seen : q[1] \in Steps
  BY DEF Inv, Settlers, Rows, ProcTypeOK
<1>3. UNCHANGED storeVars /\ task' = task
  BY <1>1 DEF Keep, storeVars
<1>4. ASSUME NEW s \in settler[a].cur, remote[s] = "live",
             remote' = [remote EXCEPT ![s] = "cancelled"], SettlerGoes(a, "cancelled")
      PROVE  Inv'
  <2>1. SettlerMoves(a, "cancelled", settler[a].seen, settler[a].cur)
    BY <1>4, GoesMoves DEF Inv, Rows, SettlerPlaces
  <2>2. RemoteMoves
    BY <1>2, <1>3, <1>4 DEF RemoteMoves, storeVars, Inv, Rows, ProcTypeOK
  <2>3. Moves
    BY <1>3, <2>2, QuietMoves DEF Inv, storeVars
  <2>4. \A t \in settler[a].cur : remote'[t] = "cancelled"
    BY <1>2, <1>4 DEF SettlerOK, Inv, Rows, ProcTypeOK
  <2>5. remote' \in [Steps -> {"none", "live", "done", "failed", "cancelled"}]
    BY <1>4 DEF Inv, Rows, ProcTypeOK
  <2>6. /\ \A p \in settler[a].seen : task'[p[1]].state # "none"
        /\ \A t \in settler[a].cur : task'[t].state # "none"
        /\ \A t, u \in settler[a].cur : t = u
    BY <1>2, <1>3 DEF SettlerOK
  <2> QED BY <1>1, <1>3, <2>1, <2>3, <2>4, <2>5, <2>6, SettlerGoesOn
<1>5. CASE UNCHANGED remote /\ SettlerGoes(a, "unconfirmed")
  <2>1. Moves
    BY <1>3, <1>5, QuietMoves DEF Inv, RemoteMoves, storeVars
  <2> QED BY <1>1, <1>3, <1>5, <2>1, SettlerProceeds DEF SettlerPlaces
<1> QED BY <1>4, <1>5 DEF SettleCancel

\* The compare-and-swap after it: cancelled was confirmed, the rest is given up.
LEMMA CloseInv ==
    ASSUME Inv, NEW a \in Actors, SettleClose(a)
    PROVE  Inv'
<1>1. PICK at \in {"cancelled", "unconfirmed", "stopped"}, s \in settler[a].cur :
           /\ SettlerAt(a, at)
           /\ LET from == IF at = "stopped" THEN "dispatching" ELSE "active"
              IN  IF task[s].state # from THEN Keep
                  ELSE IF at = "cancelled" THEN CloseTask(s, from, "cancelled", "none")
                  ELSE CloseTask(s, from, "abandoned", "stopped")
           /\ SettlerGoes(a, IF at = "cancelled" THEN "scan" ELSE "risk")
           /\ SettlerOnly /\ UNCHANGED remote
  BY DEF SettleClose
<1>2. s \in Steps /\ SettlerOK(a)
  BY DEF Inv, Rows, ProcTypeOK, Settlers
<1>3. [Next]_storeVars
  BY SettlerTransactions DEF Inv, SettleStep
<1>4. at = "cancelled" => remote[s] = "cancelled"
  BY <1>1, <1>2 DEF SettlerAt, SettlerOK
<1>5. Moves
  <2>1. CASE Keep
    BY <1>1, <2>1, QuietMoves DEF Inv, Keep, storeVars, RemoteMoves
  <2>2. CASE at = "cancelled" /\ CloseTask(s, "active", "cancelled", "none")
    BY <1>1, <1>2, <1>4, <2>2, CloseMoves DEF Inv
  <2>3. ASSUME NEW from, CloseTask(s, from, "abandoned", "stopped") PROVE Moves
    BY <1>1, <1>2, <2>3, CloseMoves DEF Inv
  <2> QED BY <1>1, <2>1, <2>2, <2>3
<1>6. PICK next \in {"scan", "risk"} : SettlerGoes(a, next)
  BY <1>1
<1> QED BY <1>1, <1>3, <1>5, <1>6, SettlerProceeds DEF SettlerAt, SettlerPlaces

\* The renewed lease comes with a fresh look at the tasks in flight.
LEMMA RenewInv ==
    ASSUME Inv, NEW a \in Actors, SettleRenew(a)
    PROVE  Inv'
<1> DEFINE seen == {<<s, task[s].state>> : s \in {t \in Steps : task[t].state \in InFlight}}
           new  == [at |-> "scan", seen |-> seen, cur |-> {}, wait |-> FALSE]
<1>1. Keep /\ SettlerOnly /\ UNCHANGED remote /\ settler[a].at # "off"
  BY DEF SettleRenew, SettlerAt
<1>2. UNCHANGED storeVars /\ task' = task /\ Moves
  BY <1>1, QuietMoves DEF Keep, storeVars, Inv, RemoteMoves
<1>3. seen \in SUBSET (Steps \X InFlight) /\ \A p \in seen : task[p[1]].state # "none"
  BY DEF InFlight
<1>4. SettlerMoves(a, "scan", seen, {})
  <2>1. PICK m : m = [Idle EXCEPT !.at = "scan", !.seen = seen]
    OBVIOUS
  <2>2. m \in SettlerRec /\ m.at = "scan" /\ m.seen = seen /\ m.cur = {}
    BY <1>3, <2>1 DEF Idle, SettlerRec, SettlerPlaces
  <2>3. settler' = [settler EXCEPT ![a] = m]
    BY <2>1 DEF SettleRenew
  <2> HIDE DEF seen
  <2> QED BY <2>2, <2>3 DEF Inv, Rows, ProcTypeOK, SettlerMoves, SettlerRec
<1>5. remote' \in [Steps -> {"none", "live", "done", "failed", "cancelled"}]
  BY <1>1 DEF Inv, Rows, ProcTypeOK
<1>6. \A p \in seen : task'[p[1]].state # "none"
  BY <1>2, <1>3
<1> HIDE DEF seen
<1> QED BY <1>1, <1>2, <1>4, <1>5, <1>6, SettlerGoesOn

LEMMA SettlerInv ==
    ASSUME Inv, NEW a \in Actors, SettleStep(a)
    PROVE  Inv'
<1>1. [Next]_storeVars
  BY SettlerTransactions DEF Inv
<1>2. ASSUME task' = task, stepState' = stepState, remote' = remote,
             runStatus' = "succeeded" => runStatus = "succeeded"
      PROVE  Moves
  BY <1>2, QuietMoves DEF Inv, RemoteMoves
<1>3. ASSUME NEW d \in {"failed", "interrupted"}, SettlerAt(a, d), RequestWork(d),
             SettlerGoes(a, "claim"), SettlerOnly, UNCHANGED remote
      PROVE  Inv'
  BY <1>1, <1>2, <1>3, SettlerProceeds DEF RequestWork, SettlerAt, SettlerPlaces
<1>4. CASE SettleClaim(a)
  BY <1>1, <1>2, <1>4, SettlerProceeds DEF SettleClaim, ClaimWork, SettlerAt, SettlerPlaces
<1>5. CASE SettleNotNeeded(a) \/ SettleLostLease(a) \/ SettleReturn(a)
  BY <1>5, ReturnInv DEF SettleNotNeeded, SettleLostLease, SettleReturn, SettlerAt
<1>6. CASE SettleNotify(a)
  BY <1>1, <1>2, <1>6, SettlerProceeds DEF SettleNotify, NotifyRisk, SettlerAt, SettlerPlaces
<1>7. CASE SettleScanned(a)
  <2>1. PICK next \in {"renew", "complete"} : SettlerGoes(a, next)
    BY <1>7 DEF SettleScanned
  <2> QED
    BY <1>1, <1>2, <1>7, <2>1, SettlerProceeds
       DEF SettleScanned, Keep, storeVars, SettlerAt, SettlerPlaces
<1>8. CASE SettleComplete(a)
  <2>1. Moves
    <3>1. CASE Keep
      BY <1>2, <1>8, <3>1 DEF Keep, storeVars, SettleComplete
    <3>2. CASE CompleteWork(a)
      <4>1. /\ task' = task /\ runStatus' # "succeeded"
            /\ \A s \in Steps : stepState'[s] = "succeeded" => stepState[s] = "succeeded"
        BY <3>2 DEF CompleteWork, Inv, Rows, TypeOK, Works
      <4> QED BY <1>8, <4>1, QuietMoves DEF Inv, RemoteMoves, SettleComplete
    <3> QED BY <1>8, <3>1, <3>2 DEF SettleComplete
  <2> QED BY <1>1, <1>8, <2>1, SettlerProceeds DEF SettleComplete, SettlerAt, SettlerPlaces
<1> QED
  BY <1>3, <1>4, <1>5, <1>6, <1>7, <1>8, RenewInv, ScanInv, CancelInv, CloseInv
     DEF SettleStep, SettleRequest

-----------------------------------------------------------------------------
(* The workers.                                                            *)

\* A worker that goes on, possibly by calling its settler.
LEMMA WorkerGoesOn ==
    ASSUME Inv, Moves, [Next]_storeVars, NEW s \in Steps, NEW w \in WorkerPlaces,
           WorkerGoes(s, w), worker[s] \notin {"idle", "settling"}, w # "idle", WorkerOK(s)',
           UNCHANGED <<interrupt, exec, user, boot, lease, crashes>>,
           reused' \in {reused, reused \cup {s}},
           remote' \in [Steps -> {"none", "live", "done", "failed", "cancelled"}],
           \/ settler' = settler
           \/ w = "settling" /\ settler' = [settler EXCEPT ![s] = Settling("interrupted")]
    PROVE  Inv'
<1>1. Stepping
  BY SteppingIf
<1>2. worker' \in [Steps -> WorkerPlaces] /\ worker'[s] = w
      /\ \A t \in Steps \ {s} : worker'[t] = worker[t]
  BY DEF WorkerGoes, Inv, Rows, ProcTypeOK
<1>3. settler' = settler \/ (w = "settling" /\ SettlerMoves(s, "interrupted", {}, {}))
  BY StartMoves DEF Inv, Rows, Actors
<1>4. s \in Actors /\ s # "boot"
  BY ActorAssumption DEF Actors
<1>5. settler[s].at = "off"
  BY <1>4 DEF Inv, Settlers, SettlerOK
<1>6. ProcTypeOK'
  BY <1>2, <1>3 DEF Inv, Rows, ProcTypeOK, SettlerMoves, SettlerRec
<1>7. Workers'
  <2>1. ASSUME NEW t \in Steps, t # s PROVE WorkerOK(t)'
    BY <1>1, <1>2, <2>1, WorkerKept
  <2> QED BY <2>1 DEF Workers
<1>8. Settlers'
  <2>1. SettlerOK(s)'
    <3>1. CASE settler' = settler
      BY <1>1, <1>4, <1>5, <3>1, SettlerKept
    <3>2. CASE w = "settling" /\ SettlerMoves(s, "interrupted", {}, {})
      BY <1>2, <3>2 DEF SettlerMoves, SettlerOK
    <3> QED BY <1>3, <3>1, <3>2
  <2>2. ASSUME NEW a \in Actors, a # s PROVE SettlerOK(a)'
    <3>1. settler'[a] = settler[a] /\ (a \in Steps => worker'[a] = worker[a])
      BY <1>2, <1>3, <2>2 DEF SettlerMoves
    <3> QED BY <1>1, <3>1, SettlerKept
  <2> QED BY <2>1, <2>2 DEF Settlers
<1>9. boot = "off" /\ boot' = "off"
  BY DEF Inv, Recovering
<1>10. BootCalls'
  BY <1>3, <1>4, <1>9 DEF Inv, BootCalls, SettlerMoves, Actors
<1>11. Running' = Running
  BY <1>2 DEF Running, Busy
<1> QED
  BY <1>1, <1>6, <1>7, <1>8, <1>9, <1>10, <1>11, MoneyKept, StepsSoundKept,
     SchedulingKept, RecoveringOver DEF Inv, Rows, Stepping

\* Places where a worker relies on nothing.
Free == {"error", "interrupted", "insert", "activated", "poll", "failFinal", "materialize",
         "publish", "unknownRisk", "overdueRisk", "overdueAbandon", "settle", "settling"}

\* A worker that relies on nothing and leaves the provider alone.
LEMMA WorkerProceeds ==
    ASSUME Inv, Moves, [Next]_storeVars, NEW s \in Steps, NEW w \in Free,
           WorkerGoes(s, w), worker[s] \notin {"idle", "settling"}, WorkerOnly, UNCHANGED remote
    PROVE  Inv'
<1>1. worker'[s] = w /\ w \in WorkerPlaces /\ w # "idle"
  BY DEF WorkerGoes, Inv, Rows, ProcTypeOK, Free, WorkerPlaces, Results
<1>2. WorkerOK(s)'
  BY <1>1 DEF WorkerOK, Free
<1>3. remote' \in [Steps -> {"none", "live", "done", "failed", "cancelled"}]
  BY DEF Inv, Rows, ProcTypeOK
<1> QED BY <1>1, <1>2, <1>3, WorkerGoesOn DEF WorkerOnly

\* A worker that goes on without a transaction.
LEMMA KeepMoves ==
    ASSUME Inv, Keep, remote' = remote
    PROVE  Moves /\ [Next]_storeVars
  BY QuietMoves DEF Inv, Keep, storeVars, RemoteMoves

LEMMA WorkerWaits ==
    ASSUME Inv, NEW s \in Steps, NEW w \in Free, WorkerGoes(s, w),
           worker[s] \notin {"idle", "settling"}, Keep, WorkerOnly, UNCHANGED remote
    PROVE  Inv'
  BY KeepMoves, WorkerProceeds

LEMMA WorkerSettlesInv ==
    ASSUME Inv, NEW s \in Steps, WorkerSettles(s), worker[s] \notin {"idle", "settling"}
    PROVE  Inv'
<1>1. WorkerGoes(s, "settling") /\ Keep /\ remote' = remote
  BY DEF WorkerSettles
<1>2. WorkerOK(s)' /\ "settling" \in WorkerPlaces
  BY <1>1 DEF WorkerGoes, Inv, Rows, ProcTypeOK, WorkerOK, WorkerPlaces
<1>3. Moves /\ [Next]_storeVars
  BY <1>1, KeepMoves
<1>4. remote' \in [Steps -> {"none", "live", "done", "failed", "cancelled"}]
  BY <1>1 DEF Inv, Rows, ProcTypeOK
<1> QED BY <1>1, <1>2, <1>3, <1>4, WorkerGoesOn DEF WorkerSettles

\* The task row is inserted once, and with it the worker's lease.
LEMMA InsertInv ==
    ASSUME Inv, NEW s \in Steps, StepInsert(s)
    PROVE  Inv'
<1>1. worker[s] = "insert" /\ WorkerOnly /\ remote' = remote
  BY DEF StepInsert, WorkerAt
<1>2. CASE task[s].state = "none"
  <2>1. InsertTask(s, s) /\ WorkerGoes(s, "dispatch")
    BY <1>2 DEF StepInsert
  <2>2. /\ task'[s].state = "dispatching" /\ task'[s].lease /\ task'[s].owner = s
        /\ \A t \in Steps \ {s} : task'[t] = task[t]
    BY <2>1 DEF InsertTask, NoTask, Inv, Rows, TypeOK
  <2>3. worker'[s] = "dispatch" /\ \A t \in Steps \ {s} : worker'[t] = worker[t]
    BY <2>1 DEF WorkerGoes, Inv, Rows, ProcTypeOK
  <2>4. RowMoves
    BY <1>2, <2>1, <2>2 DEF RowMoves, InsertTask
  <2>5. ASSUME NEW t \in Steps PROVE LeaseMoves(t)
    BY <1>1, <1>2, <2>2, <2>3 DEF LeaseMoves, OwnsDispatch, Inv, Rows, TypeOK, Tasks
  <2>6. Moves
    BY <1>1, <2>4, <2>5 DEF Moves, RemoteMoves
  <2>7. WorkerOK(s)'
    BY <2>2, <2>3 DEF WorkerOK
  <2>8. [Next]_storeVars
    BY WorkerTransactions DEF StepStep, Inv
  <2>9. remote' \in [Steps -> {"none", "live", "done", "failed", "cancelled"}]
    BY <1>1 DEF Inv, Rows, ProcTypeOK
  <2> QED
    BY <1>1, <2>1, <2>6, <2>7, <2>8, <2>9, WorkerGoesOn DEF WorkerOnly, WorkerPlaces
<1>3. CASE task[s].state # "none"
  <2>1. PICK w \in {"poll", "materialize", "error"} : WorkerGoes(s, w)
    BY <1>3 DEF StepInsert
  <2> QED BY <1>1, <1>3, <2>1, WorkerWaits DEF StepInsert, Free
<1> QED BY <1>2, <1>3

\* The answer to the dispatch call: the handle, the result, or neither.
LEMMA DispatchInv ==
    ASSUME Inv, NEW s \in Steps,
           DispatchAccepted(s) \/ DispatchCompleted(s) \/ DispatchRefused(s) \/ DispatchUnknown(s)
    PROVE  Inv'
<1>1. worker[s] = "dispatch" /\ WorkerOnly
  BY DEF DispatchAccepted, DispatchCompleted, DispatchRefused, DispatchUnknown, WorkerAt
<1>2. [Next]_storeVars
  BY WorkerTransactions DEF StepStep, Inv
<1>3. CASE DispatchAccepted(s)
  <2>1. CASE OwnsDispatch(s, s)
    <3>1. Activate(s, s) /\ WorkerGoes(s, "activated") /\ remote' = remote
      BY <1>3, <2>1 DEF DispatchAccepted
    <3>2. /\ task'[s].state = "active"
          /\ \A t \in Steps \ {s} : task'[t] = task[t]
          /\ worker'[s] = "activated"
      BY <3>1 DEF Activate, WorkerGoes, Inv, Rows, TypeOK, Tasks, ProcTypeOK
    <3>3. RowMoves
      BY <3>1, <3>2 DEF RowMoves, Activate
    <3>4. ASSUME NEW t \in Steps PROVE LeaseMoves(t)
      BY <2>1, <3>2 DEF LeaseMoves, OwnsDispatch, Inv, Rows, TypeOK, Tasks
    <3>5. Moves
      BY <3>1, <3>3, <3>4 DEF Moves, RemoteMoves
    <3> QED BY <1>1, <1>2, <3>1, <3>5, WorkerProceeds DEF Free
  <2>2. CASE ~OwnsDispatch(s, s)
    BY <1>1, <1>3, <2>2, WorkerWaits DEF DispatchAccepted, Free
  <2> QED BY <2>1, <2>2
<1>4. CASE DispatchCompleted(s)
  <2>1. remote' = [remote EXCEPT ![s] = "done"] /\ remote[s] = "live" /\ WorkerGoes(s, "spool")
        /\ Keep
    BY <1>4 DEF DispatchCompleted
  <2>2. RemoteMoves
    BY <2>1 DEF RemoteMoves, Keep, storeVars, Inv, Rows, ProcTypeOK
  <2>3. Moves
    BY <2>1, <2>2, QuietMoves DEF Keep, storeVars, Inv
  <2>4. remote' \in [Steps -> {"none", "live", "done", "failed", "cancelled"}]
    BY <2>1 DEF Inv, Rows, ProcTypeOK
  <2>5. WorkerOK(s)'
    BY <2>1 DEF WorkerOK, WorkerGoes, Inv, Rows, ProcTypeOK
  <2> QED
    BY <1>1, <1>2, <2>1, <2>3, <2>4, <2>5, WorkerGoesOn DEF WorkerOnly, WorkerPlaces
<1>5. CASE DispatchRefused(s)
  <2>1. remote[s] = "none" /\ remote' = remote
    BY <1>5 DEF DispatchRefused
  <2>2. PICK w \in {"interrupted", "error"} :
             /\ WorkerGoes(s, w)
             /\ \/ CloseTask(s, "dispatching", "completed", "interrupted")
                \/ Keep
                \/ Fails(s, "dispatching", "completed", "refused", "failed")
    BY <1>5 DEF DispatchRefused
  <2>3. worker'[s] # "dispatch"
    BY <2>2 DEF WorkerGoes, Inv, Rows, ProcTypeOK
  <2>4. Moves
    BY <2>1, <2>2, <2>3, CloseMoves, FailsMoves, KeepMoves DEF Inv, Codes
  <2> QED BY <1>1, <1>2, <2>1, <2>2, <2>4, WorkerProceeds DEF Free
<1>6. CASE DispatchUnknown(s)
  <2>1. Moves
    BY <1>6, FailsMoves DEF DispatchUnknown, Inv, Codes
  <2> QED BY <1>1, <1>2, <1>6, <2>1, WorkerProceeds DEF DispatchUnknown, Free
<1> QED BY <1>3, <1>4, <1>5, <1>6

\* A lease that is renewed belongs to the caller already.
LEMMA StepRenewInv ==
    ASSUME Inv, NEW s \in Steps, StepRenew(s)
    PROVE  Inv'
<1>1. /\ worker[s] = "dispatch" /\ OwnsDispatch(s, s) /\ ~task[s].overdue /\ ~task[s].lease
      /\ UNCHANGED procVars /\ RenewDispatch(s, s)
  BY DEF StepRenew, RenewDispatch, WorkerAt
<1>2. Stalls
  BY <1>1 DEF Inv, Workers, WorkerOK
<1>3. /\ task'[s].state = task[s].state /\ task'[s].owner = task[s].owner
      /\ \A t \in Steps \ {s} : task'[t] = task[t]
  BY <1>1 DEF RenewDispatch, Inv, Rows, TypeOK, Tasks
<1>4. RowMoves
  BY <1>1, <1>3 DEF RowMoves, RenewDispatch
<1>5. ASSUME NEW t \in Steps PROVE LeaseMoves(t)
  BY <1>1, <1>2, <1>3 DEF LeaseMoves, OwnsDispatch, Inv, Rows, TypeOK, Tasks
<1>6. Moves
  BY <1>1, <1>4, <1>5 DEF Moves, RemoteMoves, procVars
<1>7. [Next]_storeVars
  BY WorkerTransactions DEF StepStep, Inv
<1> QED BY <1>1, <1>6, <1>7, ProcsKept

\* Polling, and what follows its answer or its deadline.
LEMMA PollInv ==
    ASSUME Inv, NEW s \in Steps,
           PollStops(s) \/ PollAnswered(s) \/ PollOverdue(s) \/ CloseOverdue(s)
    PROVE  Inv'
<1>1. WorkerOK(s) /\ WorkerOnly /\ worker[s] \notin {"idle", "settling"}
  BY DEF Inv, Workers, PollStops, PollAnswered, PollOverdue, CloseOverdue, WorkerAt
<1>2. [Next]_storeVars
  BY WorkerTransactions DEF StepStep, Inv
<1>3. CASE PollStops(s)
  <2>1. PICK w \in {"interrupted", "error"} : WorkerGoes(s, w)
    BY <1>3 DEF PollStops
  <2> QED BY <1>1, <1>3, <2>1, WorkerWaits DEF PollStops, Free
<1>4. CASE PollAnswered(s)
  <2>1. PICK w \in {"spool", "spoolFailed"} : WorkerGoes(s, w)
    BY <1>4 DEF PollAnswered
  <2>2. remote' = remote /\ remote[s] \in {"done", "failed"} /\ Keep
    BY <1>4 DEF PollAnswered
  <2>3. WorkerOK(s)'
    BY <2>1, <2>2 DEF WorkerOK, WorkerGoes, Inv, Rows, ProcTypeOK
  <2>4. Moves
    BY <2>2, KeepMoves
  <2>5. remote' \in [Steps -> {"none", "live", "done", "failed", "cancelled"}]
    BY <2>2 DEF Inv, Rows, ProcTypeOK
  <2> QED
    BY <1>1, <1>2, <2>1, <2>3, <2>4, <2>5, WorkerGoesOn DEF WorkerOnly, WorkerPlaces
<1>5. CASE PollOverdue(s)
  <2>1. CASE WorkerGoes(s, "overdueAbandon") /\ UNCHANGED remote
    BY <1>1, <1>5, <2>1, WorkerWaits DEF PollOverdue, Free
  <2>2. CASE remote[s] = "live" /\ remote' = [remote EXCEPT ![s] = "cancelled"]
             /\ WorkerGoes(s, "overdueCancelled")
    <3>1. Keep /\ task' = task
      BY <1>5 DEF PollOverdue, Keep, storeVars
    <3>2. RemoteMoves
      BY <2>2, <3>1 DEF RemoteMoves, Keep, storeVars, Inv, Rows, ProcTypeOK
    <3>3. Moves
      BY <3>1, <3>2, QuietMoves DEF Keep, storeVars, Inv
    <3>4. remote' \in [Steps -> {"none", "live", "done", "failed", "cancelled"}]
      BY <2>2 DEF Inv, Rows, ProcTypeOK
    <3>5. WorkerOK(s)'
      BY <2>2 DEF WorkerOK, WorkerGoes, Inv, Rows, ProcTypeOK
    <3> QED
      BY <1>1, <1>2, <2>2, <3>3, <3>4, <3>5, WorkerGoesOn DEF WorkerOnly, WorkerPlaces
  <2> QED BY <1>5, <2>1, <2>2 DEF PollOverdue
<1>6. CASE CloseOverdue(s)
  <2>1. remote' = remote /\ (worker[s] = "overdueCancelled" => remote[s] = "cancelled")
    BY <1>1, <1>6 DEF CloseOverdue, WorkerOK
  <2>2. PICK w \in {"interrupted", "overdueRisk"} :
             /\ WorkerGoes(s, w)
             /\ \/ CloseTask(s, "active", "cancelled", "none") /\ worker[s] = "overdueCancelled"
                \/ CloseTask(s, "active", "abandoned", "deadline")
                \/ Keep
    BY <1>6 DEF CloseOverdue, WorkerAt
  <2>3. Moves
    BY <2>1, <2>2, CloseMoves, KeepMoves DEF Inv
  <2> QED BY <1>1, <1>2, <2>1, <2>2, <2>3, WorkerProceeds DEF Free
<1> QED BY <1>3, <1>4, <1>5, <1>6

\* A result is recorded by the worker that was told of it.
LEMMA SpoolInv ==
    ASSUME Inv, NEW s \in Steps, StepSpool(s)
    PROVE  Inv'
<1>1. /\ worker[s] \in {"spool", "spoolFailed"} /\ remote[s] \in {"done", "failed"}
      /\ WorkerOnly /\ remote' = remote
  BY DEF StepSpool, Inv, Workers, WorkerOK
<1>2. CASE CanResultReady(s, s)
  <2>1. PICK w \in {"materialize", "failFinal"} : WorkerGoes(s, w)
    BY <1>2 DEF StepSpool
  <2>2. ResultReady(s, s)
    BY <1>2 DEF StepSpool
  <2>3. /\ task'[s].state = "result_ready"
        /\ \A t \in Steps \ {s} : task'[t] = task[t]
        /\ worker'[s] = w
    BY <2>1, <2>2 DEF ResultReady, WorkerGoes, Inv, Rows, TypeOK, Tasks, ProcTypeOK
  <2>4. RowMoves
    BY <1>1, <2>2, <2>3 DEF RowMoves, ResultReady
  <2>5. ASSUME NEW t \in Steps PROVE LeaseMoves(t)
    BY <2>3 DEF LeaseMoves, OwnsDispatch, Inv, Rows, TypeOK, Tasks
  <2>6. Moves
    BY <1>1, <2>4, <2>5 DEF Moves, RemoteMoves
  <2>7. [Next]_storeVars
    BY WorkerTransactions DEF StepStep, Inv
  <2> QED BY <1>1, <2>1, <2>6, <2>7, WorkerProceeds DEF Free
<1>3. CASE ~CanResultReady(s, s)
  BY <1>1, <1>3, WorkerWaits DEF StepSpool, Free
<1> QED BY <1>2, <1>3

\* The step succeeds with its task, or gives up, or tries again.
LEMMA PublishInv ==
    ASSUME Inv, NEW s \in Steps, Publish(s)
    PROVE  Inv'
<1>1. worker[s] = "publish" /\ WorkerOnly /\ remote' = remote
  BY DEF Publish, WorkerAt
<1>2. [Next]_storeVars
  BY WorkerTransactions DEF StepStep, Inv
<1>3. ASSUME NEW w \in {"interrupted", "materialize", "error"}, Keep, WorkerGoes(s, w)
      PROVE  Inv'
  BY <1>1, <1>3, WorkerWaits DEF Free
<1>4. CASE Fails(s, "result_ready", "completed", "invalid", "failed") /\ WorkerGoes(s, "error")
  <2>1. Moves
    BY <1>1, <1>4, FailsMoves DEF Inv, Codes
  <2> QED BY <1>1, <1>2, <1>4, <2>1, WorkerProceeds DEF Free
<1>5. CASE task[s].state = "result_ready" /\ FinalizeSuccess(s) /\ WorkerGoes(s, "published")
  <2>1. /\ task'[s].state = "completed" /\ stepState'[s] = "succeeded"
        /\ \A t \in Steps \ {s} : task'[t] = task[t] /\ stepState'[t] = stepState[t]
        /\ worker'[s] = "published" /\ runStatus' = runStatus
    BY <1>5 DEF FinalizeSuccess, WorkerGoes, Inv, Rows, TypeOK, Tasks, ProcTypeOK
  <2>2. RowMoves
    BY <1>5, <2>1 DEF RowMoves
  <2>3. ASSUME NEW t \in Steps PROVE LeaseMoves(t)
    BY <1>5, <2>1 DEF LeaseMoves, OwnsDispatch, Inv, Rows, TypeOK, Tasks
  <2>4. Moves
    BY <1>1, <2>2, <2>3 DEF Moves, RemoteMoves
  <2>5. WorkerOK(s)'
    BY <2>1 DEF WorkerOK
  <2>6. remote' \in [Steps -> {"none", "live", "done", "failed", "cancelled"}]
    BY <1>1 DEF Inv, Rows, ProcTypeOK
  <2> QED
    BY <1>1, <1>2, <1>5, <2>4, <2>5, <2>6, WorkerGoesOn DEF WorkerOnly, WorkerPlaces
<1>6. \/ \E w \in {"interrupted", "materialize", "error"} : Keep /\ WorkerGoes(s, w)
      \/ Fails(s, "result_ready", "completed", "invalid", "failed") /\ WorkerGoes(s, "error")
      \/ task[s].state = "result_ready" /\ FinalizeSuccess(s) /\ WorkerGoes(s, "published")
  BY DEF Publish
<1> QED BY <1>3, <1>4, <1>5, <1>6

\* A published step is reported as done unless the run was stopped meanwhile.
LEMMA PublishedInv ==
    ASSUME Inv, NEW s \in Steps, StepPublished(s)
    PROVE  Inv'
<1>1. worker[s] = "published" /\ WorkerOnly /\ remote' = remote /\ Keep
      /\ stepState[s] = "succeeded"
  BY DEF StepPublished, WorkerAt, Inv, Workers, WorkerOK
<1>2. PICK w \in {"interrupted", "ok"} : WorkerGoes(s, w)
  BY DEF StepPublished
<1>3. WorkerOK(s)'
  BY <1>1, <1>2 DEF WorkerOK, WorkerGoes, Inv, Rows, ProcTypeOK, Keep, storeVars
<1>4. Moves /\ [Next]_storeVars
  BY <1>1, KeepMoves
<1>5. remote' \in [Steps -> {"none", "live", "done", "failed", "cancelled"}]
  BY <1>1 DEF Inv, Rows, ProcTypeOK
<1> QED
  BY <1>1, <1>2, <1>3, <1>4, <1>5, WorkerGoesOn DEF WorkerOnly, WorkerPlaces, Results

\* A cached result finishes the step and is remembered as the reason.
LEMMA ReusesInv ==
    ASSUME Inv, NEW s \in Steps, StepReuses(s)
    PROVE  Inv'
<1>1. /\ worker[s] = "begin" /\ remote' = remote
      /\ UNCHANGED <<interrupt, exec, settler, user, boot, lease, crashes>>
  BY DEF StepReuses, WorkerAt
<1>2. reused' \in {reused, reused \cup {s}}
  BY DEF StepReuses
<1>3. [Next]_storeVars
  BY DEF StepReuses, Keep, Next, TaskNext
<1>4. remote' \in [Steps -> {"none", "live", "done", "failed", "cancelled"}]
  BY <1>1 DEF Inv, Rows, ProcTypeOK
<1>5. CASE FinalizeReuse(s) /\ reused' = reused \cup {s} /\ WorkerGoes(s, "ok")
  <2>1. /\ task' = task /\ ledger' = ledger /\ runStatus' = runStatus
        /\ \A t \in Steps : stepState'[t] = IF t = s THEN "succeeded" ELSE stepState[t]
        /\ worker'[s] = "ok"
    BY <1>5 DEF FinalizeReuse, WorkerGoes, Inv, Rows, TypeOK, ProcTypeOK
  <2>2. RowMoves
    BY <1>5, <2>1 DEF RowMoves
  <2>3. ASSUME NEW t \in Steps PROVE LeaseMoves(t)
    BY <2>1 DEF LeaseMoves, OwnsDispatch, Inv, Rows, TypeOK, Tasks
  <2>4. Moves
    BY <1>1, <2>2, <2>3 DEF Moves, RemoteMoves
  <2>5. WorkerOK(s)' /\ "ok" \in WorkerPlaces
    BY <2>1 DEF WorkerOK, WorkerPlaces, Results
  <2> QED BY <1>1, <1>2, <1>3, <1>4, <1>5, <2>4, <2>5, WorkerGoesOn
<1>6. CASE Keep /\ reused' = reused /\ WorkerGoes(s, "error")
  BY <1>1, <1>6, WorkerWaits DEF WorkerOnly, Free
<1> QED BY <1>5, <1>6 DEF StepReuses

LEMMA WorkerInv ==
    ASSUME Inv, NEW s \in Steps, StepStep(s)
    PROVE  Inv'
<1>1. [Next]_storeVars
  BY WorkerTransactions DEF Inv
<1>2. CASE StepBegin(s)
  <2>1. Moves
    <3>1. CASE Keep
      BY <1>2, <3>1, KeepMoves DEF StepBegin
    <3>2. CASE SetStep(s, "running")
      <4>1. /\ task' = task /\ runStatus' = runStatus
            /\ \A t \in Steps : stepState'[t] = "succeeded" => stepState[t] = "succeeded"
        BY <3>2 DEF SetStep, Inv, Rows, TypeOK
      <4> QED BY <1>2, <4>1, QuietMoves DEF StepBegin, Inv, RemoteMoves
    <3> QED BY <1>2, <3>1, <3>2 DEF StepBegin
  <2>2. PICK w \in {"insert", "error"} : WorkerGoes(s, w)
    BY <1>2 DEF StepBegin
  <2> QED BY <1>1, <1>2, <2>1, <2>2, WorkerProceeds DEF StepBegin, WorkerAt, Free
<1>3. CASE StepNotify(s)
  <2>1. Moves
    BY <1>3, QuietMoves DEF StepNotify, NotifyRisk, Inv, RemoteMoves
  <2>2. PICK w \in {"settle", "interrupted"} : WorkerGoes(s, w)
    BY <1>3 DEF StepNotify
  <2> QED BY <1>1, <1>3, <2>1, <2>2, WorkerProceeds DEF StepNotify, Free
<1>4. CASE StepSettle(s)
  BY <1>4, WorkerSettlesInv DEF StepSettle, WorkerAt
<1>5. CASE StepActivated(s)
  BY <1>5, WorkerSettlesInv, WorkerWaits DEF StepActivated, WorkerAt, Free
<1>6. CASE StepFailFinal(s)
  <2>1. Moves
    BY <1>6, FailsMoves DEF StepFailFinal, Inv, Codes
  <2> QED BY <1>1, <1>6, <2>1, WorkerProceeds DEF StepFailFinal, WorkerAt, Free
<1>7. CASE Materialize(s)
  <2>1. CASE task[s].overdue
    <3>1. Moves
      BY <1>7, <2>1, FailsMoves DEF Materialize, Inv, Codes
    <3> QED BY <1>1, <1>7, <2>1, <3>1, WorkerProceeds DEF Materialize, WorkerAt, Free
  <2>2. CASE ~task[s].overdue
    BY <1>7, <2>2, WorkerWaits DEF Materialize, WorkerAt, Free
  <2> QED BY <2>1, <2>2
<1> QED
  BY <1>2, <1>3, <1>4, <1>5, <1>6, <1>7, InsertInv, StepRenewInv, DispatchInv, PollInv,
     SpoolInv, PublishInv, PublishedInv, ReusesInv DEF StepStep

\* The provider's own steps.
LEMMA RemoteInv ==
    ASSUME Inv, NEW s \in Steps, RemoteAccepts(s) \/ RemoteFinishes(s)
    PROVE  Inv'
<1>1. Keep /\ UNCHANGED <<interrupt, exec, worker, settler, user, boot, lease, crashes, reused>>
  BY DEF RemoteAccepts, RemoteFinishes, WorkerOnly
<1>2. RemoteMoves
  BY <1>1 DEF RemoteAccepts, RemoteFinishes, WorkerAt, RemoteMoves, Keep, storeVars,
     Inv, Rows, ProcTypeOK
<1>3. Moves /\ [Next]_storeVars
  BY <1>1, <1>2, QuietMoves DEF Keep, storeVars, Inv
<1>4. remote' \in [Steps -> {"none", "live", "done", "failed", "cancelled"}]
  BY DEF RemoteAccepts, RemoteFinishes, Inv, Rows, ProcTypeOK
<1>5. Stepping
  BY <1>1, <1>3, SteppingIf
<1>6. ProcTypeOK' /\ BootCalls' /\ Running' = Running
  BY <1>1, <1>4 DEF ProcTypeOK, BootCalls, Running, Busy, Inv, Rows
<1>7. Workers' /\ Settlers'
  BY <1>1, <1>5, WorkerKept, SettlerKept DEF Workers, Settlers
<1> QED
  BY <1>1, <1>5, <1>6, <1>7, MoneyKept, StepsSoundKept, SchedulingKept, RecoveringKept
     DEF Inv, Rows, Stepping

-----------------------------------------------------------------------------
(* The executor.                                                           *)

ExecRec == [at : ExecPlaces, started : SUBSET Steps, finished : SUBSET Steps,
            interrupted : BOOLEAN, failed : BOOLEAN]

\* The executor moves: the workers it starts or joins, and its own sets.
LEMMA ExecGoesOn ==
    ASSUME Inv, Moves, [Next]_storeVars, ExecOnly, exec.at # "off", interrupt' \in BOOLEAN,
           exec' \in ExecRec, worker' \in [Steps -> WorkerPlaces], Workers',
           \A s \in Steps : worker[s] = "settling" => worker'[s] = "settling",
           Scheduling'
    PROVE  Inv'
<1>1. Stepping
  BY SteppingIf DEF ExecOnly
<1>2. ProcTypeOK' /\ BootCalls'
  BY DEF ExecOnly, ExecRec, Inv, Rows, ProcTypeOK, BootCalls
<1>3. Settlers'
  BY <1>1, SettlerKept DEF ExecOnly, Settlers
<1>4. boot' = "off"
  BY DEF ExecOnly, Inv, Recovering
<1> QED
  BY <1>1, <1>2, <1>3, <1>4, MoneyKept, StepsSoundKept, RecoveringOver
     DEF Inv, Rows, Stepping

\* The executor's place alone changes.
LEMMA ExecPlaceMoves ==
    ASSUME ProcTypeOK, NEW at \in ExecPlaces, ExecGoes(at)
    PROVE  /\ exec' \in ExecRec /\ exec'.at = at
           /\ exec'.started = exec.started /\ exec'.finished = exec.finished
           /\ exec'.failed = exec.failed /\ exec'.interrupted = exec.interrupted
  BY DEF ProcTypeOK, ExecGoes, ExecRec

\* The executor gives up: its workers and their settler calls are dropped.
LEMMA ErrsInv ==
    ASSUME Inv, ExecErrs, exec.at # "off", interrupt' \in BOOLEAN
    PROVE  Inv'
<1>1. \A s \in Steps : worker'[s] = "idle"
  BY DEF ExecErrs
<1>2. Moves /\ [Next]_storeVars
  BY <1>1, RetireMoves, RetireIsStep DEF ExecErrs, Inv, Actors
<1>3. Stepping
  BY <1>2, SteppingIf DEF ExecErrs
<1>4. /\ \A a \in Actors : settler'[a] = settler[a] \/ settler'[a] = Idle
      /\ \A s \in Steps : settler'[s] = Idle
      /\ settler' \in [Actors -> SettlerRec]
  <2>1. Idle \in SettlerRec
    BY DEF Idle, SettlerRec, SettlerPlaces
  <2>2. settler \in [Actors -> SettlerRec]
    BY DEF Inv, Rows, ProcTypeOK, SettlerRec
  <2> QED BY <2>1, <2>2 DEF ExecErrs, Actors
<1>5. Idle.at = "off" /\ Idle.seen = {} /\ Idle.cur = {}
  BY DEF Idle
<1>6. exec' \in ExecRec /\ exec'.at = "failing"
  BY ExecPlaceMoves DEF ExecErrs, Inv, Rows, ExecPlaces
<1>7. ProcTypeOK'
  BY <1>4, <1>6 DEF ExecErrs, Inv, Rows, ProcTypeOK, ExecRec, SettlerRec, WorkerPlaces
<1>8. Workers'
  BY <1>1 DEF Workers, WorkerOK
<1>9. Settlers'
  <2>1. ASSUME NEW a \in Actors PROVE SettlerOK(a)'
    <3>1. CASE settler'[a] = Idle
      BY <1>5, <3>1 DEF SettlerOK
    <3>2. CASE settler'[a] # Idle
      BY <1>3, <1>4, <3>2, SettlerKept
    <3> QED BY <3>1, <3>2
  <2> QED BY <2>1 DEF Settlers
<1>10. boot' = "off"
  BY DEF ExecErrs, Inv, Recovering
<1>11. BootCalls'
  BY <1>4, <1>5 DEF ExecErrs, BootCalls, Inv, Actors
<1> QED
  BY <1>3, <1>6, <1>7, <1>8, <1>9, <1>10, <1>11, MoneyKept, StepsSoundKept, SchedulingOver,
     RecoveringOver DEF Inv, Rows, Stepping

\* Between its turns of the loop the executor changes its place only.
LEMMA ExecPlaceInv ==
    ASSUME Inv, Moves, [Next]_storeVars, NEW at \in ExecPlaces, ExecGoes(at), ExecOnly,
           worker' = worker, interrupt' \in BOOLEAN, exec.at # "off", Scheduling'
    PROVE  Inv'
<1>1. exec' \in ExecRec
  BY ExecPlaceMoves DEF Inv, Rows
<1>2. Workers'
  BY SteppingIf, WorkerKept DEF ExecOnly, Workers
<1>3. worker' \in [Steps -> WorkerPlaces]
  BY DEF Inv, Rows, ProcTypeOK
<1> QED BY <1>1, <1>2, <1>3, ExecGoesOn

\* A spawned executor registers, and starts from the steps that succeeded.
LEMMA ExecBeginInv ==
    ASSUME Inv, ExecRegister \/ ExecStart
    PROVE  Inv'
<1>1. CASE ExecRegister
  <2>1. Moves /\ [Next]_storeVars
    BY <1>1, KeepMoves DEF ExecRegister, ExecOnly
  <2>2. exec.at = "spawned" /\ ExecGoes("start") /\ worker' = worker /\ "start" \in ExecPlaces
    BY <1>1 DEF ExecRegister, ExecAt, ExecPlaces
  <2>3. exec'.at = "start" /\ Running' = Running
    BY <2>2, ExecPlaceMoves DEF Inv, Rows, Running, Busy
  <2>4. Scheduling'
    <3>1. runStatus' = runStatus /\ stepState' = stepState
      BY <1>1 DEF ExecRegister, Keep, storeVars
    <3> QED BY <2>2, <2>3, <3>1 DEF Inv, Scheduling
  <2> QED BY <1>1, <2>1, <2>2, <2>4, ExecPlaceInv DEF ExecRegister
<1>2. CASE ExecStart /\ ~CanSetRun("running")
  BY <1>2, ErrsInv DEF ExecStart, ExecAt, Inv, Rows, ProcTypeOK
<1>3. CASE ExecStart /\ CanSetRun("running")
  <2> DEFINE done == {s \in Steps : stepState[s] = "succeeded"}
  <2>1. /\ exec.at = "start" /\ SetRun("running") /\ worker' = worker /\ ExecOnly
        /\ exec' = [at |-> "top", started |-> done, finished |-> done,
                    interrupted |-> FALSE, failed |-> FALSE]
        /\ interrupt' = interrupt
    BY <1>3 DEF ExecStart, ExecAt
  <2>2. task' = task /\ stepState' = stepState /\ runStatus' = "running"
    BY <2>1 DEF SetRun
  <2>3. Moves
    BY <2>1, <2>2, QuietMoves DEF ExecOnly, Inv, RemoteMoves
  <2>4. [Next]_storeVars
    BY <1>3, ExecutorTransactions DEF ExecStep
  <2>5. exec' \in ExecRec /\ exec'.at = "top" /\ exec'.started = done /\ exec'.finished = done
    BY <2>1 DEF ExecRec, ExecPlaces
  <2>6. Running = {} /\ Running' = {}
    BY <2>1 DEF Inv, Scheduling, Running, Busy
  <2>7. Scheduling'
    BY <2>2, <2>5, <2>6 DEF Scheduling
  <2>8. Workers'
    BY <2>1, <2>3, <2>4, SteppingIf, WorkerKept DEF ExecOnly, Workers
  <2> HIDE DEF done
  <2> QED
    BY <2>1, <2>3, <2>4, <2>5, <2>7, <2>8, ExecGoesOn DEF Inv, Rows, ProcTypeOK
<1> QED BY <1>1, <1>2, <1>3 DEF ExecStart

\* A step that will not be started any more counts as finished, and the
\* executor as failed or interrupted.
LEMMA ExecSkipsInv ==
    ASSUME Inv, ExecSkips
    PROVE  Inv'
<1>1. exec.at = "top" /\ Stopping /\ interrupt' = interrupt /\ interrupt \in BOOLEAN
  BY DEF ExecSkips, ExecAt, Inv, Rows, ProcTypeOK
<1>2. PICK s \in Unstarted :
          IF CanSetStep(s, "skipped")
          THEN /\ SetStep(s, "skipped")
               /\ exec' = [exec EXCEPT !.started = @ \cup {s}, !.finished = @ \cup {s},
                                       !.interrupted = @ \/ (interrupt /\ ~exec.failed)]
               /\ UNCHANGED worker /\ ExecOnly
          ELSE ExecErrs
  BY DEF ExecSkips
<1>3. CASE ~CanSetStep(s, "skipped")
  BY <1>1, <1>2, <1>3, ErrsInv
<1>4. CASE CanSetStep(s, "skipped")
  <2>1. /\ SetStep(s, "skipped") /\ worker' = worker /\ ExecOnly
        /\ exec' = [exec EXCEPT !.started = @ \cup {s}, !.finished = @ \cup {s},
                                !.interrupted = @ \/ (interrupt /\ ~exec.failed)]
    BY <1>2, <1>4
  <2>2. s \in Steps /\ s \notin exec.started /\ exec \in ExecRec
    BY <1>2 DEF Unstarted, Inv, Rows, ProcTypeOK, ExecRec
  <2>3. /\ exec'.at = "top" /\ exec'.failed = exec.failed
        /\ exec'.started = exec.started \cup {s} /\ exec'.finished = exec.finished \cup {s}
        /\ exec'.interrupted = (exec.interrupted \/ (interrupt /\ ~exec.failed))
        /\ exec' \in ExecRec
    BY <1>1, <2>1, <2>2 DEF ExecRec
  <2>4. /\ task' = task /\ runStatus' = runStatus
        /\ \A t \in Steps : stepState'[t] = "succeeded" => stepState[t] = "succeeded"
    BY <2>1, <2>2 DEF SetStep, Inv, Rows, TypeOK
  <2>5. Moves
    BY <2>1, <2>4, QuietMoves DEF ExecOnly, Inv, RemoteMoves
  <2>6. [Next]_storeVars
    BY ExecutorTransactions DEF ExecStep
  <2>7. Stepping
    BY <2>1, <2>5, <2>6, SteppingIf DEF ExecOnly
  <2>8. exec'.failed \/ exec'.interrupted
    BY <1>1, <2>2, <2>3 DEF Stopping, ExecRec
  <2>9. Running' = Running
    BY <2>1 DEF Running, Busy
  <2>10. Scheduling'
    <3>1. Running = exec.started \ exec.finished /\ exec.finished \subseteq exec.started
      BY <1>1 DEF Inv, Scheduling
    <3>2. runStatus' = "succeeded" => \A t \in Steps : stepState'[t] = "succeeded"
      BY <2>4, <2>7 DEF Stepping, RowsKeep, Inv, Scheduling
    <3> QED BY <2>2, <2>3, <2>8, <2>9, <3>1, <3>2 DEF Scheduling
  <2>11. Workers' /\ worker' \in [Steps -> WorkerPlaces]
    BY <2>1, <2>7, WorkerKept DEF Workers, Inv, Rows, ProcTypeOK
  <2> QED BY <1>1, <2>1, <2>3, <2>5, <2>6, <2>10, <2>11, ExecGoesOn
<1> QED BY <1>3, <1>4

\* The top of the loop: an executor that leaves it undisturbed has finished
\* every step, because a plan without cycles always has a step that is ready.
LEMMA ExecTopInv ==
    ASSUME Inv, ExecTop
    PROVE  Inv'
<1>1. /\ exec.at = "top" /\ interrupt' = interrupt /\ interrupt \in BOOLEAN
      /\ exec \in ExecRec /\ Keep /\ ExecOnly
  BY DEF ExecTop, ExecAt, Inv, Rows, ProcTypeOK, ExecRec
<1>2. PICK S \in SUBSET Ready :
          LET free == MaxParallel - Cardinality(Running)
              spawned == IF Stopping THEN {} ELSE S
          IN  /\ Cardinality(S) <= free
              /\ Cardinality(S) = free \/ S = Ready
              /\ worker' = [s \in Steps |-> IF s \in spawned THEN "begin" ELSE worker[s]]
              /\ exec' = [exec EXCEPT
                     !.at = IF exec.finished = Steps \/ Running \cup spawned = {}
                            THEN "finish" ELSE "join",
                     !.started = @ \cup spawned,
                     !.interrupted = @ \/ (interrupt /\ ~exec.failed)]
  BY DEF ExecTop
<1> DEFINE spawned == IF Stopping THEN {} ELSE S
<1>3. /\ worker' = [s \in Steps |-> IF s \in spawned THEN "begin" ELSE worker[s]]
      /\ exec' = [exec EXCEPT
             !.at = IF exec.finished = Steps \/ Running \cup spawned = {}
                    THEN "finish" ELSE "join",
             !.started = @ \cup spawned,
             !.interrupted = @ \/ (interrupt /\ ~exec.failed)]
  BY <1>2
<1>4. Running = exec.started \ exec.finished /\ exec.finished \subseteq exec.started
  BY <1>1 DEF Inv, Scheduling
<1>5. /\ spawned \subseteq Steps
      /\ \A s \in spawned : worker[s] = "idle" /\ s \notin exec.started /\ Deps[s] \subseteq exec.finished
  BY <1>1, <1>4 DEF Ready, Unstarted, Running, Busy, ExecRec
<1>6. PICK T \in SUBSET Steps : T = spawned
  BY <1>5
<1> HIDE DEF spawned
<1>7. /\ exec'.at \in {"finish", "join"}
      /\ exec'.at = "finish" => exec.finished = Steps \/ Running \cup T = {}
      /\ exec'.started = exec.started \cup T /\ exec'.finished = exec.finished
      /\ exec'.failed = exec.failed
      /\ exec'.interrupted = (exec.interrupted \/ (interrupt /\ ~exec.failed))
      /\ exec' \in ExecRec
  BY <1>1, <1>3, <1>6 DEF ExecRec, ExecPlaces
<1>8. /\ worker' \in [Steps -> WorkerPlaces]
      /\ \A s \in Steps : worker'[s] = IF s \in T THEN "begin" ELSE worker[s]
  BY <1>3, <1>6 DEF Inv, Rows, ProcTypeOK, WorkerPlaces
<1>9. Moves /\ [Next]_storeVars
  BY <1>1, KeepMoves DEF ExecOnly
<1>10. Stepping
  BY <1>1, <1>9, SteppingIf DEF ExecOnly
<1>11. Workers'
  <2>1. ASSUME NEW s \in Steps PROVE WorkerOK(s)'
    <3>1. CASE s \in T
      BY <1>8, <3>1 DEF WorkerOK
    <3>2. CASE s \notin T
      BY <1>8, <1>10, <3>2, WorkerKept
    <3> QED BY <3>1, <3>2
  <2> QED BY <2>1 DEF Workers
<1>12. \A s \in Steps : worker[s] = "settling" => worker'[s] = "settling"
  BY <1>5, <1>6, <1>8
<1>13. Scheduling'
  <2>1. Running' = Running \cup T
    BY <1>8 DEF Running, Busy
  <2>2. stepState' = stepState /\ runStatus' = runStatus
    BY <1>1 DEF Keep, storeVars
  <2>3. T \cap exec.finished = {}
    BY <1>4, <1>5, <1>6
  <2>4. ASSUME exec'.at = "finish", ~exec'.failed, ~exec'.interrupted PROVE exec.finished = Steps
    <3>1. SUFFICES ASSUME exec.finished # Steps PROVE FALSE
      OBVIOUS
    <3>2. Running = {} /\ T = {}
      BY <1>7, <2>4, <3>1
    <3>3. ~Stopping
      BY <1>1, <1>7, <2>4 DEF Stopping, ExecRec
    <3>4. S = {}
      BY <1>6, <3>2, <3>3 DEF spawned
    <3>5. Ready = {}
      <4>1. Cardinality(Running) = 0 /\ Cardinality(S) = 0
        BY <3>2, <3>4, FS_EmptySet
      <4>2. Cardinality(S) = MaxParallel - Cardinality(Running) \/ S = Ready
        BY <1>2
      <4> QED BY <3>4, <4>1, <4>2, ScheduleAssumption
    <3>6. exec.started = exec.finished
      BY <1>4, <3>2
    <3>7. PICK s \in Steps \ exec.finished : Deps[s] \cap (Steps \ exec.finished) = {}
      BY <1>1, <3>1, AcyclicAssumption DEF ExecRec
    <3>8. Deps[s] \subseteq exec.finished
      BY <3>7, ScheduleAssumption
    <3> QED BY <3>5, <3>6, <3>7, <3>8 DEF Ready, Unstarted
  <2>5. exec'.at = "join" =>
           /\ exec'.finished \subseteq exec'.started
           /\ Running' = exec'.started \ exec'.finished
    BY <1>4, <1>7, <2>1, <2>3
  <2>6. ~exec'.failed /\ ~exec'.interrupted => \A s \in exec'.finished : stepState'[s] = "succeeded"
    BY <1>1, <1>7, <2>2 DEF Inv, Scheduling, ExecRec
  <2>7. runStatus' = "succeeded" => \A s \in Steps : stepState'[s] = "succeeded"
    BY <2>2 DEF Inv, Scheduling
  <2> QED BY <1>7, <2>4, <2>5, <2>6, <2>7 DEF Scheduling
<1> QED BY <1>1, <1>7, <1>8, <1>9, <1>11, <1>12, <1>13, ExecGoesOn

\* Joining a worker: a step that did not succeed marks the executor.
LEMMA ExecJoinInv ==
    ASSUME Inv, NEW s \in Steps, ExecJoin(s)
    PROVE  Inv'
<1>1. exec.at = "join" /\ exec \in ExecRec /\ interrupt \in BOOLEAN
  BY DEF ExecJoin, ExecAt, Inv, Rows, ProcTypeOK, ExecRec
<1> DEFINE joined == [exec EXCEPT !.at = "top", !.finished = @ \cup {s}]
<1>2. CASE ExecErrs /\ interrupt' \in BOOLEAN
  BY <1>1, <1>2, ErrsInv
<1>3. ASSUME NEW e \in ExecRec, exec' = e, e.at = "top", e.started = exec.started,
             e.finished = exec.finished \cup {s},
             ~e.failed /\ ~e.interrupted =>
                 ~exec.failed /\ ~exec.interrupted /\ worker[s] = "ok",
             worker' = [worker EXCEPT ![s] = "idle"], worker[s] \in Results,
             ExecOnly, interrupt' \in BOOLEAN,
             Keep \/ SetStep(s, "skipped") \/ SetStep(s, "failed")
      PROVE  Inv'
  <2>1. /\ task' = task /\ runStatus' = runStatus
        /\ \A t \in Steps : stepState'[t] = "succeeded" => stepState[t] = "succeeded"
    BY <1>3 DEF SetStep, Keep, storeVars, Inv, Rows, TypeOK
  <2>2. Moves
    BY <1>3, <2>1, QuietMoves DEF ExecOnly, Inv, RemoteMoves
  <2>3. [Next]_storeVars
    BY ExecutorTransactions DEF ExecStep
  <2>4. Stepping
    BY <1>3, <2>2, <2>3, SteppingIf DEF ExecOnly
  <2>5. /\ worker' \in [Steps -> WorkerPlaces] /\ worker'[s] = "idle"
        /\ \A t \in Steps \ {s} : worker'[t] = worker[t]
    BY <1>3 DEF Inv, Rows, ProcTypeOK, WorkerPlaces
  <2>6. Workers'
    <3>1. ASSUME NEW t \in Steps, t # s PROVE WorkerOK(t)'
      BY <2>4, <2>5, <3>1, WorkerKept
    <3>2. WorkerOK(s)'
      BY <2>5 DEF WorkerOK
    <3> QED BY <3>1, <3>2 DEF Workers
  <2>7. \A t \in Steps : worker[t] = "settling" => worker'[t] = "settling"
    BY <1>3, <2>5 DEF Results
  <2>8. Scheduling'
    <3>1. Running' = Running \ {s} /\ s \in Running
      BY <1>3, <2>5 DEF Running, Busy, Results
    <3>2. Running = exec.started \ exec.finished /\ exec.finished \subseteq exec.started
      BY <1>1 DEF Inv, Scheduling
    <3>3. Running' = e.started \ e.finished /\ e.finished \subseteq e.started
      BY <1>3, <3>1, <3>2
    <3>4. ~e.failed /\ ~e.interrupted => \A t \in e.finished : stepState'[t] = "succeeded"
      <4>1. worker[s] = "ok" => stepState[s] = "succeeded"
        BY DEF Inv, Workers, WorkerOK
      <4>2. \A t \in Steps : stepState[t] = "succeeded" => stepState'[t] = "succeeded"
        BY <2>4 DEF Stepping, RowsKeep
      <4> QED BY <1>1, <1>3, <4>1, <4>2 DEF Inv, Scheduling, ExecRec
    <3>5. runStatus' = "succeeded" => \A t \in Steps : stepState'[t] = "succeeded"
      BY <2>1, <2>4 DEF Stepping, RowsKeep, Inv, Scheduling
    <3> QED BY <1>3, <3>3, <3>4, <3>5 DEF Scheduling
  <2> QED BY <1>1, <1>3, <2>2, <2>3, <2>5, <2>6, <2>7, <2>8, ExecGoesOn
<1>4. /\ joined \in ExecRec /\ joined.at = "top" /\ joined.started = exec.started
      /\ joined.finished = exec.finished \cup {s} /\ joined.failed = exec.failed
      /\ joined.interrupted = exec.interrupted
  BY <1>1 DEF ExecRec, ExecPlaces
<1>5. PICK j \in ExecRec : j = joined
  BY <1>4
<1>6. /\ j.at = "top" /\ j.started = exec.started /\ j.finished = exec.finished \cup {s}
      /\ j.failed = exec.failed /\ j.interrupted = exec.interrupted
  BY <1>4, <1>5
<1>7. \/ /\ WorkerAt(s, "ok") \/ (WorkerAt(s, "error") /\ exec.failed)
         /\ exec' = j
         /\ worker' = [worker EXCEPT ![s] = "idle"]
         /\ Keep /\ UNCHANGED interrupt /\ ExecOnly
      \/ /\ WorkerAt(s, "interrupted") /\ interrupt' = TRUE
         /\ \/ /\ SetStep(s, "skipped") /\ exec' = [j EXCEPT !.interrupted = TRUE]
               /\ worker' = [worker EXCEPT ![s] = "idle"] /\ ExecOnly
            \/ ExecErrs
      \/ /\ WorkerAt(s, "error") /\ interrupt' = (interrupt \/ CanSetStep(s, "failed"))
         /\ \/ /\ SetStep(s, "failed") /\ exec' = [j EXCEPT !.failed = TRUE]
               /\ worker' = [worker EXCEPT ![s] = "idle"] /\ ExecOnly
            \/ ExecErrs
  BY <1>5 DEF ExecJoin
<1>8. CASE exec' = j /\ (WorkerAt(s, "ok") \/ (WorkerAt(s, "error") /\ exec.failed))
           /\ worker' = [worker EXCEPT ![s] = "idle"]
           /\ Keep /\ UNCHANGED interrupt /\ ExecOnly
  BY <1>1, <1>3, <1>6, <1>8 DEF WorkerAt, Results
<1>9. CASE /\ WorkerAt(s, "interrupted") /\ interrupt' = TRUE
           /\ SetStep(s, "skipped") /\ exec' = [j EXCEPT !.interrupted = TRUE]
           /\ worker' = [worker EXCEPT ![s] = "idle"] /\ ExecOnly
  <2>1. PICK e \in ExecRec : e = [j EXCEPT !.interrupted = TRUE]
    BY DEF ExecRec
  <2>2. /\ e.at = "top" /\ e.started = exec.started /\ e.finished = exec.finished \cup {s}
        /\ e.interrupted
    BY <1>6, <2>1 DEF ExecRec
  <2> QED BY <1>3, <1>9, <2>1, <2>2 DEF WorkerAt, Results
<1>10. CASE /\ WorkerAt(s, "error") /\ interrupt' = (interrupt \/ CanSetStep(s, "failed"))
            /\ SetStep(s, "failed") /\ exec' = [j EXCEPT !.failed = TRUE]
            /\ worker' = [worker EXCEPT ![s] = "idle"] /\ ExecOnly
  <2>1. PICK e \in ExecRec : e = [j EXCEPT !.failed = TRUE]
    BY DEF ExecRec
  <2>2. /\ e.at = "top" /\ e.started = exec.started /\ e.finished = exec.finished \cup {s}
        /\ e.failed
    BY <1>6, <2>1 DEF ExecRec
  <2>3. interrupt' \in BOOLEAN
    BY <1>1, <1>10 DEF CanSetStep
  <2> QED BY <1>3, <1>10, <2>1, <2>2, <2>3 DEF WorkerAt, Results
<1>11. CASE ExecErrs
  <2>1. interrupt' \in BOOLEAN
    BY <1>1, <1>7, <1>11 DEF CanSetStep, ExecErrs, WorkerAt
  <2> QED BY <1>2, <1>11, <2>1
<1> QED BY <1>7, <1>8, <1>9, <1>10, <1>11

\* Someone who is no worker calls the settler.
LEMMA CallInv ==
    ASSUME Inv, Moves, [Next]_storeVars, NEW a \in Actors, a \notin Steps,
           NEW d \in {"failed", "interrupted"},
           settler' = [settler EXCEPT ![a] = Settling(d)],
           UNCHANGED <<interrupt, worker, lease, remote, crashes, reused>>,
           exec' \in ExecRec, boot' \in BootPlaces,
           user' \in {"idle", "check", "settling", "done"},
           Recovering', BootCalls', Scheduling'
    PROVE  Inv'
<1>1. Stepping
  BY SteppingIf
<1>2. SettlerMoves(a, d, {}, {})
  BY StartMoves DEF Inv, Rows
<1>3. ProcTypeOK'
  BY <1>2 DEF Inv, Rows, ProcTypeOK, SettlerMoves, SettlerRec, ExecRec
<1>4. Workers'
  BY <1>1, WorkerKept DEF Workers
<1>5. SettlerOK(a)'
  BY <1>2 DEF SettlerMoves, SettlerOK
<1>6. \A b \in Actors \ {a} : SettlerOK(b)'
  BY <1>1, <1>2, SettlerKept DEF SettlerMoves
<1> QED
  BY <1>1, <1>3, <1>4, <1>5, <1>6, MoneyKept, StepsSoundKept
     DEF Inv, Rows, Stepping, Settlers

\* The executor hands the run to the settler: it has left its loop.
LEMMA ExecSettlesInv ==
    ASSUME Inv, ExecSettleFailed \/ ExecSettleInterrupted \/ ExecFailing
    PROVE  Inv'
<1>1. PICK d \in {"failed", "interrupted"}, at \in {"settleFailed", "settling"} :
            ExecSettles(d, at)
  BY DEF ExecSettleFailed, ExecSettleInterrupted, ExecFailing
<1>2. exec.at # "off"
  BY DEF ExecSettleFailed, ExecSettleInterrupted, ExecFailing, ExecAt
<1>3. at \in ExecPlaces /\ ExecGoes(at)
  BY <1>1 DEF ExecPlaces, ExecSettles
<1>4. exec' \in ExecRec /\ exec'.at = at
  BY <1>3, ExecPlaceMoves DEF Inv, Rows
<1>5. Moves /\ [Next]_storeVars
  BY <1>1, KeepMoves DEF ExecSettles
<1>6. Scheduling'
  <2>1. reused' = reused
    BY <1>1 DEF ExecSettles
  <2> QED BY <1>4, <1>5, <2>1, SteppingIf, SchedulingOver
<1>7. boot' = "off" /\ boot = "off"
  BY <1>1, <1>2 DEF ExecSettles, Inv, Recovering
<1>8. "exec" \in Actors /\ "exec" \notin Steps /\ "boot" \in Actors /\ "exec" # "boot"
  BY ActorAssumption DEF Actors
<1>9. BootCalls'
  BY <1>1, <1>7, <1>8 DEF ExecSettles, BootCalls, Inv, Rows, ProcTypeOK
<1> QED
  BY <1>1, <1>4, <1>5, <1>6, <1>7, <1>8, <1>9, RecoveringOver, CallInv
     DEF ExecSettles, Inv, Rows, ProcTypeOK, BootPlaces

\* Undisturbed to the end, every step has succeeded; then the run does.
LEMMA ExecEndInv ==
    ASSUME Inv, ExecUndisturbed \/ ExecSucceeds
    PROVE  Inv'
<1>1. CASE ExecUndisturbed
  <2>1. /\ exec.at = "finish" /\ ~exec.failed /\ ~exec.interrupted
        /\ ExecGoes("succeed") /\ Keep /\ worker' = worker /\ interrupt' = interrupt /\ ExecOnly
    BY <1>1 DEF ExecUndisturbed, ExecAt
  <2>2. Moves /\ [Next]_storeVars
    BY <2>1, KeepMoves DEF ExecOnly
  <2>3. exec'.at = "succeed" /\ "succeed" \in ExecPlaces
    BY <2>1, ExecPlaceMoves DEF Inv, Rows, ExecPlaces
  <2>4. \A s \in Steps : stepState[s] = "succeeded"
    BY <2>1 DEF Inv, Scheduling
  <2>5. Scheduling'
    BY <2>1, <2>3, <2>4 DEF Scheduling, Keep, storeVars
  <2> QED BY <2>1, <2>2, <2>3, <2>5, ExecPlaceInv DEF Inv, Rows, ProcTypeOK
<1>2. CASE ExecSucceeds /\ CanSetRun("succeeded")
  <2>1. /\ exec.at = "succeed" /\ SetRun("succeeded") /\ ExecGoes("announce")
        /\ worker' = worker /\ interrupt' = interrupt /\ ExecOnly
    BY <1>2 DEF ExecSucceeds, ExecAt
  <2>2. task' = task /\ stepState' = stepState
    BY <2>1 DEF SetRun
  <2>3. Moves
    BY <2>1, <2>2, QuietMoves DEF ExecOnly, Inv, RemoteMoves
  <2>4. [Next]_storeVars
    BY <1>2, ExecutorTransactions DEF ExecStep
  <2>5. exec'.at = "announce" /\ "announce" \in ExecPlaces
    BY <2>1, ExecPlaceMoves DEF Inv, Rows, ExecPlaces
  <2>6. Scheduling'
    BY <2>1, <2>3, <2>4, <2>5, SteppingIf, SchedulingOver DEF ExecOnly
  <2> QED BY <2>1, <2>3, <2>4, <2>5, <2>6, ExecPlaceInv DEF Inv, Rows, ProcTypeOK
<1>3. CASE ExecSucceeds /\ ~CanSetRun("succeeded")
  <2>1. /\ exec.at = "succeed" /\ Keep /\ ExecGoes("failing")
        /\ worker' = worker /\ interrupt' = interrupt /\ ExecOnly
    BY <1>3 DEF ExecSucceeds, ExecAt
  <2>2. Moves /\ [Next]_storeVars
    BY <2>1, KeepMoves DEF ExecOnly
  <2>3. exec'.at = "failing" /\ "failing" \in ExecPlaces
    BY <2>1, ExecPlaceMoves DEF Inv, Rows, ExecPlaces
  <2>4. Scheduling'
    BY <2>1, <2>2, <2>3, SteppingIf, SchedulingOver DEF ExecOnly
  <2> QED BY <2>1, <2>2, <2>3, <2>4, ExecPlaceInv DEF Inv, Rows, ProcTypeOK
<1> QED BY <1>1, <1>2, <1>3

\* A process that takes no worker and no settler call with it.
LEMMA AsideInv ==
    ASSUME Inv, Moves, [Next]_storeVars, UNCHANGED <<worker, settler, remote, crashes, reused>>,
           interrupt' \in BOOLEAN, exec' \in ExecRec, boot' \in BootPlaces,
           user' \in {"idle", "check", "settling", "done"},
           lease' \in {"none", "held", "orphan"},
           Recovering', BootCalls', Scheduling'
    PROVE  Inv'
<1>1. Stepping
  BY SteppingIf
<1>2. ProcTypeOK'
  BY DEF Inv, Rows, ProcTypeOK, ExecRec
<1>3. Workers' /\ Settlers'
  BY <1>1, WorkerKept, SettlerKept DEF Workers, Settlers
<1> QED
  BY <1>1, <1>2, <1>3, MoneyKept, StepsSoundKept DEF Inv, Rows, Stepping

LEMMA ExecAnnouncesInv ==
    ASSUME Inv, ExecAnnounces
    PROVE  Inv'
<1>1. /\ exec.at = "announce" /\ AppendSucceeded /\ ExecGoes("off") /\ lease' = "none"
      /\ UNCHANGED <<interrupt, worker, settler, user, boot, remote, crashes, reused>>
  BY DEF ExecAnnounces, ExecAt
<1>2. task' = task /\ stepState' = stepState /\ runStatus' = runStatus
  BY <1>1 DEF AppendSucceeded
<1>3. Moves
  BY <1>1, <1>2, QuietMoves DEF Inv, RemoteMoves
<1>4. [Next]_storeVars
  BY ExecutorTransactions DEF ExecStep
<1>5. exec' \in ExecRec /\ exec'.at = "off"
  BY <1>1, ExecPlaceMoves DEF Inv, Rows, ExecPlaces
<1>6. Scheduling'
  BY <1>1, <1>3, <1>4, <1>5, SteppingIf, SchedulingOver
<1>7. boot' = "off" /\ BootCalls'
  BY <1>1 DEF Inv, Recovering, BootCalls
<1> QED
  BY <1>1, <1>3, <1>4, <1>5, <1>6, <1>7, RecoveringOver, AsideInv DEF Inv, Rows, ProcTypeOK

LEMMA ExecInv ==
    ASSUME Inv, ExecStep
    PROVE  Inv'
  BY ExecBeginInv, ExecSkipsInv, ExecTopInv, ExecJoinInv, ExecSettlesInv, ExecEndInv,
     ExecAnnouncesInv DEF ExecStep

-----------------------------------------------------------------------------
(* The interrupt route, the crash and the recovery.                        *)

LEMMA UserInv ==
    ASSUME Inv, UserInterrupts \/ UserChecks
    PROVE  Inv'
<1>1. Keep /\ UNCHANGED <<exec, worker, boot, lease, remote, crashes, reused>>
  BY DEF UserInterrupts, UserChecks
<1>2. Moves /\ [Next]_storeVars
  BY <1>1, KeepMoves
<1>3. Stepping
  BY <1>1, <1>2, SteppingIf
<1>4. Running' = Running
  BY <1>1 DEF Running, Busy
<1>5. Scheduling' /\ Recovering'
  BY <1>1, <1>3, <1>4, SchedulingKept, RecoveringKept
<1>6. exec' \in ExecRec /\ boot' \in BootPlaces /\ lease' \in {"none", "held", "orphan"}
  BY <1>1 DEF Inv, Rows, ProcTypeOK, ExecRec
<1>7. interrupt' \in BOOLEAN /\ user' \in {"idle", "check", "settling", "done"}
  BY DEF UserInterrupts, UserChecks, Registered, Inv, Rows, ProcTypeOK
<1>8. CASE settler' = settler
  <2>1. BootCalls'
    BY <1>1, <1>8 DEF Inv, BootCalls
  <2> QED BY <1>1, <1>2, <1>5, <1>6, <1>7, <1>8, <2>1, AsideInv
<1>9. CASE settler' # settler
  <2>1. /\ settler' = [settler EXCEPT !["user"] = Settling("interrupted")]
        /\ interrupt' = interrupt
    BY <1>9 DEF UserInterrupts, UserChecks
  <2>2. "user" \in Actors /\ "user" \notin Steps /\ "boot" \in Actors /\ "user" # "boot"
    BY ActorAssumption DEF Actors
  <2>3. BootCalls'
    BY <1>1, <2>1, <2>2 DEF BootCalls, Inv, Rows, ProcTypeOK
  <2> QED BY <1>1, <1>2, <1>5, <1>6, <1>7, <2>1, <2>2, <2>3, CallInv
<1> QED BY <1>8, <1>9

\* Nothing of the processes is left, and no lease is held under a live name.
LEMMA CrashInv ==
    ASSUME Inv, Crash
    PROVE  Inv'
<1>1. /\ Retire(Actors) /\ remote' = remote /\ reused' = reused
      /\ interrupt' = FALSE /\ boot' = "pending"
  BY DEF Crash
<1>2. exec' = [at |-> "off", started |-> {}, finished |-> {},
               interrupted |-> FALSE, failed |-> FALSE]
  BY DEF Crash
<1>3. /\ worker' \in [Steps -> WorkerPlaces]
      /\ \A s \in Steps : worker'[s] = "idle"
  BY DEF Crash, WorkerPlaces
<1>4. /\ settler' \in [Actors -> SettlerRec]
      /\ \A a \in Actors : settler'[a] = Idle
  <2>1. Idle \in SettlerRec
    BY DEF Idle, SettlerRec, SettlerPlaces
  <2> QED BY <2>1 DEF Crash
<1>5. Idle.at = "off" /\ Idle.seen = {} /\ Idle.cur = {}
  BY DEF Idle
<1>6. Moves /\ [Next]_storeVars
  BY <1>1, <1>3, RetireMoves, RetireIsStep DEF Inv
<1>7. Stepping
  BY <1>1, <1>6, SteppingIf
<1>8. user' \in {"idle", "check", "settling", "done"} /\ lease' \in {"none", "held", "orphan"}
  BY DEF Crash
<1>9. crashes' \in 0 .. MaxCrashes
  BY ScheduleAssumption DEF Crash, Inv, Rows, ProcTypeOK
<1>10. exec' \in ExecRec /\ exec'.at = "off"
  BY <1>2 DEF ExecRec, ExecPlaces
<1>11. ProcTypeOK'
  BY <1>1, <1>3, <1>4, <1>8, <1>9, <1>10
     DEF Inv, Rows, ProcTypeOK, SettlerRec, ExecRec, BootPlaces
<1>12. Workers' /\ Settlers'
  BY <1>3, <1>4, <1>5 DEF Workers, WorkerOK, Settlers, SettlerOK
<1>13. Recovering'
  <2>1. \A s \in Steps : task'[s].owner \in {NoOwner, Ghost}
    BY <1>1, ActorAssumption DEF Retire, Retired, Inv, Rows, TypeOK, Tasks, AnyOwner
  <2>2. \A s \in Steps : s \in Owners
    BY ActorAssumption DEF Actors
  <2> QED BY <1>3, <1>10, <2>1, <2>2, OwnerAssumption DEF Recovering, OwnsDispatch
<1>14. BootCalls'
  BY <1>4, <1>5 DEF BootCalls, Actors
<1>15. Scheduling'
  BY <1>7, <1>10, SchedulingOver
<1> QED
  BY <1>7, <1>11, <1>12, <1>13, <1>14, <1>15, MoneyKept, StepsSoundKept
     DEF Inv, Rows, Stepping

\* Recovery goes to another place and nothing else moves but rows and lease.
LEMMA BootGoesInv ==
    ASSUME Inv, Moves, [Next]_storeVars, BootOnly, UNCHANGED <<exec, settler>>,
           boot \notin {"off", "resettle", "giveup"}, boot' \in BootPlaces,
           lease' \in {"none", "held", "orphan"}
    PROVE  Inv'
<1>1. Stepping
  BY SteppingIf DEF BootOnly
<1>2. Running' = Running
  BY DEF Running, Busy, BootOnly
<1>3. Scheduling' /\ Recovering'
  BY <1>1, <1>2, SchedulingKept, RecoveringKept DEF BootOnly
<1>4. BootCalls'
  BY DEF Inv, BootCalls
<1> QED
  BY <1>3, <1>4, AsideInv DEF BootOnly, Inv, Rows, ProcTypeOK, ExecRec

\* Recovery calls the settler.
LEMMA BootCallsInv ==
    ASSUME Inv, Moves, [Next]_storeVars, BootOnly, UNCHANGED <<exec, lease>>,
           boot # "off", boot' \in {"resettle", "giveup"},
           NEW d \in {"failed", "interrupted"},
           settler' = [settler EXCEPT !["boot"] = Settling(d)]
    PROVE  Inv'
<1>1. Stepping
  BY SteppingIf DEF BootOnly
<1>2. Running' = Running
  BY DEF Running, Busy, BootOnly
<1>3. Scheduling' /\ Recovering'
  BY <1>1, <1>2, SchedulingKept, RecoveringKept DEF BootOnly
<1>4. BootCalls' /\ boot' \in BootPlaces
  BY DEF BootCalls, BootPlaces
<1>5. "boot" \in Actors /\ "boot" \notin Steps
  BY ActorAssumption DEF Actors
<1> QED
  BY <1>3, <1>4, <1>5, CallInv DEF BootOnly, Inv, Rows, ProcTypeOK, ExecRec

\* BootOnly does not move the provider's side, and Keep moves no row.
LEMMA BootKeepMoves ==
    ASSUME Inv, Keep, BootOnly
    PROVE  Moves /\ [Next]_storeVars
  BY KeepMoves DEF BootOnly

LEMMA NotifyMoves ==
    ASSUME Inv, NEW S \in SUBSET Steps, NotifyRisk(S), remote' = remote
    PROVE  Moves /\ [Next]_storeVars
<1>1. task' = task /\ stepState' = stepState /\ runStatus' = runStatus
  BY DEF NotifyRisk
<1> QED BY <1>1, QuietMoves DEF Inv, RemoteMoves, Next, RunNext

LEMMA BootPlacesInv ==
    ASSUME Inv, BootPending \/ BootScan \/ BootLostLease \/ BootAwaited \/ BootReleases
    PROVE  Inv'
<1>1. Keep /\ BootOnly /\ exec' = exec
  BY DEF BootPending, BootSettles, BootScan, BootLostLease, BootAwaited, BootReleases
<1>2. Moves /\ [Next]_storeVars
  BY <1>1, BootKeepMoves
<1>3. boot \notin {"off", "resettle", "giveup"}
  BY DEF BootPending, BootScan, BootLostLease, BootAwaited, BootReleases
<1>4. CASE BootPending /\ work.state = "settling"
  <2>1. work.desired \in {"failed", "interrupted"}
    BY DEF Inv, Rows, TypeOK, Works
  <2> QED BY <1>1, <1>2, <1>3, <1>4, <2>1, BootCallsInv DEF BootPending, BootSettles, BootGoes
<1>5. CASE ~(BootPending /\ work.state = "settling")
  <2>1. settler' = settler /\ boot' \in BootPlaces /\ lease' \in {"none", "held", "orphan"}
    BY <1>5 DEF BootPending, BootScan, BootLostLease, BootAwaited, BootReleases, BootGoes,
       BootPlaces, Inv, Rows, ProcTypeOK
  <2> QED BY <1>1, <1>2, <1>3, <2>1, BootGoesInv
<1> QED BY <1>4, <1>5

LEMMA BootAbandonsInv ==
    ASSUME Inv, BootAbandons
    PROVE  Inv'
<1>1. boot = "abandon" /\ BootOnly /\ UNCHANGED <<exec, lease>>
  BY DEF BootAbandons, BootSettles
<1>2. CASE Dispatching = {}
  <2>1. Moves /\ [Next]_storeVars
    BY <1>1, <1>2, BootKeepMoves DEF BootAbandons, BootSettles
  <2> QED BY <1>1, <1>2, <2>1, BootCallsInv DEF BootAbandons, BootSettles, BootGoes
<1>3. CASE Dispatching # {}
  <2>1. PICK s \in Dispatching :
             /\ CloseTask(s, "dispatching", "abandoned", "lost")
             /\ settler' = [settler EXCEPT !["boot"].cur = {s}]
    BY <1>3 DEF BootAbandons
  <2>2. s \in Steps /\ boot' = "abandonRisk"
    BY <1>3 DEF Dispatching, BootAbandons, BootGoes
  <2>3. Moves
    BY <1>1, <2>1, <2>2, CloseMoves DEF BootOnly, Inv
  <2>4. [Next]_storeVars
    BY <2>1, <2>2, CloseIsStep DEF Codes
  <2>5. Stepping
    BY <1>1, <2>3, <2>4, SteppingIf DEF BootOnly
  <2>6. "boot" \in Actors /\ "boot" \notin Steps
    BY ActorAssumption DEF Actors
  <2>7. settler["boot"].at = "off" /\ SettlerOK("boot")
    BY <1>1, <2>6 DEF Inv, BootCalls, Settlers
  <2>8. SettlerMoves("boot", "off", settler["boot"].seen, {s})
    BY <2>1, <2>2, <2>6, <2>7 DEF SettlerMoves, SettlerRec, Inv, Rows, ProcTypeOK
  <2>9. ProcTypeOK'
    BY <1>1, <2>2, <2>8 DEF SettlerMoves, SettlerRec, BootOnly, Inv, Rows, ProcTypeOK, BootPlaces
  <2>10. Workers'
    BY <1>1, <2>5, WorkerKept DEF BootOnly, Workers
  <2>11. SettlerOK("boot")'
    <3>1. task'[s].state # "none"
      BY <2>1, <2>2, <2>5 DEF Stepping, RowsKeep, Dispatching
    <3>2. \A p \in settler["boot"].seen : p[1] \in Steps
      BY <2>6 DEF Inv, Rows, ProcTypeOK
    <3>3. \A p \in settler["boot"].seen : task'[p[1]].state # "none"
      BY <2>5, <2>7, <3>2 DEF SettlerOK, Stepping, RowsKeep
    <3> QED BY <2>6, <2>8, <3>1, <3>3 DEF SettlerMoves, SettlerOK
  <2>12. Settlers'
    BY <1>1, <2>5, <2>8, <2>11, SettlerKept DEF BootOnly, SettlerMoves, Settlers
  <2>13. Recovering' /\ BootCalls'
    BY <1>1, <2>5, <2>8, RecoveringKept DEF BootOnly, SettlerMoves, BootCalls
  <2>14. Scheduling'
    <3>1. Running' = Running
      BY <1>1 DEF BootOnly, Running, Busy
    <3> QED BY <1>1, <2>5, <3>1, SchedulingKept
  <2> QED
    BY <2>5, <2>9, <2>10, <2>12, <2>13, <2>14, MoneyKept, StepsSoundKept
       DEF Inv, Rows, Stepping
<1> QED BY <1>2, <1>3

LEMMA BootNotifiesInv ==
    ASSUME Inv, BootNotifies
    PROVE  Inv'
<1>1. BootOnly /\ UNCHANGED <<exec, lease>> /\ boot \in {"abandonRisk", "handleRisk"}
  BY DEF BootNotifies
<1>2. MissingHandle \in SUBSET Steps /\ settler["boot"].cur \in SUBSET Steps
  BY DEF MissingHandle, Inv, Rows, ProcTypeOK, Actors
<1>3. Moves /\ [Next]_storeVars
  BY <1>1, <1>2, NotifyMoves DEF BootNotifies, BootOnly
<1>4. CASE boot = "handleRisk"
  BY <1>1, <1>3, <1>4, BootCallsInv DEF BootNotifies, BootGoes
<1>5. CASE boot # "handleRisk"
  BY <1>1, <1>3, <1>5, BootGoesInv DEF BootNotifies, BootGoes, BootPlaces, Inv, Rows, ProcTypeOK
<1> QED BY <1>4, <1>5

\* The executor it spawns finds every worker at rest.
LEMMA BootClassifiesInv ==
    ASSUME Inv, BootClassifies
    PROVE  Inv'
<1>1. boot = "classify" /\ Keep /\ BootOnly /\ lease' = lease
  BY DEF BootClassifies, BootSettles
<1>2. Moves /\ [Next]_storeVars
  BY <1>1, BootKeepMoves
<1>3. CASE exec' = exec /\ settler' = settler /\ boot' = "handleRisk"
  BY <1>1, <1>2, <1>3, BootGoesInv DEF BootPlaces, Inv, Rows, ProcTypeOK
<1>4. CASE BootSettles("giveup", "interrupted")
  BY <1>1, <1>2, <1>4, BootCallsInv DEF BootSettles, BootGoes
<1>5. CASE exec' = [exec EXCEPT !.at = "spawned"] /\ boot' = "off" /\ settler' = settler
  <2>1. ExecGoes("spawned") /\ "spawned" \in ExecPlaces
    BY <1>5 DEF ExecGoes, ExecPlaces
  <2>2. exec' \in ExecRec /\ exec'.at = "spawned"
    BY <2>1, ExecPlaceMoves DEF Inv, Rows
  <2>3. stepState' = stepState /\ runStatus' = runStatus /\ worker' = worker
    BY <1>1 DEF Keep, storeVars, BootOnly
  <2>4. Running' = {}
    BY <1>1, <2>3 DEF Inv, Recovering, Running, Busy
  <2>5. Scheduling'
    BY <2>2, <2>3, <2>4 DEF Scheduling, Inv
  <2>6. Recovering' /\ BootCalls'
    BY <1>1, <1>5 DEF Recovering, BootCalls, Inv
  <2> QED BY <1>1, <1>2, <1>5, <2>2, <2>5, <2>6, AsideInv
             DEF BootOnly, BootPlaces, Inv, Rows, ProcTypeOK
<1> QED BY <1>3, <1>4, <1>5 DEF BootClassifies, BootGoes

LEMMA BootInv ==
    ASSUME Inv, BootStep
    PROVE  Inv'
  BY BootPlacesInv, BootAbandonsInv, BootNotifiesInv, BootClassifiesInv DEF BootStep

\* Time moves rows, and the dispatch lease of a step only when its call may
\* not renew it.
LEMMA TimeInv ==
    ASSUME Inv, Time
    PROVE  Inv'
<1>1. ASSUME NEW s \in Steps, DispatchLeaseLapses(s) PROVE Inv'
  <2>1. LapseDispatch(s) /\ UNCHANGED procVars
    BY <1>1 DEF DispatchLeaseLapses
  <2>2. /\ task[s].state = "dispatching" /\ task'[s].state = "dispatching"
        /\ task'[s].owner = task[s].owner /\ task'[s].overdue = task[s].overdue
        /\ ~task'[s].lease
        /\ \A t \in Steps \ {s} : task'[t] = task[t]
        /\ stepState' = stepState /\ runStatus' = runStatus
    BY <2>1 DEF LapseDispatch, Inv, Rows, TypeOK, Tasks
  <2>3. worker' = worker /\ remote' = remote
    BY <2>1 DEF procVars
  <2>4. s \in Owners
    BY ActorAssumption DEF Actors
  <2>5. LeaseMoves(s)
    BY <1>1, <2>2, <2>3, <2>4, OwnerAssumption DEF DispatchLeaseLapses, LeaseMoves, OwnsDispatch
  <2>6. \A t \in Steps \ {s} : LeaseMoves(t)
    BY <2>2, <2>3 DEF LeaseMoves, OwnsDispatch, Inv, Rows, TypeOK, Tasks
  <2>7. Moves
    BY <2>2, <2>3, <2>5, <2>6 DEF Moves, RemoteMoves, RowMoves
  <2>8. [Next]_storeVars
    BY <2>1 DEF Next, TaskNext
  <2> QED BY <2>1, <2>7, <2>8, ProcsKept
<1>2. ASSUME NEW s \in Steps, DeadlinePasses(s) PROVE Inv'
  <2>1. LapseDeadline(s) /\ UNCHANGED procVars
    BY <1>2 DEF DeadlinePasses
  <2>2. /\ task'[s].state = task[s].state /\ task'[s].owner = task[s].owner
        /\ task'[s].lease = task[s].lease /\ task'[s].overdue
        /\ \A t \in Steps \ {s} : task'[t] = task[t]
        /\ stepState' = stepState /\ runStatus' = runStatus
    BY <2>1 DEF LapseDeadline, Inv, Rows, TypeOK, Tasks
  <2>3. worker' = worker /\ remote' = remote
    BY <2>1 DEF procVars
  <2>4. \A t \in Steps : LeaseMoves(t)
    BY <2>2, <2>3 DEF LeaseMoves, OwnsDispatch, Inv, Rows, TypeOK, Tasks
  <2>5. Moves
    BY <2>2, <2>3, <2>4 DEF Moves, RemoteMoves, RowMoves
  <2>6. [Next]_storeVars
    BY <2>1 DEF Next, TaskNext
  <2> QED BY <2>1, <2>5, <2>6, ProcsKept
<1>3. CASE WorkLeaseLapses
  <2>1. LapseWork /\ UNCHANGED procVars
    BY <1>3 DEF WorkLeaseLapses
  <2>2. task' = task /\ stepState' = stepState /\ runStatus' = runStatus /\ remote' = remote
    BY <2>1 DEF LapseWork, procVars
  <2>3. Moves /\ [Next]_storeVars
    BY <2>1, <2>2, QuietMoves DEF Inv, RemoteMoves, Next, RunNext
  <2> QED BY <2>1, <2>3, ProcsKept
<1>4. CASE RecoveryLeaseLapses
  <2>1. Keep /\ UNCHANGED <<exec, worker, settler, user, boot, remote, crashes, reused>>
    BY <1>4 DEF RecoveryLeaseLapses
  <2>2. Moves /\ [Next]_storeVars
    BY <2>1, KeepMoves
  <2>3. Stepping
    BY <2>1, <2>2, SteppingIf
  <2>4. Running' = Running
    BY <2>1 DEF Running, Busy
  <2>5. Scheduling' /\ Recovering' /\ BootCalls'
    BY <2>1, <2>3, <2>4, SchedulingKept, RecoveringKept DEF Inv, BootCalls
  <2>6. interrupt' \in BOOLEAN /\ lease' = "none"
    BY <1>4 DEF RecoveryLeaseLapses, Registered, Inv, Rows, ProcTypeOK
  <2> QED BY <2>1, <2>2, <2>5, <2>6, AsideInv DEF Inv, Rows, ProcTypeOK, ExecRec
<1> QED BY <1>1, <1>2, <1>3, <1>4 DEF Time

-----------------------------------------------------------------------------
LEMMA SettleInitInv ==
    ASSUME SettleInit
    PROVE  Inv
<1>1. Init
  BY DEF SettleInit
<1>2. TypeOK /\ ChargedIffReported
  BY <1>1 DEF Init, TypeOK, Tasks, Works, NoTask, NoWork, Statuses, Active, StepStates,
     AnyOwner, Codes, InFlight, TaskTerminal, StepTerminal, Terminal, ChargedIffReported
<1>3. Idle \in SettlerRec /\ Idle.at = "off" /\ Idle.seen = {} /\ Idle.cur = {}
  BY DEF Idle, SettlerRec, SettlerPlaces
<1>4. exec \in ExecRec /\ exec.at = "start"
  BY DEF SettleInit, ExecRec, ExecPlaces
<1>5. ProcTypeOK
  <2>1. settler \in [Actors -> SettlerRec] /\ worker \in [Steps -> WorkerPlaces]
    BY <1>3 DEF SettleInit, WorkerPlaces
  <2>2. crashes \in 0 .. MaxCrashes /\ boot \in BootPlaces /\ interrupt \in BOOLEAN
    <3>1. crashes = 0 /\ boot = "off" /\ interrupt = FALSE
      BY DEF SettleInit
    <3>2. MaxCrashes \in Nat
      BY ScheduleAssumption
    <3>3. 0 \in 0 .. MaxCrashes
      BY <3>2
    <3> QED BY <3>1, <3>3 DEF BootPlaces
  <2>3. /\ user \in {"idle", "check", "settling", "done"} /\ lease \in {"none", "held", "orphan"}
        /\ remote \in [Steps -> {"none", "live", "done", "failed", "cancelled"}]
    BY DEF SettleInit
  <2>4. reused \subseteq Steps
    BY DEF SettleInit
  <2> QED BY <1>4, <2>1, <2>2, <2>3, <2>4 DEF ProcTypeOK, ExecRec, SettlerRec
<1>6. \A s \in Steps :
         /\ task[s].state = "none" /\ remote[s] = "none" /\ s \notin ledger
         /\ stepState[s] = "queued" /\ worker[s] = "idle"
  BY <1>1 DEF SettleInit, Init, NoTask
<1>7. Money /\ Workers /\ StepsSound
  BY <1>6 DEF Money, Workers, WorkerOK, StepsSound
<1>8. \A a \in Actors : settler[a] = Idle
  BY DEF SettleInit
<1>9. Settlers /\ BootCalls /\ Recovering
  BY <1>3, <1>8 DEF Settlers, SettlerOK, BootCalls, Recovering, Actors, SettleInit
<1>10. Scheduling
  <2>1. Running = {} /\ runStatus = "running"
    BY <1>1, <1>6 DEF Running, Busy, Init
  <2> QED BY <1>4, <2>1 DEF Scheduling
<1> QED BY <1>2, <1>5, <1>7, <1>9, <1>10 DEF Inv, Rows

LEMMA SettleStepInv ==
    ASSUME Inv, [SettleNext]_vars
    PROVE  Inv'
<1>1. CASE UNCHANGED vars
  <2>1. Keep /\ UNCHANGED procVars
    BY <1>1 DEF vars, Keep
  <2>2. remote' = remote
    BY <2>1 DEF procVars
  <2> QED BY <2>1, <2>2, KeepMoves, ProcsKept
<1>2. CASE SettleNext
  BY <1>2, ExecInv, WorkerInv, RemoteInv, SettlerInv, UserInv, CrashInv, BootInv, TimeInv
     DEF SettleNext
<1> QED BY <1>1, <1>2

LEMMA SettlementInvariant == SettleSpec => []Inv
<1>1. SettleInit => Inv
  BY SettleInitInv
<1>2. Inv /\ [SettleNext]_vars => Inv'
  BY SettleStepInv
<1> QED BY <1>1, <1>2, PTL DEF SettleSpec

(* Executor, workers, settlers, recovery and clock touch the rows only      *)
(* through the store's transactions: what RunStoreProofs shows of any       *)
(* caller holds of these (crates/run against crates/store).                 *)
THEOREM StoreImplemented == SettleSpec => StoreSpec
<1>1. SettleInit => Init
  BY DEF SettleInit
<1>2. Inv /\ [SettleNext]_vars => [Next]_storeVars
  BY SettlementTransactions DEF Inv
<1> QED BY <1>1, <1>2, SettlementInvariant, PTL DEF SettleSpec, StoreSpec, Spec

(* A charge, a cancelled task and a refused one say the truth about the     *)
(* provider, whoever closed the row and whatever crashed between the remote *)
(* call and its transaction (dispatch, cancel_durable, spool).              *)
THEOREM RowsAreTruthful == SettleSpec => []RowsTellTheTruth
<1>1. Inv => RowsTellTheTruth
  BY DEF Inv, Rows, Money, RowsTellTheTruth
<1> QED BY <1>1, SettlementInvariant, PTL

(* A run is recorded as succeeded only with every step of its plan          *)
(* succeeded, and each of those out of the cache or closed and charged      *)
(* (execute_created_run_inner reads its flag before it awaits               *)
(* update_run_status, recovery starts from the rows, and a resumed step     *)
(* may still be finished by a cached result).                               *)
THEOREM SuccessIsComplete == SettleSpec => []SucceededRunIsComplete
<1>1. Inv => SucceededRunIsComplete
  BY DEF Inv, Scheduling, StepsSound, SucceededRunIsComplete
<1> QED BY <1>1, SettlementInvariant, PTL

-----------------------------------------------------------------------------
(* What a step may never do.                                               *)

\* Only a worker that has just inserted its task row begins to dispatch.
LEMMA DispatchBegins ==
    ASSUME Inv, [SettleNext]_vars, NEW s \in Steps,
           worker[s] # "dispatch", worker'[s] = "dispatch"
    PROVE  task[s].state = "none"
<1> USE DEF Inv, Rows, ProcTypeOK
<1>1. ASSUME NEW a \in Actors, SettleStep(a) PROVE FALSE
  BY <1>1 DEF SettleStep, SettleRequest, SettleClaim, SettleNotNeeded, SettleRenew,
     SettleLostLease, SettleScan, SettleCancel, SettleClose, SettleNotify, SettleScanned,
     SettleComplete, SettleReturn, SettlerOnly, Return
<1>2. ASSUME NEW t \in Steps, StepStep(t) PROVE task[s].state = "none"
  <2>1. CASE StepInsert(t)
    BY <2>1 DEF StepInsert, WorkerGoes
  <2>2. CASE ~StepInsert(t)
    BY <1>2, <2>2 DEF StepStep, StepReuses, StepBegin, StepRenew, DispatchAccepted, DispatchCompleted,
       DispatchRefused, DispatchUnknown, StepNotify, StepSettle, StepActivated, WorkerSettles,
       PollStops, PollAnswered, PollOverdue, CloseOverdue, StepSpool, StepFailFinal,
       Materialize, Publish, StepPublished, WorkerGoes, procVars
  <2> QED BY <2>1, <2>2
<1>3. ASSUME NEW t \in Steps, RemoteAccepts(t) \/ RemoteFinishes(t) PROVE FALSE
  BY <1>3 DEF RemoteAccepts, RemoteFinishes
<1>4. CASE ExecStep
  BY <1>4, ZenonT(40) DEF ExecStep, ExecRegister, ExecStart, ExecSkips, ExecTop, ExecJoin,
     ExecSettleFailed, ExecSettleInterrupted, ExecFailing, ExecSettles, ExecUndisturbed,
     ExecSucceeds, ExecAnnounces, ExecErrs
<1>5. CASE UserInterrupts \/ UserChecks \/ Crash \/ Time \/ UNCHANGED vars
  BY <1>5 DEF UserInterrupts, UserChecks, Crash, Time, DispatchLeaseLapses, DeadlinePasses,
     WorkLeaseLapses, RecoveryLeaseLapses, vars, procVars
<1>6. CASE BootStep
  BY <1>6 DEF BootStep, BootPending, BootScan, BootLostLease, BootAwaited, BootAbandons,
     BootNotifies, BootClassifies, BootReleases, BootSettles, BootOnly
<1> QED BY <1>1, <1>2, <1>3, <1>4, <1>5, <1>6 DEF SettleNext

(* A request the provider may already have is never sent again, whatever    *)
(* crash, recovery or unknown answer lies between (insert_or_read_provider_ *)
(* task and the match on the row's state).                                  *)
THEOREM NothingIsResubmitted == SettleSpec => NeverResubmits
<1> DEFINE Once == \A s \in Steps :
             worker[s] # "dispatch" /\ worker'[s] = "dispatch" => remote[s] = "none"
<1>1. Inv /\ [SettleNext]_vars => Once
  BY DispatchBegins DEF Inv, Money
<1>2. Inv /\ [SettleNext]_vars => [Once]_vars
  BY <1>1
<1> QED BY <1>2, SettlementInvariant, PTL DEF SettleSpec, NeverResubmits

\* Only the top of the executor's loop gives a step to a worker.
LEMMA WorkBegins ==
    ASSUME Inv, [SettleNext]_vars, NEW s \in Steps, worker[s] = "idle", worker'[s] = "begin"
    PROVE  ExecTop
<1> USE DEF Inv, Rows, ProcTypeOK
<1>1. ASSUME NEW a \in Actors, SettleStep(a) PROVE FALSE
  BY <1>1 DEF SettleStep, SettleRequest, SettleClaim, SettleNotNeeded, SettleRenew,
     SettleLostLease, SettleScan, SettleCancel, SettleClose, SettleNotify, SettleScanned,
     SettleComplete, SettleReturn, SettlerOnly, Return
<1>2. ASSUME NEW t \in Steps, StepStep(t) PROVE FALSE
  BY <1>2 DEF StepStep, StepReuses, StepBegin, StepInsert, StepRenew, DispatchAccepted,
     DispatchCompleted,
     DispatchRefused, DispatchUnknown, StepNotify, StepSettle, StepActivated, WorkerSettles,
     PollStops, PollAnswered, PollOverdue, CloseOverdue, StepSpool, StepFailFinal,
     Materialize, Publish, StepPublished, WorkerGoes, procVars
<1>3. ASSUME NEW t \in Steps, RemoteAccepts(t) \/ RemoteFinishes(t) PROVE FALSE
  BY <1>3 DEF RemoteAccepts, RemoteFinishes
<1>4. CASE ExecStep
  BY <1>4 DEF ExecStep, ExecRegister, ExecStart, ExecSkips, ExecJoin,
     ExecSettleFailed, ExecSettleInterrupted, ExecFailing, ExecSettles, ExecUndisturbed,
     ExecSucceeds, ExecAnnounces, ExecErrs
<1>5. CASE UserInterrupts \/ UserChecks \/ Crash \/ Time \/ UNCHANGED vars
  BY <1>5 DEF UserInterrupts, UserChecks, Crash, Time, DispatchLeaseLapses, DeadlinePasses,
     WorkLeaseLapses, RecoveryLeaseLapses, vars, procVars
<1>6. CASE BootStep
  BY <1>6 DEF BootStep, BootPending, BootScan, BootLostLease, BootAwaited, BootAbandons,
     BootNotifies, BootClassifies, BootReleases, BootSettles, BootOnly
<1> QED BY <1>1, <1>2, <1>3, <1>4, <1>5, <1>6 DEF SettleNext

\* What it gives away has its inputs: nothing failed, so what is joined succeeded.
LEMMA TopIsReady ==
    ASSUME Inv, ExecTop, NEW s \in Steps, worker[s] = "idle", worker'[s] = "begin",
           NEW d \in Deps[s]
    PROVE  stepState[d] = "succeeded"
<1>1. exec.at = "top"
  BY DEF ExecTop, ExecAt
<1>2. ~Stopping /\ s \in Ready
  BY DEF ExecTop
<1>3. d \in exec.finished /\ ~exec.failed /\ ~exec.interrupted
  BY <1>2 DEF Ready, Stopping
<1> QED BY <1>1, <1>3 DEF Inv, Scheduling

(* A step is only given to a worker when what it reads from has succeeded,  *)
(* also after a restart (the ready set of execute_created_run_inner).       *)
THEOREM StepsFindTheirInputs == SettleSpec => InputsAreReady
<1> DEFINE Ready1 == \A s \in Steps : WorkerAt(s, "idle") /\ worker'[s] = "begin" =>
                        \A d \in Deps[s] : stepState[d] = "succeeded"
<1>1. Inv /\ [SettleNext]_vars => Ready1
  BY WorkBegins, TopIsReady DEF WorkerAt
<1>2. Inv /\ [SettleNext]_vars => [Ready1]_vars
  BY <1>1
<1> QED BY <1>2, SettlementInvariant, PTL DEF SettleSpec, InputsAreReady

\* A dispatching task is abandoned by a settler or recovery that found its
\* owner's lease lapsed, or by the owner itself as unknown.
LEMMA Abandoning ==
    ASSUME Inv, [SettleNext]_vars, ~Stalls, NEW s \in Steps,
           OwnsDispatch(s, s), task[s].lease, task'[s].state = "abandoned"
    PROVE  task'[s].code = "unknown"
<1> USE DEF Keep, storeVars
<1>1. task[s].state = "dispatching" /\ task' # task
  BY DEF OwnsDispatch
<1>2. ASSUME NEW t \in Steps, NEW from, NEW to, NEW code, CloseTask(t, from, to, code)
      PROVE  s = t /\ from = "dispatching" /\ to = "abandoned"
  BY <1>1, <1>2 DEF CloseTask, Inv, Rows, TypeOK, Tasks
<1>3. ASSUME NEW t \in Steps, NEW from, NEW to, NEW code, NEW d,
             Fails(t, from, to, code, d)
      PROVE  s = t /\ from = "dispatching" /\ to = "abandoned" /\ task'[s].code = code
  <2>1. FinalizeFailure(t, from, to, code, d) /\ task[t].state # to
    BY <1>1, <1>3 DEF Fails, FinalizeFailure
  <2>2. task[t].state = from
    BY <2>1 DEF FinalizeFailure, CanFinalizeFailure
  <2>3. /\ task'[t].state = to /\ task'[t].code = code
        /\ \A u \in Steps \ {t} : task'[u] = task[u]
    BY <2>1 DEF FinalizeFailure, Inv, Rows, TypeOK, Tasks
  <2> QED BY <1>1, <2>2, <2>3
<1>4. ASSUME NEW O \in SUBSET Actors, Retire(O) PROVE FALSE
  BY <1>1, <1>4 DEF Retire, Retired, Inv, Rows, TypeOK, Tasks
<1>5. ASSUME NEW a \in Actors, SettleStep(a) PROVE FALSE
  <2>1. SettlerOK(a) /\ settler[a].cur \subseteq Steps /\ \A p \in settler[a].seen : p[1] \in Steps
    BY DEF Inv, Settlers, Rows, ProcTypeOK
  <2>2. CASE SettleClose(a)
    BY <1>1, <1>2, <2>1, <2>2 DEF SettleClose, SettlerAt, SettlerOK
  <2>3. CASE SettleScan(a)
    BY <1>1, <1>2, <2>1, <2>3 DEF SettleScan, ScanActive, ScanDispatching, ScanResultReady
  <2>4. CASE SettleNotNeeded(a) \/ SettleLostLease(a) \/ SettleReturn(a)
    BY <1>4, <2>4 DEF SettleNotNeeded, SettleLostLease, SettleReturn, Return
  <2>5. CASE ~(SettleClose(a) \/ SettleScan(a) \/ SettleNotNeeded(a) \/ SettleLostLease(a)
               \/ SettleReturn(a))
    BY <1>1, <1>5, <2>5 DEF SettleStep, SettleRequest, RequestWork, SettleClaim, ClaimWork,
       SettleRenew, SettleCancel, SettleNotify, NotifyRisk, SettleScanned, SettleComplete,
       CompleteWork
  <2> QED BY <2>2, <2>3, <2>4, <2>5
<1>6. ASSUME NEW t \in Steps, StepStep(t) PROVE task'[s].code = "unknown"
  <2>1. CASE DispatchUnknown(t)
    BY <1>3, <2>1 DEF DispatchUnknown
  <2>2. CASE DispatchRefused(t) \/ CloseOverdue(t)
    BY <1>1, <1>2, <1>3, <2>2 DEF DispatchRefused, CloseOverdue
  <2>3. CASE StepFailFinal(t) \/ Materialize(t)
    BY <1>1, <1>3, <2>3 DEF StepFailFinal, Materialize
  <2>4. CASE Publish(t)
    <3>1. ~FinalizeSuccess(t)
      BY <1>1 DEF FinalizeSuccess, Inv, Rows, TypeOK, Tasks
    <3> QED BY <1>1, <1>3, <2>4, <3>1 DEF Publish
  <2>5. CASE StepInsert(t) \/ StepRenew(t) \/ DispatchAccepted(t) \/ StepSpool(t)
    <3>1. \A o : InsertTask(t, o) => FALSE
      BY <1>1 DEF InsertTask, NoTask, Inv, Rows, TypeOK, Tasks
    <3>2. \A o : RenewDispatch(t, o) => FALSE
      BY <1>1 DEF RenewDispatch, Inv, Rows, TypeOK, Tasks
    <3>3. \A o : Activate(t, o) => FALSE
      BY <1>1 DEF Activate, Inv, Rows, TypeOK, Tasks
    <3>4. \A o : ResultReady(t, o) => FALSE
      BY <1>1 DEF ResultReady, Inv, Rows, TypeOK, Tasks
    <3> QED
      BY <1>1, <2>5, <3>1, <3>2, <3>3, <3>4 DEF StepInsert, StepRenew, DispatchAccepted, StepSpool
  <2>6. CASE StepReuses(t) \/ StepBegin(t) \/ DispatchCompleted(t) \/ StepNotify(t) \/ StepSettle(t)
             \/ StepActivated(t) \/ PollStops(t) \/ PollAnswered(t) \/ PollOverdue(t)
             \/ StepPublished(t)
    BY <1>1, <2>6 DEF StepReuses, FinalizeReuse, StepBegin, SetStep, DispatchCompleted, StepNotify, NotifyRisk, StepSettle,
       StepActivated, WorkerSettles, PollStops, PollAnswered, PollOverdue, StepPublished
  <2> QED BY <1>6, <2>1, <2>2, <2>3, <2>4, <2>5, <2>6 DEF StepStep
<1>7. ASSUME NEW t \in Steps, RemoteAccepts(t) \/ RemoteFinishes(t) PROVE FALSE
  BY <1>1, <1>7 DEF RemoteAccepts, RemoteFinishes
<1>8. ExecErrs => FALSE
  BY <1>4 DEF ExecErrs, Actors
<1>9. CASE ExecStep
  BY <1>1, <1>8, <1>9 DEF ExecStep, ExecRegister, ExecStart, ExecSkips, ExecTop, ExecJoin,
     ExecSettleFailed, ExecSettleInterrupted, ExecFailing, ExecSettles, ExecUndisturbed,
     ExecSucceeds, ExecAnnounces, SetRun, SetStep, AppendSucceeded
<1>10. CASE UserInterrupts \/ UserChecks \/ Crash \/ UNCHANGED vars
  BY <1>1, <1>4, <1>10 DEF UserInterrupts, UserChecks, Crash, vars
<1>11. CASE Time
  BY <1>1, <1>11 DEF Time, DispatchLeaseLapses, DeadlinePasses, WorkLeaseLapses,
     RecoveryLeaseLapses, LapseDispatch, LapseDeadline, LapseWork, Inv, Rows, TypeOK, Tasks
<1>12. CASE BootStep
  <2>1. boot # "off"
    BY <1>12 DEF BootStep, BootPending, BootScan, BootLostLease, BootAwaited, BootAbandons,
       BootNotifies, BootClassifies, BootReleases
  <2> QED BY <2>1 DEF Inv, Recovering
<1> QED BY <1>5, <1>6, <1>7, <1>9, <1>10, <1>11, <1>12 DEF SettleNext

(* As long as no live process is paused past its leases nobody declares a   *)
(* dispatch owner that renews its lease stopped or lost: settler and        *)
(* recovery wait for it (dispatch_owner_live, wait_for_dispatch_owners).    *)
THEOREM LiveOwnersAreWaitedFor == ~Stalls => (SettleSpec => LiveOwnerIsWaitedFor)
<1> DEFINE Waited == \A s \in Steps :
             /\ OwnsDispatch(s, s) /\ task[s].lease
             /\ task'[s].state = "abandoned"
             => task'[s].code = "unknown"
<1> DEFINE Unpaused == Inv /\ ~Stalls
<1>1. ~Stalls /\ SettleInit => Unpaused
  BY SettleInitInv
<1>2. Unpaused /\ [SettleNext]_vars => Unpaused'
  BY SettleStepInv
<1>3. Unpaused /\ [SettleNext]_vars => [Waited]_vars
  BY Abandoning
<1> QED BY <1>1, <1>2, <1>3, PTL DEF SettleSpec, LiveOwnerIsWaitedFor

(* What the store promises of any caller it promises of the processes: no   *)
(* second charge, no reopened run, no late retry (RunLifecycle).            *)
THEOREM SettlementKeepsPromise == SettleSpec => Promise
  BY StoreImplemented, ImplementsLifecycle DEF StoreSpec
=============================================================================
