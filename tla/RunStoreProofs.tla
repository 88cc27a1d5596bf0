--------------------------- MODULE RunStoreProofs ---------------------------
(***************************************************************************)
(* What RunStore's transactions preserve for every set of steps and of     *)
(* lease owners.                                                           *)
(***************************************************************************)
EXTENDS RunStore, TLAPS

-----------------------------------------------------------------------------
(* Lemmas on the rows.                                                     *)

\* The upsert of request_run_terminalization keeps the work item well-typed.
LEMMA RequestedType ==
    ASSUME work \in Works, NEW d \in {"failed", "interrupted"}
    PROVE  Requested(d) \in Works
  BY DEF Requested, Works, NoWork, AnyOwner

-----------------------------------------------------------------------------
\* One transaction writes only values the columns may hold.
LEMMA TypeStep ==
    ASSUME TypeOK, [Next]_storeVars
    PROVE  TypeOK'
<1> USE DEF TypeOK
<1>1. ASSUME NEW s \in Steps, NEW o \in Owners, InsertTask(s, o) PROVE TypeOK'
  BY <1>1 DEF InsertTask, Tasks, NoTask, AnyOwner, InFlight, Codes
<1>2. ASSUME NEW s \in Steps, NEW o \in Owners, RenewDispatch(s, o) PROVE TypeOK'
  BY <1>2 DEF RenewDispatch, Tasks
<1>3. ASSUME NEW s \in Steps, NEW o \in Owners, Activate(s, o) PROVE TypeOK'
  BY <1>3 DEF Activate, Tasks, InFlight
<1>4. ASSUME NEW s \in Steps, NEW o \in Owners, ResultReady(s, o) PROVE TypeOK'
  BY <1>4 DEF ResultReady, Tasks, InFlight
<1>5. ASSUME NEW s \in Steps, NEW c \in Closings, NEW code \in Codes,
             CloseTask(s, c[1], c[2], code)
      PROVE  TypeOK'
  BY <1>5 DEF CloseTask, Tasks, InFlight, TaskTerminal, Closings
<1>6. ASSUME NEW s \in Steps, NEW c \in Closings, NEW code \in Codes,
             NEW d \in {"failed", "interrupted"},
             FinalizeFailure(s, c[1], c[2], code, d)
      PROVE  TypeOK'
  BY <1>6, RequestedType, ZenonT(40) DEF FinalizeFailure, Tasks, InFlight, TaskTerminal, Closings,
       AnyOwner, StepStates, StepTerminal
<1>7. ASSUME NEW s \in Steps, FinalizeSuccess(s) PROVE TypeOK'
  BY <1>7, ZenonT(40) DEF FinalizeSuccess, Tasks, InFlight, TaskTerminal, AnyOwner, StepStates, StepTerminal
<1>8. ASSUME NEW s \in Steps, NEW st \in StepStates, SetStep(s, st) PROVE TypeOK'
  BY <1>8 DEF SetStep
<1>9. ASSUME NEW s \in Steps, LapseDispatch(s) PROVE TypeOK'
  BY <1>9 DEF LapseDispatch, Tasks
<1>19. ASSUME NEW s \in Steps, LapseDeadline(s) PROVE TypeOK'
  BY <1>19 DEF LapseDeadline, Tasks
<1>20. ASSUME NEW s \in Steps, FinalizeReuse(s) PROVE TypeOK'
  BY <1>20 DEF FinalizeReuse, StepStates, StepTerminal
<1>10. ASSUME NEW d \in {"failed", "interrupted"}, RequestWork(d) PROVE TypeOK'
  BY <1>10, RequestedType DEF RequestWork
<1>11. ASSUME NEW o \in Owners, ClaimWork(o) PROVE TypeOK'
  BY <1>11 DEF ClaimWork, Works, AnyOwner
<1>12. ASSUME NEW o \in Owners, CompleteWork(o) PROVE TypeOK'
  BY <1>12 DEF CompleteWork, Works, StepStates, StepTerminal, Statuses, Terminal
<1>13. ASSUME NEW st \in Statuses, SetRun(st) PROVE TypeOK'
  BY <1>13 DEF SetRun
<1>14. ASSUME NEW S \in SUBSET Steps, NotifyRisk(S) PROVE TypeOK'
  BY <1>14 DEF NotifyRisk
<1>15. CASE AppendSucceeded
  BY <1>15 DEF AppendSucceeded, Terminal
<1>16. CASE LapseWork
  BY <1>16 DEF LapseWork, Works
<1>17. ASSUME NEW O \in SUBSET Owners, Retire(O) PROVE TypeOK'
  BY <1>17 DEF Retire, Retired, Tasks, Works, AnyOwner
<1>18. CASE UNCHANGED storeVars
  BY <1>18 DEF storeVars
<1> QED
  BY <1>1, <1>2, <1>3, <1>4, <1>5, <1>6, <1>7, <1>8, <1>9, <1>10, <1>11, <1>12,
     <1>13, <1>14, <1>15, <1>16, <1>17, <1>18, <1>19, <1>20
  DEF Next, RunNext, TaskNext

(* Every reachable database state is well-typed: each transaction writes   *)
(* only values its columns may hold (the CHECK constraints of the schema). *)
THEOREM TypeCorrect == Spec => []TypeOK
<1>1. Init => TypeOK
  BY DEF Init, TypeOK, Tasks, Works, NoTask, NoWork, Statuses, Active, StepStates,
         AnyOwner, Codes, InFlight, TaskTerminal, StepTerminal, Terminal
<1>2. TypeOK /\ [Next]_storeVars => TypeOK'
  BY TypeStep
<1> QED
  BY <1>1, <1>2, PTL DEF Spec

-----------------------------------------------------------------------------
(* How one transaction can change the parts of the rows that the invariants *)
(* speak of.                                                               *)

SameTaskStates == \A s \in Steps : task'[s].state = task[s].state

\* Task s goes from state from to state to; no other task moves.
TaskMoves(s, from, to) ==
    /\ task[s].state = from /\ task'[s].state = to
    /\ \A t \in Steps \ {s} : task'[t].state = task[t].state

TaskStep ==
    \/ SameTaskStates /\ ledger' = ledger
    \/ \E s \in Steps :
          /\ TaskMoves(s, "none", "dispatching") \/ TaskMoves(s, "dispatching", "active")
          /\ ledger' = ledger
    \/ \E s \in Steps :
          /\ \E from \in {"dispatching", "active"} : TaskMoves(s, from, "result_ready")
          /\ ledger' = ledger \cup {s}
    \/ \E s \in Steps, c \in Closings : TaskMoves(s, c[1], c[2]) /\ ledger' = ledger

\* Every transaction moves at most one task, along the allowed pairs.
LEMMA TaskSteps ==
    ASSUME TypeOK, [Next]_storeVars
    PROVE  TaskStep
<1> USE DEF TypeOK
<1>1. ASSUME NEW s \in Steps, NEW o \in Owners, InsertTask(s, o) PROVE TaskStep
  BY <1>1 DEF InsertTask, NoTask, TaskStep, TaskMoves
<1>2. ASSUME NEW s \in Steps, NEW o \in Owners, RenewDispatch(s, o) PROVE TaskStep
  BY <1>2 DEF RenewDispatch, TaskStep, SameTaskStates, Tasks
<1>3. ASSUME NEW s \in Steps, NEW o \in Owners, Activate(s, o) PROVE TaskStep
  BY <1>3 DEF Activate, OwnsDispatch, TaskStep, TaskMoves, Tasks
<1>4. ASSUME NEW s \in Steps, NEW o \in Owners, ResultReady(s, o) PROVE TaskStep
  BY <1>4 DEF ResultReady, CanResultReady, OwnsDispatch, TaskStep, TaskMoves, Tasks
<1>5. ASSUME NEW s \in Steps, NEW c \in Closings, NEW code \in Codes,
             CloseTask(s, c[1], c[2], code)
      PROVE  TaskStep
  BY <1>5 DEF CloseTask, TaskStep, TaskMoves, Tasks
<1>6. ASSUME NEW s \in Steps, NEW c \in Closings, NEW code \in Codes,
             NEW d \in {"failed", "interrupted"}, FinalizeFailure(s, c[1], c[2], code, d)
      PROVE  TaskStep
  <2>1. CASE task[s].state = c[2]
    BY <1>6, <2>1 DEF FinalizeFailure, TaskStep, SameTaskStates
  <2>2. CASE task[s].state # c[2]
    BY <1>6, <2>2 DEF FinalizeFailure, CanFinalizeFailure, TaskStep, TaskMoves, Tasks
  <2> QED
    BY <2>1, <2>2
<1>7. ASSUME NEW s \in Steps, FinalizeSuccess(s) PROVE TaskStep
  <2>1. CASE task[s].state = "result_ready"
    <3>1. TaskMoves(s, "result_ready", "completed") /\ ledger' = ledger
      BY <1>7, <2>1 DEF FinalizeSuccess, TaskMoves, Tasks
    <3>2. <<"result_ready", "completed">> \in Closings
      BY DEF Closings
    <3> QED
      BY <3>1, <3>2 DEF TaskStep
  <2>2. CASE task[s].state # "result_ready"
    BY <1>7, <2>2 DEF FinalizeSuccess, TaskStep, SameTaskStates
  <2> QED
    BY <2>1, <2>2
<1>8. ASSUME NEW s \in Steps, LapseDispatch(s) PROVE TaskStep
  BY <1>8 DEF LapseDispatch, TaskStep, SameTaskStates, Tasks
<1>9. ASSUME NEW s \in Steps, LapseDeadline(s) PROVE TaskStep
  BY <1>9 DEF LapseDeadline, TaskStep, SameTaskStates, Tasks
<1>10. ASSUME NEW O \in SUBSET Owners, Retire(O) PROVE TaskStep
  BY <1>10 DEF Retire, Retired, TaskStep, SameTaskStates, Tasks
<1>11. ASSUME task' = task, ledger' = ledger PROVE TaskStep
  BY <1>11 DEF TaskStep, SameTaskStates
<1>12. ASSUME NEW s \in Steps, NEW st \in StepStates, SetStep(s, st) PROVE TaskStep
  BY <1>11, <1>12 DEF SetStep
<1>15. ASSUME NEW s \in Steps, FinalizeReuse(s) PROVE TaskStep
  BY <1>11, <1>15 DEF FinalizeReuse
<1>13. CASE RunNext /\ ~ \E O \in SUBSET Owners : Retire(O)
  BY <1>11, <1>13 DEF RunNext, RequestWork, ClaimWork, CompleteWork, SetRun, NotifyRisk,
     AppendSucceeded, LapseWork
<1>14. CASE UNCHANGED storeVars
  BY <1>11, <1>14 DEF storeVars
<1> QED
  BY <1>1, <1>2, <1>3, <1>4, <1>5, <1>6, <1>7, <1>8, <1>9, <1>10, <1>12, <1>13, <1>14,
     <1>15 DEF Next, TaskNext

-----------------------------------------------------------------------------
\* One transaction keeps the charges and the task rows in agreement.
LEMMA ChargedStep ==
    ASSUME TypeOK, ChargedIffReported, [Next]_storeVars
    PROVE  ChargedIffReported'
<1>1. TaskStep
  BY TaskSteps
<1> QED
  BY <1>1 DEF TaskStep, SameTaskStates, TaskMoves, Closings, ChargedIffReported

(* Provider tasks and money: a step has an actual cost in the ledger        *)
(* exactly when its provider reported a result, whichever of the closers    *)
(* (settler, worker, recovery) gets to its task row first.                  *)
THEOREM ChargedCorrect == Spec => []ChargedIffReported
<1>1. Init => ChargedIffReported
  BY DEF Init, ChargedIffReported, NoTask
<1>2. TypeOK /\ ChargedIffReported /\ [Next]_storeVars => ChargedIffReported'
  BY ChargedStep
<1> QED
  BY <1>1, <1>2, TypeCorrect, PTL DEF Spec

-----------------------------------------------------------------------------
(* The run, its steps and its work item.  CompleteWork changes all of them  *)
(* at once; every other transaction leaves what is terminal alone and can   *)
(* only open the work item or turn it to interrupted.                       *)

WorkKeeps ==
    \/ work'.state = work.state /\ work'.desired = work.desired
    \/ work.state = "none" /\ work'.state = "settling"
    \/ work.state = "settling" /\ work'.state = "settling" /\ work'.desired = "interrupted"

StepsKeep == \A s \in Steps : stepState[s] \in StepTerminal => stepState'[s] = stepState[s]

RunKeeps ==
    /\ WorkKeeps /\ StepsKeep
    /\ runStatus \in Terminal => runStatus' = runStatus
    /\ continuation' = continuation
    /\ endEvents \subseteq endEvents'

\* The upsert only opens a work item or turns it to interrupted.
LEMMA RequestKeeps ==
    ASSUME TypeOK, NEW d \in {"failed", "interrupted"}, work' = Requested(d)
    PROVE  WorkKeeps
  BY DEF TypeOK, Works, NoWork, Requested, WorkKeeps

\* Every transaction other than CompleteWork keeps what is terminal.
LEMMA RunSteps ==
    ASSUME TypeOK, [Next]_storeVars
    PROVE  RunKeeps \/ \E o \in Owners : CompleteWork(o)
<1> USE DEF TypeOK
<1>1. ASSUME UNCHANGED <<runStatus, stepState, work, continuation, endEvents>> PROVE RunKeeps
  BY <1>1 DEF RunKeeps, WorkKeeps, StepsKeep
<1>2. ASSUME NEW s \in Steps, TaskNext(s) PROVE RunKeeps
  <2>1. CASE \E o \in Owners : \/ InsertTask(s, o) \/ RenewDispatch(s, o)
                               \/ Activate(s, o)   \/ ResultReady(s, o)
    BY <1>1, <2>1 DEF InsertTask, RenewDispatch, Activate, ResultReady
  <2>2. ASSUME NEW c \in Closings, NEW code \in Codes, CloseTask(s, c[1], c[2], code)
        PROVE  RunKeeps
    BY <1>1, <2>2 DEF CloseTask
  <2>3. ASSUME NEW c \in Closings, NEW code \in Codes, NEW d \in {"failed", "interrupted"},
               FinalizeFailure(s, c[1], c[2], code, d)
        PROVE  RunKeeps
    <3>1. WorkKeeps
      BY <2>3, RequestKeeps DEF FinalizeFailure
    <3>2. StepsKeep
      BY <2>3 DEF FinalizeFailure, CanFinalizeFailure, StepsKeep, StepTerminal
    <3> QED
      BY <2>3, <3>1, <3>2 DEF FinalizeFailure, RunKeeps
  <2>4. CASE FinalizeSuccess(s)
    <3>1. StepsKeep
      BY <2>4 DEF FinalizeSuccess, CanFinalizeSuccess, StepsKeep, StepTerminal
    <3> QED
      BY <2>4, <3>1 DEF FinalizeSuccess, RunKeeps, WorkKeeps
  <2>5. ASSUME NEW st \in StepStates, SetStep(s, st) PROVE RunKeeps
    BY <2>5 DEF SetStep, CanSetStep, RunKeeps, WorkKeeps, StepsKeep
  <2>6. CASE LapseDispatch(s) \/ LapseDeadline(s)
    BY <1>1, <2>6 DEF LapseDispatch, LapseDeadline
  <2>7. CASE FinalizeReuse(s)
    BY <2>7 DEF FinalizeReuse, CanFinalizeReuse, RunKeeps, WorkKeeps, StepsKeep, StepTerminal
  <2> QED
    BY <1>2, <2>1, <2>2, <2>3, <2>4, <2>5, <2>6, <2>7 DEF TaskNext
<1>3. ASSUME NEW d \in {"failed", "interrupted"}, RequestWork(d) PROVE RunKeeps
  BY <1>3, RequestKeeps DEF RequestWork, RunKeeps, StepsKeep
<1>4. ASSUME NEW o \in Owners, ClaimWork(o) PROVE RunKeeps
  BY <1>4 DEF ClaimWork, RunKeeps, StepsKeep, WorkKeeps, Works
<1>5. ASSUME NEW st \in Statuses, SetRun(st) PROVE RunKeeps
  BY <1>5 DEF SetRun, CanSetRun, RunKeeps, StepsKeep, WorkKeeps
<1>6. ASSUME NEW S \in SUBSET Steps, NotifyRisk(S) PROVE RunKeeps
  BY <1>1, <1>6 DEF NotifyRisk
<1>7. CASE AppendSucceeded
  BY <1>7 DEF AppendSucceeded, RunKeeps, StepsKeep, WorkKeeps
<1>8. CASE LapseWork
  BY <1>8 DEF LapseWork, RunKeeps, StepsKeep, WorkKeeps, Works
<1>9. ASSUME NEW O \in SUBSET Owners, Retire(O) PROVE RunKeeps
  BY <1>9 DEF Retire, Retired, RunKeeps, StepsKeep, WorkKeeps, Works
<1>10. CASE UNCHANGED storeVars
  BY <1>1, <1>10 DEF storeVars
<1> QED
  BY <1>2, <1>3, <1>4, <1>5, <1>6, <1>7, <1>8, <1>9, <1>10 DEF Next, RunNext

-----------------------------------------------------------------------------
(* The end of a run.  Neither half is inductive alone: that a settled run   *)
(* agrees with its work item about the retry needs that no retry exists     *)
(* before the work item is completed.                                       *)
Settled == SettledRunAgrees /\ OnlySettledFailuresRetry

\* Both halves together are preserved by every transaction.
LEMMA SettledInductive == Spec => []Settled
<1>1. Init => Settled
  BY DEF Init, Settled, SettledRunAgrees, OnlySettledFailuresRetry, NoWork
<1>2. TypeOK /\ Settled /\ [Next]_storeVars => Settled'
  <2> SUFFICES ASSUME TypeOK, Settled, [Next]_storeVars PROVE Settled'
    OBVIOUS
  <2> USE DEF Settled, SettledRunAgrees, OnlySettledFailuresRetry
  <2>1. ASSUME NEW o \in Owners, CompleteWork(o) PROVE Settled'
    BY <2>1 DEF CompleteWork, CanComplete, HoldsWork, TypeOK, Works, StepStates, StepTerminal
  <2>2. CASE RunKeeps
    <3>1. CASE work.state = "completed"
      BY <2>2, <3>1 DEF RunKeeps, WorkKeeps, StepsKeep, TypeOK, Works, Terminal
    <3>2. CASE work.state # "completed"
      BY <2>2, <3>2 DEF RunKeeps, WorkKeeps, TypeOK
    <3> QED
      BY <3>1, <3>2
  <2> QED
    BY <2>1, <2>2, RunSteps
<1> QED
  BY <1>1, <1>2, TypeCorrect, PTL DEF Spec

(* A completed work item, its run, the steps, the terminal event and the    *)
(* hand-off to self-heal always agree.                                      *)
THEOREM SettledCorrect == Spec => []SettledRunAgrees
  BY SettledInductive, PTL DEF Settled

(* Self-heal is only ever handed a run that was settled as failed.          *)
THEOREM RetryCorrect == Spec => []OnlySettledFailuresRetry
  BY SettledInductive, PTL DEF Settled

(* Whatever is terminal stays, and a requested interrupt is never weakened. *)
THEOREM TerminalStays == Spec => TerminalIsFinal
<1> DEFINE Final ==
      /\ runStatus \in Terminal => runStatus' = runStatus
      /\ \A s \in Steps :
            /\ stepState[s] \in StepTerminal => stepState'[s] = stepState[s]
            /\ task[s].state \in TaskTerminal => task'[s].state = task[s].state
      /\ work.state # "none" /\ work.desired = "interrupted" =>
            work'.desired = "interrupted"
<1>1. TypeOK /\ [Next]_storeVars => [Final]_storeVars
  <2> SUFFICES ASSUME TypeOK, [Next]_storeVars PROVE Final
    OBVIOUS
  <2>1. \A s \in Steps : task[s].state \in TaskTerminal => task'[s].state = task[s].state
    BY TaskSteps DEF TaskStep, SameTaskStates, TaskMoves, Closings, TaskTerminal
  <2>2. ASSUME NEW o \in Owners, CompleteWork(o) PROVE Final
    BY <2>1, <2>2 DEF CompleteWork, CanComplete, TypeOK, Works, StepTerminal, Active, Terminal
  <2>3. CASE RunKeeps
    BY <2>1, <2>3 DEF RunKeeps, WorkKeeps, StepsKeep
  <2> QED
    BY <2>2, <2>3, RunSteps
<1> QED
  BY <1>1, TypeCorrect, PTL DEF Spec, TerminalIsFinal

-----------------------------------------------------------------------------
(* The rows implement RunLifecycle.                                        *)

\* A transaction moves the status of the run, or at most one task.
LEMMA OneThingAtATime ==
    ASSUME [Next]_storeVars
    PROVE  \/ UNCHANGED <<runStatus, continuation>>
           \/ /\ UNCHANGED <<task, ledger>>
              /\ (\E st \in Statuses : SetRun(st)) \/ (\E o \in Owners : CompleteWork(o))
<1>1. ASSUME NEW s \in Steps, TaskNext(s) PROVE UNCHANGED <<runStatus, continuation>>
  BY <1>1 DEF TaskNext, InsertTask, RenewDispatch, Activate, ResultReady, CloseTask,
     FinalizeFailure, FinalizeSuccess, FinalizeReuse, SetStep, LapseDispatch, LapseDeadline
<1>2. CASE RunNext
  BY <1>2 DEF RunNext, RequestWork, ClaimWork, CompleteWork, SetRun, NotifyRisk,
     AppendSucceeded, LapseWork, Retire
<1> QED
  BY <1>1, <1>2 DEF Next, storeVars

(* Every transaction is one step of RunLifecycle or none: a run ends once,  *)
(* its retry is created as it fails, and a step is charged at most once,    *)
(* before its task is given up (the last from ChargedIffReported).          *)
THEOREM ImplementsLifecycle == Spec => Promise
<1>1. Init => Lifecycle!Init
  BY DEF Init, Lifecycle!Init, NoTask, Terminal, TaskTerminal
<1>2. TypeOK /\ ChargedIffReported /\ [Next]_storeVars
      => [Lifecycle!Next]_Lifecycle!vars
  <2> SUFFICES ASSUME TypeOK, ChargedIffReported, [Next]_storeVars
               PROVE  [Lifecycle!Next]_Lifecycle!vars
    OBVIOUS
  <2> DEFINE closed == {s \in Steps : task[s].state \in TaskTerminal}
  <2>1. CASE UNCHANGED <<runStatus, continuation>>
    <3>1. CASE closed' = closed /\ ledger' = ledger
      BY <2>1, <3>1 DEF Lifecycle!vars
    <3>2. ASSUME NEW s \in Steps, NEW from \in {"dispatching", "active"},
                 TaskMoves(s, from, "result_ready"), ledger' = ledger \cup {s}
          PROVE  Lifecycle!Charge(s)
      <4>1. s \notin ledger \cup closed
        BY <3>2 DEF TaskMoves, ChargedIffReported, TaskTerminal
      <4>2. closed' = closed
        BY <3>2 DEF TaskMoves, TaskTerminal
      <4> QED
        BY <2>1, <3>2, <4>1, <4>2 DEF Lifecycle!Charge
    <3>3. ASSUME NEW s \in Steps, NEW c \in Closings,
                 TaskMoves(s, c[1], c[2]), ledger' = ledger
          PROVE  Lifecycle!Close(s)
      <4>1. s \notin closed /\ closed' = closed \cup {s}
        BY <3>3 DEF TaskMoves, Closings, TaskTerminal
      <4> QED
        BY <2>1, <3>3, <4>1 DEF Lifecycle!Close
    <3>4. ASSUME NEW s \in Steps, ledger' = ledger,
                 TaskMoves(s, "none", "dispatching") \/ TaskMoves(s, "dispatching", "active")
          PROVE  closed' = closed
      BY <3>4 DEF TaskMoves, TaskTerminal
    <3>5. ASSUME SameTaskStates PROVE closed' = closed
      BY <3>5 DEF SameTaskStates
    <3> HIDE DEF closed
    <3> QED
      BY <3>1, <3>2, <3>3, <3>4, <3>5, TaskSteps DEF TaskStep, Lifecycle!Next
  <2>2. ASSUME UNCHANGED <<task, ledger>>, NEW st \in Statuses, SetRun(st)
        PROVE  [Lifecycle!Next]_Lifecycle!vars
    BY <2>2 DEF SetRun, CanSetRun, Lifecycle!vars, Lifecycle!Next, Lifecycle!End,
       Lifecycle!Ends, Terminal
  <2>3. ASSUME UNCHANGED <<task, ledger>>, NEW o \in Owners, CompleteWork(o)
        PROVE  [Lifecycle!Next]_Lifecycle!vars
    <3>1. work.desired \in Lifecycle!Ends /\ work.desired \in Terminal
      BY DEF TypeOK, Works, Lifecycle!Ends, Terminal
    <3>2. Lifecycle!End(work.desired)
      BY <2>3, <3>1 DEF CompleteWork, CanComplete, Lifecycle!End, Active, Terminal
    <3> QED
      BY <3>1, <3>2 DEF Lifecycle!Next
  <2> QED
    BY <2>1, <2>2, <2>3, OneThingAtATime
<1> QED
  BY <1>1, <1>2, TypeCorrect, ChargedCorrect, PTL DEF Spec, Promise, Lifecycle!Spec
=============================================================================
