------------------------- MODULE RunAdmissionProofs -------------------------
(***************************************************************************)
(* For any number of requests, runs, variants, retries and crashes: one    *)
(* active run or sweep per workspace (OneActive), nothing dear without a   *)
(* confirmation (NothingUnapproved) and one retry per failure              *)
(* (OneRetryPerFailure); and until the server first stops, members of a    *)
(* sweep one after another (SweepStopsAtFailure).                          *)
(*                                                                         *)
(* The argument: what a step may do to the rows is RowStep, which keeps    *)
(* what anyone has learned of a run (Keeps); the rest of the invariant     *)
(* says what each task knows of the run it is about to change.  SweepInv   *)
(* adds what it knows of the groups and of who executes their members.     *)
(***************************************************************************)
EXTENDS RunAdmission, FiniteSetTheorems, SequenceTheorems, TLAPS

States == ActiveStates \cup Terminal \cup {"waiting"}
RowType == [st : ActiveStates \cup Terminal \cup {"none", "waiting"},
            grp : 0 .. MaxRuns, cost : {"none", "cheap", "dear"},
            attempt : 0 .. MaxRuns, parent : 0 .. MaxRuns, force : BOOLEAN]

\* An executor's run, an estimate in progress, an estimate that is over, and
\* a run that may start.
Begun(r) == run[r].st = "running" \/ run[r].st \in Terminal
Fresh(r) == run[r].st = "estimating" \/ run[r].st \in Terminal
Settled(r) == run[r].st # "none" /\ run[r].st # "estimating"
Cleared(r) == r \in confirmed \/ (run[r].cost = "cheap" /\ Settled(r))

\* The rows are 1 .. Latest, and a retry is younger than its parent.
RowsInv ==
    /\ run \in [Runs -> RowType]
    /\ Latest \in 0 .. MaxRuns
    /\ \A r \in Runs : run[r].st # "none" <=> r <= Latest
    /\ \A r \in Runs : run[r].st # "none" => run[r].attempt < r
    /\ \A r \in Runs : run[r].parent # 0 => run[r].grp = 0

Alone ==
    \A a, b \in Runs : a # b /\ IsActive(a) /\ IsActive(b)
                          => IsSweep(a) /\ run[a].grp = run[b].grp

Approved ==
    \A r \in Runs : run[r].st \in {"queued", "running", "succeeded"} => Cleared(r)

\* A child costs what its parent does, which has ended.
Child(p, r) ==
    /\ r \in Runs /\ Settled(r)
    /\ run[r].cost = run[p].cost /\ run[p].st \in Terminal

LinksInv ==
    /\ \A p \in Runs : cont[p].child # 0 => Child(p, cont[p].child)
    /\ \A p \in Runs : rejected[p] # 0 => Child(p, rejected[p])
    /\ \A r \in Runs : run[r].parent # 0 /\ run[r].force => rejected[run[r].parent] = r
    /\ \A r \in Runs : run[r].parent # 0 /\ ~run[r].force
                          => cont[run[r].parent].child = r /\ run[r].attempt <= MaxRetries

ContStates == {"none", "pending", "retry_created", "completed", "exhausted"}
MiscType ==
    /\ work \in [Runs -> {"none", "failed", "interrupted", "done"}]
    /\ cont \in [Runs -> [state : ContStates, child : 0 .. MaxRuns]]
    /\ \A r \in Runs : cont[r].state = "retry_created" => cont[r].child # 0
    /\ rejected \in [Runs -> 0 .. MaxRuns]
    /\ intent \in SUBSET Runs /\ confirmed \in SUBSET Runs
    /\ flag \in [Runs -> Tags \cup {NoCall}]
    /\ signalled \in SUBSET (Runs \X Tags)
    /\ queueLock \in Calls \cup {NoCall}
    /\ crashes \in 0 .. MaxCrashes

Estimating == {"flag", "estimate", "cancel", "fail", "save"}
Walking == {"hold", "enqueue", "rollback", "next", "executing", "healing", "interrupt"}

CallPlaces == Estimating \cup Walking \cup
    {"new", "create", "saved", "claim", "cas", "validate", "signal", "request", "settle",
     "derive", "done"}
CallRec == [op : {"none", "queue", "ask", "sweep", "confirm", "hold", "stop", "reject"},
            at : CallPlaces, r : 0 .. MaxRuns, list : Seq(Runs), i : Nat]
CallType == call \in [Calls -> CallRec]

\* What a request knows of the runs it names.
CallOK(c) ==
    /\ call[c].at \in Estimating \cup {"saved", "claim", "cas", "signal", "request", "settle", "derive"}
          => call[c].r \in Runs /\ run[call[c].r].st # "none"
    /\ call[c].at \in Estimating => Fresh(call[c].r)
    /\ call[c].at \in Estimating \cup {"saved"}
          => call[c].list # <<>> /\ call[c].r = call[c].list[Len(call[c].list)]
    /\ call[c].at \in Estimating \cup {"create", "saved"}
          => \A j \in 1 .. Len(call[c].list) :
                Settled(call[c].list[j]) \/ (j = Len(call[c].list) /\ call[c].at \in Estimating)
    /\ call[c].at \in {"claim", "cas"} => Cleared(call[c].r)
    /\ call[c].at \in {"validate", "enqueue"}
          => \A j \in 1 .. Len(call[c].list) : Cleared(call[c].list[j])
    /\ call[c].at = "validate" => call[c].list # <<>>
    /\ call[c].at \in Walking => call[c].i \in 1 .. Len(call[c].list)
    /\ call[c].at = "derive" => run[call[c].r].st \in Terminal
    /\ call[c].at = "new" => call[c].list = <<>>

\* Two requests never estimate one run.
Apart ==
    \A c, d \in Calls : c # d /\ call[c].at \in Estimating /\ call[d].at \in Estimating
                           => call[c].r # call[d].r

ExecRec == [r : Runs, tag : Tags, then : {"heal", "sweep", "none"},
            at : {"start", "run", "refused", "settle_failed", "settle_ok", "ok", "failed"}]
ExecsInv == \A e \in execs : e \in ExecRec /\ Begun(e.r)

HealRec == [r : Runs, by : {"loop", "boot"}, child : 0 .. MaxRuns,
            at : {"read", "create", "claim", "cas", "claimed", "close", "fine", "error"}]
HealOK(h) ==
    /\ h \in HealRec
    /\ h.at = "create" => run[h.r].st \in Terminal /\ WithinLimit(h.r)
    /\ h.at \in {"claim", "cas", "claimed"} => h.child \in Runs
    /\ h.at \in {"claim", "cas"} => Cleared(h.child)
    /\ h.at = "claimed" => Begun(h.child)
HealsInv == \A h \in heals : HealOK(h)

\* What the recovery read of a running run is not undone.
BootRec == [at : {"off", "start", "items", "runs", "settle", "conts", "claim", "cas", "close"},
            todo : SUBSET (Runs \X (States \cup ContStates)), keeper : 0 .. MaxRuns]
BootInv ==
    /\ boot \in BootRec
    /\ boot.at \in {"runs", "settle"} => \A p \in boot.todo : p[2] = "running" => Begun(p[1])
    /\ boot.at \in {"conts", "claim", "cas", "close"}
          => \A p \in boot.todo : p[2] # "pending" => cont[p[1]].child # 0
    /\ boot.at \in {"claim", "cas"}
          => \A p \in boot.todo : BootHas(p) => /\ cont[p[1]].child # 0
                                                /\ Cleared(cont[p[1]].child)

CallsInv == CallType /\ (\A c \in Calls : CallOK(c)) /\ Apart

Inv == /\ RowsInv /\ Alone /\ Approved /\ LinksInv /\ MiscType
       /\ CallsInv /\ ExecsInv /\ HealsInv /\ BootInv

-----------------------------------------------------------------------------
(* What a step may do to the rows.                                         *)

MayMove(r, st) ==
    /\ run[r].st # "none" /\ st \in States
    /\ \/ st = run[r].st
       \/ st \in Terminal /\ run[r].st \notin Terminal
       \/ st = "waiting" /\ run[r].st = "queued"
       \/ /\ st \in {"queued", "running"} /\ run[r].st \in {"waiting", "queued"}
          /\ ~Busy(r, run[r].grp)
    /\ st \in {"queued", "running", "succeeded"} => Cleared(r)

Moved == \E r \in Runs, st \in States : MayMove(r, st) /\ SetStatus(r, st)

Priced(r) ==
    \E cost \in {"cheap", "dear"} :
        run[r].st = "estimating" /\ run' = [run EXCEPT ![r].st = "waiting", ![r].cost = cost]

Asked ==
    \E g \in 0 .. MaxRuns :
        Room(1) /\ ~Busy(0, g) /\ Insert(NewRun(g))

Retried(p, f) == Room(1) /\ run[p].st # "none" /\ Insert(RetryOf(p, f))

RowStep ==
    \/ run' = run \/ Moved \/ Asked
    \/ \E r \in Runs : Priced(r)
    \/ \E p \in Runs, f \in BOOLEAN : Retried(p, f)

\* What anyone knows of a run stays true.
Keeps ==
    \A r \in Runs :
        /\ run[r].st # "none" => run'[r].st # "none" /\ run'[r].attempt = run[r].attempt
        /\ Begun(r) => Begun(r)'
        /\ run[r].st \in Terminal => run'[r].st = run[r].st
        /\ Settled(r) => Settled(r)' /\ run'[r].cost = run[r].cost
        /\ Cleared(r) => Cleared(r)'

NoRetry ==
    \A r \in Runs :
        run'[r].parent # 0 => /\ run'[r].parent = run[r].parent
                              /\ run'[r].force = run[r].force
                              /\ run'[r].attempt = run[r].attempt

\* An initial segment of the runs has as many members as its last.
LEMMA SegmentSize ==
    ASSUME NEW n \in 0 .. MaxRuns
    PROVE  Cardinality({r \in Runs : r <= n}) = n
<1>1. {r \in Runs : r <= n} = 1 .. n
  BY AdmissionAssumption DEF Runs
<1>2. Cardinality(1 .. n) = n
  BY FS_Interval, AdmissionAssumption
<1> QED BY <1>1, <1>2

\* A new row goes after all others, so the rows stay an initial segment.
LEMMA InsertKeepsRows ==
    ASSUME RowsInv, Room(1), NEW row \in RowType, Insert(row),
           row.st # "none", row.attempt <= Latest, row.parent # 0 => row.grp = 0
    PROVE  RowsInv' /\ Latest' = Latest + 1 /\ Latest + 1 \in Runs
<1>1. Latest + 1 \in Runs
  BY AdmissionAssumption DEF RowsInv, Room, Runs
<1>2. run' \in [Runs -> RowType]
  BY <1>1 DEF RowsInv, Insert
<1>3. \A r \in Runs : run'[r] = IF r = Latest + 1 THEN row ELSE run[r]
  BY <1>1 DEF RowsInv, Insert
<1>4. \A r \in Runs : run'[r].st # "none" <=> r <= Latest + 1
  BY <1>3 DEF RowsInv, Runs
<1>5. Existing' = {r \in Runs : r <= Latest + 1}
  BY <1>4 DEF Existing
<1>6. Latest' = Latest + 1
  <2>1. Latest + 1 \in 0 .. MaxRuns
    BY <1>1, AdmissionAssumption DEF Runs
  <2>2. Latest' = Cardinality(Existing')
    BY DEF Latest
  <2> QED BY <2>1, <2>2, <1>5, SegmentSize
<1>7. \A r \in Runs : run'[r].st # "none" => run'[r].attempt < r
  BY <1>3 DEF RowsInv, RowType, Runs
<1>8. \A r \in Runs : run'[r].parent # 0 => run'[r].grp = 0
  BY <1>3 DEF RowsInv
<1> QED
  BY <1>1, <1>2, <1>4, <1>6, <1>7, <1>8, AdmissionAssumption DEF RowsInv, Runs

\* Any other change leaves the number of rows as it is.
LEMMA SameRows ==
    ASSUME RowsInv, run' \in [Runs -> RowType],
           \A r \in Runs : /\ run'[r].st # "none" <=> run[r].st # "none"
                           /\ run'[r].attempt = run[r].attempt
                           /\ run'[r].parent = run[r].parent
                           /\ run'[r].grp = run[r].grp
    PROVE  RowsInv' /\ Latest' = Latest
<1>1. Existing' = Existing
  BY DEF Existing
<1>2. Latest' = Latest
  BY <1>1 DEF Latest
<1> QED BY <1>2 DEF RowsInv

LEMMA RowsAfter ==
    ASSUME RowsInv, Alone, Approved, RowStep, confirmed \subseteq confirmed'
    PROVE  RowsInv' /\ Alone' /\ Approved' /\ Keeps
<1> USE AdmissionAssumption
<1>1. CASE run' = run
  <2>1. RowsInv' BY <1>1, SameRows DEF RowsInv
  <2> QED BY <1>1, <2>1 DEF Alone, Approved, Keeps, IsActive, IsSweep, Begun, Settled, Cleared
<1>2. CASE Moved
  <2>1. PICK r \in Runs, st \in States : MayMove(r, st) /\ SetStatus(r, st)
    BY <1>2 DEF Moved
  <2>2. /\ run' \in [Runs -> RowType]
        /\ \A o \in Runs : run'[o] = IF o = r THEN [run[r] EXCEPT !.st = st] ELSE run[o]
    BY <2>1 DEF SetStatus, RowsInv, RowType, States
  <2>3. RowsInv'
    BY <2>1, <2>2, SameRows DEF RowsInv, RowType, MayMove, States, ActiveStates, Terminal
  <2>4. Alone'
    BY <2>1, <2>2 DEF Alone, RowsInv, RowType, MayMove, Busy, IsActive, IsSweep, ActiveStates, Terminal
  <2>5. Keeps
    BY <2>1, <2>2 DEF Keeps, RowsInv, RowType, MayMove, Begun, Settled, Cleared, ActiveStates, Terminal
  <2>6. Approved'
    BY <2>1, <2>2, <2>5 DEF Approved, Keeps, MayMove, RowsInv, RowType
  <2> QED BY <2>3, <2>4, <2>5, <2>6
<1>3. CASE Asked
  <2>1. PICK g \in 0 .. MaxRuns :
          Room(1) /\ ~Busy(0, g) /\ Insert(NewRun(g))
    BY <1>3 DEF Asked
  <2> DEFINE row == NewRun(g)
  <2>2. /\ row \in RowType /\ row.st = "estimating" /\ row.attempt = 0
        /\ row.parent = 0 /\ row.grp = g
    BY DEF NewRun, RowType, ActiveStates
  <2>3. RowsInv' /\ Latest + 1 \in Runs
    <3> HIDE DEF row
    <3> QED BY <2>1, <2>2, InsertKeepsRows DEF row, RowsInv
  <2>4. \A o \in Runs : run'[o] = IF o = Latest + 1 THEN row ELSE run[o]
    <3> HIDE DEF row
    <3> QED BY <2>1, <2>3 DEF Insert, RowsInv, row
  <2>5. run[Latest + 1].st = "none"
    BY <2>3 DEF RowsInv, Runs
  <2> HIDE DEF row
  <2>6. Alone'
    BY <2>1, <2>2, <2>3, <2>4 DEF Alone, RowsInv, Busy, IsActive, IsSweep, Runs
  <2>7. Keeps
    BY <2>2, <2>3, <2>4, <2>5 DEF Keeps, Begun, Settled, Cleared, Terminal, Approved, RowsInv
  <2>8. Approved'
    BY <2>2, <2>3, <2>4, <2>7 DEF Approved, Keeps
  <2> QED BY <2>3, <2>6, <2>7, <2>8
<1>4. CASE \E r \in Runs : Priced(r)
  <2>1. PICK r \in Runs, cost \in {"cheap", "dear"} :
          run[r].st = "estimating" /\ run' = [run EXCEPT ![r].st = "waiting", ![r].cost = cost]
    BY <1>4 DEF Priced
  <2>2. /\ run' \in [Runs -> RowType]
        /\ run'[r].st = "waiting" /\ run'[r].grp = run[r].grp
        /\ run'[r].attempt = run[r].attempt /\ run'[r].parent = run[r].parent
        /\ \A o \in Runs : o # r => run'[o] = run[o]
    BY <2>1, ZenonT(30) DEF RowsInv, RowType, ActiveStates, Terminal
  <2>3. RowsInv'
    BY <2>1, <2>2, SameRows DEF RowsInv, RowType
  <2>4. Alone'
    BY <2>1, <2>2 DEF Alone, RowsInv, RowType, IsActive, IsSweep, ActiveStates
  <2>5. Keeps
    BY <2>1, <2>2 DEF Keeps, RowsInv, RowType, Begun, Settled, Cleared, Terminal
  <2>6. Approved'
    BY <2>1, <2>2, <2>5 DEF Approved, Keeps, RowsInv, RowType
  <2> QED BY <2>3, <2>4, <2>5, <2>6
<1>5. CASE \E p \in Runs, f \in BOOLEAN : Retried(p, f)
  <2>1. PICK p \in Runs, f \in BOOLEAN : Retried(p, f)
    BY <1>5
  <2> DEFINE row == RetryOf(p, f)
  <2>2. /\ row \in RowType /\ row.st = "waiting" /\ row.attempt <= Latest /\ row.grp = 0
    <3>1. row = [st |-> "waiting", grp |-> 0, cost |-> run[p].cost,
                 attempt |-> run[p].attempt + 1, parent |-> p, force |-> f]
      BY DEF RetryOf
    <3>2. /\ run[p].attempt \in 0 .. MaxRuns /\ run[p].attempt < p /\ p <= Latest
          /\ run[p].cost \in {"none", "cheap", "dear"} /\ p \in 0 .. MaxRuns /\ Latest < MaxRuns
      BY <2>1 DEF Retried, Room, RowType, RowsInv, Runs
    <3> HIDE DEF row
    <3> QED BY <3>1, <3>2 DEF RowType, RowsInv
  <2>3. RowsInv' /\ Latest + 1 \in Runs
    <3> HIDE DEF row
    <3> QED BY <2>1, <2>2, InsertKeepsRows DEF row, Retried
  <2>4. \A o \in Runs : run'[o] = IF o = Latest + 1 THEN row ELSE run[o]
    <3> HIDE DEF row
    <3> QED BY <2>1, <2>3 DEF Insert, RowsInv, row, Retried
  <2>5. run[Latest + 1].st = "none"
    BY <2>3 DEF RowsInv, Runs
  <2> HIDE DEF row
  <2>6. Alone'
    BY <2>2, <2>3, <2>4 DEF Alone, IsActive, IsSweep, ActiveStates
  <2>7. Keeps
    BY <2>2, <2>3, <2>4, <2>5 DEF Keeps, Begun, Settled, Cleared, Terminal, Approved, RowsInv
  <2>8. Approved'
    BY <2>2, <2>3, <2>4, <2>7 DEF Approved, Keeps
  <2> QED BY <2>3, <2>6, <2>7, <2>8
<1> QED BY <1>1, <1>2, <1>3, <1>4, <1>5 DEF RowStep

-----------------------------------------------------------------------------
(* What survives such a change.                                            *)

\* Estimates in progress, but for that of one run, stay so or end.
FreshBut(q) == \A r \in Runs \ {q} : Fresh(r) => Fresh(r)'

SameChildren == rejected' = rejected /\ \A p \in Runs : cont'[p].child = cont[p].child

\* Steps that create no retry.
PlainStep == run' = run \/ Moved \/ Asked

LEMMA PlainFresh ==
    ASSUME RowsInv, PlainStep
    PROVE  NoRetry /\ RowStep /\ \A q \in Runs \cup {0} : FreshBut(q)
<1> USE AdmissionAssumption
<1>1. CASE run' = run
  BY <1>1 DEF NoRetry, RowStep, FreshBut, Fresh
<1>2. CASE Moved
  <2>1. PICK r \in Runs, st \in States : MayMove(r, st) /\ SetStatus(r, st)
    BY <1>2 DEF Moved
  <2>2. \A o \in Runs : run'[o] = IF o = r THEN [run[r] EXCEPT !.st = st] ELSE run[o]
    BY <2>1 DEF SetStatus, RowsInv, RowType, States
  <2>3. NoRetry
    BY <2>2 DEF NoRetry, RowsInv, RowType
  <2>4. \A q \in Runs \cup {0} : FreshBut(q)
    BY <2>1, <2>2 DEF FreshBut, Fresh, MayMove, RowsInv, RowType, ActiveStates, Terminal
  <2> QED BY <1>2, <2>3, <2>4 DEF RowStep
<1>3. CASE Asked
  <2>1. PICK g \in 0 .. MaxRuns : Room(1) /\ Insert(NewRun(g))
    BY <1>3 DEF Asked
  <2>2. Latest + 1 \in Runs /\ run[Latest + 1].st = "none"
    BY <2>1 DEF Room, RowsInv, Runs
  <2>3. \A o \in Runs : run'[o] = IF o = Latest + 1 THEN NewRun(g) ELSE run[o]
    BY <2>1, <2>2 DEF Insert, RowsInv
  <2>4. NewRun(g).parent = 0 /\ NewRun(g).st = "estimating"
    BY DEF NewRun
  <2>5. NoRetry
    BY <2>3, <2>4 DEF NoRetry, RowsInv, RowType
  <2>6. \A q \in Runs \cup {0} : FreshBut(q)
    BY <2>2, <2>3, <2>4 DEF FreshBut, Fresh
  <2> QED BY <1>3, <2>5, <2>6 DEF RowStep
<1> QED BY <1>1, <1>2, <1>3 DEF PlainStep

LEMMA PricedFresh ==
    ASSUME RowsInv, NEW r \in Runs, Priced(r)
    PROVE  NoRetry /\ RowStep /\ FreshBut(r)
<1>1. PICK cost \in {"cheap", "dear"} :
        run[r].st = "estimating" /\ run' = [run EXCEPT ![r].st = "waiting", ![r].cost = cost]
  BY DEF Priced
<1>2. /\ run'[r].parent = run[r].parent /\ run'[r].force = run[r].force
      /\ run'[r].attempt = run[r].attempt
      /\ \A o \in Runs : o # r => run'[o] = run[o]
  BY <1>1 DEF RowsInv, RowType
<1>3. NoRetry
  BY <1>2 DEF NoRetry
<1> QED BY <1>2, <1>3 DEF RowStep, FreshBut, Fresh

LEMMA LinkTypes ==
    ASSUME MiscType
    PROVE  \A q \in Runs : cont[q].child \in Runs \cup {0} /\ rejected[q] \in Runs \cup {0}
<1>1. \A q \in Runs : cont[q].child \in 0 .. MaxRuns /\ rejected[q] \in 0 .. MaxRuns
  BY DEF MiscType
<1> QED BY <1>1, AdmissionAssumption DEF Runs

LEMMA LinksKept ==
    ASSUME RowsInv, LinksInv, MiscType, Keeps, NoRetry, SameChildren
    PROVE  LinksInv'
<1>1. \A p, r \in Runs : Child(p, r) => Child(p, r)'
  BY DEF Child, Keeps, Settled, Terminal
<1>2. \A p \in Runs : cont[p].child \in Runs \cup {0} /\ rejected[p] \in Runs \cup {0}
  BY LinkTypes
<1>3. \A r \in Runs : run[r].parent \in Runs \cup {0}
  BY AdmissionAssumption DEF RowsInv, RowType, Runs
<1>4. (\A p \in Runs : cont[p].child # 0 => Child(p, cont[p].child))'
  BY <1>1, <1>2 DEF LinksInv, SameChildren
<1>5. (\A p \in Runs : rejected[p] # 0 => Child(p, rejected[p]))'
  BY <1>1, <1>2 DEF LinksInv, SameChildren
<1>6. \A r \in Runs : run'[r].parent # 0 /\ run'[r].force => rejected'[run'[r].parent] = r
  BY DEF NoRetry, LinksInv, SameChildren
<1>7. \A r \in Runs : run'[r].parent # 0 /\ ~run'[r].force
          => cont'[run'[r].parent].child = r /\ run'[r].attempt <= MaxRetries
  BY <1>3 DEF NoRetry, LinksInv, SameChildren
<1> QED BY <1>4, <1>5, <1>6, <1>7 DEF LinksInv

\* A request that takes no step knows what it knew.
LEMMA CallKept ==
    ASSUME RowsInv, Keeps, NEW c \in Calls, call[c] \in CallRec, CallOK(c), call'[c] = call[c],
           call[c].at \in Estimating => Fresh(call[c].r)'
    PROVE  CallOK(c)'
<1>1. \A j \in 1 .. Len(call[c].list) : call[c].list[j] \in Runs
  BY DEF CallRec
<1>2. \A j \in 1 .. Len(call[c].list) :
        /\ Settled(call[c].list[j]) => Settled(call[c].list[j])'
        /\ Cleared(call[c].list[j]) => Cleared(call[c].list[j])'
  BY <1>1 DEF Keeps
<1>3. call[c].r \in Runs =>
        /\ Cleared(call[c].r) => Cleared(call[c].r)'
        /\ run[call[c].r].st # "none" => run'[call[c].r].st # "none"
        /\ run[call[c].r].st \in Terminal => run'[call[c].r].st \in Terminal
  BY DEF Keeps
<1> QED BY <1>2, <1>3 DEF CallOK, Settled, Cleared, Fresh, Estimating

LEMMA CallsKept ==
    ASSUME RowsInv, CallsInv, Keeps, FreshBut(0), call' = call
    PROVE  CallsInv'
<1>1. \A c \in Calls : call[c] \in CallRec
  BY DEF CallsInv, CallType
<1>2. ASSUME NEW c \in Calls PROVE CallOK(c)'
  <2>1. call[c].at \in Estimating => call[c].r \in Runs /\ Fresh(call[c].r)
    BY DEF CallsInv, CallOK
  <2>2. call[c].at \in Estimating => Fresh(call[c].r)'
    BY <2>1 DEF FreshBut, Runs
  <2>3. CallOK(c)
    BY DEF CallsInv
  <2> QED BY <1>1, <2>2, <2>3, CallKept
<1> QED BY <1>2 DEF CallsInv, CallType, Apart

\* The request's record changes, and it estimates only a run of its own.
CallMoves(c) ==
    /\ CallType' /\ \A d \in Calls \ {c} : call'[d] = call[d]
    /\ call'[c].at \in Estimating => \/ call[c].at \in Estimating /\ call'[c].r = call[c].r
                                     \/ run[call'[c].r].st = "none"
CallStepped(c) == CallMoves(c) /\ CallOK(c)'

\* One request takes a step; it may be one whose estimate is being saved.
LEMMA CallsAfter ==
    ASSUME RowsInv, CallsInv, Keeps, NEW c \in Calls, CallStepped(c),
           FreshBut(0) \/ (call[c].at \in Estimating /\ FreshBut(call[c].r))
    PROVE  CallsInv'
<1>1. ASSUME NEW d \in Calls, d # c PROVE CallOK(d)'
  <2>1. call[d].at \in Estimating => call[d].r \in Runs /\ Fresh(call[d].r)
    BY DEF CallsInv, CallOK
  <2>2. call[d].at \in Estimating /\ call[c].at \in Estimating => call[d].r # call[c].r
    BY <1>1 DEF CallsInv, Apart
  <2>3. call[d] \in CallRec /\ CallOK(d) /\ call'[d] = call[d]
    BY <1>1 DEF CallsInv, CallType, CallStepped, CallMoves
  <2>4. call[d].at \in Estimating => Fresh(call[d].r)'
    BY <2>1, <2>2, <2>3 DEF FreshBut, Fresh, Runs
  <2> QED BY <2>3, <2>4, CallKept
<1>2. Apart'
  <2>1. \A d \in Calls : call[d].at \in Estimating => run[call[d].r].st # "none"
    BY DEF CallsInv, CallOK
  <2>2. \A d, e \in Calls : d # e /\ call[d].at \in Estimating /\ call[e].at \in Estimating
                            => call[d].r # call[e].r
    BY DEF CallsInv, Apart
  <2> QED BY <2>1, <2>2 DEF Apart, CallStepped, CallMoves
<1> QED BY <1>1, <1>2 DEF CallsInv, CallStepped, CallMoves

LEMMA ExecsKept ==
    ASSUME Keeps, ExecsInv,
           \A e \in execs' : e \in execs \/ (e \in ExecRec /\ (Begun(e.r) \/ Begun(e.r)'))
    PROVE  ExecsInv'
BY DEF ExecsInv, ExecRec, Keeps

LEMMA HealKept ==
    ASSUME RowsInv, Keeps, NEW h, HealOK(h)
    PROVE  HealOK(h)'
<1>1. h.r \in Runs
  BY DEF HealOK, HealRec
<1>2. run[h.r].st \in Terminal => run'[h.r].st \in Terminal /\ run'[h.r].attempt = run[h.r].attempt
  BY <1>1 DEF Keeps, Terminal
<1> QED BY <1>2 DEF HealOK, Keeps, WithinLimit

LEMMA HealsKept ==
    ASSUME RowsInv, Keeps, HealsInv, \A h \in heals' : h \in heals \/ HealOK(h)'
    PROVE  HealsInv'
BY HealKept DEF HealsInv

LEMMA BootKept ==
    ASSUME Keeps, MiscType, BootInv, boot' = boot,
           \A p \in Runs : cont[p].child # 0 => cont'[p].child = cont[p].child
    PROVE  BootInv'
<1>1. \A p \in boot.todo : p[1] \in Runs
  BY DEF BootInv, BootRec
<1>2. \A p \in Runs : cont[p].child # 0 => cont[p].child \in Runs
  BY AdmissionAssumption DEF MiscType, Runs
<1>3. \A p \in boot.todo : BootHas(p)' <=> BootHas(p)
  BY DEF BootHas
<1> QED BY <1>1, <1>2, <1>3 DEF BootInv, Keeps

\* A new retry is the one its parent names.
LEMMA RetryLinked ==
    ASSUME RowsInv, Approved, LinksInv, MiscType, NEW p \in Runs, NEW f \in BOOLEAN, Retried(p, f),
           run[p].st \in Terminal, Keeps,
           IF f THEN /\ rejected[p] = 0 /\ rejected' = [rejected EXCEPT ![p] = Latest + 1]
                     /\ cont' = cont
           ELSE /\ cont[p].child = 0 /\ run[p].attempt < MaxRetries
                /\ cont' = [cont EXCEPT ![p] = [state |-> "retry_created", child |-> Latest + 1]]
                /\ rejected' = rejected
    PROVE  LinksInv'
<1> USE AdmissionAssumption
<1>1. PICK n \in Runs : n = Latest + 1 /\ run[n].st = "none" /\ n # 0
  BY DEF Retried, Room, RowsInv, Runs
<1>2. /\ run'[n].st = "waiting" /\ run'[n].cost = run[p].cost /\ run'[n].parent = p
      /\ run'[n].force = f /\ run'[n].attempt = run[p].attempt + 1
      /\ \A o \in Runs : o # n => run'[o] = run[o]
  BY <1>1 DEF Retried, Insert, RetryOf, RowsInv
<1>3. p # n /\ run'[p] = run[p]
  BY <1>1, <1>2 DEF Terminal
<1>4. Child(p, n)'
  BY <1>1, <1>2, <1>3 DEF Child, Settled
<1>5. \A q, r \in Runs : Child(q, r) => Child(q, r)'
  BY DEF Child, Keeps, Settled, Terminal
<1>6. \A q \in Runs : cont[q].child \in Runs \cup {0} /\ rejected[q] \in Runs \cup {0}
  BY LinkTypes
<1>7. \A r \in Runs : run[r].parent \in Runs \cup {0}
  BY DEF RowsInv, RowType, Runs
<1>8. /\ DOMAIN rejected = Runs /\ DOMAIN cont = Runs
  BY DEF MiscType
<1>9. CASE f
  <2>1. rejected'[p] = n /\ \A q \in Runs : q # p => rejected'[q] = rejected[q]
    BY <1>1, <1>9, <1>8
  <2>2. (\A q \in Runs : rejected[q] # 0 => Child(q, rejected[q]))'
    BY <2>1, <1>4, <1>5, <1>6 DEF LinksInv
  <2>3. (\A q \in Runs : cont[q].child # 0 => Child(q, cont[q].child))'
    BY <1>9, <1>5, <1>6 DEF LinksInv
  <2>4. \A r \in Runs : run[r].parent = p => ~run[r].force
    BY <1>9, <1>7 DEF LinksInv, Runs
  <2>5. \A r \in Runs : run'[r].parent # 0 /\ run'[r].force => rejected'[run'[r].parent] = r
    BY <1>2, <1>7, <1>9, <2>1, <2>4 DEF LinksInv
  <2>6. \A r \in Runs : run'[r].parent # 0 /\ ~run'[r].force
          => cont'[run'[r].parent].child = r /\ run'[r].attempt <= MaxRetries
    BY <1>2, <1>7, <1>9 DEF LinksInv
  <2> QED BY <2>2, <2>3, <2>5, <2>6 DEF LinksInv
<1>10. CASE ~f
  <2>1. cont'[p].child = n /\ \A q \in Runs : q # p => cont'[q] = cont[q]
    BY <1>1, <1>10, <1>8
  <2>2. (\A q \in Runs : cont[q].child # 0 => Child(q, cont[q].child))'
    BY <2>1, <1>4, <1>5, <1>6 DEF LinksInv
  <2>3. (\A q \in Runs : rejected[q] # 0 => Child(q, rejected[q]))'
    BY <1>10, <1>5, <1>6 DEF LinksInv
  <2>4. \A r \in Runs : run[r].parent = p => run[r].force
    BY <1>10, <1>7 DEF LinksInv, Runs
  <2>5. \A r \in Runs : run'[r].parent # 0 /\ run'[r].force => rejected'[run'[r].parent] = r
    BY <1>2, <1>7, <1>10 DEF LinksInv
  <2>6. run'[n].attempt <= MaxRetries
    BY <1>2, <1>10 DEF RowsInv, RowType
  <2>7. \A r \in Runs : run'[r].parent # 0 /\ ~run'[r].force
          => cont'[run'[r].parent].child = r /\ run'[r].attempt <= MaxRetries
    BY <1>2, <1>7, <1>10, <2>1, <2>4, <2>6 DEF LinksInv
  <2> QED BY <2>2, <2>3, <2>5, <2>7 DEF LinksInv
<1> QED BY <1>9, <1>10

-----------------------------------------------------------------------------
(* Steps in general.                                                       *)

LEMMA PlainKeeps ==
    ASSUME Inv, PlainStep, confirmed \subseteq confirmed'
    PROVE  RowsInv' /\ Alone' /\ Approved' /\ Keeps /\ NoRetry /\ FreshBut(0)
BY PlainFresh, RowsAfter DEF Inv

LEMMA CallStepInv ==
    ASSUME Inv, NEW c \in Calls, PlainStep, confirmed \subseteq confirmed', SameChildren, MiscType',
           CallStepped(c), boot' = boot,
           \A e \in execs' : e \in execs \/ (e \in ExecRec /\ (Begun(e.r) \/ Begun(e.r)')),
           \A h \in heals' : h \in heals \/ HealOK(h)'
    PROVE  Inv'
<1>1. RowsInv' /\ Alone' /\ Approved' /\ Keeps /\ NoRetry /\ FreshBut(0)
  BY PlainKeeps
<1>2. LinksInv'
  BY <1>1, LinksKept DEF Inv
<1>3. CallsInv'
  BY <1>1, CallsAfter DEF Inv
<1>4. ExecsInv'
  BY <1>1, ExecsKept DEF Inv
<1>5. HealsInv'
  BY <1>1, HealsKept DEF Inv
<1>6. BootInv'
  BY <1>1, BootKept DEF Inv, SameChildren
<1> QED BY <1>1, <1>2, <1>3, <1>4, <1>5, <1>6 DEF Inv

\* Steps of the other tasks leave the requests alone.
LEMMA TaskStepInv ==
    ASSUME Inv, PlainStep, confirmed' = confirmed, SameChildren, MiscType', call' = call,
           boot' = boot \/ BootInv',
           \A e \in execs' : e \in execs \/ (e \in ExecRec /\ (Begun(e.r) \/ Begun(e.r)')),
           \A h \in heals' : h \in heals \/ HealOK(h)'
    PROVE  Inv'
<1>1. RowsInv' /\ Alone' /\ Approved' /\ Keeps /\ NoRetry /\ FreshBut(0)
  BY PlainKeeps
<1>2. LinksInv'
  BY <1>1, LinksKept DEF Inv
<1>3. CallsInv'
  BY <1>1, CallsKept DEF Inv
<1>4. ExecsInv'
  BY <1>1, ExecsKept DEF Inv
<1>5. HealsInv'
  BY <1>1, HealsKept DEF Inv
<1>6. BootInv'
  BY <1>1, BootKept DEF Inv, SameChildren
<1> QED BY <1>1, <1>2, <1>3, <1>4, <1>5, <1>6 DEF Inv

\* What the ways to change a request's record do.
LEMMA DoneStep ==
    ASSUME CallType, NEW c \in Calls, Done(c)
    PROVE  CallStepped(c)
<1>1. Finished \in CallRec /\ Finished.at = "done"
  BY AdmissionAssumption DEF Finished, CallRec, CallPlaces, Estimating, Walking
<1>2. CallType' /\ call'[c] = Finished /\ \A d \in Calls \ {c} : call'[d] = call[d]
  BY <1>1 DEF CallType, Done
<1>3. call'[c].at = "done"
  BY <1>1, <1>2
<1> QED BY <1>2, <1>3 DEF CallStepped, CallMoves, CallOK, Estimating, Walking

LEMMA GoesStep ==
    ASSUME CallType, NEW c \in Calls, NEW at \in CallPlaces, Goes(c, at)
    PROVE  /\ CallType' /\ \A d \in Calls \ {c} : call'[d] = call[d]
           /\ call'[c].at = at /\ call'[c].op = call[c].op /\ call'[c].r = call[c].r
           /\ call'[c].list = call[c].list /\ call'[c].i = call[c].i
BY DEF CallType, CallRec, Goes

LEMMA OpensStep ==
    ASSUME CallType, NEW c \in Calls, NEW at \in CallPlaces,
           NEW op \in {"none", "queue", "ask", "sweep", "confirm", "hold", "stop", "reject"},
           NEW r \in 0 .. MaxRuns, NEW list \in Seq(Runs), Opens(c, op, at, r, list)
    PROVE  /\ CallType' /\ \A d \in Calls \ {c} : call'[d] = call[d]
           /\ call'[c].at = at /\ call'[c].r = r /\ call'[c].list = list /\ call'[c].i = 1
BY DEF CallType, CallRec, Opens

LEMMA OpensBare ==
    ASSUME CallType, NEW c \in Calls, NEW at \in CallPlaces,
           NEW op \in {"none", "queue", "ask", "sweep", "confirm", "hold", "stop", "reject"},
           NEW r \in 0 .. MaxRuns, Opens(c, op, at, r, <<>>)
    PROVE  /\ CallType' /\ \A d \in Calls \ {c} : call'[d] = call[d]
           /\ call'[c].at = at /\ call'[c].r = r /\ call'[c].list = <<>>
BY DEF CallType, CallRec, Opens

LEMMA RewindStep ==
    ASSUME CallType, NEW c \in Calls, NEW at \in CallPlaces,
           call' = [call EXCEPT ![c].at = at, ![c].i = 1]
    PROVE  /\ CallType' /\ \A d \in Calls \ {c} : call'[d] = call[d]
           /\ call'[c].at = at /\ call'[c].r = call[c].r
           /\ call'[c].list = call[c].list /\ call'[c].i = 1
BY DEF CallType, CallRec

LEMMA AdvanceStep ==
    ASSUME CallType, NEW c \in Calls, NEW at \in CallPlaces, Advance(c, at)
    PROVE  /\ CallType' /\ \A d \in Calls \ {c} : call'[d] = call[d]
           /\ call'[c].at = at /\ call'[c].r = call[c].r
           /\ call'[c].list = call[c].list /\ call'[c].i = call[c].i + 1
BY DEF CallType, CallRec, Advance

-----------------------------------------------------------------------------
(* Requests.                                                               *)

\* A group is named in the order of its runs.
LEMMA TargetsAre ==
    ASSUME RowsInv, NEW r \in Runs, NEW list \in Targets(r)
    PROVE  list \in Seq(Runs) /\ list # <<>>
<1>1. CASE IsSweep(r)
  <2> DEFINE S == Members(run[r].grp)
  <2>1. S \subseteq Runs /\ r \in S
    BY DEF Members
  <2>2. IsFiniteSet(Runs)
    BY FS_Interval, AdmissionAssumption DEF Runs
  <2>3. IsFiniteSet(S)
    BY <2>1, <2>2, FS_Subset
  <2>4. Cardinality(S) \in Nat /\ Cardinality(S) # 0
    BY <2>1, <2>3, FS_CardinalityType, FS_EmptySet
  <2>5. list \in [1 .. Cardinality(S) -> S]
    BY <1>1 DEF Targets, Ascending
  <2> HIDE DEF S
  <2>6. list \in [1 .. Cardinality(S) -> Runs]
    BY <2>1, <2>5
  <2>7. list \in Seq(Runs) /\ Len(list) = Cardinality(S)
    BY <2>4, <2>6, SeqDef, LenProperties
  <2> QED BY <2>4, <2>7
<1>2. CASE ~IsSweep(r)
  <2>1. list = <<r>>
    BY <1>2 DEF Targets
  <2> QED BY <2>1
<1> QED BY <1>1, <1>2

LEMMA RequestInv ==
    ASSUME Inv, NEW c \in Calls, Request(c)
    PROVE  Inv'
<1> USE AdmissionAssumption
<1> DEFINE Quiet == run' = run /\ execs' = execs /\ heals' = heals /\ boot' = boot
<1>0. CallType /\ CallOK(c) /\ MiscType
  BY DEF Inv, CallsInv
<1>1. ASSUME NEW op \in {"queue", "ask", "sweep"}, Opens(c, op, "create", 0, <<>>)
      PROVE  CallStepped(c)
  <2>1. "create" \in CallPlaces /\ <<>> \in Seq(Runs) /\ 0 \in 0 .. MaxRuns
    BY DEF CallPlaces
  <2>2. /\ CallType' /\ \A d \in Calls \ {c} : call'[d] = call[d]
        /\ call'[c].at = "create" /\ call'[c].list = <<>>
    BY <1>0, <1>1, <2>1, OpensBare
  <2> QED BY <2>2 DEF CallStepped, CallMoves, CallOK, Estimating, Walking
<1>2. CASE Queue(c) \/ Ask(c) \/ AskSweep(c)
  <2>1. CallStepped(c)
    BY <1>1, <1>2 DEF Queue, Ask, AskSweep
  <2>2. Quiet /\ SameChildren /\ confirmed' = confirmed /\ MiscType'
    BY <1>0, <1>2 DEF Queue, Ask, AskSweep, rowVars, memVars, CallOnly, SameChildren, MiscType
  <2> QED BY <2>1, <2>2, CallStepInv DEF PlainStep
<1>3. ASSUME NEW r \in Runs, Confirm(c, r) PROVE Inv'
  <2>1. PICK list \in Targets(r) :
          /\ Opens(c, "confirm", IF IsSweep(r) THEN "validate" ELSE "claim", r, list)
          /\ confirmed' = confirmed \cup {list[j] : j \in DOMAIN list}
    BY <1>3 DEF Confirm
  <2> DEFINE at == IF IsSweep(r) THEN "validate" ELSE "claim"
  <2>2. list \in Seq(Runs) /\ list # <<>>
    BY TargetsAre DEF Inv
  <2>3. at \in CallPlaces /\ at \in {"validate", "claim"} /\ r \in 0 .. MaxRuns
    BY DEF CallPlaces, Runs
  <2>4. /\ CallType' /\ \A d \in Calls \ {c} : call'[d] = call[d]
        /\ call'[c].at = at /\ call'[c].r = r /\ call'[c].list = list
    <3> HIDE DEF at
    <3> QED BY <1>0, <2>1, <2>2, <2>3, OpensStep DEF at
  <2>5. \A j \in 1 .. Len(list) : list[j] \in Runs /\ list[j] \in confirmed'
    BY <2>1, <2>2
  <2>6. at = "claim" => r \in confirmed'
    BY <2>1, <2>5 DEF Targets
  <2>7. run' = run /\ run[r].st = "waiting"
    BY <1>3 DEF Confirm, rowVars
  <2> HIDE DEF at
  <2>8. CallStepped(c)
    BY <2>2, <2>3, <2>4, <2>5, <2>6, <2>7
       DEF CallStepped, CallMoves, CallOK, Estimating, Walking, Cleared
  <2>9. confirmed' \in SUBSET Runs /\ confirmed \subseteq confirmed'
    BY <1>0, <2>1, <2>2, <2>5 DEF MiscType
  <2>10. Quiet /\ SameChildren /\ MiscType'
    BY <1>0, <1>3, <2>9 DEF Confirm, rowVars, memVars, SameChildren, MiscType
  <2> QED BY <2>8, <2>9, <2>10, CallStepInv DEF PlainStep
<1>4. ASSUME NEW r \in Runs, Hold(c, r) PROVE Inv'
  <2>1. PICK list \in Targets(r) : Opens(c, "hold", "hold", r, list)
    BY <1>4 DEF Hold
  <2>2. list \in Seq(Runs) /\ list # <<>>
    BY TargetsAre DEF Inv
  <2>3. "hold" \in CallPlaces /\ r \in 0 .. MaxRuns
    BY DEF CallPlaces, Walking, Runs
  <2>4. /\ CallType' /\ \A d \in Calls \ {c} : call'[d] = call[d]
        /\ call'[c].at = "hold" /\ call'[c].list = list /\ call'[c].i = 1
    BY <1>0, <2>1, <2>2, <2>3, OpensStep
  <2>5. CallStepped(c)
    BY <2>2, <2>4 DEF CallStepped, CallMoves, CallOK, Estimating, Walking
  <2>6. Quiet /\ SameChildren /\ confirmed' = confirmed /\ MiscType'
    BY <1>0, <1>4 DEF Hold, rowVars, memVars, CallOnly, SameChildren, MiscType
  <2> QED BY <2>5, <2>6, CallStepInv DEF PlainStep
<1>5. ASSUME NEW r \in Runs, Stop(c, r) PROVE Inv'
  <2>1. PICK t \in StopTarget(r) : IsActive(t) /\ Opens(c, "stop", "signal", t, <<>>)
    BY <1>5 DEF Stop
  <2>2. t \in Runs
    BY DEF StopTarget, Least, Members
  <2>3. "signal" \in CallPlaces /\ t \in 0 .. MaxRuns /\ <<>> \in Seq(Runs)
    BY <2>2 DEF CallPlaces, Runs
  <2>4. /\ CallType' /\ \A d \in Calls \ {c} : call'[d] = call[d]
        /\ call'[c].at = "signal" /\ call'[c].r = t
    BY <1>0, <2>1, <2>3, OpensBare
  <2>5. run' = run /\ run[t].st # "none"
    BY <1>5, <2>1 DEF Stop, rowVars, IsActive, ActiveStates
  <2>6. CallStepped(c)
    BY <2>2, <2>4, <2>5 DEF CallStepped, CallMoves, CallOK, Estimating, Walking
  <2>7. Quiet /\ SameChildren /\ confirmed' = confirmed /\ MiscType'
    BY <1>0, <1>5 DEF Stop, rowVars, memVars, CallOnly, SameChildren, MiscType
  <2> QED BY <2>6, <2>7, CallStepInv DEF PlainStep
<1>6. ASSUME NEW r \in Runs, Reject(c, r) PROVE Inv'
  <2>1. run[r].st \in Terminal /\ Opens(c, "reject", "derive", r, <<>>)
    BY <1>6 DEF Reject
  <2>2. "derive" \in CallPlaces /\ r \in 0 .. MaxRuns /\ <<>> \in Seq(Runs)
    BY DEF CallPlaces, Runs
  <2>3. /\ CallType' /\ \A d \in Calls \ {c} : call'[d] = call[d]
        /\ call'[c].at = "derive" /\ call'[c].r = r
    BY <1>0, <2>1, <2>2, OpensBare
  <2>4. run' = run /\ run[r].st # "none"
    BY <1>6, <2>1 DEF Reject, rowVars, Terminal
  <2>5. CallStepped(c)
    BY <2>1, <2>3, <2>4 DEF CallStepped, CallMoves, CallOK, Estimating, Walking
  <2>6. Quiet /\ SameChildren /\ confirmed' = confirmed /\ MiscType'
    BY <1>0, <1>6 DEF Reject, rowVars, memVars, CallOnly, SameChildren, MiscType
  <2> QED BY <2>5, <2>6, CallStepInv DEF PlainStep
<1> QED BY <1>2, <1>3, <1>4, <1>5, <1>6 DEF Request

-----------------------------------------------------------------------------
(* Estimates, the cost gate and the claim.                                 *)

LEMMA UnlockType ==
    ASSUME MiscType, NEW c \in Calls, Unlock(c)
    PROVE  queueLock' \in Calls \cup {NoCall}
BY DEF MiscType, Unlock

LEMMA FlagTypes ==
    ASSUME MiscType, NEW r, NEW t \in Tags, PutFlag(r, t) \/ DropFlag(r)
    PROVE  flag' \in [Runs -> Tags \cup {NoCall}]
BY DEF MiscType, PutFlag, DropFlag

LEMMA CreateInv ==
    ASSUME Inv, NEW c \in Calls, Create(c)
    PROVE  Inv'
<1> USE AdmissionAssumption
<1>0. CallType /\ CallOK(c) /\ MiscType /\ RowsInv /\ At(c, "create")
  BY DEF Inv, CallsInv, Create
<1>1. /\ execs' = execs /\ heals' = heals /\ boot' = boot /\ SameChildren /\ confirmed' = confirmed
      /\ work' = work /\ cont' = cont /\ rejected' = rejected /\ intent' = intent /\ flag' = flag
      /\ signalled' = signalled /\ crashes' = crashes
  BY DEF Create, memVars, CallOnly, SameChildren
<1>2. CASE Busy(0, GroupOf(c)) \/ ~Room(1)
  <2>1. run' = run /\ Done(c) /\ Unlock(c)
    BY <1>2 DEF Create, Returns
  <2>2. MiscType'
    BY <1>0, <1>1, <2>1, UnlockType DEF MiscType
  <2>3. CallStepped(c)
    BY <1>0, <2>1, DoneStep
  <2> QED BY <1>1, <2>1, <2>2, <2>3, CallStepInv DEF PlainStep
<1>3. CASE ~Busy(0, GroupOf(c)) /\ Room(1)
  <2>1. PICK n \in Runs : n = Latest + 1 /\ run[n].st = "none"
    BY <1>0, <1>3 DEF RowsInv, Room, Runs
  <2>2. /\ Insert(NewRun(GroupOf(c))) /\ queueLock' = queueLock
        /\ call' = [call EXCEPT ![c].at = "flag", ![c].r = n, ![c].list = Append(@, n)]
    BY <1>3, <2>1 DEF Create
  <2>3. call[c] \in CallRec /\ call[c].list \in Seq(Runs)
    BY <1>0 DEF CallType, CallRec
  <2>4. GroupOf(c) \in 0 .. MaxRuns
    BY <2>1, <2>3 DEF GroupOf, Runs
  <2>5. Asked
    BY <1>3, <2>2, <2>4 DEF Asked
  <2>6. run'[n] = NewRun(GroupOf(c)) /\ \A o \in Runs : o # n => run'[o] = run[o]
    BY <1>0, <2>1, <2>2 DEF Insert, RowsInv
  <2>7. run'[n].st = "estimating"
    BY <2>6 DEF NewRun
  <2>8. n \in 0 .. MaxRuns /\ "flag" \in CallPlaces
    BY DEF Runs, CallPlaces, Estimating
  <2>9. /\ CallType' /\ \A d \in Calls \ {c} : call'[d] = call[d]
        /\ call'[c].at = "flag" /\ call'[c].r = n /\ call'[c].list = Append(call[c].list, n)
    <3>1. PICK list \in Seq(Runs) : list = Append(call[c].list, n)
      BY <2>1, <2>3, AppendProperties
    <3>2. call' = [call EXCEPT ![c].at = "flag", ![c].r = n, ![c].list = list]
      BY <2>2, <3>1
    <3>3. /\ CallType' /\ \A d \in Calls \ {c} : call'[d] = call[d]
          /\ call'[c].at = "flag" /\ call'[c].r = n /\ call'[c].list = list
      <4>1. PICK m \in [Calls -> CallRec] : m = [call EXCEPT ![c].at = "flag", ![c].r = n]
        BY <1>0, <2>8 DEF CallType, CallRec
      <4>2. /\ \A d \in Calls \ {c} : m[d] = call[d]
            /\ m[c].at = "flag" /\ m[c].r = n
        BY <1>0, <2>8, <4>1 DEF CallType, CallRec
      <4>3. call' = [m EXCEPT ![c].list = list]
        BY <3>2, <4>1
      <4>4. call' \in [Calls -> CallRec]
        BY <3>1, <4>3 DEF CallRec
      <4> QED BY <4>2, <4>3, <4>4 DEF CallType, CallRec
    <3> QED BY <3>1, <3>3
  <2>10. /\ Len(Append(call[c].list, n)) = Len(call[c].list) + 1
         /\ Append(call[c].list, n) # <<>>
         /\ Append(call[c].list, n)[Len(call[c].list) + 1] = n
         /\ \A j \in 1 .. Len(call[c].list) : Append(call[c].list, n)[j] = call[c].list[j]
    BY <2>1, <2>3, AppendProperties
  <2>11. \A j \in 1 .. Len(call[c].list) : Settled(call[c].list[j]) /\ call[c].list[j] \in Runs
    BY <1>0, <2>3 DEF CallOK, At, Estimating
  <2>12. \A j \in 1 .. Len(call[c].list) : run'[call[c].list[j]] = run[call[c].list[j]]
    BY <2>1, <2>6, <2>11 DEF Settled
  <2>13. CallOK(c)'
    <3> DEFINE l == call[c].list
               m == Append(l, n)
    <3>1. Len(l) \in Nat /\ Len(m) = Len(l) + 1
      BY <2>3, <2>10
    <3>2. \A j \in 1 .. Len(m) : j \in 1 .. Len(l) \/ j = Len(m)
      BY <3>1
    <3>3. \A j \in 1 .. Len(l) : m[j] = l[j] /\ Settled(l[j]) /\ run'[l[j]] = run[l[j]]
      BY <2>10, <2>11, <2>12
    <3>4. \A j \in 1 .. Len(m) : (\E k \in Runs : k = m[j] /\ Settled(k)') \/ j = Len(m)
      BY <2>11, <3>2, <3>3 DEF Settled
    <3>5. m # <<>> /\ m[Len(m)] = n /\ Fresh(n)'
      BY <2>7, <2>10 DEF Fresh
    <3>6. call'[c].at = "flag" /\ call'[c].r = n /\ call'[c].list = m
      BY <2>9
    <3> HIDE DEF l, m
    <3> QED BY <2>7, <3>4, <3>5, <3>6 DEF CallOK, Estimating, Walking
  <2>14. CallStepped(c)
    BY <2>1, <2>9, <2>13 DEF CallStepped, CallMoves
  <2>15. MiscType'
    BY <1>0, <1>1, <2>2 DEF MiscType
  <2> QED BY <1>1, <2>5, <2>14, <2>15, CallStepInv DEF PlainStep
<1> QED BY <1>2, <1>3

\* An estimate may end by itself, by a stop or by an error.
LEMMA EndEstimateInv ==
    ASSUME Inv, NEW c \in Calls, NEW at \in {"cancel", "fail"}, NEW st \in {"interrupted", "failed"},
           EndEstimate(c, at, st)
    PROVE  Inv'
<1> DEFINE r == call[c].r
<1>0. /\ CallType /\ MiscType /\ call[c].at = at /\ call[c].r \in Runs
      /\ Fresh(call[c].r) /\ Done(c) /\ Unlock(c)
  BY DEF Inv, CallsInv, CallOK, EndEstimate, At, Estimating, Returns
<1>1. /\ execs' = execs /\ heals' = heals /\ boot' = boot /\ SameChildren /\ confirmed' = confirmed
      /\ work' = work /\ cont' = cont /\ rejected' = rejected /\ intent' = intent
      /\ signalled' = signalled /\ crashes' = crashes
  BY DEF EndEstimate, CallOnly, SameChildren
<1>2. PlainStep
  <2>1. CASE Accepts(call[c].r, st)
    <3>1. SetStatus(call[c].r, st)
      BY <2>1 DEF EndEstimate
    <3>2. MayMove(call[c].r, st) /\ st \in States
      BY <1>0, <2>1 DEF MayMove, Accepts, Fresh, States, Terminal
    <3> QED BY <1>0, <3>1, <3>2 DEF PlainStep, Moved
  <2>2. CASE ~Accepts(call[c].r, st)
    BY <2>2 DEF PlainStep, EndEstimate
  <2> QED BY <2>1, <2>2
<1>3. flag' = flag \/ DropFlag(call[c].r)
  BY DEF EndEstimate
<1>4. MiscType'
  BY <1>0, <1>1, <1>3, UnlockType DEF MiscType, DropFlag, PutFlag
<1>5. CallStepped(c)
  BY <1>0, DoneStep
<1> QED BY <1>1, <1>2, <1>4, <1>5, CallStepInv

LEMMA SaveEstimateInv ==
    ASSUME Inv, NEW c \in Calls, NEW cost \in {"cheap", "dear"}, SaveEstimate(c, cost)
    PROVE  Inv'
<1>0. /\ CallType /\ MiscType /\ CallOK(c) /\ call[c].at = "save" /\ call[c].r \in Runs
      /\ Fresh(call[c].r) /\ call[c].at \in Estimating /\ call[c] \in CallRec
  BY DEF Inv, CallsInv, CallOK, SaveEstimate, At, Estimating, CallType
<1>1. /\ execs' = execs /\ heals' = heals /\ boot' = boot /\ SameChildren /\ confirmed' = confirmed
      /\ work' = work /\ cont' = cont /\ rejected' = rejected /\ intent' = intent
      /\ signalled' = signalled /\ crashes' = crashes /\ flag' = flag
  BY DEF SaveEstimate, CallOnly, SameChildren, memVars
<1>2. MiscType'
  BY <1>0, <1>1, UnlockType DEF MiscType, SaveEstimate, Returns
<1>3. CASE run[call[c].r].st \in Terminal
  <2>1. run' = run /\ Done(c)
    BY <1>3 DEF SaveEstimate, Returns
  <2>2. CallStepped(c)
    BY <1>0, <2>1, DoneStep
  <2> QED BY <1>1, <1>2, <2>1, <2>2, CallStepInv DEF PlainStep
<1>4. CASE run[call[c].r].st \notin Terminal
  <2>1. /\ run' = [run EXCEPT ![call[c].r].st = "waiting", ![call[c].r].cost = cost]
        /\ Goes(c, "saved")
    BY <1>4 DEF SaveEstimate
  <2>2. Priced(call[c].r)
    BY <1>0, <1>4, <2>1 DEF Priced, Fresh
  <2>3. NoRetry /\ RowStep /\ FreshBut(call[c].r)
    BY <1>0, <2>2, PricedFresh DEF Inv
  <2>4. RowsInv' /\ Alone' /\ Approved' /\ Keeps
    BY <1>1, <2>3, RowsAfter DEF Inv
  <2>5. "saved" \in CallPlaces
    BY DEF CallPlaces
  <2>6. /\ CallType' /\ \A d \in Calls \ {c} : call'[d] = call[d]
        /\ call'[c].at = "saved" /\ call'[c].r = call[c].r /\ call'[c].list = call[c].list
    BY <1>0, <2>1, <2>5, GoesStep
  <2>7. run'[call[c].r].st = "waiting"
    BY <1>0, <2>1 DEF Inv, RowsInv, RowType
  <2>8. \A j \in 1 .. Len(call[c].list) :
          /\ call[c].list[j] \in Runs
          /\ Settled(call[c].list[j]) \/ call[c].list[j] = call[c].r
    BY <1>0 DEF CallOK, CallRec
  <2>9. \A j \in 1 .. Len(call[c].list) :
          run'[call[c].list[j]].st # "none" /\ run'[call[c].list[j]].st # "estimating"
    BY <2>4, <2>7, <2>8 DEF Keeps, Settled
  <2>10. CallOK(c)'
    BY <1>0, <2>6, <2>7, <2>9 DEF CallOK, Estimating, Walking, Settled
  <2>11. CallStepped(c)
    BY <2>6, <2>10 DEF CallStepped, CallMoves, Estimating
  <2>12. CallsInv'
    BY <1>0, <2>3, <2>4, <2>11, CallsAfter DEF Inv
  <2>13. LinksInv'
    BY <1>1, <2>3, <2>4, LinksKept DEF Inv
  <2>14. ExecsInv' /\ HealsInv' /\ BootInv'
    BY <1>1, <2>4, ExecsKept, HealsKept, BootKept DEF Inv
  <2> QED BY <1>2, <2>4, <2>12, <2>13, <2>14 DEF Inv
<1> QED BY <1>3, <1>4

\* A status change that a guard of the store allows.
LEMMA Admits ==
    ASSUME Inv, NEW r \in Runs, SetStatus(r, "running"),
           \/ Claimable(r, "waiting") /\ Cleared(r)
           \/ Claimable(r, "queued") \/ Swappable(r, "queued", "running")
    PROVE  PlainStep /\ run'[r].st = "running"
<1>1. run[r].st \in {"waiting", "queued"} /\ ~Busy(r, run[r].grp)
  BY DEF Claimable, Swappable, ActiveStates
<1>2. Cleared(r)
  BY DEF Claimable, Swappable, Inv, Approved
<1>3. MayMove(r, "running") /\ "running" \in States
  BY <1>1, <1>2 DEF MayMove, States, ActiveStates
<1>4. run'[r].st = "running"
  BY DEF SetStatus, Inv, RowsInv, RowType
<1> QED BY <1>3, <1>4 DEF PlainStep, Moved

LEMMA FlagAndEstimateInv ==
    ASSUME Inv, NEW c \in Calls, InsertFlag(c) \/ Estimate(c)
    PROVE  Inv'
<1>0. /\ CallType /\ MiscType /\ CallOK(c) /\ call[c].at \in {"flag", "estimate"}
      /\ c \in Tags
  BY DEF Inv, CallsInv, InsertFlag, Estimate, At, Tags
<1>1. /\ run' = run /\ execs' = execs /\ heals' = heals /\ boot' = boot /\ SameChildren
      /\ confirmed' = confirmed
  BY DEF InsertFlag, Estimate, CallOnly, SameChildren, rowVars, memVars
<1>2. MiscType'
  <2>1. flag' \in [Runs -> Tags \cup {NoCall}]
    BY <1>0, FlagTypes DEF InsertFlag, Estimate, memVars, MiscType
  <2> QED BY <1>0, <2>1 DEF InsertFlag, Estimate, CallOnly, rowVars, memVars, MiscType
<1>3. PICK at \in {"estimate", "cancel", "fail", "save"} : Goes(c, at)
  BY DEF InsertFlag, Estimate
<1>4. /\ CallType' /\ \A d \in Calls \ {c} : call'[d] = call[d]
      /\ call'[c].at = at /\ call'[c].r = call[c].r /\ call'[c].list = call[c].list
  BY <1>0, <1>3, GoesStep DEF CallPlaces, Estimating
<1>5. CallOK(c)'
  BY <1>0, <1>1, <1>4 DEF CallOK, Estimating, Walking, Fresh, Settled
<1>6. CallStepped(c)
  BY <1>0, <1>4, <1>5 DEF CallStepped, CallMoves, Estimating
<1> QED BY <1>1, <1>2, <1>6, CallStepInv DEF PlainStep

LEMMA DecideInv ==
    ASSUME Inv, NEW c \in Calls, Decide(c)
    PROVE  Inv'
<1>0. /\ CallType /\ MiscType /\ CallOK(c) /\ call[c].at = "saved" /\ call[c] \in CallRec
  BY DEF Inv, CallsInv, Decide, At, CallType
<1>1. /\ run' = run /\ execs' = execs /\ heals' = heals /\ boot' = boot /\ SameChildren
      /\ confirmed' = confirmed /\ DropFlag(call[c].r)
  BY DEF Decide, CallOnly, SameChildren, rowVars
<1>2. MiscType'
  <2>1. flag' \in [Runs -> Tags \cup {NoCall}]
    BY <1>0, <1>1 DEF DropFlag, PutFlag, MiscType
  <2>2. queueLock' \in Calls \cup {NoCall}
    BY <1>0, UnlockType DEF Decide, Returns, MiscType
  <2> QED BY <1>0, <2>1, <2>2 DEF Decide, CallOnly, rowVars, MiscType
<1> DEFINE asked == {call[c].list[j] : j \in DOMAIN call[c].list}
<1>3. /\ call[c].list \in Seq(Runs) /\ DOMAIN call[c].list = 1 .. Len(call[c].list)
      /\ \A j \in 1 .. Len(call[c].list) : Settled(call[c].list[j])
  BY <1>0 DEF CallRec, CallOK, Estimating
<1>4. call[c].r \in asked
  BY <1>0, <1>3 DEF CallOK
<1>5. CASE Done(c)
  BY <1>0, <1>1, <1>2, <1>5, DoneStep, CallStepInv DEF PlainStep
<1>6. ASSUME NEW at \in {"create", "validate", "claim"}, Goes(c, at), at = "create" \/ Automatic(asked)
      PROVE  Inv'
  <2>1. /\ CallType' /\ \A d \in Calls \ {c} : call'[d] = call[d]
        /\ call'[c].at = at /\ call'[c].r = call[c].r /\ call'[c].list = call[c].list
    BY <1>0, <1>6, GoesStep DEF CallPlaces
  <2>2. at # "create" => \A r \in asked : Cleared(r)
    BY <1>3, <1>6 DEF Automatic, Cleared
  <2>3. at # "create" => Cleared(call[c].r) /\ \A j \in 1 .. Len(call[c].list) : Cleared(call[c].list[j])
    BY <1>3, <1>4, <2>2
  <2>4. CallOK(c)'
    BY <1>0, <1>1, <1>3, <1>6, <2>1, <2>3 DEF CallOK, Estimating, Walking, Settled, Cleared
  <2>5. CallStepped(c)
    BY <1>6, <2>1, <2>4 DEF CallStepped, CallMoves, Estimating
  <2> QED BY <1>1, <1>2, <2>5, CallStepInv DEF PlainStep
<1> QED BY <1>5, <1>6 DEF Decide, Returns

LEMMA ClaimInv ==
    ASSUME Inv, NEW c \in Calls, StartClaim(c) \/ FinishClaim(c)
    PROVE  Inv'
<1>0. /\ CallType /\ MiscType /\ CallOK(c) /\ c \in Tags
      /\ call[c].at \in {"claim", "cas"} /\ call[c].r \in Runs /\ Cleared(call[c].r)
  BY DEF Inv, CallsInv, StartClaim, FinishClaim, At, CallOK, Tags
<1>1. /\ heals' = heals /\ boot' = boot /\ SameChildren /\ confirmed' = confirmed
  BY DEF StartClaim, FinishClaim, CallOnly, SameChildren
<1>2. MiscType'
  <2>1. flag' \in [Runs -> Tags \cup {NoCall}]
    BY <1>0, FlagTypes DEF StartClaim, FinishClaim, PrepareClaim, MiscType
  <2>2. queueLock' \in Calls \cup {NoCall}
    BY <1>0, UnlockType DEF StartClaim, FinishClaim, Returns, MiscType
  <2>3. intent' \in SUBSET Runs
    BY <1>0 DEF StartClaim, FinishClaim, PrepareClaim, MiscType
  <2>4. UNCHANGED <<work, cont, rejected, signalled, crashes, confirmed>>
    BY DEF StartClaim, FinishClaim, CallOnly
  <2> QED BY <1>0, <2>1, <2>2, <2>3, <2>4 DEF MiscType
<1>3. CASE Done(c) /\ run' = run /\ execs' = execs
  BY <1>0, <1>1, <1>2, <1>3, DoneStep, CallStepInv DEF PlainStep
<1>4. CASE Goes(c, "cas") /\ run' = run /\ execs' = execs
  <2>1. /\ CallType' /\ \A d \in Calls \ {c} : call'[d] = call[d]
        /\ call'[c].at = "cas" /\ call'[c].r = call[c].r /\ call'[c].list = call[c].list
    BY <1>0, <1>4, GoesStep DEF CallPlaces
  <2>2. CallOK(c)'
    BY <1>0, <1>1, <1>4, <2>1 DEF CallOK, Estimating, Walking, Settled, Cleared
  <2>3. CallStepped(c)
    BY <2>1, <2>2 DEF CallStepped, CallMoves, Estimating
  <2> QED BY <1>1, <1>2, <1>4, <2>3, CallStepInv DEF PlainStep
<1>5. CASE /\ Claimable(call[c].r, "waiting") /\ SetStatus(call[c].r, "running") /\ Done(c)
           /\ execs' = execs \cup {Executor(call[c].r, c, "heal")}
  <2>1. PlainStep /\ run'[call[c].r].st = "running"
    BY <1>0, <1>5, Admits
  <2>2. /\ Executor(call[c].r, c, "heal") \in ExecRec
        /\ Executor(call[c].r, c, "heal").r = call[c].r
    BY <1>0 DEF Executor, ExecRec
  <2>3. PICK r \in Runs : r = call[c].r
    BY <1>0
  <2>4. Begun(r)'
    BY <2>1, <2>3 DEF Begun
  <2>5. \A e \in execs' : e \in execs \/ (e \in ExecRec /\ (Begun(e.r) \/ Begun(e.r)'))
    BY <1>5, <2>2, <2>3, <2>4
  <2> QED BY <1>0, <1>1, <1>2, <1>5, <2>1, <2>5, DoneStep, CallStepInv
<1> QED BY <1>3, <1>4, <1>5 DEF StartClaim, FinishClaim, Returns

-----------------------------------------------------------------------------
(* Sweeps: the group in the order of its runs.                             *)

LEMMA ItemIn ==
    ASSUME Inv, NEW c \in Calls, call[c].at \in Walking
    PROVE  /\ Item(c) \in Runs /\ call[c].i \in 1 .. Len(call[c].list)
           /\ call[c].list \in Seq(Runs) /\ CallType /\ CallOK(c) /\ MiscType
BY DEF Inv, CallsInv, CallType, CallRec, CallOK, Item

LEMMA WalkStep ==
    ASSUME Inv, NEW c \in Calls, call[c].at \in Walking, NEW at \in Walking,
           \/ ~IsLast(c) /\ Advance(c, at)
           \/ Goes(c, at)
           \/ call' = [call EXCEPT ![c].at = at, ![c].i = 1],
           at = "enqueue" => \A j \in 1 .. Len(call[c].list) : Cleared(call[c].list[j])'
    PROVE  CallStepped(c)
<1>0. /\ call[c].i \in 1 .. Len(call[c].list) /\ call[c].list \in Seq(Runs) /\ CallType
      /\ at \in CallPlaces
  BY ItemIn DEF CallPlaces
<1>1. /\ CallType' /\ \A d \in Calls \ {c} : call'[d] = call[d]
      /\ call'[c].at = at /\ call'[c].list = call[c].list
      /\ call'[c].i \in 1 .. Len(call[c].list)
  <2>1. CASE ~IsLast(c) /\ Advance(c, at)
    BY <1>0, <2>1, AdvanceStep DEF IsLast
  <2>2. CASE Goes(c, at)
    BY <1>0, <2>2, GoesStep
  <2>3. CASE call' = [call EXCEPT ![c].at = at, ![c].i = 1]
    <3>1. /\ CallType' /\ \A d \in Calls \ {c} : call'[d] = call[d]
          /\ call'[c].at = at /\ call'[c].list = call[c].list /\ call'[c].i = 1
      BY <1>0, <2>3, RewindStep
    <3> QED BY <1>0, <3>1
  <2> QED BY <2>1, <2>2, <2>3
<1>2. at \in {"hold", "enqueue", "rollback", "next", "executing", "healing", "interrupt"}
  BY DEF Walking
<1>4. CallOK(c)'
  BY <1>1, <1>2 DEF CallOK, Estimating, Walking, Cleared, Settled
<1> QED BY <1>1, <1>2, <1>4 DEF CallStepped, CallMoves, Estimating

LEMMA SkipStep ==
    ASSUME Inv, NEW c \in Calls, call[c].at \in Walking, SkipRest(c)
    PROVE  CallStepped(c)
<1>1. "interrupt" \in Walking
  BY DEF Walking
<1>2. CASE IsLast(c)
  BY <1>2, ItemIn, DoneStep DEF SkipRest
<1>3. CASE ~IsLast(c)
  BY <1>1, <1>3, WalkStep DEF SkipRest
<1> QED BY <1>2, <1>3

\* A member of the group is held, queued, put back or interrupted.
LEMMA Withdraws ==
    ASSUME Inv, NEW r \in Runs, NEW from \in {"waiting", "queued"}, NEW to \in {"interrupted", "waiting"},
           to = "waiting" => from = "queued",
           IF Swappable(r, from, to) THEN SetStatus(r, to) ELSE run' = run
    PROVE  PlainStep
<1>1. CASE Swappable(r, from, to)
  <2>1. MayMove(r, to) /\ to \in States
    BY <1>1 DEF Swappable, MayMove, States, Terminal
  <2> QED BY <1>1, <2>1 DEF PlainStep, Moved
<1>2. CASE ~Swappable(r, from, to)
  BY <1>2 DEF PlainStep
<1> QED BY <1>1, <1>2

LEMMA WithdrawalInv ==
    ASSUME Inv, NEW c \in Calls, HoldNext(c) \/ Rollback(c) \/ InterruptNext(c)
    PROVE  Inv'
<1>0. call[c].at \in {"hold", "rollback", "interrupt"} /\ call[c].at \in Walking
  BY DEF HoldNext, Rollback, InterruptNext, At, Walking
<1>1. Item(c) \in Runs /\ CallType /\ CallOK(c) /\ MiscType
  BY <1>0, ItemIn
<1>2. /\ execs' = execs /\ heals' = heals /\ boot' = boot /\ SameChildren /\ confirmed' = confirmed
  BY DEF HoldNext, Rollback, InterruptNext, CallOnly, SameChildren, memVars
<1>3. PlainStep
  <2>1. CASE HoldNext(c)
    <3>1. IF Swappable(Item(c), "waiting", "interrupted")
          THEN SetStatus(Item(c), "interrupted") ELSE run' = run
      BY <2>1 DEF HoldNext
    <3> QED BY <1>1, <3>1, Withdraws
  <2>2. CASE Rollback(c)
    <3>1. IF Swappable(Item(c), "queued", "waiting")
          THEN SetStatus(Item(c), "waiting") ELSE run' = run
      BY <2>2 DEF Rollback
    <3> QED BY <1>1, <3>1, Withdraws
  <2>3. CASE InterruptNext(c)
    <3>1. IF Swappable(Item(c), "queued", "interrupted")
          THEN SetStatus(Item(c), "interrupted") ELSE run' = run
      BY <2>3 DEF InterruptNext
    <3> QED BY <1>1, <3>1, Withdraws
  <2> QED BY <2>1, <2>2, <2>3
<1>4. MiscType'
  <2>1. flag' \in [Runs -> Tags \cup {NoCall}]
    BY <1>1 DEF HoldNext, Rollback, InterruptNext, memVars, DropFlag, PutFlag, MiscType
  <2> QED BY <1>1, <2>1 DEF HoldNext, Rollback, InterruptNext, CallOnly, memVars, MiscType
<1>5. CallStepped(c)
  <2>1. {"hold", "rollback"} \subseteq Walking
    BY DEF Walking
  <2>2. CASE HoldNext(c)
    <3>1. Done(c) \/ (~IsLast(c) /\ Advance(c, "hold"))
      BY <2>2 DEF HoldNext
    <3> QED BY <1>0, <1>1, <2>1, <3>1, DoneStep, WalkStep
  <2>3. CASE Rollback(c)
    <3>1. Done(c) \/ (~IsLast(c) /\ Advance(c, "rollback"))
      BY <2>3 DEF Rollback
    <3> QED BY <1>0, <1>1, <2>1, <3>1, DoneStep, WalkStep
  <2>4. CASE InterruptNext(c)
    BY <1>0, <2>4, SkipStep DEF InterruptNext
  <2> QED BY <2>2, <2>3, <2>4
<1> QED BY <1>2, <1>3, <1>4, <1>5, CallStepInv

LEMMA ValidateInv ==
    ASSUME Inv, NEW c \in Calls, Validate(c)
    PROVE  Inv'
<1>0. /\ CallType /\ CallOK(c) /\ MiscType /\ call[c].at = "validate" /\ call[c] \in CallRec
      /\ c \in Tags /\ "enqueue" \in CallPlaces
  BY DEF Inv, CallsInv, Validate, At, Tags, CallPlaces, Walking, CallType
<1>1. /\ run' = run /\ execs' = execs /\ heals' = heals /\ boot' = boot /\ SameChildren
      /\ confirmed' = confirmed
  BY DEF Validate, CallOnly, SameChildren, rowVars
<1>2. MiscType'
  <2>1. flag' \in [Runs -> Tags \cup {NoCall}]
    BY <1>0, FlagTypes DEF Validate, MiscType
  <2> QED BY <1>0, <2>1 DEF Validate, CallOnly, rowVars, MiscType
<1>3. CASE Done(c)
  BY <1>0, <1>1, <1>2, <1>3, DoneStep, CallStepInv DEF PlainStep
<1>4. CASE call' = [call EXCEPT ![c].at = "enqueue", ![c].i = 1]
  <2>1. /\ CallType' /\ \A d \in Calls \ {c} : call'[d] = call[d]
        /\ call'[c].at = "enqueue" /\ call'[c].list = call[c].list /\ call'[c].i = 1
    BY <1>0, <1>4, RewindStep
  <2>2. /\ call[c].list \in Seq(Runs) /\ call[c].list # <<>>
        /\ \A j \in 1 .. Len(call[c].list) : Cleared(call[c].list[j])
    BY <1>0 DEF CallOK, CallRec
  <2>3. 1 \in 1 .. Len(call[c].list)
    BY <2>2
  <2>4. CallOK(c)'
    BY <1>1, <2>1, <2>2, <2>3 DEF CallOK, Estimating, Walking, Cleared, Settled
  <2>5. CallStepped(c)
    BY <2>1, <2>4 DEF CallStepped, CallMoves, Estimating
  <2> QED BY <1>1, <1>2, <2>5, CallStepInv DEF PlainStep
<1> QED BY <1>3, <1>4 DEF Validate

LEMMA EnqueueInv ==
    ASSUME Inv, NEW c \in Calls, Enqueue(c)
    PROVE  Inv'
<1>0. /\ call[c].at = "enqueue" /\ call[c].at \in Walking /\ c \in Tags
      /\ {"enqueue", "next", "rollback"} \subseteq Walking
  BY DEF Enqueue, At, Walking, Tags
<1>1. /\ Item(c) \in Runs /\ CallType /\ CallOK(c) /\ MiscType
      /\ call[c].list \in Seq(Runs) /\ call[c].i \in 1 .. Len(call[c].list)
  BY <1>0, ItemIn
<1>2. \A j \in 1 .. Len(call[c].list) : Cleared(call[c].list[j]) /\ call[c].list[j] \in Runs
  BY <1>0, <1>1 DEF CallOK
<1>3. /\ execs' = execs /\ heals' = heals /\ boot' = boot /\ SameChildren /\ confirmed' = confirmed
  BY DEF Enqueue, CallOnly, SameChildren
<1>4. MiscType'
  <2>1. flag' \in [Runs -> Tags \cup {NoCall}]
    BY <1>0, <1>1, FlagTypes DEF Enqueue, MiscType
  <2> QED BY <1>1, <2>1 DEF Enqueue, CallOnly, MiscType
<1>5. CASE Swappable(Item(c), "waiting", "queued")
  <2>1. SetStatus(Item(c), "queued")
    BY <1>5 DEF Enqueue
  <2>2. Cleared(Item(c))
    BY <1>1, <1>2 DEF Item
  <2>3. MayMove(Item(c), "queued") /\ "queued" \in States
    BY <1>5, <2>2 DEF MayMove, Swappable, States, ActiveStates
  <2>4. PlainStep
    BY <1>1, <2>1, <2>3 DEF PlainStep, Moved
  <2>5. Keeps
    BY <1>3, <2>4, PlainKeeps
  <2>6. CASE IsLast(c)
    <3>1. call' = [call EXCEPT ![c].at = "next", ![c].i = 1]
      BY <1>5, <2>6 DEF Enqueue
    <3>2. CallStepped(c)
      BY <1>0, <3>1, WalkStep
    <3> QED BY <1>3, <1>4, <2>4, <3>2, CallStepInv
  <2>7. CASE ~IsLast(c)
    <3>1. Advance(c, "enqueue") /\ "enqueue" \in CallPlaces
      BY <1>0, <1>5, <2>7 DEF Enqueue, CallPlaces
    <3>2. call'[c].list = call[c].list
      BY <1>1, <3>1, AdvanceStep
    <3>3. PICK list \in Seq(Runs) : list = call[c].list
      BY <1>1
    <3>4. \A j \in 1 .. Len(list) : list[j] \in Runs /\ Cleared(list[j])'
      BY <1>2, <2>5, <3>3 DEF Keeps
    <3>5. \A j \in 1 .. Len(call[c].list) : Cleared(call[c].list[j])'
      BY <3>2, <3>3, <3>4 DEF Cleared, Settled
    <3>6. CallStepped(c)
      BY <1>0, <2>7, <3>1, <3>5, WalkStep
    <3> QED BY <1>3, <1>4, <2>4, <3>6, CallStepInv
  <2> QED BY <2>6, <2>7
<1>6. CASE ~Swappable(Item(c), "waiting", "queued")
  <2>1. run' = run
    BY <1>6 DEF Enqueue
  <2>2. CASE call[c].i = 1
    <3>1. Done(c)
      BY <1>6, <2>2 DEF Enqueue, Done
    <3> QED BY <1>1, <1>3, <1>4, <2>1, <3>1, DoneStep, CallStepInv DEF PlainStep
  <2>3. CASE call[c].i # 1
    <3>1. PICK list \in Seq(Runs) : /\ list = SubSeq(call[c].list, 1, call[c].i - 1)
                                   /\ Len(list) = call[c].i - 1
      <4>1. PICK i \in Nat : i = call[c].i - 1 /\ 1 <= i /\ i <= Len(call[c].list)
        BY <1>1, <2>3, LenProperties
      <4>2. \A j \in 1 .. i : call[c].list[j] \in Runs
        BY <1>1, <4>1
      <4>3. SubSeq(call[c].list, 1, i) \in Seq(Runs) /\ Len(SubSeq(call[c].list, 1, i)) = i
        BY <4>1, <4>2, SubSeqProperties
      <4> QED BY <4>1, <4>3
    <3>2. call' = [call EXCEPT ![c].at = "rollback", ![c].i = 1, ![c].list = list]
      BY <1>6, <2>3, <3>1 DEF Enqueue
    <3>3. PICK m : m = [call EXCEPT ![c].at = "rollback", ![c].i = 1]
      OBVIOUS
    <3>4. /\ m \in [Calls -> CallRec] /\ m[c].at = "rollback" /\ m[c].i = 1
          /\ \A d \in Calls \ {c} : m[d] = call[d]
      BY <1>0, <1>1, <3>3, ZenonT(30) DEF CallType, CallRec, CallPlaces
    <3>5. call' = [m EXCEPT ![c].list = list]
      BY <3>2, <3>3
    <3>6. /\ CallType' /\ call'[c].at = "rollback" /\ call'[c].i = 1 /\ call'[c].list = list
          /\ \A d \in Calls \ {c} : call'[d] = call[d]
      BY <3>4, <3>5 DEF CallType, CallRec
    <3>7. 1 \in 1 .. Len(list)
      BY <1>1, <2>3, <3>1
    <3>8. CallOK(c)'
      BY <3>6, <3>7 DEF CallOK, Estimating, Walking
    <3>9. CallStepped(c)
      BY <3>6, <3>8 DEF CallStepped, CallMoves, Estimating
    <3> QED BY <1>3, <1>4, <2>1, <3>9, CallStepInv DEF PlainStep
  <2> QED BY <2>2, <2>3
<1> QED BY <1>5, <1>6

\* Settling ends an active run; only a failed one may be retried.
LEMMA Settling ==
    ASSUME Inv, NEW r \in Runs, CompleteWork(r), rejected' = rejected
    PROVE  /\ PlainStep /\ SameChildren
           /\ work' \in [Runs -> {"none", "failed", "interrupted", "done"}]
           /\ cont' \in [Runs -> [state : ContStates, child : 0 .. MaxRuns]]
           /\ \A p \in Runs : cont'[p].state = "retry_created" => cont'[p].child # 0
<1>0. MiscType
  BY DEF Inv
<1>1. CASE work[r] \in Terminal /\ IsActive(r)
  <2>1. SetStatus(r, work[r]) /\ work' = [work EXCEPT ![r] = "done"]
    BY <1>1 DEF CompleteWork
  <2>2. work[r] \in {"failed", "interrupted"}
    BY <1>0, <1>1 DEF MiscType, Terminal
  <2>3. MayMove(r, work[r]) /\ work[r] \in States
    BY <1>1, <2>2 DEF MayMove, IsActive, ActiveStates, States, Terminal
  <2>4. PlainStep
    BY <2>1, <2>3 DEF PlainStep, Moved
  <2>5. cont' = cont \/ cont' = [cont EXCEPT ![r].state = "pending"]
    BY <1>1 DEF CompleteWork
  <2>6. /\ cont' \in [Runs -> [state : ContStates, child : 0 .. MaxRuns]]
        /\ \A p \in Runs : cont'[p].child = cont[p].child
        /\ \A p \in Runs : cont'[p].state = "retry_created" => cont'[p].child # 0
    BY <1>0, <2>5, SMTT(30) DEF MiscType, ContStates
  <2> QED BY <1>0, <2>1, <2>4, <2>6 DEF SameChildren, MiscType
<1>2. CASE ~(work[r] \in Terminal /\ IsActive(r))
  <2>1. run' = run /\ work' = work /\ cont' = cont
    BY <1>2 DEF CompleteWork
  <2> QED BY <1>0, <2>1 DEF PlainStep, SameChildren, MiscType
<1> QED BY <1>1, <1>2

LEMMA Requesting ==
    ASSUME MiscType, NEW r, NEW d \in {"failed", "interrupted"}, RequestWork(r, d)
    PROVE  work' \in [Runs -> {"none", "failed", "interrupted", "done"}]
BY DEF MiscType, RequestWork, Requested

LEMMA RunNextInv ==
    ASSUME Inv, NEW c \in Calls, RunNext(c)
    PROVE  Inv'
<1>0. call[c].at = "next" /\ call[c].at \in Walking /\ "executing" \in Walking
  BY DEF RunNext, At, Walking
<1>1. Item(c) \in Runs /\ CallType /\ CallOK(c) /\ MiscType
  BY <1>0, ItemIn
<1>2. /\ heals' = heals /\ boot' = boot /\ SameChildren /\ confirmed' = confirmed /\ flag' = flag
  BY DEF RunNext, CallOnly, SameChildren
<1>3. MiscType'
  BY <1>1, <1>2 DEF RunNext, CallOnly, MiscType
<1>4. CASE Swappable(Item(c), "queued", "running")
  <2>1. SetStatus(Item(c), "running")
    BY <1>4 DEF RunNext
  <2>2. PlainStep /\ run'[Item(c)].st = "running"
    BY <1>1, <1>4, <2>1, Admits
  <2>3. PICK r \in Runs : r = Item(c)
    BY <1>1
  <2>4. Begun(r)'
    BY <2>2, <2>3 DEF Begun
  <2>5. CASE flag[Item(c)] = NoCall
    <3>1. Done(c) /\ execs' = execs
      BY <1>4, <2>5 DEF RunNext
    <3> QED BY <1>1, <1>2, <1>3, <2>2, <3>1, DoneStep, CallStepInv
  <2>6. CASE flag[Item(c)] # NoCall
    <3>1. Goes(c, "executing") /\ execs' = execs \cup {Executor(r, flag[r], "sweep")}
      BY <1>4, <2>3, <2>6 DEF RunNext
    <3>2. flag[r] \in Tags
      BY <1>1, <2>3, <2>6 DEF MiscType
    <3>3. Executor(r, flag[r], "sweep") \in ExecRec /\ Executor(r, flag[r], "sweep").r = r
      BY <3>2 DEF Executor, ExecRec
    <3>4. \A e \in execs' : e \in execs \/ (e \in ExecRec /\ (Begun(e.r) \/ Begun(e.r)'))
      BY <2>4, <3>1, <3>3
    <3>5. CallStepped(c)
      BY <1>0, <3>1, WalkStep
    <3> QED BY <1>2, <1>3, <2>2, <3>4, <3>5, CallStepInv
  <2> QED BY <2>5, <2>6
<1>5. CASE ~Swappable(Item(c), "queued", "running")
  <2>1. run' = run /\ execs' = execs /\ (SkipRest(c) \/ Done(c))
    BY <1>5 DEF RunNext
  <2>2. CallStepped(c)
    BY <1>0, <1>1, <2>1, SkipStep, DoneStep
  <2> QED BY <1>2, <1>3, <2>1, <2>2, CallStepInv DEF PlainStep
<1> QED BY <1>4, <1>5

LEMMA SweepWaitsInv ==
    ASSUME Inv, NEW c \in Calls, MemberEnds(c) \/ HealEnds(c)
    PROVE  Inv'
<1>0. /\ call[c].at \in {"executing", "healing"} /\ call[c].at \in Walking
      /\ {"next", "healing"} \subseteq Walking
  BY DEF MemberEnds, HealEnds, At, Walking
<1>1. Item(c) \in Runs /\ CallType /\ CallOK(c) /\ MiscType
  BY <1>0, ItemIn
<1>2. run' = run /\ boot' = boot /\ SameChildren /\ confirmed' = confirmed
  BY DEF MemberEnds, HealEnds, CallOnly, SameChildren, rowVars
<1>3. MiscType'
  <2>1. flag' \in [Runs -> Tags \cup {NoCall}]
    BY <1>1 DEF MemberEnds, HealEnds, DropFlag, PutFlag, MiscType
  <2> QED BY <1>1, <2>1 DEF MemberEnds, HealEnds, CallOnly, rowVars, MiscType
<1>4. CASE MemberEnds(c)
  <2>1. PICK e \in execs : e.r = Item(c) /\ execs' = execs \ {e} /\ AfterMember(c, e)
    BY <1>4 DEF MemberEnds
  <2>2. HealOK(Healer(e.r, "loop"))'
    BY <1>1, <2>1, AdmissionAssumption DEF HealOK, HealRec, Healer, Runs
  <2>3. heals' = heals \/ heals' = heals \cup {Healer(e.r, "loop")}
    BY <2>1 DEF AfterMember
  <2>4. CallStepped(c)
    <3>1. \/ Goes(c, "healing") \/ Done(c) \/ (~IsLast(c) /\ Advance(c, "next")) \/ SkipRest(c)
      BY <2>1 DEF AfterMember
    <3> QED BY <1>0, <1>1, <3>1, WalkStep, SkipStep, DoneStep
  <2> QED BY <1>2, <1>3, <2>1, <2>2, <2>3, <2>4, CallStepInv DEF PlainStep
<1>5. CASE HealEnds(c)
  <2>1. heals' \subseteq heals /\ execs' = execs /\ (Done(c) \/ SkipRest(c))
    BY <1>5 DEF HealEnds
  <2>2. CallStepped(c)
    BY <1>0, <1>1, <2>1, SkipStep, DoneStep
  <2> QED BY <1>2, <1>3, <2>1, <2>2, CallStepInv DEF PlainStep
<1> QED BY <1>4, <1>5

LEMMA StopInv ==
    ASSUME Inv, NEW c \in Calls, Signal(c) \/ StopRequest(c) \/ StopSettle(c)
    PROVE  Inv'
<1>0. /\ CallType /\ CallOK(c) /\ MiscType /\ call[c].at \in {"signal", "request", "settle"}
      /\ call[c].r \in Runs
  BY DEF Inv, CallsInv, CallOK, Signal, StopRequest, StopSettle, At
<1>1. /\ execs' = execs /\ heals' = heals /\ boot' = boot /\ confirmed' = confirmed
      /\ rejected' = rejected /\ intent' = intent /\ flag' = flag /\ queueLock' = queueLock
      /\ crashes' = crashes
  BY DEF Signal, StopRequest, StopSettle, CallOnly, rowVars, memVars
<1>2. CASE Signal(c)
  <2>1. run' = run /\ SameChildren /\ work' = work /\ cont' = cont
    BY <1>2 DEF Signal, rowVars, SameChildren
  <2>2. signalled' \in SUBSET (Runs \X Tags)
    <3>1. flag[call[c].r] \in Tags \cup {NoCall}
      BY <1>0 DEF MiscType
    <3>2. signalled' = signalled \/ signalled' = signalled \cup {<<call[c].r, flag[call[c].r]>>}
      BY <1>2 DEF Signal
    <3>3. flag[call[c].r] = NoCall => signalled' = signalled
      BY <1>2 DEF Signal
    <3> QED BY <1>0, <3>1, <3>2, <3>3 DEF MiscType
  <2>3. MiscType'
    BY <1>0, <1>1, <2>1, <2>2 DEF MiscType
  <2>4. CASE IsActive(call[c].r)
    <3>1. Goes(c, "request") /\ "request" \in CallPlaces
      BY <1>2, <2>4 DEF Signal, CallPlaces
    <3>2. /\ CallType' /\ \A d \in Calls \ {c} : call'[d] = call[d]
          /\ call'[c].at = "request" /\ call'[c].r = call[c].r
      BY <1>0, <3>1, GoesStep
    <3>3. run[call[c].r].st # "none"
      BY <2>4 DEF IsActive, ActiveStates
    <3>4. CallOK(c)'
      BY <1>0, <2>1, <3>2, <3>3 DEF CallOK, Estimating, Walking
    <3>5. CallStepped(c)
      BY <3>2, <3>4 DEF CallStepped, CallMoves, Estimating
    <3> QED BY <1>1, <2>1, <2>3, <3>5, CallStepInv DEF PlainStep
  <2>5. CASE ~IsActive(call[c].r)
    <3>1. CallStepped(c)
      BY <1>0, <1>2, <2>5, DoneStep DEF Signal
    <3> QED BY <1>1, <2>1, <2>3, <3>1, CallStepInv DEF PlainStep
  <2> QED BY <2>4, <2>5
<1>3. CASE StopRequest(c)
  <2>1. /\ run' = run /\ SameChildren /\ cont' = cont /\ signalled' = signalled
        /\ RequestWork(call[c].r, "interrupted") /\ Goes(c, "settle") /\ "settle" \in CallPlaces
    BY <1>3 DEF StopRequest, memVars, SameChildren, CallPlaces
  <2>2. MiscType'
    BY <1>0, <1>1, <2>1, Requesting DEF MiscType
  <2>3. /\ CallType' /\ \A d \in Calls \ {c} : call'[d] = call[d]
        /\ call'[c].at = "settle" /\ call'[c].r = call[c].r
    BY <1>0, <2>1, GoesStep
  <2>4. call[c].at = "request"
    BY <1>3 DEF StopRequest, At
  <2>5. CallOK(c)'
    BY <1>0, <2>1, <2>3, <2>4 DEF CallOK, Estimating, Walking
  <2>6. CallStepped(c)
    BY <2>3, <2>5 DEF CallStepped, CallMoves, Estimating
  <2> QED BY <1>1, <2>1, <2>2, <2>6, CallStepInv DEF PlainStep
<1>4. CASE StopSettle(c)
  <2>1. CompleteWork(call[c].r) /\ Done(c) /\ signalled' = signalled
    BY <1>4 DEF StopSettle, memVars
  <2>2. /\ PlainStep /\ SameChildren
        /\ work' \in [Runs -> {"none", "failed", "interrupted", "done"}]
        /\ cont' \in [Runs -> [state : ContStates, child : 0 .. MaxRuns]]
        /\ \A p \in Runs : cont'[p].state = "retry_created" => cont'[p].child # 0
    BY <1>0, <1>1, <2>1, Settling
  <2>3. MiscType'
    BY <1>0, <1>1, <2>1, <2>2 DEF MiscType
  <2>4. CallStepped(c)
    BY <1>0, <2>1, DoneStep
  <2> QED BY <1>1, <2>2, <2>3, <2>4, CallStepInv
<1> QED BY <1>2, <1>3, <1>4

-----------------------------------------------------------------------------
(* Retries.                                                                *)

\* A retry waits at its parent's estimate; no estimate is disturbed.
LEMMA RetriedKeeps ==
    ASSUME Inv, NEW p \in Runs, NEW f \in BOOLEAN, Retried(p, f), confirmed' = confirmed
    PROVE  /\ RowsInv' /\ Alone' /\ Approved' /\ Keeps /\ FreshBut(0)
           /\ Latest + 1 \in Runs
           /\ run'[Latest + 1].st = "waiting" /\ run'[Latest + 1].cost = run[p].cost
<1>1. RowStep
  BY DEF RowStep
<1>2. RowsInv' /\ Alone' /\ Approved' /\ Keeps
  BY <1>1, RowsAfter DEF Inv
<1>3. PICK n \in Runs : n = Latest + 1 /\ run[n].st = "none"
  BY AdmissionAssumption DEF Retried, Room, Inv, RowsInv, Runs
<1>4. /\ run'[n].st = "waiting" /\ run'[n].cost = run[p].cost
      /\ \A o \in Runs : o # n => run'[o] = run[o]
  BY <1>3 DEF Retried, Insert, RetryOf, Inv, RowsInv
<1>5. FreshBut(0)
  BY <1>3, <1>4 DEF FreshBut, Fresh, Terminal
<1> QED BY <1>2, <1>3, <1>4, <1>5

\* The request goes on to claim the rerun.
LEMMA ClaimsStep ==
    ASSUME CallType, NEW c \in Calls, NEW n \in Runs,
           call' = [call EXCEPT ![c].at = "claim", ![c].r = n], Cleared(n)', run'[n].st # "none"
    PROVE  CallStepped(c)
<1>1. "claim" \in CallPlaces /\ n \in 0 .. MaxRuns
  BY AdmissionAssumption DEF CallPlaces, Runs
<1>2. /\ CallType' /\ \A d \in Calls \ {c} : call'[d] = call[d]
      /\ call'[c].at = "claim" /\ call'[c].r = n
  BY <1>1 DEF CallType, CallRec
<1>3. CallOK(c)'
  BY <1>2 DEF CallOK, Estimating, Walking, Cleared, Settled
<1> QED BY <1>2, <1>3 DEF CallStepped, CallMoves, Estimating

LEMMA DeriveInv ==
    ASSUME Inv, NEW c \in Calls, Derive(c)
    PROVE  Inv'
<1>0. /\ CallType /\ CallOK(c) /\ MiscType /\ call[c].at = "derive" /\ LinksInv /\ RowsInv
  BY DEF Inv, CallsInv, Derive, At
<1>1. PICK p \in Runs : p = call[c].r /\ run[p].st \in Terminal
  BY <1>0 DEF CallOK
<1>2. /\ execs' = execs /\ heals' = heals /\ boot' = boot /\ confirmed' = confirmed
      /\ work' = work /\ cont' = cont /\ intent' = intent /\ flag' = flag
      /\ signalled' = signalled /\ queueLock' = queueLock /\ crashes' = crashes
  BY DEF Derive, CallOnly, memVars
<1>3. CASE rejected[p] = 0 /\ ~Room(1)
  <2>1. Done(c) /\ run' = run /\ rejected' = rejected
    BY <1>1, <1>3 DEF Derive, KnownRejectChild
  <2>2. SameChildren /\ MiscType'
    BY <1>0, <1>2, <2>1 DEF SameChildren, MiscType
  <2>3. CallStepped(c)
    BY <1>0, <2>1, DoneStep
  <2> QED BY <1>2, <2>1, <2>2, <2>3, CallStepInv DEF PlainStep
<1>4. CASE rejected[p] # 0
  <2>1. PICK n \in Runs : n = rejected[p] /\ Child(p, n)
    BY <1>0, <1>4 DEF LinksInv, Child
  <2>2. /\ run' = run /\ rejected' = rejected
        /\ \/ Done(c)
           \/ run[p].cost = "cheap" /\ call' = [call EXCEPT ![c].at = "claim", ![c].r = n]
    BY <1>1, <1>4, <2>1 DEF Derive, KnownRejectChild
  <2>3. SameChildren /\ MiscType'
    BY <1>0, <1>2, <2>2 DEF SameChildren, MiscType
  <2>4. CallStepped(c)
    <3>1. CASE Done(c)
      BY <1>0, <3>1, DoneStep
    <3>2. CASE run[p].cost = "cheap" /\ call' = [call EXCEPT ![c].at = "claim", ![c].r = n]
      <4>1. Cleared(n)' /\ run'[n].st # "none"
        BY <2>1, <2>2, <3>2 DEF Child, Cleared, Settled
      <4> QED BY <1>0, <3>2, <4>1, ClaimsStep
    <3> QED BY <2>2, <3>1, <3>2
  <2> QED BY <1>2, <2>2, <2>3, <2>4, CallStepInv DEF PlainStep
<1>5. CASE rejected[p] = 0 /\ Room(1)
  <2>1. /\ Insert(RetryOf(p, TRUE)) /\ rejected' = [rejected EXCEPT ![p] = Latest + 1]
        /\ \/ Done(c)
           \/ run[p].cost = "cheap" /\ call' = [call EXCEPT ![c].at = "claim", ![c].r = Latest + 1]
    BY <1>1, <1>5 DEF Derive, KnownRejectChild
  <2>2. Retried(p, TRUE)
    BY <1>1, <1>5, <2>1 DEF Retried, Terminal
  <2>3. /\ RowsInv' /\ Alone' /\ Approved' /\ Keeps /\ FreshBut(0)
        /\ Latest + 1 \in Runs
        /\ run'[Latest + 1].st = "waiting" /\ run'[Latest + 1].cost = run[p].cost
    BY <1>2, <2>2, RetriedKeeps
  <2>4. PICK n \in Runs : n = Latest + 1 /\ n \in 0 .. MaxRuns
    BY <2>3, AdmissionAssumption DEF Runs
  <2>5. LinksInv'
    <3>1. Approved /\ cont' = cont
      BY <1>2 DEF Inv
    <3> QED BY <1>0, <1>1, <1>5, <2>1, <2>2, <2>3, <3>1, RetryLinked
  <2>6. CallStepped(c)
    <3>1. CASE Done(c)
      BY <1>0, <3>1, DoneStep
    <3>2. CASE run[p].cost = "cheap" /\ call' = [call EXCEPT ![c].at = "claim", ![c].r = n]
      <4>1. run'[n].st = "waiting" /\ run'[n].cost = "cheap"
        BY <2>3, <2>4, <3>2
      <4>2. Cleared(n)' /\ run'[n].st # "none"
        BY <4>1 DEF Cleared, Settled
      <4> QED BY <1>0, <3>2, <4>2, ClaimsStep
    <3> QED BY <2>1, <2>4, <3>1, <3>2
  <2>7. CallsInv'
    BY <1>0, <2>3, <2>6, CallsAfter DEF Inv
  <2>8. MiscType'
    BY <1>0, <1>2, <2>1, <2>4 DEF MiscType
  <2>9. ExecsInv' /\ HealsInv' /\ BootInv'
    BY <1>2, <2>3, ExecsKept, HealsKept, BootKept DEF Inv
  <2> QED BY <2>3, <2>5, <2>7, <2>8, <2>9 DEF Inv
<1> QED BY <1>3, <1>4, <1>5

LEMMA CallStepKeeps ==
    ASSUME Inv, NEW c \in Calls, CallStep(c)
    PROVE  Inv'
<1>1. CASE EndEstimate(c, "cancel", "interrupted") \/ EndEstimate(c, "fail", "failed")
  BY <1>1, EndEstimateInv
<1>2. CASE Create(c) \/ InsertFlag(c) \/ Estimate(c) \/ Decide(c) \/ StartClaim(c) \/ FinishClaim(c)
  BY <1>2, CreateInv, FlagAndEstimateInv, DecideInv, ClaimInv
<1>3. CASE \E cost \in {"cheap", "dear"} : SaveEstimate(c, cost)
  BY <1>3, SaveEstimateInv
<1>4. CASE HoldNext(c) \/ Validate(c) \/ Enqueue(c) \/ Rollback(c) \/ InterruptNext(c)
  BY <1>4, WithdrawalInv, ValidateInv, EnqueueInv
<1>5. CASE RunNext(c) \/ MemberEnds(c) \/ HealEnds(c)
  BY <1>5, RunNextInv, SweepWaitsInv
<1>6. CASE Signal(c) \/ StopRequest(c) \/ StopSettle(c) \/ Derive(c)
  BY <1>6, StopInv, DeriveInv
<1> QED BY <1>1, <1>2, <1>3, <1>4, <1>5, <1>6 DEF CallStep

-----------------------------------------------------------------------------
(* Executors.                                                              *)

LEMMA ExecStepKeeps ==
    ASSUME Inv, ExecStep
    PROVE  Inv'
<1>0. MiscType /\ RowsInv /\ ExecsInv /\ Approved
  BY DEF Inv
<1>1. PICK e \in execs : \/ ExecStart(e) \/ ExecSucceeds(e) \/ ExecFails(e)
                         \/ ExecInterrupted(e) \/ ExecSettles(e) \/ ExecReturns(e)
  BY DEF ExecStep
<1>2. e \in ExecRec /\ e.r \in Runs /\ Begun(e.r)
  BY <1>0 DEF ExecsInv, ExecRec
<1>3. /\ call' = call /\ boot' = boot /\ confirmed' = confirmed /\ rejected' = rejected
      /\ signalled' = signalled /\ queueLock' = queueLock /\ crashes' = crashes
  BY <1>1 DEF ExecStart, ExecSucceeds, ExecFails, ExecInterrupted, ExecSettles, ExecReturns,
              ExecOnly, CallOnly
<1>4. ASSUME NEW at \in {"run", "refused", "settle_failed", "settle_ok", "ok", "failed"},
             ExecGoes(e, at)
      PROVE  \A x \in execs' : x \in execs \/ (x \in ExecRec /\ (Begun(x.r) \/ Begun(x.r)'))
  <2>1. [e EXCEPT !.at = at] \in ExecRec /\ [e EXCEPT !.at = at].r = e.r
    BY <1>2 DEF ExecRec
  <2> QED BY <1>2, <1>4, <2>1 DEF ExecGoes
<1>5. ASSUME NEW st \in {"running", "succeeded"}, run[e.r].st = "running" \/ run[e.r].st = st,
             SetStatus(e.r, st)
      PROVE  PlainStep
  <2>1. Cleared(e.r)
    BY <1>0, <1>2, <1>5 DEF Approved
  <2>2. MayMove(e.r, st) /\ st \in States
    BY <1>5, <2>1 DEF MayMove, States, ActiveStates, Terminal
  <2> QED BY <1>2, <1>5, <2>2 DEF PlainStep, Moved
<1>6. CASE ExecStart(e)
  <2>1. PlainStep
    BY <1>2, <1>5, <1>6 DEF ExecStart, Accepts, Begun, PlainStep
  <2>2. \A x \in execs' : x \in execs \/ (x \in ExecRec /\ (Begun(x.r) \/ Begun(x.r)'))
    BY <1>4, <1>6 DEF ExecStart
  <2>3. SameChildren /\ MiscType' /\ heals' = heals
    BY <1>0, <1>2, <1>3, <1>6 DEF ExecStart, SameChildren, MiscType
  <2> QED BY <1>3, <2>1, <2>2, <2>3, TaskStepInv
<1>7. CASE ExecSucceeds(e)
  <2>1. PlainStep
    BY <1>2, <1>5, <1>7 DEF ExecSucceeds, Accepts, Begun, PlainStep
  <2>2. \A x \in execs' : x \in execs \/ (x \in ExecRec /\ (Begun(x.r) \/ Begun(x.r)'))
    BY <1>4, <1>7 DEF ExecSucceeds
  <2>3. SameChildren /\ MiscType' /\ heals' = heals
    BY <1>0, <1>3, <1>7 DEF ExecSucceeds, SameChildren, MiscType
  <2> QED BY <1>3, <2>1, <2>2, <2>3, TaskStepInv
<1>8. CASE ExecFails(e) \/ ExecInterrupted(e)
  <2>1. PlainStep /\ SameChildren /\ heals' = heals
    BY <1>3, <1>8 DEF ExecFails, ExecInterrupted, PlainStep, SameChildren
  <2>2. \A x \in execs' : x \in execs \/ (x \in ExecRec /\ (Begun(x.r) \/ Begun(x.r)'))
    BY <1>4, <1>8 DEF ExecFails, ExecInterrupted
  <2>3. work' \in [Runs -> {"none", "failed", "interrupted", "done"}]
    BY <1>0, <1>8, Requesting DEF ExecFails, ExecInterrupted
  <2>4. MiscType'
    BY <1>0, <1>3, <1>8, <2>3 DEF ExecFails, ExecInterrupted, MiscType
  <2> QED BY <1>3, <2>1, <2>2, <2>4, TaskStepInv
<1>9. CASE ExecSettles(e)
  <2>1. CompleteWork(e.r) /\ intent' = intent /\ flag' = flag /\ heals' = heals
    BY <1>9 DEF ExecSettles
  <2>2. /\ PlainStep /\ SameChildren
        /\ work' \in [Runs -> {"none", "failed", "interrupted", "done"}]
        /\ cont' \in [Runs -> [state : ContStates, child : 0 .. MaxRuns]]
        /\ \A p \in Runs : cont'[p].state = "retry_created" => cont'[p].child # 0
    BY <1>2, <1>3, <2>1, Settling
  <2>3. MiscType'
    BY <1>0, <1>3, <2>1, <2>2 DEF MiscType
  <2>4. \A x \in execs' : x \in execs \/ (x \in ExecRec /\ (Begun(x.r) \/ Begun(x.r)'))
    BY <1>4, <1>9 DEF ExecSettles
  <2> QED BY <1>3, <2>1, <2>2, <2>3, <2>4, TaskStepInv
<1>10. CASE ExecReturns(e)
  <2>1. PlainStep /\ SameChildren /\ execs' \subseteq execs /\ DropFlag(e.r)
    BY <1>3, <1>10 DEF ExecReturns, PlainStep, SameChildren
  <2>2. MiscType'
    BY <1>0, <1>3, <1>10 DEF ExecReturns, MiscType, DropFlag, PutFlag
  <2>3. HealOK(Healer(e.r, "loop"))'
    BY <1>2, AdmissionAssumption DEF HealOK, HealRec, Healer, Runs
  <2>4. \A h \in heals' : h \in heals \/ HealOK(h)'
    BY <1>10, <2>3 DEF ExecReturns
  <2> QED BY <1>3, <2>1, <2>2, <2>4, TaskStepInv
<1> QED BY <1>1, <1>6, <1>7, <1>8, <1>9, <1>10

-----------------------------------------------------------------------------
(* Healers.                                                                *)

LEMMA HealMoves ==
    ASSUME NEW h \in heals, NEW at, HealGoes(h, at) \/ HealStops(h, at),
           HealOK([h EXCEPT !.at = at])'
    PROVE  \A g \in heals' : g \in heals \/ HealOK(g)'
BY DEF HealGoes, HealStops

LEMMA Closing ==
    ASSUME MiscType, NEW r \in Runs, NEW state \in {"exhausted", "completed"}, CloseCont(r, state)
    PROVE  /\ cont' \in [Runs -> [state : ContStates, child : 0 .. MaxRuns]]
           /\ \A p \in Runs : cont'[p].child = cont[p].child
           /\ \A p \in Runs : cont'[p].state = "retry_created" => cont'[p].child # 0
BY DEF MiscType, CloseCont, ContStates

LEMMA HealReadInv ==
    ASSUME Inv, NEW h \in heals, HealRead(h)
    PROVE  Inv'
<1>0. MiscType /\ HealOK(h) /\ h \in HealRec /\ h.r \in Runs
  BY DEF Inv, HealsInv, HealOK, HealRec
<1>1. /\ run' = run /\ rejected' = rejected /\ intent' = intent /\ flag' = flag /\ execs' = execs
      /\ work' = work /\ signalled' = signalled /\ call' = call /\ queueLock' = queueLock
      /\ boot' = boot /\ crashes' = crashes /\ confirmed' = confirmed
  BY DEF HealRead, HealOnly, CallOnly
<1>2. \/ cont' = cont /\ HealStops(h, "fine")
      \/ CloseCont(h.r, "exhausted") /\ HealStops(h, "fine")
      \/ cont' = cont /\ HealGoes(h, "create") /\ run[h.r].st = "failed" /\ WithinLimit(h.r)
  BY DEF HealRead
<1>3. SameChildren /\ MiscType'
  BY <1>0, <1>1, <1>2, Closing DEF SameChildren, MiscType
<1>4. [h EXCEPT !.at = "fine"] \in HealRec /\ [h EXCEPT !.at = "create"] \in HealRec
  BY <1>0 DEF HealRec
<1>5. HealOK([h EXCEPT !.at = "fine"])'
  BY <1>0, <1>4 DEF HealOK, HealRec
<1>6. run[h.r].st = "failed" /\ WithinLimit(h.r) => HealOK([h EXCEPT !.at = "create"])'
  BY <1>0, <1>1, <1>4 DEF HealOK, HealRec, WithinLimit, Terminal
<1>7. \A g \in heals' : g \in heals \/ HealOK(g)'
  BY <1>2, <1>5, <1>6, HealMoves
<1> QED BY <1>1, <1>3, <1>7, TaskStepInv DEF PlainStep

\* The child exists when the healer claims it, at a price that is approved.
LEMMA HealCreateInv ==
    ASSUME Inv, NEW h \in heals, HealCreate(h)
    PROVE  Inv'
<1>0. /\ MiscType /\ HealOK(h) /\ h \in HealRec /\ h.r \in Runs /\ h.at = "create"
      /\ run[h.r].st \in Terminal /\ WithinLimit(h.r) /\ LinksInv /\ RowsInv
  BY DEF Inv, HealsInv, HealOK, HealRec, HealCreate
<1>1. /\ rejected' = rejected /\ intent' = intent /\ flag' = flag /\ execs' = execs
      /\ work' = work /\ signalled' = signalled /\ call' = call /\ queueLock' = queueLock
      /\ boot' = boot /\ crashes' = crashes /\ confirmed' = confirmed
  BY DEF HealCreate, HealOnly, CallOnly
<1>2. ASSUME NEW n \in Runs, NEW at \in {"claim", "close"},
             at = "claim" => Cleared(n)'
      PROVE  HealOK([h EXCEPT !.at = at, !.child = n])'
  <2>1. PICK g : g = [h EXCEPT !.at = at, !.child = n]
    OBVIOUS
  <2>2. g \in HealRec /\ g.at = at /\ g.child = n
    <3>1. n \in 0 .. MaxRuns
      BY <1>2, AdmissionAssumption DEF Runs
    <3>2. PICK m : m = [h EXCEPT !.at = at]
      OBVIOUS
    <3>3. m \in HealRec /\ m.at = at
      BY <1>0, <1>2, <3>2 DEF HealRec
    <3>4. g = [m EXCEPT !.child = n]
      BY <2>1, <3>2
    <3> QED BY <3>1, <3>3, <3>4 DEF HealRec
  <2> QED BY <1>2, <2>1, <2>2 DEF HealOK
<1>3. CASE cont[h.r].child = 0 /\ cont[h.r].state # "pending"
  <2>1. HealStops(h, "error") /\ run' = run /\ cont' = cont
    BY <1>3 DEF HealCreate
  <2>2. [h EXCEPT !.at = "error"] \in HealRec
    BY <1>0 DEF HealRec
  <2>3. HealOK([h EXCEPT !.at = "error"])'
    BY <1>0, <2>2 DEF HealOK, HealRec
  <2>4. \A g \in heals' : g \in heals \/ HealOK(g)'
    BY <2>1, <2>3, HealMoves
  <2>5. SameChildren /\ MiscType'
    BY <1>0, <1>1, <2>1 DEF SameChildren, MiscType
  <2> QED BY <1>1, <2>1, <2>4, <2>5, TaskStepInv DEF PlainStep
<1>4. CASE cont[h.r].child # 0
  <2>1. PICK n \in Runs : n = cont[h.r].child /\ Child(h.r, n)
    BY <1>0, <1>4 DEF LinksInv, Child
  <2>2. PICK at \in {"claim", "close"} : at = IF run[h.r].cost = "cheap" THEN "claim" ELSE "close"
    OBVIOUS
  <2>3. /\ run' = run /\ cont' = cont
        /\ heals' = (heals \ {h}) \cup {[h EXCEPT !.at = at, !.child = n]}
    BY <1>4, <2>1, <2>2 DEF HealCreate
  <2>4. at = "claim" => Cleared(n)'
    BY <2>1, <2>2, <2>3 DEF Child, Cleared, Settled
  <2>5. \A g \in heals' : g \in heals \/ HealOK(g)'
    BY <1>2, <2>3, <2>4
  <2>6. SameChildren /\ MiscType'
    BY <1>0, <1>1, <2>3 DEF SameChildren, MiscType
  <2> QED BY <1>1, <2>3, <2>5, <2>6, TaskStepInv DEF PlainStep
<1>5. CASE cont[h.r].child = 0 /\ cont[h.r].state = "pending"
  <2>1. PICK at \in {"claim", "close"} : at = IF run[h.r].cost = "cheap" THEN "claim" ELSE "close"
    OBVIOUS
  <2>2. /\ Room(1) /\ Insert(RetryOf(h.r, FALSE)) /\ LinkRetry(h.r, Latest + 1)
        /\ heals' = (heals \ {h}) \cup {[h EXCEPT !.at = at, !.child = Latest + 1]}
    BY <1>5, <2>1 DEF HealCreate
  <2>3. Retried(h.r, FALSE)
    BY <1>0, <2>2 DEF Retried, Terminal
  <2>4. /\ RowsInv' /\ Alone' /\ Approved' /\ Keeps /\ FreshBut(0)
        /\ Latest + 1 \in Runs
        /\ run'[Latest + 1].st = "waiting" /\ run'[Latest + 1].cost = run[h.r].cost
    BY <1>0, <1>1, <2>3, RetriedKeeps
  <2>5. PICK n \in Runs : n = Latest + 1 /\ n \in 1 .. MaxRuns /\ n # 0
    BY <2>4, AdmissionAssumption DEF Runs
  <2>6. LinksInv'
    <3>1. /\ cont' = [cont EXCEPT ![h.r] = [state |-> "retry_created", child |-> Latest + 1]]
          /\ run[h.r].attempt < MaxRetries /\ Approved
      BY <1>0, <2>2 DEF LinkRetry, WithinLimit, Inv
    <3> QED BY <1>0, <1>1, <1>5, <2>3, <2>4, <3>1, RetryLinked
  <2>7. at = "claim" => Cleared(n)'
    BY <2>1, <2>4, <2>5 DEF Cleared, Settled
  <2>8. \A g \in heals' : g \in heals \/ HealOK(g)'
    BY <1>2, <2>2, <2>5, <2>7
  <2>9. HealsInv'
    BY <2>4, <2>8, HealsKept DEF Inv
  <2>10. /\ cont' \in [Runs -> [state : ContStates, child : 0 .. MaxRuns]]
         /\ \A r \in Runs : cont'[r].state = "retry_created" => cont'[r].child # 0
         /\ \A r \in Runs : cont[r].child # 0 => cont'[r].child = cont[r].child
    <3>1. cont' = [cont EXCEPT ![h.r] = [state |-> "retry_created", child |-> n]]
      BY <2>2, <2>5 DEF LinkRetry
    <3>2. [state |-> "retry_created", child |-> n] \in [state : ContStates, child : 0 .. MaxRuns]
      BY <2>5, AdmissionAssumption DEF ContStates
    <3> QED BY <1>0, <1>5, <2>5, <3>1, <3>2 DEF MiscType
  <2>11. MiscType'
    BY <1>0, <1>1, <2>10 DEF MiscType
  <2>12. CallsInv'
    BY <1>0, <1>1, <2>4, CallsKept DEF Inv
  <2>13. ExecsInv' /\ BootInv'
    BY <1>1, <2>4, <2>10, ExecsKept, BootKept DEF Inv
  <2> QED BY <2>4, <2>6, <2>9, <2>11, <2>12, <2>13 DEF Inv
<1> QED BY <1>3, <1>4, <1>5

LEMMA HealClaimInv ==
    ASSUME Inv, NEW h \in heals, HealClaim(h) \/ HealCas(h)
    PROVE  Inv'
<1>0. /\ MiscType /\ HealOK(h) /\ h \in HealRec /\ h.child \in Runs /\ Cleared(h.child)
      /\ h.by \in Tags /\ RowsInv
  BY DEF Inv, HealsInv, HealOK, HealRec, HealClaim, HealCas, Tags
<1>1. /\ rejected' = rejected /\ execs' = execs /\ cont' = cont
      /\ work' = work /\ signalled' = signalled /\ call' = call /\ queueLock' = queueLock
      /\ boot' = boot /\ crashes' = crashes /\ confirmed' = confirmed
  BY DEF HealClaim, HealCas, HealOnly, CallOnly
<1>2. SameChildren /\ MiscType'
  <2>1. flag' \in [Runs -> Tags \cup {NoCall}]
    BY <1>0, FlagTypes DEF HealClaim, HealCas, PrepareClaim, MiscType
  <2>2. intent' \in SUBSET Runs
    BY <1>0 DEF HealClaim, HealCas, PrepareClaim, MiscType
  <2> QED BY <1>0, <1>1, <2>1, <2>2 DEF SameChildren, MiscType
<1>3. ASSUME NEW at \in {"error", "cas", "claimed"}
      PROVE  LET g == [h EXCEPT !.at = at] IN
             g \in HealRec /\ g.at = at /\ g.child = h.child /\ g.r = h.r
  BY <1>0, <1>3 DEF HealRec
<1>4. CASE HealStops(h, "error") /\ run' = run
  <2>1. HealOK([h EXCEPT !.at = "error"])'
    BY <1>3 DEF HealOK
  <2>2. \A g \in heals' : g \in heals \/ HealOK(g)'
    BY <1>4, <2>1, HealMoves
  <2> QED BY <1>1, <1>2, <1>4, <2>2, TaskStepInv DEF PlainStep
<1>5. CASE HealGoes(h, "cas") /\ run' = run
  <2>1. Cleared(h.child)'
    BY <1>0, <1>1, <1>5 DEF Cleared, Settled
  <2>2. HealOK([h EXCEPT !.at = "cas"])'
    BY <1>0, <1>3, <2>1 DEF HealOK
  <2>3. \A g \in heals' : g \in heals \/ HealOK(g)'
    BY <1>5, <2>2, HealMoves
  <2> QED BY <1>1, <1>2, <1>5, <2>3, TaskStepInv DEF PlainStep
<1>6. CASE /\ Claimable(h.child, "waiting") /\ SetStatus(h.child, "running")
           /\ HealGoes(h, "claimed")
  <2>1. PlainStep /\ run'[h.child].st = "running"
    BY <1>0, <1>6, Admits
  <2>2. HealOK([h EXCEPT !.at = "claimed"])'
    BY <1>0, <1>3, <2>1 DEF HealOK, Begun
  <2>3. \A g \in heals' : g \in heals \/ HealOK(g)'
    BY <1>6, <2>2, HealMoves
  <2> QED BY <1>1, <1>2, <2>1, <2>3, TaskStepInv
<1> QED BY <1>4, <1>5, <1>6 DEF HealClaim, HealCas

LEMMA HealClosesInv ==
    ASSUME Inv, NEW h \in heals, HealCloses(h)
    PROVE  Inv'
<1>0. /\ MiscType /\ HealOK(h) /\ h \in HealRec /\ h.r \in Runs
  BY DEF Inv, HealsInv, HealOK, HealRec
<1>1. /\ run' = run /\ rejected' = rejected /\ intent' = intent /\ flag' = flag
      /\ work' = work /\ signalled' = signalled /\ call' = call /\ queueLock' = queueLock
      /\ boot' = boot /\ crashes' = crashes /\ confirmed' = confirmed
      /\ CloseCont(h.r, "completed") /\ HealStops(h, "fine")
  BY DEF HealCloses, HealOnly, CallOnly
<1>2. SameChildren /\ MiscType'
  BY <1>0, <1>1, Closing DEF SameChildren, MiscType
<1>3. [h EXCEPT !.at = "fine"] \in HealRec
  BY <1>0 DEF HealRec
<1>4. HealOK([h EXCEPT !.at = "fine"])'
  BY <1>0, <1>3 DEF HealOK, HealRec
<1>5. \A g \in heals' : g \in heals \/ HealOK(g)'
  BY <1>1, <1>4, HealMoves
<1>6. h.at = "claimed" => LET x == Executor(h.child, h.by, "heal") IN
                            x \in ExecRec /\ x.r = h.child /\ Begun(x.r)
  BY <1>0 DEF HealOK, HealRec, Executor, ExecRec, Tags
<1>7. \A e \in execs' : e \in execs \/ (e \in ExecRec /\ (Begun(e.r) \/ Begun(e.r)'))
  BY <1>6 DEF HealCloses
<1> QED BY <1>1, <1>2, <1>5, <1>7, TaskStepInv DEF PlainStep

LEMMA HealStepKeeps ==
    ASSUME Inv, HealStep
    PROVE  Inv'
<1>1. PICK h \in heals :
        HealRead(h) \/ HealCreate(h) \/ HealClaim(h) \/ HealCas(h) \/ HealCloses(h)
  BY DEF HealStep
<1> QED BY <1>1, HealReadInv, HealCreateInv, HealClaimInv, HealClosesInv

-----------------------------------------------------------------------------
(* The recovery.                                                           *)

BootPlaces == {"off", "start", "items", "runs", "settle", "conts", "claim", "cas", "close"}
Todos == SUBSET (Runs \X (States \cup ContStates))

\* An entry of the list names a run, and the first entries one and the same.
LEMMA BootEntry ==
    ASSUME BootInv, NEW p \in boot.todo
    PROVE  /\ p[1] \in Runs /\ p \in Runs \X (States \cup ContStates)
           /\ boot.todo \in Todos /\ boot.keeper \in 0 .. MaxRuns
           /\ BootHas(p) => \A q \in boot.todo : BootHas(q) => q[1] = p[1]
BY DEF BootInv, BootRec, BootHas, Todos, Runs

LEMMA BootGoesOn ==
    ASSUME BootInv, NEW at \in BootPlaces, BootGoes(at)
    PROVE  boot' \in BootRec /\ boot'.at = at /\ boot'.todo = boot.todo
BY DEF BootInv, BootRec, BootGoes, BootPlaces

LEMMA BootReads ==
    ASSUME BootInv, NEW at \in BootPlaces, NEW todo \in Todos, BootPhase(at, todo)
    PROVE  boot' \in BootRec /\ boot'.at = at /\ boot'.todo = todo
BY DEF BootInv, BootRec, BootPhase, BootPlaces, Todos

LEMMA BootPasses ==
    ASSUME BootInv, NEW at \in BootPlaces, NEW p, boot' = Past(p, at)
    PROVE  boot' \in BootRec /\ boot'.at = at /\ boot'.todo = boot.todo \ {p}
<1>1. PICK todo \in Todos : todo = boot.todo \ {p}
  BY DEF BootInv, BootRec, Todos
<1>2. boot' = [boot EXCEPT !.at = at, !.todo = todo]
  BY <1>1 DEF Past
<1> QED BY <1>1, <1>2 DEF BootInv, BootRec, BootPlaces, Todos

\* A step of the recovery keeps all but BootInv, which is left to show.
LEMMA BootStepInv ==
    ASSUME Inv, PlainStep, BootOnly, SameChildren, MiscType', heals' = heals,
           \A e \in execs' : e \in execs \/ (e \in ExecRec /\ (Begun(e.r) \/ Begun(e.r)')),
           Keeps => BootInv'
    PROVE  Inv'
<1>1. confirmed' = confirmed /\ call' = call
  BY DEF BootOnly
<1>2. Keeps
  BY <1>1, PlainKeeps
<1> QED BY <1>1, <1>2, TaskStepInv

LEMMA BootReadsInv ==
    ASSUME Inv, BootReadItems \/ BootReadRuns \/ BootReadConts \/ BootEnds
    PROVE  Inv'
<1>0. MiscType /\ RowsInv /\ BootInv
  BY DEF Inv
<1>1. /\ run' = run /\ work' = work /\ cont' = cont /\ intent' = intent /\ flag' = flag
      /\ execs' = execs /\ heals' = heals /\ BootOnly
  BY DEF BootReadItems, BootReadRuns, BootReadConts, BootEnds
<1>2. SameChildren /\ MiscType'
  BY <1>0, <1>1 DEF BootOnly, SameChildren, MiscType
<1>3. CASE BootReadItems
  <2> DEFINE todo == {<<r, work[r]>> : r \in {o \in Runs : work[o] \in Terminal}}
  <2>1. todo \in Todos
    BY DEF Todos, States
  <2>2. boot'.at = "items" /\ boot' \in BootRec
    <3> HIDE DEF todo
    <3> QED BY <1>0, <1>3, <2>1, BootReads DEF BootReadItems, BootPlaces, todo
  <2>3. BootInv'
    BY <2>2 DEF BootInv
  <2> QED BY <1>1, <1>2, <2>3, BootStepInv DEF PlainStep
<1>4. CASE BootReadRuns
  <2> DEFINE todo == {<<r, run[r].st>> : r \in {o \in Runs : IsActive(o)}}
  <2>1. todo \in Todos
    BY DEF Todos, States, IsActive
  <2>2. boot'.at = "runs" /\ boot' \in BootRec /\ boot'.todo = todo
    <3> HIDE DEF todo
    <3> QED BY <1>0, <1>4, <2>1, BootReads DEF BootReadRuns, BootPlaces, todo
  <2>3. \A p \in todo : p[2] = "running" => Begun(p[1])
    BY DEF Begun
  <2>4. BootInv'
    BY <1>1, <2>2, <2>3 DEF BootInv, Begun
  <2> QED BY <1>1, <1>2, <2>4, BootStepInv DEF PlainStep
<1>5. CASE BootReadConts
  <2> DEFINE todo == {<<r, cont[r].state>> :
                        r \in {o \in Runs : cont[o].state \in {"pending", "retry_created"}}}
  <2>1. todo \in Todos
    BY DEF Todos, ContStates
  <2>2. boot'.at = "conts" /\ boot' \in BootRec /\ boot'.todo = todo
    <3> HIDE DEF todo
    <3> QED BY <1>0, <1>5, <2>1, BootReads DEF BootReadConts, BootPlaces, todo
  <2>3. \A p \in todo : p[2] # "pending" => cont[p[1]].child # 0
    BY <1>0 DEF MiscType
  <2>4. BootInv'
    BY <1>1, <2>2, <2>3 DEF BootInv
  <2> QED BY <1>1, <1>2, <2>4, BootStepInv DEF PlainStep
<1>6. CASE BootEnds
  <2>1. boot' = NoBoot
    BY <1>6 DEF BootEnds
  <2>2. BootInv'
    BY <2>1, AdmissionAssumption DEF BootInv, BootRec, NoBoot
  <2> QED BY <1>1, <1>2, <2>2, BootStepInv DEF PlainStep
<1> QED BY <1>3, <1>4, <1>5, <1>6

LEMMA BootItemInv ==
    ASSUME Inv, NEW p \in boot.todo, BootItem(p) \/ BootSettles(p)
    PROVE  Inv'
<1>0. MiscType /\ RowsInv /\ BootInv /\ p[1] \in Runs /\ boot.todo \in Todos
  BY BootEntry DEF Inv
<1>1. /\ CompleteWork(p[1]) /\ intent' = intent /\ flag' = flag
      /\ execs' = execs /\ heals' = heals /\ BootOnly
  BY DEF BootItem, BootSettles
<1>2. /\ PlainStep /\ SameChildren
      /\ work' \in [Runs -> {"none", "failed", "interrupted", "done"}]
      /\ cont' \in [Runs -> [state : ContStates, child : 0 .. MaxRuns]]
      /\ \A r \in Runs : cont'[r].state = "retry_created" => cont'[r].child # 0
  BY <1>0, <1>1, Settling DEF BootOnly
<1>3. MiscType'
  BY <1>0, <1>1, <1>2 DEF MiscType, BootOnly
<1>4. ASSUME Keeps PROVE BootInv'
  <2>1. CASE BootItem(p)
    <3>1. boot'.at = "items" /\ boot' \in BootRec
      BY <1>0, <2>1, BootPasses DEF BootItem, BootPlaces
    <3> QED BY <3>1 DEF BootInv
  <2>2. CASE BootSettles(p)
    <3>1. boot'.at = "runs" /\ boot' \in BootRec /\ boot'.todo = boot.todo \ {p}
      BY <1>0, <2>2, BootPasses DEF BootSettles, BootPlaces
    <3>2. \A q \in boot.todo : q[1] \in Runs /\ (q[2] = "running" => Begun(q[1]))
      BY <1>0, <2>2, BootEntry DEF BootSettles, BootAt, BootInv
    <3>3. \A q \in boot'.todo : q[2] = "running" => Begun(q[1])'
      BY <1>4, <3>1, <3>2 DEF Keeps
    <3> QED BY <3>1, <3>3 DEF BootInv, Begun
  <2> QED BY <2>1, <2>2
<1> QED BY <1>1, <1>2, <1>3, <1>4, BootStepInv

LEMMA BootInterruptsInv ==
    ASSUME Inv, NEW p \in boot.todo, BootInterrupts(p)
    PROVE  Inv'
<1>0. /\ MiscType /\ RowsInv /\ BootInv /\ p[1] \in Runs /\ boot.todo \in Todos
      /\ boot.keeper \in 0 .. MaxRuns /\ boot.at = "runs" /\ boot \in BootRec
  BY BootEntry DEF Inv, BootInterrupts, BootAt, BootInv
<1>1. /\ cont' = cont /\ intent' = intent /\ flag' = flag /\ execs' = execs
      /\ heals' = heals /\ BootOnly /\ SameChildren
  BY DEF BootInterrupts, BootOnly, SameChildren
<1>2. \A q \in boot.todo : q[1] \in Runs /\ (q[2] = "running" => Begun(q[1]))
  BY <1>0, BootEntry DEF BootInv
<1> DEFINE r == p[1]
           st == p[2]
<1>3. CASE st = "running" \/ Stale(r, st)
  <2>1. /\ RequestWork(r, "interrupted") /\ run' = run
        /\ boot' = [boot EXCEPT !.at = "settle", !.keeper = Keeper(r, st)]
    BY <1>3 DEF BootInterrupts
  <2>2. MiscType'
    BY <1>0, <1>1, <2>1, Requesting DEF MiscType, BootOnly
  <2>3. PICK k \in 0 .. MaxRuns : k = Keeper(r, st)
    BY <1>0, AdmissionAssumption DEF Keeper, Runs
  <2>4. boot' \in BootRec /\ boot'.at = "settle" /\ boot'.todo = boot.todo
    <3>1. boot' = [boot EXCEPT !.at = "settle", !.keeper = k]
      BY <2>1, <2>3
    <3> QED BY <1>0, <2>3, <3>1 DEF BootRec
  <2>5. BootInv'
    BY <1>2, <2>1, <2>4 DEF BootInv, Begun
  <2> QED BY <1>1, <2>1, <2>2, <2>5, BootStepInv DEF PlainStep
<1>4. CASE ~(st = "running" \/ Stale(r, st))
  <2>1. work' = work /\ IF Requeueable(r, st) THEN SetStatus(r, "running") ELSE run' = run
    BY <1>4 DEF BootInterrupts
  <2>2. boot' = [boot EXCEPT !.todo = (@ \ {p}) \cup
                    (IF Requeueable(r, st) THEN {<<r, "running">>} ELSE {})]
    BY <1>4 DEF BootInterrupts
  <2>3. PlainStep /\ (Requeueable(r, st) => run'[r].st = "running")
    BY <1>0, <2>1, Admits DEF Requeueable, PlainStep
  <2>4. MiscType'
    BY <1>0, <1>1, <2>1 DEF MiscType, BootOnly
  <2>5. PICK todo : todo = (boot.todo \ {p}) \cup
                              (IF Requeueable(r, st) THEN {<<r, "running">>} ELSE {})
    OBVIOUS
  <2>6. todo \in Todos
    BY <1>0, <2>5 DEF Todos, States, ActiveStates
  <2>7. boot' \in BootRec /\ boot'.at = "runs" /\ boot'.todo = todo
    <3>1. boot' = [boot EXCEPT !.todo = todo]
      BY <2>2, <2>5
    <3> QED BY <1>0, <2>6, <3>1 DEF BootRec, Todos
  <2>8. ASSUME Keeps PROVE BootInv'
    <3>1. PICK o \in Runs : o = p[1]
      BY <1>0
    <3>2. Requeueable(r, st) => Begun(o)'
      BY <2>3, <3>1 DEF Begun
    <3>3. \A q \in todo : (q \in boot.todo) \/ (Requeueable(r, st) /\ q = <<o, "running">>)
      BY <2>5, <3>1
    <3>4. \A q \in todo : q[2] = "running" => Begun(q[1])'
      BY <1>2, <2>8, <3>2, <3>3 DEF Keeps
    <3> QED BY <2>7, <3>4 DEF BootInv, Begun
  <2> QED BY <1>1, <2>3, <2>4, <2>8, BootStepInv
<1> QED BY <1>3, <1>4

LEMMA BootResumesInv ==
    ASSUME Inv, NEW p \in boot.todo, BootResumes(p)
    PROVE  Inv'
<1>0. /\ MiscType /\ RowsInv /\ BootInv /\ p[1] \in Runs /\ boot.todo \in Todos
      /\ boot.keeper \in 0 .. MaxRuns /\ boot.at = "runs" /\ boot \in BootRec /\ p[2] = "running"
  BY BootEntry DEF Inv, BootResumes, BootAt, BootInv
<1>1. /\ run' = run /\ work' = work /\ cont' = cont /\ intent' = intent
      /\ heals' = heals /\ BootOnly /\ SameChildren /\ PutFlag(p[1], "respawn")
      /\ execs' = execs \cup {Executor(p[1], "respawn", "none")}
      /\ boot' = [boot EXCEPT !.todo = @ \ {p}, !.keeper = Keeper(p[1], p[2])]
  BY DEF BootResumes, BootOnly, SameChildren
<1>2. \A q \in boot.todo : q[1] \in Runs /\ (q[2] = "running" => Begun(q[1]))
  BY <1>0, BootEntry DEF BootInv
<1>3. Executor(p[1], "respawn", "none") \in ExecRec /\ Executor(p[1], "respawn", "none").r = p[1]
  BY <1>0 DEF Executor, ExecRec, Tags
<1>4. \A e \in execs' : e \in execs \/ (e \in ExecRec /\ (Begun(e.r) \/ Begun(e.r)'))
  BY <1>0, <1>1, <1>2, <1>3
<1>5. MiscType'
  <2>1. flag' \in [Runs -> Tags \cup {NoCall}]
    BY <1>0, <1>1 DEF PutFlag, MiscType, Tags
  <2> QED BY <1>0, <1>1, <2>1 DEF MiscType, BootOnly
<1>6. BootInv'
  <2>1. PICK k \in 0 .. MaxRuns : k = Keeper(p[1], p[2])
    BY <1>0, AdmissionAssumption DEF Keeper, Runs
  <2>2. PICK todo \in Todos : todo = boot.todo \ {p}
    BY <1>0 DEF Todos
  <2>3. boot' = [boot EXCEPT !.todo = todo, !.keeper = k]
    BY <1>1, <2>1, <2>2
  <2>4. boot' \in BootRec /\ boot'.at = "runs" /\ boot'.todo = todo
    BY <1>0, <2>1, <2>2, <2>3 DEF BootRec, Todos
  <2> QED BY <1>1, <1>2, <2>2, <2>4 DEF BootInv, Begun
<1> QED BY <1>1, <1>4, <1>5, <1>6, BootStepInv DEF PlainStep

LEMMA BootContinuesInv ==
    ASSUME Inv, NEW p \in boot.todo, BootContinues(p)
    PROVE  Inv'
<1>0. /\ MiscType /\ RowsInv /\ BootInv /\ p[1] \in Runs /\ boot.todo \in Todos
      /\ boot.at = "conts" /\ boot \in BootRec /\ LinksInv
      /\ \A q \in boot.todo : BootHas(q) => q[1] = p[1]
      /\ \A q \in boot.todo : q[2] # "pending" => cont[q[1]].child # 0
  BY BootEntry DEF Inv, BootContinues, BootAt, BootInv
<1>1. /\ run' = run /\ work' = work /\ cont' = cont /\ intent' = intent
      /\ flag' = flag /\ execs' = execs /\ BootOnly /\ SameChildren
  BY DEF BootContinues, BootOnly, SameChildren
<1>2. MiscType'
  BY <1>0, <1>1 DEF MiscType, BootOnly
<1>3. CASE p[2] = "pending"
  <2>1. heals' = heals \cup {Healer(p[1], "boot")} /\ boot' = Past(p, "conts")
    BY <1>3 DEF BootContinues
  <2>2. HealOK(Healer(p[1], "boot"))'
    BY <1>0, AdmissionAssumption DEF HealOK, HealRec, Healer, Runs
  <2>3. boot' \in BootRec /\ boot'.at = "conts" /\ boot'.todo = boot.todo \ {p}
    BY <1>0, <2>1, BootPasses DEF BootPlaces
  <2>4. BootInv'
    BY <1>0, <1>1, <2>3 DEF BootInv
  <2>5. \A h \in heals' : h \in heals \/ HealOK(h)'
    BY <2>1, <2>2
  <2>6. confirmed' = confirmed /\ call' = call
    BY <1>1 DEF BootOnly
  <2> QED BY <1>1, <1>2, <2>4, <2>5, <2>6, TaskStepInv DEF PlainStep
<1>4. CASE p[2] # "pending"
  <2>1. PICK n \in Runs : n = cont[p[1]].child /\ n # 0 /\ Child(p[1], n)
    BY <1>0, <1>4 DEF LinksInv, Child
  <2>2. PICK at \in {"claim", "close"} :
          at = IF run[n].st = "waiting" /\ run[n].cost = "cheap" THEN "claim" ELSE "close"
    OBVIOUS
  <2>3. BootGoes(at) /\ heals' = heals /\ at \in BootPlaces
    BY <1>4, <2>1, <2>2 DEF BootContinues, BootPlaces
  <2>4. boot' \in BootRec /\ boot'.at = at /\ boot'.todo = boot.todo
    BY <1>0, <2>3, BootGoesOn
  <2>5. at = "claim" => Cleared(n)
    BY <2>2 DEF Cleared, Settled
  <2>6. \A q \in boot'.todo : BootHas(q)' => q[1] = p[1]
    BY <1>0, <2>4 DEF BootHas
  <2>7. confirmed' = confirmed
    BY <1>1 DEF BootOnly
  <2>8. at = "claim" => \A q \in boot'.todo : BootHas(q)' => /\ cont'[q[1]].child # 0
                                                          /\ Cleared(cont[q[1]].child)'
    BY <1>1, <2>1, <2>5, <2>6, <2>7 DEF Cleared, Settled
  <2>9. BootInv'
    BY <1>0, <1>1, <2>2, <2>4, <2>8 DEF BootInv
  <2> QED BY <1>1, <1>2, <2>3, <2>9, BootStepInv DEF PlainStep
<1> QED BY <1>3, <1>4

LEMMA NoBootInv ==
    ASSUME boot' = NoBoot
    PROVE  BootInv'
BY AdmissionAssumption DEF BootInv, BootRec, NoBoot

LEMMA BootClaimInv ==
    ASSUME Inv, NEW p \in boot.todo, BootClaim(p) \/ BootCas(p)
    PROVE  Inv'
<1>0. /\ MiscType /\ RowsInv /\ BootInv /\ p[1] \in Runs /\ boot.todo \in Todos
      /\ boot.at \in {"claim", "cas"} /\ LinksInv /\ BootHas(p) /\ boot \in BootRec
      /\ \A q \in boot.todo : BootHas(q) => q[1] = p[1]
      /\ \A q \in boot.todo : q[2] # "pending" => cont[q[1]].child # 0
      /\ cont[p[1]].child # 0 /\ Cleared(cont[p[1]].child)
  BY BootEntry DEF Inv, BootClaim, BootCas, BootAt, BootInv
<1>1. PICK n \in Runs : n = cont[p[1]].child /\ n # 0
  BY <1>0 DEF LinksInv, Child
<1>2. /\ work' = work /\ cont' = cont /\ heals' = heals /\ BootOnly /\ SameChildren
      /\ confirmed' = confirmed
  BY DEF BootClaim, BootCas, BootOnly, SameChildren
<1>3. MiscType'
  <2>1. flag' \in [Runs -> Tags \cup {NoCall}]
    <3>1. "resume" \in Tags
      BY DEF Tags
    <3> QED BY <1>0, <1>1, <3>1, FlagTypes DEF BootClaim, BootCas, PrepareClaim, MiscType
  <2>2. intent' \in SUBSET Runs
    BY <1>0, <1>1 DEF BootClaim, BootCas, PrepareClaim, MiscType
  <2> QED BY <1>0, <1>2, <2>1, <2>2 DEF MiscType, BootOnly
<1>4. CASE boot' = NoBoot /\ run' = run /\ execs' = execs
  BY <1>2, <1>3, <1>4, NoBootInv, BootStepInv DEF PlainStep
<1>5. CASE BootGoes("cas") /\ run' = run /\ execs' = execs
  <2>1. boot' \in BootRec /\ boot'.at = "cas" /\ boot'.todo = boot.todo
    BY <1>0, <1>5, BootGoesOn DEF BootPlaces
  <2>2. \A q \in boot'.todo : BootHas(q)' => q[1] = p[1]
    BY <1>0, <2>1 DEF BootHas
  <2>3. \A q \in boot'.todo : BootHas(q)' => /\ cont'[q[1]].child # 0
                                            /\ Cleared(cont[q[1]].child)'
    BY <1>0, <1>1, <1>2, <1>5, <2>2 DEF Cleared, Settled
  <2>4. BootInv'
    BY <1>0, <1>2, <2>1, <2>3 DEF BootInv
  <2> QED BY <1>2, <1>3, <1>5, <2>4, BootStepInv DEF PlainStep
<1>6. CASE /\ Claimable(n, "waiting") /\ SetStatus(n, "running") /\ BootGoes("close")
           /\ execs' = execs \cup {Executor(n, "resume", "heal")}
  <2>1. PlainStep /\ run'[n].st = "running"
    BY <1>0, <1>1, <1>6, Admits
  <2>2. boot' \in BootRec /\ boot'.at = "close" /\ boot'.todo = boot.todo
    BY <1>0, <1>6, BootGoesOn DEF BootPlaces
  <2>3. BootInv'
    BY <1>0, <1>2, <2>2 DEF BootInv
  <2>4. /\ Executor(n, "resume", "heal") \in ExecRec
        /\ Executor(n, "resume", "heal").r = n
    BY DEF Executor, ExecRec, Tags
  <2>5. Begun(n)'
    BY <2>1 DEF Begun
  <2>6. \A e \in execs' : e \in execs \/ (e \in ExecRec /\ (Begun(e.r) \/ Begun(e.r)'))
    BY <1>6, <2>4, <2>5
  <2> QED BY <1>2, <1>3, <2>1, <2>3, <2>6, BootStepInv
<1> QED BY <1>1, <1>4, <1>5, <1>6 DEF BootClaim, BootCas

LEMMA BootClosesInv ==
    ASSUME Inv, NEW p \in boot.todo, BootCloses(p)
    PROVE  Inv'
<1>0. /\ MiscType /\ BootInv /\ p[1] \in Runs /\ boot.at = "close"
      /\ \A q \in boot.todo : q[1] \in Runs /\ (q[2] # "pending" => cont[q[1]].child # 0)
  BY BootEntry DEF Inv, BootCloses, BootAt, BootInv
<1>1. /\ run' = run /\ work' = work /\ intent' = intent /\ flag' = flag /\ execs' = execs
      /\ heals' = heals /\ BootOnly /\ CloseCont(p[1], "completed") /\ boot' = Past(p, "conts")
  BY DEF BootCloses
<1>2. SameChildren /\ MiscType'
  BY <1>0, <1>1, Closing DEF SameChildren, MiscType, BootOnly
<1>3. boot' \in BootRec /\ boot'.at = "conts" /\ boot'.todo = boot.todo \ {p}
  BY <1>0, <1>1, BootPasses DEF BootPlaces
<1>4. BootInv'
  BY <1>0, <1>2, <1>3 DEF BootInv, SameChildren
<1> QED BY <1>1, <1>2, <1>4, BootStepInv DEF PlainStep

LEMMA BootStepKeeps ==
    ASSUME Inv, BootStep
    PROVE  Inv'
<1>1. CASE BootReadItems \/ BootReadRuns \/ BootReadConts \/ BootEnds
  BY <1>1, BootReadsInv
<1>2. ASSUME NEW p \in boot.todo,
             \/ BootItem(p) \/ BootInterrupts(p) \/ BootSettles(p) \/ BootResumes(p)
             \/ BootContinues(p) \/ BootClaim(p) \/ BootCas(p) \/ BootCloses(p)
      PROVE  Inv'
  BY <1>2, BootItemInv, BootInterruptsInv, BootResumesInv, BootContinuesInv, BootClaimInv, BootClosesInv
<1> QED BY <1>1, <1>2 DEF BootStep

-----------------------------------------------------------------------------
(* The server stops; the theorems.                                         *)

LEMMA FreshCalls ==
    ASSUME call' \in [Calls -> {NewCall, Finished}]
    PROVE  CallsInv'
<1>1. /\ NewCall \in CallRec /\ NewCall.at = "new" /\ NewCall.list = <<>>
      /\ Finished \in CallRec /\ Finished.at = "done"
  BY AdmissionAssumption DEF NewCall, Finished, CallRec, CallPlaces, Estimating, Walking
<1>2. CallType' /\ \A c \in Calls : \/ call'[c].at = "new" /\ call'[c].list = <<>>
                                    \/ call'[c].at = "done"
  BY <1>1 DEF CallType
<1> QED BY <1>2 DEF CallsInv, CallOK, Apart, Estimating, Walking

LEMMA CrashKeeps ==
    ASSUME Inv, Crash
    PROVE  Inv'
<1>0. MiscType /\ RowsInv /\ LinksInv /\ Alone /\ Approved
  BY DEF Inv
<1>1. /\ run' = run /\ work' = work /\ cont' = cont /\ rejected' = rejected /\ intent' = intent
      /\ confirmed' = confirmed /\ execs' = {} /\ heals' = {} /\ signalled' = {}
      /\ flag' = [r \in Runs |-> NoCall] /\ queueLock' = NoCall
      /\ crashes < MaxCrashes /\ crashes' = crashes + 1
      /\ boot' = [at |-> "start", todo |-> {}, keeper |-> 0]
      /\ call' = [c \in Calls |-> IF At(c, "new") THEN NewCall ELSE Finished]
  BY DEF Crash, rowVars
<1>2. RowsInv' /\ Alone' /\ Approved' /\ Keeps /\ NoRetry
  BY <1>1, PlainKeeps DEF PlainStep
<1>3. LinksInv'
  BY <1>0, <1>1, <1>2, LinksKept DEF SameChildren
<1>4. crashes' \in 0 .. MaxCrashes
  BY <1>0, <1>1, AdmissionAssumption DEF MiscType
<1>5. MiscType'
  BY <1>0, <1>1, <1>4 DEF MiscType
<1>6. CallsInv'
  BY <1>1, FreshCalls
<1>7. ExecsInv' /\ HealsInv'
  BY <1>1 DEF ExecsInv, HealsInv
<1>8. BootInv'
  BY <1>1, AdmissionAssumption DEF BootInv, BootRec
<1> QED BY <1>2, <1>3, <1>5, <1>6, <1>7, <1>8 DEF Inv

LEMMA InitInv ==
    ASSUME AdmissionInit
    PROVE  Inv
<1>1. \A r \in Runs : run[r] = NoRun
  BY DEF AdmissionInit
<1>2. run \in [Runs -> RowType]
  BY AdmissionAssumption DEF AdmissionInit, NoRun, RowType
<1>3. Latest = 0
  <2>1. Existing = {}
    BY <1>1 DEF Existing, NoRun
  <2> QED BY <2>1, FS_EmptySet DEF Latest
<1>4. RowsInv
  BY <1>1, <1>2, <1>3, AdmissionAssumption DEF RowsInv, NoRun, Runs
<1>5. Alone /\ Approved
  BY <1>1 DEF Alone, Approved, IsActive, ActiveStates, NoRun
<1>6. MiscType
  BY AdmissionAssumption DEF AdmissionInit, MiscType, NoCont, ContStates
<1>7. LinksInv
  BY <1>1 DEF AdmissionInit, LinksInv, NoRun, NoCont
<1>8. CallsInv
  <2>1. /\ NewCall \in CallRec /\ NewCall.at = "new" /\ NewCall.list = <<>>
    BY AdmissionAssumption DEF NewCall, CallRec, CallPlaces
  <2>2. CallType /\ \A c \in Calls : call[c].at = "new" /\ call[c].list = <<>>
    BY <2>1 DEF CallType, AdmissionInit
  <2> QED BY <2>2 DEF CallsInv, CallOK, Apart, Estimating, Walking
<1>9. ExecsInv /\ HealsInv
  BY DEF AdmissionInit, ExecsInv, HealsInv
<1>10. BootInv
  BY AdmissionAssumption DEF AdmissionInit, BootInv, BootRec, NoBoot
<1> QED BY <1>4, <1>5, <1>6, <1>7, <1>8, <1>9, <1>10 DEF Inv

LEMMA StutterKeeps ==
    ASSUME Inv, UNCHANGED vars
    PROVE  Inv'
<1>1. /\ run' = run /\ work' = work /\ cont' = cont /\ rejected' = rejected /\ intent' = intent
      /\ flag' = flag /\ signalled' = signalled /\ execs' = execs /\ heals' = heals
      /\ call' = call /\ queueLock' = queueLock /\ boot' = boot /\ crashes' = crashes
      /\ confirmed' = confirmed
  BY DEF vars, rowVars, memVars
<1>2. SameChildren /\ MiscType'
  BY <1>1 DEF SameChildren, MiscType, Inv
<1> QED BY <1>1, <1>2, TaskStepInv DEF PlainStep

\* Whatever the requests, tasks, the recovery and crashes do, and in any
\* order, each finds the runs it is about to change as it expects them.
THEOREM AdmissionInvariant == AdmissionSpec => []Inv
<1>1. AdmissionInit => Inv
  BY InitInv
<1>2. Inv /\ [AdmissionNext]_vars => Inv'
  <2> SUFFICES ASSUME Inv, [AdmissionNext]_vars PROVE Inv'
    OBVIOUS
  <2>1. ASSUME NEW c \in Calls, Request(c) \/ CallStep(c) PROVE Inv'
    BY <2>1, RequestInv, CallStepKeeps
  <2>2. CASE ExecStep \/ HealStep \/ BootStep \/ Crash
    BY <2>2, ExecStepKeeps, HealStepKeeps, BootStepKeeps, CrashKeeps
  <2>3. CASE UNCHANGED vars
    BY <2>3, StutterKeeps
  <2> QED BY <2>1, <2>2, <2>3 DEF AdmissionNext
<1> QED BY <1>1, <1>2, PTL DEF AdmissionSpec

\* claim_run_if_workspace_idle and ensure_workspace_not_busy: at most one run
\* of a workspace is active, or members of one sweep, for any number of
\* requests, healers and restarts.
THEOREM OneActiveAlways == AdmissionSpec => []OneActive
<1>1. Inv => OneActive
  <2> SUFFICES ASSUME Inv PROVE OneActive
    OBVIOUS
  <2>1. RowsInv /\ MiscType /\ LinksInv /\ Alone
    BY DEF Inv
  <2>2. \A r \in Runs : cont[r].state = "retry_created" => cont[r].child \in Existing
    BY <2>1 DEF MiscType, LinksInv, Child, Settled, Existing
  <2>3. AdmissionTypeOK
    BY <2>1, <2>2 DEF RowsInv, RowType, MiscType, ContStates, AdmissionTypeOK
  <2> QED BY <2>1, <2>3 DEF Alone, OneActive
<1> QED BY <1>1, AdmissionInvariant, PTL

\* The cost gate: a run above the threshold starts only after a user has
\* confirmed it, also as a retry, a rerun or a member of a sweep.
THEOREM NothingUnapprovedAlways == AdmissionSpec => []NothingUnapproved
<1>1. Inv => NothingUnapproved
  BY DEF Inv, Approved, Cleared, NothingUnapproved
<1> QED BY <1>1, AdmissionInvariant, PTL

\* create_retry_run_once and create_reject_retry_run_once: one retry per
\* failure, one rerun per rejection, and never more than max_run_retries.
THEOREM OneRetryPerFailureAlways == AdmissionSpec => []OneRetryPerFailure
<1>1. Inv => OneRetryPerFailure
  <2> SUFFICES ASSUME Inv PROVE OneRetryPerFailure
    OBVIOUS
  <2>1. LinksInv /\ Existing \subseteq Runs /\ \A r \in Runs : run[r].force \in BOOLEAN
    BY DEF Inv, RowsInv, RowType, Existing
  <2>2. ASSUME NEW a \in Existing, NEW b \in Existing, a # b, run[a].parent # 0,
               run[a].parent = run[b].parent
        PROVE  run[a].force # run[b].force
    <3>1. CASE run[a].force /\ run[b].force
      BY <2>1, <2>2, <3>1 DEF LinksInv
    <3>2. CASE ~run[a].force /\ ~run[b].force
      BY <2>1, <2>2, <3>2 DEF LinksInv
    <3> QED BY <2>1, <3>1, <3>2
  <2> QED BY <2>1, <2>2 DEF LinksInv, OneRetryPerFailure
<1> QED BY <1>1, AdmissionInvariant, PTL

-----------------------------------------------------------------------------
(* Sweeps, while the server does not stop.  A restart lets the recovery     *)
(* give a member a second executor, which may fail the run under the first. *)

Gathering == Estimating \cup {"create", "saved"}
Started == {"validate", "enqueue", "next", "executing"}
Gathers(c) == call[c].op = "sweep" /\ call[c].at \in Gathering

\* A group is named after its first run; retries and reruns have none.
GroupsInv ==
    /\ \A r \in Runs : run[r].grp <= r /\ (run[r].st = "none" => run[r].grp = 0)
    /\ \A p \in Runs : cont[p].child # 0 => run[cont[p].child].grp = 0
    /\ \A p \in Runs : rejected[p] # 0 => run[rejected[p]].grp = 0

WorkInv ==
    \A r \in Runs : /\ work[r] = "failed" => Begun(r)
                    /\ work[r] = "done" => run[r].st \in Terminal

\* A member's executor is its only one, so that only it can fail the run.
Unfailed == {"start", "run", "settle_ok", "ok"}
MemberOK(e) ==
    IsSweep(e.r) /\ e.at \in Unfailed =>
        /\ run[e.r].st # "failed" /\ work[e.r] # "failed"
        /\ e.at = "settle_ok" => work[e.r] \in {"interrupted", "done"}
        /\ e.at = "ok" => run[e.r].st \in Terminal
OneExecutor == \A e, f \in execs : e.r = f.r /\ IsSweep(e.r) => e = f
MembersInv == OneExecutor /\ \A e \in execs : MemberOK(e)

RetryOK(h) ==
    h.at \in {"claim", "cas", "claimed"} => run[h.child].st # "none" /\ run[h.child].grp = 0
RetriesInv == \A h \in heals : RetryOK(h)

\* The list names all members of a group up to its last entry, in order, and
\* while the group is being made, all there are.
Covers(list) ==
    \A j \in 1 .. Len(list) :
        /\ IsSweep(list[j])
        /\ \A m \in Runs : m < list[j] /\ run[m].grp = run[list[j]].grp
                              => \E k \in 1 .. (j - 1) : list[k] = m
Complete(list) ==
    \A j \in 1 .. Len(list) :
        /\ run[list[j]].grp = list[1]
        /\ \A m \in Runs : run[m].grp = list[1] => \E k \in 1 .. Len(list) : list[k] = m

SweepCall(c) ==
    /\ Gathers(c) \/ call[c].at \in Started => Covers(call[c].list)
    /\ Gathers(c) => Complete(call[c].list)
    /\ call[c].at \in Estimating \cup {"saved"} /\ call[c].op # "sweep" => run[call[c].r].grp = 0
    /\ call[c].at \in {"claim", "cas"} => run[call[c].r].grp = 0
    /\ call[c].at \in {"next", "executing"}
          => \A j \in 1 .. (call[c].i - 1) : run[call[c].list[j]].st = "succeeded"

Gathered(c) == Gathers(c) /\ call[c].list # <<>>
OwnGroups ==
    \A c, d \in Calls : c # d /\ Gathered(c) /\ Gathered(d) => call[c].list[1] # call[d].list[1]

SweepInv == /\ boot.at = "off" /\ GroupsInv /\ WorkInv /\ MembersInv /\ RetriesInv
            /\ (\A c \in Calls : SweepCall(c)) /\ OwnGroups

\* What a step does to the rows: a group stays what it is, a run fails as it
\* was asked to, and a member starts after the others.
Ready(r) == IsSweep(r) => \A m \in Members(run[r].grp) : m < r => run[m].st = "succeeded"
MayFail(r) == run[r].st \in {"failed", "estimating"} \/ work[r] = "failed"

Kept(r) ==
    /\ run[r].st # "none" => run'[r].st # "none" /\ run'[r].grp = run[r].grp
    /\ Begun(r) => Begun(r)'
    /\ run[r].st \in Terminal => run'[r].st = run[r].st
    /\ run'[r].st = "failed" => MayFail(r)
    /\ run'[r].st = "running" => run[r].st = "running" \/ Ready(r)
Grouped(r) == run[r].st = "none" => run'[r].grp = 0
RowsKept == \A r \in Runs : Kept(r) /\ Grouped(r)

\* What it does to the work items.
Worked(r) ==
    \/ work'[r] = work[r]
    \/ work'[r] = "interrupted" /\ work[r] # "done"
    \/ work'[r] = "failed" /\ Begun(r) /\ work[r] \notin {"interrupted", "done"}
    \/ work'[r] = "done" /\ run'[r].st \in Terminal
WorkKept == \A r \in Runs : Worked(r)

Steady(r, st) ==
    /\ run[r].st # "none" /\ st \in States
    /\ run[r].st \in Terminal => st = run[r].st
    /\ Begun(r) => st = "running" \/ st \in Terminal
    /\ st = "failed" => MayFail(r)
    /\ st = "running" => run[r].st = "running" \/ Ready(r)

LEMMA StatusKept ==
    ASSUME RowsInv, GroupsInv, NEW r \in Runs, NEW st, Steady(r, st), SetStatus(r, st)
    PROVE  RowsKept
<1>1. \A o \in Runs : run'[o] = IF o = r THEN [run[r] EXCEPT !.st = st] ELSE run[o]
  BY DEF SetStatus, RowsInv
<1>2. /\ run'[r].st = st /\ run'[r].grp = run[r].grp
      /\ \A o \in Runs : o # r => run'[o] = run[o]
  BY <1>1 DEF RowsInv, RowType
<1>3. \A o \in Runs : Grouped(o)
  BY <1>2 DEF Grouped, GroupsInv
<1>4. ASSUME NEW o \in Runs, o # r PROVE Kept(o)
  BY <1>2, <1>4 DEF Kept, Begun, MayFail
<1>5. Kept(r)
  BY <1>2 DEF Kept, Begun, Steady, States, Terminal, ActiveStates
<1> QED BY <1>3, <1>4, <1>5 DEF RowsKept

LEMMA SameKept ==
    ASSUME GroupsInv, run' = run
    PROVE  RowsKept
BY DEF RowsKept, Kept, Grouped, GroupsInv, Begun, MayFail

\* Nothing is known of a run that a step makes, or of one that it prices.
LEMMA AddedKept ==
    ASSUME RowsInv, GroupsInv, NEW row, Room(1), Insert(row), row.st # "none",
           row.st \notin {"running", "failed"}
    PROVE  /\ \A r \in Runs : Kept(r) /\ (r # Latest + 1 => Grouped(r))
           /\ row.grp = 0 => RowsKept
           /\ run'[Latest + 1] = row /\ Latest + 1 \in Runs /\ run[Latest + 1].st = "none"
<1>1. PICK n \in Runs : n = Latest + 1 /\ run[n].st = "none"
  BY AdmissionAssumption DEF Room, RowsInv, Runs
<1>2. run'[n] = row /\ \A o \in Runs : o # n => run'[o] = run[o]
  BY <1>1 DEF Insert, RowsInv
<1>3. \A o \in Runs : o # n => Kept(o) /\ Grouped(o)
  BY <1>2 DEF Kept, Grouped, GroupsInv, Begun, MayFail
<1>4. Kept(n)
  BY <1>1, <1>2 DEF Kept, Begun, Terminal
<1>5. row.grp = 0 => Grouped(n)
  BY <1>2 DEF Grouped
<1> QED BY <1>1, <1>2, <1>3, <1>4, <1>5 DEF RowsKept

LEMMA PricedKept ==
    ASSUME RowsInv, GroupsInv, NEW r \in Runs, Priced(r)
    PROVE  RowsKept
<1>1. PICK cost \in {"cheap", "dear"} :
        run[r].st = "estimating" /\ run' = [run EXCEPT ![r].st = "waiting", ![r].cost = cost]
  BY DEF Priced
<1>2. /\ run'[r].st = "waiting" /\ run'[r].grp = run[r].grp
      /\ \A o \in Runs : o # r => run'[o] = run[o]
  BY <1>1 DEF RowsInv, RowType
<1>3. \A o \in Runs : o # r => Kept(o) /\ Grouped(o)
  BY <1>2 DEF Kept, Grouped, GroupsInv, Begun, MayFail
<1>4. Kept(r) /\ Grouped(r)
  BY <1>1, <1>2 DEF Kept, Grouped, GroupsInv, Begun, Terminal
<1> QED BY <1>3, <1>4 DEF RowsKept

\* The order of a group survives: new runs come after all others.
LEMMA CoversKept ==
    ASSUME RowsInv, GroupsInv, \A r \in Runs : Kept(r), NEW list \in Seq(Runs), Covers(list)
    PROVE  Covers(list)'
<1> SUFFICES ASSUME NEW j \in 1 .. Len(list)
             PROVE  /\ IsSweep(list[j])'
                    /\ \A m \in Runs : m < list[j] /\ run'[m].grp = run'[list[j]].grp
                                          => \E k \in 1 .. (j - 1) : list[k] = m
  BY DEF Covers
<1>1. PICK r \in Runs : r = list[j]
  OBVIOUS
<1>2. run[r].grp # 0 /\ run[r].st # "none" /\ run'[r].grp = run[r].grp
  <2>1. run[r].grp # 0
    BY <1>1 DEF Covers, IsSweep
  <2> QED BY <2>1 DEF GroupsInv, Kept
<1>3. \A m \in Runs : m < r => run[m].st # "none" /\ run'[m].grp = run[m].grp
  BY <1>2 DEF RowsInv, Kept, Runs
<1>4. \A m \in Runs : m < r /\ run[m].grp = run[r].grp => \E k \in 1 .. (j - 1) : list[k] = m
  BY <1>1 DEF Covers
<1> QED BY <1>1, <1>2, <1>3, <1>4 DEF IsSweep

\* Whose children a step makes belong to no sweep.
ChildrenKept ==
    \A p \in Runs :
        /\ \/ cont'[p].child = cont[p].child
           \/ cont'[p].child \in Runs /\ run'[cont'[p].child].grp = 0
        /\ \/ rejected'[p] = rejected[p]
           \/ rejected'[p] \in Runs /\ run'[rejected'[p]].grp = 0

LEMMA GroupsKept ==
    ASSUME Inv, GroupsInv, \A r \in Runs : Kept(r), ChildrenKept,
           \A r \in Runs : Grouped(r) \/ (run'[r].grp <= r /\ run'[r].st # "none")
    PROVE  GroupsInv'
<1>1. \A r \in Runs : run'[r].grp <= r /\ (run'[r].st = "none" => run'[r].grp = 0)
  BY AdmissionAssumption DEF GroupsInv, Kept, Grouped, Runs
<1>2. \A q \in Runs : cont[q].child \in Runs \cup {0} /\ rejected[q] \in Runs \cup {0}
  BY LinkTypes DEF Inv
<1>3. \A p, r \in Runs : Child(p, r) /\ run[r].grp = 0 => run'[r].grp = 0
  BY DEF Child, Settled, Kept
<1>4. \A p \in Runs : cont'[p].child # 0 => run'[cont'[p].child].grp = 0
  BY <1>2, <1>3 DEF ChildrenKept, GroupsInv, Inv, LinksInv
<1>5. \A p \in Runs : rejected'[p] # 0 => run'[rejected'[p]].grp = 0
  BY <1>2, <1>3 DEF ChildrenKept, GroupsInv, Inv, LinksInv
<1> QED BY <1>1, <1>4, <1>5 DEF GroupsInv

LEMMA WorkInvKept ==
    ASSUME WorkInv, \A r \in Runs : Kept(r), WorkKept
    PROVE  WorkInv'
BY DEF WorkInv, WorkKept, Worked, Kept, Begun, Terminal

LEMMA SameWork ==
    ASSUME work' = work
    PROVE  WorkKept
BY DEF WorkKept, Worked

\* An executor that takes no step stays the only one, and unfailed.
LEMMA MemberKept ==
    ASSUME Inv, SweepInv, \A r \in Runs : Kept(r), WorkKept, NEW e \in execs,
           IsSweep(e.r) /\ e.at \in Unfailed /\ work'[e.r] = "failed" => work[e.r] = "failed"
    PROVE  MemberOK(e)'
<1>1. e.r \in Runs /\ Begun(e.r) /\ MemberOK(e)
  BY DEF Inv, ExecsInv, ExecRec, SweepInv, MembersInv
<1>2. run'[e.r].grp = run[e.r].grp
  BY <1>1 DEF Kept, Begun, Terminal
<1>3. Worked(e.r) /\ Kept(e.r)
  BY <1>1 DEF WorkKept
<1> QED BY <1>1, <1>2, <1>3 DEF MemberOK, IsSweep, Worked, Kept, MayFail, Begun, Terminal

LEMMA MembersKept ==
    ASSUME Inv, SweepInv, \A r \in Runs : Kept(r), WorkKept,
           \A e \in execs' : \/ MemberOK(e)'
                             \/ /\ e \in execs
                                /\ IsSweep(e.r) /\ e.at \in Unfailed /\ work'[e.r] = "failed"
                                      => work[e.r] = "failed",
           execs' \subseteq execs \/ OneExecutor'
    PROVE  MembersInv'
<1>1. \A e \in execs' : MemberOK(e)'
  BY MemberKept
<1>2. \A e \in execs : IsSweep(e.r)' => IsSweep(e.r)
  <2>1. \A e \in execs : e.r \in Runs /\ Begun(e.r)
    BY DEF Inv, ExecsInv, ExecRec
  <2> QED BY <2>1 DEF Kept, IsSweep, Begun, Terminal
<1>3. OneExecutor'
  BY <1>2 DEF OneExecutor, SweepInv, MembersInv
<1> QED BY <1>1, <1>3 DEF MembersInv

LEMMA SameMembers ==
    ASSUME Inv, SweepInv, \A r \in Runs : Kept(r), WorkKept, execs' \subseteq execs,
           \A r \in Runs : work'[r] = "failed" => work[r] = "failed"
    PROVE  MembersInv'
<1>1. \A e \in execs' : e \in execs /\ e.r \in Runs
  BY DEF Inv, ExecsInv, ExecRec
<1> QED BY <1>1, MembersKept

LEMMA RetriesKept ==
    ASSUME Inv, SweepInv, \A r \in Runs : Kept(r), \A h \in heals' : h \in heals \/ RetryOK(h)'
    PROVE  RetriesInv'
<1>1. ASSUME NEW h \in heals PROVE RetryOK(h)'
  <2>1. RetryOK(h) /\ HealOK(h)
    BY DEF SweepInv, RetriesInv, Inv, HealsInv
  <2>2. h.at \in {"claim", "cas", "claimed"} => h.child \in Runs
    BY <2>1 DEF HealOK
  <2> QED BY <2>1, <2>2 DEF RetryOK, Kept
<1> QED BY <1>1 DEF RetriesInv

LEMMA FirstOf ==
    ASSUME NEW list \in Seq(Runs)
    PROVE  /\ list # <<>> => 1 \in 1 .. Len(list) /\ list[1] \in Runs /\ list[1] # 0
           /\ \A j \in 1 .. Len(list) : list # <<>> /\ list[j] \in Runs
<1>1. Len(list) \in Nat /\ (list # <<>> => Len(list) # 0)
  BY EmptySeq
<1>2. list # <<>> => 1 \in 1 .. Len(list)
  BY <1>1
<1>3. \A j \in 1 .. Len(list) : list[j] \in Runs
  OBVIOUS
<1>4. \A r \in Runs : r # 0
  BY AdmissionAssumption DEF Runs
<1>5. \A j \in 1 .. Len(list) : list # <<>>
  OBVIOUS
<1> QED BY <1>2, <1>3, <1>4, <1>5

\* What a request knows of its list and run stays so, if nobody joins the
\* group it is making.
NobodyJoins(c) ==
    Gathered(c) => \A r \in Runs : Grouped(r) \/ run'[r].grp # call[c].list[1]

LEMMA KnownKept ==
    ASSUME Inv, SweepInv, \A r \in Runs : Kept(r), NEW c \in Calls, NobodyJoins(c),
           NEW list \in Seq(Runs), list = call[c].list
    PROVE  /\ Gathers(c) \/ call[c].at \in Started => Covers(list)'
           /\ Gathers(c) => Complete(list)'
           /\ call[c].at \in Estimating \cup {"saved", "claim", "cas"}
                 => run'[call[c].r].grp = run[call[c].r].grp
           /\ call[c].at \in {"next", "executing"}
                 => \A j \in 1 .. (call[c].i - 1) : run'[list[j]].st = "succeeded"
           /\ SweepCall(c)
<1>1. SweepCall(c) /\ CallOK(c) /\ call[c] \in CallRec
  BY DEF SweepInv, Inv, CallsInv, CallType
<1>2. Gathers(c) \/ call[c].at \in Started => Covers(list)'
  <2>1. Covers(list) => Covers(list)'
    BY CoversKept DEF Inv, SweepInv
  <2> QED BY <1>1, <2>1 DEF SweepCall
<1>3. Gathers(c) => Complete(list)'
  <2> SUFFICES ASSUME Gathers(c), NEW j \in 1 .. Len(list)
               PROVE  /\ run'[list[j]].grp = list[1]
                      /\ \A m \in Runs : run'[m].grp = list[1] => \E k \in 1 .. Len(list) : list[k] = m
    BY DEF Complete
  <2>1. list # <<>> /\ list[1] \in Runs /\ list[1] # 0
    BY FirstOf
  <2>2. PICK r \in Runs : r = list[j]
    OBVIOUS
  <2>3. run[r].grp = list[1] /\ \A m \in Runs : run[m].grp = list[1] => \E k \in 1 .. Len(list) : list[k] = m
    BY <1>1, <2>2 DEF SweepCall, Complete
  <2>4. run'[r].grp = list[1]
    BY <2>1, <2>3 DEF Kept, SweepInv, GroupsInv
  <2>5. ASSUME NEW m \in Runs, run'[m].grp = list[1] PROVE run[m].grp = list[1]
    <3>1. CASE run[m].st # "none"
      BY <2>5, <3>1 DEF Kept
    <3>2. CASE run[m].st = "none"
      BY <2>1, <2>5, <3>2 DEF NobodyJoins, Gathered, Grouped
    <3> QED BY <3>1, <3>2
  <2> QED BY <2>2, <2>3, <2>4, <2>5
<1>4. call[c].at \in Estimating \cup {"saved", "claim", "cas"} => run'[call[c].r].grp = run[call[c].r].grp
  BY <1>1 DEF CallOK, Kept
<1>5. call[c].at \in {"next", "executing"} => \A j \in 1 .. (call[c].i - 1) : run'[list[j]].st = "succeeded"
  <2> SUFFICES ASSUME call[c].at \in {"next", "executing"}, NEW j \in 1 .. (call[c].i - 1)
               PROVE  run'[list[j]].st = "succeeded"
    OBVIOUS
  <2>1. call[c].i \in 1 .. Len(list)
    BY <1>1 DEF CallOK, Walking
  <2>2. list[j] \in Runs
    BY <2>1
  <2>3. run[list[j]].st = "succeeded"
    BY <1>1 DEF SweepCall
  <2> QED BY <2>2, <2>3 DEF Kept, Terminal
<1> QED BY <1>1, <1>2, <1>3, <1>4, <1>5

LEMMA ListOf ==
    ASSUME Inv, NEW c \in Calls
    PROVE  \E list \in Seq(Runs) : list = call[c].list
BY DEF Inv, CallsInv, CallType, CallRec

LEMMA SweepCallKept ==
    ASSUME Inv, SweepInv, \A r \in Runs : Kept(r), NEW c \in Calls, NobodyJoins(c),
           call'[c] = call[c]
    PROVE  SweepCall(c)'
<1>1. PICK list \in Seq(Runs) : list = call[c].list
  BY ListOf
<1>2. /\ Gathers(c) \/ call[c].at \in Started => Covers(list)'
      /\ Gathers(c) => Complete(list)'
      /\ call[c].at \in Estimating \cup {"saved", "claim", "cas"}
            => run'[call[c].r].grp = run[call[c].r].grp
      /\ call[c].at \in {"next", "executing"}
            => \A j \in 1 .. (call[c].i - 1) : run'[list[j]].st = "succeeded"
      /\ SweepCall(c)
  BY <1>1, KnownKept
<1>3. (Gathers(c)' <=> Gathers(c)) /\ call'[c].list = list
  BY <1>1 DEF Gathers
<1>4. (Gathers(c) \/ call[c].at \in Started => Covers(call[c].list))'
  BY <1>2, <1>3 DEF Covers
<1>5. (Gathers(c) => Complete(call[c].list))'
  BY <1>2, <1>3 DEF Complete
<1>6. (call[c].at \in {"next", "executing"}
         => \A j \in 1 .. (call[c].i - 1) : run[call[c].list[j]].st = "succeeded")'
  BY <1>1, <1>2
<1> QED BY <1>2, <1>4, <1>5, <1>6 DEF SweepCall

\* A request goes on with its group, or names a new one.
LEMMA OwnGroupsKept ==
    ASSUME Inv, SweepInv, NEW c \in Calls, \A d \in Calls \ {c} : call'[d] = call[d],
           Gathered(c)' => \/ Gathered(c) /\ call'[c].list[1] = call[c].list[1]
                           \/ run[call'[c].list[1]].st = "none"
    PROVE  OwnGroups'
<1>1. ASSUME NEW d \in Calls, Gathered(d) PROVE run[call[d].list[1]].st # "none"
  <2>1. PICK list \in Seq(Runs) : list = call[d].list
    BY DEF Inv, CallsInv, CallType, CallRec
  <2>2. Complete(list) /\ list # <<>>
    BY <1>1, <2>1 DEF Gathered, SweepInv, SweepCall
  <2>3. 1 \in 1 .. Len(list) /\ list[1] \in Runs /\ list[1] # 0
    BY <2>2, FirstOf
  <2>4. run[list[1]].grp = list[1]
    BY <2>2, <2>3 DEF Complete
  <2> QED BY <2>1, <2>3, <2>4 DEF SweepInv, GroupsInv
<1>2. \A d \in Calls \ {c} : Gathered(d)' <=> Gathered(d)
  BY DEF Gathered, Gathers
<1>3. \A d, e \in Calls : d # e /\ Gathered(d) /\ Gathered(e) => call[d].list[1] # call[e].list[1]
  BY DEF SweepInv, OwnGroups
<1> QED BY <1>1, <1>2, <1>3 DEF OwnGroups

\* One request takes a step, and nobody joins a group.
LEMMA SweepStep ==
    ASSUME Inv, SweepInv, RowsKept, WorkKept, ChildrenKept, NEW c \in Calls,
           \A d \in Calls \ {c} : call'[d] = call[d], SweepCall(c)',
           Gathered(c)' => Gathered(c) /\ call'[c].list[1] = call[c].list[1],
           MembersInv', RetriesInv', boot' = boot
    PROVE  SweepInv'
<1>1. (\A r \in Runs : Kept(r) /\ Grouped(r)) /\ boot'.at = "off"
  BY DEF RowsKept, SweepInv
<1>2. GroupsInv' /\ WorkInv'
  BY <1>1, GroupsKept, WorkInvKept DEF SweepInv
<1>3. ASSUME NEW d \in Calls PROVE SweepCall(d)'
  BY <1>1, SweepCallKept DEF NobodyJoins
<1>4. OwnGroups'
  BY OwnGroupsKept
<1> QED BY <1>1, <1>2, <1>3, <1>4 DEF SweepInv

\* Another task takes a step.
LEMMA SweepTaskStep ==
    ASSUME Inv, SweepInv, RowsKept, WorkKept, ChildrenKept, call' = call,
           MembersInv', RetriesInv', boot' = boot
    PROVE  SweepInv'
<1>1. (\A r \in Runs : Kept(r) /\ Grouped(r)) /\ boot'.at = "off"
  BY DEF RowsKept, SweepInv
<1>2. GroupsInv' /\ WorkInv'
  BY <1>1, GroupsKept, WorkInvKept DEF SweepInv
<1>3. ASSUME NEW d \in Calls PROVE SweepCall(d)'
  BY <1>1, SweepCallKept DEF NobodyJoins
<1>4. OwnGroups'
  BY DEF SweepInv, OwnGroups, Gathered, Gathers
<1> QED BY <1>1, <1>2, <1>3, <1>4 DEF SweepInv

LEMMA SweepQuiet ==
    ASSUME Inv, SweepInv, RowsKept, ChildrenKept, NEW c \in Calls,
           \A d \in Calls \ {c} : call'[d] = call[d], SweepCall(c)',
           Gathered(c)' => Gathered(c) /\ call'[c].list[1] = call[c].list[1],
           work' = work, execs' \subseteq execs, boot' = boot,
           \A h \in heals' : h \in heals \/ RetryOK(h)'
    PROVE  SweepInv'
<1>1. WorkKept /\ \A r \in Runs : Kept(r)
  BY SameWork DEF RowsKept
<1>2. MembersInv'
  BY <1>1, SameMembers
<1>3. RetriesInv'
  BY <1>1, RetriesKept
<1> QED BY <1>1, <1>2, <1>3, SweepStep

\* Places at which a request relies on no sweep.
Aloof == {"new", "hold", "rollback", "healing", "interrupt", "signal", "request", "settle",
          "derive", "done"}

LEMMA AloofCall ==
    ASSUME NEW c \in Calls, call'[c].at \in Aloof
    PROVE  SweepCall(c)' /\ ~Gathered(c)'
BY DEF SweepCall, Gathered, Gathers, Gathering, Estimating, Started, Aloof

LEMMA DoneIs ==
    ASSUME Inv, NEW c \in Calls, Done(c)
    PROVE  call'[c].at \in Aloof /\ \A d \in Calls \ {c} : call'[d] = call[d]
BY DEF Inv, CallsInv, CallType, Done, Finished, Aloof

\* A request goes on with the run and the list that it has.
LEMMA GoesOn ==
    ASSUME Inv, SweepInv, \A r \in Runs : Kept(r), NEW c \in Calls, NobodyJoins(c),
           call'[c].op = call[c].op, call'[c].list = call[c].list, call'[c].r = call[c].r,
           \/ /\ call[c].at \in Gathering /\ call'[c].at \in Gathering
              /\ (call'[c].at = "create" \/ call[c].at # "create")
           \/ call[c].at \in Gathering /\ Gathers(c) /\ call'[c].at = "validate"
           \/ call[c].at \in Started /\ call'[c].at \in {"validate", "enqueue"}
           \/ call[c].at \in Started /\ call'[c].at = "next" /\ call'[c].i = 1
           \/ call[c].at = "next" /\ call'[c].at = "executing" /\ call'[c].i = call[c].i
           \/ call[c].at = "saved" /\ ~Gathers(c) /\ call'[c].at = "claim"
           \/ call[c].at = "claim" /\ call'[c].at = "cas"
    PROVE  SweepCall(c)' /\ (Gathered(c)' => Gathered(c) /\ call'[c].list[1] = call[c].list[1])
<1>1. PICK list \in Seq(Runs) : list = call[c].list
  BY ListOf
<1>2. /\ Gathers(c) \/ call[c].at \in Started => Covers(list)'
      /\ Gathers(c) => Complete(list)'
      /\ call[c].at \in Estimating \cup {"saved", "claim", "cas"}
            => run'[call[c].r].grp = run[call[c].r].grp
      /\ call[c].at \in {"next", "executing"}
            => \A j \in 1 .. (call[c].i - 1) : run'[list[j]].st = "succeeded"
      /\ SweepCall(c)
  BY <1>1, KnownKept
<1>3. /\ Gathers(c)' => Gathers(c)
      /\ call'[c].at \in Started => Gathers(c) \/ call[c].at \in Started
  BY DEF Gathers, Gathering, Started, Estimating
<1>4. (Gathers(c) \/ call[c].at \in Started => Covers(call[c].list))'
  BY <1>1, <1>2, <1>3 DEF Covers
<1>5. (Gathers(c) => Complete(call[c].list))'
  BY <1>1, <1>2, <1>3, SMTT(30) DEF Complete
<1>6. (call[c].at \in {"next", "executing"}
         => \A j \in 1 .. (call[c].i - 1) : run[call[c].list[j]].st = "succeeded")'
  BY <1>1, <1>2 DEF Gathering, Estimating, Started
<1>7. /\ call'[c].at \in Estimating \cup {"saved"} /\ call'[c].op # "sweep" => run'[call'[c].r].grp = 0
      /\ call'[c].at \in {"claim", "cas"} => run'[call'[c].r].grp = 0
  BY <1>2 DEF SweepCall, Gathers, Gathering, Estimating, Started
<1>8. Gathered(c)' => Gathered(c)
  BY <1>3 DEF Gathered
<1> QED BY <1>4, <1>5, <1>6, <1>7, <1>8 DEF SweepCall

-----------------------------------------------------------------------------
(* Sweeps: the requests.                                                   *)

LEMMA SameChildrenKept ==
    ASSUME SameChildren
    PROVE  ChildrenKept
BY DEF SameChildren, ChildrenKept

\* A function of 1 .. n that rises in a set of n has all of it in order.
LEMMA AscendingCovers ==
    ASSUME NEW S \in SUBSET Runs, NEW list \in Ascending(S), NEW j \in 1 .. Len(list),
           NEW m \in S, m < list[j]
    PROVE  \E k \in 1 .. (j - 1) : list[k] = m
<1> DEFINE n == Cardinality(S)
<1>0. \A r \in S : r \in Nat
  BY AdmissionAssumption DEF Runs
<1>1. IsFiniteSet(S) /\ n \in Nat
  <2>1. IsFiniteSet(Runs)
    BY FS_Interval, AdmissionAssumption DEF Runs
  <2>2. IsFiniteSet(S)
    BY <2>1, FS_Subset
  <2> QED BY <2>2, FS_CardinalityType
<1>2. /\ list \in [1 .. n -> S]
      /\ \A i, k \in 1 .. n : i < k => list[i] < list[k]
  BY DEF Ascending
<1>3. IsFiniteSet(1 .. n) /\ Cardinality(1 .. n) = n
  BY <1>1, FS_Interval
<1> HIDE DEF n
<1>4. list \in Injection(1 .. n, S)
  <2>1. \A i, k \in 1 .. n : list[i] = list[k] => i = k
    <3> SUFFICES ASSUME NEW i \in 1 .. n, NEW k \in 1 .. n, i < k PROVE list[i] # list[k]
      BY <1>1
    <3>1. list[i] < list[k] /\ list[i] \in S
      BY <1>2
    <3> QED BY <1>0, <3>1
  <2> QED BY <1>2, <2>1 DEF Injection, IsInjective
<1>5. list \in Surjection(1 .. n, S)
  BY <1>1, <1>3, <1>4, FS_Injection DEF n
<1>6. PICK k \in 1 .. n : list[k] = m
  BY <1>5 DEF Surjection
<1>7. Len(list) = n
  BY <1>1, <1>2, SeqDef, LenProperties
<1>8. k < j
  <2> SUFFICES ASSUME j <= k PROVE FALSE
    BY <1>1, <1>7
  <2>1. j = k \/ list[j] < list[k]
    BY <1>1, <1>2, <1>7
  <2>2. list[j] \in Nat /\ m \in Nat
    BY <1>0, <1>2, <1>7
  <2> QED BY <1>6, <2>1, <2>2
<1> QED BY <1>1, <1>6, <1>7, <1>8

LEMMA OpensIs ==
    ASSUME Inv, NEW c \in Calls, NEW op, NEW at, NEW r, NEW list, Opens(c, op, at, r, list)
    PROVE  /\ call'[c].op = op /\ call'[c].at = at /\ call'[c].r = r /\ call'[c].list = list
           /\ \A d \in Calls \ {c} : call'[d] = call[d]
BY DEF Inv, CallsInv, CallType, Opens

LEMMA RequestSweep ==
    ASSUME Inv, SweepInv, NEW c \in Calls, Request(c)
    PROVE  RowsKept /\ SweepInv'
<1>1. /\ run' = run /\ work' = work /\ cont' = cont /\ rejected' = rejected
      /\ execs' = execs /\ heals' = heals /\ boot' = boot
  BY DEF Request, Queue, Ask, AskSweep, Confirm, Hold, Stop, Reject, rowVars, memVars, CallOnly
<1>2. RowsKept /\ ChildrenKept
  BY <1>1, SameKept, SameChildrenKept DEF SweepInv, SameChildren
<1>3. CASE Queue(c) \/ Ask(c) \/ AskSweep(c)
  <2>1. PICK op \in {"queue", "ask", "sweep"} : Opens(c, op, "create", 0, <<>>)
    BY <1>3 DEF Queue, Ask, AskSweep
  <2>2. /\ call'[c].at = "create" /\ call'[c].list = <<>> /\ Len(call'[c].list) = 0
        /\ \A d \in Calls \ {c} : call'[d] = call[d]
    BY <2>1, OpensIs
  <2>3. (Covers(call[c].list))' /\ (Complete(call[c].list))'
    BY <2>2 DEF Covers, Complete
  <2>4. SweepCall(c)' /\ ~Gathered(c)'
    BY <2>2, <2>3 DEF SweepCall, Gathered, Estimating
  <2> QED BY <1>1, <1>2, <2>2, <2>4, SweepQuiet
<1>4. ASSUME NEW r \in Runs, Hold(c, r) \/ Stop(c, r) \/ Reject(c, r) PROVE SweepInv'
  <2>1. CASE Hold(c, r)
    <3>1. PICK list \in Targets(r) : Opens(c, "hold", "hold", r, list)
      BY <2>1 DEF Hold
    <3>2. call'[c].at \in Aloof /\ \A d \in Calls \ {c} : call'[d] = call[d]
      BY <3>1, OpensIs DEF Aloof
    <3> QED BY <1>1, <1>2, <3>2, AloofCall, SweepQuiet
  <2>2. CASE Stop(c, r)
    <3>1. PICK t \in StopTarget(r) : Opens(c, "stop", "signal", t, <<>>)
      BY <2>2 DEF Stop
    <3>2. call'[c].at \in Aloof /\ \A d \in Calls \ {c} : call'[d] = call[d]
      BY <3>1, OpensIs DEF Aloof
    <3> QED BY <1>1, <1>2, <3>2, AloofCall, SweepQuiet
  <2>3. CASE Reject(c, r)
    <3>1. Opens(c, "reject", "derive", r, <<>>)
      BY <2>3 DEF Reject
    <3>2. call'[c].at \in Aloof /\ \A d \in Calls \ {c} : call'[d] = call[d]
      BY <3>1, OpensIs DEF Aloof
    <3> QED BY <1>1, <1>2, <3>2, AloofCall, SweepQuiet
  <2> QED BY <1>4, <2>1, <2>2, <2>3
<1>5. ASSUME NEW r \in Runs, Confirm(c, r) PROVE SweepInv'
  <2>1. PICK list \in Targets(r) :
          Opens(c, "confirm", IF IsSweep(r) THEN "validate" ELSE "claim", r, list)
    BY <1>5 DEF Confirm
  <2>2. /\ call'[c].op = "confirm" /\ call'[c].r = r /\ call'[c].list = list
        /\ call'[c].at = IF IsSweep(r) THEN "validate" ELSE "claim"
        /\ \A d \in Calls \ {c} : call'[d] = call[d]
    BY <2>1, OpensIs
  <2>3. ~Gathered(c)'
    BY <2>2 DEF Gathered, Gathers
  <2>4. IsSweep(r) => Covers(list)
    <3> SUFFICES ASSUME IsSweep(r), NEW j \in 1 .. Len(list)
                 PROVE  /\ IsSweep(list[j])
                        /\ \A m \in Runs : m < list[j] /\ run[m].grp = run[list[j]].grp
                                              => \E k \in 1 .. (j - 1) : list[k] = m
      BY DEF Covers
    <3> DEFINE S == Members(run[r].grp)
    <3>1. S \in SUBSET Runs /\ list \in Ascending(S)
      BY DEF Targets, Members
    <3>2. list \in Seq(S)
      <4>1. IsFiniteSet(Runs)
        BY FS_Interval, AdmissionAssumption DEF Runs
      <4>2. IsFiniteSet(S) /\ Cardinality(S) \in Nat
        BY <3>1, <4>1, FS_Subset, FS_CardinalityType
      <4>3. list \in [1 .. Cardinality(S) -> S]
        BY <3>1 DEF Ascending
      <4> QED BY <4>2, <4>3, SeqDef
    <3>3. list[j] \in S
      BY <3>2
    <3>4. run[list[j]].grp = run[r].grp /\ \A m \in Runs : run[m].grp = run[r].grp => m \in S
      BY <3>3 DEF Members
    <3> HIDE DEF S
    <3> QED BY <3>1, <3>4, AscendingCovers DEF IsSweep
  <2>5. (Gathers(c) \/ call[c].at \in Started => Covers(call[c].list))'
    BY <1>1, <2>2, <2>4 DEF Gathers, Started, Covers, IsSweep
  <2>6. SweepCall(c)'
    BY <1>1, <2>2, <2>5 DEF SweepCall, Gathers, Estimating, IsSweep
  <2> QED BY <1>1, <1>2, <2>2, <2>3, <2>6, SweepQuiet
<1> QED BY <1>2, <1>3, <1>4, <1>5 DEF Request

\* A variant joins the group that its own request is making.
LEMMA CreateSweep ==
    ASSUME Inv, SweepInv, NEW c \in Calls, Create(c)
    PROVE  (\A r \in Runs : Kept(r)) /\ SweepInv'
<1> DEFINE g == GroupOf(c)
<1>1. /\ work' = work /\ cont' = cont /\ rejected' = rejected /\ At(c, "create")
      /\ execs' = execs /\ heals' = heals /\ boot' = boot
      /\ RowsInv /\ GroupsInv /\ CallType
  BY DEF Create, memVars, CallOnly, Inv, SweepInv, CallsInv
<1>2. CASE Busy(0, g) \/ ~Room(1)
  <2>1. run' = run /\ Done(c)
    BY <1>2 DEF Create, Returns
  <2>2. RowsKept /\ ChildrenKept
    BY <1>1, <2>1, SameKept, SameChildrenKept DEF SameChildren
  <2>3. SweepInv'
    BY <1>1, <2>1, <2>2, DoneIs, AloofCall, SweepQuiet
  <2> QED BY <2>2, <2>3 DEF RowsKept
<1>3. CASE ~Busy(0, g) /\ Room(1)
  <2>1. PICK n \in Runs : n = Latest + 1
    BY <1>1, <1>3, AdmissionAssumption DEF RowsInv, Room, Runs
  <2>2. PICK list \in Seq(Runs) : list = call[c].list
    BY ListOf
  <2>3. PICK L \in Seq(Runs) : L = Append(list, n)
    BY <2>2, AppendProperties
  <2>4. /\ call'[c].at = "flag" /\ call'[c].op = call[c].op /\ call'[c].r = n
        /\ call'[c].list = L /\ \A d \in Calls \ {c} : call'[d] = call[d]
    <3>1. call' = [call EXCEPT ![c].at = "flag", ![c].r = n, ![c].list = Append(@, n)]
      BY <1>3, <2>1 DEF Create
    <3>2. call \in [Calls -> CallRec]
      BY <1>1 DEF CallType
    <3> QED BY <2>2, <2>3, <3>1, <3>2 DEF CallRec
  <2>5. /\ Len(L) = Len(list) + 1 /\ L[Len(list) + 1] = n /\ L # <<>>
        /\ \A j \in 1 .. Len(list) : L[j] = list[j]
        /\ L[1] = IF list = <<>> THEN n ELSE list[1]
    BY <2>2, <2>3
  <2>6. g = IF call[c].op # "sweep" THEN 0 ELSE IF list # <<>> THEN list[1] ELSE n
    BY <2>1, <2>2 DEF GroupOf
  <2>7. /\ NewRun(g).st = "estimating" /\ NewRun(g).grp = g /\ Insert(NewRun(g))
    BY <1>3 DEF Create, NewRun
  <2>8. /\ \A r \in Runs : Kept(r) /\ (r # n => Grouped(r))
        /\ run'[n] = NewRun(g) /\ run[n].st = "none"
    <3> DEFINE row == NewRun(g)
    <3>1. row.st = "estimating" /\ Insert(row)
      BY <2>7
    <3> HIDE DEF row
    <3>2. /\ \A r \in Runs : Kept(r) /\ (r # Latest + 1 => Grouped(r))
          /\ run'[Latest + 1] = row /\ run[Latest + 1].st = "none"
      BY <1>1, <1>3, <3>1, AddedKept
    <3> QED BY <2>1, <3>2 DEF row
  <2>9. run'[n].st = "estimating" /\ run'[n].grp = g
    BY <2>7, <2>8
  <2> HIDE DEF g
  <2>10. \A r \in Runs : run[r].st # "none" <=> r < n
    BY <1>1, <2>1, AdmissionAssumption DEF RowsInv, Runs
  <2>11. Gathers(c) <=> call[c].op = "sweep"
    BY <1>1 DEF Gathers, Gathering, At
  <2>12. ASSUME NEW d \in Calls, Gathered(d), NEW l \in Seq(Runs), l = call[d].list
         PROVE  l[1] \in Runs /\ l[1] # 0 /\ l[1] < n
    <3>1. l # <<>> /\ Complete(l)
      BY <2>12 DEF Gathered, SweepInv, SweepCall
    <3>2. 1 \in 1 .. Len(l) /\ l[1] \in Runs /\ l[1] # 0
      BY <3>1, FirstOf
    <3>3. run[l[1]].grp = l[1]
      BY <3>1, <3>2 DEF Complete
    <3> QED BY <1>1, <2>10, <3>2, <3>3 DEF GroupsInv
  <2>13. Gathered(c) <=> call[c].op = "sweep" /\ list # <<>>
    BY <2>2, <2>11 DEF Gathered
  <2>14. g <= n /\ g \in 0 .. MaxRuns
    <3>1. Gathered(c) => list[1] \in Runs /\ list[1] < n
      BY <2>2, <2>12
    <3> QED BY <2>6, <2>13, <3>1, AdmissionAssumption DEF Runs
  <2>15. ASSUME NEW d \in Calls \ {c} PROVE NobodyJoins(d)
    <3> SUFFICES ASSUME Gathered(d) PROVE run'[n].grp # call[d].list[1]
      BY <2>8 DEF NobodyJoins
    <3>1. PICK l \in Seq(Runs) : l = call[d].list
      BY ListOf
    <3>2. l[1] \in Runs /\ l[1] # 0 /\ l[1] < n
      BY <3>1, <2>12
    <3>3. Gathered(c) => list[1] # l[1]
      BY <2>2, <3>1 DEF SweepInv, OwnGroups
    <3> QED BY <2>6, <2>9, <2>13, <3>1, <3>2, <3>3 DEF Runs
  <2>16. ASSUME NEW d \in Calls \ {c} PROVE SweepCall(d)'
    BY <2>4, <2>8, <2>15, SweepCallKept
  <2>17. OwnGroups'
    BY <2>2, <2>4, <2>5, <2>8, <2>13, OwnGroupsKept DEF Gathered, Gathers
  <2>18. GroupsInv'
    <3>1. ChildrenKept
      BY <1>1, SameChildrenKept DEF SameChildren
    <3> QED BY <1>1, <2>8, <2>9, <2>14, <3>1, GroupsKept
  <2>19. call[c].op = "sweep" => g # 0 /\ g = L[1]
    <3>1. Gathered(c) => list[1] # 0
      BY <2>2, <2>12
    <3>2. n # 0
      BY AdmissionAssumption DEF Runs
    <3> QED BY <2>5, <2>6, <2>13, <3>1, <3>2
  <2>20. call[c].op = "sweep" =>
           \A m \in Runs : m # n /\ run'[m].grp = g => \E k \in 1 .. Len(list) : list[k] = m
    <3> SUFFICES ASSUME call[c].op = "sweep", NEW m \in Runs, m # n, run'[m].grp = g
                 PROVE  \E k \in 1 .. Len(list) : list[k] = m
      OBVIOUS
    <3>1. run[m].st # "none" /\ run[m].grp = g /\ m < n
      BY <1>1, <2>8, <2>10, <2>19 DEF Kept, Grouped, GroupsInv
    <3>2. list # <<>>
      <4>1. run[m].grp <= m
        BY <1>1 DEF GroupsInv
      <4> QED BY <2>6, <3>1, <4>1, AdmissionAssumption DEF Runs
    <3>3. Complete(list) /\ 1 \in 1 .. Len(list) /\ g = list[1]
      BY <2>2, <2>6, <2>11, <3>2, FirstOf DEF SweepInv, SweepCall
    <3> QED BY <3>1, <3>3 DEF Complete
  <2>21. call[c].op = "sweep" => Covers(L)'
    <3> SUFFICES ASSUME call[c].op = "sweep", NEW j \in 1 .. Len(L)
                 PROVE  /\ IsSweep(L[j])'
                        /\ \A m \in Runs : m < L[j] /\ run'[m].grp = run'[L[j]].grp
                                              => \E k \in 1 .. (j - 1) : L[k] = m
      BY DEF Covers
    <3>1. CASE j \in 1 .. Len(list)
      <4>1. Covers(list)'
        <5>1. Covers(list)
          BY <2>2, <2>11 DEF SweepInv, SweepCall
        <5> QED BY <1>1, <2>8, <5>1, CoversKept
      <4>2. /\ IsSweep(list[j])'
            /\ \A m \in Runs : m < list[j] /\ run'[m].grp = run'[list[j]].grp
                                  => \E k \in 1 .. (j - 1) : list[k] = m
        BY <3>1, <4>1 DEF Covers
      <4>3. L[j] = list[j] /\ \A k \in 1 .. (j - 1) : L[k] = list[k]
        BY <2>5, <3>1
      <4> QED BY <4>2, <4>3 DEF IsSweep
    <3>2. CASE j = Len(list) + 1
      <4>1. L[j] = n /\ \A k \in 1 .. (j - 1) : L[k] = list[k]
        BY <2>5, <3>2
      <4>2. Len(list) = j - 1
        BY <3>2
      <4> QED BY <2>9, <2>19, <2>20, <4>1, <4>2 DEF IsSweep, Runs
    <3> QED BY <2>5, <3>1, <3>2
  <2>22. call[c].op = "sweep" => Complete(L)'
    <3> SUFFICES ASSUME call[c].op = "sweep", NEW j \in 1 .. Len(L)
                 PROVE  /\ run'[L[j]].grp = L[1]
                        /\ \A m \in Runs : run'[m].grp = L[1] => \E k \in 1 .. Len(L) : L[k] = m
      BY DEF Complete
    <3>1. ASSUME j \in 1 .. Len(list) PROVE run'[L[j]].grp = L[1]
      <4>1. Complete(list) /\ list # <<>> /\ list[j] \in Runs
        BY <2>2, <2>11, <3>1, FirstOf DEF SweepInv, SweepCall
      <4>2. run[list[j]].grp = list[1] /\ list[1] # 0
        BY <3>1, <4>1, FirstOf DEF Complete
      <4>3. run'[list[j]].grp = list[1]
        BY <1>1, <2>8, <4>1, <4>2 DEF GroupsInv, Kept
      <4> QED BY <2>5, <3>1, <4>1, <4>3
    <3>2. ASSUME NEW m \in Runs, run'[m].grp = L[1] PROVE \E k \in 1 .. Len(L) : L[k] = m
      <4>1. CASE m = n
        BY <2>5, <4>1
      <4>2. CASE m # n
        <5>1. PICK k \in 1 .. Len(list) : list[k] = m
          BY <2>19, <2>20, <3>2, <4>2
        <5> QED BY <2>5, <5>1
      <4> QED BY <4>1, <4>2
    <3> QED BY <2>5, <2>9, <2>19, <3>1, <3>2
  <2>23. SweepCall(c)'
    <3>1. (Gathers(c) \/ call[c].at \in Started => Covers(call[c].list))'
      BY <2>4, <2>21 DEF Gathers, Started, Covers
    <3>2. (Gathers(c) => Complete(call[c].list))'
      BY <2>4, <2>22 DEF Gathers, Complete
    <3> QED BY <2>4, <2>6, <2>9, <3>1, <3>2 DEF SweepCall
  <2>24. WorkKept /\ WorkInv'
    BY <1>1, <2>8, SameWork, WorkInvKept DEF SweepInv
  <2>25. MembersInv' /\ RetriesInv'
    BY <1>1, <2>8, <2>24, SameMembers, RetriesKept
  <2> QED BY <1>1, <2>8, <2>16, <2>17, <2>18, <2>23, <2>24, <2>25 DEF SweepInv
<1> QED BY <1>2, <1>3

-----------------------------------------------------------------------------
(* Sweeps: estimates, claims, and the members one after another.           *)

\* The request's new place, when it only goes somewhere else.
LEMMA GoesIs ==
    ASSUME Inv, NEW c \in Calls, NEW at, Goes(c, at)
    PROVE  /\ call'[c].at = at /\ call'[c].op = call[c].op /\ call'[c].r = call[c].r
           /\ call'[c].list = call[c].list /\ call'[c].i = call[c].i
           /\ \A d \in Calls \ {c} : call'[d] = call[d]
BY DEF Inv, CallsInv, CallType, CallRec, Goes

LEMMA AdvanceIs ==
    ASSUME Inv, NEW c \in Calls, NEW at, Advance(c, at)
    PROVE  /\ call'[c].at = at /\ call'[c].op = call[c].op /\ call'[c].r = call[c].r
           /\ call'[c].list = call[c].list /\ call'[c].i = call[c].i + 1
           /\ \A d \in Calls \ {c} : call'[d] = call[d]
BY DEF Inv, CallsInv, CallType, CallRec, Advance

LEMMA RewindIs ==
    ASSUME Inv, NEW c \in Calls, NEW at, call' = [call EXCEPT ![c].at = at, ![c].i = 1]
    PROVE  /\ call'[c].at = at /\ call'[c].op = call[c].op /\ call'[c].r = call[c].r
           /\ call'[c].list = call[c].list /\ call'[c].i = 1
           /\ \A d \in Calls \ {c} : call'[d] = call[d]
BY DEF Inv, CallsInv, CallType, CallRec

LEMMA NobodyNew ==
    ASSUME RowsKept, NEW c \in Calls
    PROVE  NobodyJoins(c) /\ \A r \in Runs : Kept(r)
BY DEF RowsKept, NobodyJoins

LEMMA EstimateSweep ==
    ASSUME Inv, SweepInv, NEW c \in Calls,
           \/ InsertFlag(c) \/ Estimate(c)
           \/ EndEstimate(c, "cancel", "interrupted") \/ EndEstimate(c, "fail", "failed")
           \/ \E cost \in {"cheap", "dear"} : SaveEstimate(c, cost)
    PROVE  RowsKept /\ SweepInv'
<1>1. /\ work' = work /\ execs' = execs /\ heals' = heals /\ boot' = boot
      /\ call[c].at \in Estimating /\ ChildrenKept /\ RowsInv /\ GroupsInv
  <2>1. /\ work' = work /\ execs' = execs /\ heals' = heals /\ boot' = boot
        /\ cont' = cont /\ rejected' = rejected /\ call[c].at \in Estimating
    BY DEF InsertFlag, Estimate, EndEstimate, SaveEstimate, At, rowVars, memVars, CallOnly, Estimating
  <2> QED BY <2>1, SameChildrenKept DEF SameChildren, Inv, SweepInv
<1>2. call[c].r \in Runs /\ Fresh(call[c].r)
  BY <1>1 DEF Inv, CallsInv, CallOK
<1>3. RowsKept
  <2>1. CASE run' = run
    BY <1>1, <2>1, SameKept
  <2>2. ASSUME NEW st \in {"interrupted", "failed"}, Accepts(call[c].r, st), SetStatus(call[c].r, st)
        PROVE  RowsKept
    <3>1. Steady(call[c].r, st)
      BY <1>2, <2>2 DEF Steady, Fresh, Accepts, States, Terminal, MayFail
    <3> QED BY <1>1, <1>2, <2>2, <3>1, StatusKept
  <2>3. ASSUME NEW cost \in {"cheap", "dear"}, SaveEstimate(c, cost), run' # run PROVE RowsKept
    <3>1. Priced(call[c].r)
      BY <1>2, <2>3 DEF SaveEstimate, Priced, Fresh
    <3> QED BY <1>1, <1>2, <3>1, PricedKept
  <2> QED BY <2>1, <2>2, <2>3 DEF InsertFlag, Estimate, EndEstimate, rowVars
<1>4. CASE Done(c)
  BY <1>1, <1>3, <1>4, DoneIs, AloofCall, SweepQuiet
<1>5. ASSUME NEW at \in {"estimate", "cancel", "fail", "save", "saved"}, Goes(c, at) PROVE SweepInv'
  <2>1. /\ call'[c].at = at /\ call'[c].op = call[c].op /\ call'[c].r = call[c].r
        /\ call'[c].list = call[c].list /\ \A d \in Calls \ {c} : call'[d] = call[d]
    BY <1>5, GoesIs
  <2>2. /\ call[c].at \in Gathering /\ call'[c].at \in Gathering /\ call[c].at # "create"
    BY <1>1, <2>1 DEF Gathering, Estimating
  <2>3. SweepCall(c)' /\ (Gathered(c)' => Gathered(c) /\ call'[c].list[1] = call[c].list[1])
    BY <1>3, <2>1, <2>2, NobodyNew, GoesOn
  <2> QED BY <1>1, <1>3, <2>1, <2>3, SweepQuiet
<1> QED BY <1>3, <1>4, <1>5 DEF InsertFlag, Estimate, EndEstimate, SaveEstimate, Returns

LEMMA DecideSweep ==
    ASSUME Inv, SweepInv, NEW c \in Calls, Decide(c)
    PROVE  RowsKept /\ SweepInv'
<1>1. /\ run' = run /\ work' = work /\ execs' = execs /\ heals' = heals /\ boot' = boot
      /\ cont' = cont /\ rejected' = rejected /\ call[c].at = "saved"
  BY DEF Decide, At, rowVars, CallOnly
<1>2. RowsKept /\ ChildrenKept
  BY <1>1, SameKept, SameChildrenKept DEF SweepInv, SameChildren
<1>3. CASE Done(c)
  BY <1>1, <1>2, <1>3, DoneIs, AloofCall, SweepQuiet
<1>4. ASSUME NEW at \in {"create", "validate", "claim"}, Goes(c, at),
             at = "validate" => call[c].op = "sweep", at = "claim" => call[c].op # "sweep"
      PROVE  SweepInv'
  <2>1. /\ call'[c].at = at /\ call'[c].op = call[c].op /\ call'[c].r = call[c].r
        /\ call'[c].list = call[c].list /\ \A d \in Calls \ {c} : call'[d] = call[d]
    BY <1>4, GoesIs
  <2>2. call[c].at \in Gathering /\ (Gathers(c) <=> call[c].op = "sweep")
    BY <1>1 DEF Gathering, Gathers
  <2>3. "create" \in Gathering
    BY DEF Gathering
  <2>4. SweepCall(c)' /\ (Gathered(c)' => Gathered(c) /\ call'[c].list[1] = call[c].list[1])
    BY <1>1, <1>2, <1>4, <2>1, <2>2, <2>3, NobodyNew, GoesOn
  <2> QED BY <1>1, <1>2, <2>1, <2>4, SweepQuiet
<1>5. \/ Done(c) \/ Goes(c, "create")
      \/ call[c].op = "sweep" /\ Goes(c, "validate")
      \/ call[c].op # "sweep" /\ Goes(c, "claim")
  BY DEF Decide, Returns
<1> QED BY <1>2, <1>3, <1>4, <1>5

\* What is claimed by itself is a member of no sweep.
LEMMA LoneExecutor ==
    ASSUME Inv, SweepInv, \A r \in Runs : Kept(r), WorkKept, NEW r \in Runs, run[r].st # "none",
           run[r].grp = 0, NEW t, NEW then, execs' = execs \cup {Executor(r, t, then)},
           \A o \in Runs : work'[o] = "failed" => work[o] = "failed"
    PROVE  MembersInv'
<1> DEFINE x == Executor(r, t, then)
<1>1. x.r = r /\ run'[r].grp = 0
  BY DEF Executor, Kept
<1>2. \A e \in execs : e.r \in Runs /\ run'[e.r].grp = run[e.r].grp
  BY DEF Inv, ExecsInv, ExecRec, Begun, Terminal, Kept
<1>3. MemberOK(x)'
  BY <1>1 DEF MemberOK, IsSweep
<1> HIDE DEF x
<1>4. OneExecutor'
  BY <1>1, <1>2 DEF OneExecutor, SweepInv, MembersInv, IsSweep, x
<1>5. \A e \in execs' : e \in execs \/ e = x
  BY DEF x
<1> QED BY <1>2, <1>3, <1>4, <1>5, MembersKept

LEMMA ClaimSweep ==
    ASSUME Inv, SweepInv, NEW c \in Calls, StartClaim(c) \/ FinishClaim(c)
    PROVE  RowsKept /\ SweepInv'
<1>1. /\ work' = work /\ heals' = heals /\ boot' = boot /\ cont' = cont /\ rejected' = rejected
      /\ call[c].at \in {"claim", "cas"}
  BY DEF StartClaim, FinishClaim, At, CallOnly
<1>2. PICK r \in Runs : r = call[c].r /\ run[r].st # "none" /\ run[r].grp = 0
  BY <1>1 DEF Inv, CallsInv, CallOK, SweepInv, SweepCall
<1>3. ChildrenKept /\ RowsInv /\ GroupsInv /\ WorkKept
  BY <1>1, SameChildrenKept, SameWork DEF SameChildren, Inv, SweepInv
<1>4. CASE run' = run /\ execs' = execs
  <2>1. RowsKept
    BY <1>3, <1>4, SameKept
  <2>2. CASE Done(c)
    BY <1>1, <1>3, <1>4, <2>1, <2>2, DoneIs, AloofCall, SweepQuiet
  <2>3. CASE call[c].at = "claim" /\ Goes(c, "cas")
    <3>1. /\ call'[c].at = "cas" /\ call'[c].op = call[c].op /\ call'[c].r = call[c].r
          /\ call'[c].list = call[c].list /\ \A d \in Calls \ {c} : call'[d] = call[d]
      BY <2>3, GoesIs
    <3>2. SweepCall(c)' /\ (Gathered(c)' => Gathered(c) /\ call'[c].list[1] = call[c].list[1])
      BY <2>1, <2>3, <3>1, NobodyNew, GoesOn
    <3> QED BY <1>1, <1>3, <1>4, <2>1, <3>1, <3>2, SweepQuiet
  <2>4. Done(c) \/ (call[c].at = "claim" /\ Goes(c, "cas"))
    BY DEF StartClaim, FinishClaim, Returns, At
  <2> QED BY <2>1, <2>2, <2>3, <2>4
<1>5. CASE /\ Claimable(r, "waiting") /\ SetStatus(r, "running") /\ Done(c)
           /\ execs' = execs \cup {Executor(r, c, "heal")}
  <2>1. Steady(r, "running")
    BY <1>2, <1>5 DEF Steady, Claimable, Ready, IsSweep, States, ActiveStates, Terminal
  <2>2. RowsKept
    BY <1>3, <1>5, <2>1, StatusKept
  <2>3. MembersInv'
    BY <1>1, <1>2, <1>3, <1>5, <2>2, LoneExecutor DEF RowsKept
  <2>4. RetriesInv'
    BY <1>1, <2>2, RetriesKept DEF RowsKept
  <2> QED BY <1>1, <1>3, <1>5, <2>2, <2>3, <2>4, DoneIs, AloofCall, SweepStep
<1> QED BY <1>2, <1>4, <1>5 DEF StartClaim, FinishClaim, Returns

LEMMA WithdrawalSweep ==
    ASSUME Inv, SweepInv, NEW c \in Calls, HoldNext(c) \/ Rollback(c) \/ InterruptNext(c)
    PROVE  RowsKept /\ SweepInv'
<1>1. /\ work' = work /\ heals' = heals /\ boot' = boot /\ cont' = cont /\ rejected' = rejected
      /\ execs' = execs /\ call[c].at \in Walking
  BY DEF HoldNext, Rollback, InterruptNext, At, CallOnly, memVars, Walking
<1>2. Item(c) \in Runs /\ ChildrenKept /\ RowsInv /\ GroupsInv
  BY <1>1, ItemIn, SameChildrenKept DEF SameChildren, Inv, SweepInv
<1>3. RowsKept
  <2>1. ASSUME NEW from \in {"waiting", "queued"}, NEW to \in {"waiting", "interrupted"},
               Swappable(Item(c), from, to), SetStatus(Item(c), to)
        PROVE  RowsKept
    <3>1. Steady(Item(c), to)
      BY <2>1 DEF Steady, Swappable, States, Terminal, Begun
    <3> QED BY <1>2, <2>1, <3>1, StatusKept
  <2>2. CASE run' = run
    BY <1>2, <2>2, SameKept
  <2> QED BY <2>1, <2>2 DEF HoldNext, Rollback, InterruptNext
<1>4. call'[c].at \in Aloof /\ \A d \in Calls \ {c} : call'[d] = call[d]
  <2>1. CASE Done(c)
    BY <2>1, DoneIs
  <2>2. ASSUME NEW at \in {"hold", "rollback", "interrupt"}, Advance(c, at)
        PROVE  call'[c].at \in Aloof /\ \A d \in Calls \ {c} : call'[d] = call[d]
    BY <2>2, AdvanceIs DEF Aloof
  <2> QED BY <2>1, <2>2 DEF HoldNext, Rollback, InterruptNext, SkipRest
<1> QED BY <1>1, <1>2, <1>3, <1>4, AloofCall, SweepQuiet

LEMMA ValidateSweep ==
    ASSUME Inv, SweepInv, NEW c \in Calls, Validate(c)
    PROVE  RowsKept /\ SweepInv'
<1>1. /\ run' = run /\ work' = work /\ execs' = execs /\ heals' = heals /\ boot' = boot
      /\ cont' = cont /\ rejected' = rejected /\ call[c].at = "validate"
  BY DEF Validate, At, rowVars, CallOnly
<1>2. RowsKept /\ ChildrenKept
  BY <1>1, SameKept, SameChildrenKept DEF SweepInv, SameChildren
<1>3. CASE Done(c)
  BY <1>1, <1>2, <1>3, DoneIs, AloofCall, SweepQuiet
<1>4. CASE call' = [call EXCEPT ![c].at = "enqueue", ![c].i = 1]
  <2>1. /\ call'[c].at = "enqueue" /\ call'[c].op = call[c].op /\ call'[c].r = call[c].r
        /\ call'[c].list = call[c].list /\ \A d \in Calls \ {c} : call'[d] = call[d]
    BY <1>4, RewindIs
  <2>2. SweepCall(c)' /\ (Gathered(c)' => Gathered(c) /\ call'[c].list[1] = call[c].list[1])
    BY <1>1, <1>2, <2>1, NobodyNew, GoesOn DEF Started
  <2> QED BY <1>1, <1>2, <2>1, <2>2, SweepQuiet
<1> QED BY <1>2, <1>3, <1>4 DEF Validate

LEMMA EnqueueSweep ==
    ASSUME Inv, SweepInv, NEW c \in Calls, Enqueue(c)
    PROVE  RowsKept /\ SweepInv'
<1>1. /\ work' = work /\ execs' = execs /\ heals' = heals /\ boot' = boot
      /\ cont' = cont /\ rejected' = rejected /\ call[c].at = "enqueue" /\ call[c].at \in Walking
      /\ call[c].at \in Started
  BY DEF Enqueue, At, rowVars, CallOnly, Walking, Started
<1>2. Item(c) \in Runs /\ ChildrenKept /\ RowsInv /\ GroupsInv
  BY <1>1, ItemIn, SameChildrenKept DEF SameChildren, Inv, SweepInv
<1>3. CASE Swappable(Item(c), "waiting", "queued")
  <2>1. Steady(Item(c), "queued") /\ SetStatus(Item(c), "queued")
    BY <1>3 DEF Enqueue, Steady, Swappable, States, ActiveStates, Terminal, Begun
  <2>2. RowsKept
    BY <1>2, <2>1, StatusKept
  <2>3. /\ \/ call'[c].at = "next" /\ call'[c].i = 1
           \/ call'[c].at = "enqueue"
        /\ call'[c].op = call[c].op /\ call'[c].r = call[c].r
        /\ call'[c].list = call[c].list /\ \A d \in Calls \ {c} : call'[d] = call[d]
    BY <1>3, AdvanceIs, RewindIs DEF Enqueue
  <2>4. SweepCall(c)' /\ (Gathered(c)' => Gathered(c) /\ call'[c].list[1] = call[c].list[1])
    BY <1>1, <2>2, <2>3, NobodyNew, GoesOn
  <2> QED BY <1>1, <1>2, <2>2, <2>3, <2>4, SweepQuiet
<1>4. CASE ~Swappable(Item(c), "waiting", "queued")
  <2>1. run' = run
    BY <1>4 DEF Enqueue
  <2>2. RowsKept
    BY <1>2, <2>1, SameKept
  <2>3. CASE Done(c)
    BY <1>1, <1>2, <2>2, <2>3, DoneIs, AloofCall, SweepQuiet
  <2>4. CASE ~Done(c)
    <3>1. call' = [call EXCEPT ![c].at = "rollback", ![c].i = 1,
                               ![c].list = SubSeq(@, 1, call[c].i - 1)]
      BY <1>4, <2>4 DEF Enqueue, Done
    <3>2. call'[c].at \in Aloof /\ \A d \in Calls \ {c} : call'[d] = call[d]
      BY <3>1 DEF Inv, CallsInv, CallType, CallRec, Aloof
    <3> QED BY <1>1, <1>2, <2>2, <3>2, AloofCall, SweepQuiet
  <2> QED BY <2>2, <2>3, <2>4
<1> QED BY <1>3, <1>4

\* The next member starts: all before it in its group have succeeded, and
\* nobody else executes it.
LEMMA RunNextSweep ==
    ASSUME Inv, SweepInv, NEW c \in Calls, RunNext(c)
    PROVE  RowsKept /\ SweepInv'
<1>1. /\ work' = work /\ heals' = heals /\ boot' = boot /\ cont' = cont /\ rejected' = rejected
      /\ call[c].at = "next" /\ call[c].at \in Walking /\ call[c].at \in Started
  BY DEF RunNext, At, CallOnly, Walking, Started
<1>2. /\ ChildrenKept /\ RowsInv /\ GroupsInv /\ WorkKept /\ SweepCall(c)
      /\ call[c].i \in 1 .. Len(call[c].list)
  BY <1>1, ItemIn, SameChildrenKept, SameWork DEF SameChildren, Inv, SweepInv
<1>3. PICK r \in Runs : r = Item(c)
  BY <1>1, ItemIn
<1>4. CASE Swappable(Item(c), "queued", "running")
  <2>1. run[r].st = "queued" /\ SetStatus(r, "running")
    BY <1>3, <1>4 DEF RunNext, Swappable
  <2>2. PICK list \in Seq(Runs) : list = call[c].list
    BY ListOf
  <2>3. IsSweep(r) /\ Ready(r)
    <3>1. PICK i \in 1 .. Len(list) : i = call[c].i /\ list[i] = r
      BY <1>2, <1>3, <2>2 DEF Item
    <3>2. /\ IsSweep(r)
          /\ \A m \in Runs : m < r /\ run[m].grp = run[r].grp => \E k \in 1 .. (i - 1) : list[k] = m
      BY <1>1, <1>2, <2>2, <3>1 DEF SweepCall, Covers
    <3>3. \A k \in 1 .. (i - 1) : run[list[k]].st = "succeeded"
      BY <1>1, <1>2, <2>2, <3>1 DEF SweepCall
    <3> QED BY <3>2, <3>3 DEF Ready, Members
  <2>4. Steady(r, "running")
    BY <2>1, <2>3 DEF Steady, States, ActiveStates, Terminal
  <2>5. RowsKept
    BY <1>2, <2>1, <2>4, StatusKept
  <2>6. RetriesInv'
    BY <1>1, <2>5, RetriesKept DEF RowsKept
  <2>7. CASE Done(c) /\ execs' = execs
    BY <1>1, <1>2, <2>5, <2>7, DoneIs, AloofCall, SweepQuiet
  <2>8. CASE Goes(c, "executing") /\ execs' = execs \cup {Executor(r, flag[r], "sweep")}
    <3>1. /\ call'[c].at = "executing" /\ call'[c].op = call[c].op /\ call'[c].r = call[c].r
          /\ call'[c].list = call[c].list /\ call'[c].i = call[c].i
          /\ \A d \in Calls \ {c} : call'[d] = call[d]
      BY <2>8, GoesIs
    <3>2. SweepCall(c)' /\ (Gathered(c)' => Gathered(c) /\ call'[c].list[1] = call[c].list[1])
      BY <1>1, <2>5, <3>1, NobodyNew, GoesOn
    <3> DEFINE task == Executor(r, flag[r], "sweep")
    <3>20. PICK x : x = task
      OBVIOUS
    <3>3. x.r = r /\ x.at = "start"
      BY <3>20 DEF Executor
    <3>9. execs' = execs \cup {x}
      BY <2>8, <3>20
    <3> HIDE DEF task
    <3>4. run'[r].st = "running"
      BY <1>2, <2>1 DEF SetStatus, RowsInv, RowType
    <3>5. work[r] # "failed"
      BY <2>1 DEF SweepInv, WorkInv, Begun, Terminal
    <3>6. MemberOK(x)'
      BY <1>1, <3>3, <3>4, <3>5 DEF MemberOK
    <3>7. \A e \in execs : e.r # r
      BY <2>1 DEF Inv, ExecsInv, Begun, Terminal
    <3>8. \A e \in execs : IsSweep(e.r)' => IsSweep(e.r)
      <4>1. \A e \in execs : e.r \in Runs /\ Begun(e.r)
        BY DEF Inv, ExecsInv, ExecRec
      <4> QED BY <2>5, <4>1 DEF RowsKept, Kept, IsSweep, Begun, Terminal
    <3>10. OneExecutor'
      BY <3>3, <3>7, <3>8, <3>9 DEF OneExecutor, SweepInv, MembersInv
    <3>11. MembersInv'
      <4>1. \A e \in execs' : e \in execs \/ MemberOK(e)'
        BY <3>6, <3>9
      <4>2. \A r1 \in Runs : Kept(r1)
        BY <2>5 DEF RowsKept
      <4> QED BY <1>1, <1>2, <3>10, <4>1, <4>2, MembersKept
    <3> QED BY <1>1, <1>2, <2>5, <2>6, <3>1, <3>2, <3>11, SweepStep
  <2> QED BY <1>3, <1>4, <2>5, <2>7, <2>8 DEF RunNext
<1>5. CASE ~Swappable(Item(c), "queued", "running")
  <2>1. run' = run /\ execs' = execs /\ (Done(c) \/ Advance(c, "interrupt"))
    BY <1>5 DEF RunNext, SkipRest
  <2>2. RowsKept
    BY <1>2, <2>1, SameKept
  <2>3. call'[c].at \in Aloof /\ \A d \in Calls \ {c} : call'[d] = call[d]
    BY <2>1, DoneIs, AdvanceIs DEF Aloof
  <2> QED BY <1>1, <1>2, <2>1, <2>2, <2>3, AloofCall, SweepQuiet
<1> QED BY <1>4, <1>5

\* The sweep goes on after a member only if it succeeded.
LEMMA SweepWaits ==
    ASSUME Inv, SweepInv, NEW c \in Calls, MemberEnds(c) \/ HealEnds(c)
    PROVE  RowsKept /\ SweepInv'
<1>1. /\ run' = run /\ work' = work /\ boot' = boot /\ cont' = cont /\ rejected' = rejected
      /\ execs' \subseteq execs
  BY DEF MemberEnds, HealEnds, CallOnly, rowVars
<1>2. RowsKept /\ ChildrenKept
  BY <1>1, SameKept, SameChildrenKept DEF SweepInv, SameChildren
<1>3. \A h \in heals' : h \in heals \/ RetryOK(h)'
  BY DEF MemberEnds, AfterMember, HealEnds, RetryOK, Healer
<1>4. ASSUME Done(c) \/ Advance(c, "interrupt") \/ Goes(c, "healing") PROVE SweepInv'
  <2>1. call'[c].at \in Aloof /\ \A d \in Calls \ {c} : call'[d] = call[d]
    BY <1>4, DoneIs, AdvanceIs, GoesIs DEF Aloof
  <2> QED BY <1>1, <1>2, <1>3, <2>1, AloofCall, SweepQuiet
<1>5. ASSUME NEW e \in execs, At(c, "executing"), e.r = Item(c), e.at = "ok",
             run[e.r].st # "interrupted", Advance(c, "next")
      PROVE  SweepInv'
  <2>1. PICK list \in Seq(Runs) : list = call[c].list
    BY ListOf
  <2>2. call[c].at = "executing" /\ call[c].at \in Started /\ call[c].at \in Walking
    BY <1>5 DEF At, Started, Walking
  <2>3. PICK i \in 1 .. Len(list) : i = call[c].i
    BY <2>1, <2>2, ItemIn
  <2>4. list[i] = e.r /\ list[i] \in Runs
    BY <1>5, <2>1, <2>3 DEF Item
  <2>5. Covers(list) /\ \A j \in 1 .. (i - 1) : run[list[j]].st = "succeeded"
    BY <2>1, <2>2, <2>3 DEF SweepInv, SweepCall
  <2>6. IsSweep(e.r)
    BY <2>3, <2>4, <2>5 DEF Covers
  <2>7. run[e.r].st \in Terminal /\ run[e.r].st # "failed"
    BY <1>5, <2>6 DEF SweepInv, MembersInv, MemberOK, Unfailed
  <2>8. run[list[i]].st = "succeeded"
    BY <1>5, <2>4, <2>7 DEF Terminal
  <2>9. /\ call'[c].at = "next" /\ call'[c].op = call[c].op /\ call'[c].list = list
        /\ call'[c].i = i + 1 /\ \A d \in Calls \ {c} : call'[d] = call[d]
    BY <1>5, <2>1, <2>3, AdvanceIs
  <2>10. ~Gathered(c)'
    BY <2>9 DEF Gathered, Gathers, Gathering, Estimating
  <2>11. Covers(list)'
    BY <1>1, <2>5 DEF Covers, IsSweep
  <2>12. (Gathers(c) \/ call[c].at \in Started => Covers(call[c].list))'
    BY <2>9, <2>11 DEF Covers
  <2>13. \A j \in 1 .. (call'[c].i - 1) : run'[call'[c].list[j]].st = "succeeded"
    <3>1. \A j \in 1 .. (call'[c].i - 1) : j = i \/ j \in 1 .. (i - 1)
      BY <2>9
    <3> QED BY <1>1, <2>5, <2>8, <2>9, <3>1
  <2>14. SweepCall(c)'
    BY <2>9, <2>10, <2>12, <2>13 DEF SweepCall, Gathers, Gathering, Estimating
  <2> QED BY <1>1, <1>2, <1>3, <2>9, <2>10, <2>14, SweepQuiet
<1>6. CASE MemberEnds(c)
  <2>1. PICK e \in execs : e.r = Item(c) /\ e.at \in {"ok", "failed"} /\ AfterMember(c, e)
    BY <1>6 DEF MemberEnds
  <2>2. At(c, "executing")
    BY <1>6 DEF MemberEnds
  <2>3. \/ Done(c) \/ Advance(c, "interrupt") \/ Goes(c, "healing")
        \/ e.at = "ok" /\ run[e.r].st # "interrupted" /\ Advance(c, "next")
    BY <2>1 DEF AfterMember, SkipRest
  <2> QED BY <1>2, <1>4, <1>5, <2>1, <2>2, <2>3
<1>7. CASE HealEnds(c)
  BY <1>2, <1>4, <1>7 DEF HealEnds, SkipRest
<1> QED BY <1>6, <1>7

\* What settling and asking do to the rows and the work items.
LEMMA SettlesSweep ==
    ASSUME Inv, SweepInv, NEW r \in Runs, CompleteWork(r), rejected' = rejected
    PROVE  /\ RowsKept /\ WorkKept /\ ChildrenKept
           /\ \A o \in Runs : work'[o] = "failed" => work[o] = "failed"
           /\ IsActive(r) /\ work[r] \in Terminal => run'[r].st = work[r] /\ work'[r] = "done"
           /\ ~(IsActive(r) /\ work[r] \in Terminal) => run' = run /\ work' = work
<1>1. SameChildren /\ MiscType /\ RowsInv /\ GroupsInv
  BY Settling DEF Inv, SweepInv
<1>2. ChildrenKept
  BY <1>1, SameChildrenKept
<1>3. CASE work[r] \in Terminal /\ IsActive(r)
  <2>1. SetStatus(r, work[r]) /\ work' = [work EXCEPT ![r] = "done"]
    BY <1>3 DEF CompleteWork
  <2>2. work'[r] = "done" /\ \A o \in Runs : o # r => work'[o] = work[o]
    BY <1>1, <2>1 DEF MiscType
  <2>3. Steady(r, work[r])
    BY <1>3 DEF Steady, States, Terminal, ActiveStates, IsActive, MayFail
  <2>4. PICK st : st = work[r]
    OBVIOUS
  <2>5. RowsKept
    BY <1>1, <2>1, <2>3, <2>4, StatusKept
  <2>6. run'[r].st = work[r]
    BY <1>1, <2>1 DEF SetStatus, RowsInv, RowType
  <2>7. WorkKept
    BY <1>3, <2>2, <2>6 DEF WorkKept, Worked
  <2> QED BY <1>2, <1>3, <2>2, <2>5, <2>6, <2>7
<1>4. CASE ~(work[r] \in Terminal /\ IsActive(r))
  <2>1. run' = run /\ work' = work
    BY <1>4 DEF CompleteWork
  <2> QED BY <1>1, <1>2, <1>4, <2>1, SameKept, SameWork
<1> QED BY <1>3, <1>4

LEMMA AsksSweep ==
    ASSUME MiscType, NEW r \in Runs, NEW d \in {"failed", "interrupted"}, RequestWork(r, d),
           d = "failed" => Begun(r)
    PROVE  /\ WorkKept
           /\ \A o \in Runs : o # r => work'[o] = work[o]
           /\ d = "interrupted" => work'[r] \in {"interrupted", "done"}
<1>1. work'[r] = Requested(r, d) /\ \A o \in Runs : o # r => work'[o] = work[o]
  BY DEF MiscType, RequestWork
<1>2. /\ work[r] \in {"interrupted", "done"} => work'[r] = work[r]
      /\ work[r] \notin {"interrupted", "done"} => work'[r] = d
  BY <1>1 DEF Requested
<1>3. Worked(r)
  BY <1>2 DEF Worked
<1> QED BY <1>1, <1>2, <1>3 DEF WorkKept, Worked

LEMMA StopSweep ==
    ASSUME Inv, SweepInv, NEW c \in Calls, Signal(c) \/ StopRequest(c) \/ StopSettle(c)
    PROVE  RowsKept /\ SweepInv'
<1>1. /\ execs' = execs /\ heals' = heals /\ boot' = boot /\ rejected' = rejected
      /\ call[c].at \in {"signal", "request", "settle"} /\ MiscType /\ GroupsInv
  BY DEF Signal, StopRequest, StopSettle, At, CallOnly, rowVars, memVars, Inv, SweepInv
<1>2. PICK r \in Runs : r = call[c].r
  BY <1>1 DEF Inv, CallsInv, CallOK
<1>3. call'[c].at \in Aloof /\ \A d \in Calls \ {c} : call'[d] = call[d]
  BY DoneIs, GoesIs DEF Signal, StopRequest, StopSettle, Aloof
<1>4. /\ RowsKept /\ WorkKept /\ ChildrenKept
      /\ \A o \in Runs : work'[o] = "failed" => work[o] = "failed"
  <2>1. CASE Signal(c)
    <3>1. run' = run /\ work' = work /\ cont' = cont
      BY <2>1 DEF Signal, rowVars
    <3> QED BY <1>1, <3>1, SameKept, SameWork, SameChildrenKept DEF SameChildren
  <2>2. CASE StopRequest(c)
    <3>1. run' = run /\ cont' = cont /\ RequestWork(r, "interrupted")
      BY <1>2, <2>2 DEF StopRequest
    <3>2. /\ WorkKept
          /\ \A o \in Runs : o # r => work'[o] = work[o]
          /\ work'[r] \in {"interrupted", "done"}
      BY <1>1, <3>1, AsksSweep
    <3> QED BY <1>1, <3>1, <3>2, SameKept, SameChildrenKept DEF SameChildren
  <2>3. CASE StopSettle(c)
    BY <1>1, <1>2, <2>3, SettlesSweep DEF StopSettle
  <2> QED BY <2>1, <2>2, <2>3
<1>5. MembersInv' /\ RetriesInv'
  BY <1>1, <1>4, SameMembers, RetriesKept DEF RowsKept
<1> QED BY <1>1, <1>3, <1>4, <1>5, AloofCall, SweepStep

-----------------------------------------------------------------------------
(* Sweeps: retries are detached from them.                                 *)

LEMMA RetryKept ==
    ASSUME RowsInv, GroupsInv, NEW p, NEW f, Room(1), Insert(RetryOf(p, f))
    PROVE  /\ RowsKept /\ Latest + 1 \in Runs
           /\ run'[Latest + 1].st = "waiting" /\ run'[Latest + 1].grp = 0
<1>1. PICK row : row = RetryOf(p, f)
  OBVIOUS
<1>2. row.st = "waiting" /\ row.grp = 0
  BY <1>1 DEF RetryOf
<1>3. Insert(row)
  BY <1>1
<1> QED BY <1>2, <1>3, AddedKept

\* The rerun that a request goes on to claim belongs to no sweep.
LEMMA ClaimsRerun ==
    ASSUME Inv, NEW c \in Calls, NEW n \in Runs, run'[n].grp = 0,
           call' = [call EXCEPT ![c].at = "claim", ![c].r = n]
    PROVE  SweepCall(c)' /\ ~Gathered(c)' /\ \A d \in Calls \ {c} : call'[d] = call[d]
<1>1. /\ call'[c].at = "claim" /\ call'[c].r = n /\ \A d \in Calls \ {c} : call'[d] = call[d]
  BY DEF Inv, CallsInv, CallType, CallRec
<1> QED BY <1>1 DEF SweepCall, Gathered, Gathers, Gathering, Estimating, Started

LEMMA DeriveSweep ==
    ASSUME Inv, SweepInv, NEW c \in Calls, Derive(c)
    PROVE  RowsKept /\ SweepInv'
<1>0. /\ CallOK(c) /\ call[c].at = "derive" /\ LinksInv /\ RowsInv /\ GroupsInv /\ MiscType
  BY DEF Inv, CallsInv, Derive, At, SweepInv
<1>1. PICK p \in Runs : p = call[c].r
  BY <1>0 DEF CallOK
<1>2. /\ execs' = execs /\ heals' = heals /\ boot' = boot /\ work' = work /\ cont' = cont
  BY DEF Derive, CallOnly, memVars
<1>3. ASSUME run' = run, rejected' = rejected PROVE RowsKept /\ ChildrenKept
  BY <1>0, <1>2, <1>3, SameKept, SameChildrenKept DEF SameChildren
<1>4. CASE rejected[p] = 0 /\ ~Room(1)
  <2>1. Done(c) /\ run' = run /\ rejected' = rejected
    BY <1>1, <1>4 DEF Derive, KnownRejectChild
  <2> QED BY <1>2, <1>3, <2>1, DoneIs, AloofCall, SweepQuiet
<1>5. CASE rejected[p] # 0
  <2>1. PICK n \in Runs : n = rejected[p]
    BY <1>0, <1>5 DEF LinksInv, Child
  <2>2. /\ run' = run /\ rejected' = rejected /\ run'[n].grp = 0
        /\ Done(c) \/ call' = [call EXCEPT ![c].at = "claim", ![c].r = n]
    BY <1>0, <1>1, <1>5, <2>1 DEF Derive, KnownRejectChild, GroupsInv
  <2>3. SweepCall(c)' /\ ~Gathered(c)' /\ \A d \in Calls \ {c} : call'[d] = call[d]
    BY <2>2, DoneIs, AloofCall, ClaimsRerun
  <2> QED BY <1>2, <1>3, <2>2, <2>3, SweepQuiet
<1>6. CASE rejected[p] = 0 /\ Room(1)
  <2>1. /\ Insert(RetryOf(p, TRUE)) /\ rejected' = [rejected EXCEPT ![p] = Latest + 1]
        /\ \/ Done(c)
           \/ call' = [call EXCEPT ![c].at = "claim", ![c].r = Latest + 1]
    BY <1>1, <1>6 DEF Derive, KnownRejectChild
  <2>2. RowsKept /\ Latest + 1 \in Runs /\ run'[Latest + 1].grp = 0
    BY <1>0, <1>6, <2>1, RetryKept
  <2>3. PICK n \in Runs : n = Latest + 1
    BY <2>2
  <2>4. ChildrenKept
    <3>1. \A q \in Runs : rejected'[q] = IF q = p THEN n ELSE rejected[q]
      BY <1>0, <2>1, <2>3 DEF MiscType
    <3> QED BY <1>2, <2>2, <2>3, <3>1 DEF ChildrenKept
  <2>5. SweepCall(c)' /\ ~Gathered(c)' /\ \A d \in Calls \ {c} : call'[d] = call[d]
    BY <2>1, <2>2, <2>3, DoneIs, AloofCall, ClaimsRerun
  <2> QED BY <1>2, <2>2, <2>4, <2>5, SweepQuiet
<1> QED BY <1>4, <1>5, <1>6

LEMMA CallSweep ==
    ASSUME Inv, SweepInv, NEW c \in Calls, Request(c) \/ CallStep(c)
    PROVE  (\A r \in Runs : Kept(r)) /\ SweepInv'
<1>1. CASE Request(c) \/ Create(c)
  BY <1>1, RequestSweep, CreateSweep DEF RowsKept
<1>2. CASE \/ InsertFlag(c) \/ Estimate(c)
           \/ EndEstimate(c, "cancel", "interrupted") \/ EndEstimate(c, "fail", "failed")
           \/ \E cost \in {"cheap", "dear"} : SaveEstimate(c, cost)
  BY <1>2, EstimateSweep DEF RowsKept
<1>3. CASE Decide(c) \/ StartClaim(c) \/ FinishClaim(c)
  BY <1>3, DecideSweep, ClaimSweep DEF RowsKept
<1>4. CASE HoldNext(c) \/ Validate(c) \/ Enqueue(c) \/ Rollback(c) \/ InterruptNext(c)
  BY <1>4, WithdrawalSweep, ValidateSweep, EnqueueSweep DEF RowsKept
<1>5. CASE RunNext(c) \/ MemberEnds(c) \/ HealEnds(c)
  BY <1>5, RunNextSweep, SweepWaits DEF RowsKept
<1>6. CASE Signal(c) \/ StopRequest(c) \/ StopSettle(c) \/ Derive(c)
  BY <1>6, StopSweep, DeriveSweep DEF RowsKept
<1> QED BY <1>1, <1>2, <1>3, <1>4, <1>5, <1>6 DEF CallStep

-----------------------------------------------------------------------------
(* Sweeps: the executors.                                                  *)

\* An executor that goes on is still the only one of its member.
LEMMA ExecMoves ==
    ASSUME Inv, SweepInv, \A r \in Runs : Kept(r), WorkKept, NEW e \in execs, NEW at,
           ExecGoes(e, at), NEW x, x = [e EXCEPT !.at = at], MemberOK(x)',
           \A f \in execs \ {e} : IsSweep(f.r) /\ f.at \in Unfailed /\ work'[f.r] = "failed"
                                     => work[f.r] = "failed"
    PROVE  MembersInv'
<1>1. x.r = e.r /\ execs' = (execs \ {e}) \cup {x}
  BY DEF ExecGoes, Inv, ExecsInv, ExecRec
<1>2. \A f \in execs : IsSweep(f.r)' => IsSweep(f.r)
  <2>1. \A f \in execs : f.r \in Runs /\ Begun(f.r)
    BY DEF Inv, ExecsInv, ExecRec
  <2> QED BY <2>1 DEF Kept, IsSweep, Begun, Terminal
<1>3. ASSUME NEW f \in execs', NEW g \in execs', f.r = g.r, IsSweep(f.r)' PROVE f = g
  <2>1. \A a, b \in execs : a.r = b.r /\ IsSweep(a.r) => a = b
    BY DEF SweepInv, MembersInv, OneExecutor
  <2>2. CASE f = x /\ g # x
    BY <1>1, <1>2, <1>3, <2>1, <2>2 DEF IsSweep
  <2>3. CASE f # x /\ g = x
    BY <1>1, <1>2, <1>3, <2>1, <2>3 DEF IsSweep
  <2>4. CASE f # x /\ g # x
    BY <1>1, <1>2, <1>3, <2>1, <2>4
  <2> QED BY <2>2, <2>3, <2>4
<1>4. OneExecutor'
  BY <1>3 DEF OneExecutor, IsSweep
<1>5. \A f \in execs' : f = x \/ f \in execs \ {e}
  BY <1>1
<1>6. \A f \in execs' : \/ MemberOK(f)'
                        \/ /\ f \in execs
                           /\ IsSweep(f.r) /\ f.at \in Unfailed /\ work'[f.r] = "failed"
                                 => work[f.r] = "failed"
  BY <1>5
<1> QED BY <1>4, <1>6, MembersKept

LEMMA ExecSweep ==
    ASSUME Inv, SweepInv, ExecStep
    PROVE  RowsKept /\ SweepInv'
<1>0. /\ MiscType /\ RowsInv /\ ExecsInv /\ GroupsInv /\ WorkInv
  BY DEF Inv, SweepInv
<1>1. PICK e \in execs : \/ ExecStart(e) \/ ExecSucceeds(e) \/ ExecFails(e)
                         \/ ExecInterrupted(e) \/ ExecSettles(e) \/ ExecReturns(e)
  BY DEF ExecStep
<1>2. e \in ExecRec /\ e.r \in Runs /\ Begun(e.r) /\ MemberOK(e)
  BY <1>0 DEF ExecsInv, ExecRec, SweepInv, MembersInv
<1>3. call' = call /\ boot' = boot /\ rejected' = rejected
  BY <1>1 DEF ExecStart, ExecSucceeds, ExecFails, ExecInterrupted, ExecSettles, ExecReturns,
              ExecOnly, CallOnly
<1>4. PICK r \in Runs : r = e.r
  BY <1>2
<1>5. ASSUME NEW at PROVE \E x : x = [e EXCEPT !.at = at] /\ x.r = r /\ x.at = at
  <2>1. PICK x : x = [e EXCEPT !.at = at]
    OBVIOUS
  <2>2. x.r = r /\ x.at = at
    BY <1>2, <1>4, <2>1 DEF ExecRec
  <2> QED BY <2>1, <2>2
<1>6. IsSweep(r)' => IsSweep(r) \/ ~Kept(r)
  BY <1>2, <1>4 DEF Kept, IsSweep, Begun, Terminal
<1>7. CASE ExecReturns(e)
  <2>1. /\ run' = run /\ work' = work /\ cont' = cont /\ execs' \subseteq execs
        /\ \A h \in heals' : h \in heals \/ RetryOK(h)'
    BY <1>7 DEF ExecReturns, RetryOK, Healer
  <2>2. RowsKept /\ WorkKept /\ ChildrenKept /\ \A o \in Runs : Kept(o)
    BY <1>0, <1>3, <2>1, SameKept, SameWork, SameChildrenKept DEF SameChildren, RowsKept
  <2>3. MembersInv' /\ RetriesInv'
    BY <2>1, <2>2, SameMembers, RetriesKept
  <2> QED BY <1>3, <2>2, <2>3, SweepTaskStep
<1>8. CASE ExecStart(e) \/ ExecSucceeds(e)
  <2>1. work' = work /\ cont' = cont /\ heals' = heals /\ WorkKept /\ ChildrenKept
    <3>1. work' = work /\ cont' = cont /\ heals' = heals
      BY <1>8 DEF ExecStart, ExecSucceeds
    <3> QED BY <1>3, <3>1, SameWork, SameChildrenKept DEF SameChildren
  <2>2. PICK at \in {"run", "ok", "refused"} :
          /\ ExecGoes(e, at)
          /\ at = "refused" => run' = run
          /\ at = "run" => Accepts(r, "running") /\ SetStatus(r, "running") /\ e.at = "start"
          /\ at = "ok" => Accepts(r, "succeeded") /\ SetStatus(r, "succeeded") /\ e.at = "run"
    BY <1>4, <1>8 DEF ExecStart, ExecSucceeds
  <2>3. RowsKept
    <3>1. CASE at = "refused"
      BY <1>0, <2>2, <3>1, SameKept
    <3>2. CASE at = "run"
      <4>1. Steady(r, "running")
        BY <1>2, <1>4, <2>2, <3>2 DEF Steady, Accepts, Begun, States, ActiveStates, Terminal
      <4> QED BY <1>0, <2>2, <3>2, <4>1, StatusKept
    <3>3. CASE at = "ok"
      <4>1. Steady(r, "succeeded")
        BY <1>2, <1>4, <2>2, <3>3 DEF Steady, Accepts, Begun, States, ActiveStates, Terminal
      <4> QED BY <1>0, <2>2, <3>3, <4>1, StatusKept
    <3> QED BY <3>1, <3>2, <3>3
  <2>4. PICK x : x = [e EXCEPT !.at = at] /\ x.r = r /\ x.at = at
    BY <1>5
  <2>5. at = "run" => run'[r].st = "running"
    BY <1>0, <2>2 DEF SetStatus, RowsInv, RowType
  <2>6. at = "ok" => run'[r].st = "succeeded"
    BY <1>0, <2>2 DEF SetStatus, RowsInv, RowType
  <2>7. IsSweep(r)' => IsSweep(r)
    BY <1>6, <2>3 DEF RowsKept
  <2>8. at \in {"run", "ok"} /\ IsSweep(r) => work[r] # "failed"
    BY <1>2, <1>4, <2>2 DEF MemberOK, Unfailed
  <2>9. MemberOK(x)'
    BY <2>1, <2>4, <2>5, <2>6, <2>7, <2>8 DEF MemberOK, IsSweep, Unfailed, Terminal
  <2>10. \A o \in Runs : Kept(o)
    BY <2>3 DEF RowsKept
  <2>11. MembersInv'
    BY <2>1, <2>2, <2>4, <2>9, <2>10, ExecMoves
  <2>12. RetriesInv'
    BY <2>1, <2>10, RetriesKept
  <2> QED BY <1>3, <2>1, <2>3, <2>11, <2>12, SweepTaskStep
<1>9. CASE ExecFails(e) \/ ExecInterrupted(e)
  <2>1. run' = run /\ cont' = cont /\ heals' = heals
    BY <1>9 DEF ExecFails, ExecInterrupted
  <2>2. RowsKept /\ ChildrenKept /\ \A o \in Runs : Kept(o)
    BY <1>0, <1>3, <2>1, SameKept, SameChildrenKept DEF SameChildren, RowsKept
  <2>3. PICK d \in {"failed", "interrupted"}, at \in {"settle_failed", "settle_ok"} :
          /\ RequestWork(r, d) /\ ExecGoes(e, at)
          /\ at = "settle_ok" => d = "interrupted" /\ e.at = "run"
    BY <1>4, <1>9 DEF ExecFails, ExecInterrupted
  <2>4. /\ WorkKept /\ \A o \in Runs : o # r => work'[o] = work[o]
        /\ d = "interrupted" => work'[r] \in {"interrupted", "done"}
    BY <1>0, <1>2, <1>4, <2>3, AsksSweep
  <2>5. PICK x : x = [e EXCEPT !.at = at] /\ x.r = r /\ x.at = at
    BY <1>5
  <2>6. MemberOK(x)'
    <3>1. at = "settle_ok" /\ IsSweep(r) => run[r].st # "failed"
      BY <1>2, <1>4, <2>3 DEF MemberOK, Unfailed
    <3> QED BY <2>1, <2>3, <2>4, <2>5, <3>1 DEF MemberOK, IsSweep, Unfailed
  <2>7. \A f \in execs \ {e} : IsSweep(f.r) /\ f.at \in Unfailed /\ work'[f.r] = "failed"
                                  => work[f.r] = "failed"
    <3>1. \A f \in execs \ {e} : f.r \in Runs /\ (IsSweep(f.r) => f.r # r)
      BY <1>0, <1>4 DEF ExecsInv, ExecRec, SweepInv, MembersInv, OneExecutor
    <3> QED BY <2>4, <3>1
  <2>8. MembersInv'
    BY <2>2, <2>3, <2>4, <2>5, <2>6, <2>7, ExecMoves
  <2>9. RetriesInv'
    BY <2>1, <2>2, RetriesKept
  <2> QED BY <1>3, <2>2, <2>4, <2>8, <2>9, SweepTaskStep
<1>10. CASE ExecSettles(e)
  <2>1. PICK at \in {"ok", "failed"} :
          /\ CompleteWork(r) /\ ExecGoes(e, at) /\ heals' = heals
          /\ at = "ok" => e.at = "settle_ok"
    BY <1>4, <1>10 DEF ExecSettles
  <2>2. /\ RowsKept /\ WorkKept /\ ChildrenKept
        /\ \A o \in Runs : work'[o] = "failed" => work[o] = "failed"
        /\ IsActive(r) /\ work[r] \in Terminal => run'[r].st = work[r] /\ work'[r] = "done"
        /\ ~(IsActive(r) /\ work[r] \in Terminal) => run' = run /\ work' = work
    BY <1>3, <2>1, SettlesSweep
  <2>3. \A o \in Runs : Kept(o)
    BY <2>2 DEF RowsKept
  <2>4. PICK x : x = [e EXCEPT !.at = at] /\ x.r = r /\ x.at = at
    BY <1>5
  <2>5. MemberOK(x)'
    <3>1. IsSweep(r)' => IsSweep(r)
      BY <1>6, <2>3
    <3>2. at = "ok" /\ IsSweep(r) =>
            run[r].st # "failed" /\ work[r] \in {"interrupted", "done"}
      BY <1>2, <1>4, <2>1 DEF MemberOK, Unfailed
    <3>3. work[r] = "done" => run[r].st \in Terminal
      BY <1>0 DEF WorkInv
    <3>4. at = "ok" /\ IsSweep(r) =>
            run'[r].st # "failed" /\ run'[r].st \in Terminal /\ work'[r] # "failed"
      <4>1. CASE IsActive(r) /\ work[r] \in Terminal
        BY <2>2, <3>2, <4>1 DEF Terminal
      <4>2. CASE ~(IsActive(r) /\ work[r] \in Terminal)
        BY <1>2, <1>4, <2>2, <3>2, <3>3, <4>2 DEF Terminal, IsActive, ActiveStates, Begun
      <4> QED BY <4>1, <4>2
    <3> QED BY <2>1, <2>4, <3>1, <3>4 DEF MemberOK, IsSweep, Unfailed
  <2>6. \A f \in execs \ {e} : IsSweep(f.r) /\ f.at \in Unfailed /\ work'[f.r] = "failed"
                                  => work[f.r] = "failed"
    BY <1>0, <2>2 DEF ExecsInv, ExecRec
  <2>7. MembersInv'
    BY <2>1, <2>2, <2>3, <2>4, <2>5, <2>6, ExecMoves
  <2>8. RetriesInv'
    BY <2>1, <2>3, RetriesKept
  <2> QED BY <1>3, <2>2, <2>7, <2>8, SweepTaskStep
<1> QED BY <1>1, <1>7, <1>8, <1>9, <1>10

-----------------------------------------------------------------------------
(* Sweeps: the healers, the initial state and the theorem.                 *)

LEMMA RetryMoves ==
    ASSUME Inv, NEW h \in heals, NEW at, HealGoes(h, at) \/ HealStops(h, at),
           at \in {"cas", "claimed"} => run'[h.child].st # "none" /\ run'[h.child].grp = 0,
           at # "claim"
    PROVE  \A g \in heals' : g \in heals \/ RetryOK(g)'
<1>1. PICK x : x = [h EXCEPT !.at = at]
  OBVIOUS
<1>2. x.at = at /\ x.child = h.child
  BY <1>1 DEF Inv, HealsInv, HealOK, HealRec
<1>3. RetryOK(x)'
  BY <1>2 DEF RetryOK
<1>4. \A g \in heals' : g \in heals \/ g = x
  BY <1>1 DEF HealGoes, HealStops
<1> QED BY <1>3, <1>4

\* What a healer changes but its own place.
LEMMA HealerIs ==
    ASSUME Inv, SweepInv, NEW h \in heals,
           HealRead(h) \/ HealCreate(h) \/ HealClaim(h) \/ HealCas(h) \/ HealCloses(h)
    PROVE  /\ work' = work /\ call' = call /\ boot' = boot /\ rejected' = rejected /\ WorkKept
           /\ h.r \in Runs /\ MiscType /\ RowsInv /\ GroupsInv /\ LinksInv /\ RetryOK(h)
           /\ h.at \in {"claim", "cas", "claimed"} => h.child \in Runs
<1>1. work' = work /\ call' = call /\ boot' = boot /\ rejected' = rejected
  BY DEF HealRead, HealCreate, HealClaim, HealCas, HealCloses, HealOnly, CallOnly
<1>2. HealOK(h) /\ RetryOK(h)
  BY DEF Inv, HealsInv, SweepInv, RetriesInv
<1> QED BY <1>1, <1>2, SameWork DEF HealOK, HealRec, Inv, SweepInv

\* The retry that a healer makes, or finds, belongs to no sweep.
LEMMA HealCreateSweep ==
    ASSUME Inv, SweepInv, NEW h \in heals, HealCreate(h)
    PROVE  RowsKept /\ SweepInv'
<1>1. /\ work' = work /\ call' = call /\ boot' = boot /\ rejected' = rejected /\ WorkKept
      /\ h.r \in Runs /\ MiscType /\ RowsInv /\ GroupsInv /\ LinksInv
  BY HealerIs
<1>2. execs' = execs
  BY DEF HealCreate
<1>3. ASSUME RowsKept, ChildrenKept, \A g \in heals' : g \in heals \/ RetryOK(g)' PROVE SweepInv'
  <2>1. \A r \in Runs : Kept(r)
    BY <1>3 DEF RowsKept
  <2>2. MembersInv' /\ RetriesInv'
    BY <1>1, <1>2, <1>3, <2>1, SameMembers, RetriesKept
  <2> QED BY <1>1, <1>3, <2>2, SweepTaskStep
<1>4. ASSUME NEW n, NEW at, heals' = (heals \ {h}) \cup {[h EXCEPT !.at = at, !.child = n]},
             run'[n].st # "none", run'[n].grp = 0
      PROVE  \A g \in heals' : g \in heals \/ RetryOK(g)'
  <2>1. PICK x : x = [h EXCEPT !.at = at, !.child = n]
    OBVIOUS
  <2>2. x.child = n
    BY <2>1 DEF Inv, HealsInv, HealOK, HealRec
  <2>3. RetryOK(x)'
    BY <1>4, <2>2 DEF RetryOK
  <2> QED BY <1>4, <2>1, <2>3
<1>5. PICK at : at = IF run[h.r].cost = "cheap" THEN "claim" ELSE "close"
  OBVIOUS
<1>6. CASE cont[h.r].child = 0 /\ cont[h.r].state # "pending"
  <2>1. HealStops(h, "error") /\ run' = run /\ cont' = cont
    BY <1>6 DEF HealCreate
  <2>2. RowsKept /\ ChildrenKept
    BY <1>1, <2>1, SameKept, SameChildrenKept DEF SameChildren
  <2> QED BY <1>3, <2>1, <2>2, RetryMoves
<1>7. CASE cont[h.r].child # 0
  <2>1. PICK n \in Runs : n = cont[h.r].child /\ run[n].st # "none" /\ run[n].grp = 0
    BY <1>1, <1>7 DEF LinksInv, Child, Settled, GroupsInv
  <2>2. /\ run' = run /\ cont' = cont
        /\ heals' = (heals \ {h}) \cup {[h EXCEPT !.at = at, !.child = n]}
    BY <1>5, <1>7, <2>1 DEF HealCreate
  <2>3. RowsKept /\ ChildrenKept
    BY <1>1, <2>2, SameKept, SameChildrenKept DEF SameChildren
  <2> QED BY <1>3, <1>4, <2>1, <2>2, <2>3
<1>8. CASE cont[h.r].child = 0 /\ cont[h.r].state = "pending"
  <2>1. /\ Room(1) /\ Insert(RetryOf(h.r, FALSE)) /\ LinkRetry(h.r, Latest + 1)
        /\ heals' = (heals \ {h}) \cup {[h EXCEPT !.at = at, !.child = Latest + 1]}
    BY <1>5, <1>8 DEF HealCreate
  <2>2. /\ RowsKept /\ Latest + 1 \in Runs
        /\ run'[Latest + 1].st = "waiting" /\ run'[Latest + 1].grp = 0
    BY <1>1, <2>1, RetryKept
  <2>3. PICK n \in Runs : n = Latest + 1
    BY <2>2
  <2>4. ChildrenKept
    <3>1. cont' = [cont EXCEPT ![h.r] = [state |-> "retry_created", child |-> n]]
      BY <2>1, <2>3 DEF LinkRetry
    <3>2. \A q \in Runs : cont'[q].child = IF q = h.r THEN n ELSE cont[q].child
      BY <1>1, <3>1 DEF MiscType
    <3> QED BY <1>1, <2>2, <2>3, <3>2 DEF ChildrenKept
  <2>5. \A g \in heals' : g \in heals \/ RetryOK(g)'
    BY <1>4, <2>1, <2>2, <2>3
  <2> QED BY <1>3, <2>2, <2>4, <2>5
<1> QED BY <1>6, <1>7, <1>8

LEMMA HealSweep ==
    ASSUME Inv, SweepInv, HealStep
    PROVE  RowsKept /\ SweepInv'
<1>1. PICK h \in heals :
        HealRead(h) \/ HealCreate(h) \/ HealClaim(h) \/ HealCas(h) \/ HealCloses(h)
  BY DEF HealStep
<1>2. /\ work' = work /\ call' = call /\ boot' = boot /\ rejected' = rejected /\ WorkKept
      /\ h.r \in Runs /\ MiscType /\ RowsInv /\ GroupsInv /\ LinksInv /\ RetryOK(h)
      /\ h.at \in {"claim", "cas", "claimed"} => h.child \in Runs
  BY <1>1, HealerIs
<1>3. CASE HealCreate(h)
  BY <1>3, HealCreateSweep
<1>4. CASE HealRead(h) \/ HealCloses(h)
  <2>1. /\ run' = run
        /\ cont' = cont \/ \E state \in {"exhausted", "completed"} : CloseCont(h.r, state)
        /\ HealStops(h, "fine") \/ HealGoes(h, "create")
    BY <1>4 DEF HealRead, HealCloses
  <2>2. RowsKept /\ ChildrenKept /\ \A r \in Runs : Kept(r)
    <3>1. SameChildren
      BY <1>2, <2>1, Closing DEF SameChildren
    <3> QED BY <1>2, <2>1, <3>1, SameKept, SameChildrenKept DEF RowsKept
  <2>3. \A g \in heals' : g \in heals \/ RetryOK(g)'
    BY <2>1, RetryMoves
  <2>4. MembersInv'
    <3>1. CASE execs' = execs
      BY <1>2, <2>2, <3>1, SameMembers
    <3>2. CASE h.at = "claimed" /\ execs' = execs \cup {Executor(h.child, h.by, "heal")}
      <4>1. h.child \in Runs /\ run[h.child].st # "none" /\ run[h.child].grp = 0
        BY <1>2, <3>2 DEF RetryOK
      <4> QED BY <1>2, <2>2, <3>2, <4>1, LoneExecutor
    <3> QED BY <1>4, <3>1, <3>2 DEF HealRead, HealCloses
  <2>5. RetriesInv'
    BY <2>2, <2>3, RetriesKept
  <2> QED BY <1>2, <2>2, <2>4, <2>5, SweepTaskStep
<1>5. CASE HealClaim(h) \/ HealCas(h)
  <2>1. /\ h.child \in Runs /\ run[h.child].st # "none" /\ run[h.child].grp = 0
        /\ execs' = execs /\ cont' = cont
    BY <1>2, <1>5 DEF HealClaim, HealCas, RetryOK
  <2>2. \/ run' = run
        \/ Claimable(h.child, "waiting") /\ SetStatus(h.child, "running")
    BY <1>5 DEF HealClaim, HealCas
  <2>3. RowsKept
    <3>1. CASE run' = run
      BY <1>2, <3>1, SameKept
    <3>2. CASE Claimable(h.child, "waiting") /\ SetStatus(h.child, "running")
      <4>1. Steady(h.child, "running")
        BY <2>1, <3>2 DEF Steady, Claimable, Ready, IsSweep, States, ActiveStates, Terminal, Begun
      <4> QED BY <1>2, <2>1, <3>2, <4>1, StatusKept
    <3> QED BY <2>2, <3>1, <3>2
  <2>4. ChildrenKept /\ \A r \in Runs : Kept(r)
    BY <1>2, <2>1, <2>3, SameChildrenKept DEF SameChildren, RowsKept
  <2>5. run'[h.child].st # "none" /\ run'[h.child].grp = 0
    BY <2>1, <2>4 DEF Kept
  <2>6. \E at \in {"cas", "claimed", "error"} : HealGoes(h, at) \/ HealStops(h, at)
    BY <1>5 DEF HealClaim, HealCas
  <2>7. \A g \in heals' : g \in heals \/ RetryOK(g)'
    BY <2>5, <2>6, RetryMoves
  <2>8. MembersInv' /\ RetriesInv'
    BY <1>2, <2>1, <2>4, <2>7, SameMembers, RetriesKept
  <2> QED BY <1>2, <2>3, <2>4, <2>8, SweepTaskStep
<1> QED BY <1>1, <1>3, <1>4, <1>5

LEMMA SweepInit ==
    ASSUME AdmissionInit
    PROVE  SweepInv /\ crashes = 0
<1>1. /\ \A r \in Runs : /\ run[r] = NoRun /\ work[r] = "none"
                         /\ cont[r] = NoCont /\ rejected[r] = 0
      /\ \A c \in Calls : call[c] = NewCall
      /\ execs = {} /\ heals = {} /\ boot = NoBoot /\ crashes = 0
  BY DEF AdmissionInit
<1>2. GroupsInv /\ WorkInv
  BY <1>1, AdmissionAssumption DEF GroupsInv, WorkInv, NoRun, NoCont, Runs
<1>3. MembersInv /\ RetriesInv
  BY <1>1 DEF MembersInv, OneExecutor, RetriesInv
<1>4. \A c \in Calls : call[c].at = "new"
  BY <1>1 DEF NewCall
<1>5. \A c \in Calls : SweepCall(c) /\ ~Gathered(c)
  BY <1>4 DEF SweepCall, Gathered, Gathers, Gathering, Estimating, Started
<1> QED BY <1>1, <1>2, <1>3, <1>5 DEF SweepInv, OwnGroups, NoBoot

LEMMA SweepStutter ==
    ASSUME Inv, SweepInv, UNCHANGED vars
    PROVE  RowsKept /\ SweepInv'
<1>1. /\ run' = run /\ work' = work /\ cont' = cont /\ rejected' = rejected
      /\ execs' = execs /\ heals' = heals /\ call' = call /\ boot' = boot
  BY DEF vars, rowVars, memVars
<1>2. RowsKept /\ WorkKept /\ ChildrenKept /\ \A r \in Runs : Kept(r)
  BY <1>1, SameKept, SameWork, SameChildrenKept DEF SweepInv, SameChildren, RowsKept
<1>3. MembersInv' /\ RetriesInv'
  BY <1>1, <1>2, SameMembers, RetriesKept
<1> QED BY <1>1, <1>2, <1>3, SweepTaskStep

\* Until the server stops, every step keeps the sweeps in order.
LEMMA SweepKeeps ==
    ASSUME Inv, SweepInv, crashes = 0, [AdmissionNext]_vars
    PROVE  (crashes' = 0 => SweepInv') /\ MembersInOrder
<1>1. \/ crashes' = 1 /\ run' = run
      \/ (\A r \in Runs : Kept(r)) /\ SweepInv'
  <2>1. ASSUME NEW c \in Calls, Request(c) \/ CallStep(c)
        PROVE  (\A r \in Runs : Kept(r)) /\ SweepInv'
    BY <2>1, CallSweep
  <2>2. CASE ExecStep \/ HealStep \/ UNCHANGED vars
    BY <2>2, ExecSweep, HealSweep, SweepStutter DEF RowsKept
  <2>3. ~BootStep
    BY DEF BootStep, BootReadItems, BootReadRuns, BootReadConts, BootEnds, BootItem,
           BootInterrupts, BootSettles, BootResumes, BootContinues, BootClaim, BootCas,
           BootCloses, BootAt, SweepInv
  <2>4. CASE Crash
    BY <2>4 DEF Crash, rowVars
  <2> QED BY <2>1, <2>2, <2>3, <2>4 DEF AdmissionNext
<1>2. MembersInOrder
  BY <1>1 DEF MembersInOrder, Kept, Ready
<1> QED BY <1>1, <1>2

\* execute_started_sweep, until the server first stops: a member starts only
\* after all before it in its sweep have succeeded, whatever other requests,
\* stops, healers and reruns do meanwhile, and however many sweeps there are.
THEOREM SweepsInOrder == AdmissionSpec => SweepStopsAtFailure
<1> DEFINE SInv == crashes = 0 => SweepInv
<1>1. AdmissionInit => SInv
  BY SweepInit
<1>2. Inv /\ SInv /\ [AdmissionNext]_vars => SInv' /\ (crashes = 0 => MembersInOrder)
  <2> SUFFICES ASSUME Inv, SInv, [AdmissionNext]_vars
               PROVE  (crashes' = 0 => SweepInv') /\ (crashes = 0 => MembersInOrder)
    OBVIOUS
  <2>1. CASE crashes = 0
    BY <2>1, SweepKeeps
  <2>2. CASE crashes # 0
    <3>1. crashes' # 0
      <4>1. crashes \in Nat
        BY AdmissionAssumption DEF Inv, MiscType
      <4>2. crashes' = crashes \/ crashes' = crashes + 1
        <5>1. ASSUME NEW c \in Calls, Request(c) \/ CallStep(c) PROVE crashes' = crashes
          BY <5>1 DEF Request, CallStep, Queue, Ask, AskSweep, Confirm, Hold, Stop, Reject,
                      Create, InsertFlag, Estimate, EndEstimate, SaveEstimate, Decide,
                      StartClaim, FinishClaim, HoldNext, Validate, Enqueue, Rollback, RunNext,
                      MemberEnds, HealEnds, InterruptNext, Signal, StopRequest, StopSettle,
                      Derive, CallOnly
        <5>2. CASE ExecStep
          BY <5>2 DEF ExecStep, ExecStart, ExecSucceeds, ExecFails, ExecInterrupted,
                      ExecSettles, ExecReturns, ExecOnly, CallOnly
        <5>3. CASE HealStep
          BY <5>3 DEF HealStep, HealRead, HealCreate, HealClaim, HealCas, HealCloses,
                      HealOnly, CallOnly
        <5>4. CASE BootStep
          BY <5>4 DEF BootStep, BootReadItems, BootReadRuns, BootReadConts, BootEnds, BootItem,
                      BootInterrupts, BootSettles, BootResumes, BootContinues, BootClaim,
                      BootCas, BootCloses, BootOnly
        <5>5. CASE Crash \/ UNCHANGED vars
          BY <5>5 DEF Crash, vars
        <5> QED BY <5>1, <5>2, <5>3, <5>4, <5>5, SMTT(30) DEF AdmissionNext
      <4> QED BY <2>2, <4>1, <4>2
    <3> QED BY <2>2, <3>1
  <2> QED BY <2>1, <2>2
<1> QED BY <1>1, <1>2, AdmissionInvariant, PTL DEF AdmissionSpec, SweepStopsAtFailure
=============================================================================
