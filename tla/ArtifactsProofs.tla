-------------------------- MODULE ArtifactsProofs ---------------------------
(***************************************************************************)
(* What the materialization, the cache, the review and the collection keep *)
(* true for every number of runs, ports, payloads, artifacts, faults and   *)
(* crashes.                                                                *)
(***************************************************************************)
EXTENDS Artifacts, TLAPS

-----------------------------------------------------------------------------
(* The inductive invariant.                                                *)

Reviews == {"pending", "accepted", "rejected"}
ArtifactRow ==
    [step : Steps, port : Ports, body : Bodies, review : Reviews, from : Nat]
JournalRow ==
    [state : {"none", "staged", "published", "committed"},
     owner : {"none", "materializer", "gc"}, art : Nat]
DriverRecord ==
    [at : Places, i : Nat, ids : Seq(Nat), keys : SUBSET Ports, old : [Ports -> Nat]]

Types ==
    /\ run \in [Steps -> RunStates] /\ force \in [Steps -> BOOLEAN]
    /\ step \in [Steps -> {"none", "queued", "running", "succeeded", "failed", "skipped"}]
    /\ task \in [Steps -> {"none", "result_ready", "completed"}]
    /\ result \in [Steps -> [Ports -> Bodies]]
    /\ late \subseteq Steps /\ expired \subseteq Steps /\ disk \subseteq Bodies
    /\ outputs \in [Steps -> [Ports -> Nat]]
    /\ journal \in [Steps -> [Ports -> JournalRow]]
    /\ artifacts \in Seq(ArtifactRow) /\ cache \in Seq(Nat)
    /\ driver \in [Drivers -> DriverRecord]
    /\ denied \in [Steps -> SUBSET Nat]

\* Artifact a was made for port p of step s.
IsOf(a, s, p) == a \in DOMAIN artifacts /\ Row(a).step = s /\ Row(a).port = p

\* Outputs, journals and the cache entry name rows that were made for them;
\* a provider's result is in its journal, and a journal has a paid task.
Books ==
    /\ \A s \in Steps, p \in Ports :
          /\ outputs[s][p] # 0 => IsOf(outputs[s][p], s, p)
          /\ journal[s][p].art # 0 => IsOf(journal[s][p].art, s, p)
          /\ journal[s][p] = NoJournal \/ task[s] # "none"
          /\ step[s] = "succeeded" => outputs[s][p] # 0
    /\ cache = <<>> \/ (Len(cache) = LastPort /\ \A p \in Ports :
                            cache[p] \in DOMAIN artifacts /\ Row(cache[p]).port = p)
    /\ \A a \in DOMAIN artifacts :
          /\ run[Row(a).step] # "none"
          /\ Row(a).from = 0 => journal[Row(a).step][Row(a).port].art = a

\* Who is rejected stays so, and no row of a run is a copy of a row that was
\* rejected before the run began.
Denials ==
    /\ \A s \in Steps : \A a \in denied[s] :
          a \in DOMAIN artifacts /\ Row(a).review = "rejected"
    /\ \A a \in DOMAIN artifacts : Row(a).from \notin denied[Row(a).step]

\* What an executor holds: sources for its ports, of which it has looked at
\* the first ones; or rows of its own step, for the first ports or for all.
Sources(d, from) ==
    \A p \in from .. LastPort :
        driver[d].ids[p] \in DOMAIN artifacts /\ Row(driver[d].ids[p]).port = p
Looked(d, from, to) == \A p \in from .. to : driver[d].ids[p] \notin denied[StepOf(d)]
Made(d, to) == \A p \in 1 .. to : IsOf(driver[d].ids[p], StepOf(d), p)

DriverOK(d) ==
    LET q == driver[d] IN
    /\ q.at \notin Stopped => run[StepOf(d)] # "none"
    /\ q.at \in {"source", "copy", "port", "link", "unlink", "sha", "row"} => q.i \in Ports
    /\ q.at \in {"source", "copy", "hit", "finalize", "commit", "refresh"} =>
          Len(q.ids) = LastPort
    /\ q.at = "source" => Sources(d, 1) /\ Looked(d, 1, q.i - 1)
    /\ q.at = "copy" => Made(d, q.i - 1) /\ Sources(d, q.i) /\ Looked(d, q.i, LastPort)
    /\ q.at \in {"hit", "finalize", "commit", "refresh"} => Made(d, LastPort)
    /\ q.at \in {"port", "link", "unlink", "sha", "row"} =>
          /\ Len(q.ids) = q.i - 1 /\ Made(d, q.i - 1)
          /\ \A p \in Ports : q.old[p] # 0 => IsOf(q.old[p], StepOf(d), p)

Executors == \A d \in Drivers : DriverOK(d)

\* The journals claimed for removal: none of the rows there were then has
\* the file, and its name does not change any more.
Claims ==
    /\ DOMAIN recovery = {"at", "todo", "claimed"}
    /\ recovery.at \in {"commit", "claim", "remove", "complete", "up", "failed"}
    /\ recovery.at = "claim" => recovery.todo \subseteq Keys
    /\ recovery.at = "complete" => recovery.todo \subseteq recovery.claimed
    /\ recovery.claimed \subseteq Keys \X Nat
    /\ \A c \in recovery.claimed :
          /\ task[c[1][1]] # "none" /\ c[2] <= Len(artifacts)
          /\ \A a \in 1 .. c[2] : Row(a).body # File(c[1])

ReviewOK ==
    /\ DOMAIN review = {"at", "art", "to", "rerun", "n"}
    /\ review.at # "idle" => review.art \in DOMAIN artifacts /\ review.to \in {"accepted", "rejected"}

Inv == Types /\ Books /\ Denials /\ Executors /\ Claims /\ ReviewOK

-----------------------------------------------------------------------------
(* What a step does, in brief.                                             *)

\* Rows are appended or reviewed; a rejected one stays rejected.
RowsGrow ==
    /\ Len(artifacts) <= Len(artifacts')
    /\ \A a \in DOMAIN artifacts :
          /\ a \in DOMAIN artifacts'
          /\ artifacts'[a].step = artifacts[a].step /\ artifacts'[a].port = artifacts[a].port
          /\ artifacts'[a].body = artifacts[a].body /\ artifacts'[a].from = artifacts[a].from
          /\ artifacts[a].review = "rejected" => artifacts'[a].review = "rejected"

\* Of the executors only d changes.
Turn(d) ==
    /\ driver' \in [Drivers -> DriverRecord]
    /\ \A e \in Drivers \ {d} : driver'[e] = driver[e]

RunsGoOn ==
    /\ run' \in [Steps -> RunStates]
    /\ \A s \in Steps : run[s] # "none" => run'[s] # "none"

StepsGoOn ==
    /\ step' \in [Steps -> {"none", "queued", "running", "succeeded", "failed", "skipped"}]
    /\ \A s \in Steps : step'[s] = "succeeded" => step[s] = "succeeded"

TasksGoOn ==
    /\ task' \in [Steps -> {"none", "result_ready", "completed"}]
    /\ \A s \in Steps : task[s] # "none" => task'[s] # "none"

LEMMA PortsAre == /\ 1 \in Ports /\ LastPort \in Ports /\ LastPort \in Nat
                  /\ \A p \in Ports : p \in Nat /\ p >= 1 /\ p <= LastPort
                  /\ \A p \in Ports : p # LastPort => p + 1 \in Ports
                  /\ \A p \in Nat : p >= 1 /\ p <= LastPort => p \in Ports
  BY ArtifactsAssumption DEF Ports

LEMMA StepOfDriver == \A d \in Drivers : StepOf(d) \in Steps
  BY DEF Drivers, StepOf

LEMMA NewIsRecord ==
    /\ NewDriver \in DriverRecord
    /\ \A place \in Places : [NewDriver EXCEPT !.at = place] \in DriverRecord
                            /\ [NewDriver EXCEPT !.at = place].at = place
<1> DEFINE zeros == [p \in Ports |-> 0]
           nothing == <<>>
<1>1. nothing \in Seq(Nat) /\ zeros \in [Ports -> Nat]
  OBVIOUS
<1>2. NewDriver = [at |-> "idle", i |-> 1, ids |-> nothing, keys |-> {}, old |-> zeros]
  BY DEF NewDriver
<1> HIDE DEF zeros, nothing
<1>3. "idle" \in Places
  BY DEF Places, Stopped
<1> QED BY <1>1, <1>2, <1>3 DEF DriverRecord

LEMMA MoveTo ==
    ASSUME driver \in [Drivers -> DriverRecord], NEW d \in Drivers,
           NEW q \in DriverRecord, Move(d, q)
    PROVE  /\ Turn(d)
           /\ q.at \in Stopped => driver'[d].at \in Stopped
           /\ q.at \notin Stopped => driver'[d] = q
<1>1. q.at \in Places
  BY DEF DriverRecord
<1>2. CASE q.at \in Stopped
  <2> DEFINE n == [NewDriver EXCEPT !.at = q.at]
  <2>1. n \in DriverRecord
    BY <1>1, NewIsRecord
  <2>2. n.at = q.at
    BY DEF NewDriver
  <2>3. driver' = [driver EXCEPT ![d] = n]
    BY <1>2 DEF Move
  <2> HIDE DEF n
  <2> QED BY <1>2, <2>1, <2>2, <2>3 DEF Turn
<1>3. CASE q.at \notin Stopped
  <2>1. driver' = [driver EXCEPT ![d] = q]
    BY <1>3 DEF Move
  <2> QED BY <1>3, <2>1 DEF Turn
<1> QED BY <1>2, <1>3

LEMMA GotoTo ==
    ASSUME driver \in [Drivers -> DriverRecord], NEW d \in Drivers,
           NEW place \in Places, Goto(d, place)
    PROVE  /\ Turn(d)
           /\ place \in Stopped => driver'[d].at \in Stopped
           /\ place \notin Stopped =>
                 /\ driver'[d].at = place /\ driver'[d].i = driver[d].i
                 /\ driver'[d].ids = driver[d].ids /\ driver'[d].old = driver[d].old
<1> DEFINE q == [driver[d] EXCEPT !.at = place]
<1>1. driver[d] \in DriverRecord
  OBVIOUS
<1>2. /\ q \in DriverRecord
      /\ q.at = place /\ q.i = driver[d].i /\ q.ids = driver[d].ids /\ q.old = driver[d].old
  BY <1>1 DEF DriverRecord
<1>3. Move(d, q)
  BY DEF Goto
<1> HIDE DEF q
<1> QED BY <1>2, <1>3, MoveTo

LEMMA ErrsTo ==
    ASSUME Types, NEW d \in Drivers, Errs(d)
    PROVE  Turn(d) /\ driver'[d].at \in Stopped /\ RunsGoOn /\ StepsGoOn
<1>1. StepOf(d) \in Steps
  BY StepOfDriver
<1>2. Turn(d) /\ driver'[d].at \in Stopped
  BY GotoTo DEF Errs, Types, Places, Stopped
<1>3. RunsGoOn
  BY <1>1 DEF Errs, EndRun, RunsGoOn, Types, RunStates
<1>4. StepsGoOn
  BY <1>1 DEF Errs, EndStep, StepsGoOn, Types
<1> QED BY <1>2, <1>3, <1>4

LEMMA InterruptsTo ==
    ASSUME Types, NEW d \in Drivers, Interrupts(d)
    PROVE  Turn(d) /\ driver'[d].at \in Stopped /\ RunsGoOn /\ StepsGoOn
<1>1. StepOf(d) \in Steps
  BY StepOfDriver
<1>2. Turn(d) /\ driver'[d].at \in Stopped
  BY GotoTo DEF Interrupts, Types, Places, Stopped
<1>3. RunsGoOn
  BY <1>1 DEF Interrupts, EndRun, RunsGoOn, Types, RunStates
<1>4. StepsGoOn
  BY <1>1 DEF Interrupts, EndStep, StepsGoOn, Types
<1> QED BY <1>2, <1>3, <1>4

LEMMA GoesOnTo ==
    ASSUME Types, GoesOn
    PROVE  RunsGoOn /\ StepsGoOn
  BY DEF GoesOn, RunsGoOn, StepsGoOn, Types

LEMMA SameRows == ASSUME UNCHANGED artifacts, artifacts \in Seq(ArtifactRow) PROVE RowsGrow
  BY DEF RowsGrow

LEMMA RowIs ==
    ASSUME artifacts \in Seq(ArtifactRow), NEW a \in DOMAIN artifacts
    PROVE  /\ a \in Nat /\ a >= 1 /\ a <= Len(artifacts)
           /\ artifacts[a] \in ArtifactRow
           /\ DOMAIN artifacts[a] = {"step", "port", "body", "review", "from"}
           /\ artifacts[a].step \in Steps /\ artifacts[a].port \in Ports
           /\ artifacts[a].body \in Bodies /\ artifacts[a].review \in Reviews
           /\ artifacts[a].from \in Nat
<1>1. artifacts[a] \in ArtifactRow /\ a \in 1 .. Len(artifacts)
  OBVIOUS
<1> QED BY <1>1 DEF ArtifactRow

\* Artifact a will have been made for port p of step s.
WillBeOf(a, s, p) ==
    a \in DOMAIN artifacts' /\ artifacts'[a].step = s /\ artifacts'[a].port = p

LEMMA IsOfStays ==
    ASSUME RowsGrow
    PROVE  \A a, s, p : IsOf(a, s, p) => IsOf(a, s, p)' /\ WillBeOf(a, s, p)
  BY DEF RowsGrow, IsOf, WillBeOf, Row

LEMMA WillBe == \A a, s, p : WillBeOf(a, s, p) <=> IsOf(a, s, p)'
  BY DEF IsOf, WillBeOf, Row

\* What is not touched by a step of d: the invariant of the others, of the
\* claims and of the review.
LEMMA OthersKept ==
    ASSUME Executors, RowsGrow, RunsGoOn, denied' = denied, NEW d \in Drivers,
           Turn(d), DriverOK(d)'
    PROVE  Executors'
<1> SUFFICES ASSUME NEW e \in Drivers, e # d PROVE DriverOK(e)'
  BY DEF Executors
<1>1. driver'[e] = driver[e] /\ DriverOK(e) /\ StepOf(e) \in Steps
  BY StepOfDriver DEF Turn, Executors
<1>2. \A from : Sources(e, from) => Sources(e, from)'
  BY <1>1 DEF Sources, RowsGrow, Row
<1>3. \A from, to : Looked(e, from, to) => Looked(e, from, to)'
  BY <1>1 DEF Looked
<1>4. \A to : Made(e, to) => Made(e, to)'
  BY <1>1, IsOfStays DEF Made
<1>5. run[StepOf(e)] # "none" => run'[StepOf(e)] # "none"
  BY <1>1 DEF RunsGoOn
<1> QED BY <1>1, <1>2, <1>3, <1>4, <1>5, IsOfStays DEF DriverOK

LEMMA ClaimsKept ==
    ASSUME Claims, RowsGrow, TasksGoOn, recovery' = recovery,
           artifacts \in Seq(ArtifactRow), artifacts' \in Seq(ArtifactRow),
           \A k \in Keys : task[k[1]] # "none" => File(k)' = File(k)
    PROVE  Claims'
<1>1. ASSUME NEW c \in recovery.claimed
      PROVE  /\ task'[c[1][1]] # "none" /\ c[2] <= Len(artifacts')
             /\ \A a \in 1 .. c[2] : artifacts'[a].body # File(c[1])'
  <2>1. c[1] \in Keys /\ c[1][1] \in Steps /\ c[2] \in Nat
    BY <1>1 DEF Claims, Keys
  <2>2. task[c[1][1]] # "none" /\ c[2] <= Len(artifacts)
    BY <1>1 DEF Claims
  <2>3. \A a \in 1 .. c[2] : a \in DOMAIN artifacts /\ artifacts[a].body # File(c[1])
    BY <1>1, <2>1, <2>2 DEF Claims, Row
  <2>4. task'[c[1][1]] # "none"
    BY <2>1, <2>2 DEF TasksGoOn
  <2> QED BY <2>1, <2>2, <2>3, <2>4 DEF RowsGrow
<1> QED BY <1>1 DEF Claims, Row

\* A step of an executor that adds no row and books nothing.
LEMMA PlainStep ==
    ASSUME Inv, NEW d \in Drivers, Turn(d), DriverOK(d)', Here(d), RunsGoOn, StepsGoOn, TasksGoOn,
           UNCHANGED <<outputs, journal, artifacts, cache>>, disk' \subseteq Bodies
    PROVE  Inv'
<1>1. RowsGrow
  BY SameRows DEF Inv, Types
<1>2. Types'
  BY DEF Inv, Types, Here, Turn, RunsGoOn, StepsGoOn, TasksGoOn, clock
<1>3. Books'
  <2>1. Books /\ \A a, t, p : IsOf(a, t, p)' <=> IsOf(a, t, p)
    BY DEF Inv, IsOf, Row
  <2>2. ASSUME NEW t \in Steps, NEW p \in Ports
        PROVE  /\ outputs'[t][p] # 0 => IsOf(outputs[t][p], t, p)'
               /\ journal'[t][p].art # 0 => IsOf(journal[t][p].art, t, p)'
               /\ journal'[t][p] = NoJournal \/ task'[t] # "none"
               /\ step'[t] = "succeeded" => outputs'[t][p] # 0
    BY <2>1 DEF Books, StepsGoOn, TasksGoOn
  <2>3. ASSUME NEW a \in DOMAIN artifacts'
        PROVE  /\ run'[artifacts'[a].step] # "none"
               /\ artifacts'[a].from = 0 =>
                     journal'[artifacts'[a].step][artifacts'[a].port].art = a
    <3>1. artifacts[a].step \in Steps
      BY <2>3, RowIs DEF Inv, Types
    <3> QED BY <2>1, <3>1 DEF Books, RunsGoOn, Row
  <2>4. cache' = <<>> \/ (Len(cache') = LastPort /\ \A p \in Ports :
                            cache'[p] \in DOMAIN artifacts' /\ artifacts'[cache'[p]].port = p)
    BY <2>1 DEF Books, Row
  <2> QED BY <2>2, <2>3, <2>4 DEF Books, Row
<1>4. Denials'
  BY DEF Inv, Denials, Here, Row
<1>5. Executors'
  BY <1>1, OthersKept DEF Inv, Here
<1>6. Claims'
  BY <1>1, ClaimsKept DEF Inv, Here, Types, File
<1>7. ReviewOK'
  BY DEF Inv, ReviewOK, Here
<1> QED BY <1>2, <1>3, <1>4, <1>5, <1>6, <1>7 DEF Inv

\* Nothing but the executor, and what it says of step and run.
LEMMA LeavesWell ==
    ASSUME Inv, NEW d \in Drivers, Errs(d) \/ Interrupts(d), Here(d), TasksGoOn,
           UNCHANGED <<outputs, journal, artifacts, cache>>, disk' \subseteq Bodies
    PROVE  Inv'
<1>1. Turn(d) /\ driver'[d].at \in Stopped /\ RunsGoOn /\ StepsGoOn
  BY ErrsTo, InterruptsTo DEF Inv
<1>2. DriverOK(d)'
  BY <1>1 DEF DriverOK, Stopped
<1> QED BY <1>1, <1>2, PlainStep

LEMMA SameMarks ==
    ASSUME Types
    PROVE  /\ UNCHANGED run => RunsGoOn
           /\ UNCHANGED step => StepsGoOn
           /\ UNCHANGED task => TasksGoOn
           /\ UNCHANGED disk => disk' \subseteq Bodies
  BY DEF Types, RunsGoOn, StepsGoOn, TasksGoOn

LEMMA RecordOf ==
    ASSUME Types, NEW d \in Drivers
    PROVE  /\ driver[d] \in DriverRecord /\ StepOf(d) \in Steps
           /\ DOMAIN driver[d] = {"at", "i", "ids", "keys", "old"}
           /\ driver[d].at \in Places /\ driver[d].i \in Nat /\ driver[d].ids \in Seq(Nat)
           /\ driver[d].keys \subseteq Ports /\ driver[d].old \in [Ports -> Nat]
<1>1. driver[d] \in DriverRecord
  BY DEF Types
<1> QED BY <1>1, StepOfDriver DEF DriverRecord

-----------------------------------------------------------------------------
(* The cache.                                                              *)

LEMMA LookupKeeps == ASSUME Inv, NEW d \in Drivers, Lookup(d) PROVE Inv'
<1>1. Types /\ At(d, "lookup") /\ OnlyDriver(d) /\ run[StepOf(d)] # "none"
  <2>1. DriverOK(d)
    BY DEF Inv, Executors
  <2> QED BY <2>1 DEF Inv, Lookup, DriverOK, At, Stopped
<1>2. RunsGoOn /\ StepsGoOn /\ TasksGoOn /\ disk' \subseteq Bodies
  BY <1>1, SameMarks DEF OnlyDriver
<1>3. Turn(d) /\ DriverOK(d)'
  <2>1. CASE Goto(d, "execute")
    <3>1. Turn(d) /\ driver'[d].at = "execute"
      BY <1>1, <2>1, GotoTo DEF Types, Places, Stopped
    <3> QED BY <1>1, <3>1 DEF DriverOK, OnlyDriver
  <2>2. CASE ~Goto(d, "execute")
    <3> DEFINE q == [driver[d] EXCEPT !.at = "source", !.i = 1, !.ids = cache]
    <3>1. Move(d, q) /\ cache # <<>>
      BY <2>2 DEF Lookup
    <3>2. Len(cache) = LastPort /\ cache \in Seq(Nat)
          /\ \A p \in Ports : cache[p] \in DOMAIN artifacts /\ Row(cache[p]).port = p
      BY <3>1 DEF Inv, Books, Types
    <3>3. q \in DriverRecord /\ q.at = "source" /\ q.i = 1 /\ q.ids = cache
      BY <1>1, <3>2, RecordOf DEF DriverRecord, Places
    <3> HIDE DEF q
    <3>4. Turn(d) /\ driver'[d] = q
      BY <1>1, <3>1, <3>3, MoveTo DEF Types, Stopped
    <3>5. Sources(d, 1)' /\ Looked(d, 1, 0)'
      BY <1>1, <3>2, <3>3, <3>4 DEF Sources, Looked, OnlyDriver, Ports, Row
    <3> QED BY <1>1, <3>2, <3>3, <3>4, <3>5, PortsAre DEF DriverOK, OnlyDriver
  <2> QED BY <2>1, <2>2
<1> QED BY <1>1, <1>2, <1>3, PlainStep DEF OnlyDriver

LEMMA SourceKeeps == ASSUME Inv, NEW d \in Drivers, Source(d) PROVE Inv'
<1> DEFINE q == driver[d]
           s == StepOf(d)
<1>1. Types /\ At(d, "source") /\ OnlyDriver(d)
  BY DEF Inv, Source
<1>2. /\ run[s] # "none" /\ q.i \in Ports /\ Len(q.ids) = LastPort
      /\ Sources(d, 1) /\ Looked(d, 1, q.i - 1)
  <2>1. DriverOK(d)
    BY DEF Inv, Executors
  <2> QED BY <1>1, <2>1 DEF DriverOK, At, Stopped
<1>3. RunsGoOn /\ StepsGoOn /\ TasksGoOn /\ disk' \subseteq Bodies
  BY <1>1, SameMarks DEF OnlyDriver
<1>4. /\ run' = run /\ artifacts' = artifacts /\ denied' = denied
  BY <1>1 DEF OnlyDriver, Here
<1>5. q \in DriverRecord /\ q.i \in Nat /\ q.i >= 1 /\ q.i <= LastPort /\ LastPort \in Nat
      /\ s \in Steps /\ DOMAIN q = {"at", "i", "ids", "keys", "old"} /\ q.at = "source"
      /\ q.ids \in Seq(Nat) /\ q.keys \subseteq Ports /\ q.old \in [Ports -> Nat]
  BY <1>1, <1>2, PortsAre, RecordOf DEF At
<1>6. CASE ~Usable(q.ids[q.i])
  <2> DEFINE r == [q EXCEPT !.at = "execute", !.ids = <<>>]
  <2>1. Move(d, r)
    BY <1>6 DEF Source
  <2>2. r \in DriverRecord /\ r.at = "execute"
    <3>1. <<>> \in Seq(Nat)
      OBVIOUS
    <3> QED BY <1>5, <3>1 DEF DriverRecord, Places
  <2> HIDE DEF r
  <2>3. Turn(d) /\ driver'[d].at = "execute"
    BY <1>1, <2>1, <2>2, MoveTo DEF Types, Stopped
  <2>4. DriverOK(d)'
    BY <1>2, <1>4, <2>3 DEF DriverOK
  <2> QED BY <1>1, <1>3, <2>3, <2>4, PlainStep DEF OnlyDriver
<1>7. CASE Usable(q.ids[q.i])
  <2>1. q.ids[q.i] \notin denied[s]
    BY <1>5, <1>7 DEF Usable, Inv, Denials
  <2>2. Looked(d, 1, q.i)
    BY <1>2, <1>5, <2>1 DEF Looked
  <2>3. CASE q.i < Len(q.ids)
    <3> DEFINE r == [q EXCEPT !.i = @ + 1]
    <3>1. Move(d, r)
      BY <1>7, <2>3 DEF Source
    <3>2. r \in DriverRecord /\ r.at = "source" /\ r.i = q.i + 1 /\ r.ids = q.ids
      <4>1. q.i + 1 \in Nat
        BY <1>5
      <4>2. r = [q EXCEPT !.i = q.i + 1]
        OBVIOUS
      <4> QED BY <1>5, <4>1, <4>2 DEF DriverRecord
    <3> HIDE DEF r
    <3>3. Turn(d) /\ driver'[d] = r
      BY <1>1, <3>1, <3>2, MoveTo DEF Types, Stopped
    <3>4. r.i \in Ports /\ r.i - 1 = q.i
      BY <1>2, <1>5, <2>3, <3>2, PortsAre
    <3>5. Sources(d, 1)' /\ Looked(d, 1, driver[d].i - 1)'
      BY <1>2, <1>4, <2>2, <3>2, <3>3, <3>4 DEF Sources, Looked, Row
    <3>6. Len(r.ids) = LastPort
      BY <1>2, <3>2
    <3> QED
      <4>1. DriverOK(d)'
        BY <1>2, <1>4, <3>2, <3>3, <3>4, <3>5, <3>6 DEF DriverOK
      <4> QED BY <1>1, <1>3, <3>3, <4>1, PlainStep DEF OnlyDriver
  <2>4. CASE ~(q.i < Len(q.ids))
    <3> DEFINE r == [q EXCEPT !.at = "copy", !.i = 1]
    <3>1. Move(d, r)
      BY <1>7, <2>4 DEF Source
    <3>2. r \in DriverRecord /\ r.at = "copy" /\ r.i = 1 /\ r.ids = q.ids
      BY <1>5 DEF DriverRecord, Places
    <3> HIDE DEF r
    <3>3. Turn(d) /\ driver'[d] = r
      BY <1>1, <3>1, <3>2, MoveTo DEF Types, Stopped
    <3>4. q.i = LastPort
      BY <1>2, <1>5, <2>4
    <3>5. Made(d, 0)' /\ Sources(d, 1)' /\ Looked(d, 1, LastPort)'
      BY <1>2, <1>4, <2>2, <3>2, <3>3, <3>4 DEF Sources, Looked, Made, Row
    <3>6. Made(d, driver[d].i - 1)' /\ Sources(d, driver[d].i)' /\ Looked(d, driver[d].i, LastPort)'
      BY <3>2, <3>3, <3>5
    <3>7. DriverOK(d)'
      BY <1>2, <1>4, <3>2, <3>3, <3>6, PortsAre DEF DriverOK
    <3> QED BY <1>1, <1>3, <3>3, <3>7, PlainStep DEF OnlyDriver
  <2> QED BY <2>3, <2>4
<1> QED BY <1>6, <1>7

-----------------------------------------------------------------------------
(* Steps that write rows or books.                                         *)

LEMMA FrameKeeps ==
    ASSUME Inv, NEW d \in Drivers, Turn(d), DriverOK(d)', Here(d), RunsGoOn, TasksGoOn, RowsGrow,
           Types', Books', Denials'
    PROVE  Inv'
<1>1. Executors'
  BY OthersKept DEF Inv, Here
<1>2. Claims'
  BY ClaimsKept DEF Inv, Here, Types, File
<1>3. ReviewOK'
  <2>1. review' = review /\ ReviewOK
    BY DEF Inv, Here
  <2>2. review.art \in DOMAIN artifacts => review.art \in DOMAIN artifacts'
    BY DEF RowsGrow
  <2> QED BY <2>1, <2>2 DEF ReviewOK
<1> QED BY <1>1, <1>2, <1>3 DEF Inv

LEMMA BooksStep ==
    ASSUME Types, Books, RowsGrow, RunsGoOn, TasksGoOn, artifacts' \in Seq(ArtifactRow),
           \A s \in Steps, p \in Ports :
              /\ outputs'[s][p] = outputs[s][p] \/ WillBeOf(outputs'[s][p], s, p)
              /\ \/ journal'[s][p].art = journal[s][p].art
                 \/ journal[s][p].art = 0 /\ WillBeOf(journal'[s][p].art, s, p)
              /\ journal'[s][p] = journal[s][p] \/ journal'[s][p] = NoJournal \/ task'[s] # "none"
              /\ step'[s] = "succeeded" => outputs'[s][p] # 0,
           \/ cache' = cache
           \/ Len(cache') = LastPort /\ \A p \in Ports :
                 cache'[p] \in DOMAIN artifacts' /\ artifacts'[cache'[p]].port = p,
           \A a \in DOMAIN artifacts' \ DOMAIN artifacts :
              /\ run'[artifacts'[a].step] # "none"
              /\ artifacts'[a].from = 0 => journal'[artifacts'[a].step][artifacts'[a].port].art = a
    PROVE  Books'
<1>1. ASSUME NEW s \in Steps, NEW p \in Ports
      PROVE  /\ outputs'[s][p] # 0 => WillBeOf(outputs'[s][p], s, p)
             /\ journal'[s][p].art # 0 => WillBeOf(journal'[s][p].art, s, p)
             /\ journal'[s][p] = NoJournal \/ task'[s] # "none"
             /\ step'[s] = "succeeded" => outputs'[s][p] # 0
  <2>1. outputs'[s][p] # 0 => WillBeOf(outputs'[s][p], s, p)
    BY IsOfStays DEF Books
  <2>2. journal'[s][p].art # 0 => WillBeOf(journal'[s][p].art, s, p)
    BY IsOfStays DEF Books
  <2>3. journal'[s][p] = NoJournal \/ task'[s] # "none"
    BY DEF Books, TasksGoOn
  <2> QED BY <2>1, <2>2, <2>3
<1>2. ASSUME NEW a \in DOMAIN artifacts'
      PROVE  /\ run'[artifacts'[a].step] # "none"
             /\ artifacts'[a].from = 0 =>
                   journal'[artifacts'[a].step][artifacts'[a].port].art = a
  <2>1. CASE a \in DOMAIN artifacts
    <3>1. artifacts[a].step \in Steps /\ artifacts[a].port \in Ports /\ a >= 1 /\ a \in Nat
      BY <2>1, RowIs DEF Types
    <3>2. /\ run[artifacts[a].step] # "none"
          /\ artifacts[a].from = 0 => journal[artifacts[a].step][artifacts[a].port].art = a
      BY <2>1 DEF Books, Row
    <3>3. /\ artifacts'[a].step = artifacts[a].step /\ artifacts'[a].port = artifacts[a].port
          /\ artifacts'[a].from = artifacts[a].from
      BY <2>1 DEF RowsGrow
    <3>4. artifacts[a].from = 0 => journal'[artifacts[a].step][artifacts[a].port].art = a
      BY <3>1, <3>2
    <3> QED BY <3>1, <3>2, <3>3, <3>4 DEF RunsGoOn
  <2> QED BY <1>2, <2>1
<1>3. cache' = <<>> \/ (Len(cache') = LastPort /\ \A p \in Ports :
                          cache'[p] \in DOMAIN artifacts' /\ artifacts'[cache'[p]].port = p)
  BY DEF Books, RowsGrow, Row
<1> QED BY <1>1, <1>2, <1>3, WillBe DEF Books, Row

LEMMA DenialsStep ==
    ASSUME Denials, RowsGrow, denied' = denied,
           \A a \in DOMAIN artifacts' \ DOMAIN artifacts :
              artifacts'[a].from \notin denied[artifacts'[a].step]
    PROVE  Denials'
<1>1. ASSUME NEW s \in Steps, NEW a \in denied'[s]
      PROVE  a \in DOMAIN artifacts' /\ artifacts'[a].review = "rejected"
  BY <1>1 DEF Denials, RowsGrow, Row
<1>2. ASSUME NEW a \in DOMAIN artifacts'
      PROVE  artifacts'[a].from \notin denied'[artifacts'[a].step]
  BY DEF Denials, RowsGrow, Row
<1> QED BY <1>1, <1>2 DEF Denials, Row

LEMMA Appends ==
    ASSUME artifacts \in Seq(ArtifactRow), NEW r \in ArtifactRow, artifacts' = Append(artifacts, r)
    PROVE  /\ artifacts' \in Seq(ArtifactRow) /\ RowsGrow
           /\ Len(artifacts) + 1 \in DOMAIN artifacts' /\ artifacts'[Len(artifacts) + 1] = r
           /\ \A a \in DOMAIN artifacts' \ DOMAIN artifacts : a = Len(artifacts) + 1
           /\ Len(artifacts) \in Nat
<1>1. /\ artifacts' \in Seq(ArtifactRow) /\ Len(artifacts') = Len(artifacts) + 1
      /\ \A a \in DOMAIN artifacts : a \in DOMAIN artifacts' /\ artifacts'[a] = artifacts[a]
      /\ artifacts'[Len(artifacts) + 1] = r
      /\ DOMAIN artifacts' = 1 .. Len(artifacts) + 1 /\ DOMAIN artifacts = 1 .. Len(artifacts)
      /\ Len(artifacts) \in Nat
  OBVIOUS
<1>2. RowsGrow
  BY <1>1 DEF RowsGrow
<1> QED BY <1>1, <1>2

LEMMA OthersGoOn == ASSUME Types, UNCHANGED <<run, step, task>>
                    PROVE  RunsGoOn /\ StepsGoOn /\ TasksGoOn
  BY DEF Types, RunsGoOn, StepsGoOn, TasksGoOn

LEMMA CopyKeeps == ASSUME Inv, NEW d \in Drivers, Copy(d) PROVE Inv'
<1> DEFINE q == driver[d]
           s == StepOf(d)
           a == q.ids[q.i]
           n == Len(artifacts) + 1
           r == Artifact(s, Row(a).port, Row(a).body, a)
           m == [q EXCEPT !.ids[q.i] = n, !.i = @ + 1,
                          !.at = IF q.i = Len(q.ids) THEN "hit" ELSE "copy"]
<1>1. /\ Types /\ Books /\ Denials /\ q.at = "copy" /\ Here(d)
      /\ artifacts' = Append(artifacts, r) /\ Move(d, m)
      /\ UNCHANGED <<run, step, task, outputs, journal, cache, disk>>
  BY DEF Inv, Copy, At
<1>2. /\ run[s] # "none" /\ q.i \in Ports /\ Len(q.ids) = LastPort
      /\ Made(d, q.i - 1) /\ Sources(d, q.i) /\ Looked(d, q.i, LastPort)
  <2>1. DriverOK(d)
    BY DEF Inv, Executors
  <2> QED BY <1>1, <2>1 DEF DriverOK, Stopped
<1>3. /\ q.i \in Nat /\ q.i >= 1 /\ q.i <= LastPort /\ LastPort \in Nat
      /\ s \in Steps /\ DOMAIN q = {"at", "i", "ids", "keys", "old"}
      /\ q.ids \in Seq(Nat) /\ q.keys \subseteq Ports /\ q.old \in [Ports -> Nat]
  BY <1>1, <1>2, PortsAre, RecordOf
<1>4. /\ a \in DOMAIN artifacts /\ artifacts[a].port = q.i /\ a \notin denied[s]
  BY <1>2, <1>3 DEF Sources, Looked, Row
<1>5. /\ r \in ArtifactRow /\ r.step = s /\ r.port = q.i /\ r.from = a /\ a # 0
  <2>1. artifacts[a].body \in Bodies /\ a \in Nat /\ a >= 1
    BY <1>1, <1>4, RowIs DEF Types
  <2> QED BY <1>2, <1>3, <1>4, <2>1 DEF Artifact, ArtifactRow, Row, Reviews
<1>6. /\ artifacts' \in Seq(ArtifactRow) /\ RowsGrow
      /\ n \in DOMAIN artifacts' /\ artifacts'[n] = r /\ n \in Nat
      /\ \A b \in DOMAIN artifacts' \ DOMAIN artifacts : b = n
  <2> HIDE DEF r
  <2> QED BY <1>1, <1>5, Appends DEF Types
<1>7. /\ m \in DriverRecord /\ m.at = (IF q.i = LastPort THEN "hit" ELSE "copy")
      /\ m.i = q.i + 1 /\ m.ids = [q.ids EXCEPT ![q.i] = n]
  <2> DEFINE ids == [q.ids EXCEPT ![q.i] = n]
             at == IF q.i = LastPort THEN "hit" ELSE "copy"
  <2>1. ids \in Seq(Nat) /\ at \in Places /\ q.i + 1 \in Nat
    BY <1>2, <1>3, <1>6 DEF Places
  <2>2. m = [q EXCEPT !.ids = ids, !.i = q.i + 1, !.at = at]
    BY <1>2, <1>3
  <2>3. q \in DriverRecord
    BY <1>1, RecordOf
  <2> HIDE DEF ids, at, m
  <2>4. m \in DriverRecord /\ m.at = at /\ m.i = q.i + 1 /\ m.ids = ids
    BY <1>3, <2>1, <2>2, <2>3 DEF DriverRecord
  <2> QED BY <2>4 DEF ids, at
<1>8. /\ Len(m.ids) = LastPort /\ m.ids[q.i] = n
      /\ \A p \in Ports : p # q.i => m.ids[p] = q.ids[p]
  BY <1>2, <1>3, <1>7 DEF Ports
<1> HIDE DEF m, r, n
<1>9. Turn(d) /\ driver'[d] = m
  BY <1>1, <1>7, MoveTo DEF Types, Stopped
<1>10. RunsGoOn /\ TasksGoOn
  BY <1>1, OthersGoOn
<1>11. Types'
  BY <1>1, <1>6, <1>9 DEF Types, Here, Turn, clock
<1>12. Books'
  <2>1. n \notin DOMAIN artifacts => run'[artifacts'[n].step] # "none"
    BY <1>1, <1>2, <1>5, <1>6
  <2>2. \A t \in Steps, p \in Ports : step[t] = "succeeded" => outputs[t][p] # 0
    BY <1>1 DEF Books
  <2>3. artifacts'[n].from # 0
    BY <1>5, <1>6
  <2> QED BY <1>1, <1>6, <1>10, <2>1, <2>2, <2>3, BooksStep
<1>13. Denials'
  BY <1>1, <1>4, <1>5, <1>6, DenialsStep DEF Here
<1>14. DriverOK(d)'
  <2>1. ASSUME NEW p \in 1 .. q.i PROVE WillBeOf(m.ids[p], s, p)
    <3>1. CASE p = q.i
      BY <1>5, <1>6, <1>8, <3>1, <1>2 DEF WillBeOf
    <3>2. CASE p # q.i
      <4>1. p \in 1 .. q.i - 1 /\ p \in Ports
        BY <1>3, <3>2 DEF Ports
      <4>2. IsOf(q.ids[p], s, p) /\ m.ids[p] = q.ids[p]
        BY <1>2, <1>8, <3>2, <4>1 DEF Made
      <4> QED BY <1>6, <4>2, IsOfStays
    <3> QED BY <3>1, <3>2
  <2>2. CASE q.i = LastPort
    <3>1. Made(d, LastPort)'
      BY <1>9, <2>1, <2>2, WillBe DEF Made
    <3>2. driver'[d].at = "hit" /\ Len(driver'[d].ids) = LastPort /\ run'[s] # "none"
      BY <1>1, <1>2, <1>7, <1>8, <1>9, <2>2
    <3> QED BY <3>1, <3>2 DEF DriverOK
  <2>3. CASE q.i # LastPort
    <3>1. m.at = "copy" /\ m.i = q.i + 1 /\ Len(m.ids) = LastPort /\ run'[s] # "none"
      BY <1>1, <1>2, <1>7, <1>8, <2>3
    <3>2. q.i + 1 \in Ports /\ q.i + 1 - 1 = q.i
      BY <1>2, <1>3, <2>3, PortsAre
    <3>3. \A p \in q.i + 1 .. LastPort :
              /\ p \in Ports /\ p # q.i /\ p \in q.i .. LastPort
              /\ m.ids[p] = q.ids[p]
      BY <1>3, <1>8 DEF Ports
    <3>6. Made(d, driver[d].i - 1)'
      <4>2. m.i - 1 = q.i
        BY <1>3, <3>1, <3>2
      <4>1. \A p \in 1 .. m.i - 1 : WillBeOf(m.ids[p], s, p)
        BY <2>1, <4>2
      <4> QED BY <1>9, <4>1 DEF Made, WillBeOf, IsOf, Row
    <3>4. Sources(d, driver[d].i)'
      <4>1. \A p \in m.i .. LastPort :
               m.ids[p] \in DOMAIN artifacts' /\ artifacts'[m.ids[p]].port = p
        BY <1>2, <1>6, <3>1, <3>3 DEF Sources, RowsGrow, Row
      <4> QED BY <1>9, <4>1 DEF Sources, Row
    <3>5. Looked(d, driver[d].i, LastPort)'
      BY <1>1, <1>2, <1>9, <3>1, <3>3 DEF Looked, Here
    <3> QED BY <1>9, <3>1, <3>2, <3>4, <3>5, <3>6 DEF DriverOK
  <2> QED BY <2>2, <2>3
<1> QED BY <1>1, <1>6, <1>9, <1>10, <1>11, <1>12, <1>13, <1>14, FrameKeeps

\* The ports of a step are mapped to rows made for them.
LEMMA MappingStep ==
    ASSUME Types, UNCHANGED artifacts, NEW s \in Steps, NEW ids,
           \A p \in Ports : IsOf(ids[p], s, p),
           outputs' = [outputs EXCEPT ![s] = Mapping(ids)]
    PROVE  /\ outputs' \in [Steps -> [Ports -> Nat]]
           /\ \A t \in Steps, p \in Ports :
                 outputs'[t][p] = outputs[t][p] \/ WillBeOf(outputs'[t][p], t, p)
           /\ \A p \in Ports : outputs'[s][p] # 0
           /\ \A t \in Steps \ {s} : outputs'[t] = outputs[t]
<1>1. \A p \in Ports : ids[p] \in Nat /\ ids[p] # 0 /\ WillBeOf(ids[p], s, p)
  <2>1. SUFFICES ASSUME NEW p \in Ports
                 PROVE  ids[p] \in Nat /\ ids[p] # 0 /\ WillBeOf(ids[p], s, p)
    OBVIOUS
  <2>2. ids[p] \in DOMAIN artifacts /\ artifacts[ids[p]].step = s /\ artifacts[ids[p]].port = p
    BY DEF IsOf, Row
  <2> QED BY <2>2, RowIs DEF Types, WillBeOf
<1>2. Mapping(ids) \in [Ports -> Nat] /\ \A p \in Ports : Mapping(ids)[p] = ids[p]
  BY <1>1 DEF Mapping
<1> HIDE DEF Mapping
<1> QED BY <1>1, <1>2 DEF Types

LEMMA HitKeeps == ASSUME Inv, NEW d \in Drivers, Hit(d) PROVE Inv'
<1> DEFINE s == StepOf(d)
           ids == driver[d].ids
<1>1. /\ Types /\ Books /\ Denials /\ driver[d].at = "hit" /\ Here(d)
      /\ UNCHANGED <<task, journal, artifacts, cache, disk>> /\ s \in Steps
  BY StepOfDriver DEF Inv, Hit, At
<1>2. CASE Conflicts(s, ids) \/ ~MayFinalize(s)
  <2>1. Errs(d) /\ UNCHANGED outputs
    BY <1>2 DEF Hit
  <2>2. TasksGoOn /\ disk' \subseteq Bodies
    BY <1>1, SameMarks
  <2> QED BY <1>1, <2>1, <2>2, LeavesWell
<1>3. CASE ~(Conflicts(s, ids) \/ ~MayFinalize(s))
  <2>1. /\ step' = [step EXCEPT ![s] = "succeeded"]
        /\ outputs' = [outputs EXCEPT ![s] = Mapping(ids)]
        /\ Goto(d, "done") /\ UNCHANGED run
    BY <1>3 DEF Hit
  <2>2. \A p \in Ports : IsOf(ids[p], s, p)
    <3>1. DriverOK(d)
      BY DEF Inv, Executors
    <3> QED BY <1>1, <3>1 DEF DriverOK, Made, Ports
  <2>3. RunsGoOn /\ TasksGoOn /\ RowsGrow
    BY <1>1, <2>1, SameMarks, SameRows DEF Types
  <2>4. Turn(d) /\ DriverOK(d)'
    <3>1. Turn(d) /\ driver'[d].at \in Stopped
      BY <1>1, <2>1, GotoTo DEF Types, Places, Stopped
    <3> QED BY <3>1 DEF DriverOK, Stopped
  <2>5. /\ outputs' \in [Steps -> [Ports -> Nat]]
        /\ \A t \in Steps, p \in Ports :
              outputs'[t][p] = outputs[t][p] \/ WillBeOf(outputs'[t][p], t, p)
        /\ \A p \in Ports : outputs'[s][p] # 0
        /\ \A t \in Steps \ {s} : outputs'[t] = outputs[t]
    BY <1>1, <2>1, <2>2, MappingStep
  <2>6. Types'
    BY <1>1, <2>1, <2>4, <2>5 DEF Types, Here, Turn, clock
  <2>7. Books'
    <3>1. ASSUME NEW t \in Steps, NEW p \in Ports, step'[t] = "succeeded"
          PROVE  outputs'[t][p] # 0
      BY <1>1, <2>1, <2>5, <3>1 DEF Books, Types
    <3> QED BY <1>1, <2>3, <2>5, <3>1, BooksStep DEF Types
  <2>8. Denials'
    BY <1>1, <2>3, DenialsStep DEF Here
  <2> QED BY <1>1, <2>3, <2>4, <2>6, <2>7, <2>8, FrameKeeps
<1> QED BY <1>2, <1>3

-----------------------------------------------------------------------------
(* The provider's result, and the rounds that materialize it.              *)

Making == {"port", "link", "unlink", "sha", "row"}

\* Executors that begin something new, or go on with the port they are at.
LEMMA BeginsWell ==
    ASSUME Inv, NEW d \in Drivers, driver[d].at \notin Stopped, RunsGoOn,
           NEW place \in {"execute", "round"}, Goto(d, place)
    PROVE  Turn(d) /\ DriverOK(d)'
<1>1. Turn(d) /\ driver'[d].at = place
  BY GotoTo DEF Inv, Types, Places, Stopped
<1>2. run[StepOf(d)] # "none" /\ StepOf(d) \in Steps
  BY StepOfDriver DEF Inv, Executors, DriverOK
<1> QED BY <1>1, <1>2 DEF DriverOK, RunsGoOn

LEMMA GoesOnWell ==
    ASSUME Inv, NEW d \in Drivers, driver[d].at \in Making, RunsGoOn, RowsGrow,
           NEW place \in Making, Goto(d, place)
    PROVE  Turn(d) /\ DriverOK(d)'
<1>1. Turn(d) /\ driver'[d].at = place /\ driver'[d].i = driver[d].i
      /\ driver'[d].ids = driver[d].ids /\ driver'[d].old = driver[d].old
  BY GotoTo DEF Inv, Types, Places, Stopped, Making
<1>2. /\ run[StepOf(d)] # "none" /\ StepOf(d) \in Steps /\ driver[d].i \in Ports
      /\ Len(driver[d].ids) = driver[d].i - 1 /\ Made(d, driver[d].i - 1)
      /\ \A p \in Ports : driver[d].old[p] # 0 => IsOf(driver[d].old[p], StepOf(d), p)
  BY StepOfDriver DEF Inv, Executors, DriverOK, Making, Stopped
<1>3. Made(d, driver[d].i - 1)'
  <2>1. \A p \in 1 .. driver[d].i - 1 : WillBeOf(driver[d].ids[p], StepOf(d), p)
    BY <1>2, IsOfStays DEF Made
  <2> QED BY <1>1, <2>1 DEF Made, WillBeOf, IsOf, Row
<1>4. \A p \in Ports : driver'[d].old[p] # 0 => WillBeOf(driver'[d].old[p], StepOf(d), p)
  BY <1>1, <1>2, IsOfStays
<1>5. \A p \in Ports : (driver[d].old[p] # 0 => IsOf(driver[d].old[p], StepOf(d), p))'
  BY <1>4 DEF WillBeOf, IsOf, Row
<1>6. run'[StepOf(d)] # "none"
  BY <1>2 DEF RunsGoOn
<1> QED BY <1>1, <1>2, <1>3, <1>5, <1>6 DEF DriverOK, Making

LEMMA ResumedKeeps == ASSUME Inv, NEW d \in Drivers, Resumed(d) PROVE Inv'
<1>1. /\ Types /\ driver[d].at = "execute" /\ Here(d) /\ StepOf(d) \in Steps
      /\ UNCHANGED <<task, outputs, journal, artifacts, cache, disk>>
  BY StepOfDriver DEF Inv, Resumed, At
<1>2. TasksGoOn /\ disk' \subseteq Bodies
  BY <1>1, SameMarks
<1>3. CASE Errs(d)
  BY <1>1, <1>2, <1>3, LeavesWell
<1>4. CASE ~Errs(d)
  <2>1. step' = [step EXCEPT ![StepOf(d)] = "running"] /\ Goto(d, "round") /\ UNCHANGED run
    BY <1>4 DEF Resumed
  <2>2. StepsGoOn /\ RunsGoOn
    BY <1>1, <2>1 DEF StepsGoOn, RunsGoOn, Types
  <2>3. Turn(d) /\ DriverOK(d)'
    BY <1>1, <2>1, <2>2, BeginsWell DEF Stopped
  <2> QED BY <1>1, <1>2, <2>2, <2>3, PlainStep
<1> QED BY <1>3, <1>4

LEMMA ProvidedKeeps == ASSUME Inv, NEW d \in Drivers, Provided(d) PROVE Inv'
<1> DEFINE s == StepOf(d)
<1>1. /\ Types /\ Books /\ Denials /\ driver[d].at = "execute" /\ s \in Steps /\ task[s] = "none"
      /\ UNCHANGED <<run, force, outputs, journal, artifacts, cache, clock, disk, recovery,
                     mine, review, faults, crashes, denied>>
      /\ task' = [task EXCEPT ![s] = "result_ready"]
      /\ step' = [step EXCEPT ![s] = "running"] /\ Goto(d, "round")
  BY StepOfDriver DEF Inv, Provided, At
<1>2. PICK f \in [Ports -> Bodies] : result' = [result EXCEPT ![s] = f]
  BY DEF Provided, Payloads
<1>3. RunsGoOn /\ StepsGoOn /\ TasksGoOn /\ RowsGrow
  BY <1>1, SameRows DEF RunsGoOn, StepsGoOn, TasksGoOn, Types
<1>4. Turn(d) /\ DriverOK(d)'
  BY <1>1, <1>3, BeginsWell DEF Stopped
<1>5. Types'
  BY <1>1, <1>2, <1>4 DEF Types, Turn, clock
<1>6. Books'
  BY <1>1, <1>3, BooksStep DEF Books, StepsGoOn, Types
<1>7. Denials'
  BY <1>1, <1>3, DenialsStep
<1>8. Executors'
  BY <1>1, <1>3, <1>4, OthersKept DEF Inv
<1>9. Claims'
  <2>1. \A k \in Keys : task[k[1]] # "none" => result'[k[1]][k[2]] = result[k[1]][k[2]]
    BY <1>1, <1>2 DEF Types, Keys
  <2> QED BY <1>1, <1>3, <1>5, <2>1, ClaimsKept DEF Inv, Types, File
<1>10. ReviewOK'
  BY <1>1 DEF Inv, ReviewOK
<1> QED BY <1>5, <1>6, <1>7, <1>8, <1>9, <1>10 DEF Inv

LEMMA FailsWell ==
    ASSUME Inv, NEW d \in Drivers, FinalizeFailure(d), Here(d),
           UNCHANGED <<outputs, journal, artifacts, cache, disk>>
    PROVE  Inv'
<1>1. Types /\ StepOf(d) \in Steps /\ Errs(d)
  BY StepOfDriver DEF Inv, FinalizeFailure
<1>2. TasksGoOn
  BY <1>1 DEF FinalizeFailure, TasksGoOn, Types
<1>3. disk' \subseteq Bodies
  BY <1>1, SameMarks
<1> QED BY <1>1, <1>2, <1>3, LeavesWell

LEMMA RoundKeeps == ASSUME Inv, NEW d \in Drivers, Round(d) PROVE Inv'
<1> DEFINE s == StepOf(d)
           q == driver[d]
           m == [q EXCEPT !.at = "port", !.i = 1, !.ids = <<>>, !.keys = {}, !.old = outputs[s]]
<1>1. /\ Types /\ Books /\ q.at = "round" /\ Here(d) /\ s \in Steps
      /\ UNCHANGED <<outputs, journal, artifacts, cache, disk>>
  BY StepOfDriver DEF Inv, Round, At
<1>2. CASE FinalizeFailure(d)
  BY <1>1, <1>2, FailsWell
<1>3. CASE Interrupts(d) /\ UNCHANGED task
  BY <1>1, <1>3, LeavesWell, SameMarks
<1>4. CASE Move(d, m) /\ UNCHANGED <<run, task, step>>
  <2>1. RunsGoOn /\ StepsGoOn /\ TasksGoOn /\ disk' \subseteq Bodies
    BY <1>1, <1>4, SameMarks
  <2>2. m \in DriverRecord /\ m.at = "port" /\ m.i = 1 /\ m.ids = <<>> /\ m.old = outputs[s]
    <3> DEFINE nothing == <<>>
    <3>1. nothing \in Seq(Nat) /\ outputs[s] \in [Ports -> Nat] /\ q \in DriverRecord
          /\ "port" \in Places /\ DOMAIN q = {"at", "i", "ids", "keys", "old"}
      BY <1>1, RecordOf DEF Types, Places
    <3>2. m = [q EXCEPT !.at = "port", !.i = 1, !.ids = nothing, !.keys = {}, !.old = outputs[s]]
      OBVIOUS
    <3> HIDE DEF nothing, m
    <3>3. /\ m \in DriverRecord /\ m.at = "port" /\ m.i = 1 /\ m.ids = nothing
          /\ m.old = outputs[s]
      BY <3>1, <3>2 DEF DriverRecord
    <3> QED BY <3>3 DEF nothing
  <2> HIDE DEF m
  <2>3. Turn(d) /\ driver'[d] = m
    BY <1>1, <1>4, <2>2, MoveTo DEF Types, Stopped
  <2>4. run[s] # "none"
    BY <1>1 DEF Inv, Executors, DriverOK, Stopped
  <2>5. /\ driver'[d].at = "port" /\ driver'[d].i = 1 /\ Len(driver'[d].ids) = 1 - 1
        /\ driver'[d].old = outputs[s] /\ 1 \in Ports /\ run'[s] # "none"
    BY <1>4, <2>2, <2>3, <2>4, PortsAre
  <2>6. Made(d, driver[d].i - 1)'
    BY <2>5 DEF Made
  <2>7. \A p \in Ports : (driver[d].old[p] # 0 => IsOf(driver[d].old[p], s, p))'
    BY <1>1, <2>5 DEF Books, IsOf, Row
  <2>8. DriverOK(d)'
    BY <2>5, <2>6, <2>7 DEF DriverOK
  <2> QED BY <1>1, <2>1, <2>3, <2>8, PlainStep
<1> QED BY <1>2, <1>3, <1>4 DEF Round

\* A round that is repeated, or ends the step.
LEMMA AgainKeeps ==
    ASSUME Inv, NEW d \in Drivers, driver[d].at \notin Stopped, Again(d), Here(d),
           UNCHANGED <<task, outputs, journal, artifacts, cache>>, disk' \subseteq Bodies
    PROVE  Inv'
<1>1. TasksGoOn
  BY SameMarks DEF Inv
<1>2. CASE Errs(d)
  BY <1>1, <1>2, LeavesWell
<1>3. CASE ~Errs(d)
  <2>1. Goto(d, "round") /\ RunsGoOn /\ StepsGoOn
    BY <1>3, GoesOnTo DEF Again, Inv
  <2>2. Turn(d) /\ DriverOK(d)'
    BY <2>1, BeginsWell
  <2> QED BY <1>1, <2>1, <2>2, PlainStep
<1> QED BY <1>2, <1>3

\* The next place at the same port.
LEMMA PlaceKeeps ==
    ASSUME Inv, NEW d \in Drivers, driver[d].at \in Making, NEW place \in Making,
           Goto(d, place), GoesOn, Here(d),
           UNCHANGED <<task, outputs, journal, artifacts, cache>>, disk' \subseteq Bodies
    PROVE  Inv'
<1>1. Types
  BY DEF Inv
<1>2. RunsGoOn /\ StepsGoOn /\ TasksGoOn /\ RowsGrow
  BY <1>1, GoesOnTo, SameMarks, SameRows DEF Types
<1>3. Turn(d) /\ DriverOK(d)'
  BY <1>2, GoesOnWell
<1> QED BY <1>2, <1>3, PlainStep

LEMMA BodyIs ==
    ASSUME Types, NEW d \in Drivers, driver[d].i \in Ports
    PROVE  Body(d) \in Bodies
  BY StepOfDriver DEF Types, Body

LEMMA MakingIs ==
    ASSUME Inv, NEW d \in Drivers, driver[d].at \in Making
    PROVE  /\ driver[d].i \in Ports /\ run[StepOf(d)] # "none" /\ StepOf(d) \in Steps
           /\ Len(driver[d].ids) = driver[d].i - 1 /\ Made(d, driver[d].i - 1)
           /\ \A p \in Ports : driver[d].old[p] # 0 => IsOf(driver[d].old[p], StepOf(d), p)
           /\ driver[d].at \notin Stopped /\ Body(d) \in Bodies
<1>1. /\ driver[d].i \in Ports /\ run[StepOf(d)] # "none" /\ StepOf(d) \in Steps
      /\ Len(driver[d].ids) = driver[d].i - 1 /\ Made(d, driver[d].i - 1)
      /\ \A p \in Ports : driver[d].old[p] # 0 => IsOf(driver[d].old[p], StepOf(d), p)
      /\ driver[d].at \notin Stopped
  BY StepOfDriver DEF Inv, Executors, DriverOK, Making, Stopped
<1> QED BY <1>1, BodyIs DEF Inv

LEMMA LinkKeeps == ASSUME Inv, NEW d \in Drivers, Link(d) PROVE Inv'
<1>1. /\ driver[d].at = "link" /\ Here(d) /\ Types
      /\ UNCHANGED <<task, outputs, journal, artifacts, cache>>
  BY DEF Inv, Link, At
<1>2. Body(d) \in Bodies /\ driver[d].at \notin Stopped /\ driver[d].at \in Making
  BY <1>1, MakingIs DEF Making
<1>3. disk' \subseteq Bodies
  BY <1>1, <1>2 DEF Link, Types
<1>4. CASE Again(d)
  BY <1>1, <1>2, <1>3, <1>4, AgainKeeps
<1>5. CASE Goto(d, "unlink") /\ GoesOn
  BY <1>1, <1>2, <1>3, <1>5, PlaceKeeps DEF Making
<1> QED BY <1>4, <1>5 DEF Link

LEMMA UnlinkKeeps == ASSUME Inv, NEW d \in Drivers, Unlink(d) PROVE Inv'
<1>1. /\ driver[d].at = "unlink" /\ Here(d) /\ Types
      /\ UNCHANGED <<task, outputs, journal, artifacts, cache>>
  BY DEF Inv, Unlink, At
<1>2. driver[d].at \notin Stopped /\ driver[d].at \in Making
  BY <1>1 DEF Making, Stopped
<1>3. disk' \subseteq Bodies
  BY <1>1 DEF Unlink, Types
<1>4. CASE Again(d)
  BY <1>1, <1>2, <1>3, <1>4, AgainKeeps
<1>5. CASE Goto(d, "sha") /\ GoesOn
  BY <1>1, <1>2, <1>3, <1>5, PlaceKeeps DEF Making
<1> QED BY <1>4, <1>5 DEF Unlink

LEMMA HashKeeps == ASSUME Inv, NEW d \in Drivers, Hash(d) PROVE Inv'
<1>1. /\ driver[d].at = "sha" /\ Here(d) /\ Types
      /\ UNCHANGED <<task, outputs, journal, artifacts, cache, disk>>
  BY DEF Inv, Hash, At
<1>2. driver[d].at \notin Stopped /\ driver[d].at \in Making
  BY <1>1 DEF Making, Stopped
<1>3. disk' \subseteq Bodies
  BY <1>1, SameMarks
<1>4. CASE Again(d)
  BY <1>1, <1>2, <1>3, <1>4, AgainKeeps
<1>5. CASE Goto(d, "row") /\ GoesOn
  BY <1>1, <1>2, <1>3, <1>5, PlaceKeeps DEF Making
<1> QED BY <1>4, <1>5 DEF Hash

\* A port has its row: on to the next one, or to the end.
LEMMA TakeTo ==
    ASSUME Inv, NEW d \in Drivers, driver[d].at \in Making, RowsGrow, RunsGoOn,
           NEW a \in Nat, NEW keys \in SUBSET Ports, Take(d, a, keys),
           WillBeOf(a, StepOf(d), driver[d].i)
    PROVE  Turn(d) /\ DriverOK(d)'
<1> DEFINE q == driver[d]
           s == StepOf(d)
           ids == Append(q.ids, a)
           at == IF q.i = LastPort THEN "finalize" ELSE "port"
           m == [q EXCEPT !.at = at, !.i = @ + 1, !.ids = Append(@, a), !.keys = @ \cup keys]
<1>1. Types /\ Move(d, m)
  BY DEF Inv, Take
<1>2. /\ q.i \in Ports /\ run[s] # "none" /\ s \in Steps
      /\ Len(q.ids) = q.i - 1 /\ Made(d, q.i - 1)
      /\ \A p \in Ports : q.old[p] # 0 => IsOf(q.old[p], s, p)
  BY MakingIs
<1>3. /\ q.i \in Nat /\ q.i >= 1 /\ q.i <= LastPort /\ LastPort \in Nat
      /\ DOMAIN q = {"at", "i", "ids", "keys", "old"} /\ q \in DriverRecord
      /\ q.ids \in Seq(Nat) /\ q.keys \subseteq Ports /\ q.old \in [Ports -> Nat]
  BY <1>1, <1>2, PortsAre, RecordOf
<1>4. /\ ids \in Seq(Nat) /\ Len(ids) = q.i /\ ids[q.i] = a
      /\ \A p \in 1 .. q.i - 1 : ids[p] = q.ids[p]
  BY <1>2, <1>3
<1>5. /\ m \in DriverRecord /\ m.at = at /\ m.i = q.i + 1 /\ m.ids = ids /\ m.old = q.old
  <2>1. at \in Places /\ q.i + 1 \in Nat /\ q.keys \cup keys \in SUBSET Ports
    BY <1>3 DEF Places
  <2>2. m = [q EXCEPT !.at = at, !.i = q.i + 1, !.ids = ids, !.keys = q.keys \cup keys]
    OBVIOUS
  <2> HIDE DEF ids, at, m
  <2> QED BY <1>3, <1>4, <2>1, <2>2 DEF DriverRecord
<1>6. \A p \in 1 .. q.i : WillBeOf(ids[p], s, p)
  <2> SUFFICES ASSUME NEW p \in 1 .. q.i PROVE WillBeOf(ids[p], s, p)
    OBVIOUS
  <2>1. CASE p = q.i
    BY <1>4, <2>1
  <2>2. CASE p # q.i
    <3>1. p \in 1 .. q.i - 1
      BY <1>3, <2>2
    <3>2. ids[p] = q.ids[p] /\ IsOf(q.ids[p], s, p)
      BY <1>2, <1>4, <3>1 DEF Made
    <3> QED BY <3>2, IsOfStays
  <2> QED BY <2>1, <2>2
<1> HIDE DEF m, ids
<1>7. Turn(d) /\ driver'[d] = m
  BY <1>1, <1>5, MoveTo DEF Types, Stopped
<1>8. run'[s] # "none"
  BY <1>2 DEF RunsGoOn
<1>9. CASE q.i = LastPort
  <2>1. Made(d, LastPort)'
    BY <1>5, <1>6, <1>7, <1>9 DEF Made, WillBeOf, IsOf, Row
  <2> QED BY <1>4, <1>5, <1>7, <1>8, <1>9, <2>1 DEF DriverOK
<1>10. CASE q.i # LastPort
  <2>1. q.i + 1 \in Ports /\ m.i - 1 = q.i
    BY <1>2, <1>3, <1>5, <1>10, PortsAre
  <2>2. Made(d, driver[d].i - 1)'
    <3>1. \A p \in 1 .. m.i - 1 : WillBeOf(m.ids[p], s, p)
      BY <1>5, <1>6, <2>1
    <3> QED BY <1>7, <3>1 DEF Made, WillBeOf, IsOf, Row
  <2>3. \A p \in Ports : m.old[p] # 0 => WillBeOf(m.old[p], s, p)
    BY <1>2, <1>5, IsOfStays
  <2>4. \A p \in Ports : (driver[d].old[p] # 0 => IsOf(driver[d].old[p], s, p))'
    BY <1>7, <2>3 DEF WillBeOf, IsOf, Row
  <2>5. m.at = "port" /\ m.i \in Ports /\ Len(m.ids) = m.i - 1
    BY <1>4, <1>5, <1>10, <2>1
  <2> QED BY <1>7, <1>8, <2>2, <2>4, <2>5 DEF DriverOK
<1> QED BY <1>7, <1>9, <1>10

LEMMA TakeKeeps ==
    ASSUME Inv, NEW d \in Drivers, driver[d].at \in Making, NEW a, NEW keys \in SUBSET Ports,
           Take(d, a, keys), IsOf(a, StepOf(d), driver[d].i), GoesOn, Here(d),
           UNCHANGED <<task, outputs, journal, artifacts, cache, disk>>
    PROVE  Inv'
<1>1. Types
  BY DEF Inv
<1>2. RunsGoOn /\ StepsGoOn /\ TasksGoOn /\ RowsGrow /\ disk' \subseteq Bodies
  BY <1>1, GoesOnTo, SameMarks, SameRows DEF Types
<1>3. a \in DOMAIN artifacts
  BY DEF IsOf
<1>4. a \in Nat
  BY <1>1, <1>3, RowIs DEF Types
<1>5. Turn(d) /\ DriverOK(d)'
  BY <1>2, <1>4, IsOfStays, TakeTo
<1> QED BY <1>2, <1>5, PlainStep

\* A journal that is written anew, its artifact apart.
LEMMA JournalStep ==
    ASSUME Inv, NEW d \in Drivers, Turn(d), DriverOK(d)', Here(d), RunsGoOn, StepsGoOn,
           UNCHANGED <<task, outputs, artifacts, cache, disk>>,
           journal' \in [Steps -> [Ports -> JournalRow]],
           \A s \in Steps, p \in Ports :
              /\ journal'[s][p].art = journal[s][p].art
              /\ journal'[s][p] = journal[s][p] \/ task[s] # "none"
    PROVE  Inv'
<1>1. Types /\ Books /\ Denials
  BY DEF Inv
<1>2. TasksGoOn /\ RowsGrow
  BY <1>1, SameMarks, SameRows DEF Types
<1>3. Types'
  BY <1>1 DEF Types, Here, Turn, RunsGoOn, StepsGoOn, clock
<1>4. Books'
  BY <1>1, <1>2, BooksStep DEF Books, StepsGoOn, Types
<1>5. Denials'
  BY <1>1, <1>2, DenialsStep DEF Here
<1> QED BY <1>1, <1>2, <1>3, <1>4, <1>5, FrameKeeps

LEMMA PortKeeps == ASSUME Inv, NEW d \in Drivers, Port(d) PROVE Inv'
<1> DEFINE s == StepOf(d)
           q == driver[d]
           p == q.i
<1>1. /\ q.at = "port" /\ Here(d) /\ Types /\ Books
      /\ UNCHANGED <<task, outputs, artifacts, cache, disk>>
  BY DEF Inv, Port, At
<1>2. q.at \notin Stopped /\ q.at \in Making
  BY <1>1 DEF Making, Stopped
<1>3. p \in Ports /\ s \in Steps /\ (q.old[p] # 0 => IsOf(q.old[p], s, p))
  BY <1>2, MakingIs
<1>4. CASE Interrupts(d) /\ UNCHANGED journal
  BY <1>1, <1>4, LeavesWell, SameMarks
<1>5. CASE q.old[p] # 0 /\ Take(d, q.old[p], {}) /\ GoesOn /\ UNCHANGED journal
  <2>1. {} \in SUBSET Ports
    OBVIOUS
  <2> QED BY <1>1, <1>2, <1>3, <1>5, <2>1, TakeKeeps
<1>6. CASE journal[s][p].art # 0 /\ Take(d, journal[s][p].art, {p}) /\ GoesOn /\ UNCHANGED journal
  <2>1. {p} \in SUBSET Ports /\ IsOf(journal[s][p].art, s, p)
    BY <1>1, <1>3, <1>6 DEF Books
  <2> QED BY <1>1, <1>2, <1>6, <2>1, TakeKeeps
<1>7. CASE /\ Ready(s)
           /\ journal' = [journal EXCEPT ![s][p] = IF @ = NoJournal THEN Staged ELSE @]
           /\ Goto(d, IF Body(d) \in disk THEN "sha" ELSE "link")
           /\ GoesOn
  <2>1. RunsGoOn /\ StepsGoOn /\ RowsGrow
    BY <1>1, <1>7, GoesOnTo, SameRows DEF Types
  <2>2. Turn(d) /\ DriverOK(d)'
    <3> DEFINE place == IF Body(d) \in disk THEN "sha" ELSE "link"
    <3>1. place \in Making /\ Goto(d, place)
      BY <1>7 DEF Making
    <3> HIDE DEF place
    <3> QED BY <1>2, <2>1, <3>1, GoesOnWell
  <2>3. /\ journal' \in [Steps -> [Ports -> JournalRow]]
        /\ \A t \in Steps, o \in Ports :
              /\ journal'[t][o].art = journal[t][o].art
              /\ journal'[t][o] = journal[t][o] \/ t = s
    <3> DEFINE r == IF journal[s][p] = NoJournal THEN Staged ELSE journal[s][p]
    <3>1. r \in JournalRow /\ r.art = journal[s][p].art
      BY <1>1, <1>3 DEF Types, JournalRow, Staged, NoJournal
    <3>2. journal' = [journal EXCEPT ![s][p] = r]
      BY <1>7
    <3> HIDE DEF r
    <3> QED BY <1>1, <1>3, <3>1, <3>2 DEF Types
  <2>4. task[s] # "none"
    BY <1>7 DEF Ready
  <2> QED BY <1>1, <2>1, <2>2, <2>3, <2>4, JournalStep
<1> QED BY <1>4, <1>5, <1>6, <1>7 DEF Port

LEMMA PublishKeeps == ASSUME Inv, NEW d \in Drivers, Publish(d) PROVE Inv'
<1> DEFINE s == StepOf(d)
           q == driver[d]
           p == q.i
           n == Len(artifacts) + 1
           r == Artifact(s, p, Body(d), 0)
<1>1. /\ q.at = "row" /\ Here(d) /\ Types /\ Books /\ Denials
      /\ UNCHANGED <<task, outputs, cache, disk>>
  BY DEF Inv, Publish, At
<1>2. q.at \notin Stopped /\ q.at \in Making
  BY <1>1 DEF Making, Stopped
<1>3. p \in Ports /\ s \in Steps /\ Body(d) \in Bodies /\ run[s] # "none"
  BY <1>2, MakingIs
<1>4. CASE Again(d) /\ UNCHANGED <<journal, artifacts>>
  BY <1>1, <1>2, <1>4, AgainKeeps, SameMarks
<1>5. CASE /\ KnownArtifact(s, p) # 0 /\ Take(d, KnownArtifact(s, p), {p}) /\ GoesOn
           /\ UNCHANGED <<journal, artifacts>>
  <2>1. {p} \in SUBSET Ports /\ IsOf(KnownArtifact(s, p), s, p)
    BY <1>1, <1>3, <1>5 DEF Books, KnownArtifact
  <2> QED BY <1>1, <1>2, <1>5, <2>1, TakeKeeps
<1>6. CASE /\ journal[s][p].owner = "materializer" /\ KnownArtifact(s, p) = 0
           /\ artifacts' = Append(artifacts, r)
           /\ journal' = [journal EXCEPT ![s][p].state = "published", ![s][p].art = n]
           /\ Take(d, n, {p}) /\ GoesOn
  <2>1. r \in ArtifactRow /\ r.step = s /\ r.port = p /\ r.from = 0
    BY <1>3 DEF Artifact, ArtifactRow, Reviews
  <2>2. /\ artifacts' \in Seq(ArtifactRow) /\ RowsGrow
        /\ n \in DOMAIN artifacts' /\ artifacts'[n] = r /\ n \in Nat
        /\ \A b \in DOMAIN artifacts' \ DOMAIN artifacts : b = n
    <3> HIDE DEF r
    <3> QED BY <1>1, <1>6, <2>1, Appends DEF Types
  <2>3. task[s] # "none" /\ journal[s][p].art = 0
    BY <1>1, <1>3, <1>6 DEF Books, NoJournal, KnownArtifact
  <2>4. PICK j \in JournalRow :
           /\ journal' = [journal EXCEPT ![s][p] = j] /\ j.art = n
    <3> DEFINE j == [journal[s][p] EXCEPT !.state = "published", !.art = n]
    <3>1. journal[s][p] \in JournalRow
      BY <1>1, <1>3 DEF Types
    <3>2. j \in JournalRow /\ j.art = n
      <4> HIDE DEF n
      <4> QED BY <2>2, <3>1 DEF JournalRow
    <3>3. journal' = [journal EXCEPT ![s][p] = j]
      BY <1>6
    <3> QED BY <3>2, <3>3
  <2> HIDE DEF n, r
  <2>5. /\ journal' \in [Steps -> [Ports -> JournalRow]]
        /\ journal'[s][p].art = n
        /\ \A t \in Steps, o \in Ports : journal'[t][o] = journal[t][o] \/ (t = s /\ o = p)
    BY <1>1, <1>3, <2>4 DEF Types
  <2>6. WillBeOf(n, s, p)
    BY <2>1, <2>2 DEF WillBeOf
  <2>7. RunsGoOn /\ StepsGoOn /\ TasksGoOn
    BY <1>1, <1>6, GoesOnTo, SameMarks
  <2>8. Turn(d) /\ DriverOK(d)'
    <3>1. {p} \in SUBSET Ports
      BY <1>3
    <3> QED BY <1>2, <1>6, <2>2, <2>6, <2>7, <3>1, TakeTo
  <2>9. Types'
    BY <1>1, <1>6, <2>2, <2>5, <2>7, <2>8 DEF Types, Here, Turn, GoesOn, clock
  <2>10. Books'
    <3>1. \A t \in Steps, o \in Ports :
             /\ \/ journal'[t][o].art = journal[t][o].art
                \/ journal[t][o].art = 0 /\ WillBeOf(journal'[t][o].art, t, o)
             /\ journal'[t][o] = journal[t][o] \/ journal'[t][o] = NoJournal \/ task'[t] # "none"
      BY <1>1, <2>3, <2>5, <2>6
    <3>2. \A t \in Steps, o \in Ports :
             outputs'[t][o] = outputs[t][o] /\ (step'[t] = "succeeded" => outputs'[t][o] # 0)
      BY <1>1, <2>7 DEF Books, StepsGoOn
    <3>3. run'[artifacts'[n].step] # "none"
          /\ journal'[artifacts'[n].step][artifacts'[n].port].art = n
      BY <1>3, <2>1, <2>2, <2>5, <2>7 DEF RunsGoOn
    <3> QED BY <1>1, <2>2, <2>7, <3>1, <3>2, <3>3, BooksStep
  <2>11. Denials'
    <3>1. \A t \in Steps : 0 \notin denied[t]
      BY <1>1, RowIs DEF Denials, Types
    <3> QED BY <1>1, <1>3, <2>1, <2>2, <3>1, DenialsStep DEF Here
  <2> QED BY <1>1, <2>2, <2>7, <2>8, <2>9, <2>10, <2>11, FrameKeeps
<1> QED BY <1>4, <1>5, <1>6 DEF Publish

\* Executors that hold the rows of all their ports.
Holding == {"finalize", "commit", "refresh"}

LEMMA HoldingIs ==
    ASSUME Inv, NEW d \in Drivers, driver[d].at \in Holding
    PROVE  /\ Len(driver[d].ids) = LastPort /\ Made(d, LastPort) /\ run[StepOf(d)] # "none"
           /\ \A p \in Ports : IsOf(driver[d].ids[p], StepOf(d), p)
           /\ StepOf(d) \in Steps /\ driver[d].at \notin Stopped
<1>1. /\ Len(driver[d].ids) = LastPort /\ Made(d, LastPort) /\ run[StepOf(d)] # "none"
      /\ StepOf(d) \in Steps /\ driver[d].at \notin Stopped
  BY StepOfDriver DEF Inv, Executors, DriverOK, Holding, Stopped
<1> QED BY <1>1 DEF Made, Ports

\* They go on to the next place with the rows they hold.
LEMMA HoldsOn ==
    ASSUME Inv, NEW d \in Drivers, driver[d].at \in Holding, UNCHANGED artifacts, RunsGoOn,
           driver'[d].at \in Holding, driver'[d].ids = driver[d].ids
    PROVE  DriverOK(d)'
<1>1. Len(driver[d].ids) = LastPort /\ Made(d, LastPort) /\ run'[StepOf(d)] # "none"
  BY HoldingIs DEF RunsGoOn
<1>2. Made(d, LastPort)'
  BY <1>1 DEF Made, IsOf, Row
<1> QED BY <1>1, <1>2 DEF DriverOK, Holding

LEMMA FinalizeKeeps == ASSUME Inv, NEW d \in Drivers, Finalize(d) PROVE Inv'
<1> DEFINE s == StepOf(d)
           ids == driver[d].ids
           place == IF driver[d].keys = {} THEN "refresh" ELSE "commit"
<1>1. /\ Types /\ Books /\ Denials /\ driver[d].at = "finalize" /\ Here(d)
      /\ UNCHANGED <<journal, artifacts, cache, disk>>
  BY DEF Inv, Finalize, At
<1>2. /\ \A p \in Ports : IsOf(ids[p], s, p)
      /\ s \in Steps /\ driver[d].at \notin Stopped /\ driver[d].at \in Holding
  BY <1>1, HoldingIs DEF Holding
<1>3. CASE Again(d) /\ UNCHANGED <<task, outputs>>
  BY <1>1, <1>2, <1>3, AgainKeeps, SameMarks
<1>4. CASE Interrupts(d) /\ UNCHANGED <<task, outputs>>
  BY <1>1, <1>4, LeavesWell, SameMarks
<1>5. CASE /\ outputs' = [outputs EXCEPT ![s] = Mapping(ids)]
           /\ step' = [step EXCEPT ![s] = "succeeded"]
           /\ task' = [task EXCEPT ![s] = "completed"]
           /\ Goto(d, place) /\ UNCHANGED run
  <2>1. RunsGoOn /\ TasksGoOn /\ RowsGrow
    BY <1>1, <1>2, <1>5, SameMarks, SameRows DEF Types, TasksGoOn
  <2>2. Turn(d) /\ DriverOK(d)'
    <3>1. place \in Holding /\ place \in Places /\ place \notin Stopped
      BY DEF Holding, Places, Stopped
    <3> HIDE DEF place
    <3>2. Turn(d) /\ driver'[d].at = place /\ driver'[d].ids = driver[d].ids
      BY <1>1, <1>5, <3>1, GotoTo DEF Types
    <3> QED BY <1>1, <1>2, <2>1, <3>1, <3>2, HoldsOn
  <2>3. /\ outputs' \in [Steps -> [Ports -> Nat]]
        /\ \A t \in Steps, p \in Ports :
              outputs'[t][p] = outputs[t][p] \/ WillBeOf(outputs'[t][p], t, p)
        /\ \A p \in Ports : outputs'[s][p] # 0
        /\ \A t \in Steps \ {s} : outputs'[t] = outputs[t]
    BY <1>1, <1>2, <1>5, MappingStep
  <2>4. Types'
    BY <1>1, <1>5, <2>1, <2>2, <2>3 DEF Types, Here, Turn, clock
  <2>5. Books'
    <3>1. ASSUME NEW t \in Steps, NEW p \in Ports, step'[t] = "succeeded"
          PROVE  outputs'[t][p] # 0
      BY <1>1, <1>5, <2>3, <3>1 DEF Books, Types
    <3> QED BY <1>1, <2>1, <2>3, <3>1, BooksStep DEF Types
  <2>6. Denials'
    BY <1>1, <2>1, DenialsStep DEF Here
  <2> QED BY <1>1, <2>1, <2>2, <2>4, <2>5, <2>6, FrameKeeps
<1> QED BY <1>3, <1>4, <1>5 DEF Finalize

LEMMA MarkCommittedKeeps == ASSUME Inv, NEW d \in Drivers, MarkCommitted(d) PROVE Inv'
<1> DEFINE s == StepOf(d)
           q == driver[d]
<1>1. /\ Types /\ Books /\ q.at = "commit" /\ Here(d)
      /\ UNCHANGED <<run, step, task, outputs, artifacts, cache, disk>>
  BY DEF Inv, MarkCommitted, At
<1>2. s \in Steps /\ q.at \in Holding
  BY <1>1, HoldingIs DEF Holding
<1>3. PICK p \in q.keys :
         /\ journal' = [journal EXCEPT ![s][p].state =
                            IF @ = "published" /\ journal[s][p].owner = "materializer"
                            THEN "committed" ELSE @]
         /\ Move(d, [q EXCEPT !.keys = @ \ {p},
                              !.at = IF q.keys = {p} THEN "refresh" ELSE "commit"])
  BY DEF MarkCommitted
<1>4. p \in Ports
  BY <1>1, RecordOf
<1>5. RunsGoOn /\ StepsGoOn
  BY <1>1, OthersGoOn
<1>6. Turn(d) /\ DriverOK(d)'
  <2> DEFINE at == IF q.keys = {p} THEN "refresh" ELSE "commit"
             m == [q EXCEPT !.keys = @ \ {p}, !.at = at]
  <2>1. Move(d, m) /\ at \in Holding /\ at \in Places /\ at \notin Stopped
        /\ m = [q EXCEPT !.keys = q.keys \ {p}, !.at = at]
    BY <1>3 DEF Holding, Places, Stopped
  <2> HIDE DEF at, m
  <2>2. m \in DriverRecord /\ m.at = at /\ m.ids = q.ids
    BY <1>1, <2>1, RecordOf DEF DriverRecord
  <2>3. Turn(d) /\ driver'[d] = m
    BY <1>1, <2>1, <2>2, MoveTo DEF Types
  <2> QED BY <1>1, <1>2, <1>5, <2>1, <2>2, <2>3, HoldsOn
<1>7. /\ journal' \in [Steps -> [Ports -> JournalRow]]
      /\ \A t \in Steps, o \in Ports :
            /\ journal'[t][o].art = journal[t][o].art
            /\ journal'[t][o] = journal[t][o] \/ (t = s /\ o = p /\ journal[s][p] # NoJournal)
  <2> DEFINE j == journal[s][p]
             st == IF j.state = "published" /\ j.owner = "materializer" THEN "committed" ELSE j.state
             r == [j EXCEPT !.state = st]
  <2>1. j \in JournalRow
    BY <1>1, <1>2, <1>4 DEF Types
  <2>2. r \in JournalRow /\ r.art = j.art /\ (r = j \/ j # NoJournal)
    BY <2>1 DEF JournalRow, NoJournal
  <2>3. journal' = [journal EXCEPT ![s][p] = r]
    BY <1>1, <1>2, <1>3, <1>4 DEF Types
  <2> HIDE DEF r
  <2> QED BY <1>1, <1>2, <1>4, <2>2, <2>3 DEF Types
<1> QED BY <1>1, <1>5, <1>6, <1>7, JournalStep DEF Books

LEMMA RefreshKeeps == ASSUME Inv, NEW d \in Drivers, Refresh(d) PROVE Inv'
<1> DEFINE s == StepOf(d)
           ids == driver[d].ids
<1>1. /\ Types /\ Books /\ Denials /\ driver[d].at = "refresh" /\ Here(d)
      /\ UNCHANGED <<task, outputs, journal, artifacts, disk>>
  BY DEF Inv, Refresh, At
<1>2. TasksGoOn /\ RowsGrow /\ disk' \subseteq Bodies
  BY <1>1, SameMarks, SameRows DEF Types
<1>3. CASE (Interrupts(d) \/ Errs(d)) /\ UNCHANGED cache
  BY <1>1, <1>2, <1>3, LeavesWell
<1>4. CASE cache' = ids /\ Goto(d, "done") /\ GoesOn
  <2>1. /\ \A p \in Ports : IsOf(ids[p], s, p)
        /\ Len(ids) = LastPort /\ ids \in Seq(Nat)
    BY <1>1, HoldingIs, RecordOf DEF Holding
  <2>2. RunsGoOn /\ StepsGoOn
    BY <1>1, <1>4, GoesOnTo
  <2>3. Turn(d) /\ DriverOK(d)'
    <3>1. Turn(d) /\ driver'[d].at \in Stopped
      BY <1>1, <1>4, GotoTo DEF Types, Places, Stopped
    <3> QED BY <3>1 DEF DriverOK, Stopped
  <2>4. Types'
    BY <1>1, <1>4, <2>1, <2>2, <2>3 DEF Types, Here, Turn, RunsGoOn, StepsGoOn, clock
  <2>5. Books'
    <3>1. Len(cache') = LastPort /\ \A p \in Ports :
             cache'[p] \in DOMAIN artifacts' /\ artifacts'[cache'[p]].port = p
      BY <1>1, <1>4, <2>1 DEF IsOf, Row
    <3>2. \A t \in Steps, o \in Ports : step'[t] = "succeeded" => outputs'[t][o] # 0
      BY <1>1, <2>2 DEF Books, StepsGoOn
    <3> QED BY <1>1, <1>2, <2>2, <3>1, <3>2, BooksStep DEF Types
  <2>6. Denials'
    BY <1>1, <1>2, DenialsStep DEF Here
  <2> QED BY <1>1, <1>2, <2>2, <2>3, <2>4, <2>5, <2>6, FrameKeeps
<1> QED BY <1>3, <1>4 DEF Refresh

LEMMA DriveKeeps == ASSUME Inv, NEW d \in Drivers, Drive(d) PROVE Inv'
  BY LookupKeeps, SourceKeeps, CopyKeeps, HitKeeps, ProvidedKeeps, ResumedKeeps, RoundKeeps,
     PortKeeps, LinkKeeps, UnlinkKeeps, HashKeeps, PublishKeeps, FinalizeKeeps,
     MarkCommittedKeeps, RefreshKeeps DEF Drive

-----------------------------------------------------------------------------
(* Runs that begin and end, and the review.                                *)

LEMMA StartKeeps ==
    ASSUME Inv, NEW s \in Steps, run[s] = "none", NEW forced \in BOOLEAN, StartRun(s, forced),
           UNCHANGED <<task, result, outputs, journal, artifacts, cache, clock, disk, recovery>>
    PROVE  Types' /\ Books' /\ Denials' /\ Executors' /\ Claims'
<1> DEFINE d == <<s, "live">>
           m == [NewDriver EXCEPT !.at = "lookup"]
<1>1. /\ Types /\ Books /\ Denials /\ Executors /\ Claims
      /\ run' = [run EXCEPT ![s] = "open"] /\ step' = [step EXCEPT ![s] = "queued"]
      /\ force' = [force EXCEPT ![s] = forced] /\ denied' = [denied EXCEPT ![s] = Rejected]
      /\ driver' = [driver EXCEPT ![d] = m]
  BY DEF Inv, StartRun
<1>2. d \in Drivers /\ StepOf(d) = s /\ m \in DriverRecord /\ m.at = "lookup"
  <2>1. "lookup" \in Places
    BY DEF Places
  <2> QED BY <2>1, NewIsRecord DEF Drivers, StepOf
<1> HIDE DEF m, d
<1>3. RunsGoOn /\ StepsGoOn /\ TasksGoOn /\ RowsGrow
  BY <1>1, SameRows DEF Types, RunsGoOn, StepsGoOn, TasksGoOn, RunStates
<1>4. \A a \in DOMAIN artifacts : a \in Nat
  BY <1>1, RowIs DEF Types
<1>5. Types'
  <2>1. driver' \in [Drivers -> DriverRecord]
    BY <1>1, <1>2 DEF Types
  <2>2. denied' \in [Steps -> SUBSET Nat]
    BY <1>1, <1>4 DEF Types, Rejected
  <2> QED BY <1>1, <1>3, <2>1, <2>2 DEF Types, RunsGoOn, StepsGoOn, clock
<1>6. Books'
  BY <1>1, <1>3, BooksStep DEF Books, StepsGoOn, Types
<1>7. Denials'
  <2>1. ASSUME NEW t \in Steps, NEW a \in denied'[t]
        PROVE  a \in DOMAIN artifacts /\ artifacts[a].review = "rejected"
    BY <1>1, <2>1 DEF Denials, Types, Rejected, Row
  <2>2. ASSUME NEW a \in DOMAIN artifacts
        PROVE  artifacts[a].from \notin denied'[artifacts[a].step]
    <3>1. artifacts[a].step \in Steps /\ run[artifacts[a].step] # "none"
      BY <1>1, RowIs DEF Types, Books, Row
    <3>2. artifacts[a].step # s
      BY <3>1
    <3> QED BY <1>1, <3>1, <3>2 DEF Denials, Types, Row
  <2> QED BY <1>1, <2>1, <2>2 DEF Denials, Row
<1>8. Executors'
  <2> SUFFICES ASSUME NEW e \in Drivers PROVE DriverOK(e)'
    BY DEF Executors
  <2>1. CASE e = d
    <3>1. driver'[e].at = "lookup" /\ run'[StepOf(e)] # "none"
      BY <1>1, <1>2, <2>1 DEF Types
    <3> QED BY <3>1 DEF DriverOK
  <2>2. CASE e # d /\ StepOf(e) = s
    <3>1. driver'[e] = driver[e] /\ driver[e].at \in Stopped
      BY <1>1, <2>2 DEF Types, Executors, DriverOK
    <3> QED BY <3>1 DEF DriverOK, Stopped
  <2>3. CASE StepOf(e) # s
    <3>1. driver'[e] = driver[e] /\ DriverOK(e) /\ denied'[StepOf(e)] = denied[StepOf(e)]
          /\ run'[StepOf(e)] = run[StepOf(e)]
      BY <1>1, <1>2, <2>3, StepOfDriver DEF Types, Executors
    <3>2. \A from : Sources(e, from) => Sources(e, from)'
      BY <1>1, <3>1 DEF Sources, Row
    <3>3. \A from, to : Looked(e, from, to) => Looked(e, from, to)'
      BY <3>1 DEF Looked
    <3>4. \A to : Made(e, to) => Made(e, to)'
      BY <1>1, <3>1 DEF Made, IsOf, Row
    <3>5. \A p \in Ports : IsOf(driver[e].old[p], StepOf(e), p)
                          => IsOf(driver[e].old[p], StepOf(e), p)'
      BY <1>1, <3>1 DEF IsOf, Row
    <3> QED BY <3>1, <3>2, <3>3, <3>4, <3>5 DEF DriverOK
  <2> QED BY <2>1, <2>2, <2>3
<1>9. Claims'
  BY <1>1, <1>3, ClaimsKept DEF Types, File
<1> QED BY <1>5, <1>6, <1>7, <1>8, <1>9

LEMMA BeginKeeps == ASSUME Inv, NEW s \in Steps, Begin(s) PROVE Inv'
<1>1. run[s] = "none" /\ StartRun(s, FALSE)
  BY DEF Begin, MayBegin
<1>2. UNCHANGED <<task, result, outputs, journal, artifacts, cache, clock, disk, recovery, review>>
  BY DEF Begin
<1>3. Types' /\ Books' /\ Denials' /\ Executors' /\ Claims'
  BY <1>1, <1>2, StartKeeps
<1>4. ReviewOK'
  BY <1>2 DEF Inv, ReviewOK
<1> QED BY <1>3, <1>4 DEF Inv

\* No executor, row or book changes.
LEMMA RestKept ==
    ASSUME Inv, UNCHANGED <<force, step, result, outputs, journal, artifacts, cache, driver,
                            recovery, review, denied>>,
           RunsGoOn, TasksGoOn, late' \subseteq Steps, expired' \subseteq Steps,
           disk' \subseteq Bodies
    PROVE  Inv'
<1>1. Types /\ Books /\ Denials /\ Executors /\ Claims /\ ReviewOK
  BY DEF Inv
<1>2. RowsGrow /\ StepsGoOn
  BY <1>1, SameRows, SameMarks DEF Types
<1>3. Types'
  BY <1>1 DEF Types, RunsGoOn, TasksGoOn
<1>4. Books'
  BY <1>1, <1>2, BooksStep DEF Books, Types
<1>5. Denials'
  BY <1>1, <1>2, DenialsStep
<1>6. Executors'
  <2> SUFFICES ASSUME NEW e \in Drivers PROVE DriverOK(e)'
    BY DEF Executors
  <2>1. DriverOK(e) /\ StepOf(e) \in Steps
    BY <1>1, StepOfDriver DEF Executors
  <2>2. \A from : Sources(e, from) => Sources(e, from)'
    BY DEF Sources, Row
  <2>3. \A from, to : Looked(e, from, to) => Looked(e, from, to)'
    BY DEF Looked
  <2>4. \A to : Made(e, to) => Made(e, to)'
    BY DEF Made, IsOf, Row
  <2>5. \A p \in Ports : IsOf(driver[e].old[p], StepOf(e), p)
                        => IsOf(driver[e].old[p], StepOf(e), p)'
    BY DEF IsOf, Row
  <2>6. run[StepOf(e)] # "none" => run'[StepOf(e)] # "none"
    BY <2>1 DEF RunsGoOn
  <2> QED BY <2>1, <2>2, <2>3, <2>4, <2>5, <2>6 DEF DriverOK
<1>7. Claims'
  BY <1>1, <1>2, ClaimsKept DEF Types, File
<1>8. ReviewOK'
  BY <1>1 DEF ReviewOK
<1> QED BY <1>3, <1>4, <1>5, <1>6, <1>7, <1>8 DEF Inv

LEMMA StopKeeps == ASSUME Inv, NEW s \in Steps, Stop(s) PROVE Inv'
<1>1. RunsGoOn /\ TasksGoOn /\ late \subseteq Steps /\ expired \subseteq Steps /\ disk \subseteq Bodies
  BY DEF Inv, Types, Stop, RunsGoOn, TasksGoOn, RunStates
<1> QED BY <1>1, RestKept DEF Stop, clock

LEMMA SettleKeeps == ASSUME Inv, NEW s \in Steps, Settle(s) PROVE Inv'
<1>1. RunsGoOn /\ TasksGoOn /\ late \subseteq Steps /\ expired \subseteq Steps /\ disk \subseteq Bodies
  BY DEF Inv, Types, Settle, RunsGoOn, TasksGoOn, RunStates
<1> QED BY <1>1, RestKept DEF Settle, clock

LEMMA TooLateKeeps == ASSUME Inv, NEW s \in Steps, TooLate(s) PROVE Inv'
<1>1. RunsGoOn /\ TasksGoOn /\ late' \subseteq Steps /\ expired \subseteq Steps /\ disk \subseteq Bodies
  BY DEF Inv, Types, TooLate, RunsGoOn, TasksGoOn, rows
<1> QED BY <1>1, RestKept DEF TooLate, rows

LEMMA RunSucceedsKeeps == ASSUME Inv, NEW s \in Steps, RunSucceeds(s) PROVE Inv'
<1>1. PICK d \in Drivers : Goto(d, "idle")
  BY DEF RunSucceeds
<1>2. Types /\ run' = [run EXCEPT ![s] = "over"] /\ Here(d)
      /\ UNCHANGED <<step, task, outputs, journal, artifacts, cache, disk>>
  BY DEF Inv, RunSucceeds, Here, clock
<1>3. RunsGoOn /\ StepsGoOn /\ TasksGoOn /\ disk' \subseteq Bodies
  BY <1>2, SameMarks DEF RunsGoOn, RunStates, Types
<1>4. Turn(d) /\ driver'[d].at \in Stopped
  BY <1>1, <1>2, GotoTo DEF Types, Places, Stopped
<1>5. DriverOK(d)'
  BY <1>4 DEF DriverOK, Stopped
<1> QED BY <1>2, <1>3, <1>4, <1>5, PlainStep

LEMMA RespawnKeeps == ASSUME Inv, NEW s \in Steps, Respawn(s) PROVE Inv'
<1> DEFINE d == <<s, "again">>
           at == IF step[s] = "succeeded" THEN "done" ELSE "lookup"
           m == [NewDriver EXCEPT !.at = at]
<1>1. Types /\ run[s] # "none" /\ Move(d, m) /\ OnlyDriver(d)
  BY DEF Inv, Respawn
<1>2. d \in Drivers /\ StepOf(d) = s
  BY DEF Drivers, StepOf
<1>3. m \in DriverRecord /\ m.at = at /\ at \in {"done", "lookup"}
  <2>1. at \in Places
    BY DEF Places, Stopped
  <2> HIDE DEF at
  <2>2. m \in DriverRecord /\ m.at = at
    BY <2>1, NewIsRecord
  <2> QED BY <2>2 DEF at
<1> HIDE DEF m, d, at
<1>4. RunsGoOn /\ StepsGoOn /\ TasksGoOn /\ disk' \subseteq Bodies
  BY <1>1, SameMarks DEF OnlyDriver
<1>5. Turn(d) /\ (driver'[d].at \in Stopped \/ driver'[d].at = "lookup")
  BY <1>1, <1>2, <1>3, MoveTo DEF Types, Stopped
<1>6. run'[StepOf(d)] # "none"
  BY <1>1, <1>2 DEF OnlyDriver
<1>7. DriverOK(d)'
  BY <1>5, <1>6 DEF DriverOK, Stopped
<1> QED BY <1>1, <1>2, <1>4, <1>5, <1>7, PlainStep DEF OnlyDriver

LEMMA ExecutorsStay ==
    ASSUME Executors, RowsGrow, RunsGoOn, UNCHANGED <<driver, denied>>
    PROVE  Executors'
<1> SUFFICES ASSUME NEW e \in Drivers PROVE DriverOK(e)'
  BY DEF Executors
<1>1. DriverOK(e) /\ StepOf(e) \in Steps
  BY StepOfDriver DEF Executors
<1>2. \A from : Sources(e, from) => Sources(e, from)'
  BY DEF Sources, RowsGrow, Row
<1>3. \A from, to : Looked(e, from, to) => Looked(e, from, to)'
  BY DEF Looked
<1>4. \A to : Made(e, to) => Made(e, to)'
  BY IsOfStays DEF Made
<1>5. run[StepOf(e)] # "none" => run'[StepOf(e)] # "none"
  BY <1>1 DEF RunsGoOn
<1>6. \A p \in Ports : IsOf(driver[e].old[p], StepOf(e), p)
                      => IsOf(driver[e].old[p], StepOf(e), p)'
  BY IsOfStays
<1> QED BY <1>1, <1>2, <1>3, <1>4, <1>5, <1>6 DEF DriverOK

LEMMA AskReviewKeeps ==
    ASSUME Inv, NEW a \in DOMAIN artifacts, NEW to \in {"accepted", "rejected"},
           NEW rerun \in BOOLEAN, AskReview(a, to, rerun)
    PROVE  Inv'
<1>1. Types /\ Books /\ Denials /\ Executors /\ Claims
      /\ UNCHANGED <<run, force, step, task, result, outputs, journal, artifacts, cache, late,
                     expired, disk, driver, recovery, denied>>
  BY DEF Inv, AskReview, rows, clock
<1>2. RowsGrow /\ RunsGoOn /\ TasksGoOn /\ StepsGoOn
  BY <1>1, SameRows, OthersGoOn DEF Types
<1>3. Types'
  BY <1>1 DEF Types
<1>4. Books'
  BY <1>1, <1>2, BooksStep DEF Books, Types
<1>5. Denials'
  BY <1>1, <1>2, DenialsStep
<1>6. Executors'
  BY <1>1, <1>2, ExecutorsStay
<1>7. Claims'
  BY <1>1, <1>2, ClaimsKept DEF Types, File
<1>8. ReviewOK'
  BY <1>1 DEF AskReview, ReviewOK
<1> QED BY <1>3, <1>4, <1>5, <1>6, <1>7, <1>8 DEF Inv

\* What is rejected stays so.
LEMMA ReviewedRows ==
    ASSUME artifacts \in Seq(ArtifactRow), NEW a \in DOMAIN artifacts,
           NEW to \in {"accepted", "rejected"}, MayReview(a, to),
           artifacts' = [artifacts EXCEPT ![a].review = to]
    PROVE  artifacts' \in Seq(ArtifactRow) /\ RowsGrow /\ DOMAIN artifacts' = DOMAIN artifacts
<1> DEFINE r == [artifacts[a] EXCEPT !.review = to]
<1>1. /\ artifacts[a] \in ArtifactRow
      /\ DOMAIN artifacts[a] = {"step", "port", "body", "review", "from"}
  BY RowIs
<1>2. /\ r \in ArtifactRow /\ r.step = artifacts[a].step /\ r.port = artifacts[a].port
      /\ r.body = artifacts[a].body /\ r.from = artifacts[a].from /\ r.review = to
  BY <1>1 DEF ArtifactRow, Reviews
<1>3. artifacts' = [artifacts EXCEPT ![a] = r]
  OBVIOUS
<1>4. artifacts[a].review = "rejected" => to = "rejected"
  BY DEF MayReview, Row
<1> HIDE DEF r
<1>5. /\ artifacts' \in Seq(ArtifactRow) /\ Len(artifacts') = Len(artifacts)
      /\ artifacts'[a] = r /\ \A b \in DOMAIN artifacts : b # a => artifacts'[b] = artifacts[b]
      /\ DOMAIN artifacts' = DOMAIN artifacts
  BY <1>2, <1>3
<1> QED BY <1>2, <1>4, <1>5 DEF RowsGrow

LEMMA WriteReviewKeeps == ASSUME Inv, WriteReview PROVE Inv'
<1>1. /\ Types /\ Books /\ Denials /\ Executors /\ Claims
      /\ review.art \in DOMAIN artifacts /\ review.to \in {"accepted", "rejected"}
      /\ DOMAIN review = {"at", "art", "to", "rerun", "n"}
      /\ UNCHANGED <<run, force, step, task, result, outputs, journal, cache, late,
                     expired, disk, driver, recovery, denied>>
  BY DEF Inv, WriteReview, ReviewOK, clock
<1>2. artifacts' \in Seq(ArtifactRow) /\ RowsGrow /\ DOMAIN artifacts' = DOMAIN artifacts
  <2>1. CASE MayReview(review.art, review.to)
    <3>1. artifacts' = [artifacts EXCEPT ![review.art].review = review.to]
      BY <2>1 DEF WriteReview
    <3> DEFINE a == review.art
               to == review.to
    <3>2. /\ a \in DOMAIN artifacts /\ to \in {"accepted", "rejected"} /\ MayReview(a, to)
          /\ artifacts' = [artifacts EXCEPT ![a].review = to] /\ artifacts \in Seq(ArtifactRow)
      BY <1>1, <2>1, <3>1 DEF Types
    <3> HIDE DEF a, to
    <3> QED BY <3>2, ReviewedRows
  <2>2. CASE ~MayReview(review.art, review.to)
    <3>1. artifacts' = artifacts
      BY <2>2 DEF WriteReview
    <3> QED BY <1>1, <3>1, SameRows DEF Types
  <2> QED BY <2>1, <2>2
<1>3. RunsGoOn /\ TasksGoOn /\ StepsGoOn
  BY <1>1, OthersGoOn
<1>4. Types'
  BY <1>1, <1>2 DEF Types
<1>5. Books'
  BY <1>1, <1>2, <1>3, BooksStep DEF Books
<1>6. Denials'
  BY <1>1, <1>2, DenialsStep
<1>7. Executors'
  BY <1>1, <1>2, <1>3, ExecutorsStay
<1>8. Claims'
  BY <1>1, <1>2, <1>3, ClaimsKept DEF Types, File
<1>9. ReviewOK'
  <2>1. CASE review' = [review EXCEPT !.at = "rerun"]
    BY <1>1, <1>2, <2>1 DEF ReviewOK
  <2>2. CASE review' = Reviewed
    BY <2>2 DEF ReviewOK, Reviewed, NoReview
  <2> QED BY <2>1, <2>2 DEF WriteReview
<1> QED BY <1>4, <1>5, <1>6, <1>7, <1>8, <1>9 DEF Inv

LEMMA RerunKeeps == ASSUME Inv, Rerun PROVE Inv'
<1> DEFINE s == Row(review.art).step + 1
<1>1. /\ Inv /\ UNCHANGED <<task, result, outputs, journal, artifacts, cache, clock, disk, recovery>>
      /\ review' = Reviewed
  BY DEF Rerun
<1>2. ReviewOK'
  BY <1>1 DEF ReviewOK, Reviewed, NoReview
<1>3. CASE s \in Steps /\ MayBegin(s)
  <2>1. StartRun(s, TRUE) /\ run[s] = "none"
    BY <1>3 DEF Rerun, MayBegin
  <2> HIDE DEF s
  <2>2. Types' /\ Books' /\ Denials' /\ Executors' /\ Claims'
    BY <1>1, <1>3, <2>1, StartKeeps
  <2> QED BY <1>2, <2>2 DEF Inv
<1>4. CASE ~(s \in Steps /\ MayBegin(s))
  <2>1. UNCHANGED <<run, step, force, driver, denied>>
    BY <1>4 DEF Rerun
  <2>2. Types /\ Books /\ Denials /\ Executors /\ Claims
    BY DEF Inv
  <2>3. RowsGrow /\ RunsGoOn /\ TasksGoOn /\ StepsGoOn
    BY <1>1, <2>1, <2>2, SameRows, OthersGoOn DEF Types
  <2>4. Types'
    BY <1>1, <2>1, <2>2 DEF Types, clock
  <2>5. Books'
    BY <1>1, <2>1, <2>2, <2>3, BooksStep DEF Books, Types
  <2>6. Denials'
    BY <1>1, <2>1, <2>2, <2>3, DenialsStep
  <2>7. Executors'
    BY <2>1, <2>2, <2>3, ExecutorsStay
  <2>8. Claims'
    BY <1>1, <2>2, <2>3, ClaimsKept DEF Types, File
  <2> QED BY <1>2, <2>4, <2>5, <2>6, <2>7, <2>8 DEF Inv
<1> QED BY <1>3, <1>4

-----------------------------------------------------------------------------
(* A crash and the recovery after it.                                      *)

LEMMA CrashKeeps == ASSUME Inv, NEW long \in BOOLEAN, Crash(long) PROVE Inv'
<1>1. /\ Types /\ Books /\ Denials /\ Executors /\ Claims
      /\ driver' = [d \in Drivers |-> NewDriver] /\ review' = Reviewed
      /\ recovery' = [at |-> "commit", todo |-> {}, claimed |-> {}]
      /\ UNCHANGED <<run, force, step, task, result, outputs, journal, artifacts, cache, disk,
                     denied>>
  BY DEF Inv, Crash, rows
<1>2. late' \subseteq Steps /\ expired' \subseteq Steps
  BY <1>1 DEF Crash, Types, Begun
<1>3. RowsGrow /\ RunsGoOn /\ TasksGoOn /\ StepsGoOn
  BY <1>1, SameRows, OthersGoOn DEF Types
<1>4. Types'
  BY <1>1, <1>2, NewIsRecord DEF Types
<1>5. Books'
  BY <1>1, <1>3, BooksStep DEF Books, Types
<1>6. Denials'
  BY <1>1, <1>3, DenialsStep
<1>7. Executors'
  <2>1. \A d \in Drivers : driver'[d].at \in Stopped
    BY <1>1 DEF NewDriver, Stopped
  <2> QED BY <2>1 DEF Executors, DriverOK, Stopped
<1>8. Claims'
  BY <1>1 DEF Claims
<1>9. ReviewOK'
  BY <1>1 DEF ReviewOK, Reviewed, NoReview
<1> QED BY <1>4, <1>5, <1>6, <1>7, <1>8, <1>9 DEF Inv

\* The recovery touches journals, files and its own list.
LEMMA RecoveryStep ==
    ASSUME Inv, OnlyRecovery, disk' \subseteq Bodies,
           journal' \in [Steps -> [Ports -> JournalRow]],
           \A s \in Steps, p \in Ports :
              /\ journal'[s][p].art = journal[s][p].art
              /\ journal'[s][p] = journal[s][p] \/ journal'[s][p] = NoJournal \/ task[s] # "none",
           UNCHANGED <<late, expired>>, Claims'
    PROVE  Inv'
<1>1. /\ Types /\ Books /\ Denials /\ Executors /\ ReviewOK
      /\ UNCHANGED <<run, force, step, task, result, outputs, artifacts, cache, driver, review, denied>>
  BY DEF Inv, OnlyRecovery
<1>2. RowsGrow /\ RunsGoOn /\ TasksGoOn /\ StepsGoOn
  BY <1>1, SameRows, OthersGoOn DEF Types
<1>3. Types'
  BY <1>1 DEF Types
<1>4. Books'
  BY <1>1, <1>2, BooksStep DEF Books, Types
<1>5. Denials'
  BY <1>1, <1>2, DenialsStep
<1>6. Executors'
  BY <1>1, <1>2, ExecutorsStay
<1>7. ReviewOK'
  BY <1>1 DEF ReviewOK
<1> QED BY <1>3, <1>4, <1>5, <1>6, <1>7 DEF Inv

LEMMA ReconcileKeeps == ASSUME Inv, ReconcileCommitted PROVE Inv'
<1>1. /\ Types /\ Books /\ OnlyRecovery /\ UNCHANGED <<disk, faults>>
      /\ journal' = [s \in Steps |-> [p \in Ports |->
                     IF journal[s][p].state = "published" /\ step[s] = "succeeded"
                     THEN [journal[s][p] EXCEPT !.state = "committed"] ELSE journal[s][p]]]
      /\ recovery' = [at |-> "claim", claimed |-> {},
                    todo |-> {k \in Keys : Pending(k) /\ Expired(k) /\ Entry(k).art = 0}]
  BY DEF Inv, ReconcileCommitted
<1>2. ASSUME NEW s \in Steps, NEW p \in Ports
      PROVE  /\ journal'[s][p] \in JournalRow /\ journal'[s][p].art = journal[s][p].art
             /\ journal'[s][p] = journal[s][p] \/ task[s] # "none"
  <2> DEFINE j == journal[s][p]
             r == [j EXCEPT !.state = "committed"]
  <2>1. j \in JournalRow /\ (j = NoJournal \/ task[s] # "none")
    BY <1>1 DEF Types, Books
  <2>2. r \in JournalRow /\ r.art = j.art
    BY <2>1 DEF JournalRow
  <2>3. \/ journal'[s][p] = j
        \/ journal'[s][p] = r /\ j.state = "published"
    BY <1>1
  <2>4. NoJournal.state # "published"
    BY DEF NoJournal
  <2> HIDE DEF j, r
  <2>5. journal'[s][p] = j \/ (journal'[s][p] = r /\ task[s] # "none")
    BY <2>1, <2>3, <2>4
  <2> QED BY <2>1, <2>2, <2>5 DEF j
<1>3. journal' \in [Steps -> [Ports -> JournalRow]]
  BY <1>1, <1>2
<1>4. Claims'
  BY <1>1 DEF Claims
<1>5. disk' \subseteq Bodies /\ UNCHANGED <<late, expired>>
  BY <1>1, SameMarks DEF OnlyRecovery, clock
<1> QED BY <1>1, <1>2, <1>3, <1>4, <1>5, RecoveryStep

LEMMA ClaimKeeps == ASSUME Inv, ClaimForGC PROVE Inv'
<1>1. /\ Types /\ Books /\ Claims /\ OnlyRecovery /\ UNCHANGED <<disk, faults>>
      /\ recovery.at = "claim" /\ recovery.todo \subseteq Keys
      /\ DOMAIN recovery = {"at", "todo", "claimed"}
  BY DEF Inv, ClaimForGC, Recovers, Claims
<1>2. disk' \subseteq Bodies /\ UNCHANGED <<late, expired, result, task, artifacts>>
  BY <1>1, SameMarks DEF OnlyRecovery, clock
<1>3. CASE recovery' = [recovery EXCEPT !.at = "remove"] /\ UNCHANGED journal
  <2>1. recovery'.at = "remove" /\ recovery'.claimed = recovery.claimed
        /\ DOMAIN recovery' = {"at", "todo", "claimed"}
    BY <1>1, <1>3
  <2>2. Claims'
    BY <1>1, <1>2, <2>1 DEF Claims, Row, File
  <2>3. journal \in [Steps -> [Ports -> JournalRow]]
    BY <1>1 DEF Types
  <2> QED BY <1>1, <1>2, <1>3, <2>2, <2>3, RecoveryStep
<1>4. ASSUME NEW k \in recovery.todo,
             recovery' = [recovery EXCEPT !.todo = @ \ {k},
                               !.claimed = IF Collectable(k) THEN @ \cup {<<k, Len(artifacts)>>} ELSE @],
             journal' = IF Collectable(k)
                        THEN [journal EXCEPT ![k[1]][k[2]].owner = "gc"] ELSE journal
      PROVE  Inv'
  <2>1. /\ k \in Keys /\ k[1] \in Steps /\ k[2] \in Ports /\ Len(artifacts) \in Nat
        /\ recovery'.at = "claim" /\ recovery'.todo \subseteq Keys
        /\ DOMAIN recovery' = {"at", "todo", "claimed"}
    BY <1>1, <1>4 DEF Keys, Types
  <2>2. CASE ~Collectable(k)
    <3>1. recovery'.claimed = recovery.claimed /\ journal' = journal
      BY <1>1, <1>4, <2>2
    <3>2. Claims'
      BY <1>1, <1>2, <2>1, <3>1 DEF Claims, Row, File
    <3>3. journal \in [Steps -> [Ports -> JournalRow]]
      BY <1>1 DEF Types
    <3> QED BY <1>1, <1>2, <3>1, <3>2, <3>3, RecoveryStep
  <2>3. CASE Collectable(k)
    <3>1. recovery'.claimed = recovery.claimed \cup {<<k, Len(artifacts)>>}
      BY <1>1, <1>4, <2>3
    <3>2. /\ journal[k[1]][k[2]] \in JournalRow /\ task[k[1]] # "none"
          /\ \A a \in DOMAIN artifacts : artifacts[a].body # result[k[1]][k[2]]
      <4>1. Entry(k) # NoJournal /\ \A a \in DOMAIN artifacts : artifacts[a].body # result[k[1]][k[2]]
        BY <2>3 DEF Collectable, Pending, NoJournal, Unnamed, Row, File
      <4> QED BY <1>1, <2>1, <4>1 DEF Entry, Books, Types
    <3>3. \A s \in Steps, p \in Ports :
             /\ journal'[s][p].art = journal[s][p].art
             /\ journal'[s][p] = journal[s][p] \/ task[s] # "none"
      <4> DEFINE j == [journal[k[1]][k[2]] EXCEPT !.owner = "gc"]
      <4>1. j.art = journal[k[1]][k[2]].art
        BY <3>2 DEF JournalRow
      <4>2. journal' = [journal EXCEPT ![k[1]][k[2]] = j]
        BY <1>4, <2>3
      <4> HIDE DEF j
      <4> QED BY <1>1, <2>1, <3>2, <4>1, <4>2 DEF Types
    <3>4. journal' \in [Steps -> [Ports -> JournalRow]]
      <4> DEFINE j == [journal[k[1]][k[2]] EXCEPT !.owner = "gc"]
      <4>1. j \in JournalRow
        BY <3>2 DEF JournalRow
      <4>2. journal' = [journal EXCEPT ![k[1]][k[2]] = j]
        BY <1>4, <2>3
      <4> HIDE DEF j
      <4> QED BY <1>1, <2>1, <4>1, <4>2 DEF Types
    <3>5. recovery'.claimed \subseteq Keys \X Nat
      BY <1>1, <2>1, <3>1 DEF Claims
    <3>6. ASSUME NEW c \in recovery'.claimed
          PROVE  /\ task[c[1][1]] # "none" /\ c[2] <= Len(artifacts)
                 /\ \A a \in 1 .. c[2] : artifacts[a].body # result[c[1][1]][c[1][2]]
      <4>1. CASE c \in recovery.claimed
        BY <1>1, <4>1 DEF Claims, Row, File
      <4>2. CASE c = <<k, Len(artifacts)>>
        <5>1. c[1] = k /\ c[2] = Len(artifacts)
          BY <4>2
        <5>2. DOMAIN artifacts = 1 .. Len(artifacts)
          BY <1>1 DEF Types
        <5> QED BY <2>1, <3>2, <5>1, <5>2
      <4> QED BY <3>1, <4>1, <4>2
    <3>7. Claims'
      BY <1>2, <2>1, <3>5, <3>6 DEF Claims, Row, File
    <3> QED BY <1>1, <1>2, <3>3, <3>4, <3>7, RecoveryStep
  <2> QED BY <2>2, <2>3
<1> QED BY <1>3, <1>4 DEF ClaimForGC

LEMMA RemoveKeeps == ASSUME Inv, RemoveFile PROVE Inv'
<1>1. /\ Types /\ Books /\ Claims /\ OnlyRecovery /\ UNCHANGED journal
      /\ DOMAIN recovery = {"at", "todo", "claimed"}
  BY DEF Inv, RemoveFile, Claims
<1>2. disk' \subseteq Bodies /\ UNCHANGED <<late, expired, result, task, artifacts>>
  <2>1. disk' \subseteq disk
    BY DEF RemoveFile
  <2> QED BY <1>1, <2>1 DEF OnlyRecovery, Types, clock
<1>3. /\ recovery'.claimed = recovery.claimed /\ DOMAIN recovery' = DOMAIN recovery
      /\ recovery'.at \in {"up", "complete", "failed"}
      /\ recovery'.at = "complete" => recovery'.todo \subseteq recovery.claimed
  BY <1>1 DEF RemoveFile
<1>4. Claims'
  BY <1>1, <1>2, <1>3 DEF Claims, Row, File
<1>5. journal \in [Steps -> [Ports -> JournalRow]]
  BY <1>1 DEF Types
<1> QED BY <1>1, <1>2, <1>4, <1>5, RecoveryStep

LEMMA CompleteKeeps == ASSUME Inv, CompleteGC PROVE Inv'
<1>1. /\ Types /\ Books /\ Claims /\ OnlyRecovery /\ UNCHANGED <<disk, faults>>
      /\ DOMAIN recovery = {"at", "todo", "claimed"}
      /\ recovery.todo \subseteq recovery.claimed /\ recovery.claimed \subseteq Keys \X Nat
  BY DEF Inv, CompleteGC, Claims, Recovers
<1>2. disk' \subseteq Bodies /\ UNCHANGED <<late, expired, result, task, artifacts>>
  BY <1>1, SameMarks DEF OnlyRecovery, clock
<1>3. PICK c \in recovery.todo : LET k == c[1] IN
          IF Pending(k) /\ Entry(k).owner = "gc" /\ Entry(k).art = 0 /\ Unnamed(k)
          THEN /\ journal' = [journal EXCEPT ![k[1]][k[2]] = NoJournal]
               /\ recovery' = [recovery EXCEPT !.at = "remove", !.todo = {},
                                               !.claimed = @ \ {c}]
          ELSE /\ recovery' = [recovery EXCEPT !.at = "failed"]
               /\ UNCHANGED journal
  BY DEF CompleteGC
<1>4. c[1] \in Keys /\ c[1][1] \in Steps /\ c[1][2] \in Ports
  BY <1>1 DEF Keys
<1>5. /\ recovery'.claimed \subseteq recovery.claimed /\ DOMAIN recovery' = DOMAIN recovery
      /\ recovery'.at \in {"remove", "failed"}
  BY <1>1, <1>3
<1>6. Claims'
  BY <1>1, <1>2, <1>5 DEF Claims, Row, File
<1>7. /\ journal' \in [Steps -> [Ports -> JournalRow]]
      /\ \A s \in Steps, p \in Ports :
            /\ journal'[s][p].art = journal[s][p].art
            /\ journal'[s][p] = journal[s][p] \/ journal'[s][p] = NoJournal
  <2>1. NoJournal \in JournalRow /\ NoJournal.art = 0
    BY DEF JournalRow, NoJournal
  <2>2. \/ journal' = journal
        \/ journal' = [journal EXCEPT ![c[1][1]][c[1][2]] = NoJournal]
           /\ journal[c[1][1]][c[1][2]].art = 0
    BY <1>3 DEF Entry
  <2>3. journal \in [Steps -> [Ports -> JournalRow]]
    BY <1>1 DEF Types
  <2>4. CASE journal' = journal
    BY <2>3, <2>4
  <2>5. CASE /\ journal' = [journal EXCEPT ![c[1][1]][c[1][2]] = NoJournal]
             /\ journal[c[1][1]][c[1][2]].art = 0
    BY <1>4, <2>1, <2>3, <2>5
  <2> QED BY <2>2, <2>4, <2>5
<1> QED BY <1>1, <1>2, <1>6, <1>7, RecoveryStep

-----------------------------------------------------------------------------
(* The start, and every step.                                              *)

LEMMA InitInv == ArtifactsInit => Inv
<1> SUFFICES ASSUME ArtifactsInit PROVE Inv
  OBVIOUS
<1>1. PICK b \in Bodies : result = [s \in Steps |-> [p \in Ports |-> b]]
  BY DEF ArtifactsInit
<1>2. /\ run = [s \in Steps |-> "none"] /\ step = [s \in Steps |-> "none"]
      /\ force = [s \in Steps |-> FALSE] /\ task = [s \in Steps |-> "none"]
      /\ late = {} /\ expired = {} /\ disk = {} /\ artifacts = <<>> /\ cache = <<>>
      /\ outputs = [s \in Steps |-> [p \in Ports |-> 0]]
      /\ journal = [s \in Steps |-> [p \in Ports |-> NoJournal]]
      /\ driver = [d \in Drivers |-> NewDriver]
      /\ recovery = [at |-> "up", todo |-> {}, claimed |-> {}]
      /\ review = NoReview /\ denied = [s \in Steps |-> {}]
  BY DEF ArtifactsInit
<1>3. NoJournal \in JournalRow /\ NoJournal.art = 0
  BY DEF JournalRow, NoJournal
<1>4. artifacts \in Seq(ArtifactRow) /\ cache \in Seq(Nat) /\ DOMAIN artifacts = {}
  BY <1>2
<1>5. Types
  <2>1. /\ outputs \in [Steps -> [Ports -> Nat]] /\ result \in [Steps -> [Ports -> Bodies]]
        /\ denied \in [Steps -> SUBSET Nat]
    BY <1>1, <1>2
  <2>2. journal \in [Steps -> [Ports -> JournalRow]]
    BY <1>2, <1>3
  <2>3. driver \in [Drivers -> DriverRecord]
    BY <1>2, NewIsRecord
  <2> QED BY <1>2, <1>4, <2>1, <2>2, <2>3 DEF Types, RunStates
<1>6. Books
  <2>1. \A s \in Steps, p \in Ports :
           outputs[s][p] = 0 /\ journal[s][p] = NoJournal /\ step[s] # "succeeded"
    BY <1>2
  <2> QED BY <1>2, <1>3, <1>4, <2>1 DEF Books
<1>7. Denials
  BY <1>2, <1>4 DEF Denials
<1>8. Executors
  <2>1. \A d \in Drivers : driver[d].at \in Stopped
    BY <1>2 DEF NewDriver, Stopped
  <2> QED BY <2>1 DEF Executors, DriverOK, Stopped
<1>9. Claims
  BY <1>2 DEF Claims
<1>10. ReviewOK
  BY <1>2 DEF ReviewOK, NoReview
<1> QED BY <1>5, <1>6, <1>7, <1>8, <1>9, <1>10 DEF Inv

LEMMA StutterKeeps == ASSUME Inv, UNCHANGED vars PROVE Inv'
<1>1. RunsGoOn /\ TasksGoOn /\ late' \subseteq Steps /\ expired' \subseteq Steps
      /\ disk' \subseteq Bodies
  BY DEF Inv, Types, vars, rows, clock, RunsGoOn, TasksGoOn
<1> QED BY <1>1, RestKept DEF vars, rows

LEMMA NextInv == Inv /\ [ArtifactsNext]_vars => Inv'
<1> SUFFICES ASSUME Inv, [ArtifactsNext]_vars PROVE Inv'
  OBVIOUS
<1>1. ASSUME NEW d \in Drivers, Drive(d) PROVE Inv'
  BY <1>1, DriveKeeps
<1>2. ASSUME NEW s \in Steps,
             Begin(s) \/ RunSucceeds(s) \/ Stop(s) \/ Settle(s) \/ TooLate(s) \/ Respawn(s)
      PROVE  Inv'
  BY <1>2, BeginKeeps, RunSucceedsKeeps, StopKeeps, SettleKeeps, TooLateKeeps, RespawnKeeps
<1>3. ASSUME NEW a \in DOMAIN artifacts, NEW to \in {"accepted", "rejected"},
             NEW rerun \in BOOLEAN, AskReview(a, to, rerun)
      PROVE  Inv'
  BY <1>3, AskReviewKeeps
<1>4. CASE WriteReview \/ Rerun
  BY <1>4, WriteReviewKeeps, RerunKeeps
<1>5. ASSUME NEW long \in BOOLEAN, Crash(long) PROVE Inv'
  BY <1>5, CrashKeeps
<1>6. CASE ReconcileCommitted \/ ClaimForGC \/ RemoveFile \/ CompleteGC
  BY <1>6, ReconcileKeeps, ClaimKeeps, RemoveKeeps, CompleteKeeps
<1>7. CASE UNCHANGED vars
  BY <1>7, StutterKeeps
<1> QED BY <1>1, <1>2, <1>3, <1>4, <1>5, <1>6, <1>7 DEF ArtifactsNext

-----------------------------------------------------------------------------
(* The theorems.                                                           *)

LEMMA ArtifactsInvariant == ArtifactsSpec => []Inv
  BY InitInv, NextInv, PTL DEF ArtifactsSpec

LEMMA TypesAreOK == Inv => ArtifactsTypeOK
<1> SUFFICES ASSUME Inv PROVE ArtifactsTypeOK
  OBVIOUS
<1>1. Types /\ Books /\ Claims
  BY DEF Inv
<1>2. \A s \in Steps, p \in Ports :
          /\ outputs[s][p] # 0 =>
                outputs[s][p] \in DOMAIN artifacts /\ Row(outputs[s][p]).step = s
                /\ Row(outputs[s][p]).port = p
          /\ journal[s][p].art # 0 => journal[s][p].art \in DOMAIN artifacts
          /\ journal[s][p].state \in {"none", "staged", "published", "committed"}
          /\ step[s] = "succeeded" => outputs[s][p] # 0
  <2> SUFFICES ASSUME NEW s \in Steps, NEW p \in Ports
               PROVE /\ outputs[s][p] # 0 => IsOf(outputs[s][p], s, p)
                     /\ journal[s][p].art # 0 => IsOf(journal[s][p].art, s, p)
                     /\ journal[s][p].state \in {"none", "staged", "published", "committed"}
                     /\ step[s] = "succeeded" => outputs[s][p] # 0
    BY DEF IsOf
  <2>1. journal[s][p] \in JournalRow
    BY <1>1 DEF Types
  <2>2. journal[s][p].state \in {"none", "staged", "published", "committed"}
    BY <2>1 DEF JournalRow
  <2> QED BY <1>1, <2>2 DEF Books
<1>3. \A n \in DOMAIN cache : cache[n] \in DOMAIN artifacts
  <2>1. CASE cache = <<>>
    BY <2>1
  <2>2. CASE cache # <<>>
    <3>1. Len(cache) = LastPort /\ \A p \in Ports : cache[p] \in DOMAIN artifacts
      BY <1>1, <2>2 DEF Books
    <3>2. DOMAIN cache = 1 .. Len(cache)
      BY <1>1 DEF Types
    <3> QED BY <3>1, <3>2 DEF Ports
  <2> QED BY <2>1, <2>2
<1>4. \A d \in Drivers : driver[d].at \in Places
  BY <1>1, RecordOf
<1> QED BY <1>1, <1>2, <1>3, <1>4 DEF ArtifactsTypeOK, Types, Claims

\* However many executors, restarts and faults a paid result meets, each port
\* of its step gets one row: the journal's operation key names it
\* (publish_artifact_from_journal).
THEOREM OneRowPerPort == ArtifactsSpec => []OneArtifactPerPort
<1>1. Inv => OneArtifactPerPort
  <2> SUFFICES ASSUME Inv PROVE OneArtifactPerPort
    OBVIOUS
  <2>1. ArtifactsTypeOK
    BY TypesAreOK
  <2>2. \A a \in DOMAIN artifacts :
           Row(a).from = 0 => journal[Row(a).step][Row(a).port].art = a
    BY DEF Inv, Books
  <2>3. \A a, b \in DOMAIN artifacts :
          Row(a).from = 0 /\ Row(b).from = 0 /\ Row(a).step = Row(b).step
          /\ Row(a).port = Row(b).port => a = b
    BY <2>2
  <2> QED BY <2>1, <2>3 DEF OneArtifactPerPort
<1> QED BY <1>1, ArtifactsInvariant, PTL

\* No step succeeds with a copy of what had been rejected before its run
\* began, through any chain of copies and whoever reviews meanwhile
\* (try_cache_hit).
THEOREM RejectedIsNotReused == ArtifactsSpec => []NoRejectedReuse
<1>1. Inv => NoRejectedReuse
  <2> SUFFICES ASSUME Inv, NEW s \in Steps, NEW p \in Ports, outputs[s][p] # 0
               PROVE  Row(outputs[s][p]).from \notin denied[s]
    BY DEF NoRejectedReuse
  <2>1. outputs[s][p] \in DOMAIN artifacts /\ Row(outputs[s][p]).step = s
    BY DEF Inv, Books, IsOf
  <2> QED BY <2>1 DEF Inv, Denials
<1> QED BY <1>1, ArtifactsInvariant, PTL

\* A file that a row named when a journal was claimed is not removed with it,
\* for any number of journals and of runs that began since (claim_for_gc).
THEOREM KnownRowsAreSpared == ArtifactsSpec => GcSparesKnownRows
<1> DEFINE Spares == recovery.at = "remove" /\ recovery'.at = "complete" =>
           \A a \in DOMAIN artifacts :
               HasFile(a) /\ Row(a).body \notin disk'
               => \E c \in recovery.claimed : File(c[1]) = Row(a).body /\ a > c[2]
<1>1. Inv /\ [ArtifactsNext]_vars => [Spares]_vars
  <2> SUFFICES ASSUME Inv, ArtifactsNext, recovery.at = "remove", recovery'.at = "complete",
                      NEW a \in DOMAIN artifacts, HasFile(a), Row(a).body \notin disk'
               PROVE  \E c \in recovery.claimed : File(c[1]) = Row(a).body /\ a > c[2]
    OBVIOUS
  <2>1. RemoveFile
    <3>1. recovery' # recovery
      OBVIOUS
    <3>2. ~ \E d \in Drivers : Drive(d)
      BY <3>1, ZenonT(40) DEF Drive, Lookup, Source, Copy, Hit, Provided, Resumed, Round, Port, Link, Unlink,
                 Hash, Publish, Finalize, MarkCommitted, Refresh, OnlyDriver, Here
    <3>3. ~ \E s \in Steps :
             Begin(s) \/ RunSucceeds(s) \/ Stop(s) \/ Settle(s) \/ TooLate(s) \/ Respawn(s)
      BY <3>1 DEF Begin, RunSucceeds, Stop, Settle, TooLate, Respawn, OnlyDriver, Here
    <3>4. ~ \E b \in DOMAIN artifacts, to \in {"accepted", "rejected"}, rerun \in BOOLEAN :
             AskReview(b, to, rerun)
      BY <3>1 DEF AskReview
    <3>5. ~ (WriteReview \/ Rerun)
      BY <3>1 DEF WriteReview, Rerun
    <3>6. ~ \E long \in BOOLEAN : Crash(long)
      BY DEF Crash
    <3>7. ~ (ReconcileCommitted \/ ClaimForGC \/ CompleteGC)
      BY DEF ReconcileCommitted, ClaimForGC, CompleteGC, Recovers
    <3> QED BY <3>2, <3>3, <3>4, <3>5, <3>6, <3>7 DEF ArtifactsNext
  <2>2. PICK c \in recovery.claimed : disk' = disk \ {File(c[1])}
    BY <2>1 DEF RemoveFile, Inv, Claims
  <2>3. File(c[1]) = Row(a).body
    BY <2>2 DEF HasFile, Row
  <2>4. a > c[2]
    <3>1. c[2] \in Nat /\ a \in Nat /\ a >= 1
      BY RowIs DEF Inv, Claims, Types
    <3>2. a \notin 1 .. c[2]
      BY <2>3 DEF Inv, Claims
    <3> QED BY <3>1, <3>2
  <2> QED BY <2>3, <2>4
<1> QED BY <1>1, ArtifactsInvariant, PTL DEF ArtifactsSpec, GcSparesKnownRows
=============================================================================
