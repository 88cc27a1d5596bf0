---------------------------- MODULE CanvasProofs ----------------------------
(***************************************************************************)
(* What the canvas promises of comments and of layouts, for every number   *)
(* of clients, operations, nodes, versions and retries.                    *)
(***************************************************************************)
EXTENDS Canvas, FiniteSetTheorems, TLAPS

-----------------------------------------------------------------------------
(* The shape of the state: what a call is about at each of its places.     *)

Entries == [id : OperationIds, op : Operations]
Nothing == [kind |-> "none"]
Making == {"ensure", "initialize", "made"}
Operating == {"lookup", "commit", "reread"}

CallShape(c) ==
    /\ DOMAIN call[c] = DOMAIN NoCall
    /\ call[c].does = "comment" => call[c].id \in OperationIds /\ call[c].op \in Operations
    /\ call[c].at \in Making => call[c].does \in {"comment", "show"}
    /\ call[c].at \in Operating => call[c].does = "comment"
    /\ call[c].at = "layout" => call[c].does = "show"
    /\ call[c].does = "show" => call[c].version \in Nat /\ call[c].version <= Version
    /\ call[c].at = "initialize" => call[c].seen.seq \in Nat

Shape ==
    /\ graphs \in Seq(Graphs)
    /\ legacy \in Files
    /\ DOMAIN table = {"row", "seq", "comments"}
    /\ table.row \in BOOLEAN /\ table.seq \in Nat
    /\ committed \in [OperationIds -> Operations \cup {Nothing}]
    /\ log \in Seq(Entries)
    /\ DOMAIN call = Clients
    /\ \A c \in Clients : CallShape(c)

\* The sequence every reader is given is a number, and at least the version.
LEMMA SeqIsNat ==
    ASSUME graphs \in Seq(Graphs), table.seq \in Nat
    PROVE  /\ Version \in Nat /\ LogicalSeq \in Nat
           /\ LogicalSeq >= Version /\ LogicalSeq >= table.seq
  BY DEF Version, LogicalSeq, Larger

\* Taking what was read leaves the rest of the call as it is.
LEMMA TakeShape ==
    ASSUME Shape, NEW c \in Clients, call[c].at \in Making, NEW record, Take(c, record)
    PROVE  /\ DOMAIN call' = Clients
           /\ \A d \in Clients \ {c} : call'[d] = call[d]
           /\ DOMAIN call'[c] = DOMAIN NoCall
           /\ \/ call'[c] = [NoCall EXCEPT !.at = "error"]
              \/ /\ call'[c].seen = record
                 /\ call'[c].at = IF call[c].does = "show" THEN "layout" ELSE "lookup"
                 /\ call'[c].does = call[c].does /\ call'[c].version = call[c].version
                 /\ call'[c].id = call[c].id /\ call'[c].op = call[c].op
<1> DEFINE A == [call EXCEPT ![c] = [NoCall EXCEPT !.at = "error"]]
           B == [call EXCEPT ![c].seen = record,
                             ![c].at = IF call[c].does = "show" THEN "layout" ELSE "lookup"]
<1>0. DOMAIN call = Clients /\ DOMAIN call[c] = DOMAIN NoCall
  BY DEF Shape, CallShape
<1>1. CASE call' = A
  BY <1>0, <1>1 DEF NoCall
<1>2. CASE call' = B
  <2>1. DOMAIN B = Clients /\ \A d \in Clients \ {c} : B[d] = call[d]
    BY <1>0
  <2>2. B[c] = [call[c] EXCEPT !.seen = record,
                               !.at = IF call[c].does = "show" THEN "layout" ELSE "lookup"]
    BY <1>0
  <2>3. DOMAIN NoCall = {"does", "at", "id", "op", "base", "seen", "tries", "version",
                         "names", "place", "revision"}
    BY DEF NoCall
  <2>4. DOMAIN B[c] = DOMAIN NoCall
    BY <2>2, <1>0
  <2>5. B[c].seen = record
    BY <2>2, <2>3, <1>0
  <2> QED
    BY <2>1, <2>2, <2>3, <2>4, <2>5, <1>0, <1>2
<1> QED
  BY <1>1, <1>2 DEF Take, End

\* Only the call that takes a step changes.
Only(c) == DOMAIN call' = Clients /\ \A d \in Clients \ {c} : call'[d] = call[d]

\* An ended call asks for nothing.
LEMMA EndShape ==
    ASSUME Shape, NEW c \in Clients, NEW answer \in Ended, End(c, answer)
    PROVE  Only(c) /\ CallShape(c)' /\ call'[c].at = answer /\ call'[c].does = "none"
<1>1. DOMAIN call = Clients
  BY DEF Shape
<1>2. call'[c] = [NoCall EXCEPT !.at = answer]
  BY <1>1 DEF End
<1>3. DOMAIN call'[c] = DOMAIN NoCall /\ call'[c].at = answer /\ call'[c].does = "none"
  BY <1>2 DEF NoCall
<1>4. answer \notin Making \cup Operating \cup {"layout"}
  BY DEF Ended, Making, Operating
<1> QED
  BY <1>1, <1>3, <1>4 DEF Only, End, CallShape, Making, Operating

\* A step keeps the shape if it keeps that of its call and of what it writes.
LEMMA ShapeKept ==
    ASSUME Shape, NEW c \in Clients, Only(c), CallShape(c)',
           UNCHANGED <<graphs, legacy>>,
           DOMAIN table' = {"row", "seq", "comments"},
           table'.row \in BOOLEAN, table'.seq \in Nat,
           committed' \in [OperationIds -> Operations \cup {Nothing}],
           log' \in Seq(Entries)
    PROVE  Shape'
<1>1. \A d \in Clients : CallShape(d)'
  BY DEF Shape, Only, CallShape, Version
<1> QED
  BY <1>1 DEF Shape, Only

LEMMA OnlyCallKeepsShape ==
    ASSUME Shape, NEW c \in Clients, Only(c), CallShape(c)', OnlyCall
    PROVE  Shape'
  BY ShapeKept DEF Shape, OnlyCall, store

\* Taking a record.
LEMMA TakeKeepsShape ==
    ASSUME Shape, NEW c \in Clients, call[c].at \in Making, NEW record, Take(c, record),
           OnlyCall
    PROVE  Shape'
<1>1. Only(c)
  BY TakeShape DEF Only
<1>2. CallShape(c) /\ Version' = Version
  BY DEF Shape, OnlyCall, store, Version
<1>3. CallShape(c)'
  <2>1. CASE call'[c] = [NoCall EXCEPT !.at = "error"]
    BY <2>1, TakeShape DEF CallShape, NoCall, Making, Operating
  <2>2. CASE call'[c] # [NoCall EXCEPT !.at = "error"]
    BY <1>2, <2>2, TakeShape DEF CallShape, Making, Operating
  <2> QED
    BY <2>1, <2>2
<1> QED
  BY <1>1, <1>3, OnlyCallKeepsShape

\* A call that starts is a record of its own.
LEMMA StartShape ==
    ASSUME Shape, NEW c \in Clients, NEW r, call' = [call EXCEPT ![c] = r],
           DOMAIN r = DOMAIN NoCall, UNCHANGED graphs,
           r.does = "comment" => r.id \in OperationIds /\ r.op \in Operations,
           r.does = "show" => r.version = Version,
           r.does \in {"comment", "show"} => r.at = "ensure",
           r.does = "save" => r.at \in {"stale", "revision"},
           r.does \in {"comment", "show", "save"}
    PROVE  Only(c) /\ CallShape(c)'
<1>1. Only(c) /\ call'[c] = r
  BY DEF Shape, Only
<1>2. Version' = Version /\ Version \in Nat
  BY SeqIsNat DEF Version, Shape
<1> QED
  BY <1>1, <1>2 DEF CallShape, Making, Operating

\* Applying an operation to what was read ends the call or lets it commit.
LEMMA ApplyShape ==
    ASSUME Shape, NEW c \in Clients, call[c].at \in Operating, NEW seen, Apply(c, seen),
           UNCHANGED graphs
    PROVE  /\ Only(c) /\ CallShape(c)'
           /\ \/ call'[c].at \in Ended
              \/ call'[c].at = "commit" /\ call'[c].seen = seen
<1>1. CASE \E answer \in Ended : End(c, answer)
  BY <1>1, EndShape
<1>2. CASE call' = [call EXCEPT ![c].at = "commit", ![c].seen = seen]
  <2>1. DOMAIN call = Clients /\ CallShape(c)
    BY DEF Shape
  <2>2. call'[c] = [call[c] EXCEPT !.at = "commit", !.seen = seen]
    BY <1>2, <2>1
  <2>3. DOMAIN NoCall = {"does", "at", "id", "op", "base", "seen", "tries", "version",
                         "names", "place", "revision"}
    BY DEF NoCall
  <2>4. /\ DOMAIN call'[c] = DOMAIN NoCall
        /\ call'[c].at = "commit" /\ call'[c].seen = seen
        /\ call'[c].does = call[c].does
        /\ call'[c].id = call[c].id /\ call'[c].op = call[c].op
    BY <2>1, <2>2, <2>3 DEF CallShape
  <2> QED
    BY <1>2, <2>1, <2>4 DEF Only, CallShape, Making, Operating
<1>3. Refusal(call[c].op) \in Ended /\ "stale" \in Ended
  BY DEF Refusal, Ended
<1> QED
  BY <1>1, <1>2, <1>3 DEF Apply

\* Every reachable state is of this shape.
LEMMA InitShape == CanvasInit => Shape
<1> SUFFICES ASSUME CanvasInit PROVE Shape
  OBVIOUS
<1>1. \A c \in Clients : CallShape(c)
  BY DEF CanvasInit, CallShape, NoCall, Making, Operating
<1>2. table = NoRow /\ legacy \in Files /\ graphs = <<>> /\ log = <<>> /\ DOMAIN call = Clients
  BY DEF CanvasInit
<1>3. committed \in [OperationIds -> Operations \cup {Nothing}]
  BY DEF CanvasInit, Nothing
<1> QED
  BY <1>1, <1>2, <1>3 DEF Shape, NoRow

\* The operations clients ask for are operations, and none is Nothing.
LEMMA OperationsAreSome == Nothing \notin Operations /\ Asked \subseteq Operations
  BY CanvasAssumption DEF Operations, Nothing

LEMMA NextShape == Shape /\ [CanvasNext]_vars => Shape'
<1> SUFFICES ASSUME Shape, [CanvasNext]_vars PROVE Shape'
  OBVIOUS
<1> \A c \in Clients : CallShape(c)
  BY DEF Shape
<1>1. ASSUME NEW c \in Clients, NEW id \in OperationIds, NEW op \in Asked,
             NEW base \in {NoBase, LogicalSeq}, Comment(c, id, op, base)
      PROVE  Shape'
  <2> DEFINE r == [NoCall EXCEPT !.does = "comment", !.at = "ensure",
                                 !.id = id, !.op = op, !.base = base]
  <2>1. /\ DOMAIN r = DOMAIN NoCall /\ r.does = "comment" /\ r.at = "ensure"
        /\ r.id = id /\ r.op = op
    BY DEF NoCall
  <2>2. op \in Operations
    BY OperationsAreSome
  <2>3. call' = [call EXCEPT ![c] = r] /\ OnlyCall /\ UNCHANGED graphs
    BY <1>1 DEF Comment, OnlyCall, store
  <2> HIDE DEF r
  <2>4. Only(c) /\ CallShape(c)'
    BY <2>1, <2>2, <2>3, StartShape
  <2> QED
    BY <2>3, <2>4, OnlyCallKeepsShape
<1>2. ASSUME NEW c \in Clients, NEW names, NEW version, Save(c, names, version)
      PROVE  Shape'
  <2> DEFINE r == [NoCall EXCEPT !.does = "save", !.names = names, !.version = version,
                                 !.revision = snapshot.revision,
                                 !.at = IF version \in {0} \cup 1 .. Version - 1
                                        THEN "stale" ELSE "revision"]
  <2>1. DOMAIN r = DOMAIN NoCall /\ r.does = "save" /\ r.at \in {"stale", "revision"}
    BY DEF NoCall
  <2>3. call' = [call EXCEPT ![c] = r] /\ OnlyCall /\ UNCHANGED graphs
    BY <1>2 DEF Save, OnlyCall, store
  <2> HIDE DEF r
  <2>4. Only(c) /\ CallShape(c)'
    BY <2>1, <2>3, StartShape
  <2> QED
    BY <2>3, <2>4, OnlyCallKeepsShape
<1>3. ASSUME NEW c \in Clients, Show(c) PROVE Shape'
  <2> DEFINE r == [NoCall EXCEPT !.does = "show", !.at = "ensure", !.version = Version]
  <2>1. /\ DOMAIN r = DOMAIN NoCall /\ r.does = "show" /\ r.at = "ensure"
        /\ r.version = Version
    BY DEF NoCall
  <2>3. call' = [call EXCEPT ![c] = r] /\ OnlyCall /\ UNCHANGED graphs
    BY <1>3 DEF Show, OnlyCall, store
  <2> HIDE DEF r
  <2>4. Only(c) /\ CallShape(c)'
    BY <2>1, <2>3, StartShape
  <2> QED
    BY <2>3, <2>4, OnlyCallKeepsShape
<1>4. ASSUME NEW c \in Clients, Ensure(c) PROVE Shape'
  <2>1. OnlyCall /\ call[c].at = "ensure" /\ UNCHANGED graphs
    BY <1>4 DEF Ensure, At, OnlyCall, store
  <2>2. CASE table.row
    BY <1>4, <2>1, <2>2, TakeKeepsShape DEF Ensure, Making
  <2>3. CASE ~table.row /\ ~Importable(legacy)
    BY <1>4, <2>1, <2>3, EndShape, OnlyCallKeepsShape DEF Ensure, Ended
  <2>4. CASE ~table.row /\ Importable(legacy)
    <3> DEFINE seen == [NoRow EXCEPT !.seq = legacy.seq, !.comments = legacy.comments]
    <3>1. call' = [call EXCEPT ![c].at = "initialize", ![c].seen = seen]
      BY <1>4, <2>4 DEF Ensure
    <3>2. seen.seq = legacy.seq /\ legacy.seq \in Nat
      BY CanvasAssumption DEF NoRow, Shape
    <3> HIDE DEF seen
    <3>3. Only(c) /\ call'[c] = [call[c] EXCEPT !.at = "initialize", !.seen = seen]
      BY <3>1 DEF Shape, Only
    <3>4. DOMAIN NoCall = {"does", "at", "id", "op", "base", "seen", "tries", "version",
                           "names", "place", "revision"}
      BY DEF NoCall
    <3>5. /\ DOMAIN call'[c] = DOMAIN NoCall
          /\ call'[c].at = "initialize" /\ call'[c].seen = seen
          /\ call'[c].does = call[c].does /\ call'[c].version = call[c].version
          /\ call'[c].id = call[c].id /\ call'[c].op = call[c].op
      BY <3>3, <3>4 DEF CallShape
    <3>6. CallShape(c)'
      BY <2>1, <3>2, <3>5 DEF CallShape, Making, Operating, Version
    <3> QED
      BY <2>1, <3>3, <3>6, OnlyCallKeepsShape
  <2> QED
    BY <2>2, <2>3, <2>4
<1>5. ASSUME NEW c \in Clients, Initialize(c) PROVE Shape'
  <2>1. call' = [call EXCEPT ![c].at = "made"] /\ call[c].at = "initialize"
    BY <1>5 DEF Initialize, Goto, At
  <2>2. UNCHANGED <<graphs, legacy, committed, log>>
    BY <1>5 DEF Initialize
  <2>3. Only(c) /\ call'[c] = [call[c] EXCEPT !.at = "made"]
    BY <2>1 DEF Shape, Only
  <2>4. /\ DOMAIN call'[c] = DOMAIN NoCall /\ call'[c].at = "made"
        /\ call'[c].does = call[c].does /\ call'[c].version = call[c].version
        /\ call'[c].id = call[c].id /\ call'[c].op = call[c].op
    BY <2>3 DEF CallShape, NoCall
  <2>5. CallShape(c)'
    BY <2>1, <2>2, <2>4 DEF CallShape, Making, Operating, Version
  <2>6. /\ DOMAIN table' = {"row", "seq", "comments"}
        /\ table'.row \in BOOLEAN /\ table'.seq \in Nat
    <3>1. CASE MakesRow
      <4>1. table' = [row |-> TRUE, seq |-> Larger(call[c].seen.seq, Version),
                      comments |-> call[c].seen.comments]
        BY <1>5, <3>1 DEF Initialize
      <4>2. Larger(call[c].seen.seq, Version) \in Nat
        BY <2>1, SeqIsNat DEF Larger, CallShape, Shape
      <4> QED
        BY <4>1, <4>2
    <3>2. CASE ~MakesRow
      BY <1>5, <3>2 DEF Initialize, Shape
    <3> QED
      BY <3>1, <3>2
  <2> QED
    BY <2>2, <2>3, <2>5, <2>6, ShapeKept DEF Shape
<1>6. ASSUME NEW c \in Clients, ReadBack(c) PROVE Shape'
  BY <1>6, TakeKeepsShape DEF ReadBack, At, Making
<1>7. ASSUME NEW c \in Clients, Lookup(c) PROVE Shape'
  <2>1. OnlyCall /\ call[c].at \in Operating /\ UNCHANGED graphs
    BY <1>7 DEF Lookup, At, OnlyCall, store, Operating
  <2>2. CASE Done(call[c].id)
    BY <1>7, <2>1, <2>2, EndShape, OnlyCallKeepsShape DEF Lookup, Ended
  <2>3. CASE ~Done(call[c].id)
    BY <1>7, <2>1, <2>3, ApplyShape, OnlyCallKeepsShape DEF Lookup
  <2> QED
    BY <2>2, <2>3
<1>8. ASSUME NEW c \in Clients, Commit(c) PROVE Shape'
  <2> DEFINE q == call[c]
  <2>0. /\ UNCHANGED <<graphs, legacy>> /\ q.at = "commit" /\ q.does = "comment"
        /\ q.id \in OperationIds /\ q.op \in Operations
    BY <1>8 DEF Commit, At, CallShape, Operating
  <2>1. ASSUME NEW answer \in Ended, End(c, answer), UNCHANGED <<table, committed, log>>
        PROVE  Shape'
    BY <2>0, <2>1, EndShape, ShapeKept DEF Shape
  <2>2. ASSUME call' = [call EXCEPT ![c].at = "reread", ![c].tries = @ + 1],
               UNCHANGED <<table, committed, log>>
        PROVE  Shape'
    <3>1. Only(c) /\ call'[c] = [call[c] EXCEPT !.at = "reread", !.tries = @ + 1]
      BY <2>2 DEF Shape, Only
    <3>2. /\ DOMAIN call'[c] = DOMAIN NoCall /\ call'[c].at = "reread"
          /\ call'[c].does = call[c].does
          /\ call'[c].id = call[c].id /\ call'[c].op = call[c].op
      BY <3>1 DEF CallShape, NoCall
    <3>3. CallShape(c)'
      BY <2>0, <3>2 DEF CallShape, Making, Operating
    <3> QED
      BY <2>0, <2>2, <3>1, <3>3, ShapeKept DEF Shape
  <2>3. ASSUME table' = [table EXCEPT !.seq = NextSeq,
                                      !.comments = Applied(q.op, q.seen.comments)],
               committed' = [committed EXCEPT ![q.id] = q.op],
               log' = Append(log, [id |-> q.id, op |-> q.op]),
               End(c, "ok")
        PROVE  Shape'
    <3>1. NextSeq \in Nat
      BY SeqIsNat DEF NextSeq, Shape
    <3>2. /\ DOMAIN table' = {"row", "seq", "comments"}
          /\ table'.row \in BOOLEAN /\ table'.seq \in Nat
      BY <2>3, <3>1 DEF Shape
    <3>3. committed' \in [OperationIds -> Operations \cup {Nothing}]
      BY <2>0, <2>3 DEF Shape
    <3>4. log' \in Seq(Entries)
      BY <2>0, <2>3 DEF Shape, Entries
    <3>5. Only(c) /\ CallShape(c)'
      BY <2>3, EndShape DEF Ended
    <3> QED
      BY <2>0, <3>2, <3>3, <3>4, <3>5, ShapeKept
  <2> QED
    BY <1>8, <2>1, <2>2, <2>3 DEF Commit, Ended
<1>9. ASSUME NEW c \in Clients, Reread(c) PROVE Shape'
  <2>1. OnlyCall /\ call[c].at \in Operating /\ UNCHANGED graphs
    BY <1>9 DEF Reread, At, OnlyCall, store, Operating
  <2> QED
    BY <1>9, <2>1, EndShape, ApplyShape, OnlyCallKeepsShape DEF Reread, Ended
<1>10. ASSUME NEW c \in Clients, ShowLayout(c) PROVE Shape'
  BY <1>10, EndShape, ShapeKept DEF ShowLayout, Shape, store, Ended
<1>11. ASSUME NEW c \in Clients, CheckRevision(c) PROVE Shape'
  <2>1. OnlyCall /\ call[c].at = "revision"
    BY <1>11 DEF CheckRevision, At
  <2>2. ASSUME NEW answer \in Ended, End(c, answer) PROVE Shape'
    BY <2>1, <2>2, EndShape, OnlyCallKeepsShape
  <2>3. ASSUME NEW place, call' = [call EXCEPT ![c].place = place, ![c].at = "save"]
        PROVE  Shape'
    <3>1. Only(c) /\ call'[c] = [call[c] EXCEPT !.place = place, !.at = "save"]
      BY <2>3 DEF Shape, Only
    <3>2. /\ DOMAIN call'[c] = DOMAIN NoCall /\ call'[c].at = "save"
          /\ call'[c].does = call[c].does /\ call'[c].version = call[c].version
          /\ call'[c].id = call[c].id /\ call'[c].op = call[c].op
      BY <3>1 DEF CallShape, NoCall
    <3>3. CallShape(c)'
      BY <2>1, <3>2 DEF CallShape, Making, Operating, OnlyCall, store, Version
    <3> QED
      BY <2>1, <3>1, <3>3, OnlyCallKeepsShape
  <2> QED
    BY <1>11, <2>2, <2>3 DEF CheckRevision, Ended
<1>12. ASSUME NEW c \in Clients, CommitSave(c) PROVE Shape'
  <2>1. Only(c) /\ CallShape(c)'
    BY <1>12, EndShape DEF CommitSave, Ended
  <2> QED
    BY <1>12, <2>1, ShapeKept DEF CommitSave, Shape
<1>13. ASSUME NEW nodes \in Graphs, NewVersion(nodes) PROVE Shape'
  <2>1. /\ graphs' \in Seq(Graphs) /\ Version' = Version + 1 /\ Version \in Nat
        /\ UNCHANGED <<legacy, table, committed, call, log>>
    BY <1>13 DEF NewVersion, Shape, Version
  <2>2. \A c \in Clients : CallShape(c)'
    BY <2>1 DEF CallShape
  <2> QED
    BY <2>1, <2>2 DEF Shape
<1>14. CASE UNCHANGED vars
  BY <1>14 DEF Shape, CallShape, vars, store, Version
<1> QED
  BY <1>1, <1>2, <1>3, <1>4, <1>5, <1>6, <1>7, <1>8, <1>9, <1>10, <1>11, <1>12, <1>13, <1>14
     DEF CanvasNext, Reading, Commenting, Saving

-----------------------------------------------------------------------------
(* What was read is behind what the row holds, or is it.                   *)

FreshIn(v, seq, comments) ==
    v.seq \in Nat /\ v.seq <= seq /\ (v.seq = seq => v.comments = comments)
Fresh(v) == FreshIn(v, LogicalSeq, table.comments)
Agree(v, w) == v.seq = w.seq => v.comments = w.comments

Views ==
    /\ shown # {} => table.row
    /\ \A c \in Clients : call[c].at \in {"made", "layout"} \cup Operating => table.row
    /\ \A v \in shown : Fresh(v)
    /\ \A c \in Clients : call[c].at \in {"lookup", "commit", "layout"} => Fresh(call[c].seen)
    /\ \A c \in Clients : call[c].at = "layout" => call[c].version <= call[c].seen.seq
    /\ \A v, w \in shown : Agree(v, w)
    /\ \A c \in Clients : call[c].at = "layout" => \A v \in shown : Agree(call[c].seen, v)
    /\ \A c, d \in Clients :
          call[c].at = "layout" /\ call[d].at = "layout" => Agree(call[c].seen, call[d].seen)

\* The comments change only with the sequence, and the sequence never falls.
Later ==
    \/ LogicalSeq' > LogicalSeq
    \/ LogicalSeq' = LogicalSeq /\ table'.comments = table.comments

LEMMA FreshLater ==
    ASSUME Shape, Shape', Later, NEW v, Fresh(v)
    PROVE  FreshIn(v, LogicalSeq', table'.comments)
<1>1. LogicalSeq \in Nat /\ LogicalSeq' \in Nat
  BY SeqIsNat DEF Shape, LogicalSeq, Version, Larger
<1> QED
  BY <1>1 DEF Later, Fresh, FreshIn

\* A step keeps the views if its call has read what is there now.
LEMMA ViewsKept ==
    ASSUME Shape, Shape', Views, Later, NEW c \in Clients, Only(c), shown' = shown,
           table.row => table'.row,
           call'[c].at \in {"made", "layout"} \cup Operating => table'.row,
           call'[c].at \in {"lookup", "commit"} =>
               FreshIn(call'[c].seen, LogicalSeq', table'.comments),
           call'[c].at = "layout" =>
               /\ call'[c].seen.seq = LogicalSeq'
               /\ call'[c].seen.comments = table'.comments
               /\ call'[c].version <= call'[c].seen.seq
    PROVE  Views'
<1>0. LogicalSeq' \in Nat
  BY SeqIsNat DEF Shape, LogicalSeq, Version, Larger
<1>1. \A v \in shown : FreshIn(v, LogicalSeq', table'.comments)
  BY FreshLater DEF Views
<1>2. \A d \in Clients \ {c} : call'[d].at \in {"lookup", "commit", "layout"} =>
          FreshIn(call'[d].seen, LogicalSeq', table'.comments)
  BY FreshLater DEF Views, Only
<1>3. call'[c].at = "layout" => FreshIn(call'[c].seen, LogicalSeq', table'.comments)
  BY <1>0 DEF FreshIn
<1>4. call'[c].at = "layout" => \A v : FreshIn(v, LogicalSeq', table'.comments) =>
          Agree(call'[c].seen, v) /\ Agree(v, call'[c].seen)
  BY DEF FreshIn, Agree
<1>5. \A d \in Clients : call'[d].at = "layout" => \A v \in shown : Agree(call'[d].seen, v)
  BY <1>1, <1>4 DEF Views, Only
<1>6. \A d, e \in Clients :
          call'[d].at = "layout" /\ call'[e].at = "layout" => Agree(call'[d].seen, call'[e].seen)
  <2> SUFFICES ASSUME NEW d \in Clients, NEW e \in Clients,
                      call'[d].at = "layout", call'[e].at = "layout"
               PROVE  Agree(call'[d].seen, call'[e].seen)
    OBVIOUS
  <2>1. CASE d = c /\ e = c
    BY <2>1 DEF Agree
  <2>2. CASE d = c /\ e # c
    BY <1>2, <1>4, <2>2
  <2>3. CASE d # c /\ e = c
    BY <1>2, <1>4, <2>3
  <2>4. CASE d # c /\ e # c
    BY <2>4 DEF Views, Only
  <2> QED
    BY <2>1, <2>2, <2>3, <2>4
<1>7. \A d \in Clients : call'[d].at \in {"made", "layout"} \cup Operating => table'.row
  BY DEF Views, Only
<1>8. \A d \in Clients : call'[d].at = "layout" => call'[d].version <= call'[d].seen.seq
  BY DEF Views, Only
<1>9. \A d \in Clients : call'[d].at \in {"lookup", "commit", "layout"} =>
          FreshIn(call'[d].seen, LogicalSeq', table'.comments)
  BY <1>2, <1>3
<1> QED
  BY <1>1, <1>5, <1>6, <1>7, <1>8, <1>9 DEF Views, Fresh

LEMMA RecordIsCurrent ==
    ASSUME Shape
    PROVE  Record.seq = LogicalSeq /\ Record.comments = table.comments
  BY DEF Record, Shape

\* Nothing but the call changes.
LEMMA OnlyCallIsLater ==
    ASSUME OnlyCall
    PROVE  /\ Later /\ LogicalSeq' = LogicalSeq /\ Version' = Version
           /\ UNCHANGED <<table, graphs, shown, log, committed>>
  BY DEF OnlyCall, store, Later, LogicalSeq, Version

LEMMA EndKeepsViews ==
    ASSUME Shape, Shape', Views, Later, NEW c \in Clients, NEW answer \in Ended,
           End(c, answer), shown' = shown, table.row => table'.row
    PROVE  Views'
<1>1. Only(c) /\ call'[c].at \notin {"made", "layout", "lookup", "commit"} \cup Operating
  BY EndShape DEF Ended, Operating
<1> QED
  BY <1>1, ViewsKept

LEMMA TakeKeepsViews ==
    ASSUME Shape, Shape', Views, NEW c \in Clients, call[c].at \in Making,
           Take(c, Record), OnlyCall, table.row
    PROVE  Views'
<1>1. CASE call'[c] = [NoCall EXCEPT !.at = "error"]
  <2>1. call'[c].at = "error" /\ Only(c)
    BY <1>1, TakeShape DEF NoCall, Only
  <2> QED
    BY <2>1, ViewsKept, OnlyCallIsLater DEF Operating
<1>2. CASE call'[c] # [NoCall EXCEPT !.at = "error"]
  <2>1. /\ Only(c) /\ call'[c].seen = Record /\ call'[c].at \in {"layout", "lookup"}
        /\ call'[c].at = "layout" => call'[c].does = "show"
        /\ call'[c].version = call[c].version /\ call'[c].does = call[c].does
    BY <1>2, TakeShape DEF Only
  <2>2. /\ call'[c].seen.seq = LogicalSeq' /\ call'[c].seen.comments = table'.comments
        /\ table'.row /\ shown' = shown
    BY <2>1, RecordIsCurrent, OnlyCallIsLater
  <2>3. call'[c].at = "layout" => call'[c].version <= LogicalSeq'
    <3>1. Version \in Nat /\ LogicalSeq \in Nat /\ LogicalSeq >= Version
      BY SeqIsNat DEF Shape
    <3> QED
      BY <2>1, <3>1, OnlyCallIsLater DEF Shape, CallShape
  <2>4. LogicalSeq' \in Nat
    BY SeqIsNat, OnlyCallIsLater DEF Shape
  <2>5. FreshIn(call'[c].seen, LogicalSeq', table'.comments)
    BY <2>2, <2>4 DEF FreshIn
  <2> QED
    BY <2>1, <2>2, <2>3, <2>5, ViewsKept, OnlyCallIsLater
<1> QED
  BY <1>1, <1>2

LEMMA ApplyKeepsViews ==
    ASSUME Shape, Shape', Views, NEW c \in Clients, call[c].at \in Operating, NEW seen,
           Apply(c, seen), OnlyCall, Fresh(seen)
    PROVE  Views'
<1>1. /\ Only(c)
      /\ call'[c].at \in Ended \/ (call'[c].at = "commit" /\ call'[c].seen = seen)
  BY ApplyShape, OnlyCallIsLater
<1>2. table.row /\ table'.row
  BY OnlyCallIsLater DEF Views
<1>3. call'[c].at # "layout" /\ (call'[c].at \in {"lookup", "commit"} => call'[c].seen = seen)
  BY <1>1 DEF Ended
<1> QED
  BY <1>1, <1>2, <1>3, ViewsKept, OnlyCallIsLater DEF Fresh

\* A commit asks that what was read is what the row holds.
LEMMA CommitIsCurrent ==
    ASSUME Shape, Views, NEW c \in Clients, call[c].at = "commit", MayCommit(call[c])
    PROVE  call[c].seen.comments = table.comments
  BY DEF Views, Fresh, FreshIn, MayCommit

LEMMA InitViews == CanvasInit => Views
  BY DEF CanvasInit, Views, NoCall, Operating

LEMMA NextViews == Shape /\ Shape' /\ Views /\ [CanvasNext]_vars => Views'
<1> SUFFICES ASSUME Shape, Shape', Views, [CanvasNext]_vars PROVE Views'
  OBVIOUS
<1>1. ASSUME NEW c \in Clients, NEW r, call' = [call EXCEPT ![c] = r], OnlyCall,
             r.at \in {"ensure", "stale", "revision"}
      PROVE  Views'
  <2>1. Only(c) /\ call'[c].at = r.at
    BY <1>1 DEF Shape, Only
  <2> QED
    BY <1>1, <2>1, ViewsKept, OnlyCallIsLater DEF Operating
<1>2. ASSUME NEW c \in Clients, NEW id \in OperationIds, NEW op \in Asked,
             NEW base \in {NoBase, LogicalSeq}, Comment(c, id, op, base)
      PROVE  Views'
  <2> DEFINE r == [NoCall EXCEPT !.does = "comment", !.at = "ensure",
                                 !.id = id, !.op = op, !.base = base]
  <2>1. r.at = "ensure" /\ call' = [call EXCEPT ![c] = r] /\ OnlyCall
    BY <1>2 DEF Comment, NoCall
  <2> QED
    BY <1>1, <2>1
<1>3. ASSUME NEW c \in Clients, NEW names, NEW version, Save(c, names, version)
      PROVE  Views'
  <2> DEFINE r == [NoCall EXCEPT !.does = "save", !.names = names, !.version = version,
                                 !.revision = snapshot.revision,
                                 !.at = IF version \in {0} \cup 1 .. Version - 1
                                        THEN "stale" ELSE "revision"]
  <2>1. r.at \in {"stale", "revision"} /\ call' = [call EXCEPT ![c] = r] /\ OnlyCall
    BY <1>3 DEF Save, NoCall
  <2> QED
    BY <1>1, <2>1
<1>4. ASSUME NEW c \in Clients, Show(c) PROVE Views'
  <2> DEFINE r == [NoCall EXCEPT !.does = "show", !.at = "ensure", !.version = Version]
  <2>1. r.at = "ensure" /\ call' = [call EXCEPT ![c] = r] /\ OnlyCall
    BY <1>4 DEF Show, NoCall
  <2> QED
    BY <1>1, <2>1
<1>5. ASSUME NEW c \in Clients, Ensure(c) PROVE Views'
  <2>1. OnlyCall /\ call[c].at \in Making
    BY <1>5 DEF Ensure, At, Making
  <2>2. CASE table.row
    BY <1>5, <2>1, <2>2, TakeKeepsViews DEF Ensure
  <2>3. CASE ~table.row /\ ~Importable(legacy)
    BY <1>5, <2>1, <2>3, EndKeepsViews, OnlyCallIsLater DEF Ensure, Ended
  <2>4. CASE ~table.row /\ Importable(legacy)
    <3> DEFINE seen == [NoRow EXCEPT !.seq = legacy.seq, !.comments = legacy.comments]
    <3>1. call' = [call EXCEPT ![c].at = "initialize", ![c].seen = seen]
      BY <1>5, <2>4 DEF Ensure
    <3> HIDE DEF seen
    <3>2. Only(c) /\ call'[c] = [call[c] EXCEPT !.at = "initialize", !.seen = seen]
      BY <3>1 DEF Shape, Only
    <3>3. call'[c].at = "initialize"
      BY <3>2 DEF Shape, CallShape, NoCall
    <3> QED
      BY <2>1, <3>2, <3>3, ViewsKept, OnlyCallIsLater DEF Operating
  <2> QED
    BY <2>2, <2>3, <2>4
<1>6. ASSUME NEW c \in Clients, Initialize(c) PROVE Views'
  <2>1. /\ call' = [call EXCEPT ![c].at = "made"] /\ call[c].at = "initialize"
        /\ shown' = shown /\ UNCHANGED graphs
    BY <1>6 DEF Initialize, Goto, At
  <2>2. Only(c) /\ call'[c].at = "made"
    BY <2>1 DEF Shape, CallShape, Only, NoCall
  <2>3. CASE table.row
    <3>1. UNCHANGED table
      BY <1>6, <2>3 DEF Initialize, MakesRow
    <3> QED
      BY <2>1, <2>2, <2>3, <3>1, ViewsKept DEF Later, LogicalSeq, Version
  <2>4. CASE ~table.row
    <3>1. table'.row
      BY <1>6, <2>4 DEF Initialize, MakesRow
    <3>2. shown = {} /\ \A d \in Clients : call[d].at \notin {"made", "layout"} \cup Operating
      BY <2>4 DEF Views
    <3> QED
      BY <2>1, <2>2, <3>1, <3>2 DEF Views, Only, Operating
  <2> QED
    BY <2>3, <2>4 DEF Shape
<1>7. ASSUME NEW c \in Clients, ReadBack(c) PROVE Views'
  BY <1>7, TakeKeepsViews DEF ReadBack, At, Making, Views
<1>8. ASSUME NEW c \in Clients, Lookup(c) PROVE Views'
  <2>1. OnlyCall /\ call[c].at = "lookup"
    BY <1>8 DEF Lookup, At
  <2>2. CASE Done(call[c].id)
    BY <1>8, <2>1, <2>2, EndKeepsViews, OnlyCallIsLater DEF Lookup, Ended
  <2>3. CASE ~Done(call[c].id)
    <3>1. Apply(c, call[c].seen) /\ Fresh(call[c].seen)
      BY <1>8, <2>1, <2>3 DEF Lookup, Views
    <3> QED
      BY <2>1, <3>1, ApplyKeepsViews DEF Operating
  <2> QED
    BY <2>2, <2>3
<1>9. ASSUME NEW c \in Clients, Commit(c) PROVE Views'
  <2> DEFINE q == call[c]
  <2>0. UNCHANGED <<graphs, shown>> /\ q.at = "commit" /\ table.row
    BY <1>9 DEF Commit, At, Views, Operating
  <2>1. ASSUME NEW answer \in Ended, End(c, answer), UNCHANGED <<table, committed, log>>
        PROVE  Views'
    BY <2>0, <2>1, EndKeepsViews DEF Later, LogicalSeq, Version
  <2>2. ASSUME call' = [call EXCEPT ![c].at = "reread", ![c].tries = @ + 1],
               UNCHANGED <<table, committed, log>>
        PROVE  Views'
    <3>1. Only(c) /\ call'[c] = [call[c] EXCEPT !.at = "reread", !.tries = @ + 1]
      BY <2>2 DEF Shape, Only
    <3>2. call'[c].at = "reread"
      BY <3>1 DEF Shape, CallShape, NoCall
    <3> QED
      BY <2>0, <2>2, <3>1, <3>2, ViewsKept DEF Later, LogicalSeq, Version
  <2>3. ASSUME table' = [table EXCEPT !.seq = NextSeq,
                                      !.comments = Applied(q.op, q.seen.comments)],
               End(c, "ok")
        PROVE  Views'
    <3>1. table'.seq = LogicalSeq + 1 /\ table'.row
      BY <2>0, <2>3 DEF Shape, NextSeq
    <3>2. LogicalSeq \in Nat /\ LogicalSeq' >= table'.seq /\ LogicalSeq' \in Nat
      BY SeqIsNat DEF Shape, LogicalSeq, Version, Larger
    <3>3. Later
      BY <3>1, <3>2 DEF Later
    <3> QED
      BY <2>0, <2>3, <3>1, <3>3, EndKeepsViews DEF Ended
  <2> QED
    BY <1>9, <2>1, <2>2, <2>3 DEF Commit, Ended
<1>10. ASSUME NEW c \in Clients, Reread(c) PROVE Views'
  <2>1. OnlyCall /\ call[c].at = "reread"
    BY <1>10 DEF Reread, At
  <2>2. CASE Valid(Record)
    <3>1. Fresh(Record)
      BY RecordIsCurrent, SeqIsNat DEF Fresh, FreshIn, Shape
    <3> QED
      BY <1>10, <2>1, <2>2, <3>1, ApplyKeepsViews DEF Reread, Operating
  <2>3. CASE ~Valid(Record)
    BY <1>10, <2>1, <2>3, EndKeepsViews, OnlyCallIsLater DEF Reread, Ended
  <2> QED
    BY <2>2, <2>3
<1>11. ASSUME NEW c \in Clients, ShowLayout(c) PROVE Views'
  <2> DEFINE v == [seq |-> ShownSeq(call[c]), comments |-> call[c].seen.comments]
  <2>1. /\ call[c].at = "layout" /\ shown' = shown \cup {v} /\ End(c, "ok")
        /\ UNCHANGED <<graphs, table>>
    BY <1>11 DEF ShowLayout, At, store
  <2>2. /\ Fresh(call[c].seen) /\ call[c].version <= call[c].seen.seq
        /\ call[c].version \in Nat
    BY <2>1 DEF Views, Shape, CallShape
  <2>3. v.seq = call[c].seen.seq /\ v.comments = call[c].seen.comments
    BY <2>2 DEF ShownSeq, Larger, Fresh, FreshIn
  <2> HIDE DEF v
  <2>4. Fresh(v) /\ \A w : Agree(call[c].seen, w) => Agree(v, w) /\ Agree(w, v)
    BY <2>2, <2>3 DEF Fresh, FreshIn, Agree
  <2>5. LogicalSeq' = LogicalSeq /\ table' = table
    BY <2>1 DEF LogicalSeq, Version
  <2>6. Only(c) /\ call'[c].at = "ok"
    BY <2>1, EndShape DEF Ended
  <2>7. table'.row /\ \A w \in shown' : Fresh(w)'
    BY <2>1, <2>4, <2>5 DEF Views, Fresh
  <2>8. \A w, x \in shown' : Agree(w, x)
    BY <2>1, <2>4 DEF Views, Agree
  <2>9. \A d \in Clients : call'[d].at = "layout" =>
            /\ \A w \in shown' : Agree(call'[d].seen, w)
            /\ call'[d].version <= call'[d].seen.seq
    BY <2>1, <2>4, <2>6 DEF Views, Only, Agree
  <2>10. \A d \in Clients :
            call'[d].at \in {"lookup", "commit", "layout"} => Fresh(call'[d].seen)
    BY <2>6 DEF Views, Only
  <2>11. \A d, e \in Clients :
            call'[d].at = "layout" /\ call'[e].at = "layout" =>
                Agree(call'[d].seen, call'[e].seen)
    BY <2>6 DEF Views, Only
  <2> QED
    BY <2>5, <2>7, <2>8, <2>9, <2>10, <2>11 DEF Views, Fresh
<1>12. ASSUME NEW c \in Clients, CheckRevision(c) PROVE Views'
  <2>1. OnlyCall
    BY <1>12 DEF CheckRevision
  <2>2. ASSUME NEW answer \in Ended, End(c, answer) PROVE Views'
    BY <2>1, <2>2, EndKeepsViews, OnlyCallIsLater
  <2>3. ASSUME NEW place, call' = [call EXCEPT ![c].place = place, ![c].at = "save"]
        PROVE  Views'
    <3>1. Only(c) /\ call'[c] = [call[c] EXCEPT !.place = place, !.at = "save"]
      BY <2>3 DEF Shape, Only
    <3>2. call'[c].at = "save"
      BY <3>1 DEF Shape, CallShape, NoCall
    <3> QED
      BY <2>1, <3>1, <3>2, ViewsKept, OnlyCallIsLater DEF Operating
  <2> QED
    BY <1>12, <2>2, <2>3 DEF CheckRevision, Ended
<1>13. ASSUME NEW c \in Clients, CommitSave(c) PROVE Views'
  BY <1>13, EndKeepsViews DEF CommitSave, Ended, Later, LogicalSeq, Version
<1>14. ASSUME NEW nodes \in Graphs, NewVersion(nodes) PROVE Views'
  <2>1. Version' = Version + 1 /\ Version \in Nat /\ UNCHANGED <<table, call, shown>>
    BY <1>14 DEF NewVersion, Shape, Version
  <2>2. Later
    BY <2>1 DEF Later, LogicalSeq, Larger, Shape
  <2>3. \A v : Fresh(v) => FreshIn(v, LogicalSeq', table'.comments)
    BY <2>2, FreshLater
  <2> QED
    BY <2>1, <2>3 DEF Views, Fresh
<1>15. CASE UNCHANGED vars
  BY <1>15 DEF Views, Fresh, LogicalSeq, Version, vars, store
<1> QED
  BY <1>2, <1>3, <1>4, <1>5, <1>6, <1>7, <1>8, <1>9, <1>10, <1>11, <1>12, <1>13, <1>14, <1>15
     DEF CanvasNext, Reading, Commenting, Saving

-----------------------------------------------------------------------------
(* The log and the operation ids.                                          *)

DoneIds == {i \in OperationIds : Done(i)}
LogInv == OperationsCommitOnce /\ IsFiniteSet(DoneIds)

LEMMA EveryOperationIsDone ==
    ASSUME Shape, NEW i \in OperationIds, committed[i] \in Operations
    PROVE  Done(i)
  BY DEF Done, Operations

LEMMA InitLog == CanvasInit => LogInv
<1> SUFFICES ASSUME CanvasInit PROVE LogInv
  OBVIOUS
<1>1. log = <<>> /\ DoneIds = {}
  BY DEF CanvasInit, DoneIds, Done
<1>2. IsFiniteSet({}) /\ Cardinality({}) = 0
  BY FS_EmptySet
<1>3. Cardinality({i \in OperationIds : Done(i)}) = Len(log)
  BY <1>1, <1>2 DEF DoneIds
<1> QED
  BY <1>1, <1>2, <1>3 DEF LogInv, OperationsCommitOnce

\* One more operation id is done, and one more entry in the log.
LEMMA CommitKeepsLog ==
    ASSUME Shape, LogInv, NEW id \in OperationIds, NEW op \in Operations, ~Done(id),
           committed' = [committed EXCEPT ![id] = op],
           log' = Append(log, [id |-> id, op |-> op])
    PROVE  LogInv'
<1> DEFINE new == [id |-> id, op |-> op]
<1>1. /\ Len(log') = Len(log) + 1 /\ Len(log) \in Nat
      /\ \A i \in DOMAIN log : log'[i] = log[i] /\ log[i] \in Entries
      /\ log'[Len(log) + 1] = new
      /\ DOMAIN log' = DOMAIN log \cup {Len(log) + 1}
  BY DEF Shape
<1>2. \A i \in DOMAIN log : Done(log[i].id) /\ log[i].id # id
  BY <1>1, EveryOperationIsDone DEF LogInv, OperationsCommitOnce, Entries
<1>3. new.id = id /\ new.op = op
  OBVIOUS
<1>4. \A i, j \in DOMAIN log' : log'[i].id = log'[j].id => i = j
  BY <1>1, <1>2, <1>3 DEF LogInv, OperationsCommitOnce
<1>5. \A i \in DOMAIN log' : committed'[log'[i].id] = log'[i].op
  <2>1. committed'[id] = op /\ \A i \in OperationIds \ {id} : committed'[i] = committed[i]
    BY DEF Shape
  <2>2. \A i \in DOMAIN log : log[i].id \in OperationIds
    BY <1>1 DEF Entries
  <2>3. \A i \in DOMAIN log : committed'[log'[i].id] = log'[i].op
    BY <1>1, <1>2, <2>1, <2>2 DEF LogInv, OperationsCommitOnce
  <2>4. committed'[log'[Len(log) + 1].id] = log'[Len(log) + 1].op
    BY <1>1, <1>3, <2>1
  <2> QED
    BY <1>1, <2>3, <2>4
<1>6. DoneIds' = DoneIds \cup {id} /\ id \notin DoneIds
  <2>1. committed'[id] = op /\ \A i \in OperationIds \ {id} : committed'[i] = committed[i]
    BY DEF Shape
  <2>2. Done(id)'
    BY <2>1 DEF Done, Operations
  <2> QED
    BY <2>1, <2>2 DEF DoneIds, Done
<1>7. IsFiniteSet(DoneIds') /\ Cardinality(DoneIds') = Cardinality(DoneIds) + 1
  BY <1>6, FS_AddElement DEF LogInv
<1>8. Cardinality(DoneIds) = Len(log)
  BY DEF LogInv, OperationsCommitOnce, DoneIds
<1>9. Cardinality(DoneIds') = Len(log')
  BY <1>1, <1>7, <1>8
<1> QED
  BY <1>4, <1>5, <1>7, <1>9 DEF LogInv, OperationsCommitOnce, DoneIds

\* Only a commit writes the log.
LEMMA LogSteps ==
    ASSUME Shape, [CanvasNext]_vars
    PROVE  \/ UNCHANGED <<log, committed>>
           \/ \E c \in Clients :
                /\ Commit(c) /\ ~Known(call[c]) /\ MayCommit(call[c])
                /\ table' = [table EXCEPT !.seq = NextSeq,
                                 !.comments = Applied(call[c].op, call[c].seen.comments)]
                /\ committed' = [committed EXCEPT ![call[c].id] = call[c].op]
                /\ log' = Append(log, [id |-> call[c].id, op |-> call[c].op])
<1>1. CASE \E c \in Clients : Commit(c)
  BY <1>1 DEF Commit
<1>2. CASE \E c \in Clients : Reading(c) \/ Lookup(c) \/ Reread(c) \/ Saving(c)
                               \/ Show(c) \/ ShowLayout(c)
  BY <1>2 DEF Reading, Ensure, Initialize, ReadBack, Lookup, Reread, Saving, CheckRevision,
              CommitSave, Show, ShowLayout, OnlyCall, store
<1>3. CASE \E c \in Clients, id \in OperationIds, op \in Asked, base \in {NoBase, LogicalSeq} :
               Comment(c, id, op, base)
  BY <1>3 DEF Comment, OnlyCall, store
<1>4. CASE \E c \in Clients, names \in (SUBSET Nodes) \ {{}}, back \in 0 .. 1 :
               back <= Version /\ Save(c, names, Version - back)
  BY <1>4 DEF Save, OnlyCall, store
<1>5. CASE \E nodes \in Graphs : NewVersion(nodes)
  BY <1>5 DEF NewVersion
<1>6. CASE UNCHANGED vars
  BY <1>6 DEF vars, store
<1> QED
  BY <1>1, <1>2, <1>3, <1>4, <1>5, <1>6 DEF CanvasNext, Commenting

LEMMA NextLog == Shape /\ LogInv /\ [CanvasNext]_vars => LogInv'
<1> SUFFICES ASSUME Shape, LogInv, [CanvasNext]_vars PROVE LogInv'
  OBVIOUS
<1>1. CASE UNCHANGED <<log, committed>>
  BY <1>1 DEF LogInv, OperationsCommitOnce, DoneIds, Done
<1>2. ASSUME NEW c \in Clients,
             Commit(c), ~Known(call[c]),
             committed' = [committed EXCEPT ![call[c].id] = call[c].op],
             log' = Append(log, [id |-> call[c].id, op |-> call[c].op])
      PROVE  LogInv'
  <2>1. call[c].id \in OperationIds /\ call[c].op \in Operations /\ ~Done(call[c].id)
    BY <1>2 DEF Commit, At, Shape, CallShape, Operating, Known
  <2> QED
    BY <1>2, <2>1, CommitKeepsLog
<1> QED
  BY <1>1, <1>2, LogSteps

-----------------------------------------------------------------------------
(* A save that may still win was computed from the layout that is there.   *)

Kept(c) ==
    \A n \in Graph(call[c].version) \ call[c].names :
        call[c].place[n] = IF n \in DOMAIN snapshot.places THEN snapshot.places[n] ELSE Seed

Comparing == {"revision", "save"}
Pending == Comparing \cup {"initialize"}

SavePart(c) ==
    call[c].at \in Comparing =>
        /\ call[c].version \in Nat \ {0} /\ call[c].version <= Version
        /\ call[c].revision \in Nat /\ call[c].revision <= snapshot.revision
        /\ call[c].at = "save" /\ call[c].revision = snapshot.revision => Kept(c)

SaveInv == snapshot.revision \in Nat /\ \A c \in Clients : SavePart(c)

\* A version's graph never changes, and the layout only with its revision.
History ==
    /\ Version' >= Version
    /\ \A v \in 1 .. Version : graphs'[v] = graphs[v]
    /\ \/ snapshot' = snapshot
       \/ snapshot'.revision \in Nat /\ snapshot'.revision > snapshot.revision

LEMMA OthersKept ==
    ASSUME Shape, Shape', SaveInv, History, NEW d \in Clients, call'[d] = call[d]
    PROVE  SavePart(d)'
<1> SUFFICES ASSUME call[d].at \in Comparing
             PROVE  /\ call[d].version \in Nat \ {0} /\ call[d].version <= Version'
                    /\ call[d].revision \in Nat /\ call[d].revision <= snapshot'.revision
                    /\ call[d].at = "save" /\ call[d].revision = snapshot'.revision => Kept(d)'
  BY DEF SavePart, Kept
<1>1. Version \in Nat /\ Version' \in Nat
  BY SeqIsNat DEF Shape, Version
<1>2. /\ call[d].version \in Nat \ {0} /\ call[d].version <= Version
      /\ call[d].revision \in Nat /\ call[d].revision <= snapshot.revision
      /\ snapshot.revision \in Nat
  BY DEF SaveInv, SavePart
<1>3. snapshot'.revision \in Nat /\ snapshot'.revision >= snapshot.revision
  BY <1>2 DEF History
<1>4. Graph(call[d].version)' = Graph(call[d].version)
  <2>1. call[d].version \in 1 .. Version
    BY <1>1, <1>2
  <2> QED
    BY <2>1 DEF History, Graph
<1>5. ASSUME call[d].at = "save", call[d].revision = snapshot'.revision
      PROVE  Kept(d)'
  <2>1. snapshot' = snapshot
    BY <1>2, <1>5 DEF History
  <2>2. Kept(d)
    BY <1>5, <2>1 DEF SaveInv, SavePart
  <2> QED
    BY <1>4, <2>1, <2>2 DEF Kept
<1> QED
  BY <1>1, <1>2, <1>3, <1>5 DEF History

LEMMA SaveKept ==
    ASSUME Shape, Shape', SaveInv, History, NEW c \in Clients, Only(c), SavePart(c)'
    PROVE  SaveInv'
<1>1. \A d \in Clients : SavePart(d)'
  BY OthersKept DEF Only
<1>2. snapshot'.revision \in Nat
  BY DEF SaveInv, History
<1> QED
  BY <1>1, <1>2 DEF SaveInv

LEMMA SameHistory ==
    ASSUME Shape, UNCHANGED <<graphs, snapshot>>
    PROVE  History
  BY SeqIsNat DEF History, Shape, Version

\* A call that compares no revision afterwards cannot disturb the invariant.
LEMMA LeavesSaves ==
    ASSUME Shape, Shape', SaveInv, UNCHANGED <<graphs, snapshot>>,
           NEW c \in Clients, Only(c), call'[c].at \notin Comparing
    PROVE  SaveInv'
  BY SameHistory, SaveKept DEF SavePart

LEMMA EndLeaves ==
    ASSUME Shape, NEW c \in Clients, NEW answer \in Ended, End(c, answer)
    PROVE  Only(c) /\ call'[c].at \notin Pending
  BY EndShape DEF Ended, Comparing, Pending

LEMMA TakeLeaves ==
    ASSUME Shape, NEW c \in Clients, call[c].at \in Making, NEW record, Take(c, record)
    PROVE  Only(c) /\ call'[c].at \notin Pending
<1>1. Only(c)
  BY TakeShape DEF Only
<1>2. call'[c].at \in {"error", "layout", "lookup"}
  <2>1. DOMAIN call = Clients /\ DOMAIN call[c] = DOMAIN NoCall /\ "at" \in DOMAIN NoCall
    BY DEF Shape, CallShape, NoCall
  <2>2. CASE ~Valid(record)
    BY <2>1, <2>2 DEF Take, End, NoCall
  <2>3. CASE Valid(record)
    <3>1. call'[c].at = IF call[c].does = "show" THEN "layout" ELSE "lookup"
      BY <2>1, <2>3 DEF Take
    <3> QED
      BY <3>1
  <2> QED
    BY <2>2, <2>3
<1> QED
  BY <1>1, <1>2 DEF Comparing, Pending

LEMMA ApplyLeaves ==
    ASSUME Shape, NEW c \in Clients, call[c].at \in Operating, NEW seen, Apply(c, seen),
           UNCHANGED graphs
    PROVE  Only(c) /\ call'[c].at \notin Pending
  BY ApplyShape DEF Ended, Comparing, Pending

\* A call that only moves on to a place.
LEMMA GotoLeaves ==
    ASSUME Shape, NEW c \in Clients, NEW q, call' = [call EXCEPT ![c] = q],
           q.at \notin Pending
    PROVE  Only(c) /\ call'[c].at \notin Pending
  BY DEF Shape, Only

LEMMA InitSave == CanvasInit => SaveInv
  BY DEF CanvasInit, SaveInv, SavePart, Comparing, NoCall

\* The calls that read comments, commit operations or show the canvas; the
\* row is only begun with what the file holds.
BeginsWithFile(c) ==
    /\ Importable(legacy)
    /\ call'[c].seen = [NoRow EXCEPT !.seq = legacy.seq, !.comments = legacy.comments]

LEMMA NoSaveMoves ==
    ASSUME Shape, NEW c \in Clients,
           Reading(c) \/ Commenting(c) \/ Show(c) \/ ShowLayout(c)
    PROVE  /\ Only(c) /\ call'[c].at \notin Comparing /\ UNCHANGED <<graphs, snapshot>>
           /\ call'[c].at = "initialize" => BeginsWithFile(c)
<1> USE DEF Pending
<1>0. /\ DOMAIN call = Clients /\ DOMAIN call[c] = DOMAIN NoCall
      /\ {"at", "seen", "tries", "version", "does"} \subseteq DOMAIN NoCall
  BY DEF Shape, CallShape, NoCall
<1>1. CASE Ensure(c)
  <2>1. call[c].at \in Making /\ UNCHANGED <<graphs, snapshot>>
    BY <1>1 DEF Ensure, At, Making, OnlyCall, store
  <2>2. CASE table.row
    BY <1>1, <2>1, <2>2, TakeLeaves DEF Ensure
  <2>3. CASE ~table.row /\ ~Importable(legacy)
    BY <1>1, <2>1, <2>3, EndLeaves DEF Ensure, Ended
  <2>4. CASE ~table.row /\ Importable(legacy)
    <3> DEFINE seen == [NoRow EXCEPT !.seq = legacy.seq, !.comments = legacy.comments]
    <3>1. call' = [call EXCEPT ![c].at = "initialize", ![c].seen = seen]
      BY <1>1, <2>4 DEF Ensure
    <3> HIDE DEF seen
    <3>2. call'[c].at = "initialize" /\ Only(c) /\ call'[c].seen = seen
      BY <1>0, <3>1 DEF Only
    <3> QED
      BY <2>1, <2>4, <3>2 DEF Comparing, BeginsWithFile, seen
  <2> QED
    BY <2>2, <2>3, <2>4
<1>2. CASE Initialize(c)
  <2>1. call' = [call EXCEPT ![c].at = "made"] /\ UNCHANGED <<graphs, snapshot>>
    BY <1>2 DEF Initialize, Goto
  <2>2. call'[c].at = "made" /\ Only(c)
    BY <1>0, <2>1 DEF Only
  <2> QED
    BY <2>1, <2>2 DEF Comparing
<1>3. CASE ReadBack(c)
  BY <1>3, TakeLeaves DEF ReadBack, At, Making, OnlyCall, store
<1>4. CASE Lookup(c)
  <2>1. call[c].at \in Operating /\ UNCHANGED <<graphs, snapshot>>
    BY <1>4 DEF Lookup, At, Operating, OnlyCall, store
  <2>2. CASE Done(call[c].id)
    BY <1>4, <2>1, <2>2, EndLeaves DEF Lookup, Ended
  <2>3. CASE ~Done(call[c].id)
    BY <1>4, <2>1, <2>3, ApplyLeaves DEF Lookup
  <2> QED
    BY <2>2, <2>3
<1>5. CASE Commit(c)
  <2>1. UNCHANGED <<graphs, snapshot>>
    BY <1>5 DEF Commit
  <2>2. \/ \E answer \in Ended : End(c, answer)
        \/ call' = [call EXCEPT ![c].at = "reread", ![c].tries = @ + 1]
    BY <1>5 DEF Commit, Ended
  <2>3. CASE \E answer \in Ended : End(c, answer)
    BY <2>1, <2>3, EndLeaves
  <2>4. CASE call' = [call EXCEPT ![c].at = "reread", ![c].tries = @ + 1]
    <3>1. call'[c].at = "reread" /\ Only(c)
      BY <1>0, <2>4 DEF Only
    <3> QED
      BY <2>1, <3>1 DEF Comparing
  <2> QED
    BY <2>2, <2>3, <2>4
<1>6. CASE Reread(c)
  <2>1. call[c].at \in Operating /\ UNCHANGED <<graphs, snapshot>>
    BY <1>6 DEF Reread, At, Operating, OnlyCall, store
  <2>2. CASE Valid(Record)
    BY <1>6, <2>1, <2>2, ApplyLeaves DEF Reread
  <2>3. CASE ~Valid(Record)
    BY <1>6, <2>1, <2>3, EndLeaves DEF Reread, Ended
  <2> QED
    BY <2>2, <2>3
<1>7. CASE Show(c)
  <2> DEFINE q == [NoCall EXCEPT !.does = "show", !.at = "ensure", !.version = Version]
  <2>1. q.at = "ensure" /\ "ensure" \notin Pending
    BY DEF NoCall, Comparing, Pending
  <2>2. call' = [call EXCEPT ![c] = q] /\ UNCHANGED <<graphs, snapshot>>
    BY <1>7 DEF Show, OnlyCall, store
  <2> HIDE DEF q
  <2> QED
    BY <2>1, <2>2, GotoLeaves
<1>8. CASE ShowLayout(c)
  BY <1>8, EndLeaves DEF ShowLayout, Ended, store
<1> QED
  BY <1>1, <1>2, <1>3, <1>4, <1>5, <1>6, <1>7, <1>8 DEF Reading, Commenting

-----------------------------------------------------------------------------
(* The three steps of a save.                                              *)

\* A save begins with the version it was shown, and that is the current one.
LEMMA SaveStarts ==
    ASSUME Shape, Shape', SaveInv, NEW c \in Clients, NEW names, NEW back \in 0 .. 1,
           back <= Version, Save(c, names, Version - back)
    PROVE  SaveInv'
<1> DEFINE version == Version - back
           q == [NoCall EXCEPT !.does = "save", !.names = names, !.version = version,
                               !.revision = snapshot.revision,
                               !.at = IF version \in {0} \cup 1 .. Version - 1
                                      THEN "stale" ELSE "revision"]
<1>1. Version \in Nat /\ version \in Nat /\ version <= Version
  BY SeqIsNat DEF Shape, Version
<1>2. /\ q.version = version /\ q.revision = snapshot.revision
      /\ q.at = IF version \in {0} \cup 1 .. Version - 1 THEN "stale" ELSE "revision"
  BY DEF NoCall
<1>3. call' = [call EXCEPT ![c] = q] /\ UNCHANGED <<graphs, snapshot>>
  BY DEF Save, OnlyCall, store
<1> HIDE DEF q
<1>4. Only(c) /\ call'[c] = q /\ Version' = Version
  BY <1>3 DEF Shape, Only, Version
<1>5. q.at \in Comparing => version # 0 /\ q.at # "save"
  BY <1>2 DEF Comparing
<1>6. snapshot.revision \in Nat
  BY DEF SaveInv
<1>7. SavePart(c)'
  BY <1>1, <1>2, <1>3, <1>4, <1>5, <1>6 DEF SavePart
<1> QED
  BY <1>3, <1>4, <1>7, SameHistory, SaveKept

\* The layout is merged in the same step that compares the revision.
LEMMA RevisionChecked ==
    ASSUME Shape, Shape', SaveInv, NEW c \in Clients, CheckRevision(c)
    PROVE  SaveInv'
<1>1. call[c].at = "revision" /\ UNCHANGED <<graphs, snapshot>>
  BY DEF CheckRevision, At, OnlyCall, store
<1>2. CASE call[c].revision # snapshot.revision
  BY <1>1, <1>2, EndLeaves, LeavesSaves DEF CheckRevision, Ended, Pending
<1>3. CASE call[c].revision = snapshot.revision
           /\ ~(call[c].names \subseteq Graph(call[c].version))
  BY <1>1, <1>3, EndLeaves, LeavesSaves DEF CheckRevision, Ended, Pending
<1>4. CASE call[c].revision = snapshot.revision
           /\ call[c].names \subseteq Graph(call[c].version)
  <2> DEFINE place == Merged(c)
  <2>1. call' = [call EXCEPT ![c].place = place, ![c].at = "save"]
    BY <1>4 DEF CheckRevision
  <2>2. \A n \in Graph(call[c].version) \ call[c].names :
          place[n] = IF n \in DOMAIN snapshot.places THEN snapshot.places[n] ELSE Seed
    BY DEF Merged, Placed
  <2> HIDE DEF place
  <2>3. DOMAIN call = Clients /\ DOMAIN call[c] = DOMAIN NoCall
    BY DEF Shape, CallShape
  <2>4. DOMAIN NoCall = {"does", "at", "id", "op", "base", "seen", "tries", "version",
                         "names", "place", "revision"}
    BY DEF NoCall
  <2>5. Only(c) /\ call'[c] = [call[c] EXCEPT !.place = place, !.at = "save"]
    BY <2>1, <2>3 DEF Only
  <2>6. /\ call'[c].version = call[c].version /\ call'[c].names = call[c].names
        /\ call'[c].revision = call[c].revision /\ call'[c].place = place
        /\ call'[c].at = "save"
    BY <2>3, <2>4, <2>5
  <2>7. Graph(call[c].version)' = Graph(call[c].version) /\ Version' = Version
    BY <1>1, <2>6 DEF Graph, Version
  <2>8. Kept(c)'
    BY <1>1, <2>2, <2>6, <2>7 DEF Kept, Graph
  <2>9. SavePart(c)'
    BY <1>1, <2>6, <2>7, <2>8 DEF SavePart, SaveInv, Comparing
  <2> QED
    BY <1>1, <2>5, <2>9, SameHistory, SaveKept
<1> QED
  BY <1>2, <1>3, <1>4

\* A save that wins moves the revision, so no other save of it can.
LEMMA SaveCommitted ==
    ASSUME Shape, Shape', SaveInv, NEW c \in Clients, CommitSave(c)
    PROVE  SaveInv'
<1>1. call[c].at = "save" /\ UNCHANGED graphs
  BY DEF CommitSave, At
<1>2. \E answer \in Ended : End(c, answer)
  BY DEF CommitSave, Ended
<1>3. Only(c) /\ call'[c].at \notin Comparing
  BY <1>2, EndLeaves DEF Pending
<1>4. History
  <2>1. CASE MaySave(call[c])
    <3>1. snapshot'.revision = call[c].revision + 1
      BY <2>1 DEF CommitSave
    <3>2. call[c].revision = snapshot.revision /\ snapshot.revision \in Nat
      BY <2>1 DEF MaySave, SaveInv
    <3> QED
      BY <1>1, <3>1, <3>2, SeqIsNat DEF History, Shape, Version
  <2>2. CASE ~MaySave(call[c])
    BY <1>1, <2>2, SameHistory DEF CommitSave
  <2> QED
    BY <2>1, <2>2
<1> QED
  BY <1>3, <1>4, SaveKept DEF SavePart

LEMMA VersionAdded ==
    ASSUME Shape, Shape', SaveInv, NEW nodes, NewVersion(nodes)
    PROVE  SaveInv'
<1>1. /\ graphs' = Append(graphs, nodes) /\ call' = call /\ snapshot' = snapshot
      /\ \E S : graphs \in Seq(S)
  BY DEF NewVersion, Shape
<1>2. Len(graphs') = Len(graphs) + 1 /\ \A v \in 1 .. Len(graphs) : graphs'[v] = graphs[v]
  BY <1>1
<1>3. History
  BY <1>1, <1>2, SeqIsNat DEF History, Version, Shape
<1>4. \A d \in Clients : SavePart(d)'
  BY <1>1, <1>3, OthersKept
<1> QED
  BY <1>1, <1>4 DEF SaveInv

LEMMA NextSave == Shape /\ Shape' /\ SaveInv /\ [CanvasNext]_vars => SaveInv'
<1> SUFFICES ASSUME Shape, Shape', SaveInv, [CanvasNext]_vars PROVE SaveInv'
  OBVIOUS
<1>1. ASSUME NEW c \in Clients, NEW id \in OperationIds, NEW op \in Asked,
             NEW base \in {NoBase, LogicalSeq}, Comment(c, id, op, base)
      PROVE  SaveInv'
  <2> DEFINE q == [NoCall EXCEPT !.does = "comment", !.at = "ensure",
                                 !.id = id, !.op = op, !.base = base]
  <2>1. q.at = "ensure" /\ "ensure" \notin Pending
    BY DEF NoCall, Comparing, Pending
  <2>2. call' = [call EXCEPT ![c] = q] /\ UNCHANGED <<graphs, snapshot>>
    BY <1>1 DEF Comment, OnlyCall, store
  <2> HIDE DEF q
  <2> QED
    BY <2>1, <2>2, GotoLeaves, LeavesSaves DEF Pending
<1>2. ASSUME NEW c \in Clients, NEW names, NEW back \in 0 .. 1, back <= Version,
             Save(c, names, Version - back)
      PROVE  SaveInv'
  BY <1>2, SaveStarts
<1>3. ASSUME NEW c \in Clients, Show(c) \/ ShowLayout(c) \/ Reading(c) \/ Commenting(c)
      PROVE  SaveInv'
  BY <1>3, NoSaveMoves, LeavesSaves
<1>4. ASSUME NEW c \in Clients, CheckRevision(c) PROVE SaveInv'
  BY <1>4, RevisionChecked
<1>5. ASSUME NEW c \in Clients, CommitSave(c) PROVE SaveInv'
  BY <1>5, SaveCommitted
<1>6. ASSUME NEW nodes, NewVersion(nodes) PROVE SaveInv'
  BY <1>6, VersionAdded
<1>7. CASE UNCHANGED vars
  <2>1. History /\ \A d \in Clients : call'[d] = call[d]
    BY <1>7, SameHistory DEF vars, store
  <2> QED
    BY <1>7, <2>1, OthersKept DEF SaveInv, vars, store
<1> QED
  BY <1>1, <1>2, <1>3, <1>4, <1>5, <1>6, <1>7 DEF CanvasNext, Saving

\* A call at "save" leaves it by its commit.
LEMMA SaveMovesOn ==
    ASSUME Shape, [CanvasNext]_vars, NEW c \in Clients, call[c].at = "save",
           call'[c].at = "ok"
    PROVE  CommitSave(c)
<1>1. ASSUME NEW d \in Clients, d # c, Only(d) PROVE FALSE
  BY <1>1 DEF Only
<1>2. ASSUME NEW d \in Clients, NEW q, call' = [call EXCEPT ![d] = q], call[d].at = "new"
      PROVE  FALSE
  BY <1>2 DEF Shape
<1>3. ASSUME NEW d \in Clients, NEW id, NEW op, NEW base, Comment(d, id, op, base)
      PROVE  FALSE
  BY <1>3, <1>2 DEF Comment, At
<1>4. ASSUME NEW d \in Clients, NEW names, NEW version, Save(d, names, version)
      PROVE  FALSE
  BY <1>4, <1>2 DEF Save, At
<1>5. ASSUME NEW d \in Clients, Show(d) \/ ShowLayout(d) \/ Reading(d) \/ Commenting(d)
      PROVE  FALSE
  <2>1. Only(d)
    BY <1>5, NoSaveMoves
  <2>2. d = c
    BY <1>1, <2>1
  <2> QED
    BY <1>5, <2>2 DEF Show, ShowLayout, Reading, Commenting, Ensure, Initialize, ReadBack,
                      Lookup, Commit, Reread, At
<1>6. ASSUME NEW d \in Clients, CheckRevision(d) PROVE FALSE
  <2>1. d # c
    BY <1>6 DEF CheckRevision, At
  <2>2. call'[c] = call[c]
    BY <1>6, <2>1 DEF CheckRevision, End, Shape
  <2> QED
    BY <2>2
<1>7. ASSUME NEW d \in Clients, CommitSave(d) PROVE d = c
  <2>1. \E answer \in Ended : End(d, answer)
    BY <1>7 DEF CommitSave, Ended
  <2> QED
    BY <1>1, <2>1, EndLeaves
<1>8. ASSUME NEW nodes, NewVersion(nodes) PROVE FALSE
  BY <1>8 DEF NewVersion
<1>9. CASE UNCHANGED vars
  BY <1>9 DEF vars
<1> QED
  BY <1>3, <1>4, <1>5, <1>6, <1>7, <1>8, <1>9 DEF CanvasNext, Saving

-----------------------------------------------------------------------------
(* Induction and recursion.  The provers cannot instantiate an operator,   *)
(* so both are stated over sets: finite sets of numbers are well founded.  *)

LEMMA LeastNatural ==
    ASSUME NEW S \in SUBSET Nat, S # {}
    PROVE  \E n \in S : \A m \in S : n <= m
<1> DEFINE T == {0 .. n : n \in S}
           R == StrictSubsetOrdering(Nat)
           F == FiniteSubsetsOf(Nat)
<1>1. T \subseteq F
  <2> SUFFICES ASSUME NEW n \in S PROVE 0 .. n \in F
    OBVIOUS
  <2>1. IsFiniteSet(0 .. n)
    BY FS_Interval
  <2> QED
    BY <2>1 DEF FiniteSubsetsOf
<1>2. T # {}
  OBVIOUS
<1>3. \E x \in T : \A y \in T : <<y, x>> \notin R
  <2>1. IsWellFoundedOn(R, F)
    BY FS_StrictSubsetOrderingWellFounded
  <2> HIDE DEF T, R, F
  <2> QED
    BY <1>1, <1>2, <2>1, WFMin, Zenon
<1>4. PICK n \in S : \A m \in S : <<0 .. m, 0 .. n>> \notin R
  BY <1>3
<1>5. ASSUME NEW m \in S, m < n PROVE FALSE
  <2>1. n \in 0 .. n /\ n \notin 0 .. m /\ 0 .. m \subseteq 0 .. n
    BY <1>5
  <2>2. <<0 .. m, 0 .. n>> \in R
    BY <2>1 DEF StrictSubsetOrdering
  <2> QED
    BY <1>4, <2>2
<1> QED
  BY <1>5

LEMMA Induction ==
    ASSUME NEW S \in SUBSET Nat, 0 \in S, \A n \in S : n + 1 \in S
    PROVE  S = Nat
<1> SUFFICES ASSUME Nat \ S # {} PROVE FALSE
  OBVIOUS
<1>1. PICK n \in Nat \ S : \A m \in Nat \ S : n <= m
  BY LeastNatural
<1>2. n - 1 \in S
  BY <1>1
<1> QED
  BY <1>2

\* A function may be defined by what each step makes of the value before it.
Steps(f, n, D, d, step) ==
    f \in [0 .. n -> D] /\ f[0] = d /\ \A i \in 1 .. n : f[i] = step[i][f[i - 1]]

LEMMA Recursion ==
    ASSUME NEW D, NEW n \in Nat, NEW d \in D, NEW step \in [1 .. n -> [D -> D]]
    PROVE  \E f : Steps(f, n, D, d, step)
<1> DEFINE Upto(k, f) == f[0] = d /\ \A i \in 1 .. k : f[i] = step[i][f[i - 1]]
           S == {k \in Nat : k <= n => \E f \in [0 .. k -> D] : Upto(k, f)}
<1>1. 0 \in S
  <2> DEFINE g == [i \in 0 .. 0 |-> d]
  <2>1. g \in [0 .. 0 -> D] /\ Upto(0, g)
    OBVIOUS
  <2> QED
    BY <2>1
<1>2. ASSUME NEW k \in S PROVE k + 1 \in S
  <2> SUFFICES ASSUME k + 1 <= n
               PROVE  \E f \in [0 .. k + 1 -> D] : Upto(k + 1, f)
    OBVIOUS
  <2>1. PICK f \in [0 .. k -> D] : Upto(k, f)
    BY <1>2
  <2> DEFINE g == [i \in 0 .. k + 1 |-> IF i = k + 1 THEN step[k + 1][f[k]] ELSE f[i]]
  <2>2. step[k + 1] \in [D -> D] /\ f[k] \in D
    OBVIOUS
  <2>3. g \in [0 .. k + 1 -> D]
    BY <2>2
  <2>4. Upto(k + 1, g)
    BY <2>1
  <2> HIDE DEF Upto, g
  <2> QED
    BY <2>3, <2>4
<1>3. S = Nat
  <2> HIDE DEF S
  <2>1. S \in SUBSET Nat
    BY DEF S
  <2> QED
    BY <2>1, <1>1, <1>2, Induction
<1> QED
  BY <1>3 DEF Steps

-----------------------------------------------------------------------------
(* What an operation makes of a list of comments.                          *)

LEMMA WithoutIsASelection ==
    ASSUME NEW comments \in Seq(Comments), NEW id
    PROVE  Without(comments, id) \in Seq(Comments) /\ Len(Without(comments, id)) <= Len(comments)
<1> DEFINE D == Seq(Comments)
           n == Len(comments)
           step == [i \in 1 .. n |-> [d \in D |->
                       IF comments[i].id = id THEN d ELSE Append(d, comments[i])]]
           Is(f) == f = [i \in 0 .. n |->
                            IF i = 0 THEN <<>>
                            ELSE IF comments[i].id = id THEN f[i - 1]
                            ELSE Append(f[i - 1], comments[i])]
           kept == CHOOSE f : Is(f)
<1>1. n \in Nat /\ \A i \in 1 .. n : comments[i] \in Comments
  OBVIOUS
<1>2. \E f : Is(f)
  <2>1. step \in [1 .. n -> [D -> D]]
    BY <1>1
  <2>2. \A i \in 1 .. n, d \in D :
            step[i][d] = IF comments[i].id = id THEN d ELSE Append(d, comments[i])
    OBVIOUS
  <2>3. <<>> \in D /\ n \in Nat
    BY <1>1
  <2>4. PICK f \in [0 .. n -> D] : f[0] = <<>> /\ \A i \in 1 .. n : f[i] = step[i][f[i - 1]]
    <3> HIDE DEF step, D, n
    <3>1. \E f : Steps(f, n, D, <<>>, step)
      BY <2>1, <2>3, Recursion
    <3> QED
      BY <3>1 DEF Steps
  <2>5. \A i \in 1 .. n : f[i] = IF comments[i].id = id THEN f[i - 1]
                                 ELSE Append(f[i - 1], comments[i])
    <3> HIDE DEF step, D, n
    <3>1. \A i \in 1 .. n : f[i - 1] \in D
      BY <2>3
    <3> QED
      BY <2>2, <2>4, <3>1
  <2>6. \A i \in 0 .. n : f[i] = IF i = 0 THEN <<>>
                                 ELSE IF comments[i].id = id THEN f[i - 1]
                                 ELSE Append(f[i - 1], comments[i])
    <3> HIDE DEF step, D, n
    <3> SUFFICES ASSUME NEW i \in 0 .. n
                 PROVE  f[i] = IF i = 0 THEN <<>>
                               ELSE IF comments[i].id = id THEN f[i - 1]
                               ELSE Append(f[i - 1], comments[i])
      OBVIOUS
    <3>1. CASE i = 0
      BY <3>1, <2>4
    <3>2. CASE i # 0
      <4>1. i \in 1 .. n
        BY <3>2, <2>3
      <4> QED
        BY <3>2, <4>1, <2>5
    <3> QED
      BY <3>1, <3>2
  <2>7. Is(f)
    BY <2>6, Zenon
  <2> QED
    BY <2>7, Zenon
<1>3. Is(kept)
  BY <1>2, Zenon
<1>4. Without(comments, id) = kept[n]
  BY Zenon DEF Without
<1> DEFINE S == {k \in Nat : k <= n => kept[k] \in D /\ Len(kept[k]) <= k}
<1> HIDE DEF kept
<1>5. S = Nat
  <2>1. 0 \in S
    BY <1>1, <1>3
  <2>2. ASSUME NEW k \in S PROVE k + 1 \in S
    <3> SUFFICES ASSUME k + 1 <= n PROVE kept[k + 1] \in D /\ Len(kept[k + 1]) <= k + 1
      OBVIOUS
    <3>1. kept[k + 1] = IF comments[k + 1].id = id THEN kept[k]
                        ELSE Append(kept[k], comments[k + 1])
      <4>1. k + 1 \in 0 .. n /\ k + 1 # 0 /\ (k + 1) - 1 = k
        BY <1>1
      <4> HIDE DEF n
      <4> QED
        BY <4>1, <1>3
    <3>2. kept[k] \in D /\ Len(kept[k]) <= k /\ Len(kept[k]) \in Nat
      OBVIOUS
    <3>3. comments[k + 1] \in Comments
      BY <1>1
    <3> QED
      BY <3>1, <3>2, <3>3
  <2> HIDE DEF S
  <2>3. S \in SUBSET Nat
    BY DEF S
  <2> QED
    BY <2>1, <2>2, <2>3, Induction
<1> QED
  BY <1>1, <1>4, <1>5

\* An operation keeps a list of comments, and adds one at most.
LEMMA AppliedComments ==
    ASSUME NEW op \in Operations, NEW comments \in Seq(Comments)
    PROVE  /\ Applied(op, comments) \in Seq(Comments)
           /\ Len(Applied(op, comments)) <= Len(comments) + 1
<1> DEFINE First(i) == comments[i].id = op.id /\ \A j \in 1 .. i - 1 : comments[j].id # op.id
           Patched(i) == IF First(i) THEN [comments[i] EXCEPT !.text = op.text] ELSE comments[i]
           patched == [i \in DOMAIN comments |-> Patched(i)]
<1>1. CASE op.kind = "add"
  <2>1. op.id \in CommentIds /\ op.text \in Texts
    BY <1>1 DEF Operations
  <2>2. [id |-> op.id, text |-> op.text] \in Comments
    BY <2>1 DEF Comments
  <2>3. Applied(op, comments) = Append(comments, [id |-> op.id, text |-> op.text])
    BY <1>1 DEF Applied
  <2> QED
    BY <2>2, <2>3
<1>2. CASE op.kind = "patch"
  <2>1. op.text \in Texts
    BY <1>2 DEF Operations
  <2>2. \A c \in Comments : [c EXCEPT !.text = op.text] \in Comments
    BY <2>1 DEF Comments
  <2>3. \A i \in DOMAIN comments : comments[i] \in Comments
    OBVIOUS
  <2> HIDE DEF First
  <2>4. \A i \in DOMAIN comments : Patched(i) \in Comments
    BY <2>2, <2>3
  <2> HIDE DEF Patched
  <2>5. patched \in [1 .. Len(comments) -> Comments]
    BY <2>4
  <2>6. patched \in Seq(Comments) /\ Len(patched) = Len(comments)
    <3> HIDE DEF patched
    <3> QED
      BY <2>5
  <2>7. Applied(op, comments) = patched
    BY <1>2 DEF Applied, Patched, First
  <2> QED
    BY <2>6, <2>7
<1>3. CASE op.kind = "delete"
  <2>1. Applied(op, comments) = Without(comments, op.id)
    BY <1>3 DEF Applied
  <2>2. Len(Without(comments, op.id)) \in Nat /\ Len(comments) \in Nat
    BY WithoutIsASelection
  <2> QED
    BY <2>1, <2>2, WithoutIsASelection
<1> QED
  BY <1>1, <1>2, <1>3 DEF Operations

-----------------------------------------------------------------------------
(* What a log makes of the comments it began with.                         *)

IsReplay(f, comments, entries) ==
    f = [i \in 0 .. Len(entries) |->
            IF i = 0 THEN comments ELSE Applied(entries[i].op, f[i - 1])]

LEMMA ReplayExists ==
    ASSUME NEW comments \in Seq(Comments), NEW entries \in Seq(Entries)
    PROVE  \E f \in [0 .. Len(entries) -> Seq(Comments)] :
               IsReplay(f, comments, entries) /\ f[Len(entries)] = Replayed(comments, entries)
<1> DEFINE D == Seq(Comments)
           n == Len(entries)
           step == [i \in 1 .. n |-> [d \in D |-> Applied(entries[i].op, d)]]
           After == CHOOSE f : IsReplay(f, comments, entries)
<1>1. n \in Nat /\ \A i \in 1 .. n : entries[i].op \in Operations
  <2>1. n \in Nat /\ \A i \in 1 .. n : entries[i] \in Entries
    OBVIOUS
  <2>2. \A e \in Entries : e.op \in Operations
    BY DEF Entries
  <2> QED
    BY <2>1, <2>2
<1>2. \E f : Steps(f, n, D, comments, step)
  <2>1. step \in [1 .. n -> [D -> D]]
    BY <1>1, AppliedComments
  <2> HIDE DEF step, n, D
  <2>2. comments \in D
    BY DEF D
  <2> QED
    BY <1>1, <2>1, <2>2, Recursion
<1>3. \A i \in 1 .. n, d \in D : step[i][d] = Applied(entries[i].op, d)
  OBVIOUS
<1>4. PICK f : Steps(f, n, D, comments, step)
  BY <1>2
<1>5. IsReplay(f, comments, entries)
  <2> HIDE DEF step, D
  <2>1. \A i \in 1 .. n : f[i - 1] \in D
    BY <1>1, <1>4 DEF Steps
  <2>2. \A i \in 1 .. n : f[i] = Applied(entries[i].op, f[i - 1])
    BY <1>1, <1>3, <1>4, <2>1 DEF Steps
  <2>3. \A i \in 0 .. n : f[i] = IF i = 0 THEN comments ELSE Applied(entries[i].op, f[i - 1])
    <3> SUFFICES ASSUME NEW i \in 0 .. n, i # 0
                 PROVE  f[i] = Applied(entries[i].op, f[i - 1])
      BY <1>4 DEF Steps
    <3>1. i \in 1 .. n
      BY <1>1
    <3> QED
      BY <2>2, <3>1
  <2>4. f = [i \in 0 .. n |-> f[i]]
    BY <1>4 DEF Steps
  <2> QED
    BY <2>3, <2>4, Zenon DEF IsReplay
<1>6. IsReplay(After, comments, entries)
  BY <1>5, Zenon
<1>7. Replayed(comments, entries) = After[n]
  BY Zenon DEF Replayed, IsReplay
<1> HIDE DEF After
<1> DEFINE S == {k \in Nat : k <= n => After[k] \in D}
<1>8. S = Nat
  <2>1. 0 \in S
    BY <1>1, <1>6 DEF IsReplay
  <2>2. ASSUME NEW k \in S PROVE k + 1 \in S
    <3> SUFFICES ASSUME k + 1 <= n PROVE After[k + 1] \in D
      OBVIOUS
    <3>1. k + 1 \in 0 .. n /\ k + 1 # 0 /\ (k + 1) - 1 = k /\ k + 1 \in 1 .. n
      BY <1>1
    <3>2. After[k] \in D
      BY <1>1
    <3>3. After[k + 1] = Applied(entries[k + 1].op, After[k])
      <4> HIDE DEF n
      <4> QED
        BY <3>1, <1>6 DEF IsReplay, n
    <3> QED
      BY <1>1, <3>1, <3>2, <3>3, AppliedComments
  <2> HIDE DEF S
  <2>3. S \in SUBSET Nat
    BY DEF S
  <2> QED
    BY <2>1, <2>2, <2>3, Induction
<1>9. After \in [0 .. n -> D]
  <2>1. \A k \in 0 .. n : After[k] \in D
    BY <1>1, <1>8
  <2>2. After = [i \in 0 .. n |-> After[i]]
    BY <1>6 DEF IsReplay
  <2> QED
    BY <2>1, <2>2
<1> QED
  BY <1>6, <1>7, <1>9

LEMMA ReplayNothing ==
    ASSUME NEW comments \in Seq(Comments)
    PROVE  Replayed(comments, <<>>) = comments
<1>1. <<>> \in Seq(Entries) /\ Len(<<>>) = 0
  OBVIOUS
<1>2. PICK f : IsReplay(f, comments, <<>>) /\ f[Len(<<>>)] = Replayed(comments, <<>>)
  BY <1>1, ReplayExists
<1>3. f[0] = comments
  BY <1>1, <1>2 DEF IsReplay
<1> QED
  BY <1>1, <1>2, <1>3

\* One more entry applies its operation to what the entries before it made.
LEMMA ReplayOneMore ==
    ASSUME NEW comments \in Seq(Comments), NEW entries \in Seq(Entries), NEW e \in Entries
    PROVE  Replayed(comments, Append(entries, e)) = Applied(e.op, Replayed(comments, entries))
<1> DEFINE longer == Append(entries, e)
           n == Len(entries)
<1>1. /\ longer \in Seq(Entries) /\ Len(longer) = n + 1 /\ n \in Nat
      /\ longer[n + 1] = e /\ \A i \in 1 .. n : longer[i] = entries[i]
  OBVIOUS
<1> HIDE DEF longer
<1>2. PICK f : IsReplay(f, comments, entries) /\ f[n] = Replayed(comments, entries)
  BY ReplayExists
<1>3. PICK g : IsReplay(g, comments, longer) /\ g[n + 1] = Replayed(comments, longer)
  BY <1>1, ReplayExists
<1> HIDE DEF n
<1>4. f[0] = comments /\ \A i \in 1 .. n : f[i] = Applied(entries[i].op, f[i - 1])
  BY <1>1, <1>2 DEF IsReplay, n
<1>5. g[0] = comments /\ \A i \in 1 .. n + 1 : g[i] = Applied(longer[i].op, g[i - 1])
  BY <1>1, <1>3 DEF IsReplay
<1> DEFINE S == {k \in Nat : k <= n => f[k] = g[k]}
<1>6. S = Nat
  <2>1. 0 \in S
    BY <1>4, <1>5
  <2>2. ASSUME NEW k \in S PROVE k + 1 \in S
    <3> SUFFICES ASSUME k + 1 <= n PROVE f[k + 1] = g[k + 1]
      OBVIOUS
    <3>1. k + 1 \in 1 .. n /\ k + 1 \in 1 .. n + 1 /\ (k + 1) - 1 = k
      BY <1>1
    <3>2. f[k] = g[k]
      BY <1>1
    <3> QED
      BY <1>1, <1>4, <1>5, <3>1, <3>2
  <2> HIDE DEF S
  <2>3. S \in SUBSET Nat
    BY DEF S
  <2> QED
    BY <2>1, <2>2, <2>3, Induction
<1>7. f[n] = g[n]
  BY <1>1, <1>6
<1>8. n + 1 \in 1 .. n + 1 /\ (n + 1) - 1 = n
  BY <1>1
<1> QED
  BY <1>1, <1>2, <1>3, <1>5, <1>7, <1>8 DEF longer

-----------------------------------------------------------------------------
(* The comments are the log.                                               *)

RowIsTheLog ==
    /\ origin \in Seq(Comments) /\ table.comments \in Seq(Comments)
    /\ table.comments = Replayed(origin, log)
    /\ ~table.row => table = NoRow /\ log = <<>>
    /\ table.row => Valid(table)

MakingPart(c) ==
    call[c].at = "initialize" => call[c].seen.comments \in Seq(Comments) /\ Valid(call[c].seen)

PlacesOK(places) ==
    DOMAIN places \subseteq Nodes /\ \A n \in DOMAIN places : places[n] \in Clients \cup {Seed}
SavingPart(c) ==
    /\ call[c].at = "save" => PlacesOK(call[c].place)

Contents ==
    /\ RowIsTheLog
    /\ PlacesOK(snapshot.places)
    /\ \A c \in Clients : MakingPart(c) /\ SavingPart(c)

LEMMA InitContents == CanvasInit => Contents
<1> SUFFICES ASSUME CanvasInit PROVE Contents
  OBVIOUS
<1>1. origin = <<>> /\ log = <<>> /\ table = NoRow /\ <<>> \in Seq(Comments)
  BY DEF CanvasInit
<1>2. table.comments = <<>> /\ ~table.row
  BY <1>1 DEF NoRow
<1>3. RowIsTheLog
  <2>1. Replayed(<<>>, <<>>) = <<>>
    BY <1>1, ReplayNothing
  <2> QED
    BY <1>1, <1>2, <2>1 DEF RowIsTheLog
<1>4. PlacesOK(snapshot.places)
  BY DEF CanvasInit, PlacesOK
<1>5. \A c \in Clients : call[c].at = "new"
  BY DEF CanvasInit, NoCall
<1> QED
  BY <1>3, <1>4, <1>5 DEF Contents, MakingPart, SavingPart

\* The row begins once, with the comments of the file, or takes an operation.
LEMMA RowSteps ==
    ASSUME Shape, [CanvasNext]_vars
    PROVE  \/ UNCHANGED <<table, origin, log>>
           \/ \E c \in Clients : Initialize(c) /\ ~table.row
           \/ \E c \in Clients :
                /\ Commit(c) /\ MayCommit(call[c]) /\ UNCHANGED origin
                /\ table' = [table EXCEPT !.seq = NextSeq,
                                 !.comments = Applied(call[c].op, call[c].seen.comments)]
                /\ log' = Append(log, [id |-> call[c].id, op |-> call[c].op])
<1>1. CASE \E c \in Clients : Commit(c)
  BY <1>1 DEF Commit
<1>2. CASE \E c \in Clients : Initialize(c)
  BY <1>2 DEF Initialize, MakesRow
<1>3. CASE \E c \in Clients : Ensure(c) \/ ReadBack(c) \/ Lookup(c) \/ Reread(c) \/ Saving(c)
                               \/ Show(c) \/ ShowLayout(c)
  BY <1>3 DEF Ensure, ReadBack, Lookup, Reread, Saving, CheckRevision,
              CommitSave, Show, ShowLayout, OnlyCall, store
<1>4. CASE \E c \in Clients, id \in OperationIds, op \in Asked, base \in {NoBase, LogicalSeq} :
               Comment(c, id, op, base)
  BY <1>4 DEF Comment, OnlyCall, store
<1>5. CASE \E c \in Clients, names \in (SUBSET Nodes) \ {{}}, back \in 0 .. 1 :
               back <= Version /\ Save(c, names, Version - back)
  BY <1>5 DEF Save, OnlyCall, store
<1>6. CASE \E nodes \in Graphs : NewVersion(nodes)
  BY <1>6 DEF NewVersion
<1>7. CASE UNCHANGED vars
  BY <1>7 DEF vars, store
<1> QED
  BY <1>1, <1>2, <1>3, <1>4, <1>5, <1>6, <1>7 DEF CanvasNext, Commenting, Reading

LEMMA RowMade ==
    ASSUME Shape, Contents, NEW c \in Clients, Initialize(c), ~table.row
    PROVE  RowIsTheLog'
<1> DEFINE v == call[c].seen
<1>1. call[c].at = "initialize" /\ v.comments \in Seq(Comments) /\ Len(v.comments) <= v.seq
  BY DEF Initialize, At, Contents, MakingPart, Valid
<1>2. v.seq \in Nat /\ Version \in Nat
  BY <1>1, SeqIsNat DEF Shape, CallShape
<1>3. /\ table' = [row |-> TRUE, seq |-> Larger(v.seq, Version), comments |-> v.comments]
      /\ origin' = v.comments /\ log' = <<>>
  BY DEF Initialize, MakesRow, Contents, RowIsTheLog
<1>4. table'.row /\ table'.seq = Larger(v.seq, Version) /\ table'.comments = v.comments
  BY <1>3
<1>5. Replayed(origin', log') = table'.comments
  BY <1>1, <1>3, <1>4, ReplayNothing
<1>6. Len(table'.comments) <= table'.seq
  <2>1. Len(v.comments) \in Nat
    BY <1>1
  <2> QED
    BY <1>1, <1>2, <1>4, <2>1 DEF Larger
<1> QED
  BY <1>1, <1>3, <1>4, <1>5, <1>6 DEF RowIsTheLog, Valid

LEMMA RowCommitted ==
    ASSUME Shape, Views, Contents, NEW c \in Clients, Commit(c), MayCommit(call[c]),
           UNCHANGED origin,
           table' = [table EXCEPT !.seq = NextSeq,
                                  !.comments = Applied(call[c].op, call[c].seen.comments)],
           log' = Append(log, [id |-> call[c].id, op |-> call[c].op])
    PROVE  RowIsTheLog'
<1>1. call[c].at = "commit" /\ call[c].op \in Operations /\ call[c].id \in OperationIds
  BY DEF Commit, At, Shape, CallShape, Operating
<1>2. table.row
  BY <1>1 DEF Views, Operating
<1> DEFINE op == call[c].op
           e == [id |-> call[c].id, op |-> op]
<1>3. e \in Entries /\ e.op = op /\ op \in Operations /\ log \in Seq(Entries)
  BY <1>1 DEF Entries, Shape
<1>4. /\ table'.comments = Applied(op, table.comments) /\ table'.seq = NextSeq
      /\ table'.row = table.row
  BY <1>1, CommitIsCurrent DEF Shape
<1>5. /\ origin \in Seq(Comments) /\ table.comments \in Seq(Comments)
      /\ table.comments = Replayed(origin, log) /\ Len(table.comments) <= table.seq
  BY <1>2 DEF Contents, RowIsTheLog, Valid
<1> HIDE DEF op, e
<1>6. table'.comments \in Seq(Comments) /\ Len(table'.comments) <= Len(table.comments) + 1
  BY <1>3, <1>4, <1>5, AppliedComments
<1>7. log' = Append(log, e)
  BY DEF e, op
<1>8. Replayed(origin, log') = table'.comments
  BY <1>3, <1>4, <1>5, <1>7, ReplayOneMore
<1>9. Len(table'.comments) <= table'.seq
  <2>1. LogicalSeq \in Nat /\ LogicalSeq >= table.seq /\ table.seq \in Nat
    BY SeqIsNat DEF Shape
  <2>2. Len(table.comments) \in Nat /\ Len(table'.comments) \in Nat
    BY <1>5, <1>6
  <2> QED
    BY <1>4, <1>5, <1>6, <2>1, <2>2 DEF NextSeq
<1> QED
  BY <1>2, <1>4, <1>5, <1>6, <1>8, <1>9 DEF RowIsTheLog, Valid

LEMMA NextRow == Shape /\ Views /\ Contents /\ [CanvasNext]_vars => RowIsTheLog'
<1> SUFFICES ASSUME Shape, Views, Contents, [CanvasNext]_vars PROVE RowIsTheLog'
  OBVIOUS
<1>1. CASE UNCHANGED <<table, origin, log>>
  BY <1>1 DEF Contents, RowIsTheLog, Valid
<1> QED
  BY <1>1, RowSteps, RowMade, RowCommitted

\* What the calls hold for the steps to come.
LEMMA PartsKept ==
    ASSUME Contents, NEW c \in Clients, Only(c), MakingPart(c)', SavingPart(c)'
    PROVE  \A d \in Clients : MakingPart(d)' /\ SavingPart(d)'
  BY DEF Contents, MakingPart, SavingPart, Only, Valid

LEMMA FileIsFit ==
    ASSUME Shape, NEW c \in Clients, BeginsWithFile(c)
    PROVE  call'[c].seen.comments \in Seq(Comments) /\ Valid(call'[c].seen)
<1>1. legacy.seq \in Nat /\ legacy.comments \in Seq(Comments)
  BY CanvasAssumption DEF Shape
<1>2. Len(legacy.comments) <= legacy.seq
  BY DEF BeginsWithFile, Importable, Valid
<1>3. call'[c].seen.seq = legacy.seq /\ call'[c].seen.comments = legacy.comments
  BY DEF BeginsWithFile, NoRow
<1> QED
  BY <1>1, <1>2, <1>3 DEF Valid

LEMMA MergedIsPlaced ==
    ASSUME Shape, SaveInv, Contents, NEW c \in Clients, call[c].at = "revision"
    PROVE  PlacesOK(Merged(c))
<1>1. call[c].version \in 1 .. Version /\ Version = Len(graphs)
  <2>1. Version \in Nat
    BY SeqIsNat DEF Shape
  <2> QED
    BY <2>1 DEF SaveInv, SavePart, Comparing, Version
<1>2. Graph(call[c].version) \subseteq Nodes
  BY <1>1, CanvasAssumption DEF Graph, Shape
<1> DEFINE at == Placed(call[c].version, snapshot.places)
<1>3. DOMAIN at = Graph(call[c].version) /\ \A n \in DOMAIN at : at[n] \in Clients \cup {Seed}
  BY DEF Placed, Contents, PlacesOK
<1> HIDE DEF at
<1>4. Merged(c) = [n \in DOMAIN at |-> IF n \in call[c].names THEN c ELSE at[n]]
  BY DEF Merged, at
<1> QED
  BY <1>2, <1>3, <1>4 DEF PlacesOK

LEMMA PlaceTaken ==
    ASSUME Shape, SaveInv, Contents, NEW c \in Clients, CheckRevision(c)
    PROVE  Only(c) /\ MakingPart(c)' /\ SavingPart(c)' /\ UNCHANGED snapshot
<1>1. call[c].at = "revision" /\ UNCHANGED snapshot
  BY DEF CheckRevision, At, OnlyCall, store
<1>2. CASE \E answer \in Ended : End(c, answer)
  BY <1>1, <1>2, EndLeaves DEF Pending, Comparing, MakingPart, SavingPart
<1>3. CASE call' = [call EXCEPT ![c].place = Merged(c), ![c].at = "save"]
  <2> DEFINE place == Merged(c)
  <2>1. PlacesOK(place)
    BY <1>1, MergedIsPlaced
  <2>2. call' = [call EXCEPT ![c].place = place, ![c].at = "save"]
    BY <1>3
  <2> HIDE DEF place
  <2>3. DOMAIN call = Clients /\ DOMAIN call[c] = DOMAIN NoCall
        /\ {"place", "at"} \subseteq DOMAIN NoCall
    BY DEF Shape, CallShape, NoCall
  <2>4. Only(c) /\ call'[c] = [call[c] EXCEPT !.place = place, !.at = "save"]
    BY <2>2, <2>3 DEF Only
  <2>5. call'[c].at = "save" /\ call'[c].place = place
    BY <2>3, <2>4
  <2> QED
    BY <1>1, <2>1, <2>4, <2>5 DEF MakingPart, SavingPart, PlacesOK
<1> QED
  BY <1>2, <1>3 DEF CheckRevision, Ended

LEMMA NextParts ==
    ASSUME Shape, SaveInv, Contents, [CanvasNext]_vars
    PROVE  /\ PlacesOK(snapshot.places)'
           /\ \A d \in Clients : MakingPart(d)' /\ SavingPart(d)'
<1> DEFINE Quiet(c) == Only(c) /\ call'[c].at \notin {"initialize", "save"}
<1>0. UNCHANGED snapshot => PlacesOK(snapshot.places)'
  BY DEF Contents, PlacesOK
<1>1. ASSUME NEW c \in Clients, Quiet(c), UNCHANGED snapshot
      PROVE  /\ PlacesOK(snapshot.places)'
             /\ \A d \in Clients : MakingPart(d)' /\ SavingPart(d)'
  BY <1>0, <1>1, PartsKept DEF MakingPart, SavingPart
<1>2. ASSUME NEW c \in Clients, NEW id \in OperationIds, NEW op \in Asked,
             NEW base \in {NoBase, LogicalSeq}, Comment(c, id, op, base)
      PROVE  Quiet(c) /\ UNCHANGED snapshot
  <2> DEFINE q == [NoCall EXCEPT !.does = "comment", !.at = "ensure",
                                 !.id = id, !.op = op, !.base = base]
  <2>1. q.at = "ensure" /\ "ensure" \notin Pending
    BY DEF NoCall, Comparing, Pending
  <2>2. call' = [call EXCEPT ![c] = q] /\ UNCHANGED snapshot
    BY <1>2 DEF Comment, OnlyCall, store
  <2> HIDE DEF q
  <2> QED
    BY <2>1, <2>2, GotoLeaves DEF Pending, Comparing
<1>3. ASSUME NEW c \in Clients, NEW names, NEW back \in 0 .. 1, back <= Version,
             Save(c, names, Version - back)
      PROVE  Quiet(c) /\ UNCHANGED snapshot
  <2> DEFINE version == Version - back
             q == [NoCall EXCEPT !.does = "save", !.names = names, !.version = version,
                                 !.revision = snapshot.revision,
                                 !.at = IF version \in {0} \cup 1 .. Version - 1
                                        THEN "stale" ELSE "revision"]
  <2>1. q.at \in {"stale", "revision"}
    BY DEF NoCall
  <2>2. call' = [call EXCEPT ![c] = q] /\ UNCHANGED snapshot
    BY <1>3 DEF Save, OnlyCall, store
  <2> HIDE DEF q
  <2>3. Only(c) /\ call'[c] = q
    BY <2>2 DEF Shape, Only
  <2> QED
    BY <2>1, <2>2, <2>3
<1>4. ASSUME NEW c \in Clients, Show(c) \/ ShowLayout(c) \/ Reading(c) \/ Commenting(c)
      PROVE  /\ PlacesOK(snapshot.places)'
             /\ \A d \in Clients : MakingPart(d)' /\ SavingPart(d)'
  <2>1. /\ Only(c) /\ call'[c].at \notin Comparing /\ UNCHANGED <<graphs, snapshot>>
        /\ call'[c].at = "initialize" => BeginsWithFile(c)
    BY <1>4, NoSaveMoves
  <2>2. MakingPart(c)'
    BY <2>1, FileIsFit DEF MakingPart, Valid
  <2>3. SavingPart(c)'
    BY <2>1 DEF SavingPart, Comparing
  <2> QED
    BY <1>0, <2>1, <2>2, <2>3, PartsKept
<1>5. ASSUME NEW c \in Clients, CheckRevision(c)
      PROVE  /\ PlacesOK(snapshot.places)'
             /\ \A d \in Clients : MakingPart(d)' /\ SavingPart(d)'
  BY <1>0, <1>5, PlaceTaken, PartsKept
<1>6. ASSUME NEW c \in Clients, CommitSave(c)
      PROVE  /\ PlacesOK(snapshot.places)'
             /\ \A d \in Clients : MakingPart(d)' /\ SavingPart(d)'
  <2>1. Only(c) /\ call'[c].at \notin Pending
    BY <1>6, EndLeaves DEF CommitSave, Ended
  <2>2. call[c].at = "save" /\ PlacesOK(call[c].place)
    BY <1>6 DEF CommitSave, At, Contents, SavingPart
  <2>3. PlacesOK(snapshot.places)'
    <3>1. CASE MaySave(call[c])
      <4>1. snapshot'.places = call[c].place
        BY <1>6, <3>1 DEF CommitSave
      <4> QED
        BY <2>2, <4>1 DEF PlacesOK
    <3>2. CASE ~MaySave(call[c])
      BY <1>0, <1>6, <3>2 DEF CommitSave
    <3> QED
      BY <3>1, <3>2
  <2> QED
    BY <2>1, <2>3, PartsKept DEF Pending, Comparing, MakingPart, SavingPart
<1>7. CASE (\E nodes \in Graphs : NewVersion(nodes)) \/ UNCHANGED vars
  <2>1. UNCHANGED <<call, snapshot>>
    BY <1>7 DEF NewVersion, vars, store
  <2> QED
    BY <1>0, <2>1 DEF Contents, MakingPart, SavingPart, PlacesOK, Valid
<1> HIDE DEF Quiet
<1> QED
  BY <1>1, <1>2, <1>3, <1>4, <1>5, <1>6, <1>7 DEF CanvasNext, Saving

-----------------------------------------------------------------------------
(* The theorems.                                                           *)

\* Every reachable state is of the shape above: the calls name operations
\* and versions that exist, and the rows hold what their columns may hold.
THEOREM ShapeHolds == CanvasSpec => []Shape
  BY InitShape, NextShape, PTL DEF CanvasSpec

\* What a call has read, or was shown, is what the row holds or is behind it.
THEOREM ViewsHold == CanvasSpec => []Views
<1>1. Shape /\ Shape' /\ Views /\ [CanvasNext]_vars => Views'
  BY NextViews
<1> QED
  BY <1>1, InitViews, ShapeHolds, PTL DEF CanvasSpec

\* A save that may still win was computed from the layout that is there.
THEOREM SavesTracked == CanvasSpec => []SaveInv
  BY InitSave, NextSave, ShapeHolds, PTL DEF CanvasSpec

\* An operation id commits one operation, whoever repeats it and however the
\* requests interleave (commit_canvas_comment_operation, GH120 P3).
THEOREM CommitsOnce == CanvasSpec => []OperationsCommitOnce
<1>1. CanvasSpec => []LogInv
  BY InitLog, NextLog, ShapeHolds, PTL DEF CanvasSpec
<1>2. LogInv => OperationsCommitOnce
  BY DEF LogInv
<1> QED
  BY <1>1, <1>2, PTL

\* A sequence names the comments: two clients that were shown the same one
\* were shown the same comments (canvas_document_payload, GH120 P7).
THEOREM SequenceNamesComments == CanvasSpec => []SeqNamesComments
<1>1. Views => SeqNamesComments
  BY DEF Views, SeqNamesComments, Agree
<1> QED
  BY <1>1, ViewsHold, PTL

\* No commit loses another's comment: whatever was read, and however long
\* ago, each operation is applied to the comments the row holds when it is
\* committed (apply_canvas_comment_op, the compare-and-swap on seq).
CommitsOnWhatIsThere ==
    [][log' # log => \E op \in Operations : table'.comments = Applied(op, table.comments)
                        /\ \E id \in OperationIds : log' = Append(log, [id |-> id, op |-> op])]_vars
THEOREM NoCommentIsLost == CanvasSpec => CommitsOnWhatIsThere
<1>1. ASSUME Shape, Views, [CanvasNext]_vars, log' # log
      PROVE  \E op \in Operations :
                /\ table'.comments = Applied(op, table.comments)
                /\ \E id \in OperationIds : log' = Append(log, [id |-> id, op |-> op])
  <2>1. PICK c \in Clients :
            /\ Commit(c) /\ MayCommit(call[c])
            /\ table' = [table EXCEPT !.seq = NextSeq,
                             !.comments = Applied(call[c].op, call[c].seen.comments)]
            /\ log' = Append(log, [id |-> call[c].id, op |-> call[c].op])
    BY <1>1, LogSteps
  <2>2. call[c].at = "commit" /\ call[c].op \in Operations /\ call[c].id \in OperationIds
    BY <1>1, <2>1 DEF Commit, At, Shape, CallShape, Operating
  <2>3. call[c].seen.comments = table.comments
    BY <1>1, <2>1, <2>2, CommitIsCurrent
  <2>4. table'.comments = Applied(call[c].op, table.comments)
    BY <1>1, <2>1, <2>3 DEF Shape
  <2> QED
    BY <2>1, <2>2, <2>4
<1>2. Shape /\ Views /\ [CanvasNext]_vars =>
        [log' # log => \E op \in Operations : table'.comments = Applied(op, table.comments)
            /\ \E id \in OperationIds : log' = Append(log, [id |-> id, op |-> op])]_vars
  BY <1>1
<1> QED
  BY <1>2, ShapeHolds, ViewsHold, PTL DEF CanvasSpec, CommitsOnWhatIsThere

\* A save changes only the nodes it names, whatever was saved since its client
\* read the layout (save_canvas_snapshot, commit_canvas_snapshot).
THEOREM SavesHold == CanvasSpec => SavesTouchOnlyTheirNodes
<1> DEFINE OnlyTheirs ==
        \A c \in Clients :
            At(c, "save") /\ call'[c].at = "ok" =>
                \A n \in Graph(call[c].version) \ call[c].names :
                    snapshot'.places[n] = IF n \in DOMAIN snapshot.places
                                          THEN snapshot.places[n] ELSE Seed
<1>2. ASSUME Shape, SaveInv, [CanvasNext]_vars PROVE [OnlyTheirs]_vars
  <2> SUFFICES ASSUME NEW c \in Clients, call[c].at = "save", call'[c].at = "ok",
                      NEW n \in Graph(call[c].version) \ call[c].names
               PROVE  snapshot'.places[n] = IF n \in DOMAIN snapshot.places
                                            THEN snapshot.places[n] ELSE Seed
    BY DEF At
  <2>1. CommitSave(c)
    BY <1>2, SaveMovesOn
  <2>2. MaySave(call[c])
    <3>1. CASE ~MaySave(call[c])
      <4>1. End(c, "stale") /\ "stale" \in Ended
        BY <2>1, <3>1 DEF CommitSave, Ended
      <4> QED
        BY <1>2, <4>1, EndShape
    <3> QED
      BY <3>1
  <2>3. snapshot'.places = call[c].place
    BY <2>1, <2>2 DEF CommitSave
  <2>4. Kept(c)
    BY <1>2, <2>2 DEF MaySave, SaveInv, SavePart, Comparing
  <2> QED
    BY <2>3, <2>4 DEF Kept
<1>3. Shape /\ SaveInv /\ [CanvasNext]_vars => [OnlyTheirs]_vars
  BY <1>2
<1> QED
  BY <1>3, SavesTracked, ShapeHolds, PTL DEF CanvasSpec, SavesTouchOnlyTheirNodes

\* The row holds what the committed operations make of the comments it began
\* with, whatever each of them was computed from, and every column what it may
\* hold (apply_canvas_comment_op, commit_canvas_comment_operation, GH120 P1).
THEOREM CommentsFollowTheLog == CanvasSpec => []CommentsAreTheLog
<1>1. Shape /\ Views /\ SaveInv /\ Contents /\ [CanvasNext]_vars => Contents'
  BY NextRow, NextParts DEF Contents
<1>2. Shape /\ SaveInv /\ Contents => CommentsAreTheLog
  BY DEF Shape, SaveInv, Contents, RowIsTheLog, PlacesOK, CommentsAreTheLog, CanvasTypeOK, Nothing
<1> QED
  BY <1>1, <1>2, InitContents, ShapeHolds, ViewsHold, SavesTracked, PTL DEF CanvasSpec
=============================================================================
