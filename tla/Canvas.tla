------------------------------- MODULE Canvas -------------------------------
(***************************************************************************)
(* What the users of one workspace share on its canvas: the comments, each *)
(* operation committed once by a compare-and-swap on the sequence, and the *)
(* layout, saved by a compare-and-swap on its revision.  Both are read     *)
(* beside a version history that moves on by itself; the canvas shown to a *)
(* client is put together from several reads.                              *)
(*                                                                         *)
(* A handler's step is one statement or transaction on SQLite, or the read *)
(* of the legacy file; other handlers run between any two.                 *)
(***************************************************************************)
EXTENDS Naturals, Sequences, FiniteSets

CONSTANTS
    Clients,      \* calls the server receives; a save also names its layout
    Does,         \* what they may ask: "comment", "save", "show"
    OperationIds, \* operation ids clients choose and repeat
    CommentIds, Texts,
    Files,        \* what an older release may have left in the comments file
    Asked,        \* the operations clients ask for
    Nodes,
    Graphs,       \* the sets of nodes a version may have
    Seed,         \* the place a graph file gives its node
    NoBase,       \* an operation without baseSeq
    MaxVersions,  \* bound: versions of the graph
    MaxRetries    \* MAX_COMPATIBILITY_CAS_RETRIES

Comments == [id : CommentIds, text : Texts]
Operations ==
    [kind : {"add", "patch"}, id : CommentIds, text : Texts] \cup
    [kind : {"delete"}, id : CommentIds]

ASSUME CanvasAssumption ==
    /\ Asked \subseteq Operations
    /\ \A f \in Files : /\ f.is \in {"absent", "invalid", "valid"}
                        /\ f.seq \in Nat /\ f.comments \in Seq(Comments)
                        /\ f.is # "valid" => f.seq = 0 /\ f.comments = <<>>
    /\ Graphs \subseteq SUBSET Nodes
    /\ MaxVersions \in Nat /\ MaxRetries \in Nat
    /\ Seed \notin Clients /\ NoBase \notin Nat

VARIABLES
    graphs,    \* the nodes of each version, in the order of idx
    legacy,    \* canvas/<workspace>/comments.json
    table,     \* the row of canvas_comment_states; no row: seq is NoRow.seq
    committed, \* canvas_comment_operations: operation id -> what was done
    snapshot,  \* the row of canvas_snapshots
    call,      \* the calls
    origin,    \* the comments the row began with (history)
    log,       \* the operations in the order of their commits (history)
    shown      \* sequences and comments the clients were shown (history)

store == <<graphs, legacy, table, committed, snapshot>>
vars == <<store, call, origin, log, shown>>

NoRow == [row |-> FALSE, seq |-> 0, comments |-> <<>>]
NoCall ==
    [does |-> "none", at |-> "new", id |-> "none",
     op |-> [kind |-> "none"], base |-> NoBase, seen |-> NoRow, tries |-> 0,
     version |-> 0, names |-> {}, place |-> <<>>, revision |-> 0]
Ended == {"ok", "stale", "repeated", "reused", "exists", "missing", "unknown", "error"}

Version == Len(graphs)
Graph(v) == IF v = 0 THEN {} ELSE graphs[v]
Larger(m, n) == IF m > n THEN m ELSE n

-----------------------------------------------------------------------------
(* The comments as a list, and what an operation does to it.               *)

Has(comments, id) == \E i \in DOMAIN comments : comments[i].id = id

Applies(op, comments) == (op.kind = "add") # Has(comments, op.id)
Refusal(op) == IF op.kind = "add" THEN "exists" ELSE "missing"

\* The comments whose id is another one, in their order.
Without(comments, id) ==
    LET kept[i \in 0 .. Len(comments)] ==
            IF i = 0 THEN <<>>
            ELSE IF comments[i].id = id THEN kept[i - 1]
            ELSE Append(kept[i - 1], comments[i])
    IN kept[Len(comments)]

Applied(op, comments) ==
    LET First(i) == comments[i].id = op.id /\ \A j \in 1 .. i - 1 : comments[j].id # op.id
        Patched(i) == IF First(i) THEN [comments[i] EXCEPT !.text = op.text] ELSE comments[i]
    IN CASE op.kind = "add"    -> Append(comments, [id |-> op.id, text |-> op.text])
         [] op.kind = "patch"  -> [i \in DOMAIN comments |-> Patched(i)]
         [] op.kind = "delete" -> Without(comments, op.id)

\* No snapshot is ahead of its sequence.
Valid(state) == Len(state.comments) <= state.seq

\* The sequence every reader is given: never behind the current version.
LogicalSeq == Larger(table.seq, Version)
Record == [table EXCEPT !.seq = LogicalSeq]

-----------------------------------------------------------------------------
(* How a call goes on.                                                     *)

At(c, place) == call[c].at = place
Goto(c, place) == call' = [call EXCEPT ![c].at = place]
\* An ended call keeps only its answer.
End(c, answer) == call' = [call EXCEPT ![c] = [NoCall EXCEPT !.at = answer]]
OnlyCall == UNCHANGED <<store, origin, log, shown>>

-----------------------------------------------------------------------------
(* Every reader of the comments makes their row first: from the file of an *)
(* older release when there is one, else empty.                            *)

Take(c, record) ==
    IF ~Valid(record) THEN End(c, "error")
    ELSE call' = [call EXCEPT ![c].seen = record,
                              ![c].at = IF call[c].does = "show" THEN "layout"
                                        ELSE "lookup"]

Importable(file) == file.is # "invalid" /\ Valid(file)

Ensure(c) ==
    /\ At(c, "ensure")
    /\ IF table.row THEN Take(c, Record)
       ELSE IF ~Importable(legacy) THEN End(c, "error")
       ELSE call' = [call EXCEPT ![c].at = "initialize",
                                 ![c].seen = [NoRow EXCEPT !.seq = legacy.seq,
                                                           !.comments = legacy.comments]]
    /\ OnlyCall

\* ON CONFLICT(workspace_id) DO NOTHING
MakesRow == ~table.row

Initialize(c) ==
    /\ At(c, "initialize")
    /\ LET seen == call[c].seen IN
       IF MakesRow
       THEN /\ table' = [row |-> TRUE, seq |-> Larger(seen.seq, Version),
                         comments |-> seen.comments]
            /\ origin' = seen.comments
       ELSE UNCHANGED <<table, origin>>
    /\ Goto(c, "made")
    /\ UNCHANGED <<graphs, legacy, committed, snapshot, log, shown>>

ReadBack(c) ==
    /\ At(c, "made")
    /\ Take(c, Record)
    /\ OnlyCall

-----------------------------------------------------------------------------
(* apply_canvas_comment_op.  A client repeats an operation with its id, or *)
(* uses an id again by mistake; its base is the sequence it was shown.     *)

Comment(c, id, op, base) ==
    /\ At(c, "new") /\ "comment" \in Does
    /\ call' = [call EXCEPT ![c] = [NoCall EXCEPT !.does = "comment", !.at = "ensure",
                                                  !.id = id, !.op = op, !.base = base]]
    /\ OnlyCall

Done(id) == committed[id].kind # "none"

\* The operation on the comments as they were read.
Apply(c, seen) ==
    LET q == call[c] IN
    IF q.base \notin {NoBase, seen.seq} THEN End(c, "stale")
    ELSE IF ~Applies(q.op, seen.comments) THEN End(c, Refusal(q.op))
    ELSE call' = [call EXCEPT ![c].at = "commit", ![c].seen = seen]

Lookup(c) ==
    /\ At(c, "lookup")
    /\ LET q == call[c] IN
       IF Done(q.id) THEN End(c, IF committed[q.id] = q.op THEN "ok" ELSE "reused")
       ELSE Apply(c, q.seen)
    /\ OnlyCall

NextSeq == LogicalSeq + 1

\* Mutant: the sequence is not compared again.
MayCommitBlindly(q) == TRUE

\* expected_seq is the base, or the sequence that was read.
MayCommit(q) == q.seen.seq = LogicalSeq

\* Mutant: an operation is known by its content only.
KnownContent(q) == Done(q.id) /\ committed[q.id] = q.op

Known(q) == Done(q.id)

\* commit_canvas_comment_operation, one transaction.
Commit(c) ==
    /\ At(c, "commit")
    /\ LET q == call[c] IN
       \/ /\ Known(q)
          /\ End(c, IF committed[q.id] = q.op THEN "ok" ELSE "reused")
          /\ UNCHANGED <<table, committed, log>>
       \/ /\ ~Known(q) /\ ~MayCommit(q)
          /\ IF q.base # NoBase THEN End(c, "stale")
             ELSE IF q.tries = MaxRetries THEN End(c, "repeated")
             ELSE call' = [call EXCEPT ![c].at = "reread", ![c].tries = @ + 1]
          /\ UNCHANGED <<table, committed, log>>
       \/ /\ ~Known(q) /\ MayCommit(q)
          /\ table' = [table EXCEPT !.seq = NextSeq,
                                    !.comments = Applied(q.op, q.seen.comments)]
          /\ committed' = [committed EXCEPT ![q.id] = q.op]
          /\ log' = Append(log, [id |-> q.id, op |-> q.op])
          /\ End(c, "ok")
    /\ UNCHANGED <<graphs, legacy, snapshot, origin, shown>>

Reread(c) ==
    /\ At(c, "reread")
    /\ IF Valid(Record) THEN Apply(c, Record) ELSE End(c, "error")
    /\ OnlyCall

-----------------------------------------------------------------------------
(* workspace_canvas_value: the version, then the comments, then the layout.*)

Show(c) ==
    /\ At(c, "new") /\ "show" \in Does
    /\ call' = [call EXCEPT ![c] = [NoCall EXCEPT !.does = "show", !.at = "ensure",
                                                  !.version = Version]]
    /\ OnlyCall

\* canvas_document_payload: where a node is, and where its graph put it
\* when no layout says.
Placed(v, layout) ==
    [n \in Graph(v) |-> IF n \in DOMAIN layout THEN layout[n] ELSE Seed]

\* Mutant: the sequence of the document is the version's.
ShownSeqOfVersion(q) == q.version

ShownSeq(q) == Larger(q.version, q.seen.seq)

ShowLayout(c) ==
    /\ At(c, "layout")
    /\ LET q == call[c] IN
       shown' = shown \cup {[seq |-> ShownSeq(q), comments |-> q.seen.comments]}
    /\ End(c, "ok")
    /\ UNCHANGED <<store, origin, log>>

-----------------------------------------------------------------------------
(* save_canvas_snapshot.  The client names the version and the revision it *)
(* was shown, and the nodes it moved: each goes to a place of this save.   *)

Save(c, names, version) ==
    /\ At(c, "new") /\ "save" \in Does
    /\ call' = [call EXCEPT ![c] =
          [NoCall EXCEPT !.does = "save", !.names = names, !.version = version,
                         !.revision = snapshot.revision,
                         !.at = IF version \in {0} \cup 1 .. Version - 1
                                THEN "stale" ELSE "revision"]]
    /\ OnlyCall

\* snapshot_for_graph, apply_positions: exactly the nodes of the graph.
Merged(c) ==
    LET at == Placed(call[c].version, snapshot.places)
    IN [n \in DOMAIN at |-> IF n \in call[c].names THEN c ELSE at[n]]

CheckRevision(c) ==
    /\ At(c, "revision")
    /\ LET q == call[c] IN
       IF q.revision # snapshot.revision THEN End(c, "stale")
       ELSE IF ~(q.names \subseteq Graph(q.version)) THEN End(c, "unknown")
       ELSE call' = [call EXCEPT ![c].place = Merged(c), ![c].at = "save"]
    /\ OnlyCall

\* Mutant: the revision is not compared again.
MaySaveBlindly(q) == TRUE

\* WHERE canvas_snapshots.revision = ?
MaySave(q) == q.revision = snapshot.revision

CommitSave(c) ==
    /\ At(c, "save")
    /\ LET q == call[c] IN
       IF MaySave(q)
       THEN snapshot' = [revision |-> q.revision + 1, places |-> q.place] /\ End(c, "ok")
       ELSE UNCHANGED snapshot /\ End(c, "stale")
    /\ UNCHANGED <<graphs, legacy, table, committed, origin, log, shown>>

-----------------------------------------------------------------------------
(* Beside the calls: a new version, with a graph of its own, and an older  *)
(* release that still writes the file.                                     *)

NewVersion(nodes) ==
    /\ Version < MaxVersions
    /\ graphs' = Append(graphs, nodes)
    /\ UNCHANGED <<legacy, table, committed, snapshot, call, origin, log, shown>>

\* An importing release never writes the file: it differs only between two
\* releases.
CanvasInit ==
    /\ graphs = <<>>
    /\ legacy \in Files
    /\ table = NoRow
    /\ committed = [i \in OperationIds |-> [kind |-> "none"]]
    /\ snapshot = [revision |-> 0, places |-> <<>>]
    /\ call = [c \in Clients |-> NoCall]
    /\ origin = <<>> /\ log = <<>> /\ shown = {}

Reading(c) == Ensure(c) \/ Initialize(c) \/ ReadBack(c)
Commenting(c) == Lookup(c) \/ Commit(c) \/ Reread(c)
Saving(c) == CheckRevision(c) \/ CommitSave(c)

CanvasNext ==
    \/ \E c \in Clients, id \in OperationIds, op \in Asked,
          base \in {NoBase, LogicalSeq} : Comment(c, id, op, base)
    \/ \E c \in Clients, names \in (SUBSET Nodes) \ {{}}, back \in 0 .. 1 :
          back <= Version /\ Save(c, names, Version - back)
    \/ \E c \in Clients :
          Show(c) \/ ShowLayout(c) \/ Reading(c) \/ Commenting(c) \/ Saving(c)
    \/ \E nodes \in Graphs : NewVersion(nodes)

CanvasSpec == CanvasInit /\ [][CanvasNext]_vars

-----------------------------------------------------------------------------
(* Properties.                                                             *)

(* The columns hold what they may hold, and no snapshot is ahead of its    *)
(* sequence, which every reader would take for a corrupt row.              *)
CanvasTypeOK ==
    /\ graphs \in Seq(Graphs)
    /\ table.seq \in Nat /\ table.comments \in Seq(Comments)
    /\ ~table.row => table = NoRow
    /\ table.row => Valid(table)
    /\ \A i \in OperationIds : committed[i] \in Operations \cup {[kind |-> "none"]}
    /\ snapshot.revision \in Nat /\ DOMAIN snapshot.places \subseteq Nodes
    /\ \A n \in DOMAIN snapshot.places : snapshot.places[n] \in Clients \cup {Seed}

\* What the entries make of the comments, one after the other.
Replayed(comments, entries) ==
    LET after[i \in 0 .. Len(entries)] ==
            IF i = 0 THEN comments ELSE Applied(entries[i].op, after[i - 1])
    IN after[Len(entries)]

(* No confirmed comment is lost: what the row holds is what the committed  *)
(* operations make of the comments it began with, one after the other,     *)
(* although each was computed on comments read before (GH120 P1, P7).      *)
CommentsAreTheLog == CanvasTypeOK /\ table.comments = Replayed(origin, log)

(* An operation id commits one operation, however often and with whatever  *)
(* content it is sent, and the log of ids has every commit (GH120 P3).     *)
OperationsCommitOnce ==
    /\ \A i, j \in DOMAIN log : log[i].id = log[j].id => i = j
    /\ \A i \in DOMAIN log : committed[log[i].id] = log[i].op
    /\ Cardinality({i \in OperationIds : Done(i)}) = Len(log)

(* Two clients that are shown the same sequence are shown the same         *)
(* comments, so a base that matches has seen everything: also when the     *)
(* version, not the comments, moved the sequence.                          *)
SeqNamesComments == \A a, b \in shown : a.seq = b.seq => a.comments = b.comments

(* A save changes only the nodes it names: it never takes back a place     *)
(* another save was confirmed with, although it was merged into a layout   *)
(* read before.  It adds the nodes of its graph, and drops the others.     *)
SavesTouchOnlyTheirNodes ==
    [][\A c \in Clients :
          At(c, "save") /\ call'[c].at = "ok" =>
              \A n \in Graph(call[c].version) \ call[c].names :
                  snapshot'.places[n] = IF n \in DOMAIN snapshot.places
                                        THEN snapshot.places[n] ELSE Seed]_vars

(* A repeated operation that was committed is answered as a success: GH120 *)
(* P3, "重放返回成功".                                                       *)
RepeatsSucceed ==
    [][\A c \in Clients :
          /\ call[c].does = "comment" /\ call[c].at \notin Ended
          /\ committed[call[c].id] = call[c].op
          => call'[c].at \notin {"exists", "missing", "stale"}]_vars
=============================================================================
