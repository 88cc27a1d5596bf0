--------------------------- MODULE VersionsProofs ---------------------------
(***************************************************************************)
(* What the version history keeps true for every number of requests, keys, *)
(* graphs, faults and crashes: it is linear, its files are there, proposals*)
(* and keyed requests take effect once, and orphans are accounted for.     *)
(***************************************************************************)
EXTENDS Versions, FiniteSetTheorems, TLAPS

-----------------------------------------------------------------------------
(* The strengthening: what the requests that are under way know.           *)

\* Where a request is between its checks and its transaction.
Publishing == {"temp", "link", "untemp", "tx"}

RequestShape ==
    /\ DOMAIN req = Requests
    /\ \A c \in Requests : DOMAIN req[c] = DOMAIN NewRequest

\* A workspace is created once; until then no other request is possible.
Creation ==
    /\ \A c, d \in Requests : req[c].op = "create" /\ req[d].op = "create" => c = d
    /\ \A c \in Requests : req[c].op = "create" /\ req[c].at \in Publishing => versions = <<>>
    /\ \A c \in Requests : req[c].op \notin {"none", "create"} => versions # <<>>

LinearInv ==
    /\ \E S : versions \in Seq(S)
    /\ RequestShape
    /\ Creation
    /\ HistoryIsLinear

\* What every step of a request but its first does to the requests.
Moves(c) ==
    /\ RequestShape'
    /\ \A d \in Requests \ {c} : req'[d] = req[d]
    /\ req'[c].op = req[c].op
    /\ req[c].op = "create" /\ req'[c].at \in Publishing => req[c].at \in Publishing

LEMMA Fields ==
    DOMAIN NewRequest = {"op", "at", "base", "key", "body", "cur", "conn", "target", "i",
                         "replay", "code", "temp", "final"}
  BY DEF NewRequest

\* A request whose place changes, and nothing its creation depends on.
LEMMA GotoMoves ==
    ASSUME RequestShape, NEW c \in Requests, NEW label, Goto(c, label),
           req[c].op = "create" /\ label \in Publishing => req[c].at \in Publishing
    PROVE  Moves(c) /\ req'[c].at = label
<1>1. DOMAIN req = Requests /\ DOMAIN req[c] = DOMAIN NewRequest
  BY DEF RequestShape
<1>2. req'[c] = [req[c] EXCEPT !.at = label] /\ DOMAIN req' = Requests
      /\ \A d \in Requests \ {c} : req'[d] = req[d]
  BY <1>1 DEF Goto
<1>3. req'[c].at = label /\ req'[c].op = req[c].op /\ DOMAIN req'[c] = DOMAIN NewRequest
  BY <1>1, <1>2, Fields
<1> QED
  BY <1>2, <1>3 DEF Moves, RequestShape

LEMMA SetMoves ==
    ASSUME RequestShape, NEW c \in Requests, NEW q, Set(c, q),
           DOMAIN q = DOMAIN NewRequest, q.op = req[c].op,
           req[c].op = "create" /\ q.at \in Publishing => req[c].at \in Publishing
    PROVE  Moves(c) /\ req'[c] = q
<1>1. req'[c] = q /\ DOMAIN req' = Requests /\ \A d \in Requests \ {c} : req'[d] = req[d]
  BY DEF RequestShape, Set
<1> QED
  BY <1>1 DEF Moves, RequestShape

\* A step that leaves the history alone keeps the invariant.
LEMMA MovesKeepLinear ==
    ASSUME LinearInv, NEW c \in Requests, Moves(c), UNCHANGED <<versions, current>>
    PROVE  LinearInv'
<1>1. Creation'
  BY DEF LinearInv, Creation, Moves
<1> QED
  BY <1>1 DEF LinearInv, Moves, HistoryIsLinear

\* A version that was made from the last one becomes the last one.
LEMMA AppendKeepsLinear ==
    ASSUME LinearInv, NEW row,
           versions' = Append(versions, row), current' = Len(versions) + 1,
           versions # <<>> => row.parent = current
    PROVE  HistoryIsLinear' /\ (\E S : versions' \in Seq(S)) /\ versions' # <<>>
<1>1. PICK S : versions \in Seq(S)
  BY DEF LinearInv
<1>2. versions \in Seq(S \cup {row})
  BY <1>1
<1>3. versions' \in Seq(S \cup {row})
  BY <1>2
<1>4. /\ Len(versions') = Len(versions) + 1 /\ Len(versions) \in Nat
      /\ \A v \in 1 .. Len(versions) : versions'[v] = versions[v]
      /\ versions'[Len(versions) + 1] = row
  BY <1>2
<1>5. \A v \in DOMAIN versions' : v > 1 => versions'[v].parent = v - 1
  BY <1>1, <1>3, <1>4 DEF LinearInv, HistoryIsLinear
<1> QED
  BY <1>3, <1>4, <1>5 DEF HistoryIsLinear

\* Once the history has grown nobody is creating the workspace any more.
LEMMA CommitKeepsLinear ==
    ASSUME LinearInv, NEW c \in Requests, Moves(c), req[c].at = "tx", req'[c].at \notin Publishing,
           NEW row, versions' = Append(versions, row), current' = Len(versions) + 1,
           req[c].op # "none", req[c].op # "create" => row.parent = current
    PROVE  LinearInv'
<1>1. versions # <<>> => row.parent = current
  BY DEF LinearInv, Creation, Publishing
<1>2. HistoryIsLinear' /\ (\E S : versions' \in Seq(S)) /\ versions' # <<>>
  BY <1>1, AppendKeepsLinear
<1>3. \A d \in Requests : req'[d].op = "create" => req'[d].at \notin Publishing
  BY DEF LinearInv, Creation, Moves, Publishing
<1>4. Creation'
  BY <1>2, <1>3 DEF LinearInv, Creation, Moves
<1> QED
  BY <1>2, <1>4 DEF LinearInv, Moves

-----------------------------------------------------------------------------
(* The steps.                                                              *)

LEMMA EndKeepsLinear ==
    ASSUME LinearInv, NEW c \in Requests, NEW how, how \notin Publishing, End(c, how)
    PROVE  LinearInv'
  BY GotoMoves, MovesKeepLinear DEF End, rows, LinearInv

LEMMA GotoKeepsLinear ==
    ASSUME LinearInv, NEW c \in Requests, NEW label, Goto(c, label),
           req[c].op = "create" /\ label \in Publishing => req[c].at \in Publishing,
           UNCHANGED <<versions, current>>
    PROVE  LinearInv'
  BY GotoMoves, MovesKeepLinear DEF LinearInv

LEMMA SetKeepsLinear ==
    ASSUME LinearInv, NEW c \in Requests, NEW q, Set(c, q),
           DOMAIN q = DOMAIN NewRequest, q.op = req[c].op,
           req[c].op = "create" /\ q.at \in Publishing => req[c].at \in Publishing,
           UNCHANGED <<versions, current>>
    PROVE  LinearInv'
  BY SetMoves, MovesKeepLinear DEF LinearInv

LEMMA InitLinear == Init => LinearInv
<1> SUFFICES ASSUME Init PROVE LinearInv
  OBVIOUS
<1>1. RequestShape /\ \A c \in Requests : req[c].op = "none"
  BY DEF Init, RequestShape, NewRequest
<1>2. CASE versions = <<>> /\ current = 0
  <2>1. versions \in Seq({0})
    BY <1>2
  <2> QED
    BY <1>1, <1>2, <2>1 DEF LinearInv, Creation, HistoryIsLinear
<1>3. CASE versions = <<LegacyVersion>> /\ current = 1
  <2>1. versions \in Seq({LegacyVersion}) /\ Len(versions) = 1
    BY <1>3
  <2>2. HistoryIsLinear
    BY <1>3, <2>1 DEF HistoryIsLinear
  <2>3. Creation
    BY <1>1 DEF Creation
  <2> QED
    BY <1>1, <2>1, <2>2, <2>3 DEF LinearInv
<1> QED
  BY <1>2, <1>3 DEF Init

LEMMA ReceiveKeepsLinear ==
    ASSUME LinearInv, NEW c \in Requests, Receive(c)
    PROVE  LinearInv'
<1>1. PICK op \in Ops, base \in DOMAIN versions \cup {0}, key \in Keys \cup {NoKey},
           body \in Bodies :
        /\ (op = "create") <=> (base = 0)
        /\ op = "create" => versions = <<>> /\ \A d \in Requests : req[d].op # "create"
        /\ Set(c, [NewRequest EXCEPT !.op = op, !.base = base, !.key = key, !.body = body,
                       !.at = IF op = "create" THEN "temp" ELSE "read"])
  BY DEF Receive
<1>2. UNCHANGED <<versions, current>>
  BY DEF Receive, rows
<1> DEFINE q == [NewRequest EXCEPT !.op = op, !.base = base, !.key = key, !.body = body,
                                   !.at = IF op = "create" THEN "temp" ELSE "read"]
<1>3. DOMAIN q = DOMAIN NewRequest /\ q.op = op /\ (q.at \in Publishing => op = "create")
  BY DEF NewRequest, Publishing
<1>4. Set(c, q)
  BY <1>1
<1> HIDE DEF q
<1>5. RequestShape' /\ req'[c] = q /\ \A d \in Requests \ {c} : req'[d] = req[d]
  BY <1>3, <1>4 DEF Set, LinearInv, RequestShape
<1>6. op # "create" => versions # <<>>
  <2> SUFFICES ASSUME op # "create", versions = <<>> PROVE FALSE
    OBVIOUS
  <2>1. base \in DOMAIN versions
    BY <1>1
  <2>2. DOMAIN versions = 1 .. Len(versions) /\ Len(versions) = 0
    BY DEF LinearInv
  <2> QED
    BY <2>1, <2>2
<1>7. Creation'
  BY <1>1, <1>2, <1>3, <1>5, <1>6 DEF LinearInv, Creation
<1> QED
  BY <1>2, <1>5, <1>7 DEF LinearInv, HistoryIsLinear

\* Every transaction appends the version its request made from the last one.
LEMMA TransactionAppends ==
    ASSUME LinearInv, NEW c \in Requests, Transaction(c)
    PROVE  /\ req[c].op # "none"
           /\ \E row : /\ versions' = Append(versions, row) /\ current' = Len(versions) + 1
                       /\ req[c].op # "create" => row.parent = current
<1> DEFINE Row(parent, source, file, hash) ==
        [parent |-> parent, source |-> source, file |-> file, hash |-> hash]
<1>1. ASSUME NEW parent, NEW source, NEW file, NEW hash, Append1(c, parent, source, file, hash),
             req[c].op # "none", req[c].op # "create" => parent = current
      PROVE  /\ req[c].op # "none"
             /\ \E row : /\ versions' = Append(versions, row) /\ current' = Len(versions) + 1
                         /\ req[c].op # "create" => row.parent = current
  <2>1. Row(parent, source, file, hash).parent = parent
    OBVIOUS
  <2> QED
    BY <1>1, <2>1 DEF Append1
<1>2. ASSUME NEW source, NEW file, NEW hash, InsertVersion(c, source, file, hash),
             req[c].op # "none"
      PROVE  /\ req[c].op # "none"
             /\ \E row : /\ versions' = Append(versions, row) /\ current' = Len(versions) + 1
                         /\ req[c].op # "create" => row.parent = current
  BY <1>1, <1>2 DEF InsertVersion
<1>3. CASE CreateWorkspaceWithInitialVersion(c)
  BY <1>1, <1>3 DEF CreateWorkspaceWithInitialVersion
<1>4. CASE CreateVersionWithoutPendingProposal(c)
  BY <1>1, <1>4 DEF CreateVersionWithoutPendingProposal, OpsMayCommit
<1>5. CASE CreateRestoreVersion(c)
  BY <1>2, <1>5 DEF CreateRestoreVersion
<1>6. CASE CreateVersionAfterApplyingProposal(c)
  BY <1>2, <1>6 DEF CreateVersionAfterApplyingProposal
<1>7. CASE AutoApplyProposalVersion(c)
  BY <1>2, <1>7 DEF AutoApplyProposalVersion
<1>8. CASE ApplyVersionMigration(c)
  BY <1>1, <1>8 DEF ApplyVersionMigration, MayMigrate
<1> QED
  BY <1>3, <1>4, <1>5, <1>6, <1>7, <1>8 DEF Transaction

\* A committed request, or one whose answer was lost, is past its transaction.
LEMMA TransactionKeepsLinear ==
    ASSUME LinearInv, NEW c \in Requests, At(c, "tx"), Transaction(c), Moves(c),
           req'[c].at \notin Publishing
    PROVE  LinearInv'
<1>1. PICK row : /\ versions' = Append(versions, row) /\ current' = Len(versions) + 1
                 /\ req[c].op # "create" => row.parent = current
  BY TransactionAppends
<1> QED
  BY <1>1, TransactionAppends, CommitKeepsLinear DEF At

LEMMA PrepareKeepsLinear ==
    ASSUME LinearInv, NEW c \in Requests, NEW fits, Prepare(c, fits), req[c].op # "create"
    PROVE  LinearInv'
  BY EndKeepsLinear, GotoKeepsLinear DEF Prepare, rows, Publishing

LEMMA NextLinear == LinearInv /\ [Next]_vars => LinearInv'
<1> SUFFICES ASSUME LinearInv, [Next]_vars PROVE LinearInv'
  OBVIOUS
<1> \A c \in Requests : DOMAIN req[c] = DOMAIN NewRequest
  BY DEF LinearInv, RequestShape
<1>1. ASSUME NEW c \in Requests, ReadProposal(c) PROVE LinearInv'
  BY <1>1, EndKeepsLinear, GotoKeepsLinear DEF ReadProposal, rows, Publishing
<1>2. ASSUME NEW c \in Requests, ReadOperation(c) PROVE LinearInv'
  BY <1>2, GotoKeepsLinear DEF ReadOperation, Publishing
<1>3. ASSUME NEW c \in Requests, ReadWorkspace(c) PROVE LinearInv'
  <2> DEFINE q == [req[c] EXCEPT !.cur = current, !.conn = connector,
                                 !.target = TargetOf(c), !.at = "graph"]
  <2>1. DOMAIN q = DOMAIN NewRequest /\ q.op = req[c].op /\ q.at = "graph"
    BY Fields
  <2>2. CASE Set(c, q)
    BY <1>3, <2>1, <2>2, SetKeepsLinear DEF ReadWorkspace, Publishing
  <2>3. CASE Goto(c, "refused")
    BY <1>3, <2>3, GotoKeepsLinear DEF ReadWorkspace, Publishing
  <2> QED
    BY <1>3, <2>2, <2>3 DEF ReadWorkspace
<1>4. ASSUME NEW c \in Requests,
             PrepareOps(c) \/ PrepareRestore(c) \/ PrepareAgentApply(c) \/ PrepareApply(c)
      PROVE  LinearInv'
  BY <1>4, PrepareKeepsLinear DEF PrepareOps, PrepareRestore, PrepareAgentApply, PrepareApply
<1>5. ASSUME NEW c \in Requests, AssessAndMigrate(c) PROVE LinearInv'
  <2>1. \E label : Goto(c, label) /\ req[c].op = "migrate" /\ UNCHANGED <<versions, current>>
    BY <1>5 DEF AssessAndMigrate
  <2> QED
    BY <2>1, GotoKeepsLinear
<1>6. ASSUME NEW c \in Requests, WriteTemp(c) PROVE LinearInv'
  <2> DEFINE q == [req[c] EXCEPT !.temp = TRUE, !.at = "link"]
  <2>1. DOMAIN q = DOMAIN NewRequest /\ q.op = req[c].op /\ q.at = "link"
    BY Fields
  <2> QED
    BY <1>6, <2>1, SetKeepsLinear DEF WriteTemp, At, Publishing, rows
<1>7. ASSUME NEW c \in Requests, PublishNoReplace(c) PROVE LinearInv'
  <2>1. ASSUME NEW q, Set(c, q), DOMAIN q = DOMAIN NewRequest, q.op = req[c].op
        PROVE  LinearInv'
    BY <1>7, <2>1, SetKeepsLinear DEF PublishNoReplace, At, Publishing, rows
  <2>2. CASE Collides(c)
    <3> DEFINE q == [req[c] EXCEPT !.temp = FALSE, !.at = "replay"]
    <3>1. DOMAIN q = DOMAIN NewRequest /\ q.op = req[c].op
      BY Fields
    <3> QED
      BY <1>7, <2>1, <2>2, <3>1 DEF PublishNoReplace
  <2>3. CASE ~Collides(c)
    <3> DEFINE q == [req[c] EXCEPT !.final = @ \cup {Candidate(c)}, !.at = "untemp"]
    <3>1. DOMAIN q = DOMAIN NewRequest /\ q.op = req[c].op
      BY Fields
    <3> QED
      BY <1>7, <2>1, <2>3, <3>1 DEF PublishNoReplace
  <2> QED
    BY <2>2, <2>3
<1>8. ASSUME NEW c \in Requests, RemoveTemp(c) PROVE LinearInv'
  <2> DEFINE q == IF req[c].i < Len(Candidates(c))
                  THEN [req[c] EXCEPT !.temp = FALSE, !.i = @ + 1, !.at = "temp"]
                  ELSE [req[c] EXCEPT !.temp = FALSE, !.at = "tx"]
  <2>1. DOMAIN q = DOMAIN NewRequest /\ q.op = req[c].op
    BY Fields
  <2> QED
    BY <1>8, <2>1, SetKeepsLinear DEF RemoveTemp, At, Publishing, rows
<1>9. ASSUME NEW c \in Requests, PublishFails(c) PROVE LinearInv'
  <2> DEFINE q == [req[c] EXCEPT !.temp = FALSE, !.final = {}, !.at = "failed"]
  <2>1. DOMAIN q = DOMAIN NewRequest /\ q.op = req[c].op /\ q.at = "failed"
    BY Fields
  <2> QED
    BY <1>9, <2>1, SetKeepsLinear DEF PublishFails, Publishing, rows
<1>10. ASSUME NEW c \in Requests, Commit(c) PROVE LinearInv'
  <2>1. Moves(c) /\ req'[c].at = "ok"
    BY <1>10, GotoMoves DEF Commit, LinearInv, Publishing
  <2> QED
    BY <1>10, <2>1, TransactionKeepsLinear DEF Commit, Publishing
<1>11. ASSUME NEW c \in Requests, Conflict(c) PROVE LinearInv'
  <2> DEFINE q == [req[c] EXCEPT !.at = "clean", !.i = 1, !.code = "CONFLICT"]
  <2>1. DOMAIN q = DOMAIN NewRequest /\ q.op = req[c].op /\ q.at = "clean"
    BY Fields
  <2> QED
    BY <1>11, <2>1, SetKeepsLinear DEF Conflict, Publishing, rows
<1>12. ASSUME NEW c \in Requests, MigrationReplayed(c) PROVE LinearInv'
  <2>1. PICK replay, code :
            Set(c, [req[c] EXCEPT !.at = "clean", !.i = 1, !.replay = replay, !.code = code])
    BY <1>12 DEF MigrationReplayed
  <2> DEFINE q == [req[c] EXCEPT !.at = "clean", !.i = 1, !.replay = replay, !.code = code]
  <2>2. DOMAIN q = DOMAIN NewRequest /\ q.op = req[c].op /\ q.at = "clean"
    BY Fields
  <2> QED
    BY <1>12, <2>1, <2>2, SetKeepsLinear DEF MigrationReplayed, Publishing, rows
<1>13. ASSUME NEW c \in Requests, TransactionFails(c) PROVE LinearInv'
  <2> DEFINE q == [req[c] EXCEPT !.at = "clean", !.i = 1]
  <2>1. DOMAIN q = DOMAIN NewRequest /\ q.op = req[c].op /\ q.at = "clean"
    BY Fields
  <2>2. Moves(c) /\ req'[c] = q
    BY <1>13, <2>1, SetMoves DEF TransactionFails, LinearInv, Publishing
  <2>3. CASE Transaction(c)
    BY <1>13, <2>1, <2>2, <2>3, TransactionKeepsLinear DEF TransactionFails, Publishing
  <2>4. CASE UNCHANGED rows
    BY <2>2, <2>4, MovesKeepLinear DEF rows
  <2> QED
    BY <1>13, <2>3, <2>4 DEF TransactionFails
<1>14. ASSUME NEW c \in Requests, CleanupAfterStoreError(c) PROVE LinearInv'
  <2> DEFINE q == [req[c] EXCEPT !.i = @ + 1, !.final = @ \ {Candidate(c)}]
  <2>1. DOMAIN q = DOMAIN NewRequest /\ q.op = req[c].op /\ q.at = req[c].at
    BY Fields
  <2>2. CASE Set(c, q) /\ UNCHANGED rows
    BY <1>14, <2>1, <2>2, SetKeepsLinear DEF CleanupAfterStoreError, At, Publishing, rows
  <2>3. CASE Goto(c, Cleaned(c)) /\ UNCHANGED <<versions, current>>
    BY <2>3, GotoKeepsLinear DEF Cleaned, Publishing
  <2> QED
    BY <1>14, <2>2, <2>3 DEF CleanupAfterStoreError
<1>15. ASSUME NEW c \in Requests, CleanupDeferred(c) PROVE LinearInv'
  <2> DEFINE q == [req[c] EXCEPT !.i = @ + 1, !.replay = FALSE, !.code = "none",
                                 !.final = @ \ {Candidate(c)}]
  <2>1. DOMAIN q = DOMAIN NewRequest /\ q.op = req[c].op /\ q.at = req[c].at
    BY Fields
  <2> QED
    BY <1>15, <2>1, SetKeepsLinear DEF CleanupDeferred, At, Publishing, rows
<1>16. ASSUME NEW c \in Requests, Replay(c) PROVE LinearInv'
  BY <1>16, EndKeepsLinear DEF Replay, Publishing
<1>17. ASSUME NEW c \in Requests, ResolveProposal(c) PROVE LinearInv'
  BY <1>17, EndKeepsLinear, GotoKeepsLinear DEF ResolveProposal, Publishing
<1>18. ASSUME NEW c \in Requests, TellDismissed(c) \/ SetWorkspaceProvider(c) PROVE LinearInv'
  BY <1>18, GotoKeepsLinear DEF TellDismissed, SetWorkspaceProvider, Publishing
<1>19. ASSUME NEW c \in Requests, Disconnect(c) PROVE LinearInv'
  BY <1>19, GotoKeepsLinear DEF Disconnect, Publishing, rows
<1>20. CASE Crash
  <2>1. /\ UNCHANGED <<versions, current>> /\ DOMAIN req' = Requests
        /\ \A c \in Requests :
              req'[c] = IF req[c].at \in Ended \cup {"new"} THEN req[c]
                        ELSE [req[c] EXCEPT !.at = "gone"]
    BY <1>20 DEF Crash, rows
  <2>2. \A c \in Requests :
            /\ DOMAIN req'[c] = DOMAIN NewRequest
            /\ req'[c].op = req[c].op
            /\ req'[c].at \notin Publishing
    BY <2>1, Fields DEF Ended, Publishing
  <2> QED
    BY <2>1, <2>2 DEF LinearInv, RequestShape, Creation, HistoryIsLinear
<1>21. CASE VerifyReferences \/ RemoveOrphan \/ RemoveOrphanFails \/ Serve \/ UNCHANGED vars
  BY <1>21 DEF VerifyReferences, RemoveOrphan, RemoveOrphanFails, Serve, vars, rows,
               LinearInv, RequestShape, Creation, HistoryIsLinear
<1> QED
  BY ReceiveKeepsLinear, <1>1, <1>2, <1>3, <1>4, <1>5, <1>6, <1>7, <1>8, <1>9, <1>10, <1>11,
     <1>12, <1>13, <1>14, <1>15, <1>16, <1>17, <1>18, <1>19, <1>20, <1>21 DEF Next

-----------------------------------------------------------------------------
(* The theorems.                                                           *)

\* Two writers that start from one version cannot both win: by whichever of
\* the six transactions they come, each version but the first was made from
\* the one before it (the comparison of workspaces.cur_version_id).
THEOREM LinearHistory == Spec => []HistoryIsLinear
<1>1. LinearInv => HistoryIsLinear
  BY DEF LinearInv
<1> QED
  BY <1>1, InitLinear, NextLinear, PTL DEF Spec

-----------------------------------------------------------------------------
(* The rows.  What a transaction inserts, and the shape of what is there.   *)

RowShape ==
    /\ Len(versions) <= MaxVersions
    /\ versions # <<>> => versions[1].parent = 0
    /\ \A p \in proposals : /\ DOMAIN p = DOMAIN LegacyProposal
                             /\ p.state \in {"pending", "applied", "dismissed"}

NewFile(c, row) == row.file = Candidate(c) /\ row.hash = req[c].body

\* What the transaction of a request does with its version row.
Commits(c, row) ==
    \/ /\ req[c].op = "create" /\ row.source = "manual" /\ NewFile(c, row)
       /\ UNCHANGED <<proposals, messages, migrations>>
    \/ /\ req[c].op = "ops" /\ row.source = "manual" /\ NewFile(c, row)
       /\ row.parent = req[c].base /\ UNCHANGED <<proposals, messages, migrations>>
    \/ /\ req[c].op \in {"undo", "restore"} /\ row.source = "restore"
       /\ row.file = versions[req[c].target].file /\ row.hash = versions[req[c].target].hash
       /\ UNCHANGED <<proposals, messages, migrations>>
    \/ /\ req[c].op = "apply" /\ row.source = "proposal" /\ NewFile(c, row)
       /\ \E p \in proposals :
            /\ p.id = Legacy /\ p.state = "pending"
            /\ proposals' = (proposals \ {p}) \cup {MarkApplied(p)}
            /\ messages' = messages \cup {[kind |-> "proposal_applied", ref |-> p.id]}
       /\ UNCHANGED migrations
    \/ /\ req[c].op = "agent" /\ row.source = "proposal"
       /\ row.file = AgentCandidates(c)[3] /\ row.hash = req[c].body
       /\ \E base : proposals' = proposals \cup
            {[id |-> c, base |-> base, state |-> "applied", result |-> Len(versions) + 1,
              files |-> {AgentCandidates(c)[1], AgentCandidates(c)[2]}]}
       /\ messages' = messages \cup {[kind |-> "proposal_applied", ref |-> c]}
       /\ UNCHANGED migrations
    \/ /\ req[c].op = "migrate" /\ row.source = "migration" /\ NewFile(c, row)
       /\ row.parent = req[c].base
       /\ FindOperation(req[c].key) = {}
       /\ migrations' = migrations \cup {[op |-> req[c].key, fp |-> Fingerprint(req[c]),
                                          target |-> Len(versions) + 1]}
       /\ UNCHANGED <<proposals, messages>>

LEMMA TransactionRow ==
    ASSUME LinearInv, NEW c \in Requests, At(c, "tx"), Transaction(c)
    PROVE  \E row : /\ versions' = Append(versions, row) /\ current' = Len(versions) + 1
                    /\ Len(versions) < MaxVersions /\ row.parent = current
                    /\ Commits(c, row)
<1> DEFINE Row(parent, source, file, hash) ==
        [parent |-> parent, source |-> source, file |-> file, hash |-> hash]
           Goal == \E row : /\ versions' = Append(versions, row) /\ current' = Len(versions) + 1
                            /\ Len(versions) < MaxVersions /\ row.parent = current
                            /\ Commits(c, row)
<1>0. Len(versions) < MaxVersions
  BY DEF Transaction
<1>1. ASSUME NEW parent, NEW source, NEW file, NEW hash, Append1(c, parent, source, file, hash),
             parent = current,
             ASSUME NEW row, row.parent = parent, row.source = source, row.file = file,
                    row.hash = hash
             PROVE  Commits(c, row)
      PROVE  Goal
  <2>1. PICK row : row = Row(parent, source, file, hash)
    OBVIOUS
  <2>2. row.parent = parent /\ row.source = source /\ row.file = file /\ row.hash = hash
    BY <2>1
  <2>3. versions' = Append(versions, row) /\ current' = Len(versions) + 1
    BY <1>1, <2>1 DEF Append1
  <2>4. Commits(c, row)
    BY <1>1, <2>2
  <2> QED BY <1>0, <1>1, <2>2, <2>3, <2>4
<1>2. CASE CreateWorkspaceWithInitialVersion(c)
  <2>1. current = 0
    BY <1>2 DEF CreateWorkspaceWithInitialVersion, LinearInv, Creation, HistoryIsLinear, At,
                Publishing
  <2> QED BY <1>1, <1>2, <2>1 DEF CreateWorkspaceWithInitialVersion, Commits, NewFile
<1>3. CASE CreateVersionWithoutPendingProposal(c)
  BY <1>1, <1>3 DEF CreateVersionWithoutPendingProposal, OpsMayCommit, Commits, NewFile
<1>4. CASE CreateRestoreVersion(c)
  BY <1>1, <1>4 DEF CreateRestoreVersion, InsertVersion, Commits
<1>5. CASE CreateVersionAfterApplyingProposal(c)
  BY <1>1, <1>5 DEF CreateVersionAfterApplyingProposal, InsertVersion, MayApply, Commits, NewFile
<1>6. CASE AutoApplyProposalVersion(c)
  <2>1. Last(AgentCandidates(c)) = AgentCandidates(c)[3]
    BY DEF Last, AgentCandidates
  <2> QED BY <1>1, <1>6, <2>1 DEF AutoApplyProposalVersion, InsertVersion, Commits
<1>7. CASE ApplyVersionMigration(c)
  BY <1>1, <1>7 DEF ApplyVersionMigration, MayMigrate, Commits, NewFile
<1> QED
  BY <1>2, <1>3, <1>4, <1>5, <1>6, <1>7 DEF Transaction

\* What appending a row leaves and adds.
LEMMA Appended ==
    ASSUME LinearInv, NEW row, versions' = Append(versions, row)
    PROVE  /\ Len(versions) \in Nat /\ Len(versions') = Len(versions) + 1
           /\ DOMAIN versions = 1 .. Len(versions) /\ DOMAIN versions' = 1 .. Len(versions) + 1
           /\ \A v \in DOMAIN versions : versions'[v] = versions[v]
           /\ versions'[Len(versions) + 1] = row
<1>1. PICK S : versions \in Seq(S)
  BY DEF LinearInv
<1>2. versions \in Seq(S \cup {row})
  BY <1>1
<1> QED BY <1>2

\* The rows change in a transaction, and when a proposal is dismissed or told so.
LEMMA RowsStep ==
    ASSUME [Next]_vars
    PROVE  \/ UNCHANGED <<versions, proposals, messages, migrations>>
           \/ \E c \in Requests : /\ At(c, "tx") /\ Transaction(c)
                                  /\ Commit(c) \/ TransactionFails(c)
           \/ \E c \in Requests : ResolveProposal(c) \/ TellDismissed(c)
<1> DEFINE Same == UNCHANGED <<versions, proposals, messages, migrations>>
<1>1. ASSUME NEW c \in Requests,
             \/ Receive(c) \/ ReadProposal(c) \/ ReadOperation(c) \/ ReadWorkspace(c)
             \/ PrepareOps(c) \/ PrepareRestore(c) \/ PrepareAgentApply(c) \/ PrepareApply(c)
             \/ AssessAndMigrate(c)
      PROVE  Same
  BY <1>1 DEF Receive, ReadProposal, ReadOperation, ReadWorkspace, PrepareOps, PrepareRestore,
       PrepareAgentApply, PrepareApply, Prepare, AssessAndMigrate, End, rows
<1>2. ASSUME NEW c \in Requests,
             \/ WriteTemp(c) \/ PublishNoReplace(c) \/ RemoveTemp(c) \/ PublishFails(c)
             \/ Conflict(c) \/ MigrationReplayed(c)
             \/ CleanupAfterStoreError(c) \/ CleanupDeferred(c) \/ Replay(c)
             \/ SetWorkspaceProvider(c) \/ Disconnect(c)
      PROVE  Same
  BY <1>2 DEF WriteTemp, PublishNoReplace, RemoveTemp, PublishFails, Conflict, MigrationReplayed,
       CleanupAfterStoreError, CleanupDeferred, Replay, SetWorkspaceProvider,
       Disconnect, End, rows
<1>3. ASSUME Crash \/ VerifyReferences \/ RemoveOrphan \/ RemoveOrphanFails \/ Serve
             \/ UNCHANGED vars
      PROVE  Same
  BY <1>3 DEF Crash, VerifyReferences, RemoveOrphan, RemoveOrphanFails, Serve, vars, rows
<1>4. ASSUME NEW c \in Requests, Commit(c) PROVE At(c, "tx") /\ Transaction(c)
  BY <1>4 DEF Commit
<1>5. ASSUME NEW c \in Requests, TransactionFails(c) PROVE Same \/ (At(c, "tx") /\ Transaction(c))
  BY <1>5 DEF TransactionFails, rows
<1> HIDE DEF Same
<1> QED BY <1>1, <1>2, <1>3, <1>4, <1>5 DEF Next, Same

LEMMA NextRows ==
    ASSUME LinearInv, RowShape, [Next]_vars
    PROVE  RowShape'
<1>1. CASE UNCHANGED <<versions, proposals>>
  BY <1>1 DEF RowShape
<1>2. ASSUME NEW c \in Requests, At(c, "tx"), Transaction(c) PROVE RowShape'
  <2>1. PICK row : /\ versions' = Append(versions, row) /\ Len(versions) < MaxVersions
                   /\ row.parent = current /\ Commits(c, row)
    BY <1>2, TransactionRow
  <2>2. Len(versions') <= MaxVersions
    BY <2>1, Appended, VersionsAssumption
  <2>3. versions'[1].parent = 0
    <3>1. CASE versions = <<>>
      <4>1. Len(versions) = 0 /\ current = 0
        BY <3>1 DEF LinearInv, HistoryIsLinear
      <4> QED BY <2>1, <4>1, Appended
    <3>2. CASE versions # <<>>
      <4>1. Len(versions) \in Nat /\ Len(versions) # 0
        BY <3>2 DEF LinearInv
      <4> QED BY <2>1, <3>2, <4>1, Appended DEF RowShape
    <3> QED BY <3>1, <3>2
  <2>4. ASSUME NEW p \in proposals' 
        PROVE  DOMAIN p = DOMAIN LegacyProposal
               /\ p.state \in {"pending", "applied", "dismissed"}
    <3>1. CASE p \in proposals
      BY <3>1 DEF RowShape
    <3>2. ASSUME NEW q \in proposals, p = MarkApplied(q)
          PROVE  DOMAIN p = DOMAIN LegacyProposal /\ p.state = "applied"
      BY <3>2 DEF RowShape, MarkApplied, LegacyProposal
    <3>3. ASSUME NEW base,
                 p = [id |-> c, base |-> base, state |-> "applied", result |-> Len(versions) + 1,
                      files |-> {AgentCandidates(c)[1], AgentCandidates(c)[2]}]
          PROVE  DOMAIN p = DOMAIN LegacyProposal /\ p.state = "applied"
      BY <3>3 DEF LegacyProposal
    <3> QED BY <2>1, <3>1, <3>2, <3>3 DEF Commits
  <2> QED BY <2>2, <2>3, <2>4 DEF RowShape
<1>3. ASSUME NEW c \in Requests, ResolveProposal(c) PROVE RowShape'
  <2>1. UNCHANGED versions
    BY <1>3 DEF ResolveProposal, End, rows
  <2>2. CASE UNCHANGED proposals
    BY <2>1, <2>2 DEF RowShape
  <2>3. CASE proposals' = {IF p.state = "pending" THEN [p EXCEPT !.state = "dismissed"] ELSE p :
                               p \in proposals}
    <3>1. ASSUME NEW p \in proposals, NEW q, q = [p EXCEPT !.state = "dismissed"]
          PROVE  DOMAIN q = DOMAIN LegacyProposal /\ q.state = "dismissed"
      BY <3>1 DEF RowShape, LegacyProposal
    <3> QED BY <2>1, <2>3, <3>1 DEF RowShape
  <2> QED BY <1>3, <2>2, <2>3 DEF ResolveProposal, End, rows
<1>4. ASSUME NEW c \in Requests, TellDismissed(c) PROVE RowShape'
  BY <1>1, <1>4 DEF TellDismissed
<1> QED BY <1>1, <1>2, <1>3, <1>4, RowsStep

LEMMA InitRows == Init => RowShape
<1> SUFFICES ASSUME Init PROVE RowShape
  OBVIOUS
<1>1. LegacyVersion.parent = 0 /\ LegacyProposal.state = "pending"
  BY DEF LegacyVersion, LegacyProposal
<1>2. versions = <<>> \/ versions = <<LegacyVersion>>
  BY DEF Init
<1>3. Len(versions) \in Nat /\ Len(versions) <= 1
  <2>1. CASE versions = <<>>
    BY <2>1
  <2>2. CASE versions = <<LegacyVersion>>
    <3> DEFINE v == LegacyVersion
    <3>1. versions = <<v>>
      BY <2>2
    <3> HIDE DEF v
    <3> QED BY <3>1
  <2> QED BY <1>2, <2>1, <2>2
<1>4. versions # <<>> => versions[1] = LegacyVersion
  <2> DEFINE v == LegacyVersion
  <2>1. versions = <<>> \/ versions = <<v>>
    BY <1>2
  <2> HIDE DEF v
  <2>2. versions # <<>> => versions[1] = v
    BY <2>1
  <2> QED BY <2>2 DEF v
<1>5. Len(versions) <= MaxVersions
  <2>1. MaxVersions \in Nat /\ MaxVersions >= 1
    BY VersionsAssumption
  <2> QED BY <1>3, <2>1
<1>6. proposals \in {{}, {LegacyProposal}}
  BY DEF Init
<1>7. versions # <<>> => versions[1].parent = 0
  BY <1>1, <1>4
<1>8. \A p \in proposals : p = LegacyProposal
  BY <1>6
<1> QED BY <1>1, <1>5, <1>7, <1>8 DEF RowShape

-----------------------------------------------------------------------------
(* The files.  What every request has published, who may remove it, and    *)
(* which names the rows use.                                                *)

Early   == {"new", "read", "workspace", "graph", "replay", "resolve", "tell"}
Holding == Publishing \cup {"clean"}

\* The candidates of c from the j-th to the k-th.
Some(c, j, k) == {Candidates(c)[l] : l \in j .. k}

\* How far a request is with its candidates says which of them it has
\* published and not yet handed to a row or removed.
Progress(c) ==
    LET q == req[c]
        n == Len(Candidates(c))
    IN  /\ q.at \in Early \cup Holding \cup Ended
        /\ q.i \in 1 .. n + 1 /\ q.final \subseteq Some(c, 1, n)
        /\ q.at \in Early => q.i = 1 /\ q.final = {}
        /\ q.at \in {"temp", "link", "untemp"} => q.i <= n
        /\ q.at \in {"temp", "link"} => q.final = Some(c, 1, q.i - 1)
        /\ q.at = "untemp" => q.final = Some(c, 1, q.i)
        /\ q.at = "tx" => q.final = Some(c, 1, n) /\ (n > 0 => q.i = n)
        /\ q.at = "clean" => q.final = Some(c, q.i, n)
        /\ q.at \notin Ended => (q.temp <=> q.at \in {"link", "untemp"})

\* What it holds is on disk and no row names it before its transaction.
Held(c) ==
    /\ req[c].at \in Holding =>
          \A name \in req[c].final : [name |-> name, body |-> req[c].body] \in disk
    /\ req[c].at \in Publishing => \A name \in req[c].final : ~Referenced(name)

\* A temporary file lives no longer than its publish, or its process.
TempGone(c) == OnDisk(Temp(c)) => req[c].at \in {"link", "untemp", "gone"}

\* A name that only c uses is not taken by somebody else.
Own(name, c) == name.owner = c /\ name.kind \notin {"temp", "ops-key"}
Unshared(c) ==
    req[c].at \notin Ended \cup {"clean"} =>
        \A f \in disk : Own(f.name, c) => f.name \in req[c].final

\* No two requests hold the same file, keyed ones included.
Exclusive ==
    \A c, d \in Requests :
        c # d /\ req[c].at \in Holding /\ req[d].at \in Holding =>
            req[c].final \cap req[d].final = {}

RowFiles ==
    /\ \A v \in DOMAIN versions : Verified(v) /\ versions[v].file.kind # "temp"
    /\ \A p \in proposals : ProposalFilesReadable(p) /\ \A name \in p.files : name.kind # "temp"
OneBody == \A f, g \in disk : f.name = g.name => f = g
Quiet == server # "serving" => \A c \in Requests : req[c].at \in Ended \cup {"new"}
Target(c) ==
    /\ req[c].op \in {"undo", "restore"} /\ req[c].at \in {"graph", "tx"} =>
          req[c].target \in DOMAIN versions
    /\ req[c].op \notin {"none", "create"} => req[c].base \in DOMAIN versions

FilesInv ==
    /\ RowFiles /\ OneBody /\ Exclusive /\ Quiet
    /\ server \in {"serving", "verify", "scan"}
    /\ \A c \in Requests : Progress(c) /\ Held(c) /\ TempGone(c) /\ Unshared(c) /\ Target(c)

\* Every candidate is a name of its request alone, but for the one of a keyed op.
LEMMA CandidateNames ==
    ASSUME NEW c \in Requests
    PROVE  /\ Len(Candidates(c)) \in Nat
           /\ \A k \in 1 .. Len(Candidates(c)) :
                 /\ Candidates(c)[k].kind # "temp"
                 /\ Own(Candidates(c)[k], c)
                    \/ (Candidates(c)[k].kind = "ops-key" /\ Len(Candidates(c)) = 1)
           /\ \A k, l \in 1 .. Len(Candidates(c)) : Candidates(c)[k] = Candidates(c)[l] => k = l
<1> USE DEF Name, FreshName, KeyedName, Own
<1>1. CASE req[c].op = "create"
  BY <1>1 DEF Candidates
<1>2. CASE req[c].op = "ops"
  BY <1>2 DEF Candidates, OpsCandidate
<1>3. CASE req[c].op = "apply"
  BY <1>3 DEF Candidates
<1>4. CASE req[c].op = "migrate"
  BY <1>4 DEF Candidates
<1>5. CASE req[c].op = "agent"
  <2>1. Candidates(c) = <<FreshName("proposal-ops", c), FreshName("proposal-preview", c),
                          FreshName("proposal-applied", c)>>
    BY <1>5 DEF Candidates, AgentCandidates
  <2>2. Len(Candidates(c)) = 3 /\ \A k \in 1 .. 3 : k = 1 \/ k = 2 \/ k = 3
    BY <2>1
  <2>3. /\ Candidates(c)[1] = FreshName("proposal-ops", c)
        /\ Candidates(c)[2] = FreshName("proposal-preview", c)
        /\ Candidates(c)[3] = FreshName("proposal-applied", c)
    BY <2>1
  <2> QED BY <2>2, <2>3
<1>6. CASE req[c].op \notin {"create", "ops", "apply", "migrate", "agent"}
  <2>1. Candidates(c) = <<>>
    BY <1>6 DEF Candidates
  <2>2. Len(Candidates(c)) = 0
    BY <2>1
  <2> QED BY <2>2
<1> QED BY <1>1, <1>2, <1>3, <1>4, <1>5, <1>6

\* A file of c is no file of d, unless both come under a key.
LEMMA NamesApart ==
    ASSUME NEW c \in Requests, NEW d \in Requests, c # d,
           NEW name \in Some(d, 1, Len(Candidates(d)))
    PROVE  name # Temp(c) /\ name # Temp(d) /\ ~Own(name, c)
  BY CandidateNames DEF Some, Own, Temp, Name

LEMMA CandidatesSame ==
    ASSUME NEW c \in Requests, req'[c].op = req[c].op, req'[c].key = req[c].key,
           req'[c].base = req[c].base
    PROVE  /\ Candidates(c)' = Candidates(c)
           /\ \A j, k : Some(c, j, k)' = Some(c, j, k)
  BY DEF Candidates, OpsCandidate, KeyedName, AgentCandidates, Some

-----------------------------------------------------------------------------
(* What a step of c may do to rows and files, and what the others keep.    *)

Frame(c) ==
    /\ RequestShape' /\ \A d \in Requests \ {c} : req'[d] = req[d]
    /\ server = "serving" /\ server' = "serving"
    /\ \A f \in disk : f \in disk' \/ f.name = Temp(c)
          \/ (f.name \in req[c].final /\ req[c].at \in Holding /\ ~Referenced(f.name)')
    /\ \A f \in disk' : f \in disk
          \/ /\ ~OnDisk(f.name) /\ f = [name |-> f.name, body |-> req[c].body]
             /\ f.name = Temp(c) \/ f.name \in Some(c, 1, Len(Candidates(c)))
    /\ req'[c].at \in Holding => \A name \in req'[c].final :
          ~OnDisk(name) \/ (name \in req[c].final /\ req[c].at \in Holding)
    /\ \A name : Referenced(name)' =>
          Referenced(name) \/ (name \in req[c].final /\ req[c].at = "tx")
    /\ DOMAIN versions \subseteq DOMAIN versions'
    /\ \A v \in DOMAIN versions' :
          \/ v \in DOMAIN versions /\ versions'[v] = versions[v]
          \/ Verified(v)' /\ versions'[v].file.kind # "temp"
    /\ \A p \in proposals' :
          \/ \E q \in proposals : q.files = p.files
          \/ ProposalFilesReadable(p)' /\ \A name \in p.files : name.kind # "temp"

OwnInv(c) == Progress(c) /\ Held(c) /\ TempGone(c) /\ Unshared(c) /\ Target(c)

\* A row keeps its files: nobody removes a file that a row names.
LEMMA RowFilesKept ==
    ASSUME FilesInv, NEW c \in Requests, Frame(c)
    PROVE  RowFiles'
<1>1. \A n : n.kind # "temp" => n # Temp(c)
  BY DEF Temp, Name
<1>2. ASSUME NEW v \in DOMAIN versions' PROVE Verified(v)' /\ versions'[v].file.kind # "temp"
  <2>1. CASE v \in DOMAIN versions /\ versions'[v] = versions[v]
    <3>1. Verified(v) /\ versions[v].file.kind # "temp"
      BY <2>1 DEF FilesInv, RowFiles
    <3>2. Referenced(versions[v].file)'
      BY <2>1 DEF Referenced, VersionReferences
    <3>3. PICK f \in disk : f = [name |-> versions[v].file, body |-> versions[v].hash]
      BY <3>1 DEF Verified
    <3>4. f.name = versions[v].file
      BY <3>3
    <3>5. f \in disk'
      BY <1>1, <2>1, <3>1, <3>2, <3>4 DEF Frame
    <3> QED BY <2>1, <3>1, <3>3, <3>5 DEF Verified
  <2>2. CASE ~(v \in DOMAIN versions /\ versions'[v] = versions[v])
    BY <2>2 DEF Frame
  <2> QED BY <2>1, <2>2
<1>3. ASSUME NEW p \in proposals'
      PROVE  ProposalFilesReadable(p)' /\ \A name \in p.files : name.kind # "temp"
  <2>1. CASE \E q \in proposals : q.files = p.files
    <3>1. PICK q \in proposals : q.files = p.files
      BY <2>1
    <3>2. \A name \in p.files : OnDisk(name) /\ name.kind # "temp"
      BY <3>1 DEF FilesInv, RowFiles, ProposalFilesReadable
    <3>3. \A name \in p.files : Referenced(name)'
      BY DEF Referenced, ProposalReferences
    <3>4. \A name \in p.files : OnDisk(name)'
      BY <1>1, <3>2, <3>3 DEF OnDisk, Frame
    <3> QED BY <3>2, <3>4 DEF ProposalFilesReadable
  <2>2. CASE ~\E q \in proposals : q.files = p.files
    BY <2>2 DEF Frame
  <2> QED BY <2>1, <2>2
<1> QED BY <1>2, <1>3 DEF RowFiles

LEMMA OthersKept ==
    ASSUME FilesInv, NEW c \in Requests, Frame(c), NEW d \in Requests, d # c
    PROVE  OwnInv(d)'
<1>1. req'[d] = req[d] /\ OwnInv(d)
  BY DEF Frame, FilesInv, OwnInv
<1>2. Candidates(d)' = Candidates(d) /\ \A j, k : Some(d, j, k)' = Some(d, j, k)
  BY <1>1, CandidatesSame
<1>3. Progress(d)'
  BY <1>1, <1>2 DEF OwnInv, Progress
<1>4. \A name \in req[d].final : name # Temp(c)
  BY <1>1, NamesApart DEF OwnInv, Progress
<1>5. req[d].at \in Holding /\ req[c].at \in Holding => req[c].final \cap req[d].final = {}
  BY DEF FilesInv, Exclusive
<1>6. Held(d)'
  <2>1. req[d].at \in Holding => \A name \in req[d].final :
            [name |-> name, body |-> req[d].body] \in disk'
    <3> SUFFICES ASSUME req[d].at \in Holding, NEW name \in req[d].final
                 PROVE  [name |-> name, body |-> req[d].body] \in disk'
      OBVIOUS
    <3>1. [name |-> name, body |-> req[d].body] \in disk
      BY <1>1 DEF OwnInv, Held
    <3>2. ~(name \in req[c].final /\ req[c].at \in Holding)
      BY <1>5
    <3> QED BY <1>4, <3>1, <3>2 DEF Frame
  <2>2. req[d].at \in Publishing => \A name \in req[d].final : ~Referenced(name)'
    BY <1>1, <1>5 DEF OwnInv, Held, Frame, Holding, Publishing
  <2> QED BY <1>1, <2>1, <2>2 DEF Held
<1>7. TempGone(d)'
  <2>1. OnDisk(Temp(d))' => OnDisk(Temp(d))
    <3> SUFFICES ASSUME NEW f \in disk', f \notin disk PROVE f.name # Temp(d)
      BY DEF OnDisk, Temp
    <3>1. f.name = Temp(c) \/ f.name \in Some(c, 1, Len(Candidates(c)))
      BY DEF Frame
    <3>2. Temp(c) # Temp(d)
      BY DEF Temp, Name
    <3> QED BY <3>1, <3>2, NamesApart
  <2> QED BY <1>1, <2>1 DEF OwnInv, TempGone
<1>8. Unshared(d)'
  <2>1. ASSUME NEW f \in disk', Own(f.name, d) PROVE f \in disk
    <3>1. ~Own(Temp(c), d)
      BY DEF Own, Temp, Name
    <3> QED BY <2>1, <3>1, NamesApart DEF Frame
  <2> QED BY <1>1, <2>1 DEF OwnInv, Unshared, Own
<1>9. Target(d)'
  BY <1>1 DEF OwnInv, Target, Frame
<1> QED BY <1>3, <1>6, <1>7, <1>8, <1>9 DEF OwnInv

\* A step of one request is judged by what it does to that request.
LEMMA FrameKeeps ==
    ASSUME FilesInv, NEW c \in Requests, Frame(c), OwnInv(c)'
    PROVE  FilesInv'
<1>1. RowFiles' /\ \A d \in Requests : OwnInv(d)'
  BY RowFilesKept, OthersKept
<1>2. OneBody'
  <2> SUFFICES ASSUME NEW f \in disk', NEW g \in disk', f.name = g.name PROVE f = g
    BY DEF OneBody
  <2>1. CASE f \in disk /\ g \in disk
    BY <2>1 DEF FilesInv, OneBody
  <2>2. CASE f \notin disk /\ g \notin disk
    BY <2>2 DEF Frame
  <2>3. CASE (f \in disk) # (g \in disk)
    BY <2>3 DEF Frame, OnDisk
  <2> QED BY <2>1, <2>2, <2>3
<1>3. Exclusive'
  <2>1. ASSUME NEW d \in Requests, d # c, req'[c].at \in Holding, req'[d].at \in Holding
        PROVE  req'[c].final \cap req'[d].final = {}
    <3>1. req'[d] = req[d]
      BY <2>1 DEF Frame
    <3>2. \A name \in req[d].final : OnDisk(name)
      BY <2>1, <3>1 DEF FilesInv, Held, OnDisk
    <3>3. req[c].at \in Holding => req[c].final \cap req[d].final = {}
      BY <2>1, <3>1 DEF FilesInv, Exclusive
    <3> QED BY <2>1, <3>1, <3>2, <3>3 DEF Frame
  <2>2. ASSUME NEW d \in Requests, NEW e \in Requests, d # c, e # c, d # e,
               req'[d].at \in Holding, req'[e].at \in Holding
        PROVE  req'[d].final \cap req'[e].final = {}
    BY <2>2 DEF Frame, FilesInv, Exclusive
  <2> QED BY <2>1, <2>2 DEF Exclusive
<1>4. Quiet' /\ server' \in {"serving", "verify", "scan"}
  BY DEF Frame, Quiet
<1> QED BY <1>1, <1>2, <1>3, <1>4 DEF FilesInv, OwnInv

-----------------------------------------------------------------------------
(* The turns of one request.                                               *)

\* Request c goes to another place; its candidates are the ones it had.
Turns(c, at, i, final) ==
    /\ RequestShape' /\ \A d \in Requests \ {c} : req'[d] = req[d]
    /\ req'[c].op = req[c].op /\ req'[c].key = req[c].key /\ req'[c].base = req[c].base
    /\ req'[c].body = req[c].body
    /\ req'[c].at = at /\ req'[c].i = i /\ req'[c].final = final

LEMMA GotoTurns ==
    ASSUME RequestShape, NEW c \in Requests, NEW label, Goto(c, label)
    PROVE  /\ Turns(c, label, req[c].i, req[c].final)
           /\ req'[c].temp = req[c].temp /\ req'[c].target = req[c].target
           /\ req'[c].replay = req[c].replay
<1>1. /\ req'[c] = [req[c] EXCEPT !.at = label]
      /\ DOMAIN req' = Requests /\ \A d \in Requests \ {c} : req'[d] = req[d]
  BY DEF RequestShape, Goto
<1>2. DOMAIN req[c] = DOMAIN NewRequest
  BY DEF RequestShape
<1> QED BY <1>1, <1>2, Fields DEF Turns, RequestShape

LEMMA SetTurns ==
    ASSUME RequestShape, NEW c \in Requests, NEW q, Set(c, q),
           DOMAIN q = DOMAIN NewRequest, q.op = req[c].op, q.key = req[c].key,
           q.base = req[c].base, q.body = req[c].body
    PROVE  Turns(c, q.at, q.i, q.final) /\ req'[c] = q
  BY DEF Set, RequestShape, Turns

LEMMA TurnsSame ==
    ASSUME NEW c \in Requests, NEW at, NEW i, NEW final, Turns(c, at, i, final)
    PROVE  /\ Candidates(c)' = Candidates(c)
           /\ \A j, k : Some(c, j, k)' = Some(c, j, k)
  BY CandidatesSame DEF Turns

\* No versions and no files in this step, and no new name in a proposal.
Still == /\ server = "serving" /\ UNCHANGED <<versions, disk, server>>
         /\ \A p \in proposals' : \E q \in proposals : q.files = p.files

LEMMA StillFrame ==
    ASSUME FilesInv, NEW c \in Requests, Still,
           RequestShape' /\ \A d \in Requests \ {c} : req'[d] = req[d],
           req'[c].at \in Holding =>
               req'[c].final = {} \/ (req'[c].final \subseteq req[c].final /\ req[c].at \in Holding)
    PROVE  Frame(c)
<1>1. \A name : Referenced(name)' => Referenced(name)
  BY DEF Still, Referenced, VersionReferences, ProposalReferences
<1> QED BY <1>1 DEF Still, Frame

\* A request that ends: what it leaves behind is not its own any more.
LEMMA EndsOwn ==
    ASSUME FilesInv, NEW c \in Requests, NEW at \in Ended, req[c].at \in Early \cup {"tx", "clean"},
           Turns(c, at, req[c].i, req[c].final), disk' = disk,
           DOMAIN versions \subseteq DOMAIN versions'
    PROVE  OwnInv(c)'
<1>1. Candidates(c)' = Candidates(c) /\ \A j, k : Some(c, j, k)' = Some(c, j, k)
  BY TurnsSame
<1>2. at \notin Early \cup Holding \cup {"link", "untemp", "graph", "tx"}
  BY DEF Ended, Early, Holding, Publishing
<1>3. Progress(c)'
  BY <1>1, <1>2 DEF FilesInv, Progress, Turns, Publishing, Holding
<1>4. Held(c)' /\ Unshared(c)' /\ Target(c)'
  BY <1>2 DEF FilesInv, Turns, Held, Unshared, Target, Holding
<1>5. ~OnDisk(Temp(c))
  BY DEF FilesInv, TempGone, Early
<1>6. TempGone(c)'
  BY <1>5 DEF TempGone, OnDisk, Temp
<1> QED BY <1>3, <1>4, <1>6 DEF OwnInv

LEMMA EndsInv ==
    ASSUME FilesInv, NEW c \in Requests, NEW at \in Ended, req[c].at \in Early \cup {"tx", "clean"},
           Turns(c, at, req[c].i, req[c].final), Still
    PROVE  FilesInv'
<1>1. at \notin Holding
  BY DEF Ended, Holding, Publishing
<1>2. Frame(c)
  BY <1>1, StillFrame DEF Turns
<1> QED BY <1>2, EndsOwn, FrameKeeps DEF Still

\* A request that has not begun to publish has nothing on disk.
LEMMA EarlyInv ==
    ASSUME FilesInv, NEW c \in Requests, NEW at \in Early, req[c].at \in Early,
           Turns(c, at, req[c].i, req[c].final), req'[c].temp = req[c].temp, Still, Target(c)'
    PROVE  FilesInv'
<1>1. at \notin Holding \cup Ended /\ req[c].at \notin Ended \cup {"clean"}
      /\ at \notin {"temp", "link", "untemp", "tx", "clean"}
      /\ req[c].at \notin {"temp", "link", "untemp", "tx", "clean"}
  BY DEF Ended, Holding, Publishing, Early
<1>2. Frame(c)
  BY <1>1, StillFrame DEF Turns
<1>3. Candidates(c)' = Candidates(c) /\ \A j, k : Some(c, j, k)' = Some(c, j, k)
  BY TurnsSame
<1>4. Progress(c)'
  BY <1>1, <1>3 DEF FilesInv, Progress, Turns
<1>5. Held(c)'
  BY <1>1 DEF Turns, Held, Holding
<1>6. Unshared(c)'
  BY <1>1 DEF FilesInv, Unshared, Turns, Still, Own
<1>7. ~OnDisk(Temp(c))
  BY <1>1 DEF FilesInv, TempGone, Ended
<1>8. TempGone(c)'
  BY <1>7 DEF TempGone, OnDisk, Temp, Still
<1> QED BY <1>2, <1>4, <1>5, <1>6, <1>8, FrameKeeps DEF OwnInv

\* From the checks to the first candidate, or to the transaction of a
\* request that publishes none.
LEMMA PreparedInv ==
    ASSUME FilesInv, NEW c \in Requests, NEW at, req[c].at \in {"graph"},
           at = (IF Candidates(c) = <<>> THEN "tx" ELSE "temp"),
           Turns(c, at, req[c].i, req[c].final), req'[c].temp = req[c].temp,
           req'[c].target = req[c].target, Still
    PROVE  FilesInv'
<1>1. at \in {"temp", "tx"} /\ at \in Holding /\ at \notin Ended /\ at \notin Early
      /\ "graph" \in Early /\ "graph" \notin Ended
  BY DEF Ended, Holding, Publishing, Early
<1>2. req[c].final = {} /\ req[c].i = 1 /\ ~req[c].temp
  BY <1>1 DEF FilesInv, Progress
<1>3. Frame(c)
  BY <1>2, StillFrame DEF Turns
<1>4. Candidates(c)' = Candidates(c) /\ \A j, k : Some(c, j, k)' = Some(c, j, k)
  BY TurnsSame
<1>5. Len(Candidates(c)) \in Nat
  BY CandidateNames
<1>6. Some(c, 1, 0) = {}
  BY DEF Some
<1>7. at = "temp" => Len(Candidates(c)) > 0
  <2> SUFFICES ASSUME Candidates(c) # <<>> PROVE Len(Candidates(c)) > 0
    OBVIOUS
  <2> QED BY DEF Candidates, AgentCandidates
<1>8. at = "tx" => Len(Candidates(c)) = 0
  BY <1>1
<1>9. Progress(c)'
  BY <1>1, <1>2, <1>4, <1>5, <1>6, <1>7, <1>8 DEF Progress, Turns
<1>10. Held(c)'
  BY <1>2 DEF Turns, Held
<1>11. Unshared(c)'
  BY <1>1, <1>2 DEF FilesInv, Unshared, Turns, Still, Own
<1>12. ~OnDisk(Temp(c))
  BY DEF FilesInv, TempGone
<1>13. TempGone(c)'
  BY <1>12 DEF TempGone, OnDisk, Temp, Still
<1>14. Target(c)'
  BY DEF FilesInv, Target, Turns, Still
<1> QED BY <1>3, <1>9, <1>10, <1>11, <1>13, <1>14, FrameKeeps DEF OwnInv

LEMMA EndInv ==
    ASSUME FilesInv, LinearInv, NEW c \in Requests, NEW how \in Ended,
           req[c].at \in Early \cup {"tx", "clean"}, Goto(c, how), Still
    PROVE  FilesInv'
  BY GotoTurns, EndsInv DEF LinearInv

LEMMA GoInv ==
    ASSUME FilesInv, LinearInv, NEW c \in Requests, NEW label \in Early \ {"graph"},
           req[c].at \in Early, Goto(c, label), Still
    PROVE  FilesInv'
<1>1. Turns(c, label, req[c].i, req[c].final) /\ req'[c].temp = req[c].temp
  BY GotoTurns DEF LinearInv
<1>2. Target(c)'
  BY <1>1 DEF FilesInv, Target, Turns, Early, Still
<1> QED BY <1>1, <1>2, EarlyInv

\* Nothing but the place of a request changes.
LEMMA IsStill ==
    ASSUME NEW c \in Requests, NEW label, At(c, label),
           UNCHANGED <<versions, proposals, disk, server>>
    PROVE  Still
  BY DEF At, Still

-----------------------------------------------------------------------------
(* The steps, one by one.                                                  *)

LEMMA ChecksFiles ==
    ASSUME FilesInv, LinearInv, NEW c \in Requests,
           \/ ReadProposal(c) \/ ReadOperation(c) \/ Replay(c)
           \/ TellDismissed(c) \/ SetWorkspaceProvider(c)
    PROVE  FilesInv'
<1>1. {"read", "tell", "replay"} \subseteq Early /\ {"workspace", "resolve"} \subseteq Early \ {"graph"}
      /\ {"ok", "refused"} \subseteq Ended
  BY DEF Early, Ended
<1>2. CASE ReadProposal(c)
  <2>1. Still /\ req[c].at = "read"
    BY <1>2, IsStill DEF ReadProposal, End, Unfaulted, rows, At
  <2>2. \E label \in {"refused", "workspace", "resolve"} : Goto(c, label)
    BY <1>2 DEF ReadProposal, End
  <2> QED BY <1>1, <2>1, <2>2, EndInv, GoInv
<1>3. CASE ReadOperation(c)
  <2>1. Still /\ req[c].at = "read"
    BY <1>3, IsStill DEF ReadOperation, Unfaulted, At
  <2>2. \E label \in {"refused", "workspace", "ok"} : Goto(c, label)
    BY <1>3 DEF ReadOperation
  <2> QED BY <1>1, <2>1, <2>2, EndInv, GoInv
<1>4. CASE Replay(c)
  <2>1. Still /\ req[c].at = "replay"
    BY <1>4, IsStill DEF Replay, End, rows, At
  <2>2. \E label \in {"refused", "ok"} : Goto(c, label)
    BY <1>4 DEF Replay, End
  <2> QED BY <1>1, <2>1, <2>2, EndInv
<1>5. CASE TellDismissed(c)
  BY <1>1, <1>5, IsStill, EndInv DEF TellDismissed, Unfaulted, At
<1>6. CASE SetWorkspaceProvider(c)
  BY <1>1, <1>6, IsStill, EndInv DEF SetWorkspaceProvider, Unfaulted, At
<1> QED BY <1>2, <1>3, <1>4, <1>5, <1>6

\* A proposal keeps its files when it is dismissed.
LEMMA ResolveFiles ==
    ASSUME FilesInv, LinearInv, RowShape, NEW c \in Requests, ResolveProposal(c)
    PROVE  FilesInv'
<1>1. "resolve" \in Early /\ "tell" \in Early \ {"graph"} /\ "refused" \in Ended
  BY DEF Early, Ended
<1>2. CASE Pending = {}
  BY <1>1, <1>2, IsStill, EndInv DEF ResolveProposal, End, rows, At
<1>3. CASE Pending # {}
  <2>1. ASSUME NEW p \in proposals, NEW q, q = [p EXCEPT !.state = "dismissed"]
        PROVE  q.files = p.files
    BY <2>1 DEF RowShape, LegacyProposal
  <2>2. \A p \in proposals' : \E q \in proposals : q.files = p.files
    BY <1>3, <2>1 DEF ResolveProposal
  <2>3. Still /\ Goto(c, "tell") /\ req[c].at = "resolve"
    BY <1>3, <2>2 DEF ResolveProposal, Still, At, Unfaulted
  <2> QED BY <1>1, <2>3, GoInv
<1> QED BY <1>2, <1>3

\* The version an undo or a restore goes back to is there.
LEMMA ReadWorkspaceFiles ==
    ASSUME FilesInv, LinearInv, RowShape, NEW c \in Requests, ReadWorkspace(c)
    PROVE  FilesInv'
<1>1. Still /\ req[c].at \in Early
  BY IsStill DEF ReadWorkspace, Unfaulted, Early, At
<1>2. CASE RefusedByWorkspace(c)
  BY <1>1, <1>2, EndInv DEF ReadWorkspace, Ended
<1>3. CASE ~RefusedByWorkspace(c)
  <2> DEFINE q == [req[c] EXCEPT !.cur = current, !.conn = connector,
                                 !.target = TargetOf(c), !.at = "graph"]
  <2>1. /\ DOMAIN q = DOMAIN NewRequest /\ q.op = req[c].op /\ q.key = req[c].key
        /\ q.base = req[c].base /\ q.body = req[c].body /\ q.at = "graph"
        /\ q.i = req[c].i /\ q.final = req[c].final /\ q.temp = req[c].temp
        /\ q.target = TargetOf(c)
    BY Fields DEF LinearInv, RequestShape
  <2>2. Set(c, q)
    BY <1>3 DEF ReadWorkspace
  <2> HIDE DEF q
  <2>3. Turns(c, "graph", req[c].i, req[c].final) /\ req'[c] = q
    BY <2>1, <2>2, SetTurns DEF LinearInv
  <2>4. ASSUME req[c].op \in {"undo", "restore"} PROVE TargetOf(c) \in DOMAIN versions
    <3>1. versions # <<>> /\ current = Len(versions)
      BY <2>4 DEF LinearInv, Creation, HistoryIsLinear
    <3>2. Len(versions) \in Nat /\ Len(versions) > 0 /\ DOMAIN versions = 1 .. Len(versions)
      BY <3>1 DEF LinearInv
    <3>3. CASE req[c].op = "undo"
      <4>1. UndoTarget(current) # 0
        BY <1>3, <3>3 DEF RefusedByWorkspace
      <4>2. current = 1 => versions[current].parent = 0
        BY <3>1 DEF RowShape
      <4>3. current > 1 => versions[current].parent = current - 1
        BY <3>1, <3>2 DEF LinearInv, HistoryIsLinear
      <4>4. UndoTarget(current) \in DOMAIN versions
        BY <3>1, <3>2, <4>1, <4>2, <4>3 DEF UndoTarget
      <4> QED BY <3>3, <4>4 DEF TargetOf
    <3>4. CASE req[c].op = "restore"
      BY <3>4 DEF TargetOf, FilesInv, Target
    <3> QED BY <2>4, <3>3, <3>4
  <2>5. Target(c)'
    <3>1. req'[c].op = req[c].op /\ req'[c].base = req[c].base /\ req'[c].target = TargetOf(c)
      BY <2>1, <2>3
    <3>2. Target(c) /\ versions' = versions
      BY <1>1 DEF FilesInv, Still
    <3> QED BY <2>4, <3>1, <3>2 DEF Target
  <2> QED BY <1>1, <2>1, <2>3, <2>5, EarlyInv DEF Early
<1> QED BY <1>2, <1>3

LEMMA PrepareFiles ==
    ASSUME FilesInv, LinearInv, NEW c \in Requests, NEW fits, Prepare(c, fits)
    PROVE  FilesInv'
<1>1. req[c].at = "graph" /\ "graph" \in Early /\ {"failed", "refused"} \subseteq Ended
  BY DEF Prepare, At, Early, Ended
<1>2. ASSUME NEW how \in {"failed", "refused"}, End(c, how) PROVE FilesInv'
  BY <1>1, <1>2, IsStill, EndInv DEF Prepare, End, rows
<1>3. ASSUME Goto(c, IF Candidates(c) = <<>> THEN "tx" ELSE "temp"),
             UNCHANGED <<rows, disk>> /\ Unfaulted
      PROVE  FilesInv'
  <2>1. Still
    BY <1>3, IsStill DEF Prepare, rows, Unfaulted
  <2> DEFINE at == IF Candidates(c) = <<>> THEN "tx" ELSE "temp"
  <2>2. /\ Turns(c, at, req[c].i, req[c].final)
        /\ req'[c].temp = req[c].temp /\ req'[c].target = req[c].target
    BY <1>3, GotoTurns DEF LinearInv
  <2> QED BY <1>1, <2>1, <2>2, PreparedInv
<1> QED BY <1>2, <1>3 DEF Prepare

LEMMA AssessFiles ==
    ASSUME FilesInv, LinearInv, NEW c \in Requests, AssessAndMigrate(c)
    PROVE  FilesInv'
<1>1. req[c].at = "graph" /\ "graph" \in Early /\ "refused" \in Ended
  BY DEF AssessAndMigrate, At, Early, Ended
<1>2. Still /\ (Goto(c, "temp") \/ Goto(c, "refused"))
  BY IsStill DEF AssessAndMigrate, Unfaulted
<1>3. Candidates(c) # <<>>
  <2>1. Candidates(c) = <<FreshName("migration", c)>>
    BY DEF AssessAndMigrate, Candidates
  <2> QED BY <2>1
<1>4. CASE Goto(c, "temp")
  <2>1. /\ Turns(c, "temp", req[c].i, req[c].final)
        /\ req'[c].temp = req[c].temp /\ req'[c].target = req[c].target
    BY <1>4, GotoTurns DEF LinearInv
  <2> QED BY <1>1, <1>2, <1>3, <2>1, PreparedInv
<1> QED BY <1>1, <1>2, <1>4, EndInv

\* What the rows name is on disk, and never a temporary file.
LEMMA NamedOnDisk ==
    ASSUME FilesInv, NEW name, Referenced(name)
    PROVE  OnDisk(name) /\ name.kind # "temp"
<1>1. CASE \E v \in DOMAIN versions : versions[v].file = name
  BY <1>1 DEF FilesInv, RowFiles, Verified, OnDisk
<1>2. CASE \E p \in proposals : name \in p.files
  BY <1>2 DEF FilesInv, RowFiles, ProposalFilesReadable
<1> QED BY <1>1, <1>2 DEF Referenced, VersionReferences, ProposalReferences

LEMMA RowsStay ==
    ASSUME UNCHANGED <<versions, proposals>>
    PROVE  /\ \A name : Referenced(name)' = Referenced(name)
           /\ DOMAIN versions \subseteq DOMAIN versions'
           /\ \A v \in DOMAIN versions' : v \in DOMAIN versions /\ versions'[v] = versions[v]
           /\ \A p \in proposals' : \E q \in proposals : q.files = p.files
  BY DEF Referenced, VersionReferences, ProposalReferences

\* A step that touches only the files of its own request.
LEMMA FilesFrame ==
    ASSUME NEW c \in Requests, UNCHANGED <<versions, proposals>>, server = "serving",
           server' = "serving", RequestShape', \A d \in Requests \ {c} : req'[d] = req[d],
           \A f \in disk : f \in disk' \/ f.name = Temp(c)
              \/ (f.name \in req[c].final /\ req[c].at \in Holding /\ ~Referenced(f.name)),
           \A f \in disk' : f \in disk
              \/ /\ ~OnDisk(f.name) /\ f = [name |-> f.name, body |-> req[c].body]
                 /\ f.name = Temp(c) \/ f.name \in Some(c, 1, Len(Candidates(c))),
           req'[c].at \in Holding => \A name \in req'[c].final :
              ~OnDisk(name) \/ (name \in req[c].final /\ req[c].at \in Holding)
    PROVE  Frame(c)
  BY RowsStay DEF Frame

LEMMA TargetStays ==
    ASSUME FilesInv, NEW c \in Requests, req'[c].op = req[c].op, req'[c].base = req[c].base,
           req'[c].at \notin {"graph", "tx"} \/ req[c].op \notin {"undo", "restore"},
           DOMAIN versions \subseteq DOMAIN versions'
    PROVE  Target(c)'
  BY DEF FilesInv, Target

LEMMA WriteTempFiles ==
    ASSUME FilesInv, LinearInv, NEW c \in Requests, WriteTemp(c)
    PROVE  FilesInv'
<1> DEFINE q == [req[c] EXCEPT !.temp = TRUE, !.at = "link"]
<1>1. /\ DOMAIN q = DOMAIN NewRequest /\ q.op = req[c].op /\ q.key = req[c].key
      /\ q.base = req[c].base /\ q.body = req[c].body /\ q.at = "link"
      /\ q.i = req[c].i /\ q.final = req[c].final /\ q.temp = TRUE
  BY Fields DEF LinearInv, RequestShape
<1>2. /\ Set(c, q) /\ disk' = Write(Temp(c), req[c].body)
      /\ UNCHANGED <<versions, proposals>> /\ server = "serving" /\ server' = "serving"
      /\ req[c].at = "temp"
  BY DEF WriteTemp, At, rows, Unfaulted
<1> HIDE DEF q
<1>3. Turns(c, "link", req[c].i, req[c].final) /\ req'[c] = q
  BY <1>1, <1>2, SetTurns DEF LinearInv
<1>4. {"temp", "link"} \subseteq Holding \cap Publishing /\ "link" \notin Early \cup Ended
      /\ "temp" \notin Ended
  BY DEF Holding, Publishing, Early, Ended
<1>5. Candidates(c)' = Candidates(c) /\ \A j, k : Some(c, j, k)' = Some(c, j, k)
  BY <1>3, TurnsSame
<1>6. ~OnDisk(Temp(c))
  BY <1>2 DEF FilesInv, TempGone
<1>7. disk \subseteq disk' /\ \A f \in disk' : f \in disk \/ f = [name |-> Temp(c), body |-> req[c].body]
  BY <1>2 DEF Write
<1>8. Frame(c)
  BY <1>2, <1>3, <1>4, <1>6, <1>7, FilesFrame DEF Turns
<1>9. Progress(c)'
  BY <1>1, <1>2, <1>3, <1>4, <1>5 DEF FilesInv, Progress, Turns
<1>10. Held(c)'
  BY <1>2, <1>3, <1>4, <1>7, RowsStay DEF FilesInv, Held, Turns
<1>11. TempGone(c)'
  BY <1>3 DEF TempGone, Turns
<1>12. Unshared(c)'
  BY <1>2, <1>3, <1>4, <1>7 DEF FilesInv, Unshared, Turns, Own, Temp, Name
<1>13. Target(c)'
  BY <1>2, <1>3, TargetStays DEF Turns
<1> QED BY <1>8, <1>9, <1>10, <1>11, <1>12, <1>13, FrameKeeps DEF OwnInv

\* Only a keyed op meets a file under its name: it has published nothing.
LEMMA CollisionIsKeyed ==
    ASSUME FilesInv, NEW c \in Requests, req[c].at = "link", Collides(c)
    PROVE  req[c].i = 1 /\ req[c].final = {}
<1> DEFINE n == Len(Candidates(c))
<1>1. req[c].i \in 1 .. n /\ req[c].final = Some(c, 1, req[c].i - 1) /\ n \in Nat
  BY CandidateNames DEF FilesInv, Progress
<1>2. Candidate(c) \notin req[c].final
  BY <1>1, CandidateNames DEF Some, Candidate
<1>3. ~Own(Candidate(c), c)
  BY <1>2 DEF FilesInv, Unshared, Collides, OnDisk, Ended
<1>4. n = 1
  BY <1>1, <1>3, CandidateNames DEF Candidate
<1>5. Some(c, 1, 0) = {}
  BY DEF Some
<1> QED BY <1>1, <1>4, <1>5

LEMMA CollidesFiles ==
    ASSUME FilesInv, LinearInv, NEW c \in Requests, PublishNoReplace(c), Collides(c)
    PROVE  FilesInv'
<1> DEFINE q == [req[c] EXCEPT !.temp = FALSE, !.at = "replay"]
<1>1. /\ DOMAIN q = DOMAIN NewRequest /\ q.op = req[c].op /\ q.key = req[c].key
      /\ q.base = req[c].base /\ q.body = req[c].body /\ q.at = "replay"
      /\ q.i = req[c].i /\ q.final = req[c].final /\ q.temp = FALSE
  BY Fields DEF LinearInv, RequestShape
<1>2. /\ Set(c, q) /\ disk' = Without(Temp(c))
      /\ UNCHANGED <<versions, proposals>> /\ server = "serving" /\ server' = "serving"
      /\ req[c].at = "link"
  BY DEF PublishNoReplace, At, rows, Unfaulted
<1> HIDE DEF q
<1>3. Turns(c, "replay", req[c].i, req[c].final) /\ req'[c] = q
  BY <1>1, <1>2, SetTurns DEF LinearInv
<1>4. "replay" \notin Holding \cup Ended /\ "replay" \in Early /\ "link" \notin Ended \cup {"clean"}
      /\ "replay" \notin {"temp", "link", "untemp", "tx", "clean"}
  BY DEF Holding, Publishing, Early, Ended
<1>5. Candidates(c)' = Candidates(c) /\ \A j, k : Some(c, j, k)' = Some(c, j, k)
  BY <1>3, TurnsSame
<1>6. req[c].i = 1 /\ req[c].final = {}
  BY <1>2, CollisionIsKeyed
<1>7. disk' = {f \in disk : f.name # Temp(c)}
  BY <1>2 DEF Without
<1>8. Frame(c)
  BY <1>2, <1>3, <1>4, <1>7, FilesFrame DEF Turns
<1>9. Progress(c)'
  BY <1>1, <1>3, <1>4, <1>5, <1>6 DEF FilesInv, Progress, Turns
<1>10. Held(c)'
  BY <1>3, <1>6 DEF Held, Turns
<1>11. TempGone(c)'
  BY <1>7 DEF TempGone, OnDisk, Temp
<1>12. Unshared(c)'
  BY <1>2, <1>3, <1>4, <1>7 DEF FilesInv, Unshared, Turns, Own
<1>13. Target(c)'
  BY <1>2, <1>3, TargetStays DEF Turns
<1> QED BY <1>8, <1>9, <1>10, <1>11, <1>12, <1>13, FrameKeeps DEF OwnInv

LEMMA LinkedFiles ==
    ASSUME FilesInv, LinearInv, NEW c \in Requests, PublishNoReplace(c), ~Collides(c)
    PROVE  FilesInv'
<1> DEFINE q == [req[c] EXCEPT !.final = @ \cup {Candidate(c)}, !.at = "untemp"]
           n == Len(Candidates(c))
<1>1. /\ DOMAIN q = DOMAIN NewRequest /\ q.op = req[c].op /\ q.key = req[c].key
      /\ q.base = req[c].base /\ q.body = req[c].body /\ q.at = "untemp"
      /\ q.i = req[c].i /\ q.final = req[c].final \cup {Candidate(c)} /\ q.temp = req[c].temp
  BY Fields DEF LinearInv, RequestShape
<1>2. /\ Set(c, q) /\ disk' = Write(Candidate(c), req[c].body)
      /\ UNCHANGED <<versions, proposals>> /\ server = "serving" /\ server' = "serving"
      /\ req[c].at = "link"
  BY DEF PublishNoReplace, At, rows, Unfaulted
<1> HIDE DEF q
<1>3. Turns(c, "untemp", req[c].i, req[c].final \cup {Candidate(c)}) /\ req'[c] = q
  BY <1>1, <1>2, SetTurns DEF LinearInv
<1>4. {"untemp", "link"} \subseteq Holding \cap Publishing /\ "untemp" \notin Ended \cup Early
      /\ "link" \notin Ended \cup {"clean"}
  BY DEF Holding, Publishing, Early, Ended
<1>5. Candidates(c)' = Candidates(c) /\ \A j, k : Some(c, j, k)' = Some(c, j, k)
  BY <1>3, TurnsSame
<1>6. /\ req[c].i \in 1 .. n /\ req[c].final = Some(c, 1, req[c].i - 1) /\ n \in Nat
      /\ req[c].temp
  BY <1>2, <1>4, CandidateNames DEF FilesInv, Progress
<1>7. /\ Candidate(c) \in Some(c, 1, n)
      /\ req[c].final \cup {Candidate(c)} = Some(c, 1, req[c].i)
  BY <1>6 DEF Some, Candidate
<1>8. /\ disk \subseteq disk'
      /\ \A f \in disk' : f \in disk \/ f = [name |-> Candidate(c), body |-> req[c].body]
      /\ [name |-> Candidate(c), body |-> req[c].body] \in disk'
  BY <1>2 DEF Write
<1>9. ~OnDisk(Candidate(c)) /\ ~Referenced(Candidate(c))
  BY NamedOnDisk DEF Collides
<1>10. Frame(c)
  BY <1>2, <1>3, <1>4, <1>7, <1>8, <1>9, FilesFrame DEF Turns
<1>11. Progress(c)'
  <2>1. Some(c, 1, req[c].i) \subseteq Some(c, 1, n)
    BY <1>6 DEF Some
  <2>2. "untemp" \notin {"temp", "link", "tx", "clean"}
    OBVIOUS
  <2>3. (req[c].temp <=> "untemp" \in {"link", "untemp"}) /\ q.temp = req[c].temp
        /\ req[c].i \in 1 .. n + 1 /\ req[c].i <= n
    BY <1>1, <1>6
  <2> QED BY <1>3, <1>4, <1>5, <1>7, <2>1, <2>2, <2>3 DEF Progress, Turns
<1>12. Held(c)'
  BY <1>2, <1>3, <1>4, <1>8, <1>9, RowsStay DEF FilesInv, Held, Turns
<1>13. TempGone(c)'
  BY <1>3 DEF TempGone, Turns
<1>14. Unshared(c)'
  BY <1>2, <1>3, <1>4, <1>8 DEF FilesInv, Unshared, Turns, Own
<1>15. Target(c)'
  BY <1>2, <1>3, TargetStays DEF Turns
<1> QED BY <1>10, <1>11, <1>12, <1>13, <1>14, <1>15, FrameKeeps DEF OwnInv

LEMMA RemoveTempFiles ==
    ASSUME FilesInv, LinearInv, NEW c \in Requests, RemoveTemp(c)
    PROVE  FilesInv'
<1> DEFINE n == Len(Candidates(c))
           more == req[c].i < n
           q == IF more THEN [req[c] EXCEPT !.temp = FALSE, !.i = @ + 1, !.at = "temp"]
                ELSE [req[c] EXCEPT !.temp = FALSE, !.at = "tx"]
           at == IF more THEN "temp" ELSE "tx"
           i == IF more THEN req[c].i + 1 ELSE req[c].i
<1>1. /\ DOMAIN q = DOMAIN NewRequest /\ q.op = req[c].op /\ q.key = req[c].key
      /\ q.base = req[c].base /\ q.body = req[c].body /\ q.at = at
      /\ q.i = i /\ q.final = req[c].final /\ q.temp = FALSE
  BY Fields DEF LinearInv, RequestShape
<1>2. /\ Set(c, q) /\ disk' = Without(Temp(c))
      /\ UNCHANGED <<versions, proposals>> /\ server = "serving" /\ server' = "serving"
      /\ req[c].at = "untemp"
  BY DEF RemoveTemp, At, rows, Unfaulted
<1> HIDE DEF q
<1>3. Turns(c, at, i, req[c].final) /\ req'[c] = q
  BY <1>1, <1>2, SetTurns DEF LinearInv
<1>4. {"untemp", "temp", "tx"} \subseteq Holding \cap Publishing
      /\ "temp" \notin Ended \cup Early /\ "tx" \notin Ended \cup Early
      /\ "untemp" \notin Ended \cup {"clean"}
  BY DEF Holding, Publishing, Early, Ended
<1>5. Candidates(c)' = Candidates(c) /\ \A j, k : Some(c, j, k)' = Some(c, j, k)
  BY <1>3, TurnsSame
<1>6. /\ req[c].i \in 1 .. n /\ req[c].final = Some(c, 1, req[c].i) /\ n \in Nat
  BY <1>2, <1>4, CandidateNames DEF FilesInv, Progress
<1>7. disk' = {f \in disk : f.name # Temp(c)}
  BY <1>2 DEF Without
<1>8. Frame(c)
  BY <1>2, <1>3, <1>4, <1>7, FilesFrame DEF Turns
<1>9. Progress(c)'
  <2>1. at \in {"temp", "tx"} /\ at \in Holding /\ at \notin Early \cup Ended
    BY <1>4
  <2>2. i \in 1 .. n + 1 /\ req[c].final \subseteq Some(c, 1, n)
    BY <1>6 DEF Some
  <2>3. /\ at = "temp" => i <= n /\ i - 1 = req[c].i
        /\ at = "tx" => req[c].i = n /\ i = n
    BY <1>6
  <2> HIDE DEF at, i
  <2> QED BY <1>1, <1>3, <1>5, <1>6, <2>1, <2>2, <2>3 DEF Progress, Turns
<1>10. Held(c)'
  <2>1. \A name \in req[c].final : name # Temp(c)
    BY NamesApart, <1>6, CandidateNames DEF Some, Temp, Name
  <2> QED BY <1>2, <1>3, <1>4, <1>7, <2>1, RowsStay DEF FilesInv, Held, Turns
<1>11. TempGone(c)'
  BY <1>7 DEF TempGone, OnDisk, Temp
<1>12. Unshared(c)'
  BY <1>2, <1>3, <1>4, <1>7 DEF FilesInv, Unshared, Turns, Own
<1>13. Target(c)'
  <2>1. req[c].op \notin {"undo", "restore"}
    <3>1. Len(<<>>) = 0
      OBVIOUS
    <3>2. req[c].op \in {"undo", "restore"} => Candidates(c) = <<>>
      BY DEF Candidates
    <3> QED BY <1>6, <3>1, <3>2
  <2> QED BY <1>2, <1>3, <2>1, TargetStays DEF Turns
<1> QED BY <1>8, <1>9, <1>10, <1>11, <1>12, <1>13, FrameKeeps DEF OwnInv

LEMMA PublishFailsFiles ==
    ASSUME FilesInv, LinearInv, NEW c \in Requests, PublishFails(c)
    PROVE  FilesInv'
<1> DEFINE q == [req[c] EXCEPT !.temp = FALSE, !.final = {}, !.at = "failed"]
<1>1. /\ DOMAIN q = DOMAIN NewRequest /\ q.op = req[c].op /\ q.key = req[c].key
      /\ q.base = req[c].base /\ q.body = req[c].body /\ q.at = "failed"
      /\ q.i = req[c].i /\ q.final = {}
  BY Fields DEF LinearInv, RequestShape
<1>2. /\ Set(c, q) /\ disk' = {f \in disk : f.name # Temp(c) /\ f.name \notin req[c].final}
      /\ UNCHANGED <<versions, proposals>> /\ server = "serving" /\ server' = "serving"
      /\ req[c].at \in {"temp", "link", "untemp"}
  BY DEF PublishFails, rows
<1> HIDE DEF q
<1>3. Turns(c, "failed", req[c].i, {}) /\ req'[c] = q
  BY <1>1, <1>2, SetTurns DEF LinearInv
<1>4. {"temp", "link", "untemp"} \subseteq Holding \cap Publishing
      /\ "failed" \in Ended /\ "failed" \notin Holding \cup Early
  BY DEF Holding, Publishing, Early, Ended
<1>5. Candidates(c)' = Candidates(c) /\ \A j, k : Some(c, j, k)' = Some(c, j, k)
  BY <1>3, TurnsSame
<1>6. \A name \in req[c].final : ~Referenced(name)
  BY <1>2, <1>4 DEF FilesInv, Held
<1>7. req[c].at \in Holding
  BY <1>2, <1>4
<1>8. Frame(c)
  BY <1>2, <1>3, <1>4, <1>6, <1>7, FilesFrame DEF Turns
<1>9. Progress(c)'
  BY <1>3, <1>4, <1>5 DEF FilesInv, Progress, Turns
<1>10. Held(c)' /\ Unshared(c)'
  BY <1>3, <1>4 DEF Held, Unshared, Turns, Publishing
<1>11. TempGone(c)'
  BY <1>2 DEF TempGone, OnDisk, Temp
<1>12. Target(c)'
  BY <1>2, <1>3, TargetStays DEF Turns
<1> QED BY <1>8, <1>9, <1>10, <1>11, <1>12, FrameKeeps DEF OwnInv

\* A transaction names only files its request has published, or that were
\* named before.
LEMMA TransactionFrame ==
    ASSUME FilesInv, LinearInv, RowShape, NEW c \in Requests, At(c, "tx"), Transaction(c),
           disk' = disk, server' = server,
           RequestShape', \A d \in Requests \ {c} : req'[d] = req[d],
           req'[c].at \in Holding => req'[c].final \subseteq req[c].final
    PROVE  Frame(c) /\ DOMAIN versions \subseteq DOMAIN versions'
<1> DEFINE n == Len(Candidates(c))
<1>1. PICK row : versions' = Append(versions, row) /\ Commits(c, row)
  BY TransactionRow
<1>2. /\ DOMAIN versions \subseteq DOMAIN versions'
      /\ \A v \in DOMAIN versions' :
            (v \in DOMAIN versions /\ versions'[v] = versions[v]) \/ versions'[v] = row
  BY <1>1, Appended
<1>3. req[c].at = "tx" /\ req[c].at \in Holding /\ server = "serving"
  BY DEF At, Holding, Publishing
<1>4. /\ req[c].final = Some(c, 1, n) /\ n \in Nat /\ (n > 0 => req[c].i = n)
      /\ \A name \in req[c].final : /\ [name |-> name, body |-> req[c].body] \in disk
                                    /\ name.kind # "temp"
  <2>1. req[c].final = Some(c, 1, n) /\ (n > 0 => req[c].i = n)
    BY <1>3 DEF FilesInv, Progress
  <2>2. \A name \in req[c].final : [name |-> name, body |-> req[c].body] \in disk
    BY <1>3 DEF FilesInv, Held
  <2>3. n \in Nat /\ \A name \in req[c].final : name.kind # "temp"
    BY <2>1, CandidateNames DEF Some
  <2> QED BY <2>1, <2>2, <2>3
<1>5. ASSUME n = 1 PROVE Candidate(c) \in req[c].final
  BY <1>4, <1>5 DEF Candidate, Some
<1>6. req[c].op \in {"create", "ops", "apply", "migrate"} => n = 1
  BY DEF Candidates
<1>7. ASSUME req[c].op = "agent"
      PROVE  \A k \in 1 .. 3 : AgentCandidates(c)[k] \in req[c].final
  <2>1. Candidates(c) = AgentCandidates(c) /\ n = 3
    BY <1>7 DEF Candidates, AgentCandidates
  <2> QED BY <1>4, <2>1 DEF Some
<1>8. /\ [name |-> row.file, body |-> row.hash] \in disk /\ row.file.kind # "temp"
      /\ row.file \in req[c].final \/ Referenced(row.file)
  <2>1. CASE NewFile(c, row) /\ n = 1
    BY <1>4, <1>5, <2>1 DEF NewFile
  <2>2. CASE req[c].op \in {"undo", "restore"} /\ row.file = versions[req[c].target].file
             /\ row.hash = versions[req[c].target].hash
    <3>1. req[c].target \in DOMAIN versions
      BY <1>3, <2>2 DEF FilesInv, Target
    <3> QED BY <2>2, <3>1 DEF FilesInv, RowFiles, Verified, Referenced, VersionReferences
  <2>3. CASE req[c].op = "agent" /\ row.file = AgentCandidates(c)[3] /\ row.hash = req[c].body
    BY <1>4, <1>7, <2>3
  <2> QED BY <1>1, <1>6, <2>1, <2>2, <2>3 DEF Commits
<1>9. ASSUME NEW p \in proposals'
      PROVE  \/ \E q \in proposals : q.files = p.files
             \/ p.files = {AgentCandidates(c)[1], AgentCandidates(c)[2]} /\ req[c].op = "agent"
  <2>1. CASE p \in proposals
    BY <2>1
  <2>2. ASSUME NEW q \in proposals, p = MarkApplied(q) PROVE q.files = p.files
    BY <2>2 DEF RowShape, MarkApplied, LegacyProposal
  <2> QED BY <1>1, <2>1, <2>2 DEF Commits
<1>10. \A p \in proposals' :
          \/ \E q \in proposals : q.files = p.files
          \/ \A name \in p.files : name \in req[c].final
  BY <1>7, <1>9
<1>11. \A v \in DOMAIN versions' :
          \/ v \in DOMAIN versions /\ versions'[v] = versions[v]
          \/ Verified(v)' /\ versions'[v].file.kind # "temp"
  BY <1>2, <1>8 DEF Verified
<1>12. \A p \in proposals' :
          \/ \E q \in proposals : q.files = p.files
          \/ ProposalFilesReadable(p)' /\ \A name \in p.files : name.kind # "temp"
  BY <1>4, <1>10 DEF ProposalFilesReadable, OnDisk
<1>13. ASSUME NEW name, Referenced(name)' PROVE Referenced(name) \/ name \in req[c].final
  <2>1. CASE \E v \in DOMAIN versions' : versions'[v].file = name
    <3>1. PICK v \in DOMAIN versions' : versions'[v].file = name
      BY <2>1
    <3>2. CASE v \in DOMAIN versions /\ versions'[v] = versions[v]
      BY <3>1, <3>2 DEF Referenced, VersionReferences
    <3>3. CASE versions'[v] = row
      BY <1>8, <3>1, <3>3
    <3> QED BY <1>2, <3>2, <3>3
  <2>2. CASE \E p \in proposals' : name \in p.files
    BY <1>10, <2>2 DEF Referenced, ProposalReferences
  <2> QED BY <1>13, <2>1, <2>2 DEF Referenced, VersionReferences, ProposalReferences
<1> QED BY <1>2, <1>3, <1>11, <1>12, <1>13 DEF Frame

\* A request that goes to its cleanup takes all it has published along.
LEMMA CleaningOwn ==
    ASSUME FilesInv, NEW c \in Requests, req[c].at = "tx", Turns(c, "clean", 1, req[c].final),
           req'[c].temp = req[c].temp, disk' = disk, DOMAIN versions \subseteq DOMAIN versions'
    PROVE  OwnInv(c)'
<1>1. Candidates(c)' = Candidates(c) /\ \A j, k : Some(c, j, k)' = Some(c, j, k)
  BY TurnsSame
<1>2. {"tx", "clean"} \subseteq Holding /\ "clean" \notin Early \cup Ended \cup Publishing
      /\ "tx" \notin Ended
  BY DEF Holding, Publishing, Early, Ended
<1>3. Progress(c)'
  BY <1>1, <1>2, CandidateNames DEF FilesInv, Progress, Turns
<1>4. Held(c)'
  BY <1>2 DEF FilesInv, Held, Turns
<1>5. TempGone(c)'
  <2>1. ~OnDisk(Temp(c))
    BY DEF FilesInv, TempGone
  <2> QED BY <2>1 DEF TempGone, OnDisk, Temp
<1>6. Unshared(c)'
  BY DEF Unshared, Turns
<1>7. Target(c)'
  BY TargetStays DEF Turns
<1> QED BY <1>3, <1>4, <1>5, <1>6, <1>7 DEF OwnInv

LEMMA CommitFiles ==
    ASSUME FilesInv, LinearInv, RowShape, NEW c \in Requests, Commit(c)
    PROVE  FilesInv'
<1>1. At(c, "tx") /\ Transaction(c) /\ Goto(c, "ok") /\ disk' = disk /\ server' = server
      /\ req[c].at = "tx"
  BY DEF Commit, Unfaulted, At
<1>2. Turns(c, "ok", req[c].i, req[c].final)
  BY <1>1, GotoTurns DEF LinearInv
<1>3. Frame(c) /\ DOMAIN versions \subseteq DOMAIN versions'
  BY <1>1, <1>2, TransactionFrame DEF Turns
<1>4. OwnInv(c)'
  BY <1>1, <1>2, <1>3, EndsOwn DEF Ended
<1> QED BY <1>3, <1>4, FrameKeeps

\* The request goes to its cleanup, whatever became of its transaction.
LEMMA CleaningFiles ==
    ASSUME FilesInv, LinearInv, RowShape, NEW c \in Requests, NEW q, Set(c, q), At(c, "tx"),
           DOMAIN q = DOMAIN NewRequest, q.op = req[c].op, q.key = req[c].key,
           q.base = req[c].base, q.body = req[c].body, q.at = "clean", q.i = 1,
           q.final = req[c].final, q.temp = req[c].temp, disk' = disk, server' = server,
           Transaction(c) \/ UNCHANGED <<versions, proposals>>
    PROVE  FilesInv'
<1>1. Turns(c, "clean", 1, req[c].final) /\ req'[c] = q
  BY SetTurns DEF LinearInv
<1>2. req[c].at = "tx" /\ server = "serving" /\ req[c].at \in Holding
  BY DEF At, Holding, Publishing
<1>3. Frame(c) /\ DOMAIN versions \subseteq DOMAIN versions'
  <2>1. CASE Transaction(c)
    BY <1>1, <2>1, TransactionFrame DEF Turns
  <2>2. CASE UNCHANGED <<versions, proposals>>
    BY <1>1, <1>2, <2>2, FilesFrame DEF Turns
  <2> QED BY <2>1, <2>2
<1>4. OwnInv(c)'
  BY <1>1, <1>2, <1>3, CleaningOwn
<1> QED BY <1>3, <1>4, FrameKeeps

LEMMA LosesFiles ==
    ASSUME FilesInv, LinearInv, RowShape, NEW c \in Requests,
           Conflict(c) \/ MigrationReplayed(c) \/ TransactionFails(c)
    PROVE  FilesInv'
<1>0. DOMAIN req[c] = DOMAIN NewRequest
  BY DEF LinearInv, RequestShape
<1>1. CASE Conflict(c)
  <2> DEFINE q == [req[c] EXCEPT !.at = "clean", !.i = 1, !.code = "CONFLICT"]
  <2>1. /\ DOMAIN q = DOMAIN NewRequest /\ q.op = req[c].op /\ q.key = req[c].key
        /\ q.base = req[c].base /\ q.body = req[c].body /\ q.at = "clean"
        /\ q.i = 1 /\ q.final = req[c].final /\ q.temp = req[c].temp
    BY <1>0, Fields
  <2>2. Set(c, q) /\ At(c, "tx") /\ disk' = disk /\ server' = server
        /\ UNCHANGED <<versions, proposals>>
    BY <1>1 DEF Conflict, rows, Unfaulted
  <2> HIDE DEF q
  <2> QED BY <2>1, <2>2, CleaningFiles
<1>2. CASE MigrationReplayed(c)
  <2>1. PICK replay, code :
            Set(c, [req[c] EXCEPT !.at = "clean", !.i = 1, !.replay = replay, !.code = code])
    BY <1>2 DEF MigrationReplayed
  <2> DEFINE q == [req[c] EXCEPT !.at = "clean", !.i = 1, !.replay = replay, !.code = code]
  <2>2. /\ DOMAIN q = DOMAIN NewRequest /\ q.op = req[c].op /\ q.key = req[c].key
        /\ q.base = req[c].base /\ q.body = req[c].body /\ q.at = "clean"
        /\ q.i = 1 /\ q.final = req[c].final /\ q.temp = req[c].temp
    BY <1>0, Fields
  <2>3. Set(c, q) /\ At(c, "tx") /\ disk' = disk /\ server' = server
        /\ UNCHANGED <<versions, proposals>>
    BY <1>2, <2>1 DEF MigrationReplayed, rows, Unfaulted
  <2> HIDE DEF q
  <2> QED BY <2>2, <2>3, CleaningFiles
<1>3. CASE TransactionFails(c)
  <2> DEFINE q == [req[c] EXCEPT !.at = "clean", !.i = 1]
  <2>1. /\ DOMAIN q = DOMAIN NewRequest /\ q.op = req[c].op /\ q.key = req[c].key
        /\ q.base = req[c].base /\ q.body = req[c].body /\ q.at = "clean"
        /\ q.i = 1 /\ q.final = req[c].final /\ q.temp = req[c].temp
    BY <1>0, Fields
  <2>2. Set(c, q) /\ At(c, "tx") /\ disk' = disk /\ server' = server
        /\ (Transaction(c) \/ UNCHANGED <<versions, proposals>>)
    BY <1>3 DEF TransactionFails, rows
  <2> HIDE DEF q
  <2> QED BY <2>1, <2>2, CleaningFiles
<1> QED BY <1>1, <1>2, <1>3

\* One more candidate has been looked at; it is kept when a row names it.
LEMMA CleanedOne ==
    ASSUME FilesInv, NEW c \in Requests, req[c].at = "clean", req[c].i <= Len(Candidates(c)),
           server = "serving", server' = "serving", UNCHANGED <<versions, proposals>>,
           Turns(c, "clean", req[c].i + 1, req[c].final \ {Candidate(c)}),
           req'[c].temp = req[c].temp,
           disk' = disk \/ (disk' = Without(Candidate(c)) /\ ~Referenced(Candidate(c)))
    PROVE  FilesInv'
<1> DEFINE n == Len(Candidates(c))
<1>1. Candidates(c)' = Candidates(c) /\ \A j, k : Some(c, j, k)' = Some(c, j, k)
  BY TurnsSame
<1>2. "clean" \in Holding /\ "clean" \notin Early \cup Ended \cup Publishing
  BY DEF Holding, Publishing, Early, Ended
<1>3. req[c].i \in 1 .. n /\ n \in Nat /\ req[c].final = Some(c, req[c].i, n)
  BY CandidateNames DEF FilesInv, Progress
<1>4. /\ Candidate(c) \in req[c].final
      /\ req[c].final \ {Candidate(c)} = Some(c, req[c].i + 1, n)
      /\ Some(c, req[c].i + 1, n) \subseteq Some(c, 1, n)
  <2>1. Candidate(c) \in Some(c, req[c].i, n)
    BY <1>3 DEF Some, Candidate
  <2>2. ASSUME NEW name \in Some(c, req[c].i, n), name # Candidate(c)
        PROVE  name \in Some(c, req[c].i + 1, n)
    BY <1>3, <2>2 DEF Some, Candidate
  <2>3. ASSUME NEW name \in Some(c, req[c].i + 1, n)
        PROVE  name \in Some(c, req[c].i, n) /\ name # Candidate(c) /\ name \in Some(c, 1, n)
    BY <1>3, CandidateNames DEF Some, Candidate
  <2> QED BY <1>3, <2>1, <2>2, <2>3
<1>5. \A f \in disk' : f \in disk
  BY DEF Without
<1>6. \A f \in disk : f \in disk' \/ (f.name = Candidate(c) /\ ~Referenced(Candidate(c)))
  BY DEF Without
<1>7. Frame(c)
  BY <1>2, <1>4, <1>5, <1>6, FilesFrame DEF Turns
<1>8. Progress(c)'
  <2>1. req[c].i + 1 \in 1 .. n + 1
    BY <1>3
  <2>2. ~req[c].temp
    BY <1>2 DEF FilesInv, Progress
  <2> QED BY <1>1, <1>2, <1>3, <1>4, <2>1, <2>2 DEF Progress, Turns
<1>9. Held(c)'
  <2>1. \A name \in req[c].final : [name |-> name, body |-> req[c].body] \in disk
    BY <1>2 DEF FilesInv, Held
  <2> QED BY <1>2, <1>6, <2>1 DEF Held, Turns
<1>10. ~OnDisk(Temp(c))
  BY DEF FilesInv, TempGone
<1>11. TempGone(c)'
  BY <1>5, <1>10 DEF TempGone, OnDisk, Temp
<1>12. Unshared(c)'
  BY DEF Unshared, Turns
<1>13. Target(c)'
  BY TargetStays DEF Turns
<1> QED BY <1>7, <1>8, <1>9, <1>11, <1>12, <1>13, FrameKeeps DEF OwnInv

LEMMA CleanupFiles ==
    ASSUME FilesInv, LinearInv, NEW c \in Requests,
           CleanupAfterStoreError(c) \/ CleanupDeferred(c)
    PROVE  FilesInv'
<1>0. DOMAIN req[c] = DOMAIN NewRequest /\ req[c].at = "clean" /\ server = "serving"
      /\ req[c].i \in Nat /\ Len(Candidates(c)) \in Nat
  BY CandidateNames DEF LinearInv, RequestShape, CleanupAfterStoreError, CleanupDeferred, At,
     FilesInv, Progress
<1>1. CASE CleanupAfterStoreError(c) /\ req[c].i > Len(Candidates(c))
  <2>1. Goto(c, Cleaned(c)) /\ Cleaned(c) \in Ended
    BY <1>1 DEF CleanupAfterStoreError, Cleaned, Ended
  <2>2. Still
    BY <1>1, IsStill DEF CleanupAfterStoreError, Unfaulted
  <2> QED BY <1>0, <2>1, <2>2, EndInv
<1>2. CASE CleanupAfterStoreError(c) /\ req[c].i <= Len(Candidates(c))
  <2> DEFINE q == [req[c] EXCEPT !.i = @ + 1, !.final = @ \ {Candidate(c)}]
  <2>1. /\ DOMAIN q = DOMAIN NewRequest /\ q.op = req[c].op /\ q.key = req[c].key
        /\ q.base = req[c].base /\ q.body = req[c].body /\ q.at = "clean"
        /\ q.i = req[c].i + 1 /\ q.final = req[c].final \ {Candidate(c)}
        /\ q.temp = req[c].temp
    BY <1>0, Fields
  <2>2. ~(req[c].i > Len(Candidates(c)))
    BY <1>0, <1>2
  <2>3. /\ Set(c, q) /\ server' = server /\ UNCHANGED <<versions, proposals>>
        /\ disk' = IF KeepReferenced(Candidate(c)) THEN disk ELSE Without(Candidate(c))
    BY <1>2, <2>2 DEF CleanupAfterStoreError, rows, Unfaulted
  <2> HIDE DEF q
  <2>4. Turns(c, "clean", req[c].i + 1, req[c].final \ {Candidate(c)}) /\ req'[c] = q
    <3>1. RequestShape
      BY DEF LinearInv
    <3>2. Turns(c, q.at, q.i, q.final) /\ req'[c] = q
      BY <2>1, <2>3, <3>1, SetTurns
    <3> QED BY <2>1, <3>2
  <2> QED BY <1>0, <1>2, <2>1, <2>3, <2>4, CleanedOne DEF KeepReferenced
<1>3. CASE CleanupDeferred(c)
  <2> DEFINE q == [req[c] EXCEPT !.i = @ + 1, !.replay = FALSE, !.code = "none",
                          !.final = @ \ {Candidate(c)}]
  <2>1. /\ DOMAIN q = DOMAIN NewRequest /\ q.op = req[c].op /\ q.key = req[c].key
        /\ q.base = req[c].base /\ q.body = req[c].body /\ q.at = "clean"
        /\ q.i = req[c].i + 1 /\ q.final = req[c].final \ {Candidate(c)}
        /\ q.temp = req[c].temp
    BY <1>0, Fields
  <2>2. /\ Set(c, q) /\ server' = server /\ UNCHANGED <<versions, proposals>>
        /\ disk' = disk /\ req[c].i <= Len(Candidates(c))
    BY <1>3 DEF CleanupDeferred, rows
  <2> HIDE DEF q
  <2>3. Turns(c, "clean", req[c].i + 1, req[c].final \ {Candidate(c)}) /\ req'[c] = q
    <3>1. RequestShape
      BY DEF LinearInv
    <3>2. Turns(c, q.at, q.i, q.final) /\ req'[c] = q
      BY <2>1, <2>2, <3>1, SetTurns
    <3> QED BY <2>1, <3>2
  <2> QED BY <1>0, <2>1, <2>2, <2>3, CleanedOne
<1> QED BY <1>0, <1>1, <1>2, <1>3

LEMMA DisconnectFiles ==
    ASSUME FilesInv, LinearInv, NEW c \in Requests, Disconnect(c)
    PROVE  FilesInv'
<1>1. Still /\ Goto(c, "gone") /\ req[c].at \in Awaiting
  BY DEF Disconnect, Still, rows
<1>2. Awaiting \subseteq Early \cup {"tx", "clean"} /\ "gone" \in Ended
  BY DEF Awaiting, Early, Ended
<1> QED BY <1>1, <1>2, EndInv

\* A new request finds no file that only it could have written.
LEMMA ReceiveFiles ==
    ASSUME FilesInv, LinearInv, NEW c \in Requests, Receive(c)
    PROVE  FilesInv'
<1>1. PICK op \in Ops, base \in DOMAIN versions \cup {0}, key \in Keys \cup {NoKey},
           body \in Bodies :
        /\ (op = "create") <=> (base = 0)
        /\ Set(c, [NewRequest EXCEPT !.op = op, !.base = base, !.key = key, !.body = body,
                       !.at = IF op = "create" THEN "temp" ELSE "read"])
  BY DEF Receive
<1>2. UNCHANGED <<versions, proposals, disk>> /\ server = "serving" /\ server' = "serving"
      /\ req[c].at = "new"
  BY DEF Receive, rows, Unfaulted, At
<1> DEFINE q == [NewRequest EXCEPT !.op = op, !.base = base, !.key = key, !.body = body,
                                   !.at = IF op = "create" THEN "temp" ELSE "read"]
<1>3. /\ DOMAIN q = DOMAIN NewRequest /\ q.op = op /\ q.base = base /\ q.i = 1 /\ q.final = {}
      /\ q.temp = FALSE /\ q.at = (IF op = "create" THEN "temp" ELSE "read")
  BY DEF NewRequest
<1>4. Set(c, q)
  BY <1>1
<1> HIDE DEF q
<1>5. RequestShape' /\ req'[c] = q /\ \A d \in Requests \ {c} : req'[d] = req[d]
  BY <1>3, <1>4 DEF Set, LinearInv, RequestShape
<1>6. "new" \in Early /\ "new" \notin Ended \cup {"clean"}
      /\ "read" \in Early /\ "read" \notin Ended \cup Holding
      /\ "temp" \in Holding /\ "temp" \notin Early \cup Ended
  BY DEF Early, Ended, Holding, Publishing
<1>7. Frame(c)
  BY <1>2, <1>3, <1>5, FilesFrame
<1>8. req[c].final = {}
  BY <1>2, <1>6 DEF FilesInv, Progress
<1>9. Progress(c)'
  <2>1. CASE op = "create"
    <3>1. Candidates(c)' = <<FreshName("initial", c)>>
      BY <1>3, <1>5, <2>1 DEF Candidates
    <3>2. Len(Candidates(c)') = 1 /\ Some(c, 1, 0)' = {}
      BY <3>1 DEF Some
    <3> QED BY <1>3, <1>5, <1>6, <2>1, <3>2 DEF Progress
  <2>2. CASE op # "create"
    <3>1. (Len(Candidates(c)) \in Nat)'
      <4>1. req'[c].op = "ops" => Candidates(c)' = <<OpsCandidate(c)'>>
        BY DEF Candidates
      <4>2. req'[c].op = "apply" => Candidates(c)' = <<FreshName("proposal-applied", c)>>
        BY DEF Candidates
      <4>3. req'[c].op = "migrate" => Candidates(c)' = <<FreshName("migration", c)>>
        BY DEF Candidates
      <4>4. req'[c].op = "agent" => Candidates(c)' = <<FreshName("proposal-ops", c),
                 FreshName("proposal-preview", c), FreshName("proposal-applied", c)>>
        BY DEF Candidates, AgentCandidates
      <4>5. req'[c].op \notin {"create", "ops", "apply", "migrate", "agent"} => Candidates(c)' = <<>>
        BY DEF Candidates
      <4> QED BY <1>3, <1>5, <2>2, <4>1, <4>2, <4>3, <4>4, <4>5
    <3> QED BY <1>3, <1>5, <1>6, <2>2, <3>1 DEF Progress
  <2> QED BY <2>1, <2>2
<1>10. Held(c)'
  BY <1>3, <1>5 DEF Held
<1>11. TempGone(c)'
  <2>1. ~OnDisk(Temp(c))
    BY <1>2 DEF FilesInv, TempGone
  <2> QED BY <1>2, <2>1 DEF TempGone, OnDisk, Temp
<1>12. Unshared(c)'
  BY <1>2, <1>5, <1>6, <1>8 DEF FilesInv, Unshared, Own
<1>13. Target(c)'
  BY <1>1, <1>2, <1>3, <1>5 DEF Target
<1> QED BY <1>7, <1>9, <1>10, <1>11, <1>12, <1>13, FrameKeeps DEF OwnInv

\* A crash takes the requests and leaves rows and files.
LEMMA CrashFiles ==
    ASSUME FilesInv, LinearInv, Crash
    PROVE  FilesInv'
<1>1. /\ UNCHANGED <<versions, proposals, disk>> /\ server' = "verify"
      /\ \A c \in Requests :
            req'[c] = IF req[c].at \in Ended \cup {"new"} THEN req[c]
                      ELSE [req[c] EXCEPT !.at = "gone"]
  BY DEF Crash, rows
<1>2. "gone" \in Ended /\ \A at : at \in Ended \cup {"new"} => at \notin Holding
  BY DEF Ended, Holding, Publishing
<1>3. ASSUME NEW c \in Requests PROVE OwnInv(c)' /\ req'[c].at \in Ended \cup {"new"}
  <2>1. OwnInv(c)
    BY DEF FilesInv, OwnInv
  <2>2. CASE req[c].at \in Ended \cup {"new"}
    <3>1. req'[c] = req[c]
      BY <1>1, <2>2
    <3>2. Candidates(c)' = Candidates(c) /\ \A j, k : Some(c, j, k)' = Some(c, j, k)
      BY <3>1, CandidatesSame
    <3>3. Progress(c)'
      BY <2>1, <3>1, <3>2 DEF OwnInv, Progress
    <3> QED BY <1>1, <1>2, <2>1, <2>2, <3>1, <3>3, RowsStay DEF OwnInv, Held, TempGone, OnDisk,
               Temp, Unshared, Own, Target
  <2>3. CASE req[c].at \notin Ended \cup {"new"}
    <3>1. /\ req'[c].op = req[c].op /\ req'[c].key = req[c].key /\ req'[c].base = req[c].base
          /\ req'[c].i = req[c].i /\ req'[c].final = req[c].final /\ req'[c].at = "gone"
      BY <1>1, <2>3, Fields, ZenonT(40) DEF LinearInv, RequestShape
    <3>2. Candidates(c)' = Candidates(c) /\ \A j, k : Some(c, j, k)' = Some(c, j, k)
      BY <3>1, CandidatesSame
    <3>3. "gone" \notin Early \cup Holding
      BY DEF Early, Holding, Publishing
    <3>4. Progress(c)'
      BY <1>2, <2>1, <3>1, <3>2, <3>3 DEF OwnInv, Progress
    <3>5. Held(c)' /\ TempGone(c)' /\ Unshared(c)'
      BY <1>2, <3>1, <3>3 DEF Held, TempGone, Unshared, Holding
    <3>6. Target(c)'
      BY <1>1, <2>1, <3>1 DEF OwnInv, Target
    <3> QED BY <1>2, <3>1, <3>4, <3>5, <3>6 DEF OwnInv
  <2> QED BY <2>2, <2>3
<1>4. RowFiles' /\ OneBody'
  BY <1>1 DEF FilesInv, RowFiles, OneBody, Verified, ProposalFilesReadable, OnDisk
<1>5. Exclusive' /\ Quiet'
  BY <1>2, <1>3 DEF Exclusive, Quiet
<1> QED BY <1>1, <1>3, <1>4, <1>5 DEF FilesInv, OwnInv

\* While the server starts nobody holds a file; only unnamed ones go.
LEMMA StartFiles ==
    ASSUME FilesInv, VerifyReferences \/ RemoveOrphan \/ RemoveOrphanFails \/ Serve
    PROVE  FilesInv'
<1>1. UNCHANGED <<versions, proposals, req>>
  BY DEF VerifyReferences, RemoveOrphan, RemoveOrphanFails, Serve, rows
<1>2. \A c \in Requests : Candidates(c)' = Candidates(c) /\ \A j, k : Some(c, j, k)' = Some(c, j, k)
  BY <1>1, CandidatesSame
<1>3. \A c \in Requests : Progress(c)' /\ Target(c)'
  BY <1>1, <1>2 DEF FilesInv, Progress, Target
<1>4. Exclusive'
  BY <1>1 DEF FilesInv, Exclusive
<1>5. server # "serving" /\ \A c \in Requests : req[c].at \in Ended \cup {"new"}
  BY DEF FilesInv, Quiet, VerifyReferences, RemoveOrphan, RemoveOrphanFails, Serve
<1>6. Quiet'
  BY <1>1, <1>5 DEF Quiet
<1>7. disk' \subseteq disk /\ \A f \in disk \ disk' : ~Referenced(f.name)
  BY DEF VerifyReferences, RemoveOrphan, RemoveOrphanFails, Serve, Orphans
<1>8. \A c \in Requests : Held(c)'
  BY <1>1, <1>5 DEF Held, Holding, Publishing, Ended
<1>9. \A c \in Requests : TempGone(c)' /\ Unshared(c)'
  BY <1>1, <1>7 DEF FilesInv, TempGone, Unshared, OnDisk, Temp, Own
<1>10. OneBody'
  BY <1>7 DEF FilesInv, OneBody
<1>11. RowFiles'
  <2>1. ASSUME NEW v \in DOMAIN versions
        PROVE  Verified(v)' /\ versions[v].file.kind # "temp"
    <3>1. PICK f \in disk : f = [name |-> versions[v].file, body |-> versions[v].hash]
      BY DEF FilesInv, RowFiles, Verified
    <3>2. f.name = versions[v].file
      BY <3>1
    <3>3. f \in disk'
      BY <1>7, <3>2 DEF Referenced, VersionReferences
    <3> QED BY <1>1, <3>1, <3>3 DEF Verified, FilesInv, RowFiles
  <2>2. ASSUME NEW p \in proposals
        PROVE  ProposalFilesReadable(p)' /\ \A name \in p.files : name.kind # "temp"
    BY <1>7 DEF FilesInv, RowFiles, ProposalFilesReadable, OnDisk, Referenced, ProposalReferences
  <2> QED BY <1>1, <2>1, <2>2 DEF RowFiles
<1>12. server' \in {"serving", "verify", "scan"}
  <2>1. (\A v \in DOMAIN versions : Verified(v)) /\ \A p \in proposals : ProposalFilesReadable(p)
    BY DEF FilesInv, RowFiles
  <2> QED BY <2>1 DEF FilesInv, VerifyReferences, RemoveOrphan, RemoveOrphanFails, Serve
<1> QED BY <1>3, <1>4, <1>6, <1>8, <1>9, <1>10, <1>11, <1>12 DEF FilesInv

\* What a former release left belongs to no request.
LEMMA InitFiles == Init => FilesInv
<1> SUFFICES ASSUME Init PROVE FilesInv
  OBVIOUS
<1> DEFINE LegacyNames == {Name("initial", Legacy, 0), Name("proposal-ops", Legacy, 0)}
<1>1. \A c \in Requests : /\ req[c].at = "new" /\ req[c].op = "none" /\ req[c].i = 1
                          /\ req[c].final = {} /\ req[c].temp = FALSE
  BY DEF Init, NewRequest
<1>2. \A f \in disk : f.name \in LegacyNames /\ f = [name |-> f.name, body |-> LegacyVersion.hash]
  <2>1. CASE disk = {}
    BY <2>1
  <2>2. CASE disk # {}
    <3>1. /\ proposals \in {{}, {LegacyProposal}}
          /\ disk = {[name |-> LegacyVersion.file, body |-> LegacyVersion.hash]}
                    \cup {[name |-> f, body |-> LegacyVersion.hash] :
                              f \in UNION {p.files : p \in proposals}}
      BY <2>2 DEF Init
    <3>2. LegacyVersion.file \in LegacyNames /\ LegacyProposal.files \subseteq LegacyNames
      BY DEF LegacyVersion, LegacyProposal
    <3>3. UNION {p.files : p \in proposals} \subseteq LegacyNames
      BY <3>1, <3>2
    <3> HIDE DEF LegacyNames
    <3> QED BY <3>1, <3>2, <3>3
  <2> QED BY <2>1, <2>2
<1>3. OneBody
  BY <1>2 DEF OneBody
<1>4. RowFiles
  <2>1. CASE versions = <<>> /\ proposals = {}
    <3>1. DOMAIN versions = {}
      BY <2>1
    <3> QED BY <2>1, <3>1 DEF RowFiles
  <2>2. CASE /\ versions = <<LegacyVersion>> /\ proposals \in {{}, {LegacyProposal}}
             /\ disk = {[name |-> LegacyVersion.file, body |-> LegacyVersion.hash]}
                       \cup {[name |-> f, body |-> LegacyVersion.hash] :
                                 f \in UNION {p.files : p \in proposals}}
    <3>1. \A v \in DOMAIN versions : versions[v] = LegacyVersion
      BY <2>2
    <3>2. \A v \in DOMAIN versions : Verified(v) /\ versions[v].file.kind # "temp"
      <4>1. [name |-> LegacyVersion.file, body |-> LegacyVersion.hash] \in disk
        BY <2>2
      <4>2. LegacyVersion.file.kind = "initial"
        BY DEF LegacyVersion, Name
      <4> QED BY <3>1, <4>1, <4>2 DEF Verified
    <3>3. \A p \in proposals : \A name \in p.files :
              [name |-> name, body |-> LegacyVersion.hash] \in disk
      BY <2>2
    <3>4. \A name : [name |-> name, body |-> LegacyVersion.hash].name = name
      OBVIOUS
    <3>5. \A p \in proposals : ProposalFilesReadable(p)
      BY <3>3, <3>4 DEF ProposalFilesReadable, OnDisk
    <3>6. \A p \in proposals : \A name \in p.files : name.kind # "temp"
      BY <2>2 DEF LegacyProposal, Name
    <3> QED BY <3>2, <3>5, <3>6 DEF RowFiles
  <2> QED BY <2>1, <2>2 DEF Init
<1>5. Exclusive /\ Quiet /\ server = "serving"
  BY <1>1 DEF Exclusive, Quiet, Init
<1>6. ASSUME NEW c \in Requests PROVE OwnInv(c)
  <2>1. Candidates(c) = <<>>
    BY <1>1 DEF Candidates
  <2>2. Len(Candidates(c)) = 0
    BY <2>1
  <2>3. "new" \in Early /\ "new" \notin Holding \cup Ended
    BY DEF Early, Holding, Publishing, Ended
  <2>4. Progress(c)
    BY <1>1, <2>2, <2>3 DEF Progress
  <2>5. \A f \in disk : f.name.owner # c
    BY <1>2, VersionsAssumption DEF Name
  <2>6. TempGone(c) /\ Unshared(c)
    BY <2>5 DEF TempGone, OnDisk, Temp, Name, Unshared, Own
  <2>7. Held(c) /\ Target(c)
    BY <1>1 DEF Held, Target
  <2> QED BY <2>4, <2>6, <2>7 DEF OwnInv
<1> QED BY <1>3, <1>4, <1>5, <1>6 DEF FilesInv, OwnInv

LEMMA SameFiles ==
    ASSUME FilesInv, UNCHANGED vars
    PROVE  FilesInv'
<1>1. UNCHANGED <<versions, proposals, disk, req, server>>
  BY DEF vars, rows
<1>2. \A c \in Requests : Candidates(c)' = Candidates(c) /\ \A j, k : Some(c, j, k)' = Some(c, j, k)
  BY <1>1, CandidatesSame
<1>3. \A c \in Requests : Progress(c)'
  BY <1>1, <1>2 DEF FilesInv, Progress
<1>4. \A c \in Requests : Held(c)' /\ TempGone(c)' /\ Unshared(c)' /\ Target(c)'
  BY <1>1, RowsStay DEF FilesInv, Held, TempGone, OnDisk, Temp, Unshared, Own, Target
<1>5. RowFiles' /\ OneBody' /\ Exclusive' /\ Quiet'
  BY <1>1 DEF FilesInv, RowFiles, OneBody, Exclusive, Quiet, Verified, ProposalFilesReadable, OnDisk
<1> QED BY <1>1, <1>3, <1>4, <1>5 DEF FilesInv

LEMMA NextFiles ==
    ASSUME FilesInv, LinearInv, RowShape, [Next]_vars
    PROVE  FilesInv'
<1>1. ASSUME NEW c \in Requests,
             \/ Receive(c) \/ ReadProposal(c) \/ ReadOperation(c) \/ ReadWorkspace(c)
             \/ PrepareOps(c) \/ PrepareRestore(c) \/ PrepareAgentApply(c) \/ PrepareApply(c)
             \/ AssessAndMigrate(c)
      PROVE  FilesInv'
  BY <1>1, ReceiveFiles, ChecksFiles, ReadWorkspaceFiles, PrepareFiles, AssessFiles
     DEF PrepareOps, PrepareRestore, PrepareAgentApply, PrepareApply
<1>2. ASSUME NEW c \in Requests,
             \/ WriteTemp(c) \/ PublishNoReplace(c) \/ RemoveTemp(c) \/ PublishFails(c)
             \/ Commit(c) \/ Conflict(c) \/ MigrationReplayed(c) \/ TransactionFails(c)
             \/ CleanupAfterStoreError(c) \/ CleanupDeferred(c) \/ Replay(c)
             \/ ResolveProposal(c) \/ TellDismissed(c) \/ SetWorkspaceProvider(c)
             \/ Disconnect(c)
      PROVE  FilesInv'
  BY <1>2, WriteTempFiles, CollidesFiles, LinkedFiles, RemoveTempFiles, PublishFailsFiles,
     CommitFiles, LosesFiles, CleanupFiles, ChecksFiles, ResolveFiles, DisconnectFiles
<1> QED BY <1>1, <1>2, CrashFiles, StartFiles, SameFiles DEF Next

-----------------------------------------------------------------------------
(* Rows and files together.                                                *)

RowsAndFiles == LinearInv /\ RowShape /\ FilesInv

LEMMA RowsAndFilesInvariant == Spec => []RowsAndFiles
<1>1. Init => RowsAndFiles
  BY InitLinear, InitRows, InitFiles DEF RowsAndFiles
<1>2. RowsAndFiles /\ [Next]_vars => RowsAndFiles'
  BY NextLinear, NextRows, NextFiles DEF RowsAndFiles
<1> QED BY <1>1, <1>2, PTL DEF Spec

LEMMA RowsAndFilesAgree ==
    ASSUME RowsAndFiles
    PROVE  RowsHaveTheirFiles
<1> USE DEF RowsAndFiles
<1>1. Len(versions) \in Nat /\ DOMAIN versions = 1 .. Len(versions) /\ current = Len(versions)
  BY DEF LinearInv, HistoryIsLinear
<1>2. ASSUME NEW v \in DOMAIN versions PROVE versions[v].parent \in 0 .. v - 1
  <2>1. CASE v = 1
    <3>1. versions # <<>>
      BY <1>1
    <3> QED BY <2>1, <3>1 DEF RowShape
  <2>2. CASE v > 1
    BY <1>1, <2>2 DEF LinearInv, HistoryIsLinear
  <2> QED BY <1>1, <2>1, <2>2
<1>3. ASSUME NEW c \in Requests
      PROVE  /\ req[c].i \in 1 .. Len(Candidates(c)) + 1
             /\ req[c].final \subseteq {Candidates(c)[j] : j \in DOMAIN Candidates(c)}
  <2>1. \E S : Candidates(c) \in Seq(S)
    <3>1. CASE req[c].op \in {"create", "ops", "apply", "migrate"}
      <4>1. PICK x : Candidates(c) = <<x>>
        BY <3>1 DEF Candidates
      <4>2. Candidates(c) \in Seq({x})
        BY <4>1
      <4> QED BY <4>2
    <3>2. CASE req[c].op = "agent"
      <4>1. PICK x, y, z : Candidates(c) = <<x, y, z>>
        BY <3>2 DEF Candidates, AgentCandidates
      <4>2. Candidates(c) \in Seq({x, y, z})
        BY <4>1
      <4> QED BY <4>2
    <3>3. CASE req[c].op \notin {"create", "ops", "apply", "migrate", "agent"}
      <4>1. Candidates(c) = <<>>
        BY <3>3 DEF Candidates
      <4>2. Candidates(c) \in Seq({c})
        BY <4>1
      <4> QED BY <4>2
    <3> QED BY <3>1, <3>2, <3>3
  <2>2. DOMAIN Candidates(c) = 1 .. Len(Candidates(c))
    BY <2>1
  <2> QED BY <2>2 DEF FilesInv, Progress, Some
<1>4. VersionsTypeOK
  <2>1. current \in 0 .. Len(versions) /\ Len(versions) <= MaxVersions
    BY <1>1 DEF RowShape
  <2>2. \A p \in proposals : p.state \in {"pending", "applied", "dismissed"}
    BY DEF RowShape
  <2>3. \A f, g \in disk : f.name = g.name => f = g
    BY DEF FilesInv, OneBody
  <2>4. server \in {"serving", "verify", "scan", "dead"} /\ server # "dead"
    BY DEF FilesInv
  <2> QED BY <1>2, <1>3, <2>1, <2>2, <2>3, <2>4 DEF VersionsTypeOK
<1>5. (\A v \in DOMAIN versions : Verified(v)) /\ \A p \in proposals : ProposalFilesReadable(p)
  BY DEF FilesInv, RowFiles
<1>6. server # "dead"
  BY DEF FilesInv
<1> QED BY <1>4, <1>5, <1>6 DEF RowsHaveTheirFiles

\* A row is committed after its file and outlives every cleanup: at every
\* moment a crash may come each file a row names is on disk with the bytes of
\* its hash, and verify_references never stops a start.
THEOREM FilesOutliveRows == Spec => []RowsHaveTheirFiles
  BY RowsAndFilesInvariant, RowsAndFilesAgree, PTL

-----------------------------------------------------------------------------
(* Where the requests go.                                                  *)

\* Places a request reaches with its transaction, and never leaves again.
Committed == {"clean", "ok", "failed", "gone"}

LEMMA GotoAt ==
    ASSUME RequestShape, NEW c \in Requests, NEW label, Goto(c, label)
    PROVE  /\ req'[c] = [req[c] EXCEPT !.at = label]
           /\ req'[c].at = label /\ \A d \in Requests \ {c} : req'[d] = req[d]
  BY Fields DEF RequestShape, Goto

LEMMA SetAt ==
    ASSUME RequestShape, NEW c \in Requests, NEW q, Set(c, q)
    PROVE  req'[c] = q /\ \A d \in Requests \ {c} : req'[d] = req[d]
  BY DEF RequestShape, Set

\* What a step of c may do to the places.
Places(c) ==
    /\ \A d \in Requests \ {c} : req'[d] = req[d]
    /\ req[c].at \in Committed => req'[c].at \in Committed
    /\ req'[c].at = "tell" => ResolveProposal(c) /\ Pending # {}

LEMMA GotoPlaces ==
    ASSUME RequestShape, NEW c \in Requests, NEW label, Goto(c, label),
           req[c].at \notin Committed \/ label \in Committed,
           label # "tell" \/ (ResolveProposal(c) /\ Pending # {})
    PROVE  Places(c)
  BY GotoAt DEF Places

LEMMA SetPlaces ==
    ASSUME RequestShape, NEW c \in Requests, NEW q, Set(c, q),
           req[c].at \notin Committed \/ q.at \in Committed, q.at # "tell"
    PROVE  Places(c)
  BY SetAt DEF Places

LEMMA RequestPlaces ==
    ASSUME LinearInv, NEW c \in Requests,
        \/ Receive(c) \/ ReadProposal(c) \/ ReadOperation(c) \/ ReadWorkspace(c)
        \/ PrepareOps(c) \/ PrepareRestore(c) \/ PrepareAgentApply(c) \/ PrepareApply(c)
        \/ AssessAndMigrate(c)
        \/ WriteTemp(c) \/ PublishNoReplace(c) \/ RemoveTemp(c) \/ PublishFails(c)
        \/ Commit(c) \/ Conflict(c) \/ MigrationReplayed(c) \/ TransactionFails(c)
        \/ CleanupAfterStoreError(c) \/ CleanupDeferred(c) \/ Replay(c)
        \/ ResolveProposal(c) \/ TellDismissed(c) \/ SetWorkspaceProvider(c)
        \/ Disconnect(c)
    PROVE  Places(c)
<1>0. RequestShape /\ DOMAIN req[c] = DOMAIN NewRequest
  BY DEF LinearInv, RequestShape
<1> USE DEF At
<1>1. CASE Receive(c)
  <2>1. PICK q : Set(c, q) /\ q.at \in {"temp", "read"}
    <3>1. PICK op, base, key, body :
              Set(c, [NewRequest EXCEPT !.op = op, !.base = base, !.key = key, !.body = body,
                       !.at = IF op = "create" THEN "temp" ELSE "read"])
      BY <1>1 DEF Receive
    <3>2. [NewRequest EXCEPT !.op = op, !.base = base, !.key = key, !.body = body,
                       !.at = IF op = "create" THEN "temp" ELSE "read"].at \in {"temp", "read"}
      BY DEF NewRequest
    <3> QED BY <3>1, <3>2
  <2> QED BY <1>0, <1>1, <2>1, SetPlaces DEF Receive, Committed
<1>2. CASE ReadProposal(c) \/ ReadOperation(c) \/ Replay(c)
  BY <1>0, <1>2, GotoPlaces DEF ReadProposal, ReadOperation, Replay, End, Committed
<1>3. CASE ReadWorkspace(c)
  <2>1. [req[c] EXCEPT !.cur = current, !.conn = connector,
                       !.target = TargetOf(c), !.at = "graph"].at = "graph"
    BY <1>0, Fields
  <2>2. req[c].at \notin Committed
    BY <1>3 DEF ReadWorkspace, Committed
  <2> QED BY <1>0, <1>3, <2>1, <2>2, GotoPlaces, SetPlaces DEF ReadWorkspace
<1>4. CASE PrepareOps(c) \/ PrepareRestore(c) \/ PrepareAgentApply(c) \/ PrepareApply(c)
  BY <1>0, <1>4, GotoPlaces DEF PrepareOps, PrepareRestore, PrepareAgentApply, PrepareApply,
     Prepare, End, Committed
<1>5. CASE AssessAndMigrate(c)
  <2>1. (Goto(c, "temp") \/ Goto(c, "refused")) /\ req[c].at = "graph"
    BY <1>5 DEF AssessAndMigrate
  <2> QED BY <1>0, <2>1, GotoPlaces DEF Committed
<1>6. CASE WriteTemp(c)
  <2>1. [req[c] EXCEPT !.temp = TRUE, !.at = "link"].at = "link"
    BY <1>0, Fields
  <2> QED BY <1>0, <1>6, <2>1, SetPlaces DEF WriteTemp, Committed
<1>7. CASE PublishNoReplace(c)
  <2>1. [req[c] EXCEPT !.temp = FALSE, !.at = "replay"].at = "replay"
    BY <1>0, Fields
  <2>2. [req[c] EXCEPT !.final = @ \cup {Candidate(c)}, !.at = "untemp"].at = "untemp"
    BY <1>0, Fields
  <2> QED BY <1>0, <1>7, <2>1, <2>2, SetPlaces DEF PublishNoReplace, Committed
<1>8. CASE RemoveTemp(c)
  <2> DEFINE q == IF req[c].i < Len(Candidates(c))
                  THEN [req[c] EXCEPT !.temp = FALSE, !.i = @ + 1, !.at = "temp"]
                  ELSE [req[c] EXCEPT !.temp = FALSE, !.at = "tx"]
  <2>1. q.at \in {"temp", "tx"}
    BY <1>0, Fields
  <2>2. Set(c, q) /\ req[c].at = "untemp"
    BY <1>8 DEF RemoveTemp
  <2> HIDE DEF q
  <2> QED BY <1>0, <2>1, <2>2, SetPlaces DEF Committed
<1>9. CASE PublishFails(c)
  <2>1. [req[c] EXCEPT !.temp = FALSE, !.final = {}, !.at = "failed"].at = "failed"
    BY <1>0, Fields
  <2> QED BY <1>0, <1>9, <2>1, SetPlaces DEF PublishFails, Committed
<1>10. CASE Commit(c)
  BY <1>0, <1>10, GotoPlaces DEF Commit, Committed
<1>11. CASE Conflict(c)
  <2>1. [req[c] EXCEPT !.at = "clean", !.i = 1, !.code = "CONFLICT"].at = "clean"
    BY <1>0, Fields
  <2> QED BY <1>0, <1>11, <2>1, SetPlaces DEF Conflict, Committed
<1>12. CASE MigrationReplayed(c)
  <2>1. PICK replay, code :
            Set(c, [req[c] EXCEPT !.at = "clean", !.i = 1, !.replay = replay, !.code = code])
    BY <1>12 DEF MigrationReplayed
  <2>2. [req[c] EXCEPT !.at = "clean", !.i = 1, !.replay = replay, !.code = code].at = "clean"
    BY <1>0, Fields
  <2> QED BY <1>0, <2>1, <2>2, SetPlaces DEF Committed
<1>13. CASE TransactionFails(c)
  <2>1. [req[c] EXCEPT !.at = "clean", !.i = 1].at = "clean"
    BY <1>0, Fields
  <2> QED BY <1>0, <1>13, <2>1, SetPlaces DEF TransactionFails, Committed
<1>14. CASE CleanupAfterStoreError(c)
  <2>1. [req[c] EXCEPT !.i = @ + 1, !.final = @ \ {Candidate(c)}].at = req[c].at
    BY <1>0, Fields
  <2> QED BY <1>0, <1>14, <2>1, GotoPlaces, SetPlaces DEF CleanupAfterStoreError, Cleaned, Committed
<1>15. CASE CleanupDeferred(c)
  <2>1. [req[c] EXCEPT !.i = @ + 1, !.replay = FALSE, !.code = "none",
                          !.final = @ \ {Candidate(c)}].at = req[c].at
    BY <1>0, Fields
  <2> QED BY <1>0, <1>15, <2>1, SetPlaces DEF CleanupDeferred, Committed
<1>16. CASE ResolveProposal(c)
  BY <1>0, <1>16, GotoPlaces DEF ResolveProposal, End, Committed
<1>17. CASE TellDismissed(c) \/ SetWorkspaceProvider(c) \/ Disconnect(c)
  BY <1>0, <1>17, GotoPlaces DEF TellDismissed, SetWorkspaceProvider, Disconnect, Committed
<1> QED BY <1>1, <1>2, <1>3, <1>4, <1>5, <1>6, <1>7, <1>8, <1>9, <1>10, <1>11, <1>12, <1>13,
           <1>14, <1>15, <1>16, <1>17

LEMMA PlacesStep ==
    ASSUME LinearInv, [Next]_vars, NEW d \in Requests
    PROVE  /\ req[d].at \in Committed => req'[d].at \in Committed
           /\ req'[d].at = "tell" =>
                 req[d].at = "tell" \/ (ResolveProposal(d) /\ Pending # {})
<1>1. ASSUME NEW c \in Requests, Places(c)
      PROVE  /\ req[d].at \in Committed => req'[d].at \in Committed
             /\ req'[d].at = "tell" =>
                   req[d].at = "tell" \/ (ResolveProposal(d) /\ Pending # {})
  BY <1>1 DEF Places
<1>2. CASE Crash
  <2>1. req'[d] = req[d] \/ req'[d] = [req[d] EXCEPT !.at = "gone"]
    BY <1>2 DEF Crash
  <2>2. [req[d] EXCEPT !.at = "gone"].at = "gone"
    BY Fields DEF LinearInv, RequestShape
  <2> QED BY <2>1, <2>2 DEF Committed
<1>3. CASE VerifyReferences \/ RemoveOrphan \/ RemoveOrphanFails \/ Serve \/ UNCHANGED vars
  <2>1. req' = req
    BY <1>3 DEF VerifyReferences, RemoveOrphan, RemoveOrphanFails, Serve, vars
  <2> QED BY <2>1
<1> QED BY <1>1, <1>2, <1>3, RequestPlaces DEF Next

-----------------------------------------------------------------------------
(* Proposals, their versions and their messages.                           *)

Applied(id) == [kind |-> "proposal_applied", ref |-> id]
Dismissed(id) == [kind |-> "proposal_dismissed", ref |-> id]

\* The row, the message and the version of a proposal agree.
ProposalAgrees(p) ==
    /\ p.result \in 0 .. Len(versions)
    /\ p.state = "applied" <=> p.result # 0
    /\ p.state = "applied" <=> Applied(p.id) \in messages
    /\ Dismissed(p.id) \in messages => p.state = "dismissed"
    /\ p.result # 0 => versions[p.result].source = "proposal"

\* Only a former release's proposal is ever pending; an agent's comes with
\* the transaction of its request.
Owned(id) == id = Legacy \/ (id \in Requests /\ req[id].at \in Committed)

ProposalInv ==
    /\ \A p \in proposals : /\ ProposalAgrees(p) /\ Owned(p.id)
                            /\ p.state = "pending" => p.id = Legacy
    /\ \A p, q \in proposals : p.id = q.id \/ (p.result = q.result /\ p.result # 0) => p = q
    /\ \A m \in messages : Owned(m.ref)
    /\ \A v \in DOMAIN versions : versions[v].source = "proposal" =>
          \E p \in proposals : p.result = v
    /\ \A c \in Requests : req[c].at = "tell" =>
          \A p \in proposals : p.id = Legacy => p.state = "dismissed"

LEMMA Kinds ==
    ASSUME NEW id, NEW other
    PROVE  Applied(id) # Dismissed(other) /\ (Applied(id) = Applied(other) => id = other)
           /\ Applied(id).ref = id /\ Dismissed(id).ref = id
           /\ (Dismissed(id) = Dismissed(other) => id = other)
<1>1. Applied(id).kind = "proposal_applied" /\ Dismissed(other).kind = "proposal_dismissed"
      /\ Applied(id).ref = id /\ Applied(other).ref = other /\ Dismissed(id).ref = id
      /\ Dismissed(other).ref = other
  BY DEF Applied, Dismissed
<1> QED BY <1>1

LEMMA OwnedStays ==
    ASSUME LinearInv, [Next]_vars, NEW id, Owned(id)
    PROVE  Owned(id)'
  BY PlacesStep DEF Owned

LEMMA InitProposals == Init => ProposalInv
<1> SUFFICES ASSUME Init PROVE ProposalInv
  OBVIOUS
<1>1. messages = {} /\ \A c \in Requests : req[c].at = "new"
  BY DEF Init, NewRequest
<1>2. proposals \in {{}, {LegacyProposal}}
  BY DEF Init
<1>3. LegacyProposal.id = Legacy /\ LegacyProposal.state = "pending" /\ LegacyProposal.result = 0
  BY DEF LegacyProposal
<1>4. Len(versions) \in Nat /\ \A v \in DOMAIN versions : versions[v].source = "manual"
  <2>1. Len(<<>>) = 0 /\ DOMAIN <<>> = {} /\ Len(<<LegacyVersion>>) = 1
        /\ \A v \in DOMAIN <<LegacyVersion>> : <<LegacyVersion>>[v] = LegacyVersion
    OBVIOUS
  <2>2. LegacyVersion.source = "manual"
    BY DEF LegacyVersion
  <2> QED BY <2>1, <2>2 DEF Init
<1>5. \A p \in proposals : p = LegacyProposal
  BY <1>2
<1>6. \A p \in proposals : ProposalAgrees(p) /\ Owned(p.id) /\ p.id = Legacy
  BY <1>1, <1>3, <1>4, <1>5 DEF ProposalAgrees, Owned
<1> QED BY <1>1, <1>4, <1>5, <1>6 DEF ProposalInv

\* What a step must leave of a proposal and its version for them to agree.
LEMMA AgreesStays ==
    ASSUME NEW p, ProposalAgrees(p), Len(versions) \in Nat, Len(versions') \in Nat,
           DOMAIN versions = 1 .. Len(versions), Len(versions) <= Len(versions'),
           \A v \in DOMAIN versions : versions'[v] = versions[v],
           Applied(p.id) \in messages' <=> Applied(p.id) \in messages,
           Dismissed(p.id) \in messages' => Dismissed(p.id) \in messages
    PROVE  ProposalAgrees(p)'
  BY DEF ProposalAgrees

\* A transaction that resolves no proposal.
LEMMA OthersCommit ==
    ASSUME LinearInv, ProposalInv, [Next]_vars, NEW row, row.source # "proposal",
           versions' = Append(versions, row), UNCHANGED <<proposals, messages>>,
           \A c \in Requests : req'[c].at = "tell" => req[c].at = "tell"
    PROVE  ProposalInv'
<1>1. \A p \in proposals : ProposalAgrees(p)'
  BY Appended, AgreesStays DEF ProposalInv
<1>2. ASSUME NEW v \in DOMAIN versions', versions'[v].source = "proposal"
      PROVE  \E p \in proposals' : p.result = v
  BY <1>2, Appended DEF ProposalInv
<1> QED BY <1>1, <1>2, OwnedStays DEF ProposalInv

\* A transaction that commits the version of proposal r, with its message.
LEMMA AppliedOne ==
    ASSUME LinearInv, ProposalInv, [Next]_vars, NEW row, row.source = "proposal",
           versions' = Append(versions, row),
           NEW r, NEW others, others \subseteq proposals, proposals' = others \cup {r},
           \A q \in others : q.id # r.id, \A q \in proposals \ others : q.result = 0,
           r.state = "applied", r.result = Len(versions) + 1,
           messages' = messages \cup {Applied(r.id)}, Dismissed(r.id) \notin messages,
           Owned(r.id)',
           \A c \in Requests : req'[c].at = "tell" => req[c].at = "tell" /\ r.id # Legacy
    PROVE  ProposalInv'
<1> DEFINE N == Len(versions) + 1
<1>1. /\ Len(versions) \in Nat /\ Len(versions') = N /\ DOMAIN versions = 1 .. Len(versions)
      /\ DOMAIN versions' = 1 .. N /\ versions'[N] = row
      /\ \A v \in DOMAIN versions : versions'[v] = versions[v]
  BY Appended
<1>2. ASSUME NEW q \in others PROVE ProposalAgrees(q)' /\ Owned(q.id)'
                                    /\ (q.state = "pending" => q.id = Legacy)
                                    /\ q.result \in 0 .. Len(versions)
  <2>1. Applied(q.id) # Applied(r.id) /\ Dismissed(q.id) # Applied(r.id)
    BY Kinds
  <2>2. ProposalAgrees(q) /\ Owned(q.id) /\ (q.state = "pending" => q.id = Legacy)
    BY DEF ProposalInv
  <2>3. ProposalAgrees(q)'
    BY <1>1, <2>1, <2>2, AgreesStays
  <2> QED BY <2>2, <2>3, OwnedStays DEF ProposalAgrees
<1>3. ProposalAgrees(r)'
  <2>1. Dismissed(r.id) \notin messages'
    BY Kinds
  <2> QED BY <1>1, <2>1 DEF ProposalAgrees
<1>4. ASSUME NEW p \in proposals', NEW q \in proposals',
             p.id = q.id \/ (p.result = q.result /\ p.result # 0)
      PROVE  p = q
  <2>1. CASE p \in others /\ q \in others
    BY <1>4, <2>1 DEF ProposalInv
  <2>2. CASE p \in others /\ q = r
    BY <1>1, <1>2, <1>4, <2>2
  <2>3. CASE p = r /\ q \in others
    BY <1>1, <1>2, <1>4, <2>3
  <2> QED BY <2>1, <2>2, <2>3
<1>5. \A m \in messages' : Owned(m.ref)'
  <2>1. \A m \in messages : Owned(m.ref)'
    BY OwnedStays DEF ProposalInv
  <2> QED BY <2>1, Kinds
<1>6. ASSUME NEW v \in DOMAIN versions', versions'[v].source = "proposal"
      PROVE  \E p \in proposals' : p.result = v
  <2>1. CASE v = N
    BY <2>1
  <2>2. CASE v \in DOMAIN versions
    <3>1. PICK p \in proposals : p.result = v
      BY <1>1, <1>6, <2>2 DEF ProposalInv
    <3> QED BY <1>1, <2>2, <3>1
  <2> QED BY <1>1, <2>1, <2>2
<1>7. ASSUME NEW c \in Requests, req'[c].at = "tell", NEW p \in proposals', p.id = Legacy
      PROVE  p.state = "dismissed"
  BY <1>7 DEF ProposalInv
<1> QED BY <1>2, <1>3, <1>4, <1>5, <1>6, <1>7 DEF ProposalInv

LEMMA CommitProposals ==
    ASSUME LinearInv, RowShape, ProposalInv, [Next]_vars, NEW c \in Requests,
           At(c, "tx"), Transaction(c), Commit(c) \/ TransactionFails(c)
    PROVE  ProposalInv'
<1>1. PICK row : versions' = Append(versions, row) /\ Commits(c, row)
  BY TransactionRow
<1>2. req'[c].at \in Committed /\ \A d \in Requests \ {c} : req'[d] = req[d]
  <2>1. CASE Commit(c)
    BY <2>1, GotoAt DEF Commit, LinearInv, Committed
  <2>2. CASE TransactionFails(c)
    <3>1. [req[c] EXCEPT !.at = "clean", !.i = 1].at = "clean"
      BY Fields DEF LinearInv, RequestShape
    <3> QED BY <2>2, <3>1, SetAt DEF TransactionFails, LinearInv, Committed
  <2> QED BY <2>1, <2>2
<1>3. \A d \in Requests : req'[d].at = "tell" => req[d].at = "tell"
  BY <1>2 DEF Committed
<1>4. ~Owned(c)
  BY VersionsAssumption DEF Owned, At, Committed
<1>5. CASE row.source # "proposal" /\ UNCHANGED <<proposals, messages>>
  BY <1>1, <1>3, <1>5, OthersCommit
<1>6. CASE /\ row.source = "proposal"
           /\ \E p \in proposals :
                /\ p.id = Legacy /\ p.state = "pending"
                /\ proposals' = (proposals \ {p}) \cup {MarkApplied(p)}
                /\ messages' = messages \cup {[kind |-> "proposal_applied", ref |-> p.id]}
  <2>1. PICK p \in proposals :
                /\ p.id = Legacy /\ p.state = "pending"
                /\ proposals' = (proposals \ {p}) \cup {MarkApplied(p)}
                /\ messages' = messages \cup {[kind |-> "proposal_applied", ref |-> p.id]}
    BY <1>6
  <2>2. PICK r : r = MarkApplied(p)
    OBVIOUS
  <2>3. r.id = Legacy /\ r.state = "applied" /\ r.result = Len(versions) + 1
    BY <2>1, <2>2 DEF MarkApplied, RowShape, LegacyProposal
  <2>4. ProposalAgrees(p) /\ \A q \in proposals : q.id = Legacy => q = p
    BY <2>1 DEF ProposalInv
  <2>5. p.result = 0 /\ Dismissed(Legacy) \notin messages
    BY <2>1, <2>4 DEF ProposalAgrees
  <2>6. \A d \in Requests : req[d].at # "tell"
    BY <2>1 DEF ProposalInv
  <2>7. Owned(r.id)'
    BY <2>3 DEF Owned
  <2>8. /\ proposals' = (proposals \ {p}) \cup {r} /\ proposals \ {p} \subseteq proposals
        /\ messages' = messages \cup {Applied(r.id)}
        /\ \A q \in proposals \ {p} : q.id # r.id
        /\ \A q \in proposals \ (proposals \ {p}) : q.result = 0
        /\ Dismissed(r.id) \notin messages
    BY <2>1, <2>2, <2>3, <2>4, <2>5 DEF Applied
  <2> QED BY <1>1, <1>3, <1>6, <2>3, <2>6, <2>7, <2>8, AppliedOne
<1>7. CASE /\ row.source = "proposal"
           /\ \E base : proposals' = proposals \cup
                {[id |-> c, base |-> base, state |-> "applied", result |-> Len(versions) + 1,
                  files |-> {AgentCandidates(c)[1], AgentCandidates(c)[2]}]}
           /\ messages' = messages \cup {[kind |-> "proposal_applied", ref |-> c]}
  <2>1. PICK base, r :
            /\ proposals' = proposals \cup {r}
            /\ r = [id |-> c, base |-> base, state |-> "applied", result |-> Len(versions) + 1,
                    files |-> {AgentCandidates(c)[1], AgentCandidates(c)[2]}]
    BY <1>7
  <2>2. r.id = c /\ r.state = "applied" /\ r.result = Len(versions) + 1
    BY <2>1
  <2>3. \A q \in proposals : q.id # c
    BY <1>4 DEF ProposalInv
  <2>4. Dismissed(c) \notin messages
    BY <1>4, Kinds DEF ProposalInv
  <2>5. Owned(c)' /\ c # Legacy
    BY <1>2, VersionsAssumption DEF Owned
  <2>6. messages' = messages \cup {Applied(r.id)}
    BY <1>7, <2>2 DEF Applied
  <2>7. /\ proposals \subseteq proposals /\ \A q \in proposals : q.id # r.id
        /\ \A q \in proposals \ proposals : q.result = 0
        /\ Dismissed(r.id) \notin messages /\ Owned(r.id)'
    BY <2>2, <2>3, <2>4, <2>5
  <2> QED BY <1>1, <1>3, <1>7, <2>1, <2>2, <2>5, <2>6, <2>7, AppliedOne
<1> QED BY <1>1, <1>5, <1>6, <1>7 DEF Commits

LEMMA ResolveProposals ==
    ASSUME LinearInv, RowShape, ProposalInv, [Next]_vars, NEW c \in Requests, ResolveProposal(c)
    PROVE  ProposalInv'
<1>1. UNCHANGED <<versions, messages>> /\ Len(versions) \in Nat
  BY DEF ResolveProposal, End, rows, LinearInv
<1>2. CASE Pending = {}
  <2>1. UNCHANGED proposals
    BY <1>2 DEF ResolveProposal, End, rows
  <2>2. \A d \in Requests : req'[d].at = "tell" => req[d].at = "tell"
    BY <1>2, PlacesStep
  <2>3. \A p \in proposals : ProposalAgrees(p)' <=> ProposalAgrees(p)
    BY <1>1 DEF ProposalAgrees
  <2> QED BY <1>1, <2>1, <2>2, <2>3, OwnedStays DEF ProposalInv
<1>3. CASE Pending # {}
  <2> DEFINE D(p) == IF p.state = "pending" THEN [p EXCEPT !.state = "dismissed"] ELSE p
  <2>1. proposals' = {D(p) : p \in proposals}
    BY <1>3 DEF ResolveProposal
  <2>2. ASSUME NEW p \in proposals
        PROVE  /\ D(p).id = p.id /\ D(p).result = p.result
               /\ D(p).state = (IF p.state = "pending" THEN "dismissed" ELSE p.state)
    BY DEF RowShape, LegacyProposal
  <2> HIDE DEF D
  <2>3. ASSUME NEW p \in proposals
        PROVE  ProposalAgrees(D(p))' /\ Owned(D(p).id)' /\ D(p).state # "pending"
    <3>1. ProposalAgrees(p) /\ Owned(p.id)
      BY DEF ProposalInv
    <3>2. ProposalAgrees(D(p))
      BY <2>2, <3>1 DEF ProposalAgrees
    <3>3. ProposalAgrees(D(p))'
      BY <1>1, <3>2 DEF ProposalAgrees
    <3>4. Owned(D(p).id)'
      BY <2>2, <3>1, OwnedStays
    <3> QED BY <2>2, <3>3, <3>4
  <2>4. ASSUME NEW p \in proposals, NEW q \in proposals,
               D(p).id = D(q).id \/ (D(p).result = D(q).result /\ D(p).result # 0)
        PROVE  D(p) = D(q)
    <3>1. p = q
      BY <2>2, <2>4 DEF ProposalInv
    <3> QED BY <3>1
  <2>5. \A m \in messages : Owned(m.ref)'
    BY OwnedStays DEF ProposalInv
  <2>6. ASSUME NEW v \in DOMAIN versions, versions[v].source = "proposal"
        PROVE  \E p \in proposals : D(p).result = v
    BY <2>2, <2>6 DEF ProposalInv
  <2>7. ASSUME NEW p \in proposals, p.id = Legacy PROVE D(p).state = "dismissed"
    <3>1. PICK q \in proposals : q.state = "pending"
      BY <1>3 DEF Pending
    <3>2. q.id = Legacy
      BY <3>1 DEF ProposalInv
    <3>3. p = q
      BY <2>7, <3>2 DEF ProposalInv
    <3> QED BY <2>2, <3>1, <3>3
  <2>8. \A p \in proposals : D(p).id = Legacy => D(p).state = "dismissed"
    BY <2>2, <2>7
  <2> QED BY <1>1, <2>1, <2>3, <2>4, <2>5, <2>6, <2>8 DEF ProposalInv
<1> QED BY <1>2, <1>3

LEMMA TellProposals ==
    ASSUME LinearInv, ProposalInv, [Next]_vars, NEW c \in Requests, TellDismissed(c)
    PROVE  ProposalInv'
<1>1. /\ UNCHANGED <<versions, proposals>> /\ messages' = messages \cup {Dismissed(Legacy)}
      /\ req[c].at = "tell" /\ ~ResolveProposal(c)
  BY DEF TellDismissed, At, Dismissed, ResolveProposal
<1>2. \A d \in Requests : req'[d].at = "tell" => req[d].at = "tell" \/ d = c
  BY GotoAt DEF TellDismissed, LinearInv
<1>3. ASSUME NEW p \in proposals PROVE ProposalAgrees(p)'
  <2>1. ProposalAgrees(p) /\ (p.id = Legacy => p.state = "dismissed")
    BY <1>1 DEF ProposalInv
  <2>2. Applied(p.id) \in messages' <=> Applied(p.id) \in messages
    BY <1>1, Kinds
  <2>3. Dismissed(p.id) \in messages' => Dismissed(p.id) \in messages \/ p.id = Legacy
    BY <1>1, Kinds
  <2> QED BY <1>1, <2>1, <2>2, <2>3 DEF ProposalAgrees
<1>4. \A m \in messages' : Owned(m.ref)'
  <2>1. Owned(Legacy)'
    BY DEF Owned
  <2>2. \A m \in messages : Owned(m.ref)'
    BY OwnedStays DEF ProposalInv
  <2> QED BY <1>1, <2>1, <2>2, Kinds
<1> QED BY <1>1, <1>2, <1>3, <1>4, OwnedStays DEF ProposalInv

LEMMA NextProposals ==
    ASSUME LinearInv, RowShape, ProposalInv, [Next]_vars
    PROVE  ProposalInv'
<1>1. CASE UNCHANGED <<versions, proposals, messages, migrations>>
  <2>1. \A d \in Requests : ResolveProposal(d) => ProposalInv'
    BY ResolveProposals
  <2>2. CASE \A d \in Requests : ~ResolveProposal(d)
    <3>1. \A d \in Requests : req'[d].at = "tell" => req[d].at = "tell"
      BY <2>2, PlacesStep
    <3>2. \A p \in proposals : ProposalAgrees(p)' <=> ProposalAgrees(p)
      BY <1>1 DEF ProposalAgrees
    <3> QED BY <1>1, <3>1, <3>2, OwnedStays DEF ProposalInv
  <2> QED BY <2>1, <2>2
<1> QED BY <1>1, RowsStep, CommitProposals, ResolveProposals, TellProposals

LEMMA ProposalsAgree ==
    ASSUME LinearInv, ProposalInv
    PROVE  ProposalsResolveOnce
<1>1. ASSUME NEW p \in proposals
      PROVE  /\ (p.state = "applied") = (p.result # 0)
             /\ (p.state = "applied") = ([kind |-> "proposal_applied", ref |-> p.id] \in messages)
             /\ [kind |-> "proposal_dismissed", ref |-> p.id] \in messages => p.state = "dismissed"
  <2>1. ProposalAgrees(p)
    BY DEF ProposalInv
  <2> QED BY <2>1 DEF ProposalAgrees, Applied, Dismissed
<1>2. ASSUME NEW v \in DOMAIN versions
      PROVE  Cardinality({p \in proposals : p.result = v}) =
                 (IF versions[v].source = "proposal" THEN 1 ELSE 0)
  <2> DEFINE Of == {p \in proposals : p.result = v}
  <2>1. v # 0
    BY DEF LinearInv
  <2>2. CASE versions[v].source = "proposal"
    <3>1. PICK p \in proposals : p.result = v
      BY <2>2 DEF ProposalInv
    <3>2. \A q \in Of : q = p
      BY <2>1, <3>1 DEF ProposalInv
    <3>3. Of = {p}
      BY <3>1, <3>2
    <3> QED BY <2>2, <3>3, FS_Singleton
  <2>3. CASE versions[v].source # "proposal"
    <3>1. Of = {}
      BY <2>1, <2>3 DEF ProposalInv, ProposalAgrees
    <3> QED BY <2>3, <3>1, FS_EmptySet
  <2> QED BY <2>2, <2>3
<1> QED BY <1>1, <1>2 DEF ProposalsResolveOnce

LEMMA ProposalsInvariant == Spec => [](LinearInv /\ RowShape /\ ProposalInv)
<1>1. Init => LinearInv /\ RowShape /\ ProposalInv
  BY InitLinear, InitRows, InitProposals
<1>2. (LinearInv /\ RowShape /\ ProposalInv) /\ [Next]_vars
          => (LinearInv /\ RowShape /\ ProposalInv)'
  BY NextLinear, NextRows, NextProposals
<1> QED BY <1>1, <1>2, PTL DEF Spec

\* However apply and dismiss race, a proposal is resolved once: one version
\* and one message come of an applied one, and none of a dismissed one
\* (create_version_after_applying_proposal, resolve_proposal).
THEOREM ResolvedOnce == Spec => []ProposalsResolveOnce
<1>1. LinearInv /\ RowShape /\ ProposalInv => ProposalsResolveOnce
  BY ProposalsAgree
<1> QED BY <1>1, ProposalsInvariant, PTL

-----------------------------------------------------------------------------
(* Repeats.  What was answered is in the history.                          *)

Found(base, body) ==
    \E v \in DOMAIN versions : versions[v].parent = base /\ versions[v].hash = body

\* Whoever has been told "ok", or will be, finds its graph.
Answered(c) ==
    /\ (req[c].at = "ok" /\ req[c].op \in {"ops", "migrate"}) \/ req[c].replay
          => Found(req[c].base, req[c].body)
    /\ req[c].at \in {"resolve", "tell"} => req[c].op = "dismiss"

RepeatsInv ==
    /\ \A v, w \in DOMAIN versions :
        versions[v].source = "manual" /\ versions[w].source = "manual"
        /\ versions[v].file = versions[w].file => v = w
    /\ \A m, n \in migrations : m.op = n.op => m = n
    /\ \A m \in migrations : \E base, body : m.fp = <<base, body>> /\ Found(base, body)
    /\ \A c \in Requests : Answered(c)

Grows ==
    \A v \in DOMAIN versions : v \in DOMAIN versions' /\ versions'[v] = versions[v]

LEMMA HistoryGrows ==
    ASSUME LinearInv, [Next]_vars
    PROVE  Grows
<1>1. ASSUME NEW c \in Requests, At(c, "tx"), Transaction(c) PROVE Grows
  BY <1>1, TransactionRow, Appended DEF Grows
<1>2. ASSUME NEW c \in Requests, ResolveProposal(c) \/ TellDismissed(c) PROVE Grows
  <2>1. UNCHANGED versions
    BY <1>2 DEF ResolveProposal, TellDismissed, End, rows
  <2> QED BY <2>1 DEF Grows
<1>3. CASE UNCHANGED versions
  BY <1>3 DEF Grows
<1> QED BY <1>1, <1>2, <1>3, RowsStep

LEMMA FoundStays ==
    ASSUME Grows, NEW base, NEW body, Found(base, body)
    PROVE  Found(base, body)'
  BY DEF Grows, Found

LEMMA GotoKeeps ==
    ASSUME RequestShape, NEW c \in Requests, NEW label, Goto(c, label)
    PROVE  /\ req'[c].at = label /\ req'[c].op = req[c].op /\ req'[c].base = req[c].base
           /\ req'[c].body = req[c].body /\ req'[c].replay = req[c].replay
           /\ \A d \in Requests \ {c} : req'[d] = req[d]
<1>1. DOMAIN req[c] = DOMAIN NewRequest
  BY DEF RequestShape
<1>2. req'[c] = [req[c] EXCEPT !.at = label] /\ \A d \in Requests \ {c} : req'[d] = req[d]
  BY GotoAt
<1> QED BY <1>1, <1>2, Fields

\* A request that is told its graph is in the history.
LEMMA GotoFound ==
    ASSUME RequestShape, NEW c \in Requests, NEW label, Goto(c, label), Grows,
           label \notin {"resolve", "tell"}, Found(req[c].base, req[c].body)
    PROVE  Answered(c)' /\ \A d \in Requests \ {c} : req'[d] = req[d]
  BY GotoKeeps DEF Answered, Found, Grows

LEMMA GotoAnswered ==
    ASSUME RequestShape, NEW c \in Requests, NEW label, Goto(c, label), Grows, Answered(c),
           label \in {"resolve", "tell"} => req[c].op = "dismiss",
           label = "ok" => req[c].op \notin {"ops", "migrate"}
    PROVE  Answered(c)' /\ \A d \in Requests \ {c} : req'[d] = req[d]
<1>1. req[c].replay => Found(req[c].base, req[c].body)
  BY DEF Answered
<1> QED BY <1>1, GotoKeeps DEF Answered, Found, Grows

LEMMA SetAnswered ==
    ASSUME RequestShape, NEW c \in Requests, NEW q, Set(c, q), Grows, Answered(c),
           q.op = req[c].op, q.base = req[c].base, q.body = req[c].body,
           q.at \notin {"ok", "resolve", "tell"},
           q.replay => req[c].replay \/ Found(req[c].base, req[c].body)
    PROVE  Answered(c)' /\ \A d \in Requests \ {c} : req'[d] = req[d]
<1>1. req'[c] = q /\ \A d \in Requests \ {c} : req'[d] = req[d]
  BY SetAt
<1>2. q.replay => \E v \in DOMAIN versions' : versions'[v].parent = q.base
                                              /\ versions'[v].hash = q.body
  BY DEF Answered, Found, Grows
<1> QED BY <1>1, <1>2 DEF Answered, Found

LEMMA OthersAnswered ==
    ASSUME NEW d \in Requests, Answered(d), Grows, req'[d] = req[d]
    PROVE  Answered(d)'
  BY DEF Answered, Found, Grows

\* The place and the answer of the request that takes a step.
Answers(c) == Answered(c)' /\ \A d \in Requests \ {c} : req'[d] = req[d]

LEMMA RequestAnswers ==
    ASSUME LinearInv, RepeatsInv, Grows, NEW c \in Requests,
        \/ Receive(c) \/ ReadProposal(c) \/ ReadOperation(c) \/ ReadWorkspace(c)
        \/ PrepareOps(c) \/ PrepareRestore(c) \/ PrepareAgentApply(c) \/ PrepareApply(c)
        \/ AssessAndMigrate(c)
        \/ WriteTemp(c) \/ PublishNoReplace(c) \/ RemoveTemp(c) \/ PublishFails(c)
        \/ Conflict(c) \/ MigrationReplayed(c) \/ TransactionFails(c)
        \/ CleanupAfterStoreError(c) \/ CleanupDeferred(c) \/ Replay(c)
        \/ ResolveProposal(c) \/ TellDismissed(c) \/ SetWorkspaceProvider(c)
        \/ Disconnect(c)
    PROVE  Answers(c)
<1>0. RequestShape /\ DOMAIN req[c] = DOMAIN NewRequest /\ Answered(c)
  BY DEF LinearInv, RequestShape, RepeatsInv
<1> USE DEF At, Answers
<1>1. ASSUME NEW label, Goto(c, label), label \notin {"ok", "resolve", "tell"} PROVE Answers(c)
  BY <1>0, <1>1, GotoAnswered
<1>2. ASSUME NEW q, Set(c, q), q.op = req[c].op, q.base = req[c].base, q.body = req[c].body,
             q.at \notin {"ok", "resolve", "tell"}, q.replay = req[c].replay
      PROVE  Answers(c)
  BY <1>0, <1>2, SetAnswered
<1>3. CASE Receive(c)
  <2>1. PICK q : Set(c, q) /\ q.at \in {"temp", "read"} /\ q.replay = FALSE
    <3>1. PICK op, base, key, body :
              Set(c, [NewRequest EXCEPT !.op = op, !.base = base, !.key = key, !.body = body,
                       !.at = IF op = "create" THEN "temp" ELSE "read"])
      BY <1>3 DEF Receive
    <3> DEFINE r == [NewRequest EXCEPT !.op = op, !.base = base, !.key = key, !.body = body,
                       !.at = IF op = "create" THEN "temp" ELSE "read"]
    <3>2. r.at \in {"temp", "read"} /\ r.replay = FALSE
      BY DEF NewRequest
    <3> QED BY <3>1, <3>2
  <2>2. req'[c] = q /\ \A d \in Requests \ {c} : req'[d] = req[d]
    BY <1>0, <2>1, SetAt
  <2> QED BY <2>1, <2>2 DEF Answered
<1>4. CASE ReadProposal(c)
  BY <1>0, <1>4, GotoAnswered DEF ReadProposal, End
<1>5. CASE ReadOperation(c)
  <2>1. CASE Goto(c, "workspace") \/ Goto(c, "refused")
    BY <1>1, <2>1
  <2>2. CASE Goto(c, "ok") /\ \E m \in migrations : m.fp = Fingerprint(req[c])
    <3>1. PICK m \in migrations : m.fp = <<req[c].base, req[c].body>>
      BY <2>2 DEF Fingerprint
    <3>2. PICK base, body : m.fp = <<base, body>> /\ Found(base, body)
      BY DEF RepeatsInv
    <3>3. base = req[c].base /\ body = req[c].body
      BY <3>1, <3>2
    <3>4. Found(req[c].base, req[c].body)
      BY <3>2, <3>3
    <3> QED BY <1>0, <2>2, <3>4, GotoFound
  <2> QED BY <1>5, <2>1, <2>2 DEF ReadOperation, FindOperation
<1>6. CASE ReadWorkspace(c)
  <2> DEFINE q == [req[c] EXCEPT !.cur = current, !.conn = connector,
                                 !.target = TargetOf(c), !.at = "graph"]
  <2>1. q.op = req[c].op /\ q.base = req[c].base /\ q.body = req[c].body /\ q.at = "graph"
        /\ q.replay = req[c].replay
    BY <1>0, Fields
  <2>2. Set(c, q) \/ Goto(c, "refused")
    BY <1>6 DEF ReadWorkspace
  <2> HIDE DEF q
  <2> QED BY <1>1, <1>2, <2>1, <2>2
<1>7. CASE PrepareOps(c) \/ PrepareRestore(c) \/ PrepareAgentApply(c) \/ PrepareApply(c)
           \/ AssessAndMigrate(c) \/ Disconnect(c)
  <2>1. \E label : Goto(c, label) /\ label \notin {"ok", "resolve", "tell"}
    BY <1>7 DEF PrepareOps, PrepareRestore, PrepareAgentApply, PrepareApply, Prepare, End,
       AssessAndMigrate, Disconnect
  <2> QED BY <1>1, <2>1
<1>8. CASE WriteTemp(c)
  <2> DEFINE q == [req[c] EXCEPT !.temp = TRUE, !.at = "link"]
  <2>1. q.op = req[c].op /\ q.base = req[c].base /\ q.body = req[c].body /\ q.at = "link"
        /\ q.replay = req[c].replay
    BY <1>0, Fields
  <2>2. Set(c, q)
    BY <1>8 DEF WriteTemp
  <2> HIDE DEF q
  <2> QED BY <1>2, <2>1, <2>2
<1>9. CASE PublishNoReplace(c)
  <2> DEFINE q == [req[c] EXCEPT !.temp = FALSE, !.at = "replay"]
             r == [req[c] EXCEPT !.final = @ \cup {Candidate(c)}, !.at = "untemp"]
  <2>1. q.op = req[c].op /\ q.base = req[c].base /\ q.body = req[c].body /\ q.at = "replay"
        /\ q.replay = req[c].replay
    BY <1>0, Fields
  <2>2. r.op = req[c].op /\ r.base = req[c].base /\ r.body = req[c].body /\ r.at = "untemp"
        /\ r.replay = req[c].replay
    BY <1>0, Fields
  <2>3. Set(c, q) \/ Set(c, r)
    BY <1>9 DEF PublishNoReplace
  <2> HIDE DEF q, r
  <2> QED BY <1>2, <2>1, <2>2, <2>3
<1>10. CASE RemoveTemp(c)
  <2> DEFINE q == IF req[c].i < Len(Candidates(c))
                  THEN [req[c] EXCEPT !.temp = FALSE, !.i = @ + 1, !.at = "temp"]
                  ELSE [req[c] EXCEPT !.temp = FALSE, !.at = "tx"]
  <2>1. q.op = req[c].op /\ q.base = req[c].base /\ q.body = req[c].body /\ q.at \in {"temp", "tx"}
        /\ q.replay = req[c].replay
    BY <1>0, Fields
  <2>2. Set(c, q)
    BY <1>10 DEF RemoveTemp
  <2> HIDE DEF q
  <2> QED BY <1>2, <2>1, <2>2
<1>11. CASE PublishFails(c)
  <2> DEFINE q == [req[c] EXCEPT !.temp = FALSE, !.final = {}, !.at = "failed"]
  <2>1. q.op = req[c].op /\ q.base = req[c].base /\ q.body = req[c].body /\ q.at = "failed"
        /\ q.replay = req[c].replay
    BY <1>0, Fields
  <2>2. Set(c, q)
    BY <1>11 DEF PublishFails
  <2> HIDE DEF q
  <2> QED BY <1>2, <2>1, <2>2
<1>12. CASE Conflict(c)
  <2> DEFINE q == [req[c] EXCEPT !.at = "clean", !.i = 1, !.code = "CONFLICT"]
  <2>1. q.op = req[c].op /\ q.base = req[c].base /\ q.body = req[c].body /\ q.at = "clean"
        /\ q.replay = req[c].replay
    BY <1>0, Fields
  <2>2. Set(c, q)
    BY <1>12 DEF Conflict
  <2> HIDE DEF q
  <2> QED BY <1>2, <2>1, <2>2
<1>13. CASE MigrationReplayed(c)
  <2> DEFINE same == \E m \in FindOperation(req[c].key) : m.fp = Fingerprint(req[c])
  <2>1. PICK code : Set(c, [req[c] EXCEPT !.at = "clean", !.i = 1, !.replay = same, !.code = code])
    BY <1>13 DEF MigrationReplayed
  <2> DEFINE q == [req[c] EXCEPT !.at = "clean", !.i = 1, !.replay = same, !.code = code]
  <2>2. q.op = req[c].op /\ q.base = req[c].base /\ q.body = req[c].body /\ q.at = "clean"
        /\ q.replay = same
    BY <1>0, Fields
  <2>3. Set(c, q)
    BY <2>1
  <2>4. ASSUME same PROVE Found(req[c].base, req[c].body)
    <3>1. PICK m \in migrations : m.fp = <<req[c].base, req[c].body>>
      BY <2>4 DEF Fingerprint, FindOperation
    <3>2. PICK base, body : m.fp = <<base, body>> /\ Found(base, body)
      BY DEF RepeatsInv
    <3> QED BY <3>1, <3>2
  <2> HIDE DEF q, same
  <2> QED BY <1>0, <2>2, <2>3, <2>4, SetAnswered
<1>14. CASE TransactionFails(c)
  <2> DEFINE q == [req[c] EXCEPT !.at = "clean", !.i = 1]
  <2>1. q.op = req[c].op /\ q.base = req[c].base /\ q.body = req[c].body /\ q.at = "clean"
        /\ q.replay = req[c].replay
    BY <1>0, Fields
  <2>2. Set(c, q)
    BY <1>14 DEF TransactionFails
  <2> HIDE DEF q
  <2> QED BY <1>2, <2>1, <2>2
<1>15. CASE CleanupAfterStoreError(c)
  <2> DEFINE q == [req[c] EXCEPT !.i = @ + 1, !.final = @ \ {Candidate(c)}]
  <2>1. q.op = req[c].op /\ q.base = req[c].base /\ q.body = req[c].body /\ q.at = req[c].at
        /\ q.replay = req[c].replay /\ req[c].at = "clean"
    BY <1>0, <1>15, Fields DEF CleanupAfterStoreError
  <2>2. Set(c, q) \/ Goto(c, Cleaned(c))
    BY <1>15 DEF CleanupAfterStoreError
  <2> HIDE DEF q
  <2>3. CASE Set(c, q)
    BY <1>2, <2>1, <2>3
  <2>4. CASE Goto(c, Cleaned(c)) /\ ~req[c].replay
    BY <1>1, <2>4 DEF Cleaned
  <2>5. CASE Goto(c, "ok") /\ req[c].replay
    <3>1. Found(req[c].base, req[c].body)
      BY <1>0, <2>5 DEF Answered
    <3> QED BY <1>0, <2>5, <3>1, GotoFound
  <2> QED BY <2>2, <2>3, <2>4, <2>5 DEF Cleaned
<1>16. CASE CleanupDeferred(c)
  <2> DEFINE q == [req[c] EXCEPT !.i = @ + 1, !.replay = FALSE, !.code = "none",
                          !.final = @ \ {Candidate(c)}]
  <2>1. q.op = req[c].op /\ q.base = req[c].base /\ q.body = req[c].body /\ q.at = req[c].at
        /\ q.replay = FALSE /\ req[c].at = "clean"
    BY <1>0, <1>16, Fields DEF CleanupDeferred
  <2>2. Set(c, q)
    BY <1>16 DEF CleanupDeferred
  <2> HIDE DEF q
  <2> QED BY <1>0, <2>1, <2>2, SetAnswered
<1>17. CASE Replay(c)
  <2>1. CASE Goto(c, "refused")
    BY <1>1, <2>1
  <2>2. CASE Goto(c, "ok") /\ AcceptedIdempotentVersion(req[c])
    <3>1. Found(req[c].base, req[c].body)
      BY <2>2 DEF AcceptedIdempotentVersion, Found
    <3> QED BY <1>0, <2>2, <3>1, GotoFound
  <2> QED BY <1>17, <2>1, <2>2 DEF Replay, End
<1>18. CASE ResolveProposal(c) \/ TellDismissed(c)
  <2>1. req[c].op = "dismiss"
    BY <1>0, <1>18 DEF Answered, ResolveProposal, TellDismissed
  <2> QED BY <1>0, <1>18, <2>1, GotoAnswered DEF ResolveProposal, TellDismissed, End
<1>19. CASE SetWorkspaceProvider(c)
  BY <1>0, <1>19, GotoAnswered DEF SetWorkspaceProvider
<1> QED BY <1>3, <1>4, <1>5, <1>6, <1>7, <1>8, <1>9, <1>10, <1>11, <1>12, <1>13, <1>14, <1>15,
           <1>16, <1>17, <1>18, <1>19

\* No row names the file that a transaction is about to name.
LEMMA NewFileIsNew ==
    ASSUME FilesInv, NEW c \in Requests, At(c, "tx"), req[c].op \in {"create", "ops"}
    PROVE  ~Referenced(Candidate(c))
<1>1. req[c].at = "tx" /\ req[c].at \in Publishing
  BY DEF At, Publishing
<1>2. Len(Candidates(c)) = 1
  BY DEF Candidates
<1>3. req[c].i = 1 /\ req[c].final = Some(c, 1, 1)
  <2>1. /\ req[c].final = Some(c, 1, Len(Candidates(c)))
        /\ Len(Candidates(c)) > 0 => req[c].i = Len(Candidates(c))
    BY <1>1 DEF FilesInv, Progress
  <2> QED BY <1>2, <2>1
<1>4. Candidate(c) \in req[c].final
  BY <1>3 DEF Some, Candidate
<1> QED BY <1>1, <1>4 DEF FilesInv, Held

LEMMA CommitRepeats ==
    ASSUME LinearInv, FilesInv, RepeatsInv, [Next]_vars, NEW c \in Requests,
           At(c, "tx"), Transaction(c), Commit(c) \/ TransactionFails(c)
    PROVE  RepeatsInv'
<1>1. PICK row : versions' = Append(versions, row) /\ Commits(c, row)
  BY TransactionRow
<1> DEFINE N == Len(versions) + 1
<1>2. /\ DOMAIN versions = 1 .. Len(versions) /\ DOMAIN versions' = 1 .. N /\ versions'[N] = row
      /\ \A v \in DOMAIN versions : versions'[v] = versions[v] /\ Len(versions) \in Nat
      /\ Len(versions) \in Nat
  BY <1>1, Appended
<1>3. Grows
  BY HistoryGrows
<1>4. ASSUME row.source = "manual", NEW v \in DOMAIN versions PROVE versions[v].file # row.file
  <2>1. req[c].op \in {"create", "ops"} /\ row.file = Candidate(c)
    BY <1>1, <1>4 DEF Commits, NewFile
  <2> QED BY <2>1, NewFileIsNew DEF Referenced, VersionReferences
<1>5. ASSUME NEW v \in DOMAIN versions', NEW w \in DOMAIN versions',
             versions'[v].source = "manual", versions'[w].source = "manual",
             versions'[v].file = versions'[w].file
      PROVE  v = w
  <2>1. CASE v \in DOMAIN versions /\ w \in DOMAIN versions
    BY <1>2, <1>5, <2>1 DEF RepeatsInv
  <2>2. CASE v = N /\ w \in DOMAIN versions
    BY <1>2, <1>4, <1>5, <2>2
  <2>3. CASE v \in DOMAIN versions /\ w = N
    BY <1>2, <1>4, <1>5, <2>3
  <2> QED BY <1>2, <1>5, <2>1, <2>2, <2>3
<1>6. ASSUME NEW m \in migrations
      PROVE  \E base, body : m.fp = <<base, body>> /\ Found(base, body)'
  BY <1>3 DEF RepeatsInv, Found, Grows
<1>8. ASSUME req[c].op = "migrate"
      PROVE  /\ \A m, n \in migrations' : m.op = n.op => m = n
             /\ \A m \in migrations' :
                   \E base, body : m.fp = <<base, body>> /\ Found(base, body)'
  <2>1. PICK r : /\ r = [op |-> req[c].key, fp |-> Fingerprint(req[c]), target |-> N]
                 /\ migrations' = migrations \cup {r}
    BY <1>1, <1>8 DEF Commits
  <2>2. \A m \in migrations : m.op # req[c].key
    BY <1>1, <1>8 DEF Commits, FindOperation
  <2>3. r.op = req[c].key /\ r.fp = <<req[c].base, req[c].body>>
    BY <2>1 DEF Fingerprint
  <2>4. row.parent = req[c].base /\ row.hash = req[c].body
    BY <1>1, <1>8 DEF Commits, NewFile
  <2>5. N \in DOMAIN versions' /\ versions'[N].parent = req[c].base
        /\ versions'[N].hash = req[c].body
    BY <1>2, <2>4
  <2>6. \E base, body : r.fp = <<base, body>> /\ Found(base, body)'
    BY <2>3, <2>5 DEF Found
  <2> QED BY <1>6, <2>1, <2>2, <2>3, <2>6 DEF RepeatsInv
<1>9. /\ \A m, n \in migrations' : m.op = n.op => m = n
      /\ \A m \in migrations' : \E base, body : m.fp = <<base, body>> /\ Found(base, body)'
  <2>1. req[c].op = "migrate" \/ UNCHANGED migrations
    BY <1>1 DEF Commits
  <2> QED BY <1>6, <1>8, <2>1 DEF RepeatsInv
<1>10. Answers(c)
  <2>1. CASE Commit(c)
    <3>1. Goto(c, "ok") /\ RequestShape /\ Answered(c)
      BY <2>1 DEF Commit, LinearInv, RepeatsInv
    <3>2. CASE req[c].op \in {"ops", "migrate"}
      <4>1. row.parent = req[c].base /\ row.hash = req[c].body
        BY <1>1, <3>2 DEF Commits, NewFile
      <4>2. N \in DOMAIN versions' /\ versions'[N].parent = req[c].base
            /\ versions'[N].hash = req[c].body
        BY <1>2, <4>1
      <4> QED BY <3>1, <4>2, GotoKeeps DEF Answers, Answered, Found
    <3>3. CASE req[c].op \notin {"ops", "migrate"}
      BY <1>3, <3>1, <3>3, GotoAnswered DEF Answers
    <3> QED BY <3>2, <3>3
  <2>2. CASE TransactionFails(c)
    BY <1>3, <2>2, RequestAnswers
  <2> QED BY <2>1, <2>2
<1>11. \A d \in Requests : Answered(d)'
  BY <1>3, <1>10, OthersAnswered DEF Answers, RepeatsInv
<1> QED BY <1>5, <1>9, <1>11 DEF RepeatsInv

LEMMA NextRepeats ==
    ASSUME LinearInv, FilesInv, RepeatsInv, [Next]_vars
    PROVE  RepeatsInv'
<1>1. Grows
  BY HistoryGrows
<1>2. ASSUME UNCHANGED <<versions, migrations>>, \A c \in Requests : Answered(c)'
      PROVE  RepeatsInv'
  BY <1>2 DEF RepeatsInv, Found
<1>3. ASSUME NEW c \in Requests, Answers(c) PROVE \A d \in Requests : Answered(d)'
  BY <1>1, <1>3, OthersAnswered DEF Answers, RepeatsInv
<1>4. ASSUME NEW c \in Requests, ResolveProposal(c) \/ TellDismissed(c) PROVE RepeatsInv'
  <2>1. UNCHANGED <<versions, migrations>>
    BY <1>4 DEF ResolveProposal, TellDismissed, End, rows
  <2>2. Answers(c)
    BY <1>1, <1>4, RequestAnswers
  <2> QED BY <1>2, <1>3, <2>1, <2>2
<1>5. ASSUME UNCHANGED <<versions, migrations>>,
             \A c \in Requests : ~(At(c, "tx") /\ Transaction(c) /\ Commit(c))
      PROVE  RepeatsInv'
  <2>1. CASE Crash
    <3>1. ASSUME NEW d \in Requests PROVE Answered(d)'
      <4>1. Answered(d) /\ DOMAIN req[d] = DOMAIN NewRequest
        BY DEF RepeatsInv, LinearInv, RequestShape
      <4>2. CASE req'[d] = req[d]
        BY <1>1, <4>1, <4>2, OthersAnswered
      <4>3. CASE req'[d] = [req[d] EXCEPT !.at = "gone"]
        <5>1. req'[d].at = "gone" /\ req'[d].base = req[d].base /\ req'[d].body = req[d].body
              /\ req'[d].replay = req[d].replay
          BY <4>1, <4>3, Fields
        <5>2. req[d].replay => Found(req[d].base, req[d].body)
          BY <4>1 DEF Answered
        <5> QED BY <1>1, <5>1, <5>2 DEF Answered, Found, Grows
      <4> QED BY <2>1, <4>2, <4>3 DEF Crash
    <3> QED BY <1>2, <1>5, <3>1
  <2>2. CASE VerifyReferences \/ RemoveOrphan \/ RemoveOrphanFails \/ Serve \/ UNCHANGED vars
    <3>1. req' = req
      BY <2>2 DEF VerifyReferences, RemoveOrphan, RemoveOrphanFails, Serve, vars
    <3>2. \A d \in Requests : Answered(d)'
      BY <1>1, <3>1, OthersAnswered DEF RepeatsInv
    <3> QED BY <1>2, <1>5, <3>2
  <2>3. ASSUME NEW c \in Requests, Commit(c) PROVE FALSE
    BY <1>5, <2>3 DEF Commit
  <2>4. ASSUME NEW c \in Requests, Answers(c) PROVE RepeatsInv'
    BY <1>2, <1>3, <1>5, <2>4
  <2> QED BY <1>1, <2>1, <2>2, <2>3, <2>4, RequestAnswers DEF Next
<1> QED BY <1>4, <1>5, RowsStep, CommitRepeats

LEMMA InitRepeats == Init => RepeatsInv
<1> SUFFICES ASSUME Init PROVE RepeatsInv
  OBVIOUS
<1>1. migrations = {} /\ \A c \in Requests : req[c].at = "new" /\ req[c].replay = FALSE
  BY DEF Init, NewRequest
<1>2. \A v, w \in DOMAIN versions : v = w
  <2>1. DOMAIN <<>> = {} /\ \A v \in DOMAIN <<LegacyVersion>> : v = 1
    OBVIOUS
  <2> QED BY <2>1 DEF Init
<1> QED BY <1>1, <1>2 DEF RepeatsInv, Answered

LEMMA RepeatsInvariant == Spec => [](RowsAndFiles /\ RepeatsInv)
<1>1. Init => RowsAndFiles /\ RepeatsInv
  BY InitLinear, InitRows, InitFiles, InitRepeats DEF RowsAndFiles
<1>2. (RowsAndFiles /\ RepeatsInv) /\ [Next]_vars => (RowsAndFiles /\ RepeatsInv)'
  BY NextLinear, NextRows, NextFiles, NextRepeats DEF RowsAndFiles
<1> QED BY <1>1, <1>2, PTL DEF Spec

\* A client that repeats an op or a migration under its key changes the
\* workspace once, and whoever was told "ok" finds its graph in the history
\* (accepted_idempotent_version, find_operation).
THEOREM RepeatedOnce == Spec => []RepeatsCommitOnce
<1>1. RepeatsInv => RepeatsCommitOnce
  BY DEF RepeatsInv, RepeatsCommitOnce, Answered, Found
<1> QED BY <1>1, RepeatsInvariant, PTL DEF RowsAndFiles

-----------------------------------------------------------------------------
(* Orphans.  Every file has a row, a request or a reason.                  *)

\* While the server serves after a crash, and nothing has failed, only keyed
\* files have neither a row nor a request.
OrphanInv ==
    /\ faults \in Nat
    /\ \A f \in disk : \/ Referenced(f.name) \/ f.name \in left
                       \/ \E c \in Requests : f.name \in InHand(c)
    /\ server = "serving" /\ crashes > 0 /\ faults = 0 =>
          \A f \in disk : \/ Referenced(f.name) \/ f.name.kind = "ops-key"
                          \/ \E c \in Requests : f.name \in InHand(c)

\* A step of c accounts for what c writes and for what c lets go.
Accounts(c) ==
    /\ server' = "serving" /\ server = "serving" /\ crashes' = crashes
    /\ left \subseteq left' /\ faults' \in Nat /\ (faults' = 0 => faults = 0)
    /\ \A d \in Requests \ {c} : req'[d] = req[d]
    /\ \A f \in disk' : f \in disk \/ f.name \in InHand(c)'
    /\ \A f \in disk' : f.name \in InHand(c) =>
          \/ f.name \in InHand(c)' \/ Referenced(f.name)'
          \/ f.name \in left' /\ faults' > 0

LEMMA NamesStay ==
    ASSUME LinearInv, RowShape, [Next]_vars, NEW name, Referenced(name)
    PROVE  Referenced(name)'
<1>1. ASSUME \A p \in proposals : \E q \in proposals' : q.files = p.files
      PROVE  Referenced(name)'
  BY <1>1, HistoryGrows DEF Grows, Referenced, VersionReferences, ProposalReferences
<1>2. CASE UNCHANGED proposals
  BY <1>1, <1>2
<1>3. ASSUME NEW c \in Requests, At(c, "tx"), Transaction(c) PROVE Referenced(name)'
  <2>1. PICK row : Commits(c, row)
    BY <1>3, TransactionRow
  <2>2. \A p \in proposals : MarkApplied(p).files = p.files
    BY DEF RowShape, MarkApplied, LegacyProposal
  <2>3. ASSUME NEW p \in proposals PROVE \E q \in proposals' : q.files = p.files
    <3>1. CASE p \in proposals'
      BY <3>1
    <3>2. CASE MarkApplied(p) \in proposals'
      BY <2>2, <3>2
    <3> QED BY <2>1, <3>1, <3>2 DEF Commits
  <2> QED BY <1>1, <2>3
<1>4. ASSUME NEW c \in Requests, ResolveProposal(c) PROVE Referenced(name)'
  <2>1. CASE proposals' = {IF p.state = "pending" THEN [p EXCEPT !.state = "dismissed"] ELSE p :
                               p \in proposals}
    <3>1. ASSUME NEW p \in proposals PROVE \E q \in proposals' : q.files = p.files
      <4>1. [p EXCEPT !.state = "dismissed"].files = p.files
        BY DEF RowShape, LegacyProposal
      <4>2. (IF p.state = "pending" THEN [p EXCEPT !.state = "dismissed"] ELSE p) \in proposals'
        BY <2>1
      <4> QED BY <4>1, <4>2
    <3> QED BY <1>1, <3>1
  <2> QED BY <1>2, <1>4, <2>1 DEF ResolveProposal, End, rows
<1>5. ASSUME NEW c \in Requests, TellDismissed(c) PROVE Referenced(name)'
  BY <1>2, <1>5 DEF TellDismissed
<1> QED BY <1>2, <1>3, <1>4, <1>5, RowsStep

LEMMA AccountsKeep ==
    ASSUME LinearInv, RowShape, OrphanInv, [Next]_vars, NEW c \in Requests, Accounts(c)
    PROVE  OrphanInv'
<1>1. \A d \in Requests \ {c} : InHand(d)' = InHand(d)
  BY DEF Accounts, InHand, Temp
<1>2. ASSUME NEW f \in disk'
      PROVE  \/ Referenced(f.name)' \/ f.name \in left'
             \/ \E d \in Requests : f.name \in InHand(d)'
  BY <1>1, NamesStay DEF Accounts, OrphanInv
<1>3. ASSUME crashes > 0, faults' = 0, NEW f \in disk'
      PROVE  \/ Referenced(f.name)' \/ f.name.kind = "ops-key"
             \/ \E d \in Requests : f.name \in InHand(d)'
  BY <1>1, <1>3, NamesStay DEF Accounts, OrphanInv
<1> QED BY <1>2, <1>3 DEF OrphanInv, Accounts

\* What is in a request's hands at each place.
LEMMA Hands ==
    ASSUME FilesInv, NEW c \in Requests
    PROVE  /\ req[c].at \in Early => InHand(c) = {}
           /\ req[c].at \in {"temp", "tx", "clean"} => InHand(c) = req[c].final
           /\ req[c].at \in {"link", "untemp"} => InHand(c) = req[c].final \cup {Temp(c)}
<1>1. Progress(c)
  BY DEF FilesInv
<1> QED BY <1>1 DEF Progress, InHand, Early, Ended

LEMMA IdleAccounts ==
    ASSUME FilesInv, OrphanInv, NEW c \in Requests, InHand(c) = {}, disk' = disk, Unfaulted,
           server = "serving", \A d \in Requests \ {c} : req'[d] = req[d]
    PROVE  Accounts(c)
  BY DEF Accounts, Unfaulted, OrphanInv

LEMMA EarlyAccounts ==
    ASSUME FilesInv, LinearInv, OrphanInv, NEW c \in Requests,
        \/ Receive(c) \/ ReadProposal(c) \/ ReadOperation(c) \/ ReadWorkspace(c)
        \/ PrepareOps(c) \/ PrepareRestore(c) \/ PrepareAgentApply(c) \/ PrepareApply(c)
        \/ AssessAndMigrate(c) \/ Replay(c)
        \/ ResolveProposal(c) \/ TellDismissed(c) \/ SetWorkspaceProvider(c)
    PROVE  Accounts(c)
<1>1. server = "serving" /\ req[c].at \in Early
  BY DEF Receive, ReadProposal, ReadOperation, ReadWorkspace, PrepareOps, PrepareRestore,
     PrepareAgentApply, PrepareApply, Prepare, AssessAndMigrate, Replay, ResolveProposal,
     TellDismissed, SetWorkspaceProvider, At, Early
<1>2. disk' = disk /\ Unfaulted
  BY DEF Receive, ReadProposal, ReadOperation, ReadWorkspace, PrepareOps, PrepareRestore,
     PrepareAgentApply, PrepareApply, Prepare, AssessAndMigrate, Replay, ResolveProposal,
     TellDismissed, SetWorkspaceProvider, End, Unfaulted
<1>3. \A d \in Requests \ {c} : req'[d] = req[d]
  BY RequestPlaces DEF Places
<1> QED BY <1>1, <1>2, <1>3, Hands, IdleAccounts

\* Publishing: what is written is in hand, what leaves the hand is removed.
LEMMA PublishAccounts ==
    ASSUME FilesInv, LinearInv, OrphanInv, NEW c \in Requests,
           WriteTemp(c) \/ PublishNoReplace(c) \/ RemoveTemp(c) \/ PublishFails(c)
    PROVE  Accounts(c)
<1>0. RequestShape /\ DOMAIN req[c] = DOMAIN NewRequest
  BY DEF LinearInv, RequestShape
<1>1. \A d \in Requests \ {c} : req'[d] = req[d]
  BY RequestPlaces DEF Places
<1>2. server = "serving" /\ server' = "serving" /\ crashes' = crashes /\ left' = left
  BY DEF WriteTemp, PublishNoReplace, RemoveTemp, PublishFails, At, Unfaulted
<1>3. faults' \in Nat /\ (faults' = 0 => faults = 0)
  BY DEF WriteTemp, PublishNoReplace, RemoveTemp, PublishFails, Unfaulted, OrphanInv
<1>4. CASE WriteTemp(c)
  <2> DEFINE q == [req[c] EXCEPT !.temp = TRUE, !.at = "link"]
  <2>1. q.temp = TRUE /\ q.at = "link" /\ q.final = req[c].final
    BY <1>0, Fields
  <2>2. Set(c, q) /\ disk' = Write(Temp(c), req[c].body) /\ req[c].at = "temp"
    BY <1>4 DEF WriteTemp, At
  <2> HIDE DEF q
  <2>3. req'[c] = q
    BY <1>0, <2>2, SetAt
  <2>4. InHand(c)' = req[c].final \cup {Temp(c)}
    BY <2>1, <2>3 DEF InHand, Ended, Temp
  <2>5. InHand(c) = req[c].final
    BY <2>2, Hands
  <2> QED BY <1>1, <1>2, <1>3, <2>2, <2>4, <2>5 DEF Accounts, Write
<1>5. CASE PublishNoReplace(c) /\ Collides(c)
  <2>1. disk' = Without(Temp(c)) /\ req[c].at = "link"
    BY <1>5 DEF PublishNoReplace, At
  <2>2. InHand(c) = {Temp(c)}
    BY <1>5, <2>1, Hands, CollisionIsKeyed
  <2> QED BY <1>1, <1>2, <1>3, <2>1, <2>2 DEF Accounts, Without
<1>6. CASE PublishNoReplace(c) /\ ~Collides(c)
  <2> DEFINE q == [req[c] EXCEPT !.final = @ \cup {Candidate(c)}, !.at = "untemp"]
  <2>1. q.temp = req[c].temp /\ q.at = "untemp" /\ q.final = req[c].final \cup {Candidate(c)}
    BY <1>0, Fields
  <2>2. Set(c, q) /\ disk' = Write(Candidate(c), req[c].body) /\ req[c].at = "link"
    BY <1>6 DEF PublishNoReplace, At
  <2> HIDE DEF q
  <2>3. req'[c] = q
    BY <1>0, <2>2, SetAt
  <2>4. req[c].temp
    BY <2>2 DEF FilesInv, Progress, Ended
  <2>5. InHand(c)' = req[c].final \cup {Candidate(c), Temp(c)}
    BY <2>1, <2>3, <2>4 DEF InHand, Ended, Temp
  <2>6. InHand(c) = req[c].final \cup {Temp(c)}
    BY <2>2, Hands
  <2> QED BY <1>1, <1>2, <1>3, <2>2, <2>5, <2>6 DEF Accounts, Write
<1>7. CASE RemoveTemp(c)
  <2> DEFINE q == IF req[c].i < Len(Candidates(c))
                  THEN [req[c] EXCEPT !.temp = FALSE, !.i = @ + 1, !.at = "temp"]
                  ELSE [req[c] EXCEPT !.temp = FALSE, !.at = "tx"]
  <2>1. q.temp = FALSE /\ q.at \in {"temp", "tx"} /\ q.final = req[c].final
    BY <1>0, Fields
  <2>2. Set(c, q) /\ disk' = Without(Temp(c)) /\ req[c].at = "untemp"
    BY <1>7 DEF RemoveTemp, At
  <2> HIDE DEF q
  <2>3. req'[c] = q
    BY <1>0, <2>2, SetAt
  <2>4. InHand(c)' = req[c].final
    BY <2>1, <2>3 DEF InHand, Ended
  <2>5. InHand(c) = req[c].final \cup {Temp(c)}
    BY <2>2, Hands
  <2> QED BY <1>1, <1>2, <1>3, <2>2, <2>4, <2>5 DEF Accounts, Without
<1>8. CASE PublishFails(c)
  <2>1. /\ disk' = {f \in disk : f.name # Temp(c) /\ f.name \notin req[c].final}
        /\ req[c].at \in {"temp", "link", "untemp"}
    BY <1>8 DEF PublishFails
  <2>2. InHand(c) \subseteq req[c].final \cup {Temp(c)}
    BY <2>1, Hands
  <2> QED BY <1>1, <1>2, <1>3, <2>1, <2>2 DEF Accounts
<1> QED BY <1>4, <1>5, <1>6, <1>7, <1>8

\* A commit puts every candidate into a row.
LEMMA CommitAccounts ==
    ASSUME FilesInv, LinearInv, OrphanInv, NEW c \in Requests, Commit(c)
    PROVE  Accounts(c)
<1>1. At(c, "tx") /\ Transaction(c) /\ disk' = disk /\ Unfaulted /\ req[c].at = "tx"
      /\ server = "serving"
  BY DEF Commit, At
<1>2. \A d \in Requests \ {c} : req'[d] = req[d]
  BY RequestPlaces DEF Places
<1>3. PICK row : versions' = Append(versions, row) /\ Commits(c, row)
  BY <1>1, TransactionRow
<1>4. Referenced(row.file)'
  <2>1. \E v \in DOMAIN versions' : versions'[v] = row
    BY <1>3, Appended
  <2> QED BY <2>1 DEF Referenced, VersionReferences
<1> DEFINE n == Len(Candidates(c))
<1>5. InHand(c) = Some(c, 1, n)
  <2>1. req[c].final = Some(c, 1, n)
    BY <1>1 DEF FilesInv, Progress
  <2> QED BY <1>1, <2>1, Hands
<1>6. ASSUME NEW name \in Some(c, 1, n) PROVE Referenced(name)'
  <2>1. CASE req[c].op \in {"create", "ops", "apply", "migrate"}
    <3>1. n = 1
      BY <2>1 DEF Candidates
    <3>2. req[c].i = 1
      <4>1. n > 0 => req[c].i = n
        BY <1>1 DEF FilesInv, Progress
      <4> QED BY <3>1, <4>1
    <3>3. name = Candidate(c)
      BY <3>1, <3>2 DEF Some, Candidate
    <3> QED BY <1>3, <1>4, <2>1, <3>3 DEF Commits, NewFile
  <2>2. CASE req[c].op = "agent"
    <3>1. Candidates(c) = AgentCandidates(c) /\ n = 3
      BY <2>2 DEF Candidates, AgentCandidates
    <3>2. name \in {AgentCandidates(c)[1], AgentCandidates(c)[2], AgentCandidates(c)[3]}
      BY <3>1 DEF Some
    <3>3. row.file = AgentCandidates(c)[3]
      BY <1>3, <2>2 DEF Commits
    <3>4. PICK p \in proposals' : p.files = {AgentCandidates(c)[1], AgentCandidates(c)[2]}
      <4>1. PICK base, r :
                /\ proposals' = proposals \cup {r}
                /\ r = [id |-> c, base |-> base, state |-> "applied",
                        result |-> Len(versions) + 1,
                        files |-> {AgentCandidates(c)[1], AgentCandidates(c)[2]}]
        BY <1>3, <2>2 DEF Commits
      <4>2. r.files = {AgentCandidates(c)[1], AgentCandidates(c)[2]}
        BY <4>1
      <4> QED BY <4>1, <4>2
    <3> QED BY <1>4, <3>2, <3>3, <3>4 DEF Referenced, ProposalReferences
  <2>3. CASE req[c].op \notin {"create", "ops", "apply", "migrate", "agent"}
    <3>1. Candidates(c) = <<>>
      BY <2>3 DEF Candidates
    <3>2. n = 0
      BY <3>1
    <3> QED BY <3>2 DEF Some
  <2> QED BY <2>1, <2>2, <2>3
<1>7. faults' \in Nat /\ server' = "serving" /\ crashes' = crashes /\ left' = left /\ faults' = faults
  BY <1>1 DEF OrphanInv, Unfaulted
<1> QED BY <1>1, <1>2, <1>5, <1>6, <1>7 DEF Accounts

\* A cleanup keeps what it has not looked at.
LEMMA CleaningAccounts ==
    ASSUME FilesInv, LinearInv, OrphanInv, NEW c \in Requests,
           Conflict(c) \/ MigrationReplayed(c) \/ TransactionFails(c)
    PROVE  Accounts(c)
<1>0. RequestShape /\ DOMAIN req[c] = DOMAIN NewRequest
  BY DEF LinearInv, RequestShape
<1>1. PICK q : Set(c, q) /\ q.at = "clean" /\ q.final = req[c].final /\ q.temp = req[c].temp
  <2>1. CASE Conflict(c)
    <3>1. PICK q : q = [req[c] EXCEPT !.at = "clean", !.i = 1, !.code = "CONFLICT"]
      OBVIOUS
    <3>2. q.at = "clean" /\ q.final = req[c].final /\ q.temp = req[c].temp
      BY <1>0, <3>1, Fields
    <3> QED BY <2>1, <3>1, <3>2 DEF Conflict
  <2>2. CASE MigrationReplayed(c)
    <3>1. PICK replay, code :
            Set(c, [req[c] EXCEPT !.at = "clean", !.i = 1, !.replay = replay, !.code = code])
      BY <2>2 DEF MigrationReplayed
    <3>2. PICK q : q = [req[c] EXCEPT !.at = "clean", !.i = 1, !.replay = replay, !.code = code]
      OBVIOUS
    <3>3. q.at = "clean" /\ q.final = req[c].final /\ q.temp = req[c].temp
      BY <1>0, <3>2, Fields
    <3> QED BY <3>1, <3>2, <3>3
  <2>3. CASE TransactionFails(c)
    <3>1. PICK q : q = [req[c] EXCEPT !.at = "clean", !.i = 1]
      OBVIOUS
    <3>2. q.at = "clean" /\ q.final = req[c].final /\ q.temp = req[c].temp
      BY <1>0, <3>1, Fields
    <3> QED BY <2>3, <3>1, <3>2 DEF TransactionFails
  <2> QED BY <2>1, <2>2, <2>3
<1>2. req'[c] = q /\ \A d \in Requests \ {c} : req'[d] = req[d]
  BY <1>0, <1>1, SetAt
<1>3. req[c].at = "tx" /\ server = "serving" /\ disk' = disk
  BY DEF Conflict, MigrationReplayed, TransactionFails, At
<1>4. server' = "serving" /\ crashes' = crashes /\ left' = left
  BY <1>3 DEF Conflict, MigrationReplayed, TransactionFails, Unfaulted
<1>5. faults' \in Nat /\ (faults' = 0 => faults = 0)
  BY DEF Conflict, MigrationReplayed, TransactionFails, Unfaulted, OrphanInv
<1>6. InHand(c)' = InHand(c)
  BY <1>1, <1>2, <1>3 DEF InHand, Ended, Temp
<1> QED BY <1>2, <1>3, <1>4, <1>5, <1>6 DEF Accounts

\* A candidate leaves the hand for a row, for good, or with a reason.
LEMMA CleanupAccounts ==
    ASSUME FilesInv, LinearInv, RowShape, OrphanInv, [Next]_vars, NEW c \in Requests,
           CleanupAfterStoreError(c) \/ CleanupDeferred(c)
    PROVE  Accounts(c)
<1>0. RequestShape /\ DOMAIN req[c] = DOMAIN NewRequest
  BY DEF LinearInv, RequestShape
<1>1. req[c].at = "clean" /\ server = "serving" /\ InHand(c) = req[c].final
      /\ req[c].final = Some(c, req[c].i, Len(Candidates(c)))
      /\ req[c].i \in Nat /\ Len(Candidates(c)) \in Nat
  <2>1. req[c].at = "clean" /\ server = "serving"
    BY DEF CleanupAfterStoreError, CleanupDeferred, At
  <2> QED BY <2>1, Hands, CandidateNames DEF FilesInv, Progress
<1>2. \A d \in Requests \ {c} : req'[d] = req[d]
  BY RequestPlaces DEF Places
<1>3. CASE CleanupAfterStoreError(c) /\ req[c].i > Len(Candidates(c))
  <2>1. InHand(c) = {}
    BY <1>1, <1>3 DEF Some
  <2>2. disk' = disk /\ Unfaulted
    BY <1>3 DEF CleanupAfterStoreError
  <2> QED BY <1>1, <1>2, <2>1, <2>2, IdleAccounts
<1>4. CASE CleanupAfterStoreError(c) /\ ~(req[c].i > Len(Candidates(c)))
  <2> DEFINE q == [req[c] EXCEPT !.i = @ + 1, !.final = @ \ {Candidate(c)}]
  <2>1. q.at = "clean" /\ q.final = req[c].final \ {Candidate(c)}
    BY <1>0, <1>1, Fields
  <2>2. /\ Set(c, q) /\ Unfaulted
        /\ disk' = IF KeepReferenced(Candidate(c)) THEN disk ELSE Without(Candidate(c))
    BY <1>4 DEF CleanupAfterStoreError
  <2> HIDE DEF q
  <2>3. req'[c] = q
    BY <1>0, <2>2, SetAt
  <2>4. req[c].final \ {Candidate(c)} \subseteq InHand(c)'
    BY <2>1, <2>3 DEF InHand, Ended
  <2>5. ASSUME NEW f \in disk', f.name = Candidate(c) PROVE Referenced(f.name)'
    BY <2>2, <2>5, NamesStay DEF KeepReferenced, Without
  <2>6. disk' \subseteq disk
    BY <2>2 DEF Without
  <2>7. faults' \in Nat /\ faults' = faults /\ server' = "serving" /\ crashes' = crashes
        /\ left' = left
    BY <1>1, <2>2 DEF Unfaulted, OrphanInv
  <2> QED BY <1>1, <1>2, <2>4, <2>5, <2>6, <2>7 DEF Accounts
<1>5. CASE CleanupDeferred(c)
  <2> DEFINE q == [req[c] EXCEPT !.i = @ + 1, !.replay = FALSE, !.code = "none",
                          !.final = @ \ {Candidate(c)}]
  <2>1. q.at = "clean" /\ q.final = req[c].final \ {Candidate(c)}
    BY <1>0, <1>1, Fields
  <2>2. /\ Set(c, q) /\ disk' = disk /\ server' = server /\ crashes' = crashes
        /\ left' = left \cup {Candidate(c)} /\ faults' = faults + 1
    BY <1>5 DEF CleanupDeferred
  <2> HIDE DEF q
  <2>3. req'[c] = q
    BY <1>0, <2>2, SetAt
  <2>4. req[c].final \ {Candidate(c)} \subseteq InHand(c)'
    BY <2>1, <2>3 DEF InHand, Ended
  <2>5. faults' \in Nat /\ faults' > 0
    BY <2>2 DEF OrphanInv
  <2> QED BY <1>1, <1>2, <2>2, <2>4, <2>5 DEF Accounts
<1> QED BY <1>3, <1>4, <1>5

LEMMA DisconnectAccounts ==
    ASSUME FilesInv, LinearInv, OrphanInv, NEW c \in Requests, Disconnect(c)
    PROVE  Accounts(c)
<1>1. /\ server = "serving" /\ server' = "serving" /\ crashes' = crashes /\ disk' = disk
      /\ left' = left \cup req[c].final /\ faults' = faults + 1
  BY DEF Disconnect
<1>2. faults' \in Nat /\ faults' > 0
  BY <1>1 DEF OrphanInv
<1>3. \A d \in Requests \ {c} : req'[d] = req[d]
  BY RequestPlaces DEF Places
<1>4. InHand(c) \subseteq req[c].final
  <2>1. req[c].at \in Early \cup {"tx", "clean"}
    BY DEF Disconnect, Awaiting, Early
  <2> QED BY <2>1, Hands
<1> QED BY <1>1, <1>2, <1>3, <1>4 DEF Accounts

LEMMA CrashOrphans ==
    ASSUME LinearInv, RowShape, FilesInv, OrphanInv, [Next]_vars, Crash
    PROVE  OrphanInv'
<1>1. /\ server' = "verify" /\ disk' = disk /\ faults' = faults
      /\ left' = left \cup {f.name : f \in {g \in disk : ~ Referenced(g.name)}}
  BY DEF Crash
<1>2. \A f \in disk' : Referenced(f.name)' \/ f.name \in left'
  BY <1>1, NamesStay
<1> QED BY <1>1, <1>2 DEF OrphanInv

\* The scan removes what it removes from the list of what is left, and the
\* server serves when nothing is left that it knows to be its own.
LEMMA StartOrphans ==
    ASSUME LinearInv, RowShape, FilesInv, OrphanInv, [Next]_vars,
           VerifyReferences \/ RemoveOrphan \/ RemoveOrphanFails \/ Serve \/ UNCHANGED vars
    PROVE  OrphanInv'
<1>1. req' = req /\ faults' \in Nat /\ crashes' = crashes /\ \A c \in Requests : InHand(c)' = InHand(c)
  BY DEF VerifyReferences, RemoveOrphan, RemoveOrphanFails, Serve, vars, OrphanInv, InHand, Temp
<1>2. ASSUME disk' = disk, left' = left
      PROVE  \A f \in disk' : \/ Referenced(f.name)' \/ f.name \in left'
                              \/ \E c \in Requests : f.name \in InHand(c)'
  BY <1>1, <1>2, NamesStay DEF OrphanInv
<1>3. CASE VerifyReferences \/ RemoveOrphanFails
  <2>1. disk' = disk /\ left' = left /\ server' # "serving"
    BY <1>3 DEF VerifyReferences, RemoveOrphanFails
  <2> QED BY <1>1, <1>2, <2>1 DEF OrphanInv
<1>4. CASE RemoveOrphan
  <2>1. PICK g \in disk : disk' = disk \ {g} /\ left' = left \ {g.name}
    BY <1>4 DEF RemoveOrphan, Orphans
  <2>2. \A f \in disk' : f.name # g.name
    BY <2>1 DEF FilesInv, OneBody
  <2>3. server' # "serving"
    BY <1>4 DEF RemoveOrphan
  <2>4. \A f \in disk' : \/ Referenced(f.name)' \/ f.name \in left'
                         \/ \E c \in Requests : f.name \in InHand(c)'
    BY <1>1, <2>1, <2>2, NamesStay DEF OrphanInv
  <2> QED BY <1>1, <2>3, <2>4 DEF OrphanInv
<1>5. CASE Serve
  <2>1. disk' = disk /\ left' = left /\ Orphans = {}
    BY <1>5 DEF Serve
  <2>2. \A f \in disk' : Referenced(f.name)' \/ f.name.kind = "ops-key"
    BY <2>1, NamesStay DEF Orphans, IsOwnedCandidateName
  <2> QED BY <1>1, <1>2, <2>1, <2>2 DEF OrphanInv
<1>6. CASE UNCHANGED vars
  <2>1. disk' = disk /\ left' = left /\ server' = server /\ faults' = faults
    BY <1>6 DEF vars
  <2>2. server' = "serving" /\ crashes' > 0 /\ faults' = 0 =>
          \A f \in disk' : \/ Referenced(f.name)' \/ f.name.kind = "ops-key"
                           \/ \E c \in Requests : f.name \in InHand(c)'
    BY <1>1, <2>1, NamesStay DEF OrphanInv
  <2> QED BY <1>1, <1>2, <2>1, <2>2 DEF OrphanInv
<1> QED BY <1>3, <1>4, <1>5, <1>6

LEMMA NextOrphans ==
    ASSUME LinearInv, RowShape, FilesInv, OrphanInv, [Next]_vars
    PROVE  OrphanInv'
<1>1. ASSUME NEW c \in Requests, Accounts(c) PROVE OrphanInv'
  BY <1>1, AccountsKeep
<1>2. ASSUME NEW c \in Requests,
             \/ Receive(c) \/ ReadProposal(c) \/ ReadOperation(c) \/ ReadWorkspace(c)
             \/ PrepareOps(c) \/ PrepareRestore(c) \/ PrepareAgentApply(c) \/ PrepareApply(c)
             \/ AssessAndMigrate(c) \/ Replay(c)
             \/ ResolveProposal(c) \/ TellDismissed(c) \/ SetWorkspaceProvider(c)
      PROVE  OrphanInv'
  BY <1>1, <1>2, EarlyAccounts
<1>3. ASSUME NEW c \in Requests,
             \/ WriteTemp(c) \/ PublishNoReplace(c) \/ RemoveTemp(c) \/ PublishFails(c)
             \/ Commit(c) \/ Conflict(c) \/ MigrationReplayed(c) \/ TransactionFails(c)
             \/ CleanupAfterStoreError(c) \/ CleanupDeferred(c) \/ Disconnect(c)
      PROVE  OrphanInv'
  BY <1>1, <1>3, PublishAccounts, CommitAccounts, CleaningAccounts, CleanupAccounts,
     DisconnectAccounts
<1> QED BY <1>2, <1>3, CrashOrphans, StartOrphans DEF Next

LEMMA InitOrphans == Init => OrphanInv
<1> SUFFICES ASSUME Init PROVE OrphanInv
  OBVIOUS
<1>1. faults = 0 /\ crashes = 0
  BY DEF Init
<1>2. ASSUME NEW f \in disk PROVE Referenced(f.name)
  <2>1. /\ versions = <<LegacyVersion>>
        /\ disk = {[name |-> LegacyVersion.file, body |-> LegacyVersion.hash]}
                  \cup {[name |-> n, body |-> LegacyVersion.hash] :
                            n \in UNION {p.files : p \in proposals}}
    BY <1>2 DEF Init
  <2>2. \A n : [name |-> n, body |-> LegacyVersion.hash].name = n
    OBVIOUS
  <2>3. f.name = LegacyVersion.file \/ f.name \in UNION {p.files : p \in proposals}
    BY <2>1, <2>2
  <2>4. 1 \in DOMAIN versions /\ versions[1] = LegacyVersion
    BY <2>1
  <2> QED BY <2>3, <2>4 DEF Referenced, VersionReferences, ProposalReferences
<1> QED BY <1>1, <1>2 DEF OrphanInv

LEMMA OrphansInvariant == Spec => [](RowsAndFiles /\ OrphanInv)
<1>1. Init => RowsAndFiles /\ OrphanInv
  BY InitLinear, InitRows, InitFiles, InitOrphans DEF RowsAndFiles
<1>2. (RowsAndFiles /\ OrphanInv) /\ [Next]_vars => (RowsAndFiles /\ OrphanInv)'
  BY NextLinear, NextRows, NextFiles, NextOrphans DEF RowsAndFiles
<1> QED BY <1>1, <1>2, PTL DEF Spec

\* A file without a row is in the hands of a request, or a fault, a lost
\* client or a crash left it; a start that comes through leaves only keyed
\* files behind (cleanup_after_store_error, publish_all,
\* scan_and_remove_orphans).
THEOREM OrphansExplained == Spec => []OrphansAreExplained
<1>1. RowsAndFiles /\ OrphanInv => OrphansAreExplained
  <2> SUFFICES ASSUME RowsAndFiles, OrphanInv PROVE OrphansAreExplained
    OBVIOUS
  <2>1. ASSUME \A c \in Requests : req[c].at \in {"new", "gone"}
        PROVE  \A c \in Requests : InHand(c) = {}
    <3>1. "new" \in Early /\ "gone" \in Ended
      BY DEF Early, Ended
    <3>2. \A c \in Requests : req[c].at = "gone" => InHand(c) = {}
      BY <3>1 DEF InHand
    <3> QED BY <2>1, <3>1, <3>2, Hands DEF RowsAndFiles
  <2>2. \A f \in disk : \/ Referenced(f.name) \/ f.name \in left
                         \/ \E c \in Requests : f.name \in InHand(c)
    BY DEF OrphanInv
  <2>3. ASSUME server = "serving", crashes > 0, faults = 0,
               \A c \in Requests : req[c].at \in {"new", "gone"}
        PROVE  \A f \in disk : Referenced(f.name) \/ f.name.kind = "ops-key"
    <3>1. \A c \in Requests : InHand(c) = {}
      BY <2>1, <2>3
    <3>2. \A f \in disk : \/ Referenced(f.name) \/ f.name.kind = "ops-key"
                           \/ \E c \in Requests : f.name \in InHand(c)
      BY <2>3 DEF OrphanInv
    <3> QED BY <3>1, <3>2
  <2> QED BY <2>2, <2>3 DEF OrphansAreExplained
<1> QED BY <1>1, OrphansInvariant, PTL
=============================================================================
