------------------------------ MODULE Versions ------------------------------
(***************************************************************************)
(* The version history of one workspace and the graph files it names: how  *)
(* ops, proposals, agent edits, migrations and restores publish a file and *)
(* then commit a row, what is cleaned up when either half fails, and how   *)
(* the next start reconciles rows with files.                              *)
(*                                                                         *)
(* A step is the code between two awaits, or one file operation: a publish *)
(* is synchronous, but another request's thread may run beside it and the  *)
(* process may die inside it.                                              *)
(***************************************************************************)
EXTENDS Naturals, Sequences, FiniteSets

CONSTANTS
    Requests,    \* requests the server receives; each also names its UUIDs
    Ops,         \* which routes they may use
    Keys,        \* idempotency keys and migration operation ids of clients
    NoKey,
    Bodies,      \* graphs a request may produce; equal iff their hashes are
    Legacy,      \* owner of the files that were there before
    MaxVersions, \* bound: rows of versions
    MaxFaults,   \* bound: failing calls and lost connections
    MaxCrashes   \* bound: how often the process dies

ASSUME VersionsAssumption ==
    /\ NoKey \notin Keys /\ Legacy \notin Requests \cup Keys
    /\ MaxVersions \in Nat \ {0} /\ MaxFaults \in Nat /\ MaxCrashes \in Nat

VARIABLES
    versions,   \* the rows of versions, in the order of idx
    current,    \* workspaces.cur_version_id; 0 before the workspace exists
    connector,  \* workspaces.runtime_provider_id
    proposals,  \* rows of proposals
    messages,   \* proposal messages: kind and ref_id
    migrations, \* rows of version_migrations
    audit,      \* rows of version_migration_assessments: who, and its code
    disk,       \* files of workspaces/<id>/graphs, with what they hold
    req,        \* the requests
    server,     \* serving, or where its start is
    faults, crashes,
    left        \* names a fault, a disconnect or a crash left (history)

rows == <<versions, current, connector, proposals, messages, migrations, audit>>
vars == <<rows, disk, req, server, faults, crashes, left>>

NewRequest == [op |-> "none", at |-> "new", base |-> 0, key |-> NoKey,
               body |-> CHOOSE b \in Bodies : TRUE, cur |-> 0, conn |-> 0,
               target |-> 0, i |-> 1, replay |-> FALSE, code |-> "none",
               temp |-> FALSE, final |-> {}]
Ended == {"ok", "refused", "failed", "gone"}

Name(kind, owner, base) == [kind |-> kind, owner |-> owner, base |-> base]
OnDisk(name) == \E f \in disk : f.name = name
Write(name, body) == disk \cup {[name |-> name, body |-> body]}
Without(name) == {f \in disk : f.name # name}
Temp(c) == Name("temp", c, 0)

-----------------------------------------------------------------------------
(* Names.  Every candidate has a name of its own; only a keyed op shares   *)
(* one with its retries.                                                   *)

FreshName(kind, c) == Name(kind, c, 0)
KeyedName(q) == Name("ops-key", q.key, q.base)

OpsCandidate(c) ==
    IF req[c].key = NoKey THEN FreshName("ops", c) ELSE KeyedName(req[c])

AgentCandidates(c) ==
    <<FreshName("proposal-ops", c), FreshName("proposal-preview", c),
      FreshName("proposal-applied", c)>>

Candidates(c) ==
    CASE req[c].op = "create"  -> <<FreshName("initial", c)>>
      [] req[c].op = "ops"     -> <<OpsCandidate(c)>>
      [] req[c].op = "apply"   -> <<FreshName("proposal-applied", c)>>
      [] req[c].op = "agent"   -> AgentCandidates(c)
      [] req[c].op = "migrate" -> <<FreshName("migration", c)>>
      [] OTHER                 -> <<>>

Last(s) == s[Len(s)]

-----------------------------------------------------------------------------
(* What the rows name, and reading it.                                     *)

VersionReferences(name) == {v \in DOMAIN versions : versions[v].file = name}
ProposalReferences(name) == {p \in proposals : name \in p.files}
Referenced(name) ==
    VersionReferences(name) # {} \/ ProposalReferences(name) # {}

\* The bytes are hashed before they are used.
Verified(v) ==
    [name |-> versions[v].file, body |-> versions[v].hash] \in disk
ProposalFilesReadable(p) == \A name \in p.files : OnDisk(name)

Pending == {p \in proposals : p.state = "pending"}

-----------------------------------------------------------------------------
(* The start of the process.  A workspace a former release wrote may hold  *)
(* a pending proposal; this one never creates such a row.                  *)

LegacyVersion == [parent |-> 0, source |-> "manual", hash |-> CHOOSE b \in Bodies : TRUE,
                  file |-> Name("initial", Legacy, 0)]
LegacyProposal == [id |-> Legacy, base |-> 1, state |-> "pending", result |-> 0,
                   files |-> {Name("proposal-ops", Legacy, 0)}]

Init ==
    /\ \/ versions = <<>> /\ current = 0 /\ proposals = {} /\ disk = {}
       \/ /\ versions = <<LegacyVersion>>
          /\ current = 1
          /\ proposals \in {{}, {LegacyProposal}}
          /\ disk = {[name |-> LegacyVersion.file, body |-> LegacyVersion.hash]}
                    \cup {[name |-> f, body |-> LegacyVersion.hash] :
                              f \in UNION {p.files : p \in proposals}}
    /\ connector = 0
    /\ messages = {} /\ migrations = {} /\ audit = {}
    /\ req = [c \in Requests |-> NewRequest]
    /\ server = "serving"
    /\ faults = 0 /\ crashes = 0 /\ left = {}

-----------------------------------------------------------------------------
(* Steps of a request.                                                     *)

At(c, label) == server = "serving" /\ req[c].at = label
Goto(c, label) == req' = [req EXCEPT ![c].at = label]
Set(c, q) == req' = [req EXCEPT ![c] = q]
End(c, how) == Goto(c, how) /\ UNCHANGED <<rows, disk, server, faults, crashes, left>>
Unfaulted == UNCHANGED <<server, faults, crashes, left>>

Receive(c) ==
    /\ At(c, "new")
    /\ \E op \in Ops, base \in DOMAIN versions \cup {0}, key \in Keys \cup {NoKey},
          body \in Bodies :
        /\ (op = "create") <=> (base = 0)
        /\ op = "create" => versions = <<>> /\ \A d \in Requests : req[d].op # "create"
        /\ op \in {"undo", "apply", "dismiss", "provider"} => base = 1
        /\ op \notin {"ops", "migrate"} => key = NoKey
        /\ op = "migrate" => key # NoKey
        /\ key = NoKey => body = NewRequest.body
        /\ Set(c, [NewRequest EXCEPT !.op = op, !.base = base, !.key = key, !.body = body,
                       !.at = IF op = "create" THEN "temp" ELSE "read"])
    /\ UNCHANGED <<rows, disk>> /\ Unfaulted

\* A route that checks its proposal does so before it reads the workspace.
ReadProposal(c) ==
    /\ At(c, "read") /\ req[c].op \in {"apply", "dismiss"}
    /\ IF Pending = {} THEN End(c, "refused")
       ELSE /\ Goto(c, IF req[c].op = "apply" THEN "workspace" ELSE "resolve")
            /\ UNCHANGED <<rows, disk>> /\ Unfaulted

\* A migration asks first whether its operation has been carried out.
Fingerprint(q) == <<q.base, q.body>>
FindOperation(key) == {m \in migrations : m.op = key}

ReadOperation(c) ==
    /\ At(c, "read") /\ req[c].op = "migrate"
    /\ IF FindOperation(req[c].key) = {} THEN Goto(c, "workspace") /\ UNCHANGED audit
       ELSE IF \E m \in FindOperation(req[c].key) : m.fp = Fingerprint(req[c])
       THEN Goto(c, "ok") /\ UNCHANGED audit
       ELSE Goto(c, "refused") /\ audit' = audit \cup {<<c, "OPERATION_ID_CONFLICT">>}
    /\ UNCHANGED <<versions, current, connector, proposals, messages, migrations, disk>>
    /\ Unfaulted

\* undo goes to the parent, and without one to the version before.
UndoTarget(v) == IF versions[v].parent # 0 THEN versions[v].parent ELSE v - 1

TargetOf(c) ==
    CASE req[c].op = "undo"    -> UndoTarget(current)
      [] req[c].op = "restore" -> req[c].base
      [] req[c].op = "ops"     -> req[c].base
      [] OTHER                 -> current

RefusedByWorkspace(c) ==
    \/ req[c].op \in {"agent", "migrate"} /\ req[c].base # current
    \/ req[c].op = "restore" /\ req[c].base = current
    \/ req[c].op = "undo" /\ UndoTarget(current) = 0

ReadWorkspace(c) ==
    /\ \/ At(c, "read") /\ req[c].op \in {"ops", "restore", "undo", "agent"}
       \/ At(c, "workspace")
    /\ IF RefusedByWorkspace(c)
       THEN /\ Goto(c, "refused")
            /\ audit' = IF req[c].op = "migrate"
                        THEN audit \cup {<<c, "SOURCE_VERSION_STALE">>} ELSE audit
       ELSE /\ Set(c, [req[c] EXCEPT !.cur = current, !.conn = connector,
                                     !.target = TargetOf(c), !.at = "graph"])
            /\ UNCHANGED audit
    /\ UNCHANGED <<versions, current, connector, proposals, messages, migrations, disk>>
    /\ Unfaulted

\* What a route applies is checked against the graph it has read.  An op or
\* a proposal may not fit that graph; what decides it is left open.
Prepare(c, fits) ==
    /\ At(c, "graph")
    /\ IF ~ Verified(req[c].target) THEN End(c, "failed")
       ELSE \/ End(c, "refused")
            \/ /\ fits
               /\ Goto(c, IF Candidates(c) = <<>> THEN "tx" ELSE "temp")
               /\ UNCHANGED <<rows, disk>> /\ Unfaulted

PrepareOps(c) == req[c].op = "ops" /\ Prepare(c, TRUE)
PrepareRestore(c) == req[c].op \in {"undo", "restore"} /\ Prepare(c, TRUE)
PrepareAgentApply(c) == req[c].op = "agent" /\ Prepare(c, TRUE)
PreparedProposal(q) ==
    \E p \in proposals : p.id = Legacy /\ p.base = q.cur /\ ProposalFilesReadable(p)
PrepareApply(c) == req[c].op = "apply" /\ Prepare(c, PreparedProposal(req[c]))

\* An assessment is recorded whatever it says; then the connector is read
\* a second time, and only a migratable report goes on.
AssessAndMigrate(c) ==
    /\ At(c, "graph") /\ req[c].op = "migrate"
    /\ \E status \in {"migratable", "needs_resolution"}, fresh \in BOOLEAN :
        LET says == IF Verified(req[c].target) THEN status ELSE "failed"
            refusal == IF ~ fresh THEN {"REPORT_STALE"}
                       ELSE IF says # "migratable" THEN {"MIGRATION_NOT_READY"}
                       ELSE IF connector # req[c].conn THEN {"WORKSPACE_CONNECTOR_STALE"}
                       ELSE {}
        IN  /\ audit' = audit \cup {<<c, code>> :
                             code \in {says} \cup (refusal \ {"MIGRATION_NOT_READY"})}
            /\ Goto(c, IF refusal = {} THEN "temp" ELSE "refused")
    /\ UNCHANGED <<versions, current, connector, proposals, messages, migrations, disk>>
    /\ Unfaulted

-----------------------------------------------------------------------------
(* Publishing: a temporary file, a hard link that replaces nothing, then   *)
(* the temporary file is removed.  i is the candidate being published.     *)

Candidate(c) == Candidates(c)[req[c].i]

WriteTemp(c) ==
    /\ At(c, "temp")
    /\ disk' = Write(Temp(c), req[c].body)
    /\ Set(c, [req[c] EXCEPT !.temp = TRUE, !.at = "link"])
    /\ UNCHANGED rows /\ Unfaulted

Collides(c) == OnDisk(Candidate(c))

\* A collision is a failed publish: the temporary file goes, and the op asks
\* whether its key has been accepted.
PublishNoReplace(c) ==
    /\ At(c, "link")
    /\ IF Collides(c)
       THEN /\ disk' = Without(Temp(c))
            /\ Set(c, [req[c] EXCEPT !.temp = FALSE, !.at = "replay"])
       ELSE /\ disk' = Write(Candidate(c), req[c].body)
            /\ Set(c, [req[c] EXCEPT !.final = @ \cup {Candidate(c)}, !.at = "untemp"])
    /\ UNCHANGED rows /\ Unfaulted

RemoveTemp(c) ==
    /\ At(c, "untemp")
    /\ disk' = Without(Temp(c))
    /\ Set(c, IF req[c].i < Len(Candidates(c))
              THEN [req[c] EXCEPT !.temp = FALSE, !.i = @ + 1, !.at = "temp"]
              ELSE [req[c] EXCEPT !.temp = FALSE, !.at = "tx"])
    /\ UNCHANGED rows /\ Unfaulted

\* Writing, linking or syncing fails: what this candidate owns is removed,
\* and then every candidate published before it, none of which has a row.
PublishFails(c) ==
    /\ faults < MaxFaults
    /\ server = "serving" /\ req[c].at \in {"temp", "link", "untemp"}
    /\ faults' = faults + 1
    /\ disk' = {f \in disk : f.name # Temp(c) /\ f.name \notin req[c].final}
    /\ Set(c, [req[c] EXCEPT !.temp = FALSE, !.final = {}, !.at = "failed"])
    /\ UNCHANGED <<rows, server, crashes, left>>

-----------------------------------------------------------------------------
(* Transactions.  Each is one BEGIN IMMEDIATE.                             *)

Append1(c, parent, source, file, hash) ==
    /\ versions' = Append(versions, [parent |-> parent, source |-> source,
                                     file |-> file, hash |-> hash])
    /\ current' = Len(versions) + 1

\* create_version_after: the parent must be the version the writer expects,
\* and that version must still be current.
InsertVersion(c, source, file, hash) ==
    /\ current = req[c].cur
    /\ Append1(c, req[c].cur, source, file, hash)

CreateWorkspaceWithInitialVersion(c) ==
    /\ req[c].op = "create"
    /\ Append1(c, 0, "manual", Candidate(c), req[c].body)
    /\ UNCHANGED <<connector, proposals, messages, migrations>>

\* Mutant: any head will do.
OpsMayCommitAnywhere(q) == Pending = {}

\* Ops commit against the version their client named, not the one read.
OpsMayCommit(q) == current = q.base /\ Pending = {}

CreateVersionWithoutPendingProposal(c) ==
    /\ req[c].op = "ops"
    /\ OpsMayCommit(req[c])
    /\ Append1(c, req[c].base, "manual", Candidate(c), req[c].body)
    /\ UNCHANGED <<connector, proposals, messages, migrations>>

CreateRestoreVersion(c) ==
    /\ req[c].op \in {"undo", "restore"}
    /\ InsertVersion(c, "restore", versions[req[c].target].file, versions[req[c].target].hash)
    /\ UNCHANGED <<connector, proposals, messages, migrations>>

\* Mutant: the state is not compared, so a dismissed proposal applies.
MayApplyByBase(p, q) == p.base = q.cur

MayApply(p, q) == p.state = "pending" /\ p.base = q.cur
MarkApplied(p) == [p EXCEPT !.state = "applied", !.result = Len(versions) + 1]

CreateVersionAfterApplyingProposal(c) ==
    /\ req[c].op = "apply"
    /\ \E p \in proposals :
        /\ p.id = Legacy /\ MayApply(p, req[c])
        /\ InsertVersion(c, "proposal", Candidate(c), req[c].body)
        /\ proposals' = (proposals \ {p}) \cup {MarkApplied(p)}
        /\ messages' = messages \cup {[kind |-> "proposal_applied", ref |-> p.id]}
    /\ UNCHANGED <<connector, migrations>>

\* The row refers to the proposal's first two files and to its third.
AutoApplyProposalVersion(c) ==
    /\ req[c].op = "agent"
    /\ InsertVersion(c, "proposal", Last(AgentCandidates(c)), req[c].body)
    /\ proposals' = proposals \cup
          {[id |-> c, base |-> req[c].base, state |-> "applied", result |-> Len(versions) + 1,
            files |-> {AgentCandidates(c)[1], AgentCandidates(c)[2]}]}
    /\ messages' = messages \cup {[kind |-> "proposal_applied", ref |-> c]}
    /\ UNCHANGED <<connector, migrations>>

MayMigrate(q) == current = q.base /\ connector = q.conn /\ Pending = {}

ApplyVersionMigration(c) ==
    /\ req[c].op = "migrate" /\ FindOperation(req[c].key) = {}
    /\ MayMigrate(req[c])
    /\ Append1(c, req[c].base, "migration", Candidate(c), req[c].body)
    /\ migrations' = migrations \cup {[op |-> req[c].key, fp |-> Fingerprint(req[c]),
                                       target |-> Len(versions) + 1]}
    /\ UNCHANGED <<connector, proposals, messages>>

Transaction(c) ==
    /\ Len(versions) < MaxVersions
    /\ \/ CreateWorkspaceWithInitialVersion(c)
       \/ CreateVersionWithoutPendingProposal(c)
       \/ CreateRestoreVersion(c)
       \/ CreateVersionAfterApplyingProposal(c)
       \/ AutoApplyProposalVersion(c)
       \/ ApplyVersionMigration(c)
    /\ UNCHANGED audit

Commit(c) ==
    /\ At(c, "tx") /\ Transaction(c)
    /\ Goto(c, "ok")
    /\ UNCHANGED disk /\ Unfaulted

\* A guard of the transaction fails, and it is rolled back.
GuardHolds(c) ==
    CASE req[c].op = "create"  -> TRUE
      [] req[c].op = "ops"     -> OpsMayCommit(req[c])
      [] req[c].op = "apply"   -> current = req[c].cur /\ Pending # {}
      [] req[c].op = "migrate" -> MayMigrate(req[c])
      [] OTHER                 -> current = req[c].cur

Conflict(c) ==
    /\ At(c, "tx")
    /\ req[c].op = "migrate" => FindOperation(req[c].key) = {}
    /\ ~ GuardHolds(c)
    /\ Set(c, [req[c] EXCEPT !.at = "clean", !.i = 1, !.code = "CONFLICT"])
    /\ UNCHANGED <<rows, disk>> /\ Unfaulted

\* The same operation has committed meanwhile: its answer is given, and the
\* file of this attempt is cleaned up like that of a failed one.
MigrationReplayed(c) ==
    /\ At(c, "tx") /\ req[c].op = "migrate" /\ FindOperation(req[c].key) # {}
    /\ LET same == \E m \in FindOperation(req[c].key) : m.fp = Fingerprint(req[c])
       IN  Set(c, [req[c] EXCEPT !.at = "clean", !.i = 1, !.replay = same,
                                 !.code = IF same THEN @ ELSE "OPERATION_ID_CONFLICT"])
    /\ UNCHANGED <<rows, disk>> /\ Unfaulted

\* The transaction reports an error: it has been rolled back, or committed
\* although its answer was lost.
TransactionFails(c) ==
    /\ At(c, "tx") /\ faults < MaxFaults
    /\ faults' = faults + 1
    /\ Set(c, [req[c] EXCEPT !.at = "clean", !.i = 1])
    /\ Transaction(c) \/ UNCHANGED rows
    /\ UNCHANGED <<disk, server, crashes, left>>

-----------------------------------------------------------------------------
(* After an error: a file is removed only when no row names it.            *)

\* A migration that lost records why, once its file is gone.
ConflictAssessment(c) ==
    IF req[c].op = "migrate" /\ req[c].code # "none" THEN {<<c, req[c].code>>} ELSE {}

Cleaned(c) == IF req[c].replay THEN "ok" ELSE "failed"

\* Mutant: a proposal's preview is not looked for.
KeepIfVersion(name) == VersionReferences(name) # {}

\* Cleanup keeps a file that any row names.
KeepReferenced(name) == Referenced(name)

CleanupAfterStoreError(c) ==
    /\ At(c, "clean")
    /\ IF req[c].i > Len(Candidates(c))
       THEN /\ Goto(c, Cleaned(c))
            /\ audit' = audit \cup ConflictAssessment(c)
            /\ UNCHANGED <<versions, current, connector, proposals, messages, migrations, disk>>
       ELSE /\ disk' = IF KeepReferenced(Candidate(c)) THEN disk ELSE Without(Candidate(c))
            /\ Set(c, [req[c] EXCEPT !.i = @ + 1, !.final = @ \ {Candidate(c)}])
            /\ UNCHANGED rows
    /\ Unfaulted

\* The rows cannot be read or the file cannot be removed: it stays, the next
\* candidate is tried, and the request reports it.
CleanupDeferred(c) ==
    /\ At(c, "clean") /\ req[c].i <= Len(Candidates(c)) /\ faults < MaxFaults
    /\ faults' = faults + 1
    /\ left' = left \cup {Candidate(c)}
    /\ Set(c, [req[c] EXCEPT !.i = @ + 1, !.replay = FALSE, !.code = "none",
                          !.final = @ \ {Candidate(c)}])
    /\ UNCHANGED <<rows, disk, server, crashes>>

\* Mutant: the hash is not compared.
AcceptedByBase(q) ==
    \E v \in DOMAIN versions :
        VersionReferences(KeyedName(q)) = {v} /\ versions[v].parent = q.base

\* A retry is answered only from a row with its base and its graph; a second
\* row on that file, such as a restore of it, makes the answer a conflict.
AcceptedIdempotentVersion(q) ==
    \E v \in DOMAIN versions :
        /\ VersionReferences(KeyedName(q)) = {v}
        /\ versions[v].parent = q.base
        /\ versions[v].hash = q.body

Replay(c) ==
    /\ At(c, "replay")
    /\ End(c, IF AcceptedIdempotentVersion(req[c]) THEN "ok" ELSE "refused")

-----------------------------------------------------------------------------
(* A proposal is dismissed and its message written in two transactions.    *)

ResolveProposal(c) ==
    /\ At(c, "resolve")
    /\ IF Pending = {} THEN End(c, "refused")
       ELSE /\ proposals' = {IF p.state = "pending" THEN [p EXCEPT !.state = "dismissed"] ELSE p :
                                 p \in proposals}
            /\ Goto(c, "tell")
            /\ UNCHANGED <<versions, current, connector, messages, migrations, audit, disk>>
            /\ Unfaulted

TellDismissed(c) ==
    /\ At(c, "tell")
    /\ messages' = messages \cup {[kind |-> "proposal_dismissed", ref |-> Legacy]}
    /\ Goto(c, "ok")
    /\ UNCHANGED <<versions, current, connector, proposals, migrations, audit, disk>>
    /\ Unfaulted

SetWorkspaceProvider(c) ==
    /\ At(c, "read") /\ req[c].op = "provider"
    /\ connector' = 1 - connector
    /\ Goto(c, "ok")
    /\ UNCHANGED <<versions, current, proposals, messages, migrations, audit, disk>>
    /\ Unfaulted

-----------------------------------------------------------------------------
(* The client goes away at an await: the handler is dropped.  A dropped    *)
(* candidate takes its temporary file along, and no published one.         *)

Awaiting == {"read", "workspace", "graph", "tx", "clean", "replay", "resolve", "tell"}

Disconnect(c) ==
    /\ server = "serving" /\ req[c].at \in Awaiting /\ faults < MaxFaults
    /\ faults' = faults + 1
    /\ left' = left \cup req[c].final
    /\ Goto(c, "gone")
    /\ UNCHANGED <<rows, disk, server, crashes>>

Crash ==
    /\ crashes < MaxCrashes
    /\ crashes' = crashes + 1
    /\ server' = "verify"
    /\ req' = [c \in Requests |->
                  IF req[c].at \in Ended \cup {"new"} THEN req[c]
                  ELSE [req[c] EXCEPT !.at = "gone"]]
    /\ left' = left \cup {f.name : f \in {g \in disk : ~ Referenced(g.name)}}
    /\ UNCHANGED <<rows, disk, faults>>

-----------------------------------------------------------------------------
(* Startup, before the first request: every row's file is read; then files *)
(* with a name of this program and no row are removed.                     *)

VerifyReferences ==
    /\ server = "verify"
    /\ server' = IF /\ \A v \in DOMAIN versions : Verified(v)
                    /\ \A p \in proposals : ProposalFilesReadable(p)
                 THEN "scan" ELSE "dead"
    /\ UNCHANGED <<rows, disk, req, faults, crashes, left>>

\* Mutant: temporary files are not recognised.
IsFinalCandidateName(name) == name.kind \notin {"ops-key", "temp"}

\* Only names made of UUIDs are known to be the program's: not a keyed one.
IsOwnedCandidateName(name) == name.kind # "ops-key"
Orphans == {f \in disk : IsOwnedCandidateName(f.name) /\ ~ Referenced(f.name)}

RemoveOrphan ==
    /\ server = "scan"
    /\ \E f \in Orphans :
        /\ disk' = disk \ {f}
        /\ left' = left \ {f.name}
    /\ UNCHANGED <<rows, req, server, faults, crashes>>

\* An orphan that cannot be removed ends the start; the operator tries again.
RemoveOrphanFails ==
    /\ server = "scan" /\ Orphans # {} /\ faults < MaxFaults
    /\ faults' = faults + 1
    /\ server' = "verify"
    /\ UNCHANGED <<rows, disk, req, crashes, left>>

Serve ==
    /\ server = "scan" /\ Orphans = {}
    /\ server' = "serving"
    /\ UNCHANGED <<rows, disk, req, faults, crashes, left>>

Next ==
    \/ \E c \in Requests :
        \/ Receive(c) \/ ReadProposal(c) \/ ReadOperation(c) \/ ReadWorkspace(c)
        \/ PrepareOps(c) \/ PrepareRestore(c) \/ PrepareAgentApply(c) \/ PrepareApply(c)
        \/ AssessAndMigrate(c)
        \/ WriteTemp(c) \/ PublishNoReplace(c) \/ RemoveTemp(c) \/ PublishFails(c)
        \/ Commit(c) \/ Conflict(c) \/ MigrationReplayed(c) \/ TransactionFails(c)
        \/ CleanupAfterStoreError(c) \/ CleanupDeferred(c) \/ Replay(c)
        \/ ResolveProposal(c) \/ TellDismissed(c) \/ SetWorkspaceProvider(c)
        \/ Disconnect(c)
    \/ Crash \/ VerifyReferences \/ RemoveOrphan \/ RemoveOrphanFails \/ Serve

Spec == Init /\ [][Next]_vars

-----------------------------------------------------------------------------
(* Properties.                                                             *)

\* The rows, the files and the requests are of their kinds.
VersionsTypeOK ==
    /\ current \in 0 .. Len(versions) /\ Len(versions) <= MaxVersions
    /\ \A v \in DOMAIN versions : versions[v].parent \in 0 .. v - 1
    /\ \A p \in proposals : p.state \in {"pending", "applied", "dismissed"}
    /\ \A f, g \in disk : f.name = g.name => f = g
    /\ \A c \in Requests : /\ req[c].i \in 1 .. Len(Candidates(c)) + 1
                           /\ req[c].final \subseteq {Candidates(c)[j] : j \in DOMAIN Candidates(c)}
    /\ server \in {"serving", "verify", "scan", "dead"}

\* A row is committed after its file and outlives every cleanup: whatever a
\* row names is on disk and holds what the row's hash says, at every moment a
\* crash may come, so that verify_references never stops a start.
RowsHaveTheirFiles ==
    /\ VersionsTypeOK
    /\ \A v \in DOMAIN versions : Verified(v)
    /\ \A p \in proposals : ProposalFilesReadable(p)
    /\ server # "dead"

\* Two writers that start from one version cannot both win, by whichever
\* routes they come: each version but the first was made from the one before
\* it, and the workspace shows the last (the CAS on cur_version_id).
HistoryIsLinear ==
    /\ current = Len(versions)
    /\ \A v \in DOMAIN versions : v > 1 => versions[v].parent = v - 1

\* A proposal is resolved once: one version comes of an applied one, with its
\* message, and none of a dismissed one, however apply and dismiss race
\* (create_version_after_applying_proposal, resolve_proposal).
ProposalsResolveOnce ==
    /\ \A p \in proposals :
        /\ (p.state = "applied") = (p.result # 0)
        /\ (p.state = "applied") = ([kind |-> "proposal_applied", ref |-> p.id] \in messages)
        /\ [kind |-> "proposal_dismissed", ref |-> p.id] \in messages => p.state = "dismissed"
    /\ \A v \in DOMAIN versions :
        Cardinality({p \in proposals : p.result = v}) =
            (IF versions[v].source = "proposal" THEN 1 ELSE 0)

\* A client that repeats an op or a migration under its key changes the
\* workspace once: no base has two ops rows of a key, no operation id two
\* targets, and whoever was told "ok" finds its graph in the history
\* (accepted_idempotent_version, find_operation).
RepeatsCommitOnce ==
    /\ \A v, w \in DOMAIN versions :
        /\ versions[v].source = "manual" /\ versions[w].source = "manual"
        /\ versions[v].file = versions[w].file
        => v = w
    /\ \A m, n \in migrations : m.op = n.op => m = n
    /\ \A c \in Requests : req[c].at = "ok" /\ req[c].op \in {"ops", "migrate"} =>
        \E v \in DOMAIN versions : /\ versions[v].parent = req[c].base
                                  /\ versions[v].hash = req[c].body

\* A file without a row belongs to a request that is still at work, unless a
\* fault, a lost client or a crash left it; once a start is through, only
\* keyed files are left by a crash (cleanup_after_store_error, publish_all,
\* scan_and_remove_orphans).
InHand(c) == IF req[c].at \in Ended THEN {}
             ELSE req[c].final \cup (IF req[c].temp THEN {Temp(c)} ELSE {})
OrphansAreExplained ==
    /\ \A f \in disk : \/ Referenced(f.name)
                       \/ f.name \in left
                       \/ \E c \in Requests : f.name \in InHand(c)
    /\ (server = "serving" /\ crashes > 0 /\ faults = 0
         /\ \A c \in Requests : req[c].at \in {"new", "gone"})
           => \A f \in disk : Referenced(f.name) \/ f.name.kind = "ops-key"
=============================================================================
