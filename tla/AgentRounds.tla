---------------------------- MODULE AgentRounds ----------------------------
(***************************************************************************)
(* One session of the agent: the service sends a turn to the runtime, the  *)
(* runtime runs a process for it and reports through one channel, and the  *)
(* service reads the file the process leaves.  A canvas edit is asked for  *)
(* in up to MaxRounds rounds of the same session, so the processes of      *)
(* several rounds share the channel, the cancel slot and the output file.  *)
(*                                                                         *)
(* The contract a session asks for is "route", "reply" or "edit"; only     *)
(* "edit" has more than one round.  What the file says is abstracted to    *)
(* whether it validates.                                                   *)
(***************************************************************************)
EXTENDS Naturals, Sequences, FiniteSets, Functions, SequencesExt

CONSTANT MaxRounds  \* max_intent_rounds

ASSUME RoundsAssumption == MaxRounds \in Nat \ {0}

VARIABLES
    session,  \* what the service does with it
    process,  \* the process of each round
    channel,  \* the events not yet received
    output    \* the contract's file

rounds == <<session, process, channel, output>>

Rounds == 1 .. MaxRounds
NoFile == [by |-> 0, valid |-> FALSE]
\* A session nobody waits for.  "cancels" is the round whose sender is in the
\* handle's slot, "causes" the process that ended each round so far (history),
\* "late" whether some round ran out of time (history).
NoSession ==
    [asks |-> "none", at |-> "idle", round |-> 0, cancels |-> 0,
     causes |-> <<>>, late |-> FALSE]
NoProcess == [alive |-> FALSE, cancelled |-> FALSE, wrote |-> FALSE]
Quiet == [r \in Rounds |-> NoProcess]

RoundsTypeOK ==
    /\ session \in [asks : {"none", "route", "reply", "edit"},
                    at : {"idle", "sending", "waiting", "accepted", "failed"},
                    round : 0 .. MaxRounds, cancels : 0 .. MaxRounds,
                    causes : BoundedSeq(Rounds, MaxRounds), late : BOOLEAN]
    /\ process \in [Rounds -> [alive : BOOLEAN, cancelled : BOOLEAN, wrote : BOOLEAN]]
    /\ channel \in Seq([is : {"finished", "failed"}, from : Rounds])
    /\ output \in [by : 0 .. MaxRounds, valid : BOOLEAN]

RoundsInit ==
    /\ session = NoSession
    /\ process = Quiet
    /\ channel = <<>>
    /\ output = NoFile

-----------------------------------------------------------------------------
(* The service.                                                            *)

\* A session has its own directory, its own handle and so its own channel.
StartSession(contract) ==
    /\ session' = [NoSession EXCEPT !.asks = contract, !.at = "sending"]
    /\ process' = Quiet
    /\ channel' = <<>>
    /\ output' = NoFile

\* The caller has what it wanted, or is gone: what the processes still do is
\* seen by nobody.
EndSession ==
    /\ session' = NoSession
    /\ process' = Quiet
    /\ channel' = <<>>
    /\ output' = NoFile

\* The receiver of a replaced or a used sender resolves: the process is told.
Told(ps, r) == IF r = 0 THEN ps ELSE [ps EXCEPT ![r].cancelled = TRUE]

\* The file of an earlier round is removed, then a process is started and its
\* sender put into the slot of the handle.
Send ==
    /\ session.at = "sending"
    /\ LET r == session.round + 1
       IN /\ session' = [session EXCEPT !.at = "waiting", !.round = r, !.cancels = r]
          /\ process' = [Told(process, session.cancels) EXCEPT
                            ![r] = [NoProcess EXCEPT !.alive = TRUE]]
    /\ output' = NoFile
    /\ UNCHANGED channel

\* A failed round of an edit is followed by another one while there is one left.
MoreRounds == session.asks = "edit" /\ session.round < MaxRounds
AfterFailure == IF MoreRounds THEN "sending" ELSE "failed"
EndRound(outcome, from) ==
    session' = [session EXCEPT
        !.at = IF outcome = "good" THEN "accepted" ELSE AfterFailure,
        !.causes = Append(session.causes, from)]

\* The next event of the channel, whoever sent it.
Receive ==
    /\ session.at = "waiting"
    /\ channel # <<>>
    /\ channel' = Tail(channel)
    /\ LET good == Head(channel).is = "finished" /\ output.valid
       IN EndRound(IF good THEN "good" ELSE "bad", Head(channel).from)
    /\ UNCHANGED <<process, output>>

\* turn_timeout: an event already in the channel is received first.
RunsOut ==
    /\ session.at = "waiting"
    /\ channel = <<>>
    /\ session' = [session EXCEPT
                       !.at = AfterFailure, !.cancels = 0, !.late = TRUE,
                       !.causes = Append(session.causes, session.round)]
    /\ process' = Told(process, session.cancels)
    /\ UNCHANGED <<channel, output>>

-----------------------------------------------------------------------------
(* The runtime: one task and one child process for each round.  A task     *)
(* that has been told and has an event to read takes either.               *)

\* The agent writes its answer, well-formed or not.
Write(r) ==
    /\ process[r].alive /\ ~process[r].wrote
    /\ \E valid \in BOOLEAN : output' = [by |-> r, valid |-> valid]
    /\ process' = [process EXCEPT ![r].wrote = TRUE]
    /\ UNCHANGED <<session, channel>>

Ends(r) == process' = [process EXCEPT ![r].alive = FALSE]

\* The turn is completed, or the child exits with success.
Finish(r) ==
    /\ process[r].alive
    /\ Ends(r)
    /\ channel' = Append(channel, [is |-> "finished", from |-> r])
    /\ UNCHANGED <<session, output>>

\* The child cannot be started, dies, or reports an error.
Fail(r) ==
    /\ process[r].alive
    /\ Ends(r)
    /\ channel' = Append(channel, [is |-> "failed", from |-> r])
    /\ UNCHANGED <<session, output>>

\* The task was told: it kills the child, and reports that as a failure too.
Cancelled(r) ==
    /\ process[r].alive /\ process[r].cancelled
    /\ Ends(r)
    /\ channel' = Append(channel, [is |-> "failed", from |-> r])
    /\ UNCHANGED <<session, output>>

Runtime(r) == Write(r) \/ Finish(r) \/ Fail(r) \/ Cancelled(r)
Service == Send \/ Receive \/ RunsOut

-----------------------------------------------------------------------------
(* While no round has run out of time, every round is ended by its own     *)
(* process: a retry never sees what the round before it left behind.       *)
RoundsKeepApart ==
    ~session.late => \A i \in 1 .. Len(session.causes) : session.causes[i] = i

(* A process that fails uses up one round and not a second one             *)
(* (specs/GH67/product.md:42).                                             *)
OneRoundPerFailure == IsInjective(session.causes)
=============================================================================
