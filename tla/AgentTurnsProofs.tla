-------------------------- MODULE AgentTurnsProofs --------------------------
(***************************************************************************)
(* A turn, its observation and its messages agree, for every number of     *)
(* turns, rounds, faults, disconnects and restarts.                        *)
(***************************************************************************)
EXTENDS AgentTurns, TLAPS

-----------------------------------------------------------------------------
(* The inductive invariant.                                                *)

\* A session has ended as many rounds as it has causes for.
Session ==
    [asks : {"none", "route", "reply", "edit"},
     at : {"idle", "sending", "waiting", "accepted", "failed"},
     round : 0 .. MaxRounds, cancels : 0 .. MaxRounds,
     causes : Seq(Rounds), late : BOOLEAN]
Process == [alive : BOOLEAN, cancelled : BOOLEAN, wrote : BOOLEAN]

RoundsInv ==
    /\ session \in Session
    /\ session.at = "sending" => session.round < MaxRounds
    /\ session.at = "waiting" => Len(session.causes) + 1 = session.round
    /\ session.at # "waiting" => Len(session.causes) = session.round
    /\ process \in [Rounds -> Process]
    /\ channel \in Seq([is : {"finished", "failed"}, from : Rounds])
    /\ output \in [by : 0 .. MaxRounds, valid : BOOLEAN]

Outcomes == {"none", "started", "success", "clarify", "error"}
Reasons == {"none", "dropped", "process", "other"}
Places == Before \cup Preparing \cup Dispatched \cup Interrupting \cup {"idle"}
Handler == [turn : 0 .. MaxTurns, mode : Modes, told : BOOLEAN, base : Nat, at : Places]

Types ==
    /\ turn \in [Turns -> [status : Statuses, reason : Reasons]]
    /\ seen \in [Turns -> Outcomes]
    /\ said \in [Turns -> Seq(Kinds)]
    /\ version \in Nat /\ made \in [Turns -> Nat]
    /\ handler \in Handler
    /\ settling \in SUBSET [turn : Turns, observed : BOOLEAN]
    /\ late \in SUBSET [turn : Turns, kind : Kinds]
    /\ up \in {"up", "turns", "observations"}

Has(t, kind) == \E i \in DOMAIN said[t] : said[t][i] = kind
Only(t, kinds) == \A i \in DOMAIN said[t] : said[t][i] \in kinds
Bad == {"error", "interrupted"}
Unobserved == Bad \cup {"chat", "run"}
SaysWhy(t) == \E kind \in Fitting(turn[t].status) : Has(t, kind)

\* What turn, observation and messages say of each other.
TurnOK(t) ==
    /\ seen[t] = "success" <=> made[t] # 0
    /\ seen[t] # "none" => (turn[t].status = "succeeded" <=> seen[t] = "success")
    /\ turn[t].status = "clarify" => seen[t] = "clarify"
    /\ seen[t] = "clarify" /\ Ended(t) /\ turn[t].reason # "process"
         => turn[t].status = "clarify"
    /\ Ended(t) /\ up = "up" => seen[t] # "started"
    /\ turn[t].status = "none" => seen[t] = "none" /\ said[t] = <<>>
    /\ seen[t] = "started" => said[t] = <<>>
    /\ seen[t] = "clarify" => Has(t, "clarify")
    /\ seen[t] = "error" => Only(t, Bad)
    /\ seen[t] = "none" => Only(t, Unobserved)
    /\ Ended(t) /\ turn[t].reason # "process" => SaysWhy(t)

\* Where a handler stands tells what it has observed and said.
Stands(t, mode, at) ==
    /\ turn[t].status = "none" <=> at \in Before
    /\ mode # "edit" =>
          /\ seen[t] = "none"
          /\ at \notin {"compiling", "applying", "clarifying", "endClarify", "failing", "observe"}
          /\ at \in {"logging", "endChat"} => Has(t, "chat")
    /\ mode = "edit" =>
          /\ at \notin {"sayChat", "endChat", "requesting", "assigning", "endRun"}
          /\ at = "recording" => turn[t].status = "running" /\ seen[t] = "none" /\ said[t] = <<>>
          /\ at \in {"attaching", "dispatching", "asking", "identity", "logging", "compiling",
                     "applying", "clarifying", "failing"} => seen[t] = "started"
          /\ at = "endClarify" => seen[t] = "clarify"
          /\ at \in {"sayError", "endError", "sayInterrupted", "endInterrupted"} =>
                seen[t] \in {"error", "success"}
    /\ at = "endRun" => Has(t, "run")
    /\ at = "endError" => Has(t, "error")
    /\ at = "endInterrupted" => Has(t, "interrupted")

\* Nobody else writes for the turn of the handler.
HandlerOK ==
    handler.at # "idle" =>
        /\ handler.turn \in Turns /\ up = "up"
        /\ \A s \in settling : s.turn # handler.turn
        /\ \A m \in late : m.turn # handler.turn
        /\ Stands(handler.turn, handler.mode, handler.at)

\* What a dropped handler leaves: a task that knows of the observation, and an
\* insert that fits what was observed.
LeftOK ==
    /\ \A s \in settling : ~s.observed => seen[s.turn] = "none"
    /\ \A m \in late :
          /\ turn[m.turn].status # "none" /\ seen[m.turn] \in {"none", "error", "success"}
          /\ m.kind \in Unobserved
          /\ seen[m.turn] = "error" => m.kind \in Bad
    /\ up # "up" => handler.at = "idle" /\ settling = {} /\ late = {}
    /\ up = "observations" => \A t \in Turns : ~Running(t)

Inv == RoundsInv /\ Types /\ (\A t \in Turns : TurnOK(t)) /\ HandlerOK /\ LeftOK

-----------------------------------------------------------------------------
(* The rounds of a session.                                                *)

\* Whoever starts or ends a session leaves one that is well-formed.
LEMMA NothingHeld ==
    ASSUME NEW contract \in {"route", "reply", "edit"},
           StartSession(contract) \/ EndSession
    PROVE  RoundsInv'
<1>1. 0 \in 0 .. MaxRounds /\ 0 < MaxRounds BY RoundsAssumption
<1>2. <<>> \in Seq(Rounds) /\ Len(<<>>) = 0
      /\ <<>> \in Seq([is : {"finished", "failed"}, from : Rounds]) OBVIOUS
<1>3. Quiet \in [Rounds -> Process]
    <2>1. NoProcess \in Process BY DEF NoProcess, Process
    <2>2. QED BY <2>1 DEF Quiet
<1>4. NoFile \in [by : 0 .. MaxRounds, valid : BOOLEAN] BY <1>1 DEF NoFile
<1>5. PICK asks \in {"none", contract}, at \in {"idle", "sending"} :
          session' = [asks |-> asks, at |-> at, round |-> 0, cancels |-> 0,
                      causes |-> <<>>, late |-> FALSE]
    <2>1. CASE StartSession(contract) BY <2>1 DEF StartSession, NoSession
    <2>2. CASE EndSession BY <2>2 DEF EndSession, NoSession
    <2>3. QED BY <2>1, <2>2
<1>6. session' \in Session
    <2>1. asks \in {"none", "route", "reply", "edit"} OBVIOUS
    <2> DEFINE none == <<>>
    <2>2. none \in Seq(Rounds) BY <1>2
    <2>3. session' = [asks |-> asks, at |-> at, round |-> 0, cancels |-> 0,
                      causes |-> none, late |-> FALSE]
          BY <1>5
    <2> HIDE DEF none
    <2>4. QED BY <1>1, <2>1, <2>2, <2>3 DEF Session
<1>7. /\ session'.causes = <<>> /\ session'.round = 0 /\ session'.at = at
      /\ at # "waiting" BY <1>5
<1>8. QED BY <1>1, <1>2, <1>3, <1>4, <1>6, <1>7 DEF StartSession, EndSession, RoundsInv

LEMMA ToldOK ==
    ASSUME process \in [Rounds -> Process], NEW r \in 0 .. MaxRounds
    PROVE  Told(process, r) \in [Rounds -> Process]
<1>1. CASE r = 0 BY <1>1 DEF Told
<1>2. CASE r # 0
    <2>1. r \in Rounds BY <1>2, RoundsAssumption DEF Rounds
    <2>2. [process[r] EXCEPT !.cancelled = TRUE] \in Process BY <2>1 DEF Process
    <2>3. QED BY <1>2, <2>1, <2>2 DEF Told
<1>3. QED BY <1>1, <1>2

LEMMA SendKeeps ==
    ASSUME RoundsInv, Send
    PROVE  RoundsInv'
<1> DEFINE r == session.round + 1
<1>1. /\ session \in Session /\ session.at = "sending" /\ session.round < MaxRounds
      /\ Len(session.causes) = session.round /\ session.causes \in Seq(Rounds)
      BY DEF RoundsInv, Send, Session
<1>2. session.round \in Nat /\ r \in Rounds /\ r \in 0 .. MaxRounds
      BY <1>1, RoundsAssumption DEF Rounds, Session
<1>3. /\ session' = [session EXCEPT !.at = "waiting", !.round = r, !.cancels = r]
      /\ process' = [Told(process, session.cancels) EXCEPT ![r] = [NoProcess EXCEPT !.alive = TRUE]]
      /\ output' = NoFile /\ channel' = channel
      BY DEF Send
<1> HIDE DEF r
<1>4. session' \in Session BY <1>1, <1>2, <1>3 DEF Session
<1>5. session'.at = "waiting" /\ session'.round = r /\ session'.causes = session.causes
      BY <1>1, <1>3 DEF Session
<1>6. Len(session'.causes) + 1 = session'.round BY <1>1, <1>2, <1>5 DEF r
<1>7. process' \in [Rounds -> Process]
    <2>1. Told(process, session.cancels) \in [Rounds -> Process]
          BY <1>1, ToldOK DEF RoundsInv, Session
    <2>2. [NoProcess EXCEPT !.alive = TRUE] \in Process BY DEF NoProcess, Process
    <2>3. QED BY <1>2, <1>3, <2>1, <2>2
<1>8. output' \in [by : 0 .. MaxRounds, valid : BOOLEAN]
      BY <1>3, RoundsAssumption DEF NoFile
<1>9. channel' \in Seq([is : {"finished", "failed"}, from : Rounds]) BY <1>3 DEF RoundsInv
<1>10. QED BY <1>4, <1>5, <1>6, <1>7, <1>8, <1>9 DEF RoundsInv

\* A round that ends is put down with its cause, and another one follows only
\* while there is one left.
LEMMA EndOfRound ==
    ASSUME RoundsInv, session.at = "waiting",
           NEW from \in Rounds, NEW at \in {"accepted", AfterFailure},
           session'.at = at, session'.round = session.round, session'.asks = session.asks,
           session'.cancels \in 0 .. MaxRounds, session'.late \in BOOLEAN,
           session'.causes = Append(session.causes, from),
           DOMAIN session' = DOMAIN session,
           session' = [f \in DOMAIN session' |-> session'[f]]
    PROVE  /\ session' \in Session
           /\ session'.at # "waiting" /\ Len(session'.causes) = session'.round
           /\ session'.at = "sending" => session'.round < MaxRounds
<1>1. /\ session \in Session /\ session.round \in 0 .. MaxRounds
      /\ session.causes \in Seq(Rounds) /\ Len(session.causes) + 1 = session.round
      BY DEF RoundsInv, Session
<1>2. /\ session'.causes \in Seq(Rounds)
      /\ Len(session'.causes) = session.round
      BY <1>1
<1>3. at \in {"accepted", "failed", "sending"} /\ (at = "sending" => session.round < MaxRounds)
      BY DEF AfterFailure, MoreRounds
<1>4. session' \in Session BY <1>1, <1>2, <1>3 DEF Session
<1>5. QED BY <1>2, <1>3, <1>4

LEMMA ReceiveKeeps ==
    ASSUME RoundsInv, Receive
    PROVE  RoundsInv'
<1> DEFINE Event == [is : {"finished", "failed"}, from : Rounds]
<1>1. channel \in Seq(Event) /\ channel # <<>> /\ session.at = "waiting" /\ session \in Session
      BY DEF Receive, RoundsInv
<1>2. Head(channel) \in Event /\ Tail(channel) \in Seq(Event)
    <2> HIDE DEF Event
    <2>1. QED BY <1>1
<1>3. PICK at \in {"accepted", AfterFailure} :
          session' = [session EXCEPT !.at = at,
                                     !.causes = Append(session.causes, Head(channel).from)]
      BY DEF Receive, EndRound
<1>4. Head(channel).from \in Rounds BY <1>2
<1>5. /\ session'.at = at /\ session'.round = session.round /\ session'.asks = session.asks
      /\ session'.cancels \in 0 .. MaxRounds /\ session'.late \in BOOLEAN
      /\ session'.causes = Append(session.causes, Head(channel).from)
      /\ DOMAIN session' = DOMAIN session
      /\ session' = [f \in DOMAIN session' |-> session'[f]]
      BY <1>1, <1>3 DEF Session
<1>6. /\ session' \in Session
      /\ session'.at # "waiting" /\ Len(session'.causes) = session'.round
      /\ session'.at = "sending" => session'.round < MaxRounds
      BY <1>1, <1>4, <1>5, EndOfRound
<1>7. process' = process /\ output' = output /\ channel' \in Seq(Event)
      BY <1>2 DEF Receive
<1>8. QED BY <1>6, <1>7 DEF RoundsInv

LEMMA RunsOutKeeps ==
    ASSUME RoundsInv, RunsOut
    PROVE  RoundsInv'
<1>1. session.at = "waiting" /\ session \in Session BY DEF RunsOut, RoundsInv
<1>2. session' = [session EXCEPT !.at = AfterFailure, !.cancels = 0, !.late = TRUE,
                                 !.causes = Append(session.causes, session.round)]
      BY DEF RunsOut
<1>3. session.round \in Rounds
    <2>1. Len(session.causes) \in Nat /\ Len(session.causes) + 1 = session.round
          /\ session.round \in 0 .. MaxRounds
          BY <1>1 DEF RoundsInv, Session
    <2>2. QED BY <2>1, RoundsAssumption DEF Rounds
<1> DEFINE from == session.round  at == AfterFailure
<1>4. /\ from \in Rounds /\ at \in {"accepted", AfterFailure}
      /\ session' = [session EXCEPT !.at = at, !.cancels = 0, !.late = TRUE,
                                    !.causes = Append(session.causes, from)]
      BY <1>2, <1>3
<1>5. /\ session' \in Session
      /\ session'.at # "waiting" /\ Len(session'.causes) = session'.round
      /\ session'.at = "sending" => session'.round < MaxRounds
    <2> HIDE DEF from, at
    <2> DEFINE causes == Append(session.causes, from)
    <2>1. session' = [session EXCEPT !.at = at, !.cancels = 0, !.late = TRUE, !.causes = causes]
          BY <1>4
    <2>2. session'.causes = Append(session.causes, from)
          BY <1>1, <1>4 DEF Session
    <2> HIDE DEF causes
    <2>3. /\ session'.at = at /\ session'.round = session.round
          /\ session'.asks = session.asks
          /\ session'.cancels = 0 /\ session'.late = TRUE
          BY <1>1, <2>1 DEF Session
    <2>4. DOMAIN session' = DOMAIN session BY <2>1
    <2>5. session' = [f \in DOMAIN session' |-> session'[f]] BY <1>1, <2>1 DEF Session
    <2>6. 0 \in 0 .. MaxRounds BY RoundsAssumption
    <2>7. session'.cancels \in 0 .. MaxRounds /\ session'.late \in BOOLEAN BY <2>3, <2>6
    <2>8. QED BY <1>1, <1>4, <2>2, <2>3, <2>4, <2>5, <2>7, EndOfRound
<1>6. process' \in [Rounds -> Process]
    <2>1. session.cancels \in 0 .. MaxRounds BY <1>1 DEF Session
    <2>2. QED BY <2>1, ToldOK DEF RunsOut, RoundsInv
<1>7. QED BY <1>5, <1>6 DEF RunsOut, RoundsInv

LEMMA RuntimeKeeps ==
    ASSUME RoundsInv, NEW r \in Rounds, Runtime(r)
    PROVE  RoundsInv'
<1>1. r \in 0 .. MaxRounds BY RoundsAssumption DEF Rounds
<1>2. CASE Write(r)
    <2>1. PICK valid \in BOOLEAN : output' = [by |-> r, valid |-> valid] BY <1>2 DEF Write
    <2>2. output' \in [by : 0 .. MaxRounds, valid : BOOLEAN] BY <1>1, <2>1
    <2>3. process' \in [Rounds -> Process]
        <3>1. [process[r] EXCEPT !.wrote = TRUE] \in Process BY DEF RoundsInv, Process
        <3>2. QED BY <1>2, <3>1 DEF Write, RoundsInv
    <2>4. QED BY <1>2, <2>2, <2>3 DEF Write, RoundsInv
<1>3. ASSUME Finish(r) \/ Fail(r) \/ Cancelled(r)
      PROVE  RoundsInv'
    <2>1. process' \in [Rounds -> Process]
        <3>1. [process[r] EXCEPT !.alive = FALSE] \in Process BY DEF RoundsInv, Process
        <3>2. QED BY <1>3, <3>1 DEF Finish, Fail, Cancelled, Ends, RoundsInv
    <2>2. PICK is \in {"finished", "failed"} : channel' = Append(channel, [is |-> is, from |-> r])
          BY <1>3 DEF Finish, Fail, Cancelled
    <2>3. channel' \in Seq([is : {"finished", "failed"}, from : Rounds])
          BY <2>2 DEF RoundsInv
    <2>4. session' = session /\ output' = output BY <1>3 DEF Finish, Fail, Cancelled
    <2>5. QED BY <2>1, <2>3, <2>4 DEF RoundsInv
<1>4. QED BY <1>2, <1>3 DEF Runtime

LEMMA RoundsStay ==
    ASSUME RoundsInv, UNCHANGED rounds
    PROVE  RoundsInv'
BY DEF RoundsInv, rounds

-----------------------------------------------------------------------------
(* The statements of the store, and what they leave alone.                 *)

OtherRows(t) ==
    \A u \in Turns \ {t} :
        turn'[u] = turn[u] /\ seen'[u] = seen[u] /\ said'[u] = said[u] /\ made'[u] = made[u]

LEMMA FinalizeDoes ==
    ASSUME Types, NEW t \in Turns, NEW status \in Statuses, NEW reason \in Reasons,
           Finalize(t, status, reason)
    PROVE  /\ turn' \in [Turns -> [status : Statuses, reason : Reasons]]
           /\ turn'[t] = [status |-> status, reason |-> reason]
           /\ \A u \in Turns \ {t} : turn'[u] = turn[u]
BY DEF Types, Finalize

LEMMA ObserveDoes ==
    ASSUME Types, NEW t \in Turns, NEW outcome \in Outcomes, Observe(t, outcome)
    PROVE  /\ seen' \in [Turns -> Outcomes]
           /\ seen'[t] = outcome
           /\ \A u \in Turns \ {t} : seen'[u] = seen[u]
BY DEF Types, Observe

LEMMA SayDoes ==
    ASSUME Types, NEW t \in Turns, NEW kind \in Kinds, Say(t, kind)
    PROVE  /\ said' \in [Turns -> Seq(Kinds)]
           /\ said'[t] # <<>>
           /\ Has(t, kind)'
           /\ \A k : Has(t, k) => Has(t, k)'
           /\ \A kinds : kind \in kinds /\ Only(t, kinds) => Only(t, kinds)'
           /\ \A u \in Turns \ {t} : said'[u] = said[u]
<1>1. said[t] \in Seq(Kinds) BY DEF Types
<1>2. said' = [said EXCEPT ![t] = Append(said[t], kind)] BY DEF Say
<1> DEFINE old == said[t]
           new == Append(old, kind)
<1>3. said'[t] = new BY <1>2 DEF Types
<1>4. /\ new \in Seq(Kinds) /\ new # <<>>
      /\ DOMAIN new = DOMAIN old \cup {Len(old) + 1}
      /\ Len(old) + 1 \notin DOMAIN old
      /\ \A i \in DOMAIN old : new[i] = old[i]
      /\ new[Len(old) + 1] = kind
      BY <1>1
<1>5. said' \in [Turns -> Seq(Kinds)] BY <1>1, <1>2, <1>4 DEF Types
<1> DEFINE last == Len(old) + 1
<1> HIDE DEF new, last
<1>6. /\ DOMAIN new = DOMAIN said[t] \cup {last}
      /\ \A i \in DOMAIN said[t] : new[i] = said[t][i]
      /\ new[last] = kind
      BY <1>4 DEF last
<1>7. Has(t, kind)' BY <1>3, <1>6 DEF Has
<1>8. \A k : Has(t, k) => Has(t, k)' BY <1>3, <1>6 DEF Has
<1>9. \A kinds : kind \in kinds /\ Only(t, kinds) => Only(t, kinds)'
      BY <1>3, <1>6 DEF Only
<1>10. \A u \in Turns \ {t} : said'[u] = said[u] BY <1>2 DEF Types
<1>11. QED BY <1>3, <1>4, <1>5, <1>7, <1>8, <1>9, <1>10

\* Who says nothing has the messages he had.
LEMMA SaidSame ==
    ASSUME NEW t \in Turns, said'[t] = said[t]
    PROVE  /\ \A k : Has(t, k)' <=> Has(t, k)
           /\ \A kinds : Only(t, kinds)' <=> Only(t, kinds)
<1>1. \A k : Has(t, k)' <=> Has(t, k) BY DEF Has
<1>2. \A kinds : Only(t, kinds)' <=> Only(t, kinds) BY DEF Only
<1>3. QED BY <1>1, <1>2

LEMMA Silence ==
    ASSUME NEW t \in Turns, said[t] = <<>>
    PROVE  /\ \A k : ~Has(t, k)
           /\ \A kinds : Only(t, kinds)
BY DEF Has, Only

LEMMA FittingIs ==
    /\ Fitting("succeeded") = {"chat", "applied", "run", "status"}
    /\ Fitting("clarify") = {"clarify"}
    /\ Fitting("error") = Bad
    /\ Fitting("interrupted") = Bad
BY DEF Fitting, Bad

LEMMA TurnSame ==
    ASSUME NEW t \in Turns, TurnOK(t), up' = up \/ up' # "up",
           turn'[t] = turn[t], seen'[t] = seen[t], said'[t] = said[t], made'[t] = made[t]
    PROVE  TurnOK(t)'
<1>1. /\ \A k : Has(t, k)' <=> Has(t, k)
      /\ \A kinds : Only(t, kinds)' <=> Only(t, kinds)
      BY SaidSame
<1>2. Ended(t)' <=> Ended(t) BY DEF Ended
<1>3. Fitting(turn[t].status)' = Fitting(turn[t].status) BY DEF Fitting
<1>4. /\ Only(t, Bad)' <=> Only(t, Bad)
      /\ Only(t, Unobserved)' <=> Only(t, Unobserved)
      /\ Has(t, "clarify")' <=> Has(t, "clarify")
      BY <1>1 DEF Bad, Unobserved
<1>5. SaysWhy(t)' <=> SaysWhy(t)
      BY <1>1, <1>3 DEF SaysWhy
<1>6. QED BY <1>2, <1>4, <1>5 DEF TurnOK

-----------------------------------------------------------------------------
(* The steps of a handler, by what they do to its place.                   *)

LEMMA GoesDoes ==
    ASSUME Types, NEW at \in Places, Goes(at)
    PROVE  /\ handler' \in Handler /\ handler'.at = at
           /\ handler'.turn = handler.turn /\ handler'.mode = handler.mode
BY DEF Types, Goes, Handler

\* A handler that stays writes for its own turn only.
LEMMA HandlerGoesOn ==
    ASSUME Inv, RoundsInv', Types',
           NEW t \in Turns, NEW mode, NEW at,
           t = handler.turn, handler.at # "idle",
           handler'.turn = t, handler'.mode = mode, handler'.at = at,
           OtherRows(t), UNCHANGED <<settling, late, up>>,
           TurnOK(t)', Stands(t, mode, at)'
    PROVE  Inv'
<1>1. /\ up = "up" /\ up' = "up" /\ settling' = settling /\ late' = late
      /\ \A s \in settling : s.turn # t
      /\ \A m \in late : m.turn # t
      BY DEF Inv, HandlerOK
<1>2. \A u \in Turns : TurnOK(u)'
    <2>1. TAKE u \in Turns
    <2>2. CASE u = t BY <2>2
    <2>3. CASE u # t
        <3>1. TurnOK(u) BY DEF Inv
        <3>2. turn'[u] = turn[u] /\ seen'[u] = seen[u] /\ said'[u] = said[u] /\ made'[u] = made[u]
              BY <2>3 DEF OtherRows
        <3>3. QED BY <1>1, <3>1, <3>2, TurnSame
    <2>4. QED BY <2>2, <2>3
<1>3. HandlerOK' BY <1>1 DEF HandlerOK
<1>4. LeftOK'
    <2>1. \A s \in settling : s.turn \in Turns BY DEF Inv, Types
    <2>2. \A m \in late : m.turn \in Turns BY DEF Inv, Types
    <2>3. \A u \in Turns \ {t} : turn'[u] = turn[u] /\ seen'[u] = seen[u] BY DEF OtherRows
    <2>4. \A s \in settling' : ~s.observed => seen'[s.turn] = "none"
          BY <1>1, <2>1, <2>3 DEF Inv, LeftOK
    <2>5. \A m \in late' :
              /\ turn'[m.turn].status # "none" /\ seen'[m.turn] \in {"none", "error", "success"}
              /\ m.kind \in Unobserved
              /\ seen'[m.turn] = "error" => m.kind \in Bad
          BY <1>1, <2>2, <2>3 DEF Inv, LeftOK
    <2>6. QED BY <1>1, <2>4, <2>5 DEF LeftOK
<1>5. QED BY <1>2, <1>3, <1>4 DEF Inv

LEMMA HandlerMoves ==
    ASSUME Inv, RoundsInv',
           NEW t \in Turns, NEW mode, NEW at \in Places,
           t = handler.turn, mode = handler.mode, handler.at # "idle",
           handler' \in Handler, handler'.turn = t, handler'.mode = mode, handler'.at = at,
           UNCHANGED <<rows, settling, late, up>>,
           Stands(t, mode, at)
    PROVE  Inv'
<1>1. UNCHANGED <<turn, seen, said, version, made, settling, late, up>> BY DEF rows
<1>2. Types' BY <1>1 DEF Inv, Types
<1>3. TurnOK(t)'
    <2>1. TurnOK(t) BY DEF Inv
    <2>2. QED BY <1>1, <2>1, TurnSame
<1>4. Stands(t, mode, at)'
    <2>1. \A k : Has(t, k)' <=> Has(t, k) BY <1>1, SaidSame
    <2>2. QED BY <1>1, <2>1 DEF Stands
<1>5. OtherRows(t) BY <1>1 DEF OtherRows
<1>6. QED BY <1>1, <1>2, <1>3, <1>4, <1>5, HandlerGoesOn

\* A handler that ends leaves its rows; a task may know of them, and an insert
\* may be under way.
LEMMA HandlerEnds ==
    ASSUME Inv, RoundsInv', handler' = Idle, handler.at # "idle",
           UNCHANGED <<rows, up>>,
           settling' = settling \/ Dropped,
           \/ late' = late
           \/ /\ handler.at \in DOMAIN Says
              /\ late' = late \cup {[turn |-> handler.turn, kind |-> Says[handler.at]]}
    PROVE  Inv'
<1>1. UNCHANGED <<turn, seen, said, version, made, up>> BY DEF rows
<1>2. PICK t \in Turns, mode \in Modes, at \in Places :
          t = handler.turn /\ mode = handler.mode /\ at = handler.at
      BY DEF Inv, HandlerOK, Types, Handler
<1>3. Stands(t, mode, at) /\ TurnOK(t) /\ Types /\ LeftOK BY <1>2 DEF Inv, HandlerOK
<1> DEFINE knows == mode = "edit" /\ at \notin Before
           task == [turn |-> t, observed |-> knows]
<1>4. knows \in BOOLEAN OBVIOUS
<1>5. ~knows => seen[t] = "none" BY <1>3 DEF Stands, TurnOK
<1>6. settling' \in {settling, settling \cup {task}} BY <1>2 DEF Dropped, Knows
<1> HIDE DEF knows
<1>7. task \in [turn : Turns, observed : BOOLEAN] /\ task.turn = t /\ task.observed = knows BY <1>4
<1> HIDE DEF task
<1>8. /\ settling' \in SUBSET [turn : Turns, observed : BOOLEAN]
      /\ \A s \in settling' : ~s.observed => seen'[s.turn] = "none"
      BY <1>1, <1>3, <1>5, <1>6, <1>7 DEF Types, LeftOK
<1>9. /\ late' \in SUBSET [turn : Turns, kind : Kinds]
      /\ \A m \in late' :
            /\ turn'[m.turn].status # "none" /\ seen'[m.turn] \in {"none", "error", "success"}
            /\ m.kind \in Unobserved
            /\ seen'[m.turn] = "error" => m.kind \in Bad
    <2>1. CASE late' = late BY <1>1, <1>3, <2>1 DEF Types, LeftOK
    <2>2. CASE at \in DOMAIN Says /\ late' = late \cup {[turn |-> t, kind |-> Says[at]]}
        <3> DEFINE m == [turn |-> t, kind |-> Says[at]]
        <3>1. at \in {"sayChat", "assigning", "sayError", "sayInterrupted"} BY <2>2 DEF Says
        <3>2. /\ Says[at] \in Kinds /\ Says[at] \in Unobserved
              /\ at \in {"sayError", "sayInterrupted"} => Says[at] \in Bad
              BY <3>1 DEF Says, Kinds, Unobserved, Bad
        <3>3. /\ turn[t].status # "none" /\ seen[t] \in {"none", "error", "success"}
              /\ seen[t] = "error" => at \in {"sayError", "sayInterrupted"}
              BY <1>3, <3>1 DEF Stands, Before
        <3>4. m \in [turn : Turns, kind : Kinds] /\ m.turn = t /\ m.kind = Says[at] BY <3>2
        <3> HIDE DEF m
        <3>5. late' = late \cup {m} BY <2>2 DEF m
        <3>6. QED BY <1>1, <1>3, <3>2, <3>3, <3>4, <3>5 DEF Types, LeftOK
    <2>3. QED BY <1>2, <2>1, <2>2
<1>10. handler' \in Handler
    <2>1. 0 \in 0 .. MaxTurns BY TurnsAssumption
    <2>2. QED BY <2>1 DEF Idle, Handler, Modes, Places
<1>11. handler'.at = "idle" BY DEF Idle
<1>12. Types' BY <1>1, <1>3, <1>8, <1>9, <1>10 DEF Types
<1>13. \A u \in Turns : TurnOK(u)' BY <1>1, TurnSame DEF Inv
<1>14. up = "up" BY DEF Inv, HandlerOK
<1>15. QED BY <1>1, <1>8, <1>9, <1>11, <1>12, <1>13, <1>14 DEF Inv, HandlerOK, LeftOK

-----------------------------------------------------------------------------
(* From the message to the dispatch, one lemma per action.                 *)

\* What is known of the handler whose step it is.
LEMMA Handling ==
    ASSUME Inv, handler.at # "idle"
    PROVE  \E t \in Turns, mode \in Modes, at \in Places :
               /\ t = handler.turn /\ mode = handler.mode /\ at = handler.at
               /\ Stands(t, mode, at) /\ TurnOK(t) /\ Types
BY DEF Inv, HandlerOK, Types, Handler

LEMMA RegisterKeeps ==
    ASSUME Inv, Register
    PROVE  Inv'
<1>1. PICK t \in Unused, mode \in Modes, explicit \in BOOLEAN :
          /\ handler' = [turn |-> t, mode |-> mode, told |-> FALSE, base |-> version,
                         at |-> IF explicit THEN "checking" ELSE "routing"]
          /\ IF explicit THEN UNCHANGED rounds ELSE StartSession("route")
      BY DEF Register
<1> DEFINE at == IF explicit THEN "checking" ELSE "routing"
<1>2. at \in Before /\ at \in Places BY DEF Before, Places
<1> HIDE DEF at
<1>3. handler' = [turn |-> t, mode |-> mode, told |-> FALSE, base |-> version, at |-> at]
      BY <1>1 DEF at
<1>4. /\ t \in Turns /\ turn[t].status = "none" /\ up = "up"
      /\ \A s \in settling : s.turn # t
      BY DEF Unused, Register
<1>5. UNCHANGED <<turn, seen, said, version, made, settling, late, up>>
      BY DEF Register, Store, Others, rows
<1>6. RoundsInv' BY <1>1, NothingHeld, RoundsStay DEF Inv
<1>7. handler' \in Handler
    <2>1. t \in 0 .. MaxTurns BY <1>4, TurnsAssumption DEF Turns
    <2>2. version \in Nat BY DEF Inv, Types
    <2>3. QED BY <1>2, <1>3, <2>1, <2>2 DEF Handler
<1>8. Types' BY <1>5, <1>7 DEF Inv, Types
<1>9. \A u \in Turns : TurnOK(u)' BY <1>5, TurnSame DEF Inv
<1>10. \A m \in late : m.turn # t BY <1>4 DEF Inv, LeftOK
<1>11. Stands(t, mode, at)'
    <2>1. seen[t] = "none" BY <1>4 DEF Inv, TurnOK
    <2>2. at \notin {"logging", "endChat", "recording", "endRun", "endError", "endInterrupted",
                     "sayChat", "requesting", "assigning"}
          /\ at \notin {"attaching", "dispatching", "asking", "identity", "logging", "compiling",
                     "applying", "clarifying", "failing", "endClarify", "sayError", "observe",
                     "sayInterrupted"}
          BY <1>2 DEF Before
    <2>3. QED BY <1>2, <1>4, <1>5, <2>1, <2>2 DEF Stands
<1>12. handler'.turn = t /\ handler'.mode = mode /\ handler'.at = at BY <1>3
<1>13. HandlerOK'
    <2>1. t \in Turns BY <1>4
    <2>2. \A s \in settling' : s.turn # t BY <1>4, <1>5
    <2>3. \A m \in late' : m.turn # t BY <1>5, <1>10
    <2>4. up' = "up" BY <1>4, <1>5
    <2>5. QED BY <1>11, <1>12, <2>1, <2>2, <2>3, <2>4 DEF HandlerOK
<1>14. LeftOK' BY <1>4, <1>5 DEF Inv, LeftOK
<1>15. QED BY <1>6, <1>8, <1>9, <1>13, <1>14 DEF Inv

\* A step of the handler that only moves on: to where it may stand already.
LEMMA StepMoves ==
    ASSUME Inv, RoundsInv', handler.at # "idle", NEW at \in Places, Goes(at),
           Store, settling' = settling, late' = late, up' = up,
           NEW t \in Turns, NEW mode \in Modes, t = handler.turn, mode = handler.mode,
           Stands(t, mode, at)
    PROVE  Inv'
<1>1. handler' \in Handler /\ handler'.at = at /\ handler'.turn = t /\ handler'.mode = mode
      BY GoesDoes DEF Inv
<1>2. UNCHANGED rows BY DEF Store
<1>3. QED BY <1>1, <1>2, HandlerMoves

LEMMA RoutedKeeps ==
    ASSUME Inv, Routed
    PROVE  Inv'
<1>1. handler.at = "routing" BY DEF Routed
<1>2. PICK t \in Turns, mode \in Modes :
          t = handler.turn /\ mode = handler.mode /\ Stands(t, mode, "routing") /\ TurnOK(t)
      BY <1>1, Handling
<1>3. Stands(t, mode, "rechecking") BY <1>2 DEF Stands, Before
<1>4. RoundsInv' BY NothingHeld DEF Routed
<1>5. "rechecking" \in Places BY DEF Places, Before
<1>6. QED BY <1>1, <1>2, <1>3, <1>4, <1>5, StepMoves DEF Routed, Others

LEMMA GoneIs ==
    ASSUME Gone
    PROVE  handler' = Idle /\ RoundsInv'
BY NothingHeld DEF Gone

LEMMA RouteFailsKeeps ==
    ASSUME Inv, RouteFails
    PROVE  Inv'
<1>1. QED BY GoneIs, HandlerEnds DEF RouteFails, Store, Others

LEMMA RefusesKeeps ==
    ASSUME Inv, Refuses
    PROVE  Inv'
<1>1. QED BY GoneIs, HandlerEnds DEF Refuses, Store, Others

LEMMA CheckedKeeps ==
    ASSUME Inv, Checked
    PROVE  Inv'
<1>1. handler.at \in {"checking", "rechecking"} BY DEF Checked
<1>2. PICK t \in Turns, mode \in Modes :
          t = handler.turn /\ mode = handler.mode /\ TurnOK(t)
          /\ (Stands(t, mode, "checking") \/ Stands(t, mode, "rechecking"))
      BY <1>1, Handling
<1>3. Stands(t, mode, "starting") BY <1>2 DEF Stands, Before
<1>4. RoundsInv' BY RoundsStay DEF Checked, Inv
<1>5. "starting" \in Places BY DEF Places, Before
<1>6. QED BY <1>1, <1>2, <1>3, <1>4, <1>5, StepMoves DEF Checked, Others

LEMMA StartTurnKeeps ==
    ASSUME Inv, StartTurn
    PROVE  Inv'
<1>1. handler.at = "starting" BY DEF StartTurn
<1>2. PICK t \in Turns, mode \in Modes :
          t = handler.turn /\ mode = handler.mode /\ Stands(t, mode, "starting") /\ TurnOK(t)
      BY <1>1, Handling
<1>3. /\ turn' \in [Turns -> [status : Statuses, reason : Reasons]]
      /\ turn'[t] = [status |-> "running", reason |-> "none"]
      /\ \A u \in Turns \ {t} : turn'[u] = turn[u]
    <2>1. "running" \in Statuses /\ "none" \in Reasons BY DEF Statuses, Reasons
    <2>2. Finalize(t, "running", "none") BY <1>2 DEF StartTurn
    <2>3. QED BY <2>1, <2>2, FinalizeDoes DEF Inv
<1>4. UNCHANGED <<rounds, seen, said, version, made, settling, late, up>>
      BY DEF StartTurn, Others
<1>5. "recording" \in Places BY DEF Places, Preparing
<1>6. handler' \in Handler /\ handler'.at = "recording" /\ handler'.turn = t /\ handler'.mode = mode
      BY <1>2, <1>5, GoesDoes DEF Inv, StartTurn
<1>7. Types' BY <1>3, <1>4, <1>6 DEF Inv, Types
<1>8. seen[t] = "none" /\ said[t] = <<>> /\ made[t] = 0
    <2>1. turn[t].status = "none" BY <1>2 DEF Stands, Before
    <2>2. QED BY <1>2, <2>1 DEF TurnOK
<1>9. turn'[t].status = "running" BY <1>3
<1>10. TurnOK(t)'
    <2>1. Only(t, Unobserved)' BY <1>4, <1>8, Silence, SaidSame
    <2>2. ~Ended(t)' BY <1>9 DEF Ended
    <2>3. QED BY <1>4, <1>8, <1>9, <2>1, <2>2 DEF TurnOK
<1>11. Stands(t, mode, "recording")' BY <1>4, <1>8, <1>9 DEF Stands, Before
<1>12. RoundsInv' BY <1>4, RoundsStay DEF Inv
<1>13. OtherRows(t) BY <1>3, <1>4 DEF OtherRows
<1>14. QED BY <1>1, <1>2, <1>4, <1>6, <1>7, <1>10, <1>11, <1>12, <1>13, HandlerGoesOn

LEMMA RecordKeeps ==
    ASSUME Inv, Record
    PROVE  Inv'
<1>1. handler.at = "recording" BY DEF Record
<1>2. PICK t \in Turns, mode \in Modes :
          t = handler.turn /\ mode = handler.mode /\ Stands(t, mode, "recording") /\ TurnOK(t)
      BY <1>1, Handling
<1>3. UNCHANGED <<rounds, turn, said, version, made, settling, late, up>>
      BY DEF Record, Others
<1>4. "attaching" \in Places BY DEF Places, Preparing
<1>5. handler' \in Handler /\ handler'.at = "attaching" /\ handler'.turn = t /\ handler'.mode = mode
      BY <1>2, <1>4, GoesDoes DEF Inv, Record
<1>6. CASE mode # "edit"
    <2>1. UNCHANGED rows BY <1>2, <1>3, <1>6 DEF Record, rows
    <2>2. Stands(t, mode, "attaching") BY <1>2, <1>6 DEF Stands, Before
    <2>3. RoundsInv' BY <1>3, RoundsStay DEF Inv
    <2>4. QED BY <1>1, <1>2, <1>3, <1>4, <1>5, <2>1, <2>2, <2>3, HandlerMoves
<1>7. CASE mode = "edit"
    <2>1. /\ seen' \in [Turns -> Outcomes] /\ seen'[t] = "started"
          /\ \A u \in Turns \ {t} : seen'[u] = seen[u]
        <3>1. "started" \in Outcomes BY DEF Outcomes
        <3>2. Observe(t, "started") BY <1>2, <1>7 DEF Record
        <3>3. QED BY <3>1, <3>2, ObserveDoes DEF Inv
    <2>2. Types' BY <1>3, <1>5, <2>1 DEF Inv, Types
    <2>3. seen[t] = "none" /\ said[t] = <<>> /\ turn[t].status # "none"
          BY <1>2, <1>7 DEF Stands, Before
    <2>4. TurnOK(t)'
        <3>1. Only(t, Bad)' BY <1>3, <2>3, Silence, SaidSame
        <3>2. turn[t].status = "running" BY <1>2, <1>7 DEF Stands
        <3>3. ~Ended(t)' BY <1>3, <3>2 DEF Ended
        <3>4. made[t] = 0 BY <1>2, <2>3 DEF TurnOK
        <3>5. QED BY <1>3, <2>1, <2>3, <3>2, <3>3, <3>4 DEF TurnOK
    <2>5. Stands(t, mode, "attaching")'
          BY <1>3, <1>7, <2>1, <2>3 DEF Stands, Before
    <2>6. RoundsInv' BY <1>3, RoundsStay DEF Inv
    <2>7. OtherRows(t) BY <1>3, <2>1 DEF OtherRows
    <2>8. QED BY <1>1, <1>2, <1>3, <1>5, <2>2, <2>4, <2>5, <2>6, <2>7, HandlerGoesOn
<1>8. QED BY <1>6, <1>7

LEMMA AttachKeeps ==
    ASSUME Inv, Attach
    PROVE  Inv'
<1>1. handler.at = "attaching" BY DEF Attach
<1>2. PICK t \in Turns, mode \in Modes :
          t = handler.turn /\ mode = handler.mode /\ Stands(t, mode, "attaching")
      BY <1>1, Handling
<1>3. Stands(t, mode, "dispatching") BY <1>2 DEF Stands, Before
<1>4. RoundsInv' BY RoundsStay DEF Attach, Inv
<1>5. "dispatching" \in Places BY DEF Places, Dispatched
<1>6. QED BY <1>1, <1>2, <1>3, <1>4, <1>5, StepMoves DEF Attach, Others

LEMMA DispatchKeeps ==
    ASSUME Inv, Dispatch
    PROVE  Inv'
<1>1. handler.at = "dispatching" BY DEF Dispatch
<1>2. PICK t \in Turns, mode \in Modes :
          t = handler.turn /\ mode = handler.mode /\ Stands(t, mode, "dispatching")
      BY <1>1, Handling
<1>3. "requesting" \in Places /\ "asking" \in Places BY DEF Places, Dispatched
<1>4. CASE mode = "run"
    <2>1. Goes("requesting") /\ UNCHANGED rounds BY <1>2, <1>4 DEF Dispatch
    <2>2. Stands(t, mode, "requesting") BY <1>2, <1>4 DEF Stands, Before
    <2>3. RoundsInv' BY <2>1, RoundsStay DEF Inv
    <2>4. QED BY <1>1, <1>2, <1>3, <2>1, <2>2, <2>3, StepMoves DEF Dispatch, Others
<1>5. CASE mode # "run"
    <2>1. Goes("asking") /\ (StartSession("reply") \/ StartSession("edit"))
          BY <1>2, <1>5 DEF Dispatch, Modes
    <2>2. Stands(t, mode, "asking") BY <1>2, <1>5 DEF Stands, Before
    <2>3. RoundsInv' BY <2>1, NothingHeld
    <2>4. QED BY <1>1, <1>2, <1>3, <2>1, <2>2, <2>3, StepMoves DEF Dispatch, Others
<1>6. QED BY <1>4, <1>5

\* Where an error leads: an edit ends its observation first.
LEMMA OnErrorMoves ==
    ASSUME Inv, RoundsInv', OnError, Store, settling' = settling, late' = late, up' = up,
           handler.at \in {"asking", "identity", "logging", "applying"}
    PROVE  Inv'
<1>1. PICK t \in Turns, mode \in Modes, at \in Places :
          t = handler.turn /\ mode = handler.mode /\ at = handler.at /\ Stands(t, mode, at)
      BY Handling
<1>2. at \in {"asking", "identity", "logging", "applying"} BY <1>1
<1>3. "failing" \in Places /\ "sayError" \in Places BY DEF Places, Dispatched
<1>4. CASE mode = "edit"
    <2>1. Goes("failing") BY <1>1, <1>4 DEF OnError
    <2>2. Stands(t, mode, "failing") BY <1>1, <1>2, <1>4 DEF Stands, Before
    <2>3. QED BY <1>1, <1>2, <1>3, <2>1, <2>2, StepMoves
<1>5. CASE mode # "edit"
    <2>1. Goes("sayError") BY <1>1, <1>5 DEF OnError
    <2>2. Stands(t, mode, "sayError") BY <1>1, <1>2, <1>5 DEF Stands, Before
    <2>3. QED BY <1>1, <1>2, <1>3, <2>1, <2>2, StepMoves
<1>6. QED BY <1>4, <1>5

LEMMA AnsweredKeeps ==
    ASSUME Inv, Answered
    PROVE  Inv'
<1>1. handler.at = "asking" BY DEF Answered
<1>2. PICK t \in Turns, mode \in Modes :
          t = handler.turn /\ mode = handler.mode /\ Stands(t, mode, "asking")
      BY <1>1, Handling
<1>3. RoundsInv' BY NothingHeld DEF Answered
<1>4. CASE Goes("identity")
    <2>1. "identity" \in Places BY DEF Places, Dispatched
    <2>2. Stands(t, mode, "identity") BY <1>2 DEF Stands, Before
    <2>3. QED BY <1>1, <1>2, <1>3, <1>4, <2>1, <2>2, StepMoves DEF Answered, Others
<1>5. CASE OnError
      BY <1>1, <1>3, <1>5, OnErrorMoves DEF Answered, Others
<1>6. QED BY <1>4, <1>5 DEF Answered

LEMMA PersistIdentityKeeps ==
    ASSUME Inv, PersistIdentity
    PROVE  Inv'
<1>1. handler.at = "identity" BY DEF PersistIdentity
<1>2. PICK t \in Turns, mode \in Modes :
          t = handler.turn /\ mode = handler.mode /\ Stands(t, mode, "identity")
      BY <1>1, Handling
<1>3. RoundsInv' BY RoundsStay DEF PersistIdentity, Inv
<1> DEFINE at == IF mode = "edit" THEN "logging" ELSE "sayChat"
<1>4. CASE Goes(at)
    <2>1. at \in Places BY DEF Places, Dispatched
    <2>2. Stands(t, mode, at) BY <1>2 DEF Stands, Before
    <2> HIDE DEF at
    <2>3. QED BY <1>1, <1>2, <1>3, <1>4, <2>1, <2>2, StepMoves DEF PersistIdentity, Others
<1>5. CASE OnError
      BY <1>1, <1>3, <1>5, OnErrorMoves DEF PersistIdentity, Others
<1>6. QED BY <1>2, <1>4, <1>5 DEF PersistIdentity

LEMMA PersistLogsKeeps ==
    ASSUME Inv, PersistLogs
    PROVE  Inv'
<1>1. handler.at = "logging" BY DEF PersistLogs
<1>2. PICK t \in Turns, mode \in Modes :
          t = handler.turn /\ mode = handler.mode /\ Stands(t, mode, "logging")
      BY <1>1, Handling
<1>3. RoundsInv' BY RoundsStay DEF PersistLogs, Inv
<1> DEFINE at == IF mode = "edit" THEN "compiling" ELSE "endChat"
<1>4. Goes(at) BY <1>2 DEF PersistLogs
<1>5. at \in Places BY DEF Places, Dispatched
<1>6. Stands(t, mode, at) BY <1>2 DEF Stands, Before
<1> HIDE DEF at
<1>7. QED BY <1>1, <1>2, <1>3, <1>4, <1>5, <1>6, StepMoves DEF PersistLogs, Others

LEMMA RequestRunKeeps ==
    ASSUME Inv, RequestRun
    PROVE  Inv'
<1>1. handler.at = "requesting" BY DEF RequestRun
<1>2. PICK t \in Turns, mode \in Modes :
          t = handler.turn /\ mode = handler.mode /\ Stands(t, mode, "requesting")
      BY <1>1, Handling
<1>3. RoundsInv' BY RoundsStay DEF RequestRun, Inv
<1>4. PICK at \in {"assigning", "sayError"} : Goes(at) BY DEF RequestRun
<1>5. at \in Places BY DEF Places, Dispatched
<1>6. Stands(t, mode, at) BY <1>2 DEF Stands, Before
<1>7. QED BY <1>1, <1>2, <1>3, <1>4, <1>5, <1>6, StepMoves DEF RequestRun, Others

LEMMA CompileKeeps ==
    ASSUME Inv, Compile
    PROVE  Inv'
<1>1. handler.at = "compiling" BY DEF Compile
<1>2. PICK t \in Turns, mode \in Modes :
          t = handler.turn /\ mode = handler.mode /\ Stands(t, mode, "compiling")
      BY <1>1, Handling
<1>3. RoundsInv' BY RoundsStay DEF Compile, Inv
<1>4. PICK at \in {"applying", "clarifying", "failing"} : Goes(at) BY DEF Compile
<1>5. at \in Places BY DEF Places, Dispatched
<1>6. Stands(t, mode, at) BY <1>2 DEF Stands, Before
<1>7. QED BY <1>1, <1>2, <1>3, <1>4, <1>5, <1>6, StepMoves DEF Compile, Others

LEMMA ApplyRefusedKeeps ==
    ASSUME Inv, ApplyRefused
    PROVE  Inv'
<1>1. handler.at = "applying" BY DEF ApplyRefused
<1>2. PICK t \in Turns, mode \in Modes :
          t = handler.turn /\ mode = handler.mode /\ Stands(t, mode, "applying")
      BY <1>1, Handling
<1>3. RoundsInv' BY RoundsStay DEF ApplyRefused, Inv
<1>4. "failing" \in Places BY DEF Places, Dispatched
<1>5. Stands(t, mode, "failing") BY <1>2 DEF Stands, Before
<1>6. QED BY <1>1, <1>2, <1>3, <1>4, <1>5, StepMoves DEF ApplyRefused, Others

-----------------------------------------------------------------------------
(* The dispatched part: what it says, observes and ends.                   *)

\* A handler that says something says what fits its observation.
LEMMA HandlerSays ==
    ASSUME Inv, NEW at, NEW kind, NEW next, handler.at = at,
           \/ at = "sayChat" /\ kind = "chat" /\ next = "logging"
           \/ at = "assigning" /\ kind = "run" /\ next = "endRun"
           \/ at = "sayError" /\ kind = "error" /\ next = "endError"
           \/ at = "sayInterrupted" /\ kind = "interrupted" /\ next = "endInterrupted",
           Say(handler.turn, kind), Goes(next),
           Others, UNCHANGED <<rounds, turn, seen, version, made>>
    PROVE  Inv'
<1>1. handler.at # "idle" OBVIOUS
<1>2. PICK t \in Turns, mode \in Modes :
          t = handler.turn /\ mode = handler.mode /\ Stands(t, mode, at) /\ TurnOK(t)
      BY <1>1, Handling
<1>3. kind \in Kinds /\ kind \in Unobserved BY DEF Kinds, Unobserved, Bad
<1>4. /\ said' \in [Turns -> Seq(Kinds)]
      /\ said'[t] # <<>>
      /\ Has(t, kind)'
      /\ \A k : Has(t, k) => Has(t, k)'
      /\ \A kinds : kind \in kinds /\ Only(t, kinds) => Only(t, kinds)'
      /\ \A u \in Turns \ {t} : said'[u] = said[u]
      BY <1>2, <1>3, SayDoes DEF Inv
<1>5. UNCHANGED <<turn, seen, version, made, settling, late, up>> BY DEF Others
<1>6. next \in Places BY DEF Places, Dispatched, Interrupting
<1>7. handler' \in Handler /\ handler'.at = next /\ handler'.turn = t /\ handler'.mode = mode
      BY <1>2, <1>6, GoesDoes DEF Inv
<1>8. Types' BY <1>4, <1>5, <1>7 DEF Inv, Types
<1>9. /\ turn[t].status # "none" /\ seen[t] \in {"none", "error", "success"}
      /\ seen[t] = "error" => kind \in Bad
      BY <1>2 DEF Stands, Before, Bad
<1>10. TurnOK(t)'
    <2>1. Ended(t)' <=> Ended(t) BY <1>5 DEF Ended
    <2>2. SaysWhy(t) => SaysWhy(t)' BY <1>4, <1>5 DEF SaysWhy, Fitting
    <2>3. seen[t] = "error" => Only(t, Bad)' BY <1>2, <1>4, <1>9 DEF TurnOK
    <2>4. seen[t] = "none" => Only(t, Unobserved)' BY <1>2, <1>3, <1>4 DEF TurnOK
    <2>5. QED BY <1>2, <1>5, <1>9, <2>1, <2>2, <2>3, <2>4 DEF TurnOK
<1>11. Stands(t, mode, next)' BY <1>2, <1>4, <1>5, <1>9 DEF Stands, Before
<1>12. RoundsInv' BY RoundsStay DEF Inv
<1>13. OtherRows(t) BY <1>4, <1>5 DEF OtherRows
<1>14. QED BY <1>1, <1>2, <1>5, <1>7, <1>8, <1>10, <1>11, <1>12, <1>13, HandlerGoesOn

LEMMA SayKeeps ==
    ASSUME Inv, SayChat \/ AssignMessage \/ SayError \/ SayInterrupted
    PROVE  Inv'
<1>1. CASE SayChat BY <1>1, HandlerSays DEF SayChat
<1>2. CASE AssignMessage BY <1>2, HandlerSays DEF AssignMessage
<1>3. CASE SayError BY <1>3, HandlerSays DEF SayError
<1>4. CASE SayInterrupted BY <1>4, HandlerSays DEF SayInterrupted
<1>5. QED BY <1>1, <1>2, <1>3, <1>4

LEMMA ApplyKeeps ==
    ASSUME Inv, Apply
    PROVE  Inv'
<1>1. handler.at = "applying" BY DEF Apply
<1>2. PICK t \in Turns, mode \in Modes :
          t = handler.turn /\ mode = handler.mode /\ Stands(t, mode, "applying") /\ TurnOK(t)
      BY <1>1, Handling
<1>3. /\ turn' \in [Turns -> [status : Statuses, reason : Reasons]]
      /\ turn'[t] = [status |-> "succeeded", reason |-> "none"]
      /\ \A u \in Turns \ {t} : turn'[u] = turn[u]
    <2>1. "succeeded" \in Statuses /\ "none" \in Reasons BY DEF Statuses, Reasons
    <2>2. Finalize(t, "succeeded", "none") BY <1>2 DEF Apply
    <2>3. QED BY <2>1, <2>2, FinalizeDoes DEF Inv
<1>4. /\ seen' \in [Turns -> Outcomes] /\ seen'[t] = "success"
      /\ \A u \in Turns \ {t} : seen'[u] = seen[u]
    <2>1. "success" \in Outcomes BY DEF Outcomes
    <2>2. Observe(t, "success") BY <1>2 DEF Apply
    <2>3. QED BY <2>1, <2>2, ObserveDoes DEF Inv
<1>5. /\ said' \in [Turns -> Seq(Kinds)] /\ Has(t, "applied")'
      /\ \A u \in Turns \ {t} : said'[u] = said[u]
    <2>1. "applied" \in Kinds BY DEF Kinds
    <2>2. Say(t, "applied") BY <1>2 DEF Apply
    <2>3. QED BY <2>1, <2>2, SayDoes DEF Inv
<1>6. /\ version' \in Nat /\ made' \in [Turns -> Nat] /\ made'[t] # 0
      /\ \A u \in Turns \ {t} : made'[u] = made[u]
    <2>1. version \in Nat /\ made \in [Turns -> Nat] BY DEF Inv, Types
    <2>2. version' = version + 1 /\ made' = [made EXCEPT ![t] = version + 1]
          BY <1>2 DEF Apply
    <2>3. QED BY <2>1, <2>2
<1>7. UNCHANGED <<rounds, settling, late, up>> BY DEF Apply, Others
<1>8. "replying" \in Places BY DEF Places, Dispatched
<1>9. handler' \in Handler /\ handler'.at = "replying" /\ handler'.turn = t /\ handler'.mode = mode
      BY <1>2, <1>8, GoesDoes DEF Inv, Apply
<1>10. Types' BY <1>3, <1>4, <1>5, <1>6, <1>7, <1>9 DEF Inv, Types
<1>11. turn'[t].status = "succeeded" BY <1>3
<1>12. TurnOK(t)'
    <2>1. SaysWhy(t)' BY <1>5, <1>11, FittingIs DEF SaysWhy
    <2>2. QED BY <1>4, <1>6, <1>11, <2>1 DEF TurnOK
<1>13. mode = "edit" BY <1>2 DEF Stands
<1>14. Stands(t, mode, "replying")' BY <1>11, <1>13 DEF Stands, Before
<1>15. RoundsInv' BY <1>7, RoundsStay DEF Inv
<1>16. OtherRows(t) BY <1>3, <1>4, <1>5, <1>6 DEF OtherRows
<1>17. QED BY <1>1, <1>2, <1>7, <1>9, <1>10, <1>12, <1>14, <1>15, <1>16, HandlerGoesOn

LEMMA ClarifyKeeps ==
    ASSUME Inv, Clarify
    PROVE  Inv'
<1>1. handler.at = "clarifying" BY DEF Clarify
<1>2. PICK t \in Turns, mode \in Modes :
          t = handler.turn /\ mode = handler.mode /\ Stands(t, mode, "clarifying") /\ TurnOK(t)
      BY <1>1, Handling
<1>3. /\ seen' \in [Turns -> Outcomes] /\ seen'[t] = "clarify"
      /\ \A u \in Turns \ {t} : seen'[u] = seen[u]
    <2>1. "clarify" \in Outcomes BY DEF Outcomes
    <2>2. Observe(t, "clarify") BY <1>2 DEF Clarify
    <2>3. QED BY <2>1, <2>2, ObserveDoes DEF Inv
<1>4. /\ said' \in [Turns -> Seq(Kinds)] /\ Has(t, "clarify")'
      /\ \A u \in Turns \ {t} : said'[u] = said[u]
    <2>1. "clarify" \in Kinds BY DEF Kinds
    <2>2. Say(t, "clarify") BY <1>2 DEF Clarify
    <2>3. QED BY <2>1, <2>2, SayDoes DEF Inv
<1>5. UNCHANGED <<rounds, turn, version, made, settling, late, up>> BY DEF Clarify, Others
<1>6. "endClarify" \in Places BY DEF Places, Dispatched
<1>7. handler' \in Handler /\ handler'.at = "endClarify" /\ handler'.turn = t
      /\ handler'.mode = mode
      BY <1>2, <1>6, GoesDoes DEF Inv, Clarify
<1>8. Types' BY <1>3, <1>4, <1>5, <1>7 DEF Inv, Types
<1>9. mode = "edit" /\ seen[t] = "started" /\ turn[t].status # "none" /\ up = "up"
      BY <1>1, <1>2 DEF Stands, Before, Inv, HandlerOK
<1>10. ~Ended(t)' /\ turn'[t].status = turn[t].status
       BY <1>2, <1>5, <1>9 DEF TurnOK, Ended
<1>11. TurnOK(t)'
       BY <1>2, <1>3, <1>4, <1>5, <1>9, <1>10 DEF TurnOK
<1>12. Stands(t, mode, "endClarify")' BY <1>3, <1>5, <1>9 DEF Stands, Before
<1>13. RoundsInv' BY <1>5, RoundsStay DEF Inv
<1>14. OtherRows(t) BY <1>3, <1>4, <1>5 DEF OtherRows
<1>15. QED BY <1>1, <1>2, <1>5, <1>7, <1>8, <1>11, <1>12, <1>13, <1>14, HandlerGoesOn

\* finalize_agent_contract_error, on the way of an error and of an interrupt.
LEMMA ObserveErrorKeeps ==
    ASSUME Inv, FailObservation \/ ObserveInterrupt
    PROVE  Inv'
<1>0. PICK at \in {"failing", "observe"}, next \in {"sayError", "sayInterrupted"} :
          /\ handler.at = at
          /\ \/ at = "failing" /\ next = "sayError"
             \/ at = "observe" /\ next = "sayInterrupted"
          /\ seen[handler.turn] = "success" =>
                Goes(next) /\ Others /\ Store /\ UNCHANGED rounds
          /\ seen[handler.turn] = "started" =>
                Observe(handler.turn, "error") /\ Goes(next) /\ Others
                /\ UNCHANGED <<rounds, turn, said, version, made>>
          /\ seen[handler.turn] \notin {"success", "started"} => GivesUp /\ Store
    <2>1. CASE FailObservation
        <3>1. handler.at = "failing" BY <2>1 DEF FailObservation
        <3>2. seen[handler.turn] = "success" =>
                  Goes("sayError") /\ Others /\ Store /\ UNCHANGED rounds
              BY <2>1 DEF FailObservation, ObserveError
        <3>3. seen[handler.turn] = "started" =>
                  Observe(handler.turn, "error") /\ Goes("sayError") /\ Others
                  /\ UNCHANGED <<rounds, turn, said, version, made>>
              BY <2>1 DEF FailObservation, ObserveError
        <3>4. seen[handler.turn] \notin {"success", "started"} => GivesUp /\ Store
              BY <2>1 DEF FailObservation, ObserveError
        <3> WITNESS "failing" \in {"failing", "observe"},
                    "sayError" \in {"sayError", "sayInterrupted"}
        <3>5. QED BY <3>1, <3>2, <3>3, <3>4
    <2>2. CASE ObserveInterrupt
        <3>1. handler.at = "observe" BY <2>2 DEF ObserveInterrupt
        <3>2. seen[handler.turn] = "success" =>
                  Goes("sayInterrupted") /\ Others /\ Store /\ UNCHANGED rounds
              BY <2>2 DEF ObserveInterrupt, ObserveError
        <3>3. seen[handler.turn] = "started" =>
                  Observe(handler.turn, "error") /\ Goes("sayInterrupted") /\ Others
                  /\ UNCHANGED <<rounds, turn, said, version, made>>
              BY <2>2 DEF ObserveInterrupt, ObserveError
        <3>4. seen[handler.turn] \notin {"success", "started"} => GivesUp /\ Store
              BY <2>2 DEF ObserveInterrupt, ObserveError
        <3> WITNESS "observe" \in {"failing", "observe"},
                    "sayInterrupted" \in {"sayError", "sayInterrupted"}
        <3>5. QED BY <3>1, <3>2, <3>3, <3>4
    <2>3. QED BY <2>1, <2>2
<1>1. handler.at # "idle" /\ next \in Places BY <1>0 DEF Places, Dispatched, Interrupting
<1>2. PICK t \in Turns, mode \in Modes :
          t = handler.turn /\ mode = handler.mode /\ Stands(t, mode, at) /\ TurnOK(t)
      BY <1>0, <1>1, Handling
<1>3. mode = "edit" /\ turn[t].status # "none" /\ up = "up"
      BY <1>0, <1>1, <1>2 DEF Stands, Before, Inv, HandlerOK
<1>4. CASE seen[t] = "success"
    <2>1. Goes(next) /\ Others /\ Store /\ UNCHANGED rounds
          BY <1>0, <1>2, <1>4
    <2>2. Stands(t, mode, next) BY <1>0, <1>3, <1>4 DEF Stands, Before
    <2>3. RoundsInv' BY <2>1, RoundsStay DEF Inv
    <2>4. QED BY <1>1, <1>2, <2>1, <2>2, <2>3, StepMoves DEF Others
<1>5. CASE seen[t] = "started"
    <2>1. /\ Observe(t, "error") /\ Goes(next) /\ Others
          /\ UNCHANGED <<rounds, turn, said, version, made>>
          BY <1>0, <1>2, <1>5
    <2>2. /\ seen' \in [Turns -> Outcomes] /\ seen'[t] = "error"
          /\ \A u \in Turns \ {t} : seen'[u] = seen[u]
        <3>1. "error" \in Outcomes BY DEF Outcomes
        <3>2. QED BY <2>1, <3>1, ObserveDoes DEF Inv
    <2>3. UNCHANGED <<turn, said, version, made, settling, late, up>> BY <2>1 DEF Others
    <2>4. handler' \in Handler /\ handler'.at = next /\ handler'.turn = t /\ handler'.mode = mode
          BY <1>1, <1>2, <2>1, GoesDoes DEF Inv
    <2>5. Types' BY <2>2, <2>3, <2>4 DEF Inv, Types
    <2>6. TurnOK(t)'
        <3>1. said[t] = <<>> /\ made[t] = 0 BY <1>2, <1>5, <2>5 DEF TurnOK, Inv, Types
        <3>2. Only(t, Bad)' BY <2>3, <3>1, Silence, SaidSame
        <3>3. ~Ended(t)' BY <1>2, <1>3, <1>5, <2>3 DEF TurnOK, Ended
        <3>4. turn'[t].status = turn[t].status BY <2>3
        <3>5. QED BY <1>2, <1>3, <1>5, <2>2, <2>3, <3>1, <3>2, <3>3, <3>4 DEF TurnOK
    <2>7. Stands(t, mode, next)' BY <1>0, <1>3, <2>2, <2>3 DEF Stands, Before
    <2>8. RoundsInv' BY <2>1, RoundsStay DEF Inv
    <2>9. OtherRows(t) BY <2>2, <2>3 DEF OtherRows
    <2>10. QED BY <1>1, <1>2, <2>3, <2>4, <2>5, <2>6, <2>7, <2>8, <2>9, HandlerGoesOn
<1>6. CASE seen[t] \notin {"success", "started"}
    <2>1. GivesUp /\ Store BY <1>0, <1>2, <1>6
    <2>2. QED BY <1>1, <2>1, GoneIs, HandlerEnds DEF GivesUp, Store
<1>7. QED BY <1>4, <1>5, <1>6

\* finalize_agent_turn: the end fits what was observed and said.
LEMMA EndTurnKeeps ==
    ASSUME Inv, EndTurn
    PROVE  Inv'
<1>1. handler.at \in {"endChat", "endRun", "endClarify", "endError", "endInterrupted"}
      BY DEF EndTurn, Finals
<1>2. PICK t \in Turns, mode \in Modes, at \in Places :
          t = handler.turn /\ mode = handler.mode /\ at = handler.at
          /\ Stands(t, mode, at) /\ TurnOK(t)
      BY <1>1, Handling
<1>3. CASE Running(t)
    <2> DEFINE status == Finals[at]
    <2>1. /\ Finalize(t, status, "other") /\ Goes("replying") /\ Others
          /\ UNCHANGED <<rounds, seen, said, version, made>>
          BY <1>2, <1>3 DEF EndTurn
    <2>2. /\ at \in {"endChat", "endRun"} => status = "succeeded"
          /\ at = "endClarify" => status = "clarify"
          /\ at = "endError" => status = "error"
          /\ at = "endInterrupted" => status = "interrupted"
          BY DEF Finals
    <2> HIDE DEF status
    <2>3. /\ turn' \in [Turns -> [status : Statuses, reason : Reasons]]
          /\ turn'[t] = [status |-> status, reason |-> "other"]
          /\ \A u \in Turns \ {t} : turn'[u] = turn[u]
        <3>1. status \in Statuses /\ "other" \in Reasons
              BY <1>1, <1>2, <2>2 DEF Statuses, Reasons
        <3>2. QED BY <2>1, <3>1, FinalizeDoes DEF Inv
    <2>4. UNCHANGED <<seen, said, version, made, settling, late, up>> BY <2>1 DEF Others
    <2>5. "replying" \in Places BY DEF Places, Dispatched
    <2>6. handler' \in Handler /\ handler'.at = "replying" /\ handler'.turn = t
          /\ handler'.mode = mode
          BY <1>2, <2>1, <2>5, GoesDoes DEF Inv
    <2>7. Types' BY <2>3, <2>4, <2>6 DEF Inv, Types
    <2>8. turn'[t].status = status BY <2>3
    <2>9. turn[t].status = "running" /\ up = "up"
          BY <1>1, <1>3 DEF Running, Inv, HandlerOK
    <2>10. \A k : Has(t, k)' <=> Has(t, k) BY <2>4, SaidSame
    <2>11. SaysWhy(t)'
        <3>1. CASE at = "endChat"
            <4>1. Has(t, "chat") BY <1>2, <3>1 DEF Stands
            <4>2. QED BY <2>2, <2>8, <2>10, <3>1, <4>1, FittingIs DEF SaysWhy
        <3>2. CASE at = "endRun"
            <4>1. Has(t, "run") BY <1>2, <3>2 DEF Stands
            <4>2. QED BY <2>2, <2>8, <2>10, <3>2, <4>1, FittingIs DEF SaysWhy
        <3>3. CASE at = "endClarify"
            <4>1. Has(t, "clarify") BY <1>2, <3>3 DEF Stands, TurnOK
            <4>2. QED BY <2>2, <2>8, <2>10, <3>3, <4>1, FittingIs DEF SaysWhy
        <3>4. CASE at = "endError"
            <4>1. Has(t, "error") BY <1>2, <3>4 DEF Stands
            <4>2. QED BY <2>2, <2>8, <2>10, <3>4, <4>1, FittingIs DEF SaysWhy, Bad
        <3>5. CASE at = "endInterrupted"
            <4>1. Has(t, "interrupted") BY <1>2, <3>5 DEF Stands
            <4>2. QED BY <2>2, <2>8, <2>10, <3>5, <4>1, FittingIs DEF SaysWhy, Bad
        <3>6. QED BY <1>1, <1>2, <3>1, <3>2, <3>3, <3>4, <3>5
    <2>12. /\ seen[t] # "success"
           /\ seen[t] # "none" => mode = "edit"
           /\ mode = "edit" => at \in {"endClarify", "endError", "endInterrupted"}
           /\ seen[t] # "none" /\ at = "endClarify" => seen[t] = "clarify"
           /\ at = "endClarify" => seen[t] = "clarify"
           /\ mode = "edit" /\ at # "endClarify" => seen[t] = "error"
        <3>1. seen[t] # "success" BY <1>2, <2>9 DEF TurnOK
        <3>2. QED BY <1>1, <1>2, <3>1 DEF Stands
    <2>13. TurnOK(t)'
        <3>1. /\ Only(t, Bad)' <=> Only(t, Bad)
              /\ Only(t, Unobserved)' <=> Only(t, Unobserved)
              BY <2>4, SaidSame DEF Bad, Unobserved
        <3>2. status \in {"succeeded", "clarify", "error", "interrupted"}
              BY <1>1, <1>2, <2>2
        <3>3. /\ status = "succeeded" => seen[t] = "none"
              /\ status = "clarify" <=> at = "endClarify"
              BY <1>1, <1>2, <2>2, <2>12
        <3>4. /\ seen[t] \in {"none", "clarify", "error"}
              /\ seen[t] = "clarify" <=> status = "clarify"
              BY <1>1, <1>2, <2>12, <3>3 DEF Stands
        <3>5. QED BY <1>2, <2>4, <2>8, <2>10, <2>11, <3>1, <3>2, <3>3, <3>4 DEF TurnOK
    <2>14. Stands(t, mode, "replying")'
        <3>1. turn'[t].status # "none" BY <1>1, <1>2, <2>2, <2>8
        <3>2. mode # "edit" => seen'[t] = "none" BY <1>2, <2>4 DEF Stands
        <3>3. QED BY <3>1, <3>2 DEF Stands, Before
    <2>15. RoundsInv' BY <2>1, RoundsStay DEF Inv
    <2>16. OtherRows(t) BY <2>3, <2>4 DEF OtherRows
    <2>17. QED BY <1>1, <1>2, <2>4, <2>6, <2>7, <2>13, <2>14, <2>15, <2>16, HandlerGoesOn
<1>4. CASE ~Running(t)
    <2>1. GivesUp /\ Store BY <1>2, <1>4 DEF EndTurn
    <2>2. QED BY <1>1, <2>1, GoneIs, HandlerEnds DEF GivesUp, Store
<1>5. QED BY <1>3, <1>4

LEMMA ReplyKeeps ==
    ASSUME Inv, Reply
    PROVE  Inv'
BY GoneIs, HandlerEnds DEF Reply, Store, Others

-----------------------------------------------------------------------------
(* What cuts a handler short.                                              *)

LEMMA InterruptKeeps ==
    ASSUME Inv, Interrupt
    PROVE  Inv'
<1>1. handler.at # "idle" BY DEF Interrupt
<1>2. PICK t \in Turns, mode \in Modes, at \in Places :
          t = handler.turn /\ mode = handler.mode /\ at = handler.at /\ Stands(t, mode, at)
      BY <1>1, Handling
<1>3. handler' \in Handler /\ handler'.turn = t /\ handler'.mode = mode /\ handler'.at = at
      BY <1>2 DEF Interrupt, Inv, Types, Handler
<1>4. RoundsInv' BY RoundsStay DEF Interrupt, Inv
<1>5. QED BY <1>1, <1>2, <1>3, <1>4, HandlerMoves DEF Interrupt, Store, Others

LEMMA TakeInterruptKeeps ==
    ASSUME Inv, TakeInterrupt
    PROVE  Inv'
<1>1. handler.at # "idle" /\ handler.at \in Dispatched BY DEF TakeInterrupt, Dispatched
<1>2. PICK t \in Turns, mode \in Modes, at \in Places :
          t = handler.turn /\ mode = handler.mode /\ at = handler.at /\ Stands(t, mode, at)
      BY <1>1, Handling
<1> DEFINE next == IF mode = "edit" THEN "observe" ELSE "sayInterrupted"
<1>3. Goes(next) BY <1>2 DEF TakeInterrupt, Goes
<1>4. next \in Places BY DEF Places, Interrupting
<1>5. Stands(t, mode, next)
    <2>1. at \notin Before BY <1>1, <1>2 DEF Dispatched, Before
    <2>2. QED BY <1>2, <2>1 DEF Stands, Before
<1> HIDE DEF next
<1>6. RoundsInv' BY NothingHeld DEF TakeInterrupt
<1>7. QED BY <1>1, <1>2, <1>3, <1>4, <1>5, <1>6, StepMoves DEF TakeInterrupt, Others

LEMMA FaultKeeps ==
    ASSUME Inv, Fault
    PROVE  Inv'
<1>1. Store /\ late' = late /\ up' = up BY DEF Fault
<1>2. CASE handler.at \in {"logging", "applying"} /\ OnError /\ UNCHANGED <<rounds, settling>>
    <2>1. RoundsInv' BY <1>2, RoundsStay DEF Inv
    <2>2. QED BY <1>1, <1>2, <2>1, OnErrorMoves
<1>3. CASE handler.at \in Statements /\ Gone /\ Dropped
    <2>1. handler.at # "idle" BY <1>3 DEF Statements, Preparing, Says, Finals
    <2>2. QED BY <1>1, <1>3, <2>1, GoneIs, HandlerEnds DEF Store
<1>4. QED BY <1>2, <1>3 DEF Fault

LEMMA DisconnectKeeps ==
    ASSUME Inv, Disconnect
    PROVE  Inv'
<1>1. handler.at # "idle" /\ Gone /\ Dropped /\ Store /\ up' = up BY DEF Disconnect
<1>2. QED BY <1>1, GoneIs, HandlerEnds DEF Disconnect, Store

-----------------------------------------------------------------------------
(* What others do to a turn that no handler holds.                         *)

LEMMA HandlerStays ==
    ASSUME Inv, handler' = handler, up' = up,
           settling' \subseteq settling, late' \subseteq late,
           \A u \in Turns : handler.at # "idle" /\ u = handler.turn
               => turn'[u] = turn[u] /\ seen'[u] = seen[u] /\ said'[u] = said[u]
    PROVE  HandlerOK'
<1>1. SUFFICES ASSUME handler.at # "idle"
               PROVE  HandlerOK'
      BY DEF HandlerOK
<1>2. PICK t \in Turns, mode \in Modes, at \in Places :
          t = handler.turn /\ mode = handler.mode /\ at = handler.at /\ Stands(t, mode, at)
      BY <1>1, Handling
<1>3. turn'[t] = turn[t] /\ seen'[t] = seen[t] /\ said'[t] = said[t] BY <1>1, <1>2
<1>4. Stands(t, mode, at)'
    <2>1. \A k : Has(t, k)' <=> Has(t, k) BY <1>3, SaidSame
    <2>2. QED BY <1>2, <1>3, <2>1 DEF Stands
<1>5. /\ up = "up" /\ \A s \in settling : s.turn # t
      /\ \A m \in late : m.turn # t
      BY <1>1, <1>2 DEF Inv, HandlerOK
<1>6. handler'.turn = t /\ handler'.mode = mode /\ handler'.at = at BY <1>2
<1>7. /\ up' = "up" /\ \A s \in settling' : s.turn # t
      /\ \A m \in late' : m.turn # t
      BY <1>5
<1>8. QED BY <1>4, <1>6, <1>7 DEF HandlerOK

LEMMA OthersWrite ==
    ASSUME Inv, RoundsInv', Types', NEW t \in Turns,
           OtherRows(t), handler' = handler, up = "up", up' = up,
           settling' \subseteq settling, late' \subseteq late,
           handler.at # "idle" => handler.turn # t,
           TurnOK(t)', turn'[t].status # "none",
           seen'[t] = seen[t] \/ seen[t] = "started"
    PROVE  Inv'
<1>1. \A u \in Turns : TurnOK(u)'
    <2>1. TAKE u \in Turns
    <2>2. CASE u = t BY <2>2
    <2>3. CASE u # t
        <3>1. TurnOK(u) BY DEF Inv
        <3>2. turn'[u] = turn[u] /\ seen'[u] = seen[u] /\ said'[u] = said[u] /\ made'[u] = made[u]
              BY <2>3 DEF OtherRows
        <3>3. QED BY <3>1, <3>2, TurnSame
    <2>4. QED BY <2>2, <2>3
<1>2. HandlerOK' BY HandlerStays DEF OtherRows
<1>3. LeftOK'
    <2>1. \A s \in settling : s.turn \in Turns BY DEF Inv, Types
    <2>2. \A m \in late : m.turn \in Turns BY DEF Inv, Types
    <2>3. \A u \in Turns \ {t} : turn'[u] = turn[u] /\ seen'[u] = seen[u] BY DEF OtherRows
    <2>4. \A s \in settling' : ~s.observed => seen'[s.turn] = "none"
          BY <2>1, <2>3 DEF Inv, LeftOK
    <2>5. \A m \in late' :
              /\ turn'[m.turn].status # "none" /\ seen'[m.turn] \in {"none", "error", "success"}
              /\ m.kind \in Unobserved
              /\ seen'[m.turn] = "error" => m.kind \in Bad
          BY <2>2, <2>3 DEF Inv, LeftOK
    <2>6. QED BY <2>4, <2>5 DEF LeftOK
<1>4. QED BY <1>1, <1>2, <1>3 DEF Inv

\* The insert of a dropped handler reaches the store.
LEMMA LateInsertKeeps ==
    ASSUME Inv, NEW m \in late, LateInsert(m)
    PROVE  Inv'
<1>1. PICK t \in Turns, kind \in Kinds : t = m.turn /\ kind = m.kind BY DEF Inv, Types
<1>2. /\ turn[t].status # "none" /\ seen[t] \in {"none", "error", "success"}
      /\ kind \in Unobserved /\ (seen[t] = "error" => kind \in Bad)
      /\ up = "up"
      BY <1>1 DEF Inv, LeftOK
<1>3. handler.at # "idle" => handler.turn # t BY <1>1 DEF Inv, HandlerOK
<1>4. /\ said' \in [Turns -> Seq(Kinds)]
      /\ \A k : Has(t, k) => Has(t, k)'
      /\ \A kinds : kind \in kinds /\ Only(t, kinds) => Only(t, kinds)'
      /\ \A u \in Turns \ {t} : said'[u] = said[u]
      BY <1>1, SayDoes DEF LateInsert, Inv
<1>5. /\ UNCHANGED <<rounds, turn, seen, version, made, handler, settling, up>>
      /\ late' \subseteq late
      BY DEF LateInsert
<1>6. Types' BY <1>4, <1>5 DEF Inv, Types
<1>7. TurnOK(t)'
    <2>1. TurnOK(t) BY DEF Inv
    <2>2. Ended(t)' <=> Ended(t) BY <1>5 DEF Ended
    <2>3. SaysWhy(t) => SaysWhy(t)' BY <1>4, <1>5 DEF SaysWhy, Fitting
    <2>4. seen[t] = "error" => Only(t, Bad)' BY <1>2, <1>4, <2>1 DEF TurnOK
    <2>5. seen[t] = "none" => Only(t, Unobserved)' BY <1>2, <1>4, <2>1 DEF TurnOK
    <2>6. QED BY <1>2, <1>5, <2>1, <2>2, <2>3, <2>4, <2>5 DEF TurnOK
<1>8. RoundsInv' BY <1>5, RoundsStay DEF Inv
<1>9. OtherRows(t) BY <1>4, <1>5 DEF OtherRows
<1>10. QED BY <1>2, <1>3, <1>5, <1>6, <1>7, <1>8, <1>9, OthersWrite

\* What the task of a dropped handler writes, by what was observed and said.
LEMMA SettlementIs ==
    ASSUME Types, NEW s \in settling, NEW t \in Turns, t = s.turn, TurnOK(t), Running(t),
           s.observed \/ seen[t] = "none"
    PROVE  /\ seen[t] \in {"none", "started", "clarify", "error"}
           /\ seen[t] = "clarify" => Settlement(s) = [status |-> "clarify", says |-> "clarify"]
           /\ seen[t] = "error" => Settlement(s) = [status |-> "error", says |-> "error"]
           /\ seen[t] = "started" \/ (seen[t] = "none" /\ said[t] = <<>>)
                => Settlement(s) = [status |-> "interrupted", says |-> "interrupted"]
           /\ seen[t] = "none" /\ said[t] # <<>>
                => /\ Settlement(s).says = "none"
                   /\ Settlement(s).status \in {"succeeded", "error", "interrupted"}
                   /\ \E kind \in Fitting(Settlement(s).status) : Has(t, kind)
<1> DEFINE outcome == IF s.observed THEN seen[t] ELSE "none"
<1>1. outcome = seen[t] OBVIOUS
<1>2. seen[t] \in {"none", "started", "clarify", "error"}
      BY DEF Types, Outcomes, TurnOK, Running
<1>3. /\ DOMAIN Recovered = {"success", "clarify", "error"}
      /\ Recovered["clarify"] = "clarify" /\ Recovered["error"] = "error"
      /\ Recovery["clarify"] = "clarify" /\ Recovery["error"] = "error"
      BY DEF Recovered, Recovery
<1>4. CASE seen[t] \in {"clarify", "error"}
    <2>1. Settlement(s) = [status |-> Recovered[seen[t]], says |-> Recovery[seen[t]]]
          BY <1>1, <1>3, <1>4 DEF Settlement
    <2>2. QED BY <1>2, <1>3, <1>4, <2>1
<1>5. CASE seen[t] = "started" \/ (seen[t] = "none" /\ said[t] = <<>>)
    <2>1. Settlement(s) = [status |-> "interrupted", says |-> "interrupted"]
          BY <1>1, <1>3, <1>5 DEF Settlement
    <2>2. QED BY <1>2, <1>5, <2>1
<1>6. CASE seen[t] = "none" /\ said[t] # <<>>
    <2> DEFINE last == Last(said[t])
               status == CASE last = "error" -> "error"
                           [] last = "interrupted" -> "interrupted"
                           [] OTHER -> "succeeded"
    <2>1. Settlement(s) = [status |-> status, says |-> "none"]
          BY <1>1, <1>3, <1>6 DEF Settlement
    <2>2. Has(t, last) /\ last \in Unobserved
        <3>1. said[t] \in Seq(Kinds) BY DEF Types
        <3>2. Len(said[t]) \in DOMAIN said[t] BY <1>6, <3>1
        <3>3. last = said[t][Len(said[t])] BY DEF Last
        <3>4. Only(t, Unobserved) BY <1>6 DEF TurnOK
        <3>5. QED BY <3>2, <3>3, <3>4 DEF Has, Only
    <2> HIDE DEF last
    <2>3. last \in {"error", "interrupted", "chat", "run"} BY <2>2 DEF Unobserved, Bad
    <2>4. /\ last = "error" => status = "error"
          /\ last = "interrupted" => status = "interrupted"
          /\ last \in {"chat", "run"} => status = "succeeded"
          OBVIOUS
    <2> HIDE DEF status
    <2>5. last \in Fitting(status) /\ status \in {"succeeded", "error", "interrupted"}
          BY <2>3, <2>4, FittingIs DEF Bad
    <2>6. QED BY <1>6, <2>1, <2>2, <2>5
<1>7. QED BY <1>2, <1>4, <1>5, <1>6

LEMMA SettleKeeps ==
    ASSUME Inv, NEW s \in settling, Settle(s)
    PROVE  Inv'
<1>1. PICK t \in Turns : t = s.turn BY DEF Inv, Types
<1>2. /\ TurnOK(t) /\ Types /\ up = "up" /\ said[t] \in Seq(Kinds)
      /\ s.observed \/ seen[t] = "none"
      BY <1>1 DEF Inv, LeftOK, Types
<1>3. handler.at # "idle" => handler.turn # t BY <1>1 DEF Inv, HandlerOK
<1>4. /\ UNCHANGED <<rounds, version, made, handler, late, up>>
      /\ settling' \subseteq settling
      BY DEF Settle
<1>5. RoundsInv' BY <1>4, RoundsStay DEF Inv
<1>6. CASE ~Running(t)
    <2>1. UNCHANGED <<turn, said, seen>> BY <1>1, <1>6 DEF Settle
    <2>2. Types' BY <1>2, <1>4, <2>1 DEF Types
    <2>3. \A u \in Turns : TurnOK(u)' BY <1>4, <2>1, TurnSame DEF Inv
    <2>4. HandlerOK' BY <1>4, <2>1, HandlerStays
    <2>5. LeftOK' BY <1>2, <1>4, <2>1 DEF Inv, LeftOK
    <2>6. QED BY <1>5, <2>2, <2>3, <2>4, <2>5 DEF Inv
<1>7. CASE Running(t)
    <2> DEFINE how == Settlement(s)
               status == how.status
    <2>1. /\ Finalize(t, status, "dropped")
          /\ IF how.says # "none" /\ said[t] = <<>> THEN Say(t, how.says) ELSE UNCHANGED said
          /\ IF s.observed /\ seen[t] = "started" THEN Observe(t, "error") ELSE UNCHANGED seen
          BY <1>1, <1>7 DEF Settle
    <2>2. /\ seen[t] \in {"none", "started", "clarify", "error"}
          /\ seen[t] = "clarify" => how = [status |-> "clarify", says |-> "clarify"]
          /\ seen[t] = "error" => how = [status |-> "error", says |-> "error"]
          /\ seen[t] = "started" \/ (seen[t] = "none" /\ said[t] = <<>>)
               => how = [status |-> "interrupted", says |-> "interrupted"]
          /\ seen[t] = "none" /\ said[t] # <<>>
               => /\ how.says = "none"
                  /\ how.status \in {"succeeded", "error", "interrupted"}
                  /\ \E kind \in Fitting(how.status) : Has(t, kind)
          BY <1>1, <1>2, <1>7, SettlementIs
    <2> DEFINE says == how.says
    <2>3. /\ seen[t] = "clarify" => status = "clarify" /\ says = "clarify"
          /\ seen[t] = "error" => status = "error" /\ says = "error"
          /\ seen[t] = "started" \/ (seen[t] = "none" /\ said[t] = <<>>)
               => status = "interrupted" /\ says = "interrupted"
          /\ seen[t] = "none" /\ said[t] # <<>>
               => says = "none" /\ status \in {"succeeded", "error", "interrupted"}
          BY <2>2
    <2>4. seen[t] = "none" /\ said[t] # <<>> => \E kind \in Fitting(status) : Has(t, kind)
          BY <2>2
    <2>5. /\ Finalize(t, status, "dropped")
          /\ says # "none" /\ said[t] = <<>> => Say(t, says)
          /\ says = "none" \/ said[t] # <<>> => said' = said
          /\ seen[t] = "started" => Observe(t, "error")
          /\ seen[t] # "started" => seen' = seen
          BY <1>2, <2>1
    <2> HIDE DEF status, says
    <2>6. /\ turn' \in [Turns -> [status : Statuses, reason : Reasons]]
          /\ turn'[t] = [status |-> status, reason |-> "dropped"]
          /\ \A u \in Turns \ {t} : turn'[u] = turn[u]
        <3>1. status \in Statuses /\ "dropped" \in Reasons
              BY <2>2, <2>3 DEF Statuses, Reasons
        <3>2. QED BY <1>2, <2>5, <3>1, FinalizeDoes
    <2>7. /\ seen' \in [Turns -> Outcomes]
          /\ seen'[t] = IF seen[t] = "started" THEN "error" ELSE seen[t]
          /\ \A u \in Turns \ {t} : seen'[u] = seen[u]
        <3>1. CASE seen[t] = "started"
            <4>1. "error" \in Outcomes BY DEF Outcomes
            <4>2. QED BY <1>2, <2>5, <3>1, <4>1, ObserveDoes
        <3>2. CASE seen[t] # "started" BY <1>2, <2>5, <3>2 DEF Types
        <3>3. QED BY <3>1, <3>2
    <2>8. /\ said' \in [Turns -> Seq(Kinds)]
          /\ \A u \in Turns \ {t} : said'[u] = said[u]
          /\ said[t] # <<>> => said'[t] = said[t]
          /\ said[t] = <<>> => Say(t, says) /\ says \in {"error", "interrupted"}
        <3>1. said[t] = <<>> => seen[t] # "clarify" BY <1>2, Silence DEF TurnOK
        <3>2. CASE said[t] = <<>>
            <4>1. Say(t, says) /\ says \in {"error", "interrupted"}
                  BY <2>2, <2>3, <2>5, <3>1, <3>2
            <4>2. says \in Kinds BY <4>1 DEF Kinds
            <4>3. QED BY <1>2, <3>2, <4>1, <4>2, SayDoes
        <3>3. CASE said[t] # <<>> BY <1>2, <2>5, <3>3 DEF Types
        <3>4. QED BY <3>2, <3>3
    <2>9. Types' BY <1>2, <1>4, <2>6, <2>7, <2>8 DEF Types
    <2>10. turn'[t].status = status BY <2>6
    <2>11. SaysWhy(t)' /\ (seen'[t] = "error" => Only(t, Bad)')
           /\ (seen'[t] = "none" => Only(t, Unobserved)')
           /\ (seen'[t] = "clarify" => Has(t, "clarify")')
        <3>1. CASE said[t] = <<>>
            <4>1. PICK kind \in Kinds : kind = says /\ kind \in {"error", "interrupted"}
                  BY <2>8, <3>1 DEF Kinds
            <4>2. /\ Has(t, kind)'
                  /\ \A kinds : kind \in kinds /\ Only(t, kinds) => Only(t, kinds)'
                <5>1. Say(t, kind) BY <2>8, <3>1, <4>1
                <5>2. QED BY <1>2, <5>1, SayDoes
            <4>3. \A kinds : Only(t, kinds) BY <3>1, Silence
            <4>4. seen[t] # "clarify" BY <1>2, <3>1, Silence DEF TurnOK
            <4>5. status \in {"error", "interrupted"} BY <2>2, <2>3, <3>1, <4>4
            <4>6. kind \in Bad /\ kind \in Unobserved BY <4>1 DEF Bad, Unobserved
            <4>7. Only(t, Bad)' /\ Only(t, Unobserved)' BY <4>2, <4>3, <4>6
            <4>8. Fitting(turn[t].status)' = Bad BY <2>10, <4>5, FittingIs
            <4>9. SaysWhy(t)' BY <4>2, <4>6, <4>8 DEF SaysWhy
            <4>10. QED BY <2>7, <4>4, <4>7, <4>9
        <3>2. CASE said[t] # <<>>
            <4>1. /\ \A k : Has(t, k)' <=> Has(t, k)
                  /\ \A kinds : Only(t, kinds)' <=> Only(t, kinds)
                  BY <2>8, <3>2, SaidSame
            <4>2. seen[t] # "started" BY <1>2, <3>2 DEF TurnOK
            <4>3. Only(t, Bad)' <=> Only(t, Bad) BY <4>1 DEF Bad
            <4>4. Only(t, Unobserved)' <=> Only(t, Unobserved) BY <4>1 DEF Bad, Unobserved
            <4>5. \E kind \in Fitting(status) : Has(t, kind)
                <5>1. CASE seen[t] = "none" BY <2>4, <3>2, <5>1
                <5>2. CASE seen[t] = "clarify"
                    <6>1. Has(t, "clarify") BY <1>2, <5>2 DEF TurnOK
                    <6>2. QED BY <2>3, <5>2, <6>1, FittingIs
                <5>3. CASE seen[t] = "error"
                    <6>1. Only(t, Bad) BY <1>2, <5>3 DEF TurnOK
                    <6>2. 1 \in DOMAIN said[t] BY <1>2, <3>2
                    <6>3. Has(t, said[t][1]) /\ said[t][1] \in Bad BY <6>1, <6>2 DEF Has, Only
                    <6>4. QED BY <2>3, <5>3, <6>3, FittingIs
                <5>4. QED BY <2>2, <4>2, <5>1, <5>2, <5>3
            <4>6. Fitting(turn[t].status)' = Fitting(status) BY <2>10 DEF Fitting
            <4>7. SaysWhy(t)' BY <4>1, <4>5, <4>6 DEF SaysWhy
            <4>8. QED BY <1>2, <2>7, <4>1, <4>2, <4>3, <4>4, <4>7 DEF TurnOK
        <3>3. QED BY <3>1, <3>2
    <2>12. TurnOK(t)'
        <3>1. made'[t] = 0 BY <1>2, <1>4, <2>2 DEF TurnOK, Types
        <3>2. seen'[t] \in {"none", "clarify", "error"} BY <2>2, <2>7
        <3>3. /\ status # "none"
              /\ seen'[t] # "none" => status # "succeeded"
              /\ seen'[t] = "clarify" <=> status = "clarify"
              BY <2>2, <2>3, <2>7
        <3>4. QED BY <2>10, <2>11, <3>1, <3>2, <3>3 DEF TurnOK
    <2>13. turn'[t].status # "none" BY <2>2, <2>3, <2>10
    <2>14. OtherRows(t) BY <1>4, <2>6, <2>7, <2>8 DEF OtherRows
    <2>15. seen'[t] = seen[t] \/ seen[t] = "started" BY <2>7
    <2>16. QED BY <1>2, <1>3, <1>4, <1>5, <2>9, <2>12, <2>13, <2>14, <2>15, OthersWrite
<1>8. QED BY <1>6, <1>7

\* A settlement that fails leaves the rows as they are.
LEMMA SettleFailsKeeps ==
    ASSUME Inv, NEW s \in settling, SettleFails(s)
    PROVE  Inv'
<1>1. /\ UNCHANGED <<rounds, turn, seen, said, version, made, handler, late, up>>
      /\ settling' \subseteq settling
      BY DEF SettleFails, Store, rows
<1>2. RoundsInv' BY <1>1, RoundsStay DEF Inv
<1>3. Types' BY <1>1 DEF Inv, Types
<1>4. \A t \in Turns : TurnOK(t)' BY <1>1, TurnSame DEF Inv
<1>5. HandlerOK' BY <1>1, HandlerStays
<1>6. LeftOK' BY <1>1 DEF Inv, LeftOK, Running
<1>7. QED BY <1>2, <1>3, <1>4, <1>5, <1>6 DEF Inv

LEMMA SaveGraphKeeps ==
    ASSUME Inv, SaveGraph
    PROVE  Inv'
<1>1. /\ UNCHANGED <<rounds, turn, seen, said, made, handler, settling, late, up>>
      /\ version' = version + 1
      BY DEF SaveGraph
<1>2. RoundsInv' BY <1>1, RoundsStay DEF Inv
<1>3. Types' BY <1>1 DEF Inv, Types
<1>4. \A t \in Turns : TurnOK(t)' BY <1>1, TurnSame DEF Inv
<1>5. HandlerOK' BY <1>1, HandlerStays
<1>6. LeftOK' BY <1>1 DEF Inv, LeftOK, Running
<1>7. QED BY <1>2, <1>3, <1>4, <1>5, <1>6 DEF Inv

-----------------------------------------------------------------------------
(* The process dies, and the next one repairs what it finds.               *)

LEMMA CrashKeeps ==
    ASSUME Inv, Crash
    PROVE  Inv'
<1>1. /\ UNCHANGED <<turn, seen, said, version, made>>
      /\ settling' = {} /\ late' = {} /\ up' = "turns"
      BY DEF Crash, Store, rows
<1>2. handler' = Idle /\ RoundsInv' BY GoneIs DEF Crash
<1>3. handler' \in Handler /\ handler'.at = "idle"
    <2>1. 0 \in 0 .. MaxTurns BY TurnsAssumption
    <2>2. QED BY <1>2, <2>1 DEF Idle, Handler, Modes, Places
<1>4. Types' BY <1>1, <1>3 DEF Inv, Types
<1>5. \A t \in Turns : TurnOK(t)' BY <1>1, TurnSame DEF Inv
<1>6. HandlerOK' /\ LeftOK' BY <1>1, <1>3 DEF HandlerOK, LeftOK
<1>7. QED BY <1>2, <1>4, <1>5, <1>6 DEF Inv

LEMMA FinalizeTurnsKeeps ==
    ASSUME Inv, FinalizeTurns
    PROVE  Inv'
<1>1. /\ UNCHANGED <<rounds, seen, said, version, made, handler, settling, late>>
      /\ up = "turns" /\ up' = "observations"
      /\ turn' = [t \in Turns |-> IF Running(t)
                     THEN [status |-> "interrupted", reason |-> "process"] ELSE turn[t]]
      BY DEF FinalizeTurns
<1>2. RoundsInv' BY <1>1, RoundsStay DEF Inv
<1> DEFINE ended == [status |-> "interrupted", reason |-> "process"]
<1>3. ended \in [status : Statuses, reason : Reasons]
      /\ ended.status = "interrupted" /\ ended.reason = "process"
      BY DEF Statuses, Reasons
<1> HIDE DEF ended
<1>4. \A t \in Turns : /\ Running(t) => turn'[t] = ended
                       /\ ~Running(t) => turn'[t] = turn[t]
      BY <1>1 DEF ended
<1>5. turn' \in [Turns -> [status : Statuses, reason : Reasons]]
    <2>1. turn' = [t \in Turns |-> IF Running(t) THEN ended ELSE turn[t]] BY <1>1 DEF ended
    <2>2. QED BY <1>3, <2>1 DEF Inv, Types
<1>6. Types' BY <1>1, <1>5 DEF Inv, Types
<1>7. \A t \in Turns : TurnOK(t)'
    <2>1. TAKE t \in Turns
    <2>2. TurnOK(t) BY DEF Inv
    <2>3. CASE ~Running(t) BY <1>1, <1>4, <2>2, <2>3, TurnSame
    <2>4. CASE Running(t)
        <3>1. turn'[t].status = "interrupted" /\ turn'[t].reason = "process"
              BY <1>3, <1>4, <2>4
        <3>2. /\ Only(t, Bad)' <=> Only(t, Bad)
              /\ Only(t, Unobserved)' <=> Only(t, Unobserved)
              /\ Has(t, "clarify")' <=> Has(t, "clarify")
              BY <1>1, SaidSame DEF Bad, Unobserved
        <3>3. turn[t].status = "running" BY <2>4 DEF Running
        <3>4. QED BY <1>1, <2>2, <3>1, <3>2, <3>3 DEF TurnOK
    <2>5. QED BY <2>3, <2>4
<1>8. handler.at = "idle" /\ settling = {} /\ late = {} BY <1>1 DEF Inv, LeftOK
<1>9. \A t \in Turns : ~Running(t)'
      BY <1>3, <1>4 DEF Running
<1>10. HandlerOK' /\ LeftOK' BY <1>1, <1>8, <1>9 DEF HandlerOK, LeftOK
<1>11. QED BY <1>2, <1>6, <1>7, <1>10 DEF Inv

LEMMA FinalizeObservationsKeeps ==
    ASSUME Inv, FinalizeObservations
    PROVE  Inv'
<1>1. /\ UNCHANGED <<rounds, turn, said, version, made, handler, settling, late>>
      /\ up = "observations" /\ up' = "up"
      /\ seen' = [t \in Turns |-> IF seen[t] = "started" THEN "error" ELSE seen[t]]
      BY DEF FinalizeObservations
<1>2. RoundsInv' BY <1>1, RoundsStay DEF Inv
<1>3. seen' \in [Turns -> Outcomes]
    <2>1. "error" \in Outcomes BY DEF Outcomes
    <2>2. QED BY <1>1, <2>1 DEF Inv, Types
<1>4. Types' BY <1>1, <1>3 DEF Inv, Types
<1>5. \A t \in Turns : TurnOK(t)'
    <2>1. TAKE t \in Turns
    <2>2. TurnOK(t) BY DEF Inv
    <2>3. /\ Only(t, Bad)' <=> Only(t, Bad)
          /\ Only(t, Unobserved)' <=> Only(t, Unobserved)
          /\ Has(t, "clarify")' <=> Has(t, "clarify")
          BY <1>1, SaidSame DEF Bad, Unobserved
    <2>4. (SaysWhy(t)' <=> SaysWhy(t)) /\ (Ended(t)' <=> Ended(t))
          BY <1>1 DEF SaysWhy, Fitting, Has, Ended
    <2>5. seen'[t] = IF seen[t] = "started" THEN "error" ELSE seen[t] BY <1>1
    <2>6. seen[t] = "started" => Only(t, Bad) BY <2>2, Silence DEF TurnOK
    <2>7. QED BY <1>1, <2>2, <2>3, <2>4, <2>5, <2>6 DEF TurnOK
<1>6. handler.at = "idle" /\ settling = {} /\ late = {} BY <1>1 DEF Inv, LeftOK
<1>7. HandlerOK' /\ LeftOK' BY <1>1, <1>6 DEF HandlerOK, LeftOK
<1>8. QED BY <1>2, <1>4, <1>5, <1>7 DEF Inv

LEMMA AgentStepsKeep ==
    ASSUME Inv, AgentSteps
    PROVE  Inv'
<1>1. RoundsInv'
      BY SendKeeps, ReceiveKeeps, RunsOutKeeps, RuntimeKeeps DEF AgentSteps, Service, Inv
<1>2. UNCHANGED <<turn, seen, said, version, made, handler, settling, late, up>>
      BY DEF AgentSteps, Rest, rows
<1>3. Types' BY <1>2 DEF Inv, Types
<1>4. \A t \in Turns : TurnOK(t)' BY <1>2, TurnSame DEF Inv
<1>5. HandlerOK' BY <1>2, HandlerStays
<1>6. LeftOK' BY <1>2 DEF Inv, LeftOK, Running
<1>7. QED BY <1>1, <1>3, <1>4, <1>5, <1>6 DEF Inv

-----------------------------------------------------------------------------
(* The invariant, and what it says of every turn.                          *)

LEMMA InitInv ==
    ASSUME Init
    PROVE  Inv
<1>1. 0 \in 0 .. MaxRounds /\ 0 \in 0 .. MaxTurns BY RoundsAssumption, TurnsAssumption
<1>2. RoundsInv
    <2>1. /\ session = NoSession /\ process = Quiet /\ channel = <<>> /\ output = NoFile
          BY DEF Init, RoundsInit
    <2>2. <<>> \in Seq(Rounds) /\ Len(<<>>) = 0
          /\ <<>> \in Seq([is : {"finished", "failed"}, from : Rounds]) OBVIOUS
    <2>3. NoProcess \in Process BY DEF NoProcess, Process
    <2>4. process \in [Rounds -> Process] BY <2>1, <2>3 DEF Quiet
    <2>5. output \in [by : 0 .. MaxRounds, valid : BOOLEAN] BY <1>1, <2>1 DEF NoFile
    <2> DEFINE none == <<>>
    <2>6. session = [asks |-> "none", at |-> "idle", round |-> 0, cancels |-> 0,
                     causes |-> none, late |-> FALSE]
          BY <2>1 DEF NoSession
    <2>7. none \in Seq(Rounds) /\ Len(none) = 0 BY <2>2
    <2> HIDE DEF none
    <2>8. session \in Session BY <1>1, <2>6, <2>7 DEF Session
    <2>9. session.at = "idle" /\ session.causes = none /\ session.round = 0 BY <2>6
    <2>10. QED BY <2>1, <2>2, <2>4, <2>5, <2>7, <2>8, <2>9 DEF RoundsInv
<1>3. /\ turn = [t \in Turns |-> NoTurn] /\ seen = [t \in Turns |-> "none"]
      /\ said = [t \in Turns |-> <<>>] /\ version = 1 /\ made = [t \in Turns |-> 0]
      /\ handler = Idle /\ settling = {} /\ late = {} /\ up = "up"
      BY DEF Init
<1>4. handler \in Handler /\ handler.at = "idle"
      BY <1>1, <1>3 DEF Idle, Handler, Modes, Places
<1>5. Types
    <2>1. NoTurn \in [status : Statuses, reason : Reasons] BY DEF NoTurn, Statuses, Reasons
    <2>2. turn \in [Turns -> [status : Statuses, reason : Reasons]] BY <1>3, <2>1
    <2>3. seen \in [Turns -> Outcomes] BY <1>3 DEF Outcomes
    <2>4. <<>> \in Seq(Kinds) OBVIOUS
    <2>5. said \in [Turns -> Seq(Kinds)] BY <1>3, <2>4
    <2>6. QED BY <1>3, <1>4, <2>2, <2>3, <2>5 DEF Types
<1>6. \A t \in Turns : TurnOK(t)
    <2>1. TAKE t \in Turns
    <2>2. turn[t].status = "none" /\ seen[t] = "none" /\ said[t] = <<>> /\ made[t] = 0
          BY <1>3 DEF NoTurn
    <2>3. Only(t, Unobserved) BY <2>2, Silence
    <2>4. QED BY <2>2, <2>3 DEF TurnOK, Ended
<1>7. HandlerOK /\ LeftOK BY <1>3, <1>4 DEF HandlerOK, LeftOK
<1>8. QED BY <1>2, <1>5, <1>6, <1>7 DEF Inv

LEMMA HandlerStepsKeep ==
    ASSUME Inv, HandlerSteps
    PROVE  Inv'
<1>1. QED
      BY RoutedKeeps, RouteFailsKeeps, RefusesKeeps, CheckedKeeps, StartTurnKeeps,
         RecordKeeps, AttachKeeps, DispatchKeeps, AnsweredKeeps, PersistIdentityKeeps,
         PersistLogsKeeps, RequestRunKeeps, SayKeeps, CompileKeeps, ApplyKeeps,
         ApplyRefusedKeeps, ClarifyKeeps, ObserveErrorKeeps, EndTurnKeeps, ReplyKeeps
      DEF HandlerSteps

LEMMA NextKeeps ==
    ASSUME Inv, [Next]_vars
    PROVE  Inv'
<1>1. CASE UNCHANGED vars
    <2>1. UNCHANGED <<rounds, turn, seen, said, version, made, handler, settling, late, up>>
          BY <1>1 DEF vars, rows
    <2>2. RoundsInv' BY <2>1, RoundsStay DEF Inv
    <2>3. Types' BY <2>1 DEF Inv, Types
    <2>4. \A t \in Turns : TurnOK(t)' BY <2>1, TurnSame DEF Inv
    <2>5. HandlerOK' BY <2>1, HandlerStays
    <2>6. LeftOK' BY <2>1 DEF Inv, LeftOK, Running
    <2>7. QED BY <2>2, <2>3, <2>4, <2>5, <2>6 DEF Inv
<1>2. CASE StartupSteps
      BY <1>2, FinalizeTurnsKeeps, FinalizeObservationsKeeps DEF StartupSteps
<1>3. QED
      BY <1>1, <1>2, RegisterKeeps, HandlerStepsKeep, AgentStepsKeep, InterruptKeeps,
         TakeInterruptKeeps, FaultKeeps, DisconnectKeeps, CrashKeeps, LateInsertKeeps,
         SettleKeeps, SettleFailsKeeps, SaveGraphKeeps
      DEF Next

LEMMA TurnsInvariant == TurnsSpec => []Inv
<1>1. Init => Inv BY InitInv
<1>2. Inv /\ [Next]_vars => Inv' BY NextKeeps
<1>3. QED BY <1>1, <1>2, PTL DEF TurnsSpec

\* What is remembered of failed settlements are turns.
LEMMA UnsettledAreTurns == TurnsSpec => [](unsettled \subseteq Turns)
<1> DEFINE Typed == unsettled \subseteq Turns
<1>1. Init => Typed BY DEF Init
<1>2. ASSUME Inv, Typed, [Next]_vars PROVE Typed'
    <2>1. CASE \E s \in settling : SettleFails(s)
          BY <1>2, <2>1 DEF SettleFails, Inv, Types
    <2>2. CASE HandlerSteps
        <3>1. UNCHANGED unsettled
              BY <2>2 DEF HandlerSteps, Others, GivesUp, ObserveError, Routed, RouteFails,
                 Refuses, Checked, StartTurn, Record, Attach, Dispatch, Answered,
                 PersistIdentity, PersistLogs, SayChat, RequestRun, AssignMessage, Compile,
                 Apply, ApplyRefused, Clarify, FailObservation, SayError, EndTurn, Reply,
                 ObserveInterrupt, SayInterrupted
        <3>2. QED BY <1>2, <3>1
    <2>3. CASE Crash BY <2>3 DEF Crash
    <2>4. CASE UNCHANGED vars BY <1>2, <2>4 DEF vars
    <2>5. CASE \/ Register \/ AgentSteps \/ Interrupt \/ TakeInterrupt \/ Fault \/ Disconnect
               \/ (\E m \in late : LateInsert(m)) \/ (\E s \in settling : Settle(s))
               \/ SaveGraph \/ StartupSteps
        <3>1. UNCHANGED unsettled
              BY <2>5 DEF Register, AgentSteps, Rest, Interrupt, TakeInterrupt, Fault,
                 Disconnect, LateInsert, Settle, SaveGraph, StartupSteps, FinalizeTurns,
                 FinalizeObservations, Others
        <3>2. QED BY <1>2, <3>1
    <2>6. QED BY <1>2, <2>1, <2>2, <2>3, <2>4, <2>5 DEF Next
<1>3. Inv /\ Typed /\ [Next]_vars => Typed' BY <1>2
<1>4. QED BY <1>1, <1>3, TurnsInvariant, PTL DEF TurnsSpec

(* A turn and its observation tell the same, whatever cut the turn short:  *)
(* it succeeded exactly when its edit was committed.  The invariant ties   *)
(* the place of the handler to what was observed (Stands), and keeps every *)
(* other writer away from its turn (HandlerOK).                            *)
THEOREM ObservationTellsTheTurn == TurnsSpec => []OutcomesAgree
<1>1. Inv => RoundsTypeOK
    <2>1. SUFFICES ASSUME Inv PROVE RoundsTypeOK OBVIOUS
    <2>2. session.causes \in BoundedSeq(Rounds, MaxRounds)
        <3> DEFINE causes == session.causes  n == Len(causes)
        <3>1. causes \in Seq(Rounds) /\ n \in Nat /\ n <= MaxRounds
              BY <2>1, RoundsAssumption DEF Inv, RoundsInv, Session
        <3>2. causes \in [1 .. n -> Rounds] BY <3>1
        <3>3. n \in 0 .. MaxRounds BY <3>1, RoundsAssumption
        <3> HIDE DEF n, causes
        <3>4. [1 .. n -> Rounds] \in {[1 .. m -> Rounds] : m \in 0 .. MaxRounds} BY <3>3
        <3>5. causes \in UNION {[1 .. m -> Rounds] : m \in 0 .. MaxRounds} BY <3>2, <3>4
        <3>6. BoundedSeq(Rounds, MaxRounds) = UNION {[1 .. m -> Rounds] : m \in 0 .. MaxRounds}
              BY DEF BoundedSeq, SeqOf
        <3>7. QED BY <3>5, <3>6 DEF causes
    <2>3. session \in [asks : {"none", "route", "reply", "edit"},
                       at : {"idle", "sending", "waiting", "accepted", "failed"},
                       round : 0 .. MaxRounds, cancels : 0 .. MaxRounds,
                       causes : BoundedSeq(Rounds, MaxRounds), late : BOOLEAN]
        <3> DEFINE S == BoundedSeq(Rounds, MaxRounds)
        <3>1. session.causes \in S BY <2>2
        <3> HIDE DEF S
        <3>2. session \in Session BY <2>1 DEF Inv, RoundsInv
        <3>3. session \in [asks : {"none", "route", "reply", "edit"},
                           at : {"idle", "sending", "waiting", "accepted", "failed"},
                           round : 0 .. MaxRounds, cancels : 0 .. MaxRounds,
                           causes : S, late : BOOLEAN]
              BY <3>1, <3>2 DEF Session
        <3>4. QED BY <3>3 DEF S
    <2>4. QED BY <2>1, <2>3 DEF Inv, RoundsInv, Process, RoundsTypeOK
<1>2. Inv /\ unsettled \subseteq Turns => AgentTurnsTypeOK
    <2>1. SUFFICES ASSUME Inv, unsettled \subseteq Turns PROVE AgentTurnsTypeOK OBVIOUS
    <2>2. handler.at \in Dispatched \cup Interrupting => turn[handler.turn].status # "none"
          BY <2>1 DEF Inv, HandlerOK, Stands, Dispatched, Interrupting, Before
    <2>3. QED BY <1>1, <2>1, <2>2
              DEF AgentTurnsTypeOK, Inv, Types, Reasons, Outcomes, Handler, Places
<1>3. Inv /\ unsettled \subseteq Turns => OutcomesAgree
      BY <1>2 DEF Inv, TurnOK, OutcomesAgree
<1>4. QED BY <1>3, TurnsInvariant, UnsettledAreTurns, PTL

(* A turn that ended, except by a restart, has a visible message that fits *)
(* its end, also when its handler was dropped in the middle of an insert:  *)
(* no turn ends in silence.                                                *)
THEOREM NoTurnEndsInSilence == TurnsSpec => []EndedTurnsSayWhy
<1>1. ASSUME Inv
      PROVE  EndedTurnsSayWhy
    <2>1. SUFFICES ASSUME NEW t \in Turns, Ended(t), turn[t].reason # "process"
                   PROVE  \E i \in 1 .. Len(said[t]) : said[t][i] \in Fitting(turn[t].status)
          BY DEF EndedTurnsSayWhy
    <2>2. SaysWhy(t) BY <1>1, <2>1 DEF Inv, TurnOK
    <2>3. PICK i \in DOMAIN said[t] : said[t][i] \in Fitting(turn[t].status)
          BY <2>2 DEF SaysWhy, Has
    <2>4. DOMAIN said[t] = 1 .. Len(said[t]) BY <1>1 DEF Inv, Types
    <2>5. QED BY <2>3, <2>4
<1>2. Inv => EndedTurnsSayWhy BY <1>1
<1>3. QED BY <1>2, TurnsInvariant, PTL
=============================================================================
