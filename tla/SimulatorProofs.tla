--------------------------- MODULE SimulatorProofs ----------------------------
(***************************************************************************)
(* Whatever is lost, late or retried, the tape a SimulatorFeed keeps is    *)
(* the walk of one session of the server, and what a MarketSimulator says  *)
(* of its session is never ahead of it: TapeIsWalk, for every value of the *)
(* constants.                                                              *)
(*                                                                         *)
(* TapeIsWalk is not inductive.  A retried advance is harmless because its *)
(* precondition is the length of the tape (Drains) and because an answer   *)
(* still under way tells of the step after it (Answered); and what a view  *)
(* says stays true because a session only ever moves forward (Grows).      *)
(***************************************************************************)
EXTENDS SimulatorSession, FiniteSetTheorems, TLAPS

Views == [step : Nat, total : Nat, state : States \cup {"none"}]
Answers == [status : {"none", "ok", "404", "410", "412"}, session : Nat, view : Views]
Phases == {"create", "step", "delete", "idle", "opened", "failed"}

\* A request names a session the server has made.
Addressed(r) == /\ r.kind \in Kinds
                /\ r.kind # "create" => r.session \in 1..created

TypeInv ==
  /\ created \in 0..MaxSessions
  /\ sessions \in [Ids -> Sessions]
  /\ client \in {"feed", "market"}
  /\ phase \in Phases
  /\ session \in 0..created
  /\ view \in Views
  /\ answer \in Answers
  /\ tape \in Seq([session : Nat, step : Nat])
  /\ \A r \in late : Addressed(r)
  /\ request # NoRequest => Addressed(request)

\* A session never runs past its end.
Bounded == \A i \in Ids : sessions[i].step <= sessions[i].total

\* What v says of session id is true of it, then and ever after.
Knows(id, v) ==
  /\ id \in 1..created
  /\ v.step <= sessions[id].step
  /\ v.total = sessions[id].total
  /\ v.state \in States
  /\ v.state = "Error" => sessions[id].state = "Error"
  /\ v.state = "Completed" => v.step >= v.total

\* A client waits on the request of its phase, about its session.
Waits ==
  /\ answer.status # "none" => request # NoRequest
  /\ request # NoRequest =>
       /\ request.kind = phase
       /\ phase # "create" => session # 0 /\ request.session = session
  /\ IF session = 0 THEN view = NoView ELSE Knows(session, view)

\* An answer under way tells of the session asked for; that of a feed's
\* advance, which named the step it expected, of the step after.
Answered ==
  answer.status = "ok" =>
    /\ phase \in {"create", "step"} => Knows(answer.session, answer.view)
    /\ phase = "create" => answer.view.step = 0
    /\ (client = "feed" /\ phase = "step") =>
         /\ answer.session = session
         /\ answer.view.step = view.step + 1
         /\ answer.view.state = FromProgress(answer.view.step, answer.view.total)

\* The tape is as long as the view says, and complete once the drain is over.
Drains ==
  /\ client = "market" => tape = <<>> /\ phase \in {"create", "step", "delete", "idle"}
  /\ client = "feed" =>
       /\ phase # "idle"
       /\ phase = "create" => session = 0 /\ tape = <<>>
       /\ phase \in {"step", "delete", "opened"} => session # 0
       /\ phase \in {"create", "step"} => outcome = "none"
       /\ phase = "step" => Len(tape) = view.step
       /\ phase = "step" /\ request # NoRequest => request.expected = view.step
       /\ \/ phase = "opened"
          \/ phase = "delete" /\ outcome = "none" /\ tape # <<>>
          => Len(tape) = sessions[session].total

OneSession == \A i \in DOMAIN tape : tape[i] = [session |-> session, step |-> i]

\* The inductive invariant.
WalkInv == TypeInv /\ Bounded /\ Waits /\ Answered /\ Drains /\ OneSession

-----------------------------------------------------------------------------
(* The server only moves forward.                                          *)

Grows(ss, n) ==
  /\ n \in created..MaxSessions
  /\ ss \in [Ids -> Sessions]
  /\ \A i \in Ids : ss[i].step <= ss[i].total
  /\ \A i \in 1..created : /\ ss[i].step >= sessions[i].step
                           /\ ss[i].total = sessions[i].total
                           /\ ss[i].state = sessions[i].state

\* One session is made or moved forward.
LEMMA OneMoves ==
  ASSUME TypeInv, Bounded, NEW id \in Ids, NEW n \in created..MaxSessions,
         NEW s \in Sessions, s.step <= s.total,
         id \in 1..created => /\ s.step >= sessions[id].step
                             /\ s.total = sessions[id].total
                             /\ s.state = sessions[id].state
  PROVE  Grows([sessions EXCEPT ![id] = s], n)
<1> DEFINE ss == [sessions EXCEPT ![id] = s]
<1>1. /\ ss \in [Ids -> Sessions]
      /\ ss[id] = s
      /\ \A i \in Ids \ {id} : ss[i] = sessions[i]
  BY DEF TypeInv
<1>2. \A i \in Ids : ss[i].step <= ss[i].total
  BY <1>1 DEF Bounded
<1>3. \A i \in 1..created : i \in Ids /\ sessions[i].step \in Nat
  BY SimulatorAssumption DEF TypeInv, Ids, Sessions
<1>4. \A i \in 1..created : /\ ss[i].step >= sessions[i].step
                            /\ ss[i].total = sessions[i].total
                            /\ ss[i].state = sessions[i].state
  BY <1>1, <1>3
<1>5. QED
  BY <1>1, <1>2, <1>4 DEF Grows

\* Nothing moves.
LEMMA NoneMoves ==
  ASSUME TypeInv, Bounded
  PROVE  Grows(sessions, created)
<1>1. created \in created..MaxSessions
  BY SimulatorAssumption DEF TypeInv
<1>2. \A i \in 1..created : sessions[i].step \in Nat
  BY SimulatorAssumption DEF TypeInv, Ids, Sessions
<1>3. QED
  BY <1>1, <1>2 DEF Grows, TypeInv, Bounded

\* Whatever request arrives, from whomever and however late.
LEMMA EffectsGrow ==
  ASSUME TypeInv, Bounded, NEW r, Addressed(r), NEW e \in Effects(r)
  PROVE  Grows(e.sessions, e.created) /\ e.answer \in Answers
<1> USE SimulatorAssumption
<1>1. CASE r.kind = "create"
  <2>1. created + 1 \in Ids /\ e \in CreateEffects
    BY <1>1 DEF Effects, TypeInv, Ids
  <2>2. PICK s \in [status : {"live"}, step : {0}, total : 0..MaxTotal,
                    state : {"Initialized", "Error"}] :
          e = Effect([sessions EXCEPT ![created + 1] = s], created + 1,
                     [status |-> "ok", session |-> created + 1,
                      view |-> [step |-> 0, total |-> s.total, state |-> s.state]])
    BY <2>1 DEF CreateEffects
  <2>3. /\ e.sessions = [sessions EXCEPT ![created + 1] = s]
        /\ e.created = created + 1
        /\ e.answer = [status |-> "ok", session |-> created + 1,
                       view |-> [step |-> 0, total |-> s.total, state |-> s.state]]
    BY <2>2 DEF Effect
  <2>4. s \in Sessions /\ s.step <= s.total /\ s.total \in Nat
    BY SimulatorAssumption DEF Sessions, States
  <2>5. Grows(e.sessions, e.created)
    <3>1. created + 1 \in created..MaxSessions /\ created + 1 \notin 1..created
      BY <2>1 DEF TypeInv, Ids
    <3>2. Grows([sessions EXCEPT ![created + 1] = s], created + 1)
      BY <2>1, <2>4, <3>1, OneMoves
    <3>3. QED
      BY <2>3, <3>2
  <2>6. e.answer \in Answers
    BY <2>3, <2>4 DEF Answers, Views, States, TypeInv
  <2>7. QED
    BY <2>5, <2>6
<1>2. CASE r.kind = "step"
  <2>1. r.session \in Ids /\ sessions[r.session] \in Sessions /\ e = StepEffect(r)
    BY <1>2 DEF Effects, Addressed, TypeInv, Ids
  <2>2. CASE Refusal(r) # "none"
    <3>1. /\ e.sessions = sessions /\ e.created = created
          /\ e.answer = [NoAnswer EXCEPT !.status = Refusal(r)]
          /\ Refusal(r) \in {"404", "410", "412"}
      BY <2>1, <2>2 DEF StepEffect, Refusal, Refused, Effect
    <3>2. QED
      BY <3>1, NoneMoves DEF Answers, Views, NoAnswer, NoView
  <2>3. CASE Refusal(r) = "none"
    <3>1. sessions[r.session].step < sessions[r.session].total
      BY <2>1, <2>3 DEF Refusal, Sessions
    <3>2. /\ e.sessions = [sessions EXCEPT ![r.session].step = @ + 1]
          /\ e.created = created
          /\ e.answer = [status |-> "ok", session |-> r.session,
               view |-> [step |-> sessions[r.session].step + 1,
                         total |-> sessions[r.session].total,
                         state |-> FromProgress(sessions[r.session].step + 1,
                                                sessions[r.session].total)]]
      BY <2>1, <2>3 DEF StepEffect, Effect
    <3>3. Grows(e.sessions, e.created)
      <4> DEFINE s == [sessions[r.session] EXCEPT !.step = @ + 1]
      <4>1. /\ s \in Sessions /\ s.step <= s.total
            /\ s.step >= sessions[r.session].step
            /\ s.total = sessions[r.session].total
            /\ s.state = sessions[r.session].state
        BY <2>1, <3>1 DEF Sessions
      <4>2. e.sessions = [sessions EXCEPT ![r.session] = s]
        BY <3>2
      <4>3. QED
        <5>1. created \in created..MaxSessions
          BY DEF TypeInv
        <5>2. Grows([sessions EXCEPT ![r.session] = s], created)
          BY <2>1, <4>1, <5>1, OneMoves
        <5>3. QED
          BY <3>2, <4>2, <5>2
    <3>4. e.answer \in Answers
      BY <2>1, <3>2 DEF Answers, Views, States, FromProgress, Sessions, Ids
    <3>5. QED
      BY <3>3, <3>4
  <2>4. QED
    BY <2>2, <2>3
<1>3. CASE r.kind = "delete"
  <2>1. r.session \in Ids /\ sessions[r.session] \in Sessions /\ e = DeleteEffect(r)
    BY <1>3 DEF Effects, Addressed, TypeInv, Ids
  <2>2. CASE sessions[r.session].status # "live"
    <3>1. /\ e.sessions = sessions /\ e.created = created
          /\ e.answer = [NoAnswer EXCEPT !.status = "404"]
      BY <2>1, <2>2 DEF DeleteEffect, Refused, Effect
    <3>2. QED
      BY <3>1, NoneMoves DEF Answers, Views, NoAnswer, NoView
  <2>3. CASE sessions[r.session].status = "live"
    <3> DEFINE s == [sessions[r.session] EXCEPT !.status = "deleted"]
    <3>1. /\ e.sessions = [sessions EXCEPT ![r.session] = s]
          /\ e.created = created
          /\ e.answer = [NoAnswer EXCEPT !.status = "ok"]
      BY <2>1, <2>3 DEF DeleteEffect, Effect
    <3>2. /\ s \in Sessions /\ s.step <= s.total
          /\ s.step >= sessions[r.session].step
          /\ s.total = sessions[r.session].total
          /\ s.state = sessions[r.session].state
      BY <2>1 DEF Sessions, Bounded
    <3>3. Grows(e.sessions, e.created)
      <4>1. created \in created..MaxSessions
        BY DEF TypeInv
      <4>2. Grows([sessions EXCEPT ![r.session] = s], created)
        BY <2>1, <3>2, <4>1, OneMoves
      <4>3. QED
        BY <3>1, <4>2
    <3>4. QED
      BY <3>1, <3>3 DEF Answers, Views, NoAnswer, NoView
  <2>4. QED
    BY <2>2, <2>3
<1>4. QED
  BY <1>1, <1>2, <1>3 DEF Addressed, Kinds

\* What a client has seen of its session outlives every move of the server.
LEMMA GrowsKeeps ==
  ASSUME WalkInv, Grows(sessions', created'),
         UNCHANGED <<client, clientVars, request>>,
         \A r \in late' : Addressed(r), answer' \in Answers
  PROVE  /\ TypeInv' /\ Bounded' /\ Drains' /\ OneSession'
         /\ (IF session = 0 THEN view = NoView ELSE Knows(session, view))'
         /\ answer' = answer => Answered'
<1> USE DEF WalkInv
<1>1. TypeInv'
  BY DEF TypeInv, Grows, Addressed, clientVars
<1>2. Bounded'
  BY DEF Bounded, Grows
<1>3. ASSUME NEW id, NEW v \in Views, Knows(id, v)
      PROVE  Knows(id, v)'
  <2>1. id \in 1..created /\ id \in 1..created' /\ id \in Ids
    BY <1>3, SimulatorAssumption DEF Knows, Grows, TypeInv, Ids
  <2>2. /\ sessions'[id].step >= sessions[id].step
        /\ sessions'[id].total = sessions[id].total
        /\ sessions'[id].state = sessions[id].state
    BY <2>1 DEF Grows
  <2>3. sessions[id] \in Sessions /\ sessions'[id] \in Sessions
    BY <2>1 DEF TypeInv, Grows
  <2>4. QED
    BY <1>3, <2>1, <2>2, <2>3 DEF Knows, Views, Sessions
<1>4. (IF session = 0 THEN view = NoView ELSE Knows(session, view))'
  <2>1. session' = session /\ view' = view /\ view \in Views
    BY DEF clientVars, TypeInv
  <2>2. CASE session = 0
    BY <2>1, <2>2 DEF Waits
  <2>3. CASE session # 0
    BY <1>3, <2>1, <2>3 DEF Waits, Knows
  <2>4. QED
    BY <2>2, <2>3
<1>5. session # 0 => sessions'[session].total = sessions[session].total
  BY DEF Grows, TypeInv
<1>6. Drains' /\ OneSession'
  BY <1>5 DEF Drains, OneSession, clientVars
<1>7. answer' = answer => Answered'
  BY <1>3 DEF Answered, clientVars, TypeInv, Answers
<1>8. QED
  BY <1>1, <1>2, <1>4, <1>6, <1>7

\* The answer to the request waited on.
LEMMA ServeKeeps ==
  ASSUME WalkInv, Serve
  PROVE  WalkInv'
<1> USE SimulatorAssumption
<1>1. PICK e \in Effects(request) :
        sessions' = e.sessions /\ created' = e.created /\ answer' = e.answer
  BY DEF Serve
<1>2. /\ request # NoRequest /\ answer = NoAnswer
      /\ UNCHANGED <<request, late, uses, client, clientVars>>
      /\ UNCHANGED <<phase, session, view, tape, outcome>>
  BY DEF Serve, clientVars
<1>3. /\ Addressed(request) /\ request.kind = phase
      /\ phase # "create" => session # 0 /\ request.session = session
  BY <1>2 DEF WalkInv, TypeInv, Waits
<1>4. Grows(sessions', created') /\ answer' \in Answers
  BY <1>1, <1>3, EffectsGrow DEF WalkInv
<1>5. /\ TypeInv' /\ Bounded' /\ Drains' /\ OneSession'
      /\ (IF session = 0 THEN view = NoView ELSE Knows(session, view))'
  BY <1>2, <1>4, GrowsKeeps DEF WalkInv, TypeInv
<1>6. Waits'
  BY <1>2, <1>3, <1>5 DEF Waits
<1>7. Answered'
  <2>1. CASE request.kind = "create"
    <3>1. created + 1 \in Ids /\ e \in CreateEffects
      BY <1>1, <2>1 DEF Effects, WalkInv, TypeInv, Ids
    <3>2. PICK s \in [status : {"live"}, step : {0}, total : 0..MaxTotal,
                      state : {"Initialized", "Error"}] :
            e = Effect([sessions EXCEPT ![created + 1] = s], created + 1,
                       [status |-> "ok", session |-> created + 1,
                        view |-> [step |-> 0, total |-> s.total, state |-> s.state]])
      BY <3>1 DEF CreateEffects
    <3>3. /\ sessions'[created + 1] = s /\ created' = created + 1
          /\ answer' = [status |-> "ok", session |-> created + 1,
                        view |-> [step |-> 0, total |-> s.total, state |-> s.state]]
      BY <1>1, <3>1, <3>2 DEF Effect, WalkInv, TypeInv
    <3>4. s.step = 0 /\ s.state \in {"Initialized", "Error"}
      OBVIOUS
    <3>5. Knows(answer.session, answer.view)'
      BY <3>1, <3>3, <3>4 DEF Knows, States, WalkInv, TypeInv
    <3>6. QED
      BY <1>2, <1>3, <2>1, <3>3, <3>5 DEF Answered
  <2>2. CASE request.kind = "step"
    <3>1. /\ request.session = session /\ session \in Ids /\ session \in 1..created'
          /\ sessions[session] \in Sessions /\ e = StepEffect(request)
      BY <1>1, <1>3, <1>4, <2>2 DEF Effects, Addressed, WalkInv, TypeInv, Ids, Grows
    <3>2. CASE Refusal(request) # "none"
      <4>1. Refusal(request) \in {"404", "410", "412"}
        BY <3>2 DEF Refusal
      <4>2. answer' = [NoAnswer EXCEPT !.status = Refusal(request)]
        BY <1>1, <3>1, <3>2 DEF StepEffect, Refused, Effect
      <4>3. QED
        BY <4>1, <4>2 DEF Answered, NoAnswer
    <3>3. CASE Refusal(request) = "none"
      <4> DEFINE step == sessions[session].step + 1
                 total == sessions[session].total
      <4>1. /\ sessions' = [sessions EXCEPT ![session].step = @ + 1]
            /\ answer' = [status |-> "ok", session |-> session,
                          view |-> [step |-> step, total |-> total,
                                    state |-> FromProgress(step, total)]]
        BY <1>1, <3>1, <3>3 DEF StepEffect, Effect
      <4>2. request.expected = Unconditional \/ request.expected = sessions[session].step
        BY <3>1, <3>3 DEF Refusal
      <4>3. sessions'[session].step = step /\ sessions'[session].total = total
        BY <3>1, <4>1 DEF WalkInv, TypeInv
      <4>4. Knows(answer.session, answer.view)'
        BY <3>1, <4>1, <4>3 DEF Knows, FromProgress, States, Sessions
      <4>5. client = "feed" => request.expected = view.step /\ view.step \in Nat
        BY <1>2, <1>3, <2>2 DEF WalkInv, Drains, TypeInv, Views
      <4>6. client = "feed" => answer'.view.step = view.step + 1
        BY <4>1, <4>2, <4>5 DEF Unconditional
      <4>7. QED
        BY <1>2, <1>3, <2>2, <4>1, <4>4, <4>6 DEF Answered
    <3>4. QED
      BY <3>2, <3>3
  <2>3. CASE request.kind = "delete"
    BY <1>2, <1>3, <2>3 DEF Answered
  <2>4. QED
    BY <1>3, <2>1, <2>2, <2>3 DEF Addressed, Kinds
<1>8. QED
  BY <1>5, <1>6, <1>7 DEF WalkInv

\* A request nobody waits for any more.
LEMMA ServeLateKeeps ==
  ASSUME WalkInv, ServeLate
  PROVE  WalkInv'
<1>1. PICK r \in late :
        /\ \E e \in Effects(r) : sessions' = e.sessions /\ created' = e.created
        /\ late' = late \ {r}
        /\ UNCHANGED <<request, answer, clientVars, client>>
  BY DEF ServeLate
<1>2. Grows(sessions', created')
  BY <1>1, EffectsGrow DEF WalkInv, TypeInv
<1>3. /\ TypeInv' /\ Bounded' /\ Drains' /\ OneSession' /\ Answered'
      /\ (IF session = 0 THEN view = NoView ELSE Knows(session, view))'
  BY <1>1, <1>2, GrowsKeeps DEF WalkInv, TypeInv
<1>4. Waits'
  BY <1>1, <1>3 DEF WalkInv, Waits, clientVars
<1>5. QED
  BY <1>3, <1>4 DEF WalkInv

-----------------------------------------------------------------------------
(* The client.                                                             *)

\* Without an answer under way nothing is said of one.
LEMMA SettledWaitsForNothing ==
  ASSUME Settled
  PROVE  /\ answer'.status = "none" /\ request' = NoRequest
         /\ Answered'
  BY DEF Settled, NoAnswer, Answered

\* A failed attempt leaves the tape and the view alone, and a drain that
\* stops for a cause is not complete.
LEMMA FailureKeeps ==
  ASSUME WalkInv, NEW cause, cause # "none", AttemptFails(cause), Settled,
         request # NoRequest, late' \in SUBSET (late \cup {request}),
         UNCHANGED <<serverVars, client>>
  PROVE  WalkInv'
<1>1. /\ Addressed(request) /\ request.kind = phase /\ phase \in Kinds
      /\ phase # "create" => session # 0
  BY DEF WalkInv, TypeInv, Waits, Addressed
<1>2. UNCHANGED <<sessions, created, client, session, view, tape>>
  BY DEF AttemptFails, serverVars
<1>3. /\ client = "market" => phase' = "idle"
      /\ client = "feed" =>
           \/ phase' = phase /\ outcome' = outcome
           \/ phase = "create" /\ phase' = "failed"
           \/ phase = "step" /\ phase' = "delete" /\ outcome' # "none"
           \/ phase = "delete" /\ phase' = "opened" /\ outcome = "none" /\ tape # <<>>
           \/ phase = "delete" /\ phase' = "failed"
  BY <1>1 DEF AttemptFails, Kinds, StopDrain, AfterDrain, Close
<1>4. phase' \in Phases
  BY <1>1, <1>3 DEF WalkInv, TypeInv, Phases, Kinds
<1>5. TypeInv'
  BY <1>1, <1>2, <1>4, SettledWaitsForNothing
     DEF WalkInv, TypeInv, Addressed, Settled, NoAnswer, NoView, Answers, Views
<1>6. Bounded' /\ OneSession' /\ Waits' /\ Answered'
  BY <1>2, SettledWaitsForNothing DEF WalkInv, Bounded, OneSession, Waits, Knows
<1>7. Drains'
  BY <1>1, <1>2, <1>3, SettledWaitsForNothing DEF WalkInv, Drains, Kinds, TypeInv
<1>8. QED
  BY <1>5, <1>6, <1>7 DEF WalkInv

\* A request given up on (is_timeout) keeps the invariant: what it leaves on the
\* wire is at the step the next request asks for, or older.
LEMMA TimeoutKeeps ==
  ASSUME WalkInv, Timeout
  PROVE  WalkInv'
<1>1. late' \in SUBSET (late \cup {request})
  BY DEF Timeout
<1>2. QED
  BY <1>1, FailureKeeps DEF Timeout

\* An error answer keeps it: the client decides on the status alone and the walk
\* is not advanced.
LEMMA ReceiveErrorKeeps ==
  ASSUME WalkInv, ReceiveError
  PROVE  WalkInv'
<1>1. answer.status # "none" /\ request # NoRequest
  BY DEF ReceiveError, WalkInv, Waits
<1>2. QED
  BY <1>1, FailureKeeps DEF ReceiveError

\* A request leaves, about the session of its sender; an advance expects the
\* step the tape ends with.
LEMMA SendKeeps ==
  ASSUME WalkInv, NEW kind \in Kinds, NEW id, NEW expected, Send(kind, id, expected),
         kind # "create" => session # 0 /\ id = session,
         phase' = kind, client = "feed" => phase = kind,
         client = "feed" /\ kind = "step" => expected = view.step,
         UNCHANGED <<serverVars, client, session, view, tape, outcome>>
  PROVE  WalkInv'
<1>1. /\ request = NoRequest /\ UNCHANGED <<answer, late>>
      /\ request'.kind = kind /\ request'.expected = expected
      /\ kind # "create" => request'.session = session
      /\ UNCHANGED <<sessions, created>>
  BY DEF Send, serverVars
<1>2. answer.status = "none" /\ answer'.status = "none"
  BY <1>1 DEF WalkInv, Waits, TypeInv, Answers
<1>3. TypeInv'
  BY <1>1 DEF WalkInv, TypeInv, Addressed, Phases, Kinds
<1>4. Bounded' /\ OneSession' /\ Waits' /\ Answered'
  BY <1>1, <1>2 DEF WalkInv, Bounded, OneSession, Waits, Answered, Knows
<1>5. Drains'
  BY <1>1 DEF WalkInv, Drains, Kinds, TypeInv
<1>6. QED
  BY <1>3, <1>4, <1>5 DEF WalkInv

\* Sending a request of the feed's open keeps it.
LEMMA FeedSendsKeeps ==
  ASSUME WalkInv, FeedSends
  PROVE  WalkInv'
<1>1. /\ client = "feed" /\ phase' = phase
      /\ UNCHANGED <<serverVars, client, session, view, tape, outcome>>
  BY DEF FeedSends, clientVars
<1>2. phase \in {"step", "delete"} => session # 0
  BY <1>1 DEF WalkInv, Drains
<1>3. CASE phase = "create" /\ Send("create", 0, Unconditional)
  BY <1>1, <1>3, SendKeeps DEF Kinds
<1>4. CASE phase = "step" /\ Send("step", session, view.step)
  BY <1>1, <1>2, <1>4, SendKeeps DEF Kinds
<1>5. CASE phase = "delete" /\ Send("delete", session, Unconditional)
  BY <1>1, <1>2, <1>5, SendKeeps DEF Kinds
<1>6. QED
  BY <1>3, <1>4, <1>5 DEF FeedSends, Expected

\* A call of MarketSimulator keeps it: it is a session of its own.
LEMMA MarketCallsKeeps ==
  ASSUME WalkInv, MarketCalls
  PROVE  WalkInv'
<1>1. /\ client = "market"
      /\ UNCHANGED <<serverVars, client, session, view, tape, outcome>>
  BY DEF MarketCalls
<1>2. CASE phase' = "create" /\ Send("create", 0, Unconditional)
  BY <1>1, <1>2, SendKeeps DEF Kinds
<1>3. CASE session # 0 /\ phase' = "step" /\ Send("step", session, Unconditional)
  BY <1>1, <1>3, SendKeeps DEF Kinds
<1>4. CASE session # 0 /\ phase' = "delete" /\ Send("delete", session, Unconditional)
  BY <1>1, <1>4, SendKeeps DEF Kinds
<1>5. QED
  BY <1>2, <1>3, <1>4 DEF MarketCalls

\* The phase of a client that holds an answer is that of its request.
LEMMA AnswerOfPhase ==
  ASSUME WalkInv, answer.status = "ok", phase \in {"create", "step"}
  PROVE  /\ Knows(answer.session, answer.view) /\ answer.session # 0
         /\ answer.session \in 1..created /\ answer.view \in Views
  BY DEF WalkInv, Answered, Knows, TypeInv, Answers

\* A session was created: the tape is empty and so is the walk so far.
LEMMA FeedCreatedKeeps ==
  ASSUME WalkInv, FeedCreated
  PROVE  WalkInv'
<1>1. /\ client = "feed" /\ phase = "create" /\ answer.status = "ok" /\ Settled
      /\ session' = answer.session /\ view' = answer.view
      /\ phase' \in {"delete", "step"}
      /\ UNCHANGED <<sessions, created, late, tape, outcome, client>>
  BY DEF FeedCreated, Adopt, serverVars
<1>2. /\ tape = <<>> /\ outcome = "none" /\ answer.view.step = 0
  BY <1>1 DEF WalkInv, Drains, Answered
<1>3. /\ Knows(answer.session, answer.view) /\ answer.session # 0
      /\ answer.session \in 1..created /\ answer.view \in Views
  BY <1>1, AnswerOfPhase
<1>4. TypeInv'
  BY <1>1, <1>3, SettledWaitsForNothing
     DEF WalkInv, TypeInv, Addressed, Phases, Settled, NoAnswer, NoView, Answers, Views
<1>5. Bounded' /\ OneSession' /\ Waits' /\ Answered'
  BY <1>1, <1>2, <1>3, SettledWaitsForNothing
     DEF WalkInv, Bounded, OneSession, Waits, Knows
<1>6. Drains'
  BY <1>1, <1>2, <1>3, SettledWaitsForNothing DEF Drains
<1>7. QED
  BY <1>4, <1>5, <1>6 DEF WalkInv

\* The walk advanced: the snapshot is the one after the last of the tape, and
\* the drain is over when it was the last of the session.
LEMMA FeedSteppedKeeps ==
  ASSUME WalkInv, FeedStepped
  PROVE  WalkInv'
<1>1. /\ client = "feed" /\ phase = "step" /\ answer.status = "ok" /\ Settled
      /\ UNCHANGED <<sessions, created, late, session, client>>
  BY DEF FeedStepped, serverVars
<1>2. /\ session # 0 /\ outcome = "none" /\ Len(tape) = view.step
      /\ answer.session = session /\ answer.view.step = view.step + 1
      /\ answer.view.state = FromProgress(answer.view.step, answer.view.total)
  BY <1>1 DEF WalkInv, Drains, Answered
<1>3. /\ Knows(session, answer.view) /\ answer.view \in Views
  BY <1>1, <1>2, AnswerOfPhase
<1>4. /\ session \in 1..created /\ tape \in Seq([session : Nat, step : Nat])
      /\ view \in Views /\ Knows(session, view)
  BY <1>2 DEF WalkInv, Waits, Knows, TypeInv
<1>5. CASE phase' = "delete" /\ outcome' # "none" /\ UNCHANGED <<tape, view>>
  <2>1. TypeInv'
    BY <1>1, <1>5, SettledWaitsForNothing
       DEF WalkInv, TypeInv, Addressed, Phases, Settled, NoAnswer, NoView, Answers, Views
  <2>2. Bounded' /\ OneSession' /\ Waits' /\ Answered'
    BY <1>1, <1>2, <1>4, <1>5, SettledWaitsForNothing
       DEF WalkInv, Bounded, OneSession, Waits, Knows
  <2>3. Drains'
    BY <1>1, <1>2, <1>5, SettledWaitsForNothing DEF Drains
  <2>4. QED
    BY <2>1, <2>2, <2>3 DEF WalkInv
<1>6. CASE /\ tape' = Append(tape, [session |-> answer.session,
                                   step |-> answer.view.step])
           /\ view' = answer.view /\ outcome' = outcome
           /\ phase' = IF Terminal(answer.view.state) THEN "delete" ELSE "step"
  <2> DEFINE snapshot == [session |-> session, step |-> view.step + 1]
  <2>1. /\ tape' = Append(tape, snapshot) /\ snapshot \in [session : Nat, step : Nat]
        /\ Len(tape') = Len(tape) + 1
    BY <1>2, <1>4, <1>6 DEF Views, WalkInv, TypeInv
  <2>2. OneSession'
    <3>1. \A i \in DOMAIN tape' : tape'[i] = IF i = Len(tape) + 1 THEN snapshot ELSE tape[i]
      BY <1>4, <2>1
    <3>2. \A i \in DOMAIN tape' : i # Len(tape) + 1 => i \in DOMAIN tape
      BY <1>4, <2>1
    <3>3. QED
      BY <1>1, <1>2, <3>1, <3>2 DEF WalkInv, OneSession
  <2>3. TypeInv'
    BY <1>1, <1>3, <1>4, <1>6, <2>1, SettledWaitsForNothing
       DEF WalkInv, TypeInv, Addressed, Phases, Settled, NoAnswer, NoView, Answers, Views
  <2>4. Bounded' /\ Waits' /\ Answered'
    BY <1>1, <1>2, <1>3, <1>6, SettledWaitsForNothing
       DEF WalkInv, Bounded, Waits, Knows
  <2>5. phase' = "delete" => Len(tape') = sessions[session].total
    <3>1. sessions[session] \in Sessions /\ sessions[session].step <= sessions[session].total
      BY <1>4, SimulatorAssumption DEF WalkInv, TypeInv, Bounded, Ids
    <3>2. /\ answer.view.step <= sessions[session].step
          /\ answer.view.total = sessions[session].total
      BY <1>3 DEF Knows
    <3>3. phase' = "delete" => answer.view.step >= answer.view.total
      BY <1>2, <1>6 DEF FromProgress, Terminal
    <3>4. QED
      BY <1>2, <1>3, <2>1, <3>1, <3>2, <3>3 DEF Sessions, Views
  <2>6. Drains'
    BY <1>1, <1>2, <1>6, <2>1, <2>5, SettledWaitsForNothing DEF Drains
  <2>7. QED
    BY <2>2, <2>3, <2>4, <2>6 DEF WalkInv
<1>7. QED
  BY <1>1, <1>5, <1>6 DEF FeedStepped, StopDrain, AfterDrain

\* The answer to the feed's DELETE keeps it.
LEMMA FeedDeletedKeeps ==
  ASSUME WalkInv, FeedDeleted
  PROVE  WalkInv'
<1>1. /\ client = "feed" /\ phase = "delete" /\ Settled
      /\ \/ phase' = "opened" /\ outcome = "none" /\ tape # <<>>
         \/ phase' = "failed"
      /\ UNCHANGED <<sessions, created, late, session, view, tape, client>>
  BY DEF FeedDeleted, Close, serverVars
<1>2. session # 0
  BY <1>1 DEF WalkInv, Drains
<1>3. TypeInv'
  BY <1>1, SettledWaitsForNothing
     DEF WalkInv, TypeInv, Addressed, Phases, Settled, NoAnswer, NoView, Answers, Views
<1>4. Bounded' /\ OneSession' /\ Waits' /\ Answered'
  BY <1>1, <1>2, SettledWaitsForNothing DEF WalkInv, Bounded, OneSession, Waits, Knows
<1>5. Drains'
  BY <1>1, <1>2, SettledWaitsForNothing DEF WalkInv, Drains
<1>6. QED
  BY <1>3, <1>4, <1>5 DEF WalkInv

\* Any answer to a MarketSimulator call keeps it.
LEMMA MarketReceivesKeeps ==
  ASSUME WalkInv, MarketReceives
  PROVE  WalkInv'
<1>1. /\ client = "market" /\ answer.status = "ok" /\ phase' = "idle" /\ Settled
      /\ UNCHANGED <<sessions, created, late, tape, client>>
  BY DEF MarketReceives, serverVars
<1>2. phase \in Kinds /\ tape = <<>>
  BY <1>1 DEF WalkInv, Waits, TypeInv, Addressed, Drains
<1>3. \/ session' = 0 /\ view' = NoView
      \/ /\ session' \in 1..created /\ session' # 0 /\ view' \in Views
         /\ Knows(session', view')
  <2>1. CASE phase = "delete"
    BY <2>1 DEF MarketReceives
  <2>2. CASE phase \in {"create", "step"}
    BY <1>1, <2>2, AnswerOfPhase DEF MarketReceives, Adopt
  <2>3. QED
    BY <1>2, <2>1, <2>2 DEF Kinds
<1>4. session' \in 0..created /\ view' \in Views
  BY <1>3 DEF WalkInv, TypeInv, NoView, Views
<1>5. TypeInv'
  BY <1>1, <1>4, SettledWaitsForNothing
     DEF WalkInv, TypeInv, Addressed, Phases, Settled, NoAnswer, NoView, Answers, Views
<1>6. Bounded' /\ OneSession' /\ Waits' /\ Answered'
  BY <1>1, <1>2, <1>3, SettledWaitsForNothing
     DEF WalkInv, Bounded, OneSession, Waits, Knows
<1>7. Drains'
  BY <1>1, <1>2 DEF Drains
<1>8. QED
  BY <1>5, <1>6, <1>7 DEF WalkInv

-----------------------------------------------------------------------------
\* The invariant holds before the first request.
LEMMA InitWalkInv ==
  ASSUME Init
  PROVE  WalkInv
<1> USE SimulatorAssumption DEF Init
<1>1. TypeInv
  BY DEF TypeInv, Sessions, States, Absent, Phases, Views, NoView, Answers, NoAnswer
<1>2. Bounded
  BY DEF Bounded, Absent
<1>3. Waits /\ Answered /\ Drains /\ OneSession
  BY DEF Waits, Answered, Drains, OneSession, NoAnswer
<1>4. QED
  BY <1>1, <1>2, <1>3 DEF WalkInv

\* A step that changes nothing keeps it.
LEMMA StutterWalkInv ==
  ASSUME WalkInv, UNCHANGED vars
  PROVE  WalkInv'
<1> USE DEF vars, serverVars, wireVars, clientVars, WalkInv
<1>1. TypeInv' /\ Bounded'
  BY DEF TypeInv, Addressed, Bounded
<1>2. Waits' /\ Answered'
  BY DEF Waits, Answered, Knows
<1>3. Drains' /\ OneSession'
  BY DEF Drains, OneSession
<1>4. QED
  BY <1>1, <1>2, <1>3

\* The invariant says what the property does.
LEMMA WalkInvSuffices ==
  ASSUME WalkInv
  PROVE  TapeIsWalk
<1>1. \A i \in DOMAIN tape : tape[i] = [session |-> session, step |-> i]
  BY DEF WalkInv, OneSession
<1>2. phase = "opened" => Len(tape) = sessions[session].total
  BY DEF WalkInv, Drains, TypeInv
<1>3. ASSUME client = "market", session # 0
      PROVE  /\ view.step <= sessions[session].step
             /\ view.total = sessions[session].total
             /\ IsTerminated => \/ sessions[session].step >= sessions[session].total
                                \/ sessions[session].state = "Error"
  <2>1. Knows(session, view) /\ view \in Views
    BY <1>3 DEF WalkInv, Waits, TypeInv
  <2>2. session \in Ids /\ sessions[session] \in Sessions
    BY <2>1, SimulatorAssumption DEF Knows, WalkInv, TypeInv, Ids
  <2>3. view # NoView
    BY <2>1 DEF Knows, NoView, States
  <2>4. QED
    BY <2>1, <2>2, <2>3 DEF Knows, IsTerminated, Terminal, Views, Sessions
<1>4. QED
  BY <1>1, <1>2, <1>3 DEF TapeIsWalk

\* Every step keeps it.
LEMMA NextKeepsWalk ==
  ASSUME WalkInv, [Next]_vars
  PROVE  WalkInv'
<1>1. CASE Serve
  BY <1>1, ServeKeeps
<1>2. CASE ServeLate
  BY <1>2, ServeLateKeeps
<1>3. CASE FeedSends
  BY <1>3, FeedSendsKeeps
<1>4. CASE Timeout
  BY <1>4, TimeoutKeeps
<1>5. CASE ReceiveError
  BY <1>5, ReceiveErrorKeeps
<1>6. CASE FeedCreated
  BY <1>6, FeedCreatedKeeps
<1>7. CASE FeedStepped
  BY <1>7, FeedSteppedKeeps
<1>8. CASE FeedDeleted
  BY <1>8, FeedDeletedKeeps
<1>9. CASE MarketReceives
  BY <1>9, MarketReceivesKeeps
<1>10. CASE MarketCalls
  BY <1>10, MarketCallsKeeps
<1>11. CASE UNCHANGED vars
  BY <1>11, StutterWalkInv
<1>12. QED
  BY <1>1, <1>2, <1>3, <1>4, <1>5, <1>6, <1>7, <1>8, <1>9, <1>10, <1>11
     DEF Next, ClientStep

\* Whatever requests and answers are lost, late or sent again, the tape of a
\* feed is the walk of one session, step after step, to its end once the feed
\* opens; and a market simulator never runs ahead of its session.
THEOREM TapeAlwaysWalk == Spec => []TapeIsWalk
<1>1. Init => WalkInv
  BY InitWalkInv
<1>2. WalkInv /\ [Next]_vars => WalkInv'
  BY NextKeepsWalk
<1>3. WalkInv => TapeIsWalk
  BY WalkInvSuffices
<1>4. QED
  BY <1>1, <1>2, <1>3, PTL DEF Spec

-----------------------------------------------------------------------------
(***************************************************************************)
(* What a SimulatorFeed says when it does not open, and what it leaves     *)
(* behind on the server: FailsForCause and NoLeak, for every value of the  *)
(* constants.                                                              *)
(* FailsForCause rests on what the server can do to a client that missed   *)
(* no answer: nothing the client did not ask for (Quiet).  NoLeak rests on *)
(* a count: every session nobody knows, and every create request still     *)
(* under way, is one that went unanswered (Counted).                       *)
(***************************************************************************)

Causes == {"none", "flaw", "max_steps", "empty", "transport", "404", "410", "412"}

\* No attempt to create the session or to advance it went unanswered.
Unmissed == timeouts["create"] = 0 /\ timeouts["step"] = 0

Tallies ==
  /\ attempt \in 1..Attempts
  /\ timeouts \in [Kinds -> Nat]

\* A drain goes on only while the server has declared steps.
StepsLeft == phase = "step" => view.step < view.total

\* A create request is never refused.
NeverRefused == phase = "create" => answer.status \in {"none", "ok"}

\* With nothing missed nothing is late, and the session is where the last
\* answer, received or on its way, says.
Quiet ==
  (phase \in {"create", "step"} /\ Unmissed) =>
    /\ late = {}
    /\ answer.status \in {"none", "ok"}
    /\ (phase = "create" /\ answer.status = "ok") =>
         /\ sessions[answer.session].status = "live"
         /\ sessions[answer.session].step = answer.view.step
    /\ phase = "step" =>
         /\ sessions[session].status = "live"
         /\ sessions[session].step =
              IF answer.status = "ok" THEN answer.view.step ELSE view.step

\* The session had no step, or none that could be taken.
Stillborn == session # 0 /\ (sessions[session].total = 0 \/ sessions[session].state = "Error")

\* The outcome so far, with what is known of each cause.
Explained ==
  /\ outcome \in Causes
  /\ phase = "failed" => outcome # "none"
  /\ outcome = "max_steps" => session # 0 /\ sessions[session].total > MaxSteps
  /\ outcome = "empty" => Stillborn
  /\ (phase = "delete" /\ outcome = "none" /\ tape = <<>>) => Stillborn
  /\ outcome \in {"transport", "404", "410", "412"} => ~Unmissed

\* The inductive invariant of the first theorem, on top of WalkInv.
CauseInv ==
  client = "feed" => Tallies /\ StepsLeft /\ NeverRefused /\ Quiet /\ Explained

-----------------------------------------------------------------------------
(* What a request may do to the sessions.                                  *)

\* The parts of an effect, request by request.
LEMMA EffectParts ==
  ASSUME TypeInv, NEW r, Addressed(r), NEW e \in Effects(r)
  PROVE  /\ r.kind = "create" =>
              /\ created + 1 \in Ids
              /\ e.created = created + 1
              /\ e.answer.status = "ok" /\ e.answer.session = created + 1
              /\ e.answer.view.step = 0
              /\ e.sessions[created + 1].status = "live"
              /\ e.sessions[created + 1].step = 0
              /\ \A i \in Ids \ {created + 1} : e.sessions[i] = sessions[i]
         /\ r.kind = "step" =>
              /\ r.session \in Ids /\ e.created = created
              /\ \A i \in Ids : e.sessions[i].status = sessions[i].status
              /\ \/ /\ Refusal(r) # "none" /\ e.sessions = sessions
                    /\ e.answer.status = Refusal(r)
                 \/ /\ Refusal(r) = "none" /\ e.answer.status = "ok"
                    /\ e.sessions[r.session].step = sessions[r.session].step + 1
                    /\ e.answer.view.step = sessions[r.session].step + 1
         /\ r.kind = "delete" =>
              /\ r.session \in Ids /\ e.created = created
              /\ e.answer.status # "none"
              /\ e.sessions[r.session].status # "live"
              /\ \A i \in Ids \ {r.session} : e.sessions[i] = sessions[i]
<1> USE SimulatorAssumption
<1>1. ASSUME r.kind = "create"
      PROVE  /\ created + 1 \in Ids
             /\ e.created = created + 1
             /\ e.answer.status = "ok" /\ e.answer.session = created + 1
             /\ e.answer.view.step = 0
             /\ e.sessions[created + 1].status = "live"
             /\ e.sessions[created + 1].step = 0
             /\ \A i \in Ids \ {created + 1} : e.sessions[i] = sessions[i]
  <2>1. created + 1 \in Ids /\ e \in CreateEffects
    BY <1>1 DEF Effects, TypeInv, Ids
  <2>2. PICK s \in [status : {"live"}, step : {0}, total : 0..MaxTotal,
                    state : {"Initialized", "Error"}] :
          e = Effect([sessions EXCEPT ![created + 1] = s], created + 1,
                     [status |-> "ok", session |-> created + 1,
                      view |-> [step |-> 0, total |-> s.total, state |-> s.state]])
    BY <2>1 DEF CreateEffects
  <2>3. s.status = "live" /\ s.step = 0
    OBVIOUS
  <2>4. QED
    BY <2>1, <2>2, <2>3 DEF Effect, TypeInv
<1>2. ASSUME r.kind = "step"
      PROVE  /\ r.session \in Ids /\ e.created = created
             /\ \A i \in Ids : e.sessions[i].status = sessions[i].status
             /\ \/ /\ Refusal(r) # "none" /\ e.sessions = sessions
                   /\ e.answer.status = Refusal(r)
                \/ /\ Refusal(r) = "none" /\ e.answer.status = "ok"
                   /\ e.sessions[r.session].step = sessions[r.session].step + 1
                   /\ e.answer.view.step = sessions[r.session].step + 1
  <2>1. r.session \in Ids /\ e = StepEffect(r) /\ sessions \in [Ids -> Sessions]
    BY <1>2 DEF Effects, Addressed, TypeInv, Ids
  <2>2. CASE Refusal(r) # "none"
    BY <2>1, <2>2 DEF StepEffect, Refused, Effect, NoAnswer
  <2>3. CASE Refusal(r) = "none"
    <3>1. /\ e.sessions = [sessions EXCEPT ![r.session].step = @ + 1]
          /\ e.created = created
          /\ e.answer.status = "ok"
          /\ e.answer.view.step = sessions[r.session].step + 1
      BY <2>1, <2>3 DEF StepEffect, Effect
    <3>2. sessions[r.session] \in Sessions
      BY <2>1
    <3>3. /\ e.sessions[r.session].step = sessions[r.session].step + 1
          /\ e.sessions[r.session].status = sessions[r.session].status
          /\ \A i \in Ids \ {r.session} : e.sessions[i] = sessions[i]
      BY <2>1, <3>1, <3>2 DEF Sessions
    <3>4. QED
      BY <2>1, <2>3, <3>1, <3>3
  <2>4. QED
    BY <2>2, <2>3
<1>3. ASSUME r.kind = "delete"
      PROVE  /\ r.session \in Ids /\ e.created = created
             /\ e.answer.status # "none"
             /\ e.sessions[r.session].status # "live"
             /\ \A i \in Ids \ {r.session} : e.sessions[i] = sessions[i]
  <2>1. r.session \in Ids /\ e = DeleteEffect(r) /\ sessions \in [Ids -> Sessions]
    BY <1>3 DEF Effects, Addressed, TypeInv, Ids
  <2>2. CASE sessions[r.session].status # "live"
    BY <2>1, <2>2 DEF DeleteEffect, Refused, Effect, NoAnswer
  <2>3. CASE sessions[r.session].status = "live"
    <3>1. /\ e.sessions = [sessions EXCEPT ![r.session].status = "deleted"]
          /\ e.created = created /\ e.answer.status = "ok"
      BY <2>1, <2>3 DEF DeleteEffect, Effect, NoAnswer
    <3>2. sessions[r.session] \in Sessions
      BY <2>1
    <3>3. e.sessions[r.session].status = "deleted"
      BY <2>1, <3>1, <3>2 DEF Sessions
    <3>4. QED
      BY <2>1, <3>1, <3>3
  <2>4. QED
    BY <2>2, <2>3
<1>4. QED
  BY <1>1, <1>2, <1>3

-----------------------------------------------------------------------------
(* Why a feed fails.                                                       *)

\* A session is what it was, but further on.
LEMMA StillbornStays ==
  ASSUME TypeInv, Grows(sessions', created'), session' = session
  PROVE  /\ Stillborn => Stillborn'
         /\ (session # 0 /\ sessions[session].total > MaxSteps) =>
              sessions'[session].total > MaxSteps
BY DEF Stillborn, Grows, TypeInv

\* The answer to the request waited on: an advance that nothing disturbed is
\* not refused.
LEMMA ServeKeepsCause ==
  ASSUME WalkInv, CauseInv, client = "feed", Serve
  PROVE  CauseInv'
<1>1. PICK e \in Effects(request) :
        sessions' = e.sessions /\ created' = e.created /\ answer' = e.answer
  BY DEF Serve
<1>2. /\ answer = NoAnswer /\ request # NoRequest
      /\ UNCHANGED <<request, late, client, phase, attempt, session, view, tape,
                     outcome, timeouts>>
  BY DEF Serve, clientVars
<1>3. /\ Addressed(request) /\ request.kind = phase /\ phase \in Kinds
      /\ phase # "create" => session # 0 /\ request.session = session
  BY <1>2 DEF WalkInv, TypeInv, Waits, Addressed
<1>4. Grows(sessions', created')
  BY <1>1, <1>3, EffectsGrow DEF WalkInv
<1>5. Tallies' /\ StepsLeft'
  BY <1>2 DEF CauseInv, Tallies, StepsLeft
<1>6. Explained'
  <2>1. Stillborn => Stillborn'
    BY <1>2, <1>4, StillbornStays DEF WalkInv
  <2>2. (session # 0 /\ sessions[session].total > MaxSteps) =>
          sessions'[session].total > MaxSteps
    BY <1>2, <1>4, StillbornStays DEF WalkInv
  <2>3. QED
    BY <1>2, <2>1, <2>2 DEF CauseInv, Explained, Unmissed
<1>7. CASE phase = "create"
  <2>1. request.kind = "create"
    BY <1>3, <1>7
  <2>2. /\ answer'.status = "ok" /\ answer'.session = created + 1
        /\ answer'.view.step = 0
        /\ sessions'[created + 1].status = "live"
        /\ sessions'[created + 1].step = 0
    BY <1>1, <1>3, <2>1, EffectParts DEF WalkInv
  <2>3. NeverRefused'
    BY <2>2 DEF NeverRefused
  <2>4. Quiet'
    BY <1>2, <1>7, <2>2 DEF CauseInv, Quiet, Unmissed
  <2>5. QED
    BY <1>5, <1>6, <2>3, <2>4 DEF CauseInv
<1>8. CASE phase = "step"
  <2>1. /\ request.kind = "step" /\ request.session = session
        /\ request.expected = view.step
        /\ session \in Ids /\ sessions[session] \in Sessions
        /\ view.total = sessions[session].total
    BY <1>2, <1>3, <1>8, SimulatorAssumption DEF WalkInv, Drains, Waits, Knows, TypeInv, Ids
  <2>2. ASSUME Unmissed
        PROVE  Refusal(request) = "none"
    <3>1. sessions[session].status = "live" /\ sessions[session].step = view.step
      BY <1>2, <1>8, <2>2 DEF CauseInv, Quiet, NoAnswer
    <3>2. view.step < view.total
      BY <1>8 DEF CauseInv, StepsLeft
    <3>3. QED
      BY <2>1, <3>1, <3>2 DEF Refusal, Sessions
  <2>3. ASSUME Unmissed
        PROVE  /\ answer'.status = "ok"
               /\ sessions'[session].status = "live"
               /\ sessions'[session].step = answer'.view.step
               /\ late' = {}
    <3>1. sessions[session].status = "live" /\ late = {}
      BY <1>8, <2>3 DEF CauseInv, Quiet
    <3>2. /\ \A i \in Ids : e.sessions[i].status = sessions[i].status
          /\ \/ Refusal(request) # "none"
             \/ /\ e.answer.status = "ok"
                /\ e.sessions[session].step = sessions[session].step + 1
                /\ e.answer.view.step = sessions[session].step + 1
      BY <1>1, <1>3, <2>1, EffectParts DEF WalkInv
    <3>3. QED
      BY <1>1, <1>2, <2>1, <2>2, <2>3, <3>1, <3>2
  <2>4. Quiet'
    BY <1>2, <1>8, <2>3 DEF Quiet, Unmissed
  <2>5. NeverRefused'
    BY <1>2, <1>8 DEF NeverRefused
  <2>6. QED
    BY <1>5, <1>6, <2>4, <2>5 DEF CauseInv
<1>9. CASE phase = "delete"
  BY <1>2, <1>5, <1>6, <1>9 DEF CauseInv, NeverRefused, Quiet
<1>10. QED
  BY <1>3, <1>7, <1>8, <1>9 DEF Kinds

\* A late request: there is one only when an attempt went unanswered.
LEMMA ServeLateKeepsCause ==
  ASSUME WalkInv, CauseInv, client = "feed", ServeLate
  PROVE  CauseInv'
<1>1. PICK r \in late :
        /\ \E e \in Effects(r) : sessions' = e.sessions /\ created' = e.created
        /\ UNCHANGED <<request, answer, client, phase, attempt, session, view, tape,
                       outcome, timeouts>>
  BY DEF ServeLate, clientVars
<1>2. Grows(sessions', created')
  BY <1>1, EffectsGrow DEF WalkInv, TypeInv
<1>3. Tallies' /\ StepsLeft' /\ NeverRefused'
  BY <1>1 DEF CauseInv, Tallies, StepsLeft, NeverRefused
<1>4. Quiet'
  BY <1>1 DEF CauseInv, Quiet, Unmissed
<1>5. Stillborn => Stillborn'
  BY <1>1, <1>2, StillbornStays DEF WalkInv
<1>6. (session # 0 /\ sessions[session].total > MaxSteps) =>
        sessions'[session].total > MaxSteps
  BY <1>1, <1>2, StillbornStays DEF WalkInv
<1>7. Explained'
  BY <1>1, <1>5, <1>6 DEF CauseInv, Explained, Unmissed
<1>8. QED
  BY <1>1, <1>3, <1>4, <1>7 DEF CauseInv

\* A failed attempt: one that counts as missed, or one of the delete.
LEMMA FailureKeepsCause ==
  ASSUME WalkInv, CauseInv, client = "feed", request # NoRequest, Settled,
         NEW cause \in {"transport", "404", "410", "412"}, AttemptFails(cause),
         UNCHANGED <<sessions, created, client>>,
         timeouts' \in [Kinds -> Nat],
         ~Unmissed => ~Unmissed',
         phase \in {"create", "step"} => ~Unmissed'
  PROVE  CauseInv'
<1>1. request.kind = phase /\ phase \in Kinds
  BY DEF WalkInv, TypeInv, Waits, Addressed
<1>2. /\ UNCHANGED <<session, view, tape>> /\ answer'.status = "none"
  BY DEF AttemptFails, Settled, NoAnswer
<1>3. /\ Tallies /\ StepsLeft /\ NeverRefused /\ Quiet /\ Explained
  BY DEF CauseInv
<1>4. \/ phase' = phase /\ outcome' = outcome /\ attempt < Attempts /\ attempt' = attempt + 1
      \/ phase = "create" /\ phase' = "failed" /\ outcome' = cause /\ attempt' = 1
      \/ phase = "step" /\ phase' = "delete" /\ outcome' = cause /\ attempt' = 1
      \/ phase = "delete" /\ Close
  BY <1>1 DEF AttemptFails, Kinds, StopDrain, AfterDrain, Retries, NextAttempt
<1>5. Tallies'
  BY <1>3, <1>4, SimulatorAssumption DEF Tallies, Close
<1>6. Stillborn' <=> Stillborn
  BY <1>2 DEF Stillborn
<1>7. CASE phase \in {"create", "step"}
  <2>1. ~Unmissed' /\ outcome = "none"
    BY <1>7 DEF WalkInv, Drains
  <2>2. StepsLeft' /\ NeverRefused' /\ Quiet'
    BY <1>2, <1>3, <1>4, <1>7, <2>1 DEF StepsLeft, NeverRefused, Quiet
  <2>3. Explained'
    BY <1>2, <1>3, <1>4, <1>7, <2>1 DEF Explained, Causes
  <2>4. QED
    BY <1>5, <2>2, <2>3 DEF CauseInv
<1>8. CASE phase = "delete"
  <2>1. /\ phase' \in {"delete", "opened", "failed"}
        /\ \/ phase' = "delete" /\ outcome' = outcome
           \/ phase' = "opened" /\ outcome' = outcome
           \/ phase' = "failed" /\ outcome = "none" /\ tape = <<>> /\ outcome' = "empty"
           \/ phase' = "failed" /\ outcome # "none" /\ outcome' = outcome
    BY <1>4, <1>8 DEF Close
  <2>2. StepsLeft' /\ NeverRefused' /\ Quiet'
    BY <2>1 DEF StepsLeft, NeverRefused, Quiet
  <2>3. Explained'
    BY <1>2, <1>3, <1>6, <1>8, <2>1 DEF Explained, Causes
  <2>4. QED
    BY <1>5, <2>2, <2>3 DEF CauseInv
<1>9. QED
  BY <1>1, <1>7, <1>8 DEF Kinds

\* An attempt that goes unanswered is counted.
LEMMA TimeoutKeepsCause ==
  ASSUME WalkInv, CauseInv, client = "feed", Timeout
  PROVE  CauseInv'
<1> USE SimulatorAssumption
<1>1. /\ request # NoRequest /\ AttemptFails("transport") /\ Settled
      /\ UNCHANGED <<sessions, created, client>>
      /\ timeouts' = [timeouts EXCEPT ![request.kind] = IF @ < Attempts THEN @ + 1 ELSE @]
  BY DEF Timeout, serverVars
<1>2. request.kind = phase /\ phase \in Kinds /\ timeouts \in [Kinds -> Nat]
  BY <1>1 DEF WalkInv, TypeInv, Waits, Addressed, CauseInv, Tallies
<1>3. /\ timeouts' \in [Kinds -> Nat]
      /\ timeouts'[phase] > 0
      /\ \A k \in Kinds \ {phase} : timeouts'[k] = timeouts[k]
  BY <1>1, <1>2
<1>4. /\ ~Unmissed => ~Unmissed'
      /\ phase \in {"create", "step"} => ~Unmissed'
  BY <1>2, <1>3 DEF Unmissed, Kinds
<1>5. QED
  BY <1>1, <1>3, <1>4, FailureKeepsCause

\* An error answers an advance only after an attempt that went unanswered.
LEMMA ReceiveErrorKeepsCause ==
  ASSUME WalkInv, CauseInv, client = "feed", ReceiveError
  PROVE  CauseInv'
<1>1. /\ answer.status \in {"404", "410", "412"}
      /\ AttemptFails(answer.status) /\ Settled
      /\ UNCHANGED <<sessions, created, client, timeouts>>
  BY DEF ReceiveError, serverVars
<1>2. request # NoRequest
  BY <1>1 DEF WalkInv, Waits
<1>3. timeouts' \in [Kinds -> Nat] /\ (Unmissed' <=> Unmissed)
  BY <1>1 DEF CauseInv, Tallies, Unmissed
<1>4. phase \in {"create", "step"} => ~Unmissed
  BY <1>1 DEF CauseInv, Quiet
<1>5. QED
  BY <1>1, <1>2, <1>3, <1>4, FailureKeepsCause

\* A session was created: it is where its first answer says.
LEMMA FeedCreatedKeepsCause ==
  ASSUME WalkInv, CauseInv, client = "feed", FeedCreated
  PROVE  CauseInv'
<1> USE SimulatorAssumption
<1>1. /\ phase = "create" /\ answer.status = "ok" /\ attempt' = 1
      /\ session' = answer.session /\ view' = answer.view
      /\ phase' = IF Ended(answer.view) THEN "delete" ELSE "step"
      /\ UNCHANGED <<sessions, created, late, tape, outcome, client, timeouts>>
      /\ answer'.status = "none"
  BY DEF FeedCreated, Adopt, serverVars, Settled, NoAnswer
<1>2. /\ Knows(answer.session, answer.view) /\ answer.session # 0
      /\ answer.view \in Views /\ answer.view.step = 0 /\ outcome = "none"
  BY <1>1, AnswerOfPhase DEF WalkInv, Answered, Drains
<1>3. Tallies'
  BY <1>1 DEF CauseInv, Tallies
<1>4. StepsLeft'
  BY <1>1, <1>2 DEF StepsLeft, Ended, Terminal, FromProgress, Views
<1>5. NeverRefused'
  BY <1>1 DEF NeverRefused
<1>6. Quiet'
  BY <1>1 DEF CauseInv, Quiet, Unmissed
<1>7. phase' = "delete" => Stillborn'
  BY <1>1, <1>2 DEF Stillborn, Ended, Terminal, FromProgress, Knows, Views
<1>8. Explained'
  BY <1>1, <1>2, <1>7 DEF Explained, Causes
<1>9. QED
  BY <1>3, <1>4, <1>5, <1>6, <1>8 DEF CauseInv

\* The walk advanced, or the drain stopped at a ceiling or a flaw.
LEMMA FeedSteppedKeepsCause ==
  ASSUME WalkInv, CauseInv, client = "feed", FeedStepped
  PROVE  CauseInv'
<1> USE SimulatorAssumption
<1>1. /\ phase = "step" /\ answer.status = "ok" /\ answer'.status = "none"
      /\ attempt' = 1
      /\ UNCHANGED <<sessions, created, late, session, client, timeouts>>
  BY DEF FeedStepped, serverVars, Settled, NoAnswer, StopDrain
<1>2. /\ session # 0 /\ outcome = "none" /\ Len(tape) = view.step
      /\ answer.view.state = FromProgress(answer.view.step, answer.view.total)
      /\ answer.view \in Views /\ tape \in Seq([session : Nat, step : Nat])
      /\ view.total = sessions[session].total
  BY <1>1 DEF WalkInv, Drains, Answered, Waits, Knows, TypeInv, Answers
<1>3. Tallies'
  BY <1>1 DEF CauseInv, Tallies
<1>4. CASE /\ phase' = "delete" /\ UNCHANGED <<tape, view>>
           /\ \/ outcome' = "flaw"
              \/ outcome' = "max_steps" /\ Len(tape) + 1 > MaxSteps
  <2>1. outcome' = "max_steps" => sessions[session].total > MaxSteps
    <3>1. view.step < view.total /\ view.step \in Nat /\ view.total \in Nat
      BY <1>1 DEF CauseInv, StepsLeft, WalkInv, TypeInv, Views
    <3>2. QED
      BY <1>2, <1>4, <3>1
  <2>2. Explained'
    BY <1>1, <1>2, <1>4, <2>1 DEF Explained, Causes
  <2>3. StepsLeft' /\ NeverRefused' /\ Quiet'
    BY <1>4 DEF StepsLeft, NeverRefused, Quiet
  <2>4. QED
    BY <1>3, <2>2, <2>3 DEF CauseInv
<1>5. CASE /\ tape' = Append(tape, [session |-> answer.session,
                                   step |-> answer.view.step])
           /\ view' = answer.view /\ outcome' = outcome
           /\ phase' = IF Terminal(answer.view.state) THEN "delete" ELSE "step"
  <2>1. StepsLeft'
    BY <1>2, <1>5 DEF StepsLeft, Terminal, FromProgress, Views
  <2>2. Quiet' /\ NeverRefused'
    BY <1>1, <1>5 DEF CauseInv, Quiet, Unmissed, NeverRefused
  <2>3. tape' # <<>>
    BY <1>2, <1>5
  <2>4. Explained'
    BY <1>2, <1>5, <2>3 DEF Explained, Causes
  <2>5. QED
    BY <1>3, <2>1, <2>2, <2>4 DEF CauseInv
<1>6. QED
  BY <1>4, <1>5 DEF FeedStepped, StopDrain, AfterDrain

\* The session is deleted: open returns with the outcome of the drain.
LEMMA FeedDeletedKeepsCause ==
  ASSUME WalkInv, CauseInv, client = "feed", FeedDeleted
  PROVE  CauseInv'
<1>1. /\ phase = "delete" /\ attempt' = 1
      /\ UNCHANGED <<sessions, created, session, tape, client, timeouts>>
      /\ phase' \in {"opened", "failed"}
      /\ \/ phase' = "opened" /\ outcome' = outcome
         \/ phase' = "failed" /\ outcome = "none" /\ tape = <<>> /\ outcome' = "empty"
         \/ phase' = "failed" /\ outcome # "none" /\ outcome' = outcome
  BY DEF FeedDeleted, Close, serverVars
<1>2. Tallies'
  BY <1>1, SimulatorAssumption DEF CauseInv, Tallies
<1>3. StepsLeft' /\ NeverRefused' /\ Quiet'
  BY <1>1 DEF StepsLeft, NeverRefused, Quiet
<1>4. Explained'
  BY <1>1 DEF CauseInv, Explained, Causes, Stillborn, Unmissed
<1>5. QED
  BY <1>2, <1>3, <1>4 DEF CauseInv

\* A request leaves, or nothing happens: nothing is learnt.
LEMMA SilenceKeepsCause ==
  ASSUME CauseInv, client = "feed",
         UNCHANGED <<sessions, answer, late, client, phase, attempt, session, view,
                     tape, outcome, timeouts>>
  PROVE  CauseInv'
<1>1. Tallies' /\ StepsLeft' /\ NeverRefused'
  BY DEF CauseInv, Tallies, StepsLeft, NeverRefused
<1>2. Quiet'
  BY DEF CauseInv, Quiet, Unmissed
<1>3. Explained'
  BY DEF CauseInv, Explained, Stillborn, Unmissed
<1>4. QED
  BY <1>1, <1>2, <1>3 DEF CauseInv

\* Every step keeps the invariant.
LEMMA NextKeepsCause ==
  ASSUME WalkInv, CauseInv, [Next]_vars
  PROVE  CauseInv'
<1>1. CASE client # "feed"
  <2>1. client' = client
    BY DEF Next, ClientStep, Serve, ServeLate, FeedSends, Timeout, ReceiveError,
           FeedCreated, FeedStepped, FeedDeleted, MarketReceives, MarketCalls, vars
  <2>2. QED
    BY <1>1, <2>1 DEF CauseInv
<1>2. CASE client = "feed"
  <2>1. CASE Serve
    BY <1>2, <2>1, ServeKeepsCause
  <2>2. CASE ServeLate
    BY <1>2, <2>2, ServeLateKeepsCause
  <2>3. CASE FeedSends
    <3>1. UNCHANGED <<sessions, answer, late, client, phase, attempt, session, view,
                      tape, outcome, timeouts>>
      BY <2>3 DEF FeedSends, Send, serverVars, clientVars
    <3>2. QED
      BY <1>2, <3>1, SilenceKeepsCause
  <2>4. CASE Timeout
    BY <1>2, <2>4, TimeoutKeepsCause
  <2>5. CASE ReceiveError
    BY <1>2, <2>5, ReceiveErrorKeepsCause
  <2>6. CASE FeedCreated
    BY <1>2, <2>6, FeedCreatedKeepsCause
  <2>7. CASE FeedStepped
    BY <1>2, <2>7, FeedSteppedKeepsCause
  <2>8. CASE FeedDeleted
    BY <1>2, <2>8, FeedDeletedKeepsCause
  <2>9. CASE MarketReceives \/ MarketCalls
    BY <1>2, <2>9 DEF MarketReceives, MarketCalls
  <2>10. CASE UNCHANGED vars
    <3>1. UNCHANGED <<sessions, answer, late, client, phase, attempt, session, view,
                      tape, outcome, timeouts>>
      BY <2>10 DEF vars, serverVars, wireVars, clientVars
    <3>2. QED
      BY <1>2, <3>1, SilenceKeepsCause
  <2>11. QED
    BY <2>1, <2>2, <2>3, <2>4, <2>5, <2>6, <2>7, <2>8, <2>9, <2>10 DEF Next, ClientStep
<1>3. QED
  BY <1>1, <1>2

\* A feed that does not open has a cause for it: the data or a ceiling, or an
\* attempt that went unanswered.  Its own precondition never refuses the
\* advance of a client that missed nothing.
THEOREM FailuresHaveCause == Spec => []FailsForCause
<1>1. Init => WalkInv /\ CauseInv
  <2>1. ASSUME Init PROVE CauseInv
    BY <2>1, SimulatorAssumption
       DEF Init, CauseInv, Tallies, StepsLeft, NeverRefused, Quiet, Explained, Causes,
           Kinds, NoAnswer
  <2>2. QED
    BY <2>1, InitWalkInv
<1>2. WalkInv /\ CauseInv /\ [Next]_vars => (WalkInv /\ CauseInv)'
  BY NextKeepsWalk, NextKeepsCause
<1>3. WalkInv /\ CauseInv => FailsForCause
  <2> SUFFICES ASSUME WalkInv, CauseInv, client = "feed", phase = "failed"
               PROVE  FailsForCause
    BY DEF FailsForCause
  <2>1. Explained /\ timeouts["create"] \in Nat /\ timeouts["step"] \in Nat
    BY DEF CauseInv, Tallies, Kinds
  <2>2. QED
    BY <2>1 DEF Explained, Causes, Stillborn, Unmissed, FailsForCause
<1>4. QED
  BY <1>1, <1>2, <1>3, PTL DEF Spec

-----------------------------------------------------------------------------
(* What a feed leaves behind.                                              *)

\* Sessions that live and that the client neither uses nor is about to be told
\* of, and create requests that may still arrive.
Known == {session} \cup
           (IF phase = "create" /\ answer.status = "ok" THEN {answer.session} ELSE {})
Strays == Live \ Known
LateCreates == {r \in late : r.kind = "create"}

\* Each of them is an attempt to create that went unanswered.
Counted ==
  /\ IsFiniteSet(late)
  /\ Cardinality(Strays) + Cardinality(LateCreates) <= timeouts["create"]
  /\ phase = "create" => timeouts["create"] = attempt - 1

\* While the session lives every attempt to delete it went unanswered.
Deleting ==
  /\ phase \in {"create", "step"} => timeouts["delete"] = 0
  /\ (phase = "delete" /\ session \in Live) =>
       timeouts["delete"] = attempt - 1 /\ answer.status = "none"
  /\ (phase \in {"opened", "failed"} /\ session \in Live) =>
       timeouts["delete"] = Attempts

\* The inductive invariant of the second theorem, on top of WalkInv and CauseInv.
LeakInv == client = "feed" => Counted /\ Deleting

\* A set has at most one element more than one that misses only x of it.
LEMMA OneMore ==
  ASSUME NEW S, IsFiniteSet(S), NEW x, NEW T, T \subseteq S \cup {x}
  PROVE  /\ IsFiniteSet(T)
         /\ Cardinality(S) \in Nat /\ Cardinality(T) \in Nat
         /\ Cardinality(T) <= Cardinality(S) + 1
         /\ T \subseteq S => Cardinality(T) <= Cardinality(S)
<1>1. /\ IsFiniteSet(S \cup {x})
      /\ Cardinality(S \cup {x}) = IF x \in S THEN Cardinality(S) ELSE Cardinality(S) + 1
  BY FS_AddElement
<1>2. IsFiniteSet(T) /\ Cardinality(T) <= Cardinality(S \cup {x})
  BY <1>1, FS_Subset
<1>3. Cardinality(S) \in Nat /\ Cardinality(T) \in Nat
  BY <1>2, FS_CardinalityType
<1>4. T \subseteq S => Cardinality(T) <= Cardinality(S)
  BY FS_Subset
<1>5. QED
  BY <1>1, <1>2, <1>3, <1>4

\* The sets are finite.
LEMMA StraysFinite ==
  ASSUME SimulatorAssumption, IsFiniteSet(late)
  PROVE  /\ IsFiniteSet(Strays) /\ Cardinality(Strays) \in Nat
         /\ IsFiniteSet(LateCreates) /\ Cardinality(LateCreates) \in Nat
<1>1. IsFiniteSet(Ids)
  BY FS_Interval DEF Ids, SimulatorAssumption
<1>2. Strays \in SUBSET Ids /\ LateCreates \in SUBSET late
  BY DEF Strays, Live, LateCreates
<1>3. IsFiniteSet(Strays) /\ IsFiniteSet(LateCreates)
  BY <1>1, <1>2, FS_Subset
<1>4. QED
  BY <1>3, FS_CardinalityType

\* Neither set grew.
LEMMA NotMore ==
  ASSUME TypeInv, CauseInv, client = "feed", Counted, IsFiniteSet(late'),
         Strays' \subseteq Strays, LateCreates' \subseteq LateCreates,
         timeouts'["create"] = timeouts["create"],
         phase' = "create" => phase = "create" /\ attempt' = attempt
  PROVE  Counted'
<1>1. /\ IsFiniteSet(Strays) /\ Cardinality(Strays) \in Nat
      /\ IsFiniteSet(LateCreates) /\ Cardinality(LateCreates) \in Nat
  BY SimulatorAssumption, StraysFinite DEF Counted
<1>2. Cardinality(Strays') \in Nat /\ Cardinality(Strays') <= Cardinality(Strays)
  BY <1>1, OneMore
<1>3. /\ Cardinality(LateCreates') \in Nat
      /\ Cardinality(LateCreates') <= Cardinality(LateCreates)
  BY <1>1, OneMore
<1>4. timeouts["create"] \in Nat
  BY DEF CauseInv, Tallies, Kinds
<1>5. QED
  BY <1>1, <1>2, <1>3, <1>4 DEF Counted

\* A request arrives: a session that dies stays dead, and a new one is told to
\* whoever waits for the answer.
LEMMA ServerLive ==
  ASSUME TypeInv, NEW r, Addressed(r), NEW e \in Effects(r), sessions' = e.sessions
  PROVE  /\ r.kind = "create" => /\ Live' \subseteq Live \cup {created + 1}
                                 /\ e.answer.status = "ok"
                                 /\ e.answer.session = created + 1
                                 /\ created + 1 # session
                                 /\ created + 1 \in Ids
         /\ r.kind # "create" => Live' \subseteq Live
         /\ r.kind = "delete" => r.session \notin Live' /\ e.answer.status # "none"
<1>1. CASE r.kind = "create"
  <2>1. /\ \A i \in Ids \ {created + 1} : e.sessions[i] = sessions[i]
        /\ e.answer.status = "ok" /\ e.answer.session = created + 1
        /\ created + 1 \in Ids
    BY <1>1, EffectParts
  <2>2. created + 1 # session
    BY SimulatorAssumption DEF TypeInv
  <2>3. QED
    BY <1>1, <2>1, <2>2 DEF Live
<1>2. CASE r.kind = "step"
  <2>1. \A i \in Ids : e.sessions[i].status = sessions[i].status
    BY <1>2, EffectParts
  <2>2. QED
    BY <1>2, <2>1 DEF Live
<1>3. CASE r.kind = "delete"
  <2>1. /\ r.session \in Ids /\ e.sessions[r.session].status # "live"
        /\ e.answer.status # "none"
        /\ \A i \in Ids \ {r.session} : e.sessions[i] = sessions[i]
    BY <1>3, EffectParts
  <2>2. QED
    BY <1>3, <2>1 DEF Live
<1>4. QED
  BY <1>1, <1>2, <1>3 DEF Addressed, Kinds

\* The answer to the request waited on.
LEMMA ServeKeepsLeak ==
  ASSUME WalkInv, CauseInv, LeakInv, client = "feed", Serve
  PROVE  LeakInv'
<1>1. PICK e \in Effects(request) : sessions' = e.sessions /\ answer' = e.answer
  BY DEF Serve
<1>2. /\ answer = NoAnswer /\ request # NoRequest
      /\ UNCHANGED <<late, client, phase, attempt, session, timeouts>>
  BY DEF Serve, clientVars
<1>3. /\ Addressed(request) /\ request.kind = phase
      /\ phase # "create" => request.session = session
  BY <1>2 DEF WalkInv, TypeInv, Waits
<1>4. /\ phase = "create" => /\ Live' \subseteq Live \cup {answer'.session}
                             /\ answer'.status = "ok"
                             /\ answer'.session # session
      /\ phase # "create" => Live' \subseteq Live
      /\ phase = "delete" => session \notin Live'
  BY <1>1, <1>3, ServerLive DEF WalkInv
<1>5. Strays' \subseteq Strays
  BY <1>2, <1>4 DEF Strays, Known, NoAnswer
<1>6. LateCreates' = LateCreates
  BY <1>2 DEF LateCreates
<1>7. Counted'
  BY <1>2, <1>5, <1>6, NotMore DEF WalkInv, LeakInv, Counted
<1>8. Deleting'
  BY <1>2, <1>3, <1>4 DEF LeakInv, Deleting, Addressed, Kinds
<1>9. QED
  BY <1>7, <1>8 DEF LeakInv

\* A late create makes a stray of itself; a late delete removes a session.
LEMMA ServeLateKeepsLeak ==
  ASSUME WalkInv, CauseInv, LeakInv, client = "feed", ServeLate
  PROVE  LeakInv'
<1> USE SimulatorAssumption
<1>1. PICK r \in late :
        /\ \E e \in Effects(r) : sessions' = e.sessions /\ created' = e.created
        /\ late' = late \ {r}
        /\ UNCHANGED <<request, answer, client, phase, attempt, session, timeouts>>
  BY DEF ServeLate, clientVars
<1>2. PICK e \in Effects(r) : sessions' = e.sessions
  BY <1>1
<1>3. /\ Addressed(r)
      /\ r.kind = "create" => Live' \subseteq Live \cup {created + 1}
      /\ r.kind = "create" => created + 1 # session
      /\ r.kind # "create" => Live' \subseteq Live
  BY <1>2, ServerLive DEF WalkInv, TypeInv
<1>4. IsFiniteSet(late) /\ IsFiniteSet(late')
  BY <1>1, FS_RemoveElement DEF LeakInv, Counted
<1>5. Known' = Known
  BY <1>1 DEF Known
<1>6. Counted'
  <2>1. CASE r.kind = "create"
    <3>1. Strays' \subseteq Strays \cup {created + 1}
      BY <1>3, <1>5, <2>1 DEF Strays
    <3>2. LateCreates' = LateCreates \ {r} /\ r \in LateCreates
      BY <1>1, <2>1 DEF LateCreates
    <3>3. /\ IsFiniteSet(Strays) /\ Cardinality(Strays) \in Nat
          /\ IsFiniteSet(LateCreates) /\ Cardinality(LateCreates) \in Nat
      BY <1>4, StraysFinite
    <3>4. Cardinality(Strays') \in Nat /\ Cardinality(Strays') <= Cardinality(Strays) + 1
      BY <3>1, <3>3, OneMore
    <3>5. Cardinality(LateCreates') = Cardinality(LateCreates) - 1
      BY <3>2, <3>3, FS_RemoveElement
    <3>6. timeouts["create"] \in Nat
      BY DEF CauseInv, Tallies, Kinds
    <3>7. QED
      BY <1>1, <1>4, <3>3, <3>4, <3>5, <3>6 DEF LeakInv, Counted
  <2>2. CASE r.kind # "create"
    <3>1. Strays' \subseteq Strays /\ LateCreates' \subseteq LateCreates
      BY <1>1, <1>3, <1>5, <2>2 DEF Strays, LateCreates
    <3>2. QED
      BY <1>1, <1>4, <3>1, NotMore DEF WalkInv, LeakInv
  <2>3. QED
    BY <2>1, <2>2
<1>7. session \in Live' => session \in Live
  BY <1>3
<1>8. Deleting'
  BY <1>1, <1>7 DEF LeakInv, Deleting
<1>9. QED
  BY <1>6, <1>8 DEF LeakInv

\* An attempt that goes unanswered: whatever it may have made is counted.
LEMMA TimeoutKeepsLeak ==
  ASSUME WalkInv, CauseInv, LeakInv, client = "feed", Timeout
  PROVE  LeakInv'
<1> USE SimulatorAssumption
<1>1. /\ request # NoRequest /\ AttemptFails("transport") /\ Settled
      /\ UNCHANGED <<sessions, created, client>>
      /\ \/ late' = late
         \/ answer = NoAnswer /\ late' = late \cup {request}
      /\ timeouts' = [timeouts EXCEPT ![request.kind] = IF @ < Attempts THEN @ + 1 ELSE @]
  BY DEF Timeout, serverVars
<1>2. /\ request.kind = phase /\ phase \in Kinds /\ timeouts \in [Kinds -> Nat]
      /\ attempt \in 1..Attempts
  BY <1>1 DEF WalkInv, TypeInv, Waits, Addressed, CauseInv, Tallies
<1>3. /\ \A k \in Kinds \ {phase} : timeouts'[k] = timeouts[k]
      /\ timeouts'[phase] = IF timeouts[phase] < Attempts THEN timeouts[phase] + 1
                            ELSE timeouts[phase]
  BY <1>1, <1>2
<1>4. answer'.status = "none" /\ session' = session /\ Live' = Live
  BY <1>1 DEF Settled, NoAnswer, AttemptFails, Live
<1>5. \/ phase' = phase /\ attempt < Attempts /\ attempt' = attempt + 1
      \/ phase = "create" /\ phase' = "failed" /\ attempt = Attempts
      \/ phase = "step" /\ phase' = "delete" /\ attempt' = 1
      \/ phase = "delete" /\ phase' \in {"opened", "failed"} /\ attempt = Attempts
  <2>1. attempt < Attempts \/ attempt = Attempts
    BY <1>2
  <2>2. CASE attempt < Attempts
    BY <1>1, <2>2 DEF AttemptFails, Retries, NextAttempt
  <2>3. CASE attempt = Attempts
    <3>1. ~Retries(attempt)
      BY <2>3 DEF Retries
    <3>2. CASE phase = "create"
      BY <1>1, <2>3, <3>1, <3>2 DEF AttemptFails
    <3>3. CASE phase = "step"
      BY <1>1, <3>1, <3>3 DEF AttemptFails, StopDrain, AfterDrain
    <3>4. CASE phase = "delete"
      BY <1>1, <2>3, <3>1, <3>4 DEF AttemptFails, Close
    <3>5. QED
      BY <1>2, <3>2, <3>3, <3>4 DEF Kinds
  <2>4. QED
    BY <2>1, <2>2, <2>3
<1>6. IsFiniteSet(late) /\ IsFiniteSet(late')
  BY <1>1, FS_AddElement DEF LeakInv, Counted
<1>7. /\ IsFiniteSet(Strays) /\ Cardinality(Strays) \in Nat
      /\ IsFiniteSet(LateCreates) /\ Cardinality(LateCreates) \in Nat
  BY <1>6, StraysFinite
<1>8. Counted'
  <2>1. CASE phase = "create"
    <3>1. timeouts["create"] = attempt - 1 /\ timeouts'["create"] = attempt
      BY <1>2, <1>3, <2>1 DEF LeakInv, Counted
    <3>2. CASE late' = late
      <4>1. LateCreates' = LateCreates /\ Strays' \subseteq Strays \cup {answer.session}
        BY <1>4, <3>2 DEF LateCreates, Strays, Known
      <4>2. Cardinality(Strays') \in Nat /\ Cardinality(Strays') <= Cardinality(Strays) + 1
        BY <1>7, <4>1, OneMore
      <4>3. QED
        BY <1>2, <1>5, <1>6, <1>7, <2>1, <3>1, <4>1, <4>2 DEF LeakInv, Counted
    <3>3. CASE answer = NoAnswer /\ late' = late \cup {request}
      <4>1. LateCreates' \subseteq LateCreates \cup {request} /\ Strays' = Strays
        BY <1>4, <3>3 DEF LateCreates, Strays, Known, NoAnswer
      <4>2. /\ Cardinality(LateCreates') \in Nat
            /\ Cardinality(LateCreates') <= Cardinality(LateCreates) + 1
        BY <1>7, <4>1, OneMore
      <4>3. QED
        BY <1>2, <1>5, <1>6, <1>7, <2>1, <3>1, <4>1, <4>2 DEF LeakInv, Counted
    <3>4. QED
      BY <1>1, <3>2, <3>3
  <2>2. CASE phase # "create"
    <3>1. Strays' \subseteq Strays /\ LateCreates' \subseteq LateCreates
      BY <1>1, <1>2, <1>4, <2>2 DEF Strays, Known, LateCreates
    <3>2. timeouts'["create"] = timeouts["create"] /\ phase' # "create"
      BY <1>2, <1>3, <1>5, <2>2 DEF Kinds
    <3>3. QED
      BY <1>6, <3>1, <3>2, NotMore DEF WalkInv, LeakInv
  <2>3. QED
    BY <2>1, <2>2
<1>9. Deleting'
  <2>1. CASE phase = "create"
    <3>1. session \notin Live
      BY <2>1 DEF WalkInv, Drains, Live, Ids
    <3>2. QED
      BY <1>2, <1>3, <1>4, <1>5, <2>1, <3>1 DEF LeakInv, Deleting, Kinds
  <2>2. CASE phase = "step"
    BY <1>2, <1>3, <1>4, <1>5, <2>2 DEF LeakInv, Deleting, Kinds
  <2>3. CASE phase = "delete"
    <3>1. session \in Live => timeouts["delete"] = attempt - 1
      BY <2>3 DEF LeakInv, Deleting
    <3>2. session \in Live => timeouts'["delete"] = attempt
      BY <1>2, <1>3, <2>3, <3>1
    <3>3. QED
      BY <1>2, <1>4, <1>5, <2>3, <3>2 DEF Deleting
  <2>4. QED
    BY <1>2, <2>1, <2>2, <2>3 DEF Kinds
<1>10. QED
  BY <1>8, <1>9 DEF LeakInv

\* A step of the client that neither creates nor misses anything.
LEMMA OwnStepKeepsLeak ==
  ASSUME WalkInv, CauseInv, LeakInv, client = "feed",
         UNCHANGED <<sessions, late, client, timeouts>>,
         Known' = Known \/ Known \subseteq Known' \cup {0},
         phase' = "create" => phase = "create" /\ attempt' = attempt,
         Deleting'
  PROVE  LeakInv'
<1>1. Live' = Live /\ LateCreates' = LateCreates /\ 0 \notin Live
  BY SimulatorAssumption DEF Live, LateCreates, Ids
<1>2. Strays' \subseteq Strays
  BY <1>1 DEF Strays
<1>3. Counted'
  BY <1>1, <1>2, NotMore DEF WalkInv, LeakInv, Counted
<1>4. QED
  BY <1>3 DEF LeakInv

\* An answer that is not a timeout.
LEMMA ReceiveErrorKeepsLeak ==
  ASSUME WalkInv, CauseInv, LeakInv, client = "feed", ReceiveError
  PROVE  LeakInv'
<1>1. /\ answer.status \in {"404", "410", "412"} /\ answer'.status = "none"
      /\ AttemptFails(answer.status)
      /\ UNCHANGED <<sessions, late, client, timeouts, session>>
  BY DEF ReceiveError, serverVars, Settled, NoAnswer, AttemptFails
<1>2. phase \in {"step", "delete"}
  BY <1>1 DEF WalkInv, TypeInv, Waits, Addressed, Kinds, CauseInv, NeverRefused
<1>3. \/ phase' = phase
      \/ phase = "step" /\ phase' = "delete" /\ attempt' = 1
      \/ phase = "delete" /\ phase' \in {"opened", "failed"}
  BY <1>1, <1>2 DEF AttemptFails, StopDrain, AfterDrain, Close
<1>4. Known' = Known
  BY <1>1, <1>2, <1>3 DEF Known
<1>5. Live' = Live
  BY <1>1 DEF Live
<1>6. Deleting'
  BY <1>1, <1>2, <1>3, <1>5 DEF LeakInv, Deleting
<1>7. QED
  BY <1>1, <1>2, <1>3, <1>4, <1>6, OwnStepKeepsLeak

\* The steps of open that receive what they asked for.
LEMMA FeedKeepsLeak ==
  ASSUME WalkInv, CauseInv, LeakInv, client = "feed",
         FeedCreated \/ FeedStepped \/ FeedDeleted
  PROVE  LeakInv'
<1>1. CASE FeedCreated
  <2>1. /\ phase = "create" /\ answer.status = "ok" /\ attempt' = 1
        /\ session' = answer.session /\ phase' \in {"delete", "step"}
        /\ UNCHANGED <<sessions, late, client, timeouts>> /\ answer'.status = "none"
    BY <1>1 DEF FeedCreated, Adopt, serverVars, Settled, NoAnswer
  <2>2. session = 0
    BY <2>1 DEF WalkInv, Drains
  <2>3. Known \subseteq Known' \cup {0}
    BY <2>1, <2>2 DEF Known
  <2>4. Deleting'
    BY <2>1 DEF LeakInv, Deleting
  <2>5. QED
    BY <2>1, <2>3, <2>4, OwnStepKeepsLeak
<1>2. CASE FeedStepped
  <2>1. /\ phase = "step" /\ attempt' = 1 /\ phase' \in {"delete", "step"}
        /\ UNCHANGED <<sessions, late, client, timeouts, session>>
        /\ answer'.status = "none"
    BY <1>2 DEF FeedStepped, StopDrain, AfterDrain, serverVars, Settled, NoAnswer
  <2>2. Known' = Known
    BY <2>1 DEF Known
  <2>3. Deleting'
    BY <2>1 DEF LeakInv, Deleting
  <2>4. QED
    BY <2>1, <2>2, <2>3, OwnStepKeepsLeak
<1>3. CASE FeedDeleted
  <2>1. /\ phase = "delete" /\ phase' \in {"opened", "failed"} /\ answer.status = "ok"
        /\ UNCHANGED <<sessions, late, client, timeouts, session>>
    BY <1>3 DEF FeedDeleted, Close, serverVars
  <2>2. session \notin Live /\ Live' = Live
    BY <2>1 DEF LeakInv, Deleting, Live
  <2>3. Known' = Known
    BY <2>1 DEF Known
  <2>4. Deleting'
    BY <2>1, <2>2 DEF Deleting
  <2>5. QED
    BY <2>1, <2>3, <2>4, OwnStepKeepsLeak
<1>4. QED
  BY <1>1, <1>2, <1>3

\* A request leaves, or nothing happens.
LEMMA SilenceKeepsLeak ==
  ASSUME WalkInv, CauseInv, LeakInv, client = "feed",
         UNCHANGED <<sessions, late, answer, client, timeouts, session, phase, attempt>>
  PROVE  LeakInv'
<1>1. Known' = Known
  BY DEF Known
<1>2. Deleting'
  BY DEF LeakInv, Deleting, Live
<1>3. QED
  BY <1>1, <1>2, OwnStepKeepsLeak

\* Every step keeps the invariant.
LEMMA NextKeepsLeak ==
  ASSUME WalkInv, CauseInv, LeakInv, [Next]_vars
  PROVE  LeakInv'
<1>1. CASE client # "feed"
  <2>1. client' = client
    BY DEF Next, ClientStep, Serve, ServeLate, FeedSends, Timeout, ReceiveError,
           FeedCreated, FeedStepped, FeedDeleted, MarketReceives, MarketCalls, vars
  <2>2. QED
    BY <1>1, <2>1 DEF LeakInv
<1>2. CASE client = "feed"
  <2>1. CASE Serve
    BY <1>2, <2>1, ServeKeepsLeak
  <2>2. CASE ServeLate
    BY <1>2, <2>2, ServeLateKeepsLeak
  <2>3. CASE FeedSends
    <3>1. UNCHANGED <<sessions, late, answer, client, timeouts, session, phase, attempt>>
      BY <2>3 DEF FeedSends, Send, serverVars, clientVars
    <3>2. QED
      BY <1>2, <3>1, SilenceKeepsLeak
  <2>4. CASE Timeout
    BY <1>2, <2>4, TimeoutKeepsLeak
  <2>5. CASE ReceiveError
    BY <1>2, <2>5, ReceiveErrorKeepsLeak
  <2>6. CASE FeedCreated \/ FeedStepped \/ FeedDeleted
    BY <1>2, <2>6, FeedKeepsLeak
  <2>7. CASE MarketReceives \/ MarketCalls
    BY <1>2, <2>7 DEF MarketReceives, MarketCalls
  <2>8. CASE UNCHANGED vars
    <3>1. UNCHANGED <<sessions, late, answer, client, timeouts, session, phase, attempt>>
      BY <2>8 DEF vars, serverVars, wireVars, clientVars
    <3>2. QED
      BY <1>2, <3>1, SilenceKeepsLeak
  <2>9. QED
    BY <2>1, <2>2, <2>3, <2>4, <2>5, <2>6, <2>7, <2>8 DEF Next, ClientStep
<1>3. QED
  BY <1>1, <1>2

\* When open has returned, the session it used is deleted unless every attempt
\* to delete it went unanswered, and every other session that lives was made by
\* a create request whose answer never came.
THEOREM LeaksAreUnanswered == Spec => []NoLeak
<1> USE SimulatorAssumption
<1>1. Init => WalkInv /\ CauseInv /\ LeakInv
  <2>1. ASSUME Init PROVE CauseInv
    BY <2>1 DEF Init, CauseInv, Tallies, StepsLeft, NeverRefused, Quiet, Explained,
                Causes, Kinds, NoAnswer
  <2>2. ASSUME Init PROVE Strays = {} /\ LateCreates = {}
    BY <2>2 DEF Init, Strays, Live, LateCreates, Absent
  <2>3. ASSUME Init, client = "feed" PROVE Counted /\ Deleting
    <3>1. /\ late = {} /\ phase = "create" /\ attempt = 1
          /\ timeouts["create"] = 0 /\ timeouts["delete"] = 0
      BY <2>3 DEF Init, Kinds
    <3>2. IsFiniteSet(late) /\ Cardinality(Strays) = 0 /\ Cardinality(LateCreates) = 0
      BY <2>2, <2>3, <3>1, FS_EmptySet
    <3>3. QED
      BY <3>1, <3>2 DEF Counted, Deleting
  <2>4. QED
    BY <2>1, <2>3, InitWalkInv DEF LeakInv
<1>2. WalkInv /\ CauseInv /\ LeakInv /\ [Next]_vars => (WalkInv /\ CauseInv /\ LeakInv)'
  BY NextKeepsWalk, NextKeepsCause, NextKeepsLeak
<1>3. WalkInv /\ CauseInv /\ LeakInv => NoLeak
  <2> SUFFICES ASSUME WalkInv, CauseInv, LeakInv, client = "feed",
                      phase \in {"opened", "failed"}
               PROVE  NoLeak
    BY DEF NoLeak
  <2>1. Strays = Live \ {session}
    BY DEF Strays, Known
  <2>2. /\ Cardinality(Strays) \in Nat /\ Cardinality(LateCreates) \in Nat
        /\ Cardinality(Strays) + Cardinality(LateCreates) <= timeouts["create"]
        /\ timeouts["create"] \in Nat
    BY StraysFinite DEF LeakInv, Counted, CauseInv, Tallies, Kinds
  <2>3. Cardinality(Live \ {session}) <= timeouts["create"]
    BY <2>1, <2>2
  <2>4. QED
    BY <2>3 DEF LeakInv, Deleting, NoLeak
<1>4. QED
  BY <1>1, <1>2, <1>3, PTL DEF Spec

=============================================================================
