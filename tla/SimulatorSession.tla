-------------------------- MODULE SimulatorSession --------------------------
(***************************************************************************)
(* The simulator data source (src/data/simulator.rs) against the session   *)
(* service it drives over HTTP.  A behaviour is of one of two clients:     *)
(* "feed" is SimulatorFeed::open, which creates a session, drains it into  *)
(* a tape with at most Attempts attempts per request and deletes it;       *)
(* "market" is a MarketSimulator, whose calls are single attempts.         *)
(*                                                                         *)
(* Between an attempt and its answer anything may be lost: the request,    *)
(* the answer, or only the client's patience, the request then arriving    *)
(* when the client has long sent another.                                  *)
(***************************************************************************)
EXTENDS Integers, Sequences, FiniteSets

CONSTANTS
  Attempts,     \* MATERIALISE_ATTEMPTS
  MaxTotal,     \* bound: steps of a server session
  MaxSteps,     \* limits.max_steps
  MaxSessions,  \* bound: sessions the server creates
  MaxUses,      \* bound: calls made on a MarketSimulator
  MaxLate,      \* bound: requests that may be late at a time
  Clients       \* the kinds of client considered

ASSUME SimulatorAssumption ==
  /\ Attempts \in Nat \ {0}
  /\ MaxTotal \in Nat
  /\ MaxSteps \in Nat \ {0}
  /\ MaxSessions \in Nat \ {0}
  /\ MaxUses \in Nat
  /\ MaxLate \in Nat
  /\ Clients \subseteq {"feed", "market"}

VARIABLES
  sessions,  \* the server: every session it has created
  created,   \* the server: how many those are
  client,    \* which client this is
  phase,     \* what the client is doing
  attempt,   \* the attempt of with_retry it is at
  request,   \* the request it waits on, or NoRequest
  answer,    \* the server's answer to it, not yet received, or NoAnswer
  late,      \* requests it gave up on that are still to arrive
  uses,      \* calls made on the MarketSimulator so far
  session,   \* session_id, 0 for None
  view,      \* current_step and total_steps of the last answer, and its state
  tape,      \* the snapshots kept: session and step of each
  outcome,   \* why the drain stopped, "none" when it reached the end
  timeouts   \* ghost: attempts of each kind whose answer never came,
             \* counted up to Attempts

serverVars == <<sessions, created>>
wireVars == <<request, answer, late, uses>>
clientVars == <<phase, attempt, session, view, tape, outcome>>
vars == <<serverVars, wireVars, clientVars, client, timeouts>>

Ids == 1..MaxSessions
Kinds == {"create", "step", "delete"}
States == {"Initialized", "InProgress", "Completed", "Error"}
Sessions == [status : {"absent", "live", "deleted"}, step : Nat, total : Nat,
             state : States]

Absent == [status |-> "absent", step |-> 0, total |-> 0, state |-> "Initialized"]
NoView == [step |-> 0, total |-> 0, state |-> "none"]
Unconditional == -1   \* an advance without expected_step
NoRequest == [kind |-> "none", session |-> 0, expected |-> Unconditional, tag |-> 0]
NoAnswer == [status |-> "none", session |-> 0, view |-> NoView]

Init ==
  /\ sessions = [i \in Ids |-> Absent]
  /\ created = 0
  /\ client \in Clients
  /\ phase = IF client = "feed" THEN "create" ELSE "idle"
  /\ attempt = 1
  /\ request = NoRequest /\ answer = NoAnswer /\ late = {} /\ uses = 0
  /\ session = 0 /\ view = NoView
  /\ tape = <<>> /\ outcome = "none"
  /\ timeouts = [k \in Kinds |-> 0]

-----------------------------------------------------------------------------
(* The server, as the client's code describes it: what a request does to   *)
(* the sessions, and the answer it gets.                                   *)

Effect(ss, n, a) == [sessions |-> ss, created |-> n, answer |-> a]
Refused(status) == Effect(sessions, created, [NoAnswer EXCEPT !.status = status])

\* create_session is not idempotent: every request that arrives makes one.
\* The walk may be empty, and a session may be born failed.
CreateEffects ==
  {Effect([sessions EXCEPT ![created + 1] = s], created + 1,
          [status |-> "ok", session |-> created + 1,
           view |-> [step |-> 0, total |-> s.total, state |-> s.state]]) :
     s \in [status : {"live"}, step : {0}, total : 0..MaxTotal,
            state : {"Initialized", "Error"}]}

\* 412 without advancing when the precondition fails, 410 once completed.
Refusal(r) ==
  LET s == sessions[r.session]
  IN  CASE s.status # "live" -> "404"
        [] r.expected # Unconditional /\ r.expected # s.step -> "412"
        [] s.step >= s.total -> "410"
        [] OTHER -> "none"

\* Mutants: the session has ended one step early; it never has.
MutEndsEarly(step, total) == IF step + 1 >= total THEN "Completed" ELSE "InProgress"
MutNeverEnds(step, total) == "InProgress"

\* SessionState::from_progress.
FromProgress(step, total) == IF step >= total THEN "Completed" ELSE "InProgress"

\* The advance; its answer carries the counters and no state.
StepEffect(r) ==
  LET s == sessions[r.session]
  IN  IF Refusal(r) # "none" THEN Refused(Refusal(r))
      ELSE Effect([sessions EXCEPT ![r.session].step = @ + 1], created,
                  [status |-> "ok", session |-> r.session,
                   view |-> [step |-> s.step + 1, total |-> s.total,
                             state |-> FromProgress(s.step + 1, s.total)]])

DeleteEffect(r) ==
  IF sessions[r.session].status # "live" THEN Refused("404")
  ELSE Effect([sessions EXCEPT ![r.session].status = "deleted"], created,
              [NoAnswer EXCEPT !.status = "ok"])

Effects(r) ==
  CASE r.kind = "create" -> IF created < MaxSessions THEN CreateEffects ELSE {}
    [] r.kind = "step"   -> {StepEffect(r)}
    [] r.kind = "delete" -> {DeleteEffect(r)}

Serve ==
  /\ request # NoRequest /\ answer = NoAnswer
  /\ \E e \in Effects(request) :
       sessions' = e.sessions /\ created' = e.created /\ answer' = e.answer
  /\ UNCHANGED <<request, late, uses, clientVars, client, timeouts>>

\* A request the client gave up on arrives; nobody waits for its answer.
ServeLate ==
  \E r \in late :
    /\ \E e \in Effects(r) : sessions' = e.sessions /\ created' = e.created
    /\ late' = late \ {r}
    /\ UNCHANGED <<request, answer, uses, clientVars, client, timeouts>>

-----------------------------------------------------------------------------
(* One attempt.                                                            *)

\* The tag tells the attempts of one request and the calls of one client apart.
Send(kind, id, expected) ==
  /\ request = NoRequest
  /\ request' = [kind |-> kind, session |-> id, expected |-> expected,
                 tag |-> attempt + uses]
  /\ UNCHANGED <<answer, late>>

Settled == request' = NoRequest /\ answer' = NoAnswer /\ UNCHANGED uses

\* SimulatorFeed::drain stops; the session is deleted next, whatever the cause.
\* Mutant: only a completed drain is followed by the delete.
MutDeleteOnSuccess(cause) == IF cause = "none" THEN "delete" ELSE "failed"
AfterDrain(cause) == "delete"

StopDrain(cause) ==
  /\ phase' = AfterDrain(cause)
  /\ outcome' = cause
  /\ attempt' = 1

\* The tape is kept when the drain reached the end and found something.
Close ==
  /\ phase' = IF outcome = "none" /\ tape # <<>> THEN "opened" ELSE "failed"
  /\ outcome' = IF outcome = "none" /\ tape = <<>> THEN "empty" ELSE outcome
  /\ attempt' = 1

\* Mutants: one attempt too many; the attempts are not counted.
MutOneMoreRetry(n) == n < Attempts + 1
MutUncounted(n) == n
Retries(n) == n < Attempts
NextAttempt(n) == n + 1

\* An attempt fails: with_retry makes another one or gives its error up; a
\* MarketSimulator propagates it and keeps its state.
AttemptFails(cause) ==
  /\ IF client = "market" THEN phase' = "idle" /\ UNCHANGED <<attempt, outcome>>
     ELSE IF Retries(attempt) THEN attempt' = NextAttempt(attempt) /\ UNCHANGED <<phase, outcome>>
     ELSE CASE phase = "create" -> phase' = "failed" /\ outcome' = cause /\ attempt' = 1
            [] phase = "step"   -> StopDrain(cause)
            [] phase = "delete" -> Close
  /\ UNCHANGED <<session, view, tape>>

\* No answer within the timeout: the request was lost or is only slow, or its
\* answer was lost, or could not be read to its end or parsed.
Timeout ==
  /\ request # NoRequest
  /\ AttemptFails("transport")
  /\ Settled
  /\ \/ UNCHANGED late
     \/ /\ answer = NoAnswer /\ Cardinality(late) < MaxLate
        /\ late' = late \cup {request}
  /\ timeouts' = [timeouts EXCEPT ![request.kind] = IF @ < Attempts THEN @ + 1 ELSE @]
  /\ UNCHANGED <<serverVars, client>>

\* A non-2xx answer is an error like any other.
ReceiveError ==
  /\ answer.status \in {"404", "410", "412"}
  /\ AttemptFails(answer.status)
  /\ Settled
  /\ UNCHANGED <<serverVars, late, client, timeouts>>

-----------------------------------------------------------------------------
(* SimulatorFeed::open.                                                    *)

\* Mutant: the advance is sent without its precondition.
MutUnconditional == Unconditional
\* The cursor the next advance expects: the last answer's current_step.
Expected == view.step

FeedSends ==
  /\ client = "feed"
  /\ \/ phase = "create" /\ Send("create", 0, Unconditional)
     \/ phase = "step" /\ Send("step", session, Expected)
     \/ phase = "delete" /\ Send("delete", session, Unconditional)
  /\ UNCHANGED <<serverVars, clientVars, uses, client, timeouts>>

\* session_ended: the wire state or the counters say so.
Terminal(state) == state \in {"Completed", "Error"}
Ended(v) == Terminal(v.state) \/ Terminal(FromProgress(v.step, v.total))

\* Mutant: a new session keeps the counters of the one before.
MutViewKept == session' = answer.session /\ view' = IF view = NoView THEN answer.view ELSE view

\* The id and the counters of an answer.
Adopt == session' = answer.session /\ view' = answer.view

FeedCreated ==
  /\ client = "feed" /\ phase = "create" /\ answer.status = "ok"
  /\ Adopt
  /\ phase' = IF Ended(answer.view) THEN "delete" ELSE "step"
  /\ attempt' = 1
  /\ Settled
  /\ UNCHANGED <<serverVars, late, tape, outcome, client, timeouts>>

\* The checks of a snapshot: "flaw" stands for too many contracts, a failed
\* conversion, a timestamp out of order or too many bytes; max_steps is checked
\* before the push.
FeedStepped ==
  /\ client = "feed" /\ phase = "step" /\ answer.status = "ok"
  /\ \/ StopDrain("flaw") /\ UNCHANGED <<tape, view>>
     \/ /\ Len(tape) + 1 > MaxSteps
        /\ StopDrain("max_steps") /\ UNCHANGED <<tape, view>>
     \/ /\ Len(tape) + 1 <= MaxSteps
        /\ tape' = Append(tape, [session |-> answer.session, step |-> answer.view.step])
        /\ view' = answer.view
        /\ phase' = IF Terminal(answer.view.state) THEN "delete" ELSE "step"
        /\ attempt' = 1
        /\ UNCHANGED outcome
  /\ Settled
  /\ UNCHANGED <<serverVars, late, session, client, timeouts>>

FeedDeleted ==
  /\ client = "feed" /\ phase = "delete" /\ answer.status = "ok"
  /\ Close
  /\ Settled
  /\ UNCHANGED <<serverVars, late, session, view, tape, client, timeouts>>

-----------------------------------------------------------------------------
(* MarketSimulator.                                                        *)

\* create_simulation, next_step without a precondition, reset.
MarketCalls ==
  /\ client = "market" /\ phase = "idle" /\ uses < MaxUses
  /\ \/ phase' = "create" /\ Send("create", 0, Unconditional)
     \/ session # 0 /\ phase' = "step" /\ Send("step", session, Unconditional)
     \/ session # 0 /\ phase' = "delete" /\ Send("delete", session, Unconditional)
  /\ uses' = uses + 1
  /\ UNCHANGED <<serverVars, attempt, session, view, tape, outcome, client, timeouts>>

\* record_session_response and record_chain_response; reset forgets both.
MarketReceives ==
  /\ client = "market" /\ answer.status = "ok"
  /\ phase' = "idle"
  /\ IF phase = "delete" THEN session' = 0 /\ view' = NoView ELSE Adopt
  /\ Settled
  /\ UNCHANGED <<serverVars, late, attempt, tape, outcome, client, timeouts>>

\* is_terminated: true without a session.
IsTerminated == view = NoView \/ Terminal(view.state) \/ view.step >= view.total

-----------------------------------------------------------------------------
Resting == phase \in {"opened", "failed"} \/ (phase = "idle" /\ uses = MaxUses)

ClientStep == FeedSends \/ Timeout \/ ReceiveError \/ FeedCreated \/ FeedStepped
                \/ FeedDeleted \/ MarketReceives

Next == ClientStep \/ MarketCalls \/ Serve \/ ServeLate \/ (Resting /\ UNCHANGED vars)

Spec == Init /\ [][Next]_vars

\* Every request has a timeout, and the client waits for nothing else.
FairSpec == Spec /\ WF_vars(ClientStep)

-----------------------------------------------------------------------------
(* Properties.                                                             *)

\* "Never a silent double-advance" (simulator.rs:903): the tape is the walk of
\* one session, step after step, none skipped and none twice, whatever answers
\* were lost and whatever requests arrive late; and a feed that opens has it
\* to the end the server declared.  A MarketSimulator, which keeps no tape, is
\* never ahead of the server, and calls the session terminated only when the
\* server has no step left or it was born failed.
TapeIsWalk ==
  /\ \A i \in DOMAIN tape : tape[i] = [session |-> session, step |-> i]
  /\ phase = "opened" => Len(tape) = sessions[session].total
  /\ (client = "market" /\ session # 0) =>
       LET s == sessions[session]
       IN  /\ view.step <= s.step /\ view.total = s.total
           /\ IsTerminated => s.step >= s.total \/ s.state = "Error"

Live == {i \in Ids : sessions[i].status = "live"}

\* "The server session is deleted on every path" (simulator.rs:1082): when open
\* has returned, the session it used is deleted unless every attempt to delete
\* it went unanswered, and any other that lives was made by a create request
\* whose answer never came.
NoLeak ==
  client = "feed" /\ phase \in {"opened", "failed"} =>
    /\ session \in Live => timeouts["delete"] = Attempts
    /\ Cardinality(Live \ {session}) <= timeouts["create"]

\* Opening fails only for a cause: a ceiling, a flaw of the data or an empty
\* walk, or an attempt that went unanswered.  In particular the precondition
\* never refuses an advance of a client that missed no answer.
FailsForCause ==
  client = "feed" /\ phase = "failed" =>
    CASE outcome = "flaw" -> TRUE
      [] outcome = "max_steps" -> sessions[session].total > MaxSteps
      [] outcome = "empty" -> sessions[session].total = 0 \/ sessions[session].state = "Error"
      [] OTHER -> timeouts["create"] + timeouts["step"] > 0

\* Open returns: the retries are bounded and so is the drain.
OpenReturns == client = "feed" ~> phase \in {"opened", "failed"}
=============================================================================
