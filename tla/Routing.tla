------------------------------- MODULE Routing ------------------------------
(***************************************************************************)
(* An agent goes on from where a scenario of the probe ends: it asks for   *)
(* completions, again while an earlier one is still open when its client   *)
(* gave up waiting, and runs commands whose events                         *)
(* scripts/run_episode_command.py posts once, with no retry.  A verifier   *)
(* may speak at any time.                                                  *)
(*                                                                         *)
(* A request is observed, decided by a rule or by the decision model on    *)
(* the state it was asked with, answered, and only then recorded.  One     *)
(* that pins a model, or confirms that the task is complete, is not shown  *)
(* to safe control, but answered and recorded like the others.             *)
(* The gateway is one without warm starts and decision cache.              *)
(***************************************************************************)
EXTENDS Probe

CONSTANTS
    Requests,   \* requests that may be open at once
    Messages,   \* what is asked
    Commands,   \* what is run
    Answers,    \* what the decision model may say
    Outcomes,   \* how a call may end
    CallCost,   \* cents of a call
    MaxCalls,   \* bound: requests
    MaxPosts    \* bound: commands and verdicts

ASSUME RoutingAssumption ==
    /\ IsFiniteSet(Requests) /\ {CallCost, MaxCalls, MaxPosts} \subseteq Nat
    /\ Answers \subseteq Decision

VARIABLES
    req,        \* of every request: where it is, what it saw, its route
    asked,      \* requests so far
    posted,     \* commands and verdicts so far
    batch,      \* events of a command, not projected yet
    last,       \* the id of the last event projected
    excused,    \* history: the limit of the cost was lifted
    allowed,    \* history: cents that the gate cannot keep from being spent
    stopped     \* history: a lasting refusal, and nothing came after it

free == <<req, asked, posted, batch, last, excused, allowed, stopped>>
all == <<vars, free>>

Idle == [pc |-> "idle", message |-> Plain, obs |-> Fresh, snap |-> Empty,
         route |-> Guardrail(Empty), after |-> FALSE, failed |-> FALSE]

RoutingInit ==
    /\ Init
    /\ req = [r \in Requests |-> Idle]
    /\ asked = 0 /\ posted = 0 /\ batch = <<>> /\ last = 0
    /\ excused = FALSE /\ allowed = StopCost /\ stopped = FALSE

------------------------------------------------------------------------------
(* The events of a command *)

\* A command: what kind it is, the file it writes, and how it ended.
Command(kind, target, end) == [kind |-> kind, target |-> target, end |-> end]

\* "zero": it exits 0 and its output shows no failure, a success even if
\* nothing says so.  Any other end is a failure; a command that timed out or
\* could not be run is an exception as well.
TestOutcome(c) == IF c.end = "zero" THEN "passed" ELSE "failed"

CommandEvents(c) ==
    <<Blank("tool_call")>>
    \o (IF c.target = "" THEN <<>>
        ELSE <<[Blank("file_written") EXCEPT !.target = c.target]>>)
    \o (IF c.kind \notin {"test", "validation"} THEN <<>>
        ELSE <<[Blank("test_run") EXCEPT
                  !.outcome = TestOutcome(c), !.validates = c.kind = "validation",
                  !.print = IF TestOutcome(c) = "failed" THEN "exit" ELSE ""]>>)
    \o (IF c.end # "timeout" THEN <<>> ELSE <<Blank("run_exception")>>)

------------------------------------------------------------------------------
(* Requests *)

\* What lifts the limit of the cost.
Lifted(s) == CloseToVerifier(s) \/ Stalled(s) \/ ApplyTruncated(s)

ScriptDone == at = Len(Steps) + 2

\* The probe is done with the episode, and an agent takes it over.
HandOver ==
    /\ at = Len(Steps) + 1
    /\ at' = at + 1
    /\ UNCHANGED <<scenario, state, control, route, seen, free>>

Scripted ==
    /\ at <= Len(Steps) /\ Next
    /\ last' = Len(Steps)
    /\ excused' = (excused \/ Lifted(state'))
    /\ allowed' = Most(StopCost, state'.cost)
    /\ UNCHANGED <<req, asked, posted, batch, stopped>>

Asks(r) ==
    /\ ScriptDone /\ req[r].pc = "idle" /\ asked < MaxCalls
    /\ asked' = asked + 1
    /\ UNCHANGED <<scenario, at, state, route, seen, posted, batch, last,
                   excused, allowed, stopped>>

\* The router has no say in a request for a model that it knows ...
Pin(r, m) ==
    /\ "pinned" \in m.cues
    /\ Asks(r)
    /\ req' = [req EXCEPT ![r] = [Idle EXCEPT !.pc = "call", !.route = Pinned]]
    /\ UNCHANGED control

\* ... sends the confirmation of the end to the strongest model ...
Confirm(r, m) ==
    /\ "pinned" \notin m.cues /\ "completion" \in m.cues
    /\ Asks(r)
    /\ req' = [req EXCEPT ![r] = [Idle EXCEPT !.pc = "call",
                                              !.route = Guardrail(state)]]
    /\ UNCHANGED control

\* ... and shows any other to safe control.
Arrive(r, m) ==
    /\ {"pinned", "completion"} \cap m.cues = {}
    /\ Asks(r)
    /\ control' = Observe(control, m)
    /\ req' = [req EXCEPT ![r] = [Idle EXCEPT !.pc = "rules", !.message = m,
                                              !.obs = control']]

\* A route that no gate was asked about.
Ungated(out) == out.source \in {"pinned", "guardrail"}

\* Refusals that should last.  All but that of the cost give way to a call of
\* which nothing has been heard yet; two wait for an open hypothesis to be
\* applied, and refusing a call makes one that was applied look open again.
Lasts(rule, s) ==
    \/ rule = "episode_cost_without_verifier_stop_gate"
    \/ /\ rule \in {"episode_agent_call_no_progress_stop_gate",
                    "episode_replan_no_progress_stop_gate",
                    "episode_length_pressure_stop_gate"}
       /\ rule # "episode_agent_call_no_progress_stop_gate" => s.hyp = ""
       /\ ~Unheard(s)

\* The request as it is when it is decided.
Taken(r) ==
    [req[r] EXCEPT !.after = stopped,
                   !.failed = /\ state.readiness = "verifier_failed"
                              /\ state.samePrint < RepeatLimit]

ByRuleOf(r, g) ==
    LET out == ByRule(state, g)
    IN /\ req' = [req EXCEPT ![r] = [Taken(r) EXCEPT !.pc = "call",
                                                     !.route = out]]
       /\ control' = IF out.abort THEN control
                     ELSE RecordOutcomeOf(
                            Escalate(state, control, req[r].message, g),
                            out.strong)
       /\ stopped' = (stopped \/ Lasts(g.rule, state))

\* No rule decides: the decision model is asked, with the state as it is now.
Submit(r) ==
    /\ req' = [req EXCEPT ![r] = [Taken(r) EXCEPT !.pc = "judge",
                                                  !.snap = state]]
    /\ UNCHANGED <<control, stopped>>

Decide(r) ==
    /\ req[r].pc = "rules"
    /\ LET g == SafeControl(state, req[r].obs, control, req[r].message)
       IN IF g.rule # "" THEN ByRuleOf(r, g) ELSE Submit(r)
    /\ UNCHANGED <<scenario, at, state, route, seen, asked, posted, batch,
                   last, excused, allowed>>

\* The model answers, or cannot be reached.
Judged(r) ==
    /\ req[r].pc = "judge"
    /\ \E out \in {Decided(req[r].snap, state, d) : d \in Answers}
                     \cup {Fallback(state)} :
          /\ req' = [req EXCEPT ![r].pc = "call", ![r].route = out]
          /\ control' = RecordOutcomeOf(control, out.strong)
    /\ UNCHANGED <<scenario, at, state, route, seen, asked, posted, batch,
                   last, excused, allowed, stopped>>

\* The calls that a gate has let pass, or will not be asked about again.
Open == {r \in Requests : req[r].pc = "judge"
                          \/ (req[r].pc = "call" /\ ~req[r].route.abort
                              /\ ~Ungated(req[r].route))}

\* The call has been answered and its record is projected. A guardrail's, also
\* one that the decision model asked for, ends the episode.
Answered(r) ==
    /\ req[r].pc = "call"
    /\ \E outcome \in IF req[r].route.abort THEN {"error"} ELSE Outcomes :
          state' = Project(state,
            [Recorded(req[r].route) EXCEPT
                !.id = last + 1, !.outcome = outcome,
                !.cost = IF req[r].route.abort THEN 0 ELSE CallCost])
    /\ last' = last + 1
    /\ excused' = (excused \/ Lifted(state'))
    /\ stopped' = (stopped /\ req[r].route.abort)
    /\ req' = [req EXCEPT ![r] =
          IF req[r].route.action = "completion_guardrail"
          THEN [Idle EXCEPT !.pc = "clear"] ELSE Idle]
    /\ allowed' = IF state.cost > StopCost
                  THEN allowed + (IF Ungated(req[r].route) THEN CallCost ELSE 0)
                  ELSE Most(StopCost, state'.cost + Cardinality(Open') * CallCost)
    /\ UNCHANGED <<scenario, at, control, route, seen, asked, posted, batch>>

\* What the router knows of an episode that has ended is forgotten: what safe
\* control remembers first ...
ClearControl(r) ==
    /\ req[r].pc = "clear"
    /\ control' = Fresh
    /\ req' = [req EXCEPT ![r].pc = "forget"]
    /\ UNCHANGED <<scenario, at, state, route, seen, asked, posted, batch,
                   last, excused, allowed, stopped>>

\* ... then the state, with all that has been spent.
ClearState(r) ==
    /\ req[r].pc = "forget"
    /\ state' = Empty /\ seen' = {}
    /\ req' = [req EXCEPT ![r] = Idle]
    /\ excused' = FALSE /\ allowed' = StopCost /\ stopped' = FALSE
    /\ UNCHANGED <<scenario, at, control, route, asked, posted, batch, last>>

------------------------------------------------------------------------------
(* Events *)

\* An event that is no call is projected.
Projected(e) ==
    /\ state' = Project(state, [e EXCEPT !.id = last + 1])
    /\ last' = last + 1
    /\ excused' = (excused \/ Lifted(state'))
    /\ stopped' = FALSE
    /\ UNCHANGED <<scenario, at, control, route, seen, req, asked, allowed>>

\* The events of a command are posted once, together; a batch that is lost is
\* never seen, which is as if the command had not run.
RunCommand(c) ==
    /\ ScriptDone /\ posted < MaxPosts /\ batch = <<>>
    /\ batch' = CommandEvents(c)
    /\ posted' = posted + 1
    /\ UNCHANGED <<vars, req, asked, last, excused, allowed, stopped>>

\* They are projected one by one. When storing one fails, those after it are
\* not taken.
Ingest ==
    /\ batch # <<>>
    /\ Projected(Head(batch))
    /\ batch' \in {Tail(batch), <<>>}
    /\ UNCHANGED posted

Verdict(good) ==
    /\ ScriptDone /\ posted < MaxPosts
    /\ Projected([Blank("verifier_result") EXCEPT !.good = good])
    /\ posted' = posted + 1
    /\ UNCHANGED batch

RoutingNext ==
    \/ Scripted \/ HandOver
    \/ \E r \in Requests, m \in Messages :
           Pin(r, m) \/ Confirm(r, m) \/ Arrive(r, m)
    \/ \E r \in Requests :
           \/ Decide(r) \/ Judged(r) \/ Answered(r)
           \/ ClearControl(r) \/ ClearState(r)
    \/ \E c \in Commands : RunCommand(c)
    \/ Ingest
    \/ \E good \in BOOLEAN : Verdict(good)

RoutingSpec == RoutingInit /\ [][RoutingNext]_all

------------------------------------------------------------------------------
(* Properties *)

\* The decided requests of which P holds are routed as Q says.
Decides(P(_), Q(_)) ==
    \A r \in Requests : req[r].pc = "call" /\ P(req[r]) => Q(req[r].route)

\* The cost gate lets a trial overspend by the calls that are open when the
\* limit is passed, and by no more, until something lifts it. What comes on top
\* no gate is asked about: what a script has posted, and the pinned requests and
\* confirmations that are recorded after the limit is passed.
SpendBounded == ~excused => state.cost <= allowed

\* A request that safe control decides after the verifier failed the delivery is
\* not sent to the cheap model, whatever rules come before the one that says so;
\* but a failure that was seen twice hides the verdict, and a pinned request is
\* not decided at all.
VerdictHeeded ==
    Decides(LAMBDA q : q.failed, LAMBDA out : out.strong \/ out.abort)

\* A trial once refused by a lasting gate stays refused until a call that was
\* open ends, or an event arrives: its own refusals do not lift it. A pinned
\* request and a confirmation ask no gate, and their ends count as such.
StopStays == Decides(LAMBDA q : q.after, LAMBDA out : out.abort)
=============================================================================
