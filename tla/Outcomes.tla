------------------------------ MODULE Outcomes ------------------------------
(***************************************************************************)
(* The record of a trial reduced after the fact                            *)
(* (scripts/extract_episode_outcomes.py), beside the state the router kept *)
(* while the trial ran: both read the same events and derive the same      *)
(* floors, from code of their own.                                         *)
(*                                                                         *)
(* A trial is a sequence of calls, of tool calls of the agent, and of      *)
(* verdicts.  Events carry the moment of their timestamp; those of one     *)
(* moment are in the order of their ids, which are hashes: any order.      *)
(***************************************************************************)
EXTENDS Projection

CONSTANTS
    Acts,           \* calls, and calls of tools, of the agent
    Verdicts,       \* what is recorded when the agent is done
    Moments,        \* bound: moments of a trial
    WindowEvents,   \* window_size_events
    PressureAfter   \* length_pressure_without_progress_threshold

IsEvent(e) == DOMAIN e = DOMAIN Blank("")

ASSUME OutcomesAssumption ==
    {Moments, WindowEvents, PressureAfter} \subseteq Nat \ {0}

\* What extract_base_events makes: an agent calls a model or a tool; when it is
\* done there are its patch, the tests, the result and an exception.
ASSUME TrialAssumption ==
    /\ \A a \in Acts : "tool" \notin DOMAIN a => IsEvent(a) /\ IsCall(a)
    /\ \A v \in Verdicts :
          /\ IsEvent(v) /\ v.action = "" /\ v.hyp = ""
          /\ \/ v.kind = "file_modified" /\ v.source = "agent_patch"
             \/ v.kind = "test_passed" /\ v.failed = 0
             \/ v.kind \in {"test_failed", "verifier_result", "run_exception"}

VARIABLES
    log,    \* the base events so far, as sorted_events has them
    live,   \* the router's state after them
    before, \* a derived event sorts before the one that triggered it
    record, \* what the extractor writes: all events, with the derived ones,
    offline \* and the state reduced from them

vars == <<log, live, before, record, offline>>

Now == IF log = <<>> THEN 0 ELSE Last(log).at

------------------------------------------------------------------------------
(* Events of an artifact *)

\* A call of a tool: whether it runs tests or validates output, the file it
\* writes, what its output looks like, and whether that shows a stall or a
\* verified fact.
Tool(command, target, result, shows) ==
    [tool |-> command, target |-> target, result |-> result, shows |-> shows]

CallOf(c) == {<<[c EXCEPT !.at = Now + 1, !.id = Len(log) + 1]>>}

TestRunOf(t) ==
    [Blank("test_run") EXCEPT
        !.validates = t.tool = "validation",
        !.outcome = CASE t.result = "failure" -> "failed"
                      [] t.result = "success" -> "passed"
                      [] OTHER -> IF t.tool = "validation" THEN "passed"
                                  ELSE "unknown",
        !.print = IF t.result = "failure" THEN "p" ELSE ""]

FileOf(t) ==
    IF t.target = "" THEN {}
    ELSE {[Blank("file_written") EXCEPT !.target = t.target]}

TestOf(t) == IF t.tool \in {"test", "validation"} THEN {TestRunOf(t)} ELSE {}

AnalysisOf(t) ==
    IF t.shows = "fact"
    THEN <<[Blank("analysis_progress") EXCEPT !.good = TRUE]>> ELSE <<>>

StallOf(t) == IF t.shows = "stall" THEN <<Blank("execution_stall")>> ELSE <<>>

\* The tool call, the file and the test have one timestamp; an analysis is
\* dated 250 ms later, a stall 500 ms.
ToolOf(t) ==
    LET same == {Blank("tool_call")} \cup FileOf(t) \cup TestOf(t)
        later == AnalysisOf(t) \o StallOf(t)
    IN {[i \in 1 .. Len(order) + Len(later) |->
            IF i <= Len(order)
            THEN [order[i] EXCEPT !.at = Now + 1, !.id = Len(log) + i]
            ELSE [later[1] EXCEPT !.at = Now + 2, !.id = Len(log) + i]]
        : order \in SetToSeqs(same)}

EventsOf(i) == IF "tool" \in DOMAIN i THEN ToolOf(i) ELSE CallOf(i)

------------------------------------------------------------------------------
(* Annotation *)

NotReady == [is |-> "none", frontier |-> 0]

\* What is counted of files shows in the readiness, which never goes back.
AppliesOffline(r, e) ==
    IsOutputValidation(e) \/ r.is # "none" \/ r.frontier > 0

\* Mutant of Ready: a test passes for any target, and only that.
ReadyAnyTarget(r, e) ==
    IF e.kind = "test_run" /\ e.outcome = "passed"
    THEN [is |-> "validation_passed", frontier |-> 0] ELSE r

\* completion_readiness_from_events, and the same steps of the annotation.
Ready(r, e) ==
    CASE IsDelivery(e) \/ IsImplementation(e) ->
            [r EXCEPT !.is = "delivery_candidate"]
      [] e.kind = "test_run" /\ e.outcome = "passed" /\ AppliesOffline(r, e) ->
            [is |-> "validation_passed", frontier |-> 0]
      [] e.kind = "test_run" /\ e.outcome = "failed" ->
            [is |-> IF AppliesOffline(r, e) THEN "validation_failed" ELSE r.is,
             frontier |-> Frontier(e)]
      [] e.kind = "test_passed" -> [is |-> "validation_passed", frontier |-> 0]
      [] e.kind = "test_failed" ->
            [is |-> "validation_failed", frontier |-> Frontier(e)]
      [] e.kind = "verifier_result" ->
            [r EXCEPT !.is = IF e.good THEN "verifier_passed"
                             ELSE "verifier_failed"]
      [] OTHER -> r

Tier(r, e) ==
    CASE IsStrong(e) -> "strong"
      [] IsDelivery(e) -> "delivery"
      [] \/ e.kind \in {"test_passed", "test_failed"} /\ ~IsStrong(e)
         \/ /\ e.kind = "test_run" /\ e.outcome = "passed"
            /\ AppliesOffline(r, e) -> "validation"
      [] IsImplementation(e) -> "implementation"
      [] \/ e.kind = "tool_call"
         \/ IsFile(e) /\ ~IsDelivery(e) /\ ~IsImplementation(e)
         \/ e.kind = "test_run" /\ ~AppliesOffline(r, e) -> "exploration"
      [] OTHER -> ""

Marked(r, e) ==
    LET tier == Tier(r, e)
    IN [e EXCEPT !.tier = tier,
                 !.effective = tier \in {"delivery", "validation",
                                         "implementation"}]

\* Mutant of Annotate: events are judged by what the trial came to.
AnnotateByEnd(seq) ==
    LET end == FoldLeft(Ready, NotReady, seq)
    IN [i \in DOMAIN seq |-> Marked(end, seq[i])]

Annotate(seq) ==
    FoldLeft(LAMBDA a, e : [ready |-> Ready(a.ready, e),
                            out |-> Append(a.out, Marked(a.ready, e))],
             [ready |-> NotReady, out |-> <<>>], seq).out

------------------------------------------------------------------------------
(* Derived events *)

Signal(e) == IsStrong(e) \/ IsCandidate(e)

Pressure(e) == IsCall(e) /\ (IsLength(e) \/ e.adjusted)

NoProgressFor(e) == [Blank("no_progress") EXCEPT !.at = e.at, !.id = -e.id]

\* Mutant of DeriveFrom: every pressed call past the threshold derives one.
DeriveEach(a, e) ==
    IF Signal(e) THEN [n |-> 0, open |-> FALSE, out |-> Append(a.out, e)]
    ELSE IF ~Pressure(e) \/ a.n + 1 < PressureAfter
    THEN [a EXCEPT !.n = IF Pressure(e) THEN @ + 1 ELSE @,
                   !.out = Append(@, e)]
    ELSE [a EXCEPT !.n = @ + 1, !.out = @ \o <<e, NoProgressFor(e)>>]

DeriveFrom(a, e) ==
    IF Signal(e) THEN [n |-> 0, open |-> FALSE, out |-> Append(a.out, e)]
    ELSE IF ~Pressure(e) THEN [a EXCEPT !.out = Append(@, e)]
    ELSE IF a.n + 1 < PressureAfter \/ a.open
    THEN [a EXCEPT !.n = @ + 1, !.out = Append(@, e)]
    ELSE [n |-> a.n + 1, open |-> TRUE,
          out |-> a.out \o (IF before THEN <<NoProgressFor(e), e>>
                            ELSE <<e, NoProgressFor(e)>>)]

\* The events of the trial: annotated, with the derived ones, annotated again.
Events(seq) ==
    Annotate(FoldLeft(DeriveFrom, [n |-> 0, open |-> FALSE, out |-> <<>>],
                      Annotate(seq)).out)

------------------------------------------------------------------------------
(* The state reduced from events *)

CallsIn(seq) == {i \in DOMAIN seq : IsCall(seq[i])}

LastOf(S) == IF S = {} THEN 0 ELSE CHOOSE i \in S : \A j \in S : j <= i

After(seq, i) == SubSeq(seq, i + 1, Len(seq))

Of(seq, kind) == CountIn(seq, LAMBDA e : e.kind = kind)
Tiers(seq, tier) == CountIn(seq, LAMBDA e : e.tier = tier)
ByRuleIn(seq, rule) == CountIn(seq, LAMBDA e : FromRule(e, rule))

\* The patch of the agent is progress only if nothing else is.
ProgressAt(seq) ==
    LET signals == {i \in DOMAIN seq : Signal(seq[i])}
        granular == {i \in signals : seq[i].source # "agent_patch"}
    IN LastOf(IF granular = {} THEN signals ELSE granular)

ReplanAt(seq) ==
    LastOf({i \in DOMAIN seq : seq[i].action = "freeze_or_replan"})

Against(e) ==
    \/ e.kind \in {"no_progress", "run_exception", "test_failed"}
    \/ e.kind = "test_run" /\ e.outcome = "failed"
    \/ e.kind = "verifier_result" /\ ~e.good

HypothesisIn(seq) ==
    LET replan == ReplanAt(seq)
        named == {i \in DOMAIN seq : i > replan /\ Hypothesis(seq[i]) # ""}
        first == CHOOSE i \in named : \A j \in named : i <= j
    IN IF replan = 0 THEN [hyp |-> "", hypStatus |-> "none"]
       ELSE IF named = {}
       THEN [hyp |-> "", hypStatus |-> IF ProgressAt(seq) > replan
                                       THEN "progressed" ELSE "pending"]
       ELSE [hyp |-> Hypothesis(seq[LastOf(named)]),
             hypStatus |->
                IF ProgressAt(seq) > first THEN "progressed"
                ELSE IF \E i \in DOMAIN seq : i > first /\ Against(seq[i])
                THEN "stale" ELSE "open"]

OfflineSeverity(since, recent) ==
    LET pressed == CountIn(recent, Pressure)
                   + CountIn(recent, LAMBDA e : IsCall(e) /\ e.outcome = "error")
                   + Of(recent, "execution_stall")
    IN IF Of(since, "llm_call") >= BlockedAfter THEN "blocked"
       ELSE IF pressed >= PressureAfter /\ CountIn(recent, Signal) = 0
       THEN "stale"
       ELSE IF pressed > 0 THEN "watch" ELSE "none"

\* reduce_state, with the names the router has for the same counts.
Counts(seq) ==
    LET progress == ProgressAt(seq)
        since == After(seq, progress)
        recent == After(seq, 
                        IF Len(seq) > WindowEvents THEN Len(seq) - WindowEvents
                        ELSE 0)
        calls == CallsIn(seq)
        last == IF calls = {} THEN Blank("") ELSE seq[LastOf(calls)]
        inForce == HypothesisIn(seq)
    IN [version |-> Len(seq), calls |-> Cardinality(calls),
        hyp |-> inForce.hyp, hypStatus |-> inForce.hypStatus,
        stalls |-> Of(seq, "execution_stall"),
        stallsSince |-> Of(since, "execution_stall"),
        deliveryFiles |-> CountIn(seq, IsDelivery),
        testRuns |-> Of(seq, "test_run"),
        action |-> last.action, finish |-> last.outcome,
        floors |-> ByRuleIn(recent, FloorRule),
        appliedSince |-> ByRuleIn(since, ApplyRule),
        recoveredSince |-> ByRuleIn(since, ApplyRecoveryRule),
        readiness |-> FoldLeft(Ready, NotReady, seq).is,
        candidates |-> CountIn(seq, IsCandidate),
        strong |-> Tiers(seq, "strong"),
        exploration |-> Tiers(seq, "exploration"),
        implementation |-> Tiers(seq, "implementation"),
        validation |-> Tiers(seq, "validation"),
        delivery |-> Tiers(seq, "delivery"),
        explorationSince |-> Tiers(since, "exploration"),
        callsSince |-> Of(since, "llm_call"),
        lengthSince |-> CountIn(since, Pressure),
        replans |-> CountIn(seq, LAMBDA e : e.action = "freeze_or_replan"),
        replanned |-> ReplanAt(seq) > progress,
        progressKind |-> IF progress = 0 THEN "" ELSE seq[progress].kind,
        severity |-> OfflineSeverity(since, recent), reason |-> ""]

NoCandidateIn(o) == o.candidates = 0 /\ o.strong = 0

NeedsDeliveryIn(o) ==
    /\ o.readiness = "delivery_candidate"
    /\ o.deliveryFiles = 0 /\ o.delivery = 0
    /\ o.validation = 0 /\ o.testRuns = 0
    /\ o.implementation >= CandidateAfter
    /\ \/ o.callsSince >= IdleAfter
       \/ o.explorationSince >= IdleAfter
       \/ o.lengthSince >= 2

\* Mutant of AppliedIn: whatever the last progress was.
AppliedEver(o) == o.appliedSince >= ApplyLimit

AppliedIn(o) ==
    o.progressKind = "analysis_progress" /\ o.appliedSince >= ApplyLimit

NeedsApplicationIn(o) ==
    /\ o.replanned /\ o.hyp # "" /\ o.action # "hypothesis_apply"
    /\ o.hypStatus \in {"open", "stale"}
    /\ NoCandidateIn(o)

ReadinessReason ==
    [verifier_failed |-> "verifier_failed_current_delivery",
     validation_failed |-> "validation_failed_current_delivery",
     verifier_passed |-> "verifier_passed_current_delivery",
     validation_passed |-> "validation_passed_assess_hidden_gap"]

\* next_capability_state: the reason; the capability goes with it.
Reason(o) ==
    IF o.readiness \in DOMAIN ReadinessReason
    THEN ReadinessReason[o.readiness]
    ELSE IF /\ o.action = "hypothesis_apply" /\ o.finish = "length"
            /\ NoCandidateIn(o)
    THEN "hypothesis_apply_length_truncated"
    ELSE IF o.stallsSince >= StallLimit THEN "execution_stall_needs_recovery"
    ELSE IF AppliedIn(o) /\ o.recoveredSince = 0
    THEN "analysis_progress_application_exhausted"
    ELSE IF NeedsDeliveryIn(o)
    THEN IF o.floors >= FloorLimit THEN "delivery_candidate_floor_exhausted"
         ELSE "delivery_candidate_needs_delivery"
    ELSE IF NeedsApplicationIn(o) THEN "replan_hypothesis_needs_validation"
    ELSE IF o.severity \in {"stale", "blocked"}
    THEN NoProgressReason[o.severity]
    ELSE IF o.readiness = "delivery_candidate"
    THEN "target_changed_needs_validation"
    ELSE IF AppliedIn(o) THEN "analysis_progress_recovery_awaiting_outcome"
    ELSE IF o.progressKind = "analysis_progress"
    THEN "analysis_progress_needs_application"
    ELSE IF o.severity = "watch" THEN "watching_output_pressure"
    ELSE "no_blocking_outcome"

ReduceState(seq) ==
    LET o == Counts(seq) IN [o EXCEPT !.reason = Reason(o)]

------------------------------------------------------------------------------
(* What a decision saw, and the window of a route *)

\* The evidence a decision at moment t is replayed with: the events before it,
\* which in a sorted record come first.
Allowed(seq, t) ==
    SubSeq(seq, 1, Cardinality({i \in DOMAIN seq : seq[i].at < t}))

\* Mutant of Window: the next call is in it too.
WindowClosed(seq, c) ==
    LET later == {d \in CallsIn(seq) : d > c}
    IN {i \in DOMAIN seq : /\ seq[c].at <= seq[i].at
                           /\ later # {} => seq[i].at <= seq[Min(later)].at}

\* events_in_window of the call at c: until the next call.
Window(seq, c) ==
    LET later == {d \in CallsIn(seq) : d > c}
    IN {i \in DOMAIN seq : /\ seq[c].at <= seq[i].at
                           /\ later # {} => seq[i].at < seq[Min(later)].at}

------------------------------------------------------------------------------
(* A trial *)

Init ==
    /\ log = <<>> /\ live = Empty /\ before \in BOOLEAN
    /\ record = <<>> /\ offline = ReduceState(<<>>)

\* The verifier runs after the agent.
Done == \E i \in DOMAIN log : log[i].kind \in {v.kind : v \in Verdicts}

\* The events happen, and reach the router as they do.
Happen(i) ==
    /\ Now < Moments
    /\ i \in Acts => ~Done
    /\ \E es \in EventsOf(i) :
          /\ log' = log \o es
          /\ live' = FoldLeft(Project, live, es)
    /\ record' = Events(log')
    /\ offline' = ReduceState(record')
    /\ UNCHANGED before

Next == \E i \in Acts \cup Verdicts : Happen(i)

Spec == Init /\ [][Next]_vars

------------------------------------------------------------------------------
(* Properties *)

\* What a decision is replayed with does not depend on what came after it:
\* the state of the past is the same in every longer record.
PastIsSettled == [][ReduceState(Allowed(record', Now + 1)) = offline]_vars

\* Between two derived no_progress events there was progress
\* (emit_once_until_next_progress).
OncePerStretch ==
    LET derived == {i \in DOMAIN record : record[i].kind = "no_progress"}
    IN \A i, j \in derived :
           i < j => \E k \in i .. j : Signal(record[k])

\* The two projections count alike.  A failed test of the verifier and a patch
\* end a stretch without progress only in one of them, and only one counts a
\* call whose budget was adjusted as pressed.
Alike == \A i \in DOMAIN log :
    log[i].kind # "test_failed" /\ log[i].source = "" /\ ~log[i].adjusted

Counted ==
    {"calls", "stalls", "deliveryFiles", "testRuns", "action", "finish",
     "strong", "exploration", "implementation", "delivery", "replans",
     "readiness"}
CountedSince ==
    {"stallsSince", "appliedSince", "recoveredSince", "explorationSince",
     "callsSince", "lengthSince", "progressKind"}

CountsAgree ==
    /\ \A f \in Counted : offline[f] = live[f]
    /\ Alike => \A f \in CountedSince : offline[f] = live[f]

\* The floors that come before the pressure of the episode stand online when
\* they stand in the replay of the same events.  The router alone asks for
\* recovery of a repeated failure first, and of a truncated application only
\* while nothing came of the call; reminders are counted in windows of their
\* own.
FloorsAgree ==
    LET floors == {"verifier_failed_current_delivery",
                   "validation_failed_current_delivery",
                   "verifier_passed_current_delivery",
                   "validation_passed_assess_hidden_gap",
                   "hypothesis_apply_length_truncated",
                   "execution_stall_needs_recovery",
                   "analysis_progress_application_exhausted",
                   "delivery_candidate_needs_delivery",
                   "delivery_candidate_floor_exhausted",
                   "replan_hypothesis_needs_validation"}
    IN (Alike /\ {offline.reason, live.reason} \cap floors # {}) =>
       \/ live.reason = offline.reason
       \/ live.reason = "repeated_test_failure_frontier"
       \/ {live.reason, offline.reason} =
             {"delivery_candidate_needs_delivery",
              "delivery_candidate_floor_exhausted"}
       \/ offline.reason = "hypothesis_apply_length_truncated"
          /\ RouteLabel(live) \notin {"pending", "no_progress", "none"}

\* Every event from the first call on belongs to the window of one call.
InOneWindow ==
    LET calls == CallsIn(record)
    IN \A i \in DOMAIN record :
           (\E c \in calls : record[c].at <= record[i].at) =>
           Cardinality({c \in calls : i \in Window(record, c)}) = 1
=============================================================================
