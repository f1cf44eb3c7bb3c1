--------------------------- MODULE RoutingProofs ----------------------------
(***************************************************************************)
(* Proofs about how a request is routed.                                   *)
(*                                                                         *)
(* What the capability floor and the budgets promise for any state: the    *)
(* decision model never gets its way below a floor that is enforced, and   *)
(* pressure never lowers a budget nor raises it past its ceiling.          *)
(*                                                                         *)
(* What requests that overlap, and events between them, leave of the       *)
(* gates: the verdict of the verifier is heeded, a lasting refusal lasts,  *)
(* and a trial overspends by no more than the calls that are open and      *)
(* those that no gate is asked about.  They rest on what every event does  *)
(* to the state of the episode (its counts stay numbers, a failed verdict  *)
(* keeps its floor), on which rule is the first that applies, and on what  *)
(* a refusal leaves unchanged.                                             *)
(***************************************************************************)
EXTENDS Routing, TLAPS, FiniteSetTheorems, WellFoundedInduction, NaturalsInduction

------------------------------------------------------------------------------
(* The capability floor and the budgets *)

\* The budget action that goes with a capability.
Fits(capability, hint) ==
    /\ capability = "premium_recover" => hint = "premium_recover"
    /\ capability = "premium_assess" => hint = "premium_reason"
    /\ capability = "cheap_execute" =>
            hint \in {"cheap_execute", "hypothesis_apply"}

\* deriveNextCapability names a capability with the budget action that buys it.
LEMMA HintFits ==
    ASSUME NEW s
    PROVE  Fits(NextCapability(s)[1], NextCapability(s)[3])
<1> DEFINE F(n) == Fits(n[1], n[3])
<1>1. /\ \A r : F(Recover(r)) /\ F(Assess(r)) /\ F(Execute(r)) /\ F(Probe(r))
      /\ F(<<"unknown", "empty_episode_state", "">>)
      /\ F(<<"cheap_execute", "replan_hypothesis_needs_validation",
             "hypothesis_apply">>)
    BY DEF Fits, Recover, Assess, Execute, Probe
<1>2. s.readiness \in DOMAIN ByReadiness => F(ByReadiness[s.readiness])
  <2>1. \A x \in DOMAIN ByReadiness :
            \E r : ByReadiness[x] \in {Recover(r), Assess(r)}
      BY DEF ByReadiness
  <2> HIDE DEF F
  <2>2. QED
      BY <1>1, <2>1
<1>3. RouteLabel(s) \in DOMAIN ByRoute => F(ByRoute[RouteLabel(s)])
  <2>1. \A x \in DOMAIN ByRoute :
            \E r : ByRoute[x] \in {Recover(r), Assess(r), Execute(r)}
      BY DEF ByRoute
  <2> HIDE DEF F
  <2>2. QED
      BY <1>1, <2>1
<1> HIDE DEF F
<1>4. F(NextCapability(s))
    BY <1>1, <1>2, <1>3 DEF NextCapability
<1>5. QED
    BY <1>4 DEF F

\* A floor that is enforced is kept (plugin.go, applyCapabilityFloor): whatever
\* the decision model says, a budget action of its own included, the route is
\* worth the capability of the state it was asked with, as routeCapability
\* rates a route: an action of the strongest model is worth as much with the
\* cheap one. A route that had to be forced is on the capability's own model.
THEOREM FloorIsKept ==
    ASSUME NEW s, NEW now, NEW d \in Decision, NEW t,
           s.version > 0, Forced(s),
           s.capability = NextCapability(t)[1],
           s.hint = NextCapability(t)[3]
    PROVE  LET out == Decided(s, now, d)
           IN /\ Rank(RouteCapability(out.strong, out.action))
                   >= Rank(s.capability)
              /\ Rank(RouteCapability(d.strong, InferAction(d)))
                   < Rank(s.capability)
                 => (out.strong <=> s.capability # "cheap_execute")
<1> DEFINE out == Decided(s, now, d)
           action == InferAction(d)
           low == Rank(RouteCapability(d.strong, action)) < Rank(s.capability)
<1>1. \A c : Rank(c) \in 0 .. 4
    BY DEF Rank
<1>2. CASE ~low
  <2>1. out.strong = d.strong /\ out.action = action
      BY <1>2 DEF Decided, Route
  <2> HIDE DEF out, action
  <2>2. Rank(RouteCapability(out.strong, out.action)) >= Rank(s.capability)
      BY <1>1, <1>2, <2>1
  <2>3. QED
      BY <1>2, <2>2 DEF out, action
<1>3. CASE low
  <2>1. /\ out.action = s.hint
        /\ out.strong = (s.capability \notin {"cheap_probe", "cheap_execute"})
      BY <1>3 DEF Decided, Route
  <2>2. Fits(s.capability, s.hint)
      BY HintFits
  <2>3. s.capability \in {"premium_recover", "premium_assess", "cheap_execute"}
      BY DEF Forced
  <2> HIDE DEF out, action
  <2>4. Rank(RouteCapability(out.strong, out.action)) >= Rank(s.capability)
      BY <2>1, <2>2, <2>3 DEF Fits, RouteCapability, Rank
  <2>5. out.strong <=> s.capability # "cheap_execute"
      BY <2>1, <2>3
  <2>6. QED
      BY <2>4, <2>5 DEF out, action
<1>4. QED
    BY <1>2, <1>3

\* A number raised up to three times under a ceiling.
LEMMA Raised ==
    ASSUME NEW x \in Nat, NEW top \in Nat, x <= top, NEW n \in {1, 2, 3}
    PROVE  Least(top, x * n) \in x .. top
<1>1. x * 1 = x /\ x * 2 = x + x /\ x * 3 = x + x + x
    OBVIOUS
<1>2. x * n \in Nat /\ x <= x * n
    BY <1>1
<1>3. QED
    BY <1>2 DEF Least

\* Pressure raises a budget and never lowers it, at most to 8192 tokens and
\* four minutes (budget.go, adjustBudgetForEpisode).
THEOREM BudgetWithin ==
    ASSUME NEW s, NEW action \in DOMAIN Profile,
           s.lengthStreak \in Nat, RecentLength(s) \in Nat
    PROVE  /\ Budget(s, action)[1] \in Profile[action][1] .. MaxTokens
           /\ Budget(s, action)[2] \in Profile[action][2] .. MaxTimeout
<1> DEFINE p == Profile[action]
           k == 1 + Most(s.lengthStreak, RecentLength(s))
<1>1. /\ p[1] \in Nat /\ p[1] <= MaxTokens
      /\ p[2] \in Nat /\ p[2] <= MaxTimeout
      /\ MaxTokens \in Nat /\ MaxTimeout \in Nat
    BY DEF Profile, MaxTokens, MaxTimeout
<1>2. k \in Nat \ {0}
    BY DEF Most
<1>3. Least(k, 3) \in {1, 2, 3} /\ Least(k, 2) \in {1, 2, 3}
    BY <1>2 DEF Least
<1> HIDE DEF p, k
<1>4. /\ Least(MaxTokens, p[1] * Least(k, 3)) \in p[1] .. MaxTokens
      /\ Least(MaxTimeout, p[2] * Least(k, 2)) \in p[2] .. MaxTimeout
  <2>1. Least(MaxTokens, p[1] * Least(k, 3)) \in p[1] .. MaxTokens
      BY <1>1, <1>3, Raised, Zenon
  <2>2. Least(MaxTimeout, p[2] * Least(k, 2)) \in p[2] .. MaxTimeout
      BY <1>1, <1>3, Raised, Zenon
  <2>3. QED
      BY <2>1, <2>2
<1>5. \/ Budget(s, action) = p
      \/ Budget(s, action) = <<Least(MaxTokens, p[1] * Least(k, 3)),
                               Least(MaxTimeout, p[2] * Least(k, 2))>>
    BY DEF Budget, p, k
<1>6. /\ Budget(s, action)[1] \in p[1] .. MaxTokens
      /\ Budget(s, action)[2] \in p[2] .. MaxTimeout
  <2> DEFINE a == Least(MaxTokens, p[1] * Least(k, 3))
             b == Least(MaxTimeout, p[2] * Least(k, 2))
  <2>1. a \in p[1] .. MaxTokens /\ b \in p[2] .. MaxTimeout
      BY <1>4
  <2>2. Budget(s, action) = p \/ Budget(s, action) = <<a, b>>
      BY <1>5
  <2> HIDE DEF a, b
  <2>3. QED
      BY <1>1, <2>1, <2>2
<1>7. QED
    BY <1>6 DEF p

------------------------------------------------------------------------------
(* What an event does to the state of an episode *)

\* What the proofs need of a state: its fields, and counts that are numbers.
Counts == {"version", "cost", "calls", "samePrint", "lengthSince",
           "callsSinceReplan"}
Watched == {"readiness", "reward", "deliveryFiles", "passed", "stallsSince",
            "candidate", "strong", "implementation", "validation", "delivery",
            "hyp", "replan", "action", "finish", "route", "routeLabel",
            "routeEvents", "print", "severity", "capability", "reason", "hint",
            "recent", "eventsSince"}
Sound(s) == DOMAIN s = DOMAIN Empty /\ \A f \in Counts : s[f] \in Nat

\* An empty state has every field the proofs look at.
LEMMA EmptyHas == Counts \cup Watched \subseteq DOMAIN Empty
BY DEF Counts, Watched, Empty

\* An empty state is sound.
LEMMA EmptySound == Sound(Empty)
BY DEF Sound, Counts, Empty

\* Sound, field by field.
LEMMA SoundFields ==
    ASSUME NEW s
    PROVE  Sound(s) <=>
             /\ DOMAIN s = DOMAIN Empty
             /\ s.version \in Nat /\ s.cost \in Nat /\ s.calls \in Nat
             /\ s.samePrint \in Nat /\ s.lengthSince \in Nat
             /\ s.callsSinceReplan \in Nat
BY DEF Sound, Counts

\* t has the counts of s that nothing but a call changes.
SameCounts(s, t) ==
    t.version = s.version /\ t.cost = s.cost /\ t.calls = s.calls

\* A hypothesis gone stale leaves the counts.
LEMMA MarkStaleSound ==
    ASSUME NEW s, Sound(s)
    PROVE  Sound(MarkStale(s)) /\ SameCounts(s, MarkStale(s))
<1> DEFINE t == [s EXCEPT !.hypStatus = "stale"]
<1>1. Sound(t) /\ SameCounts(s, t) /\ SameCounts(s, s)
    BY SoundFields, EmptyHas DEF SameCounts, Counts
<1>2. MarkStale(s) \in {s, t}
    BY DEF MarkStale
<1>3. QED
    BY <1>1, <1>2

\* Closing a route without progress leaves the counts.
LEMMA CloseRouteSound ==
    ASSUME NEW s, Sound(s)
    PROVE  Sound(CloseRoute(s)) /\ SameCounts(s, CloseRoute(s))
<1> DEFINE t == [s EXCEPT !.routeLabel = "no_progress", !.routeEvents = 1]
<1>1. Sound(t) /\ SameCounts(s, t)
    BY SoundFields, EmptyHas DEF SameCounts, Counts, Watched
<1>2. CloseRoute(s) \in {s, t, MarkStale(t)}
    BY DEF CloseRoute
<1> HIDE DEF t
<1>3. QED
    BY <1>1, <1>2, MarkStaleSound DEF SameCounts

\* Counting a call adds what it costs, and one call.
LEMMA CountCallSound ==
    ASSUME NEW s, NEW e, Sound(s), e.cost \in Nat
    PROVE  /\ Sound(CountCall(s, e))
           /\ CountCall(s, e).version = s.version
           /\ CountCall(s, e).cost = s.cost + e.cost
           /\ CountCall(s, e).calls = s.calls + 1
<1> DEFINE t == CountCall(s, e)
<1>1. /\ DOMAIN t = DOMAIN s
      /\ t.cost = s.cost + e.cost /\ t.calls = s.calls + 1
      /\ t.version = s.version /\ t.samePrint = s.samePrint
      /\ t.callsSinceReplan = s.callsSinceReplan
      /\ t.lengthSince \in {s.lengthSince, s.lengthSince + 1}
    BY SoundFields, EmptyHas DEF CountCall, Counts
<1> HIDE DEF t
<1>2. Sound(t)
    BY <1>1, SoundFields
<1>3. QED
    BY <1>1, <1>2 DEF t

\* Recording a hypothesis leaves the counts.
LEMMA HypothesisSound ==
    ASSUME NEW s, NEW e, Sound(s)
    PROVE  Sound(RecordHypothesis(s, e)) /\ SameCounts(s, RecordHypothesis(s, e))
<1> DEFINE h == Hypothesis(e)
           t == [s EXCEPT !.hypCount = @ + 1, !.hyp = h, !.hypEvent = e.id]
           u == [s EXCEPT !.hypCount = IF h = s.hyp THEN @ ELSE @ + 1,
                          !.hyp = h, !.hypEvent = e.id, !.hypStatus = "open",
                          !.callsSinceHyp = 0, !.explorationSinceHyp = 0]
<1>1. RecordHypothesis(s, e) \in {s, t, u}
    BY DEF RecordHypothesis
<1> HIDE DEF h
<1>2. Sound(t) /\ Sound(u)
    BY SoundFields, EmptyHas DEF Counts
<1>3. SameCounts(s, t) /\ SameCounts(s, u) /\ SameCounts(s, s)
    BY SoundFields, EmptyHas DEF SameCounts, Counts
<1>4. QED
    BY <1>1, <1>2, <1>3

\* A call costs what its event says.
LEMMA CallSound ==
    ASSUME NEW s, NEW e, Sound(s), e.cost \in Nat
    PROVE  /\ Sound(Call(s, e))
           /\ Call(s, e).version = s.version
           /\ Call(s, e).cost = s.cost + e.cost
<1> DEFINE b == CountCall(s, e)
           c == OpenRoute(b, e)
           n == IF c.hypEvent # 0 THEN c.callsSinceHyp + 1 ELSE c.callsSinceHyp
           d == [c EXCEPT !.callsSinceReplan = @ + 1, !.callsSinceHyp = n]
<1>1. Sound(b) /\ b.version = s.version /\ b.cost = s.cost + e.cost
    BY CountCallSound
<1>2. Sound(CloseRoute(b)) /\ SameCounts(b, CloseRoute(b))
    BY <1>1, CloseRouteSound
<1>3. Sound(c) /\ SameCounts(b, c)
    BY <1>2, SoundFields, EmptyHas DEF OpenRoute, SameCounts, Counts
<1>4. Call(s, e) \in {StartReplan(c, e), c, RecordHypothesis(d, e)}
    BY DEF Call
<1> HIDE DEF b, c, n
<1>5. Sound(StartReplan(c, e)) /\ SameCounts(c, StartReplan(c, e))
    BY <1>3, SoundFields, EmptyHas DEF StartReplan, SameCounts, Counts
<1>6. Sound(d) /\ SameCounts(c, d)
  <2>1. "callsSinceReplan" \in DOMAIN c /\ DOMAIN d = DOMAIN c
      BY <1>3, SoundFields, EmptyHas DEF Counts
  <2>2. /\ d.callsSinceReplan = c.callsSinceReplan + 1
        /\ d.samePrint = c.samePrint /\ d.lengthSince = c.lengthSince
      BY <2>1, <1>3, SoundFields, EmptyHas DEF Counts
  <2>3. SameCounts(c, d)
      BY <1>3, SoundFields, EmptyHas DEF SameCounts, Counts
  <2> HIDE DEF d
  <2>4. QED
      BY <1>3, <2>1, <2>2, <2>3, SoundFields DEF SameCounts
<1> HIDE DEF d
<1>7. Sound(RecordHypothesis(d, e)) /\ SameCounts(d, RecordHypothesis(d, e))
    BY <1>6, HypothesisSound
<1>8. QED
    BY <1>1, <1>3, <1>4, <1>5, <1>6, <1>7 DEF SameCounts

\* Recording a failure leaves the counts.
LEMMA RecordFailureSound ==
    ASSUME NEW s, NEW e, Sound(s)
    PROVE  Sound(RecordFailure(s, e)) /\ SameCounts(s, RecordFailure(s, e))
<1> DEFINE t == RecordFailure(s, e)
<1>1. /\ DOMAIN t = DOMAIN s /\ SameCounts(s, t)
      /\ t.samePrint \in {s.samePrint, s.samePrint + 1, 1}
      /\ t.lengthSince = s.lengthSince
      /\ t.callsSinceReplan = s.callsSinceReplan
    BY SoundFields, EmptyHas DEF RecordFailure, SameCounts, Counts
<1> HIDE DEF t
<1>2. Sound(t) /\ SameCounts(s, t)
    BY <1>1, SoundFields DEF SameCounts
<1>3. QED
    BY <1>2 DEF t

\* A written file leaves the counts.
LEMMA FileSound ==
    ASSUME NEW s, NEW e, Sound(s)
    PROVE  Sound(File(s, e)) /\ SameCounts(s, File(s, e))
BY SoundFields, EmptyHas DEF File, SameCounts, Counts

\* A test leaves the counts.
LEMMA TestRunSound ==
    ASSUME NEW s, NEW e, Sound(s)
    PROVE  Sound(TestRun(s, e)) /\ SameCounts(s, TestRun(s, e))
<1> DEFINE on == AppliesToTarget(s, e)
           r == [s EXCEPT !.testRuns = @ + 1]
           p == [r EXCEPT !.passed = @ + 1,
                          !.readiness = IF on THEN "validation_passed" ELSE @]
           f == [r EXCEPT !.failed = @ + 1,
                          !.readiness = IF on THEN "validation_failed" ELSE @,
                          !.reward = IF on THEN FALSE ELSE @]
<1>1. TestRun(s, e) \in {p, RecordFailure(f, e), r}
    BY DEF TestRun
<1> HIDE DEF on
<1>2. Sound(r) /\ SameCounts(s, r)
    BY SoundFields, EmptyHas DEF SameCounts, Counts
<1> HIDE DEF r
<1>3. Sound(p) /\ Sound(f) /\ SameCounts(r, p) /\ SameCounts(r, f)
    BY <1>2, SoundFields, EmptyHas DEF SameCounts, Counts
<1> HIDE DEF p, f
<1>4. Sound(RecordFailure(f, e)) /\ SameCounts(f, RecordFailure(f, e))
    BY <1>3, RecordFailureSound
<1>5. QED
    BY <1>1, <1>2, <1>3, <1>4 DEF SameCounts

\* Only a call costs, whatever the kind of the event.
LEMMA ByKindSound ==
    ASSUME NEW s, NEW e, Sound(s), e.cost \in Nat
    PROVE  /\ Sound(ByKind(s, e))
           /\ ByKind(s, e).version = s.version
           /\ ByKind(s, e).cost = IF IsCall(e) THEN s.cost + e.cost ELSE s.cost
<1> DEFINE t1 == [s EXCEPT !.stalls = @ + 1, !.stallsSince = @ + 1]
           t2 == [s EXCEPT !.passed = @ + 1, !.readiness = "validation_passed"]
           t3 == [s EXCEPT !.failed = @ + 1, !.reward = FALSE,
                                    !.readiness = "validation_failed"]
           t4 == [s EXCEPT !.reward = e.good,
                      !.readiness = IF e.good THEN "verifier_passed"
                                    ELSE "verifier_failed"]
           t5 == [s EXCEPT !.noProgress = @ + 1, !.active = TRUE]
<1>1. CASE IsCall(e)
  <2>1. ByKind(s, e) = Call(s, e)
      BY <1>1 DEF ByKind, IsCall, IsFile
  <2>2. QED
      BY <1>1, <2>1, CallSound
<1>2. CASE ~IsCall(e)
  <2>1. ByKind(s, e) \in {MarkStale(t1), File(s, e), TestRun(s, e), t2,
                          RecordFailure(t3, e), t4, MarkStale(t5), s}
      BY <1>2 DEF ByKind
  <2>2. \A t \in {t1, t2, t3, t4, t5} : Sound(t) /\ SameCounts(s, t)
    <3>1. \A t \in {t1, t2, t3, t5} : Sound(t) /\ SameCounts(s, t)
        BY SoundFields, EmptyHas DEF SameCounts, Counts
    <3>2. Sound(t4) /\ SameCounts(s, t4)
        BY SoundFields, EmptyHas DEF SameCounts, Counts
    <3>3. QED
        BY <3>1, <3>2
  <2> HIDE DEF t1, t2, t3, t4, t5
  <2>3. \A t \in {MarkStale(t1), MarkStale(t5), RecordFailure(t3, e)} :
            Sound(t) /\ SameCounts(s, t)
      BY <2>2, MarkStaleSound, RecordFailureSound DEF SameCounts
  <2>4. Sound(ByKind(s, e)) /\ SameCounts(s, ByKind(s, e))
    <3>1. SameCounts(s, s)
        BY DEF SameCounts
    <3>2. QED
        BY <2>1, <2>2, <2>3, <3>1, FileSound, TestRunSound
  <2>5. QED
      BY <1>2, <2>4 DEF SameCounts
<1>3. QED
    BY <1>1, <1>2

\* Counting progress leaves the counts.
LEMMA CountProgressSound ==
    ASSUME NEW s, NEW t, NEW e, Sound(t)
    PROVE  Sound(CountProgress(s, t, e)) /\ SameCounts(t, CountProgress(s, t, e))
BY SoundFields, EmptyHas DEF CountProgress, SameCounts, Counts

\* A reset by progress leaves the counts.
LEMMA ResetSound ==
    ASSUME NEW s, NEW t, NEW e, Sound(t)
    PROVE  Sound(Reset(s, t, e)) /\ SameCounts(t, Reset(s, t, e))
<1> DEFINE u == Reset(s, t, e)
<1>1. /\ DOMAIN u = DOMAIN t /\ SameCounts(t, u)
      /\ u.samePrint \in {t.samePrint, 0} /\ u.callsSinceReplan = 0
      /\ u.lengthSince = 0
    BY SoundFields, EmptyHas DEF Reset, MarkProgressed, SameCounts, Counts
<1> HIDE DEF u
<1>2. Sound(u) /\ SameCounts(t, u)
    BY <1>1, SoundFields DEF SameCounts
<1>3. QED
    BY <1>2 DEF u

\* The outcome of a route leaves the counts.
LEMMA OutcomeSound ==
    ASSUME NEW s, NEW e, Sound(s)
    PROVE  Sound(RecordOutcome(s, e)) /\ SameCounts(s, RecordOutcome(s, e))
<1> DEFINE o == RouteOutcome(e)
           t == [s EXCEPT !.routeLabel = o[1], !.routeEvents = @ + 1]
<1>1. RecordOutcome(s, e) \in {s, t, MarkStale(t)}
    BY DEF RecordOutcome
<1> HIDE DEF o
<1>2. Sound(t) /\ SameCounts(s, t) /\ SameCounts(s, s)
    BY SoundFields, EmptyHas DEF SameCounts, Counts
<1> HIDE DEF t
<1>3. QED
    BY <1>1, <1>2, MarkStaleSound DEF SameCounts

\* What the verdict on the delivery makes of a state, unless a failure was seen
\* too often.
VerdictNamed(s) ==
    s.readiness = "verifier_failed" /\ s.samePrint < RepeatLimit =>
        /\ s.reason = "verifier_failed_current_delivery"
        /\ s.hint = "premium_recover"

\* What is derived leaves the counts and names a failed verdict.
LEMMA DeriveSound ==
    ASSUME NEW s, Sound(s), s.version # 0
    PROVE  /\ Sound(Derive(s)) /\ SameCounts(s, Derive(s))
           /\ VerdictNamed(Derive(s))
<1> DEFINE t == [s EXCEPT !.severity = Severity(s)]
           n == NextCapability(t)
           u == [t EXCEPT !.capability = n[1], !.reason = n[2], !.hint = n[3]]
<1>1. Sound(t) /\ SameCounts(s, t)
    BY SoundFields, EmptyHas DEF SameCounts, Counts
<1>2. ASSUME t.readiness = "verifier_failed", t.samePrint < RepeatLimit
      PROVE  n = Recover("verifier_failed_current_delivery")
  <2>1. t.version # 0 /\ ~(t.samePrint >= RepeatLimit)
      BY <1>1, <1>2, SoundFields, ProjectionAssumption DEF SameCounts
  <2>2. /\ t.readiness \in DOMAIN ByReadiness
        /\ ByReadiness[t.readiness]
             = Recover("verifier_failed_current_delivery")
      BY <1>2 DEF ByReadiness
  <2> HIDE DEF t
  <2>3. QED
      BY <2>1, <2>2 DEF NextCapability
<1>3. Derive(s) = u
    BY DEF Derive
<1> HIDE DEF t
<1>4. n = Recover("verifier_failed_current_delivery") =>
        n[2] = "verifier_failed_current_delivery" /\ n[3] = "premium_recover"
    BY DEF Recover
<1> HIDE DEF n
<1>5. Sound(u) /\ SameCounts(t, u)
    BY <1>1, SoundFields, EmptyHas DEF SameCounts, Counts
<1>6. /\ u.readiness = t.readiness /\ u.samePrint = t.samePrint
      /\ u.reason = n[2] /\ u.hint = n[3]
    BY <1>1, SoundFields, EmptyHas DEF Counts, Watched
<1> HIDE DEF u
<1>7. VerdictNamed(u)
    BY <1>2, <1>4, <1>6 DEF VerdictNamed
<1>8. QED
    BY <1>1, <1>3, <1>5, <1>7 DEF SameCounts

\* A projected event leaves a state that is sound, that costs what the call
\* does more, and that names the verdict.
LEMMA ProjectSound ==
    ASSUME NEW s, NEW e, Sound(s), e.cost \in Nat
    PROVE  /\ Sound(Project(s, e)) /\ VerdictNamed(Project(s, e))
           /\ Project(s, e).cost
                = IF IsCall(e) THEN s.cost + e.cost ELSE s.cost
<1> DEFINE a == [s EXCEPT !.version = @ + 1]
           k == ByKind(a, e)
           r == RecordOutcome(k, e)
           t == CountProgress(s, r, e)
           u == IF Progresses(s, e) THEN Reset(s, t, e)
                ELSE [t EXCEPT !.eventsSince = @ + 1]
           w == Keep(u, Annotated(s, e))
<1>1. Sound(a) /\ a.version # 0 /\ a.cost = s.cost
    BY SoundFields, EmptyHas DEF Counts
<1> HIDE DEF a
<1>2. /\ Sound(k) /\ k.version # 0
      /\ k.cost = IF IsCall(e) THEN s.cost + e.cost ELSE s.cost
    BY <1>1, ByKindSound
<1> HIDE DEF k
<1>3. Sound(r) /\ SameCounts(k, r)
    BY <1>2, OutcomeSound
<1> HIDE DEF r
<1>4. Sound(t) /\ SameCounts(r, t)
    BY <1>3, CountProgressSound
<1> HIDE DEF t
<1>5. Sound(u) /\ SameCounts(t, u)
  <2>1. LET x == [t EXCEPT !.eventsSince = @ + 1]
        IN Sound(x) /\ SameCounts(t, x)
      BY <1>4, SoundFields, EmptyHas DEF SameCounts, Counts
  <2>2. QED
      BY <1>4, <2>1, ResetSound
<1> HIDE DEF u
<1>6. Sound(w) /\ SameCounts(u, w)
    BY <1>5, SoundFields, EmptyHas DEF Keep, SameCounts, Counts
<1>7. Project(s, e) = Derive(w)
    BY Zenon DEF Project, a, k, r, t, u
<1> HIDE DEF w
<1>8. Sound(Derive(w)) /\ SameCounts(w, Derive(w)) /\ VerdictNamed(Derive(w))
  <2>1. w.version # 0
      BY <1>2, <1>3, <1>4, <1>5, <1>6 DEF SameCounts
  <2>2. QED
      BY <1>6, <2>1, DeriveSound
<1>9. QED
    BY <1>2, <1>3, <1>4, <1>5, <1>6, <1>7, <1>8 DEF SameCounts

------------------------------------------------------------------------------
(* What a refusal leaves unchanged *)

\* The record of a refused call.
Refusal(e) ==
    /\ e.kind = "llm_call" /\ e.action = "stop_trial" /\ e.outcome = "error"
    /\ e.cost = 0

\* Nothing the lasting gates wait for happened between s and t.
Standstill(s, t) ==
    /\ t.readiness = s.readiness /\ t.reward = s.reward
    /\ t.deliveryFiles = s.deliveryFiles /\ t.passed = s.passed
    /\ t.stallsSince = s.stallsSince /\ t.candidate = s.candidate
    /\ t.strong = s.strong /\ t.implementation = s.implementation
    /\ t.validation = s.validation /\ t.delivery = s.delivery
    /\ t.hyp = s.hyp /\ t.replan = s.replan /\ t.lengthSince = s.lengthSince

\* A refused call changes nothing the lasting gates wait for.
LEMMA RefusedCall ==
    ASSUME NEW s, NEW e, Sound(s), Refusal(e)
    PROVE  LET t == Call(s, e)
           IN /\ Standstill(s, t) /\ t.calls = s.calls + 1
              /\ t.action = "stop_trial" /\ t.routeLabel = "pending"
              /\ s.replan # 0 =>
                    t.callsSinceReplan = s.callsSinceReplan + 1
<1> DEFINE b == CountCall(s, e)
           x == CloseRoute(b)
           c == OpenRoute(b, e)
           n == IF c.hypEvent # 0 THEN c.callsSinceHyp + 1 ELSE c.callsSinceHyp
           d == [c EXCEPT !.callsSinceReplan = @ + 1, !.callsSinceHyp = n]
           t == Call(s, e)
<1>0. e.cost \in Nat
    BY DEF Refusal
<1>1. Sound(b)
    BY <1>0, CountCallSound
<1>2. /\ Standstill(s, b) /\ b.calls = s.calls + 1 /\ b.action = "stop_trial"
      /\ b.callsSinceReplan = s.callsSinceReplan
    BY SoundFields, EmptyHas
       DEF CountCall, Refusal, IsLength, Standstill, Counts, Watched
<1> HIDE DEF b
<1>3. /\ Sound(x) /\ Standstill(b, x) /\ x.calls = b.calls
      /\ x.action = b.action /\ x.callsSinceReplan = b.callsSinceReplan
  <2> DEFINE y == [b EXCEPT !.routeLabel = "no_progress", !.routeEvents = 1]
             z == [y EXCEPT !.hypStatus = "stale"]
  <2>1. x \in {b, y, z}
      BY DEF CloseRoute, MarkStale
  <2>2. LET Like(v) == /\ Standstill(b, v) /\ v.calls = b.calls
                       /\ v.action = b.action
                       /\ v.callsSinceReplan = b.callsSinceReplan
        IN Like(b) /\ Like(y) /\ Like(z)
    <3>1. DOMAIN b = DOMAIN Empty
        BY <1>1 DEF Sound
    <3>2. /\ Standstill(b, y) /\ y.calls = b.calls /\ y.action = b.action
          /\ y.callsSinceReplan = b.callsSinceReplan /\ DOMAIN y = DOMAIN b
        BY <3>1, EmptyHas DEF Standstill, Counts, Watched
    <3> HIDE DEF y
    <3>3. /\ Standstill(y, z) /\ z.calls = y.calls /\ z.action = y.action
          /\ z.callsSinceReplan = y.callsSinceReplan
        BY <3>1, <3>2, EmptyHas DEF Standstill, Counts, Watched
    <3> HIDE DEF z
    <3>4. QED
        BY <3>2, <3>3 DEF Standstill
  <2>3. Sound(x)
      BY <1>1, CloseRouteSound
  <2> HIDE DEF y, z, x
  <2>4. QED
      BY <2>1, <2>2, <2>3
<1>4. c = [x EXCEPT !.route = e.id, !.routeLabel = "pending", !.routeEvents = 0]
    BY DEF OpenRoute
<1> HIDE DEF x
<1>5. /\ Standstill(x, c) /\ c.calls = x.calls /\ c.routeLabel = "pending"
      /\ c.action = x.action /\ c.callsSinceReplan = x.callsSinceReplan
      /\ Sound(c)
    BY <1>3, <1>4, SoundFields, EmptyHas DEF Standstill, Counts, Watched
<1>6. t = IF c.replan = 0 THEN c ELSE d
  <2>1. Hypothesis(e) = "" /\ e.action # "freeze_or_replan"
      BY DEF Refusal, Hypothesis
  <2>2. RecordHypothesis(d, e) = d
      BY <2>1 DEF RecordHypothesis
  <2>3. t = IF c.replan = 0 THEN c ELSE RecordHypothesis(d, e)
      BY <2>1 DEF Call, b
  <2>4. QED
      BY <2>2, <2>3
<1> HIDE DEF c, n, t
<1>7. /\ Standstill(c, d) /\ d.calls = c.calls /\ d.routeLabel = c.routeLabel
      /\ d.action = c.action /\ d.callsSinceReplan = c.callsSinceReplan + 1
    BY <1>5, SoundFields, EmptyHas DEF Standstill, Counts, Watched
<1> HIDE DEF d
<1>8. /\ Standstill(c, t) /\ t.calls = c.calls /\ t.routeLabel = c.routeLabel
      /\ t.action = c.action
      /\ c.replan # 0 => t.callsSinceReplan = c.callsSinceReplan + 1
    BY <1>6, <1>7 DEF Standstill
<1>9. QED
    BY <1>2, <1>3, <1>5, <1>8 DEF Standstill, t

\* Nor does the rest of the projection of its record.
LEMMA RefusalProjected ==
    ASSUME NEW s, NEW e, Sound(s), Refusal(e)
    PROVE  LET t == Project(s, e)
           IN /\ Standstill(s, t) /\ t.cost = s.cost /\ t.calls = s.calls + 1
              /\ t.action = "stop_trial" /\ t.routeLabel = "pending"
              /\ s.replan # 0 =>
                    t.callsSinceReplan = s.callsSinceReplan + 1
<1> DEFINE a == [s EXCEPT !.version = @ + 1]
           k == Call(a, e)
           t == CountProgress(s, k, e)
           u == [t EXCEPT !.eventsSince = @ + 1]
           w == Keep(u, Annotated(s, e))
           p == Derive(w)
           Like(x, y) == /\ Standstill(x, y) /\ y.calls = x.calls
                         /\ y.action = x.action /\ y.routeLabel = x.routeLabel
                         /\ y.callsSinceReplan = x.callsSinceReplan
<1>0. e.cost \in Nat /\ IsCall(e) /\ ~IsFile(e)
    BY DEF Refusal, IsCall, IsFile
<1>1. Project(s, e) = p
  <2>1. ByKind(a, e) = k
      BY DEF Refusal, ByKind, IsCall, IsFile
  <2>2. RecordOutcome(k, e) = k
      BY <1>0 DEF RecordOutcome
  <2>3. ~Progresses(s, e)
      BY <1>0 DEF Refusal, Progresses, IsStrong, IsDelivery, IsImplementation
  <2>4. QED
      BY <2>1, <2>2, <2>3, Zenon DEF Project
<1>2. Sound(a) /\ Like(s, a)
    BY SoundFields, EmptyHas DEF Standstill, Counts, Watched
<1> HIDE DEF a
<1>3. /\ Sound(k) /\ Standstill(a, k) /\ k.calls = a.calls + 1
      /\ k.action = "stop_trial" /\ k.routeLabel = "pending"
      /\ a.replan # 0 => k.callsSinceReplan = a.callsSinceReplan + 1
    BY <1>0, <1>2, CallSound, RefusedCall
<1> HIDE DEF k
<1>4. Sound(t) /\ Like(k, t)
  <2>1. ~Explores(s, e) /\ ~Validates(s, e) /\ ~IsImplementation(e)
        /\ ~IsDelivery(e)
      BY <1>0 DEF Refusal, Explores, Validates, IsImplementation, IsDelivery
  <2>2. Sound(t)
      BY <1>3, CountProgressSound
  <2>3. Like(k, t)
      BY <1>3, <2>1, SoundFields, EmptyHas
         DEF CountProgress, Standstill, Counts, Watched
  <2>4. QED
      BY <2>2, <2>3
<1> HIDE DEF t
<1>5. Sound(u) /\ Like(t, u)
    BY <1>4, SoundFields, EmptyHas DEF Standstill, Counts, Watched
<1> HIDE DEF u
<1>6. Sound(w) /\ Like(u, w)
    BY <1>5, SoundFields, EmptyHas DEF Keep, Standstill, Counts, Watched
<1> HIDE DEF w
<1>7. Like(w, p)
    BY <1>6, SoundFields, EmptyHas DEF Derive, Standstill, Counts, Watched
<1>8. Project(s, e).cost = s.cost
    BY <1>0, ProjectSound, SoundFields DEF Refusal
<1> HIDE DEF p
<1>9. QED
    BY <1>1, <1>2, <1>3, <1>4, <1>5, <1>6, <1>7, <1>8 DEF Standstill

------------------------------------------------------------------------------
(* The first rule that applies *)

\* A set of numbers has a least one.
LEMMA LeastNumber ==
    ASSUME NEW T \in SUBSET Nat, T # {}
    PROVE  \E m \in T : \A n \in T : m <= n
<1> DEFINE L == {ss \in Nat \X Nat : ss[1] < ss[2]}
<1>1. IsWellFoundedOn(L, Nat)
    BY NatLessThanWellFounded DEF OpToRel
<1> HIDE DEF L
<1>2. PICK x \in T : \A y \in T : ~(<<y, x>> \in L)
    BY <1>1, WFMin
<1>3. \A y \in T : ~(y < x)
    BY <1>2 DEF L
<1>4. QED
    BY <1>3

\* FirstOf finds a rule no later than one that applies.
LEMMA FirstApplies ==
    ASSUME NEW rules, NEW n \in Nat, Len(rules) = n,
           NEW i \in 1 .. n, rules[i].when
    PROVE  \E k \in 1 .. i : /\ FirstOf(rules) = rules[k] /\ rules[k].when
                             /\ \A j \in 1 .. k - 1 : ~rules[j].when
<1> DEFINE I == {j \in 1 .. n : rules[j].when}
<1>1. I \in SUBSET Nat /\ i \in I
    OBVIOUS
<1>2. PICK m \in I : \A j \in I : m <= j
    BY <1>1, LeastNumber
<1>3. Min(I) \in I /\ \A j \in I : Min(I) <= j
    BY <1>2 DEF Min
<1>4. FirstOf(rules) = IF Min(I) = 0 THEN NoRule ELSE rules[Min(I)]
    BY <1>1 DEF FirstOf, SelectInSeq
<1> DEFINE k == Min(I)
<1>5. k \in 1 .. i /\ rules[k].when
    BY <1>1, <1>3
<1>6. \A j \in 1 .. k - 1 : ~rules[j].when
    BY <1>3, <1>5
<1> HIDE DEF k, I
<1>7. QED
    BY <1>4, <1>5, <1>6 DEF k

\* FirstOf finds nothing, or the first rule that applies.
LEMMA FirstOr ==
    ASSUME NEW rules, NEW n \in Nat, Len(rules) = n
    PROVE  \/ FirstOf(rules) = NoRule
           \/ \E k \in 1 .. n : /\ FirstOf(rules) = rules[k] /\ rules[k].when
                                /\ \A j \in 1 .. k - 1 : ~rules[j].when
<1>1. CASE \E i \in 1 .. n : rules[i].when
    BY <1>1, FirstApplies
<1>2. CASE \A i \in 1 .. n : ~rules[i].when
    BY <1>2 DEF FirstOf, SelectInSeq
<1>3. QED
    BY <1>1, <1>2

------------------------------------------------------------------------------
Lasting == {"episode_cost_without_verifier_stop_gate",
            "episode_agent_call_no_progress_stop_gate",
            "episode_replan_no_progress_stop_gate",
            "episode_length_pressure_stop_gate"}

\* A sequence of rules none of which is a lasting gate.
Mild(q) == \E T : q \in Seq(T) /\ \A r \in T : r.rule \notin Lasting

\* Rules from a mild set are mild.
LEMMA MildOver ==
    ASSUME NEW T, NEW q \in Seq(T), \A r \in T : r.rule \notin Lasting
    PROVE  Mild(q)
BY DEF Mild

\* Mild rules after mild rules are mild.
LEMMA MildJoined ==
    ASSUME NEW p, NEW q, Mild(p), Mild(q)
    PROVE  Mild(p \o q)
<1>1. PICK T : p \in Seq(T) /\ \A r \in T : r.rule \notin Lasting
    BY DEF Mild
<1>2. PICK U : q \in Seq(U) /\ \A r \in U : r.rule \notin Lasting
    BY DEF Mild
<1>3. p \in Seq(T \cup U) /\ q \in Seq(T \cup U)
    BY <1>1, <1>2
<1>4. p \o q \in Seq(T \cup U)
    BY <1>3
<1>5. QED
    BY <1>1, <1>2, <1>4 DEF Mild

\* The first of mild rules is no lasting gate.
LEMMA MildFirst ==
    ASSUME NEW q, Mild(q)
    PROVE  FirstOf(q).rule \notin Lasting
<1>1. PICK T : q \in Seq(T) /\ \A r \in T : r.rule \notin Lasting
    BY DEF Mild
<1>2. Len(q) \in Nat /\ \A i \in 1 .. Len(q) : q[i] \in T
    BY <1>1
<1>3. NoRule.rule \notin Lasting
    BY DEF NoRule, R, Lasting
<1>4. QED
    BY <1>1, <1>2, <1>3, FirstOr

MessageFirst(c, m) ==
    <<R("repeated_error_upgrade", "premium_recover", Repeats(c, m)),
      R("hypothesis_contradiction_upgrade", "premium_recover",
        "contradiction" \in m.cues)>>
Cooldown(c, m) ==
    <<Cheap(c, "premium_cooldown", "cheap_probe",
            c.cooldown > 0 /\ "premium" \notin m.cues)>>

\* The families the rules are made of, all mild.
LEMMA RuleFamilies ==
    ASSUME NEW s, NEW c, NEW live, NEW m
    PROVE  /\ Mild(MessageFirst(c, m)) /\ Mild(DeliveryRules(s))
           /\ Mild(PriorityRules(s)) /\ Mild(Cooldown(c, m))
           /\ Mild(StateRules(s, live)) /\ Mild(MessageRules(c, m))
           /\ Rules(s, c, live, m)
                = MessageFirst(c, m) \o DeliveryRules(s) \o PriorityRules(s)
                    \o Cooldown(c, m) \o StateRules(s, live)
                    \o MessageRules(c, m)
<1> DEFINE a == MessageFirst(c, m)
           b == Cooldown(c, m)
<1>1. Mild(a)
  <2>1. a \in Seq({a[1], a[2]})
      BY DEF MessageFirst
  <2>2. a[1].rule \notin Lasting /\ a[2].rule \notin Lasting
      BY DEF MessageFirst, R, Lasting
  <2> HIDE DEF a
  <2>3. QED
      BY <2>1, <2>2 DEF Mild
<1>3. Mild(b)
  <2>1. b \in Seq({b[1]})
      BY DEF Cooldown
  <2>2. b[1].rule \notin Lasting
      BY DEF Cooldown, Cheap, R, Pass, Lasting
  <2> HIDE DEF b
  <2>3. QED
      BY <2>1, <2>2 DEF Mild
<1>4. Mild(DeliveryRules(s))
  <2> DEFINE d == R(DeliveryFloor[s.reason], s.hint, TRUE)
  <2>1. CASE OnDelivery(s)
    <3>1. d.rule \notin Lasting
        BY <2>1 DEF OnDelivery, DeliveryFloor, R, Lasting
    <3>2. DeliveryRules(s) = <<d>>
        BY <2>1 DEF DeliveryRules
    <3> HIDE DEF d
    <3>3. <<d>> \in Seq({d})
        OBVIOUS
    <3>4. \A r \in {d} : r.rule \notin Lasting
        BY <3>1
    <3> DEFINE T == {d}
    <3>5. <<d>> \in Seq(T) /\ \A r \in T : r.rule \notin Lasting
        BY <3>3, <3>4
    <3> HIDE DEF T
    <3>6. Mild(<<d>>)
        BY <3>5, Zenon DEF Mild
    <3>7. QED
        BY <3>2, <3>6
  <2>2. CASE ~OnDelivery(s)
    <3>1. DeliveryRules(s) = << >>
        BY <2>2 DEF DeliveryRules
    <3> DEFINE T == {NoRule}
    <3>2. << >> \in Seq(T) /\ \A r \in T : r.rule \notin Lasting
        BY DEF NoRule, R, Lasting
    <3> HIDE DEF T
    <3>3. Mild(<< >>)
        BY <3>2, Zenon DEF Mild
    <3>4. QED
        BY <3>1, <3>3
  <2>3. QED
      BY <2>1, <2>2
<1>5. Mild(PriorityRules(s))
  <2> DEFINE q == PriorityRules(s)
  <2>1. q \in Seq({q[1], q[2], q[3], q[4]})
      BY DEF PriorityRules
  <2>2. /\ q[1].rule \notin Lasting /\ q[2].rule \notin Lasting
        /\ q[3].rule \notin Lasting /\ q[4].rule \notin Lasting
      BY DEF PriorityRules, R, Lasting
  <2> HIDE DEF q
  <2>3. Mild(q)
      BY <2>1, <2>2 DEF Mild
  <2>4. QED
      BY <2>3 DEF q
<1>6. Mild(StateRules(s, live))
  <2> DEFINE q == StateRules(s, live)
  <2>1. q \in Seq({q[1], q[2], q[3], q[4], q[5]})
      BY DEF StateRules
  <2>2. /\ q[1].rule \notin Lasting /\ q[2].rule \notin Lasting
        /\ q[3].rule \notin Lasting /\ q[4].rule \notin Lasting
        /\ q[5].rule \notin Lasting
      BY DEF StateRules, R, Lasting
  <2> HIDE DEF q
  <2>3. Mild(q)
      BY <2>1, <2>2 DEF Mild
  <2>4. QED
      BY <2>3 DEF q
<1>7. Mild(MessageRules(c, m))
  <2> DEFINE q == MessageRules(c, m)
  <2>1. q \in Seq({q[1], q[2], q[3]})
      BY DEF MessageRules
  <2>2. /\ q[1].rule \notin Lasting /\ q[2].rule \notin Lasting
        /\ q[3].rule \notin Lasting
      BY DEF MessageRules, Cheap, R, Pass, Lasting
  <2> HIDE DEF q
  <2>3. Mild(q)
      BY <2>1, <2>2 DEF Mild
  <2>4. QED
      BY <2>3 DEF q
<1>8. Rules(s, c, live, m)
        = a \o DeliveryRules(s) \o PriorityRules(s) \o b
            \o StateRules(s, live) \o MessageRules(c, m)
    BY Zenon DEF Rules, MessageFirst, Cooldown
<1>9. QED
    BY <1>1, <1>3, <1>4, <1>5, <1>6, <1>7, <1>8

\* No rule after the stop gates is a lasting gate.
LEMMA RulesMild ==
    ASSUME NEW s, NEW c, NEW live, NEW m
    PROVE  Mild(Rules(s, c, live, m))
<1> DEFINE x1 == MessageFirst(c, m) \o DeliveryRules(s)
           x2 == x1 \o PriorityRules(s)
           x3 == x2 \o Cooldown(c, m)
           x4 == x3 \o StateRules(s, live)
           x5 == x4 \o MessageRules(c, m)
<1>1. Rules(s, c, live, m) = x5
    BY RuleFamilies
<1>2. Mild(x1)
    BY RuleFamilies, MildJoined, Zenon
<1> HIDE DEF x1
<1>3. Mild(x2)
    BY <1>2, RuleFamilies, MildJoined, Zenon
<1> HIDE DEF x2
<1>4. Mild(x3)
    BY <1>3, RuleFamilies, MildJoined, Zenon
<1> HIDE DEF x3
<1>5. Mild(x4)
    BY <1>4, RuleFamilies, MildJoined, Zenon
<1> HIDE DEF x4
<1>6. Mild(x5)
    BY <1>5, RuleFamilies, MildJoined, Zenon
<1>7. QED
    BY <1>1, <1>6

\* The rules of the sequences joined first are tried first.
LEMMA JoinedFirst ==
    ASSUME NEW p, NEW q, Mild(p), Mild(q)
    PROVE  /\ Len(p) \in Nat /\ Len(p \o q) \in Nat /\ Len(p \o q) >= Len(p)
           /\ \A i \in 1 .. Len(p) : (p \o q)[i] = p[i]
<1>1. PICK T : p \in Seq(T)
    BY DEF Mild
<1>2. PICK U : q \in Seq(U)
    BY DEF Mild
<1>3. p \in Seq(T \cup U) /\ q \in Seq(T \cup U)
    BY <1>1, <1>2
<1>4. QED
    BY <1>3

\* A state on which every request is refused, until something happens.
Refuses(s) ==
    /\ ~ApplyTruncated(s) /\ ~StallRecovers(s) /\ ~CloseToVerifier(s)
    /\ \/ s.cost > StopCost
       \/ /\ ~Unheard(s)
          /\ \/ s.calls > StopCalls /\ NoCandidate(s)
             \/ /\ s.hyp = "" /\ s.replan # 0
                /\ s.callsSinceReplan >= ReplanLimit
                /\ \/ RouteLabel(s) \in {"none", "pending", "no_progress",
                                         "run_exception", "test_failed",
                                         "verifier_failed"}
                   \/ s.explorationSinceReplan >= ExploreLimit
             \/ /\ s.hyp = "" /\ s.lengthSince >= StopLength
                /\ s.implementation = 0 /\ s.validation = 0 /\ s.delivery = 0
                /\ s.strong = 0

\* The gates by their places.
LEMMA Gates ==
    ASSUME NEW s, NEW m
    PROVE  LET g == StopGates(s, m)
           IN /\ Len(g) = 8
              /\ g[1].when <=> ProviderIncomplete(s)
              /\ g[2].when <=> (ApplyTruncated(s) \/ StallRecovers(s))
              /\ g[3].when <=> (s.cost > StopCost /\ ~CloseToVerifier(s))
              /\ g[4].when <=> AwaitsProjection(s, m)
              /\ g[5].when <=> ReplanExhausted(s, m)
              /\ g[6].when <=> BlockedAfterRecovery(s, m)
              /\ g[7].when <=> TooManyCalls(s, m)
              /\ g[8].when <=> TooLong(s, m)
BY DEF StopGates, Stop, Pass, R

\* What the gates are called and what they do.
LEMMA GateRules ==
    ASSUME NEW s, NEW m
    PROVE  LET g == StopGates(s, m)
           IN /\ g[1].rule = "episode_provider_incomplete_stop_gate"
              /\ g[2].rule = "" /\ g[4].rule = ""
              /\ g[3].rule = "episode_cost_without_verifier_stop_gate"
              /\ g[5].rule = "episode_replan_no_progress_stop_gate"
              /\ g[6].rule = "episode_blocked_stop_gate"
              /\ g[7].rule = "episode_agent_call_no_progress_stop_gate"
              /\ g[8].rule = "episode_length_pressure_stop_gate"
              /\ \A k \in {1, 3, 5, 6, 7, 8} :
                    g[k].rule # "" /\ g[k].action = "stop_trial"
              /\ \A k \in {1, 2, 4, 6} : g[k].rule \notin Lasting
<1> DEFINE g == StopGates(s, m)
<1>1. /\ g[1].rule = "episode_provider_incomplete_stop_gate"
      /\ g[2].rule = "" /\ g[4].rule = ""
      /\ g[3].rule = "episode_cost_without_verifier_stop_gate"
      /\ g[5].rule = "episode_replan_no_progress_stop_gate"
      /\ g[6].rule = "episode_blocked_stop_gate"
      /\ g[7].rule = "episode_agent_call_no_progress_stop_gate"
      /\ g[8].rule = "episode_length_pressure_stop_gate"
    BY DEF StopGates, Stop, Pass, R
<1>2. /\ g[1].action = "stop_trial" /\ g[3].action = "stop_trial"
      /\ g[5].action = "stop_trial" /\ g[6].action = "stop_trial"
      /\ g[7].action = "stop_trial" /\ g[8].action = "stop_trial"
    BY DEF StopGates, Stop, Pass, R
<1> HIDE DEF g
<1>3. \A k \in {1, 3, 5, 6, 7, 8} : g[k].rule # ""
    BY <1>1
<1>4. \A k \in {1, 3, 5, 6, 7, 8} : g[k].action = "stop_trial"
    BY <1>2
<1>5. \A k \in {1, 2, 4, 6} : g[k].rule \notin Lasting
    BY <1>1 DEF Lasting
<1>6. QED
    BY <1>1, <1>3, <1>4, <1>5 DEF g

\* A state that refuses does so whatever is asked.
LEMMA RefusedAlways ==
    ASSUME NEW s, NEW c, NEW live, NEW m, Refuses(s)
    PROVE  LET g == SafeControl(s, c, live, m)
           IN g.rule # "" /\ g.action = "stop_trial"
<1> DEFINE g == StopGates(s, m)
           f == FirstOf(g)
<1>1. ~Unheard(s) => ~AwaitsProjection(s, m) /\ ~InGrace(s, m)
    BY DEF AwaitsProjection, InGrace
<1>2. s.hyp = "" => ~OpenHypothesis(s)
    BY DEF OpenHypothesis, NeedsApplication
<1>3. ~g[2].when /\ \/ g[3].when
                    \/ ~g[4].when /\ \E i \in {5, 7, 8} : g[i].when
  <2>1. s.cost > StopCost => g[3].when
      BY Gates DEF Refuses
  <2>2. ASSUME ~(s.cost > StopCost)
        PROVE  ReplanExhausted(s, m) \/ TooManyCalls(s, m) \/ TooLong(s, m)
      BY <1>1, <1>2, <2>2
         DEF Refuses, ReplanExhausted, TooManyCalls, TooLong
  <2>3. ~g[2].when
      BY Gates DEF Refuses
  <2>4. ~(s.cost > StopCost) => ~g[4].when
      BY <1>1, Gates DEF Refuses
  <2> HIDE DEF g
  <2>5. ReplanExhausted(s, m) \/ TooManyCalls(s, m) \/ TooLong(s, m)
            => g[5].when \/ g[7].when \/ g[8].when
      BY Gates DEF g
  <2>6. QED
      BY <2>1, <2>2, <2>3, <2>4, <2>5
<1>4. Len(g) = 8
    BY Gates
<1> HIDE DEF g
<1>5. \E k \in {1, 3, 5, 6, 7, 8} : f = g[k]
  <2>1. PICK i \in {3, 5, 7, 8} : g[i].when /\ (i = 3 \/ ~g[4].when)
      BY <1>3
  <2>2. i \in 1 .. 8
      BY <2>1
  <2>3. PICK k \in 1 .. i : f = g[k] /\ g[k].when
      BY <1>4, <2>1, <2>2, FirstApplies
  <2>4. k # 2 /\ k # 4
      BY <1>3, <2>1, <2>3
  <2>5. k \in {1, 3, 5, 6, 7, 8}
      BY <2>2, <2>3, <2>4
  <2>6. QED
      BY <2>3, <2>5
<1> HIDE DEF f
<1>6. f.rule # "" /\ f.action = "stop_trial"
  <2>1. \A k \in {1, 3, 5, 6, 7, 8} :
            g[k].rule # "" /\ g[k].action = "stop_trial"
      BY GateRules DEF g
  <2>2. QED
      BY <1>5, <2>1
<1>7. QED
    BY <1>6 DEF SafeControl, f, g

\* A lasting refusal is one of a state that refuses.
LEMMA LastingRefuses ==
    ASSUME NEW s, NEW c, NEW live, NEW m,
           Lasts(SafeControl(s, c, live, m).rule, s)
    PROVE  Refuses(s)
<1> DEFINE g == StopGates(s, m)
           f == FirstOf(g)
           r == SafeControl(s, c, live, m).rule
<1>1. r \in Lasting
    BY DEF Lasts, Lasting
<1>2. SafeControl(s, c, live, m) = f
  <2>1. FirstOf(Rules(s, c, live, m)).rule \notin Lasting
      BY RulesMild, MildFirst
  <2>2. QED
      BY <1>1, <2>1 DEF SafeControl
<1>3. f.rule \in Lasting
    BY <1>1, <1>2
<1>4. Len(g) = 8
    BY Gates
<1> HIDE DEF g
<1>5. PICK k \in 1 .. 8 : /\ f = g[k] /\ g[k].when
                          /\ \A j \in 1 .. k - 1 : ~g[j].when
  <2>1. f # NoRule
    <3>1. NoRule.rule \notin Lasting
        BY DEF NoRule, R, Lasting
    <3>2. QED
        BY <1>3, <3>1, Zenon
  <2>2. 8 \in Nat
      OBVIOUS
  <2>3. QED
      BY <1>4, <2>1, <2>2, FirstOr, Zenon
<1> HIDE DEF f
<1>6. k \in {3, 5, 7, 8}
  <2>1. \A j \in {1, 2, 4, 6} : g[j].rule \notin Lasting
      BY GateRules DEF g
  <2>2. k \notin {1, 2, 4, 6}
      BY <1>3, <1>5, <2>1
  <2>3. QED
      BY <1>5, <2>2
<1>7. ~g[2].when
    BY <1>5, <1>6
<1>8. ~ApplyTruncated(s) /\ ~StallRecovers(s)
    BY <1>7, Gates DEF g
<1>9. CASE k = 3
    BY <1>5, <1>8, <1>9, Gates DEF g, Refuses
<1>10. Lasts(g[k].rule, s)
    BY <1>2, <1>5
<1>11. CASE k = 5
  <2>1. ReplanExhausted(s, m)
      BY <1>5, <1>11, Gates DEF g
  <2>2. s.hyp = "" /\ ~Unheard(s)
      BY <1>10, <1>11, GateRules DEF g, Lasts
  <2>3. QED
      BY <1>8, <2>1, <2>2 DEF ReplanExhausted, Refuses
<1>12. CASE k = 7
  <2>1. TooManyCalls(s, m)
      BY <1>5, <1>12, Gates DEF g
  <2>2. ~Unheard(s)
      BY <1>10, <1>12, GateRules DEF g, Lasts
  <2>3. QED
      BY <1>8, <2>1, <2>2 DEF TooManyCalls, Refuses
<1>13. CASE k = 8
  <2>1. TooLong(s, m)
      BY <1>5, <1>13, Gates DEF g
  <2>2. s.hyp = "" /\ ~Unheard(s)
      BY <1>10, <1>13, GateRules DEF g, Lasts
  <2>3. QED
      BY <1>8, <2>1, <2>2 DEF TooLong, Refuses
<1>14. QED
    BY <1>6, <1>9, <1>11, <1>12, <1>13

\* The record of a refusal does not lift it.
LEMMA RefusesOn ==
    ASSUME NEW s, NEW e, Sound(s), Refusal(e), Refuses(s)
    PROVE  Refuses(Project(s, e))
<1> DEFINE t == Project(s, e)
<1>1. /\ Standstill(s, t) /\ t.cost = s.cost /\ t.calls = s.calls + 1
      /\ t.action = "stop_trial" /\ t.routeLabel = "pending"
      /\ s.replan # 0 => t.callsSinceReplan = s.callsSinceReplan + 1
    BY RefusalProjected
<1>2. /\ s.cost \in Nat /\ s.calls \in Nat /\ s.callsSinceReplan \in Nat
      /\ StopCalls \in Nat /\ ReplanLimit \in Nat
    BY SoundFields, SafeControlAssumption
<1> HIDE DEF t
<1>3. /\ CloseToVerifier(t) <=> CloseToVerifier(s)
      /\ StallRecovers(t) <=> StallRecovers(s)
      /\ NoCandidate(t) <=> NoCandidate(s)
    BY <1>1
       DEF Standstill, CloseToVerifier, StallRecovers, Stalled, NoCandidate
<1>4. ~ApplyTruncated(t) /\ ~Unheard(t) /\ RouteLabel(t) = "pending"
    BY <1>1 DEF ApplyTruncated, Unheard, RouteLabel
<1>5. s.calls > StopCalls => t.calls > StopCalls
    BY <1>1, <1>2
<1>6. s.replan # 0 /\ s.callsSinceReplan >= ReplanLimit
        => t.replan # 0 /\ t.callsSinceReplan >= ReplanLimit
    BY <1>1, <1>2 DEF Standstill
<1>7. Refuses(t)
    BY <1>1, <1>3, <1>4, <1>5, <1>6 DEF Refuses, Standstill
<1>8. QED
    BY <1>7 DEF t

\* The gates are all but the two early returns.
LEMMA GateNumber ==
    ASSUME NEW k \in 1 .. 8, k # 2, k # 4
    PROVE  k \in {1, 3, 5, 6, 7, 8}
OBVIOUS

\* A gate that applies refuses.
LEMMA GateRefuses ==
    ASSUME NEW s, NEW m, FirstOf(StopGates(s, m)).rule # ""
    PROVE  FirstOf(StopGates(s, m)).action = "stop_trial"
<1> DEFINE g == StopGates(s, m)
<1>1. FirstOf(g) # NoRule
  <2>1. NoRule.rule = ""
      BY DEF NoRule, R
  <2>2. QED
      BY <2>1, Zenon
<1>2. Len(g) = 8 /\ 8 \in Nat
    BY Gates
<1>3. PICK k \in 1 .. 8 : FirstOf(g) = g[k]
    BY <1>1, <1>2, FirstOr, Zenon
<1> HIDE DEF g
<1>4. k \in {1, 3, 5, 6, 7, 8}
  <2>1. g[2].rule = "" /\ g[4].rule = ""
      BY GateRules DEF g
  <2>2. FirstOf(g).rule # ""
      BY DEF g
  <2>3. k # 2 /\ k # 4
      BY <1>3, <2>1, <2>2
  <2>4. QED
      BY <1>3, <2>3, GateNumber
<1>5. g[k].action = "stop_trial"
    BY <1>4, GateRules DEF g
<1>6. QED
    BY <1>3, <1>5 DEF g

\* The verdict is heeded, or the request is refused.
LEMMA VerdictDecides ==
    ASSUME NEW s, NEW c, NEW live, NEW m, VerdictNamed(s),
           s.readiness = "verifier_failed", s.samePrint < RepeatLimit
    PROVE  LET g == SafeControl(s, c, live, m)
           IN g.rule # "" /\ g.action \in {"stop_trial", "premium_recover"}
<1> DEFINE a == MessageFirst(c, m)
           d == R("episode_verifier_recovery_floor", "premium_recover", TRUE)
           x == a \o <<d>>
           x1 == x \o PriorityRules(s)
           x2 == x1 \o Cooldown(c, m)
           x3 == x2 \o StateRules(s, live)
           q == x3 \o MessageRules(c, m)
<1>1. DeliveryRules(s) = <<d>>
  <2>1. s.reason = "verifier_failed_current_delivery" /\ s.hint = "premium_recover"
      BY DEF VerdictNamed
  <2>2. OnDelivery(s)
      BY <2>1 DEF OnDelivery, DeliveryFloor
  <2>3. DeliveryFloor[s.reason] = "episode_verifier_recovery_floor"
      BY <2>1 DEF DeliveryFloor
  <2>4. QED
      BY <2>1, <2>2, <2>3 DEF DeliveryRules
<1>2. Rules(s, c, live, m) = q
    BY <1>1, RuleFamilies
<1>3. Mild(x)
    BY <1>1, RuleFamilies, MildJoined, Zenon
<1>4. /\ Len(x) = 3 /\ x[3] = d
      /\ x[1].rule = "repeated_error_upgrade"
      /\ x[2].rule = "hypothesis_contradiction_upgrade"
      /\ x[1].action = "premium_recover" /\ x[2].action = "premium_recover"
  <2> DEFINE r1 == R("repeated_error_upgrade", "premium_recover", Repeats(c, m))
             r2 == R("hypothesis_contradiction_upgrade", "premium_recover",
                     "contradiction" \in m.cues)
  <2>1. /\ r1.rule = "repeated_error_upgrade"
        /\ r2.rule = "hypothesis_contradiction_upgrade"
        /\ r1.action = "premium_recover" /\ r2.action = "premium_recover"
      BY DEF R
  <2>2. a = <<r1, r2>>
      BY DEF MessageFirst
  <2> HIDE DEF r1, r2, d, a
  <2>3. Len(x) = 3 /\ x[1] = r1 /\ x[2] = r2 /\ x[3] = d
      BY <2>2
  <2> HIDE DEF x
  <2>4. QED
      BY <2>1, <2>3
<1>5. d.rule # "" /\ d.action = "premium_recover" /\ d.when
    BY DEF R
<1> HIDE DEF d, x
<1> DEFINE Begins(y) == /\ Mild(y) /\ Len(y) \in Nat /\ Len(y) >= 3
                        /\ y[1] = x[1] /\ y[2] = x[2] /\ y[3] = x[3]
<1>6. ASSUME NEW y, NEW z, Begins(y), Mild(z)
      PROVE  Begins(y \o z)
  <2> DEFINE w == y \o z
  <2>1. Mild(w)
      BY <1>6, MildJoined, Zenon
  <2>2. /\ Len(w) \in Nat /\ Len(w) >= Len(y)
        /\ \A i \in 1 .. Len(y) : w[i] = y[i]
      BY <1>6, JoinedFirst, Zenon
  <2> HIDE DEF w
  <2>3. 1 \in 1 .. Len(y) /\ 2 \in 1 .. Len(y) /\ 3 \in 1 .. Len(y)
      BY <1>6
  <2>4. Begins(w)
      BY <1>6, <2>1, <2>2, <2>3
  <2>5. QED
      BY <2>4 DEF w
<1>7. Begins(q)
  <2>1. Begins(x)
      BY <1>3, <1>4
  <2> HIDE DEF Begins
  <2>2. Begins(x1)
      BY <1>6, <2>1, RuleFamilies, Zenon
  <2> HIDE DEF x1
  <2>3. Begins(x2)
      BY <1>6, <2>2, RuleFamilies, Zenon
  <2> HIDE DEF x2
  <2>4. Begins(x3)
      BY <1>6, <2>3, RuleFamilies, Zenon
  <2> HIDE DEF x3
  <2>5. QED
      BY <1>6, <2>4, RuleFamilies, Zenon
<1> HIDE DEF q
<1>8. /\ q[3].when
      /\ \A i \in {1, 2, 3} : q[i].rule # "" /\ q[i].action = "premium_recover"
  <2>1. q[1] = x[1] /\ q[2] = x[2] /\ q[3] = d
      BY <1>4, <1>7
  <2>2. q[3].when
      BY <1>5, <2>1
  <2>3. QED
      BY <1>4, <1>5, <2>1, <2>2
<1>9. FirstOf(q).rule # "" /\ FirstOf(q).action = "premium_recover"
  <2>1. Len(q) \in Nat /\ 3 \in 1 .. Len(q)
      BY <1>7
  <2>2. PICK k \in 1 .. 3 : FirstOf(q) = q[k]
    <3>1. q[3].when
        BY <1>8
    <3>2. QED
        BY <2>1, <3>1, FirstApplies
  <2>3. k \in {1, 2, 3}
      BY <2>2
  <2>4. QED
      BY <1>8, <2>2, <2>3
<1>10. QED
    BY <1>2, <1>9, GateRefuses DEF SafeControl

------------------------------------------------------------------------------
(* What the scripts of the probe cost *)

\* A step that posts nothing that costs.
FreeStep(x) ==
    x.do = "post" => "cost" \in DOMAIN x.event /\ x.event.cost = 0
Free(q) == \E T : q \in Seq(T) /\ \A x \in T : FreeStep(x)

\* The steps that post nothing that costs.
LEMMA FreeSteps ==
    /\ \A e : "cost" \in DOMAIN e /\ e.cost = 0 => FreeStep(Post(e))
    /\ \A m, w : FreeStep(Ask(m, w))
    /\ \A w : FreeStep(See(w))
BY DEF FreeStep, Post, Ask, See

\* A script of such steps posts nothing that costs.
LEMMA FreeOver ==
    ASSUME NEW T, NEW q \in Seq(T), \A x \in T : FreeStep(x)
    PROVE  Free(q)
BY DEF Free

\* Nor does one after another.
LEMMA FreeJoined ==
    ASSUME NEW p, NEW q, Free(p), Free(q)
    PROVE  Free(p \o q)
<1>1. PICK T : p \in Seq(T) /\ \A x \in T : FreeStep(x)
    BY DEF Free
<1>2. PICK U : q \in Seq(U) /\ \A x \in U : FreeStep(x)
    BY DEF Free
<1>3. p \in Seq(T \cup U) /\ q \in Seq(T \cup U)
    BY <1>1, <1>2
<1>4. p \o q \in Seq(T \cup U)
    BY <1>3
<1>5. QED
    BY <1>1, <1>2, <1>4 DEF Free

\* A script of one step.
LEMMA FreeOne ==
    ASSUME NEW a, FreeStep(a)
    PROVE  Free(<<a>>)
<1> DEFINE T == {a}
<1>1. <<a>> \in Seq(T) /\ \A x \in T : FreeStep(x)
    OBVIOUS
<1> HIDE DEF T
<1>2. QED
    BY <1>1, FreeOver

\* A script of two steps.
LEMMA FreeTwo ==
    ASSUME NEW a, NEW b, FreeStep(a), FreeStep(b)
    PROVE  Free(<<a, b>>)
<1> DEFINE T == {a, b}
<1>1. <<a, b>> \in Seq(T) /\ \A x \in T : FreeStep(x)
    OBVIOUS
<1> HIDE DEF T
<1>2. QED
    BY <1>1, FreeOver

\* A script of three steps.
LEMMA FreeThree ==
    ASSUME NEW a, NEW b, NEW c, FreeStep(a), FreeStep(b), FreeStep(c)
    PROVE  Free(<<a, b, c>>)
<1> DEFINE T == {a, b, c}
<1>1. <<a, b, c>> \in Seq(T) /\ \A x \in T : FreeStep(x)
    OBVIOUS
<1> HIDE DEF T
<1>2. QED
    BY <1>1, FreeOver

\* A script of four steps.
LEMMA FreeFour ==
    ASSUME NEW a, NEW b, NEW c, NEW d,
           FreeStep(a), FreeStep(b), FreeStep(c), FreeStep(d)
    PROVE  Free(<<a, b, c, d>>)
<1> DEFINE T == {a, b, c, d}
<1>1. <<a, b, c, d>> \in Seq(T) /\ \A x \in T : FreeStep(x)
    OBVIOUS
<1> HIDE DEF T
<1>2. QED
    BY <1>1, FreeOver

\* The same event posted again and again.
LEMMA FreePosts ==
    ASSUME NEW n \in Nat, NEW e, "cost" \in DOMAIN e, e.cost = 0
    PROVE  Free(Posts(n, e))
<1> DEFINE a == Post(e)
           T == {a}
<1>1. FreeStep(a)
    BY FreeSteps
<1> HIDE DEF a
<1>2. Posts(n, e) \in Seq(T) /\ \A x \in T : FreeStep(x)
    BY <1>1 DEF Posts, a
<1> HIDE DEF T
<1>3. QED
    BY <1>2, FreeOver

\* The events the scenarios post.
LEMMA EventsFree ==
    /\ "cost" \in DOMAIN Truncated /\ Truncated.cost = 0
    /\ \A kind : "cost" \in DOMAIN Blank(kind) /\ Blank(kind).cost = 0
    /\ \A a, o : "cost" \in DOMAIN Called(a, o) /\ Called(a, o).cost = 0
    /\ \A a, o, h : LET e == [Called(a, o) EXCEPT !.hyp = h]
                    IN "cost" \in DOMAIN e /\ e.cost = 0
    /\ \A a, o, h : LET e == [Called(a, o) EXCEPT !.rule = h]
                    IN "cost" \in DOMAIN e /\ e.cost = 0
    /\ \A h : LET e == [Truncated EXCEPT !.hyp = h]
              IN "cost" \in DOMAIN e /\ e.cost = 0
    /\ \A kind : "cost" \in DOMAIN Delivered(kind) /\ Delivered(kind).cost = 0
BY DEF Truncated, Called, Blank, Delivered

\* The scenarios, one by one.
LEMMA CasesFree == Free(Cases)
<1> DEFINE q == Cases
           T == {q[1], q[2], q[3], q[4], q[5], q[6], q[7], q[8], q[9]}
<1>1. q \in Seq(T)
    BY DEF Cases
<1>2. /\ FreeStep(q[1]) /\ FreeStep(q[2]) /\ FreeStep(q[3])
      /\ FreeStep(q[4]) /\ FreeStep(q[5]) /\ FreeStep(q[6])
      /\ FreeStep(q[7]) /\ FreeStep(q[8]) /\ FreeStep(q[9])
    BY DEF Cases, FreeStep, Ask
<1> HIDE DEF q
<1>3. \A x \in T : FreeStep(x)
    BY <1>2
<1> HIDE DEF T
<1>4. Free(q)
    BY <1>1, <1>3, FreeOver
<1>5. QED
    BY <1>4 DEF q

LEMMA LengthFree == Free(LengthPressure)
<1>1. Free(Posts(2, Truncated))
    BY FreePosts, EventsFree
<1>2. \A w : Free(<<See(w)>>)
    BY FreeOne, FreeSteps
<1>3. Free(Pressed)
    BY <1>1, <1>2, FreeJoined DEF Pressed
<1> DEFINE e == [Blank("test_run") EXCEPT !.outcome = "passed",
                                          !.validates = TRUE]
<1>4. FreeStep(Post(e))
  <2>1. "cost" \in DOMAIN e /\ e.cost = 0
      BY DEF Blank
  <2>2. QED
      BY <2>1, FreeSteps
<1> HIDE DEF e
<1>5. \A m, w, v, u : Free(<<Ask(m, w), See(v), Post(e), See(u)>>)
    BY <1>4, FreeSteps, FreeFour
<1>6. QED
    BY <1>3, <1>5, FreeJoined DEF LengthPressure, e

LEMMA FailureFree == Free(FailureFrontier)
<1> DEFINE e == [Blank("test_run") EXCEPT !.outcome = "failed",
                                          !.print = "relay", !.failed = 2]
<1>1. Free(Posts(2, e))
  <2>1. "cost" \in DOMAIN e /\ e.cost = 0
      BY DEF Blank
  <2>2. QED
      BY <2>1, FreePosts
<1>2. \A w, m, v, n, u : Free(<<See(w), Ask(m, v), Ask(n, u)>>)
    BY FreeThree, FreeSteps
<1>3. QED
    BY <1>1, <1>2, FreeJoined DEF FailureFrontier

LEMMA VerifiedFree == Free(Verified)
<1> DEFINE t == [Blank("test_run") EXCEPT !.outcome = "passed"]
           v == [Blank("verifier_result") EXCEPT !.good = TRUE]
           d == Delivered("file_written")
<1>1. FreeStep(Post(t)) /\ FreeStep(Post(v)) /\ FreeStep(Post(d))
  <2>1. /\ "cost" \in DOMAIN t /\ t.cost = 0
        /\ "cost" \in DOMAIN v /\ v.cost = 0
      BY DEF Blank
  <2>2. QED
      BY <2>1, EventsFree, FreeSteps
<1>2. Verified = <<Post(d), Post(t), Post(v)>>
    BY DEF Verified
<1> HIDE DEF t, v, d
<1>3. QED
    BY <1>1, <1>2, FreeThree

LEMMA ReadyFree == Free(CompletionReady)
<1>1. \A w, m, v, n, u : Free(<<See(w), Ask(m, v), Ask(n, u)>>)
    BY FreeThree, FreeSteps
<1>2. QED
    BY <1>1, VerifiedFree, FreeJoined DEF CompletionReady

LEMMA RegressFree == Free(CompletionRegress)
<1> DEFINE d == Delivered("file_modified")
<1>1. FreeStep(Post(d))
    BY EventsFree, FreeSteps
<1> HIDE DEF d
<1>2. \A w, m, v : Free(<<Post(d), See(w), Ask(m, v)>>)
    BY <1>1, FreeThree, FreeSteps
<1>3. QED
    BY <1>2, VerifiedFree, FreeJoined DEF CompletionRegress, d

LEMMA DeliveryFree == Free(DeliveryFloorReached)
<1> DEFINE f == [Blank("file_written") EXCEPT !.target = "workspace"]
           c == [Called("cheap_execute", "stop") EXCEPT !.rule = FloorRule]
<1>1. Free(Posts(6, f))
  <2>1. "cost" \in DOMAIN f /\ f.cost = 0
      BY DEF Blank
  <2>2. QED
      BY <2>1, FreePosts
<1>2. Free(Posts(3, Called("cheap_probe", "stop")))
    BY FreePosts, EventsFree
<1>3. \A w : Free(<<See(w)>>)
    BY FreeOne, FreeSteps
<1>4. Free(Undelivered)
  <2>1. Free(Posts(6, f) \o Posts(3, Called("cheap_probe", "stop")))
      BY <1>1, <1>2, FreeJoined
  <2>2. QED
      BY <1>3, <2>1, FreeJoined DEF Undelivered
<1>5. FreeStep(Post(c))
    BY EventsFree, FreeSteps
<1> HIDE DEF c
<1>6. \A m, w, v, n, u : Free(<<Ask(m, w), Post(c), See(v), Ask(n, u)>>)
    BY <1>5, FreeFour, FreeSteps
<1>7. QED
    BY <1>4, <1>6, FreeJoined DEF DeliveryFloorReached, c

LEMMA ApplyFree == Free(HypothesisApply)
<1> DEFINE a == Post(Called("freeze_or_replan", "stop"))
           b == Post([Truncated EXCEPT !.hyp = "A"])
           c == Post([Called("cheap_probe", "stop") EXCEPT !.hyp = "B"])
<1>1. FreeStep(a) /\ FreeStep(b) /\ FreeStep(c)
    BY EventsFree, FreeSteps
<1>2. HypothesisApply[5] = See([replans |-> 1, hypCount |-> 2, hypEvent |-> 3,
           hypStatus |-> "stale", callsSinceReplan |-> 3,
           capability |-> "cheap_execute", hint |-> "hypothesis_apply",
           reason |-> "replan_hypothesis_needs_validation"])
    BY DEF HypothesisApply
<1>3. HypothesisApply[6] = Ask(Plain,
           Of(Routed("episode_replan_hypothesis_apply",
                                 "hypothesis_apply"), <<4096, 90000>>))
    BY DEF HypothesisApply
<1>4. HypothesisApply
        = <<a, b, c, c, HypothesisApply[5], HypothesisApply[6]>>
    BY DEF HypothesisApply
<1> HIDE DEF a, b, c
<1> DEFINE d == HypothesisApply[5]
           e == HypothesisApply[6]
           T == {a, b, c, d, e}
<1>5. FreeStep(d) /\ FreeStep(e)
    BY <1>2, <1>3, FreeSteps
<1> HIDE DEF d, e
<1>6. HypothesisApply = <<a, b, c, c, d, e>>
    BY <1>4 DEF d, e
<1>7. <<a, b, c, c, d, e>> \in Seq(T) /\ \A x \in T : FreeStep(x)
    BY <1>1, <1>5
<1> HIDE DEF T
<1>8. QED
    BY <1>6, <1>7, FreeOver

LEMMA CutFree == Free(HypothesisLength)
<1> DEFINE a == Post(Called("freeze_or_replan", "stop"))
           b == Post([Called("premium_reason", "stop") EXCEPT !.hyp = "A"])
           c == Post(Called("cheap_probe", "stop"))
           d == Post(Called("hypothesis_apply", "length"))
<1>1. FreeStep(a) /\ FreeStep(b) /\ FreeStep(c) /\ FreeStep(d)
    BY EventsFree, FreeSteps
<1> HIDE DEF a, b, c, d
<1>2. ASSUME NEW w PROVE Free(<<a, b, c, d, See(w)>>)
  <2> DEFINE e == See(w)
             T == {a, b, c, d, e}
  <2>1. FreeStep(e)
      BY FreeSteps
  <2> HIDE DEF e
  <2>2. <<a, b, c, d, e>> \in Seq(T) /\ \A x \in T : FreeStep(x)
      BY <1>1, <2>1
  <2> HIDE DEF T
  <2>3. QED
      BY <2>2, FreeOver DEF e
<1>3. Free(HypothesisCut)
    BY <1>2 DEF HypothesisCut, a, b, c, d
<1>4. \A m, w : Free(<<Ask(m, w)>>)
    BY FreeOne, FreeSteps
<1>5. QED
    BY <1>3, <1>4, FreeJoined DEF HypothesisLength

LEMMA AnalysisFree == Free(AnalysisApplication)
<1> DEFINE v == [Blank("analysis_progress") EXCEPT !.good = TRUE]
           c == [Called("cheap_execute", "stop") EXCEPT !.rule = ApplyRule]
<1>1. Free(<<Post(v)>>)
  <2>1. "cost" \in DOMAIN v /\ v.cost = 0
      BY DEF Blank
  <2>2. QED
      BY <2>1, FreeOne, FreeSteps
<1>2. Free(Posts(3, c))
    BY FreePosts, EventsFree
<1>3. \A w : Free(<<See(w)>>)
    BY FreeOne, FreeSteps
<1>4. Free(Tried)
  <2>1. Free(<<Post(v)>> \o Posts(3, c))
      BY <1>1, <1>2, FreeJoined
  <2>2. QED
      BY <1>3, <2>1, FreeJoined DEF Tried
<1>5. \A m, w, u : Free(<<Ask(m, w), See(u)>>)
    BY FreeTwo, FreeSteps
<1>6. QED
    BY <1>4, <1>5, FreeJoined DEF AnalysisApplication

LEMMA StallFree == Free(ExecutionStall)
<1> DEFINE stall == <<Post(Called("cheap_probe", "stop")),
                      Post(Blank("execution_stall"))>>
<1>1. Free(stall)
    BY FreeTwo, FreeSteps, EventsFree
<1> HIDE DEF stall
<1>2. Free(stall \o stall)
    BY <1>1, FreeJoined
<1>3. \A m, w, u : Free(<<See(u), Ask(m, w)>>)
    BY FreeTwo, FreeSteps
<1>4. QED
    BY <1>2, <1>3, FreeJoined DEF ExecutionStall, stall

LEMMA FloorFree == Free(CapabilityFloor)
<1>1. FreeStep(Post(Blank("verifier_result")))
    BY EventsFree, FreeSteps
<1>2. \A m, w, u :
        Free(<<Post(Blank("verifier_result")), See(u), Ask(m, w)>>)
    BY <1>1, FreeThree, FreeSteps
<1>3. QED
    BY <1>2 DEF CapabilityFloor

LEMMA StopFree == Free(StopGate)
<1>1. Free(Posts(49, Called("cheap_execute", "stop")))
    BY FreePosts, EventsFree
<1>2. FreeStep(Post(Called("premium_recover", "stop")))
    BY EventsFree, FreeSteps
<1>3. \A m, w, u :
        Free(<<Post(Called("premium_recover", "stop")), See(u), Ask(m, w)>>)
    BY <1>2, FreeThree, FreeSteps
<1>4. QED
    BY <1>1, <1>3, FreeJoined DEF StopGate

LEMMA CallsFree == Free(AgentCallStop)
<1>1. Free(Posts(26, Called("cheap_probe", "stop")))
    BY FreePosts, EventsFree
<1>2. \A m, w, u : Free(<<See(u), Ask(m, w)>>)
    BY FreeTwo, FreeSteps
<1>3. QED
    BY <1>1, <1>2, FreeJoined DEF AgentCallStop

LEMMA ExplorationFree == Free(LongExploration)
<1>1. Free(Posts(12, Blank("tool_call")))
    BY FreePosts, EventsFree
<1>2. \A m, w, u : Free(<<See(u), Ask(m, w)>>)
    BY FreeTwo, FreeSteps
<1>3. QED
    BY <1>1, <1>2, FreeJoined DEF LongExploration

LEMMA ReplanFree == Free(PostReplanStop)
<1> DEFINE p == <<Post(Called("freeze_or_replan", "stop"))>>
           q == Posts(3, Called("cheap_probe", "stop"))
<1>1. Free(p)
    BY FreeOne, FreeSteps, EventsFree
<1>2. Free(q)
    BY FreePosts, EventsFree
<1> HIDE DEF p, q
<1>3. Free(p \o q)
    BY <1>1, <1>2, FreeJoined
<1>4. \A m, w, u : Free(<<See(u), Ask(m, w)>>)
    BY FreeTwo, FreeSteps
<1>5. QED
    BY <1>3, <1>4, FreeJoined DEF PostReplanStop, p, q

LEMMA IncompleteFree == Free(ProviderIncompleteStop)
<1>1. \A m, w : Free(<<Post(Called("cheap_execute", "incomplete")), Ask(m, w)>>)
    BY FreeTwo, FreeSteps, EventsFree
<1>2. QED
    BY <1>1 DEF ProviderIncompleteStop

LEMMA TruncatedFree == Free(LengthStop)
<1>1. Free(Posts(3, Truncated))
    BY FreePosts, EventsFree
<1>2. \A m, w : Free(<<Ask(m, w)>>)
    BY FreeOne, FreeSteps
<1>3. QED
    BY <1>1, <1>2, FreeJoined DEF LengthStop

\* What the scenarios cost: nothing, but for the one call of the scenario about
\* the cost.
LEMMA ScriptCosts ==
    ASSUME NEW x \in DOMAIN Scenarios
    PROVE  LET q == Scenarios[x]
           IN /\ Len(q) \in Nat
              /\ \A i \in 1 .. Len(q) : q[i].do = "post" =>
                    "cost" \in DOMAIN q[i].event /\ q[i].event.cost \in Nat
<1> DEFINE q == Scenarios[x]
           Right(p) == /\ Len(p) \in Nat
                       /\ \A i \in 1 .. Len(p) : p[i].do = "post" =>
                            /\ "cost" \in DOMAIN p[i].event
                            /\ p[i].event.cost \in Nat
<1>1. ASSUME NEW p, Free(p) PROVE Right(p)
  <2>1. PICK T : p \in Seq(T) /\ \A y \in T : FreeStep(y)
      BY <1>1 DEF Free
  <2>2. Len(p) \in Nat /\ \A i \in 1 .. Len(p) : p[i] \in T
      BY <2>1
  <2>3. QED
      BY <2>1, <2>2 DEF FreeStep
<1>2. Right(CostStop)
  <2> DEFINE e == [Called("premium_reason", "stop") EXCEPT !.cost = 301]
  <2>1. /\ Len(CostStop) = 2 /\ CostStop[1] = Post(e)
        /\ CostStop[2].do = "ask"
      BY DEF CostStop, Ask
  <2>2. "cost" \in DOMAIN e /\ e.cost = 301
      BY DEF Called, Blank
  <2> HIDE DEF e
  <2>3. Post(e).event = e
      BY DEF Post
  <2>4. \A i \in 1 .. 2 : i = 1 \/ i = 2
      OBVIOUS
  <2>5. QED
      BY <2>1, <2>2, <2>3, <2>4
<1> HIDE DEF Right
<1>3. x = "cost" \/ Free(q)
  <2>1. CASE x \in {"cases", "length", "failure", "ready", "regress",
                    "delivery"}
      BY <2>1, CasesFree, LengthFree, FailureFree, ReadyFree, RegressFree,
         DeliveryFree DEF Scenarios
  <2>2. CASE x \in {"apply", "applyLength", "analysis", "stall", "floor",
                    "stop"}
      BY <2>2, ApplyFree, CutFree, AnalysisFree, StallFree, FloorFree, StopFree
         DEF Scenarios
  <2>3. CASE x \in {"calls", "exploration", "replan", "incomplete", "cost",
                    "truncated"}
      BY <2>3, CallsFree, ExplorationFree, ReplanFree, IncompleteFree,
         TruncatedFree DEF Scenarios
  <2>4. QED
      BY <2>1, <2>2, <2>3 DEF Scenarios
<1>4. x = "cost" => q = CostStop
    BY DEF Scenarios
<1> HIDE DEF q
<1>5. Right(q)
    BY <1>1, <1>2, <1>3, <1>4
<1>6. QED
    BY <1>5 DEF Right, q

------------------------------------------------------------------------------
(* Events that are not calls *)

\* Events that are not calls cost nothing.
Quiet(q) ==
    \E T : /\ q \in Seq(T)
           /\ \A x \in T : /\ "cost" \in DOMAIN x /\ x.cost = 0
                           /\ "kind" \in DOMAIN x /\ ~IsCall(x)

\* Quiet events after quiet events are quiet.
LEMMA QuietJoined ==
    ASSUME NEW p, NEW q, Quiet(p), Quiet(q)
    PROVE  Quiet(p \o q)
<1> DEFINE P(x) == /\ "cost" \in DOMAIN x /\ x.cost = 0
                   /\ "kind" \in DOMAIN x /\ ~IsCall(x)
<1>1. PICK T : p \in Seq(T) /\ \A x \in T : P(x)
    BY DEF Quiet
<1>2. PICK U : q \in Seq(U) /\ \A x \in U : P(x)
    BY DEF Quiet
<1>3. p \in Seq(T \cup U) /\ q \in Seq(T \cup U)
    BY <1>1, <1>2
<1>4. p \o q \in Seq(T \cup U) /\ \A x \in T \cup U : P(x)
    BY <1>1, <1>2, <1>3
<1>5. QED
    BY <1>4 DEF Quiet

\* One quiet event, or none.
LEMMA QuietOne ==
    ASSUME NEW e, "cost" \in DOMAIN e, e.cost = 0, "kind" \in DOMAIN e,
           ~IsCall(e)
    PROVE  Quiet(<<e>>) /\ Quiet(<< >>)
<1> DEFINE T == {e}
<1>1. /\ <<e>> \in Seq(T) /\ << >> \in Seq(T)
      /\ \A x \in T : /\ "cost" \in DOMAIN x /\ x.cost = 0
                      /\ "kind" \in DOMAIN x /\ ~IsCall(x)
    OBVIOUS
<1> HIDE DEF T
<1>2. QED
    BY <1>1 DEF Quiet

\* The events of a command are quiet.
LEMMA CommandQuiet ==
    ASSUME NEW c
    PROVE  Quiet(CommandEvents(c))
<1> DEFINE a == Blank("tool_call")
           f == [Blank("file_written") EXCEPT !.target = c.target]
           t == [Blank("test_run") EXCEPT
                  !.outcome = TestOutcome(c), !.validates = c.kind = "validation",
                  !.print = IF TestOutcome(c) = "failed" THEN "exit" ELSE ""]
           x == Blank("run_exception")
           qf == IF c.target = "" THEN <<>> ELSE <<f>>
           qt == IF c.kind \notin {"test", "validation"} THEN <<>> ELSE <<t>>
           qx == IF c.end # "timeout" THEN <<>> ELSE <<x>>
<1>1. Quiet(<<a>>) /\ Quiet(<< >>)
  <2>1. "cost" \in DOMAIN a /\ a.cost = 0 /\ "kind" \in DOMAIN a /\ ~IsCall(a)
      BY DEF Blank, IsCall
  <2> HIDE DEF a
  <2>2. QED
      BY <2>1, QuietOne
<1>2. Quiet(<<f>>)
  <2>1. "cost" \in DOMAIN f /\ f.cost = 0 /\ "kind" \in DOMAIN f /\ ~IsCall(f)
      BY DEF Blank, IsCall
  <2> HIDE DEF f
  <2>2. QED
      BY <2>1, QuietOne
<1>3. Quiet(<<t>>)
  <2>1. "cost" \in DOMAIN t /\ t.cost = 0 /\ "kind" \in DOMAIN t /\ ~IsCall(t)
      BY DEF Blank, IsCall
  <2> HIDE DEF t
  <2>2. QED
      BY <2>1, QuietOne
<1>4. Quiet(<<x>>)
  <2>1. "cost" \in DOMAIN x /\ x.cost = 0 /\ "kind" \in DOMAIN x /\ ~IsCall(x)
      BY DEF Blank, IsCall
  <2> HIDE DEF x
  <2>2. QED
      BY <2>1, QuietOne
<1>5. CommandEvents(c) = <<a>> \o qf \o qt \o qx
    BY Zenon DEF CommandEvents
<1>6. Quiet(qf) /\ Quiet(qt) /\ Quiet(qx)
    BY <1>1, <1>2, <1>3, <1>4
<1> HIDE DEF a, qf, qt, qx
<1>7. Quiet(<<a>> \o qf)
    BY <1>1, <1>6, QuietJoined
<1>8. Quiet(<<a>> \o qf \o qt)
    BY <1>6, <1>7, QuietJoined
<1>9. Quiet(<<a>> \o qf \o qt \o qx)
    BY <1>6, <1>8, QuietJoined
<1>10. QED
    BY <1>5, <1>9

\* The first of some quiet events, and the rest.
LEMMA QuietParts ==
    ASSUME NEW q, Quiet(q), q # << >>
    PROVE  /\ LET e == Head(q) IN /\ "cost" \in DOMAIN e /\ e.cost = 0
                                  /\ "kind" \in DOMAIN e /\ ~IsCall(e)
           /\ Quiet(Tail(q))
<1> DEFINE P(x) == /\ "cost" \in DOMAIN x /\ x.cost = 0
                   /\ "kind" \in DOMAIN x /\ ~IsCall(x)
<1>1. PICK T : q \in Seq(T) /\ \A x \in T : P(x)
    BY DEF Quiet
<1>2. Head(q) \in T /\ Tail(q) \in Seq(T)
    BY <1>1
<1>3. QED
    BY <1>1, <1>2 DEF Quiet

\* No events are quiet.
LEMMA QuietNone == Quiet(<< >>)
<1> DEFINE e == Blank("tool_call")
<1>1. "cost" \in DOMAIN e /\ e.cost = 0 /\ "kind" \in DOMAIN e /\ ~IsCall(e)
    BY DEF Blank, IsCall
<1> HIDE DEF e
<1>2. QED
    BY <1>1, QuietOne

------------------------------------------------------------------------------
(* Every step keeps what the gates rest on *)

Shaped ==
    /\ DOMAIN req = Requests
    /\ \A r \in Requests :
          /\ DOMAIN req[r] = DOMAIN Idle
          /\ req[r].pc \in {"idle", "rules", "judge", "call", "clear", "forget"}

\* A refusal aborts, and what was refused or judged unheeded is so when it is
\* decided.
Heeds(q) ==
    /\ q.after => q.pc = "call" /\ q.route.abort
    /\ q.failed => q.pc = "call" /\ (q.route.strong \/ q.route.abort)
    /\ q.pc = "call" => (q.route.abort <=> q.route.action = "stop_trial")

Script == scenario \in DOMAIN Scenarios /\ at \in Nat \ {0}

Unstarted == /\ ~stopped /\ batch = << >>
             /\ \A r \in Requests : req[r].pc = "idle"

Heeding ==
    /\ Sound(state) /\ VerdictNamed(state)
    /\ Shaped /\ \A r \in Requests : Heeds(req[r])
    /\ stopped => Refuses(state)
    /\ Quiet(batch)
    /\ Script /\ (~ScriptDone => Unstarted)

\* What an idle request is.
LEMMA IdleIs ==
    /\ DOMAIN Idle = {"pc", "message", "obs", "snap", "route", "after", "failed"}
    /\ Idle.pc = "idle" /\ ~Idle.after /\ ~Idle.failed /\ Heeds(Idle)
BY DEF Idle, Heeds

\* One request changes.
LEMMA OneChanges ==
    ASSUME NEW r \in Requests, NEW q, req' = [req EXCEPT ![r] = q],
           Shaped, DOMAIN q = DOMAIN Idle,
           q.pc \in {"idle", "rules", "judge", "call", "clear", "forget"}
    PROVE  /\ Shaped'
           /\ \A x \in Requests : req'[x] = IF x = r THEN q ELSE req[x]
<1>1. DOMAIN req' = Requests
    BY DEF Shaped
<1>2. \A x \in Requests : req'[x] = IF x = r THEN q ELSE req[x]
    BY DEF Shaped
<1>3. QED
    BY <1>1, <1>2 DEF Shaped

\* It holds at first.
LEMMA HeedingInit == RoutingInit => Heeding
<1> SUFFICES ASSUME RoutingInit PROVE Heeding
    OBVIOUS
<1>1. state = Empty /\ stopped = FALSE /\ req = [r \in Requests |-> Idle]
      /\ batch = << >> /\ Script
    BY DEF RoutingInit, Init, Script
<1>2. VerdictNamed(Empty)
    BY DEF VerdictNamed, Empty
<1>3. \A r \in Requests : req[r] = Idle
    BY <1>1
<1>4. Shaped /\ Unstarted /\ \A r \in Requests : Heeds(req[r])
    BY <1>1, <1>3, IdleIs DEF Shaped, Unstarted
<1>5. QED
    BY <1>1, <1>2, <1>4, EmptySound, QuietNone DEF Heeding

\* What the router knows of the episode changes by one event of a script.
LEMMA ReceiveHeeds ==
    ASSUME Heeding, NEW e, Receive(e), e.cost \in Nat
    PROVE  /\ Sound(state') /\ VerdictNamed(state')
           /\ state'.cost \in {state.cost, state.cost + e.cost}
<1>1. CASE state' = state
    BY <1>1 DEF Heeding
<1>2. CASE state' = Project(state, e)
    BY <1>2, ProjectSound DEF Heeding
<1>3. QED
    BY <1>1, <1>2 DEF Receive

\* The events of a script cost what they should.
LEMMA ScriptEvent ==
    ASSUME Script, NEW i \in 1 .. Len(Steps), Steps[i].do = "post"
    PROVE  LET e == [Steps[i].event EXCEPT !.id = i] IN e.cost \in Nat
<1> DEFINE d == Steps[i].event
<1>1. "cost" \in DOMAIN d /\ d.cost \in Nat
    BY ScriptCosts DEF Script, Steps
<1> HIDE DEF d
<1>2. LET e == [d EXCEPT !.id = i] IN e.cost = d.cost
    BY <1>1
<1>3. QED
    BY <1>1, <1>2 DEF d

\* The event the probe's request leaves.
LEMMA RecordedIs ==
    ASSUME NEW out
    PROVE  /\ "cost" \in DOMAIN Recorded(out) /\ Recorded(out).cost = 0
           /\ Recorded(out).kind = "llm_call"
           /\ Recorded(out).action = out.action
           /\ {"id", "kind", "action", "outcome", "cost"}
                \subseteq DOMAIN Recorded(out)
BY DEF Recorded, Blank

\* A step of the script touches no request.
LEMMA ScriptedState ==
    ASSUME Heeding, Scripted
    PROVE  /\ Sound(state') /\ VerdictNamed(state')
           /\ Script' /\ ~ScriptDone
           /\ UNCHANGED <<req, asked, posted, batch, stopped>>
<1>1. at <= Len(Steps) /\ Next /\ UNCHANGED <<req, asked, posted, batch, stopped>>
    BY DEF Scripted
<1>2. Len(Steps) \in Nat /\ at \in 1 .. Len(Steps)
    BY <1>1, ScriptCosts DEF Heeding, Script, Steps
<1>3. ~ScriptDone
    BY <1>2 DEF ScriptDone
<1>4. CASE PostEvent
  <2> DEFINE e == [Steps[at].event EXCEPT !.id = at]
  <2>1. Receive(e) /\ at' = at + 1 /\ scenario' = scenario
        /\ Steps[at].do = "post"
      BY <1>4 DEF PostEvent, Todo
  <2>2. e.cost \in Nat
      BY <1>2, <2>1, ScriptEvent DEF Heeding
  <2> HIDE DEF e
  <2>3. Sound(state') /\ VerdictNamed(state')
      BY <2>1, <2>2, ReceiveHeeds
  <2>4. QED
      BY <1>1, <1>3, <2>1, <2>3 DEF Heeding, Script
<1>5. CASE AskCompletion
  <2>1. state' = Empty /\ at' = at + 1 /\ scenario' = scenario
      BY <1>5 DEF AskCompletion
  <2>2. VerdictNamed(Empty)
      BY DEF VerdictNamed, Empty
  <2>3. QED
      BY <1>1, <1>3, <2>1, <2>2, EmptySound DEF Heeding, Script
<1>6. CASE AskRoute
  <2>1. /\ \E out : Receive(Recorded(out))
        /\ at' = at + 1 /\ scenario' = scenario
      BY <1>6, Zenon DEF AskRoute
  <2>2. Sound(state') /\ VerdictNamed(state')
      BY <2>1, ReceiveHeeds, RecordedIs
  <2>3. QED
      BY <1>1, <1>3, <2>1, <2>2 DEF Heeding, Script
<1>7. CASE SeeState
    BY <1>1, <1>3, <1>7 DEF SeeState, Heeding, Script
<1>8. ASSUME NEW i \in 1 .. Len(Steps), PostAgain(i)
      PROVE  /\ Sound(state') /\ VerdictNamed(state')
             /\ Script' /\ ~ScriptDone
             /\ UNCHANGED <<req, asked, posted, batch, stopped>>
  <2> DEFINE e == [Steps[i].event EXCEPT !.id = i]
  <2>1. Receive(e) /\ at' = at /\ scenario' = scenario /\ Steps[i].do = "post"
      BY <1>8 DEF PostAgain
  <2>2. e.cost \in Nat
      BY <2>1, ScriptEvent DEF Heeding
  <2> HIDE DEF e
  <2>3. Sound(state') /\ VerdictNamed(state')
      BY <2>1, <2>2, ReceiveHeeds
  <2>4. QED
      BY <1>1, <1>3, <2>1, <2>3 DEF Heeding, Script
<1>9. QED
    BY <1>1, <1>4, <1>5, <1>6, <1>7, <1>8 DEF Next

\* A step of the script keeps it.
LEMMA ScriptedHeeds ==
    ASSUME Heeding, Scripted
    PROVE  Heeding'
<1>1. /\ Sound(state') /\ VerdictNamed(state') /\ Script' /\ ~ScriptDone
      /\ UNCHANGED <<req, asked, posted, batch, stopped>>
    BY ScriptedState
<1>2. Unstarted'
    BY <1>1 DEF Heeding, Unstarted
<1>3. Shaped' /\ \A r \in Requests : Heeds(req'[r])
    BY <1>1 DEF Heeding, Shaped
<1>4. QED
    BY <1>1, <1>2, <1>3 DEF Heeding, Unstarted

\* Handing the episode over keeps it.
LEMMA HandOverHeeds ==
    ASSUME Heeding, HandOver
    PROVE  Heeding'
<1>1. /\ at = Len(Steps) + 1 /\ at' = at + 1
      /\ UNCHANGED <<scenario, state, free>>
    BY DEF HandOver
<1>2. Len(Steps) \in Nat /\ Steps' = Steps
    BY <1>1, ScriptCosts DEF Heeding, Script, Steps
<1>3. Script' /\ ~ScriptDone /\ ScriptDone'
    BY <1>1, <1>2 DEF Heeding, Script, ScriptDone
<1>4. Shaped' /\ \A r \in Requests : Heeds(req'[r])
    BY <1>1 DEF Heeding, Shaped, free
<1>5. QED
    BY <1>1, <1>3, <1>4 DEF Heeding, free

\* What is left when the script is done.
LEMMA Freely ==
    ASSUME Heeding, ScriptDone, UNCHANGED <<scenario, at>>
    PROVE  Script' /\ ScriptDone'
BY DEF Heeding, Script, ScriptDone, Steps

\* What asking does: one request is put where it goes from.
LEMMA AskHeeds ==
    ASSUME Heeding, NEW r \in Requests, Asks(r), NEW q,
           req' = [req EXCEPT ![r] = q], DOMAIN q = DOMAIN Idle,
           q.pc \in {"rules", "call"}, Heeds(q)
    PROVE  Heeding'
<1>1. ScriptDone /\ UNCHANGED <<scenario, at, state, batch, stopped>>
    BY DEF Asks
<1>2. Shaped' /\ \A x \in Requests : req'[x] = IF x = r THEN q ELSE req[x]
    BY OneChanges DEF Heeding
<1>3. \A x \in Requests : Heeds(req'[x])
    BY <1>2 DEF Heeding
<1>4. Script' /\ ScriptDone'
    BY <1>1, Freely
<1>5. QED
    BY <1>1, <1>2, <1>3, <1>4 DEF Heeding

\* A request that is observed.
Observed(m, c) == [Idle EXCEPT !.pc = "rules", !.message = m, !.obs = c]

\* A request that is sent on without being observed.
Sent(out) == [Idle EXCEPT !.pc = "call", !.route = out]

\* What they are.
LEMMA AskedIs ==
    ASSUME NEW m, NEW c, NEW out
    PROVE  /\ DOMAIN Observed(m, c) = DOMAIN Idle /\ Observed(m, c).pc = "rules"
           /\ ~Observed(m, c).after /\ ~Observed(m, c).failed
           /\ DOMAIN Sent(out) = DOMAIN Idle /\ Sent(out).pc = "call"
           /\ ~Sent(out).after /\ ~Sent(out).failed /\ Sent(out).route = out
BY IdleIs DEF Observed, Sent

\* A pinned route and that of a confirmation refuse nothing.
LEMMA UngatedIs ==
    ASSUME NEW s, NEW out \in {Pinned, Guardrail(s)}
    PROVE  Ungated(out) /\ ~out.abort /\ out.action # "stop_trial"
<1>1. CASE out = Pinned
  <2>1. /\ Pinned.source = "pinned" /\ ~Pinned.abort
        /\ Pinned.action # "stop_trial"
      BY DEF Pinned
  <2>2. QED
      BY <1>1, <2>1 DEF Ungated
<1>2. CASE out = Guardrail(s)
  <2>1. /\ out.source = "guardrail" /\ out.action = "completion_guardrail"
        /\ out.abort = ("completion_guardrail" = "stop_trial")
      BY <1>2 DEF Guardrail, Route
  <2>2. QED
      BY <2>1 DEF Ungated
<1>3. QED
    BY <1>1, <1>2

\* A request that is observed keeps it.
LEMMA ArriveHeeds ==
    ASSUME Heeding, NEW r \in Requests, NEW m, Arrive(r, m)
    PROVE  Heeding'
<1>1. Asks(r) /\ req' = [req EXCEPT ![r] = Observed(m, control')]
    BY DEF Arrive, Observed
<1> DEFINE q == Observed(m, control')
<1>2. DOMAIN q = DOMAIN Idle /\ q.pc = "rules" /\ ~q.after /\ ~q.failed
    BY AskedIs
<1> HIDE DEF q
<1>3. Heeds(q)
    BY <1>2 DEF Heeds
<1>4. QED
    BY <1>1, <1>2, <1>3, AskHeeds DEF q

\* What a request does that is not for safe control.
LEMMA UngatedAsks ==
    ASSUME NEW r, NEW m, Pin(r, m) \/ Confirm(r, m)
    PROVE  \E out : /\ Asks(r) /\ req' = [req EXCEPT ![r] = Sent(out)]
                    /\ Ungated(out) /\ ~out.abort /\ out.action # "stop_trial"
<1>1. CASE Pin(r, m)
  <2>1. Asks(r) /\ req' = [req EXCEPT ![r] = Sent(Pinned)]
      BY <1>1 DEF Pin, Sent
  <2>2. QED
      BY <2>1, UngatedIs
<1>2. CASE Confirm(r, m)
  <2>1. Asks(r) /\ req' = [req EXCEPT ![r] = Sent(Guardrail(state))]
      BY <1>2 DEF Confirm, Sent
  <2>2. Guardrail(state) \in {Pinned, Guardrail(state)}
      OBVIOUS
  <2>3. /\ Ungated(Guardrail(state)) /\ ~Guardrail(state).abort
        /\ Guardrail(state).action # "stop_trial"
      BY <2>2, UngatedIs
  <2>4. QED
      BY <2>1, <2>3
<1>3. QED
    BY <1>1, <1>2

\* Nor does one disturb it that is sent on without.
LEMMA UngatedHeeds ==
    ASSUME Heeding, NEW r \in Requests, NEW m, Pin(r, m) \/ Confirm(r, m)
    PROVE  Heeding'
<1>1. PICK out : /\ Asks(r) /\ req' = [req EXCEPT ![r] = Sent(out)]
                 /\ ~out.abort /\ out.action # "stop_trial"
    BY UngatedAsks
<1> DEFINE q == Sent(out)
<1>2. /\ DOMAIN q = DOMAIN Idle /\ q.pc = "call" /\ ~q.after /\ ~q.failed
      /\ q.route = out
    BY AskedIs
<1> HIDE DEF q
<1>3. Heeds(q)
    BY <1>1, <1>2 DEF Heeds
<1>4. QED
    BY <1>1, <1>2, <1>3, AskHeeds DEF q

\* The route of a rule.
LEMMA ByRuleIs ==
    ASSUME NEW s, NEW g
    PROVE  LET out == ByRule(s, g)
           IN /\ out.action = g.action /\ out.strong = Strongest(g.action)
              /\ out.abort <=> g.action = "stop_trial"
BY DEF ByRule, Route

\* What is decided, by a rule or by asking the model.
Ruled(r, g) ==
    [Taken(r) EXCEPT !.pc = "call", !.route = ByRule(state, g)]
Asking(r) == [Taken(r) EXCEPT !.pc = "judge", !.snap = state]

\* What deciding a request does.
LEMMA DecideIs ==
    ASSUME Shaped, NEW r \in Requests, Decide(r)
    PROVE  LET g == SafeControl(state, req[r].obs, control, req[r].message)
           IN /\ req[r].pc = "rules"
              /\ UNCHANGED <<scenario, at, state, batch, excused, allowed>>
              /\ \/ /\ g.rule # "" /\ req' = [req EXCEPT ![r] = Ruled(r, g)]
                    /\ stopped' = (stopped \/ Lasts(g.rule, state))
                 \/ /\ g.rule = "" /\ req' = [req EXCEPT ![r] = Asking(r)]
                    /\ stopped' = stopped
<1> DEFINE g == SafeControl(state, req[r].obs, control, req[r].message)
<1>1. /\ req[r].pc = "rules"
      /\ UNCHANGED <<scenario, at, state, batch, excused, allowed>>
      /\ IF g.rule # "" THEN ByRuleOf(r, g) ELSE Submit(r)
    BY DEF Decide
<1> HIDE DEF g
<1>2. CASE g.rule # ""
    BY <1>1, <1>2 DEF ByRuleOf, Ruled, g
<1>3. CASE g.rule = ""
    BY <1>1, <1>3 DEF Submit, Asking, g
<1>4. QED
    BY <1>2, <1>3

\* What a decided request is.
LEMMA TakenIs ==
    ASSUME Shaped, NEW r \in Requests, NEW g
    PROVE  /\ DOMAIN Ruled(r, g) = DOMAIN Idle /\ Ruled(r, g).pc = "call"
           /\ Ruled(r, g).route = ByRule(state, g)
           /\ DOMAIN Asking(r) = DOMAIN Idle /\ Asking(r).pc = "judge"
           /\ \A q \in {Ruled(r, g), Asking(r)} :
                 /\ q.after <=> stopped
                 /\ q.failed <=> /\ state.readiness = "verifier_failed"
                                 /\ state.samePrint < RepeatLimit
<1>1. DOMAIN req[r] = {"pc", "message", "obs", "snap", "route", "after", "failed"}
    BY IdleIs DEF Shaped
<1>2. /\ DOMAIN Taken(r) = DOMAIN req[r]
      /\ Taken(r).after <=> stopped
      /\ Taken(r).failed <=> /\ state.readiness = "verifier_failed"
                             /\ state.samePrint < RepeatLimit
    BY <1>1 DEF Taken
<1>3. /\ DOMAIN Ruled(r, g) = DOMAIN Taken(r) /\ Ruled(r, g).pc = "call"
      /\ Ruled(r, g).route = ByRule(state, g)
      /\ Ruled(r, g).after = Taken(r).after
      /\ Ruled(r, g).failed = Taken(r).failed
    BY <1>1, <1>2 DEF Ruled
<1>4. /\ DOMAIN Asking(r) = DOMAIN Taken(r) /\ Asking(r).pc = "judge"
      /\ Asking(r).after = Taken(r).after
      /\ Asking(r).failed = Taken(r).failed
    BY <1>1, <1>2 DEF Asking
<1>5. QED
    BY <1>2, <1>3, <1>4 DEF Shaped

\* Deciding a request keeps it: a lasting refusal decides, and so does
\* a failed verdict.
LEMMA DecideHeeds ==
    ASSUME Heeding, NEW r \in Requests, Decide(r)
    PROVE  Heeding'
<1> DEFINE g == SafeControl(state, req[r].obs, control, req[r].message)
           q == IF g.rule # "" THEN Ruled(r, g) ELSE Asking(r)
<1>1. /\ req[r].pc = "rules" /\ UNCHANGED <<scenario, at, state, batch>>
      /\ req' = [req EXCEPT ![r] = q]
      /\ stopped' => stopped \/ Lasts(g.rule, state)
  <2>1. Shaped
      BY DEF Heeding
  <2> HIDE DEF Heeding
  <2>2. QED
      BY <2>1, DecideIs
<1>2. /\ DOMAIN q = DOMAIN Idle /\ q.pc \in {"judge", "call"}
      /\ q.after <=> stopped
      /\ q.failed <=> /\ state.readiness = "verifier_failed"
                      /\ state.samePrint < RepeatLimit
      /\ g.rule # "" => q.pc = "call" /\ q.route = ByRule(state, g)
      /\ g.rule = "" => q.pc = "judge"
  <2>1. Shaped
      BY DEF Heeding
  <2> HIDE DEF g
  <2>2. QED
      BY <2>1, TakenIs
<1>3. stopped => g.rule # "" /\ g.action = "stop_trial"
  <2>1. stopped => Refuses(state)
      BY DEF Heeding
  <2>2. Refuses(state) => g.rule # "" /\ g.action = "stop_trial"
      BY RefusedAlways, Zenon
  <2>3. QED
      BY <2>1, <2>2
<1>4. q.failed => g.rule # "" /\ g.action \in {"stop_trial", "premium_recover"}
    BY <1>2, VerdictDecides DEF Heeding
<1>5. Lasts(g.rule, state) => Refuses(state)
    BY LastingRefuses
<1> HIDE DEF g, q
<1>6. Heeds(q)
  <2>1. g.rule # "" => /\ q.route.action = g.action
                       /\ q.route.strong = Strongest(g.action)
                       /\ q.route.abort <=> g.action = "stop_trial"
    <3> DEFINE out == ByRule(state, g)
    <3>1. /\ out.action = g.action /\ out.strong = Strongest(g.action)
          /\ out.abort <=> g.action = "stop_trial"
        BY ByRuleIs
    <3> HIDE DEF out
    <3>2. g.rule # "" => q.route = out
        BY <1>2 DEF out
    <3>3. QED
        BY <3>1, <3>2
  <2>2. Strongest("premium_recover")
      BY DEF Strongest
  <2>3. QED
      BY <1>2, <1>3, <1>4, <2>1, <2>2 DEF Heeds
<1>7. ScriptDone
    BY <1>1 DEF Heeding, Unstarted
<1>8. Shaped' /\ \A x \in Requests : req'[x] = IF x = r THEN q ELSE req[x]
    BY <1>1, <1>2, OneChanges DEF Heeding
<1>9. \A x \in Requests : Heeds(req'[x])
    BY <1>6, <1>8 DEF Heeding
<1>10. Script' /\ ScriptDone'
    BY <1>1, <1>7, Freely
<1>11. stopped' => Refuses(state')
    BY <1>1, <1>5 DEF Heeding
<1>12. QED
    BY <1>1, <1>8, <1>9, <1>10, <1>11 DEF Heeding

\* The route a judgement gives.
LEMMA JudgedIs ==
    ASSUME Shaped, NEW r \in Requests, Judged(r)
    PROVE  \E out : /\ req[r].pc = "judge"
                    /\ out.abort <=> out.action = "stop_trial"
                    /\ req' = [req EXCEPT ![r].pc = "call", ![r].route = out]
                    /\ UNCHANGED <<scenario, at, state, batch, excused, allowed,
                                   stopped>>
<1> DEFINE Right(o) == o.abort <=> o.action = "stop_trial"
<1>1. PICK out \in {Decided(req[r].snap, state, d) : d \in Answers}
                     \cup {Fallback(state)} :
          req' = [req EXCEPT ![r].pc = "call", ![r].route = out]
    BY DEF Judged
<1>2. \A s, n, d : Right(Decided(s, n, d))
    BY DEF Decided, Route
<1>3. \A n : Right(Fallback(n))
    BY DEF Fallback, Route
<1> HIDE DEF Right
<1>4. Right(out)
  <2>1. out = Fallback(state) \/ \E s, n, d : out = Decided(s, n, d)
      BY <1>1
  <2>2. QED
      BY <1>2, <1>3, <2>1
<1>5. /\ req[r].pc = "judge"
      /\ UNCHANGED <<scenario, at, state, batch, excused, allowed, stopped>>
    BY DEF Judged
<1>6. QED
    BY <1>1, <1>4, <1>5 DEF Right

\* An answer of the decision model keeps it.
LEMMA JudgedHeeds ==
    ASSUME Heeding, NEW r \in Requests, Judged(r)
    PROVE  Heeding'
<1>1. PICK out : /\ req[r].pc = "judge"
                 /\ out.abort <=> out.action = "stop_trial"
                 /\ req' = [req EXCEPT ![r].pc = "call", ![r].route = out]
                 /\ UNCHANGED <<scenario, at, state, batch, excused, allowed,
                                stopped>>
    BY JudgedIs DEF Heeding
<1> DEFINE q == [req[r] EXCEPT !.pc = "call", !.route = out]
<1>2. req' = [req EXCEPT ![r] = q]
    BY <1>1 DEF Heeding, Shaped
<1>3. DOMAIN req[r] = {"pc", "message", "obs", "snap", "route", "after", "failed"}
    BY IdleIs DEF Heeding, Shaped
<1>4. /\ DOMAIN q = DOMAIN Idle /\ q.pc = "call" /\ q.route = out
      /\ q.after = req[r].after /\ q.failed = req[r].failed
    BY <1>3, IdleIs
<1> HIDE DEF q
<1>5. ~req[r].after /\ ~req[r].failed
    BY <1>1 DEF Heeding, Heeds
<1>6. Heeds(q)
    BY <1>1, <1>4, <1>5 DEF Heeds
<1>7. ScriptDone
    BY <1>1 DEF Heeding, Unstarted
<1>8. Shaped' /\ \A x \in Requests : req'[x] = IF x = r THEN q ELSE req[x]
    BY <1>2, <1>4, OneChanges DEF Heeding
<1>9. \A x \in Requests : Heeds(req'[x])
    BY <1>6, <1>8 DEF Heeding
<1>10. Script' /\ ScriptDone'
    BY <1>1, <1>7, Freely
<1>11. QED
    BY <1>1, <1>8, <1>9, <1>10 DEF Heeding

\* What an answered request leaves behind: nothing, or an episode to clear.
Left(out) == IF out.action = "completion_guardrail"
             THEN [Idle EXCEPT !.pc = "clear"] ELSE Idle

\* It is not open.
LEMMA LeftIs ==
    ASSUME NEW out
    PROVE  /\ DOMAIN Left(out) = DOMAIN Idle /\ Left(out).pc \in {"idle", "clear"}
           /\ Heeds(Left(out))
<1> DEFINE q == [Idle EXCEPT !.pc = "clear"]
<1>1. DOMAIN q = DOMAIN Idle /\ q.pc = "clear" /\ ~q.after /\ ~q.failed
    BY IdleIs
<1> HIDE DEF q
<1>2. Heeds(q)
    BY <1>1 DEF Heeds
<1>3. Left(out) = q \/ Left(out) = Idle
    BY DEF Left, q
<1>4. QED
    BY <1>1, <1>2, <1>3, IdleIs

\* What may be spent when a request with that route has been answered.
Allowance(out) ==
    IF state.cost > StopCost
    THEN allowed + (IF Ungated(out) THEN CallCost ELSE 0)
    ELSE Most(StopCost, state'.cost + Cardinality(Open') * CallCost)

\* The event an answered request leaves.
LEMMA AnsweredIs ==
    ASSUME Heeding, NEW r \in Requests, Answered(r)
    PROVE  \E e : /\ req[r].pc = "call" /\ IsCall(e)
                  /\ state' = Project(state, e)
                  /\ e.cost = IF req[r].route.abort THEN 0 ELSE CallCost
                  /\ req[r].route.abort => Refusal(e)
                  /\ req' = [req EXCEPT ![r] = Left(req[r].route)]
                  /\ stopped' = (stopped /\ req[r].route.abort)
                  /\ excused' = (excused \/ Lifted(state'))
                  /\ allowed' = Allowance(req[r].route)
                  /\ UNCHANGED <<scenario, at, batch>>
<1> DEFINE out == req[r].route
           E(o) == [Recorded(out) EXCEPT
                      !.id = last + 1, !.outcome = o,
                      !.cost = IF out.abort THEN 0 ELSE CallCost]
<1>1. /\ req[r].pc = "call"
      /\ req' = [req EXCEPT ![r] = Left(out)]
      /\ stopped' = (stopped /\ out.abort)
      /\ excused' = (excused \/ Lifted(state'))
      /\ allowed' = Allowance(out)
      /\ UNCHANGED <<scenario, at, batch>>
    BY DEF Answered, Left, Allowance
<1>2. PICK o \in IF out.abort THEN {"error"} ELSE Outcomes :
          state' = Project(state, E(o))
    BY DEF Answered
<1> DEFINE e == E(o)
<1>3. /\ e.kind = "llm_call" /\ e.action = out.action /\ e.outcome = o
      /\ e.cost = IF out.abort THEN 0 ELSE CallCost
  <2> DEFINE c == IF out.abort THEN 0 ELSE CallCost
             w == Recorded(out)
  <2>1. /\ w.kind = "llm_call" /\ w.action = out.action
        /\ {"id", "kind", "action", "outcome", "cost"} \subseteq DOMAIN w
      BY RecordedIs
  <2>2. e = [w EXCEPT !.id = last + 1, !.outcome = o, !.cost = c]
      OBVIOUS
  <2> HIDE DEF c, w, e
  <2>3. e.kind = w.kind /\ e.action = w.action /\ e.outcome = o /\ e.cost = c
      BY <2>1, <2>2
  <2>4. QED
      BY <2>1, <2>3 DEF c
<1>4. out.abort => out.action = "stop_trial"
    BY <1>1 DEF Heeding, Heeds
<1>5. state' = Project(state, e)
    BY <1>2
<1> HIDE DEF e
<1>6. IsCall(e) /\ (out.abort => Refusal(e))
    BY <1>2, <1>3, <1>4 DEF IsCall, Refusal
<1>7. QED
    BY <1>1, <1>3, <1>5, <1>6

\* An answered request keeps it: the record of a refusal lifts none.
LEMMA AnsweredHeeds ==
    ASSUME Heeding, NEW r \in Requests, Answered(r)
    PROVE  Heeding'
<1>1. PICK e : /\ req[r].pc = "call" /\ IsCall(e)
               /\ state' = Project(state, e)
               /\ e.cost = IF req[r].route.abort THEN 0 ELSE CallCost
               /\ req[r].route.abort => Refusal(e)
               /\ req' = [req EXCEPT ![r] = Left(req[r].route)]
               /\ stopped' = (stopped /\ req[r].route.abort)
               /\ UNCHANGED <<scenario, at, batch>>
    BY AnsweredIs
<1> DEFINE q == Left(req[r].route)
<1>2. e.cost \in Nat
    BY <1>1, RoutingAssumption
<1>3. Sound(state') /\ VerdictNamed(state')
    BY <1>1, <1>2, ProjectSound DEF Heeding
<1>4. stopped' => Refuses(state')
    BY <1>1, RefusesOn DEF Heeding
<1>5. DOMAIN q = DOMAIN Idle /\ q.pc \in {"idle", "clear"} /\ Heeds(q)
    BY LeftIs
<1> HIDE DEF q
<1>6. Shaped' /\ \A x \in Requests : req'[x] = IF x = r THEN q ELSE req[x]
    BY <1>1, <1>5, OneChanges DEF Heeding, q
<1>7. \A x \in Requests : Heeds(req'[x])
    BY <1>5, <1>6 DEF Heeding
<1>8. ScriptDone
    BY <1>1 DEF Heeding, Unstarted
<1>9. Script' /\ ScriptDone'
    BY <1>1, <1>8, Freely
<1>10. QED
    BY <1>1, <1>3, <1>4, <1>6, <1>7, <1>9 DEF Heeding

\* Forgetting what safe control remembers keeps it.
LEMMA ControlHeeds ==
    ASSUME Heeding, NEW r \in Requests, ClearControl(r)
    PROVE  Heeding'
<1> DEFINE q == [req[r] EXCEPT !.pc = "forget"]
<1>1. /\ req[r].pc = "clear" /\ req' = [req EXCEPT ![r] = q]
      /\ UNCHANGED <<scenario, at, state, batch, stopped>>
    BY DEF ClearControl
<1>2. DOMAIN req[r] = {"pc", "message", "obs", "snap", "route", "after", "failed"}
    BY IdleIs DEF Heeding, Shaped
<1>3. /\ DOMAIN q = DOMAIN Idle /\ q.pc = "forget"
      /\ q.after = req[r].after /\ q.failed = req[r].failed
    BY <1>2, IdleIs
<1> HIDE DEF q
<1>4. ~req[r].after /\ ~req[r].failed
    BY <1>1 DEF Heeding, Heeds
<1>5. Heeds(q)
    BY <1>3, <1>4 DEF Heeds
<1>6. ScriptDone
    BY <1>1 DEF Heeding, Unstarted
<1>7. Shaped' /\ \A x \in Requests : req'[x] = IF x = r THEN q ELSE req[x]
    BY <1>1, <1>3, OneChanges DEF Heeding
<1>8. \A x \in Requests : Heeds(req'[x])
    BY <1>5, <1>7 DEF Heeding
<1>9. Script' /\ ScriptDone'
    BY <1>1, <1>6, Freely
<1>10. QED
    BY <1>1, <1>7, <1>8, <1>9 DEF Heeding

\* Forgetting the state keeps it: a lasting refusal ends with the episode.
LEMMA ClearHeeds ==
    ASSUME Heeding, NEW r \in Requests, ClearState(r)
    PROVE  Heeding'
<1>1. /\ req[r].pc = "forget" /\ req' = [req EXCEPT ![r] = Idle]
      /\ state' = Empty /\ stopped' = FALSE
      /\ UNCHANGED <<scenario, at, batch>>
    BY DEF ClearState
<1>2. VerdictNamed(Empty)
    BY DEF VerdictNamed, Empty
<1>3. Sound(state') /\ VerdictNamed(state')
    BY <1>1, <1>2, EmptySound
<1>4. Shaped' /\ \A x \in Requests : req'[x] = IF x = r THEN Idle ELSE req[x]
    BY <1>1, IdleIs, OneChanges DEF Heeding
<1>5. \A x \in Requests : Heeds(req'[x])
    BY <1>4, IdleIs DEF Heeding
<1>6. ScriptDone
    BY <1>1 DEF Heeding, Unstarted
<1>7. Script' /\ ScriptDone'
    BY <1>1, <1>6, Freely
<1>8. QED
    BY <1>1, <1>3, <1>4, <1>5, <1>7 DEF Heeding

\* What an event does that is no call.
LEMMA ProjectedState ==
    ASSUME Heeding, NEW e, "cost" \in DOMAIN e, e.cost = 0, "kind" \in DOMAIN e,
           ~IsCall(e), Projected(e)
    PROVE  /\ Sound(state') /\ VerdictNamed(state') /\ state'.cost = state.cost
           /\ stopped' = FALSE /\ excused' = (excused \/ Lifted(state'))
           /\ UNCHANGED <<scenario, at, req, allowed>>
<1> DEFINE d == [e EXCEPT !.id = last + 1]
<1>1. d.cost = 0 /\ ~IsCall(d)
    BY DEF IsCall
<1>2. /\ state' = Project(state, d)
      /\ stopped' = FALSE /\ excused' = (excused \/ Lifted(state'))
      /\ UNCHANGED <<scenario, at, req, allowed>>
    BY DEF Projected
<1> HIDE DEF d
<1>3. QED
    BY <1>1, <1>2, ProjectSound DEF Heeding

\* What a verdict or an event of a command does.
LEMMA EventState ==
    ASSUME Heeding, Ingest \/ \E good \in BOOLEAN : Verdict(good)
    PROVE  /\ Sound(state') /\ VerdictNamed(state') /\ state'.cost = state.cost
           /\ stopped' = FALSE /\ excused' = (excused \/ Lifted(state'))
           /\ UNCHANGED <<scenario, at, req, allowed>>
           /\ Quiet(batch') /\ ScriptDone
<1>1. CASE Ingest
  <2>1. /\ batch # << >> /\ Projected(Head(batch))
        /\ batch' \in {Tail(batch), << >>}
      BY <1>1 DEF Ingest
  <2>2. Quiet(batch) /\ ScriptDone
      BY <2>1 DEF Heeding, Unstarted
  <2>3. Quiet(batch')
      BY <2>1, <2>2, QuietParts, QuietNone
  <2> DEFINE e == Head(batch)
  <2>4. "cost" \in DOMAIN e /\ e.cost = 0 /\ "kind" \in DOMAIN e /\ ~IsCall(e)
      BY <2>1, <2>2, QuietParts
  <2>5. Projected(e)
      BY <2>1
  <2> HIDE DEF e
  <2>6. QED
      BY <2>2, <2>3, <2>4, <2>5, ProjectedState
<1>2. ASSUME NEW good \in BOOLEAN, Verdict(good)
      PROVE  /\ Sound(state') /\ VerdictNamed(state') /\ state'.cost = state.cost
             /\ stopped' = FALSE /\ excused' = (excused \/ Lifted(state'))
             /\ UNCHANGED <<scenario, at, req, allowed>>
             /\ Quiet(batch') /\ ScriptDone
  <2> DEFINE e == [Blank("verifier_result") EXCEPT !.good = good]
  <2>1. Projected(e) /\ ScriptDone /\ UNCHANGED batch
      BY <1>2 DEF Verdict
  <2>2. "cost" \in DOMAIN e /\ e.cost = 0 /\ "kind" \in DOMAIN e /\ ~IsCall(e)
      BY DEF Blank, IsCall
  <2> HIDE DEF e
  <2>3. QED
      BY <2>1, <2>2, ProjectedState DEF Heeding
<1>3. QED
    BY <1>1, <1>2

\* An event keeps it.
LEMMA EventHeeds ==
    ASSUME Heeding, Ingest \/ \E good \in BOOLEAN : Verdict(good)
    PROVE  Heeding'
<1>1. /\ Sound(state') /\ VerdictNamed(state') /\ stopped' = FALSE
      /\ Quiet(batch') /\ ScriptDone /\ UNCHANGED <<scenario, at, req>>
    BY EventState
<1>2. Script' /\ ScriptDone'
    BY <1>1, Freely
<1>3. Shaped' /\ \A r \in Requests : Heeds(req'[r])
    BY <1>1 DEF Heeding, Shaped
<1>4. QED
    BY <1>1, <1>2, <1>3 DEF Heeding

\* Posting the events of a command keeps it.
LEMMA CommandHeeds ==
    ASSUME Heeding, NEW c, RunCommand(c)
    PROVE  Heeding'
<1>1. /\ ScriptDone /\ batch' = CommandEvents(c)
      /\ UNCHANGED <<scenario, at, state, req, stopped>>
    BY DEF RunCommand, vars
<1>2. Quiet(batch')
    BY <1>1, CommandQuiet
<1>3. Script' /\ ScriptDone'
    BY <1>1, Freely
<1>4. Shaped' /\ \A r \in Requests : Heeds(req'[r])
    BY <1>1 DEF Heeding, Shaped
<1>5. QED
    BY <1>1, <1>2, <1>3, <1>4 DEF Heeding

\* Every step keeps it.
LEMMA HeedingNext ==
    ASSUME Heeding, [RoutingNext]_all
    PROVE  Heeding'
<1>1. CASE UNCHANGED all
  <2>1. UNCHANGED <<scenario, at, state, req, batch, stopped>>
      BY <1>1 DEF all, vars, free
  <2>2. Script' /\ (ScriptDone' <=> ScriptDone) /\ (Unstarted' <=> Unstarted)
        /\ Shaped' /\ \A r \in Requests : Heeds(req'[r])
      BY <2>1 DEF Heeding, Script, ScriptDone, Steps, Unstarted, Shaped
  <2>3. QED
      BY <2>1, <2>2 DEF Heeding
<1>2. ASSUME NEW r \in Requests,
             Decide(r) \/ Judged(r) \/ Answered(r) \/ ClearControl(r)
             \/ ClearState(r)
      PROVE  Heeding'
    BY <1>2, DecideHeeds, JudgedHeeds, AnsweredHeeds, ControlHeeds, ClearHeeds
<1>3. ASSUME NEW r \in Requests, NEW m \in Messages,
             Pin(r, m) \/ Confirm(r, m) \/ Arrive(r, m)
      PROVE  Heeding'
    BY <1>3, UngatedHeeds, ArriveHeeds
<1>4. QED
    BY <1>1, <1>2, <1>3, ScriptedHeeds, HandOverHeeds, CommandHeeds, EventHeeds
       DEF RoutingNext

\* The router's state of the episode and the requests that are open are what
\* the two theorems after it need, whatever is asked, run and answered.
THEOREM Inductive == RoutingSpec => []Heeding
<1>1. RoutingInit => Heeding
    BY HeedingInit
<1>2. Heeding /\ [RoutingNext]_all => Heeding'
    BY HeedingNext
<1>3. QED
    BY <1>1, <1>2, PTL DEF RoutingSpec

\* A request that safe control decides after the verifier failed the delivery is
\* not sent to the cheap model, and stays so until it is answered
\* (safe_control.go, safeControlDecision: the delivery floors come before the
\* cooldown), however many requests overlap, whatever the decision model says
\* and whatever is posted between them.
THEOREM VerdictIsHeeded == RoutingSpec => []VerdictHeeded
<1>1. Heeding => VerdictHeeded
    BY DEF Heeding, Heeds, VerdictHeeded, Decides
<1>2. QED
    BY <1>1, Inductive, PTL

\* A trial refused by a lasting gate stays refused (safe_control.go,
\* episodeStopGateDecision): the refusals themselves, which are recorded as
\* calls of the episode, do not lift it.
THEOREM StopIsKept == RoutingSpec => []StopStays
<1>1. Heeding => StopStays
    BY DEF Heeding, Heeds, StopStays, Decides
<1>2. QED
    BY <1>1, Inductive, PTL

------------------------------------------------------------------------------
(* What a trial spends *)

\* Once the limit is passed, what is spent and what the open calls will spend
\* is allowed.
Spending ==
    /\ allowed \in Nat /\ StopCost <= allowed
    /\ ~excused => ~Lifted(state)
    /\ ~excused /\ state.cost > StopCost
          => state.cost + Cardinality(Open) * CallCost <= allowed

\* What is known of the cost of calls.
LEMMA CallsCost ==
    /\ CallCost \in Nat /\ Cardinality(Requests) \in Nat
    /\ StopCost \in Nat
    /\ \A n \in Nat : n * CallCost \in Nat
    /\ \A n \in Nat : (n + 1) * CallCost = n * CallCost + CallCost
    /\ \A m, n \in Nat : m <= n => m * CallCost <= n * CallCost
<1>1. CallCost \in Nat /\ IsFiniteSet(Requests) /\ StopCost \in Nat
    BY RoutingAssumption, SafeControlAssumption
<1>2. Cardinality(Requests) \in Nat
    BY <1>1, FS_CardinalityType
<1>3. \A n \in Nat : n * CallCost \in Nat
    BY <1>1
<1>4. \A n \in Nat : (n + 1) * CallCost = n * CallCost + CallCost
    BY <1>1
<1>5. ASSUME NEW m \in Nat, NEW n \in Nat, m <= n
      PROVE  m * CallCost <= n * CallCost
  <2>1. PICK k \in Nat : n = m + k
    <3>1. n - m \in Nat /\ n = m + (n - m)
        BY <1>5
    <3>2. QED
        BY <3>1
  <2>2. (m + k) * CallCost = m * CallCost + k * CallCost
      BY <1>1
  <2>3. m * CallCost \in Nat /\ k * CallCost \in Nat
      BY <1>3
  <2>4. QED
      BY <2>1, <2>2, <2>3
<1>6. QED
    BY <1>1, <1>2, <1>3, <1>4, <1>5

\* Fewer open calls cost less.
LEMMA OpenFinite ==
    ASSUME NEW S, NEW T \in SUBSET Requests, S \subseteq T
    PROVE  /\ IsFiniteSet(T) /\ Cardinality(S) \in Nat /\ Cardinality(T) \in Nat
           /\ Cardinality(S) * CallCost <= Cardinality(T) * CallCost
<1>1. IsFiniteSet(Requests)
    BY RoutingAssumption
<1>2. IsFiniteSet(T)
    BY <1>1, FS_Subset
<1>3. IsFiniteSet(S) /\ Cardinality(S) <= Cardinality(T)
    BY <1>2, FS_Subset
<1>4. Cardinality(S) \in Nat /\ Cardinality(T) \in Nat
    BY <1>2, <1>3, FS_CardinalityType
<1>5. QED
    BY <1>2, <1>3, <1>4, CallsCost

\* While the script runs no call is open.
LEMMA NoneOpen ==
    ASSUME Unstarted
    PROVE  Open = {} /\ Cardinality(Open) * CallCost = 0
<1>1. Open = {}
    BY DEF Unstarted, Open
<1>2. Cardinality(Open) = 0
    BY <1>1, FS_EmptySet
<1>3. 0 * CallCost = 0
    BY CallsCost
<1>4. QED
    BY <1>1, <1>2, <1>3

\* Nothing lifts the limit of an empty state.
LEMMA EmptyUnlifted == ~Lifted(Empty)
<1>1. StallLimit \in Nat \ {0}
    BY ProjectionAssumption
<1>2. ~CloseToVerifier(Empty)
    BY DEF CloseToVerifier, Empty
<1>3. ~Stalled(Empty)
    BY <1>1 DEF Stalled, Empty
<1>4. ~ApplyTruncated(Empty)
    BY DEF ApplyTruncated, Empty
<1>5. QED
    BY <1>2, <1>3, <1>4 DEF Lifted

\* It holds at first.
LEMMA SpendingInit == RoutingInit => Spending
<1> SUFFICES ASSUME RoutingInit PROVE Spending
    OBVIOUS
<1>1. state = Empty /\ excused = FALSE /\ allowed = StopCost /\ state.cost = 0
      /\ Unstarted
    BY DEF RoutingInit, Init, Idle, Empty, Unstarted
<1>2. StopCost \in Nat
    BY CallsCost
<1>3. allowed \in Nat /\ StopCost <= allowed /\ ~(state.cost > StopCost)
    BY <1>1, <1>2
<1>4. QED
    BY <1>1, <1>3, EmptyUnlifted DEF Spending

\* A step of the script keeps it: whatever it spends is allowed.
LEMMA ScriptedSpends ==
    ASSUME Heeding, Spending, Scripted
    PROVE  Spending'
<1>1. /\ Unstarted /\ UNCHANGED <<req, batch, stopped>>
      /\ Sound(state')
    BY ScriptedState DEF Heeding
<1>2. excused' = (excused \/ Lifted(state')) /\ allowed' = Most(StopCost, state'.cost)
    BY DEF Scripted
<1>3. Cardinality(Open') * CallCost = 0
    BY <1>1, NoneOpen DEF Open
<1>4. state'.cost \in Nat
    BY <1>1, SoundFields
<1> DEFINE a == Cardinality(Open') * CallCost
<1>5. a = 0 /\ StopCost \in Nat
    BY <1>3, CallsCost
<1>6. allowed' \in Nat /\ StopCost <= allowed' /\ state'.cost <= allowed'
    BY <1>2, <1>4, <1>5 DEF Most
<1> HIDE DEF a
<1>7. state'.cost + a <= allowed'
    BY <1>4, <1>5, <1>6
<1>8. ~excused' => ~Lifted(state')
    BY <1>2
<1>9. QED
    BY <1>6, <1>7, <1>8 DEF Spending, a

\* No call is opened, and none has cost anything.
LEMMA NoneOpens ==
    ASSUME Heeding, Spending, UNCHANGED allowed, state'.cost = state.cost,
           Open' \subseteq Open,
           excused' = (excused \/ Lifted(state')) \/ UNCHANGED <<state, excused>>
    PROVE  Spending'
<1>1. Cardinality(Open') * CallCost <= Cardinality(Open) * CallCost
      /\ Cardinality(Open') \in Nat /\ Cardinality(Open) \in Nat
  <2>1. Open \in SUBSET Requests
      BY DEF Open
  <2>2. QED
      BY <2>1, OpenFinite
<1>2. ~excused' => ~excused /\ ~Lifted(state')
    BY DEF Spending
<1>3. state.cost \in Nat
    BY SoundFields DEF Heeding
<1> DEFINE a == Cardinality(Open') * CallCost
           b == Cardinality(Open) * CallCost
<1>4. a \in Nat /\ b \in Nat /\ a <= b /\ allowed \in Nat /\ StopCost <= allowed
    BY <1>1, CallsCost DEF Spending
<1>5. ~excused /\ state.cost > StopCost => state.cost + b <= allowed
    BY DEF Spending
<1> HIDE DEF a, b
<1>6. ~excused' /\ state'.cost > StopCost => state'.cost + a <= allowed'
    BY <1>2, <1>3, <1>4, <1>5
<1>7. QED
    BY <1>2, <1>4, <1>6 DEF Spending, a

\* Handing the episode over keeps it.
LEMMA HandOverSpends ==
    ASSUME Heeding, Spending, HandOver
    PROVE  Spending'
<1>1. UNCHANGED <<state, req, excused, allowed>>
    BY DEF HandOver, free
<1>2. Open' = Open
    BY <1>1 DEF Open
<1>3. QED
    BY <1>1, <1>2, NoneOpens

\* A request that begins keeps it: none is let through yet, or no gate asked.
LEMMA AskSpends ==
    ASSUME Heeding, Spending, NEW r \in Requests, NEW m,
           Pin(r, m) \/ Confirm(r, m) \/ Arrive(r, m)
    PROVE  Spending'
<1>1. PICK q : /\ Asks(r) /\ req' = [req EXCEPT ![r] = q]
               /\ DOMAIN q = DOMAIN Idle
               /\ q.pc = "rules" \/ (q.pc = "call" /\ Ungated(q.route))
  <2>1. CASE Arrive(r, m)
    <3>1. Asks(r) /\ req' = [req EXCEPT ![r] = Observed(m, control')]
        BY <2>1 DEF Arrive, Observed
    <3>2. /\ DOMAIN Observed(m, control') = DOMAIN Idle
          /\ Observed(m, control').pc = "rules"
        BY AskedIs
    <3>3. QED
        BY <3>1, <3>2
  <2>2. CASE Pin(r, m) \/ Confirm(r, m)
      BY <2>2, UngatedAsks, AskedIs
  <2>3. QED
      BY <2>1, <2>2
<1>2. UNCHANGED <<state, excused, allowed>>
    BY <1>1 DEF Asks
<1>3. \A x \in Requests : req'[x] = IF x = r THEN q ELSE req[x]
    BY <1>1, OneChanges DEF Heeding
<1>4. Open' \subseteq Open
    BY <1>1, <1>3 DEF Open
<1>5. QED
    BY <1>2, <1>4, NoneOpens

\* A request is let through only while the limit has not been passed.
LEMMA DecideSpends ==
    ASSUME Heeding, Spending, NEW r \in Requests, Decide(r)
    PROVE  Spending'
<1> DEFINE g == SafeControl(state, req[r].obs, control, req[r].message)
           q == IF g.rule # "" THEN Ruled(r, g) ELSE Asking(r)
<1>1. /\ req[r].pc = "rules"
      /\ UNCHANGED <<scenario, at, state, excused, allowed>>
      /\ req' = [req EXCEPT ![r] = q]
  <2>1. Shaped
      BY DEF Heeding
  <2> HIDE DEF Heeding
  <2>2. QED
      BY <2>1, DecideIs
<1>2. /\ DOMAIN q = DOMAIN Idle /\ q.pc \in {"judge", "call"}
      /\ g.rule # "" => q.pc = "call" /\ q.route = ByRule(state, g)
  <2>1. Shaped
      BY DEF Heeding
  <2> HIDE DEF g
  <2>2. QED
      BY <2>1, TakenIs
<1>3. Refuses(state) => g.rule # "" /\ g.action = "stop_trial"
    BY RefusedAlways, Zenon
<1>4. ~Lifted(state) /\ state.cost > StopCost => Refuses(state)
    BY DEF Refuses, Lifted, StallRecovers
<1> HIDE DEF g, q
<1>5. Refuses(state) => q.pc = "call" /\ q.route.abort
    BY <1>2, <1>3, ByRuleIs
<1>6. Shaped' /\ \A x \in Requests : req'[x] = IF x = r THEN q ELSE req[x]
    BY <1>1, <1>2, OneChanges DEF Heeding
<1>7. CASE Refuses(state)
  <2>1. Open' \subseteq Open
      BY <1>5, <1>6, <1>7 DEF Open
  <2>2. QED
      BY <1>1, <2>1, NoneOpens
<1>8. CASE ~Refuses(state)
  <2>1. ~excused => ~Lifted(state)
      BY DEF Spending
  <2>2. ~(~excused' /\ state'.cost > StopCost) /\ (~excused' => ~Lifted(state'))
      BY <1>1, <1>4, <1>8, <2>1
  <2>3. QED
      BY <1>1, <2>2 DEF Spending
<1>9. QED
    BY <1>7, <1>8

\* An answer of the decision model keeps it.
LEMMA JudgedSpends ==
    ASSUME Heeding, Spending, NEW r \in Requests, Judged(r)
    PROVE  Spending'
<1>1. PICK out : /\ req[r].pc = "judge"
                 /\ req' = [req EXCEPT ![r].pc = "call", ![r].route = out]
                 /\ UNCHANGED <<scenario, at, state, batch, excused, allowed,
                                stopped>>
    BY JudgedIs DEF Heeding
<1>2. DOMAIN req = Requests
    BY DEF Heeding, Shaped
<1>3. \A x \in Requests : x # r => req'[x] = req[x]
    BY <1>1, <1>2
<1>4. r \in Open
    BY <1>1 DEF Open
<1>5. Open' \subseteq Open
    BY <1>3, <1>4 DEF Open
<1>6. QED
    BY <1>1, <1>5, NoneOpens

\* An answered request keeps it: it pays for the call it was, or is allowed to.
LEMMA AnsweredSpends ==
    ASSUME Heeding, Spending, NEW r \in Requests, Answered(r)
    PROVE  Spending'
<1>1. PICK e : /\ req[r].pc = "call" /\ IsCall(e)
               /\ state' = Project(state, e)
               /\ e.cost = IF req[r].route.abort THEN 0 ELSE CallCost
               /\ req' = [req EXCEPT ![r] = Left(req[r].route)]
               /\ excused' = (excused \/ Lifted(state'))
               /\ allowed' = Allowance(req[r].route)
    BY AnsweredIs
<1> DEFINE q == Left(req[r].route)
<1>2. DOMAIN q = DOMAIN Idle /\ q.pc \in {"idle", "clear"}
    BY LeftIs
<1> HIDE DEF q
<1>3. \A x \in Requests : req'[x] = IF x = r THEN q ELSE req[x]
    BY <1>1, <1>2, OneChanges DEF Heeding, q
<1>4. Open' = Open \ {r}
    BY <1>2, <1>3 DEF Open
<1>5. state'.cost = state.cost + e.cost /\ state.cost \in Nat
  <2>1. Sound(state) /\ e.cost \in Nat
      BY <1>1, CallsCost DEF Heeding
  <2>2. QED
      BY <1>1, <2>1, ProjectSound, SoundFields
<1>6. /\ Open \in SUBSET Requests /\ IsFiniteSet(Open)
      /\ Cardinality(Open') \in Nat /\ Cardinality(Open) \in Nat
      /\ Cardinality(Open') * CallCost <= Cardinality(Open) * CallCost
  <2>1. Open \in SUBSET Requests /\ Open' \subseteq Open
      BY <1>4 DEF Open
  <2>2. QED
      BY <2>1, OpenFinite
<1> DEFINE a == Cardinality(Open') * CallCost
           b == Cardinality(Open) * CallCost
<1>7. a \in Nat /\ b \in Nat /\ a <= b /\ CallCost \in Nat
    BY <1>6, CallsCost
<1>8. ~excused /\ state.cost > StopCost => state.cost + b <= allowed
    BY DEF Spending
<1>9. allowed \in Nat /\ StopCost <= allowed /\ StopCost \in Nat
    BY CallsCost DEF Spending
<1>10. ~Ungated(req[r].route) /\ ~req[r].route.abort => b = a + CallCost
  <2>1. SUFFICES ASSUME ~Ungated(req[r].route), ~req[r].route.abort
                 PROVE  b = a + CallCost
      OBVIOUS
  <2>2. r \in Open
      BY <1>1, <2>1 DEF Open
  <2>3. Cardinality(Open) = Cardinality(Open') + 1
    <3>1. Cardinality(Open \ {r}) = Cardinality(Open) - 1
        BY <1>6, <2>2, FS_RemoveElement
    <3>2. QED
        BY <1>4, <1>6, <3>1
  <2>4. QED
      BY <1>6, <2>3, CallsCost
<1>11. e.cost \in {0, CallCost} /\ (req[r].route.abort => e.cost = 0)
    BY <1>1
<1>12. IF state.cost > StopCost
       THEN allowed' = allowed + (IF Ungated(req[r].route) THEN CallCost ELSE 0)
       ELSE allowed' = Most(StopCost, state'.cost + a)
    BY <1>1 DEF Allowance
<1> HIDE DEF a, b
<1>13. /\ ~excused' => state'.cost + a <= allowed'
       /\ allowed' \in Nat /\ StopCost <= allowed'
  <2>1. CASE ~(state.cost > StopCost)
    <3>1. state'.cost \in Nat
        BY <1>5, <1>7, <1>11
    <3>2. QED
        BY <1>7, <1>9, <1>12, <2>1, <3>1 DEF Most
  <2>2. CASE state.cost > StopCost
    <3>1. ~excused' => state.cost + b <= allowed
        BY <1>1, <1>8, <2>2
    <3>2. CASE Ungated(req[r].route)
      <4>1. allowed' = allowed + CallCost
          BY <1>12, <2>2, <3>2
      <4>2. QED
          BY <1>5, <1>7, <1>9, <1>11, <3>1, <4>1
    <3>3. CASE ~Ungated(req[r].route)
      <4>1. allowed' = allowed
          BY <1>9, <1>12, <2>2, <3>3
      <4>2. CASE req[r].route.abort
          BY <1>5, <1>7, <1>9, <1>11, <3>1, <4>1, <4>2
      <4>3. CASE ~req[r].route.abort
          BY <1>5, <1>7, <1>9, <1>10, <1>11, <3>1, <3>3, <4>1, <4>3
      <4>4. QED
          BY <4>2, <4>3
    <3>4. QED
        BY <3>2, <3>3
  <2>3. QED
      BY <2>1, <2>2
<1>14. ~excused' => ~Lifted(state')
    BY <1>1
<1>15. QED
    BY <1>13, <1>14 DEF Spending, a

\* Forgetting an episode keeps it: first what safe control remembers ...
LEMMA ControlSpends ==
    ASSUME Heeding, Spending, NEW r \in Requests, ClearControl(r)
    PROVE  Spending'
<1>1. /\ req[r].pc = "clear" /\ req' = [req EXCEPT ![r].pc = "forget"]
      /\ UNCHANGED <<state, excused, allowed>>
    BY DEF ClearControl
<1>2. DOMAIN req = Requests /\ "pc" \in DOMAIN req[r]
    BY IdleIs DEF Heeding, Shaped
<1>3. req'[r].pc = "forget" /\ \A x \in Requests : x # r => req'[x] = req[x]
    BY <1>1, <1>2
<1>4. Open' \subseteq Open
    BY <1>3 DEF Open
<1>5. QED
    BY <1>1, <1>4, NoneOpens

\* ... then what has been spent.
LEMMA ClearSpends ==
    ASSUME Heeding, Spending, NEW r \in Requests, ClearState(r)
    PROVE  Spending'
<1>1. /\ state' = Empty /\ state'.cost = 0
      /\ excused' = FALSE /\ allowed' = StopCost
    BY DEF ClearState, Empty
<1>2. StopCost \in Nat
    BY CallsCost
<1>3. allowed' \in Nat /\ StopCost <= allowed' /\ ~(state'.cost > StopCost)
    BY <1>1, <1>2
<1>4. ~Lifted(state')
    BY <1>1, EmptyUnlifted DEF Lifted, CloseToVerifier, Stalled, ApplyTruncated
<1>5. QED
    BY <1>3, <1>4 DEF Spending

\* An event keeps it.
LEMMA EventSpends ==
    ASSUME Heeding, Spending, Ingest \/ \E good \in BOOLEAN : Verdict(good)
    PROVE  Spending'
<1>1. /\ state'.cost = state.cost /\ excused' = (excused \/ Lifted(state'))
      /\ UNCHANGED <<req, allowed>>
    BY EventState
<1>2. Open' \subseteq Open
    BY <1>1 DEF Open
<1>3. QED
    BY <1>1, <1>2, NoneOpens

\* Every step keeps it.
LEMMA SpendingNext ==
    ASSUME Heeding, Spending, [RoutingNext]_all
    PROVE  Spending'
<1>1. CASE UNCHANGED <<state, req, excused, allowed>>
  <2>1. Open' \subseteq Open
      BY <1>1 DEF Open
  <2>2. QED
      BY <1>1, <2>1, NoneOpens
<1>2. ASSUME UNCHANGED all \/ \E c \in Commands : RunCommand(c)
      PROVE  UNCHANGED <<state, req, excused, allowed>>
    BY <1>2 DEF all, vars, free, RunCommand
<1>3. ASSUME NEW r \in Requests,
             Decide(r) \/ Judged(r) \/ Answered(r) \/ ClearControl(r)
             \/ ClearState(r)
      PROVE  Spending'
    BY <1>3, DecideSpends, JudgedSpends, AnsweredSpends, ControlSpends,
       ClearSpends
<1>4. QED
    BY <1>1, <1>2, <1>3, ScriptedSpends, HandOverSpends, AskSpends, EventSpends
       DEF RoutingNext

\* A trial that has passed the limit spends on the calls that were open then
\* (safe_control.go, the cost gate reads what has been recorded, and a call is
\* recorded when it has been answered) and on those that no gate is asked about
\* (plugin.go, Route returns before safe control for a pinned model and a
\* confirmation), whatever else is asked, run and posted.
THEOREM SpendStaysBounded == RoutingSpec => []SpendBounded
<1>1. RoutingInit => Spending
    BY SpendingInit
<1>2. Heeding /\ Spending /\ [RoutingNext]_all => Spending'
    BY SpendingNext
<1>3. Heeding /\ Spending => SpendBounded
  <2> SUFFICES ASSUME Heeding, Spending, ~excused PROVE state.cost <= allowed
      BY DEF SpendBounded
  <2>1. Open \in SUBSET Requests /\ state.cost \in Nat
      BY SoundFields DEF Open, Heeding
  <2>2. Cardinality(Open) * CallCost \in Nat /\ StopCost \in Nat
      BY <2>1, OpenFinite, CallsCost
  <2>3. QED
      BY <2>1, <2>2 DEF Spending
<1>4. QED
    BY <1>1, <1>2, <1>3, Inductive, PTL DEF RoutingSpec
=============================================================================
