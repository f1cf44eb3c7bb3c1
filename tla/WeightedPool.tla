---------------------------- MODULE WeightedPool ----------------------------
(***************************************************************************)
(* The weighted strategy taken apart (internal/pool/pool.go): NextForModel *)
(* with pickFromCandidates, and nextWeighted, are smooth weighted round    *)
(* robin over counters that all selecting goroutines share.  Endpoints are *)
(* numbered in configuration order.  A selection passes over them twice,   *)
(* one endpoint at a time, each counter under its own lock only; between   *)
(* two steps others select, and an endpoint's availability may change.     *)
(***************************************************************************)
EXTENDS Integers, Sequences, FiniteSets, FiniteSetsExt

CONSTANTS
    Selector,   \* goroutines that select
    Weight,     \* sequence of the endpoints' weights
    Filters,    \* sets of endpoints a model may restrict a selection to
    Flips       \* bound: how often availability may change

Index == DOMAIN Weight

ASSUME WeightAssumption ==
    /\ IsFiniteSet(Selector)
    /\ Weight \in Seq(Nat \ {0}) /\ Weight # <<>>
    /\ Filters \subseteq SUBSET Index
    /\ Flips \in Nat

Nil == 0           \* no endpoint
AnyModel == {}     \* the selection has no model to filter by
Spoiled == <<>>    \* two selections overlapped, or one had a model, or a flip

VARIABLES
    available,  \* healthy and breaker not open, by endpoint
    flips,      \* changes of availability so far
    currentW,   \* Endpoint.currentW
    sel,        \* per selector: its pass, position, locals and last result
    picks       \* history: results of the present round, or Spoiled

vars == <<available, flips, currentW, sel, picks>>

Total(S) == MapThenSumSet(LAMBDA e : Weight[e], S)

\* filter is what the selection began with, byModel whether it still applies,
\* best and bestW the scan's locals, steady the endpoints that have been
\* available since the selection began and seen those that were at some time.
Selection == [pass : {"done", "collect", "single", "add"},
              i : 1 .. Len(Weight) + 1,
              filter : Filters \cup {AnyModel}, byModel : BOOLEAN,
              cands : SUBSET Index, best : Index \cup {Nil}, bestW : Int,
              result : Index \cup {Nil},
              steady : SUBSET Index, seen : SUBSET Index]

TypeOK ==
    /\ available \in [Index -> BOOLEAN]
    /\ flips \in 0 .. Flips
    /\ currentW \in [Index -> Int]
    /\ sel \in [Selector -> Selection]
    /\ picks \in [Index -> Nat] \cup {Spoiled}

Up == {e \in Index : available[e]}

Idle == [pass |-> "done", i |-> 1, filter |-> AnyModel, byModel |-> FALSE,
         cands |-> {}, best |-> Nil, bestW |-> 0, result |-> 1,
         steady |-> {}, seen |-> {}]

Init ==
    /\ available \in [Index -> BOOLEAN]
    /\ flips = 0
    /\ currentW = [e \in Index |-> 0]
    /\ sel = [s \in Selector |-> Idle]
    /\ picks = [e \in Index |-> 0]

----------------------------------------------------------------------------
(* One selection.                                                          *)

\* As many picks as the weights of the available endpoints sum to.
RoundFull == MapThenSumSet(LAMBDA e : picks[e], Index) >= Total(Up)

\* The picks of a round; a round that is full makes room for the next one.
\* Rounds are counted as long as selections come one after the other.
CountPick(s, e) ==
    IF \/ picks = Spoiled
       \/ sel[s].filter # AnyModel
       \/ \E t \in Selector \ {s} : sel[t].pass # "done"
    THEN Spoiled
    ELSE LET before == IF RoundFull THEN [j \in Index |-> 0] ELSE picks
         IN  IF e = Nil THEN picks ELSE [before EXCEPT ![e] = @ + 1]

Return(s, e) ==
    /\ sel' = [sel EXCEPT ![s] = [Idle EXCEPT !.result = e,
                 !.filter = sel[s].filter, !.steady = sel[s].steady,
                 !.seen = sel[s].seen]]
    /\ picks' = CountPick(s, e)

Advance(s) == sel' = [sel EXCEPT ![s].i = @ + 1]

\* Next() or NextForModel(model), where f are the endpoints that serve the
\* model (or those nothing is known of, when none serves it).
Begin(s) ==
    /\ sel[s].pass = "done"
    /\ \E f \in Filters \cup {AnyModel} :
          sel' = [sel EXCEPT ![s] = [Idle EXCEPT !.pass = "collect",
                    !.filter = f, !.byModel = f # AnyModel,
                    !.steady = Up, !.seen = Up]]
    /\ UNCHANGED <<available, flips, currentW, picks>>

\* First pass: the candidates and, with them, the total weight.
Collect(s) ==
    LET i == sel[s].i
        fits == available[i] /\ (sel[s].byModel => i \in sel[s].filter)
    IN  /\ sel[s].pass = "collect" /\ i <= Len(Weight)
        /\ sel' = [sel EXCEPT ![s].i = @ + 1,
                     ![s].cands = IF fits THEN @ \cup {i} ELSE @]
        /\ UNCHANGED <<available, flips, currentW, picks>>

\* End of the first pass.  Without a candidate for the model NextForModel calls
\* Next, and Next without a candidate returns the first endpoint.
Collected(s) ==
    LET c == sel[s].cands
    IN  /\ sel[s].pass = "collect" /\ sel[s].i > Len(Weight)
        /\ IF sel[s].byModel /\ c = {}
           THEN /\ sel' = [sel EXCEPT ![s].byModel = FALSE, ![s].i = 1]
                /\ UNCHANGED picks
           ELSE IF c = {} THEN Return(s, 1)
           ELSE IF sel[s].byModel /\ Cardinality(c) = 1
           THEN Return(s, CHOOSE e \in c : TRUE)
           ELSE /\ sel' = [sel EXCEPT ![s].i = 1,
                      ![s].pass = IF Cardinality(c) = 1 THEN "single" ELSE "add"]
                /\ UNCHANGED picks
        /\ UNCHANGED <<available, flips, currentW>>

\* nextWeighted counted one endpoint: it looks for it again, and falls through
\* to the weighted pass when it has gone.
Single(s) ==
    LET i == sel[s].i
    IN  /\ sel[s].pass = "single"
        /\ IF i > Len(Weight)
           THEN /\ sel' = [sel EXCEPT ![s].pass = "add", ![s].i = 1]
                /\ UNCHANGED picks
           ELSE IF available[i] THEN Return(s, i)
           ELSE Advance(s) /\ UNCHANGED picks
        /\ UNCHANGED <<available, flips, currentW>>

\* Mutant: the first endpoint looked at must beat zero as well.
BeatsZero(s, w) == w > sel[s].bestW

Beats(s, w) == sel[s].best = Nil \/ w > sel[s].bestW

\* Second pass: under the endpoint's lock its weight is added, and the largest
\* counter so far is remembered.  nextWeighted looks at availability again,
\* pickFromCandidates goes by the list it has.
Add(s) ==
    LET i == sel[s].i
        takes == IF sel[s].byModel THEN i \in sel[s].cands ELSE available[i]
        w == currentW[i] + Weight[i]
    IN  /\ sel[s].pass = "add" /\ i <= Len(Weight)
        /\ currentW' = [currentW EXCEPT ![i] = IF takes THEN w ELSE @]
        /\ sel' = [sel EXCEPT ![s].i = @ + 1,
                     ![s].best = IF takes /\ Beats(s, w) THEN i ELSE @,
                     ![s].bestW = IF takes /\ Beats(s, w) THEN w ELSE @]
        /\ UNCHANGED <<available, flips, picks>>

\* Mutant: only the endpoint's own weight is taken back.
PaybackOwn(s) == Weight[sel[s].best]

Payback(s) == Total(sel[s].cands)

\* The chosen endpoint pays the total weight of the first pass.
Subtract(s) ==
    LET b == sel[s].best
    IN  /\ sel[s].pass = "add" /\ sel[s].i > Len(Weight)
        /\ currentW' = IF b = Nil THEN currentW
                       ELSE [currentW EXCEPT ![b] = @ - Payback(s)]
        /\ Return(s, b)
        /\ UNCHANGED <<available, flips>>

\* A probe, or a breaker that opens or lets a trial through.
Flip(e) ==
    /\ flips < Flips
    /\ flips' = flips + 1
    /\ available' = [available EXCEPT ![e] = ~@]
    /\ sel' = [s \in Selector |->
                 IF sel[s].pass = "done" THEN sel[s]
                 ELSE [sel[s] EXCEPT !.steady = @ \ {e}, !.seen = @ \cup {e}]]
    /\ picks' = Spoiled
    /\ UNCHANGED currentW

Select(s) ==
    Begin(s) \/ Collect(s) \/ Collected(s) \/ Single(s) \/ Add(s) \/ Subtract(s)

Next == (\E s \in Selector : Select(s)) \/ (\E e \in Index : Flip(e))

Spec == Init /\ [][Next]_vars

----------------------------------------------------------------------------
(* Properties                                                              *)

\* What s has added to the counters and not yet paid back.
Owed(s) ==
    IF sel[s].pass # "add" THEN 0
    ELSE Total({e \in sel[s].cands : e < sel[s].i})

\* While availability does not change the counters sum to what the selections in
\* progress still owe, so to zero at rest: no interleaving of selections, with or
\* without a model, loses or creates weight.
WeightConserved ==
    flips = 0 =>
        MapThenSumSet(LAMBDA e : currentW[e], Index)
            = MapThenSumSet(Owed, Selector)

\* While availability does not change and selections without models come one
\* after the other, a round of as many of them as the weights of the available
\* endpoints sum to picks each exactly as often as its weight says.
RoundExact ==
    picks # Spoiled /\ Up # {} /\ RoundFull =>
        picks = [e \in Index |-> IF available[e] THEN Weight[e] ELSE 0]

\* If an endpoint stays available while a selection runs, the selection returns
\* an endpoint that was available at some time while it ran, never nil; and one
\* of the model's if one of those stayed available.
PicksAvailable ==
    \A s \in Selector :
        LET r == sel[s]
        IN  r.pass = "done" /\ r.steady # {} =>
              /\ r.result \in r.seen
              /\ r.filter \cap r.steady # {} => r.result \in r.filter
=============================================================================
