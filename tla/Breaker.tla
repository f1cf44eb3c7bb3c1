------------------------------ MODULE Breaker ------------------------------
(***************************************************************************)
(* One endpoint's circuit breaker: sony/gobreaker v2 as NewPool configures *)
(* it (MaxRequests 1, Interval = window, Timeout = open_duration, trips on *)
(* Threshold consecutive failures).  The library is not part of the        *)
(* repository; these operators are what its Execute does with a breaker.   *)
(*                                                                         *)
(* The library numbers the generations of a breaker and ignores the result *)
(* of a call that a former generation admitted.  Here a breaker carries    *)
(* the set of calls its present generation admitted and still runs: a new  *)
(* generation starts with the empty set, and a call outside the set is a   *)
(* stale one.  A half-open generation ends with its first result, so its   *)
(* request count is 1 exactly when the set is not empty.                   *)
(***************************************************************************)
EXTENDS Naturals

CONSTANT Threshold  \* circuit_breaker.threshold; 0 stands for "no breaker"

ASSUME ThresholdAssumption == Threshold \in Nat

BreakerState == {"closed", "open", "half_open"}

\* toNewGeneration: the counts are cleared and earlier calls become stale.
NewGeneration(st) == [state |-> st, fails |-> 0, admitted |-> {}]

\* beforeRequest: an open breaker refuses (ErrOpenState); a half-open one
\* admits a single trial and refuses the rest (ErrTooManyRequests).
Admits(b) ==
    \/ b.state = "closed"
    \/ b.state = "half_open" /\ b.admitted = {}

BeforeRequest(b, call) == [b EXCEPT !.admitted = @ \cup {call}]

\* afterRequest when the call succeeded.
OnSuccess(b, call) ==
    IF b.state = "half_open"
    THEN NewGeneration("closed")
    ELSE [state |-> b.state, fails |-> 0, admitted |-> b.admitted \ {call}]

\* Mutant: ReadyToTrip asks for more than the threshold.
OnFailureLate(b, call) ==
    IF b.state = "half_open" \/ b.fails >= Threshold
    THEN NewGeneration("open")
    ELSE [state |-> b.state, fails |-> b.fails + 1,
          admitted |-> b.admitted \ {call}]

\* afterRequest when the call returned an error or panicked.
OnFailure(b, call) ==
    IF b.state = "half_open" \/ b.fails + 1 >= Threshold
    THEN NewGeneration("open")
    ELSE [state |-> b.state, fails |-> b.fails + 1,
          admitted |-> b.admitted \ {call}]

\* afterRequest: a result of another generation changes nothing.
AfterRequest(b, call, ok) ==
    IF call \notin b.admitted THEN b
    ELSE IF ok THEN OnSuccess(b, call) ELSE OnFailure(b, call)

\* currentState once the timer of the present generation has run out: an
\* open breaker becomes half-open, a closed one starts counting afresh.  A
\* half-open generation has no timer.  The library does this lazily, at the
\* first call or State() after the expiry, which no caller can tell from
\* doing it at the expiry.
Expired(b) ==
    NewGeneration(IF b.state = "open" THEN "half_open" ELSE b.state)

BreakerExpirable(b) ==
    \/ b.state = "open"
    \/ b.state = "closed" /\ (b.fails > 0 \/ b.admitted # {})
=============================================================================
