----------------------------- MODULE ClientView -----------------------------
(***************************************************************************)
(* What the gateway promises to the clients it serves: a request that is   *)
(* let in is answered, once, either by a whole buffered answer or by a     *)
(* stream that ends; an upstream's 5xx or 429 is never passed on; and an   *)
(* answer that has begun is never taken back.                              *)
(***************************************************************************)
CONSTANT Req

VARIABLE view  \* per request: "idle", "pending" or the answer so far

Whole == {"client_error", "early", "exhausted"}
Ended == Whole \cup {"ok", "truncated", "refused"}

Init == view = [r \in Req |-> "idle"]

Move(r, from, to) == view[r] = from /\ view' = [view EXCEPT ![r] = to]

Ask(r)    == Move(r, "idle", "pending")
Refuse(r) == Move(r, "idle", "refused")

Answer(r) ==
    \/ \E w \in Whole : Move(r, "pending", w)
    \/ Move(r, "pending", "streaming")
    \/ \E s \in {"ok", "truncated"} : Move(r, "streaming", s)

Forget(r) == \E w \in Ended : Move(r, w, "idle")

Next == \E r \in Req : Ask(r) \/ Refuse(r) \/ Answer(r) \/ Forget(r)

SafeSpec == Init /\ [][Next]_view

\* A request that is let in gets its answer.
Spec == SafeSpec /\ \A r \in Req : WF_view(Answer(r))
=============================================================================
