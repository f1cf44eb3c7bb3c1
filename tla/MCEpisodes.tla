----------------------------- MODULE MCEpisodes -----------------------------
(* Values of the constants of EpisodeRuntime for TLC. *)
EXTENDS EpisodeRuntime

CONSTANTS s1, c1, c2, c3, n1

\* A client that names the episode of the first interruption itself.
NamedBranch == {<<s1, 1>>}

NoEpisode == {}

(* What tells states apart: what a later step or a property reads. *)

\* Of what a query has read the session that it makes, and that only while it may
\* still be installed or counts as a rebuild that went wrong.
Question ==
    IF query.pc = "idle" \/ (query.session \in DOMAIN sessions /\ ~orderly)
    THEN <<>>
    ELSE IF query.pc = "load" THEN <<query.session>>
    ELSE <<query.session, Rebuilt(query.session, query.operations)>>

\* Of an operation that has been resolved, whether it was a return.
Told(traces) == {[t EXCEPT !.op = t.op = "resume"] : t \in traces}

\* Of a call that has ended, whose it was, while there may be events of it.
Known(c) ==
    IF call[c].pc = "done" /\ \A p \in Note : note[p].pc # "idle" THEN <<>>
    ELSE [call[c] EXCEPT !.op = @ = "resume"]

\* The store, while there may be a load or a query.
Readable ==
    \/ orderly \/ restarts < MaxRestarts \/ query.pc = "load"
    \/ \E c \in Call : call[c].pc \in {"idle", "check", "mark", "load"}
    \/ \E s \in Session : s \notin DOMAIN sessions \cup triedSessions

Seen ==
    <<sessions, states, triedSessions \ DOMAIN sessions, triedStates, Question,
      [c \in Call |-> Known(c)],
      [p \in Note |-> IF note[p].pc = "done" THEN <<>> ELSE note[p]],
      IF Readable THEN <<Told(log), Told(unwritten)>> ELSE <<>>,
      IF orderly THEN {t.session : t \in lost} ELSE {},
      clock, restarts, orderly>>

Calls == Permutations(Call)
=============================================================================
