--------------------------- MODULE EpisodeRuntime ---------------------------
(***************************************************************************)
(* The smart router's episodes: which task line a request belongs to       *)
(* (sessions, each a stack of episodes), what has been projected into each *)
(* episode's state, and how both come back from the audit store after a    *)
(* restart (plugins/smartrouter/episode.go).                               *)
(*                                                                         *)
(* An episode id is <<s, n>>: the session's key itself for n = 0,          *)
(* "s#episode-n" otherwise. A state is the sequence of the events that     *)
(* have been projected into it; what projecting one does is not of this    *)
(* module. "continue" stands for global and unknown too, which leave a     *)
(* session as it is.                                                       *)
(***************************************************************************)
EXTENDS Integers, SequencesExt

CONSTANTS
    Session,     \* session keys
    Call,        \* agent calls, each with a trace id of its own
    Note,        \* events posted to /v1/episode-events
    Named,       \* the episodes a client may name in X-Episode-ID
    MaxFlight,   \* calls and events under way at a time
    LastTime,    \* bound of the times that a client gives its events
    Limit,       \* rows a query of the store returns at most
    MaxRestarts  \* restarts of the gateway

ASSUME EpisodeAssumption ==
    /\ Call \cap Note = {}
    /\ Named \subseteq Session \X Nat
    /\ MaxFlight \in Nat
    /\ LastTime \in Nat \ {0}
    /\ Limit \in Nat \ {0}
    /\ MaxRestarts \in Nat

VARIABLES
    sessions,         \* session key -> its stack, in memory
    states,           \* episode id -> events projected into it, in memory
    triedSessions,    \* sessions whose rebuild has been attempted
    triedStates,      \* episodes whose backfill has been attempted
    call,             \* call id -> a call on its way through the gateway
    note,             \* event id -> an event on its way through the sinks
    query,            \* a GET /v1/episode-sessions
    log,              \* traces and events in the audit store's file
    unwritten,        \* traces in its buffer, or in the hands of a flush
    lost,             \* history: traces it will never have of calls memory knows
    clock,            \* timestamps given out
    restarts,         \* restarts so far
    orderly           \* history: nothing a rebuild could not follow happened

vars == <<sessions, states, triedSessions, triedStates, call, note, query,
          log, unwritten, lost, clock, restarts, orderly>>

store == <<log, unwritten, lost>>

memory == <<sessions, states, triedSessions, triedStates>>

Operation == {"continue", "interrupt", "resume"}

Main(s) == <<s, 0>>

MaxEpisode == Cardinality(Call) + Max({e[2] : e \in Named} \cup {0})
EpisodeId == {<<s, n>> : s \in Session, n \in 0 .. MaxEpisode} \cup Named

------------------------------------------------------------------------------
(* Stacks *)

AppendUnique(stack, e) ==
    IF Contains(stack, e) THEN stack ELSE Append(stack, e)

TrimTo(stack, e) ==
    IF Contains(stack, e)
    THEN SubSeq(stack, 1, SelectLastInSeq(stack, LAMBDA x : x = e))
    ELSE Append(stack, e)

NewSession(s) == [active |-> Main(s), stack |-> <<Main(s)>>, next |-> 0]

SessionOf(s) == IF s \in DOMAIN sessions THEN sessions[s] ELSE NewSession(s)

\* The session after an operation read from the request's headers or language.
Resolved(s, op) ==
    LET session == SessionOf(s)
        new     == <<s, session.next + 1>>
        popped  == Front(session.stack)
    IN  CASE op = "interrupt" ->
               [active |-> new, stack |-> Append(session.stack, new), next |-> session.next + 1]
          [] op = "resume" /\ Len(session.stack) > 1 ->
               [session EXCEPT !.active = Last(popped), !.stack = popped]
          [] op = "resume" /\ Len(session.stack) = 1 ->
               [session EXCEPT !.active = Main(s), !.stack = <<Main(s)>>]
          [] OTHER -> session

\* The session after a request that names its episode.
Remembered(s, e, op) ==
    LET session == IF s \in DOMAIN sessions THEN sessions[s]
                   ELSE [active |-> e, stack |-> <<e>>, next |-> 0]
        stack   == IF op = "resume" THEN TrimTo(session.stack, e) ELSE session.stack
    IN  [session EXCEPT !.active = e, !.stack = AppendUnique(stack, e)]

\* What an event without an operation means for its session.
Inferred(s, session, e) ==
    CASE e = Main(s) /\ session.active # Main(s)         -> "resume"
      [] e \notin {session.active, Main(s)}              -> "interrupt"
      [] OTHER                                           -> "continue"

\* Mutant of Applied: forgets which episode numbers have been given out.
AppliedWithoutNumber(s, session, e, op) ==
    [session EXCEPT !.active = e,
                    !.stack = IF op = "resume" THEN TrimTo(@, e) ELSE AppendUnique(@, e)]

\* The session after an event or trace that says which episode it is of.
Applied(s, session, e, op) ==
    [active |-> e,
     stack  |-> IF op = "resume" THEN TrimTo(session.stack, e)
                ELSE AppendUnique(session.stack, e),
     next   |-> IF e[1] = s THEN Max({session.next, e[2]}) ELSE session.next]

Removed(stack, e) ==
    FoldLeft(LAMBDA rest, x : IF x = e THEN rest ELSE Append(rest, x), <<>>, stack)

\* Mutant of Without: the active episode is left active.
WithoutInStack(s, session, e) ==
    LET rest == Removed(session.stack, e)
    IN  IF e = Main(s) THEN NewSession(s)
        ELSE [session EXCEPT !.stack = IF rest = <<>> THEN <<Main(s)>> ELSE rest]

\* The session after a completed episode has been removed.
Without(s, session, e) ==
    LET rest  == Removed(session.stack, e)
        stack == IF rest = <<>> THEN <<Main(s)>> ELSE rest
    IN  IF e = Main(s) THEN NewSession(s)
        ELSE [session EXCEPT !.stack = stack,
                             !.active = IF @ = e THEN Last(stack) ELSE @]

------------------------------------------------------------------------------
(* Projection and the audit store *)

StateOf(e) == IF e \in DOMAIN states THEN states[e] ELSE <<>>

\* Mutant of ProjectUnique: without the look at the ids seen.
ProjectAlways(state, id) == Append(state, id)

\* An event whose id has been seen is not projected again.
ProjectUnique(state, id) == IF Contains(state, id) THEN state ELSE Append(state, id)

With(f, x, y) == [z \in {x} \cup DOMAIN f |-> IF z = x THEN y ELSE f[z]]

\* Traces and events in time order.
Listed(S) ==
    CHOOSE q \in [1 .. Cardinality(S) -> S] :
        /\ IsInjective(q)
        /\ \A i, j \in DOMAIN q : i < j => q[i].at <= q[j].at

\* A query orders its rows by time and returns the first Limit of them.
Oldest(S) == {Listed(S)[i] : i \in 1 .. Min({Limit, Cardinality(S)})}

\* Traces, or events, are asked for by their session and by their episode.
Kinds == {"call", "note"}
Queries == Kinds \X {"session", "episode"}

Rows(e, q) ==
    {t \in log : /\ t.kind = q[1]
                 /\ IF q[2] = "session" THEN Main(t.session) = e ELSE t.ep = e}

Found(e, queries) == UNION {Oldest(Rows(e, q)) : q \in queries}

\* Any query of the store may fail; those of queries succeed. An episode's
\* events are asked for by the episode only.
PersistedEvents(e, queries) == Found(e, queries \ {<<"note", "session">>})

PersistedOperations(s, queries) == Listed(Found(Main(s), queries))

\* The queries for a session leave some of its rows behind.
Truncated(s) == \E t \in log : t.session = s /\ t \notin Found(Main(s), Queries)

Replayed(s, session, t) ==
    Applied(s, session, t.ep, IF t.op = "" THEN Inferred(s, session, t.ep) ELSE t.op)

Rebuilt(s, operations) ==
    FoldLeft(LAMBDA session, t : Replayed(s, session, t), NewSession(s), operations)

Trace(c) == [kind |-> "call", id |-> c, session |-> call[c].session,
             ep |-> call[c].ep, op |-> call[c].op, at |-> call[c].at]

PostedEvent(p) == [kind |-> "note", id |-> p, session |-> note[p].session,
                   ep |-> note[p].ep, op |-> "", at |-> note[p].at]

------------------------------------------------------------------------------
Busy == {c \in Call : call[c].pc \notin {"idle", "done"}}
            \cup {p \in Note : note[p].pc \notin {"idle", "failed", "done"}}

CallOf(pc, s, op, e, at, completion) ==
    [pc |-> pc, session |-> s, ep |-> e, op |-> op, at |-> at,
     completion |-> completion, loaded |-> {}]
NoCall == CallOf("idle", "", "", <<>>, 0, FALSE)
\* What is left of a call that has ended: whose it was.
Ended(c) == CallOf("done", call[c].session, "", call[c].ep, 0, FALSE)
NoNote == [pc |-> "idle", session |-> "", ep |-> <<>>, at |-> 0]
NoQuery == [pc |-> "idle", session |-> "", operations |-> <<>>]

Init ==
    /\ sessions = <<>>
    /\ states = <<>>
    /\ triedSessions = {}
    /\ triedStates = {}
    /\ call = [c \in Call |-> NoCall]
    /\ note = [p \in Note |-> NoNote]
    /\ query = NoQuery
    /\ log = {}
    /\ unwritten = {}
    /\ lost = {}
    /\ clock = 0
    /\ restarts = 0
    /\ orderly = TRUE

\* A request arrives and is given its episode, in one critical section. One
\* that pins a known model needs no state; one that confirms that the task is
\* complete takes the completion guardrail. Its timestamp is given here, that is
\* requests are resolved in the order in which they came.
Resolve(c, s, op, explicit) ==
    LET session == IF explicit = {} THEN Resolved(s, op)
                   ELSE Remembered(s, CHOOSE e \in explicit : TRUE, op)
    IN  /\ call[c].pc = "idle"
        /\ Cardinality(Busy) < MaxFlight
        /\ sessions' = With(sessions, s, session)
        /\ clock' = clock + 1
        /\ \E pc \in {"check", "routed"}, completion \in BOOLEAN :
               /\ completion => pc = "check"
               /\ call' = [call EXCEPT ![c] =
                      CallOf(pc, s, op, session.active, clock + 1, completion)]
        /\ orderly' = (orderly /\ Busy = {} /\ explicit = {}
                       /\ (s \in DOMAIN sessions \/ PersistedOperations(s, Queries) = <<>>))
        /\ UNCHANGED <<states, triedSessions, triedStates, note, query, store, restarts>>

\* To take a snapshot of the state, which the decision is then made on, the
\* router looks whether the episode is in memory ...
CheckState(c) ==
    /\ call[c].pc = "check"
    /\ call' = [call EXCEPT ![c].pc =
           IF call[c].ep \in DOMAIN states THEN "routed" ELSE "mark"]
    /\ UNCHANGED <<memory, note, query, store, clock, restarts, orderly>>

\* Mutant of AlreadyTried: looks again whether the episode is in memory.
AlreadyTriedInMemory(e) == e \in DOMAIN states

AlreadyTried(e) == e \in triedStates

\* ... and if not is the one to load it, unless somebody has tried before.
MarkState(c) ==
    /\ call[c].pc = "mark"
    /\ call' = [call EXCEPT ![c].pc =
           IF AlreadyTried(call[c].ep) THEN "routed" ELSE "load"]
    /\ triedStates' = triedStates \cup {call[c].ep}
    /\ UNCHANGED <<sessions, states, triedSessions, note, query, store, clock, restarts, orderly>>

\* Any query of the store may fail; the others count, and none is repeated.
\* A query of traces flushes the buffer first, and finds what Flush, or another
\* flush that has taken the buffer before, has stored by then.
LoadState(c) ==
    /\ call[c].pc = "load"
    /\ \E loaded \in {PersistedEvents(call[c].ep, queries) : queries \in SUBSET Queries} :
           call' = [call EXCEPT ![c].loaded = loaded,
                                ![c].pc = IF loaded = {} THEN "routed" ELSE "install"]
    /\ UNCHANGED <<memory, note, query, store, clock, restarts, orderly>>

\* Mutant of Installed: the state loaded replaces the one in memory.
InstalledAfresh(e, loaded) ==
    FoldLeft(LAMBDA state, t : ProjectUnique(state, t.id),
             <<>>, Listed(loaded))

\* What was loaded is projected in time order, onto what has arrived meanwhile.
Installed(e, loaded) ==
    FoldLeft(LAMBDA state, t : ProjectUnique(state, t.id),
             StateOf(e), Listed(loaded))

InstallState(c) ==
    /\ call[c].pc = "install"
    /\ states' = With(states, call[c].ep, Installed(call[c].ep, call[c].loaded))
    /\ call' = [call EXCEPT ![c].pc = "routed", ![c].loaded = {}]
    /\ UNCHANGED <<sessions, triedSessions, triedStates, note, query, store, clock, restarts, orderly>>

\* The call has ended: the router, first of the audit sinks, projects it.
RecordCall(c) ==
    /\ call[c].pc = "routed"
    /\ states' = With(states, call[c].ep, ProjectUnique(StateOf(call[c].ep), c))
    /\ call' = [call EXCEPT ![c].pc = IF call[c].completion THEN "clear" ELSE "audit"]
    /\ UNCHANGED <<sessions, triedSessions, triedStates, note, query, store, clock, restarts, orderly>>

\* A completed episode is forgotten, its state first ...
ClearState(c) ==
    /\ call[c].pc = "clear"
    /\ states' = [e \in DOMAIN states \ {call[c].ep} |-> states[e]]
    /\ call' = [call EXCEPT ![c].pc = "unstack"]
    /\ orderly' = FALSE
    /\ UNCHANGED <<sessions, triedSessions, triedStates, note, query, store, clock, restarts>>

\* ... then its place in every session.
ClearSessions(c) ==
    /\ call[c].pc = "unstack"
    /\ sessions' = [s \in DOMAIN sessions |-> Without(s, sessions[s], call[c].ep)]
    /\ call' = [call EXCEPT ![c].pc = "audit"]
    /\ UNCHANGED <<states, triedSessions, triedStates, note, query, store, clock, restarts, orderly>>

\* The audit plugin, after the router, takes the trace into its buffer.
AuditCall(c) ==
    /\ call[c].pc = "audit"
    /\ unwritten' = unwritten \cup {Trace(c)}
    /\ call' = [call EXCEPT ![c] = Ended(c)]
    /\ UNCHANGED <<memory, note, query, log, lost, clock, restarts, orderly>>

\* A call whose route names no pool there is ends without a record.
Abort(c) ==
    /\ call[c].pc = "routed"
    /\ lost' = lost \cup {Trace(c)}
    /\ call' = [call EXCEPT ![c] = Ended(c)]
    /\ UNCHANGED <<memory, note, query, log, unwritten, clock, restarts, orderly>>

\* A flush writes what it has taken of the buffer. A transaction that cannot
\* begin or commit loses all of it, an insert that fails its row.
Flush ==
    /\ \E batch \in SUBSET unwritten \ {{}} : \E stored \in SUBSET batch :
           /\ unwritten' = unwritten \ batch
           /\ log' = log \cup stored
           /\ lost' = lost \cup (batch \ stored)
    /\ UNCHANGED <<memory, call, note, query, clock, restarts, orderly>>

\* A runner posts an event of an episode it knows of. The time is the one it
\* gives, of when the event happened or not.
Post(p, s, e, at) ==
    /\ note[p].pc = "idle"
    /\ Cardinality(Busy) < MaxFlight
    /\ e \in {Main(s)} \cup {call[c].ep : c \in {d \in Call : call[d].session = s}}
    /\ clock' = clock + 1
    /\ note' = [note EXCEPT ![p] = [pc |-> "project", session |-> s, ep |-> e, at |-> at]]
    /\ orderly' = (orderly /\ Busy = {} /\ at = clock + 1
                   /\ (s \in DOMAIN sessions \/ PersistedOperations(s, Queries) = <<>>))
    /\ UNCHANGED <<memory, call, query, store, restarts>>

ProjectNote(p) ==
    LET state == StateOf(note[p].ep)
    IN  /\ note[p].pc = "project"
        /\ states' = With(states, note[p].ep, ProjectUnique(state, p))
        /\ note' = [note EXCEPT ![p].pc = IF Contains(state, p) THEN "persist" ELSE "session"]
        /\ UNCHANGED <<sessions, triedSessions, triedStates, call, query, store, clock, restarts, orderly>>

\* An event that was new moves its session too.
RecordSession(p) ==
    LET s == note[p].session
        e == note[p].ep
    IN  /\ note[p].pc = "session"
        /\ sessions' = With(sessions, s, Applied(s, SessionOf(s), e, Inferred(s, SessionOf(s), e)))
        /\ note' = [note EXCEPT ![p].pc = "persist"]
        /\ UNCHANGED <<states, triedSessions, triedStates, call, query, store, clock, restarts, orderly>>

\* Storing the event may fail; the runner is told and may post it again.
PersistNote(p) ==
    /\ note[p].pc = "persist"
    /\ \/ /\ log' = log \cup {PostedEvent(p)}
          /\ note' = [note EXCEPT ![p].pc = "done"]
       \/ /\ note' = [note EXCEPT ![p].pc = "failed"]
          /\ UNCHANGED log
    /\ UNCHANGED <<memory, call, query, unwritten, lost, clock, restarts, orderly>>

PostAgain(p) ==
    /\ note[p].pc = "failed"
    /\ Cardinality(Busy) < MaxFlight
    /\ note' = [note EXCEPT ![p].pc = "project"]
    /\ orderly' = FALSE
    /\ UNCHANGED <<memory, call, query, store, clock, restarts>>

\* A session query rebuilds a session that is not in memory, once.
QuerySession(s) ==
    /\ query.pc = "idle"
    /\ s \notin DOMAIN sessions
    /\ s \notin triedSessions
    /\ triedSessions' = triedSessions \cup {s}
    /\ query' = [pc |-> "load", session |-> s, operations |-> <<>>]
    /\ UNCHANGED <<sessions, states, triedStates, call, note, store, clock, restarts, orderly>>

LoadSession ==
    /\ query.pc = "load"
    /\ \E operations \in {PersistedOperations(query.session, queries) : queries \in SUBSET Queries} :
           LET all == PersistedOperations(query.session, Queries)
           IN  /\ query' = IF operations = <<>> THEN NoQuery
                           ELSE [query EXCEPT !.pc = "install", !.operations = operations]
               /\ orderly' = (orderly /\ operations \in {all, <<>>} /\ ~Truncated(query.session))
    /\ UNCHANGED <<memory, call, note, store, clock, restarts>>

\* A session that has come into being meanwhile stays as it is.
InstallSession ==
    LET s == query.session
    IN  /\ query.pc = "install"
        /\ sessions' = IF s \in DOMAIN sessions THEN sessions
                       ELSE With(sessions, s, Rebuilt(s, query.operations))
        /\ query' = NoQuery
        /\ UNCHANGED <<states, triedSessions, triedStates, call, note, store, clock, restarts, orderly>>

\* The gateway restarts: memory is gone, and with it whatever was under way and
\* what the audit plugin had not written.
Restart ==
    /\ restarts < MaxRestarts
    /\ restarts' = restarts + 1
    /\ sessions' = <<>>
    /\ states' = <<>>
    /\ triedSessions' = {}
    /\ triedStates' = {}
    /\ call' = [c \in Call |-> IF c \in Busy THEN Ended(c) ELSE call[c]]
    /\ note' = [p \in Note |-> IF p \in Busy THEN [note[p] EXCEPT !.pc = "failed"] ELSE note[p]]
    /\ query' = NoQuery
    /\ unwritten' = {}
    /\ lost' = {}
    /\ UNCHANGED <<log, clock, orderly>>

Next ==
    \/ \E c \in Call, s \in Session, op \in Operation :
           \/ Resolve(c, s, op, {})
           \/ \E e \in Named : Resolve(c, s, op, {e})
    \/ \E c \in Call :
           \/ CheckState(c) \/ MarkState(c) \/ LoadState(c) \/ InstallState(c)
           \/ RecordCall(c) \/ ClearState(c) \/ ClearSessions(c) \/ AuditCall(c) \/ Abort(c)
    \/ Flush
    \/ \E p \in Note :
           \/ \E s \in Session, e \in EpisodeId, at \in 1 .. LastTime : Post(p, s, e, at)
           \/ ProjectNote(p) \/ RecordSession(p) \/ PersistNote(p) \/ PostAgain(p)
    \/ \E s \in Session : QuerySession(s)
    \/ LoadSession
    \/ InstallSession
    \/ Restart

Spec == Init /\ [][Next]_vars
------------------------------------------------------------------------------
\* A session in memory is a non-empty stack of episodes.
TypeOK ==
    /\ DOMAIN sessions \subseteq Session
    /\ \A s \in DOMAIN sessions :
           /\ sessions[s].stack \in Seq(EpisodeId) \ {<<>>}
           /\ sessions[s].active \in EpisodeId
           /\ sessions[s].next \in 0 .. MaxEpisode
    /\ DOMAIN states \subseteq EpisodeId
    /\ \A e \in DOMAIN states : Range(states[e]) \subseteq Call \cup Note
    /\ triedSessions \subseteq Session
    /\ triedStates \subseteq EpisodeId
    /\ \A t \in log \cup unwritten \cup lost : t.ep \in EpisodeId /\ t.at \in 1 .. Max({clock, LastTime})

\* The active episode of a session is on its stack, whatever operations, named
\* episodes, posted events, completions and rebuilds have made of it: a resume
\* could otherwise not tell where it is.
ActiveOnStack ==
    \A s \in DOMAIN sessions : Contains(sessions[s].stack, sessions[s].active)

\* A call or event counts once in a state, though it may be posted twice and be
\* projected live while the load that also found it in the store is under way.
CountedOnce == \A e \in DOMAIN states : IsInjective(states[e])

\* Of the requests that want an episode that is not in memory one loads it.
LoadedOnce ==
    \A c, d \in Call :
        /\ call[c].pc \in {"load", "install"} /\ call[d].pc \in {"load", "install"}
        /\ call[c].ep = call[d].ep
        => c = d

\* Sessions are rebuilt as they were. As long as a session's requests and
\* events come one after another and are dated so, name no episode, complete
\* none, and the session is queried before they go on after a restart, replaying
\* the audit store gives the session in memory: unless a trace of it is not
\* written yet or was lost, an event could not be stored, or the queries leave
\* some of its rows behind.
RebuiltAsItWas ==
    orderly /\ Busy = {} =>
        \A s \in DOMAIN sessions :
            \/ Rebuilt(s, PersistedOperations(s, Queries)) = sessions[s]
            \/ \E t \in unwritten \cup lost : t.session = s
            \/ \E p \in Note : note[p].pc = "failed"
            \/ Truncated(s)

\* A state loses nothing it has counted, by a late load least of all, unless
\* its episode is completed or the gateway restarts.
StatesOnlyGrow ==
    [][(\A c \in Call : ~ClearState(c)) /\ ~Restart =>
          \A e \in DOMAIN states : e \in DOMAIN states' /\ IsPrefix(states[e], states'[e])]_vars

\* A state counts the calls of its own episode only: "Finished agent calls are
\* then projected into that episode state."
StatesAreOwn ==
    \A e \in DOMAIN states : \A c \in Range(states[e]) \cap Call : call[c].ep = e
=============================================================================
