------------------------------ MODULE Watcher ------------------------------
(***************************************************************************)
(* The path of a trial's events from the files Harbor writes to the        *)
(* gateway: the sidecar scripts/watch_harbor_episode_events.py, the        *)
(* endpoint POST /v1/episode-events it posts to (internal/core/server.go)  *)
(* with its two sinks, and the runner that kills the sidecar at the end of *)
(* a job and runs it once more (scripts/run_v4_matrix.sh).                 *)
(*                                                                         *)
(* An event stands for its id, a hash of trial, content and timestamp:     *)
(* [trial, fact, body, stamp].  A fact is a step of the trajectory or one  *)
(* of the final artifacts.  body tells apart the contents one fact may     *)
(* have, stamp is 0 for a fact whose file dates it; an undated one gets    *)
(* the time of the scan, and so another id at every scan.                  *)
(***************************************************************************)
EXTENDS Integers, SequencesExt

CONSTANTS
    Dirs,         \* the job's trial directories, sorted
    Files,        \* trial -> what Harbor writes for it, in order
    Bad,          \* trials whose reward is not a number (NaN, no valid JSON)
    MaxClock,     \* undated scans told apart
    MaxRestarts   \* crashes of the gateway

\* "step" is one more step of the trajectory; "early" a result.json written
\* before the trial has finished.
Artifact == {"step", "patch", "ctrf", "reward", "early", "result"}

Trials == Range(Dirs)

ASSUME WatcherAssumption ==
    /\ Dirs \in Seq(Trials) /\ IsInjective(Dirs)
    /\ Files \in [Trials -> Seq(Artifact)]
    /\ Bad \subseteq Trials
    /\ MaxClock \in Nat \ {0}
    /\ MaxRestarts \in Nat

\* Harbor runs a trial's agent, then its verifier; result.json gets its
\* finished_at (agent_execution's, the verifier's and its own) when the trial
\* is over.
ASSUME HarborOrder ==
    \A t \in Trials : \A i, j \in DOMAIN Files[t] :
        i < j => /\ Files[t][i] # "result"
                 /\ Files[t][j] = "step" => Files[t][i] \in {"step", "early"}

VARIABLES
    written,   \* trial -> how many of its files are written
    half,      \* trials with the next one half-written
    job,       \* the runner: "job", "killed", "flush" (a last scan), "done"
    pc,        \* the sidecar: off, scan, post, mark, saving, sleep
    todo,      \* trials this scan has still to look at, in order
    batch,     \* events posted and not yet marked
    seen,      \* event ids in the sidecar's memory
    saved,     \* event ids in its state file
    tornState, \* the state file has been truncated and not yet written
    jsonl,     \* events in the --events-jsonl file
    request,   \* the request the sidecar waits for, as a set of at most one
    orphans,   \* requests whose client is gone
    router,    \* events the smart router has projected, in order
    store,     \* events in the audit store
    clock,     \* time, as far as undated events tell it apart
    restarts,  \* gateway crashes so far
    clean      \* history: every post of the flush was accepted

vars == <<written, half, job, pc, todo, batch, seen, saved, tornState,
          jsonl, request, orphans, router, store, clock, restarts, clean>>
files == <<written, half>>
disk == <<saved, tornState, jsonl>>
gateway == <<request, orphans, router, store, restarts>>

------------------------------------------------------------------------------
(* What a scan reads *)

Have(t) == {Files[t][i] : i \in 1 .. written[t]}
Torn(t) == IF t \in half THEN Files[t][written[t] + 1] ELSE "none"
Steps(t) == Cardinality({i \in 1 .. written[t] : Files[t][i] = "step"})

\* The facts of a trial: its steps, then the artifacts in the order of their
\* timestamps.
MaxSteps(t) == Cardinality({i \in DOMAIN Files[t] : Files[t][i] = "step"})
Patch(t) == MaxSteps(t) + 1
Tests(t) == MaxSteps(t) + 2
Verdict(t) == MaxSteps(t) + 3
Failure(t) == MaxSteps(t) + 4

Event(t, fact, body, stamp) ==
    [trial |-> t, fact |-> fact, body |-> body, stamp |-> stamp]

\* result.json as safe_read_json returns it: {} while it cannot be parsed.
Result(t) ==
    IF Torn(t) \in {"early", "result"} THEN "none"
    ELSE IF "result" \in Have(t) THEN "final"
    ELSE IF "early" \in Have(t) THEN "early" ELSE "none"

\* Mutant of Stamp: no timestamp is taken from the files.
StampNow(t) == clock

\* A result without finished_at dates nothing: datetime.now().
Stamp(t) == IF Result(t) = "final" THEN 0 ELSE clock

HasReward(t) == "reward" \in Have(t) \/ Torn(t) = "reward"

StepEvents(t) ==
    IF Torn(t) = "step" THEN {}
    ELSE {Event(t, i, 0, 0) : i \in 1 .. Steps(t)}

PatchEvents(t) ==
    {Event(t, Patch(t), b, Stamp(t)) :
        b \in (IF "patch" \in Have(t) THEN {0} ELSE {})
              \cup (IF Torn(t) = "patch" THEN {1} ELSE {})}

VerdictEvents(t) ==
    IF HasReward(t)
    THEN {Event(t, Verdict(t), (IF "ctrf" \in Have(t) THEN 1 ELSE 0)
                    + (IF Torn(t) = "reward" THEN 2 ELSE 0), Stamp(t))}
    ELSE {}

\* A final result with no reward carries exception_info.
FailureEvents(t) ==
    IF Result(t) = "final" /\ ~HasReward(t)
    THEN {Event(t, Failure(t), 0, 0)} ELSE {}

Collected(t) ==
    StepEvents(t)
    \cup (IF "ctrf" \in Have(t) THEN {Event(t, Tests(t), 0, 0)} ELSE {})
    \cup (IF Result(t) # "none"
          THEN PatchEvents(t) \cup VerdictEvents(t) \cup FailureEvents(t)
          ELSE {})

\* verifier_result_event reads ctrf.json unguarded: half of one ends the
\* sidecar.
Unreadable(t) == Result(t) # "none" /\ HasReward(t) /\ Torn(t) = "ctrf"

Earlier(a, b) ==
    \/ a.stamp < b.stamp
    \/ a.stamp = b.stamp /\ a.fact < b.fact

\* The batch, by timestamp (sorted_events).
Orders(S) ==
    {q \in [1 .. Cardinality(S) -> S] :
        \A i, j \in 1 .. Cardinality(S) : i < j => Earlier(q[i], q[j])}

\* The body is no JSON for Go's decoder: 400 for the whole batch.
Rejected(b) ==
    \E i \in DOMAIN b : b[i].fact = Verdict(b[i].trial) /\ b[i].trial \in Bad

------------------------------------------------------------------------------
(* Harbor *)

Init ==
    /\ written = [t \in Trials |-> 0] /\ half = {}
    /\ job = "job" /\ pc = "scan" /\ todo = Dirs /\ batch = <<>>
    /\ seen = {} /\ saved = {} /\ tornState = FALSE /\ jsonl = {}
    /\ request = {} /\ orphans = {} /\ router = <<>> /\ store = {}
    /\ clock = 1 /\ restarts = 0 /\ clean = TRUE

HarborBegins(t) ==
    /\ job = "job" /\ t \notin half
    /\ written[t] < Len(Files[t])
    /\ half' = half \cup {t}
    /\ UNCHANGED <<written, job, pc, todo, batch, seen, disk, gateway, clock,
                   clean>>

HarborEnds(t) ==
    /\ job = "job" /\ t \in half
    /\ half' = half \ {t}
    /\ written' = [written EXCEPT ![t] = @ + 1]
    /\ UNCHANGED <<job, pc, todo, batch, seen, disk, gateway, clock, clean>>

------------------------------------------------------------------------------
(* The sidecar *)

Spoil == clean' = (clean /\ job # "flush")

\* An uncaught exception or a signal: what was in memory is gone, a request
\* on its way stays with the gateway.
Die ==
    /\ pc' = "off" /\ todo' = <<>> /\ batch' = <<>> /\ seen' = {}
    /\ orphans' = orphans \cup request /\ request' = {}
    /\ UNCHANGED <<router, store, restarts>>

Fresh(t) == Collected(t) \ seen

Tick(t) ==
    clock' = IF clock < MaxClock /\ \E e \in Collected(t) : e.stamp > 0
             THEN clock + 1 ELSE clock

ScanNothing(t) ==
    /\ pc = "scan" /\ todo # <<>> /\ t = Head(todo)
    /\ ~Unreadable(t) /\ Fresh(t) = {}
    /\ todo' = Tail(todo)
    /\ UNCHANGED <<files, job, pc, batch, seen, disk, gateway, clock, clean>>

ScanPost(t) ==
    /\ pc = "scan" /\ todo # <<>> /\ t = Head(todo)
    /\ ~Unreadable(t) /\ Fresh(t) # {}
    /\ todo' = Tail(todo)
    /\ batch' \in Orders(Fresh(t))
    /\ pc' = "post"
    /\ Tick(t)
    /\ UNCHANGED <<files, job, seen, disk, gateway, clean>>

ScanDies(t) ==
    /\ pc = "scan" /\ todo # <<>> /\ t = Head(todo) /\ Unreadable(t)
    /\ Die
    /\ Spoil
    /\ UNCHANGED <<files, job, disk, clock>>

Connect ==
    /\ pc = "post" /\ request = {} /\ ~Rejected(batch)
    /\ request' = {[batch |-> batch, next |-> 1, sink |-> "router"]}
    /\ UNCHANGED <<files, job, pc, todo, batch, seen, disk, orphans, router,
                   store, restarts, clock, clean>>

\* HTTPError, or URLError: the batch stays unmarked and the scan goes on.
GiveUp ==
    /\ pc' = "scan" /\ batch' = <<>> /\ request' = {}
    /\ Spoil

\* Mutant of PostRejected: a refusal ends the scan.
PostRejectedEnds ==
    /\ pc = "post" /\ request = {} /\ Rejected(batch)
    /\ GiveUp
    /\ todo' = <<>>
    /\ UNCHANGED <<files, job, seen, disk, orphans, router, store, restarts,
                   clock>>

\* The gateway refuses the body.
PostRejected ==
    /\ pc = "post" /\ request = {} /\ Rejected(batch)
    /\ GiveUp
    /\ UNCHANGED <<files, job, todo, seen, disk, orphans, router, store,
                   restarts, clock>>

\* It cannot be reached.
PostUnreachable ==
    /\ pc = "post" /\ request = {}
    /\ GiveUp
    /\ UNCHANGED <<files, job, todo, seen, disk, orphans, router, store,
                   restarts, clock>>

\* No answer in ten seconds: post_events does not catch TimeoutError.
PostTimesOut ==
    /\ pc = "post" /\ request # {}
    /\ Die
    /\ Spoil
    /\ UNCHANGED <<files, job, disk, clock>>

\* One event of an accepted batch is written to the jsonl file and marked.
Mark ==
    /\ pc = "mark"
    /\ IF batch = <<>>
       THEN pc' = "scan" /\ UNCHANGED <<batch, jsonl, seen>>
       ELSE /\ jsonl' = jsonl \cup {Head(batch)}
            /\ seen' = seen \cup {Head(batch)}
            /\ batch' = Tail(batch)
            /\ UNCHANGED pc
    /\ UNCHANGED <<files, job, todo, saved, tornState, gateway, clock, clean>>

\* Path.write_text truncates, then writes.
SaveBegins ==
    /\ pc = "scan" /\ todo = <<>>
    /\ pc' = "saving" /\ tornState' = TRUE /\ saved' = {}
    /\ UNCHANGED <<files, job, todo, batch, seen, jsonl, gateway, clock,
                   clean>>

SaveEnds ==
    /\ pc = "saving"
    /\ tornState' = FALSE /\ saved' = seen
    /\ IF job = "job"
       THEN pc' = "sleep" /\ UNCHANGED job
       ELSE pc' = "off" /\ job' = "done"
    /\ UNCHANGED <<files, todo, batch, seen, jsonl, gateway, clock, clean>>

Wake ==
    /\ pc = "sleep"
    /\ pc' = "scan" /\ todo' = Dirs
    /\ UNCHANGED <<files, job, batch, seen, disk, gateway, clock, clean>>

------------------------------------------------------------------------------
(* The runner *)

\* The job is over or interrupted, Harbor writes no more; whatever the sidecar
\* is doing, it is killed (SIGTERM has no handler).
KillSidecar ==
    /\ job = "job"
    /\ job' = "killed"
    /\ Die
    /\ UNCHANGED <<files, disk, clock, clean>>

\* Mutant of Flush: the first trial directory hides the others.
FlushOne ==
    /\ job = "killed"
    /\ job' = "flush"
    /\ pc' = "scan" /\ todo' = <<Head(Dirs)>>
    /\ seen' = IF tornState THEN {} ELSE saved
    /\ UNCHANGED <<files, batch, disk, gateway, clock, clean>>

\* --once with the same state file; an unreadable one is an empty one.
Flush ==
    /\ job = "killed"
    /\ job' = "flush"
    /\ pc' = "scan" /\ todo' = Dirs
    /\ seen' = IF tornState THEN {} ELSE saved
    /\ UNCHANGED <<files, batch, disk, gateway, clock, clean>>

\* Mutant of FlushLost: the runner waits for a flush that succeeds.
FlushLostWaits ==
    /\ job = "flush" /\ pc = "off" /\ clean
    /\ job' = "done"
    /\ UNCHANGED <<files, pc, todo, batch, seen, disk, gateway, clock, clean>>

\* The flush died: the runner goes on all the same.
FlushLost ==
    /\ job = "flush" /\ pc = "off"
    /\ job' = "done"
    /\ UNCHANGED <<files, pc, todo, batch, seen, disk, gateway, clock, clean>>

------------------------------------------------------------------------------
(* The endpoint: for every event, every sink in turn *)

\* Mutant of Project: no check of the event id.
ProjectAgain(e) == router' = Append(router, e)

Project(e) ==
    router' = IF Contains(router, e) THEN router ELSE Append(router, e)

Replace(r, s) ==
    \/ r \in request /\ request' = {s} /\ UNCHANGED orphans
    \/ r \in orphans /\ orphans' = (orphans \ {r}) \cup {s}
       /\ UNCHANGED request

Requests == request \cup orphans

RouterSink(r) ==
    /\ r.next <= Len(r.batch) /\ r.sink = "router"
    /\ Project(r.batch[r.next])
    /\ Replace(r, [r EXCEPT !.sink = "store"])
    /\ UNCHANGED <<files, job, pc, todo, batch, seen, disk, store, restarts,
                   clock, clean>>

StoreSink(r) ==
    /\ r.next <= Len(r.batch) /\ r.sink = "store"
    /\ store' = store \cup {r.batch[r.next]}
    /\ Replace(r, [r EXCEPT !.sink = "router", !.next = @ + 1])
    /\ UNCHANGED <<files, job, pc, todo, batch, seen, disk, router, restarts,
                   clock, clean>>

\* Mutant of StoreFails: the sink's error is logged and the answer is 202.
StoreFailsQuietly(r) ==
    /\ r.next <= Len(r.batch) /\ r.sink = "store"
    /\ Replace(r, [r EXCEPT !.sink = "router", !.next = @ + 1])
    /\ UNCHANGED <<files, job, pc, todo, batch, seen, disk, router, store,
                   restarts, clock, clean>>

\* A sink's error ends the batch with 500; the events before it stay.
StoreFails(r) ==
    /\ r.next <= Len(r.batch) /\ r.sink = "store"
    /\ \/ r \in request /\ GiveUp /\ UNCHANGED orphans
       \/ /\ r \in orphans /\ orphans' = orphans \ {r}
          /\ UNCHANGED <<pc, batch, request, clean>>
    /\ UNCHANGED <<files, job, todo, seen, disk, router, store, restarts,
                   clock>>

Accepted(r) ==
    /\ r.next > Len(r.batch)
    /\ \/ /\ r \in request /\ request' = {} /\ pc' = "mark"
          /\ UNCHANGED orphans
       \/ /\ r \in orphans /\ orphans' = orphans \ {r}
          /\ UNCHANGED <<request, pc>>
    /\ UNCHANGED <<files, job, todo, batch, seen, disk, router, store,
                   restarts, clock, clean>>

\* The gateway crashes: connections break (RemoteDisconnected is not caught
\* either), the projection is lost, the store is not.
GatewayRestarts ==
    /\ restarts < MaxRestarts
    /\ restarts' = restarts + 1
    /\ router' = <<>> /\ request' = {} /\ orphans' = {}
    /\ IF request = {}
       THEN UNCHANGED <<pc, todo, batch, seen, clean>>
       ELSE /\ pc' = "off" /\ todo' = <<>> /\ batch' = <<>> /\ seen' = {}
            /\ Spoil
    /\ UNCHANGED <<files, job, disk, store, clock>>

------------------------------------------------------------------------------
Sidecar ==
    \/ \E t \in Trials : ScanNothing(t) \/ ScanPost(t) \/ ScanDies(t)
    \/ Connect \/ PostRejected \/ Mark \/ SaveBegins \/ SaveEnds \/ Wake

Endpoint == \E r \in Requests : RouterSink(r) \/ StoreSink(r) \/ Accepted(r)

Trouble ==
    \/ PostUnreachable \/ PostTimesOut \/ GatewayRestarts
    \/ \E r \in Requests : StoreFails(r)

Next ==
    \/ \E t \in Trials : HarborBegins(t) \/ HarborEnds(t)
    \/ Sidecar \/ Endpoint \/ Trouble
    \/ KillSidecar \/ Flush \/ FlushLost

Spec == Init /\ [][Next]_vars

\* Each process keeps going; trouble is never forced, except that a request
\* without an answer does time out.
FairSpec ==
    /\ Spec
    /\ WF_vars(Sidecar) /\ WF_vars(PostTimesOut)
    /\ WF_vars(\E t \in Trials : HarborEnds(t))
    /\ WF_vars(Flush \/ FlushLost)
    /\ WF_vars(\E r \in request : RouterSink(r) \/ StoreSink(r) \/ Accepted(r))

------------------------------------------------------------------------------
(* Properties *)

TypeOK ==
    /\ \A t \in Trials : written[t] \in 0 .. Len(Files[t])
    /\ half \subseteq Trials
    /\ job \in {"job", "killed", "flush", "done"}
    /\ pc \in {"off", "scan", "post", "mark", "saving", "sleep"}
    /\ todo \in Seq(Trials)
    /\ tornState \in BOOLEAN /\ clean \in BOOLEAN
    /\ clock \in 1 .. MaxClock /\ restarts \in 0 .. MaxRestarts

\* What the sidecar takes for sent, in memory or in its state file, is in its
\* event file, and that is in the audit store: no failed sink, lost answer,
\* crash or kill between the post and the save makes it skip an event the
\* gateway does not have.
SeenIsStored ==
    /\ seen \cup saved \subseteq jsonl
    /\ jsonl \subseteq store

Stored(e) ==
    \E s \in store : s.trial = e.trial /\ s.fact = e.fact /\ s.body = e.body

\* A flush whose posts were all accepted leaves no fact of the job's files
\* behind, wherever in its scan, post or save the sidecar was killed before.
FlushComplete ==
    job = "done" /\ clean => \A t \in Trials : \A e \in Collected(t) : Stored(e)

\* As long as the gateway does not restart, the router sees the steps of a
\* trial once each and in their order: posts repeated after a lost answer,
\* two handlers at work on the same events and half-written trajectories
\* included.
StepsInOrder ==
    restarts = 0 =>
        \A i, j \in DOMAIN router :
            /\ i < j /\ router[i].trial = router[j].trial
            /\ router[j].fact <= MaxSteps(router[j].trial)
            => router[i].fact < router[j].fact

\* Scanning again posts no artifact of a trial whose result.json is written
\* once, at the end, under a second id.
FactOnceIfFinal ==
    \A i, j \in DOMAIN router :
        /\ i < j /\ router[i].trial = router[j].trial
        /\ "early" \notin Range(Files[router[i].trial])
        => router[i].fact # router[j].fact

Polling == job = "job" /\ pc # "off"

\* A sidecar that goes on polling a gateway that has stopped failing gets
\* everything a trial's files say into the store, whatever happened before
\* and even when the events of another trial are refused at every scan.
Delivered ==
    (<>[]Polling /\ <>[][~Trouble]_vars)
        => \A t \in Trials \ Bad : <>[](\A e \in Collected(t) : Stored(e))

\* The last scan never holds the runner up, not even when the gateway does
\* not answer.
FlushEnds == job = "killed" ~> job = "done"
=============================================================================
