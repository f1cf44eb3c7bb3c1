--------------------------- MODULE WatcherProofs ---------------------------
(***************************************************************************)
(* From Harbor's files to the audit store and the router, for any trials,  *)
(* any files and any number of crashes.                                    *)
(*                                                                         *)
(* What the sidecar takes for sent is stored: it marks a batch only when   *)
(* its request was accepted; the request it waits for carries that batch   *)
(* and no other, because a request outlives its client only as an orphan;  *)
(* and what a request has passed is stored.  On that rest the flush at the *)
(* end of a job, which leaves nothing behind, the ids, which do not change *)
(* from scan to scan, and the order in which the router gets the steps.    *)
(***************************************************************************)
EXTENDS Watcher, TLAPS, FiniteSetTheorems, SequenceTheorems

IsSeq(q) == q \in Seq(Range(q))

\* Of a request: the events before the next one are stored.
Passed(r) ==
    /\ IsSeq(r.batch) /\ r.next \in Nat \ {0}
    /\ r = [batch |-> r.batch, next |-> r.next, sink |-> r.sink]
    /\ \A i \in 1 .. Len(r.batch) : i < r.next => r.batch[i] \in store

\* Types, as far as the argument needs them.
Shape ==
    /\ written \in [Trials -> Nat]
    /\ IsSeq(batch)

\* Requests and the sidecar that waits for one.
Waiting ==
    /\ \A r \in Requests : Passed(r)
    /\ \A r \in request : r.batch = batch
    /\ request # {} => pc = "post"
    /\ pc = "mark" => Range(batch) \subseteq store
    /\ job = "killed" => pc = "off"

IInv == Shape /\ Waiting /\ SeenIsStored

------------------------------------------------------------------------------
(* Sequences *)

LEMMA SeqOverRange == ASSUME NEW S, NEW q \in Seq(S) PROVE IsSeq(q)
<1>1. Len(q) \in Nat /\ q \in [1 .. Len(q) -> S] /\ DOMAIN q = 1 .. Len(q)
    BY LenProperties
<1>2. q \in [1 .. Len(q) -> Range(q)]
    BY <1>1 DEF Range
<1>3. QED
    BY <1>1, <1>2 DEF IsSeq

LEMMA NoEvents == IsSeq(<<>>) /\ Range(<<>>) = {}
BY DEF IsSeq, Range

LEMMA InRange ==
    ASSUME NEW q, IsSeq(q)
    PROVE  /\ Len(q) \in Nat /\ DOMAIN q = 1 .. Len(q)
           /\ \A i \in 1 .. Len(q) : q[i] \in Range(q)
           /\ \A x \in Range(q) : \E i \in 1 .. Len(q) : x = q[i]
<1>1. Len(q) \in Nat /\ DOMAIN q = 1 .. Len(q)
    BY LenProperties DEF IsSeq
<1>2. QED
    BY <1>1 DEF Range

LEMMA Split ==
    ASSUME NEW q, IsSeq(q), q # <<>>
    PROVE  /\ Head(q) \in Range(q)
           /\ IsSeq(Tail(q)) /\ Range(Tail(q)) \subseteq Range(q)
<1>1. /\ Head(q) \in Range(q) /\ Tail(q) \in Seq(Range(q))
    BY HeadTailProperties DEF IsSeq
<1>2. IsSeq(Tail(q))
    BY <1>1, SeqOverRange
<1>3. \A i \in DOMAIN Tail(q) : Tail(q)[i] \in Range(q)
    BY <1>1, LenProperties
<1>4. QED
    BY <1>1, <1>2, <1>3 DEF Range

\* A batch is a sequence because a trial has finitely many events.
LEMMA CollectedFinite ==
    ASSUME NEW t \in Trials, written \in [Trials -> Nat]
    PROVE  IsFiniteSet(Collected(t))
<1> DEFINE n == Steps(t)
<1>1. n \in Nat
  <2> DEFINE S == {i \in 1 .. written[t] : Files[t][i] = "step"}
  <2>1. IsFiniteSet(1 .. written[t])
      BY FS_Interval
  <2>2. IsFiniteSet(S)
      BY <2>1, FS_Subset
  <2>3. QED
      BY <2>2, FS_CardinalityType DEF Steps
<1>2. IsFiniteSet(StepEvents(t))
  <2> DEFINE T == {Event(t, i, 0, 0) : i \in 1 .. n}
             f == [i \in 1 .. n |-> Event(t, i, 0, 0)]
  <2>1. IsFiniteSet(1 .. n)
      BY <1>1, FS_Interval
  <2>2. f \in Surjection(1 .. n, T)
      BY DEF Surjection
  <2>3. IsFiniteSet(T)
      BY <2>1, <2>2, FS_Surjection
  <2>4. QED
      BY <2>3, FS_EmptySet DEF StepEvents
<1>3. IsFiniteSet(PatchEvents(t))
  <2> DEFINE P(b) == Event(t, Patch(t), b, Stamp(t))
  <2>1. IsFiniteSet({P(0)} \cup {P(1)})
      BY FS_Singleton, FS_Union
  <2>2. PatchEvents(t) \subseteq {P(0)} \cup {P(1)}
      BY DEF PatchEvents
  <2>3. QED
      BY <2>1, <2>2, FS_Subset
<1>4. IsFiniteSet(VerdictEvents(t)) /\ IsFiniteSet(FailureEvents(t))
    BY FS_Singleton, FS_EmptySet DEF VerdictEvents, FailureEvents
<1>5. IsFiniteSet(IF "ctrf" \in Have(t) THEN {Event(t, Tests(t), 0, 0)} ELSE {})
    BY FS_Singleton, FS_EmptySet
<1>6. IsFiniteSet(PatchEvents(t) \cup VerdictEvents(t) \cup FailureEvents(t))
    BY <1>3, <1>4, FS_Union
<1>7. IsFiniteSet(IF Result(t) # "none"
                  THEN PatchEvents(t) \cup VerdictEvents(t) \cup FailureEvents(t)
                  ELSE {})
    BY <1>6, FS_EmptySet
<1>8. QED
    BY <1>2, <1>5, <1>7, FS_Union DEF Collected

LEMMA BatchIsSeq ==
    ASSUME NEW t \in Trials, written \in [Trials -> Nat],
           NEW b \in Orders(Fresh(t))
    PROVE  IsSeq(b)
<1>1. IsFiniteSet(Fresh(t))
    BY CollectedFinite, FS_Subset DEF Fresh
<1>2. Cardinality(Fresh(t)) \in Nat
    BY <1>1, FS_CardinalityType
<1>3. b \in Seq(Fresh(t))
    BY <1>2 DEF Orders
<1>4. QED
    BY <1>3, SeqOverRange


------------------------------------------------------------------------------
(* Requests *)

\* What has been passed stays so while the store loses nothing.
LEMMA StillPassed ==
    ASSUME NEW r, Passed(r), store \subseteq store'
    PROVE  Passed(r)'
BY DEF Passed, IsSeq

LEMMA ToTheStore ==
    ASSUME NEW r, Passed(r)
    PROVE  /\ Passed([r EXCEPT !.sink = "store"])
           /\ [r EXCEPT !.sink = "store"].batch = r.batch
<1>1. PICK b, n, k : r = [batch |-> b, next |-> n, sink |-> k]
    BY DEF Passed
<1> DEFINE R == [batch |-> b, next |-> n, sink |-> "store"]
<1>2. [r EXCEPT !.sink = "store"] = R
    BY <1>1
<1>3. Passed(R) /\ R.batch = r.batch
    BY <1>1 DEF Passed
<1> HIDE DEF R
<1>4. QED
    BY <1>2, <1>3

LEMMA OneFurther ==
    ASSUME NEW r, Passed(r), r.next <= Len(r.batch),
           store' = store \cup {r.batch[r.next]}
    PROVE  /\ Passed([r EXCEPT !.sink = "router", !.next = @ + 1])'
           /\ [r EXCEPT !.sink = "router", !.next = @ + 1].batch = r.batch
<1>1. PICK b, n, k : r = [batch |-> b, next |-> n, sink |-> k]
    BY DEF Passed
<1>2. n \in Nat \ {0} /\ IsSeq(b) /\ Len(b) \in Nat
    BY <1>1, InRange DEF Passed
<1> DEFINE m == n + 1
           R == [batch |-> b, next |-> m, sink |-> "router"]
<1>3. [r EXCEPT !.sink = "router", !.next = @ + 1] = R
  <2>1. [r EXCEPT !.sink = "router", !.next = @ + 1]
            = [r EXCEPT !.sink = "router", !.next = m]
      BY <1>1
  <2> HIDE DEF m
  <2> DEFINE S == [batch |-> b, next |-> n, sink |-> "router"]
  <2>2. [r EXCEPT !.sink = "router"] = S
      BY <1>1
  <2>3. [S EXCEPT !.next = m] = R
      OBVIOUS
  <2>4. [r EXCEPT !.sink = "router", !.next = m] = [S EXCEPT !.next = m]
      BY <2>2
  <2>5. QED
      BY <2>1, <2>3, <2>4
<1>4. \A i \in 1 .. Len(b) : i < n + 1 => b[i] \in store'
    BY <1>1, <1>2 DEF Passed
<1>5. /\ R.batch = b /\ R.next = n + 1 /\ R.sink = "router"
      /\ r.batch = b /\ IsSeq(b)' /\ n + 1 \in Nat \ {0}
    BY <1>1, <1>2 DEF IsSeq
<1>6. Passed(R)' /\ R.batch = r.batch
    BY <1>4, <1>5 DEF Passed
<1> HIDE DEF R
<1>7. QED
    BY <1>3, <1>6

\* A request that a sink has served takes the place of the one before.
LEMMA Replaced ==
    ASSUME NEW r \in Requests, NEW s, Replace(r, s), Waiting,
           store \subseteq store', Passed(s)', s.batch = r.batch,
           UNCHANGED batch
    PROVE  /\ \A x \in Requests' : Passed(x)'
           /\ \A x \in request' : x.batch = batch'
           /\ request' # {} => request # {}
<1>1. \A x \in Requests : Passed(x)'
    BY StillPassed DEF Waiting
<1>2. CASE r \in request /\ request' = {s} /\ UNCHANGED orphans
    BY <1>1, <1>2 DEF Requests, Waiting
<1>3. CASE /\ r \in orphans /\ orphans' = (orphans \ {r}) \cup {s}
           /\ UNCHANGED request
    BY <1>1, <1>3 DEF Requests, Waiting
<1>4. QED
    BY <1>2, <1>3 DEF Replace

------------------------------------------------------------------------------
(* Steps that touch neither requests nor the store *)

LEMMA QuietStep ==
    ASSUME IInv, Shape', UNCHANGED <<request, orphans, store>>,
           request = {} \/ UNCHANGED <<pc, batch>>,
           pc' = "mark" => Range(batch') \subseteq store,
           job' = "killed" => pc' = "off", SeenIsStored'
    PROVE  IInv'
<1>1. \A r \in Requests' : Passed(r)'
    BY StillPassed DEF IInv, Waiting, Requests
<1>2. Waiting'
    BY <1>1 DEF IInv, Waiting
<1>3. QED
    BY <1>2 DEF IInv

LEMMA DeadStep ==
    ASSUME IInv, Die, UNCHANGED <<files, disk>>
    PROVE  IInv'
<1>1. \A r \in Requests' : Passed(r)'
    BY StillPassed DEF IInv, Waiting, Requests, Die
<1>2. Shape' /\ SeenIsStored'
    BY NoEvents DEF IInv, Shape, SeenIsStored, Die, files, disk
<1>3. QED
    BY <1>1, <1>2 DEF IInv, Waiting, Die

LEMMA FailedPost ==
    ASSUME IInv, GiveUp, UNCHANGED <<files, job, seen, disk, store>>,
           orphans' \subseteq orphans, job # "killed"
    PROVE  IInv'
<1>1. \A r \in Requests' : Passed(r)'
    BY StillPassed DEF IInv, Waiting, Requests, GiveUp
<1>2. Shape' /\ SeenIsStored'
    BY NoEvents DEF IInv, Shape, SeenIsStored, GiveUp, files, disk
<1>3. QED
    BY <1>1, <1>2 DEF IInv, Waiting, GiveUp

LEMMA HarborStep ==
    ASSUME IInv, NEW t \in Trials, HarborBegins(t) \/ HarborEnds(t)
    PROVE  IInv'
<1>1. Shape' /\ SeenIsStored' /\ UNCHANGED <<request, orphans, store, pc, batch, job>>
    BY DEF IInv, Shape, SeenIsStored, HarborBegins, HarborEnds, gateway, disk
<1>2. QED
    BY <1>1, QuietStep DEF IInv, Waiting

LEMMA ScanStep ==
    ASSUME IInv, NEW t \in Trials,
           ScanNothing(t) \/ ScanPost(t) \/ ScanDies(t)
    PROVE  IInv'
<1>1. CASE ScanNothing(t)
  <2>1. /\ Shape' /\ SeenIsStored'
        /\ UNCHANGED <<request, orphans, store, pc, batch, job>>
      BY <1>1 DEF IInv, Shape, SeenIsStored, ScanNothing, files, gateway, disk
  <2>2. QED
      BY <2>1, QuietStep DEF IInv, Waiting
<1>2. CASE ScanPost(t)
  <2>1. IsSeq(batch')
      BY <1>2, BatchIsSeq DEF IInv, Shape, ScanPost
  <2>2. Shape' /\ SeenIsStored' /\ UNCHANGED <<request, orphans, store, job>>
      BY <1>2, <2>1
      DEF IInv, Shape, SeenIsStored, ScanPost, files, gateway, disk
  <2>3. pc = "scan" /\ pc' = "post" /\ request = {}
      BY <1>2 DEF IInv, Waiting, ScanPost
  <2>4. QED
      BY <2>2, <2>3, QuietStep DEF IInv, Waiting
<1>3. CASE ScanDies(t)
    BY <1>3, DeadStep DEF ScanDies
<1>4. QED
    BY <1>1, <1>2, <1>3

LEMMA ConnectStep ==
    ASSUME IInv, Connect
    PROVE  IInv'
<1> DEFINE R == [batch |-> batch, next |-> 1, sink |-> "router"]
<1>1. Passed(R)'
    BY InRange DEF IInv, Shape, Connect, Passed, IsSeq
<1>2. \A r \in Requests' : Passed(r)'
    BY <1>1, StillPassed DEF IInv, Waiting, Requests, Connect
<1>3. Shape' /\ SeenIsStored'
    BY DEF IInv, Shape, SeenIsStored, Connect, files, disk
<1>4. QED
    BY <1>2, <1>3 DEF IInv, Waiting, Connect

\* Only a batch that is stored is marked.
LEMMA MarkStep ==
    ASSUME IInv, Mark
    PROVE  IInv'
<1>1. pc = "mark" /\ request = {} /\ Range(batch) \subseteq store
    BY DEF IInv, Waiting, Mark
<1>2. UNCHANGED <<request, orphans, store, job, written, saved>>
    BY DEF Mark, files, gateway
<1>3. CASE batch = <<>>
  <2>1. Shape' /\ SeenIsStored' /\ pc' = "scan"
      BY <1>2, <1>3 DEF IInv, Shape, SeenIsStored, Mark
  <2>2. QED
      BY <1>1, <1>2, <2>1, QuietStep DEF IInv, Waiting
<1>4. CASE batch # <<>>
  <2>1. /\ jsonl' = jsonl \cup {Head(batch)} /\ seen' = seen \cup {Head(batch)}
        /\ batch' = Tail(batch) /\ pc' = pc
      BY <1>4 DEF Mark
  <2>2. /\ Head(batch) \in store
        /\ IsSeq(batch') /\ Range(batch') \subseteq store
      BY <1>1, <1>4, <2>1, Split DEF IInv, Shape
  <2>3. Shape' /\ SeenIsStored'
      BY <1>2, <2>1, <2>2 DEF IInv, Shape, SeenIsStored
  <2>4. QED
      BY <1>1, <1>2, <2>1, <2>2, <2>3, QuietStep DEF IInv, Waiting
<1>5. QED
    BY <1>3, <1>4

LEMMA SleepStep ==
    ASSUME IInv, SaveBegins \/ SaveEnds \/ Wake
    PROVE  IInv'
<1>1. Shape' /\ SeenIsStored' /\ UNCHANGED <<request, orphans, store>>
    BY DEF IInv, Shape, SeenIsStored, SaveBegins, SaveEnds, Wake, files,
           gateway, disk
<1>2. request = {} /\ pc' # "mark" /\ job # "killed" /\ job' # "killed"
    BY DEF IInv, Waiting, SaveBegins, SaveEnds, Wake
<1>3. QED
    BY <1>1, <1>2, QuietStep

LEMMA RunnerStep ==
    ASSUME IInv, KillSidecar \/ Flush \/ FlushLost
    PROVE  IInv'
<1>1. CASE KillSidecar
    BY <1>1, DeadStep DEF KillSidecar
<1>2. CASE Flush
  <2>1. /\ Shape' /\ SeenIsStored' /\ UNCHANGED <<request, orphans, store>>
        /\ request = {} /\ pc' = "scan" /\ job' = "flush"
      BY <1>2 DEF IInv, Shape, Waiting, SeenIsStored, Flush, files, gateway, disk
  <2>2. QED
      BY <2>1, QuietStep
<1>3. CASE FlushLost
  <2>1. /\ Shape' /\ SeenIsStored'
        /\ UNCHANGED <<request, orphans, store, pc, batch>>
        /\ pc' = "off" /\ job' = "done"
      BY <1>3 DEF IInv, Shape, SeenIsStored, FlushLost, files, gateway, disk
  <2>2. QED
      BY <2>1, QuietStep
<1>4. QED
    BY <1>1, <1>2, <1>3

LEMMA SinkStep ==
    ASSUME IInv, NEW r \in Requests, RouterSink(r) \/ StoreSink(r)
    PROVE  IInv'
<1>1. Passed(r)
    BY DEF IInv, Waiting
<1>2. PICK s : /\ Replace(r, s) /\ Passed(s)' /\ s.batch = r.batch
               /\ store \subseteq store'
  <2>1. CASE RouterSink(r)
    <3> DEFINE s == [r EXCEPT !.sink = "store"]
    <3>1. Passed(s) /\ s.batch = r.batch
        BY <1>1, ToTheStore
    <3>2. Replace(r, s) /\ UNCHANGED store
        BY <2>1 DEF RouterSink
    <3> HIDE DEF s
    <3>3. QED
        BY <3>1, <3>2, StillPassed
  <2>2. CASE StoreSink(r)
    <3> DEFINE s == [r EXCEPT !.sink = "router", !.next = @ + 1]
    <3>1. /\ r.next <= Len(r.batch) /\ store' = store \cup {r.batch[r.next]}
          /\ Replace(r, s)
        BY <2>2 DEF StoreSink
    <3>2. Passed(s)' /\ s.batch = r.batch
        BY <1>1, <3>1, OneFurther
    <3> HIDE DEF s
    <3>3. QED
        BY <3>1, <3>2
  <2>3. QED
      BY <2>1, <2>2
<1>3. UNCHANGED <<written, pc, batch, seen, saved, jsonl, job>>
    BY DEF RouterSink, StoreSink, files, disk
<1>4. /\ \A x \in Requests' : Passed(x)'
      /\ \A x \in request' : x.batch = batch'
      /\ request' # {} => request # {}
    BY <1>2, <1>3, Replaced DEF IInv
<1>5. Shape' /\ SeenIsStored'
    BY <1>2, <1>3 DEF IInv, Shape, SeenIsStored
<1>6. QED
    BY <1>2, <1>3, <1>4, <1>5 DEF IInv, Waiting

\* A request whose batch is passed to the end has stored it all.
LEMMA AcceptedStep ==
    ASSUME IInv, NEW r \in Requests, Accepted(r)
    PROVE  IInv'
<1>1. \A x \in Requests' : Passed(x)'
    BY StillPassed DEF IInv, Waiting, Requests, Accepted
<1>2. Shape' /\ SeenIsStored'
    BY DEF IInv, Shape, SeenIsStored, Accepted, files, disk
<1>3. UNCHANGED <<batch, store, job>>
    BY DEF Accepted
<1>4. CASE r \in request /\ request' = {} /\ pc' = "mark"
  <2>1. /\ Passed(r) /\ r.batch = batch /\ r.next > Len(r.batch)
        /\ job # "killed"
      BY <1>4 DEF IInv, Waiting, Accepted
  <2>2. Range(batch) \subseteq store
    <3>1. IsSeq(batch) /\ r.next \in Nat /\ Len(batch) \in Nat
        BY <2>1, InRange DEF Passed
    <3>2. \A i \in 1 .. Len(batch) : batch[i] \in store
        BY <2>1, <3>1 DEF Passed
    <3>3. QED
        BY <3>1, <3>2, InRange
  <2>3. QED
      BY <1>1, <1>2, <1>3, <1>4, <2>1, <2>2 DEF IInv, Waiting
<1>5. CASE UNCHANGED <<request, pc>>
    BY <1>1, <1>2, <1>3, <1>5 DEF IInv, Waiting
<1>6. QED
    BY <1>4, <1>5 DEF Accepted

LEMMA TroubleStep ==
    ASSUME IInv, Trouble
    PROVE  IInv'
<1>1. CASE PostUnreachable
    BY <1>1, FailedPost DEF PostUnreachable, IInv, Waiting
<1>2. CASE PostTimesOut
    BY <1>2, DeadStep DEF PostTimesOut
<1>3. CASE GatewayRestarts
  <2>1. /\ request' = {} /\ orphans' = {} /\ UNCHANGED <<files, disk, store, job>>
        /\ \/ UNCHANGED <<pc, batch, seen>>
           \/ pc' = "off" /\ batch' = <<>> /\ seen' = {}
      BY <1>3 DEF GatewayRestarts
  <2>2. QED
      BY <2>1, NoEvents
      DEF IInv, Shape, Waiting, SeenIsStored, Requests, files, disk
<1>4. ASSUME NEW r \in Requests, StoreFails(r) PROVE IInv'
  <2>1. CASE r \in request /\ GiveUp /\ UNCHANGED orphans
      BY <1>4, <2>1, FailedPost DEF StoreFails, IInv, Waiting
  <2>2. CASE /\ r \in orphans /\ orphans' = orphans \ {r}
             /\ UNCHANGED <<pc, batch, request, clean>>
    <3>1. UNCHANGED <<files, job, seen, disk, store>>
        BY <1>4 DEF StoreFails
    <3>2. \A x \in Requests' : Passed(x)'
        BY <2>2, <3>1, StillPassed DEF IInv, Waiting, Requests
    <3>3. QED
        BY <2>2, <3>1, <3>2
        DEF IInv, Shape, Waiting, SeenIsStored, files, disk
  <2>3. QED
      BY <1>4, <2>1, <2>2 DEF StoreFails
<1>5. QED
    BY <1>1, <1>2, <1>3, <1>4 DEF Trouble

------------------------------------------------------------------------------
(* The theorems *)

LEMMA InitIInv == Init => IInv
BY NoEvents DEF Init, IInv, Shape, Waiting, SeenIsStored, Requests

LEMMA NextIInv == ASSUME IInv, [Next]_vars PROVE IInv'
<1>1. CASE Next
  <2>1. CASE \E t \in Trials : HarborBegins(t) \/ HarborEnds(t)
      BY <2>1, HarborStep
  <2>2. CASE Sidecar
    <3>1. CASE \E t \in Trials : ScanNothing(t) \/ ScanPost(t) \/ ScanDies(t)
        BY <3>1, ScanStep
    <3>2. CASE Connect
        BY <3>2, ConnectStep
    <3>3. CASE PostRejected
        BY <3>3, FailedPost DEF PostRejected, IInv, Waiting
    <3>4. CASE Mark
        BY <3>4, MarkStep
    <3>5. CASE SaveBegins \/ SaveEnds \/ Wake
        BY <3>5, SleepStep
    <3>6. QED
        BY <2>2, <3>1, <3>2, <3>3, <3>4, <3>5 DEF Sidecar
  <2>3. CASE Endpoint
      BY <2>3, SinkStep, AcceptedStep DEF Endpoint
  <2>4. CASE Trouble
      BY <2>4, TroubleStep
  <2>5. CASE KillSidecar \/ Flush \/ FlushLost
      BY <2>5, RunnerStep
  <2>6. QED
      BY <1>1, <2>1, <2>2, <2>3, <2>4, <2>5 DEF Next
<1>2. CASE UNCHANGED vars
  <2>1. UNCHANGED <<files, job, pc, batch, seen, disk, request, orphans, store>>
      BY <1>2 DEF vars, files, disk
  <2>2. Shape' /\ SeenIsStored'
      BY <2>1 DEF IInv, Shape, SeenIsStored, files, disk
  <2>3. QED
      BY <2>1, <2>2, QuietStep DEF IInv, Waiting
<1>3. QED
    BY <1>1, <1>2

\* The inductive invariant: a sidecar waits for the request that carries its
\* batch, and what a request has passed is stored.
THEOREM Inductive == Spec => []IInv
<1>1. Init => IInv
    BY InitIInv
<1>2. IInv /\ [Next]_vars => IInv'
    BY NextIInv
<1>3. QED
    BY <1>1, <1>2, PTL DEF Spec

\* The sidecar (watch_harbor_episode_events.py, scan_and_emit) never takes an
\* event for sent that the audit store does not have: however often sinks
\* fail, answers are lost, the gateway crashes or the sidecar is killed.
THEOREM SentIsStored == Spec => []SeenIsStored
<1>1. IInv => SeenIsStored
    BY DEF IInv
<1>2. QED
    BY <1>1, Inductive, PTL

------------------------------------------------------------------------------
(* The flush leaves no fact behind *)

Same(x, e) == x.trial = e.trial /\ x.fact = e.fact /\ x.body = e.body

\* A trial the flush has still to look at, has stored, or is posting.
Covered(t) ==
    \/ job = "flush" /\ t \in Range(todo)
    \/ \A e \in Collected(t) : Stored(e)
    \/ /\ pc = "post" /\ job = "flush"
       /\ \A e \in Collected(t) :
             Stored(e) \/ \E x \in Range(batch) : Same(x, e)

Flushing ==
    /\ clock \in Nat /\ todo \in Seq(Trials)
    /\ job \in {"job", "killed", "flush", "done"}
    /\ pc = "saving" => todo = <<>>
    /\ job = "done" => pc = "off"
    /\ clean /\ job = "flush" => pc # "off"
    /\ clean /\ job \in {"flush", "done"} => \A t \in Trials : Covered(t)

\* While the files do not change a scan finds the same facts, only undated ones
\* at another time.
LEMMA SameFacts ==
    ASSUME UNCHANGED files, NEW t \in Trials, NEW e \in Collected(t)'
    PROVE  \E x \in Collected(t) : Same(x, e)
<1>1. /\ Have(t)' = Have(t) /\ Torn(t)' = Torn(t) /\ Steps(t)' = Steps(t)
    BY DEF files, Have, Torn, Steps
<1>2. Result(t)' = Result(t) /\ HasReward(t)' = HasReward(t)
    BY <1>1 DEF Result, HasReward
<1>3. ASSUME e \in StepEvents(t)' PROVE e \in StepEvents(t)
    BY <1>1, <1>3 DEF StepEvents
<1>4. ASSUME e \in PatchEvents(t)' PROVE \E x \in PatchEvents(t) : Same(x, e)
  <2>1. PICK b \in (IF "patch" \in Have(t) THEN {0} ELSE {})
                   \cup (IF Torn(t) = "patch" THEN {1} ELSE {}) :
           e = Event(t, Patch(t), b, Stamp(t)')
      BY <1>1, <1>4 DEF PatchEvents
  <2>2. Event(t, Patch(t), b, Stamp(t)) \in PatchEvents(t)
      BY <2>1 DEF PatchEvents
  <2>3. QED
      BY <2>1, <2>2 DEF Same, Event
<1>5. ASSUME e \in VerdictEvents(t)' PROVE \E x \in VerdictEvents(t) : Same(x, e)
  <2> DEFINE b == (IF "ctrf" \in Have(t) THEN 1 ELSE 0)
                    + (IF Torn(t) = "reward" THEN 2 ELSE 0)
  <2>1. e = Event(t, Verdict(t), b, Stamp(t)')
      BY <1>1, <1>2, <1>5 DEF VerdictEvents
  <2>2. Event(t, Verdict(t), b, Stamp(t)) \in VerdictEvents(t)
      BY <1>1, <1>2, <1>5 DEF VerdictEvents
  <2> HIDE DEF b
  <2>3. QED
      BY <2>1, <2>2 DEF Same, Event
<1>6. ASSUME e \in FailureEvents(t)' PROVE e \in FailureEvents(t)
    BY <1>2, <1>6 DEF FailureEvents
<1>7. QED
    BY <1>1, <1>2, <1>3, <1>4, <1>5, <1>6 DEF Collected, Same

LEMMA StillStored ==
    ASSUME UNCHANGED files, store \subseteq store', NEW t \in Trials,
           \A e \in Collected(t) : Stored(e)
    PROVE  \A e \in Collected(t)' : Stored(e)'
<1> TAKE e \in Collected(t)'
<1>1. PICK x \in Collected(t) : Same(x, e)
    BY SameFacts
<1>2. PICK y \in store : Same(y, x)
    BY DEF Stored, Same
<1>3. y \in store' /\ Same(y, e)
    BY <1>1, <1>2 DEF Same
<1>4. QED
    BY <1>3 DEF Stored, Same

\* Neither the sidecar nor the runner moves.
LEMMA RestingFlush ==
    ASSUME Flushing, UNCHANGED <<files, job, pc, todo, batch, clock, clean>>,
           store \subseteq store'
    PROVE  Flushing'
<1>1. ASSUME NEW t \in Trials, Covered(t) PROVE Covered(t)'
  <2>1. CASE job = "flush" /\ t \in Range(todo)
      BY <2>1 DEF Covered
  <2>2. CASE \A e \in Collected(t) : Stored(e)
      BY <2>2, StillStored DEF Covered
  <2>3. CASE /\ pc = "post" /\ job = "flush"
             /\ \A e \in Collected(t) :
                   Stored(e) \/ \E x \in Range(batch) : Same(x, e)
    <3>1. Collected(t)' = Collected(t)
        BY DEF Collected, StepEvents, PatchEvents, VerdictEvents, FailureEvents,
               Stamp, Result, HasReward, Have, Torn, Steps, files
    <3>2. \A e \in Collected(t)' :
             Stored(e)' \/ \E x \in Range(batch)' : Same(x, e)
        BY <2>3, <3>1 DEF Stored
    <3>3. QED
        BY <2>3, <3>2 DEF Covered
  <2>4. QED
      BY <1>1, <2>1, <2>2, <2>3 DEF Covered
<1>2. QED
    BY <1>1 DEF Flushing

\* Something goes wrong.
LEMMA SpoiltFlush ==
    ASSUME Flushing, Spoil, job # "done", UNCHANGED <<job, clock>>,
           todo' \in Seq(Trials), pc' # "saving"
    PROVE  Flushing'
BY DEF Flushing, Spoil

LEMMA NoTrials == <<>> \in Seq(Trials) /\ Dirs \in Seq(Trials) /\ Range(Dirs) = Trials
BY WatcherAssumption DEF Trials

LEMMA HeadOrTail ==
    ASSUME NEW S, NEW q \in Seq(S), q # <<>>
    PROVE  /\ Tail(q) \in Seq(S) /\ Head(q) \in S
           /\ \A x \in Range(q) : x = Head(q) \/ x \in Range(Tail(q))
<1>1. /\ Len(q) \in Nat \ {0} /\ DOMAIN q = 1 .. Len(q)
      /\ Tail(q) \in Seq(S) /\ Head(q) \in S
      /\ Len(Tail(q)) = Len(q) - 1 /\ Head(q) = q[1]
      /\ \A i \in 1 .. Len(Tail(q)) : Tail(q)[i] = q[i + 1]
    BY LenProperties, EmptySeq, HeadTailProperties
<1>2. DOMAIN Tail(q) = 1 .. Len(q) - 1
    BY <1>1, LenProperties
<1>3. ASSUME NEW i \in 1 .. Len(q), i # 1 PROVE q[i] \in Range(Tail(q))
  <2>1. i - 1 \in 1 .. Len(q) - 1 /\ (i - 1) + 1 = i
      BY <1>1, <1>3
  <2>2. Tail(q)[i - 1] = q[i]
      BY <1>1, <2>1
  <2>3. QED
      BY <1>2, <2>1, <2>2 DEF Range
<1>4. QED
    BY <1>1, <1>3 DEF Range

\* What the facts of a scan are made of.
LEMMA Numbers ==
    ASSUME NEW t \in Trials
    PROVE  /\ MaxSteps(t) \in Nat /\ Len(Files[t]) \in Nat
           /\ DOMAIN Files[t] = 1 .. Len(Files[t])
           /\ \A i \in DOMAIN Files[t] : Files[t][i] \in Artifact
           /\ \A n \in 0 .. Len(Files[t]) :
                 LET S == {i \in 1 .. n : Files[t][i] = "step"}
                 IN  Cardinality(S) \in 0 .. MaxSteps(t)
<1>1. Files[t] \in Seq(Artifact)
    BY WatcherAssumption
<1>2. /\ Len(Files[t]) \in Nat /\ DOMAIN Files[t] = 1 .. Len(Files[t])
      /\ \A i \in DOMAIN Files[t] : Files[t][i] \in Artifact
    BY <1>1, LenProperties
<1> DEFINE All == {i \in DOMAIN Files[t] : Files[t][i] = "step"}
<1>3. IsFiniteSet(All)
  <2>1. IsFiniteSet(1 .. Len(Files[t]))
      BY <1>2, FS_Interval
  <2>2. QED
      BY <1>2, <2>1, FS_Subset
<1>4. MaxSteps(t) \in Nat /\ MaxSteps(t) = Cardinality(All)
    BY <1>3, FS_CardinalityType DEF MaxSteps
<1>5. ASSUME NEW n \in 0 .. Len(Files[t])
      PROVE  Cardinality({i \in 1 .. n : Files[t][i] = "step"}) \in 0 .. MaxSteps(t)
  <2> DEFINE S == {i \in 1 .. n : Files[t][i] = "step"}
  <2>1. S \subseteq All
      BY <1>2
  <2> HIDE DEF S, All
  <2>2. Cardinality(S) <= Cardinality(All) /\ IsFiniteSet(S)
      BY <1>3, <2>1, FS_Subset
  <2>3. Cardinality(S) \in Nat
      BY <2>2, FS_CardinalityType
  <2>4. QED
      BY <1>4, <2>2, <2>3 DEF S
<1>6. QED
    BY <1>2, <1>4, <1>5

\* The files Harbor has written and is writing.
Writing ==
    \A t \in Trials : /\ written[t] \in 0 .. Len(Files[t])
                      /\ t \in half => written[t] < Len(Files[t])

LEMMA WritingStep ==
    ASSUME Shape, Writing, [Next]_vars
    PROVE  Writing'
<1>1. ASSUME NEW t \in Trials, HarborBegins(t) PROVE Writing'
    BY <1>1 DEF HarborBegins, Writing
<1>2. ASSUME NEW t \in Trials, HarborEnds(t) PROVE Writing'
  <2>1. /\ written' = [written EXCEPT ![t] = @ + 1] /\ half' = half \ {t}
        /\ written[t] < Len(Files[t]) /\ written[t] \in 0 .. Len(Files[t])
        /\ Len(Files[t]) \in Nat
      BY <1>2, Numbers DEF HarborEnds, Writing
  <2>2. written[t] + 1 \in 0 .. Len(Files[t])
      BY <2>1
  <2>3. \A u \in Trials : written'[u] = IF u = t THEN written[t] + 1 ELSE written[u]
      BY <2>1 DEF Shape
  <2>4. QED
      BY <2>1, <2>2, <2>3 DEF Writing
<1>3. CASE UNCHANGED files
    BY <1>3 DEF files, Writing
<1>4. QED
    BY <1>1, <1>2, <1>3
    DEF Next, Sidecar, Endpoint, Trouble, ScanNothing, ScanPost, ScanDies,
        Connect, PostRejected, Mark, SaveBegins, SaveEnds, Wake, RouterSink,
        StoreSink, Accepted, PostUnreachable, PostTimesOut, GatewayRestarts,
        StoreFails, KillSidecar, Flush, FlushLost, vars, files

LEMMA CollectedShape ==
    ASSUME Writing, clock \in Nat, NEW t \in Trials, NEW e \in Collected(t)
    PROVE  /\ e = Event(t, e.fact, e.body, e.stamp) /\ e.trial = t
           /\ e.fact \in 1 .. Failure(t) /\ e.stamp \in Nat
           /\ Failure(t) = MaxSteps(t) + 4 /\ MaxSteps(t) \in Nat
<1>1. MaxSteps(t) \in Nat /\ Steps(t) \in 0 .. MaxSteps(t)
    BY Numbers DEF Writing, Steps
<1>2. Stamp(t) \in Nat
    BY DEF Stamp
<1>3. PICK f, b, s : e = Event(t, f, b, s) /\ f \in 1 .. MaxSteps(t) + 4 /\ s \in Nat
  <2>1. CASE e \in StepEvents(t)
      BY <1>1, <2>1 DEF StepEvents
  <2>2. CASE e \in {Event(t, Tests(t), 0, 0)}
      BY <1>1, <2>2 DEF Tests
  <2>3. CASE e \in PatchEvents(t)
    <3>1. PICK b : e = Event(t, Patch(t), b, Stamp(t))
        BY <2>3 DEF PatchEvents
    <3>2. Patch(t) \in 1 .. MaxSteps(t) + 4
        BY <1>1 DEF Patch
    <3>3. QED
        BY <1>2, <3>1, <3>2
  <2>4. CASE e \in VerdictEvents(t)
    <3>1. \E b : e = Event(t, Verdict(t), b, Stamp(t))
        BY <2>4 DEF VerdictEvents
    <3>2. Verdict(t) \in 1 .. MaxSteps(t) + 4
        BY <1>1 DEF Verdict
    <3>3. QED
        BY <1>2, <3>1, <3>2
  <2>5. CASE e \in FailureEvents(t)
    <3>1. e = Event(t, Failure(t), 0, 0)
        BY <2>5 DEF FailureEvents
    <3>2. Failure(t) \in 1 .. MaxSteps(t) + 4
        BY <1>1 DEF Failure
    <3>3. QED
        BY <3>1, <3>2
  <2>6. QED
      BY <2>1, <2>2, <2>3, <2>4, <2>5 DEF Collected
<1>4. QED
    BY <1>1, <1>3 DEF Event, Failure

\* A batch holds all that is fresh: it is strictly ordered, so as many different
\* events as there are.
LEMMA BatchIsAll ==
    ASSUME Shape, Writing, clock \in Nat, NEW t \in Trials, NEW b \in Orders(Fresh(t))
    PROVE  Range(b) = Fresh(t)
<1> DEFINE S == Fresh(t)
           n == Cardinality(S)
<1>1. IsFiniteSet(S) /\ n \in Nat
    BY CollectedFinite, FS_Subset, FS_CardinalityType DEF Fresh, Shape
<1>2. \A e \in S : ~Earlier(e, e)
    BY CollectedShape DEF Fresh, Earlier
<1>3. /\ b \in [1 .. n -> S]
      /\ \A i, j \in 1 .. n : i < j => Earlier(b[i], b[j])
    BY DEF Orders
<1> HIDE DEF S, n
<1>4. ASSUME NEW i \in 1 .. n, NEW j \in 1 .. n, b[i] = b[j] PROVE i = j
  <2>1. ~(i < j) /\ ~(j < i)
      BY <1>2, <1>3, <1>4
  <2>2. QED
      BY <1>1, <2>1
<1>5. b \in Bijection(1 .. n, Range(b)) /\ Range(b) \subseteq S
    BY <1>3, <1>4 DEF Bijection, Injection, Surjection, IsInjective, Range
<1>6. Cardinality(Range(b)) = n /\ IsFiniteSet(Range(b))
  <2>1. IsFiniteSet(1 .. n) /\ Cardinality(1 .. n) = n
      BY <1>1, FS_Interval
  <2>2. QED
      BY <1>5, <2>1, FS_Bijection DEF ExistsBijection
<1>7. QED
    BY <1>1, <1>5, <1>6, FS_Subset DEF S, n

\* A step of the sidecar or the runner that leaves the clock, the store and the
\* files as they are.
LEMMA MovingFlush ==
    ASSUME Flushing, UNCHANGED <<files, clock, store>>,
           todo' \in Seq(Trials), pc' = "saving" => todo' = <<>>,
           job' \in {"job", "killed", "flush", "done"},
           job' = "done" => pc' = "off",
           clean' /\ job' = "flush" => pc' # "off",
           clean' /\ job' \in {"flush", "done"} =>
               \A t \in Trials :
                  \/ job' = "flush" /\ t \in Range(todo')
                  \/ \A e \in Collected(t) : Stored(e)
    PROVE  Flushing'
<1>1. ASSUME NEW t \in Trials, \A e \in Collected(t) : Stored(e)
      PROVE  \A e \in Collected(t)' : Stored(e)'
    BY <1>1, StillStored
<1>2. QED
    BY <1>1 DEF Flushing, Covered

LEMMA ScanFlush ==
    ASSUME IInv, Writing, Flushing, NEW t \in Trials, ScanNothing(t) \/ ScanPost(t)
    PROVE  Flushing'
<1>1. /\ pc = "scan" /\ todo # <<>> /\ t = Head(todo) /\ todo' = Tail(todo)
      /\ UNCHANGED <<files, job, store, clean, seen>>
    BY DEF ScanNothing, ScanPost, gateway, files
<1>2. /\ todo' \in Seq(Trials) /\ job # "done"
      /\ \A u \in Range(todo) : u = t \/ u \in Range(todo')
    BY <1>1, HeadOrTail DEF Flushing
<1>3. seen \subseteq store
    BY DEF IInv, SeenIsStored
<1>4. CASE ScanNothing(t)
  <2>1. \A e \in Collected(t) : Stored(e)
      BY <1>3, <1>4 DEF ScanNothing, Fresh, Stored
  <2>2. UNCHANGED <<pc, clock>>
      BY <1>4 DEF ScanNothing
  <2>3. QED
      BY <1>1, <1>2, <2>1, <2>2, MovingFlush DEF Flushing, Covered
<1>5. CASE ScanPost(t)
  <2>1. pc' = "post" /\ Range(batch') = Fresh(t)
      BY <1>5, BatchIsAll DEF ScanPost, IInv, Flushing
  <2>2. clock' \in Nat
      BY <1>5 DEF ScanPost, Tick, Flushing
  <2>3. ASSUME NEW e \in Collected(t)'
        PROVE  Stored(e)' \/ \E x \in Range(batch') : Same(x, e)
    <3>1. PICK x \in Collected(t) : Same(x, e)
        BY <1>1, SameFacts
    <3>2. CASE x \in seen
        BY <1>1, <1>3, <3>1, <3>2 DEF Stored, Same
    <3>3. CASE x \notin seen
        BY <2>1, <3>1, <3>3 DEF Fresh
    <3>4. QED
        BY <3>2, <3>3
  <2>4. ASSUME clean, job = "flush", NEW u \in Trials PROVE Covered(u)'
    <3>1. CASE u = t
        BY <1>1, <2>1, <2>3, <2>4, <3>1 DEF Covered
    <3>2. CASE u # t /\ u \in Range(todo)
        BY <1>1, <1>2, <2>4, <3>2 DEF Covered
    <3>3. CASE \A e \in Collected(u) : Stored(e)
        BY <1>1, <3>3, StillStored DEF Covered
    <3>4. QED
        BY <1>1, <2>4, <3>1, <3>2, <3>3 DEF Flushing, Covered
  <2>5. QED
      BY <1>1, <1>2, <2>1, <2>2, <2>4 DEF Flushing
<1>6. QED
    BY <1>4, <1>5

LEMMA FlushingStep ==
    ASSUME IInv, IInv', Writing, Flushing, [Next]_vars
    PROVE  Flushing'
<1>1. ASSUME NEW t \in Trials, HarborBegins(t) \/ HarborEnds(t) PROVE Flushing'
    BY <1>1 DEF Flushing, HarborBegins, HarborEnds
<1>2. ASSUME NEW t \in Trials, ScanNothing(t) \/ ScanPost(t) PROVE Flushing'
    BY <1>2, ScanFlush
<1>3. ASSUME Die, Spoil, UNCHANGED <<job, clock>>, pc # "off" PROVE Flushing'
    BY <1>3, NoTrials, SpoiltFlush DEF Flushing, Die
<1>4. ASSUME GiveUp, UNCHANGED <<job, todo, clock>>, pc # "off" PROVE Flushing'
    BY <1>4, SpoiltFlush DEF Flushing, GiveUp
<1>5. ASSUME NEW t \in Trials, ScanDies(t) PROVE Flushing'
    BY <1>3, <1>5 DEF ScanDies
<1>6. CASE Connect
    BY <1>6, RestingFlush DEF Connect
<1>7. CASE PostRejected \/ PostUnreachable
    BY <1>4, <1>7 DEF PostRejected, PostUnreachable
<1>8. CASE PostTimesOut
    BY <1>3, <1>8 DEF PostTimesOut
<1>9. CASE Mark
  <2>1. /\ pc = "mark" /\ pc' \in {"mark", "scan"}
        /\ UNCHANGED <<files, clock, store, todo, job, clean>>
      BY <1>9 DEF Mark, gateway, files
  <2>2. QED
      BY <2>1, MovingFlush DEF Flushing, Covered
<1>10. CASE SaveBegins
  <2>1. /\ pc = "scan" /\ pc' = "saving" /\ todo = <<>>
        /\ UNCHANGED <<files, clock, store, todo, job, clean>>
      BY <1>10 DEF SaveBegins, gateway, files
  <2>2. QED
      BY <2>1, MovingFlush DEF Flushing, Covered
<1>11. CASE SaveEnds
  <2>1. /\ pc = "saving" /\ todo = <<>>
        /\ UNCHANGED <<files, clock, store, todo, clean>>
        /\ \/ job = "job" /\ pc' = "sleep" /\ job' = "job"
           \/ job # "job" /\ pc' = "off" /\ job' = "done"
      BY <1>11 DEF SaveEnds, gateway, files, Flushing
  <2>2. job' = "done" => job = "flush"
      BY <2>1, <1>11 DEF IInv, Waiting, Flushing, SaveEnds
  <2>3. Range(todo) = {}
      BY <2>1, NoEvents
  <2>4. ASSUME clean, job = "flush", NEW t \in Trials
        PROVE  \A e \in Collected(t) : Stored(e)
      BY <2>1, <2>3, <2>4 DEF Flushing, Covered
  <2>5. QED
      BY <2>1, <2>2, <2>4, MovingFlush DEF Flushing
<1>12. CASE Wake
  <2>1. /\ pc = "sleep" /\ pc' = "scan" /\ todo' = Dirs
        /\ UNCHANGED <<files, clock, store, job, clean>>
      BY <1>12 DEF Wake, gateway, files
  <2>2. QED
      BY <2>1, NoTrials, MovingFlush DEF Flushing
<1>13. ASSUME NEW r \in Requests, RouterSink(r) \/ StoreSink(r) PROVE Flushing'
    BY <1>13, RestingFlush DEF RouterSink, StoreSink
<1>14. ASSUME NEW r \in Requests, Accepted(r) PROVE Flushing'
  <2>1. UNCHANGED <<files, clock, store, todo, job, clean, batch>>
      BY <1>14 DEF Accepted
  <2>2. CASE UNCHANGED pc
      BY <2>1, <2>2, RestingFlush
  <2>3. CASE r \in request /\ pc' = "mark"
    <3>1. pc = "post" /\ job # "done"
        BY <2>3 DEF IInv, Waiting, Flushing
    <3>2. Range(batch) \subseteq store
        BY <2>1, <2>3 DEF IInv, Waiting
    <3>3. ASSUME clean, job = "flush", NEW t \in Trials
          PROVE  \/ t \in Range(todo)
                 \/ \A e \in Collected(t) : Stored(e)
        BY <3>2, <3>3 DEF Flushing, Covered, Stored, Same
    <3>4. QED
        BY <2>1, <2>3, <3>1, <3>3, MovingFlush DEF Flushing
  <2>4. QED
      BY <1>14, <2>2, <2>3 DEF Accepted
<1>15. CASE GatewayRestarts
  <2>1. CASE request = {}
      BY <1>15, <2>1, RestingFlush DEF GatewayRestarts
  <2>2. CASE request # {}
    <3>1. pc = "post"
        BY <2>2 DEF IInv, Waiting
    <3>2. /\ Spoil /\ UNCHANGED <<job, clock>> /\ pc' = "off" /\ todo' = <<>>
        BY <1>15, <2>2 DEF GatewayRestarts
    <3>3. QED
        BY <3>1, <3>2, NoTrials, SpoiltFlush DEF Flushing
  <2>3. QED
      BY <2>1, <2>2
<1>16. ASSUME NEW r \in Requests, StoreFails(r) PROVE Flushing'
  <2>1. UNCHANGED <<files, job, todo, store, clock>>
      BY <1>16 DEF StoreFails
  <2>2. CASE r \in request /\ GiveUp
    <3>1. pc = "post"
        BY <2>2 DEF IInv, Waiting
    <3>2. QED
        BY <1>4, <2>1, <2>2, <3>1
  <2>3. CASE UNCHANGED <<pc, batch, request, clean>>
      BY <2>1, <2>3, RestingFlush
  <2>4. QED
      BY <1>16, <2>2, <2>3 DEF StoreFails
<1>17. CASE KillSidecar
    BY <1>17, NoTrials, MovingFlush DEF KillSidecar, Die, Flushing, files
<1>18. CASE Flush
  <2>1. /\ job' = "flush" /\ pc' = "scan" /\ todo' = Dirs
        /\ UNCHANGED <<files, clock, store, clean>>
      BY <1>18 DEF Flush, gateway, files
  <2>2. QED
      BY <2>1, NoTrials, MovingFlush
<1>19. CASE FlushLost
    BY <1>19, MovingFlush DEF FlushLost, Flushing, gateway, files
<1>20. CASE UNCHANGED vars
    BY <1>20, RestingFlush DEF vars, files
<1>21. QED
    BY <1>1, <1>2, <1>5, <1>6, <1>7, <1>8, <1>9, <1>10, <1>11, <1>12, <1>13,
       <1>14, <1>15, <1>16, <1>17, <1>18, <1>19, <1>20
    DEF Next, Sidecar, Endpoint, Trouble

LEMMA InitFlushing == Init => Writing /\ Flushing
<1>1. Init => Writing
    BY Numbers DEF Init, Writing
<1>2. Init => Flushing
    BY NoTrials DEF Init, Flushing
<1>3. QED
    BY <1>1, <1>2

\* A flush whose posts were all accepted (run_v4_matrix.sh after the job) leaves
\* no fact of any trial's files behind, wherever the sidecar was killed before.
THEOREM FlushIsComplete == Spec => []FlushComplete
<1>1. IInv /\ IInv' /\ Writing /\ Flushing /\ [Next]_vars => Writing' /\ Flushing'
    BY WritingStep, FlushingStep DEF IInv
<1>2. Spec => [](Writing /\ Flushing)
    BY <1>1, InitFlushing, Inductive, PTL DEF Spec
<1>3. Flushing => FlushComplete
    BY DEF Flushing, FlushComplete, Covered
<1>4. QED
    BY <1>2, <1>3, PTL

------------------------------------------------------------------------------
(* The router gets no fact under two ids *)

\* The one event of a fact of a trial whose result.json is written at its end.
Final(t) == "early" \notin Range(Files[t])

Fact(t, f) ==
    Event(t, f, IF f = Verdict(t) /\ "ctrf" \in Range(Files[t]) THEN 1 ELSE 0, 0)

Known(e) ==
    /\ e.trial \in Trials /\ e.fact \in Nat \ {0} /\ e.stamp \in Nat
    /\ Final(e.trial) => e = Fact(e.trial, e.fact)
    /\ e.fact <= MaxSteps(e.trial) => e = Event(e.trial, e.fact, 0, 0)

Batches == {batch} \cup {r.batch : r \in Requests}

Legit ==
    /\ IsSeq(router) /\ IsInjective(router)
    /\ \A e \in Range(router) : Known(e)
    /\ \A b \in Batches : \A e \in Range(b) : Known(e)

\* A final result is the last file: all are there and none is being written.
LEMMA FinalIsLast ==
    ASSUME Writing, NEW t \in Trials, Result(t) = "final"
    PROVE  /\ Torn(t) = "none" /\ Have(t) = Range(Files[t])
           /\ Steps(t) = MaxSteps(t) /\ Stamp(t) = 0
<1>1. /\ written[t] \in 0 .. Len(Files[t]) /\ Len(Files[t]) \in Nat
      /\ DOMAIN Files[t] = 1 .. Len(Files[t])
    BY Numbers DEF Writing
<1>2. PICK i \in 1 .. written[t] : Files[t][i] = "result"
    BY DEF Result, Have
<1>3. i = Len(Files[t])
  <2>1. i \in 1 .. Len(Files[t]) /\ Len(Files[t]) \in 1 .. Len(Files[t])
      BY <1>1
  <2>2. ~(i < Len(Files[t]))
      BY <1>1, <1>2, <2>1, HarborOrder
  <2>3. QED
      BY <2>1, <2>2
<1>4. written[t] = Len(Files[t]) /\ t \notin half
    BY <1>1, <1>2, <1>3 DEF Writing
<1>5. Have(t) = Range(Files[t])
    BY <1>1, <1>4 DEF Have, Range
<1>6. Steps(t) = MaxSteps(t)
    BY <1>1, <1>4 DEF Steps, MaxSteps
<1>7. QED
    BY <1>4, <1>5, <1>6 DEF Torn, Stamp

LEMMA CollectedKnown ==
    ASSUME Writing, clock \in Nat, NEW t \in Trials, NEW e \in Collected(t)
    PROVE  Known(e)
<1>1. /\ e = Event(t, e.fact, e.body, e.stamp) /\ e.trial = t
      /\ e.fact \in Nat \ {0} /\ e.stamp \in Nat /\ MaxSteps(t) \in Nat
    BY CollectedShape DEF Event
<1>2. Steps(t) \in 0 .. MaxSteps(t)
    BY Numbers DEF Writing, Steps
<1>3. /\ Patch(t) = MaxSteps(t) + 1 /\ Tests(t) = MaxSteps(t) + 2
      /\ Verdict(t) = MaxSteps(t) + 3 /\ Failure(t) = MaxSteps(t) + 4
    BY DEF Patch, Tests, Verdict, Failure
<1>4. CASE e \in StepEvents(t)
  <2>1. PICK i \in 1 .. Steps(t) : e = Event(t, i, 0, 0)
      BY <1>4 DEF StepEvents
  <2>2. e.fact = i /\ i # Verdict(t)
      BY <1>1, <1>2, <1>3, <2>1 DEF Event
  <2>3. QED
      BY <1>1, <2>1, <2>2 DEF Known, Fact
<1>5. CASE e = Event(t, Tests(t), 0, 0)
  <2>1. e.fact = Tests(t) /\ Tests(t) # Verdict(t) /\ ~(e.fact <= MaxSteps(t))
      BY <1>1, <1>3, <1>5 DEF Event
  <2>2. QED
      BY <1>1, <1>5, <2>1 DEF Known, Fact
<1>6. CASE /\ Result(t) # "none"
           /\ e \in PatchEvents(t) \cup VerdictEvents(t) \cup FailureEvents(t)
  <2>1. ~(e.fact <= MaxSteps(t))
      BY <1>1, <1>3, <1>6
      DEF PatchEvents, VerdictEvents, FailureEvents, Event
  <2>2. ASSUME Final(t) PROVE e = Fact(t, e.fact)
    <3>1. "early" \notin Have(t)
        BY <2>2, Numbers DEF Final, Have, Writing, Range
    <3>2. Result(t) = "final"
        BY <1>6, <3>1 DEF Result
    <3>3. /\ Torn(t) = "none" /\ Have(t) = Range(Files[t]) /\ Stamp(t) = 0
        BY <3>2, FinalIsLast
    <3>4. CASE e \in PatchEvents(t)
      <4>1. e = Event(t, Patch(t), 0, 0)
          BY <3>3, <3>4 DEF PatchEvents
      <4>2. e.fact = Patch(t) /\ Patch(t) # Verdict(t)
          BY <1>1, <1>3, <4>1 DEF Event
      <4>3. QED
          BY <4>1, <4>2 DEF Fact
    <3>5. CASE e \in VerdictEvents(t)
      <4> DEFINE n == IF "ctrf" \in Range(Files[t]) THEN 1 ELSE 0
      <4>1. e = Event(t, Verdict(t), n + 0, 0)
          BY <3>3, <3>5 DEF VerdictEvents
      <4>2. n + 0 = n /\ e.fact = Verdict(t)
          BY <4>1 DEF Event
      <4>3. QED
          BY <4>1, <4>2 DEF Fact
    <3>6. CASE e \in FailureEvents(t)
      <4>1. e = Event(t, Failure(t), 0, 0)
          BY <3>6 DEF FailureEvents
      <4>2. e.fact = Failure(t) /\ Failure(t) # Verdict(t)
          BY <1>1, <1>3, <4>1 DEF Event
      <4>3. QED
          BY <4>1, <4>2 DEF Fact
    <3>7. QED
        BY <1>6, <3>4, <3>5, <3>6
  <2>3. QED
      BY <1>1, <2>1, <2>2 DEF Known
<1>7. QED
    BY <1>4, <1>5, <1>6 DEF Collected

\* A batch that is about to be marked, posted or delivered was so before, is
\* what is left of one, or comes from a scan.
LEMMA BatchesMove ==
    ASSUME IInv, Writing, clock \in Nat, [Next]_vars,
           NEW b \in Batches'
    PROVE  \/ b \in Batches \/ b = <<>>
           \/ \E t \in Trials : ScanPost(t) /\ b = batch' /\ b \in Orders(Fresh(t))
           \/ Mark /\ b = batch' /\ batch # <<>> /\ b = Tail(batch)
<1>1. ASSUME NEW r \in Requests, RouterSink(r) PROVE b \in Batches
  <2>1. [r EXCEPT !.sink = "store"].batch = r.batch
      BY ToTheStore DEF IInv, Waiting
  <2>2. Replace(r, [r EXCEPT !.sink = "store"]) /\ UNCHANGED batch
      BY <1>1 DEF RouterSink
  <2>3. QED
      BY <2>1, <2>2 DEF Batches, Requests, Replace
<1>2. ASSUME NEW r \in Requests, StoreSink(r) PROVE b \in Batches
  <2>1. [r EXCEPT !.sink = "router", !.next = @ + 1].batch = r.batch
      BY <1>2, OneFurther DEF IInv, Waiting, StoreSink
  <2>2. Replace(r, [r EXCEPT !.sink = "router", !.next = @ + 1]) /\ UNCHANGED batch
      BY <1>2 DEF StoreSink
  <2>3. QED
      BY <2>1, <2>2 DEF Batches, Requests, Replace
<1>3. ASSUME Requests' \subseteq Requests, batch' \in {batch, <<>>}
      PROVE  b \in Batches \/ b = <<>>
    BY <1>3 DEF Batches
<1>4. ASSUME Die PROVE b \in Batches \/ b = <<>>
    BY <1>4 DEF Die, Batches, Requests
<1>5. ASSUME GiveUp, orphans' \subseteq orphans PROVE b \in Batches \/ b = <<>>
    BY <1>5 DEF GiveUp, Batches, Requests
<1>6. CASE Connect
    BY <1>6 DEF Connect, Batches, Requests
<1>7. ASSUME NEW t \in Trials, ScanPost(t)
      PROVE  b \in Batches \/ (b = batch' /\ b \in Orders(Fresh(t)))
  <2>1. UNCHANGED <<request, orphans>> /\ batch' \in Orders(Fresh(t))
      BY <1>7 DEF ScanPost, gateway
  <2>2. CASE b = batch'
      BY <2>1, <2>2
  <2>3. CASE b # batch'
    <3>1. Requests' = Requests
        BY <2>1 DEF Requests
    <3>2. \E r \in Requests' : b = r.batch
        BY <2>3 DEF Batches
    <3>3. QED
        BY <3>1, <3>2 DEF Batches
  <2>4. QED
      BY <2>2, <2>3
<1>8. CASE Mark
    BY <1>8 DEF Mark, Batches, Requests, gateway
<1>9. ASSUME NEW r \in Requests, StoreFails(r) PROVE b \in Batches \/ b = <<>>
    BY <1>5, <1>9 DEF StoreFails, Batches, Requests
<1>10. ASSUME UNCHANGED <<request, orphans, batch>> PROVE b \in Batches
    BY <1>10 DEF Batches, Requests
<1>11. CASE GatewayRestarts
    BY <1>11 DEF GatewayRestarts, Batches, Requests
<1>12. ASSUME NEW r \in Requests, Accepted(r) PROVE b \in Batches
    BY <1>12 DEF Accepted, Batches, Requests
<1>13. ASSUME NEW t \in Trials, HarborBegins(t) \/ HarborEnds(t) \/ ScanNothing(t)
       PROVE  b \in Batches
    BY <1>10, <1>13 DEF HarborBegins, HarborEnds, ScanNothing, gateway
<1>14. CASE SaveBegins \/ SaveEnds \/ Wake \/ Flush \/ FlushLost
    BY <1>10, <1>14 DEF SaveBegins, SaveEnds, Wake, Flush, FlushLost, gateway
<1>15. CASE UNCHANGED vars
    BY <1>10, <1>15 DEF vars
<1>16. CASE PostRejected \/ PostUnreachable
    BY <1>5, <1>16 DEF PostRejected, PostUnreachable
<1>17. CASE PostTimesOut \/ KillSidecar \/ \E t \in Trials : ScanDies(t)
    BY <1>4, <1>17 DEF PostTimesOut, KillSidecar, ScanDies
<1>18. QED
    BY <1>1, <1>2, <1>6, <1>7, <1>8, <1>9, <1>11, <1>12, <1>13, <1>14, <1>15,
       <1>16, <1>17
    DEF Next, Sidecar, Endpoint, Trouble

LEMMA RouterMoves ==
    ASSUME IInv, [Next]_vars
    PROVE  \/ UNCHANGED router
           \/ router' = <<>> /\ GatewayRestarts
           \/ \E r \in Requests : RouterSink(r)
BY DEF Next, Sidecar, Endpoint, Trouble, HarborBegins, HarborEnds, ScanNothing,
       ScanPost, ScanDies, Die, GiveUp, Connect, PostRejected, Mark, SaveBegins,
       SaveEnds, Wake, StoreSink, Accepted, PostUnreachable, PostTimesOut,
       GatewayRestarts, StoreFails, KillSidecar, Flush, FlushLost, vars, gateway

LEMMA Projected ==
    ASSUME IsSeq(router), IsInjective(router), NEW e, Project(e)
    PROVE  /\ IsSeq(router') /\ IsInjective(router')
           /\ Range(router') = Range(router) \cup {e}
           /\ Len(router') \in Nat /\ DOMAIN router' = 1 .. Len(router')
           /\ Len(router) \in Nat /\ DOMAIN router = 1 .. Len(router)
           /\ \/ router' = router
              \/ /\ e \notin Range(router) /\ Len(router') = Len(router) + 1
                 /\ router'[Len(router) + 1] = e
                 /\ \A i \in 1 .. Len(router) : router'[i] = router[i]
<1> DEFINE n == Len(router)
<1>1. /\ n \in Nat /\ DOMAIN router = 1 .. n
      /\ \A i \in 1 .. n : router[i] \in Range(router)
      /\ \A x \in Range(router) : \E i \in 1 .. n : x = router[i]
    BY InRange
<1>2. CASE Contains(router, e)
  <2>1. router' = router
      BY <1>2 DEF Project
  <2>2. e \in Range(router)
      BY <1>1, <1>2 DEF Contains
  <2>3. QED
      BY <1>1, <2>1, <2>2
<1>3. CASE ~Contains(router, e)
  <2>1. router' = Append(router, e)
      BY <1>3 DEF Project
  <2>2. e \notin Range(router)
      BY <1>1, <1>3 DEF Contains
  <2>3. router \in Seq(Range(router) \cup {e})
    <3>1. router \in [1 .. n -> Range(router) \cup {e}]
        BY <1>1, LenProperties DEF IsSeq
    <3>2. QED
        BY <1>1, <3>1
  <2>4. /\ router' \in Seq(Range(router) \cup {e})
        /\ Len(router') = n + 1 /\ router'[n + 1] = e
        /\ \A i \in 1 .. n : router'[i] = router[i]
      BY <2>1, <2>3, AppendProperties
  <2>5. IsSeq(router') /\ DOMAIN router' = 1 .. n + 1
      BY <2>4, SeqOverRange, LenProperties
  <2>6. Range(router') = Range(router) \cup {e}
    <3>1. \A x \in Range(router') : x \in Range(router) \cup {e}
      <4>1. ASSUME NEW i \in 1 .. n + 1 PROVE router'[i] \in Range(router) \cup {e}
          BY <1>1, <2>4, <4>1
      <4>2. QED
          BY <2>5, <4>1 DEF Range
    <3>2. \A x \in Range(router) : x \in Range(router')
      <4>1. ASSUME NEW i \in 1 .. n PROVE router[i] \in Range(router')
        <5>1. i \in 1 .. n + 1 /\ router'[i] = router[i]
            BY <1>1, <2>4
        <5>2. QED
            BY <2>5, <5>1 DEF Range
      <4>2. QED
          BY <1>1, <4>1
    <3>3. e \in Range(router')
      <4>1. n + 1 \in 1 .. n + 1
          BY <1>1
      <4>2. QED
          BY <2>4, <2>5, <4>1 DEF Range
    <3>4. QED
        BY <3>1, <3>2, <3>3
  <2>7. IsInjective(router')
    <3>1. ASSUME NEW i \in 1 .. n + 1, NEW j \in 1 .. n + 1,
                 router'[i] = router'[j]
          PROVE  i = j
      <4>1. CASE i \in 1 .. n /\ j \in 1 .. n
          BY <1>1, <2>4, <3>1, <4>1 DEF IsInjective
      <4>2. CASE i = n + 1 /\ j \in 1 .. n
          BY <1>1, <2>2, <2>4, <3>1, <4>2
      <4>3. CASE i \in 1 .. n /\ j = n + 1
          BY <1>1, <2>2, <2>4, <3>1, <4>3
      <4>4. QED
          BY <1>1, <4>1, <4>2, <4>3
    <3>2. QED
        BY <2>5, <3>1 DEF IsInjective
  <2>8. QED
      BY <1>1, <2>2, <2>4, <2>5, <2>6, <2>7
<1>4. QED
    BY <1>2, <1>3

LEMMA LegitStep ==
    ASSUME IInv, Writing, Flushing, Legit, [Next]_vars
    PROVE  Legit'
<1>1. ASSUME NEW b \in Batches', NEW e \in Range(b) PROVE Known(e)
  <2>1. clock \in Nat
      BY DEF Flushing
  <2>2. CASE b \in Batches
      BY <1>1, <2>2 DEF Legit
  <2>3. CASE b = <<>>
      BY <1>1, <2>3, NoEvents
  <2>4. ASSUME NEW t \in Trials, b \in Orders(Fresh(t)) PROVE Known(e)
    <3>1. e \in Fresh(t)
        BY <1>1, <2>1, <2>4, BatchIsAll DEF IInv
    <3>2. QED
        BY <2>1, <3>1, CollectedKnown DEF Fresh
  <2>5. CASE b = Tail(batch) /\ batch # <<>>
    <3>1. e \in Range(batch)
        BY <1>1, <2>5, Split DEF IInv, Shape
    <3>2. QED
        BY <3>1 DEF Legit, Batches
  <2>6. QED
      BY <2>1, <2>2, <2>3, <2>4, <2>5, BatchesMove
<1>2. IsSeq(router') /\ IsInjective(router') /\ \A e \in Range(router') : Known(e)
  <2>1. CASE UNCHANGED router
      BY <2>1 DEF Legit
  <2>2. CASE router' = <<>>
      BY <2>2, NoEvents DEF IsInjective
  <2>3. ASSUME NEW r \in Requests, RouterSink(r)
        PROVE  IsSeq(router') /\ IsInjective(router') /\ \A e \in Range(router') : Known(e)
    <3>1. Project(r.batch[r.next]) /\ r.next <= Len(r.batch) /\ Passed(r)
        BY <2>3 DEF RouterSink, IInv, Waiting
    <3>2. r.batch[r.next] \in Range(r.batch)
        BY <3>1, InRange DEF Passed
    <3>3. Known(r.batch[r.next])
        BY <3>2 DEF Legit, Batches
    <3>4. QED
        BY <3>1, <3>3, Projected DEF Legit
  <2>4. QED
      BY <2>1, <2>2, <2>3, RouterMoves
<1>3. QED
    BY <1>1, <1>2 DEF Legit, IsSeq

LEMMA InitLegit == Init => Legit
BY NoEvents DEF Init, Legit, Batches, Requests, IsInjective

\* The files, the flush and what the router has got, for the theorems below.
LEMMA SoFar == Spec => [](IInv /\ Writing /\ Flushing /\ Legit)
<1>1. /\ IInv /\ IInv' /\ Writing /\ Flushing /\ Legit /\ [Next]_vars
      => Writing' /\ Flushing' /\ Legit'
    BY WritingStep, FlushingStep, LegitStep DEF IInv
<1>2. QED
    BY <1>1, InitFlushing, InitLegit, Inductive, PTL DEF Spec

\* Scanning again (scan_and_emit every few seconds) posts no fact of a trial
\* whose result.json is written once under a second id, whatever is read while
\* half-written and whatever is posted twice.
THEOREM FactsComeOnce == Spec => []FactOnceIfFinal
<1>1. Legit => FactOnceIfFinal
  <2> SUFFICES ASSUME Legit, NEW i \in DOMAIN router, NEW j \in DOMAIN router,
                      i < j, router[i].trial = router[j].trial,
                      Final(router[i].trial), router[i].fact = router[j].fact
               PROVE  FALSE
      BY DEF FactOnceIfFinal, Final
  <2>1. router[i] \in Range(router) /\ router[j] \in Range(router)
      BY DEF Range
  <2>2. router[i] = router[j]
      BY <2>1 DEF Legit, Known
  <2>3. i = j /\ i \in Int
      BY <2>2, InRange DEF Legit, IsInjective
  <2>4. QED
      BY <2>3
<1>2. QED
    BY <1>1, SoFar, PTL

------------------------------------------------------------------------------
(* The router gets the steps of a trial in their order *)

\* The steps of its trial that come before an event.
Prior(e) ==
    {Event(e.trial, m, 0, 0) : m \in {k \in 1 .. MaxSteps(e.trial) : k < e.fact}}

\* Every event comes after the steps before it, or S has them already.
Follows(q, S) ==
    \A i \in DOMAIN q : \A p \in Prior(q[i]) :
        p \in S \/ \E j \in DOMAIN q : j < i /\ q[j] = p

\* What a request has passed, and the event it is about to store, the router has.
Reached(r) ==
    \A i \in 1 .. Len(r.batch) :
        i < r.next \/ (i = r.next /\ r.sink = "store")
        => r.batch[i] \in Range(router)

Ordered ==
    /\ store \subseteq Range(router)
    /\ Follows(router, {})
    /\ pc = "post" => Follows(batch, Range(router))
    /\ \A r \in Requests : Follows(r.batch, Range(router)) /\ Reached(r)

InOrder == restarts \in Nat /\ (restarts = 0 => Ordered)

LEMMA StillFollows ==
    ASSUME NEW q, NEW S, NEW T, S \subseteq T, Follows(q, S)
    PROVE  Follows(q, T)
BY DEF Follows

\* Harbor writes a trial's other artifacts when its agent has made all steps.
LEMMA AllSteps ==
    ASSUME Writing, NEW t \in Trials, NEW i \in DOMAIN Files[t],
           Files[t][i] \in {"patch", "ctrf", "reward"},
           i <= written[t] \/ (i = written[t] + 1 /\ t \in half)
    PROVE  Steps(t) = MaxSteps(t) /\ Torn(t) # "step"
<1>1. /\ written[t] \in 0 .. Len(Files[t]) /\ Len(Files[t]) \in Nat
      /\ DOMAIN Files[t] = 1 .. Len(Files[t])
      /\ t \in half => written[t] < Len(Files[t])
    BY Numbers DEF Writing
<1>2. \A j \in DOMAIN Files[t] : Files[t][j] = "step" => j < i
    BY <1>1, HarborOrder
<1>3. \A j \in DOMAIN Files[t] : Files[t][j] = "step" => j \in 1 .. written[t]
    BY <1>1, <1>2
<1>4. {j \in 1 .. written[t] : Files[t][j] = "step"}
        = {j \in DOMAIN Files[t] : Files[t][j] = "step"}
    BY <1>1, <1>3
<1>5. Torn(t) # "step"
  <2>1. ASSUME t \in half PROVE Files[t][written[t] + 1] # "step"
    <3>1. written[t] + 1 \in DOMAIN Files[t] /\ written[t] + 1 \notin 1 .. written[t]
        BY <1>1, <2>1
    <3>2. QED
        BY <1>3, <3>1
  <2>2. QED
      BY <2>1 DEF Torn
<1>6. QED
    BY <1>4, <1>5 DEF Steps, MaxSteps

\* A scan that reads an event reads the steps before it.
LEMMA PriorCollected ==
    ASSUME Writing, clock \in Nat, NEW t \in Trials, NEW e \in Collected(t),
           NEW p \in Prior(e)
    PROVE  p \in Collected(t)
<1>1. e.trial = t /\ MaxSteps(t) \in Nat
    BY CollectedShape
<1>2. PICK m \in 1 .. MaxSteps(t) : p = Event(t, m, 0, 0) /\ m < e.fact
    BY <1>1 DEF Prior
<1>3. ASSUME Steps(t) = MaxSteps(t), Torn(t) # "step" PROVE p \in Collected(t)
    BY <1>2, <1>3 DEF Collected, StepEvents
<1>4. CASE e \in StepEvents(t)
  <2>1. PICK i \in 1 .. Steps(t) : e = Event(t, i, 0, 0)
      BY <1>4 DEF StepEvents
  <2>2. Steps(t) \in Nat /\ e.fact = i /\ Torn(t) # "step"
      BY <1>1, <1>4, <2>1, Numbers DEF Steps, StepEvents, Writing, Event
  <2>3. m \in 1 .. Steps(t)
      BY <1>1, <1>2, <2>1, <2>2
  <2>4. QED
      BY <1>2, <2>2, <2>3 DEF Collected, StepEvents
<1>5. ASSUME NEW a \in {"patch", "ctrf", "reward"}, a \in Have(t) \/ Torn(t) = a
      PROVE  p \in Collected(t)
  <2>1. /\ written[t] \in 0 .. Len(Files[t]) /\ Len(Files[t]) \in Nat
        /\ DOMAIN Files[t] = 1 .. Len(Files[t])
        /\ t \in half => written[t] < Len(Files[t])
      BY Numbers DEF Writing
  <2>2. CASE a \in Have(t)
    <3>1. PICK i \in 1 .. written[t] : Files[t][i] = a
        BY <2>2 DEF Have
    <3>2. i \in DOMAIN Files[t] /\ i <= written[t]
        BY <2>1
    <3>3. QED
        BY <1>3, <1>5, <3>1, <3>2, AllSteps
  <2>3. CASE Torn(t) = a
    <3>1. t \in half /\ Files[t][written[t] + 1] = a
        BY <1>5, <2>3 DEF Torn
    <3>2. written[t] + 1 \in DOMAIN Files[t]
        BY <2>1, <3>1
    <3>3. QED
        BY <1>3, <1>5, <3>1, <3>2, AllSteps
  <2>4. QED
      BY <1>5, <2>2, <2>3
<1>6. CASE "ctrf" \in Have(t)
    BY <1>5, <1>6
<1>7. CASE e \in PatchEvents(t)
    BY <1>5, <1>7 DEF PatchEvents
<1>8. CASE e \in VerdictEvents(t)
    BY <1>5, <1>8 DEF VerdictEvents, HasReward
<1>9. CASE e \in FailureEvents(t)
    BY <1>3, <1>9, FinalIsLast DEF FailureEvents
<1>10. QED
    BY <1>4, <1>6, <1>7, <1>8, <1>9 DEF Collected

\* So a batch has the steps in order, except what was stored before.
LEMMA FreshFollows ==
    ASSUME IInv, Writing, clock \in Nat, store \subseteq Range(router),
           NEW t \in Trials, NEW q \in Orders(Fresh(t))
    PROVE  Follows(q, Range(router))
<1>1. Range(q) = Fresh(t) /\ IsSeq(q)
    BY BatchIsAll, BatchIsSeq DEF IInv, Shape
<1>2. /\ DOMAIN q = 1 .. Len(q) /\ Len(q) \in Nat
      /\ \A i, j \in DOMAIN q : i < j => Earlier(q[i], q[j])
    BY <1>1, InRange DEF Orders
<1>3. SUFFICES ASSUME NEW i \in DOMAIN q, NEW p \in Prior(q[i]), p \notin Range(router)
               PROVE  \E j \in DOMAIN q : j < i /\ q[j] = p
    BY DEF Follows
<1>4. q[i] \in Collected(t) /\ q[i].stamp \in Nat /\ q[i].fact \in Nat
  <2>1. q[i] \in Fresh(t)
      BY <1>1 DEF Range
  <2>2. q[i] \in Collected(t)
      BY <2>1 DEF Fresh
  <2>3. QED
      BY <2>2, CollectedShape
<1>5. PICK m \in Nat : p = Event(q[i].trial, m, 0, 0) /\ m < q[i].fact
    BY DEF Prior
<1>6. p \in Fresh(t)
    BY <1>3, <1>4, PriorCollected DEF Fresh, IInv, SeenIsStored
<1>7. PICK j \in DOMAIN q : q[j] = p
    BY <1>1, <1>6 DEF Range
<1>8. q[j].fact = m /\ q[j].stamp = 0
    BY <1>5, <1>7 DEF Event
<1>9. j # i /\ ~Earlier(q[i], q[j])
    BY <1>4, <1>5, <1>8 DEF Earlier
<1>10. j < i
    BY <1>2, <1>9
<1>11. QED
    BY <1>7, <1>10

\* The event the router gets next comes after its steps.
LEMMA NextFollows ==
    ASSUME IInv, NEW r \in Requests, r.next <= Len(r.batch),
           Follows(r.batch, Range(router)), Reached(r)
    PROVE  Prior(r.batch[r.next]) \subseteq Range(router)
<1>1. /\ r.next \in 1 .. Len(r.batch) /\ Len(r.batch) \in Nat
      /\ DOMAIN r.batch = 1 .. Len(r.batch)
    BY InRange DEF IInv, Waiting, Passed
<1>2. QED
    BY <1>1 DEF Follows, Reached

LEMMA RouterFollows ==
    ASSUME IsSeq(router), IsInjective(router), Follows(router, {}),
           NEW e, Prior(e) \subseteq Range(router), Project(e)
    PROVE  Follows(router', {})
<1> DEFINE n == Len(router)
<1>1. CASE router' = router
    BY <1>1
<1>2. CASE /\ Len(router') = n + 1 /\ router'[n + 1] = e
           /\ \A i \in 1 .. n : router'[i] = router[i]
  <2>1. DOMAIN router' = 1 .. n + 1 /\ DOMAIN router = 1 .. n /\ n \in Nat
      BY <1>2, Projected
  <2> SUFFICES ASSUME NEW i \in 1 .. n + 1, NEW p \in Prior(router'[i])
               PROVE  \E j \in 1 .. n + 1 : j < i /\ router'[j] = p
      BY <2>1 DEF Follows
  <2>2. CASE i = n + 1
    <3>1. p \in Range(router)
        BY <1>2, <2>2
    <3>2. PICK j \in 1 .. n : router[j] = p
        BY <2>1, <3>1 DEF Range
    <3>3. QED
        BY <1>2, <2>1, <2>2, <3>2
  <2>3. CASE i \in 1 .. n
    <3>1. p \in Prior(router[i])
        BY <1>2, <2>3
    <3>2. PICK j \in 1 .. n : j < i /\ router[j] = p
        BY <2>1, <2>3, <3>1 DEF Follows
    <3>3. j \in 1 .. n + 1 /\ router'[j] = p
        BY <1>2, <2>1, <3>2
    <3>4. QED
        BY <3>2, <3>3
  <2>4. QED
      BY <2>1, <2>2, <2>3
<1>3. QED
    BY <1>1, <1>2, Projected

\* Of a request of the next state: it has followed and reached as it must.
Orderly(r) == Follows(r.batch, Range(router)) /\ Reached(r)

LEMMA StillOrderly ==
    ASSUME NEW r, Orderly(r), Range(router) \subseteq Range(router)'
    PROVE  Orderly(r)'
<1>1. Follows(r.batch, Range(router)')
    BY StillFollows DEF Orderly
<1>2. QED
    BY <1>1 DEF Orderly, Follows, Prior, Reached

LEMMA SinkOrder ==
    ASSUME IInv, Legit, Ordered, NEW r \in Requests, RouterSink(r) \/ StoreSink(r)
    PROVE  Ordered'
<1> DEFINE e == r.batch[r.next]
<1>1. /\ Passed(r) /\ Orderly(r) /\ r.next <= Len(r.batch) /\ r.next \in Nat
      /\ UNCHANGED <<pc, batch>>
    BY DEF IInv, Waiting, Ordered, Orderly, RouterSink, StoreSink, Passed
<1>2. PICK s : Replace(r, s) /\ Orderly(s)' /\ Range(router) \subseteq Range(router)'
               /\ store' \subseteq Range(router)' /\ Follows(router', {})
  <2>1. CASE RouterSink(r)
    <3> DEFINE s == [r EXCEPT !.sink = "store"]
    <3>1. Replace(r, s) /\ Project(e) /\ UNCHANGED store
        BY <2>1 DEF RouterSink
    <3>2. Range(router)' = Range(router) \cup {e}
        BY <3>1, Projected DEF Legit, Range
    <3>3. Follows(router', {})
        BY <1>1, <3>1, NextFollows, RouterFollows DEF Legit, Ordered, Orderly
    <3>4. s.batch = r.batch /\ s.next = r.next
      <4>1. PICK b, n, k : r = [batch |-> b, next |-> n, sink |-> k]
          BY <1>1 DEF Passed
      <4>2. QED
          BY <4>1
    <3>5. Reached(s)'
      <4> HIDE DEF s
      <4>1. ASSUME NEW i \in 1 .. Len(r.batch), i < r.next \/ i = r.next
            PROVE  r.batch[i] \in Range(router)'
          BY <1>1, <3>2, <4>1 DEF Orderly, Reached
      <4>2. QED
          BY <3>4, <4>1 DEF Reached
    <3>6. Orderly(s)'
      <4> HIDE DEF s
      <4>1. Follows(s.batch, Range(router)')
          BY <1>1, <3>2, <3>4, StillFollows DEF Orderly
      <4>2. QED
          BY <3>5, <4>1 DEF Orderly, Follows, Prior
    <3> HIDE DEF s
    <3>7. QED
        BY <3>1, <3>2, <3>3, <3>6 DEF Ordered
  <2>2. CASE StoreSink(r)
    <3> DEFINE s == [r EXCEPT !.sink = "router", !.next = @ + 1]
    <3>1. Replace(r, s) /\ UNCHANGED router /\ store' = store \cup {e}
          /\ r.sink = "store"
        BY <2>2 DEF StoreSink
    <3>2. r.next \in 1 .. Len(r.batch)
        BY <1>1, InRange DEF Passed
    <3>3. e \in Range(router)
        BY <1>1, <3>1, <3>2 DEF Orderly, Reached
    <3>4. s.batch = r.batch /\ s.next = r.next + 1 /\ s.sink = "router"
      <4>1. PICK b, n, k : r = [batch |-> b, next |-> n, sink |-> k]
          BY <1>1 DEF Passed
      <4>2. QED
          BY <4>1
    <3>5. Reached(s)
      <4> HIDE DEF s
      <4>1. ASSUME NEW i \in 1 .. Len(r.batch), i < r.next + 1
            PROVE  r.batch[i] \in Range(router)
        <5>1. i < r.next \/ i = r.next
            BY <1>1, <4>1
        <5>2. QED
            BY <1>1, <3>1, <5>1 DEF Orderly, Reached
      <4>2. QED
          BY <3>4, <4>1 DEF Reached
    <3> HIDE DEF s
    <3>6. Orderly(s)
        BY <1>1, <3>4, <3>5 DEF Orderly
    <3>7. Range(router)' = Range(router) /\ Follows(router', {})
        BY <3>1 DEF Ordered, Range
    <3>8. QED
        BY <3>1, <3>3, <3>6, <3>7, StillOrderly DEF Ordered
  <2>3. QED
      BY <2>1, <2>2
<1>3. ASSUME NEW x \in Requests' PROVE Orderly(x)'
  <2>1. x \in Requests \/ x = s
      BY <1>2, <1>3 DEF Replace, Requests
  <2>2. QED
      BY <1>2, <2>1, StillOrderly DEF Ordered, Orderly
<1>4. pc' = "post" => Follows(batch, Range(router)')
    BY <1>1, <1>2, StillFollows DEF Ordered
<1>5. QED
    BY <1>1, <1>2, <1>3, <1>4 DEF Ordered, Orderly, Follows, Prior

\* A step that leaves the router and the store alone and whose batch and
\* requests are ones that were there.
LEMMA OtherOrder ==
    ASSUME Ordered, UNCHANGED <<router, store>>,
           \A r \in Requests' : Orderly(r),
           pc' = "post" => Follows(batch', Range(router))
    PROVE  Ordered'
<1>1. Range(router)' = Range(router) /\ Follows(router', {})
    BY DEF Ordered, Range
<1>2. \A r \in Requests' : Orderly(r)'
    BY <1>1, StillOrderly
<1>3. QED
    BY <1>1, <1>2 DEF Ordered, Orderly, Follows, Prior

LEMMA InOrderStep ==
    ASSUME IInv, Writing, Flushing, Legit, InOrder, [Next]_vars
    PROVE  InOrder'
<1>1. CASE GatewayRestarts
    BY <1>1 DEF GatewayRestarts, InOrder
<1>2. CASE ~GatewayRestarts /\ UNCHANGED restarts
  <2> SUFFICES ASSUME restarts = 0 PROVE Ordered'
      BY <1>2 DEF InOrder
  <2>1. Ordered
      BY DEF InOrder
  <2>2. ASSUME NEW r \in Requests, RouterSink(r) \/ StoreSink(r) PROVE Ordered'
      BY <2>1, <2>2, SinkOrder
  <2>3. ASSUME NEW t \in Trials, ScanPost(t) PROVE Ordered'
    <3>1. Follows(batch', Range(router))
        BY <2>1, <2>3, FreshFollows DEF ScanPost, Ordered, Flushing
    <3>2. UNCHANGED <<router, store, request, orphans>>
        BY <2>3 DEF ScanPost, gateway
    <3>3. QED
        BY <2>1, <3>1, <3>2, OtherOrder DEF Ordered, Orderly, Requests
  <2>4. CASE Connect
    <3> DEFINE R == [batch |-> batch, next |-> 1, sink |-> "router"]
    <3>1. /\ pc = "post" /\ Requests' = {R} \cup orphans
          /\ UNCHANGED <<pc, batch, router, store>>
        BY <2>4 DEF Connect, Requests
    <3>2. Orderly(R)
        BY <2>1, <3>1 DEF Ordered, Orderly, Reached
    <3>3. \A r \in orphans : Orderly(r)
        BY <2>1 DEF Ordered, Orderly, Requests
    <3> HIDE DEF R
    <3>4. QED
        BY <2>1, <3>1, <3>2, <3>3, OtherOrder DEF Ordered
  <2>5. ASSUME UNCHANGED <<router, store>>, Requests' \subseteq Requests,
               pc' = "post" => UNCHANGED <<pc, batch>>
        PROVE  Ordered'
    <3>1. \A r \in Requests' : Orderly(r)
        BY <2>1, <2>5 DEF Ordered, Orderly
    <3>2. pc' = "post" => Follows(batch', Range(router))
        BY <2>1, <2>5 DEF Ordered
    <3>3. QED
        BY <2>1, <2>5, <3>1, <3>2, OtherOrder
  <2>6. ASSUME Die PROVE Ordered'
      BY <2>5, <2>6 DEF Die, Requests
  <2>7. ASSUME GiveUp, orphans' \subseteq orphans, UNCHANGED <<router, store>>
        PROVE  Ordered'
      BY <2>5, <2>7 DEF GiveUp, Requests
  <2>8. ASSUME NEW t \in Trials, HarborBegins(t) \/ HarborEnds(t) \/ ScanNothing(t)
        PROVE  Ordered'
      BY <2>5, <2>8 DEF HarborBegins, HarborEnds, ScanNothing, gateway, Requests
  <2>9. CASE Mark \/ SaveBegins \/ SaveEnds \/ Wake \/ Flush \/ FlushLost
      BY <2>5, <2>9
      DEF Mark, SaveBegins, SaveEnds, Wake, Flush, FlushLost, gateway, Requests
  <2>10. CASE PostRejected \/ PostUnreachable
      BY <2>7, <2>10 DEF PostRejected, PostUnreachable
  <2>11. CASE PostTimesOut \/ KillSidecar \/ \E t \in Trials : ScanDies(t)
      BY <2>6, <2>11 DEF PostTimesOut, KillSidecar, ScanDies
  <2>12. ASSUME NEW r \in Requests, Accepted(r) PROVE Ordered'
      BY <2>5, <2>12 DEF Accepted, Requests
  <2>13. ASSUME NEW r \in Requests, StoreFails(r) PROVE Ordered'
    <3>1. UNCHANGED <<router, store>>
        BY <2>13 DEF StoreFails
    <3>2. CASE r \in orphans /\ orphans' = orphans \ {r}
               /\ UNCHANGED <<pc, batch, request, clean>>
        BY <2>5, <3>1, <3>2 DEF Requests
    <3>3. QED
        BY <2>7, <2>13, <3>1, <3>2 DEF StoreFails
  <2>14. CASE UNCHANGED vars
      BY <2>5, <2>14 DEF vars, Requests
  <2>15. QED
      BY <1>2, <2>2, <2>3, <2>4, <2>8, <2>9, <2>10, <2>11, <2>12, <2>13, <2>14
      DEF Next, Sidecar, Endpoint, Trouble
<1>3. UNCHANGED restarts \/ GatewayRestarts
    BY DEF Next, Sidecar, Endpoint, Trouble, HarborBegins, HarborEnds, ScanNothing,
           ScanPost, ScanDies, Die, Connect, PostRejected, Mark, SaveBegins,
           SaveEnds, Wake, RouterSink, StoreSink, Accepted, PostUnreachable,
           PostTimesOut, StoreFails, KillSidecar, Flush, FlushLost, vars, gateway
<1>4. QED
    BY <1>1, <1>2, <1>3

LEMMA InitInOrder == Init => InOrder
BY NoEvents DEF Init, InOrder, Ordered, Follows, Requests, Range

\* As long as the gateway keeps its projection, it gets the steps of a trial
\* once each and in their order: batches posted again after a lost answer, two
\* handlers of server.go at work on the same events and half-written
\* trajectories included.
THEOREM StepsComeInOrder == Spec => []StepsInOrder
<1>1. IInv /\ Writing /\ Flushing /\ Legit /\ InOrder /\ [Next]_vars => InOrder'
    BY InOrderStep
<1>2. Spec => []InOrder
    BY <1>1, InitInOrder, SoFar, PTL DEF Spec
<1>3. Legit /\ InOrder => StepsInOrder
  <2> SUFFICES ASSUME Legit, Follows(router, {}),
                      NEW i \in DOMAIN router, NEW j \in DOMAIN router,
                      i < j, router[i].trial = router[j].trial,
                      router[j].fact <= MaxSteps(router[j].trial)
               PROVE  router[i].fact < router[j].fact
      BY DEF StepsInOrder, InOrder, Ordered
  <2>1. router[i] \in Range(router) /\ router[j] \in Range(router)
      BY DEF Range
  <2>2. /\ Known(router[i]) /\ Known(router[j])
        /\ router[i].fact \in Nat /\ router[j].fact \in Nat \ {0}
        /\ i \in Int /\ j \in Int
        /\ router[j] = Event(router[j].trial, router[j].fact, 0, 0)
      BY <2>1, InRange DEF Legit, Known
  <2>3. CASE router[i].fact = router[j].fact
    <3>1. router[i] = router[j]
        BY <2>2, <2>3 DEF Known
    <3>2. QED
        BY <2>2, <3>1 DEF Legit, IsInjective
  <2>4. CASE router[j].fact < router[i].fact
    <3>1. MaxSteps(router[j].trial) \in Nat
        BY <2>2, Numbers DEF Known
    <3>2. router[j].fact \in 1 .. MaxSteps(router[j].trial)
        BY <2>2, <3>1
    <3>3. router[j] \in Prior(router[i])
        BY <2>2, <2>4, <3>2 DEF Prior
    <3>4. PICK k \in DOMAIN router : k < i /\ router[k] = router[j]
        BY <3>3 DEF Follows
    <3>5. k = j /\ k \in Int
        BY <3>4, InRange DEF Legit, IsInjective
    <3>6. QED
        BY <2>2, <3>4, <3>5
  <2>5. QED
      BY <2>2, <2>3, <2>4
<1>4. QED
    BY <1>2, <1>3, SoFar, PTL
=============================================================================
