--------------------------- MODULE EpisodeProofs ----------------------------
(***************************************************************************)
(* Proofs about the episodes, for any number of requests, events, sessions *)
(* and restarts.                                                           *)
(*                                                                         *)
(* One loader: that nobody else is loading an episode when a request       *)
(* begins to follows from its mark: whoever loads has marked it, and marks *)
(* go only where the loads go too, in a restart.                           *)
(*                                                                         *)
(* States and stacks: what is projected, replayed or taken off a stack one *)
(* by one is a fold, and what holds of a fold goes by the number of        *)
(* elements it has passed, which needs that it is one: lists of the audit  *)
(* store are finite because what is stored is.                             *)
(*                                                                         *)
(* Rebuilds: as long as a rebuild can follow, a session in memory is what  *)
(* replaying everything that has moved it gives: stored, buffered, lost or *)
(* about to be recorded; a call or event that moves it comes after all of  *)
(* those, so that it is the last of the list with it.                      *)
(***************************************************************************)
EXTENDS EpisodeRuntime, TLAPS, FiniteSetTheorems, SequenceTheorems, WellFoundedInduction

------------------------------------------------------------------------------
(* One loader *)

\* call is a function over Call of records with these fields.
IsCall(r) ==
    r = [pc |-> r.pc, session |-> r.session, ep |-> r.ep, op |-> r.op, at |-> r.at,
         completion |-> r.completion, loaded |-> r.loaded]

Shape ==
    /\ call = [c \in Call |-> call[c]]
    /\ \A c \in Call : IsCall(call[c])

Loading(c) == call[c].pc \in {"load", "install"}

MarkedFirst == \A c \in Call : Loading(c) => call[c].ep \in triedStates

LoadInv == Shape /\ MarkedFirst /\ LoadedOnce

\* A record of a call stays one when its place in the program, or what has been
\* loaded for it, changes.
LEMMA PlaceChanges ==
    ASSUME NEW r, IsCall(r), NEW pc
    PROVE  LET t == [r EXCEPT !.pc = pc]
           IN  /\ IsCall(t) /\ t.pc = pc
               /\ t.ep = r.ep /\ t.at = r.at /\ t.loaded = r.loaded
               /\ t.session = r.session /\ t.op = r.op /\ t.completion = r.completion
<1>1. PICK p, s, e, o, t, b, l :
          r = [pc |-> p, session |-> s, ep |-> e, op |-> o, at |-> t,
               completion |-> b, loaded |-> l]
    BY DEF IsCall
<1> DEFINE R == [pc |-> pc, session |-> s, ep |-> e, op |-> o, at |-> t,
                 completion |-> b, loaded |-> l]
<1>2. [r EXCEPT !.pc = pc] = R
    BY <1>1
<1>3. /\ IsCall(R) /\ R.pc = pc
      /\ R.ep = r.ep /\ R.at = r.at /\ R.loaded = r.loaded
      /\ R.session = r.session /\ R.op = r.op /\ R.completion = r.completion
    BY <1>1 DEF IsCall
<1> HIDE DEF R
<1>4. QED
    BY <1>2, <1>3

LEMMA LoadChanges ==
    ASSUME NEW r, IsCall(r), NEW loaded
    PROVE  LET t == [r EXCEPT !.loaded = loaded]
           IN  /\ IsCall(t) /\ t.pc = r.pc
               /\ t.ep = r.ep /\ t.at = r.at /\ t.loaded = loaded
               /\ t.session = r.session /\ t.op = r.op /\ t.completion = r.completion
<1>1. PICK p, s, e, o, t, b, l :
          r = [pc |-> p, session |-> s, ep |-> e, op |-> o, at |-> t,
               completion |-> b, loaded |-> l]
    BY DEF IsCall
<1> DEFINE R == [pc |-> p, session |-> s, ep |-> e, op |-> o, at |-> t,
                 completion |-> b, loaded |-> loaded]
<1>2. [r EXCEPT !.loaded = loaded] = R
    BY <1>1
<1>3. /\ IsCall(R) /\ R.pc = r.pc
      /\ R.ep = r.ep /\ R.at = r.at /\ R.loaded = loaded
      /\ R.session = r.session /\ R.op = r.op /\ R.completion = r.completion
    BY <1>1 DEF IsCall
<1> HIDE DEF R
<1>4. QED
    BY <1>2, <1>3

\* So are the records of a call that has not begun, of one that has just been
\* resolved, and of one that has ended.
LEMMA NewCalls ==
    /\ \A pc, s, op, e, t, b :
           IsCall(CallOf(pc, s, op, e, t, b)) /\ CallOf(pc, s, op, e, t, b).pc = pc
    /\ IsCall(NoCall) /\ NoCall.pc = "idle"
    /\ \A c : IsCall(Ended(c)) /\ Ended(c).pc = "done"
<1>1. \A pc, s, op, e, t, b :
          IsCall(CallOf(pc, s, op, e, t, b)) /\ CallOf(pc, s, op, e, t, b).pc = pc
    BY DEF IsCall, CallOf
<1>2. IsCall(NoCall) /\ NoCall.pc = "idle"
    BY DEF IsCall, CallOf, NoCall
<1>3. \A c : IsCall(Ended(c)) /\ Ended(c).pc = "done"
    BY DEF IsCall, CallOf, Ended
<1>4. QED
    BY <1>1, <1>2, <1>3

\* A step in which nobody begins to load and no mark goes.
LEMMA NobodyBegins ==
    ASSUME LoadInv, Shape', triedStates \subseteq triedStates',
           \A d \in Call : Loading(d)' => Loading(d) /\ call'[d].ep = call[d].ep
    PROVE  LoadInv'
BY DEF LoadInv, MarkedFirst, LoadedOnce, Loading

\* A call whose record is replaced.
LEMMA OneCallMoves ==
    ASSUME LoadInv, NEW c \in Call, NEW r, IsCall(r), call' = [call EXCEPT ![c] = r],
           triedStates' = triedStates,
           r.pc \in {"load", "install"} => Loading(c) /\ r.ep = call[c].ep
    PROVE  LoadInv'
<1>1. /\ call'[c] = r
      /\ \A d \in Call \ {c} : call'[d] = call[d]
    BY DEF LoadInv, Shape
<1>2. call' = [d \in Call |-> call'[d]]
    BY DEF LoadInv, Shape
<1>3. Shape'
    BY <1>1, <1>2 DEF LoadInv, Shape, IsCall
<1>4. \A d \in Call : Loading(d)' => Loading(d) /\ call'[d].ep = call[d].ep
    BY <1>1 DEF Loading
<1>5. QED
    BY <1>3, <1>4, NobodyBegins

\* The load of an episode is begun by whoever marks it.
LEMMA MarkStateKeepsLoadInv ==
    ASSUME LoadInv, NEW c \in Call, MarkState(c)
    PROVE  LoadInv'
<1> DEFINE r == [call[c] EXCEPT !.pc =
                    IF AlreadyTried(call[c].ep) THEN "routed" ELSE "load"]
<1>1. IsCall(r) /\ r.ep = call[c].ep
      /\ r.pc = IF AlreadyTried(call[c].ep) THEN "routed" ELSE "load"
    BY PlaceChanges DEF LoadInv, Shape
<1>2. call' = [call EXCEPT ![c] = r]
    BY DEF MarkState
<1> HIDE DEF r
<1>3. /\ call'[c] = r
      /\ \A d \in Call \ {c} : call'[d] = call[d]
      /\ call' = [d \in Call |-> call'[d]]
    BY <1>2 DEF LoadInv, Shape
<1>4. Shape'
    BY <1>1, <1>3 DEF LoadInv, Shape
<1>5. Loading(c)' => call[c].ep \notin triedStates
    BY <1>1, <1>3 DEF Loading, AlreadyTried
<1>6. triedStates' = triedStates \cup {call[c].ep}
    BY DEF MarkState
<1>7. MarkedFirst'
    BY <1>1, <1>3, <1>6 DEF LoadInv, MarkedFirst, Loading
<1>8. ASSUME NEW d \in Call, NEW e \in Call, Loading(d)', Loading(e)',
             call'[d].ep = call'[e].ep
      PROVE  d = e
    BY <1>1, <1>3, <1>5, <1>8 DEF LoadInv, MarkedFirst, LoadedOnce, Loading
<1>9. LoadedOnce'
    BY <1>8 DEF LoadedOnce, Loading
<1>10. QED
    BY <1>4, <1>7, <1>9 DEF LoadInv

\* A restart ends every load with the call it is made for.
LEMMA RestartKeepsLoadInv ==
    ASSUME LoadInv, Restart
    PROVE  LoadInv'
<1>1. /\ \A c \in Call : call'[c] = IF c \in Busy THEN Ended(c) ELSE call[c]
      /\ call' = [c \in Call |-> call'[c]]
    BY DEF Restart
<1>2. Shape'
    BY <1>1, NewCalls DEF LoadInv, Shape
<1>3. \A c \in Call : ~Loading(c)'
    <2>1. TAKE c \in Call
    <2>2. CASE c \in Busy
        BY <1>1, <2>2, NewCalls DEF Loading
    <2>3. CASE c \notin Busy
        BY <1>1, <2>3 DEF Loading, Busy
    <2>4. QED
        BY <2>2, <2>3
<1>4. QED
    BY <1>2, <1>3 DEF LoadInv, MarkedFirst, LoadedOnce, Loading

\* Steps of a call after which it has not begun to load.
LEMMA CallStepKeepsLoadInv ==
    ASSUME LoadInv, NEW c \in Call,
           \/ CheckState(c) \/ LoadState(c) \/ InstallState(c)
           \/ RecordCall(c) \/ ClearState(c) \/ ClearSessions(c) \/ AuditCall(c) \/ Abort(c)
    PROVE  LoadInv'
<1>0. triedStates' = triedStates
    BY DEF CheckState, LoadState, InstallState, RecordCall, ClearState,
        ClearSessions, AuditCall, Abort, memory
<1>1. IsCall(call[c])
    BY DEF LoadInv, Shape
<1>2. ASSUME NEW pc, pc \notin {"load", "install"},
             call' = [call EXCEPT ![c].pc = pc]
      PROVE  LoadInv'
    <2>1. call' = [call EXCEPT ![c] = [call[c] EXCEPT !.pc = pc]]
        BY <1>2
    <2> DEFINE r == [call[c] EXCEPT !.pc = pc]
    <2>2. IsCall(r) /\ r.pc = pc
        BY <1>1, PlaceChanges
    <2> HIDE DEF r
    <2>3. QED
        BY <1>0, <1>2, <2>1, <2>2, OneCallMoves DEF r
<1>3. ASSUME LoadState(c) PROVE LoadInv'
    <2>1. PICK queries \in SUBSET Queries :
              LET loaded == PersistedEvents(call[c].ep, queries)
              IN  call' = [call EXCEPT ![c].loaded = loaded,
                                       ![c].pc = IF loaded = {} THEN "routed" ELSE "install"]
        BY <1>3 DEF LoadState
    <2> DEFINE loaded == PersistedEvents(call[c].ep, queries)
               pc == IF loaded = {} THEN "routed" ELSE "install"
    <2>2. call' = [call EXCEPT ![c] = [call[c] EXCEPT !.pc = pc, !.loaded = loaded]]
        BY <1>1, <2>1 DEF LoadInv, Shape, IsCall
    <2> HIDE DEF loaded, pc
    <2> DEFINE q == [call[c] EXCEPT !.pc = pc]
               r == [q EXCEPT !.loaded = loaded]
    <2>3. call' = [call EXCEPT ![c] = r]
        BY <2>2
    <2>4. IsCall(q) /\ q.ep = call[c].ep
        BY <1>1, PlaceChanges
    <2> HIDE DEF q
    <2>5. IsCall(r) /\ r.ep = q.ep
        BY <2>4, LoadChanges
    <2> HIDE DEF r
    <2>6. Loading(c)
        BY <1>3 DEF LoadState, Loading
    <2>7. QED
        BY <1>0, <2>3, <2>4, <2>5, <2>6, OneCallMoves
<1>4. ASSUME InstallState(c) PROVE LoadInv'
    <2>1. call' = [call EXCEPT ![c] = [call[c] EXCEPT !.pc = "routed", !.loaded = {}]]
        BY <1>1, <1>4 DEF InstallState, LoadInv, Shape, IsCall
    <2> DEFINE q == [call[c] EXCEPT !.pc = "routed"]
               r == [q EXCEPT !.loaded = {}]
    <2>2. call' = [call EXCEPT ![c] = r]
        BY <2>1
    <2>3. IsCall(q) /\ q.pc = "routed"
        BY <1>1, PlaceChanges
    <2> HIDE DEF q
    <2>4. IsCall(r) /\ r.pc = "routed"
        BY <2>3, LoadChanges
    <2> HIDE DEF r
    <2>5. QED
        BY <1>0, <2>2, <2>4, OneCallMoves
<1>5. ASSUME AuditCall(c) \/ Abort(c) PROVE LoadInv'
    <2>1. call' = [call EXCEPT ![c] = Ended(c)]
        BY <1>5 DEF AuditCall, Abort
    <2>2. IsCall(Ended(c)) /\ Ended(c).pc = "done"
        BY NewCalls
    <2>3. QED
        BY <1>0, <2>1, <2>2, OneCallMoves
<1>6. ASSUME CheckState(c) PROVE LoadInv'
    <2> DEFINE pc == IF call[c].ep \in DOMAIN states THEN "routed" ELSE "mark"
    <2>1. call' = [call EXCEPT ![c].pc = pc]
        BY <1>6 DEF CheckState
    <2>2. pc \notin {"load", "install"}
        OBVIOUS
    <2> HIDE DEF pc
    <2>3. QED
        BY <1>2, <2>1, <2>2
<1>7. ASSUME ClearState(c) \/ ClearSessions(c) PROVE LoadInv'
    BY <1>2, <1>7 DEF ClearState, ClearSessions
<1>8. ASSUME RecordCall(c) PROVE LoadInv'
    <2> DEFINE pc == IF call[c].completion THEN "clear" ELSE "audit"
    <2>1. call' = [call EXCEPT ![c].pc = pc]
        BY <1>8 DEF RecordCall
    <2>2. pc \notin {"load", "install"}
        OBVIOUS
    <2> HIDE DEF pc
    <2>3. QED
        BY <1>2, <2>1, <2>2
<1>9. QED
    BY <1>3, <1>4, <1>5, <1>6, <1>7, <1>8

\* Init and every step of the episode runtime keep LoadInv.
THEOREM LoadInductive == Spec => []LoadInv
<1>1. Init => LoadInv
    <2>1. Init => \A c \in Call : call[c] = NoCall
        BY DEF Init
    <2>2. Init => Shape
        BY <2>1, NewCalls DEF Init, Shape
    <2>3. Init => \A c \in Call : ~Loading(c)
        BY <2>1, NewCalls DEF Loading
    <2>4. QED
        BY <2>2, <2>3 DEF LoadInv, MarkedFirst, LoadedOnce, Loading
<1>2. LoadInv /\ [Next]_vars => LoadInv'
    <2>0. SUFFICES ASSUME LoadInv, [Next]_vars PROVE LoadInv'
        OBVIOUS
    <2>1. ASSUME NEW c \in Call, NEW s \in Session, NEW op \in Operation,
                 NEW x, Resolve(c, s, op, x)
          PROVE  LoadInv'
        <3>1. triedStates' = triedStates
            BY <2>1 DEF Resolve
        <3> DEFINE session == IF x = {} THEN Resolved(s, op)
                              ELSE Remembered(s, CHOOSE e \in x : TRUE, op)
        <3>2. PICK pc \in {"check", "routed"}, b \in BOOLEAN :
                  call' = [call EXCEPT ![c] =
                               CallOf(pc, s, op, session.active, clock + 1, b)]
            BY <2>1, Zenon DEF Resolve
        <3> DEFINE r == CallOf(pc, s, op, session.active, clock + 1, b)
        <3>3. IsCall(r) /\ r.pc = pc
            BY NewCalls
        <3>4. call' = [call EXCEPT ![c] = r]
            BY <3>2
        <3> HIDE DEF r
        <3>5. QED
            BY <2>0, <3>1, <3>2, <3>3, <3>4, OneCallMoves
    <2>2. ASSUME NEW c \in Call,
                 \/ CheckState(c) \/ LoadState(c) \/ InstallState(c)
                 \/ RecordCall(c) \/ ClearState(c) \/ ClearSessions(c) \/ AuditCall(c) \/ Abort(c)
          PROVE  LoadInv'
        BY <2>0, <2>2, CallStepKeepsLoadInv
    <2>3. ASSUME NEW c \in Call, MarkState(c) PROVE LoadInv'
        BY <2>0, <2>3, MarkStateKeepsLoadInv
    <2>4. CASE Restart
        BY <2>0, <2>4, RestartKeepsLoadInv
    <2>5. CASE UNCHANGED <<call, triedStates>>
        BY <2>0, <2>5, NobodyBegins DEF LoadInv, Shape, Loading
    <2>6. ASSUME NEW p \in Note,
                 \/ \E s \in Session, e \in EpisodeId, at \in 1 .. LastTime : Post(p, s, e, at)
                 \/ ProjectNote(p) \/ RecordSession(p) \/ PersistNote(p) \/ PostAgain(p)
          PROVE  UNCHANGED <<call, triedStates>>
        BY <2>6 DEF Post, ProjectNote, RecordSession, PersistNote, PostAgain, memory
    <2>7. ASSUME \/ \E s \in Session : QuerySession(s)
                 \/ LoadSession \/ InstallSession \/ Flush \/ UNCHANGED vars
          PROVE  UNCHANGED <<call, triedStates>>
        BY <2>7 DEF QuerySession, LoadSession, InstallSession, memory, Flush, vars
    <2>8. QED
        BY <2>0, <2>1, <2>2, <2>3, <2>4, <2>5, <2>6, <2>7 DEF Next
<1>3. QED
    BY <1>1, <1>2, PTL DEF Spec

\* LoadedOnce in every reachable state: ensureEpisodeStateLoaded, called by
\* concurrent requests of one episode, loads it once.
THEOREM OneLoader == Spec => []LoadedOnce
<1>1. LoadInv => LoadedOnce
    BY DEF LoadInv
<1>2. QED
    BY <1>1, LoadInductive, PTL

------------------------------------------------------------------------------
(* Folds.  FoldLeft is a recursive function over the subsets of the sequence's *)
(* domain, which takes out the largest index.  That there is one, and what it  *)
(* does to 1 .. k for k up to the length, goes by the least counterexample.    *)

LEMMA LeastNumber ==
    ASSUME NEW T \in SUBSET Nat, T # {}
    PROVE  \E m \in T : \A n \in T : m <= n
<1> DEFINE L == {ss \in Nat \X Nat : ss[1] < ss[2]}
<1>1. IsWellFoundedOn(L, Nat)
    BY NatLessThanWellFounded DEF OpToRel
<1> HIDE DEF L
<1>2. PICK x \in T : \A y \in T : ~(<<y, x>> \in L)
    BY <1>1, WFMin
<1>3. \A y \in T : ~(y < x)
    BY <1>2 DEF L
<1>4. QED
    BY <1>3

\* A set of numbers up to n that has 0 and with every number its successor is
\* all of them.
LEMMA UpTo ==
    ASSUME NEW n \in Nat, NEW S, 0 \in S, \A k \in 1 .. n : k - 1 \in S => k \in S
    PROVE  0 .. n \subseteq S
<1> DEFINE T == (0 .. n) \ S
<1>1. SUFFICES ASSUME T # {} PROVE FALSE
    OBVIOUS
<1>0. T \in SUBSET Nat
    OBVIOUS
<1> HIDE DEF T
<1>2. PICK m \in T : \A k \in T : m <= k
    BY <1>0, <1>1, LeastNumber
<1>3. m \in 1 .. n /\ m - 1 \in 0 .. n /\ ~(m <= m - 1)
    BY <1>2 DEF T
<1>4. QED
    BY <1>2, <1>3 DEF T

\* The greatest of some of the numbers up to n.
LEMMA MaxOf ==
    ASSUME NEW n \in Nat, NEW S \in SUBSET (1 .. n), S # {}
    PROVE  Max(S) \in S /\ \A x \in S : x <= Max(S)
<1> DEFINE T == {n - x : x \in S}
<1>1. T \in SUBSET Nat /\ T # {}
  <2>1. \A x \in S : n - x \in Nat
      OBVIOUS
  <2>2. QED
      BY <2>1
<1>2. PICK m \in T : \A k \in T : m <= k
    BY <1>1, LeastNumber
<1>3. PICK x \in S : m = n - x
    BY <1>2
<1>4. ASSUME NEW y \in S PROVE x >= y
  <2>1. n - x <= n - y
      BY <1>2, <1>3
  <2>2. x \in Int /\ y \in Int
      OBVIOUS
  <2>3. QED
      BY <2>1, <2>2
<1>5. /\ Max(S) \in S
      /\ \A y \in S : Max(S) >= y
    BY <1>4, Zenon DEF Max
<1>6. QED
    BY <1>5

LEMMA MaxUpTo ==
    ASSUME NEW k \in Nat, k # 0
    PROVE  Max(1 .. k) = k /\ (1 .. k) \ {k} = 1 .. (k - 1)
<1>1. /\ Max(1 .. k) \in 1 .. k
      /\ k <= Max(1 .. k)
  <2>1. 1 .. k \in SUBSET (1 .. k) /\ k \in 1 .. k
      OBVIOUS
  <2>2. QED
      BY <2>1, MaxOf
<1>2. QED
    BY <1>1

\* A recursion over the subsets of 1 .. n, with step a function.
Recurs(g, S, base, step) ==
    g = [s \in SUBSET S |->
            IF s = {} THEN base ELSE step[<<g[s \ {Max(s)}], Max(s)>>]]

\* Of finite sets of which something is false there is one of which it is true
\* of everything smaller.
LEMMA SmallestOf ==
    ASSUME NEW C, C # {}, \A s \in C : IsFiniteSet(s)
    PROVE  \E s \in C : \A x \in s : s \ {x} \notin C
<1> DEFINE T == {Cardinality(s) : s \in C}
<1>1. T \in SUBSET Nat /\ T # {}
    BY FS_CardinalityType
<1>2. PICK m \in T : \A k \in T : m <= k
    BY <1>1, LeastNumber
<1>3. PICK s \in C : m = Cardinality(s)
    BY <1>2
<1>4. ASSUME NEW x \in s PROVE s \ {x} \notin C
    <2>1. Cardinality(s \ {x}) = Cardinality(s) - 1 /\ Cardinality(s) \in Nat
        BY FS_RemoveElement, FS_CardinalityType
    <2>2. s \ {x} \in C => Cardinality(s) <= Cardinality(s \ {x})
        BY <1>2, <1>3
    <2>3. QED
        BY <2>1, <2>2
<1>5. QED
    BY <1>4

LEMMA SmallestSet ==
    ASSUME NEW n \in Nat, NEW C, C # {}, \A s \in C : s \in SUBSET (1 .. n)
    PROVE  \E s \in C : \A x \in s : s \ {x} \notin C
<1>1. IsFiniteSet(1 .. n)
    BY FS_Interval
<1>2. \A s \in C : IsFiniteSet(s)
    BY <1>1, FS_Subset
<1>3. QED
    BY <1>2, SmallestOf

Indices(n) == SUBSET (1 .. n)

\* Two recursions agree where both are defined.
LEMMA RecursAgree ==
    ASSUME NEW n \in Nat, NEW base, NEW step, NEW g, NEW h, NEW S, NEW T,
           Recurs(g, S, base, step), Recurs(h, T, base, step),
           NEW s \in SUBSET (S \cap T), s \in Indices(n)
    PROVE  g[s] = h[s]
<1> DEFINE C == {t \in SUBSET s : g[t] # h[t]}
<1>1. SUFFICES ASSUME C # {} PROVE FALSE
    OBVIOUS
<1>2. PICK t \in C : \A x \in t : t \ {x} \notin C
    BY <1>1, SmallestSet DEF Indices
<1>3. /\ g[t] = IF t = {} THEN base ELSE step[<<g[t \ {Max(t)}], Max(t)>>]
      /\ h[t] = IF t = {} THEN base ELSE step[<<h[t \ {Max(t)}], Max(t)>>]
    BY DEF Recurs
<1>4. t # {}
    BY <1>3
<1>5. Max(t) \in t /\ t \ {Max(t)} \in SUBSET s
    BY <1>4, MaxOf DEF Indices
<1>6. g[t \ {Max(t)}] = h[t \ {Max(t)}]
    BY <1>2, <1>5
<1>7. QED
    BY <1>3, <1>4, <1>6

LEMMA RecursExists ==
    ASSUME NEW n \in Nat, NEW base, NEW step
    PROVE  \E g : Recurs(g, 1 .. n, base, step)
<1> DEFINE C == {t \in SUBSET (1 .. n) : ~ \E g : Recurs(g, t, base, step)}
<1>2. SUFFICES ASSUME C # {} PROVE FALSE
    BY <1>2
<1>3. PICK t \in C : \A x \in t : t \ {x} \notin C
    BY <1>2, SmallestSet
<1> HIDE DEF C
<1>4. t \in SUBSET (1 .. n) /\ ~ \E g : Recurs(g, t, base, step)
    BY DEF C
<1>5. \A x \in t : \E g : Recurs(g, t \ {x}, base, step)
    BY <1>3, <1>4 DEF C
<1> DEFINE G(x) == CHOOSE g : Recurs(g, t \ {x}, base, step)
           v(s) == IF s = {} THEN base ELSE
                   IF s = t THEN step[<<G(Max(t))[t \ {Max(t)}], Max(t)>>]
                   ELSE G(CHOOSE x \in t : x \notin s)[s]
           g == [s \in SUBSET t |-> v(s)]
<1>6. \A x \in t : Recurs(G(x), t \ {x}, base, step)
    BY <1>5, Zenon
<1> HIDE DEF G
<1>7. ASSUME NEW s \in SUBSET t, NEW x \in t, x \notin s
      PROVE  g[s] = G(x)[s]
    <2>1. CASE s = {}
        BY <1>6, <2>1 DEF Recurs
    <2>2. CASE s # {}
      <3> DEFINE y == CHOOSE z \in t : z \notin s
      <3>1. y \in t /\ y \notin s /\ s # t
          BY <1>7
      <3>2. g[s] = G(y)[s]
          BY <2>2, <3>1
      <3> HIDE DEF y, g
      <3>3. Recurs(G(y), t \ {y}, base, step) /\ Recurs(G(x), t \ {x}, base, step)
          BY <1>6, <1>7, <3>1
      <3>4. s \in SUBSET ((t \ {y}) \cap (t \ {x})) /\ s \in Indices(n)
          BY <1>4, <1>7, <3>1 DEF Indices
      <3>5. G(y)[s] = G(x)[s]
          BY <3>3, <3>4, RecursAgree
      <3>6. QED
          BY <3>2, <3>5
    <2>3. QED
        BY <2>1, <2>2
<1>8. ASSUME NEW s \in SUBSET t, s # {}
      PROVE  g[s] = step[<<g[s \ {Max(s)}], Max(s)>>]
    <2>1. Max(s) \in s /\ Max(s) \in t
        BY <1>4, <1>8, MaxOf
    <2>2. g[s \ {Max(s)}] = G(Max(s))[s \ {Max(s)}]
        BY <1>7, <2>1
    <2>3. CASE s = t
        BY <1>8, <2>2, <2>3
    <2>4. CASE s # t
      <3>1. PICK x \in t : x \notin s
          BY <2>4
      <3>2. g[s] = G(x)[s] /\ g[s \ {Max(s)}] = G(x)[s \ {Max(s)}]
          BY <1>7, <3>1
      <3>3. Recurs(G(x), t \ {x}, base, step) /\ s \in SUBSET (t \ {x})
          BY <1>6, <3>1
      <3>4. G(x)[s] = step[<<G(x)[s \ {Max(s)}], Max(s)>>]
          BY <1>8, <3>3 DEF Recurs
      <3>5. QED
          BY <3>2, <3>4
    <2>5. QED
        BY <2>3, <2>4
<1>9. g[{}] = base
    OBVIOUS
<1>10. g = [s \in SUBSET t |-> g[s]]
    OBVIOUS
<1> HIDE DEF g
<1>11. Recurs(g, t, base, step)
    BY <1>8, <1>9, <1>10 DEF Recurs
<1>12. QED
    BY <1>4, <1>11

LEMMA RecursRange ==
    ASSUME NEW n \in Nat, NEW A, NEW base \in A, NEW step \in [A \X (1 .. n) -> A],
           NEW g, Recurs(g, 1 .. n, base, step), NEW s \in SUBSET (1 .. n)
    PROVE  g[s] \in A
<1> DEFINE C == {t \in SUBSET (1 .. n) : g[t] \notin A}
<1>1. SUFFICES ASSUME C # {} PROVE FALSE
    OBVIOUS
<1>2. PICK t \in C : \A x \in t : t \ {x} \notin C
    BY <1>1, SmallestSet
<1>3. g[t] = IF t = {} THEN base ELSE step[<<g[t \ {Max(t)}], Max(t)>>]
    BY DEF Recurs
<1>4. t # {}
    BY <1>3
<1>5. Max(t) \in t /\ Max(t) \in 1 .. n /\ t \ {Max(t)} \in SUBSET (1 .. n)
    BY <1>4, MaxOf
<1>6. g[t \ {Max(t)}] \in A
    BY <1>2, <1>5
<1>7. step[<<g[t \ {Max(t)}], Max(t)>>] \in A
    BY <1>5, <1>6
<1>8. QED
    BY <1>3, <1>4, <1>7

\* The definition of each of the module's three folds, and the values that it
\* goes through: what has been projected into a state, ...
ProjectIter(it, base, q) ==
    it = [s \in SUBSET (DOMAIN q) |->
             IF s = {} THEN base
             ELSE ProjectUnique(it[s \ {Max(s)}], q[Max(s)].id)]

AllProjected(base, q) ==
    FoldLeft(LAMBDA state, t : ProjectUnique(state, t.id), base, q)

\* What f has at k is what the first k of q have been projected into.
Projects(f, n, base, q) ==
    /\ f[0] = base
    /\ \A k \in 1 .. n : f[k] = ProjectUnique(f[k - 1], q[k].id)
    /\ f[n] = AllProjected(base, q)

LEMMA ProjectFold ==
    ASSUME NEW n \in Nat, NEW q, DOMAIN q = 1 .. n, NEW A, NEW base \in A,
           \A a \in A, i \in 1 .. n : ProjectUnique(a, q[i].id) \in A
    PROVE  \E f : Projects(f, n, base, q)
<1> DEFINE step == [p \in A \X (1 .. n) |-> ProjectUnique(p[1], q[p[2]].id)]
           G == CHOOSE it : ProjectIter(it, base, q)
           f == [k \in 0 .. n |-> G[1 .. k]]
<1>1. step \in [A \X (1 .. n) -> A]
    OBVIOUS
<1>2. \A a \in A, i \in 1 .. n : step[<<a, i>>] = ProjectUnique(a, q[i].id)
    OBVIOUS
<1> HIDE DEF step
<1>3. PICK g : Recurs(g, 1 .. n, base, step)
    BY RecursExists
<1>4. ASSUME NEW s \in SUBSET (1 .. n), s # {}
      PROVE  step[<<g[s \ {Max(s)}], Max(s)>>]
                 = ProjectUnique(g[s \ {Max(s)}], q[Max(s)].id)
  <2>1. Max(s) \in 1 .. n /\ s \ {Max(s)} \in SUBSET (1 .. n)
      BY <1>4, MaxOf
  <2>2. g[s \ {Max(s)}] \in A
      BY <1>1, <1>3, <2>1, RecursRange
  <2>3. QED
      BY <1>2, <2>1, <2>2
<1>5. ProjectIter(g, base, q)
    BY <1>3, <1>4 DEF Recurs, ProjectIter
<1>6. ProjectIter(G, base, q)
    BY <1>5, Zenon
<1>7. AllProjected(base, q) = G[DOMAIN q]
    BY Zenon DEF AllProjected, FoldLeft, MapThenFoldSet, ProjectIter
<1> HIDE DEF G
<1>8. ASSUME NEW k \in 1 .. n
      PROVE  G[1 .. k] = ProjectUnique(G[1 .. (k - 1)], q[k].id)
  <2>1. /\ 1 .. k \in SUBSET (1 .. n) /\ 1 .. k # {}
        /\ Max(1 .. k) = k /\ (1 .. k) \ {k} = 1 .. (k - 1)
    <3>1. k \in Nat /\ k # 0 /\ 1 .. k \in SUBSET (1 .. n) /\ k \in 1 .. k
        OBVIOUS
    <3>2. QED
        BY <3>1, MaxUpTo
  <2>2. G[1 .. k] = ProjectUnique(G[(1 .. k) \ {Max(1 .. k)}], q[Max(1 .. k)].id)
      BY <1>6, <2>1 DEF ProjectIter
  <2>3. QED
      BY <2>1, <2>2
<1>9. f[0] = base
  <2>1. G[{}] = base
      BY <1>6 DEF ProjectIter
  <2>2. 1 .. 0 = {}
      OBVIOUS
  <2>3. QED
      BY <2>1, <2>2
<1>10. \A k \in 1 .. n : f[k] = ProjectUnique(f[k - 1], q[k].id)
    BY <1>8
<1>11. f[n] = G[DOMAIN q]
    OBVIOUS
<1> HIDE DEF f
<1>12. Projects(f, n, base, q)
    BY <1>7, <1>9, <1>10, <1>11 DEF Projects
<1>13. QED
    BY <1>12

\* ... what is left of a stack, ...
Dropped(rest, x, e) == IF x = e THEN rest ELSE Append(rest, x)

RemoveIter(e, it, q) ==
    it = [s \in SUBSET (DOMAIN q) |->
             IF s = {} THEN <<>>
             ELSE Dropped(it[s \ {Max(s)}], q[Max(s)], e)]

LEMMA RemoveFold ==
    ASSUME NEW n \in Nat, NEW q, DOMAIN q = 1 .. n, NEW A, <<>> \in A, NEW e,
           \A a \in A, i \in 1 .. n : Dropped(a, q[i], e) \in A
    PROVE  \E f : /\ f[0] = <<>>
                  /\ \A k \in 1 .. n : f[k] = Dropped(f[k - 1], q[k], e)
                  /\ f[n] = Removed(q, e)
<1> DEFINE step == [p \in A \X (1 .. n) |-> Dropped(p[1], q[p[2]], e)]
           G == CHOOSE it : RemoveIter(e, it, q)
           f == [k \in 0 .. n |-> G[1 .. k]]
<1>1. step \in [A \X (1 .. n) -> A]
    OBVIOUS
<1>2. \A a \in A, i \in 1 .. n : step[<<a, i>>] = Dropped(a, q[i], e)
    OBVIOUS
<1> HIDE DEF step
<1>3. PICK g : Recurs(g, 1 .. n, <<>>, step)
    BY RecursExists
<1>4. ASSUME NEW s \in SUBSET (1 .. n), s # {}
      PROVE  step[<<g[s \ {Max(s)}], Max(s)>>] = Dropped(g[s \ {Max(s)}], q[Max(s)], e)
  <2>1. Max(s) \in 1 .. n /\ s \ {Max(s)} \in SUBSET (1 .. n)
      BY <1>4, MaxOf
  <2>2. g[s \ {Max(s)}] \in A
      BY <1>1, <1>3, <2>1, RecursRange
  <2>3. QED
      BY <1>2, <2>1, <2>2
<1>5. RemoveIter(e, g, q)
    BY <1>3, <1>4 DEF Recurs, RemoveIter
<1>6. RemoveIter(e, G, q)
    BY <1>5, Zenon
<1>7. Removed(q, e) = G[DOMAIN q]
    BY Zenon DEF Removed, Dropped, FoldLeft, MapThenFoldSet, RemoveIter
<1> HIDE DEF G
<1>8. ASSUME NEW k \in 1 .. n
      PROVE  G[1 .. k] = Dropped(G[1 .. (k - 1)], q[k], e)
  <2>1. /\ 1 .. k \in SUBSET (1 .. n) /\ 1 .. k # {}
        /\ Max(1 .. k) = k /\ (1 .. k) \ {k} = 1 .. (k - 1)
    <3>1. k \in Nat /\ k # 0 /\ 1 .. k \in SUBSET (1 .. n) /\ k \in 1 .. k
        OBVIOUS
    <3>2. QED
        BY <3>1, MaxUpTo
  <2>2. G[1 .. k] = Dropped(G[(1 .. k) \ {Max(1 .. k)}], q[Max(1 .. k)], e)
      BY <1>6, <2>1 DEF RemoveIter
  <2>3. QED
      BY <2>1, <2>2
<1>9. f[0] = <<>>
  <2>1. G[{}] = <<>>
      BY <1>6 DEF RemoveIter
  <2>2. 1 .. 0 = {}
      OBVIOUS
  <2>3. QED
      BY <2>1, <2>2
<1>10. \A k \in 1 .. n : f[k] = Dropped(f[k - 1], q[k], e)
    BY <1>8
<1>11. f[n] = G[DOMAIN q]
    OBVIOUS
<1> HIDE DEF f
<1>12. QED
    BY <1>7, <1>9, <1>10, <1>11

\* ... and the session that has been replayed.
ReplayIter(sess, it, q) ==
    it = [s \in SUBSET (DOMAIN q) |->
             IF s = {} THEN NewSession(sess)
             ELSE Replayed(sess, it[s \ {Max(s)}], q[Max(s)])]

LEMMA ReplayFold ==
    ASSUME NEW n \in Nat, NEW q, DOMAIN q = 1 .. n, NEW A, NEW sess, NewSession(sess) \in A,
           \A a \in A, i \in 1 .. n : Replayed(sess, a, q[i]) \in A
    PROVE  \E f : /\ f[0] = NewSession(sess)
                  /\ \A k \in 1 .. n : f[k] = Replayed(sess, f[k - 1], q[k])
                  /\ f[n] = Rebuilt(sess, q)
<1> DEFINE step == [p \in A \X (1 .. n) |-> Replayed(sess, p[1], q[p[2]])]
           G == CHOOSE it : ReplayIter(sess, it, q)
           f == [k \in 0 .. n |-> G[1 .. k]]
<1>1. step \in [A \X (1 .. n) -> A]
    OBVIOUS
<1>2. \A a \in A, i \in 1 .. n : step[<<a, i>>] = Replayed(sess, a, q[i])
    OBVIOUS
<1> HIDE DEF step
<1>3. PICK g : Recurs(g, 1 .. n, NewSession(sess), step)
    BY RecursExists
<1>4. ASSUME NEW s \in SUBSET (1 .. n), s # {}
      PROVE  step[<<g[s \ {Max(s)}], Max(s)>>] = Replayed(sess, g[s \ {Max(s)}], q[Max(s)])
  <2>1. Max(s) \in 1 .. n /\ s \ {Max(s)} \in SUBSET (1 .. n)
      BY <1>4, MaxOf
  <2>2. g[s \ {Max(s)}] \in A
      BY <1>1, <1>3, <2>1, RecursRange
  <2>3. QED
      BY <1>2, <2>1, <2>2
<1>5. ReplayIter(sess, g, q)
    BY <1>3, <1>4 DEF Recurs, ReplayIter
<1>6. ReplayIter(sess, G, q)
    BY <1>5, Zenon
<1>7. Rebuilt(sess, q) = G[DOMAIN q]
    BY Zenon DEF Rebuilt, FoldLeft, MapThenFoldSet, ReplayIter
<1> HIDE DEF G
<1>8. ASSUME NEW k \in 1 .. n
      PROVE  G[1 .. k] = Replayed(sess, G[1 .. (k - 1)], q[k])
  <2>1. /\ 1 .. k \in SUBSET (1 .. n) /\ 1 .. k # {}
        /\ Max(1 .. k) = k /\ (1 .. k) \ {k} = 1 .. (k - 1)
    <3>1. k \in Nat /\ k # 0 /\ 1 .. k \in SUBSET (1 .. n) /\ k \in 1 .. k
        OBVIOUS
    <3>2. QED
        BY <3>1, MaxUpTo
  <2>2. G[1 .. k] = Replayed(sess, G[(1 .. k) \ {Max(1 .. k)}], q[Max(1 .. k)])
      BY <1>6, <2>1 DEF ReplayIter
  <2>3. QED
      BY <2>1, <2>2
<1>9. f[0] = NewSession(sess)
  <2>1. G[{}] = NewSession(sess)
      BY <1>6 DEF ReplayIter
  <2>2. 1 .. 0 = {}
      OBVIOUS
  <2>3. QED
      BY <2>1, <2>2
<1>10. \A k \in 1 .. n : f[k] = Replayed(sess, f[k - 1], q[k])
    BY <1>8
<1>11. f[n] = G[DOMAIN q]
    OBVIOUS
<1> HIDE DEF f
<1>12. QED
    BY <1>7, <1>9, <1>10, <1>11

------------------------------------------------------------------------------
(* Sequences *)

IsSeq(q) == q \in Seq(Range(q))

LEMMA SeqOverRange == ASSUME NEW S, NEW q \in Seq(S) PROVE IsSeq(q) /\ Range(q) \subseteq S
<1>1. Len(q) \in Nat /\ q \in [1 .. Len(q) -> S] /\ DOMAIN q = 1 .. Len(q)
    BY LenProperties
<1>2. q \in [1 .. Len(q) -> Range(q)] /\ Range(q) \subseteq S
    BY <1>1 DEF Range
<1>3. QED
    BY <1>1, <1>2 DEF IsSeq

LEMMA InRange ==
    ASSUME NEW q, IsSeq(q)
    PROVE  /\ Len(q) \in Nat /\ DOMAIN q = 1 .. Len(q)
           /\ q \in [1 .. Len(q) -> Range(q)]
           /\ \A i \in 1 .. Len(q) : q[i] \in Range(q)
           /\ \A x \in Range(q) : \E i \in 1 .. Len(q) : x = q[i]
<1>1. Len(q) \in Nat /\ DOMAIN q = 1 .. Len(q) /\ q \in [1 .. Len(q) -> Range(q)]
    BY LenProperties DEF IsSeq
<1>2. QED
    BY <1>1 DEF Range

LEMMA NoneYet == /\ IsSeq(<<>>) /\ Range(<<>>) = {} /\ Len(<<>>) = 0
                  /\ IsInjective(<<>>) /\ (\A S : <<>> \in Seq(S))
<1>1. \A S : <<>> \in Seq(S)
    OBVIOUS
<1>2. Range(<<>>) = {} /\ IsInjective(<<>>)
    BY DEF Range, IsInjective
<1>3. Len(<<>>) = 0
    OBVIOUS
<1>4. IsSeq(<<>>)
    BY <1>1 DEF IsSeq
<1>5. QED
    BY <1>1, <1>2, <1>3, <1>4, Zenon

LEMMA Appended ==
    ASSUME NEW q, IsSeq(q), NEW x
    PROVE  /\ IsSeq(Append(q, x)) /\ Range(Append(q, x)) = Range(q) \cup {x}
           /\ Len(Append(q, x)) = Len(q) + 1
           /\ Append(q, x)[Len(q) + 1] = x
           /\ \A i \in 1 .. Len(q) : Append(q, x)[i] = q[i]
<1> DEFINE n == Len(q)
           a == Append(q, x)
<1>1. /\ n \in Nat /\ DOMAIN q = 1 .. n
      /\ \A i \in 1 .. n : q[i] \in Range(q)
      /\ \A y \in Range(q) : \E i \in 1 .. n : y = q[i]
    BY InRange
<1>2. q \in Seq(Range(q) \cup {x})
  <2>1. q \in [1 .. n -> Range(q) \cup {x}]
      BY InRange
  <2>2. QED
      BY <1>1, <2>1
<1>3. /\ a \in Seq(Range(q) \cup {x})
      /\ Len(a) = n + 1 /\ a[n + 1] = x
      /\ \A i \in 1 .. n : a[i] = q[i]
    BY <1>2, AppendProperties
<1> HIDE DEF a
<1>4. IsSeq(a) /\ DOMAIN a = 1 .. n + 1 /\ Range(a) \subseteq Range(q) \cup {x}
    BY <1>3, SeqOverRange, LenProperties
<1>5. \A y \in Range(q) : y \in Range(a)
  <2>1. ASSUME NEW i \in 1 .. n PROVE q[i] \in Range(a)
    <3>1. i \in 1 .. n + 1 /\ a[i] = q[i]
        BY <1>1, <1>3
    <3>2. QED
        BY <1>4, <3>1 DEF Range
  <2>2. QED
      BY <1>1, <2>1
<1>6. x \in Range(a)
  <2>1. n + 1 \in 1 .. n + 1
      BY <1>1
  <2>2. QED
      BY <1>3, <1>4, <2>1 DEF Range
<1>7. QED
    BY <1>3, <1>4, <1>5, <1>6 DEF a

\* t goes on from s.
Grown(s, t) ==
    Len(s) <= Len(t) /\ \A i \in 1 .. Len(s) : t[i] = s[i]

LEMMA GrownOnce == ASSUME NEW s, IsSeq(s) PROVE Grown(s, s)
BY InRange DEF Grown

LEMMA GrownTwice ==
    ASSUME NEW s, NEW t, NEW u, IsSeq(s), IsSeq(t), IsSeq(u), Grown(s, t), Grown(t, u)
    PROVE  Grown(s, u)
<1>1. Len(s) \in Nat /\ Len(t) \in Nat /\ Len(u) \in Nat
    BY InRange
<1>2. QED
    BY <1>1 DEF Grown

LEMMA GrownIsPrefix ==
    ASSUME NEW s, NEW t, IsSeq(s), IsSeq(t), Grown(s, t)
    PROVE  IsPrefix(s, t)
<1> DEFINE n == Len(s)
<1>1. /\ n \in Nat /\ Len(t) \in Nat /\ n <= Len(t)
      /\ \A i \in 1 .. n : s[i] \in Range(s) /\ t[i] \in Range(s) /\ t[i] = s[i]
    BY InRange DEF Grown
<1> HIDE DEF n
<1>2. /\ SubSeq(s, 1, n) \in Seq(Range(s)) /\ SubSeq(t, 1, n) \in Seq(Range(s))
      /\ Len(SubSeq(s, 1, n)) = n /\ Len(SubSeq(t, 1, n)) = n
      /\ \A i \in 1 .. n : SubSeq(s, 1, n)[i] = s[i] /\ SubSeq(t, 1, n)[i] = t[i]
  <2>1. /\ 1 \in Int /\ n \in Int /\ n - 1 + 1 = n /\ \A i \in 1 .. n : 1 + i - 1 = i
        /\ (1 <= n => n - 1 + 1 = n) /\ (~(1 <= n) => n = 0)
      BY <1>1
  <2>2. QED
      BY <1>1, <2>1, SubSeqProperties
<1>3. SubSeq(s, 1, n) = SubSeq(t, 1, n)
  <2>1. /\ SubSeq(s, 1, n) \in [1 .. n -> Range(s)]
        /\ SubSeq(t, 1, n) \in [1 .. n -> Range(s)]
    <3>1. ASSUME NEW u \in Seq(Range(s)), Len(u) = n PROVE u \in [1 .. n -> Range(s)]
        BY <3>1, LenProperties
    <3>2. QED
        BY <1>2, <3>1
  <2>2. \A i \in 1 .. n : SubSeq(s, 1, n)[i] = SubSeq(t, 1, n)[i]
      BY <1>1, <1>2
  <2> DEFINE a == SubSeq(s, 1, n)
             b == SubSeq(t, 1, n)
  <2>3. a \in [1 .. n -> Range(s)] /\ b \in [1 .. n -> Range(s)]
      BY <2>1
  <2>4. \A i \in 1 .. n : a[i] = b[i]
      BY <2>2
  <2> HIDE DEF a, b
  <2>5. a = b
      BY <1>1, <2>3, <2>4
  <2>6. QED
      BY <2>5, Zenon DEF a, b
<1>4. QED
    BY <1>1, <1>3 DEF IsPrefix, n

------------------------------------------------------------------------------
(* States count every event once and only grow *)

LEMMA ProjectedOnce ==
    ASSUME NEW state, IsSeq(state), IsInjective(state), NEW id
    PROVE  LET t == ProjectUnique(state, id)
           IN  /\ IsSeq(t) /\ IsInjective(t) /\ Grown(state, t)
               /\ Range(t) = Range(state) \cup {id}
<1>1. /\ Len(state) \in Nat /\ DOMAIN state = 1 .. Len(state)
      /\ \A i \in 1 .. Len(state) : state[i] \in Range(state)
      /\ \A x \in Range(state) : \E i \in 1 .. Len(state) : x = state[i]
    BY InRange
<1>2. CASE Contains(state, id)
  <2>1. ProjectUnique(state, id) = state /\ id \in Range(state)
      BY <1>1, <1>2 DEF ProjectUnique, Contains
  <2>2. QED
      BY <2>1, GrownOnce
<1>3. CASE ~Contains(state, id)
  <2> DEFINE t == Append(state, id)
             n == Len(state)
  <2>1. ProjectUnique(state, id) = t /\ id \notin Range(state)
      BY <1>1, <1>3 DEF ProjectUnique, Contains
  <2>2. /\ IsSeq(t) /\ Range(t) = Range(state) \cup {id}
        /\ Len(t) = n + 1 /\ t[n + 1] = id /\ \A i \in 1 .. n : t[i] = state[i]
      BY Appended
  <2>3. DOMAIN t = 1 .. n + 1
      BY <2>2, InRange
  <2> HIDE DEF t
  <2>4. IsInjective(t)
    <3>1. ASSUME NEW i \in 1 .. n + 1, NEW j \in 1 .. n + 1, t[i] = t[j]
          PROVE  i = j
      <4>1. CASE i \in 1 .. n /\ j \in 1 .. n
          BY <1>1, <2>2, <3>1, <4>1 DEF IsInjective
      <4>2. CASE i = n + 1 /\ j \in 1 .. n
          BY <1>1, <2>1, <2>2, <3>1, <4>2
      <4>3. CASE i \in 1 .. n /\ j = n + 1
          BY <1>1, <2>1, <2>2, <3>1, <4>3
      <4>4. QED
          BY <1>1, <4>1, <4>2, <4>3
    <3>2. QED
        BY <2>3, <3>1 DEF IsInjective
  <2>5. Grown(state, t)
      BY <1>1, <2>2 DEF Grown
  <2>6. QED
      BY <2>1, <2>2, <2>4, <2>5
<1>4. QED
    BY <1>2, <1>3

LEMMA ProjectedAll ==
    ASSUME NEW n \in Nat, NEW q, DOMAIN q = 1 .. n,
           NEW base, IsSeq(base), IsInjective(base)
    PROVE  /\ IsSeq(AllProjected(base, q)) /\ IsInjective(AllProjected(base, q))
           /\ Grown(base, AllProjected(base, q))
           /\ Range(AllProjected(base, q)) \subseteq Range(base) \cup {q[i].id : i \in 1 .. n}
<1> DEFINE X == Range(base) \cup {q[i].id : i \in 1 .. n}
           A == {a \in Seq(X) : IsInjective(a)}
<1>1. base \in A
  <2>1. base \in [1 .. Len(base) -> X] /\ Len(base) \in Nat
      BY InRange
  <2>2. QED
      BY <2>1
<1>2. \A a \in A : IsSeq(a) /\ IsInjective(a) /\ Range(a) \subseteq X
    BY SeqOverRange
<1>3. ASSUME NEW a \in A, NEW i \in 1 .. n PROVE ProjectUnique(a, q[i].id) \in A
  <2> DEFINE t == ProjectUnique(a, q[i].id)
  <2>1. IsSeq(t) /\ IsInjective(t) /\ Range(t) \subseteq X
      BY <1>2, ProjectedOnce
  <2> HIDE DEF t
  <2>2. t \in [1 .. Len(t) -> X] /\ Len(t) \in Nat
      BY <2>1, InRange
  <2>3. t \in A
      BY <2>1, <2>2
  <2>4. QED
      BY <2>3 DEF t
<1> HIDE DEF A
<1>4. PICK f : Projects(f, n, base, q)
    BY <1>1, <1>3, ProjectFold
<1> DEFINE Good(a) == IsSeq(a) /\ IsInjective(a) /\ Grown(base, a) /\ Range(a) \subseteq X
           S == {k \in 0 .. n : Good(f[k])}
<1>5. 0 \in S
    BY <1>4, GrownOnce DEF Projects
<1>6. ASSUME NEW k \in 1 .. n, k - 1 \in S PROVE k \in S
  <2>1. IsSeq(f[k - 1]) /\ IsInjective(f[k - 1]) /\ Grown(base, f[k - 1]) /\ Range(f[k - 1]) \subseteq X
      BY <1>6
  <2>2. /\ IsSeq(f[k]) /\ IsInjective(f[k]) /\ Grown(f[k - 1], f[k])
        /\ Range(f[k]) = Range(f[k - 1]) \cup {q[k].id}
      BY <1>4, <2>1, ProjectedOnce DEF Projects
  <2>3. QED
      BY <2>1, <2>2, GrownTwice
<1> HIDE DEF S
<1>7. n \in S
    BY <1>5, <1>6, UpTo
<1>8. QED
    BY <1>4, <1>7 DEF S, Projects

------------------------------------------------------------------------------
(* Lists in time order *)

Timed(S) == IsFiniteSet(S) /\ \A t \in S : t.at \in Nat

InTime(q) ==
    /\ IsInjective(q)
    /\ \A i, j \in DOMAIN q : i < j => q[i].at <= q[j].at

LEMMA Latest ==
    ASSUME NEW S, Timed(S), S # {}
    PROVE  \E m \in S : \A t \in S : t.at <= m.at
<1> DEFINE C == {T \in SUBSET S : T # {} /\ ~ \E m \in T : \A t \in T : t.at <= m.at}
<1>1. \A T \in C : IsFiniteSet(T)
    BY FS_Subset DEF Timed
<1>2. SUFFICES ASSUME C # {} PROVE FALSE
    OBVIOUS
<1>3. PICK T \in C : \A x \in T : T \ {x} \notin C
    BY <1>1, <1>2, SmallestOf
<1>4. PICK x \in T : TRUE
    OBVIOUS
<1>5. \A t \in T : t.at \in Nat
    BY DEF Timed
<1>6. CASE T = {x}
    BY <1>5, <1>6
<1>7. CASE T # {x}
  <2>1. PICK m \in T \ {x} : \A t \in T \ {x} : t.at <= m.at
    <3> DEFINE R == T \ {x}
    <3>1. R \in SUBSET S /\ R # {} /\ R \notin C
      <4>1. T \in SUBSET S
          OBVIOUS
      <4>2. R \in SUBSET S /\ R # {}
          BY <1>4, <1>7, <4>1
      <4>3. R \notin C
          BY <1>3, <1>4, Zenon
      <4>4. QED
          BY <4>2, <4>3
    <3> HIDE DEF R
    <3>2. \E m \in R : \A t \in R : t.at <= m.at
        BY <3>1
    <3>3. QED
        BY <3>2 DEF R
  <2>2. CASE x.at <= m.at
      BY <1>4, <2>1, <2>2
  <2>3. CASE ~(x.at <= m.at)
    <3>1. \A t \in T : t.at <= x.at
        BY <1>4, <1>5, <2>1, <2>3
    <3>2. QED
        BY <1>4, <3>1
  <2>4. QED
      BY <2>2, <2>3
<1>8. QED
    BY <1>6, <1>7

\* A list of the others with the latest behind is a list of them all.
LEMMA ListGrows ==
    ASSUME NEW S, Timed(S), NEW m, m \notin S, m.at \in Nat,
           \A t \in S : t.at <= m.at,
           NEW q \in [1 .. Cardinality(S) -> S], InTime(q)
    PROVE  /\ Append(q, m) \in [1 .. Cardinality(S \cup {m}) -> S \cup {m}]
           /\ InTime(Append(q, m))
<1> DEFINE n == Cardinality(S)
           a == Append(q, m)
<1>1. n \in Nat /\ Cardinality(S \cup {m}) = n + 1
    BY FS_CardinalityType, FS_AddElement DEF Timed
<1>2. DOMAIN q = 1 .. n
    OBVIOUS
<1> HIDE DEF n
<1>3. q \in Seq(S) /\ Len(q) = n
    BY <1>1, LenProperties DEF n
<1>4. /\ IsSeq(a) /\ Range(a) \subseteq S \cup {m} /\ Len(a) = n + 1
      /\ a[n + 1] = m /\ \A i \in 1 .. n : a[i] = q[i]
  <2>1. IsSeq(q) /\ Range(q) \subseteq S
      BY <1>3, SeqOverRange
  <2>2. QED
      BY <1>3, <2>1, Appended
<1> HIDE DEF a
<1>5. DOMAIN a = 1 .. n + 1 /\ a \in [1 .. n + 1 -> S \cup {m}]
    BY <1>4, InRange
<1>6. \A i \in 1 .. n : q[i] \in S
    BY DEF n
<1>7. ASSUME NEW i \in 1 .. n + 1, NEW j \in 1 .. n + 1, a[i] = a[j] PROVE i = j
  <2>1. CASE i \in 1 .. n /\ j \in 1 .. n
    <3>1. q[i] = q[j] /\ i \in DOMAIN q /\ j \in DOMAIN q
        BY <1>2, <1>4, <1>7, <2>1
    <3>2. QED
        BY <3>1 DEF InTime, IsInjective
  <2>2. CASE i = n + 1 /\ j \in 1 .. n
      BY <1>4, <1>6, <1>7, <2>2
  <2>3. CASE i \in 1 .. n /\ j = n + 1
      BY <1>4, <1>6, <1>7, <2>3
  <2>4. QED
      BY <1>1, <2>1, <2>2, <2>3
<1>8. ASSUME NEW i \in 1 .. n + 1, NEW j \in 1 .. n + 1, i < j
      PROVE  a[i].at <= a[j].at
  <2>1. i \in 1 .. n
      BY <1>1, <1>8
  <2>2. CASE j \in 1 .. n
      BY <1>2, <1>4, <1>8, <2>1, <2>2 DEF InTime, n
  <2>3. CASE j = n + 1
      BY <1>4, <1>6, <2>1, <2>3
  <2>4. QED
      BY <1>1, <2>2, <2>3
<1>9. InTime(a)
    BY <1>5, <1>7, <1>8 DEF InTime, IsInjective
<1>10. QED
    BY <1>1, <1>5, <1>9 DEF a

LEMMA Listable ==
    ASSUME NEW S, Timed(S)
    PROVE  \E q \in [1 .. Cardinality(S) -> S] : InTime(q)
<1> DEFINE C == {T \in SUBSET S : ~ \E q \in [1 .. Cardinality(T) -> T] : InTime(q)}
<1>1. \A T \in C : IsFiniteSet(T)
    BY FS_Subset DEF Timed
<1>2. SUFFICES ASSUME C # {} PROVE FALSE
    BY <1>2
<1>3. PICK T \in C : \A x \in T : T \ {x} \notin C
    BY <1>1, <1>2, SmallestOf
<1>4. T \in SUBSET S /\ IsFiniteSet(T) /\ ~ \E q \in [1 .. Cardinality(T) -> T] : InTime(q)
    BY <1>1
<1>5. \A x \in T : \E q \in [1 .. Cardinality(T \ {x}) -> T \ {x}] : InTime(q)
    BY <1>3, <1>4
<1> HIDE DEF C
<1>6. CASE T = {}
  <2>1. <<>> \in [1 .. Cardinality(T) -> T]
    <3>1. Cardinality(T) = 0
        BY <1>6, FS_EmptySet
    <3>2. QED
        BY <3>1
  <2>2. InTime(<<>>)
      BY NoneYet DEF InTime
  <2>3. QED
      BY <1>4, <2>1, <2>2
<1>7. CASE T # {}
  <2>1. Timed(T)
      BY <1>4 DEF Timed
  <2>2. PICK m \in T : \A t \in T : t.at <= m.at
      BY <1>7, <2>1, Latest
  <2> DEFINE R == T \ {m}
  <2>3. PICK q \in [1 .. Cardinality(R) -> R] : InTime(q)
      BY <1>5
  <2>4. /\ Timed(R) /\ m \notin R /\ m.at \in Nat /\ \A t \in R : t.at <= m.at
        /\ R \cup {m} = T
      BY <2>1, <2>2, FS_RemoveElement DEF Timed
  <2> HIDE DEF R
  <2>5. Append(q, m) \in [1 .. Cardinality(T) -> T] /\ InTime(Append(q, m))
      BY <2>3, <2>4, ListGrows
  <2>6. QED
      BY <1>4, <2>5
<1>8. QED
    BY <1>6, <1>7

LEMMA ListedIs ==
    ASSUME NEW S, Timed(S)
    PROVE  /\ Listed(S) \in [1 .. Cardinality(S) -> S] /\ InTime(Listed(S))
           /\ Cardinality(S) \in Nat /\ DOMAIN Listed(S) = 1 .. Cardinality(S)
           /\ IsSeq(Listed(S)) /\ Range(Listed(S)) = S
<1> DEFINE n == Cardinality(S)
           q == Listed(S)
<1>1. q \in [1 .. n -> S] /\ InTime(q)
  <2>1. q = CHOOSE x \in [1 .. n -> S] : InTime(x)
      BY Zenon DEF Listed, InTime
  <2>2. QED
      BY <2>1, Listable, Zenon
<1>2. n \in Nat
    BY FS_CardinalityType DEF Timed
<1> HIDE DEF q
<1>3. DOMAIN q = 1 .. n
    BY <1>1
<1> HIDE DEF n
<1>4. q \in Seq(S)
    BY <1>1, <1>2
<1>5. IsSeq(q) /\ Range(q) \subseteq S
    BY <1>4, SeqOverRange
<1>6. Range(q) = S
  <2>1. q \in Bijection(1 .. n, Range(q))
      BY <1>1, <1>3 DEF Bijection, Injection, Surjection, InTime, IsInjective, Range
  <2>2. IsFiniteSet(1 .. n) /\ Cardinality(1 .. n) = n
      BY <1>2, FS_Interval
  <2>3. Cardinality(Range(q)) = n
      BY <2>1, <2>2, FS_Bijection DEF ExistsBijection
  <2>4. QED
      BY <1>5, <2>3, FS_Subset DEF Timed, n
<1>7. QED
    BY <1>1, <1>2, <1>3, <1>5, <1>6 DEF q, n

------------------------------------------------------------------------------
(* Sessions keep their active episode on the stack *)

Ep == Session \X Nat

Stacked == {x \in [active : Ep, stack : Seq(Ep), next : Nat] : x.active \in Range(x.stack)}

LEMMA EpisodeIds == EpisodeId \subseteq Ep /\ \A s \in Session : Main(s) \in Ep
<1>1. \A n : 0 .. n \subseteq Nat
    OBVIOUS
<1>2. QED
    BY <1>1, EpisodeAssumption DEF EpisodeId, Ep, Main

LEMMA WithinSeq ==
    ASSUME NEW S, NEW q, IsSeq(q), Range(q) \subseteq S
    PROVE  q \in Seq(S)
<1>1. q \in [1 .. Len(q) -> Range(q)] /\ Len(q) \in Nat
    BY InRange
<1>2. q \in [1 .. Len(q) -> S]
    BY <1>1
<1>3. QED
    BY <1>1, <1>2

LEMMA ContainsIs ==
    ASSUME NEW q, IsSeq(q), NEW x
    PROVE  Contains(q, x) <=> x \in Range(q)
<1>1. /\ \A i \in 1 .. Len(q) : q[i] \in Range(q)
      /\ \A y \in Range(q) : \E i \in 1 .. Len(q) : y = q[i]
    BY InRange
<1>2. QED
    BY <1>1 DEF Contains

LEMMA AppendUniqueIs ==
    ASSUME NEW q \in Seq(Ep), NEW e \in Ep
    PROVE  /\ AppendUnique(q, e) \in Seq(Ep)
           /\ Range(AppendUnique(q, e)) = Range(q) \cup {e}
<1>1. IsSeq(q) /\ Range(q) \subseteq Ep
    BY SeqOverRange
<1>2. CASE Contains(q, e)
  <2>1. e \in Range(q)
      BY <1>1, <1>2, ContainsIs
  <2>2. QED
      BY <1>2, <2>1 DEF AppendUnique
<1>3. CASE ~Contains(q, e)
  <2> DEFINE a == Append(q, e)
  <2>0. IsSeq(a) /\ Range(a) = Range(q) \cup {e}
      BY <1>1, Appended
  <2>1. IsSeq(a) /\ Range(a) = Range(q) \cup {e} /\ Range(a) \subseteq Ep
      BY <1>1, <2>0
  <2> HIDE DEF a
  <2>2. a \in Seq(Ep)
      BY <2>1, WithinSeq
  <2>3. QED
      BY <1>3, <2>1, <2>2 DEF AppendUnique, a
<1>4. QED
    BY <1>2, <1>3

\* The first k of a sequence.
LEMMA FirstOf ==
    ASSUME NEW S, NEW q \in Seq(S), NEW k \in Nat, k <= Len(q)
    PROVE  /\ SubSeq(q, 1, k) \in Seq(S) /\ Len(SubSeq(q, 1, k)) = k
           /\ \A i \in 1 .. k : SubSeq(q, 1, k)[i] = q[i]
<1>1. Len(q) \in Nat /\ \A i \in 1 .. Len(q) : q[i] \in S
    BY LenProperties
<1>2. \A i \in 1 .. k : q[i] \in S
    BY <1>1
<1>3. /\ 1 \in Int /\ k \in Int /\ \A i \in 1 .. k : 1 + i - 1 = i
      /\ (1 <= k => k - 1 + 1 = k) /\ (~(1 <= k) => k = 0)
    OBVIOUS
<1>4. QED
    BY <1>2, <1>3, SubSeqProperties

LEMMA TrimToIs ==
    ASSUME NEW q \in Seq(Ep), NEW e \in Ep
    PROVE  TrimTo(q, e) \in Seq(Ep) /\ e \in Range(TrimTo(q, e))
<1>1. IsSeq(q) /\ Range(q) \subseteq Ep /\ Len(q) \in Nat
    BY SeqOverRange, InRange
<1>2. CASE Contains(q, e)
  <2> DEFINE I == {i \in 1 .. Len(q) : q[i] = e}
  <2>1. I # {} /\ I \in SUBSET (1 .. Len(q))
      BY <1>2 DEF Contains
  <2>2. Max(I) \in I
      BY <1>1, <2>1, MaxOf
  <2>3. TrimTo(q, e) = SubSeq(q, 1, Max(I))
      BY <1>2, <2>1, Zenon DEF TrimTo, SelectLastInSeq
  <2> DEFINE k == Max(I)
             t == SubSeq(q, 1, k)
  <2>4. k \in Nat /\ 1 <= k /\ k <= Len(q) /\ q[k] = e
      BY <1>1, <2>2
  <2> HIDE DEF k
  <2>5. t \in Seq(Ep) /\ Len(t) = k /\ t[k] = e
      BY <2>4, FirstOf
  <2> HIDE DEF t
  <2>6. e \in Range(t)
    <3>1. k \in 1 .. Len(t)
        BY <2>4, <2>5
    <3>2. QED
        BY <2>5, <3>1, SeqOverRange, InRange
  <2>7. QED
      BY <2>3, <2>5, <2>6 DEF t, k
<1>3. CASE ~Contains(q, e)
  <2> DEFINE a == Append(q, e)
  <2>0. IsSeq(a) /\ Range(a) = Range(q) \cup {e}
      BY <1>1, Appended
  <2>1. IsSeq(a) /\ Range(a) = Range(q) \cup {e} /\ Range(a) \subseteq Ep
      BY <1>1, <2>0
  <2> HIDE DEF a
  <2>2. a \in Seq(Ep)
      BY <2>1, WithinSeq
  <2>3. QED
      BY <1>3, <2>1, <2>2 DEF TrimTo, a
<1>4. QED
    BY <1>2, <1>3

LEMMA NewStacked == ASSUME NEW s \in Session PROVE NewSession(s) \in Stacked
<1> DEFINE q == <<Main(s)>>
<1>1. q \in Seq(Ep)
    BY EpisodeIds
<1>2. Main(s) \in Range(q)
    BY DEF Range
<1> HIDE DEF q
<1>3. [active |-> Main(s), stack |-> q, next |-> 0] \in Stacked
    BY <1>1, <1>2, EpisodeIds DEF Stacked
<1>4. QED
    BY <1>3 DEF NewSession, q

LEMMA StackedIs ==
    ASSUME NEW x \in Stacked
    PROVE  /\ x = [active |-> x.active, stack |-> x.stack, next |-> x.next]
           /\ x.active \in Ep /\ x.stack \in Seq(Ep) /\ x.next \in Nat
           /\ x.active \in Range(x.stack)
           /\ IsSeq(x.stack) /\ Len(x.stack) \in Nat /\ 1 <= Len(x.stack)
<1>1. /\ x = [active |-> x.active, stack |-> x.stack, next |-> x.next]
      /\ x.active \in Ep /\ x.stack \in Seq(Ep) /\ x.next \in Nat
      /\ x.active \in Range(x.stack)
    BY DEF Stacked
<1>2. IsSeq(x.stack)
    BY <1>1, SeqOverRange
<1>3. Len(x.stack) \in Nat /\ \E i \in 1 .. Len(x.stack) : x.active = x.stack[i]
    BY <1>1, <1>2, InRange
<1>4. QED
    BY <1>1, <1>2, <1>3

LEMMA IsStacked ==
    ASSUME NEW e \in Ep, NEW q \in Seq(Ep), NEW n \in Nat, e \in Range(q)
    PROVE  [active |-> e, stack |-> q, next |-> n] \in Stacked
BY DEF Stacked

LEMMA ResolvedStacked ==
    ASSUME NEW s \in Session, SessionOf(s) \in Stacked, NEW op \in Operation
    PROVE  Resolved(s, op) \in Stacked
<1> DEFINE x == SessionOf(s)
           new == <<s, x.next + 1>>
           popped == Front(x.stack)
<1>1. /\ x = [active |-> x.active, stack |-> x.stack, next |-> x.next]
      /\ x.active \in Ep /\ x.stack \in Seq(Ep) /\ x.next \in Nat
      /\ x.active \in Range(x.stack)
      /\ IsSeq(x.stack) /\ Len(x.stack) \in Nat /\ 1 <= Len(x.stack)
    BY StackedIs
<1>2. CASE op = "interrupt"
  <2> DEFINE a == Append(x.stack, new)
             n == x.next + 1
  <2>1. new \in Ep /\ n \in Nat
      BY <1>1 DEF Ep
  <2>0. IsSeq(a) /\ Range(a) = Range(x.stack) \cup {new}
      BY <1>1, Appended
  <2>2. IsSeq(a) /\ Range(a) = Range(x.stack) \cup {new} /\ Range(a) \subseteq Ep
    <3>1. Range(x.stack) \subseteq Ep
        BY <1>1, SeqOverRange
    <3>2. QED
        BY <2>0, <2>1, <3>1
  <2>3. Resolved(s, op) = [active |-> new, stack |-> a, next |-> n]
      BY <1>2 DEF Resolved
  <2> HIDE DEF a, new, n
  <2>4. a \in Seq(Ep)
      BY <2>2, WithinSeq
  <2>5. QED
      BY <2>1, <2>2, <2>3, <2>4, IsStacked
<1>3. CASE op = "resume" /\ Len(x.stack) > 1
  <2>1. Resolved(s, op) = [x EXCEPT !.active = Last(popped), !.stack = popped]
    <3>0. \A l \in Nat : l > 1 => l # 1
        OBVIOUS
    <3>1. op # "interrupt" /\ Len(x.stack) # 1
      <4>1. op # "interrupt"
          BY <1>3
      <4>2. Len(x.stack) \in Nat /\ Len(x.stack) > 1
          BY <1>1, <1>3, Zenon
      <4>3. QED
          BY <3>0, <4>1, <4>2, Zenon
    <3>2. QED
        BY <1>3, <3>1 DEF Resolved, Front, Last
  <2> DEFINE k == Len(x.stack) - 1
             l == Last(popped)
  <2>2. k \in Nat /\ 1 <= k /\ k <= Len(x.stack)
      BY <1>1, <1>3
  <2>3. popped \in Seq(Ep) /\ Len(popped) = k
      BY <1>1, <2>2, FirstOf DEF Front
  <2> HIDE DEF popped, k
  <2>4. l \in Range(popped) /\ Range(popped) \subseteq Ep
    <3>1. IsSeq(popped) /\ Range(popped) \subseteq Ep /\ Len(popped) \in 1 .. Len(popped)
        BY <2>2, <2>3, SeqOverRange
    <3>2. QED
        BY <3>1, InRange DEF Last
  <2> HIDE DEF l, x
  <2>5. Resolved(s, op) = [active |-> l, stack |-> popped, next |-> x.next]
      BY <1>1, <2>1 DEF l
  <2>6. QED
      BY <1>1, <2>3, <2>4, <2>5, IsStacked
<1>4. CASE op = "resume" /\ Len(x.stack) = 1
  <2> DEFINE q == <<Main(s)>>
  <2>1. Resolved(s, op) = [x EXCEPT !.active = Main(s), !.stack = q]
      BY <1>4 DEF Resolved
  <2>2. q \in Seq(Ep) /\ Main(s) \in Ep
      BY EpisodeIds
  <2>3. Main(s) \in Range(q)
      BY DEF Range
  <2> HIDE DEF q, x
  <2>4. Resolved(s, op) = [active |-> Main(s), stack |-> q, next |-> x.next]
      BY <1>1, <2>1
  <2>5. QED
      BY <1>1, <2>2, <2>3, <2>4, IsStacked
<1>5. CASE op = "continue"
    BY <1>5 DEF Resolved
<1>6. QED
  <2>1. Len(x.stack) > 1 \/ Len(x.stack) = 1
    <3>1. \A l \in Nat : 1 <= l => l > 1 \/ l = 1
        OBVIOUS
    <3>2. QED
        BY <1>1, <3>1
  <2>2. QED
      BY <1>2, <1>3, <1>4, <1>5, <2>1 DEF Operation

\* What both ways to say which episode is active make of the stack.
LEMMA StackWith ==
    ASSUME NEW q \in Seq(Ep), NEW e \in Ep, NEW op
    PROVE  LET t == IF op = "resume" THEN TrimTo(q, e) ELSE q
               u == IF op = "resume" THEN TrimTo(q, e) ELSE AppendUnique(q, e)
           IN  /\ AppendUnique(t, e) \in Seq(Ep) /\ e \in Range(AppendUnique(t, e))
               /\ u \in Seq(Ep) /\ e \in Range(u)
<1> DEFINE t == IF op = "resume" THEN TrimTo(q, e) ELSE q
<1>1. t \in Seq(Ep)
    BY TrimToIs
<1> HIDE DEF t
<1>2. AppendUnique(t, e) \in Seq(Ep) /\ e \in Range(AppendUnique(t, e))
    BY <1>1, AppendUniqueIs
<1>3. QED
    BY <1>2, TrimToIs, AppendUniqueIs DEF t

LEMMA RememberedStacked ==
    ASSUME NEW s, s \in DOMAIN sessions => sessions[s] \in Stacked, NEW e \in Ep, NEW op
    PROVE  Remembered(s, e, op) \in Stacked
<1> DEFINE new == [active |-> e, stack |-> <<e>>, next |-> 0]
           x == IF s \in DOMAIN sessions THEN sessions[s] ELSE new
           t == IF op = "resume" THEN TrimTo(x.stack, e) ELSE x.stack
           u == AppendUnique(t, e)
<1>1. new \in Stacked
  <2>1. <<e>> \in Seq(Ep) /\ e \in Range(<<e>>)
      BY DEF Range
  <2>2. QED
      BY <2>1, IsStacked
<1> HIDE DEF new
<1>2. x \in Stacked
    BY <1>1
<1>3. /\ x = [active |-> x.active, stack |-> x.stack, next |-> x.next]
      /\ x.stack \in Seq(Ep) /\ x.next \in Nat
    BY <1>2, StackedIs
<1>4. Remembered(s, e, op) = [x EXCEPT !.active = e, !.stack = u]
    BY DEF Remembered, new
<1>5. u \in Seq(Ep) /\ e \in Range(u)
    BY <1>3, StackWith
<1> HIDE DEF u, x
<1>6. Remembered(s, e, op) = [active |-> e, stack |-> u, next |-> x.next]
    BY <1>3, <1>4
<1>7. QED
    BY <1>3, <1>5, <1>6, IsStacked

LEMMA AppliedStacked ==
    ASSUME NEW s, NEW x \in Stacked, NEW e \in Ep, NEW op
    PROVE  Applied(s, x, e, op) \in Stacked
<1> DEFINE u == IF op = "resume" THEN TrimTo(x.stack, e) ELSE AppendUnique(x.stack, e)
           n == IF e[1] = s THEN Max({x.next, e[2]}) ELSE x.next
<1>1. x.stack \in Seq(Ep) /\ x.next \in Nat
    BY StackedIs
<1>2. u \in Seq(Ep) /\ e \in Range(u)
    BY <1>1, StackWith
<1>3. n \in Nat
  <2>1. e[2] \in Nat
      BY DEF Ep
  <2>2. Max({x.next, e[2]}) \in Nat
    <3> DEFINE S == {x.next, e[2]}
    <3>1. \E m \in S : \A y \in S : m >= y
        BY <1>1, <2>1
    <3>2. Max(S) \in S
        BY <3>1, Zenon DEF Max
    <3>3. QED
        BY <1>1, <2>1, <3>2
  <2>3. QED
      BY <1>1, <2>2
<1>4. Applied(s, x, e, op) = [active |-> e, stack |-> u, next |-> n]
    BY DEF Applied
<1> HIDE DEF u, n
<1>5. QED
    BY <1>2, <1>3, <1>4, IsStacked

\* What is left of a stack has the others on it.
LEMMA RemovedIs ==
    ASSUME NEW q \in Seq(Ep), NEW e
    PROVE  Removed(q, e) \in Seq(Ep) /\ Range(Removed(q, e)) = Range(q) \ {e}
<1> DEFINE n == Len(q)
           A == Seq(Ep)
<1>1. IsSeq(q) /\ Range(q) \subseteq Ep
    BY SeqOverRange
<1>2. /\ n \in Nat /\ DOMAIN q = 1 .. n
      /\ \A i \in 1 .. n : q[i] \in Range(q)
      /\ \A x \in Range(q) : \E i \in 1 .. n : x = q[i]
    BY <1>1, InRange
<1> HIDE DEF n
<1>3. \A i \in 1 .. n : q[i] \in Ep
    BY <1>1, <1>2
<1>4. <<>> \in A
    BY NoneYet
<1>5. \A a \in A, i \in 1 .. n : Dropped(a, q[i], e) \in A
  <2>1. TAKE a \in A, i \in 1 .. n
  <2>2. q[i] \in Ep
      BY <1>3
  <2>3. Append(a, q[i]) \in Seq(Ep)
      BY <2>2, AppendProperties
  <2>4. QED
      BY <2>3 DEF Dropped
<1> HIDE DEF A
<1>6. PICK f : /\ f[0] = <<>>
               /\ \A k \in 1 .. n : f[k] = Dropped(f[k - 1], q[k], e)
               /\ f[n] = Removed(q, e)
    BY <1>2, <1>4, <1>5, RemoveFold
<1> DEFINE S == {k \in 0 .. n : /\ f[k] \in A
                                /\ Range(f[k]) = {q[i] : i \in 1 .. k} \ {e}}
<1>7. 0 \in S
  <2>1. {q[i] : i \in 1 .. 0} = {}
      OBVIOUS
  <2>2. 0 \in 0 .. n
      BY <1>2
  <2>3. QED
      BY <1>4, <1>6, <2>1, <2>2, NoneYet
<1>8. ASSUME NEW k \in 1 .. n, k - 1 \in S PROVE k \in S
  <2>1. f[k - 1] \in A /\ Range(f[k - 1]) = {q[i] : i \in 1 .. k - 1} \ {e}
      BY <1>8
  <2>2. f[k] = Dropped(f[k - 1], q[k], e) /\ f[k] \in A
      BY <1>5, <1>6, <2>1
  <2>3. {q[i] : i \in 1 .. k} = {q[i] : i \in 1 .. k - 1} \cup {q[k]}
    <3>1. 1 .. k = (1 .. k - 1) \cup {k}
        OBVIOUS
    <3>2. QED
        BY <3>1
  <2>4. CASE q[k] = e
      BY <2>1, <2>2, <2>3, <2>4 DEF Dropped
  <2>5. CASE q[k] # e
    <3>1. IsSeq(f[k - 1])
        BY <2>1, SeqOverRange DEF A
    <3>2. Range(Append(f[k - 1], q[k])) = Range(f[k - 1]) \cup {q[k]}
        BY <3>1, Appended
    <3>3. f[k] = Append(f[k - 1], q[k])
        BY <2>2, <2>5 DEF Dropped
    <3>4. Range(f[k]) = {q[i] : i \in 1 .. k} \ {e}
        BY <2>1, <2>3, <2>5, <3>2, <3>3, Zenon
    <3>5. QED
        BY <2>2, <3>4
  <2>6. QED
      BY <2>4, <2>5
<1> HIDE DEF S
<1>9. n \in S
  <2>1. n \in Nat /\ \A k \in 1 .. n : k - 1 \in S => k \in S
      BY <1>2, <1>8
  <2>2. 0 .. n \subseteq S
      BY <1>7, <2>1, UpTo
  <2>3. QED
      BY <2>1, <2>2
<1>10. {q[i] : i \in 1 .. n} = Range(q)
    BY <1>2
<1>11. f[n] \in A /\ Range(f[n]) = {q[i] : i \in 1 .. n} \ {e}
    BY <1>9 DEF S
<1>12. QED
    BY <1>6, <1>10, <1>11, Zenon DEF A

LEMMA WithoutStacked ==
    ASSUME NEW s \in Session, NEW x \in Stacked, NEW e
    PROVE  Without(s, x, e) \in Stacked
<1> DEFINE rest == Removed(x.stack, e)
           q == IF rest = <<>> THEN <<Main(s)>> ELSE rest
           a == IF x.active = e THEN Last(q) ELSE x.active
<1>1. /\ x = [active |-> x.active, stack |-> x.stack, next |-> x.next]
      /\ x.active \in Ep /\ x.stack \in Seq(Ep) /\ x.next \in Nat
      /\ x.active \in Range(x.stack)
    BY StackedIs
<1>2. rest \in Seq(Ep) /\ Range(rest) = Range(x.stack) \ {e}
    BY <1>1, RemovedIs
<1> HIDE DEF rest
<1>3. CASE e = Main(s)
    BY <1>3, NewStacked DEF Without
<1>4. CASE e # Main(s)
  <2>1. Without(s, x, e) = [active |-> a, stack |-> q, next |-> x.next]
    <3>1. Without(s, x, e) = [x EXCEPT !.stack = q,
                                       !.active = IF x.active = e THEN Last(q) ELSE x.active]
        BY <1>4 DEF Without, rest
    <3> HIDE DEF q
    <3>2. QED
        BY <1>1, <3>1
  <2>2. q \in Seq(Ep) /\ q # <<>>
      BY <1>2, EpisodeIds
  <2>3. Last(q) \in Range(q) /\ Last(q) \in Ep
    <3> HIDE DEF q
    <3>1. IsSeq(q) /\ Range(q) \subseteq Ep /\ Len(q) \in Nat
        BY <2>2, SeqOverRange, LenProperties
    <3>2. Len(q) # 0
        BY <2>2, EmptySeq
    <3>3. Len(q) \in 1 .. Len(q)
        BY <3>1, <3>2
    <3>4. QED
        BY <3>1, <3>3, InRange DEF Last
  <2>4. x.active # e => x.active \in Range(q)
    <3>1. x.active # e => x.active \in Range(rest)
        BY <1>1, <1>2
    <3>2. QED
        BY <3>1, NoneYet
  <2> HIDE DEF q
  <2>5. a \in Ep /\ a \in Range(q)
      BY <1>1, <2>3, <2>4
  <2> HIDE DEF a
  <2>6. QED
      BY <1>1, <2>1, <2>2, <2>5, IsStacked
<1>5. QED
    BY <1>3, <1>4

LEMMA RebuiltStacked ==
    ASSUME NEW s \in Session, NEW n \in Nat, NEW q, DOMAIN q = 1 .. n,
           \A i \in 1 .. n : q[i].ep \in Ep
    PROVE  Rebuilt(s, q) \in Stacked
<1>1. \A x \in Stacked, i \in 1 .. n : Replayed(s, x, q[i]) \in Stacked
    BY AppliedStacked DEF Replayed
<1>2. NewSession(s) \in Stacked
    BY NewStacked
<1>3. PICK f : /\ f[0] = NewSession(s)
               /\ \A k \in 1 .. n : f[k] = Replayed(s, f[k - 1], q[k])
               /\ f[n] = Rebuilt(s, q)
    BY <1>1, <1>2, ReplayFold
<1> DEFINE S == {k \in 0 .. n : f[k] \in Stacked}
<1>4. 0 \in S
    BY <1>2, <1>3
<1>5. ASSUME NEW k \in 1 .. n, k - 1 \in S PROVE k \in S
    BY <1>1, <1>3, <1>5
<1> HIDE DEF S
<1>6. n \in S
    BY <1>4, <1>5, UpTo
<1>7. QED
    BY <1>3, <1>6 DEF S

------------------------------------------------------------------------------
(* The inductive invariant *)

IsNote(r) == r = [pc |-> r.pc, session |-> r.session, ep |-> r.ep, at |-> r.at]

GoodCall(r) == r.at \in Nat /\ Timed(r.loaded) /\ (r.pc # "idle" => r.ep \in Ep)

GoodNote(r) ==
    IsNote(r) /\ r.at \in Nat /\ (r.pc # "idle" => r.session \in Session /\ r.ep \in Ep)

GoodQuery(q) ==
    /\ q = [pc |-> q.pc, session |-> q.session, operations |-> q.operations]
    /\ q.pc # "idle" => q.session \in Session
    /\ \E n \in Nat : DOMAIN q.operations = 1 .. n /\ \A i \in 1 .. n : q.operations[i].ep \in Ep

Counted == \A e \in DOMAIN states : IsSeq(states[e]) /\ IsInjective(states[e])
Stacks  == DOMAIN sessions \subseteq Session /\ \A s \in DOMAIN sessions : sessions[s] \in Stacked
Calls   == clock \in Nat /\ \A c \in Call : GoodCall(call[c])
Notes   == note = [p \in Note |-> note[p]] /\ \A p \in Note : GoodNote(note[p])
Stored  == Timed(log) /\ Timed(unwritten) /\ \A t \in log \cup unwritten : t.ep \in Ep

KeptInv == Counted /\ Stacks /\ Calls /\ Notes /\ Stored /\ GoodQuery(query)

\* A value under one key.
LEMMA WithIs ==
    ASSUME NEW f, NEW x, NEW y
    PROVE  /\ DOMAIN With(f, x, y) = {x} \cup DOMAIN f
           /\ With(f, x, y)[x] = y
           /\ \A z \in DOMAIN f : z # x => With(f, x, y)[z] = f[z]
BY DEF With

LEMMA StateOfIs ==
    ASSUME Counted, NEW e
    PROVE  IsSeq(StateOf(e)) /\ IsInjective(StateOf(e))
BY NoneYet DEF Counted, StateOf

\* A state goes on from what it was.
LEMMA StateWith ==
    ASSUME Counted, NEW e, NEW t, IsSeq(t), IsInjective(t), Grown(StateOf(e), t),
           states' = With(states, e, t)
    PROVE  /\ Counted'
           /\ \A z \in DOMAIN states : z \in DOMAIN states' /\ IsPrefix(states[z], states'[z])
<1>1. /\ DOMAIN states' = {e} \cup DOMAIN states /\ states'[e] = t
      /\ \A z \in DOMAIN states : z # e => states'[z] = states[z]
    BY DEF With
<1>2. Counted'
    BY <1>1 DEF Counted
<1>3. ASSUME NEW z \in DOMAIN states PROVE IsPrefix(states[z], states'[z])
  <2>1. IsSeq(states[z]) /\ IsSeq(states'[z])
      BY <1>1, <1>2 DEF Counted
  <2>2. Grown(states[z], states'[z])
    <3>1. CASE z = e
        BY <1>1, <3>1 DEF StateOf
    <3>2. CASE z # e
        BY <1>1, <2>1, <3>2, GrownOnce
    <3>3. QED
        BY <3>1, <3>2
  <2>3. QED
      BY <2>1, <2>2, GrownIsPrefix
<1>4. QED
    BY <1>1, <1>2, <1>3

LEMMA StatesSame ==
    ASSUME Counted, states' = states
    PROVE  /\ Counted'
           /\ \A z \in DOMAIN states : z \in DOMAIN states' /\ IsPrefix(states[z], states'[z])
<1>1. Counted'
    BY DEF Counted
<1>2. ASSUME NEW z \in DOMAIN states PROVE IsPrefix(states[z], states'[z])
  <2>1. IsSeq(states[z])
      BY DEF Counted
  <2>2. Grown(states[z], states[z])
      BY <2>1, GrownOnce
  <2>3. IsPrefix(states[z], states[z])
      BY <2>1, <2>2, GrownIsPrefix
  <2>4. QED
      BY <2>3
<1>3. QED
    BY <1>1, <1>2

LEMMA InstallCounts ==
    ASSUME Counted, Calls, NEW c \in Call, InstallState(c)
    PROVE  /\ Counted'
           /\ \A z \in DOMAIN states : z \in DOMAIN states' /\ IsPrefix(states[z], states'[z])
<1> DEFINE e == call[c].ep
           l == call[c].loaded
           q == Listed(l)
           n == Cardinality(l)
           t == Installed(e, l)
<1>1. Timed(l)
    BY DEF Calls, GoodCall
<1>2. states' = With(states, e, t)
    BY DEF InstallState
<1> HIDE DEF e, l
<1>3. n \in Nat /\ DOMAIN q = 1 .. n
    BY <1>1, ListedIs
<1>4. t = AllProjected(StateOf(e), q)
    BY Zenon DEF Installed, AllProjected
<1> HIDE DEF q, n, t
<1>5. IsSeq(StateOf(e)) /\ IsInjective(StateOf(e))
    BY StateOfIs
<1>6. IsSeq(t) /\ IsInjective(t) /\ Grown(StateOf(e), t)
    BY <1>3, <1>4, <1>5, ProjectedAll
<1>7. QED
    BY <1>2, <1>6, StateWith

LEMMA RecordCounts ==
    ASSUME Counted, NEW e, NEW id, states' = With(states, e, ProjectUnique(StateOf(e), id))
    PROVE  /\ Counted'
           /\ \A z \in DOMAIN states : z \in DOMAIN states' /\ IsPrefix(states[z], states'[z])
<1> DEFINE t == ProjectUnique(StateOf(e), id)
<1>1. IsSeq(StateOf(e)) /\ IsInjective(StateOf(e))
    BY StateOfIs
<1>2. IsSeq(t) /\ IsInjective(t) /\ Grown(StateOf(e), t)
    BY <1>1, ProjectedOnce
<1> HIDE DEF t
<1>3. states' = With(states, e, t)
    BY DEF t
<1>4. QED
    BY <1>2, <1>3, StateWith

\* What a step does to the states.
LEMMA StatesStep ==
    ASSUME Counted, Calls, [Next]_vars
    PROVE  /\ Counted'
           /\ \/ \E c \in Call : ClearState(c)
              \/ Restart
              \/ \A z \in DOMAIN states : z \in DOMAIN states' /\ IsPrefix(states[z], states'[z])
<1>1. ASSUME NEW c \in Call, RecordCall(c)
      PROVE  /\ Counted'
             /\ \A z \in DOMAIN states : z \in DOMAIN states' /\ IsPrefix(states[z], states'[z])
    BY <1>1, RecordCounts DEF RecordCall
<1>2. ASSUME NEW p \in Note, ProjectNote(p)
      PROVE  /\ Counted'
             /\ \A z \in DOMAIN states : z \in DOMAIN states' /\ IsPrefix(states[z], states'[z])
    BY <1>2, RecordCounts DEF ProjectNote
<1>3. ASSUME NEW c \in Call, ClearState(c) PROVE Counted'
    BY <1>3 DEF ClearState, Counted
<1>4. CASE Restart
  <2>1. DOMAIN states' = {}
      BY <1>4 DEF Restart
  <2>2. QED
      BY <1>4, <2>1 DEF Counted
<1>5. CASE UNCHANGED states
    BY <1>5, StatesSame
<1>6. ASSUME NEW c \in Call, NEW s \in Session, NEW op \in Operation, NEW x, Resolve(c, s, op, x)
      PROVE  UNCHANGED states
    BY <1>6 DEF Resolve
<1>7. ASSUME NEW c \in Call,
             \/ CheckState(c) \/ MarkState(c) \/ LoadState(c)
             \/ ClearSessions(c) \/ AuditCall(c) \/ Abort(c)
      PROVE  UNCHANGED states
    BY <1>7 DEF CheckState, MarkState, LoadState, ClearSessions, AuditCall, Abort, memory
<1>8. ASSUME NEW p \in Note,
             \/ \E s \in Session, e \in EpisodeId, at \in 1 .. LastTime : Post(p, s, e, at)
             \/ RecordSession(p) \/ PersistNote(p) \/ PostAgain(p)
      PROVE  UNCHANGED states
    BY <1>8 DEF Post, RecordSession, PersistNote, PostAgain, memory
<1>9. ASSUME \/ \E s \in Session : QuerySession(s)
             \/ LoadSession \/ InstallSession \/ Flush \/ UNCHANGED vars
      PROVE  UNCHANGED states
    BY <1>9 DEF QuerySession, LoadSession, InstallSession, memory, Flush, vars
<1>10. QED
    BY <1>1, <1>2, <1>3, <1>4, <1>5, <1>6, <1>7, <1>8, <1>9, InstallCounts DEF Next

------------------------------------------------------------------------------
(* Sessions *)

LEMMA SessionOfStacked ==
    ASSUME Stacks, NEW s \in Session
    PROVE  SessionOf(s) \in Stacked
BY NewStacked DEF Stacks, SessionOf

LEMMA SessionWith ==
    ASSUME Stacks, NEW s \in Session, NEW x \in Stacked, sessions' = With(sessions, s, x)
    PROVE  Stacks'
<1>1. /\ DOMAIN sessions' = {s} \cup DOMAIN sessions /\ sessions'[s] = x
      /\ \A z \in DOMAIN sessions : z # s => sessions'[z] = sessions[z]
    BY DEF With
<1>2. QED
    BY <1>1 DEF Stacks

LEMMA ResolvedWith ==
    ASSUME Stacks, NEW s \in Session, NEW op \in Operation, NEW x, x = {} \/ \E e \in Named : x = {e}
    PROVE  (IF x = {} THEN Resolved(s, op)
            ELSE Remembered(s, CHOOSE e \in x : TRUE, op)) \in Stacked
<1>1. Resolved(s, op) \in Stacked
    BY SessionOfStacked, ResolvedStacked
<1>2. ASSUME NEW e \in Named, x = {e} PROVE Remembered(s, CHOOSE y \in x : TRUE, op) \in Stacked
  <2>1. (CHOOSE y \in x : TRUE) = e
      BY <1>2
  <2>2. e \in Ep /\ (s \in DOMAIN sessions => sessions[s] \in Stacked)
      BY EpisodeAssumption DEF Ep, Stacks
  <2>3. QED
      BY <2>1, <2>2, RememberedStacked
<1>3. QED
    BY <1>1, <1>2

LEMMA StacksStep ==
    ASSUME Stacks, Calls, Notes, GoodQuery(query), [Next]_vars
    PROVE  Stacks'
<1>1. ASSUME NEW c \in Call, NEW s \in Session, NEW op \in Operation,
             NEW x, x = {} \/ \E e \in Named : x = {e}, Resolve(c, s, op, x)
      PROVE  Stacks'
  <2> DEFINE y == IF x = {} THEN Resolved(s, op) ELSE Remembered(s, CHOOSE e \in x : TRUE, op)
  <2>1. y \in Stacked
      BY <1>1, ResolvedWith
  <2>2. sessions' = With(sessions, s, y)
      BY <1>1 DEF Resolve
  <2> HIDE DEF y
  <2>3. QED
      BY <2>1, <2>2, SessionWith
<1>2. ASSUME NEW c \in Call, ClearSessions(c) PROVE Stacks'
  <2>1. /\ DOMAIN sessions' = DOMAIN sessions
        /\ \A s \in DOMAIN sessions : sessions'[s] = Without(s, sessions[s], call[c].ep)
      BY <1>2 DEF ClearSessions
  <2>2. \A s \in DOMAIN sessions : Without(s, sessions[s], call[c].ep) \in Stacked
      BY WithoutStacked DEF Stacks
  <2>3. QED
      BY <2>1, <2>2 DEF Stacks
<1>3. ASSUME NEW p \in Note, RecordSession(p) PROVE Stacks'
  <2> DEFINE s == note[p].session
             e == note[p].ep
             y == Applied(s, SessionOf(s), e, Inferred(s, SessionOf(s), e))
  <2>1. s \in Session /\ e \in Ep
      BY <1>3 DEF RecordSession, Notes, GoodNote
  <2>2. sessions' = With(sessions, s, y)
      BY <1>3 DEF RecordSession
  <2> HIDE DEF s, e
  <2>3. y \in Stacked
      BY <2>1, SessionOfStacked, AppliedStacked
  <2> HIDE DEF y
  <2>4. QED
      BY <2>1, <2>2, <2>3, SessionWith
<1>4. CASE InstallSession
  <2> DEFINE s == query.session
             y == Rebuilt(s, query.operations)
  <2>1. s \in Session
      BY <1>4 DEF InstallSession, GoodQuery
  <2>2. PICK n \in Nat : DOMAIN query.operations = 1 .. n /\ \A i \in 1 .. n : query.operations[i].ep \in Ep
      BY DEF GoodQuery
  <2>3. y \in Stacked
      BY <2>1, <2>2, RebuiltStacked
  <2>4. sessions' = sessions \/ sessions' = With(sessions, s, y)
      BY <1>4 DEF InstallSession
  <2> HIDE DEF s, y
  <2>5. QED
      BY <2>1, <2>3, <2>4, SessionWith DEF Stacks
<1>5. CASE Restart
  <2>1. DOMAIN sessions' = {}
      BY <1>5 DEF Restart
  <2>2. QED
      BY <1>5, <2>1 DEF Stacks
<1>6. CASE UNCHANGED sessions
    BY <1>6 DEF Stacks
<1>7. ASSUME NEW c \in Call,
             \/ CheckState(c) \/ MarkState(c) \/ LoadState(c) \/ InstallState(c)
             \/ RecordCall(c) \/ ClearState(c) \/ AuditCall(c) \/ Abort(c)
      PROVE  UNCHANGED sessions
    BY <1>7 DEF CheckState, MarkState, LoadState, InstallState, RecordCall, ClearState,
        AuditCall, Abort, memory
<1>8. ASSUME NEW p \in Note,
             \/ \E s \in Session, e \in EpisodeId, at \in 1 .. LastTime : Post(p, s, e, at)
             \/ ProjectNote(p) \/ PersistNote(p) \/ PostAgain(p)
      PROVE  UNCHANGED sessions
    BY <1>8 DEF Post, ProjectNote, PersistNote, PostAgain, memory
<1>9. ASSUME \/ \E s \in Session : QuerySession(s)
             \/ LoadSession \/ Flush \/ UNCHANGED vars
      PROVE  UNCHANGED sessions
    BY <1>9 DEF QuerySession, LoadSession, memory, Flush, vars
<1>10. QED
    BY <1>1, <1>2, <1>3, <1>4, <1>5, <1>6, <1>7, <1>8, <1>9 DEF Next

------------------------------------------------------------------------------
(* Calls and notes *)

LEMMA GoodPlace ==
    ASSUME NEW r, IsCall(r), GoodCall(r), r.pc # "idle", NEW pc
    PROVE  GoodCall([r EXCEPT !.pc = pc])
<1> DEFINE t == [r EXCEPT !.pc = pc]
<1>1. t.at = r.at /\ t.loaded = r.loaded /\ t.ep = r.ep
    BY PlaceChanges
<1> HIDE DEF t
<1>2. GoodCall(t)
    BY <1>1 DEF GoodCall
<1>3. QED
    BY <1>2 DEF t

LEMMA GoodLoad ==
    ASSUME NEW r, IsCall(r), GoodCall(r), r.pc # "idle", NEW pc, NEW l, Timed(l)
    PROVE  GoodCall([r EXCEPT !.pc = pc, !.loaded = l])
<1> DEFINE q == [r EXCEPT !.pc = pc]
           t == [q EXCEPT !.loaded = l]
<1>1. IsCall(q) /\ q.at = r.at /\ q.ep = r.ep
    BY PlaceChanges
<1>2. t = [r EXCEPT !.pc = pc, !.loaded = l]
    BY DEF IsCall
<1> HIDE DEF q
<1>3. t.at = q.at /\ t.loaded = l /\ t.ep = q.ep
    BY <1>1, LoadChanges
<1> HIDE DEF t
<1>4. GoodCall(t)
    BY <1>1, <1>3 DEF GoodCall
<1>5. QED
    BY <1>2, <1>4

LEMMA NoneTimed == Timed({})
BY FS_EmptySet DEF Timed

LEMMA TimedSubset == ASSUME NEW S, Timed(S), NEW T \in SUBSET S PROVE Timed(T)
BY FS_Subset DEF Timed

LEMMA MinOfTwo ==
    ASSUME NEW a \in Nat, NEW b \in Nat
    PROVE  /\ Min({a, b}) \in Nat /\ Min({a, b}) <= a /\ Min({a, b}) <= b
           /\ (b <= a => Min({a, b}) = b)
<1> DEFINE S == {a, b}
<1>1. \E m \in S : \A y \in S : m <= y
    OBVIOUS
<1>2. Min(S) \in S /\ \A y \in S : Min(S) <= y
    BY <1>1, Zenon DEF Min
<1>3. QED
    BY <1>2

\* A query returns rows, some when there are any and all when they are not too
\* many.
LEMMA OldestIs ==
    ASSUME NEW S, Timed(S)
    PROVE  /\ Oldest(S) \subseteq S
           /\ S # {} => Oldest(S) # {}
           /\ Cardinality(S) <= Limit => Oldest(S) = S
<1> DEFINE n == Cardinality(S)
           q == Listed(S)
           m == Min({Limit, n})
<1>1. /\ q \in [1 .. n -> S] /\ n \in Nat /\ Range(q) = S
      /\ DOMAIN q = 1 .. n
    BY ListedIs
<1>2. Limit \in Nat \ {0}
    BY EpisodeAssumption
<1>3. Oldest(S) = {q[i] : i \in 1 .. m}
    BY DEF Oldest
<1>4. S # {} => n # 0
    BY FS_EmptySet DEF Timed
<1> HIDE DEF q, n
<1>5. /\ m \in Nat /\ m <= n /\ (n <= Limit => m = n)
      /\ m \in {Limit, n}
  <2>1. m \in Nat /\ m <= n /\ (n <= Limit => m = n)
      BY <1>1, <1>2, MinOfTwo
  <2>2. \E k \in {Limit, n} : \A y \in {Limit, n} : k <= y
      BY <1>1, <1>2
  <2>3. m \in {Limit, n}
      BY <2>2, Zenon DEF Min
  <2>4. QED
      BY <2>1, <2>3
<1> HIDE DEF m
<1>6. Oldest(S) \subseteq S
    BY <1>1, <1>3, <1>5
<1>7. ASSUME S # {} PROVE Oldest(S) # {}
  <2>1. 1 \in 1 .. m
      BY <1>1, <1>2, <1>4, <1>5, <1>7
  <2>2. QED
      BY <1>3, <2>1
<1>8. ASSUME n <= Limit PROVE Oldest(S) = S
  <2>1. S = {q[i] : i \in 1 .. n}
      BY <1>1 DEF Range
  <2>2. QED
      BY <1>3, <1>5, <1>8, <2>1
<1>9. QED
    BY <1>6, <1>7, <1>8 DEF n

LEMMA RowsAre ==
    ASSUME Stored, NEW e, NEW q
    PROVE  Rows(e, q) \subseteq log /\ Timed(Rows(e, q))
<1>1. Rows(e, q) \in SUBSET log
    BY DEF Rows
<1>2. QED
    BY <1>1, TimedSubset DEF Stored

LEMMA FoundIs == ASSUME Stored, NEW e, NEW queries PROVE Found(e, queries) \in SUBSET log
<1>1. \A q : Oldest(Rows(e, q)) \subseteq log
    BY RowsAre, OldestIs
<1>2. QED
    BY <1>1 DEF Found

LEMMA GoodEnd ==
    ASSUME NEW c, GoodCall(call[c]), call[c].pc # "idle"
    PROVE  GoodCall(Ended(c))
BY NoneTimed DEF GoodCall, Ended, CallOf

LEMMA CallsWith ==
    ASSUME Shape, Calls, clock' \in Nat, NEW c \in Call, NEW r, GoodCall(r),
           call' = [call EXCEPT ![c] = r]
    PROVE  Calls'
<1>1. call'[c] = r /\ \A d \in Call \ {c} : call'[d] = call[d]
    BY DEF Shape
<1>2. \A d \in Call : GoodCall(call'[d])
    BY <1>1 DEF Calls
<1>3. QED
    BY <1>2 DEF Calls, GoodCall

LEMMA CallsStep ==
    ASSUME Shape, Stacks, Calls, Stored, [Next]_vars
    PROVE  Calls'
<1>1. ASSUME NEW c \in Call, NEW s \in Session, NEW op \in Operation,
             NEW x, x = {} \/ \E e \in Named : x = {e}, Resolve(c, s, op, x)
      PROVE  Calls'
  <2> DEFINE y == IF x = {} THEN Resolved(s, op) ELSE Remembered(s, CHOOSE e \in x : TRUE, op)
  <2>1. y \in Stacked
      BY <1>1, ResolvedWith
  <2>2. PICK pc \in {"check", "routed"}, b \in BOOLEAN :
            call' = [call EXCEPT ![c] = CallOf(pc, s, op, y.active, clock + 1, b)]
      BY <1>1, Zenon DEF Resolve
  <2>3. clock' = clock + 1
      BY <1>1 DEF Resolve
  <2> HIDE DEF y
  <2>4. y.active \in Ep
      BY <2>1, StackedIs
  <2> DEFINE r == CallOf(pc, s, op, y.active, clock + 1, b)
  <2>5. GoodCall(r)
      BY <2>4, NoneTimed DEF Calls, GoodCall, CallOf
  <2> HIDE DEF r
  <2>6. clock' \in Nat
      BY <2>3 DEF Calls
  <2>7. QED
      BY <2>2, <2>5, <2>6, CallsWith DEF r
<1>2. ASSUME NEW c \in Call, NEW pc, call[c].pc # "idle", clock' = clock,
             call' = [call EXCEPT ![c].pc = pc]
      PROVE  Calls'
  <2> DEFINE r == [call[c] EXCEPT !.pc = pc]
  <2>1. GoodCall(r)
      BY <1>2, GoodPlace DEF Shape, Calls
  <2>2. call' = [call EXCEPT ![c] = r]
      BY <1>2
  <2> HIDE DEF r
  <2>3. QED
      BY <1>2, <2>1, <2>2, CallsWith DEF Calls
<1>3. ASSUME NEW c \in Call, CheckState(c) \/ MarkState(c) \/ RecordCall(c)
                             \/ ClearState(c) \/ ClearSessions(c)
      PROVE  Calls'
  <2>1. call[c].pc # "idle" /\ clock' = clock
      BY <1>3 DEF CheckState, MarkState, RecordCall, ClearState, ClearSessions
  <2>2. \E pc : call' = [call EXCEPT ![c].pc = pc]
      BY <1>3, Zenon DEF CheckState, MarkState, RecordCall, ClearState, ClearSessions
  <2>3. QED
      BY <1>2, <2>1, <2>2
<1>4. ASSUME NEW c \in Call, LoadState(c) PROVE Calls'
  <2>1. PICK queries \in SUBSET Queries :
            LET loaded == PersistedEvents(call[c].ep, queries)
            IN  call' = [call EXCEPT ![c].loaded = loaded,
                                     ![c].pc = IF loaded = {} THEN "routed" ELSE "install"]
      BY <1>4 DEF LoadState
  <2> DEFINE l == PersistedEvents(call[c].ep, queries)
             pc == IF l = {} THEN "routed" ELSE "install"
             r == [call[c] EXCEPT !.pc = pc, !.loaded = l]
  <2>2. call' = [call EXCEPT ![c] = r]
      BY <2>1 DEF Shape, IsCall
  <2>3. l \in SUBSET log
      BY FoundIs DEF PersistedEvents
  <2> HIDE DEF l, pc
  <2>4. Timed(l)
      BY <2>3, TimedSubset DEF Stored
  <2>5. call[c].pc # "idle" /\ clock' = clock
      BY <1>4 DEF LoadState
  <2>6. GoodCall(r)
      BY <2>4, <2>5, GoodLoad DEF Shape, Calls
  <2> HIDE DEF r
  <2>7. QED
      BY <2>2, <2>5, <2>6, CallsWith DEF Calls
<1>5. ASSUME NEW c \in Call, InstallState(c) PROVE Calls'
  <2> DEFINE r == [call[c] EXCEPT !.pc = "routed", !.loaded = {}]
  <2>1. call' = [call EXCEPT ![c] = r]
      BY <1>5 DEF InstallState, Shape, IsCall
  <2>2. call[c].pc # "idle" /\ clock' = clock
      BY <1>5 DEF InstallState
  <2>3. GoodCall(r)
      BY <2>2, NoneTimed, GoodLoad DEF Shape, Calls
  <2> HIDE DEF r
  <2>4. QED
      BY <2>1, <2>2, <2>3, CallsWith DEF Calls
<1>6. ASSUME NEW c \in Call, AuditCall(c) \/ Abort(c) PROVE Calls'
  <2>1. call' = [call EXCEPT ![c] = Ended(c)] /\ call[c].pc # "idle" /\ clock' = clock
      BY <1>6 DEF AuditCall, Abort
  <2>2. GoodCall(Ended(c))
      BY <2>1, GoodEnd DEF Calls
  <2>3. QED
      BY <2>1, <2>2, CallsWith DEF Calls
<1>7. CASE Restart
  <2>1. clock' = clock /\ \A c \in Call : call'[c] = IF c \in Busy THEN Ended(c) ELSE call[c]
      BY <1>7 DEF Restart
  <2>2. ASSUME NEW c \in Call PROVE GoodCall(call'[c])
    <3>1. CASE c \in Busy /\ call[c].pc # "idle"
        BY <2>1, <3>1, GoodEnd DEF Calls
    <3>2. CASE c \in Busy /\ call[c].pc = "idle"
        BY <2>1, <3>2, EpisodeAssumption DEF Busy
    <3>3. CASE c \notin Busy
        BY <2>1, <3>3 DEF Calls
    <3>4. QED
        BY <3>1, <3>2, <3>3
  <2>3. QED
      BY <2>1, <2>2 DEF Calls, GoodCall
<1>8. ASSUME NEW p \in Note, NEW s, NEW e, NEW at, Post(p, s, e, at) PROVE Calls'
  <2>1. call' = call /\ clock' = clock + 1
      BY <1>8 DEF Post
  <2>2. QED
      BY <2>1 DEF Calls
<1>9. CASE UNCHANGED <<call, clock>>
    BY <1>9 DEF Calls
<1>10. ASSUME NEW p \in Note, ProjectNote(p) \/ RecordSession(p) \/ PersistNote(p) \/ PostAgain(p)
       PROVE  UNCHANGED <<call, clock>>
    BY <1>10 DEF ProjectNote, RecordSession, PersistNote, PostAgain
<1>11. ASSUME \/ \E s \in Session : QuerySession(s)
              \/ LoadSession \/ InstallSession \/ Flush \/ UNCHANGED vars
       PROVE  UNCHANGED <<call, clock>>
    BY <1>11 DEF QuerySession, LoadSession, InstallSession, Flush, vars
<1>12. QED
    BY <1>1, <1>3, <1>4, <1>5, <1>6, <1>7, <1>8, <1>9, <1>10, <1>11 DEF Next

LEMMA NotePlace ==
    ASSUME NEW r, GoodNote(r), r.pc # "idle", NEW pc
    PROVE  GoodNote([r EXCEPT !.pc = pc])
<1>1. PICK p, s, e, t : r = [pc |-> p, session |-> s, ep |-> e, at |-> t]
    BY DEF GoodNote, IsNote
<1> DEFINE R == [pc |-> pc, session |-> s, ep |-> e, at |-> t]
<1>2. [r EXCEPT !.pc = pc] = R
    BY <1>1
<1>3. IsNote(R) /\ R.session = r.session /\ R.ep = r.ep /\ R.at = r.at
    BY <1>1 DEF IsNote
<1> HIDE DEF R
<1>4. QED
    BY <1>2, <1>3 DEF GoodNote

LEMMA NotesWith ==
    ASSUME Notes, NEW p \in Note, NEW r, GoodNote(r), note' = [note EXCEPT ![p] = r]
    PROVE  Notes'
<1>1. /\ note'[p] = r /\ \A q \in Note \ {p} : note'[q] = note[q]
      /\ note' = [q \in Note |-> note'[q]]
    BY DEF Notes
<1>2. \A q \in Note : GoodNote(note'[q])
    BY <1>1 DEF Notes
<1>3. QED
    BY <1>1, <1>2 DEF Notes, GoodNote, IsNote

LEMMA NotesStep ==
    ASSUME Calls, Notes, [Next]_vars
    PROVE  Notes'
<1>1. ASSUME NEW p \in Note, NEW s \in Session, NEW e \in EpisodeId, NEW at \in 1 .. LastTime, Post(p, s, e, at) PROVE Notes'
  <2> DEFINE r == [pc |-> "project", session |-> s, ep |-> e, at |-> at]
  <2>1. note' = [note EXCEPT ![p] = r]
      BY <1>1 DEF Post
  <2>2. GoodNote(r)
    <3>1. at \in Nat
        BY EpisodeAssumption
    <3>2. QED
        BY <3>1, EpisodeIds DEF GoodNote, IsNote
  <2> HIDE DEF r
  <2>3. QED
      BY <2>1, <2>2, NotesWith
<1>2. ASSUME NEW p \in Note, NEW pc, note[p].pc # "idle", note' = [note EXCEPT ![p].pc = pc]
      PROVE  Notes'
  <2> DEFINE r == [note[p] EXCEPT !.pc = pc]
  <2>1. GoodNote(r)
      BY <1>2, NotePlace DEF Notes
  <2>2. note' = [note EXCEPT ![p] = r]
      BY <1>2
  <2> HIDE DEF r
  <2>3. QED
      BY <2>1, <2>2, NotesWith
<1>3. ASSUME NEW p \in Note, ProjectNote(p) \/ RecordSession(p) \/ PersistNote(p) \/ PostAgain(p)
      PROVE  Notes'
  <2>1. note[p].pc # "idle"
      BY <1>3 DEF ProjectNote, RecordSession, PersistNote, PostAgain
  <2>2. \E pc : note' = [note EXCEPT ![p].pc = pc]
      BY <1>3, Zenon DEF ProjectNote, RecordSession, PersistNote, PostAgain
  <2>3. QED
      BY <1>2, <2>1, <2>2
<1>4. CASE Restart
  <2>1. /\ \A p \in Note : note'[p] = IF p \in Busy THEN [note[p] EXCEPT !.pc = "failed"] ELSE note[p]
        /\ note' = [p \in Note |-> note'[p]]
      BY <1>4 DEF Restart
  <2>2. ASSUME NEW p \in Note PROVE GoodNote(note'[p])
    <3>1. CASE p \in Busy /\ note[p].pc # "idle"
      <4>1. GoodNote(note[p]) /\ note[p].pc # "idle"
          BY <3>1 DEF Notes
      <4>2. GoodNote([note[p] EXCEPT !.pc = "failed"])
          BY <4>1, NotePlace
      <4>3. note'[p] = [note[p] EXCEPT !.pc = "failed"]
          BY <2>1, <3>1
      <4>4. QED
          BY <4>2, <4>3
    <3>2. CASE p \in Busy /\ note[p].pc = "idle"
        BY <2>1, <3>2, EpisodeAssumption DEF Busy
    <3>3. CASE p \notin Busy
        BY <2>1, <3>3 DEF Notes
    <3>4. QED
        BY <3>1, <3>2, <3>3
  <2>3. QED
      BY <2>1, <2>2 DEF Notes, GoodNote, IsNote
<1>5. CASE UNCHANGED note
    BY <1>5 DEF Notes, GoodNote, IsNote
<1>6. ASSUME NEW c \in Call, NEW s \in Session, NEW op \in Operation, NEW x, Resolve(c, s, op, x)
      PROVE  UNCHANGED note
    BY <1>6 DEF Resolve
<1>7. ASSUME NEW c \in Call,
             \/ CheckState(c) \/ MarkState(c) \/ LoadState(c) \/ InstallState(c)
             \/ RecordCall(c) \/ ClearState(c) \/ ClearSessions(c) \/ AuditCall(c) \/ Abort(c)
      PROVE  UNCHANGED note
    BY <1>7 DEF CheckState, MarkState, LoadState, InstallState, RecordCall, ClearState,
        ClearSessions, AuditCall, Abort
<1>8. ASSUME \/ \E s \in Session : QuerySession(s)
             \/ LoadSession \/ InstallSession \/ Flush \/ UNCHANGED vars
      PROVE  UNCHANGED note
    BY <1>8 DEF QuerySession, LoadSession, InstallSession, Flush, vars
<1>9. QED
    BY <1>1, <1>3, <1>4, <1>5, <1>6, <1>7, <1>8 DEF Next

------------------------------------------------------------------------------
(* The audit store and the session query *)

\* One trace or event more.
LEMMA OneMore ==
    ASSUME NEW S, Timed(S), NEW t, t.at \in Nat
    PROVE  Timed(S \cup {t})
<1>1. IsFiniteSet(S \cup {t})
    BY FS_AddElement DEF Timed
<1>2. QED
    BY <1>1 DEF Timed

LEMMA StoredStep ==
    ASSUME Calls, Notes, Stored, [Next]_vars
    PROVE  Stored'
<1>1. ASSUME NEW c \in Call, AuditCall(c) PROVE Stored'
  <2> DEFINE t == Trace(c)
  <2>1. /\ GoodCall(call[c]) /\ call[c].pc # "idle"
        /\ log' = log /\ unwritten' = unwritten \cup {t}
      BY <1>1 DEF AuditCall, Calls
  <2>2. t.at = call[c].at /\ t.ep = call[c].ep
      BY DEF Trace
  <2> HIDE DEF t
  <2>3. Timed(unwritten \cup {t})
      BY <2>1, <2>2, OneMore DEF GoodCall, Stored
  <2>4. QED
      BY <2>1, <2>2, <2>3 DEF GoodCall, Stored, Timed
<1>2. ASSUME NEW p \in Note, PersistNote(p) PROVE Stored'
  <2> DEFINE t == PostedEvent(p)
  <2>1. /\ GoodNote(note[p]) /\ note[p].pc # "idle" /\ unwritten' = unwritten
        /\ log' = log \/ log' = log \cup {t}
      BY <1>2 DEF PersistNote, Notes
  <2>2. t.at = note[p].at /\ t.ep = note[p].ep
      BY DEF PostedEvent
  <2> HIDE DEF t
  <2>3. Timed(log \cup {t})
      BY <2>1, <2>2, OneMore DEF GoodNote, Stored
  <2>4. QED
      BY <2>1, <2>2, <2>3 DEF GoodNote, Stored, Timed
<1>3. CASE Flush
  <2>1. PICK batch \in SUBSET unwritten, stored \in SUBSET unwritten :
            unwritten' = unwritten \ batch /\ log' = log \cup stored
      BY <1>3 DEF Flush
  <2>2. unwritten \ batch \in SUBSET unwritten
      OBVIOUS
  <2>3. Timed(unwritten') /\ Timed(stored)
      BY <2>1, <2>2, TimedSubset DEF Stored
  <2>4. Timed(log')
      BY <2>1, <2>3, FS_Union DEF Stored, Timed
  <2>5. QED
      BY <2>1, <2>3, <2>4 DEF Stored
<1>4. CASE Restart
    BY <1>4, NoneTimed DEF Restart, Stored, Timed
<1>5. CASE UNCHANGED <<log, unwritten>>
    BY <1>5 DEF Stored, Timed
<1>6. ASSUME NEW c \in Call, NEW s \in Session, NEW op \in Operation, NEW x, Resolve(c, s, op, x)
      PROVE  UNCHANGED <<log, unwritten>>
    BY <1>6 DEF Resolve, store
<1>7. ASSUME NEW c \in Call,
             \/ CheckState(c) \/ MarkState(c) \/ LoadState(c) \/ InstallState(c)
             \/ RecordCall(c) \/ ClearState(c) \/ ClearSessions(c) \/ Abort(c)
      PROVE  UNCHANGED <<log, unwritten>>
    BY <1>7 DEF CheckState, MarkState, LoadState, InstallState, RecordCall, ClearState,
        ClearSessions, Abort, store
<1>8. ASSUME NEW p \in Note,
             \/ \E s \in Session, e \in EpisodeId, at \in 1 .. LastTime : Post(p, s, e, at)
             \/ ProjectNote(p) \/ RecordSession(p) \/ PostAgain(p)
      PROVE  UNCHANGED <<log, unwritten>>
    BY <1>8 DEF Post, ProjectNote, RecordSession, PostAgain, store
<1>9. ASSUME \/ \E s \in Session : QuerySession(s)
             \/ LoadSession \/ InstallSession \/ UNCHANGED vars
      PROVE  UNCHANGED <<log, unwritten>>
    BY <1>9 DEF QuerySession, LoadSession, InstallSession, vars, store
<1>10. QED
    BY <1>1, <1>2, <1>3, <1>4, <1>5, <1>6, <1>7, <1>8, <1>9 DEF Next

LEMMA NoQueryGood == GoodQuery(NoQuery)
<1>1. NoQuery.operations = <<>> /\ DOMAIN NoQuery.operations = 1 .. 0
    BY DEF NoQuery
<1>2. 0 \in Nat /\ \A i \in 1 .. 0 : NoQuery.operations[i].ep \in Ep
    OBVIOUS
<1>3. NoQuery.pc = "idle" /\ NoQuery = [pc |-> NoQuery.pc, session |-> NoQuery.session,
                                        operations |-> NoQuery.operations]
    BY DEF NoQuery
<1>4. QED
    BY <1>1, <1>2, <1>3 DEF GoodQuery

\* The operations of a session are listed one by one.
LEMMA OperationsAre ==
    ASSUME Stored, NEW s, NEW queries
    PROVE  LET q == PersistedOperations(s, queries)
           IN  \E n \in Nat : DOMAIN q = 1 .. n /\ \A i \in 1 .. n : q[i] \in log
<1> DEFINE S == Found(Main(s), queries)
<1>1. S \in SUBSET log /\ PersistedOperations(s, queries) = Listed(S)
    BY FoundIs DEF PersistedOperations
<1> HIDE DEF S
<1>2. Timed(S)
    BY <1>1, TimedSubset DEF Stored
<1>3. /\ Listed(S) \in [1 .. Cardinality(S) -> S] /\ Cardinality(S) \in Nat
      /\ DOMAIN Listed(S) = 1 .. Cardinality(S)
    BY <1>2, ListedIs
<1>4. QED
    BY <1>1, <1>3

LEMMA QueryStep ==
    ASSUME GoodQuery(query), Stored, [Next]_vars
    PROVE  GoodQuery(query')
<1>1. ASSUME NEW s \in Session, QuerySession(s) PROVE GoodQuery(query')
  <2> DEFINE q == [pc |-> "load", session |-> s, operations |-> <<>>]
  <2>1. query' = q
      BY <1>1 DEF QuerySession
  <2>2. DOMAIN q.operations = 1 .. 0 /\ 0 \in Nat /\ \A i \in 1 .. 0 : q.operations[i].ep \in Ep
      OBVIOUS
  <2>3. q = [pc |-> q.pc, session |-> q.session, operations |-> q.operations] /\ q.session = s
      OBVIOUS
  <2> HIDE DEF q
  <2>4. QED
      BY <2>1, <2>2, <2>3 DEF GoodQuery
<1>2. CASE LoadSession
  <2>1. PICK queries \in SUBSET Queries :
            LET operations == PersistedOperations(query.session, queries)
            IN  query' = IF operations = <<>> THEN NoQuery
                         ELSE [query EXCEPT !.pc = "install", !.operations = operations]
      BY <1>2, Zenon DEF LoadSession
  <2> DEFINE q == PersistedOperations(query.session, queries)
  <2>2. PICK n \in Nat : DOMAIN q = 1 .. n /\ \A i \in 1 .. n : q[i] \in log
      BY OperationsAre
  <2> HIDE DEF q
  <2> DEFINE r == [pc |-> "install", session |-> query.session, operations |-> q]
  <2>3. query.session \in Session
      BY <1>2 DEF LoadSession, GoodQuery
  <2>4. r.operations = q /\ r.session = query.session /\ r.pc = "install"
        /\ r = [pc |-> r.pc, session |-> r.session, operations |-> r.operations]
      OBVIOUS
  <2>5. query' = NoQuery \/ query' = r
      BY <2>1 DEF GoodQuery, q
  <2> HIDE DEF r
  <2>6. GoodQuery(r)
      BY <2>2, <2>3, <2>4 DEF GoodQuery, Stored
  <2>7. QED
      BY <2>5, <2>6, NoQueryGood
<1>3. CASE InstallSession \/ Restart
    BY <1>3, NoQueryGood DEF InstallSession, Restart
<1>4. CASE UNCHANGED query
    BY <1>4
<1>5. ASSUME NEW c \in Call, NEW s \in Session, NEW op \in Operation, NEW x, Resolve(c, s, op, x)
      PROVE  UNCHANGED query
    BY <1>5 DEF Resolve
<1>6. ASSUME NEW c \in Call,
             \/ CheckState(c) \/ MarkState(c) \/ LoadState(c) \/ InstallState(c)
             \/ RecordCall(c) \/ ClearState(c) \/ ClearSessions(c) \/ AuditCall(c) \/ Abort(c)
      PROVE  UNCHANGED query
    BY <1>6 DEF CheckState, MarkState, LoadState, InstallState, RecordCall, ClearState,
        ClearSessions, AuditCall, Abort
<1>7. ASSUME NEW p \in Note,
             \/ \E s \in Session, e \in EpisodeId, at \in 1 .. LastTime : Post(p, s, e, at)
             \/ ProjectNote(p) \/ RecordSession(p) \/ PersistNote(p) \/ PostAgain(p)
      PROVE  UNCHANGED query
    BY <1>7 DEF Post, ProjectNote, RecordSession, PersistNote, PostAgain
<1>8. ASSUME Flush \/ UNCHANGED vars PROVE UNCHANGED query
    BY <1>8 DEF Flush, vars
<1>9. QED
    BY <1>1, <1>2, <1>3, <1>4, <1>5, <1>6, <1>7, <1>8 DEF Next

------------------------------------------------------------------------------
(* What holds in every reachable state, and of every step *)

\* KeptInv in every reachable state: the episode runtime's memory and the audit
\* store keep the shapes that its folds and lists rely on.
THEOREM Inductive == Spec => []KeptInv
<1>1. Init => KeptInv
  <2>1. SUFFICES ASSUME Init PROVE KeptInv
      OBVIOUS
  <2>2. Counted /\ Stacks
    <3>1. DOMAIN states = {} /\ DOMAIN sessions = {}
        BY <2>1 DEF Init
    <3>2. QED
        BY <3>1 DEF Counted, Stacks
  <2>3. Calls
    <3>1. \A c \in Call : call[c] = NoCall
        BY <2>1 DEF Init
    <3>2. GoodCall(NoCall)
        BY NoneTimed DEF GoodCall, NoCall, CallOf
    <3>3. QED
        BY <2>1, <3>1, <3>2 DEF Calls, Init
  <2>4. Notes
    <3>1. note = [p \in Note |-> NoNote]
        BY <2>1 DEF Init
    <3>2. GoodNote(NoNote)
        BY DEF GoodNote, IsNote, NoNote
    <3>3. QED
        BY <3>1, <3>2 DEF Notes
  <2>5. Stored /\ GoodQuery(query)
      BY <2>1, NoneTimed, NoQueryGood DEF Init, Stored
  <2>6. QED
      BY <2>2, <2>3, <2>4, <2>5 DEF KeptInv
<1>2. LoadInv /\ KeptInv /\ [Next]_vars => KeptInv'
  <2>1. SUFFICES ASSUME LoadInv, KeptInv, [Next]_vars PROVE KeptInv'
      OBVIOUS
  <2>2. Shape /\ Counted /\ Stacks /\ Calls /\ Notes /\ Stored /\ GoodQuery(query)
      BY <2>1 DEF LoadInv, KeptInv
  <2>3. Counted'
      BY <2>1, <2>2, StatesStep
  <2>4. Stacks'
      BY <2>1, <2>2, StacksStep
  <2>5. Calls'
      BY <2>1, <2>2, CallsStep
  <2>6. Notes'
      BY <2>1, <2>2, NotesStep
  <2>7. Stored'
      BY <2>1, <2>2, StoredStep
  <2>8. GoodQuery(query')
      BY <2>1, <2>2, QueryStep
  <2>9. QED
      BY <2>3, <2>4, <2>5, <2>6, <2>7, <2>8 DEF KeptInv, GoodQuery
<1>3. QED
    BY <1>1, <1>2, LoadInductive, PTL DEF Spec

\* CountedOnce in every reachable state: projectEventUnique keeps a call or
\* event that is posted again, or found in the store by a load while it is being
\* projected live, from counting twice.
THEOREM CountsOnce == Spec => []CountedOnce
<1>1. KeptInv => CountedOnce
    BY DEF KeptInv, Counted, CountedOnce
<1>2. QED
    BY <1>1, Inductive, PTL

\* ActiveOnStack in every reachable state: what the operations of requests, named
\* episodes, posted events, completions and rebuilds make of a session's stack
\* has its active episode on it.
THEOREM StaysOnStack == Spec => []ActiveOnStack
<1>1. KeptInv => ActiveOnStack
  <2>1. SUFFICES ASSUME KeptInv, NEW s \in DOMAIN sessions
                 PROVE  Contains(sessions[s].stack, sessions[s].active)
      BY DEF ActiveOnStack
  <2> DEFINE x == sessions[s]
  <2>2. x \in Stacked
      BY <2>1 DEF KeptInv, Stacks
  <2> HIDE DEF x
  <2>3. IsSeq(x.stack) /\ x.active \in Range(x.stack)
      BY <2>2, StackedIs
  <2>4. Contains(x.stack, x.active)
      BY <2>3, ContainsIs
  <2>5. QED
      BY <2>4 DEF x
<1>2. QED
    BY <1>1, Inductive, PTL

\* StatesOnlyGrow: a load that comes late, and every other step but a completion
\* and a restart, leaves what a state has counted where it was.
THEOREM LosesNothing == Spec => StatesOnlyGrow
<1> DEFINE A == (\A c \in Call : ~ClearState(c)) /\ ~Restart =>
                    \A e \in DOMAIN states : e \in DOMAIN states' /\ IsPrefix(states[e], states'[e])
<1>1. KeptInv /\ [Next]_vars => [A]_vars
    BY StatesStep DEF KeptInv
<1> HIDE DEF A
<1>2. Spec => [][A]_vars
    BY <1>1, Inductive, PTL DEF Spec
<1>3. QED
    BY <1>2 DEF StatesOnlyGrow, A

------------------------------------------------------------------------------
(* A list in time order goes on *)

\* No two of them are of the same time.
Apart(S) == \A t, u \in S : t.at = u.at => t = u

\* A list of all of a set has them all.
LEMMA OntoAll ==
    ASSUME NEW S, Timed(S), NEW q \in [1 .. Cardinality(S) -> S], IsInjective(q)
    PROVE  \A t \in S : \E i \in 1 .. Cardinality(S) : t = q[i]
<1> DEFINE n == Cardinality(S)
<1>1. n \in Nat
    BY FS_CardinalityType DEF Timed
<1> HIDE DEF n
<1>2. DOMAIN q = 1 .. n
    BY DEF n
<1>3. q \in Bijection(1 .. n, Range(q))
    BY <1>2 DEF Bijection, Injection, Surjection, IsInjective, Range, n
<1>4. IsFiniteSet(1 .. n) /\ Cardinality(1 .. n) = n
    BY <1>1, FS_Interval
<1>5. Cardinality(Range(q)) = n
    BY <1>3, <1>4, FS_Bijection DEF ExistsBijection
<1>6. Range(q) \subseteq S
    BY DEF Range
<1>7. Range(q) = S
    BY <1>5, <1>6, FS_Subset DEF Timed, n
<1>8. QED
    BY <1>2, <1>7 DEF Range, n

\* When no two are of the same time there is one order to list them in.
LEMMA OneList ==
    ASSUME NEW S, Timed(S), Apart(S),
           NEW q \in [1 .. Cardinality(S) -> S], InTime(q),
           NEW r \in [1 .. Cardinality(S) -> S], InTime(r)
    PROVE  q = r
<1> DEFINE n == Cardinality(S)
           D == {i \in 1 .. n : q[i] # r[i]}
<1>1. n \in Nat
    BY FS_CardinalityType DEF Timed
<1>2. /\ \A t \in S : \E i \in 1 .. n : t = q[i]
      /\ \A t \in S : \E i \in 1 .. n : t = r[i]
    BY OntoAll DEF InTime
<1>3. \A i \in 1 .. n : q[i] \in S /\ r[i] \in S
    OBVIOUS
<1>4. DOMAIN q = 1 .. n /\ DOMAIN r = 1 .. n /\ q \in [1 .. n -> S] /\ r \in [1 .. n -> S]
    OBVIOUS
<1> HIDE DEF n
<1>5. /\ \A i, j \in 1 .. n : i < j => q[i].at <= q[j].at /\ q[i] # q[j]
      /\ \A i, j \in 1 .. n : i < j => r[i].at <= r[j].at /\ r[i] # r[j]
  <2>1. \A i, j \in 1 .. n : i < j => i # j
      BY <1>1
  <2>2. QED
      BY <1>4, <2>1 DEF InTime, IsInjective
<1>6. ASSUME D # {} PROVE FALSE
  <2>1. D \in SUBSET Nat
      OBVIOUS
  <2>2. PICK k \in D : \A i \in D : k <= i
      BY <1>6, <2>1, LeastNumber
  <2>3. k \in 1 .. n /\ q[k] # r[k] /\ \A i \in 1 .. n : i < k => q[i] = r[i]
    <3>1. \A i \in 1 .. n : i < k => ~(k <= i)
        BY <2>2
    <3>2. QED
        BY <2>2, <3>1
  <2> HIDE DEF D
  <2>4. PICK i \in 1 .. n : q[i] = r[k]
      BY <1>2, <1>3, <2>3
  <2>5. PICK j \in 1 .. n : r[j] = q[k]
      BY <1>2, <1>3, <2>3
  <2>6. k < i
      BY <1>1, <1>5, <2>3, <2>4
  <2>7. k < j
      BY <1>1, <1>5, <2>3, <2>5
  <2>8. q[k].at <= r[k].at /\ r[k].at <= q[k].at
      BY <1>5, <2>3, <2>4, <2>5, <2>6, <2>7
  <2>9. q[k].at \in Nat /\ r[k].at \in Nat /\ q[k] \in S /\ r[k] \in S
      BY <1>3, <2>3 DEF Timed
  <2>10. q[k].at = r[k].at
      BY <2>8, <2>9
  <2>11. QED
      BY <2>3, <2>9, <2>10 DEF Apart
<1>7. \A i \in 1 .. n : q[i] = r[i]
    BY <1>6
<1>8. q = [i \in 1 .. n |-> q[i]] /\ r = [i \in 1 .. n |-> r[i]]
    BY <1>4
<1>9. QED
    BY <1>7, <1>8

\* What comes after all of them goes behind.
LEMMA ListedAppend ==
    ASSUME NEW S, Timed(S), Apart(S), NEW m, m.at \in Nat, \A t \in S : t.at < m.at
    PROVE  Listed(S \cup {m}) = Append(Listed(S), m)
<1> DEFINE T == S \cup {m}
           q == Listed(S)
           a == Append(q, m)
<1>1. m \notin S /\ \A t \in S : t.at <= m.at
    BY DEF Timed
<1>2. q \in [1 .. Cardinality(S) -> S] /\ InTime(q)
    BY ListedIs
<1> HIDE DEF q
<1>3. a \in [1 .. Cardinality(T) -> T] /\ InTime(a)
    BY <1>1, <1>2, ListGrows
<1> HIDE DEF a
<1>4. Timed(T)
  <2>1. IsFiniteSet(T)
      BY FS_AddElement DEF Timed
  <2>2. QED
      BY <2>1 DEF Timed
<1>5. Apart(T)
    BY DEF Apart, Timed
<1> HIDE DEF T
<1>6. Listed(T) \in [1 .. Cardinality(T) -> T] /\ InTime(Listed(T))
    BY <1>4, ListedIs
<1>7. Listed(T) = a
    BY <1>3, <1>4, <1>5, <1>6, OneList
<1>8. QED
    BY <1>7 DEF T, a, q

\* Nothing listed, nothing replayed.
LEMMA NoneRebuilt ==
    ASSUME NEW s \in Session
    PROVE  Rebuilt(s, Listed({})) = NewSession(s)
<1> DEFINE q == Listed({})
<1>1. DOMAIN q = 1 .. 0
    BY NoneTimed, ListedIs, FS_EmptySet
<1> HIDE DEF q
<1>2. 0 \in Nat /\ \A x \in Stacked, i \in 1 .. 0 : Replayed(s, x, q[i]) \in Stacked
    OBVIOUS
<1>3. PICK f : f[0] = NewSession(s) /\ f[0] = Rebuilt(s, q)
    BY <1>1, <1>2, NewStacked, ReplayFold
<1>4. QED
    BY <1>3 DEF q

\* The last of a list is replayed last.
LEMMA RebuiltLast ==
    ASSUME NEW s \in Session, NEW q, IsSeq(q), \A t \in Range(q) : t.ep \in Ep,
           NEW m, m.ep \in Ep
    PROVE  Rebuilt(s, Append(q, m)) = Replayed(s, Rebuilt(s, q), m)
<1> DEFINE n == Len(q)
           a == Append(q, m)
<1>1. n \in Nat /\ DOMAIN q = 1 .. n /\ \A i \in 1 .. n : q[i].ep \in Ep
    BY InRange
<1>2. Len(a) = n + 1 /\ a[n + 1] = m /\ IsSeq(a) /\ \A i \in 1 .. n : a[i] = q[i]
    BY Appended
<1> HIDE DEF a
<1>3. n + 1 \in Nat /\ DOMAIN a = 1 .. n + 1
    BY <1>1, <1>2, InRange
<1> HIDE DEF n
<1>4. \A i \in 1 .. n + 1 : a[i].ep \in Ep
  <2>1. \A i \in 1 .. n + 1 : i \in 1 .. n \/ i = n + 1
      BY <1>1
  <2>2. QED
      BY <1>1, <1>2, <2>1
<1>5. /\ \A x \in Stacked, i \in 1 .. n : Replayed(s, x, q[i]) \in Stacked
      /\ \A x \in Stacked, i \in 1 .. n + 1 : Replayed(s, x, a[i]) \in Stacked
    BY <1>1, <1>4, AppliedStacked DEF Replayed
<1>6. PICK f : /\ f[0] = NewSession(s)
               /\ \A k \in 1 .. n : f[k] = Replayed(s, f[k - 1], q[k])
               /\ f[n] = Rebuilt(s, q)
    BY <1>1, <1>5, NewStacked, ReplayFold
<1>7. PICK g : /\ g[0] = NewSession(s)
               /\ \A k \in 1 .. n + 1 : g[k] = Replayed(s, g[k - 1], a[k])
               /\ g[n + 1] = Rebuilt(s, a)
    BY <1>3, <1>5, NewStacked, ReplayFold
<1> DEFINE S == {k \in 0 .. n : f[k] = g[k]}
<1>8. 0 \in S
    BY <1>1, <1>6, <1>7
<1>9. ASSUME NEW k \in 1 .. n, k - 1 \in S PROVE k \in S
  <2>1. k \in 1 .. n + 1 /\ k \in 0 .. n /\ f[k - 1] = g[k - 1] /\ a[k] = q[k]
      BY <1>1, <1>2, <1>9
  <2>2. f[k] = Replayed(s, f[k - 1], q[k]) /\ g[k] = Replayed(s, g[k - 1], a[k])
      BY <1>6, <1>7, <2>1
  <2>3. f[k] = g[k]
      BY <2>1, <2>2, Zenon
  <2>4. QED
      BY <2>1, <2>3
<1> HIDE DEF S
<1>10. n \in S
  <2>1. 0 .. n \subseteq S
      BY <1>1, <1>8, <1>9, UpTo
  <2>2. QED
      BY <1>1, <2>1
<1>11. f[n] = g[n] /\ n + 1 \in 1 .. n + 1 /\ (n + 1) - 1 = n
    BY <1>1, <1>10 DEF S
<1>12. g[n + 1] = Replayed(s, g[n], m)
  <2>1. g[n + 1] = Replayed(s, g[(n + 1) - 1], a[n + 1])
      BY <1>7, <1>11, Zenon
  <2>2. QED
      BY <1>2, <1>11, <2>1, Zenon
<1>13. QED
    BY <1>6, <1>7, <1>11, <1>12, Zenon DEF a

LEMMA RebuiltWith ==
    ASSUME NEW s \in Session, NEW S, Timed(S), Apart(S), \A t \in S : t.ep \in Ep,
           NEW m, m.at \in Nat, m.ep \in Ep, \A t \in S : t.at < m.at
    PROVE  Rebuilt(s, Listed(S \cup {m})) = Replayed(s, Rebuilt(s, Listed(S)), m)
<1>1. Listed(S \cup {m}) = Append(Listed(S), m)
    BY ListedAppend
<1>2. IsSeq(Listed(S)) /\ Range(Listed(S)) = S
    BY ListedIs
<1>3. QED
    BY <1>1, <1>2, RebuiltLast

------------------------------------------------------------------------------
(* A replay follows what a request did *)

LEMMA MaxOfTwo ==
    ASSUME NEW a \in Nat, NEW b \in Nat
    PROVE  /\ Max({a, b}) \in Nat /\ a <= Max({a, b}) /\ b <= Max({a, b})
           /\ (b <= a => Max({a, b}) = a)
           /\ (a <= b => Max({a, b}) = b)
<1> DEFINE S == {a, b}
<1>1. \E m \in S : \A y \in S : m >= y
    OBVIOUS
<1>2. Max(S) \in S /\ \A y \in S : Max(S) >= y
    BY <1>1, Zenon DEF Max
<1>3. QED
    BY <1>2

\* Appending what is not there yet, and going back to what is, keep a stack's
\* ground and have nothing twice.
LEMMA AppendUniqueKeeps ==
    ASSUME NEW q \in Seq(Ep), 1 <= Len(q), IsInjective(q), NEW e \in Ep
    PROVE  /\ AppendUnique(q, e)[1] = q[1] /\ IsInjective(AppendUnique(q, e))
           /\ e \in Range(q) => AppendUnique(q, e) = q
           /\ e \notin Range(q) => AppendUnique(q, e) = Append(q, e)
<1>1. IsSeq(q)
    BY SeqOverRange
<1>2. Len(q) \in Nat /\ DOMAIN q = 1 .. Len(q) /\ \A i \in 1 .. Len(q) : q[i] \in Range(q)
    BY <1>1, InRange
<1>3. CASE e \in Range(q)
    BY <1>1, <1>3, ContainsIs DEF AppendUnique
<1>4. CASE e \notin Range(q)
  <2> DEFINE n == Len(q)
             t == Append(q, e)
  <2>1. AppendUnique(q, e) = t
      BY <1>1, <1>4, ContainsIs DEF AppendUnique
  <2>2. /\ IsSeq(t) /\ Len(t) = n + 1 /\ t[n + 1] = e
        /\ \A i \in 1 .. n : t[i] = q[i]
      BY <1>1, Appended
  <2>3. DOMAIN t = 1 .. n + 1
      BY <2>2, InRange
  <2>4. 1 \in 1 .. n
      BY <1>2
  <2> HIDE DEF t, n
  <2>5. ASSUME NEW i \in 1 .. n + 1, NEW j \in 1 .. n + 1, t[i] = t[j] PROVE i = j
    <3>1. CASE i \in 1 .. n /\ j \in 1 .. n
        BY <1>2, <2>2, <2>5, <3>1 DEF IsInjective, n
    <3>2. CASE i = n + 1 /\ j \in 1 .. n
        BY <1>2, <1>4, <2>2, <2>5, <3>2 DEF n
    <3>3. CASE i \in 1 .. n /\ j = n + 1
        BY <1>2, <1>4, <2>2, <2>5, <3>3 DEF n
    <3>4. n \in Nat
        BY <1>2 DEF n
    <3>5. QED
        BY <3>1, <3>2, <3>3, <3>4
  <2>6. IsInjective(t)
      BY <2>3, <2>5 DEF IsInjective
  <2>7. QED
      BY <1>4, <2>1, <2>2, <2>4, <2>6 DEF t
<1>5. QED
    BY <1>3, <1>4

\* Where there is nothing twice, going back to one of them leaves those up to it.
LEMMA TrimmedTo ==
    ASSUME NEW q \in Seq(Ep), IsInjective(q), NEW k \in 1 .. Len(q)
    PROVE  TrimTo(q, q[k]) = SubSeq(q, 1, k)
<1> DEFINE e == q[k]
           I == {i \in 1 .. Len(q) : q[i] = e}
<1>1. Len(q) \in Nat /\ DOMAIN q = 1 .. Len(q)
    BY LenProperties
<1>2. I = {k}
    BY <1>1 DEF IsInjective
<1>3. Contains(q, e)
    BY DEF Contains
<1>4. Max({k}) = k
  <2>1. \E m \in {k} : \A y \in {k} : m >= y
      BY <1>1
  <2>2. QED
      BY <2>1, Zenon DEF Max
<1>5. TrimTo(q, e) = SubSeq(q, 1, Max(I))
    BY <1>2, <1>3, Zenon DEF TrimTo, SelectLastInSeq
<1>6. QED
    BY <1>2, <1>4, <1>5

LEMMA TrimToKeeps ==
    ASSUME NEW q \in Seq(Ep), 1 <= Len(q), IsInjective(q), NEW e \in Ep
    PROVE  /\ TrimTo(q, e)[1] = q[1] /\ IsInjective(TrimTo(q, e))
           /\ Range(TrimTo(q, e)) \subseteq Range(q) \cup {e}
<1>1. IsSeq(q)
    BY SeqOverRange
<1>2. /\ Len(q) \in Nat /\ DOMAIN q = 1 .. Len(q)
      /\ \A i \in 1 .. Len(q) : q[i] \in Range(q)
      /\ \A x \in Range(q) : \E i \in 1 .. Len(q) : x = q[i]
    BY <1>1, InRange
<1>3. CASE e \in Range(q)
  <2>1. PICK k \in 1 .. Len(q) : e = q[k]
      BY <1>2, <1>3
  <2> DEFINE t == SubSeq(q, 1, k)
  <2>2. TrimTo(q, e) = t
      BY <2>1, TrimmedTo
  <2>3. k \in Nat /\ k <= Len(q) /\ 1 \in 1 .. k
      BY <1>2
  <2>4. t \in Seq(Ep) /\ Len(t) = k /\ \A i \in 1 .. k : t[i] = q[i]
      BY <2>3, FirstOf
  <2> HIDE DEF t
  <2>5. DOMAIN t = 1 .. k /\ \A x \in Range(t) : \E i \in 1 .. k : x = t[i]
      BY <2>4, SeqOverRange, InRange
  <2>6. 1 .. k \subseteq 1 .. Len(q)
      BY <1>2, <2>3
  <2>7. IsInjective(t)
      BY <1>2, <2>4, <2>5, <2>6 DEF IsInjective
  <2>8. Range(t) \subseteq Range(q)
      BY <1>2, <2>4, <2>5, <2>6
  <2>9. QED
      BY <2>2, <2>3, <2>4, <2>7, <2>8
<1>4. CASE e \notin Range(q)
  <2>1. TrimTo(q, e) = Append(q, e)
      BY <1>1, <1>4, ContainsIs DEF TrimTo
  <2>2. Append(q, e)[1] = q[1] /\ IsInjective(Append(q, e))
    <3> DEFINE u == AppendUnique(q, e)
    <3>1. u[1] = q[1] /\ IsInjective(u) /\ u = Append(q, e)
        BY <1>4, AppendUniqueKeeps
    <3> HIDE DEF u
    <3>2. QED
        BY <3>1
  <2>3. Range(Append(q, e)) = Range(q) \cup {e}
      BY <1>1, Appended
  <2>4. QED
      BY <2>1, <2>2, <2>3
<1>5. QED
    BY <1>3, <1>4

\* A session's main episode is at the bottom of its stack, nothing is on it
\* twice, and no number that is not given out yet.
Tidy(s, x) ==
    /\ x.stack[1] = Main(s) /\ IsInjective(x.stack)
    /\ \A e \in Range(x.stack) : e[1] = s /\ e[2] <= x.next

LEMMA TidyNew == ASSUME NEW s \in Session PROVE Tidy(s, NewSession(s))
<1> DEFINE q == <<Main(s)>>
<1>1. q[1] = Main(s) /\ DOMAIN q = {1}
    OBVIOUS
<1> HIDE DEF q
<1>2. IsInjective(q) /\ Range(q) = {Main(s)}
    BY <1>1 DEF IsInjective, Range
<1>3. Main(s)[1] = s /\ Main(s)[2] = 0 /\ 0 <= 0
    BY DEF Main
<1>4. NewSession(s).stack = q /\ NewSession(s).next = 0
    BY DEF NewSession, q
<1>5. QED
    BY <1>1, <1>2, <1>3, <1>4 DEF Tidy

LEMMA TidyApplied ==
    ASSUME NEW s \in Session, NEW x \in Stacked, Tidy(s, x), NEW e \in Ep, e[1] = s, NEW op
    PROVE  Tidy(s, Applied(s, x, e, op))
<1> DEFINE y == Applied(s, x, e, op)
           u == IF op = "resume" THEN TrimTo(x.stack, e) ELSE AppendUnique(x.stack, e)
           n == Max({x.next, e[2]})
<1>1. x.stack \in Seq(Ep) /\ x.next \in Nat /\ 1 <= Len(x.stack) /\ e[2] \in Nat
    BY StackedIs DEF Ep
<1>2. y.stack = u /\ y.next = n
    BY DEF Applied
<1> HIDE DEF y
<1>3. IsInjective(x.stack)
    BY DEF Tidy
<1>4. /\ u[1] = x.stack[1] /\ IsInjective(u) /\ Range(u) \subseteq Range(x.stack) \cup {e}
    BY <1>1, <1>3, AppendUniqueKeeps, AppendUniqueIs, TrimToKeeps
<1>5. n \in Nat /\ x.next <= n /\ e[2] <= n
    BY <1>1, MaxOfTwo
<1> HIDE DEF u, n
<1>6. ASSUME NEW z \in Range(u) PROVE z[1] = s /\ z[2] <= n
  <2>1. z \in Range(x.stack) \/ z = e
      BY <1>4
  <2>2. \A w \in Range(x.stack) : w[2] \in Nat /\ w[1] = s /\ w[2] <= x.next
    <3>1. Range(x.stack) \subseteq Ep
        BY <1>1, SeqOverRange
    <3>2. QED
        BY <3>1 DEF Tidy, Ep
  <2>3. QED
      BY <1>1, <1>5, <2>1, <2>2
<1>7. QED
    BY <1>2, <1>4, <1>6 DEF Tidy, y

LEMMA TidyRebuilt ==
    ASSUME NEW s \in Session, NEW n \in Nat, NEW q, DOMAIN q = 1 .. n,
           \A i \in 1 .. n : q[i].ep \in Ep /\ q[i].ep[1] = s
    PROVE  Rebuilt(s, q) \in Stacked /\ Tidy(s, Rebuilt(s, q))
<1>1. \A x \in Stacked, i \in 1 .. n : Replayed(s, x, q[i]) \in Stacked
    BY AppliedStacked DEF Replayed
<1>2. \A x \in Stacked, i \in 1 .. n : Tidy(s, x) => Tidy(s, Replayed(s, x, q[i]))
    BY TidyApplied DEF Replayed
<1>3. PICK f : /\ f[0] = NewSession(s)
               /\ \A k \in 1 .. n : f[k] = Replayed(s, f[k - 1], q[k])
               /\ f[n] = Rebuilt(s, q)
    BY <1>1, NewStacked, ReplayFold
<1> DEFINE S == {k \in 0 .. n : f[k] \in Stacked /\ Tidy(s, f[k])}
<1>4. 0 \in S
    BY <1>3, NewStacked, TidyNew
<1>5. ASSUME NEW k \in 1 .. n, k - 1 \in S PROVE k \in S
    BY <1>1, <1>2, <1>3, <1>5
<1> HIDE DEF S
<1>6. n \in S
    BY <1>4, <1>5, UpTo
<1>7. QED
    BY <1>3, <1>6 DEF S

\* What an operation read from a request makes of a session is what replaying
\* the trace that the request leaves makes of it.
LEMMA ResolvedReplays ==
    ASSUME NEW s \in Session, NEW x \in Stacked, Tidy(s, x), x = SessionOf(s), NEW op \in Operation
    PROVE  LET r == Resolved(s, op)
           IN  r.active \in Ep /\ r.active[1] = s /\ r = Applied(s, x, r.active, op)
<1>1. /\ x = [active |-> x.active, stack |-> x.stack, next |-> x.next]
      /\ x.active \in Ep /\ x.stack \in Seq(Ep) /\ x.next \in Nat
      /\ x.active \in Range(x.stack)
      /\ IsSeq(x.stack) /\ Len(x.stack) \in Nat /\ 1 <= Len(x.stack)
    BY StackedIs
<1>2. IsInjective(x.stack) /\ x.stack[1] = Main(s)
    BY DEF Tidy
<1>3. \A e \in Range(x.stack) : e \in Ep /\ e[1] = s /\ e[2] \in Nat /\ e[2] <= x.next
  <2>1. Range(x.stack) \subseteq Ep
      BY <1>1, SeqOverRange
  <2>2. QED
      BY <2>1 DEF Tidy, Ep
<1>4. \A e \in Ep : e[1] = s =>
          Applied(s, x, e, op) = [active |-> e,
                                  stack  |-> IF op = "resume" THEN TrimTo(x.stack, e)
                                             ELSE AppendUnique(x.stack, e),
                                  next   |-> Max({x.next, e[2]})]
    BY DEF Applied
<1>5. \A e \in Range(x.stack) : Max({x.next, e[2]}) = x.next
    BY <1>1, <1>3, MaxOfTwo
<1>6. CASE op = "interrupt"
  <2> DEFINE new == <<s, x.next + 1>>
             a == Append(x.stack, new)
             n == x.next + 1
  <2>1. new \in Ep /\ new[1] = s /\ new[2] = n /\ n \in Nat
      BY <1>1 DEF Ep
  <2>2. Resolved(s, op) = [active |-> new, stack |-> a, next |-> n]
      BY <1>6 DEF Resolved
  <2>3. new \notin Range(x.stack)
      BY <1>1, <1>3, <2>1
  <2>4. AppendUnique(x.stack, new) = a
      BY <1>1, <1>2, <2>1, <2>3, AppendUniqueKeeps
  <2>5. Max({x.next, n}) = n
    <3>1. x.next \in Nat /\ n \in Nat /\ x.next <= n
        BY <1>1
    <3> HIDE DEF n
    <3>2. QED
        BY <3>1, MaxOfTwo
  <2> HIDE DEF new, a, n
  <2>6. Applied(s, x, new, op) = [active |-> new, stack |-> a, next |-> n]
      BY <1>4, <1>6, <2>1, <2>4, <2>5
  <2>7. QED
      BY <2>1, <2>2, <2>6
<1>7. CASE op = "resume" /\ Len(x.stack) > 1
  <2> DEFINE popped == Front(x.stack)
             k == Len(x.stack) - 1
             l == Last(popped)
  <2>1. Resolved(s, op) = [x EXCEPT !.active = l, !.stack = popped]
    <3>0. \A i \in Nat : i > 1 => i # 1
        OBVIOUS
    <3>1. op # "interrupt" /\ Len(x.stack) # 1
      <4>1. op # "interrupt"
          BY <1>7
      <4>2. Len(x.stack) \in Nat /\ Len(x.stack) > 1
          BY <1>1, <1>7, Zenon
      <4>3. QED
          BY <3>0, <4>1, <4>2, Zenon
    <3>2. QED
        BY <1>7, <3>1 DEF Resolved, Front, Last
  <2>2. k \in Nat /\ 1 <= k /\ k <= Len(x.stack) /\ k \in 1 .. Len(x.stack)
      BY <1>1, <1>7
  <2>3. /\ popped = SubSeq(x.stack, 1, k)
        /\ Len(popped) = k /\ \A i \in 1 .. k : popped[i] = x.stack[i]
      BY <1>1, <2>2, FirstOf DEF Front
  <2> HIDE DEF popped, k
  <2>4. l = x.stack[k] /\ l \in Range(x.stack)
    <3>1. k \in 1 .. k
        BY <2>2
    <3>2. QED
        BY <1>1, <2>2, <2>3, <3>1, InRange DEF Last
  <2>5. TrimTo(x.stack, l) = popped
      BY <1>1, <1>2, <2>2, <2>3, <2>4, TrimmedTo
  <2>6. l \in Ep /\ l[1] = s /\ Max({x.next, l[2]}) = x.next
      BY <1>3, <1>5, <2>4
  <2> HIDE DEF l
  <2>7. Resolved(s, op) = [active |-> l, stack |-> popped, next |-> x.next]
      BY <1>1, <2>1
  <2>8. Applied(s, x, l, op) = [active |-> l, stack |-> popped, next |-> x.next]
      BY <1>4, <1>7, <2>5, <2>6
  <2>9. QED
      BY <2>6, <2>7, <2>8
<1>8. CASE op = "resume" /\ Len(x.stack) = 1
  <2> DEFINE q == <<Main(s)>>
             m == Main(s)
  <2>1. Resolved(s, op) = [x EXCEPT !.active = m, !.stack = q]
      BY <1>8 DEF Resolved
  <2>2. 1 \in 1 .. Len(x.stack) /\ x.stack[1] = m /\ m \in Range(x.stack)
      BY <1>1, <1>2, InRange
  <2>3. TrimTo(x.stack, m) = SubSeq(x.stack, 1, 1)
      BY <1>1, <1>2, <2>2, TrimmedTo
  <2>4. SubSeq(x.stack, 1, 1) = q
    <3> DEFINE t == SubSeq(x.stack, 1, 1)
    <3>1. t \in Seq(Ep) /\ Len(t) = 1 /\ t[1] = x.stack[1]
      <4>1. 1 \in Nat /\ 1 <= Len(x.stack) /\ 1 \in 1 .. 1
          BY <1>1
      <4>2. QED
          BY <1>1, <4>1, FirstOf
    <3> HIDE DEF t
    <3>2. t = <<m>>
        BY <2>2, <3>1
    <3>3. QED
        BY <3>2 DEF t
  <2>5. m \in Ep /\ m[1] = s /\ Max({x.next, m[2]}) = x.next
      BY <1>3, <1>5, <2>2
  <2> HIDE DEF m, q
  <2>6. Resolved(s, op) = [active |-> m, stack |-> q, next |-> x.next]
      BY <1>1, <2>1
  <2>7. Applied(s, x, m, op) = [active |-> m, stack |-> q, next |-> x.next]
      BY <1>4, <1>8, <2>3, <2>4, <2>5
  <2>8. QED
      BY <2>5, <2>6, <2>7
<1>9. CASE op = "continue"
  <2>1. Resolved(s, op) = x
      BY <1>9 DEF Resolved
  <2>2. /\ x.active \in Ep /\ x.active[1] = s /\ Max({x.next, x.active[2]}) = x.next
        /\ AppendUnique(x.stack, x.active) = x.stack
      BY <1>1, <1>2, <1>3, <1>5, AppendUniqueKeeps
  <2>3. Applied(s, x, x.active, op) = [active |-> x.active, stack |-> x.stack, next |-> x.next]
      BY <1>4, <1>9, <2>2
  <2>4. QED
      BY <1>1, <2>1, <2>2, <2>3
<1>10. QED
  <2>1. Len(x.stack) > 1 \/ Len(x.stack) = 1
    <3>1. \A l \in Nat : 1 <= l => l > 1 \/ l = 1
        OBVIOUS
    <3>2. QED
        BY <1>1, <3>1
  <2>2. QED
      BY <1>6, <1>7, <1>8, <1>9, <2>1 DEF Operation

------------------------------------------------------------------------------
(* What a rebuild follows *)

\* Nothing it could not has happened.
Followed == orderly /\ \A p \in Note : note[p].pc # "failed"

Underway(c) == call[c].pc \notin {"idle", "done"}

\* An event on its way that has not moved its session yet.
Awaited(p) == note[p].pc \in {"project", "session"}

\* What has moved its session: stored, about to be, or lost.
Moved ==
    log \cup unwritten \cup lost
        \cup {Trace(c) : c \in {d \in Call : Underway(d)}}
        \cup {PostedEvent(p) : p \in {q \in Note : note[q].pc = "persist"}}

MovedOf(s) == {t \in Moved : t.session = s}

\* It has moved them one by one, and a session that is not in memory has been
\* moved by nothing that is not stored.
Dated ==
    /\ IsFiniteSet(Moved)
    /\ \A t \in Moved :
           /\ t.at \in Nat /\ t.at <= clock
           /\ t.kind \in Kinds
           /\ t.ep \in Ep /\ t.ep[1] = t.session
           /\ t \in log \/ t.session \in DOMAIN sessions
    /\ Apart(Moved)

\* A session is what what has moved it makes of a new one.
Held == \A s \in DOMAIN sessions : sessions[s] = Rebuilt(s, Listed(MovedOf(s)))

\* A query that is about to install a session has read all that has moved it.
Asked ==
    query.pc = "install" /\ query.session \notin DOMAIN sessions =>
        query.operations = Listed(MovedOf(query.session))

\* A call or event is of an episode of its session, and no call completes one.
Owned ==
    /\ \A c \in Call :
           /\ call[c].pc # "unstack"
           /\ call[c].ep \in Ep => call[c].ep[1] = call[c].session
    /\ \A p \in Note : note[p].pc # "idle" => note[p].ep[1] = note[p].session

\* An event that is awaited is the only one, comes after all that has moved a
\* session, and is of a session in memory or of one that nothing has moved.
Awaiting ==
    \A p \in Note : Awaited(p) =>
        /\ \A q \in Note : Awaited(q) => p = q
        /\ note[p].at <= clock
        /\ \A t \in Moved : t.at < note[p].at
        /\ note[p].session \in DOMAIN sessions \/ MovedOf(note[p].session) = {}

\* An event that has not been projected yet is nowhere.
Unseen ==
    \A p \in Note : note[p].pc \in {"idle", "project"} =>
        /\ \A e \in DOMAIN states : p \notin Range(states[e])
        /\ \A t \in log \cup unwritten : t.id # p
        /\ \A c \in Call : \A t \in call[c].loaded : t.id # p

FollowInv == Followed => Dated /\ Held /\ Asked /\ Owned /\ Awaiting /\ Unseen

------------------------------------------------------------------------------
(* What has moved a session *)

LEMMA MovedIsTimed ==
    ASSUME Dated, NEW s
    PROVE  /\ Timed(MovedOf(s)) /\ Apart(MovedOf(s))
           /\ \A t \in MovedOf(s) : t.ep \in Ep /\ t.ep[1] = s /\ t.at <= clock
<1>1. MovedOf(s) \in SUBSET Moved /\ \A t \in MovedOf(s) : t.session = s
    BY DEF MovedOf
<1>2. Timed(Moved)
    BY DEF Dated, Timed
<1>3. QED
    BY <1>1, <1>2, TimedSubset DEF Dated, Apart

\* What is read back of a session is what of it is stored, unless the queries
\* leave something of it behind.
LEMMA PersistedIs ==
    ASSUME Dated, Stored, NEW s, ~Truncated(s)
    PROVE  PersistedOperations(s, Queries) = Listed({t \in log : t.session = s})
<1>1. \A t \in log : t.ep[1] = t.session
    BY DEF Dated, Moved
<1>2. \A x : Main(x)[1] = x
    BY DEF Main
<1>3. ASSUME NEW q \in Queries PROVE Oldest(Rows(Main(s), q)) \subseteq Rows(Main(s), q)
  <2>1. Timed(Rows(Main(s), q))
      BY RowsAre
  <2>2. QED
      BY <2>1, OldestIs
<1>4. ASSUME NEW q \in Queries, NEW t \in Rows(Main(s), q) PROVE t \in log /\ t.session = s
  <2>1. t \in log /\ (Main(t.session) = Main(s) \/ t.ep = Main(s))
      BY DEF Rows
  <2>2. QED
      BY <1>1, <1>2, <2>1
<1>5. \A t \in Found(Main(s), Queries) : t \in log /\ t.session = s
    BY <1>3, <1>4 DEF Found
<1>6. \A t \in log : t.session = s => t \in Found(Main(s), Queries)
    BY DEF Truncated
<1>7. Found(Main(s), Queries) = {t \in log : t.session = s}
    BY <1>5, <1>6
<1>8. QED
    BY <1>7 DEF PersistedOperations

LEMMA StoredOf ==
    ASSUME Dated, NEW s, s \notin DOMAIN sessions
    PROVE  MovedOf(s) = {t \in log : t.session = s}
BY DEF Dated, Moved, MovedOf

LEMMA NotInMemory ==
    ASSUME Dated, Stored, NEW s, s \notin DOMAIN sessions, ~Truncated(s)
    PROVE  PersistedOperations(s, Queries) = Listed(MovedOf(s))
BY StoredOf, PersistedIs

\* A session of which a query finds nothing has been moved by nothing.
LEMMA NothingStored ==
    ASSUME Dated, Stored, NEW s, s \notin DOMAIN sessions, PersistedOperations(s, Queries) = <<>>
    PROVE  MovedOf(s) = {}
<1> DEFINE S == Found(Main(s), Queries)
<1>1. S \in SUBSET log /\ Listed(S) = <<>>
    BY FoundIs DEF PersistedOperations
<1> HIDE DEF S
<1>2. S = {}
  <2>1. Timed(S)
      BY <1>1, TimedSubset DEF Stored
  <2>2. Range(Listed(S)) = S
      BY <2>1, ListedIs
  <2>3. QED
      BY <1>1, <2>2, NoneYet
<1>3. ASSUME NEW t \in log, t.session = s PROVE FALSE
  <2> DEFINE q == <<t.kind, "session">>
  <2>1. q \in Queries /\ q[1] = t.kind /\ q[2] = "session"
      BY DEF Queries, Dated, Moved
  <2> HIDE DEF q
  <2>2. t \in Rows(Main(s), q)
      BY <1>3, <2>1 DEF Rows
  <2>3. Oldest(Rows(Main(s), q)) # {}
      BY <2>2, RowsAre, OldestIs
  <2>4. Oldest(Rows(Main(s), q)) \subseteq S
      BY <2>1 DEF Found, S
  <2>5. QED
      BY <1>2, <2>3, <2>4
<1>4. QED
    BY <1>3, StoredOf

LEMMA NobodyBusy ==
    ASSUME Busy = {}
    PROVE  /\ \A c \in Call : ~Underway(c)
           /\ \A p \in Note : note[p].pc \in {"idle", "failed", "done"} /\ ~Awaited(p)
           /\ Moved = log \cup unwritten \cup lost
<1>1. \A c \in Call : ~Underway(c)
    BY DEF Busy, Underway
<1>2. \A p \in Note : note[p].pc \in {"idle", "failed", "done"}
    BY DEF Busy
<1>3. QED
    BY <1>1, <1>2 DEF Awaited, Moved

\* A session that something is about to move.
LEMMA SessionIs ==
    ASSUME Dated, Held, NEW s \in Session, s \in DOMAIN sessions \/ MovedOf(s) = {}
    PROVE  /\ SessionOf(s) = Rebuilt(s, Listed(MovedOf(s)))
           /\ SessionOf(s) \in Stacked /\ Tidy(s, SessionOf(s))
<1>1. SessionOf(s) = Rebuilt(s, Listed(MovedOf(s)))
  <2>1. CASE s \in DOMAIN sessions
      BY <2>1 DEF Held, SessionOf
  <2>2. CASE s \notin DOMAIN sessions
      BY <2>2, NoneRebuilt DEF SessionOf
  <2>3. QED
      BY <2>1, <2>2
<1> DEFINE S == MovedOf(s)
           q == Listed(S)
           n == Cardinality(S)
<1>2. Timed(S) /\ \A t \in S : t.ep \in Ep /\ t.ep[1] = s
    BY MovedIsTimed
<1> HIDE DEF S
<1>3. n \in Nat /\ DOMAIN q = 1 .. n /\ q \in [1 .. n -> S]
    BY <1>2, ListedIs
<1> HIDE DEF q, n
<1>4. \A i \in 1 .. n : q[i].ep \in Ep /\ q[i].ep[1] = s
    BY <1>2, <1>3
<1>5. Rebuilt(s, q) \in Stacked /\ Tidy(s, Rebuilt(s, q))
    BY <1>3, <1>4, TidyRebuilt
<1>6. QED
    BY <1>1, <1>5 DEF q, S

\* A step that moves no session.
LEMMA NothingMoves ==
    ASSUME Dated, Held, Asked, Moved' = Moved, log \subseteq log', sessions' = sessions,
           clock \in Nat, clock' \in Nat, clock <= clock', query' = query
    PROVE  Dated' /\ Held' /\ Asked'
<1>1. Dated'
  <2>1. \A t \in Moved : t.at \in Nat /\ t.at <= clock'
      BY DEF Dated
  <2>2. QED
      BY <2>1 DEF Dated, Apart
<1>2. \A s : MovedOf(s)' = MovedOf(s)
    BY DEF MovedOf
<1>3. Held' /\ Asked'
    BY <1>2 DEF Held, Asked
<1>4. QED
    BY <1>1, <1>3

\* A step that moves one, by something that comes after all that has moved it.
LEMMA OneMoves ==
    ASSUME Dated, Held, Asked,
           NEW s \in Session, s \in DOMAIN sessions \/ MovedOf(s) = {},
           NEW t, t.ep \in Ep, t.ep[1] = s, t.session = s, t.kind \in Kinds,
           t.at \in Nat, t.at <= clock', \A u \in Moved : u.at < t.at,
           clock \in Nat, clock' \in Nat, clock <= clock',
           Moved' = Moved \cup {t}, log' = log, query' = query,
           sessions' = With(sessions, s, Replayed(s, SessionOf(s), t))
    PROVE  Dated' /\ Held' /\ Asked'
<1>1. /\ DOMAIN sessions' = {s} \cup DOMAIN sessions
      /\ sessions'[s] = Replayed(s, SessionOf(s), t)
      /\ \A z \in DOMAIN sessions : z # s => sessions'[z] = sessions[z]
    BY DEF With
<1>2. Dated'
  <2>1. IsFiniteSet(Moved \cup {t})
      BY FS_AddElement DEF Dated
  <2>2. \A u \in Moved : u.at \in Nat /\ u.at <= clock'
      BY DEF Dated
  <2>3. Apart(Moved \cup {t})
    <3>1. \A u \in Moved : u.at # t.at
        BY <2>2
    <3>2. QED
        BY <3>1 DEF Dated, Apart
  <2>4. QED
      BY <1>1, <2>1, <2>2, <2>3 DEF Dated
<1>3. /\ MovedOf(s)' = MovedOf(s) \cup {t}
      /\ \A z : z # s => MovedOf(z)' = MovedOf(z)
    BY DEF MovedOf
<1>4. Rebuilt(s, Listed(MovedOf(s)')) = sessions'[s]
  <2>1. Timed(MovedOf(s)) /\ Apart(MovedOf(s)) /\ \A u \in MovedOf(s) : u.ep \in Ep
      BY MovedIsTimed
  <2>2. \A u \in MovedOf(s) : u.at < t.at
      BY DEF MovedOf
  <2>3. Rebuilt(s, Listed(MovedOf(s) \cup {t})) = Replayed(s, Rebuilt(s, Listed(MovedOf(s))), t)
      BY <2>1, <2>2, RebuiltWith
  <2>4. SessionOf(s) = Rebuilt(s, Listed(MovedOf(s)))
      BY SessionIs
  <2>5. QED
      BY <1>1, <1>3, <2>3, <2>4
<1>5. Held'
    BY <1>1, <1>3, <1>4 DEF Held
<1>6. Asked'
    BY <1>1, <1>3 DEF Asked
<1>7. QED
    BY <1>2, <1>5, <1>6

------------------------------------------------------------------------------
(* Steps of a call *)

\* A call that goes on.
LEMMA CallGoesOn ==
    ASSUME Shape, Calls, FollowInv, Followed, NEW c \in Call, NEW r,
           Underway(c), r.pc \notin {"idle", "done", "unstack"},
           r.session = call[c].session, r.ep = call[c].ep, r.op = call[c].op, r.at = call[c].at,
           \A t \in r.loaded : t \in log \/ t \in call[c].loaded,
           call' = [call EXCEPT ![c] = r],
           UNCHANGED <<sessions, note, query, log, unwritten, lost, clock, orderly>>,
           \A p \in Note : note[p].pc \in {"idle", "project"} =>
               \A e \in DOMAIN states' : p \notin Range(states'[e])
    PROVE  FollowInv'
<1>0. Dated /\ Held /\ Asked /\ Owned /\ Awaiting /\ Unseen /\ clock \in Nat
    BY DEF FollowInv, Calls
<1>1. call'[c] = r /\ \A d \in Call \ {c} : call'[d] = call[d]
    BY DEF Shape
<1>2. \A d \in Call : Underway(d)' <=> Underway(d)
    BY <1>1 DEF Underway
<1>3. \A d \in Call : Trace(d)' = Trace(d)
    BY <1>1 DEF Trace
<1>4. \A p \in Note : PostedEvent(p)' = PostedEvent(p)
    BY DEF PostedEvent
<1>5. Moved' = Moved
    BY <1>2, <1>3, <1>4 DEF Moved
<1>6. Dated' /\ Held' /\ Asked'
    BY <1>0, <1>5, NothingMoves
<1>7. Owned'
    BY <1>0, <1>1 DEF Owned
<1>8. Awaiting'
    BY <1>0, <1>5 DEF Awaiting, Awaited, MovedOf
<1>9. Unseen'
    BY <1>0, <1>1 DEF Unseen
<1>10. QED
    BY <1>6, <1>7, <1>8, <1>9 DEF FollowInv

\* A call that only changes its place.
LEMMA CallPlaceFollows ==
    ASSUME Shape, Calls, FollowInv, Followed, NEW c \in Call, Underway(c),
           NEW pc, pc \notin {"idle", "done", "unstack"}, call' = [call EXCEPT ![c].pc = pc],
           UNCHANGED <<sessions, note, query, log, unwritten, lost, clock, orderly>>,
           \A p \in Note : note[p].pc \in {"idle", "project"} =>
               \A e \in DOMAIN states' : p \notin Range(states'[e])
    PROVE  FollowInv'
<1> DEFINE r == [call[c] EXCEPT !.pc = pc]
<1>1. /\ r.pc = pc /\ r.session = call[c].session /\ r.ep = call[c].ep
      /\ r.op = call[c].op /\ r.at = call[c].at /\ r.loaded = call[c].loaded
    BY PlaceChanges DEF Shape
<1>2. call' = [call EXCEPT ![c] = r]
    OBVIOUS
<1> HIDE DEF r
<1>3. \A t \in r.loaded : t \in log \/ t \in call[c].loaded
    BY <1>1
<1>4. QED
    BY <1>1, <1>2, <1>3, CallGoesOn

\* What is in a state once one more has been projected.
LEMMA SeenAfter ==
    ASSUME Counted, NEW x, NEW id, states' = With(states, x, ProjectUnique(StateOf(x), id)),
           NEW p, p # id, \A e \in DOMAIN states : p \notin Range(states[e])
    PROVE  \A e \in DOMAIN states' : p \notin Range(states'[e])
<1> DEFINE t == ProjectUnique(StateOf(x), id)
<1>1. IsSeq(StateOf(x)) /\ IsInjective(StateOf(x))
    BY StateOfIs
<1>2. Range(t) = Range(StateOf(x)) \cup {id}
    BY <1>1, ProjectedOnce
<1>3. p \notin Range(StateOf(x))
    BY NoneYet DEF StateOf
<1>4. states' = With(states, x, t)
    OBVIOUS
<1> HIDE DEF t
<1>5. /\ DOMAIN states' = {x} \cup DOMAIN states /\ states'[x] = t
      /\ \A z \in DOMAIN states : z # x => states'[z] = states[z]
    BY <1>4 DEF With
<1>6. QED
    BY <1>2, <1>3, <1>5

LEMMA InstallFollows ==
    ASSUME Shape, Calls, Counted, FollowInv, Followed, NEW c \in Call, InstallState(c)
    PROVE  FollowInv'
<1> DEFINE x == call[c].ep
           l == call[c].loaded
           q == Listed(l)
           n == Cardinality(l)
           t == Installed(x, l)
<1>0. Unseen
    BY DEF FollowInv
<1>1. Timed(l)
    BY DEF Calls, GoodCall
<1>2. states' = With(states, x, t)
    BY DEF InstallState
<1>3. \A p \in Note : note[p].pc \in {"idle", "project"} =>
          (\A u \in l : u.id # p) /\ \A e \in DOMAIN states : p \notin Range(states[e])
    BY <1>0 DEF Unseen
<1> HIDE DEF x, l
<1>4. n \in Nat /\ DOMAIN q = 1 .. n /\ q \in [1 .. n -> l]
    BY <1>1, ListedIs
<1>5. t = AllProjected(StateOf(x), q)
    BY Zenon DEF Installed, AllProjected
<1> HIDE DEF q, n, t
<1>6. IsSeq(StateOf(x)) /\ IsInjective(StateOf(x))
    BY StateOfIs
<1>7. Range(t) \subseteq Range(StateOf(x)) \cup {q[i].id : i \in 1 .. n}
    BY <1>4, <1>5, <1>6, ProjectedAll
<1>8. /\ DOMAIN states' = {x} \cup DOMAIN states /\ states'[x] = t
      /\ \A z \in DOMAIN states : z # x => states'[z] = states[z]
    BY <1>2 DEF With
<1>9. ASSUME NEW p \in Note, note[p].pc \in {"idle", "project"}, NEW e \in DOMAIN states'
      PROVE  p \notin Range(states'[e])
  <2>1. p \notin Range(t)
    <3>1. \A i \in 1 .. n : q[i].id # p
        BY <1>3, <1>4, <1>9
    <3>2. p \notin Range(StateOf(x))
        BY <1>3, <1>9, NoneYet DEF StateOf
    <3>3. QED
        BY <1>7, <3>1, <3>2
  <2>2. QED
      BY <1>3, <1>8, <1>9, <2>1
<1> DEFINE a == [call[c] EXCEPT !.pc = "routed"]
           r == [a EXCEPT !.loaded = {}]
<1>10. call' = [call EXCEPT ![c] = r]
  <2>1. call' = [call EXCEPT ![c] = [call[c] EXCEPT !.pc = "routed", !.loaded = {}]]
      BY DEF InstallState, Shape, IsCall
  <2>2. QED
      BY <2>1
<1>11. /\ IsCall(a) /\ a.pc = "routed" /\ a.session = call[c].session /\ a.ep = call[c].ep
       /\ a.op = call[c].op /\ a.at = call[c].at
    BY PlaceChanges DEF Shape
<1> HIDE DEF a
<1>12. /\ r.pc = a.pc /\ r.session = a.session /\ r.ep = a.ep
       /\ r.op = a.op /\ r.at = a.at /\ r.loaded = {}
    BY <1>11, LoadChanges
<1> HIDE DEF r
<1>13. Underway(c) /\ UNCHANGED <<sessions, note, query, log, unwritten, lost, clock, orderly>>
    BY DEF InstallState, Underway, store
<1>14. QED
    BY <1>9, <1>10, <1>11, <1>12, <1>13, CallGoesOn

LEMMA LoadFollows ==
    ASSUME Shape, Calls, Stored, FollowInv, Followed, NEW c \in Call, LoadState(c)
    PROVE  FollowInv'
<1>1. PICK queries \in SUBSET Queries :
          LET loaded == PersistedEvents(call[c].ep, queries)
          IN  call' = [call EXCEPT ![c].loaded = loaded,
                                   ![c].pc = IF loaded = {} THEN "routed" ELSE "install"]
    BY DEF LoadState
<1> DEFINE loaded == PersistedEvents(call[c].ep, queries)
           pc == IF loaded = {} THEN "routed" ELSE "install"
<1>2. call' = [call EXCEPT ![c] = [call[c] EXCEPT !.pc = pc, !.loaded = loaded]]
    BY <1>1 DEF Shape, IsCall
<1>3. \A t \in loaded : t \in log
    BY FoundIs DEF PersistedEvents
<1>4. pc \in {"routed", "install"}
    OBVIOUS
<1> HIDE DEF loaded, pc
<1> DEFINE a == [call[c] EXCEPT !.pc = pc]
           r == [a EXCEPT !.loaded = loaded]
<1>5. call' = [call EXCEPT ![c] = r]
    BY <1>2
<1>6. /\ IsCall(a) /\ a.pc = pc /\ a.session = call[c].session /\ a.ep = call[c].ep
      /\ a.op = call[c].op /\ a.at = call[c].at
    BY PlaceChanges DEF Shape
<1> HIDE DEF a
<1>7. /\ r.pc = a.pc /\ r.session = a.session /\ r.ep = a.ep
      /\ r.op = a.op /\ r.at = a.at /\ r.loaded = loaded
    BY <1>6, LoadChanges
<1> HIDE DEF r
<1>8. /\ Underway(c) /\ UNCHANGED <<sessions, note, query, log, unwritten, lost, clock, orderly>>
      /\ \A p \in Note : note[p].pc \in {"idle", "project"} =>
             \A e \in DOMAIN states' : p \notin Range(states'[e])
    BY DEF LoadState, Underway, memory, store, FollowInv, Unseen
<1>9. QED
    BY <1>3, <1>4, <1>5, <1>6, <1>7, <1>8, CallGoesOn

LEMMA CallStepFollows ==
    ASSUME Shape, Calls, Counted, FollowInv, Followed, NEW c \in Call,
           CheckState(c) \/ MarkState(c) \/ RecordCall(c)
    PROVE  FollowInv'
<1>1. /\ Underway(c) /\ UNCHANGED <<sessions, note, query, log, unwritten, lost, clock, orderly>>
    BY DEF CheckState, MarkState, RecordCall, Underway, memory, store
<1>2. \E pc \in {"routed", "mark", "load", "clear", "audit"} : call' = [call EXCEPT ![c].pc = pc]
  <2>1. CASE CheckState(c)
    <3> DEFINE pc == IF call[c].ep \in DOMAIN states THEN "routed" ELSE "mark"
    <3>1. pc \in {"routed", "mark"} /\ call' = [call EXCEPT ![c].pc = pc]
        BY <2>1 DEF CheckState
    <3> HIDE DEF pc
    <3>2. QED
        BY <3>1
  <2>2. CASE MarkState(c)
    <3> DEFINE pc == IF AlreadyTried(call[c].ep) THEN "routed" ELSE "load"
    <3>1. pc \in {"routed", "load"} /\ call' = [call EXCEPT ![c].pc = pc]
        BY <2>2 DEF MarkState
    <3> HIDE DEF pc
    <3>2. QED
        BY <3>1
  <2>3. CASE RecordCall(c)
    <3> DEFINE pc == IF call[c].completion THEN "clear" ELSE "audit"
    <3>1. pc \in {"clear", "audit"} /\ call' = [call EXCEPT ![c].pc = pc]
        BY <2>3 DEF RecordCall
    <3> HIDE DEF pc
    <3>2. QED
        BY <3>1
  <2>4. QED
      BY <2>1, <2>2, <2>3
<1>3. \A p \in Note : note[p].pc \in {"idle", "project"} =>
          \A e \in DOMAIN states' : p \notin Range(states'[e])
  <2>1. \A p \in Note : note[p].pc \in {"idle", "project"} =>
            \A e \in DOMAIN states : p \notin Range(states[e])
      BY DEF FollowInv, Unseen
  <2>2. CASE states' = states
      BY <2>1, <2>2
  <2>3. CASE RecordCall(c)
    <3>1. states' = With(states, call[c].ep, ProjectUnique(StateOf(call[c].ep), c))
        BY <2>3 DEF RecordCall
    <3>2. \A p \in Note : p # c
        BY EpisodeAssumption
    <3>3. QED
        BY <2>1, <3>1, <3>2, SeenAfter
  <2>4. QED
      BY <2>2, <2>3 DEF CheckState, MarkState, memory
<1>4. QED
    BY <1>1, <1>2, <1>3, CallPlaceFollows

\* A call that ends, its trace on its way or lost.
LEMMA EndFollows ==
    ASSUME Shape, Calls, FollowInv, Followed, NEW c \in Call, AuditCall(c) \/ Abort(c)
    PROVE  FollowInv'
<1>0. Dated /\ Held /\ Asked /\ Owned /\ Awaiting /\ Unseen /\ clock \in Nat
    BY DEF FollowInv, Calls
<1>1. /\ call'[c] = Ended(c) /\ \A d \in Call \ {c} : call'[d] = call[d]
      /\ \/ unwritten' = unwritten \cup {Trace(c)} /\ lost' = lost
         \/ unwritten' = unwritten /\ lost' = lost \cup {Trace(c)}
      /\ call[c].pc \in {"audit", "routed"}
      /\ UNCHANGED <<sessions, states, note, query, log, clock, orderly>>
    BY DEF AuditCall, Abort, Shape, memory
<1>2. /\ Ended(c).pc = "done" /\ Ended(c).session = call[c].session
      /\ Ended(c).ep = call[c].ep /\ Ended(c).loaded = {}
    BY DEF Ended, CallOf
<1>3. /\ \A d \in Call \ {c} : Trace(d)' = Trace(d) /\ (Underway(d)' <=> Underway(d))
      /\ ~Underway(c)' /\ Underway(c)
      /\ \A p \in Note : PostedEvent(p)' = PostedEvent(p)
    BY <1>1, <1>2 DEF Trace, Underway, PostedEvent
<1>4. Moved' = Moved
    BY <1>1, <1>3 DEF Moved
<1>5. Dated' /\ Held' /\ Asked'
    BY <1>0, <1>1, <1>4, NothingMoves
<1>6. Owned'
    BY <1>0, <1>1, <1>2 DEF Owned
<1>7. Awaiting'
    BY <1>0, <1>1, <1>4 DEF Awaiting, Awaited, MovedOf
<1>8. Unseen'
  <2>1. Trace(c).id = c /\ c \notin Note
      BY EpisodeAssumption DEF Trace
  <2>2. QED
      BY <1>0, <1>1, <1>2, <2>1 DEF Unseen
<1>9. QED
    BY <1>5, <1>6, <1>7, <1>8 DEF FollowInv

\* A flush: what it has taken goes from one place to another.
LEMMA FlushFollows ==
    ASSUME Calls, FollowInv, Followed, Flush
    PROVE  FollowInv'
<1>0. Dated /\ Held /\ Asked /\ Owned /\ Awaiting /\ Unseen /\ clock \in Nat
    BY DEF FollowInv, Calls
<1>1. PICK batch \in SUBSET unwritten, stored \in SUBSET unwritten :
          /\ stored \subseteq batch
          /\ unwritten' = unwritten \ batch
          /\ log' = log \cup stored
          /\ lost' = lost \cup (batch \ stored)
    BY DEF Flush
<1>2. UNCHANGED <<sessions, states, call, note, query, clock, orderly>>
    BY DEF Flush, memory
<1>3. /\ \A c \in Call : Trace(c)' = Trace(c) /\ (Underway(c)' <=> Underway(c))
      /\ \A p \in Note : PostedEvent(p)' = PostedEvent(p)
    BY <1>2 DEF Trace, Underway, PostedEvent
<1>4. log' \cup unwritten' \cup lost' = log \cup unwritten \cup lost
    BY <1>1
<1>5. Moved' = Moved
    BY <1>2, <1>3, <1>4 DEF Moved
<1>6. Dated' /\ Held' /\ Asked'
    BY <1>0, <1>1, <1>2, <1>5, NothingMoves
<1>7. Owned'
    BY <1>0, <1>2 DEF Owned
<1>8. Awaiting'
    BY <1>0, <1>2, <1>5 DEF Awaiting, Awaited, MovedOf
<1>9. Unseen'
  <2>1. log' \cup unwritten' \subseteq log \cup unwritten
      BY <1>1
  <2>2. QED
      BY <1>0, <1>2, <2>1 DEF Unseen
<1>10. QED
    BY <1>6, <1>7, <1>8, <1>9 DEF FollowInv

\* A request of a session in memory, or of one that nothing has moved.
LEMMA ResolveFollows ==
    ASSUME Shape, Calls, Stacks, Stored, FollowInv, Followed, Followed', NEW c \in Call,
           NEW s \in Session, NEW op \in Operation, NEW x, Resolve(c, s, op, x)
    PROVE  FollowInv'
<1>0. Dated /\ Held /\ Asked /\ Owned /\ Awaiting /\ Unseen /\ clock \in Nat
    BY DEF FollowInv, Calls
<1>1. /\ call[c].pc = "idle" /\ clock' = clock + 1
      /\ UNCHANGED <<states, note, query, log, unwritten, lost>>
    BY DEF Resolve, store
<1>2. /\ Busy = {} /\ x = {}
      /\ s \in DOMAIN sessions \/ PersistedOperations(s, Queries) = <<>>
    BY DEF Resolve, Followed
<1>3. s \in DOMAIN sessions \/ MovedOf(s) = {}
    BY <1>0, <1>2, NothingStored
<1> DEFINE X == SessionOf(s)
           y == Resolved(s, op)
<1>4. X \in Stacked /\ Tidy(s, X)
    BY <1>0, <1>3, SessionIs
<1>5. y.active \in Ep /\ y.active[1] = s /\ y = Applied(s, X, y.active, op)
    BY <1>4, ResolvedReplays
<1>6. PICK pc \in {"check", "routed"}, b \in BOOLEAN :
          call' = [call EXCEPT ![c] = CallOf(pc, s, op, y.active, clock + 1, b)]
    BY <1>2, Zenon DEF Resolve
<1>7. sessions' = With(sessions, s, y)
    BY <1>2, Zenon DEF Resolve
<1> HIDE DEF y, X
<1> DEFINE r == CallOf(pc, s, op, y.active, clock + 1, b)
           t == [kind |-> "call", id |-> c, session |-> s, ep |-> y.active, op |-> op, at |-> clock + 1]
<1>8. call'[c] = r /\ \A d \in Call \ {c} : call'[d] = call[d]
    BY <1>6 DEF Shape
<1>9. r.pc = pc /\ r.session = s /\ r.ep = y.active /\ r.op = op /\ r.at = clock + 1 /\ r.loaded = {}
    BY DEF CallOf
<1> HIDE DEF r
<1>10. Trace(c)' = t
    BY <1>8, <1>9 DEF Trace
<1>11. /\ t.session = s /\ t.ep = y.active /\ t.op = op /\ t.at = clock + 1 /\ t.kind \in Kinds
    BY DEF Kinds
<1> HIDE DEF t
<1>12. /\ \A d \in Call \ {c} : Trace(d)' = Trace(d) /\ (Underway(d)' <=> Underway(d))
       /\ Underway(c)' /\ ~Underway(c)
       /\ \A p \in Note : PostedEvent(p)' = PostedEvent(p)
    BY <1>1, <1>8, <1>9 DEF Trace, Underway, PostedEvent
<1>13. Moved' = Moved \cup {t}
    BY <1>1, <1>10, <1>12 DEF Moved
<1>14. y = Replayed(s, X, t)
  <2>1. op # ""
      BY DEF Operation
  <2>2. QED
      BY <1>5, <1>11, <2>1 DEF Replayed
<1>15. \A u \in Moved : u.at < clock + 1
    BY <1>0 DEF Dated
<1>16. Dated' /\ Held' /\ Asked'
  <2>1. clock' \in Nat /\ clock <= clock' /\ t.at \in Nat /\ t.at <= clock'
      BY <1>0, <1>1, <1>11
  <2>2. \A u \in Moved : u.at < t.at
      BY <1>11, <1>15
  <2>3. sessions' = With(sessions, s, Replayed(s, SessionOf(s), t))
      BY <1>7, <1>14 DEF X
  <2>4. QED
      BY <1>0, <1>1, <1>3, <1>5, <1>11, <1>13, <2>1, <2>2, <2>3, OneMoves
<1>17. Owned'
    BY <1>0, <1>1, <1>5, <1>8, <1>9 DEF Owned
<1>18. Awaiting'
    BY <1>1, <1>2, NobodyBusy DEF Awaiting, Awaited
<1>19. Unseen'
    BY <1>0, <1>1, <1>8, <1>9 DEF Unseen
<1>20. QED
    BY <1>16, <1>17, <1>18, <1>19 DEF FollowInv

------------------------------------------------------------------------------
(* Steps of an event *)

LEMMA NoteMoves ==
    ASSUME Notes, NEW p \in Note, NEW pc, note' = [note EXCEPT ![p].pc = pc]
    PROVE  /\ note'[p].pc = pc /\ note'[p].session = note[p].session
           /\ note'[p].ep = note[p].ep /\ note'[p].at = note[p].at
           /\ \A q \in Note \ {p} : note'[q] = note[q]
<1> DEFINE r == [note[p] EXCEPT !.pc = pc]
<1>1. r.pc = pc /\ r.session = note[p].session /\ r.ep = note[p].ep /\ r.at = note[p].at
  <2>1. IsNote(note[p])
      BY DEF Notes, GoodNote
  <2>2. PICK a, s, e, t : note[p] = [pc |-> a, session |-> s, ep |-> e, at |-> t]
      BY <2>1 DEF IsNote
  <2> DEFINE R == [pc |-> pc, session |-> s, ep |-> e, at |-> t]
  <2>3. r = R
      BY <2>2
  <2>4. R.pc = pc /\ R.session = note[p].session /\ R.ep = note[p].ep /\ R.at = note[p].at
      BY <2>2
  <2> HIDE DEF R, r
  <2>5. QED
      BY <2>3, <2>4
<1>2. note' = [note EXCEPT ![p] = r]
    OBVIOUS
<1> HIDE DEF r
<1>3. note'[p] = r /\ \A q \in Note \ {p} : note'[q] = note[q]
    BY <1>2 DEF Notes
<1>4. QED
    BY <1>1, <1>3

\* An event of a session in memory, or of one that nothing has moved.
LEMMA PostFollows ==
    ASSUME Calls, Notes, Stored, FollowInv, Followed, Followed', NEW p \in Note,
           NEW s \in Session, NEW e \in EpisodeId, NEW at \in 1 .. LastTime, Post(p, s, e, at)
    PROVE  FollowInv'
<1>0. Dated /\ Held /\ Asked /\ Owned /\ Awaiting /\ Unseen /\ clock \in Nat
    BY DEF FollowInv, Calls
<1> DEFINE r == [pc |-> "project", session |-> s, ep |-> e, at |-> at]
<1>1. /\ note[p].pc = "idle" /\ clock' = clock + 1
      /\ note'[p] = r /\ \A q \in Note \ {p} : note'[q] = note[q]
      /\ UNCHANGED <<states, sessions, call, query, log, unwritten, lost>>
    BY DEF Post, Notes, memory, store
<1>2. r.pc = "project" /\ r.session = s /\ r.ep = e /\ r.at = at
    OBVIOUS
<1> HIDE DEF r
<1>3. Busy = {} /\ at = clock + 1 /\ (s \in DOMAIN sessions \/ PersistedOperations(s, Queries) = <<>>)
    BY DEF Post, Followed
<1>4. s \in DOMAIN sessions \/ MovedOf(s) = {}
    BY <1>0, <1>3, NothingStored
<1>5. e[1] = s
  <2>1. e \in Ep
      BY EpisodeIds
  <2>2. e = Main(s) \/ \E c \in Call : call[c].session = s /\ e = call[c].ep
      BY DEF Post
  <2>3. Main(s)[1] = s
      BY DEF Main
  <2>4. QED
      BY <1>0, <2>1, <2>2, <2>3 DEF Owned
<1>6. /\ \A q \in Note \ {p} : PostedEvent(q)' = PostedEvent(q)
      /\ \A q \in Note : note'[q].pc = "persist" <=> note[q].pc = "persist"
      /\ note'[p].pc # "persist"
      /\ \A c \in Call : Trace(c)' = Trace(c) /\ (Underway(c)' <=> Underway(c))
    BY <1>1, <1>2 DEF PostedEvent, Trace, Underway
<1>7. Moved' = Moved
    BY <1>1, <1>6 DEF Moved
<1>8. Dated' /\ Held' /\ Asked'
  <2>1. clock' \in Nat /\ clock <= clock'
      BY <1>0, <1>1
  <2>2. QED
      BY <1>0, <1>1, <1>7, <2>1, NothingMoves
<1>9. Owned'
    BY <1>0, <1>1, <1>2, <1>5 DEF Owned
<1>10. Awaiting'
  <2>1. \A q \in Note : Awaited(q)' => q = p
      BY <1>1, <1>3, NobodyBusy DEF Awaited
  <2>2. \A t \in Moved : t.at < clock + 1
      BY <1>0 DEF Dated
  <2>3. MovedOf(s)' = MovedOf(s)
      BY <1>7 DEF MovedOf
  <2>4. clock + 1 <= clock'
      BY <1>0, <1>1
  <2>5. QED
      BY <1>1, <1>2, <1>3, <1>4, <1>7, <2>1, <2>2, <2>3, <2>4 DEF Awaiting
<1>11. Unseen'
    BY <1>0, <1>1, <1>2 DEF Unseen
<1>12. QED
    BY <1>8, <1>9, <1>10, <1>11 DEF FollowInv

LEMMA ProjectFollows ==
    ASSUME Calls, Notes, Counted, FollowInv, Followed, NEW p \in Note, ProjectNote(p)
    PROVE  FollowInv'
<1>0. Dated /\ Held /\ Asked /\ Owned /\ Awaiting /\ Unseen /\ clock \in Nat
    BY DEF FollowInv, Calls
<1>1. /\ note[p].pc = "project"
      /\ states' = With(states, note[p].ep, ProjectUnique(StateOf(note[p].ep), p))
      /\ UNCHANGED <<sessions, call, query, log, unwritten, lost, clock>>
    BY DEF ProjectNote, store
<1>2. ~Contains(StateOf(note[p].ep), p)
  <2>1. p \notin Range(StateOf(note[p].ep))
      BY <1>0, <1>1, NoneYet DEF Unseen, StateOf
  <2>2. QED
      BY <2>1, StateOfIs, ContainsIs
<1>3. note' = [note EXCEPT ![p].pc = "session"]
    BY <1>2 DEF ProjectNote
<1>4. /\ note'[p].pc = "session" /\ note'[p].session = note[p].session
      /\ note'[p].ep = note[p].ep /\ note'[p].at = note[p].at
      /\ \A q \in Note \ {p} : note'[q] = note[q]
    BY <1>3, NoteMoves
<1>5. /\ \A q \in Note : PostedEvent(q)' = PostedEvent(q)
      /\ \A q \in Note : note'[q].pc = "persist" <=> note[q].pc = "persist"
      /\ \A c \in Call : Trace(c)' = Trace(c) /\ (Underway(c)' <=> Underway(c))
      /\ \A q \in Note : Awaited(q)' <=> Awaited(q)
    BY <1>1, <1>4 DEF PostedEvent, Trace, Underway, Awaited
<1>6. Moved' = Moved
    BY <1>1, <1>5 DEF Moved
<1>7. Dated' /\ Held' /\ Asked'
    BY <1>0, <1>1, <1>6, NothingMoves
<1>8. Owned'
    BY <1>0, <1>1, <1>4 DEF Owned
<1>9. Awaiting'
  <2>1. \A q \in Note : note'[q].at = note[q].at /\ note'[q].session = note[q].session
      BY <1>4
  <2>2. \A s : MovedOf(s)' = MovedOf(s)
      BY <1>6 DEF MovedOf
  <2>3. QED
      BY <1>0, <1>1, <1>5, <1>6, <2>1, <2>2 DEF Awaiting
<1>10. Unseen'
  <2>1. ASSUME NEW q \in Note, note'[q].pc \in {"idle", "project"}
        PROVE  q # p /\ note[q].pc \in {"idle", "project"}
      BY <1>4, <2>1
  <2>2. ASSUME NEW q \in Note, note'[q].pc \in {"idle", "project"}
        PROVE  \A e \in DOMAIN states' : q \notin Range(states'[e])
    <3>1. q # p /\ \A e \in DOMAIN states : q \notin Range(states[e])
        BY <1>0, <2>1, <2>2 DEF Unseen
    <3>2. QED
        BY <1>1, <3>1, SeenAfter
  <2>3. QED
      BY <1>0, <1>1, <2>1, <2>2 DEF Unseen
<1>11. QED
    BY <1>7, <1>8, <1>9, <1>10 DEF FollowInv

LEMMA RecordFollows ==
    ASSUME Calls, Notes, FollowInv, Followed, NEW p \in Note, RecordSession(p)
    PROVE  FollowInv'
<1>0. Dated /\ Held /\ Asked /\ Owned /\ Awaiting /\ Unseen /\ clock \in Nat
    BY DEF FollowInv, Calls
<1> DEFINE s == note[p].session
           t == PostedEvent(p)
<1>1. /\ note[p].pc = "session" /\ note' = [note EXCEPT ![p].pc = "persist"]
      /\ sessions' = With(sessions, s, Applied(s, SessionOf(s), note[p].ep,
                                               Inferred(s, SessionOf(s), note[p].ep)))
      /\ UNCHANGED <<states, call, query, log, unwritten, lost, clock>>
    BY DEF RecordSession, store
<1>2. /\ note'[p].pc = "persist" /\ note'[p].session = s
      /\ note'[p].ep = note[p].ep /\ note'[p].at = note[p].at
      /\ \A q \in Note \ {p} : note'[q] = note[q]
    BY <1>1, NoteMoves
<1>3. /\ s \in Session /\ note[p].ep \in Ep /\ note[p].ep[1] = s /\ note[p].at \in Nat
    BY <1>0, <1>1 DEF Notes, GoodNote, Owned
<1>4. /\ \A q \in Note : Awaited(q) => q = p
      /\ note[p].at <= clock /\ \A u \in Moved : u.at < note[p].at
      /\ s \in DOMAIN sessions \/ MovedOf(s) = {}
    BY <1>0, <1>1 DEF Awaiting, Awaited
<1>5. /\ t.session = s /\ t.ep = note[p].ep /\ t.op = "" /\ t.at = note[p].at /\ t.kind \in Kinds
    BY DEF PostedEvent, Kinds
<1>6. sessions' = With(sessions, s, Replayed(s, SessionOf(s), t))
    BY <1>1, <1>5 DEF Replayed
<1>7. /\ \A q \in Note : PostedEvent(q)' = PostedEvent(q)
      /\ \A q \in Note \ {p} : note'[q].pc = "persist" <=> note[q].pc = "persist"
      /\ \A c \in Call : Trace(c)' = Trace(c) /\ (Underway(c)' <=> Underway(c))
      /\ \A q \in Note : ~Awaited(q)'
    BY <1>1, <1>2, <1>4 DEF PostedEvent, Trace, Underway, Awaited
<1>8. Moved' = Moved \cup {t}
    BY <1>1, <1>2, <1>7 DEF Moved
<1>9. Dated' /\ Held' /\ Asked'
  <2>1. /\ t.session = s /\ t.ep \in Ep /\ t.ep[1] = s /\ t.kind \in Kinds /\ t.at \in Nat
        /\ t.at <= clock' /\ \A u \in Moved : u.at < t.at
      BY <1>1, <1>3, <1>4, <1>5
  <2>2. clock' \in Nat /\ clock <= clock' /\ log' = log /\ query' = query
      BY <1>0, <1>1
  <2> HIDE DEF s, t
  <2>3. QED
      BY <1>0, <1>3, <1>4, <1>6, <1>8, <2>1, <2>2, OneMoves
<1>10. Owned'
    BY <1>0, <1>1, <1>2 DEF Owned
<1>11. Awaiting'
    BY <1>7 DEF Awaiting
<1>12. Unseen'
    BY <1>0, <1>1, <1>2 DEF Unseen
<1>13. QED
    BY <1>9, <1>10, <1>11, <1>12 DEF FollowInv

LEMMA PersistNoteFollows ==
    ASSUME Calls, Notes, FollowInv, Followed, Followed', NEW p \in Note, PersistNote(p)
    PROVE  FollowInv'
<1>0. Dated /\ Held /\ Asked /\ Owned /\ Awaiting /\ Unseen /\ clock \in Nat
    BY DEF FollowInv, Calls
<1>1. /\ note[p].pc = "persist"
      /\ UNCHANGED <<sessions, states, call, query, unwritten, lost, clock>>
      /\ \/ log' = log \cup {PostedEvent(p)} /\ note' = [note EXCEPT ![p].pc = "done"]
         \/ note' = [note EXCEPT ![p].pc = "failed"]
    BY DEF PersistNote, memory
<1>2. note' # [note EXCEPT ![p].pc = "failed"]
  <2>1. ASSUME note' = [note EXCEPT ![p].pc = "failed"] PROVE FALSE
    <3>1. note'[p].pc = "failed"
        BY <2>1, NoteMoves
    <3>2. QED
        BY <3>1 DEF Followed
  <2>2. QED
      BY <2>1
<1>3. log' = log \cup {PostedEvent(p)} /\ note' = [note EXCEPT ![p].pc = "done"]
    BY <1>1, <1>2
<1>4. /\ note'[p].pc = "done" /\ note'[p].session = note[p].session
      /\ note'[p].ep = note[p].ep /\ note'[p].at = note[p].at
      /\ \A q \in Note \ {p} : note'[q] = note[q]
    BY <1>3, NoteMoves
<1>5. /\ \A q \in Note : PostedEvent(q)' = PostedEvent(q)
      /\ \A q \in Note \ {p} : note'[q].pc = "persist" <=> note[q].pc = "persist"
      /\ \A c \in Call : Trace(c)' = Trace(c) /\ (Underway(c)' <=> Underway(c))
      /\ \A q \in Note : Awaited(q)' <=> Awaited(q)
    BY <1>1, <1>4 DEF PostedEvent, Trace, Underway, Awaited
<1>6. Moved' = Moved
    BY <1>1, <1>3, <1>4, <1>5 DEF Moved
<1>7. Dated' /\ Held' /\ Asked'
    BY <1>0, <1>1, <1>3, <1>6, NothingMoves
<1>8. Owned'
    BY <1>0, <1>1, <1>4 DEF Owned
<1>9. Awaiting'
  <2>1. \A q \in Note : note'[q].at = note[q].at /\ note'[q].session = note[q].session
      BY <1>4
  <2>2. \A s : MovedOf(s)' = MovedOf(s)
      BY <1>6 DEF MovedOf
  <2>3. QED
      BY <1>0, <1>1, <1>5, <1>6, <2>1, <2>2 DEF Awaiting
<1>10. Unseen'
  <2>1. PostedEvent(p).id = p
      BY DEF PostedEvent
  <2>2. \A q \in Note : note'[q].pc \in {"idle", "project"} => q # p /\ note[q].pc \in {"idle", "project"}
      BY <1>4
  <2>3. QED
      BY <1>0, <1>1, <1>3, <2>1, <2>2 DEF Unseen
<1>11. QED
    BY <1>7, <1>8, <1>9, <1>10 DEF FollowInv

------------------------------------------------------------------------------
(* Session queries and restarts *)

LEMMA MovedSame ==
    ASSUME UNCHANGED <<call, note, log, unwritten, lost>>
    PROVE  Moved' = Moved /\ \A s : MovedOf(s)' = MovedOf(s)
<1>1. /\ \A q \in Note : PostedEvent(q)' = PostedEvent(q)
      /\ \A c \in Call : Trace(c)' = Trace(c) /\ (Underway(c)' <=> Underway(c))
    BY DEF PostedEvent, Trace, Underway
<1>2. Moved' = Moved
    BY <1>1 DEF Moved
<1>3. QED
    BY <1>2 DEF MovedOf

\* A step in which nothing but a session query moves.
LEMMA QueryMoves ==
    ASSUME Calls, FollowInv, Followed, DOMAIN sessions \subseteq DOMAIN sessions',
           UNCHANGED <<states, call, note, log, unwritten, lost, clock>>, Held', Asked'
    PROVE  FollowInv'
<1>0. Dated /\ Held /\ Asked /\ Owned /\ Awaiting /\ Unseen
    BY DEF FollowInv
<1>1. \A q \in Note : Awaited(q)' <=> Awaited(q)
    BY DEF Awaited
<1>2. Moved' = Moved
    BY MovedSame
<1>3. Dated'
    BY <1>0, <1>2 DEF Dated, Apart
<1>4. Owned'
    BY <1>0 DEF Owned
<1>5. Awaiting'
    BY <1>0, <1>1, <1>2 DEF Awaiting, MovedOf
<1>6. Unseen'
    BY <1>0 DEF Unseen
<1>7. QED
    BY <1>3, <1>4, <1>5, <1>6 DEF FollowInv

LEMMA QueryLoaded ==
    ASSUME NEW q, GoodQuery(q), NEW l
    PROVE  LET r == [q EXCEPT !.pc = "install", !.operations = l]
           IN  r.pc = "install" /\ r.session = q.session /\ r.operations = l
<1>1. PICK a, s, b : q = [pc |-> a, session |-> s, operations |-> b]
    BY DEF GoodQuery
<1> DEFINE R == [pc |-> "install", session |-> s, operations |-> l]
<1>2. [q EXCEPT !.pc = "install", !.operations = l] = R
  <2>1. [q EXCEPT !.pc = "install"] = [pc |-> "install", session |-> s, operations |-> b]
      BY <1>1
  <2>2. [[pc |-> "install", session |-> s, operations |-> b] EXCEPT !.operations = l] = R
      OBVIOUS
  <2>3. QED
      BY <2>1, <2>2
<1>3. R.pc = "install" /\ R.session = q.session /\ R.operations = l
    BY <1>1
<1> HIDE DEF R
<1>4. QED
    BY <1>2, <1>3

LEMMA QueryFollows ==
    ASSUME Calls, Stored, GoodQuery(query), FollowInv, Followed, Followed',
           \/ \E s \in Session : QuerySession(s)
           \/ LoadSession \/ InstallSession \/ UNCHANGED vars
    PROVE  FollowInv'
<1>0. Dated /\ Held /\ Asked
    BY DEF FollowInv
<1>1. UNCHANGED <<states, call, note, log, unwritten, lost, clock>>
    BY DEF QuerySession, LoadSession, InstallSession, memory, store, vars
<1>2. \A s : MovedOf(s)' = MovedOf(s)
    BY <1>1, MovedSame
<1>3. ASSUME NEW s \in Session, QuerySession(s) PROVE FollowInv'
  <2>1. query'.pc = "load" /\ sessions' = sessions
      BY <1>3 DEF QuerySession
  <2>2. Held' /\ Asked'
      BY <1>0, <1>2, <2>1 DEF Held, Asked
  <2>3. QED
      BY <1>1, <2>1, <2>2, QueryMoves
<1>4. ASSUME LoadSession PROVE FollowInv'
  <2> DEFINE s == query.session
             all == PersistedOperations(s, Queries)
  <2>1. PICK queries \in SUBSET Queries :
            LET operations == PersistedOperations(query.session, queries)
            IN  /\ query' = IF operations = <<>> THEN NoQuery
                            ELSE [query EXCEPT !.pc = "install", !.operations = operations]
                /\ orderly' = (orderly /\ operations \in {PersistedOperations(query.session, Queries), <<>>}
                                       /\ ~Truncated(query.session))
      BY <1>4, Zenon DEF LoadSession
  <2> DEFINE operations == PersistedOperations(s, queries)
             r == [query EXCEPT !.pc = "install", !.operations = operations]
  <2>2. operations \in {all, <<>>} /\ ~Truncated(s)
      BY <2>1 DEF Followed
  <2>3. query' = IF operations = <<>> THEN NoQuery ELSE r
      BY <2>1
  <2>4. r.pc = "install" /\ r.session = s /\ r.operations = operations
      BY QueryLoaded
  <2> HIDE DEF r, operations
  <2>5. NoQuery.pc = "idle"
      BY DEF NoQuery
  <2>6. sessions' = sessions
      BY <1>4 DEF LoadSession, memory
  <2>7. s \notin DOMAIN sessions => all = Listed(MovedOf(s))
      BY <1>0, <2>2, NotInMemory
  <2> HIDE DEF s, all
  <2>8. Asked'
      BY <1>2, <2>2, <2>3, <2>4, <2>5, <2>6, <2>7 DEF Asked
  <2>9. Held'
      BY <1>0, <1>2, <2>6 DEF Held
  <2>10. QED
      BY <1>1, <2>6, <2>8, <2>9, QueryMoves
<1>5. ASSUME InstallSession PROVE FollowInv'
  <2> DEFINE s == query.session
             y == Rebuilt(s, query.operations)
  <2>1. query'.pc = "idle"
      BY <1>5 DEF InstallSession, NoQuery
  <2>2. Asked'
      BY <2>1 DEF Asked
  <2>3. query.pc = "install" /\ sessions' = IF s \in DOMAIN sessions THEN sessions ELSE With(sessions, s, y)
      BY <1>5 DEF InstallSession
  <2>4. s \notin DOMAIN sessions => y = Rebuilt(s, Listed(MovedOf(s)))
      BY <1>0, <2>3 DEF Asked
  <2> HIDE DEF s, y
  <2>5. CASE s \in DOMAIN sessions
    <3>1. sessions' = sessions
        BY <2>3, <2>5
    <3>2. Held'
        BY <1>0, <1>2, <3>1 DEF Held
    <3>3. QED
        BY <1>1, <2>2, <3>1, <3>2, QueryMoves
  <2>6. CASE s \notin DOMAIN sessions
    <3>1. /\ DOMAIN sessions' = {s} \cup DOMAIN sessions /\ sessions'[s] = y
          /\ \A z \in DOMAIN sessions : z # s => sessions'[z] = sessions[z]
        BY <2>3, <2>6 DEF With
    <3>2. Held'
        BY <1>0, <1>2, <2>4, <2>6, <3>1 DEF Held
    <3>3. QED
        BY <1>1, <2>2, <3>1, <3>2, QueryMoves
  <2>7. QED
      BY <2>5, <2>6
<1>6. ASSUME UNCHANGED vars PROVE FollowInv'
  <2>1. sessions' = sessions /\ query' = query
      BY <1>6 DEF vars
  <2>2. Held' /\ Asked'
      BY <1>0, <1>2, <2>1 DEF Held, Asked
  <2>3. QED
      BY <1>1, <2>1, <2>2, QueryMoves
<1>7. QED
    BY <1>3, <1>4, <1>5, <1>6

\* After a restart in which no event was lost there is what is stored.
LEMMA RestartFollows ==
    ASSUME Calls, Notes, FollowInv, Followed, Followed', Restart
    PROVE  FollowInv'
<1>0. Dated /\ Owned /\ Awaiting /\ Unseen
    BY DEF FollowInv
<1>1. /\ \A c \in Call : call'[c] = IF c \in Busy THEN Ended(c) ELSE call[c]
      /\ \A p \in Note : note'[p] = IF p \in Busy THEN [note[p] EXCEPT !.pc = "failed"] ELSE note[p]
      /\ DOMAIN sessions' = {} /\ DOMAIN states' = {} /\ query' = NoQuery
      /\ log' = log /\ unwritten' = {} /\ lost' = {} /\ clock' = clock
    BY DEF Restart
<1>2. \A c : /\ Ended(c).pc = "done" /\ Ended(c).session = call[c].session
             /\ Ended(c).ep = call[c].ep /\ Ended(c).loaded = {}
    BY DEF Ended, CallOf
<1>3. \A c \in Call : ~Underway(c)'
  <2>1. TAKE c \in Call
  <2>2. CASE c \in Busy
      BY <1>1, <1>2, <2>2 DEF Underway
  <2>3. CASE c \notin Busy
      BY <1>1, <2>3 DEF Underway, Busy
  <2>4. QED
      BY <2>2, <2>3
<1>4. \A p \in Note : p \notin Busy
  <2>1. ASSUME NEW p \in Note, p \in Busy PROVE FALSE
    <3>1. note'[p].pc = "failed"
      <4>1. GoodNote(note[p])
          BY DEF Notes
      <4>2. [note[p] EXCEPT !.pc = "failed"].pc = "failed"
          BY <4>1 DEF GoodNote, IsNote
      <4>3. QED
          BY <1>1, <2>1, <4>2
    <3>2. QED
        BY <3>1 DEF Followed
  <2>2. QED
      BY <2>1
<1>5. \A p \in Note : note'[p] = note[p] /\ note[p].pc \in {"idle", "failed", "done"}
    BY <1>1, <1>4 DEF Busy
<1>6. Moved' = log
    BY <1>1, <1>3, <1>5 DEF Moved
<1>7. log \subseteq Moved
    BY DEF Moved
<1>8. Dated'
  <2>1. IsFiniteSet(log)
      BY <1>0, <1>7, FS_Subset DEF Dated
  <2>2. QED
      BY <1>0, <1>1, <1>6, <1>7, <2>1 DEF Dated, Apart
<1>9. Held' /\ Asked'
    BY <1>1 DEF Held, Asked, NoQuery
<1>10. Owned'
    BY <1>0, <1>1, <1>2, <1>5 DEF Owned
<1>11. Awaiting'
    BY <1>5 DEF Awaiting, Awaited
<1>12. Unseen'
    BY <1>0, <1>1, <1>2, <1>5 DEF Unseen
<1>13. QED
    BY <1>8, <1>9, <1>10, <1>11, <1>12 DEF FollowInv

------------------------------------------------------------------------------
(* Sessions are rebuilt as they were *)

\* What can no longer be followed is not taken up again.
LEMMA NotFollowed ==
    ASSUME Notes, [Next]_vars, Followed'
    PROVE  Followed
<1>1. orderly
  <2>1. ASSUME NEW c \in Call, NEW s \in Session, NEW op \in Operation, NEW x, Resolve(c, s, op, x)
        PROVE  orderly
      BY <2>1 DEF Resolve, Followed
  <2>2. ASSUME NEW c \in Call,
               \/ CheckState(c) \/ MarkState(c) \/ LoadState(c) \/ InstallState(c)
               \/ RecordCall(c) \/ ClearSessions(c) \/ AuditCall(c) \/ Abort(c)
        PROVE  orderly
      BY <2>2 DEF CheckState, MarkState, LoadState, InstallState, RecordCall,
          ClearSessions, AuditCall, Abort, Followed
  <2>3. ASSUME NEW c \in Call, ClearState(c) PROVE orderly
      BY <2>3 DEF ClearState, Followed
  <2>4. ASSUME NEW p \in Note,
               \/ \E s \in Session, e \in EpisodeId, at \in 1 .. LastTime : Post(p, s, e, at)
               \/ ProjectNote(p) \/ RecordSession(p) \/ PersistNote(p) \/ PostAgain(p)
        PROVE  orderly
      BY <2>4 DEF Post, ProjectNote, RecordSession, PersistNote, PostAgain, Followed
  <2>5. ASSUME \/ \E s \in Session : QuerySession(s)
               \/ InstallSession \/ Restart \/ Flush \/ UNCHANGED vars
        PROVE  orderly
      BY <2>5 DEF QuerySession, InstallSession, Restart, Flush, vars, Followed
  <2>6. ASSUME LoadSession PROVE orderly
      BY <2>6 DEF LoadSession, Followed
  <2>7. QED
      BY <2>1, <2>2, <2>3, <2>4, <2>5, <2>6 DEF Next
<1>2. ASSUME NEW p \in Note, note[p].pc = "failed" PROVE FALSE
  <2>1. note'[p].pc # "failed"
      BY DEF Followed
  <2>2. ASSUME NEW q \in Note, NEW s \in Session, NEW e \in EpisodeId, NEW at \in 1 .. LastTime, Post(q, s, e, at) PROVE FALSE
    <3>1. q # p
        BY <1>2, <2>2 DEF Post
    <3>2. note'[p] = note[p]
        BY <2>2, <3>1 DEF Post, Notes
    <3>3. QED
        BY <1>2, <2>1, <3>2
  <2>3. ASSUME NEW q \in Note, ProjectNote(q) \/ RecordSession(q) \/ PersistNote(q) PROVE FALSE
    <3>1. q # p
        BY <1>2, <2>3 DEF ProjectNote, RecordSession, PersistNote
    <3>2. \E pc : note' = [note EXCEPT ![q].pc = pc]
        BY <2>3, Zenon DEF ProjectNote, RecordSession, PersistNote
    <3>3. note'[p] = note[p]
        BY <3>1, <3>2, NoteMoves
    <3>4. QED
        BY <1>2, <2>1, <3>3
  <2>4. ASSUME NEW q \in Note, PostAgain(q) PROVE FALSE
      BY <2>4 DEF PostAgain, Followed
  <2>5. CASE Restart
    <3>1. p \notin Call
        BY EpisodeAssumption
    <3>2. p \notin Busy
        BY <1>2, <3>1 DEF Busy
    <3>3. note'[p] = note[p]
        BY <2>5, <3>2 DEF Restart
    <3>4. QED
        BY <1>2, <2>1, <3>3
  <2>6. CASE UNCHANGED note
      BY <1>2, <2>1, <2>6
  <2>7. ASSUME NEW c \in Call, NEW s \in Session, NEW op \in Operation, NEW x, Resolve(c, s, op, x)
        PROVE  UNCHANGED note
      BY <2>7 DEF Resolve
  <2>8. ASSUME NEW c \in Call,
               \/ CheckState(c) \/ MarkState(c) \/ LoadState(c) \/ InstallState(c)
               \/ RecordCall(c) \/ ClearState(c) \/ ClearSessions(c) \/ AuditCall(c) \/ Abort(c)
        PROVE  UNCHANGED note
      BY <2>8 DEF CheckState, MarkState, LoadState, InstallState, RecordCall, ClearState,
          ClearSessions, AuditCall, Abort
  <2>9. ASSUME \/ \E s \in Session : QuerySession(s)
               \/ LoadSession \/ InstallSession \/ Flush \/ UNCHANGED vars
        PROVE  UNCHANGED note
      BY <2>9 DEF QuerySession, LoadSession, InstallSession, Flush, vars
  <2>10. QED
      BY <2>2, <2>3, <2>4, <2>5, <2>6, <2>7, <2>8, <2>9 DEF Next
<1>3. QED
    BY <1>1, <1>2 DEF Followed

\* FollowInv in every reachable state: as long as a rebuild can follow, the
\* sessions in memory are what the calls and events that have moved them make of
\* new ones.
THEOREM FollowInductive == Spec => []FollowInv
<1>1. Init => FollowInv
  <2>1. SUFFICES ASSUME Init PROVE FollowInv
      OBVIOUS
  <2>2. /\ \A c \in Call : call[c] = NoCall
        /\ \A p \in Note : note[p] = NoNote
        /\ DOMAIN sessions = {} /\ DOMAIN states = {} /\ query = NoQuery
        /\ log = {} /\ unwritten = {} /\ lost = {}
      BY <2>1 DEF Init
  <2>3. /\ NoCall.pc = "idle" /\ NoCall.ep = <<>> /\ NoCall.loaded = {}
        /\ NoNote.pc = "idle" /\ NoQuery.pc = "idle" /\ <<>> \notin Ep
      BY DEF NoCall, CallOf, NoNote, NoQuery, Ep
  <2>4. Moved = {}
      BY <2>2, <2>3 DEF Moved, Underway
  <2>5. Dated
      BY <2>4, FS_EmptySet DEF Dated, Apart
  <2>6. Held /\ Asked /\ Awaiting
      BY <2>2, <2>3 DEF Held, Asked, Awaiting, Awaited
  <2>7. Owned /\ Unseen
      BY <2>2, <2>3 DEF Owned, Unseen
  <2>8. QED
      BY <2>5, <2>6, <2>7 DEF FollowInv
<1>2. LoadInv /\ KeptInv /\ FollowInv /\ [Next]_vars => FollowInv'
  <2>1. SUFFICES ASSUME LoadInv, KeptInv, FollowInv, [Next]_vars, Followed' PROVE FollowInv'
      BY DEF FollowInv
  <2>2. Shape /\ Counted /\ Stacks /\ Calls /\ Notes /\ Stored /\ GoodQuery(query)
      BY <2>1 DEF LoadInv, KeptInv
  <2>3. Followed
      BY <2>1, <2>2, NotFollowed
  <2>4. ASSUME NEW c \in Call, NEW s \in Session, NEW op \in Operation, NEW x, Resolve(c, s, op, x)
        PROVE  FollowInv'
      BY <2>1, <2>2, <2>3, <2>4, ResolveFollows
  <2>5. ASSUME NEW c \in Call, CheckState(c) \/ MarkState(c) \/ RecordCall(c) PROVE FollowInv'
      BY <2>1, <2>2, <2>3, <2>5, CallStepFollows
  <2>6. ASSUME NEW c \in Call, LoadState(c) PROVE FollowInv'
      BY <2>1, <2>2, <2>3, <2>6, LoadFollows
  <2>7. ASSUME NEW c \in Call, InstallState(c) PROVE FollowInv'
      BY <2>1, <2>2, <2>3, <2>7, InstallFollows
  <2>8. ASSUME NEW c \in Call, AuditCall(c) \/ Abort(c) PROVE FollowInv'
      BY <2>1, <2>2, <2>3, <2>8, EndFollows
  <2>9. ASSUME NEW c \in Call, ClearState(c) PROVE FALSE
      BY <2>1, <2>9 DEF ClearState, Followed
  <2>10. ASSUME NEW c \in Call, ClearSessions(c) PROVE FALSE
      BY <2>1, <2>3, <2>10 DEF ClearSessions, FollowInv, Owned
  <2>11. ASSUME NEW p \in Note, NEW s \in Session, NEW e \in EpisodeId, NEW at \in 1 .. LastTime, Post(p, s, e, at)
         PROVE  FollowInv'
      BY <2>1, <2>2, <2>3, <2>11, PostFollows
  <2>12. ASSUME NEW p \in Note, ProjectNote(p) PROVE FollowInv'
      BY <2>1, <2>2, <2>3, <2>12, ProjectFollows
  <2>13. ASSUME NEW p \in Note, RecordSession(p) PROVE FollowInv'
      BY <2>1, <2>2, <2>3, <2>13, RecordFollows
  <2>14. ASSUME NEW p \in Note, PersistNote(p) PROVE FollowInv'
      BY <2>1, <2>2, <2>3, <2>14, PersistNoteFollows
  <2>15. ASSUME NEW p \in Note, PostAgain(p) PROVE FALSE
      BY <2>1, <2>15 DEF PostAgain, Followed
  <2>16. ASSUME \/ \E s \in Session : QuerySession(s)
                \/ LoadSession \/ InstallSession \/ UNCHANGED vars
         PROVE  FollowInv'
      BY <2>1, <2>2, <2>3, <2>16, QueryFollows
  <2>17. CASE Restart
      BY <2>1, <2>2, <2>3, <2>17, RestartFollows
  <2>18. CASE Flush
      BY <2>1, <2>2, <2>3, <2>18, FlushFollows
  <2>19. QED
      BY <2>1, <2>4, <2>5, <2>6, <2>7, <2>8, <2>9, <2>10, <2>11, <2>12, <2>13, <2>14, <2>15,
         <2>16, <2>17, <2>18 DEF Next
<1>3. QED
    BY <1>1, <1>2, LoadInductive, Inductive, PTL DEF Spec

\* RebuiltAsItWas in every reachable state: replaying the audit store gives the
\* session that was in memory, whatever interruptions, returns and posted events
\* have made of it, for any number of them, once the store has all of its traces
\* and as long as a query returns all of them. What a flush or a crash takes
\* from the store is the only thing that a rebuild misses.
THEOREM RebuildsAsItWas == Spec => []RebuiltAsItWas
<1>1. FollowInv /\ KeptInv => RebuiltAsItWas
  <2>1. SUFFICES ASSUME FollowInv, KeptInv, orderly, Busy = {}, NEW s \in DOMAIN sessions,
                        ~ \E t \in unwritten \cup lost : t.session = s,
                        ~ \E p \in Note : note[p].pc = "failed",
                        ~Truncated(s)
                 PROVE  Rebuilt(s, PersistedOperations(s, Queries)) = sessions[s]
      BY DEF RebuiltAsItWas
  <2>2. Dated /\ Held /\ Stored
      BY <2>1 DEF FollowInv, Followed, KeptInv
  <2>3. MovedOf(s) = {t \in log : t.session = s}
      BY <2>1, NobodyBusy DEF MovedOf
  <2>4. PersistedOperations(s, Queries) = Listed(MovedOf(s))
      BY <2>1, <2>2, <2>3, PersistedIs
  <2>5. QED
      BY <2>2, <2>4 DEF Held
<1>2. QED
    BY <1>1, FollowInductive, Inductive, PTL
=============================================================================
