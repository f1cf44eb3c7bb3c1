--------------------------- MODULE OutcomesProofs ---------------------------
(***************************************************************************)
(* Proofs about the record of a trial (Outcomes).                          *)
(*                                                                         *)
(* The record is what three folds over the trial make of it.  A fold of    *)
(* the library is first shown to be one step more for one event more; then *)
(* each step of the record is known - the event, and perhaps one derived   *)
(* from it - and what holds of every record follows along the prefixes of  *)
(* the trial.                                                              *)
(***************************************************************************)
EXTENDS Outcomes, TLAPS, FiniteSetTheorems, SequenceTheorems,
        WellFoundedInduction

------------------------------------------------------------------------------
(* Folds.  FoldLeft is a recursive function over the subsets of the sequence's *)
(* domain, which takes out the largest index.                                  *)

LEMMA LeastNumber ==
    ASSUME NEW T \in SUBSET Nat, T # {}
    PROVE  \E m \in T : \A n \in T : m <= n
<1> DEFINE L == {ss \in Nat \X Nat : ss[1] < ss[2]}
<1>1. IsWellFoundedOn(L, Nat)
    BY NatLessThanWellFounded DEF OpToRel
<1> HIDE DEF L
<1>2. PICK x \in T : \A y \in T : ~(<<y, x>> \in L)
    BY <1>1, WFMin
<1>3. \A y \in T : ~(y < x)
    BY <1>2 DEF L
<1>4. QED
    BY <1>3

\* A set of numbers up to n that has 0 and with every number its successor is
\* all of them.
LEMMA UpTo ==
    ASSUME NEW n \in Nat, NEW S, 0 \in S, \A k \in 1 .. n : k - 1 \in S => k \in S
    PROVE  0 .. n \subseteq S
<1> DEFINE T == (0 .. n) \ S
<1>1. SUFFICES ASSUME T # {} PROVE FALSE
    OBVIOUS
<1>2. T \in SUBSET Nat
    OBVIOUS
<1> HIDE DEF T
<1>3. PICK m \in T : \A k \in T : m <= k
    BY <1>2, <1>1, LeastNumber
<1>4. m \in 1 .. n /\ m - 1 \in 0 .. n /\ ~(m <= m - 1)
    BY <1>3 DEF T
<1>5. QED
    BY <1>3, <1>4 DEF T

\* The greatest of some of the numbers up to n.
LEMMA MaxOf ==
    ASSUME NEW n \in Nat, NEW S \in SUBSET (1 .. n), S # {}
    PROVE  Max(S) \in S /\ \A x \in S : x <= Max(S)
<1> DEFINE T == {n - x : x \in S}
<1>1. T \in SUBSET Nat /\ T # {}
  <2>1. \A x \in S : n - x \in Nat
      OBVIOUS
  <2>2. QED
      BY <2>1
<1>2. PICK m \in T : \A k \in T : m <= k
    BY <1>1, LeastNumber
<1>3. PICK x \in S : m = n - x
    BY <1>2
<1>4. ASSUME NEW y \in S PROVE x >= y
  <2>1. n - x <= n - y
      BY <1>2, <1>3
  <2>2. x \in Int /\ y \in Int
      OBVIOUS
  <2>3. QED
      BY <2>1, <2>2
<1>5. /\ Max(S) \in S
      /\ \A y \in S : Max(S) >= y
    BY <1>4, Zenon DEF Max
<1>6. QED
    BY <1>5

LEMMA MaxUpTo ==
    ASSUME NEW k \in Nat, k # 0
    PROVE  Max(1 .. k) = k /\ (1 .. k) \ {k} = 1 .. (k - 1)
<1>1. /\ Max(1 .. k) \in 1 .. k
      /\ k <= Max(1 .. k)
  <2>1. 1 .. k \in SUBSET (1 .. k) /\ k \in 1 .. k
      OBVIOUS
  <2>2. QED
      BY <2>1, MaxOf
<1>2. QED
    BY <1>1

\* DeriveFrom, for either place of a derived event.
DeriveWith(b, a, e) ==
    IF Signal(e) THEN [n |-> 0, open |-> FALSE, out |-> Append(a.out, e)]
    ELSE IF ~Pressure(e) THEN [a EXCEPT !.out = Append(@, e)]
    ELSE IF a.n + 1 < PressureAfter \/ a.open
    THEN [a EXCEPT !.n = @ + 1, !.out = Append(@, e)]
    ELSE [n |-> a.n + 1, open |-> TRUE,
          out |-> a.out \o (IF b THEN <<NoProgressFor(e), e>>
                            ELSE <<e, NoProgressFor(e)>>)]

Derives(b) == IF b THEN "before" ELSE "after"

\* What the module folds sequences with.
Step(fold, a, e) ==
    IF fold = "ready" THEN Ready(a, e)
    ELSE IF fold = "annotate"
    THEN [ready |-> Ready(a.ready, e), out |-> Append(a.out, Marked(a.ready, e))]
    ELSE IF fold = "before" THEN DeriveWith(TRUE, a, e)
    ELSE IF fold = "after" THEN DeriveWith(FALSE, a, e)
    ELSE Project(a, e)

\* A recursion over the subsets of S, a set of indices of q.
Recurs(g, fold, base, q, S) ==
    g = [s \in SUBSET S |->
            IF s = {} THEN base ELSE Step(fold, g[s \ {Max(s)}], q[Max(s)])]

\* Of finite sets of which something is false there is one of which it is true
\* of everything smaller.
LEMMA SmallestOf ==
    ASSUME NEW C, C # {}, \A s \in C : IsFiniteSet(s)
    PROVE  \E s \in C : \A x \in s : s \ {x} \notin C
<1> DEFINE T == {Cardinality(s) : s \in C}
<1>1. T \in SUBSET Nat /\ T # {}
    BY FS_CardinalityType
<1>2. PICK m \in T : \A k \in T : m <= k
    BY <1>1, LeastNumber
<1>3. PICK s \in C : m = Cardinality(s)
    BY <1>2
<1>4. ASSUME NEW x \in s PROVE s \ {x} \notin C
    <2>1. Cardinality(s \ {x}) = Cardinality(s) - 1 /\ Cardinality(s) \in Nat
        BY FS_RemoveElement, FS_CardinalityType
    <2>2. s \ {x} \in C => Cardinality(s) <= Cardinality(s \ {x})
        BY <1>2, <1>3
    <2>3. QED
        BY <2>1, <2>2
<1>5. QED
    BY <1>4

LEMMA SmallestSet ==
    ASSUME NEW n \in Nat, NEW C, C # {}, \A s \in C : s \in SUBSET (1 .. n)
    PROVE  \E s \in C : \A x \in s : s \ {x} \notin C
<1>1. IsFiniteSet(1 .. n)
    BY FS_Interval
<1>2. \A s \in C : IsFiniteSet(s)
    BY <1>1, FS_Subset
<1>3. QED
    BY <1>2, SmallestOf

Indices(n) == SUBSET (1 .. n)

\* Two recursions agree where both are defined, over sequences that agree there.
LEMMA RecursAgree ==
    ASSUME NEW n \in Nat, NEW fold, NEW base, NEW p, NEW q, NEW g, NEW h, NEW S, NEW T,
           Recurs(g, fold, base, p, S), Recurs(h, fold, base, q, T),
           NEW s \in SUBSET (S \cap T), s \in Indices(n), \A i \in s : p[i] = q[i]
    PROVE  g[s] = h[s]
<1> DEFINE C == {t \in SUBSET s : g[t] # h[t]}
<1>1. SUFFICES ASSUME C # {} PROVE FALSE
    OBVIOUS
<1>2. PICK t \in C : \A x \in t : t \ {x} \notin C
    BY <1>1, SmallestSet DEF Indices
<1>3. /\ g[t] = IF t = {} THEN base ELSE Step(fold, g[t \ {Max(t)}], p[Max(t)])
      /\ h[t] = IF t = {} THEN base ELSE Step(fold, h[t \ {Max(t)}], q[Max(t)])
    BY DEF Recurs
<1>4. t # {}
    BY <1>3
<1>5. Max(t) \in t /\ t \ {Max(t)} \in SUBSET s
    BY <1>4, MaxOf DEF Indices
<1>6. g[t \ {Max(t)}] = h[t \ {Max(t)}] /\ p[Max(t)] = q[Max(t)]
    BY <1>2, <1>5
<1>7. QED
    BY <1>3, <1>4, <1>6

LEMMA RecursExists ==
    ASSUME NEW n \in Nat, NEW fold, NEW base, NEW q
    PROVE  \E g : Recurs(g, fold, base, q, 1 .. n)
<1> DEFINE C == {t \in SUBSET (1 .. n) : ~ \E g : Recurs(g, fold, base, q, t)}
<1>1. SUFFICES ASSUME C # {} PROVE FALSE
    BY <1>1
<1>2. PICK t \in C : \A x \in t : t \ {x} \notin C
    BY <1>1, SmallestSet
<1> HIDE DEF C
<1>3. t \in SUBSET (1 .. n) /\ ~ \E g : Recurs(g, fold, base, q, t)
    BY DEF C
<1>4. \A x \in t : \E g : Recurs(g, fold, base, q, t \ {x})
    BY <1>2, <1>3 DEF C
<1> DEFINE G(x) == CHOOSE g : Recurs(g, fold, base, q, t \ {x})
           v(s) == IF s = {} THEN base ELSE
                   IF s = t THEN Step(fold, G(Max(t))[t \ {Max(t)}], q[Max(t)])
                   ELSE G(CHOOSE x \in t : x \notin s)[s]
           g == [s \in SUBSET t |-> v(s)]
<1>5. \A x \in t : Recurs(G(x), fold, base, q, t \ {x})
    BY <1>4, Zenon
<1> HIDE DEF G
<1>6. ASSUME NEW s \in SUBSET t, NEW x \in t, x \notin s
      PROVE  g[s] = G(x)[s]
    <2>1. CASE s = {}
        BY <1>5, <2>1 DEF Recurs
    <2>2. CASE s # {}
      <3> DEFINE y == CHOOSE z \in t : z \notin s
      <3>1. y \in t /\ y \notin s /\ s # t
          BY <1>6
      <3>2. g[s] = G(y)[s]
          BY <2>2, <3>1
      <3> HIDE DEF y, g
      <3>3. Recurs(G(y), fold, base, q, t \ {y}) /\ Recurs(G(x), fold, base, q, t \ {x})
          BY <1>5, <1>6, <3>1
      <3>4. s \in SUBSET ((t \ {y}) \cap (t \ {x})) /\ s \in Indices(n)
          BY <1>3, <1>6, <3>1 DEF Indices
      <3>5. G(y)[s] = G(x)[s]
          BY <3>3, <3>4, RecursAgree
      <3>6. QED
          BY <3>2, <3>5
    <2>3. QED
        BY <2>1, <2>2
<1>7. ASSUME NEW s \in SUBSET t, s # {}
      PROVE  g[s] = Step(fold, g[s \ {Max(s)}], q[Max(s)])
    <2>1. Max(s) \in s /\ Max(s) \in t
        BY <1>3, <1>7, MaxOf
    <2>2. g[s \ {Max(s)}] = G(Max(s))[s \ {Max(s)}]
        BY <1>6, <2>1
    <2>3. CASE s = t
        BY <1>7, <2>2, <2>3
    <2>4. CASE s # t
      <3>1. PICK x \in t : x \notin s
          BY <2>4
      <3>2. g[s] = G(x)[s] /\ g[s \ {Max(s)}] = G(x)[s \ {Max(s)}]
          BY <1>6, <3>1
      <3>3. Recurs(G(x), fold, base, q, t \ {x}) /\ s \in SUBSET (t \ {x})
          BY <1>5, <3>1
      <3>4. G(x)[s] = Step(fold, G(x)[s \ {Max(s)}], q[Max(s)])
          BY <1>7, <3>3 DEF Recurs
      <3>5. QED
          BY <3>2, <3>4
    <2>5. QED
        BY <2>3, <2>4
<1>8. g[{}] = base
    OBVIOUS
<1>9. g = [s \in SUBSET t |-> g[s]]
    OBVIOUS
<1> HIDE DEF g
<1>10. Recurs(g, fold, base, q, t)
    BY <1>7, <1>8, <1>9 DEF Recurs
<1>11. QED
    BY <1>3, <1>10

IsSeq(q) == q \in Seq(Range(q))

LEMMA SeqOverRange == ASSUME NEW S, NEW q \in Seq(S) PROVE IsSeq(q) /\ Range(q) \subseteq S
<1>1. Len(q) \in Nat /\ q \in [1 .. Len(q) -> S] /\ DOMAIN q = 1 .. Len(q)
    BY LenProperties
<1>2. q \in [1 .. Len(q) -> Range(q)] /\ Range(q) \subseteq S
    BY <1>1 DEF Range
<1>3. QED
    BY <1>1, <1>2 DEF IsSeq

LEMMA InRange ==
    ASSUME NEW q, IsSeq(q)
    PROVE  /\ Len(q) \in Nat /\ DOMAIN q = 1 .. Len(q)
           /\ q \in [1 .. Len(q) -> Range(q)]
           /\ \A i \in 1 .. Len(q) : q[i] \in Range(q)
           /\ \A x \in Range(q) : \E i \in 1 .. Len(q) : x = q[i]
<1>1. Len(q) \in Nat /\ DOMAIN q = 1 .. Len(q) /\ q \in [1 .. Len(q) -> Range(q)]
    BY LenProperties DEF IsSeq
<1>2. QED
    BY <1>1 DEF Range

LEMMA NoneYet == /\ IsSeq(<<>>) /\ Range(<<>>) = {} /\ Len(<<>>) = 0
                  /\ IsInjective(<<>>) /\ (\A S : <<>> \in Seq(S))
<1>1. \A S : <<>> \in Seq(S)
    OBVIOUS
<1>2. Range(<<>>) = {} /\ IsInjective(<<>>)
    BY DEF Range, IsInjective
<1>3. Len(<<>>) = 0
    OBVIOUS
<1>4. IsSeq(<<>>)
    BY <1>1 DEF IsSeq
<1>5. QED
    BY <1>1, <1>2, <1>3, <1>4, Zenon

LEMMA Appended ==
    ASSUME NEW q, IsSeq(q), NEW x
    PROVE  /\ IsSeq(Append(q, x)) /\ Range(Append(q, x)) = Range(q) \cup {x}
           /\ Len(Append(q, x)) = Len(q) + 1
           /\ Append(q, x)[Len(q) + 1] = x
           /\ \A i \in 1 .. Len(q) : Append(q, x)[i] = q[i]
<1> DEFINE n == Len(q)
           a == Append(q, x)
<1>1. /\ n \in Nat /\ DOMAIN q = 1 .. n
      /\ \A i \in 1 .. n : q[i] \in Range(q)
      /\ \A y \in Range(q) : \E i \in 1 .. n : y = q[i]
    BY InRange
<1>2. q \in Seq(Range(q) \cup {x})
  <2>1. q \in [1 .. n -> Range(q) \cup {x}]
      BY InRange
  <2>2. QED
      BY <1>1, <2>1
<1>3. /\ a \in Seq(Range(q) \cup {x})
      /\ Len(a) = n + 1 /\ a[n + 1] = x
      /\ \A i \in 1 .. n : a[i] = q[i]
    BY <1>2, AppendProperties
<1> HIDE DEF a
<1>4. IsSeq(a) /\ DOMAIN a = 1 .. n + 1 /\ Range(a) \subseteq Range(q) \cup {x}
    BY <1>3, SeqOverRange, LenProperties
<1>5. \A y \in Range(q) : y \in Range(a)
  <2>1. ASSUME NEW i \in 1 .. n PROVE q[i] \in Range(a)
    <3>1. i \in 1 .. n + 1 /\ a[i] = q[i]
        BY <1>1, <1>3
    <3>2. QED
        BY <1>4, <3>1 DEF Range
  <2>2. QED
      BY <1>1, <2>1
<1>6. x \in Range(a)
  <2>1. n + 1 \in 1 .. n + 1
      BY <1>1
  <2>2. QED
      BY <1>3, <1>4, <2>1 DEF Range
<1>7. QED
    BY <1>3, <1>4, <1>5, <1>6 DEF a

\* What a fold of q comes to.
Fold(fold, base, q) == (CHOOSE g : Recurs(g, fold, base, q, DOMAIN q))[DOMAIN q]

LEMMA FoldIs ==
    ASSUME NEW fold, NEW base, NEW q, IsSeq(q), NEW g, Recurs(g, fold, base, q, DOMAIN q)
    PROVE  Fold(fold, base, q) = g[DOMAIN q]
<1>1. Len(q) \in Nat /\ DOMAIN q = 1 .. Len(q)
    BY InRange
<1> DEFINE h == CHOOSE f : Recurs(f, fold, base, q, DOMAIN q)
<1>2. Recurs(h, fold, base, q, DOMAIN q)
    BY Zenon
<1> HIDE DEF h
<1>3. DOMAIN q \in SUBSET (DOMAIN q \cap DOMAIN q) /\ DOMAIN q \in Indices(Len(q))
    BY <1>1 DEF Indices
<1>4. h[DOMAIN q] = g[DOMAIN q]
    BY <1>1, <1>2, <1>3, RecursAgree
<1>5. QED
    BY <1>4 DEF Fold, h

LEMMA FoldNone == ASSUME NEW fold, NEW base PROVE Fold(fold, base, <<>>) = base
<1>1. DOMAIN <<>> = {}
    OBVIOUS
<1> DEFINE g == [s \in {{}} |-> base]
<1>2. Recurs(g, fold, base, <<>>, DOMAIN <<>>)
    BY <1>1 DEF Recurs
<1>3. g[{}] = base
    OBVIOUS
<1> HIDE DEF g
<1>4. Fold(fold, base, <<>>) = g[DOMAIN <<>>]
    BY <1>2, NoneYet, FoldIs
<1>5. QED
    BY <1>1, <1>3, <1>4

LEMMA FoldMore ==
    ASSUME NEW fold, NEW base, NEW q, IsSeq(q), NEW x
    PROVE  Fold(fold, base, Append(q, x)) = Step(fold, Fold(fold, base, q), x)
<1> DEFINE n == Len(q)
           a == Append(q, x)
<1>1. /\ n \in Nat /\ DOMAIN q = 1 .. n /\ IsSeq(a)
      /\ Len(a) = n + 1 /\ a[n + 1] = x /\ \A i \in 1 .. n : a[i] = q[i]
    BY InRange, Appended
<1> HIDE DEF a, n
<1>2. DOMAIN a = 1 .. n + 1 /\ n + 1 \in Nat
    BY <1>1, InRange
<1>3. PICK g : Recurs(g, fold, base, q, 1 .. n)
    BY <1>1, RecursExists
<1>4. PICK h : Recurs(h, fold, base, a, 1 .. n + 1)
    BY <1>2, RecursExists
<1>5. Fold(fold, base, q) = g[1 .. n] /\ Fold(fold, base, a) = h[1 .. n + 1]
    BY <1>1, <1>2, <1>3, <1>4, FoldIs
<1>6. g[1 .. n] = h[1 .. n]
  <2>1. 1 .. n \in SUBSET ((1 .. n) \cap (1 .. n + 1)) /\ 1 .. n \in Indices(n)
      BY <1>1 DEF Indices
  <2>2. \A i \in 1 .. n : q[i] = a[i]
      BY <1>1
  <2>3. QED
      BY <1>1, <1>3, <1>4, <2>1, <2>2, RecursAgree
<1>7. h[1 .. n + 1] = Step(fold, h[1 .. n], x)
  <2>1. n + 1 # 0 /\ (n + 1) - 1 = n
      BY <1>1
  <2>2. 1 .. n + 1 # {} /\ 1 .. n + 1 \in SUBSET (1 .. n + 1)
    <3>1. n + 1 \in 1 .. n + 1
        BY <1>1
    <3>2. QED
        BY <3>1
  <2>3. Max(1 .. n + 1) = n + 1 /\ (1 .. n + 1) \ {n + 1} = 1 .. n
      BY <1>2, <2>1, MaxUpTo
  <2>4. h[1 .. n + 1] = Step(fold, h[(1 .. n + 1) \ {Max(1 .. n + 1)}], a[Max(1 .. n + 1)])
      BY <1>4, <2>2 DEF Recurs
  <2>5. QED
      BY <1>1, <2>3, <2>4
<1>8. QED
    BY <1>5, <1>6, <1>7 DEF a

ReadyIter(it, q) ==
    it = [s \in SUBSET (DOMAIN q) |->
             IF s = {} THEN NotReady
             ELSE Ready(it[s \ {Max(s)}], q[Max(s)])]

LEMMA ReadyIsFold ==
    ASSUME NEW q, IsSeq(q)
    PROVE  FoldLeft(Ready, NotReady, q)
               = Fold("ready", NotReady, q)
<1> DEFINE base == NotReady
           G == CHOOSE it : ReadyIter(it, q)
<1>1. PICK g : Recurs(g, "ready", base, q, DOMAIN q)
  <2>1. Len(q) \in Nat /\ DOMAIN q = 1 .. Len(q)
      BY InRange
  <2>2. QED
      BY <2>1, RecursExists
<1>2. ReadyIter(g, q)
    BY <1>1 DEF Recurs, Step, ReadyIter
<1>3. ReadyIter(G, q)
    BY <1>2, Zenon
<1>4. Recurs(G, "ready", base, q, DOMAIN q)
    BY <1>3 DEF Recurs, Step, ReadyIter
<1>5. FoldLeft(Ready, NotReady, q)
          = G[DOMAIN q]
    BY Zenon DEF FoldLeft, MapThenFoldSet, ReadyIter
<1> HIDE DEF G
<1>6. QED
    BY <1>4, <1>5, FoldIs

AnnotateIter(it, q) ==
    it = [s \in SUBSET (DOMAIN q) |->
             IF s = {} THEN [ready |-> NotReady, out |-> <<>>]
             ELSE [ready |-> Ready(it[s \ {Max(s)}].ready, q[Max(s)]),
              out |-> Append(it[s \ {Max(s)}].out, Marked(it[s \ {Max(s)}].ready, q[Max(s)]))]]

LEMMA AnnotateIsFold ==
    ASSUME NEW q, IsSeq(q)
    PROVE  FoldLeft(LAMBDA a, e : [ready |-> Ready(a.ready, e),
                            out |-> Append(a.out, Marked(a.ready, e))],
             [ready |-> NotReady, out |-> <<>>], q)
               = Fold("annotate", [ready |-> NotReady, out |-> <<>>], q)
<1> DEFINE base == [ready |-> NotReady, out |-> <<>>]
           G == CHOOSE it : AnnotateIter(it, q)
<1>1. PICK g : Recurs(g, "annotate", base, q, DOMAIN q)
  <2>1. Len(q) \in Nat /\ DOMAIN q = 1 .. Len(q)
      BY InRange
  <2>2. QED
      BY <2>1, RecursExists
<1>2. AnnotateIter(g, q)
    BY <1>1 DEF Recurs, Step, AnnotateIter
<1>3. AnnotateIter(G, q)
    BY <1>2, Zenon
<1>4. Recurs(G, "annotate", base, q, DOMAIN q)
    BY <1>3 DEF Recurs, Step, AnnotateIter
<1>5. FoldLeft(LAMBDA a, e : [ready |-> Ready(a.ready, e),
                            out |-> Append(a.out, Marked(a.ready, e))],
             [ready |-> NotReady, out |-> <<>>], q)
          = G[DOMAIN q]
    BY Zenon DEF FoldLeft, MapThenFoldSet, AnnotateIter
<1> HIDE DEF G
<1>6. QED
    BY <1>4, <1>5, FoldIs

DeriveIter(it, q) ==
    it = [s \in SUBSET (DOMAIN q) |->
             IF s = {} THEN [n |-> 0, open |-> FALSE, out |-> <<>>]
             ELSE DeriveFrom(it[s \ {Max(s)}], q[Max(s)])]

LEMMA DeriveIsFold ==
    ASSUME NEW q, IsSeq(q), before \in BOOLEAN
    PROVE  FoldLeft(DeriveFrom, [n |-> 0, open |-> FALSE, out |-> <<>>], q)
               = Fold(Derives(before), [n |-> 0, open |-> FALSE, out |-> <<>>], q)
<1> DEFINE base == [n |-> 0, open |-> FALSE, out |-> <<>>]
           G == CHOOSE it : DeriveIter(it, q)
<1>1. \A a, e : DeriveFrom(a, e) = Step(Derives(before), a, e)
  <2>1. SUFFICES ASSUME NEW a, NEW e PROVE DeriveFrom(a, e) = Step(Derives(before), a, e)
      OBVIOUS
  <2>2. /\ Step("before", a, e) = DeriveWith(TRUE, a, e)
        /\ Step("after", a, e) = DeriveWith(FALSE, a, e)
      BY DEF Step
  <2>3. CASE before = TRUE
    <3>1. Derives(before) = "before"
        BY <2>3 DEF Derives
    <3>2. DeriveFrom(a, e) = DeriveWith(TRUE, a, e)
        BY <2>3 DEF DeriveFrom, DeriveWith
    <3>3. QED
        BY <2>2, <3>1, <3>2
  <2>4. CASE before = FALSE
    <3>1. Derives(before) = "after"
        BY <2>4 DEF Derives
    <3>2. DeriveFrom(a, e) = DeriveWith(FALSE, a, e)
        BY <2>4 DEF DeriveFrom, DeriveWith
    <3>3. QED
        BY <2>2, <3>1, <3>2
  <2>5. QED
      BY <2>3, <2>4
<1>2. PICK g : Recurs(g, Derives(before), base, q, DOMAIN q)
  <2>1. Len(q) \in Nat /\ DOMAIN q = 1 .. Len(q)
      BY InRange
  <2>2. QED
      BY <2>1, RecursExists
<1>3. DeriveIter(g, q)
    BY <1>1, <1>2 DEF Recurs, DeriveIter
<1>4. DeriveIter(G, q)
    BY <1>3, Zenon
<1>5. Recurs(G, Derives(before), base, q, DOMAIN q)
    BY <1>1, <1>4 DEF Recurs, DeriveIter
<1>6. FoldLeft(DeriveFrom, [n |-> 0, open |-> FALSE, out |-> <<>>], q)
          = G[DOMAIN q]
    BY Zenon DEF FoldLeft, MapThenFoldSet, DeriveIter
<1> HIDE DEF G
<1>7. QED
    BY <1>5, <1>6, FoldIs

\* What has been projected into the router's state.
ProjectIter(it, base, q) ==
    it = [s \in SUBSET (DOMAIN q) |->
             IF s = {} THEN base
             ELSE Project(it[s \ {Max(s)}], q[Max(s)])]

LEMMA ProjectIsFold ==
    ASSUME NEW q, IsSeq(q), NEW base
    PROVE  FoldLeft(Project, base, q) = Fold("project", base, q)
<1> DEFINE G == CHOOSE it : ProjectIter(it, base, q)
<1>1. PICK g : Recurs(g, "project", base, q, DOMAIN q)
  <2>1. Len(q) \in Nat /\ DOMAIN q = 1 .. Len(q)
      BY InRange
  <2>2. QED
      BY <2>1, RecursExists
<1>2. ProjectIter(g, base, q)
    BY <1>1 DEF Recurs, Step, ProjectIter
<1>3. ProjectIter(G, base, q)
    BY <1>2, Zenon
<1>4. Recurs(G, "project", base, q, DOMAIN q)
    BY <1>3 DEF Recurs, Step, ProjectIter
<1>5. FoldLeft(Project, base, q) = G[DOMAIN q]
    BY Zenon DEF FoldLeft, MapThenFoldSet, ProjectIter
<1> HIDE DEF G
<1>6. QED
    BY <1>4, <1>5, FoldIs

------------------------------------------------------------------------------
(* Sequences, one element more at a time *)

Prefix(q, k) == SubSeq(q, 1, k)

LEMMA PrefixSteps ==
    ASSUME NEW q, IsSeq(q)
    PROVE  /\ Prefix(q, 0) = <<>> /\ Prefix(q, Len(q)) = q
           /\ \A k \in 0 .. Len(q) :
                 /\ IsSeq(Prefix(q, k)) /\ Len(Prefix(q, k)) = k
                 /\ \A i \in 1 .. k : Prefix(q, k)[i] = q[i]
           /\ \A k \in 1 .. Len(q) : Prefix(q, k) = Append(Prefix(q, k - 1), q[k])
<1> DEFINE n == Len(q)
           S == Range(q)
<1>1. n \in Nat /\ q \in Seq(S)
    BY InRange DEF IsSeq
<1>2. Prefix(q, 0) = <<>>
    BY <1>1, SubSeqEmpty DEF Prefix
<1>3. Prefix(q, n) = q
    BY <1>1, SubSeqFull DEF Prefix
<1>4. ASSUME NEW k \in 0 .. n
      PROVE  /\ IsSeq(Prefix(q, k)) /\ Len(Prefix(q, k)) = k
             /\ \A i \in 1 .. k : Prefix(q, k)[i] = q[i]
  <2>1. CASE k = 0
      BY <1>2, <2>1, NoneYet
  <2>2. CASE k # 0
    <3>1. /\ 1 \in 1 .. n + 1 /\ k \in Int /\ k \in 0 .. n /\ 1 <= k
          /\ (k - 1) + 1 = k /\ \A i \in 1 .. k : (1 + i) - 1 = i /\ i \in 1 .. n
        BY <1>1, <2>2
    <3>2. /\ SubSeq(q, 1, k) \in Seq(S) /\ Len(SubSeq(q, 1, k)) = k
          /\ \A i \in 1 .. k : SubSeq(q, 1, k)[i] = q[i]
        BY <1>1, <3>1, SubSeqProperties
    <3>3. QED
        BY <3>2, SeqOverRange DEF Prefix
  <2>3. QED
      BY <2>1, <2>2
<1>5. ASSUME NEW k \in 1 .. n PROVE Prefix(q, k) = Append(Prefix(q, k - 1), q[k])
  <2>1. SubSeq(q, 1, k) = Append(SubSeq(q, 1, k - 1), q[k])
      BY <1>1, SubSeqRecursiveSecond
  <2>2. QED
      BY <2>1 DEF Prefix
<1>6. QED
    BY <1>2, <1>3, <1>4, <1>5

------------------------------------------------------------------------------
(* Events.  What is annotated is only the tier and whether there was progress; *)
(* everything else that an event says is as it was.                            *)

Like(x, e) ==
    /\ IsEvent(x) /\ x.kind = e.kind /\ x.target = e.target
    /\ x.outcome = e.outcome /\ x.validates = e.validates /\ x.failed = e.failed
    /\ x.good = e.good /\ x.action = e.action /\ x.rule = e.rule /\ x.hyp = e.hyp
    /\ x.source = e.source /\ x.adjusted = e.adjusted /\ x.at = e.at

LEMMA MarkedIs ==
    ASSUME NEW r, NEW e, IsEvent(e)
    PROVE  LET x == Marked(r, e)
           IN  /\ Like(x, e) /\ x.tier = Tier(r, e)
               /\ x.effective = (Tier(r, e) \in {"delivery", "validation", "implementation"})
<1> DEFINE t == Tier(r, e)
           f == t \in {"delivery", "validation", "implementation"}
           x == [e EXCEPT !.tier = t, !.effective = f]
<1>1. Marked(r, e) = x
    BY DEF Marked
<1> HIDE DEF t, f
<1>2. Like(x, e) /\ x.tier = t /\ x.effective = f
    BY DEF IsEvent, Blank, Like
<1>3. QED
    BY <1>1, <1>2 DEF t, f

LEMMA LikeSays ==
    ASSUME NEW x, NEW e, Like(x, e), NEW r
    PROVE  /\ (IsCall(x) <=> IsCall(e)) /\ (IsFile(x) <=> IsFile(e))
           /\ (IsStrong(x) <=> IsStrong(e)) /\ (IsDelivery(x) <=> IsDelivery(e))
           /\ (IsImplementation(x) <=> IsImplementation(e))
           /\ (IsOutputValidation(x) <=> IsOutputValidation(e))
           /\ (AppliesOffline(r, x) <=> AppliesOffline(r, e))
           /\ (Pressure(x) <=> Pressure(e))
           /\ Frontier(x) = Frontier(e) /\ Hypothesis(x) = Hypothesis(e)
<1>1. /\ (IsCall(x) <=> IsCall(e)) /\ (IsFile(x) <=> IsFile(e))
      /\ (IsStrong(x) <=> IsStrong(e)) 
      /\ (IsOutputValidation(x) <=> IsOutputValidation(e))
      /\ Frontier(x) = Frontier(e) /\ Hypothesis(x) = Hypothesis(e)
    BY DEF Like, IsCall, IsFile, IsStrong, IsOutputValidation, Frontier, Hypothesis
<1>2. /\ (IsDelivery(x) <=> IsDelivery(e))
      /\ (IsImplementation(x) <=> IsImplementation(e))
      /\ (AppliesOffline(r, x) <=> AppliesOffline(r, e))
      /\ (Pressure(x) <=> Pressure(e))
    BY <1>1 DEF Like, IsDelivery, IsImplementation, AppliesOffline, Pressure, IsLength
<1>3. QED
    BY <1>1, <1>2

ValidatesOffline(r, e) ==
    \/ e.kind \in {"test_passed", "test_failed"} /\ ~IsStrong(e)
    \/ e.kind = "test_run" /\ e.outcome = "passed" /\ AppliesOffline(r, e)

ExploresOffline(r, e) ==
    \/ e.kind = "tool_call"
    \/ IsFile(e) /\ ~IsDelivery(e) /\ ~IsImplementation(e)
    \/ e.kind = "test_run" /\ ~AppliesOffline(r, e)

\* The tiers exclude each other.
LEMMA TierIs ==
    ASSUME NEW r, NEW e
    PROVE  Tier(r, e) = IF IsStrong(e) THEN "strong"
                        ELSE IF IsDelivery(e) THEN "delivery"
                        ELSE IF ValidatesOffline(r, e) THEN "validation"
                        ELSE IF IsImplementation(e) THEN "implementation"
                        ELSE IF ExploresOffline(r, e) THEN "exploration" ELSE ""
<1>1. Tier(r, e) =
        CASE IsStrong(e) -> "strong"
          [] IsDelivery(e) -> "delivery"
          [] ValidatesOffline(r, e) -> "validation"
          [] IsImplementation(e) -> "implementation"
          [] ExploresOffline(r, e) -> "exploration"
          [] OTHER -> ""
    BY DEF Tier, ValidatesOffline, ExploresOffline
<1>2. IsStrong(e) => /\ ~IsDelivery(e) /\ ~ValidatesOffline(r, e)
                     /\ ~IsImplementation(e) /\ ~ExploresOffline(r, e)
    BY DEF IsStrong, IsDelivery, IsImplementation, IsFile, ValidatesOffline, ExploresOffline
<1>3. IsDelivery(e) => /\ ~ValidatesOffline(r, e)
                       /\ ~IsImplementation(e) /\ ~ExploresOffline(r, e)
    BY DEF IsDelivery, IsImplementation, IsFile, ValidatesOffline, ExploresOffline
<1>4. ValidatesOffline(r, e) => ~IsImplementation(e) /\ ~ExploresOffline(r, e)
    BY DEF IsDelivery, IsImplementation, IsFile, ValidatesOffline, ExploresOffline
<1>5. IsImplementation(e) => ~ExploresOffline(r, e)
    BY DEF IsImplementation, IsFile, ExploresOffline
<1>6. QED
    BY <1>1, <1>2, <1>3, <1>4, <1>5

LEMMA LikeReady ==
    ASSUME NEW x, NEW e, Like(x, e), NEW r
    PROVE  Ready(r, x) = Ready(r, e) /\ Tier(r, x) = Tier(r, e)
<1>1. /\ (IsFile(x) <=> IsFile(e))
      /\ (IsStrong(x) <=> IsStrong(e)) /\ (IsDelivery(x) <=> IsDelivery(e))
      /\ (IsImplementation(x) <=> IsImplementation(e))
      /\ (AppliesOffline(r, x) <=> AppliesOffline(r, e))
      /\ Frontier(x) = Frontier(e)
    BY LikeSays
<1>2. x.kind = e.kind /\ x.outcome = e.outcome /\ x.good = e.good
    BY DEF Like
<1>3. Ready(r, x) = Ready(r, e)
    BY <1>1, <1>2 DEF Ready
<1>4. Tier(r, x) = Tier(r, e)
  <2>1. /\ (ValidatesOffline(r, x) <=> ValidatesOffline(r, e))
        /\ (ExploresOffline(r, x) <=> ExploresOffline(r, e))
      BY <1>1, <1>2 DEF ValidatesOffline, ExploresOffline
  <2>2. QED
      BY <1>1, <2>1, TierIs
<1>5. QED
    BY <1>3, <1>4

\* What is derived from a call says nothing that is counted.
IsDerived(y, e) ==
    /\ IsEvent(y) /\ y.kind = "no_progress" /\ y.at = e.at
    /\ y.source = "" /\ y.action = "" /\ y.hyp = ""

LEMMA DerivedIs == ASSUME NEW e PROVE IsDerived(NoProgressFor(e), e)
BY DEF NoProgressFor, IsDerived, IsEvent, Blank

LEMMA DerivedSays ==
    ASSUME NEW y, NEW e, IsDerived(y, e), NEW r
    PROVE  /\ ~IsCall(y) /\ ~IsFile(y) /\ ~IsStrong(y) /\ ~IsDelivery(y)
           /\ ~IsImplementation(y) /\ ~IsOutputValidation(y) /\ ~Pressure(y)
           /\ Hypothesis(y) = ""
           /\ Ready(r, y) = r /\ Tier(r, y) = ""
<1>1. /\ ~IsCall(y) /\ ~IsFile(y) /\ ~IsStrong(y) /\ ~IsDelivery(y)
      /\ ~IsImplementation(y) /\ ~IsOutputValidation(y) /\ ~Pressure(y)
      /\ Hypothesis(y) = ""
    BY DEF IsDerived, IsCall, IsFile, IsStrong, IsDelivery, IsImplementation,
           IsOutputValidation, Pressure, Hypothesis
<1>2. Ready(r, y) = r
    BY <1>1 DEF Ready, IsDerived
<1>3. Tier(r, y) = ""
    BY <1>1 DEF Tier, IsDerived
<1>4. QED
    BY <1>1, <1>2, <1>3

\* Annotated, it is no progress either.
LEMMA DerivedMarked ==
    ASSUME NEW y, NEW e, IsDerived(y, e), NEW r
    PROVE  LET z == Marked(r, y)
           IN  IsDerived(z, e) /\ z.tier = "" /\ ~z.effective /\ ~Signal(z)
<1> DEFINE z == Marked(r, y)
<1>1. /\ Like(z, y) /\ z.tier = Tier(r, y)
      /\ z.effective = (Tier(r, y) \in {"delivery", "validation", "implementation"})
    BY MarkedIs DEF IsDerived
<1>2. Tier(r, y) = ""
    BY DerivedSays
<1> HIDE DEF z
<1>3. IsDerived(z, e) /\ z.tier = "" /\ ~z.effective
    BY <1>1, <1>2 DEF Like, IsDerived
<1>4. ~IsStrong(z) /\ ~IsOutputValidation(z)
    BY <1>3, DerivedSays
<1>5. ~Signal(z)
    BY <1>3, <1>4 DEF Signal, IsCandidate, IsDerived
<1>6. QED
    BY <1>3, <1>5 DEF z

\* Annotated twice at the same point of a trial, an event is as annotated once.
LEMMA MarkedTwice ==
    ASSUME NEW r, NEW e, IsEvent(e)
    PROVE  LET m == Marked(r, e)
               x == Marked(r, m)
           IN  /\ Like(m, e) /\ Like(x, e) /\ x.tier = Tier(r, e)
               /\ x.effective = (Tier(r, e) \in {"delivery", "validation", "implementation"})
               /\ Signal(m) <=> Signal(x)
<1> DEFINE m == Marked(r, e)
           x == Marked(r, m)
           f == Tier(r, e) \in {"delivery", "validation", "implementation"}
<1>1. Like(m, e) /\ m.effective = f
    BY MarkedIs
<1>2. Like(x, m) /\ x.tier = Tier(r, m)
      /\ x.effective = (Tier(r, m) \in {"delivery", "validation", "implementation"})
  <2>1. IsEvent(m)
      BY <1>1 DEF Like
  <2>2. QED
      BY <2>1, MarkedIs
<1>3. Tier(r, m) = Tier(r, e)
    BY <1>1, LikeReady
<1> HIDE DEF m, x
<1>4. Like(x, e) /\ x.tier = Tier(r, e) /\ x.effective = f
    BY <1>1, <1>2, <1>3 DEF Like
<1>5. (IsStrong(x) <=> IsStrong(m)) /\ (IsOutputValidation(x) <=> IsOutputValidation(m))
    BY <1>2, LikeSays
<1>6. x.effective = m.effective /\ x.kind = m.kind /\ x.target = m.target /\ x.outcome = m.outcome
    BY <1>1, <1>2, <1>4 DEF Like
<1>7. Signal(m) <=> Signal(x)
    BY <1>5, <1>6 DEF Signal, IsCandidate
<1>8. QED
    BY <1>1, <1>4, <1>7 DEF m, x

------------------------------------------------------------------------------
(* The record, one event of the trial more at a time *)

NoneReady == [ready |-> NotReady, out |-> <<>>]
NoneOpen == [n |-> 0, open |-> FALSE, out |-> <<>>]

Ann(q) == Fold("annotate", NoneReady, q)
Der(b, q) == Fold(Derives(b), NoneOpen, Ann(q).out)
Rec(b, q) == Ann(Der(b, q).out).out

LEMMA AnnotateIs == ASSUME NEW q, IsSeq(q) PROVE Annotate(q) = Ann(q).out
<1>1. FoldLeft(LAMBDA a, e : [ready |-> Ready(a.ready, e),
                              out |-> Append(a.out, Marked(a.ready, e))],
               [ready |-> NotReady, out |-> <<>>], q) = Ann(q)
    BY AnnotateIsFold DEF Ann, NoneReady
<1>2. QED
    BY <1>1 DEF Annotate

LEMMA AnnNone == Ann(<<>>) = NoneReady
BY FoldNone DEF Ann

LEMMA AnnMore ==
    ASSUME NEW q, IsSeq(q), NEW e
    PROVE  LET a == Ann(q)
               t == Ann(Append(q, e))
           IN  /\ t.ready = Ready(a.ready, e)
               /\ t.out = Append(a.out, Marked(a.ready, e))
<1> DEFINE a == Ann(q)
<1>1. Ann(Append(q, e)) = Step("annotate", a, e)
    BY FoldMore DEF Ann
<1>2. Step("annotate", a, e) = [ready |-> Ready(a.ready, e),
                                out |-> Append(a.out, Marked(a.ready, e))]
    BY DEF Step
<1>3. QED
    BY <1>1, <1>2

\* What holds of both, as long as everything is an event.
Sound(b, q) ==
    /\ IsSeq(q) /\ IsSeq(Ann(q).out) /\ IsSeq(Der(b, q).out) /\ IsSeq(Rec(b, q))
    /\ Der(b, q) = [n |-> Der(b, q).n, open |-> Der(b, q).open, out |-> Der(b, q).out]
    /\ Der(b, q).open \in BOOLEAN
    /\ Ann(Der(b, q).out).ready = Ann(q).ready

\* How one event makes the record grow: by itself, or with one derived from it
\* at its side.
Grows(b, q, e, x, y) ==
    LET p == Append(q, e)
    IN  /\ Like(x, e) /\ x.tier = Tier(Ann(q).ready, e)
        /\ x.effective = (x.tier \in {"delivery", "validation", "implementation"})
        /\ \/ Rec(b, p) = Append(Rec(b, q), x) /\ Signal(x) /\ ~Der(b, p).open
           \/ Rec(b, p) = Append(Rec(b, q), x) /\ ~Signal(x) /\ Der(b, p).open = Der(b, q).open
           \/ /\ IsDerived(y, e) /\ y.tier = "" /\ ~y.effective /\ ~Signal(y)
              /\ ~Signal(x) /\ ~Der(b, q).open /\ Der(b, p).open
              /\ \/ Rec(b, p) = Append(Append(Rec(b, q), y), x)
                 \/ Rec(b, p) = Append(Append(Rec(b, q), x), y)

LEMMA SoundNone == ASSUME NEW b PROVE Sound(b, <<>>) /\ Rec(b, <<>>) = <<>>
                                      /\ Der(b, <<>>).open = FALSE
<1>1. Ann(<<>>) = NoneReady /\ NoneReady.out = <<>>
    BY AnnNone DEF NoneReady
<1>2. Der(b, <<>>) = NoneOpen
    BY <1>1, FoldNone DEF Der
<1>3. NoneOpen.out = <<>> /\ NoneOpen.open = FALSE
      /\ NoneOpen = [n |-> NoneOpen.n, open |-> NoneOpen.open, out |-> NoneOpen.out]
    BY DEF NoneOpen
<1>4. Rec(b, <<>>) = <<>>
    BY <1>1, <1>2, <1>3 DEF Rec
<1>5. QED
    BY <1>1, <1>2, <1>3, <1>4, NoneYet DEF Sound

LEMMA DerMore ==
    ASSUME NEW b \in BOOLEAN, NEW q, Sound(b, q), NEW e
    PROVE  Der(b, Append(q, e)) = DeriveWith(b, Der(b, q), Marked(Ann(q).ready, e))
<1> DEFINE m == Marked(Ann(q).ready, e)
<1>1. Ann(Append(q, e)).out = Append(Ann(q).out, m)
    BY AnnMore DEF Sound
<1>2. Der(b, Append(q, e)) = Step(Derives(b), Der(b, q), m)
    BY <1>1, FoldMore DEF Der, Sound
<1>3. Step("before", Der(b, q), m) = DeriveWith(TRUE, Der(b, q), m)
      /\ Step("after", Der(b, q), m) = DeriveWith(FALSE, Der(b, q), m)
    BY DEF Step
<1>4. QED
    BY <1>2, <1>3 DEF Derives

\* The derivation of an event, by what the event is.
LEMMA DeriveCases ==
    ASSUME NEW b \in BOOLEAN, NEW a, a = [n |-> a.n, open |-> a.open, out |-> a.out],
           a.open \in BOOLEAN, NEW m
    PROVE  LET t == DeriveWith(b, a, m)
           IN  /\ t = [n |-> t.n, open |-> t.open, out |-> t.out]
               /\ t.open \in BOOLEAN
               /\ \/ Signal(m) /\ ~t.open /\ t.out = Append(a.out, m)
                  \/ ~Signal(m) /\ t.open = a.open /\ t.out = Append(a.out, m)
                  \/ /\ ~Signal(m) /\ ~a.open /\ t.open
                     /\ \/ t.out = a.out \o <<NoProgressFor(m), m>>
                        \/ t.out = a.out \o <<m, NoProgressFor(m)>>
<1>1. PICK n, o, u : a = [n |-> n, open |-> o, out |-> u] /\ o \in BOOLEAN
    OBVIOUS
<1> DEFINE t == DeriveWith(b, a, m)
<1>2. CASE Signal(m)
  <2>1. t = [n |-> 0, open |-> FALSE, out |-> Append(u, m)]
      BY <1>1, <1>2 DEF DeriveWith
  <2> HIDE DEF t
  <2>2. t.open = FALSE /\ t.out = Append(u, m) /\ a.out = u
      BY <1>1, <2>1
  <2>3. t = [n |-> t.n, open |-> t.open, out |-> t.out]
      BY <2>1
  <2>4. QED
      BY <1>2, <2>2, <2>3 DEF t
<1>3. CASE ~Signal(m) /\ ~Pressure(m)
  <2>1. t = [a EXCEPT !.out = Append(@, m)]
      BY <1>3 DEF DeriveWith
  <2>2. t = [n |-> n, open |-> o, out |-> Append(u, m)]
      BY <1>1, <2>1
  <2> HIDE DEF t
  <2>3. QED
      BY <1>1, <1>3, <2>2 DEF t
<1>4. CASE ~Signal(m) /\ Pressure(m) /\ (a.n + 1 < PressureAfter \/ a.open)
  <2>1. t = [a EXCEPT !.n = @ + 1, !.out = Append(@, m)]
      BY <1>4 DEF DeriveWith
  <2>2. t = [n |-> n + 1, open |-> o, out |-> Append(u, m)]
      BY <1>1, <2>1
  <2> HIDE DEF t
  <2>3. QED
      BY <1>1, <1>4, <2>2 DEF t
<1>5. CASE ~Signal(m) /\ Pressure(m) /\ ~(a.n + 1 < PressureAfter \/ a.open)
  <2> DEFINE w == a.out \o (IF b THEN <<NoProgressFor(m), m>> ELSE <<m, NoProgressFor(m)>>)
  <2>1. t = [n |-> a.n + 1, open |-> TRUE, out |-> w]
      BY <1>5 DEF DeriveWith
  <2>2. w = a.out \o <<NoProgressFor(m), m>> \/ w = a.out \o <<m, NoProgressFor(m)>>
      OBVIOUS
  <2> HIDE DEF t, w
  <2>3. t.n = a.n + 1 /\ t.open = TRUE /\ t.out = w
      BY <2>1
  <2>4. t = [n |-> t.n, open |-> t.open, out |-> t.out]
      BY <2>1, <2>3
  <2>5. QED
      BY <1>5, <2>2, <2>3, <2>4 DEF t
<1>6. QED
    BY <1>2, <1>3, <1>4, <1>5

LEMMA TwoMore ==
    ASSUME NEW q, IsSeq(q), NEW x, NEW y
    PROVE  q \o <<x, y>> = Append(Append(q, x), y)
<1> DEFINE n == Len(q)
           a == Append(q, x)
           c == Append(a, y)
           w == <<x, y>>
           d == q \o w
           S == Range(q) \cup {x, y}
<1>1. n \in Nat /\ q \in [1 .. n -> Range(q)] /\ \A i \in 1 .. n : q[i] \in Range(q)
    BY InRange
<1>2. IsSeq(a) /\ Len(a) = n + 1 /\ a[n + 1] = x /\ \A i \in 1 .. n : a[i] = q[i]
    BY Appended
<1> HIDE DEF a
<1>3. /\ IsSeq(c) /\ Len(c) = n + 2 /\ c[n + 2] = y
      /\ \A i \in 1 .. n + 1 : c[i] = a[i]
  <2>1. IsSeq(c) /\ Len(c) = Len(a) + 1 /\ c[Len(a) + 1] = y /\ \A i \in 1 .. Len(a) : c[i] = a[i]
      BY <1>2, Appended
  <2>2. Len(a) = n + 1 /\ (n + 1) + 1 = n + 2
      BY <1>1, <1>2
  <2> HIDE DEF c
  <2>3. QED
      BY <2>1, <2>2
<1> HIDE DEF c
<1>4. q \in Seq(S) /\ w \in Seq(S) /\ Len(w) = 2 /\ w[1] = x /\ w[2] = y
    BY <1>1
<1> HIDE DEF w, S
<1>5. /\ d \in Seq(S) /\ Len(d) = n + 2
      /\ \A i \in 1 .. n + 2 : d[i] = IF i <= n THEN q[i] ELSE w[i - n]
  <2>1. /\ d \in Seq(S) /\ Len(d) = Len(q) + Len(w)
        /\ \A i \in 1 .. Len(q) + Len(w) : d[i] = IF i <= Len(q) THEN q[i] ELSE w[i - Len(q)]
      BY <1>4, ConcatProperties
  <2> HIDE DEF d
  <2>2. QED
      BY <1>1, <1>4, <2>1
<1> HIDE DEF d
<1>6. DOMAIN d = 1 .. n + 2 /\ DOMAIN c = 1 .. n + 2
      /\ d = [i \in 1 .. n + 2 |-> d[i]] /\ c = [i \in 1 .. n + 2 |-> c[i]]
  <2>1. d \in [1 .. n + 2 -> S] /\ c \in [1 .. n + 2 -> Range(c)]
    <3>1. d \in [1 .. Len(d) -> S] /\ c \in [1 .. Len(c) -> Range(c)]
        BY <1>3, <1>5, InRange, LenProperties
    <3>2. QED
        BY <1>3, <1>5, <3>1
  <2>2. QED
      BY <2>1
<1>7. ASSUME NEW i \in 1 .. n + 2 PROVE d[i] = c[i]
  <2>1. CASE i \in 1 .. n
      BY <1>1, <1>2, <1>3, <1>5, <2>1
  <2>2. CASE i = n + 1
    <3>1. c[i] = a[n + 1] /\ a[n + 1] = x
        BY <1>1, <1>2, <1>3, <2>2
    <3>2. d[i] = w[i - n] /\ i - n = 1
        BY <1>1, <1>5, <2>2
    <3>3. QED
        BY <1>4, <3>1, <3>2
  <2>3. CASE i = n + 2
    <3>1. c[i] = y
        BY <1>3, <2>3
    <3>2. d[i] = w[i - n] /\ i - n = 2
        BY <1>1, <1>5, <2>3
    <3>3. QED
        BY <1>4, <3>1, <3>2
  <2>4. QED
      BY <1>1, <2>1, <2>2, <2>3
<1>8. d = c
    BY <1>6, <1>7
<1>9. QED
    BY <1>8 DEF d, c, a, w

LEMMA RecordGrows ==
    ASSUME NEW b \in BOOLEAN, NEW q, Sound(b, q), NEW e, IsEvent(e)
    PROVE  /\ Sound(b, Append(q, e))
           /\ Ann(Append(q, e)).ready = Ready(Ann(q).ready, e)
           /\ \E x, y : Grows(b, q, e, x, y)
<1> DEFINE r == Ann(q).ready
           m == Marked(r, e)
           p == Append(q, e)
           a == Der(b, q)
           t == Der(b, p)
           x == Marked(r, m)
           y == NoProgressFor(m)
           R == Rec(b, q)
<1>1. /\ Like(m, e) /\ Like(x, e) /\ x.tier = Tier(r, e)
      /\ x.effective = (Tier(r, e) \in {"delivery", "validation", "implementation"})
      /\ Signal(m) <=> Signal(x)
    BY MarkedTwice
<1>2. Ready(r, m) = Ready(r, e)
    BY <1>1, LikeReady
<1>3. /\ IsSeq(q) /\ IsSeq(Ann(q).out) /\ IsSeq(a.out) /\ IsSeq(R)
      /\ a = [n |-> a.n, open |-> a.open, out |-> a.out] /\ a.open \in BOOLEAN
      /\ Ann(a.out).ready = r /\ Ann(a.out).out = R
    BY DEF Sound, Rec
<1>4. Ann(p).ready = Ready(r, e) /\ Ann(p).out = Append(Ann(q).out, m)
    BY <1>3, AnnMore
<1>5. IsSeq(p) /\ IsSeq(Append(Ann(q).out, m))
    BY <1>3, Appended
<1>6. t = DeriveWith(b, a, m)
    BY DerMore
<1>7. IsDerived(y, e)
  <2>1. IsDerived(y, m) /\ m.at = e.at
      BY <1>1, DerivedIs DEF Like
  <2>2. QED
      BY <2>1 DEF IsDerived
<1>8. \A k : Ready(k, y) = k /\ LET z == Marked(k, y)
                                IN  IsDerived(z, e) /\ z.tier = "" /\ ~z.effective /\ ~Signal(z)
    BY <1>7, DerivedSays, DerivedMarked
<1> HIDE DEF r, m, p, a, t, x, y, R
<1>9. /\ t = [n |-> t.n, open |-> t.open, out |-> t.out] /\ t.open \in BOOLEAN
      /\ \/ Signal(m) /\ ~t.open /\ t.out = Append(a.out, m)
         \/ ~Signal(m) /\ t.open = a.open /\ t.out = Append(a.out, m)
         \/ /\ ~Signal(m) /\ ~a.open /\ t.open
            /\ \/ t.out = a.out \o <<y, m>>
               \/ t.out = a.out \o <<m, y>>
    BY <1>3, <1>6, DeriveCases DEF y
\* One of the three ways to grow is enough.
<1>10. ASSUME IsSeq(t.out), Ann(t.out).ready = Ready(r, e), IsSeq(Ann(t.out).out)
       PROVE  Sound(b, p)
  <2>1. IsSeq(Rec(b, p))
      BY <1>10 DEF Rec, t
  <2>2. QED
      BY <1>4, <1>5, <1>9, <1>10, <2>1 DEF Sound, t
<1>11. CASE t.out = Append(a.out, m)
  <2>1. /\ IsSeq(t.out) /\ Ann(t.out).ready = Ready(r, e)
        /\ Ann(t.out).out = Append(R, x)
      BY <1>2, <1>3, <1>11, Appended, AnnMore DEF x
  <2>2. IsSeq(Append(R, x)) /\ Rec(b, p) = Append(R, x)
      BY <1>3, <2>1, Appended DEF Rec, t
  <2>3. Sound(b, p)
      BY <1>10, <2>1, <2>2
  <2>4. CASE Signal(m) /\ ~t.open
    <3>1. Grows(b, q, e, x, x)
        BY <1>1, <2>2, <2>4 DEF Grows, r, p, a, t, R
    <3>2. QED
        BY <1>4, <2>3, <3>1 DEF p, r
  <2>5. CASE ~Signal(m) /\ t.open = a.open
    <3>1. Grows(b, q, e, x, x)
        BY <1>1, <2>2, <2>5 DEF Grows, r, p, a, t, R
    <3>2. QED
        BY <1>4, <2>3, <3>1 DEF p, r
  <2>6. CASE ~Signal(m) /\ ~a.open /\ t.open
    <3>1. CASE t.out = a.out \o <<y, m>>
      <4>1. t.out = Append(Append(a.out, y), m) /\ Len(a.out) \in Nat
            /\ Len(Append(a.out, m)) = Len(a.out) + 1
            /\ Len(Append(Append(a.out, y), m)) = (Len(a.out) + 1) + 1
          BY <1>3, <3>1, TwoMore, Appended, InRange
      <4>2. QED
          BY <1>11, <4>1
    <3>2. CASE t.out = a.out \o <<m, y>>
      <4>1. t.out = Append(Append(a.out, m), y) /\ Len(a.out) \in Nat
            /\ Len(Append(a.out, m)) = Len(a.out) + 1
            /\ Len(Append(Append(a.out, m), y)) = (Len(a.out) + 1) + 1
          BY <1>3, <3>2, TwoMore, Appended, InRange
      <4>2. QED
          BY <1>11, <4>1
    <3>3. QED
        BY <1>9, <2>6, <3>1, <3>2
  <2>7. QED
      BY <1>9, <2>4, <2>5, <2>6
<1>12. CASE ~Signal(m) /\ ~a.open /\ t.open /\ t.out = a.out \o <<y, m>>
  <2> DEFINE z == Marked(r, y)
             u == Append(a.out, y)
  <2>1. t.out = Append(u, m) /\ IsSeq(u) /\ IsSeq(t.out)
    <3>1. IsSeq(u)
        BY <1>3, Appended
    <3>2. a.out \o <<y, m>> = Append(u, m)
        BY <1>3, TwoMore
    <3> HIDE DEF u
    <3>3. IsSeq(Append(u, m))
        BY <3>1, Appended
    <3>4. QED
        BY <1>12, <3>1, <3>2, <3>3
  <2>2. Ann(u).ready = r /\ Ann(u).out = Append(R, z)
      BY <1>3, <1>8, AnnMore
  <2>3. IsDerived(z, e) /\ z.tier = "" /\ ~z.effective /\ ~Signal(z)
      BY <1>8
  <2> HIDE DEF z, u
  <2>4. Ann(t.out).ready = Ready(r, e) /\ Ann(t.out).out = Append(Append(R, z), x)
      BY <1>2, <2>1, <2>2, AnnMore DEF x
  <2>5. IsSeq(Append(Append(R, z), x)) /\ Rec(b, p) = Append(Append(R, z), x)
      BY <1>3, <2>4, Appended DEF Rec, t
  <2>6. Sound(b, p)
      BY <1>10, <2>1, <2>4, <2>5
  <2>7. Grows(b, q, e, x, z)
      BY <1>1, <1>12, <2>3, <2>5 DEF Grows, r, p, a, t, R
  <2>8. QED
      BY <1>4, <2>6, <2>7 DEF p, r
<1>13. CASE ~Signal(m) /\ ~a.open /\ t.open /\ t.out = a.out \o <<m, y>>
  <2> DEFINE k == Ready(r, e)
             z == Marked(k, y)
             u == Append(a.out, m)
  <2>1. t.out = Append(u, y) /\ IsSeq(u) /\ IsSeq(t.out)
    <3>1. IsSeq(u)
        BY <1>3, Appended
    <3>2. a.out \o <<m, y>> = Append(u, y)
        BY <1>3, TwoMore
    <3> HIDE DEF u
    <3>3. IsSeq(Append(u, y))
        BY <3>1, Appended
    <3>4. QED
        BY <1>13, <3>1, <3>2, <3>3
  <2>2. Ann(u).ready = k /\ Ann(u).out = Append(R, x)
      BY <1>2, <1>3, AnnMore DEF x
  <2>3. IsDerived(z, e) /\ z.tier = "" /\ ~z.effective /\ ~Signal(z) /\ Ready(k, y) = k
      BY <1>8
  <2> HIDE DEF z, u, k
  <2>4. Ann(t.out).ready = k /\ Ann(t.out).out = Append(Append(R, x), z)
      BY <2>1, <2>2, <2>3, AnnMore DEF z
  <2>5. IsSeq(Append(Append(R, x), z)) /\ Rec(b, p) = Append(Append(R, x), z)
      BY <1>3, <2>4, Appended DEF Rec, t
  <2>6. Sound(b, p)
      BY <1>10, <2>1, <2>4, <2>5 DEF k
  <2>7. Grows(b, q, e, x, z)
      BY <1>1, <1>13, <2>3, <2>5 DEF Grows, r, p, a, t, R
  <2>8. QED
      BY <1>4, <2>6, <2>7 DEF p, r
<1>14. QED
    BY <1>9, <1>11, <1>12, <1>13

\* The extractor's events are what the folds come to.
LEMMA EventsAre ==
    ASSUME NEW q, before \in BOOLEAN, Sound(before, q)
    PROVE  Events(q) = Rec(before, q)
<1> DEFINE u == Annotate(q)
           d == FoldLeft(DeriveFrom, [n |-> 0, open |-> FALSE, out |-> <<>>], u).out
<1>1. u = Ann(q).out
    BY AnnotateIs DEF Sound
<1>2. d = Der(before, q).out
    BY <1>1, DeriveIsFold DEF Sound, Der, NoneOpen
<1>3. Annotate(d) = Rec(before, q)
    BY <1>2, AnnotateIs DEF Sound, Rec
<1>4. Events(q) = Annotate(d)
    BY DEF Events
<1>5. QED
    BY <1>3, <1>4

------------------------------------------------------------------------------
(* Records of trials are sound: all that is ever annotated are events. *)

LEMMA AllSound ==
    ASSUME NEW b \in BOOLEAN, NEW q, IsSeq(q), \A i \in 1 .. Len(q) : IsEvent(q[i])
    PROVE  \A k \in 0 .. Len(q) : Sound(b, Prefix(q, k))
<1> DEFINE n == Len(q)
           S == {k \in 0 .. n : Sound(b, Prefix(q, k))}
<1>1. n \in Nat /\ 0 \in 0 .. n
    BY InRange
<1>2. 0 \in S
  <2>1. Prefix(q, 0) = <<>>
      BY PrefixSteps
  <2>2. Sound(b, Prefix(q, 0))
      BY <2>1, SoundNone
  <2>3. QED
      BY <1>1, <2>2
<1>3. ASSUME NEW k \in 1 .. n, k - 1 \in S PROVE k \in S
  <2>1. Prefix(q, k) = Append(Prefix(q, k - 1), q[k]) /\ IsEvent(q[k])
      BY PrefixSteps
  <2>2. Sound(b, Prefix(q, k - 1))
      BY <1>3
  <2>3. Sound(b, Prefix(q, k))
      BY <2>1, <2>2, RecordGrows
  <2>4. k \in 0 .. n
      BY <1>1
  <2>5. QED
      BY <2>3, <2>4
<1> HIDE DEF S
<1>4. 0 .. n \subseteq S
    BY <1>1, <1>2, <1>3, UpTo
<1>5. QED
    BY <1>4 DEF S

------------------------------------------------------------------------------
(* Once per stretch: after a derived event nothing is derived until there was *)
(* progress, and that is seen in the record too.                              *)

DerivedAt(R, i) == i \in DOMAIN R /\ R[i].kind = "no_progress"

\* Progress after everything that has been derived.
AllClosed(R) ==
    \A i \in DOMAIN R : DerivedAt(R, i) =>
        \E k \in DOMAIN R : i <= k /\ Signal(R[k])

Once(R) ==
    \A i, j \in DOMAIN R : i < j /\ DerivedAt(R, i) /\ DerivedAt(R, j) =>
        \E k \in i .. j : Signal(R[k])

LEMMA PlainMore ==
    ASSUME NEW R, IsSeq(R), Once(R), NEW x, x.kind # "no_progress"
    PROVE  /\ Once(Append(R, x))
           /\ AllClosed(R) => AllClosed(Append(R, x))
           /\ Signal(x) => AllClosed(Append(R, x))
<1> DEFINE n == Len(R)
           T == Append(R, x)
<1>1. /\ n \in Nat /\ DOMAIN R = 1 .. n /\ IsSeq(T) /\ Len(T) = n + 1
      /\ T[n + 1] = x /\ \A i \in 1 .. n : T[i] = R[i]
    BY InRange, Appended
<1> HIDE DEF T, n
<1>2. DOMAIN T = 1 .. n + 1
    BY <1>1, InRange
<1>3. \A i \in DOMAIN T : DerivedAt(T, i) => i \in 1 .. n /\ DerivedAt(R, i)
    BY <1>1, <1>2 DEF DerivedAt
<1>4. Once(T)
  <2>1. SUFFICES ASSUME NEW i \in DOMAIN T, NEW j \in DOMAIN T, i < j,
                        DerivedAt(T, i), DerivedAt(T, j)
                 PROVE  \E k \in i .. j : Signal(T[k])
      BY DEF Once
  <2>2. i \in 1 .. n /\ j \in 1 .. n /\ DerivedAt(R, i) /\ DerivedAt(R, j)
      BY <1>3, <2>1
  <2>3. PICK k \in i .. j : Signal(R[k])
      BY <1>1, <2>1, <2>2 DEF Once
  <2>4. k \in 1 .. n
      BY <1>1, <2>2
  <2>5. QED
      BY <1>1, <2>3, <2>4
<1>5. ASSUME AllClosed(R) PROVE AllClosed(T)
  <2>1. SUFFICES ASSUME NEW i \in DOMAIN T, DerivedAt(T, i)
                 PROVE  \E k \in DOMAIN T : i <= k /\ Signal(T[k])
      BY DEF AllClosed
  <2>2. i \in 1 .. n /\ DerivedAt(R, i)
      BY <1>3, <2>1
  <2>3. PICK k \in 1 .. n : i <= k /\ Signal(R[k])
      BY <1>1, <1>5, <2>2 DEF AllClosed
  <2>4. QED
      BY <1>1, <1>2, <2>3
<1>6. ASSUME Signal(x) PROVE AllClosed(T)
  <2>1. SUFFICES ASSUME NEW i \in DOMAIN T, DerivedAt(T, i)
                 PROVE  \E k \in DOMAIN T : i <= k /\ Signal(T[k])
      BY DEF AllClosed
  <2>2. n + 1 \in DOMAIN T /\ i <= n + 1 /\ T[n + 1] = x
      BY <1>1, <1>2, <2>1
  <2>3. QED
      BY <1>6, <2>2
<1>7. QED
    BY <1>4, <1>5, <1>6 DEF T

LEMMA DerivedOneMore ==
    ASSUME NEW R, IsSeq(R), Once(R), AllClosed(R), NEW y
    PROVE  Once(Append(R, y))
<1> DEFINE n == Len(R)
           T == Append(R, y)
<1>1. /\ n \in Nat /\ DOMAIN R = 1 .. n /\ IsSeq(T) /\ Len(T) = n + 1
      /\ T[n + 1] = y /\ \A i \in 1 .. n : T[i] = R[i]
    BY InRange, Appended
<1> HIDE DEF T, n
<1>2. DOMAIN T = 1 .. n + 1
    BY <1>1, InRange
<1>3. SUFFICES ASSUME NEW i \in DOMAIN T, NEW j \in DOMAIN T, i < j,
                      DerivedAt(T, i), DerivedAt(T, j)
               PROVE  \E k \in i .. j : Signal(T[k])
    BY DEF Once, T
<1>4. i \in 1 .. n /\ DerivedAt(R, i)
  <2>1. i \in 1 .. n
      BY <1>1, <1>2, <1>3
  <2>2. QED
      BY <1>1, <1>3, <2>1 DEF DerivedAt
<1>5. CASE j \in 1 .. n
  <2>1. DerivedAt(R, j)
      BY <1>1, <1>3, <1>5 DEF DerivedAt
  <2>2. PICK k \in i .. j : Signal(R[k])
      BY <1>1, <1>3, <1>4, <1>5, <2>1 DEF Once
  <2>3. k \in 1 .. n
      BY <1>1, <1>4, <1>5
  <2>4. QED
      BY <1>1, <2>2, <2>3
<1>6. CASE j = n + 1
  <2>1. PICK k \in 1 .. n : i <= k /\ Signal(R[k])
      BY <1>1, <1>4 DEF AllClosed
  <2>2. k \in i .. j
      BY <1>1, <1>4, <1>6, <2>1
  <2>3. QED
      BY <1>1, <2>1, <2>2
<1>7. QED
    BY <1>1, <1>2, <1>5, <1>6

LEMMA OnceMore ==
    ASSUME NEW b \in BOOLEAN, NEW q, Sound(b, q), NEW e, e.kind # "no_progress",
           NEW x, NEW y, Grows(b, q, e, x, y),
           Once(Rec(b, q)), ~Der(b, q).open => AllClosed(Rec(b, q))
    PROVE  LET p == Append(q, e)
           IN  Once(Rec(b, p)) /\ (~Der(b, p).open => AllClosed(Rec(b, p)))
<1> DEFINE p == Append(q, e)
           R == Rec(b, q)
<1>1. IsSeq(R) /\ x.kind # "no_progress"
    BY DEF Sound, Grows, Like
<1>2. /\ Once(Append(R, x))
      /\ AllClosed(R) => AllClosed(Append(R, x))
      /\ Signal(x) => AllClosed(Append(R, x))
    BY <1>1, PlainMore
<1>3. CASE Rec(b, p) = Append(R, x) /\ Signal(x) /\ ~Der(b, p).open
    BY <1>2, <1>3
<1>4. CASE Rec(b, p) = Append(R, x) /\ ~Signal(x) /\ Der(b, p).open = Der(b, q).open
    BY <1>2, <1>4
<1>5. CASE ~Der(b, q).open /\ Der(b, p).open /\ Rec(b, p) = Append(Append(R, y), x)
  <2>1. Once(Append(R, y)) /\ IsSeq(Append(R, y))
      BY <1>1, <1>5, DerivedOneMore, Appended
  <2>2. Once(Append(Append(R, y), x))
      BY <1>1, <2>1, PlainMore
  <2>3. QED
      BY <1>5, <2>2
<1>6. CASE ~Der(b, q).open /\ Der(b, p).open /\ Rec(b, p) = Append(Append(R, x), y)
  <2>1. IsSeq(Append(R, x)) /\ AllClosed(Append(R, x))
      BY <1>1, <1>2, <1>6, Appended
  <2>2. Once(Append(Append(R, x), y))
      BY <1>2, <2>1, DerivedOneMore
  <2>3. QED
      BY <1>6, <2>2
<1>7. QED
    BY <1>3, <1>4, <1>5, <1>6 DEF Grows

LEMMA AlwaysOnce ==
    ASSUME NEW b \in BOOLEAN, NEW q, IsSeq(q),
           \A i \in 1 .. Len(q) : IsEvent(q[i]) /\ q[i].kind # "no_progress"
    PROVE  Once(Rec(b, q))
<1> DEFINE n == Len(q)
           Good(p) == Once(Rec(b, p)) /\ (~Der(b, p).open => AllClosed(Rec(b, p)))
           S == {k \in 0 .. n : Good(Prefix(q, k))}
<1>1. n \in Nat /\ Prefix(q, 0) = <<>> /\ Prefix(q, n) = q
    BY InRange, PrefixSteps
<1>2. 0 \in S
  <2>1. Rec(b, <<>>) = <<>>
      BY SoundNone
  <2>2. DOMAIN <<>> = {}
      OBVIOUS
  <2>3. Once(<<>>) /\ AllClosed(<<>>)
      BY <2>2 DEF Once, AllClosed
  <2>4. Good(Prefix(q, 0))
      BY <1>1, <2>1, <2>3
  <2>5. 0 \in 0 .. n
      BY <1>1
  <2>6. QED
      BY <2>4, <2>5
<1>3. ASSUME NEW k \in 1 .. n, k - 1 \in S PROVE k \in S
  <2> DEFINE p == Prefix(q, k - 1)
  <2>1. Prefix(q, k) = Append(p, q[k]) /\ k - 1 \in 0 .. n
      BY <1>1, PrefixSteps
  <2>2. Sound(b, p) /\ IsEvent(q[k]) /\ q[k].kind # "no_progress"
      BY <2>1, AllSound
  <2>3. Good(p)
      BY <1>3
  <2> HIDE DEF p
  <2>4. PICK x, y : Grows(b, p, q[k], x, y)
      BY <2>2, RecordGrows
  <2>5. Good(Append(p, q[k]))
      BY <2>2, <2>3, <2>4, OnceMore
  <2>6. k \in 0 .. n /\ Good(Prefix(q, k))
      BY <1>1, <2>1, <2>5
  <2>7. QED
      BY <2>6
<1> HIDE DEF S
<1>4. 0 .. n \subseteq S
    BY <1>1, <1>2, <1>3, UpTo
<1>5. n \in S
    BY <1>1, <1>4
<1>6. QED
    BY <1>1, <1>5 DEF S

------------------------------------------------------------------------------
(* What happens at one moment *)

LEMMA Joined ==
    ASSUME NEW s, IsSeq(s), NEW t, IsSeq(t)
    PROVE  /\ IsSeq(s \o t) /\ Len(s \o t) = Len(s) + Len(t)
           /\ \A i \in 1 .. Len(s) : (s \o t)[i] = s[i]
           /\ \A i \in 1 .. Len(t) : (s \o t)[Len(s) + i] = t[i]
           /\ Prefix(s \o t, Len(s)) = s
<1> DEFINE m == Len(s)
           n == Len(t)
           S == Range(s) \cup Range(t)
           u == s \o t
<1>1. /\ m \in Nat /\ n \in Nat /\ s \in [1 .. m -> Range(s)] /\ t \in [1 .. n -> Range(t)]
    BY InRange
<1>2. s \in Seq(S) /\ t \in Seq(S)
  <2>1. s \in [1 .. m -> S] /\ t \in [1 .. n -> S]
      BY <1>1
  <2> HIDE DEF S
  <2>2. QED
      BY <1>1, <2>1, SeqDef
<1>3. /\ u \in Seq(S) /\ Len(u) = m + n
      /\ \A i \in 1 .. m + n : u[i] = IF i <= m THEN s[i] ELSE t[i - m]
    BY <1>2, ConcatProperties
<1> HIDE DEF S, u
<1>4. IsSeq(u)
    BY <1>3, SeqOverRange
<1> HIDE DEF m, n
<1>5. /\ \A i \in 1 .. m : u[i] = s[i]
      /\ \A i \in 1 .. n : u[m + i] = t[i]
  <2>1. ASSUME NEW i \in 1 .. m PROVE u[i] = s[i]
    <3>1. i \in 1 .. m + n /\ i <= m
        BY <1>1
    <3>2. QED
        BY <1>3, <3>1
  <2>2. ASSUME NEW i \in 1 .. n PROVE u[m + i] = t[i]
    <3>1. m + i \in 1 .. m + n /\ ~(m + i <= m) /\ (m + i) - m = i
        BY <1>1
    <3>2. u[m + i] = t[(m + i) - m]
        BY <1>3, <3>1
    <3>3. QED
        BY <3>1, <3>2
  <2>3. QED
      BY <2>1, <2>2
<1>6. Prefix(u, m) = s
  <2> DEFINE p == Prefix(u, m)
  <2>1. m \in 0 .. Len(u)
      BY <1>1, <1>3
  <2>2. IsSeq(p) /\ Len(p) = m /\ \A i \in 1 .. m : p[i] = u[i]
      BY <1>4, <2>1, PrefixSteps
  <2> HIDE DEF p
  <2>3. p \in [1 .. m -> Range(p)] /\ s \in [1 .. m -> Range(s)]
      BY <1>1, <2>2, InRange
  <2>4. \A i \in 1 .. m : p[i] = s[i]
      BY <1>5, <2>2
  <2>5. p = [i \in 1 .. m |-> p[i]] /\ s = [i \in 1 .. m |-> s[i]]
      BY <2>3
  <2>6. p = s
      BY <2>4, <2>5
  <2>7. QED
      BY <2>6 DEF p
<1>7. QED
    BY <1>3, <1>4, <1>5, <1>6 DEF u, m, n

\* What is known of every event before anything is derived.
Base(e) ==
    /\ IsEvent(e) /\ e.kind # "no_progress" /\ e.at \in Nat /\ e.id \in Nat \ {0}
    /\ ~IsCall(e) => e.action = "" /\ e.hyp = ""
    /\ e.kind = "test_passed" => e.failed = 0
    /\ e.kind = "test_run" => /\ e.failed = 0
                              /\ e.outcome = "failed" => e.print # ""

Fresh(es, now) ==
    /\ IsSeq(es) /\ Len(es) >= 1
    /\ \A j \in 1 .. Len(es) :
          /\ Base(es[j]) /\ now + 1 <= es[j].at /\ es[j].at <= es[Len(es)].at
          /\ IsCall(es[j]) => Len(es) = 1

LEMMA OneEvent == ASSUME NEW e PROVE IsSeq(<<e>>) /\ Len(<<e>>) = 1 /\ <<e>>[1] = e
<1>1. <<e>> \in Seq({e}) /\ Len(<<e>>) = 1 /\ <<e>>[1] = e
    OBVIOUS
<1>2. QED
    BY <1>1, SeqOverRange

Stamped(e, t, n) == [e EXCEPT !.at = t, !.id = n]

IsStamped(x, e, t, n) ==
    /\ IsEvent(x) /\ x.at = t /\ x.id = n /\ x.kind = e.kind
    /\ x.action = e.action /\ x.hyp = e.hyp /\ x.failed = e.failed
    /\ x.outcome = e.outcome /\ x.print = e.print /\ x.source = e.source

LEMMA StampedIs ==
    ASSUME NEW e, IsEvent(e), NEW t, NEW n
    PROVE  IsStamped(Stamped(e, t, n), e, t, n)
BY DEF IsEvent, Blank, Stamped, IsStamped

\* A call, or a verdict.
IsOne(c) ==
    /\ IsEvent(c) /\ c.kind \notin {"no_progress", "test_run"}
    /\ ~IsCall(c) => c.action = "" /\ c.hyp = ""
    /\ c.kind = "test_passed" => c.failed = 0

LEMMA CallFresh ==
    ASSUME Now \in Nat, Len(log) \in Nat, NEW c, IsOne(c), NEW es \in CallOf(c)
    PROVE  /\ Fresh(es, Now)
           /\ Len(es) = 1 /\ es[1].kind = c.kind /\ es[1].source = c.source
<1> DEFINE x == Stamped(c, Now + 1, Len(log) + 1)
<1>1. es = <<x>>
    BY DEF CallOf, Stamped
<1>2. IsStamped(x, c, Now + 1, Len(log) + 1)
    BY StampedIs DEF IsOne
<1> HIDE DEF x
<1>3. IsSeq(es) /\ Len(es) = 1 /\ es[1] = x
    BY <1>1, OneEvent
<1>4. x.at = Now + 1 /\ x.at \in Nat /\ x.id \in Nat \ {0}
    BY <1>2 DEF IsStamped
<1>5. Base(x)
  <2>1. IsEvent(x) /\ x.kind = c.kind /\ x.action = c.action /\ x.hyp = c.hyp
        /\ x.failed = c.failed
      BY <1>2 DEF IsStamped
  <2>2. /\ x.kind \notin {"no_progress", "test_run"}
        /\ ~IsCall(x) => x.action = "" /\ x.hyp = ""
        /\ x.kind = "test_passed" => x.failed = 0
      BY <2>1 DEF IsOne, IsCall
  <2>3. QED
      BY <1>4, <2>1, <2>2 DEF Base
<1>6. \A j \in 1 .. 1 : j = 1 /\ Now + 1 <= x.at /\ x.at <= x.at
    BY <1>4
<1>7. Fresh(es, Now)
    BY <1>3, <1>5, <1>6 DEF Fresh
<1>8. QED
    BY <1>2, <1>3, <1>7 DEF IsStamped

\* What a tool call leaves in the record.
IsToolEvent(e) ==
    /\ IsEvent(e) /\ e.kind \in {"tool_call", "file_written", "test_run",
                                 "analysis_progress", "execution_stall"}
    /\ e.action = "" /\ e.hyp = "" /\ e.failed = 0
    /\ e.kind = "test_run" => (e.outcome = "failed" => e.print # "")

LEMMA ToolEvents ==
    ASSUME NEW t
    PROVE  /\ \A e \in {Blank("tool_call")} \cup FileOf(t) \cup TestOf(t) : IsToolEvent(e)
           /\ LET later == AnalysisOf(t) \o StallOf(t)
              IN  later = <<>> \/ (Len(later) = 1 /\ IsToolEvent(later[1]))
<1>1. IsToolEvent(Blank("tool_call"))
    BY DEF IsToolEvent, Blank, IsEvent
<1>2. \A e \in FileOf(t) : IsToolEvent(e)
    BY DEF FileOf, IsToolEvent, Blank, IsEvent
<1>3. IsToolEvent(TestRunOf(t))
    BY DEF TestRunOf, IsToolEvent, Blank, IsEvent
<1>4. \A e \in TestOf(t) : IsToolEvent(e)
    BY <1>3 DEF TestOf
<1> DEFINE later == AnalysisOf(t) \o StallOf(t)
<1>5. later = <<>> \/ (Len(later) = 1 /\ IsToolEvent(later[1]))
  <2>1. CASE t.shows = "fact"
    <3> DEFINE f == [Blank("analysis_progress") EXCEPT !.good = TRUE]
    <3>1. IsToolEvent(f)
        BY DEF IsToolEvent, Blank, IsEvent
    <3>2. AnalysisOf(t) = <<f>> /\ StallOf(t) = <<>>
        BY <2>1 DEF AnalysisOf, StallOf
    <3> HIDE DEF f
    <3>3. <<f>> \o <<>> = <<f>>
        OBVIOUS
    <3>4. QED
        BY <3>1, <3>2, <3>3, OneEvent
  <2>2. CASE t.shows = "stall"
    <3> DEFINE f == Blank("execution_stall")
    <3>1. IsToolEvent(f)
        BY DEF IsToolEvent, Blank, IsEvent
    <3>2. AnalysisOf(t) = <<>> /\ StallOf(t) = <<f>>
        BY <2>2 DEF AnalysisOf, StallOf
    <3> HIDE DEF f
    <3>3. <<>> \o <<f>> = <<f>>
        OBVIOUS
    <3>4. QED
        BY <3>1, <3>2, <3>3, OneEvent
  <2>3. CASE t.shows \notin {"fact", "stall"}
    <3>1. AnalysisOf(t) = <<>> /\ StallOf(t) = <<>>
        BY <2>3 DEF AnalysisOf, StallOf
    <3>2. QED
        BY <3>1
  <2>4. QED
      BY <2>1, <2>2, <2>3
<1>6. QED
    BY <1>1, <1>2, <1>4, <1>5

LEMMA ToolFresh ==
    ASSUME Now \in Nat, Len(log) \in Nat, NEW t, NEW es \in ToolOf(t)
    PROVE  Fresh(es, Now) /\ \A i \in 1 .. Len(es) : IsToolEvent(es[i])
<1> DEFINE same == {Blank("tool_call")} \cup FileOf(t) \cup TestOf(t)
           later == AnalysisOf(t) \o StallOf(t)
           n == Cardinality(same)
           k == Len(later)
<1>1. IsFiniteSet(same)
  <2>1. FileOf(t) = {} \/ \E a : FileOf(t) = {a}
      BY DEF FileOf
  <2>2. TestOf(t) = {} \/ \E a : TestOf(t) = {a}
      BY DEF TestOf
  <2>3. IsFiniteSet({}) /\ \A a : IsFiniteSet({a})
      BY FS_EmptySet, FS_Singleton
  <2>4. IsFiniteSet(FileOf(t)) /\ IsFiniteSet(TestOf(t)) /\ IsFiniteSet({Blank("tool_call")})
      BY <2>1, <2>2, <2>3
  <2>5. QED
      BY <2>4, FS_Union
<1>2. n \in Nat /\ n # 0
    BY <1>1, FS_CardinalityType, FS_EmptySet
<1>3. /\ \A e \in same : IsToolEvent(e)
      /\ later = <<>> \/ (k = 1 /\ IsToolEvent(later[1]))
    BY ToolEvents
<1>4. PICK order \in SetToSeqs(same) :
          es = [i \in 1 .. Len(order) + k |->
                  IF i <= Len(order)
                  THEN Stamped(order[i], Now + 1, Len(log) + i)
                  ELSE Stamped(later[1], Now + 2, Len(log) + i)]
    BY DEF ToolOf, Stamped
<1>5. order \in [1 .. n -> same]
    BY <1>4 DEF SetToSeqs
<1>6. Len(order) = n
    BY <1>2, <1>5, SeqDef, LenProperties
<1>7. k \in 0 .. 1 /\ (k = 1 => IsToolEvent(later[1]))
  <2>1. later = <<>> => k = 0
      OBVIOUS
  <2>2. QED
      BY <1>3, <2>1
<1> HIDE DEF same, later, k, n
<1> DEFINE m == n + k
<1>8. m \in Nat /\ 1 <= m
    BY <1>2, <1>7
<1>9. /\ DOMAIN es = 1 .. m
      /\ \A i \in 1 .. m :
            \E e, s : /\ IsToolEvent(e) /\ (s = Now + 1 \/ (s = Now + 2 /\ i > n))
                      /\ (i > n => s = Now + 2) /\ es[i] = Stamped(e, s, Len(log) + i)
  <2>1. DOMAIN es = 1 .. m
      BY <1>4, <1>6
  <2>2. ASSUME NEW i \in 1 .. m, i <= n
        PROVE  \E e, s : /\ IsToolEvent(e) /\ (s = Now + 1 \/ (s = Now + 2 /\ i > n))
                         /\ (i > n => s = Now + 2)
                         /\ es[i] = Stamped(e, s, Len(log) + i)
    <3>1. i \in 1 .. n
        BY <1>2, <2>2
    <3>2. IsToolEvent(order[i])
        BY <1>3, <1>5, <3>1
    <3>3. es[i] = Stamped(order[i], Now + 1, Len(log) + i)
        BY <1>4, <1>6, <2>2
    <3>4. ~(i > n)
        BY <1>2, <2>2
    <3>5. QED
        BY <3>2, <3>3, <3>4
  <2>3. ASSUME NEW i \in 1 .. m, ~(i <= n)
        PROVE  \E e, s : /\ IsToolEvent(e) /\ (s = Now + 1 \/ (s = Now + 2 /\ i > n))
                         /\ (i > n => s = Now + 2)
                         /\ es[i] = Stamped(e, s, Len(log) + i)
    <3>1. k = 1 /\ i > n
        BY <1>2, <1>7, <2>3
    <3>2. es[i] = Stamped(later[1], Now + 2, Len(log) + i)
        BY <1>4, <1>6, <2>3
    <3>3. QED
        BY <1>7, <3>1, <3>2
  <2>4. QED
      BY <2>1, <2>2, <2>3
<1>10. \A i \in 1 .. m : /\ IsToolEvent(es[i]) /\ es[i].id = Len(log) + i
                         /\ es[i].at = Now + 1 \/ (es[i].at = Now + 2 /\ i > n)
                         /\ i > n => es[i].at = Now + 2
  <2>1. ASSUME NEW i \in 1 .. m
        PROVE  /\ IsToolEvent(es[i]) /\ es[i].id = Len(log) + i
               /\ es[i].at = Now + 1 \/ (es[i].at = Now + 2 /\ i > n)
               /\ i > n => es[i].at = Now + 2
    <3>1. PICK e, s : /\ IsToolEvent(e) /\ (s = Now + 1 \/ (s = Now + 2 /\ i > n))
                      /\ (i > n => s = Now + 2) /\ es[i] = Stamped(e, s, Len(log) + i)
        BY <1>9
    <3>2. IsEvent(e)
        BY <3>1 DEF IsToolEvent
    <3>3. IsStamped(es[i], e, s, Len(log) + i)
        BY <3>1, <3>2, StampedIs
    <3>4. QED
        BY <3>1, <3>3 DEF IsToolEvent, IsStamped
  <2>2. QED
      BY <2>1
<1>11. \A i \in 1 .. m : Base(es[i]) /\ ~IsCall(es[i])
  <2>1. ASSUME NEW i \in 1 .. m PROVE Base(es[i]) /\ ~IsCall(es[i])
    <3>1. es[i].at \in Nat /\ es[i].id \in Nat \ {0}
        BY <1>8, <1>10
    <3>2. QED
        BY <1>10, <3>1 DEF Base, IsToolEvent, IsCall
  <2>2. QED
      BY <2>1
<1>12. IsSeq(es) /\ Len(es) = m
  <2>1. es \in [1 .. m -> Range(es)]
      BY <1>4, <1>6, <1>9 DEF Range
  <2>2. es \in Seq(Range(es))
      BY <1>8, <2>1, SeqDef
  <2>3. QED
      BY <1>8, <2>1, <2>2, SeqOverRange, LenProperties
<1> HIDE DEF m
<1>13. \A i \in 1 .. m : Now + 1 <= es[i].at /\ es[i].at <= es[m].at
  <2>1. ASSUME NEW i \in 1 .. m PROVE Now + 1 <= es[i].at /\ es[i].at <= es[m].at
    <3>1. m \in 1 .. m /\ i <= m
        BY <1>8
    <3>2. es[i].at = Now + 1 \/ (es[i].at = Now + 2 /\ i > n)
        BY <1>10
    <3>3. es[m].at = Now + 1 \/ es[m].at = Now + 2
        BY <1>10, <3>1
    <3>4. i > n => es[m].at = Now + 2
        BY <1>2, <1>8, <1>10, <3>1
    <3>5. QED
        BY <3>2, <3>3, <3>4
  <2>2. QED
      BY <2>1
<1>14. Fresh(es, Now)
    BY <1>8, <1>11, <1>12, <1>13 DEF Fresh
<1>15. QED
    BY <1>10, <1>12, <1>14

LEMMA EventsFresh ==
    ASSUME Now \in Nat, Len(log) \in Nat, NEW i \in Acts \cup Verdicts, NEW es \in EventsOf(i)
    PROVE  Fresh(es, Now)
<1>1. CASE "tool" \in DOMAIN i
  <2>1. es \in ToolOf(i)
      BY <1>1 DEF EventsOf
  <2>2. QED
      BY <2>1, ToolFresh
<1>2. CASE "tool" \notin DOMAIN i
  <2>1. es \in CallOf(i)
      BY <1>2 DEF EventsOf
  <2>2. CASE i \in Acts
    <3>1. IsEvent(i) /\ IsCall(i)
        BY <1>2, <2>2, TrialAssumption
    <3>2. QED
        BY <2>1, <3>1, CallFresh DEF IsOne, IsCall
  <2>3. CASE i \in Verdicts
    <3>1. /\ IsEvent(i) /\ i.action = "" /\ i.hyp = ""
          /\ \/ i.kind = "file_modified"
             \/ i.kind = "test_passed" /\ i.failed = 0
             \/ i.kind \in {"test_failed", "verifier_result", "run_exception"}
        BY <2>3, TrialAssumption
    <3>2. QED
        BY <2>1, <3>1, CallFresh DEF IsOne
  <2>4. QED
      BY <2>2, <2>3
<1>3. QED
    BY <1>1, <1>2

------------------------------------------------------------------------------
(* Times.  A call is recorded at a moment of its own. *)

CallsApart(q) ==
    \A i, j \in 1 .. Len(q) :
        i < j /\ IsCall(q[i]) /\ IsCall(q[j]) => q[i].at < q[j].at

Timed(q, t) ==
    /\ IsSeq(q) /\ t \in Nat /\ CallsApart(q)
    /\ \A j \in 1 .. Len(q) : Base(q[j]) /\ q[j].at <= t

LEMMA TimedMore ==
    ASSUME NEW q, NEW t, Timed(q, t), NEW es, Fresh(es, t)
    PROVE  LET p == q \o es
           IN  /\ Timed(p, Last(p).at) /\ p # <<>> /\ Prefix(p, Len(q)) = q
               /\ Len(q) \in 0 .. Len(p)
               /\ \A j \in Len(q) + 1 .. Len(p) : t + 1 <= p[j].at
<1> DEFINE p == q \o es
           m == Len(q)
           n == Len(es)
           s == es[n].at
<1>1. m \in Nat /\ n \in Nat /\ n >= 1 /\ t \in Nat /\ IsSeq(q) /\ IsSeq(es)
    BY InRange DEF Timed, Fresh
<1>2. /\ IsSeq(p) /\ Len(p) = m + n /\ Prefix(p, m) = q
      /\ \A i \in 1 .. m : p[i] = q[i]
      /\ \A i \in 1 .. n : p[m + i] = es[i]
    BY <1>1, Joined
<1> HIDE DEF p, m, n
<1>3. \A j \in 1 .. n : /\ Base(es[j]) /\ t + 1 <= es[j].at /\ es[j].at <= s
                        /\ es[j].at \in Nat
                        /\ IsCall(es[j]) => n = 1
    BY DEF Fresh, Base, n
<1>4. s \in Nat /\ t + 1 <= s
    BY <1>1, <1>3
<1>5. p[m + n] = es[n] /\ Last(p) = es[n]
    BY <1>1, <1>2 DEF Last
<1> HIDE DEF s
<1>6. \A j \in m + 1 .. m + n : \E i \in 1 .. n : j = m + i
  <2>1. \A j \in m + 1 .. m + n : j - m \in 1 .. n /\ j = m + (j - m)
      BY <1>1
  <2>2. QED
      BY <2>1
<1>7. \A j \in m + 1 .. m + n : /\ Base(p[j]) /\ t + 1 <= p[j].at /\ p[j].at <= s
                                /\ IsCall(p[j]) => n = 1
  <2>1. ASSUME NEW j \in m + 1 .. m + n
        PROVE  Base(p[j]) /\ t + 1 <= p[j].at /\ p[j].at <= s /\ (IsCall(p[j]) => n = 1)
    <3>1. PICK i \in 1 .. n : j = m + i
        BY <1>6
    <3>2. p[j] = es[i]
        BY <1>2, <3>1
    <3>3. QED
        BY <1>3, <3>2
  <2>2. QED
      BY <2>1
<1>8. \A j \in 1 .. m : Base(p[j]) /\ p[j].at <= t /\ p[j].at \in Nat
    BY <1>2 DEF Timed, Base, m
<1>9. \A j \in 1 .. Len(p) : j \in 1 .. m \/ j \in m + 1 .. m + n
    BY <1>1, <1>2
<1>10. \A j \in 1 .. Len(p) : Base(p[j]) /\ p[j].at <= s
  <2>1. ASSUME NEW j \in 1 .. m PROVE p[j].at <= s
      BY <1>1, <1>4, <1>8
  <2>2. QED
      BY <1>7, <1>8, <1>9, <2>1
<1>11. CallsApart(p)
  <2>1. SUFFICES ASSUME NEW i \in 1 .. Len(p), NEW j \in 1 .. Len(p), i < j,
                        IsCall(p[i]), IsCall(p[j])
                 PROVE  p[i].at < p[j].at
      BY DEF CallsApart
  <2>2. CASE i \in 1 .. m /\ j \in 1 .. m
    <3>1. p[i] = q[i] /\ p[j] = q[j]
        BY <1>2, <2>2
    <3>2. QED
        BY <2>1, <2>2, <3>1 DEF Timed, CallsApart, m
  <2>3. CASE i \in 1 .. m /\ j \in m + 1 .. m + n
    <3>1. p[i].at <= t /\ p[i].at \in Nat /\ t + 1 <= p[j].at /\ p[j].at \in Nat
        BY <1>7, <1>8, <2>3 DEF Base
    <3>2. QED
        BY <1>1, <3>1
  <2>4. CASE i \in m + 1 .. m + n
    <3>1. n = 1
        BY <1>7, <2>1, <2>4
    <3>2. QED
        BY <1>1, <1>2, <2>1, <2>4, <3>1
  <2>5. QED
      BY <1>9, <2>2, <2>3, <2>4
<1>12. Timed(p, s)
    BY <1>2, <1>4, <1>10, <1>11 DEF Timed
<1>13. p # <<>> /\ m \in 0 .. Len(p)
  <2>1. Len(p) # 0 /\ m \in 0 .. Len(p)
      BY <1>1, <1>2
  <2>2. QED
      BY <2>1, NoneYet
<1>14. QED
    BY <1>2, <1>5, <1>7, <1>12, <1>13 DEF p, m, s

\* Every event of a record R is dated like one of the first k of the trial q.
Dated(R, q, k) ==
    \A i \in 1 .. Len(R) : \E j \in 1 .. k :
        R[i].at = q[j].at /\ (IsCall(R[i]) => IsCall(q[j]))

CallsUpTo(R, s) == \A i \in 1 .. Len(R) : IsCall(R[i]) => R[i].at < s

\* R goes on from P, with what is dated s or later.
Longer(P, R, s) ==
    /\ Len(P) <= Len(R)
    /\ \A i \in 1 .. Len(P) : R[i] = P[i]
    /\ \A i \in Len(P) + 1 .. Len(R) : s <= R[i].at

LEMMA DatedMore ==
    ASSUME NEW q, NEW k, NEW j \in 1 .. k, NEW R, IsSeq(R), Dated(R, q, k),
           NEW x, x.at = q[j].at, IsCall(x) => IsCall(q[j])
    PROVE  Dated(Append(R, x), q, k)
<1> DEFINE n == Len(R)
           T == Append(R, x)
<1>1. /\ n \in Nat /\ Len(T) = n + 1 /\ T[n + 1] = x
      /\ \A i \in 1 .. n : T[i] = R[i]
    BY InRange, Appended
<1> HIDE DEF T, n
<1>2. \A i \in 1 .. Len(T) : i \in 1 .. n \/ i = n + 1
    BY <1>1
<1>3. \A i \in 1 .. n : \E l \in 1 .. k :
          T[i].at = q[l].at /\ (IsCall(T[i]) => IsCall(q[l]))
    BY <1>1 DEF Dated, n
<1>4. QED
    BY <1>1, <1>2, <1>3 DEF Dated, T

LEMMA ApartMore ==
    ASSUME NEW R, IsSeq(R), CallsApart(R), NEW x,
           IsCall(x) => CallsUpTo(R, x.at)
    PROVE  /\ CallsApart(Append(R, x))
           /\ ~IsCall(x) => \A s : CallsUpTo(R, s) => CallsUpTo(Append(R, x), s)
<1> DEFINE n == Len(R)
           T == Append(R, x)
<1>1. /\ n \in Nat /\ Len(T) = n + 1 /\ T[n + 1] = x
      /\ \A i \in 1 .. n : T[i] = R[i]
    BY InRange, Appended
<1> HIDE DEF T, n
<1>2. \A i \in 1 .. Len(T) : i \in 1 .. n \/ i = n + 1
    BY <1>1
<1>3. CallsApart(T)
  <2>1. SUFFICES ASSUME NEW i \in 1 .. Len(T), NEW j \in 1 .. Len(T), i < j,
                        IsCall(T[i]), IsCall(T[j])
                 PROVE  T[i].at < T[j].at
      BY DEF CallsApart
  <2>2. i \in 1 .. n
      BY <1>1, <2>1
  <2>3. CASE j \in 1 .. n
      BY <1>1, <2>1, <2>2, <2>3 DEF CallsApart, n
  <2>4. CASE j = n + 1
      BY <1>1, <2>1, <2>2, <2>4 DEF CallsUpTo, n
  <2>5. QED
      BY <1>2, <2>3, <2>4
<1>4. ASSUME ~IsCall(x), NEW s, CallsUpTo(R, s) PROVE CallsUpTo(T, s)
    BY <1>1, <1>2, <1>4 DEF CallsUpTo, n
<1>5. QED
    BY <1>3, <1>4 DEF T

LEMMA LongerMore ==
    ASSUME NEW P, IsSeq(P), NEW R, IsSeq(R), NEW s, Longer(P, R, s), NEW x, s <= x.at
    PROVE  Longer(P, Append(R, x), s)
<1> DEFINE m == Len(P)
           n == Len(R)
           T == Append(R, x)
<1>1. /\ m \in Nat /\ n \in Nat /\ Len(T) = n + 1 /\ T[n + 1] = x
      /\ \A i \in 1 .. n : T[i] = R[i]
    BY InRange, Appended
<1> HIDE DEF T, m, n
<1>2. m <= n /\ (\A i \in 1 .. m : R[i] = P[i]) /\ \A i \in m + 1 .. n : s <= R[i].at
    BY DEF Longer, m, n
<1>3. m <= Len(T) /\ \A i \in 1 .. m : T[i] = P[i]
    BY <1>1, <1>2
<1>4. \A i \in m + 1 .. Len(T) : s <= T[i].at
  <2>1. ASSUME NEW i \in m + 1 .. Len(T) PROVE s <= T[i].at
    <3>1. (i \in 1 .. n /\ i \in m + 1 .. n) \/ i = n + 1
        BY <1>1, <1>2
    <3>2. QED
        BY <1>1, <1>2, <3>1
  <2>2. QED
      BY <2>1
<1>5. QED
    BY <1>3, <1>4 DEF Longer, m, T

LEMMA GrowDated ==
    ASSUME NEW b \in BOOLEAN, NEW q, NEW n \in Nat, NEW k \in 1 .. n,
           NEW p, Sound(b, p), NEW x, NEW y, Grows(b, p, q[k], x, y),
           \A i, j \in 1 .. n :
               i < j /\ IsCall(q[i]) /\ IsCall(q[j]) => q[i].at < q[j].at,
           Dated(Rec(b, p), q, k - 1), CallsApart(Rec(b, p))
    PROVE  LET T == Rec(b, Append(p, q[k]))
           IN  Dated(T, q, k) /\ CallsApart(T)
<1> DEFINE R == Rec(b, p)
           T == Rec(b, Append(p, q[k]))
           e == q[k]
<1>1. IsSeq(R) /\ Dated(R, q, k) /\ CallsApart(R)
  <2>1. IsSeq(R)
      BY DEF Sound
  <2>2. \A j \in 1 .. k - 1 : j \in 1 .. k
      OBVIOUS
  <2>3. Dated(R, q, k)
      BY <2>2 DEF Dated
  <2>4. QED
      BY <2>1, <2>3
<1>2. k \in 1 .. k
    OBVIOUS
<1>3. x.at = e.at /\ (IsCall(x) <=> IsCall(e))
    BY LikeSays DEF Grows, Like
<1>4. IsCall(e) => CallsUpTo(R, e.at)
  <2>1. SUFFICES ASSUME IsCall(e), NEW i \in 1 .. Len(R), IsCall(R[i])
                 PROVE  R[i].at < e.at
      BY DEF CallsUpTo
  <2>2. PICK j \in 1 .. k - 1 : R[i].at = q[j].at /\ IsCall(q[j])
      BY <2>1 DEF Dated
  <2>3. j \in 1 .. n /\ k \in 1 .. n /\ j < k
      OBVIOUS
  <2>4. QED
      BY <2>1, <2>2, <2>3
<1>5. /\ IsSeq(Append(R, x)) /\ Dated(Append(R, x), q, k) /\ CallsApart(Append(R, x))
  <2>1. IsSeq(Append(R, x))
      BY <1>1, Appended
  <2>2. Dated(Append(R, x), q, k)
      BY <1>1, <1>2, <1>3, DatedMore
  <2>3. CallsApart(Append(R, x))
      BY <1>1, <1>3, <1>4, ApartMore
  <2>4. QED
      BY <2>1, <2>2, <2>3
<1>6. CASE IsDerived(y, e)
  <2>1. y.at = e.at /\ ~IsCall(y)
      BY <1>6, DerivedSays DEF IsDerived
  <2>2. /\ IsSeq(Append(R, y)) /\ Dated(Append(R, y), q, k) /\ CallsApart(Append(R, y))
        /\ IsCall(e) => CallsUpTo(Append(R, y), e.at)
    <3>1. IsSeq(Append(R, y))
        BY <1>1, Appended
    <3>2. Dated(Append(R, y), q, k)
        BY <1>1, <1>2, <2>1, DatedMore
    <3>3. CallsApart(Append(R, y)) /\ \A s : CallsUpTo(R, s) => CallsUpTo(Append(R, y), s)
        BY <1>1, <2>1, ApartMore
    <3>4. QED
        BY <1>4, <3>1, <3>2, <3>3
  <2>3. LET Z == Append(Append(R, y), x) IN Dated(Z, q, k) /\ CallsApart(Z)
    <3> DEFINE Y == Append(R, y)
    <3> HIDE DEF Y
    <3>1. IsSeq(Y) /\ Dated(Y, q, k) /\ CallsApart(Y) /\ (IsCall(e) => CallsUpTo(Y, e.at))
        BY <2>2 DEF Y
    <3>2. Dated(Append(Y, x), q, k)
        BY <1>2, <1>3, <3>1, DatedMore
    <3>3. CallsApart(Append(Y, x))
        BY <1>3, <3>1, ApartMore
    <3>4. QED
        BY <3>2, <3>3 DEF Y
  <2>4. LET Z == Append(Append(R, x), y) IN Dated(Z, q, k) /\ CallsApart(Z)
    <3> DEFINE Y == Append(R, x)
    <3> HIDE DEF Y
    <3>1. IsSeq(Y) /\ Dated(Y, q, k) /\ CallsApart(Y)
        BY <1>5 DEF Y
    <3>2. Dated(Append(Y, y), q, k)
        BY <1>2, <2>1, <3>1, DatedMore
    <3>3. CallsApart(Append(Y, y))
        BY <2>1, <3>1, ApartMore
    <3>4. QED
        BY <3>2, <3>3 DEF Y
  <2>5. T = Append(R, x) \/ T = Append(Append(R, y), x) \/ T = Append(Append(R, x), y)
      BY DEF Grows
  <2> HIDE DEF T, R, e
  <2>6. QED
      BY <1>5, <2>3, <2>4, <2>5 DEF T, e
<1>7. CASE ~IsDerived(y, e)
  <2>1. T = Append(R, x)
      BY <1>7 DEF Grows
  <2>2. QED
      BY <1>5, <2>1
<1>8. QED
    BY <1>6, <1>7

LEMMA GrowLonger ==
    ASSUME NEW b \in BOOLEAN, NEW p, Sound(b, p), NEW e, NEW x, NEW y, Grows(b, p, e, x, y),
           NEW P, IsSeq(P), NEW s, s <= e.at, Longer(P, Rec(b, p), s)
    PROVE  Longer(P, Rec(b, Append(p, e)), s)
<1> DEFINE R == Rec(b, p)
           T == Rec(b, Append(p, e))
<1>1. IsSeq(R) /\ x.at = e.at
    BY DEF Sound, Grows, Like
<1>2. IsSeq(Append(R, x)) /\ Longer(P, Append(R, x), s)
    BY <1>1, LongerMore, Appended
<1>3. CASE IsDerived(y, e)
  <2>1. y.at = e.at
      BY <1>3 DEF IsDerived
  <2>2. IsSeq(Append(R, y)) /\ Longer(P, Append(R, y), s)
      BY <1>1, <2>1, LongerMore, Appended
  <2>3. Longer(P, Append(Append(R, y), x), s)
    <3> DEFINE Y == Append(R, y)
    <3> HIDE DEF Y
    <3>1. IsSeq(Y) /\ Longer(P, Y, s)
        BY <2>2 DEF Y
    <3>2. Longer(P, Append(Y, x), s)
        BY <1>1, <3>1, LongerMore
    <3>3. QED
        BY <3>2 DEF Y
  <2>4. Longer(P, Append(Append(R, x), y), s)
    <3> DEFINE Y == Append(R, x)
    <3> HIDE DEF Y
    <3>1. IsSeq(Y) /\ Longer(P, Y, s)
        BY <1>2 DEF Y
    <3>2. Longer(P, Append(Y, y), s)
        BY <2>1, <3>1, LongerMore
    <3>3. QED
        BY <3>2 DEF Y
  <2>5. T = Append(R, x) \/ T = Append(Append(R, y), x) \/ T = Append(Append(R, x), y)
      BY DEF Grows
  <2>6. QED
      BY <1>2, <2>3, <2>4, <2>5
<1>4. CASE ~IsDerived(y, e)
  <2>1. T = Append(R, x)
      BY <1>4 DEF Grows
  <2>2. QED
      BY <1>2, <2>1
<1>5. QED
    BY <1>3, <1>4

\* The record of a trial is dated as the trial, and each call in it has a
\* moment of its own.
LEMMA RecordDated ==
    ASSUME NEW b \in BOOLEAN, NEW q, NEW t, Timed(q, t)
    PROVE  Sound(b, q) /\ Dated(Rec(b, q), q, Len(q)) /\ CallsApart(Rec(b, q))
<1> DEFINE n == Len(q)
           Good(k) == LET R == Rec(b, Prefix(q, k)) IN Dated(R, q, k) /\ CallsApart(R)
           S == {k \in 0 .. n : Good(k)}
<1>1. n \in Nat /\ 0 \in 0 .. n /\ n \in 0 .. n /\ IsSeq(q)
    BY InRange DEF Timed
<1>2. Prefix(q, 0) = <<>> /\ Prefix(q, n) = q
    BY <1>1, PrefixSteps
<1>3. \A i \in 1 .. n : IsEvent(q[i])
    BY DEF Timed, Base
<1>4. \A k \in 0 .. n : Sound(b, Prefix(q, k))
    BY <1>1, <1>3, AllSound
<1>5. 0 \in S
  <2>1. Rec(b, Prefix(q, 0)) = <<>>
      BY <1>2, SoundNone
  <2>2. \A i \in 1 .. Len(<<>>) : FALSE
      BY NoneYet
  <2>3. Dated(<<>>, q, 0) /\ CallsApart(<<>>)
      BY <2>2 DEF Dated, CallsApart
  <2>4. QED
      BY <1>1, <2>1, <2>3
<1>6. ASSUME NEW k \in 1 .. n, k - 1 \in S PROVE k \in S
  <2> DEFINE p == Prefix(q, k - 1)
  <2>1. Prefix(q, k) = Append(p, q[k]) /\ k - 1 \in 0 .. n /\ k \in 0 .. n
      BY <1>1, PrefixSteps
  <2>2. Sound(b, p) /\ IsEvent(q[k])
      BY <1>3, <1>4, <2>1
  <2>3. Dated(Rec(b, p), q, k - 1) /\ CallsApart(Rec(b, p))
      BY <1>6
  <2> HIDE DEF p
  <2>4. PICK x, y : Grows(b, p, q[k], x, y)
      BY <2>2, RecordGrows
  <2>5. \A i, j \in 1 .. n :
            i < j /\ IsCall(q[i]) /\ IsCall(q[j]) => q[i].at < q[j].at
      BY DEF Timed, CallsApart
  <2> HIDE DEF n
  <2>6. LET T == Rec(b, Append(p, q[k])) IN Dated(T, q, k) /\ CallsApart(T)
      BY <1>1, <2>2, <2>3, <2>4, <2>5, GrowDated
  <2>7. Good(k)
      BY <2>1, <2>6
  <2>8. QED
      BY <2>1, <2>7
<1> HIDE DEF S
<1>7. 0 .. n \subseteq S
    BY <1>1, <1>5, <1>6, UpTo
<1>8. n \in S
    BY <1>1, <1>7
<1>9. Good(n)
    BY <1>8 DEF S
<1>10. QED
    BY <1>1, <1>2, <1>4, <1>9

\* What happens later only adds to the record, with later dates.
LEMMA RecordLonger ==
    ASSUME NEW b \in BOOLEAN, NEW q, IsSeq(q), \A i \in 1 .. Len(q) : IsEvent(q[i]),
           NEW m \in 0 .. Len(q), NEW s, \A i \in m + 1 .. Len(q) : s <= q[i].at
    PROVE  Longer(Rec(b, Prefix(q, m)), Rec(b, q), s)
<1> DEFINE n == Len(q)
           P == Rec(b, Prefix(q, m))
           Good(k) == Longer(P, Rec(b, Prefix(q, k)), s)
           S == {k \in 0 .. n : k >= m => Good(k)}
<1>1. n \in Nat /\ 0 \in 0 .. n /\ n \in 0 .. n /\ m \in Nat /\ n >= m
    BY InRange
<1>2. Prefix(q, n) = q
    BY PrefixSteps
<1>3. \A k \in 0 .. n : Sound(b, Prefix(q, k))
    BY AllSound
<1>4. IsSeq(P)
    BY <1>3 DEF Sound
<1>5. Good(m)
  <2>1. Len(P) \in Nat
      BY <1>4, InRange
  <2>2. \A i \in Len(P) + 1 .. Len(P) : FALSE
      BY <2>1
  <2>3. Len(P) <= Len(P)
      BY <2>1
  <2>4. QED
      BY <2>2, <2>3 DEF Longer
<1> HIDE DEF P
<1>6. ASSUME NEW k \in 1 .. n, k - 1 \in S PROVE k \in S
  <2> DEFINE p == Prefix(q, k - 1)
  <2>1. Prefix(q, k) = Append(p, q[k]) /\ k - 1 \in 0 .. n /\ k \in 0 .. n
      BY <1>1, PrefixSteps
  <2>2. CASE k <= m
    <3>1. k >= m => k = m
        BY <1>1, <2>2
    <3>2. QED
        BY <1>5, <2>1, <3>1
  <2>3. CASE ~(k <= m)
    <3>1. k - 1 >= m /\ k \in m + 1 .. n
        BY <1>1, <2>3
    <3>2. Sound(b, p) /\ IsEvent(q[k]) /\ s <= q[k].at
        BY <1>3, <2>1, <3>1
    <3>3. Longer(P, Rec(b, p), s)
        BY <1>6, <3>1
    <3> HIDE DEF p
    <3>4. PICK x, y : Grows(b, p, q[k], x, y)
        BY <3>2, RecordGrows
    <3>5. Longer(P, Rec(b, Append(p, q[k])), s)
        BY <1>4, <3>2, <3>3, <3>4, GrowLonger
    <3>6. Good(k)
        BY <2>1, <3>5
    <3>7. QED
        BY <2>1, <3>6
  <2>4. QED
      BY <2>2, <2>3
<1>7. 0 \in S
  <2>1. 0 >= m => m = 0
      BY <1>1
  <2>2. QED
      BY <1>1, <1>5, <2>1
<1> HIDE DEF S
<1>8. 0 .. n \subseteq S
    BY <1>1, <1>6, <1>7, UpTo
<1>9. n \in S
    BY <1>1, <1>8
<1>10. Good(n)
    BY <1>1, <1>9 DEF S
<1>11. QED
    BY <1>2, <1>10 DEF P

------------------------------------------------------------------------------
(* What the record is, in every state *)

OInv ==
    /\ before \in BOOLEAN /\ Timed(log, Now)
    /\ record = Rec(before, log) /\ offline = ReduceState(record)

\* One more moment of a trial.
LEMMA MomentRecorded ==
    ASSUME OInv, NEW i \in Acts \cup Verdicts, NEW es \in EventsOf(i),
           NEW q, q = log \o es
    PROVE  /\ Timed(q, Last(q).at) /\ q # <<>> /\ Events(q) = Rec(before, q)
           /\ Longer(record, Rec(before, q), Now + 1)
<1>1. /\ before \in BOOLEAN /\ Timed(log, Now) /\ IsSeq(log) /\ Now \in Nat
      /\ Len(log) \in Nat
    BY InRange DEF OInv, Timed
<1>2. Fresh(es, Now)
    BY <1>1, EventsFresh
<1> DEFINE m == Len(log)
<1>3. /\ Timed(q, Last(q).at) /\ q # <<>> /\ Prefix(q, m) = log
      /\ m \in 0 .. Len(q) /\ \A j \in m + 1 .. Len(q) : Now + 1 <= q[j].at
    BY <1>1, <1>2, TimedMore
<1>4. IsSeq(q) /\ \A j \in 1 .. Len(q) : IsEvent(q[j])
    BY <1>3 DEF Timed, Base
<1>5. Sound(before, q)
    BY <1>1, <1>3, RecordDated
<1>6. Events(q) = Rec(before, q)
    BY <1>1, <1>5, EventsAre
<1> HIDE DEF m
<1>7. Longer(Rec(before, Prefix(q, m)), Rec(before, q), Now + 1)
    BY <1>1, <1>3, <1>4, RecordLonger
<1>8. QED
    BY <1>3, <1>6, <1>7 DEF OInv

LEMMA OInvNext == OInv /\ [Next]_vars => OInv'
<1> SUFFICES ASSUME OInv, [Next]_vars PROVE OInv'
    OBVIOUS
<1>1. CASE UNCHANGED vars
    BY <1>1 DEF OInv, vars, Now
<1>2. CASE Next
  <2>1. PICK i \in Acts \cup Verdicts : Happen(i)
      BY <1>2 DEF Next
  <2>2. PICK es \in EventsOf(i) : log' = log \o es
      BY <2>1 DEF Happen
  <2>3. record' = Events(log') /\ offline' = ReduceState(record') /\ before' = before
      BY <2>1 DEF Happen
  <2>4. Timed(log', Last(log').at) /\ log' # <<>> /\ Events(log') = Rec(before, log')
      BY <2>2, MomentRecorded
  <2>5. Now' = Last(log').at
      BY <2>4 DEF Now
  <2>6. QED
      BY <2>3, <2>4, <2>5 DEF OInv
<1>3. QED
    BY <1>1, <1>2

LEMMA OInvInit == Init => OInv
<1> SUFFICES ASSUME Init PROVE OInv
    OBVIOUS
<1>1. log = <<>> /\ Now = 0
    BY DEF Init, Now
<1>2. \A i \in 1 .. Len(<<>>) : FALSE
    BY NoneYet
<1>3. Timed(<<>>, 0)
    BY <1>2, NoneYet DEF Timed, CallsApart
<1>4. Rec(before, <<>>) = <<>>
    BY SoundNone
<1>5. QED
    BY <1>1, <1>3, <1>4 DEF Init, OInv

\* What the extractor writes (main of extract_episode_outcomes.py) is, for every
\* trial, the record that the steps of Rec make of its log, and the reduced state
\* is that of this record; the log is dated and its calls are at moments apart.
THEOREM RecordIsFold == Spec => []OInv
<1>1. QED
    BY OInvInit, OInvNext, PTL DEF Spec

------------------------------------------------------------------------------
(* The past is settled *)

\* What is dated before s, of a record that goes on from P with later dates,
\* is P.
LEMMA AllowedIs ==
    ASSUME NEW P, IsSeq(P), NEW R, IsSeq(R), NEW s \in Nat, Longer(P, R, s),
           \A i \in 1 .. Len(P) : P[i].at < s,
           \A i \in 1 .. Len(R) : R[i].at \in Nat
    PROVE  Allowed(R, s) = P
<1> DEFINE m == Len(P)
           n == Len(R)
           A == {i \in DOMAIN R : R[i].at < s}
<1>1. /\ m \in Nat /\ n \in Nat /\ m <= n /\ DOMAIN R = 1 .. n
    BY InRange DEF Longer
<1>2. (\A i \in 1 .. m : R[i] = P[i]) /\ \A i \in m + 1 .. n : s <= R[i].at
    BY DEF Longer
<1>3. A = 1 .. m
  <2>1. ASSUME NEW i \in 1 .. m PROVE i \in A
    <3>1. i \in 1 .. n
        BY <1>1
    <3>2. QED
        BY <1>1, <1>2, <3>1
  <2>2. ASSUME NEW i \in 1 .. n, i \notin 1 .. m PROVE i \notin A
    <3>1. i \in m + 1 .. n
        BY <1>1, <2>2
    <3>2. s <= R[i].at /\ R[i].at \in Nat
        BY <1>2, <3>1
    <3>3. ~(R[i].at < s)
        BY <3>2
    <3>4. QED
        BY <3>3
  <2>3. A \subseteq 1 .. n
      BY <1>1
  <2> HIDE DEF A, m, n
  <2>4. QED
      BY <2>1, <2>2, <2>3
<1>4. Cardinality(1 .. m) = m
  <2>1. m \in Int /\ 1 \in Int
      BY <1>1
  <2> HIDE DEF m
  <2>2. Cardinality(1 .. m) = IF 1 > m THEN 0 ELSE m - 1 + 1
      BY <2>1, FS_Interval
  <2>3. QED
      BY <1>1, <2>2
<1>5. Allowed(R, s) = Prefix(R, m)
    BY <1>3, <1>4 DEF Allowed, Prefix
<1>6. Prefix(R, m) = P
  <2> DEFINE p == Prefix(R, m)
  <2>1. m \in 0 .. n
      BY <1>1
  <2>2. IsSeq(p) /\ Len(p) = m /\ \A i \in 1 .. m : p[i] = R[i]
      BY <2>1, PrefixSteps
  <2> HIDE DEF p
  <2>3. p \in [1 .. m -> Range(p)] /\ P \in [1 .. m -> Range(P)]
      BY <2>2, InRange
  <2> HIDE DEF m
  <2>4. \A i \in 1 .. m : p[i] = P[i]
      BY <1>2, <2>2
  <2>5. p = [i \in 1 .. m |-> p[i]] /\ P = [i \in 1 .. m |-> P[i]]
      BY <2>3
  <2>6. p = P
      BY <2>4, <2>5
  <2>7. QED
      BY <2>6 DEF p
<1>7. QED
    BY <1>5, <1>6

\* The dates of a record are those of the trial.
LEMMA RecordTimes ==
    ASSUME NEW b \in BOOLEAN, NEW q, NEW t, Timed(q, t)
    PROVE  LET R == Rec(b, q)
           IN  IsSeq(R) /\ \A i \in 1 .. Len(R) : R[i].at \in Nat /\ R[i].at <= t
<1> DEFINE R == Rec(b, q)
<1>1. IsSeq(R) /\ Dated(R, q, Len(q))
    BY RecordDated DEF Sound
<1> HIDE DEF R
<1>2. \A i \in 1 .. Len(R) : \E j \in 1 .. Len(q) : R[i].at = q[j].at
    BY <1>1 DEF Dated
<1>3. \A j \in 1 .. Len(q) : q[j].at \in Nat /\ q[j].at <= t
    BY DEF Timed, Base
<1>4. QED
    BY <1>1, <1>2, <1>3 DEF R

\* A decision is replayed with the state it was made in: of the longer record,
\* what is dated before it reduces to what the record reduced to then.
THEOREM PastIsSettledHolds == Spec => PastIsSettled
<1>1. OInv /\ [Next]_vars => [ReduceState(Allowed(record', Now + 1)) = offline]_vars
  <2> SUFFICES ASSUME OInv, Next
               PROVE  ReduceState(Allowed(record', Now + 1)) = offline
      OBVIOUS
  <2>1. PICK i \in Acts \cup Verdicts : Happen(i)
      BY DEF Next
  <2>2. PICK es \in EventsOf(i) : log' = log \o es
      BY <2>1 DEF Happen
  <2>3. /\ Timed(log', Last(log').at) /\ record' = Rec(before, log')
        /\ Longer(record, record', Now + 1)
    <3>1. record' = Events(log')
        BY <2>1 DEF Happen
    <3>2. /\ Timed(log', Last(log').at) /\ Events(log') = Rec(before, log')
          /\ Longer(record, Rec(before, log'), Now + 1)
        BY <2>2, MomentRecorded
    <3>3. QED
        BY <3>1, <3>2
  <2>4. before \in BOOLEAN /\ Timed(log, Now) /\ Now \in Nat /\ record = Rec(before, log)
      BY DEF OInv, Timed
  <2>5. IsSeq(record') /\ \A j \in 1 .. Len(record') : record'[j].at \in Nat
      BY <2>3, <2>4, RecordTimes
  <2>6. IsSeq(record) /\ \A j \in 1 .. Len(record) : record[j].at \in Nat /\ record[j].at <= Now
      BY <2>4, RecordTimes
  <2>7. Now + 1 \in Nat /\ \A j \in 1 .. Len(record) : record[j].at < Now + 1
      BY <2>4, <2>6
  <2>8. Allowed(record', Now + 1) = record
      BY <2>3, <2>5, <2>6, <2>7, AllowedIs
  <2>9. QED
      BY <2>8 DEF OInv
<1>2. QED
    BY <1>1, RecordIsFold, PTL DEF Spec, PastIsSettled

------------------------------------------------------------------------------
(* One stretch, one derived event *)

\* Two derived no_progress events have a sign of progress between them: the flag
\* of derive_no_progress_events is cleared by progress alone.
THEOREM OncePerStretchHolds == Spec => []OncePerStretch
<1>1. OInv => OncePerStretch
  <2> SUFFICES ASSUME OInv PROVE OncePerStretch
      OBVIOUS
  <2>1. /\ before \in BOOLEAN /\ IsSeq(log) /\ record = Rec(before, log)
        /\ \A i \in 1 .. Len(log) : IsEvent(log[i]) /\ log[i].kind # "no_progress"
      BY DEF OInv, Timed, Base
  <2>2. Once(record)
      BY <2>1, AlwaysOnce
  <2>3. QED
      BY <2>2 DEF Once, DerivedAt, OncePerStretch
<1>2. QED
    BY <1>1, RecordIsFold, PTL

------------------------------------------------------------------------------
(* Windows *)

LEMMA MinOf ==
    ASSUME NEW S \in SUBSET Nat, S # {}
    PROVE  Min(S) \in S /\ \A x \in S : Min(S) <= x
<1>1. \E m \in S : \A n \in S : m <= n
    BY LeastNumber
<1>2. QED
    BY <1>1, Zenon DEF Min

LEMMA WindowsPart ==
    ASSUME NEW R, IsSeq(R), CallsApart(R), \A i \in 1 .. Len(R) : R[i].at \in Nat,
           NEW i \in DOMAIN R, \E c \in CallsIn(R) : R[c].at <= R[i].at
    PROVE  Cardinality({c \in CallsIn(R) : i \in Window(R, c)}) = 1
<1> DEFINE n == Len(R)
           calls == CallsIn(R)
           D == {c \in calls : R[c].at <= R[i].at}
           m == Max(D)
           W == {c \in calls : i \in Window(R, c)}
           Later(c) == {d \in calls : d > c}
<1>1. n \in Nat /\ DOMAIN R = 1 .. n
    BY InRange
<1>2. calls \subseteq 1 .. n /\ \A c \in calls : IsCall(R[c]) /\ R[c].at \in Nat
    BY <1>1 DEF CallsIn
<1>3. i \in 1 .. n /\ R[i].at \in Nat
    BY <1>1
<1>4. \A c, d \in calls : c < d => R[c].at < R[d].at
    BY <1>2 DEF CallsApart
<1>5. \A c : i \in Window(R, c) <=>
          R[c].at <= R[i].at /\ (Later(c) # {} => R[i].at < R[Min(Later(c))].at)
    BY DEF Window
<1>6. \A c \in calls : Later(c) # {} =>
          Min(Later(c)) \in calls /\ Min(Later(c)) > c /\ \A d \in Later(c) : Min(Later(c)) <= d
  <2> SUFFICES ASSUME NEW c \in calls, Later(c) # {}
               PROVE  Min(Later(c)) \in Later(c) /\ \A d \in Later(c) : Min(Later(c)) <= d
      OBVIOUS
  <2>1. Later(c) \in SUBSET Nat
      BY <1>1, <1>2
  <2>2. QED
      BY <2>1, MinOf
<1>7. D \in SUBSET (1 .. n) /\ D # {}
    BY <1>2
<1>8. m \in D /\ \A c \in D : c <= m
    BY <1>1, <1>7, MaxOf
<1> HIDE DEF m, calls
<1>9. m \in W
  <2>1. m \in calls /\ R[m].at <= R[i].at
      BY <1>8
  <2>2. ASSUME Later(m) # {} PROVE R[i].at < R[Min(Later(m))].at
    <3> DEFINE d == Min(Later(m))
    <3>1. d \in calls /\ d > m
        BY <1>6, <2>1, <2>2
    <3> HIDE DEF d
    <3>2. d \in 1 .. n /\ m \in 1 .. n /\ R[d].at \in Nat
        BY <1>2, <2>1, <3>1
    <3>3. d \notin D
        BY <1>1, <1>8, <3>1, <3>2
    <3>4. ~(R[d].at <= R[i].at)
        BY <3>1, <3>3
    <3>5. R[i].at < R[d].at
        BY <1>3, <3>2, <3>4
    <3>6. QED
        BY <3>5 DEF d
  <2>3. QED
      BY <1>5, <2>1, <2>2
<1>10. ASSUME NEW c \in W PROVE c = m
  <2>1. c \in calls /\ R[c].at <= R[i].at /\ m \in calls /\ R[m].at <= R[i].at
      BY <1>5, <1>8
  <2>2. c \in D /\ c <= m /\ c \in 1 .. n /\ m \in 1 .. n
      BY <1>2, <1>8, <2>1
  <2>3. ASSUME c < m PROVE FALSE
    <3> DEFINE d == Min(Later(c))
    <3>1. m \in Later(c)
        BY <2>1, <2>3
    <3>2. d \in calls /\ d > c /\ d <= m
        BY <1>6, <2>1, <3>1
    <3>3. R[i].at < R[d].at
        BY <1>5, <3>1
    <3> HIDE DEF d
    <3>4. d \in 1 .. n /\ R[d].at \in Nat /\ R[m].at \in Nat
        BY <1>2, <2>1, <3>2
    <3>5. d < m \/ d = m
        BY <1>1, <2>2, <3>2, <3>4
    <3>6. R[d].at <= R[m].at
        BY <1>4, <2>1, <3>2, <3>4, <3>5
    <3>7. QED
        BY <1>3, <2>1, <3>3, <3>4, <3>6
  <2>4. QED
      BY <1>1, <2>2, <2>3
<1>11. W = {m}
    BY <1>9, <1>10
<1> HIDE DEF W
<1>12. Cardinality(W) = 1
    BY <1>11, FS_Singleton
<1>13. QED
    BY <1>12 DEF W, calls

\* The windows of the calls share no event, and leave out none that comes after
\* the first call.
THEOREM InOneWindowHolds == Spec => []InOneWindow
<1>1. OInv => InOneWindow
  <2> SUFFICES ASSUME OInv PROVE InOneWindow
      OBVIOUS
  <2>1. before \in BOOLEAN /\ Timed(log, Now) /\ record = Rec(before, log)
      BY DEF OInv
  <2>2. IsSeq(record) /\ \A i \in 1 .. Len(record) : record[i].at \in Nat
      BY <2>1, RecordTimes
  <2>3. CallsApart(record)
      BY <2>1, RecordDated
  <2>4. QED
      BY <2>2, <2>3, WindowsPart DEF InOneWindow
<1>2. QED
    BY <1>1, RecordIsFold, PTL

------------------------------------------------------------------------------
(* Counting *)

Bump(n, P) == IF P THEN n + 1 ELSE n

\* What is counted of a record.
Says(tag, e) ==
    \/ tag = "call" /\ IsCall(e)
    \/ tag = "stall" /\ e.kind = "execution_stall"
    \/ tag = "file" /\ IsDelivery(e)
    \/ tag = "test" /\ e.kind = "test_run"
    \/ tag = "replan" /\ e.action = "freeze_or_replan"
    \/ tag = "apply" /\ FromRule(e, ApplyRule)
    \/ tag = "recover" /\ FromRule(e, ApplyRecoveryRule)
    \/ tag = "pressure" /\ Pressure(e)
    \/ tag = "candidate" /\ IsCandidate(e)
    \/ tag = "signal" /\ Signal(e)
    \/ /\ tag \in {"strong", "exploration", "implementation", "validation", "delivery"}
       /\ e.tier = tag

Marks(tag, q) == {i \in DOMAIN q : Says(tag, q[i])}
Tally(tag, q) == Cardinality(Marks(tag, q))

LEMMA MarksMore ==
    ASSUME NEW q, IsSeq(q), NEW x, NEW tag
    PROVE  /\ Marks(tag, q) \subseteq 1 .. Len(q)
           /\ Says(tag, x) => Marks(tag, Append(q, x)) = Marks(tag, q) \cup {Len(q) + 1}
           /\ ~Says(tag, x) => Marks(tag, Append(q, x)) = Marks(tag, q)
<1> DEFINE n == Len(q)
           T == Append(q, x)
<1>1. /\ n \in Nat /\ DOMAIN q = 1 .. n /\ IsSeq(T) /\ Len(T) = n + 1 /\ T[n + 1] = x
      /\ \A i \in 1 .. n : T[i] = q[i]
    BY InRange, Appended
<1> HIDE DEF T, n
<1>2. DOMAIN T = 1 .. n + 1
    BY <1>1, InRange
<1>3. Marks(tag, q) = {i \in 1 .. n : Says(tag, q[i])}
      /\ Marks(tag, T) = {i \in 1 .. n + 1 : Says(tag, T[i])}
    BY <1>1, <1>2 DEF Marks
<1>4. \A i \in 1 .. n + 1 : i \in 1 .. n \/ i = n + 1
    BY <1>1
<1>5. n + 1 \in 1 .. n + 1 /\ n + 1 \notin 1 .. n /\ 1 .. n \subseteq 1 .. n + 1
    BY <1>1
<1>6. \A i \in 1 .. n : Says(tag, T[i]) <=> Says(tag, q[i])
    BY <1>1
<1>7. Says(tag, T[n + 1]) <=> Says(tag, x)
    BY <1>1
<1>8. Marks(tag, q) \subseteq 1 .. n
    BY <1>3
<1>9. ASSUME Says(tag, x) PROVE Marks(tag, T) = Marks(tag, q) \cup {n + 1}
    BY <1>3, <1>4, <1>5, <1>6, <1>7, <1>9
<1>10. ASSUME ~Says(tag, x) PROVE Marks(tag, T) = Marks(tag, q)
    BY <1>3, <1>4, <1>5, <1>6, <1>7, <1>10
<1>11. QED
    BY <1>8, <1>9, <1>10 DEF T, n

LEMMA TallyMore ==
    ASSUME NEW q, IsSeq(q), NEW x, NEW tag
    PROVE  /\ Tally(tag, q) \in Nat
           /\ Tally(tag, Append(q, x)) = Bump(Tally(tag, q), Says(tag, x))
<1> DEFINE n == Len(q)
           A == Marks(tag, q)
<1>1. n \in Nat /\ A \subseteq 1 .. n
    BY InRange, MarksMore
<1>2. IsFiniteSet(A) /\ n + 1 \notin A
  <2>1. IsFiniteSet(1 .. n)
      BY <1>1, FS_Interval
  <2>2. n + 1 \notin 1 .. n
      BY <1>1
  <2>3. QED
      BY <1>1, <2>1, <2>2, FS_Subset
<1> HIDE DEF A
<1>3. Cardinality(A) \in Nat /\ Cardinality(A \cup {n + 1}) = Cardinality(A) + 1
    BY <1>2, FS_CardinalityType, FS_AddElement
<1> HIDE DEF n
<1>4. CASE Says(tag, x)
  <2>1. Marks(tag, Append(q, x)) = A \cup {n + 1}
      BY <1>4, MarksMore DEF A, n
  <2>2. QED
      BY <1>3, <1>4, <2>1 DEF Tally, Bump, A
<1>5. CASE ~Says(tag, x)
  <2>1. Marks(tag, Append(q, x)) = A
      BY <1>5, MarksMore DEF A
  <2>2. Cardinality(A) + 0 = Cardinality(A)
      BY <1>3
  <2>3. QED
      BY <1>3, <1>5, <2>1, <2>2 DEF Tally, Bump, A
<1>6. QED
    BY <1>4, <1>5

LEMMA TallyNone == ASSUME NEW tag PROVE Marks(tag, <<>>) = {} /\ Tally(tag, <<>>) = 0
<1>1. DOMAIN <<>> = {}
    OBVIOUS
<1>2. Marks(tag, <<>>) = {}
    BY <1>1 DEF Marks
<1>3. QED
    BY <1>2, FS_EmptySet DEF Tally

------------------------------------------------------------------------------
(* The last one *)

LEMMA LastIs ==
    ASSUME NEW n \in Nat, NEW S \in SUBSET (1 .. n)
    PROVE  /\ LastOf(S) \in 0 .. n /\ (S # {} => LastOf(S) \in S /\ LastOf(S) # 0)
           /\ \A i \in S : i <= LastOf(S)
           /\ S = {} => LastOf(S) = 0
           /\ LastOf(S \cup {n + 1}) = n + 1
<1>1. ASSUME NEW k \in Nat, NEW A \in SUBSET (1 .. k), A # {}
      PROVE  LastOf(A) \in A /\ \A i \in A : i <= LastOf(A)
  <2>1. \E i \in A : \A j \in A : j <= i
      BY <1>1, MaxOf
  <2>2. (CHOOSE i \in A : \A j \in A : j <= i) \in A
        /\ \A j \in A : j <= (CHOOSE i \in A : \A j_1 \in A : j_1 <= i)
      BY <2>1, Zenon
  <2>3. LastOf(A) = CHOOSE i \in A : \A j \in A : j <= i
      BY <1>1 DEF LastOf
  <2>4. QED
      BY <2>2, <2>3
<1>2. S = {} => LastOf(S) = 0
    BY DEF LastOf
<1>3. S # {} => LastOf(S) \in S /\ \A i \in S : i <= LastOf(S)
    BY <1>1
<1> DEFINE A == S \cup {n + 1}
<1>4. A \in SUBSET (1 .. n + 1) /\ A # {} /\ n + 1 \in Nat /\ n + 1 \in A
  <2>1. 1 .. n \subseteq 1 .. n + 1 /\ n + 1 \in 1 .. n + 1 /\ n + 1 \in Nat
      OBVIOUS
  <2>2. QED
      BY <2>1
<1> HIDE DEF A
<1> DEFINE l == LastOf(A)
<1>5. l \in A /\ n + 1 <= l
    BY <1>1, <1>4
<1> HIDE DEF l
<1>6. l = n + 1
  <2>1. l \in 1 .. n + 1
      BY <1>4, <1>5
  <2>2. QED
      BY <1>5, <2>1
<1>7. LastOf(S) \in 0 .. n /\ (S # {} => LastOf(S) # 0)
  <2>1. CASE S = {}
      BY <1>2, <2>1
  <2>2. CASE S # {}
    <3>1. LastOf(S) \in 1 .. n
        BY <1>3, <2>2
    <3>2. QED
        BY <3>1
  <2>3. QED
      BY <2>1, <2>2
<1>8. S # {} => LastOf(S) \in S
    BY <1>3
<1>9. \A i \in S : i <= LastOf(S)
    BY <1>3
<1>10. LastOf(S \cup {n + 1}) = n + 1
    BY <1>6 DEF A, l
<1>11. QED
    BY <1>2, <1>7, <1>8, <1>9, <1>10

------------------------------------------------------------------------------
(* Since the last progress *)

AllPlain(R) == \A i \in 1 .. Len(R) : R[i].source = ""

Since(tag, R) == Tally(tag, After(R, ProgressAt(R)))

LEMMA ProgressIs ==
    ASSUME NEW R, IsSeq(R), AllPlain(R)
    PROVE  ProgressAt(R) = LastOf(Marks("signal", R))
<1> DEFINE A == {i \in DOMAIN R : Signal(R[i])}
           G == {i \in A : R[i].source # "agent_patch"}
<1>1. A = Marks("signal", R)
    BY DEF Marks, Says
<1>2. G = A
    BY InRange DEF AllPlain
<1> HIDE DEF A
<1>3. ProgressAt(R) = LastOf(A)
    BY <1>2 DEF ProgressAt, A
<1>4. QED
    BY <1>1, <1>3

LEMMA AfterMore ==
    ASSUME NEW R, IsSeq(R), NEW x, NEW g \in 0 .. Len(R)
    PROVE  /\ IsSeq(After(R, g)) /\ After(Append(R, x), g) = Append(After(R, g), x)
           /\ After(Append(R, x), Len(R) + 1) = <<>>
<1> DEFINE n == Len(R)
           T == Append(R, x)
           S == Range(R) \cup {x}
<1>1. /\ n \in Nat /\ R \in [1 .. n -> Range(R)] /\ IsSeq(T) /\ Len(T) = n + 1
      /\ T[n + 1] = x /\ \A i \in 1 .. n : T[i] = R[i]
    BY InRange, Appended
<1>2. R \in Seq(Range(R)) /\ T \in Seq(Range(T))
    BY <1>1 DEF IsSeq
<1> HIDE DEF T, n
<1>3. g \in Nat /\ g <= n /\ g + 1 \in 1 .. n + 1
    BY <1>1 DEF n
<1>4. ASSUME NEW q, NEW k \in Nat, q \in Seq(Range(q)), Len(q) = k, g <= k
      PROVE  /\ SubSeq(q, g + 1, k) \in Seq(Range(q)) /\ Len(SubSeq(q, g + 1, k)) = k - g
             /\ \A i \in 1 .. k - g : SubSeq(q, g + 1, k)[i] = q[g + i]
  <2>1. g + 1 \in 1 .. k + 1 /\ k \in g .. k
      BY <1>3, <1>4
  <2>2. g + 1 - 1 = g /\ k - (g + 1) + 1 = k - g /\ \A i \in 1 .. k - g : g + 1 + i - 1 = g + i
      BY <1>3
  <2>3. CASE g < k
      BY <1>3, <1>4, <2>1, <2>2, <2>3, SubSeqProperties
  <2>4. CASE g = k
    <3>1. SubSeq(q, g + 1, k) = <<>>
        BY <1>3, <1>4, <2>4, SubSeqEmpty
    <3>2. k - g = 0
        BY <1>3, <2>4
    <3>3. QED
        BY <3>1, <3>2, NoneYet
  <2>5. QED
      BY <1>3, <1>4, <2>3, <2>4
<1> DEFINE u == SubSeq(R, g + 1, n)
           w == SubSeq(T, g + 1, n + 1)
           v == Append(u, x)
<1>5. /\ u \in Seq(Range(R)) /\ Len(u) = n - g /\ \A i \in 1 .. n - g : u[i] = R[g + i]
    BY <1>1, <1>2, <1>3, <1>4 DEF n
<1>6. /\ w \in Seq(Range(T)) /\ Len(w) = n + 1 - g
      /\ \A i \in 1 .. n + 1 - g : w[i] = T[g + i]
    BY <1>1, <1>2, <1>3, <1>4
<1> HIDE DEF u, w
<1>7. IsSeq(u) /\ IsSeq(w)
    BY <1>5, <1>6, SeqOverRange
<1>8. /\ IsSeq(v) /\ Len(v) = n - g + 1 /\ v[n - g + 1] = x
      /\ \A i \in 1 .. n - g : v[i] = u[i]
  <2>1. /\ IsSeq(v) /\ Len(v) = Len(u) + 1 /\ v[Len(u) + 1] = x
        /\ \A i \in 1 .. Len(u) : v[i] = u[i]
      BY <1>7, Appended
  <2> HIDE DEF v
  <2>2. Len(u) = n - g
      BY <1>5
  <2>3. QED
      BY <2>1, <2>2
<1> HIDE DEF v
<1>9. w = v
  <2>1. Len(w) = Len(v) /\ Len(v) = n - g + 1 /\ n - g \in Nat
      BY <1>1, <1>3, <1>6, <1>8
  <2>2. w \in [1 .. Len(w) -> Range(w)] /\ v \in [1 .. Len(w) -> Range(v)]
      BY <1>7, <1>8, <2>1, InRange
  <2>3. ASSUME NEW i \in 1 .. Len(w) PROVE w[i] = v[i]
    <3>1. i \in 1 .. n + 1 - g /\ (i \in 1 .. n - g \/ i = n - g + 1)
        BY <1>1, <1>3, <2>1
    <3>2. CASE i \in 1 .. n - g
      <4>1. g + i \in 1 .. n
          BY <1>1, <1>3, <3>2
      <4>2. QED
          BY <1>1, <1>5, <1>6, <1>8, <3>1, <3>2, <4>1
    <3>3. CASE i = n - g + 1
      <4>1. g + i = n + 1
          BY <1>1, <1>3, <3>3
      <4>2. QED
          BY <1>1, <1>6, <1>8, <3>1, <3>3, <4>1
    <3>4. QED
        BY <3>1, <3>2, <3>3
  <2>4. w = [i \in 1 .. Len(w) |-> w[i]] /\ v = [i \in 1 .. Len(w) |-> v[i]]
      BY <2>2
  <2> HIDE DEF S
  <2>5. QED
      BY <2>3, <2>4
<1>10. After(T, n + 1) = <<>>
  <2>1. SubSeq(T, (n + 1) + 1, n + 1) = <<>>
      BY <1>1, <1>2, SubSeqEmpty
  <2>2. QED
      BY <1>1, <2>1 DEF After
<1>11. After(R, g) = u /\ After(T, g) = w
    BY <1>1 DEF After, u, w, n
<1>12. QED
    BY <1>7, <1>9, <1>10, <1>11 DEF T, v, n

------------------------------------------------------------------------------
(* What the router does with an event, field by field *)

IsState(s) == DOMAIN s = DOMAIN Empty

\* Counted over the whole trial, and since the last progress.
Counters(s, t, e) ==
    /\ t.calls = Bump(s.calls, IsCall(e))
    /\ t.stalls = Bump(s.stalls, e.kind = "execution_stall")
    /\ t.deliveryFiles = Bump(s.deliveryFiles, IsDelivery(e))
    /\ t.testRuns = Bump(s.testRuns, e.kind = "test_run")
    /\ t.replans = Bump(s.replans, IsCall(e) /\ e.action = "freeze_or_replan")
    /\ t.callsSince = Bump(s.callsSince, IsCall(e))
    /\ t.stallsSince = Bump(s.stallsSince, e.kind = "execution_stall")
    /\ t.lengthSince = Bump(s.lengthSince, IsCall(e) /\ IsLength(e))
    /\ t.appliedSince = Bump(s.appliedSince, FromRule(e, ApplyRule))
    /\ t.recoveredSince = Bump(s.recoveredSince, FromRule(e, ApplyRecoveryRule))

Said(s, t, e) ==
    /\ t.action = (IF IsCall(e) THEN e.action ELSE s.action)
    /\ t.finish = (IF IsCall(e) THEN e.outcome ELSE s.finish)

\* What only progress changes.
Tiered(s, t) ==
    /\ t.exploration = s.exploration /\ t.implementation = s.implementation
    /\ t.validation = s.validation /\ t.delivery = s.delivery
    /\ t.strong = s.strong /\ t.candidate = s.candidate
    /\ t.explorationSince = s.explorationSince /\ t.progressKind = s.progressKind

Counted1(s, t) ==
    /\ t.calls = s.calls /\ t.stalls = s.stalls
    /\ t.deliveryFiles = s.deliveryFiles /\ t.testRuns = s.testRuns
    /\ t.replans = s.replans /\ t.callsSince = s.callsSince
    /\ t.stallsSince = s.stallsSince /\ t.lengthSince = s.lengthSince
    /\ t.appliedSince = s.appliedSince /\ t.recoveredSince = s.recoveredSince

\* The counters, and what was said last.
Uncounted(s, t) ==
    Counted1(s, t) /\ t.action = s.action /\ t.finish = s.finish

Ripe(s, t) == t.readiness = s.readiness /\ t.frontier = s.frontier

\* The readiness an event leads to; on: whether a test run is of the target.
ReadyAfter(s, e, on) ==
    IF IsDelivery(e) \/ IsImplementation(e) THEN "delivery_candidate"
    ELSE IF e.kind = "test_run" /\ e.outcome = "passed" /\ on THEN "validation_passed"
    ELSE IF e.kind = "test_run" /\ e.outcome = "failed" /\ on THEN "validation_failed"
    ELSE IF e.kind = "test_passed" THEN "validation_passed"
    ELSE IF e.kind = "test_failed" THEN "validation_failed"
    ELSE IF e.kind = "verifier_result"
    THEN IF e.good THEN "verifier_passed" ELSE "verifier_failed"
    ELSE s.readiness

FrontierAfter(s, e) ==
    IF /\ e.print # ""
       /\ e.kind = "test_failed" \/ (e.kind = "test_run" /\ e.outcome = "failed")
    THEN Frontier(e) ELSE s.frontier

\* The hypothesis in force.
InForce(s) == s.hypStatus \in {"open", "stale"}

HypSame(s, t) ==
    /\ t.replan = s.replan /\ t.hyp = s.hyp /\ t.hypEvent = s.hypEvent
    /\ InForce(s) => InForce(t)

HypCall(s, t, e) ==
    IF e.action = "freeze_or_replan" THEN t.replan = e.id /\ t.hyp = "" /\ t.hypEvent = 0
    ELSE IF s.replan = 0 THEN t.replan = 0
    ELSE IF Hypothesis(e) = "" THEN HypSame(s, t)
    ELSE /\ t.replan = s.replan /\ t.hyp = Hypothesis(e)
         /\ e.id # 0 => t.hypEvent # 0
         /\ InForce(t)

LEMMA MarkStaleDoes ==
    ASSUME NEW s, IsState(s)
    PROVE  LET t == MarkStale(s)
           IN  IsState(t) /\ HypSame(s, t) /\ Tiered(s, t) /\ Ripe(s, t) /\ Uncounted(s, t)
BY DEF MarkStale, IsState, Empty, HypSame, InForce, Tiered, Ripe, Uncounted, Counted1

LEMMA CloseRouteDoes ==
    ASSUME NEW s, IsState(s)
    PROVE  LET t == CloseRoute(s)
           IN  IsState(t) /\ HypSame(s, t) /\ Tiered(s, t) /\ Ripe(s, t) /\ Uncounted(s, t)
BY DEF CloseRoute, MarkStale, IsState, Empty, HypSame, InForce, Tiered, Ripe, Uncounted, Counted1

LEMMA CountCallDoes ==
    ASSUME NEW s, IsState(s), NEW e, IsCall(e)
    PROVE  LET t == CountCall(s, e)
           IN  /\ IsState(t) /\ HypSame(s, t) /\ Tiered(s, t) /\ Ripe(s, t)
               /\ t.hypStatus = s.hypStatus
               /\ t.calls = s.calls + 1 /\ t.stalls = s.stalls
               /\ t.deliveryFiles = s.deliveryFiles /\ t.testRuns = s.testRuns
               /\ t.replans = s.replans /\ t.callsSince = s.callsSince + 1
               /\ t.stallsSince = s.stallsSince
               /\ t.lengthSince = Bump(s.lengthSince, IsLength(e))
               /\ t.appliedSince = Bump(s.appliedSince, FromRule(e, ApplyRule))
               /\ t.recoveredSince = Bump(s.recoveredSince, FromRule(e, ApplyRecoveryRule))
               /\ t.action = e.action /\ t.finish = e.outcome
<1> DEFINE t == CountCall(s, e)
<1>1. IsState(t)
    BY DEF CountCall, IsState, Empty
<1>2. HypSame(s, t) /\ t.hypStatus = s.hypStatus
    BY DEF CountCall, IsState, Empty, HypSame, InForce
<1>3. Tiered(s, t) /\ Ripe(s, t)
    BY DEF CountCall, IsState, Empty, Tiered, Ripe
<1>4. /\ t.calls = s.calls + 1 /\ t.stalls = s.stalls
      /\ t.deliveryFiles = s.deliveryFiles /\ t.testRuns = s.testRuns
      /\ t.replans = s.replans /\ t.callsSince = s.callsSince + 1
      /\ t.stallsSince = s.stallsSince
      /\ t.action = e.action /\ t.finish = e.outcome
    BY DEF CountCall, IsState, Empty
<1>5. /\ t.lengthSince = Bump(s.lengthSince, IsLength(e))
      /\ t.appliedSince = Bump(s.appliedSince, FromRule(e, ApplyRule))
      /\ t.recoveredSince = Bump(s.recoveredSince, FromRule(e, ApplyRecoveryRule))
    BY DEF CountCall, IsState, Empty, Bump
<1> HIDE DEF t
<1>6. QED
    BY <1>1, <1>2, <1>3, <1>4, <1>5 DEF t

LEMMA OpenRouteDoes ==
    ASSUME NEW s, IsState(s), NEW e
    PROVE  LET t == OpenRoute(s, e)
           IN  IsState(t) /\ HypSame(s, t) /\ Tiered(s, t) /\ Ripe(s, t) /\ Uncounted(s, t)
<1> DEFINE c == CloseRoute(s)
<1>1. IsState(c) /\ HypSame(s, c) /\ Tiered(s, c) /\ Ripe(s, c) /\ Uncounted(s, c)
    BY CloseRouteDoes
<1> HIDE DEF c
<1> DEFINE t == [c EXCEPT !.route = e.id, !.routeLabel = "pending", !.routeEvents = 0]
<1>2. IsState(t) /\ HypSame(c, t) /\ Tiered(c, t) /\ Ripe(c, t) /\ Uncounted(c, t)
    BY <1>1 DEF IsState, Empty, HypSame, InForce, Tiered, Ripe, Uncounted, Counted1
<1>3. OpenRoute(s, e) = t
    BY DEF OpenRoute, c
<1> HIDE DEF t
<1>4. HypSame(s, t) /\ Tiered(s, t) /\ Ripe(s, t) /\ Uncounted(s, t)
    BY <1>1, <1>2 DEF HypSame, Tiered, Ripe, Uncounted, Counted1
<1>5. QED
    BY <1>2, <1>3, <1>4

LEMMA StartReplanDoes ==
    ASSUME NEW s, IsState(s), NEW e
    PROVE  LET t == StartReplan(s, e)
           IN  /\ IsState(t) /\ Tiered(s, t) /\ Ripe(s, t)
               /\ t.calls = s.calls /\ t.stalls = s.stalls
               /\ t.deliveryFiles = s.deliveryFiles /\ t.testRuns = s.testRuns
               /\ t.replans = s.replans + 1 /\ t.callsSince = s.callsSince
               /\ t.stallsSince = s.stallsSince /\ t.lengthSince = s.lengthSince
               /\ t.appliedSince = s.appliedSince /\ t.recoveredSince = s.recoveredSince
               /\ t.action = s.action /\ t.finish = s.finish
               /\ t.replan = e.id /\ t.hyp = "" /\ t.hypEvent = 0
<1> DEFINE t == StartReplan(s, e)
<1>1. IsState(t)
    BY DEF StartReplan, IsState, Empty
<1>2. Tiered(s, t) /\ Ripe(s, t)
    BY DEF StartReplan, IsState, Empty, Tiered, Ripe
<1>3. /\ t.calls = s.calls /\ t.stalls = s.stalls
      /\ t.deliveryFiles = s.deliveryFiles /\ t.testRuns = s.testRuns
      /\ t.replans = s.replans + 1 /\ t.callsSince = s.callsSince
    BY DEF StartReplan, IsState, Empty
<1>4. /\ t.stallsSince = s.stallsSince /\ t.lengthSince = s.lengthSince
      /\ t.appliedSince = s.appliedSince /\ t.recoveredSince = s.recoveredSince
      /\ t.action = s.action /\ t.finish = s.finish
    BY DEF StartReplan, IsState, Empty
<1>5. t.replan = e.id /\ t.hyp = "" /\ t.hypEvent = 0
    BY DEF StartReplan, IsState, Empty
<1> HIDE DEF t
<1>6. QED
    BY <1>1, <1>2, <1>3, <1>4, <1>5 DEF t

LEMMA RecordHypothesisDoes ==
    ASSUME NEW s, IsState(s), NEW e, e.action # "freeze_or_replan", s.replan # 0
    PROVE  LET t == RecordHypothesis(s, e)
           IN  /\ IsState(t) /\ Tiered(s, t) /\ Ripe(s, t) /\ Uncounted(s, t)
               /\ HypCall(s, t, e)
<1> DEFINE t == RecordHypothesis(s, e)
<1>1. IsState(t)
    BY DEF RecordHypothesis, IsState, Empty
<1>2. Tiered(s, t) /\ Ripe(s, t)
    BY DEF RecordHypothesis, IsState, Empty, Tiered, Ripe
<1>3. Uncounted(s, t)
    BY DEF RecordHypothesis, IsState, Empty, Uncounted, Counted1
<1>4. HypCall(s, t, e)
  <2>1. t.replan = s.replan
      BY DEF RecordHypothesis, IsState, Empty
  <2>2. Hypothesis(e) = "" => t = s
      BY DEF RecordHypothesis
  <2>3. Hypothesis(e) # "" => t.hyp = Hypothesis(e)
      BY DEF RecordHypothesis, IsState, Empty
  <2>4. Hypothesis(e) # "" => (e.id # 0 => t.hypEvent # 0)
      BY DEF RecordHypothesis, IsState, Empty
  <2>5. Hypothesis(e) # "" => InForce(t)
      BY DEF RecordHypothesis, IsState, Empty, InForce
  <2> HIDE DEF t
  <2>6. QED
      BY <2>1, <2>2, <2>3, <2>4, <2>5 DEF HypCall, HypSame
<1> HIDE DEF t
<1>5. QED
    BY <1>1, <1>2, <1>3, <1>4 DEF t

LEMMA CallDoes ==
    ASSUME NEW s, IsState(s), NEW e, IsCall(e)
    PROVE  LET t == Call(s, e)
           IN  /\ IsState(t) /\ Tiered(s, t) /\ Ripe(s, t)
               /\ Counters(s, t, e) /\ Said(s, t, e) /\ HypCall(s, t, e)
<1> DEFINE d == CountCall(s, e)
           c == OpenRoute(d, e)
           w == [c EXCEPT !.callsSinceReplan = @ + 1,
                          !.callsSinceHyp = IF c.hypEvent # 0 THEN @ + 1 ELSE @]
           a == StartReplan(c, e)
           z == RecordHypothesis(w, e)
<1>1. /\ IsState(d) /\ HypSame(s, d) /\ Tiered(s, d) /\ Ripe(s, d)
      /\ d.calls = s.calls + 1 /\ d.stalls = s.stalls
      /\ d.deliveryFiles = s.deliveryFiles /\ d.testRuns = s.testRuns
      /\ d.replans = s.replans /\ d.callsSince = s.callsSince + 1
      /\ d.stallsSince = s.stallsSince
      /\ d.lengthSince = Bump(s.lengthSince, IsLength(e))
      /\ d.appliedSince = Bump(s.appliedSince, FromRule(e, ApplyRule))
      /\ d.recoveredSince = Bump(s.recoveredSince, FromRule(e, ApplyRecoveryRule))
      /\ d.action = e.action /\ d.finish = e.outcome
    BY CountCallDoes
<1> HIDE DEF d
<1>2. IsState(c) /\ HypSame(d, c) /\ Tiered(d, c) /\ Ripe(d, c) /\ Uncounted(d, c)
    BY <1>1, OpenRouteDoes
<1> HIDE DEF c
<1>3. IsState(w) /\ HypSame(c, w) /\ Tiered(c, w) /\ Ripe(c, w) /\ Uncounted(c, w)
    BY <1>2 DEF IsState, Empty, HypSame, InForce, Tiered, Ripe, Uncounted, Counted1
<1> HIDE DEF w
<1>4. Call(s, e) = IF e.action = "freeze_or_replan" THEN a ELSE IF c.replan = 0 THEN c ELSE z
    BY DEF Call, d, c, w
<1>5. ~IsDelivery(e) /\ e.kind # "execution_stall" /\ e.kind # "test_run"
    BY DEF IsCall, IsDelivery, IsFile
<1>6. CASE e.action = "freeze_or_replan"
  <2>1. /\ IsState(a) /\ Tiered(c, a) /\ Ripe(c, a)
        /\ a.calls = c.calls /\ a.stalls = c.stalls
        /\ a.deliveryFiles = c.deliveryFiles /\ a.testRuns = c.testRuns
        /\ a.replans = c.replans + 1 /\ a.callsSince = c.callsSince
        /\ a.stallsSince = c.stallsSince /\ a.lengthSince = c.lengthSince
        /\ a.appliedSince = c.appliedSince /\ a.recoveredSince = c.recoveredSince
        /\ a.action = c.action /\ a.finish = c.finish
        /\ a.replan = e.id /\ a.hyp = "" /\ a.hypEvent = 0
      BY <1>2, StartReplanDoes
  <2> HIDE DEF a
  <2>2. Tiered(s, a) /\ Ripe(s, a)
      BY <1>1, <1>2, <2>1 DEF Tiered, Ripe
  <2>3. Counters(s, a, e)
      BY <1>1, <1>2, <1>5, <1>6, <2>1 DEF Counters, Uncounted, Counted1, Bump
  <2>4. Said(s, a, e)
      BY <1>1, <1>2, <2>1 DEF Said, Uncounted
  <2>5. HypCall(s, a, e)
      BY <1>6, <2>1 DEF HypCall
  <2>6. QED
      BY <1>4, <1>6, <2>1, <2>2, <2>3, <2>4, <2>5
<1>7. HypSame(s, c) /\ Tiered(s, c) /\ Ripe(s, c)
    BY <1>1, <1>2 DEF HypSame, Tiered, Ripe
<1>8. ASSUME e.action # "freeze_or_replan" PROVE Counters(s, c, e) /\ Said(s, c, e)
  <2>1. Counters(s, c, e)
      BY <1>1, <1>2, <1>5, <1>8 DEF Counters, Uncounted, Counted1, Bump
  <2>2. Said(s, c, e)
      BY <1>1, <1>2 DEF Said, Uncounted
  <2>3. QED
      BY <2>1, <2>2
<1>9. CASE e.action # "freeze_or_replan" /\ c.replan = 0
  <2>1. HypCall(s, c, e)
      BY <1>7, <1>9 DEF HypCall, HypSame
  <2>2. QED
      BY <1>2, <1>4, <1>7, <1>8, <1>9, <2>1
<1>10. CASE e.action # "freeze_or_replan" /\ c.replan # 0
  <2>1. w.replan # 0
      BY <1>3, <1>10 DEF HypSame
  <2>2. /\ IsState(z) /\ Tiered(w, z) /\ Ripe(w, z) /\ Uncounted(w, z)
        /\ HypCall(w, z, e)
      BY <1>3, <1>10, <2>1, RecordHypothesisDoes
  <2> HIDE DEF z
  <2>3. Tiered(s, z) /\ Ripe(s, z)
      BY <1>3, <1>7, <2>2 DEF Tiered, Ripe
  <2>4. Counters(s, z, e) /\ Said(s, z, e)
      BY <1>3, <1>8, <1>10, <2>2 DEF Counters, Said, Uncounted, Counted1
  <2>5. HypCall(s, z, e)
      BY <1>3, <1>7, <1>10, <2>1, <2>2 DEF HypCall, HypSame
  <2>6. QED
      BY <1>4, <1>10, <2>2, <2>3, <2>4, <2>5
<1>11. QED
    BY <1>6, <1>9, <1>10

\* The events that the router counts nothing of but by their kind.
Plainly(s, t, e) ==
    /\ IsState(t) /\ Tiered(s, t) /\ Counters(s, t, e) /\ Said(s, t, e)
    /\ IF IsCall(e) THEN HypCall(s, t, e) ELSE HypSame(s, t)

LEMMA RecordFailureDoes ==
    ASSUME NEW s, IsState(s), NEW e
    PROVE  LET t == RecordFailure(s, e)
           IN  /\ IsState(t) /\ Tiered(s, t) /\ Uncounted(s, t) /\ HypSame(s, t)
               /\ t.readiness = s.readiness
               /\ t.frontier = IF e.print # "" THEN Frontier(e) ELSE s.frontier
<1> DEFINE t == RecordFailure(s, e)
<1>1. IsState(t)
    BY DEF RecordFailure, IsState, Empty
<1>2. Tiered(s, t)
    BY DEF RecordFailure, IsState, Empty, Tiered
<1>3. Uncounted(s, t)
    BY DEF RecordFailure, IsState, Empty, Uncounted, Counted1
<1>4. HypSame(s, t)
    BY DEF RecordFailure, IsState, Empty, HypSame, InForce
<1>5. /\ t.readiness = s.readiness
      /\ t.frontier = IF e.print # "" THEN Frontier(e) ELSE s.frontier
    BY DEF RecordFailure, IsState, Empty
<1> HIDE DEF t
<1>6. QED
    BY <1>1, <1>2, <1>3, <1>4, <1>5 DEF t

\* A change that none of this is about.
Aside(s, t) ==
    IsState(t) /\ Tiered(s, t) /\ Uncounted(s, t) /\ HypSame(s, t)

LEMMA AsideTwice ==
    ASSUME NEW s, NEW t, NEW u, Aside(s, t), Aside(t, u)
    PROVE  Aside(s, u)
BY DEF Aside, Tiered, Uncounted, Counted1, HypSame

LEMMA FileDoes ==
    ASSUME NEW s, IsState(s), NEW e, IsFile(e)
    PROVE  LET t == File(s, e)
           IN  /\ Plainly(s, t, e)
               /\ t.readiness = ReadyAfter(s, e, AppliesToTarget(s, e))
               /\ t.frontier = FrontierAfter(s, e)
<1> DEFINE t == File(s, e)
<1>1. IsState(t)
    BY DEF File, IsState, Empty
<1>2. Tiered(s, t) /\ HypSame(s, t)
    BY DEF File, IsState, Empty, Tiered, HypSame, InForce
<1>3. ~IsCall(e) /\ e.kind \notin {"execution_stall", "test_run", "test_passed",
                                  "test_failed", "verifier_result"}
    BY DEF IsCall, IsFile
<1>4. /\ t.calls = s.calls /\ t.stalls = s.stalls
      /\ t.deliveryFiles = Bump(s.deliveryFiles, IsDelivery(e))
      /\ t.testRuns = s.testRuns /\ t.replans = s.replans /\ t.callsSince = s.callsSince
    BY DEF File, IsState, Empty, Bump
<1>5. /\ t.stallsSince = s.stallsSince /\ t.lengthSince = s.lengthSince
      /\ t.appliedSince = s.appliedSince /\ t.recoveredSince = s.recoveredSince
      /\ t.action = s.action /\ t.finish = s.finish
    BY DEF File, IsState, Empty
<1>6. /\ t.readiness = (IF IsDelivery(e) \/ IsImplementation(e) THEN "delivery_candidate"
                        ELSE s.readiness)
      /\ t.frontier = s.frontier
    BY DEF File, IsState, Empty
<1> HIDE DEF t
<1>7. Counters(s, t, e)
    BY <1>3, <1>4, <1>5 DEF Counters, Bump, FromRule
<1>8. Said(s, t, e)
    BY <1>3, <1>5 DEF Said
<1>9. t.readiness = ReadyAfter(s, e, AppliesToTarget(s, e))
    BY <1>3, <1>6 DEF ReadyAfter
<1>10. t.frontier = FrontierAfter(s, e)
    BY <1>3, <1>6 DEF FrontierAfter
<1>11. QED
    BY <1>1, <1>2, <1>3, <1>7, <1>8, <1>9, <1>10 DEF t, Plainly

LEMMA TestRunDoes ==
    ASSUME NEW s, IsState(s), NEW e, e.kind = "test_run"
    PROVE  LET t == TestRun(s, e)
           IN  /\ Plainly(s, t, e)
               /\ t.readiness = ReadyAfter(s, e, AppliesToTarget(s, e))
               /\ t.frontier = FrontierAfter(s, e)
<1> DEFINE on == AppliesToTarget(s, e)
           r == [s EXCEPT !.testRuns = @ + 1]
           p == [r EXCEPT !.passed = @ + 1,
                          !.readiness = IF on THEN "validation_passed" ELSE @]
           f == [r EXCEPT !.failed = @ + 1,
                          !.readiness = IF on THEN "validation_failed" ELSE @,
                          !.reward = IF on THEN FALSE ELSE @]
           g == RecordFailure(f, e)
           t == TestRun(s, e)
\* Both outcomes count the run and nothing else.
           Ran(x) == /\ IsState(x) /\ Tiered(s, x) /\ HypSame(s, x)
                     /\ x.calls = s.calls /\ x.stalls = s.stalls
                     /\ x.deliveryFiles = s.deliveryFiles
                     /\ x.testRuns = s.testRuns + 1 /\ x.replans = s.replans
                     /\ x.callsSince = s.callsSince /\ x.stallsSince = s.stallsSince
                     /\ x.lengthSince = s.lengthSince
                     /\ x.appliedSince = s.appliedSince
                     /\ x.recoveredSince = s.recoveredSince
                     /\ x.action = s.action /\ x.finish = s.finish
<1>1. ~IsCall(e) /\ ~IsDelivery(e) /\ ~IsImplementation(e)
      /\ e.kind \notin {"execution_stall", "test_passed", "test_failed", "verifier_result"}
    BY DEF IsCall, IsDelivery, IsImplementation, IsFile
<1>2. t = IF e.outcome = "passed" THEN p ELSE IF e.outcome = "failed" THEN g ELSE r
    BY DEF TestRun
<1> HIDE DEF on
<1>3. Ran(r) /\ r.readiness = s.readiness /\ r.frontier = s.frontier
  <2>1. IsState(r) /\ Tiered(s, r) /\ HypSame(s, r)
      BY DEF IsState, Empty, Tiered, HypSame, InForce
  <2>2. /\ r.calls = s.calls /\ r.stalls = s.stalls /\ r.deliveryFiles = s.deliveryFiles
        /\ r.testRuns = s.testRuns + 1 /\ r.replans = s.replans
        /\ r.callsSince = s.callsSince /\ r.stallsSince = s.stallsSince
      BY DEF IsState, Empty
  <2>3. /\ r.lengthSince = s.lengthSince /\ r.appliedSince = s.appliedSince
        /\ r.recoveredSince = s.recoveredSince
        /\ r.action = s.action /\ r.finish = s.finish
        /\ r.readiness = s.readiness /\ r.frontier = s.frontier
      BY DEF IsState, Empty
  <2> HIDE DEF r
  <2>4. QED
      BY <2>1, <2>2, <2>3
<1> HIDE DEF r
<1>4. Aside(r, p) /\ p.frontier = r.frontier
      /\ p.readiness = IF on THEN "validation_passed" ELSE r.readiness
  <2>1. IsState(p) /\ Tiered(r, p)
      BY <1>3 DEF IsState, Empty, Tiered
  <2>2. Uncounted(r, p)
      BY <1>3 DEF IsState, Empty, Uncounted, Counted1
  <2>3. HypSame(r, p) /\ p.frontier = r.frontier
        /\ p.readiness = IF on THEN "validation_passed" ELSE r.readiness
      BY <1>3 DEF IsState, Empty, HypSame, InForce
  <2> HIDE DEF p
  <2>4. QED
      BY <2>1, <2>2, <2>3 DEF Aside
<1>5. Aside(r, f) /\ f.frontier = r.frontier
      /\ f.readiness = IF on THEN "validation_failed" ELSE r.readiness
  <2>1. IsState(f) /\ Tiered(r, f)
      BY <1>3 DEF IsState, Empty, Tiered
  <2>2. Uncounted(r, f)
      BY <1>3 DEF IsState, Empty, Uncounted, Counted1
  <2>3. HypSame(r, f) /\ f.frontier = r.frontier
        /\ f.readiness = IF on THEN "validation_failed" ELSE r.readiness
      BY <1>3 DEF IsState, Empty, HypSame, InForce
  <2> HIDE DEF f
  <2>4. QED
      BY <2>1, <2>2, <2>3 DEF Aside
<1> HIDE DEF p, f
<1>6. Aside(f, g) /\ g.readiness = f.readiness
      /\ g.frontier = IF e.print # "" THEN Frontier(e) ELSE f.frontier
    BY <1>5, RecordFailureDoes DEF Aside
<1> HIDE DEF g, t
<1>7. \A x : Aside(r, x) => Ran(x)
    BY <1>3 DEF Aside, Tiered, HypSame, Uncounted, Counted1
<1>8. Aside(r, g)
    BY <1>5, <1>6, AsideTwice
<1>9. Ran(t)
    BY <1>2, <1>3, <1>4, <1>7, <1>8
<1>10. Plainly(s, t, e)
  <2>1. Counters(s, t, e)
      BY <1>1, <1>9 DEF Counters, Bump, FromRule
  <2>2. Said(s, t, e)
      BY <1>1, <1>9 DEF Said
  <2>3. QED
      BY <1>1, <1>9, <2>1, <2>2 DEF Plainly
<1>11. t.readiness = ReadyAfter(s, e, on)
    BY <1>1, <1>2, <1>3, <1>4, <1>5, <1>6 DEF ReadyAfter
<1>12. t.frontier = FrontierAfter(s, e)
    BY <1>1, <1>2, <1>3, <1>4, <1>5, <1>6 DEF FrontierAfter
<1>13. QED
    BY <1>10, <1>11, <1>12 DEF t, on

\* What an event leads to by its kind alone.
Kinded(s, k, e) ==
    /\ Plainly(s, k, e)
    /\ k.readiness = ReadyAfter(s, e, AppliesToTarget(s, e))
    /\ k.frontier = FrontierAfter(s, e)

LEMMA OtherKindDoes ==
    ASSUME NEW s, IsState(s), NEW e, ~IsCall(e), ~IsFile(e), e.kind # "test_run"
    PROVE  Kinded(s, ByKind(s, e), e)
<1> DEFINE k == ByKind(s, e)
           a == [s EXCEPT !.stalls = @ + 1, !.stallsSince = @ + 1]
           p == [s EXCEPT !.passed = @ + 1, !.readiness = "validation_passed"]
           f == [s EXCEPT !.failed = @ + 1, !.reward = FALSE,
                          !.readiness = "validation_failed"]
           v == [s EXCEPT !.reward = e.good,
                          !.readiness = IF e.good THEN "verifier_passed"
                                        ELSE "verifier_failed"]
           n == [s EXCEPT !.noProgress = @ + 1, !.active = TRUE]
<1>1. ~IsDelivery(e) /\ ~IsImplementation(e) /\ e.kind # "llm_call"
    BY DEF IsCall, IsDelivery, IsImplementation, IsFile
<1>2. k = IF e.kind = "execution_stall" THEN MarkStale(a)
          ELSE IF e.kind = "test_passed" THEN p
          ELSE IF e.kind = "test_failed" THEN RecordFailure(f, e)
          ELSE IF e.kind = "verifier_result" THEN v
          ELSE IF e.kind = "no_progress" THEN MarkStale(n) ELSE s
    BY DEF ByKind
<1>3. Aside(s, s)
    BY DEF Aside, Tiered, Uncounted, Counted1, HypSame
<1>4. Aside(s, p) /\ p.frontier = s.frontier /\ p.readiness = "validation_passed"
  <2>1. IsState(p) /\ Tiered(s, p)
      BY DEF IsState, Empty, Tiered
  <2>2. Uncounted(s, p)
      BY DEF IsState, Empty, Uncounted, Counted1
  <2>3. HypSame(s, p) /\ p.frontier = s.frontier /\ p.readiness = "validation_passed"
      BY DEF IsState, Empty, HypSame, InForce
  <2> HIDE DEF p
  <2>4. QED
      BY <2>1, <2>2, <2>3 DEF Aside
<1>5. Aside(s, f) /\ f.frontier = s.frontier /\ f.readiness = "validation_failed"
  <2>1. IsState(f) /\ Tiered(s, f)
      BY DEF IsState, Empty, Tiered
  <2>2. Uncounted(s, f)
      BY DEF IsState, Empty, Uncounted, Counted1
  <2>3. HypSame(s, f) /\ f.frontier = s.frontier /\ f.readiness = "validation_failed"
      BY DEF IsState, Empty, HypSame, InForce
  <2> HIDE DEF f
  <2>4. QED
      BY <2>1, <2>2, <2>3 DEF Aside
<1>6. Aside(s, v) /\ v.frontier = s.frontier
      /\ v.readiness = IF e.good THEN "verifier_passed" ELSE "verifier_failed"
  <2>1. IsState(v) /\ Tiered(s, v)
      BY DEF IsState, Empty, Tiered
  <2>2. Uncounted(s, v)
      BY DEF IsState, Empty, Uncounted, Counted1
  <2>3. HypSame(s, v) /\ v.frontier = s.frontier
        /\ v.readiness = IF e.good THEN "verifier_passed" ELSE "verifier_failed"
      BY DEF IsState, Empty, HypSame, InForce
  <2> HIDE DEF v
  <2>4. QED
      BY <2>1, <2>2, <2>3 DEF Aside
<1>7. Aside(s, n) /\ Ripe(s, n)
  <2>1. IsState(n) /\ Tiered(s, n)
      BY DEF IsState, Empty, Tiered
  <2>2. Uncounted(s, n)
      BY DEF IsState, Empty, Uncounted, Counted1
  <2>3. HypSame(s, n) /\ Ripe(s, n)
      BY DEF IsState, Empty, HypSame, InForce, Ripe
  <2> HIDE DEF n
  <2>4. QED
      BY <2>1, <2>2, <2>3 DEF Aside
<1>8. /\ IsState(a) /\ Tiered(s, a) /\ HypSame(s, a) /\ Ripe(s, a)
      /\ a.calls = s.calls /\ a.stalls = s.stalls + 1
      /\ a.deliveryFiles = s.deliveryFiles /\ a.testRuns = s.testRuns
      /\ a.replans = s.replans /\ a.callsSince = s.callsSince
      /\ a.stallsSince = s.stallsSince + 1 /\ a.lengthSince = s.lengthSince
      /\ a.appliedSince = s.appliedSince /\ a.recoveredSince = s.recoveredSince
      /\ a.action = s.action /\ a.finish = s.finish
  <2>1. IsState(a) /\ Tiered(s, a)
      BY DEF IsState, Empty, Tiered
  <2>2. HypSame(s, a) /\ Ripe(s, a)
      BY DEF IsState, Empty, HypSame, InForce, Ripe
  <2>3. /\ a.calls = s.calls /\ a.stalls = s.stalls + 1
        /\ a.deliveryFiles = s.deliveryFiles /\ a.testRuns = s.testRuns
        /\ a.replans = s.replans /\ a.callsSince = s.callsSince
      BY DEF IsState, Empty
  <2>4. /\ a.stallsSince = s.stallsSince + 1 /\ a.lengthSince = s.lengthSince
        /\ a.appliedSince = s.appliedSince /\ a.recoveredSince = s.recoveredSince
        /\ a.action = s.action /\ a.finish = s.finish
      BY DEF IsState, Empty
  <2> HIDE DEF a
  <2>5. QED
      BY <2>1, <2>2, <2>3, <2>4
<1> HIDE DEF a, p, f, v, n, k
<1>9. ASSUME e.kind # "execution_stall", Aside(s, k) PROVE Plainly(s, k, e)
  <2>1. Counters(s, k, e)
      BY <1>1, <1>9 DEF Counters, Bump, FromRule, Aside, Uncounted, Counted1
  <2>2. Said(s, k, e)
      BY <1>1, <1>9 DEF Said, Aside, Uncounted
  <2>3. QED
      BY <1>9, <2>1, <2>2 DEF Plainly, Aside
<1>10. CASE e.kind = "execution_stall"
  <2> DEFINE t == MarkStale(a)
  <2>1. IsState(t) /\ HypSame(a, t) /\ Tiered(a, t) /\ Ripe(a, t) /\ Uncounted(a, t)
      BY <1>8, MarkStaleDoes
  <2>2. k = t
      BY <1>2, <1>10
  <2> HIDE DEF t
  <2>3. Counters(s, k, e)
      BY <1>1, <1>8, <1>10, <2>1, <2>2 DEF Counters, Bump, FromRule, Uncounted, Counted1
  <2>4. Said(s, k, e)
      BY <1>1, <1>8, <2>1, <2>2 DEF Said, Uncounted
  <2>5. Tiered(s, k) /\ HypSame(s, k) /\ Ripe(s, k)
      BY <1>8, <2>1, <2>2 DEF Tiered, HypSame, Ripe
  <2>6. Plainly(s, k, e)
      BY <2>1, <2>2, <2>3, <2>4, <2>5 DEF Plainly
  <2>7. k.readiness = ReadyAfter(s, e, AppliesToTarget(s, e)) /\ k.frontier = FrontierAfter(s, e)
      BY <1>1, <1>10, <2>5 DEF ReadyAfter, FrontierAfter, Ripe
  <2>8. QED
      BY <2>6, <2>7 DEF Kinded, k
<1>11. CASE e.kind = "test_passed"
  <2>1. k = p
      BY <1>2, <1>11
  <2>2. Plainly(s, k, e)
      BY <1>4, <1>9, <1>11, <2>1
  <2>3. k.readiness = ReadyAfter(s, e, AppliesToTarget(s, e)) /\ k.frontier = FrontierAfter(s, e)
      BY <1>1, <1>4, <1>11, <2>1 DEF ReadyAfter, FrontierAfter
  <2>4. QED
      BY <2>2, <2>3 DEF Kinded, k
<1>12. CASE e.kind = "test_failed"
  <2> DEFINE t == RecordFailure(f, e)
  <2>1. Aside(f, t) /\ t.readiness = f.readiness
        /\ t.frontier = IF e.print # "" THEN Frontier(e) ELSE f.frontier
      BY <1>5, RecordFailureDoes DEF Aside
  <2>2. k = t
      BY <1>2, <1>12
  <2> HIDE DEF t
  <2>3. Plainly(s, k, e)
      BY <1>5, <1>9, <1>12, <2>1, <2>2, AsideTwice
  <2>4. k.readiness = ReadyAfter(s, e, AppliesToTarget(s, e)) /\ k.frontier = FrontierAfter(s, e)
      BY <1>1, <1>5, <1>12, <2>1, <2>2 DEF ReadyAfter, FrontierAfter
  <2>5. QED
      BY <2>3, <2>4 DEF Kinded, k
<1>13. CASE e.kind = "verifier_result"
  <2>1. k = v
      BY <1>2, <1>13
  <2>2. Plainly(s, k, e)
      BY <1>6, <1>9, <1>13, <2>1
  <2>3. k.readiness = ReadyAfter(s, e, AppliesToTarget(s, e)) /\ k.frontier = FrontierAfter(s, e)
      BY <1>1, <1>6, <1>13, <2>1 DEF ReadyAfter, FrontierAfter
  <2>4. QED
      BY <2>2, <2>3 DEF Kinded, k
<1>14. CASE e.kind = "no_progress"
  <2> DEFINE t == MarkStale(n)
  <2>1. Aside(n, t) /\ Ripe(n, t)
      BY <1>7, MarkStaleDoes DEF Aside
  <2>2. k = t
      BY <1>2, <1>14
  <2> HIDE DEF t
  <2>3. Plainly(s, k, e)
      BY <1>7, <1>9, <1>14, <2>1, <2>2, AsideTwice
  <2>4. k.readiness = ReadyAfter(s, e, AppliesToTarget(s, e)) /\ k.frontier = FrontierAfter(s, e)
      BY <1>1, <1>7, <1>14, <2>1, <2>2 DEF ReadyAfter, FrontierAfter, Ripe
  <2>5. QED
      BY <2>3, <2>4 DEF Kinded, k
<1>15. CASE e.kind \notin {"execution_stall", "test_passed", "test_failed",
                           "verifier_result", "no_progress"}
  <2>1. k = s
      BY <1>2, <1>15
  <2>2. Plainly(s, k, e)
      BY <1>3, <1>9, <1>15, <2>1
  <2>3. k.readiness = ReadyAfter(s, e, AppliesToTarget(s, e)) /\ k.frontier = FrontierAfter(s, e)
      BY <1>1, <1>15, <2>1 DEF ReadyAfter, FrontierAfter
  <2>4. QED
      BY <2>2, <2>3 DEF Kinded, k
<1>16. QED
    BY <1>10, <1>11, <1>12, <1>13, <1>14, <1>15

LEMMA ByKindDoes ==
    ASSUME NEW s, IsState(s), NEW e
    PROVE  Kinded(s, ByKind(s, e), e)
<1>1. CASE IsCall(e)
  <2> DEFINE t == Call(s, e)
  <2>1. /\ IsState(t) /\ Tiered(s, t) /\ Ripe(s, t)
        /\ Counters(s, t, e) /\ Said(s, t, e) /\ HypCall(s, t, e)
      BY <1>1, CallDoes
  <2>2. ByKind(s, e) = t
      BY <1>1 DEF ByKind, IsFile, IsCall
  <2> HIDE DEF t
  <2>3. ~IsDelivery(e) /\ ~IsImplementation(e)
        /\ e.kind \notin {"test_run", "test_passed", "test_failed", "verifier_result"}
      BY <1>1 DEF IsCall, IsDelivery, IsImplementation, IsFile
  <2>4. t.readiness = ReadyAfter(s, e, AppliesToTarget(s, e)) /\ t.frontier = FrontierAfter(s, e)
      BY <2>1, <2>3 DEF ReadyAfter, FrontierAfter, Ripe
  <2>5. Plainly(s, t, e)
      BY <1>1, <2>1 DEF Plainly
  <2>6. QED
      BY <2>2, <2>4, <2>5 DEF Kinded
<1>2. CASE IsFile(e)
  <2>1. ByKind(s, e) = File(s, e)
      BY <1>2 DEF ByKind, IsFile, IsCall
  <2>2. QED
      BY <1>2, <2>1, FileDoes DEF Kinded
<1>3. CASE e.kind = "test_run"
  <2>1. ByKind(s, e) = TestRun(s, e)
      BY <1>3 DEF ByKind, IsFile, IsCall
  <2>2. QED
      BY <1>3, <2>1, TestRunDoes DEF Kinded
<1>4. CASE ~IsCall(e) /\ ~IsFile(e) /\ e.kind # "test_run"
    BY <1>4, OtherKindDoes
<1>5. QED
    BY <1>1, <1>2, <1>3, <1>4

------------------------------------------------------------------------------
(* What the router does with an event *)

\* Counted over the whole trial.
Whole(s, t, e) ==
    /\ t.calls = Bump(s.calls, IsCall(e))
    /\ t.stalls = Bump(s.stalls, e.kind = "execution_stall")
    /\ t.deliveryFiles = Bump(s.deliveryFiles, IsDelivery(e))
    /\ t.testRuns = Bump(s.testRuns, e.kind = "test_run")
    /\ t.replans = Bump(s.replans, IsCall(e) /\ e.action = "freeze_or_replan")
    /\ t.exploration = Bump(s.exploration, Explores(s, e))
    /\ t.implementation = Bump(s.implementation, IsImplementation(e))
    /\ t.validation = Bump(s.validation, Validates(s, e))
    /\ t.delivery = Bump(s.delivery, IsDelivery(e))
    /\ t.strong = Bump(s.strong, IsStrong(e))
    /\ t.candidate = Bump(s.candidate, Progresses(s, e) /\ ~IsStrong(e))

\* Progress ends what is counted since the last progress.
Restarted(s, t, e) ==
    /\ t.callsSince = 0 /\ t.stallsSince = 0 /\ t.lengthSince = 0
    /\ t.appliedSince = 0 /\ t.recoveredSince = 0 /\ t.explorationSince = 0
    /\ t.replan = 0 /\ t.progressKind = e.kind

Continued(s, t, e) ==
    /\ t.callsSince = Bump(s.callsSince, IsCall(e))
    /\ t.stallsSince = Bump(s.stallsSince, e.kind = "execution_stall")
    /\ t.lengthSince = Bump(s.lengthSince, IsCall(e) /\ IsLength(e))
    /\ t.appliedSince = Bump(s.appliedSince, FromRule(e, ApplyRule))
    /\ t.recoveredSince = Bump(s.recoveredSince, FromRule(e, ApplyRecoveryRule))
    /\ t.explorationSince = Bump(s.explorationSince, Explores(s, e))
    /\ t.progressKind = s.progressKind
    /\ IF IsCall(e) THEN HypCall(s, t, e) ELSE HypSame(s, t)

Ripened(s, t, e) ==
    /\ t.readiness = ReadyAfter(s, e, AppliesToTarget(s, e))
    /\ t.frontier = IF Progresses(s, e) /\ ClearsFrontier(s, e) THEN 0
                    ELSE FrontierAfter(s, e)

Moved(s, t, e) ==
    /\ IsState(t) /\ Whole(s, t, e) /\ Said(s, t, e) /\ Ripened(s, t, e)
    /\ IF Progresses(s, e) THEN Restarted(s, t, e) ELSE Continued(s, t, e)

\* What no reader here looks at.
Spared(s, t) ==
    /\ Aside(s, t) /\ Ripe(s, t)

LEMMA VersionDoes ==
    ASSUME NEW s, IsState(s)
    PROVE  LET t == [s EXCEPT !.version = @ + 1]
           IN  Spared(s, t) /\ t.version = s.version + 1
<1> DEFINE t == [s EXCEPT !.version = @ + 1]
<1>1. IsState(t) /\ Tiered(s, t)
    BY DEF IsState, Empty, Tiered
<1>2. Uncounted(s, t)
    BY DEF IsState, Empty, Uncounted, Counted1
<1>3. HypSame(s, t) /\ Ripe(s, t) /\ t.version = s.version + 1
    BY DEF IsState, Empty, HypSame, InForce, Ripe
<1> HIDE DEF t
<1>4. QED
    BY <1>1, <1>2, <1>3 DEF Aside, Spared, t

LEMMA OutcomeDoes ==
    ASSUME NEW s, IsState(s), NEW e
    PROVE  LET t == RecordOutcome(s, e) IN Spared(s, t) /\ (IsCall(e) => t = s)
<1> DEFINE l == RouteOutcome(e)[1]
           a == [s EXCEPT !.routeLabel = l, !.routeEvents = @ + 1]
           t == RecordOutcome(s, e)
<1>1. IsCall(e) => t = s
    BY DEF RecordOutcome
<1>2. t = s \/ t = a \/ t = MarkStale(a)
    BY DEF RecordOutcome
<1> HIDE DEF l
<1>3. Spared(s, a)
  <2>1. IsState(a) /\ Tiered(s, a)
      BY DEF IsState, Empty, Tiered
  <2>2. Uncounted(s, a)
      BY DEF IsState, Empty, Uncounted, Counted1
  <2>3. HypSame(s, a) /\ Ripe(s, a)
      BY DEF IsState, Empty, HypSame, InForce, Ripe
  <2> HIDE DEF a
  <2>4. QED
      BY <2>1, <2>2, <2>3 DEF Aside, Spared
<1>4. Spared(s, s)
    BY DEF Spared, Aside, Tiered, Uncounted, Counted1, HypSame, Ripe
<1> HIDE DEF a
<1>5. Spared(a, MarkStale(a))
    BY <1>3, MarkStaleDoes DEF Spared, Aside
<1>6. Spared(s, MarkStale(a))
  <2>1. Aside(s, MarkStale(a))
      BY <1>3, <1>5, AsideTwice DEF Spared
  <2>2. Ripe(s, MarkStale(a))
      BY <1>3, <1>5 DEF Spared, Ripe
  <2>3. QED
      BY <2>1, <2>2 DEF Spared
<1> HIDE DEF t
<1>7. QED
    BY <1>1, <1>2, <1>3, <1>4, <1>6 DEF t

\* Before progress is counted.
LEMMA OutcomeKinded ==
    ASSUME NEW s, IsState(s), NEW e
    PROVE  Kinded(s, RecordOutcome(ByKind([s EXCEPT !.version = @ + 1], e), e), e)
<1> DEFINE v == [s EXCEPT !.version = @ + 1]
           k == ByKind(v, e)
           o == RecordOutcome(k, e)
<1>1. Spared(s, v)
    BY VersionDoes
<1>2. v.delivery = s.delivery /\ v.implementation = s.implementation
      /\ v.deliveryFiles = s.deliveryFiles /\ v.readiness = s.readiness
      /\ v.frontier = s.frontier
    BY DEF IsState, Empty
<1> HIDE DEF v
<1>3. AppliesToTarget(v, e) <=> AppliesToTarget(s, e)
    BY <1>2 DEF AppliesToTarget, Touched
<1>4. Kinded(v, k, e)
    BY <1>1, ByKindDoes DEF Spared, Aside
<1> HIDE DEF k
<1>5. Spared(k, o) /\ (IsCall(e) => o = k)
    BY <1>4, OutcomeDoes DEF Kinded, Plainly
<1> HIDE DEF o
<1>6. IsState(o) /\ Tiered(s, o)
    BY <1>1, <1>4, <1>5 DEF Kinded, Plainly, Spared, Aside, Tiered
<1>7. Counters(s, o, e)
  <2>1. Uncounted(s, v) /\ Counters(v, k, e) /\ Uncounted(k, o)
      BY <1>1, <1>4, <1>5 DEF Kinded, Plainly, Spared, Aside
  <2>2. QED
      BY <2>1 DEF Counters, Uncounted, Counted1
<1>8. Said(s, o, e)
  <2>1. Uncounted(s, v) /\ Said(v, k, e) /\ Uncounted(k, o)
      BY <1>1, <1>4, <1>5 DEF Kinded, Plainly, Spared, Aside
  <2>2. QED
      BY <2>1 DEF Said, Uncounted
<1>9. IF IsCall(e) THEN HypCall(s, o, e) ELSE HypSame(s, o)
  <2>1. HypSame(s, v) /\ HypSame(k, o)
      BY <1>1, <1>5 DEF Spared, Aside
  <2>2. IF IsCall(e) THEN HypCall(v, k, e) ELSE HypSame(v, k)
      BY <1>4 DEF Kinded, Plainly
  <2>3. CASE IsCall(e)
    <3>1. o = k
        BY <1>5, <2>3
    <3>2. HypCall(s, k, e)
        BY <2>1, <2>2, <2>3 DEF HypCall, HypSame
    <3>3. QED
        BY <2>3, <3>1, <3>2
  <2>4. CASE ~IsCall(e)
      BY <2>1, <2>2, <2>4 DEF HypSame
  <2>5. QED
      BY <2>3, <2>4
<1>10. o.readiness = ReadyAfter(s, e, AppliesToTarget(s, e))
  <2>1. k.readiness = ReadyAfter(v, e, AppliesToTarget(v, e)) /\ o.readiness = k.readiness
      BY <1>4, <1>5 DEF Kinded, Spared, Ripe
  <2>2. QED
      BY <1>2, <1>3, <2>1 DEF ReadyAfter
<1>11. o.frontier = FrontierAfter(s, e)
  <2>1. k.frontier = FrontierAfter(v, e) /\ o.frontier = k.frontier
      BY <1>4, <1>5 DEF Kinded, Spared, Ripe
  <2>2. QED
      BY <1>2, <2>1 DEF FrontierAfter
<1>12. QED
    BY <1>6, <1>7, <1>8, <1>9, <1>10, <1>11 DEF Kinded, Plainly, o, k, v

LEMMA CountProgressDoes ==
    ASSUME NEW s, NEW o, IsState(o), NEW e,
           o.exploration \in Nat, o.explorationSince \in Nat
    PROVE  LET t == CountProgress(s, o, e)
           IN  /\ IsState(t) /\ Uncounted(o, t) /\ HypSame(o, t) /\ Ripe(o, t)
               /\ t.strong = o.strong /\ t.candidate = o.candidate
               /\ t.progressKind = o.progressKind
               /\ t.exploration = Bump(o.exploration, Explores(s, e))
               /\ t.explorationSince = Bump(o.explorationSince, Explores(s, e))
               /\ t.implementation = Bump(o.implementation, IsImplementation(e))
               /\ t.validation = Bump(o.validation, Validates(s, e))
               /\ t.delivery = Bump(o.delivery, IsDelivery(e))
<1> DEFINE t == CountProgress(s, o, e)
           X == Explores(s, e)
           V == Validates(s, e)
           I == IsImplementation(e)
           D == IsDelivery(e)
           x == IF X THEN 1 ELSE 0
           c == [o EXCEPT
                  !.exploration = @ + x, !.explorationSince = @ + x,
                  !.explorationSinceReplan = IF o.replan # 0 THEN @ + x ELSE @,
                  !.explorationSinceHyp = IF o.hypEvent # 0 THEN @ + x ELSE @,
                  !.implementation = IF I THEN @ + 1 ELSE @,
                  !.validation = IF V THEN @ + 1 ELSE @,
                  !.delivery = IF D THEN @ + 1 ELSE @]
<1>1. t = c
    BY DEF CountProgress
<1> HIDE DEF t, X, V, I, D
<1>2. /\ c.exploration = Bump(o.exploration, X)
      /\ c.explorationSince = Bump(o.explorationSince, X)
  <2> DEFINE a == o.exploration + x
             b == o.explorationSince + x
  <2>1. a = Bump(o.exploration, X) /\ b = Bump(o.explorationSince, X)
      BY DEF Bump
  <2> HIDE DEF a, b
  <2>2. c.exploration = a /\ c.explorationSince = b
      BY DEF IsState, Empty, a, b
  <2>3. QED
      BY <2>1, <2>2
<1> HIDE DEF x
<1>3. IsState(c)
    BY DEF IsState, Empty
<1>4. Uncounted(o, c)
    BY DEF IsState, Empty, Uncounted, Counted1
<1>5. HypSame(o, c) /\ Ripe(o, c)
    BY DEF IsState, Empty, HypSame, InForce, Ripe
<1>6. c.strong = o.strong /\ c.candidate = o.candidate /\ c.progressKind = o.progressKind
    BY DEF IsState, Empty
<1>7. /\ c.implementation = Bump(o.implementation, I)
      /\ c.validation = Bump(o.validation, V) /\ c.delivery = Bump(o.delivery, D)
    BY DEF IsState, Empty, Bump
<1> HIDE DEF c
<1>8. QED
    BY <1>1, <1>2, <1>3, <1>4, <1>5, <1>6, <1>7 DEF t, X, V, I, D

\* Of what progress resets: all but what is counted over the trial.
LEMMA ResetDoes ==
    ASSUME NEW s, NEW c, IsState(c), NEW e
    PROVE  LET t == Reset(s, c, e)
           IN  /\ IsState(t) /\ Restarted(s, t, e)
               /\ t.calls = c.calls /\ t.stalls = c.stalls
               /\ t.deliveryFiles = c.deliveryFiles /\ t.testRuns = c.testRuns
               /\ t.replans = c.replans /\ t.exploration = c.exploration
               /\ t.implementation = c.implementation
               /\ t.validation = c.validation /\ t.delivery = c.delivery
               /\ t.strong = Bump(c.strong, IsStrong(e))
               /\ t.candidate = Bump(c.candidate, ~IsStrong(e))
               /\ t.action = c.action /\ t.finish = c.finish
               /\ t.readiness = c.readiness
               /\ t.frontier = IF ClearsFrontier(s, e) THEN 0 ELSE c.frontier
<1> DEFINE t == Reset(s, c, e)
           S == IsStrong(e)
           C == ClearsFrontier(s, e)
           d == IF C THEN [c EXCEPT !.print = "", !.samePrint = 0, !.frontier = 0] ELSE c
           r == [d EXCEPT !.strong = IF S THEN @ + 1 ELSE @,
                  !.candidate = IF S THEN @ ELSE @ + 1,
                  !.eventsSince = 0, !.callsSince = 0, !.lengthSince = 0,
                  !.explorationSince = 0, !.stallsSince = 0,
                  !.appliedSince = 0, !.recoveredSince = 0, !.replan = 0,
                  !.callsSinceReplan = 0, !.explorationSinceReplan = 0,
                  !.lengthStreak = 0, !.active = FALSE,
                  !.progressEvent = e.id, !.progressKind = e.kind]
           u == [r EXCEPT !.hypStatus = "progressed", !.callsSinceHyp = 0,
                          !.explorationSinceHyp = 0]
<1>1. t = u \/ t = r
    BY DEF Reset, MarkProgressed
<1> HIDE DEF t, S, C
<1>2. IsState(d) /\ d.frontier = (IF C THEN 0 ELSE c.frontier)
    BY DEF IsState, Empty
<1>3. /\ d.calls = c.calls /\ d.stalls = c.stalls
      /\ d.deliveryFiles = c.deliveryFiles /\ d.testRuns = c.testRuns
      /\ d.replans = c.replans /\ d.exploration = c.exploration
      /\ d.implementation = c.implementation
    BY DEF IsState, Empty
<1>4. /\ d.validation = c.validation /\ d.delivery = c.delivery
      /\ d.strong = c.strong /\ d.candidate = c.candidate
      /\ d.action = c.action /\ d.finish = c.finish /\ d.readiness = c.readiness
    BY DEF IsState, Empty
<1> HIDE DEF d
<1>5. /\ r.calls = d.calls /\ r.stalls = d.stalls
      /\ r.deliveryFiles = d.deliveryFiles /\ r.testRuns = d.testRuns
      /\ r.replans = d.replans /\ r.exploration = d.exploration
      /\ r.implementation = d.implementation
    BY <1>2 DEF IsState, Empty
<1>6. /\ r.validation = d.validation /\ r.delivery = d.delivery
      /\ r.action = d.action /\ r.finish = d.finish /\ r.readiness = d.readiness
      /\ r.frontier = d.frontier
    BY <1>2 DEF IsState, Empty
<1>7. /\ r.strong = Bump(d.strong, S) /\ r.candidate = Bump(d.candidate, ~S)
    BY <1>2 DEF IsState, Empty, Bump
<1>8. IsState(r) /\ Restarted(s, r, e)
    BY <1>2 DEF IsState, Empty, Restarted
<1> HIDE DEF r
<1>9. /\ u.calls = r.calls /\ u.stalls = r.stalls
      /\ u.deliveryFiles = r.deliveryFiles /\ u.testRuns = r.testRuns
      /\ u.replans = r.replans /\ u.exploration = r.exploration
      /\ u.implementation = r.implementation
    BY <1>8 DEF IsState, Empty
<1>10. /\ u.validation = r.validation /\ u.delivery = r.delivery
       /\ u.action = r.action /\ u.finish = r.finish /\ u.readiness = r.readiness
       /\ u.frontier = r.frontier /\ u.strong = r.strong /\ u.candidate = r.candidate
    BY <1>8 DEF IsState, Empty
<1>11. IsState(u) /\ Restarted(s, u, e)
    BY <1>8 DEF IsState, Empty, Restarted
<1> HIDE DEF u
<1>12. /\ t.calls = c.calls /\ t.stalls = c.stalls
       /\ t.deliveryFiles = c.deliveryFiles /\ t.testRuns = c.testRuns
       /\ t.replans = c.replans /\ t.exploration = c.exploration
       /\ t.implementation = c.implementation
    BY <1>1, <1>3, <1>5, <1>9
<1>13. /\ t.validation = c.validation /\ t.delivery = c.delivery
       /\ t.action = c.action /\ t.finish = c.finish /\ t.readiness = c.readiness
       /\ t.frontier = (IF C THEN 0 ELSE c.frontier)
    BY <1>1, <1>2, <1>4, <1>6, <1>10
<1>14. t.strong = Bump(c.strong, S) /\ t.candidate = Bump(c.candidate, ~S)
    BY <1>1, <1>4, <1>7, <1>10
<1>15. IsState(t) /\ Restarted(s, t, e)
    BY <1>1, <1>8, <1>11
<1>16. QED
    BY <1>12, <1>13, <1>14, <1>15 DEF t, S, C

LEMMA ProgressMoves ==
    ASSUME NEW s, IsState(s), s.exploration \in Nat, s.explorationSince \in Nat,
           NEW o, NEW e, Kinded(s, o, e)
    PROVE  LET t == CountProgress(s, o, e)
           IN  Moved(s, IF Progresses(s, e) THEN Reset(s, t, e)
                        ELSE [t EXCEPT !.eventsSince = @ + 1], e)
<1> DEFINE t == CountProgress(s, o, e)
           r == Reset(s, t, e)
           q == [t EXCEPT !.eventsSince = @ + 1]
<1>1. IsState(o) /\ Tiered(s, o) /\ Counters(s, o, e) /\ Said(s, o, e)
      /\ (IF IsCall(e) THEN HypCall(s, o, e) ELSE HypSame(s, o))
      /\ o.readiness = ReadyAfter(s, e, AppliesToTarget(s, e))
      /\ o.frontier = FrontierAfter(s, e)
    BY DEF Kinded, Plainly
<1>2. /\ o.exploration = s.exploration /\ o.explorationSince = s.explorationSince
      /\ o.implementation = s.implementation /\ o.validation = s.validation
      /\ o.delivery = s.delivery /\ o.strong = s.strong /\ o.candidate = s.candidate
      /\ o.progressKind = s.progressKind
    BY <1>1 DEF Tiered
<1>3. /\ IsState(t) /\ Uncounted(o, t) /\ HypSame(o, t) /\ Ripe(o, t)
      /\ t.strong = o.strong /\ t.candidate = o.candidate
      /\ t.progressKind = o.progressKind
      /\ t.exploration = Bump(o.exploration, Explores(s, e))
      /\ t.explorationSince = Bump(o.explorationSince, Explores(s, e))
      /\ t.implementation = Bump(o.implementation, IsImplementation(e))
      /\ t.validation = Bump(o.validation, Validates(s, e))
      /\ t.delivery = Bump(o.delivery, IsDelivery(e))
    BY <1>1, <1>2, CountProgressDoes
<1> HIDE DEF t
<1>4. /\ t.calls = Bump(s.calls, IsCall(e))
      /\ t.stalls = Bump(s.stalls, e.kind = "execution_stall")
      /\ t.deliveryFiles = Bump(s.deliveryFiles, IsDelivery(e))
      /\ t.testRuns = Bump(s.testRuns, e.kind = "test_run")
      /\ t.replans = Bump(s.replans, IsCall(e) /\ e.action = "freeze_or_replan")
    BY <1>1, <1>3 DEF Counters, Uncounted, Counted1
<1>5. /\ t.callsSince = Bump(s.callsSince, IsCall(e))
      /\ t.stallsSince = Bump(s.stallsSince, e.kind = "execution_stall")
      /\ t.lengthSince = Bump(s.lengthSince, IsCall(e) /\ IsLength(e))
      /\ t.appliedSince = Bump(s.appliedSince, FromRule(e, ApplyRule))
      /\ t.recoveredSince = Bump(s.recoveredSince, FromRule(e, ApplyRecoveryRule))
    BY <1>1, <1>3 DEF Counters, Uncounted, Counted1
<1>6. Said(s, t, e)
    BY <1>1, <1>3 DEF Said, Uncounted
<1>7. IF IsCall(e) THEN HypCall(s, t, e) ELSE HypSame(s, t)
    BY <1>1, <1>3 DEF HypCall, HypSame
<1>8. t.readiness = ReadyAfter(s, e, AppliesToTarget(s, e)) /\ t.frontier = FrontierAfter(s, e)
    BY <1>1, <1>3 DEF Ripe
<1>9. CASE Progresses(s, e)
  <2>1. /\ IsState(r) /\ Restarted(s, r, e)
        /\ r.calls = t.calls /\ r.stalls = t.stalls
        /\ r.deliveryFiles = t.deliveryFiles /\ r.testRuns = t.testRuns
        /\ r.replans = t.replans /\ r.exploration = t.exploration
        /\ r.implementation = t.implementation
        /\ r.validation = t.validation /\ r.delivery = t.delivery
        /\ r.strong = Bump(t.strong, IsStrong(e))
        /\ r.candidate = Bump(t.candidate, ~IsStrong(e))
        /\ r.action = t.action /\ r.finish = t.finish
        /\ r.readiness = t.readiness
        /\ r.frontier = IF ClearsFrontier(s, e) THEN 0 ELSE t.frontier
      BY <1>3, ResetDoes
  <2> HIDE DEF r
  <2>2. Whole(s, r, e)
      BY <1>2, <1>3, <1>4, <1>9, <2>1 DEF Whole, Bump
  <2>3. Said(s, r, e)
      BY <1>6, <2>1 DEF Said
  <2>4. Ripened(s, r, e)
      BY <1>8, <1>9, <2>1 DEF Ripened
  <2>5. Moved(s, r, e)
      BY <1>9, <2>1, <2>2, <2>3, <2>4 DEF Moved
  <2>6. QED
      BY <1>9, <2>5 DEF r, t
<1>10. CASE ~Progresses(s, e)
  <2>1. ~IsStrong(e)
      BY <1>10 DEF Progresses
  <2>2. /\ IsState(q) /\ HypSame(t, q)
        /\ q.readiness = t.readiness /\ q.frontier = t.frontier
        /\ q.action = t.action /\ q.finish = t.finish
      BY <1>3 DEF IsState, Empty, HypSame, InForce
  <2>3. /\ q.calls = t.calls /\ q.stalls = t.stalls
        /\ q.deliveryFiles = t.deliveryFiles /\ q.testRuns = t.testRuns
        /\ q.replans = t.replans /\ q.exploration = t.exploration
      BY <1>3 DEF IsState, Empty
  <2>4. /\ q.implementation = t.implementation
        /\ q.validation = t.validation /\ q.delivery = t.delivery
        /\ q.strong = t.strong /\ q.candidate = t.candidate
      BY <1>3 DEF IsState, Empty
  <2>5. /\ q.callsSince = t.callsSince /\ q.stallsSince = t.stallsSince
        /\ q.lengthSince = t.lengthSince /\ q.appliedSince = t.appliedSince
        /\ q.recoveredSince = t.recoveredSince
        /\ q.explorationSince = t.explorationSince /\ q.progressKind = t.progressKind
      BY <1>3 DEF IsState, Empty
  <2> HIDE DEF q
  <2>6. Whole(s, q, e)
      BY <1>2, <1>3, <1>4, <1>10, <2>1, <2>3, <2>4 DEF Whole, Bump
  <2>7. Said(s, q, e)
      BY <1>6, <2>2 DEF Said
  <2>8. Ripened(s, q, e)
      BY <1>8, <1>10, <2>2 DEF Ripened
  <2>9. IF IsCall(e) THEN HypCall(s, q, e) ELSE HypSame(s, q)
      BY <1>7, <2>2 DEF HypCall, HypSame
  <2>10. Continued(s, q, e)
      BY <1>2, <1>3, <1>5, <2>5, <2>9 DEF Continued
  <2>11. Moved(s, q, e)
      BY <1>10, <2>2, <2>6, <2>7, <2>8, <2>10 DEF Moved
  <2>12. QED
      BY <1>10, <2>11 DEF q, t
<1>11. QED
    BY <1>9, <1>10

\* A change of what is derived.
LEMMA SparedMoves ==
    ASSUME NEW s, NEW t, NEW p, NEW e, Moved(s, t, e), Spared(t, p)
    PROVE  Moved(s, p, e)
<1>1. IsState(p) /\ Tiered(t, p) /\ Uncounted(t, p) /\ HypSame(t, p) /\ Ripe(t, p)
    BY DEF Spared, Aside
<1>2. Whole(s, p, e)
    BY <1>1 DEF Moved, Whole, Tiered, Uncounted, Counted1
<1>3. Said(s, p, e)
    BY <1>1 DEF Moved, Said, Uncounted
<1>4. Ripened(s, p, e)
    BY <1>1 DEF Moved, Ripened, Ripe
<1>5. CASE Progresses(s, e)
  <2>1. Restarted(s, p, e)
      BY <1>1, <1>5 DEF Moved, Restarted, Uncounted, Counted1, HypSame, Tiered
  <2>2. QED
      BY <1>1, <1>2, <1>3, <1>4, <1>5, <2>1 DEF Moved
<1>6. CASE ~Progresses(s, e)
  <2>1. Continued(s, t, e)
      BY <1>6 DEF Moved
  <2>2. IF IsCall(e) THEN HypCall(s, p, e) ELSE HypSame(s, p)
      BY <1>1, <2>1 DEF Continued, HypCall, HypSame
  <2>3. Continued(s, p, e)
      BY <1>1, <2>1, <2>2 DEF Continued, Uncounted, Counted1, Tiered
  <2>4. QED
      BY <1>1, <1>2, <1>3, <1>4, <1>6, <2>3 DEF Moved
<1>7. QED
    BY <1>5, <1>6

\* Nothing on the way changes the version.
LEMMA VersionStays ==
    ASSUME NEW s, IsState(s), NEW e
    PROVE  ByKind(s, e).version = s.version
<1>1. ASSUME NEW u, IsState(u) PROVE MarkStale(u).version = u.version
    BY <1>1 DEF MarkStale, IsState, Empty
<1>2. ASSUME NEW u, IsState(u) PROVE CloseRoute(u).version = u.version
    BY <1>2 DEF CloseRoute, MarkStale, IsState, Empty
<1>3. ASSUME NEW u, IsState(u) PROVE RecordFailure(u, e).version = u.version
    BY <1>3 DEF RecordFailure, IsState, Empty
<1>4. Call(s, e).version = s.version
  <2> DEFINE d == CountCall(s, e)
             c == OpenRoute(d, e)
             w == [c EXCEPT !.callsSinceReplan = @ + 1,
                            !.callsSinceHyp = IF c.hypEvent # 0 THEN @ + 1 ELSE @]
  <2>1. IsState(d) /\ d.version = s.version
      BY DEF CountCall, IsState, Empty
  <2>2. CloseRoute(d).version = s.version /\ IsState(CloseRoute(d))
      BY <1>2, <2>1, CloseRouteDoes
  <2>3. IsState(c) /\ c.version = s.version
      BY <2>2 DEF OpenRoute, IsState, Empty
  <2> HIDE DEF c
  <2>4. IsState(w) /\ w.version = s.version
      BY <2>3 DEF IsState, Empty
  <2>5. StartReplan(c, e).version = s.version
      BY <2>3 DEF StartReplan, IsState, Empty
  <2> HIDE DEF w
  <2>6. RecordHypothesis(w, e).version = s.version
      BY <2>4 DEF RecordHypothesis, IsState, Empty
  <2>7. Call(s, e) = IF e.action = "freeze_or_replan" THEN StartReplan(c, e)
                     ELSE IF c.replan = 0 THEN c ELSE RecordHypothesis(w, e)
      BY DEF Call, c, w
  <2>8. QED
      BY <2>3, <2>5, <2>6, <2>7
<1>5. File(s, e).version = s.version
    BY DEF File, IsState, Empty
<1>6. TestRun(s, e).version = s.version
  <2> DEFINE on == AppliesToTarget(s, e)
             r == [s EXCEPT !.testRuns = @ + 1]
             p == [r EXCEPT !.passed = @ + 1,
                            !.readiness = IF on THEN "validation_passed" ELSE @]
             f == [r EXCEPT !.failed = @ + 1,
                            !.readiness = IF on THEN "validation_failed" ELSE @,
                            !.reward = IF on THEN FALSE ELSE @]
  <2>1. TestRun(s, e) = IF e.outcome = "passed" THEN p
                        ELSE IF e.outcome = "failed" THEN RecordFailure(f, e) ELSE r
      BY DEF TestRun
  <2> HIDE DEF on
  <2>2. IsState(r) /\ r.version = s.version
      BY DEF IsState, Empty
  <2> HIDE DEF r
  <2>3. IsState(f) /\ f.version = s.version /\ p.version = s.version
      BY <2>2 DEF IsState, Empty
  <2> HIDE DEF f, p
  <2>4. QED
      BY <1>3, <2>1, <2>2, <2>3
<1>7. ASSUME ~IsCall(e), ~IsFile(e), e.kind # "test_run"
      PROVE  ByKind(s, e).version = s.version
  <2> DEFINE a == [s EXCEPT !.stalls = @ + 1, !.stallsSince = @ + 1]
             p == [s EXCEPT !.passed = @ + 1, !.readiness = "validation_passed"]
             f == [s EXCEPT !.failed = @ + 1, !.reward = FALSE,
                            !.readiness = "validation_failed"]
             v == [s EXCEPT !.reward = e.good,
                            !.readiness = IF e.good THEN "verifier_passed"
                                          ELSE "verifier_failed"]
             n == [s EXCEPT !.noProgress = @ + 1, !.active = TRUE]
  <2>1. \/ ByKind(s, e) = MarkStale(a) \/ ByKind(s, e) = p
        \/ ByKind(s, e) = RecordFailure(f, e) \/ ByKind(s, e) = v
        \/ ByKind(s, e) = MarkStale(n) \/ ByKind(s, e) = s
      BY <1>7 DEF ByKind
  <2>2. IsState(a) /\ IsState(f) /\ IsState(n)
      BY DEF IsState, Empty
  <2>3. a.version = s.version /\ p.version = s.version /\ f.version = s.version
        /\ v.version = s.version /\ n.version = s.version
      BY DEF IsState, Empty
  <2> HIDE DEF a, p, f, v, n
  <2>4. MarkStale(a).version = s.version /\ MarkStale(n).version = s.version
        /\ RecordFailure(f, e).version = s.version
      BY <1>1, <1>3, <2>2, <2>3
  <2>5. QED
      BY <2>1, <2>3, <2>4
<1>8. /\ IsCall(e) => ByKind(s, e) = Call(s, e)
      /\ IsFile(e) => ByKind(s, e) = File(s, e)
      /\ e.kind = "test_run" => ByKind(s, e) = TestRun(s, e)
    BY DEF ByKind, IsFile, IsCall
<1>9. QED
    BY <1>4, <1>5, <1>6, <1>7, <1>8

LEMMA VersionKept ==
    ASSUME NEW s, IsState(s), NEW e
    PROVE  LET k == ByKind([s EXCEPT !.version = @ + 1], e)
               t == CountProgress(s, RecordOutcome(k, e), e)
           IN  /\ t.version = s.version + 1
               /\ Reset(s, t, e).version = s.version + 1
<1> DEFINE v == [s EXCEPT !.version = @ + 1]
           k == ByKind(v, e)
           o == RecordOutcome(k, e)
           t == CountProgress(s, o, e)
           N == s.version + 1
<1>1. IsState(v) /\ v.version = N
    BY DEF IsState, Empty
<1> HIDE DEF v, N
<1>2. IsState(k) /\ k.version = N
    BY <1>1, ByKindDoes, VersionStays DEF Kinded, Plainly
<1> HIDE DEF k
<1>3. IsState(o) /\ o.version = N
  <2> DEFINE a == [k EXCEPT !.routeLabel = RouteOutcome(e)[1], !.routeEvents = @ + 1]
  <2>1. IsState(a) /\ a.version = N
      BY <1>2 DEF IsState, Empty
  <2>2. o = k \/ o = a \/ o = MarkStale(a)
      BY DEF RecordOutcome
  <2> HIDE DEF a
  <2>3. IsState(MarkStale(a)) /\ MarkStale(a).version = N
      BY <2>1 DEF MarkStale, IsState, Empty
  <2>4. QED
      BY <1>2, <2>1, <2>2, <2>3
<1> HIDE DEF o
<1>4. IsState(t) /\ t.version = N
    BY <1>3 DEF CountProgress, IsState, Empty
<1> HIDE DEF t
<1>5. Reset(s, t, e).version = N
    BY <1>4 DEF Reset, MarkProgressed, IsState, Empty
<1>6. QED
    BY <1>4, <1>5 DEF t, o, k, v, N

\* What is derived is derived from the state that is kept.
Reckoned(p) ==
    /\ p.reason = NextCapability(p)[2]
    /\ (p.callsSince \in Nat /\ p.active) => p.severity \in {"blocked", "stale"}

Told(t, a, b, c) == [t EXCEPT !.capability = a, !.reason = b, !.hint = c]

LEMMA CapabilityReads ==
    ASSUME NEW t, IsState(t), NEW a, NEW b, NEW c
    PROVE  NextCapability(Told(t, a, b, c)) = NextCapability(t)
<1> DEFINE p == Told(t, a, b, c)
<1>1. /\ p.version = t.version /\ p.print = t.print /\ p.samePrint = t.samePrint
      /\ p.readiness = t.readiness /\ p.action = t.action /\ p.finish = t.finish
      /\ p.candidate = t.candidate
    BY DEF Told, IsState, Empty
<1>2. /\ p.strong = t.strong /\ p.route = t.route /\ p.routeLabel = t.routeLabel
      /\ p.stallsSince = t.stallsSince /\ p.progressKind = t.progressKind
      /\ p.appliedSince = t.appliedSince /\ p.recoveredSince = t.recoveredSince
    BY DEF Told, IsState, Empty
<1>3. /\ p.deliveryFiles = t.deliveryFiles /\ p.delivery = t.delivery
      /\ p.validation = t.validation /\ p.testRuns = t.testRuns
      /\ p.implementation = t.implementation /\ p.callsSince = t.callsSince
      /\ p.explorationSince = t.explorationSince
    BY DEF Told, IsState, Empty
<1>4. /\ p.lengthSince = t.lengthSince /\ p.recent = t.recent /\ p.replan = t.replan
      /\ p.hyp = t.hyp /\ p.hypStatus = t.hypStatus /\ p.severity = t.severity
      /\ p.active = t.active
    BY DEF Told, IsState, Empty
<1> HIDE DEF p
<1>5. RouteLabel(p) = RouteLabel(t)
    BY <1>2 DEF RouteLabel
<1>6. ApplyTruncated(p) <=> ApplyTruncated(t)
    BY <1>1, <1>2, <1>5 DEF ApplyTruncated, NoCandidate
<1>7. (Stalled(p) <=> Stalled(t)) /\ (Applied(p) <=> Applied(t))
    BY <1>2 DEF Stalled, Applied
<1>8. NeedsDelivery(p) <=> NeedsDelivery(t)
    BY <1>1, <1>3, <1>4 DEF NeedsDelivery
<1>9. FloorExhausted(p) <=> FloorExhausted(t)
    BY <1>4 DEF FloorExhausted, CountIn
<1>10. NeedsApplication(p) <=> NeedsApplication(t)
    BY <1>1, <1>2, <1>4 DEF NeedsApplication, NoCandidate
<1>11. NextCapability(p) = NextCapability(t)
    BY <1>1, <1>2, <1>4, <1>5, <1>6, <1>7, <1>8, <1>9, <1>10 DEF NextCapability
<1>12. QED
    BY <1>11 DEF p

LEMMA DeriveDoes ==
    ASSUME NEW u, IsState(u)
    PROVE  LET p == Derive(u)
           IN  Spared(u, p) /\ Reckoned(p) /\ p.version = u.version
<1> DEFINE v == Severity(u)
           t == [u EXCEPT !.severity = v]
           n == NextCapability(t)
           p == Told(t, n[1], n[2], n[3])
<1>1. Derive(u) = p
    BY DEF Derive, Told
<1>2. u.callsSince \in Nat /\ u.active => v \in {"blocked", "stale"}
  <2>1. BlockedAfter \in Nat
      BY ProjectionAssumption
  <2> SUFFICES ASSUME u.callsSince \in Nat, u.active PROVE v \in {"blocked", "stale"}
      OBVIOUS
  <2> DEFINE far == u.callsSince >= BlockedAfter
             near == u.callsSince < BlockedAfter
             low == IF /\ RecentLength(u) + CountIn(u.recent, IsError) >= PressureLimit
                       /\ ~\E i \in DOMAIN u.recent :
                              IsStrong(u.recent[i]) \/ IsCandidate(u.recent[i])
                    THEN "stale"
                    ELSE IF RecentLength(u) + CountIn(u.recent, IsError) > 0
                    THEN "watch" ELSE "none"
  <2>2. v = CASE far -> "blocked" [] near /\ u.active -> "stale"
              [] near /\ ~u.active -> low
      BY DEF Severity, RecentLength, CountIn
  <2>3. far <=> ~near
      BY <2>1
  <2> HIDE DEF v, far, near, low
  <2>4. QED
      BY <2>2, <2>3
<1> HIDE DEF v
<1>3. IsState(t) /\ Tiered(u, t) /\ t.version = u.version
    BY DEF IsState, Empty, Tiered
<1>4. Uncounted(u, t)
    BY DEF IsState, Empty, Uncounted, Counted1
<1>5. HypSame(u, t) /\ Ripe(u, t)
    BY DEF IsState, Empty, HypSame, InForce, Ripe
<1>6. t.severity = v /\ t.callsSince = u.callsSince /\ t.active = u.active
    BY DEF IsState, Empty
<1> HIDE DEF t
<1>7. NextCapability(p) = n
    BY <1>3, CapabilityReads
<1> HIDE DEF n
<1>8. IsState(p) /\ Tiered(t, p) /\ p.version = t.version
    BY <1>3 DEF Told, IsState, Empty, Tiered
<1>9. Uncounted(t, p)
    BY <1>3 DEF Told, IsState, Empty, Uncounted, Counted1
<1>10. HypSame(t, p) /\ Ripe(t, p)
    BY <1>3 DEF Told, IsState, Empty, HypSame, InForce, Ripe
<1>11. p.severity = t.severity /\ p.callsSince = t.callsSince /\ p.active = t.active
       /\ p.reason = n[2]
    BY <1>3 DEF Told, IsState, Empty
<1> HIDE DEF p
<1>12. Aside(u, p)
    BY <1>3, <1>4, <1>5, <1>8, <1>9, <1>10, AsideTwice DEF Aside
<1>13. Ripe(u, p) /\ p.version = u.version
    BY <1>3, <1>5, <1>8, <1>10 DEF Ripe
<1>14. Reckoned(p)
    BY <1>2, <1>6, <1>7, <1>11 DEF Reckoned
<1>15. QED
    BY <1>1, <1>12, <1>13, <1>14 DEF Spared

LEMMA KeepDoes ==
    ASSUME NEW u, IsState(u), NEW e
    PROVE  Spared(u, Keep(u, e)) /\ Keep(u, e).version = u.version
<1> DEFINE r == LET l == Append(u.recent, e)
                IN IF Len(l) > RecentEvents THEN Tail(l) ELSE l
           t == [u EXCEPT !.recent = r]
<1>1. Keep(u, e) = t
    BY DEF Keep
<1> HIDE DEF r
<1>2. IsState(t) /\ Tiered(u, t) /\ t.version = u.version
    BY DEF IsState, Empty, Tiered
<1>3. Uncounted(u, t)
    BY DEF IsState, Empty, Uncounted, Counted1
<1>4. HypSame(u, t) /\ Ripe(u, t)
    BY DEF IsState, Empty, HypSame, InForce, Ripe
<1> HIDE DEF t
<1>5. QED
    BY <1>1, <1>2, <1>3, <1>4 DEF Spared, Aside

\* projectEpisodeEvent, as far as the record is compared with it.
LEMMA ProjectDoes ==
    ASSUME NEW s, IsState(s), s.exploration \in Nat, s.explorationSince \in Nat, NEW e
    PROVE  LET p == Project(s, e)
           IN  Moved(s, p, e) /\ Reckoned(p) /\ p.version = s.version + 1
<1> DEFINE k == ByKind([s EXCEPT !.version = @ + 1], e)
           o == RecordOutcome(k, e)
           t == CountProgress(s, o, e)
           q == [t EXCEPT !.eventsSince = @ + 1]
           u == IF Progresses(s, e) THEN Reset(s, t, e) ELSE q
           w == Keep(u, Annotated(s, e))
           p == Derive(w)
<1>1. Kinded(s, o, e)
    BY OutcomeKinded
<1>2. t.version = s.version + 1 /\ Reset(s, t, e).version = s.version + 1
    BY VersionKept
<1>3. Project(s, e) = p
    BY DEF Project
<1> HIDE DEF k, o
<1>4. Moved(s, u, e)
    BY <1>1, ProgressMoves
<1>5. IsState(t)
    BY <1>1, CountProgressDoes DEF Kinded, Plainly, Tiered
<1> HIDE DEF t
<1>6. q.version = t.version
    BY <1>5 DEF IsState, Empty
<1> HIDE DEF q
<1>7. u.version = s.version + 1 /\ IsState(u)
    BY <1>2, <1>4, <1>6 DEF Moved
<1> HIDE DEF u
<1>8. Spared(u, w) /\ w.version = u.version
    BY <1>7, KeepDoes
<1> HIDE DEF w
<1>9. Spared(w, p) /\ Reckoned(p) /\ p.version = w.version
    BY <1>8, DeriveDoes DEF Spared, Aside
<1> HIDE DEF p
<1>10. Moved(s, p, e)
    BY <1>4, <1>8, <1>9, SparedMoves
<1>11. QED
    BY <1>3, <1>7, <1>8, <1>9, <1>10

------------------------------------------------------------------------------
(* The state of the router is a fold, too; files come before the tests *)

LEMMA FoldJoined ==
    ASSUME NEW fold, NEW base, NEW q, IsSeq(q), NEW t, IsSeq(t)
    PROVE  Fold(fold, base, q \o t) = Fold(fold, Fold(fold, base, q), t)
<1> DEFINE p == q \o t
           m == Len(q)
           n == Len(t)
           B == Fold(fold, base, q)
           S == {k \in 0 .. n : Fold(fold, base, Prefix(p, m + k)) = Fold(fold, B, Prefix(t, k))}
<1>1. /\ IsSeq(p) /\ Len(p) = m + n /\ m \in Nat /\ n \in Nat /\ Prefix(p, m) = q
      /\ \A i \in 1 .. n : p[m + i] = t[i]
  <2>1. m \in Nat /\ n \in Nat
      BY InRange
  <2>2. QED
      BY <2>1, Joined
<1> HIDE DEF p, m, n
<1>2. 0 \in S
  <2>1. m + 0 = m /\ Prefix(t, 0) = <<>> /\ 0 \in 0 .. n
      BY <1>1, PrefixSteps
  <2>2. Prefix(p, m + 0) = q /\ Fold(fold, B, <<>>) = B
      BY <1>1, <2>1, FoldNone
  <2>3. QED
      BY <2>1, <2>2 DEF B
<1> HIDE DEF B
<1>3. ASSUME NEW k \in 1 .. n, k - 1 \in S PROVE k \in S
  <2>1. k \in 0 .. n /\ k - 1 \in 0 .. n /\ m + k \in 1 .. Len(p) /\ m + k - 1 = m + (k - 1)
        /\ m + (k - 1) \in 0 .. Len(p)
      BY <1>1
  <2> DEFINE a == Prefix(p, m + (k - 1))
             b == Prefix(t, k - 1)
  <2>2. Prefix(p, m + k) = Append(a, p[m + k]) /\ IsSeq(a)
      BY <1>1, <2>1, PrefixSteps
  <2>3. Prefix(t, k) = Append(b, t[k]) /\ IsSeq(b)
      BY <1>1, <2>1, PrefixSteps DEF n
  <2>4. Fold(fold, base, a) = Fold(fold, B, b) /\ p[m + k] = t[k]
      BY <1>1, <1>3
  <2> HIDE DEF a, b
  <2>5. Fold(fold, base, Append(a, p[m + k])) = Step(fold, Fold(fold, base, a), p[m + k])
      BY <2>2, FoldMore
  <2>6. Fold(fold, B, Append(b, t[k])) = Step(fold, Fold(fold, B, b), t[k])
      BY <2>3, FoldMore
  <2>7. Fold(fold, base, Prefix(p, m + k)) = Fold(fold, B, Prefix(t, k))
      BY <2>2, <2>3, <2>4, <2>5, <2>6
  <2>8. QED
      BY <2>1, <2>7
<1> HIDE DEF S
<1>4. 0 .. n \subseteq S
    BY <1>1, <1>2, <1>3, UpTo
<1>5. n \in S
    BY <1>1, <1>4
<1>6. Fold(fold, base, Prefix(p, m + n)) = Fold(fold, B, Prefix(t, n))
    BY <1>5 DEF S
<1>7. Prefix(p, m + n) = p /\ Prefix(t, n) = t
    BY <1>1, PrefixSteps DEF n
<1>8. QED
    BY <1>6, <1>7 DEF p, B

\* After the tests only the patch of the agent is a file.
Ordered(q) ==
    \A i \in 1 .. Len(q) : q[i].kind = "test_passed" =>
        /\ \E v \in Verdicts : v.kind = "test_passed"
        /\ \A j \in 1 .. Len(q) : i < j /\ IsFile(q[j]) => q[j].source # ""

LEMMA EventsBelong ==
    ASSUME Now \in Nat, Len(log) \in Nat, NEW i \in Acts \cup Verdicts, NEW es \in EventsOf(i)
    PROVE  /\ i \in Acts => \A j \in 1 .. Len(es) : es[j].kind # "test_passed"
           /\ i \notin Acts => /\ Len(es) = 1 /\ i \in Verdicts /\ es[1].kind = i.kind
                               /\ IsFile(es[1]) => es[1].source # ""
<1>1. ASSUME "tool" \in DOMAIN i, i \in Acts
      PROVE  \A j \in 1 .. Len(es) : es[j].kind # "test_passed"
  <2>1. es \in ToolOf(i)
      BY <1>1 DEF EventsOf
  <2>2. QED
      BY <2>1, ToolFresh DEF IsToolEvent
<1>2. ASSUME "tool" \notin DOMAIN i, i \in Acts
      PROVE  \A j \in 1 .. Len(es) : es[j].kind # "test_passed"
  <2>1. es \in CallOf(i)
      BY <1>2 DEF EventsOf
  <2>2. IsEvent(i) /\ IsCall(i)
      BY <1>2, TrialAssumption
  <2>3. Len(es) = 1 /\ es[1].kind = i.kind
      BY <2>1, <2>2, CallFresh DEF IsOne, IsCall
  <2>4. QED
      BY <2>2, <2>3 DEF IsCall
<1>3. ASSUME i \notin Acts
      PROVE  /\ Len(es) = 1 /\ i \in Verdicts /\ es[1].kind = i.kind
             /\ IsFile(es[1]) => es[1].source # ""
  <2>1. /\ i \in Verdicts /\ IsEvent(i) /\ i.action = "" /\ i.hyp = ""
        /\ \/ i.kind = "file_modified" /\ i.source = "agent_patch"
           \/ i.kind = "test_passed" /\ i.failed = 0
           \/ i.kind \in {"test_failed", "verifier_result", "run_exception"}
      BY <1>3, TrialAssumption
  <2>2. "tool" \notin DOMAIN Blank("")
      BY DEF Blank
  <2>3. "tool" \notin DOMAIN i
      BY <2>1, <2>2 DEF IsEvent
  <2>4. es \in CallOf(i)
      BY <2>3 DEF EventsOf
  <2>5. Len(es) = 1 /\ es[1].kind = i.kind /\ es[1].source = i.source
      BY <2>1, <2>4, CallFresh DEF IsOne
  <2>6. QED
      BY <2>1, <2>5 DEF IsFile
<1>4. QED
    BY <1>1, <1>2, <1>3

LEMMA OrderedMore ==
    ASSUME Now \in Nat, IsSeq(log), Ordered(log), NEW i \in Acts \cup Verdicts,
           i \in Acts => ~Done, NEW es \in EventsOf(i)
    PROVE  Ordered(log \o es)
<1> DEFINE m == Len(log)
           n == Len(es)
           q == log \o es
<1>1. m \in Nat /\ DOMAIN log = 1 .. m
    BY InRange
<1>2. IsSeq(es) /\ n \in Nat
    BY <1>1, EventsFresh, InRange DEF Fresh
<1>3. /\ Len(q) = m + n /\ \A a \in 1 .. m : q[a] = log[a]
      /\ \A a \in 1 .. n : q[m + a] = es[a]
    BY <1>2, Joined
<1>4. /\ i \in Acts => \A j \in 1 .. n : es[j].kind # "test_passed"
      /\ i \notin Acts => /\ n = 1 /\ i \in Verdicts /\ es[1].kind = i.kind
                          /\ IsFile(es[1]) => es[1].source # ""
    BY <1>1, EventsBelong
<1>5. \A j : IsFile(es[j]) <=> es[j].kind \in {"file_written", "file_modified"}
    BY DEF IsFile
<1> HIDE DEF q, n, m
<1> SUFFICES ASSUME NEW a \in 1 .. Len(q), q[a].kind = "test_passed"
             PROVE  /\ \E v \in Verdicts : v.kind = "test_passed"
                    /\ \A j \in 1 .. Len(q) : a < j /\ IsFile(q[j]) => q[j].source # ""
    BY DEF Ordered, q
<1>6. CASE a \in 1 .. m
  <2>1. /\ log[a].kind = "test_passed" /\ \E v \in Verdicts : v.kind = "test_passed"
        /\ \A j \in 1 .. m : a < j /\ IsFile(log[j]) => log[j].source # ""
      BY <1>3, <1>6 DEF Ordered, m
  <2>2. Done
      BY <1>1, <1>6, <2>1 DEF Done, m
  <2>3. n = 1 /\ (IsFile(es[1]) => es[1].source # "")
      BY <1>4, <2>2
  <2>4. ASSUME NEW j \in 1 .. Len(q), IsFile(q[j]), a < j PROVE q[j].source # ""
    <3>1. CASE j \in 1 .. m
        BY <1>3, <2>1, <2>4, <3>1
    <3>2. CASE j \notin 1 .. m
      <4>1. Len(q) = m + 1 /\ m \in Nat
          BY <1>1, <1>3, <2>3
      <4>2. \A z \in 1 .. m + 1 : z \in 1 .. m \/ z = m + 1
          BY <4>1
      <4>3. j \in 1 .. m + 1
          BY <4>1
      <4>4. j = m + 1
          BY <3>2, <4>2, <4>3
      <4>5. 1 \in 1 .. 1
          OBVIOUS
      <4>6. j = m + 1 /\ 1 \in 1 .. n
          BY <2>3, <4>4, <4>5
      <4>7. QED
          BY <1>3, <2>3, <2>4, <4>6
    <3>3. QED
        BY <3>1, <3>2
  <2>5. QED
      BY <2>1, <2>4
<1>7. CASE a \notin 1 .. m
  <2> DEFINE c == a - m
  <2>1. c \in 1 .. n /\ a = m + c
      BY <1>1, <1>2, <1>3, <1>7
  <2>2. es[c].kind = "test_passed"
      BY <1>3, <2>1
  <2>3. i \notin Acts
      BY <1>4, <2>1, <2>2
  <2> HIDE DEF c
  <2>4. n = 1 /\ i \in Verdicts /\ es[1].kind = i.kind
      BY <1>4, <2>3
  <2>5. c = 1
      BY <2>1, <2>4
  <2>6. n = 1 /\ c = 1 /\ i \in Verdicts /\ i.kind = "test_passed"
      BY <2>2, <2>4, <2>5
  <2>7. \A j \in 1 .. Len(q) : ~(a < j)
      BY <1>1, <1>3, <2>1, <2>6
  <2>8. QED
      BY <2>6, <2>7
<1>8. QED
    BY <1>6, <1>7

\* What the router has is the fold of the log.
LInv == OInv /\ live = Fold("project", Empty, log) /\ Ordered(log)

LEMMA LInvInit == Init => LInv
<1> SUFFICES ASSUME Init PROVE LInv
    OBVIOUS
<1>1. OInv
    BY OInvInit
<1>2. live = Empty /\ log = <<>>
    BY DEF Init
<1>3. Ordered(<<>>)
    BY NoneYet DEF Ordered
<1>4. QED
    BY <1>1, <1>2, <1>3, FoldNone DEF LInv

\* A step appends what one act or verdict makes; the router takes it in, event
\* by event, and the tests come when the agent is done.
LEMMA LInvNext == LInv /\ [Next]_vars => LInv'
<1> SUFFICES ASSUME LInv, [Next]_vars PROVE LInv'
    OBVIOUS
<1>1. OInv'
    BY OInvNext DEF LInv
<1>2. CASE UNCHANGED vars
    BY <1>1, <1>2 DEF LInv, vars
<1>3. CASE Next
  <2>1. PICK i \in Acts \cup Verdicts : Happen(i)
      BY <1>3 DEF Next
  <2>2. PICK es \in EventsOf(i) :
            log' = log \o es /\ live' = FoldLeft(Project, live, es)
      BY <2>1 DEF Happen
  <2>3. Now \in Nat /\ IsSeq(log)
      BY DEF LInv, OInv, Timed
  <2>4. IsSeq(es)
      BY <2>3, EventsFresh, InRange DEF Fresh
  <2>5. live' = Fold("project", live, es)
      BY <2>2, <2>4, ProjectIsFold
  <2>6. live' = Fold("project", Empty, log')
      BY <2>2, <2>3, <2>4, <2>5, FoldJoined DEF LInv
  <2>7. i \in Acts => ~Done
      BY <2>1 DEF Happen
  <2>8. Ordered(log')
      BY <2>2, <2>3, <2>7, OrderedMore DEF LInv
  <2>9. QED
      BY <1>1, <2>6, <2>8 DEF LInv
<1>4. QED
    BY <1>2, <1>3

LEMMA LiveIsFold == Spec => []LInv
<1>1. QED
    BY LInvInit, LInvNext, PTL DEF Spec

------------------------------------------------------------------------------
(* What one event more does to what is reduced from a record *)

LastCall(R) == IF CallsIn(R) = {} THEN Blank("") ELSE R[LastOf(CallsIn(R))]

ProgressKind(R) == IF ProgressAt(R) = 0 THEN "" ELSE R[ProgressAt(R)].kind

Named(R) == {i \in DOMAIN R : i > ReplanAt(R) /\ Hypothesis(R[i]) # ""}

LEMMA LastCallMore ==
    ASSUME NEW R, IsSeq(R), NEW x
    PROVE  LastCall(Append(R, x)) = IF IsCall(x) THEN x ELSE LastCall(R)
<1> DEFINE n == Len(R)
           T == Append(R, x)
           A == CallsIn(R)
           B == CallsIn(T)
<1>1. n \in Nat /\ T[n + 1] = x /\ \A i \in 1 .. n : T[i] = R[i]
    BY InRange, Appended
<1>2. A = Marks("call", R) /\ B = Marks("call", T)
    BY DEF CallsIn, Marks, Says
<1>3. Says("call", x) <=> IsCall(x)
    BY DEF Says
<1>4. /\ A \in SUBSET (1 .. n)
      /\ B = IF IsCall(x) THEN A \cup {n + 1} ELSE A
    BY <1>2, <1>3, MarksMore
<1> HIDE DEF n, T, A, B
<1>5. (A # {} => LastOf(A) \in A) /\ LastOf(A \cup {n + 1}) = n + 1
    BY <1>1, <1>4, LastIs
<1>6. LastCall(T) = IF B = {} THEN Blank("") ELSE T[LastOf(B)]
    BY DEF LastCall, B
<1>7. LastCall(R) = IF A = {} THEN Blank("") ELSE R[LastOf(A)]
    BY DEF LastCall, A
<1>8. CASE IsCall(x)
  <2>1. B # {} /\ LastOf(B) = n + 1
      BY <1>4, <1>5, <1>8
  <2>2. QED
      BY <1>1, <1>6, <1>8, <2>1 DEF T
<1>9. CASE ~IsCall(x)
  <2>1. B = A
      BY <1>4, <1>9
  <2>2. A # {} => T[LastOf(A)] = R[LastOf(A)]
      BY <1>1, <1>4, <1>5
  <2>3. QED
      BY <1>6, <1>7, <1>9, <2>1, <2>2 DEF T
<1>10. QED
    BY <1>8, <1>9

LEMMA ReplanMore ==
    ASSUME NEW R, IsSeq(R), NEW x
    PROVE  /\ ReplanAt(R) \in 0 .. Len(R)
           /\ ReplanAt(Append(R, x)) = IF x.action = "freeze_or_replan" THEN Len(R) + 1
                                       ELSE ReplanAt(R)
<1> DEFINE n == Len(R)
           T == Append(R, x)
           A == Marks("replan", R)
           B == Marks("replan", T)
<1>1. n \in Nat
    BY InRange
<1>2. ReplanAt(R) = LastOf(A) /\ ReplanAt(T) = LastOf(B)
    BY DEF ReplanAt, Marks, Says
<1>3. Says("replan", x) <=> x.action = "freeze_or_replan"
    BY DEF Says
<1>4. /\ A \in SUBSET (1 .. n)
      /\ B = IF x.action = "freeze_or_replan" THEN A \cup {n + 1} ELSE A
    BY <1>3, MarksMore
<1> HIDE DEF n, T, A, B
<1>5. LastOf(A) \in 0 .. n /\ LastOf(A \cup {n + 1}) = n + 1
    BY <1>1, <1>4, LastIs
<1>6. QED
    BY <1>2, <1>4, <1>5 DEF n, T

LEMMA NamedMore ==
    ASSUME NEW R, IsSeq(R), NEW x
    PROVE  /\ x.action = "freeze_or_replan" => Named(Append(R, x)) = {}
           /\ x.action # "freeze_or_replan" =>
                 Named(Append(R, x)) = IF Hypothesis(x) = "" THEN Named(R)
                                       ELSE Named(R) \cup {Len(R) + 1}
           /\ Named(R) \subseteq 1 .. Len(R)
<1> DEFINE n == Len(R)
           T == Append(R, x)
           r == ReplanAt(R)
           t == ReplanAt(T)
<1>1. n \in Nat /\ DOMAIN R = 1 .. n
    BY InRange
<1>2. IsSeq(T) /\ Len(T) = n + 1 /\ T[n + 1] = x /\ \A i \in 1 .. n : T[i] = R[i]
    BY Appended
<1>3. r \in 0 .. n /\ t = IF x.action = "freeze_or_replan" THEN n + 1 ELSE r
    BY ReplanMore
<1> HIDE DEF n, T, r, t
<1>4. DOMAIN T = 1 .. n + 1
    BY <1>2, InRange
<1>5. Named(R) = {i \in 1 .. n : i > r /\ Hypothesis(R[i]) # ""}
    BY <1>1 DEF Named, r
<1>6. Named(T) = {i \in 1 .. n + 1 : i > t /\ Hypothesis(T[i]) # ""}
    BY <1>4 DEF Named, t
<1>7. \A i \in 1 .. n + 1 : i \in 1 .. n \/ i = n + 1
    BY <1>1
<1>8. n + 1 > r /\ n + 1 \in 1 .. n + 1 /\ 1 .. n \subseteq 1 .. n + 1
      /\ \A i \in 1 .. n + 1 : ~(i > n + 1)
    BY <1>1, <1>3
<1>9. ASSUME x.action = "freeze_or_replan" PROVE Named(T) = {}
    BY <1>3, <1>6, <1>8, <1>9
<1>10. ASSUME x.action # "freeze_or_replan", Hypothesis(x) = "" PROVE Named(T) = Named(R)
  <2>1. t = r
      BY <1>3, <1>10
  <2>2. \A i \in 1 .. n : Hypothesis(T[i]) = Hypothesis(R[i])
      BY <1>2
  <2>3. Hypothesis(T[n + 1]) = ""
      BY <1>2, <1>10
  <2>4. \A i : i \in Named(T) <=> i \in Named(R)
      BY <1>5, <1>6, <1>7, <1>8, <2>1, <2>2, <2>3
  <2>5. QED
      BY <2>4
<1>11. ASSUME x.action # "freeze_or_replan", Hypothesis(x) # ""
       PROVE Named(T) = Named(R) \cup {n + 1}
  <2>1. t = r
      BY <1>3, <1>11
  <2>2. \A i \in 1 .. n : Hypothesis(T[i]) = Hypothesis(R[i])
      BY <1>2
  <2>3. Hypothesis(T[n + 1]) # ""
      BY <1>2, <1>11
  <2>4. \A i : i \in Named(T) <=> (i \in Named(R) \/ i = n + 1)
      BY <1>5, <1>6, <1>7, <1>8, <2>1, <2>2, <2>3
  <2>5. QED
      BY <2>4
<1>12. Named(R) \subseteq 1 .. n
    BY <1>5
<1>13. QED
    BY <1>9, <1>10, <1>11, <1>12 DEF T, n

Sourceless(e) == e.source = ""

LEMMA PlainMoreIs ==
    ASSUME NEW R, IsSeq(R), AllPlain(R), NEW x, Sourceless(x)
    PROVE  LET T == Append(R, x)
           IN  /\ AllPlain(T) /\ ProgressAt(R) \in 0 .. Len(R)
               /\ ProgressAt(T) = IF Signal(x) THEN Len(R) + 1 ELSE ProgressAt(R)
               /\ ProgressKind(T) = IF Signal(x) THEN x.kind ELSE ProgressKind(R)
               /\ \A tag : /\ Since(tag, R) \in Nat
                           /\ Since(tag, T) = IF Signal(x) THEN 0
                                              ELSE Bump(Since(tag, R), Says(tag, x))
<1> DEFINE n == Len(R)
           T == Append(R, x)
           A == Marks("signal", R)
           B == Marks("signal", T)
           g == ProgressAt(R)
           h == ProgressAt(T)
<1>1. n \in Nat
    BY InRange
<1>2. IsSeq(T) /\ Len(T) = n + 1 /\ T[n + 1] = x /\ \A i \in 1 .. n : T[i] = R[i]
    BY Appended
<1> HIDE DEF T, n
<1>3. \A i \in 1 .. n + 1 : i \in 1 .. n \/ i = n + 1
    BY <1>1
<1>4. AllPlain(T)
    BY <1>2, <1>3 DEF AllPlain, Sourceless, n
<1>5. g = LastOf(A) /\ h = LastOf(B)
    BY <1>2, <1>4, ProgressIs
<1>6. Says("signal", x) <=> Signal(x)
    BY DEF Says
<1>7. A \in SUBSET (1 .. n) /\ B = IF Signal(x) THEN A \cup {n + 1} ELSE A
    BY <1>6, MarksMore DEF T, n
<1> HIDE DEF A, B
<1>8. LastOf(A) \in 0 .. n /\ LastOf(A \cup {n + 1}) = n + 1
    BY <1>1, <1>7, LastIs
<1> HIDE DEF g, h
<1>9. g \in 0 .. n /\ h = IF Signal(x) THEN n + 1 ELSE g
    BY <1>5, <1>7, <1>8
<1>10. ProgressKind(T) = IF Signal(x) THEN x.kind ELSE ProgressKind(R)
  <2>1. ProgressKind(T) = (IF h = 0 THEN "" ELSE T[h].kind)
        /\ ProgressKind(R) = (IF g = 0 THEN "" ELSE R[g].kind)
      BY DEF ProgressKind, g, h
  <2>2. CASE Signal(x)
    <3>1. h = n + 1 /\ h # 0
        BY <1>1, <1>9, <2>2
    <3>2. QED
        BY <1>2, <2>1, <2>2, <3>1
  <2>3. CASE ~Signal(x)
    <3>1. h = g /\ (g = 0 \/ g \in 1 .. n)
        BY <1>1, <1>9, <2>3
    <3>2. QED
        BY <1>2, <2>1, <2>3, <3>1
  <2>4. QED
      BY <2>2, <2>3
<1>11. /\ IsSeq(After(R, g)) /\ After(T, g) = Append(After(R, g), x)
       /\ After(T, n + 1) = <<>>
    BY <1>9, AfterMore DEF T, n
<1>12. ASSUME NEW tag
       PROVE  /\ Since(tag, R) \in Nat
              /\ Since(tag, T) = IF Signal(x) THEN 0
                                 ELSE Bump(Since(tag, R), Says(tag, x))
  <2>1. Since(tag, R) = Tally(tag, After(R, g)) /\ Since(tag, T) = Tally(tag, After(T, h))
      BY DEF Since, g, h
  <2>2. /\ Tally(tag, After(R, g)) \in Nat
        /\ Tally(tag, Append(After(R, g), x)) = Bump(Tally(tag, After(R, g)), Says(tag, x))
      BY <1>11, TallyMore
  <2>3. Tally(tag, <<>>) = 0
      BY TallyNone
  <2>4. QED
      BY <1>9, <1>11, <2>1, <2>2, <2>3
<1>13. QED
    BY <1>4, <1>9, <1>10, <1>12 DEF T, g, h, n

------------------------------------------------------------------------------
(* The two readings of one event *)

MarkedAs(x, e, r) ==
    /\ Like(x, e) /\ x.tier = Tier(r, e)
    /\ x.effective = (x.tier \in {"delivery", "validation", "implementation"})

Applies(r, s, e) == AppliesOffline(r, e) <=> AppliesToTarget(s, e)

LEMMA SaysAlike ==
    ASSUME NEW x, NEW e, NEW r, NEW s, MarkedAs(x, e, r), Base(e), Applies(r, s, e)
    PROVE  /\ Says("call", x) <=> IsCall(e)
           /\ Says("stall", x) <=> e.kind = "execution_stall"
           /\ Says("file", x) <=> IsDelivery(e)
           /\ Says("test", x) <=> e.kind = "test_run"
           /\ Says("replan", x) <=> (IsCall(e) /\ e.action = "freeze_or_replan")
           /\ Says("apply", x) <=> FromRule(e, ApplyRule)
           /\ Says("recover", x) <=> FromRule(e, ApplyRecoveryRule)
           /\ Says("strong", x) <=> IsStrong(e)
           /\ Says("exploration", x) <=> Explores(s, e)
           /\ Says("implementation", x) <=> IsImplementation(e)
           /\ Says("delivery", x) <=> IsDelivery(e)
<1>1. /\ x.kind = e.kind /\ x.action = e.action /\ x.rule = e.rule
      /\ x.tier = Tier(r, e)
      /\ (IsCall(x) <=> IsCall(e)) /\ (IsDelivery(x) <=> IsDelivery(e))
    BY LikeSays DEF MarkedAs, Like
<1>2. /\ Says("call", x) <=> IsCall(e)
      /\ Says("stall", x) <=> e.kind = "execution_stall"
      /\ Says("file", x) <=> IsDelivery(e)
      /\ Says("test", x) <=> e.kind = "test_run"
    BY <1>1 DEF Says
<1>3. Says("replan", x) <=> (IsCall(e) /\ e.action = "freeze_or_replan")
    BY <1>1 DEF Says, Base
<1>4. /\ Says("apply", x) <=> FromRule(e, ApplyRule)
      /\ Says("recover", x) <=> FromRule(e, ApplyRecoveryRule)
    BY <1>1 DEF Says, FromRule
<1>5. \A t \in {"strong", "exploration", "implementation", "validation", "delivery"} :
          Says(t, x) <=> Tier(r, e) = t
    BY <1>1 DEF Says
<1>6. Tier(r, e) = IF IsStrong(e) THEN "strong"
                   ELSE IF IsDelivery(e) THEN "delivery"
                   ELSE IF ValidatesOffline(r, e) THEN "validation"
                   ELSE IF IsImplementation(e) THEN "implementation"
                   ELSE IF ExploresOffline(r, e) THEN "exploration" ELSE ""
    BY TierIs
<1>7. /\ IsStrong(e) => ~IsDelivery(e) /\ ~IsImplementation(e) /\ ~ExploresOffline(r, e)
      /\ IsDelivery(e) => ~IsImplementation(e) /\ ~ExploresOffline(r, e)
      /\ ValidatesOffline(r, e) => ~IsImplementation(e) /\ ~ExploresOffline(r, e)
      /\ IsImplementation(e) => ~ExploresOffline(r, e)
    BY DEF IsStrong, IsDelivery, IsImplementation, IsFile, ExploresOffline, ValidatesOffline
<1>8. ExploresOffline(r, e) <=> Explores(s, e)
    BY DEF ExploresOffline, Explores, Applies
<1>9. /\ Says("strong", x) <=> IsStrong(e)
      /\ Says("exploration", x) <=> Explores(s, e)
      /\ Says("implementation", x) <=> IsImplementation(e)
      /\ Says("delivery", x) <=> IsDelivery(e)
    BY <1>5, <1>6, <1>7, <1>8
<1>10. QED
    BY <1>2, <1>3, <1>4, <1>9

\* An event that both take for the same: no failed test of the verifier, no
\* patch, no call with an adjusted budget.
Plain(e) == e.kind # "test_failed" /\ e.source = "" /\ ~e.adjusted

LEMMA SaysPlainly ==
    ASSUME NEW x, NEW e, NEW r, NEW s, MarkedAs(x, e, r), Base(e), Applies(r, s, e), Plain(e)
    PROVE  /\ Says("pressure", x) <=> (IsCall(e) /\ IsLength(e))
           /\ Signal(x) <=> Progresses(s, e)
           /\ Says("candidate", x) <=> (Progresses(s, e) /\ ~IsStrong(e))
           /\ Says("validation", x) => e.kind = "test_run"
           /\ Validates(s, e) => e.kind \in {"test_run", "test_passed"}
           /\ Sourceless(x)
<1>1. /\ x.kind = e.kind /\ x.target = e.target /\ x.outcome = e.outcome
      /\ x.source = e.source /\ x.adjusted = e.adjusted
      /\ x.tier = Tier(r, e)
      /\ x.effective = (Tier(r, e) \in {"delivery", "validation", "implementation"})
    BY DEF MarkedAs, Like
<1>2. (IsCall(x) <=> IsCall(e)) /\ (IsStrong(x) <=> IsStrong(e))
      /\ (IsOutputValidation(x) <=> IsOutputValidation(e)) /\ (Pressure(x) <=> Pressure(e))
    BY LikeSays DEF MarkedAs
<1>3. Says("pressure", x) <=> (IsCall(e) /\ IsLength(e))
    BY <1>2 DEF Says, Pressure, Plain
<1>4. Tier(r, e) = IF IsStrong(e) THEN "strong"
                   ELSE IF IsDelivery(e) THEN "delivery"
                   ELSE IF ValidatesOffline(r, e) THEN "validation"
                   ELSE IF IsImplementation(e) THEN "implementation"
                   ELSE IF ExploresOffline(r, e) THEN "exploration" ELSE ""
    BY TierIs
<1>5. /\ ValidatesOffline(r, e) <=> e.kind = "test_run" /\ e.outcome = "passed"
                                     /\ AppliesOffline(r, e)
      /\ (e.kind = "test_passed" => IsStrong(e))
    BY DEF ValidatesOffline, IsStrong, Base, Plain
<1>6. /\ IsStrong(e) => ~IsDelivery(e) /\ ~IsImplementation(e) /\ ~ValidatesOffline(r, e)
      /\ IsOutputValidation(e) /\ e.outcome = "passed" => ValidatesOffline(r, e)
    BY <1>5 DEF IsStrong, IsDelivery, IsImplementation, IsFile, IsOutputValidation, AppliesOffline
<1>7. x.effective <=> (IsDelivery(e) \/ ValidatesOffline(r, e) \/ IsImplementation(e))
    BY <1>1, <1>4, <1>6
<1>8. IsCandidate(x) <=> (IsDelivery(e) \/ ValidatesOffline(r, e) \/ IsImplementation(e))
  <2>1. /\ x.kind = "file_modified" /\ x.target = "paths" => IsImplementation(e)
        /\ x.kind = "file_written" /\ x.target \in {"delivery", "workspace"} =>
              IsDelivery(e) \/ IsImplementation(e)
        /\ IsOutputValidation(x) /\ x.outcome = "passed" => ValidatesOffline(r, e)
      BY <1>1, <1>2, <1>6 DEF IsImplementation, IsDelivery, IsFile
  <2>2. QED
      BY <1>7, <2>1 DEF IsCandidate
<1>9. Progresses(s, e) <=> (IsStrong(e) \/ IsDelivery(e) \/ IsImplementation(e)
                             \/ ValidatesOffline(r, e))
    BY <1>5 DEF Progresses, Validates, Applies
<1>10. Signal(x) <=> Progresses(s, e)
    BY <1>2, <1>8, <1>9 DEF Signal
<1>11. Says("candidate", x) <=> (Progresses(s, e) /\ ~IsStrong(e))
    BY <1>6, <1>8, <1>9 DEF Says
<1>12. Says("validation", x) => e.kind = "test_run"
  <2>1. Says("validation", x) => Tier(r, e) = "validation"
      BY <1>1 DEF Says
  <2>2. QED
      BY <1>4, <1>5, <2>1
<1>13. Validates(s, e) => e.kind \in {"test_run", "test_passed"}
    BY DEF Validates, Plain
<1>14. Sourceless(x)
    BY <1>1 DEF Sourceless, Plain
<1>15. QED
    BY <1>3, <1>10, <1>11, <1>12, <1>13, <1>14

------------------------------------------------------------------------------
(* The readiness, of both *)

MatchReady(r, s) ==
    /\ s.readiness = r.is
    /\ r.is = "none" => /\ (s.frontier > 0) <=> (r.frontier > 0)
                        /\ s.delivery = 0 /\ s.implementation = 0 /\ s.deliveryFiles = 0

LEMMA AppliesAlike ==
    ASSUME NEW r, NEW s, NEW e, MatchReady(r, s)
    PROVE  Applies(r, s, e)
<1>1. CASE r.is # "none"
    BY <1>1 DEF MatchReady, Applies, AppliesOffline, AppliesToTarget, Touched
<1>2. CASE r.is = "none"
  <2>1. ~(0 > 0)
      OBVIOUS
  <2>2. QED
      BY <1>2, <2>1 DEF MatchReady, Applies, AppliesOffline, AppliesToTarget, Touched
<1>3. QED
    BY <1>1, <1>2

\* What the readiness is after an event.
ReadyIs(r, e) ==
    IF IsDelivery(e) \/ IsImplementation(e) THEN "delivery_candidate"
    ELSE IF e.kind = "test_run" /\ e.outcome = "passed" /\ AppliesOffline(r, e)
    THEN "validation_passed"
    ELSE IF e.kind = "test_run" /\ e.outcome = "failed" /\ AppliesOffline(r, e)
    THEN "validation_failed"
    ELSE IF e.kind = "test_passed" THEN "validation_passed"
    ELSE IF e.kind = "test_failed" THEN "validation_failed"
    ELSE IF e.kind = "verifier_result"
    THEN IF e.good THEN "verifier_passed" ELSE "verifier_failed"
    ELSE r.is

IsReady(r) == r = [is |-> r.is, frontier |-> r.frontier]

LEMMA ReadyDoes ==
    ASSUME NEW r, IsReady(r), NEW e
    PROVE  LET t == Ready(r, e)
           IN  /\ IsReady(t) /\ t.is = ReadyIs(r, e)
               /\ t.is = "none" => t.frontier = IF e.kind = "test_run" /\ e.outcome = "failed"
                                                THEN Frontier(e) ELSE r.frontier
<1> DEFINE t == Ready(r, e)
           D == IsDelivery(e) \/ IsImplementation(e)
           A == AppliesOffline(r, e)
           F == Frontier(e)
<1>1. D => e.kind \in {"file_written", "file_modified"}
    BY DEF IsDelivery, IsImplementation, IsFile
<1>2. t = CASE D -> [r EXCEPT !.is = "delivery_candidate"]
            [] e.kind = "test_run" /\ e.outcome = "passed" /\ A ->
                  [is |-> "validation_passed", frontier |-> 0]
            [] e.kind = "test_run" /\ e.outcome = "failed" ->
                  [is |-> IF A THEN "validation_failed" ELSE r.is, frontier |-> F]
            [] e.kind = "test_passed" -> [is |-> "validation_passed", frontier |-> 0]
            [] e.kind = "test_failed" -> [is |-> "validation_failed", frontier |-> F]
            [] e.kind = "verifier_result" ->
                  [r EXCEPT !.is = IF e.good THEN "verifier_passed" ELSE "verifier_failed"]
            [] OTHER -> r
    BY DEF Ready
<1>3. ReadyIs(r, e) = IF D THEN "delivery_candidate"
          ELSE IF e.kind = "test_run" /\ e.outcome = "passed" /\ A THEN "validation_passed"
          ELSE IF e.kind = "test_run" /\ e.outcome = "failed" /\ A THEN "validation_failed"
          ELSE IF e.kind = "test_passed" THEN "validation_passed"
          ELSE IF e.kind = "test_failed" THEN "validation_failed"
          ELSE IF e.kind = "verifier_result"
          THEN IF e.good THEN "verifier_passed" ELSE "verifier_failed" ELSE r.is
    BY DEF ReadyIs
<1> HIDE DEF t, D, A, F
<1>4. DOMAIN r = {"is", "frontier"}
    BY DEF IsReady
<1>5. CASE D
  <2>1. t = [r EXCEPT !.is = "delivery_candidate"]
      BY <1>1, <1>2, <1>5
  <2>2. QED
      BY <1>3, <1>4, <1>5, <2>1 DEF IsReady, t
<1>6. CASE ~D /\ e.kind = "test_run" /\ e.outcome = "passed" /\ A
  <2>1. t = [is |-> "validation_passed", frontier |-> 0]
      BY <1>2, <1>6
  <2>2. QED
      BY <1>3, <1>6, <2>1 DEF IsReady, t
<1>7. CASE ~D /\ e.kind = "test_run" /\ e.outcome = "failed"
  <2>1. t = [is |-> IF A THEN "validation_failed" ELSE r.is, frontier |-> F]
      BY <1>2, <1>7
  <2>2. QED
      BY <1>3, <1>7, <2>1 DEF IsReady, t, F
<1>8. CASE ~D /\ e.kind = "test_passed"
  <2>1. t = [is |-> "validation_passed", frontier |-> 0]
      BY <1>2, <1>8
  <2>2. QED
      BY <1>3, <1>8, <2>1 DEF IsReady, t
<1>9. CASE ~D /\ e.kind = "test_failed"
  <2>1. t = [is |-> "validation_failed", frontier |-> F]
      BY <1>2, <1>9
  <2>2. QED
      BY <1>3, <1>9, <2>1 DEF IsReady, t
<1>10. CASE ~D /\ e.kind = "verifier_result"
  <2>1. t = [r EXCEPT !.is = IF e.good THEN "verifier_passed" ELSE "verifier_failed"]
      BY <1>2, <1>10
  <2>2. QED
      BY <1>3, <1>4, <1>10, <2>1 DEF IsReady, t
<1>11. CASE /\ ~D /\ e.kind \notin {"test_passed", "test_failed", "verifier_result"}
            /\ e.kind = "test_run" => e.outcome # "failed" /\ ~(e.outcome = "passed" /\ A)
  <2>1. t = r
      BY <1>2, <1>11
  <2>2. QED
      BY <1>3, <1>11, <2>1 DEF t
<1>12. QED
    BY <1>5, <1>6, <1>7, <1>8, <1>9, <1>10, <1>11

LEMMA ReadyAlike ==
    ASSUME NEW r, IsReady(r), NEW s, MatchReady(r, s), NEW e, Base(e), NEW p, Moved(s, p, e)
    PROVE  MatchReady(Ready(r, e), p) /\ IsReady(Ready(r, e))
<1> DEFINE t == Ready(r, e)
           on == AppliesToTarget(s, e)
<1>1. /\ IsReady(t) /\ t.is = ReadyIs(r, e)
      /\ t.is = "none" => t.frontier = IF e.kind = "test_run" /\ e.outcome = "failed"
                                       THEN Frontier(e) ELSE r.frontier
    BY ReadyDoes
<1> HIDE DEF t
<1>2. AppliesOffline(r, e) <=> on
    BY AppliesAlike DEF Applies
<1>3. /\ p.readiness = ReadyAfter(s, e, on)
      /\ p.frontier = IF Progresses(s, e) /\ ClearsFrontier(s, e) THEN 0
                      ELSE FrontierAfter(s, e)
    BY DEF Moved, Ripened
<1>4. /\ p.delivery = Bump(s.delivery, IsDelivery(e))
      /\ p.implementation = Bump(s.implementation, IsImplementation(e))
      /\ p.deliveryFiles = Bump(s.deliveryFiles, IsDelivery(e))
    BY DEF Moved, Whole
<1>5. s.readiness = r.is
    BY DEF MatchReady
<1>6. p.readiness = t.is
    BY <1>1, <1>2, <1>3, <1>5 DEF ReadyAfter, ReadyIs
<1>7. ASSUME t.is = "none"
      PROVE  /\ (p.frontier > 0) <=> (t.frontier > 0)
             /\ p.delivery = 0 /\ p.implementation = 0 /\ p.deliveryFiles = 0
  <2>1. /\ ~IsDelivery(e) /\ ~IsImplementation(e) /\ r.is = "none"
        /\ e.kind \notin {"test_passed", "test_failed", "verifier_result"}
        /\ ~(e.kind = "test_run" /\ e.outcome = "passed" /\ on)
      BY <1>1, <1>2, <1>7 DEF ReadyIs
  <2>2. /\ (s.frontier > 0) <=> (r.frontier > 0)
        /\ s.delivery = 0 /\ s.implementation = 0 /\ s.deliveryFiles = 0
      BY <2>1 DEF MatchReady
  <2>3. p.delivery = 0 /\ p.implementation = 0 /\ p.deliveryFiles = 0
      BY <1>4, <2>1, <2>2 DEF Bump
  <2>4. ~ClearsFrontier(s, e)
      BY <2>1 DEF ClearsFrontier, Validates
  <2>5. CASE e.kind = "test_run" /\ e.outcome = "failed"
    <3>1. e.print # ""
        BY <2>5 DEF Base
    <3>2. p.frontier = Frontier(e) /\ t.frontier = Frontier(e)
        BY <1>1, <1>3, <1>7, <2>4, <2>5, <3>1 DEF FrontierAfter
    <3>3. QED
        BY <2>3, <3>2
  <2>6. CASE ~(e.kind = "test_run" /\ e.outcome = "failed")
    <3>1. p.frontier = s.frontier /\ t.frontier = r.frontier
        BY <1>1, <1>3, <1>7, <2>1, <2>4, <2>6 DEF FrontierAfter
    <3>2. QED
        BY <2>2, <2>3, <3>1
  <2>7. QED
      BY <2>5, <2>6
<1>8. QED
    BY <1>1, <1>6, <1>7 DEF MatchReady, t

------------------------------------------------------------------------------
(* The record and the router's state, side by side *)

Tallied(R, s) ==
    /\ s.calls = Tally("call", R) /\ s.stalls = Tally("stall", R)
    /\ s.deliveryFiles = Tally("file", R) /\ s.testRuns = Tally("test", R)
    /\ s.replans = Tally("replan", R) /\ s.exploration = Tally("exploration", R)
    /\ s.implementation = Tally("implementation", R)
    /\ s.delivery = Tally("delivery", R) /\ s.strong = Tally("strong", R)
    /\ s.action = LastCall(R).action /\ s.finish = LastCall(R).outcome

\* After record R the router has state s, and the readiness of R is r.
Match(R, s, r) ==
    /\ IsSeq(R) /\ IsState(s) /\ s.explorationSince \in Nat
    /\ Fold("ready", NotReady, R) = r /\ IsReady(r) /\ MatchReady(r, s)
    /\ Tallied(R, s)

Sinced(R, s) ==
    /\ s.callsSince = Since("call", R) /\ s.stallsSince = Since("stall", R)
    /\ s.lengthSince = Since("pressure", R) /\ s.appliedSince = Since("apply", R)
    /\ s.recoveredSince = Since("recover", R)
    /\ s.explorationSince = Since("exploration", R)
    /\ s.progressKind = ProgressKind(R)
    /\ s.candidate = Tally("candidate", R)

Replanned(R, s) ==
    /\ (s.replan # 0) <=> (ReplanAt(R) > ProgressAt(R))
    /\ s.replan # 0 => /\ (s.hyp # "") <=> (Named(R) # {})
                       /\ s.hyp # "" => InForce(s)

\* v: the tests of the verifier have passed.
Tested(R, s, v) ==
    /\ v \/ s.validation = 0 \/ s.testRuns > 0
    /\ Tally("validation", R) = 0 \/ Tally("test", R) > 0
    /\ v => s.readiness # "delivery_candidate"

\* As long as every event is one that both take for the same.
MatchPlain(R, s, v) ==
    AllPlain(R) /\ Sinced(R, s) /\ Replanned(R, s) /\ Tested(R, s, v)

\* An event derived from one of the trial, as it is in the record.
Quiet(y) ==
    /\ y.kind = "no_progress" /\ Sourceless(y) /\ y.action = ""
    /\ ~Signal(y) /\ Hypothesis(y) = "" /\ (\A r : Ready(r, y) = r)
    /\ ~IsCall(y) /\ \A tag : ~Says(tag, y)

LEMMA QuietIs ==
    ASSUME NEW y, NEW e, IsDerived(y, e), y.tier = "", ~y.effective, ~Signal(y)
    PROVE  Quiet(y)
<1>1. /\ y.kind = "no_progress" /\ Sourceless(y) /\ y.action = ""
    BY DEF IsDerived, Sourceless
<1>2. /\ ~IsCall(y) /\ ~IsDelivery(y) /\ ~Pressure(y) /\ Hypothesis(y) = ""
      /\ \A r : Ready(r, y) = r
    BY DerivedSays
<1>3. ~IsCandidate(y)
    BY DEF Signal
<1>4. \A tag : ~Says(tag, y)
    BY <1>1, <1>2, <1>3 DEF Says, FromRule
<1>5. QED
    BY <1>1, <1>2, <1>4 DEF Quiet

LEMMA MatchQuiet ==
    ASSUME NEW R, NEW s, NEW r, Match(R, s, r), NEW y, Quiet(y)
    PROVE  Match(Append(R, y), s, r)
<1> DEFINE T == Append(R, y)
<1>1. IsSeq(R) /\ IsSeq(T)
    BY Appended DEF Match
<1>2. \A tag : Tally(tag, T) = Tally(tag, R)
  <2>1. ASSUME NEW tag PROVE Tally(tag, T) = Tally(tag, R)
    <3>1. Tally(tag, R) \in Nat /\ Tally(tag, T) = Bump(Tally(tag, R), Says(tag, y))
        BY <1>1, TallyMore
    <3>2. ~Says(tag, y)
        BY DEF Quiet
    <3>3. QED
        BY <3>1, <3>2 DEF Bump
  <2>2. QED
      BY <2>1
<1>3. LastCall(T) = LastCall(R)
    BY <1>1, LastCallMore DEF Quiet
<1>4. Fold("ready", NotReady, T) = r
  <2>1. Fold("ready", NotReady, T) = Step("ready", r, y)
      BY <1>1, FoldMore DEF Match
  <2>2. Step("ready", r, y) = Ready(r, y)
      BY DEF Step
  <2>3. QED
      BY <2>1, <2>2 DEF Quiet
<1> HIDE DEF T
<1>5. Tallied(T, s)
    BY <1>2, <1>3 DEF Match, Tallied
<1>6. QED
    BY <1>1, <1>4, <1>5 DEF Match, T

LEMMA PlainQuiet ==
    ASSUME NEW R, IsSeq(R), NEW s, NEW v, MatchPlain(R, s, v), NEW y, Quiet(y)
    PROVE  MatchPlain(Append(R, y), s, v)
<1> DEFINE T == Append(R, y)
<1>1. \A tag : Tally(tag, T) = Tally(tag, R)
  <2>1. ASSUME NEW tag PROVE Tally(tag, T) = Tally(tag, R)
    <3>1. Tally(tag, R) \in Nat /\ Tally(tag, T) = Bump(Tally(tag, R), Says(tag, y))
        BY TallyMore
    <3>2. ~Says(tag, y)
        BY DEF Quiet
    <3>3. QED
        BY <3>1, <3>2 DEF Bump
  <2>2. QED
      BY <2>1
<1>2. /\ AllPlain(T) /\ ProgressAt(T) = ProgressAt(R)
      /\ ProgressKind(T) = ProgressKind(R)
      /\ \A tag : Since(tag, T) = Bump(Since(tag, R), Says(tag, y))
    BY PlainMoreIs DEF MatchPlain, Quiet
<1>3. \A tag : Since(tag, T) = Since(tag, R)
    BY <1>2 DEF Quiet, Bump
<1>4. ReplanAt(T) = ReplanAt(R) /\ Named(T) = Named(R)
  <2>1. y.action # "freeze_or_replan" /\ Hypothesis(y) = ""
      BY DEF Quiet
  <2>2. QED
      BY <2>1, ReplanMore, NamedMore
<1> HIDE DEF T
<1>5. Sinced(T, s)
    BY <1>1, <1>2, <1>3 DEF MatchPlain, Sinced
<1>6. Replanned(T, s)
    BY <1>2, <1>4 DEF MatchPlain, Replanned
<1>7. Tested(T, s, v)
    BY <1>1 DEF MatchPlain, Tested
<1>8. QED
    BY <1>2, <1>5, <1>6, <1>7 DEF MatchPlain, T

LEMMA MatchMore ==
    ASSUME NEW R, NEW s, NEW r, Match(R, s, r), NEW e, Base(e), NEW x, MarkedAs(x, e, r),
           NEW p, Moved(s, p, e)
    PROVE  Match(Append(R, x), p, Ready(r, e))
<1> DEFINE T == Append(R, x)
<1>1. IsSeq(R) /\ IsSeq(T)
    BY Appended DEF Match
<1>2. \A tag : Tally(tag, T) = Bump(Tally(tag, R), Says(tag, x))
    BY <1>1, TallyMore
<1>3. LastCall(T) = IF IsCall(x) THEN x ELSE LastCall(R)
    BY <1>1, LastCallMore
<1>4. Fold("ready", NotReady, T) = Ready(r, e)
  <2>1. Fold("ready", NotReady, T) = Step("ready", r, x)
      BY <1>1, FoldMore DEF Match
  <2>2. Step("ready", r, x) = Ready(r, x)
      BY DEF Step
  <2>3. Ready(r, x) = Ready(r, e)
      BY LikeReady DEF MarkedAs
  <2>4. QED
      BY <2>1, <2>2, <2>3
<1>5. MatchReady(Ready(r, e), p) /\ IsReady(Ready(r, e))
    BY ReadyAlike DEF Match
<1>6. Applies(r, s, e)
    BY AppliesAlike DEF Match
<1> HIDE DEF T
<1>7. /\ Tally("call", T) = Bump(Tally("call", R), IsCall(e))
      /\ Tally("stall", T) = Bump(Tally("stall", R), e.kind = "execution_stall")
      /\ Tally("file", T) = Bump(Tally("file", R), IsDelivery(e))
      /\ Tally("test", T) = Bump(Tally("test", R), e.kind = "test_run")
      /\ Tally("replan", T) =
            Bump(Tally("replan", R), IsCall(e) /\ e.action = "freeze_or_replan")
    BY <1>2, <1>6, SaysAlike DEF Bump
<1>8. /\ Tally("exploration", T) = Bump(Tally("exploration", R), Explores(s, e))
      /\ Tally("implementation", T) = Bump(Tally("implementation", R), IsImplementation(e))
      /\ Tally("delivery", T) = Bump(Tally("delivery", R), IsDelivery(e))
      /\ Tally("strong", T) = Bump(Tally("strong", R), IsStrong(e))
    BY <1>2, <1>6, SaysAlike DEF Bump
<1>9. p.action = LastCall(T).action /\ p.finish = LastCall(T).outcome
  <2>1. (IsCall(x) <=> IsCall(e)) /\ x.action = e.action /\ x.outcome = e.outcome
      BY LikeSays DEF MarkedAs, Like
  <2>2. s.action = LastCall(R).action /\ s.finish = LastCall(R).outcome
      BY DEF Match, Tallied
  <2>3. Said(s, p, e)
      BY DEF Moved
  <2>4. QED
      BY <1>3, <2>1, <2>2, <2>3 DEF Said
<1>10. Whole(s, p, e) /\ IsState(p) /\ Tallied(R, s)
    BY DEF Moved, Match
<1>11. Tallied(T, p)
    BY <1>7, <1>8, <1>9, <1>10 DEF Tallied, Whole
<1>12. p.explorationSince \in Nat
  <2>1. p.explorationSince = 0 \/ p.explorationSince = Bump(s.explorationSince, Explores(s, e))
      BY DEF Moved, Restarted, Continued
  <2>2. QED
      BY <2>1 DEF Match, Bump
<1>13. QED
    BY <1>1, <1>4, <1>5, <1>10, <1>11, <1>12 DEF Match, T

\* One plain event more: the counts since the last progress.
LEMMA SincedMore ==
    ASSUME NEW R, IsSeq(R), AllPlain(R), NEW s, Sinced(R, s), NEW r, NEW e, Base(e), Plain(e),
           Applies(r, s, e), NEW x, MarkedAs(x, e, r), NEW p, Moved(s, p, e)
    PROVE  Sinced(Append(R, x), p)
<1> DEFINE T == Append(R, x)
           P == Progresses(s, e)
<1>1. /\ Says("pressure", x) <=> (IsCall(e) /\ IsLength(e))
      /\ Signal(x) <=> P
      /\ Says("candidate", x) <=> (P /\ ~IsStrong(e))
      /\ Sourceless(x) /\ x.kind = e.kind
    BY SaysPlainly DEF MarkedAs, Like
<1>2. /\ ProgressKind(T) = IF P THEN e.kind ELSE ProgressKind(R)
      /\ \A tag : Since(tag, T) = IF P THEN 0 ELSE Bump(Since(tag, R), Says(tag, x))
    BY <1>1, PlainMoreIs
<1>3. Tally("candidate", T) = Bump(Tally("candidate", R), P /\ ~IsStrong(e))
    BY <1>1, TallyMore DEF Bump
<1>4. /\ Says("call", x) <=> IsCall(e)
      /\ Says("stall", x) <=> e.kind = "execution_stall"
      /\ Says("apply", x) <=> FromRule(e, ApplyRule)
      /\ Says("recover", x) <=> FromRule(e, ApplyRecoveryRule)
      /\ Says("exploration", x) <=> Explores(s, e)
    BY SaysAlike
<1>5. /\ p.candidate = Bump(s.candidate, P /\ ~IsStrong(e))
      /\ IF P THEN Restarted(s, p, e) ELSE Continued(s, p, e)
    BY DEF Moved, Whole
<1> HIDE DEF T, P
<1>6. CASE P
  <2>1. \A tag : Since(tag, T) = 0
      BY <1>2, <1>6
  <2>2. Restarted(s, p, e) /\ ProgressKind(T) = e.kind
      BY <1>2, <1>5, <1>6
  <2>3. p.candidate = Tally("candidate", T)
      BY <1>3, <1>5 DEF Sinced
  <2>4. QED
      BY <2>1, <2>2, <2>3 DEF Sinced, Restarted, T
<1>7. CASE ~P
  <2>1. \A tag : Since(tag, T) = Bump(Since(tag, R), Says(tag, x))
      BY <1>2, <1>7
  <2>2. /\ Since("call", T) = Bump(Since("call", R), IsCall(e))
        /\ Since("stall", T) = Bump(Since("stall", R), e.kind = "execution_stall")
        /\ Since("pressure", T) = Bump(Since("pressure", R), IsCall(e) /\ IsLength(e))
        /\ Since("apply", T) = Bump(Since("apply", R), FromRule(e, ApplyRule))
        /\ Since("recover", T) = Bump(Since("recover", R), FromRule(e, ApplyRecoveryRule))
        /\ Since("exploration", T) = Bump(Since("exploration", R), Explores(s, e))
      BY <1>1, <1>4, <2>1 DEF Bump
  <2>3. Continued(s, p, e) /\ ProgressKind(T) = ProgressKind(R)
      BY <1>2, <1>5, <1>7
  <2>4. p.candidate = Tally("candidate", T)
      BY <1>3, <1>5 DEF Sinced
  <2>5. QED
      BY <2>2, <2>3, <2>4 DEF Sinced, Continued, T
<1>8. QED
    BY <1>6, <1>7

\* Only a call replans, and a call is no progress.
LEMMA ReplannedMore ==
    ASSUME NEW R, IsSeq(R), AllPlain(R), NEW s, Replanned(R, s), NEW r, NEW e, Base(e), Plain(e),
           Applies(r, s, e), NEW x, MarkedAs(x, e, r), NEW p, Moved(s, p, e)
    PROVE  Replanned(Append(R, x), p)
<1> DEFINE T == Append(R, x)
           P == Progresses(s, e)
           n == Len(R)
           again == e.action = "freeze_or_replan"
<1>1. /\ Signal(x) <=> P
      /\ Sourceless(x) /\ x.kind = e.kind /\ x.action = e.action
      /\ Hypothesis(x) = Hypothesis(e) /\ n \in Nat
    BY SaysPlainly, LikeSays, InRange DEF MarkedAs, Like
<1>2. /\ ProgressAt(R) \in 0 .. n
      /\ ProgressAt(T) = IF P THEN n + 1 ELSE ProgressAt(R)
    BY <1>1, PlainMoreIs
<1>3. /\ ReplanAt(R) \in 0 .. n
      /\ ReplanAt(T) = IF again THEN n + 1 ELSE ReplanAt(R)
    BY <1>1, ReplanMore
<1>4. /\ again => Named(T) = {}
      /\ ~again => Named(T) = IF Hypothesis(e) = "" THEN Named(R) ELSE Named(R) \cup {n + 1}
    BY <1>1, NamedMore
<1>5. /\ again => IsCall(e)
      /\ IsCall(e) => ~P
      /\ ~IsCall(e) => Hypothesis(e) = ""
    BY DEF Base, IsCall, Progresses, IsStrong, IsDelivery, IsImplementation, IsFile, Hypothesis
<1>6. IF P THEN Restarted(s, p, e) ELSE Continued(s, p, e)
    BY DEF Moved
<1> HIDE DEF T, n
<1>7. CASE P
  <2>1. p.replan = 0 /\ ~again
      BY <1>5, <1>6, <1>7 DEF Restarted
  <2>2. ~(ReplanAt(T) > ProgressAt(T))
      BY <1>1, <1>2, <1>3, <1>7, <2>1
  <2>3. QED
      BY <2>1, <2>2 DEF Replanned, T
<1>8. CASE ~P /\ again
  <2>1. p.replan # 0 /\ p.hyp = ""
      BY <1>5, <1>6, <1>8 DEF Continued, HypCall, Base
  <2>2. ReplanAt(T) > ProgressAt(T) /\ Named(T) = {}
      BY <1>1, <1>2, <1>3, <1>4, <1>8
  <2>3. QED
      BY <2>1, <2>2 DEF Replanned, T
<1>9. CASE ~P /\ ~again
  <2>1. ReplanAt(T) = ReplanAt(R) /\ ProgressAt(T) = ProgressAt(R)
      BY <1>2, <1>3, <1>9
  <2>2. (s.replan # 0) <=> (ReplanAt(T) > ProgressAt(T))
      BY <2>1 DEF Replanned
  <2>3. CASE IsCall(e) /\ s.replan = 0
    <3>1. p.replan = 0
        BY <1>6, <1>9, <2>3 DEF Continued, HypCall
    <3>2. QED
        BY <2>2, <2>3, <3>1 DEF Replanned, T
  <2>4. CASE Hypothesis(e) = "" /\ ~(IsCall(e) /\ s.replan = 0)
    <3>1. HypSame(s, p)
        BY <1>6, <1>9, <2>4 DEF Continued, HypCall
    <3>2. Named(T) = Named(R)
        BY <1>4, <1>9, <2>4
    <3>3. QED
        BY <2>2, <3>1, <3>2 DEF Replanned, HypSame, T
  <2>5. CASE Hypothesis(e) # "" /\ IsCall(e) /\ s.replan # 0
    <3>1. p.replan = s.replan /\ p.hyp = Hypothesis(e) /\ InForce(p)
        BY <1>6, <1>9, <2>5 DEF Continued, HypCall
    <3>2. Named(T) # {}
        BY <1>4, <1>9, <2>5
    <3>3. QED
        BY <2>2, <2>5, <3>1, <3>2 DEF Replanned, T
  <2>6. QED
      BY <1>5, <2>3, <2>4, <2>5
<1>10. QED
    BY <1>7, <1>8, <1>9

LEMMA TestedMore ==
    ASSUME NEW R, IsSeq(R), NEW s, NEW v \in BOOLEAN, Tested(R, s, v),
           s.testRuns = Tally("test", R), NEW r, NEW e, Base(e), Plain(e), v => ~IsFile(e),
           Applies(r, s, e), NEW x, MarkedAs(x, e, r), NEW p, Moved(s, p, e)
    PROVE  Tested(Append(R, x), p, v \/ e.kind = "test_passed")
<1> DEFINE T == Append(R, x)
           w == v \/ e.kind = "test_passed"
<1>1. /\ Says("validation", x) => e.kind = "test_run"
      /\ Validates(s, e) => e.kind \in {"test_run", "test_passed"}
      /\ Says("test", x) <=> e.kind = "test_run"
    BY SaysPlainly, SaysAlike
<1>2. /\ Tally("validation", T) = Bump(Tally("validation", R), Says("validation", x))
      /\ Tally("test", T) = Bump(Tally("test", R), Says("test", x))
      /\ Tally("test", R) \in Nat
    BY TallyMore
<1>3. /\ p.testRuns = Bump(s.testRuns, e.kind = "test_run")
      /\ p.validation = Bump(s.validation, Validates(s, e))
      /\ p.readiness = ReadyAfter(s, e, AppliesToTarget(s, e))
    BY DEF Moved, Whole, Ripened
<1> HIDE DEF T
<1>4. CASE e.kind = "test_run"
  <2>1. Tally("test", T) > 0 /\ p.testRuns > 0
      BY <1>1, <1>2, <1>3, <1>4 DEF Bump
  <2>2. ~IsDelivery(e) /\ ~IsImplementation(e)
      BY <1>4 DEF IsDelivery, IsImplementation, IsFile
  <2>3. v => p.readiness # "delivery_candidate"
      BY <1>3, <1>4, <2>2 DEF ReadyAfter, Tested
  <2>4. QED
      BY <1>4, <2>1, <2>3 DEF Tested, T
<1>5. CASE e.kind = "test_passed"
  <2>1. ~IsDelivery(e) /\ ~IsImplementation(e)
      BY <1>5 DEF IsDelivery, IsImplementation, IsFile
  <2>2. p.readiness = "validation_passed"
      BY <1>3, <1>5, <2>1 DEF ReadyAfter
  <2>3. Tally("validation", T) = Tally("validation", R) /\ Tally("test", T) = Tally("test", R)
      BY <1>1, <1>2, <1>5 DEF Bump
  <2>4. QED
      BY <1>5, <2>2, <2>3 DEF Tested, T
<1>6. CASE e.kind \notin {"test_run", "test_passed"}
  <2>1. v => ~IsDelivery(e) /\ ~IsImplementation(e)
      BY DEF IsDelivery, IsImplementation, IsFile
  <2>2. v => p.readiness # "delivery_candidate"
      BY <1>3, <1>6, <2>1 DEF ReadyAfter, Tested
  <2>3. Tally("validation", T) = Tally("validation", R) /\ Tally("test", T) = Tally("test", R)
        /\ p.testRuns = s.testRuns /\ p.validation = s.validation
      BY <1>1, <1>2, <1>3, <1>6 DEF Bump
  <2>4. QED
      BY <1>6, <2>2, <2>3 DEF Tested, T
<1>7. QED
    BY <1>4, <1>5, <1>6

LEMMA PlainMatchMore ==
    ASSUME NEW R, NEW s, NEW r, Match(R, s, r), NEW v \in BOOLEAN, MatchPlain(R, s, v),
           NEW e, Base(e), Plain(e), v => ~IsFile(e), NEW x, MarkedAs(x, e, r),
           NEW p, Moved(s, p, e)
    PROVE  MatchPlain(Append(R, x), p, v \/ e.kind = "test_passed")
<1>1. IsSeq(R) /\ Applies(r, s, e) /\ s.testRuns = Tally("test", R)
    BY AppliesAlike DEF Match, Tallied
<1>2. AllPlain(R) /\ Sinced(R, s) /\ Replanned(R, s) /\ Tested(R, s, v)
    BY DEF MatchPlain
<1>3. Sinced(Append(R, x), p)
    BY <1>1, <1>2, SincedMore
<1>4. Replanned(Append(R, x), p)
    BY <1>1, <1>2, ReplannedMore
<1>5. Tested(Append(R, x), p, v \/ e.kind = "test_passed")
    BY <1>1, <1>2, TestedMore
<1>6. AllPlain(Append(R, x))
  <2>1. Sourceless(x)
      BY <1>1, SaysPlainly
  <2>2. QED
      BY <1>1, <1>2, <2>1, PlainMoreIs
<1>7. QED
    BY <1>3, <1>4, <1>5, <1>6 DEF MatchPlain

\* Both relations; plain: so far every event was.
Both(R, s, r, plain, v) == Match(R, s, r) /\ (plain => MatchPlain(R, s, v))

LEMMA BothQuiet ==
    ASSUME NEW R, NEW s, NEW r, NEW plain, NEW v, Both(R, s, r, plain, v), NEW y, Quiet(y)
    PROVE  Both(Append(R, y), s, r, plain, v)
<1>1. Match(Append(R, y), s, r)
    BY MatchQuiet DEF Both
<1>2. plain => MatchPlain(Append(R, y), s, v)
    BY PlainQuiet DEF Both, Match
<1>3. QED
    BY <1>1, <1>2 DEF Both

\* One event of the trial more, of the record that grows with it and of the
\* router's state.
LEMMA BothMore ==
    ASSUME NEW b \in BOOLEAN, NEW q, Sound(b, q), NEW e, Base(e), NEW x, NEW y,
           Grows(b, q, e, x, y), NEW s, NEW p, Moved(s, p, e),
           NEW plain \in BOOLEAN, NEW v \in BOOLEAN, Both(Rec(b, q), s, Ann(q).ready, plain, v),
           plain /\ v /\ Plain(e) => ~IsFile(e)
    PROVE  Both(Rec(b, Append(q, e)), p, Ann(Append(q, e)).ready, plain /\ Plain(e),
                v \/ e.kind = "test_passed")
<1> DEFINE R == Rec(b, q)
           T == Rec(b, Append(q, e))
           r == Ann(q).ready
           t == Ann(Append(q, e)).ready
           on == plain /\ Plain(e)
           w == v \/ e.kind = "test_passed"
<1>1. t = Ready(r, e)
    BY RecordGrows DEF Base
<1>2. MarkedAs(x, e, r)
    BY DEF Grows, MarkedAs
<1>3. T = Append(R, x) \/ (Quiet(y) /\ (\/ T = Append(Append(R, y), x)
                                         \/ T = Append(Append(R, x), y)))
  <2>1. IsDerived(y, e) /\ y.tier = "" /\ ~y.effective /\ ~Signal(y) => Quiet(y)
      BY QuietIs
  <2>2. QED
      BY <2>1 DEF Grows
<1> HIDE DEF R, T, r, t
<1>4. ASSUME NEW S, Both(S, s, r, plain, v)
      PROVE  Both(Append(S, x), p, Ready(r, e), on, w)
  <2>1. Match(Append(S, x), p, Ready(r, e))
      BY <1>2, <1>4, MatchMore DEF Both
  <2>2. ASSUME on PROVE MatchPlain(Append(S, x), p, w)
    <3>1. Match(S, s, r) /\ MatchPlain(S, s, v) /\ Plain(e) /\ (v => ~IsFile(e))
        BY <1>4, <2>2 DEF Both
    <3>2. QED
        BY <1>2, <3>1, PlainMatchMore
  <2> HIDE DEF on, w
  <2>3. QED
      BY <2>1, <2>2 DEF Both
<1> HIDE DEF on, w
<1>5. Both(R, s, r, plain, v)
    BY DEF R, r
<1>6. CASE T = Append(R, x)
    BY <1>1, <1>4, <1>5, <1>6 DEF T, t, on, w
<1>7. CASE Quiet(y) /\ T = Append(Append(R, y), x)
  <2>1. Both(Append(R, y), s, r, plain, v)
      BY <1>5, <1>7, BothQuiet
  <2>2. Both(Append(Append(R, y), x), p, Ready(r, e), on, w)
      BY <1>4, <2>1
  <2>3. QED
      BY <1>1, <1>7, <2>2 DEF T, t, on, w
<1>8. CASE Quiet(y) /\ T = Append(Append(R, x), y)
  <2>1. Both(Append(R, x), p, Ready(r, e), on, w)
      BY <1>4, <1>5
  <2>2. Both(Append(Append(R, x), y), p, Ready(r, e), on, w)
      BY <1>8, <2>1, BothQuiet
  <2>3. QED
      BY <1>1, <1>8, <2>2 DEF T, t, on, w
<1>9. QED
    BY <1>3, <1>6, <1>7, <1>8

LEMMA BothNone == Both(<<>>, Empty, NotReady, TRUE, FALSE)
<1> DEFINE N == <<>>
<1>1. IsSeq(N) /\ Len(N) = 0 /\ DOMAIN N = {}
  <2>1. IsSeq(N) /\ Len(N) = 0
      BY NoneYet
  <2>2. DOMAIN N = {}
      OBVIOUS
  <2>3. QED
      BY <2>1, <2>2
<1>2. \A tag : Marks(tag, N) = {} /\ Tally(tag, N) = 0
    BY TallyNone
<1>3. Fold("ready", NotReady, N) = NotReady
    BY FoldNone
<1>4. After(N, 0) = N
  <2>1. SubSeq(N, 0 + 1, Len(N)) = N
      BY NoneYet, SubSeqEmpty
  <2>2. QED
      BY <2>1 DEF After
<1> HIDE DEF N
<1>5. LastOf({}) = 0
    BY DEF LastOf
<1>6. LastCall(N) = Blank("")
  <2>1. CallsIn(N) = {}
      BY <1>1 DEF CallsIn
  <2>2. QED
      BY <2>1 DEF LastCall
<1>7. AllPlain(N)
  <2>1. \A i \in 1 .. Len(N) : FALSE
      BY <1>1
  <2>2. QED
      BY <2>1 DEF AllPlain
<1>8. ProgressAt(N) = 0
    BY <1>1, <1>2, <1>5, <1>7, ProgressIs
<1>9. ReplanAt(N) = 0 /\ Named(N) = {} /\ ProgressKind(N) = ""
    BY <1>1, <1>5, <1>8 DEF ReplanAt, Named, ProgressKind
<1>10. \A tag : Since(tag, N) = 0
    BY <1>2, <1>8, <1>4 DEF Since
<1>11. Tallied(N, Empty)
  <2>1. /\ Empty.calls = 0 /\ Empty.stalls = 0 /\ Empty.deliveryFiles = 0
        /\ Empty.testRuns = 0 /\ Empty.replans = 0 /\ Empty.exploration = 0
        /\ Empty.implementation = 0 /\ Empty.delivery = 0 /\ Empty.strong = 0
      BY DEF Empty
  <2>2. Empty.action = LastCall(N).action /\ Empty.finish = LastCall(N).outcome
    <3>1. Empty.action = "" /\ Empty.finish = ""
        BY DEF Empty
    <3>2. Blank("").action = "" /\ Blank("").outcome = ""
        BY DEF Blank
    <3>3. QED
        BY <1>6, <3>1, <3>2
  <2>3. QED
      BY <1>2, <2>1, <2>2 DEF Tallied
<1>12. Match(N, Empty, NotReady)
  <2>1. IsReady(NotReady) /\ MatchReady(NotReady, Empty)
      BY DEF IsReady, NotReady, MatchReady, Empty
  <2>2. IsState(Empty) /\ Empty.explorationSince \in Nat
      BY DEF IsState, Empty
  <2>3. QED
      BY <1>1, <1>11, <1>3, <2>1, <2>2 DEF Match
<1>13. Sinced(N, Empty)
    BY <1>2, <1>9, <1>10 DEF Sinced, Empty
<1>14. Replanned(N, Empty)
  <2>1. Empty.replan = 0 /\ ~(0 > 0)
      BY DEF Empty
  <2>2. QED
      BY <1>8, <1>9, <2>1 DEF Replanned
<1>15. Tested(N, Empty, FALSE)
    BY <1>2 DEF Tested, Empty
<1>16. QED
    BY <1>7, <1>12, <1>13, <1>14, <1>15 DEF Both, MatchPlain, N

Passed(q, k) == \E i \in 1 .. k : q[i].kind = "test_passed"
PlainTo(q, k) == \A i \in 1 .. k : Plain(q[i])

\* What there is of the two after k events.
SideBySide(b, q, k) ==
    LET p == Prefix(q, k)
        s == Fold("project", Empty, p)
    IN  /\ Both(Rec(b, p), s, Ann(p).ready, PlainTo(q, k), Passed(q, k))
        /\ s.version \in Nat /\ (k > 0 => s.version # 0 /\ Reckoned(s))

\* The two go on side by side: the record by what one event makes of it, the
\* router's state by what projectEpisodeEvent does with that event.
LEMMA SideMore ==
    ASSUME NEW b \in BOOLEAN, NEW q, NEW t, Timed(q, t), Ordered(q),
           NEW k \in 1 .. Len(q), SideBySide(b, q, k - 1)
    PROVE  SideBySide(b, q, k)
<1> DEFINE n == Len(q)
           p == Prefix(q, k - 1)
           e == q[k]
           s == Fold("project", Empty, p)
           z == Project(s, e)
           plain == PlainTo(q, k - 1)
           v == Passed(q, k - 1)
<1>1. n \in Nat /\ IsSeq(q)
    BY InRange DEF Timed
<1>2. Prefix(q, k) = Append(p, e) /\ IsSeq(p) /\ k - 1 \in 0 .. n /\ k - 1 \in Nat
    BY <1>1, PrefixSteps
<1>3. Base(e) /\ IsEvent(e)
    BY DEF Timed, Base
<1>4. Sound(b, p)
  <2>1. \A i \in 1 .. n : IsEvent(q[i])
      BY DEF Timed, Base
  <2>2. QED
      BY <1>1, <1>2, <2>1, AllSound
<1>5. /\ Both(Rec(b, p), s, Ann(p).ready, plain, v) /\ s.version \in Nat
    BY DEF SideBySide
<1>6. PICK x, y : Grows(b, p, e, x, y)
    BY <1>3, <1>4, RecordGrows
<1>7. Moved(s, z, e) /\ Reckoned(z) /\ z.version = s.version + 1
  <2>1. /\ IsState(s) /\ s.explorationSince \in Nat
        /\ s.exploration = Tally("exploration", Rec(b, p)) /\ IsSeq(Rec(b, p))
      BY <1>5 DEF Both, Match, Tallied
  <2>2. s.exploration \in Nat
      BY <2>1, TallyMore
  <2> HIDE DEF s
  <2>3. QED
      BY <2>1, <2>2, ProjectDoes
<1>8. plain \in BOOLEAN /\ v \in BOOLEAN
    BY DEF PlainTo, Passed
<1>9. plain /\ v /\ Plain(e) => ~IsFile(e)
  <2>1. v /\ IsFile(e) => e.source # ""
    <3>1. \A i \in 1 .. k - 1 : i \in 1 .. n /\ i < k
        BY <1>1
    <3>2. QED
        BY <3>1 DEF Passed, Ordered
  <2>2. QED
      BY <2>1 DEF Plain
<1>10. \A i \in 1 .. k : i \in 1 .. k - 1 \/ i = k
    BY <1>1
<1>11. \A i \in 1 .. k - 1 : i \in 1 .. k
    BY <1>1
<1>12. k \in 1 .. k
    BY <1>1
<1>13. PlainTo(q, k) <=> (plain /\ Plain(e))
    BY <1>10, <1>11, <1>12 DEF PlainTo
<1>14. Passed(q, k) <=> (v \/ e.kind = "test_passed")
    BY <1>10, <1>11, <1>12 DEF Passed
<1>15. Fold("project", Empty, Append(p, e)) = z
  <2>1. Fold("project", Empty, Append(p, e)) = Step("project", s, e)
      BY <1>2, FoldMore
  <2>2. Step("project", s, e) = z
      BY DEF Step
  <2>3. QED
      BY <2>1, <2>2
<1>16. PlainTo(q, k) \in BOOLEAN /\ Passed(q, k) \in BOOLEAN
    BY DEF PlainTo, Passed
<1> HIDE DEF p, e, s, z, plain, v
<1>17. Both(Rec(b, Append(p, e)), z, Ann(Append(p, e)).ready, plain /\ Plain(e),
            v \/ e.kind = "test_passed")
    BY <1>3, <1>4, <1>5, <1>6, <1>7, <1>8, <1>9, BothMore
<1>18. Both(Rec(b, Append(p, e)), z, Ann(Append(p, e)).ready, PlainTo(q, k), Passed(q, k))
  <2>1. PlainTo(q, k) = (plain /\ Plain(e))
      BY <1>8, <1>13, <1>16
  <2>2. Passed(q, k) = (v \/ e.kind = "test_passed")
      BY <1>8, <1>14, <1>16
  <2>3. QED
      BY <1>17, <2>1, <2>2
<1>19. z.version \in Nat /\ z.version # 0
    BY <1>5, <1>7
<1>20. QED
    BY <1>2, <1>7, <1>15, <1>18, <1>19 DEF SideBySide

\* So they are side by side along all prefixes of the log.
LEMMA AlwaysBoth ==
    ASSUME NEW b \in BOOLEAN, NEW q, NEW t, Timed(q, t), Ordered(q)
    PROVE  SideBySide(b, q, Len(q)) /\ Prefix(q, Len(q)) = q
<1> DEFINE n == Len(q)
           S == {k \in 0 .. n : SideBySide(b, q, k)}
<1>1. n \in Nat /\ 0 \in 0 .. n /\ n \in 0 .. n /\ IsSeq(q)
    BY InRange DEF Timed
<1>2. Prefix(q, 0) = <<>> /\ Prefix(q, n) = q
    BY <1>1, PrefixSteps
<1>3. SideBySide(b, q, 0)
  <2>1. Rec(b, <<>>) = <<>> /\ Ann(<<>>).ready = NotReady
    <3>1. Rec(b, <<>>) = <<>>
        BY SoundNone
    <3>2. NoneReady.ready = NotReady
        BY DEF NoneReady
    <3>3. QED
        BY <3>1, <3>2, AnnNone
  <2>2. Fold("project", Empty, <<>>) = Empty /\ Empty.version = 0
      BY FoldNone DEF Empty
  <2>3. PlainTo(q, 0) = TRUE /\ Passed(q, 0) = FALSE
      BY DEF PlainTo, Passed
  <2>4. Both(Rec(b, <<>>), Fold("project", Empty, <<>>), Ann(<<>>).ready,
             PlainTo(q, 0), Passed(q, 0))
      BY <2>1, <2>2, <2>3, BothNone
  <2>5. ~(0 > 0) /\ 0 \in Nat
      OBVIOUS
  <2>6. QED
      BY <1>2, <2>2, <2>4, <2>5 DEF SideBySide
<1>4. ASSUME NEW k \in 1 .. n, k - 1 \in S PROVE k \in S
  <2>1. SideBySide(b, q, k)
      BY <1>4, SideMore
  <2>2. k \in 0 .. n
      BY <1>1
  <2>3. QED
      BY <2>1, <2>2
<1>5. 0 \in S
    BY <1>1, <1>3
<1> HIDE DEF S
<1>6. 0 .. n \subseteq S
    BY <1>1, <1>4, <1>5, UpTo
<1>7. n \in S
    BY <1>1, <1>6
<1>8. QED
    BY <1>2, <1>7 DEF S

------------------------------------------------------------------------------
(* What is reduced from a record *)

LEMMA CountsIn ==
    ASSUME NEW R
    PROVE  /\ Cardinality(CallsIn(R)) = Tally("call", R)
           /\ Of(R, "execution_stall") = Tally("stall", R)
           /\ CountIn(R, IsDelivery) = Tally("file", R)
           /\ Of(R, "test_run") = Tally("test", R)
           /\ ByRuleIn(R, ApplyRule) = Tally("apply", R)
           /\ ByRuleIn(R, ApplyRecoveryRule) = Tally("recover", R)
           /\ CountIn(R, IsCandidate) = Tally("candidate", R)
           /\ Of(R, "llm_call") = Tally("call", R)
           /\ CountIn(R, Pressure) = Tally("pressure", R)
           /\ CountIn(R, LAMBDA e : e.action = "freeze_or_replan") = Tally("replan", R)
           /\ \A tier \in {"strong", "exploration", "implementation", "validation", "delivery"} :
                 Tiers(R, tier) = Tally(tier, R)
<1>1. Cardinality(CallsIn(R)) = Tally("call", R)
    BY DEF CallsIn, Tally, Marks, Says
<1>2. Of(R, "execution_stall") = Tally("stall", R)
    BY DEF Of, CountIn, Tally, Marks, Says
<1>3. CountIn(R, IsDelivery) = Tally("file", R)
    BY DEF CountIn, Tally, Marks, Says
<1>4. Of(R, "test_run") = Tally("test", R)
    BY DEF Of, CountIn, Tally, Marks, Says
<1>5. ByRuleIn(R, ApplyRule) = Tally("apply", R)
    BY DEF ByRuleIn, CountIn, Tally, Marks, Says
<1>6. ByRuleIn(R, ApplyRecoveryRule) = Tally("recover", R)
    BY DEF ByRuleIn, CountIn, Tally, Marks, Says
<1>7. CountIn(R, IsCandidate) = Tally("candidate", R)
    BY DEF CountIn, Tally, Marks, Says
<1>8. Of(R, "llm_call") = Tally("call", R)
    BY DEF Of, CountIn, Tally, Marks, Says, IsCall
<1>9. CountIn(R, Pressure) = Tally("pressure", R)
    BY DEF CountIn, Tally, Marks, Says
<1>10. CountIn(R, LAMBDA e : e.action = "freeze_or_replan") = Tally("replan", R)
    BY DEF CountIn, Tally, Marks, Says
<1>11. ASSUME NEW tier \in {"strong", "exploration", "implementation", "validation", "delivery"}
       PROVE  Tiers(R, tier) = Tally(tier, R)
    BY DEF Tiers, CountIn, Tally, Marks, Says
<1>12. QED
    BY <1>1, <1>2, <1>3, <1>4, <1>5, <1>6, <1>7, <1>8, <1>9, <1>10, <1>11

\* The hypothesis of a replan after which there was no progress.
LEMMA HypothesisHas ==
    ASSUME NEW R, IsSeq(R), ProgressAt(R) \in Nat
    PROVE  LET h == HypothesisIn(R)
           IN  ReplanAt(R) > ProgressAt(R) =>
                  /\ (h.hyp # "") <=> (Named(R) # {})
                  /\ h.hyp # "" => h.hypStatus \in {"open", "stale"}
<1> SUFFICES ASSUME ReplanAt(R) > ProgressAt(R)
             PROVE  LET h == HypothesisIn(R)
                    IN  /\ (h.hyp # "") <=> (Named(R) # {})
                        /\ h.hyp # "" => h.hypStatus \in {"open", "stale"}
    OBVIOUS
<1> DEFINE h == HypothesisIn(R)
           first == CHOOSE i \in Named(R) : \A j \in Named(R) : i <= j
           against == \E i \in DOMAIN R : i > first /\ Against(R[i])
           a == IF ProgressAt(R) > ReplanAt(R) THEN "progressed" ELSE "pending"
           c == IF ProgressAt(R) > first THEN "progressed"
                ELSE IF against THEN "stale" ELSE "open"
<1>1. h = IF ReplanAt(R) = 0 THEN [hyp |-> "", hypStatus |-> "none"]
          ELSE IF Named(R) = {} THEN [hyp |-> "", hypStatus |-> a]
          ELSE [hyp |-> Hypothesis(R[LastOf(Named(R))]), hypStatus |-> c]
    BY DEF HypothesisIn, Named
<1>2. Len(R) \in Nat /\ ReplanAt(R) \in 0 .. Len(R) /\ Named(R) \in SUBSET (1 .. Len(R))
    BY InRange, ReplanMore, NamedMore
<1>3. ReplanAt(R) # 0
    BY <1>2
<1> HIDE DEF a
<1>4. CASE Named(R) = {}
  <2> HIDE DEF c
  <2>1. h = [hyp |-> "", hypStatus |-> a]
      BY <1>1, <1>3, <1>4
  <2> HIDE DEF h
  <2>2. h.hyp = ""
      BY <2>1
  <2>3. QED
      BY <1>4, <2>2 DEF h
<1>5. CASE Named(R) # {}
  <2> HIDE DEF against
  <2>1. first \in Named(R)
    <3>1. Named(R) \in SUBSET Nat
        BY <1>2
    <3>2. \E i \in Named(R) : \A j \in Named(R) : i <= j
        BY <1>5, <3>1, LeastNumber
    <3>3. QED
        BY <3>2, Zenon
  <2> HIDE DEF first
  <2>2. first \in Nat /\ first > ReplanAt(R)
    <3>1. \A i \in Named(R) : i > ReplanAt(R)
        BY Zenon DEF Named
    <3>2. first \in 1 .. Len(R)
        BY <1>2, <2>1
    <3>3. QED
        BY <1>2, <2>1, <3>1, <3>2
  <2>3. ~(ProgressAt(R) > first)
      BY <1>2, <2>2
  <2>4. c \in {"open", "stale"}
      BY <2>3
  <2> HIDE DEF c
  <2>5. LastOf(Named(R)) \in Named(R)
      BY <1>2, <1>5, LastIs
  <2>6. Hypothesis(R[LastOf(Named(R))]) # ""
      BY <2>5 DEF Named
  <2>7. h = [hyp |-> Hypothesis(R[LastOf(Named(R))]), hypStatus |-> c]
      BY <1>1, <1>3, <1>5
  <2> HIDE DEF h
  <2>8. h.hyp = Hypothesis(R[LastOf(Named(R))]) /\ h.hypStatus = c
      BY <2>7
  <2>9. QED
      BY <1>5, <2>4, <2>6, <2>8 DEF h
<1>6. QED
    BY <1>4, <1>5

SinceIn(R) == After(R, ProgressAt(R))

\* The record that reduce_state returns, with reason what it is for.
Reduced(R, reason, o) ==
    /\ o.calls = Tally("call", R) /\ o.stalls = Tally("stall", R)
    /\ o.deliveryFiles = Tally("file", R) /\ o.testRuns = Tally("test", R)
    /\ o.replans = Tally("replan", R) /\ o.exploration = Tally("exploration", R)
    /\ o.implementation = Tally("implementation", R)
    /\ o.validation = Tally("validation", R)
    /\ o.delivery = Tally("delivery", R) /\ o.strong = Tally("strong", R)
    /\ o.candidates = Tally("candidate", R)
    /\ o.action = LastCall(R).action /\ o.finish = LastCall(R).outcome
    /\ o.readiness = Fold("ready", NotReady, R).is
    /\ o.callsSince = Since("call", R) /\ o.stallsSince = Since("stall", R)
    /\ o.lengthSince = Since("pressure", R) /\ o.appliedSince = Since("apply", R)
    /\ o.recoveredSince = Since("recover", R)
    /\ o.explorationSince = Since("exploration", R)
    /\ o.progressKind = ProgressKind(R)
    /\ o.hyp = HypothesisIn(R).hyp /\ o.hypStatus = HypothesisIn(R).hypStatus
    /\ o.replanned = (ReplanAt(R) > ProgressAt(R))
    /\ o.reason = reason

LEMMA ReasonGiven ==
    ASSUME NEW f, f = [i \in DOMAIN f |-> f[i]], f.reason = ""
    PROVE  f = [f EXCEPT !.reason = ""]
OBVIOUS

LEMMA CountsHave ==
    ASSUME NEW R, IsSeq(R), NEW z
    PROVE  /\ Reduced(R, z, [Counts(R) EXCEPT !.reason = z])
           /\ Counts(R) = [Counts(R) EXCEPT !.reason = ""]
<1> DEFINE recent == After(R, IF Len(R) > WindowEvents THEN Len(R) - WindowEvents ELSE 0)
           since == SinceIn(R)
           f == ByRuleIn(recent, FloorRule)
           v == OfflineSeverity(since, recent)
           c == Counts(R)
           g == [version |-> Len(R), calls |-> Tally("call", R),
                 hyp |-> HypothesisIn(R).hyp, hypStatus |-> HypothesisIn(R).hypStatus,
                 stalls |-> Tally("stall", R), stallsSince |-> Since("stall", R),
                 deliveryFiles |-> Tally("file", R), testRuns |-> Tally("test", R),
                 action |-> LastCall(R).action, finish |-> LastCall(R).outcome,
                 floors |-> f,
                 appliedSince |-> Since("apply", R),
                 recoveredSince |-> Since("recover", R),
                 readiness |-> Fold("ready", NotReady, R).is,
                 candidates |-> Tally("candidate", R), strong |-> Tally("strong", R),
                 exploration |-> Tally("exploration", R),
                 implementation |-> Tally("implementation", R),
                 validation |-> Tally("validation", R),
                 delivery |-> Tally("delivery", R),
                 explorationSince |-> Since("exploration", R),
                 callsSince |-> Since("call", R), lengthSince |-> Since("pressure", R),
                 replans |-> Tally("replan", R),
                 replanned |-> ReplanAt(R) > ProgressAt(R),
                 progressKind |-> ProgressKind(R),
                 severity |-> v, reason |-> ""]
<1>1. /\ Cardinality(CallsIn(R)) = Tally("call", R)
      /\ Of(R, "execution_stall") = Tally("stall", R)
      /\ CountIn(R, IsDelivery) = Tally("file", R)
      /\ Of(R, "test_run") = Tally("test", R)
      /\ CountIn(R, IsCandidate) = Tally("candidate", R)
      /\ CountIn(R, LAMBDA e : e.action = "freeze_or_replan") = Tally("replan", R)
      /\ Tiers(R, "strong") = Tally("strong", R)
      /\ Tiers(R, "exploration") = Tally("exploration", R)
      /\ Tiers(R, "implementation") = Tally("implementation", R)
      /\ Tiers(R, "validation") = Tally("validation", R)
      /\ Tiers(R, "delivery") = Tally("delivery", R)
    BY CountsIn
<1>2. /\ Of(since, "execution_stall") = Since("stall", R)
      /\ ByRuleIn(since, ApplyRule) = Since("apply", R)
      /\ ByRuleIn(since, ApplyRecoveryRule) = Since("recover", R)
      /\ Tiers(since, "exploration") = Since("exploration", R)
      /\ Of(since, "llm_call") = Since("call", R)
      /\ CountIn(since, Pressure) = Since("pressure", R)
  <2>1. \A tag : Since(tag, R) = Tally(tag, since)
      BY DEF Since, SinceIn
  <2> HIDE DEF since
  <2>2. QED
      BY <2>1, CountsIn
<1>3. FoldLeft(Ready, NotReady, R).is = Fold("ready", NotReady, R).is
    BY ReadyIsFold
<1>4. c = g
    BY <1>1, <1>2, <1>3 DEF Counts, LastCall, ProgressKind, SinceIn
<1> HIDE DEF c, f, v
<1> DEFINE o == [c EXCEPT !.reason = z]
<1>5. /\ o.calls = Tally("call", R) /\ o.stalls = Tally("stall", R)
      /\ o.deliveryFiles = Tally("file", R) /\ o.testRuns = Tally("test", R)
      /\ o.replans = Tally("replan", R) /\ o.exploration = Tally("exploration", R)
      /\ o.implementation = Tally("implementation", R)
      /\ o.validation = Tally("validation", R)
    BY <1>4
<1>6. /\ o.delivery = Tally("delivery", R) /\ o.strong = Tally("strong", R)
      /\ o.candidates = Tally("candidate", R)
      /\ o.action = LastCall(R).action /\ o.finish = LastCall(R).outcome
      /\ o.readiness = Fold("ready", NotReady, R).is
      /\ o.callsSince = Since("call", R) /\ o.stallsSince = Since("stall", R)
    BY <1>4
<1>7. /\ o.lengthSince = Since("pressure", R) /\ o.appliedSince = Since("apply", R)
      /\ o.recoveredSince = Since("recover", R)
      /\ o.explorationSince = Since("exploration", R)
      /\ o.progressKind = ProgressKind(R)
      /\ o.hyp = HypothesisIn(R).hyp /\ o.hypStatus = HypothesisIn(R).hypStatus
    BY <1>4
<1>8. o.replanned = (ReplanAt(R) > ProgressAt(R)) /\ o.reason = z
    BY <1>4
<1> HIDE DEF o
<1>9. Reduced(R, z, o)
    BY <1>5, <1>6, <1>7, <1>8 DEF Reduced
<1>10. c = [c EXCEPT !.reason = ""]
  <2>1. c = [i \in DOMAIN c |-> c[i]] /\ c.reason = ""
      BY <1>4
  <2>2. QED
      BY <2>1, ReasonGiven
<1>11. QED
    BY <1>9, <1>10 DEF o, c

\* What is known of the two whenever the trial is looked at.
Agreed(plain, v) ==
    /\ Both(record, live, Ann(log).ready, plain, v)
    /\ Reduced(record, offline.reason, offline)
    /\ offline.reason = Reason(Counts(record)) /\ Reduced(record, "", Counts(record))
    /\ Alike => plain
    /\ live = Empty \/ (live.version # 0 /\ Reckoned(live))

\* And at the end of it, in every reachable state.
LEMMA AlwaysAgreed ==
    ASSUME LInv
    PROVE  \E plain, v \in BOOLEAN : Agreed(plain, v)
<1> DEFINE n == Len(log)
           z == Reason(Counts(record))
<1>1. /\ Timed(log, Now) /\ before \in BOOLEAN /\ record = Rec(before, log)
      /\ offline = ReduceState(record)
      /\ live = Fold("project", Empty, log) /\ Ordered(log)
    BY DEF LInv, OInv
<1>2. SideBySide(before, log, n) /\ Prefix(log, n) = log
    BY <1>1, AlwaysBoth
<1>3. /\ Both(record, live, Ann(log).ready, PlainTo(log, n), Passed(log, n))
      /\ n > 0 => live.version # 0 /\ Reckoned(live)
    BY <1>1, <1>2 DEF SideBySide
<1>4. IsSeq(record) /\ IsSeq(log)
    BY <1>1, <1>3 DEF Both, Match, Timed
<1>5. offline = [Counts(record) EXCEPT !.reason = z]
    BY <1>1 DEF ReduceState
<1> HIDE DEF z
<1>6. /\ Reduced(record, z, offline) /\ Reduced(record, "", Counts(record))
  <2>1. Reduced(record, "", [Counts(record) EXCEPT !.reason = ""])
        /\ Counts(record) = [Counts(record) EXCEPT !.reason = ""]
      BY <1>4, CountsHave
  <2>2. Reduced(record, z, [Counts(record) EXCEPT !.reason = z])
      BY <1>4, CountsHave
  <2>3. QED
      BY <1>5, <2>1, <2>2
<1>7. offline.reason = z
    BY <1>6 DEF Reduced
<1>8. Alike => PlainTo(log, n)
  <2>1. DOMAIN log = 1 .. n
      BY <1>4, InRange
  <2>2. QED
      BY <2>1 DEF Alike, PlainTo, Plain
<1>9. live = Empty \/ (live.version # 0 /\ Reckoned(live))
  <2>1. n \in Nat /\ (n = 0 \/ n > 0)
      BY <1>4, InRange
  <2>2. ASSUME n = 0 PROVE live = Empty
    <3>1. Prefix(log, 0) = <<>>
        BY <1>4, PrefixSteps
    <3>2. log = <<>>
        BY <1>2, <2>2, <3>1
    <3>3. QED
        BY <1>1, <3>2, FoldNone
  <2>3. QED
      BY <1>3, <2>1, <2>2
<1>10. Agreed(PlainTo(log, n), Passed(log, n))
    BY <1>3, <1>6, <1>7, <1>8, <1>9 DEF Agreed, z
<1>11. PlainTo(log, n) \in BOOLEAN /\ Passed(log, n) \in BOOLEAN
    BY DEF PlainTo, Passed
<1>12. QED
    BY <1>10, <1>11

\* The router's state and the one reduced from the record count alike
\* (projectEpisodeEvent in plugins/smartrouter/episode.go, reduce_state in
\* scripts/extract_episode_outcomes.py).
THEOREM CountsAgreeHolds == Spec => []CountsAgree
<1>1. LInv => CountsAgree
  <2> SUFFICES ASSUME LInv PROVE CountsAgree
      OBVIOUS
  <2>1. PICK plain, v \in BOOLEAN : Agreed(plain, v)
      BY AlwaysAgreed
  <2>2. Match(record, live, Ann(log).ready) /\ Tallied(record, live)
      BY <2>1 DEF Agreed, Both, Match
  <2>3. Reduced(record, offline.reason, offline)
      BY <2>1 DEF Agreed
  <2>4. /\ offline.calls = live.calls /\ offline.stalls = live.stalls
        /\ offline.deliveryFiles = live.deliveryFiles /\ offline.testRuns = live.testRuns
        /\ offline.action = live.action /\ offline.finish = live.finish
        /\ offline.strong = live.strong /\ offline.exploration = live.exploration
        /\ offline.implementation = live.implementation
        /\ offline.delivery = live.delivery /\ offline.replans = live.replans
      BY <2>2, <2>3 DEF Tallied, Reduced
  <2>5. offline.readiness = live.readiness
    <3>1. offline.readiness = Fold("ready", NotReady, record).is
        BY <2>3 DEF Reduced
    <3>2. QED
        BY <2>2, <3>1 DEF Match, MatchReady
  <2>6. ASSUME Alike
        PROVE  /\ offline.stallsSince = live.stallsSince
               /\ offline.appliedSince = live.appliedSince
               /\ offline.recoveredSince = live.recoveredSince
               /\ offline.explorationSince = live.explorationSince
               /\ offline.callsSince = live.callsSince
               /\ offline.lengthSince = live.lengthSince
               /\ offline.progressKind = live.progressKind
    <3>1. Sinced(record, live)
        BY <2>1, <2>6 DEF Agreed, Both, MatchPlain
    <3>2. QED
        BY <2>3, <3>1 DEF Sinced, Reduced
  <2>7. \A f \in Counted : offline[f] = live[f]
      BY <2>4, <2>5 DEF Counted
  <2>8. Alike => \A f \in CountedSince : offline[f] = live[f]
      BY <2>6 DEF CountedSince
  <2>9. QED
      BY <2>7, <2>8 DEF CountsAgree
<1>2. QED
    BY <1>1, LiveIsFold, PTL

------------------------------------------------------------------------------
(* The first rule that applies *)

Floors == {"verifier_failed_current_delivery", "validation_failed_current_delivery",
           "verifier_passed_current_delivery", "validation_passed_assess_hidden_gap",
           "hypothesis_apply_length_truncated", "execution_stall_needs_recovery",
           "analysis_progress_application_exhausted",
           "delivery_candidate_needs_delivery", "delivery_candidate_floor_exhausted",
           "replan_hypothesis_needs_validation"}

Needs(exhausted) ==
    IF exhausted THEN "delivery_candidate_floor_exhausted"
    ELSE "delivery_candidate_needs_delivery"

\* The rules that both have, in their order; rest: what the others come to.
Chain(ready, truncated, stalled, applied, needs, exhausted, waits, rest) ==
    IF ready \in DOMAIN ReadinessReason THEN ReadinessReason[ready]
    ELSE IF truncated THEN "hypothesis_apply_length_truncated"
    ELSE IF stalled THEN "execution_stall_needs_recovery"
    ELSE IF applied THEN "analysis_progress_application_exhausted"
    ELSE IF needs THEN Needs(exhausted)
    ELSE IF waits THEN "replan_hypothesis_needs_validation"
    ELSE rest

TruncatedIn(o) ==
    o.action = "hypothesis_apply" /\ o.finish = "length" /\ NoCandidateIn(o)

\* next_capability_state is a chain of rules; what comes after the floors gives
\* no floor.
LEMMA ReasonIs ==
    ASSUME NEW o
    PROVE  \E rest : /\ rest \notin Floors
                     /\ Reason(o) = Chain(o.readiness, TruncatedIn(o), o.stallsSince >= StallLimit,
                                          AppliedIn(o) /\ o.recoveredSince = 0, NeedsDeliveryIn(o),
                                          o.floors >= FloorLimit, NeedsApplicationIn(o), rest)
<1> DEFINE rest == IF o.severity \in {"stale", "blocked"}
                   THEN NoProgressReason[o.severity]
                   ELSE IF o.readiness = "delivery_candidate"
                   THEN "target_changed_needs_validation"
                   ELSE IF AppliedIn(o) THEN "analysis_progress_recovery_awaiting_outcome"
                   ELSE IF o.progressKind = "analysis_progress"
                   THEN "analysis_progress_needs_application"
                   ELSE IF o.severity = "watch" THEN "watching_output_pressure"
                   ELSE "no_blocking_outcome"
<1>1. rest \notin Floors
    BY DEF Floors, NoProgressReason
<1>2. Reason(o) = Chain(o.readiness, TruncatedIn(o), o.stallsSince >= StallLimit,
                        AppliedIn(o) /\ o.recoveredSince = 0, NeedsDeliveryIn(o),
                        o.floors >= FloorLimit, NeedsApplicationIn(o), rest)
    BY DEF Reason, Chain, TruncatedIn, Needs
<1>3. QED
    BY <1>1, <1>2

\* deriveNextCapability is a repeated failure, or the same chain with the
\* router's own guards.
LEMMA NextIs ==
    ASSUME NEW s, s.version # 0, s.active => s.severity \in {"blocked", "stale"}
    PROVE  \/ NextCapability(s)[2] = "repeated_test_failure_frontier"
           \/ \E rest :
                 /\ rest \notin Floors
                 /\ NextCapability(s)[2] =
                       Chain(s.readiness, ApplyTruncated(s), Stalled(s),
                             Applied(s) /\ s.recoveredSince = 0, NeedsDelivery(s),
                             FloorExhausted(s), NeedsApplication(s), rest)
<1> DEFINE rest ==
       IF s.severity \in {"blocked", "stale"} \/ s.active
       THEN Recover(NoProgressReason[s.severity])
       ELSE IF s.readiness = "delivery_candidate"
       THEN Execute("target_changed_needs_validation")
       ELSE IF Applied(s) /\ s.recoveredSince > 0
       THEN Probe("analysis_progress_recovery_awaiting_outcome")
       ELSE IF s.progressKind = "analysis_progress"
       THEN Execute("analysis_progress_needs_application")
       ELSE IF RouteLabel(s) \in DOMAIN ByRoute THEN ByRoute[RouteLabel(s)]
       ELSE IF s.severity = "watch" THEN Probe("watching_output_pressure")
       ELSE Probe("no_blocking_outcome")
<1>1. RouteLabel(s) \in DOMAIN ByRoute => ByRoute[RouteLabel(s)][2] \notin Floors
  <2> DEFINE l == RouteLabel(s)
  <2> HIDE DEF l
  <2>1. l \in DOMAIN ByRoute => ByRoute[l][2] \notin Floors
      BY DEF ByRoute, Recover, Assess, Execute, Floors
  <2>2. QED
      BY <2>1 DEF l
<1>2. s.severity \in {"blocked", "stale"} => Recover(NoProgressReason[s.severity])[2] \notin Floors
    BY DEF Recover, NoProgressReason, Floors
<1>3. /\ Execute("target_changed_needs_validation")[2] \notin Floors
      /\ Probe("analysis_progress_recovery_awaiting_outcome")[2] \notin Floors
      /\ Execute("analysis_progress_needs_application")[2] \notin Floors
      /\ Probe("watching_output_pressure")[2] \notin Floors
      /\ Probe("no_blocking_outcome")[2] \notin Floors
    BY DEF Execute, Probe, Floors
<1>4. rest[2] \notin Floors
    BY <1>1, <1>2, <1>3
<1> DEFINE n == NextCapability(s)
           rep == s.print # "" /\ s.samePrint >= RepeatLimit
<1>5. n = IF rep THEN Recover("repeated_test_failure_frontier")
          ELSE IF s.readiness \in DOMAIN ByReadiness THEN ByReadiness[s.readiness]
          ELSE IF ApplyTruncated(s) THEN Recover("hypothesis_apply_length_truncated")
          ELSE IF Stalled(s) THEN Recover("execution_stall_needs_recovery")
          ELSE IF Applied(s) /\ s.recoveredSince = 0
          THEN Recover("analysis_progress_application_exhausted")
          ELSE IF NeedsDelivery(s)
          THEN IF FloorExhausted(s) THEN Recover("delivery_candidate_floor_exhausted")
               ELSE Execute("delivery_candidate_needs_delivery")
          ELSE IF NeedsApplication(s)
          THEN <<"cheap_execute", "replan_hypothesis_needs_validation", "hypothesis_apply">>
          ELSE rest
    BY DEF NextCapability
<1> HIDE DEF n, rep, rest
<1>6. DOMAIN ByReadiness = DOMAIN ReadinessReason
      /\ \A r \in DOMAIN ByReadiness : ByReadiness[r][2] = ReadinessReason[r]
    BY DEF ByReadiness, ReadinessReason, Recover, Assess
<1>7. /\ \A z : Recover(z)[2] = z /\ Execute(z)[2] = z
      /\ <<"cheap_execute", "replan_hypothesis_needs_validation", "hypothesis_apply">>[2]
            = "replan_hypothesis_needs_validation"
    BY DEF Recover, Execute
<1> DEFINE c == Chain(s.readiness, ApplyTruncated(s), Stalled(s),
                      Applied(s) /\ s.recoveredSince = 0, NeedsDelivery(s),
                      FloorExhausted(s), NeedsApplication(s), rest[2])
<1>8. ~rep => n[2] = c
  <2> SUFFICES ASSUME ~rep PROVE n[2] = c
      OBVIOUS
  <2>1. CASE s.readiness \in DOMAIN ByReadiness
      BY <1>5, <1>6, <2>1 DEF Chain
  <2>2. CASE s.readiness \notin DOMAIN ByReadiness
      BY <1>5, <1>6, <1>7, <2>2 DEF Chain, Needs
  <2>3. QED
      BY <2>1, <2>2
<1>9. rep => n[2] = "repeated_test_failure_frontier"
    BY <1>5, <1>7
<1>10. QED
    BY <1>4, <1>8, <1>9 DEF n

\* Guard by guard the two chains ask the same, but for the truncated
\* application: the router looks at the outcome of the route as well.
LEMMA GuardsAgree ==
    ASSUME NEW R, NEW s, NEW r, NEW v \in BOOLEAN, Match(R, s, r), MatchPlain(R, s, v),
           NEW z, NEW o, Reduced(R, z, o)
    PROVE  /\ o.readiness = s.readiness
           /\ ApplyTruncated(s) <=> /\ TruncatedIn(o)
                                    /\ RouteLabel(s) \in {"pending", "no_progress", "none"}
           /\ Stalled(s) <=> o.stallsSince >= StallLimit
           /\ (Applied(s) /\ s.recoveredSince = 0) <=> (AppliedIn(o) /\ o.recoveredSince = 0)
           /\ NeedsDelivery(s) <=> NeedsDeliveryIn(o)
           /\ NeedsApplication(s) <=> NeedsApplicationIn(o)
<1>1. IsSeq(R) /\ Tallied(R, s) /\ AllPlain(R) /\ Sinced(R, s) /\ Replanned(R, s) /\ Tested(R, s, v)
    BY DEF Match, MatchPlain
<1>2. o.readiness = s.readiness
  <2>1. o.readiness = Fold("ready", NotReady, R).is
      BY DEF Reduced
  <2>2. QED
      BY <2>1 DEF Match, MatchReady
<1>3. /\ o.action = s.action /\ o.finish = s.finish /\ o.strong = s.strong
      /\ o.deliveryFiles = s.deliveryFiles /\ o.testRuns = s.testRuns
      /\ o.implementation = s.implementation /\ o.delivery = s.delivery
      /\ s.testRuns = Tally("test", R) /\ o.validation = Tally("validation", R)
    BY <1>1 DEF Reduced, Tallied
<1>4. /\ o.candidates = s.candidate /\ o.stallsSince = s.stallsSince
      /\ o.appliedSince = s.appliedSince /\ o.recoveredSince = s.recoveredSince
      /\ o.explorationSince = s.explorationSince /\ o.callsSince = s.callsSince
      /\ o.lengthSince = s.lengthSince /\ o.progressKind = s.progressKind
    BY <1>1 DEF Reduced, Sinced
<1>5. NoCandidate(s) <=> NoCandidateIn(o)
    BY <1>3, <1>4 DEF NoCandidate, NoCandidateIn
<1>6. ApplyTruncated(s) <=> /\ TruncatedIn(o)
                            /\ RouteLabel(s) \in {"pending", "no_progress", "none"}
    BY <1>3, <1>5 DEF ApplyTruncated, TruncatedIn
<1>7. Stalled(s) <=> o.stallsSince >= StallLimit
    BY <1>4 DEF Stalled
<1>8. (Applied(s) /\ s.recoveredSince = 0) <=> (AppliedIn(o) /\ o.recoveredSince = 0)
    BY <1>4 DEF Applied, AppliedIn
<1>9. NeedsDelivery(s) <=> NeedsDeliveryIn(o)
  <2>1. Tally("test", R) \in Nat
      BY <1>1, TallyMore
  <2>2. s.readiness = "delivery_candidate" =>
            ((s.validation = 0 /\ s.testRuns = 0) <=> (o.validation = 0 /\ o.testRuns = 0))
    <3>1. SUFFICES ASSUME s.readiness = "delivery_candidate"
                   PROVE  (s.validation = 0 /\ s.testRuns = 0)
                              <=> (o.validation = 0 /\ o.testRuns = 0)
        OBVIOUS
    <3>2. (s.validation = 0 \/ s.testRuns > 0)
          /\ (Tally("validation", R) = 0 \/ Tally("test", R) > 0)
        BY <1>1, <3>1 DEF Tested
    <3>3. (s.testRuns > 0) => s.testRuns # 0
        BY <1>3, <2>1
    <3>4. QED
        BY <1>3, <3>2, <3>3
  <2>3. QED
      BY <1>2, <1>3, <1>4, <2>2 DEF NeedsDelivery, NeedsDeliveryIn
<1>10. NeedsApplication(s) <=> NeedsApplicationIn(o)
  <2>1. /\ o.replanned <=> (ReplanAt(R) > ProgressAt(R))
        /\ o.hyp = HypothesisIn(R).hyp /\ o.hypStatus = HypothesisIn(R).hypStatus
      BY DEF Reduced
  <2>2. ProgressAt(R) \in Nat
    <3>1. Sourceless(Blank(""))
        BY DEF Sourceless, Blank
    <3>2. ProgressAt(R) \in 0 .. Len(R)
        BY <1>1, <3>1, PlainMoreIs
    <3>3. QED
        BY <1>1, <3>2, InRange
  <2>3. o.replanned => /\ (o.hyp # "") <=> (Named(R) # {})
                       /\ o.hyp # "" => o.hypStatus \in {"open", "stale"}
      BY <1>1, <2>1, <2>2, HypothesisHas
  <2>4. /\ o.replanned <=> (s.replan # 0)
        /\ s.replan # 0 => /\ (s.hyp # "") <=> (Named(R) # {})
                           /\ s.hyp # "" => s.hypStatus \in {"open", "stale"}
      BY <1>1, <2>1 DEF Replanned, InForce
  <2>5. QED
      BY <1>3, <1>5, <2>3, <2>4 DEF NeedsApplication, NeedsApplicationIn
<1>11. QED
    BY <1>2, <1>6, <1>7, <1>8, <1>9, <1>10

\* How the replayed reason and the live one may differ; l: nothing is known to
\* have come of the latest call.
CloseTo(was, is, l) ==
    {was, is} \cap Floors # {} =>
       \/ is = was
       \/ {is, was} = {"delivery_candidate_needs_delivery",
                       "delivery_candidate_floor_exhausted"}
       \/ was = "hypothesis_apply_length_truncated" /\ ~l

\* When the rules of the two agree but for the truncated application.
LEMMA ChainsAgree ==
    ASSUME NEW ready, NEW t, NEW t1, NEW l, t1 <=> (t /\ l), NEW s, NEW s1, s1 <=> s,
           NEW a, NEW a1, a1 <=> a, NEW n, NEW n1, n1 <=> n, NEW w, NEW w1, w1 <=> w,
           NEW x, NEW x1, NEW rest, rest \notin Floors, NEW rest1, rest1 \notin Floors
    PROVE  CloseTo(Chain(ready, t, s, a, n, x, w, rest),
                   Chain(ready, t1, s1, a1, n1, x1, w1, rest1), l)
<1> DEFINE is == Chain(ready, t1, s1, a1, n1, x1, w1, rest1)
           was == Chain(ready, t, s, a, n, x, w, rest)
<1>1. CASE ready \in DOMAIN ReadinessReason
  <2>1. is = was
      BY <1>1 DEF Chain
  <2>2. QED
      BY <2>1 DEF CloseTo
<1>2. CASE ready \notin DOMAIN ReadinessReason /\ t /\ ~l
  <2>1. was = "hypothesis_apply_length_truncated"
      BY <1>2 DEF Chain
  <2> HIDE DEF is, was
  <2>2. CloseTo(was, is, l)
      BY <1>2, <2>1 DEF CloseTo
  <2>3. QED
      BY <2>2 DEF is, was
<1>3. CASE ready \notin DOMAIN ReadinessReason /\ ~(t /\ ~l)
  <2>1. t1 <=> t
      BY <1>3
  <2>2. is = was \/ (is = Needs(x1) /\ was = Needs(x)) \/ (is = rest1 /\ was = rest)
    <3>1. CASE t \/ s \/ a
        BY <1>3, <2>1, <3>1 DEF Chain
    <3>2. CASE ~t /\ ~s /\ ~a /\ n
        BY <1>3, <2>1, <3>2 DEF Chain
    <3>3. CASE ~t /\ ~s /\ ~a /\ ~n
        BY <1>3, <2>1, <3>3 DEF Chain
    <3>4. QED
        BY <3>1, <3>2, <3>3
  <2> HIDE DEF is, was
  <2>3. CloseTo(was, is, l)
    <3>1. CASE is = was
        BY <3>1 DEF CloseTo
    <3>2. CASE is = Needs(x1) /\ was = Needs(x)
        BY <3>2 DEF CloseTo, Needs
    <3>3. CASE is = rest1 /\ was = rest
        BY <3>3 DEF CloseTo
    <3>4. QED
        BY <2>2, <3>1, <3>2, <3>3
  <2>4. QED
      BY <2>3 DEF is, was
<1>4. QED
    BY <1>1, <1>2, <1>3

\* The two reasons, once the router has state of the trial.
LEMMA ReasonsAgree ==
    ASSUME NEW R, NEW s, NEW r, NEW v \in BOOLEAN, Match(R, s, r), MatchPlain(R, s, v),
           NEW z, NEW o, Reduced(R, z, o), s.version # 0, Reckoned(s)
    PROVE  \/ s.reason = "repeated_test_failure_frontier"
           \/ CloseTo(Reason(o), s.reason, RouteLabel(s) \in {"pending", "no_progress", "none"})
<1> DEFINE t == TruncatedIn(o)
           l == RouteLabel(s) \in {"pending", "no_progress", "none"}
           t1 == ApplyTruncated(s)
           st == o.stallsSince >= StallLimit
           st1 == Stalled(s)
           a == AppliedIn(o) /\ o.recoveredSince = 0
           a1 == Applied(s) /\ s.recoveredSince = 0
           n == NeedsDeliveryIn(o)
           n1 == NeedsDelivery(s)
           x == o.floors >= FloorLimit
           x1 == FloorExhausted(s)
           w == NeedsApplicationIn(o)
           w1 == NeedsApplication(s)
<1>1. /\ o.readiness = s.readiness
      /\ t1 <=> (t /\ l)
      /\ st1 <=> st
      /\ a1 <=> a
      /\ n1 <=> n
      /\ w1 <=> w
    BY GuardsAgree
<1>2. PICK rest : /\ rest \notin Floors
                  /\ Reason(o) = Chain(o.readiness, t, st, a, n, x, w, rest)
    BY ReasonIs
<1>3. s.active => s.severity \in {"blocked", "stale"}
  <2>1. Sourceless(Blank(""))
      BY DEF Sourceless, Blank
  <2>2. Since("call", R) \in Nat
      BY <2>1, PlainMoreIs DEF Match, MatchPlain
  <2>3. s.callsSince \in Nat
      BY <2>2 DEF MatchPlain, Sinced
  <2>4. QED
      BY <2>3 DEF Reckoned
<1>4. s.reason = NextCapability(s)[2]
    BY DEF Reckoned
<1>5. \/ s.reason = "repeated_test_failure_frontier"
      \/ \E rest1 : /\ rest1 \notin Floors
                    /\ s.reason = Chain(s.readiness, t1, st1, a1, n1, x1, w1, rest1)
  <2>1. \/ NextCapability(s)[2] = "repeated_test_failure_frontier"
        \/ \E rest1 :
              /\ rest1 \notin Floors
              /\ NextCapability(s)[2] = Chain(s.readiness, t1, st1, a1, n1, x1, w1, rest1)
      BY <1>3, NextIs, Zenon
  <2> HIDE DEF t1, st1, a1, n1, x1, w1
  <2>2. QED
      BY <1>4, <2>1
<1> HIDE DEF t, l, t1, st, st1, a, a1, n, n1, x, x1, w, w1
<1>6. ASSUME NEW rest1, rest1 \notin Floors,
             s.reason = Chain(s.readiness, t1, st1, a1, n1, x1, w1, rest1)
      PROVE  CloseTo(Reason(o), s.reason, l)
  <2>1. CloseTo(Chain(o.readiness, t, st, a, n, x, w, rest),
                Chain(o.readiness, t1, st1, a1, n1, x1, w1, rest1), l)
      BY <1>1, <1>2, <1>6, ChainsAgree
  <2>2. QED
      BY <1>1, <1>2, <1>6, <2>1
<1>7. s.reason = "repeated_test_failure_frontier" \/ CloseTo(Reason(o), s.reason, l)
    BY <1>5, <1>6
<1>8. QED
    BY <1>7 DEF l

\* Before the first event no floor stands.
LEMMA NoReasonYet ==
    ASSUME NEW R, NEW r, NEW v \in BOOLEAN, Match(R, Empty, r), MatchPlain(R, Empty, v),
           NEW z, NEW o, Reduced(R, z, o)
    PROVE  Reason(o) \notin Floors /\ Empty.reason \notin Floors
<1>1. /\ Empty.readiness = "none" /\ Empty.action = "" /\ Empty.stallsSince = 0
      /\ Empty.progressKind = "" /\ Empty.replan = 0 /\ Empty.route = 0
      /\ Empty.routeLabel = "" /\ Empty.reason = ""
    BY DEF Empty
<1> DEFINE u == Empty
<1>2. u.readiness = "none" /\ u.action = "" /\ u.stallsSince = 0
      /\ u.progressKind = "" /\ u.replan = 0 /\ u.route = 0
      /\ u.routeLabel = "" /\ u.reason = "" /\ Match(R, u, r) /\ MatchPlain(R, u, v)
    BY <1>1
<1> HIDE DEF u
<1> DEFINE t == TruncatedIn(o)
           st == o.stallsSince >= StallLimit
           a == AppliedIn(o) /\ o.recoveredSince = 0
           n == NeedsDeliveryIn(o)
           x == o.floors >= FloorLimit
           w == NeedsApplicationIn(o)
<1>3. /\ o.readiness = u.readiness
      /\ ApplyTruncated(u) <=> (t /\ RouteLabel(u) \in {"pending", "no_progress", "none"})
      /\ Stalled(u) <=> st
      /\ (Applied(u) /\ u.recoveredSince = 0) <=> a
      /\ NeedsDelivery(u) <=> n
      /\ NeedsApplication(u) <=> w
    BY <1>2, GuardsAgree
<1>4. RouteLabel(u) = "none"
    BY <1>2 DEF RouteLabel
<1>5. StallLimit \in Nat \ {0}
    BY ProjectionAssumption
<1>6. ~Stalled(u)
  <2>1. ~(0 >= StallLimit)
      BY <1>5
  <2>2. QED
      BY <1>2, <2>1 DEF Stalled
<1>7. ~ApplyTruncated(u) /\ ~Applied(u) /\ ~NeedsDelivery(u) /\ ~NeedsApplication(u)
    BY <1>2 DEF ApplyTruncated, Applied, NeedsDelivery, NeedsApplication
<1> HIDE DEF t, st, a, n, x, w
<1>8. ~t /\ ~st /\ ~a /\ ~n /\ ~w
    BY <1>3, <1>4, <1>6, <1>7
<1>9. PICK rest : /\ rest \notin Floors
                  /\ Reason(o) = Chain(o.readiness, t, st, a, n, x, w, rest)
    BY ReasonIs DEF t, st, a, n, x, w
<1>10. o.readiness = "none" /\ "none" \notin DOMAIN ReadinessReason
    BY <1>2, <1>3 DEF ReadinessReason
<1>11. Reason(o) = rest
    BY <1>8, <1>9, <1>10 DEF Chain
<1>12. QED
    BY <1>1, <1>9, <1>11 DEF Floors

\* The floors that come before the pressure of the episode stand for the router
\* when they stand in the replay of the same events, but for the cases named
\* (deriveNextCapability in plugins/smartrouter/episode.go,
\* next_capability_state in scripts/extract_episode_outcomes.py).
THEOREM FloorsAgreeHolds == Spec => []FloorsAgree
<1>1. LInv => FloorsAgree
  <2> SUFFICES ASSUME LInv PROVE FloorsAgree
      OBVIOUS
  <2> DEFINE o == Counts(record)
             l == RouteLabel(live) \in {"pending", "no_progress", "none"}
  <2>1. PICK plain, v \in BOOLEAN : Agreed(plain, v)
      BY AlwaysAgreed
  <2>2. /\ Match(record, live, Ann(log).ready) /\ offline.reason = Reason(o)
        /\ Reduced(record, "", o) /\ (Alike => MatchPlain(record, live, v))
        /\ (live = Empty \/ (live.version # 0 /\ Reckoned(live)))
      BY <2>1 DEF Agreed, Both
  <2> HIDE DEF o
  <2>3. Alike => \/ live.reason = "repeated_test_failure_frontier"
                 \/ CloseTo(offline.reason, live.reason, l)
    <3> SUFFICES ASSUME Alike
                 PROVE  \/ live.reason = "repeated_test_failure_frontier"
                        \/ CloseTo(offline.reason, live.reason, l)
        OBVIOUS
    <3>1. CASE live.version # 0 /\ Reckoned(live)
        BY <2>2, <3>1, ReasonsAgree
    <3>2. CASE live = Empty
      <4>1. offline.reason \notin Floors /\ live.reason \notin Floors
          BY <2>2, <3>2, NoReasonYet
      <4>2. QED
          BY <4>1 DEF CloseTo
    <3>3. QED
        BY <2>2, <3>1, <3>2
  <2>4. QED
      BY <2>3 DEF FloorsAgree, CloseTo, Floors
<1>2. QED
    BY <1>1, LiveIsFold, PTL
=============================================================================
