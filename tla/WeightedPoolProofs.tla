-------------------------- MODULE WeightedPoolProofs --------------------------
(***************************************************************************)
(* The weighted strategy for any weights, filters and number of selecting  *)
(* goroutines: no interleaving of selections loses or creates weight, a    *)
(* selection answers with an endpoint that was available while it ran, and *)
(* a round of undisturbed selections picks each endpoint exactly as often  *)
(* as its weight says.  The last is the period of smooth weighted round    *)
(* robin: after k picks, p[e] of them e's, e's counter is                  *)
(*     k * Weight[e] - W * p[e],    W what the weights sum to.             *)
(* The counters sum to W before the payment, so the largest is positive and*)
(* none ever falls to -W; after W picks this says p[e] <= Weight[e] for    *)
(* every e, and as both sum to W they are equal.                           *)
(***************************************************************************)
EXTENDS WeightedPool, TLAPS, FiniteSetTheorems, WellFoundedInduction

----------------------------------------------------------------------------
(* Sums over finite sets.  MapThenSumSet is defined by a choice of element  *)
(* and recursion on the rest: that the choice does not matter, and what     *)
(* else is needed of sums, goes by the least set for which it fails.        *)

SumOf(f, S) == MapThenSumSet(LAMBDA e : f[e], S)

One(s) == CHOOSE x \in s : TRUE

\* g adds f up over the subsets of S.
Adds(g, f, S) ==
    g = [s \in SUBSET S |->
            IF s = {} THEN 0 ELSE f[One(s)] + g[s \ {One(s)}]]

\* Every set of naturals has a least one.
LEMMA LeastNumber ==
    ASSUME NEW T \in SUBSET Nat, T # {}
    PROVE  \E m \in T : \A n \in T : m <= n
<1> DEFINE L == {ss \in Nat \X Nat : ss[1] < ss[2]}
<1>1. IsWellFoundedOn(L, Nat)
    BY NatLessThanWellFounded DEF OpToRel
<1> HIDE DEF L
<1>2. PICK x \in T : \A y \in T : ~(<<y, x>> \in L)
    BY <1>1, WFMin
<1>3. \A y \in T : ~(y < x)
    BY <1>2 DEF L
<1>4. QED
    BY <1>3

\* Of finite sets of which something is false there is one of which it is true
\* of everything smaller.
LEMMA SmallestSet ==
    ASSUME NEW C, C # {}, \A s \in C : IsFiniteSet(s)
    PROVE  \E s \in C : \A x \in s : s \ {x} \notin C
<1> DEFINE T == {Cardinality(s) : s \in C}
<1>1. T \in SUBSET Nat /\ T # {}
    BY FS_CardinalityType
<1>2. PICK m \in T : \A n \in T : m <= n
    BY <1>1, LeastNumber
<1>3. PICK s \in C : m = Cardinality(s)
    BY <1>2
<1>4. ASSUME NEW x \in s PROVE s \ {x} \notin C
    <2>1. Cardinality(s \ {x}) = Cardinality(s) - 1 /\ Cardinality(s) \in Nat
        BY FS_RemoveElement, FS_CardinalityType
    <2>2. s \ {x} \in C => Cardinality(s) <= Cardinality(s \ {x})
        BY <1>2, <1>3
    <2>3. QED
        BY <2>1, <2>2
<1>5. QED
    BY <1>4

\* The function that the definition of the fold chooses adds up.
LEMMA SumIs == ASSUME NEW f, NEW S
               PROVE  SumOf(f, S) = (CHOOSE g : Adds(g, f, S))[S]
BY Zenon DEF SumOf, MapThenSumSet, MapThenFoldSet, Adds, One

LEMMA OneIsIn == ASSUME NEW s, s # {} PROVE One(s) \in s
BY DEF One

\* Two ways to add up agree.
LEMMA AddsAgree ==
    ASSUME NEW f, NEW S, NEW T, NEW g, NEW h, Adds(g, f, S), Adds(h, f, T),
           NEW s \in SUBSET (S \cap T), IsFiniteSet(s)
    PROVE  g[s] = h[s]
<1> DEFINE C == {t \in SUBSET s : g[t] # h[t]}
<1>1. \A t \in C : IsFiniteSet(t)
    BY FS_Subset
<1>2. SUFFICES ASSUME C # {} PROVE FALSE
    OBVIOUS
<1>3. PICK t \in C : \A x \in t : t \ {x} \notin C
    BY <1>1, <1>2, SmallestSet
<1>4. /\ g[t] = IF t = {} THEN 0 ELSE f[One(t)] + g[t \ {One(t)}]
      /\ h[t] = IF t = {} THEN 0 ELSE f[One(t)] + h[t \ {One(t)}]
    BY DEF Adds
<1>5. CASE t = {}
    BY <1>4, <1>5
<1>6. CASE t # {}
  <2>1. One(t) \in t
      BY <1>6, OneIsIn
  <2>2. t \ {One(t)} \in SUBSET s
      OBVIOUS
  <2>3. g[t \ {One(t)}] = h[t \ {One(t)}]
      BY <1>3, <2>1, <2>2
  <2>4. QED
      BY <1>4, <1>6, <2>3
<1>7. QED
    BY <1>5, <1>6

\* Over a finite set there is a way to add up.
LEMMA AddsExists ==
    ASSUME NEW f, NEW S, IsFiniteSet(S)
    PROVE  \E g : Adds(g, f, S)
<1> DEFINE C == {t \in SUBSET S : ~ \E g : Adds(g, f, t)}
<1>1. \A t \in C : IsFiniteSet(t)
    BY FS_Subset
<1>2. SUFFICES ASSUME C # {} PROVE FALSE
    BY <1>2
<1>3. PICK t \in C : \A x \in t : t \ {x} \notin C
    BY <1>1, <1>2, SmallestSet
<1> HIDE DEF C
<1>4. t \in SUBSET S /\ IsFiniteSet(t) /\ ~ \E g : Adds(g, f, t)
    BY <1>1 DEF C
<1>5. \A x \in t : \E g : Adds(g, f, t \ {x})
    BY <1>3, <1>4 DEF C
<1> DEFINE G(x) == CHOOSE g : Adds(g, f, t \ {x})
           v(s) == IF s = {} THEN 0 ELSE
                   IF s = t THEN f[One(t)] + G(One(t))[t \ {One(t)}]
                   ELSE G(CHOOSE x \in t : x \notin s)[s]
           g == [s \in SUBSET t |-> v(s)]
<1>6. \A x \in t : Adds(G(x), f, t \ {x})
    BY <1>5, Zenon
<1> HIDE DEF G
<1>7. ASSUME NEW s \in SUBSET t, NEW x \in t, x \notin s
      PROVE  g[s] = G(x)[s]
    <2>1. CASE s = {}
        BY <1>6, <2>1 DEF Adds
    <2>2. CASE s # {}
      <3> DEFINE y == CHOOSE z \in t : z \notin s
      <3>1. y \in t /\ y \notin s /\ s # t
          BY <1>7
      <3>2. g[s] = G(y)[s]
          BY <2>2, <3>1
      <3> HIDE DEF y
      <3>3. Adds(G(y), f, t \ {y}) /\ Adds(G(x), f, t \ {x}) /\ IsFiniteSet(s)
          BY <1>4, <1>6, <3>1, FS_Subset
      <3>4. s \in SUBSET ((t \ {y}) \cap (t \ {x}))
          BY <1>7, <3>1
      <3>5. G(y)[s] = G(x)[s]
          BY <3>3, <3>4, AddsAgree
      <3>6. QED
          BY <3>2, <3>5
    <2>3. QED
        BY <2>1, <2>2
<1>8. ASSUME NEW s \in SUBSET t, s # {}
      PROVE  g[s] = f[One(s)] + g[s \ {One(s)}]
    <2>1. One(s) \in s /\ One(s) \in t
        BY <1>8, OneIsIn
    <2>2. g[s \ {One(s)}] = G(One(s))[s \ {One(s)}]
        BY <1>7, <2>1
    <2>3. CASE s = t
        BY <1>8, <2>2, <2>3
    <2>4. CASE s # t
      <3>1. PICK x \in t : x \notin s
          BY <2>4
      <3>2. g[s] = G(x)[s] /\ g[s \ {One(s)}] = G(x)[s \ {One(s)}]
          BY <1>7, <3>1
      <3>3. Adds(G(x), f, t \ {x}) /\ s \in SUBSET (t \ {x})
          BY <1>6, <3>1
      <3>4. G(x)[s] = f[One(s)] + G(x)[s \ {One(s)}]
          BY <1>8, <3>3 DEF Adds
      <3>5. QED
          BY <3>2, <3>4
    <2>5. QED
        BY <2>3, <2>4
<1>9. g[{}] = 0
    OBVIOUS
<1>10. g = [s \in SUBSET t |-> g[s]]
    OBVIOUS
<1> HIDE DEF g
<1>11. Adds(g, f, t)
    BY <1>8, <1>9, <1>10 DEF Adds
<1>12. QED
    BY <1>4, <1>11

LEMMA SumEmpty == ASSUME NEW f PROVE SumOf(f, {}) = 0
<1>1. Adds(CHOOSE g : Adds(g, f, {}), f, {})
    BY AddsExists, FS_EmptySet, Zenon
<1>2. QED
    BY <1>1, SumIs DEF Adds

\* The sum is the chosen element's value and the sum of the rest.
LEMMA SumOne ==
    ASSUME NEW f, NEW S, IsFiniteSet(S), S # {}
    PROVE  SumOf(f, S) = f[One(S)] + SumOf(f, S \ {One(S)})
<1> DEFINE T == S \ {One(S)}
           G == CHOOSE g : Adds(g, f, S)
           H == CHOOSE g : Adds(g, f, T)
<1>1. IsFiniteSet(T) /\ T \in SUBSET S
    BY FS_RemoveElement, FS_Subset
<1>2. SumOf(f, S) = G[S] /\ SumOf(f, T) = H[T]
    BY SumIs
<1> HIDE DEF T
<1>3. Adds(G, f, S) /\ Adds(H, f, T)
    BY <1>1, AddsExists, Zenon
<1> HIDE DEF G, H
<1>4. G[T] = H[T]
    BY <1>1, <1>3, AddsAgree
<1>5. G[S] = f[One(S)] + G[T]
    BY <1>3 DEF Adds, T
<1>6. QED
    BY <1>2, <1>4, <1>5 DEF T

LEMMA SumInt ==
    ASSUME NEW f, NEW S, IsFiniteSet(S), \A e \in S : f[e] \in Int
    PROVE  SumOf(f, S) \in Int
<1> DEFINE C == {t \in SUBSET S : SumOf(f, t) \notin Int}
<1>1. \A t \in C : IsFiniteSet(t)
    BY FS_Subset
<1>2. SUFFICES ASSUME C # {} PROVE FALSE
    OBVIOUS
<1>3. PICK t \in C : \A x \in t : t \ {x} \notin C
    BY <1>1, <1>2, SmallestSet
<1>4. CASE t = {}
    BY <1>4, SumEmpty
<1>5. CASE t # {}
  <2>1. One(t) \in t /\ IsFiniteSet(t)
      BY <1>1, <1>5, OneIsIn
  <2>2. t \ {One(t)} \in SUBSET S /\ f[One(t)] \in Int
      BY <2>1
  <2>3. SumOf(f, t \ {One(t)}) \in Int
      BY <1>3, <2>1, <2>2
  <2>4. SumOf(f, t) = f[One(t)] + SumOf(f, t \ {One(t)})
      BY <1>5, <2>1, SumOne
  <2>5. SumOf(f, t) \in Int
      BY <2>2, <2>3, <2>4
  <2>6. QED
      BY <2>5
<1>6. QED
    BY <1>4, <1>5

\* Any element may be taken out of a sum.
LEMMA SumTake ==
    ASSUME NEW f, NEW S, IsFiniteSet(S), \A e \in S : f[e] \in Int, NEW x \in S
    PROVE  SumOf(f, S) = f[x] + SumOf(f, S \ {x})
<1> DEFINE Bad(t) == \E y \in t : SumOf(f, t) # f[y] + SumOf(f, t \ {y})
           C == {t \in SUBSET S : Bad(t)}
<1>1. \A t \in C : IsFiniteSet(t)
    BY FS_Subset
<1>2. SUFFICES ASSUME C # {} PROVE FALSE
    OBVIOUS
<1>3. PICK t \in C : \A z \in t : t \ {z} \notin C
    BY <1>1, <1>2, SmallestSet
<1>4. PICK y \in t : SumOf(f, t) # f[y] + SumOf(f, t \ {y})
    OBVIOUS
<1> DEFINE z == One(t)
           u == (t \ {z}) \ {y}
<1>5. z \in t /\ IsFiniteSet(t) /\ t \in SUBSET S
    BY <1>1, <1>4, OneIsIn
<1>6. SumOf(f, t) = f[z] + SumOf(f, t \ {z})
    BY <1>4, <1>5, SumOne
<1>7. z # y
    BY <1>4, <1>6
<1> HIDE DEF z
<1>8. SumOf(f, t \ {z}) = f[y] + SumOf(f, u)
  <2>1. t \ {z} \notin C /\ t \ {z} \in SUBSET S /\ y \in t \ {z}
      BY <1>3, <1>4, <1>5, <1>7
  <2>2. ~Bad(t \ {z})
      BY <2>1
  <2>3. QED
      BY <2>1, <2>2
<1>9. SumOf(f, t \ {y}) = f[z] + SumOf(f, u)
  <2>1. t \ {y} \notin C /\ t \ {y} \in SUBSET S /\ z \in t \ {y}
      BY <1>3, <1>4, <1>5, <1>7
  <2>2. ~Bad(t \ {y})
      BY <2>1
  <2>3. (t \ {y}) \ {z} = u
      OBVIOUS
  <2>4. QED
      BY <2>1, <2>2, <2>3
<1>10. /\ f[z] \in Int /\ f[y] \in Int
       /\ SumOf(f, u) \in Int
  <2>1. IsFiniteSet(u) /\ \A e \in u : f[e] \in Int
      BY <1>5, FS_Subset
  <2>2. SumOf(f, u) \in Int
      BY <2>1, SumInt
  <2>3. QED
      BY <1>4, <1>5, <2>2
<1> HIDE DEF u
<1>11. QED
    BY <1>4, <1>6, <1>8, <1>9, <1>10

\* An element more adds its value.
LEMMA SumAdd ==
    ASSUME NEW f, NEW S, IsFiniteSet(S), NEW x, x \notin S,
           \A e \in S \cup {x} : f[e] \in Int
    PROVE  SumOf(f, S \cup {x}) = f[x] + SumOf(f, S)
<1>1. IsFiniteSet(S \cup {x})
    BY FS_AddElement
<1>2. (S \cup {x}) \ {x} = S
    OBVIOUS
<1>3. QED
    BY <1>1, <1>2, SumTake

\* A sum depends on the values over its set only.
LEMMA SumSame ==
    ASSUME NEW f, NEW h, NEW S, IsFiniteSet(S), \A e \in S : f[e] = h[e]
    PROVE  SumOf(f, S) = SumOf(h, S)
<1> DEFINE C == {t \in SUBSET S : SumOf(f, t) # SumOf(h, t)}
<1>1. \A t \in C : IsFiniteSet(t)
    BY FS_Subset
<1>2. SUFFICES ASSUME C # {} PROVE FALSE
    OBVIOUS
<1>3. PICK t \in C : \A x \in t : t \ {x} \notin C
    BY <1>1, <1>2, SmallestSet
<1>4. CASE t = {}
    BY <1>4, SumEmpty
<1>5. CASE t # {}
  <2>1. One(t) \in t /\ IsFiniteSet(t)
      BY <1>1, <1>5, OneIsIn
  <2>2. t \ {One(t)} \in SUBSET S /\ f[One(t)] = h[One(t)]
      BY <2>1
  <2>3. SumOf(f, t \ {One(t)}) = SumOf(h, t \ {One(t)})
      BY <1>3, <2>1, <2>2
  <2>4. /\ SumOf(f, t) = f[One(t)] + SumOf(f, t \ {One(t)})
        /\ SumOf(h, t) = h[One(t)] + SumOf(h, t \ {One(t)})
      BY <1>5, <2>1, SumOne
  <2>5. SumOf(f, t) = SumOf(h, t)
      BY <2>2, <2>3, <2>4
  <2>6. QED
      BY <2>5
<1>6. QED
    BY <1>4, <1>5

\* When one value changes the sum changes by as much.
LEMMA SumChange ==
    ASSUME NEW f, NEW h, NEW S, IsFiniteSet(S), NEW x \in S,
           \A e \in S : f[e] \in Int /\ h[e] \in Int,
           \A e \in S \ {x} : h[e] = f[e]
    PROVE  SumOf(h, S) = SumOf(f, S) + h[x] - f[x]
<1>1. IsFiniteSet(S \ {x})
    BY FS_RemoveElement
<1>2. SumOf(f, S \ {x}) = SumOf(h, S \ {x}) /\ SumOf(f, S \ {x}) \in Int
    BY <1>1, SumSame, SumInt
<1>3. /\ SumOf(f, S) = f[x] + SumOf(f, S \ {x})
      /\ SumOf(h, S) = h[x] + SumOf(h, S \ {x})
    BY SumTake
<1>4. QED
    BY <1>2, <1>3

\* Smaller values have the smaller sum.
LEMMA SumLess ==
    ASSUME NEW f, NEW h, NEW S, IsFiniteSet(S),
           \A e \in S : f[e] \in Int /\ h[e] \in Int /\ f[e] <= h[e]
    PROVE  SumOf(f, S) <= SumOf(h, S)
<1> DEFINE C == {t \in SUBSET S : ~(SumOf(f, t) <= SumOf(h, t))}
<1>1. \A t \in C : IsFiniteSet(t)
    BY FS_Subset
<1>2. SUFFICES ASSUME C # {} PROVE FALSE
    OBVIOUS
<1>3. PICK t \in C : \A x \in t : t \ {x} \notin C
    BY <1>1, <1>2, SmallestSet
<1>4. CASE t = {}
    BY <1>4, SumEmpty
<1>5. CASE t # {}
  <2>1. One(t) \in t /\ IsFiniteSet(t)
      BY <1>1, <1>5, OneIsIn
  <2>2. /\ t \ {One(t)} \in SUBSET S /\ IsFiniteSet(t \ {One(t)})
        /\ f[One(t)] \in Int /\ h[One(t)] \in Int /\ f[One(t)] <= h[One(t)]
      BY <2>1, FS_Subset
  <2>3. SumOf(f, t \ {One(t)}) <= SumOf(h, t \ {One(t)})
      BY <1>3, <2>1, <2>2
  <2>4. /\ SumOf(f, t) = f[One(t)] + SumOf(f, t \ {One(t)})
        /\ SumOf(h, t) = h[One(t)] + SumOf(h, t \ {One(t)})
      BY <1>5, <2>1, SumOne
  <2>5. SumOf(f, t \ {One(t)}) \in Int /\ SumOf(h, t \ {One(t)}) \in Int
      BY <2>2, SumInt
  <2>6. SumOf(f, t) <= SumOf(h, t)
      BY <2>2, <2>3, <2>4, <2>5
  <2>7. QED
      BY <2>6
<1>6. QED
    BY <1>4, <1>5

\* Smaller values with the same sum are the same values.
LEMMA SumTight ==
    ASSUME NEW f, NEW h, NEW S, IsFiniteSet(S),
           \A e \in S : f[e] \in Int /\ h[e] \in Int /\ f[e] <= h[e],
           SumOf(f, S) = SumOf(h, S), NEW x \in S
    PROVE  f[x] = h[x]
<1>1. IsFiniteSet(S \ {x}) /\ \A e \in S \ {x} : f[e] \in Int /\ h[e] \in Int /\ f[e] <= h[e]
    BY FS_RemoveElement
<1>2. SumOf(f, S \ {x}) <= SumOf(h, S \ {x})
    BY <1>1, SumLess
<1>3. SumOf(f, S \ {x}) \in Int /\ SumOf(h, S \ {x}) \in Int
    BY <1>1, SumInt
<1>4. /\ SumOf(f, S) = f[x] + SumOf(f, S \ {x})
      /\ SumOf(h, S) = h[x] + SumOf(h, S \ {x})
    BY SumTake
<1>5. f[x] \in Int /\ h[x] \in Int /\ f[x] <= h[x]
    OBVIOUS
<1>6. f[x] + SumOf(f, S \ {x}) = h[x] + SumOf(h, S \ {x})
    BY <1>4
<1>7. \A a, b, c, d \in Int : a <= b /\ c <= d /\ a + c = b + d => a = b
    OBVIOUS
<1>8. QED
    BY <1>2, <1>3, <1>5, <1>6, <1>7

\* Zeros add nothing.
LEMMA SumZeros ==
    ASSUME NEW f, NEW S, IsFiniteSet(S), NEW T \in SUBSET S,
           \A e \in S : f[e] \in Int, \A e \in S \ T : f[e] = 0
    PROVE  SumOf(f, S) = SumOf(f, T)
<1> DEFINE C == {t \in SUBSET (S \ T) : SumOf(f, T \cup t) # SumOf(f, T)}
<1>1. \A t \in C : IsFiniteSet(t)
    BY FS_Subset
<1>2. C = {}
  <2>1. SUFFICES ASSUME C # {} PROVE FALSE
      OBVIOUS
  <2>2. PICK t \in C : \A x \in t : t \ {x} \notin C
      BY <1>1, <2>1, SmallestSet
  <2>3. PICK x \in t : TRUE
      OBVIOUS
  <2>4. SumOf(f, T \cup (t \ {x})) = SumOf(f, T)
      BY <2>2, <2>3
  <2>5. (T \cup t) \ {x} = T \cup (t \ {x}) /\ x \in T \cup t /\ IsFiniteSet(T \cup t)
      BY <2>3, FS_Subset
  <2>6. SumOf(f, T \cup t) = f[x] + SumOf(f, T \cup (t \ {x}))
      BY <2>5, SumTake
  <2>7. f[x] = 0 /\ SumOf(f, T) \in Int
    <3>1. IsFiniteSet(T)
        BY FS_Subset
    <3>2. QED
        BY <2>3, <3>1, SumInt
  <2>8. QED
      BY <2>4, <2>6, <2>7
<1>3. SumOf(f, T \cup (S \ T)) = SumOf(f, T)
    BY <1>2
<1>4. QED
    BY <1>3

\* The sums of the model.
LEMMA TotalIsSum == ASSUME NEW S PROVE Total(S) = SumOf(Weight, S)
BY DEF Total, SumOf

\* The endpoints are numbered from 1, and every weight is positive.
LEMMA Indices ==
    /\ Index = 1 .. Len(Weight) /\ Len(Weight) \in Nat \ {0} /\ 1 \in Index
    /\ IsFiniteSet(Index)
    /\ Nil \notin Index
    /\ \A e \in Index : Weight[e] \in Nat \ {0}
    /\ 1 \in 1 .. Len(Weight) + 1 /\ Flips \in Nat
<1>1. Weight \in Seq(Nat \ {0}) /\ Weight # <<>>
    BY WeightAssumption
<1>2. Index = 1 .. Len(Weight) /\ Len(Weight) \in Nat
    BY <1>1 DEF Index
<1>3. Len(Weight) # 0
    BY <1>1
<1>4. IsFiniteSet(1 .. Len(Weight))
    BY <1>2, FS_Interval
<1>5. 1 \in 1 .. Len(Weight) + 1 /\ Flips \in Nat
    BY <1>2, WeightAssumption
<1>6. QED
    BY <1>1, <1>2, <1>3, <1>4, <1>5 DEF Nil, Index

LEMMA IdleIsSelection == Idle \in Selection
BY Indices DEF Idle, Selection, AnyModel, Nil

\* What a selection returns is a selection at rest, and the round stays one.
\* The weights of some endpoints sum to an integer.
LEMMA TotalTyped == ASSUME NEW S \in SUBSET Index PROVE Total(S) \in Int
<1>1. IsFiniteSet(S)
    BY Indices, FS_Subset
<1>2. \A e \in S : Weight[e] \in Int
    BY Indices
<1>3. QED
    BY <1>1, <1>2, SumInt, TotalIsSum

LEMMA ReturnTyped ==
    ASSUME TypeOK, NEW s \in Selector, NEW e \in Index \cup {Nil}, Return(s, e)
    PROVE  /\ sel' \in [Selector -> Selection]
           /\ picks' \in [Index -> Nat] \cup {Spoiled}
<1>1. [Idle EXCEPT !.result = e, !.filter = sel[s].filter,
                   !.steady = sel[s].steady, !.seen = sel[s].seen] \in Selection
    BY IdleIsSelection DEF TypeOK, Selection
<1>2. sel' \in [Selector -> Selection]
    BY <1>1 DEF TypeOK, Return
<1>3. picks' = CountPick(s, e)
    BY DEF Return
<1>4. CASE CountPick(s, e) = Spoiled
    BY <1>2, <1>3, <1>4
<1>5. CASE CountPick(s, e) # Spoiled
  <2> DEFINE before == IF RoundFull THEN [j \in Index |-> 0] ELSE picks
  <2>1. picks \in [Index -> Nat] /\ before \in [Index -> Nat]
      BY <1>5 DEF CountPick, TypeOK
  <2>2. picks' = IF e = Nil THEN picks ELSE [before EXCEPT ![e] = @ + 1]
      BY <1>3, <1>5 DEF CountPick
  <2> HIDE DEF before
  <2>3. QED
      BY <1>2, <2>1, <2>2
<1>6. QED
    BY <1>4, <1>5

\* Steps keep the types.
LEMMA Typed == TypeOK /\ [Next]_vars => TypeOK'
<1> SUFFICES ASSUME TypeOK, [Next]_vars PROVE TypeOK'
    OBVIOUS
<1>1. ASSUME NEW s \in Selector, Begin(s) PROVE TypeOK'
  <2>1. Up \subseteq Index
      BY DEF Up
  <2>2. \A f \in Filters \cup {AnyModel} :
           [Idle EXCEPT !.pass = "collect", !.filter = f, !.byModel = f # AnyModel,
                        !.steady = Up, !.seen = Up] \in Selection
      BY <2>1, IdleIsSelection DEF Selection
  <2>3. sel' \in [Selector -> Selection]
      BY <1>1, <2>2 DEF Begin, TypeOK
  <2>4. QED
      BY <1>1, <2>3 DEF Begin, TypeOK
<1>2. ASSUME NEW s \in Selector, Collect(s) PROVE TypeOK'
  <2>1. sel[s] \in Selection /\ sel[s].i \in Index /\ sel[s].i + 1 \in 1 .. Len(Weight) + 1
      BY <1>2, Indices DEF Collect, TypeOK, Selection
  <2> DEFINE i == sel[s].i
             fits == available[i] /\ (sel[s].byModel => i \in sel[s].filter)
             r == [sel[s] EXCEPT !.i = @ + 1, !.cands = IF fits THEN @ \cup {i} ELSE @]
  <2>2. r \in Selection
      BY <2>1 DEF Selection
  <2>3. sel' = [sel EXCEPT ![s] = r]
      BY <1>2 DEF Collect, TypeOK
  <2> HIDE DEF r
  <2>4. sel' \in [Selector -> Selection]
      BY <2>2, <2>3 DEF TypeOK
  <2>5. QED
      BY <1>2, <2>4 DEF Collect, TypeOK
<1>3. ASSUME NEW s \in Selector, Collected(s) PROVE TypeOK'
  <2> DEFINE c == sel[s].cands
  <2>0. sel[s] \in Selection /\ c \subseteq Index
      BY DEF TypeOK, Selection
  <2>1. CASE sel[s].byModel /\ c = {}
    <3>1. [sel[s] EXCEPT !.byModel = FALSE, !.i = 1] \in Selection
        BY <2>0, Indices DEF Selection
    <3>2. sel' = [sel EXCEPT ![s] = [sel[s] EXCEPT !.byModel = FALSE, !.i = 1]]
        BY <1>3, <2>1 DEF Collected, TypeOK
    <3>3. UNCHANGED <<available, flips, currentW, picks>>
        BY <1>3, <2>1 DEF Collected
    <3>4. QED
        BY <3>1, <3>2, <3>3 DEF TypeOK
  <2>2. CASE Return(s, 1)
      BY <1>3, <2>2, ReturnTyped, Indices DEF Collected, TypeOK
  <2>3. CASE c # {} /\ Return(s, CHOOSE e \in c : TRUE)
    <3>1. (CHOOSE e \in c : TRUE) \in Index
        BY <2>0, <2>3
    <3>2. QED
        BY <1>3, <2>3, <3>1, ReturnTyped DEF Collected, TypeOK
  <2>4. CASE /\ picks' = picks
             /\ sel' = [sel EXCEPT ![s].i = 1,
                      ![s].pass = IF Cardinality(c) = 1 THEN "single" ELSE "add"]
    <3> DEFINE r == [sel[s] EXCEPT !.i = 1,
                         !.pass = IF Cardinality(c) = 1 THEN "single" ELSE "add"]
    <3>1. r \in Selection
        BY <2>0, Indices DEF Selection
    <3>2. sel' = [sel EXCEPT ![s] = r]
        BY <2>4 DEF TypeOK
    <3> HIDE DEF r
    <3>3. UNCHANGED <<available, flips, currentW>>
        BY <1>3 DEF Collected
    <3>4. QED
        BY <2>4, <3>1, <3>2, <3>3 DEF TypeOK
  <2>5. QED
      BY <1>3, <2>1, <2>2, <2>3, <2>4 DEF Collected
<1>4. ASSUME NEW s \in Selector, Single(s) PROVE TypeOK'
  <2>0. sel[s] \in Selection /\ UNCHANGED <<available, flips, currentW>>
      BY <1>4 DEF Single, TypeOK
  <2>1. CASE sel[s].i > Len(Weight)
    <3>1. [sel[s] EXCEPT !.pass = "add", !.i = 1] \in Selection
        BY <2>0, Indices DEF Selection
    <3>2. sel' = [sel EXCEPT ![s] = [sel[s] EXCEPT !.pass = "add", !.i = 1]] /\ picks' = picks
        BY <1>4, <2>1 DEF Single, TypeOK
    <3>3. QED
        BY <2>0, <3>1, <3>2 DEF TypeOK
  <2>2. CASE ~(sel[s].i > Len(Weight))
    <3>0. sel[s].i \in Index /\ sel[s].i + 1 \in 1 .. Len(Weight) + 1
        BY <2>0, <2>2, Indices DEF Selection
    <3>1. CASE Return(s, sel[s].i)
        BY <2>0, <3>0, <3>1, ReturnTyped DEF TypeOK
    <3>2. CASE Advance(s) /\ UNCHANGED picks
      <4>1. [sel[s] EXCEPT !.i = @ + 1] \in Selection
          BY <2>0, <3>0 DEF Selection
      <4>2. sel' = [sel EXCEPT ![s] = [sel[s] EXCEPT !.i = @ + 1]]
          BY <3>2 DEF Advance, TypeOK
      <4>3. QED
          BY <2>0, <3>2, <4>1, <4>2 DEF TypeOK
    <3>3. QED
        BY <1>4, <2>2, <3>1, <3>2 DEF Single
  <2>3. QED
      BY <2>1, <2>2
<1>5. ASSUME NEW s \in Selector, Add(s) PROVE TypeOK'
  <2> DEFINE i == sel[s].i
             takes == IF sel[s].byModel THEN i \in sel[s].cands ELSE available[i]
             w == currentW[i] + Weight[i]
             r == [sel[s] EXCEPT !.i = @ + 1,
                     !.best = IF takes /\ Beats(s, w) THEN i ELSE @,
                     !.bestW = IF takes /\ Beats(s, w) THEN w ELSE @]
  <2>1. sel[s] \in Selection /\ i \in Index /\ i + 1 \in 1 .. Len(Weight) + 1
      BY <1>5, Indices DEF Add, TypeOK, Selection
  <2>2. w \in Int
      BY <2>1, Indices DEF TypeOK
  <2>3. r \in Selection
      BY <2>1, <2>2 DEF Selection
  <2>4. /\ sel' = [sel EXCEPT ![s] = r]
        /\ currentW' = [currentW EXCEPT ![i] = IF takes THEN w ELSE @]
        /\ UNCHANGED <<available, flips, picks>>
      BY <1>5 DEF Add, TypeOK
  <2> HIDE DEF r, w
  <2>5. QED
      BY <2>1, <2>2, <2>3, <2>4 DEF TypeOK
<1>6. ASSUME NEW s \in Selector, Subtract(s) PROVE TypeOK'
  <2>1. sel[s] \in Selection
      BY DEF TypeOK
  <2>2. sel[s].best \in Index \cup {Nil} /\ sel[s].cands \subseteq Index
      BY <2>1 DEF Selection
  <2>3. Payback(s) \in Int
      BY <2>2, TotalTyped DEF Payback
  <2>4. Return(s, sel[s].best) /\ UNCHANGED <<available, flips>>
      BY <1>6 DEF Subtract
  <2>5. currentW' \in [Index -> Int]
      BY <1>6, <2>2, <2>3, Indices DEF Subtract, TypeOK
  <2>6. QED
      BY <2>2, <2>4, <2>5, ReturnTyped DEF TypeOK
<1>7. ASSUME NEW e \in Index, Flip(e) PROVE TypeOK'
  <2>1. \A s \in Selector :
           [sel[s] EXCEPT !.steady = @ \ {e}, !.seen = @ \cup {e}] \in Selection
      BY DEF TypeOK, Selection
  <2>2. sel' \in [Selector -> Selection]
      BY <1>7, <2>1 DEF Flip, TypeOK
  <2>3. flips' \in 0 .. Flips
    <3>1. flips \in 0 .. Flips /\ flips < Flips /\ flips' = flips + 1
        BY <1>7 DEF Flip, TypeOK
    <3>2. QED
        BY <3>1, Indices
  <2>4. available' \in [Index -> BOOLEAN]
      BY <1>7 DEF Flip, TypeOK
  <2>5. QED
      BY <1>7, <2>2, <2>3, <2>4 DEF Flip, TypeOK
<1>8. CASE UNCHANGED vars
    BY <1>8 DEF vars, TypeOK
<1>9. QED
    BY <1>1, <1>2, <1>3, <1>4, <1>5, <1>6, <1>7, <1>8 DEF Next, Select

----------------------------------------------------------------------------
(* Selections answer with endpoints that were available.                    *)

\* What a selection knows of the endpoints that stayed available and of those
\* that were available at some time.
Watching(r) ==
    /\ r.pass # "done" => /\ r.steady \subseteq Up /\ Up \subseteq r.seen
                          /\ flips = 0 => r.seen = r.steady
    /\ r.byModel => r.filter # AnyModel
    /\ r.pass # "done" /\ ~r.byModel => r.filter \cap r.steady = {}
    /\ r.pass \in {"collect", "single"} => r.best = Nil
    /\ r.pass = "single" => ~r.byModel

\* The first pass misses no endpoint that stayed available.
Gathering(r) ==
    /\ r.pass # "done" => r.cands \subseteq r.seen
    /\ r.byModel => r.cands \subseteq r.filter
    /\ r.pass = "collect" =>
          \A e \in r.steady :
             e < r.i /\ (r.byModel => e \in r.filter) => e \in r.cands
    /\ r.pass \in {"single", "add"} =>
          /\ r.cands # {}
          /\ ~r.byModel => r.steady \subseteq r.cands
    /\ r.pass = "single" => Cardinality(r.cands) = 1

\* The second pass has chosen as soon as it has come by one of them.
Choosing(r) ==
    r.pass = "add" =>
      /\ r.best = Nil =>
            \A e \in Index :
               e < r.i => e \notin IF r.byModel THEN r.cands ELSE r.steady
      /\ r.best # Nil =>
            /\ r.best \in r.seen /\ r.best < r.i
            /\ r.byModel => r.best \in r.cands

Answered(r) ==
    r.pass = "done" /\ r.steady # {} =>
       /\ r.result \in r.seen
       /\ r.filter \cap r.steady # {} => r.result \in r.filter

Right(r) == Watching(r) /\ Gathering(r) /\ Choosing(r) /\ Answered(r)

Selecting == \A s \in Selector : Right(sel[s])

\* A step of s leaves what is right of the others as it is.
LEMMA OthersRight ==
    ASSUME Selecting, NEW s \in Selector, UNCHANGED <<available, flips>>,
           \A t \in Selector \ {s} : sel'[t] = sel[t], Right(sel[s])'
    PROVE  Selecting'
<1>1. ASSUME NEW t \in Selector, t # s PROVE Right(sel[t])'
  <2>1. sel'[t] = sel[t] /\ Right(sel[t])
      BY <1>1 DEF Selecting
  <2>2. QED
      BY <2>1 DEF Right, Watching, Gathering, Choosing, Answered, Up
<1>2. QED
    BY <1>1 DEF Selecting

\* A selection that returns a fitting endpoint has answered rightly.
LEMMA ReturnRight ==
    ASSUME TypeOK, NEW s \in Selector, NEW e, Return(s, e),
           sel[s].steady # {} =>
              /\ e \in sel[s].seen
              /\ sel[s].filter \cap sel[s].steady # {} => e \in sel[s].filter
    PROVE  /\ \A t \in Selector \ {s} : sel'[t] = sel[t]
           /\ Right(sel[s])'
<1>1. sel' = [sel EXCEPT ![s] = [Idle EXCEPT !.result = e,
                 !.filter = sel[s].filter, !.steady = sel[s].steady,
                 !.seen = sel[s].seen]]
    BY DEF Return
<1>2. /\ sel'[s].pass = "done" /\ sel'[s].byModel = FALSE /\ sel'[s].result = e
      /\ sel'[s].filter = sel[s].filter /\ sel'[s].steady = sel[s].steady
      /\ sel'[s].seen = sel[s].seen
      /\ \A t \in Selector \ {s} : sel'[t] = sel[t]
    BY <1>1 DEF TypeOK, Idle
<1>3. QED
    BY <1>2 DEF Right, Watching, Gathering, Choosing, Answered

\* Steps keep what selections know right.
LEMMA SelectingStep == TypeOK /\ Selecting /\ [Next]_vars => Selecting'
<1> SUFFICES ASSUME TypeOK, Selecting, [Next]_vars PROVE Selecting'
    OBVIOUS
<1> USE Indices
<1>1. ASSUME NEW s \in Selector, Begin(s) PROVE Selecting'
  <2>1. PICK f \in Filters \cup {AnyModel} :
           sel' = [sel EXCEPT ![s] = [Idle EXCEPT !.pass = "collect",
                    !.filter = f, !.byModel = f # AnyModel,
                    !.steady = Up, !.seen = Up]]
      BY <1>1 DEF Begin
  <2>2. UNCHANGED <<available, flips>> /\ Up' = Up /\ Up \subseteq Index
      BY <1>1 DEF Begin, Up
  <2>3. /\ sel'[s].pass = "collect" /\ sel'[s].i = 1 /\ sel'[s].filter = f
        /\ sel'[s].byModel = (f # AnyModel) /\ sel'[s].steady = Up
        /\ sel'[s].seen = Up /\ sel'[s].cands = {} /\ sel'[s].best = Nil
        /\ \A t \in Selector \ {s} : sel'[t] = sel[t]
      BY <2>1 DEF TypeOK, Idle
  <2>4. Watching(sel[s])'
      BY <2>2, <2>3 DEF Watching, AnyModel
  <2>5. Gathering(sel[s])'
    <3>1. \A e \in Up : ~(e < 1)
        BY <2>2
    <3>2. QED
        BY <2>3, <3>1 DEF Gathering
  <2>6. Right(sel[s])'
      BY <2>3, <2>4, <2>5 DEF Right, Choosing, Answered
  <2>7. QED
      BY <2>2, <2>3, <2>6, OthersRight
<1>2. ASSUME NEW s \in Selector, Collect(s) PROVE Selecting'
  <2> DEFINE i == sel[s].i
             fits == available[i] /\ (sel[s].byModel => i \in sel[s].filter)
  <2>1. /\ sel[s] \in Selection /\ Right(sel[s]) /\ sel[s].pass = "collect"
        /\ i \in Index
      BY <1>2 DEF Collect, TypeOK, Selection, Selecting
  <2>2. UNCHANGED <<available, flips>> /\ Up' = Up
      BY <1>2 DEF Collect, Up
  <2>3. sel' = [sel EXCEPT ![s].i = @ + 1,
                     ![s].cands = IF fits THEN @ \cup {i} ELSE @]
      BY <1>2 DEF Collect
  <2>4. /\ sel'[s].pass = "collect" /\ sel'[s].i = i + 1
        /\ sel'[s].filter = sel[s].filter
        /\ sel'[s].byModel = sel[s].byModel /\ sel'[s].steady = sel[s].steady
        /\ sel'[s].seen = sel[s].seen /\ sel'[s].best = sel[s].best
        /\ sel'[s].cands = IF fits THEN sel[s].cands \cup {i} ELSE sel[s].cands
        /\ \A t \in Selector \ {s} : sel'[t] = sel[t]
      BY <2>1, <2>3 DEF TypeOK, Selection
  <2>5. Watching(sel[s])'
      BY <2>1, <2>2, <2>4 DEF Right, Watching
  <2>6. Gathering(sel[s])'
    <3>1. fits => i \in sel[s].seen /\ (sel[s].byModel => i \in sel[s].filter)
        BY <2>1 DEF Right, Watching, Up
    <3>2. sel[s].steady \subseteq Up /\ sel[s].steady \subseteq Index
        BY <2>1 DEF Right, Watching, Selection
    <3>3. ASSUME NEW e \in sel[s].steady, e < i + 1, sel[s].byModel => e \in sel[s].filter
          PROVE  e \in sel'[s].cands
      <4>1. CASE e = i
          BY <2>4, <3>2, <3>3, <4>1 DEF Up
      <4>2. CASE e # i
        <5>1. e < i
            BY <2>1, <3>2, <3>3, <4>2
        <5>2. e \in sel[s].cands
            BY <2>1, <3>3, <5>1 DEF Right, Gathering
        <5>3. QED
            BY <2>4, <5>2
      <4>3. QED
          BY <4>1, <4>2
    <3>4. QED
        BY <2>1, <2>4, <3>1, <3>3 DEF Right, Gathering
  <2>7. Right(sel[s])'
      BY <2>4, <2>5, <2>6 DEF Right, Choosing, Answered
  <2>8. QED
      BY <2>2, <2>4, <2>7, OthersRight
<1>3. ASSUME NEW s \in Selector, Collected(s) PROVE Selecting'
  <2> DEFINE c == sel[s].cands
  <2>1. /\ sel[s] \in Selection /\ Right(sel[s]) /\ sel[s].pass = "collect"
        /\ sel[s].i > Len(Weight) /\ c \subseteq Index /\ sel[s].steady \subseteq Index
      BY <1>3 DEF Collected, TypeOK, Selection, Selecting
  <2>2. UNCHANGED <<available, flips>> /\ Up' = Up
      BY <1>3 DEF Collected, Up
  <2>3. \A e \in sel[s].steady : (sel[s].byModel => e \in sel[s].filter) => e \in c
    <3>1. \A e \in Index : e < sel[s].i
        BY <2>1 DEF Selection
    <3>2. QED
        BY <2>1, <3>1 DEF Right, Gathering
  <2>4. CASE sel[s].byModel /\ c = {}
    <3>1. sel' = [sel EXCEPT ![s].byModel = FALSE, ![s].i = 1]
        BY <1>3, <2>4 DEF Collected
    <3>2. /\ sel'[s].pass = "collect" /\ sel'[s].i = 1
          /\ sel'[s].filter = sel[s].filter
          /\ sel'[s].byModel = FALSE /\ sel'[s].steady = sel[s].steady
          /\ sel'[s].seen = sel[s].seen /\ sel'[s].best = sel[s].best
          /\ sel'[s].cands = {}
          /\ \A t \in Selector \ {s} : sel'[t] = sel[t]
        BY <2>1, <2>4, <3>1 DEF TypeOK, Selection
    <3>3. sel[s].filter \cap sel[s].steady = {}
        BY <2>3, <2>4
    <3>4. Watching(sel[s])'
        BY <2>1, <2>2, <3>2, <3>3 DEF Right, Watching
    <3>5. Gathering(sel[s])'
        BY <2>1, <3>2 DEF Gathering
    <3>6. QED
        BY <2>2, <3>2, <3>4, <3>5, OthersRight DEF Right, Choosing, Answered
  <2>5. CASE c = {} /\ ~sel[s].byModel /\ Return(s, 1)
    <3>1. sel[s].steady = {}
        BY <2>3, <2>5
    <3>2. QED
        BY <2>2, <2>5, <3>1, ReturnRight, OthersRight
  <2>6. CASE sel[s].byModel /\ c # {} /\ Return(s, CHOOSE e \in c : TRUE)
    <3>1. (CHOOSE e \in c : TRUE) \in c
        BY <2>6
    <3>2. c \subseteq sel[s].seen /\ c \subseteq sel[s].filter
        BY <2>1, <2>6 DEF Right, Gathering
    <3>3. QED
        BY <2>2, <2>6, <3>1, <3>2, ReturnRight, OthersRight
  <2>7. CASE /\ c # {} /\ (sel[s].byModel => Cardinality(c) # 1)
             /\ sel' = [sel EXCEPT ![s].i = 1,
                      ![s].pass = IF Cardinality(c) = 1 THEN "single" ELSE "add"]
    <3> DEFINE p == IF Cardinality(c) = 1 THEN "single" ELSE "add"
    <3>1. /\ sel'[s].pass = p /\ sel'[s].i = 1
          /\ sel'[s].filter = sel[s].filter
          /\ sel'[s].byModel = sel[s].byModel /\ sel'[s].steady = sel[s].steady
          /\ sel'[s].seen = sel[s].seen /\ sel'[s].best = Nil
          /\ sel'[s].cands = c
          /\ \A t \in Selector \ {s} : sel'[t] = sel[t]
        BY <2>1, <2>7 DEF TypeOK, Selection, Right, Watching
    <3>2. p \in {"single", "add"} /\ (p = "single" <=> Cardinality(c) = 1)
        OBVIOUS
    <3> HIDE DEF p
    <3>3. Watching(sel[s])'
        BY <2>1, <2>2, <2>7, <3>1, <3>2 DEF Right, Watching
    <3>4. Gathering(sel[s])'
        BY <2>1, <2>3, <2>7, <3>1, <3>2 DEF Right, Gathering
    <3>5. Choosing(sel[s])'
        BY <3>1 DEF Choosing
    <3>6. QED
        BY <2>2, <3>1, <3>2, <3>3, <3>4, <3>5, OthersRight DEF Right, Answered
  <2>8. QED
      BY <1>3, <2>4, <2>5, <2>6, <2>7 DEF Collected
<1>4. ASSUME NEW s \in Selector, Single(s) PROVE Selecting'
  <2> DEFINE i == sel[s].i
  <2>1. /\ sel[s] \in Selection /\ Right(sel[s]) /\ sel[s].pass = "single"
        /\ sel[s].byModel = FALSE
      BY <1>4 DEF Single, TypeOK, Selection, Selecting, Right, Watching
  <2>2. UNCHANGED <<available, flips>> /\ Up' = Up
      BY <1>4 DEF Single, Up
  <2>3. CASE i > Len(Weight)
    <3>1. sel' = [sel EXCEPT ![s].pass = "add", ![s].i = 1]
        BY <1>4, <2>3 DEF Single
    <3>2. /\ sel'[s].pass = "add" /\ sel'[s].i = 1
          /\ sel'[s].filter = sel[s].filter
          /\ sel'[s].byModel = FALSE /\ sel'[s].steady = sel[s].steady
          /\ sel'[s].seen = sel[s].seen /\ sel'[s].best = Nil
          /\ sel'[s].cands = sel[s].cands
          /\ \A t \in Selector \ {s} : sel'[t] = sel[t]
        BY <2>1, <3>1 DEF TypeOK, Selection, Right, Watching
    <3>3. Watching(sel[s])' /\ Gathering(sel[s])'
        BY <2>1, <2>2, <3>2 DEF Right, Watching, Gathering
    <3>4. Choosing(sel[s])'
        BY <3>2 DEF Choosing
    <3>5. QED
        BY <2>2, <3>2, <3>3, <3>4, OthersRight DEF Right, Answered
  <2>4. CASE i \in Index /\ available[i] /\ Return(s, i)
    <3>1. i \in sel[s].seen /\ sel[s].filter \cap sel[s].steady = {}
        BY <2>1, <2>4 DEF Right, Watching, Up
    <3>2. QED
        BY <2>2, <2>4, <3>1, ReturnRight, OthersRight
  <2>5. CASE Advance(s)
    <3>1. /\ sel'[s].pass = "single" /\ sel'[s].i = i + 1
          /\ sel'[s].filter = sel[s].filter
          /\ sel'[s].byModel = FALSE /\ sel'[s].steady = sel[s].steady
          /\ sel'[s].seen = sel[s].seen /\ sel'[s].best = Nil
          /\ sel'[s].cands = sel[s].cands
          /\ \A t \in Selector \ {s} : sel'[t] = sel[t]
        BY <2>1, <2>5 DEF TypeOK, Selection, Right, Watching, Advance
    <3>2. Watching(sel[s])' /\ Gathering(sel[s])'
        BY <2>1, <2>2, <3>1 DEF Right, Watching, Gathering
    <3>3. QED
        BY <2>2, <3>1, <3>2, OthersRight DEF Right, Answered, Choosing
  <2>6. i > Len(Weight) \/ i \in Index
      BY <2>1 DEF Selection
  <2>7. QED
      BY <1>4, <2>3, <2>4, <2>5, <2>6 DEF Single
<1>5. ASSUME NEW s \in Selector, Add(s) PROVE Selecting'
  <2> DEFINE i == sel[s].i
             takes == IF sel[s].byModel THEN i \in sel[s].cands ELSE available[i]
             w == currentW[i] + Weight[i]
  <2>1. /\ sel[s] \in Selection /\ Right(sel[s]) /\ sel[s].pass = "add"
        /\ i \in Index
      BY <1>5 DEF Add, TypeOK, Selection, Selecting
  <2>2. UNCHANGED <<available, flips>> /\ Up' = Up
      BY <1>5 DEF Add, Up
  <2>3. /\ sel'[s].pass = "add" /\ sel'[s].i = i + 1
        /\ sel'[s].filter = sel[s].filter
        /\ sel'[s].byModel = sel[s].byModel /\ sel'[s].steady = sel[s].steady
        /\ sel'[s].seen = sel[s].seen
        /\ sel'[s].best = IF takes /\ Beats(s, w) THEN i ELSE sel[s].best
        /\ sel'[s].cands = sel[s].cands
        /\ \A t \in Selector \ {s} : sel'[t] = sel[t]
    <3>1. sel' = [sel EXCEPT ![s] = [sel[s] EXCEPT !.i = @ + 1,
                     !.best = IF takes /\ Beats(s, w) THEN i ELSE @,
                     !.bestW = IF takes /\ Beats(s, w) THEN w ELSE @]]
        BY <1>5 DEF Add, TypeOK
    <3>2. QED
        BY <2>1, <3>1 DEF TypeOK, Selection
  <2>4. Watching(sel[s])' /\ Gathering(sel[s])'
      BY <2>1, <2>2, <2>3 DEF Right, Watching, Gathering
  <2>5. Choosing(sel[s])'
    <3>1. takes => i \in sel[s].seen
        BY <2>1 DEF Right, Watching, Gathering, Up
    <3>2. CASE takes /\ Beats(s, w)
        BY <2>1, <2>3, <3>1, <3>2 DEF Choosing
    <3>3. CASE ~takes
      <4>1. i \notin IF sel[s].byModel THEN sel[s].cands ELSE sel[s].steady
          BY <2>1, <3>3 DEF Right, Watching, Up
      <4>2. \A e \in Index : e < i + 1 => e < i \/ e = i
          BY <2>1
      <4>3. sel'[s].best = sel[s].best
          BY <2>3, <3>3
      <4>4. sel[s].best # Nil => sel[s].best \in Index
          BY <2>1 DEF Selection
      <4>5. QED
          BY <2>1, <2>3, <4>1, <4>2, <4>3, <4>4 DEF Right, Choosing
    <3>4. CASE takes /\ ~Beats(s, w)
      <4>1. sel[s].best # Nil /\ sel'[s].best = sel[s].best /\ sel[s].best \in Index
          BY <2>1, <2>3, <3>4 DEF Beats, Selection
      <4>2. QED
          BY <2>1, <2>3, <4>1 DEF Right, Choosing
    <3>5. QED
        BY <3>2, <3>3, <3>4
  <2>6. QED
      BY <2>2, <2>3, <2>4, <2>5, OthersRight DEF Right, Answered
<1>6. ASSUME NEW s \in Selector, Subtract(s) PROVE Selecting'
  <2>1. /\ sel[s] \in Selection /\ Right(sel[s]) /\ sel[s].pass = "add"
        /\ sel[s].i > Len(Weight) /\ sel[s].cands \subseteq Index
        /\ sel[s].steady \subseteq Index
      BY <1>6 DEF Subtract, TypeOK, Selection, Selecting
  <2>2. UNCHANGED <<available, flips>> /\ Return(s, sel[s].best)
      BY <1>6 DEF Subtract
  <2>3. \A e \in Index : e < sel[s].i
      BY <2>1 DEF Selection
  <2>4. sel[s].steady # {} => sel[s].best # Nil
      BY <2>1, <2>3 DEF Right, Choosing, Gathering
  <2>5. sel[s].steady # {} =>
              /\ sel[s].best \in sel[s].seen
              /\ sel[s].filter \cap sel[s].steady # {} => sel[s].best \in sel[s].filter
      BY <2>1, <2>4 DEF Right, Choosing, Gathering, Watching
  <2>6. QED
      BY <2>2, <2>5, ReturnRight, OthersRight
<1>7. ASSUME NEW e \in Index, Flip(e) PROVE Selecting'
  <2>1. ASSUME NEW t \in Selector, sel[t].pass # "done" PROVE Right(sel[t])'
    <3>1. sel[t] \in Selection /\ Right(sel[t])
        BY DEF TypeOK, Selecting
    <3>2. sel'[t] = [sel[t] EXCEPT !.steady = @ \ {e}, !.seen = @ \cup {e}]
        BY <1>7, <2>1 DEF Flip
    <3>3. /\ sel'[t].pass = sel[t].pass /\ sel'[t].i = sel[t].i
          /\ sel'[t].filter = sel[t].filter /\ sel'[t].byModel = sel[t].byModel
          /\ sel'[t].best = sel[t].best /\ sel'[t].cands = sel[t].cands
          /\ sel'[t].steady = sel[t].steady \ {e} /\ sel'[t].seen = sel[t].seen \cup {e}
        BY <3>1, <3>2 DEF Selection
    <3>4. Up \ {e} \subseteq Up' /\ Up' \subseteq Up \cup {e} /\ flips' # 0
      <4>1. available' = [available EXCEPT ![e] = ~@] /\ available \in [Index -> BOOLEAN]
          BY <1>7 DEF Flip, TypeOK
      <4>2. flips \in 0 .. Flips /\ flips' = flips + 1
          BY <1>7 DEF Flip, TypeOK
      <4>3. flips' # 0
          BY <4>2
      <4>4. QED
          BY <4>1, <4>3 DEF Up
    <3>5. Watching(sel[t])'
        BY <2>1, <3>1, <3>3, <3>4 DEF Right, Watching
    <3>6. Gathering(sel[t])'
        BY <2>1, <3>1, <3>3 DEF Right, Gathering
    <3>7. Choosing(sel[t])'
        BY <2>1, <3>1, <3>3 DEF Right, Choosing
    <3>8. QED
        BY <2>1, <3>3, <3>5, <3>6, <3>7 DEF Right, Answered
  <2>2. ASSUME NEW t \in Selector, sel[t].pass = "done" PROVE Right(sel[t])'
    <3>1. sel'[t] = sel[t] /\ Right(sel[t])
        BY <1>7, <2>2 DEF Flip, Selecting
    <3>2. QED
        BY <2>2, <3>1 DEF Right, Watching, Gathering, Choosing, Answered
  <2>3. QED
      BY <2>1, <2>2 DEF Selecting
<1>8. CASE UNCHANGED vars
    BY <1>8 DEF vars, Selecting, Right, Watching, Gathering, Choosing, Answered, Up
<1>9. QED
    BY <1>1, <1>2, <1>3, <1>4, <1>5, <1>6, <1>7, <1>8 DEF Next, Select

----------------------------------------------------------------------------
(* The counters are conserved.                                              *)

\* What the counters sum to, and what the selections owe, before and after.
OwedBy == [s \in Selector |-> Owed(s)]

Balanced == flips = 0 => SumOf(currentW, Index) = SumOf(OwedBy, Selector)

\* The property in terms of SumOf.
LEMMA ConservedIsBalanced ==
    (WeightConserved <=> Balanced) /\ (WeightConserved' <=> Balanced')
<1>1. IsFiniteSet(Selector)
    BY WeightAssumption
<1>2. MapThenSumSet(Owed, Selector) = SumOf(OwedBy, Selector)
    BY <1>1 DEF SumOf, MapThenSumSet, MapThenFoldSet, OwedBy
<1>3. MapThenSumSet(Owed, Selector)' = SumOf(OwedBy', Selector)
    BY <1>1 DEF SumOf, MapThenSumSet, MapThenFoldSet, OwedBy
<1>4. WeightConserved <=>
        (flips = 0 => SumOf(currentW, Index) = MapThenSumSet(Owed, Selector))
    BY DEF WeightConserved, SumOf
<1>5. WeightConserved' <=>
        (flips' = 0 => SumOf(currentW', Index) = MapThenSumSet(Owed, Selector)')
    BY DEF WeightConserved, SumOf, MapThenSumSet, MapThenFoldSet
<1>6. QED
    BY <1>2, <1>3, <1>4, <1>5 DEF Balanced

LEMMA CountersChange ==
    ASSUME TypeOK, TypeOK', NEW x \in Index,
           \A e \in Index \ {x} : currentW'[e] = currentW[e]
    PROVE  SumOf(currentW', Index) = SumOf(currentW, Index) + currentW'[x] - currentW[x]
<1>1. \A e \in Index : currentW[e] \in Int /\ currentW'[e] \in Int
    BY DEF TypeOK
<1>2. IsFiniteSet(Index)
    BY Indices
<1>3. QED
    BY <1>1, <1>2, SumChange

\* Debts are integers.
LEMMA OwedTyped ==
    (TypeOK => \A s \in Selector : Owed(s) \in Int)
    /\ (TypeOK' => \A s \in Selector : Owed(s)' \in Int)
<1>1. ASSUME NEW r \in Selection PROVE Total({e \in r.cands : e < r.i}) \in Int
  <2>1. {e \in r.cands : e < r.i} \in SUBSET Index
      BY DEF Selection
  <2>2. QED
      BY <2>1, TotalTyped
<1>2. QED
    BY <1>1 DEF TypeOK, Owed

\* A step of s changes the sum of the debts by s's.
LEMMA OwedChange ==
    ASSUME TypeOK, TypeOK', NEW s \in Selector,
           \A t \in Selector \ {s} : sel'[t] = sel[t]
    PROVE  SumOf(OwedBy', Selector) = SumOf(OwedBy, Selector) + Owed(s)' - Owed(s)
<1>1. \A t \in Selector : OwedBy[t] \in Int /\ OwedBy'[t] \in Int
    BY OwedTyped DEF OwedBy
<1>2. \A t \in Selector \ {s} : OwedBy'[t] = OwedBy[t]
    BY DEF OwedBy, Owed
<1>3. OwedBy[s] = Owed(s) /\ OwedBy'[s] = Owed(s)'
    BY DEF OwedBy
<1>4. IsFiniteSet(Selector)
    BY WeightAssumption
<1> HIDE DEF OwedBy
<1>5. SumOf(OwedBy', Selector) = SumOf(OwedBy, Selector) + OwedBy'[s] - OwedBy[s]
    BY <1>1, <1>2, <1>4, SumChange
<1>6. QED
    BY <1>3, <1>5

LEMMA SumsTyped ==
    /\ TypeOK => SumOf(currentW, Index) \in Int /\ SumOf(OwedBy, Selector) \in Int
    /\ TypeOK' => SumOf(currentW', Index) \in Int
<1>1. IsFiniteSet(Index) /\ IsFiniteSet(Selector)
    BY Indices, WeightAssumption
<1>2. TypeOK => SumOf(currentW, Index) \in Int
    BY <1>1, SumInt DEF TypeOK
<1>3. TypeOK' => SumOf(currentW', Index) \in Int
    BY <1>1, SumInt DEF TypeOK
<1>4. TypeOK => \A s \in Selector : OwedBy[s] \in Int
    BY OwedTyped DEF OwedBy
<1>5. TypeOK => SumOf(OwedBy, Selector) \in Int
    BY <1>1, <1>4, SumInt
<1>6. QED
    BY <1>2, <1>3, <1>5

\* A step of s balances when the counters change by as much as s's debt.
LEMMA StepBalances ==
    ASSUME TypeOK, TypeOK', Balanced, NEW s \in Selector,
           \A t \in Selector \ {s} : sel'[t] = sel[t],
           flips' = flips,
           flips = 0 =>
              SumOf(currentW', Index) = SumOf(currentW, Index) + Owed(s)' - Owed(s)
    PROVE  Balanced'
BY OwedChange, OwedTyped DEF Balanced

LEMMA StillBalances ==
    ASSUME TypeOK, TypeOK', Balanced, NEW s \in Selector,
           \A t \in Selector \ {s} : sel'[t] = sel[t],
           UNCHANGED <<flips, currentW>>, Owed(s)' = Owed(s)
    PROVE  Balanced'
<1>1. SumOf(currentW', Index) = SumOf(currentW, Index) + Owed(s)' - Owed(s)
    BY SumsTyped, OwedTyped
<1>2. QED
    BY <1>1, StepBalances

LEMMA TotalNone == Total({}) = 0
BY TotalIsSum, SumEmpty

\* Steps keep the counters balanced.
LEMMA BalancedStep ==
    TypeOK /\ TypeOK' /\ Selecting /\ Balanced /\ [Next]_vars => Balanced'
<1> SUFFICES ASSUME TypeOK, TypeOK', Selecting, Balanced, [Next]_vars
             PROVE  Balanced'
    OBVIOUS
<1> USE Indices
<1>1. ASSUME NEW s \in Selector, Begin(s) PROVE Balanced'
  <2>1. /\ sel[s].pass = "done" /\ sel'[s].pass = "collect"
        /\ \A t \in Selector \ {s} : sel'[t] = sel[t]
        /\ UNCHANGED <<flips, currentW>>
      BY <1>1 DEF Begin, TypeOK, Idle
  <2>2. QED
      BY <2>1, StillBalances DEF Owed
<1>2. ASSUME NEW s \in Selector, Collect(s) PROVE Balanced'
  <2>1. /\ sel[s].pass = "collect" /\ sel'[s].pass = "collect"
        /\ \A t \in Selector \ {s} : sel'[t] = sel[t]
        /\ UNCHANGED <<flips, currentW>>
      BY <1>2 DEF Collect, TypeOK, Selection
  <2>2. QED
      BY <2>1, StillBalances DEF Owed
<1>3. ASSUME NEW s \in Selector, Return(s, sel'[s].result), UNCHANGED <<flips, currentW>>,
             sel[s].pass # "add"
      PROVE  Balanced'
  <2>1. /\ sel'[s].pass = "done"
        /\ \A t \in Selector \ {s} : sel'[t] = sel[t]
      BY <1>3 DEF Return, TypeOK, Idle
  <2>2. QED
      BY <1>3, <2>1, StillBalances DEF Owed
<1>4. ASSUME NEW s \in Selector, sel'[s].pass = "add", sel'[s].i = 1,
             \A t \in Selector \ {s} : sel'[t] = sel[t],
             UNCHANGED <<flips, currentW>>, sel[s].pass # "add"
      PROVE  Balanced'
  <2>1. sel'[s].cands \subseteq Index
      BY DEF TypeOK, Selection
  <2>2. {e \in sel'[s].cands : e < sel'[s].i} = {}
      BY <1>4, <2>1
  <2>3. Owed(s)' = Total({e \in sel'[s].cands : e < sel'[s].i})
      BY <1>4 DEF Owed
  <2>4. Owed(s)' = 0 /\ Owed(s) = 0
      BY <1>4, <2>2, <2>3, TotalNone DEF Owed
  <2>5. QED
      BY <1>4, <2>4, StillBalances
<1>5. ASSUME NEW s \in Selector, Collected(s) PROVE Balanced'
  <2> DEFINE c == sel[s].cands
  <2>1. sel[s] \in Selection /\ UNCHANGED <<flips, currentW>> /\ sel[s].pass = "collect"
      BY <1>5 DEF Collected, TypeOK
  <2>2. CASE sel' = [sel EXCEPT ![s].byModel = FALSE, ![s].i = 1]
    <3>1. sel'[s].pass = "collect" /\ \A t \in Selector \ {s} : sel'[t] = sel[t]
        BY <2>1, <2>2 DEF TypeOK, Selection
    <3>2. QED
        BY <2>1, <3>1, StillBalances DEF Owed
  <2>3. ASSUME NEW e, Return(s, e) PROVE Balanced'
    <3>1. sel'[s].result = e
        BY <2>3 DEF Return, TypeOK, Idle
    <3>2. QED
        BY <1>3, <2>1, <2>3, <3>1
  <2>4. CASE sel' = [sel EXCEPT ![s].i = 1, ![s].pass = "single"]
    <3>1. sel'[s].pass = "single" /\ \A t \in Selector \ {s} : sel'[t] = sel[t]
        BY <2>1, <2>4 DEF TypeOK, Selection
    <3>2. QED
        BY <2>1, <3>1, StillBalances DEF Owed
  <2>5. CASE sel' = [sel EXCEPT ![s].i = 1, ![s].pass = "add"]
    <3>1. /\ sel'[s].pass = "add" /\ sel'[s].i = 1
          /\ \A t \in Selector \ {s} : sel'[t] = sel[t]
        BY <2>1, <2>5 DEF TypeOK, Selection
    <3>2. QED
        BY <1>4, <2>1, <3>1
  <2>6. QED
      BY <1>5, <2>2, <2>3, <2>4, <2>5 DEF Collected
<1>6. ASSUME NEW s \in Selector, Single(s) PROVE Balanced'
  <2>1. sel[s] \in Selection /\ UNCHANGED <<flips, currentW>> /\ sel[s].pass = "single"
      BY <1>6 DEF Single, TypeOK
  <2>2. CASE sel' = [sel EXCEPT ![s].pass = "add", ![s].i = 1]
    <3>1. /\ sel'[s].pass = "add" /\ sel'[s].i = 1
          /\ \A t \in Selector \ {s} : sel'[t] = sel[t]
        BY <2>1, <2>2 DEF TypeOK, Selection
    <3>2. QED
        BY <1>4, <2>1, <3>1
  <2>3. CASE Return(s, sel[s].i)
    <3>1. sel'[s].result = sel[s].i
        BY <2>3 DEF Return, TypeOK, Idle
    <3>2. QED
        BY <1>3, <2>1, <2>3, <3>1
  <2>4. CASE Advance(s)
    <3>1. sel'[s].pass = "single" /\ \A t \in Selector \ {s} : sel'[t] = sel[t]
        BY <2>1, <2>4 DEF Advance, TypeOK, Selection
    <3>2. QED
        BY <2>1, <3>1, StillBalances DEF Owed
  <2>5. QED
      BY <1>6, <2>2, <2>3, <2>4 DEF Single
<1>7. ASSUME NEW s \in Selector, Add(s) PROVE Balanced'
  <2> DEFINE i == sel[s].i
             takes == IF sel[s].byModel THEN i \in sel[s].cands ELSE available[i]
             w == currentW[i] + Weight[i]
             done == {e \in sel[s].cands : e < i}
             more == {e \in sel[s].cands : e < i + 1}
  <2>0. sel[s] \in Selection /\ Right(sel[s]) /\ sel[s].pass = "add" /\ i <= Len(Weight)
      BY <1>7 DEF Add, TypeOK, Selecting
  <2>1. /\ sel[s] \in Selection /\ Right(sel[s]) /\ sel[s].pass = "add"
        /\ i \in Index /\ sel[s].cands \subseteq Index
      BY <2>0 DEF Selection
  <2>2. /\ sel'[s].pass = "add" /\ sel'[s].i = i + 1
        /\ sel'[s].cands = sel[s].cands
        /\ \A t \in Selector \ {s} : sel'[t] = sel[t]
    <3>1. sel' = [sel EXCEPT ![s] = [sel[s] EXCEPT !.i = @ + 1,
                     !.best = IF takes /\ Beats(s, w) THEN i ELSE @,
                     !.bestW = IF takes /\ Beats(s, w) THEN w ELSE @]]
        BY <1>7 DEF Add, TypeOK
    <3>2. QED
        BY <2>1, <3>1 DEF TypeOK, Selection
  <2>3. flips = 0 => (takes <=> i \in sel[s].cands)
      BY <2>1 DEF Right, Watching, Gathering, Up
  <2>4. Owed(s) = Total(done) /\ Owed(s)' = Total(more)
      BY <2>1, <2>2 DEF Owed
  <2>5. more = IF i \in sel[s].cands THEN done \cup {i} ELSE done
      BY <2>1
  <2>6. IsFiniteSet(done) /\ i \notin done /\ done \subseteq Index
      BY <2>1, FS_Subset
  <2>7. Owed(s)' = Owed(s) + IF i \in sel[s].cands THEN Weight[i] ELSE 0
    <3> HIDE DEF done, more
    <3>1. Total(done \cup {i}) = Weight[i] + Total(done)
      <4>1. \A e \in done \cup {i} : Weight[e] \in Int
          BY <2>1, <2>6
      <4>2. QED
          BY <2>6, <4>1, SumAdd, TotalIsSum
    <3>2. Total(done) \in Int /\ Weight[i] \in Int
        BY <2>1, <2>6, TotalTyped
    <3>3. QED
        BY <2>4, <2>5, <3>1, <3>2
  <2>8. /\ currentW' = [currentW EXCEPT ![i] = IF takes THEN w ELSE @]
        /\ flips' = flips
      BY <1>7 DEF Add
  <2>9. SumOf(currentW', Index)
          = SumOf(currentW, Index) + currentW'[i] - currentW[i]
    <3>1. \A e \in Index \ {i} : currentW'[e] = currentW[e]
        BY <2>8 DEF TypeOK
    <3>2. QED
        BY <2>1, <3>1, CountersChange
  <2>10. currentW'[i] = IF takes THEN currentW[i] + Weight[i] ELSE currentW[i]
      BY <2>1, <2>8 DEF TypeOK
  <2>11. flips = 0 => SumOf(currentW', Index) = SumOf(currentW, Index) + Owed(s)' - Owed(s)
    <3>1. /\ currentW[i] \in Int /\ Weight[i] \in Int
          /\ Owed(s) \in Int /\ SumOf(currentW, Index) \in Int
        BY <2>1, OwedTyped, SumsTyped DEF TypeOK
    <3> HIDE DEF takes
    <3>2. QED
        BY <2>3, <2>7, <2>9, <2>10, <3>1
  <2>12. QED
      BY <2>2, <2>8, <2>11, StepBalances
<1>8. ASSUME NEW s \in Selector, Subtract(s) PROVE Balanced'
  <2> DEFINE b == sel[s].best
  <2>1. /\ sel[s] \in Selection /\ Right(sel[s]) /\ sel[s].pass = "add"
        /\ sel[s].i > Len(Weight) /\ sel[s].cands \subseteq Index
        /\ sel[s].steady \subseteq Index /\ b \in Index \cup {Nil}
      BY <1>8 DEF Subtract, TypeOK, Selection, Selecting
  <2>2. /\ sel'[s].pass = "done" /\ flips' = flips
        /\ \A t \in Selector \ {s} : sel'[t] = sel[t]
      BY <1>8 DEF Subtract, Return, TypeOK, Idle
  <2>3. \A e \in Index : e < sel[s].i
      BY <2>1 DEF Selection
  <2>4. {e \in sel[s].cands : e < sel[s].i} = sel[s].cands
      BY <2>1, <2>3
  <2>5. Owed(s) = Total(sel[s].cands) /\ Owed(s)' = 0
      BY <2>1, <2>2, <2>4 DEF Owed
  <2>6. ASSUME flips = 0 PROVE b # Nil
    <3>1. sel[s].cands # {} /\ sel[s].cands \subseteq sel[s].seen /\ sel[s].seen = sel[s].steady
        BY <2>1, <2>6 DEF Right, Watching, Gathering
    <3>2. QED
        BY <2>1, <2>3, <3>1 DEF Right, Choosing
  <2>7. ASSUME flips = 0
        PROVE  SumOf(currentW', Index) = SumOf(currentW, Index) + Owed(s)' - Owed(s)
    <3>1. b \in Index /\ b # Nil
        BY <2>1, <2>6, <2>7
    <3>2. currentW' = [currentW EXCEPT ![b] = @ - Total(sel[s].cands)]
        BY <1>8, <3>1 DEF Subtract, Payback
    <3>3. /\ \A e \in Index : currentW[e] \in Int /\ currentW'[e] \in Int
          /\ \A e \in Index \ {b} : currentW'[e] = currentW[e]
          /\ currentW'[b] = currentW[b] - Total(sel[s].cands)
        BY <3>1, <3>2 DEF TypeOK
    <3>4. SumOf(currentW', Index)
          = SumOf(currentW, Index) + currentW'[b] - currentW[b]
        BY <3>1, <3>3, CountersChange
    <3>5. Total(sel[s].cands) \in Int /\ SumOf(currentW, Index) \in Int
        BY <2>1, TotalTyped, SumsTyped
    <3>6. QED
        BY <2>5, <3>1, <3>3, <3>4, <3>5
  <2>8. QED
      BY <2>2, <2>7, StepBalances
<1>9. ASSUME NEW e \in Index, Flip(e) PROVE Balanced'
  <2>1. flips \in 0 .. Flips /\ flips' = flips + 1
      BY <1>9 DEF Flip, TypeOK
  <2>2. flips' # 0
      BY <2>1
  <2>3. QED
      BY <2>2 DEF Balanced
<1>10. CASE UNCHANGED vars
  <2>1. OwedBy' = OwedBy /\ currentW' = currentW /\ flips' = flips
      BY <1>10 DEF vars, OwedBy, Owed
  <2>2. QED
      BY <2>1 DEF Balanced
<1>11. QED
    BY <1>1, <1>2, <1>5, <1>6, <1>7, <1>8, <1>9, <1>10 DEF Next, Select

----------------------------------------------------------------------------
(* Every round is exact.                                                    *)

Alone(s) == \A t \in Selector \ {s} : sel[t].pass = "done"

\* The counters between two selections, when p are the picks of the round:
\* each has got its weight once per pick and has paid for its own.
Settled(p, e) == SumOf(p, Index) * Weight[e] - Total(Up) * p[e]

\* No round is longer than the weights sum to, and one that long is exact.
InRound(p) ==
    /\ SumOf(p, Index) <= Total(Up)
    /\ \A e \in Index \ Up : p[e] = 0
    /\ SumOf(p, Index) = Total(Up) => \A e \in Up : p[e] = Weight[e]

\* The counters while s selects, or at rest; none is a whole round behind.
Even(s) ==
    /\ \A e \in Up : /\ Settled(picks, e) > -Total(Up)
                     /\ currentW[e] = Settled(picks, e)
                          + IF sel[s].pass = "add" /\ e < sel[s].i
                            THEN Weight[e] ELSE 0
    /\ \A e \in Index \ Up : currentW[e] = 0
    /\ sel[s].pass = "add" /\ sel[s].best # Nil =>
          /\ sel[s].bestW = currentW[sel[s].best]
          /\ \A e \in Up : e < sel[s].i => currentW[e] <= sel[s].bestW

Counted == picks # Spoiled => flips = 0

Rounds == picks # Spoiled /\ Up # {} => InRound(picks)

Evens ==
    \A s \in Selector :
       /\ picks # Spoiled /\ Up # {} /\ Alone(s)
       /\ sel[s].pass # "done" => sel[s].filter = AnyModel
       => Even(s)

\* RoundFull in terms of SumOf.
LEMMA RoundFullIs == RoundFull <=> SumOf(picks, Index) >= Total(Up)
BY DEF RoundFull, SumOf

\* Some endpoints have some weight.
LEMMA TotalPositive ==
    ASSUME NEW S \in SUBSET Index, S # {}
    PROVE  Total(S) \in Nat \ {0}
<1>1. PICK x \in S : TRUE
    OBVIOUS
<1> DEFINE zeros == [e \in Index |-> 0]
           R == S \ {x}
<1>2. IsFiniteSet(R) /\ IsFiniteSet(S) /\ R \subseteq Index
    BY Indices, FS_Subset
<1>3. \A e \in Index : zeros[e] = 0
    OBVIOUS
<1> HIDE DEF zeros, R
<1>4. \A e \in Index : Weight[e] \in Int /\ Weight[e] > 0
    BY Indices
<1>5. SumOf(zeros, R) <= SumOf(Weight, R)
    BY <1>2, <1>3, <1>4, SumLess
<1>6. SumOf(zeros, R) = SumOf(zeros, {})
    BY <1>2, <1>3, SumZeros
<1>7. SumOf(zeros, R) = 0
    BY <1>6, SumEmpty
<1>8. SumOf(Weight, S) = Weight[x] + SumOf(Weight, R)
    BY <1>1, <1>2, <1>4, SumTake DEF R
<1>9. SumOf(Weight, R) \in Int
    BY <1>2, <1>4, SumInt
<1>10. Weight[x] \in Int /\ Weight[x] > 0
    BY <1>1, <1>4
<1>11. QED
    BY <1>5, <1>7, <1>8, <1>9, <1>10, TotalIsSum

\* What is needed of products.
LEMMA Products ==
    /\ \A a, b \in Int : a * b \in Int
    /\ \A a, b \in Int : (a + 1) * b = a * b + b /\ b * (a + 1) = b * a + b
    /\ \A a, b, c \in Int : c > 0 /\ c * a - c * b > -c => b <= a
<1>1. \A a, b \in Int : a * b \in Int
    OBVIOUS
<1>2. \A a, b \in Int : (a + 1) * b = a * b + b /\ b * (a + 1) = b * a + b
    OBVIOUS
<1>3. ASSUME NEW a \in Int, NEW b \in Int, NEW c \in Int, c > 0, c * a - c * b > -c
      PROVE  b <= a
  <2>1. c * a - c * b = c * (a - b)
      OBVIOUS
  <2>2. ASSUME b > a PROVE FALSE
    <3>1. PICK d \in Nat : b = a + 1 + d
      <4>1. b - a - 1 \in Nat /\ b = a + 1 + (b - a - 1)
          BY <2>2
      <4>2. QED
          BY <4>1
    <3>2. c * b = c * a + c + c * d
        BY <3>1
    <3>3. c * d >= 0
        BY <1>3
    <3>4. c * a \in Int /\ c * d \in Int
        BY <1>1
    <3> DEFINE x == c * a
               y == c * b
               z == c * d
    <3>5. y = x + c + z /\ z >= 0 /\ x - y > -c /\ x \in Int /\ z \in Int
        BY <1>3, <3>2, <3>3, <3>4
    <3> HIDE DEF x, y, z
    <3>6. QED
        BY <3>5
  <2>3. QED
      BY <2>2
<1>4. QED
    BY <1>1, <1>2, <1>3

LEMMA PicksSum ==
    ASSUME NEW p \in [Index -> Nat]
    PROVE  SumOf(p, Index) \in Int /\ SumOf([e \in Index |-> 0], Index) = 0
<1> DEFINE zeros == [e \in Index |-> 0]
<1>1. \A e \in Index : zeros[e] = 0 /\ p[e] \in Int
    OBVIOUS
<1>2. IsFiniteSet(Index)
    BY Indices
<1> HIDE DEF zeros
<1>3. SumOf(zeros, Index) = SumOf(zeros, {})
    BY <1>1, <1>2, SumZeros
<1>4. SumOf(zeros, Index) = 0
    BY <1>3, SumEmpty
<1>5. SumOf(p, Index) \in Int
    BY <1>1, <1>2, SumInt
<1>6. QED
    BY <1>4, <1>5 DEF zeros

LEMMA PicksChange ==
    ASSUME NEW f \in [Index -> Nat], NEW h \in [Index -> Nat], NEW x \in Index,
           \A e \in Index \ {x} : h[e] = f[e]
    PROVE  SumOf(h, Index) = SumOf(f, Index) + h[x] - f[x]
<1>1. \A e \in Index : f[e] \in Int /\ h[e] \in Int
    OBVIOUS
<1>2. IsFiniteSet(Index)
    BY Indices
<1>3. QED
    BY <1>1, <1>2, SumChange

LEMMA SettledTyped ==
    ASSUME NEW p \in [Index -> Nat], NEW e \in Up
    PROVE  Settled(p, e) \in Int
<1> DEFINE a == SumOf(p, Index)
           b == Total(Up)
<1>1. Up \in SUBSET Index /\ e \in Index
    BY DEF Up
<1>2. Weight[e] \in Int /\ p[e] \in Int
    BY <1>1, Indices
<1>3. a \in Int /\ b \in Int
    BY <1>1, PicksSum, TotalTyped
<1>4. Settled(p, e) = a * Weight[e] - b * p[e]
    BY DEF Settled
<1> HIDE DEF a, b
<1>5. a * Weight[e] \in Int /\ b * p[e] \in Int
    BY <1>2, <1>3, Products
<1>6. QED
    BY <1>4, <1>5

\* A round that is as long as the weights sum to is exact when no counter is a
\* whole round behind.
LEMMA FullIsExact ==
    ASSUME NEW p \in [Index -> Nat], Up # {},
           SumOf(p, Index) = Total(Up),
           \A e \in Index \ Up : p[e] = 0,
           \A e \in Up : Settled(p, e) > -Total(Up)
    PROVE  \A e \in Up : p[e] = Weight[e]
<1> DEFINE W == Total(Up)
           h == [e \in Index |-> IF e \in Up THEN Weight[e] ELSE 0]
<1>1. Up \in SUBSET Index
    BY DEF Up
<1>2. W \in Nat \ {0} /\ IsFiniteSet(Index) /\ IsFiniteSet(Up)
    BY <1>1, TotalPositive, Indices, FS_Subset
<1>3. ASSUME NEW e \in Up PROVE p[e] <= Weight[e]
  <2>1. Settled(p, e) = W * Weight[e] - W * p[e]
      BY DEF Settled
  <2>2. W \in Int /\ W > 0 /\ Weight[e] \in Int /\ p[e] \in Int
      BY <1>1, <1>2, Indices
  <2>3. W * Weight[e] - W * p[e] > -W
      BY <2>1
  <2> HIDE DEF W
  <2>4. QED
      BY <2>2, <2>3, Products
<1>4. \A e \in Index : h[e] \in Int /\ p[e] \in Int /\ p[e] <= h[e]
  <2>1. \A e \in Index : Weight[e] \in Int
      BY Indices
  <2>2. QED
      BY <1>3, <2>1
<1>5. /\ \A e \in Up : h[e] = Weight[e]
      /\ \A e \in Index \ Up : h[e] = 0
    BY <1>1
<1> HIDE DEF h
<1>6. SumOf(h, Index) = SumOf(h, Up)
    BY <1>1, <1>2, <1>4, <1>5, SumZeros
<1>7. SumOf(h, Up) = SumOf(Weight, Up)
    BY <1>2, <1>5, SumSame
<1>8. SumOf(p, Index) = SumOf(h, Index)
    BY <1>6, <1>7, TotalIsSum
<1>9. \A e \in Index : p[e] = h[e]
    BY <1>2, <1>4, <1>8, SumTight
<1>10. QED
    BY <1>1, <1>5, <1>9

\* What one more pick does to the round and to the counters.
LEMMA PickMoves ==
    ASSUME TypeOK, picks # Spoiled, Up # {}, Rounds, NEW b \in Up, NEW p,
           p = [(IF RoundFull THEN [j \in Index |-> 0] ELSE picks)
                  EXCEPT ![b] = @ + 1],
           \A e \in Up : Settled(picks, e) > -Total(Up),
           Settled(picks, b) + Weight[b] > 0
    PROVE  /\ p \in [Index -> Nat]
           /\ InRound(p)
           /\ \A e \in Up :
                 /\ Settled(p, e) = Settled(picks, e) + Weight[e]
                                      - IF e = b THEN Total(Up) ELSE 0
                 /\ Settled(p, e) > -Total(Up)
<1> DEFINE W == Total(Up)
           zeros == [j \in Index |-> 0]
           before == IF RoundFull THEN zeros ELSE picks
           K == SumOf(before, Index)
<1>1. Up \in SUBSET Index /\ b \in Index
    BY DEF Up
<1>2. W \in Nat \ {0} /\ IsFiniteSet(Index)
    BY <1>1, TotalPositive, Indices
<1>3. picks \in [Index -> Nat] /\ before \in [Index -> Nat]
    BY DEF TypeOK
<1>4. InRound(picks) /\ SumOf(picks, Index) \in Int /\ SumOf(zeros, Index) = 0
    BY <1>3, PicksSum DEF Rounds
<1>5. p = [before EXCEPT ![b] = @ + 1]
    OBVIOUS
<1>6. /\ K \in Int /\ K < W
      /\ \A e \in Index \ Up : before[e] = 0
      /\ \A e \in Up : Settled(before, e) = Settled(picks, e)
  <2>1. CASE RoundFull
    <3>1. before = zeros /\ K = 0
        BY <1>4, <2>1
    <3>2. SumOf(picks, Index) = W
        BY <1>2, <1>4, <2>1, RoundFullIs DEF InRound
    <3>3. ASSUME NEW e \in Up PROVE Settled(before, e) = 0 /\ Settled(picks, e) = 0
      <4>1. Weight[e] \in Int /\ picks[e] = Weight[e] /\ zeros[e] = 0
          BY <1>1, <1>4, <3>2, Indices DEF InRound
      <4>2. Settled(picks, e) = W * Weight[e] - W * Weight[e]
          BY <3>2, <4>1 DEF Settled
      <4>3. Settled(before, e) = 0 * Weight[e] - W * 0
          BY <3>1, <4>1 DEF Settled
      <4> HIDE DEF W
      <4>4. W * Weight[e] \in Int
          BY <1>2, <4>1, Products
      <4>5. W * Weight[e] - W * Weight[e] = 0 /\ 0 * Weight[e] - W * 0 = 0
          BY <1>2, <4>1, <4>4
      <4>6. QED
          BY <4>2, <4>3, <4>5
    <3>4. QED
        BY <1>2, <3>1, <3>3
  <2>2. CASE ~RoundFull
    <3>1. before = picks
        BY <2>2
    <3>2. K < W
        BY <1>2, <1>4, <2>2, <3>1, RoundFullIs
    <3>3. QED
        BY <1>4, <3>1, <3>2 DEF InRound
  <2>3. QED
      BY <2>1, <2>2
<1> HIDE DEF before
<1>7. p \in [Index -> Nat] /\ p[b] = before[b] + 1 /\ before[b] \in Nat
    BY <1>1, <1>3, <1>5
<1>8. \A e \in Index \ {b} : p[e] = before[e]
    BY <1>3, <1>5
<1>9. SumOf(p, Index) = K + 1
  <2>1. SumOf(p, Index) = SumOf(before, Index) + p[b] - before[b]
      BY <1>1, <1>3, <1>7, <1>8, PicksChange
  <2>2. SumOf(p, Index) = K + p[b] - before[b]
      BY <2>1
  <2> HIDE DEF K
  <2>3. QED
      BY <1>6, <1>7, <2>2
<1>10. ASSUME NEW e \in Up
       PROVE  /\ Settled(p, e) = Settled(picks, e) + Weight[e] - IF e = b THEN W ELSE 0
              /\ Settled(p, e) > -W
  <2>0. e \in Index /\ before[e] \in Nat /\ p[e] \in Nat
      BY <1>1, <1>3, <1>7
  <2>1. Weight[e] \in Int /\ before[e] \in Int /\ p[e] \in Int /\ e \in Index
      BY <2>0, Indices
  <2>2. Settled(p, e) = (K + 1) * Weight[e] - W * p[e]
      BY <1>9 DEF Settled
  <2>3. Settled(before, e) = K * Weight[e] - W * before[e]
      BY DEF Settled
  <2> HIDE DEF K, W
  <2>4. (K + 1) * Weight[e] = K * Weight[e] + Weight[e]
      BY <1>6, <2>1, Products
  <2>5. W * p[e] = W * before[e] + IF e = b THEN W ELSE 0
    <3>1. CASE e = b
      <4>1. W * (before[e] + 1) = W * before[e] + W
          BY <1>2, <2>1, Products
      <4>2. QED
          BY <1>7, <3>1, <4>1
    <3>2. CASE e # b
      <4>1. W * before[e] \in Int
          BY <1>2, <2>1, Products
      <4>2. QED
          BY <1>8, <2>1, <3>2, <4>1
    <3>3. QED
        BY <3>1, <3>2
  <2>6. K * Weight[e] \in Int /\ W * before[e] \in Int /\ W \in Int
      BY <1>2, <1>6, <2>1, Products
  <2> DEFINE x == K * Weight[e]
             y == W * before[e]
             d == IF e = b THEN W ELSE 0
  <2>7. /\ Settled(p, e) = (x + Weight[e]) - (y + d)
        /\ Settled(picks, e) = x - y
      BY <1>6, <2>2, <2>3, <2>4, <2>5
  <2>8. x \in Int /\ y \in Int /\ d \in Int
      BY <2>6
  <2> HIDE DEF x, y
  <2>9. Settled(p, e) = Settled(picks, e) + Weight[e] - d
      BY <2>1, <2>7, <2>8
  <2>10. Settled(p, e) > -W
    <3>1. Settled(picks, e) \in Int /\ Settled(picks, e) > -W
        BY <2>7, <2>8 DEF W
    <3>2. Weight[e] > 0
        BY <2>1, Indices
    <3>3. CASE e = b
        BY <2>1, <2>6, <2>9, <3>1, <3>3
    <3>4. CASE e # b
        BY <2>1, <2>6, <2>9, <3>1, <3>2, <3>4
    <3>5. QED
        BY <3>3, <3>4
  <2>11. QED
      BY <2>9, <2>10
<1>11. \A e \in Index \ Up : p[e] = 0
    BY <1>6, <1>8
<1>12. InRound(p)
  <2>1. SumOf(p, Index) <= W
    <3> HIDE DEF K, W
    <3>1. QED
        BY <1>2, <1>6, <1>9
  <2>2. SumOf(p, Index) = W => \A e \in Up : p[e] = Weight[e]
      BY <1>7, <1>10, <1>11, FullIsExact
  <2>3. QED
      BY <1>11, <2>1, <2>2 DEF InRound
<1>13. QED
    BY <1>7, <1>10, <1>12

\* Without a model and without flips the candidates are what is available.
LEMMA CandsAreUp ==
    ASSUME TypeOK, Selecting, flips = 0, NEW s \in Selector,
           sel[s].filter = AnyModel
    PROVE  /\ sel[s].byModel = FALSE
           /\ sel[s].pass \in {"single", "add"} => sel[s].cands = Up
           /\ /\ sel[s].pass = "collect" /\ sel[s].i > Len(Weight)
              /\ sel[s].cands = {}
              => Up = {}
<1>1. sel[s] \in Selection /\ Right(sel[s])
    BY DEF TypeOK, Selecting
<1>2. sel[s].byModel = FALSE
    BY <1>1 DEF Selection, Right, Watching
<1>3. sel[s].pass # "done" => sel[s].steady = Up /\ sel[s].seen = Up
    BY <1>1 DEF Right, Watching
<1>4. sel[s].pass \in {"single", "add"} => sel[s].cands = Up
    BY <1>1, <1>2, <1>3 DEF Right, Gathering
<1>5. ASSUME sel[s].pass = "collect", sel[s].i > Len(Weight), sel[s].cands = {},
             NEW e \in Up
      PROVE  FALSE
  <2>1. e \in Index /\ sel[s].i \in Int
      BY <1>1, Indices DEF Up, Selection
  <2>2. e < sel[s].i
      BY <1>5, <2>1, Indices
  <2>3. QED
      BY <1>1, <1>2, <1>3, <1>5, <2>2 DEF Right, Gathering
<1>6. QED
    BY <1>2, <1>4, <1>5

\* A step of s keeps the counters even when they are as seen from s, and s does
\* not come to rest beside a selection in progress.
LEMMA EvensFrom ==
    ASSUME Evens, NEW s \in Selector,
           \A t \in Selector \ {s} : sel'[t] = sel[t],
           sel'[s].pass = "done" /\ picks' # Spoiled => Alone(s),
           /\ picks' # Spoiled /\ Up' # {} /\ Alone(s)
           /\ sel'[s].pass # "done" => sel'[s].filter = AnyModel
           => Even(s)'
    PROVE  Evens'
<1> SUFFICES ASSUME NEW t \in Selector, picks' # Spoiled, Up' # {}, Alone(t)',
                    sel'[t].pass # "done" => sel'[t].filter = AnyModel
             PROVE  Even(t)'
    BY DEF Evens
<1>1. CASE t = s
    BY <1>1 DEF Alone
<1>2. CASE t # s
  <2>1. sel'[s].pass = "done"
      BY <1>2 DEF Alone
  <2>2. Alone(s)
      BY <2>1
  <2>3. Even(s)'
      BY <2>1, <2>2
  <2>4. sel'[t].pass = "done"
      BY <1>2, <2>2 DEF Alone
  <2>5. QED
      BY <2>1, <2>3, <2>4 DEF Even
<1>3. QED
    BY <1>1, <1>2

\* Only an undisturbed selection without a model is counted.
LEMMA PlainReturn ==
    ASSUME TypeOK, NEW s \in Selector, NEW b, Return(s, b)
    PROVE  /\ sel'[s].pass = "done" /\ \A t \in Selector \ {s} : sel'[t] = sel[t]
           /\ picks' # Spoiled =>
                 /\ picks # Spoiled /\ sel[s].filter = AnyModel /\ Alone(s)
                 /\ b # Nil =>
                      picks' = [(IF RoundFull THEN [j \in Index |-> 0] ELSE picks)
                                  EXCEPT ![b] = @ + 1]
<1>1. sel'[s].pass = "done" /\ \A t \in Selector \ {s} : sel'[t] = sel[t]
    BY DEF Return, TypeOK, Idle
<1>2. picks' = CountPick(s, b)
    BY DEF Return
<1>3. picks' # Spoiled =>
          picks # Spoiled /\ sel[s].filter = AnyModel /\ Alone(s)
    BY <1>2 DEF CountPick, Alone
<1>4. picks' # Spoiled /\ b # Nil =>
          picks' = [(IF RoundFull THEN [j \in Index |-> 0] ELSE picks)
                      EXCEPT ![b] = @ + 1]
    BY <1>2 DEF CountPick
<1>5. QED
    BY <1>1, <1>3, <1>4

\* A selection that returns b has moved the round on.
LEMMA ReturnEvens ==
    ASSUME TypeOK, Counted, Rounds, Evens, NEW s \in Selector, NEW b, Return(s, b),
           UNCHANGED <<available, flips>>,
           ASSUME picks' # Spoiled, picks # Spoiled, Up # {},
                  sel[s].filter = AnyModel, Even(s), Alone(s)
           PROVE  /\ b \in Up /\ Settled(picks, b) + Weight[b] > 0
                  /\ \A e \in Up : currentW'[e] = Settled(picks, e) + Weight[e]
                                         - IF e = b THEN Total(Up) ELSE 0
                  /\ \A e \in Index \ Up : currentW'[e] = 0
    PROVE  Counted' /\ Rounds' /\ Evens'
<1>1. Up' = Up
    BY DEF Up
<1>2. /\ sel'[s].pass = "done" /\ \A t \in Selector \ {s} : sel'[t] = sel[t]
      /\ picks' # Spoiled =>
           picks # Spoiled /\ sel[s].filter = AnyModel /\ Alone(s)
    BY PlainReturn
<1>3. Counted'
    BY <1>2 DEF Counted
<1>4. ASSUME picks' # Spoiled, Up # {}
      PROVE  InRound(picks') /\ Even(s)'
  <2>1. Even(s) /\ picks # Spoiled
      BY <1>2, <1>4 DEF Evens
  <2>2. /\ b \in Up /\ Settled(picks, b) + Weight[b] > 0
        /\ \A e \in Up : currentW'[e] = Settled(picks, e) + Weight[e]
                                   - IF e = b THEN Total(Up) ELSE 0
        /\ \A e \in Index \ Up : currentW'[e] = 0
      BY <1>2, <1>4, <2>1
  <2>3. b # Nil
      BY <2>2, Indices DEF Up
  <2>4. picks' = [(IF RoundFull THEN [j \in Index |-> 0] ELSE picks)
                      EXCEPT ![b] = @ + 1]
      BY <1>4, <2>3, PlainReturn
  <2>5. \A e \in Up : Settled(picks, e) > -Total(Up)
      BY <2>1 DEF Even
  <2>6. /\ InRound(picks')
        /\ \A e \in Up :
              /\ Settled(picks', e) = Settled(picks, e) + Weight[e]
                                        - IF e = b THEN Total(Up) ELSE 0
              /\ Settled(picks', e) > -Total(Up)
      BY <1>4, <2>1, <2>2, <2>4, <2>5, PickMoves
  <2>7. \A e \in Up : currentW'[e] = Settled(picks', e)
      BY <2>2, <2>6
  <2>8. \A e \in Up : Settled(picks', e) = Settled(picks', e) + 0
    <3>1. picks' \in [Index -> Nat]
        BY <1>4, <2>1, <2>2, <2>4, <2>5, PickMoves
    <3>2. \A e \in Up : Settled(picks', e) \in Int
        BY <3>1, SettledTyped
    <3>3. QED
        BY <3>2
  <2>9. QED
      BY <1>1, <1>2, <2>2, <2>6, <2>7, <2>8 DEF Even, Settled
<1>5. Rounds'
    BY <1>1, <1>4 DEF Rounds, InRound
<1>6. Evens'
    BY <1>1, <1>2, <1>4, EvensFrom
<1>7. QED
    BY <1>3, <1>5, <1>6

\* Steps keep the rounds and the counters in step.
LEMMA RoundStep ==
    /\ TypeOK /\ TypeOK' /\ Selecting /\ Balanced
    /\ Counted /\ Rounds /\ Evens /\ [Next]_vars
    => Counted' /\ Rounds' /\ Evens'
<1> SUFFICES ASSUME TypeOK, TypeOK', Selecting, Balanced, Counted, Rounds, Evens,
                    [Next]_vars
             PROVE  Counted' /\ Rounds' /\ Evens'
    OBVIOUS
<1> USE Indices
\* Steps within a selection that count nothing.
<1>1. ASSUME NEW s \in Selector, UNCHANGED <<available, flips, picks>>,
             \A t \in Selector \ {s} : sel'[t] = sel[t],
             sel'[s].pass # "done",
             sel[s].pass = "done" \/ sel'[s].filter = sel[s].filter,
             ASSUME picks # Spoiled, Up # {}, Even(s), Alone(s),
                    sel'[s].filter = AnyModel
             PROVE  Even(s)'
      PROVE  Counted' /\ Rounds' /\ Evens'
  <2>1. Up' = Up
      BY <1>1 DEF Up
  <2>2. Counted' /\ Rounds'
      BY <1>1, <2>1 DEF Counted, Rounds, InRound
  <2>3. ASSUME picks' # Spoiled, Up' # {}, Alone(s), sel'[s].filter = AnyModel
        PROVE  Even(s)'
    <3>1. Even(s)
        BY <1>1, <2>1, <2>3 DEF Evens
    <3>2. QED
        BY <1>1, <2>1, <2>3, <3>1
  <2>4. QED
      BY <1>1, <2>2, <2>3, EvensFrom
\* Those of them that leave the counters alone too.
<1>2. ASSUME NEW s \in Selector, UNCHANGED <<available, flips, picks, currentW>>,
             \A t \in Selector \ {s} : sel'[t] = sel[t],
             sel'[s].pass # "done",
             sel[s].pass = "done" \/ sel'[s].filter = sel[s].filter,
             sel[s].pass # "add",
             sel'[s].pass = "add" => sel'[s].i = 1 /\ sel'[s].best = Nil
      PROVE  Counted' /\ Rounds' /\ Evens'
  <2>1. ASSUME Even(s) PROVE Even(s)'
    <3>1. Up' = Up /\ \A e \in Up : e \in Index /\ ~(e < 1)
        BY <1>2 DEF Up
    <3>2. \A e \in Up : Settled(picks, e)' = Settled(picks, e) /\ Total(Up)' = Total(Up)
        BY <1>2, <3>1 DEF Settled
    <3>3. ASSUME NEW e \in Up
          PROVE  ~(sel[s].pass = "add" /\ e < sel[s].i)
                 /\ ~(sel'[s].pass = "add" /\ e < sel'[s].i)
        BY <1>2, <3>1
    <3>4. QED
        BY <1>2, <2>1, <3>1, <3>2, <3>3 DEF Even
  <2>2. QED
      BY <1>1, <1>2, <2>1
<1>3. ASSUME NEW s \in Selector, Begin(s) PROVE Counted' /\ Rounds' /\ Evens'
  <2>1. /\ sel[s].pass = "done" /\ sel'[s].pass = "collect"
        /\ \A t \in Selector \ {s} : sel'[t] = sel[t]
        /\ UNCHANGED <<available, flips, picks, currentW>>
      BY <1>3 DEF Begin, TypeOK, Idle
  <2>2. QED
      BY <1>2, <2>1
<1>4. ASSUME NEW s \in Selector, Collect(s) PROVE Counted' /\ Rounds' /\ Evens'
  <2>1. /\ sel[s].pass = "collect" /\ sel'[s].pass = "collect"
        /\ sel'[s].filter = sel[s].filter
        /\ \A t \in Selector \ {s} : sel'[t] = sel[t]
        /\ UNCHANGED <<available, flips, picks, currentW>>
      BY <1>4 DEF Collect, TypeOK, Selection
  <2>2. QED
      BY <1>2, <2>1
<1>5. ASSUME NEW s \in Selector, Collected(s) PROVE Counted' /\ Rounds' /\ Evens'
  <2> DEFINE c == sel[s].cands
  <2>1. /\ sel[s] \in Selection /\ Right(sel[s]) /\ sel[s].pass = "collect"
        /\ sel[s].i > Len(Weight) /\ UNCHANGED <<available, flips, currentW>>
      BY <1>5 DEF Collected, TypeOK, Selecting
  <2>2. CASE sel' = [sel EXCEPT ![s].byModel = FALSE, ![s].i = 1] /\ UNCHANGED picks
    <3>1. /\ sel'[s].pass = "collect" /\ sel'[s].filter = sel[s].filter
          /\ \A t \in Selector \ {s} : sel'[t] = sel[t]
        BY <2>1, <2>2 DEF TypeOK, Selection
    <3>2. QED
        BY <1>2, <2>1, <2>2, <3>1
  <2>3. CASE c = {} /\ ~sel[s].byModel /\ Return(s, 1)
    <3>1. ASSUME picks' # Spoiled, picks # Spoiled, Up # {}, sel[s].filter = AnyModel
          PROVE  FALSE
        BY <2>1, <2>3, <3>1, CandsAreUp DEF Counted
    <3>2. QED
        BY <2>1, <2>3, <3>1, ReturnEvens
  <2>4. CASE sel[s].byModel /\ Return(s, CHOOSE e \in c : TRUE)
    <3>1. ASSUME sel[s].filter = AnyModel PROVE FALSE
        BY <2>1, <2>4, <3>1 DEF Right, Watching
    <3>2. QED
        BY <2>1, <2>4, <3>1, ReturnEvens
  <2>5. CASE /\ UNCHANGED picks
             /\ sel' = [sel EXCEPT ![s].i = 1,
                      ![s].pass = IF Cardinality(c) = 1 THEN "single" ELSE "add"]
    <3>1. /\ sel'[s].pass # "done" /\ sel'[s].filter = sel[s].filter
          /\ sel'[s].i = 1 /\ sel'[s].best = Nil
          /\ \A t \in Selector \ {s} : sel'[t] = sel[t]
        BY <2>1, <2>5 DEF TypeOK, Selection, Right, Watching
    <3>2. QED
        BY <1>2, <2>1, <2>5, <3>1
  <2>6. QED
      BY <1>5, <2>2, <2>3, <2>4, <2>5 DEF Collected
<1>6. ASSUME NEW s \in Selector, Single(s) PROVE Counted' /\ Rounds' /\ Evens'
  <2> DEFINE i == sel[s].i
  <2>1. /\ sel[s] \in Selection /\ Right(sel[s]) /\ sel[s].pass = "single"
        /\ UNCHANGED <<available, flips, currentW>>
      BY <1>6 DEF Single, TypeOK, Selecting
  <2>2. CASE sel' = [sel EXCEPT ![s].pass = "add", ![s].i = 1] /\ UNCHANGED picks
    <3>1. /\ sel'[s].pass = "add" /\ sel'[s].filter = sel[s].filter
          /\ sel'[s].i = 1 /\ sel'[s].best = Nil
          /\ \A t \in Selector \ {s} : sel'[t] = sel[t]
        BY <2>1, <2>2 DEF TypeOK, Selection, Right, Watching
    <3>2. QED
        BY <1>2, <2>1, <2>2, <3>1
  <2>3. CASE i \in Index /\ available[i] /\ Return(s, i)
    <3>1. ASSUME picks # Spoiled, Up # {}, sel[s].filter = AnyModel, Even(s)
          PROVE  /\ i \in Up /\ Settled(picks, i) + Weight[i] > 0
                 /\ \A e \in Up : currentW'[e] = Settled(picks, e) + Weight[e]
                                        - IF e = i THEN Total(Up) ELSE 0
                 /\ \A e \in Index \ Up : currentW'[e] = 0
      <4>1. sel[s].cands = Up
          BY <2>1, <3>1, CandsAreUp DEF Counted
      <4>2. Cardinality(Up) = 1 /\ i \in Up
          BY <2>1, <2>3, <4>1 DEF Right, Gathering, Up
      <4>3. IsFiniteSet(Up) /\ Up \subseteq Index
          BY FS_Subset DEF Up
      <4>4. Up = {i}
        <5>1. PICK x : Up = {x}
            BY <4>2, <4>3, FS_Singleton
        <5>2. QED
            BY <4>2, <5>1
      <4>5. Total(Up) = Weight[i] /\ Weight[i] \in Int
        <5>1. Weight[i] \in Int /\ i \in Index
            BY <2>3
        <5>2. \A e \in {} \cup {i} : Weight[e] \in Int
            BY <5>1
        <5>3. SumOf(Weight, {} \cup {i}) = Weight[i] + SumOf(Weight, {})
            BY <5>2, FS_EmptySet, SumAdd
        <5>4. {} \cup {i} = {i} /\ SumOf(Weight, {}) = 0
            BY SumEmpty
        <5>5. QED
            BY <4>4, <5>1, <5>3, <5>4, TotalIsSum
      <4>6. Settled(picks, i) \in Int /\ Settled(picks, i) > -Total(Up)
          BY <3>1, <4>2, SettledTyped DEF Even, TypeOK
      <4>7. currentW[i] = Settled(picks, i)
        <5>1. currentW[i] = Settled(picks, i) + 0
            BY <2>1, <3>1, <4>2 DEF Even
        <5>2. QED
            BY <4>6, <5>1
      <4>8. currentW'[i] = Settled(picks, i) + Weight[i] - Total(Up)
          BY <2>1, <4>5, <4>6, <4>7
      <4>9. \A e \in Index \ Up : currentW'[e] = 0
          BY <2>1, <3>1 DEF Even
      <4>10. QED
          BY <4>2, <4>4, <4>5, <4>6, <4>8, <4>9
    <3>2. QED
        BY <2>1, <2>3, <3>1, ReturnEvens
  <2>4. CASE Advance(s) /\ UNCHANGED picks
    <3>1. /\ sel'[s].pass = "single" /\ sel'[s].filter = sel[s].filter
          /\ \A t \in Selector \ {s} : sel'[t] = sel[t]
        BY <2>1, <2>4 DEF TypeOK, Selection, Advance
    <3>2. QED
        BY <1>2, <2>1, <2>4, <3>1
  <2>5. i > Len(Weight) \/ i \in Index
      BY <2>1 DEF Selection
  <2>6. QED
      BY <1>6, <2>2, <2>3, <2>4, <2>5 DEF Single
<1>7. ASSUME NEW s \in Selector, Add(s) PROVE Counted' /\ Rounds' /\ Evens'
  <2> DEFINE i == sel[s].i
             takes == IF sel[s].byModel THEN i \in sel[s].cands ELSE available[i]
             w == currentW[i] + Weight[i]
  <2>0. /\ sel[s] \in Selection /\ Right(sel[s]) /\ sel[s].pass = "add"
        /\ i <= Len(Weight) /\ UNCHANGED <<available, flips, picks>>
      BY <1>7 DEF Add, TypeOK, Selecting
  <2>1. /\ sel[s] \in Selection /\ Right(sel[s]) /\ sel[s].pass = "add"
        /\ i \in Index /\ UNCHANGED <<available, flips, picks>>
      BY <2>0 DEF Selection
  <2>2. /\ sel'[s].pass = "add" /\ sel'[s].i = i + 1
        /\ sel'[s].filter = sel[s].filter
        /\ sel'[s].best = IF takes /\ Beats(s, w) THEN i ELSE sel[s].best
        /\ sel'[s].bestW = IF takes /\ Beats(s, w) THEN w ELSE sel[s].bestW
        /\ \A t \in Selector \ {s} : sel'[t] = sel[t]
    <3>1. sel' = [sel EXCEPT ![s] = [sel[s] EXCEPT !.i = @ + 1,
                     !.best = IF takes /\ Beats(s, w) THEN i ELSE @,
                     !.bestW = IF takes /\ Beats(s, w) THEN w ELSE @]]
        BY <1>7 DEF Add, TypeOK
    <3>2. QED
        BY <2>1, <3>1 DEF TypeOK, Selection
  <2>3. /\ currentW'[i] = IF takes THEN w ELSE currentW[i]
        /\ \A e \in Index \ {i} : currentW'[e] = currentW[e]
      BY <1>7, <2>1 DEF Add, TypeOK
  <2>4. ASSUME picks # Spoiled, Up # {}, Even(s), Alone(s), sel'[s].filter = AnyModel
        PROVE  Even(s)'
    <3>1. Up' = Up /\ Up \subseteq Index
        BY <2>1 DEF Up
    <3>2. \A e \in Up : /\ Settled(picks, e)' = Settled(picks, e)
                        /\ Total(Up)' = Total(Up)
                        /\ Settled(picks, e) \in Int /\ Weight[e] \in Int
      <4>1. picks \in [Index -> Nat]
          BY <2>4 DEF TypeOK
      <4>2. \A e \in Up : Settled(picks, e) \in Int
          BY <4>1, SettledTyped
      <4>3. QED
          BY <2>1, <3>1, <4>2 DEF Settled
    <3>3. takes <=> i \in Up
        BY <2>1, <2>2, <2>4, CandsAreUp DEF Up, Counted
    <3> HIDE DEF takes
    <3>4. ASSUME NEW e \in Up
          PROVE  currentW'[e] = Settled(picks, e) + IF e < i + 1 THEN Weight[e] ELSE 0
      <4>1. CASE e = i
        <5>1. currentW[i] = Settled(picks, i) + 0
            BY <2>1, <2>4, <3>1, <4>1 DEF Even
        <5>2. currentW'[i] = currentW[i] + Weight[i]
            BY <2>3, <3>3, <4>1
        <5>3. QED
            BY <2>1, <3>2, <4>1, <5>1, <5>2
      <4>2. CASE e # i
        <5>1. e < i + 1 <=> e < i
            BY <2>1, <3>1, <4>2
        <5>2. QED
            BY <2>1, <2>3, <2>4, <3>1, <4>2, <5>1 DEF Even
      <4>3. QED
          BY <4>1, <4>2
    <3>5. \A e \in Index \ Up : currentW'[e] = 0
      <4>1. \A e \in Index \ Up : currentW[e] = 0
          BY <2>4 DEF Even
      <4>2. QED
          BY <2>1, <2>3, <3>3, <4>1
    <3>6. ASSUME sel'[s].best # Nil
          PROVE  /\ sel'[s].bestW = currentW'[sel'[s].best]
                 /\ \A e \in Up : e < i + 1 => currentW'[e] <= sel'[s].bestW
      <4>0. \A e \in Index : currentW[e] \in Int /\ currentW'[e] \in Int
          BY DEF TypeOK
      <4>1. /\ sel[s].best # Nil => sel[s].best \in Index /\ sel[s].best # i
            /\ sel[s].bestW \in Int
          BY <2>1 DEF Right, Choosing, Selection
      <4>2. sel[s].best # Nil =>
              /\ sel[s].bestW = currentW[sel[s].best]
              /\ \A e \in Up : e < i => currentW[e] <= sel[s].bestW
          BY <2>1, <2>4 DEF Even
      <4>3. \A e \in Up : e < i + 1 => e = i \/ e < i
          BY <2>1, <3>1
      <4>4. CASE takes /\ Beats(s, w)
        <5>1. sel'[s].best = i /\ sel'[s].bestW = w /\ currentW'[i] = w
            BY <2>2, <2>3, <4>4
        <5>2. ASSUME NEW e \in Up, e < i PROVE currentW'[e] <= w
          <6>0. e # i /\ e \in Index
              BY <2>1, <3>1, <5>2
          <6>1. currentW'[e] = currentW[e]
              BY <2>3, <6>0
          <6>2. sel[s].best # Nil
            <7>1. sel[s].byModel = FALSE /\ flips = 0
                BY <2>2, <2>4, CandsAreUp DEF Counted
            <7>2. e \in sel[s].steady
                BY <2>1, <7>1 DEF Right, Watching
            <7>3. QED
                BY <2>1, <5>2, <6>0, <7>1, <7>2 DEF Right, Choosing
          <6>3. currentW[e] <= sel[s].bestW /\ w > sel[s].bestW
              BY <4>2, <4>4, <5>2, <6>2 DEF Beats
          <6>4. w \in Int /\ currentW[e] \in Int
              BY <2>1, <4>0, <5>1, <6>0
          <6> HIDE DEF w
          <6>5. QED
              BY <4>1, <6>1, <6>3, <6>4
        <5>3. currentW'[i] <= w
            BY <2>1, <4>0, <5>1
        <5>4. QED
            BY <4>3, <5>1, <5>2, <5>3
      <4>5. CASE takes /\ ~Beats(s, w)
        <5>1. sel'[s].best = sel[s].best /\ sel'[s].bestW = sel[s].bestW
              /\ currentW'[i] = w /\ sel[s].best # Nil /\ ~(w > sel[s].bestW)
            BY <2>2, <2>3, <4>5 DEF Beats
        <5>2. w \in Int
            BY <2>1, <4>0, <5>1
        <5> HIDE DEF w
        <5>3. currentW'[i] <= sel[s].bestW
            BY <4>1, <5>1, <5>2
        <5>4. \A e \in Up : e < i => currentW'[e] = currentW[e]
            BY <2>1, <2>3, <3>1
        <5>5. QED
            BY <2>3, <4>1, <4>2, <4>3, <5>1, <5>3, <5>4
      <4>6. CASE ~takes
        <5>1. sel'[s].best = sel[s].best /\ sel'[s].bestW = sel[s].bestW
              /\ currentW'[i] = currentW[i] /\ i \notin Up
            BY <2>2, <2>3, <3>3, <4>6
        <5>2. \A e \in Up : currentW'[e] = currentW[e]
            BY <2>3, <3>1, <5>1
        <5>3. QED
            BY <2>3, <3>6, <4>1, <4>2, <4>3, <5>1, <5>2
      <4>7. QED
          BY <4>4, <4>5, <4>6
    <3>7. QED
        BY <2>1, <2>2, <2>4, <3>1, <3>2, <3>4, <3>5, <3>6 DEF Even
  <2>5. QED
      BY <1>1, <2>1, <2>2, <2>4
<1>8. ASSUME NEW s \in Selector, Subtract(s) PROVE Counted' /\ Rounds' /\ Evens'
  <2> DEFINE b == sel[s].best
  <2>1. /\ sel[s] \in Selection /\ Right(sel[s]) /\ sel[s].pass = "add"
        /\ sel[s].i > Len(Weight) /\ UNCHANGED <<available, flips>>
        /\ b \in Index \cup {Nil} /\ sel[s].bestW \in Int /\ Return(s, b)
      BY <1>8 DEF Subtract, TypeOK, Selection, Selecting
  <2>2. \A e \in Index : e < sel[s].i
      BY <2>1 DEF Selection
  <2>3. ASSUME picks # Spoiled, Up # {}, sel[s].filter = AnyModel, Even(s), Alone(s)
        PROVE  /\ b \in Up /\ Settled(picks, b) + Weight[b] > 0
               /\ \A e \in Up : currentW'[e] = Settled(picks, e) + Weight[e]
                                      - IF e = b THEN Total(Up) ELSE 0
               /\ \A e \in Index \ Up : currentW'[e] = 0
    <3>1. flips = 0 /\ sel[s].cands = Up /\ Up \subseteq Index /\ sel[s].byModel = FALSE
        BY <2>1, <2>3, CandsAreUp DEF Counted, Up
    <3>2. b # Nil /\ b \in Up
        BY <2>1, <2>2, <2>3, <3>1 DEF Right, Choosing, Watching
    <3>3. \A e \in Index : currentW[e] \in Int
        BY DEF TypeOK
    <3>4. \A e \in Up : currentW[e] = Settled(picks, e) + Weight[e]
        BY <2>1, <2>2, <2>3, <3>1 DEF Even
    <3>5. \A e \in Up : currentW[e] <= currentW[b]
        BY <2>1, <2>2, <2>3, <3>1, <3>2 DEF Even
    <3>6. \A e \in Index \ Up : currentW[e] = 0
        BY <2>3 DEF Even
    <3>7. currentW[b] > 0
      <4>1. SUFFICES ASSUME ~(currentW[b] > 0) PROVE FALSE
          OBVIOUS
      <4> DEFINE zeros == [e \in Index |-> 0]
      <4>2. \A e \in Index : zeros[e] = 0 /\ currentW[e] <= 0
        <5>1. \A e \in Index : zeros[e] = 0
            OBVIOUS
        <5>2. ASSUME NEW e \in Up PROVE currentW[e] <= 0
          <6>1. e \in Index /\ b \in Index
              BY <3>1, <3>2
          <6> HIDE DEF b
          <6>2. currentW[e] \in Int /\ currentW[b] \in Int /\ currentW[e] <= currentW[b]
              BY <3>3, <3>5, <6>1
          <6>3. QED
              BY <4>1, <6>2
        <5>3. \A e \in Index \ Up : currentW[e] <= 0
            BY <3>6
        <5>4. QED
            BY <5>1, <5>2, <5>3
      <4>3. SumOf(zeros, Index) = 0
          BY <2>3, PicksSum DEF TypeOK
      <4> HIDE DEF zeros
      <4>4. SumOf(currentW, Index) <= SumOf(zeros, Index)
          BY <3>3, <4>2, SumLess
      <4>5. SumOf(OwedBy, Selector) = Owed(s)
        <5>1. \A t \in Selector : OwedBy[t] \in Int
            BY OwedTyped DEF OwedBy
        <5>2. \A t \in Selector \ {s} : OwedBy[t] = 0
            BY <2>3 DEF OwedBy, Owed, Alone
        <5>3. OwedBy[s] = Owed(s)
            BY DEF OwedBy
        <5>4. IsFiniteSet(Selector) /\ IsFiniteSet(Selector \ {s})
            BY WeightAssumption, FS_RemoveElement
        <5> HIDE DEF OwedBy
        <5>5. SumOf(OwedBy, Selector) = OwedBy[s] + SumOf(OwedBy, Selector \ {s})
            BY <5>1, <5>4, SumTake
        <5>6. SumOf(OwedBy, Selector \ {s}) = SumOf(OwedBy, {})
            BY <5>1, <5>2, <5>4, SumZeros
        <5>7. QED
            BY <5>1, <5>3, <5>5, <5>6, SumEmpty
      <4>6. Owed(s) = Total(Up)
        <5>1. {e \in sel[s].cands : e < sel[s].i} = Up
            BY <2>2, <3>1
        <5>2. QED
            BY <2>1, <5>1 DEF Owed
      <4>7. Total(Up) \in Nat \ {0}
          BY <2>3, <3>1, TotalPositive
      <4>8. SumOf(currentW, Index) = Total(Up)
          BY <3>1, <4>5, <4>6 DEF Balanced
      <4>9. QED
          BY <4>3, <4>4, <4>7, <4>8
    <3>8. currentW' = [currentW EXCEPT ![b] = @ - Total(Up)]
        BY <1>8, <3>1, <3>2 DEF Subtract, Payback
    <3>9. /\ currentW'[b] = currentW[b] - Total(Up)
          /\ \A e \in Index \ {b} : currentW'[e] = currentW[e]
        BY <3>1, <3>2, <3>8 DEF TypeOK
    <3>10. \A e \in Up : currentW[e] = currentW[e] - 0
        BY <3>1, <3>3
    <3>11. \A e \in Up : currentW'[e] = Settled(picks, e) + Weight[e]
                                      - IF e = b THEN Total(Up) ELSE 0
      <4>0. /\ Total(Up) \in Int
            /\ \A e \in Up : Settled(picks, e) \in Int /\ Weight[e] \in Int
        <5>1. Total(Up) \in Int /\ picks \in [Index -> Nat]
            BY <2>3, <3>1, TotalTyped DEF TypeOK
        <5>2. \A e \in Up : Settled(picks, e) \in Int
            BY <5>1, SettledTyped
        <5>3. QED
            BY <3>1, <5>1, <5>2
      <4>1. ASSUME NEW e \in Up, e = b
            PROVE  currentW'[e] = Settled(picks, e) + Weight[e] - Total(Up)
        <5>1. currentW'[e] = currentW[e] - Total(Up)
            BY <3>9, <4>1
        <5>2. currentW[e] = Settled(picks, e) + Weight[e]
            BY <3>4
        <5>3. QED
            BY <4>0, <5>1, <5>2
      <4>2. ASSUME NEW e \in Up, e # b
            PROVE  currentW'[e] = Settled(picks, e) + Weight[e] - 0
        <5>1. currentW'[e] = currentW[e] /\ currentW[e] = currentW[e] - 0
            BY <3>1, <3>9, <3>10, <4>2
        <5>2. currentW[e] = Settled(picks, e) + Weight[e]
            BY <3>4
        <5>3. QED
            BY <4>0, <5>1, <5>2
      <4>3. QED
          BY <4>1, <4>2
    <3>12. \A e \in Index \ Up : currentW'[e] = 0
        BY <3>2, <3>6, <3>9
    <3>13. QED
        BY <3>2, <3>4, <3>7, <3>11, <3>12
  <2>4. QED
      BY <2>1, <2>3, ReturnEvens
<1>9. ASSUME NEW e \in Index, Flip(e) PROVE Counted' /\ Rounds' /\ Evens'
    BY <1>9 DEF Flip, Counted, Rounds, Evens
<1>10. CASE UNCHANGED vars
  <2>1. UNCHANGED <<picks, flips, currentW, sel>> /\ Up' = Up
      BY <1>10 DEF vars, Up
  <2>2. QED
      BY <2>1 DEF Counted, Rounds, Evens, InRound, Alone, Even, Settled
<1>11. QED
    BY <1>3, <1>4, <1>5, <1>6, <1>7, <1>8, <1>9, <1>10 DEF Next, Select

----------------------------------------------------------------------------
(* The theorems.                                                            *)

IInv == /\ TypeOK /\ Selecting /\ Balanced
        /\ Counted /\ Rounds /\ Evens

\* The invariant holds at the start.
LEMMA InitIInv == Init => IInv
<1> SUFFICES ASSUME Init PROVE IInv
    OBVIOUS
<1> USE Indices
<1> DEFINE zeros == [e \in Index |-> 0]
<1>1. TypeOK
    BY IdleIsSelection DEF Init, TypeOK
<1>2. \A s \in Selector : sel[s] = Idle
    BY DEF Init
<1>3. Selecting
    BY <1>2 DEF Selecting, Right, Watching, Gathering, Choosing, Answered, Idle
<1>4. picks = zeros /\ currentW = zeros /\ zeros \in [Index -> Nat]
    BY DEF Init
<1>5. SumOf(zeros, Index) = 0
    BY <1>4, PicksSum
<1>6. SumOf(OwedBy, Selector) = 0
  <2>1. \A s \in Selector : OwedBy[s] = 0
      BY <1>2 DEF OwedBy, Owed, Idle
  <2>2. IsFiniteSet(Selector)
      BY WeightAssumption
  <2> HIDE DEF OwedBy
  <2>3. SumOf(OwedBy, Selector) = SumOf(OwedBy, {})
      BY <2>1, <2>2, SumZeros
  <2>4. QED
      BY <2>3, SumEmpty
<1>7. Balanced
    BY <1>4, <1>5, <1>6 DEF Balanced
<1>8. Counted
    BY DEF Init, Counted
<1>9. ASSUME Up # {} PROVE Total(Up) \in Nat \ {0}
    BY <1>9, TotalPositive DEF Up
<1>10. Up \subseteq Index /\ \A e \in Index : zeros[e] = 0
    BY DEF Up
<1>11. Rounds
  <2> HIDE DEF zeros
  <2>1. QED
      BY <1>4, <1>5, <1>9, <1>10 DEF Rounds, InRound
<1>12. ASSUME Up # {}, NEW s \in Selector PROVE Even(s)
  <2>1. ASSUME NEW e \in Up PROVE Settled(picks, e) = 0
    <3>1. Weight[e] \in Int /\ Total(Up) \in Int /\ picks[e] = 0
        BY <1>4, <1>9, <1>10, <1>12
    <3>2. Settled(picks, e) = 0 * Weight[e] - Total(Up) * 0
        BY <1>4, <1>5, <3>1 DEF Settled
    <3>3. QED
        BY <3>1, <3>2
  <2>2. \A e \in Up : Settled(picks, e) > -Total(Up) /\ currentW[e] = Settled(picks, e) + 0
      BY <1>4, <1>9, <1>10, <1>12, <2>1
  <2>3. sel[s].pass = "done"
      BY <1>2 DEF Idle
  <2>4. QED
      BY <1>4, <1>10, <2>2, <2>3 DEF Even
<1>13. QED
    BY <1>1, <1>3, <1>7, <1>8, <1>11, <1>12 DEF IInv, Evens

\* The invariant holds of every reachable state.
THEOREM Inductive == Spec => []IInv
<1>1. IInv /\ [Next]_vars => IInv'
    BY Typed, SelectingStep, BalancedStep, RoundStep DEF IInv
<1>2. QED
    BY InitIInv, <1>1, PTL DEF Spec

\* While availability does not change no interleaving of selections loses or
\* creates weight.
THEOREM NoWeightLost == Spec => []WeightConserved
<1>1. IInv => WeightConserved
    BY ConservedIsBalanced DEF IInv
<1>2. QED
    BY Inductive, <1>1, PTL

\* A selection returns an endpoint that was available while it ran when there is
\* one that stayed available, and one of the model's when one of those did.
THEOREM PicksWhatStayedUp == Spec => []PicksAvailable
<1>1. IInv => PicksAvailable
    BY DEF IInv, Selecting, Right, Answered, PicksAvailable
<1>2. QED
    BY Inductive, <1>1, PTL

\* Whatever the weights, a round of undisturbed selections without a model picks
\* every endpoint as often as its weight says.
THEOREM SmoothRounds == Spec => []RoundExact
<1>1. IInv => RoundExact
  <2> SUFFICES ASSUME IInv, picks # Spoiled, Up # {}, RoundFull
               PROVE  picks = [e \in Index |-> IF available[e] THEN Weight[e] ELSE 0]
      BY DEF RoundExact
  <2>1. picks \in [Index -> Nat] /\ InRound(picks)
      BY DEF IInv, TypeOK, Rounds
  <2>2. Up \in SUBSET Index
      BY DEF Up
  <2>3. SumOf(picks, Index) \in Int /\ Total(Up) \in Int
      BY <2>1, <2>2, PicksSum, TotalTyped
  <2>4. SumOf(picks, Index) = Total(Up)
      BY <2>1, <2>3, RoundFullIs DEF InRound
  <2>5. \A e \in Index : picks[e] = IF available[e] THEN Weight[e] ELSE 0
      BY <2>1, <2>4 DEF InRound, Up
  <2>6. QED
      BY <2>1, <2>5
<1>2. QED
    BY Inductive, <1>1, PTL
=============================================================================
