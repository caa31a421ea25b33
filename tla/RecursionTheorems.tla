--------------------------- MODULE RecursionTheorems --------------------------
(***************************************************************************)
(* Induction over sets of numbers, and functions defined by recursion over *)
(* an interval: what the proofs about the loops of the programs rest on.   *)
(***************************************************************************)
EXTENDS Naturals, FiniteSetTheorems, WellFoundedInduction, TLAPS

(* A set that holds 0 and the successor of each of its numbers holds all:  *)
(* induction over a set, from the well-foundedness of < on the naturals.   *)
LEMMA SetInduction ==
  ASSUME NEW S, 0 \in S, \A n \in Nat : n \in S => n + 1 \in S
  PROVE  Nat \subseteq S
<1> DEFINE R == OpToRel(<, Nat)
           T == Nat \ S
<1>1. \A x, y \in Nat : <<x, y>> \in R <=> x < y
  BY DEF OpToRel
<1>2. IsWellFoundedOn(R, Nat)
  BY NatLessThanWellFounded
<1> HIDE DEF R
<1>3. SUFFICES ASSUME T # {} PROVE FALSE
  OBVIOUS
<1>4. PICK x \in T : \A y \in T : ~ (<<y, x>> \in R)
  BY <1>2, <1>3, WFMin
<1>5. x \in Nat /\ x # 0 /\ x - 1 \in Nat
  OBVIOUS
<1>6. x - 1 \in T
  BY <1>5
<1>7. <<x - 1, x>> \in R
  BY <1>1, <1>5
<1>8. QED
  BY <1>4, <1>6, <1>7

(* A sequence of values, defined by the first and a step from each to the  *)
(* next.                                                                   *)
Recursion(f, V, base, n, step) ==
  /\ f \in [0 .. n -> V]
  /\ f[0] = base
  /\ \A k \in 1 .. n : f[k] = step[k][f[k - 1]]

LEMMA RecursionOnInterval ==
  ASSUME NEW V, NEW base \in V, NEW n \in Nat, NEW step \in [1 .. n -> [V -> V]]
  PROVE  \E f \in [0 .. n -> V] : f[0] = base /\ \A k \in 1 .. n : f[k] = step[k][f[k - 1]]
<1> DEFINE Defines(f, j) == f[0] = base /\ \A k \in 1 .. j : f[k] = step[k][f[k - 1]]
           S == {j \in Nat : j <= n => \E f \in [0 .. j -> V] : Defines(f, j)}
<1>1. 0 \in S
  <2>1. Defines([k \in 0 .. 0 |-> base], 0)
    OBVIOUS
  <2>2. QED
    BY <2>1
<1>2. ASSUME NEW j \in Nat, j \in S PROVE j + 1 \in S
  <2>1. SUFFICES ASSUME j + 1 <= n
                 PROVE  \E f \in [0 .. j + 1 -> V] : Defines(f, j + 1)
    OBVIOUS
  <2>2. PICK f \in [0 .. j -> V] : Defines(f, j)
    BY <1>2, <2>1
  <2> DEFINE g == [k \in 0 .. j + 1 |-> IF k = j + 1 THEN step[k][f[j]] ELSE f[k]]
  <2>3. step[j + 1] \in [V -> V] /\ f[j] \in V
    BY <2>1
  <2>4. g \in [0 .. j + 1 -> V]
    BY <2>3
  <2>5. Defines(g, j + 1)
    <3>1. g[0] = base
      BY <2>2
    <3>2. ASSUME NEW k \in 1 .. j + 1 PROVE g[k] = step[k][g[k - 1]]
      <4>1. CASE k = j + 1
        BY <4>1
      <4>2. CASE k # j + 1
        <5>1. k \in 1 .. j /\ k - 1 \in 0 .. j + 1 /\ k \in 0 .. j + 1 /\ k - 1 # j + 1
          BY <4>2
        <5>2. g[k] = f[k] /\ g[k - 1] = f[k - 1]
          BY <4>2, <5>1
        <5>3. QED
          BY <2>2, <5>1, <5>2
      <4>3. QED
        BY <4>1, <4>2
    <3>3. QED
      BY <3>1, <3>2
  <2>6. QED
    BY <2>4, <2>5
<1>3. n \in S
  BY <1>1, <1>2, SetInduction
<1>4. QED
  BY <1>3

LEMMA RecursionExists ==
  ASSUME NEW V, NEW base \in V, NEW n \in Nat, NEW step \in [1 .. n -> [V -> V]]
  PROVE  \E f : Recursion(f, V, base, n, step)
  BY RecursionOnInterval DEF Recursion

(* Induction up to n.                                                      *)
LEMMA IntervalInduction ==
  ASSUME NEW n \in Nat, NEW S, 0 \in S, \A k \in 0 .. n - 1 : k \in S => k + 1 \in S
  PROVE  0 .. n \subseteq S
<1> DEFINE T == {k \in Nat : k <= n => k \in S}
<1>1. 0 \in T
  OBVIOUS
<1>2. ASSUME NEW k \in Nat, k \in T PROVE k + 1 \in T
  BY <1>2
<1>3. Nat \subseteq T
  BY <1>1, <1>2, SetInduction
<1>4. QED
  BY <1>3
-------------------------------------------------------------------------------
(* Sums over a finite set.  MapThenSumSet recurses over the subsets of its *)
(* set, by whatever element CHOOSE takes out of each; w[x] is what x adds. *)
Chosen(s) == CHOOSE p \in s : TRUE

Unfolds(f, w, s) == f[s] = IF s = {} THEN 0 ELSE w[Chosen(s)] + f[s \ {Chosen(s)}]

IsTotal(f, w, T) ==
  f = [s \in SUBSET T |-> IF s = {} THEN 0 ELSE w[Chosen(s)] + f[s \ {Chosen(s)}]]

LEMMA SmallerSets ==
  ASSUME NEW T, IsFiniteSet(T), NEW s \in SUBSET T
  PROVE  /\ IsFiniteSet(s) /\ Cardinality(s) \in 0 .. Cardinality(T)
         /\ Cardinality(s) = 0 <=> s = {}
         /\ \A x \in s : /\ s \ {x} \in SUBSET T /\ Cardinality(s \ {x}) = Cardinality(s) - 1
         /\ s # {} => Chosen(s) \in s
<1>1. IsFiniteSet(s) /\ Cardinality(s) <= Cardinality(T)
  BY FS_Subset
<1>2. Cardinality(s) \in Nat /\ Cardinality(T) \in Nat /\ (Cardinality(s) = 0 <=> s = {})
  BY <1>1, FS_CardinalityType, FS_EmptySet
<1>3. \A x \in s : Cardinality(s \ {x}) = Cardinality(s) - 1
  BY <1>1, FS_RemoveElement
<1>4. s # {} => Chosen(s) \in s
  BY DEF Chosen
<1>5. QED
  BY <1>1, <1>2, <1>3, <1>4

LEMMA TotalExists ==
  ASSUME NEW T, IsFiniteSet(T), NEW w, \A x \in T : w[x] \in Nat
  PROVE  \E f \in [SUBSET T -> Nat] : IsTotal(f, w, T)
<1> DEFINE Good(f, k) == \A s \in SUBSET T : Cardinality(s) <= k => Unfolds(f, w, s)
           S == {k \in Nat : \E f \in [SUBSET T -> Nat] : Good(f, k)}
<1>1. 0 \in S
  <2> DEFINE f == [s \in SUBSET T |-> 0]
  <2>1. Good(f, 0)
    <3> SUFFICES ASSUME NEW s \in SUBSET T, Cardinality(s) <= 0 PROVE Unfolds(f, w, s)
      OBVIOUS
    <3>1. s = {}
      BY SmallerSets
    <3>2. QED
      BY <3>1 DEF Unfolds
  <2>2. QED
    BY <2>1
<1>2. ASSUME NEW k \in Nat, k \in S PROVE k + 1 \in S
  <2>1. PICK f \in [SUBSET T -> Nat] : Good(f, k)
    BY <1>2
  <2> DEFINE g == [s \in SUBSET T |->
                    IF Cardinality(s) = k + 1 THEN w[Chosen(s)] + f[s \ {Chosen(s)}] ELSE f[s]]
  <2>2. ASSUME NEW s \in SUBSET T
        PROVE  g[s] \in Nat /\ (Cardinality(s) <= k + 1 => Unfolds(g, w, s))
    <3>1. CASE s = {}
      <4>1. Cardinality(s) = 0
        BY <3>1, SmallerSets
      <4>2. Unfolds(f, w, s)
        BY <2>1, <4>1
      <4>3. QED
        BY <3>1, <4>1, <4>2 DEF Unfolds
    <3>2. CASE s # {}
      <4> DEFINE r == s \ {Chosen(s)}
      <4>1. /\ Chosen(s) \in s /\ w[Chosen(s)] \in Nat /\ r \in SUBSET T
            /\ Cardinality(s) \in Nat /\ Cardinality(r) = Cardinality(s) - 1
        BY <3>2, SmallerSets
      <4>2. f[r] \in Nat /\ f[s] \in Nat
        BY <4>1
      <4>3. g[s] \in Nat
        BY <4>1, <4>2
      <4>4. ASSUME Cardinality(s) <= k + 1 PROVE Unfolds(g, w, s)
        <5>1. g[r] = f[r]
          <6>1. Cardinality(r) # k + 1
            BY <4>1, <4>4
          <6>2. QED
            BY <4>1, <6>1, Zenon
        <5>2. g[s] = w[Chosen(s)] + f[r]
          <6>1. CASE Cardinality(s) = k + 1
            BY <6>1
          <6>2. CASE Cardinality(s) # k + 1
            <7>1. Unfolds(f, w, s)
              BY <2>1, <4>1, <4>4, <6>2
            <7>2. QED
              BY <3>2, <6>2, <7>1 DEF Unfolds
          <6>3. QED
            BY <6>1, <6>2
        <5>3. QED
          BY <3>2, <5>1, <5>2 DEF Unfolds
      <4>5. QED
        BY <4>3, <4>4
    <3>3. QED
      BY <3>1, <3>2
  <2> HIDE DEF g
  <2>3. g \in [SUBSET T -> Nat]
    <3>1. g = [s \in SUBSET T |-> g[s]]
      BY DEF g
    <3>2. QED
      BY <2>2, <3>1
  <2>4. QED
    BY <2>2, <2>3
<1>3. Cardinality(T) \in Nat
  BY FS_CardinalityType
<1>4. Cardinality(T) \in S
  <2> HIDE DEF S
  <2>1. Nat \subseteq S
    BY <1>1, <1>2, SetInduction
  <2>2. QED
    BY <1>3, <2>1
<1>5. PICK f \in [SUBSET T -> Nat] : Good(f, Cardinality(T))
  BY <1>4
<1>6. \A s \in SUBSET T : Unfolds(f, w, s)
  BY <1>3, <1>5, SmallerSets
<1>7. IsTotal(f, w, T)
  BY <1>6 DEF IsTotal, Unfolds
<1>8. QED
  BY <1>7

(* Two such functions agree where both are defined.                        *)
LEMMA TotalsAgree ==
  ASSUME NEW T, IsFiniteSet(T), NEW w, \A x \in T : w[x] \in Nat, NEW S \in SUBSET T,
         NEW f, IsTotal(f, w, T), NEW g, IsTotal(g, w, S), NEW s \in SUBSET S
  PROVE  f[s] = g[s]
<1> DEFINE I == {k \in Nat : \A t \in SUBSET S : Cardinality(t) = k => f[t] = g[t]}
<1>1. \A t \in SUBSET S : t \in SUBSET T /\ Unfolds(f, w, t) /\ Unfolds(g, w, t)
  BY DEF IsTotal, Unfolds
<1>2. 0 \in I
  BY <1>1, SmallerSets DEF Unfolds
<1>3. ASSUME NEW k \in Nat, k \in I PROVE k + 1 \in I
  <2> SUFFICES ASSUME NEW t \in SUBSET S, Cardinality(t) = k + 1 PROVE f[t] = g[t]
    OBVIOUS
  <2>1. t # {} /\ Chosen(t) \in t /\ Cardinality(t \ {Chosen(t)}) = k
    BY <1>1, SmallerSets
  <2>2. f[t \ {Chosen(t)}] = g[t \ {Chosen(t)}]
    BY <1>3, <2>1
  <2>3. QED
    BY <1>1, <2>1, <2>2 DEF Unfolds
<1>4. Cardinality(s) \in Nat
  BY <1>1, SmallerSets
<1>5. Nat \subseteq I
  <2> HIDE DEF I
  <2>1. QED
    BY <1>2, <1>3, SetInduction
<1>6. QED
  BY <1>4, <1>5

(* The order does not matter: an element more adds to the sum.             *)
AddsUp(f, w, T) ==
  \A s \in SUBSET T : \A x \in T \ s : f[s \union {x}] = f[s] + w[x]

LEMMA TotalAdds ==
  ASSUME NEW T, IsFiniteSet(T), NEW w, \A x \in T : w[x] \in Nat,
         NEW f \in [SUBSET T -> Nat], IsTotal(f, w, T)
  PROVE  AddsUp(f, w, T)
<1> DEFINE I == {k \in Nat : \A t \in SUBSET T : \A y \in T \ t :
                   Cardinality(t) = k => f[t \union {y}] = f[t] + w[y]}
<1>1. \A t \in SUBSET T : Unfolds(f, w, t) /\ f[t] \in Nat
  BY DEF IsTotal, Unfolds
<1>2. \A y \in T : w[y] \in Nat
  OBVIOUS
<1>3. ASSUME NEW t \in SUBSET T, NEW y \in T \ t,
             \A r \in SUBSET T : \A z \in T \ r : Cardinality(r) = Cardinality(t) - 1 =>
               f[r \union {z}] = f[r] + w[z]
      PROVE  f[t \union {y}] = f[t] + w[y]
  <2> DEFINE u == t \union {y}
             z == Chosen(u)
  <2>1. u \in SUBSET T /\ u # {}
    OBVIOUS
  <2>2. z \in u /\ f[u] = w[z] + f[u \ {z}]
    <3>1. z \in u
      BY <2>1 DEF Chosen
    <3>2. Unfolds(f, w, u)
      BY <1>1, <2>1
    <3>3. QED
      BY <2>1, <3>1, <3>2 DEF Unfolds
  <2> HIDE DEF z
  <2>3. CASE z = y
    <3>1. u \ {z} = t
      BY <2>3
    <3>2. f[t] \in Nat /\ w[y] \in Nat
      BY <1>1, <1>2
    <3>3. f[u] = w[y] + f[t]
      BY <2>2, <2>3, <3>1
    <3>4. QED
      BY <3>2, <3>3
  <2>4. CASE z # y
    <3> DEFINE r == t \ {z}
    <3>1. z \in t /\ r \in SUBSET T /\ y \in T \ r /\ z \in T \ r
      BY <2>2, <2>4
    <3>2. Cardinality(r) = Cardinality(t) - 1
      BY <3>1, SmallerSets
    <3>3. u \ {z} = r \union {y} /\ t = r \union {z}
      BY <2>4, <3>1
    <3> HIDE DEF r, u
    <3>4. f[r \union {y}] = f[r] + w[y] /\ f[r \union {z}] = f[r] + w[z]
      BY <1>3, <3>1, <3>2
    <3>5. f[r] \in Nat /\ w[y] \in Nat /\ w[z] \in Nat
      BY <1>1, <1>2, <3>1
    <3>6. f[u] = w[z] + (f[r] + w[y]) /\ f[t] = f[r] + w[z]
      BY <2>2, <3>3, <3>4
    <3>7. QED
      BY <3>5, <3>6 DEF u
  <2>5. QED
    BY <2>3, <2>4
<1>4. 0 \in I
  <2> SUFFICES ASSUME NEW t \in SUBSET T, NEW y \in T \ t, Cardinality(t) = 0
               PROVE  f[t \union {y}] = f[t] + w[y]
    OBVIOUS
  <2>1. \A r \in SUBSET T : Cardinality(r) \in Nat
    BY SmallerSets
  <2>2. QED
    BY <1>3, <2>1
<1>5. ASSUME NEW k \in Nat, k \in I PROVE k + 1 \in I
  <2> SUFFICES ASSUME NEW t \in SUBSET T, NEW y \in T \ t, Cardinality(t) = k + 1
               PROVE  f[t \union {y}] = f[t] + w[y]
    OBVIOUS
  <2>1. \A r \in SUBSET T : \A z \in T \ r : Cardinality(r) = Cardinality(t) - 1 =>
          f[r \union {z}] = f[r] + w[z]
    BY <1>5
  <2>2. QED
    BY <1>3, <2>1
<1>6. Nat \subseteq I
  <2> HIDE DEF I
  <2>1. QED
    BY <1>4, <1>5, SetInduction
<1>7. \A s \in SUBSET T : Cardinality(s) \in Nat
  BY SmallerSets
<1>8. QED
  BY <1>6, <1>7 DEF AddsUp

(* A sum depends on the numbers of its own elements only.                  *)
LEMMA TotalsOfSameNumbers ==
  ASSUME NEW T, IsFiniteSet(T), NEW S \in SUBSET T,
         NEW w, NEW v, \A y \in T : v[y] \in Nat, \A y \in S : v[y] = w[y],
         NEW f, IsTotal(f, w, T), NEW g, IsTotal(g, v, T)
  PROVE  f[S] = g[S]
<1> DEFINE h == [s \in SUBSET S |-> f[s]]
<1>1. ASSUME NEW s \in SUBSET S
      PROVE  h[s] = IF s = {} THEN 0 ELSE v[Chosen(s)] + h[s \ {Chosen(s)}]
  <2>1. s \in SUBSET T /\ Unfolds(f, w, s)
    BY DEF IsTotal, Unfolds
  <2>2. s # {} => Chosen(s) \in s
    BY DEF Chosen
  <2>3. s # {} => v[Chosen(s)] = w[Chosen(s)] /\ s \ {Chosen(s)} \in SUBSET S
    BY <2>2
  <2>4. QED
    BY <2>1, <2>3 DEF Unfolds
<1>2. IsTotal(h, v, S)
  BY <1>1 DEF IsTotal
<1> HIDE DEF h
<1>3. \A s \in SUBSET S : g[s] = h[s]
  BY <1>2, TotalsAgree
<1>4. QED
  BY <1>3 DEF h

LEMMA TotalOfNothing ==
  ASSUME NEW T, IsFiniteSet(T), NEW w, \A y \in T : w[y] = 0, NEW f, IsTotal(f, w, T)
  PROVE  f[T] = 0
<1> DEFINE h == [s \in SUBSET T |-> 0]
<1>1. ASSUME NEW s \in SUBSET T
      PROVE  h[s] = IF s = {} THEN 0 ELSE w[Chosen(s)] + h[s \ {Chosen(s)}]
  <2>1. s # {} => Chosen(s) \in s
    BY DEF Chosen
  <2>2. QED
    BY <2>1
<1>2. IsTotal(h, w, T)
  BY <1>1 DEF IsTotal
<1>3. h[T] = 0
  OBVIOUS
<1> HIDE DEF h
<1>4. \A s \in SUBSET T : f[s] = h[s]
  BY <1>2, TotalsAgree
<1>5. QED
  BY <1>3, <1>4
===============================================================================
