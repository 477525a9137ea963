--------------------------- MODULE NaturalLemmas ---------------------------
(***************************************************************************)
(* Facts about natural numbers that stand in for induction, which the      *)
(* provers do not do: a set of them that is not empty has a least element, *)
(* and a recursive definition over 0..n defines a function.                *)
(***************************************************************************)
EXTENDS Integers, TLAPS, WellFoundedInduction

\* A set of natural numbers that is not empty has a least one.
LEMMA LeastNatural ==
    ASSUME NEW T \in SUBSET Nat, T # {}
    PROVE  \E n \in T : \A m \in T : n <= m
  <1>1. PICK n \in T : \A m \in T : <<m, n>> \notin OpToRel(<, Nat)
    BY NatLessThanWellFounded, WFMin
  <1>2. \A m \in T : ~(m < n)
    BY <1>1 DEF OpToRel
  <1> QED
    BY <1>2

\* f has the values of a loop of n turns that starts from a and whose turn i takes
\* x to g[i][x].
IsLoop(f, S, a, n, g) ==
    f \in [0..n -> S] /\ f[0] = a /\ \A i \in 1..n : f[i] = g[i][f[i - 1]]

\* There is such a function.
LEMMA RecursiveFunction ==
    ASSUME NEW S, NEW a \in S, NEW n \in Nat, NEW g \in [1..n -> [S -> S]]
    PROVE  \E f : IsLoop(f, S, a, n, g)
  <1> DEFINE Is(f, m) == f \in [0..m -> S] /\ f[0] = a /\ \A i \in 1..m : f[i] = g[i][f[i - 1]]
             T == {m \in 0..n : ~ \E f : Is(f, m)}
  <1>1. ASSUME T # {} PROVE FALSE
    <2>1. PICK m \in T : \A k \in T : m <= k
      <3> HIDE DEF T
      <3>1. T \in SUBSET Nat
        BY DEF T
      <3> QED
        BY <1>1, <3>1, LeastNatural
    <2>2. CASE m = 0
      <3>1. Is([k \in 0..0 |-> a], 0)
        OBVIOUS
      <3> QED
        BY <2>1, <2>2, <3>1
    <2>3. CASE m # 0
      <3>1. m - 1 \in 0..n /\ m - 1 \notin T /\ m \in Nat
        <4>1. m \in 0..n
          OBVIOUS
        <4> HIDE DEF T
        <4> QED
          BY <2>1, <2>3, <4>1
      <3>2. PICK f : Is(f, m - 1)
        BY <3>1
      <3> DEFINE h == [k \in 0..m |-> IF k = m THEN g[m][f[m - 1]] ELSE f[k]]
      <3>3. f[m - 1] \in S /\ m \in 1..n
        BY <2>1, <3>1, <3>2, <2>3
      <3>4. g[m][f[m - 1]] \in S
        BY <3>3
      <3>5. h \in [0..m -> S]
        BY <3>1, <3>2, <3>4
      <3>6. ASSUME NEW i \in 1..m PROVE h[i] = g[i][h[i - 1]]
        <4>1. i - 1 \in 0..m /\ i - 1 # m /\ i \in 0..m /\ h[i - 1] = f[i - 1]
          BY <3>1
        <4>2. i # m => h[i] = f[i] /\ i \in 1..(m - 1)
          BY <3>1, <4>1
        <4>3. i = m => h[i] = g[m][f[m - 1]]
          BY <4>1
        <4> HIDE DEF h
        <4> QED
          BY <3>2, <4>1, <4>2, <4>3
      <3>7. 0 \in 0..m /\ 0 # m /\ f[0] = a
        BY <2>3, <3>1, <3>2
      <3>8. h[0] = a
        BY <3>7
      <3> HIDE DEF h
      <3> QED
        BY <2>1, <3>5, <3>6, <3>8
    <2> QED
      BY <2>2, <2>3
  <1>2. n \notin T
    BY <1>1
  <1> QED
    BY <1>2 DEF IsLoop

\* What holds at the start of a loop and from each turn to the next holds at
\* every turn.
LEMMA TurnByTurn ==
    ASSUME NEW n \in Nat, NEW X, 0 \in X, \A i \in 1..n : i - 1 \in X => i \in X
    PROVE  \A i \in 0..n : i \in X
  <1> DEFINE T == {i \in 0..n : i \notin X}
  <1>1. ASSUME T # {} PROVE FALSE
    <2>1. T \in SUBSET Nat
      OBVIOUS
    <2>2. PICK i \in T : \A j \in T : i <= j
      <3> HIDE DEF T
      <3> QED
        BY <1>1, <2>1, LeastNatural
    <2>3. i \in 1..n /\ i \notin X /\ i - 1 \in 0..n
      BY <2>2
    <2>4. i - 1 \notin T
      <3> HIDE DEF T
      <3> QED
        BY <2>2, <2>3
    <2> QED
      BY <2>3, <2>4
  <1> QED
    BY <1>1

\* The same for a loop without an end.
LEMMA ForEver ==
    ASSUME NEW X, 0 \in X, \A i \in Nat : i \in X => i + 1 \in X
    PROVE  \A i \in Nat : i \in X
  <1> SUFFICES ASSUME NEW n \in Nat PROVE n \in X
    OBVIOUS
  <1>1. \A i \in 1..n : i - 1 \in X => i \in X
    <2> SUFFICES ASSUME NEW i \in 1..n, i - 1 \in X PROVE i \in X
      OBVIOUS
    <2>1. i - 1 \in Nat /\ (i - 1) + 1 = i
      OBVIOUS
    <2> QED
      BY <2>1
  <1>2. \A i \in 0..n : i \in X
    BY <1>1, TurnByTurn
  <1> QED
    BY <1>2

\* A recursive definition over all natural numbers defines a function: it is put
\* together from those over 0..n, which agree with one another.
LEMMA EndlessRecursion ==
    ASSUME NEW S, NEW a \in S, NEW g \in [S -> S]
    PROVE  \E f \in [Nat -> S] : f[0] = a /\ \A i \in Nat : f[i + 1] = g[f[i]]
  <1> DEFINE Is(f, n) == f \in [0..n -> S] /\ f[0] = a /\ \A i \in 1..n : f[i] = g[f[i - 1]]
  <1>1. \A n \in Nat : \E f : Is(f, n)
    <2> SUFFICES ASSUME NEW n \in Nat PROVE \E f : Is(f, n)
      OBVIOUS
    <2>1. PICK G : G = [i \in 1..n |-> g]
      OBVIOUS
    <2>2. G \in [1..n -> [S -> S]]
      BY <2>1
    <2>3. PICK f : IsLoop(f, S, a, n, G)
      BY <2>2, RecursiveFunction
    <2> QED
      BY <2>1, <2>3 DEF IsLoop
  <1>2. ASSUME NEW n \in Nat, NEW f, Is(f, n), NEW m \in Nat, NEW h, Is(h, m), n <= m
        PROVE  \A i \in 0..n : f[i] = h[i]
    <2>1. PICK X : X = {i \in 0..n : f[i] = h[i]}
      OBVIOUS
    <2>2. 0 \in X
      BY <1>2, <2>1
    <2>3. ASSUME NEW i \in 1..n, i - 1 \in X PROVE i \in X
      <3>1. i \in 1..m /\ i \in 0..n
        BY <1>2
      <3>2. f[i - 1] = h[i - 1] /\ f[i] = g[f[i - 1]] /\ h[i] = g[h[i - 1]]
        BY <1>2, <2>1, <2>3, <3>1
      <3> QED
        BY <2>1, <3>1, <3>2
    <2>4. \A i \in 0..n : i \in X
      BY <2>2, <2>3, TurnByTurn
    <2> QED
      BY <2>1, <2>4
  <1> DEFINE F(n) == CHOOSE f : Is(f, n)
             all == [n \in Nat |-> F(n)[n]]
  <1>3. \A n \in Nat : Is(F(n), n)
    BY <1>1
  <1>4. all \in [Nat -> S]
    BY <1>3
  <1>5. all[0] = a
    BY <1>3
  <1>6. ASSUME NEW i \in Nat PROVE all[i + 1] = g[all[i]]
    <2> HIDE DEF F, Is
    <2>1. i + 1 \in Nat /\ Is(F(i + 1), i + 1) /\ Is(F(i), i) /\ i <= i + 1 /\ i \in 0..i
      BY <1>3
    <2>2. F(i)[i] = F(i + 1)[i]
      <3>1. PICK f, h : f = F(i) /\ h = F(i + 1)
        OBVIOUS
      <3>2. Is(f, i) /\ Is(h, i + 1)
        BY <2>1, <3>1
      <3>3. \A j \in 0..i : f[j] = h[j]
        BY <1>2, <2>1, <3>2
      <3> QED
        BY <2>1, <3>1, <3>3
    <2>3. F(i + 1)[i + 1] = g[F(i + 1)[i]]
      <3>1. i + 1 \in 1..(i + 1) /\ (i + 1) - 1 = i
        OBVIOUS
      <3> QED
        BY <2>1, <3>1 DEF Is
    <2>4. all[i + 1] = F(i + 1)[i + 1] /\ all[i] = F(i)[i]
      BY <2>1
    <2> QED
      BY <2>2, <2>3, <2>4
  <1> HIDE DEF all
  <1> QED
    BY <1>4, <1>5, <1>6
=============================================================================
