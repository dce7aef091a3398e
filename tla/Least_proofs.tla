----------------------------- MODULE Least_proofs -----------------------------
(***************************************************************************)
(* The searches of the models take the first of several places.  That      *)
(* there is one rests on the order of the naturals, for which a bounded    *)
(* set of them stands as a finite set.                                     *)
(*                                                                         *)
(* The first place also is how this development reasons by induction: what *)
(* fails somewhere fails somewhere first, and does not fail before.  So a  *)
(* recursive function over a log or a menu is one that exists, and one.    *)
(***************************************************************************)
EXTENDS Integers, FiniteSetTheorems, WellFoundedInduction, TLAPS

\* A set of naturals that is not empty has a least element.
LEMMA LeastNatural ==
  ASSUME NEW T, T \subseteq Nat, T # {}
  PROVE  \E x \in T : \A y \in T : x <= y
<1>. DEFINE C == {0 .. x : x \in T}
<1>1. C \subseteq FiniteSubsetsOf(Nat)
  <2>1. ASSUME NEW x \in T PROVE 0 .. x \in SUBSET Nat /\ IsFiniteSet(0 .. x)
    BY FS_Interval
  <2>. QED
    BY <2>1 DEF FiniteSubsetsOf
<1>2. PICK c \in C : \A d \in C : ~ (<< d, c >> \in StrictSubsetOrdering(Nat))
  <2>1. IsWellFoundedOn(StrictSubsetOrdering(Nat), FiniteSubsetsOf(Nat))
    BY FS_StrictSubsetOrderingWellFounded
  <2>2. C # {}
    OBVIOUS
  <2>. HIDE DEF C
  <2>. QED
    BY <1>1, <2>1, <2>2, WFMin
<1>3. PICK x \in T : c = 0 .. x
  BY <1>2
<1>4. ASSUME NEW y \in T, y < x PROVE FALSE
  <2>1. 0 .. y \in C /\ 0 .. y \subseteq Nat /\ c \subseteq Nat
    BY <1>3
  <2>2. 0 .. y \subseteq c /\ 0 .. y # c
    BY <1>3, <1>4
  <2>. QED
    BY <1>2, <2>1, <2>2 DEF StrictSubsetOrdering
<1>. QED
  BY <1>4

\* f[m] is what the first m of the functions F make of s, up to the place l.
IsIteration(f, F, s, S, l) ==
  /\ f \in [0 .. l -> S]
  /\ f[0] = s
  /\ \A m \in 1 .. l : f[m] = F[m][f[m - 1]]

\* The results of applying functions one after the other exist.
LEMMA IterationExists ==
  ASSUME NEW S, NEW s \in S, NEW L \in Nat, NEW F \in [1 .. L -> [S -> S]]
  PROVE  \E f : IsIteration(f, F, s, S, L)
<1>. DEFINE Bad == {l \in 0 .. L : ~ \E f : IsIteration(f, F, s, S, l)}
<1>1. ASSUME Bad # {} PROVE FALSE
  <2>1. PICK l \in Bad : \A k \in Bad : l <= k
    <3>1. Bad \subseteq Nat
      OBVIOUS
    <3>. QED
      BY <1>1, <3>1, LeastNatural
  <2>2. l \in 0 .. L /\ ~ \E f : IsIteration(f, F, s, S, l)
    BY <2>1
  <2>3. l # 0
    <3>1. IsIteration([m \in 0 .. 0 |-> s], F, s, S, 0)
      BY DEF IsIteration
    <3>. QED
      BY <2>2, <3>1
  <2>4. l - 1 \in 0 .. L /\ l - 1 \notin Bad
    BY <2>1, <2>2, <2>3
  <2>5. PICK f : IsIteration(f, F, s, S, l - 1)
    BY <2>4
  <2>. DEFINE g == [m \in 0 .. l |-> IF m = l THEN F[l][f[l - 1]] ELSE f[m]]
  <2>6. f[l - 1] \in S /\ F[l][f[l - 1]] \in S
    <3>1. f[l - 1] \in S
      BY <2>2, <2>3, <2>5 DEF IsIteration
    <3>2. F[l] \in [S -> S]
      BY <2>2, <2>3
    <3>. QED
      BY <3>1, <3>2
  <2>7. g \in [0 .. l -> S] /\ g[0] = s
    BY <2>2, <2>3, <2>5, <2>6 DEF IsIteration
  <2>8. ASSUME NEW m \in 1 .. l PROVE g[m] = F[m][g[m - 1]]
    BY <2>2, <2>3, <2>5 DEF IsIteration
  <2>9. IsIteration(g, F, s, S, l)
    <3>. HIDE DEF g
    <3>. QED
      BY <2>7, <2>8 DEF IsIteration
  <2>. QED
    BY <2>2, <2>9
<1>2. Bad = {}
  <2>. HIDE DEF Bad
  <2>. QED
    BY <1>1, Zenon
<1>3. L \in 0 .. L
  OBVIOUS
<1>. QED
  BY <1>2, <1>3

\* f[m] is the sum of the first m numbers of t, up to the place l.
IsSum(f, t, l) ==
  /\ f \in [0 .. l -> Int]
  /\ f[0] = 0
  /\ \A m \in 1 .. l : f[m] = f[m - 1] + t[m]

\* The sums of a list of numbers exist.
LEMMA SumExists ==
  ASSUME NEW L \in Nat, NEW t \in [1 .. L -> Int]
  PROVE  \E f : IsSum(f, t, L)
<1>. DEFINE F == [m \in 1 .. L |-> [x \in Int |-> x + t[m]]]
<1>1. F \in [1 .. L -> [Int -> Int]]
  OBVIOUS
<1>2. \A m \in 1 .. L, x \in Int : F[m][x] = x + t[m]
  OBVIOUS
<1>. HIDE DEF F
<1>3. 0 \in Int
  OBVIOUS
<1>4. PICK f : IsIteration(f, F, 0, Int, L)
  BY <1>1, <1>3, IterationExists, Zenon
<1>5. /\ f \in [0 .. L -> Int] /\ f[0] = 0
      /\ \A m \in 1 .. L : f[m] = F[m][f[m - 1]]
  BY <1>4, Zenon DEF IsIteration
<1>6. \A m \in 1 .. L : f[m] = f[m - 1] + t[m]
  <2>. SUFFICES ASSUME NEW m \in 1 .. L PROVE f[m] = f[m - 1] + t[m]
    OBVIOUS
  <2>1. m - 1 \in 0 .. L
    OBVIOUS
  <2>2. f[m - 1] \in Int
    BY <1>5, <2>1, Zenon
  <2>3. F[m][f[m - 1]] = f[m - 1] + t[m]
    BY <1>2, <2>2, Zenon
  <2>. QED
    BY <1>5, <2>3, Zenon
<1>. QED
  BY <1>5, <1>6, Zenon DEF IsSum

\* Two sums of numbers that agree up to a place agree up to that place.
LEMMA SumsAgree ==
  ASSUME NEW n \in Nat, NEW f, NEW g, f[0] = g[0],
         \A m \in 1 .. n : f[m - 1] = g[m - 1] => f[m] = g[m]
  PROVE  \A m \in 0 .. n : f[m] = g[m]
<1>. DEFINE Bad == {m \in 0 .. n : f[m] # g[m]}
<1>1. ASSUME Bad # {} PROVE FALSE
  <2>1. Bad \subseteq Nat
    OBVIOUS
  <2>2. PICK m \in Bad : \A k \in Bad : m <= k
    BY <1>1, <2>1, LeastNatural
  <2>3. m \in 1 .. n
    BY <2>2
  <2>4. m - 1 \in 0 .. n /\ m - 1 \notin Bad
    BY <2>2, <2>3
  <2>. QED
    BY <2>2, <2>3, <2>4
<1>. QED
  BY <1>1
===============================================================================
