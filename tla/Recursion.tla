----------------------------- MODULE Recursion ------------------------------
(***************************************************************************)
(* Induction over numbers in a form the provers can use: about sets and    *)
(* functions where the library's theorems have operators for parameters.   *)
(* With it what a recursive function of a model computes can be proved.    *)
(***************************************************************************)
EXTENDS WellFoundedInduction, TLAPS

(* A set of numbers has a least one.                                       *)
LEMMA LeastNumber ==
  ASSUME NEW T \in SUBSET Nat, T # {}
  PROVE  \E m \in T : \A k \in T : m <= k
<1> DEFINE R == {ss \in Nat \X Nat : ss[1] < ss[2]}
<1>1. IsWellFoundedOn(R, Nat)
  BY NatLessThanWellFounded DEF OpToRel
<1>2. \A x, y \in Nat : y < x => <<y, x>> \in R
  OBVIOUS
<1> HIDE DEF R
<1>3. PICK m \in T : \A k \in T : ~ (<<k, m>> \in R)
  BY <1>1, WFMin
<1>4. \A k \in T : ~ (k < m)
  BY <1>2, <1>3
<1> QED BY <1>4

(* What holds of 0, and of i + 1 if of i, holds up to n.                   *)
LEMMA UpTo ==
  ASSUME NEW n \in Nat, NEW T, 0 \in T, \A i \in 0..(n - 1) : i \in T => i + 1 \in T
  PROVE  \A i \in 0..n : i \in T
<1> SUFFICES ASSUME \E i \in 0..n : i \notin T PROVE FALSE
  OBVIOUS
<1> DEFINE Out == {i \in 0..n : i \notin T}
<1>1. Out \in SUBSET Nat /\ Out # {}
  OBVIOUS
<1>2. PICK m \in Out : \A k \in Out : m <= k
  BY <1>1, LeastNumber
<1>3. m \in Nat /\ m # 0 /\ m - 1 \in 0..(n - 1) /\ m - 1 \in T
  BY <1>2
<1>4. m - 1 + 1 = m
  BY <1>3
<1> QED BY <1>2, <1>3, <1>4

(* The ways from each step to the next, and a function that follows them.  *)
Ways(n, V) == [1..n -> [V -> V]]

Follows(f, n, V, base, way) ==
  f \in [0..n -> V] /\ f[0] = base /\ \A i \in 1..n : f[i] = way[i][f[i - 1]]

(* A function of 0..n can be defined by its value for 0 and by how each    *)
(* value follows from the one before.                                      *)
LEMMA StepByStep ==
  ASSUME NEW n \in Nat, NEW V, NEW base \in V, NEW way \in Ways(n, V)
  PROVE  \E f : Follows(f, n, V, base, way)
<1> DEFINE Good(f, m) == f \in [0..m -> V] /\ f[0] = base /\ \A i \in 1..m : f[i] = way[i][f[i - 1]]
           T == {m \in 0..n : \E f : Good(f, m)}
<1>0. \A i \in 1..n : way[i] \in [V -> V]
  BY DEF Ways
<1>1. 0 \in T
  <2>1. PICK f : f = [i \in 0..0 |-> base]
    OBVIOUS
  <2>2. Good(f, 0)
    BY <2>1
  <2> HIDE DEF Good
  <2> QED BY <2>2
<1>2. ASSUME NEW m \in 0..(n - 1), m \in T PROVE m + 1 \in T
  <2>1. PICK f : Good(f, m)
    BY <1>2
  <2>2. PICK g : g = [i \in 0..(m + 1) |-> IF i = m + 1 THEN way[m + 1][f[m]] ELSE f[i]]
    OBVIOUS
  <2>3. g \in [0..(m + 1) -> V] /\ g[0] = base
    <3>1. f[m] \in V /\ m + 1 \in 1..n
      BY <2>1
    <3>2. way[m + 1][f[m]] \in V
      BY <1>0, <3>1
    <3> QED BY <2>1, <2>2, <3>2
  <2>4. \A i \in 1..(m + 1) : g[i] = way[i][g[i - 1]]
    <3>1. g[m + 1] = way[m + 1][f[m]] /\ \A i \in 0..m : g[i] = f[i]
      BY <2>2
    <3>2. \A i \in 1..(m + 1) : i - 1 \in 0..m /\ (i \in 1..m \/ i = m + 1)
      OBVIOUS
    <3>3. m + 1 - 1 = m
      OBVIOUS
    <3> QED BY <2>1, <3>1, <3>2, <3>3
  <2>5. Good(g, m + 1) /\ m + 1 \in 0..n
    BY <2>3, <2>4
  <2> HIDE DEF Good
  <2> QED BY <2>5
<1> HIDE DEF T
<1>3. \A i \in 0..n : i \in T
  BY <1>1, <1>2, UpTo
<1>4. \E f : Good(f, n)
  BY <1>3 DEF T
<1> QED BY <1>4 DEF Follows
=============================================================================
