--------------------------- MODULE DataInduction ----------------------------
(***************************************************************************)
(* Induction over numbers for the proofs of this project, in a form that   *)
(* first-order provers can use: the statements take sets and functions     *)
(* where those of the library's induction modules take operators.  And     *)
(* what is left of a sequence when an element is removed.                  *)
(***************************************************************************)
EXTENDS Naturals, SequencesExt, WellFoundedInduction, SequenceTheorems, TLAPS

(* A set of numbers that is not empty has a least one: what Min of a set   *)
(* of indices or of identifiers rests on.                                  *)
THEOREM LeastNumber ==
    ASSUME NEW T \in SUBSET Nat, T # {}
    PROVE  \E m \in T : \A n \in T : m <= n
<1>1. \E R : IsWellFoundedOn(R, Nat) /\ \A x, y \in Nat : x < y => <<x, y>> \in R
  <2>1. \A x, y \in Nat : x < y => <<x, y>> \in OpToRel(<, Nat)
    BY DEF OpToRel
  <2> QED
    BY <2>1, NatLessThanWellFounded, Zenon
<1>2. PICK R : IsWellFoundedOn(R, Nat) /\ \A x, y \in Nat : x < y => <<x, y>> \in R
  BY <1>1
<1>3. PICK m \in T : \A n \in T : ~(<<n, m>> \in R)
  <2>1. T \subseteq Nat
    OBVIOUS
  <2>2. IsWellFoundedOn(R, Nat)
    BY <1>2, Zenon
  <2> QED
    BY <2>1, <2>2, WFMin
<1>4. ASSUME NEW n \in T PROVE m <= n
  <2>1. n \in Nat /\ m \in Nat
    OBVIOUS
  <2>2. ~(n < m)
    BY <1>2, <1>3, <2>1, Zenon
  <2> QED
    BY <2>1, <2>2
<1> QED
  BY <1>3, <1>4

(* What holds of 0 and is passed on to the next number holds of all: T is  *)
(* the set of numbers of which it holds.                                   *)
THEOREM SetInduction ==
    ASSUME NEW T, 0 \in T, \A n \in Nat : n \in T => n + 1 \in T
    PROVE  Nat \subseteq T
<1> DEFINE B == Nat \ T
<1> SUFFICES ASSUME B # {} PROVE FALSE
  OBVIOUS
<1>1. PICK m \in B : \A n \in B : m <= n
  BY LeastNumber, B \in SUBSET Nat
<1>2. m \in Nat /\ m # 0 /\ m \notin T
  OBVIOUS
<1>3. m - 1 \in Nat /\ m - 1 < m /\ (m - 1) + 1 = m
  BY <1>2
<1>4. m - 1 \in T
  BY <1>1, <1>2, <1>3
<1> QED
  BY <1>2, <1>3, <1>4

(* The steps of a loop over 1..n, each of which stays in S, and the values *)
(* that it takes from base on.  (Where the theorems about them are cited   *)
(* these definitions stay folded, for the provers to match them.)          *)
Steps(step, n, S) == n \in Nat /\ step \in [1..n -> [S -> S]]

Loop(f, n, S, base, step) ==
    f \in [0..n -> S] /\ f[0] = base /\ \A i \in 1..n : f[i] = step[i][f[i - 1]]

(* A loop that begins in S has values.                                     *)
THEOREM LoopExists ==
    ASSUME NEW n, NEW S, NEW base \in S, NEW step, Steps(step, n, S)
    PROVE  \E f : Loop(f, n, S, base, step)
<1> DEFINE L(m, f) == f[0] = base /\ \A i \in 1..m : f[i] = step[i][f[i - 1]]
           T == {m \in Nat : m <= n => \E f \in [0..m -> S] : L(m, f)}
<1>0. n \in Nat /\ step \in [1..n -> [S -> S]]
  BY DEF Steps
<1>1. 0 \in T
  <2>1. [i \in 0..0 |-> base] \in [0..0 -> S]
    OBVIOUS
  <2>2. L(0, [i \in 0..0 |-> base])
    OBVIOUS
  <2> QED
    BY <2>1, <2>2
<1>2. ASSUME NEW m \in Nat, m \in T PROVE m + 1 \in T
  <2> SUFFICES ASSUME m + 1 <= n PROVE \E f \in [0..(m + 1) -> S] : L(m + 1, f)
    OBVIOUS
  <2>1. m <= n /\ m + 1 \in 1..n
    BY <1>0
  <2>2. PICK f \in [0..m -> S] : L(m, f)
    BY <1>2, <2>1
  <2> DEFINE v == step[m + 1][f[m]]
             g == [i \in 0..(m + 1) |-> IF i = m + 1 THEN v ELSE f[i]]
  <2>3. f[m] \in S
    OBVIOUS
  <2>4. v \in S
    BY <1>0, <2>1, <2>3
  <2> HIDE DEF v
  <2>5. g \in [0..(m + 1) -> S]
    BY <2>4
  <2>6. g[0] = base
    BY <2>2
  <2>7. ASSUME NEW i \in 1..(m + 1) PROVE g[i] = step[i][g[i - 1]]
    <3>1. CASE i = m + 1
      <4>1. i - 1 = m /\ m \in 0..(m + 1) /\ m # m + 1
        BY <3>1
      <4>2. g[i - 1] = f[m]
        BY <4>1
      <4> QED
        BY <3>1, <4>1, <4>2 DEF v
    <3>2. CASE i \in 1..m
      <4>1. i \in 0..(m + 1) /\ i # m + 1 /\ i - 1 \in 0..(m + 1) /\ i - 1 # m + 1
        BY <3>2
      <4>2. g[i] = f[i] /\ g[i - 1] = f[i - 1]
        BY <4>1
      <4> QED
        BY <2>2, <3>2, <4>2
    <3> QED
      BY <3>1, <3>2
  <2> HIDE DEF g
  <2> QED
    BY <2>5, <2>6, <2>7
<1>3. n \in T
  <2> HIDE DEF T
  <2> QED
    BY <1>0, <1>1, <1>2, SetInduction
<1> QED
  BY <1>0, <1>3 DEF Loop

(* Two loops of n steps that begin alike, and go on alike as long as they  *)
(* are alike.                                                              *)
Alike(g, f, n) == g[0] = f[0] /\ \A i \in 1..n : g[i - 1] = f[i - 1] => g[i] = f[i]

(* They end alike.                                                         *)
THEOREM LoopUnique ==
    ASSUME NEW n \in Nat, NEW f, NEW g, Alike(g, f, n)
    PROVE  g[n] = f[n]
<1> DEFINE T == {i \in Nat : i <= n => g[i] = f[i]}
<1>1. 0 \in T
  BY DEF Alike
<1>2. ASSUME NEW m \in Nat, m \in T PROVE m + 1 \in T
  <2> SUFFICES ASSUME m + 1 <= n PROVE g[m + 1] = f[m + 1]
    OBVIOUS
  <2>1. m <= n /\ m + 1 \in 1..n /\ (m + 1) - 1 = m
    OBVIOUS
  <2>2. g[m] = f[m]
    BY <1>2, <2>1
  <2> QED
    BY <2>1, <2>2 DEF Alike
<1>3. Nat \subseteq T
  <2> HIDE DEF T
  <2> QED
    BY <1>1, <1>2, SetInduction
<1> QED
  BY <1>3

(* RemoveAt, index by index.                                               *)
THEOREM RemoveAtIndices ==
    ASSUME NEW S, NEW z \in Seq(S), NEW i \in 1..Len(z)
    PROVE  /\ RemoveAt(z, i) \in Seq(S) /\ Len(RemoveAt(z, i)) = Len(z) - 1
           /\ \A j \in 1..(Len(z) - 1) : RemoveAt(z, i)[j] = IF j < i THEN z[j] ELSE z[j + 1]
<1> DEFINE a == SubSeq(z, 1, i - 1)
           b == SubSeq(z, i + 1, Len(z))
<1>1. /\ a \in Seq(S) /\ Len(a) = i - 1 /\ \A j \in 1..(i - 1) : a[j] = z[j]
  BY SubSeqProperties
<1>2. /\ b \in Seq(S) /\ Len(b) = Len(z) - i /\ \A j \in 1..(Len(z) - i) : b[j] = z[j + i]
  BY SubSeqProperties
<1> HIDE DEF a, b
<1>3. /\ a \o b \in Seq(S) /\ Len(a \o b) = Len(z) - 1
      /\ \A j \in 1..(Len(z) - 1) : (a \o b)[j] = IF j < i THEN z[j] ELSE z[j + 1]
  <2>1. Len(z) \in Nat /\ i \in Nat /\ i >= 1 /\ i <= Len(z)
    BY LenProperties
  <2>2. /\ a \o b \in Seq(S) /\ Len(a \o b) = Len(a) + Len(b)
        /\ \A j \in 1..(Len(a) + Len(b)) :
              (a \o b)[j] = IF j <= Len(a) THEN a[j] ELSE b[j - Len(a)]
    BY <1>1, <1>2, ConcatProperties
  <2>4. Len(a) = i - 1 /\ Len(a) + Len(b) = Len(z) - 1
    BY <1>1, <1>2, <2>1
  <2>3. ASSUME NEW j \in 1..(Len(z) - 1)
        PROVE  (a \o b)[j] = IF j < i THEN z[j] ELSE z[j + 1]
    <3>1. CASE j < i
      BY <1>1, <2>1, <2>2, <2>4, <3>1
    <3>2. CASE ~(j < i)
      <4>1. j - (i - 1) \in 1..(Len(z) - i) /\ (j - (i - 1)) + i = j + 1 /\ ~(j <= i - 1)
        BY <2>1, <3>2
      <4> QED
        BY <1>2, <2>1, <2>2, <2>4, <3>2, <4>1
    <3> QED
      BY <3>1, <3>2
  <2> QED
    BY <2>2, <2>3, <2>4
<1>4. RemoveAt(z, i) = a \o b
  BY DEF RemoveAt, a, b
<1> QED
  BY <1>3, <1>4

=============================================================================
