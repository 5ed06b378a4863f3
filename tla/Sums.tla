------------------------------- MODULE Sums -------------------------------
(***************************************************************************)
(* What the proofs need of sums over the entries of a table: that they      *)
(* exist, do not depend on how they are formed, grow with the numbers and   *)
(* with one number by as much.  A sum is defined by its partial sums, and   *)
(* what holds of it is shown at the least place where it could fail.        *)
(***************************************************************************)
EXTENDS Integers, WellFoundedInduction, TLAPS

\* s[n] is the sum of the first n of the numbers h[1], h[2], ...
PartialSums(s, h, n) ==
  /\ s \in [0 .. n -> Nat]
  /\ s[0] = 0
  /\ \A i \in 1 .. n : s[i] = s[i - 1] + h[i]

\* The sum of h[1] .. h[n].
SumTo(h, n) ==
  LET sum[i \in 0 .. n] == IF i = 0 THEN 0 ELSE sum[i - 1] + h[i]
  IN  sum[n]

\* A non-empty set of naturals has a least member.
LEMMA LeastNatural ==
  ASSUME NEW T, T \subseteq Nat, T # {}
  PROVE  \E n \in T : \A m \in T : n <= m
<1> DEFINE R == OpToRel(<, Nat)
<1>1. IsWellFoundedOn(R, Nat)
  BY NatLessThanWellFounded
<1> HIDE DEF R
<1>2. PICK n \in T : \A m \in T : ~ (<<m, n>> \in R)
  BY <1>1, WFMin
<1>3. \A m \in T : m < n => <<m, n>> \in R
  BY DEF R, OpToRel
<1>4. \A m \in T : ~ (m < n)
  BY <1>2, <1>3
<1>5. \A m \in T : m \in Nat /\ n \in Nat
  OBVIOUS
<1> QED
  BY <1>4, <1>5

\* A set of places that holds 0 and, with a place, the next one holds them all.
LEMMA EveryPlace ==
  ASSUME NEW n \in Nat, NEW G, 0 \in G,
         \A i \in 1 .. n : i - 1 \in G => i \in G
  PROVE  0 .. n \subseteq G
<1> DEFINE T == {i \in 0 .. n : i \notin G}
<1> SUFFICES ASSUME T # {} PROVE FALSE
  OBVIOUS
<1>1. T \subseteq Nat
  OBVIOUS
<1>2. PICK i \in T : \A j \in T : i <= j
  BY <1>1, LeastNatural
<1>3. i \in 1 .. n /\ i - 1 \in 0 .. n /\ ~ (i <= i - 1)
  BY <1>2
<1>4. i - 1 \in G
  BY <1>2, <1>3
<1> QED
  BY <1>2, <1>3, <1>4

\* There are partial sums of any naturals.
LEMMA SumsExist ==
  ASSUME NEW n \in Nat, NEW h, \A i \in 1 .. n : h[i] \in Nat
  PROVE  \E s : PartialSums(s, h, n)
<1> DEFINE G == {m \in 0 .. n : \E s : PartialSums(s, h, m)}
<1>1. 0 \in G
  <2>1. PartialSums([i \in 0 .. 0 |-> 0], h, 0)
    BY DEF PartialSums
  <2> QED
    BY <2>1
<1>2. ASSUME NEW i \in 1 .. n, i - 1 \in G PROVE i \in G
  <2>1. PICK s : PartialSums(s, h, i - 1)
    BY <1>2
  <2> DEFINE r == [j \in 0 .. i |-> IF j = i THEN s[i - 1] + h[i] ELSE s[j]]
  <2>2. \A j \in 0 .. i - 1 : r[j] = s[j] /\ s[j] \in Nat
    BY <2>1 DEF PartialSums
  <2>3. r[i] = r[i - 1] + h[i] /\ r[i] \in Nat
    <3>1. /\ i \in 0 .. i /\ i - 1 \in 0 .. i - 1 /\ i - 1 \in 0 .. i
          /\ h[i] \in Nat
      OBVIOUS
    <3>2. r[i] = s[i - 1] + h[i] /\ r[i - 1] = s[i - 1] /\ s[i - 1] \in Nat
      BY <2>2, <3>1
    <3> QED
      BY <3>1, <3>2
  <2>4. r \in [0 .. i -> Nat]
    <3>1. \A j \in 0 .. i : j = i \/ j \in 0 .. i - 1
      OBVIOUS
    <3>2. \A j \in 0 .. i : r[j] \in Nat
      BY <2>2, <2>3, <3>1
    <3> QED
      BY <3>2
  <2>5. \A j \in 1 .. i : r[j] = r[j - 1] + h[j]
    <3> SUFFICES ASSUME NEW j \in 1 .. i PROVE r[j] = r[j - 1] + h[j]
      OBVIOUS
    <3>1. CASE j = i
      BY <2>3, <3>1
    <3>2. CASE j # i
      <4>1. j \in 1 .. i - 1 /\ j - 1 \in 0 .. i - 1 /\ j \in 0 .. i - 1
        BY <3>2
      <4> QED
        BY <2>1, <2>2, <4>1 DEF PartialSums
    <3> QED
      BY <3>1, <3>2
  <2>6. PartialSums(r, h, i)
    <3>1. r[0] = 0
      BY <2>1, <2>2 DEF PartialSums
    <3> QED
      BY <2>4, <2>5, <3>1 DEF PartialSums
  <2> QED
    BY <2>6
<1> HIDE DEF G
<1>3. 0 .. n \subseteq G
  BY <1>1, <1>2, EveryPlace
<1> QED
  BY <1>3 DEF G

\* Partial sums of smaller numbers are smaller.
LEMMA SumsOrdered ==
  ASSUME NEW n \in Nat, NEW h, NEW g, NEW s, NEW r,
         PartialSums(s, h, n), PartialSums(r, g, n),
         \A i \in 1 .. n : h[i] \in Nat /\ g[i] \in Nat /\ h[i] <= g[i]
  PROVE  s[n] <= r[n]
<1> DEFINE G == {i \in 0 .. n : s[i] <= r[i]}
<1>1. 0 \in G
  BY DEF PartialSums
<1>2. ASSUME NEW i \in 1 .. n, i - 1 \in G PROVE i \in G
  <2>1. /\ s[i - 1] \in Nat /\ r[i - 1] \in Nat /\ s[i - 1] <= r[i - 1]
        /\ s[i] = s[i - 1] + h[i] /\ r[i] = r[i - 1] + g[i]
    BY <1>2 DEF PartialSums
  <2> QED
    BY <2>1
<1> HIDE DEF G
<1>3. 0 .. n \subseteq G
  BY <1>1, <1>2, EveryPlace
<1> QED
  BY <1>3 DEF G

\* A function that is defined on 0 .. n from the place before, if there is one,
\* is the partial sums.
LEMMA SumsDefined ==
  ASSUME NEW n \in Nat, NEW h, \A i \in 1 .. n : h[i] \in Nat, NEW f,
         (\E g : g = [i \in 0 .. n |-> IF i = 0 THEN 0 ELSE g[i - 1] + h[i]])
           => f = [i \in 0 .. n |-> IF i = 0 THEN 0 ELSE f[i - 1] + h[i]]
  PROVE  PartialSums(f, h, n)
<1>1. PICK s : PartialSums(s, h, n)
  BY SumsExist
<1>2. s = [i \in 0 .. n |-> IF i = 0 THEN 0 ELSE s[i - 1] + h[i]]
  <2>1. DOMAIN s = 0 .. n /\ s = [i \in 0 .. n |-> s[i]]
    BY <1>1 DEF PartialSums
  <2>2. \A i \in 0 .. n : s[i] = IF i = 0 THEN 0 ELSE s[i - 1] + h[i]
    <3>1. \A i \in 0 .. n : i = 0 \/ i \in 1 .. n
      OBVIOUS
    <3> QED
      BY <1>1, <3>1 DEF PartialSums
  <2> QED
    BY <2>1, <2>2
<1>3. f = [i \in 0 .. n |-> IF i = 0 THEN 0 ELSE f[i - 1] + h[i]]
  BY <1>2
<1> DEFINE G == {i \in 0 .. n : f[i] \in Nat}
<1>4. f[0] = 0 /\ \A i \in 1 .. n : f[i] = f[i - 1] + h[i]
  <2>1. 0 \in 0 .. n /\ \A i \in 1 .. n : i \in 0 .. n /\ i # 0
    OBVIOUS
  <2> QED
    BY <1>3, <2>1
<1>5. 0 \in G /\ \A i \in 1 .. n : i - 1 \in G => i \in G
  BY <1>4
<1>6. f \in [0 .. n -> Nat]
  <2> HIDE DEF G
  <2>1. 0 .. n \subseteq G
    BY <1>5, EveryPlace
  <2>2. \A i \in 0 .. n : f[i] \in Nat
    BY <2>1 DEF G
  <2>3. f = [i \in 0 .. n |-> f[i]]
    BY <1>3
  <2> QED
    BY <2>2, <2>3
<1> QED
  BY <1>4, <1>6 DEF PartialSums

\* The sum is what any partial sums end in.
LEMMA SumIs ==
  ASSUME NEW n \in Nat, NEW h, \A i \in 1 .. n : h[i] \in Nat,
         NEW s, PartialSums(s, h, n)
  PROVE  SumTo(h, n) = s[n] /\ s[n] \in Nat
<1> DEFINE f == CHOOSE g : g = [i \in 0 .. n |->
                                  IF i = 0 THEN 0 ELSE g[i - 1] + h[i]]
<1>1. SumTo(h, n) = f[n]
  BY DEF SumTo
<1>2. PartialSums(f, h, n)
  BY SumsDefined
<1> HIDE DEF f
<1>3. s[n] <= f[n] /\ f[n] <= s[n]
  BY <1>2, SumsOrdered
<1>4. s[n] \in Nat /\ f[n] \in Nat
  BY <1>2 DEF PartialSums
<1> QED
  BY <1>1, <1>3, <1>4

\* Sums of smaller numbers are smaller.
LEMMA SumOrdered ==
  ASSUME NEW n \in Nat, NEW h, NEW g,
         \A i \in 1 .. n : h[i] \in Nat /\ g[i] \in Nat /\ h[i] <= g[i]
  PROVE  /\ SumTo(h, n) \in Nat /\ SumTo(g, n) \in Nat
         /\ SumTo(h, n) <= SumTo(g, n)
<1>1. PICK s : PartialSums(s, h, n)
  BY SumsExist
<1>2. PICK r : PartialSums(r, g, n)
  BY SumsExist
<1> QED
  BY <1>1, <1>2, SumIs, SumsOrdered

\* Sums of the same numbers are the same.
LEMMA SumSame ==
  ASSUME NEW n \in Nat, NEW h, NEW g,
         \A i \in 1 .. n : h[i] \in Nat /\ g[i] = h[i]
  PROVE  SumTo(h, n) = SumTo(g, n) /\ SumTo(h, n) \in Nat
<1>1. SumTo(h, n) <= SumTo(g, n) /\ SumTo(g, n) <= SumTo(h, n)
  BY SumOrdered
<1>2. SumTo(h, n) \in Nat /\ SumTo(g, n) \in Nat
  BY SumOrdered
<1> QED
  BY <1>1, <1>2

\* Zeros add up to zero.
LEMMA SumOfZeros ==
  ASSUME NEW n \in Nat, NEW h, \A i \in 1 .. n : h[i] = 0
  PROVE  SumTo(h, n) = 0
<1> DEFINE s == [i \in 0 .. n |-> 0]
<1>1. PartialSums(s, h, n)
  BY DEF PartialSums
<1> QED
  BY <1>1, SumIs

\* Of n naturals h, g has one that is greater by d.
GrownAt(g, h, n, k, d) ==
  /\ \A i \in 1 .. n : h[i] \in Nat
  /\ g[k] = h[k] + d
  /\ \A i \in 1 .. n \ {k} : g[i] = h[i]

\* With one of the numbers the sum grows by as much.
LEMMA SumGrows ==
  ASSUME NEW n \in Nat, NEW h, NEW g, NEW k \in 1 .. n, NEW d \in Nat,
         GrownAt(g, h, n, k, d)
  PROVE  SumTo(g, n) = SumTo(h, n) + d /\ SumTo(h, n) \in Nat
<1> USE DEF GrownAt
<1>1. PICK s : PartialSums(s, h, n)
  BY SumsExist
<1> DEFINE r == [i \in 0 .. n |-> IF i < k THEN s[i] ELSE s[i] + d]
<1>2. /\ \A i \in 0 .. n : s[i] \in Nat
      /\ \A i \in 1 .. n : g[i] = IF i = k THEN h[i] + d ELSE h[i]
  BY <1>1 DEF PartialSums
<1>3. PartialSums(r, g, n)
  <2>1. r \in [0 .. n -> Nat] /\ r[0] = 0
    BY <1>1, <1>2 DEF PartialSums
  <2>2. ASSUME NEW i \in 1 .. n PROVE r[i] = r[i - 1] + g[i]
    <3>1. /\ i \in 0 .. n /\ i - 1 \in 0 .. n
          /\ s[i] = s[i - 1] + h[i] /\ s[i - 1] \in Nat /\ h[i] \in Nat
      BY <1>1, <1>2 DEF PartialSums
    <3>2. /\ r[i] = IF i < k THEN s[i] ELSE s[i] + d
          /\ r[i - 1] = IF i - 1 < k THEN s[i - 1] ELSE s[i - 1] + d
      BY <3>1
    <3> QED
      BY <3>1, <3>2
  <2> QED
    BY <2>1, <2>2 DEF PartialSums
<1>4. r[n] = s[n] + d /\ \A i \in 1 .. n : g[i] \in Nat
  OBVIOUS
<1> HIDE DEF r
<1> QED
  BY <1>1, <1>3, <1>4, SumIs

============================================================================
