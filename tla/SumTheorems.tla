------------------------------ MODULE SumTheorems ------------------------------
(***************************************************************************)
(* Facts about module Sums.  Induction is done by the least counterexample *)
(* (the well-foundedness of Nat), which needs no operator parameter.       *)
(***************************************************************************)
EXTENDS Sums, FiniteSetTheorems, WellFoundedInduction, TLAPS

(* A set of naturals that contains 0 and is closed under successor up to n *)
(* contains 0 .. n.                                                        *)
LEMMA IntervalInduction ==
    ASSUME NEW n \in Nat, NEW B,
           0 \in B,
           \A k \in 0 .. n - 1 : k \in B => k + 1 \in B
    PROVE  0 .. n \subseteq B
<1> DEFINE C == {k \in 0 .. n : k \notin B}
<1>1. SUFFICES ASSUME C # {} PROVE FALSE
  OBVIOUS
<1>2. PICK m \in C : \A k \in C : ~ (<<k, m>> \in OpToRel(<, Nat))
  <2>1. C \subseteq Nat
    OBVIOUS
  <2> HIDE DEF C
  <2> QED
    BY <1>1, <2>1, NatLessThanWellFounded, WFMin
<1>3. ASSUME NEW k \in C PROVE ~ (k < m)
  <2>1. <<k, m>> \in Nat \X Nat
    OBVIOUS
  <2>2. <<k, m>>[1] = k /\ <<k, m>>[2] = m
    OBVIOUS
  <2>3. ~ (<<k, m>> \in OpToRel(<, Nat))
    BY <1>2
  <2> HIDE DEF C
  <2> QED
    BY <2>1, <2>2, <2>3, Zenon DEF OpToRel
<1>4. m - 1 \in 0 .. n - 1 /\ m - 1 \notin C
  BY <1>3
<1> QED
  BY <1>4

(* The function s holds the partial sums of f up to n. *)
IsPartialSums(s, f, n) ==
    /\ s \in [0 .. n -> Int]
    /\ s[0] = 0
    /\ \A k \in 1 .. n : s[k] = s[k - 1] + f[k]

LEMMA ExtendPartialSums ==
    ASSUME NEW m \in Nat, NEW n \in Nat, m < n, NEW f \in [1 .. n -> Int],
           NEW s, IsPartialSums(s, f, m)
    PROVE  \E t : IsPartialSums(t, f, m + 1)
<1> DEFINE t == [k \in 0 .. m + 1 |-> IF k = m + 1 THEN s[m] + f[m + 1] ELSE s[k]]
<1>1. s \in [0 .. m -> Int] /\ s[0] = 0 /\ \A k \in 1 .. m : s[k] = s[k - 1] + f[k]
  BY DEF IsPartialSums
<1>2. t[0] = 0 /\ t \in [0 .. m + 1 -> Int]
  <2>1. s[m] \in Int /\ f[m + 1] \in Int
    BY <1>1
  <2> QED
    BY <1>1, <2>1
<1>3. ASSUME NEW k \in 1 .. m + 1
      PROVE  t[k] = t[k - 1] + f[k]
  <2>1. t[k - 1] = s[k - 1]
    OBVIOUS
  <2>2. CASE k = m + 1
    BY <2>1, <2>2
  <2>3. CASE k \in 1 .. m
    <3>1. t[k] = s[k]
      BY <2>3
    <3> QED
      BY <1>1, <2>1, <2>3, <3>1
  <2> QED
    BY <2>2, <2>3
<1>4. IsPartialSums(t, f, m + 1)
  <2> HIDE DEF t
  <2> QED
    BY <1>2, <1>3 DEF IsPartialSums
<1> QED
  BY <1>4

(* The recursive definition of PartialSums has a solution. *)
LEMMA PartialSumsExist ==
    ASSUME NEW n \in Nat, NEW f \in [1 .. n -> Int]
    PROVE  \E s \in [0 .. n -> Int] :
              s = [k \in 0 .. n |-> IF k = 0 THEN 0 ELSE s[k - 1] + f[k]]
<1> DEFINE B == {m \in 0 .. n : \E s : IsPartialSums(s, f, m)}
<1>1. 0 \in B
  <2>1. IsPartialSums([k \in 0 .. 0 |-> 0], f, 0)
    BY DEF IsPartialSums
  <2>2. 0 \in 0 .. n
    OBVIOUS
  <2> QED
    BY <2>1, <2>2, Zenon
<1>2. ASSUME NEW m \in 0 .. n - 1, m \in B
      PROVE  m + 1 \in B
  <2>1. m \in Nat /\ m < n /\ m + 1 \in 0 .. n
    OBVIOUS
  <2>2. PICK s : IsPartialSums(s, f, m)
    BY <1>2, Zenon
  <2>3. \E t : IsPartialSums(t, f, m + 1)
    BY <2>1, <2>2, ExtendPartialSums
  <2> QED
    BY <2>1, <2>3, Zenon
<1>3. n \in B
  <2>1. n \in 0 .. n
    OBVIOUS
  <2> HIDE DEF B
  <2> QED
    BY <1>1, <1>2, <2>1, IntervalInduction
<1>4. PICK s : IsPartialSums(s, f, n)
  BY <1>3, Zenon
<1>5. s = [k \in 0 .. n |-> IF k = 0 THEN 0 ELSE s[k - 1] + f[k]]
  <2>1. \A k \in 0 .. n : s[k] = IF k = 0 THEN 0 ELSE s[k - 1] + f[k]
    BY <1>4 DEF IsPartialSums
  <2> QED
    BY <1>4, <2>1 DEF IsPartialSums
<1> QED
  BY <1>4, <1>5 DEF IsPartialSums

LEMMA PartialSumsEquation ==
    ASSUME NEW n \in Nat, NEW f \in [1 .. n -> Int]
    PROVE  PartialSums(f, n)
             = [k \in 0 .. n |-> IF k = 0 THEN 0 ELSE PartialSums(f, n)[k - 1] + f[k]]
<1>1. PICK s \in [0 .. n -> Int] :
          s = [k \in 0 .. n |-> IF k = 0 THEN 0 ELSE s[k - 1] + f[k]]
  BY PartialSumsExist
<1> QED
  BY <1>1, Zenon DEF PartialSums

(* Any sequence of partial sums ends in the sum: the sum is unique. *)
LEMMA SumUnique ==
    ASSUME NEW n \in Nat, NEW f \in [1 .. n -> Int], NEW s,
           s[0] = 0,
           \A k \in 1 .. n : s[k] = s[k - 1] + f[k]
    PROVE  \A k \in 0 .. n : PartialSums(f, n)[k] = s[k] /\ s[k] \in Int
<1> DEFINE B == {k \in 0 .. n : PartialSums(f, n)[k] = s[k] /\ s[k] \in Int}
<1>0. \A k \in 0 .. n : PartialSums(f, n)[k]
                          = IF k = 0 THEN 0 ELSE PartialSums(f, n)[k - 1] + f[k]
  BY PartialSumsEquation, Zenon
<1>1. 0 \in B
  BY <1>0
<1>2. ASSUME NEW k \in 0 .. n - 1, k \in B
      PROVE  k + 1 \in B
  <2>1. k + 1 \in 1 .. n /\ k + 1 - 1 = k
    OBVIOUS
  <2>2. s[k + 1] = s[k] + f[k + 1]
    BY <2>1
  <2>3. PartialSums(f, n)[k + 1] = PartialSums(f, n)[k] + f[k + 1]
    BY <1>0, <2>1
  <2> QED
    BY <1>2, <2>1, <2>2, <2>3
<1>3. 0 .. n \subseteq B
  <2> HIDE DEF B
  <2> QED
    BY <1>1, <1>2, IntervalInduction
<1> QED
  BY <1>3

(* The sum is an integer, and it obeys the recursion. *)
LEMMA PartialSumsFacts ==
    ASSUME NEW n \in Nat, NEW f \in [1 .. n -> Int]
    PROVE  LET s == PartialSums(f, n)
           IN  /\ s[0] = 0
               /\ \A k \in 1 .. n : s[k] = s[k - 1] + f[k]
               /\ \A k \in 0 .. n : s[k] \in Int
<1> DEFINE s == PartialSums(f, n)
<1>1. \A k \in 0 .. n : s[k] = IF k = 0 THEN 0 ELSE s[k - 1] + f[k]
  BY PartialSumsEquation, Zenon
<1>2. s[0] = 0 /\ \A k \in 1 .. n : s[k] = s[k - 1] + f[k]
  BY <1>1
<1> HIDE DEF s
<1>3. \A k \in 0 .. n : s[k] \in Int
  BY <1>2, SumUnique
<1> QED
  BY <1>2, <1>3 DEF s

(* A sum of integers is an integer.  (Every model sum has a type.) *)
THEOREM SumToInt ==
    ASSUME NEW n \in Nat, NEW f \in [1 .. n -> Int]
    PROVE  SumTo(f, n) \in Int
BY PartialSumsFacts DEF SumTo

(* A sum of naturals is a natural: no quantity total goes below zero. *)
THEOREM SumToNat ==
    ASSUME NEW n \in Nat, NEW f \in [1 .. n -> Nat]
    PROVE  SumTo(f, n) \in Nat
<1> DEFINE s == PartialSums(f, n)
           B == {k \in 0 .. n : s[k] \in Nat}
<1>0. f \in [1 .. n -> Int]
  OBVIOUS
<1>1. s[0] = 0 /\ \A k \in 1 .. n : s[k] = s[k - 1] + f[k]
  BY <1>0, PartialSumsFacts
<1> HIDE DEF s
<1>2. 0 \in B
  BY <1>1
<1>3. ASSUME NEW k \in 0 .. n - 1, k \in B
      PROVE  k + 1 \in B
  <2>1. s[k + 1] = s[k] + f[k + 1]
    BY <1>1
  <2> QED
    BY <1>3, <2>1
<1>4. n \in B
  <2>1. n \in 0 .. n
    OBVIOUS
  <2> HIDE DEF B
  <2> QED
    BY <1>2, <1>3, <2>1, IntervalInduction
<1> QED
  BY <1>4 DEF SumTo, s

(* Sums subtract pointwise: what is drawn from the layers leaves the total.*)
THEOREM SumDifference ==
    ASSUME NEW n \in Nat, NEW f \in [1 .. n -> Int], NEW g \in [1 .. n -> Int],
           NEW h \in [1 .. n -> Int],
           \A k \in 1 .. n : h[k] = f[k] - g[k]
    PROVE  SumTo(h, n) = SumTo(f, n) - SumTo(g, n)
<1> DEFINE sf == PartialSums(f, n)
           sg == PartialSums(g, n)
           s  == [k \in 0 .. n |-> sf[k] - sg[k]]
<1>1. /\ sf[0] = 0
      /\ \A k \in 1 .. n : sf[k] = sf[k - 1] + f[k]
      /\ \A k \in 0 .. n : sf[k] \in Int
  BY PartialSumsFacts
<1>2. /\ sg[0] = 0
      /\ \A k \in 1 .. n : sg[k] = sg[k - 1] + g[k]
      /\ \A k \in 0 .. n : sg[k] \in Int
  BY PartialSumsFacts
<1> HIDE DEF sf, sg
<1>3. s[0] = 0
  BY <1>1, <1>2
<1>4. ASSUME NEW k \in 1 .. n PROVE s[k] = s[k - 1] + h[k]
  <2>1. sf[k] = sf[k - 1] + f[k] /\ sg[k] = sg[k - 1] + g[k]
    BY <1>1, <1>2
  <2>2. sf[k - 1] \in Int /\ sg[k - 1] \in Int
    BY <1>1, <1>2
  <2> QED
    BY <2>1, <2>2
<1>5. PartialSums(h, n)[n] = s[n]
  <2> HIDE DEF s
  <2>1. n \in 0 .. n
    OBVIOUS
  <2>2. \A k \in 0 .. n : PartialSums(h, n)[k] = s[k]
    BY <1>3, <1>4, SumUnique
  <2> QED
    BY <2>1, <2>2
<1> QED
  BY <1>5 DEF SumTo, sf, sg

(* Appending one value adds it to the sum. *)
THEOREM SumExtend ==
    ASSUME NEW n \in Nat, NEW f \in [1 .. n -> Int], NEW g \in [1 .. n + 1 -> Int],
           \A k \in 1 .. n : g[k] = f[k]
    PROVE  SumTo(g, n + 1) = SumTo(f, n) + g[n + 1]
<1> DEFINE s == PartialSums(g, n + 1)
<1>1. /\ s[0] = 0
      /\ \A k \in 1 .. n + 1 : s[k] = s[k - 1] + g[k]
  <2>1. n + 1 \in Nat
    OBVIOUS
  <2> QED
    BY <2>1, PartialSumsFacts
<1> HIDE DEF s
<1>2. \A k \in 1 .. n : s[k] = s[k - 1] + f[k]
  BY <1>1
<1>3. PartialSums(f, n)[n] = s[n]
  <2>1. n \in 0 .. n
    OBVIOUS
  <2>2. \A k \in 0 .. n : PartialSums(f, n)[k] = s[k]
    BY <1>1, <1>2, SumUnique
  <2> QED
    BY <2>1, <2>2
<1>4. s[n + 1] = s[n] + g[n + 1]
  BY <1>1
<1> QED
  BY <1>3, <1>4 DEF SumTo, s

(* A sum of nothing but zeros is zero. *)
THEOREM SumToZero ==
    ASSUME NEW n \in Nat, NEW f \in [1 .. n -> Int], \A k \in 1 .. n : f[k] = 0
    PROVE  SumTo(f, n) = 0
<1> DEFINE s == [k \in 0 .. n |-> 0]
<1>1. s[0] = 0 /\ \A k \in 1 .. n : s[k] = s[k - 1] + f[k]
  OBVIOUS
<1>2. s[n] = 0 /\ n \in 0 .. n
  OBVIOUS
<1> HIDE DEF s
<1>3. \A k \in 0 .. n : PartialSums(f, n)[k] = s[k]
  BY <1>1, SumUnique
<1> QED
  BY <1>2, <1>3 DEF SumTo

(* Terms that are 0 after the first m add nothing.                         *)
THEOREM SumPrefix ==
    ASSUME NEW n \in Nat, NEW m \in 0 .. n, NEW f \in [1 .. m -> Int],
           NEW g \in [1 .. n -> Int],
           \A k \in 1 .. n : g[k] = IF k <= m THEN f[k] ELSE 0
    PROVE  SumTo(g, n) = SumTo(f, m)
<1> DEFINE sf == PartialSums(f, m)
           s  == [k \in 0 .. n |-> IF k <= m THEN sf[k] ELSE sf[m]]
<1>1. m \in Nat
  OBVIOUS
<1>2. /\ sf[0] = 0
      /\ \A k \in 1 .. m : sf[k] = sf[k - 1] + f[k]
      /\ \A k \in 0 .. m : sf[k] \in Int
  BY <1>1, PartialSumsFacts
<1> HIDE DEF sf
<1>3. s[0] = 0 /\ s[n] = sf[m]
  <2>1. m < n \/ m = n
    OBVIOUS
  <2> QED
    BY <1>2, <2>1
<1>4. \A k \in 1 .. n : s[k] = s[k - 1] + g[k]
  <2> TAKE k \in 1 .. n
  <2>1. k - 1 \in 0 .. n /\ k \in 0 .. n
    OBVIOUS
  <2>2. CASE k <= m
    BY <1>2, <2>1, <2>2
  <2>3. CASE k = m + 1
    BY <1>2, <2>1, <2>3
  <2>4. CASE k > m + 1
    BY <1>2, <2>1, <2>4
  <2> QED
    BY <2>2, <2>3, <2>4
<1> HIDE DEF s
<1>5. \A k \in 0 .. n : PartialSums(g, n)[k] = s[k]
  BY <1>3, <1>4, SumUnique
<1> QED
  BY <1>3, <1>5 DEF SumTo, sf

(* Two sums that differ in one place differ by what differs there. *)
THEOREM SumToChange ==
    ASSUME NEW n \in Nat, NEW f \in [1 .. n -> Int], NEW g \in [1 .. n -> Int],
           NEW i \in 1 .. n, \A k \in 1 .. n : k # i => g[k] = f[k]
    PROVE  SumTo(g, n) = SumTo(f, n) + (g[i] - f[i])
<1> DEFINE sf == PartialSums(f, n)
           s  == [k \in 0 .. n |-> IF k < i THEN sf[k] ELSE sf[k] + (g[i] - f[i])]
<1>1. /\ sf[0] = 0
      /\ \A k \in 1 .. n : sf[k] = sf[k - 1] + f[k]
      /\ \A k \in 0 .. n : sf[k] \in Int
  BY PartialSumsFacts
<1> HIDE DEF sf
<1>2. s[0] = 0
  BY <1>1
<1>3. ASSUME NEW k \in 1 .. n PROVE s[k] = s[k - 1] + g[k]
  <2>1. /\ k \in 0 .. n /\ k - 1 \in 0 .. n
        /\ sf[k] = sf[k - 1] + f[k] /\ sf[k - 1] \in Int /\ sf[k] \in Int
        /\ f[k] \in Int /\ g[k] \in Int /\ f[i] \in Int /\ g[i] \in Int
    BY <1>1
  <2>2. CASE k < i
    BY <2>1, <2>2
  <2>3. CASE k = i
    BY <2>1, <2>3
  <2>4. CASE k > i
    BY <2>1, <2>4
  <2> QED
    BY <2>2, <2>3, <2>4
<1>4. n \in 0 .. n /\ s[n] = sf[n] + (g[i] - f[i])
  OBVIOUS
<1>5. \A k \in 0 .. n : PartialSums(g, n)[k] = s[k]
  <2> HIDE DEF s
  <2> QED
    BY <1>2, <1>3, SumUnique
<1> QED
  BY <1>4, <1>5 DEF SumTo, sf

(* The sum over one sequence after another is the sum of both. *)
THEOREM SumConcat ==
    ASSUME NEW m \in Nat, NEW n \in Nat, NEW f \in [1 .. m -> Int],
           NEW g \in [1 .. n -> Int], NEW h \in [1 .. m + n -> Int],
           \A k \in 1 .. m : h[k] = f[k],
           \A k \in 1 .. n : h[m + k] = g[k]
    PROVE  SumTo(h, m + n) = SumTo(f, m) + SumTo(g, n)
<1> DEFINE sf == PartialSums(f, m)
           sg == PartialSums(g, n)
           s  == [k \in 0 .. m + n |-> IF k <= m THEN sf[k] ELSE sf[m] + sg[k - m]]
<1>1. /\ sf[0] = 0
      /\ \A k \in 1 .. m : sf[k] = sf[k - 1] + f[k]
      /\ \A k \in 0 .. m : sf[k] \in Int
  BY PartialSumsFacts
<1>2. /\ sg[0] = 0
      /\ \A k \in 1 .. n : sg[k] = sg[k - 1] + g[k]
      /\ \A k \in 0 .. n : sg[k] \in Int
  BY PartialSumsFacts
<1> HIDE DEF sf, sg
<1>3. s[0] = 0 /\ s[m + n] = sf[m] + sg[n]
  <2>1. 0 \in 0 .. m + n /\ m + n \in 0 .. m + n /\ m \in 0 .. m /\ (m + n) - m = n
    OBVIOUS
  <2>2. s[0] = 0
    BY <1>1, <2>1
  <2>3. CASE n = 0
    BY <1>1, <1>2, <2>1, <2>2, <2>3
  <2>4. CASE n # 0
    <3>1. ~ (m + n <= m)
      BY <2>4
    <3> QED
      BY <2>1, <2>2, <3>1
  <2> QED
    BY <2>3, <2>4
<1>4. ASSUME NEW k \in 1 .. m + n PROVE s[k] = s[k - 1] + h[k]
  <2>0. k \in 0 .. m + n /\ k - 1 \in 0 .. m + n
    OBVIOUS
  <2>1. CASE k <= m
    <3>1. k \in 1 .. m /\ k - 1 <= m
      BY <2>1
    <3>2. s[k] = sf[k] /\ s[k - 1] = sf[k - 1]
      BY <2>0, <2>1, <3>1
    <3> QED
      BY <1>1, <3>1, <3>2
  <2>2. CASE k > m
    <3>1. PICK j \in 1 .. n : k = m + j
      <4>1. k - m \in 1 .. n /\ k = m + (k - m)
        BY <2>2
      <4> QED
        BY <4>1
    <3>2. h[k] = g[j] /\ sg[j] = sg[j - 1] + g[j]
      BY <1>2, <3>1
    <3>3. s[k] = sf[m] + sg[j]
      BY <3>1
    <3>4. s[k - 1] = sf[m] + sg[j - 1]
      <4>1. CASE j = 1
        BY <1>1, <1>2, <3>1, <4>1
      <4>2. CASE j # 1
        BY <3>1, <4>2
      <4> QED
        BY <4>1, <4>2
    <3>5. sg[j - 1] \in Int /\ sf[m] \in Int /\ g[j] \in Int
      BY <1>1, <1>2
    <3> HIDE DEF s
    <3> QED
      BY <3>2, <3>3, <3>4, <3>5
  <2> QED
    BY <2>1, <2>2
<1> HIDE DEF s
<1>5. \A k \in 0 .. m + n : PartialSums(h, m + n)[k] = s[k]
  <2>1. m + n \in Nat
    OBVIOUS
  <2> QED
    BY <1>3, <1>4, <2>1, SumUnique
<1> QED
  BY <1>3, <1>5 DEF SumTo, sf, sg

-----------------------------------------------------------------------------
(* Sums over finite sets                                                   *)

(* An enumeration of a finite set names every element once. *)
LEMMA EnumerationFacts ==
    ASSUME NEW S, IsFiniteSet(S)
    PROVE  LET n == Cardinality(S)
               e == Enumeration(S)
           IN  /\ n \in Nat
               /\ e \in [1 .. n -> S]
               /\ \A i, j \in 1 .. n : e[i] = e[j] => i = j
               /\ \A x \in S : \E i \in 1 .. n : e[i] = x
<1> DEFINE n == Cardinality(S)
           e == Enumeration(S)
<1>1. n \in Nat /\ ExistsBijection(1 .. n, S)
  BY FS_CardinalityType
<1>2. \E f \in [1 .. n -> S] : \A i, j \in 1 .. n : f[i] = f[j] => i = j
  <2>1. PICK f \in Bijection(1 .. n, S) : TRUE
    BY <1>1 DEF ExistsBijection
  <2> QED
    BY <2>1 DEF Bijection, Injection, IsInjective
<1>3. /\ e \in [1 .. n -> S]
      /\ \A i, j \in 1 .. n : e[i] = e[j] => i = j
  BY <1>2 DEF Enumeration
<1>4. e \in Injection(1 .. n, S)
  BY <1>3 DEF Injection, IsInjective
<1>5. Cardinality(1 .. n) = n
  BY <1>1, FS_Interval
<1>6. e \in Surjection(1 .. n, S)
  <2> HIDE DEF e
  <2> QED
    BY <1>4, <1>5, FS_Injection
<1>7. \A x \in S : \E i \in 1 .. n : e[i] = x
  BY <1>6 DEF Surjection
<1> QED
  BY <1>1, <1>3, <1>7

(* A sum of integers over a finite set is an integer. *)
THEOREM SumOverInt ==
    ASSUME NEW S, IsFiniteSet(S), NEW f \in [S -> Int]
    PROVE  SumOver(f, S) \in Int
<1> DEFINE v == [i \in 1 .. Cardinality(S) |-> f[Enumeration(S)[i]]]
<1>1. v \in [1 .. Cardinality(S) -> Int] /\ Cardinality(S) \in Nat
  BY EnumerationFacts
<1> HIDE DEF v
<1> QED
  BY <1>1, SumToInt DEF SumOver, v

(* A sum of naturals over a finite set is a natural. *)
THEOREM SumOverNat ==
    ASSUME NEW S, IsFiniteSet(S), NEW f \in [S -> Nat]
    PROVE  SumOver(f, S) \in Nat
<1> DEFINE v == [i \in 1 .. Cardinality(S) |-> f[Enumeration(S)[i]]]
<1>1. v \in [1 .. Cardinality(S) -> Nat] /\ Cardinality(S) \in Nat
  BY EnumerationFacts
<1> HIDE DEF v
<1> QED
  BY <1>1, SumToNat DEF SumOver, v

(* A sum of zeros over a finite set is zero: nothing is held at the start. *)
THEOREM SumOverZero ==
    ASSUME NEW S, IsFiniteSet(S), NEW f \in [S -> Int], \A x \in S : f[x] = 0
    PROVE  SumOver(f, S) = 0
<1> DEFINE v == [i \in 1 .. Cardinality(S) |-> f[Enumeration(S)[i]]]
<1>1. /\ v \in [1 .. Cardinality(S) -> Int] /\ Cardinality(S) \in Nat
      /\ \A k \in 1 .. Cardinality(S) : v[k] = 0
  BY EnumerationFacts
<1> HIDE DEF v
<1> QED
  BY <1>1, SumToZero DEF SumOver, v

(* When the value of one element changes, the sum changes by as much: what *)
(* one product, contract or lot gains or loses, their total does.          *)
THEOREM SumOverChange ==
    ASSUME NEW S, IsFiniteSet(S), NEW f \in [S -> Int], NEW g \in [S -> Int],
           NEW x \in S, \A y \in S : y # x => g[y] = f[y]
    PROVE  SumOver(g, S) = SumOver(f, S) + (g[x] - f[x])
<1> DEFINE n  == Cardinality(S)
           e  == Enumeration(S)
           vf == [i \in 1 .. n |-> f[e[i]]]
           vg == [i \in 1 .. n |-> g[e[i]]]
<1>1. /\ n \in Nat /\ e \in [1 .. n -> S]
      /\ \A i, j \in 1 .. n : e[i] = e[j] => i = j
  BY EnumerationFacts
<1>2. PICK m \in 1 .. n : e[m] = x
  BY EnumerationFacts
<1> HIDE DEF n, e
<1>3. vf \in [1 .. n -> Int] /\ vg \in [1 .. n -> Int]
  BY <1>1
<1>4. /\ vf[m] = f[x] /\ vg[m] = g[x]
      /\ \A k \in 1 .. n : k # m => vg[k] = vf[k]
  BY <1>1, <1>2
<1>5. SumOver(f, S) = SumTo(vf, n) /\ SumOver(g, S) = SumTo(vg, n)
  BY DEF SumOver, n, e
<1> HIDE DEF vf, vg
<1> QED
  BY <1>1, <1>3, <1>4, <1>5, SumToChange

(* No part exceeds the sum of natural parts. *)
THEOREM SumOverBound ==
    ASSUME NEW S, IsFiniteSet(S), NEW f \in [S -> Nat], NEW x \in S
    PROVE  f[x] <= SumOver(f, S)
<1> DEFINE g == [f EXCEPT ![x] = 0]
<1>1. g \in [S -> Nat] /\ g[x] = 0 /\ \A y \in S : y # x => g[y] = f[y]
  OBVIOUS
<1> HIDE DEF g
<1>2. f \in [S -> Int] /\ g \in [S -> Int]
  BY <1>1
<1>3. SumOver(g, S) = SumOver(f, S) + (g[x] - f[x])
  BY <1>1, <1>2, SumOverChange
<1>4. SumOver(g, S) \in Nat /\ SumOver(f, S) \in Nat /\ f[x] \in Nat
  BY <1>1, SumOverNat
<1> QED
  BY <1>1, <1>3, <1>4
=============================================================================
