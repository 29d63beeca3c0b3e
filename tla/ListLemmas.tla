----------------------------- MODULE ListLemmas -----------------------------
(***************************************************************************)
(* Lemmas about numbers, sets and lists of any size, for the proofs about  *)
(* the components: induction, in the form that a set of numbers is all of  *)
(* them, recursive functions, and what Arranged and Picked return.         *)
(*                                                                         *)
(* A predicate is the set of the numbers it holds of, an order is a set of *)
(* pairs, since the provers do not instantiate operators.                  *)
(***************************************************************************)
EXTENDS Lists, Integers, FiniteSetTheorems, WellFoundedInduction, TLAPS

(* Of any sets that are finite one contains no other of them.              *)
LEMMA SmallestSet ==
  ASSUME NEW F, F # {}, \A S \in F : IsFiniteSet(S)
  PROVE  \E S \in F : \A R \in F : R \subseteq S => R = S
<1> DEFINE U == UNION F
<1>1. IsWellFoundedOn(StrictSubsetOrdering(U), FiniteSubsetsOf(U))
  BY FS_StrictSubsetOrderingWellFounded
<1>2. F \subseteq FiniteSubsetsOf(U)
  BY DEF FiniteSubsetsOf
<1>3. PICK S \in F : \A R \in F : ~ (<<R, S>> \in StrictSubsetOrdering(U))
  <2> HIDE DEF U
  <2> QED BY <1>1, <1>2, WFMin
<1>4. QED BY <1>3 DEF StrictSubsetOrdering

(* Of any natural numbers one is the smallest.                             *)
LEMMA SmallestNumber ==
  ASSUME NEW T, T \subseteq Nat, T # {}
  PROVE  \E n \in T : \A m \in T : n <= m
<1> DEFINE F == {0 .. n : n \in T}
<1>1. F # {} /\ \A S \in F : IsFiniteSet(S)
  <2>1. \A n \in T : IsFiniteSet(0 .. n)
    BY FS_Interval
  <2>2. QED BY <2>1
<1>2. PICK S \in F : \A R \in F : R \subseteq S => R = S
  <2> HIDE DEF F
  <2> QED BY <1>1, SmallestSet
<1>3. PICK n \in T : S = 0 .. n
  OBVIOUS
<1>4. SUFFICES ASSUME NEW m \in T, m < n PROVE FALSE
  OBVIOUS
<1>5. 0 .. m \subseteq S
  BY <1>3, <1>4
<1>6. n \in S /\ n \notin 0 .. m
  BY <1>3, <1>4
<1>7. QED BY <1>2, <1>5, <1>6

(* A set that holds 0, and with a number the next one, holds all of them.  *)
LEMMA Induction ==
  ASSUME NEW T, 0 \in T, \A n \in Nat : n \in T => n + 1 \in T
  PROVE  \A n \in Nat : n \in T
<1> SUFFICES ASSUME NEW n \in Nat, n \notin T PROVE FALSE
  OBVIOUS
<1> DEFINE Others == Nat \ T
<1>1. PICK m \in Others : \A k \in Others : m <= k
  <2>1. Others \subseteq Nat /\ Others # {}
    OBVIOUS
  <2>2. QED BY <2>1, SmallestNumber
<1>2. m # 0 /\ m - 1 \in Nat
  OBVIOUS
<1>3. m - 1 \in T
  BY <1>1, <1>2
<1>4. QED BY <1>2, <1>3

(* A function that is defined by recursion exists, and it is of the type   *)
(* that its first value has and its steps keep.                            *)
Recursive(S, s0, m, g) ==
  \E f \in [0 .. m -> S] : f[0] = s0 /\ \A k \in 1 .. m : f[k] = g[<<k, f[k - 1]>>]

LEMMA RecursionExists ==
  ASSUME NEW S, NEW s0 \in S, NEW m \in Nat, NEW g \in [(1 .. m) \X S -> S]
  PROVE  Recursive(S, s0, m, g)
<1> DEFINE Steps(f, n) == f \in [0 .. n -> S] /\ f[0] = s0 /\ \A k \in 1 .. n : f[k] = g[<<k, f[k - 1]>>]
           T == {n \in Nat : n <= m => \E f : Steps(f, n)}
<1>1. 0 \in T
  <2>1. Steps([k \in 0 .. 0 |-> s0], 0)
    OBVIOUS
  <2>2. QED BY <2>1
<1>2. ASSUME NEW n \in Nat, n \in T PROVE n + 1 \in T
  <2> SUFFICES ASSUME n + 1 <= m PROVE \E f : Steps(f, n + 1)
    OBVIOUS
  <2>1. PICK f : Steps(f, n)
    BY <1>2
  <2> DEFINE h == [k \in 0 .. n + 1 |-> IF k = n + 1 THEN g[<<n + 1, f[n]>>] ELSE f[k]]
  <2>2. f[n] \in S /\ n + 1 \in 1 .. m
    BY <2>1
  <2>3. g[<<n + 1, f[n]>>] \in S
    BY <2>2
  <2>4. \A k \in 0 .. n : h[k] = f[k]
    OBVIOUS
  <2>5. h[n + 1] = g[<<n + 1, f[n]>>]
    OBVIOUS
  <2>6. h \in [0 .. n + 1 -> S]
    <3>1. \A k \in 0 .. n + 1 : k = n + 1 \/ k \in 0 .. n
      OBVIOUS
    <3>2. QED BY <2>1, <2>3, <3>1
  <2> HIDE DEF h
  <2>7. \A k \in 1 .. n + 1 : h[k] = g[<<k, h[k - 1]>>]
    <3> TAKE k \in 1 .. n + 1
    <3>1. CASE k = n + 1
      BY <2>4, <2>5, <3>1
    <3>2. CASE k # n + 1
      <4>1. k \in 1 .. n /\ k \in 0 .. n /\ k - 1 \in 0 .. n
        BY <3>2
      <4>2. QED BY <2>1, <2>4, <4>1
    <3>3. QED BY <3>1, <3>2
  <2>8. h[0] = s0
    BY <2>1, <2>4
  <2>9. QED BY <2>6, <2>7, <2>8
<1>3. m \in T
  <2> HIDE DEF T
  <2> QED BY <1>1, <1>2, Induction
<1>4. QED BY <1>3 DEF Recursive

(* A finite set of numbers that is not empty has a greatest one.           *)
LEMMA GreatestNumber ==
  ASSUME NEW T, T \subseteq Nat, T # {}, NEW b \in Nat, \A m \in T : m <= b
  PROVE  \E n \in T : \A m \in T : m <= n
<1> DEFINE Gaps == {b - m : m \in T}
<1>1. PICK g \in Gaps : \A h \in Gaps : g <= h
  <2>1. \A m \in T : b - m \in Nat
    OBVIOUS
  <2>2. Gaps \subseteq Nat /\ Gaps # {}
    BY <2>1
  <2> HIDE DEF Gaps
  <2>3. QED BY <2>2, SmallestNumber
<1>2. PICK n \in T : g = b - n
  OBVIOUS
<1>3. \A m \in T : b - m \in Gaps
  OBVIOUS
<1>4. \A m \in T : m <= n
  <2> TAKE m \in T
  <2>1. b - n <= b - m
    BY <1>1, <1>2, <1>3
  <2>2. QED BY <2>1
<1>5. QED BY <1>4

-----------------------------------------------------------------------------
(* Arranged.                                                               *)

StrictOrder(S, R) ==
  /\ \A d \in S : <<d, d>> \notin R
  /\ \A d, e \in S : d # e => <<d, e>> \in R \/ <<e, d>> \in R
  /\ \A d, e, f \in S : <<d, e>> \in R /\ <<e, f>> \in R => <<d, f>> \in R

(* Sorting a finite set by a strict order lists each of its elements once, *)
(* in that order.                                                          *)
LEMMA ArrangedInOrder ==
  ASSUME NEW S, NEW R, IsFiniteSet(S), StrictOrder(S, R)
  PROVE  /\ Cardinality(S) \in Nat
         /\ Arranged(S, R) \in [1 .. Cardinality(S) -> S]
         /\ \A e \in S : \E i \in 1 .. Cardinality(S) : Arranged(S, R)[i] = e
         /\ \A i, j \in 1 .. Cardinality(S) : i < j <=> <<Arranged(S, R)[i], Arranged(S, R)[j]>> \in R
         /\ \A i, j \in 1 .. Cardinality(S) : Arranged(S, R)[i] = Arranged(S, R)[j] => i = j
<1> DEFINE Left(e) == {d \in S : <<d, e>> \in R}
           n == Cardinality(S)
           rank == [e \in S |-> Cardinality(Left(e))]
           list == Arranged(S, R)
<1>1. n \in Nat
  BY FS_CardinalityType
<1>2. \A e \in S : IsFiniteSet(Left(e)) /\ Cardinality(Left(e)) \in Nat
  <2> TAKE e \in S
  <2>1. Left(e) \in SUBSET S
    OBVIOUS
  <2>2. QED BY <2>1, FS_Subset, FS_CardinalityType
<1>3. \A d, e \in S : <<d, e>> \in R => rank[d] < rank[e]
  <2> SUFFICES ASSUME NEW d \in S, NEW e \in S, <<d, e>> \in R PROVE rank[d] < rank[e]
    OBVIOUS
  <2>1. d \notin Left(d) /\ Left(d) \cup {d} \in SUBSET Left(e)
    BY DEF StrictOrder
  <2>2. Cardinality(Left(d) \cup {d}) = Cardinality(Left(d)) + 1
    BY <1>2, <2>1, FS_AddElement
  <2>3. Cardinality(Left(d) \cup {d}) <= Cardinality(Left(e))
    BY <1>2, <2>1, FS_Subset
  <2> HIDE DEF Left
  <2>4. QED BY <1>2, <2>2, <2>3
<1>4. \A e \in S : rank[e] \in 0 .. (n - 1)
  <2> TAKE e \in S
  <2>1. Left(e) \in SUBSET (S \ {e})
    BY DEF StrictOrder
  <2>2. IsFiniteSet(S \ {e}) /\ Cardinality(S \ {e}) = n - 1
    BY FS_RemoveElement
  <2> HIDE DEF Left
  <2>3. Cardinality(Left(e)) <= Cardinality(S \ {e})
    BY <2>1, <2>2, FS_Subset
  <2>4. QED BY <1>1, <1>2, <2>2, <2>3
<1>5. \A d, e \in S : rank[d] = rank[e] => d = e
  <2> SUFFICES ASSUME NEW d \in S, NEW e \in S, rank[d] = rank[e], d # e PROVE FALSE
    OBVIOUS
  <2>1. rank[d] \in Int /\ rank[e] \in Int
    BY <1>4
  <2>2. <<d, e>> \in R \/ <<e, d>> \in R
    BY DEF StrictOrder
  <2> HIDE DEF rank
  <2>3. QED BY <1>3, <2>1, <2>2
<1>6. \A r \in 0 .. (n - 1) : \E e \in S : rank[e] = r
  <2>1. rank \in Injection(S, 0 .. (n - 1))
    <3>1. rank \in [S -> 0 .. (n - 1)]
      BY <1>4
    <3> HIDE DEF rank
    <3>2. QED BY <1>5, <3>1 DEF Injection, IsInjective
  <2>2. IsFiniteSet(0 .. (n - 1)) /\ Cardinality(0 .. (n - 1)) = n
    BY <1>1, FS_Interval
  <2>3. rank \in Surjection(S, 0 .. (n - 1))
    <3> HIDE DEF rank
    <3> QED BY <2>1, <2>2, FS_Injection
  <2> HIDE DEF rank
  <2>4. QED BY <2>3 DEF Surjection
<1>7. \A i \in 1 .. n : list[i] \in S /\ rank[list[i]] = i - 1
  <2> TAKE i \in 1 .. n
  <2>1. i - 1 \in 0 .. (n - 1)
    BY <1>1
  <2>2. \E e \in S : Cardinality(Left(e)) = i - 1
    <3>1. PICK e \in S : rank[e] = i - 1
      BY <1>6, <2>1
    <3>2. rank[e] = Cardinality(Left(e))
      OBVIOUS
    <3> HIDE DEF Left
    <3>3. QED BY <3>1, <3>2
  <2>3. list[i] = CHOOSE e \in S : Cardinality(Left(e)) = i - 1
    BY DEF Arranged
  <2>4. list[i] \in S /\ Cardinality(Left(list[i])) = i - 1
    <3> HIDE DEF Left, list
    <3> QED BY <2>2, <2>3
  <2>5. rank[list[i]] = Cardinality(Left(list[i]))
    <3> HIDE DEF list
    <3> QED BY <2>4
  <2>6. QED BY <2>4, <2>5
<1>8. list \in [1 .. n -> S]
  <2> DEFINE at(i) == CHOOSE e \in S : Cardinality(Left(e)) = i - 1
  <2>1. list = [i \in 1 .. n |-> at(i)]
    BY DEF Arranged
  <2> HIDE DEF list, at
  <2>2. QED BY <1>7, <2>1
<1>9. \A e \in S : \E i \in 1 .. n : list[i] = e
  <2> TAKE e \in S
  <2>1. rank[e] + 1 \in 1 .. n
    BY <1>1, <1>4
  <2>2. list[rank[e] + 1] = e
    <3> HIDE DEF rank, list
    <3> QED BY <1>4, <1>5, <1>7, <2>1
  <2>3. QED BY <2>1, <2>2
<1>10. \A i, j \in 1 .. n : i < j <=> <<list[i], list[j]>> \in R
  <2> HIDE DEF rank, list, n
  <2>1. \A i, j \in 1 .. n : <<list[i], list[j]>> \in R => i < j
    BY <1>1, <1>3, <1>7
  <2>2. \A i, j \in 1 .. n : i < j => list[i] # list[j]
    BY <1>1, <1>7
  <2>3. \A i, j \in 1 .. n : i < j => <<list[i], list[j]>> \in R
    <3> SUFFICES ASSUME NEW i \in 1 .. n, NEW j \in 1 .. n, i < j PROVE <<list[i], list[j]>> \in R
      OBVIOUS
    <3>1. <<list[i], list[j]>> \in R \/ <<list[j], list[i]>> \in R
      BY <1>7, <2>2 DEF StrictOrder
    <3>2. QED BY <1>1, <2>1, <3>1
  <2>4. QED BY <2>1, <2>3
<1>11. \A i, j \in 1 .. n : list[i] = list[j] => i = j
  <2> HIDE DEF rank, list, n
  <2> QED BY <1>1, <1>7
<1>12. QED BY <1>1, <1>8, <1>9, <1>10, <1>11

(* Picking from a list keeps the order: there is a place in the list for   *)
(* each in the result, a later one for a later one, and for no other.      *)
PicksAt(s, P, f) ==
  /\ f \in [1 .. Cardinality(P) -> P]
  /\ Picked(s, P) = [i \in 1 .. Cardinality(P) |-> s[f[i]]]
  /\ \A i, j \in 1 .. Cardinality(P) : i < j <=> f[i] < f[j]
  /\ \A p \in P : \E i \in 1 .. Cardinality(P) : f[i] = p

LEMMA PickedInOrder ==
  ASSUME NEW s, NEW n \in Nat, NEW P \in SUBSET (1 .. n)
  PROVE  Cardinality(P) \in 0 .. n /\ \E f : PicksAt(s, P, f)
<1> DEFINE R == {p \in P \X P : p[1] < p[2]}
           f == Arranged(P, R)
<1>1. IsFiniteSet(P) /\ Cardinality(P) \in 0 .. n
  <2>1. IsFiniteSet(1 .. n) /\ Cardinality(1 .. n) = n
    BY FS_Interval
  <2>2. IsFiniteSet(P) /\ Cardinality(P) <= n
    BY <2>1, FS_Subset
  <2>3. Cardinality(P) \in Nat
    BY <2>2, FS_CardinalityType
  <2>4. QED BY <2>2, <2>3
<1>2. StrictOrder(P, R)
  BY DEF StrictOrder
<1>3. \A i, j \in P : <<i, j>> \in R <=> i < j
  OBVIOUS
<1>4. Picked(s, P) = [i \in 1 .. Cardinality(P) |-> s[f[i]]]
  BY DEF Picked
<1> HIDE DEF R
<1>5. /\ f \in [1 .. Cardinality(P) -> P]
      /\ \A e \in P : \E i \in 1 .. Cardinality(P) : f[i] = e
      /\ \A i, j \in 1 .. Cardinality(P) : i < j <=> <<f[i], f[j]>> \in R
  BY <1>1, <1>2, ArrangedInOrder
<1> HIDE DEF f
<1>6. \A i, j \in 1 .. Cardinality(P) : i < j <=> f[i] < f[j]
  BY <1>3, <1>5
<1>7. PicksAt(s, P, f)
  BY <1>4, <1>5, <1>6 DEF PicksAt
<1>8. QED BY <1>1, <1>7
(* A list of n has at most n values, and n when none is twice in it.       *)
ValuesOf(f, n) == {f[i] : i \in 1 .. n}

LEMMA Values ==
  ASSUME NEW n \in Nat, NEW V, NEW f \in [1 .. n -> V]
  PROVE  /\ IsFiniteSet(ValuesOf(f, n)) /\ Cardinality(ValuesOf(f, n)) \in Nat
         /\ Cardinality(ValuesOf(f, n)) <= n
         /\ (\A i, j \in 1 .. n : f[i] = f[j] => i = j) => Cardinality(ValuesOf(f, n)) = n
<1> DEFINE S == {f[i] : i \in 1 .. n}
<1>1. f \in Surjection(1 .. n, S)
  BY DEF Surjection
<1>2. IsFiniteSet(1 .. n) /\ Cardinality(1 .. n) = n
  BY FS_Interval
<1>3. (\A i, j \in 1 .. n : f[i] = f[j] => i = j) => f \in Injection(1 .. n, S)
  BY DEF Injection, IsInjective
<1> HIDE DEF S
<1>4. /\ IsFiniteSet(S) /\ Cardinality(S) <= Cardinality(1 .. n)
      /\ Cardinality(S) = Cardinality(1 .. n) <=> f \in Injection(1 .. n, S)
  BY <1>1, <1>2, FS_Surjection
<1>5. Cardinality(S) \in Nat
  BY <1>4, FS_CardinalityType
<1>6. QED BY <1>2, <1>3, <1>4, <1>5 DEF S, ValuesOf

(* A set of numbers from 1 on that has with a number all smaller ones.     *)
LEMMA Beginnings ==
  ASSUME NEW m \in Nat, NEW P \in SUBSET (1 .. m), \A i \in P : \A j \in 1 .. i : j \in P
  PROVE  \E n \in 0 .. m : P = 1 .. n
<1>1. CASE P = {}
  <2>1. 0 \in 0 .. m /\ P = 1 .. 0
    BY <1>1
  <2>2. QED BY <2>1
<1>2. CASE P # {}
  <2>1. P \subseteq Nat /\ \A i \in P : i <= m /\ i >= 1
    OBVIOUS
  <2>2. PICK n \in P : \A i \in P : i <= n
    BY <1>2, <2>1, GreatestNumber
  <2>3. P \subseteq 1 .. n
    BY <2>1, <2>2
  <2>4. 1 .. n \subseteq P
    BY <2>2
  <2>5. P = 1 .. n
    BY <2>3, <2>4
  <2>6. n \in 0 .. m
    BY <2>1
  <2>7. QED BY <2>5, <2>6
<1>3. QED BY <1>1, <1>2

(* An increasing enumeration of 1 .. n is the identity.                    *)
LEMMA Enumerated ==
  ASSUME NEW n \in Nat, NEW f \in [1 .. n -> 1 .. n],
         \A i, j \in 1 .. n : i < j <=> f[i] < f[j],
         \A p \in 1 .. n : \E i \in 1 .. n : f[i] = p
  PROVE  \A i \in 1 .. n : f[i] = i
<1> SUFFICES ASSUME NEW k \in 1 .. n, f[k] # k PROVE FALSE
  OBVIOUS
<1> DEFINE Wrong == {i \in 1 .. n : f[i] # i}
<1>1. PICK i \in Wrong : \A j \in Wrong : i <= j
  <2>1. Wrong \subseteq Nat /\ Wrong # {}
    OBVIOUS
  <2> HIDE DEF Wrong
  <2>2. QED BY <2>1, SmallestNumber
<1>2. i \in 1 .. n /\ f[i] # i /\ \A j \in 1 .. i - 1 : f[j] = j
  <2>1. \A j \in 1 .. i - 1 : j \in 1 .. n /\ ~ (i <= j)
    OBVIOUS
  <2>2. QED BY <1>1, <2>1
<1>3. f[i] > i
  <2>1. CASE f[i] < i
    <3>1. f[i] \in 1 .. i - 1
      BY <1>2, <2>1
    <3>2. f[f[i]] = f[i]
      BY <1>2, <3>1
    <3>3. f[i] \in 1 .. n /\ f[i] < i
      BY <1>2, <2>1
    <3>4. f[f[i]] < f[i]
      BY <1>2, <3>3
    <3>5. QED BY <3>2, <3>3, <3>4
  <2>2. QED BY <1>2, <2>1
<1>4. PICK j \in 1 .. n : f[j] = i
  BY <1>2
<1>5. j > i \/ j = i \/ j \in 1 .. i - 1
  BY <1>2
<1>6. QED BY <1>2, <1>3, <1>4, <1>5

(* To pick the beginning of a list.                                        *)
LEMMA PickedBeginning ==
  ASSUME NEW s, NEW m \in Nat, NEW n \in 0 .. m
  PROVE  Picked(s, 1 .. n) = [i \in 1 .. n |-> s[i]]
<1> DEFINE P == 1 .. n
<1>1. Cardinality(P) = n
  BY FS_Interval
<1>2. n \in Nat
  OBVIOUS
<1>8. P \in SUBSET (1 .. n)
  OBVIOUS
<1> HIDE DEF P
<1>3. PICK f : PicksAt(s, P, f)
  BY <1>2, <1>8, PickedInOrder
<1>4. /\ f \in [1 .. n -> 1 .. n]
      /\ \A i, j \in 1 .. n : i < j <=> f[i] < f[j]
      /\ \A p \in 1 .. n : \E i \in 1 .. n : f[i] = p
  BY <1>1, <1>3 DEF P, PicksAt
<1>5. \A i \in 1 .. n : f[i] = i
  BY <1>2, <1>4, Enumerated
<1>6. Picked(s, P) = [i \in 1 .. n |-> s[i]]
  BY <1>1, <1>3, <1>5 DEF PicksAt
<1>7. QED BY <1>6 DEF P

(* Sorting a set of numbers given in increasing order, and picking them.   *)
LEMMA ArrangedIncreasing ==
  ASSUME NEW n \in Nat, NEW f \in [1 .. n -> Nat], \A i, j \in 1 .. n : i < j => f[i] < f[j],
         NEW P, P = ValuesOf(f, n)
  PROVE  /\ Cardinality(P) = n
         /\ \A i \in 1 .. n : Arranged(P, {p \in P \X P : p[1] < p[2]})[i] = f[i]
         /\ \A s : Picked(s, P) = [i \in 1 .. n |-> s[f[i]]]
<1> DEFINE R == {p \in P \X P : p[1] < p[2]}
           g == Arranged(P, R)
<1>1. \A i, j \in 1 .. n : f[i] = f[j] => i = j
  <2> SUFFICES ASSUME NEW i \in 1 .. n, NEW j \in 1 .. n, f[i] = f[j], i # j PROVE FALSE
    OBVIOUS
  <2>1. i < j \/ j < i
    OBVIOUS
  <2>2. f[i] \in Nat /\ f[j] \in Nat
    OBVIOUS
  <2>3. QED BY <2>1, <2>2
<1>2. IsFiniteSet(P) /\ Cardinality(P) = n
  BY <1>1, Values
<1>3. \A i \in 1 .. n : f[i] \in P
  BY DEF ValuesOf
<1>4. \A p \in P : \E i \in 1 .. n : p = f[i]
  BY DEF ValuesOf
<1>5. P \subseteq Nat
  BY <1>4
<1>6. StrictOrder(P, R)
  <2> HIDE DEF g
  <2> QED BY <1>5 DEF StrictOrder
<1>7. \A d, e \in P : <<d, e>> \in R <=> d < e
  OBVIOUS
<1>8. \A s : Picked(s, P) = [i \in 1 .. n |-> s[g[i]]]
  BY <1>2 DEF Picked
<1> HIDE DEF R
<1>9. /\ g \in [1 .. n -> P]
      /\ \A e \in P : \E i \in 1 .. n : g[i] = e
      /\ \A i, j \in 1 .. n : i < j <=> <<g[i], g[j]>> \in R
  <2>1. /\ g \in [1 .. Cardinality(P) -> P]
        /\ \A e \in P : \E i \in 1 .. Cardinality(P) : g[i] = e
        /\ \A i, j \in 1 .. Cardinality(P) : i < j <=> <<g[i], g[j]>> \in R
    <3>1. IsFiniteSet(P)
      BY <1>2
    <3> QED BY ONLY <1>6, <3>1, ArrangedInOrder
  <2> HIDE DEF g
  <2>2. QED BY <1>2, <2>1
<1> HIDE DEF g
<1>10. \A i, j \in 1 .. n : i < j <=> g[i] < g[j]
  BY <1>7, <1>9
<1> DEFINE h == [i \in 1 .. n |-> CHOOSE j \in 1 .. n : f[j] = g[i]]
<1>11. \A i \in 1 .. n : h[i] \in 1 .. n /\ f[h[i]] = g[i]
  <2> TAKE i \in 1 .. n
  <2>1. \E j \in 1 .. n : f[j] = g[i]
    BY <1>4, <1>9
  <2>2. QED BY <2>1
<1>12. h \in [1 .. n -> 1 .. n]
  <2>1. \A i \in 1 .. n : (CHOOSE j \in 1 .. n : f[j] = g[i]) \in 1 .. n
    BY <1>11
  <2>2. QED BY <2>1
<1> HIDE DEF h
<1>13. \A i, j \in 1 .. n : f[i] < f[j] => i < j
  <2> SUFFICES ASSUME NEW i \in 1 .. n, NEW j \in 1 .. n, f[i] < f[j], ~ (i < j) PROVE FALSE
    OBVIOUS
  <2>1. i = j \/ j < i
    OBVIOUS
  <2>2. f[i] \in Nat /\ f[j] \in Nat
    OBVIOUS
  <2>3. QED BY <2>1, <2>2
<1>14. \A i, j \in 1 .. n : i < j <=> h[i] < h[j]
  <2> SUFFICES ASSUME NEW i \in 1 .. n, NEW j \in 1 .. n PROVE i < j <=> h[i] < h[j]
    OBVIOUS
  <2>1. h[i] \in 1 .. n /\ h[j] \in 1 .. n /\ f[h[i]] = g[i] /\ f[h[j]] = g[j]
    BY <1>11
  <2>2. h[i] < h[j] <=> f[h[i]] < f[h[j]]
    BY <1>13, <2>1
  <2>3. QED BY <1>10, <2>1, <2>2
<1>15. \A p \in 1 .. n : \E i \in 1 .. n : h[i] = p
  <2> TAKE p \in 1 .. n
  <2>1. PICK i \in 1 .. n : g[i] = f[p]
    BY <1>3, <1>9
  <2>2. h[i] = p
    BY <1>1, <1>11, <2>1
  <2>3. QED BY <2>2
<1>16. \A i \in 1 .. n : h[i] = i
  BY <1>12, <1>14, <1>15, Enumerated
<1>17. \A i \in 1 .. n : g[i] = f[i]
  BY <1>11, <1>16
<1>18. \A s : Picked(s, P) = [i \in 1 .. n |-> s[f[i]]]
  BY <1>8, <1>17
<1>19. QED BY <1>2, <1>17, <1>18 DEF g, R

(* To pick the end of a list.                                              *)
Ending(k, n) == (k + 1) .. (k + n)
EndOf(s, k, n) == [i \in 1 .. n |-> s[k + i]]

LEMMA PickedEnd ==
  ASSUME NEW s, NEW k \in Nat, NEW n \in Nat
  PROVE  Picked(s, Ending(k, n)) = EndOf(s, k, n)
<1> DEFINE f == [i \in 1 .. n |-> k + i]
           P == Ending(k, n)
<1>0. P = (k + 1) .. (k + n)
  BY DEF Ending
<1> HIDE DEF P
<1>1. f \in [1 .. n -> Nat] /\ \A i, j \in 1 .. n : i < j => f[i] < f[j]
  OBVIOUS
<1>2. P = ValuesOf(f, n)
  <2>1. \A p \in P : p - k \in 1 .. n /\ f[p - k] = p
    BY <1>0
  <2>2. \A i \in 1 .. n : f[i] \in P
    BY <1>0
  <2> HIDE DEF f
  <2>3. QED BY <2>1, <2>2 DEF ValuesOf
<1>3. \A i \in 1 .. n : f[i] = k + i
  OBVIOUS
<1> HIDE DEF f
<1>4. Picked(s, P) = [i \in 1 .. n |-> s[f[i]]]
  <2>1. f \in [1 .. n -> Nat]
    BY <1>1
  <2>2. \A i, j \in 1 .. n : i < j => f[i] < f[j]
    BY <1>1
  <2>3. \A t : Picked(t, ValuesOf(f, n)) = [i \in 1 .. n |-> t[f[i]]]
    BY ONLY n \in Nat, <2>1, <2>2, ArrangedIncreasing
  <2>4. QED BY <1>2, <2>3
<1>5. QED BY <1>3, <1>4 DEF P, EndOf
=============================================================================
