------------------------------ MODULE Counting -------------------------------
(***************************************************************************)
(* Induction over numbers, and what it shows of counts and totals over     *)
(* finite sets.  The induction theorems of the library take an operator as *)
(* their parameter; here the property is the set of the values that have   *)
(* it.                                                                     *)
(***************************************************************************)
EXTENDS Integers, FiniteSetsExt, FiniteSetTheorems, TLAPS

-----------------------------------------------------------------------------
(***************************************************************************)
(* A set of numbers has a least one.                                       *)
(***************************************************************************)
LEMMA LeastNumber ==
  ASSUME NEW T, T \subseteq Nat, T # {}
  PROVE  \E n \in T : \A k \in T : n <= k
<1> DEFINE Less == OpToRel(<, Nat)
<1>1. \E x \in T : \A y \in T : ~ (<<y, x>> \in Less)
  BY NatLessThanWellFounded, WFMin
<1>2. \A x, y \in Nat : x < y <=> <<x, y>> \in Less
  BY DEF OpToRel
<1> HIDE DEF Less
<1>3. PICK x \in T : \A y \in T : ~ (<<y, x>> \in Less)
  BY <1>1
<1>4. \A y \in T : ~ y < x
  BY <1>2, <1>3
<1> QED BY <1>4

(***************************************************************************)
(* What 0 has, and n + 1 has when n has it, every number has.              *)
(***************************************************************************)
LEMMA NumberInduction ==
  ASSUME NEW T, 0 \in T, \A n \in Nat : n \in T => n + 1 \in T
  PROVE  \A n \in Nat : n \in T
<1> DEFINE Without == {n \in Nat : n \notin T}
<1>1. SUFFICES ASSUME Without # {} PROVE FALSE
  OBVIOUS
<1>2. PICK n \in Without : \A k \in Without : n <= k
  <2>1. Without \subseteq Nat
    OBVIOUS
  <2> HIDE DEF Without
  <2> QED BY <1>1, <2>1, LeastNumber
<1>3. n # 0 /\ n \in Nat /\ n - 1 \in Nat
  BY <1>2
<1>4. n - 1 \in T
  BY <1>2, <1>3
<1>5. (n - 1) + 1 \in T
  BY <1>3, <1>4
<1> QED BY <1>2, <1>3, <1>5

(***************************************************************************)
(* A finite set without one of its elements.                               *)
(***************************************************************************)
LEMMA OneLess ==
  ASSUME NEW s, IsFiniteSet(s), NEW x \in s, NEW n \in Nat, Cardinality(s) = n + 1
  PROVE  IsFiniteSet(s \ {x}) /\ Cardinality(s \ {x}) = n
<1>1. IsFiniteSet(s \ {x}) /\ Cardinality(s \ {x}) = Cardinality(s) - 1
  BY FS_RemoveElement
<1> QED BY <1>1

-----------------------------------------------------------------------------
(***************************************************************************)
(* A set of numbers counted from below: for each n up to their number one  *)
(* of them is the n-th.                                                    *)
(***************************************************************************)
LEMMA NthOne ==
  ASSUME NEW D, D \subseteq Nat, IsFiniteSet(D)
  PROVE  \A n \in 1..Cardinality(D) : \E x \in D : Cardinality({y \in D : y <= x}) = n
<1> DEFINE First(x) == {y \in D : y <= x}
           Low(T) == T \subseteq D /\ \A y \in T, z \in D : z <= y => z \in T
           Counted(n, T) == /\ Low(T) /\ Cardinality(T) = n
                            /\ n > 0 => \E x \in D : T = First(x)
           Found == {n \in Nat : n <= Cardinality(D) => \E T : Counted(n, T)}
<1>1. Cardinality(D) \in Nat
  BY FS_CardinalityType
<1>2. 0 \in Found
  <2>1. Low({}) /\ Cardinality({}) = 0
    BY FS_EmptySet
  <2>2. Counted(0, {})
    BY <2>1
  <2> HIDE DEF Counted
  <2> QED BY <2>2
<1>3. ASSUME NEW n \in Nat, n \in Found PROVE n + 1 \in Found
  <2>1. SUFFICES ASSUME n + 1 <= Cardinality(D)
                 PROVE  \E T : Counted(n + 1, T)
    OBVIOUS
  <2>2. PICK T : Low(T) /\ Cardinality(T) = n
    <3>1. n <= Cardinality(D)
      BY <1>1, <2>1
    <3> HIDE DEF Low
    <3>2. PICK T : Counted(n, T)
      <4> HIDE DEF Counted
      <4> QED BY <1>3, <3>1
    <3> QED BY <3>2
  <2>3. D \ T # {} /\ D \ T \subseteq Nat
    <3>1. T # D
      BY <1>1, <2>1, <2>2
    <3> QED BY <2>2, <3>1
  <2>4. PICK x \in D \ T : \A y \in D \ T : x <= y
    <3> HIDE DEF Low
    <3> QED BY <2>3, LeastNumber
  <2>5. T \union {x} = First(x)
    <3>1. \A y \in D : y \in Nat
      OBVIOUS
    <3>2. ASSUME NEW y \in D PROVE y \in T \union {x} <=> y <= x
      BY <2>2, <2>4, <3>1
    <3> QED BY <2>2, <2>4, <3>2
  <2>6. Low(First(x))
    <3>1. \A y \in D : y \in Nat
      OBVIOUS
    <3> QED BY <2>4, <3>1
  <2>7. Cardinality(T \union {x}) = n + 1
    <3>1. IsFiniteSet(T)
      BY <2>2, FS_Subset
    <3> QED BY <2>2, <2>4, <3>1, FS_AddElement
  <2>8. x \in D
    BY <2>4
  <2>9. Counted(n + 1, First(x))
    <3> HIDE DEF Low, First
    <3> QED BY <2>5, <2>6, <2>7, <2>8
  <2> HIDE DEF Counted
  <2> QED BY <2>9
<1>4. \A n \in Nat : n \in Found
  <2> HIDE DEF Found
  <2> QED BY <1>2, <1>3, NumberInduction
<1>5. ASSUME NEW n \in 1..Cardinality(D) PROVE \E x \in D : Cardinality(First(x)) = n
  <2>1. n \in Nat /\ n \in Found /\ n <= Cardinality(D) /\ n > 0
    BY <1>1, <1>4
  <2>2. PICK T : Counted(n, T)
    <3> HIDE DEF Counted
    <3> QED BY <2>1
  <2> HIDE DEF Low, First
  <2> QED BY <2>1, <2>2
<1> QED BY <1>5

(***************************************************************************)
(* A set of two or more has two elements.                                  *)
(***************************************************************************)
LEMMA TwoOf ==
  ASSUME NEW S, IsFiniteSet(S), Cardinality(S) >= 2
  PROVE  \E x, y \in S : x # y
<1>1. S # {} /\ Cardinality(S) \in Nat
  BY FS_EmptySet, FS_CardinalityType
<1>2. PICK x : x \in S
  BY <1>1
<1>3. IsFiniteSet(S \ {x}) /\ Cardinality(S \ {x}) = Cardinality(S) - 1
  BY <1>2, FS_RemoveElement
<1>4. Cardinality(S \ {x}) # 0
  BY <1>1, <1>3
<1>5. S \ {x} # {}
  BY <1>4, FS_EmptySet
<1> QED BY <1>2, <1>5

LEMMA OfTwo ==
  ASSUME NEW S, IsFiniteSet(S), NEW x \in S, NEW y \in S, x # y
  PROVE  Cardinality(S) >= 2
<1>1. IsFiniteSet(S \ {x}) /\ Cardinality(S \ {x}) = Cardinality(S) - 1
  BY FS_RemoveElement
<1>2. S \ {x} # {}
  OBVIOUS
<1>3. Cardinality(S \ {x}) \in Nat /\ Cardinality(S \ {x}) # 0 /\ Cardinality(S) \in Nat
  BY <1>1, <1>2, FS_EmptySet, FS_CardinalityType
<1> QED BY <1>1, <1>3

-----------------------------------------------------------------------------
(***************************************************************************)
(* The total of w over the subsets of S: the function that MapThenFoldSet  *)
(* defines when it adds.                                                   *)
(***************************************************************************)
IsTotal(f, w, S) ==
  f = [s \in SUBSET S |-> IF s = {} THEN 0
                          ELSE w[CHOOSE x \in s : TRUE] + f[s \ {CHOOSE x \in s : TRUE}]]

(***************************************************************************)
(* There is such a function: it is built for the sets of one element more  *)
(* at a time.                                                              *)
(***************************************************************************)
LEMMA TotalExists ==
  ASSUME NEW S, IsFiniteSet(S), NEW w
  PROVE  \E f : IsTotal(f, w, S)
<1> DEFINE Small(n) == {s \in SUBSET S : Cardinality(s) <= n}
           One(s) == CHOOSE x \in s : TRUE
           Upon(g, s) == IF s = {} THEN 0 ELSE w[One(s)] + g[s \ {One(s)}]
           Built == {n \in Nat : \E g : g = [s \in Small(n) |-> Upon(g, s)]}
<1>1. \A s \in SUBSET S : IsFiniteSet(s) /\ Cardinality(s) \in Nat
  BY FS_Subset, FS_CardinalityType
<1>2. 0 \in Built
  <2>1. Small(0) = {{}}
    BY <1>1, FS_EmptySet
  <2> DEFINE g == [s \in Small(0) |-> 0]
  <2>2. g = [s \in Small(0) |-> Upon(g, s)]
    BY <2>1
  <2> QED BY <2>2
<1>3. ASSUME NEW n \in Nat, n \in Built PROVE n + 1 \in Built
  <2>1. PICK g : g = [s \in Small(n) |-> Upon(g, s)]
    BY <1>3
  <2> DEFINE h == [s \in Small(n + 1) |-> Upon(g, s)]
  <2>2. \A s \in Small(n) : s \in Small(n + 1)
    BY <1>1
  <2>3. \A s \in Small(n) : g[s] = Upon(g, s)
    <3> HIDE DEF Upon, Small
    <3> QED BY <2>1, Zenon
  <2>4. \A s \in Small(n) : h[s] = g[s]
    <3> HIDE DEF Upon, Small
    <3> QED BY <2>2, <2>3
  <2>5. ASSUME NEW s \in Small(n + 1), s # {} PROVE s \ {One(s)} \in Small(n)
    <3>1. One(s) \in s
      BY <2>5
    <3> HIDE DEF One
    <3>2. Cardinality(s \ {One(s)}) = Cardinality(s) - 1
      BY <1>1, <3>1, FS_RemoveElement
    <3> QED BY <1>1, <3>2
  <2>6. ASSUME NEW s \in Small(n + 1) PROVE Upon(g, s) = Upon(h, s)
    <3> HIDE DEF Small, One, h
    <3> QED BY <2>4, <2>5
  <2>7. h = [s \in Small(n + 1) |-> Upon(h, s)]
    <3> HIDE DEF Upon, Small
    <3>1. [s \in Small(n + 1) |-> Upon(g, s)] = [s \in Small(n + 1) |-> Upon(h, s)]
      <4> HIDE DEF h
      <4> QED BY <2>6
    <3> QED BY <3>1
  <2>8. \E gg : gg = [s \in Small(n + 1) |-> Upon(gg, s)]
    <3> HIDE DEF Upon, Small, h
    <3> QED BY <2>7
  <2> HIDE DEF Upon, Small, h
  <2> QED BY <2>8
<1>4. \A n \in Nat : n \in Built
  <2> HIDE DEF Built
  <2> QED BY <1>2, <1>3, NumberInduction
<1>5. Small(Cardinality(S)) = SUBSET S /\ Cardinality(S) \in Nat
  BY <1>1, FS_Subset
<1>6. PICK g : g = [s \in Small(Cardinality(S)) |-> Upon(g, s)]
  <2> HIDE DEF Upon, Small
  <2> QED BY <1>4, <1>5
<1>7. g = [s \in SUBSET S |-> Upon(g, s)]
  <2> HIDE DEF Upon, Small
  <2> QED BY <1>5, <1>6
<1> QED BY <1>7 DEF IsTotal

LEMMA TotalStep ==
  ASSUME NEW S, NEW w, NEW f, IsTotal(f, w, S), NEW s \in SUBSET S
  PROVE  /\ s = {} => f[s] = 0
         /\ s # {} => \E x \in s : f[s] = w[x] + f[s \ {x}]
BY DEF IsTotal

(***************************************************************************)
(* A total of natural numbers is one, ...                                  *)
(***************************************************************************)
LEMMA TotalIsNat ==
  ASSUME NEW S, IsFiniteSet(S), NEW w, \A x \in S : w[x] \in Nat,
         NEW f, IsTotal(f, w, S)
  PROVE  \A s \in SUBSET S : f[s] \in Nat
<1> DEFINE Sized == {n \in Nat : \A s \in SUBSET S : Cardinality(s) = n => f[s] \in Nat}
<1>1. \A s \in SUBSET S : IsFiniteSet(s) /\ Cardinality(s) \in Nat
  BY FS_Subset, FS_CardinalityType
<1>2. 0 \in Sized
  BY <1>1, FS_EmptySet, TotalStep
<1>3. ASSUME NEW n \in Nat, n \in Sized PROVE n + 1 \in Sized
  <2>1. SUFFICES ASSUME NEW s \in SUBSET S, Cardinality(s) = n + 1 PROVE f[s] \in Nat
    OBVIOUS
  <2>2. s # {}
    BY <1>1, <2>1, FS_EmptySet
  <2>3. PICK x \in s : f[s] = w[x] + f[s \ {x}]
    BY <2>2, TotalStep
  <2>4. Cardinality(s \ {x}) = n
    BY <1>1, <2>1, OneLess
  <2>5. f[s \ {x}] \in Nat /\ w[x] \in Nat
    BY <1>3, <2>4
  <2> QED BY <2>3, <2>5
<1>4. \A n \in Nat : n \in Sized
  <2> HIDE DEF Sized
  <2> QED BY <1>2, <1>3, NumberInduction
<1> QED BY <1>1, <1>4

(***************************************************************************)
(* ... and is not zero if one of them is not.                              *)
(***************************************************************************)
LEMMA TotalIsPositive ==
  ASSUME NEW S, IsFiniteSet(S), NEW w, \A x \in S : w[x] \in Nat,
         NEW f, IsTotal(f, w, S)
  PROVE  \A s \in SUBSET S : f[s] > 0 <=> \E x \in s : w[x] > 0
<1> DEFINE Right(s) == f[s] > 0 <=> \E x \in s : w[x] > 0
           Sized == {n \in Nat : \A s \in SUBSET S : Cardinality(s) = n => Right(s)}
<1>1. \A s \in SUBSET S : IsFiniteSet(s) /\ Cardinality(s) \in Nat /\ f[s] \in Nat
  BY FS_Subset, FS_CardinalityType, TotalIsNat
<1>2. 0 \in Sized
  BY <1>1, FS_EmptySet, TotalStep
<1>3. ASSUME NEW n \in Nat, n \in Sized PROVE n + 1 \in Sized
  <2>1. SUFFICES ASSUME NEW s \in SUBSET S, Cardinality(s) = n + 1 PROVE Right(s)
    OBVIOUS
  <2>2. s # {}
    BY <1>1, <2>1, FS_EmptySet
  <2>3. PICK x \in s : f[s] = w[x] + f[s \ {x}]
    BY <2>2, TotalStep
  <2>4. Cardinality(s \ {x}) = n
    BY <1>1, <2>1, OneLess
  <2>5. Right(s \ {x}) /\ w[x] \in Nat /\ f[s \ {x}] \in Nat
    BY <1>1, <1>3, <2>4
  <2>6. f[s] > 0 <=> w[x] > 0 \/ f[s \ {x}] > 0
    BY <2>3, <2>5
  <2> QED BY <2>5, <2>6
<1>4. \A n \in Nat : n \in Sized
  <2> HIDE DEF Sized
  <2> QED BY <1>2, <1>3, NumberInduction
<1> QED BY <1>1, <1>4
=============================================================================
