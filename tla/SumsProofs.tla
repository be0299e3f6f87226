----------------------------- MODULE SumsProofs -----------------------------
(* What the proofs of the other modules need to know of sums: adding an    *)
(* element adds its value, and nothing but the values matters.             *)
(*                                                                         *)
(* SumOf is a fold, which is a recursive function over the subsets of the  *)
(* set.  The facts about it are by induction over cardinality, in the form *)
(* that needs no operator as a parameter: a set of natural numbers that is *)
(* not empty has a least element.                                          *)
EXTENDS Sums, FiniteSetTheorems, WellFoundedInduction, TLAPS

LEMMA LeastNatural ==
    ASSUME NEW T, T \subseteq Nat, T # {}
    PROVE  \E x \in T : \A y \in T : x <= y
<1>1. IsWellFoundedOn(OpToRel(<, Nat), Nat)
  BY NatLessThanWellFounded
<1>2. PICK x \in T : \A y \in T : ~ (<<y, x>> \in OpToRel(<, Nat))
  BY <1>1, WFMin
<1>3. ASSUME NEW y \in T PROVE x <= y
  <2>1. <<y, x>> \in Nat \X Nat /\ ~ (<<y, x>> \in OpToRel(<, Nat))
    BY <1>2
  <2>2. ~ (y < x)
    BY <2>1, Zenon DEF OpToRel
  <2>3. x \in Nat /\ y \in Nat
    OBVIOUS
  <2> QED
    BY <2>2, <2>3
<1> QED
  BY <1>3

-----------------------------------------------------------------------------
(* The recursive function.                                                 *)

\* An element of s, and the value at s of a sum that is g on smaller sets.
Some(s) == CHOOSE x \in s : TRUE
Plus(f, s, g) == IF s = {} THEN 0 ELSE f[Some(s)] + g[s \ {Some(s)}]
Total(f, S) == CHOOSE g : g = [s \in SUBSET S |-> Plus(f, s, g)]

LEMMA SumIsTotal == ASSUME NEW f, NEW S PROVE SumOf(f, S) = Total(f, S)[S]
  BY DEF SumOf, MapThenSumSet, MapThenFoldSet, Total, Plus, Some

LEMMA SmallerSet ==
    ASSUME NEW s, IsFiniteSet(s), s # {}
    PROVE  /\ Some(s) \in s
           /\ IsFiniteSet(s \ {Some(s)})
           /\ Cardinality(s) \in Nat /\ Cardinality(s \ {Some(s)}) \in Nat
           /\ Cardinality(s \ {Some(s)}) = Cardinality(s) - 1
<1>1. Some(s) \in s
  BY DEF Some
<1> QED
  BY <1>1, FS_RemoveElement, FS_CardinalityType

\* g is right about the sets of at most n elements.
UpTo(f, S, n, g) == \A s \in SUBSET S : Cardinality(s) <= n => g[s] = Plus(f, s, g)

LEMMA Extend ==
    ASSUME NEW f, NEW S, IsFiniteSet(S), NEW n \in Nat, NEW g, UpTo(f, S, n, g)
    PROVE  UpTo(f, S, n + 1, [s \in SUBSET S |-> Plus(f, s, g)])
<1> DEFINE h == [s \in SUBSET S |-> Plus(f, s, g)]
<1> SUFFICES ASSUME NEW s \in SUBSET S, Cardinality(s) <= n + 1
             PROVE  h[s] = Plus(f, s, h)
  BY DEF UpTo
<1>1. h[s] = Plus(f, s, g)
  OBVIOUS
<1>2. CASE s = {}
  BY <1>1, <1>2 DEF Plus
<1>3. CASE s # {}
  <2> DEFINE r == s \ {Some(s)}
  <2>1. IsFiniteSet(s)
    BY FS_Subset
  <2>2. r \in SUBSET S /\ Cardinality(r) <= n
    <3>1. Cardinality(s) \in Nat /\ Cardinality(r) = Cardinality(s) - 1
      BY <1>3, <2>1, SmallerSet
    <3> QED
      BY <3>1
  <2>3. g[r] = Plus(f, r, g)
    BY <2>2 DEF UpTo
  <2>4. h[r] = g[r]
    BY <2>2, <2>3
  <2> HIDE DEF h, r
  <2>5. Plus(f, s, g) = f[Some(s)] + g[r] /\ Plus(f, s, h) = f[Some(s)] + h[r]
    BY <1>3 DEF Plus, r
  <2> QED
    BY <1>1, <2>4, <2>5
<1> QED
  BY <1>2, <1>3

LEMMA TotalExists ==
    ASSUME NEW f, NEW S, IsFiniteSet(S)
    PROVE  Total(f, S) = [s \in SUBSET S |-> Plus(f, s, Total(f, S))]
<1> DEFINE Bad == {n \in Nat : ~ \E g : UpTo(f, S, n, g)}
<1>1. Bad = {}
  <2> SUFFICES ASSUME Bad # {} PROVE FALSE
    OBVIOUS
  <2>1. PICK n \in Bad : \A m \in Bad : n <= m
    BY LeastNatural
  <2>2. n \in Nat /\ ~ \E g : UpTo(f, S, n, g)
    BY <2>1
  <2>3. n # 0
    <3>1. ASSUME NEW s \in SUBSET S, Cardinality(s) <= 0 PROVE s = {}
      BY <3>1, FS_Subset, FS_EmptySet, FS_CardinalityType
    <3>2. UpTo(f, S, 0, [s \in SUBSET S |-> 0])
      BY <3>1 DEF UpTo, Plus
    <3> QED
      BY <2>2, <3>2
  <2>4. n - 1 \in Nat /\ n - 1 \notin Bad
    BY <2>1, <2>2, <2>3
  <2>5. PICK g : UpTo(f, S, n - 1, g)
    BY <2>4
  <2>6. UpTo(f, S, (n - 1) + 1, [s \in SUBSET S |-> Plus(f, s, g)])
    BY <2>4, <2>5, Extend
  <2>7. (n - 1) + 1 = n
    BY <2>2
  <2> QED
    BY <2>2, <2>6, <2>7
<1>2. PICK g : UpTo(f, S, Cardinality(S), g)
  BY <1>1, FS_CardinalityType
<1> DEFINE h == [s \in SUBSET S |-> g[s]]
<1>3. ASSUME NEW s \in SUBSET S PROVE g[s] = Plus(f, s, h)
  <2>1. Cardinality(s) <= Cardinality(S)
    BY FS_Subset
  <2>2. g[s] = Plus(f, s, g)
    BY <1>2, <2>1 DEF UpTo
  <2>3. h[s \ {Some(s)}] = g[s \ {Some(s)}]
    OBVIOUS
  <2> QED
    BY <2>2, <2>3 DEF Plus
<1>4. h = [s \in SUBSET S |-> Plus(f, s, h)]
  BY <1>3
<1> HIDE DEF h
<1>5. \E k : k = [s \in SUBSET S |-> Plus(f, s, k)]
  BY <1>4
<1> QED
  BY <1>5, Zenon DEF Total

LEMMA TotalAt ==
    ASSUME NEW f, NEW S, IsFiniteSet(S), NEW s \in SUBSET S
    PROVE  Total(f, S)[s] = Plus(f, s, Total(f, S))
<1> DEFINE g == Total(f, S)
<1>1. g = [r \in SUBSET S |-> Plus(f, r, g)]
  BY TotalExists
<1> HIDE DEF g
<1>2. g[s] = Plus(f, s, g)
  BY <1>1
<1> QED
  BY <1>2 DEF g

LEMMA TotalStep ==
    ASSUME NEW f, NEW S, IsFiniteSet(S), NEW s \in SUBSET S, s # {}
    PROVE  /\ Some(s) \in s
           /\ Total(f, S)[s] = f[Some(s)] + Total(f, S)[s \ {Some(s)}]
<1>1. Some(s) \in s
  BY DEF Some
<1>2. Plus(f, s, Total(f, S)) = f[Some(s)] + Total(f, S)[s \ {Some(s)}]
  BY DEF Plus
<1> QED
  BY <1>1, <1>2, TotalAt

-----------------------------------------------------------------------------
(* Sums of numbers.                                                        *)

(* Induction over the cardinality of the subsets of S for the property of   *)
(* being in Good.                                                           *)
LEMMA SubsetInduction ==
    ASSUME NEW S, IsFiniteSet(S), NEW Good, {} \in Good,
           \A s \in SUBSET S :
              s # {} /\ (\A r \in SUBSET s : r # s => r \in Good) => s \in Good
    PROVE  SUBSET S \subseteq Good
<1> DEFINE Bad == {n \in Nat : \E s \in SUBSET S : Cardinality(s) = n /\ s \notin Good}
<1> SUFFICES ASSUME NEW t \in SUBSET S, t \notin Good PROVE FALSE
  OBVIOUS
<1>1. Cardinality(t) \in Bad
  BY FS_Subset, FS_CardinalityType
<1>2. PICK n \in Bad : \A m \in Bad : n <= m
  BY <1>1, LeastNatural
<1>3. PICK s \in SUBSET S : Cardinality(s) = n /\ s \notin Good
  BY <1>2
<1>4. ASSUME NEW r \in SUBSET s, r # s PROVE r \in Good
  <2>1. IsFiniteSet(s) /\ IsFiniteSet(r)
    BY FS_Subset
  <2>2. Cardinality(r) \in Nat /\ Cardinality(s) \in Nat /\ Cardinality(r) < Cardinality(s)
    BY <1>4, <2>1, FS_Subset, FS_CardinalityType
  <2>3. Cardinality(r) \notin Bad
    BY <1>2, <1>3, <2>2
  <2> QED
    BY <2>2, <2>3
<1> QED
  BY <1>3, <1>4

LEMMA TotalInt ==
    ASSUME NEW f, NEW S, IsFiniteSet(S)
    PROVE  (\A x \in S : f[x] \in Int) => \A s \in SUBSET S : Total(f, S)[s] \in Int
<1>0. \A s \in SUBSET S : s # {} => Total(f, S)[s] = f[Some(s)] + Total(f, S)[s \ {Some(s)}]
  BY TotalStep
<1> SUFFICES ASSUME \A x \in S : f[x] \in Int
             PROVE  \A s \in SUBSET S : Total(f, S)[s] \in Int
  OBVIOUS
<1> DEFINE Good == {s \in SUBSET S : Total(f, S)[s] \in Int}
<1>1. {} \in Good
  BY TotalAt DEF Plus
<1>2. ASSUME NEW s \in SUBSET S, s # {}, \A r \in SUBSET s : r # s => r \in Good
      PROVE  s \in Good
  <2>1. Some(s) \in s
    BY <1>2 DEF Some
  <2>2. Total(f, S)[s \ {Some(s)}] \in Int /\ f[Some(s)] \in Int
    BY <1>2, <2>1
  <2>3. Total(f, S)[s] = f[Some(s)] + Total(f, S)[s \ {Some(s)}]
    BY <1>0, <1>2
  <2> QED
    BY <2>2, <2>3
<1> HIDE DEF Good
<1>3. SUBSET S \subseteq Good
  BY <1>1, <1>2, SubsetInduction
<1> QED
  BY <1>3 DEF Good

LEMMA TotalNat ==
    ASSUME NEW f, NEW S, IsFiniteSet(S)
    PROVE  (\A x \in S : f[x] \in Nat) => \A s \in SUBSET S : Total(f, S)[s] \in Nat
<1>0. \A s \in SUBSET S : s # {} => Total(f, S)[s] = f[Some(s)] + Total(f, S)[s \ {Some(s)}]
  BY TotalStep
<1>00. Total(f, S)[{}] = 0
  BY TotalAt DEF Plus
<1> SUFFICES ASSUME \A x \in S : f[x] \in Nat
             PROVE  \A s \in SUBSET S : Total(f, S)[s] \in Nat
  OBVIOUS
<1> DEFINE Good == {s \in SUBSET S : Total(f, S)[s] \in Nat}
<1>1. {} \in Good
  BY <1>00
<1>2. ASSUME NEW s \in SUBSET S, s # {}, \A r \in SUBSET s : r # s => r \in Good
      PROVE  s \in Good
  <2>1. Some(s) \in s
    BY <1>2 DEF Some
  <2>2. Total(f, S)[s \ {Some(s)}] \in Nat /\ f[Some(s)] \in Nat
    BY <1>2, <2>1
  <2>3. Total(f, S)[s] = f[Some(s)] + Total(f, S)[s \ {Some(s)}]
    BY <1>0, <1>2
  <2> QED
    BY <2>2, <2>3
<1> HIDE DEF Good
<1>3. SUBSET S \subseteq Good
  BY <1>1, <1>2, SubsetInduction
<1> QED
  BY <1>3 DEF Good

(* Any element may be taken out first. *)
LEMMA TotalTakesOut ==
    ASSUME NEW f, NEW S, IsFiniteSet(S), \A x \in S : f[x] \in Int
    PROVE  \A s \in SUBSET S : \A x \in s : Total(f, S)[s] = f[x] + Total(f, S)[s \ {x}]
<1> DEFINE T == Total(f, S)
           Good == {s \in SUBSET S : \A x \in s : T[s] = f[x] + T[s \ {x}]}
<1>0. \A s \in SUBSET S : T[s] \in Int /\ (s # {} => T[s] = f[Some(s)] + T[s \ {Some(s)}])
  BY TotalInt, TotalStep
<1> HIDE DEF T
<1>1. {} \in Good
  OBVIOUS
<1>2. ASSUME NEW s \in SUBSET S, s # {}, \A r \in SUBSET s : r # s => r \in Good
      PROVE  s \in Good
  <2> SUFFICES ASSUME NEW x \in s PROVE T[s] = f[x] + T[s \ {x}]
    OBVIOUS
  <2> DEFINE y == Some(s)
  <2>1. y \in s /\ T[s] = f[y] + T[s \ {y}]
    BY <1>0, <1>2 DEF Some
  <2> HIDE DEF y
  <2>2. CASE x = y
    BY <2>1, <2>2
  <2>3. CASE x # y
    <3>1. s \ {y} \in Good /\ s \ {x} \in Good
      BY <1>2, <2>1
    <3>2. T[s \ {y}] = f[x] + T[(s \ {y}) \ {x}]
      BY <2>3, <3>1
    <3>3. T[s \ {x}] = f[y] + T[(s \ {x}) \ {y}]
      BY <2>1, <2>3, <3>1
    <3>4. (s \ {y}) \ {x} = (s \ {x}) \ {y} /\ (s \ {x}) \ {y} \in SUBSET S
      OBVIOUS
    <3>5. T[(s \ {x}) \ {y}] \in Int /\ f[x] \in Int /\ f[y] \in Int
      BY <1>0, <2>1, <3>4
    <3> DEFINE z == (s \ {x}) \ {y}
    <3>6. T[s \ {y}] = f[x] + T[z] /\ T[s \ {x}] = f[y] + T[z] /\ T[z] \in Int
      BY <3>2, <3>3, <3>4, <3>5
    <3> HIDE DEF z
    <3> QED
      BY <2>1, <3>5, <3>6
  <2> QED
    BY <2>2, <2>3
<1> HIDE DEF Good
<1>3. SUBSET S \subseteq Good
  BY <1>1, <1>2, SubsetInduction
<1> QED
  BY <1>3 DEF Good, T

(* A sum depends on the values at the elements of the set only. *)
LEMMA TotalAgrees ==
    ASSUME NEW S, IsFiniteSet(S), NEW R, IsFiniteSet(R), NEW U, U \subseteq S, U \subseteq R,
           NEW f, NEW g, \A x \in U : f[x] = g[x]
    PROVE  Total(f, S)[U] = Total(g, R)[U]
<1> DEFINE Good == {s \in SUBSET U : Total(f, S)[s] = Total(g, R)[s]}
<1>1. {} \in Good
  BY TotalAt DEF Plus
<1>2. ASSUME NEW s \in SUBSET U, s # {}, \A r \in SUBSET s : r # s => r \in Good
      PROVE  s \in Good
  <2>0. s \in SUBSET S /\ s \in SUBSET R /\ s # {}
    BY <1>2
  <2>1. Some(s) \in s
    BY <1>2 DEF Some
  <2>2. Total(f, S)[s \ {Some(s)}] = Total(g, R)[s \ {Some(s)}] /\ f[Some(s)] = g[Some(s)]
    BY <1>2, <2>1
  <2>3. Total(f, S)[s] = f[Some(s)] + Total(f, S)[s \ {Some(s)}]
    BY <2>0, TotalStep
  <2>4. Total(g, R)[s] = g[Some(s)] + Total(g, R)[s \ {Some(s)}]
    BY <2>0, TotalStep
  <2> QED
    BY <2>2, <2>3, <2>4
<1> HIDE DEF Good
<1>3. IsFiniteSet(U)
  BY FS_Subset
<1>4. SUBSET U \subseteq Good
  BY <1>1, <1>2, <1>3, SubsetInduction
<1> QED
  BY <1>4 DEF Good

-----------------------------------------------------------------------------
(* What the other modules cite.                                            *)

(* Nothing adds up to zero. *)
THEOREM SumEmpty == ASSUME NEW f PROVE SumOf(f, {}) = 0
  BY SumIsTotal, TotalAt, FS_EmptySet DEF Plus

(* The sum of numbers is a number. *)
THEOREM SumInt ==
    ASSUME NEW f, NEW S, IsFiniteSet(S), \A x \in S : f[x] \in Int
    PROVE  SumOf(f, S) \in Int
  BY SumIsTotal, TotalInt

(* The sum of natural numbers is a natural number. *)
THEOREM SumNat ==
    ASSUME NEW f, NEW S, IsFiniteSet(S), \A x \in S : f[x] \in Nat
    PROVE  SumOf(f, S) \in Nat
  BY SumIsTotal, TotalNat

(* Only the values at the elements of the set count. *)
THEOREM SumAgrees ==
    ASSUME NEW S, IsFiniteSet(S), NEW f, NEW g, \A x \in S : f[x] = g[x]
    PROVE  SumOf(f, S) = SumOf(g, S)
  BY SumIsTotal, TotalAgrees

(* Taking an element out of the set takes its value out of the sum. *)
THEOREM SumRemove ==
    ASSUME NEW f, NEW S, IsFiniteSet(S), \A x \in S : f[x] \in Int, NEW x \in S
    PROVE  SumOf(f, S) = f[x] + SumOf(f, S \ {x})
<1>1. IsFiniteSet(S \ {x})
  BY FS_RemoveElement
<1>2. Total(f, S)[S \ {x}] = Total(f, S \ {x})[S \ {x}]
  BY <1>1, TotalAgrees
<1>3. Total(f, S)[S] = f[x] + Total(f, S)[S \ {x}]
  BY TotalTakesOut
<1> QED
  BY <1>2, <1>3, SumIsTotal

(* A new element adds its value. *)
THEOREM SumAdd ==
    ASSUME NEW f, NEW S, IsFiniteSet(S), NEW x, x \notin S,
           \A y \in S \union {x} : f[y] \in Int
    PROVE  SumOf(f, S \union {x}) = f[x] + SumOf(f, S)
<1>1. IsFiniteSet(S \union {x}) /\ (S \union {x}) \ {x} = S
  BY FS_AddElement
<1> QED
  BY <1>1, SumRemove

(* A value that changes changes the sum by as much. *)
THEOREM SumChange ==
    ASSUME NEW S, IsFiniteSet(S), NEW x \in S, NEW f, NEW g,
           \A y \in S : f[y] \in Int /\ g[y] \in Int,
           \A y \in S \ {x} : g[y] = f[y]
    PROVE  SumOf(g, S) = SumOf(f, S) - f[x] + g[x]
<1>1. IsFiniteSet(S \ {x})
  BY FS_RemoveElement
<1>2. SumOf(g, S \ {x}) = SumOf(f, S \ {x})
  BY <1>1, SumAgrees
<1>3. SumOf(f, S) = f[x] + SumOf(f, S \ {x}) /\ SumOf(g, S) = g[x] + SumOf(g, S \ {x})
  BY SumRemove
<1>4. SumOf(f, S \ {x}) \in Int
  BY <1>1, SumInt
<1> QED
  BY <1>2, <1>3, <1>4
=============================================================================
