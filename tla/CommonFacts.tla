---------------------------- MODULE CommonFacts ----------------------------
(***************************************************************************)
(* Facts about bags of messages in flight, natural numbers, and sums over  *)
(* finite sets.                                                            *)
(***************************************************************************)
EXTENDS Integers, Bags, FiniteSets, FiniteSetTheorems, WellFoundedInduction, TLAPS

Ext == INSTANCE BagsExt

\* Sending adds messages to the wire, a delivery takes one copy off it.
LEMMA WireAdd ==
  ASSUME NEW B, IsABag(B), NEW S
  PROVE  /\ IsABag(B (+) SetToBag(S))
         /\ BagToSet(B (+) SetToBag(S)) = BagToSet(B) \cup S
  BY DEF IsABag, BagToSet, SetToBag, (+)

LEMMA WireRemove ==
  ASSUME NEW B, IsABag(B), NEW m \in BagToSet(B)
  PROVE  /\ IsABag(Ext!BagRemove(B, m))
         /\ BagToSet(Ext!BagRemove(B, m)) \subseteq BagToSet(B)
         /\ BagToSet(B) \ {m} \subseteq BagToSet(Ext!BagRemove(B, m))
  BY DEF IsABag, BagToSet, Ext!BagRemove

\* A set of messages, each once, is a bag; bags of messages add up.
LEMMA SetIsBag ==
  ASSUME NEW S
  PROVE  IsABag(SetToBag(S)) /\ DOMAIN SetToBag(S) = S /\ \A x \in S : SetToBag(S)[x] = 1
  BY DEF IsABag, SetToBag

LEMMA BagSum ==
  ASSUME NEW B, IsABag(B), NEW C, IsABag(C)
  PROVE  /\ IsABag(B (+) C)
         /\ DOMAIN (B (+) C) = DOMAIN B \cup DOMAIN C
         /\ \A x \in DOMAIN B \ DOMAIN C : (B (+) C)[x] = B[x]
         /\ \A x \in DOMAIN C \ DOMAIN B : (B (+) C)[x] = C[x]
<1>1. DOMAIN (B (+) C) = DOMAIN B \cup DOMAIN C
  BY DEF (+)
<1>2. \A x \in DOMAIN B \cup DOMAIN C :
        (B (+) C)[x] = (IF x \in DOMAIN B THEN B[x] ELSE 0) + (IF x \in DOMAIN C THEN C[x] ELSE 0)
  BY DEF (+)
<1>3. (\A x \in DOMAIN B : B[x] \in Nat \ {0}) /\ (\A x \in DOMAIN C : C[x] \in Nat \ {0})
  BY DEF IsABag
<1>4. \A x \in DOMAIN B \cup DOMAIN C : (B (+) C)[x] \in Nat \ {0}
  BY <1>2, <1>3
<1>5. IsABag(B (+) C)
  BY <1>1, <1>4 DEF IsABag, (+)
<1>6. QED BY <1>1, <1>2, <1>3, <1>5

LEMMA BagDifference ==
  ASSUME NEW B, IsABag(B), NEW S
  PROVE  IsABag(B (-) SetToBag(S)) /\ DOMAIN (B (-) SetToBag(S)) \subseteq DOMAIN B
  BY DEF IsABag, SetToBag, (-)

LEMMA BagDifferenceLeaves ==
  ASSUME NEW B, IsABag(B), NEW S
  PROVE  \A x \in DOMAIN B \ S : x \in DOMAIN (B (-) SetToBag(S)) /\ (B (-) SetToBag(S))[x] = B[x]
  BY DEF IsABag, SetToBag, (-)

\* Taking a copy of m leaves the other messages as they were.
LEMMA BagTake ==
  ASSUME NEW B, IsABag(B), NEW m \in DOMAIN B
  PROVE  /\ IsABag(Ext!BagRemove(B, m))
         /\ DOMAIN B \ {m} \subseteq DOMAIN Ext!BagRemove(B, m)
         /\ DOMAIN Ext!BagRemove(B, m) \subseteq DOMAIN B
         /\ \A x \in DOMAIN B \ {m} : Ext!BagRemove(B, m)[x] = B[x]
         /\ B[m] = 1 => m \notin DOMAIN Ext!BagRemove(B, m)
  BY DEF IsABag, Ext!BagRemove
-----------------------------------------------------------------------------
\* A nonempty set of natural numbers has a least element.
LEMMA LeastNatural ==
  ASSUME NEW S \in SUBSET Nat, S # {}
  PROVE  \E n \in S : \A m \in S : n <= m
<1>1. PICK n \in S : \A m \in S : <<m, n>> \notin OpToRel(<, Nat)
  BY NatLessThanWellFounded, WFMin, Zenon
<1>2. \A m \in S : ~ (m < n)
  BY <1>1, Zenon DEF OpToRel
<1>3. QED BY <1>2

\* Sums, products, differences and ranges of natural numbers.
LEMMA NaturalArithmetic ==
  /\ \A a, b \in Nat : a + b \in Nat /\ a * b \in Nat
  /\ \A a \in Nat : a + 1 \in Nat
  /\ \A a, b \in Nat : a < b => b - a \in Nat
  /\ \A a \in Nat : \A b \in 0..a : b \in Nat
  OBVIOUS

-----------------------------------------------------------------------------
\* Parts and unions of finite sets are finite, and something can be counted in them.
LEMMA FiniteParts ==
  /\ IsFiniteSet({})
  /\ \A x : IsFiniteSet({x})
  /\ \A S, T : IsFiniteSet(S) /\ T \subseteq S => IsFiniteSet(T)
  /\ \A S, T : IsFiniteSet(S) /\ IsFiniteSet(T) => IsFiniteSet(S \cup T)
  BY FS_EmptySet, FS_Singleton, FS_Subset, FS_Union

\* Counting with functions: what is put one to one into T is no more than T, and as
\* much as its images.
LEMMA InjectionCount ==
  ASSUME NEW S, NEW T, IsFiniteSet(T), NEW f, \A x \in S : f[x] \in T,
         \A x, y \in S : f[x] = f[y] => x = y
  PROVE  IsFiniteSet(S) /\ Cardinality(S) <= Cardinality(T)
<1>1. [x \in S |-> f[x]] \in Injection(S, T)
  BY DEF Injection, IsInjective
<1>2. QED BY <1>1, FS_Injection

LEMMA ImageCount ==
  ASSUME NEW S, IsFiniteSet(S), NEW f, \A x, y \in S : f[x] = f[y] => x = y
  PROVE  IsFiniteSet({f[x] : x \in S}) /\ Cardinality({f[x] : x \in S}) = Cardinality(S)
<1> DEFINE T == {f[x] : x \in S}
<1>1. [x \in S |-> f[x]] \in Surjection(S, T)
  BY DEF Surjection
<1>2. [x \in S |-> f[x]] \in Injection(S, T)
  BY DEF Injection, IsInjective
<1> HIDE DEF T
<1>3. IsFiniteSet(T) /\ Cardinality(T) = Cardinality(S)
  BY <1>1, <1>2, FS_Surjection
<1>4. QED BY <1>3 DEF T

LEMMA OneMoreElement ==
  ASSUME NEW S, IsFiniteSet(S), NEW x, x \notin S
  PROVE  IsFiniteSet(S \cup {x}) /\ Cardinality(S \cup {x}) = Cardinality(S) + 1
  BY FS_AddElement

LEMMA OneElement == \A x : Cardinality({x}) = 1
  BY FS_Singleton

LEMMA Multiplicity ==
  ASSUME NEW S, IsFiniteSet(S), S # {}
  PROVE  Cardinality(S) \in Nat \ {0}
  BY FS_CardinalityType, FS_EmptySet
\* Counting: a part is no larger, a proper part is smaller, one element is one more.
LEMMA Counting ==
  ASSUME NEW S, IsFiniteSet(S)
  PROVE  /\ Cardinality(S) \in Nat /\ Cardinality({}) = 0
         /\ \A T \in SUBSET S : Cardinality(T) \in Nat /\ Cardinality(T) <= Cardinality(S)
         /\ \A T \in SUBSET S : \A x \in S \ T : Cardinality(T) + 1 <= Cardinality(S)
         /\ \A x : Cardinality(S \cup {x}) <= Cardinality(S) + 1
<1>1. Cardinality(S) \in Nat
  BY FS_CardinalityType
<1>2. ASSUME NEW T \in SUBSET S PROVE Cardinality(T) \in Nat /\ Cardinality(T) <= Cardinality(S)
  BY FS_Subset, FS_CardinalityType
<1>3. ASSUME NEW T \in SUBSET S, NEW x \in S \ T PROVE Cardinality(T) + 1 <= Cardinality(S)
  <2>1. IsFiniteSet(T) /\ Cardinality(T) \in Nat
    BY FS_Subset, FS_CardinalityType
  <2>2. Cardinality(T \cup {x}) = Cardinality(T) + 1
    BY <2>1, FS_AddElement
  <2>3. QED BY <1>2, <2>2
<1>4. ASSUME NEW x PROVE Cardinality(S \cup {x}) <= Cardinality(S) + 1
  <2>1. CASE x \in S
    <3>1. S \cup {x} = S
      BY <2>1
    <3>2. QED BY <1>1, <3>1
  <2>2. CASE x \notin S
    <3>1. Cardinality(S \cup {x}) = Cardinality(S) + 1
      BY <2>2, FS_AddElement
    <3>2. QED BY <1>1, <3>1
  <2>3. QED BY <2>1, <2>2
<1>5. QED BY <1>1, <1>2, <1>3, <1>4, FS_EmptySet

\* How many numbers an interval holds, and that disjoint sets add up.
LEMMA IntervalCount ==
  ASSUME NEW a \in Int, NEW b \in Int
  PROVE  /\ IsFiniteSet(a..b)
         /\ a <= b + 1 => Cardinality(a..b) = b - a + 1
<1>1. IsFiniteSet(a..b) /\ Cardinality(a..b) = IF a > b THEN 0 ELSE b - a + 1
  BY FS_Interval
<1>2. QED BY <1>1

LEMMA DisjointCount ==
  ASSUME NEW S, IsFiniteSet(S), NEW T, IsFiniteSet(T), S \cap T = {}
  PROVE  IsFiniteSet(S \cup T) /\ Cardinality(S \cup T) = Cardinality(S) + Cardinality(T)
<1>1. /\ IsFiniteSet(S \cup T)
      /\ Cardinality(S \cup T) = Cardinality(S) + Cardinality(T) - Cardinality(S \cap T)
  BY FS_Union
<1>2. Cardinality(S) \in Nat /\ Cardinality(T) \in Nat /\ Cardinality({}) = 0
  BY Counting
<1>3. Cardinality(S \cap T) = 0
  BY <1>2, Zenon
<1> DEFINE s == Cardinality(S)
           t == Cardinality(T)
<1>4. s \in Nat /\ t \in Nat /\ Cardinality(S \cup T) = s + t - 0
  BY <1>1, <1>2, <1>3
<1> HIDE DEF s, t
<1>5. Cardinality(S \cup T) = s + t
  BY <1>4
<1>6. QED BY <1>1, <1>5 DEF s, t

-----------------------------------------------------------------------------
(***************************************************************************)
(* Sums over finite sets, SumFunctionOnSet of the library's Functions: it  *)
(* is a recursive function of sets, so its facts go by the least part of   *)
(* the set at which they fail.                                             *)
(***************************************************************************)
\* A nonempty set of subsets of a finite set has a least element.
LEMMA LeastSubset ==
  ASSUME NEW S, IsFiniteSet(S), NEW B \in SUBSET (SUBSET S), B # {}
  PROVE  \E T \in B : \A U \in B : U \subseteq T => U = T
<1>1. IsWellFoundedOn(StrictSubsetOrdering(S), FiniteSubsetsOf(S))
  BY FS_StrictSubsetOrderingWellFounded
<1>2. FiniteSubsetsOf(S) = SUBSET S
  BY FS_FiniteSubsetsOfFinite
<1>3. PICK T \in B : \A U \in B : <<U, T>> \notin StrictSubsetOrdering(S)
  BY <1>1, <1>2, WFMin, Zenon
<1>4. \A U \in B : U \subseteq T => U = T
  BY <1>3 DEF StrictSubsetOrdering
<1>5. QED BY <1>4

\* The element that SumFunctionOnSet takes out of a set first.
Some(s) == CHOOSE x \in s : TRUE
\* SumFunctionOnSet(f, S) is this recursive function of the parts of S, at S.
PartSums(f, S) ==
  CHOOSE g : g = [s \in SUBSET S |-> IF s = {} THEN 0 ELSE f[Some(s)] + g[s \ {Some(s)}]]

\* The library's fold of f over S is PartSums(f, S) at S.
LEMMA SumIsPartSum ==
  ASSUME NEW f, NEW S
  PROVE  SumFunctionOnSet(f, S) = PartSums(f, S)[S]
  BY Zenon DEF SumFunctionOnSet, FoldFunctionOnSet, MapThenFoldSet, PartSums, Some

\* The sum of f over S, and what the recursion says g is at the part s.
Total(f, S) == PartSums(f, S)[S]
Adds(f, g, s) == g[s] = IF s = {} THEN 0 ELSE f[Some(s)] + g[s \ {Some(s)}]

\* What is taken out of a nonempty set is one of its elements.
LEMMA SomeFacts == \A s : s # {} => Some(s) \in s
  BY DEF Some

\* If some function obeys the recursion, PartSums is one that does.
LEMMA PartSumsAre ==
  ASSUME NEW f, NEW S, NEW g, DOMAIN g = SUBSET S, g = [s \in SUBSET S |-> g[s]],
         \A s \in SUBSET S : Adds(f, g, s)
  PROVE  /\ DOMAIN PartSums(f, S) = SUBSET S
         /\ \A s \in SUBSET S : Adds(f, PartSums(f, S), s)
<1>1. g = [s \in SUBSET S |-> IF s = {} THEN 0 ELSE f[Some(s)] + g[s \ {Some(s)}]]
  BY Zenon DEF Adds
<1> DEFINE p == PartSums(f, S)
<1>2. p = [s \in SUBSET S |-> IF s = {} THEN 0 ELSE f[Some(s)] + p[s \ {Some(s)}]]
  BY <1>1, Zenon DEF PartSums
<1> HIDE DEF p
<1>3. DOMAIN p = SUBSET S /\ \A s \in SUBSET S : Adds(f, p, s)
  BY <1>2, Zenon DEF Adds
<1>4. QED BY <1>3 DEF p

\* The sum over a part is the same whatever it is a part of.
Summed(f, T) ==
  /\ DOMAIN PartSums(f, T) = SUBSET T
  /\ \A u \in SUBSET T : Adds(f, PartSums(f, T), u)
  /\ \A u \in SUBSET T : PartSums(f, T)[u] = Total(f, u)

\* The recursion has a solution on every part of a finite set: none is the least
\* part on which it has none.
LEMMA SumsExist ==
  ASSUME NEW f, NEW S, IsFiniteSet(S)
  PROVE  \A T \in SUBSET S : Summed(f, T)
<1> DEFINE B == {T \in SUBSET S : ~Summed(f, T)}
<1> SUFFICES ASSUME B # {} PROVE FALSE
  OBVIOUS
<1>1. PICK T \in B : \A U \in B : U \subseteq T => U = T
  <2> HIDE DEF B
  <2>1. B \in SUBSET (SUBSET S)
    BY DEF B
  <2>2. QED BY <2>1, LeastSubset
<1>2. \A U \in SUBSET T : U # T => Summed(f, U)
  BY <1>1
<1>3. \A u \in SUBSET T : u # {} => Some(u) \in u /\ u \ {Some(u)} \in SUBSET T /\ u \ {Some(u)} # T
  BY SomeFacts
<1>4. \A u \in SUBSET T : u # T /\ u # {} => Total(f, u) = f[Some(u)] + Total(f, u \ {Some(u)})
  <2> SUFFICES ASSUME NEW u \in SUBSET T, u # T, u # {}
               PROVE  Total(f, u) = f[Some(u)] + Total(f, u \ {Some(u)})
    OBVIOUS
  <2>1. Summed(f, u)
    BY <1>2
  <2>2. u \in SUBSET u /\ u \ {Some(u)} \in SUBSET u
    OBVIOUS
  <2>3. Adds(f, PartSums(f, u), u)
    BY <2>1, <2>2, Zenon DEF Summed
  <2>4. PartSums(f, u)[u \ {Some(u)}] = Total(f, u \ {Some(u)})
    BY <2>1, <2>2, Zenon DEF Summed
  <2>5. QED BY <2>3, <2>4 DEF Adds, Total
<1>5. T # {} => Total(f, {}) = 0
  <2> SUFFICES ASSUME T # {} PROVE Total(f, {}) = 0
    OBVIOUS
  <2>1. Summed(f, {})
    BY <1>2
  <2>2. Adds(f, PartSums(f, {}), {})
    BY <2>1 DEF Summed
  <2>3. QED BY <2>2 DEF Adds, Total
<1> DEFINE top == IF T = {} THEN 0 ELSE f[Some(T)] + Total(f, T \ {Some(T)})
           h == [u \in SUBSET T |-> IF u = T THEN top ELSE Total(f, u)]
<1>6. \A u \in SUBSET T : Adds(f, h, u)
  <2> SUFFICES ASSUME NEW u \in SUBSET T PROVE Adds(f, h, u)
    OBVIOUS
  <2>1. u # {} => h[u \ {Some(u)}] = Total(f, u \ {Some(u)})
    BY <1>3
  <2>2. CASE u = {}
    BY <1>5, <2>2 DEF Adds
  <2>3. CASE u # {} /\ u = T
    BY <2>1, <2>3 DEF Adds
  <2>4. CASE u # {} /\ u # T
    <3>1. h[u] = Total(f, u)
      BY <2>4
    <3>2. QED BY <1>4, <2>1, <2>4, <3>1 DEF Adds
  <2>5. QED BY <2>2, <2>3, <2>4
<1>7. /\ DOMAIN PartSums(f, T) = SUBSET T
      /\ \A u \in SUBSET T : Adds(f, PartSums(f, T), u)
  <2>1. DOMAIN h = SUBSET T /\ h = [s \in SUBSET T |-> h[s]]
    OBVIOUS
  <2> HIDE DEF h
  <2>2. QED BY <1>6, <2>1, PartSumsAre
<1> HIDE DEF h, top
<1>8. \A u \in SUBSET T : PartSums(f, T)[u] = Total(f, u)
  <2> DEFINE C == {u \in SUBSET T : PartSums(f, T)[u] # Total(f, u)}
  <2> SUFFICES ASSUME C # {} PROVE FALSE
    OBVIOUS
  <2>1. IsFiniteSet(T) /\ C \in SUBSET (SUBSET T)
    BY FiniteParts
  <2>2. PICK u \in C : \A w \in C : w \subseteq u => w = u
    <3> HIDE DEF C
    <3>1. QED BY <2>1, LeastSubset
  <2>3. u # T
    BY DEF Total
  <2>4. u # {}
    BY <1>5, <1>7, <2>3 DEF Adds
  <2>5. u \ {Some(u)} \notin C /\ u \ {Some(u)} \in SUBSET T
    BY <1>3, <2>2, <2>4
  <2>6. PartSums(f, T)[u] = f[Some(u)] + PartSums(f, T)[u \ {Some(u)}]
    BY <1>7, <2>4 DEF Adds
  <2>7. QED BY <1>4, <2>3, <2>4, <2>5, <2>6
<1>9. QED BY <1>1, <1>7, <1>8 DEF Summed

\* One step of the fold.
LEMMA SumUnfolds ==
  ASSUME NEW f, NEW S, IsFiniteSet(S)
  PROVE  SumFunctionOnSet(f, S) = IF S = {} THEN 0
           ELSE f[Some(S)] + SumFunctionOnSet(f, S \ {Some(S)})
<1>1. Summed(f, S)
  BY SumsExist
<1>2. Adds(f, PartSums(f, S), S)
  BY <1>1, Zenon DEF Summed
<1>3. PartSums(f, S)[S \ {Some(S)}] = Total(f, S \ {Some(S)})
  BY <1>1 DEF Summed
<1>4. SumFunctionOnSet(f, S) = Total(f, S) /\ SumFunctionOnSet(f, S \ {Some(S)}) = Total(f, S \ {Some(S)})
  BY SumIsPartSum DEF Total
<1>5. QED BY <1>2, <1>3, <1>4 DEF Adds, Total

\* A sum of numbers is a number, of natural numbers a natural number.
LEMMA SumType ==
  ASSUME NEW f, NEW S, IsFiniteSet(S), NEW N \in {Nat, Int}, \A x \in S : f[x] \in N
  PROVE  SumFunctionOnSet(f, S) \in N
<1> DEFINE sum(T) == SumFunctionOnSet(f, T)
           B == {T \in SUBSET S : sum(T) \notin N}
<1> SUFFICES ASSUME B # {} PROVE FALSE
  OBVIOUS
<1>1. B \in SUBSET (SUBSET S)
  OBVIOUS
<1> HIDE DEF B
<1>2. PICK T \in B : \A U \in B : U \subseteq T => U = T
  BY <1>1, LeastSubset
<1>3. IsFiniteSet(T) /\ T \subseteq S
  BY <1>1, <1>2, FiniteParts
<1>4. sum(T) = IF T = {} THEN 0 ELSE f[Some(T)] + sum(T \ {Some(T)})
  BY <1>3, SumUnfolds
<1> HIDE DEF sum
<1>5. T # {}
  BY <1>4 DEF B
<1>6. Some(T) \in T
  BY <1>5, SomeFacts
<1>7. sum(T \ {Some(T)}) \in N /\ f[Some(T)] \in N
  BY <1>1, <1>2, <1>3, <1>6 DEF B
<1>8. QED BY <1>4, <1>5, <1>7 DEF B

\* Any element can be taken out of a sum first.
LEMMA SumTake ==
  ASSUME NEW f, NEW S, IsFiniteSet(S), \A x \in S : f[x] \in Int, NEW x \in S
  PROVE  SumFunctionOnSet(f, S) = f[x] + SumFunctionOnSet(f, S \ {x})
<1> DEFINE sum(T) == SumFunctionOnSet(f, T)
           B == {T \in SUBSET S : \E y \in T : sum(T) # f[y] + sum(T \ {y})}
<1> SUFFICES ASSUME B # {} PROVE FALSE
  OBVIOUS
<1>1. B \in SUBSET (SUBSET S)
  OBVIOUS
<1> HIDE DEF B
<1>2. PICK T \in B : \A U \in B : U \subseteq T => U = T
  BY <1>1, LeastSubset
<1>3. IsFiniteSet(T) /\ T \subseteq S
  BY <1>1, <1>2, FiniteParts
<1>4. PICK y \in T : sum(T) # f[y] + sum(T \ {y})
  BY <1>2 DEF B
<1> DEFINE z == Some(T)
<1>5. z \in T
  BY <1>4, SomeFacts
<1>6. sum(T) = f[z] + sum(T \ {z})
  BY <1>3, <1>4, SumUnfolds
<1>7. \A U \in SUBSET S : sum(U) \in Int
  <2> SUFFICES ASSUME NEW U \in SUBSET S PROVE sum(U) \in Int
    OBVIOUS
  <2>1. IsFiniteSet(U) /\ \A w \in U : f[w] \in Int
    BY FiniteParts
  <2>2. QED BY <2>1, SumType
<1> HIDE DEF sum, z
<1>8. y # z
  BY <1>4, <1>6
<1>9. T \ {z} \notin B /\ T \ {y} \notin B
  BY <1>2, <1>4, <1>5
<1>10. sum(T \ {z}) = f[y] + sum((T \ {z}) \ {y}) /\ sum(T \ {y}) = f[z] + sum((T \ {y}) \ {z})
  BY <1>3, <1>4, <1>5, <1>8, <1>9 DEF B
<1>11. (T \ {z}) \ {y} = (T \ {y}) \ {z}
  OBVIOUS
<1> DEFINE rest == (T \ {y}) \ {z}
<1>12. sum(rest) \in Int /\ f[y] \in Int /\ f[z] \in Int
  BY <1>3, <1>4, <1>5, <1>7
<1> HIDE DEF rest
<1>13. sum(T) = f[z] + (f[y] + sum(rest)) /\ sum(T \ {y}) = f[z] + sum(rest)
  BY <1>6, <1>10, <1>11 DEF rest
<1>14. QED BY <1>4, <1>12, <1>13

\* A new element adds its value.
LEMMA SumAdd ==
  ASSUME NEW f, NEW S, IsFiniteSet(S), \A x \in S : f[x] \in Int, NEW x, x \notin S, f[x] \in Int
  PROVE  SumFunctionOnSet(f, S \cup {x}) = SumFunctionOnSet(f, S) + f[x]
<1>1. IsFiniteSet(S \cup {x}) /\ (S \cup {x}) \ {x} = S
  BY FiniteParts
<1>2. \A y \in S \cup {x} : f[y] \in Int
  OBVIOUS
<1>3. SumFunctionOnSet(f, S \cup {x}) = f[x] + SumFunctionOnSet(f, S)
  BY <1>1, <1>2, SumTake
<1>4. SumFunctionOnSet(f, S) \in Int
  BY SumType
<1>5. QED BY <1>3, <1>4

\* The empty sum.
LEMMA SumEmpty == ASSUME NEW f PROVE SumFunctionOnSet(f, {}) = 0
  BY FiniteParts, SumUnfolds

\* Only the values on the set count.
LEMMA SumSame ==
  ASSUME NEW f, NEW g, NEW S, IsFiniteSet(S), \A x \in S : f[x] = g[x]
  PROVE  SumFunctionOnSet(f, S) = SumFunctionOnSet(g, S)
<1> DEFINE B == {T \in SUBSET S : SumFunctionOnSet(f, T) # SumFunctionOnSet(g, T)}
<1> SUFFICES ASSUME B # {} PROVE FALSE
  OBVIOUS
<1>1. B \in SUBSET (SUBSET S)
  OBVIOUS
<1> HIDE DEF B
<1>2. PICK T \in B : \A U \in B : U \subseteq T => U = T
  BY <1>1, LeastSubset
<1>3. IsFiniteSet(T) /\ T \subseteq S
  BY <1>1, <1>2, FiniteParts
<1>4. /\ SumFunctionOnSet(f, T) = IF T = {} THEN 0 ELSE f[Some(T)] + SumFunctionOnSet(f, T \ {Some(T)})
      /\ SumFunctionOnSet(g, T) = IF T = {} THEN 0 ELSE g[Some(T)] + SumFunctionOnSet(g, T \ {Some(T)})
  BY <1>3, SumUnfolds
<1>5. T # {}
  BY <1>2, <1>4 DEF B
<1>6. Some(T) \in T
  BY <1>5, SomeFacts
<1>7. T \ {Some(T)} \notin B
  BY <1>2, <1>6
<1>8. SumFunctionOnSet(f, T \ {Some(T)}) = SumFunctionOnSet(g, T \ {Some(T)})
  BY <1>3, <1>7 DEF B
<1>9. QED BY <1>2, <1>3, <1>4, <1>6, <1>8 DEF B

\* A sum of zeros.
LEMMA SumZero ==
  ASSUME NEW f, NEW S, IsFiniteSet(S), \A x \in S : f[x] = 0
  PROVE  SumFunctionOnSet(f, S) = 0
<1> DEFINE B == {T \in SUBSET S : SumFunctionOnSet(f, T) # 0}
<1> SUFFICES ASSUME B # {} PROVE FALSE
  OBVIOUS
<1>1. B \in SUBSET (SUBSET S)
  OBVIOUS
<1> HIDE DEF B
<1>2. PICK T \in B : \A U \in B : U \subseteq T => U = T
  BY <1>1, LeastSubset
<1>3. IsFiniteSet(T) /\ T \subseteq S
  BY <1>1, <1>2, FiniteParts
<1>4. SumFunctionOnSet(f, T) = IF T = {} THEN 0 ELSE f[Some(T)] + SumFunctionOnSet(f, T \ {Some(T)})
  BY <1>3, SumUnfolds
<1>5. T # {}
  BY <1>2, <1>4 DEF B
<1>6. Some(T) \in T
  BY <1>5, SomeFacts
<1>7. T \ {Some(T)} \notin B
  BY <1>2, <1>6
<1>8. SumFunctionOnSet(f, T \ {Some(T)}) = 0
  BY <1>3, <1>7 DEF B
<1>9. QED BY <1>2, <1>3, <1>4, <1>5, <1>6, <1>8 DEF B

\* A value that changes changes the sum by as much.
LEMMA SumChange ==
  ASSUME NEW f, NEW g, NEW S, IsFiniteSet(S), \A y \in S : f[y] \in Int /\ g[y] \in Int,
         NEW x \in S, \A y \in S \ {x} : f[y] = g[y]
  PROVE  SumFunctionOnSet(g, S) = SumFunctionOnSet(f, S) + (g[x] - f[x])
<1>1. IsFiniteSet(S \ {x}) /\ \A y \in S \ {x} : f[y] \in Int
  BY FiniteParts
<1>2. SumFunctionOnSet(f, S \ {x}) = SumFunctionOnSet(g, S \ {x})
  BY <1>1, SumSame
<1>3. SumFunctionOnSet(f, S \ {x}) \in Int
  BY <1>1, SumType
<1>4. SumFunctionOnSet(f, S) = f[x] + SumFunctionOnSet(f, S \ {x})
  BY SumTake
<1>5. SumFunctionOnSet(g, S) = g[x] + SumFunctionOnSet(g, S \ {x})
  BY SumTake
<1>6. QED BY <1>2, <1>3, <1>4, <1>5
=============================================================================
