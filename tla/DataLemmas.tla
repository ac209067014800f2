----------------------------- MODULE DataLemmas -----------------------------
(***************************************************************************)
(* What the proofs about several modules need to know of the data that the *)
(* modules are built from: the queues of the code (its VecDeque and its    *)
(* channels), sums over finite sets, and the extremes of a finite set.     *)
(*                                                                         *)
(* Induction is stated over a set, not over a predicate: the provers do    *)
(* not instantiate a predicate, and find the least element of a set.       *)
(***************************************************************************)
EXTENDS Integers, Sequences, Functions, FiniteSetsExt, FiniteSetTheorems,
        SequenceTheorems, WellFoundedInduction, TLAPS

-----------------------------------------------------------------------------
(* What popping, appending and concatenating do to the elements of a queue *)

LEMMA RangeTail ==
  ASSUME NEW S, NEW q \in Seq(S), q # <<>>
  PROVE  /\ Head(q) \in S /\ Tail(q) \in Seq(S)
         /\ Len(Tail(q)) = Len(q) - 1
         /\ Range(q) = {Head(q)} \cup Range(Tail(q))
         /\ IsInjective(q) =>
              IsInjective(Tail(q)) /\ Head(q) \notin Range(Tail(q))
<1>1. /\ Len(q) \in Nat \ {0} /\ DOMAIN q = 1..Len(q)
      /\ Head(q) = q[1] /\ Head(q) \in S
      /\ Tail(q) \in Seq(S) /\ Len(Tail(q)) = Len(q) - 1
      /\ DOMAIN Tail(q) = 1..(Len(q) - 1)
      /\ \A i \in 1..(Len(q) - 1) : Tail(q)[i] = q[i + 1]
  BY HeadTailProperties
<1>2. Range(q) = {Head(q)} \cup Range(Tail(q))
  <2>1. ASSUME NEW i \in 1..Len(q) PROVE q[i] \in {Head(q)} \cup Range(Tail(q))
    <3>1. CASE i = 1
      BY <1>1, <3>1
    <3>2. CASE i # 1
      <4>1. i - 1 \in 1..(Len(q) - 1) /\ Tail(q)[i - 1] = q[i]
        BY <1>1, <2>1, <3>2
      <4> QED
        BY <1>1, <4>1 DEF Range
    <3> QED
      BY <3>1, <3>2
  <2>2. Range(q) \subseteq {Head(q)} \cup Range(Tail(q))
    BY <1>1, <2>1 DEF Range
  <2>3. Head(q) \in Range(q)
    BY <1>1 DEF Range
  <2>4. ASSUME NEW i \in 1..(Len(q) - 1) PROVE Tail(q)[i] \in Range(q)
    <3>1. i + 1 \in DOMAIN q /\ Tail(q)[i] = q[i + 1]
      BY <1>1
    <3> QED
      BY <3>1 DEF Range
  <2>5. Range(Tail(q)) \subseteq Range(q)
    BY <1>1, <2>4 DEF Range
  <2> QED
    BY <2>2, <2>3, <2>5
<1>3. ASSUME IsInjective(q)
      PROVE  IsInjective(Tail(q)) /\ Head(q) \notin Range(Tail(q))
  <2>1. IsInjective(Tail(q))
    <3> SUFFICES ASSUME NEW i \in 1..(Len(q) - 1), NEW j \in 1..(Len(q) - 1),
                        Tail(q)[i] = Tail(q)[j]
                 PROVE  i = j
      BY <1>1 DEF IsInjective
    <3>1. i + 1 \in DOMAIN q /\ j + 1 \in DOMAIN q /\ q[i + 1] = q[j + 1]
      BY <1>1
    <3>2. i + 1 = j + 1
      BY <1>3, <3>1 DEF IsInjective
    <3> QED
      BY <3>2
  <2>2. Head(q) \notin Range(Tail(q))
    <3> SUFFICES ASSUME NEW i \in 1..(Len(q) - 1), Tail(q)[i] = Head(q)
                 PROVE  FALSE
      BY <1>1 DEF Range
    <3>1. i + 1 \in DOMAIN q /\ 1 \in DOMAIN q /\ q[i + 1] = q[1]
      BY <1>1
    <3>2. i + 1 = 1
      BY <1>3, <3>1 DEF IsInjective
    <3> QED
      BY <3>2
  <2> QED
    BY <2>1, <2>2
<1> QED
  BY <1>1, <1>2, <1>3

LEMMA RangeConcat ==
  ASSUME NEW S, NEW p \in Seq(S), NEW q \in Seq(S)
  PROVE  /\ Len(p \o q) = Len(p) + Len(q)
         /\ Range(p \o q) = Range(p) \cup Range(q)
         /\ IsInjective(p) /\ IsInjective(q) /\ Range(p) \cap Range(q) = {}
              => IsInjective(p \o q)
<1>1. /\ Len(p) \in Nat /\ Len(q) \in Nat
      /\ DOMAIN p = 1..Len(p) /\ DOMAIN q = 1..Len(q)
      /\ Len(p \o q) = Len(p) + Len(q)
      /\ DOMAIN (p \o q) = 1..(Len(p) + Len(q))
      /\ \A i \in 1..Len(p) : (p \o q)[i] = p[i]
      /\ \A i \in (Len(p) + 1)..(Len(p) + Len(q)) : (p \o q)[i] = q[i - Len(p)]
  BY ConcatProperties, LenProperties
<1>2. Range(p \o q) = Range(p) \cup Range(q)
  BY RangeConcatenation
<1>3. ASSUME IsInjective(p), IsInjective(q), Range(p) \cap Range(q) = {}
      PROVE  IsInjective(p \o q)
  <2>1. ASSUME NEW i \in 1..(Len(p) + Len(q)), NEW j \in 1..(Len(p) + Len(q)),
               (p \o q)[i] = (p \o q)[j], i <= j
        PROVE  i = j
    <3>1. CASE j <= Len(p)
      <4>1. i \in DOMAIN p /\ j \in DOMAIN p /\ p[i] = p[j]
        BY <1>1, <2>1, <3>1
      <4> QED
        BY <1>3, <4>1 DEF IsInjective
    <3>2. CASE i > Len(p)
      <4>1. /\ i - Len(p) \in DOMAIN q /\ j - Len(p) \in DOMAIN q
            /\ q[i - Len(p)] = q[j - Len(p)]
        BY <1>1, <2>1, <3>2
      <4>2. i - Len(p) = j - Len(p)
        BY <1>3, <4>1 DEF IsInjective
      <4> QED
        BY <1>1, <4>2
    <3>3. CASE i <= Len(p) /\ j > Len(p)
      <4>1. i \in DOMAIN p /\ j - Len(p) \in DOMAIN q /\ p[i] = q[j - Len(p)]
        BY <1>1, <2>1, <3>3
      <4>2. p[i] \in Range(p) \cap Range(q)
        BY <4>1 DEF Range
      <4> QED
        BY <1>3, <4>2
    <3> QED
      BY <1>1, <3>1, <3>2, <3>3
  <2>2. \A i, j \in 1..(Len(p) + Len(q)) : i <= j \/ j <= i
    BY <1>1
  <2> QED
    BY <1>1, <2>1, <2>2 DEF IsInjective
<1> QED
  BY <1>1, <1>2, <1>3

LEMMA RangeAppend ==
  ASSUME NEW S, NEW p \in Seq(S), NEW e \in S
  PROVE  /\ Len(Append(p, e)) = Len(p) + 1
         /\ Range(Append(p, e)) = Range(p) \cup {e}
         /\ IsInjective(p) /\ e \notin Range(p) => IsInjective(Append(p, e))
<1> DEFINE q == <<e>>
<1>1. q \in Seq(S) /\ Len(q) = 1
  OBVIOUS
<1>2. Append(p, e) = p \o q
  BY AppendIsConcat
<1>3. Range(q) = {e} /\ IsInjective(q)
  BY DEF Range, IsInjective
<1> HIDE DEF q
<1>4. /\ Len(p \o q) = Len(p) + Len(q)
      /\ Range(p \o q) = Range(p) \cup Range(q)
      /\ IsInjective(p) /\ IsInjective(q) /\ Range(p) \cap Range(q) = {}
           => IsInjective(p \o q)
  BY <1>1, RangeConcat
<1>5. e \notin Range(p) => Range(p) \cap {e} = {}
  OBVIOUS
<1> QED
  BY <1>1, <1>2, <1>3, <1>4, <1>5

\* A queue whose elements differ has as many elements as places.
LEMMA RangeCardinality ==
  ASSUME NEW S, NEW q \in Seq(S), IsInjective(q)
  PROVE  IsFiniteSet(Range(q)) /\ Cardinality(Range(q)) = Len(q)
<1>1. Len(q) \in Nat /\ DOMAIN q = 1..Len(q)
  OBVIOUS
<1>2. q \in Bijection(1..Len(q), Range(q))
  BY <1>1 DEF Bijection, Injection, Surjection, IsInjective, Range
<1>3. IsFiniteSet(1..Len(q)) /\ Cardinality(1..Len(q)) = Len(q)
  BY <1>1, FS_Interval
<1> QED
  BY <1>2, <1>3, FS_Bijection DEF ExistsBijection

\* A sequence with repetitions has fewer elements than places.
LEMMA RangeSize ==
  ASSUME NEW S, NEW q \in Seq(S)
  PROVE  /\ IsFiniteSet(Range(q)) /\ Len(q) \in Nat
         /\ Cardinality(Range(q)) <= Len(q)
<1>1. Len(q) \in Nat /\ DOMAIN q = 1..Len(q)
  OBVIOUS
<1>2. q \in Surjection(1..Len(q), Range(q))
  BY <1>1 DEF Surjection, Range
<1>3. IsFiniteSet(1..Len(q)) /\ Cardinality(1..Len(q)) = Len(q)
  BY <1>1, FS_Interval
<1> QED
  BY <1>1, <1>2, <1>3, FS_Surjection

\* The number of elements of two sets that share none.
LEMMA ApartCardinality ==
  ASSUME NEW S, NEW T, IsFiniteSet(S), IsFiniteSet(T), S \cap T = {}
  PROVE  /\ IsFiniteSet(S \cup T)
         /\ Cardinality(S \cup T) = Cardinality(S) + Cardinality(T)
         /\ Cardinality(S \cup T) \in Nat
<1>1. Cardinality(S \cap T) = 0
  BY FS_EmptySet
<1>2. Cardinality(S) \in Nat /\ Cardinality(T) \in Nat
  BY FS_CardinalityType
<1>3. /\ IsFiniteSet(S \cup T)
      /\ Cardinality(S \cup T) =
           Cardinality(S) + Cardinality(T) - Cardinality(S \cap T)
  BY FS_Union
<1> QED
  BY <1>1, <1>2, <1>3

-----------------------------------------------------------------------------
(* Induction *)

\* Induction over the naturals, as a fact about a set of them.
LEMMA NatSetInduction ==
  ASSUME NEW S, 0 \in S, \A n \in Nat : n \in S => n + 1 \in S
  PROVE  Nat \subseteq S
<1> DEFINE T == Nat \ S
           R == OpToRel(<, Nat)
<1> SUFFICES ASSUME T # {} PROVE FALSE
  OBVIOUS
<1>1. \A m, n \in Nat : m < n => <<m, n>> \in R
  BY DEF OpToRel
<1>2. IsWellFoundedOn(R, Nat)
  BY NatLessThanWellFounded
<1> HIDE DEF R
<1>3. PICK n \in T : \A m \in T : <<m, n>> \notin R
  BY <1>2, WFMin
<1>4. n # 0 /\ n - 1 \in Nat /\ n - 1 < n
  BY <1>3
<1>5. n - 1 \in S
  BY <1>1, <1>3, <1>4
<1> QED
  BY <1>3, <1>4, <1>5

\* Induction over the subsets of a finite set, by their number of elements.
LEMMA SubsetInduction ==
  ASSUME NEW U, IsFiniteSet(U), NEW P, {} \in P,
         \A T \in SUBSET U :
           T # {} /\ (\A x \in T : T \ {x} \in P) => T \in P
  PROVE  SUBSET U \subseteq P
<1> DEFINE Sized == {n \in Nat : \A T \in SUBSET U : Cardinality(T) = n => T \in P}
<1>1. \A T \in SUBSET U : IsFiniteSet(T) /\ Cardinality(T) \in Nat
  BY FS_Subset, FS_CardinalityType
<1>2. 0 \in Sized
  BY <1>1, FS_EmptySet
<1>3. ASSUME NEW n \in Nat, n \in Sized PROVE n + 1 \in Sized
  <2> SUFFICES ASSUME NEW T \in SUBSET U, Cardinality(T) = n + 1 PROVE T \in P
    OBVIOUS
  <2>1. T # {}
    BY FS_EmptySet
  <2>2. ASSUME NEW x \in T PROVE T \ {x} \in P
    <3>1. Cardinality(T \ {x}) = n
      BY <1>1, FS_RemoveElement
    <3> QED
      BY <1>3, <3>1
  <2> QED
    BY <2>1, <2>2
<1> HIDE DEF Sized
<1>4. Nat \subseteq Sized
  BY <1>2, <1>3, NatSetInduction
<1> QED
  BY <1>1, <1>4 DEF Sized

-----------------------------------------------------------------------------
(* Sums *)

\* The sums of the community modules are computed by removing one element after
\* the other from the set.
Pick(s) == CHOOSE x \in s : TRUE

SumStep(fun, s, sums) ==
  IF s = {} THEN 0 ELSE fun[Pick(s)] + sums[s \ {Pick(s)}]

Sums(fun, U) == CHOOSE sums : sums = [s \in SUBSET U |-> SumStep(fun, s, sums)]

LEMMA SumIsSums ==
  ASSUME NEW fun, NEW U PROVE SumFunctionOnSet(fun, U) = Sums(fun, U)[U]
BY Zenon DEF SumFunctionOnSet, FoldFunctionOnSet, MapThenFoldSet, Pick, SumStep, Sums

LEMMA Picked == ASSUME NEW s, s # {} PROVE Pick(s) \in s
BY DEF Pick

\* There is such a function, as the sums of the smaller sets exist first.
LEMMA SumsExist ==
  ASSUME NEW fun, NEW U, IsFiniteSet(U)
  PROVE  Sums(fun, U) = [s \in SUBSET U |-> SumStep(fun, s, Sums(fun, U))]
<1> DEFINE Below(n) == {s \in SUBSET U : Cardinality(s) <= n}
           Fits(g, n) == g = [s \in Below(n) |-> SumStep(fun, s, g)]
           Sized == {n \in Nat : \E g : Fits(g, n)}
<1>1. \A s \in SUBSET U : /\ IsFiniteSet(s) /\ Cardinality(s) \in Nat
                          /\ Cardinality(s) <= Cardinality(U)
  BY FS_Subset, FS_CardinalityType
<1>2. 0 \in Sized
  <2> DEFINE g == [s \in Below(0) |-> 0]
  <2>1. \A s \in Below(0) : s = {}
    BY <1>1, FS_EmptySet
  <2>2. Fits(g, 0)
    BY <2>1 DEF SumStep
  <2> QED
    BY <2>2
<1>3. ASSUME NEW n \in Nat, n \in Sized PROVE n + 1 \in Sized
  <2>1. PICK g : Fits(g, n)
    BY <1>3
  <2> DEFINE h == [s \in Below(n + 1) |-> SumStep(fun, s, g)]
  <2>2. ASSUME NEW s \in Below(n + 1) PROVE h[s] = SumStep(fun, s, h)
    <3>1. CASE s = {}
      BY <3>1 DEF SumStep
    <3>2. CASE s # {}
      <4> DEFINE rest == s \ {Pick(s)}
      <4>1. Cardinality(rest) = Cardinality(s) - 1
        BY <1>1, <3>2, Picked, FS_RemoveElement
      <4>2. rest \in Below(n) /\ rest \in Below(n + 1)
        BY <1>1, <4>1
      <4>3. g[rest] = SumStep(fun, rest, g)
        BY <2>1, <4>2
      <4>4. h[rest] = g[rest]
        BY <4>2, <4>3
      <4> QED
        BY <3>2, <4>4 DEF SumStep
    <3> QED
      BY <3>1, <3>2
  <2>3. h = [s \in Below(n + 1) |-> h[s]]
    OBVIOUS
  <2> HIDE DEF h
  <2>4. Fits(h, n + 1)
    BY <2>2, <2>3
  <2> QED
    BY <2>4
<1> HIDE DEF Sized
<1>4. Nat \subseteq Sized
  BY <1>2, <1>3, NatSetInduction
<1>5. PICK g : Fits(g, Cardinality(U))
  BY <1>1, <1>4 DEF Sized
<1>6. Below(Cardinality(U)) = SUBSET U
  BY <1>1
<1>7. g = [s \in SUBSET U |-> SumStep(fun, s, g)]
  BY <1>5, <1>6
<1> QED
  BY <1>7, Zenon DEF Sums

\* A sum over a set does not depend on the set it is a part of.
LEMMA SumsAgree ==
  ASSUME NEW fun, NEW U, IsFiniteSet(U), NEW V \in SUBSET U
  PROVE  Sums(fun, U)[V] = SumFunctionOnSet(fun, V)
<1> DEFINE P == {T \in SUBSET V : Sums(fun, U)[T] = Sums(fun, V)[T]}
<1>1. IsFiniteSet(V)
  BY FS_Subset
<1>2. ASSUME NEW T \in SUBSET V
      PROVE  /\ Sums(fun, U)[T] = SumStep(fun, T, Sums(fun, U))
             /\ Sums(fun, V)[T] = SumStep(fun, T, Sums(fun, V))
  <2>1. /\ Sums(fun, U) = [s \in SUBSET U |-> SumStep(fun, s, Sums(fun, U))]
        /\ Sums(fun, V) = [s \in SUBSET V |-> SumStep(fun, s, Sums(fun, V))]
    BY <1>1, SumsExist
  <2>2. T \in SUBSET U
    OBVIOUS
  <2> QED
    BY <2>1, <2>2
<1>3. {} \in P
  BY <1>2 DEF SumStep
<1>4. ASSUME NEW T \in SUBSET V, T # {}, \A x \in T : T \ {x} \in P
      PROVE  T \in P
  <2>1. T \ {Pick(T)} \in P
    BY <1>4, Picked
  <2> QED
    BY <1>2, <1>4, <2>1 DEF SumStep
<1> HIDE DEF P
<1>5. SUBSET V \subseteq P
  BY <1>1, <1>3, <1>4, SubsetInduction
<1> QED
  BY <1>5, SumIsSums DEF P

LEMMA SumEmpty == ASSUME NEW fun PROVE SumFunctionOnSet(fun, {}) = 0
<1>1. IsFiniteSet({})
  BY FS_EmptySet
<1>2. Sums(fun, {}) = [s \in SUBSET {} |-> SumStep(fun, s, Sums(fun, {}))]
  BY <1>1, SumsExist
<1> QED
  BY <1>2, SumIsSums DEF SumStep

LEMMA SumPick ==
  ASSUME NEW fun, NEW U, IsFiniteSet(U), U # {}
  PROVE  SumFunctionOnSet(fun, U) =
           fun[Pick(U)] + SumFunctionOnSet(fun, U \ {Pick(U)})
<1>1. Sums(fun, U) = [s \in SUBSET U |-> SumStep(fun, s, Sums(fun, U))]
  BY SumsExist
<1>2. Sums(fun, U)[U] = fun[Pick(U)] + Sums(fun, U)[U \ {Pick(U)}]
  BY <1>1 DEF SumStep
<1>3. Sums(fun, U)[U \ {Pick(U)}] = SumFunctionOnSet(fun, U \ {Pick(U)})
  BY SumsAgree
<1> QED
  BY <1>2, <1>3, SumIsSums

\* A sum of integers is an integer, and one of naturals a natural.
LEMMA SumType ==
  ASSUME NEW U, IsFiniteSet(U), NEW fun, \A x \in U : fun[x] \in Int
  PROVE  /\ SumFunctionOnSet(fun, U) \in Int
         /\ (\A x \in U : fun[x] >= 0) => SumFunctionOnSet(fun, U) >= 0
<1> DEFINE sum(T) == SumFunctionOnSet(fun, T)
           P == {T \in SUBSET U : /\ sum(T) \in Int
                                  /\ (\A x \in T : fun[x] >= 0) => sum(T) >= 0}
<1>1. {} \in P
  BY SumEmpty
<1>2. ASSUME NEW T \in SUBSET U, T # {}, \A x \in T : T \ {x} \in P
      PROVE  T \in P
  <2>1. IsFiniteSet(T)
    BY FS_Subset
  <2>2. Pick(T) \in T /\ T \ {Pick(T)} \in P
    BY <1>2, Picked
  <2>3. sum(T) = fun[Pick(T)] + sum(T \ {Pick(T)})
    BY <1>2, <2>1, SumPick
  <2> HIDE DEF sum
  <2> QED
    BY <2>2, <2>3
<1> HIDE DEF P
<1>3. SUBSET U \subseteq P
  BY <1>1, <1>2, SubsetInduction
<1> QED
  BY <1>3 DEF P

\* Any element may be taken out of a sum, not only the one that is picked.
LEMMA SumRemove ==
  ASSUME NEW U, IsFiniteSet(U), NEW fun, \A x \in U : fun[x] \in Int, NEW e \in U
  PROVE  SumFunctionOnSet(fun, U) = fun[e] + SumFunctionOnSet(fun, U \ {e})
<1> DEFINE sum(T) == SumFunctionOnSet(fun, T)
           P == {T \in SUBSET U : \A x \in T : sum(T) = fun[x] + sum(T \ {x})}
<1>1. {} \in P
  OBVIOUS
<1>2. ASSUME NEW T \in SUBSET U, T # {}, \A x \in T : T \ {x} \in P
      PROVE  T \in P
  <2> SUFFICES ASSUME NEW x \in T PROVE sum(T) = fun[x] + sum(T \ {x})
    OBVIOUS
  <2>1. \A V \in SUBSET U : IsFiniteSet(V)
    BY FS_Subset
  <2>2. \A V \in SUBSET U : sum(V) \in Int
    <3> SUFFICES ASSUME NEW V \in SUBSET U PROVE sum(V) \in Int
      OBVIOUS
    <3>1. \A y \in V : fun[y] \in Int
      OBVIOUS
    <3> QED
      BY <2>1, <3>1, SumType
  <2>3. Pick(T) \in T /\ sum(T) = fun[Pick(T)] + sum(T \ {Pick(T)})
    BY <1>2, <2>1, SumPick, Picked
  <2>4. CASE x = Pick(T)
    BY <2>3, <2>4
  <2>5. CASE x # Pick(T)
    <3>1. /\ T \ {Pick(T)} \in P /\ x \in T \ {Pick(T)}
          /\ T \ {x} \in P /\ Pick(T) \in T \ {x}
      BY <1>2, <2>3, <2>5
    <3>2. (T \ {Pick(T)}) \ {x} = (T \ {x}) \ {Pick(T)}
      OBVIOUS
    <3>3. ASSUME NEW V \in P, NEW y \in V
          PROVE  sum(V) = fun[y] + sum(V \ {y})
      BY <3>3
    <3>4. /\ fun[x] \in Int /\ fun[Pick(T)] \in Int
          /\ sum((T \ {x}) \ {Pick(T)}) \in Int
      BY <2>2, <2>3
    <3>5. /\ sum(T \ {Pick(T)}) = fun[x] + sum((T \ {Pick(T)}) \ {x})
          /\ sum(T \ {x}) = fun[Pick(T)] + sum((T \ {x}) \ {Pick(T)})
      BY Zenon, <3>1, <3>3
    <3>6. /\ sum(T) = fun[Pick(T)] + (fun[x] + sum((T \ {x}) \ {Pick(T)}))
          /\ sum(T \ {x}) = fun[Pick(T)] + sum((T \ {x}) \ {Pick(T)})
      BY Zenon, <2>3, <3>2, <3>5
    <3>7. ASSUME NEW a \in Int, NEW b \in Int, NEW c \in Int
          PROVE  a + (b + c) = b + (a + c)
      OBVIOUS
    <3>8. fun[Pick(T)] + (fun[x] + sum((T \ {x}) \ {Pick(T)}))
            = fun[x] + (fun[Pick(T)] + sum((T \ {x}) \ {Pick(T)}))
      BY Zenon, <3>4, <3>7
    <3> QED
      BY Zenon, <3>6, <3>8
  <2> QED
    BY <2>4, <2>5
<1> HIDE DEF P
<1>3. SUBSET U \subseteq P
  BY <1>1, <1>2, SubsetInduction
<1> QED
  BY <1>3 DEF P

\* Sums of functions that agree on the set are equal.
LEMMA SumSame ==
  ASSUME NEW U, IsFiniteSet(U), NEW f, NEW g, \A x \in U : f[x] = g[x]
  PROVE  SumFunctionOnSet(f, U) = SumFunctionOnSet(g, U)
<1> DEFINE P == {T \in SUBSET U : SumFunctionOnSet(f, T) = SumFunctionOnSet(g, T)}
<1>1. {} \in P
  BY SumEmpty
<1>2. ASSUME NEW T \in SUBSET U, T # {}, \A x \in T : T \ {x} \in P
      PROVE  T \in P
  <2>1. IsFiniteSet(T)
    BY FS_Subset
  <2>2. Pick(T) \in T /\ T \ {Pick(T)} \in P
    BY <1>2, Picked
  <2> QED
    BY <1>2, <2>1, <2>2, SumPick
<1> HIDE DEF P
<1>3. SUBSET U \subseteq P
  BY <1>1, <1>2, SubsetInduction
<1> QED
  BY <1>3 DEF P

\* The sum of a pointwise sum.
LEMMA SumAdd ==
  ASSUME NEW U, IsFiniteSet(U), NEW f, NEW g, NEW h,
         \A x \in U : f[x] \in Int /\ g[x] \in Int /\ h[x] = f[x] + g[x]
  PROVE  SumFunctionOnSet(h, U) = SumFunctionOnSet(f, U) + SumFunctionOnSet(g, U)
<1> DEFINE P == {T \in SUBSET U :
                   /\ SumFunctionOnSet(f, T) \in Int /\ SumFunctionOnSet(g, T) \in Int
                   /\ SumFunctionOnSet(h, T)
                        = SumFunctionOnSet(f, T) + SumFunctionOnSet(g, T)}
<1>1. {} \in P
  BY SumEmpty
<1>2. ASSUME NEW T \in SUBSET U, T # {}, \A x \in T : T \ {x} \in P
      PROVE  T \in P
  <2>1. IsFiniteSet(T)
    BY FS_Subset
  <2>2. Pick(T) \in T /\ T \ {Pick(T)} \in P
    BY <1>2, Picked
  <2> QED
    BY <1>2, <2>1, <2>2, SumPick
<1> HIDE DEF P
<1>3. SUBSET U \subseteq P
  BY <1>1, <1>2, SubsetInduction
<1> QED
  BY <1>3 DEF P

\* The sum of a multiple.
LEMMA SumScale ==
  ASSUME NEW U, IsFiniteSet(U), NEW f, NEW g, NEW c \in Int,
         \A x \in U : f[x] \in Int /\ g[x] = c * f[x]
  PROVE  SumFunctionOnSet(g, U) = c * SumFunctionOnSet(f, U)
<1> DEFINE P == {T \in SUBSET U :
                   /\ SumFunctionOnSet(f, T) \in Int
                   /\ SumFunctionOnSet(g, T) = c * SumFunctionOnSet(f, T)}
<1>1. {} \in P
  BY SumEmpty
<1>2. ASSUME NEW T \in SUBSET U, T # {}, \A x \in T : T \ {x} \in P
      PROVE  T \in P
  <2>1. IsFiniteSet(T)
    BY FS_Subset
  <2>2. Pick(T) \in T /\ T \ {Pick(T)} \in P
    BY <1>2, Picked
  <2> QED
    BY <1>2, <2>1, <2>2, SumPick
<1> HIDE DEF P
<1>3. SUBSET U \subseteq P
  BY <1>1, <1>2, SubsetInduction
<1> QED
  BY <1>3 DEF P

\* The sum of a constant.
LEMMA SumConstant ==
  ASSUME NEW U, IsFiniteSet(U), NEW f, NEW c \in Int, \A x \in U : f[x] = c
  PROVE  SumFunctionOnSet(f, U) = c * Cardinality(U)
<1> DEFINE P == {T \in SUBSET U : SumFunctionOnSet(f, T) = c * Cardinality(T)}
<1>1. {} \in P
  BY SumEmpty, FS_EmptySet
<1>2. ASSUME NEW T \in SUBSET U, T # {}, \A x \in T : T \ {x} \in P
      PROVE  T \in P
  <2>1. IsFiniteSet(T) /\ Cardinality(T) \in Nat
    BY FS_Subset, FS_CardinalityType
  <2>2. Pick(T) \in T /\ T \ {Pick(T)} \in P
    BY <1>2, Picked
  <2>3. Cardinality(T \ {Pick(T)}) = Cardinality(T) - 1
    BY <2>1, <2>2, FS_RemoveElement
  <2> QED
    BY <1>2, <2>1, <2>2, <2>3, SumPick
<1> HIDE DEF P
<1>3. SUBSET U \subseteq P
  BY <1>1, <1>2, SubsetInduction
<1> QED
  BY <1>3 DEF P

\* A sum grows with its terms.
LEMMA SumMonotone ==
  ASSUME NEW U, IsFiniteSet(U), NEW f, NEW g,
         \A x \in U : f[x] \in Int /\ g[x] \in Int /\ f[x] <= g[x]
  PROVE  SumFunctionOnSet(f, U) <= SumFunctionOnSet(g, U)
<1> DEFINE P == {T \in SUBSET U :
                   /\ SumFunctionOnSet(f, T) \in Int /\ SumFunctionOnSet(g, T) \in Int
                   /\ SumFunctionOnSet(f, T) <= SumFunctionOnSet(g, T)}
<1>1. {} \in P
  BY SumEmpty
<1>2. ASSUME NEW T \in SUBSET U, T # {}, \A x \in T : T \ {x} \in P
      PROVE  T \in P
  <2>1. IsFiniteSet(T)
    BY FS_Subset
  <2>2. Pick(T) \in T /\ T \ {Pick(T)} \in P
    BY <1>2, Picked
  <2> QED
    BY <1>2, <2>1, <2>2, SumPick
<1> HIDE DEF P
<1>3. SUBSET U \subseteq P
  BY <1>1, <1>2, SubsetInduction
<1> QED
  BY <1>3 DEF P

\* A sum of which one term grows.
LEMMA SumMore ==
  ASSUME NEW U, IsFiniteSet(U), NEW f, NEW g, NEW e \in U, NEW d \in Int,
         \A x \in U : f[x] \in Int /\ g[x] \in Int,
         \A x \in U \ {e} : g[x] = f[x], g[e] = f[e] + d
  PROVE  SumFunctionOnSet(g, U) = SumFunctionOnSet(f, U) + d
<1> DEFINE F == SumFunctionOnSet(f, U \ {e})
           G == SumFunctionOnSet(g, U \ {e})
<1>1. IsFiniteSet(U \ {e})
  BY FS_RemoveElement
<1>2. F \in Int /\ G = F
  BY <1>1, SumType, SumSame
<1>3. SumFunctionOnSet(f, U) = f[e] + F /\ SumFunctionOnSet(g, U) = g[e] + G
  BY SumRemove
<1> HIDE DEF F, G
<1>4. f[e] \in Int /\ g[e] \in Int
  OBVIOUS
<1> QED
  BY <1>2, <1>3, <1>4

-----------------------------------------------------------------------------
(* Extremes *)

\* A finite set of integers has a least and a greatest element.
LEMMA Extremes ==
  ASSUME NEW U, IsFiniteSet(U), U \subseteq Int, U # {}
  PROVE  /\ Min(U) \in U /\ \A x \in U : Min(U) <= x
         /\ Max(U) \in U /\ \A x \in U : x <= Max(U)
<1> DEFINE P == {T \in SUBSET U : T # {} =>
                   /\ \E m \in T : \A x \in T : m <= x
                   /\ \E m \in T : \A x \in T : x <= m}
<1>1. {} \in P
  OBVIOUS
<1>2. ASSUME NEW T \in SUBSET U, T # {}, \A x \in T : T \ {x} \in P
      PROVE  T \in P
  <2>1. PICK e : e \in T
    BY <1>2
  <2>2. CASE T \ {e} = {}
    BY <2>1, <2>2
  <2>3. CASE T \ {e} # {}
    <3>1. T \ {e} \in P
      BY <1>2, <2>1
    <3>2. PICK l \in T \ {e} : \A x \in T \ {e} : l <= x
      BY <2>3, <3>1
    <3>3. PICK h \in T \ {e} : \A x \in T \ {e} : x <= h
      BY <2>3, <3>1
    <3>4. e \in Int /\ l \in Int /\ h \in Int /\ T \subseteq Int
      BY <2>1
    <3>5. \E m \in T : \A x \in T : m <= x
      <4>1. CASE e <= l
        BY <2>1, <3>2, <3>4, <4>1
      <4>2. CASE l <= e
        BY <2>1, <3>2, <3>4, <4>2
      <4> QED
        BY <3>4, <4>1, <4>2
    <3>6. \E m \in T : \A x \in T : x <= m
      <4>1. CASE h <= e
        BY <2>1, <3>3, <3>4, <4>1
      <4>2. CASE e <= h
        BY <2>1, <3>3, <3>4, <4>2
      <4> QED
        BY <3>4, <4>1, <4>2
    <3> QED
      BY <3>5, <3>6
  <2> QED
    BY <2>2, <2>3
<1> HIDE DEF P
<1>3. SUBSET U \subseteq P
  BY <1>1, <1>2, SubsetInduction
<1>4. PICK l \in U : \A x \in U : l <= x
  BY <1>3 DEF P
<1>5. PICK h \in U : \A x \in U : x <= h
  BY <1>3 DEF P
<1>6. Min(U) \in U /\ \A x \in U : Min(U) <= x
  BY <1>4 DEF Min
<1>7. Max(U) \in U /\ \A x \in U : Max(U) >= x
  BY <1>5 DEF Max
<1>8. \A x \in U : x <= Max(U)
  BY <1>7
<1> QED
  BY <1>6, <1>7, <1>8
=============================================================================
