----------------------------- MODULE LibraryFacts -----------------------------
(***************************************************************************)
(* What operators of the community modules return, for the proofs of more  *)
(* than one component: RemoveAt of SequencesExt, and SumFunction of        *)
(* Functions, a fold whose values are settled by induction.  The theorems  *)
(* of the library on induction are about operators, so the property is     *)
(* given as the set of the values that have it.                            *)
(***************************************************************************)
EXTENDS Naturals, SequencesExt, FiniteSetTheorems, WellFoundedInduction, TLAPS

(* Concatenation, element by element.                                        *)
LEMMA ConcatIs ==
  ASSUME NEW S, NEW a \in Seq(S), NEW b \in Seq(S)
  PROVE  /\ a \o b \in Seq(S) /\ Len(a \o b) = Len(a) + Len(b)
         /\ \A j \in 1 .. Len(a) + Len(b) :
              (a \o b)[j] = IF j <= Len(a) THEN a[j] ELSE b[j - Len(a)]
  OBVIOUS

(* A sequence without its i-th element.                                      *)
LEMMA RemoveAtIs ==
  ASSUME NEW S, NEW q \in Seq(S), NEW i \in 1 .. Len(q)
  PROVE  /\ RemoveAt(q, i) \in Seq(S)
         /\ Len(RemoveAt(q, i)) = Len(q) - 1
         /\ \A j \in 1 .. Len(q) - 1 :
              RemoveAt(q, i)[j] = IF j < i THEN q[j] ELSE q[j + 1]
<1> DEFINE a == SubSeq(q, 1, i - 1)
           b == SubSeq(q, i + 1, Len(q))
<1>1. /\ a \in Seq(S) /\ Len(a) = i - 1
      /\ \A j \in 1 .. i - 1 : a[j] = q[j]
  OBVIOUS
<1>2. /\ b \in Seq(S) /\ Len(b) = Len(q) - i
      /\ \A j \in 1 .. Len(q) - i : b[j] = q[i + j]
  OBVIOUS
<1>3. RemoveAt(q, i) = a \o b
  BY DEF RemoveAt
<1> HIDE DEF a, b
<1>4. /\ a \o b \in Seq(S) /\ Len(a \o b) = Len(q) - 1
      /\ \A j \in 1 .. Len(q) - 1 : (a \o b)[j] = IF j < i THEN a[j] ELSE b[j - (i - 1)]
  <2>1. Len(q) \in Nat /\ i \in Nat /\ 1 <= i /\ i <= Len(q)
    OBVIOUS
  <2>2. /\ a \o b \in Seq(S) /\ Len(a \o b) = Len(a) + Len(b)
        /\ \A j \in 1 .. Len(a) + Len(b) :
             (a \o b)[j] = IF j <= Len(a) THEN a[j] ELSE b[j - Len(a)]
    BY <1>1, <1>2, ConcatIs, Zenon
  <2>3. Len(a) = i - 1 /\ Len(a) + Len(b) = Len(q) - 1
    BY <1>1, <1>2, <2>1
  <2> QED
    BY <2>1, <2>2, <2>3
<1>5. \A j \in 1 .. Len(q) - 1 : (a \o b)[j] = IF j < i THEN q[j] ELSE q[j + 1]
  BY <1>1, <1>2, <1>4
<1> QED
  BY <1>3, <1>4, <1>5

-----------------------------------------------------------------------------
(* Induction over the naturals: no number outside T can be the smallest.     *)
LEMMA NatSetInduction ==
  ASSUME NEW T, 0 \in T, \A n \in Nat : n \in T => n + 1 \in T
  PROVE  Nat \subseteq T
<1> DEFINE Less == OpToRel(<, Nat)
           Left == Nat \ T
<1>1. SUFFICES ASSUME Left # {} PROVE FALSE
  OBVIOUS
<1>2. \A m, n \in Nat : m < n => <<m, n>> \in Less
  BY DEF OpToRel
<1>3. IsWellFoundedOn(Less, Nat)
  BY NatLessThanWellFounded
<1>4. Left \subseteq Nat
  OBVIOUS
<1> HIDE DEF Less, Left
<1>5. PICK n \in Left : \A m \in Left : <<m, n>> \notin Less
  BY <1>1, <1>3, <1>4, WFMin, Zenon
<1>6. n \in Nat /\ n # 0 /\ n \notin T
  BY <1>5 DEF Left
<1>7. n - 1 \in Nat /\ n - 1 < n /\ n = (n - 1) + 1
  BY <1>6
<1>8. n - 1 \in T
  BY <1>2, <1>5, <1>6, <1>7 DEF Left
<1> QED
  BY <1>6, <1>7, <1>8

(* Induction over the subsets of a finite set: no subset outside T can be    *)
(* minimal, for it would be left by taking any element out.                  *)
LEMMA SubsetInduction ==
  ASSUME NEW S, IsFiniteSet(S), NEW T,
         \A s \in SUBSET S : (\A x \in s : s \ {x} \in T) => s \in T
  PROVE  \A s \in SUBSET S : s \in T
<1> DEFINE Less == StrictSubsetOrdering(S)
           Left == (SUBSET S) \ T
<1>1. SUFFICES ASSUME Left # {} PROVE FALSE
  OBVIOUS
<1>2. IsWellFoundedOn(Less, SUBSET S)
  BY FS_StrictSubsetOrderingWellFounded, FS_FiniteSubsetsOfFinite
<1>3. \A s \in SUBSET S : \A x \in s : <<s \ {x}, s>> \in Less
  BY DEF StrictSubsetOrdering
<1>4. Left \subseteq SUBSET S
  OBVIOUS
<1> HIDE DEF Less, Left
<1>5. PICK s \in Left : \A r \in Left : <<r, s>> \notin Less
  BY <1>1, <1>2, <1>4, WFMin, Zenon
<1>6. s \in SUBSET S /\ s \notin T
  BY <1>5 DEF Left
<1>7. ASSUME NEW x \in s PROVE s \ {x} \in T
  <2>1. s \ {x} \notin Left
    BY <1>3, <1>5, <1>6
  <2> QED
    BY <1>6, <2>1 DEF Left
<1> QED
  BY <1>6, <1>7

-----------------------------------------------------------------------------
Pick(s) == CHOOSE x \in s : TRUE

(* g adds up f over the subsets of S, one picked element at a time.          *)
Adds(g, f, S) ==
  g = [s \in SUBSET S |-> IF s = {} THEN 0 ELSE f[Pick(s)] + g[s \ {Pick(s)}]]

(* The fold of the library picks out such a function.                        *)
LEMMA SumIsChosen ==
  ASSUME NEW f, NEW S
  PROVE  SumFunctionOnSet(f, S) = (CHOOSE g : Adds(g, f, S))[S]
  BY DEF SumFunctionOnSet, FoldFunctionOnSet, MapThenFoldSet, Adds, Pick

(* There is one: a function that adds up correctly the subsets of at most n  *)
(* elements gives one for the subsets of n + 1.                              *)
LEMMA SumExists ==
  ASSUME NEW S, IsFiniteSet(S), NEW f, \A x \in S : f[x] \in Int
  PROVE  \E g \in [SUBSET S -> Int] : Adds(g, f, S)
<1> DEFINE Next(g, s) == IF s = {} THEN 0 ELSE f[Pick(s)] + g[s \ {Pick(s)}]
           UpTo(n) == \E g \in [SUBSET S -> Int] :
                        \A s \in SUBSET S : Cardinality(s) <= n => g[s] = Next(g, s)
           T == {n \in Nat : UpTo(n)}
<1>1. \A s \in SUBSET S : /\ IsFiniteSet(s) /\ Cardinality(s) \in Nat
                          /\ Cardinality(s) <= Cardinality(S)
                          /\ Cardinality(s) = 0 <=> s = {}
  BY FS_Subset, FS_CardinalityType, FS_EmptySet
<1>2. \A s \in SUBSET S : s # {} =>
         /\ Pick(s) \in s /\ s \ {Pick(s)} \in SUBSET S
         /\ Cardinality(s \ {Pick(s)}) = Cardinality(s) - 1
  BY <1>1, FS_RemoveElement DEF Pick
<1>3. 0 \in T
  <2> DEFINE z == [s \in SUBSET S |-> 0]
  <2>1. z \in [SUBSET S -> Int]
    OBVIOUS
  <2>2. \A s \in SUBSET S : Cardinality(s) <= 0 => s = {}
    BY <1>1
  <2> QED
    BY <2>1, <2>2
<1>4. ASSUME NEW n \in Nat, n \in T PROVE n + 1 \in T
  <2>1. PICK g \in [SUBSET S -> Int] :
               \A s \in SUBSET S : Cardinality(s) <= n => g[s] = Next(g, s)
    BY <1>4
  <2> DEFINE h == [s \in SUBSET S |-> Next(g, s)]
  <2>2. h \in [SUBSET S -> Int]
    BY <1>2
  <2>3. ASSUME NEW s \in SUBSET S, Cardinality(s) <= n + 1 PROVE h[s] = Next(h, s)
    <3>1. CASE s = {}
      BY <3>1
    <3>2. CASE s # {}
      <4> DEFINE r == s \ {Pick(s)}
      <4>1. r \in SUBSET S /\ Cardinality(r) <= n
        BY <1>1, <1>2, <2>3, <3>2
      <4>2. h[r] = Next(g, r) /\ g[r] = Next(g, r)
        BY <2>1, <4>1
      <4> QED
        BY <3>2, <4>2
    <3> QED
      BY <3>1, <3>2
  <2> HIDE DEF h
  <2>4. UpTo(n + 1)
    BY <2>2, <2>3
  <2> QED
    BY <2>4
<1> HIDE DEF T
<1>5. Cardinality(S) \in T
  BY <1>1, <1>3, <1>4, NatSetInduction
<1> USE DEF T
<1>6. PICK g \in [SUBSET S -> Int] : \A s \in SUBSET S : g[s] = Next(g, s)
  BY <1>1, <1>5
<1>7. g = [s \in SUBSET S |-> Next(g, s)]
  BY <1>6
<1> QED
  BY <1>7 DEF Adds

(* Two such functions, of functions that agree, agree on the sets both know. *)
LEMMA SumAgrees ==
  ASSUME NEW S, IsFiniteSet(S), NEW R \in SUBSET S,
         NEW f, NEW h, \A x \in R : f[x] = h[x],
         NEW a, Adds(a, f, S), NEW b, Adds(b, h, R)
  PROVE  a[R] = b[R]
<1>0. IsFiniteSet(R)
  BY FS_Subset
<1> DEFINE Good == {s \in SUBSET R : a[s] = b[s]}
<1>1. ASSUME NEW s \in SUBSET R, \A x \in s : s \ {x} \in Good
      PROVE  s \in Good
  <2>1. CASE s = {}
    BY <2>1 DEF Adds
  <2>2. CASE s # {}
    <3> DEFINE r == s \ {Pick(s)}
    <3>1. Pick(s) \in s
      BY <2>2 DEF Pick
    <3>2. a[s] = f[Pick(s)] + a[r] /\ b[s] = h[Pick(s)] + b[r]
      BY <2>2 DEF Adds
    <3>3. a[r] = b[r] /\ f[Pick(s)] = h[Pick(s)]
      BY <1>1, <3>1
    <3> QED
      BY <3>2, <3>3
  <2> QED
    BY <2>1, <2>2
<1> HIDE DEF Good
<1>2. \A s \in SUBSET R : s \in Good
  BY <1>0, <1>1, SubsetInduction
<1> QED
  BY <1>2 DEF Good

(* The sum over a subset is what any such function says of it.               *)
LEMMA SumIs ==
  ASSUME NEW S, IsFiniteSet(S), NEW f, \A x \in S : f[x] \in Int,
         NEW g, Adds(g, f, S), NEW R \in SUBSET S
  PROVE  SumFunctionOnSet(f, R) = g[R]
<1> DEFINE k == CHOOSE a : Adds(a, f, R)
<1>1. IsFiniteSet(R) /\ \A x \in R : f[x] \in Int
  BY FS_Subset
<1>2. Adds(k, f, R)
  BY <1>1, SumExists
<1> HIDE DEF k
<1>3. g[R] = k[R]
  BY <1>2, SumAgrees
<1> QED
  BY <1>3, SumIsChosen DEF k

(* It does not matter which element is added first.                          *)
LEMMA AddsInAnyOrder ==
  ASSUME NEW S, IsFiniteSet(S), NEW f, \A x \in S : f[x] \in Int,
         NEW g, Adds(g, f, S), \A q \in SUBSET S : g[q] \in Int,
         NEW s \in SUBSET S, NEW x \in s
  PROVE  g[s] = f[x] + g[s \ {x}]
<1> DEFINE Good == {q \in SUBSET S : \A z \in q : g[q] = f[z] + g[q \ {z}]}
<1>1. ASSUME NEW q \in SUBSET S, \A z \in q : q \ {z} \in Good
      PROVE  q \in Good
  <2> SUFFICES ASSUME NEW z \in q PROVE g[q] = f[z] + g[q \ {z}]
    OBVIOUS
  <2> DEFINE y == Pick(q)
  <2>1. y \in q /\ g[q] = f[y] + g[q \ {y}]
    BY DEF Adds, Pick
  <2> HIDE DEF y
  <2>2. CASE y = z
    BY <2>1, <2>2
  <2>3. CASE y # z
    <3> DEFINE r == (q \ {y}) \ {z}
    <3>1. (q \ {z}) \ {y} = r /\ r \in SUBSET S
      OBVIOUS
    <3>2. f[z] \in Int /\ f[y] \in Int /\ g[r] \in Int
      BY <2>1
    <3>3. g[q \ {y}] = f[z] + g[r]
      BY <1>1, <2>1, <2>3
    <3> HIDE DEF r
    <3>4. g[q \ {z}] = f[y] + g[r]
      BY <1>1, <2>1, <2>3, <3>1
    <3>5. f[y] + (f[z] + g[r]) = f[z] + (f[y] + g[r])
      BY <3>2
    <3> QED
      BY <2>1, <3>3, <3>4, <3>5
  <2> QED
    BY <2>2, <2>3
<1> HIDE DEF Good
<1>2. \A q \in SUBSET S : q \in Good
  BY <1>1, SubsetInduction
<1> QED
  BY <1>2 DEF Good

(* The sum over a finite set: nothing for the empty set, and otherwise any   *)
(* element can be taken out first.                                           *)
LEMMA SumRemoves ==
  ASSUME NEW S, IsFiniteSet(S), NEW f, \A x \in S : f[x] \in Int
  PROVE  /\ SumFunctionOnSet(f, {}) = 0
         /\ \A s \in SUBSET S :
              /\ SumFunctionOnSet(f, s) \in Int
              /\ \A x \in s : SumFunctionOnSet(f, s) = f[x] + SumFunctionOnSet(f, s \ {x})
<1>1. PICK g \in [SUBSET S -> Int] : Adds(g, f, S)
  BY SumExists
<1>2. \A s \in SUBSET S : SumFunctionOnSet(f, s) = g[s]
  BY <1>1, SumIs
<1>3. g[{}] = 0
  BY <1>1 DEF Adds
<1>4. ASSUME NEW s \in SUBSET S, NEW x \in s
      PROVE  g[s] = f[x] + g[s \ {x}]
  <2>1. Adds(g, f, S) /\ \A q \in SUBSET S : g[q] \in Int
    BY <1>1
  <2> QED
    BY <2>1, AddsInAnyOrder
<1>5. SumFunctionOnSet(f, {}) = 0
  BY <1>2, <1>3
<1>6. ASSUME NEW s \in SUBSET S
      PROVE  /\ SumFunctionOnSet(f, s) \in Int
             /\ \A x \in s : SumFunctionOnSet(f, s) = f[x] + SumFunctionOnSet(f, s \ {x})
  <2>1. SumFunctionOnSet(f, s) = g[s] /\ \A x \in s : SumFunctionOnSet(f, s \ {x}) = g[s \ {x}]
    BY <1>2
  <2> QED
    BY <1>4, <2>1
<1> QED
  BY <1>5, <1>6

(* Functions that agree on a set have one sum over it.                       *)
LEMMA SumSame ==
  ASSUME NEW S, IsFiniteSet(S), NEW f, NEW h,
         \A x \in S : f[x] \in Int /\ f[x] = h[x]
  PROVE  SumFunctionOnSet(f, S) = SumFunctionOnSet(h, S)
<1>1. /\ \A x \in S : f[x] \in Int
      /\ \A x \in S : h[x] \in Int
      /\ \A x \in S : f[x] = h[x]
      /\ S \in SUBSET S
  OBVIOUS
<1>2. PICK a : Adds(a, f, S)
  BY <1>1, SumExists
<1>3. PICK b : Adds(b, h, S)
  BY <1>1, SumExists
<1>4. a[S] = b[S]
  BY <1>1, <1>2, <1>3, SumAgrees
<1> QED
  BY <1>1, <1>2, <1>3, <1>4, SumIs

(* Changing a function at one place changes its sum by the difference.       *)
LEMMA SumChange ==
  ASSUME NEW S, IsFiniteSet(S), NEW f \in [S -> Int], NEW h \in [S -> Int],
         NEW x \in S, \A y \in S \ {x} : h[y] = f[y]
  PROVE  SumFunction(h) = SumFunction(f) - f[x] + h[x]
<1>1. IsFiniteSet(S \ {x})
  BY FS_RemoveElement
<1>2. SumFunctionOnSet(h, S \ {x}) = SumFunctionOnSet(f, S \ {x})
  BY <1>1, SumSame
<1>3. /\ SumFunctionOnSet(f, S) = f[x] + SumFunctionOnSet(f, S \ {x})
      /\ SumFunctionOnSet(f, S \ {x}) \in Int
  BY SumRemoves
<1>4. SumFunctionOnSet(h, S) = h[x] + SumFunctionOnSet(h, S \ {x})
  BY SumRemoves
<1>5. SumFunction(f) = SumFunctionOnSet(f, S) /\ SumFunction(h) = SumFunctionOnSet(h, S)
  BY DEF SumFunction
<1>6. f[x] \in Int /\ h[x] \in Int
  OBVIOUS
<1> QED
  BY <1>2, <1>3, <1>4, <1>5, <1>6

(* A sum of naturals is a natural and covers each of them.                   *)
LEMMA SumIsNat ==
  ASSUME NEW S, IsFiniteSet(S), NEW f \in [S -> Nat]
  PROVE  /\ SumFunction(f) \in Nat
         /\ \A x \in S : f[x] <= SumFunction(f)
<1> DEFINE Good == {s \in SUBSET S : SumFunctionOnSet(f, s) \in Nat}
<1>1. /\ SumFunctionOnSet(f, {}) = 0
      /\ \A s \in SUBSET S : \A x \in s :
           SumFunctionOnSet(f, s) = f[x] + SumFunctionOnSet(f, s \ {x})
  BY SumRemoves
<1>2. ASSUME NEW s \in SUBSET S, \A x \in s : s \ {x} \in Good
      PROVE  s \in Good
  <2>1. CASE s = {}
    BY <1>1, <2>1
  <2>2. ASSUME NEW x \in s PROVE s \in Good
    <3>1. SumFunctionOnSet(f, s \ {x}) \in Nat /\ f[x] \in Nat
      BY <1>2
    <3> QED
      BY <1>1, <3>1
  <2> QED
    BY <2>1, <2>2
<1> HIDE DEF Good
<1>3. \A s \in SUBSET S : s \in Good
  BY <1>2, SubsetInduction
<1>4. \A s \in SUBSET S : SumFunctionOnSet(f, s) \in Nat
  BY <1>3 DEF Good
<1>5. SumFunction(f) = SumFunctionOnSet(f, S)
  BY DEF SumFunction
<1>6. ASSUME NEW x \in S PROVE f[x] <= SumFunctionOnSet(f, S)
  <2>1. SumFunctionOnSet(f, S) = f[x] + SumFunctionOnSet(f, S \ {x})
    BY <1>1
  <2>2. SumFunctionOnSet(f, S \ {x}) \in Nat /\ f[x] \in Nat
    BY <1>4
  <2> QED
    BY <2>1, <2>2
<1> QED
  BY <1>4, <1>5, <1>6

(* Nothing adds up to nothing.                                               *)
LEMMA SumOfZeros ==
  ASSUME NEW S, IsFiniteSet(S), NEW f \in [S -> {0}]
  PROVE  SumFunction(f) = 0
<1> DEFINE Good == {s \in SUBSET S : SumFunctionOnSet(f, s) = 0}
<1>1. \A x \in S : f[x] = 0
  OBVIOUS
<1>2. /\ SumFunctionOnSet(f, {}) = 0
      /\ \A s \in SUBSET S : \A x \in s :
           SumFunctionOnSet(f, s) = f[x] + SumFunctionOnSet(f, s \ {x})
  BY <1>1, SumRemoves
<1>3. ASSUME NEW s \in SUBSET S, \A x \in s : s \ {x} \in Good
      PROVE  s \in Good
  <2>1. CASE s = {}
    BY <1>2, <2>1
  <2>2. ASSUME NEW x \in s PROVE s \in Good
    <3>1. SumFunctionOnSet(f, s \ {x}) = 0 /\ f[x] = 0
      BY <1>1, <1>3
    <3> QED
      BY <1>2, <3>1
  <2> QED
    BY <2>1, <2>2
<1> HIDE DEF Good
<1>4. \A s \in SUBSET S : s \in Good
  BY <1>3, SubsetInduction
<1> QED
  BY <1>4 DEF Good, SumFunction
=============================================================================
