--------------------------- MODULE RecursionProofs ---------------------------
(***************************************************************************)
(* Facts the other proofs need about recursive definitions: that they have *)
(* a value at all, what the sums of the community modules compute, what a  *)
(* part of a list holds.                                                   *)
(* The induction theorems of the library cannot be instantiated; each      *)
(* induction below looks at a smallest counterexample instead.             *)
(***************************************************************************)
EXTENDS Integers, Sequences, FiniteSets, Functions, Sublists, FiniteSetTheorems,
        SequenceTheorems, WellFoundedInduction, TLAPS

\* A set of naturals has a smallest element.
LEMMA SmallestExists ==
  ASSUME NEW T, T \subseteq Nat, T # {}
  PROVE  \E x \in T : \A y \in T : x <= y
<1> DEFINE R == {ss \in Nat \X Nat : ss[1] < ss[2]}
<1>1. IsWellFoundedOn(R, Nat)
  BY NatLessThanWellFounded DEF OpToRel
<1>2. \A x, y \in Nat : y < x => <<y, x>> \in R
  OBVIOUS
<1> HIDE DEF R
<1>3. PICK x \in T : \A y \in T : ~ (<<y, x>> \in R)
  BY <1>1, WFMin
<1>4. \A y \in T : x \in Nat /\ y \in Nat /\ ~ (y < x)
  BY <1>2, <1>3
<1> QED
  BY <1>4

-----------------------------------------------------------------------------
(***************************************************************************)
(* Recursion along 0 .. n.                                                 *)
(***************************************************************************)
Recurs(g, n, base, step) ==
  g[0] = base /\ \A i \in 1 .. n : g[i] = step[i][g[i - 1]]

LEMMA RecursionAlongNat ==
  ASSUME NEW V, NEW n \in Nat, NEW base \in V, NEW step \in [1 .. n -> [V -> V]]
  PROVE  \E g \in [0 .. n -> V] : Recurs(g, n, base, step)
<1> DEFINE Solves(g, k) ==
      \A i \in 0 .. k : g[i] = IF i = 0 THEN base ELSE step[i][g[i - 1]]
    Bad == {k \in 0 .. n : ~ \E g \in [0 .. k -> V] : Solves(g, k)}
<1>1. ASSUME Bad # {} PROVE FALSE
  <2>1. PICK k \in Bad : \A j \in Bad : k <= j
    <3>1. Bad \subseteq Nat
      OBVIOUS
    <3> HIDE DEF Bad
    <3> QED
      BY <1>1, <3>1, SmallestExists
  <2>2. CASE k = 0
    <3> DEFINE g == [i \in 0 .. 0 |-> base]
    <3>1. g \in [0 .. k -> V] /\ Solves(g, k)
      BY <2>2
    <3> QED
      BY <2>1, <3>1
  <2>3. CASE k # 0
    <3>1. k \in 1 .. n /\ k - 1 \in 0 .. n /\ k - 1 \notin Bad
      <4>1. k \in 1 .. n /\ k - 1 \in 0 .. n /\ ~ (k <= k - 1)
        BY <2>3
      <4> HIDE DEF Bad
      <4> QED
        BY <2>1, <4>1
    <3>2. PICK g \in [0 .. k - 1 -> V] : Solves(g, k - 1)
      BY <3>1
    <3> DEFINE h == [i \in 0 .. k |-> IF i = k THEN step[k][g[k - 1]] ELSE g[i]]
    <3>3. g[k - 1] \in V /\ step[k] \in [V -> V]
      BY <3>1
    <3>4. h \in [0 .. k -> V]
      BY <3>1, <3>3
    <3>5. ASSUME NEW i \in 0 .. k
          PROVE  h[i] = IF i = 0 THEN base ELSE step[i][h[i - 1]]
      <4>1. CASE i = k
        BY <3>1, <4>1
      <4>2. CASE i # k
        BY <3>1, <3>2, <4>2
      <4> QED
        BY <4>1, <4>2
    <3>6. Solves(h, k)
      BY <3>5
    <3> HIDE DEF h
    <3>7. \E e \in [0 .. k -> V] : Solves(e, k)
      BY <3>4, <3>6
    <3> QED
      BY <2>1, <3>7
  <2> QED
    BY <2>2, <2>3
<1>2. PICK g \in [0 .. n -> V] : Solves(g, n)
  BY <1>1
<1> QED
  BY <1>2 DEF Recurs

-----------------------------------------------------------------------------
(***************************************************************************)
(* Sums over finite sets.                                                  *)
(***************************************************************************)
First(s) == CHOOSE x \in s : TRUE

\* The function whose value at S is the sum of f over S.
PartialSums(f, S) ==
  CHOOSE g : g = [s \in SUBSET S |->
                    IF s = {} THEN 0 ELSE f[First(s)] + g[s \ {First(s)}]]

LEMMA SumIsPartialSum ==
  ASSUME NEW f, NEW S
  PROVE  SumFunctionOnSet(f, S) = PartialSums(f, S)[S]
BY DEF SumFunctionOnSet, FoldFunctionOnSet, MapThenFoldSet, PartialSums, First

LEMMA FirstRemoved ==
  ASSUME NEW s, IsFiniteSet(s), s # {}
  PROVE  /\ First(s) \in s
         /\ IsFiniteSet(s \ {First(s)})
         /\ Cardinality(s) \in Nat \ {0}
         /\ Cardinality(s \ {First(s)}) = Cardinality(s) - 1
<1>1. First(s) \in s
  BY DEF First
<1>2. Cardinality(s) \in Nat /\ Cardinality(s) # 0
  BY FS_CardinalityType, FS_EmptySet
<1> QED
  BY <1>1, <1>2, FS_RemoveElement

\* g solves the recursion of the sums of f.
Solves(f, S, g) ==
  \A s \in SUBSET S : g[s] = IF s = {} THEN 0 ELSE f[First(s)] + g[s \ {First(s)}]

\* The recursion has at most one solution.
LEMMA PartialSumsUnique ==
  ASSUME NEW S, IsFiniteSet(S), NEW f, NEW g, NEW h,
         Solves(f, S, g), Solves(f, S, h)
  PROVE  \A s \in SUBSET S : g[s] = h[s]
<1> DEFINE Differ == {k \in Nat : \E s \in SUBSET S : Cardinality(s) = k /\ g[s] # h[s]}
<1>1. \A s \in SUBSET S : IsFiniteSet(s) /\ Cardinality(s) \in Nat
  BY FS_Subset, FS_CardinalityType
<1>2. ASSUME Differ # {} PROVE FALSE
  <2>1. PICK k \in Differ : \A j \in Differ : k <= j
    <3>1. Differ \subseteq Nat
      OBVIOUS
    <3> HIDE DEF Differ
    <3> QED
      BY <1>2, <3>1, SmallestExists
  <2>2. PICK s \in SUBSET S : Cardinality(s) = k /\ g[s] # h[s]
    BY <2>1
  <2>3. s # {}
    BY <2>2 DEF Solves
  <2> DEFINE r == s \ {First(s)}
  <2>4. r \in SUBSET S /\ Cardinality(r) \in Nat /\ ~ (k <= Cardinality(r))
    BY <1>1, <2>2, <2>3, FirstRemoved
  <2>5. g[r] = h[r]
    BY <2>1, <2>4
  <2> QED
    BY <2>2, <2>3, <2>5 DEF Solves
<1> QED
  BY <1>1, <1>2

\* PartialSums solves the recursion it is defined by.
LEMMA PartialSumsExist ==
  ASSUME NEW S, IsFiniteSet(S), NEW f, \A x \in S : f[x] \in Int
  PROVE  /\ PartialSums(f, S) \in [SUBSET S -> Int]
         /\ Solves(f, S, PartialSums(f, S))
<1> DEFINE Next1(g, s) == IF s = {} THEN 0 ELSE f[First(s)] + g[s \ {First(s)}]
    SolvesTo(g, k) == \A s \in SUBSET S : Cardinality(s) <= k => g[s] = Next1(g, s)
    Bad == {k \in Nat : ~ \E g \in [SUBSET S -> Int] : SolvesTo(g, k)}
<1>0. \A s \in SUBSET S : IsFiniteSet(s) /\ Cardinality(s) \in Nat
  BY FS_Subset, FS_CardinalityType
<1>1. ASSUME Bad # {} PROVE FALSE
  <2>1. PICK k \in Bad : \A j \in Bad : k <= j
    <3>1. Bad \subseteq Nat
      OBVIOUS
    <3> HIDE DEF Bad
    <3> QED
      BY <1>1, <3>1, SmallestExists
  <2>2. CASE k = 0
    <3> DEFINE g == [s \in SUBSET S |-> 0]
    <3>1. g \in [SUBSET S -> Int]
      OBVIOUS
    <3>2. ASSUME NEW s \in SUBSET S, Cardinality(s) <= 0 PROVE s = {}
      BY <1>0, <3>2, FS_EmptySet
    <3>3. SolvesTo(g, k)
      BY <2>2, <3>2
    <3> QED
      BY <2>1, <3>1, <3>3
  <2>3. CASE k # 0
    <3>1. k \in Nat /\ k - 1 \in Nat /\ k - 1 \notin Bad
      <4>1. k \in Nat /\ k - 1 \in Nat /\ ~ (k <= k - 1)
        BY <2>3
      <4> HIDE DEF Bad
      <4> QED
        BY <2>1, <4>1
    <3>2. PICK g \in [SUBSET S -> Int] : SolvesTo(g, k - 1)
      BY <3>1
    <3> DEFINE h == [s \in SUBSET S |->
                       IF Cardinality(s) <= k - 1 THEN g[s] ELSE Next1(g, s)]
    <3>3. ASSUME NEW s \in SUBSET S
          PROVE  /\ h[s] \in Int
                 /\ Cardinality(s) <= k => h[s] = Next1(h, s)
      <4>1. CASE s = {}
        BY <3>1, <3>2, <4>1, <1>0, FS_EmptySet
      <4>2. CASE s # {}
        <5> DEFINE r == s \ {First(s)}
        <5>1. /\ First(s) \in S /\ r \in SUBSET S
              /\ Cardinality(s) \in Nat /\ Cardinality(r) = Cardinality(s) - 1
          BY <1>0, <4>2, FirstRemoved
        <5>2. f[First(s)] \in Int /\ g[r] \in Int /\ g[s] \in Int
          BY <5>1
        <5>3. Cardinality(s) <= k => h[r] = g[r]
          BY <3>1, <5>1
        <5>4. Cardinality(s) <= k - 1 => g[s] = f[First(s)] + g[r]
          BY <3>2, <4>2
        <5> QED
          BY <4>2, <5>2, <5>3, <5>4
      <4> QED
        BY <4>1, <4>2
    <3>4. h \in [SUBSET S -> Int] /\ SolvesTo(h, k)
      BY <3>3
    <3> HIDE DEF h
    <3> QED
      BY <2>1, <3>4
  <2> QED
    BY <2>2, <2>3
<1>2. PICK g \in [SUBSET S -> Int] : SolvesTo(g, Cardinality(S))
  BY <1>1, <1>0
<1>3. \A s \in SUBSET S : Cardinality(s) <= Cardinality(S)
  BY FS_Subset
<1>4. g = [s \in SUBSET S |-> Next1(g, s)]
  BY <1>2, <1>3
<1>5. PartialSums(f, S) = [s \in SUBSET S |->
        IF s = {} THEN 0 ELSE f[First(s)] + PartialSums(f, S)[s \ {First(s)}]]
  BY <1>4 DEF PartialSums
<1> DEFINE P == PartialSums(f, S)
<1>6. \A s \in SUBSET S : P[s] = Next1(P, s)
  BY <1>5
<1> HIDE DEF P
<1>7. Solves(f, S, g) /\ Solves(f, S, P)
  BY <1>2, <1>3, <1>6 DEF Solves
<1>8. \A s \in SUBSET S : P[s] = g[s]
  BY <1>7, PartialSumsUnique
<1>9. P = [s \in SUBSET S |-> P[s]]
  BY <1>5 DEF P
<1>10. P \in [SUBSET S -> Int]
  BY <1>8, <1>9
<1> QED
  BY <1>7, <1>10 DEF P

(***************************************************************************)
(* What SumFunctionOnSet computes: the sum of any element and the rest.    *)
(***************************************************************************)
LEMMA SumByFirst ==
  ASSUME NEW S, IsFiniteSet(S), NEW f, \A x \in S : f[x] \in Int
  PROVE  /\ SumFunctionOnSet(f, S) \in Int
         /\ S = {} => SumFunctionOnSet(f, S) = 0
         /\ S # {} => SumFunctionOnSet(f, S) =
                        f[First(S)] + SumFunctionOnSet(f, S \ {First(S)})
<1>1. SumFunctionOnSet(f, S) \in Int /\ (S = {} => SumFunctionOnSet(f, S) = 0)
  <2> DEFINE P == PartialSums(f, S)
  <2>1. P \in [SUBSET S -> Int] /\ P[{}] = 0 /\ S \in SUBSET S
    BY PartialSumsExist DEF Solves
  <2>2. SumFunctionOnSet(f, S) = P[S]
    BY SumIsPartialSum
  <2> HIDE DEF P
  <2> QED
    BY <2>1, <2>2
<1>2. ASSUME S # {}
      PROVE  SumFunctionOnSet(f, S) = f[First(S)] + SumFunctionOnSet(f, S \ {First(S)})
  <2> DEFINE r == S \ {First(S)}
             P == PartialSums(f, S)
             Q == PartialSums(f, r)
  <2>1. IsFiniteSet(r) /\ r \subseteq S /\ \A x \in r : f[x] \in Int
    BY <1>2, FirstRemoved
  <2>2. Solves(f, S, P) /\ Solves(f, r, Q)
    BY <2>1, PartialSumsExist
  <2> HIDE DEF P, Q
  <2>3. Solves(f, r, P)
    BY <2>1, <2>2 DEF Solves
  <2>4. P[r] = Q[r]
    BY <2>1, <2>2, <2>3, PartialSumsUnique
  <2>5. P[S] = f[First(S)] + Q[r]
    BY <1>2, <2>2, <2>4 DEF Solves
  <2> QED
    BY <2>5, SumIsPartialSum DEF P, Q
<1> QED
  BY <1>1, <1>2

LEMMA SumEmpty == ASSUME NEW f PROVE SumFunctionOnSet(f, {}) = 0
  BY SumByFirst, FS_EmptySet

LEMMA SumType ==
  ASSUME NEW S, IsFiniteSet(S), NEW f, \A x \in S : f[x] \in Int
  PROVE  SumFunctionOnSet(f, S) \in Int
BY SumByFirst

LEMMA SumByElement ==
  ASSUME NEW S, IsFiniteSet(S), NEW f, \A x \in S : f[x] \in Int, NEW a \in S
  PROVE  SumFunctionOnSet(f, S) = f[a] + SumFunctionOnSet(f, S \ {a})
<1> DEFINE Sum(s) == SumFunctionOnSet(f, s)
    Bad == {k \in Nat : \E s \in SUBSET S : \E x \in s :
              Cardinality(s) = k /\ Sum(s) # f[x] + Sum(s \ {x})}
<1>1. \A s \in SUBSET S : IsFiniteSet(s) /\ Cardinality(s) \in Nat /\ Sum(s) \in Int
  BY FS_Subset, FS_CardinalityType, SumType
<1>2. ASSUME Bad # {} PROVE FALSE
  <2>1. PICK k \in Bad : \A j \in Bad : k <= j
    <3>1. Bad \subseteq Nat
      OBVIOUS
    <3> HIDE DEF Bad
    <3> QED
      BY <1>2, <3>1, SmallestExists
  <2>2. PICK s \in SUBSET S : \E x \in s :
          Cardinality(s) = k /\ Sum(s) # f[x] + Sum(s \ {x})
    BY <2>1
  <2>3. PICK x \in s : Cardinality(s) = k /\ Sum(s) # f[x] + Sum(s \ {x})
    BY <2>2
  <2> DEFINE c == First(s)
  <2>4. c \in s /\ Sum(s) = f[c] + Sum(s \ {c})
    BY <1>1, SumByFirst, FirstRemoved
  <2>5. x # c
    BY <2>3, <2>4
  <2>6. ASSUME NEW y \in s, NEW z \in s, y # z
        PROVE  Sum(s \ {y}) = f[z] + Sum((s \ {y}) \ {z})
    <3>1. /\ s \ {y} \in SUBSET S /\ z \in s \ {y}
          /\ Cardinality(s \ {y}) = k - 1 /\ k - 1 \in Nat
      <4>1. IsFiniteSet(s) /\ Cardinality(s) = k /\ k \in Nat
        BY <1>1, <2>3
      <4>2. IsFiniteSet(s \ {y}) /\ Cardinality(s \ {y}) = k - 1
        BY <4>1, FS_RemoveElement
      <4>3. Cardinality(s \ {y}) \in Nat
        BY <4>2, FS_CardinalityType
      <4> QED
        BY <2>6, <4>2, <4>3
    <3>2. k - 1 \notin Bad
      <4>1. k \in Nat /\ ~ (k <= k - 1)
        OBVIOUS
      <4> HIDE DEF Bad
      <4> QED
        BY <2>1, <4>1
    <3> QED
      BY <3>1, <3>2
  <2>7. Sum(s \ {c}) = f[x] + Sum((s \ {c}) \ {x}) /\ Sum(s \ {x}) = f[c] + Sum((s \ {x}) \ {c})
    BY <2>4, <2>5, <2>6
  <2>8. (s \ {c}) \ {x} = (s \ {x}) \ {c}
    OBVIOUS
  <2>10. Sum(s) # f[x] + Sum(s \ {x})
    BY <2>3
  <2> DEFINE rest == Sum((s \ {x}) \ {c})
  <2>9. f[c] \in Int /\ f[x] \in Int /\ rest \in Int
    BY <1>1, <2>4
  <2>11. Sum(s) = f[c] + (f[x] + rest) /\ Sum(s \ {x}) = f[c] + rest
    BY <2>4, <2>7, <2>8
  <2> HIDE DEF c, Sum, rest
  <2> QED
    BY <2>9, <2>10, <2>11
<1> QED
  BY <1>1, <1>2

\* Equal terms under a change of the index that is one to one.
LEMMA SumReindexed ==
  ASSUME NEW S, IsFiniteSet(S), NEW f, NEW g, NEW h,
         \A x \in S : g[x] \in Int /\ f[h[x]] = g[x],
         \A x, y \in S : h[x] = h[y] => x = y
  PROVE  SumFunctionOnSet(g, S) = SumFunctionOnSet(f, {h[x] : x \in S})
<1> DEFINE Image(s) == {h[x] : x \in s}
    F(s) == SumFunctionOnSet(f, Image(s))
    G(s) == SumFunctionOnSet(g, s)
    Bad == {k \in Nat : \E s \in SUBSET S : Cardinality(s) = k /\ G(s) # F(s)}
<1>1. \A s \in SUBSET S : IsFiniteSet(s) /\ Cardinality(s) \in Nat
  BY FS_Subset, FS_CardinalityType
<1>2. ASSUME NEW s \in SUBSET S
      PROVE  IsFiniteSet(Image(s)) /\ \A i \in Image(s) : f[i] \in Int
  <2>1. [x \in s |-> h[x]] \in Surjection(s, Image(s))
    BY DEF Surjection
  <2> QED
    BY <1>1, <2>1, FS_Surjection
<1>3. ASSUME Bad # {} PROVE FALSE
  <2>1. PICK k \in Bad : \A j \in Bad : k <= j
    <3>1. Bad \subseteq Nat
      OBVIOUS
    <3> HIDE DEF Bad
    <3> QED
      BY <1>3, <3>1, SmallestExists
  <2>2. PICK s \in SUBSET S : Cardinality(s) = k /\ G(s) # F(s)
    BY <2>1
  <2>3. CASE s = {}
    <3>1. Image(s) = {}
      BY <2>3
    <3> QED
      BY <2>2, <2>3, <3>1, SumEmpty
  <2>4. CASE s # {}
    <3>1. PICK x \in s : TRUE
      BY <2>4
    <3> DEFINE r == s \ {x}
    <3>2. r \in SUBSET S /\ Cardinality(r) \in Nat /\ ~ (k <= Cardinality(r))
      BY <1>1, <2>2, FS_RemoveElement
    <3>3. G(r) = F(r)
      BY <2>1, <3>2
    <3>4. Image(r) = Image(s) \ {h[x]}
      OBVIOUS
    <3>5. G(s) = g[x] + G(r)
      BY <1>1, SumByElement
    <3>6. F(s) = f[h[x]] + F(r)
      <4> DEFINE im == Image(s)
                 e == h[x]
      <4>1. e \in im /\ IsFiniteSet(im) /\ \A i \in im : f[i] \in Int
        BY <1>2
      <4>2. Image(r) = im \ {e}
        BY <3>4
      <4>3. F(s) = SumFunctionOnSet(f, im) /\ F(r) = SumFunctionOnSet(f, im \ {e})
        BY <4>2
      <4> HIDE DEF im, e
      <4>4. SumFunctionOnSet(f, im) = f[e] + SumFunctionOnSet(f, im \ {e})
        BY <4>1, SumByElement
      <4> QED
        BY <4>3, <4>4 DEF e
    <3>7. f[h[x]] = g[x]
      OBVIOUS
    <3> HIDE DEF F, G, r
    <3> QED
      BY <2>2, <3>3, <3>5, <3>6, <3>7
  <2> QED
    BY <2>3, <2>4
<1>4. G(S) = F(S)
  <2>1. Cardinality(S) \in Nat
    BY <1>1
  <2> QED
    BY <1>3, <2>1
<1> QED
  BY <1>4

LEMMA SumSame ==
  ASSUME NEW S, IsFiniteSet(S), NEW f, NEW g, \A x \in S : g[x] \in Int /\ f[x] = g[x]
  PROVE  SumFunctionOnSet(f, S) = SumFunctionOnSet(g, S)
<1> DEFINE h == [x \in S |-> x]
<1>1. {h[x] : x \in S} = S
  OBVIOUS
<1>2. (\A x \in S : g[x] \in Int /\ f[h[x]] = g[x]) /\ \A x, y \in S : h[x] = h[y] => x = y
  OBVIOUS
<1> HIDE DEF h
<1> QED
  BY <1>1, <1>2, SumReindexed

\* One term changes.
LEMMA SumUpdated ==
  ASSUME NEW S, IsFiniteSet(S), NEW f, NEW g, NEW a \in S,
         \A x \in S : f[x] \in Int /\ g[x] \in Int,
         \A x \in S \ {a} : f[x] = g[x]
  PROVE  SumFunctionOnSet(g, S) = SumFunctionOnSet(f, S) - f[a] + g[a]
<1> DEFINE F == SumFunctionOnSet(f, S \ {a})
           G == SumFunctionOnSet(g, S \ {a})
<1>1. IsFiniteSet(S \ {a})
  BY FS_RemoveElement
<1>2. F = G /\ F \in Int
  BY <1>1, SumSame, SumType
<1>3. SumFunctionOnSet(f, S) = f[a] + F /\ SumFunctionOnSet(g, S) = g[a] + G
  BY SumByElement
<1>4. f[a] \in Int /\ g[a] \in Int
  OBVIOUS
<1> HIDE DEF F, G
<1> QED
  BY <1>2, <1>3, <1>4

\* All terms are the same.
LEMMA SumConstant ==
  ASSUME NEW S, IsFiniteSet(S), NEW f, NEW c \in Int, \A x \in S : f[x] = c
  PROVE  SumFunctionOnSet(f, S) = c * Cardinality(S)
<1> DEFINE F(s) == SumFunctionOnSet(f, s)
    Bad == {k \in Nat : \E s \in SUBSET S : Cardinality(s) = k /\ F(s) # c * Cardinality(s)}
<1>1. \A s \in SUBSET S : IsFiniteSet(s) /\ Cardinality(s) \in Nat
  BY FS_Subset, FS_CardinalityType
<1>2. ASSUME Bad # {} PROVE FALSE
  <2>1. PICK k \in Bad : \A j \in Bad : k <= j
    <3>1. Bad \subseteq Nat
      OBVIOUS
    <3> HIDE DEF Bad
    <3> QED
      BY <1>2, <3>1, SmallestExists
  <2>2. PICK s \in SUBSET S : Cardinality(s) = k /\ F(s) # c * Cardinality(s)
    BY <2>1
  <2>3. CASE s = {}
    <3>1. F(s) = 0 /\ Cardinality(s) = 0
      BY <2>3, SumEmpty, FS_EmptySet
    <3> HIDE DEF F
    <3> QED
      BY <2>2, <3>1
  <2>4. CASE s # {}
    <3>1. PICK x \in s : TRUE
      BY <2>4
    <3> DEFINE r == s \ {x}
    <3>2. r \in SUBSET S /\ Cardinality(r) \in Nat /\ Cardinality(r) = Cardinality(s) - 1
          /\ Cardinality(s) \in Nat /\ ~ (k <= Cardinality(r))
      BY <1>1, <2>2, FS_RemoveElement
    <3>3. F(r) = c * Cardinality(r)
      BY <2>1, <3>2
    <3>4. F(s) = c + F(r)
      BY <1>1, SumByElement
    <3>5. F(s) # c * Cardinality(s)
      BY <2>2
    <3> HIDE DEF F, r
    <3>6. ASSUME NEW m \in Nat PROVE c + c * (m - 1) = c * m
      OBVIOUS
    <3> QED
      BY <3>2, <3>3, <3>4, <3>5, <3>6
  <2> QED
    BY <2>3, <2>4
<1>3. Cardinality(S) \in Nat
  BY <1>1
<1> QED
  BY <1>2, <1>3
-----------------------------------------------------------------------------
(***************************************************************************)
(* Sublists.  What is kept of the first i members of a list, for all i.    *)
(***************************************************************************)
Kept(list, S) ==
  CHOOSE kept : kept = [i \in 0 .. Len(list) |->
                          IF i = 0 THEN << >>
                          ELSE IF list[i] \in S THEN Append(kept[i - 1], list[i])
                          ELSE kept[i - 1]]

KeepsOne(kept, list, S, i) ==
  kept[i] = IF list[i] \in S THEN Append(kept[i - 1], list[i]) ELSE kept[i - 1]

LEMMA KeptSteps ==
  ASSUME NEW T, NEW list \in Seq(T), NEW S
  PROVE  /\ Sublist(list, S) = Kept(list, S)[Len(list)]
         /\ Kept(list, S)[0] = << >>
         /\ Kept(list, S) \in [0 .. Len(list) -> Seq(T)]
         /\ \A i \in 1 .. Len(list) : KeepsOne(Kept(list, S), list, S, i)
<1> DEFINE n == Len(list)
           step == [i \in 1 .. n |->
                      [s \in Seq(T) |-> IF list[i] \in S THEN Append(s, list[i]) ELSE s]]
<1>1. n \in Nat /\ \A i \in 1 .. n : list[i] \in T
  BY LenProperties, ElementOfSeq
<1>2. << >> \in Seq(T)
  OBVIOUS
<1>3. step \in [1 .. n -> [Seq(T) -> Seq(T)]]
  <2> SUFFICES ASSUME NEW i \in 1 .. n, NEW s \in Seq(T)
               PROVE  (IF list[i] \in S THEN Append(s, list[i]) ELSE s) \in Seq(T)
    OBVIOUS
  <2>1. list[i] \in T
    BY <1>1
  <2> QED
    BY <2>1, AppendProperties
<1>4. PICK g \in [0 .. n -> Seq(T)] : Recurs(g, n, << >>, step)
  <2> HIDE DEF step, n
  <2> QED
    BY <1>1, <1>2, <1>3, RecursionAlongNat
<1>5. ASSUME NEW i \in 1 .. n
      PROVE  g[i] = IF list[i] \in S THEN Append(g[i - 1], list[i]) ELSE g[i - 1]
  <2>1. i - 1 \in 0 .. n
    BY <1>1
  <2>2. g[i - 1] \in Seq(T)
    BY <2>1
  <2>3. g[i] = step[i][g[i - 1]]
    BY <1>4 DEF Recurs
  <2>4. step[i] = [s \in Seq(T) |-> IF list[i] \in S THEN Append(s, list[i]) ELSE s]
    OBVIOUS
  <2> HIDE DEF step
  <2> QED
    BY <2>2, <2>3, <2>4
<1>6. g = [i \in 0 .. n |-> IF i = 0 THEN << >>
                            ELSE IF list[i] \in S THEN Append(g[i - 1], list[i])
                            ELSE g[i - 1]]
  <2>1. g[0] = << >>
    BY <1>4 DEF Recurs
  <2>2. g = [i \in 0 .. n |-> g[i]]
    OBVIOUS
  <2> HIDE DEF n, step
  <2>3. \A i \in 0 .. n : i = 0 \/ i \in 1 .. n
    BY <1>1
  <2> QED
    BY <1>5, <2>1, <2>2, <2>3
<1> DEFINE K == Kept(list, S)
<1>7. K = [i \in 0 .. n |-> IF i = 0 THEN << >>
                            ELSE IF list[i] \in S THEN Append(K[i - 1], list[i])
                            ELSE K[i - 1]]
  BY <1>6 DEF Kept
<1>8. Sublist(list, S) = K[n]
  BY DEF Sublist, Kept
<1> HIDE DEF K, step
<1>9. K[0] = << >> /\ \A i \in 1 .. n : KeepsOne(K, list, S, i)
  <2> HIDE DEF n
  <2>1. 0 \in 0 .. n /\ \A i \in 1 .. n : i # 0 /\ i \in 0 .. n
    BY <1>1
  <2> QED
    BY <1>7, <2>1 DEF KeepsOne
<1>10. \A i \in 0 .. n : K[i] \in Seq(T)
  <2> HIDE DEF n
  <2> DEFINE Bad == {i \in 0 .. n : K[i] \notin Seq(T)}
  <2>1. ASSUME Bad # {} PROVE FALSE
    <3>1. PICK i \in Bad : \A j \in Bad : i <= j
      <4>1. Bad \subseteq Nat
        OBVIOUS
      <4> HIDE DEF Bad
      <4> QED
        BY <2>1, <4>1, SmallestExists
    <3>2. i \in 1 .. n
      <4>1. i \in 0 .. n /\ K[i] # << >>
        BY <1>2, <3>1
      <4> QED
        BY <1>1, <1>9, <4>1
    <3>3. K[i - 1] \in Seq(T) /\ list[i] \in T
      BY <1>1, <3>1, <3>2
    <3>4. K[i] = IF list[i] \in S THEN Append(K[i - 1], list[i]) ELSE K[i - 1]
      BY <1>9, <3>2 DEF KeepsOne
    <3>5. Append(K[i - 1], list[i]) \in Seq(T)
      BY <3>3, AppendProperties
    <3> QED
      BY <3>1, <3>3, <3>4, <3>5
  <2> QED
    BY <2>1
<1>11. K \in [0 .. n -> Seq(T)]
  <2>1. K = [i \in 0 .. n |-> K[i]]
    BY <1>7
  <2> HIDE DEF n
  <2> QED
    BY <1>10, <2>1
<1> QED
  BY <1>8, <1>9, <1>11 DEF K

Members(list) == {list[i] : i \in DOMAIN list}
Distinct(list) == \A i, j \in DOMAIN list : list[i] = list[j] => i = j

\* What is appended becomes the last member.
LEMMA MembersOfAppend ==
  ASSUME NEW T, NEW list \in Seq(T), NEW x \in T
  PROVE  /\ Append(list, x) \in Seq(T)
         /\ Members(Append(list, x)) = Members(list) \cup {x}
         /\ Distinct(list) /\ x \notin Members(list) => Distinct(Append(list, x))
<1> DEFINE longer == Append(list, x)
           n == Len(list)
<1>1. /\ longer \in Seq(T) /\ n \in Nat /\ DOMAIN list = 1 .. n
      /\ DOMAIN longer = 1 .. n + 1 /\ longer[n + 1] = x
      /\ \A i \in 1 .. n : longer[i] = list[i]
  BY AppendProperties, LenProperties
<1> HIDE DEF longer, n
<1>2. \A i \in 1 .. n + 1 : i \in 1 .. n \/ i = n + 1
  BY <1>1
<1>3. Members(longer) = Members(list) \cup {x}
  <2>1. ASSUME NEW y \in Members(longer) PROVE y \in Members(list) \cup {x}
    <3>1. PICK i \in 1 .. n + 1 : y = longer[i]
      BY <1>1 DEF Members
    <3>2. CASE i \in 1 .. n
      BY <1>1, <3>1, <3>2 DEF Members
    <3>3. CASE i = n + 1
      BY <1>1, <3>1, <3>3
    <3> QED
      BY <1>2, <3>2, <3>3
  <2>2. ASSUME NEW y \in Members(list) PROVE y \in Members(longer)
    <3>1. PICK i \in 1 .. n : y = list[i]
      BY <1>1 DEF Members
    <3>2. i \in 1 .. n + 1 /\ longer[i] = y
      BY <1>1, <3>1
    <3> QED
      BY <1>1, <3>2 DEF Members
  <2>3. x \in Members(longer)
    BY <1>1 DEF Members
  <2> QED
    BY <2>1, <2>2, <2>3
<1>4. ASSUME Distinct(list), x \notin Members(list) PROVE Distinct(longer)
  BY <1>1, <1>2, <1>4 DEF Distinct, Members
<1> QED
  BY <1>1, <1>3, <1>4 DEF longer

\* What is put at the head.
LEMMA MembersOfCons ==
  ASSUME NEW T, NEW list \in Seq(T), NEW x \in T
  PROVE  /\ <<x>> \o list \in Seq(T)
         /\ Len(<<x>> \o list) = Len(list) + 1
         /\ Members(<<x>> \o list) = Members(list) \cup {x}
         /\ Distinct(list) /\ x \notin Members(list) => Distinct(<<x>> \o list)
<1> DEFINE longer == <<x>> \o list
           n == Len(list)
<1>1. /\ longer \in Seq(T) /\ n \in Nat /\ DOMAIN list = 1 .. n
      /\ Len(longer) = n + 1
      /\ DOMAIN longer = 1 .. n + 1 /\ longer[1] = x
      /\ \A i \in 1 .. n : longer[i + 1] = list[i]
  <2>1. <<x>> \in Seq(T) /\ Len(<<x>>) = 1 /\ <<x>>[1] = x
    OBVIOUS
  <2>2. n \in Nat /\ DOMAIN list = 1 .. n
    BY LenProperties
  <2>3. /\ longer \in Seq(T) /\ Len(longer) = n + 1
        /\ \A i \in 1 .. n + 1 : longer[i] = IF i <= 1 THEN <<x>>[i] ELSE list[i - 1]
    BY <2>1, <2>2, ConcatProperties
  <2>4. DOMAIN longer = 1 .. n + 1
    BY <2>3, LenProperties
  <2> HIDE DEF longer, n
  <2> QED
    BY <2>1, <2>2, <2>3, <2>4
<1> HIDE DEF longer, n
<1>2. \A i \in 1 .. n + 1 : i = 1 \/ (i - 1 \in 1 .. n /\ longer[i] = list[i - 1])
  <2> SUFFICES ASSUME NEW i \in 1 .. n + 1, i # 1
               PROVE  i - 1 \in 1 .. n /\ longer[i] = list[i - 1]
    OBVIOUS
  <2>1. i - 1 \in 1 .. n /\ (i - 1) + 1 = i
    BY <1>1
  <2> QED
    BY <1>1, <2>1
<1>3. Members(longer) = Members(list) \cup {x}
  <2>1. ASSUME NEW y \in Members(longer) PROVE y \in Members(list) \cup {x}
    <3>1. PICK i \in 1 .. n + 1 : y = longer[i]
      BY <1>1 DEF Members
    <3>2. CASE i = 1
      BY <1>1, <3>1, <3>2
    <3>3. CASE i - 1 \in 1 .. n /\ longer[i] = list[i - 1]
      BY <1>1, <3>1, <3>3 DEF Members
    <3> QED
      BY <1>2, <3>2, <3>3
  <2>2. ASSUME NEW y \in Members(list) PROVE y \in Members(longer)
    <3>1. PICK i \in 1 .. n : y = list[i]
      BY <1>1 DEF Members
    <3>2. i + 1 \in 1 .. n + 1 /\ longer[i + 1] = y
      BY <1>1, <3>1
    <3> QED
      BY <1>1, <3>2 DEF Members
  <2>3. x \in Members(longer)
    <3>1. 1 \in 1 .. n + 1
      BY <1>1
    <3> QED
      BY <1>1, <3>1 DEF Members
  <2> QED
    BY <2>1, <2>2, <2>3
<1>4. ASSUME Distinct(list), x \notin Members(list) PROVE Distinct(longer)
  <2> SUFFICES ASSUME NEW i \in 1 .. n + 1, NEW j \in 1 .. n + 1, longer[i] = longer[j]
               PROVE  i = j
    BY <1>1 DEF Distinct
  <2>1. CASE i = 1 \/ j = 1
    BY <1>1, <1>2, <1>4, <2>1 DEF Members
  <2>2. CASE i # 1 /\ j # 1
    <3>1. i - 1 \in 1 .. n /\ j - 1 \in 1 .. n /\ list[i - 1] = list[j - 1]
      BY <1>2, <2>2
    <3>2. i - 1 = j - 1
      BY <1>1, <1>4, <3>1 DEF Distinct
    <3> QED
      BY <3>2
  <2> QED
    BY <2>1, <2>2
<1> QED
  BY <1>1, <1>3, <1>4 DEF longer, n

\* A list without repetition is as long as the set of its members is large.
LEMMA DistinctCardinality ==
  ASSUME NEW T, NEW list \in Seq(T), Distinct(list)
  PROVE  IsFiniteSet(Members(list)) /\ Cardinality(Members(list)) = Len(list)
<1>1. Len(list) \in Nat /\ DOMAIN list = 1 .. Len(list)
  BY LenProperties
<1>2. list \in Bijection(1 .. Len(list), Members(list))
  <2>1. list \in [1 .. Len(list) -> Members(list)]
    BY <1>1, LenProperties DEF Members
  <2>2. list \in Injection(1 .. Len(list), Members(list))
    BY <1>1, <2>1 DEF Distinct, Injection, IsInjective
  <2>3. list \in Surjection(1 .. Len(list), Members(list))
    BY <1>1, <2>1 DEF Members, Surjection
  <2> QED
    BY <2>2, <2>3 DEF Bijection
<1>3. IsFiniteSet(1 .. Len(list)) /\ Cardinality(1 .. Len(list)) = Len(list)
  BY <1>1, FS_Interval
<1>4. ExistsBijection(1 .. Len(list), Members(list))
  BY <1>2 DEF ExistsBijection
<1> QED
  BY <1>3, <1>4, FS_Bijection

LEMMA SublistMembers ==
  ASSUME NEW T, NEW list \in Seq(T), NEW S
  PROVE  /\ Sublist(list, S) \in Seq(T)
         /\ Members(Sublist(list, S)) = Members(list) \cap S
         /\ Distinct(list) => Distinct(Sublist(list, S))
<1> DEFINE n == Len(list)
           K == Kept(list, S)
           firsts(i) == {list[j] : j \in 1 .. i}
           right(i) == /\ Members(K[i]) = firsts(i) \cap S
                       /\ Distinct(list) => Distinct(K[i])
           Bad == {i \in 0 .. n : ~ right(i)}
<1>1. /\ n \in Nat /\ DOMAIN list = 1 .. n
      /\ \A i \in 1 .. n : list[i] \in T
      /\ Members(list) = firsts(n)
  BY LenProperties, ElementOfSeq DEF Members
<1>2. /\ Sublist(list, S) = K[n] /\ K[0] = << >>
      /\ K \in [0 .. n -> Seq(T)]
      /\ \A i \in 1 .. n : KeepsOne(K, list, S, i)
  BY KeptSteps
<1> HIDE DEF K, n
<1>3. ASSUME Bad # {} PROVE FALSE
  <2>1. PICK i \in Bad : \A j \in Bad : i <= j
    <3>1. Bad \subseteq Nat
      OBVIOUS
    <3> HIDE DEF Bad
    <3> QED
      BY <1>3, <3>1, SmallestExists
  <2>2. i \in 0 .. n /\ ~ right(i)
    BY <2>1
  <2>3. CASE i = 0
    <3>1. Members(K[0]) = {} /\ firsts(0) = {} /\ Distinct(K[0])
      BY <1>2 DEF Members, Distinct
    <3> QED
      BY <2>2, <2>3, <3>1
  <2>4. CASE i # 0
    <3>1. i \in 1 .. n /\ i - 1 \in 0 .. n /\ ~ (i <= i - 1)
      BY <1>1, <2>2, <2>4
    <3>2. right(i - 1)
      <4>1. i - 1 \notin Bad
        <5> HIDE DEF Bad
        <5> QED
          BY <2>1, <3>1
      <4> QED
        BY <3>1, <4>1
    <3>3. firsts(i) = firsts(i - 1) \cup {list[i]}
      <4>1. \A j \in 1 .. i : j \in 1 .. i - 1 \/ j = i
        BY <3>1
      <4>2. \A j \in 1 .. i - 1 : j \in 1 .. i
        BY <3>1
      <4>3. i \in 1 .. i
        BY <3>1
      <4> QED
        BY <4>1, <4>2, <4>3
    <3>4. K[i - 1] \in Seq(T) /\ list[i] \in T
      BY <1>1, <1>2, <3>1
    <3>5. CASE list[i] \notin S
      <4>1. K[i] = K[i - 1]
        BY <1>2, <3>1, <3>5 DEF KeepsOne
      <4> QED
        BY <2>2, <3>2, <3>3, <3>5, <4>1
    <3>6. CASE list[i] \in S
      <4>1. K[i] = Append(K[i - 1], list[i])
        BY <1>2, <3>1, <3>6 DEF KeepsOne
      <4>2. Members(K[i]) = Members(K[i - 1]) \cup {list[i]}
        BY <3>4, <4>1, MembersOfAppend
      <4>3. ASSUME Distinct(list) PROVE Distinct(K[i])
        <5>1. \A j \in 1 .. i - 1 : list[j] # list[i]
          <6> SUFFICES ASSUME NEW j \in 1 .. i - 1, list[j] = list[i] PROVE FALSE
            OBVIOUS
          <6>1. j \in 1 .. n /\ j # i
            BY <1>1, <3>1
          <6> QED
            BY <1>1, <3>1, <4>3, <6>1 DEF Distinct
        <5>2. list[i] \notin Members(K[i - 1])
          BY <3>2, <5>1
        <5> QED
          BY <3>2, <3>4, <4>1, <4>3, <5>2, MembersOfAppend
      <4> QED
        BY <2>2, <3>2, <3>3, <3>6, <4>2, <4>3
    <3> QED
      BY <3>5, <3>6
  <2> QED
    BY <2>3, <2>4
<1>4. n \in 0 .. n
  BY <1>1
<1>5. right(n) /\ K[n] \in Seq(T)
  <2>1. n \notin Bad
    <3> HIDE DEF Bad
    <3> QED
      BY <1>3
  <2> QED
    BY <1>2, <1>4, <2>1
<1> QED
  BY <1>1, <1>2, <1>5

\* Two lists that agree on their first n members, and two sets that agree on
\* these, keep the same.
LEMMA KeptSame ==
  ASSUME NEW T, NEW list \in Seq(T), NEW longer \in Seq(T), NEW S, NEW U,
         Len(list) <= Len(longer),
         \A i \in 1 .. Len(list) :
           longer[i] = list[i] /\ (list[i] \in S <=> list[i] \in U)
  PROVE  Sublist(list, S) = Kept(longer, U)[Len(list)]
<1> DEFINE n == Len(list)
           K == Kept(list, S)
           L == Kept(longer, U)
           Bad == {i \in 0 .. n : K[i] # L[i]}
<1>1. n \in Nat /\ Len(longer) \in Nat
  BY LenProperties
<1>2. /\ Sublist(list, S) = K[n] /\ K[0] = << >> /\ L[0] = << >>
      /\ \A i \in 1 .. n : KeepsOne(K, list, S, i)
      /\ \A i \in 1 .. Len(longer) : KeepsOne(L, longer, U, i)
  BY KeptSteps
<1> HIDE DEF K, L
<1>3. ASSUME Bad # {} PROVE FALSE
  <2>1. PICK i \in Bad : \A j \in Bad : i <= j
    <3>1. Bad \subseteq Nat
      BY <1>1
    <3> HIDE DEF Bad
    <3> QED
      BY <1>3, <3>1, SmallestExists
  <2>2. i \in 0 .. n /\ K[i] # L[i]
    BY <2>1
  <2>3. i \in 1 .. n /\ i - 1 \in 0 .. n /\ ~ (i <= i - 1) /\ i \in 1 .. Len(longer)
    BY <1>1, <1>2, <2>2
  <2>4. K[i - 1] = L[i - 1]
    <3>1. i - 1 \notin Bad
      <4> HIDE DEF Bad
      <4> QED
        BY <2>1, <2>3
    <3> QED
      BY <2>3, <3>1
  <2>5. KeepsOne(K, list, S, i) /\ KeepsOne(L, longer, U, i)
    BY <1>2, <2>3
  <2>6. longer[i] = list[i] /\ (list[i] \in S <=> list[i] \in U)
    BY <2>3
  <2> QED
    BY <2>2, <2>4, <2>5, <2>6 DEF KeepsOne
<1>4. n \in 0 .. n
  BY <1>1
<1>5. K[n] = L[n]
  <2>1. n \notin Bad
    <3> HIDE DEF Bad
    <3> QED
      BY <1>3
  <2> QED
    BY <1>4, <2>1
<1> QED
  BY <1>2, <1>5 DEF L

\* What is kept of a list depends only on which of its members are in the set.
LEMMA SublistSame ==
  ASSUME NEW T, NEW list \in Seq(T), NEW S, NEW U,
         \A i \in 1 .. Len(list) : list[i] \in S <=> list[i] \in U
  PROVE  Sublist(list, S) = Sublist(list, U)
<1>1. Len(list) \in Nat
  BY LenProperties
<1>2. Sublist(list, U) = Kept(list, U)[Len(list)]
  BY KeptSteps
<1>3. Sublist(list, S) = Kept(list, U)[Len(list)]
  BY <1>1, KeptSame
<1> QED
  BY <1>2, <1>3

LEMMA SublistOfAppend ==
  ASSUME NEW T, NEW list \in Seq(T), NEW x \in T, NEW S
  PROVE  Sublist(Append(list, x), S) =
           IF x \in S THEN Append(Sublist(list, S), x) ELSE Sublist(list, S)
<1> DEFINE longer == Append(list, x)
           n == Len(list)
<1>1. /\ longer \in Seq(T) /\ n \in Nat /\ Len(longer) = n + 1
      /\ longer[n + 1] = x /\ \A i \in 1 .. n : longer[i] = list[i]
  BY AppendProperties, LenProperties
<1> HIDE DEF longer
<1>2. Sublist(list, S) = Kept(longer, S)[n]
  BY <1>1, KeptSame
<1>3. /\ Sublist(longer, S) = Kept(longer, S)[n + 1]
      /\ KeepsOne(Kept(longer, S), longer, S, n + 1)
  <2>1. n + 1 \in 1 .. Len(longer)
    BY <1>1
  <2> QED
    BY <1>1, <2>1, KeptSteps
<1>4. (n + 1) - 1 = n
  BY <1>1
<1> QED
  BY <1>1, <1>2, <1>3, <1>4 DEF KeepsOne, longer
=============================================================================
