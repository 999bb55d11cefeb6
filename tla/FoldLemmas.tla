----------------------------- MODULE FoldLemmas -----------------------------
(***************************************************************************)
(* What the folds of the models compute, for any finite set and any        *)
(* sequence.  Induction is over sets: a set of numbers, or of subsets, that *)
(* is closed under one more step has them all.  The community modules       *)
(* define a fold by a recursive function on the subsets of a set; that such *)
(* a function exists, and that there is one only, comes first.              *)
(***************************************************************************)
EXTENDS Integers, FiniteSets, Functions, FiniteSetTheorems, WellFoundedInduction, TLAPS

\* A nonempty family of finite sets has a smallest one.
LEMMA SmallestSubset ==
    ASSUME NEW S, IsFiniteSet(S), NEW B, B \subseteq SUBSET S, B # {}
    PROVE  \E T \in B : \A U \in B : ~(U \subseteq T /\ U # T)
<1>1. IsWellFoundedOn(StrictSubsetOrdering(S), SUBSET S)
  BY FS_StrictSubsetOrderingWellFounded, FS_FiniteSubsetsOfFinite, Zenon
<1>2. PICK T \in B : \A U \in B : ~(<<U, T>> \in StrictSubsetOrdering(S))
  BY <1>1, WFMin, Zenon
<1>3. ASSUME NEW U \in B, U \subseteq T, U # T
      PROVE  <<U, T>> \in StrictSubsetOrdering(S)
  BY <1>3 DEF StrictSubsetOrdering
<1>4. \A U \in B : ~(U \subseteq T /\ U # T)
  BY <1>2, <1>3, Zenon
<1> QED  BY <1>4, Zenon

\* A family that holds the empty set, and with a set each one larger by one
\* element, holds the whole of a finite set.
LEMMA SubsetInduction ==
    ASSUME NEW S, IsFiniteSet(S), NEW G, {} \in G,
           \A T \in SUBSET S : \A x \in T : T \ {x} \in G => T \in G
    PROVE  S \in G
<1> DEFINE B == {T \in SUBSET S : T \notin G}
<1> SUFFICES ASSUME S \notin G PROVE FALSE
  OBVIOUS
<1>1. B \subseteq SUBSET S /\ B # {}
  OBVIOUS
<1>2. PICK T \in B : \A U \in B : ~(U \subseteq T /\ U # T)
  <2> HIDE DEF B
  <2> QED  BY <1>1, SmallestSubset
<1>3. PICK x \in T : TRUE
  OBVIOUS
<1>4. T \ {x} \subseteq T /\ T \ {x} # T /\ T \ {x} \in SUBSET S
  BY <1>2, <1>3
<1>5. T \ {x} \in G
  BY <1>2, <1>4
<1> QED  BY <1>2, <1>3, <1>5

\* The natural numbers in a set that holds 0 and with each number the next.
LEMMA NatSetInduction ==
    ASSUME NEW G, 0 \in G, \A n \in Nat : n \in G => n + 1 \in G
    PROVE  \A n \in Nat : n \in G
<1> DEFINE B == {n \in Nat : n \notin G}
<1> SUFFICES ASSUME B # {} PROVE FALSE
  OBVIOUS
<1>1. IsWellFoundedOn(OpToRel(<, Nat), Nat)
  BY NatLessThanWellFounded
<1>2. \E n \in B : \A m \in B : ~(m < n)
  <2>1. B \subseteq Nat
    OBVIOUS
  <2>2. PICK n \in B : \A m \in B : ~(<<m, n>> \in OpToRel(<, Nat))
    <3> HIDE DEF B
    <3> QED  BY <1>1, <2>1, WFMin, Zenon
  <2>3. \A m \in B : <<m, n>> \in Nat \X Nat
    BY <2>1
  <2>4. \A m \in B : ~(m < n)
    BY <2>2, <2>3 DEF OpToRel
  <2> QED  BY <2>4, Zenon
<1>3. PICK n \in Nat : n \notin G /\ \A m \in Nat : m \notin G => ~(m < n)
  BY <1>2
<1>4. n # 0
  BY <1>3
<1>5. n - 1 \in Nat /\ n - 1 < n /\ n = (n - 1) + 1
  BY <1>4
<1> QED  BY <1>3, <1>5

-----------------------------------------------------------------------------
\* The function by which a sum over S is defined.
IsSum(it, g, S) ==
    it = [s \in SUBSET S |->
            IF s = {} THEN 0
            ELSE g[CHOOSE x \in s : TRUE] + it[s \ {CHOOSE x \in s : TRUE}]]

LEMMA IsSumRestrict ==
    ASSUME NEW g, NEW S, NEW T \in SUBSET S, NEW it, IsSum(it, g, S)
    PROVE  IsSum([s \in SUBSET T |-> it[s]], g, T)
<1> DEFINE r == [s \in SUBSET T |-> it[s]]
<1>1. \A s \in SUBSET T : s \in SUBSET S /\ \A x : s \ {x} \in SUBSET T
  OBVIOUS
<1>2. ASSUME NEW s \in SUBSET T
      PROVE  r[s] = IF s = {} THEN 0
                    ELSE g[CHOOSE x \in s : TRUE] + r[s \ {CHOOSE x \in s : TRUE}]
  BY <1>1 DEF IsSum
<1>3. r = [s \in SUBSET T |->
            IF s = {} THEN 0
            ELSE g[CHOOSE x \in s : TRUE] + r[s \ {CHOOSE x \in s : TRUE}]]
  BY <1>2
<1> QED  BY <1>3 DEF IsSum

LEMMA IsSumUnique ==
    ASSUME NEW g, NEW S, IsFiniteSet(S), NEW a, NEW b, IsSum(a, g, S), IsSum(b, g, S)
    PROVE  a = b
<1> DEFINE G == {s \in SUBSET S : a[s] = b[s]}
<1>1. {} \in G
  BY DEF IsSum
<1> DEFINE B == {s \in SUBSET S : s \notin G}
<1>2. B = {}
  <2> SUFFICES ASSUME B # {} PROVE FALSE
    OBVIOUS
  <2>1. B \subseteq SUBSET S
    OBVIOUS
  <2>2. PICK T \in B : \A U \in B : ~(U \subseteq T /\ U # T)
    <3> HIDE DEF B
    <3> QED  BY <2>1, SmallestSubset
  <2>3. T # {} /\ T \in SUBSET S
    BY <1>1, <2>2
  <2> DEFINE x == CHOOSE x \in T : TRUE
  <2>4. x \in T
    BY <2>3
  <2>5. a[T] = g[x] + a[T \ {x}] /\ b[T] = g[x] + b[T \ {x}]
    BY <2>3 DEF IsSum
  <2> HIDE DEF x
  <2>6. T \ {x} \notin B
    BY <2>2, <2>4
  <2>7. a[T \ {x}] = b[T \ {x}]
    BY <2>3, <2>6
  <2>8. T \in G
    BY <2>3, <2>5, <2>7
  <2> QED  BY <2>2, <2>8
<1>3. \A s \in SUBSET S : a[s] = b[s]
  BY <1>2
<1>4. DOMAIN a = SUBSET S /\ DOMAIN b = SUBSET S
  BY DEF IsSum
<1>5. a = [s \in SUBSET S |-> a[s]] /\ b = [s \in SUBSET S |-> b[s]]
  BY DEF IsSum
<1> QED  BY <1>3, <1>5

LEMMA IsSumExists ==
    ASSUME NEW g, NEW S, IsFiniteSet(S)
    PROVE  \E it : IsSum(it, g, S)
<1> DEFINE B == {T \in SUBSET S : ~\E it : IsSum(it, g, T)}
<1> SUFFICES ASSUME B # {} PROVE FALSE
  OBVIOUS
<1>1. PICK T \in B : \A U \in B : ~(U \subseteq T /\ U # T)
  <2>1. B \subseteq SUBSET S
    OBVIOUS
  <2> HIDE DEF B
  <2> QED  BY <2>1, SmallestSubset
<1> DEFINE F(t) == CHOOSE it : IsSum(it, g, t)
           p(s) == CHOOSE x \in s : TRUE
           h == [s \in SUBSET T |->
                   IF s = {} THEN 0 ELSE g[p(s)] + F(s \ {p(s)})[s \ {p(s)}]]
<1>2. \A t \in SUBSET T : t # T => IsSum(F(t), g, t)
  <2>1. ASSUME NEW t \in SUBSET T, t # T PROVE \E it : IsSum(it, g, t)
    BY <1>1, <2>1
  <2> QED  BY <2>1
<1>3. \A s : s # {} => p(s) \in s
  OBVIOUS
<1> HIDE DEF F
<1>4. ASSUME NEW t \in SUBSET T, t # T PROVE h[t] = F(t)[t]
  <2>1. CASE t = {}
    BY <1>2, <1>4, <2>1 DEF IsSum
  <2>2. CASE t # {}
    <3> DEFINE u == t \ {p(t)}
    <3>1. u \in SUBSET t /\ u # t /\ u \in SUBSET T /\ u # T
      BY <1>3, <2>2, <1>4
    <3>2. F(t)[t] = g[p(t)] + F(t)[u]
      BY <1>2, <1>4, <2>2 DEF IsSum
    <3>3. h[t] = g[p(t)] + F(u)[u]
      BY <2>2
    <3>4. IsFiniteSet(u) /\ u \in SUBSET u
      BY <3>1, FS_Subset
    <3> HIDE DEF u, h, p
    <3>5. IsSum([s \in SUBSET u |-> F(t)[s]], g, u)
      BY <1>2, <1>4, <3>1, IsSumRestrict
    <3>6. [s \in SUBSET u |-> F(t)[s]] = F(u)
      BY <1>2, <3>1, <3>4, <3>5, IsSumUnique
    <3>7. F(t)[u] = F(u)[u]
      BY <3>4, <3>6
    <3> QED  BY <3>2, <3>3, <3>7
  <2> QED  BY <2>1, <2>2
<1>5. IsSum(h, g, T)
  <2>1. ASSUME NEW s \in SUBSET T, s # {}
        PROVE  h[s] = g[p(s)] + h[s \ {p(s)}]
    <3>1. s \ {p(s)} \in SUBSET T /\ s \ {p(s)} # T
      BY <1>3, <2>1
    <3>2. h[s] = g[p(s)] + F(s \ {p(s)})[s \ {p(s)}]
      BY <2>1
    <3> HIDE DEF h, p
    <3> QED  BY <1>4, <3>1, <3>2
  <2>2. ASSUME NEW s \in SUBSET T
        PROVE  h[s] = IF s = {} THEN 0 ELSE g[p(s)] + h[s \ {p(s)}]
    BY <2>1
  <2>3. h = [s \in SUBSET T |-> h[s]]
    OBVIOUS
  <2> HIDE DEF h
  <2>4. h = [s \in SUBSET T |-> IF s = {} THEN 0 ELSE g[p(s)] + h[s \ {p(s)}]]
    BY <2>2, <2>3
  <2> QED  BY <2>4 DEF IsSum
<1> QED  BY <1>1, <1>5

\* The equation by which a sum over a finite set is computed.
LEMMA SumStep ==
    ASSUME NEW g, NEW S, IsFiniteSet(S)
    PROVE  SumFunctionOnSet(g, S) =
              IF S = {} THEN 0
              ELSE LET x == CHOOSE x \in S : TRUE IN g[x] + SumFunctionOnSet(g, S \ {x})
<1>1. ASSUME NEW T, IsFiniteSet(T)
      PROVE  \E it : IsSum(it, g, T) /\ SumFunctionOnSet(g, T) = it[T]
  <2> DEFINE it == CHOOSE it :
                      it = [s \in SUBSET T |->
                              IF s = {} THEN 0
                              ELSE g[CHOOSE x \in s : TRUE] + it[s \ {CHOOSE x \in s : TRUE}]]
  <2>1. \E f : IsSum(f, g, T)
    BY <1>1, IsSumExists
  <2>2. SumFunctionOnSet(g, T) = it[T]
    BY DEF SumFunctionOnSet, FoldFunctionOnSet, MapThenFoldSet
  <2>3. IsSum(it, g, T)
    BY <2>1 DEF IsSum
  <2> QED  BY <2>2, <2>3
<1>2. PICK a : IsSum(a, g, S) /\ SumFunctionOnSet(g, S) = a[S]
  BY <1>1
<1>3. CASE S = {}
  BY <1>2, <1>3 DEF IsSum
<1>4. CASE S # {}
  <2> DEFINE x == CHOOSE x \in S : TRUE
             T == S \ {x}
  <2>1. a[S] = g[x] + a[T]
    BY <1>2, <1>4 DEF IsSum
  <2>2. IsFiniteSet(T) /\ T \in SUBSET S /\ T \in SUBSET T
    BY FS_Subset
  <2> HIDE DEF T
  <2>3. PICK b : IsSum(b, g, T) /\ SumFunctionOnSet(g, T) = b[T]
    BY <1>1, <2>2
  <2>4. [s \in SUBSET T |-> a[s]] = b
    <3> DEFINE r == [s \in SUBSET T |-> a[s]]
    <3>1. IsSum(r, g, T)
      BY <1>2, <2>2, IsSumRestrict
    <3> HIDE DEF r
    <3>2. r = b
      BY <2>2, <2>3, <3>1, IsSumUnique
    <3> QED  BY <3>2 DEF r
  <2>5. a[T] = b[T]
    BY <2>2, <2>4
  <2>6. SumFunctionOnSet(g, S) = g[x] + SumFunctionOnSet(g, T)
    BY <1>2, <2>1, <2>3, <2>5
  <2> QED  BY <1>4, <2>6 DEF T
<1> QED  BY <1>3, <1>4

LEMMA SumEmpty == \A g : SumFunctionOnSet(g, {}) = 0
BY SumStep, FS_EmptySet

\* Any element may be taken out first.
LEMMA SumRemove ==
    ASSUME NEW g, NEW S, IsFiniteSet(S), \A x \in S : g[x] \in Int
    PROVE  /\ SumFunctionOnSet(g, S) \in Int
           /\ \A x \in S : SumFunctionOnSet(g, S) = g[x] + SumFunctionOnSet(g, S \ {x})
<1> DEFINE Sum(T) == SumFunctionOnSet(g, T)
           B == {T \in SUBSET S :
                    ~(Sum(T) \in Int /\ \A x \in T : Sum(T) = g[x] + Sum(T \ {x}))}
<1> SUFFICES ASSUME B # {} PROVE FALSE
  OBVIOUS
<1>1. PICK T \in B : \A U \in B : ~(U \subseteq T /\ U # T)
  <2>1. B \subseteq SUBSET S
    OBVIOUS
  <2> HIDE DEF B
  <2> QED  BY <2>1, SmallestSubset
<1>2. T \in SUBSET S /\ IsFiniteSet(T)
  BY <1>1, FS_Subset
<1>3. \A U \in SUBSET T : U # T => /\ Sum(U) \in Int
                                  /\ \A x \in U : Sum(U) = g[x] + Sum(U \ {x})
  BY <1>1, <1>2
<1>4. T # {}
  <2> SUFFICES ASSUME T = {} PROVE FALSE
    OBVIOUS
  <2>1. Sum(T) = 0
    BY SumEmpty
  <2> QED  BY <1>1, <2>1
<1> DEFINE y == CHOOSE x \in T : TRUE
<1>5. y \in T /\ Sum(T) = g[y] + Sum(T \ {y})
  BY <1>2, <1>4, SumStep
<1> HIDE DEF y, Sum
<1>6. T \ {y} \in SUBSET T /\ T \ {y} # T
  BY <1>5
<1>7. Sum(T) \in Int
  BY <1>2, <1>3, <1>5, <1>6
<1>8. ASSUME NEW x \in T PROVE Sum(T) = g[x] + Sum(T \ {x})
  <2>1. CASE x = y
    BY <1>5, <2>1
  <2>2. CASE x # y
    <3> DEFINE R == (T \ {y}) \ {x}
    <3>1. R = (T \ {x}) \ {y}
      OBVIOUS
    <3>2. R \in SUBSET T /\ R # T /\ x \in T \ {y} /\ y \in T \ {x}
      BY <1>5, <2>2
    <3>3. T \ {x} \in SUBSET T /\ T \ {x} # T
      OBVIOUS
    <3>4. Sum(T \ {y}) = g[x] + Sum(R)
      BY <1>3, <1>6, <3>2
    <3>5. Sum(T \ {x}) = g[y] + Sum(R)
      BY <1>3, <3>1, <3>2, <3>3
    <3>6. Sum(R) \in Int /\ g[x] \in Int /\ g[y] \in Int
      BY <1>2, <1>3, <1>5, <3>2
    <3> HIDE DEF R
    <3> QED  BY <1>5, <3>4, <3>5, <3>6
  <2> QED  BY <2>1, <2>2
<1> QED  BY <1>1, <1>7, <1>8

LEMMA SumType ==
    ASSUME NEW g, NEW S, IsFiniteSet(S), \A x \in S : g[x] \in Int
    PROVE  SumFunctionOnSet(g, S) \in Int
BY SumRemove

LEMMA SumAdd ==
    ASSUME NEW g, NEW S, IsFiniteSet(S), NEW x, x \notin S, \A y \in S \cup {x} : g[y] \in Int
    PROVE  SumFunctionOnSet(g, S \cup {x}) = SumFunctionOnSet(g, S) + g[x]
<1>1. IsFiniteSet(S \cup {x}) /\ (S \cup {x}) \ {x} = S
  BY FS_AddElement
<1>2. SumFunctionOnSet(g, S \cup {x}) = g[x] + SumFunctionOnSet(g, S)
  BY <1>1, SumRemove
<1>3. SumFunctionOnSet(g, S) \in Int /\ g[x] \in Int
  BY SumType
<1> QED  BY <1>2, <1>3

\* Sums of one set, compared element by element.
LEMMA SumLeq ==
    ASSUME NEW g, NEW h, NEW S, IsFiniteSet(S),
           \A x \in S : g[x] \in Int /\ h[x] \in Int /\ g[x] <= h[x]
    PROVE  SumFunctionOnSet(g, S) <= SumFunctionOnSet(h, S)
<1> DEFINE G == {T \in SUBSET S : SumFunctionOnSet(g, T) <= SumFunctionOnSet(h, T)}
<1>1. {} \in G
  BY SumEmpty
<1>2. ASSUME NEW T \in SUBSET S, NEW x \in T, T \ {x} \in G
      PROVE  T \in G
  <2>1. IsFiniteSet(T) /\ IsFiniteSet(T \ {x})
    BY FS_Subset
  <2>2. /\ SumFunctionOnSet(g, T) = g[x] + SumFunctionOnSet(g, T \ {x})
        /\ SumFunctionOnSet(h, T) = h[x] + SumFunctionOnSet(h, T \ {x})
    BY <2>1, SumRemove
  <2>3. SumFunctionOnSet(g, T \ {x}) \in Int /\ SumFunctionOnSet(h, T \ {x}) \in Int
    BY <2>1, SumType
  <2>4. SumFunctionOnSet(g, T \ {x}) <= SumFunctionOnSet(h, T \ {x})
    BY <1>2
  <2>5. x \in S
    OBVIOUS
  <2>6. SumFunctionOnSet(g, T) <= SumFunctionOnSet(h, T)
    BY <2>2, <2>3, <2>4, <2>5
  <2> QED  BY <2>6
<1> HIDE DEF G
<1>3. S \in G
  BY <1>1, <1>2, SubsetInduction
<1> QED  BY <1>3 DEF G

LEMMA SumSame ==
    ASSUME NEW g, NEW h, NEW S, IsFiniteSet(S), \A x \in S : g[x] \in Int /\ g[x] = h[x]
    PROVE  SumFunctionOnSet(g, S) = SumFunctionOnSet(h, S)
<1>1. SumFunctionOnSet(g, S) <= SumFunctionOnSet(h, S)
  BY SumLeq
<1>2. SumFunctionOnSet(h, S) <= SumFunctionOnSet(g, S)
  BY SumLeq
<1>3. SumFunctionOnSet(h, S) \in Int /\ SumFunctionOnSet(g, S) \in Int
  BY SumType
<1> QED  BY <1>1, <1>2, <1>3

LEMMA SumZero ==
    ASSUME NEW g, NEW S, IsFiniteSet(S), \A x \in S : g[x] = 0
    PROVE  SumFunctionOnSet(g, S) = 0
<1> DEFINE G == {T \in SUBSET S : SumFunctionOnSet(g, T) = 0}
<1>1. {} \in G
  BY SumEmpty
<1>2. ASSUME NEW T \in SUBSET S, NEW x \in T, T \ {x} \in G
      PROVE  T \in G
  <2>1. IsFiniteSet(T)
    BY FS_Subset
  <2>2. SumFunctionOnSet(g, T) = g[x] + SumFunctionOnSet(g, T \ {x})
    BY <2>1, SumRemove
  <2> QED  BY <1>2, <2>2
<1> HIDE DEF G
<1>3. S \in G
  BY <1>1, <1>2, SubsetInduction
<1> QED  BY <1>3 DEF G

LEMMA SumNat ==
    ASSUME NEW g, NEW S, IsFiniteSet(S), \A x \in S : g[x] \in Nat
    PROVE  SumFunctionOnSet(g, S) \in Nat
<1> DEFINE z == [x \in S |-> 0]
<1>1. \A x \in S : z[x] = 0
  OBVIOUS
<1> HIDE DEF z
<1>2. SumFunctionOnSet(z, S) = 0
  BY <1>1, SumZero
<1>3. SumFunctionOnSet(z, S) <= SumFunctionOnSet(g, S)
  BY <1>1, SumLeq
<1>4. SumFunctionOnSet(g, S) \in Int
  BY SumType
<1> QED  BY <1>2, <1>3, <1>4

\* The sum of two functions, element by element.
LEMMA SumOfSums ==
    ASSUME NEW f, NEW g, NEW h, NEW S, IsFiniteSet(S),
           \A x \in S : g[x] \in Int /\ h[x] \in Int /\ f[x] = g[x] + h[x]
    PROVE  SumFunctionOnSet(f, S) = SumFunctionOnSet(g, S) + SumFunctionOnSet(h, S)
<1> DEFINE G == {T \in SUBSET S :
                    SumFunctionOnSet(f, T) = SumFunctionOnSet(g, T) + SumFunctionOnSet(h, T)}
<1>1. {} \in G
  BY SumEmpty
<1>2. ASSUME NEW T \in SUBSET S, NEW x \in T, T \ {x} \in G
      PROVE  T \in G
  <2>1. IsFiniteSet(T) /\ IsFiniteSet(T \ {x})
    BY FS_Subset
  <2>2. /\ SumFunctionOnSet(g, T) = g[x] + SumFunctionOnSet(g, T \ {x})
        /\ SumFunctionOnSet(h, T) = h[x] + SumFunctionOnSet(h, T \ {x})
        /\ SumFunctionOnSet(f, T) = f[x] + SumFunctionOnSet(f, T \ {x})
    BY <2>1, SumRemove
  <2>3. SumFunctionOnSet(g, T \ {x}) \in Int /\ SumFunctionOnSet(h, T \ {x}) \in Int
    BY <2>1, SumType
  <2>4. SumFunctionOnSet(f, T \ {x})
           = SumFunctionOnSet(g, T \ {x}) + SumFunctionOnSet(h, T \ {x})
    BY <1>2
  <2>5. x \in S
    OBVIOUS
  <2>6. SumFunctionOnSet(f, T) = SumFunctionOnSet(g, T) + SumFunctionOnSet(h, T)
    BY <2>2, <2>3, <2>4, <2>5
  <2> QED  BY <2>6
<1> HIDE DEF G
<1>3. S \in G
  BY <1>1, <1>2, SubsetInduction
<1> QED  BY <1>3 DEF G

\* What lies outside a part adds nothing where the function is 0 there.
LEMMA SumPart ==
    ASSUME NEW g, NEW S, IsFiniteSet(S), NEW R \in SUBSET S,
           \A x \in S : g[x] \in Int, \A x \in S \ R : g[x] = 0
    PROVE  SumFunctionOnSet(g, S) = SumFunctionOnSet(g, R)
<1> DEFINE G == {T \in SUBSET S : SumFunctionOnSet(g, T) = SumFunctionOnSet(g, T \cap R)}
<1>1. {} \in G
  <2>1. {} \cap R = {}
    OBVIOUS
  <2> QED  BY <2>1
<1>2. ASSUME NEW T \in SUBSET S, NEW x \in T, T \ {x} \in G
      PROVE  T \in G
  <2>1. IsFiniteSet(T) /\ IsFiniteSet(T \ {x}) /\ IsFiniteSet(T \cap R)
    BY FS_Subset
  <2>2. SumFunctionOnSet(g, T) = g[x] + SumFunctionOnSet(g, T \ {x})
    BY <2>1, SumRemove
  <2>3. SumFunctionOnSet(g, T \ {x}) = SumFunctionOnSet(g, (T \ {x}) \cap R)
    BY <1>2
  <2>4. SumFunctionOnSet(g, T \ {x}) \in Int
    BY <2>1, SumType
  <2>5. CASE x \in R
    <3>1. (T \cap R) \ {x} = (T \ {x}) \cap R /\ x \in T \cap R
      BY <2>5
    <3>2. \A y \in T \cap R : g[y] \in Int
      OBVIOUS
    <3>3. SumFunctionOnSet(g, T \cap R) = g[x] + SumFunctionOnSet(g, (T \cap R) \ {x})
      BY <2>1, <3>1, <3>2, SumRemove
    <3> QED  BY <2>2, <2>3, <3>1, <3>3
  <2>6. CASE x \notin R
    <3>1. T \cap R = (T \ {x}) \cap R
      BY <2>6
    <3>2. SumFunctionOnSet(g, T \cap R) = SumFunctionOnSet(g, (T \ {x}) \cap R)
      BY <3>1, Zenon
    <3>3. g[x] = 0
      BY <2>6
    <3> QED  BY <2>2, <2>3, <2>4, <3>2, <3>3
  <2> QED  BY <2>5, <2>6
<1> HIDE DEF G
<1>3. S \in G
  BY <1>1, <1>2, SubsetInduction
<1>4. S \cap R = R
  OBVIOUS
<1> QED  BY <1>3, <1>4 DEF G

\* A sum may be taken over what another set names, each element by one name.
LEMMA SumRenamed ==
    ASSUME NEW g, NEW h, NEW m, NEW S, IsFiniteSet(S),
           \A x \in S : h[x] \in Int /\ h[x] = g[m[x]],
           \A x, y \in S : m[x] = m[y] => x = y
    PROVE  SumFunctionOnSet(h, S) = SumFunctionOnSet(g, {m[x] : x \in S})
<1> DEFINE Im(T) == {m[x] : x \in T}
           G == {T \in SUBSET S : /\ IsFiniteSet(Im(T))
                                  /\ SumFunctionOnSet(h, T) = SumFunctionOnSet(g, Im(T))}
<1>1. {} \in G
  <2>1. Im({}) = {}
    OBVIOUS
  <2> QED  BY <2>1, SumEmpty, FS_EmptySet
<1>2. ASSUME NEW T \in SUBSET S, NEW x \in T, T \ {x} \in G
      PROVE  T \in G
  <2>1. IsFiniteSet(T)
    BY FS_Subset
  <2>2. Im(T) = Im(T \ {x}) \cup {m[x]} /\ m[x] \notin Im(T \ {x})
    OBVIOUS
  <2>3. IsFiniteSet(Im(T \ {x}))
    BY <1>2
  <2>4. IsFiniteSet(Im(T))
    <3> HIDE DEF Im
    <3>1. IsFiniteSet(Im(T \ {x}) \cup {m[x]})
      BY <2>3, FS_AddElement
    <3> QED  BY <2>2, <3>1
  <2>5. SumFunctionOnSet(h, T) = h[x] + SumFunctionOnSet(h, T \ {x})
    BY <2>1, SumRemove
  <2>6. Im(T) \ {m[x]} = Im(T \ {x}) /\ m[x] \in Im(T)
    BY <2>2
  <2>7. \A y \in Im(T) : g[y] \in Int
    OBVIOUS
  <2>8. SumFunctionOnSet(h, T \ {x}) = SumFunctionOnSet(g, Im(T \ {x}))
    BY <1>2
  <2> HIDE DEF Im
  <2>9. SumFunctionOnSet(g, Im(T)) = g[m[x]] + SumFunctionOnSet(g, Im(T) \ {m[x]})
    BY <2>4, <2>6, <2>7, SumRemove
  <2> QED  BY <2>4, <2>5, <2>6, <2>8, <2>9
<1> HIDE DEF G
<1>3. S \in G
  BY <1>1, <1>2, SubsetInduction
<1> QED  BY <1>3 DEF G

\* A sum of multiples is the multiple of the sum.
LEMMA SumTimes ==
    ASSUME NEW f, NEW g, NEW c \in Int, NEW S, IsFiniteSet(S),
           \A x \in S : g[x] \in Int /\ f[x] = c * g[x]
    PROVE  SumFunctionOnSet(f, S) = c * SumFunctionOnSet(g, S)
<1> DEFINE G == {T \in SUBSET S :
                    SumFunctionOnSet(f, T) = c * SumFunctionOnSet(g, T)}
<1>1. {} \in G
  <2>1. c * 0 = 0
    OBVIOUS
  <2> QED  BY <2>1, SumEmpty
<1>2. ASSUME NEW T \in SUBSET S, NEW x \in T, T \ {x} \in G
      PROVE  T \in G
  <2> DEFINE a == SumFunctionOnSet(g, T \ {x})
  <2>1. IsFiniteSet(T) /\ IsFiniteSet(T \ {x})
    BY FS_Subset
  <2>2. a \in Int /\ g[x] \in Int
    BY <2>1, SumType
  <2>3. \A y \in S : c * g[y] \in Int
    OBVIOUS
  <2>4. \A y \in S : f[y] \in Int /\ f[y] = c * g[y]
    BY <2>3
  <2>5. SumFunctionOnSet(f, T) = f[x] + SumFunctionOnSet(f, T \ {x})
    BY <2>1, <2>4, SumRemove
  <2>6. SumFunctionOnSet(g, T) = g[x] + a
    BY <2>1, SumRemove
  <2>7. SumFunctionOnSet(f, T \ {x}) = c * a
    BY <1>2
  <2> HIDE DEF a
  <2>8. c * g[x] + c * a = c * (g[x] + a)
    BY <2>2
  <2>9. f[x] = c * g[x]
    BY <2>4
  <2> QED  BY <2>5, <2>6, <2>7, <2>8, <2>9
<1> HIDE DEF G
<1>3. S \in G
  BY <1>1, <1>2, SubsetInduction
<1> QED  BY <1>3 DEF G

\* A sum over a set that is split into parts is the sum of the sums over the parts.
LEMMA SumByParts ==
    ASSUME NEW g, NEW m, NEW S, IsFiniteSet(S), NEW F, IsFiniteSet(F),
           \A x \in S : g[x] \in Int /\ m[x] \in F
    PROVE  SumFunctionOnSet(g, S)
              = SumFunctionOnSet([f \in F |-> SumFunctionOnSet(g, {x \in S : m[x] = f})], F)
<1> DEFINE Part(f, T) == {x \in T : m[x] = f}
           h(T) == [f \in F |-> SumFunctionOnSet(g, Part(f, T))]
           G == {T \in SUBSET S : SumFunctionOnSet(g, T) = SumFunctionOnSet(h(T), F)}
<1>1. {} \in G
  <2> DEFINE z == h({})
  <2>1. \A f \in F : z[f] = 0
    <3>1. \A f \in F : Part(f, {}) = {}
      OBVIOUS
    <3> QED  BY <3>1, SumEmpty
  <2> HIDE DEF z
  <2>2. SumFunctionOnSet(z, F) = 0
    BY <2>1, SumZero
  <2> QED  BY <2>2, SumEmpty DEF z
<1>2. ASSUME NEW T \in SUBSET S, NEW x \in T, T \ {x} \in G
      PROVE  T \in G
  <2> DEFINE U == T \ {x}
             a == h(U)
             b == h(T)
             d == [f \in F |-> IF f = m[x] THEN g[x] ELSE 0]
  <2>1. IsFiniteSet(T) /\ IsFiniteSet(U)
    BY FS_Subset
  <2>2. g[x] \in Int /\ m[x] \in F /\ \A y \in T : g[y] \in Int
    OBVIOUS
  <2>3. \A f \in F : Part(f, U) \in SUBSET U /\ IsFiniteSet(Part(f, U)) /\ a[f] \in Int
    <3> SUFFICES ASSUME NEW f \in F
                 PROVE  Part(f, U) \in SUBSET U /\ IsFiniteSet(Part(f, U)) /\ a[f] \in Int
      OBVIOUS
    <3>1. Part(f, U) \in SUBSET U /\ a[f] = SumFunctionOnSet(g, Part(f, U))
      OBVIOUS
    <3>2. \A y \in Part(f, U) : g[y] \in Int
      BY <2>2
    <3> HIDE DEF Part, a, U
    <3>3. IsFiniteSet(Part(f, U))
      BY <2>1, <3>1, FS_Subset
    <3> QED  BY <3>1, <3>2, <3>3, SumType
  <2>4. ASSUME NEW f \in F PROVE b[f] = a[f] + d[f] /\ d[f] \in Int
    <3>1. CASE f # m[x]
      <4>1. Part(f, T) = Part(f, U)
        BY <3>1
      <4>2. b[f] = a[f] /\ d[f] = 0
        BY <3>1, <4>1
      <4>3. a[f] \in Int
        BY <2>3
      <4> HIDE DEF a, b, d
      <4> QED  BY <4>2, <4>3
    <3>2. CASE f = m[x]
      <4>1. Part(f, T) = Part(f, U) \cup {x} /\ x \notin Part(f, U)
        BY <3>2
      <4>2. \A y \in Part(f, U) \cup {x} : g[y] \in Int
        BY <2>2
      <4>3. b[f] = SumFunctionOnSet(g, Part(f, T)) /\ a[f] = SumFunctionOnSet(g, Part(f, U)) /\ d[f] = g[x]
        BY <3>2
      <4> HIDE DEF Part, a, b, d, U
      <4>4. SumFunctionOnSet(g, Part(f, U) \cup {x}) = SumFunctionOnSet(g, Part(f, U)) + g[x]
        BY <2>3, <4>1, <4>2, SumAdd
      <4> QED  BY <2>2, <4>1, <4>3, <4>4
    <3> QED  BY <3>1, <3>2
  <2>5. SumFunctionOnSet(d, F) = g[x]
    <3> DEFINE R == {m[x]}
    <3>1. R \in SUBSET F /\ (\A f \in F \ R : d[f] = 0) /\ (\A f \in F : d[f] \in Int) /\ d[m[x]] = g[x]
      BY <2>2
    <3> HIDE DEF d
    <3>2. SumFunctionOnSet(d, F) = SumFunctionOnSet(d, R)
      <4> HIDE DEF R
      <4> QED  BY <3>1, SumPart
    <3>3. SumFunctionOnSet(d, {} \cup {m[x]}) = SumFunctionOnSet(d, {}) + d[m[x]]
      <4>1. \A y \in {} \cup {m[x]} : d[y] \in Int
        BY <2>2, <3>1
      <4> QED  BY <4>1, SumAdd, FS_EmptySet
    <3>4. {} \cup {m[x]} = R
      OBVIOUS
    <3> QED  BY <2>2, <3>1, <3>2, <3>3, <3>4, SumEmpty
  <2>6. SumFunctionOnSet(g, T) = g[x] + SumFunctionOnSet(g, U)
    BY <2>1, <2>2, SumRemove
  <2>7. SumFunctionOnSet(g, U) = SumFunctionOnSet(a, F)
    BY <1>2
  <2> HIDE DEF a, b, d, U, h
  <2>8. SumFunctionOnSet(b, F) = SumFunctionOnSet(a, F) + SumFunctionOnSet(d, F)
    <3>1. \A f \in F : a[f] \in Int /\ d[f] \in Int /\ b[f] = a[f] + d[f]
      BY <2>3, <2>4
    <3> QED  BY <3>1, SumOfSums
  <2>9. SumFunctionOnSet(a, F) \in Int
    BY <2>3, SumType
  <2> QED  BY <2>2, <2>5, <2>6, <2>7, <2>8, <2>9 DEF b
<1> HIDE DEF G
<1>3. S \in G
  BY <1>1, <1>2, SubsetInduction
<1> QED  BY <1>3 DEF G
=============================================================================
