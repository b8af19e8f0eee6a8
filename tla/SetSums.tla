------------------------------- MODULE SetSums -------------------------------
(***************************************************************************)
(* Lemmas about numbers, finite sets and SumFunctionOnSet, which the       *)
(* Change Radar (exposure of an entity) and the fit of a portfolio (its    *)
(* value-weighted score) are both built from.                              *)
(***************************************************************************)
EXTENDS Integers, FiniteSets, FiniteSetsExt, Functions, NaturalsInduction,
        WellFoundedInduction, FiniteSetTheorems, TLAPS

-----------------------------------------------------------------------------
(* More of the same is not less.                                           *)
LEMMA Monotone ==
    ASSUME NEW m \in Nat, NEW a \in Nat, NEW b \in Nat, a <= b
    PROVE  m * a <= m * b
<1>1. PICK d \in Nat : b = a + d
  <2>1. b - a \in Nat /\ b = a + (b - a)
    OBVIOUS
  <2>. QED  BY <2>1
<1>2. m * b = m * a + m * d
  BY <1>1
<1>3. m * d \in Nat /\ m * a \in Nat
  OBVIOUS
<1>. QED  BY <1>2, <1>3

(* An integer quotient does not fall when the dividend grows.              *)
LEMMA QuotientMonotone ==
    ASSUME NEW c \in Nat, c > 0, NEW a \in Nat, NEW b \in Nat, a <= b
    PROVE  a \div c \in Nat /\ a \div c <= b \div c
<1>. DEFINE p == a \div c
            q == b \div c
<1>1. p \in Nat /\ q \in Nat /\ c * p <= a /\ b < c * q + c
  OBVIOUS
<1>. HIDE DEF p, q
<1>. SUFFICES ASSUME ~(p <= q)
              PROVE  FALSE
  BY <1>1 DEF p, q
<1>2. q + 1 <= p /\ q + 1 \in Nat
  BY <1>1
<1>3. c * (q + 1) <= c * p
  BY <1>1, <1>2, Monotone
<1>4. c * (q + 1) = c * q + c /\ c * q \in Nat /\ c * p \in Nat
  BY <1>1
<1>. QED  BY <1>1, <1>3, <1>4

(* A bounded set of numbers has a highest one.                             *)
LEMMA Highest ==
    ASSUME NEW n \in Nat, NEW S, S \subseteq 0..n, S # {}
    PROVE  /\ Max(S) \in S
           /\ \A y \in S : Max(S) >= y
<1>. DEFINE R == OpToRel(<, Nat)
            T == {n - x : x \in S}
<1>. HIDE DEF R, T
<1>1. \A x \in S : n - x \in Nat /\ n - x \in T
  BY DEF T
<1>2. T \subseteq Nat /\ T # {}
  BY <1>1 DEF T
<1>3. PICK least \in T : \A y \in T : ~(<<y, least>> \in R)
  BY <1>2, NatLessThanWellFounded, WFMin DEF R
<1>4. PICK m \in S : least = n - m
  BY DEF T
<1>5. ASSUME NEW y \in S
      PROVE  m >= y
  <2>1. ~(n - y < n - m)
    BY <1>1, <1>3, <1>4 DEF R, OpToRel
  <2>. QED  BY <2>1
<1>. QED  BY <1>5 DEF Max

(* What holds of zero and of the successor of each number it holds of,     *)
(* holds of every number.                                                  *)
LEMMA Counting ==
    ASSUME NEW P, 0 \in P, \A n \in Nat : n \in P => n + 1 \in P
    PROVE  Nat \subseteq P
<1>. DEFINE R == OpToRel(<, Nat)
<1>. HIDE DEF R
<1>. SUFFICES ASSUME Nat \ P # {}
              PROVE  FALSE
  OBVIOUS
<1>1. PICK n \in Nat \ P : \A m \in Nat \ P : ~(<<m, n>> \in R)
  BY NatLessThanWellFounded, WFMin DEF R
<1>2. n - 1 \in Nat
  OBVIOUS
<1>3. n - 1 \in P
  <2>1. <<n - 1, n>> \in R
    BY <1>2 DEF R, OpToRel
  <2>. QED  BY <1>1, <1>2, <2>1
<1>4. (n - 1) + 1 \in P
  BY <1>2, <1>3
<1>. QED  BY <1>1, <1>4

(* Among some subsets of a finite set there is a minimal one.              *)
LEMMA MinimalSet ==
    ASSUME NEW U, IsFiniteSet(U), NEW B \in SUBSET SUBSET U, B # {}
    PROVE  \E T \in B : \A W \in SUBSET T : W # T => W \notin B
<1>. DEFINE R == StrictSubsetOrdering(U)
<1>1. B \subseteq FiniteSubsetsOf(U)
  BY FS_Subset DEF FiniteSubsetsOf
<1>2. IsWellFoundedOn(R, FiniteSubsetsOf(U))
  BY FS_StrictSubsetOrderingWellFounded
<1>. HIDE DEF R
<1>3. PICK T \in B : \A W \in B : ~(<<W, T>> \in R)
  BY <1>1, <1>2, WFMin
<1>4. \A W \in SUBSET T : W # T => W \notin B
  BY <1>3 DEF R, StrictSubsetOrdering
<1>. QED  BY <1>4

(* The image of a finite set is finite.                                    *)
LEMMA FiniteImage ==
    ASSUME NEW S, IsFiniteSet(S), NEW g
    PROVE  IsFiniteSet({g[x] : x \in S})
<1>. DEFINE T == {g[x] : x \in S}
            k == [x \in S |-> g[x]]
<1>1. k \in Surjection(S, T)
  BY DEF Surjection
<1>. QED  BY <1>1, FS_Surjection

(* A finite set of numbers has a highest one.                              *)
LEMMA HighestOfFinite ==
    ASSUME NEW S \in SUBSET Nat, IsFiniteSet(S), S # {}
    PROVE  /\ Max(S) \in S
           /\ \A y \in S : Max(S) >= y
<1>. DEFINE B == {T \in SUBSET S : ~\E n \in Nat : T \subseteq 0..n}
<1>1. B = {}
  <2>. SUFFICES ASSUME B # {}
                PROVE  FALSE
    OBVIOUS
  <2>0. B \in SUBSET SUBSET S
    OBVIOUS
  <2>. HIDE DEF B
  <2>1. PICK T \in B : \A W \in SUBSET T : W # T => W \notin B
    BY <2>0, MinimalSet
  <2>. USE DEF B
  <2>2. {} \subseteq 0..0
    OBVIOUS
  <2>3. PICK x \in T : TRUE
    BY <2>1, <2>2
  <2>4. PICK n \in Nat : T \ {x} \subseteq 0..n
    BY <2>1
  <2>5. x \in Nat
    OBVIOUS
  <2>6. ASSUME NEW y \in T
        PROVE  y \in 0..(n + x)
    <3>1. CASE y = x
      BY <2>5, <3>1
    <3>2. CASE y # x
      <4>1. y \in 0..n
        BY <2>4, <3>2
      <4>. QED  BY <2>5, <4>1
    <3>. QED  BY <3>1, <3>2
  <2>7. n + x \in Nat
    BY <2>5
  <2>. QED  BY <2>1, <2>6, <2>7
<1>2. PICK n \in Nat : S \subseteq 0..n
  BY <1>1
<1>. QED  BY <1>2, Highest

-----------------------------------------------------------------------------
(* The sum of f over S, as Functions and Folds define it: the value at S   *)
(* of a function on the subsets of S.                                      *)
SumStep(h, f, s) ==
    IF s = {} THEN 0
    ELSE f[CHOOSE x \in s : TRUE] + h[s \ {CHOOSE x \in s : TRUE}]

IsSum(h, f, S) == h = [s \in SUBSET S |-> SumStep(h, f, s)]

SumsNat(f, S) == IsFiniteSet(S) /\ \A x \in S : f[x] \in Nat

LEMMA SumDefined ==
    ASSUME NEW f, NEW S
    PROVE  SumFunctionOnSet(f, S) = (CHOOSE h : IsSum(h, f, S))[S]
BY DEF SumFunctionOnSet, FoldFunctionOnSet, MapThenFoldSet, IsSum, SumStep

(* There is such a function: by the number of elements.                    *)
LEMMA SumExists ==
    ASSUME NEW f, NEW S, SumsNat(f, S)
    PROVE  \E h \in [SUBSET S -> Nat] : IsSum(h, f, S)
<1>. DEFINE Upto(h, n) == \A s \in SUBSET S :
                             Cardinality(s) <= n => h[s] = SumStep(h, f, s)
            P == {n \in Nat : \E h \in [SUBSET S -> Nat] : Upto(h, n)}
<1>1. \A s \in SUBSET S : IsFiniteSet(s) /\ Cardinality(s) \in Nat
  BY FS_Subset, FS_CardinalityType DEF SumsNat
<1>2. \A h \in [SUBSET S -> Nat] : \A s \in SUBSET S : SumStep(h, f, s) \in Nat
  BY DEF SumStep, SumsNat
<1>3. 0 \in P
  <2>. DEFINE zero == [s \in SUBSET S |-> 0]
  <2>1. \A s \in SUBSET S : Cardinality(s) <= 0 => s = {}
    BY <1>1, FS_EmptySet
  <2>2. zero \in [SUBSET S -> Nat] /\ Upto(zero, 0)
    BY <2>1 DEF SumStep
  <2>. QED  BY <2>2
<1>4. ASSUME NEW n \in Nat, n \in P
      PROVE  n + 1 \in P
  <2>1. PICK h \in [SUBSET S -> Nat] : Upto(h, n)
    BY <1>4
  <2>. DEFINE k == [s \in SUBSET S |-> SumStep(h, f, s)]
  <2>2. k \in [SUBSET S -> Nat]
    BY <1>2
  <2>3. ASSUME NEW s \in SUBSET S, Cardinality(s) <= n + 1
        PROVE  k[s] = SumStep(k, f, s)
    <3>1. CASE s = {}
      BY <3>1 DEF SumStep
    <3>2. CASE s # {}
      <4>. DEFINE c == CHOOSE x \in s : TRUE
      <4>1. c \in s
        BY <3>2
      <4>2. s \ {c} \in SUBSET S /\ Cardinality(s \ {c}) <= n
        <5>1. Cardinality(s \ {c}) = Cardinality(s) - 1
          BY <1>1, <4>1, FS_RemoveElement
        <5>. QED  BY <1>1, <2>3, <5>1
      <4>3. k[s \ {c}] = h[s \ {c}]
        BY <2>1, <4>2
      <4>. QED  BY <3>2, <4>3 DEF SumStep
    <3>. QED  BY <3>1, <3>2
  <2>4. Upto(k, n + 1)
    BY <2>3
  <2>. HIDE DEF k, Upto
  <2>. QED  BY <2>2, <2>4
<1>5. Cardinality(S) \in P
  <2>. HIDE DEF P
  <2>. QED  BY <1>1, <1>3, <1>4, Counting
<1>6. PICK h \in [SUBSET S -> Nat] : Upto(h, Cardinality(S))
  BY <1>5
<1>7. \A s \in SUBSET S : Cardinality(s) <= Cardinality(S)
  BY FS_Subset DEF SumsNat
<1>8. \A s \in SUBSET S : h[s] = SumStep(h, f, s)
  BY <1>6, <1>7
<1>9. h = [s \in SUBSET S |-> SumStep(h, f, s)]
  BY <1>8
<1>. QED  BY <1>9 DEF IsSum

(* And on common subsets any two agree.                                    *)
LEMMA SumAgrees ==
    ASSUME NEW f, NEW S, IsFiniteSet(S), NEW T, NEW g, NEW h,
           IsSum(g, f, S), IsSum(h, f, T)
    PROVE  \A s \in SUBSET (S \cap T) : g[s] = h[s]
<1>. DEFINE B == {s \in SUBSET (S \cap T) : g[s] # h[s]}
<1>. SUFFICES ASSUME B # {}
              PROVE  FALSE
  OBVIOUS
<1>1. IsFiniteSet(S \cap T)
  BY FS_Subset
<1>. B \in SUBSET SUBSET (S \cap T)
  OBVIOUS
<1>. HIDE DEF B
<1>2. PICK s \in B : \A W \in SUBSET s : W # s => W \notin B
  BY <1>1, MinimalSet
<1>. USE DEF B
<1>. DEFINE c == CHOOSE x \in s : TRUE
<1>3. g[s] = SumStep(g, f, s) /\ h[s] = SumStep(h, f, s)
  BY DEF IsSum
<1>4. s # {}
  BY <1>2, <1>3 DEF SumStep
<1>5. c \in s
  BY <1>4
<1>6. g[s \ {c}] = h[s \ {c}]
  BY <1>2, <1>5
<1>. QED  BY <1>2, <1>3, <1>6 DEF SumStep

(* A sum of numbers is a number, nothing over the empty set, and over      *)
(* another set the chosen element with the sum of the others.              *)
LEMMA SumChosen ==
    ASSUME NEW f, NEW S, SumsNat(f, S)
    PROVE  /\ SumFunctionOnSet(f, S) \in Nat
           /\ S = {} => SumFunctionOnSet(f, S) = 0
           /\ S # {} => \E c \in S : SumFunctionOnSet(f, S)
                                       = f[c] + SumFunctionOnSet(f, S \ {c})
<1>. DEFINE g(U) == CHOOSE h : IsSum(h, f, U)
<1>1. ASSUME NEW U, SumsNat(f, U)
      PROVE  IsSum(g(U), f, U) /\ SumFunctionOnSet(f, U) = g(U)[U]
  BY <1>1, SumExists, SumDefined
<1>. HIDE DEF g
<1>2. SumFunctionOnSet(f, S) = g(S)[S] /\ g(S)[S] = SumStep(g(S), f, S)
  BY <1>1 DEF IsSum
<1>3. PICK h \in [SUBSET S -> Nat] : IsSum(h, f, S)
  BY SumExists
<1>4. g(S)[S] = h[S]
  BY <1>1, <1>3, SumAgrees DEF SumsNat
<1>5. S = {} => SumFunctionOnSet(f, S) = 0
  BY <1>2 DEF SumStep
<1>6. ASSUME S # {}
      PROVE  \E c \in S : SumFunctionOnSet(f, S)
                            = f[c] + SumFunctionOnSet(f, S \ {c})
  <2>. DEFINE c == CHOOSE x \in S : TRUE
              V == S \ {c}
  <2>1. c \in S
    BY <1>6
  <2>2. SumsNat(f, V)
    BY FS_Subset DEF SumsNat
  <2>3. g(S)[V] = g(V)[V]
    BY <1>1, <2>2, SumAgrees DEF SumsNat
  <2>4. SumFunctionOnSet(f, S) = f[c] + g(S)[V]
    BY <1>2, <1>6 DEF SumStep
  <2>5. SumFunctionOnSet(f, V) = g(V)[V]
    BY <1>1, <2>2
  <2>. QED  BY <2>1, <2>3, <2>4, <2>5
<1>. QED  BY <1>2, <1>3, <1>4, <1>5, <1>6

(* It does not matter which element is taken first.                        *)
LEMMA SumRemove ==
    ASSUME NEW f, NEW S, SumsNat(f, S), NEW x \in S
    PROVE  SumFunctionOnSet(f, S) = f[x] + SumFunctionOnSet(f, S \ {x})
<1>. DEFINE Sum(T) == SumFunctionOnSet(f, T)
            B == {T \in SUBSET S : \E y \in T : Sum(T) # f[y] + Sum(T \ {y})}
<1>0. \A T \in SUBSET S : SumsNat(f, T)
  BY FS_Subset DEF SumsNat
<1>. SUFFICES ASSUME B # {}
              PROVE  FALSE
  OBVIOUS
<1>. B \in SUBSET SUBSET S
  OBVIOUS
<1>. HIDE DEF B
<1>1. PICK T \in B : \A W \in SUBSET T : W # T => W \notin B
  BY MinimalSet DEF SumsNat
<1>. USE DEF B
<1>2. PICK y \in T : Sum(T) # f[y] + Sum(T \ {y})
  BY <1>1
<1>3. PICK c \in T : Sum(T) = f[c] + Sum(T \ {c})
  BY <1>0, <1>1, <1>2, SumChosen
<1>4. c # y
  BY <1>2, <1>3
<1>5. Sum(T \ {c}) = f[y] + Sum((T \ {c}) \ {y})
  BY <1>1, <1>3, <1>4
<1>6. Sum(T \ {y}) = f[c] + Sum((T \ {y}) \ {c})
  BY <1>1, <1>2, <1>4
<1>7. (T \ {c}) \ {y} = (T \ {y}) \ {c} /\ (T \ {c}) \ {y} \in SUBSET S
  OBVIOUS
<1>8. Sum((T \ {c}) \ {y}) \in Nat
  BY <1>0, <1>7, SumChosen
<1>9. f[c] \in Nat /\ f[y] \in Nat
  BY DEF SumsNat
<1>10. Sum((T \ {c}) \ {y}) = Sum((T \ {y}) \ {c})
  BY <1>7
<1>. HIDE DEF Sum, B
<1>. QED  BY <1>2, <1>3, <1>5, <1>6, <1>8, <1>9, <1>10

(* The sum over two sets that have nothing in common.                      *)
LEMMA SumDisjoint ==
    ASSUME NEW f, NEW S, NEW T, SumsNat(f, S \cup T), S \cap T = {}
    PROVE  SumFunctionOnSet(f, S \cup T)
             = SumFunctionOnSet(f, S) + SumFunctionOnSet(f, T)
<1>. DEFINE Sum(U) == SumFunctionOnSet(f, U)
            B == {U \in SUBSET T : Sum(S \cup U) # Sum(S) + Sum(U)}
<1>0. \A U \in SUBSET (S \cup T) : SumsNat(f, U)
  BY FS_Subset DEF SumsNat
<1>. SUFFICES ASSUME B # {}
              PROVE  FALSE
  OBVIOUS
<1>1. IsFiniteSet(T)
  BY <1>0 DEF SumsNat
<1>. B \in SUBSET SUBSET T
  OBVIOUS
<1>. HIDE DEF B
<1>2. PICK U \in B : \A W \in SUBSET U : W # U => W \notin B
  BY <1>1, MinimalSet
<1>. USE DEF B
<1>3. Sum({}) = 0 /\ Sum(S) \in Nat
  BY <1>0, SumChosen
<1>4. U # {}
  <2>1. Sum(S \cup {}) = Sum(S)
    OBVIOUS
  <2>2. Sum(S \cup U) # Sum(S) + Sum(U)
    BY <1>2
  <2>. HIDE DEF Sum
  <2>. QED  BY <1>3, <2>1, <2>2
<1>5. PICK x \in U : TRUE
  BY <1>4
<1>6. (S \cup U) \ {x} = S \cup (U \ {x})
  BY <1>5
<1>7. /\ Sum(S \cup U) = f[x] + Sum(S \cup (U \ {x}))
      /\ Sum(U) = f[x] + Sum(U \ {x})
  BY <1>0, <1>5, <1>6, SumRemove
<1>8. Sum(S \cup (U \ {x})) = Sum(S) + Sum(U \ {x})
  BY <1>2, <1>5
<1>9. f[x] \in Nat /\ Sum(U \ {x}) \in Nat
  BY <1>0, <1>5, SumChosen DEF SumsNat
<1>. HIDE DEF Sum
<1>. QED  BY <1>2, <1>3, <1>7, <1>8, <1>9

(* A sum over fewer is not more.                                           *)
LEMMA SumSubset ==
    ASSUME NEW f, NEW T, NEW S \in SUBSET T, SumsNat(f, T)
    PROVE  SumFunctionOnSet(f, S) <= SumFunctionOnSet(f, T)
<1>. DEFINE Sum(U) == SumFunctionOnSet(f, U)
            R == T \ S
<1>1. S \cup R = T /\ S \cap R = {}
  OBVIOUS
<1>2. SumsNat(f, S) /\ SumsNat(f, R)
  BY FS_Subset DEF SumsNat
<1>3. Sum(T) = Sum(S) + Sum(R)
  BY <1>1, SumDisjoint
<1>4. Sum(S) \in Nat /\ Sum(R) \in Nat
  BY <1>2, SumChosen
<1>5. Sum(S) <= Sum(T)
  <2>. HIDE DEF Sum
  <2>. QED  BY <1>3, <1>4
<1>. QED  BY <1>5

(* A sum of less is not more.                                              *)
LEMMA SumMonotone ==
    ASSUME NEW f, NEW g, NEW S, SumsNat(f, S), SumsNat(g, S),
           \A x \in S : f[x] <= g[x]
    PROVE  SumFunctionOnSet(f, S) <= SumFunctionOnSet(g, S)
<1>. DEFINE Low(T)  == SumFunctionOnSet(f, T)
            High(T) == SumFunctionOnSet(g, T)
            B == {T \in SUBSET S : ~(Low(T) <= High(T))}
<1>0. \A T \in SUBSET S : SumsNat(f, T) /\ SumsNat(g, T)
  BY FS_Subset DEF SumsNat
<1>. SUFFICES ASSUME B # {}
              PROVE  FALSE
  OBVIOUS
<1>. B \in SUBSET SUBSET S
  OBVIOUS
<1>. HIDE DEF B
<1>1. PICK T \in B : \A W \in SUBSET T : W # T => W \notin B
  BY MinimalSet DEF SumsNat
<1>. USE DEF B
<1>2. Low({}) = 0 /\ High({}) = 0
  BY <1>0, SumChosen
<1>3. T # {}
  <2>. HIDE DEF Low, High
  <2>. QED  BY <1>2
<1>4. PICK x \in T : TRUE
  BY <1>3
<1>5. Low(T \ {x}) <= High(T \ {x})
  BY <1>1, <1>4
<1>6. /\ Low(T) = f[x] + Low(T \ {x})
      /\ High(T) = g[x] + High(T \ {x})
  BY <1>0, <1>4, SumRemove
<1>7. /\ Low(T \ {x}) \in Nat /\ High(T \ {x}) \in Nat
      /\ f[x] \in Nat /\ g[x] \in Nat /\ f[x] <= g[x]
  BY <1>0, <1>4, SumChosen DEF SumsNat
<1>8. ~(Low(T) <= High(T))
  OBVIOUS
<1>. HIDE DEF Low, High, B
<1>. QED  BY <1>5, <1>6, <1>7, <1>8
=============================================================================
