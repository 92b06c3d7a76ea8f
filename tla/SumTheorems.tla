------------------------------ MODULE SumTheorems ------------------------------
(***************************************************************************)
(* The laws of SumOver on finite sets.  Its definition is a fold that      *)
(* removes one chosen element at a time; everything here rests on that     *)
(* recursion having a solution, and on the solution not depending on which *)
(* element is chosen.  Both are inductions on the size of the set, which   *)
(* are done with the least size at which the claim would fail.             *)
(***************************************************************************)
EXTENDS Sums, FiniteSetTheorems, WellFoundedInduction, TLAPS

\* A set of naturals that has 0 and the successors of its members has them all.
LEMMA Induction ==
  ASSUME NEW T, 0 \in T, \A n \in Nat : n \in T => n + 1 \in T
  PROVE  \A n \in Nat : n \in T
<1> DEFINE Less == OpToRel(<, Nat)
           Missing == {n \in Nat : n \notin T}
<1>1. SUFFICES ASSUME Missing # {} PROVE FALSE
  OBVIOUS
<1>2. IsWellFoundedOn(Less, Nat)
  BY NatLessThanWellFounded
<1>3. \A x, y \in Nat : y < x => <<y, x>> \in Less
  BY DEF OpToRel
<1> HIDE DEF Less
<1>4. PICK x \in Missing : \A y \in Missing : ~(<<y, x>> \in Less)
  <2>1. Missing \subseteq Nat
    OBVIOUS
  <2> HIDE DEF Missing
  <2> QED BY <1>1, <1>2, <2>1, WFMin
<1>5. x # 0 /\ x \in Nat
  OBVIOUS
<1>6. x - 1 \in Nat /\ x - 1 < x /\ x - 1 \notin T
  BY <1>5
<1> QED BY <1>3, <1>4, <1>5, <1>6

\* The recursion of the fold: what iter is to say of a set.
AnyOf(s) == CHOOSE x \in s : TRUE

Folds(iter, f, s) ==
  iter[s] = IF s = {} THEN 0 ELSE f[AnyOf(s)] + iter[s \ {AnyOf(s)}]

\* The element chosen is one of the set.
LEMMA AnyOfIn == ASSUME NEW s, s # {} PROVE AnyOf(s) \in s
BY DEF AnyOf

\* What induction on the size of the subsets of a finite set needs to know.
LEMMA Sizes ==
  ASSUME NEW S, IsFiniteSet(S)
  PROVE  \A s \in SUBSET S : Cardinality(s) \in Nat /\ (Cardinality(s) = 0 <=> s = {})
BY FS_Subset, FS_CardinalityType, FS_EmptySet

\* Taking one element out makes the size one less.
LEMMA Smaller ==
  ASSUME NEW S, IsFiniteSet(S)
  PROVE  \A s \in SUBSET S : \A x \in s :
           s \ {x} \in SUBSET S /\ Cardinality(s \ {x}) = Cardinality(s) - 1
<1> SUFFICES ASSUME NEW s \in SUBSET S, NEW x \in s
             PROVE  Cardinality(s \ {x}) = Cardinality(s) - 1
  OBVIOUS
<1> IsFiniteSet(s)
  BY FS_Subset
<1> QED BY FS_RemoveElement

\* The recursion has a solution.
LEMMA FoldExists ==
  ASSUME NEW S, IsFiniteSet(S), NEW f
  PROVE  \E iter : /\ iter = [s \in SUBSET S |-> iter[s]]
                   /\ \A s \in SUBSET S : Folds(iter, f, s)
<1> DEFINE Solves(iter, n) == \A s \in SUBSET S : Cardinality(s) <= n => Folds(iter, f, s)
           T == {n \in Nat : \E iter : Solves(iter, n)}
<1>a. \A s \in SUBSET S : Cardinality(s) \in Nat /\ (Cardinality(s) = 0 <=> s = {})
  BY Sizes
<1>b. \A s \in SUBSET S : \A x \in s :
        s \ {x} \in SUBSET S /\ Cardinality(s \ {x}) = Cardinality(s) - 1
  BY Smaller
<1>1. 0 \in T
  <2> DEFINE zero == [s \in SUBSET S |-> 0]
  <2>1. Solves(zero, 0)
    BY <1>a DEF Folds
  <2> QED BY <2>1
<1>2. ASSUME NEW n \in Nat, n \in T PROVE n + 1 \in T
  <2>1. PICK iter : Solves(iter, n)
    BY <1>2
  <2> DEFINE more == [s \in SUBSET S |-> IF Cardinality(s) <= n THEN iter[s]
                                         ELSE f[AnyOf(s)] + iter[s \ {AnyOf(s)}]]
  <2>2. ASSUME NEW s \in SUBSET S, Cardinality(s) <= n + 1 PROVE Folds(more, f, s)
    <3>1. CASE s = {}
      <4>1. Cardinality(s) <= n
        BY <1>a, <3>1
      <4>1a. iter[s] = 0
        BY <2>1, <3>1, <4>1 DEF Folds
      <4>2. more[s] = iter[s]
        BY <4>1
      <4> HIDE DEF more
      <4> QED BY <3>1, <4>1a, <4>2 DEF Folds
    <3>2. CASE s # {}
      <4> DEFINE r == s \ {AnyOf(s)}
      <4>1. r \in SUBSET S /\ Cardinality(r) + 1 = Cardinality(s) /\ Cardinality(r) \in Nat
        BY <1>a, <1>b, <3>2, AnyOfIn
      <4>2. more[r] = iter[r]
        BY <4>1, <2>2
      <4>3. more[s] = f[AnyOf(s)] + iter[r]
        BY <2>1, <3>2, <1>a DEF Folds
      <4> HIDE DEF more
      <4> QED BY <3>2, <4>2, <4>3 DEF Folds
    <3> QED BY <3>1, <3>2
  <2>3. Solves(more, n + 1)
    BY <2>2
  <2> HIDE DEF Solves
  <2> QED BY <2>3
<1>3. \A n \in Nat : n \in T
  <2> HIDE DEF T
  <2> QED BY <1>1, <1>2, Induction
<1>4. PICK iter : Solves(iter, Cardinality(S))
  BY <1>3, FS_CardinalityType
<1>5. \A s \in SUBSET S : Cardinality(s) <= Cardinality(S)
  BY FS_Subset
<1> DEFINE total == [s \in SUBSET S |-> iter[s]]
<1>6. \A s \in SUBSET S : Folds(total, f, s)
  BY <1>4, <1>5, AnyOfIn DEF Folds
<1>7. total = [s \in SUBSET S |-> total[s]]
  OBVIOUS
<1> HIDE DEF total
<1> QED BY <1>6, <1>7

\* Two solutions agree where both are ones.
LEMMA FoldUnique ==
  ASSUME NEW S, IsFiniteSet(S), NEW f, NEW g, NEW iter, NEW other,
         \A x \in S : f[x] = g[x],
         \A s \in SUBSET S : Folds(iter, f, s) /\ Folds(other, g, s)
  PROVE  \A s \in SUBSET S : iter[s] = other[s]
<1> DEFINE T == {n \in Nat : \A s \in SUBSET S : Cardinality(s) = n => iter[s] = other[s]}
<1>a. \A s \in SUBSET S : Cardinality(s) \in Nat /\ (Cardinality(s) = 0 <=> s = {})
  BY Sizes
<1>b. \A s \in SUBSET S : \A x \in s :
        s \ {x} \in SUBSET S /\ Cardinality(s \ {x}) = Cardinality(s) - 1
  BY Smaller
<1>1. 0 \in T
  BY <1>a DEF Folds
<1>2. ASSUME NEW n \in Nat, n \in T PROVE n + 1 \in T
  <2> SUFFICES ASSUME NEW s \in SUBSET S, Cardinality(s) = n + 1 PROVE iter[s] = other[s]
    OBVIOUS
  <2> DEFINE r == s \ {AnyOf(s)}
  <2>1. s # {} /\ AnyOf(s) \in s
    BY <1>a, AnyOfIn
  <2>2. r \in SUBSET S /\ Cardinality(r) = n
    BY <1>b, <2>1
  <2>3. iter[r] = other[r]
    BY <1>2, <2>2
  <2> QED BY <2>1, <2>3 DEF Folds
<1>3. \A n \in Nat : n \in T
  <2> HIDE DEF T
  <2> QED BY <1>1, <1>2, Induction
<1> QED BY <1>3, <1>a

\* A set that is closed under addition and has all values of the function has their sum.
LEMMA FoldType ==
  ASSUME NEW S, IsFiniteSet(S), NEW f, NEW D, 0 \in D, \A a, b \in D : a + b \in D,
         \A x \in S : f[x] \in D, NEW iter, \A s \in SUBSET S : Folds(iter, f, s)
  PROVE  \A s \in SUBSET S : iter[s] \in D
<1> DEFINE T == {n \in Nat : \A s \in SUBSET S : Cardinality(s) = n => iter[s] \in D}
<1>a. \A s \in SUBSET S : Cardinality(s) \in Nat /\ (Cardinality(s) = 0 <=> s = {})
  BY Sizes
<1>1. 0 \in T
  BY <1>a DEF Folds
<1>2. ASSUME NEW n \in Nat, n \in T PROVE n + 1 \in T
  <2> SUFFICES ASSUME NEW s \in SUBSET S, Cardinality(s) = n + 1 PROVE iter[s] \in D
    OBVIOUS
  <2>1. s # {} /\ AnyOf(s) \in s
    BY <1>a, AnyOfIn
  <2>2. s \ {AnyOf(s)} \in SUBSET S /\ Cardinality(s \ {AnyOf(s)}) = n
    BY <2>1, Smaller
  <2>3. iter[s \ {AnyOf(s)}] \in D /\ f[AnyOf(s)] \in D
    BY <1>2, <2>1, <2>2
  <2>4. iter[s] = f[AnyOf(s)] + iter[s \ {AnyOf(s)}]
    BY <2>1 DEF Folds
  <2> QED BY <2>3, <2>4
<1>3. \A n \in Nat : n \in T
  <2> HIDE DEF T
  <2> QED BY <1>1, <1>2, Induction
<1> QED BY <1>3, <1>a

\* Any element of the set may be taken out first.
TakesAny(iter, f, s) == \A x \in s : iter[s] = f[x] + iter[s \ {x}]

\* A sum does not depend on the element it takes first.
LEMMA FoldAny ==
  ASSUME NEW S, IsFiniteSet(S), NEW f, \A x \in S : f[x] \in Int, NEW iter,
         \A s \in SUBSET S : Folds(iter, f, s)
  PROVE  \A s \in SUBSET S : TakesAny(iter, f, s)
<1> USE DEF TakesAny
<1> DEFINE T == {n \in Nat : \A s \in SUBSET S : Cardinality(s) = n => TakesAny(iter, f, s)}
<1>a. \A s \in SUBSET S : Cardinality(s) \in Nat /\ (Cardinality(s) = 0 <=> s = {})
  BY Sizes
<1>b. \A s \in SUBSET S : \A x \in s :
        s \ {x} \in SUBSET S /\ Cardinality(s \ {x}) = Cardinality(s) - 1
  BY Smaller
<1>c. \A s \in SUBSET S : iter[s] \in Int
  BY FoldType
<1>1. 0 \in T
  BY <1>a
<1>2. ASSUME NEW n \in Nat, n \in T PROVE n + 1 \in T
  <2> SUFFICES ASSUME NEW s \in SUBSET S, Cardinality(s) = n + 1 PROVE TakesAny(iter, f, s)
    OBVIOUS
  <2>1. s # {} /\ AnyOf(s) \in s
    BY <1>a, AnyOfIn
  <2>2. iter[s] = f[AnyOf(s)] + iter[s \ {AnyOf(s)}]
    BY <2>1 DEF Folds
  <2>3. \A y \in s : s \ {y} \in SUBSET S /\ Cardinality(s \ {y}) = n
    BY <1>b
  <2>4. \A y \in s : TakesAny(iter, f, s \ {y})
    BY <1>2, <2>3
  <2>5. ASSUME NEW c \in s, NEW x \in s, x # c, iter[s] = f[c] + iter[s \ {c}]
        PROVE  iter[s] = f[x] + iter[s \ {x}]
    <3>1. iter[s \ {c}] = f[x] + iter[(s \ {c}) \ {x}]
      BY <2>4, <2>5
    <3>2. iter[s \ {x}] = f[c] + iter[(s \ {x}) \ {c}]
      BY <2>4, <2>5
    <3>3. (s \ {c}) \ {x} = (s \ {x}) \ {c}
      OBVIOUS
    <3> DEFINE rest == iter[(s \ {c}) \ {x}]
    <3>4. rest \in Int /\ f[c] \in Int /\ f[x] \in Int
      BY <1>c
    <3>5. iter[s \ {x}] = f[c] + rest
      BY <3>2, <3>3
    <3>6. iter[s] = f[c] + (f[x] + rest)
      BY <2>5, <3>1
    <3> HIDE DEF rest
    <3>7. f[c] + (f[x] + rest) = f[x] + (f[c] + rest)
      BY <3>4
    <3> QED BY <3>5, <3>6, <3>7
  <2> QED BY <2>1, <2>2, <2>5
<1>3. \A n \in Nat : n \in T
  <2> HIDE DEF T
  <2> QED BY <1>1, <1>2, Induction
<1> QED BY <1>3, <1>a

----------------------------------------------------------------------------
(* SumOver.                                                                *)

\* The sum is what a solution says of the set.
LEMMA SumFolds ==
  ASSUME NEW S, IsFiniteSet(S), NEW f
  PROVE  \E iter : /\ \A s \in SUBSET S : Folds(iter, f, s)
                   /\ SumOver(f, S) = iter[S]
<1> DEFINE Def(iter) ==
      iter = [s \in SUBSET S |-> IF s = {} THEN 0
                                 ELSE f[CHOOSE x \in s : TRUE] + iter[s \ {CHOOSE x \in s : TRUE}]]
           it == CHOOSE iter : Def(iter)
<1>1. PICK iter : iter = [s \in SUBSET S |-> iter[s]] /\ \A s \in SUBSET S : Folds(iter, f, s)
  BY FoldExists
<1>2. Def(iter)
  <2>1. \A s \in SUBSET S :
          iter[s] = IF s = {} THEN 0
                    ELSE f[CHOOSE x \in s : TRUE] + iter[s \ {CHOOSE x \in s : TRUE}]
    BY <1>1 DEF Folds, AnyOf
  <2> QED BY <1>1, <2>1
<1>3. Def(it)
  <2> HIDE DEF Def
  <2> QED BY <1>2
<1>4. SumOver(f, S) = it[S]
  BY DEF SumOver, MapThenSumSet, MapThenFoldSet
<1>5. \A s \in SUBSET S : Folds(it, f, s)
  <2> HIDE DEF it
  <2> QED BY <1>3 DEF Folds, AnyOf
<1> QED BY <1>4, <1>5

\* Nothing sums to 0.
LEMMA SumEmpty == \A f : SumOver(f, {}) = 0
<1> TAKE f
<1>1. PICK iter : /\ \A s \in SUBSET {} : Folds(iter, f, s)
                  /\ SumOver(f, {}) = iter[{}]
  BY SumFolds, FS_EmptySet
<1> QED BY <1>1 DEF Folds

\* The sum is where the values are.
LEMMA SumType ==
  ASSUME NEW S, IsFiniteSet(S), NEW f
  PROVE  /\ (\A x \in S : f[x] \in Nat) => SumOver(f, S) \in Nat
         /\ (\A x \in S : f[x] \in Int) => SumOver(f, S) \in Int
<1>1. PICK iter : /\ \A s \in SUBSET S : Folds(iter, f, s)
                  /\ SumOver(f, S) = iter[S]
  BY SumFolds
<1>2. ASSUME \A x \in S : f[x] \in Nat PROVE iter[S] \in Nat
  <2>1. \A a, b \in Nat : a + b \in Nat
    OBVIOUS
  <2>2. \A s \in SUBSET S : iter[s] \in Nat
    BY <1>1, <1>2, <2>1, FoldType
  <2> QED BY <2>2
<1>3. ASSUME \A x \in S : f[x] \in Int PROVE iter[S] \in Int
  <2>1. \A a, b \in Int : a + b \in Int
    OBVIOUS
  <2>2. \A s \in SUBSET S : iter[s] \in Int
    BY <1>1, <1>3, <2>1, FoldType
  <2> QED BY <2>2
<1> QED BY <1>1, <1>2, <1>3

\* Only the values on the set matter.
LEMMA SumEqual ==
  ASSUME NEW S, IsFiniteSet(S), NEW f, NEW g, \A x \in S : f[x] = g[x]
  PROVE  SumOver(f, S) = SumOver(g, S)
<1>1. PICK iter : /\ \A s \in SUBSET S : Folds(iter, f, s)
                  /\ SumOver(f, S) = iter[S]
  BY SumFolds
<1>2. PICK other : /\ \A s \in SUBSET S : Folds(other, g, s)
                   /\ SumOver(g, S) = other[S]
  BY SumFolds
<1>3. \A s \in SUBSET S : iter[s] = other[s]
  BY <1>1, <1>2, FoldUnique
<1> QED BY <1>1, <1>2, <1>3

\* One element more adds its value.
LEMMA SumAdd ==
  ASSUME NEW S, IsFiniteSet(S), NEW x, x \notin S, NEW f, \A y \in S \cup {x} : f[y] \in Int
  PROVE  SumOver(f, S \cup {x}) = SumOver(f, S) + f[x]
<1> DEFINE R == S \cup {x}
<1>1. IsFiniteSet(R)
  BY FS_AddElement
<1>2. PICK iter : /\ \A s \in SUBSET S : Folds(iter, f, s)
                  /\ SumOver(f, S) = iter[S]
  BY SumFolds
<1>3. PICK other : /\ \A s \in SUBSET R : Folds(other, f, s)
                   /\ SumOver(f, R) = other[R]
  BY <1>1, SumFolds
<1>4. \A s \in SUBSET S : iter[s] = other[s]
  <2>1. \A s \in SUBSET S : Folds(other, f, s)
    BY <1>3
  <2> QED BY <1>2, <2>1, FoldUnique
<1>5. other[R] = f[x] + other[R \ {x}]
  <2>1. \A s \in SUBSET R : TakesAny(other, f, s)
    <3> HIDE DEF R
    <3>1. \A y \in R : f[y] \in Int
      BY DEF R
    <3>2. \A s \in SUBSET R : Folds(other, f, s)
      BY <1>3
    <3> QED BY <1>1, <3>1, <3>2, FoldAny
  <2> QED BY <2>1 DEF TakesAny
<1>6. R \ {x} = S
  OBVIOUS
<1>7. iter[S] \in Int /\ f[x] \in Int
  <2>1. \A y \in S : f[y] \in Int
    OBVIOUS
  <2> QED BY <1>2, <2>1, SumType
<1> HIDE DEF R
<1>8. other[R] = f[x] + iter[S]
  BY <1>4, <1>5, <1>6
<1>9. SumOver(f, R) = iter[S] + f[x]
  BY <1>3, <1>7, <1>8
<1> QED BY <1>2, <1>9 DEF R

\* A family of subsets that has the empty one, and with a set every set that has
\* one element more, has the whole.
LEMMA SetInduction ==
  ASSUME NEW S, IsFiniteSet(S), NEW C, {} \in C,
         \A s \in SUBSET S : \A x \in S \ s : s \in C => s \cup {x} \in C
  PROVE  S \in C
<1> DEFINE T == {n \in Nat : \A s \in SUBSET S : Cardinality(s) = n => s \in C}
<1>a. \A s \in SUBSET S : Cardinality(s) \in Nat /\ (Cardinality(s) = 0 <=> s = {})
  BY Sizes
<1>1. 0 \in T
  BY <1>a
<1>2. ASSUME NEW n \in Nat, n \in T PROVE n + 1 \in T
  <2> SUFFICES ASSUME NEW s \in SUBSET S, Cardinality(s) = n + 1 PROVE s \in C
    OBVIOUS
  <2>1. PICK x \in s : TRUE
    BY <1>a
  <2>2. s \ {x} \in SUBSET S /\ Cardinality(s \ {x}) = n
    BY Smaller
  <2>3. s \ {x} \in C
    BY <1>2, <2>2
  <2>4. (s \ {x}) \cup {x} = s /\ x \in S \ (s \ {x})
    OBVIOUS
  <2> QED BY <2>2, <2>3, <2>4
<1>3. \A n \in Nat : n \in T
  <2> HIDE DEF T
  <2> QED BY <1>1, <1>2, Induction
<1> QED BY <1>3, <1>a

\* The sum over two sets that do not meet.
LEMMA SumUnion ==
  ASSUME NEW S, IsFiniteSet(S), NEW R, IsFiniteSet(R), S \cap R = {},
         NEW f, \A x \in S \cup R : f[x] \in Int
  PROVE  SumOver(f, S \cup R) = SumOver(f, S) + SumOver(f, R)
<1> DEFINE C == {s \in SUBSET R : SumOver(f, S \cup s) = SumOver(f, S) + SumOver(f, s)}
<1>1. SumOver(f, S) \in Int
  BY SumType
<1>2. {} \in C
  <2>1. S \cup {} = S
    OBVIOUS
  <2> QED BY <1>1, <2>1, SumEmpty
<1>3. ASSUME NEW s \in SUBSET R, NEW x \in R \ s, s \in C PROVE s \cup {x} \in C
  <2>1. IsFiniteSet(s) /\ IsFiniteSet(S \cup s)
    BY FS_Subset, FS_Union
  <2>2. SumOver(f, s) \in Int /\ f[x] \in Int
    BY <2>1, SumType
  <2>3. SumOver(f, s \cup {x}) = SumOver(f, s) + f[x]
    BY <2>1, SumAdd
  <2>4. SumOver(f, (S \cup s) \cup {x}) = SumOver(f, S \cup s) + f[x]
    <3>1. x \notin S \cup s /\ \A y \in (S \cup s) \cup {x} : f[y] \in Int
      OBVIOUS
    <3> QED BY <2>1, <3>1, SumAdd
  <2>5. S \cup (s \cup {x}) = (S \cup s) \cup {x}
    OBVIOUS
  <2>6. SumOver(f, S \cup s) = SumOver(f, S) + SumOver(f, s)
    BY <1>3
  <2>7. SumOver(f, S \cup (s \cup {x})) = SumOver(f, S) + SumOver(f, s \cup {x})
    <3>1. SumOver(f, S \cup (s \cup {x})) = (SumOver(f, S) + SumOver(f, s)) + f[x]
      BY <2>4, <2>5, <2>6
    <3>2. \A a, b, c \in Int : (a + b) + c = a + (b + c)
      OBVIOUS
    <3> QED BY <1>1, <2>2, <2>3, <3>1, <3>2
  <2> QED BY <2>7
<1>4. R \in C
  <2> HIDE DEF C
  <2> QED BY <1>2, <1>3, SetInduction
<1> QED BY <1>4

\* The sum without one of the elements.
LEMMA SumRemove ==
  ASSUME NEW S, IsFiniteSet(S), NEW x \in S, NEW f, \A y \in S : f[y] \in Int
  PROVE  SumOver(f, S) = SumOver(f, S \ {x}) + f[x]
<1>1. IsFiniteSet(S \ {x}) /\ (S \ {x}) \cup {x} = S /\ x \notin S \ {x}
  BY FS_Subset
<1> QED BY <1>1, SumAdd

\* A part sums to no more than the whole.
LEMMA SumSubset ==
  ASSUME NEW S, IsFiniteSet(S), NEW R \in SUBSET S, NEW f, \A x \in S : f[x] \in Nat
  PROVE  SumOver(f, R) <= SumOver(f, S)
<1>1. IsFiniteSet(R) /\ IsFiniteSet(S \ R) /\ R \cap (S \ R) = {} /\ R \cup (S \ R) = S
  BY FS_Subset
<1>2. SumOver(f, R) \in Nat /\ SumOver(f, S \ R) \in Nat
  BY <1>1, SumType
<1>3. \A x \in R \cup (S \ R) : f[x] \in Int
  OBVIOUS
<1>4. SumOver(f, R \cup (S \ R)) = SumOver(f, R) + SumOver(f, S \ R)
  BY <1>1, <1>3, SumUnion
<1>5. SumOver(f, S) = SumOver(f, R) + SumOver(f, S \ R)
  BY <1>1, <1>4
<1> QED BY <1>2, <1>5

\* Another value for one element.
LEMMA SumChange ==
  ASSUME NEW S, IsFiniteSet(S), NEW x \in S, NEW f, NEW g,
         \A y \in S : f[y] \in Int /\ g[y] \in Int, \A y \in S \ {x} : f[y] = g[y]
  PROVE  SumOver(g, S) = SumOver(f, S) - f[x] + g[x]
<1>1. IsFiniteSet(S \ {x})
  BY FS_Subset
<1>2. SumOver(f, S \ {x}) = SumOver(g, S \ {x})
  BY <1>1, SumEqual
<1>3. SumOver(f, S) = SumOver(f, S \ {x}) + f[x] /\ SumOver(g, S) = SumOver(g, S \ {x}) + g[x]
  BY SumRemove
<1>4. SumOver(f, S \ {x}) \in Int
  BY <1>1, SumType
<1> QED BY <1>2, <1>3, <1>4

\* The sum of sums.
LEMMA SumPlus ==
  ASSUME NEW S, IsFiniteSet(S), NEW f, NEW g, NEW h,
         \A x \in S : f[x] \in Int /\ g[x] \in Int /\ h[x] = f[x] + g[x]
  PROVE  SumOver(h, S) = SumOver(f, S) + SumOver(g, S)
<1> DEFINE C == {s \in SUBSET S : SumOver(h, s) = SumOver(f, s) + SumOver(g, s)}
<1>1. {} \in C
  BY SumEmpty
<1>2. ASSUME NEW s \in SUBSET S, NEW x \in S \ s, s \in C PROVE s \cup {x} \in C
  <2>1. IsFiniteSet(s)
    BY FS_Subset
  <2>2. /\ SumOver(f, s \cup {x}) = SumOver(f, s) + f[x]
        /\ SumOver(g, s \cup {x}) = SumOver(g, s) + g[x]
        /\ SumOver(h, s \cup {x}) = SumOver(h, s) + h[x]
    <3>1. \A y \in s \cup {x} : f[y] \in Int /\ g[y] \in Int /\ h[y] \in Int
      OBVIOUS
    <3> QED BY <2>1, <3>1, SumAdd
  <2>3. /\ SumOver(f, s) \in Int /\ SumOver(g, s) \in Int /\ f[x] \in Int /\ g[x] \in Int
        /\ h[x] = f[x] + g[x]
    BY <2>1, SumType
  <2>4. SumOver(h, s) = SumOver(f, s) + SumOver(g, s)
    BY <1>2
  <2>5. SumOver(h, s \cup {x}) = SumOver(f, s \cup {x}) + SumOver(g, s \cup {x})
    BY <2>2, <2>3, <2>4
  <2> QED BY <2>5
<1>3. S \in C
  <2> HIDE DEF C
  <2> QED BY <1>1, <1>2, SetInduction
<1> QED BY <1>3

\* The sum of nothing but zeros.
LEMMA SumZero ==
  ASSUME NEW S, IsFiniteSet(S), NEW f, \A x \in S : f[x] = 0
  PROVE  SumOver(f, S) = 0
<1>a. \A x \in S : f[x] \in Int /\ f[x] = f[x] + f[x]
  OBVIOUS
<1>1. SumOver(f, S) = SumOver(f, S) + SumOver(f, S)
  BY <1>a, SumPlus
<1>2. SumOver(f, S) \in Int
  BY <1>a, SumType
<1>3. \A n \in Int : n = n + n => n = 0
  OBVIOUS
<1> QED BY ONLY <1>1, <1>2, <1>3

\* The sum over a part is that of a function that is zero elsewhere.
LEMMA SumWhere ==
  ASSUME NEW S, IsFiniteSet(S), NEW R \in SUBSET S, NEW f, NEW g,
         \A x \in R : f[x] \in Int /\ g[x] = f[x], \A x \in S \ R : g[x] = 0
  PROVE  SumOver(g, S) = SumOver(f, R)
<1>1. IsFiniteSet(R) /\ IsFiniteSet(S \ R) /\ R \cap (S \ R) = {} /\ R \cup (S \ R) = S
  BY FS_Subset
<1>2. SumOver(g, R \cup (S \ R)) = SumOver(g, R) + SumOver(g, S \ R)
  <2>1. \A x \in R \cup (S \ R) : g[x] \in Int
    OBVIOUS
  <2> QED BY <1>1, <2>1, SumUnion
<1>3. SumOver(g, S \ R) = 0
  BY <1>1, SumZero
<1>4. SumOver(g, R) = SumOver(f, R)
  BY <1>1, SumEqual
<1>5. SumOver(f, R) \in Int
  <2>1. \A x \in R : f[x] \in Int
    OBVIOUS
  <2> QED BY <1>1, <2>1, SumType
<1>6. SumOver(g, S) = SumOver(g, R) + SumOver(g, S \ R)
  BY <1>1, <1>2
<1> QED BY <1>3, <1>4, <1>5, <1>6

\* One index more.
LEMMA SumNext ==
  ASSUME NEW n \in Nat, NEW f, NEW g, \A k \in 1..n : f[k] \in Int /\ g[k] = f[k],
         g[n + 1] \in Int
  PROVE  SumOver(g, 1..(n + 1)) = SumOver(f, 1..n) + g[n + 1]
<1>1. IsFiniteSet(1..n) /\ (1..n) \cup {n + 1} = 1..(n + 1) /\ n + 1 \notin 1..n
  <2>1. n \in Int /\ 1 \in Int
    OBVIOUS
  <2>2. IsFiniteSet(1..n)
    BY <2>1, FS_Interval
  <2> QED BY <2>2
<1>2. SumOver(g, 1..n) = SumOver(f, 1..n)
  BY <1>1, SumEqual
<1>3. \A k \in (1..n) \cup {n + 1} : g[k] \in Int
  OBVIOUS
<1>4. SumOver(g, (1..n) \cup {n + 1}) = SumOver(g, 1..n) + g[n + 1]
  <2> DEFINE S == 1..n
             x == n + 1
  <2>1. IsFiniteSet(S) /\ x \notin S /\ \A y \in S \cup {x} : g[y] \in Int
    BY <1>1, <1>3
  <2> HIDE DEF S, x
  <2>2. SumOver(g, S \cup {x}) = SumOver(g, S) + g[x]
    BY ONLY <2>1, SumAdd
  <2> QED BY <2>2 DEF S, x
<1>5. (1..n) \cup {n + 1} = 1..(n + 1)
  BY <1>1
<1> QED BY ONLY <1>2, <1>4, <1>5

\* The first index less.
LEMMA SumShift ==
  ASSUME NEW m \in Nat, NEW f, NEW g, \A k \in 1..(m + 1) : f[k] \in Int,
         \A k \in 1..m : g[k] = f[k + 1]
  PROVE  SumOver(f, 1..(m + 1)) = f[1] + SumOver(g, 1..m)
<1> DEFINE T == {n \in Nat : n <= m => SumOver(f, 1..(n + 1)) = f[1] + SumOver(g, 1..n)}
<1>1. 0 \in T
  <2>1. 1..0 = {} /\ 1..(0 + 1) = {} \cup {1} /\ f[1] \in Int /\ 1 \notin {}
    OBVIOUS
  <2>2. SumOver(f, {} \cup {1}) = SumOver(f, {}) + f[1]
    <3>1. IsFiniteSet({}) /\ 1 \notin {} /\ \A k \in {} \cup {1} : f[k] \in Int
      BY <2>1, FS_EmptySet
    <3> QED BY ONLY <3>1, SumAdd
  <2>3. SumOver(f, {}) = 0 /\ SumOver(g, {}) = 0
    BY SumEmpty
  <2>4. SumOver(f, {} \cup {1}) = f[1] + SumOver(g, {})
    BY ONLY <2>1, <2>2, <2>3
  <2> QED BY <2>1, <2>4
<1>2. ASSUME NEW n \in Nat, n \in T PROVE n + 1 \in T
  <2> SUFFICES ASSUME n + 1 <= m
               PROVE  SumOver(f, 1..((n + 1) + 1)) = f[1] + SumOver(g, 1..(n + 1))
    OBVIOUS
  <2>1. SumOver(f, 1..(n + 1)) = f[1] + SumOver(g, 1..n)
    BY <1>2
  <2>2. SumOver(f, 1..((n + 1) + 1)) = SumOver(f, 1..(n + 1)) + f[(n + 1) + 1]
    <3>1. (\A k \in 1..(n + 1) : f[k] \in Int) /\ f[(n + 1) + 1] \in Int /\ n + 1 \in Nat
      OBVIOUS
    <3> QED BY <3>1, SumNext
  <2>3. SumOver(g, 1..(n + 1)) = SumOver(g, 1..n) + f[(n + 1) + 1]
    <3>1. (\A k \in 1..n : g[k] \in Int) /\ g[n + 1] = f[(n + 1) + 1] /\ g[n + 1] \in Int
      OBVIOUS
    <3> QED BY <3>1, SumNext
  <2>4. SumOver(g, 1..n) \in Int
    <3>1. \A k \in 1..n : g[k] \in Int
      OBVIOUS
    <3>2. n \in Int /\ 1 \in Int
      OBVIOUS
    <3>3. IsFiniteSet(1..n)
      BY <3>2, FS_Interval
    <3> QED BY <3>1, <3>3, SumType
  <2>5. f[1] \in Int /\ f[(n + 1) + 1] \in Int
    OBVIOUS
  <2> QED BY <2>1, <2>2, <2>3, <2>4, <2>5
<1>3. \A n \in Nat : n \in T
  <2> HIDE DEF T
  <2> QED BY <1>1, <1>2, Induction
<1> QED BY <1>3
=============================================================================
