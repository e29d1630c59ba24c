----------------------------- MODULE SumTheorems -----------------------------
(***************************************************************************)
(* What sums over finite sets obey, for the proofs about amounts: the sum  *)
(* is taken element by element, in whatever order the fold chooses.        *)
(*                                                                         *)
(* Induction is stated with a set in the place of a predicate, so that it  *)
(* is first-order: {x \in S : P} is the set when P is to be shown.         *)
(***************************************************************************)
EXTENDS Sums, FiniteSetTheorems, TLAPS

\* A set of numbers has a least one.
LEMMA LeastNumber ==
    ASSUME NEW T \in SUBSET Nat, T # {}
    PROVE  \E m \in T : \A k \in T : m <= k
<1>1. PICK m \in T : \A k \in T : <<k, m>> \notin OpToRel(<, Nat)
  BY WFMin, NatLessThanWellFounded
<1>2. \A k \in T : ~(k < m)
  BY <1>1 DEF OpToRel
<1>. QED
  BY <1>2

\* Induction on the naturals, for a set of them.
LEMMA NumbersInductively ==
    ASSUME NEW T, 0 \in T, \A n \in Nat : n \in T => n + 1 \in T
    PROVE  Nat \subseteq T
<1>. SUFFICES ASSUME Nat \ T # {} PROVE FALSE
  OBVIOUS
<1>1. PICK m \in Nat \ T : \A k \in Nat \ T : m <= k
  BY LeastNumber
<1>2. m - 1 \in Nat /\ m - 1 \in T
  BY <1>1
<1>. QED
  BY <1>1, <1>2

\* What holds of a set whenever it holds of the sets with one element less holds
\* of every finite set.
LEMMA SetsInductively ==
    ASSUME NEW S, IsFiniteSet(S), NEW C,
           \A R \in SUBSET S : (\A x \in R : R \ {x} \in C) => R \in C
    PROVE  SUBSET S \subseteq C
<1>. DEFINE T == {n \in Nat : \A R \in SUBSET S : Cardinality(R) = n => R \in C}
<1>1. \A R \in SUBSET S : IsFiniteSet(R) /\ Cardinality(R) \in Nat
  BY FS_Subset, FS_CardinalityType
<1>2. 0 \in T
  <2>1. \A R \in SUBSET S : Cardinality(R) = 0 => R = {}
    BY <1>1, FS_EmptySet
  <2>. QED
    BY <2>1
<1>3. ASSUME NEW n \in Nat, n \in T
      PROVE  n + 1 \in T
  <2>1. ASSUME NEW R \in SUBSET S, Cardinality(R) = n + 1
        PROVE  R \in C
    <3>1. ASSUME NEW x \in R
          PROVE  R \ {x} \in C
      <4>1. Cardinality(R \ {x}) = Cardinality(R) - 1
        BY <1>1, FS_RemoveElement
      <4>. QED
        BY <1>3, <2>1, <4>1
    <3>. QED
      BY <3>1
  <2>. QED
    BY <2>1
<1>4. Nat \subseteq T
  <2>. HIDE DEF T
  <2>. QED
    BY <1>2, <1>3, NumbersInductively
<1>. QED
  BY <1>1, <1>4

-----------------------------------------------------------------------------
(* The fold.                                                               *)

Pick(s) == CHOOSE x \in s : TRUE
FoldStep(f, g, s) == IF s = {} THEN 0 ELSE f[Pick(s)] + g[s \ {Pick(s)}]
IsFold(f, S, g) == g = [s \in SUBSET S |-> FoldStep(f, g, s)]
FoldOf(f, S) == CHOOSE g : IsFold(f, S, g)

\* The sum is the fold of the community modules that takes the elements as picked.
LEMMA SumIsFold ==
    ASSUME NEW f, NEW S
    PROVE  SumOver(f, S) = FoldOf(f, S)[S]
BY DEF SumOver, MapThenSumSet, MapThenFoldSet, FoldOf, IsFold, FoldStep, Pick

\* The fold of a finite set is defined: on sets of at most n elements for every n.
LEMMA FoldDefined ==
    ASSUME NEW f, NEW S, IsFiniteSet(S)
    PROVE  IsFold(f, S, FoldOf(f, S))
<1>. DEFINE Level(n) == {s \in SUBSET S : Cardinality(s) <= n}
            T == {n \in Nat : \E g : g = [s \in Level(n) |-> FoldStep(f, g, s)]}
<1>1. \A s \in SUBSET S : IsFiniteSet(s) /\ Cardinality(s) \in Nat
  BY FS_Subset, FS_CardinalityType
<1>2. \A s \in SUBSET S : s # {} =>
          Pick(s) \in s /\ s \ {Pick(s)} \in SUBSET S
          /\ Cardinality(s \ {Pick(s)}) = Cardinality(s) - 1
  <2>1. ASSUME NEW s \in SUBSET S, s # {} PROVE Pick(s) \in s
    BY <2>1 DEF Pick
  <2>. QED
    BY <1>1, <2>1, FS_RemoveElement
<1>3. 0 \in T
  <2>1. Level(0) = {{}}
    BY <1>1, FS_EmptySet
  <2>. DEFINE g == [s \in Level(0) |-> 0]
  <2>2. g = [s \in Level(0) |-> FoldStep(f, g, s)]
    BY <2>1 DEF FoldStep
  <2>. QED
    BY <2>2
<1>4. ASSUME NEW n \in Nat, n \in T
      PROVE  n + 1 \in T
  <2>1. PICK g : g = [s \in Level(n) |-> FoldStep(f, g, s)]
    BY <1>4
  <2>. DEFINE h == [s \in Level(n + 1) |-> FoldStep(f, g, s)]
  <2>2. \A s \in Level(n) : h[s] = g[s]
    BY <1>1, <2>1
  <2>3. h = [s \in Level(n + 1) |-> FoldStep(f, g, s)]
    OBVIOUS
  <2>. HIDE DEF h
  <2>4. ASSUME NEW s \in Level(n + 1)
        PROVE  FoldStep(f, h, s) = FoldStep(f, g, s)
    <3>1. CASE s = {}
      BY <3>1 DEF FoldStep
    <3>2. CASE s # {}
      <4>1. s \ {Pick(s)} \in Level(n)
        BY <1>1, <1>2, <3>2
      <4>. QED
        BY <2>2, <4>1 DEF FoldStep
    <3>. QED
      BY <3>1, <3>2
  <2>5. h = [s \in Level(n + 1) |-> FoldStep(f, h, s)]
    BY <2>3, <2>4
  <2>. QED
    BY <2>5
<1>5. Nat \subseteq T
  <2>. HIDE DEF T
  <2>. QED
    BY <1>3, <1>4, NumbersInductively
<1>6. Level(Cardinality(S)) = SUBSET S /\ Cardinality(S) \in Nat
  BY <1>1, FS_Subset
<1>7. \E g : IsFold(f, S, g)
  BY <1>5, <1>6 DEF IsFold
<1>. QED
  BY <1>7 DEF FoldOf

\* What the fold is at a subset, in terms of the subset without the picked element.
LEMMA FoldAt ==
    ASSUME NEW f, NEW S, IsFiniteSet(S), NEW R \in SUBSET S
    PROVE  FoldOf(f, S)[R] = FoldStep(f, FoldOf(f, S), R)
<1>. DEFINE g == FoldOf(f, S)
<1>1. IsFold(f, S, g)
  BY FoldDefined
<1>. HIDE DEF g
<1>2. g[R] = FoldStep(f, g, R)
  BY <1>1 DEF IsFold
<1>. QED
  BY <1>2 DEF g

\* Which set a fold was started from does not matter.
LEMMA FoldRestricted ==
    ASSUME NEW f, NEW S, IsFiniteSet(S), NEW R \in SUBSET S
    PROVE  FoldOf(f, R)[R] = FoldOf(f, S)[R]
<1>. DEFINE C == {s \in SUBSET R : FoldOf(f, R)[s] = FoldOf(f, S)[s]}
<1>1. IsFiniteSet(R)
  BY FS_Subset
<1>2. ASSUME NEW s \in SUBSET R, \A x \in s : s \ {x} \in C
      PROVE  s \in C
  <2>1. FoldOf(f, R)[s] = FoldStep(f, FoldOf(f, R), s)
    BY <1>1, FoldAt
  <2>2. FoldOf(f, S)[s] = FoldStep(f, FoldOf(f, S), s)
    BY FoldAt
  <2>3. s # {} => FoldOf(f, R)[s \ {Pick(s)}] = FoldOf(f, S)[s \ {Pick(s)}]
    BY <1>2 DEF Pick
  <2>. QED
    BY <2>1, <2>2, <2>3 DEF FoldStep
<1>3. SUBSET R \subseteq C
  <2>. HIDE DEF C
  <2>. QED
    BY <1>1, <1>2, SetsInductively
<1>. QED
  BY <1>3

\* Nothing adds up to zero.
LEMMA SumOfNone ==
    ASSUME NEW f
    PROVE  SumOver(f, {}) = 0
<1>1. FoldOf(f, {})[{}] = FoldStep(f, FoldOf(f, {}), {})
  BY FoldAt, FS_EmptySet
<1>. QED
  BY <1>1, SumIsFold DEF FoldStep

\* A sum is the amount of the picked element and the sum of the others.
LEMMA SumOfPicked ==
    ASSUME NEW f, NEW S, IsFiniteSet(S), S # {}
    PROVE  Pick(S) \in S /\ SumOver(f, S) = f[Pick(S)] + SumOver(f, S \ {Pick(S)})
<1>1. Pick(S) \in S
  BY DEF Pick
<1>2. SumOver(f, S) = f[Pick(S)] + FoldOf(f, S)[S \ {Pick(S)}]
  BY FoldAt, SumIsFold DEF FoldStep
<1>. QED
  BY <1>1, <1>2, FoldRestricted, SumIsFold

-----------------------------------------------------------------------------
(* Sums of integers.                                                       *)

\* Integers add up to an integer.
LEMMA SumType ==
    ASSUME NEW f, NEW S, IsFiniteSet(S), \A x \in S : f[x] \in Int
    PROVE  SumOver(f, S) \in Int
<1>. DEFINE C == {R \in SUBSET S : SumOver(f, R) \in Int}
<1>1. ASSUME NEW R \in SUBSET S, \A x \in R : R \ {x} \in C
      PROVE  R \in C
  <2>1. CASE R = {}
    BY <2>1, SumOfNone
  <2>2. CASE R # {}
    <3>1. IsFiniteSet(R)
      BY FS_Subset
    <3>2. Pick(R) \in R /\ SumOver(f, R) = f[Pick(R)] + SumOver(f, R \ {Pick(R)})
      BY <2>2, <3>1, SumOfPicked
    <3>. QED
      BY <1>1, <3>2
  <2>. QED
    BY <2>1, <2>2
<1>2. SUBSET S \subseteq C
  <2>. HIDE DEF C
  <2>. QED
    BY <1>1, SetsInductively
<1>. QED
  BY <1>2

\* Any element may be taken first.
LEMMA SumWithout ==
    ASSUME NEW f, NEW S, IsFiniteSet(S), \A x \in S : f[x] \in Int, NEW x \in S
    PROVE  SumOver(f, S) = f[x] + SumOver(f, S \ {x})
<1>. DEFINE C == {R \in SUBSET S : \A y \in R : SumOver(f, R) = f[y] + SumOver(f, R \ {y})}
<1>0. \A R \in SUBSET S : IsFiniteSet(R) /\ SumOver(f, R) \in Int
  BY FS_Subset, SumType
<1>1. ASSUME NEW R \in SUBSET S, \A y \in R : R \ {y} \in C, NEW y \in R
      PROVE  SumOver(f, R) = f[y] + SumOver(f, R \ {y})
  <2>. DEFINE z == Pick(R)
  <2>1. z \in R /\ SumOver(f, R) = f[z] + SumOver(f, R \ {z})
    BY <1>0, SumOfPicked
  <2>. HIDE DEF z
  <2>2. CASE z = y
    BY <2>1, <2>2
  <2>3. CASE z # y
    <3>1. SumOver(f, R \ {z}) = f[y] + SumOver(f, (R \ {z}) \ {y})
      BY <1>1, <2>1, <2>3
    <3>2. SumOver(f, R \ {y}) = f[z] + SumOver(f, (R \ {y}) \ {z})
      BY <1>1, <2>1, <2>3
    <3>3. (R \ {z}) \ {y} = (R \ {y}) \ {z} /\ (R \ {y}) \ {z} \in SUBSET S
      OBVIOUS
    <3>. DEFINE rest == SumOver(f, (R \ {y}) \ {z})
    <3>4. rest \in Int /\ f[y] \in Int /\ f[z] \in Int
      BY <1>0, <2>1, <3>3
    <3>5. SumOver(f, R \ {z}) = f[y] + rest /\ SumOver(f, R \ {y}) = f[z] + rest
      BY <3>1, <3>2, <3>3
    <3>. HIDE DEF rest
    <3>. QED
      BY <2>1, <3>4, <3>5
  <2>. QED
    BY <2>2, <2>3
<1>2. SUBSET S \subseteq C
  <2>1. ASSUME NEW R \in SUBSET S, \A y \in R : R \ {y} \in C
        PROVE  R \in C
    BY <1>1, <2>1
  <2>. HIDE DEF C
  <2>. QED
    BY <2>1, SetsInductively
<1>. QED
  BY <1>2

\* An element that is new adds its amount.
LEMMA SumWith ==
    ASSUME NEW f, NEW S, IsFiniteSet(S), NEW x, x \notin S, \A y \in S \cup {x} : f[y] \in Int
    PROVE  SumOver(f, S \cup {x}) = f[x] + SumOver(f, S)
<1>1. IsFiniteSet(S \cup {x}) /\ (S \cup {x}) \ {x} = S
  BY FS_AddElement
<1>. QED
  BY <1>1, SumWithout

\* A sum is determined by the amounts.
LEMMA SumOfSame ==
    ASSUME NEW f, NEW g, NEW S, IsFiniteSet(S), \A x \in S : f[x] = g[x]
    PROVE  SumOver(f, S) = SumOver(g, S)
<1>. DEFINE C == {R \in SUBSET S : SumOver(f, R) = SumOver(g, R)}
<1>1. ASSUME NEW R \in SUBSET S, \A x \in R : R \ {x} \in C
      PROVE  R \in C
  <2>1. CASE R = {}
    BY <2>1, SumOfNone
  <2>2. CASE R # {}
    <3>1. IsFiniteSet(R)
      BY FS_Subset
    <3>2. /\ Pick(R) \in R
          /\ SumOver(f, R) = f[Pick(R)] + SumOver(f, R \ {Pick(R)})
          /\ SumOver(g, R) = g[Pick(R)] + SumOver(g, R \ {Pick(R)})
      BY <2>2, <3>1, SumOfPicked
    <3>. QED
      BY <1>1, <3>2
  <2>. QED
    BY <2>1, <2>2
<1>2. SUBSET S \subseteq C
  <2>. HIDE DEF C
  <2>. QED
    BY <1>1, SetsInductively
<1>. QED
  BY <1>2

\* One amount changes: the sum changes by as much.
LEMMA SumOfChanged ==
    ASSUME NEW f, NEW g, NEW S, IsFiniteSet(S), NEW x \in S,
           \A y \in S : f[y] \in Int, g[x] \in Int, \A y \in S \ {x} : g[y] = f[y]
    PROVE  SumOver(g, S) = SumOver(f, S) - f[x] + g[x]
<1>1. IsFiniteSet(S \ {x})
  BY FS_RemoveElement
<1>2. SumOver(f, S \ {x}) = SumOver(g, S \ {x}) /\ SumOver(f, S \ {x}) \in Int
  BY <1>1, SumOfSame, SumType
<1>3. SumOver(f, S) = f[x] + SumOver(f, S \ {x})
  BY SumWithout
<1>4. SumOver(g, S) = g[x] + SumOver(g, S \ {x})
  BY SumWithout
<1>. QED
  BY <1>2, <1>3, <1>4

\* Naturals add up to a natural.
LEMMA SumOfNaturals ==
    ASSUME NEW f, NEW S, IsFiniteSet(S), \A x \in S : f[x] \in Nat
    PROVE  SumOver(f, S) \in Nat
<1>. DEFINE C == {R \in SUBSET S : SumOver(f, R) \in Nat}
<1>1. ASSUME NEW R \in SUBSET S, \A x \in R : R \ {x} \in C
      PROVE  R \in C
  <2>1. CASE R = {}
    BY <2>1, SumOfNone
  <2>2. CASE R # {}
    <3>1. IsFiniteSet(R)
      BY FS_Subset
    <3>2. Pick(R) \in R /\ SumOver(f, R) = f[Pick(R)] + SumOver(f, R \ {Pick(R)})
      BY <2>2, <3>1, SumOfPicked
    <3>. QED
      BY <1>1, <3>2
  <2>. QED
    BY <2>1, <2>2
<1>2. SUBSET S \subseteq C
  <2>. HIDE DEF C
  <2>. QED
    BY <1>1, SetsInductively
<1>. QED
  BY <1>2

\* Amounts of zero may be left out.
LEMMA SumOnSubset ==
    ASSUME NEW f, NEW S, IsFiniteSet(S), \A x \in S : f[x] \in Int,
           NEW T \in SUBSET S, \A x \in S \ T : f[x] = 0
    PROVE  SumOver(f, S) = SumOver(f, T)
<1>. DEFINE C == {R \in SUBSET S : SumOver(f, R) = SumOver(f, R \cap T)}
<1>1. ASSUME NEW R \in SUBSET S, \A x \in R : R \ {x} \in C
      PROVE  R \in C
  <2>1. IsFiniteSet(R)
    BY FS_Subset
  <2>2. CASE R \subseteq T
    <3>1. R \cap T = R
      BY <2>2
    <3>. QED
      BY <3>1
  <2>3. ASSUME NEW x \in R, x \notin T
        PROVE  R \in C
    <3>1. SumOver(f, R) = f[x] + SumOver(f, R \ {x})
      BY <2>1, SumWithout
    <3>2. f[x] = 0 /\ (R \ {x}) \cap T = R \cap T
      BY <2>3
    <3>3. SumOver(f, R \ {x}) = SumOver(f, R \cap T)
      BY <1>1, <3>2
    <3>4. SumOver(f, R \ {x}) \in Int
      <4>1. IsFiniteSet(R \ {x})
        BY <2>1, FS_RemoveElement
      <4>. QED
        BY <4>1, SumType
    <3>. QED
      BY <3>1, <3>2, <3>3, <3>4
  <2>. QED
    BY <2>2, <2>3
<1>2. SUBSET S \subseteq C
  <2>. HIDE DEF C
  <2>. QED
    BY <1>1, SetsInductively
<1>3. S \cap T = T
  OBVIOUS
<1>. QED
  BY <1>2, <1>3

\* Adding up sums is adding up the amounts.
LEMMA SumOfPairs ==
    ASSUME NEW f, NEW g, NEW h, NEW S, IsFiniteSet(S),
           \A x \in S : f[x] \in Int /\ g[x] \in Int /\ h[x] = f[x] + g[x]
    PROVE  SumOver(h, S) = SumOver(f, S) + SumOver(g, S)
<1>. DEFINE C == {R \in SUBSET S : SumOver(h, R) = SumOver(f, R) + SumOver(g, R)}
<1>1. ASSUME NEW R \in SUBSET S, \A x \in R : R \ {x} \in C
      PROVE  R \in C
  <2>1. CASE R = {}
    BY <2>1, SumOfNone
  <2>2. CASE R # {}
    <3>. DEFINE x == Pick(R)
    <3>1. IsFiniteSet(R)
      BY FS_Subset
    <3>2. /\ x \in R
          /\ SumOver(f, R) = f[x] + SumOver(f, R \ {x})
          /\ SumOver(g, R) = g[x] + SumOver(g, R \ {x})
          /\ SumOver(h, R) = h[x] + SumOver(h, R \ {x})
      BY <2>2, <3>1, SumOfPicked
    <3>. HIDE DEF x
    <3>3. SumOver(f, R \ {x}) \in Int /\ SumOver(g, R \ {x}) \in Int
      <4>1. IsFiniteSet(R \ {x})
        BY <3>1, FS_RemoveElement
      <4>. QED
        BY <4>1, SumType
    <3>. QED
      BY <1>1, <3>2, <3>3
  <2>. QED
    BY <2>1, <2>2
<1>2. SUBSET S \subseteq C
  <2>. HIDE DEF C
  <2>. QED
    BY <1>1, SetsInductively
<1>. QED
  BY <1>2

\* Two ways to write down one table of integers.
Transposed(row, column, S, T) ==
    \A x \in S, y \in T : row[x][y] \in Int /\ column[y][x] = row[x][y]

\* A table may be added up by rows or by columns.
LEMMA SumsExchange ==
    ASSUME NEW S, IsFiniteSet(S), NEW T, IsFiniteSet(T),
           NEW row, NEW column, Transposed(row, column, S, T),
           NEW rows, \A x \in S : rows[x] = SumOver(row[x], T),
           NEW columns, \A y \in T : columns[y] = SumOver(column[y], S)
    PROVE  SumOver(rows, S) = SumOver(columns, T)
<1>0. \A x \in S, y \in T : row[x][y] \in Int /\ column[y][x] = row[x][y]
  BY DEF Transposed
<1>. DEFINE Upto(R) == [y \in T |-> SumOver(column[y], R)]
            C == {R \in SUBSET S : SumOver(rows, R) = SumOver(Upto(R), T)}
<1>1. \A R \in SUBSET S : IsFiniteSet(R) /\ \A y \in T : SumOver(column[y], R) \in Int
  <2>1. ASSUME NEW R \in SUBSET S, NEW y \in T
        PROVE  SumOver(column[y], R) \in Int
    <3>1. IsFiniteSet(R) /\ \A x \in R : column[y][x] \in Int
      BY <1>0, FS_Subset
    <3>. QED
      BY <3>1, SumType
  <2>. QED
    BY <2>1, FS_Subset
<1>2. ASSUME NEW R \in SUBSET S, \A x \in R : R \ {x} \in C
      PROVE  R \in C
  <2>1. CASE R = {}
    <3>1. \A y \in T : Upto(R)[y] = 0
      BY <2>1, SumOfNone
    <3>2. SumOver(Upto(R), T) = SumOver(Upto(R), {})
      <4>. DEFINE u == Upto(R)
      <4>1. \A y \in T : u[y] \in Int /\ u[y] = 0
        BY <3>1
      <4>. HIDE DEF u
      <4>2. SumOver(u, T) = SumOver(u, {})
        BY <4>1, SumOnSubset
      <4>. QED
        BY <4>2 DEF u
    <3>. QED
      BY <2>1, <3>2, SumOfNone
  <2>2. CASE R # {}
    <3>. DEFINE x == Pick(R)
                f == row[x]
                g == Upto(R \ {x})
                h == Upto(R)
    <3>1. x \in R /\ SumOver(rows, R) = rows[x] + SumOver(rows, R \ {x})
      BY <1>1, <2>2, SumOfPicked
    <3>. HIDE DEF x
    <3>2. ASSUME NEW y \in T
          PROVE  f[y] \in Int /\ g[y] \in Int /\ h[y] = f[y] + g[y]
      <4>1. \A z \in R : column[y][z] \in Int /\ column[y][z] = row[z][y]
        BY <1>0
      <4>2. SumOver(column[y], R) = column[y][x] + SumOver(column[y], R \ {x})
        BY <1>1, <3>1, <4>1, SumWithout
      <4>3. R \ {x} \in SUBSET S
        OBVIOUS
      <4>. QED
        BY <1>1, <3>1, <4>1, <4>2, <4>3
    <3>3. SumOver(rows, R \ {x}) = SumOver(g, T) /\ rows[x] = SumOver(f, T)
      BY <1>2, <3>1
    <3>. HIDE DEF f, g, h
    <3>4. SumOver(h, T) = SumOver(f, T) + SumOver(g, T)
      BY <3>2, SumOfPairs
    <3>. QED
      BY <3>1, <3>3, <3>4 DEF h
  <2>. QED
    BY <2>1, <2>2
<1>3. SUBSET S \subseteq C
  <2>. HIDE DEF C
  <2>. QED
    BY <1>2, SetsInductively
<1>4. SumOver(rows, S) = SumOver(Upto(S), T)
  BY <1>3
<1>5. SumOver(Upto(S), T) = SumOver(columns, T)
  <2>. DEFINE u == Upto(S)
  <2>1. \A y \in T : u[y] = columns[y]
    OBVIOUS
  <2>. HIDE DEF u
  <2>2. SumOver(u, T) = SumOver(columns, T)
    BY <2>1, SumOfSame
  <2>. QED
    BY <2>2 DEF u
<1>. QED
  BY <1>4, <1>5

=============================================================================
