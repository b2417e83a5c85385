------------------------------ MODULE Counting ------------------------------
(***************************************************************************)
(* Facts about sets of natural numbers that the proofs about chains and    *)
(* lists rest on: a least and a greatest element, and the member that has  *)
(* a given number of members before it; and facts about sums over finite   *)
(* sets. The library's induction theorems are about operators; what is     *)
(* needed here follows from its theorem that the finite subsets of a set   *)
(* are well-founded.                                                       *)
(***************************************************************************)
EXTENDS Integers, FiniteSets, Functions, FiniteSetTheorems, WellFoundedInduction, TLAPS

\* a set of numbers has a least one
LEMMA LeastNat ==
  ASSUME NEW T, T \subseteq Nat, T # {}
  PROVE  \E m \in T : \A n \in T : m <= n
<1> DEFINE Upto == {0..n : n \in T}
           R == StrictSubsetOrdering(Nat)
<1>1. \A n \in T : 0..n \in SUBSET Nat /\ IsFiniteSet(0..n)
  BY FS_Interval
<1>2. Upto \subseteq FiniteSubsetsOf(Nat)
  BY <1>1 DEF FiniteSubsetsOf
<1>3. Upto # {}
  OBVIOUS
<1>4. IsWellFoundedOn(R, FiniteSubsetsOf(Nat))
  BY FS_StrictSubsetOrderingWellFounded
<1> HIDE DEF R
<1>5. PICK x \in Upto : \A y \in Upto : <<y, x>> \notin R
  <2> HIDE DEF Upto
  <2>1. QED
    BY <1>2, <1>3, <1>4, WFMin
<1>6. PICK m \in T : x = 0..m
  OBVIOUS
<1>7. ASSUME NEW n \in T, n < m PROVE FALSE
  <2>1. 0..n \in Upto /\ 0..n \subseteq 0..m /\ 0..n # 0..m
    <3>1. m \in 0..m /\ m \notin 0..n
      BY <1>7
    <3>2. QED
      BY <1>7, <3>1
  <2>2. <<0..n, x>> \in R
    BY <1>1, <1>6, <1>7, <2>1 DEF R, StrictSubsetOrdering
  <2>3. QED
    BY <1>5, <2>1, <2>2
<1>8. QED
  BY <1>7

\* a set of numbers with a bound has a greatest one
LEMMA GreatestNat ==
  ASSUME NEW T, T \subseteq Nat, T # {}, NEW b \in Nat, \A n \in T : n <= b
  PROVE  \E m \in T : \A n \in T : n <= m
<1> DEFINE D == {b - n : n \in T}
<1>1. \A n \in T : n \in Nat /\ b - n \in Nat
  OBVIOUS
<1>2. D \subseteq Nat /\ D # {}
  BY <1>1
<1>3. PICK d \in D : \A e \in D : d <= e
  <2> HIDE DEF D
  <2>1. QED
    BY <1>2, LeastNat
<1>4. PICK m \in T : d = b - m
  OBVIOUS
<1>5. \A n \in T : b - m <= b - n
  BY <1>3, <1>4
<1>6. QED
  BY <1>1, <1>5

\* the members of a set of numbers before a number
Before(S, i) == {j \in S : j < i}

\* the positions of a finite list, and those before one of them, can be counted
LEMMA BeforeFinite ==
  ASSUME NEW b \in Nat, NEW S \in SUBSET (1..b)
  PROVE  /\ IsFiniteSet(S) /\ Cardinality(S) \in Nat
         /\ S \subseteq Nat /\ \A n \in S : n \in Int /\ n <= b
         /\ \A i : /\ IsFiniteSet(Before(S, i)) /\ Cardinality(Before(S, i)) \in Nat
                   /\ Before(S, i) \in SUBSET S
<1>1. IsFiniteSet(1..b)
  BY FS_Interval
<1>2. \A U \in SUBSET (1..b) : IsFiniteSet(U) /\ Cardinality(U) \in Nat
  BY <1>1, FS_Subset, FS_CardinalityType
<1>3. \A i : Before(S, i) \in SUBSET S
  BY DEF Before
<1>4. \A n \in S : n \in Nat /\ n <= b
  OBVIOUS
<1>5. QED
  BY <1>2, <1>3, <1>4

\* the greatest member of a set has all the others before it
LEMMA BeforeGreatest ==
  ASSUME NEW U, U \subseteq Nat, IsFiniteSet(U), NEW m \in U, \A n \in U : n <= m
  PROVE  Cardinality(Before(U, m)) = Cardinality(U) - 1
<1>1. \A n \in U : n < m <=> n # m
  OBVIOUS
<1>2. Before(U, m) = U \ {m}
  BY <1>1 DEF Before
<1>3. QED
  BY <1>2, FS_RemoveElement

\* of a set of numbers, one member has exactly k members before it
LEMMA NthMember ==
  ASSUME NEW b \in Nat, NEW S \in SUBSET (1..b), NEW k \in Nat, k < Cardinality(S)
  PROVE  \E i \in S : Cardinality(Before(S, i)) = k
<1> DEFINE J == {i \in S : Cardinality(Before(S, i)) >= k}
<1>1. /\ IsFiniteSet(S) /\ Cardinality(S) \in Nat
      /\ S \subseteq Nat /\ \A n \in S : n \in Int /\ n <= b
  BY BeforeFinite
<1>2. \A i : /\ IsFiniteSet(Before(S, i)) /\ Cardinality(Before(S, i)) \in Nat
             /\ Before(S, i) \in SUBSET S
  BY BeforeFinite
<1>3. J # {}
  <2>1. S # {}
    <3>1. Cardinality({}) = 0
      BY FS_EmptySet
    <3>2. QED
      BY <3>1
  <2>2. PICK m \in S : \A n \in S : n <= m
    BY <1>1, <2>1, GreatestNat
  <2>3. Cardinality(Before(S, m)) = Cardinality(S) - 1
    BY <1>1, <2>2, BeforeGreatest
  <2>4. QED
    BY <1>1, <2>3
<1>4. PICK i \in J : \A j \in J : i <= j
  <2>1. J \subseteq Nat
    BY <1>1
  <2> HIDE DEF J
  <2>2. QED
    BY <1>3, <2>1, LeastNat
<1>5. ASSUME Cardinality(Before(S, i)) > k PROVE FALSE
  <2> DEFINE B == Before(S, i)
  <2>1. B # {}
    <3>1. Cardinality({}) = 0
      BY FS_EmptySet
    <3>2. QED
      BY <1>5, <3>1
  <2>2. B \subseteq S /\ B \subseteq Nat /\ IsFiniteSet(B) /\ \A n \in B : n <= b
    BY <1>1, <1>2
  <2>3. PICK m \in B : \A n \in B : n <= m
    <3> HIDE DEF B
    <3>1. QED
      BY <2>1, <2>2, GreatestNat
  <2>4. m \in S /\ m < i /\ m \in Nat /\ i \in Nat
    BY <1>1 DEF Before
  <2>5. Before(S, m) = Before(B, m)
    <3>1. \A n \in S : n < m => n < i
      BY <1>1, <2>4
    <3>2. QED
      BY <3>1 DEF Before
  <2>6. Cardinality(Before(B, m)) = Cardinality(B) - 1
    <3> HIDE DEF B
    <3>1. QED
      BY <2>2, <2>3, BeforeGreatest
  <2>7. m \in J
    BY <1>2, <1>5, <2>4, <2>5, <2>6
  <2>8. i <= m
    BY <1>4, <2>7
  <2>9. QED
    BY <2>4, <2>8
<1>6. QED
  BY <1>2, <1>4, <1>5

\* members that come later have more members before them
LEMMA BeforeMonotone ==
  ASSUME NEW b \in Nat, NEW S \in SUBSET (1..b), NEW j \in S, NEW k \in Int, j < k
  PROVE  Cardinality(Before(S, j)) < Cardinality(Before(S, k))
<1>1. /\ IsFiniteSet(Before(S, j)) /\ Cardinality(Before(S, j)) \in Nat
      /\ IsFiniteSet(Before(S, k)) /\ Cardinality(Before(S, k)) \in Nat
  BY BeforeFinite
<1>2. \A n \in S : n \in Int
  OBVIOUS
<1>3. j \notin Before(S, j)
  BY DEF Before
<1>4. Before(S, j) \cup {j} \subseteq Before(S, k)
  <2>1. \A n \in S : n < j => n < k
    BY <1>2
  <2>2. QED
    BY <2>1 DEF Before
<1>5. Cardinality(Before(S, j) \cup {j}) = Cardinality(Before(S, j)) + 1
  BY <1>1, <1>3, FS_AddElement
<1>6. Cardinality(Before(S, j) \cup {j}) <= Cardinality(Before(S, k))
  BY <1>1, <1>4, FS_Subset
<1>7. QED
  BY <1>1, <1>5, <1>6

\* a member has fewer members before it than there are
LEMMA BeforeBound ==
  ASSUME NEW b \in Nat, NEW S \in SUBSET (1..b), NEW j \in S
  PROVE  Cardinality(Before(S, j)) < Cardinality(S)
<1>1. Before(S, b + 1) = S
  <2>1. \A n \in S : n < b + 1
    OBVIOUS
  <2>2. QED
    BY <2>1 DEF Before
<1>2. Cardinality(Before(S, j)) < Cardinality(Before(S, b + 1))
  BY BeforeMonotone
<1>3. QED
  BY <1>1, <1>2

\* when a member is removed those behind it move up by one
LEMMA BeforeRemove ==
  ASSUME NEW b \in Nat, NEW S \in SUBSET (1..b), NEW x \in S
  PROVE  /\ Cardinality(S \ {x}) = Cardinality(S) - 1
         /\ \A j \in S \ {x} :
              /\ j < x => Cardinality(Before(S \ {x}, j)) = Cardinality(Before(S, j))
              /\ j > x => Cardinality(Before(S \ {x}, j)) = Cardinality(Before(S, j)) - 1
<1>1. /\ IsFiniteSet(S) /\ \A n \in S : n \in Int
      /\ \A j : IsFiniteSet(Before(S, j))
  BY BeforeFinite
<1>2. Cardinality(S \ {x}) = Cardinality(S) - 1
  BY <1>1, FS_RemoveElement
<1>3. ASSUME NEW j \in S \ {x}, j < x
      PROVE  Cardinality(Before(S \ {x}, j)) = Cardinality(Before(S, j))
  <2>1. Before(S \ {x}, j) = Before(S, j)
    BY <1>1, <1>3 DEF Before
  <2>2. QED
    BY <2>1
<1>4. ASSUME NEW j \in S \ {x}, j > x
      PROVE  Cardinality(Before(S \ {x}, j)) = Cardinality(Before(S, j)) - 1
  <2>1. Before(S \ {x}, j) = Before(S, j) \ {x} /\ x \in Before(S, j)
    BY <1>1, <1>4 DEF Before
  <2>2. QED
    BY <1>1, <2>1, FS_RemoveElement
<1>5. QED
  BY <1>2, <1>3, <1>4

\* of all numbers up to b, j has those up to j - 1 before it
LEMMA BeforeAll ==
  ASSUME NEW b \in Nat
  PROVE  Cardinality(1..b) = b /\ \A j \in 1..b : Cardinality(Before(1..b, j)) = j - 1
<1>1. Cardinality(1..b) = b
  BY FS_Interval
<1>2. ASSUME NEW j \in 1..b PROVE Cardinality(Before(1..b, j)) = j - 1
  <2>1. Before(1..b, j) = 1..j - 1
    BY DEF Before
  <2>2. Cardinality(1..j - 1) = j - 1
    BY FS_Interval
  <2>3. QED
    BY <2>1, <2>2
<1>3. QED
  BY <1>1, <1>2

-----------------------------------------------------------------------------
(***************************************************************************)
(* Sums of the values of a function over a finite set. The library defines *)
(* them by a recursive function on the subsets of the set, which takes an  *)
(* arbitrary element at each step.                                         *)
(***************************************************************************)
\* among finite sets that are not empty there is one none of whose proper subsets is among them
LEMMA SmallestSet ==
  ASSUME NEW S, IsFiniteSet(S), NEW Q, Q \subseteq SUBSET S, Q # {}
  PROVE  \E T \in Q : \A U \in SUBSET T : U # T => U \notin Q
<1> DEFINE R == StrictSubsetOrdering(S)
<1>1. Q \subseteq FiniteSubsetsOf(S)
  BY FS_Subset DEF FiniteSubsetsOf
<1>2. IsWellFoundedOn(R, FiniteSubsetsOf(S))
  BY FS_StrictSubsetOrderingWellFounded
<1> HIDE DEF R
<1>3. PICK T \in Q : \A U \in Q : <<U, T>> \notin R
  BY <1>1, <1>2, WFMin
<1>4. ASSUME NEW U \in SUBSET T, U # T, U \in Q
      PROVE  FALSE
  <2>1. <<U, T>> \in R
    BY <1>4 DEF R, StrictSubsetOrdering
  <2>2. QED
    BY <1>3, <1>4, <2>1
<1>5. QED
  BY <1>4

\* g adds f up over every subset of S
SomeOf(T) == CHOOSE x \in T : TRUE
Sums(f, S, g) ==
  g = [T \in SUBSET S |-> IF T = {} THEN 0 ELSE f[SomeOf(T)] + g[T \ {SomeOf(T)}]]

\* two tables of partial sums agree where both are defined
LEMMA SumsAgree ==
  ASSUME NEW f, NEW A, NEW B, IsFiniteSet(A), NEW g, NEW h, Sums(f, A, g), Sums(f, B, h),
         NEW S, S \subseteq A, S \subseteq B
  PROVE  g[S] = h[S]
<1> DEFINE Q == {T \in SUBSET A : T \subseteq B /\ g[T] # h[T]}
<1>1. CASE Q = {}
  BY <1>1
<1>2. CASE Q # {}
  <2>1. Q \subseteq SUBSET A
    OBVIOUS
  <2>2. PICK T \in Q : \A U \in SUBSET T : U # T => U \notin Q
    <3> HIDE DEF Q
    <3>1. QED
      BY <1>2, <2>1, SmallestSet
  <2>3. T # {}
    BY <2>2 DEF Sums
  <2> DEFINE x == SomeOf(T)
  <2>4. x \in T
    BY <2>3 DEF SomeOf
  <2>5. T \ {x} \in SUBSET T /\ T \ {x} # T /\ T \ {x} \notin Q
    BY <2>2, <2>4
  <2>6. g[T \ {x}] = h[T \ {x}]
    BY <2>5
  <2>7. g[T] = f[x] + g[T \ {x}] /\ h[T] = f[x] + h[T \ {x}]
    BY <2>3 DEF Sums
  <2>8. QED
    BY <2>6, <2>7
<1>3. QED
  BY <1>1, <1>2

\* there is a table of partial sums for every finite set
LEMMA SumsExist ==
  ASSUME NEW f, NEW A, IsFiniteSet(A)
  PROVE  \E g : Sums(f, A, g)
<1> DEFINE Q == {T \in SUBSET A : ~\E g : Sums(f, T, g)}
<1>1. CASE Q = {}
  BY <1>1
<1>2. CASE Q # {}
  <2>1. Q \subseteq SUBSET A
    OBVIOUS
  <2>2. PICK S \in Q : \A U \in SUBSET S : U # S => U \notin Q
    <3> HIDE DEF Q
    <3>1. QED
      BY <1>2, <2>1, SmallestSet
  <2> DEFINE h(T) == CHOOSE g : Sums(f, T, g)
             g == [T \in SUBSET S |-> IF T = {} THEN 0 ELSE f[SomeOf(T)] + h(T \ {SomeOf(T)})[T \ {SomeOf(T)}]]
  <2>3. ASSUME NEW T \in SUBSET S, T # S
        PROVE  Sums(f, T, h(T)) /\ IsFiniteSet(T)
    <3>1. \E k : Sums(f, T, k)
      BY <2>2, <2>3
    <3>2. IsFiniteSet(T)
      BY FS_Subset
    <3>3. QED
      BY <3>1, <3>2
  <2>4. ASSUME NEW T \in SUBSET S, T # S
        PROVE  g[T] = h(T)[T]
    <3>1. CASE T = {}
      <4>1. Sums(f, T, h(T)) /\ g[{}] = 0
        BY <2>3, <2>4
      <4> HIDE DEF g, h
      <4>2. h(T)[{}] = 0
        BY <3>1, <4>1 DEF Sums
      <4>3. QED
        BY <3>1, <4>1, <4>2
    <3>2. CASE T # {}
      <4> DEFINE x == SomeOf(T)
                 U == T \ {x}
      <4>1. x \in T
        BY <3>2 DEF SomeOf
      <4>2. U \in SUBSET S /\ U # S /\ U \subseteq T
        BY <4>1
      <4>3. g[T] = f[x] + h(U)[U]
        BY <3>2
      <4> HIDE DEF g
      <4>4. Sums(f, T, h(T)) /\ Sums(f, U, h(U)) /\ IsFiniteSet(U)
        BY <2>3, <2>4, <4>2
      <4> HIDE DEF h
      <4>5. h(T)[T] = f[x] + h(T)[U]
        BY <3>2, <4>4 DEF Sums
      <4> HIDE DEF U
      <4>6. h(U)[U] = h(T)[U]
        BY <4>2, <4>4, SumsAgree
      <4>7. QED
        BY <4>3, <4>5, <4>6
    <3>3. QED
      BY <3>1, <3>2
  <2>5. ASSUME NEW T \in SUBSET S, T # {}
        PROVE  g[T] = f[SomeOf(T)] + g[T \ {SomeOf(T)}]
    <3> DEFINE U == T \ {SomeOf(T)}
    <3>1. SomeOf(T) \in T
      BY <2>5 DEF SomeOf
    <3>2. U \in SUBSET S /\ U # S
      BY <3>1
    <3>3. g[T] = f[SomeOf(T)] + h(U)[U]
      BY <2>5
    <3> HIDE DEF g, h, U
    <3>4. g[U] = h(U)[U]
      BY <2>4, <3>2
    <3>5. QED
      BY <3>3, <3>4 DEF U
  <2>6. g = [T \in SUBSET S |-> g[T]] /\ g[{}] = 0
    OBVIOUS
  <2> HIDE DEF g
  <2>7. Sums(f, S, g)
    BY <2>5, <2>6 DEF Sums
  <2>8. QED
    BY <2>2, <2>7
<1>3. QED
  BY <1>1, <1>2

\* one element is taken, and the rest is summed up
LEMMA SumUnfold ==
  ASSUME NEW f, NEW S, IsFiniteSet(S)
  PROVE  /\ SumFunctionOnSet(f, {}) = 0
         /\ S # {} => \E x \in S : SumFunctionOnSet(f, S) = f[x] + SumFunctionOnSet(f, S \ {x})
<1> DEFINE h(T) == CHOOSE g : Sums(f, T, g)
<1>1. \A T : SumFunctionOnSet(f, T) = h(T)[T]
  BY DEF SumFunctionOnSet, FoldFunctionOnSet, MapThenFoldSet, Sums, SomeOf
<1>2. \A T : IsFiniteSet(T) => Sums(f, T, h(T))
  BY SumsExist
<1> HIDE DEF h
<1>3. SumFunctionOnSet(f, {}) = 0
  <2>1. Sums(f, {}, h({}))
    BY <1>2, FS_EmptySet
  <2>2. QED
    BY <1>1, <2>1 DEF Sums
<1>4. ASSUME S # {}
      PROVE  \E x \in S : SumFunctionOnSet(f, S) = f[x] + SumFunctionOnSet(f, S \ {x})
  <2> DEFINE x == SomeOf(S)
             U == S \ {x}
  <2>1. x \in S /\ U \subseteq S
    BY <1>4 DEF SomeOf
  <2>2. Sums(f, S, h(S)) /\ IsFiniteSet(U)
    BY <1>2, FS_Subset
  <2>3. Sums(f, U, h(U))
    BY <1>2, <2>2
  <2>4. h(S)[S] = f[x] + h(S)[U]
    BY <1>4, <2>2 DEF Sums
  <2> HIDE DEF U
  <2>5. h(S)[U] = h(U)[U]
    BY <2>1, <2>2, <2>3, SumsAgree
  <2>6. QED
    BY <1>1, <2>1, <2>4, <2>5 DEF U
<1>5. QED
  BY <1>3, <1>4

\* a sum of numbers is one, and not negative if none of them is
LEMMA SumType ==
  ASSUME NEW f, NEW S, IsFiniteSet(S), \A x \in S : f[x] \in Int
  PROVE  SumFunctionOnSet(f, S) \in Int /\ ((\A x \in S : f[x] >= 0) => SumFunctionOnSet(f, S) >= 0)
<1> DEFINE Good(T) == /\ SumFunctionOnSet(f, T) \in Int
                      /\ (\A x \in S : f[x] >= 0) => SumFunctionOnSet(f, T) >= 0
           Q == {T \in SUBSET S : ~Good(T)}
<1>1. CASE Q = {}
  <2>1. Good(S)
    BY <1>1
  <2>2. QED
    BY <2>1
<1>2. CASE Q # {}
  <2>1. Q \subseteq SUBSET S
    OBVIOUS
  <2>2. PICK T \in Q : \A U \in SUBSET T : U # T => U \notin Q
    <3> HIDE DEF Q
    <3>1. QED
      BY <1>2, <2>1, SmallestSet
  <2>3. T \in SUBSET S /\ ~Good(T)
    BY <2>2
  <2>4. IsFiniteSet(T)
    BY <2>3, FS_Subset
  <2>5. T # {}
    BY <2>3, <2>4, SumUnfold
  <2>6. PICK x \in T : SumFunctionOnSet(f, T) = f[x] + SumFunctionOnSet(f, T \ {x})
    BY <2>4, <2>5, SumUnfold
  <2>7. Good(T \ {x})
    BY <2>2, <2>3
  <2>8. f[x] \in Int
    BY <2>3
  <2>9. Good(T)
    BY <2>3, <2>6, <2>7, <2>8
  <2>10. QED
    BY <2>3, <2>9
<1>3. QED
  BY <1>1, <1>2

\* it does not matter which element is taken
LEMMA SumRemove ==
  ASSUME NEW f, NEW S, IsFiniteSet(S), \A x \in S : f[x] \in Int, NEW y \in S
  PROVE  SumFunctionOnSet(f, S) = f[y] + SumFunctionOnSet(f, S \ {y})
<1> DEFINE Sum(T) == SumFunctionOnSet(f, T)
           Q == {T \in SUBSET S : \E z \in T : Sum(T) # f[z] + Sum(T \ {z})}
<1>1. CASE Q = {}
  BY <1>1
<1>2. CASE Q # {}
  <2>1. Q \subseteq SUBSET S
    OBVIOUS
  <2>2. PICK T \in Q : \A U \in SUBSET T : U # T => U \notin Q
    <3> HIDE DEF Q
    <3>1. QED
      BY <1>2, <2>1, SmallestSet
  <2>3. T \in SUBSET S
    BY <2>2
  <2>4. PICK z \in T : Sum(T) # f[z] + Sum(T \ {z})
    BY <2>2
  <2>5. IsFiniteSet(T) /\ T # {}
    BY <2>3, <2>4, FS_Subset
  <2>6. PICK x \in T : Sum(T) = f[x] + Sum(T \ {x})
    BY <2>5, SumUnfold
  <2>7. x # z
    BY <2>4, <2>6
  <2>8. \A U \in SUBSET T : U # T => \A v \in U : Sum(U) = f[v] + Sum(U \ {v})
    BY <2>2, <2>3
  <2>9. Sum(T \ {x}) = f[z] + Sum((T \ {x}) \ {z}) /\ Sum(T \ {z}) = f[x] + Sum((T \ {z}) \ {x})
    BY <2>7, <2>8
  <2>10. (T \ {x}) \ {z} = (T \ {z}) \ {x}
    OBVIOUS
  <2>11. Sum((T \ {z}) \ {x}) \in Int /\ f[x] \in Int /\ f[z] \in Int
    <3>1. (T \ {z}) \ {x} \in SUBSET S
      BY <2>3
    <3>2. IsFiniteSet((T \ {z}) \ {x}) /\ \A v \in (T \ {z}) \ {x} : f[v] \in Int
      BY <3>1, FS_Subset
    <3> HIDE DEF Sum
    <3>3. Sum((T \ {z}) \ {x}) \in Int
      BY <3>2, SumType DEF Sum
    <3>4. QED
      BY <2>3, <3>3
  <2>12. FALSE
    <3> DEFINE r == Sum((T \ {z}) \ {x})
               k == f[z]
               l == f[x]
    <3>1. r \in Int /\ k \in Int /\ l \in Int
      BY <2>11
    <3>2. Sum(T) = l + (k + r) /\ Sum(T \ {z}) = l + r
      BY <2>6, <2>9, <2>10
    <3>3. Sum(T) # k + Sum(T \ {z})
      BY <2>4
    <3> HIDE DEF Sum, r, k, l
    <3>4. QED
      BY <3>1, <3>2, <3>3
  <2>13. QED
    BY <2>12
<1>3. QED
  BY <1>1, <1>2

\* the sum over two sets that share nothing
LEMMA SumUnion ==
  ASSUME NEW f, NEW A, NEW B, IsFiniteSet(A), IsFiniteSet(B), A \cap B = {},
         \A x \in A \cup B : f[x] \in Int
  PROVE  SumFunctionOnSet(f, A \cup B) = SumFunctionOnSet(f, A) + SumFunctionOnSet(f, B)
<1> DEFINE Sum(T) == SumFunctionOnSet(f, T)
           Q == {T \in SUBSET B : Sum(A \cup T) # Sum(A) + Sum(T)}
<1>0. ASSUME NEW T \in SUBSET B
      PROVE  IsFiniteSet(T) /\ IsFiniteSet(A \cup T) /\ Sum(T) \in Int /\ Sum(A) \in Int
  <2>1. IsFiniteSet(T)
    BY FS_Subset
  <2>2. IsFiniteSet(A \cup T)
    BY <2>1, FS_Union
  <2>3. Sum(T) \in Int /\ Sum(A) \in Int
    BY <2>1, SumType
  <2>4. QED
    BY <2>1, <2>2, <2>3
<1>1. CASE Q = {}
  BY <1>1
<1>2. CASE Q # {}
  <2>1. Q \subseteq SUBSET B
    OBVIOUS
  <2>2. PICK T \in Q : \A U \in SUBSET T : U # T => U \notin Q
    <3> HIDE DEF Q
    <3>1. QED
      BY <1>2, <2>1, SmallestSet
  <2>3. T \in SUBSET B /\ Sum(A \cup T) # Sum(A) + Sum(T)
    BY <2>2
  <2>4. T # {}
    <3>1. A \cup {} = A /\ Sum({}) = 0
      BY SumUnfold
    <3>2. Sum(A) \in Int
      BY <1>0
    <3> HIDE DEF Sum
    <3>3. SUFFICES ASSUME T = {} PROVE FALSE
      OBVIOUS
    <3>4. Sum(A \cup T) = Sum(A) + Sum(T)
      BY <3>1, <3>2, <3>3
    <3>5. QED
      BY <2>3, <3>4
  <2>5. PICK y \in T : TRUE
    BY <2>4
  <2>6. Sum(T) = f[y] + Sum(T \ {y})
    BY <1>0, <2>3, SumRemove
  <2>7. Sum(A \cup T) = f[y] + Sum((A \cup T) \ {y})
    BY <1>0, <2>3, SumRemove
  <2>8. (A \cup T) \ {y} = A \cup (T \ {y})
    BY <2>3
  <2>9. T \ {y} \in SUBSET B /\ T \ {y} \in SUBSET T /\ T \ {y} # T
    BY <2>3
  <2>10. Sum(A \cup (T \ {y})) = Sum(A) + Sum(T \ {y})
    BY <2>2, <2>9
  <2>11. f[y] \in Int /\ Sum(T \ {y}) \in Int /\ Sum(A) \in Int
    BY <1>0, <2>3, <2>9
  <2>12. FALSE
    <3>1. Sum((A \cup T) \ {y}) = Sum(A \cup (T \ {y}))
      BY <2>8
    <3> DEFINE a == Sum(A)
               r == Sum(T \ {y})
               k == f[y]
    <3>2. a \in Int /\ r \in Int /\ k \in Int
      BY <2>11
    <3>3. Sum(A \cup T) = k + (a + r) /\ Sum(T) = k + r
      BY <2>6, <2>7, <2>10, <3>1
    <3>4. Sum(A \cup T) # a + Sum(T)
      BY <2>3
    <3> HIDE DEF Sum, a, r, k
    <3>5. QED
      BY <3>2, <3>3, <3>4
  <2>13. QED
    BY <2>12
<1>3. QED
  BY <1>1, <1>2

\* the sum over what is left of a set
LEMMA SumDifference ==
  ASSUME NEW f, NEW A, NEW B, IsFiniteSet(A), B \subseteq A, \A x \in A : f[x] \in Int
  PROVE  SumFunctionOnSet(f, A \ B) = SumFunctionOnSet(f, A) - SumFunctionOnSet(f, B)
<1> DEFINE D == A \ B
<1>1. D \cup B = A /\ D \cap B = {} /\ D \subseteq A
  OBVIOUS
<1>2. IsFiniteSet(D) /\ IsFiniteSet(B)
  BY <1>1, FS_Subset
<1>3. /\ SumFunctionOnSet(f, D) \in Int /\ SumFunctionOnSet(f, B) \in Int
  <2>1. \A x \in D : f[x] \in Int
    OBVIOUS
  <2> HIDE DEF D
  <2>2. QED
    BY <1>2, <2>1, SumType
<1> HIDE DEF D
<1>4. SumFunctionOnSet(f, A) = SumFunctionOnSet(f, D) + SumFunctionOnSet(f, B)
  <2>1. \A x \in D \cup B : f[x] \in Int
    BY <1>1
  <2>2. SumFunctionOnSet(f, D \cup B) = SumFunctionOnSet(f, D) + SumFunctionOnSet(f, B)
    BY <1>1, <1>2, <2>1, SumUnion
  <2>3. QED
    BY <1>1, <2>2
<1>5. QED
  BY <1>3, <1>4 DEF D
=============================================================================
