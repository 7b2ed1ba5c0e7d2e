------------------------------- MODULE SetFacts -------------------------------
(***************************************************************************)
(* Facts about sets that the proofs of several components make use of: the  *)
(* least and greatest elements of sets of natural numbers, the sums of      *)
(* functions over finite sets, and the order of the numbers of a finite set. *)
(***************************************************************************)
EXTENDS Integers, FiniteSetsExt, Functions, WellFoundedInduction, FiniteSetTheorems, TLAPS

(* A set of natural numbers has a least element. *)
LEMMA Least ==
  ASSUME NEW S, S \subseteq Nat, S # {}
  PROVE  \E m \in S : \A x \in S : m <= x
<1>1. IsWellFoundedOn(OpToRel(<, Nat), Nat)
  BY NatLessThanWellFounded
<1>2. PICK m \in S : \A x \in S : <<x, m>> \notin OpToRel(<, Nat)
  BY <1>1, WFMin
<1>3. \A x \in S : ~(x < m)
  BY <1>2 DEF OpToRel
<1> QED
  BY <1>3

(* Min is the least element. *)
LEMMA MinOf ==
  ASSUME NEW S, S \subseteq Nat, S # {}
  PROVE  Min(S) \in S /\ \A x \in S : Min(S) <= x
BY Least DEF Min

(* Max is the greatest element of a bounded set. *)
LEMMA MaxOf ==
  ASSUME NEW S, S \subseteq Nat, S # {}, NEW n \in Nat, \A x \in S : x <= n
  PROVE  Max(S) \in S /\ \A x \in S : x <= Max(S)
<1> DEFINE D == {n - x : x \in S}
<1>1. D \subseteq Nat /\ D # {}
  <2>1. \A x \in S : n - x \in Nat
    OBVIOUS
  <2> QED
    BY <2>1
<1>2. PICK d \in D : \A e \in D : d <= e
  BY <1>1, Least
<1>3. PICK m \in S : d = n - m
  BY <1>2
<1>4. \A x \in S : m >= x
  <2>1. \A x \in S : d <= n - x
    BY <1>2
  <2> QED
    BY <1>3, <2>1
<1> QED
  BY <1>3, <1>4 DEF Max

-----------------------------------------------------------------------------
(* What a function takes a finite set to is finite. *)
LEMMA ImageIsFinite ==
  ASSUME NEW S, IsFiniteSet(S), NEW f
  PROVE  IsFiniteSet({f[x] : x \in S})
<1> DEFINE g == [x \in S |-> f[x]]
<1>1. g \in Surjection(S, {f[x] : x \in S})
  BY DEF Surjection
<1> HIDE DEF g
<1> QED
  BY <1>1, FS_Surjection

(* Of some subsets of a finite set, one has none of the others in it. *)
LEMMA Smallest ==
  ASSUME NEW S, IsFiniteSet(S), NEW B, B \subseteq SUBSET S, B # {}
  PROVE  \E T \in B : \A U \in B : U \subseteq T => U = T
<1>1. FiniteSubsetsOf(S) = SUBSET S
  BY FS_FiniteSubsetsOfFinite
<1>2. IsWellFoundedOn(StrictSubsetOrdering(S), SUBSET S)
  BY <1>1, FS_StrictSubsetOrderingWellFounded
<1>3. PICK T \in B : \A U \in B : <<U, T>> \notin StrictSubsetOrdering(S)
  BY <1>2, WFMin
<1>4. \A U \in B : U \subseteq T => U = T
  BY <1>3 DEF StrictSubsetOrdering
<1> QED
  BY <1>4

(* The sums over all subsets of a set, as the folds of Functions define them. *)
IsSum(f, S, g) ==
  g = [s \in SUBSET S |->
        IF s = {} THEN 0 ELSE f[CHOOSE x \in s : TRUE] + g[s \ {CHOOSE x \in s : TRUE}]]

(* There is one such sum at most. *)
LEMMA SumIsUnique ==
  ASSUME NEW S, IsFiniteSet(S), NEW T, NEW e, NEW f, \A x \in S : e[x] = f[x], S \subseteq T,
         NEW g, NEW h, IsSum(e, S, g), IsSum(f, T, h)
  PROVE  g[S] = h[S]
<1> DEFINE B == {s \in SUBSET S : g[s] # h[s]}
<1>1. SUFFICES ASSUME B # {} PROVE FALSE
  OBVIOUS
<1>2. PICK s \in B : \A t \in B : t \subseteq s => t = s
  <2>1. B \subseteq SUBSET S
    OBVIOUS
  <2> HIDE DEF B
  <2> QED
    BY <1>1, <2>1, Smallest
<1> DEFINE x == CHOOSE y \in s : TRUE
<1>3. s # {}
  BY <1>2 DEF IsSum
<1>4. x \in s
  BY <1>3
<1>5. g[s] = e[x] + g[s \ {x}]
  BY <1>3 DEF IsSum
<1>6. h[s] = f[x] + h[s \ {x}]
  BY <1>3 DEF IsSum
<1>7. s \ {x} \notin B /\ s \ {x} \in SUBSET S
  BY <1>2, <1>4
<1> QED
  BY <1>2, <1>4, <1>5, <1>6, <1>7

(* There is one over every finite set. *)
LEMMA SumExists ==
  ASSUME NEW S, IsFiniteSet(S), NEW f
  PROVE  \E g : IsSum(f, S, g)
<1> DEFINE B == {T \in SUBSET S : \A g : ~IsSum(f, T, g)}
<1>1. SUFFICES ASSUME B # {} PROVE FALSE
  OBVIOUS
<1>2. PICK T \in B : \A U \in B : U \subseteq T => U = T
  <2>1. B \subseteq SUBSET S
    OBVIOUS
  <2> HIDE DEF B
  <2> QED
    BY <1>1, <2>1, Smallest
<1> DEFINE G == [U \in SUBSET T |-> CHOOSE g : IsSum(f, U, g)]
<1>3. \A U \in SUBSET T : U # T => IsSum(f, U, G[U])
  BY <1>2
<1>4. \A U \in SUBSET T : IsFiniteSet(U)
  BY FS_Subset
<1> DEFINE x == CHOOSE y \in T : TRUE
           v == IF T = {} THEN 0 ELSE f[x] + G[T \ {x}][T \ {x}]
           g == [s \in SUBSET T |-> IF s = T THEN v ELSE G[s][s]]
<1>5. IsSum(f, T, g)
  <2>1. ASSUME NEW s \in SUBSET T, s # {}, NEW y, y = CHOOSE z \in s : TRUE
        PROVE  g[s] = f[y] + g[s \ {y}]
    <3>1. y \in s /\ s \ {y} \in SUBSET T /\ s \ {y} # T
      BY <2>1
    <3>2. g[s \ {y}] = G[s \ {y}][s \ {y}]
      BY <3>1
    <3>3. CASE s = T
      BY <2>1, <3>2, <3>3
    <3>4. CASE s # T
      <4>1. g[s] = G[s][s]
        BY <3>4
      <4>2. IsSum(f, s, G[s]) /\ IsSum(f, s \ {y}, G[s \ {y}])
        BY <1>3, <3>1, <3>4
      <4> HIDE DEF G
      <4>3. G[s][s] = f[y] + G[s][s \ {y}]
        BY <2>1, <4>2 DEF IsSum
      <4>4. G[s \ {y}][s \ {y}] = G[s][s \ {y}]
        <5>1. IsFiniteSet(s \ {y}) /\ s \ {y} \subseteq s
          BY <1>4, <3>1
        <5> QED
          BY <4>2, <5>1, SumIsUnique
      <4> QED
        BY <3>2, <4>1, <4>3, <4>4
    <3> QED
      BY <3>3, <3>4
  <2>2. ASSUME {} \in SUBSET T PROVE g[{}] = 0
    <3>1. CASE T = {}
      BY <3>1
    <3>2. CASE T # {}
      <4>1. IsSum(f, {}, G[{}]) /\ g[{}] = G[{}][{}]
        BY <1>3, <3>2
      <4> HIDE DEF G, g
      <4> QED
        BY <4>1 DEF IsSum
    <3> QED
      BY <3>1, <3>2
  <2>3. g = [s \in SUBSET T |-> g[s]]
    OBVIOUS
  <2> HIDE DEF g
  <2>4. \A s \in SUBSET T : g[s] = IF s = {} THEN 0
          ELSE f[CHOOSE z \in s : TRUE] + g[s \ {CHOOSE z \in s : TRUE}]
    BY <2>1, <2>2
  <2> QED
    BY <2>3, <2>4 DEF IsSum
<1> QED
  BY <1>2, <1>5

(* The sum of the library is that sum. *)
LEMMA SumIsSum ==
  ASSUME NEW S, IsFiniteSet(S), NEW f
  PROVE  \E g : IsSum(f, S, g) /\ SumFunctionOnSet(f, S) = g[S]
<1> DEFINE g == CHOOSE h : IsSum(f, S, h)
<1>1. IsSum(f, S, g)
  BY SumExists
<1>2. SumFunctionOnSet(f, S) = g[S]
  BY DEF SumFunctionOnSet, FoldFunctionOnSet, MapThenFoldSet, IsSum
<1> QED
  BY <1>1, <1>2

(* The sum over the empty set. *)
LEMMA SumOfNone == \A f : SumFunctionOnSet(f, {}) = 0
<1> TAKE f
<1>1. PICK g : IsSum(f, {}, g) /\ SumFunctionOnSet(f, {}) = g[{}]
  BY FS_EmptySet, SumIsSum
<1> QED
  BY <1>1 DEF IsSum

(* A sum depends on the values over its set only. *)
LEMMA SumOfSame ==
  ASSUME NEW S, IsFiniteSet(S), NEW e, NEW f, \A x \in S : e[x] = f[x]
  PROVE  SumFunctionOnSet(e, S) = SumFunctionOnSet(f, S)
<1>1. PICK g : IsSum(e, S, g) /\ SumFunctionOnSet(e, S) = g[S]
  BY SumIsSum
<1>2. PICK h : IsSum(f, S, h) /\ SumFunctionOnSet(f, S) = h[S]
  BY SumIsSum
<1> QED
  <2>1. g[S] = h[S]
    BY <1>1, <1>2, SumIsUnique
  <2> QED
    BY <1>1, <1>2, <2>1

(* Some element, and the rest. *)
LEMMA SumOfChosen ==
  ASSUME NEW S, IsFiniteSet(S), S # {}, NEW f
  PROVE  \E x \in S : SumFunctionOnSet(f, S) = f[x] + SumFunctionOnSet(f, S \ {x})
<1> DEFINE x == CHOOSE y \in S : TRUE
<1>1. PICK g : IsSum(f, S, g) /\ SumFunctionOnSet(f, S) = g[S]
  BY SumIsSum
<1>2. IsFiniteSet(S \ {x}) /\ x \in S
  BY FS_Subset
<1>3. g[S] = f[x] + g[S \ {x}]
  BY <1>1 DEF IsSum
<1> HIDE DEF x
<1>4. PICK h : IsSum(f, S \ {x}, h) /\ SumFunctionOnSet(f, S \ {x}) = h[S \ {x}]
  BY <1>2, SumIsSum
<1>5. h[S \ {x}] = g[S \ {x}]
  BY <1>1, <1>2, <1>4, SumIsUnique
<1> QED
  BY <1>1, <1>2, <1>3, <1>4, <1>5

(* A sum of integers is one. *)
LEMMA SumIsInt ==
  ASSUME NEW S, IsFiniteSet(S), NEW f, \A x \in S : f[x] \in Int
  PROVE  SumFunctionOnSet(f, S) \in Int
<1> DEFINE B == {T \in SUBSET S : SumFunctionOnSet(f, T) \notin Int}
<1>1. SUFFICES ASSUME B # {} PROVE FALSE
  OBVIOUS
<1>2. PICK T \in B : \A U \in B : U \subseteq T => U = T
  <2>1. B \subseteq SUBSET S
    OBVIOUS
  <2> HIDE DEF B
  <2> QED
    BY <1>1, <2>1, Smallest
<1>3. T # {}
  BY <1>2, SumOfNone
<1>4. IsFiniteSet(T)
  BY FS_Subset
<1>5. PICK x \in T : SumFunctionOnSet(f, T) = f[x] + SumFunctionOnSet(f, T \ {x})
  BY <1>3, <1>4, SumOfChosen
<1>6. T \ {x} \notin B /\ T \ {x} \in SUBSET S
  BY <1>2, <1>5
<1> QED
  BY <1>2, <1>5, <1>6

(* Any element may be taken first. *)
LEMMA SumWithout ==
  ASSUME NEW S, IsFiniteSet(S), NEW f, \A x \in S : f[x] \in Int, NEW x \in S
  PROVE  SumFunctionOnSet(f, S) = f[x] + SumFunctionOnSet(f, S \ {x})
<1> DEFINE B == {T \in SUBSET S :
                  \E y \in T : SumFunctionOnSet(f, T) # f[y] + SumFunctionOnSet(f, T \ {y})}
<1>1. SUFFICES ASSUME B # {} PROVE FALSE
  OBVIOUS
<1>2. PICK T \in B : \A U \in B : U \subseteq T => U = T
  <2>1. B \subseteq SUBSET S
    OBVIOUS
  <2> HIDE DEF B
  <2> QED
    BY <1>1, <2>1, Smallest
<1>3. PICK y \in T : SumFunctionOnSet(f, T) # f[y] + SumFunctionOnSet(f, T \ {y})
  BY <1>2
<1>4. IsFiniteSet(T) /\ T # {}
  BY <1>3, FS_Subset
<1>5. PICK z \in T : SumFunctionOnSet(f, T) = f[z] + SumFunctionOnSet(f, T \ {z})
  BY <1>4, SumOfChosen
<1>6. y # z
  BY <1>3, <1>5
<1>7. T \ {y} \notin B /\ T \ {z} \notin B
  BY <1>2, <1>3, <1>5
<1>8. /\ SumFunctionOnSet(f, T \ {z}) = f[y] + SumFunctionOnSet(f, (T \ {z}) \ {y})
      /\ SumFunctionOnSet(f, T \ {y}) = f[z] + SumFunctionOnSet(f, (T \ {y}) \ {z})
  BY <1>3, <1>5, <1>6, <1>7
<1>9. (T \ {z}) \ {y} = (T \ {y}) \ {z}
  OBVIOUS
<1> DEFINE R == (T \ {y}) \ {z}
<1>10. SumFunctionOnSet(f, R) \in Int
  <2>1. IsFiniteSet(R) /\ \A u \in R : f[u] \in Int
    BY FS_Subset
  <2> QED
    BY <2>1, SumIsInt
<1>11. f[y] \in Int /\ f[z] \in Int
  BY <1>3, <1>5
<1>12. PICK a, b, c : a = f[y] /\ b = f[z] /\ c = SumFunctionOnSet(f, R)
  OBVIOUS
<1>13. /\ SumFunctionOnSet(f, T \ {z}) = a + c /\ SumFunctionOnSet(f, T \ {y}) = b + c
       /\ SumFunctionOnSet(f, T) = b + SumFunctionOnSet(f, T \ {z})
       /\ SumFunctionOnSet(f, T) # a + SumFunctionOnSet(f, T \ {y})
  BY <1>3, <1>5, <1>8, <1>9, <1>12, Zenon
<1>14. a \in Int /\ b \in Int /\ c \in Int
  BY <1>10, <1>11, <1>12, Zenon
<1> HIDE DEF R
<1> QED
  BY ONLY <1>13, <1>14

(* The sum with one more element. *)
LEMMA SumWithOneMore ==
  ASSUME NEW S, IsFiniteSet(S), NEW x, x \notin S, NEW e, NEW f,
         \A y \in S : e[y] \in Int /\ f[y] = e[y], f[x] \in Int
  PROVE  SumFunctionOnSet(f, S \cup {x}) = SumFunctionOnSet(e, S) + f[x]
<1>1. IsFiniteSet(S \cup {x}) /\ (S \cup {x}) \ {x} = S
  BY FS_AddElement
<1>2. SumFunctionOnSet(f, S \cup {x}) = f[x] + SumFunctionOnSet(f, (S \cup {x}) \ {x})
  <2>1. \A y \in S \cup {x} : f[y] \in Int
    OBVIOUS
  <2> QED
    BY <1>1, <2>1, SumWithout
<1>3. SumFunctionOnSet(f, S) = SumFunctionOnSet(e, S) /\ SumFunctionOnSet(f, S) \in Int
  BY SumOfSame, SumIsInt
<1>4. PICK a, b : a = f[x] /\ b = SumFunctionOnSet(e, S)
  OBVIOUS
<1>5. SumFunctionOnSet(f, S \cup {x}) = a + b /\ a \in Int /\ b \in Int
  BY <1>1, <1>2, <1>3, <1>4, Zenon
<1>6. a + b = b + a
  BY ONLY <1>5
<1> QED
  BY <1>4, <1>5, <1>6, Zenon

(* The sum over two sets that have no element in common. *)
LEMMA SumOfBoth ==
  ASSUME NEW S, IsFiniteSet(S), NEW T, IsFiniteSet(T), S \cap T = {},
         NEW f, \A x \in S \cup T : f[x] \in Int
  PROVE  SumFunctionOnSet(f, S \cup T) = SumFunctionOnSet(f, S) + SumFunctionOnSet(f, T)
<1> DEFINE B == {U \in SUBSET T : SumFunctionOnSet(f, S \cup U)
                                    # SumFunctionOnSet(f, S) + SumFunctionOnSet(f, U)}
<1>1. SUFFICES ASSUME B # {} PROVE FALSE
  OBVIOUS
<1>2. PICK U \in B : \A V \in B : V \subseteq U => V = U
  <2>1. B \subseteq SUBSET T
    OBVIOUS
  <2> HIDE DEF B
  <2> QED
    BY <1>1, <2>1, Smallest
<1>3. SumFunctionOnSet(f, S) \in Int
  BY SumIsInt
<1>4. U # {}
  <2>1. S \cup {} = S
    OBVIOUS
  <2> QED
    <3>1. SUFFICES ASSUME U = {} PROVE FALSE
      OBVIOUS
    <3>2. PICK a : a = SumFunctionOnSet(f, S)
      OBVIOUS
    <3>3. a # a + SumFunctionOnSet(f, {})
      BY <1>2, <2>1, <3>1, <3>2
    <3>4. SumFunctionOnSet(f, {}) = 0 /\ a \in Int
      BY <1>3, <3>2, SumOfNone
    <3> QED
      BY ONLY <3>3, <3>4
<1>5. PICK x \in U : TRUE
  BY <1>4
<1>6. U \ {x} \notin B /\ U \ {x} \in SUBSET T
  BY <1>2, <1>5
<1>7. SumFunctionOnSet(f, S \cup (U \ {x}))
        = SumFunctionOnSet(f, S) + SumFunctionOnSet(f, U \ {x})
  BY <1>6
<1>8. /\ IsFiniteSet(U \ {x}) /\ IsFiniteSet(S \cup (U \ {x}))
      /\ x \notin U \ {x} /\ x \notin S \cup (U \ {x})
      /\ (U \ {x}) \cup {x} = U /\ (S \cup (U \ {x})) \cup {x} = S \cup U
  <2>1. IsFiniteSet(U \ {x})
    BY <1>2, FS_Subset
  <2> QED
    BY <1>2, <1>5, <2>1, FS_Union
<1>9. /\ \A y \in U \ {x} : f[y] \in Int /\ f[y] = f[y]
      /\ \A y \in S \cup (U \ {x}) : f[y] \in Int /\ f[y] = f[y]
      /\ f[x] \in Int
  BY <1>2, <1>5
<1>10. SumFunctionOnSet(f, U) = SumFunctionOnSet(f, U \ {x}) + f[x]
  BY <1>8, <1>9, SumWithOneMore
<1>11. SumFunctionOnSet(f, S \cup U) = SumFunctionOnSet(f, S \cup (U \ {x})) + f[x]
  <2>1. SumFunctionOnSet(f, (S \cup (U \ {x})) \cup {x})
          = SumFunctionOnSet(f, S \cup (U \ {x})) + f[x]
    <3> DEFINE R == S \cup (U \ {x})
    <3>1. IsFiniteSet(R) /\ x \notin R /\ f[x] \in Int
          /\ \A y \in R : f[y] \in Int /\ f[y] = f[y]
      BY <1>8, <1>9, Zenon
    <3> HIDE DEF R
    <3>2. SumFunctionOnSet(f, R \cup {x}) = SumFunctionOnSet(f, R) + f[x]
      BY <3>1, SumWithOneMore, Zenon
    <3> QED
      BY <3>2 DEF R
  <2> QED
    BY <1>8, <2>1
<1>12. SumFunctionOnSet(f, U \ {x}) \in Int
  BY <1>8, <1>9, SumIsInt
<1>13. PICK a, b, c : a = f[x] /\ b = SumFunctionOnSet(f, S)
                      /\ c = SumFunctionOnSet(f, U \ {x})
  OBVIOUS
<1>14. a \in Int /\ b \in Int /\ c \in Int
  BY <1>3, <1>9, <1>12, <1>13, Zenon
<1>15. SumFunctionOnSet(f, S \cup U) # b + SumFunctionOnSet(f, U)
  BY <1>2, <1>13
<1>16. SumFunctionOnSet(f, S \cup U) = (b + c) + a /\ SumFunctionOnSet(f, U) = c + a
  BY <1>7, <1>10, <1>11, <1>13, Zenon
<1> QED
  BY ONLY <1>14, <1>15, <1>16

(* How many numbers of a set are less than one of them.                     *)
IsRanking(rank, S, n) ==
  /\ n \in Nat
  /\ \A x \in S : rank[x] \in 0..n - 1 /\ rank[x] = Cardinality({y \in S : y < x})
  /\ \A x, y \in S : x < y => rank[x] < rank[y]
  /\ \A m \in 0..n - 1 : \E x \in S : rank[x] = m

LEMMA Ranks ==
  ASSUME NEW S, S \subseteq Int, IsFiniteSet(S), NEW n, n = Cardinality(S)
  PROVE  \E rank : IsRanking(rank, S, n)
<1> DEFINE below(x) == {y \in S : y < x}
           rank == [x \in S |-> Cardinality({y \in S : y < x})]
<1>0. \A x \in S : x \in Int
  OBVIOUS
<1>1. n \in Nat
  BY FS_CardinalityType
<1>2. \A x \in S : IsFiniteSet(below(x)) /\ rank[x] = Cardinality(below(x)) /\ rank[x] \in 0..n - 1
  <2> TAKE x \in S
  <2>1. below(x) \subseteq S /\ x \notin below(x) /\ rank[x] = Cardinality(below(x))
    OBVIOUS
  <2> HIDE DEF below
  <2>2. IsFiniteSet(below(x)) /\ Cardinality(below(x)) <= n /\ Cardinality(below(x)) # n
    BY <2>1, FS_Subset
  <2>3. Cardinality(below(x)) \in Nat
    BY <2>2, FS_CardinalityType
  <2> QED
    BY <1>1, <2>1, <2>2, <2>3
<1> HIDE DEF rank
<1>3. \A x, y \in S : x < y => rank[x] < rank[y]
  <2> SUFFICES ASSUME NEW x \in S, NEW y \in S, x < y PROVE rank[x] < rank[y]
    OBVIOUS
  <2>1. below(x) \subseteq below(y) /\ x \in below(y) /\ x \notin below(x)
    <3>1. x \in Int /\ y \in Int
      BY <1>0
    <3>2. \A z \in S : z < x => z < y
      BY <1>0, <3>1
    <3>3. ~(x < x)
      BY <3>1
    <3> QED
      BY <3>2, <3>3, Zenon
  <2>2. IsFiniteSet(below(y)) /\ IsFiniteSet(below(x))
    BY <1>2
  <2> HIDE DEF below
  <2>3. Cardinality(below(x)) <= Cardinality(below(y))
          /\ Cardinality(below(x)) # Cardinality(below(y))
    BY <2>1, <2>2, FS_Subset
  <2> QED
    BY <1>1, <1>2, <2>3
<1>4. \A x, y \in S : rank[x] = rank[y] => x = y
  <2> TAKE x, y \in S
  <2>1. x \in Int /\ y \in Int
    BY <1>0, Zenon
  <2>2. rank[x] \in Int /\ rank[y] \in Int
    <3>1. rank[x] \in 0..n - 1 /\ rank[y] \in 0..n - 1
      BY <1>2, Zenon
    <3> QED
      BY <1>1, <3>1
  <2>3. (x < y => rank[x] < rank[y]) /\ (y < x => rank[y] < rank[x])
    BY <1>3, Zenon
  <2> QED
    BY <2>1, <2>2, <2>3
<1>5. rank \in [S -> 0..n - 1]
  <2>1. rank = [x \in S |-> rank[x]]
    BY DEF rank
  <2> QED
    BY <1>2, <2>1
<1>6. \A m \in 0..n - 1 : \E x \in S : rank[x] = m
  <2> DEFINE T == 0..n - 1
  <2>1. rank \in [S -> T]
    BY <1>5
  <2>2. IsFiniteSet(T) /\ Cardinality(T) = n
    <3>1. 0 \in Int /\ n - 1 \in Int /\ (0 > n - 1 => n = 0) /\ (n - 1) - 0 + 1 = n
      BY <1>1
    <3>2. /\ IsFiniteSet(T)
          /\ Cardinality(T) = IF 0 > n - 1 THEN 0 ELSE (n - 1) - 0 + 1
      BY <3>1, FS_Interval, Zenon
    <3> QED
      BY <3>1, <3>2
  <2> HIDE DEF T
  <2>3. rank \in Injection(S, T)
    <3>1. DOMAIN rank = S
      BY <2>1
    <3> QED
      BY <1>4, <2>1, <3>1, Zenon DEF Injection, IsInjective
  <2>4. rank \in Surjection(S, T)
    BY <2>2, <2>3, FS_Injection
  <2> QED
    BY <2>4 DEF Surjection, T
<1>7. IsRanking(rank, S, n)
  BY <1>1, <1>2, <1>3, <1>6, Zenon DEF IsRanking
<1> QED
  BY <1>7

(* Numbers with the ranks from 0 on are in their order.                     *)
IsOrder(s, S, n) ==
  /\ \A x \in S : \E k \in 1..n : s[k] = x
  /\ \A x \in S : s[1] <= x /\ x <= s[n]
  /\ \A k \in 2..n : s[k - 1] < s[k] /\ \A x \in S : x < s[k] => x <= s[k - 1]

LEMMA RankedInOrder ==
  ASSUME NEW S, \A x \in S : x \in Int, NEW n, NEW rank, IsRanking(rank, S, n),
         NEW s, \A k \in 1..n : s[k] \in S /\ rank[s[k]] = k - 1
  PROVE  IsOrder(s, S, n)
<1>0. /\ n \in Nat /\ \A x \in S : rank[x] \in 0..n - 1
      /\ \A x, y \in S : x < y => rank[x] < rank[y]
      /\ \A m \in 0..n - 1 : \E x \in S : rank[x] = m
  BY DEF IsRanking
<1>1. \A x, y \in S : rank[x] <= rank[y] => x <= y
  <2> TAKE x, y \in S
  <2>1. x \in Int /\ y \in Int /\ rank[x] \in Int /\ rank[y] \in Int
    BY <1>0
  <2>2. y < x => rank[y] < rank[x]
    BY <1>0
  <2> QED
    BY <2>1, <2>2
<1>2. \A x \in S : \E k \in 1..n : s[k] = x
  <2> TAKE x \in S
  <2>1. PICK m \in 0..n - 1 : rank[x] = m
    BY <1>0
  <2>2. PICK k \in 1..n : k = m + 1
    BY <1>0
  <2>3. s[k] \in S /\ rank[s[k]] = m /\ m <= m
    BY <2>2
  <2>4. s[k] <= x /\ x <= s[k]
    BY <1>1, <2>1, <2>3
  <2> QED
    BY <2>3, <2>4
<1>3. ASSUME NEW x \in S PROVE s[1] <= x /\ x <= s[n]
  <2>1. PICK m \in 0..n - 1 : rank[x] = m
    BY <1>0
  <2>2. 1 \in 1..n /\ n \in 1..n /\ 1 - 1 <= m /\ m <= n - 1
    BY <1>0
  <2>3. s[1] \in S /\ s[n] \in S /\ rank[s[1]] <= rank[x] /\ rank[x] <= rank[s[n]]
    BY <2>1, <2>2
  <2> QED
    BY <1>1, <2>3
<1>4. ASSUME NEW k \in 2..n
      PROVE  s[k - 1] < s[k] /\ \A x \in S : x < s[k] => x <= s[k - 1]
  <2>1. PICK j \in 1..n : j = k - 1 /\ k \in 1..n
    BY <1>0
  <2>2. s[j] \in S /\ s[k] \in S /\ rank[s[j]] = j - 1 /\ rank[s[k]] = j
    BY <2>1
  <2>3. s[j] < s[k]
    <3>1. rank[s[j]] <= rank[s[k]] /\ s[j] # s[k]
      BY <2>2
    <3>2. s[j] <= s[k]
      BY <1>1, <2>2, <3>1
    <3> QED
      BY <2>2, <3>1, <3>2
  <2>4. ASSUME NEW x \in S, x < s[k] PROVE x <= s[j]
    <3>1. rank[x] < rank[s[k]] /\ rank[x] \in Int
      BY <1>0, <2>2, <2>4
    <3>2. rank[x] <= rank[s[j]]
      BY <2>2, <3>1
    <3> QED
      BY <1>1, <2>2, <3>2
  <2> QED
    BY <2>1, <2>3, <2>4
<1> QED
  BY <1>2, <1>3, <1>4 DEF IsOrder

(* The numbers of a finite set in their order.                              *)
HasRank(S, x, m) == Cardinality({y \in S : y < x}) = m

LEMMA InOrder ==
  ASSUME NEW S, S \subseteq Int, IsFiniteSet(S), NEW n, n = Cardinality(S),
         NEW s, \A k \in 1..n : \A x \in S :
                  HasRank(S, x, k - 1) => s[k] \in S /\ HasRank(S, s[k], k - 1)
  PROVE  n \in Nat /\ IsOrder(s, S, n) /\ \A k \in 1..n : s[k] \in S
<1>1. PICK rank : IsRanking(rank, S, n)
  BY Ranks
<1>2. \A k \in 1..n : s[k] \in S /\ rank[s[k]] = k - 1
  <2> TAKE k \in 1..n
  <2>1. PICK m \in 0..n - 1 : m = k - 1
    BY <1>1 DEF IsRanking
  <2>2. PICK x \in S : rank[x] = m
    BY <1>1 DEF IsRanking
  <2>3. HasRank(S, x, k - 1)
    BY <1>1, <2>1, <2>2, Zenon DEF IsRanking, HasRank
  <2>4. s[k] \in S /\ HasRank(S, s[k], k - 1)
    BY <2>3, Zenon
  <2> QED
    BY <1>1, <2>4, Zenon DEF IsRanking, HasRank
<1>3. \A x \in S : x \in Int
  BY Zenon
<1>4. IsOrder(s, S, n)
  BY <1>1, <1>2, <1>3, RankedInOrder, Zenon
<1> QED
  BY <1>1, <1>2, <1>4 DEF IsRanking
===============================================================================
