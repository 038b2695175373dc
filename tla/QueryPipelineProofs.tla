-------------------------- MODULE QueryPipelineProofs --------------------------
(***************************************************************************)
(* Queries in flight, for any number of them, of conversations and of      *)
(* chunks, in every deployment.                                            *)
(***************************************************************************)
EXTENDS QueryPipeline, FiniteSetTheorems, WellFoundedInduction, TLAPS

-----------------------------------------------------------------------------
(* Induction over numbers and finite sets, by well-foundedness.            *)

LEMMA LeastNumber ==
    ASSUME NEW S \in SUBSET Nat, S # {}
    PROVE  \E n \in S : \A m \in S : n <= m
<1> DEFINE R == OpToRel(<, Nat)
<1>1. IsWellFoundedOn(R, Nat)
  BY NatLessThanWellFounded
<1>2. \A a, b \in Nat : a < b => <<a, b>> \in R
  BY DEF OpToRel
<1> HIDE DEF R
<1>3. PICK x \in S : \A y \in S : ~ (<<y, x>> \in R)
  BY <1>1, WFMin
<1>4. ASSUME NEW y \in S PROVE x <= y
  <2>1. ~(y < x)
    BY <1>2, <1>3
  <2> QED
    BY <2>1
<1> QED
  BY <1>4

\* Induction along the cardinality of the subsets of a finite set.
LEMMA SubsetInduction ==
    ASSUME NEW S, IsFiniteSet(S), NEW P \in SUBSET (SUBSET S),
           \A T \in SUBSET S : (\A x \in T : T \ {x} \in P) => T \in P
    PROVE  P = SUBSET S
<1> SUFFICES ASSUME NEW T \in SUBSET S, T \notin P PROVE FALSE
  OBVIOUS
<1> DEFINE Bad == {Cardinality(U) : U \in {V \in SUBSET S : V \notin P}}
<1>1. \A U \in SUBSET S : IsFiniteSet(U) /\ Cardinality(U) \in Nat
  BY FS_Subset, FS_CardinalityType
<1>2. Bad \in SUBSET Nat /\ Bad # {}
  BY <1>1
<1>3. PICK n \in Bad : \A m \in Bad : n <= m
  <2> HIDE DEF Bad
  <2> QED
    BY <1>2, LeastNumber
<1>4. PICK U \in SUBSET S : U \notin P /\ n = Cardinality(U)
  BY <1>3
<1>5. PICK x \in U : U \ {x} \notin P
  BY <1>4
<1>6. Cardinality(U \ {x}) = n - 1 /\ n \in Nat
  BY <1>1, <1>4, <1>5, FS_RemoveElement
<1>7. Cardinality(U \ {x}) \in Bad
  BY <1>5
<1> HIDE DEF Bad
<1> QED
  BY <1>3, <1>6, <1>7

\* Induction along the numbers up to n.
LEMMA UpTo ==
    ASSUME NEW n \in Nat, NEW P, 0 \in P, \A k \in 1 .. n : k - 1 \in P => k \in P
    PROVE  \A k \in 0 .. n : k \in P
<1> SUFFICES ASSUME \E k \in 0 .. n : k \notin P PROVE FALSE
  OBVIOUS
<1> DEFINE Bad == {k \in 0 .. n : k \notin P}
<1>1. Bad \in SUBSET Nat /\ Bad # {}
  OBVIOUS
<1>2. PICK k \in Bad : \A m \in Bad : k <= m
  <2> HIDE DEF Bad
  <2> QED
    BY <1>1, LeastNumber
<1>3. k \in 1 .. n /\ k - 1 \in 0 .. n
  OBVIOUS
<1> QED
  BY <1>2, <1>3

-----------------------------------------------------------------------------
(* Sums over finite sets: SumFunctionOnSet adds in an order nobody knows.  *)

Next1(T) == CHOOSE x \in T : TRUE

\* What the definition of the library says of its partial sums h.
Sums(h, f, S) ==
    h = [T \in SUBSET S |-> IF T = {} THEN 0 ELSE f[Next1(T)] + h[T \ {Next1(T)}]]

LEMMA SumIsChosen ==
    ASSUME NEW f, NEW S
    PROVE  SumFunctionOnSet(f, S) = (CHOOSE h : Sums(h, f, S))[S]
BY DEF SumFunctionOnSet, FoldFunctionOnSet, MapThenFoldSet, Sums, Next1

LEMMA SumsExist ==
    ASSUME NEW f, NEW S, IsFiniteSet(S)
    PROVE  \E h : Sums(h, f, S)
<1> DEFINE n == Cardinality(S)
           Small(k) == {T \in SUBSET S : Cardinality(T) <= k}
           Good(k, h) == h = [T \in Small(k) |->
                                IF T = {} THEN 0 ELSE f[Next1(T)] + h[T \ {Next1(T)}]]
           P == {k \in 0 .. n : \E h : Good(k, h)}
<1>1. /\ n \in Nat
      /\ \A T \in SUBSET S : IsFiniteSet(T) /\ Cardinality(T) \in Nat /\ Cardinality(T) <= n
  BY FS_Subset, FS_CardinalityType
<1>2. \A T \in SUBSET S : Cardinality(T) = 0 <=> T = {}
  BY <1>1, FS_EmptySet
<1>3. \A T \in SUBSET S : T # {} =>
         Next1(T) \in T /\ Cardinality(T \ {Next1(T)}) = Cardinality(T) - 1
  BY <1>1, FS_RemoveElement DEF Next1
<1> HIDE DEF n
<1>4. 0 \in P
  <2> DEFINE h == [T \in Small(0) |-> 0]
  <2>1. \A T \in Small(0) : T = {}
    BY <1>1, <1>2
  <2>2. Good(0, h)
    BY <2>1
  <2> HIDE DEF h, Good
  <2> QED
    BY <1>1, <2>2
<1>5. ASSUME NEW k \in 1 .. n, k - 1 \in P
      PROVE  k \in P
  <2>1. PICK h : Good(k - 1, h)
    BY <1>5
  <2> DEFINE g == [T \in Small(k) |-> IF T \in Small(k - 1) THEN h[T]
                                      ELSE f[Next1(T)] + h[T \ {Next1(T)}]]
  <2>2. \A T \in Small(k) : T # {} => T \ {Next1(T)} \in Small(k - 1)
    BY <1>1, <1>3
  <2>3. \A T \in Small(k) : T # {} => g[T \ {Next1(T)}] = h[T \ {Next1(T)}]
    BY <2>2, <1>1
  <2>4. ASSUME NEW T \in Small(k)
        PROVE  g[T] = IF T = {} THEN 0 ELSE f[Next1(T)] + g[T \ {Next1(T)}]
    <3>1. CASE T \in Small(k - 1)
      <4>1. g[T] = h[T] /\ h[T] = IF T = {} THEN 0 ELSE f[Next1(T)] + h[T \ {Next1(T)}]
        <5> HIDE DEF Small
        <5> QED
          BY <2>1, <3>1
      <4> HIDE DEF g
      <4> QED
        BY <2>3, <4>1
    <3>2. CASE T \notin Small(k - 1)
      <4>1. T # {}
        BY <1>1, <1>2, <3>2
      <4>2. g[T] = f[Next1(T)] + h[T \ {Next1(T)}]
        <5> HIDE DEF Small
        <5> QED
          BY <3>2
      <4> HIDE DEF g
      <4> QED
        BY <2>3, <4>1, <4>2
    <3> QED
      BY <3>1, <3>2
  <2>5. Good(k, g)
    <3>1. g = [T \in Small(k) |-> g[T]]
      OBVIOUS
    <3> HIDE DEF g, Small
    <3> QED
      BY <2>4, <3>1
  <2> HIDE DEF g, Good
  <2> QED
    BY <2>5
<1> HIDE DEF P
<1>6. n \in P
  BY <1>1, <1>4, <1>5, UpTo
<1>7. PICK h : Good(n, h)
  BY <1>6 DEF P
<1>8. Small(n) = SUBSET S
  BY <1>1
<1> QED
  BY <1>7, <1>8 DEF Sums

LEMMA SumsAgree ==
    ASSUME NEW f, NEW S, IsFiniteSet(S), NEW R \in SUBSET S,
           NEW g, Sums(g, f, S), NEW h, Sums(h, f, R)
    PROVE  g[R] = h[R]
<1> DEFINE P == {T \in SUBSET R : g[T] = h[T]}
<1>1. IsFiniteSet(R)
  BY FS_Subset
<1>2. ASSUME NEW T \in SUBSET R, \A x \in T : T \ {x} \in P
      PROVE  T \in P
  <2>1. T # {} => Next1(T) \in T
    BY DEF Next1
  <2>2. /\ g[T] = IF T = {} THEN 0 ELSE f[Next1(T)] + g[T \ {Next1(T)}]
        /\ h[T] = IF T = {} THEN 0 ELSE f[Next1(T)] + h[T \ {Next1(T)}]
    BY DEF Sums
  <2> QED
    BY <1>2, <2>1, <2>2
<1> HIDE DEF P
<1>3. P = SUBSET R
  <2>1. P \in SUBSET (SUBSET R)
    BY DEF P
  <2> QED
    BY <1>1, <1>2, <2>1, SubsetInduction
<1> QED
  BY <1>3 DEF P

\* The sum is what any partial sums over a larger set say.
LEMMA SumIs ==
    ASSUME NEW f, NEW S, IsFiniteSet(S), NEW h, Sums(h, f, S), NEW R \in SUBSET S
    PROVE  SumFunctionOnSet(f, R) = h[R]
<1>1. IsFiniteSet(R)
  BY FS_Subset
<1>2. Sums(CHOOSE g : Sums(g, f, R), f, R)
  BY <1>1, SumsExist
<1> QED
  BY <1>2, SumIsChosen, SumsAgree

LEMMA SumOfNone == ASSUME NEW f PROVE SumFunctionOnSet(f, {}) = 0
<1>1. IsFiniteSet({})
  BY FS_EmptySet
<1>2. PICK h : Sums(h, f, {})
  BY <1>1, SumsExist
<1>3. h[{}] = 0
  BY <1>2 DEF Sums
<1> QED
  BY <1>1, <1>2, <1>3, SumIs

LEMMA SumOfSome ==
    ASSUME NEW f, NEW S, IsFiniteSet(S), S # {}
    PROVE  SumFunctionOnSet(f, S) = f[Next1(S)] + SumFunctionOnSet(f, S \ {Next1(S)})
<1>1. PICK h : Sums(h, f, S)
  BY SumsExist
<1>2. h[S] = f[Next1(S)] + h[S \ {Next1(S)}]
  BY <1>1 DEF Sums
<1>3. SumFunctionOnSet(f, S) = h[S] /\ SumFunctionOnSet(f, S \ {Next1(S)}) = h[S \ {Next1(S)}]
  BY <1>1, SumIs
<1> QED
  BY <1>2, <1>3

LEMMA SumType ==
    ASSUME NEW S, IsFiniteSet(S), NEW f, \A x \in S : f[x] \in Nat
    PROVE  SumFunctionOnSet(f, S) \in Nat
<1> DEFINE P == {T \in SUBSET S : SumFunctionOnSet(f, T) \in Nat}
<1>1. ASSUME NEW T \in SUBSET S, \A x \in T : T \ {x} \in P
      PROVE  T \in P
  <2>1. CASE T = {}
    BY <2>1, SumOfNone
  <2>2. CASE T # {}
    <3>1. Next1(T) \in T /\ IsFiniteSet(T)
      BY <2>2, FS_Subset DEF Next1
    <3>2. f[Next1(T)] \in Nat /\ SumFunctionOnSet(f, T \ {Next1(T)}) \in Nat
      BY <1>1, <3>1
    <3>3. SumFunctionOnSet(f, T) = f[Next1(T)] + SumFunctionOnSet(f, T \ {Next1(T)})
      BY <2>2, <3>1, SumOfSome
    <3> QED
      BY <3>2, <3>3
  <2> QED
    BY <2>1, <2>2
<1> HIDE DEF P
<1>2. P = SUBSET S
  <2>1. P \in SUBSET (SUBSET S)
    BY DEF P
  <2> QED
    BY <1>1, <2>1, SubsetInduction
<1> QED
  BY <1>2 DEF P

\* Any member may be added last.
LEMMA SumOfMember ==
    ASSUME NEW S, IsFiniteSet(S), NEW f, \A x \in S : f[x] \in Nat, NEW y \in S
    PROVE  SumFunctionOnSet(f, S) = f[y] + SumFunctionOnSet(f, S \ {y})
<1> DEFINE Sum(T) == SumFunctionOnSet(f, T)
           P == {T \in SUBSET S : \A x \in T : Sum(T) = f[x] + Sum(T \ {x})}
<1>1. \A T \in SUBSET S : IsFiniteSet(T) /\ Sum(T) \in Nat
  BY FS_Subset, SumType
<1>2. ASSUME NEW T \in SUBSET S, \A x \in T : T \ {x} \in P, NEW x \in T
      PROVE  Sum(T) = f[x] + Sum(T \ {x})
  <2> DEFINE z == Next1(T)
  <2>1. z \in T
    BY DEF Next1
  <2>2. Sum(T) = f[z] + Sum(T \ {z})
    BY <1>1, SumOfSome
  <2> HIDE DEF z, Sum
  <2>3. CASE x # z
    <3>1. Sum(T \ {z}) = f[x] + Sum((T \ {z}) \ {x})
      BY <1>2, <2>1, <2>3
    <3>2. Sum(T \ {x}) = f[z] + Sum((T \ {x}) \ {z})
      BY <1>2, <2>1, <2>3
    <3>3. (T \ {z}) \ {x} = (T \ {x}) \ {z}
      OBVIOUS
    <3>4. f[x] \in Nat /\ f[z] \in Nat /\ Sum((T \ {x}) \ {z}) \in Nat
      BY <1>1, <2>1
    <3> QED
      BY <2>2, <3>1, <3>2, <3>3, <3>4
  <2> QED
    BY <2>2, <2>3
<1> HIDE DEF P
<1>3. P = SUBSET S
  <2>1. P \in SUBSET (SUBSET S)
    BY DEF P
  <2>2. \A T \in SUBSET S : (\A x \in T : T \ {x} \in P) => T \in P
    BY <1>2 DEF P
  <2> QED
    BY <2>1, <2>2, SubsetInduction
<1> QED
  BY <1>3 DEF P

\* h is a on 0 and g of its value before on every later number up to n.
Recurs(h, n, D, a, g) ==
    h \in [0 .. n -> D] /\ h[0] = a /\ \A k \in 1 .. n : h[k] = g[k][h[k - 1]]

LEMMA Recursion ==
    ASSUME NEW n \in Nat, NEW D, NEW a \in D, NEW g \in [1 .. n -> [D -> D]]
    PROVE  \E h : Recurs(h, n, D, a, g)
<1> DEFINE Good(m, h) == h[0] = a /\ \A k \in 1 .. m : h[k] = g[k][h[k - 1]]
           P == {m \in 0 .. n : \E h \in [0 .. m -> D] : Good(m, h)}
<1>1. 0 \in P
  <2> DEFINE h == [k \in 0 .. 0 |-> a]
  <2>1. h \in [0 .. 0 -> D] /\ Good(0, h)
    OBVIOUS
  <2> HIDE DEF h, Good
  <2> QED
    BY <2>1
<1>2. ASSUME NEW m \in 1 .. n, m - 1 \in P
      PROVE  m \in P
  <2>1. PICK h \in [0 .. (m - 1) -> D] : Good(m - 1, h)
    BY <1>2
  <2> DEFINE j == [k \in 0 .. m |-> IF k = m THEN g[m][h[m - 1]] ELSE h[k]]
  <2>2. g[m] \in [D -> D] /\ h[m - 1] \in D
    BY <2>1
  <2>3. j \in [0 .. m -> D] /\ j[0] = a
    BY <2>1, <2>2
  <2>4. ASSUME NEW k \in 1 .. m PROVE j[k] = g[k][j[k - 1]]
    <3>1. k - 1 # m /\ k - 1 \in 0 .. m /\ j[k - 1] = h[k - 1]
      OBVIOUS
    <3>2. CASE k = m
      BY <3>1, <3>2
    <3>3. CASE k # m
      <4>1. k \in 1 .. (m - 1) /\ j[k] = h[k]
        BY <3>3
      <4> QED
        BY <2>1, <3>1, <4>1
    <3> QED
      BY <3>2, <3>3
  <2>5. Good(m, j)
    BY <2>3, <2>4
  <2> HIDE DEF j, Good
  <2> QED
    BY <2>3, <2>5
<1> HIDE DEF P
<1>3. n \in P
  <2>1. \A m \in 1 .. n : m - 1 \in P => m \in P
    BY <1>2
  <2>2. \A m \in 0 .. n : m \in P
    BY <1>1, <2>1, UpTo
  <2> QED
    BY <2>2
<1> QED
  BY <1>3 DEF P, Recurs

-----------------------------------------------------------------------------
(* allocate_token_budget.                                                  *)

\* The budget is spent item by item, the items in order of their rank.
Spends(spent, items, rank, last, cost, budget) ==
    /\ spent \in [0 .. last -> Nat] /\ spent[0] = 0
    /\ \A k \in 1 .. last :
          \/ \E x \in items : /\ rank[x] = k /\ spent[k - 1] + cost[x] <= budget
                              /\ spent[k] = spent[k - 1] + cost[x]
          \/ /\ ~\E x \in items : rank[x] = k /\ spent[k - 1] + cost[x] <= budget
             /\ spent[k] = spent[k - 1]
    /\ Admitted(items, rank, last, cost, budget)
          = {x \in items : spent[rank[x] - 1] + cost[x] <= budget}

LEMMA AdmittedSpends ==
    ASSUME NEW items, NEW last \in Nat, NEW rank, \A x \in items : rank[x] \in 1 .. last,
           \A x, y \in items : rank[x] = rank[y] => x = y,
           NEW cost, \A x \in items : cost[x] \in Nat, NEW budget \in Nat
    PROVE  \E spent : Spends(spent, items, rank, last, cost, budget)
<1> DEFINE Pays(k, v) == \E x \in items : rank[x] = k /\ v + cost[x] <= budget
           Item(k) == CHOOSE x \in items : rank[x] = k
           After(k, v) == IF Pays(k, v) THEN v + cost[Item(k)] ELSE v
           g == [k \in 1 .. last |-> [v \in Nat |-> After(k, v)]]
           spent[k \in 0 .. last] == IF k = 0 THEN 0
                                     ELSE IF \E x \in items : rank[x] = k /\ spent[k - 1] + cost[x] <= budget
                                          THEN spent[k - 1] + cost[CHOOSE x \in items : rank[x] = k]
                                          ELSE spent[k - 1]
<1>1. \A k \in 1 .. last, v \in Nat : After(k, v) \in Nat
  <2>1. \A k \in 1 .. last, v \in Nat : Pays(k, v) => Item(k) \in items
    OBVIOUS
  <2> HIDE DEF Item
  <2> QED
    BY <2>1
<1>2. g \in [1 .. last -> [Nat -> Nat]]
  <2> HIDE DEF After
  <2> QED
    BY <1>1
<1>3. PICK h : Recurs(h, last, Nat, 0, g)
  <2>1. 0 \in Nat
    OBVIOUS
  <2> HIDE DEF g
  <2> QED
    BY <1>2, <2>1, Recursion
<1>4. ASSUME NEW k \in 1 .. last
      PROVE  h[k - 1] \in Nat /\ h[k] = After(k, h[k - 1])
  <2>1. h[k - 1] \in Nat /\ h[k] = g[k][h[k - 1]]
    <3> HIDE DEF g
    <3> QED
      BY <1>3 DEF Recurs
  <2> HIDE DEF After
  <2> QED
    BY <2>1
<1>5. h = [k \in 0 .. last |-> IF k = 0 THEN 0
                               ELSE IF \E x \in items : rank[x] = k /\ h[k - 1] + cost[x] <= budget
                                    THEN h[k - 1] + cost[CHOOSE x \in items : rank[x] = k]
                                    ELSE h[k - 1]]
  <2> DEFINE r == [k \in 0 .. last |-> IF k = 0 THEN 0 ELSE After(k, h[k - 1])]
  <2>1. ASSUME NEW k \in 0 .. last PROVE h[k] = r[k]
    <3>1. CASE k = 0
      BY <1>3, <3>1 DEF Recurs
    <3>2. CASE k # 0
      <4>1. k \in 1 .. last
        BY <3>2
      <4>2. h[k] = After(k, h[k - 1])
        <5> HIDE DEF After
        <5> QED
          BY <1>4, <4>1
      <4> HIDE DEF After
      <4> QED
        BY <3>2, <4>2
    <3> QED
      BY <3>1, <3>2
  <2>2. h = [k \in 0 .. last |-> h[k]]
    BY <1>3 DEF Recurs
  <2>3. h = r
    <3> HIDE DEF r
    <3>1. r = [k \in 0 .. last |-> r[k]]
      BY DEF r
    <3> QED
      BY <2>1, <2>2, <3>1
  <2> QED
    BY <2>3
<1>6. spent = [k \in 0 .. last |-> IF k = 0 THEN 0
                               ELSE IF \E x \in items : rank[x] = k /\ spent[k - 1] + cost[x] <= budget
                                    THEN spent[k - 1] + cost[CHOOSE x \in items : rank[x] = k]
                                    ELSE spent[k - 1]]
  BY <1>5
<1>7. Admitted(items, rank, last, cost, budget) = {x \in items : spent[rank[x] - 1] + cost[x] <= budget}
  BY DEF Admitted
<1> HIDE DEF spent
<1>8. /\ spent = [k \in 0 .. last |-> spent[k]] /\ spent[0] = 0
      /\ \A k \in 1 .. last : spent[k] = After(k, spent[k - 1])
  <2>1. \A k \in 0 .. last : spent[k] = IF k = 0 THEN 0 ELSE After(k, spent[k - 1])
    BY <1>6
  <2> HIDE DEF After
  <2>2. spent[0] = 0 /\ \A k \in 1 .. last : spent[k] = After(k, spent[k - 1])
    BY <2>1
  <2>3. spent = [k \in 0 .. last |-> spent[k]]
    BY <1>6
  <2> QED
    BY <2>2, <2>3
<1>9. \A k \in 0 .. last : spent[k] \in Nat
  <2> DEFINE P == {k \in 0 .. last : spent[k] \in Nat}
  <2> HIDE DEF After
  <2>1. 0 \in P
    BY <1>8
  <2>2. ASSUME NEW k \in 1 .. last, k - 1 \in P PROVE k \in P
    <3>1. spent[k - 1] \in Nat /\ spent[k] = After(k, spent[k - 1])
      BY <1>8, <2>2
    <3>2. spent[k] \in Nat
      BY <1>1, <3>1
    <3> QED
      BY <3>2
  <2> HIDE DEF P
  <2>3. \A k \in 0 .. last : k \in P
    BY <2>1, <2>2, UpTo
  <2> QED
    BY <2>3 DEF P
<1>10. spent \in [0 .. last -> Nat]
  BY <1>8, <1>9
<1>11. ASSUME NEW k \in 1 .. last
       PROVE  \/ \E x \in items : /\ rank[x] = k /\ spent[k - 1] + cost[x] <= budget
                                  /\ spent[k] = spent[k - 1] + cost[x]
              \/ /\ ~\E x \in items : rank[x] = k /\ spent[k - 1] + cost[x] <= budget
                 /\ spent[k] = spent[k - 1]
  <2> DEFINE v == spent[k - 1]
  <2>1. spent[k] = After(k, v)
    BY <1>8
  <2> HIDE DEF v
  <2>2. CASE Pays(k, v)
    <3>1. PICK x \in items : rank[x] = k /\ v + cost[x] <= budget
      BY <2>2
    <3>2. Item(k) \in items /\ rank[Item(k)] = k
      BY <3>1
    <3>3. Item(k) = x
      <4> HIDE DEF Item
      <4> QED
        BY <3>1, <3>2
    <3>4. spent[k] = v + cost[x]
      <4> HIDE DEF Item, Pays
      <4> QED
        BY <2>1, <2>2, <3>3
    <3> QED
      BY <3>1, <3>4 DEF v
  <2>3. CASE ~Pays(k, v)
    <3>1. spent[k] = v
      <4> HIDE DEF Pays
      <4> QED
        BY <2>1, <2>3
    <3> QED
      BY <2>3, <3>1 DEF v
  <2> QED
    BY <2>2, <2>3
<1> QED
  BY <1>7, <1>8, <1>10, <1>11 DEF Spends

\* The items admitted fit together, and one that is not admitted does not fit
\* next to the better ones that are.
LEMMA AdmittedFits ==
    ASSUME NEW items, IsFiniteSet(items), NEW last \in Nat, NEW rank, \A x \in items : rank[x] \in 1 .. last,
           \A x, y \in items : rank[x] = rank[y] => x = y,
           NEW cost, \A x \in items : cost[x] \in Nat, NEW budget \in Nat
    PROVE  LET A == Admitted(items, rank, last, cost, budget) IN
           /\ A \subseteq items
           /\ SumFunctionOnSet(cost, A) <= budget
           /\ \A x \in items \ A :
                 SumFunctionOnSet(cost, {d \in A : rank[d] < rank[x]}) + cost[x] > budget
<1> DEFINE A == Admitted(items, rank, last, cost, budget)
           Sum(T) == SumFunctionOnSet(cost, T)
           First(k) == {d \in A : rank[d] <= k}
<1>p. PICK spent : Spends(spent, items, rank, last, cost, budget)
  BY AdmittedSpends
<1>1. /\ spent \in [0 .. last -> Nat] /\ spent[0] = 0
      /\ \A k \in 1 .. last :
            \/ \E x \in items : /\ rank[x] = k /\ spent[k - 1] + cost[x] <= budget
                                /\ spent[k] = spent[k - 1] + cost[x]
            \/ /\ ~\E x \in items : rank[x] = k /\ spent[k - 1] + cost[x] <= budget
               /\ spent[k] = spent[k - 1]
      /\ A = {x \in items : spent[rank[x] - 1] + cost[x] <= budget}
  BY <1>p DEF Spends
<1> HIDE DEF A
<1>2. /\ A \subseteq items /\ IsFiniteSet(A)
      /\ \A T \in SUBSET A : IsFiniteSet(T) /\ Sum(T) \in Nat
  <2>1. A \subseteq items
    BY <1>1
  <2>2. \A T \in SUBSET A : IsFiniteSet(T) /\ \A x \in T : cost[x] \in Nat
    BY <2>1, FS_Subset
  <2> QED
    BY <2>1, <2>2, SumType
<1>3. \A x \in items : rank[x] \in 1 .. last
  OBVIOUS
<1> DEFINE P == {k \in 0 .. last : spent[k] = Sum(First(k)) /\ spent[k] <= budget}
<1>4. 0 \in P
  <2>1. First(0) = {}
    BY <1>2, <1>3
  <2>2. Sum(First(0)) = 0
    BY <2>1, SumOfNone
  <2> HIDE DEF Sum, First
  <2> QED
    BY <1>1, <2>2
<1>5. ASSUME NEW k \in 1 .. last, k - 1 \in P PROVE k \in P
  <2>1. spent[k - 1] = Sum(First(k - 1)) /\ spent[k - 1] <= budget /\ spent[k - 1] \in Nat
    <3> HIDE DEF Sum, First
    <3> QED
      BY <1>1, <1>5
  <2>2. ASSUME NEW x \in items, rank[x] = k, spent[k - 1] + cost[x] <= budget,
               spent[k] = spent[k - 1] + cost[x]
        PROVE  k \in P
    <3>1. x \in A /\ cost[x] \in Nat
      BY <1>1, <2>2
    <3>2. First(k) \ {x} = First(k - 1) /\ x \in First(k)
      BY <1>2, <1>3, <2>2, <3>1
    <3>3. IsFiniteSet(First(k)) /\ \A y \in First(k) : cost[y] \in Nat
      BY <1>2
    <3> HIDE DEF First
    <3>s. Sum(First(k)) = cost[x] + Sum(First(k) \ {x})
      BY <3>2, <3>3, SumOfMember
    <3>4. Sum(First(k)) = cost[x] + Sum(First(k - 1))
      BY <3>2, <3>s
    <3> HIDE DEF Sum
    <3>5. Sum(First(k)) = spent[k] /\ spent[k] <= budget
      BY <2>1, <2>2, <3>1, <3>4
    <3> QED
      BY <3>5
  <2>3. ASSUME ~\E x \in items : rank[x] = k /\ spent[k - 1] + cost[x] <= budget,
               spent[k] = spent[k - 1]
        PROVE  k \in P
    <3>1. \A x \in A : rank[x] # k
      BY <1>1, <2>3
    <3>2. First(k) = First(k - 1)
      BY <1>2, <1>3, <3>1
    <3> HIDE DEF First, Sum
    <3> QED
      BY <2>1, <2>3, <3>2
  <2> QED
    BY <1>1, <2>2, <2>3
<1> HIDE DEF P, Sum, First
<1>6. \A k \in 0 .. last : spent[k] = Sum(First(k)) /\ spent[k] <= budget
  <2>1. \A k \in 1 .. last : k - 1 \in P => k \in P
    BY <1>5
  <2>2. \A k \in 0 .. last : k \in P
    BY <1>4, <2>1, UpTo
  <2> QED
    BY <2>2 DEF P
<1>7. Sum(A) <= budget
  <2>1. First(last) = A
    BY <1>2, <1>3 DEF First
  <2> QED
    BY <1>6, <2>1
<1>8. ASSUME NEW x \in items \ A
      PROVE  Sum({d \in A : rank[d] < rank[x]}) + cost[x] > budget
  <2>1. First(rank[x] - 1) = {d \in A : rank[d] < rank[x]}
    BY <1>2, <1>3 DEF First
  <2>2. rank[x] - 1 \in 0 .. last /\ ~(spent[rank[x] - 1] + cost[x] <= budget)
    BY <1>1, <1>3
  <2>3. spent[rank[x] - 1] \in Nat /\ cost[x] \in Nat
    BY <1>1, <2>2
  <2>4. spent[rank[x] - 1] + cost[x] > budget
    BY <2>2, <2>3
  <2>5. spent[rank[x] - 1] = Sum(First(rank[x] - 1))
    BY <1>6, <2>2
  <2> QED
    BY <2>1, <2>4, <2>5
<1> QED
  BY <1>2, <1>7, <1>8 DEF A, Sum

LEMMA ChunksRanked ==
    /\ N \in Nat
    /\ \A rank \in Orders : /\ rank \in [Chunks -> 1 .. N]
                            /\ \A c, d \in Chunks : rank[c] = rank[d] => c = d
BY ConfigAssumption, FS_CardinalityType DEF N, Orders

\* Deduplication leaves no two near-duplicates.
LEMMA DistinctApart ==
    ASSUME NEW S \in SUBSET Chunks, NEW rank \in Orders
    PROVE  /\ Distinct(S, rank) \subseteq S
           /\ \A c, d \in Distinct(S, rank) : c # d => {c, d} \notin Twins
<1> DEFINE More(k, T) == T \cup {c \in S : rank[c] = k /\ \A d \in T : {c, d} \notin Twins}
           g == [k \in 1 .. N |-> [T \in SUBSET S |-> More(k, T)]]
           kept[k \in 0 .. N] ==
             IF k = 0 THEN {}
             ELSE kept[k - 1] \cup {c \in S : rank[c] = k
                                         /\ \A d \in kept[k - 1] : {c, d} \notin Twins}
<1>r. N \in Nat /\ \A c, d \in S : rank[c] = rank[d] => c = d
  BY ChunksRanked
<1>1. g \in [1 .. N -> [SUBSET S -> SUBSET S]]
  OBVIOUS
<1>2. PICK h : Recurs(h, N, SUBSET S, {}, g)
  <2>1. {} \in SUBSET S
    OBVIOUS
  <2> HIDE DEF g
  <2> QED
    BY <1>r, <1>1, <2>1, Recursion
<1>3. ASSUME NEW k \in 1 .. N
      PROVE  h[k] = More(k, h[k - 1])
  <2>1. h[k - 1] \in SUBSET S /\ h[k] = g[k][h[k - 1]]
    <3> HIDE DEF g
    <3> QED
      BY <1>r, <1>2 DEF Recurs
  <2> HIDE DEF More
  <2> QED
    BY <2>1
<1>4. h = [k \in 0 .. N |-> IF k = 0 THEN {} ELSE More(k, h[k - 1])]
  <2> DEFINE r == [k \in 0 .. N |-> IF k = 0 THEN {} ELSE More(k, h[k - 1])]
  <2>1. ASSUME NEW k \in 0 .. N PROVE h[k] = r[k]
    <3>1. CASE k = 0
      BY <1>2, <3>1 DEF Recurs
    <3>2. CASE k # 0
      <4>1. k \in 1 .. N
        BY <1>r, <3>2
      <4>2. h[k] = More(k, h[k - 1])
        <5> HIDE DEF More
        <5> QED
          BY <1>3, <4>1
      <4> HIDE DEF More
      <4> QED
        BY <3>2, <4>2
    <3> QED
      BY <3>1, <3>2
  <2>2. h = [k \in 0 .. N |-> h[k]] /\ r = [k \in 0 .. N |-> r[k]]
    BY <1>2 DEF Recurs
  <2> HIDE DEF r
  <2> QED
    BY <2>1, <2>2 DEF r
<1>5. kept = [k \in 0 .. N |-> IF k = 0 THEN {} ELSE More(k, kept[k - 1])]
  <2>1. \E x : x = [k \in 0 .. N |->
                IF k = 0 THEN {}
                ELSE x[k - 1] \cup {c \in S : rank[c] = k
                                             /\ \A d \in x[k - 1] : {c, d} \notin Twins}]
    BY <1>4
  <2> QED
    BY <2>1
<1>6. Distinct(S, rank) = kept[N]
  BY DEF Distinct
<1> HIDE DEF kept
<1>7. kept[0] = {} /\ \A k \in 1 .. N : kept[k] = More(k, kept[k - 1])
  <2>1. \A k \in 0 .. N : kept[k] = IF k = 0 THEN {} ELSE More(k, kept[k - 1])
    BY <1>5
  <2> HIDE DEF More
  <2> QED
    BY <1>r, <2>1
<1> DEFINE Apart(T) == T \subseteq S /\ \A c, d \in T : c # d => {c, d} \notin Twins
           P == {k \in 0 .. N : Apart(kept[k])}
<1>8. 0 \in P
  BY <1>r, <1>7
<1>9. ASSUME NEW k \in 1 .. N, k - 1 \in P PROVE k \in P
  <2> DEFINE T == kept[k - 1]
             new == {c \in S : rank[c] = k /\ \A d \in T : {c, d} \notin Twins}
  <2>1. Apart(T) /\ kept[k] = T \cup new
    BY <1>7, <1>9
  <2>2. \A c, d \in new : c = d
    BY <1>r
  <2>3. \A c, d : {c, d} = {d, c}
    OBVIOUS
  <2>4. \A c \in new, d \in T : {c, d} \notin Twins
    OBVIOUS
  <2>5. new \subseteq S
    OBVIOUS
  <2> HIDE DEF new, T
  <2>6. Apart(T \cup new)
    BY <2>1, <2>2, <2>3, <2>4, <2>5
  <2> QED
    BY <2>1, <2>6
<1> HIDE DEF P
<1>10. N \in P
  <2>1. \A k \in 1 .. N : k - 1 \in P => k \in P
    BY <1>9
  <2>2. \A k \in 0 .. N : k \in P
    BY <1>r, <1>8, <2>1, UpTo
  <2> QED
    BY <1>r, <2>2
<1> QED
  BY <1>6, <1>10 DEF P

Leads(d, T, rank) == \A e \in T : Parent[e] = Parent[d] => rank[d] <= rank[e]

\* One of the children of a parent is the best one.
LEMMA LeaderExists ==
    ASSUME NEW T \in SUBSET Chunks, NEW rank \in Orders, NEW c \in T
    PROVE  \E d \in T : Parent[d] = Parent[c] /\ Leads(d, T, rank)
<1> DEFINE Kin == {d \in T : Parent[d] = Parent[c]}
           R == {rank[d] : d \in Kin}
<1>1. \A d \in T : rank[d] \in Nat
  BY ChunksRanked
<1>2. R \in SUBSET Nat /\ R # {}
  BY <1>1
<1>3. PICK n \in R : \A m \in R : n <= m
  <2> HIDE DEF R
  <2> QED
    BY <1>2, LeastNumber
<1>4. PICK d \in Kin : n = rank[d]
  BY <1>3
<1> QED
  BY <1>3, <1>4 DEF Leads

\* The sum of a constant.
LEMMA SumOfConstant ==
    ASSUME NEW S, IsFiniteSet(S), NEW c \in Nat, NEW f, \A x \in S : f[x] = c
    PROVE  SumFunctionOnSet(f, S) = c * Cardinality(S)
<1> DEFINE Sum(T) == SumFunctionOnSet(f, T)
           P == {T \in SUBSET S : Sum(T) = c * Cardinality(T)}
<1>1. \A T \in SUBSET S : IsFiniteSet(T) /\ Cardinality(T) \in Nat /\ \A x \in T : f[x] \in Nat
  BY FS_Subset, FS_CardinalityType
<1>2. ASSUME NEW T \in SUBSET S, \A x \in T : T \ {x} \in P
      PROVE  T \in P
  <2>1. CASE T = {}
    <3>1. Sum(T) = 0 /\ Cardinality(T) = 0
      BY <2>1, SumOfNone, FS_EmptySet
    <3> HIDE DEF Sum
    <3> QED
      BY <3>1
  <2>2. CASE T # {}
    <3>1. PICK x \in T : TRUE
      BY <2>2
    <3>2. Sum(T) = f[x] + Sum(T \ {x}) /\ f[x] = c
      BY <1>1, SumOfMember
    <3>3. Cardinality(T \ {x}) = Cardinality(T) - 1 /\ Cardinality(T) \in Nat
      BY <1>1, FS_RemoveElement
    <3> HIDE DEF Sum
    <3>4. Sum(T \ {x}) = c * Cardinality(T \ {x})
      BY <1>2
    <3>5. c * (Cardinality(T) - 1) + c = c * Cardinality(T)
      BY <3>3
    <3> QED
      BY <3>2, <3>3, <3>4, <3>5
  <2> QED
    BY <2>1, <2>2
<1> HIDE DEF P
<1>3. P = SUBSET S
  <2>1. P \in SUBSET (SUBSET S)
    BY DEF P
  <2> QED
    BY <1>2, <2>1, SubsetInduction
<1> QED
  BY <1>3 DEF P

-----------------------------------------------------------------------------
(* Every query has locals, and each of them all its fields.                *)

Fields == {"stream", "strict", "conv", "hist", "rank", "ctx", "whole", "excl", "bare",
           "refused", "prompt", "recall", "answer", "made", "got", "todo", "sources",
           "only", "kept"}
IsLocals(l) == l = [f \in Fields |-> l[f]]

Shape ==
    /\ pc = [q \in Queries |-> pc[q]]
    /\ loc = [q \in Queries |-> loc[q]]
    /\ \A q \in Queries : IsLocals(loc[q])
    /\ log \in [Convs -> Seq(Turns)]

\* A step of q leaves the other queries alone.
Becomes(q, from, to, new) ==
    /\ pc[q] = from /\ pc'[q] = to /\ loc'[q] = new
    /\ UNCHANGED <<config, gone>>
    /\ \A p \in Queries \ {q} : pc'[p] = pc[p] /\ loc'[p] = loc[p]
    /\ pc' = [p \in Queries |-> pc'[p]] /\ loc' = [p \in Queries |-> loc'[p]]

LEMMA StepBecomes ==
    ASSUME Shape, NEW q \in Queries, NEW from, NEW to, NEW new, Step(q, from, to, new)
    PROVE  Becomes(q, from, to, new)
BY DEF Shape, Step, Becomes

LEMMA FreshIsLocals == IsLocals(Fresh)
<1>1. DOMAIN Fresh = Fields
  BY DEF Fresh, Fields
<1>2. Fresh = [f \in DOMAIN Fresh |-> Fresh[f]]
  BY DEF Fresh
<1> QED
  BY <1>1, <1>2 DEF IsLocals

-----------------------------------------------------------------------------
(* What a query's label promises of its locals.                            *)

Early == {"idle", "pre", "history", "retrieve", "screen", "expand", "build",
          "rejected", "failed"}
Late == {"emit", "returned", "closed"}

\* A refusal is final; before the prompt there is nothing to show or store.
Silent(p, l) ==
    /\ l.refused # "no" => p \in Late
    /\ l.refused # "no" \/ p \in Early => l.prompt = {} /\ l.sources = {} /\ l.kept = FALSE
    /\ p \in {"idle", "pre", "retrieve"} \/ (p = "history" /\ config.advanced) => l.excl = {}
    /\ l.ctx \cap l.excl = {} /\ l.prompt \subseteq l.ctx /\ l.sources \subseteq l.prompt

\* The client has what the model made when its turn is stored.
Sent(p, l) ==
    /\ p # "closed" \/ l.kept = TRUE => l.got = l.made
    /\ l.kept = TRUE => p \in Late
    /\ l.conv \in Convs \cup {None}
    /\ l.answer \in Answers \cup {None}

\* What a step of q does to its own locals, seen by the others: only an
\* unstored turn may change its conversation, and a stored one stays.
Told(l, m) == l.kept = TRUE => m.kept = TRUE /\ m.conv = l.conv /\ m.stream = l.stream

\* What it knows of the conversations comes from its own.
Learned(l, m) ==
    /\ \/ m.hist = <<>>
       \/ m.hist = l.hist /\ m.conv = l.conv
       \/ m.conv = l.conv /\ m.conv \in Convs /\ m.hist = log[m.conv]
    /\ \A t \in m.recall : m.conv = l.conv /\ (t \in l.recall \/ \E i \in DOMAIN l.hist : t = l.hist[i])

\* The step of a query, seen from outside; it stores a turn or does not.
Local(q) ==
    /\ Silent(pc'[q], loc'[q])
    /\ Sent(pc'[q], loc'[q])
    /\ IsLocals(loc'[q])
    /\ Told(loc[q], loc'[q])
    /\ Learned(loc[q], loc'[q])

LabelsTell == \A q \in Queries : Silent(pc[q], loc[q]) /\ Sent(pc[q], loc[q])

LEMMA SubmitLocal ==
    ASSUME Shape, LabelsTell, NEW q \in Queries, NEW stream, NEW strict,
           NEW c \in Convs \cup {None}, Submit(q, stream, strict, c)
    PROVE  Local(q)
<1> DEFINE m == [Fresh EXCEPT !.stream = stream, !.strict = strict, !.conv = c]
<1>1. PICK to \in {"pre", "rejected"} : Becomes(q, "idle", to, m)
  BY StepBecomes DEF Submit
<1>2. /\ IsLocals(m) /\ m.refused = "no" /\ m.prompt = {} /\ m.sources = {} /\ m.kept = FALSE
      /\ m.excl = {} /\ m.ctx = {} /\ m.got = m.made /\ m.conv = c /\ m.answer = None
      /\ m.hist = <<>> /\ m.recall = {}
  BY FreshIsLocals DEF IsLocals, Fields, Fresh
<1>3. pc[q] = "idle" /\ pc'[q] = to /\ loc'[q] = m
  BY <1>1 DEF Becomes
<1>4. loc[q].kept = FALSE
  BY <1>3 DEF LabelsTell, Silent, Early
<1> HIDE DEF m
<1> QED
  BY <1>2, <1>3, <1>4 DEF Local, Silent, Sent, Told, Learned, Late

LEMMA DeclineBecomes ==
    ASSUME Shape, NEW q \in Queries, NEW from, NEW l, IsLocals(l), Decline(q, from, l)
    PROVE  \E to, m :
              /\ to \in {"emit", "returned"}
              /\ Becomes(q, from, to, m) /\ IsLocals(m)
              /\ \A f \in Fields \ {"todo", "bare", "only"} : m[f] = l[f]
<1>1. CASE l.stream
  <2> DEFINE m == [l EXCEPT !.todo = <<"sources", "trace", "done">>]
  <2>1. Becomes(q, from, "emit", m)
    BY <1>1, StepBecomes DEF Decline
  <2>2. IsLocals(m) /\ \A f \in Fields \ {"todo", "bare", "only"} : m[f] = l[f]
    BY DEF IsLocals, Fields
  <2> QED
    BY <2>1, <2>2
<1>2. CASE ~l.stream
  <2> DEFINE m == IF config.advanced
                  THEN [l EXCEPT !.bare = @ /\ l.refused = "no"]
                  ELSE [l EXCEPT !.only = l.refused = "results"]
  <2>1. Becomes(q, from, "returned", m)
    BY <1>2, StepBecomes DEF Decline
  <2>2. IsLocals(m) /\ \A f \in Fields \ {"todo", "bare", "only"} : m[f] = l[f]
    BY DEF IsLocals, Fields
  <2> QED
    BY <2>1, <2>2
<1> QED
  BY <1>1, <1>2

\* Proceed ends the query or goes on to the prompt.
LEMMA ProceedBecomes ==
    ASSUME Shape, NEW q \in Queries, NEW from, NEW l, IsLocals(l), Proceed(q, from, l)
    PROVE  \E to, m :
              /\ Becomes(q, from, to, m) /\ IsLocals(m)
              /\ \A f \in Fields \ {"todo", "bare", "only"} : m[f] = l[f]
              /\ \/ to \in {"emit", "returned"}
                 \/ /\ l.refused = "no" /\ ~(l.bare /\ l.strict)
                    /\ to = IF config.advanced THEN "build" ELSE "history"
<1>1. CASE l.refused # "no" \/ (l.bare /\ l.strict)
  BY <1>1, DeclineBecomes DEF Proceed
<1>2. CASE ~(l.refused # "no" \/ (l.bare /\ l.strict))
  BY <1>2, StepBecomes DEF Proceed
<1> QED
  BY <1>1, <1>2

\* A step that keeps what the invariants speak of, but for the pipeline's own
\* notes, and does not go back to an early label.
LEMMA QuietStep ==
    ASSUME Shape, LabelsTell, NEW q \in Queries, NEW from, NEW to, NEW m,
           Becomes(q, from, to, m), IsLocals(m),
           \A f \in {"conv", "hist", "recall", "refused", "prompt", "sources", "kept",
                     "excl", "ctx", "got", "made", "answer", "stream"} : m[f] = loc[q][f],
           m.refused # "no" \/ m.kept = TRUE => to \in Late,
           to \in Early => from \in Early,
           to \in {"idle", "pre", "retrieve"} \/ (to = "history" /\ config.advanced) =>
             from \in {"idle", "pre", "retrieve"} \/ (from = "history" /\ config.advanced),
           from # "closed"
    PROVE  Local(q)
<1>1. Silent(from, loc[q]) /\ Sent(from, loc[q]) /\ pc'[q] = to /\ loc'[q] = m
  BY DEF LabelsTell, Becomes
<1>2. Silent(to, m)
  BY <1>1 DEF Silent
<1>3. Sent(to, m)
  BY <1>1 DEF Sent
<1>4. Told(loc[q], m) /\ Learned(loc[q], m)
  BY DEF Told, Learned
<1> QED
  BY <1>1, <1>2, <1>3, <1>4 DEF Local

LEMMA PreQueryLocal ==
    ASSUME Shape, LabelsTell, NEW q \in Queries, PreQuery(q)
    PROVE  Local(q)
<1>1. CASE Decline(q, "pre", [loc[q] EXCEPT !.refused = "query"])
  <2> DEFINE l == [loc[q] EXCEPT !.refused = "query"]
  <2>1. IsLocals(l) /\ l.refused = "query" /\ \A f \in Fields \ {"refused"} : l[f] = loc[q][f]
    BY DEF Shape, IsLocals, Fields
  <2> HIDE DEF l
  <2>2. Decline(q, "pre", l)
    BY <1>1 DEF l
  <2>3. PICK to, m :
           /\ to \in {"emit", "returned"}
           /\ Becomes(q, "pre", to, m) /\ IsLocals(m)
           /\ \A f \in Fields \ {"todo", "bare", "only"} : m[f] = l[f]
    BY <2>1, <2>2, DeclineBecomes
  <2>4. pc[q] = "pre" /\ pc'[q] = to /\ loc'[q] = m
    BY <2>3 DEF Becomes
  <2>5. /\ m.refused = "query"
        /\ \A f \in {"conv", "hist", "recall", "prompt", "sources", "kept",
                     "excl", "ctx", "got", "made", "answer", "stream"} : m[f] = loc[q][f]
    BY <2>1, <2>3 DEF Fields
  <2>6. Silent("pre", loc[q]) /\ Sent("pre", loc[q])
    BY <2>4 DEF LabelsTell
  <2> QED
    BY <2>3, <2>4, <2>5, <2>6 DEF Local, Silent, Sent, Told, Learned, Early, Late
<1>2. CASE Step(q, "pre", IF config.advanced THEN "history" ELSE "retrieve", loc[q])
  <2>1. Becomes(q, "pre", IF config.advanced THEN "history" ELSE "retrieve", loc[q])
    BY <1>2, StepBecomes
  <2>2. loc[q].kept = FALSE /\ loc[q].refused = "no"
    BY <2>1 DEF Becomes, LabelsTell, Silent, Early, Late
  <2> QED
    BY <2>1, <2>2, QuietStep DEF Shape, Early
<1> QED
  BY <1>1, <1>2 DEF PreQuery

LEMMA ReadHistoryLocal ==
    ASSUME Shape, LabelsTell, NEW q \in Queries, ReadHistory(q)
    PROVE  Local(q)
<1> DEFINE h == IF loc[q].conv = None THEN <<>> ELSE log[loc[q].conv]
           m == [loc[q] EXCEPT !.hist = h]
           to == IF config.advanced THEN "retrieve" ELSE "build"
<1>1. Becomes(q, "history", to, m)
  BY StepBecomes DEF ReadHistory
<1>2. IsLocals(m) /\ m.hist = h /\ \A f \in Fields \ {"hist"} : m[f] = loc[q][f]
  BY DEF Shape, IsLocals, Fields
<1>3. pc[q] = "history" /\ pc'[q] = to /\ loc'[q] = m
  BY <1>1 DEF Becomes
<1>4. Silent("history", loc[q]) /\ Sent("history", loc[q])
  BY <1>3 DEF LabelsTell
<1> HIDE DEF m
<1>5. Learned(loc[q], m)
  BY <1>2, <1>4 DEF Learned, Fields, Sent
<1> QED
  BY <1>2, <1>3, <1>4, <1>5 DEF Local, Silent, Sent, Told, Early, Late, Fields

LEMMA RaiseLocal ==
    ASSUME Shape, LabelsTell, NEW q \in Queries, Raise(q)
    PROVE  Local(q)
<1>1. PICK from \in {"history", "retrieve"} : Becomes(q, from, "failed", loc[q])
  BY StepBecomes DEF Raise
<1>2. loc[q].kept = FALSE /\ loc[q].refused = "no"
  BY <1>1 DEF Becomes, LabelsTell, Silent, Early, Late
<1> QED
  BY <1>1, <1>2, QuietStep DEF Shape, Early

LEMMA RetrieveLocal ==
    ASSUME Shape, LabelsTell, NEW q \in Queries, Retrieve(q)
    PROVE  Local(q)
<1>1. PICK rank, S, b :
        LET l == [loc[q] EXCEPT !.rank = rank, !.ctx = S, !.bare = b] IN
        Step(q, "retrieve", "screen", l) \/ Proceed(q, "retrieve", l)
  BY DEF Retrieve
<1> DEFINE l == [loc[q] EXCEPT !.rank = rank, !.ctx = S, !.bare = b]
<1>2. /\ IsLocals(l) /\ l.ctx = S
      /\ \A f \in Fields \ {"rank", "ctx", "bare"} : l[f] = loc[q][f]
  BY DEF Shape, IsLocals, Fields
<1> HIDE DEF l
<1>3. Step(q, "retrieve", "screen", l) \/ Proceed(q, "retrieve", l)
  BY <1>1 DEF l
<1>4. \E to, m : /\ Becomes(q, "retrieve", to, m) /\ IsLocals(m)
                 /\ \A f \in Fields \ {"todo", "bare", "only"} : m[f] = l[f]
                 /\ to \in {"screen", "emit", "returned", "build", "history"}
                 /\ to = "history" => ~config.advanced
  BY <1>2, <1>3, StepBecomes, ProceedBecomes
<1>5. PICK to, m : /\ Becomes(q, "retrieve", to, m) /\ IsLocals(m)
                   /\ \A f \in Fields \ {"todo", "bare", "only"} : m[f] = l[f]
                   /\ to \in {"screen", "emit", "returned", "build", "history"}
                   /\ to = "history" => ~config.advanced
  BY <1>4
<1>6. /\ m.ctx = S
      /\ \A f \in {"conv", "hist", "recall", "refused", "prompt", "sources", "kept",
                   "excl", "got", "made", "answer", "stream"} : m[f] = loc[q][f]
  BY <1>2, <1>5 DEF Fields
<1>7. pc[q] = "retrieve" /\ pc'[q] = to /\ loc'[q] = m
  BY <1>5 DEF Becomes
<1>8. Silent("retrieve", loc[q]) /\ Sent("retrieve", loc[q])
  BY <1>7 DEF LabelsTell
<1> QED
  BY <1>5, <1>6, <1>7, <1>8 DEF Local, Silent, Sent, Told, Learned, Early, Late

\* Screened goes on with what it was given, or ends the query.
LEMMA ScreenedBecomes ==
    ASSUME Shape, NEW q \in Queries, NEW l, IsLocals(l), Screened(q, l)
    PROVE  \E to, m :
              /\ Becomes(q, "screen", to, m) /\ IsLocals(m)
              /\ \A f \in Fields \ {"todo", "bare", "only"} : m[f] = l[f]
              /\ \/ to \in {"emit", "returned"}
                 \/ to = "expand" /\ l.ctx # {}
                 \/ /\ l.refused = "no" /\ (l.strict => l.ctx # {})
                    /\ to = IF config.advanced THEN "build" ELSE "history"
<1> DEFINE r == [l EXCEPT !.bare = @ \/ l.ctx = {}]
<1>1. IsLocals(r) /\ r.bare = (l.bare \/ l.ctx = {}) /\ \A f \in Fields \ {"bare"} : r[f] = l[f]
  BY DEF IsLocals, Fields
<1> HIDE DEF r
<1>2. (Step(q, "screen", "expand", r) /\ r.ctx # {}) \/ Proceed(q, "screen", r)
  BY DEF Screened, r
<1>3. CASE Step(q, "screen", "expand", r) /\ r.ctx # {}
  BY <1>1, <1>3, StepBecomes DEF Fields
<1>4. CASE Proceed(q, "screen", r)
  <2>1. PICK to, m :
           /\ Becomes(q, "screen", to, m) /\ IsLocals(m)
           /\ \A f \in Fields \ {"todo", "bare", "only"} : m[f] = r[f]
           /\ \/ to \in {"emit", "returned"}
              \/ /\ r.refused = "no" /\ ~(r.bare /\ r.strict)
                 /\ to = IF config.advanced THEN "build" ELSE "history"
    BY <1>1, <1>4, ProceedBecomes
  <2>2. /\ \A f \in Fields \ {"todo", "bare", "only"} : m[f] = l[f]
        /\ r.refused = l.refused /\ r.strict = l.strict
        /\ ~(r.bare /\ r.strict) => (l.strict => l.ctx # {})
    BY <1>1, <2>1 DEF Fields
  <2> QED
    BY <2>1, <2>2
<1> QED
  BY <1>2, <1>3, <1>4

LEMMA PostRetrievalLocal ==
    ASSUME Shape, LabelsTell, NEW q \in Queries, PostRetrieval(q)
    PROVE  Local(q)
<1>1. CASE Screened(q, [loc[q] EXCEPT !.ctx = {}, !.refused = "results"])
  <2> DEFINE l == [loc[q] EXCEPT !.ctx = {}, !.refused = "results"]
  <2>1. /\ IsLocals(l) /\ l.refused = "results" /\ l.ctx = {}
        /\ \A f \in Fields \ {"refused", "ctx"} : l[f] = loc[q][f]
    BY DEF Shape, IsLocals, Fields
  <2> HIDE DEF l
  <2>2. Screened(q, l)
    BY <1>1 DEF l
  <2>3. PICK to, m :
           /\ to \in {"emit", "returned"}
           /\ Becomes(q, "screen", to, m) /\ IsLocals(m)
           /\ \A f \in Fields \ {"todo", "bare", "only"} : m[f] = l[f]
    BY <2>1, <2>2, ScreenedBecomes
  <2>4. pc[q] = "screen" /\ pc'[q] = to /\ loc'[q] = m
    BY <2>3 DEF Becomes
  <2>5. /\ m.refused = "results" /\ m.ctx = {}
        /\ \A f \in {"conv", "hist", "recall", "prompt", "sources", "kept",
                     "excl", "got", "made", "answer", "stream"} : m[f] = loc[q][f]
    BY <2>1, <2>3 DEF Fields
  <2>6. Silent("screen", loc[q]) /\ Sent("screen", loc[q])
    BY <2>4 DEF LabelsTell
  <2> QED
    BY <2>3, <2>4, <2>5, <2>6 DEF Local, Silent, Sent, Told, Learned, Early, Late
<1>2. ASSUME NEW out \in SUBSET loc[q].ctx,
             Screened(q, [loc[q] EXCEPT !.ctx = @ \ out, !.excl = out])
      PROVE  Local(q)
  <2> DEFINE l == [loc[q] EXCEPT !.ctx = @ \ out, !.excl = out]
  <2>1. /\ IsLocals(l) /\ l.ctx = loc[q].ctx \ out /\ l.excl = out
        /\ \A f \in Fields \ {"excl", "ctx"} : l[f] = loc[q][f]
    BY DEF Shape, IsLocals, Fields
  <2> HIDE DEF l
  <2>2. Screened(q, l)
    BY <1>2 DEF l
  <2>3. PICK to, m :
           /\ Becomes(q, "screen", to, m) /\ IsLocals(m)
           /\ \A f \in Fields \ {"todo", "bare", "only"} : m[f] = l[f]
           /\ \/ to \in {"emit", "returned"}
              \/ to = "expand" /\ l.ctx # {}
              \/ l.refused = "no" /\ to = IF config.advanced THEN "build" ELSE "history"
    BY <2>1, <2>2, ScreenedBecomes
  <2>4. pc[q] = "screen" /\ pc'[q] = to /\ loc'[q] = m
    BY <2>3 DEF Becomes
  <2>5. /\ m.ctx \cap m.excl = {}
        /\ \A f \in {"conv", "hist", "recall", "prompt", "sources", "kept", "refused",
                     "got", "made", "answer", "stream"} : m[f] = loc[q][f]
    BY <2>1, <2>3 DEF Fields
  <2>6. Silent("screen", loc[q]) /\ Sent("screen", loc[q])
    BY <2>4 DEF LabelsTell
  <2> QED
    BY <2>3, <2>4, <2>5, <2>6 DEF Local, Silent, Sent, Told, Learned, Early, Late
<1> QED
  BY <1>1, <1>2 DEF PostRetrieval

LEMMA ExpandParentsLocal ==
    ASSUME Shape, LabelsTell, NEW q \in Queries, ExpandParents(q)
    PROVE  Local(q)
<1>1. PICK found, best :
        Proceed(q, "expand",
                [loc[q] EXCEPT !.ctx = {c \in @ : Parent[c] \in found => c \in best},
                               !.whole = best])
  BY DEF ExpandParents
<1> DEFINE l == [loc[q] EXCEPT !.ctx = {c \in @ : Parent[c] \in found => c \in best},
                               !.whole = best]
<1>2. /\ IsLocals(l) /\ l.ctx \subseteq loc[q].ctx
      /\ \A f \in Fields \ {"ctx", "whole"} : l[f] = loc[q][f]
  BY DEF Shape, IsLocals, Fields
<1> HIDE DEF l
<1>3. Proceed(q, "expand", l)
  BY <1>1 DEF l
<1>4. PICK to, m :
         /\ Becomes(q, "expand", to, m) /\ IsLocals(m)
         /\ \A f \in Fields \ {"todo", "bare", "only"} : m[f] = l[f]
         /\ \/ to \in {"emit", "returned"}
            \/ l.refused = "no" /\ to = IF config.advanced THEN "build" ELSE "history"
  BY <1>2, <1>3, ProceedBecomes
<1>5. pc[q] = "expand" /\ pc'[q] = to /\ loc'[q] = m
  BY <1>4 DEF Becomes
<1>6. /\ m.ctx \subseteq loc[q].ctx
      /\ \A f \in {"conv", "hist", "recall", "refused", "prompt", "sources", "kept",
                   "excl", "got", "made", "answer", "stream"} : m[f] = loc[q][f]
  BY <1>2, <1>4 DEF Fields
<1>7. Silent("expand", loc[q]) /\ Sent("expand", loc[q])
  BY <1>5 DEF LabelsTell
<1> QED
  BY <1>4, <1>5, <1>6, <1>7 DEF Local, Silent, Sent, Told, Learned, Early, Late

LEMMA BuildPromptLocal ==
    ASSUME Shape, LabelsTell, NEW q \in Queries, BuildPrompt(q)
    PROVE  Local(q)
<1> DEFINE old == loc[q]
           age == [i \in DOMAIN old.hist |-> Len(old.hist) + 1 - i]
           turns == Admitted(DOMAIN old.hist, age, Len(old.hist),
                             [i \in DOMAIN old.hist |-> TurnCost],
                             HistoryBudget(config.window, Fixed, Ratio))
           chosen == Admitted(old.ctx, old.rank, N, Tokens(old),
                              ChunkBudget(config.window, Fixed, Ratio))
           told == {old.hist[i] : i \in turns} \cap {t \in Turns : t.answer \in {"text", "clean"}}
           m == [old EXCEPT !.prompt = chosen, !.recall = told]
           to == IF old.stream THEN "stream" ELSE "ask"
<1>1. Step(q, "build", to, m)
  BY DEF BuildPrompt
<1>2. chosen \subseteq old.ctx /\ turns \subseteq DOMAIN old.hist
  BY DEF Admitted
<1>3. \A t \in told : \E i \in DOMAIN old.hist : t = old.hist[i]
  BY <1>2
<1> HIDE DEF chosen, told
<1>4. /\ IsLocals(m) /\ m.prompt = chosen /\ m.recall = told
      /\ \A f \in Fields \ {"prompt", "recall"} : m[f] = old[f]
  BY DEF Shape, IsLocals, Fields
<1> HIDE DEF m
<1>5. pc[q] = "build" /\ pc'[q] = to /\ loc'[q] = m
  BY <1>1, StepBecomes DEF Becomes
<1>6. Silent("build", old) /\ Sent("build", old)
  BY <1>5 DEF LabelsTell
<1>7. Learned(old, m)
  BY <1>3, <1>4 DEF Learned, Fields
<1> QED
  BY <1>2, <1>4, <1>5, <1>6, <1>7 DEF Local, Silent, Sent, Told, Early, Late, Fields

\* The steps between prompt and answer.
LEMMA AnswerStep ==
    ASSUME Shape, LabelsTell, NEW q \in Queries,
           NEW from \in {"ask", "fallback", "stream", "check"},
           NEW to \in {"fallback", "check", "save"}, NEW a \in Answers \cup {None},
           Step(q, from, to, [loc[q] EXCEPT !.answer = a])
    PROVE  Local(q)
<1> DEFINE m == [loc[q] EXCEPT !.answer = a]
<1>1. Becomes(q, from, to, m)
  BY StepBecomes
<1>2. IsLocals(m) /\ m.answer = a /\ \A f \in Fields \ {"answer"} : m[f] = loc[q][f]
  BY DEF Shape, IsLocals, Fields
<1> HIDE DEF m
<1>3. pc[q] = from /\ pc'[q] = to /\ loc'[q] = m
  BY <1>1 DEF Becomes
<1>4. Silent(from, loc[q]) /\ Sent(from, loc[q])
  BY <1>3 DEF LabelsTell
<1> QED
  BY <1>2, <1>3, <1>4 DEF Local, Silent, Sent, Told, Learned, Early, Late, Fields

LEMMA ModelLocal ==
    ASSUME Shape, LabelsTell, NEW q \in Queries,
           Ask(q) \/ AskFallback(q) \/ StreamEnd(q) \/ StreamFail(q) \/ PreResponse(q)
    PROVE  Local(q)
<1>1. CASE \E a \in {"text", "empty"} : Step(q, "ask", "check", [loc[q] EXCEPT !.answer = a])
  BY <1>1, AnswerStep DEF Answers
<1>2. CASE Step(q, "ask", IF config.fallback THEN "fallback" ELSE "check", loc[q])
  <2> DEFINE to == IF config.fallback THEN "fallback" ELSE "check"
  <2>1. Becomes(q, "ask", to, loc[q])
    BY <1>2, StepBecomes
  <2>2. loc[q].kept # TRUE /\ loc[q].refused = "no"
    BY <2>1 DEF Becomes, LabelsTell, Silent, Sent, Late
  <2> QED
    BY <2>1, <2>2, QuietStep DEF Shape, Early
<1>3. CASE AskFallback(q)
  BY <1>3, AnswerStep DEF AskFallback, Answers
<1>4. CASE StreamEnd(q)
  BY <1>4, AnswerStep DEF StreamEnd, Answers
<1>5. CASE StreamFail(q)
  <2> DEFINE m == [loc[q] EXCEPT !.todo = <<"error", "trace", "done">>]
  <2>1. Becomes(q, "stream", "emit", m)
    BY <1>5, StepBecomes DEF StreamFail
  <2>2. IsLocals(m) /\ \A f \in Fields \ {"todo"} : m[f] = loc[q][f]
    BY DEF Shape, IsLocals, Fields
  <2> HIDE DEF m
  <2> QED
    BY <2>1, <2>2, QuietStep DEF Early, Late, Fields
<1>6. CASE PreResponse(q)
  <2>1. PICK a \in {loc[q].answer, None, "clean"} :
           Step(q, "check", "save", [loc[q] EXCEPT !.answer = a])
    BY <1>6 DEF PreResponse
  <2>2. a \in Answers \cup {None}
    BY <2>1 DEF Answers, LabelsTell, Sent
  <2> QED
    BY <2>1, <2>2, AnswerStep
<1> QED
  BY <1>1, <1>2, <1>3, <1>4, <1>5, <1>6 DEF Ask

LEMMA TokenLocal ==
    ASSUME Shape, LabelsTell, NEW q \in Queries, Token(q)
    PROVE  Local(q)
<1>1. CASE q \in gone
  <2> DEFINE m == [loc[q] EXCEPT !.made = @ + 1]
  <2>1. Becomes(q, "stream", "closed", m)
    BY <1>1, StepBecomes DEF Token
  <2>2. IsLocals(m) /\ \A f \in Fields \ {"made"} : m[f] = loc[q][f]
    BY DEF Shape, IsLocals, Fields
  <2> HIDE DEF m
  <2>3. pc[q] = "stream" /\ pc'[q] = "closed" /\ loc'[q] = m
    BY <2>1 DEF Becomes
  <2>4. Silent("stream", loc[q]) /\ Sent("stream", loc[q])
    BY <2>3 DEF LabelsTell
  <2> QED
    BY <2>2, <2>3, <2>4 DEF Local, Silent, Sent, Told, Learned, Early, Late, Fields
<1>2. CASE q \notin gone
  <2> DEFINE m == [loc[q] EXCEPT !.made = @ + 1, !.got = @ + 1]
  <2>1. Becomes(q, "stream", "stream", m)
    BY <1>2, StepBecomes DEF Token
  <2>2. /\ IsLocals(m) /\ m.made = loc[q].made + 1 /\ m.got = loc[q].got + 1
        /\ \A f \in Fields \ {"made", "got"} : m[f] = loc[q][f]
    BY DEF Shape, IsLocals, Fields
  <2> HIDE DEF m
  <2>3. pc[q] = "stream" /\ pc'[q] = "stream" /\ loc'[q] = m
    BY <2>1 DEF Becomes
  <2>4. Silent("stream", loc[q]) /\ Sent("stream", loc[q])
    BY <2>3 DEF LabelsTell
  <2>5. m.got = m.made
    BY <2>2, <2>4 DEF Sent
  <2> QED
    BY <2>2, <2>3, <2>4, <2>5 DEF Local, Silent, Sent, Told, Learned, Early, Late, Fields
<1> QED
  BY <1>1, <1>2

\* An answer is delivered with the prompt as its sources, or left to Emit.
LEMMA DeliverBecomes ==
    ASSUME Shape, NEW q \in Queries, NEW l, IsLocals(l), Deliver(q, l)
    PROVE  \E to, m :
              /\ to \in {"emit", "returned"}
              /\ Becomes(q, "save", to, m) /\ IsLocals(m)
              /\ \A f \in Fields \ {"todo", "sources", "only"} : m[f] = l[f]
              /\ m.sources \in {l.sources, l.prompt}
<1>1. CASE l.stream
  <2> DEFINE m == [l EXCEPT !.todo = <<"sources", "trace", "done">>]
  <2>1. Becomes(q, "save", "emit", m)
    BY <1>1, StepBecomes DEF Deliver
  <2>2. IsLocals(m) /\ \A f \in Fields \ {"todo"} : m[f] = l[f]
    BY DEF IsLocals, Fields
  <2> HIDE DEF m
  <2>3. m.sources = l.sources
    BY <2>2 DEF Fields
  <2> QED
    BY <2>1, <2>2, <2>3
<1>2. CASE ~l.stream
  <2> DEFINE m == [l EXCEPT !.sources = l.prompt, !.only = l.answer = None /\ ~l.bare]
  <2>1. Becomes(q, "save", "returned", m)
    BY <1>2, StepBecomes DEF Deliver
  <2>2. /\ IsLocals(m) /\ m.sources = l.prompt
        /\ \A f \in Fields \ {"todo", "sources", "only"} : m[f] = l[f]
    BY DEF IsLocals, Fields
  <2> HIDE DEF m
  <2> QED
    BY <2>1, <2>2
<1> QED
  BY <1>1, <1>2

\* The turn that SaveTurn stores, if it does.
Stores(q) ==
    /\ loc[q].kept # TRUE /\ loc'[q].kept = TRUE
    /\ loc[q].conv \in Convs /\ loc'[q].conv = loc[q].conv
    /\ loc[q].answer \in Answers \cup {None}
    /\ loc'[q].stream => loc[q].answer \in {"text", "clean"}
    /\ Log!AddTurn(loc[q].conv, [query |-> q, answer |-> loc[q].answer])

LEMMA SaveTurnLocal ==
    ASSUME Shape, LabelsTell, NEW q \in Queries, SaveTurn(q)
    PROVE  Local(q) /\ (UNCHANGED log \/ Stores(q))
<1>1. CASE /\ Keeps(loc[q])
           /\ Deliver(q, [loc[q] EXCEPT !.kept = TRUE])
           /\ Log!AddTurn(loc[q].conv, [query |-> q, answer |-> loc[q].answer])
  <2> DEFINE l == [loc[q] EXCEPT !.kept = TRUE]
  <2>1. IsLocals(l) /\ l.kept = TRUE /\ \A f \in Fields \ {"kept"} : l[f] = loc[q][f]
    BY DEF Shape, IsLocals, Fields
  <2> HIDE DEF l
  <2>2. Deliver(q, l)
    BY <1>1 DEF l
  <2>3. PICK to, m :
              /\ to \in {"emit", "returned"}
              /\ Becomes(q, "save", to, m) /\ IsLocals(m)
              /\ \A f \in Fields \ {"todo", "sources", "only"} : m[f] = l[f]
              /\ m.sources \in {l.sources, l.prompt}
    BY <2>1, <2>2, DeliverBecomes
  <2>4. pc[q] = "save" /\ pc'[q] = to /\ loc'[q] = m
    BY <2>3 DEF Becomes
  <2>5. /\ m.kept = TRUE /\ m.sources \in {loc[q].sources, loc[q].prompt}
        /\ \A f \in {"conv", "hist", "recall", "prompt", "refused",
                     "excl", "ctx", "got", "made", "answer", "stream"} : m[f] = loc[q][f]
    BY <2>1, <2>3 DEF Fields
  <2>6. Silent("save", loc[q]) /\ Sent("save", loc[q])
    BY <2>4 DEF LabelsTell
  <2>7. Local(q)
    BY <2>3, <2>4, <2>5, <2>6 DEF Local, Silent, Sent, Told, Learned, Early, Late
  <2>8. Stores(q)
    BY <1>1, <2>4, <2>5, <2>6 DEF Stores, Keeps, Sent, Late
  <2> QED
    BY <2>7, <2>8
<1>2. CASE Deliver(q, loc[q]) /\ UNCHANGED log
  <2>1. PICK to, m :
              /\ to \in {"emit", "returned"}
              /\ Becomes(q, "save", to, m) /\ IsLocals(m)
              /\ \A f \in Fields \ {"todo", "sources", "only"} : m[f] = loc[q][f]
              /\ m.sources \in {loc[q].sources, loc[q].prompt}
    BY <1>2, DeliverBecomes DEF Shape
  <2>2. pc[q] = "save" /\ pc'[q] = to /\ loc'[q] = m
    BY <2>1 DEF Becomes
  <2>3. \A f \in {"conv", "hist", "recall", "prompt", "refused", "kept",
                  "excl", "ctx", "got", "made", "answer", "stream"} : m[f] = loc[q][f]
    BY <2>1 DEF Fields
  <2>4. Silent("save", loc[q]) /\ Sent("save", loc[q])
    BY <2>2 DEF LabelsTell
  <2> QED
    BY <1>2, <2>1, <2>2, <2>3, <2>4 DEF Local, Silent, Sent, Told, Learned, Early, Late
<1> QED
  BY <1>1, <1>2 DEF SaveTurn

LEMMA EmitLocal ==
    ASSUME Shape, LabelsTell, NEW q \in Queries, Emit(q)
    PROVE  Local(q)
<1>1. CASE q \in gone
  <2>1. Becomes(q, "emit", "closed", loc[q])
    BY <1>1, StepBecomes DEF Emit
  <2> QED
    BY <2>1, QuietStep DEF Shape, Early, Late
<1>2. CASE q \notin gone
  <2> DEFINE x == IF Head(loc[q].todo) = "sources" THEN loc[q].prompt ELSE loc[q].sources
             m == [loc[q] EXCEPT !.todo = Tail(@), !.sources = x]
             to == IF Len(loc[q].todo) = 1 THEN "returned" ELSE "emit"
  <2>1. Becomes(q, "emit", to, m)
    BY <1>2, StepBecomes DEF Emit
  <2>2. IsLocals(m) /\ m.sources = x /\ \A f \in Fields \ {"todo", "sources"} : m[f] = loc[q][f]
    BY DEF Shape, IsLocals, Fields
  <2> HIDE DEF m
  <2>3. pc[q] = "emit" /\ pc'[q] = to /\ loc'[q] = m
    BY <2>1 DEF Becomes
  <2>4. Silent("emit", loc[q]) /\ Sent("emit", loc[q])
    BY <2>3 DEF LabelsTell
  <2> QED
    BY <2>2, <2>3, <2>4 DEF Local, Silent, Sent, Told, Learned, Early, Late, Fields
<1> QED
  BY <1>1, <1>2

LEMMA LeaveLocal ==
    ASSUME Shape, LabelsTell, NEW q \in Queries, Disconnect(q) \/ Cancel(q)
    PROVE  Local(q)
<1>1. CASE Disconnect(q)
  BY <1>1 DEF Disconnect, Local, LabelsTell, Shape, Told, Learned
<1>2. CASE Cancel(q)
  <2>1. PICK from \in Places \ {"idle"} : Becomes(q, from, "closed", loc[q])
    BY <1>2, StepBecomes DEF Cancel
  <2>2. from # "closed"
    BY DEF Places
  <2> QED
    BY <2>1, <2>2, QuietStep DEF Shape, Early, Late
<1> QED
  BY <1>1, <1>2

-----------------------------------------------------------------------------
(* Any step of a query.                                                    *)

Action(q) ==
    \/ \E stream, strict \in BOOLEAN, c \in Convs \cup {None} : Submit(q, stream, strict, c)
    \/ Run(q) \/ Receive(q) \/ Disconnect(q) \/ Cancel(q)

Alone(q) ==
    /\ UNCHANGED config
    /\ \A p \in Queries \ {q} : pc'[p] = pc[p] /\ loc'[p] = loc[p]
    /\ pc' = [p \in Queries |-> pc'[p]] /\ loc' = [p \in Queries |-> loc'[p]]

LEMMA ActionAlone ==
    ASSUME Shape, NEW q \in Queries, Action(q)
    PROVE  Alone(q)
<1>1. ASSUME NEW from, NEW to, NEW new, Step(q, from, to, new) PROVE Alone(q)
  BY <1>1 DEF Shape, Step, Alone
<1>2. ASSUME NEW from, NEW l, Proceed(q, from, l) PROVE Alone(q)
  BY <1>1, <1>2 DEF Proceed, Decline
<1>3. ASSUME NEW l, Screened(q, l) PROVE Alone(q)
  BY <1>1, <1>2, <1>3 DEF Screened
<1>4. ASSUME NEW stream, NEW strict, NEW c, Submit(q, stream, strict, c) PROVE Alone(q)
  BY <1>1, <1>4 DEF Submit
<1>5. CASE PreQuery(q) \/ ReadHistory(q) \/ Raise(q) \/ Ask(q) \/ AskFallback(q)
           \/ StreamEnd(q) \/ StreamFail(q) \/ PreResponse(q)
  BY <1>1, <1>5 DEF PreQuery, Decline, ReadHistory, Raise, Ask, AskFallback, StreamEnd,
                    StreamFail, PreResponse
<1>6. CASE Retrieve(q)
  BY <1>1, <1>2, <1>6 DEF Retrieve
<1>7. CASE PostRetrieval(q)
  BY <1>3, <1>7 DEF PostRetrieval
<1>8. CASE ExpandParents(q)
  BY <1>2, <1>8 DEF ExpandParents
<1>9. CASE BuildPrompt(q) \/ Token(q) \/ Emit(q) \/ Cancel(q)
  BY <1>1, <1>9 DEF BuildPrompt, Token, Emit, Cancel
<1>10. CASE SaveTurn(q)
  BY <1>1, <1>10 DEF SaveTurn, Deliver
<1>11. CASE Disconnect(q)
  BY <1>11 DEF Disconnect, Shape, Alone
<1> QED
  BY <1>4, <1>5, <1>6, <1>7, <1>8, <1>9, <1>10, <1>11 DEF Action, Run, Receive

LEMMA ActionLocal ==
    ASSUME Shape, LabelsTell, NEW q \in Queries, Action(q)
    PROVE  Local(q) /\ (UNCHANGED log \/ Stores(q))
<1>1. CASE SaveTurn(q)
  BY <1>1, SaveTurnLocal
<1>2. CASE \E stream, strict \in BOOLEAN, c \in Convs \cup {None} : Submit(q, stream, strict, c)
  <2>1. PICK stream \in BOOLEAN, strict \in BOOLEAN, c \in Convs \cup {None} :
           Submit(q, stream, strict, c)
    BY <1>2
  <2>2. Local(q)
    BY <2>1, SubmitLocal
  <2> QED
    BY <2>1, <2>2 DEF Submit
<1>3. CASE PreQuery(q) \/ ReadHistory(q) \/ Raise(q) \/ Retrieve(q) \/ PostRetrieval(q)
  BY <1>3, PreQueryLocal, ReadHistoryLocal, RaiseLocal, RetrieveLocal, PostRetrievalLocal
     DEF PreQuery, ReadHistory, Raise, Retrieve, PostRetrieval
<1>4. CASE ExpandParents(q) \/ BuildPrompt(q)
  BY <1>4, ExpandParentsLocal, BuildPromptLocal DEF ExpandParents, BuildPrompt
<1>5. CASE Ask(q) \/ AskFallback(q) \/ StreamEnd(q) \/ StreamFail(q) \/ PreResponse(q)
  BY <1>5, ModelLocal DEF Ask, AskFallback, StreamEnd, StreamFail, PreResponse
<1>6. CASE Token(q) \/ Emit(q) \/ Disconnect(q) \/ Cancel(q)
  BY <1>6, TokenLocal, EmitLocal, LeaveLocal DEF Token, Emit, Disconnect, Cancel
<1> QED
  BY <1>1, <1>2, <1>3, <1>4, <1>5, <1>6 DEF Action, Run, Receive

-----------------------------------------------------------------------------
(* The conversations, and what queries remember of them.                   *)

Recorded(all, t, c) == /\ t \in Turns /\ all[t.query].kept = TRUE /\ all[t.query].conv = c

LogTells ==
    \A c \in Convs : \A i \in DOMAIN log[c] :
      /\ Recorded(loc, log[c][i], c)
      /\ loc[log[c][i].query].stream => log[c][i].answer \in {"text", "clean"}
      /\ \A j \in DOMAIN log[c] : log[c][j].query = log[c][i].query => j = i

HistoryTells ==
    \A q \in Queries :
      /\ \A i \in DOMAIN loc[q].hist : Recorded(loc, loc[q].hist[i], loc[q].conv)
      /\ \A t \in loc[q].recall : Recorded(loc, t, loc[q].conv)

IInv == Shape /\ LabelsTell /\ LogTells /\ HistoryTells

\* Recent drops turns at the front.
LEMMA RecentIsTail ==
    ASSUME NEW s \in Seq(Turns)
    PROVE  /\ Log!Recent(s) \in Seq(Turns)
           /\ \E off \in Nat : \A i \in DOMAIN Log!Recent(s) :
                 i + off \in DOMAIN s /\ Log!Recent(s)[i] = s[i + off]
<1>1. MaxTurns \in Nat \ {0}
  BY ConfigAssumption
<1>2. CASE Len(s) > MaxTurns
  <2> DEFINE off == Len(s) - MaxTurns
             r == SubSeq(s, off + 1, Len(s))
  <2>1. off \in Nat /\ Log!Recent(s) = r
    BY <1>1, <1>2 DEF Log!Recent
  <2>2. r \in Seq(Turns) /\ Len(r) = MaxTurns
    BY <1>1, <1>2
  <2>3. ASSUME NEW i \in DOMAIN r PROVE i + off \in DOMAIN s /\ r[i] = s[i + off]
    <3>1. Len(s) \in Nat /\ i \in 1 .. MaxTurns /\ DOMAIN s = 1 .. Len(s)
      BY <2>2
    <3>2. i + off \in 1 .. Len(s) /\ (off + 1) + i - 1 = i + off
      BY <1>1, <1>2, <3>1
    <3>3. r[i] = s[(off + 1) + i - 1]
      BY <1>1, <1>2, <3>1, <2>1
    <3> QED
      BY <3>1, <3>2, <3>3
  <2> HIDE DEF off, r
  <2> QED
    BY <2>1, <2>2, <2>3
<1>3. CASE ~(Len(s) > MaxTurns)
  <2>1. Log!Recent(s) = s
    BY <1>3 DEF Log!Recent
  <2>2. \A i \in DOMAIN s : i + 0 = i
    OBVIOUS
  <2>3. \A i \in DOMAIN s : i + 0 \in DOMAIN s /\ s[i] = s[i + 0]
    BY <2>2
  <2> QED
    BY <2>1, <2>3
<1> QED
  BY <1>2, <1>3

LEMMA StoresAppends ==
    ASSUME Shape, NEW q \in Queries, Stores(q)
    PROVE  LET c == loc[q].conv
               t == [query |-> q, answer |-> loc[q].answer]
           IN  /\ log' \in [Convs -> Seq(Turns)]
               /\ \A d \in Convs \ {c} : log'[d] = log[d]
               /\ \E off \in Nat : \A i \in DOMAIN log'[c] :
                     /\ i \in Nat
                     /\ \/ i + off \in DOMAIN log[c] /\ log'[c][i] = log[c][i + off]
                        \/ i + off = Len(log[c]) + 1 /\ log'[c][i] = t
<1> DEFINE c == loc[q].conv
           t == [query |-> q, answer |-> loc[q].answer]
           s == Append(log[c], t)
<1>1. t \in Turns /\ c \in Convs /\ log[c] \in Seq(Turns)
  BY DEF Stores, Turns, Shape
<1>2. s \in Seq(Turns) /\ log' = [log EXCEPT ![c] = Log!Recent(s)]
  BY <1>1 DEF Stores, Log!AddTurn
<1>3. \A i \in DOMAIN s : \/ i \in DOMAIN log[c] /\ s[i] = log[c][i]
                          \/ i = Len(log[c]) + 1 /\ s[i] = t
  BY <1>1
<1>4. PICK off \in Nat : \A i \in DOMAIN Log!Recent(s) :
                 i + off \in DOMAIN s /\ Log!Recent(s)[i] = s[i + off]
  BY <1>2, RecentIsTail
<1>5. Log!Recent(s) \in Seq(Turns) /\ log'[c] = Log!Recent(s)
  BY <1>1, <1>2, RecentIsTail DEF Shape
<1>6. log' \in [Convs -> Seq(Turns)] /\ \A d \in Convs \ {c} : log'[d] = log[d]
  BY <1>2, <1>5 DEF Shape
<1>7. \A i \in DOMAIN log'[c] : i \in Nat
  BY <1>5
<1> HIDE DEF s
<1>8. \A i \in DOMAIN log'[c] :
         /\ i \in Nat
         /\ \/ i + off \in DOMAIN log[c] /\ log'[c][i] = log[c][i + off]
            \/ i + off = Len(log[c]) + 1 /\ log'[c][i] = t
  BY <1>3, <1>4, <1>5, <1>7
<1> QED
  BY <1>6, <1>8

LEMMA LogStays ==
    ASSUME IInv, NEW q \in Queries, Action(q)
    PROVE  (Shape /\ LabelsTell /\ LogTells /\ HistoryTells)'
<1>1. Shape /\ LabelsTell /\ LogTells /\ HistoryTells
  BY DEF IInv
<1>2. Alone(q) /\ Local(q) /\ (UNCHANGED log \/ Stores(q))
  BY <1>1, ActionAlone, ActionLocal
<1> DEFINE c == loc[q].conv
           t == [query |-> q, answer |-> loc[q].answer]
\* What was recorded stays so, and the new turn is.
<1>3. ASSUME NEW u, NEW d, Recorded(loc, u, d)
      PROVE  Recorded(loc', u, d) /\ (loc'[u.query].stream = loc[u.query].stream)
  <2>1. u.query \in Queries
    BY <1>3 DEF Recorded, Turns
  <2>2. CASE u.query = q
    BY <1>2, <1>3, <2>2 DEF Recorded, Local, Told
  <2>3. CASE u.query # q
    BY <1>2, <1>3, <2>1, <2>3 DEF Recorded, Alone
  <2> QED
    BY <2>2, <2>3
<1>4. Stores(q) => /\ Recorded(loc', t, c) /\ c \in Convs
                   /\ loc'[q].stream => t.answer \in {"text", "clean"}
  <2>1. Stores(q) => t \in Turns /\ t.query = q /\ t.answer = loc[q].answer
    BY DEF Stores, Turns
  <2> HIDE DEF t
  <2> QED
    BY <2>1 DEF Stores, Recorded
<1>5. Shape'
  <2>1. log' \in [Convs -> Seq(Turns)]
    BY <1>1, <1>2, StoresAppends DEF Shape
  <2>2. \A p \in Queries : IsLocals(loc'[p])
    BY <1>1, <1>2 DEF Shape, Alone, Local
  <2> QED
    BY <1>2, <2>1, <2>2 DEF Shape, Alone, IsLocals
<1>6. LabelsTell'
  <2>1. ASSUME NEW p \in Queries PROVE (Silent(pc[p], loc[p]) /\ Sent(pc[p], loc[p]))'
    <3>1. CASE p = q
      BY <1>2, <3>1 DEF Local, Alone, Silent, Sent
    <3>2. CASE p # q
      BY <1>1, <1>2, <3>2 DEF LabelsTell, Alone, Silent, Sent
    <3> QED
      BY <3>1, <3>2
  <2> QED
    BY <2>1 DEF LabelsTell
\* A turn that stays, and the one that comes, in the log of d.
<1> DEFINE Proper(u, d) ==
             /\ Recorded(loc', u, d)
             /\ loc'[u.query].stream => u.answer \in {"text", "clean"}
<1>7. ASSUME NEW d \in Convs, NEW i \in DOMAIN log[d] PROVE Proper(log[d][i], d)
  <2> DEFINE u == log[d][i]
  <2>1. Recorded(loc, u, d) /\ (loc[u.query].stream => u.answer \in {"text", "clean"})
    BY <1>1 DEF LogTells
  <2> HIDE DEF u
  <2>2. Recorded(loc', u, d) /\ loc'[u.query].stream = loc[u.query].stream
    BY <2>1, <1>3
  <2>3. Proper(u, d)
    BY <2>1, <2>2
  <2> QED
    BY <2>3 DEF u
<1>8. Stores(q) => Proper(t, c)
  BY <1>4
<1>9. \A d \in Convs : \A i \in DOMAIN log[d] : log[d][i].query = q => loc[q].kept = TRUE
  BY <1>1 DEF LogTells, Recorded
<1>10. t.query = q /\ (Stores(q) => loc[q].kept # TRUE)
  BY DEF Stores
<1> HIDE DEF t, c, Proper
<1>11. ASSUME NEW d \in Convs, NEW i \in DOMAIN log'[d]
       PROVE  /\ Proper(log'[d][i], d)
              /\ \A j \in DOMAIN log'[d] : log'[d][j].query = log'[d][i].query => j = i
  <2>1. \A k \in DOMAIN log[d] : \A j \in DOMAIN log[d] :
           log[d][j].query = log[d][k].query => j = k
    BY <1>1 DEF LogTells
  <2>2. CASE log'[d] = log[d]
    BY <1>7, <2>1, <2>2
  <2>3. CASE Stores(q) /\ d = c
    <3>1. PICK off \in Nat : \A k \in DOMAIN log'[d] :
             /\ k \in Nat
             /\ \/ k + off \in DOMAIN log[d] /\ log'[d][k] = log[d][k + off]
                \/ k + off = Len(log[d]) + 1 /\ log'[d][k] = t
      BY <1>1, <2>3, StoresAppends DEF t, c
    <3>2. \A k \in DOMAIN log[d] : log[d][k].query # q
      BY <1>9, <1>10, <2>3
    <3>3. CASE i + off \in DOMAIN log[d] /\ log'[d][i] = log[d][i + off]
      <4>1. Proper(log'[d][i], d)
        BY <1>7, <3>3
      <4>2. ASSUME NEW j \in DOMAIN log'[d], log'[d][j].query = log'[d][i].query PROVE j = i
        <5>1. log'[d][i].query # q
          BY <3>2, <3>3
        <5>2. j + off \in DOMAIN log[d] /\ log'[d][j] = log[d][j + off]
          BY <1>10, <3>1, <4>2, <5>1
        <5>3. j + off = i + off
          BY <2>1, <3>3, <4>2, <5>2
        <5> QED
          BY <3>1, <5>3
      <4> QED
        BY <4>1, <4>2
    <3>4. CASE i + off = Len(log[d]) + 1 /\ log'[d][i] = t
      <4>1. Proper(log'[d][i], d)
        BY <1>8, <2>3, <3>4
      <4>2. ASSUME NEW j \in DOMAIN log'[d], log'[d][j].query = log'[d][i].query PROVE j = i
        <5>1. log'[d][j].query = q
          BY <1>10, <3>4, <4>2
        <5>2. j + off = i + off
          BY <3>1, <3>2, <3>4, <5>1
        <5> QED
          BY <3>1, <5>2
      <4> QED
        BY <4>1, <4>2
    <3> QED
      BY <3>1, <3>3, <3>4
  <2>4. log'[d] = log[d] \/ (Stores(q) /\ d = c)
    BY <1>1, <1>2, StoresAppends DEF c
  <2> QED
    BY <2>2, <2>3, <2>4
<1>12. LogTells'
  <2>1. ASSUME NEW d \in Convs, NEW i \in DOMAIN log'[d]
        PROVE  /\ Recorded(loc', log'[d][i], d)
               /\ loc'[log'[d][i].query].stream => log'[d][i].answer \in {"text", "clean"}
               /\ \A j \in DOMAIN log'[d] : log'[d][j].query = log'[d][i].query => j = i
    BY <1>11 DEF Proper
  <2> QED
    BY <2>1 DEF LogTells
\* What a query has learned is recorded, and stays so.
<1>13. ASSUME NEW p \in Queries
       PROVE  /\ \A i \in DOMAIN loc'[p].hist : Recorded(loc', loc'[p].hist[i], loc'[p].conv)
              /\ \A u \in loc'[p].recall : Recorded(loc', u, loc'[p].conv)
  <2>1. /\ \A i \in DOMAIN loc[p].hist : Recorded(loc, loc[p].hist[i], loc[p].conv)
        /\ \A u \in loc[p].recall : Recorded(loc, u, loc[p].conv)
    BY <1>1 DEF HistoryTells
  <2>2. CASE p # q
    <3>1. loc'[p] = loc[p]
      BY <1>2, <2>2 DEF Alone
    <3> QED
      BY <1>3, <2>1, <3>1
  <2>3. CASE p = q
    <3> DEFINE l == loc[q]
               m == loc'[q]
    <3>1. Learned(l, m)
      BY <1>2 DEF Local
    <3> HIDE DEF l, m
    <3>2. \A i \in DOMAIN l.hist : Recorded(loc, l.hist[i], l.conv)
      BY <2>1, <2>3 DEF l
    <3>3. \A u \in l.recall : Recorded(loc, u, l.conv)
      BY <2>1, <2>3 DEF l
    <3>4. \A d \in Convs : \A i \in DOMAIN log[d] : Recorded(loc, log[d][i], d)
      BY <1>1 DEF LogTells
    <3>5. \A i \in DOMAIN m.hist : Recorded(loc, m.hist[i], m.conv)
      BY <3>1, <3>2, <3>4 DEF Learned
    <3>6. \A u \in m.recall : Recorded(loc, u, m.conv)
      BY <3>1, <3>2, <3>3 DEF Learned
    <3>7. /\ \A i \in DOMAIN m.hist : Recorded(loc', m.hist[i], m.conv)
          /\ \A u \in m.recall : Recorded(loc', u, m.conv)
      BY <1>3, <3>5, <3>6
    <3> QED
      BY <2>3, <3>7 DEF m
  <2> QED
    BY <2>2, <2>3
<1>14. HistoryTells'
  BY <1>13 DEF HistoryTells
<1> QED
  BY <1>5, <1>6, <1>12, <1>14

-----------------------------------------------------------------------------
(* The invariant.                                                          *)

LEMMA InvInit ==
    ASSUME Init
    PROVE  IInv
<1>1. PICK h \in SetToSeqs(Earlier), c \in Convs, last \in {"text", None} :
         LET said(q) == IF q = h[Len(h)] THEN last ELSE "text"
         IN  /\ loc = [q \in Queries |-> IF q \notin Earlier THEN Fresh
                           ELSE [Fresh EXCEPT !.conv = c, !.kept = TRUE, !.answer = said(q)]]
             /\ log = [d \in Convs |-> IF d # c THEN <<>> ELSE
                           [i \in DOMAIN h |-> [query |-> h[i], answer |-> said(h[i])]]]
  BY DEF Init
<1> DEFINE said(q) == IF q = h[Len(h)] THEN last ELSE "text"
           n == Cardinality(Earlier)
           s == [i \in 1 .. n |-> [query |-> h[i], answer |-> said(h[i])]]
<1>2. n \in Nat
  BY ConfigAssumption, FS_CardinalityType
<1>3. h \in [1 .. n -> Earlier] /\ (\A i, j \in 1 .. n : h[i] = h[j] => i = j)
  BY DEF SetToSeqs, IsInjective
<1> HIDE DEF n
<1>4. log = [d \in Convs |-> IF d # c THEN <<>> ELSE s]
  BY <1>1, <1>3
<1>5. /\ pc = [q \in Queries |-> IF q \in Earlier THEN "returned" ELSE "idle"]
      /\ Earlier \subseteq Queries
  BY ConfigAssumption DEF Init
<1>6. ASSUME NEW q \in Queries
      PROVE  /\ IsLocals(loc[q]) /\ loc[q].hist = <<>> /\ loc[q].recall = {}
             /\ loc[q].excl = {} /\ loc[q].ctx = {} /\ loc[q].prompt = {} /\ loc[q].sources = {}
             /\ loc[q].refused = "no" /\ loc[q].got = loc[q].made /\ loc[q].stream = FALSE
             /\ IF q \in Earlier
                THEN loc[q].conv = c /\ loc[q].kept = TRUE /\ loc[q].answer \in {"text", None}
                ELSE loc[q].conv = None /\ loc[q].kept = FALSE /\ loc[q].answer = None
  <2>1. CASE q \in Earlier
    <3> DEFINE m == [Fresh EXCEPT !.conv = c, !.kept = TRUE, !.answer = said(q)]
    <3>1. loc[q] = m /\ said(q) \in {"text", None}
      BY <1>1, <2>1
    <3>2. /\ IsLocals(m) /\ m.conv = c /\ m.kept = TRUE /\ m.answer = said(q)
          /\ \A f \in Fields \ {"conv", "kept", "answer"} : m[f] = Fresh[f]
      BY FreshIsLocals DEF IsLocals, Fields
    <3> HIDE DEF m, said
    <3> QED
      BY <2>1, <3>1, <3>2 DEF Fields, Fresh
  <2>2. CASE q \notin Earlier
    <3>1. loc[q] = Fresh
      BY <1>1, <2>2
    <3> QED
      BY <2>2, <3>1, FreshIsLocals DEF Fresh
  <2> QED
    BY <2>1, <2>2
<1>7. s \in Seq(Turns)
  <2>1. \A i \in 1 .. n : [query |-> h[i], answer |-> said(h[i])] \in Turns
    BY <1>3, <1>5 DEF Turns, Answers
  <2> QED
    BY <1>2, <2>1
<1>8. Shape
  <2>1. ASSUME NEW x \in Seq(Turns), log = [d \in Convs |-> IF d # c THEN <<>> ELSE x]
        PROVE  log \in [Convs -> Seq(Turns)]
    <3>1. <<>> \in Seq(Turns)
      OBVIOUS
    <3> QED
      BY <2>1, <3>1
  <2>2. log \in [Convs -> Seq(Turns)]
    BY <1>4, <1>7, <2>1
  <2>3. pc = [q \in Queries |-> pc[q]] /\ loc = [q \in Queries |-> loc[q]]
    BY <1>1, <1>5
  <2> QED
    BY <1>6, <2>2, <2>3 DEF Shape
<1>9. LabelsTell
  BY <1>5, <1>6 DEF LabelsTell, Silent, Sent, Early, Late, Answers
<1>10. LogTells
  <2>1. ASSUME NEW d \in Convs, NEW i \in DOMAIN log[d]
        PROVE  d = c /\ i \in 1 .. n /\ log[d] = s /\ s[i].query = h[i] /\ h[i] \in Earlier
    BY <1>3, <1>4, <2>1
  <2>2. ASSUME NEW d \in Convs, NEW i \in DOMAIN log[d]
        PROVE  Recorded(loc, log[d][i], d) /\ loc[log[d][i].query].stream = FALSE
    <3>1. s[i] \in Turns
      BY <1>7, <2>1, <2>2
    <3> HIDE DEF s
    <3> QED
      <4> DEFINE u == s[i]
      <4>1. u \in Turns /\ u.query \in Earlier /\ log[d][i] = u /\ d = c
        BY <2>1, <2>2, <3>1
      <4> HIDE DEF u
      <4>2. loc[u.query].kept = TRUE /\ loc[u.query].conv = c /\ loc[u.query].stream = FALSE
        BY <1>5, <1>6, <4>1
      <4> QED
        BY <4>1, <4>2 DEF Recorded
  <2>3. ASSUME NEW d \in Convs, NEW i \in DOMAIN log[d], NEW j \in DOMAIN log[d],
               log[d][j].query = log[d][i].query
        PROVE  j = i
    <3> HIDE DEF s
    <3> QED
      BY <1>3, <2>1, <2>3
  <2> QED
    BY <2>2, <2>3 DEF LogTells
<1>11. HistoryTells
  <2>1. DOMAIN <<>> = {}
    OBVIOUS
  <2> QED
    BY <1>6, <2>1 DEF HistoryTells
<1> QED
  BY <1>8, <1>9, <1>10, <1>11 DEF IInv

LEMMA InvStep ==
    ASSUME IInv, [Next]_vars
    PROVE  IInv'
<1>1. CASE Next
  <2>1. PICK q \in Queries : Action(q)
    BY <1>1 DEF Next, Action
  <2> QED
    BY <2>1, LogStays DEF IInv
<1>2. CASE UNCHANGED vars
  <2>1. pc' = pc /\ loc' = loc /\ log' = log /\ config' = config
    BY <1>2 DEF vars
  <2>2. Shape'
    BY <2>1 DEF IInv, Shape, IsLocals
  <2>3. LabelsTell'
    BY <2>1 DEF IInv, LabelsTell, Silent, Sent
  <2>4. LogTells' /\ HistoryTells'
    BY <2>1, ZenonT(60) DEF IInv, LogTells, HistoryTells
  <2> QED
    BY <2>2, <2>3, <2>4 DEF IInv
<1> QED
  BY <1>1, <1>2

\* The queries' labels, locals and conversations agree, whatever the queries.
THEOREM Invariant == Spec => []IInv
<1>1. Init => IInv
  BY InvInit
<1>2. IInv /\ [Next]_vars => IInv'
  BY InvStep
<1> QED
  BY <1>1, <1>2, PTL DEF Spec

\* A safeguard's refusal is never overridden, whichever pipeline, grounding
\* mode and number of queries: the model is not asked, nothing is stored and
\* no source is cited.
THEOREM RefusalIsFinal == Spec => []RefusedIsSilent
<1>1. IInv => RefusedIsSilent
  <2> SUFFICES ASSUME IInv, NEW q \in Queries
               PROVE  LET l == loc[q] IN
                      /\ l.refused # "no" => /\ ~Prompted(q) /\ pc[q] # "build" /\ ~l.kept
                                            /\ l.prompt = {} /\ l.sources = {}
                      /\ l.excl \cap (l.prompt \cup l.sources) = {}
    BY DEF RefusedIsSilent
  <2>1. Silent(pc[q], loc[q])
    BY DEF IInv, LabelsTell
  <2> QED
    BY <2>1 DEF Silent, Prompted, Late
<1> QED
  BY <1>1, Invariant, PTL

\* What the conversations hold was sent to their clients in full, and a
\* prompt's history comes from the query's own conversation.
THEOREM RememberedIsShown == Spec => []RememberedWasShown
<1>1. IInv => RememberedWasShown
  <2> SUFFICES ASSUME IInv PROVE RememberedWasShown
    OBVIOUS
  <2>1. ASSUME NEW c \in Convs, NEW i \in DOMAIN log[c]
        PROVE  LET q == log[c][i].query
                   l == loc[q]
               IN  /\ l.conv = c /\ l.kept /\ l.got = l.made
                   /\ l.stream => log[c][i].answer \in {"text", "clean"}
                   /\ \A j \in DOMAIN log[c] : log[c][j].query = q => j = i
    <3> DEFINE u == log[c][i]
    <3>1. /\ Recorded(loc, u, c) /\ (loc[u.query].stream => u.answer \in {"text", "clean"})
          /\ \A j \in DOMAIN log[c] : log[c][j].query = u.query => j = i
      BY DEF IInv, LogTells
    <3> HIDE DEF u
    <3>2. u.query \in Queries
      BY <3>1 DEF Recorded, Turns
    <3>3. loc[u.query].got = loc[u.query].made
      BY <3>1, <3>2 DEF Recorded, IInv, LabelsTell, Sent
    <3>4. /\ loc[u.query].conv = c /\ loc[u.query].kept /\ loc[u.query].got = loc[u.query].made
          /\ loc[u.query].stream => u.answer \in {"text", "clean"}
          /\ \A j \in DOMAIN log[c] : log[c][j].query = u.query => j = i
      BY <3>1, <3>3 DEF Recorded
    <3> QED
      BY <3>4 DEF u
  <2>2. ASSUME NEW q \in Queries, NEW t \in loc[q].recall
        PROVE  loc[t.query].kept /\ loc[t.query].conv = loc[q].conv
    BY DEF IInv, HistoryTells, Recorded
  <2> QED
    BY <2>1, <2>2 DEF RememberedWasShown
<1> QED
  BY <1>1, Invariant, PTL

-----------------------------------------------------------------------------
(* What reaches the prompt.                                                *)

Asking == {"ask", "fallback", "stream", "check", "save"}
BeforeExpansion(p) == p \in {"idle", "pre", "retrieve", "screen", "expand"}
                         \/ (p = "history" /\ config.advanced)
PastFilter(p) == p \in Asking \cup {"screen", "expand", "build"}
                    \/ (p = "history" /\ ~config.advanced)
PastGuards(p) == p \in Asking \cup {"build"} \/ (p = "history" /\ ~config.advanced)

\* The passages whose words chunk c brings into the prompt.
Words(l, c) == IF c \in l.whole THEN {d \in Chunks : Parent[d] = Parent[c]} ELSE {c}

Apart(l) ==
    \A c, d \in l.ctx :
        c # d => /\ Words(l, c) \cap Words(l, d) = {}
                 /\ config.dedup => {c, d} \notin Twins

Room == ChunkBudget(config.window, Fixed, Ratio)
Left == HistoryBudget(config.window, Fixed, Ratio)

Fits(l) ==
    /\ SumFunctionOnSet(Tokens(l), l.prompt) \in 0 .. Room
    /\ \A c \in l.ctx \ l.prompt :
          SumFunctionOnSet(Tokens(l), {d \in l.prompt : l.rank[d] < l.rank[c]}) + Tokens(l)[c] > Room
    /\ TurnCost * Cardinality(l.recall) \in 0 .. Left

Sound(p, l) ==
    /\ l.ctx \subseteq Chunks /\ l.whole \subseteq Chunks /\ l.hist \in Seq(Turns)
    /\ \A c \in l.whole : Parent[c] # None
    /\ PastFilter(p) => l.rank \in Orders
    /\ BeforeExpansion(p) => l.whole = {}
    /\ Apart(l)
    /\ p = "expand" => l.ctx # {}
    /\ PastGuards(p) /\ l.strict => l.ctx # {}
    /\ p \in Asking => Fits(l)

Bases == {"strict", "hist", "rank", "ctx", "whole", "prompt", "recall"}

\* A step that changes nothing of that.
LEMMA QuietSound ==
    ASSUME NEW q \in Queries, Sound(pc[q], loc[q]), NEW from, NEW to, NEW m,
           Becomes(q, from, to, m), \A f \in Bases : m[f] = loc[q][f],
           PastFilter(to) => PastFilter(from),
           BeforeExpansion(to) => BeforeExpansion(from),
           PastGuards(to) => PastGuards(from),
           to \in {"expand"} => from = "expand",
           to \in Asking => from \in Asking
    PROVE  Sound(pc'[q], loc'[q])
<1>1. pc[q] = from /\ pc'[q] = to /\ loc'[q] = m
  BY DEF Becomes
<1> DEFINE l == loc[q]
<1>2. /\ m.strict = l.strict /\ m.hist = l.hist /\ m.rank = l.rank /\ m.ctx = l.ctx
      /\ m.whole = l.whole /\ m.prompt = l.prompt /\ m.recall = l.recall
  BY DEF Bases
<1> HIDE DEF l
<1>3. Sound(from, l)
  BY <1>1 DEF l
<1>4. Apart(l) => Apart(m)
  BY <1>2 DEF Apart, Words
<1>5. Fits(l) => Fits(m)
  <2>1. Tokens(m) = Tokens(l)
    BY <1>2 DEF Tokens
  <2> QED
    BY <1>2, <2>1 DEF Fits
<1>6. Sound(to, m)
  BY <1>2, <1>3, <1>4, <1>5 DEF Sound
<1> QED
  BY <1>1, <1>6

LEMMA SubmitSound ==
    ASSUME Shape, NEW q \in Queries, NEW stream, NEW strict,
           NEW c \in Convs \cup {None}, Submit(q, stream, strict, c)
    PROVE  Sound(pc'[q], loc'[q])
<1> DEFINE m == [Fresh EXCEPT !.stream = stream, !.strict = strict, !.conv = c]
<1>1. PICK to \in {"pre", "rejected"} : Becomes(q, "idle", to, m)
  BY StepBecomes DEF Submit
<1>2. m.ctx = {} /\ m.hist = <<>> /\ m.whole = {} /\ m.prompt = {} /\ m.recall = {}
  BY DEF Fresh
<1>3. pc'[q] = to /\ loc'[q] = m
  BY <1>1 DEF Becomes
<1>4. <<>> \in Seq(Turns)
  OBVIOUS
<1> HIDE DEF m
<1> QED
  BY <1>2, <1>3, <1>4 DEF Sound, Apart, PastFilter, PastGuards, Asking

LEMMA EarlySound ==
    ASSUME Shape, NEW q \in Queries, Sound(pc[q], loc[q]),
           PreQuery(q) \/ Raise(q)
    PROVE  Sound(pc'[q], loc'[q])
<1> USE DEF PastFilter, BeforeExpansion, PastGuards, Asking
<1>1. CASE Decline(q, "pre", [loc[q] EXCEPT !.refused = "query"])
  <2> DEFINE l == [loc[q] EXCEPT !.refused = "query"]
  <2>1. IsLocals(l) /\ \A f \in Fields \ {"refused"} : l[f] = loc[q][f]
    BY DEF Shape, IsLocals, Fields
  <2> HIDE DEF l
  <2>2. Decline(q, "pre", l)
    BY <1>1 DEF l
  <2>3. PICK to, m :
           /\ to \in {"emit", "returned"}
           /\ Becomes(q, "pre", to, m) /\ IsLocals(m)
           /\ \A f \in Fields \ {"todo", "bare", "only"} : m[f] = l[f]
    BY <2>1, <2>2, DeclineBecomes
  <2>4. \A f \in Bases : m[f] = loc[q][f]
    BY <2>1, <2>3 DEF Fields, Bases
  <2> QED
    BY <2>3, <2>4, QuietSound
<1>2. CASE Step(q, "pre", IF config.advanced THEN "history" ELSE "retrieve", loc[q])
  <2>1. Becomes(q, "pre", IF config.advanced THEN "history" ELSE "retrieve", loc[q])
    BY <1>2, StepBecomes
  <2> QED
    BY <2>1, QuietSound
<1>3. CASE Raise(q)
  <2>1. PICK from \in {"history", "retrieve"} : Becomes(q, from, "failed", loc[q])
    BY <1>3, StepBecomes DEF Raise
  <2> QED
    BY <2>1, QuietSound
<1> QED
  BY <1>1, <1>2, <1>3 DEF PreQuery

LEMMA ReadHistorySound ==
    ASSUME Shape, LabelsTell, NEW q \in Queries, Sound(pc[q], loc[q]), ReadHistory(q)
    PROVE  Sound(pc'[q], loc'[q])
<1> DEFINE h == IF loc[q].conv = None THEN <<>> ELSE log[loc[q].conv]
           m == [loc[q] EXCEPT !.hist = h]
           to == IF config.advanced THEN "retrieve" ELSE "build"
<1>1. Becomes(q, "history", to, m)
  BY StepBecomes DEF ReadHistory
<1>2. m.hist = h /\ \A f \in Bases \ {"hist"} : m[f] = loc[q][f]
  BY DEF Shape, IsLocals, Fields, Bases
<1>3. pc[q] = "history" /\ pc'[q] = to /\ loc'[q] = m
  BY <1>1 DEF Becomes
<1>4. loc[q].conv \in Convs \cup {None}
  BY DEF LabelsTell, Sent
<1>5. h \in Seq(Turns)
  <2>1. <<>> \in Seq(Turns)
    OBVIOUS
  <2> QED
    BY <1>4, <2>1 DEF Shape
<1>6. /\ m.strict = loc[q].strict /\ m.rank = loc[q].rank /\ m.ctx = loc[q].ctx
      /\ m.whole = loc[q].whole
  BY <1>2 DEF Bases
<1>7. Sound("history", loc[q])
  BY <1>3
<1> HIDE DEF m, h
<1>8. Apart(loc[q]) => Apart(m)
  BY <1>6 DEF Apart, Words
<1>9. Sound(to, m)
  BY <1>2, <1>5, <1>6, <1>7, <1>8 DEF Sound, PastFilter, BeforeExpansion, PastGuards, Asking
<1> QED
  BY <1>3, <1>9

LEMMA RetrieveSound ==
    ASSUME Shape, NEW q \in Queries, Sound(pc[q], loc[q]), Retrieve(q)
    PROVE  Sound(pc'[q], loc'[q])
<1>1. PICK rank, good, fair :
        /\ rank \in Orders
        /\ LET T == Filtered(rank, good, fair)
               l == [loc[q] EXCEPT !.rank = rank, !.ctx = T, !.bare = T = {}] IN
           Step(q, "retrieve", "screen", l) \/ Proceed(q, "retrieve", l)
  BY DEF Retrieve
<1>r. rank \in Orders
  BY <1>1
<1> DEFINE T == Filtered(rank, good, fair)
           l == [loc[q] EXCEPT !.rank = rank, !.ctx = T, !.bare = T = {}]
<1>2. /\ T \subseteq Chunks
      /\ config.dedup => \A c, d \in T : c # d => {c, d} \notin Twins
  <2> DEFINE X == IF good = 0 /\ config.rescue > 0
             THEN Best(rank, fair) \cap Best(rank, config.rescue)
             ELSE Best(rank, good)
  <2>1. X \in SUBSET Chunks
    BY DEF Best
  <2>2. T = IF config.dedup THEN Distinct(X, rank) ELSE X
    BY DEF Filtered
  <2> HIDE DEF X, T
  <2> QED
    BY <1>r, <2>1, <2>2, DistinctApart
<1> HIDE DEF T
<1>3. /\ IsLocals(l) /\ l.ctx = T /\ l.rank = rank /\ l.bare = (T = {})
      /\ \A f \in Fields \ {"rank", "ctx", "bare"} : l[f] = loc[q][f]
  BY DEF Shape, IsLocals, Fields
<1> HIDE DEF l
<1>4. Step(q, "retrieve", "screen", l) \/ Proceed(q, "retrieve", l)
  BY <1>1 DEF l, T
<1>5. PICK to, m : /\ Becomes(q, "retrieve", to, m)
                   /\ \A f \in Fields \ {"todo", "bare", "only"} : m[f] = l[f]
                   /\ \/ to \in {"screen", "emit", "returned"}
                      \/ /\ ~(l.bare /\ l.strict)
                         /\ to = IF config.advanced THEN "build" ELSE "history"
  <2>1. CASE Step(q, "retrieve", "screen", l)
    BY <2>1, StepBecomes
  <2>2. CASE Proceed(q, "retrieve", l)
    BY <1>3, <2>2, ProceedBecomes
  <2> QED
    BY <1>4, <2>1, <2>2
<1>6. /\ m.ctx = T /\ m.rank = rank /\ m.hist = loc[q].hist /\ m.whole = loc[q].whole
      /\ m.strict = l.strict
  BY <1>3, <1>5 DEF Fields
<1>7. pc[q] = "retrieve" /\ pc'[q] = to /\ loc'[q] = m
  BY <1>5 DEF Becomes
<1>8. loc[q].whole = {} /\ loc[q].hist \in Seq(Turns)
  BY <1>7 DEF Sound, BeforeExpansion
<1>9. Apart(m)
  BY <1>2, <1>6, <1>8 DEF Apart, Words
<1>10. to \notin Asking /\ to # "expand" /\ (PastGuards(to) /\ m.strict => T # {})
  BY <1>3, <1>5, <1>6 DEF PastGuards, Asking
<1>11. Sound(to, m)
  BY <1>r, <1>2, <1>6, <1>8, <1>9, <1>10 DEF Sound
<1> QED
  BY <1>7, <1>11

LEMMA PostRetrievalSound ==
    ASSUME Shape, NEW q \in Queries, Sound(pc[q], loc[q]), PostRetrieval(q)
    PROVE  Sound(pc'[q], loc'[q])
<1>1. PICK l :
        /\ Screened(q, l) /\ IsLocals(l) /\ l.ctx \subseteq loc[q].ctx
        /\ \A f \in Fields \ {"ctx", "excl", "refused"} : l[f] = loc[q][f]
  <2>1. CASE Screened(q, [loc[q] EXCEPT !.ctx = {}, !.refused = "results"])
    <3> DEFINE k == [loc[q] EXCEPT !.ctx = {}, !.refused = "results"]
    <3>1. /\ IsLocals(k) /\ k.ctx = {}
          /\ \A f \in Fields \ {"ctx", "excl", "refused"} : k[f] = loc[q][f]
      BY DEF Shape, IsLocals, Fields
    <3>2. Screened(q, k)
      BY <2>1
    <3> HIDE DEF k
    <3> QED
      BY <3>1, <3>2
  <2>2. ASSUME NEW out \in SUBSET loc[q].ctx,
               Screened(q, [loc[q] EXCEPT !.ctx = @ \ out, !.excl = out])
        PROVE  \E l :
                  /\ Screened(q, l) /\ IsLocals(l) /\ l.ctx \subseteq loc[q].ctx
                  /\ \A f \in Fields \ {"ctx", "excl", "refused"} : l[f] = loc[q][f]
    <3> DEFINE k == [loc[q] EXCEPT !.ctx = @ \ out, !.excl = out]
    <3>1. /\ IsLocals(k) /\ k.ctx = loc[q].ctx \ out
          /\ \A f \in Fields \ {"ctx", "excl", "refused"} : k[f] = loc[q][f]
      BY DEF Shape, IsLocals, Fields
    <3>2. Screened(q, k)
      BY <2>2
    <3> HIDE DEF k
    <3> QED
      BY <3>1, <3>2
  <2> QED
    BY <2>1, <2>2 DEF PostRetrieval
<1> DEFINE T == l.ctx
<1>2. /\ IsLocals(l) /\ l.ctx = T /\ T \subseteq loc[q].ctx
      /\ \A f \in Fields \ {"ctx", "excl", "refused"} : l[f] = loc[q][f]
  BY <1>1
<1> HIDE DEF T
<1>3. Screened(q, l)
  BY <1>1
<1>4. PICK to, m :
         /\ Becomes(q, "screen", to, m) /\ IsLocals(m)
         /\ \A f \in Fields \ {"todo", "bare", "only"} : m[f] = l[f]
         /\ \/ to \in {"emit", "returned"}
            \/ to = "expand" /\ l.ctx # {}
            \/ /\ l.refused = "no" /\ (l.strict => l.ctx # {})
               /\ to = IF config.advanced THEN "build" ELSE "history"
  BY <1>2, <1>3, ScreenedBecomes
<1>5. /\ m.ctx = T /\ m.rank = loc[q].rank /\ m.hist = loc[q].hist /\ m.whole = loc[q].whole
      /\ m.strict = l.strict
  BY <1>2, <1>4 DEF Fields
<1>6. pc[q] = "screen" /\ pc'[q] = to /\ loc'[q] = m
  BY <1>4 DEF Becomes
<1>7. /\ loc[q].whole = {} /\ loc[q].hist \in Seq(Turns) /\ loc[q].rank \in Orders
      /\ loc[q].ctx \subseteq Chunks /\ Apart(loc[q])
  BY <1>6 DEF Sound, BeforeExpansion, PastFilter
<1>8. Apart(m)
  BY <1>2, <1>5, <1>7 DEF Apart, Words
<1>9. /\ to \notin Asking /\ (to = "expand" => T # {}) /\ (PastGuards(to) /\ m.strict => T # {})
  BY <1>2, <1>4, <1>5 DEF PastGuards, Asking
<1>10. Sound(to, m)
  BY <1>2, <1>5, <1>7, <1>8, <1>9 DEF Sound
<1> QED
  BY <1>6, <1>10

\* Expansion leaves a chunk of every parent, and no text of a parent next to
\* that of another of its children.
LEMMA ExpandParentsSound ==
    ASSUME Shape, NEW q \in Queries, Sound(pc[q], loc[q]), ExpandParents(q)
    PROVE  Sound(pc'[q], loc'[q])
<1> DEFINE old == loc[q]
<1>1. PICK found \in SUBSET ({Parent[c] : c \in old.ctx} \ {None}) :
        Proceed(q, "expand",
                [old EXCEPT !.ctx = {c \in @ : Parent[c] \in found => c \in Leaders(old, found)},
                            !.whole = Leaders(old, found)])
  BY DEF ExpandParents
<1> DEFINE W == Leaders(old, found)
           T == {c \in old.ctx : Parent[c] \in found => c \in W}
           l == [old EXCEPT !.ctx = T, !.whole = W]
<1>2. /\ IsLocals(l) /\ l.ctx = T /\ l.whole = W
      /\ \A f \in Fields \ {"ctx", "whole"} : l[f] = old[f]
  BY DEF Shape, IsLocals, Fields
<1>3. Proceed(q, "expand", l)
  BY <1>1
<1> HIDE DEF l
<1>4. PICK to, m :
         /\ Becomes(q, "expand", to, m) /\ IsLocals(m)
         /\ \A f \in Fields \ {"todo", "bare", "only"} : m[f] = l[f]
         /\ \/ to \in {"emit", "returned"}
            \/ /\ l.refused = "no" /\ ~(l.bare /\ l.strict)
               /\ to = IF config.advanced THEN "build" ELSE "history"
  BY <1>2, <1>3, ProceedBecomes
<1>5. /\ m.ctx = T /\ m.whole = W /\ m.rank = old.rank /\ m.hist = old.hist
  BY <1>2, <1>4 DEF Fields
<1>6. pc[q] = "expand" /\ pc'[q] = to /\ loc'[q] = m
  BY <1>4 DEF Becomes
<1>7. /\ old.whole = {} /\ old.hist \in Seq(Turns) /\ old.rank \in Orders
      /\ old.ctx \subseteq Chunks /\ Apart(old) /\ old.ctx # {}
  BY <1>6 DEF Sound, BeforeExpansion, PastFilter
<1>8. /\ W \subseteq old.ctx
      /\ \A c \in W : Parent[c] \in found /\ Parent[c] # None
  BY <1>1 DEF Leaders
<1>9. T # {}
  <2>1. PICK c \in old.ctx : TRUE
    BY <1>7
  <2>2. CASE Parent[c] \notin found
    BY <2>2
  <2>3. CASE Parent[c] \in found
    <3>1. PICK d \in old.ctx :
             /\ Parent[d] = Parent[c]
             /\ Leads(d, old.ctx, old.rank)
      <4> HIDE DEF old
      <4> QED
        BY <1>7, LeaderExists
    <3>2. d \in W
      BY <2>3, <3>1 DEF Leaders, Leads
    <3> QED
      BY <3>1, <3>2
  <2> QED
    BY <2>2, <2>3
<1>10. Apart(m)
  <2> SUFFICES ASSUME NEW c \in T, NEW d \in T, c # d
               PROVE  /\ Words(m, c) \cap Words(m, d) = {}
                      /\ config.dedup => {c, d} \notin Twins
    BY <1>5 DEF Apart
  <2>0. c \in old.ctx /\ d \in old.ctx
    OBVIOUS
  <2>1. config.dedup => {c, d} \notin Twins
    BY <1>7, <2>0 DEF Apart
  <2>2. ASSUME c \in W, d \in W, Parent[c] = Parent[d] PROVE FALSE
    <3>1. old.rank[c] <= old.rank[d] /\ old.rank[d] <= old.rank[c]
      BY <2>2 DEF Leaders
    <3>2. old.rank[c] \in Nat /\ old.rank[d] \in Nat /\ c \in Chunks /\ d \in Chunks
      BY <1>7, ChunksRanked
    <3>3. old.rank[c] = old.rank[d]
      BY <3>1, <3>2
    <3> QED
      BY <1>7, <3>2, <3>3, ChunksRanked
  <2>3. ASSUME NEW a \in T, NEW b \in T, a \in W, b \notin W, Parent[b] = Parent[a] PROVE FALSE
    BY <1>8, <2>3
  <2> HIDE DEF T, W
  <2>4. Words(m, c) \cap Words(m, d) = {}
    <3>1. CASE c \in W /\ d \in W
      BY <1>5, <2>2, <3>1 DEF Words
    <3>2. CASE c \in W /\ d \notin W
      BY <1>5, <2>3, <3>2 DEF Words
    <3>3. CASE c \notin W /\ d \in W
      BY <1>5, <2>3, <3>3 DEF Words
    <3>4. CASE c \notin W /\ d \notin W
      BY <1>5, <3>4 DEF Words
    <3> QED
      BY <3>1, <3>2, <3>3, <3>4
  <2> QED
    BY <2>1, <2>4
<1>11. /\ to \notin Asking /\ to # "expand" /\ (PastGuards(to) /\ m.strict => T # {})
  BY <1>4, <1>9 DEF Asking
<1>12. T \subseteq old.ctx
  OBVIOUS
<1> HIDE DEF W, T, old
<1>13. ~BeforeExpansion(to)
  BY <1>4 DEF BeforeExpansion
<1>14. T \subseteq Chunks /\ W \subseteq Chunks
  BY <1>7, <1>8, <1>12
<1>15. Sound(to, m)
  BY <1>5, <1>7, <1>8, <1>10, <1>11, <1>13, <1>14 DEF Sound
<1> QED
  BY <1>6, <1>15

LEMMA ImageIsSmall ==
    ASSUME NEW S, IsFiniteSet(S), NEW f
    PROVE  LET T == {f[x] : x \in S} IN IsFiniteSet(T) /\ Cardinality(T) <= Cardinality(S)
<1> DEFINE T == {f[x] : x \in S}
           g == [x \in S |-> f[x]]
<1>1. g \in Surjection(S, T)
  BY DEF Surjection
<1> QED
  BY <1>1, FS_Surjection

\* The two shares make up what is left of the window.
LEMMA SharesAddUp ==
    ASSUME config \in Configs
    PROVE  /\ Room \in Nat /\ Left \in Nat
           /\ config.window >= Fixed => Fixed + Room + Left = config.window
<1> DEFINE w == config.window
           r == Remaining(w, Fixed)
           x == r * Ratio
<1>1. w \in Nat /\ Fixed \in Nat /\ Ratio \in 0 .. 100
  BY ConfigAssumption, BudgetAssumption DEF Config
<1>2. r \in Nat /\ (w >= Fixed => Fixed + r = w)
  BY <1>1 DEF Remaining
<1> HIDE DEF w, r
<1>3. x \in Nat /\ x <= r * 100
  <2>1. r * (100 - Ratio) \in Nat
    BY <1>1, <1>2
  <2>2. r * 100 = r * Ratio + r * (100 - Ratio)
    BY <1>1, <1>2
  <2>3. r * Ratio \in Nat
    BY <1>1, <1>2
  <2> QED
    BY <2>1, <2>2, <2>3, <1>2
<1>4. Room = x \div 100 /\ Left = r - Room
  BY DEF Room, Left, ChunkBudget, HistoryBudget, w, r
<1> HIDE DEF x
<1>5. x \div 100 \in Nat /\ x \div 100 <= r
  BY <1>2, <1>3
<1> QED
  BY <1>1, <1>2, <1>4, <1>5 DEF w

\* The prompt built fits the window, with the best of the chunks.
LEMMA PromptFits ==
    ASSUME config \in Configs, NEW l, l.ctx \subseteq Chunks, l.rank \in Orders,
           \A c \in l.whole : Parent[c] # None
    PROVE  LET A == Admitted(l.ctx, l.rank, N, Tokens(l), Room) IN
           /\ A \subseteq l.ctx
           /\ SumFunctionOnSet(Tokens(l), A) \in 0 .. Room
           /\ \A c \in l.ctx \ A :
                 SumFunctionOnSet(Tokens(l), {d \in A : l.rank[d] < l.rank[c]}) + Tokens(l)[c] > Room
<1> DEFINE items == l.ctx
           rank == l.rank
           cost == Tokens(l)
<1>1. IsFiniteSet(items) /\ N \in Nat /\ Room \in Nat
  BY ConfigAssumption, ChunksRanked, SharesAddUp, FS_Subset
<1>2. /\ \A c \in items : rank[c] \in 1 .. N
      /\ \A c, d \in items : rank[c] = rank[d] => c = d
  BY ChunksRanked
<1>3. \A c \in items : cost[c] \in Nat
  BY BudgetAssumption DEF Tokens
<1> HIDE DEF items, rank, cost
<1>4. LET A == Admitted(items, rank, N, cost, Room) IN
           /\ A \subseteq items
           /\ SumFunctionOnSet(cost, A) <= Room
           /\ \A c \in items \ A :
                 SumFunctionOnSet(cost, {d \in A : rank[d] < rank[c]}) + cost[c] > Room
  BY <1>1, <1>2, <1>3, AdmittedFits
<1>5. \A A \in SUBSET items : SumFunctionOnSet(cost, A) \in Nat
  BY <1>1, <1>3, SumType, FS_Subset
<1>6. \A x \in Nat : x <= Room => x \in 0 .. Room
  BY <1>1
<1> QED
  BY <1>4, <1>5, <1>6 DEF items, rank, cost

\* So do the turns recalled.
LEMMA RecallFits ==
    ASSUME config \in Configs, NEW h \in Seq(Turns), NEW Said
    PROVE  LET age == [i \in DOMAIN h |-> Len(h) + 1 - i]
               turns == Admitted(DOMAIN h, age, Len(h), [i \in DOMAIN h |-> TurnCost], Left)
           IN  TurnCost * Cardinality({h[i] : i \in turns} \cap Said) \in 0 .. Left
<1> DEFINE D == DOMAIN h
           age == [i \in D |-> Len(h) + 1 - i]
           cost == [i \in D |-> TurnCost]
           turns == Admitted(D, age, Len(h), cost, Left)
           all == {h[i] : i \in turns}
           told == all \cap Said
<1>1. IsFiniteSet(D) /\ Len(h) \in Nat /\ Left \in Nat /\ TurnCost \in Nat
  <2>1. D = 1 .. Len(h) /\ Len(h) \in Nat
    OBVIOUS
  <2> QED
    BY <2>1, FS_Interval, SharesAddUp, BudgetAssumption
<1>2. /\ \A i \in D : age[i] \in 1 .. Len(h) /\ cost[i] = TurnCost /\ cost[i] \in Nat
      /\ \A i, j \in D : age[i] = age[j] => i = j
  BY <1>1
<1> HIDE DEF D, age, cost
<1>3. turns \subseteq D /\ SumFunctionOnSet(cost, turns) <= Left
  BY <1>1, <1>2, AdmittedFits
<1> HIDE DEF turns
<1>4. IsFiniteSet(turns) /\ SumFunctionOnSet(cost, turns) = TurnCost * Cardinality(turns)
  <2>1. IsFiniteSet(turns) /\ \A i \in turns : cost[i] = TurnCost
    BY <1>1, <1>2, <1>3, FS_Subset
  <2> QED
    BY <1>1, <2>1, SumOfConstant
<1>5. IsFiniteSet(all) /\ Cardinality(all) <= Cardinality(turns)
  BY <1>4, ImageIsSmall
<1>6. IsFiniteSet(told) /\ Cardinality(told) <= Cardinality(all)
  BY <1>5, FS_Subset
<1>7. Cardinality(told) \in Nat /\ Cardinality(all) \in Nat /\ Cardinality(turns) \in Nat
  BY <1>4, <1>5, <1>6, FS_CardinalityType
<1>8. TurnCost * Cardinality(told) <= TurnCost * Cardinality(turns)
  <2> DEFINE a == Cardinality(told)
             b == Cardinality(turns)
  <2>1. a \in Nat /\ b \in Nat /\ b - a \in Nat
    BY <1>5, <1>6, <1>7
  <2> HIDE DEF a, b
  <2>2. TurnCost * (b - a) \in Nat /\ TurnCost * a \in Nat /\ TurnCost * b = TurnCost * a + TurnCost * (b - a)
    BY <1>1, <2>1
  <2> QED
    BY <2>2 DEF a, b
<1>9. TurnCost * Cardinality(turns) \in Nat /\ TurnCost * Cardinality(told) \in Nat
  BY <1>1, <1>7
<1>10. TurnCost * Cardinality(told) \in 0 .. Left
  BY <1>1, <1>3, <1>4, <1>8, <1>9
<1> QED
  BY <1>10 DEF told, all, turns, age, cost, D

LEMMA BuildPromptSound ==
    ASSUME Shape, config \in Configs, NEW q \in Queries, Sound(pc[q], loc[q]), BuildPrompt(q)
    PROVE  Sound(pc'[q], loc'[q])
<1> DEFINE old == loc[q]
           age == [i \in DOMAIN old.hist |-> Len(old.hist) + 1 - i]
           turns == Admitted(DOMAIN old.hist, age, Len(old.hist),
                             [i \in DOMAIN old.hist |-> TurnCost], Left)
           chosen == Admitted(old.ctx, old.rank, N, Tokens(old), Room)
           told == {old.hist[i] : i \in turns} \cap {t \in Turns : t.answer \in {"text", "clean"}}
           m == [old EXCEPT !.prompt = chosen, !.recall = told]
           to == IF old.stream THEN "stream" ELSE "ask"
<1>1. Step(q, "build", to, m)
  BY DEF BuildPrompt, Left, Room
<1>2. /\ m.prompt = chosen /\ m.recall = told
      /\ m.ctx = old.ctx /\ m.rank = old.rank /\ m.whole = old.whole /\ m.hist = old.hist
      /\ m.strict = old.strict
  BY DEF Shape, IsLocals, Fields
<1>3. pc[q] = "build" /\ pc'[q] = to /\ loc'[q] = m
  BY <1>1, StepBecomes DEF Becomes
<1>4. Sound("build", old)
  BY <1>3
<1>5. old.ctx \subseteq Chunks /\ old.rank \in Orders /\ old.hist \in Seq(Turns)
      /\ \A c \in old.whole : Parent[c] # None
  BY <1>4 DEF Sound, PastFilter
<1>6. TurnCost * Cardinality(told) \in 0 .. Left
  <2> HIDE DEF old
  <2> QED
    BY <1>5, RecallFits
<1>7. /\ SumFunctionOnSet(Tokens(old), chosen) \in 0 .. Room
      /\ \A c \in old.ctx \ chosen :
            SumFunctionOnSet(Tokens(old), {d \in chosen : old.rank[d] < old.rank[c]})
              + Tokens(old)[c] > Room
  <2> HIDE DEF old
  <2> QED
    BY <1>5, PromptFits
<1> HIDE DEF m, told, chosen, old
<1>8. Tokens(m) = Tokens(old)
  BY <1>2 DEF Tokens
<1>9. Fits(m)
  BY <1>2, <1>6, <1>7, <1>8 DEF Fits
<1>10. Apart(old) => Apart(m)
  BY <1>2 DEF Apart, Words
<1>11. to \in {"ask", "stream"}
  OBVIOUS
<1> HIDE DEF to
<1>12. Sound(to, m)
  BY <1>2, <1>4, <1>5, <1>9, <1>10, <1>11 DEF Sound, PastFilter, PastGuards, BeforeExpansion
<1> QED
  BY <1>3, <1>12

\* The answer, and what becomes of it, leave the prompt alone.
LEMMA ModelSound ==
    ASSUME Shape, NEW q \in Queries, Sound(pc[q], loc[q]),
           Ask(q) \/ AskFallback(q) \/ StreamEnd(q) \/ StreamFail(q) \/ PreResponse(q)
    PROVE  Sound(pc'[q], loc'[q])
<1> USE DEF PastFilter, BeforeExpansion, PastGuards, Asking
<1>1. ASSUME NEW from \in {"ask", "fallback", "stream", "check"},
             NEW to \in {"fallback", "check", "save"}, NEW a,
             Step(q, from, to, [loc[q] EXCEPT !.answer = a])
      PROVE  Sound(pc'[q], loc'[q])
  <2> DEFINE m == [loc[q] EXCEPT !.answer = a]
  <2>1. Becomes(q, from, to, m)
    BY <1>1, StepBecomes
  <2>2. \A f \in Bases : m[f] = loc[q][f]
    BY DEF Shape, IsLocals, Fields, Bases
  <2> HIDE DEF m
  <2> QED
    BY <2>1, <2>2, QuietSound
<1>2. CASE \E a \in {"text", "empty"} : Step(q, "ask", "check", [loc[q] EXCEPT !.answer = a])
  BY <1>1, <1>2
<1>3. CASE Step(q, "ask", IF config.fallback THEN "fallback" ELSE "check", loc[q])
  <2>1. Becomes(q, "ask", IF config.fallback THEN "fallback" ELSE "check", loc[q])
    BY <1>3, StepBecomes
  <2> QED
    BY <2>1, QuietSound
<1>4. CASE AskFallback(q) \/ StreamEnd(q)
  BY <1>1, <1>4 DEF AskFallback, StreamEnd
<1>5. CASE StreamFail(q)
  <2> DEFINE m == [loc[q] EXCEPT !.todo = <<"error", "trace", "done">>]
  <2>1. Becomes(q, "stream", "emit", m)
    BY <1>5, StepBecomes DEF StreamFail
  <2>2. \A f \in Bases : m[f] = loc[q][f]
    BY DEF Shape, IsLocals, Fields, Bases
  <2> HIDE DEF m
  <2> QED
    BY <2>1, <2>2, QuietSound
<1>6. CASE PreResponse(q)
  BY <1>1, <1>6 DEF PreResponse
<1> QED
  BY <1>2, <1>3, <1>4, <1>5, <1>6 DEF Ask

LEMMA TokenSound ==
    ASSUME Shape, NEW q \in Queries, Sound(pc[q], loc[q]), Token(q)
    PROVE  Sound(pc'[q], loc'[q])
<1> USE DEF PastFilter, BeforeExpansion, PastGuards, Asking
<1>1. CASE q \in gone
  <2> DEFINE m == [loc[q] EXCEPT !.made = @ + 1]
  <2>1. Becomes(q, "stream", "closed", m)
    BY <1>1, StepBecomes DEF Token
  <2>2. \A f \in Bases : m[f] = loc[q][f]
    BY DEF Shape, IsLocals, Fields, Bases
  <2> HIDE DEF m
  <2> QED
    BY <2>1, <2>2, QuietSound
<1>2. CASE q \notin gone
  <2> DEFINE m == [loc[q] EXCEPT !.made = @ + 1, !.got = @ + 1]
  <2>1. Becomes(q, "stream", "stream", m)
    BY <1>2, StepBecomes DEF Token
  <2>2. \A f \in Bases : m[f] = loc[q][f]
    BY DEF Shape, IsLocals, Fields, Bases
  <2> HIDE DEF m
  <2> QED
    BY <2>1, <2>2, QuietSound
<1> QED
  BY <1>1, <1>2

LEMMA SaveTurnSound ==
    ASSUME Shape, NEW q \in Queries, Sound(pc[q], loc[q]), SaveTurn(q)
    PROVE  Sound(pc'[q], loc'[q])
<1> USE DEF PastFilter, BeforeExpansion, PastGuards, Asking
<1>1. PICK l : /\ Deliver(q, l) /\ IsLocals(l)
               /\ \A f \in Fields \ {"kept"} : l[f] = loc[q][f]
  <2> DEFINE k == [loc[q] EXCEPT !.kept = TRUE]
  <2>1. IsLocals(k) /\ \A f \in Fields \ {"kept"} : k[f] = loc[q][f]
    BY DEF Shape, IsLocals, Fields
  <2>2. Deliver(q, k) \/ Deliver(q, loc[q])
    BY DEF SaveTurn
  <2> HIDE DEF k
  <2> QED
    BY <2>1, <2>2 DEF Shape
<1>2. PICK to, m :
         /\ to \in {"emit", "returned"}
         /\ Becomes(q, "save", to, m) /\ IsLocals(m)
         /\ \A f \in Fields \ {"todo", "sources", "only"} : m[f] = l[f]
         /\ m.sources \in {l.sources, l.prompt}
  BY <1>1, DeliverBecomes
<1>3. \A f \in Bases : m[f] = loc[q][f]
  BY <1>1, <1>2 DEF Fields, Bases
<1> QED
  BY <1>2, <1>3, QuietSound

LEMMA EmitSound ==
    ASSUME Shape, NEW q \in Queries, Sound(pc[q], loc[q]), Emit(q)
    PROVE  Sound(pc'[q], loc'[q])
<1> USE DEF PastFilter, BeforeExpansion, PastGuards, Asking
<1>1. CASE q \in gone
  <2>1. Becomes(q, "emit", "closed", loc[q])
    BY <1>1, StepBecomes DEF Emit
  <2> QED
    BY <2>1, QuietSound
<1>2. CASE q \notin gone
  <2> DEFINE x == IF Head(loc[q].todo) = "sources" THEN loc[q].prompt ELSE loc[q].sources
             m == [loc[q] EXCEPT !.todo = Tail(@), !.sources = x]
             to == IF Len(loc[q].todo) = 1 THEN "returned" ELSE "emit"
  <2>1. Becomes(q, "emit", to, m)
    BY <1>2, StepBecomes DEF Emit
  <2>2. \A f \in Bases : m[f] = loc[q][f]
    BY DEF Shape, IsLocals, Fields, Bases
  <2>3. to \in {"emit", "returned"}
    OBVIOUS
  <2> HIDE DEF m, to
  <2> QED
    BY <2>1, <2>2, <2>3, QuietSound
<1> QED
  BY <1>1, <1>2

LEMMA LeaveSound ==
    ASSUME Shape, NEW q \in Queries, Sound(pc[q], loc[q]), Disconnect(q) \/ Cancel(q)
    PROVE  Sound(pc'[q], loc'[q])
<1> USE DEF PastFilter, BeforeExpansion, PastGuards, Asking
<1>1. CASE Disconnect(q)
  BY <1>1 DEF Disconnect
<1>2. CASE Cancel(q)
  <2>1. PICK from : Becomes(q, from, "closed", loc[q])
    BY <1>2, StepBecomes DEF Cancel
  <2> QED
    BY <2>1, QuietSound
<1> QED
  BY <1>1, <1>2

LEMMA ActionSound ==
    ASSUME Shape, LabelsTell, config \in Configs, NEW q \in Queries,
           Sound(pc[q], loc[q]), Action(q)
    PROVE  Sound(pc'[q], loc'[q])
<1>1. CASE \E stream, strict \in BOOLEAN, c \in Convs \cup {None} : Submit(q, stream, strict, c)
  BY <1>1, SubmitSound
<1>2. CASE PreQuery(q) \/ ReadHistory(q) \/ Raise(q) \/ Retrieve(q) \/ PostRetrieval(q)
  BY <1>2, EarlySound, ReadHistorySound, RetrieveSound, PostRetrievalSound
<1>3. CASE ExpandParents(q) \/ BuildPrompt(q) \/ SaveTurn(q)
  BY <1>3, ExpandParentsSound, BuildPromptSound, SaveTurnSound
<1>4. CASE Ask(q) \/ AskFallback(q) \/ StreamEnd(q) \/ StreamFail(q) \/ PreResponse(q)
  BY <1>4, ModelSound
<1>5. CASE Token(q) \/ Emit(q) \/ Disconnect(q) \/ Cancel(q)
  BY <1>5, TokenSound, EmitSound, LeaveSound
<1> QED
  BY <1>1, <1>2, <1>3, <1>4, <1>5 DEF Action, Run, Receive

AllSound == config \in Configs /\ \A q \in Queries : Sound(pc[q], loc[q])

LEMMA SoundInit == Init => AllSound
<1> SUFFICES ASSUME Init, NEW q \in Queries PROVE Sound(pc[q], loc[q])
  BY DEF Init, AllSound
<1>1. PICK h \in SetToSeqs(Earlier), c \in Convs, last \in {"text", None} :
         LET said(p) == IF p = h[Len(h)] THEN last ELSE "text"
         IN  /\ loc = [p \in Queries |-> IF p \notin Earlier THEN Fresh
                           ELSE [Fresh EXCEPT !.conv = c, !.kept = TRUE, !.answer = said(p)]]
             /\ log = [d \in Convs |-> IF d # c THEN <<>> ELSE
                           [i \in DOMAIN h |-> [query |-> h[i], answer |-> said(h[i])]]]
  BY DEF Init
<1>2. pc[q] \in {"returned", "idle"}
  BY DEF Init
<1>3. loc[q].ctx = {} /\ loc[q].whole = {} /\ loc[q].hist = <<>>
  BY <1>1 DEF Fresh
<1>4. <<>> \in Seq(Turns)
  OBVIOUS
<1> QED
  BY <1>2, <1>3, <1>4 DEF Sound, Apart, PastFilter, PastGuards, Asking

LEMMA SoundStep ==
    ASSUME IInv, AllSound, [Next]_vars
    PROVE  AllSound'
<1>1. config' = config /\ \A q \in Queries : Sound(pc'[q], loc'[q])
  <2>1. CASE Next
    <3>1. PICK p \in Queries : Action(p)
      BY <2>1 DEF Next, Action
    <3>2. Alone(p)
      BY <3>1, ActionAlone DEF IInv
    <3>3. Sound(pc'[p], loc'[p])
      BY <3>1, ActionSound DEF IInv, AllSound
    <3> QED
      BY <3>2, <3>3 DEF Alone, AllSound
  <2>2. CASE UNCHANGED vars
    BY <2>2 DEF vars, AllSound
  <2> QED
    BY <2>1, <2>2
<1>2. ASSUME NEW q \in Queries
      PROVE  Sound(pc[q], loc[q])'
  <2>1. Apart(loc'[q]) => Apart(loc[q])'
    BY <1>1 DEF Apart, Words
  <2>2. Fits(loc'[q]) => Fits(loc[q])'
    BY <1>1 DEF Fits, Room, Left, Tokens
  <2> QED
    BY <1>1, <2>1, <2>2 DEF Sound, BeforeExpansion, PastFilter, PastGuards
<1> QED
  BY <1>1, <1>2 DEF AllSound

\* Every query's chunks, prompt and history are sound, in every deployment.
THEOREM PromptsAreSound == Spec => []AllSound
<1>1. Init => AllSound
  BY SoundInit
<1>2. IInv /\ AllSound /\ [Next]_vars => AllSound'
  BY SoundStep
<1> QED
  BY <1>1, <1>2, Invariant, PTL DEF Spec

\* A strict query never reaches the model on nothing, and its prompt is empty
\* only when each chunk is too long by itself.
THEOREM StrictNeedsGrounds == Spec => []StrictIsGrounded
<1>1. AllSound => StrictIsGrounded
  <2> SUFFICES ASSUME AllSound, NEW q \in Queries, Prompted(q), loc[q].strict
               PROVE  /\ loc[q].ctx # {}
                      /\ loc[q].prompt = {} => \A c \in loc[q].ctx :
                           Tokens(loc[q])[c] > ChunkBudget(config.window, Fixed, Ratio)
    BY DEF StrictIsGrounded
  <2> DEFINE l == loc[q]
  <2>1. l.ctx # {} /\ Fits(l) /\ l.ctx \subseteq Chunks /\ \A c \in l.whole : Parent[c] # None
    BY DEF AllSound, Sound, PastGuards, Asking, Prompted
  <2>2. ASSUME l.prompt = {}, NEW c \in l.ctx PROVE Tokens(l)[c] > Room
    <3> HIDE DEF l
    <3>1. {d \in l.prompt : l.rank[d] < l.rank[c]} = {} /\ c \in l.ctx \ l.prompt
      BY <2>2
    <3>2. SumFunctionOnSet(Tokens(l), {}) + Tokens(l)[c] > Room
      BY <2>1, <3>1 DEF Fits
    <3>3. Tokens(l)[c] \in Nat
      BY <2>1, BudgetAssumption DEF Tokens
    <3> QED
      BY <3>2, <3>3, SumOfNone
  <2> QED
    BY <2>1, <2>2 DEF Room
<1> QED
  BY <1>1, PromptsAreSound, PTL

\* Chunks and history stay within the window, whatever the texts' lengths, the
\* history, the share and the order of the results; no chunk that still fits is
\* left out.
THEOREM PromptsFitWindow == Spec => []WithinBudget
<1>1. AllSound => WithinBudget
  <2> SUFFICES ASSUME AllSound, NEW q \in Queries, Prompted(q)
               PROVE  LET l == loc[q]
                          spent == SumFunctionOnSet(Tokens(l), l.prompt)
                      IN  /\ spent <= Room
                          /\ \A c \in l.ctx \ l.prompt :
                                SumFunctionOnSet(Tokens(l), {d \in l.prompt : l.rank[d] < l.rank[c]})
                                  + Tokens(l)[c] > Room
                          /\ config.window >= Fixed =>
                                Fixed + spent + TurnCost * Cardinality(l.recall) <= config.window
    BY DEF WithinBudget, Room
  <2> DEFINE l == loc[q]
             spent == SumFunctionOnSet(Tokens(l), l.prompt)
  <2>1. Fits(l) /\ config \in Configs
    BY DEF AllSound, Sound, Asking, Prompted
  <2> DEFINE told == TurnCost * Cardinality(l.recall)
  <2>2. /\ spent \in 0 .. Room /\ told \in 0 .. Left
        /\ \A c \in l.ctx \ l.prompt :
              SumFunctionOnSet(Tokens(l), {d \in l.prompt : l.rank[d] < l.rank[c]})
                + Tokens(l)[c] > Room
    BY <2>1 DEF Fits
  <2>3. /\ Room \in Nat /\ Left \in Nat /\ Fixed \in Nat
        /\ config.window >= Fixed => Fixed + Room + Left = config.window
    BY <2>1, SharesAddUp, BudgetAssumption
  <2> HIDE DEF spent, told
  <2>4. spent <= Room /\ (config.window >= Fixed => Fixed + spent + told <= config.window)
    BY <2>2, <2>3
  <2> QED
    BY <2>2, <2>4 DEF spent, told
<1> QED
  BY <1>1, PromptsAreSound, PTL

\* No passage stands twice in a prompt, whichever results are twins or
\* siblings.
THEOREM PromptsRepeatNothing == Spec => []NothingTwice
<1>1. IInv /\ AllSound => NothingTwice
  <2> SUFFICES ASSUME IInv, AllSound, NEW q \in Queries,
                      NEW c \in loc[q].prompt, NEW d \in loc[q].prompt, c # d
               PROVE  /\ Words(loc[q], c) \cap Words(loc[q], d) = {}
                      /\ config.dedup => {c, d} \notin Twins
    BY DEF NothingTwice, Words
  <2>1. loc[q].prompt \subseteq loc[q].ctx /\ Apart(loc[q])
    BY DEF IInv, LabelsTell, Silent, AllSound, Sound
  <2> QED
    BY <2>1 DEF Apart
<1> QED
  BY <1>1, PromptsAreSound, Invariant, PTL
=============================================================================
