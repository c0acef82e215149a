------------------------------ MODULE Counting ------------------------------
(***************************************************************************)
(* Facts about numbers, remainders, sums over finite sets and cardinality  *)
(* that the proofs about several modules rest on.                          *)
(***************************************************************************)
EXTENDS Integers, FiniteSetsExt, FiniteSetTheorems, WellFoundedInduction, TLAPS

(* Every set of natural numbers that is not empty has a least element: to  *)
(* show something for all numbers, assume that the set of those for which  *)
(* it is false has one.                                                    *)
LEMMA LeastNumber ==
  ASSUME NEW T \in SUBSET Nat, T # {}
  PROVE  \E x \in T : \A y \in T : x <= y
<1>1. PICK x \in T : \A y \in T : ~(<<y, x>> \in OpToRel(<, Nat))
  BY NatLessThanWellFounded, WFMin
<1>2. \A y \in T : ~(y < x)
  BY <1>1 DEF OpToRel
<1> QED
  BY <1>2

(* Induction from n down to 0, over the set of numbers of which something  *)
(* is true                                                                 *)
LEMMA Downward ==
  ASSUME NEW n \in Nat, NEW G, n \in G, \A k \in 0..n-1 : k + 1 \in G => k \in G
  PROVE  \A k \in 0..n : k \in G
<1> DEFINE Bad == {m \in 0..n : n - m \notin G}
<1>1. Bad = {}
  <2> SUFFICES ASSUME Bad # {} PROVE FALSE
    OBVIOUS
  <2>1. Bad \in SUBSET Nat
    OBVIOUS
  <2>2. PICK m \in Bad : \A j \in Bad : m <= j
    <3> HIDE DEF Bad
    <3> QED BY <2>1, LeastNumber
  <2>3. m # 0
    OBVIOUS
  <2>4. m - 1 \notin Bad /\ m - 1 \in 0..n /\ n - (m - 1) = (n - m) + 1 /\ n - m \in 0..n-1
    BY <2>2, <2>3
  <2> QED BY <2>4
<1>2. ASSUME NEW k \in 0..n
      PROVE  k \in G
  <2>1. PICK m \in 0..n : m = n - k
    OBVIOUS
  <2>2. n - m = k
    BY <2>1
  <2>3. n - m \in G
    BY <1>1
  <2> QED BY <2>2, <2>3
<1> QED BY <1>2

(* Min and Max of FiniteSetsExt                                            *)
LEMMA MinIsLeast ==
  ASSUME NEW T \in SUBSET Nat, T # {}
  PROVE  Min(T) \in T /\ \A y \in T : Min(T) <= y
BY LeastNumber DEF Min

LEMMA MaxIsGreatest ==
  ASSUME NEW T \in SUBSET Nat, IsFiniteSet(T), T # {}
  PROVE  Max(T) \in T /\ \A y \in T : Max(T) >= y
<1> DEFINE Above(x) == {y \in T : y > x}
           Sizes == {Cardinality(Above(x)) : x \in T}
<1>1. \A x \in T : IsFiniteSet(Above(x)) /\ Cardinality(Above(x)) \in Nat
  BY FS_Subset, FS_CardinalityType
<1>2. Sizes \in SUBSET Nat /\ Sizes # {}
  BY <1>1
<1> HIDE DEF Sizes
<1>3. PICK c \in Sizes : \A d \in Sizes : c <= d
  BY <1>2, LeastNumber
<1>4. PICK x \in T : c = Cardinality(Above(x))
  BY DEF Sizes
<1>5. ASSUME NEW z \in T, z > x
      PROVE  FALSE
  <2>1. Above(z) \in SUBSET Above(x) /\ Above(z) # Above(x)
    <3>1. z \in Above(x) /\ z \notin Above(z)
      BY <1>5
    <3>2. \A y \in T : y > z => y > x
      BY <1>5
    <3> QED BY <3>1, <3>2
  <2> HIDE DEF Above
  <2>2. Cardinality(Above(z)) <= Cardinality(Above(x)) /\ Cardinality(Above(z)) # Cardinality(Above(x))
    BY <1>1, <2>1, FS_Subset
  <2>3. Cardinality(Above(x)) <= Cardinality(Above(z))
    BY <1>3, <1>4, <1>5 DEF Sizes
  <2> QED BY <1>1, <1>5, <2>2, <2>3
<1>6. \A y \in T : x >= y
  BY <1>5
<1> QED BY <1>6 DEF Max

-----------------------------------------------------------------------------
(* Remainders, as the counters of the code compute them                    *)

LEMMA DivisionTheorem ==
  ASSUME NEW w \in Nat, w > 0, NEW a \in Int
  PROVE  a \div w \in Int /\ a % w \in 0..w-1 /\ a = w * (a \div w) + (a % w)
OBVIOUS

LEMMA SmallMultiple ==
  ASSUME NEW w \in Nat, w > 0, NEW d \in Int, NEW x \in 0..w-1, NEW y \in 0..w-1,
         w * d = x - y
  PROVE  x = y
<1>1. CASE d = 0
  BY <1>1
<1>2. CASE d >= 1
  <2>1. w * d >= w
    BY <1>2
  <2> QED
    BY <2>1
<1>3. CASE d <= -1
  <2>1. w * d <= -w
    BY <1>3
  <2> QED
    BY <2>1
<1> QED
  BY <1>1, <1>2, <1>3

LEMMA RemainderUnique ==
  ASSUME NEW w \in Nat, w > 0, NEW a \in Int, NEW q \in Int, NEW r \in 0..w-1,
         a = w * q + r
  PROVE  a % w = r
<1> DEFINE d == q - (a \div w)
<1>1. d \in Int /\ w * d = (a % w) - r /\ a % w \in 0..w-1
  BY DivisionTheorem
<1> HIDE DEF d
<1> QED
  BY <1>1, SmallMultiple

(* Adding to a wrapped counter gives the wrapped sum.                      *)
LEMMA WrappedSum ==
  ASSUME NEW w \in Nat, w > 0, NEW a \in Int, NEW b \in Int
  PROVE  ((a % w) + b) % w = (a + b) % w
<1> DEFINE q == a \div w
           c == (a % w) + b
<1>1. q \in Int /\ c \in Int /\ a + b = w * q + c
  BY DivisionTheorem
<1> HIDE DEF q, c
<1>2. c \div w \in Int /\ c % w \in 0..w-1 /\ c = w * (c \div w) + (c % w)
  BY <1>1, DivisionTheorem
<1>3. a + b = w * (q + (c \div w)) + (c % w) /\ q + (c \div w) \in Int /\ a + b \in Int
  BY <1>1, <1>2
<1>4. (a + b) % w = c % w
  BY <1>2, <1>3, RemainderUnique
<1> QED
  BY <1>4 DEF c

(* Division keeps the order.                                               *)
LEMMA DivMonotone ==
  ASSUME NEW w \in Nat, w > 0, NEW a \in Nat, NEW b \in Nat, a <= b
  PROVE  a \div w <= b \div w
<1> DEFINE p == a \div w
           q == b \div w
<1>1. p \in Int /\ a % w \in 0..w-1 /\ a = w * p + (a % w)
  BY DivisionTheorem
<1>2. q \in Int /\ b % w \in 0..w-1 /\ b = w * q + (b % w)
  BY DivisionTheorem
<1> HIDE DEF p, q
<1>3. SUFFICES ASSUME p >= q + 1
               PROVE  FALSE
  BY <1>1, <1>2 DEF p, q
<1>4. w * p >= w * (q + 1)
  BY <1>1, <1>2, <1>3
<1>5. w * (q + 1) = w * q + w
  BY <1>2
<1> QED BY <1>1, <1>2, <1>4, <1>5

-----------------------------------------------------------------------------
(* Cardinality                                                             *)

LEMMA SingletonProduct ==
  ASSUME NEW x, NEW k \in Nat
  PROVE  /\ IsFiniteSet({x} \X (1..k))
         /\ Cardinality({x} \X (1..k)) = k
<1> DEFINE A == {x}
           B == 1..k
<1>1. IsFiniteSet(A) /\ Cardinality(A) = 1
  BY FS_Singleton
<1>2. IsFiniteSet(B) /\ Cardinality(B) = k
  BY FS_Interval
<1>3. IsFiniteSet(A \X B) /\ Cardinality(A \X B) = Cardinality(A) * Cardinality(B)
  <2> HIDE DEF A, B
  <2> QED
    BY <1>1, <1>2, FS_Product
<1> QED
  BY <1>1, <1>2, <1>3

-----------------------------------------------------------------------------
(* Sums over finite sets                                                   *)

(* The sum the community module computes by recursion; no summand is above *)
(* m.                                                                      *)
Total(r, S) == MapThenSumSet(LAMBDA n : r[n], S)

(* The pairs of an element and a number up to what it adds to the sum      *)
Portions(r, S) == UNION {{n} \X (1..r[n]) : n \in S}

LEMMA PortionsFinite ==
  ASSUME NEW S, IsFiniteSet(S), NEW m \in Nat, NEW r \in [S -> 0..m], NEW R \in SUBSET S
  PROVE  IsFiniteSet(Portions(r, R)) /\ Cardinality(Portions(r, R)) \in 0..Cardinality(S) * m
<1> DEFINE M == 1..m
<1>1. Portions(r, R) \in SUBSET (S \X M)
  BY DEF Portions
<1>2. IsFiniteSet(M) /\ Cardinality(M) = m
  BY FS_Interval
<1> HIDE DEF M
<1>3. IsFiniteSet(S \X M) /\ Cardinality(S \X M) = Cardinality(S) * Cardinality(M)
  BY <1>2, FS_Product
<1>4. IsFiniteSet(Portions(r, R)) /\ Cardinality(Portions(r, R)) <= Cardinality(S) * m
  BY <1>1, <1>2, <1>3, FS_Subset
<1> QED
  BY <1>4, FS_CardinalityType

LEMMA PortionsStep ==
  ASSUME NEW S, IsFiniteSet(S), NEW m \in Nat, NEW r \in [S -> 0..m], NEW R \in SUBSET S, NEW x \in R
  PROVE  Cardinality(Portions(r, R)) = r[x] + Cardinality(Portions(r, R \ {x}))
<1> DEFINE A == {x} \X (1..r[x])
           B == Portions(r, R \ {x})
<1>1. Portions(r, R) = A \cup B
  BY DEF Portions
<1>2. A \cap B = {}
  BY DEF Portions
<1>3. IsFiniteSet(A) /\ Cardinality(A) = r[x]
  <2>1. PICK k \in Nat : k = r[x]
    OBVIOUS
  <2> QED
    BY <2>1, SingletonProduct
<1>4. IsFiniteSet(B) /\ Cardinality(B) \in Nat
  BY PortionsFinite, FS_CardinalityType
<1> HIDE DEF A, B
<1>5. Cardinality(A \cup B) = Cardinality(A) + Cardinality(B) - Cardinality(A \cap B)
  BY <1>3, <1>4, FS_Union
<1>6. Cardinality(A \cap B) = 0
  BY <1>2, FS_EmptySet
<1>7. r[x] \in Nat
  OBVIOUS
<1> QED
  BY <1>1, <1>3, <1>4, <1>5, <1>6, <1>7 DEF B

LEMMA TotalIsCardinality ==
  ASSUME NEW S, IsFiniteSet(S), NEW m \in Nat, NEW r \in [S -> 0..m]
  PROVE  Total(r, S) = Cardinality(Portions(r, S))
<1> DEFINE Pick(s) == CHOOSE x \in s : TRUE
           Sums(f) == f = [s \in SUBSET S |-> IF s = {} THEN 0 ELSE r[Pick(s)] + f[s \ {Pick(s)}]]
           card == [s \in SUBSET S |-> Cardinality(Portions(r, s))]
<1>1. \A s \in SUBSET S : s # {} => Pick(s) \in s
  OBVIOUS
<1>2. Sums(card)
  <2>1. card[{}] = 0
    BY FS_EmptySet DEF Portions
  <2>2. ASSUME NEW s \in SUBSET S, s # {}
        PROVE  card[s] = r[Pick(s)] + card[s \ {Pick(s)}]
    <3>1. PICK x : x = Pick(s)
      OBVIOUS
    <3>2. x \in s
      BY <1>1, <2>2, <3>1
    <3>3. Cardinality(Portions(r, s)) = r[x] + Cardinality(Portions(r, s \ {x}))
      BY <3>2, PortionsStep
    <3> QED
      BY <3>1, <3>3
  <2> QED
    BY <2>1, <2>2
<1>3. PICK f : f = (CHOOSE g : Sums(g)) /\ Sums(f)
  <2> HIDE DEF Sums
  <2> QED
    BY <1>2
<1>4. \A s \in SUBSET S : f[s] = card[s]
  <2> DEFINE Wrong == {s \in SUBSET S : f[s] # card[s]}
             Sizes == {Cardinality(s) : s \in Wrong}
  <2> SUFFICES ASSUME Wrong # {} PROVE FALSE
    OBVIOUS
  <2>1. \A s \in SUBSET S : IsFiniteSet(s) /\ Cardinality(s) \in Nat
    BY FS_Subset, FS_CardinalityType
  <2>2. Sizes \in SUBSET Nat /\ Sizes # {}
    BY <2>1
  <2>3. PICK k \in Sizes : \A j \in Sizes : k <= j
    <3> HIDE DEF Sizes
    <3> QED
      BY <2>2, LeastNumber
  <2>4. PICK s \in Wrong : \A t \in Wrong : Cardinality(s) <= Cardinality(t)
    BY <2>3
  <2>5. CASE s = {}
    <3>1. f[s] = 0 /\ card[s] = 0
      BY <1>2, <1>3, <2>5
    <3> QED
      BY <3>1
  <2>6. CASE s # {}
    <3>1. PICK x : x = Pick(s)
      OBVIOUS
    <3>2. x \in s
      BY <1>1, <2>6, <3>1
    <3>3. Cardinality(s \ {x}) < Cardinality(s)
      BY <2>1, <3>2, FS_RemoveElement
    <3>4. s \ {x} \in SUBSET S
      OBVIOUS
    <3>5. s \ {x} \notin Wrong
      <4>1. Cardinality(s \ {x}) \in Nat /\ Cardinality(s) \in Nat
        BY <2>1, <3>4
      <4> HIDE DEF Wrong
      <4> QED
        BY <2>4, <3>3, <4>1
    <3>6. f[s] = r[x] + f[s \ {x}] /\ card[s] = r[x] + card[s \ {x}]
      BY ZenonT(30), <1>2, <1>3, <2>6, <3>1
    <3> QED
      BY <3>4, <3>5, <3>6
  <2> QED
    BY <2>5, <2>6
<1>5. Total(r, S) = f[S]
  BY <1>3 DEF Total, MapThenSumSet, MapThenFoldSet
<1> QED
  BY <1>4, <1>5

LEMMA TotalType ==
  ASSUME NEW S, IsFiniteSet(S), NEW m \in Nat, NEW r \in [S -> 0..m]
  PROVE  Total(r, S) \in 0..Cardinality(S) * m
BY TotalIsCardinality, PortionsFinite

(* One summand changes.                                                    *)
LEMMA TotalChanges ==
  ASSUME NEW S, IsFiniteSet(S), NEW m \in Nat, NEW r \in [S -> 0..m], NEW q \in [S -> 0..m],
         NEW x \in S, \A y \in S \ {x} : q[y] = r[y]
  PROVE  Total(q, S) = Total(r, S) - r[x] + q[x]
<1>1. Portions(q, S \ {x}) = Portions(r, S \ {x})
  BY DEF Portions
<1>2. Cardinality(Portions(q, S)) = q[x] + Cardinality(Portions(q, S \ {x}))
  BY PortionsStep
<1>3. Cardinality(Portions(r, S)) = r[x] + Cardinality(Portions(r, S \ {x}))
  BY PortionsStep
<1>4. Cardinality(Portions(r, S \ {x})) \in Int /\ r[x] \in Nat /\ q[x] \in Nat
  BY PortionsFinite, FS_CardinalityType
<1>5. Total(q, S) = Cardinality(Portions(q, S)) /\ Total(r, S) = Cardinality(Portions(r, S))
  BY TotalIsCardinality
<1> QED
  BY <1>1, <1>2, <1>3, <1>4, <1>5

LEMMA TotalZero ==
  ASSUME NEW S, IsFiniteSet(S), NEW m \in Nat, NEW r \in [S -> 0..m]
  PROVE  Total(r, S) = 0 <=> \A n \in S : r[n] = 0
<1>1. Cardinality(Portions(r, S)) = 0 <=> Portions(r, S) = {}
  BY PortionsFinite, FS_EmptySet
<1>2. ASSUME NEW n \in S, r[n] # 0
      PROVE  <<n, 1>> \in Portions(r, S)
  BY <1>2 DEF Portions
<1>3. ASSUME \A n \in S : r[n] = 0
      PROVE  Portions(r, S) = {}
  BY <1>3 DEF Portions
<1> QED
  BY <1>1, <1>2, <1>3, TotalIsCardinality

=============================================================================
