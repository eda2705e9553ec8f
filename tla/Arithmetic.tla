----------------------------- MODULE Arithmetic ------------------------------
(***************************************************************************)
(* Induction in a form that the provers can use, and the facts about       *)
(* powers of two that the proofs of Protocol and CommandLine rest on.      *)
(***************************************************************************)
EXTENDS Integers, FiniteSetTheorems, FunctionTheorems, WellFoundedInduction, TLAPS

-----------------------------------------------------------------------------
(* Induction                                                               *)

LEMMA LeastNumber ==
  ASSUME NEW T, T \subseteq Nat, T # {}
  PROVE  \E n \in T : \A m \in T : n <= m
<1> DEFINE R == OpToRel(<, Nat)
<1>1. IsWellFoundedOn(R, Nat)
  BY NatLessThanWellFounded
<1> HIDE DEF R
<1>2. PICK n \in T : \A m \in T : ~ (<<m, n>> \in R)
  BY <1>1, WFMin
<1>3. \A m \in T : ~ (m < n)
  BY <1>2 DEF R, OpToRel
<1> QED BY <1>3

\* A set of numbers with 0 and the successors of its elements has them all.
LEMMA Induction ==
  ASSUME NEW T, 0 \in T, \A n \in Nat : n \in T => n + 1 \in T
  PROVE  \A n \in Nat : n \in T
<1> SUFFICES ASSUME Nat \ T # {} PROVE FALSE
  OBVIOUS
<1>1. PICK n \in Nat \ T : \A m \in Nat \ T : n <= m
  BY LeastNumber
<1>2. n - 1 \in Nat /\ n - 1 \in T
  BY <1>1
<1> QED BY <1>1, <1>2

\* Function v is defined on 0 .. n by recursion, from base and step F.
IsRecursive(v, n, S, base, F) ==
  /\ v \in [0 .. n -> S]
  /\ v[0] = base
  /\ \A i \in 1 .. n : v[i] = F[<<v[i - 1], i>>]

LEMMA RecursiveFunction ==
  ASSUME NEW S, NEW base \in S, NEW F \in [S \X Nat -> S], NEW n \in Nat
  PROVE  \E v : IsRecursive(v, n, S, base, F)
<1> DEFINE Rec(v, k) == \A i \in 0 .. k : v[i] = IF i = 0 THEN base ELSE F[<<v[i - 1], i>>]
           T == {k \in Nat : \E v \in [0 .. k -> S] : Rec(v, k)}
<1>1. 0 \in T
  <2> DEFINE v == [i \in 0 .. 0 |-> base]
  <2>1. v \in [0 .. 0 -> S] /\ Rec(v, 0)
    OBVIOUS
  <2> QED BY <2>1
<1>2. ASSUME NEW k \in Nat, k \in T PROVE k + 1 \in T
  <2>1. PICK v \in [0 .. k -> S] : Rec(v, k)
    BY <1>2
  <2> HIDE DEF T
  <2> DEFINE w == [i \in 0 .. k + 1 |-> IF i = k + 1 THEN F[<<v[k], k + 1>>] ELSE v[i]]
  <2>2. v[k] \in S /\ <<v[k], k + 1>> \in S \X Nat
    OBVIOUS
  <2>3. w \in [0 .. k + 1 -> S]
    BY <2>2
  <2>4. ASSUME NEW i \in 0 .. k + 1
        PROVE  w[i] = IF i = 0 THEN base ELSE F[<<w[i - 1], i>>]
    <3>1. CASE i = k + 1
      <4>1. w[k + 1] = F[<<v[k], k + 1>>] /\ w[k] = v[k]
        OBVIOUS
      <4>2. i # 0 /\ i - 1 = k
        BY <3>1
      <4> HIDE DEF w
      <4> QED BY <3>1, <4>1, <4>2
    <3>2. CASE i # k + 1 /\ i # 0
      <4>1. i \in 0 .. k /\ i - 1 \in 0 .. k
        BY <3>2
      <4>2. v[i] = F[<<v[i - 1], i>>]
        BY <2>1, <3>2, <4>1
      <4>3. w[i] = v[i] /\ w[i - 1] = v[i - 1]
        BY <3>2, <4>1
      <4> QED BY <3>2, <4>2, <4>3
    <3>3. CASE i = 0
      <4>1. w[0] = v[0]
        OBVIOUS
      <4>2. 0 \in 0 .. k
        OBVIOUS
      <4>3. v[0] = base
        BY <2>1, <4>2
      <4> QED BY <3>3, <4>1, <4>3
    <3> QED BY <3>1, <3>2, <3>3
  <2>5. Rec(w, k + 1)
    BY <2>4
  <2>6. \E u \in [0 .. k + 1 -> S] : Rec(u, k + 1)
    <3> HIDE DEF w, Rec
    <3> QED BY <2>3, <2>5
  <2> QED BY <2>6 DEF T
<1> HIDE DEF T
<1>3. n \in T
  BY <1>1, <1>2, Induction
<1>4. PICK v \in [0 .. n -> S] : Rec(v, n)
  BY <1>3 DEF T
<1>5. 0 \in 0 .. n /\ \A i \in 1 .. n : i \in 0 .. n /\ i # 0
  OBVIOUS
<1>6. v[0] = base /\ \A i \in 1 .. n : v[i] = F[<<v[i - 1], i>>]
  BY <1>4, <1>5
<1> QED BY <1>6 DEF IsRecursive

\* Function f follows the recursion as far as it stays in S.
Follows(f, n, S, base, F) ==
  /\ f[0] = base
  /\ \A i \in 1 .. n : f[i - 1] \in S => f[i] = F[<<f[i - 1], i>>]

LEMMA OnlyRecursion ==
  ASSUME NEW S, NEW base, NEW F, NEW n \in Nat, NEW v, IsRecursive(v, n, S, base, F),
         NEW f, Follows(f, n, S, base, F)
  PROVE  \A i \in 0 .. n : f[i] = v[i] /\ v[i] \in S
<1> DEFINE T == {i \in Nat : i <= n => f[i] = v[i] /\ v[i] \in S}
<1>1. /\ v \in [0 .. n -> S] /\ v[0] = base
      /\ \A i \in 1 .. n : v[i] = F[<<v[i - 1], i>>]
      /\ f[0] = base
      /\ \A i \in 1 .. n : f[i - 1] \in S => f[i] = F[<<f[i - 1], i>>]
  BY DEF IsRecursive, Follows
<1>2. 0 \in T
  <2>1. 0 \in 0 .. n
    OBVIOUS
  <2> QED BY <1>1, <2>1
<1>3. ASSUME NEW i \in Nat, i \in T PROVE i + 1 \in T
  <2>1. SUFFICES ASSUME i + 1 <= n PROVE f[i + 1] = v[i + 1] /\ v[i + 1] \in S
    OBVIOUS
  <2>2. i + 1 \in 1 .. n /\ i + 1 \in 0 .. n /\ (i + 1) - 1 = i
    BY <2>1
  <2>3. f[i] = v[i] /\ v[i] \in S
    BY <1>3, <2>1
  <2>4. v[i + 1] = F[<<v[i], i + 1>>]
    BY <1>1, <2>2
  <2>5. f[i + 1] = F[<<f[i], i + 1>>]
    BY <1>1, <2>2, <2>3
  <2> QED BY <1>1, <2>2, <2>3, <2>4, <2>5
<1> HIDE DEF T
<1>4. \A i \in Nat : i \in T
  BY <1>2, <1>3, Induction
<1> QED BY <1>4 DEF T

-----------------------------------------------------------------------------
(* Powers of two, as the number of subsets of a set                        *)

LEMMA PowerType == \A n \in Nat : 2^n \in Nat /\ 2^n > 0
<1> TAKE n \in Nat
<1>1. IsFiniteSet(1 .. n) /\ Cardinality(1 .. n) = n
  BY FS_Interval
<1>2. IsFiniteSet(SUBSET (1 .. n)) /\ Cardinality(SUBSET (1 .. n)) = 2^n
  BY <1>1, FS_SUBSET
<1>3. Cardinality(SUBSET (1 .. n)) # 0
  BY <1>2, FS_EmptySet
<1>4. 2^n \in Nat
  BY <1>2, FS_CardinalityType
<1> QED BY <1>2, <1>3, <1>4

LEMMA PowerSum == \A a, b \in Nat : 2^(a + b) = 2^a * 2^b
<1> TAKE a, b \in Nat
<1> DEFINE A == 1 .. a
           B == a + 1 .. a + b
           C == 1 .. a + b
           f == [p \in (SUBSET A) \X (SUBSET B) |-> p[1] \cup p[2]]
<1>1. /\ IsFiniteSet(A) /\ Cardinality(A) = a
      /\ IsFiniteSet(B) /\ Cardinality(B) = b
      /\ IsFiniteSet(C) /\ Cardinality(C) = a + b
  <2>1. ASSUME NEW x \in Int, NEW y \in Int, x <= y + 1
        PROVE  IsFiniteSet(x .. y) /\ Cardinality(x .. y) = y - x + 1
    <3>1. IsFiniteSet(x .. y) /\ Cardinality(x .. y) = IF x > y THEN 0 ELSE y - x + 1
      BY FS_Interval
    <3> QED BY <2>1, <3>1
  <2>2. IsFiniteSet(A) /\ Cardinality(A) = a - 1 + 1
    BY <2>1
  <2>3. IsFiniteSet(B) /\ Cardinality(B) = (a + b) - (a + 1) + 1
    BY <2>1
  <2>4. IsFiniteSet(C) /\ Cardinality(C) = (a + b) - 1 + 1
    BY <2>1
  <2> QED BY <2>2, <2>3, <2>4
<1>2. C = A \cup B /\ A \cap B = {}
  OBVIOUS
<1> HIDE DEF A, B, C
<1>3. f \in Bijection((SUBSET A) \X (SUBSET B), SUBSET C)
  <2>1. f \in [(SUBSET A) \X (SUBSET B) -> SUBSET C]
    BY <1>2
  <2>2. \A p, q \in (SUBSET A) \X (SUBSET B) : f[p] = f[q] => p = q
    <3> TAKE p, q \in (SUBSET A) \X (SUBSET B)
    <3>1. p[1] = f[p] \cap A /\ p[2] = f[p] \cap B /\ q[1] = f[q] \cap A /\ q[2] = f[q] \cap B
      BY <1>2
    <3>2. p = <<p[1], p[2]>> /\ q = <<q[1], q[2]>>
      OBVIOUS
    <3> HIDE DEF f
    <3> QED BY <3>1, <3>2
  <2>3. \A X \in SUBSET C : \E p \in (SUBSET A) \X (SUBSET B) : f[p] = X
    <3> TAKE X \in SUBSET C
    <3>1. <<X \cap A, X \cap B>> \in (SUBSET A) \X (SUBSET B)
      OBVIOUS
    <3>2. f[<<X \cap A, X \cap B>>] = X
      BY <1>2, <3>1
    <3> QED BY <3>1, <3>2
  <2> QED BY <2>1, <2>2, <2>3, Fun_IsBij
<1>4. /\ IsFiniteSet(SUBSET A) /\ IsFiniteSet(SUBSET B)
      /\ Cardinality(SUBSET A) = 2^a /\ Cardinality(SUBSET B) = 2^b
      /\ Cardinality(SUBSET C) = 2^(a + b)
  BY <1>1, FS_SUBSET
<1>5. /\ IsFiniteSet((SUBSET A) \X (SUBSET B))
      /\ Cardinality((SUBSET A) \X (SUBSET B)) = 2^a * 2^b
  BY <1>4, FS_Product
<1>6. ExistsBijection((SUBSET A) \X (SUBSET B), SUBSET C)
  BY <1>3, Fun_ExistsBij
<1> QED BY <1>4, <1>5, <1>6, FS_Bijection

LEMMA PowerNext == \A n \in Nat : 2^(n + 1) = 2 * 2^n
<1> TAKE n \in Nat
<1>1. 2^(n + 1) = 2^n * 2^1
  BY PowerSum
<1>2. 2^1 = 2
  OBVIOUS
<1> QED BY <1>1, <1>2, PowerType

-----------------------------------------------------------------------------
(* Division                                                                *)

LEMMA Division ==
  ASSUME NEW x \in Int, NEW d \in Nat, d > 0
  PROVE  /\ x \div d \in Int /\ x % d \in 0 .. d - 1
         /\ x = (x \div d) * d + (x % d)
<1> QED OBVIOUS

LEMMA Quotient ==
  ASSUME NEW x \in Int, NEW d \in Nat, d > 0, NEW q \in Int, NEW r \in 0 .. d - 1,
         x = q * d + r
  PROVE  x \div d = q /\ x % d = r
<1> QED OBVIOUS

LEMMA DivideTwice ==
  ASSUME NEW x \in Int, NEW d \in Nat, d > 0, NEW e \in Nat, e > 0
  PROVE  (x \div d) \div e = x \div (d * e)
<1>1. PICK q \in Int, r \in 0 .. d - 1 : q = x \div d /\ x = q * d + r
  BY Division
<1>2. PICK p \in Int, s \in 0 .. e - 1 : p = q \div e /\ q = p * e + s
  BY Division
<1>3. x = p * (d * e) + (s * d + r)
  <2>1. (p * e + s) * d = p * (d * e) + s * d
    OBVIOUS
  <2> QED BY <1>1, <1>2, <2>1
<1>4. s * d + r \in 0 .. d * e - 1
  <2>1. s * d >= 0 /\ (s + 1) * d <= e * d
    OBVIOUS
  <2>2. (s + 1) * d = s * d + d
    OBVIOUS
  <2> QED BY <2>1, <2>2
<1>5. d * e \in Nat /\ d * e > 0
  OBVIOUS
<1>6. x \div (d * e) = p
  BY <1>3, <1>4, <1>5, Quotient
<1> QED BY <1>1, <1>2, <1>6
=============================================================================
