---------------------------- MODULE PowersOfTwo ----------------------------
(* Powers of two, which the provers know only for exponents that are         *)
(* numerals: 2 ^ n is the number of subsets of a set of n elements.  Then    *)
(* induction and recursion, quotients and remainders, and the values made of *)
(* them.                                                                     *)
EXTENDS ZahlValues, FiniteSetTheorems, WellFoundedInduction, TLAPS

(* A set of n elements has 2 ^ n subsets.                                    *)
LEMMA Subsets ==
  ASSUME NEW n \in Nat
  PROVE  /\ IsFiniteSet(SUBSET (1 .. n))
         /\ Cardinality(SUBSET (1 .. n)) = 2 ^ n
<1>1. IsFiniteSet(1 .. n) /\ Cardinality(1 .. n) = n
  BY FS_Interval
<1>. QED
  BY <1>1, FS_SUBSET

(* The powers of two are positive numbers.                                   *)
LEMMA Positive == \A n \in Nat : 2 ^ n \in Nat /\ 2 ^ n >= 1
<1>. SUFFICES ASSUME NEW n \in Nat PROVE 2 ^ n \in Nat /\ 2 ^ n >= 1
  OBVIOUS
<1>1. 2 ^ n \in Nat
  BY Subsets, FS_CardinalityType
<1>2. 2 ^ n # 0
  <2>1. SUBSET (1 .. n) # {}
    BY {} \in SUBSET (1 .. n)
  <2>2. Cardinality(SUBSET (1 .. n)) # 0
    BY <2>1, Subsets, FS_EmptySet
  <2>. QED
    BY <2>2, Subsets
<1>. QED
  BY <1>1, <1>2

(* One element more doubles the number of subsets.                           *)
LEMMA Doubling == \A n \in Nat : 2 ^ (n + 1) = 2 * 2 ^ n
<1>. SUFFICES ASSUME NEW n \in Nat PROVE 2 ^ (n + 1) = 2 * 2 ^ n
  OBVIOUS
<1>. DEFINE S == SUBSET (1 .. n)
            T == SUBSET (1 .. n + 1)
            with == [s \in S |-> s \cup {n + 1}]
<1>1. /\ IsFiniteSet(S) /\ Cardinality(S) = 2 ^ n
      /\ IsFiniteSet(T) /\ Cardinality(T) = 2 ^ (n + 1)
  BY Subsets
<1>2. 1 .. n + 1 = (1 .. n) \cup {n + 1} /\ n + 1 \notin 1 .. n
  OBVIOUS
<1>3. with \in Bijection(S, T \ S)
  <2>1. \A s \in S : with[s] = s \cup {n + 1} /\ with[s] \in T \ S
    BY <1>2
  <2>2. \A s, t \in S : with[s] = with[t] => s = t
    <3>. SUFFICES ASSUME NEW s \in S, NEW t \in S, with[s] = with[t] PROVE s = t
      OBVIOUS
    <3>1. s = with[s] \ {n + 1} /\ t = with[t] \ {n + 1}
      BY <1>2, <2>1
    <3>. QED
      BY <3>1
  <2>3. \A t \in T \ S : \E s \in S : with[s] = t
    <3>. SUFFICES ASSUME NEW t \in T \ S PROVE \E s \in S : with[s] = t
      OBVIOUS
    <3>1. t \ {n + 1} \in S /\ n + 1 \in t
      BY <1>2
    <3>2. with[t \ {n + 1}] = t
      BY <2>1, <3>1
    <3>. QED
      BY <3>1, <3>2
  <2>. QED
    BY <2>1, <2>2, <2>3 DEF Bijection, Injection, Surjection, IsInjective
<1>4. IsFiniteSet(T \ S) /\ Cardinality(T \ S) = Cardinality(S)
  BY <1>1, <1>3, FS_Bijection DEF ExistsBijection
<1>5. T = S \cup (T \ S) /\ S \cap (T \ S) = {}
  BY <1>2
<1>6. Cardinality(T) = Cardinality(S) + Cardinality(T \ S)
  <2>1. Cardinality(S \cap (T \ S)) = 0
    BY <1>5, FS_EmptySet
  <2>2. Cardinality(S) \in Nat /\ Cardinality(T \ S) \in Nat
    BY <1>1, <1>4, FS_CardinalityType
  <2>3. Cardinality(S \cup (T \ S))
          = Cardinality(S) + Cardinality(T \ S) - Cardinality(S \cap (T \ S))
    BY <1>1, <1>4, FS_Union
  <2>4. Cardinality(T) = Cardinality(S \cup (T \ S))
    BY <1>5, Zenon
  <2>. QED
    BY <2>1, <2>2, <2>3, <2>4
<1>. QED
  BY <1>1, <1>4, <1>6, Positive

(* Every set of numbers that is not empty has a least element.               *)
LEMMA Least ==
  ASSUME NEW T \in SUBSET Nat, T # {}
  PROVE  \E x \in T : \A y \in T : x <= y
<1>. DEFINE R == OpToRel(<, Nat)
<1>1. IsWellFoundedOn(R, Nat)
  BY NatLessThanWellFounded
<1>2. \A x, y \in Nat : <<y, x>> \in R <=> y < x
  BY DEF OpToRel
<1>. HIDE DEF R
<1>3. PICK x \in T : \A y \in T : ~ (<<y, x>> \in R)
  BY <1>1, WFMin
<1>4. \A y \in T : x \in Nat /\ y \in Nat /\ ~ (y < x)
  BY <1>2, <1>3
<1>. QED
  BY <1>3, <1>4

(* A power of two exceeds its exponent.                                      *)
LEMMA Exceeds == \A n \in Nat : n < 2 ^ n
<1>. DEFINE T == { n \in Nat : ~ (n < 2 ^ n) }
<1>. SUFFICES ASSUME T # {} PROVE FALSE
  OBVIOUS
<1>1. PICK n \in T : \A m \in T : n <= m
  BY Least
<1>2. n # 0
  BY <1>1, Positive
<1>. DEFINE m == n - 1
<1>3. n \in Nat /\ m \in Nat /\ n = m + 1 /\ m \notin T
  BY <1>1, <1>2
<1>4. m < 2 ^ m /\ 2 ^ (m + 1) = 2 * 2 ^ m /\ 2 ^ m \in Nat
  BY <1>3, Doubling, Positive
<1>5. m + 1 < 2 ^ (m + 1)
  BY <1>3, <1>4
<1>. QED
  BY <1>1, <1>3, <1>5

(* Every number but 0 lies between two consecutive powers of two.            *)
LEMMA Between ==
  ASSUME NEW n \in Nat \ {0}
  PROVE  \E i \in 0 .. n : 2 ^ i <= n /\ n < 2 ^ (i + 1)
<1>. DEFINE T == { i \in Nat : n < 2 ^ (i + 1) }
<1>1. n - 1 \in T
  <2>1. n < 2 ^ n /\ n - 1 \in Nat /\ n - 1 + 1 = n
    BY Exceeds
  <2>. QED
    BY <2>1
<1>2. PICK i \in T : \A j \in T : i <= j
  BY <1>1, Least
<1>3. i \in 0 .. n /\ n < 2 ^ (i + 1)
  BY <1>1, <1>2
<1>4. 2 ^ i <= n
  <2>1. CASE i = 0
    <3>1. 2 ^ 0 = 1
      OBVIOUS
    <3>2. 2 ^ i = 1
      BY <2>1, <3>1
    <3>. QED
      BY <3>2
  <2>2. CASE i # 0
    <3>. DEFINE j == i - 1
    <3>1. j \in Nat /\ j + 1 = i /\ j \notin T
      BY <1>2, <2>2
    <3>2. ~ (n < 2 ^ (j + 1))
      BY <3>1
    <3>3. ~ (n < 2 ^ i) /\ 2 ^ i \in Nat
      BY <1>3, <3>1, <3>2, Positive
    <3>. QED
      BY <3>3
  <2>. QED
    BY <2>1, <2>2
<1>. QED
  BY <1>3, <1>4

(* A greater exponent does not make a power smaller.                         *)
LEMMA Monotone == \A m, n \in Nat : m <= n => 2 ^ m <= 2 ^ n
<1>. SUFFICES ASSUME NEW m \in Nat PROVE \A n \in Nat : m <= n => 2 ^ m <= 2 ^ n
  OBVIOUS
<1>. DEFINE T == { n \in Nat : m <= n /\ ~ (2 ^ m <= 2 ^ n) }
<1>. SUFFICES ASSUME T # {} PROVE FALSE
  OBVIOUS
<1>1. PICK n \in T : \A k \in T : n <= k
  BY Least
<1>. DEFINE k == n - 1
<1>2. n # m
  <2>1. 2 ^ m \in Nat
    BY Positive
  <2>. QED
    BY <1>1, <2>1
<1>3. k \in Nat /\ n = k + 1 /\ m <= k /\ k \notin T
  BY <1>1, <1>2
<1>4. 2 ^ m <= 2 ^ k /\ 2 ^ (k + 1) = 2 * 2 ^ k /\ 2 ^ k \in Nat /\ 2 ^ m \in Nat
  BY <1>3, Doubling, Positive
<1>5. 2 ^ m <= 2 ^ (k + 1)
  BY <1>4
<1>. QED
  BY <1>1, <1>3, <1>5

(* The power of a sum is the product of the powers.                          *)
LEMMA PowerOfSum == \A m, n \in Nat : 2 ^ (m + n) = 2 ^ m * 2 ^ n
<1>. SUFFICES ASSUME NEW m \in Nat PROVE \A n \in Nat : 2 ^ (m + n) = 2 ^ m * 2 ^ n
  OBVIOUS
<1>. DEFINE T == { n \in Nat : 2 ^ (m + n) # 2 ^ m * 2 ^ n }
<1>. SUFFICES ASSUME T # {} PROVE FALSE
  OBVIOUS
<1>1. PICK n \in T : \A k \in T : n <= k
  BY Least
<1>. DEFINE k == n - 1
<1>2. n # 0
  <2>1. 2 ^ (m + 0) = 2 ^ m * 2 ^ 0
    <3>1. 2 ^ 0 = 1 /\ m + 0 = m /\ 2 ^ m \in Nat
      BY Positive
    <3>. DEFINE p == 2 ^ m
    <3>2. p * 1 = p
      BY <3>1
    <3>. QED
      BY <3>1, <3>2
  <2>. QED
    BY <1>1, <2>1
<1>3. k \in Nat /\ n = k + 1 /\ k \notin T
  BY <1>1, <1>2
<1>. DEFINE p == 2 ^ m
            q == 2 ^ k
<1>4. 2 ^ (m + k) = p * q /\ p \in Nat /\ q \in Nat
  BY <1>3, Positive
<1>5. 2 ^ ((m + k) + 1) = 2 * 2 ^ (m + k) /\ 2 ^ (k + 1) = 2 * q
  BY <1>3, Doubling
<1>6. (m + k) + 1 = m + n
  BY <1>3
<1>. HIDE DEF p, q, k, T
<1>7. 2 * (p * q) = p * (2 * q)
  BY <1>4
<1>8. 2 ^ (m + n) = 2 * (p * q)
  BY <1>4, <1>5, <1>6
<1>9. 2 ^ n = 2 * q
  BY <1>3, <1>5
<1>10. 2 ^ (m + n) = p * 2 ^ n
  BY <1>7, <1>8, <1>9
<1>. QED
  BY <1>1, <1>10 DEF T, p

-----------------------------------------------------------------------------
(* Counting up, and what a recursion defines.                              *)

(* What holds of 0 and of the next number holds of all.                    *)
LEMMA Induct ==
  ASSUME NEW n \in Nat, NEW T, 0 \in T, \A i \in 0 .. n - 1 : i \in T => i + 1 \in T
  PROVE  n \in T
<1>. DEFINE Out == { i \in 0 .. n : i \notin T }
<1>. SUFFICES ASSUME Out # {} PROVE FALSE
  OBVIOUS
<1>1. Out \in SUBSET Nat
  OBVIOUS
<1>2. PICK m \in Out : \A y \in Out : m <= y
  <2>. HIDE DEF Out
  <2>. QED
    BY <1>1, Least
<1>3. m # 0 /\ m \in 0 .. n /\ m \notin T
  BY <1>2
<1>4. m - 1 \in 0 .. n - 1 /\ m - 1 \notin Out
  BY <1>2, <1>3
<1>. QED
  BY <1>3, <1>4

(* What g yields when it is applied again and again.                       *)
Iterates(X, x, n, g, v) ==
  v \in [0 .. n -> X] /\ v[0] = x /\ \A i \in 1 .. n : v[i] = g[<<i, v[i - 1]>>]

LEMMA Iterated ==
  ASSUME NEW X, NEW x, NEW n \in Nat, NEW g, x \in X, g \in [(1 .. n) \X X -> X]
  PROVE  \E v : Iterates(X, x, n, g, v)
<1>. DEFINE Goes(m, v) == v[0] = x /\ \A i \in 1 .. m : v[i] = g[<<i, v[i - 1]>>]
            T == { m \in 0 .. n : \E v \in [0 .. m -> X] : Goes(m, v) }
<1>1. 0 \in T
  <2>. DEFINE v == [i \in 0 .. 0 |-> x]
  <2>1. v \in [0 .. 0 -> X] /\ v[0] = x
    OBVIOUS
  <2>2. 1 .. 0 = {} /\ 0 \in 0 .. n
    OBVIOUS
  <2>. HIDE DEF v
  <2>3. Goes(0, v)
    BY <2>1, <2>2
  <2>. QED
    BY <2>1, <2>2, <2>3
<1>2. ASSUME NEW m \in 0 .. n - 1, m \in T PROVE m + 1 \in T
  <2>1. PICK v \in [0 .. m -> X] : Goes(m, v)
    BY <1>2
  <2>. DEFINE u == [i \in 0 .. m + 1 |-> IF i = m + 1 THEN g[<<m + 1, v[m]>>] ELSE v[i]]
  <2>2. g[<<m + 1, v[m]>>] \in X
    <3>1. <<m + 1, v[m]>> \in (1 .. n) \X X
      OBVIOUS
    <3>. QED
      BY <3>1
  <2>3. u \in [0 .. m + 1 -> X]
    BY <2>2
  <2>4. u[0] = x
    BY <2>1
  <2>5. ASSUME NEW i \in 1 .. m + 1 PROVE u[i] = g[<<i, u[i - 1]>>]
    <3>1. i - 1 \in 0 .. m /\ i - 1 # m + 1
      OBVIOUS
    <3>2. u[i - 1] = v[i - 1]
      BY <3>1
    <3>3. CASE i = m + 1
      <4>1. u[i] = g[<<i, v[i - 1]>>]
        BY <3>3
      <4>. QED
        BY <3>2, <4>1
    <3>4. CASE i # m + 1
      <4>1. i \in 1 .. m /\ u[i] = v[i]
        BY <3>4
      <4>. QED
        BY <2>1, <3>2, <4>1
    <3>. QED
      BY <3>3, <3>4
  <2>. HIDE DEF u
  <2>6. Goes(m + 1, u)
    BY <2>4, <2>5
  <2>7. m + 1 \in 0 .. n
    OBVIOUS
  <2>. QED
    BY <2>3, <2>6, <2>7
<1>. HIDE DEF Goes
<1>3. n \in T
  <2>. HIDE DEF T
  <2>. QED
    BY <1>1, <1>2, Induct
<1>. QED
  BY <1>3 DEF Goes, Iterates

-----------------------------------------------------------------------------
(* What \div and % are.                                                    *)
LEMMA DivMod ==
  ASSUME NEW a \in Int, NEW b \in Nat \ {0}
  PROVE  /\ a \div b \in Int /\ a % b \in 0 .. b - 1
         /\ a = b * (a \div b) + (a % b)
         /\ a >= 0 => a \div b \in Nat /\ a \div b <= a
<1>1. a \div b \in Int /\ a % b \in 0 .. b - 1 /\ a = b * (a \div b) + (a % b)
  OBVIOUS
<1>2. a >= 0 => a \div b \in Nat
  <2>1. a \div b < 0 => b * (a \div b) <= - b
    BY <1>1
  <2>. QED
    BY <1>1, <2>1
<1>3. a >= 0 => b * (a \div b) >= a \div b
  BY <1>2
<1>. QED
  BY <1>1, <1>2, <1>3

(* Of numbers that are not negative.                                       *)
LEMMA DivModNat ==
  ASSUME NEW a \in Nat, NEW b \in Nat \ {0}
  PROVE  /\ a \div b \in Nat /\ a % b \in 0 .. b - 1
         /\ a = b * (a \div b) + (a % b) /\ a \div b <= a
<1>1. a \in Int /\ a >= 0
  OBVIOUS
<1>. QED
  BY ONLY <1>1, DivMod, b \in Nat \ {0}

(* There is one quotient with a remainder.                                 *)
LEMMA DivUnique ==
  ASSUME NEW b \in Nat \ {0}, NEW q \in Int, NEW r \in 0 .. b - 1
  PROVE  (q * b + r) \div b = q /\ (q * b + r) % b = r
<1>. DEFINE a == q * b + r
<1>1. a \in Int /\ a \div b \in Int /\ a % b \in 0 .. b - 1 /\ a = b * (a \div b) + (a % b)
  BY DivMod
<1>2. a = b * q + r
  OBVIOUS
<1>. HIDE DEF a
<1>3. b * (q - a \div b) = (a % b) - r
  BY <1>1, <1>2
<1>4. ~ (q - a \div b >= 1) /\ ~ (q - a \div b <= -1)
  BY <1>1, <1>3
<1>5. q = a \div b
  BY <1>1, <1>4
<1>. QED
  BY <1>1, <1>2, <1>5 DEF a

(* A value is a sign and a magnitude.                                      *)
LEMMA Magnitude ==
  ASSUME NEW v \in Int
  PROVE  /\ Abs(v) \in Nat /\ (v # 0 => Abs(v) \in Nat \ {0})
         /\ Sign(v) \in {-1, 0, 1} /\ v = Sign(v) * Abs(v)
         /\ v >= 0 => Abs(v) = v
         /\ v # 0 => Sign(v) \in {-1, 1}
  BY DEF Abs, Sign

(* The product of a sign and a magnitude.                                  *)
LEMMA SignTimes ==
  ASSUME NEW s \in {-1, 0, 1}, NEW m \in Int
  PROVE  s * m \in Int /\ (s = 1 => s * m = m) /\ (s = -1 => s * m = - m) /\ (s = 0 => s * m = 0)
  OBVIOUS

(* The bits of a number are what its magnitude needs.                      *)
LEMMA BitsOf ==
  ASSUME NEW v \in Int
  PROVE  /\ Bits(v) \in Nat /\ Bits(v) >= 1
         /\ Abs(v) < 2 ^ Bits(v)
         /\ v # 0 => 2 ^ (Bits(v) - 1) <= Abs(v)
<1>1. CASE v = 0
  <2>1. Bits(v) = 1 /\ Abs(v) = 0
    BY <1>1 DEF Bits, Abs
  <2>. QED
    BY <1>1, <2>1, Positive
<1>2. CASE v # 0
  <2>. DEFINE m == Abs(v)
              Fits(k) == 2 ^ (k - 1) <= m /\ m < 2 ^ k
  <2>1. m \in Nat \ {0}
    BY <1>2, Magnitude
  <2>2. PICK i \in 0 .. m : 2 ^ i <= m /\ m < 2 ^ (i + 1)
    BY <2>1, Between
  <2>3. i < 2 ^ i
    BY <2>2, Exceeds
  <2>4. i + 1 \in 1 .. m /\ (i + 1) - 1 = i
    BY <2>1, <2>2, <2>3, Positive
  <2>5. Fits(i + 1)
    BY <2>2, <2>4
  <2>6. Bits(v) = CHOOSE k \in 1 .. m : Fits(k)
    BY <1>2 DEF Bits
  <2>. HIDE DEF Fits, m
  <2>7. Bits(v) \in 1 .. m /\ Fits(Bits(v))
    BY <2>4, <2>5, <2>6
  <2>. QED
    BY <2>1, <2>7 DEF Fits, m
<1>. QED
  BY <1>1, <1>2
=============================================================================
