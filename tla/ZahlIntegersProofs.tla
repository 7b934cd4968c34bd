------------------------- MODULE ZahlIntegersProofs -------------------------
(* What libzahl computes limb by limb, for numbers of any length and limbs *)
(* of any width: proofs about ZahlIntegers.                                *)
(*                                                                         *)
(* The invariants follow from TypeOK, which is inductive.  Each operation  *)
(* has a lemma that says what it gives, or leaves; below them are those    *)
(* about carries, borrows, shifts and bits, each an induction over limbs.  *)
EXTENDS ZahlIntegers, TLAPS

Powers == INSTANCE PowersOfTwo

-----------------------------------------------------------------------------
(* Limbs and what they are worth.                                          *)

W(i) == 2 ^ (BitsPerChar * i)   \* what the limb above i others is worth

LEMMA Widths ==
  /\ BitsPerChar \in Nat /\ BitsPerChar >= 1
  /\ Base \in Nat /\ Base >= 2 /\ W(0) = 1
  /\ \A i \in Nat : W(i) \in Nat /\ W(i) >= 1 /\ W(i + 1) = W(i) * Base
<1>1. BitsPerChar \in Nat /\ BitsPerChar >= 1
  BY BitsAssumption
<1>2. Base \in Nat /\ Base >= 2
  <2>1. 2 ^ (BitsPerChar - 1) \in Nat /\ 2 ^ (BitsPerChar - 1) >= 1 /\ BitsPerChar - 1 \in Nat
    BY <1>1, Powers!Positive
  <2>2. 2 ^ ((BitsPerChar - 1) + 1) = 2 * 2 ^ (BitsPerChar - 1)
    BY <2>1, Powers!Doubling
  <2>3. (BitsPerChar - 1) + 1 = BitsPerChar
    BY <1>1
  <2>. QED
    BY <2>1, <2>2, <2>3 DEF Base
<1>3. W(0) = 1
  <2>1. BitsPerChar * 0 = 0
    BY <1>1
  <2>2. 2 ^ 0 = 1
    OBVIOUS
  <2>. QED
    BY <2>1, <2>2 DEF W
<1>4. ASSUME NEW i \in Nat PROVE W(i) \in Nat /\ W(i) >= 1 /\ W(i + 1) = W(i) * Base
  <2>. DEFINE k == BitsPerChar * i
  <2>1. k \in Nat /\ BitsPerChar * (i + 1) = k + BitsPerChar
    BY <1>1
  <2>2. W(i) = 2 ^ k /\ W(i + 1) = 2 ^ (k + BitsPerChar)
    BY <2>1 DEF W
  <2>. HIDE DEF k
  <2>3. 2 ^ k \in Nat /\ 2 ^ k >= 1 /\ 2 ^ (k + BitsPerChar) = 2 ^ k * 2 ^ BitsPerChar
    BY <1>1, <2>1, Powers!Positive, Powers!PowerOfSum
  <2>. QED
    BY <2>2, <2>3 DEF Base
<1>. QED
  BY <1>1, <1>2, <1>3, <1>4

(* The value of the lowest n limbs of s.                                   *)
Totals(s, n, v) ==
  /\ v \in [0 .. n -> Int] /\ v[0] = 0
  /\ \A i \in 1 .. n : v[i] = v[i - 1] + At(s, i) * W(i - 1)
Low(s, n) == (CHOOSE v : Totals(s, n, v))[n]

LEMMA AtInt ==
  ASSUME NEW s \in Seq(Int), NEW i \in Nat \ {0}
  PROVE  At(s, i) \in Int
BY DEF At

LEMMA TotalsExist ==
  ASSUME NEW s \in Seq(Int), NEW n \in Nat
  PROVE  \E v : Totals(s, n, v)
<1>. DEFINE g == [p \in (1 .. n) \X Int |-> p[2] + At(s, p[1]) * W(p[1] - 1)]
<1>1. ASSUME NEW i \in 1 .. n, NEW k \in Int
      PROVE  k + At(s, i) * W(i - 1) \in Int
  <2>1. At(s, i) \in Int /\ i - 1 \in Nat
    BY AtInt
  <2>2. W(i - 1) \in Int
    BY <2>1, Widths
  <2>. QED
    BY <2>1, <2>2
<1>2. g \in [(1 .. n) \X Int -> Int]
  BY <1>1
<1>3. \A i \in 1 .. n, k \in Int : g[<<i, k>>] = k + At(s, i) * W(i - 1)
  OBVIOUS
<1>. HIDE DEF g
<1>4. PICK v : Powers!Iterates(Int, 0, n, g, v)
  <2>1. 0 \in Int
    OBVIOUS
  <2>. QED
    BY <1>2, <2>1, Powers!Iterated, Zenon
<1>5. \A i \in 1 .. n : v[i - 1] \in Int
  BY <1>4 DEF Powers!Iterates
<1>6. Totals(s, n, v)
  BY <1>3, <1>4, <1>5 DEF Totals, Powers!Iterates
<1>. QED
  BY <1>6

(* Sequences with the same limbs up to the n-th.                           *)
Alike(s, t, n) == \A i \in 1 .. n : At(s, i) = At(t, i)

LEMMA TotalsAgree ==
  ASSUME NEW s, NEW t, NEW k \in Nat, NEW n \in Nat, NEW u, NEW v,
         Totals(s, k, u), Totals(t, n, v), k <= n, Alike(s, t, k)
  PROVE  u[k] = v[k]
<1>. DEFINE T == { i \in 0 .. k : u[i] = v[i] }
<1>1. 0 \in T
  BY DEF Totals
<1>2. ASSUME NEW i \in 0 .. k - 1, i \in T PROVE i + 1 \in T
  <2>1. i + 1 \in 1 .. k /\ i + 1 \in 1 .. n /\ (i + 1) - 1 = i
    OBVIOUS
  <2>2. u[i + 1] = u[i] + At(s, i + 1) * W(i) /\ v[i + 1] = v[i] + At(t, i + 1) * W(i)
    BY <2>1 DEF Totals
  <2>3. At(s, i + 1) = At(t, i + 1) /\ u[i] = v[i]
    BY <1>2, <2>1 DEF Alike
  <2>4. u[i + 1] = v[i + 1]
    BY <2>2, <2>3
  <2>. QED
    BY <2>1, <2>4
<1>3. k \in T
  <2>. HIDE DEF T
  <2>. QED
    BY <1>1, <1>2, Powers!Induct
<1>. QED
  BY <1>3

LEMMA LowIs ==
  ASSUME NEW s \in Seq(Int), NEW n \in Nat
  PROVE  /\ Low(s, 0) = 0 /\ Low(s, n) \in Int
         /\ Low(s, n + 1) = Low(s, n) + At(s, n + 1) * W(n)
<1>. DEFINE u(m) == CHOOSE v : Totals(s, m, v)
<1>1. \A m \in Nat : Totals(s, m, u(m)) /\ Low(s, m) = u(m)[m]
  BY TotalsExist DEF Low
<1>. HIDE DEF u
<1>2. Low(s, 0) = 0
  BY <1>1 DEF Totals
<1>3. Low(s, n) \in Int
  <2>1. n \in 0 .. n
    OBVIOUS
  <2>. QED
    BY <1>1, <2>1 DEF Totals
<1>4. n + 1 \in 1 .. n + 1 /\ n + 1 \in Nat /\ (n + 1) - 1 = n /\ n <= n + 1
  OBVIOUS
<1>5. u(n + 1)[n + 1] = u(n + 1)[n] + At(s, n + 1) * W(n)
  BY <1>1, <1>4 DEF Totals
<1>6. Totals(s, n, u(n)) /\ Totals(s, n + 1, u(n + 1))
  BY <1>1, <1>4
<1>7. u(n + 1)[n] = u(n)[n]
  <2>1. Alike(s, s, n)
    BY DEF Alike
  <2>. QED
    BY <1>4, <1>6, <2>1, TotalsAgree
<1>. QED
  BY <1>1, <1>2, <1>3, <1>4, <1>5, <1>7

LEMMA LowSame ==
  ASSUME NEW s \in Seq(Int), NEW t \in Seq(Int), NEW n \in Nat, Alike(s, t, n)
  PROVE  Low(s, n) = Low(t, n)
<1>. DEFINE u == CHOOSE v : Totals(s, n, v)
            w == CHOOSE v : Totals(t, n, v)
<1>1. Totals(s, n, u) /\ Totals(t, n, w)
  BY TotalsExist
<1>. HIDE DEF u, w
<1>2. n <= n
  OBVIOUS
<1>3. u[n] = w[n]
  BY <1>1, <1>2, TotalsAgree
<1>. QED
  BY <1>3 DEF Low, u, w

(* Magnitude is the value of all limbs.                                    *)
LEMMA MagnitudeIs ==
  ASSUME NEW s \in Seq(Int)
  PROVE  Magnitude(s) = Low(s, Len(s))
<1>. DEFINE n == Len(s)
            UpTo(v) == v = [i \in 0 .. n |-> IF i = 0 THEN 0
                                             ELSE v[i - 1] + s[i] * 2 ^ (BitsPerChar * (i - 1))]
            u == CHOOSE v : UpTo(v)
            w == CHOOSE v : Totals(s, n, v)
<1>1. Magnitude(s) = u[n]
  BY DEF Magnitude
<1>2. n \in Nat
  OBVIOUS
<1>3. \A i \in 1 .. n : At(s, i) = s[i]
  BY DEF At
<1>4. Totals(s, n, w)
  BY <1>2, TotalsExist
<1>. HIDE DEF w, n
<1>5. UpTo(w)
  <2>1. w = [i \in 0 .. n |-> w[i]]
    BY <1>4 DEF Totals
  <2>2. ASSUME NEW i \in 0 .. n
        PROVE  w[i] = IF i = 0 THEN 0 ELSE w[i - 1] + s[i] * 2 ^ (BitsPerChar * (i - 1))
    <3>1. CASE i = 0
      BY <1>4, <3>1 DEF Totals
    <3>2. CASE i # 0
      <4>1. i \in 1 .. n
        BY <1>2, <3>2
      <4>. QED
        BY <1>3, <1>4, <3>2, <4>1 DEF Totals, W
    <3>. QED
      BY <3>1, <3>2
  <2>. QED
    BY <2>1, <2>2
<1>6. UpTo(u)
  BY <1>5
<1>. HIDE DEF u
<1>7. u[0] = 0 /\ \A i \in 1 .. n : u[i] = u[i - 1] + At(s, i) * W(i - 1)
  BY <1>2, <1>3, <1>6 DEF W
<1>. DEFINE T == { i \in 0 .. n : u[i] = w[i] }
<1>8. 0 \in T
  BY <1>2, <1>4, <1>7 DEF Totals
<1>9. ASSUME NEW i \in 0 .. n - 1, i \in T PROVE i + 1 \in T
  <2>1. i + 1 \in 1 .. n /\ (i + 1) - 1 = i /\ i + 1 \in 0 .. n
    BY <1>2
  <2>2. u[i + 1] = u[i] + At(s, i + 1) * W(i) /\ w[i + 1] = w[i] + At(s, i + 1) * W(i)
    BY <1>4, <1>7, <2>1 DEF Totals
  <2>. QED
    BY <1>9, <2>1, <2>2
<1>10. n \in T
  <2>. HIDE DEF T
  <2>. QED
    BY <1>2, <1>8, <1>9, Powers!Induct
<1>11. u[n] = w[n]
  BY <1>10
<1>. QED
  BY <1>1, <1>11 DEF Low, w, n

-----------------------------------------------------------------------------
(* Limbs and the values they make.                                         *)

LEMMA Products ==
  ASSUME NEW p \in Int, NEW q \in Int, NEW r \in Int
  PROVE  /\ p * q \in Int /\ p * q = q * p
         /\ (p + q) * r = p * r + q * r /\ (p - q) * r = p * r - q * r
         /\ (p * q) * r = p * (q * r)
OBVIOUS

LEMMA NatProduct == ASSUME NEW p \in Nat, NEW q \in Nat PROVE p * q \in Nat
OBVIOUS

LEMMA LimbInt == Limb \subseteq Nat /\ Limb \subseteq Int /\ 0 \in Limb
BY Widths DEF Limb

LEMMA SeqLimb ==
  ASSUME NEW s \in Seq(Limb)
  PROVE  /\ s \in Seq(Int) /\ Len(s) \in Nat
         /\ \A i \in Nat \ {0} : At(s, i) \in Limb /\ At(s, i) \in Nat /\ At(s, i) < Base
         /\ \A i \in 1 .. Len(s) : At(s, i) = s[i] /\ s[i] \in Limb
         /\ \A i \in Nat \ {0} : i > Len(s) => At(s, i) = 0
<1>1. Len(s) \in Nat /\ s = [i \in 1 .. Len(s) |-> s[i]] /\ \A i \in 1 .. Len(s) : s[i] \in Limb
  OBVIOUS
<1>2. s \in Seq(Int)
  BY <1>1, LimbInt
<1>3. \A i \in 1 .. Len(s) : At(s, i) = s[i]
  BY <1>1 DEF At
<1>4. \A i \in Nat \ {0} : i > Len(s) => At(s, i) = 0
  BY <1>1 DEF At
<1>5. \A i \in Nat \ {0} : At(s, i) \in Limb
  BY <1>1, LimbInt DEF At
<1>6. \A k \in Limb : k \in Nat /\ k < Base
  BY Widths DEF Limb
<1>. QED
  BY <1>1, <1>2, <1>3, <1>4, <1>5, <1>6

(* Beyond the limbs of s nothing is added.                                 *)
LEMMA LowBeyond ==
  ASSUME NEW s \in Seq(Int), NEW n \in Nat, n >= Len(s)
  PROVE  Low(s, n) = Magnitude(s)
<1>. DEFINE l == Len(s)
            T == { k \in 0 .. n - l : Low(s, l + k) = Low(s, l) }
<1>1. l \in Nat /\ n - l \in Nat
  OBVIOUS
<1>2. 0 \in T
  BY <1>1
<1>3. ASSUME NEW k \in 0 .. (n - l) - 1, k \in T PROVE k + 1 \in T
  <2>1. l + k \in Nat /\ l + (k + 1) = (l + k) + 1 /\ k + 1 \in 0 .. n - l
    BY <1>1
  <2>2. At(s, (l + k) + 1) = 0
    BY <1>1 DEF At
  <2>3. Low(s, (l + k) + 1) = Low(s, l + k) + 0 * W(l + k) /\ Low(s, l + k) \in Int
    BY <2>1, <2>2, LowIs
  <2>4. W(l + k) \in Nat
    BY <2>1, Widths
  <2>. QED
    BY <1>3, <2>1, <2>3, <2>4
<1>4. n - l \in T
  <2>. HIDE DEF T
  <2>. QED
    BY <1>1, <1>2, <1>3, Powers!Induct
<1>5. l + (n - l) = n
  BY <1>1
<1>. QED
  BY <1>4, <1>5, MagnitudeIs

(* A digit more.                                                           *)
LEMMA Digit ==
  ASSUME NEW w \in Nat, NEW b \in Nat, NEW l \in Nat, l < w, NEW d \in Nat, d < b
  PROVE  l + d * w \in Nat /\ l + d * w < w * b
<1>. DEFINE e == b - 1 - d
<1>1. e \in Nat /\ b = e + 1 + d
  OBVIOUS
<1>. HIDE DEF e
<1>2. e * w \in Nat /\ d * w \in Nat
  BY <1>1, NatProduct
<1>3. w * b = e * w + w + d * w
  BY <1>1, <1>2
<1>. QED
  BY <1>2, <1>3

LEMMA LowBound ==
  ASSUME NEW s \in Seq(Limb), NEW n \in Nat
  PROVE  Low(s, n) \in Nat /\ Low(s, n) < W(n)
<1>. DEFINE T == { i \in 0 .. n : Low(s, i) \in Nat /\ Low(s, i) < W(i) }
<1>0. s \in Seq(Int)
  BY SeqLimb
<1>1. 0 \in T
  <2>1. Low(s, 0) = 0 /\ W(0) = 1 /\ 0 \in 0 .. n
    BY <1>0, LowIs, Widths
  <2>. QED
    BY <2>1
<1>2. ASSUME NEW i \in 0 .. n - 1, i \in T PROVE i + 1 \in T
  <2>1. i \in Nat /\ i + 1 \in Nat \ {0} /\ i + 1 \in 0 .. n
    OBVIOUS
  <2>2. Low(s, i + 1) = Low(s, i) + At(s, i + 1) * W(i)
    BY <1>0, <2>1, LowIs
  <2>3. At(s, i + 1) \in Nat /\ At(s, i + 1) < Base
    BY <2>1, SeqLimb
  <2>4. W(i) \in Nat /\ Base \in Nat /\ W(i + 1) = W(i) * Base
    BY <2>1, Widths
  <2>5. Low(s, i) \in Nat /\ Low(s, i) < W(i)
    BY <1>2
  <2>6. Low(s, i) + At(s, i + 1) * W(i) \in Nat /\ Low(s, i) + At(s, i + 1) * W(i) < W(i) * Base
    BY <2>3, <2>4, <2>5, Digit
  <2>. QED
    BY <2>1, <2>2, <2>4, <2>6
<1>3. n \in T
  <2>. HIDE DEF T
  <2>. QED
    BY <1>1, <1>2, Powers!Induct
<1>. QED
  BY <1>3

LEMMA MagnitudeNat ==
  ASSUME NEW s \in Seq(Limb)
  PROVE  /\ Magnitude(s) \in Nat /\ Magnitude(s) < W(Len(s))
         /\ \A n \in Nat : n >= Len(s) => Magnitude(s) = Low(s, n) /\ Magnitude(s) < W(n)
<1>1. s \in Seq(Int) /\ Len(s) \in Nat
  BY SeqLimb
<1>2. \A n \in Nat : n >= Len(s) => Magnitude(s) = Low(s, n)
  BY <1>1, LowBeyond
<1>3. \A n \in Nat : Low(s, n) \in Nat /\ Low(s, n) < W(n)
  BY LowBound
<1>4. Len(s) >= Len(s)
  BY <1>1
<1>. QED
  BY <1>1, <1>2, <1>3, <1>4

(* The same limbs, but for zeros above them, make the same value.          *)
LEMMA SameMagnitude ==
  ASSUME NEW s \in Seq(Limb), NEW t \in Seq(Limb), \A i \in Nat \ {0} : At(s, i) = At(t, i)
  PROVE  Magnitude(s) = Magnitude(t)
<1>. DEFINE n == Len(s) + Len(t)
<1>1. s \in Seq(Int) /\ t \in Seq(Int) /\ n \in Nat /\ n >= Len(s) /\ n >= Len(t)
  BY SeqLimb
<1>. HIDE DEF n
<1>2. Alike(s, t, n)
  BY <1>1 DEF Alike
<1>3. Low(s, n) = Low(t, n)
  BY <1>1, <1>2, LowSame
<1>. QED
  BY <1>1, <1>3, LowBeyond

(* Nothing but zeros is worth nothing.                                     *)
LEMMA LowZero ==
  ASSUME NEW s \in Seq(Limb), NEW n \in Nat
  PROVE  Low(s, n) = 0 <=> \A i \in 1 .. n : At(s, i) = 0
<1>. DEFINE T == { m \in 0 .. n : Low(s, m) = 0 <=> \A i \in 1 .. m : At(s, i) = 0 }
<1>0. s \in Seq(Int)
  BY SeqLimb
<1>1. 0 \in T
  <2>1. Low(s, 0) = 0 /\ 1 .. 0 = {} /\ 0 \in 0 .. n
    BY <1>0, LowIs
  <2>. QED
    BY <2>1
<1>2. ASSUME NEW m \in 0 .. n - 1, m \in T PROVE m + 1 \in T
  <2>1. m \in Nat /\ m + 1 \in Nat \ {0} /\ m + 1 \in 0 .. n /\ 1 .. m + 1 = (1 .. m) \cup {m + 1}
    OBVIOUS
  <2>2. Low(s, m + 1) = Low(s, m) + At(s, m + 1) * W(m) /\ Low(s, m) \in Nat
    BY <1>0, <2>1, LowIs, LowBound
  <2>3. At(s, m + 1) \in Nat /\ W(m) \in Nat /\ W(m) >= 1
    BY <2>1, SeqLimb, Widths
  <2>4. At(s, m + 1) * W(m) \in Nat /\ (At(s, m + 1) * W(m) = 0 <=> At(s, m + 1) = 0)
    BY <2>3
  <2>5. Low(s, m + 1) = 0 <=> Low(s, m) = 0 /\ At(s, m + 1) = 0
    BY <2>2, <2>4
  <2>6. Low(s, m + 1) = 0 <=> \A i \in 1 .. m + 1 : At(s, i) = 0
    BY <1>2, <2>1, <2>5
  <2>. QED
    BY <2>1, <2>6
<1>3. n \in T
  <2>. HIDE DEF T
  <2>. QED
    BY <1>1, <1>2, Powers!Induct
<1>. QED
  BY <1>3

LEMMA MagnitudeZero ==
  ASSUME NEW s \in Seq(Limb)
  PROVE  /\ Magnitude(s) = 0 <=> \A i \in 1 .. Len(s) : s[i] = 0
         /\ Magnitude(s) = 0 <=> \A i \in Nat \ {0} : At(s, i) = 0
<1>1. Len(s) \in Nat /\ Magnitude(s) = Low(s, Len(s))
  BY SeqLimb, MagnitudeIs
<1>2. Magnitude(s) = 0 <=> \A i \in 1 .. Len(s) : At(s, i) = 0
  BY <1>1, LowZero
<1>3. \A i \in 1 .. Len(s) : At(s, i) = s[i]
  BY SeqLimb
<1>4. \A i \in Nat \ {0} : i \in 1 .. Len(s) \/ At(s, i) = 0
  BY <1>1, SeqLimb
<1>5. \A i \in 1 .. Len(s) : i \in Nat \ {0}
  BY <1>1
<1>. QED
  BY <1>2, <1>3, <1>4, <1>5

(* The highest limb decides how large a value is.                          *)
LEMMA TopLimb ==
  ASSUME NEW s \in Seq(Limb), Len(s) > 0, s[Len(s)] # 0
  PROVE  Len(s) - 1 \in Nat /\ Magnitude(s) >= W(Len(s) - 1) /\ Magnitude(s) > 0
<1>. DEFINE n == Len(s) - 1
<1>1. n \in Nat /\ n + 1 = Len(s) /\ s \in Seq(Int) /\ n + 1 \in 1 .. Len(s)
  BY SeqLimb
<1>. HIDE DEF n
<1>2. Magnitude(s) = Low(s, n) + At(s, n + 1) * W(n) /\ Low(s, n) \in Nat
  BY <1>1, MagnitudeIs, LowIs, LowBound
<1>3. At(s, n + 1) \in Nat /\ At(s, n + 1) # 0 /\ W(n) \in Nat /\ W(n) >= 1
  BY <1>1, SeqLimb, LimbInt, Widths
<1>4. At(s, n + 1) * W(n) >= W(n)
  BY <1>3
<1>. QED
  BY <1>1, <1>2, <1>3, <1>4 DEF n

(* Equal limbs make equal differences.                                     *)
LEMMA LowApart ==
  ASSUME NEW s \in Seq(Int), NEW t \in Seq(Int), NEW k \in Nat, NEW n \in Nat, k <= n,
         \A i \in k + 1 .. n : At(s, i) = At(t, i)
  PROVE  Low(s, n) - Low(t, n) = Low(s, k) - Low(t, k)
<1>. DEFINE T == { j \in 0 .. n - k : Low(s, k + j) - Low(t, k + j) = Low(s, k) - Low(t, k) }
<1>1. n - k \in Nat /\ k + (n - k) = n
  OBVIOUS
<1>2. 0 \in T
  BY <1>1
<1>3. ASSUME NEW j \in 0 .. (n - k) - 1, j \in T PROVE j + 1 \in T
  <2>1. k + j \in Nat /\ k + (j + 1) = (k + j) + 1 /\ j + 1 \in 0 .. n - k /\ (k + j) + 1 \in k + 1 .. n
    BY <1>1
  <2>2. /\ Low(s, (k + j) + 1) = Low(s, k + j) + At(s, (k + j) + 1) * W(k + j)
        /\ Low(t, (k + j) + 1) = Low(t, k + j) + At(t, (k + j) + 1) * W(k + j)
        /\ Low(s, k + j) \in Int /\ Low(t, k + j) \in Int
    BY <2>1, LowIs
  <2>3. At(s, (k + j) + 1) = At(t, (k + j) + 1)
    BY <2>1
  <2>. DEFINE p == At(s, (k + j) + 1) * W(k + j)
  <2>4. p \in Int
    <3>1. (k + j) + 1 \in Nat \ {0}
      BY <2>1
    <3>2. At(s, (k + j) + 1) \in Int
      BY <3>1, AtInt
    <3>3. W(k + j) \in Int
      BY <2>1, Widths
    <3>. QED
      BY <3>2, <3>3
  <2>. HIDE DEF p
  <2>5. /\ Low(s, (k + j) + 1) = Low(s, k + j) + p
        /\ Low(t, (k + j) + 1) = Low(t, k + j) + p
    BY <2>2, <2>3 DEF p
  <2>6. Low(s, k + j) - Low(t, k + j) = Low(s, k) - Low(t, k)
    BY <1>3
  <2>7. Low(s, k + (j + 1)) - Low(t, k + (j + 1)) = Low(s, k) - Low(t, k)
    BY <2>1, <2>2, <2>4, <2>5, <2>6
  <2>. QED
    BY <2>1, <2>7
<1>4. n - k \in T
  <2>. HIDE DEF T
  <2>. QED
    BY <1>1, <1>2, <1>3, Powers!Induct
<1>. QED
  BY <1>1, <1>4

-----------------------------------------------------------------------------
(* Least and greatest numbers, and trimming.                               *)

LEMMA MinIs ==
  ASSUME NEW S \in SUBSET Nat, S # {}
  PROVE  Min(S) \in S /\ Min(S) \in Nat /\ \A y \in S : Min(S) <= y
<1>1. PICK m \in S : \A y \in S : m <= y
  BY Powers!Least
<1>. QED
  BY <1>1 DEF Min

LEMMA MaxIs ==
  ASSUME NEW n \in Nat, NEW S \in SUBSET (0 .. n), S # {}
  PROVE  Max(S) \in S /\ Max(S) \in 0 .. n /\ \A y \in S : y <= Max(S)
<1>. DEFINE T == { i \in Nat : \E x \in S : i = n - x }
<1>1. \A x \in S : x \in Int /\ x <= n /\ n - x \in T
  OBVIOUS
<1>2. T \in SUBSET Nat /\ T # {}
  BY <1>1
<1>3. PICK m \in T : \A y \in T : m <= y
  <2>. HIDE DEF T
  <2>. QED
    BY <1>2, Powers!Least
<1>4. PICK x \in S : m = n - x
  BY <1>3
<1>5. \A y \in S : y <= x
  BY <1>1, <1>3, <1>4
<1>. QED
  BY <1>1, <1>4, <1>5 DEF Max

LEMMA Prefix ==
  ASSUME NEW s \in Seq(Limb), NEW k \in 0 .. Len(s)
  PROVE  /\ SubSeq(s, 1, k) \in Seq(Limb) /\ Len(SubSeq(s, 1, k)) = k
         /\ \A i \in 1 .. k : SubSeq(s, 1, k)[i] = s[i]
<1>1. \A i \in 1 .. k : s[i] \in Limb
  OBVIOUS
<1>. QED
  BY <1>1

(* Trimming takes zeros away: limb for limb the number stays the same.     *)
LEMMA Trim ==
  ASSUME NEW s \in Seq(Limb), NEW n \in Nat, NEW t, t = TrimTo(s, n)
  PROVE  /\ t \in Seq(Limb) /\ Len(t) \in Nat /\ Len(t) <= Len(s)
         /\ \A i \in Nat \ {0} : At(t, i) = At(s, i)
         /\ Magnitude(t) = Magnitude(s)
         /\ Len(s) <= n => t = s
         /\ Len(s) > n => Len(t) >= n
         /\ Len(t) > n => Len(s) > n /\ t[Len(t)] # 0
<1>. DEFINE S == {n} \cup { k \in n + 1 .. Len(s) : s[k] # 0 }
            m == Max(S)
<1>0. Len(s) \in Nat
  OBVIOUS
<1>1. CASE Len(s) <= n
  BY <1>0, <1>1 DEF TrimTo
<1>2. CASE Len(s) > n
  <2>1. S \in SUBSET (0 .. Len(s)) /\ S # {} /\ n \in S
    BY <1>0, <1>2
  <2>2. t = SubSeq(s, 1, m)
    <3>1. ~ (Len(s) <= n)
      BY <1>0, <1>2
    <3>. QED
      BY <3>1, Zenon DEF TrimTo
  <2>3. m \in S /\ m \in 0 .. Len(s) /\ \A y \in S : y <= m
    <3>. HIDE DEF S
    <3>. QED
      BY <1>0, <2>1, MaxIs
  <2>4. n <= m /\ (m > n => s[m] # 0 /\ m \in 1 .. Len(s))
    BY <1>0, <2>1, <2>3
  <2>5. ASSUME NEW i \in m + 1 .. Len(s) PROVE s[i] = 0
    <3>1. i \in n + 1 .. Len(s) /\ ~ (i <= m)
      BY <1>0, <2>3, <2>4
    <3>. QED
      BY <2>3, <3>1
  <2>. HIDE DEF m, S
  <2>6. t \in Seq(Limb) /\ Len(t) = m /\ \A i \in 1 .. m : t[i] = s[i]
    BY <2>2, <2>3, Prefix
  <2>7. ASSUME NEW i \in Nat \ {0} PROVE At(t, i) = At(s, i)
    <3>1. CASE i <= m
      BY <2>3, <2>6, <3>1, <1>0 DEF At
    <3>2. CASE i > m /\ i <= Len(s)
      BY <2>3, <2>5, <2>6, <3>2, <1>0 DEF At
    <3>3. CASE i > Len(s)
      BY <2>3, <2>6, <3>3, <1>0 DEF At
    <3>. QED
      BY <3>1, <3>2, <3>3, <2>3, <1>0
  <2>8. Magnitude(t) = Magnitude(s)
    BY <2>6, <2>7, SameMagnitude
  <2>9. m > n => t[m] # 0
    BY <2>4, <2>6, <2>3
  <2>. QED
    BY <1>0, <1>2, <2>3, <2>4, <2>6, <2>7, <2>8, <2>9
<1>. QED
  BY <1>0, <1>1, <1>2

(* All of it goes exactly when nothing is worth anything.                  *)
LEMMA TrimAll ==
  ASSUME NEW s \in Seq(Limb), NEW t, t = TrimTo(s, 0)
  PROVE  /\ t \in Seq(Limb) /\ Magnitude(t) = Magnitude(s) /\ Len(t) \in Nat /\ Len(t) <= Len(s)
         /\ \A i \in Nat \ {0} : At(t, i) = At(s, i)
         /\ t = <<>> <=> Magnitude(s) = 0
         /\ t # <<>> => Len(t) > 0 /\ t[Len(t)] # 0
<1>1. /\ t \in Seq(Limb) /\ Magnitude(t) = Magnitude(s) /\ Len(t) \in Nat /\ Len(t) <= Len(s)
      /\ \A i \in Nat \ {0} : At(t, i) = At(s, i)
      /\ Len(t) > 0 => t[Len(t)] # 0
  <2>1. 0 \in Nat
    OBVIOUS
  <2>. QED
    BY <2>1, Trim
<1>2. t # <<>> => Len(t) > 0
  BY <1>1
<1>3. t = <<>> => Magnitude(t) = 0
  <2>1. <<>> \in Seq(Limb) /\ Len(<<>>) = 0 /\ 1 .. 0 = {}
    OBVIOUS
  <2>. QED
    BY <2>1, MagnitudeZero
<1>4. t # <<>> => Magnitude(t) > 0
  BY <1>1, <1>2, TopLimb
<1>. QED
  BY <1>1, <1>2, <1>3, <1>4

-----------------------------------------------------------------------------
(* Comparison.                                                             *)

LEMMA WidthsGrow ==
  ASSUME NEW m \in Nat, NEW n \in Nat, m <= n
  PROVE  W(m) <= W(n)
<1>1. BitsPerChar \in Nat
  BY Widths
<1>2. BitsPerChar * m \in Nat /\ BitsPerChar * n \in Nat /\ BitsPerChar * (n - m) \in Nat
  <2>1. n - m \in Nat
    OBVIOUS
  <2>. QED
    BY <1>1, <2>1, NatProduct
<1>3. BitsPerChar * n = BitsPerChar * m + BitsPerChar * (n - m)
  BY <1>1
<1>4. BitsPerChar * m <= BitsPerChar * n
  BY <1>2, <1>3
<1>. QED
  BY <1>2, <1>4, Powers!Monotone DEF W

(* Numbers of which neither ends in a zero above the other.                *)
Level(s, t) == (Len(s) > Len(t) => s[Len(s)] # 0) /\ (Len(t) > Len(s) => t[Len(t)] # 0)

LEMMA Levelled ==
  ASSUME NEW s \in Seq(Limb), NEW t \in Seq(Limb)
  PROVE  Level(TrimTo(s, Len(t)), TrimTo(t, Len(s)))
<1>. DEFINE u == TrimTo(s, Len(t))
            v == TrimTo(t, Len(s))
<1>1. Len(s) \in Nat /\ Len(t) \in Nat
  OBVIOUS
<1>2. /\ Len(u) \in Nat /\ (Len(s) <= Len(t) => u = s) /\ (Len(s) > Len(t) => Len(u) >= Len(t))
      /\ (Len(u) > Len(t) => Len(s) > Len(t) /\ u[Len(u)] # 0)
  BY <1>1, Trim
<1>3. /\ Len(v) \in Nat /\ (Len(t) <= Len(s) => v = t) /\ (Len(t) > Len(s) => Len(v) >= Len(s))
      /\ (Len(v) > Len(s) => Len(t) > Len(s) /\ v[Len(v)] # 0)
  BY <1>1, Trim
<1>. HIDE DEF u, v
<1>4. Level(u, v)
  BY <1>1, <1>2, <1>3 DEF Level
<1>. QED
  BY <1>4 DEF u, v

LEMMA LongerIsLarger ==
  ASSUME NEW s \in Seq(Limb), NEW t \in Seq(Limb), Len(s) > Len(t), s[Len(s)] # 0
  PROVE  Magnitude(s) > Magnitude(t)
<1>1. Len(s) \in Nat /\ Len(t) \in Nat
  OBVIOUS
<1>2. Len(s) - 1 \in Nat /\ Magnitude(s) >= W(Len(s) - 1)
  BY <1>1, TopLimb
<1>3. Magnitude(t) < W(Len(t)) /\ Magnitude(t) \in Nat /\ Magnitude(s) \in Nat
  BY MagnitudeNat
<1>4. W(Len(t)) <= W(Len(s) - 1)
  BY <1>1, <1>2, WidthsGrow
<1>5. W(Len(t)) \in Nat /\ W(Len(s) - 1) \in Nat
  BY <1>1, <1>2, Widths
<1>. QED
  BY <1>2, <1>3, <1>4, <1>5

(* The highest limb that differs decides.                                  *)
LEMMA Decides ==
  ASSUME NEW s \in Seq(Limb), NEW t \in Seq(Limb), NEW n \in Nat, NEW k \in 1 .. n,
         At(s, k) > At(t, k), \A i \in k + 1 .. n : At(s, i) = At(t, i)
  PROVE  Low(s, n) > Low(t, n)
<1>. DEFINE j == k - 1
<1>0. j \in Nat /\ k \in Nat /\ k = j + 1 /\ k <= n /\ k \in Nat \ {0}
  OBVIOUS
<1>. HIDE DEF j
<1>1. s \in Seq(Int) /\ t \in Seq(Int)
  BY SeqLimb
<1>2. Low(s, n) - Low(t, n) = Low(s, k) - Low(t, k)
  BY <1>0, <1>1, LowApart
<1>3. Low(s, k) = Low(s, j) + At(s, k) * W(j) /\ Low(t, k) = Low(t, j) + At(t, k) * W(j)
  BY <1>0, <1>1, LowIs
<1>4. At(s, k) \in Nat /\ At(t, k) \in Nat /\ W(j) \in Nat /\ W(j) >= 1
  BY <1>0, SeqLimb, Widths
<1>5. Low(s, j) \in Nat /\ Low(t, j) \in Nat /\ Low(t, j) < W(j)
  BY <1>0, LowBound
<1>6. PICK d \in Nat : At(s, k) = At(t, k) + 1 + d
  <2>1. At(s, k) - At(t, k) - 1 \in Nat /\ At(s, k) = At(t, k) + 1 + (At(s, k) - At(t, k) - 1)
    BY <1>4
  <2>. QED
    BY <2>1
<1>. DEFINE p == At(t, k) * W(j)
            q == d * W(j)
<1>7. p \in Nat /\ q \in Nat /\ At(s, k) * W(j) = p + W(j) + q
  BY <1>4, <1>6, NatProduct
<1>8. Low(s, n) \in Nat /\ Low(t, n) \in Nat
  BY LowBound
<1>. HIDE DEF p, q
<1>9. Low(s, k) = Low(s, j) + (p + W(j) + q) /\ Low(t, k) = Low(t, j) + p
  BY <1>3, <1>7 DEF p
<1>10. Low(s, k) - Low(t, k) > 0
  BY <1>4, <1>5, <1>7, <1>9
<1>. QED
  BY <1>2, <1>8, <1>10

LEMMA CmpLimbsIs ==
  ASSUME NEW s \in Seq(Limb), NEW t \in Seq(Limb), Level(s, t)
  PROVE  CmpLimbs(s, t) = Sign(Magnitude(s) - Magnitude(t))
<1>. DEFINE n == Len(s)
            differ == { k \in 1 .. n : s[k] # t[k] }
            k == Max(differ)
<1>1. Magnitude(s) \in Nat /\ Magnitude(t) \in Nat /\ n \in Nat /\ Len(t) \in Nat
  BY MagnitudeNat
<1>2. CASE n > Len(t)
  <2>1. Magnitude(s) > Magnitude(t)
    BY <1>2, LongerIsLarger DEF Level
  <2>. QED
    BY <1>1, <1>2, <2>1 DEF CmpLimbs, Sign
<1>3. CASE n < Len(t)
  <2>1. Magnitude(t) > Magnitude(s)
    BY <1>3, <1>1, LongerIsLarger DEF Level
  <2>. QED
    BY <1>1, <1>3, <2>1 DEF CmpLimbs, Sign
<1>4. CASE n = Len(t)
  <2>0. s \in Seq(Int) /\ t \in Seq(Int)
    BY SeqLimb
  <2>1. \A i \in 1 .. n : At(s, i) = s[i] /\ At(t, i) = t[i] /\ s[i] \in Nat /\ t[i] \in Nat
    BY <1>4, SeqLimb, LimbInt
  <2>2. Magnitude(s) = Low(s, n) /\ Magnitude(t) = Low(t, n)
    BY <1>4, <2>0, MagnitudeIs
  <2>3. CASE differ = {}
    <3>1. Alike(s, t, n)
      BY <2>1, <2>3 DEF Alike
    <3>2. Magnitude(s) = Magnitude(t)
      BY <1>1, <2>0, <2>2, <3>1, LowSame
    <3>. QED
      BY <1>1, <1>4, <2>3, <3>2 DEF CmpLimbs, Sign
  <2>4. CASE differ # {}
    <3>1. differ \in SUBSET (0 .. n)
      BY <1>1
    <3>2. k \in differ /\ \A y \in differ : y <= k
      <4>. HIDE DEF differ
      <4>. QED
        BY <1>1, <2>4, <3>1, MaxIs
    <3>3. k \in 1 .. n /\ s[k] # t[k]
      BY <3>2
    <3>4. \A i \in k + 1 .. n : s[i] = t[i]
      <4>. SUFFICES ASSUME NEW i \in k + 1 .. n PROVE s[i] = t[i]
        OBVIOUS
      <4>1. i \in 1 .. n /\ ~ (i <= k)
        BY <1>1, <3>3
      <4>. QED
        BY <3>2, <4>1
    <3>5. CmpLimbs(s, t) = IF s[k] < t[k] THEN -1 ELSE 1
      BY <1>1, <1>4, <2>4 DEF CmpLimbs
    <3>. HIDE DEF k, differ
    <3>6. \A i \in k + 1 .. n : i \in 1 .. n
      BY <3>3
    <3>7. \A i \in k + 1 .. n : At(s, i) = At(t, i) /\ At(t, i) = At(s, i)
      BY <2>1, <3>4, <3>6
    <3>8. At(s, k) = s[k] /\ At(t, k) = t[k] /\ s[k] \in Nat /\ t[k] \in Nat
      BY <2>1, <3>3
    <3>9. CASE s[k] < t[k]
      <4>1. At(t, k) > At(s, k)
        BY <3>8, <3>9
      <4>2. Low(t, n) > Low(s, n)
        BY <1>1, <3>3, <3>7, <4>1, Decides
      <4>. QED
        BY <1>1, <2>2, <3>5, <3>9, <4>2 DEF Sign
    <3>10. CASE ~ (s[k] < t[k])
      <4>1. At(s, k) > At(t, k)
        BY <3>3, <3>8, <3>10
      <4>2. Low(s, n) > Low(t, n)
        BY <1>1, <3>3, <3>7, <4>1, Decides
      <4>. QED
        BY <1>1, <2>2, <3>5, <3>10, <4>2 DEF Sign
    <3>. QED
      BY <3>9, <3>10
  <2>. QED
    BY <2>3, <2>4
<1>. QED
  BY <1>1, <1>2, <1>3, <1>4

-----------------------------------------------------------------------------
(* Numbers one above the other.                                            *)

LEMMA LowNone == \A s \in Seq(Int) : Low(s, 0) = 0
<1>1. 0 \in Nat
  OBVIOUS
<1>. QED
  BY <1>1, LowIs

LEMMA WidthSum ==
  ASSUME NEW m \in Nat, NEW n \in Nat
  PROVE  W(m + n) = W(m) * W(n)
<1>1. BitsPerChar * m \in Nat /\ BitsPerChar * n \in Nat
  BY Widths, NatProduct
<1>2. BitsPerChar * (m + n) = BitsPerChar * m + BitsPerChar * n
  BY Widths
<1>. QED
  BY <1>1, <1>2, Powers!PowerOfSum DEF W

LEMMA Joint ==
  ASSUME NEW s \in Seq(Limb), NEW t \in Seq(Limb)
  PROVE  /\ s \o t \in Seq(Limb) /\ Len(s \o t) = Len(s) + Len(t)
         /\ \A i \in Nat \ {0} : i <= Len(s) => At(s \o t, i) = At(s, i)
         /\ \A i \in Nat \ {0} : At(s \o t, Len(s) + i) = At(t, i)
<1>. DEFINE u == s \o t
            m == Len(s)
            n == Len(t)
<1>1. /\ u \in Seq(Limb) /\ Len(u) = m + n /\ m \in Nat /\ n \in Nat
      /\ \A i \in 1 .. m : u[i] = s[i]
      /\ \A i \in 1 .. n : u[m + i] = t[i]
  OBVIOUS
<1>. HIDE DEF u
<1>2. ASSUME NEW i \in Nat \ {0}, i <= m PROVE At(u, i) = At(s, i)
  <2>1. i \in 1 .. m /\ i <= m + n
    BY <1>1, <1>2
  <2>. QED
    BY <1>1, <1>2, <2>1 DEF At
<1>3. ASSUME NEW i \in Nat \ {0} PROVE At(u, m + i) = At(t, i)
  <2>1. CASE i <= n
    <3>1. i \in 1 .. n /\ m + i <= m + n
      BY <1>1, <2>1
    <3>. QED
      BY <1>1, <2>1, <3>1 DEF At
  <2>2. CASE ~ (i <= n)
    <3>1. ~ (m + i <= m + n)
      BY <1>1, <2>2
    <3>. QED
      BY <1>1, <2>2, <3>1 DEF At
  <2>. QED
    BY <2>1, <2>2
<1>. QED
  BY <1>1, <1>2, <1>3 DEF u

(* The upper one counts in the width of the lower one.                     *)
LEMMA JointLow ==
  ASSUME NEW s \in Seq(Limb), NEW t \in Seq(Limb), NEW n \in Nat
  PROVE  Low(s \o t, Len(s) + n) = Magnitude(s) + W(Len(s)) * Low(t, n)
<1>. DEFINE u == s \o t
            m == Len(s)
            M == Magnitude(s)
            T == { k \in 0 .. n : Low(u, m + k) = M + W(m) * Low(t, k) }
<1>0. /\ s \in Seq(Int) /\ t \in Seq(Int) /\ m \in Nat /\ M \in Nat /\ M = Low(s, m)
      /\ u \in Seq(Limb) /\ u \in Seq(Int)
  BY SeqLimb, MagnitudeIs, MagnitudeNat, Joint
<1>1. /\ \A i \in Nat \ {0} : i <= m => At(u, i) = At(s, i)
      /\ \A i \in Nat \ {0} : At(u, m + i) = At(t, i)
  BY Joint
<1>2. W(m) \in Nat
  BY <1>0, Widths
<1>. HIDE DEF u, m, M
<1>3. 0 \in T
  <2>1. Alike(u, s, m)
    BY <1>0, <1>1 DEF Alike
  <2>2. Low(u, m) = M
    BY <1>0, <2>1, LowSame
  <2>3. Low(t, 0) = 0
    BY <1>0, LowNone
  <2>4. m + 0 = m /\ W(m) * 0 = 0 /\ M + 0 = M /\ 0 \in 0 .. n
    BY <1>0, <1>2
  <2>. QED
    BY <2>2, <2>3, <2>4
<1>4. ASSUME NEW k \in 0 .. n - 1, k \in T PROVE k + 1 \in T
  <2>1. /\ k \in Nat /\ m + k \in Nat /\ m + (k + 1) = (m + k) + 1 /\ k + 1 \in 0 .. n
        /\ k + 1 \in Nat \ {0}
    BY <1>0
  <2>. DEFINE x == At(t, k + 1)
              l == Low(t, k)
  <2>2. x \in Nat /\ l \in Nat /\ W(k) \in Nat /\ x * W(k) \in Nat
    BY <2>1, SeqLimb, LowBound, Widths, NatProduct
  <2>3. Low(u, m + (k + 1)) = Low(u, m + k) + x * W(m + k)
    BY <1>0, <1>1, <2>1, LowIs
  <2>4. Low(t, k + 1) = l + x * W(k)
    BY <1>0, <2>1, LowIs
  <2>5. W(m + k) = W(m) * W(k)
    BY <1>0, <2>1, WidthSum
  <2>6. Low(u, m + k) = M + W(m) * l
    BY <1>4
  <2>. HIDE DEF x, l
  <2>7. x * (W(m) * W(k)) = W(m) * (x * W(k)) /\ W(m) * (l + x * W(k)) = W(m) * l + W(m) * (x * W(k))
    <3>1. x * (W(m) * W(k)) = (x * W(m)) * W(k) /\ x * W(m) = W(m) * x
          /\ (W(m) * x) * W(k) = W(m) * (x * W(k))
      BY <1>2, <2>2, Products
    <3>2. W(m) * (l + x * W(k)) = W(m) * l + W(m) * (x * W(k))
      BY <1>2, <2>2
    <3>. QED
      BY <3>1, <3>2
  <2>8. W(m) * l \in Nat /\ W(m) * (x * W(k)) \in Nat
    BY <1>2, <2>2, NatProduct
  <2>9. Low(u, m + (k + 1)) = M + W(m) * Low(t, k + 1)
    BY <1>0, <2>3, <2>4, <2>5, <2>6, <2>7, <2>8
  <2>. QED
    BY <2>1, <2>9
<1>5. n \in T
  <2>. HIDE DEF T
  <2>. QED
    BY <1>3, <1>4, Powers!Induct
<1>. QED
  BY <1>5 DEF u, m, M

LEMMA JointMagnitude ==
  ASSUME NEW s \in Seq(Limb), NEW t \in Seq(Limb)
  PROVE  Magnitude(s \o t) = Magnitude(s) + W(Len(s)) * Magnitude(t)
<1>1. s \o t \in Seq(Int) /\ Len(s \o t) = Len(s) + Len(t) /\ t \in Seq(Int) /\ Len(t) \in Nat
  BY SeqLimb, Joint
<1>2. Magnitude(s \o t) = Low(s \o t, Len(s) + Len(t)) /\ Magnitude(t) = Low(t, Len(t))
  BY <1>1, MagnitudeIs
<1>. QED
  BY <1>1, <1>2, JointLow

-----------------------------------------------------------------------------
(* Addition.                                                               *)

LEMMA DigitSum ==
  ASSUME NEW x \in Limb, NEW y \in Limb, NEW c \in {0, 1}
  PROVE  /\ (x + y + c) \div Base \in {0, 1} /\ (x + y + c) % Base \in Limb
         /\ x + y + c = ((x + y + c) % Base) + ((x + y + c) \div Base) * Base
<1>1. Base \in Nat \ {0} /\ Base >= 2 /\ Limb = 0 .. Base - 1
  BY Widths DEF Limb
<1>. DEFINE z == x + y + c
            q == z \div Base
            r == z % Base
<1>2. z \in Int /\ z >= 0 /\ z < 2 * Base
  BY <1>1
<1>. HIDE DEF z
<1>3. q \in Int /\ r \in 0 .. Base - 1 /\ z = Base * q + r
  BY <1>1, <1>2, Powers!DivMod
<1>. HIDE DEF q, r
<1>4. ~ (q >= 2)
  <2>. SUFFICES ASSUME q >= 2 PROVE FALSE
    OBVIOUS
  <2>1. Base * q >= Base * 2
    BY <1>1, <1>3
  <2>. QED
    BY <1>1, <1>2, <1>3, <2>1
<1>5. ~ (q <= -1)
  <2>. SUFFICES ASSUME q <= -1 PROVE FALSE
    OBVIOUS
  <2>1. Base * q <= Base * (-1)
    BY <1>1, <1>3
  <2>. QED
    BY <1>1, <1>2, <1>3, <2>1
<1>6. q \in {0, 1}
  BY <1>3, <1>4, <1>5
<1>7. r \in Limb
  BY <1>1, <1>3
<1>8. z = r + q * Base
  BY <1>1, <1>3
<1>. QED
  BY <1>6, <1>7, <1>8 DEF z, q, r

LEMMA CarriesAre ==
  ASSUME NEW s \in Seq(Limb), NEW t \in Seq(Limb), NEW c, c = Carries(s, t)
  PROVE  /\ c[0] = 0 /\ \A i \in 0 .. Len(s) : c[i] \in {0, 1}
         /\ \A i \in 1 .. Len(s) : c[i] = (s[i] + At(t, i) + c[i - 1]) \div Base
<1>. DEFINE n == Len(s)
            Carry(v) == v = [i \in 0 .. n |-> IF i = 0 THEN 0
                                              ELSE (s[i] + At(t, i) + v[i - 1]) \div Base]
            g == [p \in (1 .. n) \X {0, 1} |-> (s[p[1]] + At(t, p[1]) + p[2]) \div Base]
<1>1. n \in Nat /\ \A i \in 1 .. n : s[i] \in Limb /\ At(t, i) \in Limb
  BY SeqLimb
<1>2. \A i \in 1 .. n : \A k \in {0, 1} : (s[i] + At(t, i) + k) \div Base \in {0, 1}
  BY <1>1, DigitSum
<1>3. g \in [(1 .. n) \X {0, 1} -> {0, 1}]
  BY <1>2
<1>4. \A i \in 1 .. n : \A k \in {0, 1} : g[<<i, k>>] = (s[i] + At(t, i) + k) \div Base
  OBVIOUS
<1>. HIDE DEF g, n
<1>5. PICK v : Powers!Iterates({0, 1}, 0, n, g, v)
  <2>. DEFINE X == {0, 1}
  <2>1. 0 \in X /\ g \in [(1 .. n) \X X -> X]
    BY <1>3
  <2>. HIDE DEF X
  <2>2. \E v : Powers!Iterates(X, 0, n, g, v)
    BY <1>1, <2>1, Powers!Iterated
  <2>. QED
    BY <2>2 DEF X
<1>6. \A i \in 1 .. n : v[i - 1] \in {0, 1}
  BY <1>1, <1>5 DEF Powers!Iterates
<1>7. Carry(v)
  <2>1. v = [i \in 0 .. n |-> v[i]] /\ v[0] = 0
    BY <1>5 DEF Powers!Iterates
  <2>2. \A i \in 1 .. n : v[i] = (s[i] + At(t, i) + v[i - 1]) \div Base
    BY <1>4, <1>5, <1>6 DEF Powers!Iterates
  <2>3. \A i \in 0 .. n : i = 0 \/ i \in 1 .. n
    BY <1>1
  <2>. QED
    BY <2>1, <2>2, <2>3
<1>8. Carry(c)
  <2>1. c = CHOOSE u : Carry(u)
    BY DEF Carries, n
  <2>. QED
    BY <1>7, <2>1
<1>9. c[0] = 0 /\ \A i \in 1 .. n : c[i] = (s[i] + At(t, i) + c[i - 1]) \div Base
  <2>1. 0 \in 0 .. n /\ \A i \in 1 .. n : i \in 0 .. n /\ i # 0
    BY <1>1
  <2>. QED
    BY <1>8, <2>1
<1>10. ASSUME NEW m \in 0 .. n PROVE c[m] \in {0, 1}
  <2>. DEFINE T == { i \in 0 .. m : c[i] \in {0, 1} }
  <2>1. 0 \in T
    BY <1>9
  <2>2. ASSUME NEW i \in 0 .. m - 1, i \in T PROVE i + 1 \in T
    <3>1. i + 1 \in 1 .. n /\ (i + 1) - 1 = i /\ i + 1 \in 0 .. m
      BY <1>1, <1>10
    <3>2. c[i + 1] = (s[i + 1] + At(t, i + 1) + c[i]) \div Base /\ c[i] \in {0, 1}
      BY <1>9, <2>2, <3>1
    <3>. QED
      BY <1>2, <3>1, <3>2
  <2>3. m \in T
    <3>1. m \in Nat
      BY <1>10, <1>1
    <3>. HIDE DEF T
    <3>. QED
      BY <2>1, <2>2, <3>1, Powers!Induct
  <2>. QED
    BY <2>3
<1>. QED
  BY <1>9, <1>10 DEF n

(* The limbs as far as s goes.                                             *)
LEMMA SumLow ==
  ASSUME NEW s \in Seq(Limb), NEW t \in Seq(Limb), NEW c, c = Carries(s, t),
         NEW d, d = [i \in 1 .. Len(s) |-> (s[i] + At(t, i) + c[i - 1]) % Base]
  PROVE  /\ d \in Seq(Limb) /\ Len(d) = Len(s)
         /\ Magnitude(d) + c[Len(s)] * W(Len(s)) = Low(s, Len(s)) + Low(t, Len(s))
<1>. DEFINE n == Len(s)
            T == { k \in 0 .. n : Low(d, k) + c[k] * W(k) = Low(s, k) + Low(t, k) }
<1>1. n \in Nat /\ \A i \in 1 .. n : s[i] \in Limb /\ At(t, i) \in Limb /\ At(s, i) = s[i]
  BY SeqLimb
<1>2. /\ c[0] = 0 /\ \A i \in 0 .. n : c[i] \in {0, 1}
      /\ \A i \in 1 .. n : c[i] = (s[i] + At(t, i) + c[i - 1]) \div Base
  BY CarriesAre
<1>3. \A i \in 1 .. n : c[i - 1] \in {0, 1}
  BY <1>1, <1>2
<1>4. \A i \in 1 .. n : (s[i] + At(t, i) + c[i - 1]) % Base \in Limb
  BY <1>1, <1>3, DigitSum
<1>. HIDE DEF n
<1>5. d = [i \in 1 .. n |-> (s[i] + At(t, i) + c[i - 1]) % Base]
  BY DEF n
<1>6. d \in Seq(Limb) /\ Len(d) = n
  BY <1>1, <1>4, <1>5
<1>7. s \in Seq(Int) /\ t \in Seq(Int) /\ d \in Seq(Int)
  BY <1>6, SeqLimb
<1>8. 0 \in T
  <2>1. Low(d, 0) = 0 /\ Low(s, 0) = 0 /\ Low(t, 0) = 0
    BY <1>7, LowNone
  <2>2. c[0] = 0 /\ W(0) = 1 /\ 0 \in 0 .. n
    BY <1>1, <1>2, Widths
  <2>. QED
    BY <2>1, <2>2
<1>9. ASSUME NEW k \in 0 .. n - 1, k \in T PROVE k + 1 \in T
  <2>1. k \in Nat /\ k + 1 \in 1 .. n /\ (k + 1) - 1 = k /\ k + 1 \in 0 .. n /\ k + 1 \in Nat \ {0} /\ k \in 0 .. n
    BY <1>1
  <2>. DEFINE x == At(s, k + 1)
              y == At(t, k + 1)
              r == At(d, k + 1)
              e == c[k + 1]
              w == W(k)
  <2>2. x = s[k + 1] /\ r = d[k + 1] /\ r \in Limb /\ x \in Limb /\ y \in Limb
    BY <1>1, <1>6, <2>1, SeqLimb
  <2>3. r = (x + y + c[k]) % Base /\ e = (x + y + c[k]) \div Base
    BY <1>2, <1>5, <2>1, <2>2
  <2>4. c[k] \in {0, 1} /\ e \in {0, 1}
    BY <1>2, <2>1
  <2>5. x + y + c[k] = r + e * Base
    BY <2>2, <2>3, <2>4, DigitSum
  <2>6. /\ Low(d, k + 1) = Low(d, k) + r * w /\ Low(s, k + 1) = Low(s, k) + x * w
        /\ Low(t, k + 1) = Low(t, k) + y * w
        /\ Low(d, k) \in Int /\ Low(s, k) \in Int /\ Low(t, k) \in Int
    BY <1>7, <2>1, LowIs
  <2>7. w \in Nat /\ W(k + 1) = w * Base /\ Base \in Nat
    BY <2>1, Widths
  <2>8. Low(d, k) + c[k] * w = Low(s, k) + Low(t, k)
    BY <1>9
  <2>9. x \in Nat /\ y \in Nat /\ r \in Nat
    BY <2>2, LimbInt
  <2>. HIDE DEF x, y, r, e, w
  <2>10. (x + y + c[k]) * w = x * w + y * w + c[k] * w
         /\ (r + e * Base) * w = r * w + e * (w * Base)
    BY <2>4, <2>7, <2>9
  <2>11. x * w \in Nat /\ y * w \in Nat /\ r * w \in Nat /\ e * (w * Base) \in Nat /\ c[k] * w \in Nat
    BY <2>4, <2>7, <2>9, NatProduct
  <2>12. Low(d, k + 1) + e * W(k + 1) = Low(s, k + 1) + Low(t, k + 1)
    <3>. DEFINE p == x * w
                q == y * w
                a == r * w
                b == e * (w * Base)
                f == c[k] * w
    <3>1. p \in Nat /\ q \in Nat /\ a \in Nat /\ b \in Nat /\ f \in Nat /\ p + q + f = a + b
      BY <2>5, <2>10, <2>11
    <3>2. Low(d, k + 1) = Low(d, k) + a /\ Low(s, k + 1) = Low(s, k) + p
          /\ Low(t, k + 1) = Low(t, k) + q /\ e * W(k + 1) = b
      BY <2>6, <2>7
    <3>3. Low(d, k) + f = Low(s, k) + Low(t, k)
      BY <2>8
    <3>4. Low(d, k) \in Int /\ Low(s, k) \in Int /\ Low(t, k) \in Int
      BY <2>6
    <3>. HIDE DEF p, q, a, b, f
    <3>5. (Low(d, k) + a) + b = (Low(s, k) + p) + (Low(t, k) + q)
      <4>1. Low(d, k) \in Int /\ Low(s, k) \in Int /\ Low(t, k) \in Int
        BY <3>4
      <4>2. p \in Int /\ q \in Int /\ a \in Int /\ b \in Int /\ f \in Int
        BY <3>1
      <4>3. p + q + f = a + b
        BY <3>1
      <4>4. (Low(d, k) + a) + b = Low(d, k) + (a + b)
        BY <4>1, <4>2
      <4>5. (Low(d, k) + a) + b = Low(d, k) + (p + q + f)
        BY <4>3, <4>4
      <4>6. Low(d, k) + (p + q + f) = (Low(d, k) + f) + (p + q)
        BY <4>1, <4>2
      <4>. QED
        BY <3>3, <4>1, <4>2, <4>5, <4>6
    <3>. QED
      BY <3>2, <3>5
  <2>. QED
    BY <2>1, <2>12 DEF e
<1>10. n \in T
  <2>. HIDE DEF T
  <2>. QED
    BY <1>1, <1>8, <1>9, Powers!Induct
<1>11. Magnitude(d) = Low(d, n)
  BY <1>6, <1>7, MagnitudeIs
<1>. QED
  BY <1>6, <1>10, <1>11 DEF n

LEMMA AddLimbsIs ==
  ASSUME NEW s \in Seq(Limb), NEW t \in Seq(Limb), Len(t) <= Len(s),
         NEW top \in Seq(Limb), Magnitude(top) # 0,
         NEW c, c = Carries(s, t)[Len(s)], NEW u, u = AddLimbs(s, t, top)
  PROVE  /\ u \in Seq(Limb) /\ c \in {0, 1}
         /\ c = 0 \/ Magnitude(top) = 1 => Magnitude(u) = Magnitude(s) + Magnitude(t)
         /\ c = 1 => Magnitude(u) # 0
<1>. DEFINE carry == Carries(s, t)
            n == Len(s)
            d == [i \in 1 .. n |-> (s[i] + At(t, i) + carry[i - 1]) % Base]
<1>1. n \in Nat /\ Len(t) \in Nat /\ n >= Len(t) /\ n >= n
  OBVIOUS
<1>2. /\ d \in Seq(Limb) /\ Len(d) = n
      /\ Magnitude(d) + carry[n] * W(n) = Low(s, n) + Low(t, n)
  BY SumLow
<1>3. Low(s, n) = Magnitude(s) /\ Low(t, n) = Magnitude(t)
  BY <1>1, MagnitudeNat
<1>4. c = carry[n] /\ c \in {0, 1}
  BY <1>1, CarriesAre
<1>5. u = d \o IF c = 0 THEN <<>> ELSE top
  BY <1>4 DEF AddLimbs
<1>6. Magnitude(d) \in Nat /\ Magnitude(top) \in Nat /\ W(n) \in Nat /\ W(n) >= 1
      /\ Magnitude(s) \in Nat /\ Magnitude(t) \in Nat
  BY <1>1, <1>2, MagnitudeNat, Widths
<1>. HIDE DEF d, carry
<1>7. CASE c = 0
  <2>1. u = d
    BY <1>2, <1>5, <1>7
  <2>2. carry[n] * W(n) = 0
    BY <1>4, <1>6, <1>7
  <2>. QED
    BY <1>2, <1>3, <1>6, <1>7, <2>1, <2>2
<1>8. CASE c = 1
  <2>1. u = d \o top
    BY <1>5, <1>8
  <2>2. u \in Seq(Limb) /\ Magnitude(u) = Magnitude(d) + W(n) * Magnitude(top)
    BY <1>2, <2>1, Joint, JointMagnitude
  <2>3. W(n) * Magnitude(top) >= 1
    BY <1>6
  <2>4. Magnitude(u) # 0
    BY <1>6, <2>2, <2>3
  <2>5. Magnitude(top) = 1 => Magnitude(u) = Magnitude(s) + Magnitude(t)
    <3>1. carry[n] * W(n) = W(n)
      BY <1>4, <1>6, <1>8
    <3>2. W(n) * 1 = W(n)
      BY <1>6
    <3>. QED
      BY <1>2, <1>3, <1>6, <2>2, <3>1, <3>2
  <2>. QED
    BY <1>8, <2>2, <2>4, <2>5
<1>. QED
  BY <1>4, <1>7, <1>8

LEMMA OneLimb ==
  ASSUME NEW l \in Limb
  PROVE  <<l>> \in Seq(Limb) /\ Magnitude(<<l>>) = l
<1>1. <<l>> \in Seq(Limb) /\ Len(<<l>>) = 1 /\ l \in Int /\ l \in Nat
  BY LimbInt
<1>2. <<l>> \in Seq(Int) /\ At(<<l>>, 0 + 1) = l
  BY <1>1 DEF At
<1>3. Low(<<l>>, 0 + 1) = Low(<<l>>, 0) + l * W(0) /\ Low(<<l>>, 0) = 0 /\ W(0) = 1
  BY <1>2, LowIs, Widths
<1>4. Magnitude(<<l>>) = Low(<<l>>, 0 + 1)
  <2>1. Len(<<l>>) = 0 + 1
    BY <1>1
  <2>. QED
    BY <1>2, <2>1, MagnitudeIs
<1>. QED
  BY <1>1, <1>3, <1>4

LEMMA TopsAre ==
  ASSUME NEW a, NEW b, NEW c, NEW top \in Tops(a, b, c)
  PROVE  top \in Seq(Limb) /\ Magnitude(top) # 0
<1>1. 1 \in Limb \ {0} /\ 0 \in Limb
  BY Widths DEF Limb
<1>2. \/ \E l \in Limb \ {0} : top = <<l>>
      \/ \E l \in Limb \ {0} : top = <<0, l>>
  BY <1>1 DEF Tops
<1>3. ASSUME NEW l \in Limb \ {0}, top = <<l>> PROVE top \in Seq(Limb) /\ Magnitude(top) # 0
  BY <1>3, OneLimb
<1>4. ASSUME NEW l \in Limb \ {0}, top = <<0, l>> PROVE top \in Seq(Limb) /\ Magnitude(top) # 0
  <2>1. top \in Seq(Limb) /\ Len(top) = 2 /\ top[2] # 0 /\ 2 \in 1 .. 2
    BY <1>1, <1>4
  <2>. QED
    BY <2>1, MagnitudeZero
<1>. QED
  BY <1>2, <1>3, <1>4

-----------------------------------------------------------------------------
(* Subtraction.                                                            *)

(* A number is its lowest n limbs and those above them.                    *)
Above(s, n) == SubSeq(s, n + 1, Len(s))

LEMMA Upper ==
  ASSUME NEW s \in Seq(Limb), NEW n \in 0 .. Len(s), NEW h, h = Above(s, n)
  PROVE  /\ h \in Seq(Limb) /\ Len(h) = Len(s) - n
         /\ \A i \in 1 .. Len(s) - n : h[i] = s[n + i]
         /\ \A i \in Nat \ {0} : At(h, i) = At(s, n + i)
         /\ Magnitude(s) = Low(s, n) + W(n) * Magnitude(h)
<1>. DEFINE m == Len(s)
            f == SubSeq(s, 1, n)
<1>1. m \in Nat /\ n \in Nat /\ n <= m /\ \A i \in 1 .. m : s[i] \in Limb
  OBVIOUS
<1>2. \A i \in 1 .. m - n : s[n + i] \in Limb
  <2>1. \A i \in 1 .. m - n : n + i \in 1 .. m
    BY <1>1
  <2>. QED
    BY <1>1, <2>1
<1>3. h \in Seq(Limb) /\ Len(h) = m - n /\ \A i \in 1 .. m - n : h[i] = s[n + i]
  <2>1. h = [i \in 1 .. (m - (n + 1)) + 1 |-> s[(n + 1) + i - 1]]
    BY <1>1 DEF Above
  <2>2. (m - (n + 1)) + 1 = m - n /\ \A i \in 1 .. m - n : (n + 1) + i - 1 = n + i
    BY <1>1
  <2>3. h = [i \in 1 .. m - n |-> s[n + i]]
    BY <2>1, <2>2
  <2>4. m - n \in Nat
    BY <1>1
  <2>. HIDE DEF m
  <2>. QED
    BY <1>2, <2>3, <2>4
<1>4. f \in Seq(Limb) /\ Len(f) = n /\ \A i \in 1 .. n : f[i] = s[i]
  BY Prefix
<1>. HIDE DEF f, m
<1>5. ASSUME NEW i \in Nat \ {0} PROVE At(h, i) = At(s, n + i)
  <2>1. CASE i <= m - n
    <3>1. i \in 1 .. m - n /\ n + i <= m
      BY <1>1, <2>1
    <3>. QED
      BY <1>3, <2>1, <3>1 DEF At, m
  <2>2. CASE ~ (i <= m - n)
    <3>1. ~ (n + i <= m)
      BY <1>1, <2>2
    <3>. QED
      BY <1>3, <2>2, <3>1 DEF At, m
  <2>. QED
    BY <2>1, <2>2
<1>6. /\ f \o h \in Seq(Limb)
      /\ \A i \in Nat \ {0} : i <= n => At(f \o h, i) = At(f, i)
      /\ \A i \in Nat \ {0} : At(f \o h, n + i) = At(h, i)
  <2>1. f \in Seq(Limb) /\ h \in Seq(Limb)
    BY <1>3, <1>4
  <2>2. /\ f \o h \in Seq(Limb)
        /\ \A i \in Nat \ {0} : i <= Len(f) => At(f \o h, i) = At(f, i)
        /\ \A i \in Nat \ {0} : At(f \o h, Len(f) + i) = At(h, i)
    BY <2>1, Joint
  <2>3. Len(f) = n
    BY <1>4
  <2>. QED
    BY <2>2, <2>3
<1>7. \A i \in 1 .. n : At(f, i) = At(s, i)
  <2>. SUFFICES ASSUME NEW i \in 1 .. n PROVE At(f, i) = At(s, i)
    OBVIOUS
  <2>1. i <= n /\ i <= m
    BY <1>1
  <2>. QED
    BY <1>4, <2>1 DEF At, m
<1>8. ASSUME NEW i \in Nat \ {0} PROVE At(f \o h, i) = At(s, i)
  <2>1. CASE i <= n
    <3>1. i \in 1 .. n
      BY <1>1, <2>1
    <3>. QED
      BY <1>6, <1>7, <2>1, <3>1
  <2>2. CASE ~ (i <= n)
    <3>1. i - n \in Nat \ {0} /\ n + (i - n) = i
      BY <1>1, <2>2
    <3>. QED
      BY <1>5, <1>6, <3>1
  <2>. QED
    BY <2>1, <2>2
<1>9. Magnitude(f \o h) = Magnitude(s)
  BY <1>6, <1>8, SameMagnitude
<1>10. Magnitude(f \o h) = Magnitude(f) + W(n) * Magnitude(h)
  BY <1>3, <1>4, JointMagnitude
<1>11. Magnitude(f) = Low(s, n)
  <2>1. s \in Seq(Int) /\ f \in Seq(Int)
    BY <1>4, SeqLimb
  <2>2. Alike(f, s, n)
    BY <1>7 DEF Alike
  <2>. QED
    BY <1>1, <1>4, <2>1, <2>2, LowSame, MagnitudeIs
<1>. QED
  BY <1>3, <1>5, <1>9, <1>10, <1>11 DEF m

LEMMA DigitDifference ==
  ASSUME NEW x \in Limb, NEW y \in Limb, NEW b \in {0, 1}
  PROVE  /\ (x - y - b) % Base \in Limb
         /\ x < y + b => ((x - y - b) % Base) + y + b = x + Base
         /\ ~ (x < y + b) => ((x - y - b) % Base) + y + b = x
<1>1. Base \in Nat \ {0} /\ Base >= 2 /\ Limb = 0 .. Base - 1
  BY Widths DEF Limb
<1>. DEFINE z == x - y - b
            q == z \div Base
            r == z % Base
<1>2. z \in Int /\ z >= - Base /\ z < Base /\ (z < 0 <=> x < y + b) /\ x = z + y + b
  BY <1>1
<1>3. x \in Int /\ y \in Int /\ b \in Int
  BY <1>1
<1>. HIDE DEF z
<1>4. q \in Int /\ r \in 0 .. Base - 1 /\ z = Base * q + r
  BY <1>1, <1>2, Powers!DivMod
<1>. HIDE DEF q, r
<1>5. ~ (q >= 1)
  <2>. SUFFICES ASSUME q >= 1 PROVE FALSE
    OBVIOUS
  <2>1. Base * q >= Base * 1
    BY <1>1, <1>4
  <2>. QED
    BY <1>1, <1>2, <1>4, <2>1
<1>6. ~ (q <= -2)
  <2>. SUFFICES ASSUME q <= -2 PROVE FALSE
    OBVIOUS
  <2>1. Base * q <= Base * (-2)
    BY <1>1, <1>4
  <2>. QED
    BY <1>1, <1>2, <1>4, <2>1
<1>7. q = 0 \/ q = -1
  BY <1>4, <1>5, <1>6
<1>8. CASE q = 0
  <2>1. z = r /\ ~ (x < y + b)
    BY <1>1, <1>2, <1>4, <1>8
  <2>. QED
    BY <1>1, <1>2, <1>3, <1>4, <2>1 DEF r, z
<1>9. CASE q = -1
  <2>1. z = r - Base /\ x < y + b
    BY <1>1, <1>2, <1>4, <1>9
  <2>2. r + y + b = x + Base
    BY <1>1, <1>2, <1>3, <1>4, <2>1
  <2>. QED
    BY <1>1, <1>3, <1>4, <2>1, <2>2 DEF r, z
<1>. QED
  BY <1>7, <1>8, <1>9

LEMMA BorrowsAre ==
  ASSUME NEW s, NEW t \in Seq(Limb), NEW b, b = Borrows(s, t)
  PROVE  /\ b[0] = 0 /\ \A i \in 0 .. Len(t) : b[i] \in {0, 1}
         /\ \A i \in 1 .. Len(t) : b[i] = IF s[i] < t[i] + b[i - 1] THEN 1 ELSE 0
<1>. DEFINE n == Len(t)
            Borrow(v) == v = [i \in 0 .. n |-> IF i = 0 THEN 0
                                ELSE IF s[i] < t[i] + v[i - 1] THEN 1 ELSE 0]
            g == [p \in (1 .. n) \X {0, 1} |-> IF s[p[1]] < t[p[1]] + p[2] THEN 1 ELSE 0]
<1>1. n \in Nat
  OBVIOUS
<1>3. g \in [(1 .. n) \X {0, 1} -> {0, 1}]
  OBVIOUS
<1>4. \A i \in 1 .. n : \A k \in {0, 1} : g[<<i, k>>] = IF s[i] < t[i] + k THEN 1 ELSE 0
  OBVIOUS
<1>. HIDE DEF g, n
<1>5. PICK v : Powers!Iterates({0, 1}, 0, n, g, v)
  <2>. DEFINE X == {0, 1}
  <2>1. 0 \in X /\ g \in [(1 .. n) \X X -> X]
    BY <1>3
  <2>. HIDE DEF X
  <2>2. \E v : Powers!Iterates(X, 0, n, g, v)
    BY <1>1, <2>1, Powers!Iterated
  <2>. QED
    BY <2>2 DEF X
<1>6. \A i \in 1 .. n : v[i - 1] \in {0, 1}
  BY <1>1, <1>5 DEF Powers!Iterates
<1>7. Borrow(v)
  <2>1. v = [i \in 0 .. n |-> v[i]] /\ v[0] = 0
    BY <1>5 DEF Powers!Iterates
  <2>2. \A i \in 1 .. n : v[i] = IF s[i] < t[i] + v[i - 1] THEN 1 ELSE 0
    BY <1>4, <1>5, <1>6 DEF Powers!Iterates
  <2>3. \A i \in 0 .. n : i = 0 \/ i \in 1 .. n
    BY <1>1
  <2>. QED
    BY <2>1, <2>2, <2>3
<1>8. Borrow(b)
  <2>1. b = CHOOSE u : Borrow(u)
    BY DEF Borrows, n
  <2>. QED
    BY <1>7, <2>1
<1>9. b[0] = 0 /\ \A i \in 1 .. n : b[i] = IF s[i] < t[i] + b[i - 1] THEN 1 ELSE 0
  <2>1. 0 \in 0 .. n /\ \A i \in 1 .. n : i \in 0 .. n /\ i # 0
    BY <1>1
  <2>. QED
    BY <1>8, <2>1
<1>10. \A i \in 0 .. n : b[i] \in {0, 1}
  <2>1. \A i \in 0 .. n : i = 0 \/ i \in 1 .. n
    BY <1>1
  <2>. QED
    BY <1>9, <2>1
<1>. QED
  BY <1>9, <1>10 DEF n

(* The limbs as far as t goes.                                             *)
LEMMA DifferenceLow ==
  ASSUME NEW s \in Seq(Limb), NEW t \in Seq(Limb), Len(t) <= Len(s), NEW b, b = Borrows(s, t),
         NEW d, d = [i \in 1 .. Len(t) |-> (s[i] - t[i] - b[i - 1]) % Base]
  PROVE  /\ d \in Seq(Limb) /\ Len(d) = Len(t)
         /\ Magnitude(d) + Magnitude(t) = Low(s, Len(t)) + b[Len(t)] * W(Len(t))
<1>. DEFINE n == Len(t)
            T == { k \in 0 .. n : Low(d, k) + Low(t, k) = Low(s, k) + b[k] * W(k) }
<1>1. /\ n \in Nat
      /\ \A i \in 1 .. n : s[i] \in Limb /\ t[i] \in Limb /\ At(s, i) = s[i] /\ At(t, i) = t[i]
  <2>1. n \in Nat /\ \A i \in 1 .. n : i \in 1 .. Len(s)
    OBVIOUS
  <2>. QED
    BY <2>1, SeqLimb
<1>2. /\ b[0] = 0 /\ \A i \in 0 .. n : b[i] \in {0, 1}
      /\ \A i \in 1 .. n : b[i] = IF s[i] < t[i] + b[i - 1] THEN 1 ELSE 0
  BY BorrowsAre
<1>3. \A i \in 1 .. n : b[i - 1] \in {0, 1}
  BY <1>1, <1>2
<1>4. \A i \in 1 .. n : (s[i] - t[i] - b[i - 1]) % Base \in Limb
  BY <1>1, <1>3, DigitDifference
<1>. HIDE DEF n
<1>5. d = [i \in 1 .. n |-> (s[i] - t[i] - b[i - 1]) % Base]
  BY DEF n
<1>6. d \in Seq(Limb) /\ Len(d) = n
  BY <1>1, <1>4, <1>5
<1>7. s \in Seq(Int) /\ t \in Seq(Int) /\ d \in Seq(Int)
  BY <1>6, SeqLimb
<1>8. 0 \in T
  <2>1. Low(d, 0) = 0 /\ Low(s, 0) = 0 /\ Low(t, 0) = 0
    BY <1>7, LowNone
  <2>2. b[0] = 0 /\ W(0) = 1 /\ 0 \in 0 .. n
    BY <1>1, <1>2, Widths
  <2>. QED
    BY <2>1, <2>2
<1>9. ASSUME NEW k \in 0 .. n - 1, k \in T PROVE k + 1 \in T
  <2>1. k \in Nat /\ k + 1 \in 1 .. n /\ (k + 1) - 1 = k /\ k + 1 \in 0 .. n /\ k + 1 \in Nat \ {0} /\ k \in 0 .. n
    BY <1>1
  <2>. DEFINE x == At(s, k + 1)
              y == At(t, k + 1)
              r == At(d, k + 1)
              e == b[k + 1]
              w == W(k)
  <2>2. x = s[k + 1] /\ y = t[k + 1] /\ r = d[k + 1] /\ r \in Limb /\ x \in Limb /\ y \in Limb
    BY <1>1, <1>6, <2>1, SeqLimb
  <2>3. r = (x - y - b[k]) % Base /\ e = IF x < y + b[k] THEN 1 ELSE 0
    BY <1>2, <1>5, <2>1, <2>2
  <2>4. b[k] \in {0, 1} /\ e \in {0, 1}
    BY <1>2, <2>1
  <2>5. r + y + b[k] = x + e * Base
    <3>. DEFINE o == b[k]
    <3>1. x \in Limb /\ y \in Limb /\ o \in {0, 1} /\ e = IF x < y + o THEN 1 ELSE 0
      BY <2>2, <2>3, <2>4
    <3>2. r = (x - y - o) % Base
      BY <2>3
    <3>. HIDE DEF x, y, r, e, o
    <3>3. (x < y + o => r + y + o = x + Base) /\ (~ (x < y + o) => r + y + o = x)
      BY <3>1, <3>2, DigitDifference
    <3>4. x \in Int /\ Base \in Int
      BY <3>1, LimbInt, Widths
    <3>5. r + y + o = x + e * Base
      BY <3>1, <3>3, <3>4
    <3>. QED
      BY <3>5 DEF o
  <2>6. /\ Low(d, k + 1) = Low(d, k) + r * w /\ Low(s, k + 1) = Low(s, k) + x * w
        /\ Low(t, k + 1) = Low(t, k) + y * w
        /\ Low(d, k) \in Int /\ Low(s, k) \in Int /\ Low(t, k) \in Int
    BY <1>7, <2>1, LowIs
  <2>7. w \in Nat /\ W(k + 1) = w * Base /\ Base \in Nat
    BY <2>1, Widths
  <2>8. Low(d, k) + Low(t, k) = Low(s, k) + b[k] * w
    BY <1>9
  <2>9. x \in Nat /\ y \in Nat /\ r \in Nat
    BY <2>2, LimbInt
  <2>. HIDE DEF x, y, r, e, w
  <2>10. (r + y + b[k]) * w = r * w + y * w + b[k] * w
         /\ (x + e * Base) * w = x * w + e * (w * Base)
    BY <2>4, <2>7, <2>9
  <2>11. x * w \in Nat /\ y * w \in Nat /\ r * w \in Nat /\ e * (w * Base) \in Nat /\ b[k] * w \in Nat
    BY <2>4, <2>7, <2>9, NatProduct
  <2>12. Low(d, k + 1) + Low(t, k + 1) = Low(s, k + 1) + e * W(k + 1)
    <3>. DEFINE p == r * w
                q == y * w
                a == x * w
                h == e * (w * Base)
                f == b[k] * w
    <3>1. p \in Int /\ q \in Int /\ a \in Int /\ h \in Int /\ f \in Int
      BY <2>11
    <3>2. p + q + f = a + h
      BY <2>5, <2>10
    <3>3. Low(d, k + 1) = Low(d, k) + p /\ Low(s, k + 1) = Low(s, k) + a
          /\ Low(t, k + 1) = Low(t, k) + q /\ e * W(k + 1) = h
      BY <2>6, <2>7
    <3>4. Low(d, k) + Low(t, k) = Low(s, k) + f
      BY <2>8
    <3>5. Low(d, k) \in Int /\ Low(s, k) \in Int /\ Low(t, k) \in Int
      BY <2>6
    <3>. HIDE DEF p, q, a, h, f
    <3>6. (Low(d, k) + p) + (Low(t, k) + q) = (Low(d, k) + Low(t, k)) + (p + q)
      BY <3>1, <3>5
    <3>7. (Low(d, k) + p) + (Low(t, k) + q) = (Low(s, k) + f) + (p + q)
      BY <3>4, <3>6
    <3>8. (Low(s, k) + f) + (p + q) = Low(s, k) + (p + q + f)
      BY <3>1, <3>5
    <3>9. (Low(d, k) + p) + (Low(t, k) + q) = Low(s, k) + (a + h)
      BY <3>2, <3>7, <3>8
    <3>10. Low(s, k) + (a + h) = (Low(s, k) + a) + h
      BY <3>1, <3>5
    <3>. QED
      BY <3>3, <3>9, <3>10
  <2>. QED
    BY <2>1, <2>12 DEF e
<1>10. n \in T
  <2>. HIDE DEF T
  <2>. QED
    BY <1>1, <1>8, <1>9, Powers!Induct
<1>11. Magnitude(d) = Low(d, n) /\ Magnitude(t) = Low(t, n)
  BY <1>6, <1>7, MagnitudeIs DEF n
<1>. QED
  BY <1>6, <1>10, <1>11 DEF n

(* A loan that goes wrong: the limb that lends is 1 and not the last one.  *)
Inner(s, t) == /\ Borrows(s, t)[Len(t)] = 1
               /\ s[Lender(s, Len(t))] = 1 /\ Lender(s, Len(t)) < Len(s)

LEMMA LowOfZeros ==
  ASSUME NEW s \in Seq(Limb), NEW n \in Nat, \A i \in 1 .. n : At(s, i) = 0
  PROVE  Low(s, n) = 0
BY LowZero

LEMMA OneTimes ==
  ASSUME NEW p \in Nat, NEW q \in Nat
  PROVE  /\ p * q \in Nat /\ p * q \in Int /\ (p - 1) * q = p * q - q
         /\ (p + 1) * q = p * q + q /\ q * (p + 1) = q * p + q
OBVIOUS

LEMMA BelowBase ==
  ASSUME NEW x \in Limb
  PROVE  x \in Nat /\ Base - 1 \in Limb /\ (x # 0 => x - 1 \in Limb) /\ 1 \in Limb
<1>1. Limb = 0 .. Base - 1 /\ Base \in Nat /\ Base >= 2
  BY Widths DEF Limb
<1>. QED
  BY <1>1

(* One less than h: the lowest limb that is not 0 lends.                   *)
LEMMA OneLess ==
  ASSUME NEW h \in Seq(Limb), NEW p \in 1 .. Len(h), h[p] # 0,
         \A i \in 1 .. Len(h) : i < p => h[i] = 0,
         NEW f \in Seq(Limb), Len(f) = Len(h),
         \A i \in 1 .. Len(h) : f[i] = IF i < p THEN Base - 1 ELSE IF i = p THEN h[p] - 1 ELSE h[i]
  PROVE  Magnitude(f) + 1 = Magnitude(h)
<1>. DEFINE N == Len(h)
            q == p - 1
            T == { k \in 0 .. q : Low(f, k) + 1 = W(k) }
<1>0. q \in Nat /\ p = q + 1 /\ q + 1 \in Nat \ {0} /\ p \in Nat /\ p <= N /\ N \in Nat /\ p \in 1 .. N
  OBVIOUS
<1>14. /\ h \in Seq(Int) /\ f \in Seq(Int)
       /\ \A i \in 1 .. N : At(h, i) = h[i] /\ At(f, i) = f[i]
  BY SeqLimb
<1>13. \A i \in 1 .. N : At(f, i) = IF i < p THEN Base - 1 ELSE IF i = p THEN h[p] - 1 ELSE At(h, i)
  BY <1>14
<1>12. \A i \in 1 .. N : i < p => At(h, i) = 0
  BY <1>14
<1>11. Magnitude(f) = Low(f, N) /\ Magnitude(h) = Low(h, N)
  BY <1>14, MagnitudeIs
<1>10. h[p] \in Nat /\ At(h, p) = h[p]
  BY <1>14, SeqLimb, LimbInt
<1>. HIDE DEF N, q
<1>1. 0 \in T
  <2>1. Low(f, 0) = 0 /\ W(0) = 1 /\ 0 \in 0 .. q
    BY <1>14, <1>0, LowNone, Widths
  <2>. QED
    BY <2>1
<1>2. ASSUME NEW k \in 0 .. q - 1, k \in T PROVE k + 1 \in T
  <2>1. k \in Nat /\ k + 1 \in 1 .. N /\ k + 1 < p /\ k + 1 \in 0 .. q
    BY <1>0
  <2>2. At(f, k + 1) = Base - 1
    BY <1>13, <2>1
  <2>3. Low(f, k + 1) = Low(f, k) + (Base - 1) * W(k) /\ Low(f, k) \in Int
    BY <1>14, <2>1, <2>2, LowIs
  <2>4. W(k) \in Nat /\ Base \in Nat /\ W(k + 1) = W(k) * Base
    BY <2>1, Widths
  <2>5. Low(f, k) + 1 = W(k)
    BY <1>2
  <2>. DEFINE w == W(k) * Base
              a == Low(f, k)
  <2>6. (Base - 1) * W(k) = w - W(k) /\ w \in Int
    BY <2>4
  <2>7. a \in Int /\ W(k) \in Int /\ a + 1 = W(k)
    BY <2>3, <2>4, <2>5
  <2>8. Low(f, k + 1) = a + (w - W(k)) /\ W(k + 1) = w
    BY <2>3, <2>4, <2>6
  <2>. HIDE DEF w, a
  <2>9. a + (w - W(k)) + 1 = w
    BY <2>6, <2>7
  <2>. QED
    BY <2>1, <2>8, <2>9
<1>3. q \in T
  <2>. HIDE DEF T
  <2>. QED
    BY <1>0, <1>1, <1>2, Powers!Induct
<1>4. Low(f, q) + 1 = W(q)
  BY <1>3
<1>. HIDE DEF T
<1>5. Low(h, q) = 0
  <2>1. \A i \in 1 .. q : i \in 1 .. N /\ i < p
    BY <1>0
  <2>2. \A i \in 1 .. q : At(h, i) = 0
    BY <1>12, <2>1
  <2>. QED
    BY <1>0, <2>2, LowOfZeros
<1>6. At(f, p) = h[p] - 1 /\ At(h, p) = h[p]
  BY <1>0, <1>10, <1>13
<1>7. /\ Low(f, p) = Low(f, q) + (h[p] - 1) * W(q)
      /\ Low(h, p) = Low(h, q) + h[p] * W(q)
      /\ Low(f, q) \in Int
  BY <1>14, <1>0, <1>6, LowIs
<1>8. W(q) \in Nat
  BY <1>0, Widths
<1>. DEFINE w == h[p] * W(q)
<1>9. (h[p] - 1) * W(q) = w - W(q) /\ w \in Int
  BY <1>10, <1>8, OneTimes
<1>15. Low(f, p) = Low(f, q) + (w - W(q)) /\ Low(h, p) = w
  BY <1>5, <1>7, <1>9
<1>. HIDE DEF w
<1>16. Low(f, p) + 1 = Low(h, p)
  <2>1. Low(f, q) \in Int /\ W(q) \in Int /\ w \in Int
    BY <1>7, <1>8, <1>9
  <2>2. (Low(f, q) + (w - W(q))) + 1 = w
    BY <1>4, <2>1
  <2>. QED
    BY <1>15, <2>2
<1>17. \A i \in p + 1 .. N : At(f, i) = At(h, i)
  <2>. SUFFICES ASSUME NEW i \in p + 1 .. N PROVE At(f, i) = At(h, i)
    OBVIOUS
  <2>1. i \in 1 .. N /\ ~ (i < p) /\ i # p
    BY <1>0
  <2>. QED
    BY <1>13, <2>1
<1>18. Low(f, N) - Low(h, N) = Low(f, p) - Low(h, p)
  BY <1>14, <1>0, <1>17, LowApart
<1>19. Low(f, p) \in Int /\ Low(f, N) \in Int /\ Low(h, N) \in Int /\ Low(h, p) \in Int
  BY <1>14, <1>0, LowIs
<1>. QED
  BY <1>11, <1>16, <1>18, <1>19

LEMMA UpperLimbs ==
  ASSUME NEW s \in Seq(Limb), NEW n \in 0 .. Len(s), NEW h, h = Above(s, n)
  PROVE  /\ h \in Seq(Limb) /\ Len(h) \in Nat /\ Len(h) = Len(s) - n
         /\ \A i \in 1 .. Len(h) : h[i] = s[n + i]
<1>1. h \in Seq(Limb) /\ Len(h) = Len(s) - n /\ \A i \in 1 .. Len(s) - n : h[i] = s[n + i]
  BY Upper
<1>2. Len(h) \in Nat
  BY <1>1
<1>. QED
  BY <1>1, <1>2

(* Where the lender is.                                                    *)
LEMMA LenderIs ==
  ASSUME NEW s \in Seq(Limb), NEW n \in 0 .. Len(s), NEW h, h = Above(s, n),
         Magnitude(h) # 0, NEW m, m = Lender(s, n)
  PROVE  \E p \in 1 .. Len(h) : /\ m = n + p /\ h[p] = s[m] /\ h[p] # 0
                                /\ \A i \in 1 .. Len(h) : i < p => h[i] = 0
<1>. DEFINE S == { k \in n + 1 .. Len(s) : s[k] # 0 }
<1>0. Len(s) \in Nat /\ n \in Nat /\ n <= Len(s)
  OBVIOUS
<1>1. h \in Seq(Limb) /\ Len(h) = Len(s) - n /\ \A i \in 1 .. Len(h) : h[i] = s[n + i]
  BY UpperLimbs
<1>2. S # {}
  <2>1. PICK i \in 1 .. Len(h) : h[i] # 0
    BY <1>1, MagnitudeZero
  <2>2. n + i \in n + 1 .. Len(s) /\ s[n + i] # 0
    BY <1>0, <1>1, <2>1
  <2>. QED
    BY <2>2
<1>3. m \in S /\ \A y \in S : m <= y
  <2>1. S \in SUBSET Nat /\ m = Min(S)
    BY <1>0 DEF Lender
  <2>. HIDE DEF S
  <2>. QED
    BY <1>2, <2>1, MinIs
<1>4. PICK p : p = m - n
  OBVIOUS
<1>5. m \in n + 1 .. Len(s) /\ s[m] # 0
  BY <1>3
<1>6. p \in 1 .. Len(h) /\ m = n + p
  <2>. HIDE DEF S
  <2>1. m - n \in 1 .. Len(s) - n /\ m = n + (m - n)
    BY <1>0, <1>5
  <2>. QED
    BY <1>1, <1>4, <2>1
<1>7. ASSUME NEW i \in 1 .. Len(h), i < p PROVE h[i] = 0
  <2>1. n + i \in n + 1 .. Len(s) /\ ~ (m <= n + i)
    BY <1>0, <1>1, <1>6, <1>7
  <2>2. n + i \notin S
    BY <1>3, <2>1
  <2>3. s[n + i] = 0
    BY <2>1, <2>2
  <2>. QED
    BY <1>1, <2>3
<1>8. h[p] = s[m]
  BY <1>1, <1>6
<1>. HIDE DEF S
<1>. QED
  BY <1>5, <1>6, <1>7, <1>8

GivenUp(h, p) == IF h[p] = 1 THEN 1 ELSE 0   \* limbs that are given up

(* In h, which is s above n limbs, the limb at p lends and leaves l.       *)
LenderAt(s, n, h, p) ==
  /\ Lender(s, n) = n + p /\ p \in 1 .. Len(h) /\ Len(s) = n + Len(h) /\ h[p] # 0
  /\ h[p] = s[n + p] /\ \A i \in 1 .. Len(h) : h[i] = s[n + i]
Lent(l, h, p, e) ==
  /\ Len(l) = Len(h) - e /\ e \in {0, 1} /\ (e = 1 <=> h[p] = 1)
  /\ \A i \in 1 .. Len(h) - e : l[i] = IF i < p THEN Base - 1
                                      ELSE IF i = p /\ e = 0 THEN h[p] - 1 ELSE h[i]

LEMMA LendIs ==
  ASSUME NEW s, NEW n \in Nat, NEW p \in Nat, NEW h \in Seq(Limb), LenderAt(s, n, h, p)
  PROVE  Lend(s, n) \in Seq(Limb) /\ Lent(Lend(s, n), h, p, GivenUp(h, p))
<1>. USE DEF GivenUp, LenderAt
<1>. DEFINE N == Len(h)
            m == Lender(s, n)
            l == Lend(s, n)
            e == GivenUp(h, p)
            F(i) == IF i < p THEN Base - 1 ELSE IF i = p /\ e = 0 THEN h[p] - 1 ELSE h[i]
<1>1. /\ N \in Nat /\ N >= 1 /\ p \in 1 .. N /\ e \in {0, 1} /\ N - e \in Nat /\ n + N - n = N
      /\ (e = 1 <=> h[p] = 1)
  OBVIOUS
<1>2. \A i \in 1 .. N : h[i] \in Limb
  OBVIOUS
<1>3. l = [i \in 1 .. n + N - n - e |-> CASE i + n < m -> Base - 1
                                          [] i + n = m /\ s[m] # 1 -> s[m] - 1
                                          [] OTHER -> s[i + n]]
  BY DEF Lend
<1>4. \A i \in 1 .. N : h[i] = s[n + i]
  OBVIOUS
<1>11. m = n + p /\ h[p] = s[m]
  OBVIOUS
<1>. HIDE DEF N, m, l, e
<1>5. \A i \in 1 .. N - e : i \in 1 .. N /\ i \in Nat
  BY <1>1
<1>6. \A i \in 1 .. N - e : (i + n < m <=> i < p) /\ (i + n = m <=> i = p) /\ i + n = n + i
  BY <1>5, <1>11
<1>7. l = [i \in 1 .. N - e |-> F(i)]
  <2>1. \A i \in 1 .. N - e : s[i + n] = h[i]
    BY <1>4, <1>5, <1>6
  <2>2. \A i \in 1 .. N - e : (CASE i + n < m -> Base - 1
                                 [] i + n = m /\ s[m] # 1 -> s[m] - 1
                                 [] OTHER -> s[i + n]) = F(i)
    <3>. SUFFICES ASSUME NEW i \in 1 .. N - e
                  PROVE  (CASE i + n < m -> Base - 1
                            [] i + n = m /\ s[m] # 1 -> s[m] - 1
                            [] OTHER -> s[i + n]) = F(i)
      OBVIOUS
    <3>1. (i + n < m <=> i < p) /\ (i + n = m <=> i = p) /\ s[i + n] = h[i] /\ i \in Nat
      BY <1>5, <1>6, <2>1
    <3>2. CASE i < p
      BY <3>1, <3>2
    <3>3. CASE i = p
      BY <1>1, <1>11, <3>1, <3>3
    <3>4. CASE i > p
      BY <3>1, <3>4
    <3>. QED
      BY <3>1, <3>2, <3>3, <3>4
  <2>3. n + N - n - e = N - e
    BY <1>1
  <2>. HIDE DEF F
  <2>. QED
    BY <1>3, <2>2, <2>3
<1>8. \A i \in 1 .. N - e : F(i) \in Limb
  <2>1. h[p] \in Limb /\ Base - 1 \in Limb /\ h[p] - 1 \in Limb
    BY <1>1, <1>2, BelowBase
  <2>. QED
    BY <1>2, <1>5, <2>1
<1>9. l \in Seq(Limb) /\ Len(l) = N - e /\ \A i \in 1 .. N - e : l[i] = F(i)
  <2>. HIDE DEF F
  <2>. QED
    BY <1>1, <1>7, <1>8
<1>. QED
  BY <1>1, <1>9 DEF N, Lent, l, e

(* The limbs above n are worth one less when they lend.                    *)
LEMMA Lends ==
  ASSUME NEW s \in Seq(Limb), NEW n \in 0 .. Len(s), NEW h, h = Above(s, n),
         Magnitude(h) # 0, NEW l, l = Lend(s, n), NEW m, m = Lender(s, n)
  PROVE  /\ l \in Seq(Limb)
         /\ ~ (s[m] = 1 /\ m < Len(s)) => Magnitude(l) + 1 = Magnitude(h)
         /\ s[m] = 1 /\ m < Len(s) => Magnitude(l) # 0
<1>1. PICK p \in 1 .. Len(h) : /\ m = n + p /\ h[p] = s[m] /\ h[p] # 0
                               /\ \A i \in 1 .. Len(h) : i < p => h[i] = 0
  BY LenderIs
<1>2. /\ h \in Seq(Limb) /\ Len(h) \in Nat /\ Len(h) = Len(s) - n
      /\ \A i \in 1 .. Len(h) : h[i] = s[n + i]
  BY UpperLimbs
<1>. DEFINE N == Len(h)
<1>3. N \in Nat /\ N = Len(h)
  BY <1>2
<1>. HIDE DEF N
<1>4. n \in Nat /\ Len(s) \in Nat /\ Len(s) = n + N /\ p \in 1 .. N /\ p \in Nat /\ (m < Len(s) <=> p < N)
  BY <1>1, <1>2, <1>3
<1>. DEFINE e == GivenUp(h, p)
<1>6. /\ l \in Seq(Limb) /\ Len(l) = N - e /\ e \in {0, 1} /\ (e = 1 <=> h[p] = 1)
      /\ \A i \in 1 .. N - e : l[i] = IF i < p THEN Base - 1
                                      ELSE IF i = p /\ e = 0 THEN h[p] - 1 ELSE h[i]
  <2>1. LenderAt(s, n, h, p)
    BY <1>1, <1>2, <1>3, <1>4 DEF LenderAt
  <2>. HIDE DEF e
  <2>2. l \in Seq(Limb) /\ Lent(l, h, p, e)
    BY <1>2, <1>4, <2>1, LendIs DEF e
  <2>. QED
    BY <1>3, <2>2 DEF Lent
<1>. HIDE DEF e
<1>7. (e = 1 <=> s[m] = 1) /\ (e = 1 => h[p] = 1) /\ (e = 0 => s[m] # 1)
  BY <1>1, <1>6
<1>10. N - e \in Nat /\ (e = 1 /\ p < N => p \in 1 .. N - e)
  BY <1>3, <1>4, <1>6
<1>8. ASSUME s[m] = 1, m < Len(s) PROVE Magnitude(l) # 0
  <2>1. e = 1 /\ p \in 1 .. N - e
    BY <1>4, <1>7, <1>8, <1>10
  <2>2. l[p] = 1 /\ p \in 1 .. Len(l)
    BY <1>6, <1>7, <2>1
  <2>. QED
    BY <1>6, <2>2, MagnitudeZero
<1>9. ASSUME ~ (s[m] = 1 /\ m < Len(s)) PROVE Magnitude(l) + 1 = Magnitude(h)
  <2>. DEFINE F(i) == IF i < p THEN Base - 1 ELSE IF i = p THEN h[p] - 1 ELSE h[i]
              f == [i \in 1 .. N |-> F(i)]
  <2>1. f \in Seq(Limb) /\ Len(f) = N /\ \A i \in 1 .. N : f[i] = F(i)
    <3>1. \A i \in 1 .. N : h[i] \in Limb
      BY <1>2, <1>3
    <3>2. h[p] - 1 \in Limb /\ Base - 1 \in Limb
      BY <1>1, <1>4, <3>1, BelowBase
    <3>3. \A i \in 1 .. N : F(i) \in Limb
      BY <3>1, <3>2
    <3>. HIDE DEF F
    <3>. QED
      BY <1>3, <3>3
  <2>. HIDE DEF f
  <2>2. Magnitude(f) + 1 = Magnitude(h)
    <3>1. /\ h \in Seq(Limb) /\ p \in 1 .. Len(h) /\ h[p] # 0 /\ Len(f) = Len(h)
          /\ \A i \in 1 .. Len(h) : i < p => h[i] = 0
          /\ \A i \in 1 .. Len(h) : f[i] = IF i < p THEN Base - 1
                                          ELSE IF i = p THEN h[p] - 1 ELSE h[i]
      BY <1>1, <1>2, <1>3, <2>1
    <3>. QED
      BY <2>1, <3>1, OneLess
  <2>3. \A i \in Nat \ {0} : i > N => At(f, i) = 0 /\ At(l, i) = 0
    <3>. SUFFICES ASSUME NEW i \in Nat \ {0}, i > N PROVE At(f, i) = 0 /\ At(l, i) = 0
      OBVIOUS
    <3>1. i > N - e
      BY <1>3, <1>6
    <3>. QED
      BY <1>6, <2>1, <3>1, SeqLimb
  <2>4. \A i \in 1 .. N : At(f, i) = F(i)
    BY <2>1, SeqLimb
  <2>5. \A i \in 1 .. N - e : At(l, i) = l[i] /\ i \in 1 .. N
    <3>1. \A i \in 1 .. Len(l) : At(l, i) = l[i]
      BY <1>6, SeqLimb
    <3>2. \A i \in 1 .. N - e : i \in 1 .. N
      BY <1>3, <1>6, <1>10
    <3>3. Len(l) = N - e
      BY <1>6
    <3>. QED
      BY <3>1, <3>2, <3>3
  <2>6. ASSUME NEW i \in 1 .. N PROVE At(l, i) = F(i)
    <3>1. CASE e = 0
      <4>1. i \in 1 .. N - e
        BY <1>3, <3>1
      <4>. QED
        BY <1>6, <2>5, <3>1, <4>1
    <3>2. CASE e = 1 /\ i = N
      <4>1. p = N
        BY <1>3, <1>4, <1>7, <1>9, <3>2
      <4>2. F(i) = 0
        BY <1>7, <3>2, <4>1
      <4>3. i > N - e /\ i \in Nat \ {0}
        BY <1>3, <3>2
      <4>. QED
        BY <1>6, <4>2, <4>3, SeqLimb
    <3>3. CASE e = 1 /\ i # N
      <4>1. p = N
        BY <1>3, <1>4, <1>7, <1>9, <3>3
      <4>2. i \in 1 .. N - e /\ i < p
        BY <1>3, <3>3, <4>1
      <4>. QED
        BY <1>6, <2>5, <4>2
    <3>. QED
      BY <1>6, <3>1, <3>2, <3>3
  <2>7. \A i \in Nat \ {0} : At(l, i) = At(f, i)
    <3>1. \A i \in Nat \ {0} : i \in 1 .. N \/ i > N
      BY <1>3
    <3>. QED
      BY <2>3, <2>4, <2>6, <3>1
  <2>8. Magnitude(l) = Magnitude(f)
    BY <1>6, <2>1, <2>7, SameMagnitude
  <2>. QED
    BY <2>2, <2>8
<1>. QED
  BY <1>6, <1>8, <1>9

LEMMA SubLimbsIs ==
  ASSUME NEW s \in Seq(Limb), NEW t \in Seq(Limb), Len(t) <= Len(s), Magnitude(s) > Magnitude(t),
         NEW u, u = SubLimbs(s, t)
  PROVE  /\ u \in Seq(Limb) /\ Magnitude(u) # 0
         /\ ~ Inner(s, t) => Magnitude(u) = Magnitude(s) - Magnitude(t)
<1>. DEFINE n == Len(t)
            b == Borrows(s, t)
            d == [i \in 1 .. n |-> (s[i] - t[i] - b[i - 1]) % Base]
            h == Above(s, n)
            l == Lend(s, n)
<1>1. n \in 0 .. Len(s) /\ n \in Nat
  OBVIOUS
<1>2. d \in Seq(Limb) /\ Len(d) = n /\ Magnitude(d) + Magnitude(t) = Low(s, n) + b[n] * W(n)
  BY DifferenceLow
<1>3. h \in Seq(Limb) /\ Magnitude(s) = Low(s, n) + W(n) * Magnitude(h)
  BY <1>1, Upper
<1>4. b[n] \in {0, 1}
  BY <1>1, BorrowsAre
<1>5. u = d \o IF b[n] = 0 THEN h ELSE l
  BY DEF SubLimbs, Above
<1>6. /\ Magnitude(d) \in Nat /\ Magnitude(d) < W(n) /\ W(n) \in Nat /\ W(n) >= 1
      /\ Magnitude(h) \in Nat /\ Magnitude(s) \in Nat /\ Magnitude(t) \in Nat /\ Low(s, n) \in Nat
  BY <1>1, <1>2, <1>3, MagnitudeNat, LowBound, Widths
<1>. HIDE DEF d, h, b, l
<1>7. CASE b[n] = 0
  <2>1. u = d \o h
    BY <1>5, <1>7
  <2>2. u \in Seq(Limb) /\ Magnitude(u) = Magnitude(d) + W(n) * Magnitude(h)
    BY <1>2, <1>3, <2>1, Joint, JointMagnitude
  <2>3. b[n] * W(n) = 0
    BY <1>6, <1>7
  <2>4. W(n) * Magnitude(h) \in Nat
    BY <1>6, NatProduct
  <2>. DEFINE w == W(n) * Magnitude(h)
  <2>5. Magnitude(d) + Magnitude(t) = Low(s, n)
    BY <1>2, <1>6, <2>3
  <2>. HIDE DEF w
  <2>6. Magnitude(u) = Magnitude(d) + w /\ Magnitude(s) = Low(s, n) + w /\ w \in Nat
    BY <1>3, <2>2, <2>4 DEF w
  <2>. QED
    BY <1>6, <2>2, <2>5, <2>6
<1>8. CASE b[n] = 1
  <2>1. u = d \o l
    BY <1>5, <1>8
  <2>2. Magnitude(d) + Magnitude(t) = Low(s, n) + W(n)
    BY <1>2, <1>6, <1>8
  <2>3. Magnitude(h) # 0
    <3>. SUFFICES ASSUME Magnitude(h) = 0 PROVE FALSE
      OBVIOUS
    <3>1. W(n) * Magnitude(h) = 0
      BY <1>6
    <3>2. Magnitude(s) = Low(s, n)
      BY <1>3, <1>6, <3>1
    <3>. QED
      BY <1>6, <2>2, <3>2
  <2>. DEFINE m == Lender(s, n)
  <2>4. /\ l \in Seq(Limb)
        /\ ~ (s[m] = 1 /\ m < Len(s)) => Magnitude(l) + 1 = Magnitude(h)
        /\ s[m] = 1 /\ m < Len(s) => Magnitude(l) # 0
    BY <1>1, <2>3, Lends DEF h, l
  <2>5. u \in Seq(Limb) /\ Magnitude(u) = Magnitude(d) + W(n) * Magnitude(l) /\ Magnitude(l) \in Nat
    BY <1>2, <2>1, <2>4, Joint, JointMagnitude, MagnitudeNat
  <2>6. Inner(s, t) <=> s[m] = 1 /\ m < Len(s)
    BY <1>8 DEF Inner, b
  <2>. HIDE DEF m
  <2>7. CASE Inner(s, t)
    <3>1. Magnitude(l) >= 1
      BY <2>4, <2>5, <2>6, <2>7
    <3>2. W(n) * Magnitude(l) >= 1
      <4>. DEFINE w == W(n)
                  M == Magnitude(l)
      <4>1. w \in Nat /\ w >= 1 /\ M \in Nat /\ M >= 1
        BY <1>6, <2>5, <3>1
      <4>. HIDE DEF w, M
      <4>2. w * (M - 1) \in Nat /\ M - 1 \in Int /\ w * M = w * (M - 1) + w
        <5>1. M - 1 \in Nat
          BY <4>1
        <5>2. w * (M - 1) \in Nat
          BY <4>1, <5>1, NatProduct
        <5>. QED
          BY <4>1, <5>1, <5>2
      <4>. QED
        BY <4>1, <4>2 DEF w, M
    <3>. QED
      BY <1>6, <2>5, <2>7, <3>2
  <2>8. CASE ~ Inner(s, t)
    <3>1. Magnitude(l) + 1 = Magnitude(h)
      BY <2>4, <2>6, <2>8
    <3>2. W(n) * Magnitude(h) = W(n) * Magnitude(l) + W(n) /\ W(n) * Magnitude(l) \in Nat
      <4>1. W(n) * (Magnitude(l) + 1) = W(n) * Magnitude(l) + W(n) /\ W(n) * Magnitude(l) \in Nat
        BY <1>6, <2>5, OneTimes, NatProduct
      <4>. QED
        BY <3>1, <4>1
    <3>. DEFINE w == W(n) * Magnitude(l)
    <3>3. Magnitude(u) = Magnitude(d) + w /\ Magnitude(s) = Low(s, n) + (w + W(n)) /\ w \in Int
      BY <1>3, <2>5, <3>2
    <3>. HIDE DEF w
    <3>4. Magnitude(u) = Magnitude(s) - Magnitude(t)
      BY <1>6, <2>2, <3>3
    <3>. QED
      BY <1>6, <2>5, <3>4
  <2>. QED
    BY <2>7, <2>8
<1>. QED
  BY <1>4, <1>7, <1>8

-----------------------------------------------------------------------------
(* Quotients and remainders.                                               *)

LEMMA Divided ==
  ASSUME NEW x \in Nat, NEW b \in Nat \ {0}
  PROVE  /\ x \div b \in Nat /\ x % b \in Nat /\ x % b < b /\ x % b \in 0 .. b - 1
         /\ x = (x \div b) * b + (x % b) /\ x \div b <= x
<1>1. x \in Int /\ x >= 0
  OBVIOUS
<1>. DEFINE q == x \div b
            r == x % b
<1>2. q \in Nat /\ r \in 0 .. b - 1 /\ x = b * q + r /\ q <= x
  BY <1>1, Powers!DivMod
<1>. HIDE DEF q, r
<1>3. b * q = q * b
  BY <1>2
<1>. QED
  BY <1>2, <1>3 DEF q, r

LEMMA DividedBy ==
  ASSUME NEW q \in Nat, NEW r \in Nat, NEW b \in Nat \ {0}, r < b
  PROVE  (q * b + r) \div b = q /\ (q * b + r) % b = r
<1>1. q \in Int /\ r \in 0 .. b - 1
  OBVIOUS
<1>. QED
  BY <1>1, Powers!DivUnique

(* What is less than a product leaves less than a factor.                  *)
LEMMA QuotientBelow ==
  ASSUME NEW x \in Nat, NEW p \in Nat, NEW q \in Nat \ {0}, x < p * q
  PROVE  x \div q < p
<1>. DEFINE y == x \div q
<1>1. y \in Nat /\ x = y * q + (x % q) /\ x % q \in Nat
  BY Divided
<1>. HIDE DEF y
<1>. SUFFICES ASSUME ~ (y < p) PROVE FALSE
  BY DEF y
<1>2. PICK d \in Nat : y = p + d
  <2>1. y - p \in Nat /\ y = p + (y - p)
    BY <1>1
  <2>. QED
    BY <2>1
<1>3. (p + d) * q = p * q + d * q
  OBVIOUS
<1>. DEFINE a == d * q
            b == p * q
            c == x % q
<1>4. a \in Nat /\ b \in Nat /\ c \in Nat /\ x = (b + a) + c /\ x < b
  BY <1>1, <1>2, <1>3, NatProduct
<1>. HIDE DEF a, b, c
<1>. QED
  BY <1>4

LEMMA Twice ==
  ASSUME NEW x \in Nat, NEW m \in Nat \ {0}, NEW n \in Nat \ {0}
  PROVE  (x \div m) \div n = x \div (m * n)
<1>. DEFINE y == x \div m
            r == x % m
            z == y \div n
            u == y % n
<1>1. y \in Nat /\ r \in Nat /\ r < m /\ x = y * m + r
  BY Divided
<1>. HIDE DEF y, r
<1>2. z \in Nat /\ u \in Nat /\ u < n /\ y = z * n + u
  BY <1>1, Divided
<1>. HIDE DEF z, u
<1>3. r + u * m \in Nat /\ r + u * m < m * n
  BY <1>1, <1>2, Digit
<1>4. (z * n + u) * m = z * (m * n) + u * m
  BY <1>2
<1>. DEFINE w == m * n
            t == r + u * m
<1>5. w \in Nat \ {0} /\ z * w \in Nat /\ u * m \in Nat
  <2>1. w \in Nat /\ w # 0
    OBVIOUS
  <2>. QED
    BY <1>2, <2>1, NatProduct
<1>6. x = z * w + t
  <2>. DEFINE a == z * (m * n)
              b == u * m
  <2>1. x = (a + b) + r /\ a \in Int /\ b \in Int /\ r \in Int
    BY <1>1, <1>2, <1>4, <1>5
  <2>. HIDE DEF a, b
  <2>2. x = a + (r + b)
    BY <2>1
  <2>. QED
    BY <2>2 DEF a, b
<1>. HIDE DEF w, t
<1>7. t \in Nat /\ t < w
  BY <1>3 DEF t, w
<1>8. x \div w = z
  BY <1>2, <1>5, <1>6, <1>7, DividedBy
<1>. QED
  BY <1>8 DEF w, z, y

(* A count of bits is one of limbs and of bits in one.                     *)
LEMMA Exponent ==
  ASSUME NEW n \in Nat
  PROVE  /\ CharsIn(n) \in Nat /\ BitsInLast(n) \in 0 .. BitsPerChar - 1
         /\ n = BitsPerChar * CharsIn(n) + BitsInLast(n)
         /\ 2 ^ n = W(CharsIn(n)) * 2 ^ BitsInLast(n)
<1>1. BitsPerChar \in Nat \ {0}
  BY Widths
<1>. DEFINE c == CharsIn(n)
            l == BitsInLast(n)
<1>2. c \in Nat /\ l \in 0 .. BitsPerChar - 1 /\ n = c * BitsPerChar + l
  BY <1>1, Divided DEF CharsIn, BitsInLast
<1>. HIDE DEF c, l
<1>3. c * BitsPerChar = BitsPerChar * c /\ BitsPerChar * c \in Nat /\ l \in Nat
  BY <1>1, <1>2
<1>4. 2 ^ (BitsPerChar * c + l) = 2 ^ (BitsPerChar * c) * 2 ^ l
  BY <1>3, Powers!PowerOfSum
<1>. QED
  BY <1>2, <1>3, <1>4 DEF W, c, l

(* Less than a limb of bits.                                               *)
LEMMA LimbOf ==
  ASSUME NEW l \in 0 .. BitsPerChar - 1
  PROVE  /\ l \in Nat /\ 2 ^ l \in Nat \ {0} /\ 2 ^ (BitsPerChar - l) \in Nat \ {0}
         /\ 2 ^ l * 2 ^ (BitsPerChar - l) = Base
         /\ 2 ^ (BitsPerChar - l) = 2 * 2 ^ (BitsPerChar - l - 1)
         /\ 2 ^ (BitsPerChar - l - 1) \in Nat
<1>1. l \in Nat /\ BitsPerChar - l \in Nat /\ BitsPerChar - l - 1 \in Nat
      /\ l + (BitsPerChar - l) = BitsPerChar /\ (BitsPerChar - l - 1) + 1 = BitsPerChar - l
  BY Widths
<1>2. /\ 2 ^ l \in Nat /\ 2 ^ l >= 1 /\ 2 ^ (BitsPerChar - l) \in Nat /\ 2 ^ (BitsPerChar - l) >= 1
      /\ 2 ^ (BitsPerChar - l - 1) \in Nat
  BY <1>1, Powers!Positive
<1>3. 2 ^ (l + (BitsPerChar - l)) = 2 ^ l * 2 ^ (BitsPerChar - l)
  BY <1>1, Powers!PowerOfSum
<1>4. 2 ^ ((BitsPerChar - l - 1) + 1) = 2 * 2 ^ (BitsPerChar - l - 1)
  BY <1>1, Powers!Doubling
<1>. QED
  BY <1>1, <1>2, <1>3, <1>4 DEF Base

-----------------------------------------------------------------------------
(* Shifts.                                                                 *)

LEMMA DigitUp ==
  ASSUME NEW x \in Limb, NEW p \in Nat \ {0}, NEW q \in Nat \ {0}, p * q = Base
  PROVE  /\ (x * p) \div Base \in Nat /\ (x * p) \div Base < p
         /\ \A c \in Nat : c < p => ((x * p) % Base) + c \in Limb
         /\ (x * p) % Base \in Nat
         /\ x * p = ((x * p) % Base) + ((x * p) \div Base) * Base
<1>1. Base \in Nat \ {0} /\ Limb = 0 .. Base - 1 /\ x \in Nat /\ x < p * q
  BY Widths DEF Limb
<1>. DEFINE y == x \div q
            r == x % q
<1>2. y \in Nat /\ r \in Nat /\ r < q /\ x = y * q + r /\ y < p
  BY <1>1, Divided, QuotientBelow
<1>. HIDE DEF y, r
<1>3. (y * q + r) * p = y * (p * q) + r * p
  BY <1>2
<1>4. PICK d \in Nat : q = r + 1 + d
  <2>1. q - r - 1 \in Nat /\ q = r + 1 + (q - r - 1)
    BY <1>2
  <2>. QED
    BY <2>1
<1>5. p * (r + 1 + d) = r * p + p + d * p
  BY <1>2
<1>6. r * p \in Nat /\ d * p \in Nat /\ y * Base \in Nat
  BY <1>1, <1>2, NatProduct
<1>. DEFINE t == r * p
            u == d * p
            v == y * Base
<1>7. x * p = v + t /\ Base = t + p + u /\ t \in Nat /\ u \in Nat /\ v \in Nat
  BY <1>2, <1>3, <1>4, <1>5, <1>6
<1>8. t < Base
  <2>. HIDE DEF t, u, v
  <2>. QED
    BY <1>7
<1>9. (x * p) \div Base = y /\ (x * p) % Base = t
  <2>. HIDE DEF t
  <2>. QED
    BY <1>1, <1>2, <1>7, <1>8, DividedBy
<1>10. \A c \in Nat : c < p => t + c \in Limb
  <2>. HIDE DEF t, u, v
  <2>. QED
    BY <1>1, <1>7
<1>11. x * p = t + v
  <2>. HIDE DEF t, u, v
  <2>. QED
    BY <1>7
<1>. QED
  BY <1>2, <1>7, <1>9, <1>10, <1>11

LEMMA ShiftedUpIs ==
  ASSUME NEW s \in Seq(Limb), NEW l \in 0 .. BitsPerChar - 1
  PROVE  /\ ShiftedUp(s, l) \in Seq(Limb)
         /\ Magnitude(ShiftedUp(s, l)) = 2 ^ l * Magnitude(s)
<1>. DEFINE n == Len(s)
            p == 2 ^ l
            q == 2 ^ (BitsPerChar - l)
            C(i) == (At(s, i) * p) \div Base
            F(i) == ((At(s, i) * p) % Base) + IF i = 1 THEN 0 ELSE C(i - 1)
            d == [i \in 1 .. n + 1 |-> F(i)]
            K(k) == IF k = 0 THEN 0 ELSE C(k)
            T == { k \in 0 .. n + 1 : Low(d, k) + K(k) * W(k) = p * Low(s, k) }
<1>1. ShiftedUp(s, l) = TrimTo(d, n)
  BY DEF ShiftedUp
<1>2. n \in Nat /\ n + 1 \in Nat /\ n + 1 >= n
  OBVIOUS
<1>3. p \in Nat \ {0} /\ q \in Nat \ {0} /\ p * q = Base
  BY LimbOf
<1>4. \A i \in Nat \ {0} : At(s, i) \in Limb
  BY SeqLimb
<1>5. At(s, n + 1) = 0
  BY SeqLimb
<1>6. s \in Seq(Int)
  BY SeqLimb
<1>20. Magnitude(s) = Low(s, n + 1)
  BY <1>2, MagnitudeNat
<1>. HIDE DEF n, p, q
<1>7. \A i \in Nat \ {0} : C(i) \in Nat /\ C(i) < p
  BY <1>3, <1>4, DigitUp
<1>8. \A i \in 1 .. n + 1 : F(i) \in Limb
  <2>. SUFFICES ASSUME NEW i \in 1 .. n + 1 PROVE F(i) \in Limb
    OBVIOUS
  <2>1. i \in Nat \ {0} /\ At(s, i) \in Limb
    BY <1>2, <1>4
  <2>2. \A c \in Nat : c < p => ((At(s, i) * p) % Base) + c \in Limb
    BY <1>3, <2>1, DigitUp
  <2>3. i # 1 => i - 1 \in Nat \ {0}
    BY <2>1
  <2>. DEFINE g == IF i = 1 THEN 0 ELSE C(i - 1)
  <2>4. g \in Nat /\ g < p
    <3>. HIDE DEF C
    <3>. QED
      BY <1>3, <1>7, <2>3
  <2>5. F(i) = ((At(s, i) * p) % Base) + g
    OBVIOUS
  <2>. HIDE DEF g, F
  <2>. QED
    BY <2>2, <2>4, <2>5
<1>. HIDE DEF F
<1>9. d \in Seq(Limb) /\ Len(d) = n + 1 /\ \A i \in 1 .. n + 1 : d[i] = F(i)
  BY <1>2, <1>8
<1>. HIDE DEF d
<1>10. d \in Seq(Int) /\ \A i \in 1 .. n + 1 : At(d, i) = F(i)
  BY <1>9, SeqLimb
<1>11. 0 \in T
  <2>1. Low(d, 0) = 0 /\ Low(s, 0) = 0
    BY <1>6, <1>10, LowNone
  <2>2. K(0) = 0 /\ W(0) = 1 /\ p * 0 = 0 /\ 0 \in 0 .. n + 1
    BY <1>2, <1>3, Widths
  <2>. QED
    BY <2>1, <2>2
<1>12. ASSUME NEW k \in 0 .. (n + 1) - 1, k \in T PROVE k + 1 \in T
  <2>1. k \in Nat /\ k + 1 \in 1 .. n + 1 /\ (k + 1) - 1 = k /\ k + 1 \in 0 .. n + 1 /\ k + 1 \in Nat \ {0}
        /\ (k # 0 => k \in Nat \ {0}) /\ (k + 1 = 1 <=> k = 0) /\ k + 1 # 0
    BY <1>2
  <2>. DEFINE x == At(s, k + 1)
              r == (x * p) % Base
              c == (x * p) \div Base
              e == K(k)
              w == W(k)
              y == At(d, k + 1)
  <2>2. x \in Limb /\ x \in Nat
    BY <1>4, <2>1, LimbInt
  <2>3. r \in Nat /\ c \in Nat /\ x * p = r + c * Base
    <3>. HIDE DEF x
    <3>. QED
      BY <1>3, <2>2, DigitUp
  <2>4. e \in Nat
    <3>. HIDE DEF C
    <3>. QED
      BY <1>7, <2>1
  <2>5. y = r + e
    BY <1>10, <2>1 DEF F
  <2>6. K(k + 1) = c
    BY <2>1
  <2>7. Low(d, k) + e * w = p * Low(s, k)
    BY <1>12
  <2>8. /\ Low(d, k + 1) = Low(d, k) + y * w /\ Low(s, k + 1) = Low(s, k) + x * w
        /\ Low(d, k) \in Int /\ Low(s, k) \in Int
    BY <1>6, <1>10, <2>1, LowIs
  <2>9. w \in Nat /\ W(k + 1) = w * Base /\ Base \in Nat
    BY <2>1, Widths
  <2>. HIDE DEF x, r, c, e, w, y, K, C
  <2>10. (r + e) * w = r * w + e * w /\ (r + c * Base) * w = r * w + c * (w * Base)
         /\ p * (Low(s, k) + x * w) = p * Low(s, k) + (x * p) * w
    <3>1. (r + e) * w = r * w + e * w
      BY <2>3, <2>4, <2>9
    <3>2. (r + c * Base) * w = r * w + c * (w * Base)
      BY <2>3, <2>9
    <3>3. p * (Low(s, k) + x * w) = p * Low(s, k) + (x * p) * w
      BY <1>3, <2>2, <2>8, <2>9
    <3>. QED
      BY <3>1, <3>2, <3>3
  <2>. DEFINE a == r * w
              b == e * w
              f == c * (w * Base)
              g == p * Low(s, k)
  <2>11. a \in Int /\ b \in Int /\ f \in Int /\ g \in Int
    BY <1>3, <2>3, <2>4, <2>8, <2>9
  <2>12. Low(d, k + 1) = Low(d, k) + (a + b) /\ p * Low(s, k + 1) = g + (a + f)
         /\ Low(d, k) + b = g /\ K(k + 1) * W(k + 1) = f /\ Low(d, k) \in Int
    BY <2>3, <2>5, <2>6, <2>7, <2>8, <2>9, <2>10
  <2>. HIDE DEF a, b, f, g
  <2>13. (Low(d, k) + (a + b)) + f = g + (a + f)
    <3>1. Low(d, k) \in Int /\ Low(d, k) + b = g
      BY <2>12
    <3>2. (Low(d, k) + (a + b)) + f = (Low(d, k) + b) + (a + f)
      BY <2>11, <3>1
    <3>. QED
      BY <3>1, <3>2
  <2>14. Low(d, k + 1) + K(k + 1) * W(k + 1) = p * Low(s, k + 1)
    BY <2>12, <2>13
  <2>. QED
    BY <2>1, <2>14
<1>13. n + 1 \in T
  <2>. HIDE DEF T
  <2>. QED
    BY <1>2, <1>11, <1>12, Powers!Induct
<1>14. K(n + 1) = 0
  <2>1. 0 * p = 0 /\ 0 \div Base = 0 /\ n + 1 # 0
    BY <1>2, <1>3, Widths
  <2>. QED
    BY <1>5, <2>1
<1>. HIDE DEF K
<1>15. Low(d, n + 1) = p * Low(s, n + 1)
  <2>1. W(n + 1) \in Int /\ Low(d, n + 1) \in Int
    <3>1. W(n + 1) \in Int
      BY <1>2, Widths
    <3>. DEFINE m == n + 1
    <3>2. m \in Nat
      BY <1>2
    <3>. HIDE DEF m
    <3>3. Low(d, m) \in Int
      BY <1>10, <3>2, LowIs
    <3>. QED
      BY <3>1, <3>3 DEF m
  <2>2. Low(d, n + 1) + 0 * W(n + 1) = p * Low(s, n + 1)
    BY <1>13, <1>14
  <2>3. 0 * W(n + 1) = 0
    BY <2>1
  <2>. QED
    BY <2>1, <2>2, <2>3
<1>16. Magnitude(d) = Low(d, n + 1)
  BY <1>9, <1>10, MagnitudeIs
<1>17. TrimTo(d, n) \in Seq(Limb) /\ Magnitude(TrimTo(d, n)) = Magnitude(d)
  BY <1>2, <1>9, Trim
<1>. QED
  BY <1>1, <1>15, <1>16, <1>17, <1>20 DEF p

LEMMA ZerosAre ==
  ASSUME NEW n \in Nat
  PROVE  Zeros(n) \in Seq(Limb) /\ Len(Zeros(n)) = n /\ Magnitude(Zeros(n)) = 0
         /\ \A i \in Nat \ {0} : At(Zeros(n), i) = 0
<1>. DEFINE z == Zeros(n)
<1>1. z \in Seq(Limb) /\ Len(z) = n /\ \A i \in 1 .. n : z[i] = 0
  BY LimbInt DEF Zeros
<1>. HIDE DEF z
<1>2. Magnitude(z) = 0
  BY <1>1, MagnitudeZero
<1>. QED
  BY <1>1, <1>2, MagnitudeZero DEF z

LEMMA ShiftedLeft ==
  ASSUME NEW s \in Seq(Limb), NEW n \in Nat, NEW u, u = Zeros(CharsIn(n)) \o ShiftedUp(s, BitsInLast(n))
  PROVE  u \in Seq(Limb) /\ Magnitude(u) = Magnitude(s) * 2 ^ n
<1>. DEFINE c == CharsIn(n)
            l == BitsInLast(n)
            v == ShiftedUp(s, l)
<1>1. c \in Nat /\ l \in 0 .. BitsPerChar - 1 /\ 2 ^ n = W(c) * 2 ^ l
  BY Exponent
<1>. HIDE DEF c, l
<1>2. v \in Seq(Limb) /\ Magnitude(v) = 2 ^ l * Magnitude(s)
  BY <1>1, ShiftedUpIs
<1>3. Zeros(c) \in Seq(Limb) /\ Len(Zeros(c)) = c /\ Magnitude(Zeros(c)) = 0
  BY <1>1, ZerosAre
<1>4. u = Zeros(c) \o v
  BY DEF c, l
<1>. HIDE DEF v
<1>5. u \in Seq(Limb) /\ Magnitude(u) = 0 + W(c) * Magnitude(v)
  BY <1>2, <1>3, <1>4, Joint, JointMagnitude
<1>6. Magnitude(s) \in Nat /\ W(c) \in Nat /\ 2 ^ l \in Nat
  BY <1>1, MagnitudeNat, Widths, LimbOf
<1>. DEFINE p == 2 ^ l
            m == Magnitude(s)
            w == W(c)
<1>7. w * (p * m) = m * (w * p) /\ w * (p * m) \in Nat
  <2>. HIDE DEF p, m, w
  <2>1. p \in Nat /\ m \in Nat /\ w \in Nat
    BY <1>6 DEF p, m, w
  <2>2. w * (p * m) = m * (w * p)
    BY <2>1
  <2>. QED
    BY <2>1, <2>2, NatProduct
<1>. QED
  BY <1>1, <1>2, <1>5, <1>7

LEMMA DigitDown ==
  ASSUME NEW x \in Limb, NEW y \in Limb, NEW p \in Nat \ {0}, NEW q \in Nat \ {0}, p * q = Base
  PROVE  LET d == ((x + Base * y) \div p) % Base
         IN  /\ d \in Limb /\ p * d + (x % p) = x + (y % p) * Base
             /\ x % p \in Nat /\ y % p \in Nat /\ x % p < p
<1>1. Base \in Nat \ {0} /\ Limb = 0 .. Base - 1 /\ x \in Nat /\ y \in Nat /\ x < q * p /\ y < p * q
  <2>1. p * q = q * p
    OBVIOUS
  <2>. QED
    BY <2>1, Widths DEF Limb
<1>. DEFINE xh == x \div p
            xl == x % p
            yh == y \div p
            yl == y % p
<1>2. xh \in Nat /\ xl \in Nat /\ xl < p /\ x = xh * p + xl /\ xh < q
  BY <1>1, Divided, QuotientBelow
<1>3. yh \in Nat /\ yl \in Nat /\ yl < p /\ y = yh * p + yl
  BY <1>1, Divided
<1>. HIDE DEF xh, xl, yh, yl
<1>4. x + Base * y = (xh + q * y) * p + xl
  <2>1. (xh + q * y) * p = xh * p + y * (p * q)
    BY <1>1, <1>2
  <2>2. y * Base = Base * y /\ xh * p \in Nat /\ Base * y \in Nat
    BY <1>1, <1>2
  <2>. DEFINE a == xh * p
              b == Base * y
  <2>3. (xh + q * y) * p = a + b /\ x = a + xl /\ a \in Int /\ b \in Int /\ xl \in Int
    BY <1>2, <2>1, <2>2
  <2>. HIDE DEF a, b
  <2>4. x + b = (a + b) + xl
    BY <2>3
  <2>. QED
    BY <2>3, <2>4 DEF b
<1>5. xh + q * y \in Nat
  BY <1>1, <1>2
<1>6. (x + Base * y) \div p = xh + q * y
  <2>. DEFINE t == xh + q * y
  <2>1. t \in Nat /\ x + Base * y = t * p + xl
    BY <1>4, <1>5
  <2>. HIDE DEF t
  <2>2. (t * p + xl) \div p = t
    BY <1>2, <2>1, DividedBy
  <2>. QED
    BY <2>1, <2>2 DEF t
<1>7. xh + q * y = yh * Base + (xh + yl * q)
  <2>1. q * (yh * p + yl) = yh * (p * q) + yl * q
    BY <1>2, <1>3
  <2>. DEFINE a == yh * Base
              b == yl * q
  <2>2. q * y = a + b /\ a \in Int /\ b \in Int /\ xh \in Int
    BY <1>1, <1>2, <1>3, <2>1
  <2>. HIDE DEF a, b
  <2>3. xh + (a + b) = a + (xh + b)
    BY <2>2
  <2>. QED
    BY <2>2, <2>3 DEF a, b
<1>8. xh + yl * q \in Nat /\ xh + yl * q < Base
  <2>1. xh + yl * q < q * p /\ xh + yl * q \in Nat
    BY <1>2, <1>3, Digit
  <2>2. q * p = p * q
    OBVIOUS
  <2>. QED
    BY <2>1, <2>2
<1>. DEFINE d == ((x + Base * y) \div p) % Base
<1>9. d = xh + yl * q
  <2>. DEFINE t == xh + yl * q
  <2>1. t \in Nat /\ t < Base
    BY <1>8
  <2>. HIDE DEF t
  <2>2. (yh * Base + t) % Base = t
    BY <1>1, <1>3, <2>1, DividedBy
  <2>. QED
    BY <1>6, <1>7, <2>2 DEF t
<1>10. p * d + xl = x + yl * Base
  <2>1. p * (xh + yl * q) = xh * p + yl * (p * q)
    BY <1>2, <1>3
  <2>. DEFINE a == xh * p
              b == yl * Base
  <2>2. p * d = a + b /\ x = a + xl /\ a \in Int /\ b \in Int /\ xl \in Int
    BY <1>1, <1>2, <1>3, <1>9, <2>1
  <2>. HIDE DEF a, b, d
  <2>3. (a + b) + xl = (a + xl) + b
    BY <2>2
  <2>. QED
    BY <2>2, <2>3 DEF b
<1>11. d \in Limb
  <2>. DEFINE t == xh + yl * q
  <2>1. t \in Nat /\ t < Base /\ d = t
    BY <1>8, <1>9
  <2>. HIDE DEF t, d
  <2>. QED
    BY <1>1, <2>1
<1>. QED
  BY <1>2, <1>3, <1>10, <1>11 DEF xl, yl

LEMMA ShiftedDownIs ==
  ASSUME NEW s \in Seq(Limb), NEW l \in 0 .. BitsPerChar - 1
  PROVE  /\ ShiftedDown(s, l) \in Seq(Limb)
         /\ Magnitude(ShiftedDown(s, l)) = Magnitude(s) \div 2 ^ l
<1>. DEFINE n == Len(s)
            p == 2 ^ l
            q == 2 ^ (BitsPerChar - l)
            F(i) == ((At(s, i) + Base * At(s, i + 1)) \div p) % Base
            d == ShiftedDown(s, l)
            o == At(s, 1) % p
            R(k) == At(s, k + 1) % p
            T == { k \in 0 .. n : p * Low(d, k) + o = Low(s, k) + R(k) * W(k) }
<1>1. n \in Nat /\ \A i \in 1 .. n : At(s, i) = s[i]
  BY SeqLimb
<1>2. d = [i \in 1 .. n |-> F(i)]
  <2>1. d = [i \in 1 .. n |-> ((s[i] + Base * At(s, i + 1)) \div p) % Base]
    BY DEF ShiftedDown
  <2>2. \A i \in 1 .. n : ((s[i] + Base * At(s, i + 1)) \div p) % Base = F(i)
    BY <1>1
  <2>. HIDE DEF F, d, n
  <2>. QED
    BY <2>1, <2>2
<1>3. p \in Nat \ {0} /\ q \in Nat \ {0} /\ p * q = Base
  BY LimbOf
<1>4. \A i \in Nat \ {0} : At(s, i) \in Limb
  BY SeqLimb
<1>5. At(s, n + 1) = 0 /\ s \in Seq(Int)
  BY SeqLimb
<1>6. Magnitude(s) = Low(s, n) /\ Magnitude(s) \in Nat
  BY <1>5, MagnitudeIs, MagnitudeNat
<1>. HIDE DEF n, p, q, d
<1>7. \A i \in 1 .. n : F(i) \in Limb
  <2>1. \A i \in 1 .. n : i \in Nat \ {0} /\ i + 1 \in Nat \ {0}
    BY <1>1
  <2>2. \A x, y \in Limb : ((x + Base * y) \div p) % Base \in Limb
    BY <1>3, DigitDown
  <2>. QED
    BY <1>4, <2>1, <2>2
<1>8. d \in Seq(Limb) /\ Len(d) = n /\ \A i \in 1 .. n : d[i] = F(i)
  <2>. HIDE DEF F
  <2>. QED
    BY <1>1, <1>2, <1>7
<1>9. d \in Seq(Int) /\ \A i \in 1 .. n : At(d, i) = F(i)
  <2>. HIDE DEF F
  <2>. QED
    BY <1>8, SeqLimb
<1>. HIDE DEF F
<1>10. \A k \in Nat : R(k) \in Nat /\ R(k) < p
  <2>. SUFFICES ASSUME NEW k \in Nat PROVE R(k) \in Nat /\ R(k) < p
    OBVIOUS
  <2>. DEFINE x == At(s, k + 1)
  <2>1. x \in Nat
    <3>1. k + 1 \in Nat \ {0}
      OBVIOUS
    <3>. QED
      BY <1>4, <3>1, LimbInt
  <2>. HIDE DEF x
  <2>2. x % p \in Nat /\ x % p < p
    BY <1>3, <2>1, Divided
  <2>. QED
    BY <2>2 DEF x
<1>11. o = R(0)
  OBVIOUS
<1>12. o \in Nat /\ o < p
  <2>. HIDE DEF R, o
  <2>. QED
    BY <1>10, <1>11
<1>. HIDE DEF o
<1>13. 0 \in T
  <2>. HIDE DEF R
  <2>1. Low(d, 0) = 0 /\ Low(s, 0) = 0 /\ W(0) = 1 /\ 0 \in 0 .. n
    BY <1>1, <1>5, <1>9, LowNone, Widths
  <2>2. p * 0 + o = 0 + R(0) * 1
    BY <1>3, <1>11, <1>12
  <2>. QED
    BY <2>1, <2>2
<1>14. ASSUME NEW k \in 0 .. n - 1, k \in T PROVE k + 1 \in T
  <2>1. k \in Nat /\ k + 1 \in 1 .. n /\ k + 1 \in 0 .. n /\ k + 1 \in Nat \ {0} /\ (k + 1) + 1 \in Nat \ {0}
    BY <1>1
  <2>. DEFINE x == At(s, k + 1)
              y == At(s, (k + 1) + 1)
              z == At(d, k + 1)
              w == W(k)
  <2>2. x \in Limb /\ y \in Limb /\ x \in Nat
    BY <1>4, <2>1, LimbInt
  <2>3. z = ((x + Base * y) \div p) % Base
    BY <1>9, <2>1 DEF F
  <2>4. R(k) = x % p /\ R(k + 1) = y % p
    OBVIOUS
  <2>5. /\ Low(d, k + 1) = Low(d, k) + z * w /\ Low(s, k + 1) = Low(s, k) + x * w
        /\ Low(d, k) \in Int /\ Low(s, k) \in Int
    BY <1>5, <1>9, <2>1, LowIs
  <2>6. w \in Nat /\ W(k + 1) = w * Base /\ Base \in Nat
    BY <2>1, Widths
  <2>7. p * Low(d, k) + o = Low(s, k) + R(k) * w
    BY <1>14
  <2>. HIDE DEF x, y, z, w, R
  <2>8. z \in Limb /\ p * z + (x % p) = x + (y % p) * Base
    BY <1>3, <2>2, <2>3, DigitDown
  <2>9. z \in Nat /\ R(k) \in Nat /\ R(k + 1) \in Nat
    BY <1>10, <2>1, <2>8, LimbInt
  <2>10. p * z + R(k) = x + R(k + 1) * Base
    BY <2>4, <2>8
  <2>11. (p * z + R(k)) * w = (p * z) * w + R(k) * w
         /\ (x + R(k + 1) * Base) * w = x * w + R(k + 1) * (w * Base)
         /\ p * (Low(d, k) + z * w) = p * Low(d, k) + (p * z) * w
    <3>1. (p * z + R(k)) * w = (p * z) * w + R(k) * w
      BY <1>3, <2>6, <2>9
    <3>2. (x + R(k + 1) * Base) * w = x * w + R(k + 1) * (w * Base)
      BY <2>2, <2>6, <2>9
    <3>3. p * (Low(d, k) + z * w) = p * Low(d, k) + (p * z) * w
      BY <1>3, <2>5, <2>6, <2>9
    <3>. QED
      BY <3>1, <3>2, <3>3
  <2>. DEFINE a == (p * z) * w
              b == R(k) * w
              e == x * w
              f == R(k + 1) * (w * Base)
              g == p * Low(d, k)
  <2>12. a \in Int /\ b \in Int /\ e \in Int /\ f \in Int /\ g \in Int /\ o \in Int
    <3>1. p * z \in Int /\ w * Base \in Int
      BY <1>3, <2>6, <2>9
    <3>2. a \in Int /\ b \in Int
      BY <2>6, <2>9, <3>1
    <3>3. e \in Int /\ f \in Int
      BY <2>2, <2>6, <2>9, <3>1
    <3>4. g \in Int /\ o \in Int
      BY <1>3, <1>12, <2>5
    <3>. QED
      BY <3>2, <3>3, <3>4
  <2>13. a + b = e + f
    BY <2>10, <2>11
  <2>14. /\ p * Low(d, k + 1) = g + a /\ Low(s, k + 1) = Low(s, k) + e
         /\ g + o = Low(s, k) + b /\ R(k + 1) * W(k + 1) = f /\ Low(s, k) \in Int
    BY <2>5, <2>6, <2>7, <2>11
  <2>. HIDE DEF a, b, e, f, g
  <2>15. (g + a) + o = (Low(s, k) + e) + f
    <3>1. Low(s, k) \in Int /\ g + o = Low(s, k) + b
      BY <2>14
    <3>2. (g + a) + o = (g + o) + a
      BY <2>12
    <3>3. (Low(s, k) + b) + a = Low(s, k) + (a + b)
      BY <2>12, <3>1
    <3>4. Low(s, k) + (e + f) = (Low(s, k) + e) + f
      BY <2>12, <3>1
    <3>. QED
      BY <2>13, <3>1, <3>2, <3>3, <3>4
  <2>16. p * Low(d, k + 1) + o = Low(s, k + 1) + R(k + 1) * W(k + 1)
    BY <2>14, <2>15
  <2>. QED
    BY <2>1, <2>16
<1>15. n \in T
  <2>. HIDE DEF T
  <2>. QED
    BY <1>1, <1>13, <1>14, Powers!Induct
<1>16. R(n) = 0
  <2>1. 0 % p = 0
    BY <1>3
  <2>. QED
    BY <1>5, <2>1
<1>. HIDE DEF R
<1>17. p * Magnitude(d) + o = Magnitude(s)
  <2>1. Magnitude(d) = Low(d, n)
    BY <1>8, <1>9, MagnitudeIs
  <2>2. p * Low(d, n) + o = Low(s, n) + 0 * W(n)
    BY <1>15, <1>16
  <2>3. W(n) \in Int
    BY <1>1, Widths
  <2>4. 0 * W(n) = 0
    BY <2>3
  <2>. QED
    BY <1>6, <2>1, <2>2, <2>4
<1>18. Magnitude(d) \in Nat
  BY <1>8, MagnitudeNat
<1>. DEFINE m == Magnitude(d)
<1>19. Magnitude(s) = m * p + o /\ m \in Nat
  BY <1>3, <1>17, <1>18
<1>. HIDE DEF m
<1>20. Magnitude(s) \div p = m
  BY <1>3, <1>12, <1>19, DividedBy
<1>. QED
  BY <1>8, <1>20 DEF p, d, m

(* Any number of the lowest limbs, and the rest in their width.            *)
LEMMA Parts ==
  ASSUME NEW s \in Seq(Limb), NEW j \in Nat
  PROVE  \E R \in Nat : Magnitude(s) = Low(s, j) + W(j) * R
<1>1. CASE j <= Len(s)
  <2>1. j \in 0 .. Len(s)
    BY <1>1
  <2>. DEFINE h == Above(s, j)
  <2>2. h \in Seq(Limb) /\ Magnitude(s) = Low(s, j) + W(j) * Magnitude(h)
    BY <2>1, Upper
  <2>3. Magnitude(h) \in Nat
    BY <2>2, MagnitudeNat
  <2>. QED
    BY <2>2, <2>3
<1>2. CASE j >= Len(s)
  <2>1. Magnitude(s) = Low(s, j) /\ Magnitude(s) \in Nat /\ W(j) \in Nat
    BY <1>2, MagnitudeNat, Widths
  <2>2. Magnitude(s) = Low(s, j) + W(j) * 0
    BY <2>1
  <2>. QED
    BY <2>2
<1>. QED
  BY <1>1, <1>2

(* The next limb between the two.                                          *)
LEMMA MiddleLimb ==
  ASSUME NEW s \in Seq(Limb), NEW j \in Nat
  PROVE  \E R \in Nat : Magnitude(s) = (At(s, j + 1) + Base * R) * W(j) + Low(s, j)
<1>1. PICK R \in Nat : Magnitude(s) = Low(s, j + 1) + W(j + 1) * R
  BY Parts
<1>2. Low(s, j + 1) = Low(s, j) + At(s, j + 1) * W(j) /\ Low(s, j) \in Int
  BY SeqLimb, LowIs
<1>3. W(j) \in Nat /\ W(j + 1) = W(j) * Base /\ Base \in Nat
  BY Widths
<1>. DEFINE x == At(s, j + 1)
            w == W(j)
            a == x * w
            b == (w * Base) * R
<1>4. x \in Nat
  BY SeqLimb
<1>5. Magnitude(s) = (Low(s, j) + a) + b
  BY <1>1, <1>2, <1>3
<1>. HIDE DEF x, w
<1>6. (x + Base * R) * w = a + b /\ a \in Int /\ b \in Int
  <2>1. w \in Nat
    BY <1>3 DEF w
  <2>. QED
    BY <1>3, <1>4, <2>1
<1>. HIDE DEF a, b
<1>7. Magnitude(s) = (a + b) + Low(s, j)
  BY <1>2, <1>5, <1>6
<1>. QED
  BY <1>6, <1>7 DEF x, w

-----------------------------------------------------------------------------
(* Numbers.                                                                *)

Signed == [sign : {-1, 0, 1}, limbs : Seq(Limb)]
IsNumber(n) == n \in Signed /\ (n.sign = 0 <=> Magnitude(n.limbs) = 0)

(* Numbers for the program to hold, and some with the values of num.       *)
Sound(g) == g \in [Reg -> Signed] /\ \A x \in Reg : IsNumber(g[x])
Keeps(g) == Sound(g) /\ \A x \in Reg : Value(g[x]) = Value(num[x])

LEMMA TypesAreSound == TypeOK <=> Sound(num)
BY DEF TypeOK, Sound, IsNumber, Signed

LEMMA TypesKeep == ASSUME TypeOK PROVE Keeps(num)
BY TypesAreSound DEF Keeps

LEMMA NumberOf ==
  ASSUME NEW n, IsNumber(n)
  PROVE  /\ n.sign \in {-1, 0, 1} /\ n.limbs \in Seq(Limb) /\ n = Number(n.sign, n.limbs)
         /\ Magnitude(n.limbs) \in Nat /\ Value(n) \in Int
         /\ n.sign = 0 => Value(n) = 0 /\ Magnitude(n.limbs) = 0
         /\ n.sign = 1 => Value(n) = Magnitude(n.limbs) /\ Magnitude(n.limbs) > 0
         /\ n.sign = -1 => Value(n) = - Magnitude(n.limbs) /\ Magnitude(n.limbs) > 0
<1>1. n.sign \in {-1, 0, 1} /\ n.limbs \in Seq(Limb) /\ n = Number(n.sign, n.limbs)
      /\ (n.sign = 0 <=> Magnitude(n.limbs) = 0)
  BY DEF IsNumber, Signed, Number
<1>2. Magnitude(n.limbs) \in Nat
  BY <1>1, MagnitudeNat
<1>3. Value(n) = n.sign * Magnitude(n.limbs)
  BY DEF Value
<1>. DEFINE m == Magnitude(n.limbs)
<1>4. m \in Nat /\ Value(n) = n.sign * m /\ (n.sign = 0 <=> m = 0)
  BY <1>1, <1>2, <1>3
<1>. HIDE DEF m
<1>5. CASE n.sign = 0
  BY <1>1, <1>4, <1>5 DEF m
<1>6. CASE n.sign = 1
  BY <1>1, <1>4, <1>6 DEF m
<1>7. CASE n.sign = -1
  BY <1>1, <1>4, <1>7 DEF m
<1>. QED
  BY <1>1, <1>5, <1>6, <1>7

LEMMA NumberIs ==
  ASSUME NEW sg \in {-1, 1}, NEW s \in Seq(Limb), Magnitude(s) # 0
  PROVE  /\ IsNumber(Number(sg, s)) /\ Number(sg, s).sign = sg /\ Number(sg, s).limbs = s
         /\ Value(Number(sg, s)) = sg * Magnitude(s)
BY DEF Number, IsNumber, Signed, Value

LEMMA ZeroIs == IsNumber(Zero) /\ Value(Zero) = 0 /\ Zero.sign = 0 /\ Zero.limbs = <<>>
<1>1. <<>> \in Seq(Limb) /\ Len(<<>>) = 0 /\ 1 .. 0 = {}
  OBVIOUS
<1>2. Magnitude(<<>>) = 0
  BY <1>1, MagnitudeZero
<1>. QED
  BY <1>1, <1>2 DEF Zero, Number, IsNumber, Signed, Value

LEMMA AbsIs ==
  ASSUME NEW n, IsNumber(n)
  PROVE  /\ IsNumber(Abs(n)) /\ Value(Abs(n)) = Magnitude(n.limbs)
         /\ Abs(n).limbs = n.limbs /\ (Abs(n).sign = 0 <=> n.sign = 0)
<1>1. n.sign \in {-1, 0, 1} /\ n.limbs \in Seq(Limb) /\ (n.sign = 0 <=> Magnitude(n.limbs) = 0)
      /\ Magnitude(n.limbs) \in Nat
  BY NumberOf DEF IsNumber
<1>2. n.sign * n.sign \in {0, 1} /\ (n.sign * n.sign = 0 <=> n.sign = 0)
  BY <1>1
<1>3. Abs(n).sign = n.sign * n.sign /\ Abs(n).limbs = n.limbs
  BY DEF Abs, Number
<1>4. IsNumber(Abs(n))
  BY <1>1, <1>2 DEF IsNumber, Signed, Abs, Number
<1>5. CASE n.sign = 0
  BY <1>1, <1>2, <1>3, <1>4, <1>5, NumberOf
<1>6. CASE n.sign # 0
  <2>1. Abs(n).sign = 1
    BY <1>2, <1>3, <1>6
  <2>. QED
    BY <1>2, <1>3, <1>4, <2>1, NumberOf
<1>. QED
  BY <1>5, <1>6

LEMMA NegIs ==
  ASSUME NEW n, IsNumber(n)
  PROVE  IsNumber(Neg(n)) /\ Value(Neg(n)) = - Value(n)
<1>1. n.sign \in {-1, 0, 1} /\ n.limbs \in Seq(Limb) /\ (n.sign = 0 <=> Magnitude(n.limbs) = 0)
      /\ Magnitude(n.limbs) \in Nat
  BY NumberOf DEF IsNumber
<1>2. - n.sign \in {-1, 0, 1} /\ (- n.sign = 0 <=> n.sign = 0)
      /\ (n.sign = 1 <=> - n.sign = -1) /\ (n.sign = -1 <=> - n.sign = 1)
  BY <1>1
<1>3. Neg(n).sign = - n.sign /\ Neg(n).limbs = n.limbs
  BY DEF Neg, Number
<1>4. IsNumber(Neg(n))
  BY <1>1, <1>2 DEF IsNumber, Signed, Neg, Number
<1>5. CASE n.sign = 0
  <2>1. Value(n) = 0 /\ Value(Neg(n)) = 0
    BY <1>2, <1>3, <1>4, <1>5, NumberOf
  <2>2. \A i, j \in Int : i <= 0 /\ i >= 0 /\ j <= 0 /\ j >= 0 => i = - j
    OBVIOUS
  <2>3. Value(Neg(n)) \in Int /\ Value(n) \in Int
    BY <1>4, NumberOf
  <2>4. /\ Value(n) <= 0 /\ Value(n) >= 0
        /\ Value(Neg(n)) <= 0 /\ Value(Neg(n)) >= 0
    BY <2>1
  <2>. QED
    BY <1>4, <2>2, <2>3, <2>4
<1>6. CASE n.sign = 1
  <2>1. Value(n) = Magnitude(n.limbs) /\ Value(Neg(n)) = - Magnitude(n.limbs)
    BY <1>2, <1>3, <1>4, <1>6, NumberOf
  <2>. QED
    BY <1>4, <2>1
<1>7. CASE n.sign = -1
  <2>1. Value(n) = - Magnitude(n.limbs) /\ Value(Neg(n)) = Magnitude(n.limbs)
    BY <1>2, <1>3, <1>4, <1>7, NumberOf
  <2>. QED
    BY <1>1, <1>4, <2>1
<1>. QED
  BY <1>1, <1>5, <1>6, <1>7

LEMMA TrimAndSignIs ==
  ASSUME NEW sg \in {-1, 1}, NEW s \in Seq(Limb)
  PROVE  /\ IsNumber(TrimAndSign(sg, s)) /\ Value(TrimAndSign(sg, s)) = sg * Magnitude(s)
         /\ Magnitude(TrimAndSign(sg, s).limbs) = Magnitude(s)
<1>. DEFINE t == TrimTo(s, 0)
<1>1. t \in Seq(Limb) /\ Magnitude(t) = Magnitude(s) /\ (t = <<>> <=> Magnitude(s) = 0)
  BY TrimAll
<1>2. TrimAndSign(sg, s) = IF t = <<>> THEN Zero ELSE Number(sg, t)
  BY DEF TrimAndSign
<1>. HIDE DEF t
<1>3. CASE t = <<>>
  <2>1. TrimAndSign(sg, s) = Zero /\ sg * Magnitude(s) = 0
    BY <1>1, <1>2, <1>3
  <2>2. Magnitude(Zero.limbs) = Magnitude(s)
    BY <1>1, <1>3, ZeroIs
  <2>. QED
    BY <2>1, <2>2, ZeroIs
<1>4. CASE t # <<>>
  <2>1. TrimAndSign(sg, s) = Number(sg, t) /\ Magnitude(t) # 0
    BY <1>1, <1>2, <1>4
  <2>. QED
    BY <1>1, <2>1, NumberIs
<1>. QED
  BY <1>3, <1>4

-----------------------------------------------------------------------------
(* What an operation stores.                                               *)

LEMMA Put ==
  ASSUME NEW g, Keeps(g), NEW a \in Reg, NEW n, IsNumber(n)
  PROVE  LET r == [g EXCEPT ![a] = n]
         IN  Sound(r) /\ r[a] = n /\ Stores(r, a, Value(n))
<1>. DEFINE r == [g EXCEPT ![a] = n]
<1>1. g \in [Reg -> Signed] /\ n \in Signed
  BY DEF Keeps, Sound, IsNumber
<1>2. r \in [Reg -> Signed] /\ r[a] = n /\ \A x \in Reg \ {a} : r[x] = g[x]
  BY <1>1
<1>3. \A x \in Reg : IsNumber(r[x])
  BY <1>2 DEF Keeps, Sound
<1>4. Stores(r, a, Value(n))
  BY <1>2 DEF Stores, Keeps
<1>. QED
  BY <1>2, <1>3, <1>4 DEF Sound

LEMMA Assigned ==
  ASSUME TypeOK, NEW a \in Reg, NEW n, IsNumber(n), NEW r \in Assign(a, n)
  PROVE  Sound(r) /\ r[a] = n /\ Stores(r, a, Value(n))
<1>1. r = [num EXCEPT ![a] = n] /\ Keeps(num)
  BY TypesKeep DEF Assign
<1>. QED
  BY <1>1, Put

LEMMA NegAllIs ==
  ASSUME NEW a \in Reg, NEW S, NEW v, NEW P, \A q \in S : Sound(q) /\ (P \/ Stores(q, a, v)),
         v \in Int, NEW r \in NegAll(a, S)
  PROVE  Sound(r) /\ (P \/ Stores(r, a, - v))
<1>1. PICK q \in S : r = [q EXCEPT ![a] = Neg(@)]
  BY DEF NegAll
<1>2. q \in [Reg -> Signed] /\ (\A x \in Reg : IsNumber(q[x])) /\ Sound(q) /\ (P \/ Stores(q, a, v))
  BY <1>1 DEF Sound
<1>3. IsNumber(Neg(q[a])) /\ Value(Neg(q[a])) = - Value(q[a])
  BY <1>2, NegIs
<1>4. r = [q EXCEPT ![a] = Neg(q[a])]
  BY <1>1
<1>. HIDE DEF NegAll
<1>5. r \in [Reg -> Signed] /\ r[a] = Neg(q[a]) /\ \A x \in Reg \ {a} : r[x] = q[x]
  BY <1>2, <1>3, <1>4 DEF IsNumber
<1>6. Sound(r)
  BY <1>2, <1>3, <1>5 DEF Sound
<1>7. Stores(q, a, v) => Stores(r, a, - v)
  BY <1>3, <1>5 DEF Stores
<1>. QED
  BY <1>2, <1>6, <1>7

LEMMA Registers ==
  ASSUME TypeOK, NEW a \in Reg
  PROVE  /\ IsNumber(num[a]) /\ Limbs(a) \in Seq(Limb) /\ Limbs(a) = num[a].limbs
         /\ Used(a) = Len(Limbs(a)) /\ Used(a) \in Nat
         /\ Size(a) = Magnitude(Limbs(a)) /\ Size(a) \in Nat
         /\ num[a].sign \in {-1, 0, 1} /\ (IsZero(a) <=> num[a].sign = 0)
         /\ IsZero(a) <=> Size(a) = 0
         /\ num[a].sign = 0 => Value(num[a]) = 0
         /\ num[a].sign = 1 => Value(num[a]) = Size(a)
         /\ num[a].sign = -1 => Value(num[a]) = - Size(a)
         /\ Value(num[a]) \in Int
<1>1. IsNumber(num[a])
  BY TypesAreSound DEF Sound
<1>2. Size(a) = Magnitude(Limbs(a)) /\ Limbs(a) = num[a].limbs
  BY <1>1, AbsIs DEF Size, Limbs
<1>3. Limbs(a) \in Seq(Limb) /\ Used(a) = Len(Limbs(a))
  BY <1>1, <1>2, NumberOf DEF Used
<1>4. Used(a) \in Nat
  BY <1>3
<1>. QED
  BY <1>1, <1>2, <1>3, <1>4, NumberOf DEF IsZero

-----------------------------------------------------------------------------
(* Comparison of numbers.                                                  *)

(* A number of which a comparison has trimmed the limbs.                   *)
Shortened(n, k) == [n EXCEPT !.limbs = TrimTo(@, k)]

LEMMA ShortenedIs ==
  ASSUME NEW n, IsNumber(n), NEW k \in Nat
  PROVE  /\ IsNumber(Shortened(n, k)) /\ Value(Shortened(n, k)) = Value(n)
         /\ Shortened(n, k).sign = n.sign /\ Shortened(n, k).limbs = TrimTo(n.limbs, k)
<1>. DEFINE m == Shortened(n, k)
            t == TrimTo(n.limbs, k)
<1>1. n \in Signed /\ n.limbs \in Seq(Limb) /\ (n.sign = 0 <=> Magnitude(n.limbs) = 0)
  BY NumberOf DEF IsNumber
<1>2. m.sign = n.sign /\ m.limbs = t /\ (t \in Seq(Limb) => m \in Signed)
  BY <1>1 DEF Signed, Shortened
<1>3. t \in Seq(Limb) /\ Magnitude(t) = Magnitude(n.limbs)
  BY <1>1, Trim
<1>. HIDE DEF m, t
<1>4. IsNumber(m) /\ Value(m) = Value(n)
  BY <1>1, <1>2, <1>3 DEF IsNumber, Value
<1>. QED
  BY <1>2, <1>4 DEF m, t

LEMMA PutSame ==
  ASSUME NEW g, Keeps(g), NEW a \in Reg, NEW n, IsNumber(n), Value(n) = Value(num[a])
  PROVE  LET r == [g EXCEPT ![a] = n]
         IN  Keeps(r) /\ r[a] = n /\ \A x \in Reg \ {a} : r[x] = g[x]
<1>. DEFINE r == [g EXCEPT ![a] = n]
<1>1. g \in [Reg -> Signed] /\ n \in Signed
  BY DEF Keeps, Sound, IsNumber
<1>2. r \in [Reg -> Signed] /\ r[a] = n /\ \A x \in Reg \ {a} : r[x] = g[x]
  BY <1>1
<1>. HIDE DEF r
<1>3. Keeps(r)
  BY <1>2 DEF Keeps, Sound
<1>. QED
  BY <1>2, <1>3 DEF r

LEMMA ShortenOne ==
  ASSUME NEW g, Keeps(g), NEW b \in Reg, NEW k \in Nat
  PROVE  LET r == [g EXCEPT ![b] = Shortened(g[b], k)]
         IN  /\ Keeps(r) /\ r[b] = Shortened(g[b], k)
             /\ \A x \in Reg \ {b} : r[x] = g[x]
<1>1. IsNumber(g[b]) /\ Value(g[b]) = Value(num[b])
  BY DEF Keeps, Sound
<1>2. IsNumber(Shortened(g[b], k)) /\ Value(Shortened(g[b], k)) = Value(num[b])
  BY <1>1, ShortenedIs
<1>. QED
  BY <1>2, PutSame

LEMMA ShortenTwo ==
  ASSUME num \in [Reg -> Signed], NEW b \in Reg, NEW c \in Reg, b # c, ~ IsZero(b), ~ IsZero(c)
  PROVE  Compared(b, c) = [[num EXCEPT ![b] = Shortened(num[b], Used(c))]
                             EXCEPT ![c] = Shortened(num[c], Used(b))]
BY DEF Compared, Shortened

(* What a comparison of two numbers that are not zero leaves of them.      *)
LEMMA ComparedLimbs ==
  ASSUME TypeOK, NEW b \in Reg, NEW c \in Reg
  PROVE  /\ Keeps(Compared(b, c))
         /\ ~ IsZero(b) /\ ~ IsZero(c) =>
              /\ Compared(b, c)[b].limbs = TrimTo(Limbs(b), Used(c))
              /\ Compared(b, c)[c].limbs = TrimTo(Limbs(c), Used(b))
              /\ Compared(b, c)[b].sign = num[b].sign
              /\ Compared(b, c)[c].sign = num[c].sign
<1>1. Keeps(num)
  BY TypesKeep
<1>2. CASE IsZero(b) \/ IsZero(c)
  BY <1>1, <1>2 DEF Compared
<1>3. CASE ~ IsZero(b) /\ ~ IsZero(c)
  <2>. DEFINE m == Used(b)
              n == Used(c)
              g == [num EXCEPT ![b] = Shortened(num[b], n)]
              r == [g EXCEPT ![c] = Shortened(g[c], m)]
  <2>1. /\ m \in Nat /\ n \in Nat /\ IsNumber(num[b]) /\ IsNumber(num[c])
        /\ Limbs(b) = num[b].limbs /\ Limbs(c) = num[c].limbs
        /\ m = Len(num[b].limbs) /\ n = Len(num[c].limbs) /\ num[b].limbs \in Seq(Limb)
    BY Registers
  <2>2. Compared(b, c) = [num EXCEPT ![b].limbs = TrimTo(@, n), ![c].limbs = TrimTo(@, m)]
    BY <1>3 DEF Compared
  <2>6. CASE b # c
    <3>1. Keeps(g) /\ g[b] = Shortened(num[b], n) /\ \A x \in Reg \ {b} : g[x] = num[x]
      BY <1>1, <2>1, ShortenOne
    <3>2. num \in [Reg -> Signed]
      BY <1>1 DEF Keeps, Sound
    <3>3. Compared(b, c) = [g EXCEPT ![c] = Shortened(num[c], m)]
      BY <1>3, <2>6, <3>2, ShortenTwo
    <3>. HIDE DEF m, n
    <3>4. g[c] = num[c]
      BY <2>6, <3>1
    <3>. HIDE DEF g
    <3>5. Keeps(r) /\ r[c] = Shortened(g[c], m) /\ \A x \in Reg \ {c} : r[x] = g[x]
      BY <2>1, <3>1, ShortenOne
    <3>6. Compared(b, c) = r
      BY <3>3, <3>4
    <3>. HIDE DEF r
    <3>7. /\ Shortened(num[b], n).sign = num[b].sign
          /\ Shortened(num[b], n).limbs = TrimTo(num[b].limbs, n)
      BY <2>1, ShortenedIs
    <3>8. /\ Shortened(num[c], m).sign = num[c].sign
          /\ Shortened(num[c], m).limbs = TrimTo(num[c].limbs, m)
      BY <2>1, ShortenedIs
    <3>. QED
      BY <2>1, <2>6, <3>1, <3>4, <3>5, <3>6, <3>7, <3>8 DEF m, n
  <2>7. CASE b = c
    <3>1. m = n /\ TrimTo(num[b].limbs, n) = num[b].limbs
      BY <2>1, <2>7, Trim
    <3>2. num \in [Reg -> Signed]
      BY <1>1 DEF Keeps, Sound
    <3>3. Compared(b, c) = [num EXCEPT ![b].limbs = num[b].limbs, ![b].limbs = num[b].limbs]
      BY <2>2, <2>7, <3>1
    <3>4. Compared(b, c) = num
      BY <3>2, <3>3 DEF Signed
    <3>. QED
      BY <1>1, <2>1, <2>7, <3>1, <3>4
  <2>. QED
    BY <2>6, <2>7
<1>. QED
  BY <1>2, <1>3

(* The limbs that a comparison leaves stand for the same magnitudes and    *)
(* are trimmed to each other.                                              *)
LEMMA ComparedPair ==
  ASSUME TypeOK, NEW b \in Reg, NEW c \in Reg, ~ IsZero(b), ~ IsZero(c),
         NEW s, s = Compared(b, c)[b].limbs, NEW t, t = Compared(b, c)[c].limbs
  PROVE  /\ s \in Seq(Limb) /\ t \in Seq(Limb) /\ Level(s, t)
         /\ Magnitude(s) = Size(b) /\ Magnitude(t) = Size(c)
         /\ s = Compared(c, b)[b].limbs /\ t = Compared(c, b)[c].limbs
<1>1. /\ Limbs(b) \in Seq(Limb) /\ Limbs(c) \in Seq(Limb)
      /\ Used(b) = Len(Limbs(b)) /\ Used(c) = Len(Limbs(c)) /\ Used(b) \in Nat /\ Used(c) \in Nat
      /\ Size(b) = Magnitude(Limbs(b)) /\ Size(c) = Magnitude(Limbs(c))
  BY Registers
<1>2. s = TrimTo(Limbs(b), Used(c)) /\ t = TrimTo(Limbs(c), Used(b))
  BY ComparedLimbs
<1>3. s = Compared(c, b)[b].limbs /\ t = Compared(c, b)[c].limbs
  BY <1>2, ComparedLimbs
<1>4. s \in Seq(Limb) /\ Magnitude(s) = Size(b)
  BY <1>1, <1>2, Trim
<1>5. t \in Seq(Limb) /\ Magnitude(t) = Size(c)
  BY <1>1, <1>2, Trim
<1>6. Level(s, t)
  BY <1>1, <1>2, Levelled
<1>. QED
  BY <1>3, <1>4, <1>5, <1>6

LEMMA MagnitudesCompared ==
  ASSUME TypeOK, NEW b \in Reg, NEW c \in Reg
  PROVE  zcmpmag(b, c) = Sign(Size(b) - Size(c))
<1>1. Size(b) \in Nat /\ Size(c) \in Nat /\ (IsZero(b) <=> Size(b) = 0) /\ (IsZero(c) <=> Size(c) = 0)
  BY Registers
<1>2. CASE IsZero(b) \/ IsZero(c)
  BY <1>1, <1>2 DEF zcmpmag, Sign
<1>3. CASE ~ IsZero(b) /\ ~ IsZero(c)
  <2>. DEFINE s == Compared(b, c)[b].limbs
              t == Compared(b, c)[c].limbs
  <2>1. /\ s \in Seq(Limb) /\ t \in Seq(Limb) /\ Level(s, t)
        /\ Magnitude(s) = Size(b) /\ Magnitude(t) = Size(c)
    BY <1>3, ComparedPair
  <2>2. zcmpmag(b, c) = CmpLimbs(s, t)
    BY <1>3 DEF zcmpmag
  <2>. HIDE DEF s, t
  <2>. QED
    BY <2>1, <2>2, CmpLimbsIs
<1>. QED
  BY <1>2, <1>3

LEMMA NumbersCompared ==
  ASSUME TypeOK, NEW b \in Reg, NEW c \in Reg
  PROVE  zcmp(b, c) = Sign(Value(num[b]) - Value(num[c]))
<1>. DEFINE p == num[b].sign
            q == num[c].sign
            m == Size(b)
            n == Size(c)
            v == Value(num[b])
            w == Value(num[c])
<1>1. /\ m \in Nat /\ p \in {-1, 0, 1} /\ (p = 0 <=> m = 0) /\ v \in Int
      /\ (p = 0 => v = 0) /\ (p = 1 => v = m) /\ (p = -1 => v = - m)
  BY Registers
<1>2. /\ n \in Nat /\ q \in {-1, 0, 1} /\ (q = 0 <=> n = 0) /\ w \in Int
      /\ (q = 0 => w = 0) /\ (q = 1 => w = n) /\ (q = -1 => w = - n)
  BY Registers
<1>3. zcmp(b, c) = IF p # q THEN IF p < q THEN -1 ELSE 1 ELSE p * Sign(m - n)
  BY MagnitudesCompared DEF zcmp
<1>. HIDE DEF p, q, m, n, v, w
<1>4. CASE p # q
  <2>1. zcmp(b, c) = IF p < q THEN -1 ELSE 1
    BY <1>3, <1>4
  <2>2. IF p < q THEN v < w ELSE v > w
    BY <1>1, <1>2, <1>4
  <2>3. Sign(v - w) = IF p < q THEN -1 ELSE 1
    BY <1>1, <1>2, <2>2 DEF Sign
  <2>. QED
    BY <2>1, <2>3 DEF v, w
<1>5. CASE p = q
  <2>1. zcmp(b, c) = p * Sign(m - n)
    BY <1>3, <1>5
  <2>2. CASE p = 0
    <3>1. v - w = 0 /\ Sign(m - n) \in {-1, 0, 1}
      BY <1>1, <1>2, <1>5, <2>2 DEF Sign
    <3>2. p * Sign(m - n) = 0
      BY <2>2, <3>1
    <3>3. Sign(v - w) = 0
      BY <3>1 DEF Sign
    <3>. QED
      BY <2>1, <3>2, <3>3 DEF v, w
  <2>3. CASE p = 1
    <3>1. v - w = m - n
      BY <1>1, <1>2, <1>5, <2>3
    <3>2. Sign(m - n) \in {-1, 0, 1}
      BY DEF Sign
    <3>3. p * Sign(m - n) = Sign(m - n)
      BY <2>3, <3>2
    <3>. QED
      BY <2>1, <3>1, <3>3 DEF v, w
  <2>4. CASE p = -1
    <3>1. v - w = n - m
      BY <1>1, <1>2, <1>5, <2>4
    <3>2. p * Sign(m - n) = Sign(n - m)
      BY <1>1, <1>2, <2>4 DEF Sign
    <3>. QED
      BY <2>1, <3>1, <3>2 DEF v, w
  <2>. QED
    BY <1>1, <2>2, <2>3, <2>4
<1>. QED
  BY <1>4, <1>5

LEMMA ComparisonsRight == TypeOK => ComparisonRight
<1>. SUFFICES ASSUME TypeOK, NEW b \in Kept, NEW c \in Kept
              PROVE  /\ zcmp(b, c) = Sign(Value(num[b]) - Value(num[c]))
                     /\ zcmpmag(b, c) = Sign(Size(b) - Size(c))
                     /\ \A x \in Reg : Value(Compared(b, c)[x]) = Value(num[x])
  BY DEF ComparisonRight
<1>1. b \in Reg /\ c \in Reg
  BY RegAssumption
<1>2. Keeps(Compared(b, c))
  BY <1>1, ComparedLimbs
<1>. QED
  BY <1>1, <1>2, NumbersCompared, MagnitudesCompared DEF Keeps

-----------------------------------------------------------------------------
(* Sums.                                                                   *)

(* Whatever S yields is sound, and stores v in a unless P.                 *)
Gives(S, a, v, P) == \A r \in S : Sound(r) /\ (P \/ Stores(r, a, v))

LEMMA AssignGives ==
  ASSUME TypeOK, NEW a \in Reg, NEW n, IsNumber(n)
  PROVE  Gives(Assign(a, n), a, Value(n), FALSE)
BY Assigned DEF Gives

LEMMA Ordered ==
  ASSUME NEW s \in Seq(Limb), NEW t \in Seq(Limb)
  PROVE  /\ Longer(s, t) \in Seq(Limb) /\ Shorter(s, t) \in Seq(Limb)
         /\ Len(Longer(s, t)) \in Nat /\ Len(Shorter(s, t)) \in Nat
         /\ Len(Shorter(s, t)) <= Len(Longer(s, t))
         /\ Magnitude(Longer(s, t)) + Magnitude(Shorter(s, t)) = Magnitude(s) + Magnitude(t)
<1>1. Len(s) \in Nat /\ Len(t) \in Nat /\ Magnitude(s) \in Nat /\ Magnitude(t) \in Nat
  BY MagnitudeNat
<1>2. CASE Len(s) > Len(t)
  BY <1>1, <1>2 DEF Longer, Shorter
<1>3. CASE ~ (Len(s) > Len(t))
  BY <1>1, <1>3 DEF Longer, Shorter
<1>. QED
  BY <1>2, <1>3

(* The sum of two numbers that are not zero.                               *)
LEMMA SumIs ==
  ASSUME NEW s \in Seq(Limb), NEW t \in Seq(Limb), Magnitude(s) # 0,
         NEW top \in Seq(Limb), Magnitude(top) # 0,
         NEW c, c = Carries(Longer(s, t), Shorter(s, t))[Len(Longer(s, t))],
         NEW u, u = AddLimbs(Longer(s, t), Shorter(s, t), top)
  PROVE  /\ IsNumber(Number(1, u))
         /\ c # 1 \/ Magnitude(top) = 1 => Value(Number(1, u)) = Magnitude(s) + Magnitude(t)
<1>. DEFINE p == Longer(s, t)
            q == Shorter(s, t)
<1>1. /\ p \in Seq(Limb) /\ q \in Seq(Limb) /\ Len(q) <= Len(p)
      /\ Magnitude(p) + Magnitude(q) = Magnitude(s) + Magnitude(t)
  BY Ordered
<1>2. c = Carries(p, q)[Len(p)] /\ u = AddLimbs(p, q, top)
  OBVIOUS
<1>. HIDE DEF p, q
<1>3. /\ u \in Seq(Limb) /\ c \in {0, 1}
      /\ c = 0 \/ Magnitude(top) = 1 => Magnitude(u) = Magnitude(p) + Magnitude(q)
      /\ c = 1 => Magnitude(u) # 0
  BY <1>1, <1>2, AddLimbsIs
<1>4. Magnitude(s) \in Nat /\ Magnitude(t) \in Nat /\ Magnitude(u) \in Nat
  BY <1>3, MagnitudeNat
<1>5. c # 1 \/ Magnitude(top) = 1 => Magnitude(u) = Magnitude(s) + Magnitude(t)
  BY <1>1, <1>3
<1>6. Magnitude(u) # 0
  BY <1>3, <1>4, <1>5
<1>7. IsNumber(Number(1, u)) /\ Value(Number(1, u)) = 1 * Magnitude(u)
  BY <1>3, <1>6, NumberIs
<1>. QED
  BY <1>4, <1>5, <1>7

LEMMA UnsignedSums ==
  ASSUME TypeOK, NEW a \in Reg, NEW b \in Reg, NEW c \in Reg
  PROVE  Gives(zadd_unsigned(a, b, c), a, Size(b) + Size(c), CarryIntoCopy(a, b, c))
<1>1. /\ IsNumber(num[b]) /\ Limbs(b) \in Seq(Limb) /\ Size(b) = Magnitude(Limbs(b))
      /\ Size(b) \in Nat /\ (IsZero(b) <=> Size(b) = 0) /\ Limbs(b) = num[b].limbs
  BY Registers
<1>2. /\ IsNumber(num[c]) /\ Limbs(c) \in Seq(Limb) /\ Size(c) = Magnitude(Limbs(c))
      /\ Size(c) \in Nat /\ (IsZero(c) <=> Size(c) = 0) /\ Limbs(c) = num[c].limbs
  BY Registers
<1>3. CASE IsZero(b)
  <2>1. IsNumber(Abs(num[c])) /\ Value(Abs(num[c])) = Size(b) + Size(c)
    BY <1>1, <1>2, <1>3, AbsIs
  <2>2. zadd_unsigned(a, b, c) = Assign(a, Abs(num[c]))
    BY <1>3 DEF zadd_unsigned
  <2>. QED
    BY <2>1, <2>2, AssignGives DEF Gives
<1>4. CASE ~ IsZero(b) /\ IsZero(c)
  <2>1. IsNumber(Abs(num[b])) /\ Value(Abs(num[b])) = Size(b) + Size(c)
    BY <1>1, <1>2, <1>4, AbsIs
  <2>2. zadd_unsigned(a, b, c) = Assign(a, Abs(num[b]))
    BY <1>4 DEF zadd_unsigned
  <2>. QED
    BY <2>1, <2>2, AssignGives DEF Gives
<1>5. CASE ~ IsZero(b) /\ ~ IsZero(c)
  <2>. SUFFICES ASSUME NEW r \in zadd_unsigned(a, b, c)
                PROVE  Sound(r) /\ (CarryIntoCopy(a, b, c) \/ Stores(r, a, Size(b) + Size(c)))
    BY DEF Gives
  <2>. DEFINE u(top) == AddLimbs(Longer(Limbs(b), Limbs(c)), Shorter(Limbs(b), Limbs(c)), top)
              p == Longer(Limbs(b), Limbs(c))
              k == Carries(p, Shorter(Limbs(b), Limbs(c)))[Len(p)]
  <2>1. PICK top \in Tops(a, b, c) : r = [num EXCEPT ![a] = Number(1, u(top))]
    BY <1>5 DEF zadd_unsigned
  <2>2. top \in Seq(Limb) /\ Magnitude(top) # 0
    BY TopsAre
  <2>3. /\ IsNumber(Number(1, u(top)))
        /\ k # 1 \/ Magnitude(top) = 1 => Value(Number(1, u(top))) = Size(b) + Size(c)
    BY <1>1, <1>2, <1>5, <2>2, SumIs
  <2>4. ~ CarryIntoCopy(a, b, c) => k # 1 \/ Tops(a, b, c) = {<<1>>}
    BY <1>5 DEF CarryIntoCopy
  <2>5. Tops(a, b, c) = {<<1>>} => Magnitude(top) = 1
    <3>1. 1 \in Limb
      BY LimbInt, BelowBase
    <3>. QED
      BY <3>1, OneLimb
  <2>. HIDE DEF u, k
  <2>6. Keeps(num)
    BY TypesKeep
  <2>7. Sound(r) /\ Stores(r, a, Value(Number(1, u(top))))
    BY <2>1, <2>3, <2>6, Put
  <2>. QED
    BY <2>3, <2>4, <2>5, <2>7
<1>. QED
  BY <1>3, <1>4, <1>5

LEMMA SumsInPlace ==
  ASSUME TypeOK, NEW a \in Reg, NEW b \in Reg
  PROVE  Gives(zadd_unsigned_assign(a, b), a, Size(a) + Size(b), IsZero(b) /\ num[a].sign = -1)
<1>1. /\ IsNumber(num[b]) /\ Limbs(b) \in Seq(Limb) /\ Size(b) = Magnitude(Limbs(b))
      /\ Size(b) \in Nat /\ (IsZero(b) <=> Size(b) = 0) /\ Limbs(b) = num[b].limbs
  BY Registers
<1>2. /\ IsNumber(num[a]) /\ Limbs(a) \in Seq(Limb) /\ Size(a) = Magnitude(Limbs(a))
      /\ Size(a) \in Nat /\ (IsZero(a) <=> Size(a) = 0) /\ Limbs(a) = num[a].limbs
      /\ num[a].sign \in {-1, 0, 1} /\ (num[a].sign = 1 => Value(num[a]) = Size(a))
      /\ (IsZero(a) <=> num[a].sign = 0)
  BY Registers
<1>3. CASE IsZero(a)
  <2>1. IsNumber(Abs(num[b])) /\ Value(Abs(num[b])) = Size(a) + Size(b)
    BY <1>1, <1>2, <1>3, AbsIs
  <2>2. zadd_unsigned_assign(a, b) = Assign(a, Abs(num[b]))
    BY <1>3 DEF zadd_unsigned_assign
  <2>. QED
    BY <2>1, <2>2, AssignGives DEF Gives
<1>4. CASE ~ IsZero(a) /\ IsZero(b)
  <2>1. zadd_unsigned_assign(a, b) = {num}
    BY <1>4 DEF zadd_unsigned_assign
  <2>2. num[a].sign # -1 => Value(num[a]) = Size(a) + Size(b)
    BY <1>1, <1>2, <1>4
  <2>3. Sound(num)
    BY TypesAreSound
  <2>. QED
    BY <1>4, <2>1, <2>2, <2>3 DEF Gives, Stores
<1>5. CASE ~ IsZero(a) /\ ~ IsZero(b)
  <2>. DEFINE one == <<1>>
              u == AddLimbs(Longer(Limbs(a), Limbs(b)), Shorter(Limbs(a), Limbs(b)), one)
  <2>1. one \in Seq(Limb) /\ Magnitude(one) = 1
    <3>1. 1 \in Limb
      BY LimbInt, BelowBase
    <3>. QED
      BY <3>1, OneLimb
  <2>3. zadd_unsigned_assign(a, b) = Assign(a, Number(1, u))
    BY <1>5 DEF zadd_unsigned_assign
  <2>. DEFINE p == Longer(Limbs(a), Limbs(b))
              k == Carries(p, Shorter(Limbs(a), Limbs(b)))[Len(p)]
  <2>. HIDE DEF one
  <2>4. /\ IsNumber(Number(1, u))
        /\ k # 1 \/ Magnitude(one) = 1 => Value(Number(1, u)) = Size(a) + Size(b)
    <3>. DEFINE s == Limbs(a)
                q == Limbs(b)
    <3>1. /\ s \in Seq(Limb) /\ q \in Seq(Limb) /\ Magnitude(s) # 0 /\ one \in Seq(Limb)
          /\ Magnitude(one) # 0 /\ Size(a) = Magnitude(s) /\ Size(b) = Magnitude(q)
      BY <1>1, <1>2, <1>5, <2>1
    <3>2. /\ u = AddLimbs(Longer(s, q), Shorter(s, q), one)
          /\ k = Carries(Longer(s, q), Shorter(s, q))[Len(Longer(s, q))]
      OBVIOUS
    <3>. HIDE DEF s, q, u, k, p
    <3>. QED
      BY <3>1, <3>2, SumIs
  <2>. HIDE DEF k, u
  <2>2. IsNumber(Number(1, u)) /\ Value(Number(1, u)) = Size(a) + Size(b)
    BY <2>1, <2>4
  <2>. QED
    BY <2>2, <2>3, AssignGives DEF Gives
<1>. QED
  BY <1>3, <1>4, <1>5

-----------------------------------------------------------------------------
(* Differences.                                                            *)

LEMMA LongEnough ==
  ASSUME NEW s \in Seq(Limb), NEW t \in Seq(Limb), Level(s, t), Magnitude(s) > Magnitude(t)
  PROVE  Len(t) <= Len(s)
<1>1. Magnitude(s) \in Nat /\ Magnitude(t) \in Nat /\ Len(s) \in Nat /\ Len(t) \in Nat
  BY MagnitudeNat
<1>2. Len(t) > Len(s) => t[Len(t)] # 0
  BY DEF Level
<1>3. Len(t) > Len(s) => Magnitude(t) > Magnitude(s)
  BY <1>2, LongerIsLarger
<1>. QED
  BY <1>1, <1>3

(* The limbs of a difference of sizes, the larger one from the limbs s.    *)
LEMMA DifferenceIs ==
  ASSUME NEW s \in Seq(Limb), NEW t \in Seq(Limb), Level(s, t), Magnitude(s) > Magnitude(t),
         NEW sg \in {-1, 1}
  PROVE  /\ IsNumber(Number(sg, SubLimbs(s, t)))
         /\ ~ Inner(s, t) => Value(Number(sg, SubLimbs(s, t))) = sg * (Magnitude(s) - Magnitude(t))
<1>. DEFINE u == SubLimbs(s, t)
<1>1. Len(t) <= Len(s)
  BY LongEnough
<1>2. /\ u \in Seq(Limb) /\ Magnitude(u) # 0
      /\ ~ Inner(s, t) => Magnitude(u) = Magnitude(s) - Magnitude(t)
  BY <1>1, SubLimbsIs
<1>. HIDE DEF u
<1>3. IsNumber(Number(sg, u)) /\ Value(Number(sg, u)) = sg * Magnitude(u)
  BY <1>2, NumberIs
<1>4. IsNumber(Number(sg, u)) /\ (~ Inner(s, t) => Value(Number(sg, u)) = sg * (Magnitude(s) - Magnitude(t)))
  BY <1>2, <1>3
<1>. QED
  BY <1>4 DEF u

LEMMA LevelBoth ==
  ASSUME NEW s, NEW t, Level(s, t)
  PROVE  Level(t, s)
BY DEF Level

LEMMA LoanFrom ==
  ASSUME TypeOK, NEW b \in Reg, NEW c \in Reg, ~ IsZero(b), ~ IsZero(c), Size(b) > Size(c)
  PROVE  /\ InnerLoan(b, c) <=> Inner(Compared(b, c)[b].limbs, Compared(b, c)[c].limbs)
         /\ InnerLoan(c, b) <=> InnerLoan(b, c)
<1>1. Size(b) \in Nat /\ Size(c) \in Nat
  BY Registers
<1>. DEFINE s == Compared(b, c)[b].limbs
            t == Compared(b, c)[c].limbs
<1>2. s = Compared(c, b)[b].limbs /\ t = Compared(c, b)[c].limbs
  BY ComparedPair
<1>3. InnerLoan(b, c) <=> Inner(s, t)
  BY <1>1 DEF InnerLoan, Inner
<1>4. InnerLoan(c, b) <=> Inner(s, t)
  BY <1>1, <1>2 DEF InnerLoan, Inner
<1>. QED
  BY <1>3, <1>4

LEMMA UnsignedDifferences ==
  ASSUME TypeOK, NEW a \in Reg, NEW b \in Reg, NEW c \in Reg
  PROVE  Gives(zsub_unsigned(a, b, c), a, Size(b) - Size(c), InnerLoan(b, c))
<1>1. /\ IsNumber(num[b]) /\ Size(b) = Magnitude(num[b].limbs)
      /\ Size(b) \in Nat /\ (IsZero(b) <=> Size(b) = 0) /\ Limbs(b) = num[b].limbs
  BY Registers
<1>2. /\ IsNumber(num[c]) /\ Size(c) = Magnitude(num[c].limbs)
      /\ Size(c) \in Nat /\ (IsZero(c) <=> Size(c) = 0) /\ Limbs(c) = num[c].limbs
  BY Registers
<1>3. CASE IsZero(b)
  <2>. DEFINE n == Neg(Abs(num[c]))
  <2>1. IsNumber(Abs(num[c])) /\ Value(Abs(num[c])) = Size(c)
    BY <1>2, AbsIs
  <2>2. IsNumber(n) /\ Value(n) = - Size(c)
    BY <2>1, NegIs
  <2>3. - Size(c) = Size(b) - Size(c)
    BY <1>1, <1>2, <1>3
  <2>4. zsub_unsigned(a, b, c) = Assign(a, n)
    BY <1>3 DEF zsub_unsigned
  <2>. HIDE DEF n
  <2>5. Gives(Assign(a, n), a, Value(n), FALSE)
    BY <2>2, AssignGives
  <2>. QED
    BY <2>2, <2>3, <2>4, <2>5 DEF Gives
<1>4. CASE ~ IsZero(b) /\ IsZero(c)
  <2>1. IsNumber(Abs(num[b])) /\ Value(Abs(num[b])) = Size(b) - Size(c)
    BY <1>1, <1>2, <1>4, AbsIs
  <2>2. zsub_unsigned(a, b, c) = Assign(a, Abs(num[b]))
    BY <1>4 DEF zsub_unsigned
  <2>. QED
    BY <2>1, <2>2, AssignGives DEF Gives
<1>5. CASE ~ IsZero(b) /\ ~ IsZero(c)
  <2>. DEFINE g == Compared(b, c)
              s == g[b].limbs
              t == g[c].limbs
              d == Size(b) - Size(c)
              n == CASE zcmpmag(b, c) = 0  -> Zero
                     [] zcmpmag(b, c) = 1  -> Number(1, SubLimbs(s, t))
                     [] zcmpmag(b, c) = -1 -> Number(-1, SubLimbs(t, s))
  <2>1. zsub_unsigned(a, b, c) = { [g EXCEPT ![a] = n] }
    BY <1>5 DEF zsub_unsigned
  <2>2. Keeps(g)
    BY ComparedLimbs
  <2>3. /\ s \in Seq(Limb) /\ t \in Seq(Limb) /\ Level(s, t)
        /\ Magnitude(s) = Size(b) /\ Magnitude(t) = Size(c)
    BY <1>5, ComparedPair
  <2>4. zcmpmag(b, c) = Sign(Size(b) - Size(c))
    BY MagnitudesCompared
  <2>5. ASSUME d = 0 PROVE IsNumber(n) /\ (InnerLoan(b, c) \/ Value(n) = d)
    <3>1. zcmpmag(b, c) = 0
      BY <2>4, <2>5 DEF Sign
    <3>2. n = Zero
      BY <3>1
    <3>. QED
      BY <2>5, <3>2, ZeroIs
  <2>6. ASSUME d > 0 PROVE IsNumber(n) /\ (InnerLoan(b, c) \/ Value(n) = d)
    <3>1. zcmpmag(b, c) = 1 /\ Magnitude(s) > Magnitude(t) /\ Size(b) > Size(c)
      BY <1>1, <1>2, <2>3, <2>4, <2>6 DEF Sign
    <3>2. n = Number(1, SubLimbs(s, t))
      BY <3>1
    <3>3. InnerLoan(b, c) <=> Inner(s, t)
      BY <1>5, <3>1, LoanFrom
    <3>. HIDE DEF n, s, t
    <3>4. IsNumber(n) /\ (~ Inner(s, t) => Value(n) = 1 * (Magnitude(s) - Magnitude(t)))
      BY <2>3, <3>1, <3>2, DifferenceIs
    <3>5. 1 * (Size(b) - Size(c)) = d
      BY <1>1, <1>2
    <3>. QED
      BY <2>3, <3>3, <3>4, <3>5
  <2>7. ASSUME d < 0 PROVE IsNumber(n) /\ (InnerLoan(b, c) \/ Value(n) = d)
    <3>1. zcmpmag(b, c) = -1 /\ Magnitude(t) > Magnitude(s) /\ Size(c) > Size(b)
      BY <1>1, <1>2, <2>3, <2>4, <2>7 DEF Sign
    <3>2. n = Number(-1, SubLimbs(t, s))
      BY <3>1
    <3>3. s = Compared(c, b)[b].limbs /\ t = Compared(c, b)[c].limbs
      BY <1>5, ComparedPair
    <3>4. InnerLoan(b, c) <=> Inner(t, s)
      BY <1>5, <3>1, <3>3, LoanFrom
    <3>. HIDE DEF n, s, t
    <3>. DEFINE sg == -1
    <3>0. sg \in {-1, 1} /\ n = Number(sg, SubLimbs(t, s)) /\ Level(t, s)
      BY <2>3, <3>2, LevelBoth
    <3>. HIDE DEF sg
    <3>5. IsNumber(n) /\ (~ Inner(t, s) => Value(n) = sg * (Magnitude(t) - Magnitude(s)))
      BY <2>3, <3>0, <3>1, DifferenceIs
    <3>6. sg * (Magnitude(t) - Magnitude(s)) = d
      BY <1>1, <1>2, <2>3 DEF sg
    <3>. QED
      BY <2>3, <3>4, <3>5, <3>6
  <2>. HIDE DEF g, s, t, n
  <2>8. d \in Int
    BY <1>1, <1>2
  <2>9. IsNumber(n) /\ (InnerLoan(b, c) \/ Value(n) = d)
    <3>. HIDE DEF d
    <3>. QED
      BY <2>5, <2>6, <2>7, <2>8, ZeroIs
  <2>10. LET r == [g EXCEPT ![a] = n] IN Sound(r) /\ Stores(r, a, Value(n))
    BY <2>2, <2>9, Put
  <2>. QED
    BY <2>1, <2>9, <2>10 DEF Gives
<1>. QED
  BY <1>3, <1>4, <1>5

LEMMA LoanBothWays ==
  ASSUME TypeOK, NEW b \in Reg, NEW c \in Reg
  PROVE  InnerLoan(c, b) => InnerLoan(b, c)
<1>1. Size(b) \in Nat /\ Size(c) \in Nat
  BY Registers
<1>2. CASE IsZero(b) \/ IsZero(c) \/ Size(b) = Size(c)
  BY <1>2 DEF InnerLoan
<1>3. CASE ~ IsZero(b) /\ ~ IsZero(c) /\ Size(b) > Size(c)
  BY <1>3, LoanFrom
<1>4. CASE ~ IsZero(b) /\ ~ IsZero(c) /\ Size(c) > Size(b)
  BY <1>4, LoanFrom
<1>. QED
  BY <1>1, <1>2, <1>3, <1>4

(* In place, of a number that is at least as large.                        *)
LEMMA DifferenceInPlace ==
  ASSUME TypeOK, NEW a \in Reg, NEW b \in Reg, AtMost(b, a)
  PROVE  Gives(zsub_nonnegative_assign(a, b), a, Value(num[a]) - Value(num[b]), InnerLoan(a, b))
<1>1. /\ IsNumber(num[b]) /\ Size(b) \in Nat /\ (IsZero(b) <=> Size(b) = 0)
      /\ num[b].sign \in {-1, 0, 1} /\ (IsZero(b) <=> num[b].sign = 0)
      /\ (num[b].sign = 0 => Value(num[b]) = 0) /\ (num[b].sign = 1 => Value(num[b]) = Size(b))
  BY Registers
<1>2. /\ IsNumber(num[a]) /\ Size(a) \in Nat /\ (IsZero(a) <=> Size(a) = 0)
      /\ num[a].sign \in {-1, 0, 1} /\ (IsZero(a) <=> num[a].sign = 0)
      /\ (num[a].sign = 0 => Value(num[a]) = 0) /\ (num[a].sign = 1 => Value(num[a]) = Size(a))
      /\ (num[a].sign = -1 => Value(num[a]) = - Size(a)) /\ Size(a) = Magnitude(num[a].limbs)
      /\ Value(num[a]) \in Int
  BY Registers
<1>3. zcmp(a, b) = Sign(Value(num[a]) - Value(num[b]))
  BY NumbersCompared
<1>4. /\ num[b].sign \in {0, 1} /\ Value(num[b]) = Size(b) /\ Value(num[a]) >= Size(b)
      /\ num[a].sign \in {0, 1} /\ Value(num[a]) = Size(a) /\ Size(a) >= Size(b)
  <2>1. num[b].sign \in {0, 1} /\ Value(num[b]) = Size(b)
    BY <1>1 DEF AtMost
  <2>2. Value(num[a]) >= Value(num[b])
    BY <1>1, <1>2, <1>3, <2>1 DEF AtMost, Sign
  <2>. QED
    BY <1>1, <1>2, <2>1, <2>2
<1>5. CASE IsZero(b)
  <2>1. IsNumber(Abs(num[a])) /\ Value(Abs(num[a])) = Value(num[a]) - Value(num[b])
    BY <1>1, <1>2, <1>4, <1>5, AbsIs
  <2>2. zsub_nonnegative_assign(a, b) = Assign(a, Abs(num[a]))
    BY <1>5 DEF zsub_nonnegative_assign
  <2>. QED
    BY <2>1, <2>2, AssignGives DEF Gives
<1>. DEFINE g == Compared(a, b)
            s == g[a].limbs
            t == g[b].limbs
<1>6. Keeps(g) /\ zcmpmag(a, b) = Sign(Size(a) - Size(b))
  BY ComparedLimbs, MagnitudesCompared
<1>7. CASE ~ IsZero(b) /\ Size(a) = Size(b)
  <2>1. zcmpmag(a, b) = 0 /\ Value(num[a]) - Value(num[b]) = 0
    BY <1>1, <1>2, <1>4, <1>6, <1>7 DEF Sign
  <2>2. zsub_nonnegative_assign(a, b) = { [g EXCEPT ![a] = Zero] }
    BY <1>7, <2>1 DEF zsub_nonnegative_assign
  <2>. HIDE DEF g
  <2>3. LET r == [g EXCEPT ![a] = Zero] IN Sound(r) /\ Stores(r, a, 0)
    BY <1>6, ZeroIs, Put
  <2>. QED
    BY <2>1, <2>2, <2>3 DEF Gives
<1>8. CASE ~ IsZero(b) /\ Size(a) > Size(b)
  <2>1. ~ IsZero(a) /\ zcmpmag(a, b) # 0 /\ num[a].sign = 1
    BY <1>1, <1>2, <1>4, <1>6, <1>8 DEF Sign
  <2>2. /\ s \in Seq(Limb) /\ t \in Seq(Limb) /\ Level(s, t)
        /\ Magnitude(s) = Size(a) /\ Magnitude(t) = Size(b)
    BY <1>8, <2>1, ComparedPair
  <2>3. InnerLoan(a, b) <=> Inner(s, t)
    BY <1>8, <2>1, LoanFrom
  <2>4. g[a].sign = 1 /\ g[a] \in Signed
    BY <1>6, <1>8, <2>1, ComparedLimbs DEF Keeps, Sound
  <2>5. g[a] = Number(1, s)
    BY <2>4 DEF Number, Signed
  <2>6. zsub_nonnegative_assign(a, b) = { [g EXCEPT ![a].limbs = SubLimbs(@, t)] }
    BY <1>8, <2>1 DEF zsub_nonnegative_assign
  <2>7. [g EXCEPT ![a].limbs = SubLimbs(@, t)] = [g EXCEPT ![a] = [g[a] EXCEPT !.limbs = SubLimbs(s, t)]]
    OBVIOUS
  <2>8. [g[a] EXCEPT !.limbs = SubLimbs(s, t)] = Number(1, SubLimbs(s, t))
    BY <2>4 DEF Signed, Number
  <2>9. zsub_nonnegative_assign(a, b) = { [g EXCEPT ![a] = Number(1, SubLimbs(s, t))] }
    BY <2>6, <2>7, <2>8
  <2>. DEFINE n == Number(1, SubLimbs(s, t))
  <2>. HIDE DEF s, t
  <2>10. IsNumber(n) /\ (~ Inner(s, t) => Value(n) = 1 * (Magnitude(s) - Magnitude(t)))
    BY <1>8, <2>2, DifferenceIs
  <2>11. 1 * (Magnitude(s) - Magnitude(t)) = Value(num[a]) - Value(num[b])
    BY <1>1, <1>2, <1>4, <2>2
  <2>. HIDE DEF g, n
  <2>12. LET r == [g EXCEPT ![a] = n] IN Sound(r) /\ Stores(r, a, Value(n))
    BY <1>6, <2>10, Put
  <2>. QED
    BY <2>3, <2>9, <2>10, <2>11, <2>12 DEF Gives, n
<1>. QED
  BY <1>1, <1>2, <1>4, <1>5, <1>7, <1>8

(* The same where the limbs are not trimmed, for they are already.         *)
LEMMA DifferenceOfCompared ==
  ASSUME TypeOK, NEW a \in Reg, NEW b \in Reg, LessThan(b, a)
  PROVE  Gives(zsub_positive_assign(a, b), a, Value(num[a]) - Value(num[b]), InnerLoan(a, b))
<1>1. /\ IsNumber(num[b]) /\ Size(b) \in Nat /\ (IsZero(b) <=> Size(b) = 0)
      /\ num[b].sign = 1 /\ (IsZero(b) <=> num[b].sign = 0) /\ Used(b) = Len(Limbs(b))
      /\ Value(num[b]) = Size(b) /\ Limbs(b) = num[b].limbs
  BY Registers DEF LessThan
<1>2. /\ IsNumber(num[a]) /\ Size(a) \in Nat /\ (IsZero(a) <=> Size(a) = 0)
      /\ num[a].sign \in {-1, 0, 1} /\ (IsZero(a) <=> num[a].sign = 0)
      /\ (num[a].sign = 0 => Value(num[a]) = 0) /\ (num[a].sign = 1 => Value(num[a]) = Size(a))
      /\ (num[a].sign = -1 => Value(num[a]) = - Size(a)) /\ Limbs(a) = num[a].limbs
      /\ Value(num[a]) \in Int /\ Used(a) = Len(Limbs(a))
  BY Registers
<1>3. zcmp(a, b) = Sign(Value(num[a]) - Value(num[b])) /\ zcmp(a, b) = 1 /\ Compared(a, b) = num
  BY NumbersCompared DEF LessThan
<1>4. Value(num[a]) > Size(b)
  BY <1>1, <1>2, <1>3 DEF Sign
<1>5. ~ IsZero(a) /\ ~ IsZero(b) /\ num[a].sign = 1 /\ Value(num[a]) = Size(a) /\ Size(a) > Size(b)
  BY <1>1, <1>2, <1>4
<1>. DEFINE s == Limbs(a)
            t == Limbs(b)
<1>6. s = Compared(a, b)[a].limbs /\ t = Compared(a, b)[b].limbs
  BY <1>1, <1>2, <1>3
<1>7. /\ s \in Seq(Limb) /\ t \in Seq(Limb) /\ Level(s, t)
      /\ Magnitude(s) = Size(a) /\ Magnitude(t) = Size(b)
  BY <1>5, <1>6, ComparedPair
<1>8. InnerLoan(a, b) <=> Inner(s, t)
  BY <1>5, <1>6, LoanFrom
<1>9. TrimTo(Limbs(b), Used(a)) = t
  BY <1>5, <1>6, ComparedLimbs
<1>10. Keeps(num) /\ num \in [Reg -> Signed] /\ num[a] \in Signed
  BY TypesKeep DEF Keeps, Sound
<1>11. [num EXCEPT ![a].limbs = SubLimbs(@, t)] = [num EXCEPT ![a] = [num[a] EXCEPT !.limbs = SubLimbs(s, t)]]
  BY <1>2
<1>12. [num[a] EXCEPT !.limbs = SubLimbs(s, t)] = Number(1, SubLimbs(s, t))
  BY <1>5, <1>10 DEF Signed, Number
<1>13. zsub_positive_assign(a, b) = { [num EXCEPT ![a] = Number(1, SubLimbs(s, t))] }
  BY <1>9, <1>11, <1>12 DEF zsub_positive_assign
<1>. DEFINE n == Number(1, SubLimbs(s, t))
<1>. HIDE DEF s, t
<1>14. IsNumber(n) /\ (~ Inner(s, t) => Value(n) = 1 * (Magnitude(s) - Magnitude(t)))
  BY <1>5, <1>7, DifferenceIs
<1>15. 1 * (Magnitude(s) - Magnitude(t)) = Value(num[a]) - Value(num[b])
  BY <1>1, <1>2, <1>5, <1>7
<1>. HIDE DEF n
<1>16. LET r == [num EXCEPT ![a] = n] IN Sound(r) /\ Stores(r, a, Value(n))
  BY <1>10, <1>14, Put
<1>. QED
  BY <1>8, <1>13, <1>14, <1>15, <1>16 DEF Gives, n

-----------------------------------------------------------------------------
(* Sums and differences of signed numbers.                                 *)

LEMMA NegGives ==
  ASSUME NEW a \in Reg, NEW S, NEW v \in Int, NEW P, Gives(S, a, v, P)
  PROVE  Gives(NegAll(a, S), a, - v, P)
BY NegAllIs DEF Gives

LEMMA Weaker ==
  ASSUME NEW S, NEW a, NEW v, NEW w, v = w, NEW P, NEW Q, P => Q, Gives(S, a, v, P)
  PROVE  Gives(S, a, w, Q)
BY DEF Gives

LEMMA SignedNumber ==
  ASSUME TypeOK, NEW b \in Reg
  PROVE  /\ IsNumber(num[b]) /\ Size(b) \in Nat /\ Value(num[b]) \in Int
         /\ IsZero(b) => Value(num[b]) = 0
         /\ ~ IsZero(b) => num[b].sign \in {-1, 1}
         /\ num[b].sign = 1 => Value(num[b]) = Size(b)
         /\ num[b].sign = -1 => Value(num[b]) = - Size(b)
BY Registers

LEMMA SignedSums ==
  ASSUME TypeOK, NEW a \in Reg, NEW b \in Reg, NEW c \in Reg
  PROVE  Gives(zadd(a, b, c), a, Value(num[b]) + Value(num[c]),
               IF num[b].sign # num[c].sign THEN InnerLoan(b, c) ELSE CarryIntoCopy(a, b, c))
<1>. DEFINE p == num[b].sign
            q == num[c].sign
            v == Value(num[b])
            w == Value(num[c])
            P == IF p # q THEN InnerLoan(b, c) ELSE CarryIntoCopy(a, b, c)
<1>1. /\ IsNumber(num[b]) /\ Size(b) \in Nat /\ v \in Int /\ (IsZero(b) => v = 0)
      /\ (~ IsZero(b) => p \in {-1, 1}) /\ (p = 1 => v = Size(b)) /\ (p = -1 => v = - Size(b))
  BY SignedNumber
<1>2. /\ IsNumber(num[c]) /\ Size(c) \in Nat /\ w \in Int /\ (IsZero(c) => w = 0)
      /\ (~ IsZero(c) => q \in {-1, 1}) /\ (q = 1 => w = Size(c)) /\ (q = -1 => w = - Size(c))
  BY SignedNumber
<1>3. CASE IsZero(b)
  <2>1. zadd(a, b, c) = Assign(a, num[c]) /\ w = v + w
    BY <1>1, <1>2, <1>3 DEF zadd, IsZero
  <2>2. Gives(zadd(a, b, c), a, w, FALSE)
    BY <1>2, <2>1, AssignGives
  <2>. QED
    BY <2>1, <2>2 DEF Gives
<1>4. CASE ~ IsZero(b) /\ IsZero(c)
  <2>1. zadd(a, b, c) = Assign(a, num[b]) /\ v = v + w
    BY <1>1, <1>2, <1>4 DEF zadd, IsZero
  <2>2. Gives(zadd(a, b, c), a, v, FALSE)
    BY <1>1, <2>1, AssignGives
  <2>. QED
    BY <2>1, <2>2 DEF Gives
<1>5. CASE ~ IsZero(b) /\ ~ IsZero(c) /\ p = -1 /\ q = -1
  <2>1. zadd(a, b, c) = NegAll(a, zadd_unsigned(a, b, c))
    BY <1>5 DEF zadd
  <2>2. - (Size(b) + Size(c)) = v + w /\ Size(b) + Size(c) \in Int
    BY <1>1, <1>2, <1>5
  <2>3. Gives(zadd(a, b, c), a, - (Size(b) + Size(c)), CarryIntoCopy(a, b, c))
    BY <2>1, <2>2, UnsignedSums, NegGives
  <2>. QED
    BY <1>5, <2>2, <2>3, Weaker
<1>6. CASE ~ IsZero(b) /\ ~ IsZero(c) /\ p = -1 /\ q = 1
  <2>1. zadd(a, b, c) = zsub_unsigned(a, c, b)
    BY <1>6 DEF zadd
  <2>2. Size(c) - Size(b) = v + w
    BY <1>1, <1>2, <1>6
  <2>3. InnerLoan(c, b) => InnerLoan(b, c)
    BY LoanBothWays
  <2>. QED
    BY <1>6, <2>1, <2>2, <2>3, UnsignedDifferences, Weaker
<1>7. CASE ~ IsZero(b) /\ ~ IsZero(c) /\ p = 1 /\ q = -1
  <2>1. zadd(a, b, c) = zsub_unsigned(a, b, c)
    BY <1>7 DEF zadd
  <2>2. Size(b) - Size(c) = v + w
    BY <1>1, <1>2, <1>7
  <2>. QED
    BY <1>7, <2>1, <2>2, UnsignedDifferences, Weaker
<1>8. CASE ~ IsZero(b) /\ ~ IsZero(c) /\ p = 1 /\ q = 1
  <2>1. zadd(a, b, c) = zadd_unsigned(a, b, c)
    BY <1>8 DEF zadd
  <2>2. Size(b) + Size(c) = v + w
    BY <1>1, <1>2, <1>8
  <2>. QED
    BY <1>8, <2>1, <2>2, UnsignedSums, Weaker
<1>. QED
  BY <1>1, <1>2, <1>3, <1>4, <1>5, <1>6, <1>7, <1>8

LEMMA SignedDifferences ==
  ASSUME TypeOK, NEW a \in Reg, NEW b \in Reg, NEW c \in Reg
  PROVE  Gives(zsub(a, b, c), a, Value(num[b]) - Value(num[c]),
               IF num[b].sign # num[c].sign THEN CarryIntoCopy(a, b, c) ELSE InnerLoan(b, c))
<1>. DEFINE p == num[b].sign
            q == num[c].sign
            v == Value(num[b])
            w == Value(num[c])
<1>1. /\ IsNumber(num[b]) /\ Size(b) \in Nat /\ v \in Int /\ (IsZero(b) => v = 0)
      /\ (~ IsZero(b) => p \in {-1, 1}) /\ (p = 1 => v = Size(b)) /\ (p = -1 => v = - Size(b))
  BY SignedNumber
<1>2. /\ IsNumber(num[c]) /\ Size(c) \in Nat /\ w \in Int /\ (IsZero(c) => w = 0)
      /\ (~ IsZero(c) => q \in {-1, 1}) /\ (q = 1 => w = Size(c)) /\ (q = -1 => w = - Size(c))
  BY SignedNumber
<1>3. CASE IsZero(b)
  <2>1. zsub(a, b, c) = Assign(a, Neg(num[c])) /\ - w = v - w
    BY <1>1, <1>2, <1>3 DEF zsub, IsZero
  <2>2. IsNumber(Neg(num[c])) /\ Value(Neg(num[c])) = v - w
    BY <1>2, <2>1, NegIs
  <2>3. Gives(zsub(a, b, c), a, Value(Neg(num[c])), FALSE)
    BY <2>1, <2>2, AssignGives
  <2>. QED
    BY <2>2, <2>3 DEF Gives
<1>4. CASE ~ IsZero(b) /\ IsZero(c)
  <2>1. zsub(a, b, c) = Assign(a, num[b]) /\ v = v - w
    BY <1>1, <1>2, <1>4 DEF zsub, IsZero
  <2>2. Gives(zsub(a, b, c), a, v, FALSE)
    BY <1>1, <2>1, AssignGives
  <2>. QED
    BY <2>1, <2>2 DEF Gives
<1>5. CASE ~ IsZero(b) /\ ~ IsZero(c) /\ p = -1 /\ q = -1
  <2>1. zsub(a, b, c) = zsub_unsigned(a, c, b)
    BY <1>5 DEF zsub
  <2>2. Size(c) - Size(b) = v - w
    BY <1>1, <1>2, <1>5
  <2>3. InnerLoan(c, b) => InnerLoan(b, c)
    BY LoanBothWays
  <2>. QED
    BY <1>5, <2>1, <2>2, <2>3, UnsignedDifferences, Weaker
<1>6. CASE ~ IsZero(b) /\ ~ IsZero(c) /\ p = -1 /\ q = 1
  <2>1. zsub(a, b, c) = NegAll(a, zadd_unsigned(a, b, c))
    BY <1>6 DEF zsub
  <2>2. - (Size(b) + Size(c)) = v - w /\ Size(b) + Size(c) \in Int
    BY <1>1, <1>2, <1>6
  <2>3. Gives(zsub(a, b, c), a, - (Size(b) + Size(c)), CarryIntoCopy(a, b, c))
    BY <2>1, <2>2, UnsignedSums, NegGives
  <2>. QED
    BY <1>6, <2>2, <2>3, Weaker
<1>7. CASE ~ IsZero(b) /\ ~ IsZero(c) /\ p = 1 /\ q = -1
  <2>1. zsub(a, b, c) = zadd_unsigned(a, b, c)
    BY <1>7 DEF zsub
  <2>2. Size(b) + Size(c) = v - w
    BY <1>1, <1>2, <1>7
  <2>. QED
    BY <1>7, <2>1, <2>2, UnsignedSums, Weaker
<1>8. CASE ~ IsZero(b) /\ ~ IsZero(c) /\ p = 1 /\ q = 1
  <2>1. zsub(a, b, c) = zsub_unsigned(a, b, c)
    BY <1>8 DEF zsub
  <2>2. Size(b) - Size(c) = v - w
    BY <1>1, <1>2, <1>8
  <2>. QED
    BY <1>8, <2>1, <2>2, UnsignedDifferences, Weaker
<1>. QED
  BY <1>1, <1>2, <1>3, <1>4, <1>5, <1>6, <1>7, <1>8

LEMMA SumsAreRight == TypeOK => SumsRight
<1>. SUFFICES ASSUME TypeOK, NEW a \in Reg, NEW b \in Kept, NEW c \in Kept
              PROVE  /\ \/ IF num[b].sign # num[c].sign THEN InnerLoan(b, c) ELSE CarryIntoCopy(a, b, c)
                        \/ \A r \in zadd(a, b, c) : Stores(r, a, Value(num[b]) + Value(num[c]))
                     /\ CarryIntoCopy(a, b, c) \/
                          \A r \in zadd_unsigned(a, b, c) : Stores(r, a, Size(b) + Size(c))
                     /\ a = b /\ ~ (IsZero(c) /\ num[a].sign = -1) =>
                          \A r \in zadd_unsigned_assign(a, c) : Stores(r, a, Size(a) + Size(c))
  BY DEF SumsRight
<1>1. b \in Reg /\ c \in Reg
  BY RegAssumption
<1>. QED
  BY <1>1, SignedSums, UnsignedSums, SumsInPlace DEF Gives

LEMMA DifferencesAreRight == TypeOK => DifferencesRight
<1>. SUFFICES ASSUME TypeOK, NEW b \in Kept, NEW c \in Kept, ~ InnerLoan(b, c)
              PROVE  Differences(b, c)
  BY DEF DifferencesRight
<1>1. b \in Reg /\ c \in Reg
  BY RegAssumption
<1>2. ASSUME NEW a \in Reg
      PROVE  /\ \/ num[b].sign # num[c].sign /\ CarryIntoCopy(a, b, c)
                \/ \A r \in zsub(a, b, c) : Stores(r, a, Value(num[b]) - Value(num[c]))
             /\ \A r \in zsub_unsigned(a, b, c) : Stores(r, a, Size(b) - Size(c))
  BY <1>1, SignedDifferences, UnsignedDifferences DEF Gives
<1>3. AtMost(c, b) => \A r \in zsub_nonnegative_assign(b, c) :
                        Stores(r, b, Value(num[b]) - Value(num[c]))
  BY <1>1, DifferenceInPlace DEF Gives
<1>4. LessThan(c, b) => \A r \in zsub_positive_assign(b, c) :
                          Stores(r, b, Value(num[b]) - Value(num[c]))
  BY <1>1, DifferenceOfCompared DEF Gives
<1>. QED
  BY <1>2, <1>3, <1>4 DEF Differences

-----------------------------------------------------------------------------
(* The bits a number needs.                                                *)

LEMMA TrimmedIs ==
  ASSUME NEW n, IsNumber(n)
  PROVE  /\ IsNumber(Trimmed(n)) /\ Value(Trimmed(n)) = Value(n)
         /\ Trimmed(n).sign = n.sign /\ Trimmed(n).limbs = TrimTo(n.limbs, 0)
<1>. DEFINE t == TrimTo(n.limbs, 0)
<1>1. n \in Signed /\ n.limbs \in Seq(Limb) /\ (n.sign = 0 <=> Magnitude(n.limbs) = 0)
  BY NumberOf DEF IsNumber
<1>2. t \in Seq(Limb) /\ Magnitude(t) = Magnitude(n.limbs)
  BY <1>1, TrimAll
<1>3. Trimmed(n) = Number(n.sign, t)
  BY DEF Trimmed
<1>. HIDE DEF t
<1>4. Trimmed(n).sign = n.sign /\ Trimmed(n).limbs = t /\ Trimmed(n) \in Signed
  BY <1>1, <1>2, <1>3 DEF Signed, Number
<1>5. IsNumber(Trimmed(n)) /\ Value(Trimmed(n)) = Value(n)
  BY <1>1, <1>2, <1>4 DEF IsNumber, Value
<1>. QED
  BY <1>4, <1>5 DEF t

(* A limb that is not zero lies between two powers of two.                 *)
LEMMA LimbBits ==
  ASSUME NEW x \in Limb, x # 0, NEW m, m = Min({ k \in 1 .. BitsPerChar : 2 ^ k > x })
  PROVE  /\ m \in 1 .. BitsPerChar /\ m \in Nat /\ m - 1 \in Nat
         /\ x + 1 <= 2 ^ m /\ 2 ^ (m - 1) <= x
<1>. DEFINE K == { k \in 1 .. BitsPerChar : 2 ^ k > x }
<1>1. BitsPerChar \in Nat /\ BitsPerChar >= 1 /\ x \in Nat /\ x < Base
  BY Widths DEF Limb
<1>2. BitsPerChar \in K
  BY <1>1 DEF Base
<1>3. K \in SUBSET Nat /\ K # {}
  BY <1>2
<1>4. m = Min(K)
  OBVIOUS
<1>5. m \in K /\ \A y \in K : m <= y
  <2>1. Min(K) \in K /\ \A y \in K : Min(K) <= y
    <3>. HIDE DEF K
    <3>. QED
      BY <1>3, MinIs
  <2>. HIDE DEF K
  <2>. QED
    BY <1>4, <2>1, Zenon
<1>6. m \in 1 .. BitsPerChar /\ m \in Nat /\ m - 1 \in Nat /\ 2 ^ m > x
  BY <1>1, <1>5
<1>7. 2 ^ m \in Nat /\ 2 ^ (m - 1) \in Nat
  BY <1>6, Powers!Positive
<1>8. CASE m = 1
  <2>1. 2 ^ 0 = 1 /\ m - 1 = 0
    BY <1>8
  <2>2. 2 ^ (m - 1) = 1
    BY <2>1
  <2>. QED
    BY <1>1, <1>6, <1>7, <2>2
<1>9. CASE m # 1
  <2>1. m - 1 \in 1 .. BitsPerChar /\ ~ (m - 1 \in K)
    BY <1>1, <1>5, <1>6, <1>9
  <2>2. ~ (2 ^ (m - 1) > x)
    BY <2>1
  <2>. QED
    BY <1>1, <1>6, <1>7, <2>2
<1>. QED
  BY <1>8, <1>9

LEMMA BitLengthIs ==
  ASSUME NEW n, IsNumber(n), NEW k, k = BitLength(n)
  PROVE  /\ k \in Nat /\ k >= 1 /\ k - 1 \in Nat
         /\ Magnitude(n.limbs) < 2 ^ k
         /\ n.sign # 0 => /\ Magnitude(n.limbs) >= 2 ^ (k - 1)
                          /\ k <= BitsPerChar * Len(TrimTo(n.limbs, 0))
                          /\ k > BitsPerChar * (Len(TrimTo(n.limbs, 0)) - 1)
<1>1. n.limbs \in Seq(Limb) /\ (n.sign = 0 <=> Magnitude(n.limbs) = 0) /\ Magnitude(n.limbs) \in Nat
  BY NumberOf DEF IsNumber
<1>2. CASE n.sign = 0
  <2>1. k = 1
    BY <1>2 DEF BitLength
  <2>2. 2 ^ 1 = 2
    BY Powers!Doubling, 2 ^ 0 = 1
  <2>3. 2 ^ k = 2
    BY <2>1, <2>2
  <2>. QED
    BY <1>1, <1>2, <2>1, <2>3
<1>3. CASE n.sign # 0
  <2>. DEFINE s == TrimTo(n.limbs, 0)
              j == Len(s) - 1
              x == s[Len(s)]
              m == Min({ i \in 1 .. BitsPerChar : 2 ^ i > x })
  <2>1. /\ s \in Seq(Limb) /\ Magnitude(s) = Magnitude(n.limbs) /\ Len(s) \in Nat
        /\ Len(s) > 0 /\ x # 0
    BY <1>1, <1>3, TrimAll
  <2>2. k = j * BitsPerChar + m
    BY <1>3 DEF BitLength
  <2>3. j \in Nat /\ j + 1 = Len(s) /\ x \in Limb /\ x \in Nat /\ x = At(s, j + 1)
    <3>1. j \in Nat /\ j + 1 = Len(s)
      BY <2>1
    <3>2. Len(s) \in 1 .. Len(s)
      BY <2>1
    <3>3. x \in Limb /\ x = At(s, Len(s))
      BY <2>1, <3>2, SeqLimb
    <3>. HIDE DEF j, x, s
    <3>. QED
      BY <3>1, <3>3, LimbInt
  <2>. HIDE DEF s, j, x
  <2>4. m \in 1 .. BitsPerChar /\ m \in Nat /\ m - 1 \in Nat /\ x + 1 <= 2 ^ m /\ 2 ^ (m - 1) <= x
    BY <2>1, <2>3, LimbBits
  <2>. HIDE DEF m
  <2>5. Magnitude(s) = Low(s, j) + x * W(j) /\ Low(s, j) \in Nat /\ Low(s, j) < W(j)
    <3>1. s \in Seq(Int) /\ j + 1 \in Nat
      BY <2>1, <2>3, SeqLimb
    <3>2. Low(s, j + 1) = Low(s, j) + At(s, j + 1) * W(j)
      BY <2>3, <3>1, LowIs
    <3>3. Magnitude(s) = Low(s, j + 1)
      BY <2>3, <3>1, MagnitudeIs
    <3>4. Low(s, j) \in Nat /\ Low(s, j) < W(j)
      BY <2>1, <2>3, LowBound
    <3>. QED
      BY <2>3, <3>2, <3>3, <3>4
  <2>6. /\ BitsPerChar \in Nat /\ BitsPerChar * j \in Nat /\ j * BitsPerChar = BitsPerChar * j
        /\ BitsPerChar * (j + 1) = BitsPerChar * j + BitsPerChar
    BY <2>3, Widths, NatProduct
  <2>. DEFINE b == BitsPerChar * j
  <2>7. k = b + m /\ b \in Nat /\ k - 1 = b + (m - 1)
    BY <2>2, <2>4, <2>6
  <2>. HIDE DEF b
  <2>8. 2 ^ k = 2 ^ b * 2 ^ m /\ 2 ^ (k - 1) = 2 ^ b * 2 ^ (m - 1)
    BY <2>4, <2>7, Powers!PowerOfSum
  <2>9. 2 ^ b = W(j)
    BY DEF b, W
  <2>10. W(j) \in Nat /\ 2 ^ m \in Nat /\ 2 ^ (m - 1) \in Nat
    BY <2>3, <2>4, Widths, Powers!Positive
  <2>11. Magnitude(s) < 2 ^ k
    <3>. DEFINE w == W(j)
                p == 2 ^ m
    <3>1. w \in Nat /\ p \in Nat /\ x \in Nat /\ x < p /\ Low(s, j) \in Nat /\ Low(s, j) < w
      BY <2>3, <2>4, <2>5, <2>10
    <3>. HIDE DEF w, p
    <3>2. Low(s, j) + x * w < w * p
      BY <3>1, Digit
    <3>. QED
      BY <2>5, <2>8, <2>9, <3>2 DEF w, p
  <2>12. Magnitude(s) >= 2 ^ (k - 1)
    <3>. DEFINE w == W(j)
                p == 2 ^ (m - 1)
    <3>1. w \in Nat /\ p \in Nat /\ x \in Nat /\ p <= x /\ Low(s, j) \in Nat
      BY <2>3, <2>4, <2>5, <2>10
    <3>2. PICK d \in Nat : x = p + d
      <4>1. x - p \in Nat /\ x = p + (x - p)
        BY <3>1
      <4>. QED
        BY <4>1
    <3>. HIDE DEF w, p
    <3>3. (p + d) * w = p * w + d * w /\ d * w \in Nat /\ p * w \in Nat /\ p * w = w * p
      BY <3>1, NatProduct
    <3>4. Low(s, j) + x * w >= w * p
      BY <3>1, <3>2, <3>3
    <3>. QED
      BY <2>5, <2>8, <2>9, <3>4 DEF w, p
  <2>13. k \in Nat /\ k >= 1 /\ k <= BitsPerChar * (j + 1) /\ k > BitsPerChar * j
    BY <2>4, <2>6, <2>7 DEF b
  <2>14. BitsPerChar * (j + 1) = BitsPerChar * Len(s) /\ BitsPerChar * j = BitsPerChar * (Len(s) - 1)
    BY <2>3 DEF j
  <2>. QED
    BY <2>1, <2>11, <2>12, <2>13, <2>14 DEF s
<1>. QED
  BY <1>2, <1>3

-----------------------------------------------------------------------------
(* The high bits of a number and the low ones.                             *)

LEMMA Smaller == ASSUME NEW m \in Nat, NEW p \in Nat, m < p PROVE m \div p = 0 /\ m % p = m
<1>1. m = 0 * p + m
  OBVIOUS
<1>2. p \in Nat \ {0} /\ 0 \in Nat
  OBVIOUS
<1>3. (0 * p + m) \div p = 0 /\ (0 * p + m) % p = m
  BY <1>2, DividedBy
<1>. QED
  BY <1>1, <1>3

LEMMA SignTimes ==
  ASSUME NEW sg \in {-1, 0, 1}, NEW m \in Nat
  PROVE  sg * m \in Int /\ sg * 0 = 0 /\ (sg = 0 => sg * m = 0)
OBVIOUS

LEMMA RshLimbs ==
  ASSUME NEW s \in Seq(Limb), NEW n \in Nat, CharsIn(n) <= Len(s),
         NEW u, u = ShiftedDown(SubSeq(s, CharsIn(n) + 1, Len(s)), BitsInLast(n))
  PROVE  u \in Seq(Limb) /\ Magnitude(u) = Magnitude(s) \div 2 ^ n
<1>. DEFINE c == CharsIn(n)
            l == BitsInLast(n)
            h == Above(s, c)
<1>1. c \in Nat /\ l \in 0 .. BitsPerChar - 1 /\ 2 ^ n = W(c) * 2 ^ l
  BY Exponent
<1>2. u = ShiftedDown(h, l)
  BY DEF Above
<1>3. c \in 0 .. Len(s)
  BY <1>1
<1>. HIDE DEF c, l
<1>4. h \in Seq(Limb) /\ Magnitude(s) = Low(s, c) + W(c) * Magnitude(h)
  BY <1>3, Upper
<1>. HIDE DEF h
<1>5. u \in Seq(Limb) /\ Magnitude(u) = Magnitude(h) \div 2 ^ l
  BY <1>1, <1>2, <1>4, ShiftedDownIs
<1>6. Low(s, c) \in Nat /\ Low(s, c) < W(c) /\ Magnitude(h) \in Nat /\ W(c) \in Nat \ {0}
  BY <1>1, <1>4, LowBound, MagnitudeNat, Widths
<1>7. W(c) * Magnitude(h) = Magnitude(h) * W(c) /\ W(c) * Magnitude(h) \in Nat
  BY <1>6, NatProduct, Products
<1>8. Magnitude(s) = Magnitude(h) * W(c) + Low(s, c) /\ Magnitude(s) \in Nat
  BY <1>4, <1>6, <1>7
<1>9. Magnitude(s) \div W(c) = Magnitude(h)
  <2>. DEFINE w == W(c)
              q == Magnitude(h)
              r == Low(s, c)
  <2>1. w \in Nat \ {0} /\ q \in Nat /\ r \in Nat /\ r < w /\ Magnitude(s) = q * w + r
    BY <1>6, <1>8
  <2>. HIDE DEF w, q, r
  <2>2. (q * w + r) \div w = q
    BY <2>1, DividedBy
  <2>. QED
    BY <2>1, <2>2 DEF w, q
<1>10. 2 ^ l \in Nat \ {0}
  BY <1>1, LimbOf
<1>11. (Magnitude(s) \div W(c)) \div 2 ^ l = Magnitude(s) \div (W(c) * 2 ^ l)
  BY <1>6, <1>8, <1>10, Twice
<1>. QED
  BY <1>1, <1>5, <1>9, <1>11

LEMMA RshIs ==
  ASSUME NEW n, IsNumber(n), NEW bits \in Nat
  PROVE  /\ IsNumber(Rsh(n, bits))
         /\ Value(Rsh(n, bits)) = n.sign * (Magnitude(n.limbs) \div 2 ^ bits)
<1>. DEFINE s == TrimTo(n.limbs, 0)
            M == Magnitude(n.limbs)
            c == CharsIn(bits)
<1>1. /\ n.limbs \in Seq(Limb) /\ (n.sign = 0 <=> M = 0) /\ M \in Nat /\ n.sign \in {-1, 0, 1}
      /\ Value(n) = n.sign * M
  BY NumberOf DEF IsNumber, Value
<1>2. s \in Seq(Limb) /\ Magnitude(s) = M /\ Len(s) \in Nat
  BY <1>1, TrimAll
<1>3. 2 ^ bits \in Nat /\ 2 ^ bits >= 1 /\ c \in Nat /\ BitsInLast(bits) \in Nat
      /\ bits = BitsPerChar * c + BitsInLast(bits) /\ 2 ^ bits = W(c) * 2 ^ BitsInLast(bits)
      /\ BitsInLast(bits) \in 0 .. BitsPerChar - 1
  BY Exponent, Powers!Positive
<1>. HIDE DEF M
<1>4. CASE bits = 0
  <2>1. 2 ^ 0 = 1
    OBVIOUS
  <2>2. 2 ^ bits = 1 /\ M \div 1 = M
    BY <1>1, <1>4, <2>1
  <2>3. Rsh(n, bits) = n
    BY <1>4 DEF Rsh
  <2>. QED
    BY <1>1, <2>2, <2>3 DEF M
<1>5. CASE bits # 0 /\ (n.sign = 0 \/ c >= Len(n.limbs) \/ BitLength(n) <= bits)
  <2>1. Rsh(n, bits) = Zero
    BY <1>5 DEF Rsh
  <2>2. M < 2 ^ bits
    <3>1. CASE n.sign = 0
      BY <1>1, <1>3, <3>1
    <3>2. CASE c >= Len(n.limbs)
      <4>1. M < W(c)
        BY <1>1, <1>3, <3>2, MagnitudeNat DEF M
      <4>2. W(c) \in Nat /\ 2 ^ BitsInLast(bits) \in Nat \ {0}
        BY <1>3, Widths, LimbOf
      <4>3. W(c) <= W(c) * 2 ^ BitsInLast(bits)
        <5>. DEFINE w == W(c)
                    p == 2 ^ BitsInLast(bits)
        <5>1. w \in Nat /\ p \in Nat \ {0}
          BY <4>2
        <5>. HIDE DEF w, p
        <5>2. p - 1 \in Nat /\ w * (p - 1) \in Nat /\ w * p = w + w * (p - 1)
          BY <5>1
        <5>3. w <= w * p
          BY <5>1, <5>2
        <5>. QED
          BY <5>3 DEF w, p
      <4>. QED
        BY <1>1, <1>3, <4>1, <4>2, <4>3
    <3>3. CASE BitLength(n) <= bits
      <4>1. BitLength(n) \in Nat /\ M < 2 ^ BitLength(n)
        BY BitLengthIs DEF M
      <4>2. 2 ^ BitLength(n) <= 2 ^ bits /\ 2 ^ BitLength(n) \in Nat
        BY <3>3, <4>1, Powers!Monotone, Powers!Positive
      <4>. QED
        BY <1>1, <1>3, <4>1, <4>2
    <3>. QED
      BY <1>5, <3>1, <3>2, <3>3
  <2>3. M \div 2 ^ bits = 0
    BY <1>1, <1>3, <2>2, Smaller
  <2>4. n.sign * (M \div 2 ^ bits) = 0
    BY <1>1, <2>3, SignTimes
  <2>. QED
    BY <2>1, <2>4, ZeroIs DEF M
<1>6. CASE bits # 0 /\ ~ (n.sign = 0 \/ c >= Len(n.limbs) \/ BitLength(n) <= bits)
  <2>. DEFINE u == ShiftedDown(SubSeq(s, c + 1, Len(s)), BitsInLast(bits))
  <2>1. Rsh(n, bits) = TrimAndSign(n.sign, u)
    BY <1>6 DEF Rsh
  <2>2. n.sign \in {-1, 1}
    BY <1>1, <1>6
  <2>3. c <= Len(s)
    <3>. DEFINE k == Len(s)
                B == BitsPerChar
    <3>1. /\ BitLength(n) \in Nat /\ BitLength(n) <= B * k /\ BitLength(n) > bits
          /\ k \in Nat /\ B \in Nat /\ bits >= B * c /\ B * k \in Nat /\ B * c \in Nat
      <4>1. BitLength(n) \in Nat /\ BitLength(n) <= B * k
        BY <1>6, BitLengthIs
      <4>2. B \in Nat /\ k \in Nat
        BY <1>2, Widths
      <4>3. B * k \in Nat /\ B * c \in Nat
        BY <1>3, <4>2, NatProduct
      <4>. QED
        BY <1>3, <1>6, <4>1, <4>2, <4>3
    <3>. HIDE DEF k, B
    <3>2. B * c < B * k
      BY <3>1
    <3>3. c > k => B * c = B * k + B * (c - k) /\ B * (c - k) >= 0
      <4>1. c > k => c - k \in Nat
        BY <1>3, <3>1
      <4>2. c > k => B * (c - k) \in Nat
        BY <3>1, <4>1, NatProduct
      <4>3. B * c = B * k + B * (c - k)
        BY <1>3, <3>1
      <4>. QED
        BY <4>2, <4>3
    <3>. QED
      BY <1>3, <3>1, <3>2, <3>3 DEF k
  <2>. HIDE DEF s
  <2>4. u \in Seq(Limb) /\ Magnitude(u) = Magnitude(s) \div 2 ^ bits
    BY <1>2, <2>3, RshLimbs
  <2>. HIDE DEF u
  <2>. QED
    BY <1>2, <2>1, <2>2, <2>4, TrimAndSignIs DEF M
<1>. QED
  BY <1>4, <1>5, <1>6

(* m is made of l, of the digit x of worth w and of digits above it.       *)
MadeOf(m, l, w, x, p, q, R) == m = (x + (p * q) * R) * w + l

(* Of the digits above those of w only the remainder of the lowest counts. *)
LEMMA Remainder ==
  ASSUME NEW x \in Nat, NEW R \in Nat, NEW l \in Nat, NEW w \in Nat \ {0}, l < w,
         NEW p \in Nat \ {0}, NEW q \in Nat, NEW M, MadeOf(M, l, w, x, p, q, R)
  PROVE  M % (w * p) = l + (x % p) * w
<1>. DEFINE b == p * q
            y == x \div p
            r == x % p
<1>0. M = (x + b * R) * w + l
  BY DEF MadeOf
<1>1. y \in Nat /\ r \in Nat /\ r < p /\ x = y * p + r
  BY Divided
<1>. HIDE DEF y, r
<1>2. l + r * w \in Nat /\ l + r * w < w * p
  BY <1>1, Digit
<1>. DEFINE k == y + q * R
            t == r * w
            m == w * p
<1>3. k \in Nat /\ t \in Nat /\ m \in Nat
  BY <1>1, NatProduct
<1>4. m # 0
  BY <1>1, <1>2
<1>5. (x + b * R) * w = k * m + t
  <2>1. b * R = (q * R) * p
    BY Products, NatProduct
  <2>. DEFINE g == q * R
  <2>2. x + b * R = y * p + r + g * p /\ g \in Nat
    BY <1>1, <2>1, NatProduct
  <2>. HIDE DEF g
  <2>3. y * p + r + g * p = (y + g) * p + r
    BY <1>1, <2>2
  <2>. DEFINE e == y + g
              f == e * p
  <2>4. e \in Nat /\ f \in Nat /\ x + b * R = f + r
    BY <1>1, <2>2, <2>3, NatProduct
  <2>5. f * w = e * m
    <3>1. e \in Int /\ p \in Int /\ w \in Int
      BY <2>4
    <3>. HIDE DEF e
    <3>2. (e * p) * w = e * (p * w) /\ p * w = w * p
      BY <3>1, Products
    <3>. QED
      BY <3>2
  <2>. HIDE DEF e, f
  <2>6. (f + r) * w = f * w + r * w
    BY <1>1, <2>4
  <2>. QED
    BY <2>4, <2>5, <2>6 DEF e, g
<1>. HIDE DEF k, t, m
<1>6. (x + b * R) * w + l = k * m + (l + t)
  <2>. DEFINE z == k * m
  <2>1. z \in Nat
    BY <1>3, NatProduct
  <2>2. (x + b * R) * w = z + t
    BY <1>5
  <2>. HIDE DEF z
  <2>3. (z + t) + l = z + (l + t)
    BY <1>3, <2>1
  <2>. QED
    BY <2>2, <2>3 DEF z
<1>7. l + t \in Nat /\ l + t < m
  BY <1>2 DEF t, m
<1>8. (k * m + (l + t)) % m = l + t
  <2>. DEFINE u == l + t
  <2>1. u \in Nat /\ u < m /\ m \in Nat \ {0}
    BY <1>3, <1>4, <1>7
  <2>. HIDE DEF u
  <2>2. (k * m + u) % m = u
    BY <1>3, <2>1, DividedBy
  <2>. QED
    BY <2>2 DEF u
<1>. QED
  BY <1>0, <1>6, <1>8 DEF m, t, r

(* The limbs that truncation leaves of s.                                  *)
Lowest(s, bits) ==
  LET chars == (bits + BitsPerChar - 1) \div BitsPerChar
  IN  [i \in 1 .. Min({chars, Len(s)}) |->
         IF i = chars /\ BitsInLast(bits) # 0 THEN s[i] % 2 ^ BitsInLast(bits) ELSE s[i]]

LEMMA CharsUp ==
  ASSUME NEW bits \in Nat, NEW n, n = (bits + BitsPerChar - 1) \div BitsPerChar
  PROVE  n \in Nat /\ n = IF BitsInLast(bits) = 0 THEN CharsIn(bits) ELSE CharsIn(bits) + 1
<1>. DEFINE c == CharsIn(bits)
            l == BitsInLast(bits)
            B == BitsPerChar
<1>1. c \in Nat /\ l \in 0 .. B - 1 /\ l \in Nat /\ bits = B * c + l /\ B \in Nat \ {0}
  <2>1. c \in Nat /\ l \in 0 .. B - 1 /\ bits = B * c + l
    BY Exponent
  <2>2. B \in Nat \ {0}
    BY Widths
  <2>. HIDE DEF c, l, B
  <2>. QED
    BY <2>1, <2>2
<1>2. B * c = c * B /\ n = (bits + B - 1) \div B
  BY <1>1, Products
<1>. HIDE DEF c, l, B
<1>3. CASE l = 0
  <2>1. bits + B - 1 = c * B + (B - 1) /\ B - 1 \in Nat /\ B - 1 < B
    <3>. DEFINE z == c * B
    <3>1. z \in Nat /\ bits = z
      BY <1>1, <1>2, <1>3, NatProduct
    <3>. HIDE DEF z
    <3>2. bits + B - 1 = z + (B - 1) /\ B - 1 \in Nat /\ B - 1 < B
      BY <1>1, <3>1
    <3>. QED
      BY <3>2 DEF z
  <2>. DEFINE r == B - 1
  <2>2. r \in Nat /\ r < B /\ bits + B - 1 = c * B + r
    BY <2>1
  <2>. HIDE DEF r
  <2>3. (c * B + r) \div B = c
    BY <1>1, <2>2, DividedBy
  <2>. QED
    BY <1>1, <1>2, <1>3, <2>2, <2>3 DEF c, l
<1>4. CASE l # 0
  <2>. DEFINE r == l - 1
              d == c + 1
  <2>1. bits + B - 1 = d * B + r /\ r \in Nat /\ r < B /\ d \in Nat
    <3>. DEFINE z == c * B
    <3>1. z \in Nat /\ bits = z + l /\ d * B = z + B
      BY <1>1, <1>2, NatProduct
    <3>. HIDE DEF z, d
    <3>2. bits + B - 1 = (z + B) + r /\ r \in Nat /\ r < B
      BY <1>1, <1>4, <3>1
    <3>3. d \in Nat
      BY <1>1 DEF d
    <3>. QED
      BY <3>1, <3>2, <3>3
  <2>. HIDE DEF r, d
  <2>2. (d * B + r) \div B = d
    BY <1>1, <2>1, DividedBy
  <2>. QED
    BY <1>2, <1>4, <2>1, <2>2 DEF c, l, d
<1>. QED
  BY <1>3, <1>4

LEMMA LowestLimbs ==
  ASSUME NEW s \in Seq(Limb), NEW bits \in Nat, NEW d, d = Lowest(s, bits),
         NEW c, c = CharsIn(bits), NEW l, l = BitsInLast(bits)
  PROVE  /\ d \in Seq(Limb) /\ Len(d) \in Nat /\ Len(d) <= c + 1
         /\ \A i \in 1 .. c : At(d, i) = At(s, i)
         /\ At(d, c + 1) = At(s, c + 1) % 2 ^ l
<1>. DEFINE chars == (bits + BitsPerChar - 1) \div BitsPerChar
            n == Len(s)
            m == Min({chars, n})
<1>1. c \in Nat /\ l \in 0 .. BitsPerChar - 1 /\ l \in Nat /\ 2 ^ l \in Nat \ {0}
  BY Exponent, LimbOf
<1>2. chars \in Nat /\ chars = IF l = 0 THEN c ELSE c + 1
  BY CharsUp
<1>3. n \in Nat
  OBVIOUS
<1>4. d = [i \in 1 .. m |-> IF i = chars /\ l # 0 THEN s[i] % 2 ^ l ELSE s[i]]
  BY DEF Lowest
<1>. HIDE DEF chars, n
<1>5. m \in {chars, n} /\ m <= chars /\ m <= n
  <2>. DEFINE S == {chars, n}
  <2>1. S \in SUBSET Nat /\ S # {}
    BY <1>2, <1>3
  <2>2. Min(S) \in S /\ \A y \in S : Min(S) <= y
    <3>. HIDE DEF S
    <3>. QED
      BY <2>1, MinIs
  <2>. QED
    BY <2>2
<1>. HIDE DEF m
<1>6. m \in Nat /\ m <= c + 1
  BY <1>1, <1>2, <1>3, <1>5
<1>7. \A x \in Limb : x % 2 ^ l \in Limb /\ x \in Nat
  <2>. SUFFICES ASSUME NEW x \in Limb PROVE x % 2 ^ l \in Limb /\ x \in Nat
    OBVIOUS
  <2>1. x \in Nat /\ x < Base /\ Base \in Nat
    BY Widths DEF Limb
  <2>. DEFINE p == 2 ^ l
              r == x % p
              q == x \div p
  <2>2. q \in Nat /\ r \in Nat /\ x = q * p + r /\ p \in Nat \ {0}
    BY <1>1, <2>1, Divided
  <2>. HIDE DEF p, q, r
  <2>3. q * p \in Nat
    BY <2>2, NatProduct
  <2>. DEFINE z == q * p
  <2>4. z \in Nat /\ x = z + r
    BY <2>2, <2>3
  <2>. HIDE DEF z
  <2>5. r < Base
    BY <2>1, <2>2, <2>4
  <2>. QED
    BY <2>1, <2>2, <2>5 DEF Limb, r, p
<1>8. \A i \in 1 .. m : s[i] \in Limb
  BY <1>3, <1>5, <1>6 DEF n
<1>9. d \in Seq(Limb) /\ Len(d) = m
  BY <1>4, <1>6, <1>7, <1>8
<1>10. ASSUME NEW i \in 1 .. c PROVE At(d, i) = At(s, i)
  <2>1. i \in Nat /\ i >= 1 /\ i <= c
    BY <1>1
  <2>2. i = chars => l = 0
    BY <1>1, <1>2, <2>1
  <2>3. CASE i <= m
    <3>1. i \in 1 .. m /\ i <= n
      BY <1>3, <1>5, <1>6, <2>1, <2>3
    <3>2. d[i] = s[i]
      BY <1>4, <2>2, <3>1
    <3>. QED
      BY <1>9, <2>3, <3>1, <3>2 DEF At, n
  <2>4. CASE ~ (i <= m)
    <3>1. ~ (i <= n)
      BY <1>1, <1>2, <1>3, <1>5, <2>1, <2>4
    <3>. QED
      BY <1>9, <2>4, <3>1 DEF At, n
  <2>. QED
    BY <2>3, <2>4
<1>11. At(d, c + 1) = At(s, c + 1) % 2 ^ l
  <2>. DEFINE j == c + 1
  <2>1. j \in Nat /\ j >= 1 /\ j \in Nat \ {0}
    BY <1>1
  <2>2. At(s, j) \in Limb /\ At(s, j) \in Nat
    BY <2>1, SeqLimb
  <2>3. CASE l = 0
    <3>1. chars = c /\ ~ (j <= m)
      BY <1>1, <1>2, <1>3, <1>5, <1>6, <2>3
    <3>2. At(d, j) = 0
      BY <1>9, <3>1 DEF At
    <3>3. 2 ^ 0 = 1
      OBVIOUS
    <3>4. 2 ^ l = 1
      BY <2>3, <3>3
    <3>5. \A x \in Nat : x % 1 = 0
      OBVIOUS
    <3>6. At(s, j) % 2 ^ l = 0
      <4>. DEFINE x == At(s, j)
      <4>1. x \in Nat
        BY <2>2
      <4>. HIDE DEF x
      <4>2. x % 2 ^ l = 0
        BY <3>4, <3>5, <4>1
      <4>. QED
        BY <4>2 DEF x
    <3>. QED
      BY <3>2, <3>6
  <2>4. CASE l # 0
    <3>1. chars = j
      BY <1>2, <2>4
    <3>2. CASE j <= n
      <4>1. m = j /\ j \in 1 .. m
        BY <1>3, <1>5, <2>1, <3>1, <3>2
      <4>2. d[j] = s[j] % 2 ^ l
        BY <1>4, <2>4, <3>1, <4>1
      <4>. QED
        BY <1>9, <3>2, <4>1, <4>2 DEF At, n
    <3>3. CASE ~ (j <= n)
      <4>1. ~ (j <= m)
        BY <1>3, <1>5, <1>6, <2>1, <3>3
      <4>2. At(d, j) = 0 /\ At(s, j) = 0
        BY <1>9, <3>3, <4>1 DEF At, n
      <4>3. 0 % 2 ^ l = 0
        <5>. DEFINE p == 2 ^ l
        <5>1. p \in Nat /\ 0 \in Nat /\ 0 < p
          BY <1>1
        <5>. HIDE DEF p
        <5>2. 0 % p = 0
          BY <5>1, Smaller
        <5>. QED
          BY <5>2 DEF p
      <4>. QED
        BY <4>2, <4>3
    <3>. QED
      BY <3>2, <3>3
  <2>. QED
    BY <2>3, <2>4
<1>. QED
  BY <1>6, <1>9, <1>10, <1>11

LEMMA LowestIs ==
  ASSUME NEW s \in Seq(Limb), NEW bits \in Nat, NEW d, d = Lowest(s, bits)
  PROVE  d \in Seq(Limb) /\ Magnitude(d) = Magnitude(s) % 2 ^ bits
<1>. DEFINE c == CharsIn(bits)
            l == BitsInLast(bits)
            w == W(c)
            p == 2 ^ l
            x == At(s, c + 1)
            low == Low(s, c)
<1>0. c \in Nat /\ l \in 0 .. BitsPerChar - 1 /\ 2 ^ bits = w * p
  BY Exponent
<1>1. c \in Nat /\ l \in 0 .. BitsPerChar - 1 /\ 2 ^ bits = w * p /\ c + 1 \in Nat /\ c + 1 \in Nat \ {0}
  <2>. HIDE DEF c
  <2>. QED
    BY <1>0
<1>2. /\ d \in Seq(Limb) /\ Len(d) \in Nat /\ Len(d) <= c + 1
      /\ \A i \in 1 .. c : At(d, i) = At(s, i)
      /\ At(d, c + 1) = x % p
  BY LowestLimbs
<1>. HIDE DEF c, l
<1>3. p \in Nat \ {0} /\ 2 ^ (BitsPerChar - l) \in Nat \ {0} /\ p * 2 ^ (BitsPerChar - l) = Base
  BY <1>1, LimbOf
<1>4. w \in Nat \ {0} /\ low \in Nat /\ low < w /\ x \in Nat
  BY <1>1, Widths, LowBound, SeqLimb
<1>5. PICK R \in Nat : Magnitude(s) = (x + Base * R) * w + low
  BY <1>1, MiddleLimb
<1>6. Magnitude(d) = low + (x % p) * w
  <2>1. Magnitude(d) = Low(d, c + 1)
    BY <1>1, <1>2, MagnitudeNat
  <2>2. d \in Seq(Int) /\ s \in Seq(Int)
    BY <1>2, SeqLimb
  <2>3. Low(d, c + 1) = Low(d, c) + At(d, c + 1) * w
    BY <1>1, <2>2, LowIs
  <2>4. Low(d, c) = Low(s, c)
    BY <1>1, <1>2, <2>2, LowSame DEF Alike
  <2>. QED
    BY <1>2, <2>1, <2>3, <2>4
<1>. DEFINE q == 2 ^ (BitsPerChar - l)
            b == Base
<1>7. q \in Nat /\ b = p * q /\ Magnitude(s) = (x + b * R) * w + low
  BY <1>3, <1>5
<1>. HIDE DEF w, p, x, low, q, b
<1>8. Magnitude(s) % (w * p) = low + (x % p) * w
  <2>. DEFINE M == Magnitude(s)
  <2>0. MadeOf(M, low, w, x, p, q, R)
    BY <1>7 DEF MadeOf
  <2>1. /\ x \in Nat /\ R \in Nat /\ low \in Nat /\ w \in Nat \ {0} /\ low < w
        /\ p \in Nat \ {0} /\ q \in Nat
    BY <1>3, <1>4, <1>7
  <2>. HIDE DEF M
  <2>2. M % (w * p) = low + (x % p) * w
    BY <2>0, <2>1, Remainder
  <2>. QED
    BY <2>2 DEF M
<1>. QED
  BY <1>1, <1>2, <1>6, <1>7, <1>8

LEMMA TruncIs ==
  ASSUME NEW n, IsNumber(n), NEW bits \in Nat
  PROVE  /\ IsNumber(Trunc(n, bits))
         /\ Value(Trunc(n, bits)) = n.sign * (Magnitude(n.limbs) % 2 ^ bits)
<1>. DEFINE d == Lowest(n.limbs, bits)
            M == Magnitude(n.limbs)
<1>1. n.limbs \in Seq(Limb) /\ (n.sign = 0 <=> M = 0) /\ M \in Nat /\ n.sign \in {-1, 0, 1}
  BY NumberOf DEF IsNumber
<1>2. d \in Seq(Limb) /\ Magnitude(d) = M % 2 ^ bits
  BY <1>1, LowestIs
<1>3. Trunc(n, bits) = IF n.sign = 0 THEN Zero ELSE TrimAndSign(n.sign, d)
  BY DEF Trunc, Lowest
<1>. HIDE DEF d
<1>4. CASE n.sign = 0
  <2>1. 2 ^ bits \in Nat /\ 2 ^ bits >= 1
    BY Powers!Positive
  <2>2. M % 2 ^ bits \in Nat
    BY <1>1, <2>1, Divided
  <2>3. n.sign * (M % 2 ^ bits) = 0
    BY <1>4, <2>2, SignTimes
  <2>. QED
    BY <1>3, <1>4, <2>3, ZeroIs DEF M
<1>5. CASE n.sign # 0
  <2>1. n.sign \in {-1, 1} /\ Trunc(n, bits) = TrimAndSign(n.sign, d)
    BY <1>1, <1>3, <1>5
  <2>. QED
    BY <1>2, <2>1, TrimAndSignIs DEF M
<1>. QED
  BY <1>4, <1>5

-----------------------------------------------------------------------------
(* Shifts, truncation and split of numbers.                                *)

High(b, n) == num[b].sign * (Size(b) \div 2 ^ n)
Rest(b, n) == num[b].sign * (Size(b) % 2 ^ n)

LEMMA ShiftLeft ==
  ASSUME TypeOK, NEW a \in Reg, NEW b \in Reg, NEW n \in Nat
  PROVE  Gives(zlsh(a, b, n), a, Value(num[b]) * 2 ^ n, FALSE)
<1>1. /\ IsNumber(num[b]) /\ Limbs(b) \in Seq(Limb) /\ Limbs(b) = num[b].limbs
      /\ num[b].sign \in {-1, 0, 1} /\ (IsZero(b) <=> num[b].sign = 0)
      /\ (IsZero(b) => Value(num[b]) = 0)
  BY Registers
<1>2. 2 ^ n \in Nat /\ 2 ^ n >= 1
  BY Powers!Positive
<1>3. CASE IsZero(b)
  <2>1. zlsh(a, b, n) = Assign(a, Zero)
    BY <1>3 DEF zlsh
  <2>2. Value(num[b]) * 2 ^ n = 0
    BY <1>1, <1>2, <1>3
  <2>3. Gives(Assign(a, Zero), a, Value(Zero), FALSE)
    BY ZeroIs, AssignGives
  <2>. QED
    BY <2>1, <2>2, <2>3, ZeroIs
<1>4. CASE ~ IsZero(b)
  <2>. DEFINE u == Zeros(CharsIn(n)) \o ShiftedUp(Limbs(b), BitsInLast(n))
              M == Magnitude(Limbs(b))
              p == 2 ^ n
              sg == num[b].sign
  <2>1. zlsh(a, b, n) = Assign(a, Number(sg, u))
    BY <1>4 DEF zlsh
  <2>2. u \in Seq(Limb) /\ Magnitude(u) = M * p
    BY <1>1, ShiftedLeft
  <2>3. /\ sg \in {-1, 1} /\ M \in Nat /\ M # 0 /\ p \in Nat /\ p >= 1 /\ Value(num[b]) = sg * M
    BY <1>1, <1>2, <1>4, MagnitudeNat DEF Value, IsNumber
  <2>. HIDE DEF u, M, p, sg
  <2>4. M * p \in Nat /\ M * p # 0
    <3>1. p - 1 \in Nat /\ M * (p - 1) \in Nat /\ M * p = M + M * (p - 1)
      BY <2>3
    <3>2. M * p > 0
      BY <2>3, <3>1
    <3>. QED
      BY <2>3, <3>2, NatProduct
  <2>5. IsNumber(Number(sg, u)) /\ Value(Number(sg, u)) = sg * (M * p)
    BY <2>2, <2>3, <2>4, NumberIs
  <2>6. sg * (M * p) = (sg * M) * p
    BY <2>3
  <2>7. Gives(Assign(a, Number(sg, u)), a, Value(Number(sg, u)), FALSE)
    BY <2>5, AssignGives
  <2>. QED
    BY <2>1, <2>3, <2>5, <2>6, <2>7 DEF p
<1>. QED
  BY <1>3, <1>4

(* The operand is trimmed and the result stored, perhaps in its place.     *)
LEMMA TrimThenPut ==
  ASSUME TypeOK, NEW a \in Reg, NEW b \in Reg, NEW n, IsNumber(n)
  PROVE  /\ Gives({ [num EXCEPT ![b] = Trimmed(@), ![a] = n] }, a, Value(n), FALSE)
         /\ \A r \in { [num EXCEPT ![b] = Trimmed(@), ![a] = n] } : r[a] = n
<1>. DEFINE g == [num EXCEPT ![b] = Trimmed(num[b])]
            r == [g EXCEPT ![a] = n]
<1>1. Keeps(num) /\ IsNumber(num[b]) /\ num \in [Reg -> Signed]
  BY TypesKeep, Registers DEF Keeps, Sound
<1>2. IsNumber(Trimmed(num[b])) /\ Value(Trimmed(num[b])) = Value(num[b])
  BY <1>1, TrimmedIs
<1>3. Keeps(g)
  BY <1>1, <1>2, PutSame
<1>4. [num EXCEPT ![b] = Trimmed(@), ![a] = n] = r
  OBVIOUS
<1>. HIDE DEF g
<1>5. Sound(r) /\ Stores(r, a, Value(n)) /\ r[a] = n
  BY <1>3, Put
<1>. QED
  BY <1>4, <1>5 DEF Gives

LEMMA ShiftRight ==
  ASSUME TypeOK, NEW a \in Reg, NEW b \in Reg, NEW n \in Nat
  PROVE  Gives(zrsh(a, b, n), a, High(b, n), FALSE)
<1>1. IsNumber(num[b]) /\ Size(b) = Magnitude(num[b].limbs)
  BY Registers
<1>2. IsNumber(Rsh(num[b], n)) /\ Value(Rsh(num[b], n)) = High(b, n)
  BY <1>1, RshIs DEF High
<1>3. CASE n = 0 \/ CharsIn(n) >= Used(b)
  <2>1. zrsh(a, b, n) = Assign(a, Rsh(num[b], n))
    BY <1>3 DEF zrsh
  <2>2. Gives(Assign(a, Rsh(num[b], n)), a, Value(Rsh(num[b], n)), FALSE)
    BY <1>2, AssignGives
  <2>. QED
    BY <1>2, <2>1, <2>2
<1>4. CASE ~ (n = 0 \/ CharsIn(n) >= Used(b))
  <2>. DEFINE m == Rsh(num[b], n)
  <2>1. zrsh(a, b, n) = { [num EXCEPT ![b] = Trimmed(@), ![a] = m] }
    BY <1>4 DEF zrsh
  <2>. HIDE DEF m
  <2>2. Gives({ [num EXCEPT ![b] = Trimmed(@), ![a] = m] }, a, Value(m), FALSE)
    BY <1>2, TrimThenPut DEF m
  <2>. QED
    BY <1>2, <2>1, <2>2 DEF m
<1>. QED
  BY <1>3, <1>4

LEMMA Truncation ==
  ASSUME TypeOK, NEW a \in Reg, NEW b \in Reg, NEW n \in Nat
  PROVE  Gives(ztrunc(a, b, n), a, Rest(b, n), FALSE)
<1>1. IsNumber(num[b]) /\ Size(b) = Magnitude(num[b].limbs)
  BY Registers
<1>2. IsNumber(Trunc(num[b], n)) /\ Value(Trunc(num[b], n)) = Rest(b, n)
  BY <1>1, TruncIs DEF Rest
<1>3. Gives(Assign(a, Trunc(num[b], n)), a, Value(Trunc(num[b], n)), FALSE)
  BY <1>2, AssignGives
<1>. QED
  BY <1>2, <1>3 DEF ztrunc

LEMMA SameValue ==
  ASSUME NEW m, IsNumber(m), NEW n, IsNumber(n), Value(m) = Value(n)
  PROVE  m.sign = n.sign /\ Magnitude(m.limbs) = Magnitude(n.limbs)
<1>1. /\ m.sign \in {-1, 0, 1} /\ Magnitude(m.limbs) \in Nat
      /\ m.sign = 0 => Value(m) = 0 /\ Magnitude(m.limbs) = 0
      /\ m.sign = 1 => Value(m) = Magnitude(m.limbs) /\ Magnitude(m.limbs) > 0
      /\ m.sign = -1 => Value(m) = - Magnitude(m.limbs) /\ Magnitude(m.limbs) > 0
  BY NumberOf
<1>2. /\ n.sign \in {-1, 0, 1} /\ Magnitude(n.limbs) \in Nat
      /\ n.sign = 0 => Value(n) = 0 /\ Magnitude(n.limbs) = 0
      /\ n.sign = 1 => Value(n) = Magnitude(n.limbs) /\ Magnitude(n.limbs) > 0
      /\ n.sign = -1 => Value(n) = - Magnitude(n.limbs) /\ Magnitude(n.limbs) > 0
  BY NumberOf
<1>. QED
  BY <1>1, <1>2

LEMMA SplitIs ==
  ASSUME TypeOK, NEW a \in Reg, NEW c \in Reg, a # c, NEW b \in Reg, NEW n \in Nat,
         NEW r \in zsplit(a, c, b, n)
  PROVE  Sound(r) /\ Value(r[a]) = High(b, n) /\ Value(r[c]) = Rest(b, n)
<1>1. IsNumber(num[b]) /\ Size(b) = Magnitude(num[b].limbs) /\ num \in [Reg -> Signed] /\ Sound(num)
  BY Registers, TypesAreSound DEF Sound
<1>2. CASE a = b
  <2>. DEFINE h == Rsh(num[b], n)
              l == Trunc(num[b], n)
  <2>1. r = [num EXCEPT ![c] = l, ![a] = h]
    BY <1>2 DEF zsplit
  <2>2. IsNumber(h) /\ Value(h) = High(b, n)
    BY <1>1, RshIs DEF High
  <2>3. IsNumber(l) /\ Value(l) = Rest(b, n)
    BY <1>1, TruncIs DEF Rest
  <2>. HIDE DEF h, l
  <2>4. h \in Signed /\ l \in Signed
    BY <2>2, <2>3 DEF IsNumber
  <2>5. r \in [Reg -> Signed] /\ r[a] = h /\ r[c] = l /\ \A x \in Reg \ {a, c} : r[x] = num[x]
    BY <1>1, <2>1, <2>4
  <2>6. Sound(r)
    BY <1>1, <2>2, <2>3, <2>5 DEF Sound
  <2>. QED
    BY <2>2, <2>3, <2>5, <2>6
<1>3. CASE a # b
  <2>1. PICK q \in zrsh(a, b, n) : r = [q EXCEPT ![c] = Trunc(q[b], n)]
    BY <1>3 DEF zsplit
  <2>2. Sound(q) /\ Stores(q, a, High(b, n))
    BY <2>1, ShiftRight DEF Gives
  <2>3. Value(q[a]) = High(b, n) /\ Value(q[b]) = Value(num[b]) /\ IsNumber(q[b])
    BY <1>3, <2>2 DEF Stores, Sound
  <2>4. q[b].sign = num[b].sign /\ Magnitude(q[b].limbs) = Size(b)
    BY <1>1, <2>3, SameValue
  <2>. DEFINE l == Trunc(q[b], n)
  <2>5. IsNumber(l) /\ Value(l) = Rest(b, n)
    BY <2>3, <2>4, TruncIs DEF Rest
  <2>. HIDE DEF l
  <2>6. r = [q EXCEPT ![c] = l] /\ l \in Signed
    BY <2>1, <2>5 DEF l, IsNumber
  <2>7. r \in [Reg -> Signed] /\ r[c] = l /\ \A x \in Reg \ {c} : r[x] = q[x]
    BY <2>2, <2>6 DEF Sound
  <2>8. Sound(r)
    BY <2>2, <2>5, <2>7 DEF Sound
  <2>. QED
    BY <2>3, <2>5, <2>7, <2>8
<1>. QED
  BY <1>2, <1>3

LEMMA ShiftsAreRight == TypeOK => ShiftsRight
<1>. SUFFICES ASSUME TypeOK, NEW a \in Reg, NEW b \in Kept
              PROVE  /\ Size(b) < 2 ^ BitLength(num[b])
                     /\ IsZero(b) \/ Size(b) >= 2 ^ (BitLength(num[b]) - 1)
                     /\ \A n \in Counts :
                          /\ \A r \in zlsh(a, b, n) : Stores(r, a, Value(num[b]) * 2 ^ n)
                          /\ \A r \in zrsh(a, b, n) : Stores(r, a, High(b, n))
                          /\ \A r \in ztrunc(a, b, n) : Stores(r, a, Rest(b, n))
                          /\ \A c \in Kept \ {a} : \A r \in zsplit(a, c, b, n) :
                               Value(r[a]) = High(b, n) /\ Value(r[c]) = Rest(b, n)
  BY DEF ShiftsRight, High, Rest
<1>1. b \in Reg
  BY RegAssumption
<1>2. IsNumber(num[b]) /\ Size(b) = Magnitude(num[b].limbs) /\ (IsZero(b) <=> num[b].sign = 0)
  BY <1>1, Registers
<1>3. Size(b) < 2 ^ BitLength(num[b]) /\ (IsZero(b) \/ Size(b) >= 2 ^ (BitLength(num[b]) - 1))
  BY <1>2, BitLengthIs
<1>4. ASSUME NEW n \in Counts
      PROVE  /\ \A r \in zlsh(a, b, n) : Stores(r, a, Value(num[b]) * 2 ^ n)
             /\ \A r \in zrsh(a, b, n) : Stores(r, a, High(b, n))
             /\ \A r \in ztrunc(a, b, n) : Stores(r, a, Rest(b, n))
             /\ \A c \in Kept \ {a} : \A r \in zsplit(a, c, b, n) :
                  Value(r[a]) = High(b, n) /\ Value(r[c]) = Rest(b, n)
  <2>1. n \in Nat
    BY BitsAssumption
  <2>2. /\ \A r \in zlsh(a, b, n) : Stores(r, a, Value(num[b]) * 2 ^ n)
        /\ \A r \in zrsh(a, b, n) : Stores(r, a, High(b, n))
        /\ \A r \in ztrunc(a, b, n) : Stores(r, a, Rest(b, n))
    BY <1>1, <2>1, ShiftLeft, ShiftRight, Truncation DEF Gives
  <2>3. ASSUME NEW c \in Kept \ {a}, NEW r \in zsplit(a, c, b, n)
        PROVE  Value(r[a]) = High(b, n) /\ Value(r[c]) = Rest(b, n)
    <3>1. c \in Reg /\ a # c
      BY RegAssumption
    <3>. QED
      BY <1>1, <2>1, <2>3, <3>1, SplitIs
  <2>. QED
    BY <2>2, <2>3
<1>. QED
  BY <1>3, <1>4

-----------------------------------------------------------------------------
(* Bits of limbs.                                                          *)

Bit(n, k) == (n \div 2 ^ k) % 2 = 1

(* The bits below n do not see what is a multiple of 2 ^ n.                *)
LEMMA BitBelow ==
  ASSUME NEW r \in Nat, NEW n \in Nat, NEW g \in Nat, NEW k \in Nat, k < n
  PROVE  Bit(r + 2 ^ n * g, k) <=> Bit(r, k)
<1>. DEFINE p == 2 ^ k
            h == 2 ^ (n - k - 1)
            q == r \div p
            e == r % p
            z == h * g
<1>1. n - k - 1 \in Nat /\ n - k \in Nat /\ (n - k - 1) + 1 = n - k /\ k + (n - k) = n
  OBVIOUS
<1>2. p \in Nat \ {0} /\ h \in Nat /\ 2 ^ (n - k) \in Nat
  <2>1. p \in Nat /\ p >= 1 /\ h \in Nat /\ 2 ^ (n - k) \in Nat
    BY <1>1, Powers!Positive
  <2>. QED
    BY <2>1
<1>3. 2 ^ (k + (n - k)) = p * 2 ^ (n - k)
  BY <1>1, Powers!PowerOfSum
<1>4. 2 ^ ((n - k - 1) + 1) = 2 * h
  BY <1>1, Powers!Doubling
<1>5. 2 ^ n = p * (2 * h)
  BY <1>1, <1>3, <1>4
<1>. HIDE DEF p, h
<1>6. q \in Nat /\ e \in Nat /\ e < p /\ r = q * p + e
  BY <1>2, Divided
<1>7. z \in Nat /\ (p * (2 * h)) * g = p * (2 * z)
  BY <1>2, NatProduct
<1>. HIDE DEF q, e, z
<1>8. r + p * (2 * z) = (q + 2 * z) * p + e
  <2>. DEFINE y == 2 * z
              a == q * p
              b == y * p
  <2>1. y \in Nat
    BY <1>7
  <2>. HIDE DEF y
  <2>2. a \in Nat /\ b \in Nat /\ p * y = b /\ (q + y) * p = a + b /\ r = a + e
    BY <1>2, <1>6, <2>1, NatProduct, Products
  <2>. HIDE DEF a, b
  <2>3. (a + e) + b = (a + b) + e
    BY <1>6, <2>2
  <2>. QED
    BY <2>2, <2>3 DEF y
<1>. DEFINE m == q + 2 * z
<1>9. m \in Nat /\ m % 2 = q % 2
  BY <1>6, <1>7
<1>. HIDE DEF m
<1>10. (m * p + e) \div p = m
  BY <1>2, <1>6, <1>9, DividedBy
<1>11. r + 2 ^ n * g = m * p + e
  BY <1>5, <1>7, <1>8 DEF m
<1>12. ((r + 2 ^ n * g) \div p) % 2 = (r \div p) % 2
  BY <1>9, <1>10, <1>11 DEF q
<1>. QED
  BY <1>12 DEF Bit, p

LEMMA BitAbove ==
  ASSUME NEW r \in Nat, NEW n \in Nat, r < 2 ^ n, NEW k \in Nat, n <= k
  PROVE  ~ Bit(r, k)
<1>1. 2 ^ n \in Nat /\ 2 ^ k \in Nat /\ 2 ^ n <= 2 ^ k
  BY Powers!Positive, Powers!Monotone
<1>2. r < 2 ^ k
  BY <1>1
<1>3. r \div 2 ^ k = 0
  BY <1>1, <1>2, Smaller
<1>4. 0 % 2 = 0
  OBVIOUS
<1>5. (r \div 2 ^ k) % 2 = 0
  BY <1>3, <1>4
<1>. QED
  BY <1>5 DEF Bit

(* The bit n above a number of n bits.                                     *)
LEMMA BitAt ==
  ASSUME NEW r \in Nat, NEW n \in Nat, r < 2 ^ n
  PROVE  Bit(r + 2 ^ n, n)
<1>. DEFINE p == 2 ^ n
<1>1. p \in Nat /\ p >= 1
  BY Powers!Positive
<1>. HIDE DEF p
<1>2. r < p
  BY DEF p
<1>3. r + p = 1 * p + r /\ 1 \in Nat /\ p \in Nat \ {0}
  BY <1>1
<1>4. (1 * p + r) \div p = 1
  BY <1>2, <1>3, DividedBy
<1>5. (r + p) \div p = 1
  BY <1>3, <1>4
<1>. QED
  BY <1>5 DEF Bit, p

(* A number has any bits one likes.                                        *)
HasBits(v, X) == \A k \in Nat : Bit(v, k) <=> k \in X

LEMMA ZeroBits == HasBits(0, {})
<1>. SUFFICES ASSUME NEW k \in Nat PROVE ~ Bit(0, k)
  BY DEF HasBits
<1>1. 2 ^ 0 = 1 /\ 0 \in Nat
  OBVIOUS
<1>2. 0 < 2 ^ 0 /\ 0 <= k
  BY <1>1
<1>. QED
  BY <1>1, <1>2, BitAbove

LEMMA AnyBits ==
  ASSUME NEW n \in Nat, NEW X \in SUBSET (0 .. n - 1)
  PROVE  \E v \in Nat : v < 2 ^ n /\ HasBits(v, X)
<1>. DEFINE T == { i \in Nat : \A Y \in SUBSET (0 .. i - 1) : \E v \in Nat : v < 2 ^ i /\ HasBits(v, Y) }
<1>1. 0 \in T
  <2>1. 0 \in Nat /\ 0 .. 0 - 1 = {} /\ 2 ^ 0 = 1 /\ 0 < 1
    OBVIOUS
  <2>2. 0 < 2 ^ 0
    BY <2>1
  <2>3. \A Y \in SUBSET (0 .. 0 - 1) : Y = {}
    BY <2>1
  <2>. QED
    BY <2>1, <2>2, <2>3, ZeroBits
<1>2. ASSUME NEW i \in 0 .. n - 1, i \in T PROVE i + 1 \in T
  <2>1. i \in Nat /\ i + 1 \in Nat /\ (i + 1) - 1 = i
    OBVIOUS
  <2>2. ASSUME NEW Y \in SUBSET (0 .. i)
        PROVE  \E v \in Nat : v < 2 ^ (i + 1) /\ HasBits(v, Y)
    <3>. DEFINE Z == Y \ {i}
    <3>1. Z \in SUBSET (0 .. i - 1) /\ i \notin Z
      BY <2>1
    <3>2. PICK u \in Nat : u < 2 ^ i /\ HasBits(u, Z)
      BY <1>2, <3>1
    <3>3. 2 ^ i \in Nat /\ 2 ^ (i + 1) = 2 * 2 ^ i /\ 2 ^ i >= 1 /\ 2 ^ (i + 1) \in Nat
      BY <2>1, Powers!Positive, Powers!Doubling
    <3>4. CASE i \notin Y
      <4>1. Z = Y /\ u < 2 ^ (i + 1)
        BY <3>2, <3>3, <3>4
      <4>. QED
        BY <3>2, <4>1
    <3>5. CASE i \in Y
      <4>. DEFINE v == u + 2 ^ i
      <4>1. v \in Nat /\ v < 2 ^ (i + 1)
        BY <3>2, <3>3
      <4>2. ASSUME NEW k \in Nat PROVE Bit(v, k) <=> k \in Y
        <5>1. CASE k < i
          <6>1. 2 ^ i * 1 = 2 ^ i /\ 1 \in Nat
            BY <3>3
          <6>2. Bit(u + 2 ^ i * 1, k) <=> Bit(u, k)
            BY <2>1, <3>2, <5>1, <6>1, BitBelow
          <6>3. k \in Z <=> k \in Y
            BY <5>1
          <6>. QED
            BY <3>2, <6>1, <6>2, <6>3 DEF HasBits
        <5>2. CASE k = i
          BY <2>1, <3>2, <3>5, <5>2, BitAt
        <5>3. CASE k > i
          <6>1. ~ Bit(v, k)
            <7>. HIDE DEF v
            <7>. QED
              BY <2>1, <4>1, <5>3, BitAbove
          <6>2. k \notin Y
            BY <5>3
          <6>. QED
            BY <6>1, <6>2
        <5>. QED
          BY <2>1, <5>1, <5>2, <5>3
      <4>. HIDE DEF v
      <4>. QED
        BY <4>1, <4>2 DEF HasBits
    <3>. QED
      BY <3>4, <3>5
  <2>. QED
    BY <2>1, <2>2
<1>. HIDE DEF T
<1>3. n \in T
  BY <1>1, <1>2, Powers!Induct
<1>. QED
  BY <1>3 DEF T

(* The bits of a limb.                                                     *)
LEMMA LimbSets ==
  ASSUME NEW x \in Limb
  PROVE  /\ x \in Nat /\ \A k \in 0 .. BitsPerChar - 1 : k \in BitsIn[x] <=> Bit(x, k)
         /\ BitsIn[x] \subseteq 0 .. BitsPerChar - 1
         /\ x = 0 <=> BitsIn[x] = {}
<1>1. x \in Nat /\ x < 2 ^ BitsPerChar /\ BitsPerChar \in Nat
  BY Widths DEF Limb, Base
<1>2. BitsIn[x] = { k \in 0 .. BitsPerChar - 1 : Bit(x, k) }
  BY DEF BitsIn, Bits, Bit
<1>3. x = 0 => BitsIn[x] = {}
  BY <1>2, ZeroBits DEF HasBits
<1>4. ASSUME x # 0 PROVE BitsIn[x] # {}
  <2>1. x \in Nat \ {0}
    BY <1>1, <1>4
  <2>2. PICK i \in 0 .. x : 2 ^ i <= x /\ x < 2 ^ (i + 1)
    BY <2>1, Powers!Between
  <2>3. i \in Nat /\ 2 ^ i \in Nat /\ 2 ^ (i + 1) = 2 * 2 ^ i
    BY <1>1, Powers!Positive, Powers!Doubling
  <2>. DEFINE r == x - 2 ^ i
  <2>4. r \in Nat /\ r < 2 ^ i /\ x = r + 2 ^ i
    BY <1>1, <2>2, <2>3
  <2>. HIDE DEF r
  <2>5. Bit(x, i)
    BY <2>3, <2>4, BitAt
  <2>6. i < BitsPerChar
    <3>1. BitsPerChar <= i => ~ Bit(x, i)
      BY <1>1, <2>3, BitAbove
    <3>. QED
      BY <1>1, <2>3, <2>5, <3>1
  <2>. QED
    BY <1>1, <1>2, <2>3, <2>5, <2>6
<1>. QED
  BY <1>1, <1>2, <1>3, <1>4

LEMMA OfBitsIs ==
  ASSUME NEW X \in SUBSET (0 .. BitsPerChar - 1)
  PROVE  OfBits(X) \in Limb /\ BitsIn[OfBits(X)] = X
<1>1. BitsPerChar \in Nat /\ Base \in Nat
  BY Widths
<1>2. PICK v \in Nat : v < 2 ^ BitsPerChar /\ HasBits(v, X)
  BY <1>1, AnyBits
<1>3. v \in Limb
  BY <1>1, <1>2 DEF Limb, Base
<1>4. BitsIn[v] = X
  <2>1. /\ BitsIn[v] \subseteq 0 .. BitsPerChar - 1
        /\ \A k \in 0 .. BitsPerChar - 1 : k \in BitsIn[v] <=> Bit(v, k)
    BY <1>3, LimbSets
  <2>2. \A k \in 0 .. BitsPerChar - 1 : k \in X <=> Bit(v, k)
    BY <1>1, <1>2 DEF HasBits
  <2>. QED
    BY <2>1, <2>2
<1>. QED
  BY <1>3, <1>4 DEF OfBits

LEMMA AndIs ==
  ASSUME NEW m \in Limb, NEW n \in Limb
  PROVE  And[m][n] \in Limb /\ BitsIn[And[m][n]] = BitsIn[m] \cap BitsIn[n]
<1>1. BitsIn[m] \cap BitsIn[n] \in SUBSET (0 .. BitsPerChar - 1)
  BY LimbSets
<1>2. And[m][n] = OfBits(BitsIn[m] \cap BitsIn[n])
  BY DEF And
<1>. QED
  BY <1>1, <1>2, OfBitsIs

LEMMA OrIs ==
  ASSUME NEW m \in Limb, NEW n \in Limb
  PROVE  Or[m][n] \in Limb /\ BitsIn[Or[m][n]] = BitsIn[m] \cup BitsIn[n]
<1>1. BitsIn[m] \cup BitsIn[n] \in SUBSET (0 .. BitsPerChar - 1)
  BY LimbSets
<1>2. Or[m][n] = OfBits(BitsIn[m] \cup BitsIn[n])
  BY DEF Or
<1>. QED
  BY <1>1, <1>2, OfBitsIs

LEMMA XorIs ==
  ASSUME NEW m \in Limb, NEW n \in Limb
  PROVE  /\ Xor[m][n] \in Limb
         /\ BitsIn[Xor[m][n]] = (BitsIn[m] \cup BitsIn[n]) \ (BitsIn[m] \cap BitsIn[n])
<1>1. (BitsIn[m] \cup BitsIn[n]) \ (BitsIn[m] \cap BitsIn[n]) \in SUBSET (0 .. BitsPerChar - 1)
  BY LimbSets
<1>2. Xor[m][n] = OfBits((BitsIn[m] \cup BitsIn[n]) \ (BitsIn[m] \cap BitsIn[n]))
  BY DEF Xor
<1>. QED
  BY <1>1, <1>2, OfBitsIs

LEMMA AndNotIs ==
  ASSUME NEW m \in Limb, NEW n \in Limb
  PROVE  AndNot[m][n] \in Limb /\ BitsIn[AndNot[m][n]] = BitsIn[m] \ BitsIn[n]
<1>1. BitsIn[m] \ BitsIn[n] \in SUBSET (0 .. BitsPerChar - 1)
  BY LimbSets
<1>2. AndNot[m][n] = OfBits(BitsIn[m] \ BitsIn[n])
  BY DEF AndNot
<1>. QED
  BY <1>1, <1>2, OfBitsIs

(* The limb with one bit.                                                  *)
LEMMA PowerBits ==
  ASSUME NEW l \in 0 .. BitsPerChar - 1
  PROVE  2 ^ l \in Limb /\ BitsIn[2 ^ l] = {l}
<1>1. l \in Nat /\ l + 1 \in Nat /\ BitsPerChar \in Nat /\ l + 1 <= BitsPerChar
  BY Widths
<1>2. /\ 2 ^ l \in Nat /\ 2 ^ l >= 1 /\ 2 ^ (l + 1) = 2 * 2 ^ l
      /\ 2 ^ (l + 1) <= 2 ^ BitsPerChar /\ 2 ^ BitsPerChar \in Nat
  BY <1>1, Powers!Positive, Powers!Doubling, Powers!Monotone
<1>3. 2 ^ l \in Limb /\ 2 ^ l < 2 ^ (l + 1)
  BY <1>2 DEF Limb, Base
<1>4. ASSUME NEW k \in 0 .. BitsPerChar - 1 PROVE Bit(2 ^ l, k) <=> k = l
  <2>0. k \in Nat
    OBVIOUS
  <2>1. CASE k < l
    <3>1. 0 + 2 ^ l * 1 = 2 ^ l /\ 0 \in Nat /\ 1 \in Nat
      BY <1>2
    <3>2. Bit(0 + 2 ^ l * 1, k) <=> Bit(0, k)
      BY <1>1, <2>0, <2>1, <3>1, BitBelow
    <3>. QED
      BY <1>1, <2>0, <2>1, <3>1, <3>2, ZeroBits DEF HasBits
  <2>2. CASE k = l
    <3>1. 0 \in Nat /\ 0 < 2 ^ l /\ 0 + 2 ^ l = 2 ^ l
      BY <1>2
    <3>2. Bit(0 + 2 ^ l, l)
      BY <1>1, <3>1, BitAt
    <3>. QED
      BY <2>2, <3>1, <3>2
  <2>3. CASE k > l
    <3>1. ~ Bit(2 ^ l, k)
      BY <1>1, <1>2, <1>3, <2>0, <2>3, BitAbove
    <3>. QED
      BY <1>1, <2>0, <2>3, <3>1
  <2>. QED
    BY <1>1, <2>0, <2>1, <2>2, <2>3
<1>. QED
  BY <1>3, <1>4, LimbSets

-----------------------------------------------------------------------------
(* Bits of numbers.                                                        *)

(* The bits of the limbs, each at its place.                               *)
Pos(s) == { k \in Nat : BitsInLast(k) \in BitsIn[At(s, CharsIn(k) + 1)] }

LEMMA Place ==
  ASSUME NEW k \in Nat
  PROVE  /\ CharsIn(k) \in Nat /\ CharsIn(k) + 1 \in Nat \ {0} /\ CharsIn(k) + 1 \in Nat
         /\ BitsInLast(k) \in 0 .. BitsPerChar - 1
<1>1. CharsIn(k) \in Nat /\ BitsInLast(k) \in 0 .. BitsPerChar - 1
  BY Exponent
<1>. QED
  BY <1>1

LEMMA PlaceOf ==
  ASSUME NEW j \in Nat, NEW l \in 0 .. BitsPerChar - 1
  PROVE  /\ j * BitsPerChar + l \in Nat
         /\ CharsIn(j * BitsPerChar + l) = j /\ BitsInLast(j * BitsPerChar + l) = l
<1>1. BitsPerChar \in Nat \ {0} /\ l \in Nat /\ l < BitsPerChar /\ j * BitsPerChar \in Nat
  BY Widths, NatProduct
<1>2. (j * BitsPerChar + l) \div BitsPerChar = j /\ (j * BitsPerChar + l) % BitsPerChar = l
  BY <1>1, DividedBy
<1>. QED
  BY <1>1, <1>2 DEF CharsIn, BitsInLast

LEMMA PosIs ==
  ASSUME NEW s \in Seq(Limb), NEW k \in Nat
  PROVE  k \in Pos(s) <=> Bit(Magnitude(s), k)
<1>. DEFINE j == CharsIn(k)
            l == BitsInLast(k)
            w == W(j)
            p == 2 ^ l
            x == At(s, j + 1)
            low == Low(s, j)
<1>1. j \in Nat /\ l \in 0 .. BitsPerChar - 1 /\ 2 ^ k = w * p /\ j + 1 \in Nat \ {0}
  BY Place, Exponent
<1>2. k \in Pos(s) <=> l \in BitsIn[x]
  BY DEF Pos
<1>. HIDE DEF j, l
<1>3. w \in Nat \ {0} /\ low \in Nat /\ low < w /\ x \in Nat /\ x \in Limb
  BY <1>1, Widths, LowBound, SeqLimb
<1>4. p \in Nat \ {0} /\ l \in Nat /\ BitsPerChar \in Nat /\ l < BitsPerChar
  BY <1>1, LimbOf, Widths
<1>5. PICK R \in Nat : Magnitude(s) = (x + Base * R) * w + low
  BY <1>1, MiddleLimb
<1>. DEFINE y == x + 2 ^ BitsPerChar * R
<1>6. y = x + Base * R /\ y \in Nat
  <2>1. 2 ^ BitsPerChar = Base /\ Base \in Nat
    BY Widths DEF Base
  <2>2. Base * R \in Nat
    BY <2>1, NatProduct
  <2>. QED
    BY <1>3, <2>1, <2>2
<1>7. Bit(y, l) <=> Bit(x, l)
  BY <1>3, <1>4, BitBelow
<1>. HIDE DEF w, p, x, low, y
<1>8. (y * w + low) \div w = y /\ y * w + low \in Nat
  <2>1. y \in Nat /\ w \in Nat /\ w \in Nat \ {0} /\ low \in Nat /\ low < w
    BY <1>3, <1>6
  <2>2. y * w \in Nat
    BY <2>1, NatProduct
  <2>3. (y * w + low) \div w = y
    BY <2>1, DividedBy
  <2>. QED
    BY <2>1, <2>2, <2>3
<1>9. Magnitude(s) \div w = y /\ Magnitude(s) \in Nat
  BY <1>5, <1>6, <1>8
<1>10. (Magnitude(s) \div w) \div p = Magnitude(s) \div (w * p)
  BY <1>3, <1>4, <1>9, Twice
<1>11. Magnitude(s) \div 2 ^ k = y \div p
  BY <1>1, <1>9, <1>10
<1>12. Bit(Magnitude(s), k) <=> Bit(y, l)
  BY <1>11 DEF Bit, p
<1>13. l \in BitsIn[x] <=> Bit(x, l)
  BY <1>1, <1>3, LimbSets
<1>. QED
  BY <1>2, <1>7, <1>12, <1>13

(* They are the bits of the magnitude.                                     *)
LEMMA AllBitsAre ==
  ASSUME NEW n, n.limbs \in Seq(Limb)
  PROVE  AllBits(n) = Pos(n.limbs)
<1>. DEFINE s == n.limbs
            M == Magnitude(s)
            width == Len(s) * BitsPerChar
<1>1. s \in Seq(Limb) /\ M \in Nat /\ M < W(Len(s)) /\ Len(s) \in Nat
  BY MagnitudeNat
<1>2. BitsPerChar \in Nat /\ width = BitsPerChar * Len(s) /\ width \in Nat
  <2>. DEFINE L == Len(s)
  <2>1. L \in Nat /\ BitsPerChar \in Nat
    BY <1>1, Widths
  <2>. HIDE DEF L
  <2>2. L * BitsPerChar = BitsPerChar * L /\ L * BitsPerChar \in Nat
    BY <2>1, NatProduct, Products
  <2>. QED
    BY <2>1, <2>2 DEF L
<1>3. M < 2 ^ width
  BY <1>1, <1>2 DEF W
<1>4. AllBits(n) = { k \in 0 .. width - 1 : Bit(M, k) }
  BY DEF AllBits, Bits, Bit
<1>5. \A k \in Nat : k \in Pos(s) <=> Bit(M, k)
  BY <1>1, PosIs
<1>6. Pos(s) \subseteq Nat
  BY DEF Pos
<1>. HIDE DEF s, M, width
<1>7. \A k \in Nat : Bit(M, k) => k < width
  BY <1>1, <1>2, <1>3, BitAbove
<1>8. \A k : k \in AllBits(n) <=> k \in Pos(s)
  BY <1>2, <1>4, <1>5, <1>6, <1>7
<1>. QED
  BY <1>8 DEF s

LEMMA PosSame ==
  ASSUME NEW s, NEW t, \A i \in Nat \ {0} : At(s, i) = At(t, i)
  PROVE  Pos(s) = Pos(t)
BY Place DEF Pos

(* Only nothing has no bits.                                               *)
LEMMA PosEmpty ==
  ASSUME NEW s \in Seq(Limb)
  PROVE  Pos(s) = {} <=> Magnitude(s) = 0
<1>1. ASSUME Magnitude(s) = 0 PROVE Pos(s) = {}
  <2>1. \A i \in Nat \ {0} : At(s, i) = 0
    BY <1>1, MagnitudeZero
  <2>2. BitsIn[0] = {}
    BY LimbInt, LimbSets
  <2>. QED
    BY <2>1, <2>2, Place DEF Pos
<1>2. ASSUME Magnitude(s) # 0 PROVE Pos(s) # {}
  <2>1. PICK i \in Nat \ {0} : At(s, i) # 0
    BY <1>2, MagnitudeZero
  <2>2. At(s, i) \in Limb
    BY SeqLimb
  <2>3. PICK l \in 0 .. BitsPerChar - 1 : l \in BitsIn[At(s, i)]
    BY <2>1, <2>2, LimbSets
  <2>. DEFINE j == i - 1
              k == j * BitsPerChar + l
  <2>4. j \in Nat /\ j + 1 = i
    OBVIOUS
  <2>. HIDE DEF j
  <2>5. k \in Nat /\ CharsIn(k) = j /\ BitsInLast(k) = l
    BY <2>4, PlaceOf
  <2>. QED
    BY <2>3, <2>4, <2>5 DEF Pos
<1>. QED
  BY <1>1, <1>2

LEMMA SignedBits ==
  ASSUME NEW sg \in {-1, 1}, NEW s \in Seq(Limb)
  PROVE  /\ IsNumber(TrimAndSign(sg, s)) /\ AllBits(TrimAndSign(sg, s)) = Pos(s)
         /\ Pos(s) # {} => IsNumber(Number(sg, s)) /\ AllBits(Number(sg, s)) = Pos(s)
<1>. DEFINE t == TrimTo(s, 0)
            n == TrimAndSign(sg, s)
<1>1. t \in Seq(Limb) /\ \A i \in Nat \ {0} : At(t, i) = At(s, i)
  BY TrimAll
<1>2. n.limbs = t
  BY DEF TrimAndSign, Zero, Number
<1>3. Pos(t) = Pos(s)
  BY <1>1, PosSame
<1>. HIDE DEF t, n
<1>4. AllBits(n) = Pos(s)
  BY <1>1, <1>2, <1>3, AllBitsAre
<1>5. IsNumber(n)
  BY TrimAndSignIs DEF n
<1>6. ASSUME Pos(s) # {} PROVE IsNumber(Number(sg, s)) /\ AllBits(Number(sg, s)) = Pos(s)
  <2>1. Magnitude(s) # 0
    BY <1>6, PosEmpty
  <2>2. IsNumber(Number(sg, s)) /\ Number(sg, s).limbs = s
    BY <2>1, NumberIs
  <2>. QED
    BY <2>2, AllBitsAre
<1>. QED
  BY <1>4, <1>5, <1>6 DEF n

(* The bits of what the program holds.                                     *)
LEMMA BitsHeld ==
  ASSUME TypeOK, NEW a \in Reg
  PROVE  /\ AllBits(num[a]) = Pos(Limbs(a)) /\ (IsZero(a) <=> Pos(Limbs(a)) = {})
         /\ ~ IsZero(a) => num[a].sign \in {-1, 1}
<1>1. /\ Limbs(a) \in Seq(Limb) /\ Limbs(a) = num[a].limbs /\ Size(a) = Magnitude(Limbs(a))
      /\ (IsZero(a) <=> Size(a) = 0) /\ num[a].sign \in {-1, 0, 1} /\ (IsZero(a) <=> num[a].sign = 0)
  BY Registers
<1>2. AllBits(num[a]) = Pos(Limbs(a))
  BY <1>1, AllBitsAre
<1>3. Pos(Limbs(a)) = {} <=> Magnitude(Limbs(a)) = 0
  BY <1>1, PosEmpty
<1>. QED
  BY <1>1, <1>2, <1>3

LEMMA ZeroHasNone == IsNumber(Zero) /\ AllBits(Zero) = {}
<1>1. Zero.limbs = <<>> /\ <<>> \in Seq(Limb) /\ Len(<<>>) = 0 /\ 1 .. 0 = {} /\ IsNumber(Zero)
  BY ZeroIs
<1>2. Magnitude(<<>>) = 0
  BY <1>1, MagnitudeZero
<1>. QED
  BY <1>1, <1>2, AllBitsAre, PosEmpty

-----------------------------------------------------------------------------
(* Bits combined.                                                          *)

LEMMA PosAnd ==
  ASSUME NEW u, NEW s, NEW t,
         \A i \in Nat \ {0} : BitsIn[At(u, i)] = BitsIn[At(s, i)] \cap BitsIn[At(t, i)]
  PROVE  Pos(u) = Pos(s) \cap Pos(t)
BY Place DEF Pos

LEMMA PosOr ==
  ASSUME NEW u, NEW s, NEW t,
         \A i \in Nat \ {0} : BitsIn[At(u, i)] = BitsIn[At(s, i)] \cup BitsIn[At(t, i)]
  PROVE  Pos(u) = Pos(s) \cup Pos(t)
BY Place DEF Pos

LEMMA PosXor ==
  ASSUME NEW u, NEW s, NEW t,
         \A i \in Nat \ {0} : BitsIn[At(u, i)] = (BitsIn[At(s, i)] \cup BitsIn[At(t, i)])
                                                  \ (BitsIn[At(s, i)] \cap BitsIn[At(t, i)])
  PROVE  Pos(u) = (Pos(s) \cup Pos(t)) \ (Pos(s) \cap Pos(t))
BY Place DEF Pos

(* S yields sound results, whose bits in a are X unless P.                 *)
Leaves(S, a, X, P) == \A r \in S : Sound(r) /\ (P \/ AllBits(r[a]) = X)

LEMMA AssignLeaves ==
  ASSUME TypeOK, NEW a \in Reg, NEW n, IsNumber(n)
  PROVE  Leaves(Assign(a, n), a, AllBits(n), FALSE)
BY Assigned DEF Leaves

LEMMA Conjunction ==
  ASSUME TypeOK, NEW a \in Reg, NEW b \in Reg, NEW c \in Reg
  PROVE  Leaves(zand(a, b, c), a, AllBits(num[b]) \cap AllBits(num[c]), FALSE)
<1>1. /\ Limbs(b) \in Seq(Limb) /\ Used(b) = Len(Limbs(b)) /\ Used(b) \in Nat
      /\ AllBits(num[b]) = Pos(Limbs(b)) /\ (IsZero(b) <=> Pos(Limbs(b)) = {})
  BY Registers, BitsHeld
<1>2. /\ Limbs(c) \in Seq(Limb) /\ Used(c) = Len(Limbs(c)) /\ Used(c) \in Nat
      /\ AllBits(num[c]) = Pos(Limbs(c)) /\ (IsZero(c) <=> Pos(Limbs(c)) = {})
  BY Registers, BitsHeld
<1>3. CASE IsZero(b) \/ IsZero(c)
  <2>1. zand(a, b, c) = Assign(a, Zero)
    BY <1>3 DEF zand
  <2>2. AllBits(Zero) = AllBits(num[b]) \cap AllBits(num[c])
    BY <1>1, <1>2, <1>3, ZeroHasNone
  <2>3. Leaves(Assign(a, Zero), a, AllBits(Zero), FALSE)
    BY ZeroHasNone, AssignLeaves
  <2>. QED
    BY <2>1, <2>2, <2>3
<1>4. CASE ~ IsZero(b) /\ ~ IsZero(c)
  <2>. DEFINE s == Limbs(b)
              t == Limbs(c)
              n == Min({Used(b), Used(c)})
              sg == IF 1 \in {num[b].sign, num[c].sign} THEN 1 ELSE -1
              u == [i \in 1 .. n |-> And[s[i]][t[i]]]
  <2>1. zand(a, b, c) = Assign(a, TrimAndSign(sg, u))
    BY <1>4 DEF zand
  <2>2. n \in {Used(b), Used(c)} /\ n \in Nat /\ n <= Len(s) /\ n <= Len(t)
    <3>. DEFINE S == {Used(b), Used(c)}
    <3>1. S \in SUBSET Nat /\ S # {}
      BY <1>1, <1>2
    <3>2. Min(S) \in S /\ Min(S) \in Nat /\ \A y \in S : Min(S) <= y
      <4>. HIDE DEF S
      <4>. QED
        BY <3>1, MinIs
    <3>3. n = Min(S)
      OBVIOUS
    <3>. HIDE DEF n
    <3>. QED
      BY <1>1, <1>2, <3>2, <3>3
  <2>3. sg \in {-1, 1}
    OBVIOUS
  <2>. HIDE DEF n, sg, s, t
  <2>4. s \in Seq(Limb) /\ t \in Seq(Limb)
    BY <1>1, <1>2 DEF s, t
  <2>5. ASSUME NEW i \in 1 .. n
        PROVE  /\ s[i] \in Limb /\ t[i] \in Limb /\ s[i] = At(s, i) /\ t[i] = At(t, i)
               /\ u[i] \in Limb /\ BitsIn[u[i]] = BitsIn[s[i]] \cap BitsIn[t[i]]
    <3>1. i \in 1 .. Len(s) /\ i \in 1 .. Len(t)
      BY <2>2, <2>4
    <3>2. s[i] \in Limb /\ t[i] \in Limb /\ s[i] = At(s, i) /\ t[i] = At(t, i)
      BY <2>4, <3>1, SeqLimb
    <3>3. u[i] = And[s[i]][t[i]]
      OBVIOUS
    <3>. QED
      BY <3>2, <3>3, AndIs
  <2>6. u \in Seq(Limb) /\ Len(u) = n
    <3>1. \A i \in 1 .. n : And[s[i]][t[i]] \in Limb
      BY <2>5
    <3>. QED
      BY <2>2, <3>1
  <2>. HIDE DEF u
  <2>7. ASSUME NEW i \in Nat \ {0}
        PROVE  BitsIn[At(u, i)] = BitsIn[At(s, i)] \cap BitsIn[At(t, i)]
    <3>1. CASE i <= n
      BY <2>2, <2>5, <2>6, <3>1 DEF At
    <3>2. CASE ~ (i <= n)
      <4>1. n = Len(s) \/ n = Len(t)
        BY <1>1, <1>2, <2>2 DEF s, t
      <4>2. At(u, i) = 0 /\ (At(s, i) = 0 \/ At(t, i) = 0)
        BY <2>2, <2>6, <3>2, <4>1 DEF At
      <4>3. BitsIn[0] = {}
        BY LimbInt, LimbSets
      <4>. QED
        BY <4>2, <4>3
    <3>. QED
      BY <3>1, <3>2
  <2>8. Pos(u) = Pos(s) \cap Pos(t)
    BY <2>7, PosAnd
  <2>9. IsNumber(TrimAndSign(sg, u)) /\ AllBits(TrimAndSign(sg, u)) = Pos(u)
    BY <2>3, <2>6, SignedBits
  <2>10. Leaves(Assign(a, TrimAndSign(sg, u)), a, AllBits(TrimAndSign(sg, u)), FALSE)
    BY <2>9, AssignLeaves
  <2>. QED
    BY <1>1, <1>2, <2>1, <2>8, <2>9, <2>10 DEF s, t
<1>. QED
  BY <1>3, <1>4

(* The limbs of the operands combined.                                     *)
LEMMA CombinedIs ==
  ASSUME TypeOK, NEW a \in Reg, NEW b \in Reg, NEW c \in Reg, ~ IsZero(b), ~ IsZero(c),
         NEW Op, \A m, n \in Limb : Op[m][n] \in Limb,
         NEW s, s = Longer(Limbs(b), Limbs(c)), NEW t, t = Shorter(Limbs(b), Limbs(c)),
         NEW u, u = Combined(Op, a, b, c)
  PROVE  /\ u \in Seq(Limb) /\ s \in Seq(Limb) /\ t \in Seq(Limb)
         /\ \A i \in Nat \ {0} :
              \/ i <= Len(t) /\ At(u, i) = Op[At(s, i)][At(t, i)]
              \/ i > Len(t) /\ At(u, i) = At(s, i)
              \/ i <= Len(t) /\ GroupLeftOut(a, b, c) /\ At(u, i) = At(Limbs(a), i)
<1>1. s \in Seq(Limb) /\ t \in Seq(Limb) /\ Len(s) \in Nat /\ Len(t) \in Nat /\ Len(t) <= Len(s)
      /\ s \in {Limbs(b), Limbs(c)} /\ t \in {Limbs(b), Limbs(c)}
  <2>1. Limbs(b) \in Seq(Limb) /\ Limbs(c) \in Seq(Limb)
    BY Registers
  <2>2. s \in {Limbs(b), Limbs(c)} /\ t \in {Limbs(b), Limbs(c)}
    BY DEF Longer, Shorter
  <2>. QED
    BY <2>1, <2>2, Ordered
<1>. DEFINE written == IF a \in {b, c} THEN WrittenInPlace(Len(t)) ELSE 1 .. Len(t)
            f(i) == CASE i \in written -> Op[s[i]][t[i]]
                      [] i > Len(t)    -> s[i]
                      [] OTHER         -> Limbs(a)[i]
<1>2. u = [i \in 1 .. Len(s) |-> f(i)]
  BY DEF Combined
<1>3. written \subseteq 1 .. Len(t)
  BY <1>1, BitsAssumption DEF WrittenInPlace
<1>4. written # 1 .. Len(t) => GroupLeftOut(a, b, c)
  BY DEF GroupLeftOut
<1>5. a \in {b, c} => Len(t) <= Len(Limbs(a)) /\ Limbs(a) \in Seq(Limb)
  <2>1. Limbs(b) \in Seq(Limb) /\ Limbs(c) \in Seq(Limb)
    BY Registers
  <2>2. Len(t) <= Len(Limbs(b)) /\ Len(t) <= Len(Limbs(c))
    BY <2>1 DEF Shorter
  <2>. QED
    BY <2>1, <2>2
<1>6. written # 1 .. Len(t) => a \in {b, c}
  OBVIOUS
<1>. HIDE DEF written
<1>7. ASSUME NEW i \in 1 .. Len(s)
      PROVE  /\ f(i) \in Limb
             /\ \/ i <= Len(t) /\ f(i) = Op[At(s, i)][At(t, i)]
                \/ i > Len(t) /\ f(i) = At(s, i)
                \/ i <= Len(t) /\ GroupLeftOut(a, b, c) /\ f(i) = At(Limbs(a), i)
  <2>0. i \in Nat /\ i >= 1 /\ i <= Len(s) /\ s[i] = At(s, i) /\ s[i] \in Limb
    BY <1>1, SeqLimb
  <2>1. CASE i \in written
    <3>1. f(i) = Op[s[i]][t[i]]
      BY <1>1, <1>3, <2>1
    <3>2. i \in 1 .. Len(t)
      BY <1>3, <2>1
    <3>3. t[i] = At(t, i) /\ t[i] \in Limb
      BY <1>1, <3>2, SeqLimb
    <3>. HIDE DEF f
    <3>. QED
      BY <2>0, <3>1, <3>2, <3>3
  <2>2. CASE i \notin written /\ i > Len(t)
    <3>1. f(i) = s[i]
      BY <2>2
    <3>. HIDE DEF f
    <3>. QED
      BY <2>0, <2>2, <3>1
  <2>3. CASE i \notin written /\ ~ (i > Len(t))
    <3>1. f(i) = Limbs(a)[i]
      BY <2>3
    <3>2. i \in 1 .. Len(t) /\ i <= Len(t)
      BY <1>1, <2>0, <2>3
    <3>3. a \in {b, c} /\ GroupLeftOut(a, b, c)
      BY <1>4, <1>6, <2>3, <3>2
    <3>4. i \in 1 .. Len(Limbs(a))
      BY <1>1, <1>5, <2>0, <3>2, <3>3
    <3>5. Limbs(a)[i] = At(Limbs(a), i) /\ Limbs(a)[i] \in Limb
      BY <1>5, <3>3, <3>4, SeqLimb
    <3>. HIDE DEF f
    <3>. QED
      BY <3>1, <3>2, <3>3, <3>5
  <2>. QED
    BY <2>1, <2>2, <2>3
<1>. HIDE DEF f
<1>8. u \in Seq(Limb) /\ Len(u) = Len(s)
  BY <1>1, <1>2, <1>7
<1>9. ASSUME NEW i \in Nat \ {0}
      PROVE  \/ i <= Len(t) /\ At(u, i) = Op[At(s, i)][At(t, i)]
             \/ i > Len(t) /\ At(u, i) = At(s, i)
             \/ i <= Len(t) /\ GroupLeftOut(a, b, c) /\ At(u, i) = At(Limbs(a), i)
  <2>1. CASE i <= Len(s)
    <3>1. i \in 1 .. Len(s)
      BY <1>1, <2>1
    <3>2. At(u, i) = f(i)
      BY <1>2, <1>8, <2>1, <3>1 DEF At
    <3>. QED
      BY <1>7, <3>1, <3>2
  <2>2. CASE ~ (i <= Len(s))
    <3>1. At(u, i) = 0 /\ At(s, i) = 0 /\ i > Len(t)
      BY <1>1, <1>8, <2>2 DEF At
    <3>. QED
      BY <3>1
  <2>. QED
    BY <2>1, <2>2
<1>. QED
  BY <1>1, <1>8, <1>9

-----------------------------------------------------------------------------
(* Disjunction and exclusive disjunction.                                  *)

LEMMA Operands ==
  ASSUME TypeOK, NEW b \in Reg, NEW c \in Reg,
         NEW s, s = Longer(Limbs(b), Limbs(c)), NEW t, t = Shorter(Limbs(b), Limbs(c))
  PROVE  /\ (s = Limbs(b) /\ t = Limbs(c)) \/ (s = Limbs(c) /\ t = Limbs(b))
         /\ s \in Seq(Limb) /\ t \in Seq(Limb) /\ Len(t) \in Nat
         /\ Pos(s) \cup Pos(t) = AllBits(num[b]) \cup AllBits(num[c])
         /\ Pos(s) \cap Pos(t) = AllBits(num[b]) \cap AllBits(num[c])
<1>1. (s = Limbs(b) /\ t = Limbs(c)) \/ (s = Limbs(c) /\ t = Limbs(b))
  BY DEF Longer, Shorter
<1>2. /\ Limbs(b) \in Seq(Limb) /\ Limbs(c) \in Seq(Limb)
      /\ AllBits(num[b]) = Pos(Limbs(b)) /\ AllBits(num[c]) = Pos(Limbs(c))
  BY Registers, BitsHeld
<1>3. Len(t) \in Nat
  BY <1>1, <1>2, SeqLimb
<1>. QED
  BY <1>1, <1>2, <1>3

LEMMA Disjunction ==
  ASSUME TypeOK, NEW a \in Reg, NEW b \in Reg, NEW c \in Reg
  PROVE  Leaves(zor(a, b, c), a, AllBits(num[b]) \cup AllBits(num[c]), GroupLeftOut(a, b, c))
<1>. DEFINE X == AllBits(num[b]) \cup AllBits(num[c])
            P == GroupLeftOut(a, b, c)
<1>0. /\ IsNumber(num[b]) /\ IsNumber(num[c])
      /\ Limbs(b) \in Seq(Limb) /\ Limbs(c) \in Seq(Limb)
      /\ AllBits(num[b]) = Pos(Limbs(b)) /\ (IsZero(b) <=> Pos(Limbs(b)) = {})
      /\ AllBits(num[c]) = Pos(Limbs(c)) /\ (IsZero(c) <=> Pos(Limbs(c)) = {})
  BY Registers, BitsHeld
<1>1. CASE IsZero(b)
  <2>1. zor(a, b, c) = Assign(a, num[c])
    BY <1>1 DEF zor
  <2>2. AllBits(num[c]) = X
    BY <1>0, <1>1
  <2>3. Leaves(Assign(a, num[c]), a, AllBits(num[c]), FALSE)
    BY <1>0, AssignLeaves
  <2>. QED
    BY <2>1, <2>2, <2>3 DEF Leaves
<1>2. CASE ~ IsZero(b) /\ IsZero(c)
  <2>1. zor(a, b, c) = Assign(a, num[b])
    BY <1>2 DEF zor
  <2>2. AllBits(num[b]) = X
    BY <1>0, <1>2
  <2>3. Leaves(Assign(a, num[b]), a, AllBits(num[b]), FALSE)
    BY <1>0, AssignLeaves
  <2>. QED
    BY <2>1, <2>2, <2>3 DEF Leaves
<1>3. CASE ~ IsZero(b) /\ ~ IsZero(c)
  <2>. DEFINE s == Longer(Limbs(b), Limbs(c))
              t == Shorter(Limbs(b), Limbs(c))
              u == Combined(Or, a, b, c)
              sg == IF {num[b].sign, num[c].sign} = {1} THEN 1 ELSE -1
              n == Number(sg, u)
              x == IF a = c THEN c ELSE b
  <2>1. zor(a, b, c) = Assign(a, n)
    BY <1>3 DEF zor
  <2>2. sg \in {-1, 1} /\ x \in {b, c} /\ (a \in {b, c} => x = a)
    OBVIOUS
  <2>3. \A m, l \in Limb : Or[m][l] \in Limb
    BY OrIs
  <2>4. /\ u \in Seq(Limb)
        /\ \A i \in Nat \ {0} :
              \/ i <= Len(t) /\ At(u, i) = Or[At(s, i)][At(t, i)]
              \/ i > Len(t) /\ At(u, i) = At(s, i)
              \/ i <= Len(t) /\ P /\ At(u, i) = At(Limbs(a), i)
    BY <1>3, <2>3, CombinedIs
  <2>5. /\ (s = Limbs(b) /\ t = Limbs(c)) \/ (s = Limbs(c) /\ t = Limbs(b))
        /\ s \in Seq(Limb) /\ t \in Seq(Limb) /\ Len(t) \in Nat /\ Pos(s) \cup Pos(t) = X
    BY Operands
  <2>6. P => a \in {b, c}
    BY DEF GroupLeftOut
  <2>. HIDE DEF s, t, u, sg, n, x, P, X
  <2>7. ASSUME NEW i \in Nat \ {0}
        PROVE  /\ P \/ BitsIn[At(u, i)] = BitsIn[At(s, i)] \cup BitsIn[At(t, i)]
               /\ BitsIn[At(Limbs(x), i)] \subseteq BitsIn[At(u, i)]
    <3>1. At(s, i) \in Limb /\ At(t, i) \in Limb /\ (i > Len(t) => At(t, i) = 0)
      BY <2>5, SeqLimb
    <3>2. BitsIn[0] = {}
      BY LimbInt, LimbSets
    <3>3. Limbs(x) = s \/ Limbs(x) = t
      BY <2>2, <2>5
    <3>4. CASE At(u, i) = Or[At(s, i)][At(t, i)]
      <4>1. BitsIn[At(u, i)] = BitsIn[At(s, i)] \cup BitsIn[At(t, i)]
        BY <3>1, <3>4, OrIs
      <4>. QED
        BY <3>3, <4>1
    <3>5. CASE i > Len(t) /\ At(u, i) = At(s, i)
      BY <3>1, <3>2, <3>3, <3>5
    <3>6. CASE P /\ At(u, i) = At(Limbs(a), i)
      BY <2>2, <2>6, <3>6
    <3>. QED
      BY <2>4, <3>4, <3>5, <3>6
  <2>8. Pos(Limbs(x)) \subseteq Pos(u)
    BY <2>7, Place DEF Pos
  <2>9. Pos(u) # {}
    BY <1>0, <1>3, <2>2, <2>8
  <2>10. P \/ Pos(u) = X
    <3>1. CASE ~ P
      <4>1. \A i \in Nat \ {0} : BitsIn[At(u, i)] = BitsIn[At(s, i)] \cup BitsIn[At(t, i)]
        BY <2>7, <3>1
      <4>2. Pos(u) = Pos(s) \cup Pos(t)
        BY <4>1, PosOr
      <4>. QED
        BY <2>5, <4>2
    <3>. QED
      BY <3>1
  <2>11. IsNumber(n) /\ AllBits(n) = Pos(u)
    BY <2>2, <2>4, <2>9, SignedBits DEF n
  <2>12. Leaves(Assign(a, n), a, AllBits(n), FALSE)
    BY <2>11, AssignLeaves
  <2>13. Leaves(Assign(a, n), a, X, P)
    BY <2>10, <2>11, <2>12 DEF Leaves
  <2>. QED
    BY <2>1, <2>13 DEF X, P
<1>. QED
  BY <1>1, <1>2, <1>3

LEMMA ExclusiveDisjunction ==
  ASSUME TypeOK, NEW a \in Reg, NEW b \in Reg, NEW c \in Reg
  PROVE  Leaves(zxor(a, b, c), a,
                (AllBits(num[b]) \cup AllBits(num[c])) \ (AllBits(num[b]) \cap AllBits(num[c])),
                GroupLeftOut(a, b, c))
<1>. DEFINE X == (AllBits(num[b]) \cup AllBits(num[c])) \ (AllBits(num[b]) \cap AllBits(num[c]))
            P == GroupLeftOut(a, b, c)
<1>0. /\ IsNumber(num[b]) /\ IsNumber(num[c])
      /\ Limbs(b) \in Seq(Limb) /\ Limbs(c) \in Seq(Limb)
      /\ AllBits(num[b]) = Pos(Limbs(b)) /\ (IsZero(b) <=> Pos(Limbs(b)) = {})
      /\ AllBits(num[c]) = Pos(Limbs(c)) /\ (IsZero(c) <=> Pos(Limbs(c)) = {})
      /\ (~ IsZero(b) => num[b].sign \in {-1, 1}) /\ (~ IsZero(c) => num[c].sign \in {-1, 1})
  BY Registers, BitsHeld
<1>1. CASE IsZero(b)
  <2>1. zxor(a, b, c) = Assign(a, num[c])
    BY <1>1 DEF zxor
  <2>2. AllBits(num[c]) = X
    BY <1>0, <1>1
  <2>3. Leaves(Assign(a, num[c]), a, AllBits(num[c]), FALSE)
    BY <1>0, AssignLeaves
  <2>. QED
    BY <2>1, <2>2, <2>3 DEF Leaves
<1>2. CASE ~ IsZero(b) /\ IsZero(c)
  <2>1. zxor(a, b, c) = Assign(a, num[b])
    BY <1>2 DEF zxor
  <2>2. AllBits(num[b]) = X
    BY <1>0, <1>2
  <2>3. Leaves(Assign(a, num[b]), a, AllBits(num[b]), FALSE)
    BY <1>0, AssignLeaves
  <2>. QED
    BY <2>1, <2>2, <2>3 DEF Leaves
<1>3. CASE ~ IsZero(b) /\ ~ IsZero(c)
  <2>. DEFINE s == Longer(Limbs(b), Limbs(c))
              t == Shorter(Limbs(b), Limbs(c))
              u == Combined(Xor, a, b, c)
              sg == num[b].sign * num[c].sign
              n == TrimAndSign(sg, u)
  <2>1. zxor(a, b, c) = Assign(a, n)
    BY <1>3 DEF zxor
  <2>2. sg \in {-1, 1}
    BY <1>0, <1>3
  <2>3. \A m, l \in Limb : Xor[m][l] \in Limb
    BY XorIs
  <2>4. /\ u \in Seq(Limb)
        /\ \A i \in Nat \ {0} :
              \/ i <= Len(t) /\ At(u, i) = Xor[At(s, i)][At(t, i)]
              \/ i > Len(t) /\ At(u, i) = At(s, i)
              \/ i <= Len(t) /\ P /\ At(u, i) = At(Limbs(a), i)
    BY <1>3, <2>3, CombinedIs
  <2>5. /\ s \in Seq(Limb) /\ t \in Seq(Limb) /\ Len(t) \in Nat
        /\ (Pos(s) \cup Pos(t)) \ (Pos(s) \cap Pos(t)) = X
    BY Operands
  <2>. HIDE DEF s, t, u, sg, P, X
  <2>6. ASSUME NEW i \in Nat \ {0}, ~ P
        PROVE  BitsIn[At(u, i)] = (BitsIn[At(s, i)] \cup BitsIn[At(t, i)])
                                  \ (BitsIn[At(s, i)] \cap BitsIn[At(t, i)])
    <3>1. At(s, i) \in Limb /\ At(t, i) \in Limb /\ (i > Len(t) => At(t, i) = 0)
      BY <2>5, SeqLimb
    <3>2. BitsIn[0] = {}
      BY LimbInt, LimbSets
    <3>3. CASE At(u, i) = Xor[At(s, i)][At(t, i)]
      BY <3>1, <3>3, XorIs
    <3>4. CASE i > Len(t) /\ At(u, i) = At(s, i)
      BY <3>1, <3>2, <3>4
    <3>. QED
      BY <2>4, <2>6, <3>3, <3>4
  <2>7. P \/ Pos(u) = X
    <3>1. CASE ~ P
      <4>1. Pos(u) = (Pos(s) \cup Pos(t)) \ (Pos(s) \cap Pos(t))
        BY <2>6, <3>1, PosXor
      <4>. QED
        BY <2>5, <4>1
    <3>. QED
      BY <3>1
  <2>8. IsNumber(n) /\ AllBits(n) = Pos(u)
    BY <2>2, <2>4, SignedBits
  <2>. HIDE DEF n
  <2>9. Leaves(Assign(a, n), a, AllBits(n), FALSE)
    BY <2>8, AssignLeaves
  <2>10. Leaves(Assign(a, n), a, X, P)
    BY <2>7, <2>8, <2>9 DEF Leaves
  <2>. QED
    BY <2>1, <2>10 DEF X, P
<1>. QED
  BY <1>1, <1>2, <1>3

-----------------------------------------------------------------------------
(* Complement.                                                             *)

LEMMA Complemented ==
  ASSUME NEW x \in Limb
  PROVE  /\ Base - 1 - x \in Limb
         /\ BitsIn[Base - 1 - x] = (0 .. BitsPerChar - 1) \ BitsIn[x]
<1>1. x \in Nat /\ x < Base /\ Base \in Nat
  BY Widths DEF Limb
<1>2. Base - 1 - x \in Limb
  BY <1>1 DEF Limb
<1>3. ASSUME NEW l \in 0 .. BitsPerChar - 1
      PROVE  Bit(Base - 1 - x, l) <=> ~ Bit(x, l)
  <2>. DEFINE p == 2 ^ l
              h == 2 ^ (BitsPerChar - l - 1)
              q == x \div p
              r == x % p
  <2>1. p \in Nat \ {0} /\ h \in Nat /\ p * (2 * h) = Base
    BY LimbOf
  <2>. HIDE DEF p, h
  <2>2. q \in Nat /\ r \in Nat /\ r < p /\ x = q * p + r
    BY <1>1, <2>1, Divided
  <2>. HIDE DEF q, r
  <2>. DEFINE m == 2 * h
              d == m - 1 - q
              e == p - 1 - r
  <2>3. m \in Nat /\ p * m = Base
    BY <2>1
  <2>. HIDE DEF m
  <2>4. q < m
    <3>1. ASSUME q >= m PROVE FALSE
      <4>1. PICK z \in Nat : q = m + z
        <5>1. q - m \in Nat /\ q = m + (q - m)
          BY <2>2, <2>3, <3>1
        <5>. QED
          BY <5>1
      <4>2. q * p = m * p + z * p /\ z * p \in Nat /\ m * p = Base
        BY <2>1, <2>3, <4>1, Products, NatProduct
      <4>. QED
        BY <1>1, <2>2, <4>2
    <3>. QED
      BY <2>2, <2>3, <3>1
  <2>5. d \in Nat /\ e \in Nat /\ e < p
    BY <2>1, <2>2, <2>3, <2>4
  <2>6. Base - 1 - x = d * p + e
    <3>1. d \in Int /\ m \in Int /\ q \in Int /\ p \in Int /\ m - 1 \in Int /\ 1 \in Int
      BY <2>1, <2>2, <2>3
    <3>2. (m - 1) * p = m * p - 1 * p /\ ((m - 1) - q) * p = (m - 1) * p - q * p
      BY <3>1, Products
    <3>3. m * p = Base /\ 1 * p = p /\ d = (m - 1) - q
      BY <2>1, <2>2, <2>3, Products
    <3>. DEFINE y == q * p
                f == (m - 1) * p
                v == d * p
    <3>4. y \in Nat /\ f = Base - p /\ v = f - y /\ x = y + r
      BY <2>1, <2>2, <3>2, <3>3, NatProduct
    <3>. HIDE DEF y, f, v
    <3>5. Base - 1 - x = v + e
      BY <1>1, <2>1, <2>2, <3>4
    <3>. QED
      BY <3>5 DEF v
  <2>. HIDE DEF d, e
  <2>7. (d * p + e) \div p = d
    BY <2>1, <2>5, DividedBy
  <2>8. d % 2 = 1 <=> ~ (q % 2 = 1)
    <3>1. d = 2 * h - 1 - q
      BY DEF d, m
    <3>. QED
      BY <2>1, <2>2, <2>5, <3>1
  <2>. QED
    BY <2>6, <2>7, <2>8 DEF Bit, p, q
<1>. QED
  BY <1>2, <1>3, LimbSets

LEMMA LowestBits ==
  ASSUME NEW x \in Limb, NEW w \in 0 .. BitsPerChar - 1
  PROVE  /\ x % 2 ^ w \in Limb
         /\ BitsIn[x % 2 ^ w] = { l \in BitsIn[x] : l < w }
<1>. DEFINE p == 2 ^ w
            q == x \div p
            r == x % p
<1>1. x \in Nat /\ x < Base /\ Base \in Nat
  BY Widths DEF Limb
<1>2. p \in Nat \ {0} /\ w \in Nat /\ BitsPerChar \in Nat
  BY LimbOf, Widths
<1>. HIDE DEF p
<1>3. q \in Nat /\ r \in Nat /\ r < p /\ x = q * p + r /\ q * p = p * q /\ q * p \in Nat
  <2>1. q \in Nat /\ r \in Nat /\ r < p /\ x = q * p + r
    BY <1>1, <1>2, Divided
  <2>. HIDE DEF q, r
  <2>. QED
    BY <1>2, <2>1, Products, NatProduct
<1>4. r <= x
  <2>. DEFINE y == q * p
  <2>1. y \in Nat /\ x = y + r
    BY <1>3
  <2>. HIDE DEF y, r
  <2>. QED
    BY <1>3, <2>1
<1>. HIDE DEF q, r
<1>5. r \in Limb
  BY <1>1, <1>3, <1>4 DEF Limb
<1>6. x = r + 2 ^ w * q
  BY <1>2, <1>3 DEF p
<1>7. ASSUME NEW l \in 0 .. BitsPerChar - 1 PROVE Bit(r, l) <=> Bit(x, l) /\ l < w
  <2>1. l \in Nat
    BY <1>2
  <2>2. CASE l < w
    BY <1>2, <1>3, <1>6, <2>1, <2>2, BitBelow
  <2>3. CASE ~ (l < w)
    <3>1. w <= l /\ r < 2 ^ w
      BY <1>2, <1>3, <2>1, <2>3 DEF p
    <3>2. ~ Bit(r, l)
      BY <1>2, <1>3, <2>1, <3>1, BitAbove
    <3>. QED
      BY <2>3, <3>2
  <2>. QED
    BY <2>2, <2>3
<1>8. BitsIn[r] = { l \in BitsIn[x] : l < w }
  BY <1>2, <1>5, <1>7, LimbSets
<1>. QED
  BY <1>5, <1>8 DEF r, p

(* The bits below K, which ends in the last of L limbs.                    *)
LEMMA Within ==
  ASSUME NEW B \in Nat \ {0}, NEW L \in Nat, L >= 1, NEW c \in Nat, NEW w \in 0 .. B - 1,
         NEW K \in Nat, K = B * c + w, K <= B * L, K > B * (L - 1),
         NEW j \in Nat, NEW l \in 0 .. B - 1, NEW k \in Nat, k = B * j + l
  PROVE  k < K <=> j + 1 < L \/ (j + 1 = L /\ (w = 0 \/ l < w))
<1>1. ASSUME NEW m \in Nat, NEW n \in Nat, m < n
      PROVE  B * m + B <= B * n
  <2>1. PICK z \in Nat : n = m + 1 + z
    <3>1. n - m - 1 \in Nat /\ n = m + 1 + (n - m - 1)
      BY <1>1
    <3>. QED
      BY <3>1
  <2>2. B * n = B * m + B + B * z
    BY <2>1
  <2>3. B * z \in Nat /\ B * m \in Nat
    BY NatProduct
  <2>. QED
    BY <2>2, <2>3
<1>2. \A m \in Nat : B * m \in Nat
  BY NatProduct
<1>3. L - 1 \in Nat /\ (L - 1) + 1 = L /\ B * (L - 1) + B <= B * L
  BY <1>1
<1>4. \A m, n \in Nat : m < n => B * m + B <= B * n
  BY <1>1
<1>5. w = 0 => c = L
  <2>1. ASSUME w = 0, c < L PROVE FALSE
    <3>1. c = L - 1 \/ c < L - 1
      BY <1>3, <2>1
    <3>2. B * c <= B * (L - 1)
      BY <1>2, <1>3, <1>4, <3>1
    <3>. QED
      BY <1>2, <1>3, <2>1, <3>2
  <2>2. ASSUME w = 0, c > L PROVE FALSE
    BY <1>2, <1>4, <2>2
  <2>. QED
    BY <2>1, <2>2
<1>6. w # 0 => c = L - 1
  <2>1. ASSUME w # 0, c < L - 1 PROVE FALSE
    BY <1>2, <1>3, <1>4, <2>1
  <2>2. ASSUME w # 0, c > L - 1 PROVE FALSE
    <3>1. c = L \/ c > L
      BY <1>3, <2>2
    <3>2. B * c >= B * L
      BY <1>2, <1>4, <3>1
    <3>. QED
      BY <1>2, <2>2, <3>2
  <2>. QED
    BY <1>3, <2>1, <2>2
<1>7. CASE j + 1 < L
  <2>1. B * j + B <= B * (L - 1)
    BY <1>3, <1>4, <1>7
  <2>. QED
    BY <1>2, <1>3, <1>7, <2>1
<1>8. CASE j + 1 = L
  <2>1. j = L - 1
    BY <1>8
  <2>2. CASE w = 0
    BY <1>2, <1>3, <1>5, <1>8, <2>1, <2>2
  <2>3. CASE w # 0
    BY <1>2, <1>3, <1>6, <1>8, <2>1, <2>3
  <2>. QED
    BY <2>2, <2>3
<1>9. CASE j + 1 > L
  <2>1. j = L \/ j > L
    BY <1>9
  <2>2. B * j >= B * L
    BY <1>2, <1>4, <2>1
  <2>. QED
    BY <1>2, <1>9, <2>2
<1>. QED
  BY <1>7, <1>8, <1>9

LEMMA Complementing ==
  ASSUME TypeOK, NEW a \in Reg, NEW b \in Reg
  PROVE  Leaves(znot(a, b), a, (0 .. BitLength(num[b]) - 1) \ AllBits(num[b]), IsZero(b))
<1>0. /\ IsNumber(num[b]) /\ Limbs(b) \in Seq(Limb) /\ Limbs(b) = num[b].limbs
      /\ AllBits(num[b]) = Pos(Limbs(b)) /\ (IsZero(b) <=> Pos(Limbs(b)) = {})
      /\ (IsZero(b) <=> num[b].sign = 0) /\ (~ IsZero(b) => num[b].sign \in {-1, 1})
      /\ Size(b) = Magnitude(Limbs(b)) /\ (IsZero(b) <=> Size(b) = 0)
  BY Registers, BitsHeld
<1>1. CASE IsZero(b)
  <2>1. znot(a, b) = Assign(a, Zero)
    BY <1>1 DEF znot
  <2>2. Leaves(Assign(a, Zero), a, AllBits(Zero), FALSE)
    BY ZeroHasNone, AssignLeaves
  <2>. QED
    BY <1>1, <2>1, <2>2 DEF Leaves
<1>2. CASE ~ IsZero(b)
  <2>. DEFINE s     == TrimTo(Limbs(b), 0)
              L     == Len(s)
              K     == BitLength(num[b])
              width == BitsInLast(K)
              f(i)  == IF i = L /\ width # 0 THEN (Base - 1 - s[i]) % 2 ^ width
                       ELSE Base - 1 - s[i]
              not   == [i \in 1 .. L |-> f(i)]
              sg    == - num[b].sign
              n     == TrimAndSign(sg, not)
              X     == (0 .. K - 1) \ Pos(Limbs(b))
  <2>1. znot(a, b) = { [num EXCEPT ![b] = Trimmed(@), ![a] = n] }
    BY <1>2 DEF znot
  <2>2. sg \in {-1, 1}
    BY <1>0, <1>2
  <2>3. /\ s \in Seq(Limb) /\ L \in Nat /\ L >= 1
        /\ \A i \in Nat \ {0} : At(s, i) = At(Limbs(b), i)
    <3>1. /\ s \in Seq(Limb) /\ L \in Nat /\ (s = <<>> <=> Magnitude(Limbs(b)) = 0)
          /\ (s # <<>> => L > 0)
          /\ \A i \in Nat \ {0} : At(s, i) = At(Limbs(b), i)
      BY <1>0, TrimAll
    <3>. QED
      BY <1>0, <1>2, <3>1
  <2>4. K \in Nat /\ K <= BitsPerChar * L /\ K > BitsPerChar * (L - 1)
    BY <1>0, <1>2, BitLengthIs
  <2>. DEFINE c == CharsIn(K)
  <2>. HIDE DEF K
  <2>5. /\ c \in Nat /\ width \in 0 .. BitsPerChar - 1
        /\ K = BitsPerChar * c + width /\ BitsPerChar \in Nat \ {0}
    BY <2>4, Exponent, Widths
  <2>. HIDE DEF s, width, sg, c
  <2>6. ASSUME NEW i \in 1 .. L
        PROVE  /\ f(i) \in Limb /\ s[i] = At(s, i)
               /\ \A l \in 0 .. BitsPerChar - 1 :
                    l \in BitsIn[f(i)] <=> l \notin BitsIn[s[i]] /\ (i < L \/ width = 0 \/ l < width)
    <3>1. s[i] \in Limb /\ s[i] = At(s, i) /\ i <= L /\ i \in Nat
      BY <2>3, SeqLimb
    <3>. DEFINE x == s[i]
                y == Base - 1 - x
    <3>. HIDE DEF x
    <3>2. y \in Limb /\ BitsIn[y] = (0 .. BitsPerChar - 1) \ BitsIn[x]
      BY <3>1, Complemented DEF x
    <3>. HIDE DEF y
    <3>3. CASE i = L /\ width # 0
      <4>1. f(i) = y % 2 ^ width
        BY <3>3 DEF x, y
      <4>2. y % 2 ^ width \in Limb /\ BitsIn[y % 2 ^ width] = { l \in BitsIn[y] : l < width }
        BY <2>5, <3>2, LowestBits
      <4>3. ~ (i < L)
        BY <3>3, <2>3
      <4>. HIDE DEF f
      <4>. QED
        BY <3>1, <3>2, <3>3, <4>1, <4>2, <4>3 DEF x
    <3>4. CASE ~ (i = L /\ width # 0)
      <4>1. f(i) = y
        BY <3>4 DEF x, y
      <4>2. i < L \/ width = 0
        BY <2>3, <3>1, <3>4
      <4>. HIDE DEF f
      <4>. QED
        BY <3>1, <3>2, <4>1, <4>2 DEF x
    <3>. QED
      BY <3>3, <3>4
  <2>. HIDE DEF f
  <2>7. not \in Seq(Limb) /\ Len(not) = L /\ \A i \in 1 .. L : not[i] = f(i)
    BY <2>3, <2>6
  <2>. HIDE DEF not, L
  <2>8. ASSUME NEW k \in Nat PROVE k \in Pos(not) <=> k \in X
    <3>. DEFINE j == CharsIn(k)
                l == BitsInLast(k)
                i == j + 1
    <3>1. /\ j \in Nat /\ i \in Nat \ {0} /\ i \in Nat /\ l \in 0 .. BitsPerChar - 1
          /\ k = BitsPerChar * j + l
      BY Place, Exponent
    <3>2. /\ k \in Pos(not) <=> l \in BitsIn[At(not, i)]
          /\ k \in Pos(Limbs(b)) <=> l \in BitsIn[At(Limbs(b), i)]
      BY DEF Pos
    <3>3. At(Limbs(b), i) = At(s, i)
      BY <2>3, <3>1
    <3>. HIDE DEF j, l
    <3>4. k < K <=> j + 1 < L \/ (j + 1 = L /\ (width = 0 \/ l < width))
      BY <2>3, <2>4, <2>5, <3>1, Within
    <3>. DEFINE P == k < K
    <3>. HIDE DEF P
    <3>5. P <=> i < L \/ (i = L /\ (width = 0 \/ l < width))
      BY <3>4 DEF P
    <3>6. k \in X <=> P /\ k \notin Pos(Limbs(b))
      BY <2>4 DEF P
    <3>. HIDE DEF i, X
    <3>7. CASE i <= L
      <4>1. i \in 1 .. L
        BY <2>3, <3>1, <3>7
      <4>2. At(not, i) = f(i) /\ s[i] = At(s, i)
        BY <2>6, <2>7, <3>7, <4>1 DEF At
      <4>3. l \in BitsIn[f(i)] <=> l \notin BitsIn[s[i]] /\ (i < L \/ width = 0 \/ l < width)
        BY <2>6, <3>1, <4>1
      <4>4. i < L \/ i = L
        BY <2>3, <3>1, <3>7
      <4>. QED
        BY <3>2, <3>3, <3>5, <3>6, <4>2, <4>3, <4>4
    <3>8. CASE ~ (i <= L)
      <4>1. At(not, i) = 0 /\ ~ (i < L) /\ i # L
        BY <2>3, <2>7, <3>1, <3>8 DEF At
      <4>2. BitsIn[0] = {}
        BY LimbInt, LimbSets
      <4>. QED
        BY <3>2, <3>5, <3>6, <4>1, <4>2
    <3>. QED
      BY <3>7, <3>8
  <2>9. Pos(not) = X
    <3>1. Pos(not) \subseteq Nat /\ X \subseteq Nat
      BY <2>4 DEF Pos
    <3>. HIDE DEF X
    <3>. QED
      BY <2>8, <3>1
  <2>10. IsNumber(n) /\ AllBits(n) = Pos(not)
    BY <2>2, <2>7, SignedBits
  <2>. HIDE DEF n
  <2>11. /\ Gives({ [num EXCEPT ![b] = Trimmed(@), ![a] = n] }, a, Value(n), FALSE)
         /\ \A r \in { [num EXCEPT ![b] = Trimmed(@), ![a] = n] } : r[a] = n
    BY <2>10, TrimThenPut
  <2>12. \A r \in znot(a, b) : Sound(r) /\ r[a] = n
    BY <2>1, <2>11 DEF Gives
  <2>. QED
    BY <1>0, <2>9, <2>10, <2>12 DEF Leaves, K
<1>. QED
  BY <1>1, <1>2

-----------------------------------------------------------------------------
(* One bit set, cleared or flipped.                                        *)

LEMMA OneBit ==
  ASSUME NEW n \in Nat, NEW s, NEW v, NEW c, c = CharsIn(n) + 1, NEW l, l = BitsInLast(n),
         \A i \in Nat \ {0} : i # c => At(v, i) = At(s, i),
         BitsIn[At(v, c)] \ {l} = BitsIn[At(s, c)] \ {l}
  PROVE  /\ Pos(v) \ {n} = Pos(s) \ {n}
         /\ n \in Pos(v) <=> l \in BitsIn[At(v, c)]
         /\ n \in Pos(s) <=> l \in BitsIn[At(s, c)]
<1>1. ASSUME NEW k \in Nat, k # n PROVE k \in Pos(v) <=> k \in Pos(s)
  <2>1. CharsIn(k) + 1 \in Nat \ {0}
    BY Place
  <2>2. CASE CharsIn(k) + 1 = c
    <3>1. CharsIn(k) = CharsIn(n)
      <4>1. CharsIn(k) \in Nat /\ CharsIn(n) \in Nat
        BY Place
      <4>. QED
        BY <2>2, <4>1
    <3>2. BitsInLast(k) # l
      <4>1. /\ n = BitsPerChar * CharsIn(n) + BitsInLast(n)
            /\ k = BitsPerChar * CharsIn(k) + BitsInLast(k)
        BY Exponent
      <4>. QED
        BY <1>1, <3>1, <4>1
    <3>. QED
      BY <2>2, <3>2 DEF Pos
  <2>3. CASE CharsIn(k) + 1 # c
    BY <2>1, <2>3 DEF Pos
  <2>. QED
    BY <2>2, <2>3
<1>2. Pos(v) \subseteq Nat /\ Pos(s) \subseteq Nat
  BY DEF Pos
<1>3. Pos(v) \ {n} = Pos(s) \ {n}
  BY <1>1, <1>2
<1>4. /\ n \in Pos(v) <=> l \in BitsIn[At(v, c)]
      /\ n \in Pos(s) <=> l \in BitsIn[At(s, c)]
  BY DEF Pos
<1>. QED
  BY <1>3, <1>4

LEMMA LengthenedIs ==
  ASSUME NEW n, IsNumber(n), NEW c \in Nat \ {0}, NEW m, m = Lengthened(n, c)
  PROVE  /\ m.limbs \in Seq(Limb) /\ c \in 1 .. Len(m.limbs) /\ Len(m.limbs) \in Nat
         /\ m.sign \in {-1, 1} /\ (n.sign # 0 => m.sign = n.sign)
         /\ \A i \in Nat \ {0} : At(m.limbs, i) = At(n.limbs, i)
<1>. DEFINE s == IF n.sign = 0 THEN <<>> ELSE n.limbs
            d == c - Len(s)
            z == Zeros(d)
<1>1. n.sign \in {-1, 0, 1} /\ n.limbs \in Seq(Limb) /\ (n.sign = 0 => Magnitude(n.limbs) = 0)
  BY NumberOf
<1>2. /\ m.limbs = s \o z /\ m.sign \in {-1, 1} /\ (n.sign # 0 => m.sign = n.sign)
  BY <1>1 DEF Lengthened, Number
<1>3. s \in Seq(Limb) /\ Len(s) \in Nat /\ d \in Int
  <2>1. s \in Seq(Limb)
    BY <1>1
  <2>. HIDE DEF s
  <2>. QED
    BY <2>1
<1>4. ASSUME NEW i \in Nat \ {0} PROVE At(s, i) = At(n.limbs, i)
  <2>1. CASE n.sign = 0
    <3>1. At(n.limbs, i) = 0
      BY <1>1, <2>1, MagnitudeZero
    <3>2. s = <<>> /\ Len(<<>>) = 0
      BY <2>1
    <3>. QED
      BY <3>1, <3>2 DEF At
  <2>2. CASE n.sign # 0
    BY <2>2
  <2>. QED
    BY <2>1, <2>2
<1>. HIDE DEF s, d
<1>5. /\ z \in Seq(Limb) /\ Len(z) \in Nat /\ (d >= 0 => Len(z) = d) /\ (d < 0 => Len(z) = 0)
      /\ \A i \in 1 .. Len(z) : z[i] = 0
  <2>1. 0 \in Limb
    BY LimbInt
  <2>2. CASE d >= 0
    <3>1. d \in Nat
      BY <1>3, <2>2
    <3>. QED
      BY <2>1, <3>1 DEF Zeros
  <2>3. CASE d < 0
    <3>1. 1 .. d = 1 .. 0
      BY <1>3, <2>3
    <3>2. z = [i \in 1 .. 0 |-> 0]
      BY <3>1 DEF Zeros
    <3>. HIDE DEF z
    <3>3. z \in Seq(Limb) /\ Len(z) = 0 /\ 1 .. 0 = {}
      BY <2>1, <3>2
    <3>. QED
      BY <1>3, <2>3, <3>3
  <2>4. d >= 0 \/ d < 0
    BY <1>3
  <2>. HIDE DEF z
  <2>. QED
    BY <2>2, <2>3, <2>4
<1>. HIDE DEF z
<1>6. Len(s) + Len(z) >= c /\ Len(s) + Len(z) \in Nat
  BY <1>3, <1>5 DEF d
<1>7. /\ s \o z \in Seq(Limb) /\ Len(s \o z) = Len(s) + Len(z)
      /\ \A i \in 1 .. Len(s) : (s \o z)[i] = s[i]
      /\ \A i \in 1 .. Len(s) + Len(z) : i > Len(s) => (s \o z)[i] = z[i - Len(s)]
  BY <1>3, <1>5
<1>8. ASSUME NEW i \in Nat \ {0} PROVE At(s \o z, i) = At(s, i)
  <2>1. CASE i <= Len(s)
    <3>1. i <= Len(s) + Len(z) /\ i \in 1 .. Len(s)
      BY <1>3, <1>5, <2>1
    <3>. QED
      BY <1>7, <2>1, <3>1 DEF At
  <2>2. CASE i > Len(s) /\ i <= Len(s) + Len(z)
    <3>1. i - Len(s) \in 1 .. Len(z) /\ i \in 1 .. Len(s) + Len(z) /\ ~ (i <= Len(s))
      BY <1>3, <1>5, <2>2
    <3>2. (s \o z)[i] = 0
      BY <1>5, <1>7, <2>2, <3>1
    <3>. QED
      BY <1>7, <2>2, <3>1, <3>2 DEF At
  <2>3. CASE i > Len(s) + Len(z)
    <3>1. ~ (i <= Len(s)) /\ ~ (i <= Len(s) + Len(z))
      BY <1>3, <1>5, <2>3
    <3>. QED
      BY <1>7, <3>1 DEF At
  <2>. QED
    BY <1>3, <1>5, <2>1, <2>2, <2>3
<1>9. c \in 1 .. Len(m.limbs) /\ Len(m.limbs) \in Nat
  BY <1>2, <1>6, <1>7
<1>. QED
  BY <1>2, <1>4, <1>7, <1>8, <1>9

LEMMA WithBitIs ==
  ASSUME NEW n, IsNumber(n), NEW k \in Nat, NEW Op, \A x, y \in Limb : Op[x][y] \in Limb,
         NEW c, c = CharsIn(k) + 1, NEW m, m = WithBit(n, k, Op)
  PROVE  /\ m = Number(m.sign, m.limbs) /\ m.limbs \in Seq(Limb)
         /\ m.sign \in {-1, 1} /\ (n.sign # 0 => m.sign = n.sign)
         /\ \A i \in Nat \ {0} : i # c => At(m.limbs, i) = At(n.limbs, i)
         /\ At(n.limbs, c) \in Limb /\ At(m.limbs, c) = Op[At(n.limbs, c)][2 ^ BitsInLast(k)]
<1>. DEFINE g == Lengthened(n, c)
            s == g.limbs
            y == 2 ^ BitsInLast(k)
            t == [s EXCEPT ![c] = Op[s[c]][y]]
<1>1. c \in Nat \ {0} /\ c \in Nat /\ y \in Limb
  BY Place, PowerBits
<1>2. m = Number(g.sign, t)
  BY DEF WithBit
<1>. HIDE DEF g, y
<1>3. /\ s \in Seq(Limb) /\ c \in 1 .. Len(s) /\ Len(s) \in Nat
      /\ g.sign \in {-1, 1} /\ (n.sign # 0 => g.sign = n.sign)
      /\ \A i \in Nat \ {0} : At(s, i) = At(n.limbs, i)
  BY <1>1, LengthenedIs DEF g
<1>. HIDE DEF s
<1>4. s[c] = At(s, c) /\ s[c] \in Limb /\ At(n.limbs, c) = s[c]
  BY <1>1, <1>3, SeqLimb
<1>5. Op[s[c]][y] \in Limb
  BY <1>1, <1>4
<1>6. /\ t \in Seq(Limb) /\ Len(t) = Len(s) /\ t[c] = Op[s[c]][y]
      /\ \A i \in 1 .. Len(s) : i # c => t[i] = s[i]
  BY <1>3, <1>5
<1>. HIDE DEF t
<1>7. At(t, c) = Op[s[c]][y]
  BY <1>1, <1>3, <1>6 DEF At
<1>8. ASSUME NEW i \in Nat \ {0}, i # c PROVE At(t, i) = At(s, i)
  <2>1. CASE i <= Len(s)
    <3>1. i \in 1 .. Len(s)
      BY <1>3, <2>1
    <3>. QED
      BY <1>6, <1>8, <2>1, <3>1 DEF At
  <2>2. CASE ~ (i <= Len(s))
    BY <1>6, <2>2 DEF At
  <2>. QED
    BY <2>1, <2>2
<1>9. m.sign = g.sign /\ m.limbs = t
  BY <1>2 DEF Number
<1>. QED
  BY <1>2, <1>3, <1>4, <1>6, <1>7, <1>8, <1>9 DEF y

LEMMA SetsBit ==
  ASSUME TypeOK, NEW a \in Reg, NEW b \in Reg, NEW n \in Nat
  PROVE  Leaves(zbset(a, b, n, "set"), a, AllBits(num[b]) \cup {n}, FALSE)
<1>. DEFINE c == CharsIn(n) + 1
            l == BitsInLast(n)
            s == num[b].limbs
            m == WithBit(num[b], n, Or)
            v == m.limbs
            y == 2 ^ l
<1>1. IsNumber(num[b]) /\ AllBits(num[b]) = Pos(s) /\ \A x, z \in Limb : Or[x][z] \in Limb
  BY Registers, BitsHeld, OrIs
<1>2. /\ m = Number(m.sign, v) /\ v \in Seq(Limb) /\ m.sign \in {-1, 1}
      /\ \A i \in Nat \ {0} : i # c => At(v, i) = At(s, i)
      /\ At(s, c) \in Limb /\ At(v, c) = Or[At(s, c)][y]
  BY <1>1, WithBitIs
<1>3. y \in Limb /\ BitsIn[y] = {l}
  BY Place, PowerBits
<1>4. zbset(a, b, n, "set") = Assign(a, m)
  BY DEF zbset
<1>. HIDE DEF c, l, s, m, y
<1>5. BitsIn[At(v, c)] = BitsIn[At(s, c)] \cup {l}
  BY <1>2, <1>3, OrIs
<1>. HIDE DEF v
<1>6. BitsIn[At(v, c)] \ {l} = BitsIn[At(s, c)] \ {l} /\ l \in BitsIn[At(v, c)]
  BY <1>5
<1>7. /\ Pos(v) \ {n} = Pos(s) \ {n} /\ (n \in Pos(v) <=> l \in BitsIn[At(v, c)])
  BY <1>2, <1>6, OneBit DEF c, l
<1>8. Pos(v) = Pos(s) \cup {n} /\ Pos(v) # {}
  BY <1>6, <1>7
<1>9. IsNumber(m) /\ AllBits(m) = Pos(v)
  BY <1>2, <1>8, SignedBits
<1>10. Leaves(Assign(a, m), a, AllBits(m), FALSE)
  BY <1>9, AssignLeaves
<1>. QED
  BY <1>1, <1>4, <1>8, <1>9, <1>10

LEMMA FlipsBit ==
  ASSUME TypeOK, NEW a \in Reg, NEW b \in Reg, NEW n \in Nat
  PROVE  Leaves(zbset(a, b, n, "flip"), a,
                (AllBits(num[b]) \cup {n}) \ (AllBits(num[b]) \cap {n}), FALSE)
<1>. DEFINE c == CharsIn(n) + 1
            l == BitsInLast(n)
            s == num[b].limbs
            m == WithBit(num[b], n, Xor)
            v == m.limbs
            y == 2 ^ l
            q == TrimAndSign(m.sign, v)
<1>1. IsNumber(num[b]) /\ AllBits(num[b]) = Pos(s) /\ \A x, z \in Limb : Xor[x][z] \in Limb
  BY Registers, BitsHeld, XorIs
<1>2. /\ v \in Seq(Limb) /\ m.sign \in {-1, 1}
      /\ \A i \in Nat \ {0} : i # c => At(v, i) = At(s, i)
      /\ At(s, c) \in Limb /\ At(v, c) = Xor[At(s, c)][y]
  BY <1>1, WithBitIs
<1>3. y \in Limb /\ BitsIn[y] = {l}
  BY Place, PowerBits
<1>4. zbset(a, b, n, "flip") = Assign(a, q)
  BY DEF zbset
<1>. HIDE DEF c, l, s, m, y
<1>5. BitsIn[At(v, c)] = (BitsIn[At(s, c)] \cup {l}) \ (BitsIn[At(s, c)] \cap {l})
  BY <1>2, <1>3, XorIs
<1>. HIDE DEF v
<1>6. /\ BitsIn[At(v, c)] \ {l} = BitsIn[At(s, c)] \ {l}
      /\ l \in BitsIn[At(v, c)] <=> l \notin BitsIn[At(s, c)]
  BY <1>5
<1>7. /\ Pos(v) \ {n} = Pos(s) \ {n} /\ (n \in Pos(v) <=> l \in BitsIn[At(v, c)])
      /\ (n \in Pos(s) <=> l \in BitsIn[At(s, c)])
  BY <1>2, <1>6, OneBit DEF c, l
<1>8. Pos(v) = (Pos(s) \cup {n}) \ (Pos(s) \cap {n})
  BY <1>6, <1>7
<1>9. IsNumber(q) /\ AllBits(q) = Pos(v)
  BY <1>2, SignedBits
<1>. HIDE DEF q
<1>10. Leaves(Assign(a, q), a, AllBits(q), FALSE)
  BY <1>9, AssignLeaves
<1>. QED
  BY <1>1, <1>4, <1>8, <1>9, <1>10

LEMMA ClearsBit ==
  ASSUME TypeOK, NEW a \in Reg, NEW b \in Reg, NEW n \in Nat
  PROVE  Leaves(zbset(a, b, n, "clear"), a, AllBits(num[b]) \ {n}, FALSE)
<1>. DEFINE c == CharsIn(n) + 1
            l == BitsInLast(n)
            s == num[b].limbs
            m == WithBit(num[b], n, AndNot)
            v == m.limbs
            y == 2 ^ l
            q == TrimAndSign(num[b].sign, v)
<1>1. /\ IsNumber(num[b]) /\ AllBits(num[b]) = Pos(s) /\ s \in Seq(Limb) /\ Used(b) = Len(s)
      /\ Used(b) \in Nat /\ (IsZero(b) <=> Pos(s) = {}) /\ (~ IsZero(b) => num[b].sign \in {-1, 1})
  BY Registers, BitsHeld
<1>2. CASE IsZero(b) \/ CharsIn(n) >= Used(b)
  <2>1. zbset(a, b, n, "clear") = Assign(a, num[b])
    BY <1>2 DEF zbset
  <2>2. n \notin Pos(s)
    <3>1. CASE IsZero(b)
      BY <1>1, <3>1
    <3>2. CASE CharsIn(n) >= Used(b)
      <4>0. CharsIn(n) \in Nat
        BY Place
      <4>. HIDE DEF s
      <4>1. ~ (CharsIn(n) + 1 <= Len(s))
        BY <1>1, <3>2, <4>0
      <4>. USE DEF s
      <4>3. At(s, CharsIn(n) + 1) = 0
        BY <4>1 DEF At
      <4>2. BitsIn[0] = {}
        BY LimbInt, LimbSets
      <4>. QED
        BY <4>3, <4>2 DEF Pos
    <3>. QED
      BY <1>2, <3>1, <3>2
  <2>3. Leaves(Assign(a, num[b]), a, AllBits(num[b]), FALSE)
    BY <1>1, AssignLeaves
  <2>. QED
    BY <1>1, <2>1, <2>2, <2>3 DEF Leaves
<1>3. CASE ~ (IsZero(b) \/ CharsIn(n) >= Used(b))
  <2>1. zbset(a, b, n, "clear") = Assign(a, q)
    BY <1>3 DEF zbset
  <2>2. \A x, z \in Limb : AndNot[x][z] \in Limb
    BY AndNotIs
  <2>3. /\ v \in Seq(Limb)
        /\ \A i \in Nat \ {0} : i # c => At(v, i) = At(s, i)
        /\ At(s, c) \in Limb /\ At(v, c) = AndNot[At(s, c)][y]
    BY <1>1, <2>2, WithBitIs
  <2>4. y \in Limb /\ BitsIn[y] = {l}
    BY Place, PowerBits
  <2>. HIDE DEF c, l, s, m, y
  <2>5. BitsIn[At(v, c)] = BitsIn[At(s, c)] \ {l}
    BY <2>3, <2>4, AndNotIs
  <2>. HIDE DEF v
  <2>6. BitsIn[At(v, c)] \ {l} = BitsIn[At(s, c)] \ {l} /\ l \notin BitsIn[At(v, c)]
    BY <2>5
  <2>7. /\ Pos(v) \ {n} = Pos(s) \ {n} /\ (n \in Pos(v) <=> l \in BitsIn[At(v, c)])
    BY <2>3, <2>6, OneBit DEF c, l
  <2>8. Pos(v) = Pos(s) \ {n}
    BY <2>6, <2>7
  <2>9. IsNumber(q) /\ AllBits(q) = Pos(v)
    BY <1>1, <1>3, <2>3, SignedBits
  <2>. HIDE DEF q
  <2>10. Leaves(Assign(a, q), a, AllBits(q), FALSE)
    BY <2>9, AssignLeaves
  <2>. QED
    BY <1>1, <2>1, <2>8, <2>9, <2>10
<1>. QED
  BY <1>2, <1>3

(* The results of the bitwise functions, as BitsRight states them.         *)
LEMMA BitsAreRight == TypeOK => BitsRight
<1>. SUFFICES ASSUME TypeOK, NEW a \in Reg, NEW b \in Kept
     PROVE  LET B == AllBits(num[b])
            IN  /\ \A c \in Kept :
                     /\ \A r \in zand(a, b, c) : AllBits(r[a]) = B \cap AllBits(num[c])
                     /\ GroupLeftOut(a, b, c) \/ Joined(a, b, c)
                /\ \A r \in znot(a, b) :
                     AllBits(r[a]) = (0 .. BitLength(num[b]) - 1) \ B \/ IsZero(b)
                /\ \A n \in Counts :
                     /\ \A r \in zbset(a, b, n, "set")   : AllBits(r[a]) = B \cup {n}
                     /\ \A r \in zbset(a, b, n, "clear") : AllBits(r[a]) = B \ {n}
                     /\ \A r \in zbset(a, b, n, "flip")  :
                          AllBits(r[a]) = (B \cup {n}) \ (B \cap {n})
  BY DEF BitsRight
<1>. DEFINE B == AllBits(num[b])
<1>0. b \in Reg /\ Counts \subseteq Nat
  BY RegAssumption, BitsAssumption
<1>1. ASSUME NEW c \in Kept
      PROVE  /\ \A r \in zand(a, b, c) : AllBits(r[a]) = B \cap AllBits(num[c])
             /\ GroupLeftOut(a, b, c) \/ Joined(a, b, c)
  <2>1. c \in Reg
    BY RegAssumption
  <2>2. Leaves(zand(a, b, c), a, B \cap AllBits(num[c]), FALSE)
    BY <1>0, <2>1, Conjunction
  <2>3. Leaves(zor(a, b, c), a, B \cup AllBits(num[c]), GroupLeftOut(a, b, c))
    BY <1>0, <2>1, Disjunction
  <2>4. Leaves(zxor(a, b, c), a, (B \cup AllBits(num[c])) \ (B \cap AllBits(num[c])),
               GroupLeftOut(a, b, c))
    BY <1>0, <2>1, ExclusiveDisjunction
  <2>. QED
    BY <2>2, <2>3, <2>4 DEF Leaves, Joined
<1>2. \A r \in znot(a, b) : AllBits(r[a]) = (0 .. BitLength(num[b]) - 1) \ B \/ IsZero(b)
  BY <1>0, Complementing DEF Leaves
<1>3. ASSUME NEW n \in Counts
      PROVE  /\ \A r \in zbset(a, b, n, "set")   : AllBits(r[a]) = B \cup {n}
             /\ \A r \in zbset(a, b, n, "clear") : AllBits(r[a]) = B \ {n}
             /\ \A r \in zbset(a, b, n, "flip")  :
                  AllBits(r[a]) = (B \cup {n}) \ (B \cap {n})
  <2>1. n \in Nat
    BY <1>0
  <2>. QED
    BY <1>0, <2>1, SetsBit, ClearsBit, FlipsBit DEF Leaves
<1>. QED
  BY <1>1, <1>2, <1>3

-----------------------------------------------------------------------------
(* The program.                                                            *)

LEMMA TypesStart == Init => TypeOK
<1>. SUFFICES ASSUME Init PROVE Sound(num)
  BY TypesAreSound
<1>1. num = [r \in Reg |-> Zero] /\ IsNumber(Zero)
  BY ZeroIs DEF Init
<1>. QED
  BY <1>1 DEF Sound, IsNumber

LEMMA StepIsSound ==
  ASSUME NEW S, \A r \in S : Sound(r), Step(S)
  PROVE  TypeOK'
<1>1. PICK r \in S : num' = r
  BY DEF Step
<1>2. Sound(num')
  BY <1>1
<1>. QED
  BY <1>2 DEF TypeOK, Sound, IsNumber, Signed

LEMMA SmallNumber ==
  ASSUME NEW v \in Limb \ {0}, NEW sg \in {-1, 1}
  PROVE  IsNumber(Number(sg, <<v>>))
<1>1. <<v>> \in Seq(Limb) /\ 1 \in 1 .. Len(<<v>>) /\ <<v>>[1] # 0
  OBVIOUS
<1>. DEFINE s == <<v>>
<1>. HIDE DEF s
<1>2. s \in Seq(Limb) /\ Magnitude(s) # 0
  <2>1. s \in Seq(Limb) /\ 1 \in 1 .. Len(s) /\ s[1] # 0
    BY <1>1 DEF s
  <2>. QED
    BY <2>1, MagnitudeZero
<1>3. IsNumber(Number(sg, s))
  BY <1>2, NumberIs
<1>. QED
  BY <1>3 DEF s

LEMMA TypesStay ==
  ASSUME TypeOK, [Next]_vars
  PROVE  TypeOK'
<1>0. Kept \subseteq Reg /\ Counts \subseteq Nat
  BY RegAssumption, BitsAssumption
<1>1. ASSUME NEW a \in Reg, NEW n, IsNumber(n), Step(Assign(a, n))
      PROVE  TypeOK'
  <2>1. \A r \in Assign(a, n) : Sound(r)
    BY <1>1, AssignGives DEF Gives
  <2>. QED
    BY <1>1, <2>1, StepIsSound
<1>2. ASSUME NEW S, NEW a, NEW v, NEW P, Gives(S, a, v, P), Step(S)
      PROVE  TypeOK'
  BY <1>2, StepIsSound DEF Gives
<1>3. ASSUME NEW S, NEW a, NEW X, NEW P, Leaves(S, a, X, P), Step(S)
      PROVE  TypeOK'
  BY <1>3, StepIsSound DEF Leaves
<1>4. ASSUME NEW a \in Kept, Setu(a) PROVE TypeOK'
  <2>1. PICK v \in Limb : Step(Assign(a, IF v = 0 THEN Zero ELSE Number(1, <<v>>)))
    BY <1>4 DEF Setu
  <2>2. CASE v = 0
    <3>1. Step(Assign(a, Zero))
      BY <2>1, <2>2
    <3>. QED
      BY <1>0, <1>1, <3>1, ZeroIs
  <2>3. CASE v # 0
    <3>1. Step(Assign(a, Number(1, <<v>>)))
      BY <2>1, <2>3
    <3>2. IsNumber(Number(1, <<v>>))
      BY <2>3, SmallNumber
    <3>. QED
      BY <1>0, <1>1, <3>1, <3>2
  <2>. QED
    BY <2>2, <2>3
<1>5. ASSUME NEW a \in Kept, Seti(a) PROVE TypeOK'
  <2>1. PICK v \in Limb \ {0} : Step(Assign(a, Number(-1, <<v>>)))
    BY <1>5 DEF Seti
  <2>2. IsNumber(Number(-1, <<v>>))
    BY SmallNumber
  <2>. QED
    BY <1>0, <1>1, <2>1, <2>2
<1>6. ASSUME NEW a \in Kept, CountBits(a) PROVE TypeOK'
  <2>1. Step(Assign(a, Trimmed(num[a]))) /\ IsNumber(Trimmed(num[a])) /\ a \in Reg
    BY <1>0, <1>6, Registers, TrimmedIs DEF CountBits
  <2>. QED
    BY <1>1, <2>1
<1>7. ASSUME NEW a \in Kept, NEW b \in Kept, Swap(a, b) PROVE TypeOK'
  <2>. DEFINE r == [num EXCEPT ![a] = num[b], ![b] = num[a]]
  <2>1. num \in [Reg -> Signed] /\ a \in Reg /\ b \in Reg /\ \A x \in Reg : IsNumber(num[x])
    BY <1>0, TypesAreSound DEF Sound
  <2>2. r \in [Reg -> Signed] /\ \A x \in Reg : r[x] \in {num[x], num[a], num[b]}
    BY <2>1
  <2>. HIDE DEF r
  <2>3. \A x \in Reg : IsNumber(r[x])
    BY <2>1, <2>2
  <2>4. \A q \in {r} : Sound(q)
    BY <2>2, <2>3 DEF Sound
  <2>5. Step({r})
    BY <1>7 DEF Swap, r
  <2>. QED
    BY <2>4, <2>5, StepIsSound
<1>8. ASSUME NEW a \in Kept, NEW b \in Kept, Negate(a, b) PROVE TypeOK'
  <2>1. Step(Assign(a, Neg(num[b]))) /\ IsNumber(Neg(num[b])) /\ a \in Reg
    BY <1>0, <1>8, Registers, NegIs DEF Negate
  <2>. QED
    BY <1>1, <2>1
<1>9. ASSUME NEW a \in Kept, NEW b \in Kept, Absolute(a, b) PROVE TypeOK'
  <2>1. Step(Assign(a, Abs(num[b]))) /\ IsNumber(Abs(num[b])) /\ a \in Reg
    BY <1>0, <1>9, Registers, AbsIs DEF Absolute
  <2>. QED
    BY <1>1, <2>1
<1>10. ASSUME NEW a \in Kept, NEW b \in Kept, Compare(a, b) PROVE TypeOK'
  <2>1. \A r \in { Compared(a, b) } : Sound(r)
    BY <1>0, ComparedLimbs DEF Keeps
  <2>. QED
    BY <1>10, <2>1, StepIsSound DEF Compare
<1>11. ASSUME NEW a \in Kept, NEW b \in Kept, AddTo(a, b) PROVE TypeOK'
  BY <1>0, <1>2, <1>11, SumsInPlace DEF AddTo
<1>12. ASSUME NEW a \in Kept, NEW b \in Kept, SubtractFrom(a, b) PROVE TypeOK'
  <2>1. CASE AtMost(b, a) /\ Step(zsub_nonnegative_assign(a, b))
    BY <1>0, <1>2, <2>1, DifferenceInPlace
  <2>2. CASE LessThan(b, a) /\ Step(zsub_positive_assign(a, b))
    BY <1>0, <1>2, <2>2, DifferenceOfCompared
  <2>. QED
    BY <1>12, <2>1, <2>2 DEF SubtractFrom
<1>13. ASSUME NEW a \in Kept, NEW b \in Kept, Shift(a, b) PROVE TypeOK'
  <2>1. PICK n \in Counts : Step(zlsh(a, b, n)) \/ Step(zrsh(a, b, n))
    BY <1>13 DEF Shift
  <2>2. a \in Reg /\ b \in Reg /\ n \in Nat
    BY <1>0
  <2>. QED
    BY <1>2, <2>1, <2>2, ShiftLeft, ShiftRight
<1>14. ASSUME NEW a \in Kept, NEW b \in Kept, Truncate(a, b) PROVE TypeOK'
  <2>1. PICK n \in Counts : Step(ztrunc(a, b, n))
    BY <1>14 DEF Truncate
  <2>2. a \in Reg /\ b \in Reg /\ n \in Nat
    BY <1>0
  <2>. QED
    BY <1>2, <2>1, <2>2, Truncation
<1>15. ASSUME NEW a \in Kept, NEW b \in Kept, SetBit(a, b) PROVE TypeOK'
  <2>1. PICK n \in Counts, action \in {"set", "clear", "flip"} : Step(zbset(a, b, n, action))
    BY <1>15 DEF SetBit
  <2>2. a \in Reg /\ b \in Reg /\ n \in Nat
    BY <1>0
  <2>3. CASE action = "set"
    BY <1>3, <2>1, <2>2, <2>3, SetsBit
  <2>4. CASE action = "clear"
    BY <1>3, <2>1, <2>2, <2>4, ClearsBit
  <2>5. CASE action = "flip"
    BY <1>3, <2>1, <2>2, <2>5, FlipsBit
  <2>. QED
    BY <2>3, <2>4, <2>5
<1>16. ASSUME NEW a \in Kept, NEW b \in Kept, Complement(a, b) PROVE TypeOK'
  BY <1>0, <1>3, <1>16, Complementing DEF Complement
<1>17. ASSUME NEW a \in Kept, NEW b \in Kept, NEW c \in Kept, Add(a, b, c) PROVE TypeOK'
  <2>1. a \in Reg /\ b \in Reg /\ c \in Reg
    BY <1>0
  <2>. QED
    BY <1>2, <1>17, <2>1, SignedSums, UnsignedSums DEF Add
<1>18. ASSUME NEW a \in Kept, NEW b \in Kept, NEW c \in Kept, Subtract(a, b, c) PROVE TypeOK'
  <2>1. a \in Reg /\ b \in Reg /\ c \in Reg
    BY <1>0
  <2>. QED
    BY <1>2, <1>18, <2>1, SignedDifferences, UnsignedDifferences DEF Subtract
<1>19. ASSUME NEW a \in Kept, NEW b \in Kept, NEW c \in Kept, Split(a, b, c) PROVE TypeOK'
  <2>1. PICK n \in Counts : Step(zsplit(a, b, c, n))
    BY <1>19 DEF Split
  <2>2. a \in Reg /\ b \in Reg /\ c \in Reg /\ n \in Nat /\ a # b
    BY <1>0, <1>19 DEF Split
  <2>3. \A r \in zsplit(a, b, c, n) : Sound(r)
    BY <2>2, SplitIs
  <2>. QED
    BY <2>1, <2>3, StepIsSound
<1>20. ASSUME NEW a \in Kept, NEW b \in Kept, NEW c \in Kept, BitOperation(a, b, c) PROVE TypeOK'
  <2>1. a \in Reg /\ b \in Reg /\ c \in Reg
    BY <1>0
  <2>. QED
    BY <1>3, <1>20, <2>1, Conjunction, Disjunction, ExclusiveDisjunction DEF BitOperation
<1>21. CASE UNCHANGED vars
  BY <1>21 DEF vars, TypeOK
<1>22. CASE Next
  BY <1>22, <1>4, <1>5, <1>6, <1>7, <1>8, <1>9, <1>10, <1>11, <1>12, <1>13, <1>14, <1>15, <1>16,
     <1>17, <1>18, <1>19, <1>20 DEF Next
<1>. QED
  BY <1>21, <1>22

(* A number is a sign and limbs, and its sign is 0 exactly when its value  *)
(* is: zzero, which every function of libzahl asks first, may be trusted   *)
(* after any sequence of calls.                                            *)
THEOREM TypesAlwaysRight == Spec => []TypeOK
<1>1. Init => TypeOK
  BY TypesStart
<1>2. TypeOK /\ [Next]_vars => TypeOK'
  BY TypesStay
<1>. QED
  BY <1>1, <1>2, PTL DEF Spec

(* zcmp and zcmpmag order numbers as their values, whatever zeros are      *)
(* above them.                                                             *)
THEOREM ComparisonAlwaysRight == Spec => []ComparisonRight
<1>1. TypeOK => ComparisonRight
  BY ComparisonsRight
<1>. QED
  BY <1>1, TypesAlwaysRight, PTL

(* zadd, zadd_unsigned and zadd_unsigned_assign store the sum in whichever *)
(* number is given for it, but for the cases SumsRight names.              *)
THEOREM SumsAlwaysRight == Spec => []SumsRight
<1>1. TypeOK => SumsRight
  BY SumsAreRight
<1>. QED
  BY <1>1, TypesAlwaysRight, PTL

(* zsub, zsub_unsigned and the two subtractions in place store the         *)
(* difference unless an inner limb that is 1 lends.                        *)
THEOREM DifferencesAlwaysRight == Spec => []DifferencesRight
<1>1. TypeOK => DifferencesRight
  BY DifferencesAreRight
<1>. QED
  BY <1>1, TypesAlwaysRight, PTL

(* zlsh multiplies by a power of two, zrsh, ztrunc and zsplit divide by    *)
(* one, and zbits counts the bits.                                         *)
THEOREM ShiftsAlwaysRight == Spec => []ShiftsRight
<1>1. TypeOK => ShiftsRight
  BY ShiftsAreRight
<1>. QED
  BY <1>1, TypesAlwaysRight, PTL

(* zand, zor, zxor, znot and zbset leave the bits zahl.h writes down,      *)
(* unless a group of limbs is left out.                                    *)
THEOREM BitsAlwaysRight == Spec => []BitsRight
<1>1. TypeOK => BitsRight
  BY BitsAreRight
<1>. QED
  BY <1>1, TypesAlwaysRight, PTL
=============================================================================
