------------------------- MODULE ZahlProductsValues -------------------------
(***************************************************************************)
(* What zmul and zsqr compute, for numbers of any size: TypeOK and         *)
(* ProductRight are invariants of the specification.                       *)
(*                                                                         *)
(* PlaceInv says where the values are: every activation works on numbers   *)
(* that exist outside of it.  FactorInv says what they are: there are two  *)
(* factors for every activation, those of the outermost one the            *)
(* magnitudes of the operands, those of the others what the activation     *)
(* below has called for, and each activation reads, under the names it     *)
(* will still use, what its method has made of its factors so far.         *)
(***************************************************************************)
EXTENDS ZahlProductsProofs, PowersOfTwo

-----------------------------------------------------------------------------
(* The inductive invariant: where values are.                              *)

Piece(p) == /\ p = [of |-> p.of, from |-> p.from, bits |-> p.bits]
            /\ p.from \in Nat /\ p.bits \in Nat \cup {All}

Outside(i)   == Reg \cup ((1 .. i - 1) \X Locals)
PartNames    == {"a", "b", "c", "low", "high"}
Halves(plan) == IF plan \in {"high_only", "both_parts"} THEN {"low", "high"} ELSE {}

(* The parts an activation works on are in numbers that exist, outside of  *)
(* it but for the halves that zsqr_ll has copied.                          *)
Placed(f, i, exist) ==
  /\ f.delim \in Nat
  /\ DOMAIN f.parts \subseteq PartNames
  /\ \A x \in DOMAIN f.parts : Piece(f.parts[x]) /\ f.parts[x].of \in exist \cap Outside(i)
  /\ f.parts["a"] = Whole(f.parts["a"].of)
  /\ \A x \in Halves(f.plan) : x \in DOMAIN f.parts \/ <<i, x>> \in exist
  /\ \A x \in DOMAIN f.signs : f.signs[x] \in Int

(* The numbers that exist: the program's, and locals of activations that   *)
(* have begun, among them the temporaries on the stack.                    *)
Numbers ==
  /\ val = [n \in DOMAIN val |-> val[n]] /\ Reg \subseteq DOMAIN val
  /\ \A n \in DOMAIN val : val[n] \in Int
  /\ \A n \in DOMAIN val \ Reg : n \in (1 .. Depth) \X Locals /\ calls[n[1]].pc > 0
  /\ \A j \in 1 .. Len(tempStack) : tempStack[j] \in DOMAIN val

PlaceInv == Numbers /\ \A i \in 1 .. Depth : Placed(calls[i], i, DOMAIN val)

(* Every number has some limbs.                                            *)
UsedInv == used \in [DOMAIN val -> Nat] /\ loan \in BOOLEAN

-----------------------------------------------------------------------------
(* Halves of numbers, and of their products.                               *)

(* Three numbers multiplied.                                               *)
LEMMA Associate ==
  ASSUME NEW p \in Int, NEW q \in Int, NEW r \in Int
  PROVE  /\ p * q \in Int /\ p * q = q * p
         /\ (p * q) * r = p * (q * r)
         /\ (p + q) * r = p * r + q * r
         /\ r * (p + q) = r * p + r * q
OBVIOUS

(* Natural numbers multiplied.                                             *)
LEMMA Multiplied == ASSUME NEW p \in Nat, NEW q \in Nat PROVE p * q \in Nat
OBVIOUS

(* A number is made of the halves it is split in.                          *)
LEMMA Halved ==
  ASSUME NEW b \in Nat, NEW n \in Nat \ {0}
  PROVE  /\ b \div n \in Nat /\ b % n \in Nat /\ b % n \in 0 .. n - 1
         /\ b = (b \div n) * n + (b % n)
<1>1. b \in Int /\ b >= 0
  OBVIOUS
<1> DEFINE q == b \div n
           r == b % n
<1>2. q \in Nat /\ r \in 0 .. n - 1 /\ b = n * q + r
  BY <1>1, DivMod
<1> HIDE DEF q, r
<1>3. n * q = q * n /\ r \in Nat
  BY <1>2
<1> QED BY <1>2, <1>3 DEF q, r

(* The middle part of a product, as zmul_ll computes it.                   *)
LEMMA Middle ==
  ASSUME NEW p \in Nat, NEW q \in Nat, NEW r \in Nat, NEW s \in Nat
  PROVE  /\ (p + q) * (r + s) = ((p * r + p * s) + q * r) + q * s
         /\ p * r \in Nat /\ p * s \in Nat /\ q * r \in Nat /\ q * s \in Nat
<1>1. (p + q) * (r + s) = p * (r + s) + q * (r + s)
  BY Associate
<1>2. p * (r + s) = p * r + p * s /\ q * (r + s) = q * r + q * s
  BY Associate
<1>3. p * r \in Nat /\ p * s \in Nat /\ q * r \in Nat /\ q * s \in Nat
  BY Multiplied
<1> QED BY <1>1, <1>2, <1>3

(* The products zmul_ll adds up.                                           *)
LEMMA Karatsuba ==
  ASSUME NEW bh \in Nat, NEW bl \in Nat, NEW ch \in Nat, NEW cl \in Nat, NEW n \in Nat
  PROVE  LET whole == (bl + bh) * (cl + ch)
             mid   == whole - bl * cl - bh * ch
         IN  /\ whole \in Nat /\ bl * cl \in Nat /\ bh * ch \in Nat
             /\ bl * cl <= whole /\ bh * ch <= whole - bl * cl /\ mid \in Nat
             /\ (bl * cl + mid * n) + bh * ch * (n * n) = (bh * n + bl) * (ch * n + cl)
<1> DEFINE whole == (bl + bh) * (cl + ch)
           mid   == whole - bl * cl - bh * ch
           ll == bl * cl
           lh == bl * ch
           hl == bh * cl
           hh == bh * ch
<1>1. whole = ((ll + lh) + hl) + hh /\ ll \in Nat /\ lh \in Nat /\ hl \in Nat /\ hh \in Nat
  BY Middle
<1>2. bh * n \in Nat /\ ch * n \in Nat
  BY Multiplied
<1>3. (bh * n + bl) * (ch * n + cl)
        = (((bh * n) * (ch * n) + (bh * n) * cl) + bl * (ch * n)) + bl * cl
  BY <1>2, Middle
<1>4. (bh * n) * (ch * n) = hh * (n * n)
  <2>1. (bh * n) * (ch * n) = bh * (n * (ch * n))
    BY <1>2, Associate
  <2>2. n * (ch * n) = (ch * n) * n /\ (ch * n) * n = ch * (n * n)
    BY <1>2, Associate
  <2>3. n * n \in Nat
    BY Multiplied
  <2>4. bh * (ch * (n * n)) = hh * (n * n)
    BY <2>3, Associate
  <2> QED BY <2>1, <2>2, <2>4
<1>5. (bh * n) * cl = hl * n
  <2>1. (bh * n) * cl = bh * (n * cl) /\ n * cl = cl * n /\ (bh * cl) * n = bh * (cl * n)
    BY Associate
  <2> QED BY <2>1
<1>6. bl * (ch * n) = lh * n
  BY Associate
<1>7. mid = lh + hl
  BY <1>1
<1>8. mid * n = lh * n + hl * n
  BY <1>1, <1>7, Associate
<1>9. n * n \in Nat /\ lh * n \in Nat /\ hl * n \in Nat
  BY <1>1, Multiplied
<1>10. hh * (n * n) \in Nat
  BY <1>1, <1>9, Multiplied
<1>11. (ll + mid * n) + hh * (n * n) = (bh * n + bl) * (ch * n + cl)
  <2> HIDE DEF mid, whole, ll, lh, hl, hh
  <2> DEFINE x == hh * (n * n)
             y == lh * n
             z == hl * n
  <2>1. x \in Nat /\ y \in Nat /\ z \in Nat /\ ll \in Nat
    BY <1>1, <1>9, <1>10
  <2>2. (bh * n + bl) * (ch * n + cl) = ((x + z) + y) + ll
    BY <1>3, <1>4, <1>5, <1>6 DEF ll
  <2>3. (ll + mid * n) + hh * (n * n) = (ll + (y + z)) + x
    BY <1>8
  <2> HIDE DEF x, y, z
  <2> QED BY <2>1, <2>2, <2>3
<1>12. /\ whole \in Nat /\ ll \in Nat /\ hh \in Nat
       /\ ll <= whole /\ hh <= whole - ll /\ mid \in Nat
  <2> HIDE DEF whole, ll, lh, hl, hh
  <2> QED BY <1>1, <1>7
<1> HIDE DEF whole, mid
<1> QED BY <1>11, <1>12 DEF whole, mid

(* The squares zsqr_ll adds up.                                            *)
LEMMA SquareOfHalves ==
  ASSUME NEW high \in Nat, NEW low \in Nat, NEW n \in Nat
  PROVE  /\ high * high \in Nat /\ low * low \in Nat /\ low * high \in Nat
         /\ high * high * (n * n) \in Nat /\ low * high * (2 * n) \in Nat
         /\ (high * high * (n * n) + low * high * (2 * n)) + low * low
              = (high * n + low) * (high * n + low)
<1> DEFINE hh == high * high
           lh == low * high
           ll == low * low
<1>1. hh \in Nat /\ lh \in Nat /\ ll \in Nat /\ n * n \in Nat /\ 2 * n \in Nat /\ high * n \in Nat
  BY Multiplied
<1>2. hh * (n * n) \in Nat /\ lh * (2 * n) \in Nat
  BY <1>1, Multiplied
<1>3. (high * n + low) * (high * n + low)
        = (((high * n) * (high * n) + (high * n) * low) + low * (high * n)) + ll
  BY <1>1, Middle
<1>4. (high * n) * (high * n) = hh * (n * n)
  <2>1. (high * n) * (high * n) = high * (n * (high * n))
    BY <1>1, Associate
  <2>2. n * (high * n) = (high * n) * n /\ (high * n) * n = high * (n * n)
    BY <1>1, Associate
  <2>3. high * (high * (n * n)) = hh * (n * n)
    BY <1>1, Associate
  <2> QED BY <2>1, <2>2, <2>3
<1>5. low * (high * n) = lh * n /\ (high * n) * low = low * (high * n)
  BY <1>1, Associate
<1>6. lh * (2 * n) = lh * n + lh * n
  <2>1. 2 * n = n + n
    OBVIOUS
  <2>2. lh * (n + n) = lh * n + lh * n
    BY <1>1, Associate
  <2> QED BY <2>1, <2>2
<1>7. lh * n \in Nat
  BY <1>1, Multiplied
<1> HIDE DEF hh, lh, ll
<1>8. (hh * (n * n) + lh * (2 * n)) + ll = (high * n + low) * (high * n + low)
  <2> DEFINE x == hh * (n * n)
             y == lh * n
  <2>1. x \in Nat /\ y \in Nat /\ ll \in Nat
    BY <1>1, <1>2, <1>7
  <2>2. (high * n + low) * (high * n + low) = ((x + y) + y) + ll
    BY <1>3, <1>4, <1>5
  <2>3. lh * (2 * n) = y + y
    BY <1>6
  <2> HIDE DEF x, y
  <2>4. (x + (y + y)) + ll = ((x + y) + y) + ll
    BY <2>1
  <2> QED BY <2>2, <2>3, <2>4 DEF x
<1> QED BY <1>1, <1>2, <1>8 DEF hh, lh, ll

(* Dividing twice, and dividing what a division leaves.                    *)
LEMMA Twice ==
  ASSUME NEW v \in Nat, NEW m \in Nat \ {0}, NEW n \in Nat \ {0}
  PROVE  /\ (v \div m) \div n = v \div (m * n)
         /\ (v % (m * n)) % n = v % n
         /\ (v % (m * n)) \div n = (v \div n) % m
<1> DEFINE mn == m * n
           q == v \div m
           r == v % m
           s == q \div n
           t == q % n
<1>1. mn \in Nat \ {0}
  OBVIOUS
<1>2. q \in Nat /\ r \in 0 .. m - 1 /\ v = q * m + r
  BY Halved
<1> HIDE DEF q, r
<1>3. s \in Nat /\ t \in 0 .. n - 1 /\ q = s * n + t
  BY <1>2, Halved
<1> HIDE DEF s, t
<1>4. v = s * mn + (t * m + r)
  <2>1. (s * n + t) * m = (s * n) * m + t * m
    BY <1>3, Associate
  <2>2. (s * n) * m = s * (n * m) /\ n * m = m * n
    BY <1>3, Associate
  <2>3. s * mn \in Nat /\ t * m \in Nat
    BY <1>1, <1>3, Multiplied
  <2>4. v = (s * mn + t * m) + r
    BY <1>2, <1>3, <2>1, <2>2
  <2> HIDE DEF mn
  <2> DEFINE x == s * mn
             y == t * m
  <2>5. x \in Nat /\ y \in Nat
    BY <2>3
  <2>6. v = (x + y) + r
    BY <2>4
  <2> HIDE DEF x, y
  <2>7. v = x + (y + r)
    BY <1>2, <2>5, <2>6
  <2> QED BY <2>7 DEF x, y
<1>5. t * m + r \in 0 .. mn - 1
  <2>1. t * m \in Nat
    BY <1>3, Multiplied
  <2>2. (n - 1 - t) * m \in Nat
    BY <1>3, Multiplied
  <2>3. (n - 1 - t) * m = (n * m - m) - t * m
    BY <1>3
  <2>4. n * m = mn /\ n * m \in Nat
    BY Associate
  <2> HIDE DEF mn
  <2> QED BY <1>1, <1>2, <2>1, <2>2, <2>3, <2>4
<1>6. v \div mn = s
  BY <1>1, <1>3, <1>4, <1>5, DivUnique
<1>7. v \div mn = (v \div m) \div n
  BY <1>6 DEF s, q
<1> DEFINE w == v % mn
           a == w \div n
           b == w % n
           e == v \div mn
<1>8. e \in Nat /\ w \in Nat /\ w \in 0 .. mn - 1 /\ v = e * mn + w
  <2> HIDE DEF mn
  <2> QED BY <1>1, Halved
<1> HIDE DEF w, e
<1>9. a \in Nat /\ b \in 0 .. n - 1 /\ w = a * n + b
  BY <1>8, Halved
<1> HIDE DEF a, b
<1>10. v = (e * m + a) * n + b
  <2>1. (e * m + a) * n = (e * m) * n + a * n
    BY <1>8, <1>9, Associate
  <2>2. (e * m) * n = e * mn
    BY <1>8, Associate
  <2>3. e * mn \in Nat /\ a * n \in Nat
    BY <1>1, <1>8, <1>9, Multiplied
  <2> HIDE DEF mn
  <2> QED BY <1>8, <1>9, <2>1, <2>2, <2>3
<1>11. e * m + a \in Nat
  <2>1. e * m \in Nat
    BY <1>8, Multiplied
  <2> QED BY <1>9, <2>1
<1>12. v \div n = e * m + a /\ v % n = b
  <2> DEFINE u == e * m + a
  <2>1. u \in Int
    BY <1>11
  <2>2. v = u * n + b
    BY <1>10
  <2> HIDE DEF u
  <2>3. (u * n + b) \div n = u /\ (u * n + b) % n = b
    BY <1>9, <2>1, DivUnique
  <2> QED BY <2>2, <2>3 DEF u
<1>13. a \in 0 .. m - 1
  <2>1. ASSUME a >= m PROVE FALSE
    <3>1. (a - m) * n \in Nat
      BY <1>9, <2>1, Multiplied
    <3>2. (a - m) * n = a * n - m * n /\ a * n \in Nat
      BY <1>9
    <3>3. a * n >= mn
      BY <3>1, <3>2, <1>1
    <3> HIDE DEF mn
    <3> QED BY <1>8, <1>9, <3>2, <3>3, <1>1
  <2> QED BY <1>9, <2>1
<1>14. (v \div n) % m = a
  <2>1. (e * m + a) % m = a
    BY <1>8, <1>13, DivUnique
  <2> QED BY <1>12, <2>1
<1> HIDE DEF mn
<1> QED BY <1>7, <1>12, <1>14 DEF w, a, b, mn

-----------------------------------------------------------------------------
(* The steps with what they name.                                          *)

(* The steps of zmul_ll that compute.                                      *)
LEMMA ZmulLlTable ==
  /\ ZmulLlSteps[5] = <<"split", "b_high", "b_low", "b">>
  /\ ZmulLlSteps[6] = <<"split", "c_high", "c_low", "c">>
  /\ ZmulLlSteps[7] = <<"mul", "a", "b_low", "c_low">>
  /\ ZmulLlSteps[8] = <<"add", "b_low", "b_high">>
  /\ ZmulLlSteps[9] = <<"add", "c_low", "c_high">>
  /\ ZmulLlSteps[10] = <<"mul", "b_low", "b_low", "c_low">>
  /\ ZmulLlSteps[11] = <<"mul", "c_low", "b_high", "c_high">>
  /\ ZmulLlSteps[12] = <<"sub", "b_low", "a">>
  /\ ZmulLlSteps[13] = <<"sub", "b_low", "c_low">>
  /\ ZmulLlSteps[14] = <<"shift", "b_low", 1, 0>>
  /\ ZmulLlSteps[15] = <<"shift", "c_low", 2, 0>>
  /\ ZmulLlSteps[16] = <<"add", "a", "b_low">>
  /\ ZmulLlSteps[17] = <<"add", "a", "c_low">>
BY DEF ZmulLlSteps, FreeTemps

(* Those of the other bodies.                                              *)
LEMMA OtherTables ==
  /\ ZmulSteps[1] = <<"abs", "b">> /\ ZmulSteps[2] = <<"abs", "c">>
  /\ ZmulSteps[3] = <<"mul", "a", "b", "c">>
  /\ ZmulSteps[4] = <<"restore", "c">> /\ ZmulSteps[5] = <<"restore", "b">>
  /\ ZmulSteps[6] = <<"sign">>
  /\ ZsqrSteps[1] = <<"sqr", "a", "b">> /\ ZsqrSteps[2] = <<"positive">>
  /\ HighOnlySteps[1] = <<"sqr", "a", "high">> /\ HighOnlySteps[2] = <<"shift", "a", 2, 0>>
  /\ BothPartsSteps[3] = <<"sqr", "z0", "low">>
  /\ BothPartsSteps[4] = <<"mul", "z1", "low", "high">>
  /\ BothPartsSteps[5] = <<"shift", "z1", 1, 1>>
  /\ BothPartsSteps[6] = <<"sqr", "a", "high">>
  /\ BothPartsSteps[7] = <<"shift", "a", 2, 0>>
  /\ BothPartsSteps[8] = <<"add", "a", "z1">>
  /\ BothPartsSteps[9] = <<"add", "a", "z0">>
BY DEF ZmulSteps, ZsqrSteps, HighOnlySteps, BothPartsSteps

(* Where the innermost activation is, by the kind of its step.             *)
Is(plan, pc) == Frame.plan = plan /\ Frame.pc = pc
Names1(x)       == Arg(1) = x
Names2(x, y)    == Arg(1) = x /\ Arg(2) = y
Names3(x, y, z) == Arg(1) = x /\ Arg(2) = y /\ Arg(3) = z

Sites(kind) ==
  /\ kind = "init" => \/ Frame.plan = "zmul_ll" /\ Frame.pc \in 1 .. 4
                      \/ Frame.plan = "both_parts" /\ Frame.pc \in 1 .. 2
  /\ kind = "free" => \/ Frame.plan = "zmul_ll" /\ Frame.pc \in 18 .. 21
                      \/ Frame.plan = "both_parts" /\ Frame.pc \in 10 .. 11
  /\ kind = "split" => \/ Is("zmul_ll", 5) /\ Names3("b_high", "b_low", "b")
                       \/ Is("zmul_ll", 6) /\ Names3("c_high", "c_low", "c")
  /\ kind = "mul" => \/ Is("zmul", 3) /\ Names3("a", "b", "c")
                     \/ Is("zmul_ll", 7) /\ Names3("a", "b_low", "c_low")
                     \/ Is("zmul_ll", 10) /\ Names3("b_low", "b_low", "c_low")
                     \/ Is("zmul_ll", 11) /\ Names3("c_low", "b_high", "c_high")
                     \/ Is("both_parts", 4) /\ Names3("z1", "low", "high")
  /\ kind = "sqr" => \/ Is("zsqr", 1) /\ Names2("a", "b")
                     \/ Is("high_only", 1) /\ Names2("a", "high")
                     \/ Is("both_parts", 3) /\ Names2("z0", "low")
                     \/ Is("both_parts", 6) /\ Names2("a", "high")
  /\ kind = "add" => \/ Is("zmul_ll", 8) /\ Names2("b_low", "b_high")
                     \/ Is("zmul_ll", 9) /\ Names2("c_low", "c_high")
                     \/ Is("zmul_ll", 16) /\ Names2("a", "b_low")
                     \/ Is("zmul_ll", 17) /\ Names2("a", "c_low")
                     \/ Is("both_parts", 8) /\ Names2("a", "z1")
                     \/ Is("both_parts", 9) /\ Names2("a", "z0")
  /\ kind = "sub" => \/ Is("zmul_ll", 12) /\ Names2("b_low", "a")
                     \/ Is("zmul_ll", 13) /\ Names2("b_low", "c_low")
  /\ kind = "shift" => \/ Is("zmul_ll", 14) /\ Names3("b_low", 1, 0)
                       \/ Is("zmul_ll", 15) /\ Names3("c_low", 2, 0)
                       \/ Is("high_only", 2) /\ Names3("a", 2, 0)
                       \/ Is("both_parts", 5) /\ Names3("z1", 1, 1)
                       \/ Is("both_parts", 7) /\ Names3("a", 2, 0)
  /\ kind = "abs" => \/ Is("zmul", 1) /\ Names1("b")
                     \/ Is("zmul", 2) /\ Names1("c")
  /\ kind = "restore" => \/ Is("zmul", 4) /\ Names1("c")
                         \/ Is("zmul", 5) /\ Names1("b")
  /\ kind = "sign" => Is("zmul", 6)
  /\ kind = "positive" => Is("zsqr", 2)

(* A step with three names, two, one or none.                              *)
LEMMA StepNames ==
  ASSUME NEW s, NEW k, s[1] = k, \A i \in {1, 2, 3} : Arg(i) = s[i + 1]
  PROVE  /\ \A j, x, y, z : s = <<j, x, y, z>> => k = j /\ Names3(x, y, z)
         /\ \A j, x, y : s = <<j, x, y>> => k = j /\ Names2(x, y)
         /\ \A j, x : s = <<j, x>> => k = j /\ Names1(x)
         /\ \A j : s = <<j>> => k = j
<1>1. Arg(1) = s[2] /\ Arg(2) = s[3] /\ Arg(3) = s[4]
  OBVIOUS
<1> QED BY <1>1 DEF Names1, Names2, Names3

(* A step of a kind is one of these.                                       *)
LEMMA KindIs ==
  ASSUME StackInv, NEW kind, At(kind)
  PROVE  Sites(kind)
<1> DEFINE plan == Frame.plan
           pc   == Frame.pc
           s    == Steps(plan)[pc]
<1>1. plan \in Plans /\ plan # "zsqr_ll" /\ pc \in 1 .. Len(Steps(plan)) /\ s[1] = kind
  BY AtStep
<1>2. \A i \in {1, 2, 3} : Arg(i) = s[i + 1]
  BY DEF Arg
<1>3. \A i : pc = i => Is(plan, i)
  BY DEF Is
<1> HIDE DEF s
<1>4. /\ \A j, x, y, z : s = <<j, x, y, z>> => kind = j /\ Names3(x, y, z)
      /\ \A j, x, y : s = <<j, x, y>> => kind = j /\ Names2(x, y)
      /\ \A j, x : s = <<j, x>> => kind = j /\ Names1(x)
      /\ \A j : s = <<j>> => kind = j
  BY <1>1, <1>2, StepNames
<1> HIDE DEF plan, pc
<1>5. CASE plan = "zmul_ll"
  <2>1. pc \in 1 .. 21 /\ Steps(plan) = ZmulLlSteps
    BY <1>1, <1>5, Lengths
  <2>2. \/ pc \in 1 .. 4 /\ kind = "init"
        \/ pc \in 18 .. 21 /\ kind = "free"
        \/ pc \in 5 .. 17
    BY <1>1, <2>1, ZmulLlBody DEF s
  <2>3. CASE pc \in 1 .. 4 /\ kind = "init"
    BY <1>5, <2>3 DEF Sites, plan, pc
  <2>4. CASE pc \in 18 .. 21 /\ kind = "free"
    BY <1>5, <2>4 DEF Sites, plan, pc
  <2>5. /\ pc = 5 => s = <<"split", "b_high", "b_low", "b">>
        /\ pc = 6 => s = <<"split", "c_high", "c_low", "c">>
        /\ pc = 7 => s = <<"mul", "a", "b_low", "c_low">>
        /\ pc = 8 => s = <<"add", "b_low", "b_high">>
        /\ pc = 9 => s = <<"add", "c_low", "c_high">>
        /\ pc = 10 => s = <<"mul", "b_low", "b_low", "c_low">>
        /\ pc = 11 => s = <<"mul", "c_low", "b_high", "c_high">>
        /\ pc = 12 => s = <<"sub", "b_low", "a">>
        /\ pc = 13 => s = <<"sub", "b_low", "c_low">>
        /\ pc = 14 => s = <<"shift", "b_low", 1, 0>>
        /\ pc = 15 => s = <<"shift", "c_low", 2, 0>>
        /\ pc = 16 => s = <<"add", "a", "b_low">>
        /\ pc = 17 => s = <<"add", "a", "c_low">>
    BY <2>1, ZmulLlTable DEF s
  <2>6. /\ pc = 5 => kind = "split" /\ Names3("b_high", "b_low", "b")
        /\ pc = 6 => kind = "split" /\ Names3("c_high", "c_low", "c")
        /\ pc = 7 => kind = "mul" /\ Names3("a", "b_low", "c_low")
        /\ pc = 8 => kind = "add" /\ Names2("b_low", "b_high")
        /\ pc = 9 => kind = "add" /\ Names2("c_low", "c_high")
        /\ pc = 10 => kind = "mul" /\ Names3("b_low", "b_low", "c_low")
    BY <1>4, <2>5, Zenon
  <2>8. /\ pc = 11 => kind = "mul" /\ Names3("c_low", "b_high", "c_high")
        /\ pc = 12 => kind = "sub" /\ Names2("b_low", "a")
        /\ pc = 13 => kind = "sub" /\ Names2("b_low", "c_low")
        /\ pc = 14 => kind = "shift" /\ Names3("b_low", 1, 0)
        /\ pc = 15 => kind = "shift" /\ Names3("c_low", 2, 0)
        /\ pc = 16 => kind = "add" /\ Names2("a", "b_low")
        /\ pc = 17 => kind = "add" /\ Names2("a", "c_low")
    BY <1>4, <2>5, Zenon
  <2>7. ASSUME pc \in 5 .. 17
        PROVE  Sites(kind)
    BY <1>3, <1>5, <2>6, <2>7, <2>8 DEF Sites
  <2> QED BY <2>1, <2>2, <2>3, <2>4, <2>7
<1>6. CASE plan = "both_parts"
  <2>1. pc \in 1 .. 11 /\ Steps(plan) = BothPartsSteps
    BY <1>1, <1>6, Lengths
  <2>2. \/ pc \in 1 .. 2 /\ kind = "init"
        \/ pc \in 10 .. 11 /\ kind = "free"
        \/ pc \in 3 .. 9
    BY <1>1, <2>1, BothPartsBody DEF s
  <2>3. CASE pc \in 1 .. 2 /\ kind = "init"
    BY <1>6, <2>3 DEF Sites, plan, pc
  <2>4. CASE pc \in 10 .. 11 /\ kind = "free"
    BY <1>6, <2>4 DEF Sites, plan, pc
  <2>5. /\ pc = 3 => s = <<"sqr", "z0", "low">>
        /\ pc = 4 => s = <<"mul", "z1", "low", "high">>
        /\ pc = 5 => s = <<"shift", "z1", 1, 1>>
        /\ pc = 6 => s = <<"sqr", "a", "high">>
        /\ pc = 7 => s = <<"shift", "a", 2, 0>>
        /\ pc = 8 => s = <<"add", "a", "z1">>
        /\ pc = 9 => s = <<"add", "a", "z0">>
    BY <2>1, OtherTables DEF s
  <2>6. /\ pc = 3 => kind = "sqr" /\ Names2("z0", "low")
        /\ pc = 4 => kind = "mul" /\ Names3("z1", "low", "high")
        /\ pc = 5 => kind = "shift" /\ Names3("z1", 1, 1)
        /\ pc = 6 => kind = "sqr" /\ Names2("a", "high")
        /\ pc = 7 => kind = "shift" /\ Names3("a", 2, 0)
        /\ pc = 8 => kind = "add" /\ Names2("a", "z1")
        /\ pc = 9 => kind = "add" /\ Names2("a", "z0")
    BY <1>4, <2>5, Zenon
  <2>7. ASSUME pc \in 3 .. 9
        PROVE  Sites(kind)
    BY <1>3, <1>6, <2>6, <2>7 DEF Sites
  <2> QED BY <2>1, <2>2, <2>3, <2>4, <2>7
<1>7. CASE plan = "zmul"
  <2>1. pc \in 1 .. 6 /\ Steps(plan) = ZmulSteps
    BY <1>1, <1>7, Lengths
  <2>5. /\ pc = 1 => s = <<"abs", "b">>
        /\ pc = 2 => s = <<"abs", "c">>
        /\ pc = 3 => s = <<"mul", "a", "b", "c">>
        /\ pc = 4 => s = <<"restore", "c">>
        /\ pc = 5 => s = <<"restore", "b">>
        /\ pc = 6 => s = <<"sign">>
    BY <2>1, OtherTables DEF s
  <2>6. /\ pc = 1 => kind = "abs" /\ Names1("b")
        /\ pc = 2 => kind = "abs" /\ Names1("c")
        /\ pc = 3 => kind = "mul" /\ Names3("a", "b", "c")
        /\ pc = 4 => kind = "restore" /\ Names1("c")
        /\ pc = 5 => kind = "restore" /\ Names1("b")
        /\ pc = 6 => kind = "sign"
    BY <1>4, <2>5, Zenon
  <2>7. ASSUME pc \in 1 .. 6
        PROVE  Sites(kind)
    BY <1>3, <1>7, <2>6, <2>7 DEF Sites
  <2> QED BY <2>1, <2>7
<1>8. CASE plan = "zsqr"
  <2>1. pc \in 1 .. 2 /\ Steps(plan) = ZsqrSteps
    BY <1>1, <1>8, Lengths
  <2>5. /\ pc = 1 => s = <<"sqr", "a", "b">>
        /\ pc = 2 => s = <<"positive">>
    BY <2>1, OtherTables DEF s
  <2>6. /\ pc = 1 => kind = "sqr" /\ Names2("a", "b")
        /\ pc = 2 => kind = "positive"
    BY <1>4, <2>5, Zenon
  <2>7. ASSUME pc \in 1 .. 2
        PROVE  Sites(kind)
    BY <1>3, <1>8, <2>6, <2>7 DEF Sites
  <2> QED BY <2>1, <2>7
<1>9. CASE plan = "high_only"
  <2>1. pc \in 1 .. 2 /\ Steps(plan) = HighOnlySteps
    BY <1>1, <1>9, Lengths
  <2>5. /\ pc = 1 => s = <<"sqr", "a", "high">>
        /\ pc = 2 => s = <<"shift", "a", 2, 0>>
    BY <2>1, OtherTables DEF s
  <2>6. /\ pc = 1 => kind = "sqr" /\ Names2("a", "high")
        /\ pc = 2 => kind = "shift" /\ Names3("a", 2, 0)
    BY <1>4, <2>5, Zenon
  <2>7. ASSUME pc \in 1 .. 2
        PROVE  Sites(kind)
    BY <1>3, <1>9, <2>6, <2>7 DEF Sites
  <2> QED BY <2>1, <2>7
<1> QED BY <1>1, <1>5, <1>6, <1>7, <1>8, <1>9 DEF Plans

-----------------------------------------------------------------------------
(* Where values are.                                                       *)

(* A local is no number of the program.                                    *)
LEMMA LocalsApart ==
  ASSUME NEW i \in Nat, NEW x \in Locals
  PROVE  <<i, x>> \notin Reg
BY RegAssumption

(* A whole number is a part.                                               *)
LEMMA WholePiece ==
  ASSUME NEW n
  PROVE  Piece(Whole(n)) /\ Whole(n).of = n /\ Whole(n).from = 0 /\ Whole(n).bits = All
BY DEF Piece, Whole, All

(* What a part reads is a number, and what less than all of one reads is   *)
(* not negative.                                                           *)
LEMMA ReadIs ==
  ASSUME NEW p, Piece(p), val[p.of] \in Int
  PROVE  /\ Read(p) \in Int
         /\ p.from # 0 \/ p.bits # All => Read(p) \in Nat
         /\ p.from = 0 /\ p.bits = All => Read(p) = val[p.of]
<1> DEFINE m  == 2 ^ p.from
           up == Abs(val[p.of]) \div m
           k  == 2 ^ p.bits
<1>1. p.from \in Nat /\ (p.bits = All \/ p.bits \in Nat)
  BY DEF Piece
<1>2. m \in Nat \ {0} /\ (p.bits \in Nat => k \in Nat \ {0})
  BY <1>1, Positive
<1>3. Abs(val[p.of]) \in Nat
  BY Magnitude
<1>4. Read(p) = IF p.from = 0 /\ p.bits = All THEN val[p.of]
                ELSE IF p.bits = All THEN up ELSE up % k
  BY DEF Read
<1> HIDE DEF m, k
<1>5. up \in Nat
  BY <1>2, <1>3, Halved
<1> HIDE DEF up
<1>6. p.bits \in Nat => up % k \in Nat
  BY <1>2, <1>5, Halved
<1> QED BY <1>1, <1>4, <1>5, <1>6

(* With more numbers an activation is still in its place, and with fewer   *)
(* if its own are among them.                                              *)
LEMMA PlacedWith ==
  ASSUME NEW f, NEW i \in Nat, NEW S, NEW T, Placed(f, i, S),
         S \cap (Outside(i) \cup ({i} \X Locals)) \subseteq T
  PROVE  Placed(f, i, T)
<1>1. \A x \in Halves(f.plan) : x \in Locals
  BY DEF Halves, Locals
<1>2. \A x \in Halves(f.plan) : <<i, x>> \in S => <<i, x>> \in T
  BY <1>1
<1> QED BY <1>2 DEF Placed

(* The temporaries of a body exist from their initialisation until they    *)
(* are freed.                                                              *)
LEMMA TempsExist ==
  ASSUME StackInv, PlaceInv, Running, NEW x,
         \/ Frame.plan = "zmul_ll" /\ Frame.pc \in 5 .. 18
              /\ x \in {"b_high", "b_low", "c_high", "c_low"}
         \/ Frame.plan = "both_parts" /\ Frame.pc \in 3 .. 10 /\ x \in {"z0", "z1"}
  PROVE  x \in Locals /\ <<Depth, x>> \in DOMAIN val
<1> DEFINE h == Frame.height
           t == Temps(Frame.plan)
<1>1. /\ Stacked /\ Depth \in 1 .. Depth /\ Count(Frame) \in Nat /\ h \in Nat
      /\ Len(tempStack) = h + Count(Frame) /\ Activated(Frame)
  BY Innermost
<1>2. \A k \in 1 .. Count(Frame) : tempStack[h + k] = <<Depth, t[k]>>
  BY <1>1 DEF Stacked, Frame
<1>3. \A k \in 1 .. Count(Frame) : h + k \in 1 .. Len(tempStack)
  BY <1>1
<1>4. \A k \in 1 .. Count(Frame) : <<Depth, t[k]>> \in DOMAIN val
  BY <1>2, <1>3 DEF PlaceInv, Numbers
<1>5. Frame.plan \in Plans /\ Frame.pc \in Nat
  BY <1>1 DEF Activated
<1>6. CASE Frame.plan = "zmul_ll"
  <2>1. t = <<"b_high", "b_low", "c_high", "c_low">>
    BY <1>6 DEF Temps
  <2>2. Frame.pc \in 5 .. 18 /\ x \in {"b_high", "b_low", "c_high", "c_low"}
    BY <1>6
  <2>3. Count(Frame) = 4
    BY <1>5, <1>6, <2>2, ZmulLlHolds DEF Count
  <2> HIDE DEF t
  <2>4. \E k \in 1 .. 4 : x = t[k]
    <3>1. t[1] = "b_high" /\ t[2] = "b_low" /\ t[3] = "c_high" /\ t[4] = "c_low"
      BY <2>1
    <3> QED BY <2>2, <3>1
  <2> QED BY <1>4, <2>2, <2>3, <2>4 DEF Locals
<1>7. CASE Frame.plan = "both_parts"
  <2>1. t = <<"z0", "z1">>
    BY <1>7 DEF Temps
  <2>2. Frame.pc \in 3 .. 10 /\ x \in {"z0", "z1"}
    BY <1>7
  <2>3. Count(Frame) = 2
    BY <1>5, <1>7, <2>2, BothPartsHolds DEF Count
  <2> HIDE DEF t
  <2>4. \E k \in 1 .. 2 : x = t[k]
    <3>1. t[1] = "z0" /\ t[2] = "z1"
      BY <2>1
    <3> QED BY <2>2, <3>1
  <2> QED BY <1>4, <2>2, <2>3, <2>4 DEF Locals
<1> QED BY <1>6, <1>7

(* The innermost activation is in its place, and works for another or for  *)
(* the program.                                                            *)
LEMMA InnermostPlaced ==
  ASSUME StackInv, PlaceInv, ValueInv, Running
  PROVE  /\ Placed(Frame, Depth, DOMAIN val) /\ Depth \in Nat /\ Depth \in 1 .. Depth
         /\ Serves(Frame, Depth)
         /\ Depth = 1 => Outermost(Frame)
<1>1. Depth \in Nat /\ Depth > 0 /\ Depth \in 1 .. Depth
  BY Innermost
<1> QED BY <1>1 DEF PlaceInv, ValueInv, Served, Frame

(* A name an activation can use stands for a number that exists.           *)
Usable(x) == /\ Piece(Part(x)) /\ Target(x) \in DOMAIN val
             /\ Target(x) \in Outside(Depth) \cup ({Depth} \X Locals)
             /\ Read(Part(x)) \in Int

LEMMA UsableNames ==
  ASSUME StackInv, PlaceInv, ValueInv, Running, NEW x,
         \/ x \in DOMAIN Frame.parts \cup Halves(Frame.plan)
         \/ x \in Locals /\ <<Depth, x>> \in DOMAIN val
  PROVE  Usable(x)
<1>1. Placed(Frame, Depth, DOMAIN val) /\ Depth \in Nat
  BY InnermostPlaced
<1>2. CASE x \in DOMAIN Frame.parts
  <2>1. Piece(Frame.parts[x]) /\ Frame.parts[x].of \in DOMAIN val \cap Outside(Depth)
    BY <1>1, <1>2 DEF Placed
  <2>2. Part(x) = Frame.parts[x] /\ Target(x) = Frame.parts[x].of
    BY <1>2 DEF Part, Target
  <2>3. val[Part(x).of] \in Int
    BY <2>1, <2>2 DEF PlaceInv, Numbers
  <2>4. Read(Part(x)) \in Int
    BY <2>1, <2>2, <2>3, ReadIs
  <2> QED BY <2>1, <2>2, <2>4 DEF Usable
<1>3. CASE x \notin DOMAIN Frame.parts
  <2>1. Part(x) = Whole(<<Depth, x>>) /\ Target(x) = <<Depth, x>> /\ Part(x).of = <<Depth, x>>
    BY <1>3, WholePiece DEF Part, Target, Local
  <2>2. <<Depth, x>> \in DOMAIN val /\ x \in Locals
    BY <1>1, <1>3 DEF Placed, Halves, Locals
  <2>3. val[Part(x).of] \in Int /\ Piece(Part(x))
    BY <2>1, <2>2, WholePiece DEF PlaceInv, Numbers
  <2>4. Read(Part(x)) \in Int
    BY <2>3, ReadIs
  <2> QED BY <1>1, <2>1, <2>2, <2>3, <2>4 DEF Usable
<1> QED BY <1>2, <1>3

(* What an activation can use at its steps: its destination and operands,  *)
(* in zsqr_ll the halves, and once they are initialised the temporaries.   *)
LEMMA UsableAt ==
  ASSUME StackInv, PlaceInv, ValueInv, Running
  PROVE  /\ Usable("a") /\ Usable("b")
         /\ Frame.plan \in {"zmul", "zmul_ll"} => Usable("c")
         /\ Frame.plan = "zsqr" => Usable("c")
         /\ Frame.plan \in {"high_only", "both_parts"} => Usable("low") /\ Usable("high")
         /\ Frame.plan = "zmul_ll" /\ Frame.pc \in 5 .. 18 =>
              Usable("b_high") /\ Usable("b_low") /\ Usable("c_high") /\ Usable("c_low")
         /\ Frame.plan = "both_parts" /\ Frame.pc \in 3 .. 10 => Usable("z0") /\ Usable("z1")
<1>1. Serves(Frame, Depth) /\ (Depth = 1 => Outermost(Frame))
  BY InnermostPlaced
<1>2. {"a", "b"} \subseteq DOMAIN Frame.parts
  BY <1>1 DEF Serves
<1>3. Frame.plan \in {"zmul", "zmul_ll", "zsqr"} => "c" \in DOMAIN Frame.parts
  BY <1>1 DEF Serves, Outermost
<1>4. Frame.plan \in {"high_only", "both_parts"} =>
        "low" \in Halves(Frame.plan) /\ "high" \in Halves(Frame.plan)
  BY DEF Halves
<1>5. Frame.plan = "zmul_ll" /\ Frame.pc \in 5 .. 18 =>
        \A x \in {"b_high", "b_low", "c_high", "c_low"} :
          x \in Locals /\ <<Depth, x>> \in DOMAIN val
  BY TempsExist
<1>6. Frame.plan = "both_parts" /\ Frame.pc \in 3 .. 10 =>
        \A x \in {"z0", "z1"} : x \in Locals /\ <<Depth, x>> \in DOMAIN val
  BY TempsExist
<1>7. Usable("a") /\ Usable("b")
  BY <1>2, UsableNames
<1>8. Frame.plan \in {"zmul", "zmul_ll", "zsqr"} => Usable("c")
  BY <1>3, UsableNames
<1>9. Frame.plan \in {"high_only", "both_parts"} => Usable("low") /\ Usable("high")
  BY <1>4, UsableNames
<1>10. Frame.plan = "zmul_ll" /\ Frame.pc \in 5 .. 18 =>
         \A x \in {"b_high", "b_low", "c_high", "c_low"} : Usable(x)
  BY <1>5, UsableNames
<1>11. Frame.plan = "both_parts" /\ Frame.pc \in 3 .. 10 => \A x \in {"z0", "z1"} : Usable(x)
  BY <1>6, UsableNames
<1> QED BY <1>7, <1>8, <1>9, <1>10, <1>11

-----------------------------------------------------------------------------
(* The steps keep values where they are.                                   *)

(* The innermost activation goes on, and locals of it may have been added. *)
LEMMA PlacesOn ==
  ASSUME StackInv, PlaceInv, Running, NEW g, calls' = [calls EXCEPT ![Depth] = g],
         g.pc > 0, Placed(g, Depth, DOMAIN val'),
         val' = [n \in DOMAIN val' |-> val'[n]],
         DOMAIN val \subseteq DOMAIN val', DOMAIN val' \subseteq DOMAIN val \cup ({Depth} \X Locals),
         \A n \in DOMAIN val' : val'[n] \in Int,
         \A j \in 1 .. Len(tempStack') : tempStack'[j] \in DOMAIN val'
  PROVE  PlaceInv'
<1>1. Depth \in Nat /\ Depth \in 1 .. Depth
  BY Innermost
<1>2. /\ Depth' = Depth /\ calls'[Depth] = g
      /\ \A i \in 1 .. Depth : i # Depth => calls'[i] = calls[i]
  BY InnermostReplaced
<1>3. ASSUME NEW n \in DOMAIN val' \ Reg
      PROVE  n \in (1 .. Depth) \X Locals /\ calls'[n[1]].pc > 0
  <2>1. CASE n \in DOMAIN val
    <3>1. n \in (1 .. Depth) \X Locals /\ calls[n[1]].pc > 0 /\ n[1] \in 1 .. Depth
      BY <1>3, <2>1 DEF PlaceInv, Numbers
    <3>2. CASE n[1] = Depth
      BY <1>2, <3>1, <3>2
    <3>3. CASE n[1] # Depth
      BY <1>2, <3>1, <3>3
    <3> QED BY <3>2, <3>3
  <2>2. CASE n \in {Depth} \X Locals
    <3>1. n[1] = Depth /\ n \in (1 .. Depth) \X Locals
      BY <1>1, <2>2
    <3> QED BY <1>2, <3>1
  <2> QED BY <1>3, <2>1, <2>2
<1>4. Numbers'
  BY <1>2, <1>3 DEF PlaceInv, Numbers
<1>5. ASSUME NEW i \in 1 .. Depth
      PROVE  Placed(calls'[i], i, DOMAIN val')
  <2>1. CASE i = Depth
    BY <1>2, <2>1
  <2>2. CASE i # Depth
    <3>1. Placed(calls[i], i, DOMAIN val) /\ i \in Nat
      BY DEF PlaceInv
    <3>2. Placed(calls[i], i, DOMAIN val')
      BY <3>1, PlacedWith
    <3> QED BY <1>2, <2>2, <3>2
  <2> QED BY <2>1, <2>2
<1>6. \A i \in 1 .. Depth' : Placed(calls[i], i, DOMAIN val)'
  BY <1>2, <1>5 DEF Placed, Piece, Outside, Halves, PartNames, Whole
<1> QED BY <1>4, <1>6 DEF PlaceInv

(* The next step of the same body, after some values have been stored.     *)
LEMMA StepPlaces ==
  ASSUME StackInv, PlaceInv, ValueInv, NEW kind, At(kind),
         NEW g, calls' = [calls EXCEPT ![Depth] = g],
         g.pc = Frame.pc + 1, g.plan = Frame.plan, g.parts = Frame.parts, g.delim = Frame.delim,
         g.signs = Frame.signs \/ \A x \in DOMAIN g.signs : g.signs[x] \in Int,
         val' = [n \in DOMAIN val' |-> val'[n]],
         DOMAIN val \subseteq DOMAIN val', DOMAIN val' \subseteq DOMAIN val \cup ({Depth} \X Locals),
         \A n \in DOMAIN val' : val'[n] \in Int,
         \A j \in 1 .. Len(tempStack') : tempStack'[j] \in DOMAIN val'
  PROVE  PlaceInv'
<1>1. Running /\ Frame.pc \in 1 .. Len(Steps(Frame.plan))
  BY AtStep
<1>2. Placed(Frame, Depth, DOMAIN val) /\ Depth \in Nat
  BY <1>1, InnermostPlaced
<1>3. Placed(Frame, Depth, DOMAIN val')
  BY <1>2, PlacedWith
<1>4. Placed(g, Depth, DOMAIN val')
  BY <1>3 DEF Placed
<1>5. g.pc > 0
  BY <1>1
<1> QED BY <1>1, <1>4, <1>5, PlacesOn

(* What Onward leaves as it is.                                            *)
LEMMA OnwardIs ==
  ASSUME StackInv, NEW kind, At(kind)
  PROVE  /\ Onward(Frame).pc = Frame.pc + 1 /\ Onward(Frame).plan = Frame.plan
         /\ Onward(Frame).parts = Frame.parts /\ Onward(Frame).delim = Frame.delim
         /\ Onward(Frame).signs = Frame.signs /\ Onward(Frame).height = Frame.height
<1>1. Running
  BY DEF At
<1>2. Fields \subseteq DOMAIN Frame
  BY <1>1, Innermost DEF Activated
<1> QED BY <1>2 DEF Onward, Fields

(* A step that stores a result.                                            *)
LEMMA StorePlaces ==
  ASSUME StackInv, PlaceInv, ValueInv, NEW kind, At(kind), NEW x, NEW v \in Int, Puts(x, v)
  PROVE  PlaceInv'
<1>1. calls' = [calls EXCEPT ![Depth] = Onward(Frame)] /\ tempStack' = tempStack
  BY DEF Puts, Proceed, Onward, Frame
<1>2. /\ DOMAIN val' = DOMAIN val /\ val' = [n \in DOMAIN val' |-> val'[n]]
      /\ \A n \in DOMAIN val : val'[n] = IF n = Target(x) THEN v ELSE val[n]
  BY DEF Puts
<1>3. \A n \in DOMAIN val' : val'[n] \in Int
  BY <1>2 DEF PlaceInv, Numbers
<1>4. \A j \in 1 .. Len(tempStack') : tempStack'[j] \in DOMAIN val'
  BY <1>1, <1>2 DEF PlaceInv, Numbers
<1> QED BY <1>1, <1>2, <1>3, <1>4, OnwardIs, StepPlaces

(* A step that fails stores nothing.                                       *)
LEMMA FailPlaces ==
  ASSUME PlaceInv, UNCHANGED <<val, calls, tempStack>>
  PROVE  PlaceInv'
<1>1. Depth' = Depth
  BY DEF Depth
<1>2. Numbers'
  BY <1>1 DEF PlaceInv, Numbers
<1>3. \A i \in 1 .. Depth : Placed(calls[i], i, DOMAIN val)'
  BY DEF PlaceInv, Placed, Piece, Outside, Halves, PartNames, Whole
<1> QED BY <1>1, <1>2, <1>3 DEF PlaceInv

(* What split, add, sub, shift and the steps for signs name can be used.   *)
LEMMA StepUses ==
  ASSUME StackInv, PlaceInv, ValueInv, NEW kind, At(kind)
  PROVE  /\ kind = "split" => Usable(Arg(1)) /\ Usable(Arg(2)) /\ Usable(Arg(3))
         /\ kind = "mul" => Usable(Arg(1)) /\ Usable(Arg(2)) /\ Usable(Arg(3))
         /\ kind \in {"add", "sub", "sqr"} => Usable(Arg(1)) /\ Usable(Arg(2))
         /\ kind \in {"shift", "abs", "restore"} => Usable(Arg(1))
         /\ kind = "sign" => Usable("a") /\ Usable("b") /\ Usable("c")
         /\ kind = "positive" => Usable("a")
<1>1. Running
  BY DEF At
<1>2. Sites(kind)
  BY KindIs
<1>3. /\ Usable("a") /\ Usable("b")
      /\ Frame.plan \in {"zmul", "zmul_ll"} => Usable("c")
      /\ Frame.plan \in {"high_only", "both_parts"} => Usable("low") /\ Usable("high")
      /\ Frame.plan = "zmul_ll" /\ Frame.pc \in 5 .. 18 =>
           Usable("b_high") /\ Usable("b_low") /\ Usable("c_high") /\ Usable("c_low")
      /\ Frame.plan = "both_parts" /\ Frame.pc \in 3 .. 10 => Usable("z0") /\ Usable("z1")
  BY <1>1, UsableAt
<1> HIDE DEF Usable
<1>4. kind = "split" => Usable(Arg(1)) /\ Usable(Arg(2)) /\ Usable(Arg(3))
  BY <1>2, <1>3 DEF Sites, Is, Names3
<1>5. kind = "mul" => Usable(Arg(1)) /\ Usable(Arg(2)) /\ Usable(Arg(3))
  BY <1>2, <1>3 DEF Sites, Is, Names3
<1>6. kind \in {"add", "sub", "sqr"} => Usable(Arg(1)) /\ Usable(Arg(2))
  BY <1>2, <1>3 DEF Sites, Is, Names2
<1>7. kind \in {"shift", "abs", "restore"} => Usable(Arg(1))
  BY <1>2, <1>3 DEF Sites, Is, Names1, Names3
<1>8. (kind = "sign" => Usable("a") /\ Usable("b") /\ Usable("c")) /\ (kind = "positive" => Usable("a"))
  BY <1>2, <1>3 DEF Sites, Is
<1> QED BY <1>4, <1>5, <1>6, <1>7, <1>8

(* Signs and magnitudes are integers, and so are products.                 *)
LEMMA SignsAreInts ==
  ASSUME NEW v \in Int
  PROVE  Abs(v) \in Int /\ Abs(v) \in Nat /\ Sign(v) \in Int /\ (\A w \in Int : v * w \in Int)
BY Magnitude

(* What an addition stores.                                                *)
LEMMA AddPuts ==
  ASSUME Add, Read(Part(Arg(1))) \in Int, Read(Part(Arg(2))) \in Int
  PROVE  \/ Fail
         \/ Puts(Arg(1), IF Read(Part(Arg(2))) = 0 THEN Read(Part(Arg(1)))
                        ELSE Abs(Read(Part(Arg(1)))) + Abs(Read(Part(Arg(2)))))
<1> DEFINE a == Read(Part(Arg(1)))
           b == Read(Part(Arg(2)))
<1>1. \/ Fail
      \/ b = 0 /\ Puts(Arg(1), a)
      \/ b # 0 /\ a = 0 /\ Puts(Arg(1), Abs(b))
      \/ b # 0 /\ Puts(Arg(1), Abs(a) + Abs(b))
  BY StorePuts DEF Add
<1>2. a = 0 => Abs(a) + Abs(b) = Abs(b)
  BY Magnitude DEF Abs
<1> HIDE DEF a, b
<1>3. CASE Fail
  BY <1>3
<1>4. CASE b = 0 /\ Puts(Arg(1), a)
  BY <1>4 DEF a, b
<1>5. CASE b # 0 /\ Puts(Arg(1), Abs(a) + Abs(b))
  BY <1>5 DEF a, b
<1> QED BY <1>1, <1>2, <1>3, <1>4, <1>5

(* An addition.                                                            *)
LEMMA AddPlaces ==
  ASSUME StackInv, PlaceInv, ValueInv, Add
  PROVE  PlaceInv'
<1> DEFINE a == Read(Part(Arg(1)))
           b == Read(Part(Arg(2)))
<1>1. At("add")
  BY DEF Add
<1>2. a \in Int /\ b \in Int
  BY <1>1, StepUses DEF Usable
<1>3. Fail \/ Puts(Arg(1), IF b = 0 THEN a ELSE Abs(a) + Abs(b))
  BY <1>2, AddPuts
<1> HIDE DEF a, b
<1>4. (IF b = 0 THEN a ELSE Abs(a) + Abs(b)) \in Int
  BY <1>2, SignsAreInts
<1> QED BY <1>1, <1>3, <1>4, StorePlaces, FailPlaces DEF Fail

(* The limbs of a number, the least power of the base above it, and what   *)
(* zcmpmag makes of their number.                                          *)
LEMMA LimbsAreNat ==
  ASSUME NEW v \in Int
  PROVE  /\ Limbs(v) \in Nat
         /\ \A n, m \in Nat : Compared(v, n, m) \in Nat
         /\ \A n \in Nat : Carried(v, n) \in Nat
<1>1. Bits(v) \in Nat /\ BitsPerChar \in Nat /\ BitsPerChar >= 2
  BY BitsOf, BitsAssumption
<1> DEFINE w == Bits(v) + BitsPerChar - 1
<1>2. w \in Nat /\ BitsPerChar \in Nat \ {0}
  BY <1>1
<1>3. Limbs(v) = w \div BitsPerChar
  BY DEF Limbs
<1> HIDE DEF w
<1>4. Limbs(v) \in Nat
  BY <1>2, <1>3, Halved
<1> QED BY <1>4 DEF Compared, Carried

LEMMA WeightIs ==
  ASSUME NEW n \in Nat
  PROVE  Weight(n, BitsPerChar) \in Nat \ {0}
<1>1. BitsPerChar * n \in Nat
  BY BitsAssumption
<1> QED BY <1>1, Positive DEF Weight

(* What a difference stores: the difference, unless an inner limb lends.   *)
LEMMA SubtractPuts ==
  ASSUME UsedInv, Subtract, NEW a \in Nat, NEW b \in Nat,
         a = Abs(Read(Part(Arg(1)))), b = Abs(Read(Part(Arg(2)))),
         Target(Arg(1)) \in DOMAIN val, Target(Arg(2)) \in DOMAIN val
  PROVE  \/ Puts(Arg(1), a) /\ (b = 0 \/ a = 0) /\ loan' = loan
         \/ Puts(Arg(1), Sign(val[Target(Arg(1))]) * (a - b)) /\ b <= a /\ loan' = loan
         \/ /\ loan' = TRUE
            /\ \E v \in Int : Puts(Arg(1), Sign(val[Target(Arg(1))]) * v)
         \/ /\ a < b /\ loan' = loan
            /\ \E v \in Int : Puts(Arg(1), Sign(val[Target(Arg(1))]) * v)
<1> DEFINE p  == Target(Arg(1))
           q  == Target(Arg(2))
           na == Compared(a, used[p], used[q])
           nb == Compared(b, used[q], used[p])
           lenders == LendersOfOne(a, b, nb, na, BitsPerChar)
<1>1. used[p] \in Nat /\ used[q] \in Nat
  BY DEF UsedInv
<1>2. na \in Nat /\ nb \in Nat
  <2>1. a \in Int /\ b \in Int
    OBVIOUS
  <2> QED BY <1>1, <2>1, LimbsAreNat
<1>3. \/ /\ b = 0 \/ a = 0
         /\ Puts(Arg(1), a) /\ loan' = loan
      \/ b <= a /\ Puts(Arg(1), Sign(val[p]) * (a - b)) /\ loan' = loan
      \/ /\ \E i \in lenders \ {na - 1} : Puts(Arg(1), Sign(val[p]) * LentByInner(a, b, i, na, BitsPerChar))
         /\ loan' = TRUE
      \/ /\ a < b /\ loan' = loan
         /\ \E n \in {na - 1, na} \cap Nat : Puts(Arg(1), Sign(val[p]) * ((a - b) % Weight(n, BitsPerChar)))
  BY ResignPuts DEF Subtract, Puts, Resign, Store
<1> HIDE DEF na, nb, p, q
<1>4. ASSUME NEW i \in lenders \ {na - 1}
      PROVE  LentByInner(a, b, i, na, BitsPerChar) \in Int
  <2>1. i \in Nat /\ na - 1 \in Nat
    BY <1>2, <1>4 DEF LendersOfOne
  <2> DEFINE m == Weight(na - 1, BitsPerChar)
             k == Weight(i, BitsPerChar)
  <2>2. m \in Nat \ {0} /\ k \in Nat
    BY <2>1, WeightIs
  <2>3. LentByInner(a, b, i, na, BitsPerChar) = (a % m) - b + k
    BY DEF LentByInner
  <2> HIDE DEF m, k
  <2>4. a % m \in Nat
    BY <2>2, Halved
  <2> QED BY <2>2, <2>3, <2>4
<1>5. ASSUME NEW n \in {na - 1, na} \cap Nat
      PROVE  (a - b) % Weight(n, BitsPerChar) \in Int
  <2> DEFINE m == Weight(n, BitsPerChar)
  <2>1. m \in Nat \ {0}
    BY WeightIs
  <2> HIDE DEF m
  <2>2. a - b \in Int /\ m \in Nat \ {0}
    BY <2>1
  <2>3. (a - b) % m \in 0 .. m - 1
    BY <2>2, DivMod
  <2> QED BY <2>2, <2>3 DEF m
<1> QED BY <1>3, <1>4, <1>5 DEF p

(* A subtraction.                                                          *)
LEMMA SubtractPlaces ==
  ASSUME StackInv, PlaceInv, ValueInv, UsedInv, Subtract
  PROVE  PlaceInv'
<1> DEFINE a == Abs(Read(Part(Arg(1))))
           b == Abs(Read(Part(Arg(2))))
           s == Sign(val[Target(Arg(1))])
<1>1. At("sub")
  BY DEF Subtract
<1>2. /\ a \in Nat /\ b \in Nat
      /\ Target(Arg(1)) \in DOMAIN val /\ Target(Arg(2)) \in DOMAIN val
  BY <1>1, StepUses, SignsAreInts DEF Usable
<1>3. s \in Int
  BY <1>2, SignsAreInts DEF PlaceInv, Numbers
<1>4. Puts(Arg(1), a) \/ \E v \in Int : Puts(Arg(1), s * v)
  <2>1. b <= a => a - b \in Int
    BY <1>2
  <2> QED BY <1>2, <2>1, SubtractPuts
<1> HIDE DEF a, b, s
<1>5. ASSUME NEW v \in Int, Puts(Arg(1), s * v)
      PROVE  PlaceInv'
  <2>1. s * v \in Int
    BY <1>3
  <2> QED BY <1>1, <1>5, <2>1, StorePlaces
<1>6. CASE Puts(Arg(1), a)
  <2>1. a \in Int
    BY <1>2
  <2> QED BY <1>1, <1>6, <2>1, StorePlaces
<1> QED BY <1>4, <1>5, <1>6

(* A shift.                                                                *)
LEMMA ShiftPlaces ==
  ASSUME StackInv, PlaceInv, ValueInv, Shift
  PROVE  PlaceInv'
<1> DEFINE a == Read(Part(Arg(1)))
           k == Arg(2) * Frame.delim + Arg(3)
           m == 2 ^ k
<1>1. At("shift")
  BY DEF Shift
<1>2. a \in Int
  BY <1>1, StepUses DEF Usable
<1>3. \/ Puts(Arg(1), a * m)
      \/ Fail
  BY StorePuts DEF Shift
<1>4. Frame.delim \in Nat
  <2>1. Running
    BY <1>1 DEF At
  <2> QED BY <2>1, InnermostPlaced DEF Placed
<1>5. Arg(2) \in {1, 2} /\ Arg(3) \in {0, 1}
  <2>1. Sites("shift")
    BY <1>1, KindIs
  <2> QED BY <2>1 DEF Sites, Names3
<1>6. k \in Nat
  BY <1>4, <1>5
<1> HIDE DEF k
<1>7. m \in Nat
  BY <1>6, Positive
<1> HIDE DEF a, m
<1>8. a * m \in Int
  BY <1>2, <1>7
<1> QED BY <1>1, <1>3, <1>8, StorePlaces, FailPlaces DEF Fail

(* A split.                                                                *)
LEMMA SplitPlaces ==
  ASSUME StackInv, PlaceInv, ValueInv, Split
  PROVE  PlaceInv'
<1> DEFINE v == Read(Part(Arg(3)))
           n == 2 ^ Frame.delim
           high == Sign(v) * (Abs(v) \div n)
           low  == Sign(v) * (Abs(v) % n)
<1>1. At("split")
  BY DEF Split
<1>2. v \in Int
  BY <1>1, StepUses DEF Usable
<1>3. Frame.delim \in Nat
  <2>1. Running
    BY <1>1 DEF At
  <2> QED BY <2>1, InnermostPlaced DEF Placed
<1>4. \/ /\ val' = [val EXCEPT ![Target(Arg(1))] = high, ![Target(Arg(2))] = low]
         /\ Proceed /\ UNCHANGED tempStack
      \/ Fail
  BY DEF Split
<1>5. high \in Int /\ low \in Int
  <2> HIDE DEF v
  <2>1. n \in Nat \ {0} /\ Abs(v) \in Nat /\ Sign(v) \in Int
    BY <1>2, <1>3, Positive, SignsAreInts
  <2> DEFINE w == Abs(v)
             q == w \div n
             r == w % n
  <2> HIDE DEF n, w
  <2>2. q \in Int /\ r \in Int
    BY <2>1, Halved DEF w
  <2> HIDE DEF q, r
  <2>3. Sign(v) * q \in Int /\ Sign(v) * r \in Int
    BY <2>1, <2>2
  <2> QED BY <2>3 DEF q, r, w
<1> HIDE DEF high, low
<1>6. ASSUME val' = [val EXCEPT ![Target(Arg(1))] = high, ![Target(Arg(2))] = low],
             Proceed, tempStack' = tempStack
      PROVE  PlaceInv'
  <2>1. calls' = [calls EXCEPT ![Depth] = Onward(Frame)]
    BY <1>6 DEF Proceed, Onward, Frame
  <2>2. /\ DOMAIN val' = DOMAIN val /\ val' = [m \in DOMAIN val' |-> val'[m]]
        /\ \A m \in DOMAIN val : val'[m] \in {high, low, val[m]}
    BY <1>6
  <2>3. \A m \in DOMAIN val' : val'[m] \in Int
    BY <1>5, <2>2 DEF PlaceInv, Numbers
  <2>4. \A j \in 1 .. Len(tempStack') : tempStack'[j] \in DOMAIN val'
    BY <1>6, <2>2 DEF PlaceInv, Numbers
  <2> QED BY <1>1, <2>1, <2>2, <2>3, <2>4, OnwardIs, StepPlaces
<1> QED BY <1>4, <1>6, FailPlaces DEF Fail

(* zinit_temp and zfree_temp.                                              *)
LEMMA InitTempPlaces ==
  ASSUME StackInv, PlaceInv, ValueInv, InitTemp
  PROVE  PlaceInv'
<1>1. At("init") /\ Running
  BY DEF InitTemp, At
<1>2. CASE Fail
  BY <1>2, FailPlaces DEF Fail
<1>3. ASSUME tempStack' = Append(tempStack, Local(Arg(1))),
             val' = Having(val, Local(Arg(1)), 0), Proceed
      PROVE  PlaceInv'
  <2> DEFINE l == Local(Arg(1))
  <2>1. /\ Frame.plan \in Plans /\ Frame.pc \in 1 .. Len(Steps(Frame.plan))
        /\ Steps(Frame.plan)[Frame.pc][1] = "init"
        /\ Arg(1) = Steps(Frame.plan)[Frame.pc][2]
    BY <1>1, AtStep
  <2>2. Arg(1) \in Locals
    BY <2>1, NextTemp
  <2>3. Depth \in Nat
    BY <1>1, Innermost
  <2>4. l \in {Depth} \X Locals
    BY <2>2 DEF Local
  <2>5. calls' = [calls EXCEPT ![Depth] = Onward(Frame)]
    BY <1>3 DEF Proceed, Onward, Frame
  <2>6. tempStack' = Append(tempStack, l) /\ val' = Having(val, l, 0)
    BY <1>3
  <2> HIDE DEF l
  <2>7. /\ DOMAIN val' = DOMAIN val \cup {l} /\ val' = [m \in DOMAIN val' |-> val'[m]]
        /\ \A m \in DOMAIN val' : val'[m] = IF m = l THEN 0 ELSE val[m]
    BY <2>6 DEF Having
  <2>8. \A m \in DOMAIN val' : val'[m] \in Int
    BY <2>7 DEF PlaceInv, Numbers
  <2>9. ASSUME NEW j \in 1 .. Len(tempStack')
        PROVE  tempStack'[j] \in DOMAIN val'
    <3>1. tempStack \in Seq(Nat \X Locals) /\ Len(tempStack) \in Nat
      BY DEF StackInv, Shape
    <3>2. /\ Len(tempStack') = Len(tempStack) + 1 /\ tempStack'[Len(tempStack) + 1] = l
          /\ \A k \in 1 .. Len(tempStack) : tempStack'[k] = tempStack[k]
      <4>1. l \in Nat \X Locals
        BY <2>3, <2>4
      <4> QED BY <2>6, <3>1, <4>1, AppendProperties
    <3>3. CASE j = Len(tempStack) + 1
      BY <2>7, <3>2, <3>3
    <3>4. CASE j \in 1 .. Len(tempStack)
      BY <2>7, <3>2, <3>4 DEF PlaceInv, Numbers
    <3> QED BY <3>1, <3>2, <3>3, <3>4
  <2> QED BY <1>1, <2>4, <2>5, <2>7, <2>8, <2>9, OnwardIs, StepPlaces
<1> QED BY <1>2, <1>3 DEF InitTemp

(* A temporary that is freed is still a local.                             *)
LEMMA FreeTempPlaces ==
  ASSUME StackInv, PlaceInv, ValueInv, FreeTemp
  PROVE  PlaceInv'
<1>1. At("free") /\ Running
  BY DEF FreeTemp, At
<1>2. calls' = [calls EXCEPT ![Depth] = Onward(Frame)] /\ val' = val /\ tempStack' = Front(tempStack)
  BY DEF FreeTemp, Proceed, Onward, Frame
<1>3. Len(tempStack) > 0
  <2>1. StackOrder
    BY InOrder
  <2>2. tempStack \in Seq(Nat \X Locals)
    BY DEF StackInv, Shape
  <2>3. tempStack # <<>>
    BY <1>1, <2>1 DEF StackOrder
  <2> QED BY <2>2, <2>3, EmptySeq, LenProperties
<1>4. ASSUME NEW j \in 1 .. Len(tempStack')
      PROVE  tempStack'[j] \in DOMAIN val'
  <2>1. tempStack \in Seq(Nat \X Locals) /\ Len(tempStack) \in Nat
    BY DEF StackInv, Shape
  <2>2. /\ Len(tempStack') = Len(tempStack) - 1
        /\ \A i \in 1 .. Len(tempStack) - 1 : tempStack'[i] = tempStack[i]
    BY <1>2, <1>3, <2>1, FrontIsShorter
  <2>3. j \in 1 .. Len(tempStack) - 1 /\ j \in 1 .. Len(tempStack)
    BY <2>1, <2>2
  <2> QED BY <1>2, <2>2, <2>3 DEF PlaceInv, Numbers
<1>5. /\ val' = [n \in DOMAIN val' |-> val'[n]] /\ DOMAIN val' = DOMAIN val
      /\ \A n \in DOMAIN val' : val'[n] \in Int
  BY <1>2 DEF PlaceInv, Numbers
<1> QED BY <1>1, <1>2, <1>4, <1>5, OnwardIs, StepPlaces

(* The steps that deal with signs.                                         *)
LEMMA TakeSignPlaces ==
  ASSUME StackInv, PlaceInv, ValueInv, TakeSign
  PROVE  PlaceInv'
<1> DEFINE v == Read(Part(Arg(1)))
           g == [Frame EXCEPT !.pc = @ + 1, !.signs = Having(@, Arg(1), Sign(v))]
<1>1. At("abs") /\ Running
  BY DEF TakeSign, At
<1>2. v \in Int
  BY <1>1, StepUses DEF Usable
<1>3. /\ val' = [val EXCEPT ![Target(Arg(1))] = Abs(v)] /\ tempStack' = tempStack
      /\ calls' = [calls EXCEPT ![Depth] = g]
  BY DEF TakeSign, Frame
<1>4. Fields \subseteq DOMAIN Frame
  BY <1>1, Innermost DEF Activated
<1>5. g.pc = Frame.pc + 1 /\ g.plan = Frame.plan /\ g.parts = Frame.parts /\ g.delim = Frame.delim
  BY <1>4 DEF Fields
<1>10. \A x \in DOMAIN g.signs : g.signs[x] \in Int
  <2>1. g.signs = Having(Frame.signs, Arg(1), Sign(v))
    BY <1>4 DEF Fields
  <2>2. \A x \in DOMAIN Frame.signs : Frame.signs[x] \in Int
    BY <1>1, InnermostPlaced DEF Placed
  <2>3. Sign(v) \in Int
    BY <1>2, SignsAreInts
  <2> HIDE DEF v, g
  <2> QED BY <2>1, <2>2, <2>3 DEF Having
<1> HIDE DEF v, g
<1>6. Abs(v) \in Int
  BY <1>2, SignsAreInts
<1>7. /\ DOMAIN val' = DOMAIN val /\ val' = [m \in DOMAIN val' |-> val'[m]]
      /\ \A m \in DOMAIN val : val'[m] \in {Abs(v), val[m]}
  BY <1>3
<1>8. \A m \in DOMAIN val' : val'[m] \in Int
  BY <1>6, <1>7 DEF PlaceInv, Numbers
<1>9. \A j \in 1 .. Len(tempStack') : tempStack'[j] \in DOMAIN val'
  BY <1>3, <1>7 DEF PlaceInv, Numbers
<1> QED BY <1>1, <1>3, <1>5, <1>7, <1>8, <1>9, <1>10, StepPlaces

(* zmul's outermost activation has noted the sign it gives back.           *)
LEMMA GiveSignPlaces ==
  ASSUME StackInv, PlaceInv, ValueInv, GiveSign
  PROVE  PlaceInv'
<1> DEFINE v == Read(Part(Arg(1)))
           s == Frame.signs[Arg(1)]
<1>1. At("restore") /\ Puts(Arg(1), s * Abs(v))
  BY ResignPuts DEF GiveSign
<1>2. v \in Int
  BY <1>1, StepUses DEF Usable
<1>4. s \in Int
  <2>1. Running
    BY <1>1 DEF At
  <2>2. /\ Serves(Frame, Depth) /\ Depth \in 1 .. Depth
        /\ \A x \in DOMAIN Frame.signs : Frame.signs[x] \in Int
    BY <2>1, InnermostPlaced DEF Placed
  <2>3. Sites("restore")
    BY <1>1, KindIs
  <2>4. Depth = 1 /\ Frame.plan = "zmul"
    BY <2>2, <2>3 DEF Sites, Is, Serves
  <2>5. Noted(Frame)
    BY <2>2, <2>4 DEF ValueInv, Served, Frame
  <2>6. Arg(1) \in DOMAIN Frame.signs
    BY <2>3, <2>4, <2>5 DEF Sites, Is, Names1, Noted
  <2> QED BY <2>2, <2>6
<1> HIDE DEF v, s
<1>3. s * Abs(v) \in Int
  <2>1. Abs(v) \in Int /\ s \in Int
    BY <1>2, <1>4, SignsAreInts
  <2> QED BY <2>1
<1> QED BY <1>1, <1>3, StorePlaces

(* The sign of the product.                                                *)
LEMMA SetSignPlaces ==
  ASSUME StackInv, PlaceInv, ValueInv, SetSign
  PROVE  PlaceInv'
<1> DEFINE a == Read(Part("a"))
           b == Read(Part("b"))
           c == Read(Part("c"))
<1>1. At("sign") /\ Puts("a", Abs(a) * Sign(b) * Sign(c))
  BY ResignPuts DEF SetSign
<1>2. a \in Int /\ b \in Int /\ c \in Int
  BY <1>1, StepUses DEF Usable
<1> HIDE DEF a, b, c
<1>3. Abs(a) \in Int /\ Sign(b) \in Int /\ Sign(c) \in Int
  BY <1>2, SignsAreInts
<1>4. Abs(a) * Sign(b) \in Int
  BY <1>3
<1>5. Abs(a) * Sign(b) * Sign(c) \in Int
  BY <1>3, <1>4
<1> QED BY <1>1, <1>5, StorePlaces

(* The sign of a square.                                                   *)
LEMMA SetPositivePlaces ==
  ASSUME StackInv, PlaceInv, ValueInv, SetPositive
  PROVE  PlaceInv'
<1> DEFINE a == Read(Part("a"))
<1>1. At("positive") /\ Puts("a", Abs(a))
  BY ResignPuts DEF SetPositive
<1>2. a \in Int
  BY <1>1, StepUses DEF Usable
<1> HIDE DEF a
<1>3. Abs(a) \in Int
  BY <1>2, SignsAreInts
<1> QED BY <1>1, <1>3, StorePlaces

(* A function returns, and its locals are gone.                            *)
LEMMA ReturnPlaces ==
  ASSUME StackInv, PlaceInv, Running, Count(Frame) = 0, Return,
         val' = [n \in DOMAIN val' |-> val'[n]],
         DOMAIN val' = Outlive, \A n \in DOMAIN val' : val'[n] \in Int
  PROVE  PlaceInv'
<1>1. /\ Stacked /\ Depth \in Nat /\ Depth \in 1 .. Depth
      /\ Len(tempStack) = Frame.height + Count(Frame) /\ Frame.height \in Nat
  BY Innermost
<1>2. Depth' = Depth - 1 /\ \A i \in 1 .. Depth - 1 : calls'[i] = calls[i]
  BY Ends
<1>3. tempStack' = tempStack
  BY DEF Return
<1>4. ASSUME NEW n \in DOMAIN val' \ Reg
      PROVE  n \in (1 .. Depth') \X Locals /\ calls'[n[1]].pc > 0
  <2>1. n \in DOMAIN val /\ n[1] < Depth
    BY <1>4 DEF Outlive
  <2>2. n \in (1 .. Depth) \X Locals /\ calls[n[1]].pc > 0
    BY <1>4, <2>1 DEF PlaceInv, Numbers
  <2>3. n = <<n[1], n[2]>> /\ n[1] \in 1 .. Depth /\ n[2] \in Locals
    BY <2>2
  <2>4. n[1] \in 1 .. Depth - 1
    BY <1>1, <2>1, <2>3
  <2>5. n \in (1 .. Depth - 1) \X Locals
    BY <2>3, <2>4
  <2> QED BY <1>2, <2>2, <2>4, <2>5
<1>5. ASSUME NEW j \in 1 .. Len(tempStack')
      PROVE  tempStack'[j] \in DOMAIN val'
  <2>1. j \in 1 .. Frame.height /\ j \in 1 .. Len(tempStack)
    BY <1>1, <1>3
  <2>2. tempStack[j][1] < Depth
    BY <1>1, <2>1 DEF Stacked, Frame
  <2> QED BY <1>3, <2>1, <2>2 DEF PlaceInv, Numbers, Outlive
<1>6. Reg \subseteq DOMAIN val'
  BY DEF PlaceInv, Numbers, Outlive
<1>7. Numbers'
  BY <1>4, <1>5, <1>6 DEF Numbers
<1>8. ASSUME NEW i \in 1 .. Depth - 1
      PROVE  Placed(calls'[i], i, DOMAIN val')
  <2>1. i \in Nat /\ i \in 1 .. Depth /\ i < Depth
    BY <1>1
  <2>2. Placed(calls[i], i, DOMAIN val)
    BY <2>1 DEF PlaceInv
  <2>3. ASSUME NEW n \in DOMAIN val \cap (Outside(i) \cup ({i} \X Locals))
        PROVE  n \in DOMAIN val'
    <3>1. n \in Reg \/ n[1] \in 1 .. i - 1 \/ n[1] = i
      BY <2>3 DEF Outside
    <3>2. n \in Reg \/ n[1] < Depth
      BY <1>1, <2>1, <3>1
    <3> QED BY <2>3, <3>2 DEF Outlive
  <2>4. Placed(calls[i], i, DOMAIN val')
    BY <2>1, <2>2, <2>3, PlacedWith
  <2> QED BY <1>2, <2>4
<1>9. \A i \in 1 .. Depth' : Placed(calls[i], i, DOMAIN val)'
  BY <1>2, <1>8 DEF Placed, Piece, Outside, Halves, PartNames, Whole
<1> QED BY <1>7, <1>9 DEF PlaceInv

(* Before its first step an activation has no locals that could go.        *)
LEMMA NoLocals ==
  ASSUME StackInv, PlaceInv, Entering
  PROVE  Outlive = DOMAIN val
<1>1. Frame.pc = 0 /\ Depth \in Nat
  BY AtEntry, Innermost
<1>2. ASSUME NEW n \in DOMAIN val, n \notin Reg
      PROVE  n[1] < Depth
  <2>1. n[1] \in 1 .. Depth /\ calls[n[1]].pc > 0
    BY <1>2 DEF PlaceInv, Numbers
  <2>2. n[1] # Depth
    BY <1>1, <2>1 DEF Frame
  <2> QED BY <1>1, <2>1, <2>2
<1> QED BY <1>2 DEF Outlive

(* An easy case: the result is stored, and the function returns.           *)
LEMMA ResultPlaces ==
  ASSUME StackInv, PlaceInv, Entering, Return, NEW v \in Int,
         val' = [val EXCEPT ![Target("a")] = v]
  PROVE  PlaceInv'
<1>1. Running /\ Count(Frame) = 0
  BY AtEntry
<1>2. /\ DOMAIN val' = DOMAIN val /\ val' = [n \in DOMAIN val' |-> val'[n]]
      /\ \A n \in DOMAIN val : val'[n] \in {v, val[n]}
  OBVIOUS
<1>3. \A n \in DOMAIN val' : val'[n] \in Int
  BY <1>2 DEF PlaceInv, Numbers
<1>4. DOMAIN val' = Outlive
  BY <1>2, NoLocals
<1> QED BY <1>1, <1>2, <1>3, <1>4, ReturnPlaces

(* The square of zero.                                                     *)
LEMMA SquareNothingPlaces ==
  ASSUME StackInv, PlaceInv, SquareNothing
  PROVE  PlaceInv'
<1>1. Entering /\ Return /\ val' = [val EXCEPT ![Target("a")] = 0]
  BY DEF SquareNothing
<1>2. 0 \in Int
  OBVIOUS
<1> QED BY <1>1, <1>2, ResultPlaces

(* The locals of an activation end with it.                                *)
LEMMA LeaveFunctionPlaces ==
  ASSUME StackInv, PlaceInv, LeaveFunction
  PROVE  PlaceInv'
<1>1. Finished /\ Return /\ val' = Keeping(val, Outlive)
  BY DEF LeaveFunction
<1>2. Running /\ Count(Frame) = 0
  BY <1>1, AtEnd
<1>3. /\ DOMAIN val' = Outlive /\ val' = [n \in DOMAIN val' |-> val'[n]]
      /\ \A n \in DOMAIN val' : val'[n] = val[n]
  BY <1>1 DEF Keeping
<1>4. \A n \in DOMAIN val' : val'[n] \in Int
  BY <1>3 DEF PlaceInv, Numbers, Outlive
<1> QED BY <1>1, <1>2, <1>3, <1>4, ReturnPlaces

(* zmul and zsqr begin.                                                    *)
LEMMA EnterZmulPlaces ==
  ASSUME StackInv, PlaceInv, ValueInv, EnterZmul
  PROVE  PlaceInv'
<1>1. Entering /\ Proceed /\ tempStack' = tempStack /\ val' = val
  BY DEF EnterZmul
<1>2. Running /\ Frame.pc = 0 /\ Activated(Frame)
  BY <1>1, AtEntry
<1>3. calls' = [calls EXCEPT ![Depth] = Onward(Frame)]
  BY <1>1 DEF Proceed, Onward, Frame
<1>4. /\ Onward(Frame).pc = 1 /\ Onward(Frame).plan = Frame.plan
      /\ Onward(Frame).parts = Frame.parts /\ Onward(Frame).delim = Frame.delim
      /\ Onward(Frame).signs = Frame.signs
  BY <1>2 DEF Onward, Activated, Fields
<1>5. Placed(Frame, Depth, DOMAIN val)
  BY <1>2, InnermostPlaced
<1>6. Placed(Onward(Frame), Depth, DOMAIN val') /\ Onward(Frame).pc > 0
  BY <1>1, <1>4, <1>5 DEF Placed
<1>7. /\ val' = [n \in DOMAIN val' |-> val'[n]] /\ DOMAIN val' = DOMAIN val
      /\ \A n \in DOMAIN val' : val'[n] \in Int
      /\ \A j \in 1 .. Len(tempStack') : tempStack'[j] \in DOMAIN val'
  BY <1>1 DEF PlaceInv, Numbers
<1> QED BY <1>2, <1>3, <1>6, <1>7, PlacesOn

(* zmul_ll multiplies at once, or chooses where to split.                  *)
LEMMA EnterZmulLlPlaces ==
  ASSUME StackInv, PlaceInv, ValueInv, EnterZmulLl
  PROVE  PlaceInv'
<1> DEFINE b == Read(Part("b"))
           c == Read(Part("c"))
           longer == IF Bits(b) > Bits(c) THEN Bits(b) ELSE Bits(c)
           delim == longer \div 2
<1>1. Entering /\ Frame.plan = "zmul_ll"
  BY DEF EnterZmulLl
<1>2. Running /\ Activated(Frame) /\ Placed(Frame, Depth, DOMAIN val)
  BY <1>1, AtEntry, InnermostPlaced
<1>3. b \in Int /\ c \in Int
  BY <1>1, <1>2, UsableAt DEF Usable
<1>4. \/ val' = [val EXCEPT ![Target("a")] = 0] /\ Return
      \/ val' = [val EXCEPT ![Target("a")] = Abs(b) * Abs(c)] /\ Return
      \/ Fail
      \/ /\ calls' = [calls EXCEPT ![Depth].pc = 1, ![Depth].delim = delim]
         /\ UNCHANGED <<val, tempStack>>
  BY DEF EnterZmulLl
<1> HIDE DEF b, c
<1>5. Abs(b) * Abs(c) \in Int
  <2>1. Abs(b) \in Int /\ Abs(c) \in Int
    BY <1>3, SignsAreInts
  <2> QED BY <2>1
<1>6. delim \in Nat
  <2>1. Bits(b) \in Nat /\ Bits(c) \in Nat
    BY <1>3, BitsOf
  <2>2. longer \in Nat
    BY <2>1
  <2> HIDE DEF longer
  <2> QED BY <2>2
<1> HIDE DEF delim
<1>7. ASSUME calls' = [calls EXCEPT ![Depth].pc = 1, ![Depth].delim = delim],
             UNCHANGED <<val, tempStack>>
      PROVE  PlaceInv'
  <2> DEFINE g == [Frame EXCEPT !.pc = 1, !.delim = delim]
  <2>1. calls' = [calls EXCEPT ![Depth] = g]
    BY <1>7 DEF Frame
  <2>2. /\ g.pc = 1 /\ g.plan = Frame.plan /\ g.parts = Frame.parts /\ g.delim = delim
        /\ g.signs = Frame.signs
    BY <1>2 DEF Activated, Fields
  <2> HIDE DEF g
  <2>3. Placed(g, Depth, DOMAIN val') /\ g.pc > 0
    BY <1>2, <1>6, <1>7, <2>2 DEF Placed
  <2>4. /\ val' = [n \in DOMAIN val' |-> val'[n]] /\ DOMAIN val' = DOMAIN val
        /\ \A n \in DOMAIN val' : val'[n] \in Int
        /\ \A j \in 1 .. Len(tempStack') : tempStack'[j] \in DOMAIN val'
    BY <1>7 DEF PlaceInv, Numbers
  <2> QED BY <1>2, <2>1, <2>3, <2>4, PlacesOn
<1>8. CASE Fail
  BY <1>8, FailPlaces DEF Fail
<1>9. ASSUME val' = [val EXCEPT ![Target("a")] = 0], Return
      PROVE  PlaceInv'
  <2>1. 0 \in Int
    OBVIOUS
  <2> QED BY <1>1, <1>9, <2>1, ResultPlaces
<1> DEFINE bc == Abs(b) * Abs(c)
<1>10. ASSUME val' = [val EXCEPT ![Target("a")] = bc], Return
      PROVE  PlaceInv'
  <2> HIDE DEF bc
  <2>1. bc \in Int
    BY <1>5 DEF bc
  <2> QED BY <1>1, <1>10, <2>1, ResultPlaces
<1> QED BY <1>4, <1>7, <1>8, <1>9, <1>10

(* A part has no more bits than its number has.                            *)
LEMMA BitsOfPart ==
  ASSUME NEW p, Piece(p), val[p.of] \in Int, p.bits \in Nat, Read(p) # 0
  PROVE  Bits(Abs(Read(p))) <= p.bits
<1> DEFINE m  == 2 ^ p.from
           up == Abs(val[p.of]) \div m
           k  == 2 ^ p.bits
           b  == Abs(Read(p))
<1>1. p.from \in Nat /\ p.bits # All
  BY DEF Piece, All
<1>2. m \in Nat \ {0} /\ k \in Nat \ {0} /\ Abs(val[p.of]) \in Nat
  BY <1>1, Positive, Magnitude
<1>3. Read(p) = up % k
  BY <1>1 DEF Read
<1>4. up \in Nat
  <2> HIDE DEF m, k
  <2> QED BY <1>2, Halved
<1>5. up % k \in 0 .. k - 1
  <2> HIDE DEF up, k, m
  <2> QED BY <1>2, <1>4, Halved
<1>6. b \in Nat /\ b # 0 /\ b < k /\ Abs(b) = b
  <2>1. Read(p) \in 0 .. k - 1
    BY <1>3, <1>5
  <2> HIDE DEF k, up, m
  <2> QED BY <1>2, <2>1 DEF Abs
<1> HIDE DEF b, up, m
<1>7. Bits(b) \in Nat /\ Bits(b) >= 1 /\ 2 ^ (Bits(b) - 1) <= b
  BY <1>6, BitsOf
<1>8. ASSUME p.bits <= Bits(b) - 1 PROVE FALSE
  <2>1. k <= 2 ^ (Bits(b) - 1)
    BY <1>7, <1>8, Monotone
  <2> HIDE DEF k
  <2> DEFINE h == 2 ^ (Bits(b) - 1)
  <2>2. h \in Nat
    BY <1>7, Positive
  <2> HIDE DEF h
  <2> QED BY <1>2, <1>6, <1>7, <2>1, <2>2 DEF h
<1>9. Bits(b) <= p.bits
  BY <1>7, <1>8
<1> QED BY <1>9 DEF b

(* A record of those fields with others put in.                            *)
LEMMA PieceReplaced ==
  ASSUME NEW p, NEW x, NEW y, p = [of |-> p.of, from |-> p.from, bits |-> p.bits]
  PROVE  [p EXCEPT !.from = x, !.bits = y] = [of |-> p.of, from |-> x, bits |-> y]
<1> DEFINE w == [p EXCEPT !.from = x, !.bits = y]
           r == [of |-> p.of, from |-> x, bits |-> y]
           S == {"of", "from", "bits"}
<1>1. DOMAIN p = S
  OBVIOUS
<1>2. DOMAIN w = S /\ w.of = p.of /\ w.from = x /\ w.bits = y
  BY <1>1
<1>3. w = [i \in S |-> w[i]] /\ r = [i \in S |-> r[i]]
  BY <1>2
<1>4. r["of"] = p.of /\ r["from"] = x /\ r["bits"] = y
  OBVIOUS
<1>5. w["of"] = p.of /\ w["from"] = x /\ w["bits"] = y
  BY <1>2
<1>6. \A i \in S : i = "of" \/ i = "from" \/ i = "bits"
  OBVIOUS
<1> HIDE DEF w, r, S
<1>7. \A i \in S : w[i] = r[i]
  BY <1>4, <1>5, <1>6
<1>8. w = r
  BY <1>3, <1>7
<1> QED BY <1>8 DEF w, r

(* The parts zsqr_ll goes on with when it does not copy them.              *)
LEMMA HalvesArePieces ==
  ASSUME NEW p, Piece(p), NEW n \in Nat, p.bits \in Nat => n <= p.bits
  PROVE  /\ Piece(Low(p, n)) /\ Low(p, n).of = p.of
         /\ Piece(High(p, n)) /\ High(p, n).of = p.of
         /\ Low(p, n).from = p.from /\ Low(p, n).bits = n
         /\ High(p, n).from = p.from + n
         /\ High(p, n).bits = IF p.bits = All THEN All ELSE p.bits - n
<1>1. p = [of |-> p.of, from |-> p.from, bits |-> p.bits] /\ p.from \in Nat
      /\ (p.bits = All \/ p.bits \in Nat)
  BY DEF Piece
<1>2. Low(p, n) = [of |-> p.of, from |-> p.from, bits |-> n]
  BY <1>1 DEF Low
<1>3. High(p, n) = [of |-> p.of, from |-> p.from + n,
                    bits |-> IF p.bits = All THEN All ELSE p.bits - n]
  <2>1. High(p, n) = [p EXCEPT !.from = p.from + n,
                               !.bits = IF p.bits = All THEN p.bits ELSE p.bits - n]
    BY <1>1, Zenon DEF High
  <2> DEFINE k == IF p.bits = All THEN p.bits ELSE p.bits - n
  <2>2. [p EXCEPT !.from = p.from + n, !.bits = k] = [of |-> p.of, from |-> p.from + n, bits |-> k]
    <3> HIDE DEF k
    <3> QED BY <1>1, PieceReplaced
  <2>3. k = IF p.bits = All THEN All ELSE p.bits - n
    OBVIOUS
  <2> QED BY <2>1, <2>2, <2>3
<1>4. p.bits # All => p.bits - n \in Nat
  BY <1>1
<1> QED BY <1>1, <1>2, <1>3, <1>4 DEF Piece

(* Where zsqr_ll splits what it does not copy: at a limb boundary, within  *)
(* the part it was called with.                                            *)
LEMMA Delimiter ==
  ASSUME NEW p, Piece(p), val[p.of] \in Int, Read(p) \in Int
  PROVE  LET b     == Abs(Read(p))
             half  == Bits(b) \div 2
             delim == half - (half % BitsPerChar)
         IN  /\ b \in Nat /\ Bits(b) \in Nat /\ half \in Nat /\ half <= Bits(b)
             /\ delim \in Nat /\ delim <= half /\ (half >= BitsPerChar => delim > 0)
             /\ Bits(b) > BitsPerChar \div 2 => (p.bits \in Nat => delim <= p.bits)
<1> DEFINE b     == Abs(Read(p))
           half  == Bits(b) \div 2
           delim == half - (half % BitsPerChar)
<1>1. b \in Nat
  BY SignsAreInts
<1>2. Bits(b) \in Nat /\ half \in Nat /\ half <= Bits(b)
  <2> HIDE DEF b
  <2>1. Bits(b) \in Nat
    BY <1>1, BitsOf
  <2> QED BY <2>1
<1>3. delim \in Nat /\ delim <= half /\ (half >= BitsPerChar => delim > 0)
  <2> HIDE DEF half
  <2>1. BitsPerChar \in Nat \ {0}
    BY BitsAssumption
  <2> DEFINE r == half % BitsPerChar
             q == (half \div BitsPerChar) * BitsPerChar
  <2>2. r \in Nat /\ r \in 0 .. BitsPerChar - 1 /\ half = q + r /\ half \div BitsPerChar \in Nat
    BY <1>2, <2>1, Halved
  <2>3. q \in Nat
    BY <2>1, <2>2, Multiplied
  <2> HIDE DEF r, q
  <2>4. half - r \in Nat /\ half - r <= half /\ (half >= BitsPerChar => half - r > 0)
    BY <1>2, <2>1, <2>2, <2>3
  <2> QED BY <2>4 DEF r
<1>4. ASSUME Bits(b) > BitsPerChar \div 2, p.bits \in Nat
      PROVE  delim <= p.bits
  <2>1. ASSUME Read(p) = 0 PROVE Bits(b) = 1
    BY <2>1 DEF Bits, Abs
  <2>2. BitsPerChar \div 2 >= 1 /\ BitsPerChar \div 2 \in Nat
    BY BitsAssumption
  <2>3. Read(p) # 0
    <3> HIDE DEF b
    <3> QED BY <1>2, <1>4, <2>1, <2>2
  <2>4. Bits(b) <= p.bits
    BY <1>4, <2>3, BitsOfPart
  <2> HIDE DEF b, half, delim
  <2> QED BY <1>2, <1>3, <1>4, <2>4
<1> QED BY <1>1, <1>2, <1>3, <1>4

(* zsqr_ll squares at once, or goes on with the halves.                    *)
LEMMA EnterZsqrLlPlaces ==
  ASSUME StackInv, PlaceInv, ValueInv, EnterZsqrLl
  PROVE  PlaceInv'
<1> DEFINE b     == Abs(Read(Part("b")))
           half  == Bits(b) \div 2
           delim == half - (half % BitsPerChar)
           low   == Low(Part("b"), delim)
           high  == High(Part("b"), delim)
           v     == b % 2 ^ half
           w     == b \div 2 ^ half
<1>1. Entering /\ Frame.plan = "zsqr_ll"
  BY DEF EnterZsqrLl
<1>2. /\ Running /\ Frame.pc = 0 /\ Activated(Frame) /\ Placed(Frame, Depth, DOMAIN val)
      /\ Depth \in Nat
  BY <1>1, AtEntry, InnermostPlaced
<1>3. Usable("b") /\ Read(Part("b")) \in Int /\ b \in Nat
  <2>1. Usable("b")
    BY <1>2, UsableAt
  <2>2. Read(Part("b")) \in Int
    BY <2>1 DEF Usable
  <2> QED BY <2>1, <2>2, SignsAreInts
<1>4. \/ val' = [val EXCEPT ![Target("a")] = b * b] /\ Return
      \/ Fail
      \/ /\ val' = Having(Having(val, Local("low"), v), Local("high"), w)
         /\ calls' = [calls EXCEPT ![Depth].pc = 1, ![Depth].delim = half, ![Depth].plan = Plan(v)]
         /\ tempStack' = tempStack
      \/ /\ Bits(b) > BitsPerChar \div 2
         /\ calls' = [calls EXCEPT ![Depth].pc = 1, ![Depth].delim = delim,
                                   ![Depth].plan = Plan(Read(low)),
                                   ![Depth].parts = Having(Having(@, "low", low), "high", high)]
         /\ UNCHANGED <<val, tempStack>>
  BY DEF EnterZsqrLl
<1>5. CASE Fail
  BY <1>5, FailPlaces DEF Fail
<1>6. /\ Bits(b) \in Nat /\ half \in Nat /\ half <= Bits(b) /\ delim \in Nat /\ delim <= half
      /\ Bits(b) > BitsPerChar \div 2 => (Part("b").bits \in Nat => delim <= Part("b").bits)
  <2>1. Piece(Part("b")) /\ val[Part("b").of] \in Int
    BY <1>3 DEF Usable, Target, PlaceInv, Numbers
  <2> QED BY <1>3, <2>1, Delimiter
<1>8. v \in Nat /\ w \in Nat
  <2> DEFINE n == 2 ^ half
  <2>1. n \in Nat \ {0}
    BY <1>6, Positive
  <2> HIDE DEF n, b
  <2>2. b % n \in Nat /\ b \div n \in Nat
    BY <1>3, <2>1, Halved
  <2> QED BY <2>2 DEF n
<1>9. b * b \in Int
  <2> HIDE DEF b
  <2> QED BY <1>3
<1>12. Bits(b) > BitsPerChar \div 2 => /\ Piece(low) /\ low.of = Target("b")
                                       /\ Piece(high) /\ high.of = Target("b")
  <2>1. Piece(Part("b")) /\ Part("b").of = Target("b")
    BY <1>3 DEF Usable, Target
  <2> HIDE DEF delim, b
  <2> QED BY <1>6, <2>1, HalvesArePieces
<1>13. Target("b") \in DOMAIN val \cap Outside(Depth)
  <2>1. Serves(Frame, Depth)
    BY <1>2, InnermostPlaced
  <2>2. "b" \in DOMAIN Frame.parts
    BY <2>1 DEF Serves
  <2>3. Target("b") = Frame.parts["b"].of
    BY <2>2 DEF Target, Part
  <2> QED BY <1>2, <2>2, <2>3 DEF Placed
<1>14. /\ Plan(v) \in {"high_only", "both_parts"}
       /\ Plan(Read(low)) \in {"high_only", "both_parts"}
  BY DEF Plan
<1> HIDE DEF v, w, b, half, delim, low, high
<1>15. ASSUME val' = [val EXCEPT ![Target("a")] = b * b], Return
       PROVE  PlaceInv'
  <2> DEFINE bb == b * b
  <2>1. bb \in Int /\ val' = [val EXCEPT ![Target("a")] = bb]
    BY <1>9, <1>15
  <2> HIDE DEF bb
  <2> QED BY <1>1, <1>15, <2>1, ResultPlaces
<1>16. ASSUME val' = Having(Having(val, Local("low"), v), Local("high"), w),
              calls' = [calls EXCEPT ![Depth].pc = 1, ![Depth].delim = half,
                                     ![Depth].plan = Plan(v)],
              tempStack' = tempStack
       PROVE  PlaceInv'
  <2> DEFINE plan == Plan(v)
             g == [Frame EXCEPT !.pc = 1, !.delim = half, !.plan = plan]
  <2>1. calls' = [calls EXCEPT ![Depth] = g]
    BY <1>16 DEF Frame
  <2>2. /\ g.pc = 1 /\ g.plan = plan /\ g.parts = Frame.parts /\ g.delim = half
        /\ g.signs = Frame.signs
    BY <1>2 DEF Activated, Fields
  <2> HIDE DEF g, plan
  <2>3. /\ DOMAIN val' = DOMAIN val \cup {<<Depth, "low">>, <<Depth, "high">>}
        /\ val' = [n \in DOMAIN val' |-> val'[n]]
        /\ \A n \in DOMAIN val' : val'[n] \in {v, w} \/ (n \in DOMAIN val /\ val'[n] = val[n])
    BY <1>16 DEF Having, Local
  <2>4. <<Depth, "low">> \in {Depth} \X Locals /\ <<Depth, "high">> \in {Depth} \X Locals
    BY DEF Locals
  <2>5. \A n \in DOMAIN val' : val'[n] \in Int
    BY <1>8, <2>3 DEF PlaceInv, Numbers
  <2>6. \A j \in 1 .. Len(tempStack') : tempStack'[j] \in DOMAIN val'
    BY <1>16, <2>3 DEF PlaceInv, Numbers
  <2>7. \A x \in Halves(g.plan) : <<Depth, x>> \in DOMAIN val'
    BY <2>3 DEF Halves
  <2>8. Placed(g, Depth, DOMAIN val') /\ g.pc > 0
    BY <1>2, <1>6, <2>2, <2>3, <2>7 DEF Placed
  <2> QED BY <1>2, <2>1, <2>3, <2>4, <2>5, <2>6, <2>8, PlacesOn
<1>17. ASSUME Bits(b) > BitsPerChar \div 2,
              calls' = [calls EXCEPT ![Depth].pc = 1, ![Depth].delim = delim,
                                     ![Depth].plan = Plan(Read(low)),
                                     ![Depth].parts = Having(Having(@, "low", low), "high", high)],
              UNCHANGED <<val, tempStack>>
       PROVE  PlaceInv'
  <2> DEFINE plan == Plan(Read(low))
             parts == Having(Having(Frame.parts, "low", low), "high", high)
             g == [Frame EXCEPT !.pc = 1, !.delim = delim, !.plan = plan, !.parts = parts]
  <2>1. calls' = [calls EXCEPT ![Depth] = g]
    BY <1>17 DEF Frame
  <2>2. /\ DOMAIN parts = DOMAIN Frame.parts \cup {"low", "high"}
        /\ parts["high"] = high /\ parts["low"] = low
        /\ \A x \in DOMAIN Frame.parts : x \notin {"low", "high"} => parts[x] = Frame.parts[x]
    BY DEF Having
  <2> HIDE DEF parts
  <2>3. /\ g.pc = 1 /\ g.plan = plan /\ g.parts = parts /\ g.delim = delim
        /\ g.signs = Frame.signs
    BY <1>2 DEF Activated, Fields
  <2> HIDE DEF g, plan
  <2>4. /\ val' = [n \in DOMAIN val' |-> val'[n]] /\ DOMAIN val' = DOMAIN val
        /\ \A n \in DOMAIN val' : val'[n] \in Int
        /\ \A j \in 1 .. Len(tempStack') : tempStack'[j] \in DOMAIN val'
    BY <1>17 DEF PlaceInv, Numbers
  <2>5. \A x \in DOMAIN parts : Piece(parts[x]) /\ parts[x].of \in DOMAIN val' \cap Outside(Depth)
    <3>1. ASSUME NEW x \in DOMAIN parts, x \in {"low", "high"}
          PROVE  Piece(parts[x]) /\ parts[x].of \in DOMAIN val' \cap Outside(Depth)
      BY <1>12, <1>13, <1>17, <2>2, <2>4, <3>1
    <3>2. ASSUME NEW x \in DOMAIN parts, x \notin {"low", "high"}
          PROVE  Piece(parts[x]) /\ parts[x].of \in DOMAIN val' \cap Outside(Depth)
      BY <1>2, <2>2, <2>4, <3>2 DEF Placed
    <3> QED BY <3>1, <3>2
  <2>6. DOMAIN parts \subseteq PartNames /\ \A x \in Halves(g.plan) : x \in DOMAIN parts
    BY <1>2, <2>2 DEF Placed, PartNames, Halves
  <2>7. parts["a"] = Whole(parts["a"].of)
    <3>1. Serves(Frame, Depth)
      BY <1>2, InnermostPlaced
    <3>2. "a" \in DOMAIN Frame.parts /\ Frame.parts["a"] = Whole(Frame.parts["a"].of)
      BY <1>2, <3>1 DEF Serves, Placed
    <3> QED BY <2>2, <3>2
  <2>8. Placed(g, Depth, DOMAIN val') /\ g.pc > 0
    BY <1>2, <1>6, <2>3, <2>5, <2>6, <2>7 DEF Placed
  <2> QED BY <1>2, <2>1, <2>4, <2>8, PlacesOn
<1> QED BY <1>4, <1>5, <1>15, <1>16, <1>17

(* What a call works on is in numbers outside of the new activation.       *)
LEMMA CallPlaces ==
  ASSUME StackInv, PlaceInv, ValueInv, NEW kind \in {"mul", "sqr"}, At(kind),
         NEW plan \in {"zmul_ll", "zsqr_ll"}, NEW parts, Call(plan, parts),
         UNCHANGED <<val, tempStack, status>>,
         DOMAIN parts \subseteq {"a", "b", "c"},
         \A x \in DOMAIN parts : \E y : Usable(y) /\ parts[x] = Part(y),
         parts["a"] = Whole(parts["a"].of)
  PROVE  PlaceInv'
<1> DEFINE g == Onward(Frame)
           h == Activation(plan, parts)
<1>1. /\ Depth' = Depth + 1 /\ calls'[Depth + 1] = h /\ calls'[Depth] = g
      /\ \A i \in 1 .. Depth : i # Depth => calls'[i] = calls[i]
  BY CallStack
<1>2. Running /\ Frame.pc \in 1 .. Len(Steps(Frame.plan))
  BY AtStep
<1>3. Depth \in Nat /\ Depth > 0 /\ Placed(Frame, Depth, DOMAIN val)
  BY <1>2, Innermost, InnermostPlaced
<1>4. /\ g.pc = Frame.pc + 1 /\ g.plan = Frame.plan /\ g.parts = Frame.parts
      /\ g.delim = Frame.delim /\ g.signs = Frame.signs
  BY OnwardIs
<1>5. /\ h.plan = plan /\ h.parts = parts /\ h.delim = 0 /\ DOMAIN h.signs = {}
  BY DEF Activation
<1> HIDE DEF g, h
<1>6. \A x \in DOMAIN parts : Piece(parts[x]) /\ parts[x].of \in DOMAIN val \cap Outside(Depth + 1)
  <2>1. Outside(Depth) \cup ({Depth} \X Locals) \subseteq Outside(Depth + 1)
    BY <1>3 DEF Outside
  <2>2. ASSUME NEW x \in DOMAIN parts
        PROVE  Piece(parts[x]) /\ parts[x].of \in DOMAIN val \cap Outside(Depth + 1)
    <3>1. PICK y : Usable(y) /\ parts[x] = Part(y)
      OBVIOUS
    <3>2. Piece(Part(y)) /\ Part(y).of \in DOMAIN val
          /\ Part(y).of \in Outside(Depth) \cup ({Depth} \X Locals)
      BY <3>1 DEF Usable, Target
    <3> QED BY <2>1, <3>1, <3>2
  <2> QED BY <2>2
<1>7. Placed(h, Depth + 1, DOMAIN val)
  <2>1. Halves(h.plan) = {} /\ DOMAIN parts \subseteq PartNames
    BY <1>5 DEF Halves, PartNames
  <2> QED BY <1>5, <1>6, <2>1 DEF Placed
<1>8. Placed(g, Depth, DOMAIN val) /\ g.pc > 0
  BY <1>2, <1>3, <1>4 DEF Placed
<1>9. ASSUME NEW n \in DOMAIN val \ Reg
      PROVE  n \in (1 .. Depth + 1) \X Locals /\ calls'[n[1]].pc > 0
  <2>1. n \in (1 .. Depth) \X Locals /\ calls[n[1]].pc > 0 /\ n[1] \in 1 .. Depth
    BY <1>9 DEF PlaceInv, Numbers
  <2>2. calls'[n[1]].pc > 0
    <3>1. CASE n[1] = Depth
      BY <1>1, <1>8, <3>1
    <3>2. CASE n[1] # Depth
      BY <1>1, <2>1, <3>2
    <3> QED BY <3>1, <3>2
  <2>3. 1 .. Depth \subseteq 1 .. Depth + 1
    BY <1>3
  <2> QED BY <2>1, <2>2, <2>3
<1>10. Numbers'
  BY <1>1, <1>9 DEF PlaceInv, Numbers
<1>11. ASSUME NEW i \in 1 .. Depth + 1
       PROVE  Placed(calls'[i], i, DOMAIN val')
  <2>1. CASE i = Depth + 1
    BY <1>1, <1>7, <2>1
  <2>2. CASE i = Depth
    BY <1>1, <1>8, <2>2
  <2>3. CASE i \in 1 .. Depth /\ i # Depth
    BY <1>1, <2>3 DEF PlaceInv
  <2>4. i = Depth + 1 \/ i \in 1 .. Depth
    BY <1>3
  <2> QED BY <2>1, <2>2, <2>3, <2>4
<1>12. \A i \in 1 .. Depth' : Placed(calls[i], i, DOMAIN val)'
  BY <1>1, <1>11 DEF Placed, Piece, Outside, Halves, PartNames, Whole
<1> QED BY <1>10, <1>12 DEF PlaceInv

(* What a call stores its result in is a whole number.                     *)
LEMMA WholeTarget ==
  ASSUME StackInv, PlaceInv, ValueInv, Running, NEW x \in {"a"} \cup Temporaries
  PROVE  Part(x) = Whole(Target(x))
<1>1. Placed(Frame, Depth, DOMAIN val) /\ Serves(Frame, Depth)
  BY InnermostPlaced
<1>2. CASE x = "a"
  BY <1>1, <1>2 DEF Part, Target, Placed, Serves
<1>3. CASE x \in Temporaries
  <2>1. x \notin DOMAIN Frame.parts
    BY <1>1, <1>3 DEF Serves
  <2> QED BY <2>1 DEF Part, Target, Whole
<1> QED BY <1>2, <1>3

(* A call of zmul_ll.                                                      *)
LEMMA MultiplyPlaces ==
  ASSUME StackInv, PlaceInv, ValueInv, Multiply
  PROVE  PlaceInv'
<1> DEFINE parts == [a |-> Part(Arg(1)), b |-> Part(Arg(2)), c |-> Part(Arg(3))]
<1>1. /\ At("mul") /\ Running /\ Call("zmul_ll", parts)
      /\ UNCHANGED <<val, tempStack, status>>
  BY DEF Multiply, At
<1>2. Usable(Arg(1)) /\ Usable(Arg(2)) /\ Usable(Arg(3))
  BY <1>1, StepUses
<1>3. Arg(1) \in {"a"} \cup Temporaries
  BY <1>1, Named
<1>4. DOMAIN parts = {"a", "b", "c"} /\ parts["a"] = Part(Arg(1))
      /\ parts["b"] = Part(Arg(2)) /\ parts["c"] = Part(Arg(3))
  OBVIOUS
<1> HIDE DEF parts
<1>5. \A x \in DOMAIN parts : \E y : Usable(y) /\ parts[x] = Part(y)
  BY <1>2, <1>4
<1>6. Part(Arg(1)) = Whole(Target(Arg(1)))
  BY <1>1, <1>3, WholeTarget
<1>7. parts["a"] = Whole(parts["a"].of)
  BY <1>4, <1>6 DEF Target
<1> QED BY <1>1, <1>4, <1>5, <1>7, CallPlaces

(* A call of zsqr_ll.                                                      *)
LEMMA SquarePlaces ==
  ASSUME StackInv, PlaceInv, ValueInv, Square
  PROVE  PlaceInv'
<1> DEFINE parts == [a |-> Part(Arg(1)), b |-> Part(Arg(2))]
<1>1. /\ At("sqr") /\ Running /\ Call("zsqr_ll", parts)
      /\ UNCHANGED <<val, tempStack, status>>
  BY DEF Square, At
<1>2. Usable(Arg(1)) /\ Usable(Arg(2))
  BY <1>1, StepUses
<1>3. Arg(1) \in {"a"} \cup Temporaries
  BY <1>1, Named
<1>4. DOMAIN parts = {"a", "b"} /\ parts["a"] = Part(Arg(1)) /\ parts["b"] = Part(Arg(2))
  OBVIOUS
<1> HIDE DEF parts
<1>5. \A x \in DOMAIN parts : \E y : Usable(y) /\ parts[x] = Part(y)
  BY <1>2, <1>4
<1>6. Part(Arg(1)) = Whole(Target(Arg(1)))
  BY <1>1, <1>3, WholeTarget
<1>7. parts["a"] = Whole(parts["a"].of)
  BY <1>4, <1>6 DEF Target
<1> QED BY <1>1, <1>4, <1>5, <1>7, CallPlaces

(* libzahl_failure.                                                        *)
LEMMA UnwindPlaces ==
  ASSUME StackInv, PlaceInv, Unwind
  PROVE  PlaceInv'
<1>1. UNCHANGED <<val, calls>> /\ tempStack' = Front(tempStack) /\ tempStack # <<>>
  BY DEF Unwind
<1>2. tempStack \in Seq(Nat \X Locals) /\ Len(tempStack) > 0
  BY <1>1, EmptySeq DEF StackInv, Shape
<1>3. /\ Len(tempStack') = Len(tempStack) - 1 /\ Len(tempStack) \in Nat
      /\ \A j \in 1 .. Len(tempStack) - 1 : tempStack'[j] = tempStack[j]
  BY <1>1, <1>2, FrontIsShorter
<1>4. ASSUME NEW j \in 1 .. Len(tempStack')
      PROVE  tempStack'[j] \in DOMAIN val'
  <2>1. j \in 1 .. Len(tempStack) /\ j \in 1 .. Len(tempStack) - 1
    BY <1>3
  <2> QED BY <1>1, <1>3, <2>1 DEF PlaceInv, Numbers
<1>5. Depth' = Depth
  BY <1>1 DEF Depth
<1>6. Numbers'
  BY <1>1, <1>4, <1>5 DEF PlaceInv, Numbers
<1>7. \A i \in 1 .. Depth' : Placed(calls[i], i, DOMAIN val)'
  BY <1>1, <1>5 DEF PlaceInv, Placed, Piece, Outside, Halves, PartNames, Whole
<1> QED BY <1>6, <1>7 DEF PlaceInv

(* The jump.                                                               *)
LEMMA LongjmpPlaces ==
  ASSUME PlaceInv, Longjmp
  PROVE  PlaceInv'
<1>1. calls' = <<>> /\ val' = Keeping(val, Reg) /\ tempStack' = <<>> /\ tempStack = <<>>
  BY DEF Longjmp
<1>2. Depth' = 0 /\ 1 .. 0 = {} /\ Len(tempStack') = 0
  BY <1>1 DEF Depth
<1>3. /\ DOMAIN val' = Reg /\ val' = [n \in DOMAIN val' |-> val'[n]]
      /\ \A n \in DOMAIN val' : val'[n] = val[n]
  BY <1>1 DEF Keeping
<1>4. \A n \in DOMAIN val' : val'[n] \in Int
  BY <1>3 DEF PlaceInv, Numbers
<1>5. Numbers'
  BY <1>2, <1>3, <1>4 DEF Numbers
<1> QED BY <1>2, <1>5 DEF PlaceInv

-----------------------------------------------------------------------------
(* At first the program's numbers are all there is.                        *)
LEMMA InitPlaces ==
  ASSUME Init
  PROVE  PlaceInv
<1>1. PICK fn \in {"zmul", "zsqr"}, p \in Parameters, v \in [Reg -> Operand \cup {Other}] :
        /\ val = v
        /\ calls = << [plan |-> fn, pc |-> 0, delim |-> 0, signs |-> <<>>, height |-> 0,
                       parts |-> [a |-> Whole(p[1]), b |-> Whole(p[2]), c |-> Whole(p[3])]] >>
  BY DEF Init
<1> DEFINE f == [plan |-> fn, pc |-> 0, delim |-> 0, signs |-> <<>>, height |-> 0,
                 parts |-> [a |-> Whole(p[1]), b |-> Whole(p[2]), c |-> Whole(p[3])]]
<1>2. p[1] \in Reg /\ p[2] \in Reg /\ p[3] \in Reg
  BY ParameterAssumption
<1>3. DOMAIN val = Reg /\ val = [n \in DOMAIN val |-> val[n]] /\ \A n \in Reg : val[n] \in Int
  BY <1>1, OperandAssumption
<1>4. Len(tempStack) = 0 /\ 1 .. 0 = {}
  BY DEF Init
<1>5. Numbers
  BY <1>3, <1>4 DEF Numbers
<1>6. Depth = 1 /\ calls[1] = f
  BY <1>1 DEF Depth
<1>7. /\ f.plan = fn /\ f.delim = 0 /\ DOMAIN f.signs = {}
      /\ f.parts = [a |-> Whole(p[1]), b |-> Whole(p[2]), c |-> Whole(p[3])]
  OBVIOUS
<1> HIDE DEF f
<1>8. \A x \in DOMAIN f.parts : Piece(f.parts[x]) /\ f.parts[x].of \in Reg
  BY <1>2, <1>7, WholePiece
<1>9. Halves(fn) = {} /\ DOMAIN f.parts \subseteq PartNames
  BY <1>7 DEF Halves, PartNames
<1>10. f.parts["a"] = Whole(f.parts["a"].of)
  BY <1>7, WholePiece
<1>11. Placed(f, 1, DOMAIN val)
  BY <1>3, <1>7, <1>8, <1>9, <1>10 DEF Placed, Outside
<1>12. \A i \in 1 .. Depth : i = 1
  BY <1>6
<1> QED BY <1>5, <1>6, <1>11, <1>12 DEF PlaceInv

(* Every step keeps the values where they are.                             *)
LEMMA NextPlaces ==
  ASSUME StackInv, PlaceInv, ValueInv, UsedInv, [Next]_vars
  PROVE  PlaceInv'
<1>1. CASE UNCHANGED vars
  BY <1>1, FailPlaces DEF vars
<1> QED BY <1>1, EnterZmulPlaces, SquareNothingPlaces, EnterZmulLlPlaces, EnterZsqrLlPlaces,
           MultiplyPlaces, SquarePlaces, InitTempPlaces, FreeTempPlaces, SplitPlaces,
           ShiftPlaces, AddPlaces, SubtractPlaces, TakeSignPlaces, GiveSignPlaces,
           SetSignPlaces, SetPositivePlaces, LeaveFunctionPlaces, UnwindPlaces,
           LongjmpPlaces DEF Next

-----------------------------------------------------------------------------
(* How many limbs there are.                                               *)

(* The limbs stay, those of one number change, those of a new one are      *)
(* added, or numbers go with theirs.                                       *)
LEMMA UsedChanges ==
  ASSUME UsedInv, loan' \in BOOLEAN
  PROVE  /\ DOMAIN val' = DOMAIN val /\ used' = used => UsedInv'
         /\ \A x : \A n \in Nat :
              DOMAIN val' = DOMAIN val /\ used' = [used EXCEPT ![x] = n] => UsedInv'
         /\ \A x : \A n \in Nat :
              DOMAIN val' = DOMAIN val \cup {x} /\ used' = Having(used, x, n) => UsedInv'
         /\ \A S \in SUBSET DOMAIN val :
              DOMAIN val' = S /\ used' = Keeping(used, S) => UsedInv'
BY DEF UsedInv, Having, Keeping

(* A number of so many limbs is stored.                                    *)
LEMMA StoreUsed ==
  ASSUME UsedInv, NEW x, NEW v, NEW n \in Nat, Store(x, v, n)
  PROVE  UsedInv'
<1>1. /\ DOMAIN val' = DOMAIN val /\ used' = [used EXCEPT ![Target(x)] = n] /\ loan' = loan
  BY DEF Store
<1> QED BY <1>1, UsedChanges DEF UsedInv

LEMMA ResignUsed ==
  ASSUME UsedInv, NEW x, NEW v, Target(x) \in DOMAIN val, Resign(x, v)
  PROVE  UsedInv'
<1>1. used[Target(x)] \in Nat
  BY DEF UsedInv
<1> QED BY <1>1, StoreUsed DEF Resign

(* A function that stores a result in one limb, or none, and returns.      *)
LEMMA EnterZmulLlUsed ==
  ASSUME UsedInv, EnterZmulLl
  PROVE  UsedInv'
<1>1. \/ /\ DOMAIN val' = DOMAIN val /\ loan' = loan
         /\ used' = used \/ used' = [used EXCEPT ![Target("a")] = 1]
      \/ UNCHANGED <<val, used, loan>>
  BY DEF EnterZmulLl, Return, Fail
<1> QED BY <1>1, UsedChanges DEF UsedInv

LEMMA EnterZsqrLlUsed ==
  ASSUME StackInv, PlaceInv, ValueInv, UsedInv, EnterZsqrLl
  PROVE  UsedInv'
<1> DEFINE b    == Abs(Read(Part("b")))
           half == Bits(b) \div 2
           m    == 2 ^ half
<1>1. Entering /\ Frame.plan = "zsqr_ll"
  BY DEF EnterZsqrLl
<1>2. Running
  BY <1>1, AtEntry
<1>3. b \in Nat
  BY <1>2, UsableAt, SignsAreInts DEF Usable
<1>4. \/ /\ DOMAIN val' = DOMAIN val /\ loan' = loan
         /\ used' = [used EXCEPT ![Target("a")] = 1]
      \/ UNCHANGED <<val, used, loan>>
      \/ /\ val' = Having(Having(val, Local("low"), b % m), Local("high"), b \div m)
         /\ used' = Having(Having(used, Local("low"), 1), Local("high"), Limbs(b \div m))
         /\ loan' = loan
  BY DEF EnterZsqrLl, Return, Fail
<1>5. Limbs(b \div m) \in Nat
  <2> HIDE DEF b
  <2>1. Bits(b) \in Nat
    BY <1>3, BitsOf
  <2>2. half \in Nat
    BY <2>1
  <2> HIDE DEF half
  <2>3. m \in Nat \ {0}
    BY <2>2, Positive
  <2> HIDE DEF m
  <2>4. b \div m \in Int
    BY <1>3, <2>3, Halved
  <2> QED BY <2>4, LimbsAreNat
<1> HIDE DEF b, m
<1>6. ASSUME val' = Having(Having(val, Local("low"), b % m), Local("high"), b \div m),
             used' = Having(Having(used, Local("low"), 1), Local("high"), Limbs(b \div m)),
             loan' = loan
      PROVE  UsedInv'
  <2> DEFINE k == Limbs(b \div m)
             h == Local("high")
             l == Local("low")
  <2>1. k \in Nat
    BY <1>5
  <2>2. DOMAIN val' = (DOMAIN val \cup {l}) \cup {h}
    BY <1>6 DEF Having
  <2>3. used' = Having(Having(used, l, 1), h, k) /\ loan' = loan
    BY <1>6
  <2> HIDE DEF k, h, l
  <2>4. Having(used, l, 1) \in [DOMAIN val \cup {l} -> Nat]
    BY DEF UsedInv, Having
  <2>5. Having(Having(used, l, 1), h, k) \in [(DOMAIN val \cup {l}) \cup {h} -> Nat]
    BY <2>1, <2>4 DEF Having
  <2> QED BY <2>2, <2>3, <2>5 DEF UsedInv
<1> QED BY <1>4, <1>6, UsedChanges DEF UsedInv

LEMMA SquareNothingUsed ==
  ASSUME UsedInv, SquareNothing
  PROVE  UsedInv'
<1>1. DOMAIN val' = DOMAIN val /\ used' = used /\ loan' = loan
  BY DEF SquareNothing, Return
<1> QED BY <1>1, UsedChanges DEF UsedInv

(* A temporary has no limbs at first.                                      *)
LEMMA InitTempUsed ==
  ASSUME UsedInv, InitTemp
  PROVE  UsedInv'
<1> DEFINE x == Local(Arg(1))
<1>1. \/ UNCHANGED <<val, used, loan>>
      \/ val' = Having(val, x, 0) /\ used' = Having(used, x, 0) /\ loan' = loan
  BY DEF InitTemp, Fail
<1>2. DOMAIN Having(val, x, 0) = DOMAIN val \cup {x} /\ 0 \in Nat
  BY DEF Having
<1>3. loan' \in BOOLEAN
  BY <1>1 DEF UsedInv
<1> HIDE DEF x
<1> QED BY <1>1, <1>2, <1>3, UsedChanges

LEMMA SplitUsed ==
  ASSUME StackInv, PlaceInv, ValueInv, UsedInv, Split
  PROVE  UsedInv'
<1> DEFINE v == Abs(Read(Part(Arg(3))))
           m == 2 ^ Frame.delim
<1>1. At("split")
  BY DEF Split
<1>2. v \in Nat
  BY <1>1, StepUses, SignsAreInts DEF Usable
<1>3. m \in Nat \ {0}
  <2>1. Running
    BY <1>1 DEF At
  <2>2. Frame.delim \in Nat
    BY <2>1, InnermostPlaced DEF Placed
  <2> QED BY <2>2, Positive
<1>4. \/ UNCHANGED <<val, used, loan>>
      \/ /\ DOMAIN val' = DOMAIN val /\ loan' = loan
         /\ used' = [used EXCEPT ![Target(Arg(1))] = Limbs(v \div m), ![Target(Arg(2))] = Limbs(v % m)]
  BY DEF Split, Fail
<1> HIDE DEF v, m
<1>5. Limbs(v \div m) \in Nat /\ Limbs(v % m) \in Nat
  <2>1. v \div m \in Int /\ v % m \in Int
    BY <1>2, <1>3, Halved
  <2> QED BY <2>1, LimbsAreNat
<1> QED BY <1>4, <1>5 DEF UsedInv

LEMMA ShiftUsed ==
  ASSUME StackInv, PlaceInv, ValueInv, UsedInv, Shift
  PROVE  UsedInv'
<1> DEFINE v  == Read(Part(Arg(1)))
           n  == used[Target(Arg(1))]
           by == Arg(2) * Frame.delim + Arg(3)
           m  == 2 ^ by
           q  == by \div BitsPerChar
<1>1. At("shift")
  BY DEF Shift
<1>2. v \in Int /\ n \in Nat
  BY <1>1, StepUses DEF Usable, UsedInv
<1>3. by \in Nat
  <2>1. Running
    BY <1>1 DEF At
  <2>2. Frame.delim \in Nat
    BY <2>1, InnermostPlaced DEF Placed
  <2>3. Sites("shift")
    BY <1>1, KindIs
  <2>4. Arg(2) \in {1, 2} /\ Arg(3) \in {0, 1}
    BY <2>3 DEF Sites, Names3
  <2> QED BY <2>2, <2>4
<1>4. Fail \/ Store(Arg(1), v * m, IF v = 0 THEN n ELSE Carried(v * m, n + q))
  BY DEF Shift
<1> HIDE DEF v, n, by
<1>5. m \in Nat
  BY <1>3, Positive
<1> HIDE DEF m
<1>6. q \in Nat
  BY <1>3, BitsAssumption, Halved
<1> HIDE DEF q
<1>7. v * m \in Int /\ n + q \in Nat
  BY <1>2, <1>5, <1>6
<1> DEFINE k == IF v = 0 THEN n ELSE Carried(v * m, n + q)
<1>8. k \in Nat
  BY <1>2, <1>7, LimbsAreNat
<1> HIDE DEF k
<1>9. CASE Fail
  BY <1>9, UsedChanges DEF Fail, UsedInv
<1>10. CASE Store(Arg(1), v * m, k)
  BY <1>8, <1>10, StoreUsed
<1> QED BY <1>4, <1>9, <1>10 DEF k

LEMMA AddUsed ==
  ASSUME StackInv, PlaceInv, ValueInv, UsedInv, Add
  PROVE  UsedInv'
<1> DEFINE a == Read(Part(Arg(1)))
           b == Read(Part(Arg(2)))
           n == used[Target(Arg(1))]
           m == used[Target(Arg(2))]
           s == Abs(a) + Abs(b)
           k == IF n > m THEN n ELSE m
<1>1. At("add")
  BY DEF Add
<1>2. a \in Int /\ b \in Int /\ n \in Nat /\ m \in Nat
  BY <1>1, StepUses DEF Usable, UsedInv
<1>3. \/ Fail
      \/ Store(Arg(1), a, n)
      \/ Store(Arg(1), Abs(b), m)
      \/ Store(Arg(1), s, Carried(s, k))
  BY DEF Add
<1> HIDE DEF a, b, n, m
<1>4. s \in Int /\ k \in Nat
  BY <1>2, SignsAreInts
<1> HIDE DEF s, k
<1>5. Carried(s, k) \in Nat
  BY <1>4, LimbsAreNat
<1>6. CASE Fail
  BY <1>6, UsedChanges DEF Fail, UsedInv
<1> QED BY <1>2, <1>3, <1>5, <1>6, StoreUsed

LEMMA SubtractUsed ==
  ASSUME StackInv, PlaceInv, ValueInv, UsedInv, Subtract
  PROVE  UsedInv'
<1> DEFINE a  == Abs(Read(Part(Arg(1))))
           b  == Abs(Read(Part(Arg(2))))
           p  == Target(Arg(1))
           q  == Target(Arg(2))
           na == Compared(a, used[p], used[q])
           nb == Compared(b, used[q], used[p])
           lenders == LendersOfOne(a, b, nb, na, BitsPerChar)
<1>1. At("sub")
  BY DEF Subtract
<1>2. /\ a \in Nat /\ b \in Nat
      /\ p \in DOMAIN val /\ used[p] \in Nat /\ used[q] \in Nat
  BY <1>1, StepUses, SignsAreInts DEF Usable, UsedInv
<1>3. na \in Nat /\ nb \in Nat
  <2>1. a \in Int /\ b \in Int
    BY <1>2
  <2> QED BY <1>2, <2>1, LimbsAreNat
<1>4. \/ Resign(Arg(1), a)
      \/ /\ DOMAIN val' = DOMAIN val /\ loan' \in {loan, TRUE}
         /\ \E n : /\ used' = [used EXCEPT ![p] = n, ![q] = nb]
                  /\ \/ n = na
                     \/ lenders # {} /\ n = na - 1
                     \/ n \in Nat
  BY DEF Subtract
<1> HIDE DEF a, b, p, q, na, nb
<1>5. lenders # {} => na - 1 \in Nat
  BY <1>3 DEF LendersOfOne
<1> HIDE DEF lenders
<1>6. CASE Resign(Arg(1), a)
  BY <1>2, <1>6, ResignUsed DEF p
<1>7. ASSUME DOMAIN val' = DOMAIN val, loan' \in {loan, TRUE}, NEW n \in Nat,
             used' = [used EXCEPT ![p] = n, ![q] = nb]
      PROVE  UsedInv'
  BY <1>3, <1>7 DEF UsedInv
<1> QED BY <1>3, <1>4, <1>5, <1>6, <1>7

(* The steps that deal with signs.                                         *)
LEMMA SignsUsed ==
  ASSUME StackInv, PlaceInv, ValueInv, UsedInv, TakeSign \/ GiveSign \/ SetSign \/ SetPositive
  PROVE  UsedInv'
<1>1. CASE TakeSign
  <2>1. DOMAIN val' = DOMAIN val /\ used' = used /\ loan' = loan
    BY <1>1 DEF TakeSign
  <2> QED BY <2>1, UsedChanges DEF UsedInv
<1>2. CASE GiveSign
  <2>1. At("restore") /\ \E v : Resign(Arg(1), v)
    BY <1>2 DEF GiveSign
  <2>2. Target(Arg(1)) \in DOMAIN val
    BY <2>1, StepUses DEF Usable
  <2> QED BY <2>1, <2>2, ResignUsed
<1>3. CASE SetSign
  <2>1. At("sign") /\ \E v : Resign("a", v)
    BY <1>3 DEF SetSign
  <2>2. Target("a") \in DOMAIN val
    BY <2>1, StepUses DEF Usable
  <2> QED BY <2>1, <2>2, ResignUsed
<1>4. CASE SetPositive
  <2>1. At("positive") /\ \E v : Resign("a", v)
    BY <1>4 DEF SetPositive
  <2>2. Target("a") \in DOMAIN val
    BY <2>1, StepUses DEF Usable
  <2> QED BY <2>1, <2>2, ResignUsed
<1> QED BY <1>1, <1>2, <1>3, <1>4

(* Numbers go when a function returns, or with the long jump.              *)
LEMMA GoneUsed ==
  ASSUME PlaceInv, UsedInv, LeaveFunction \/ Longjmp
  PROVE  UsedInv'
<1>1. \E S \in SUBSET DOMAIN val : DOMAIN val' = S /\ used' = Keeping(used, S) /\ loan' = loan
  <2>1. Outlive \in SUBSET DOMAIN val /\ Reg \in SUBSET DOMAIN val
    BY DEF Outlive, PlaceInv, Numbers
  <2>2. \A S : DOMAIN Keeping(val, S) = S
    BY DEF Keeping
  <2> QED BY <2>1, <2>2 DEF LeaveFunction, Longjmp, Return
<1> QED BY <1>1, UsedChanges DEF UsedInv

LEMMA InitUsed ==
  ASSUME Init
  PROVE  UsedInv
<1>1. PICK v \in [Reg -> Operand \cup {Other}] :
        val = v /\ used = [n \in Reg |-> Limbs(v[n])] /\ loan = FALSE
  BY DEF Init
<1>2. \A n \in Reg : v[n] \in Int
  BY OperandAssumption
<1>3. \A n \in Reg : Limbs(v[n]) \in Nat
  BY <1>2, LimbsAreNat
<1> QED BY <1>1, <1>3 DEF UsedInv

(* Every step leaves every number with some limbs.                         *)
LEMMA NextUsed ==
  ASSUME StackInv, PlaceInv, ValueInv, UsedInv, [Next]_vars
  PROVE  UsedInv'
<1>1. CASE \/ UNCHANGED vars \/ EnterZmul \/ Multiply \/ Square \/ FreeTemp \/ Unwind
  <2>1. UNCHANGED <<val, used, loan>>
    BY <1>1 DEF vars, EnterZmul, Multiply, Square, FreeTemp, Unwind
  <2> QED BY <2>1, UsedChanges DEF UsedInv
<1> QED BY <1>1, SquareNothingUsed, EnterZmulLlUsed, EnterZsqrLlUsed, InitTempUsed, SplitUsed,
           ShiftUsed, AddUsed, SubtractUsed, SignsUsed, GoneUsed DEF Next

(* What that means for the types.                                          *)
LEMMA TypesFollow ==
  ASSUME StackInv, PlaceInv, UsedInv
  PROVE  TypeOK
<1>1. tempStack \in Seq(DOMAIN val)
  <2>1. /\ tempStack = [j \in 1 .. Len(tempStack) |-> tempStack[j]] /\ Len(tempStack) \in Nat
    BY DEF StackInv, Shape
  <2>2. \A j \in 1 .. Len(tempStack) : tempStack[j] \in DOMAIN val
    BY DEF PlaceInv, Numbers
  <2> QED BY <2>1, <2>2
<1>2. \A n \in DOMAIN val \ Reg : n[1] \in 1 .. Depth
  BY DEF PlaceInv, Numbers
<1>3. \A i \in 1 .. Depth : \A x \in DOMAIN calls[i].parts : calls[i].parts[x].of \in DOMAIN val
  BY DEF PlaceInv, Placed
<1> QED BY <1>1, <1>2, <1>3 DEF TypeOK, StackInv, Shape, PlaceInv, Numbers, UsedInv

(* Every value is an integer, and the activations of zmul_ll and zsqr_ll,  *)
(* however deep, read and write numbers that exist: the program's, or      *)
(* locals of activations that have not returned.                           *)
THEOREM NumbersAlwaysExist == Spec => []TypeOK
<1>1. Init => StackInv /\ ValueInv /\ PlaceInv /\ UsedInv
  BY InitStack, InitValues, InitPlaces, InitUsed
<1>2. /\ StackInv /\ ValueInv /\ PlaceInv /\ UsedInv /\ [Next]_vars
      => StackInv' /\ ValueInv' /\ PlaceInv' /\ UsedInv'
  BY NextStack, NextValues, NextPlaces, NextUsed
<1>3. StackInv /\ PlaceInv /\ UsedInv => TypeOK
  BY TypesFollow
<1> QED BY <1>1, <1>2, <1>3, PTL DEF Spec

-----------------------------------------------------------------------------
(* The inductive invariant: what the values are.  It is stated of values   *)
(* vs and activations cs, so as to speak of them before and after a step.  *)

(* What a part reads, and what a name stands for in activation i.          *)
Reads(vs, p) ==
  LET up == Abs(vs[p.of]) \div 2 ^ p.from
  IN  IF p.from = 0 /\ p.bits = All THEN vs[p.of]
      ELSE IF p.bits = All THEN up ELSE up % 2 ^ p.bits
PartOf(f, i, x) == IF x \in DOMAIN f.parts THEN f.parts[x] ELSE Whole(<<i, x>>)

(* The halves of b where it is split, and the products made of them.       *)
Hi(d, b)       == b \div 2 ^ d
Lo(d, b)       == b % 2 ^ d
Sum(d, b)      == Lo(d, b) + Hi(d, b)
LoLo(d, b, c)  == Lo(d, b) * Lo(d, c)
LoHi(d, b, c)  == Lo(d, b) * Hi(d, c)
HiHi(d, b, c)  == Hi(d, b) * Hi(d, c)
Cross(d, b, c) == Sum(d, b) * Sum(d, c)
Rest(d, b, c)  == Cross(d, b, c) - LoLo(d, b, c)
Mid(d, b, c)   == Rest(d, b, c) - HiHi(d, b, c)

(* Shifted once, shifted and doubled, shifted twice.                       *)
Once(d, v)     == v * 2 ^ d
Doubled(d, v)  == v * (2 * 2 ^ d)
Far(d, v)      == v * (2 ^ d * 2 ^ d)

(* The values an activation that multiplies b by c goes on with, and under *)
(* which names: in zmul_ll those of Karatsuba's method,                    *)
InProduct(pc, d, b, c, x, v) ==
  \/ pc \in 0 .. 5   /\ x = "b"      /\ v = b
  \/ pc \in 0 .. 6   /\ x = "c"      /\ v = c
  \/ pc \in 6 .. 11  /\ x = "b_high" /\ v = Hi(d, b)
  \/ pc \in 7 .. 11  /\ x = "c_high" /\ v = Hi(d, c)
  \/ pc \in 6 .. 8   /\ x = "b_low"  /\ v = Lo(d, b)
  \/ pc \in 9 .. 10  /\ x = "b_low"  /\ v = Sum(d, b)
  \/ pc \in 11 .. 12 /\ x = "b_low"  /\ v = Cross(d, b, c)
  \/ pc = 13         /\ x = "b_low"  /\ v = Rest(d, b, c)
  \/ pc = 14         /\ x = "b_low"  /\ v = Mid(d, b, c)
  \/ pc \in 15 .. 16 /\ x = "b_low"  /\ v = Once(d, Mid(d, b, c))
  \/ pc \in 7 .. 9   /\ x = "c_low"  /\ v = Lo(d, c)
  \/ pc = 10         /\ x = "c_low"  /\ v = Sum(d, c)
  \/ pc \in 12 .. 15 /\ x = "c_low"  /\ v = HiHi(d, b, c)
  \/ pc \in 16 .. 17 /\ x = "c_low"  /\ v = Far(d, HiHi(d, b, c))
  \/ pc \in 8 .. 16  /\ x = "a"      /\ v = LoLo(d, b, c)
  \/ pc = 17         /\ x = "a"      /\ v = LoLo(d, b, c) + Once(d, Mid(d, b, c))
  \/ pc \in 18 .. 22 /\ x = "a"      /\ v = b * c

(* and in zsqr_ll those of the binomial formula.                           *)
InSquare(pc, d, b, x, v) ==
  \/ pc \in 1 .. 4   /\ x = "low"  /\ v = Lo(d, b)
  \/ pc \in 1 .. 6   /\ x = "high" /\ v = Hi(d, b)
  \/ pc \in 4 .. 9   /\ x = "z0"   /\ v = LoLo(d, b, b)
  \/ pc = 5          /\ x = "z1"   /\ v = LoHi(d, b, b)
  \/ pc \in 6 .. 8   /\ x = "z1"   /\ v = Doubled(d, LoHi(d, b, b))
  \/ pc = 7          /\ x = "a"    /\ v = HiHi(d, b, b)
  \/ pc = 8          /\ x = "a"    /\ v = Far(d, HiHi(d, b, b))
  \/ pc = 9          /\ x = "a"    /\ v = Far(d, HiHi(d, b, b)) + Doubled(d, LoHi(d, b, b))
  \/ pc \in 10 .. 12 /\ x = "a"    /\ v = b * b

InHigh(pc, d, b, x, v) ==
  \/ pc = 1 /\ x = "high" /\ v = Hi(d, b)
  \/ pc = 2 /\ x = "a"    /\ v = HiHi(d, b, b)
  \/ pc = 3 /\ x = "a"    /\ v = b * b

Wanted(f, b, c, x, v) ==
  \/ f.plan = "zmul_ll"    /\ InProduct(f.pc, f.delim, b, c, x, v)
  \/ f.plan = "high_only"  /\ InHigh(f.pc, f.delim, b, x, v)
  \/ f.plan = "both_parts" /\ InSquare(f.pc, f.delim, b, x, v)

(* What an activation that waits has called for, and of which factors.     *)
Awaited(f) == Steps(f.plan)[f.pc - 1][2]
AsksFor(f, b, c, x, y) ==
  LET d == f.delim
  IN  \/ f.plan = "zmul"       /\ f.pc = 4  /\ x = b         /\ y = c
      \/ f.plan = "zsqr"       /\ f.pc = 2  /\ x = b         /\ y = b
      \/ f.plan = "zmul_ll"    /\ f.pc = 8  /\ x = Lo(d, b)  /\ y = Lo(d, c)
      \/ f.plan = "zmul_ll"    /\ f.pc = 11 /\ x = Sum(d, b) /\ y = Sum(d, c)
      \/ f.plan = "zmul_ll"    /\ f.pc = 12 /\ x = Hi(d, b)  /\ y = Hi(d, c)
      \/ f.plan = "high_only"  /\ f.pc = 2  /\ x = Hi(d, b)  /\ y = Hi(d, b)
      \/ f.plan = "both_parts" /\ f.pc = 4  /\ x = Lo(d, b)  /\ y = Lo(d, b)
      \/ f.plan = "both_parts" /\ f.pc = 5  /\ x = Lo(d, b)  /\ y = Hi(d, b)
      \/ f.plan = "both_parts" /\ f.pc = 7  /\ x = Hi(d, b)  /\ y = Hi(d, b)

Waits(cs, i, b, c, x, y) ==
  /\ AsksFor(cs[i], b, c, x, y)
  /\ cs[i + 1].parts["a"] = PartOf(cs[i], i, Awaited(cs[i]))

(* Activation i has v under the name x, and no activation it waits for     *)
(* will overwrite it, unless x is what it waits for.                       *)
Sees(cs, vs, i, x, v) ==
  \/ i < Len(cs) /\ x = Awaited(cs[i])
  \/ LET p == PartOf(cs[i], i, x)
     IN  /\ p.of \in DOMAIN vs /\ Reads(vs, p) = v
         /\ \A k \in i + 1 .. Len(cs) : p.of # cs[k].parts["a"].of

(* Before it has chosen its body, zsqr_ll may still have a negative b.     *)
Knows(cs, vs, i, b, c) ==
  LET f == cs[i]
  IN  /\ f.plan # "zmul_ll" => b = c
      /\ f.plan = "zsqr_ll" => /\ Abs(Reads(vs, f.parts["b"])) = b
                               /\ {"low", "high"} \cap DOMAIN f.parts = {}
      /\ f.plan = "high_only" => Lo(f.delim, b) = 0
      /\ \A x, v : Wanted(f, b, c, x, v) => Sees(cs, vs, i, x, v)

(* The program's numbers before each step of zmul and zsqr.                *)
NoB(ask)     == [ask.was EXCEPT ![ask.b] = Abs(@)]
NoC(ask)     == [NoB(ask) EXCEPT ![ask.c] = Abs(@)]
Stored(ask)  == [NoC(ask) EXCEPT ![ask.a] = Abs(ask.was[ask.b]) * Abs(ask.was[ask.c])]
HasC(ask)    == [Stored(ask) EXCEPT ![ask.c] = Sign(NoB(ask)[ask.c]) * Abs(@)]
HasB(ask)    == [HasC(ask) EXCEPT ![ask.b] = Sign(ask.was[ask.b]) * Abs(@)]
Product(ask) == [ask.was EXCEPT ![ask.a] = ask.was[ask.b] * ask.was[ask.c]]

Expected(ask, f, v) ==
  \/ f.plan = "zmul" /\ f.pc \in 0 .. 1 /\ v = ask.was
  \/ f.plan = "zmul" /\ f.pc = 2        /\ v = NoB(ask)
  \/ f.plan = "zmul" /\ f.pc = 3        /\ v = NoC(ask)
  \/ f.plan = "zmul" /\ f.pc = 4        /\ v = Stored(ask)
  \/ f.plan = "zmul" /\ f.pc = 5        /\ v = HasC(ask)
  \/ f.plan = "zmul" /\ f.pc = 6        /\ v = HasB(ask)
  \/ f.plan = "zmul" /\ f.pc = 7        /\ v = Product(ask)
  \/ f.plan = "zsqr" /\ f.pc \in 0 .. 1 /\ v = ask.was
  \/ f.plan = "zsqr" /\ f.pc \in 2 .. 3 /\ v = Product(ask)

Outer(ask, cs, vs) ==
  LET f == cs[1]
  IN  /\ \A v : Expected(ask, f, v) =>
           \A n \in Reg : (n = ask.a /\ Len(cs) > 1) \/ vs[n] = v[n]
      /\ f.plan = "zmul" /\ f.pc > 1 => f.signs["b"] = Sign(ask.was[ask.b])
      /\ f.plan = "zmul" /\ f.pc > 2 => f.signs["c"] = Sign(NoB(ask)[ask.c])

(* With the factors each activation multiplies.                            *)
Factors(ask, cs, vs, B, C) ==
  /\ \A i \in 1 .. Len(cs) : B[i] \in Nat /\ C[i] \in Nat
  /\ B[1] = Abs(ask.was[ask.b]) /\ C[1] = Abs(ask.was[ask.c])
  /\ Outer(ask, cs, vs)
  /\ \A i \in 2 .. Len(cs) : Knows(cs, vs, i, B[i], C[i])
  /\ \A i \in 1 .. Len(cs) - 1 : Waits(cs, i, B[i], C[i], B[i + 1], C[i + 1])

(* zsqr is called with b twice.                                            *)
Asking(ask) == ask.was \in [Reg -> Int] /\ (ask.fn = "zsqr" => ask.b = ask.c)

FactorInv ==
  /\ Asking(asked)
  /\ status = "run" /\ ~ loan => \E B, C : Factors(asked, calls, val, B, C)
  /\ ProductRight

(* A step before which, and in which, no inner limb has lent.              *)
Exact == ~ loan /\ ~ loan'

-----------------------------------------------------------------------------
(* What the halves make up.                                                *)

(* The products of zmul_ll.                                                *)
LEMMA ProductsOfHalves ==
  ASSUME NEW d \in Nat, NEW b \in Nat, NEW c \in Nat
  PROVE  /\ Hi(d, b) \in Nat /\ Lo(d, b) \in Nat /\ Sum(d, b) \in Nat
         /\ Hi(d, c) \in Nat /\ Lo(d, c) \in Nat /\ Sum(d, c) \in Nat
         /\ LoLo(d, b, c) \in Nat /\ LoHi(d, b, c) \in Nat /\ HiHi(d, b, c) \in Nat
         /\ Cross(d, b, c) \in Nat /\ Rest(d, b, c) \in Nat /\ Mid(d, b, c) \in Nat
         /\ LoLo(d, b, c) <= Cross(d, b, c) /\ HiHi(d, b, c) <= Rest(d, b, c)
         /\ Once(d, Mid(d, b, c)) \in Nat /\ Far(d, HiHi(d, b, c)) \in Nat
         /\ LoLo(d, b, c) + Once(d, Mid(d, b, c)) \in Nat
         /\ (LoLo(d, b, c) + Once(d, Mid(d, b, c))) + Far(d, HiHi(d, b, c)) = b * c
<1> DEFINE n  == 2 ^ d
           bh == b \div n
           bl == b % n
           ch == c \div n
           cl == c % n
           whole == (bl + bh) * (cl + ch)
           mid   == whole - bl * cl - bh * ch
<1>1. n \in Nat \ {0}
  BY Positive
<1> HIDE DEF n
<1>2. /\ bh \in Nat /\ bl \in Nat /\ b = bh * n + bl
      /\ ch \in Nat /\ cl \in Nat /\ c = ch * n + cl
  BY <1>1, Halved
<1>3. /\ Hi(d, b) = bh /\ Lo(d, b) = bl /\ Sum(d, b) = bl + bh
      /\ Hi(d, c) = ch /\ Lo(d, c) = cl /\ Sum(d, c) = cl + ch
  BY DEF Hi, Lo, Sum, n
<1> HIDE DEF bh, bl, ch, cl
<1>4. /\ LoLo(d, b, c) = bl * cl /\ LoHi(d, b, c) = bl * ch /\ HiHi(d, b, c) = bh * ch
      /\ Cross(d, b, c) = whole /\ Rest(d, b, c) = whole - bl * cl /\ Mid(d, b, c) = mid
      /\ Once(d, Mid(d, b, c)) = mid * n /\ Far(d, HiHi(d, b, c)) = bh * ch * (n * n)
  BY <1>3 DEF LoLo, LoHi, HiHi, Cross, Rest, Mid, Once, Far, n
<1>5. /\ whole \in Nat /\ bl * cl \in Nat /\ bh * ch \in Nat
      /\ bl * cl <= whole /\ bh * ch <= whole - bl * cl /\ mid \in Nat
      /\ (bl * cl + mid * n) + bh * ch * (n * n) = b * c
  <2>1. n \in Nat
    BY <1>1
  <2> QED BY <1>2, <2>1, Karatsuba
<1>6. bl * ch \in Nat /\ bl + bh \in Nat /\ cl + ch \in Nat
  BY <1>2, Multiplied
<1> HIDE DEF whole, mid
<1> DEFINE ll == bl * cl
           hh == bh * ch
<1>7. ll \in Nat /\ hh \in Nat
  BY <1>5
<1> HIDE DEF ll, hh
<1>8. mid * n \in Nat /\ n * n \in Nat
  BY <1>1, <1>5, Multiplied
<1>9. hh * (n * n) \in Nat
  BY <1>7, <1>8, Multiplied
<1>10. ll + mid * n \in Nat /\ whole - ll \in Nat
  <2> DEFINE m == mid * n
  <2>1. m \in Nat /\ ll <= whole
    BY <1>5, <1>8 DEF ll
  <2> HIDE DEF m
  <2>2. ll + m \in Nat /\ whole - ll \in Nat
    BY <1>5, <1>7, <2>1
  <2> QED BY <2>2 DEF m
<1> QED BY <1>2, <1>3, <1>4, <1>5, <1>6, <1>8, <1>9, <1>10 DEF ll, hh

(* The products of zsqr_ll.                                                *)
LEMMA SquaresOfHalves ==
  ASSUME NEW d \in Nat, NEW b \in Nat
  PROVE  /\ Hi(d, b) \in Nat /\ Lo(d, b) \in Nat
         /\ LoLo(d, b, b) \in Nat /\ LoHi(d, b, b) \in Nat /\ HiHi(d, b, b) \in Nat
         /\ Doubled(d, LoHi(d, b, b)) \in Nat /\ Far(d, HiHi(d, b, b)) \in Nat
         /\ Far(d, HiHi(d, b, b)) + Doubled(d, LoHi(d, b, b)) \in Nat
         /\ (Far(d, HiHi(d, b, b)) + Doubled(d, LoHi(d, b, b))) + LoLo(d, b, b) = b * b
         /\ Lo(d, b) = 0 => Far(d, HiHi(d, b, b)) = b * b
<1> DEFINE n  == 2 ^ d
           bh == b \div n
           bl == b % n
           hh == bh * bh
           lh == bl * bh
           ll == bl * bl
<1>1. n \in Nat \ {0}
  BY Positive
<1> HIDE DEF n
<1>2. bh \in Nat /\ bl \in Nat /\ b = bh * n + bl
  BY <1>1, Halved
<1>3. Hi(d, b) = bh /\ Lo(d, b) = bl
  BY DEF Hi, Lo, n
<1> HIDE DEF bh, bl
<1>4. /\ LoLo(d, b, b) = ll /\ LoHi(d, b, b) = lh /\ HiHi(d, b, b) = hh
      /\ Doubled(d, LoHi(d, b, b)) = lh * (2 * n) /\ Far(d, HiHi(d, b, b)) = hh * (n * n)
  BY <1>3 DEF LoLo, LoHi, HiHi, Doubled, Far, n
<1>5. /\ hh \in Nat /\ ll \in Nat /\ lh \in Nat
      /\ hh * (n * n) \in Nat /\ lh * (2 * n) \in Nat
      /\ (hh * (n * n) + lh * (2 * n)) + ll = b * b
  <2>1. n \in Nat
    BY <1>1
  <2> QED BY <1>2, <2>1, SquareOfHalves
<1>6. bl = 0 => lh = 0 /\ ll = 0
  BY <1>2
<1> HIDE DEF hh, lh, ll
<1> DEFINE x == hh * (n * n)
           y == lh * (2 * n)
<1>7. bl = 0 => y = 0
  <2>1. 2 * n \in Nat /\ 0 * (2 * n) = 0
    BY <1>1
  <2> QED BY <1>6, <2>1
<1>8. x \in Nat /\ y \in Nat /\ (x + y) + ll = b * b
  BY <1>5
<1> HIDE DEF x, y
<1>9. x + y \in Nat /\ (bl = 0 => x = b * b)
  <2> DEFINE bb == b * b
  <2> HIDE DEF bb
  <2>1. (x + y) + ll = bb
    BY <1>8 DEF bb
  <2>2. x + y \in Nat /\ (bl = 0 => x = bb)
    BY <1>5, <1>6, <1>7, <1>8, <2>1
  <2> QED BY <2>2 DEF bb
<1> QED BY <1>2, <1>3, <1>4, <1>5, <1>8, <1>9 DEF x, y

(* What the steps store when magnitudes are all there is.                  *)
LEMMA StoresOfNaturals ==
  ASSUME NEW a \in Nat, NEW b \in Nat
  PROVE  /\ (IF b = 0 THEN a ELSE Abs(a) + Abs(b)) = a + b
         /\ b <= a => Sign(a) * (a - b) = a - b
         /\ Sign(a) * b = IF a = 0 THEN 0 ELSE b
BY DEF Abs, Sign

(* A shift is by the delimiter, by it and one more, or by twice as much.   *)
LEMMA Shifts ==
  ASSUME NEW d \in Nat, NEW v \in Nat
  PROVE  /\ v * 2 ^ (1 * d + 0) = Once(d, v)
         /\ v * 2 ^ (2 * d + 0) = Far(d, v)
         /\ v * 2 ^ (1 * d + 1) = Doubled(d, v)
<1>1. 1 * d + 0 = d /\ 2 * d + 0 = d + d /\ 1 * d + 1 = d + 1
  OBVIOUS
<1>2. 2 ^ (d + d) = 2 ^ d * 2 ^ d /\ 2 ^ (d + 1) = 2 * 2 ^ d
  BY PowerOfSum, Doubling
<1> QED BY <1>1, <1>2 DEF Once, Far, Doubled

-----------------------------------------------------------------------------
(* The tables of what is wanted, from one step to the next.                *)

(* A step stores w under the name y; what else will be wanted was wanted   *)
(* before, and is somewhere else.                                          *)
Elsewhere(x, y) == x # y /\ (x \in Temporaries \/ y \in Temporaries)
After(f, b, c, x, v, y, w) ==
  (x = y /\ v = w) \/ (Wanted(f, b, c, x, v) /\ Elsewhere(x, y))

(* The next step of an activation.                                         *)
NextOf(f, g) == g.plan = f.plan /\ g.delim = f.delim /\ g.pc = f.pc + 1

(* zmul_ll.                                                                *)
LEMMA ProductTable ==
  ASSUME NEW f, NEW g, NextOf(f, g), f.plan = "zmul_ll", f.pc \in Nat,
         NEW b, NEW c, NEW x, NEW v, Wanted(g, b, c, x, v)
  PROVE  LET d == f.delim
         IN  /\ f.pc \in 0 .. 4 => Wanted(f, b, c, x, v) /\ x \in {"b", "c"}
             /\ f.pc = 5 => \/ x = "b_high" /\ v = Hi(d, b)
                            \/ x = "b_low" /\ v = Lo(d, b)
                            \/ x = "c" /\ Wanted(f, b, c, x, v)
             /\ f.pc = 6 => \/ x = "c_high" /\ v = Hi(d, c)
                            \/ x = "c_low" /\ v = Lo(d, c)
                            \/ x \in {"b_high", "b_low"} /\ Wanted(f, b, c, x, v)
             /\ f.pc = 7  => After(f, b, c, x, v, "a", LoLo(d, b, c))
             /\ f.pc = 8  => After(f, b, c, x, v, "b_low", Sum(d, b))
             /\ f.pc = 9  => After(f, b, c, x, v, "c_low", Sum(d, c))
             /\ f.pc = 10 => After(f, b, c, x, v, "b_low", Cross(d, b, c))
             /\ f.pc = 11 => After(f, b, c, x, v, "c_low", HiHi(d, b, c))
             /\ f.pc = 12 => After(f, b, c, x, v, "b_low", Rest(d, b, c))
             /\ f.pc = 13 => After(f, b, c, x, v, "b_low", Mid(d, b, c))
             /\ f.pc = 14 => After(f, b, c, x, v, "b_low", Once(d, Mid(d, b, c)))
             /\ f.pc = 15 => After(f, b, c, x, v, "c_low", Far(d, HiHi(d, b, c)))
             /\ f.pc = 16 => After(f, b, c, x, v, "a", LoLo(d, b, c) + Once(d, Mid(d, b, c)))
             /\ f.pc = 17 => After(f, b, c, x, v, "a", b * c)
             /\ f.pc \in 18 .. 21 => Wanted(f, b, c, x, v)
<1> DEFINE d  == f.delim
           bc == b * c
           s  == LoLo(d, b, c) + Once(d, Mid(d, b, c))
           P(pc, y, w) == InProduct(pc, d, b, c, y, w)
<1>1. g.plan = "zmul_ll" /\ g.delim = d /\ g.pc = f.pc + 1
  BY DEF NextOf
<1>2. P(f.pc + 1, x, v) /\ (P(f.pc, x, v) => Wanted(f, b, c, x, v))
  BY <1>1 DEF Wanted
<1>3. \A pc \in Nat : P(pc, x, v) <=>
        \/ pc \in 0 .. 5   /\ x = "b"      /\ v = b
        \/ pc \in 0 .. 6   /\ x = "c"      /\ v = c
        \/ pc \in 6 .. 11  /\ x = "b_high" /\ v = Hi(d, b)
        \/ pc \in 7 .. 11  /\ x = "c_high" /\ v = Hi(d, c)
        \/ pc \in 6 .. 8   /\ x = "b_low"  /\ v = Lo(d, b)
        \/ pc \in 9 .. 10  /\ x = "b_low"  /\ v = Sum(d, b)
        \/ pc \in 11 .. 12 /\ x = "b_low"  /\ v = Cross(d, b, c)
        \/ pc = 13         /\ x = "b_low"  /\ v = Rest(d, b, c)
        \/ pc = 14         /\ x = "b_low"  /\ v = Mid(d, b, c)
        \/ pc \in 15 .. 16 /\ x = "b_low"  /\ v = Once(d, Mid(d, b, c))
        \/ pc \in 7 .. 9   /\ x = "c_low"  /\ v = Lo(d, c)
        \/ pc = 10         /\ x = "c_low"  /\ v = Sum(d, c)
        \/ pc \in 12 .. 15 /\ x = "c_low"  /\ v = HiHi(d, b, c)
        \/ pc \in 16 .. 17 /\ x = "c_low"  /\ v = Far(d, HiHi(d, b, c))
        \/ pc \in 8 .. 16  /\ x = "a"      /\ v = LoLo(d, b, c)
        \/ pc = 17         /\ x = "a"      /\ v = s
        \/ pc \in 18 .. 22 /\ x = "a"      /\ v = bc
  BY Zenon DEF InProduct
<1> HIDE DEF P, bc, s, d
<1>4. /\ f.pc \in 0 .. 4 => Wanted(f, b, c, x, v) /\ x \in {"b", "c"}
      /\ f.pc = 5 => \/ x = "b_high" /\ v = Hi(d, b)
                     \/ x = "b_low" /\ v = Lo(d, b)
                     \/ x = "c" /\ Wanted(f, b, c, x, v)
      /\ f.pc = 6 => \/ x = "c_high" /\ v = Hi(d, c)
                     \/ x = "c_low" /\ v = Lo(d, c)
                     \/ x \in {"b_high", "b_low"} /\ Wanted(f, b, c, x, v)
      /\ f.pc = 7  => After(f, b, c, x, v, "a", LoLo(d, b, c))
  BY <1>2, <1>3 DEF After, Elsewhere, Temporaries
<1>5. /\ f.pc = 8  => After(f, b, c, x, v, "b_low", Sum(d, b))
      /\ f.pc = 9  => After(f, b, c, x, v, "c_low", Sum(d, c))
      /\ f.pc = 10 => After(f, b, c, x, v, "b_low", Cross(d, b, c))
      /\ f.pc = 11 => After(f, b, c, x, v, "c_low", HiHi(d, b, c))
      /\ f.pc = 12 => After(f, b, c, x, v, "b_low", Rest(d, b, c))
      /\ f.pc = 13 => After(f, b, c, x, v, "b_low", Mid(d, b, c))
  BY <1>2, <1>3 DEF After, Elsewhere, Temporaries
<1>6. /\ f.pc = 14 => After(f, b, c, x, v, "b_low", Once(d, Mid(d, b, c)))
      /\ f.pc = 15 => After(f, b, c, x, v, "c_low", Far(d, HiHi(d, b, c)))
      /\ f.pc = 16 => After(f, b, c, x, v, "a", s)
      /\ f.pc = 17 => After(f, b, c, x, v, "a", bc)
      /\ f.pc \in 18 .. 21 => Wanted(f, b, c, x, v)
  BY <1>2, <1>3 DEF After, Elsewhere, Temporaries
<1> QED BY <1>4, <1>5, <1>6 DEF bc, s, d

(* zsqr_ll.                                                                *)
LEMMA SquareTable ==
  ASSUME NEW f, NEW g, NextOf(f, g), f.pc \in Nat \ {0},
         NEW b, NEW c, NEW x, NEW v, Wanted(g, b, c, x, v)
  PROVE  LET d == f.delim
         IN  /\ f.plan = "both_parts" =>
                  /\ f.pc \in 1 .. 2 => Wanted(f, b, c, x, v) /\ x \in {"low", "high"}
                  /\ f.pc = 3 => After(f, b, c, x, v, "z0", LoLo(d, b, b))
                  /\ f.pc = 4 => After(f, b, c, x, v, "z1", LoHi(d, b, b))
                  /\ f.pc = 5 => After(f, b, c, x, v, "z1", Doubled(d, LoHi(d, b, b)))
                  /\ f.pc = 6 => After(f, b, c, x, v, "a", HiHi(d, b, b))
                  /\ f.pc = 7 => After(f, b, c, x, v, "a", Far(d, HiHi(d, b, b)))
                  /\ f.pc = 8 => After(f, b, c, x, v, "a",
                                       Far(d, HiHi(d, b, b)) + Doubled(d, LoHi(d, b, b)))
                  /\ f.pc = 9 => After(f, b, c, x, v, "a", b * b)
                  /\ f.pc \in 10 .. 11 => Wanted(f, b, c, x, v)
             /\ f.plan = "high_only" =>
                  /\ f.pc = 1 => After(f, b, c, x, v, "a", HiHi(d, b, b))
                  /\ f.pc = 2 => After(f, b, c, x, v, "a", b * b)
<1> DEFINE d  == f.delim
           bb == b * b
           s  == Far(d, HiHi(d, b, b)) + Doubled(d, LoHi(d, b, b))
           P(pc, y, w) == InSquare(pc, d, b, y, w)
           H(pc, y, w) == InHigh(pc, d, b, y, w)
<1>1. g.plan = f.plan /\ g.delim = d /\ g.pc = f.pc + 1
  BY DEF NextOf
<1>2. /\ f.plan = "both_parts" => P(f.pc + 1, x, v) /\ (P(f.pc, x, v) => Wanted(f, b, c, x, v))
      /\ f.plan = "high_only" => H(f.pc + 1, x, v)
  BY <1>1 DEF Wanted
<1>3. \A pc \in Nat : P(pc, x, v) <=>
        \/ pc \in 1 .. 4   /\ x = "low"  /\ v = Lo(d, b)
        \/ pc \in 1 .. 6   /\ x = "high" /\ v = Hi(d, b)
        \/ pc \in 4 .. 9   /\ x = "z0"   /\ v = LoLo(d, b, b)
        \/ pc = 5          /\ x = "z1"   /\ v = LoHi(d, b, b)
        \/ pc \in 6 .. 8   /\ x = "z1"   /\ v = Doubled(d, LoHi(d, b, b))
        \/ pc = 7          /\ x = "a"    /\ v = HiHi(d, b, b)
        \/ pc = 8          /\ x = "a"    /\ v = Far(d, HiHi(d, b, b))
        \/ pc = 9          /\ x = "a"    /\ v = s
        \/ pc \in 10 .. 12 /\ x = "a"    /\ v = bb
  BY Zenon DEF InSquare
<1>4. \A pc \in Nat : H(pc, x, v) <=>
        \/ pc = 1 /\ x = "high" /\ v = Hi(d, b)
        \/ pc = 2 /\ x = "a"    /\ v = HiHi(d, b, b)
        \/ pc = 3 /\ x = "a"    /\ v = bb
  BY Zenon DEF InHigh
<1> HIDE DEF P, H, bb, s, d
<1>5. f.plan = "both_parts" =>
        /\ f.pc \in 1 .. 2 => Wanted(f, b, c, x, v) /\ x \in {"low", "high"}
        /\ f.pc = 3 => After(f, b, c, x, v, "z0", LoLo(d, b, b))
        /\ f.pc = 4 => After(f, b, c, x, v, "z1", LoHi(d, b, b))
        /\ f.pc = 5 => After(f, b, c, x, v, "z1", Doubled(d, LoHi(d, b, b)))
        /\ f.pc = 6 => After(f, b, c, x, v, "a", HiHi(d, b, b))
        /\ f.pc = 7 => After(f, b, c, x, v, "a", Far(d, HiHi(d, b, b)))
        /\ f.pc = 8 => After(f, b, c, x, v, "a", s)
        /\ f.pc = 9 => After(f, b, c, x, v, "a", bb)
        /\ f.pc \in 10 .. 11 => Wanted(f, b, c, x, v)
  BY <1>2, <1>3 DEF After, Elsewhere, Temporaries
<1>6. f.plan = "high_only" =>
        /\ f.pc = 1 => After(f, b, c, x, v, "a", HiHi(d, b, b))
        /\ f.pc = 2 => After(f, b, c, x, v, "a", bb)
  BY <1>2, <1>4 DEF After, Elsewhere, Temporaries
<1> QED BY <1>5, <1>6 DEF bb, s, d

(* What an activation that waits has called for is the value it wants      *)
(* under that name.                                                        *)
LEMMA AwaitedIsWanted ==
  ASSUME NEW f, NEW b, NEW c, NEW x, NEW y, AsksFor(f, b, c, x, y),
         NEW v, Wanted(f, b, c, Awaited(f), v), f.plan # "zmul_ll" => b = c
  PROVE  v = x * y
<1> DEFINE d == f.delim
<1>1. /\ ZmulLlSteps[7][2] = "a" /\ ZmulLlSteps[10][2] = "b_low" /\ ZmulLlSteps[11][2] = "c_low"
      /\ HighOnlySteps[1][2] = "a"
      /\ BothPartsSteps[3][2] = "z0" /\ BothPartsSteps[4][2] = "z1" /\ BothPartsSteps[6][2] = "a"
  BY ZmulLlTable, OtherTables
<1>2. /\ f.plan = "zmul_ll" => Steps(f.plan) = ZmulLlSteps
      /\ f.plan = "high_only" => Steps(f.plan) = HighOnlySteps
      /\ f.plan = "both_parts" => Steps(f.plan) = BothPartsSteps
  BY DEF Steps
<1>3. 8 - 1 = 7 /\ 11 - 1 = 10 /\ 12 - 1 = 11 /\ 2 - 1 = 1 /\ 4 - 1 = 3 /\ 5 - 1 = 4 /\ 7 - 1 = 6
  OBVIOUS
<1>4. CASE f.plan = "zmul_ll"
  <2>1. InProduct(f.pc, d, b, c, Awaited(f), v)
    BY <1>4 DEF Wanted
  <2>2. \/ f.pc = 8  /\ Awaited(f) = "a" /\ x = Lo(d, b)  /\ y = Lo(d, c)
        \/ f.pc = 11 /\ Awaited(f) = "b_low" /\ x = Sum(d, b) /\ y = Sum(d, c)
        \/ f.pc = 12 /\ Awaited(f) = "c_low" /\ x = Hi(d, b)  /\ y = Hi(d, c)
    BY <1>1, <1>2, <1>3, <1>4 DEF AsksFor, Awaited
  <2> DEFINE a == Awaited(f)
  <2> HIDE DEF d, a
  <2>3. CASE f.pc = 8 /\ a = "a"
    <3>1. v = LoLo(d, b, c)
      BY <2>1, <2>3 DEF InProduct, a
    <3> QED BY <2>2, <2>3, <3>1 DEF LoLo
  <2>4. CASE f.pc = 11 /\ a = "b_low"
    <3>1. v = Cross(d, b, c)
      BY <2>1, <2>4 DEF InProduct, a
    <3> QED BY <2>2, <2>4, <3>1 DEF Cross
  <2>5. CASE f.pc = 12 /\ a = "c_low"
    <3>1. v = HiHi(d, b, c)
      BY <2>1, <2>5 DEF InProduct, a
    <3> QED BY <2>2, <2>5, <3>1 DEF HiHi
  <2> QED BY <2>2, <2>3, <2>4, <2>5 DEF a
<1>5. CASE f.plan = "both_parts"
  <2>1. InSquare(f.pc, d, b, Awaited(f), v)
    BY <1>5 DEF Wanted
  <2>2. \/ f.pc = 4 /\ Awaited(f) = "z0" /\ x = Lo(d, b) /\ y = Lo(d, b)
        \/ f.pc = 5 /\ Awaited(f) = "z1" /\ x = Lo(d, b) /\ y = Hi(d, b)
        \/ f.pc = 7 /\ Awaited(f) = "a"  /\ x = Hi(d, b) /\ y = Hi(d, b)
    BY <1>1, <1>2, <1>3, <1>5 DEF AsksFor, Awaited
  <2> DEFINE a == Awaited(f)
  <2> HIDE DEF d, a
  <2>3. CASE f.pc = 4 /\ a = "z0"
    <3>1. v = LoLo(d, b, b)
      BY <2>1, <2>3 DEF InSquare, a
    <3> QED BY <2>2, <2>3, <3>1 DEF LoLo
  <2>4. CASE f.pc = 5 /\ a = "z1"
    <3>1. v = LoHi(d, b, b)
      BY <2>1, <2>4 DEF InSquare, a
    <3> QED BY <2>2, <2>4, <3>1 DEF LoHi
  <2>5. CASE f.pc = 7 /\ a = "a"
    <3>1. v = HiHi(d, b, b)
      BY <2>1, <2>5 DEF InSquare, a
    <3> QED BY <2>2, <2>5, <3>1 DEF HiHi
  <2> QED BY <2>2, <2>3, <2>4, <2>5 DEF a
<1>6. CASE f.plan = "high_only"
  <2>1. InHigh(f.pc, d, b, Awaited(f), v) /\ f.pc = 2 /\ x = Hi(d, b) /\ y = Hi(d, b)
    BY <1>6 DEF Wanted, AsksFor
  <2>2. Awaited(f) = "a"
    BY <1>1, <1>2, <1>3, <1>6, <2>1 DEF Awaited
  <2> HIDE DEF d
  <2>3. v = HiHi(d, b, b)
    BY <2>1, <2>2 DEF InHigh
  <2> QED BY <2>1, <2>3 DEF HiHi
<1>7. f.plan \in {"zmul_ll", "high_only", "both_parts"}
  BY DEF Wanted
<1> QED BY <1>4, <1>5, <1>6, <1>7

-----------------------------------------------------------------------------
(* What a step leaves to the activations that wait.                        *)

(* What is read depends on the number that is read.                        *)
LEMMA SameRead ==
  /\ \A p : Read(p) = Reads(val, p)
  /\ \A vs, ws, p : vs[p.of] = ws[p.of] => Reads(vs, p) = Reads(ws, p)
  /\ \A vs, n : Reads(vs, Whole(n)) = vs[n]
<1>1. \A p : Read(p) = Reads(val, p)
  BY DEF Read, Reads
<1>2. \A vs, ws, p : vs[p.of] = ws[p.of] => Reads(vs, p) = Reads(ws, p)
  BY Zenon DEF Reads
<1>3. \A vs, n : Reads(vs, Whole(n)) = vs[n]
  BY WholePiece DEF Reads
<1> QED BY <1>1, <1>2, <1>3

(* The names of the innermost activation.                                  *)
LEMMA InnermostNames ==
  \A x : Part(x) = PartOf(Frame, Depth, x) /\ Target(x) = PartOf(Frame, Depth, x).of
BY DEF Part, PartOf, Target, Local

(* A name stands for a number outside of the activation, or for a local.   *)
LEMMA PlacesOfNames ==
  ASSUME NEW f, NEW i \in Nat, NEW S, Placed(f, i, S), NEW x
  PROVE  LET n == PartOf(f, i, x).of
         IN  /\ x \in DOMAIN f.parts => n \in Outside(i)
             /\ x \notin DOMAIN f.parts => n = <<i, x>> /\ PartOf(f, i, x) = Whole(<<i, x>>)
             /\ \A k \in Nat : k > i => n \notin {k} \X Locals
             /\ \A k \in Nat : k > i => n \in Reg \/ n[1] < k
<1> DEFINE n == PartOf(f, i, x).of
<1>1. CASE x \in DOMAIN f.parts
  <2>1. n \in Outside(i)
    BY <1>1 DEF PartOf, Placed
  <2>2. n \in Reg \/ (n = <<n[1], n[2]>> /\ n[1] \in 1 .. i - 1 /\ n[2] \in Locals)
    BY <2>1 DEF Outside
  <2> HIDE DEF n
  <2>3. \A k \in Nat : k > i => n \notin {k} \X Locals /\ (n \in Reg \/ n[1] < k)
    <3>1. \A k \in Nat : k > i /\ n \in {k} \X Locals => n \notin Reg /\ n[1] = k
      BY RegAssumption
    <3>2. \A k \in Nat : k > i /\ n[1] \in 1 .. i - 1 => n[1] < k /\ n[1] # k
      OBVIOUS
    <3> QED BY <2>2, <3>1, <3>2
  <2> QED BY <1>1, <2>1, <2>3 DEF n
<1>2. CASE x \notin DOMAIN f.parts
  <2>1. n = <<i, x>> /\ PartOf(f, i, x) = Whole(<<i, x>>)
    BY <1>2, WholePiece DEF PartOf
  <2>2. n[1] = i
    BY <2>1
  <2> HIDE DEF n
  <2>3. \A k \in Nat : k > i => n \notin {k} \X Locals /\ n[1] < k
    BY <2>1, <2>2
  <2> QED BY <1>2, <2>1, <2>3 DEF n
<1> QED BY <1>1, <1>2

(* No two names of which one is a temporary stand for the same number.     *)
LEMMA ElsewhereApart ==
  ASSUME StackInv, PlaceInv, ValueInv, Running, NEW x, NEW y, Elsewhere(x, y)
  PROVE  Target(x) # Target(y)
<1>1. Placed(Frame, Depth, DOMAIN val) /\ Serves(Frame, Depth) /\ Depth \in Nat
  BY InnermostPlaced
<1>2. ASSUME NEW u \in Temporaries, NEW w, u # w
      PROVE  Target(u) # Target(w)
  <2>1. u \notin DOMAIN Frame.parts
    BY <1>1 DEF Serves
  <2>2. Target(u) = <<Depth, u>>
    BY <1>1, <2>1, PlacesOfNames, InnermostNames
  <2>3. Target(w) \in Outside(Depth) \/ Target(w) = <<Depth, w>>
    BY <1>1, PlacesOfNames, InnermostNames
  <2>4. <<Depth, u>> \notin Outside(Depth)
    <3>1. u \in Locals
      BY DEF Temporaries, Locals
    <3>2. <<Depth, u>> \notin Reg
      BY <1>1, <3>1, LocalsApart
    <3>3. Depth \notin 1 .. Depth - 1
      BY <1>1
    <3> QED BY <3>2, <3>3 DEF Outside
  <2>5. <<Depth, u>> # <<Depth, w>>
    BY <1>2
  <2> QED BY <2>2, <2>3, <2>4, <2>5, Zenon
<1> QED BY <1>2 DEF Elsewhere

(* What the innermost activation may overwrite: what it works for and its  *)
(* own locals.                                                             *)
Untouched == \A n \in DOMAIN val : \/ n = Target("a") \/ n \in {Depth} \X Locals
                                   \/ n \in DOMAIN val' /\ val'[n] = val[n]

(* An activation that waits sees what it saw before.                       *)
LEMMA OthersSee ==
  ASSUME StackInv, PlaceInv, ValueInv, Running, Untouched,
         NEW cs, Len(cs) = Depth, NEW i \in 1 .. Depth - 1, cs[i] = calls[i],
         \A k \in i + 1 .. Depth : cs[k].parts["a"] = calls[k].parts["a"],
         NEW x, NEW v, Sees(calls, val, i, x, v)
  PROVE  Sees(cs, val', i, x, v)
<1> DEFINE p == PartOf(calls[i], i, x)
<1>1. Depth \in Nat /\ i \in Nat /\ i \in 1 .. Depth /\ i < Depth /\ Depth \in i + 1 .. Depth
      /\ Len(calls) = Depth
  BY Innermost DEF Depth
<1>2. CASE x = Awaited(calls[i])
  BY <1>1, <1>2 DEF Sees
<1>3. CASE x # Awaited(calls[i])
  <2>1. /\ p.of \in DOMAIN val /\ Reads(val, p) = v
        /\ \A k \in i + 1 .. Depth : p.of # calls[k].parts["a"].of
    BY <1>1, <1>3 DEF Sees
  <2>2. Placed(calls[i], i, DOMAIN val)
    BY <1>1 DEF PlaceInv
  <2>3. p.of \notin {Depth} \X Locals
    BY <1>1, <2>2, PlacesOfNames
  <2>4. p.of # Target("a")
    <3>1. Serves(Frame, Depth)
      BY InnermostPlaced
    <3>2. Target("a") = calls[Depth].parts["a"].of
      BY <3>1 DEF Target, Part, Frame, Serves
    <3> QED BY <1>1, <2>1, <3>2
  <2>5. p.of \in DOMAIN val' /\ val'[p.of] = val[p.of]
    BY <2>1, <2>3, <2>4 DEF Untouched
  <2>6. Reads(val', p) = v
    BY <2>1, <2>5, SameRead
  <2>7. \A k \in i + 1 .. Len(cs) : p.of # cs[k].parts["a"].of
    BY <2>1
  <2>8. PartOf(cs[i], i, x) = p
    OBVIOUS
  <2> HIDE DEF p
  <2> QED BY <2>5, <2>6, <2>7, <2>8 DEF Sees
<1> QED BY <1>2, <1>3

(* So it knows what it knew.                                               *)
LEMMA OthersKnow ==
  ASSUME StackInv, PlaceInv, ValueInv, Running, Untouched,
         NEW cs, Len(cs) = Depth, NEW i \in 1 .. Depth - 1, cs[i] = calls[i],
         \A k \in i + 1 .. Depth : cs[k].parts["a"] = calls[k].parts["a"],
         calls[i].plan # "zsqr_ll",
         NEW b, NEW c, Knows(calls, val, i, b, c)
  PROVE  Knows(cs, val', i, b, c)
<1>1. \A x, v : Wanted(cs[i], b, c, x, v) => Sees(cs, val', i, x, v)
  <2> SUFFICES ASSUME NEW x, NEW v, Wanted(calls[i], b, c, x, v)
               PROVE  Sees(cs, val', i, x, v)
    OBVIOUS
  <2>1. Sees(calls, val, i, x, v)
    BY DEF Knows
  <2> QED BY <2>1, OthersSee
<1> QED BY <1>1 DEF Knows

(* The program's numbers, when zmul or zsqr waits.                         *)
LEMMA OuterKept ==
  ASSUME StackInv, PlaceInv, ValueInv, Running, Untouched, Depth > 1,
         NEW cs, Len(cs) = Depth, cs[1] = calls[1], Outer(asked, calls, val)
  PROVE  Outer(asked, cs, val')
<1> DEFINE f == calls[1]
<1>1. Depth \in Nat /\ Serves(Frame, Depth) /\ Len(calls) = Depth
  BY InnermostPlaced DEF Depth
<1>2. Target("a") = asked.a \/ Target("a") \notin Reg
  <2>1. Target("a") = Frame.parts["a"].of
    BY <1>1 DEF Target, Part, Serves
  <2> QED BY <1>1, <2>1 DEF Serves
<1>3. \A n \in Reg : n \notin {Depth} \X Locals
  BY <1>1, RegAssumption
<1>4. Reg \subseteq DOMAIN val
  BY DEF PlaceInv, Numbers
<1>5. \A n \in Reg : n = asked.a \/ val'[n] = val[n]
  BY <1>2, <1>3, <1>4 DEF Untouched
<1>6. ASSUME NEW v, Expected(asked, f, v), NEW n \in Reg
      PROVE  (n = asked.a /\ Len(cs) > 1) \/ val'[n] = v[n]
  <2>1. (n = asked.a /\ Len(calls) > 1) \/ val[n] = v[n]
    BY <1>6 DEF Outer
  <2> QED BY <1>1, <1>5, <2>1
<1> QED BY <1>6 DEF Outer

(* An activation that waits waits for no choice of a body.                 *)
LEMMA WaitersChose ==
  ASSUME NEW f, NEW b, NEW c, NEW x, NEW y, AsksFor(f, b, c, x, y)
  PROVE  f.plan # "zsqr_ll"
BY DEF AsksFor

(* A step of an activation that works for another.                         *)
LEMMA FactorsOn ==
  ASSUME StackInv, PlaceInv, ValueInv, Running, Untouched, Depth > 1,
         NEW B, NEW C, Factors(asked, calls, val, B, C),
         NEW g, calls' = [calls EXCEPT ![Depth] = g], g.parts["a"] = Frame.parts["a"],
         Knows(calls', val', Depth, B[Depth], C[Depth])
  PROVE  Factors(asked, calls', val', B, C)
<1>1. Depth \in Nat /\ Len(calls) = Depth
  BY Innermost DEF Depth
<1>2. /\ Len(calls') = Depth /\ calls'[Depth] = g
      /\ \A i \in 1 .. Depth : i # Depth => calls'[i] = calls[i]
  BY InnermostReplaced
<1>3. \A k \in 1 .. Depth : calls'[k].parts["a"] = calls[k].parts["a"]
  BY <1>2 DEF Frame
<1>4. calls'[1] = calls[1]
  BY <1>1, <1>2
<1>5. Outer(asked, calls', val')
  BY <1>2, <1>4, OuterKept DEF Factors
<1>6. ASSUME NEW i \in 1 .. Depth - 1
      PROVE  Waits(calls', i, B[i], C[i], B[i + 1], C[i + 1])
  <2>1. Waits(calls, i, B[i], C[i], B[i + 1], C[i + 1])
    BY <1>1, <1>6 DEF Factors
  <2>2. i \in 1 .. Depth /\ i # Depth /\ i + 1 \in 1 .. Depth
    BY <1>1
  <2> QED BY <1>2, <1>3, <2>1, <2>2 DEF Waits
<1>7. ASSUME NEW i \in 2 .. Depth
      PROVE  Knows(calls', val', i, B[i], C[i])
  <2>1. CASE i = Depth
    BY <2>1
  <2>2. CASE i # Depth
    <3>1. i \in 1 .. Depth - 1 /\ i \in 1 .. Depth
      BY <1>1, <2>2
    <3>2. Knows(calls, val, i, B[i], C[i]) /\ AsksFor(calls[i], B[i], C[i], B[i + 1], C[i + 1])
      BY <1>1, <3>1 DEF Factors, Waits
    <3>3. calls[i].plan # "zsqr_ll"
      BY <3>2, WaitersChose
    <3>4. \A k \in i + 1 .. Depth : calls'[k].parts["a"] = calls[k].parts["a"]
      BY <1>1, <1>3, <3>1
    <3>5. calls'[i] = calls[i]
      BY <1>2, <2>2, <3>1
    <3> QED BY <1>2, <3>1, <3>2, <3>3, <3>4, <3>5, OthersKnow
  <2> QED BY <2>1, <2>2
<1> QED BY <1>1, <1>2, <1>5, <1>6, <1>7 DEF Factors

-----------------------------------------------------------------------------
(* The steps of an activation that works for another.                      *)

(* What is wanted by the innermost activation is there.                    *)
LEMMA HasWanted ==
  ASSUME StackInv, Running, NEW b, NEW c, Knows(calls, val, Depth, b, c),
         NEW x, NEW v, Wanted(Frame, b, c, x, v)
  PROVE  Target(x) \in DOMAIN val /\ Read(Part(x)) = v
<1>1. Depth \in Nat /\ Len(calls) = Depth
  BY Innermost DEF Depth
<1>2. Sees(calls, val, Depth, x, v)
  BY DEF Knows, Frame
<1>3. PartOf(Frame, Depth, x).of \in DOMAIN val /\ Reads(val, PartOf(Frame, Depth, x)) = v
  BY <1>1, <1>2 DEF Sees, Frame
<1> QED BY <1>3, SameRead, InnermostNames

(* And what it will want next it knows, when it is there.                  *)
LEMMA KnowsNext ==
  ASSUME StackInv, Running, NEW b, NEW c, NEW g, calls' = [calls EXCEPT ![Depth] = g],
         g.plan \in {"zmul_ll", "high_only", "both_parts"}, g.plan # "zmul_ll" => b = c,
         g.plan = "high_only" => Lo(g.delim, b) = 0,
         \A x, v : Wanted(g, b, c, x, v) => /\ PartOf(g, Depth, x).of \in DOMAIN val'
                                            /\ Reads(val', PartOf(g, Depth, x)) = v
  PROVE  Knows(calls', val', Depth, b, c)
<1>1. Depth \in Nat /\ Len(calls') = Depth /\ calls'[Depth] = g
  BY Innermost, InnermostReplaced
<1>2. \A k : k \notin Depth + 1 .. Len(calls')
  BY <1>1
<1>3. \A x, v : Wanted(g, b, c, x, v) => Sees(calls', val', Depth, x, v)
  BY <1>1, <1>2 DEF Sees
<1> QED BY <1>1, <1>3 DEF Knows

(* At a step, the activation that works for another is in one of three     *)
(* bodies, and knows.                                                      *)
LEMMA InnerStep ==
  ASSUME StackInv, PlaceInv, ValueInv, NEW kind, At(kind), Depth > 1,
         NEW B, NEW C, Factors(asked, calls, val, B, C)
  PROVE  /\ Frame.plan \in {"zmul_ll", "high_only", "both_parts"}
         /\ Knows(calls, val, Depth, B[Depth], C[Depth])
         /\ B[Depth] \in Nat /\ C[Depth] \in Nat /\ Frame.delim \in Nat
         /\ Frame.plan # "zmul_ll" => B[Depth] = C[Depth]
         /\ Frame.plan = "high_only" => Lo(Frame.delim, B[Depth]) = 0
         /\ Sites(kind) /\ Running /\ NextOf(Frame, Onward(Frame))
         /\ Frame.pc \in Nat \ {0} /\ Frame.pc \in Nat
<1>1. /\ Running /\ Frame.plan \in Plans /\ Frame.plan # "zsqr_ll"
      /\ Frame.pc \in 1 .. Len(Steps(Frame.plan))
  BY AtStep
<1>2. Depth \in Nat /\ Len(calls) = Depth /\ Depth \in 2 .. Depth /\ Depth \in 1 .. Depth
  BY <1>1, Innermost DEF Depth
<1>3. Serves(Frame, Depth) /\ Placed(Frame, Depth, DOMAIN val)
  BY <1>1, InnermostPlaced
<1>4. Frame.plan \notin {"zmul", "zsqr"}
  BY <1>2, <1>3 DEF Serves
<1>5. Frame.plan \in {"zmul_ll", "high_only", "both_parts"}
  BY <1>1, <1>4 DEF Plans
<1>6. Knows(calls, val, Depth, B[Depth], C[Depth]) /\ B[Depth] \in Nat /\ C[Depth] \in Nat
  BY <1>2 DEF Factors
<1>7. /\ Frame.plan # "zmul_ll" => B[Depth] = C[Depth]
      /\ Frame.plan = "high_only" => Lo(Frame.delim, B[Depth]) = 0
  BY <1>6 DEF Knows, Frame
<1>8. NextOf(Frame, Onward(Frame))
  BY OnwardIs DEF NextOf
<1>9. Sites(kind)
  BY KindIs
<1>10. Frame.pc \in Nat \ {0}
  BY <1>1
<1> QED BY <1>1, <1>3, <1>5, <1>6, <1>7, <1>8, <1>9, <1>10 DEF Placed

(* What a step leaves as it is, if it stores under one name.               *)
LEMMA StoreTouches ==
  ASSUME StackInv, PlaceInv, ValueInv, Running, NEW y \in {"a"} \cup Temporaries,
         DOMAIN val' = DOMAIN val, \A n \in DOMAIN val : n # Target(y) => val'[n] = val[n]
  PROVE  Untouched
<1>1. Serves(Frame, Depth) /\ Depth \in Nat /\ Placed(Frame, Depth, DOMAIN val)
  BY InnermostPlaced
<1>2. Target(y) = Target("a") \/ Target(y) \in {Depth} \X Locals
  <2>1. CASE y \in Temporaries
    <3>1. y \notin DOMAIN Frame.parts /\ y \in Locals
      BY <1>1, <2>1 DEF Serves, Temporaries, Locals
    <3>2. Target(y) = <<Depth, y>>
      BY <1>1, <3>1, PlacesOfNames, InnermostNames
    <3> QED BY <3>1, <3>2
  <2> QED BY <2>1
<1> QED BY <1>2 DEF Untouched

(* A step to the next of the same body.                                    *)
LEMMA StepFactors ==
  ASSUME StackInv, PlaceInv, ValueInv, NEW kind, At(kind), Depth > 1,
         NEW B, NEW C, Factors(asked, calls, val, B, C), Untouched,
         calls' = [calls EXCEPT ![Depth] = Onward(Frame)], asked' = asked,
         \A x, v : Wanted(Onward(Frame), B[Depth], C[Depth], x, v) =>
           Target(x) \in DOMAIN val' /\ Reads(val', Part(x)) = v
  PROVE  Factors(asked', calls', val', B, C)
<1> DEFINE g == Onward(Frame)
           b == B[Depth]
           c == C[Depth]
<1>1. /\ Frame.plan \in {"zmul_ll", "high_only", "both_parts"}
      /\ Running
      /\ Frame.plan # "zmul_ll" => b = c
      /\ Frame.plan = "high_only" => Lo(Frame.delim, b) = 0
  BY InnerStep
<1>2. /\ g.plan = Frame.plan /\ g.parts = Frame.parts /\ g.delim = Frame.delim
  BY OnwardIs
<1>3. calls' = [calls EXCEPT ![Depth] = g]
  OBVIOUS
<1> HIDE DEF g, b, c
<1>4. \A x : PartOf(g, Depth, x) = Part(x) /\ PartOf(g, Depth, x).of = Target(x)
  BY <1>2 DEF PartOf, Part, Target, Local
<1>5. \A x, v : Wanted(g, b, c, x, v) => /\ PartOf(g, Depth, x).of \in DOMAIN val'
                                         /\ Reads(val', PartOf(g, Depth, x)) = v
  BY <1>4 DEF g, b, c
<1>6. Knows(calls', val', Depth, b, c)
  BY <1>1, <1>2, <1>3, <1>5, KnowsNext
<1>7. g.parts["a"] = Frame.parts["a"]
  BY <1>2
<1> QED BY <1>1, <1>3, <1>6, <1>7, FactorsOn DEF b, c

(* What is wanted before a step and not overwritten is there after it.     *)
LEMMA StillThere ==
  ASSUME StackInv, Running, NEW b, NEW c, Knows(calls, val, Depth, b, c),
         NEW x, NEW v, Wanted(Frame, b, c, x, v),
         Target(x) \in DOMAIN val => Target(x) \in DOMAIN val' /\ val'[Target(x)] = val[Target(x)]
  PROVE  Target(x) \in DOMAIN val' /\ Reads(val', Part(x)) = v
<1>1. Target(x) \in DOMAIN val /\ Read(Part(x)) = v
  BY HasWanted
<1>2. val'[Part(x).of] = val[Part(x).of]
  BY <1>1 DEF Target
<1>3. Reads(val', Part(x)) = Reads(val, Part(x)) /\ Reads(val, Part(x)) = v
  BY <1>1, <1>2, SameRead
<1> QED BY <1>1, <1>3

(* A step that stores one value.                                           *)
LEMMA StoreFactors ==
  ASSUME StackInv, PlaceInv, ValueInv, NEW kind, At(kind), Depth > 1,
         NEW B, NEW C, Factors(asked, calls, val, B, C),
         NEW y \in {"a"} \cup Temporaries, Usable(y), NEW w, Puts(y, w),
         \A x, v : Wanted(Onward(Frame), B[Depth], C[Depth], x, v) =>
           After(Frame, B[Depth], C[Depth], x, v, y, w)
  PROVE  Factors(asked', calls', val', B, C)
<1>1. Knows(calls, val, Depth, B[Depth], C[Depth]) /\ Running
  BY InnerStep
<1>2. calls' = [calls EXCEPT ![Depth] = Onward(Frame)] /\ asked' = asked
  BY DEF Puts, Proceed, Onward, Frame
<1>3. /\ DOMAIN val' = DOMAIN val
      /\ \A n \in DOMAIN val : n # Target(y) => val'[n] = val[n]
      /\ val'[Target(y)] = w /\ Target(y) \in DOMAIN val
  BY DEF Puts, Usable
<1>4. Untouched
  BY <1>1, <1>3, StoreTouches
<1>5. ASSUME NEW x, NEW v, Wanted(Onward(Frame), B[Depth], C[Depth], x, v)
      PROVE  Target(x) \in DOMAIN val' /\ Reads(val', Part(x)) = v
  <2>1. After(Frame, B[Depth], C[Depth], x, v, y, w)
    BY <1>5
  <2>2. CASE x = y /\ v = w
    <3>1. Part(y) = Whole(Target(y))
      BY <1>1, WholeTarget
    <3> QED BY <1>3, <2>2, <3>1, SameRead
  <2>3. CASE Wanted(Frame, B[Depth], C[Depth], x, v) /\ Elsewhere(x, y)
    <3>1. Target(x) # Target(y)
      BY <1>1, <2>3, ElsewhereApart
    <3> QED BY <1>1, <1>3, <2>3, <3>1, StillThere
  <2> QED BY <2>1, <2>2, <2>3 DEF After
<1> QED BY <1>2, <1>4, <1>5, StepFactors

(* What an addition adds.                                                  *)
LEMMA Added ==
  ASSUME StackInv, PlaceInv, ValueInv, At("add"), Depth > 1,
         NEW B, NEW C, Factors(asked, calls, val, B, C)
  PROVE  \E u, w \in Nat :
           /\ Wanted(Frame, B[Depth], C[Depth], Arg(1), u)
           /\ Wanted(Frame, B[Depth], C[Depth], Arg(2), w)
           /\ \A x, v : Wanted(Onward(Frame), B[Depth], C[Depth], x, v) =>
                After(Frame, B[Depth], C[Depth], x, v, Arg(1), u + w)
<1> DEFINE f == Frame
           g == Onward(Frame)
           b == B[Depth]
           c == C[Depth]
           d == f.delim
           Adds(u, w) == /\ Wanted(f, b, c, Arg(1), u) /\ Wanted(f, b, c, Arg(2), w)
                         /\ \A x, v : Wanted(g, b, c, x, v) => After(f, b, c, x, v, Arg(1), u + w)
<1>1. /\ b \in Nat /\ c \in Nat /\ d \in Nat /\ NextOf(f, g)
      /\ f.plan # "zmul_ll" => b = c
      /\ f.pc \in Nat \ {0} /\ f.pc \in Nat
  BY InnerStep
<1>2. \/ f.plan = "zmul_ll" /\ f.pc = 8 /\ Arg(1) = "b_low" /\ Arg(2) = "b_high"
      \/ f.plan = "zmul_ll" /\ f.pc = 9 /\ Arg(1) = "c_low" /\ Arg(2) = "c_high"
      \/ f.plan = "zmul_ll" /\ f.pc = 16 /\ Arg(1) = "a" /\ Arg(2) = "b_low"
      \/ f.plan = "zmul_ll" /\ f.pc = 17 /\ Arg(1) = "a" /\ Arg(2) = "c_low"
      \/ f.plan = "both_parts" /\ f.pc = 8 /\ Arg(1) = "a" /\ Arg(2) = "z1"
      \/ f.plan = "both_parts" /\ f.pc = 9 /\ Arg(1) = "a" /\ Arg(2) = "z0"
  <2>1. Sites("add")
    BY InnerStep
  <2> QED BY <2>1 DEF Sites, Is, Names2
<1> HIDE DEF f, g, b, c, d
<1>3. CASE f.plan = "zmul_ll" /\ f.pc = 8 /\ Arg(1) = "b_low" /\ Arg(2) = "b_high"
  <2>1. Adds(Lo(d, b), Hi(d, b))
    <3>1. Wanted(f, b, c, "b_low", Lo(d, b)) /\ Wanted(f, b, c, "b_high", Hi(d, b))
      BY <1>3 DEF Wanted, InProduct, d
    <3>2. \A x, v : Wanted(g, b, c, x, v) => After(f, b, c, x, v, "b_low", Sum(d, b))
      BY <1>1, <1>3, ProductTable DEF d
    <3> QED BY <1>3, <3>1, <3>2 DEF Sum
  <2>2. Lo(d, b) \in Nat /\ Hi(d, b) \in Nat
    BY <1>1, ProductsOfHalves
  <2> QED BY <2>1, <2>2 DEF f, g, b, c
<1>4. CASE f.plan = "zmul_ll" /\ f.pc = 9 /\ Arg(1) = "c_low" /\ Arg(2) = "c_high"
  <2>1. Adds(Lo(d, c), Hi(d, c))
    <3>1. Wanted(f, b, c, "c_low", Lo(d, c)) /\ Wanted(f, b, c, "c_high", Hi(d, c))
      BY <1>4 DEF Wanted, InProduct, d
    <3>2. \A x, v : Wanted(g, b, c, x, v) => After(f, b, c, x, v, "c_low", Sum(d, c))
      BY <1>1, <1>4, ProductTable DEF d
    <3> QED BY <1>4, <3>1, <3>2 DEF Sum
  <2>2. Lo(d, c) \in Nat /\ Hi(d, c) \in Nat
    BY <1>1, ProductsOfHalves
  <2> QED BY <2>1, <2>2 DEF f, g, b, c
<1>5. CASE f.plan = "zmul_ll" /\ f.pc = 16 /\ Arg(1) = "a" /\ Arg(2) = "b_low"
  <2>1. Adds(LoLo(d, b, c), Once(d, Mid(d, b, c)))
    <3>1. Wanted(f, b, c, "a", LoLo(d, b, c)) /\ Wanted(f, b, c, "b_low", Once(d, Mid(d, b, c)))
      BY <1>5 DEF Wanted, InProduct, d
    <3>2. \A x, v : Wanted(g, b, c, x, v) =>
            After(f, b, c, x, v, "a", LoLo(d, b, c) + Once(d, Mid(d, b, c)))
      BY <1>1, <1>5, ProductTable DEF d
    <3> QED BY <1>5, <3>1, <3>2
  <2>2. LoLo(d, b, c) \in Nat /\ Once(d, Mid(d, b, c)) \in Nat
    BY <1>1, ProductsOfHalves
  <2> QED BY <2>1, <2>2 DEF f, g, b, c
<1>6. CASE f.plan = "zmul_ll" /\ f.pc = 17 /\ Arg(1) = "a" /\ Arg(2) = "c_low"
  <2> DEFINE s == LoLo(d, b, c) + Once(d, Mid(d, b, c))
             t == Far(d, HiHi(d, b, c))
             bc == b * c
  <2>1. s \in Nat /\ t \in Nat /\ s + t = bc
    <3>1. d \in Nat /\ b \in Nat /\ c \in Nat
      BY <1>1
    <3>2. (LoLo(d, b, c) + Once(d, Mid(d, b, c))) + Far(d, HiHi(d, b, c)) = b * c
      BY <3>1, ProductsOfHalves
    <3>3. LoLo(d, b, c) + Once(d, Mid(d, b, c)) \in Nat /\ Far(d, HiHi(d, b, c)) \in Nat
      BY <3>1, ProductsOfHalves
    <3> QED BY <3>2, <3>3, Zenon
  <2>2. Wanted(f, b, c, "a", s) /\ Wanted(f, b, c, "c_low", t)
    BY <1>6 DEF Wanted, InProduct, d
  <2>3. \A x, v : Wanted(g, b, c, x, v) => After(f, b, c, x, v, "a", bc)
    BY <1>1, <1>6, ProductTable DEF d
  <2> HIDE DEF s, t, bc
  <2>4. Adds(s, t)
    BY <1>6, <2>1, <2>2, <2>3
  <2> QED BY <2>1, <2>4 DEF f, g, b, c
<1>7. CASE f.plan = "both_parts" /\ f.pc = 8 /\ Arg(1) = "a" /\ Arg(2) = "z1"
  <2> DEFINE s == Far(d, HiHi(d, b, b))
             t == Doubled(d, LoHi(d, b, b))
  <2>1. s \in Nat /\ t \in Nat
    BY <1>1, SquaresOfHalves
  <2>2. Wanted(f, b, c, "a", s) /\ Wanted(f, b, c, "z1", t)
    BY <1>7 DEF Wanted, InSquare, d
  <2>3. \A x, v : Wanted(g, b, c, x, v) => After(f, b, c, x, v, "a", s + t)
    BY <1>1, <1>7, SquareTable DEF d
  <2> HIDE DEF s, t
  <2>4. Adds(s, t)
    BY <1>7, <2>1, <2>2, <2>3
  <2> QED BY <2>1, <2>4 DEF f, g, b, c
<1>8. CASE f.plan = "both_parts" /\ f.pc = 9 /\ Arg(1) = "a" /\ Arg(2) = "z0"
  <2> DEFINE s == Far(d, HiHi(d, b, b)) + Doubled(d, LoHi(d, b, b))
             t == LoLo(d, b, b)
             bb == b * b
  <2>1. s \in Nat /\ t \in Nat /\ s + t = bb
    BY <1>1, SquaresOfHalves
  <2>2. Wanted(f, b, c, "a", s) /\ Wanted(f, b, c, "z0", t)
    BY <1>8 DEF Wanted, InSquare, d
  <2>3. \A x, v : Wanted(g, b, c, x, v) => After(f, b, c, x, v, "a", bb)
    BY <1>1, <1>8, SquareTable DEF d
  <2> HIDE DEF s, t, bb
  <2>4. Adds(s, t)
    BY <1>8, <2>1, <2>2, <2>3
  <2> QED BY <2>1, <2>4 DEF f, g, b, c
<1> QED BY <1>2, <1>3, <1>4, <1>5, <1>6, <1>7, <1>8

(* An addition.                                                            *)
LEMMA AddFactors ==
  ASSUME StackInv, PlaceInv, ValueInv, Add, ~ Fail, Depth > 1,
         NEW B, NEW C, Factors(asked, calls, val, B, C)
  PROVE  Factors(asked', calls', val', B, C)
<1>1. At("add")
  BY DEF Add
<1>2. PICK u \in Nat, w \in Nat :
        /\ Wanted(Frame, B[Depth], C[Depth], Arg(1), u)
        /\ Wanted(Frame, B[Depth], C[Depth], Arg(2), w)
        /\ \A x, v : Wanted(Onward(Frame), B[Depth], C[Depth], x, v) =>
             After(Frame, B[Depth], C[Depth], x, v, Arg(1), u + w)
  BY <1>1, Added
<1>3. Read(Part(Arg(1))) = u /\ Read(Part(Arg(2))) = w
  BY <1>1, <1>2, InnerStep, HasWanted
<1>4. Puts(Arg(1), IF w = 0 THEN u ELSE Abs(u) + Abs(w))
  <2>1. u \in Int /\ w \in Int
    OBVIOUS
  <2> QED BY <1>3, <2>1, AddPuts
<1>5. Puts(Arg(1), u + w)
  BY <1>4, StoresOfNaturals
<1>6. Usable(Arg(1)) /\ Arg(1) \in {"a"} \cup Temporaries
  BY <1>1, StepUses, Named
<1> QED BY <1>1, <1>2, <1>5, <1>6, StoreFactors


(* What a subtraction subtracts.                                           *)
LEMMA Subtracted ==
  ASSUME StackInv, PlaceInv, ValueInv, At("sub"), Depth > 1,
         NEW B, NEW C, Factors(asked, calls, val, B, C)
  PROVE  \E u, w \in Nat :
           /\ w <= u
           /\ Wanted(Frame, B[Depth], C[Depth], Arg(1), u)
           /\ Wanted(Frame, B[Depth], C[Depth], Arg(2), w)
           /\ \A x, v : Wanted(Onward(Frame), B[Depth], C[Depth], x, v) =>
                After(Frame, B[Depth], C[Depth], x, v, Arg(1), u - w)
<1> DEFINE f == Frame
           g == Onward(Frame)
           b == B[Depth]
           c == C[Depth]
           d == f.delim
           Subtracts(u, w) ==
             /\ w <= u /\ Wanted(f, b, c, Arg(1), u) /\ Wanted(f, b, c, Arg(2), w)
             /\ \A x, v : Wanted(g, b, c, x, v) => After(f, b, c, x, v, Arg(1), u - w)
<1>1. b \in Nat /\ c \in Nat /\ d \in Nat /\ NextOf(f, g) /\ f.pc \in Nat
  BY InnerStep
<1>2. \/ f.plan = "zmul_ll" /\ f.pc = 12 /\ Arg(1) = "b_low" /\ Arg(2) = "a"
      \/ f.plan = "zmul_ll" /\ f.pc = 13 /\ Arg(1) = "b_low" /\ Arg(2) = "c_low"
  <2>1. Sites("sub")
    BY InnerStep
  <2> QED BY <2>1 DEF Sites, Is, Names2
<1> HIDE DEF f, g, b, c, d
<1>3. CASE f.plan = "zmul_ll" /\ f.pc = 12 /\ Arg(1) = "b_low" /\ Arg(2) = "a"
  <2> DEFINE s == Cross(d, b, c)
             t == LoLo(d, b, c)
  <2>1. s \in Nat /\ t \in Nat /\ t <= s
    BY <1>1, ProductsOfHalves
  <2>2. Wanted(f, b, c, "b_low", s) /\ Wanted(f, b, c, "a", t)
    BY <1>3 DEF Wanted, InProduct, d
  <2>3. \A x, v : Wanted(g, b, c, x, v) => After(f, b, c, x, v, "b_low", Rest(d, b, c))
    BY <1>1, <1>3, ProductTable DEF d
  <2>4. Rest(d, b, c) = s - t
    BY DEF Rest
  <2> HIDE DEF s, t
  <2>5. Subtracts(s, t)
    BY <1>3, <2>1, <2>2, <2>3, <2>4
  <2> QED BY <2>1, <2>5 DEF f, g, b, c
<1>4. CASE f.plan = "zmul_ll" /\ f.pc = 13 /\ Arg(1) = "b_low" /\ Arg(2) = "c_low"
  <2> DEFINE s == Rest(d, b, c)
             t == HiHi(d, b, c)
  <2>1. s \in Nat /\ t \in Nat /\ t <= s
    BY <1>1, ProductsOfHalves
  <2>2. Wanted(f, b, c, "b_low", s) /\ Wanted(f, b, c, "c_low", t)
    BY <1>4 DEF Wanted, InProduct, d
  <2>3. \A x, v : Wanted(g, b, c, x, v) => After(f, b, c, x, v, "b_low", Mid(d, b, c))
    BY <1>1, <1>4, ProductTable DEF d
  <2>4. Mid(d, b, c) = s - t
    BY DEF Mid
  <2> HIDE DEF s, t
  <2>5. Subtracts(s, t)
    BY <1>4, <2>1, <2>2, <2>3, <2>4
  <2> QED BY <2>1, <2>5 DEF f, g, b, c
<1> QED BY <1>2, <1>3, <1>4

(* A subtraction.                                                          *)
LEMMA SubtractFactors ==
  ASSUME StackInv, PlaceInv, ValueInv, UsedInv, Subtract, Exact, Depth > 1,
         NEW B, NEW C, Factors(asked, calls, val, B, C)
  PROVE  Factors(asked', calls', val', B, C)
<1>1. At("sub")
  BY DEF Subtract
<1>2. PICK u \in Nat, w \in Nat :
        /\ w <= u
        /\ Wanted(Frame, B[Depth], C[Depth], Arg(1), u)
        /\ Wanted(Frame, B[Depth], C[Depth], Arg(2), w)
        /\ \A x, v : Wanted(Onward(Frame), B[Depth], C[Depth], x, v) =>
             After(Frame, B[Depth], C[Depth], x, v, Arg(1), u - w)
  BY <1>1, Subtracted
<1>3. Read(Part(Arg(1))) = u /\ Read(Part(Arg(2))) = w
  BY <1>1, <1>2, InnerStep, HasWanted
<1>4. /\ Usable(Arg(1)) /\ Usable(Arg(2)) /\ Arg(1) \in {"a"} \cup Temporaries
      /\ Target(Arg(1)) \in DOMAIN val /\ Target(Arg(2)) \in DOMAIN val
  BY <1>1, StepUses, Named DEF Usable
<1>5. val[Target(Arg(1))] = u
  <2>1. Running
    BY <1>1 DEF At
  <2>2. Part(Arg(1)) = Whole(Target(Arg(1)))
    BY <1>4, <2>1, WholeTarget
  <2> QED BY <1>3, <2>2 DEF Read, Whole, All
<1>6. Abs(u) = u /\ Abs(w) = w
  BY DEF Abs
<1>7. \/ Puts(Arg(1), u) /\ (w = 0 \/ u = 0)
      \/ Puts(Arg(1), Sign(u) * (u - w))
  <2>1. u = Abs(Read(Part(Arg(1)))) /\ w = Abs(Read(Part(Arg(2))))
    BY <1>3, <1>6
  <2>2. \/ Puts(Arg(1), u) /\ (w = 0 \/ u = 0)
        \/ Puts(Arg(1), Sign(val[Target(Arg(1))]) * (u - w))
        \/ loan' = TRUE
        \/ u < w
    BY <1>4, <2>1, SubtractPuts
  <2>3. ~ (u < w) /\ ~ loan'
    BY <1>2 DEF Exact
  <2> QED BY <1>5, <2>2, <2>3
<1>8. Puts(Arg(1), u - w)
  <2>1. w = 0 \/ u = 0 => u - w = u
    BY <1>2
  <2> QED BY <1>2, <1>7, <2>1, StoresOfNaturals
<1> QED BY <1>1, <1>2, <1>4, <1>8, StoreFactors

(* What a shift shifts.                                                    *)
LEMMA Shifted ==
  ASSUME StackInv, PlaceInv, ValueInv, At("shift"), Depth > 1,
         NEW B, NEW C, Factors(asked, calls, val, B, C)
  PROVE  \E u, w \in Nat :
           /\ u * 2 ^ (Arg(2) * Frame.delim + Arg(3)) = w
           /\ Wanted(Frame, B[Depth], C[Depth], Arg(1), u)
           /\ \A x, v : Wanted(Onward(Frame), B[Depth], C[Depth], x, v) =>
                After(Frame, B[Depth], C[Depth], x, v, Arg(1), w)
<1> DEFINE f == Frame
           g == Onward(Frame)
           b == B[Depth]
           c == C[Depth]
           d == f.delim
           Shifts2(u, w) ==
             /\ u * 2 ^ (Arg(2) * d + Arg(3)) = w
             /\ Wanted(f, b, c, Arg(1), u)
             /\ \A x, v : Wanted(g, b, c, x, v) => After(f, b, c, x, v, Arg(1), w)
<1>1. /\ b \in Nat /\ c \in Nat /\ d \in Nat /\ NextOf(f, g)
      /\ f.plan # "zmul_ll" => b = c
      /\ f.plan = "high_only" => Lo(d, b) = 0
      /\ f.pc \in Nat \ {0} /\ f.pc \in Nat
  BY InnerStep
<1>2. \/ f.plan = "zmul_ll" /\ f.pc = 14 /\ Arg(1) = "b_low" /\ Arg(2) = 1 /\ Arg(3) = 0
      \/ f.plan = "zmul_ll" /\ f.pc = 15 /\ Arg(1) = "c_low" /\ Arg(2) = 2 /\ Arg(3) = 0
      \/ f.plan = "high_only" /\ f.pc = 2 /\ Arg(1) = "a" /\ Arg(2) = 2 /\ Arg(3) = 0
      \/ f.plan = "both_parts" /\ f.pc = 5 /\ Arg(1) = "z1" /\ Arg(2) = 1 /\ Arg(3) = 1
      \/ f.plan = "both_parts" /\ f.pc = 7 /\ Arg(1) = "a" /\ Arg(2) = 2 /\ Arg(3) = 0
  <2>1. Sites("shift")
    BY InnerStep
  <2> QED BY <2>1 DEF Sites, Is, Names3
<1> HIDE DEF f, g, b, c, d
<1>10. ASSUME NEW u \in Nat
      PROVE  /\ Arg(2) = 1 /\ Arg(3) = 0 => u * 2 ^ (Arg(2) * d + Arg(3)) = Once(d, u)
             /\ Arg(2) = 2 /\ Arg(3) = 0 => u * 2 ^ (Arg(2) * d + Arg(3)) = Far(d, u)
             /\ Arg(2) = 1 /\ Arg(3) = 1 => u * 2 ^ (Arg(2) * d + Arg(3)) = Doubled(d, u)
  BY <1>1, Shifts, Zenon
<1>3. CASE f.plan = "zmul_ll" /\ f.pc = 14 /\ Arg(1) = "b_low" /\ Arg(2) = 1 /\ Arg(3) = 0
  <2> DEFINE s == Mid(d, b, c)
             t == Once(d, s)
  <2>1. s \in Nat /\ t \in Nat
    BY <1>1, ProductsOfHalves
  <2>2. Wanted(f, b, c, "b_low", s)
    BY <1>3 DEF Wanted, InProduct, d
  <2>3. \A x, v : Wanted(g, b, c, x, v) => After(f, b, c, x, v, "b_low", t)
    BY <1>1, <1>3, ProductTable DEF d
  <2> HIDE DEF s
  <2>5. Shifts2(s, t)
    BY <1>3, <1>10, <2>1, <2>2, <2>3, Zenon
  <2> QED BY <2>1, <2>5 DEF f, g, b, c, d
<1>4. CASE f.plan = "zmul_ll" /\ f.pc = 15 /\ Arg(1) = "c_low" /\ Arg(2) = 2 /\ Arg(3) = 0
  <2> DEFINE s == HiHi(d, b, c)
             t == Far(d, s)
  <2>1. s \in Nat /\ t \in Nat
    BY <1>1, ProductsOfHalves
  <2>2. Wanted(f, b, c, "c_low", s)
    BY <1>4 DEF Wanted, InProduct, d
  <2>3. \A x, v : Wanted(g, b, c, x, v) => After(f, b, c, x, v, "c_low", t)
    BY <1>1, <1>4, ProductTable DEF d
  <2> HIDE DEF s
  <2>5. Shifts2(s, t)
    BY <1>4, <1>10, <2>1, <2>2, <2>3, Zenon
  <2> QED BY <2>1, <2>5 DEF f, g, b, c, d
<1>5. CASE f.plan = "high_only" /\ f.pc = 2 /\ Arg(1) = "a" /\ Arg(2) = 2 /\ Arg(3) = 0
  <2> DEFINE s == HiHi(d, b, b)
             t == Far(d, s)
             bb == b * b
  <2>1. s \in Nat /\ t \in Nat
    BY <1>1, SquaresOfHalves
  <2>2. Wanted(f, b, c, "a", s)
    BY <1>5 DEF Wanted, InHigh, d
  <2>3. \A x, v : Wanted(g, b, c, x, v) => After(f, b, c, x, v, "a", bb)
    BY <1>1, <1>5, SquareTable DEF d
  <2>4. t = bb
    <3>1. b \in Nat /\ d \in Nat /\ Lo(d, b) = 0
      BY <1>1, <1>5
    <3> QED BY <3>1, SquaresOfHalves, Zenon
  <2> HIDE DEF s, bb
  <2>5. Shifts2(s, t)
    BY <1>5, <1>10, <2>1, <2>2, <2>3, <2>4, Zenon
  <2> QED BY <2>1, <2>5 DEF f, g, b, c, d
<1>6. CASE f.plan = "both_parts" /\ f.pc = 5 /\ Arg(1) = "z1" /\ Arg(2) = 1 /\ Arg(3) = 1
  <2> DEFINE s == LoHi(d, b, b)
             t == Doubled(d, s)
  <2>1. s \in Nat /\ t \in Nat
    BY <1>1, SquaresOfHalves
  <2>2. Wanted(f, b, c, "z1", s)
    BY <1>6 DEF Wanted, InSquare, d
  <2>3. \A x, v : Wanted(g, b, c, x, v) => After(f, b, c, x, v, "z1", t)
    BY <1>1, <1>6, SquareTable DEF d
  <2> HIDE DEF s
  <2>5. Shifts2(s, t)
    BY <1>6, <1>10, <2>1, <2>2, <2>3, Zenon
  <2> QED BY <2>1, <2>5 DEF f, g, b, c, d
<1>7. CASE f.plan = "both_parts" /\ f.pc = 7 /\ Arg(1) = "a" /\ Arg(2) = 2 /\ Arg(3) = 0
  <2> DEFINE s == HiHi(d, b, b)
             t == Far(d, s)
  <2>1. s \in Nat /\ t \in Nat
    BY <1>1, SquaresOfHalves
  <2>2. Wanted(f, b, c, "a", s)
    BY <1>7 DEF Wanted, InSquare, d
  <2>3. \A x, v : Wanted(g, b, c, x, v) => After(f, b, c, x, v, "a", t)
    BY <1>1, <1>7, SquareTable DEF d
  <2> HIDE DEF s
  <2>5. Shifts2(s, t)
    BY <1>7, <1>10, <2>1, <2>2, <2>3, Zenon
  <2> QED BY <2>1, <2>5 DEF f, g, b, c, d
<1> QED BY <1>2, <1>3, <1>4, <1>5, <1>6, <1>7

(* A shift.                                                                *)
LEMMA ShiftFactors ==
  ASSUME StackInv, PlaceInv, ValueInv, Shift, ~ Fail, Depth > 1,
         NEW B, NEW C, Factors(asked, calls, val, B, C)
  PROVE  Factors(asked', calls', val', B, C)
<1>1. At("shift")
  BY DEF Shift
<1>2. PICK u \in Nat, w \in Nat :
        /\ u * 2 ^ (Arg(2) * Frame.delim + Arg(3)) = w
        /\ Wanted(Frame, B[Depth], C[Depth], Arg(1), u)
        /\ \A x, v : Wanted(Onward(Frame), B[Depth], C[Depth], x, v) =>
             After(Frame, B[Depth], C[Depth], x, v, Arg(1), w)
  BY <1>1, Shifted
<1>3. Read(Part(Arg(1))) = u
  BY <1>1, <1>2, InnerStep, HasWanted
<1>4. Puts(Arg(1), w)
  BY <1>2, <1>3, StorePuts, Zenon DEF Shift
<1>6. Usable(Arg(1)) /\ Arg(1) \in {"a"} \cup Temporaries
  BY <1>1, StepUses, Named
<1> QED BY <1>1, <1>2, <1>4, <1>6, StoreFactors

(* A split stores the halves under two names.                              *)
LEMMA SplitStores ==
  ASSUME StackInv, PlaceInv, ValueInv, At("split"), Depth > 1,
         NEW B, NEW C, Factors(asked, calls, val, B, C), Proceed,
         NEW high \in Temporaries, NEW low \in Temporaries, high # low,
         Usable(high), Usable(low), NEW h, NEW l,
         val' = [val EXCEPT ![Target(high)] = h, ![Target(low)] = l],
         \A x, v : Wanted(Onward(Frame), B[Depth], C[Depth], x, v) =>
           \/ x = high /\ v = h
           \/ x = low /\ v = l
           \/ x \notin {high, low} /\ Wanted(Frame, B[Depth], C[Depth], x, v)
  PROVE  Factors(asked', calls', val', B, C)
<1>1. /\ Knows(calls, val, Depth, B[Depth], C[Depth]) /\ Running
      /\ Placed(Frame, Depth, DOMAIN val) /\ Serves(Frame, Depth) /\ Depth \in Nat
  BY InnerStep, InnermostPlaced
<1>2. calls' = [calls EXCEPT ![Depth] = Onward(Frame)] /\ asked' = asked
  BY DEF Proceed, Onward, Frame
<1>3. Target(high) # Target(low)
  BY <1>1, ElsewhereApart DEF Elsewhere
<1>4. /\ DOMAIN val' = DOMAIN val /\ Target(high) \in DOMAIN val /\ Target(low) \in DOMAIN val
      /\ \A n \in DOMAIN val : n \notin {Target(high), Target(low)} => val'[n] = val[n]
      /\ val'[Target(high)] = h /\ val'[Target(low)] = l
  BY <1>3 DEF Usable
<1>5. Untouched
  <2>1. ASSUME NEW y \in Temporaries
        PROVE  Target(y) \in {Depth} \X Locals
    <3>1. y \notin DOMAIN Frame.parts /\ y \in Locals
      BY <1>1 DEF Serves, Temporaries, Locals
    <3>2. Target(y) = <<Depth, y>>
      BY <1>1, <3>1, PlacesOfNames, InnermostNames
    <3> QED BY <3>1, <3>2
  <2> QED BY <1>4, <2>1 DEF Untouched
<1>6. Part(high) = Whole(Target(high)) /\ Part(low) = Whole(Target(low))
  BY <1>1, WholeTarget
<1>7. ASSUME NEW x, NEW v, Wanted(Onward(Frame), B[Depth], C[Depth], x, v)
      PROVE  Target(x) \in DOMAIN val' /\ Reads(val', Part(x)) = v
  <2>1. \/ x = high /\ v = h
        \/ x = low /\ v = l
        \/ x \notin {high, low} /\ Wanted(Frame, B[Depth], C[Depth], x, v)
    BY <1>7
  <2>2. CASE x = high /\ v = h
    BY <1>4, <1>6, <2>2, SameRead
  <2>3. CASE x = low /\ v = l
    BY <1>4, <1>6, <2>3, SameRead
  <2>4. CASE x \notin {high, low} /\ Wanted(Frame, B[Depth], C[Depth], x, v)
    <3>1. Target(x) # Target(high) /\ Target(x) # Target(low)
      BY <1>1, <2>4, ElsewhereApart DEF Elsewhere
    <3>2. Target(x) \in DOMAIN val =>
            Target(x) \in DOMAIN val' /\ val'[Target(x)] = val[Target(x)]
      BY <1>4, <3>1
    <3> QED BY <1>1, <2>4, <3>2, StillThere
  <2> QED BY <2>1, <2>2, <2>3, <2>4
<1> QED BY <1>2, <1>5, <1>7, StepFactors

(* The halves of a natural number.                                         *)
LEMMA SplitsNaturals ==
  ASSUME NEW d \in Nat, NEW v \in Nat
  PROVE  Sign(v) * (Abs(v) \div 2 ^ d) = Hi(d, v) /\ Sign(v) * (Abs(v) % 2 ^ d) = Lo(d, v)
<1> DEFINE n == 2 ^ d
           q == v \div n
           r == v % n
<1>1. n \in Nat \ {0} /\ Abs(v) = v
  BY Positive DEF Abs
<1>2. Hi(d, v) = q /\ Lo(d, v) = r
  BY DEF Hi, Lo
<1> HIDE DEF n
<1>3. q \in Nat /\ r \in Nat
  BY <1>1, Halved
<1>4. v = 0 => q = 0 /\ r = 0
  <2>1. 0 \in Int /\ 0 \in 0 .. n - 1 /\ 0 * n + 0 = 0
    BY <1>1
  <2>2. 0 \div n = 0 /\ 0 % n = 0
    BY <1>1, <2>1, DivUnique
  <2> QED BY <2>2
<1> HIDE DEF q, r
<1>5. Sign(v) * q = q /\ Sign(v) * r = r
  BY <1>3, <1>4, StoresOfNaturals
<1> QED BY <1>1, <1>2, <1>5 DEF q, r, n

(* A split.                                                                *)
LEMMA SplitFactors ==
  ASSUME StackInv, PlaceInv, ValueInv, Split, ~ Fail, Depth > 1,
         NEW B, NEW C, Factors(asked, calls, val, B, C)
  PROVE  Factors(asked', calls', val', B, C)
<1> DEFINE f == Frame
           g == Onward(Frame)
           b == B[Depth]
           c == C[Depth]
           d == f.delim
           high(v) == Sign(v) * (Abs(v) \div 2 ^ d)
           low(v)  == Sign(v) * (Abs(v) % 2 ^ d)
           r == Read(Part(Arg(3)))
<1>1. At("split") /\ Proceed
  BY DEF Split
<1>2. val' = [val EXCEPT ![Target(Arg(1))] = high(r), ![Target(Arg(2))] = low(r)]
  BY DEF Split
<1>3. /\ b \in Nat /\ c \in Nat /\ d \in Nat /\ NextOf(f, g) /\ f.pc \in Nat
      /\ Knows(calls, val, Depth, b, c) /\ Running
  BY <1>1, InnerStep
<1>4. \/ f.plan = "zmul_ll" /\ f.pc = 5 /\ Names3("b_high", "b_low", "b")
      \/ f.plan = "zmul_ll" /\ f.pc = 6 /\ Names3("c_high", "c_low", "c")
  <2>1. Sites("split")
    BY <1>1, InnerStep
  <2> QED BY <2>1 DEF Sites, Is
<1>5. Usable(Arg(1)) /\ Usable(Arg(2))
  BY <1>1, StepUses
<1>6. /\ high(b) = Hi(d, b) /\ low(b) = Lo(d, b)
      /\ high(c) = Hi(d, c) /\ low(c) = Lo(d, c)
  BY <1>3, SplitsNaturals
<1> HIDE DEF f, g, b, c, d, high, low, r
<1>7. CASE f.plan = "zmul_ll" /\ f.pc = 5 /\ Names3("b_high", "b_low", "b")
  <2>1. Wanted(f, b, c, "b", b)
    BY <1>7 DEF Wanted, InProduct
  <2>2. r = b
    BY <1>3, <1>7, <2>1, HasWanted DEF f, r, Names3
  <2>3. val' = [val EXCEPT ![Target("b_high")] = Hi(d, b), ![Target("b_low")] = Lo(d, b)]
    BY <1>2, <1>6, <1>7, <2>2 DEF Names3
  <2>4. \A x, v : Wanted(g, b, c, x, v) => \/ x = "b_high" /\ v = Hi(d, b)
                                           \/ x = "b_low" /\ v = Lo(d, b)
                                           \/ x = "c" /\ Wanted(f, b, c, x, v)
    BY <1>3, <1>7, ProductTable DEF d
  <2>5. "b_high" \in Temporaries /\ "b_low" \in Temporaries /\ "b_high" # "b_low"
        /\ Usable("b_high") /\ Usable("b_low")
    BY <1>5, <1>7 DEF Temporaries, Names3
  <2>6. \A x, v : Wanted(g, b, c, x, v) =>
          \/ x = "b_high" /\ v = Hi(d, b)
          \/ x = "b_low" /\ v = Lo(d, b)
          \/ x \notin {"b_high", "b_low"} /\ Wanted(f, b, c, x, v)
    BY <2>4
  <2> QED BY <1>1, <2>3, <2>5, <2>6, SplitStores DEF f, g, b, c
<1>8. CASE f.plan = "zmul_ll" /\ f.pc = 6 /\ Names3("c_high", "c_low", "c")
  <2>1. Wanted(f, b, c, "c", c)
    BY <1>8 DEF Wanted, InProduct
  <2>2. r = c
    BY <1>3, <1>8, <2>1, HasWanted DEF f, r, Names3
  <2>3. val' = [val EXCEPT ![Target("c_high")] = Hi(d, c), ![Target("c_low")] = Lo(d, c)]
    BY <1>2, <1>6, <1>8, <2>2 DEF Names3
  <2>4. \A x, v : Wanted(g, b, c, x, v) =>
          \/ x = "c_high" /\ v = Hi(d, c)
          \/ x = "c_low" /\ v = Lo(d, c)
          \/ x \in {"b_high", "b_low"} /\ Wanted(f, b, c, x, v)
    BY <1>3, <1>8, ProductTable DEF d
  <2>5. "c_high" \in Temporaries /\ "c_low" \in Temporaries /\ "c_high" # "c_low"
        /\ Usable("c_high") /\ Usable("c_low")
    BY <1>5, <1>8 DEF Temporaries, Names3
  <2>6. \A x, v : Wanted(g, b, c, x, v) =>
          \/ x = "c_high" /\ v = Hi(d, c)
          \/ x = "c_low" /\ v = Lo(d, c)
          \/ x \notin {"c_high", "c_low"} /\ Wanted(f, b, c, x, v)
    BY <2>4
  <2> QED BY <1>1, <2>3, <2>5, <2>6, SplitStores DEF f, g, b, c
<1> QED BY <1>4, <1>7, <1>8

(* zinit_temp: what is wanted is not in a temporary yet.                   *)
LEMMA InitTempFactors ==
  ASSUME StackInv, PlaceInv, ValueInv, InitTemp, ~ Fail, Depth > 1,
         NEW B, NEW C, Factors(asked, calls, val, B, C)
  PROVE  Factors(asked', calls', val', B, C)
<1> DEFINE l == Local(Arg(1))
<1>1. At("init") /\ val' = Having(val, l, 0) /\ Proceed
  BY DEF InitTemp
<1>2. /\ Knows(calls, val, Depth, B[Depth], C[Depth]) /\ Running
      /\ Frame.pc \in Nat \ {0} /\ Frame.pc \in Nat /\ NextOf(Frame, Onward(Frame))
      /\ \/ Frame.plan = "zmul_ll" /\ Frame.pc \in 1 .. 4
         \/ Frame.plan = "both_parts" /\ Frame.pc \in 1 .. 2
  BY <1>1, InnerStep DEF Sites
<1>3. Arg(1) \in Temporaries
  <2>1. Arg(1) = Steps(Frame.plan)[Frame.pc][2]
    BY <1>1, AtStep
  <2>2. /\ Frame.plan = "zmul_ll" => Steps(Frame.plan) = ZmulLlSteps
        /\ Frame.plan = "both_parts" => Steps(Frame.plan) = BothPartsSteps
    BY DEF Steps
  <2>3. ASSUME Frame.plan = "zmul_ll", Frame.pc \in 1 .. 4
        PROVE  Arg(1) \in Temporaries
    <3>1. \A i \in 1 .. 4 : ZmulLlSteps[i][2] \in Temporaries
      BY DEF ZmulLlSteps, FreeTemps, Temporaries
    <3> QED BY <2>1, <2>2, <2>3, <3>1
  <2>4. ASSUME Frame.plan = "both_parts", Frame.pc \in 1 .. 2
        PROVE  Arg(1) \in Temporaries
    <3>1. \A i \in 1 .. 2 : BothPartsSteps[i][2] \in Temporaries
      BY DEF BothPartsSteps, Temporaries
    <3> QED BY <2>1, <2>2, <2>4, <3>1
  <2> QED BY <1>2, <2>3, <2>4
<1>4. calls' = [calls EXCEPT ![Depth] = Onward(Frame)] /\ asked' = asked
  BY <1>1 DEF Proceed, Onward, Frame
<1>5. l \in {Depth} \X Locals /\ Target(Arg(1)) = l
  <2>1. Serves(Frame, Depth) /\ Placed(Frame, Depth, DOMAIN val) /\ Depth \in Nat
    BY <1>2, InnermostPlaced
  <2>2. Arg(1) \notin DOMAIN Frame.parts /\ Arg(1) \in Locals
    BY <1>3, <2>1 DEF Serves, Temporaries, Locals
  <2>3. Target(Arg(1)) = <<Depth, Arg(1)>>
    BY <2>1, <2>2, PlacesOfNames, InnermostNames
  <2> QED BY <2>2, <2>3 DEF Local
<1>6. \A n \in DOMAIN val : n # l => n \in DOMAIN val' /\ val'[n] = val[n]
  BY <1>1 DEF Having
<1>7. Untouched
  BY <1>5, <1>6 DEF Untouched
<1> HIDE DEF l
<1>8. ASSUME NEW x, NEW v, Wanted(Onward(Frame), B[Depth], C[Depth], x, v)
      PROVE  Target(x) \in DOMAIN val' /\ Reads(val', Part(x)) = v
  <2>1. Wanted(Frame, B[Depth], C[Depth], x, v) /\ x \in {"b", "c", "low", "high"}
    <3>1. ASSUME Frame.plan = "zmul_ll", Frame.pc \in 1 .. 4
          PROVE  Wanted(Frame, B[Depth], C[Depth], x, v) /\ x \in {"b", "c"}
      <4>1. Frame.pc \in 0 .. 4
        BY <3>1
      <4> QED BY <1>2, <1>8, <3>1, <4>1, ProductTable
    <3>2. ASSUME Frame.plan = "both_parts", Frame.pc \in 1 .. 2
          PROVE  Wanted(Frame, B[Depth], C[Depth], x, v) /\ x \in {"low", "high"}
      BY <1>2, <1>8, <3>2, SquareTable
    <3> QED BY <1>2, <3>1, <3>2
  <2>2. Target(x) # l
    <3>1. x # Arg(1)
      BY <1>3, <2>1 DEF Temporaries
    <3> QED BY <1>2, <1>3, <1>5, <3>1, ElsewhereApart DEF Elsewhere
  <2> QED BY <1>2, <1>6, <2>1, <2>2, StillThere
<1> QED BY <1>1, <1>4, <1>7, <1>8, StepFactors

(* zfree_temp: the value is still there, and nobody wants it.              *)
LEMMA FreeTempFactors ==
  ASSUME StackInv, PlaceInv, ValueInv, FreeTemp, Depth > 1,
         NEW B, NEW C, Factors(asked, calls, val, B, C)
  PROVE  Factors(asked', calls', val', B, C)
<1>1. At("free") /\ val' = val /\ Proceed
  BY DEF FreeTemp
<1>2. /\ Knows(calls, val, Depth, B[Depth], C[Depth]) /\ Running
      /\ Frame.pc \in Nat \ {0} /\ Frame.pc \in Nat /\ NextOf(Frame, Onward(Frame))
      /\ \/ Frame.plan = "zmul_ll" /\ Frame.pc \in 18 .. 21
         \/ Frame.plan = "both_parts" /\ Frame.pc \in 10 .. 11
  BY <1>1, InnerStep DEF Sites
<1>3. calls' = [calls EXCEPT ![Depth] = Onward(Frame)] /\ asked' = asked
  BY <1>1 DEF Proceed, Onward, Frame
<1>4. Untouched
  BY <1>1 DEF Untouched
<1>5. ASSUME NEW x, NEW v, Wanted(Onward(Frame), B[Depth], C[Depth], x, v)
      PROVE  Target(x) \in DOMAIN val' /\ Reads(val', Part(x)) = v
  <2>1. Wanted(Frame, B[Depth], C[Depth], x, v)
    <3>1. ASSUME Frame.plan = "zmul_ll", Frame.pc \in 18 .. 21
          PROVE  Wanted(Frame, B[Depth], C[Depth], x, v)
      BY <1>2, <1>5, <3>1, ProductTable
    <3>2. ASSUME Frame.plan = "both_parts", Frame.pc \in 10 .. 11
          PROVE  Wanted(Frame, B[Depth], C[Depth], x, v)
      BY <1>2, <1>5, <3>2, SquareTable
    <3> QED BY <1>2, <3>1, <3>2
  <2> QED BY <1>1, <1>2, <2>1, StillThere
<1> QED BY <1>1, <1>3, <1>4, <1>5, StepFactors

-----------------------------------------------------------------------------
(* How an activation that works for another begins.                        *)

(* What it is to multiply.                                                 *)
LEMMA InnerEntry ==
  ASSUME StackInv, PlaceInv, ValueInv, Entering, Depth > 1,
         NEW B, NEW C, Factors(asked, calls, val, B, C)
  PROVE  /\ Running /\ Activated(Frame) /\ Frame.pc = 0 /\ Depth \in Nat
         /\ Serves(Frame, Depth) /\ Placed(Frame, Depth, DOMAIN val)
         /\ Frame.plan \in {"zmul_ll", "zsqr_ll"}
         /\ Knows(calls, val, Depth, B[Depth], C[Depth])
         /\ B[Depth] \in Nat /\ C[Depth] \in Nat
         /\ Frame.plan = "zmul_ll" => /\ Read(Part("b")) = B[Depth] /\ Target("b") \in DOMAIN val
                                      /\ Read(Part("c")) = C[Depth] /\ Target("c") \in DOMAIN val
         /\ Frame.plan = "zsqr_ll" => /\ Abs(Read(Part("b"))) = B[Depth] /\ B[Depth] = C[Depth]
                                      /\ "low" \notin DOMAIN Frame.parts
                                      /\ "high" \notin DOMAIN Frame.parts
<1> DEFINE b == B[Depth]
           c == C[Depth]
<1>1. Running /\ Activated(Frame) /\ Frame.pc = 0
  BY AtEntry
<1>2. /\ Serves(Frame, Depth) /\ Placed(Frame, Depth, DOMAIN val) /\ Depth \in Nat
      /\ Len(calls) = Depth /\ Depth \in 2 .. Depth /\ Depth \in 1 .. Depth
  BY <1>1, InnermostPlaced DEF Depth
<1>3. Frame.plan \in {"zmul_ll", "zsqr_ll"}
  BY <1>1, <1>2 DEF Activated, Plans, Serves
<1>4. Knows(calls, val, Depth, b, c) /\ b \in Nat /\ c \in Nat
  BY <1>2 DEF Factors
<1>5. ASSUME Frame.plan = "zmul_ll"
      PROVE  /\ Read(Part("b")) = b /\ Target("b") \in DOMAIN val
             /\ Read(Part("c")) = c /\ Target("c") \in DOMAIN val
  <2>1. Wanted(Frame, b, c, "b", b) /\ Wanted(Frame, b, c, "c", c)
    BY <1>1, <1>5 DEF Wanted, InProduct
  <2> QED BY <1>1, <1>4, <2>1, HasWanted
<1>6. ASSUME Frame.plan = "zsqr_ll"
      PROVE  /\ Abs(Read(Part("b"))) = b /\ b = c
             /\ "low" \notin DOMAIN Frame.parts /\ "high" \notin DOMAIN Frame.parts
  <2>1. /\ b = c /\ Abs(Reads(val, Frame.parts["b"])) = b
        /\ {"low", "high"} \cap DOMAIN Frame.parts = {}
    BY <1>4, <1>6 DEF Knows, Frame
  <2>2. Part("b") = Frame.parts["b"]
    BY <1>2 DEF Part, Serves
  <2> QED BY <2>1, <2>2, SameRead
<1> QED BY <1>1, <1>2, <1>3, <1>4, <1>5, <1>6

(* zmul_ll chooses where to split.                                         *)
LEMMA SplitsAt ==
  ASSUME StackInv, PlaceInv, ValueInv, Entering, Frame.plan = "zmul_ll", Depth > 1,
         NEW B, NEW C, Factors(asked, calls, val, B, C), NEW d,
         calls' = [calls EXCEPT ![Depth].pc = 1, ![Depth].delim = d],
         UNCHANGED <<val, asked>>
  PROVE  Factors(asked', calls', val', B, C)
<1> DEFINE g == [Frame EXCEPT !.pc = 1, !.delim = d]
           b == B[Depth]
           c == C[Depth]
<1>1. /\ Running /\ Activated(Frame)
      /\ Read(Part("b")) = b /\ Target("b") \in DOMAIN val
      /\ Read(Part("c")) = c /\ Target("c") \in DOMAIN val
  BY InnerEntry
<1>2. calls' = [calls EXCEPT ![Depth] = g]
  BY DEF Frame
<1>3. g.plan = "zmul_ll" /\ g.pc = 1 /\ g.parts = Frame.parts
  BY <1>1 DEF Activated, Fields
<1> HIDE DEF g
<1>4. Untouched
  BY DEF Untouched
<1>5. \A x : PartOf(g, Depth, x) = Part(x) /\ PartOf(g, Depth, x).of = Target(x)
  BY <1>3 DEF PartOf, Part, Target, Local
<1>6. Reads(val', Part("b")) = b /\ Reads(val', Part("c")) = c
  BY <1>1, SameRead
<1>7. ASSUME NEW x, NEW v, Wanted(g, b, c, x, v)
      PROVE  (x = "b" /\ v = b) \/ (x = "c" /\ v = c)
  <2>1. InProduct(1, g.delim, b, c, x, v)
    BY <1>3, <1>7 DEF Wanted
  <2> HIDE DEF b, c
  <2> QED BY <2>1 DEF InProduct
<1>8. \A x, v : Wanted(g, b, c, x, v) => /\ PartOf(g, Depth, x).of \in DOMAIN val'
                                         /\ Reads(val', PartOf(g, Depth, x)) = v
  BY <1>1, <1>5, <1>6, <1>7
<1> HIDE DEF b, c
<1>9. Knows(calls', val', Depth, b, c)
  BY <1>1, <1>2, <1>3, <1>8, KnowsNext
<1>10. g.parts["a"] = Frame.parts["a"]
  BY <1>3
<1> QED BY <1>1, <1>2, <1>4, <1>9, <1>10, FactorsOn DEF b, c

(* Either body of zsqr_ll begins with the halves.                          *)
LEMMA SquareBegins ==
  ASSUME StackInv, PlaceInv, ValueInv, Entering, Frame.plan = "zsqr_ll", Depth > 1,
         NEW B, NEW C, Factors(asked, calls, val, B, C), Untouched, asked' = asked,
         NEW g, calls' = [calls EXCEPT ![Depth] = g], g.pc = 1, g.plan = Plan(Lo(g.delim, B[Depth])),
         g.parts["a"] = Frame.parts["a"],
         PartOf(g, Depth, "low").of \in DOMAIN val', PartOf(g, Depth, "high").of \in DOMAIN val',
         Reads(val', PartOf(g, Depth, "low")) = Lo(g.delim, B[Depth]),
         Reads(val', PartOf(g, Depth, "high")) = Hi(g.delim, B[Depth])
  PROVE  Factors(asked', calls', val', B, C)
<1> DEFINE b == B[Depth]
           c == C[Depth]
           d == g.delim
<1>1. Running /\ b = c
  BY InnerEntry
<1>2. g.plan \in {"high_only", "both_parts"} /\ (g.plan = "high_only" => Lo(d, b) = 0)
  BY DEF Plan
<1>3. ASSUME NEW x, NEW v, Wanted(g, b, c, x, v)
      PROVE  (x = "low" /\ v = Lo(d, b)) \/ (x = "high" /\ v = Hi(d, b))
  <2>1. InSquare(1, d, b, x, v) \/ InHigh(1, d, b, x, v)
    BY <1>2, <1>3 DEF Wanted
  <2> HIDE DEF b, d
  <2> QED BY <2>1 DEF InSquare, InHigh
<1>4. \A x, v : Wanted(g, b, c, x, v) => /\ PartOf(g, Depth, x).of \in DOMAIN val'
                                         /\ Reads(val', PartOf(g, Depth, x)) = v
  BY <1>3
<1> HIDE DEF b, c
<1>5. Knows(calls', val', Depth, b, c)
  BY <1>1, <1>2, <1>4, KnowsNext
<1> QED BY <1>1, <1>5, FactorsOn DEF b, c

(* What the parts read that zsqr_ll does not copy.                         *)
LEMMA HalvesRead ==
  ASSUME NEW vs, NEW p, Piece(p), vs[p.of] \in Int, NEW d \in Nat, d > 0,
         p.bits \in Nat => d <= p.bits
  PROVE  /\ Reads(vs, Low(p, d)) = Lo(d, Abs(Reads(vs, p)))
         /\ Reads(vs, High(p, d)) = Hi(d, Abs(Reads(vs, p)))
<1> DEFINE n  == 2 ^ d
           m  == 2 ^ p.from
           v  == Abs(vs[p.of])
           up == v \div m
           b  == Abs(Reads(vs, p))
<1>1. p.from \in Nat /\ (p.bits = All \/ p.bits \in Nat) /\ v \in Nat
  BY Magnitude DEF Piece
<1>2. m \in Nat \ {0} /\ n \in Nat \ {0} /\ up \in Nat
  <2>1. m \in Nat \ {0} /\ n \in Nat \ {0}
    BY <1>1, Positive
  <2> HIDE DEF m, v
  <2> QED BY <1>1, <2>1, Halved
<1>3. /\ Low(p, d).of = p.of /\ Low(p, d).from = p.from /\ Low(p, d).bits = d
      /\ High(p, d).of = p.of /\ High(p, d).from = p.from + d
      /\ High(p, d).bits = IF p.bits = All THEN All ELSE p.bits - d
  BY HalvesArePieces
<1>4. 2 ^ (p.from + d) = m * n
  BY <1>1, PowerOfSum
<1>5. v \div (m * n) = up \div n
  <2> HIDE DEF m, n, v
  <2> QED BY <1>1, <1>2, Twice
<1>6. Reads(vs, Low(p, d)) = up % n
  <2>1. d # All
    BY DEF All
  <2> QED BY <1>3, <2>1 DEF Reads
<1>7. /\ p.bits = All => Reads(vs, High(p, d)) = up \div n
      /\ p.bits \in Nat => Reads(vs, High(p, d)) = (up \div n) % 2 ^ (p.bits - d)
  <2>1. p.from + d # 0
    BY <1>1
  <2>2. p.bits \in Nat => p.bits # All /\ p.bits - d # All
    BY DEF All
  <2> HIDE DEF up, n, m, v
  <2>3. v \div 2 ^ (p.from + d) = up \div n
    BY <1>4, <1>5
  <2> DEFINE q == High(p, d)
             h == v \div 2 ^ (p.from + d)
  <2>4. /\ q.bits = All => Reads(vs, q) = h
        /\ q.bits # All => Reads(vs, q) = h % 2 ^ q.bits
    BY <1>3, <2>1 DEF Reads, v
  <2> HIDE DEF h
  <2>5. h = up \div n
    BY <2>3 DEF h
  <2> QED BY <1>3, <2>2, <2>4, <2>5
<1>8. Lo(d, b) = b % n /\ Hi(d, b) = b \div n
  BY DEF Lo, Hi
<1>9. CASE p.bits = All
  <2>1. b = up
    <3>1. CASE p.from = 0
      <4>1. m = 1 /\ v \div 1 = v
        BY <1>1, <3>1
      <4>2. Reads(vs, p) = vs[p.of]
        BY <1>9, <3>1 DEF Reads
      <4> QED BY <4>1, <4>2
    <3>2. CASE p.from # 0
      <4>1. Reads(vs, p) = up
        BY <1>9, <3>2 DEF Reads
      <4> HIDE DEF up
      <4> QED BY <1>2, <4>1, Magnitude
    <3> QED BY <3>1, <3>2
  <2> HIDE DEF b, up, n
  <2> QED BY <1>6, <1>7, <1>8, <1>9, <2>1 DEF b
<1>10. CASE p.bits \in Nat
  <2> DEFINE e == p.bits - d
             k == 2 ^ e
  <2>1. e \in Nat /\ e + d = p.bits /\ p.bits # All
    BY <1>10 DEF All
  <2>3. Reads(vs, p) = up % 2 ^ p.bits
    BY <2>1 DEF Reads
  <2> HIDE DEF e, up
  <2>2. k \in Nat \ {0} /\ 2 ^ p.bits = k * n
    <3>1. 2 ^ (e + d) = k * n
      BY <2>1, PowerOfSum
    <3>2. k \in Nat \ {0}
      BY <2>1, Positive
    <3> QED BY <2>1, <3>1, <3>2
  <2> HIDE DEF n
  <2>4. (up % (k * n)) % n = up % n /\ (up % (k * n)) \div n = (up \div n) % k
    <3> HIDE DEF k
    <3> QED BY <1>2, <2>2, Twice
  <2>5. up % (k * n) \in Nat
    <3> DEFINE kn == k * n
    <3>1. kn \in Nat \ {0}
      BY <1>2, <2>1, <2>2, Positive
    <3> HIDE DEF kn
    <3>2. up % kn \in Nat
      BY <1>2, <3>1, Halved
    <3> QED BY <3>2 DEF kn
  <2>6. Reads(vs, p) = up % (k * n)
    BY <2>2, <2>3
  <2>7. b = up % (k * n)
    <3> DEFINE w == up % (k * n)
    <3>1. w \in Nat /\ b = Abs(w)
      BY <2>5, <2>6
    <3> HIDE DEF w
    <3>2. Abs(w) = w
      BY <3>1, Magnitude
    <3> QED BY <3>1, <3>2 DEF w
  <2> HIDE DEF b
  <2>8. Reads(vs, High(p, d)) = (up \div n) % k
    BY <1>7, <1>10 DEF e
  <2> HIDE DEF k
  <2> QED BY <1>6, <1>8, <2>4, <2>7, <2>8 DEF b
<1> QED BY <1>1, <1>9, <1>10

(* zsqr_ll copies the halves.                                              *)
LEMMA SquareCopies ==
  ASSUME StackInv, PlaceInv, ValueInv, Entering, Frame.plan = "zsqr_ll", Depth > 1,
         NEW B, NEW C, Factors(asked, calls, val, B, C), asked' = asked, NEW d,
         val' = Having(Having(val, Local("low"), Lo(d, B[Depth])), Local("high"), Hi(d, B[Depth])),
         calls' = [calls EXCEPT ![Depth].pc = 1, ![Depth].delim = d,
                                ![Depth].plan = Plan(Lo(d, B[Depth]))]
  PROVE  Factors(asked', calls', val', B, C)
<1> DEFINE plan == Plan(Lo(d, B[Depth]))
           g == [Frame EXCEPT !.pc = 1, !.delim = d, !.plan = plan]
           low  == <<Depth, "low">>
           high == <<Depth, "high">>
<1>1. /\ Activated(Frame) /\ "low" \notin DOMAIN Frame.parts /\ "high" \notin DOMAIN Frame.parts
  BY InnerEntry
<1>2. calls' = [calls EXCEPT ![Depth] = g]
  BY DEF Frame
<1>3. g.pc = 1 /\ g.plan = plan /\ g.delim = d /\ g.parts = Frame.parts
  BY <1>1 DEF Activated, Fields
<1> HIDE DEF g
<1>4. PartOf(g, Depth, "low") = Whole(low) /\ PartOf(g, Depth, "high") = Whole(high)
  BY <1>1, <1>3 DEF PartOf
<1>5. low # high /\ low \in {Depth} \X Locals /\ high \in {Depth} \X Locals
  BY DEF Locals
<1>6. /\ low \in DOMAIN val' /\ val'[low] = Lo(d, B[Depth])
      /\ high \in DOMAIN val' /\ val'[high] = Hi(d, B[Depth])
      /\ \A n \in DOMAIN val : n \notin {low, high} => n \in DOMAIN val' /\ val'[n] = val[n]
  BY <1>5 DEF Having, Local
<1> HIDE DEF low, high
<1>7. Untouched
  BY <1>5, <1>6 DEF Untouched
<1>8. /\ PartOf(g, Depth, "low").of \in DOMAIN val' /\ PartOf(g, Depth, "high").of \in DOMAIN val'
      /\ Reads(val', PartOf(g, Depth, "low")) = Lo(d, B[Depth])
      /\ Reads(val', PartOf(g, Depth, "high")) = Hi(d, B[Depth])
  BY <1>4, <1>6, WholePiece, SameRead
<1> QED BY <1>2, <1>3, <1>7, <1>8, SquareBegins

(* zsqr_ll reads the halves where they are.                                *)
LEMMA SquareReads ==
  ASSUME StackInv, PlaceInv, ValueInv, Entering, Frame.plan = "zsqr_ll", Depth > 1,
         NEW B, NEW C, Factors(asked, calls, val, B, C), UNCHANGED <<val, asked>>,
         NEW d \in Nat, d > 0, Part("b").bits \in Nat => d <= Part("b").bits,
         calls' = [calls EXCEPT ![Depth].pc = 1, ![Depth].delim = d,
                                ![Depth].plan = Plan(Read(Low(Part("b"), d))),
                                ![Depth].parts = Having(Having(@, "low", Low(Part("b"), d)),
                                                        "high", High(Part("b"), d))]
  PROVE  Factors(asked', calls', val', B, C)
<1> DEFINE p == Part("b")
           low == Low(p, d)
           high == High(p, d)
           plan == Plan(Read(low))
           parts == Having(Having(Frame.parts, "low", low), "high", high)
           g == [Frame EXCEPT !.pc = 1, !.delim = d, !.plan = plan, !.parts = parts]
<1>1. /\ Running /\ Activated(Frame) /\ Serves(Frame, Depth)
      /\ Abs(Read(p)) = B[Depth]
  BY InnerEntry
<1>2. Piece(p) /\ p.of \in DOMAIN val
  BY <1>1, UsableAt DEF Usable, Target
<1>3. val[p.of] \in Int
  BY <1>2 DEF PlaceInv, Numbers
<1>4. calls' = [calls EXCEPT ![Depth] = g]
  BY DEF Frame
<1>5. g.pc = 1 /\ g.plan = plan /\ g.delim = d /\ g.parts = parts
  BY <1>1 DEF Activated, Fields
<1>6. /\ parts["low"] = low /\ parts["high"] = high /\ parts["a"] = Frame.parts["a"]
      /\ {"low", "high"} \subseteq DOMAIN parts
  BY <1>1 DEF Having, Serves
<1> HIDE DEF g, parts
<1>7. low.of = p.of /\ high.of = p.of
  BY <1>2, HalvesArePieces
<1>8. Read(low) = Lo(d, B[Depth]) /\ Read(high) = Hi(d, B[Depth])
  <2>1. Reads(val, p) = Read(p)
    BY SameRead
  <2>2. /\ Reads(val, low) = Lo(d, Abs(Reads(val, p)))
        /\ Reads(val, high) = Hi(d, Abs(Reads(val, p)))
    BY <1>2, <1>3, HalvesRead
  <2> QED BY <1>1, <2>1, <2>2, SameRead
<1> HIDE DEF low, high, p
<1>9. PartOf(g, Depth, "low") = low /\ PartOf(g, Depth, "high") = high
  BY <1>5, <1>6 DEF PartOf
<1>10. Reads(val', low) = Lo(d, B[Depth]) /\ Reads(val', high) = Hi(d, B[Depth])
  BY <1>8, SameRead
<1>11. Untouched
  BY DEF Untouched
<1>12. g.parts["a"] = Frame.parts["a"] /\ g.plan = Plan(Lo(g.delim, B[Depth]))
  BY <1>5, <1>6, <1>8
<1> QED BY <1>2, <1>4, <1>5, <1>7, <1>9, <1>10, <1>11, <1>12, SquareBegins

-----------------------------------------------------------------------------
(* A product comes back.                                                   *)

(* The outermost activation has called with the operands' magnitudes, for  *)
(* the program's destination.                                              *)
LEMMA OutermostAwaits ==
  ASSUME ValueInv, Depth > 1, Depth \in Nat, Asking(asked),
         NEW B, NEW C, Factors(asked, calls, val, B, C)
  PROVE  /\ \A v : Expected(asked, calls[1], v) => v[asked.a] = B[2] * C[2]
         /\ calls[2].parts["a"] = Whole(asked.a)
<1> DEFINE f == calls[1]
<1>1. Len(calls) = Depth /\ 1 \in 1 .. Depth - 1 /\ 1 + 1 = 2
  BY DEF Depth
<1>2. Outermost(f)
  BY DEF ValueInv, Served
<1>3. f.plan \in {"zmul", "zsqr"} /\ f.parts["a"] = Whole(asked.a) /\ "a" \in DOMAIN f.parts
  BY <1>2 DEF Outermost
<1>4. AsksFor(f, B[1], C[1], B[2], C[2]) /\ calls[2].parts["a"] = PartOf(f, 1, Awaited(f))
  BY <1>1 DEF Factors, Waits
<1>5. \/ f.plan = "zmul" /\ f.pc = 4 /\ B[2] = B[1] /\ C[2] = C[1]
      \/ f.plan = "zsqr" /\ f.pc = 2 /\ B[2] = B[1] /\ C[2] = B[1]
  BY <1>3, <1>4 DEF AsksFor
<1>6. Awaited(f) = "a"
  <2>1. /\ f.plan = "zmul" => Steps(f.plan) = ZmulSteps
        /\ f.plan = "zsqr" => Steps(f.plan) = ZsqrSteps
    BY DEF Steps
  <2>2. ZmulSteps[3][2] = "a" /\ ZsqrSteps[1][2] = "a" /\ 4 - 1 = 3 /\ 2 - 1 = 1
    BY OtherTables
  <2> QED BY <1>5, <2>1, <2>2 DEF Awaited
<1>7. calls[2].parts["a"] = Whole(asked.a)
  BY <1>3, <1>4, <1>6 DEF PartOf
<1>8. /\ B[1] = Abs(asked.was[asked.b]) /\ C[1] = Abs(asked.was[asked.c])
      /\ asked.a \in Reg /\ asked.b \in Reg /\ DOMAIN asked.was = Reg
      /\ asked.was[asked.b] \in Int
  BY DEF Factors, ValueInv, Asked, Asking
<1>9. ASSUME NEW v, Expected(asked, f, v)
      PROVE  v[asked.a] = B[2] * C[2]
  <2>1. CASE f.plan = "zmul" /\ f.pc = 4
    <3>1. v = Stored(asked)
      BY <1>9, <2>1 DEF Expected
    <3>2. Stored(asked)[asked.a] = Abs(asked.was[asked.b]) * Abs(asked.was[asked.c])
      BY <1>8 DEF Stored, NoC, NoB
    <3> QED BY <1>5, <1>8, <2>1, <3>1, <3>2
  <2>2. CASE f.plan = "zsqr" /\ f.pc = 2
    <3>1. v = Product(asked) /\ asked.b = asked.c
      BY <1>2, <1>9, <2>2 DEF Expected, Outermost, Asking
    <3> DEFINE u == asked.was[asked.b]
               w == Abs(u)
    <3>2. Product(asked)[asked.a] = u * u
      BY <1>8, <3>1 DEF Product
    <3>3. u * u = w * w
      <4> HIDE DEF u
      <4>1. u \in Int
        BY <1>8 DEF u
      <4>2. w = u \/ w = - u
        BY DEF Abs
      <4> HIDE DEF w
      <4>3. (- u) * (- u) = u * u
        BY <4>1
      <4> QED BY <4>2, <4>3
    <3>4. B[2] = w /\ C[2] = w
      BY <1>5, <1>8, <2>2
    <3> QED BY <3>1, <3>2, <3>3, <3>4
  <2> QED BY <1>5, <2>1, <2>2
<1> QED BY <1>7, <1>9

(* The product is in its place, and the locals are gone.                   *)
Delivered(v) == /\ DOMAIN val' = Outlive /\ val'[Target("a")] = v
                /\ \A n \in Outlive : n # Target("a") => val'[n] = val[n]

(* The activation that called sees what it waited for, and the others what *)
(* they saw.                                                               *)
LEMMA ReturnSees ==
  ASSUME StackInv, PlaceInv, ValueInv, Running, Depth > 1,
         NEW B, NEW C, Factors(asked, calls, val, B, C), Delivered(B[Depth] * C[Depth]),
         Len(calls') = Depth - 1, \A i \in 1 .. Depth - 1 : calls'[i] = calls[i],
         NEW i \in 2 .. Depth - 1, NEW x, NEW v, Wanted(calls[i], B[i], C[i], x, v)
  PROVE  Sees(calls', val', i, x, v)
<1> DEFINE f == calls[i]
           p == PartOf(f, i, x)
<1>1. /\ Depth \in Nat /\ Serves(Frame, Depth) /\ Placed(Frame, Depth, DOMAIN val)
      /\ Len(calls) = Depth
  BY InnermostPlaced DEF Depth
<1>2. /\ i \in 1 .. Depth - 1 /\ i \in 1 .. Depth /\ i \in Nat /\ i \in 2 .. Depth
      /\ Depth > i /\ Depth \in i + 1 .. Depth
  BY <1>1
<1>3. Knows(calls, val, i, B[i], C[i]) /\ Waits(calls, i, B[i], C[i], B[i + 1], C[i + 1])
  BY <1>1, <1>2 DEF Factors
<1>4. Sees(calls, val, i, x, v)
  BY <1>3 DEF Knows
<1>5. Placed(f, i, DOMAIN val) /\ calls'[i] = f
  BY <1>2 DEF PlaceInv
<1>6. "a" \in DOMAIN Frame.parts /\ Frame = calls[Depth]
  BY <1>1 DEF Serves, Frame
<1>7. Part("a") = Frame.parts["a"] /\ Target("a") = Frame.parts["a"].of
  BY <1>6 DEF Part, Target
<1>8. CASE x = Awaited(f)
  <2>1. CASE i < Depth - 1
    BY <1>5, <1>8, <2>1 DEF Sees
  <2>2. CASE i = Depth - 1
    <3>1. i + 1 = Depth
      BY <1>1, <2>2
    <3>2. AsksFor(f, B[i], C[i], B[Depth], C[Depth]) /\ (f.plan # "zmul_ll" => B[i] = C[i])
      BY <1>3, <3>1 DEF Waits, Knows
    <3>3. v = B[Depth] * C[Depth]
      BY <1>8, <3>2, AwaitedIsWanted
    <3>4. p = Frame.parts["a"]
      BY <1>3, <1>6, <1>8, <3>1 DEF Waits
    <3>5. p = Whole(Target("a"))
      BY <1>1, <1>7, <3>4 DEF Placed
    <3>6. Target("a") \in DOMAIN val'
      <4>1. Target("a") \in DOMAIN val /\ Target("a") \in Outside(Depth)
        BY <1>1, <1>6, <1>7 DEF Placed
      <4>2. Target("a") \in Reg \/ Target("a")[1] < Depth
        BY <1>1, <4>1 DEF Outside
      <4> QED BY <4>1, <4>2 DEF Delivered, Outlive
    <3>7. Reads(val', p) = v /\ p.of = Target("a")
      BY <3>3, <3>5, SameRead, WholePiece DEF Delivered
    <3>8. \A k \in i + 1 .. Len(calls') : FALSE
      BY <1>1, <3>1
    <3> HIDE DEF p
    <3> QED BY <1>5, <3>6, <3>7, <3>8 DEF Sees, p
  <2> QED BY <1>1, <1>2, <2>1, <2>2
<1>9. CASE x # Awaited(f)
  <2>1. /\ p.of \in DOMAIN val /\ Reads(val, p) = v
        /\ \A k \in i + 1 .. Depth : p.of # calls[k].parts["a"].of
    BY <1>1, <1>4, <1>9 DEF Sees
  <2>2. p.of # Target("a")
    BY <1>2, <1>6, <1>7, <2>1
  <2>3. p.of \in Outlive
    <3>1. p.of \in Reg \/ p.of[1] < Depth
      BY <1>1, <1>2, <1>5, PlacesOfNames
    <3> QED BY <2>1, <3>1 DEF Outlive
  <2>4. p.of \in DOMAIN val' /\ val'[p.of] = val[p.of]
    BY <2>2, <2>3 DEF Delivered
  <2>5. Reads(val', p) = v
    BY <2>1, <2>4, SameRead
  <2>6. \A k \in i + 1 .. Len(calls') : p.of # calls'[k].parts["a"].of
    <3>1. \A k \in i + 1 .. Depth - 1 : k \in 1 .. Depth - 1 /\ k \in i + 1 .. Depth
      BY <1>1, <1>2
    <3> QED BY <2>1, <3>1
  <2> HIDE DEF p
  <2> QED BY <1>5, <2>4, <2>5, <2>6 DEF Sees, p
<1> QED BY <1>8, <1>9

(* The program's numbers when its product comes back.                      *)
LEMMA ReturnOuter ==
  ASSUME StackInv, PlaceInv, ValueInv, Running, Depth > 1, Asking(asked),
         NEW B, NEW C, Factors(asked, calls, val, B, C), Delivered(B[Depth] * C[Depth]),
         Len(calls') = Depth - 1, calls'[1] = calls[1]
  PROVE  Outer(asked, calls', val')
<1> DEFINE f == calls[1]
<1>1. Depth \in Nat /\ Serves(Frame, Depth) /\ Len(calls) = Depth
  BY InnermostPlaced DEF Depth
<1>2. Target("a") = asked.a \/ Target("a") \notin Reg
  BY <1>1 DEF Serves, Target, Part
<1>3. Reg \subseteq Outlive
  BY DEF PlaceInv, Numbers, Outlive
<1>4. ASSUME NEW v, Expected(asked, f, v), NEW n \in Reg
      PROVE  (n = asked.a /\ Len(calls') > 1) \/ val'[n] = v[n]
  <2>1. (n = asked.a /\ Len(calls) > 1) \/ val[n] = v[n]
    BY <1>4 DEF Factors, Outer
  <2>2. CASE n # asked.a
    <3>1. val'[n] = val[n]
      BY <1>2, <1>3, <1>4, <2>2 DEF Delivered
    <3> QED BY <2>1, <2>2, <3>1
  <2>3. CASE n = asked.a /\ Depth = 2
    <3>1. v[asked.a] = B[Depth] * C[Depth] /\ calls[Depth].parts["a"] = Whole(asked.a)
      BY <1>1, <1>4, <2>3, OutermostAwaits
    <3>2. Target("a") = asked.a
      BY <1>1, <3>1 DEF Target, Part, Frame, Serves, Whole
    <3> QED BY <2>3, <3>1, <3>2 DEF Delivered
  <2>4. CASE n = asked.a /\ Depth > 2
    BY <1>1, <2>4
  <2> QED BY <1>1, <2>2, <2>3, <2>4
<1>5. /\ f.plan = "zmul" /\ f.pc > 1 => f.signs["b"] = Sign(asked.was[asked.b])
      /\ f.plan = "zmul" /\ f.pc > 2 => f.signs["c"] = Sign(NoB(asked)[asked.c])
  BY DEF Factors, Outer
<1> QED BY <1>4, <1>5 DEF Outer

(* A function that works for another returns.                              *)
LEMMA ReturnFactors ==
  ASSUME StackInv, PlaceInv, ValueInv, Running, Depth > 1, Asking(asked),
         Count(Frame) = 0, Return,
         NEW B, NEW C, Factors(asked, calls, val, B, C), Delivered(B[Depth] * C[Depth])
  PROVE  Factors(asked', calls', val', B, C)
<1>1. Depth \in Nat /\ Len(calls) = Depth
  BY Innermost DEF Depth
<1>2. Len(calls') = Depth - 1 /\ \A i \in 1 .. Depth - 1 : calls'[i] = calls[i]
  BY Ends DEF Depth
<1>3. asked' = asked
  BY DEF Return
<1>4. Outer(asked, calls', val')
  <2>1. calls'[1] = calls[1]
    BY <1>1, <1>2
  <2> QED BY <1>2, <2>1, ReturnOuter
<1>5. ASSUME NEW i \in 1 .. Len(calls') - 1
      PROVE  Waits(calls', i, B[i], C[i], B[i + 1], C[i + 1])
  <2>1. i \in 1 .. Depth - 1 /\ i + 1 \in 1 .. Depth - 1
    BY <1>1, <1>2
  <2>2. Waits(calls, i, B[i], C[i], B[i + 1], C[i + 1])
    BY <1>1, <2>1 DEF Factors
  <2> QED BY <1>2, <2>1, <2>2 DEF Waits
<1>6. ASSUME NEW i \in 2 .. Len(calls')
      PROVE  Knows(calls', val', i, B[i], C[i])
  <2>1. i \in 2 .. Depth - 1 /\ i \in 1 .. Depth - 1 /\ i \in 2 .. Depth
    BY <1>1, <1>2
  <2>2. Knows(calls, val, i, B[i], C[i]) /\ Waits(calls, i, B[i], C[i], B[i + 1], C[i + 1])
    BY <1>1, <2>1 DEF Factors
  <2>3. calls'[i] = calls[i] /\ calls[i].plan # "zsqr_ll"
    BY <1>2, <2>1, <2>2, WaitersChose DEF Waits
  <2>4. \A x, v : Wanted(calls[i], B[i], C[i], x, v) => Sees(calls', val', i, x, v)
    BY <1>2, <2>1, ReturnSees
  <2> QED BY <2>2, <2>3, <2>4 DEF Knows
<1>7. /\ \A i \in 1 .. Len(calls') : B[i] \in Nat /\ C[i] \in Nat
      /\ B[1] = Abs(asked.was[asked.b]) /\ C[1] = Abs(asked.was[asked.c])
  BY <1>1, <1>2 DEF Factors
<1> QED BY <1>3, <1>4, <1>5, <1>6, <1>7 DEF Factors

(* A result at the entry of a function.                                    *)
LEMMA ResultFactors ==
  ASSUME StackInv, PlaceInv, ValueInv, Entering, Depth > 1, Asking(asked), Return,
         NEW B, NEW C, Factors(asked, calls, val, B, C),
         val' = [val EXCEPT ![Target("a")] = B[Depth] * C[Depth]]
  PROVE  Factors(asked', calls', val', B, C)
<1> DEFINE v == B[Depth] * C[Depth]
<1>1. Running /\ Count(Frame) = 0
  BY AtEntry
<1>2. Outlive = DOMAIN val /\ Target("a") \in DOMAIN val
  BY <1>1, NoLocals, UsableAt DEF Usable
<1> HIDE DEF v
<1>3. Delivered(v)
  BY <1>2 DEF Delivered, v
<1> QED BY <1>1, <1>3, ReturnFactors DEF v

(* zmul_ll begins: with nothing, with little, or with a choice.            *)
LEMMA EnterZmulLlFactors ==
  ASSUME StackInv, PlaceInv, ValueInv, EnterZmulLl, ~ Fail, Depth > 1, Asking(asked),
         NEW B, NEW C, Factors(asked, calls, val, B, C)
  PROVE  Factors(asked', calls', val', B, C)
<1> DEFINE b == Read(Part("b"))
           c == Read(Part("c"))
           longer == IF Bits(b) > Bits(c) THEN Bits(b) ELSE Bits(c)
           delim == longer \div 2
           t == Target("a")
<1>1. Entering /\ Frame.plan = "zmul_ll"
  BY DEF EnterZmulLl
<1>2. B[Depth] = b /\ C[Depth] = c /\ b \in Nat /\ c \in Nat
  <2>1. /\ B[Depth] \in Nat /\ C[Depth] \in Nat
        /\ Read(Part("b")) = B[Depth] /\ Read(Part("c")) = C[Depth]
    BY <1>1, InnerEntry
  <2> QED BY <2>1
<1>3. \/ val' = [val EXCEPT ![t] = 0] /\ Return /\ (b = 0 \/ c = 0)
      \/ val' = [val EXCEPT ![t] = Abs(b) * Abs(c)] /\ Return
      \/ /\ calls' = [calls EXCEPT ![Depth].pc = 1, ![Depth].delim = delim]
         /\ UNCHANGED <<val, asked>>
  BY DEF EnterZmulLl
<1> HIDE DEF b, c, delim, t
<1>4. CASE val' = [val EXCEPT ![t] = 0] /\ Return /\ (b = 0 \/ c = 0)
  <2>1. b * c = 0
    BY <1>2, <1>4
  <2>2. val' = [val EXCEPT ![t] = B[Depth] * C[Depth]]
    BY <1>2, <1>4, <2>1
  <2> QED BY <1>1, <1>4, <2>2, ResultFactors DEF t
<1>5. CASE val' = [val EXCEPT ![t] = Abs(b) * Abs(c)] /\ Return
  <2>1. Abs(b) = b /\ Abs(c) = c
    BY <1>2, Magnitude
  <2>2. val' = [val EXCEPT ![t] = B[Depth] * C[Depth]]
    BY <1>2, <1>5, <2>1
  <2> QED BY <1>1, <1>5, <2>2, ResultFactors DEF t
<1>6. CASE calls' = [calls EXCEPT ![Depth].pc = 1, ![Depth].delim = delim] /\ UNCHANGED <<val, asked>>
  BY <1>1, <1>6, SplitsAt
<1> QED BY <1>3, <1>4, <1>5, <1>6

(* zsqr_ll likewise.                                                       *)
LEMMA EnterZsqrLlFactors ==
  ASSUME StackInv, PlaceInv, ValueInv, EnterZsqrLl, ~ Fail, Depth > 1, Asking(asked),
         NEW B, NEW C, Factors(asked, calls, val, B, C)
  PROVE  Factors(asked', calls', val', B, C)
<1> DEFINE p     == Part("b")
           b     == Abs(Read(p))
           half  == Bits(b) \div 2
           delim == half - (half % BitsPerChar)
           low   == Low(p, delim)
           t     == Target("a")
<1>1. Entering /\ Frame.plan = "zsqr_ll"
  BY DEF EnterZsqrLl
<1>2. Running /\ B[Depth] = b /\ C[Depth] = b
  BY <1>1, InnerEntry
<1>3. \/ val' = [val EXCEPT ![t] = b * b] /\ Return
      \/ /\ val' = Having(Having(val, Local("low"), b % 2 ^ half), Local("high"), b \div 2 ^ half)
         /\ calls' = [calls EXCEPT ![Depth].pc = 1, ![Depth].delim = half,
                                   ![Depth].plan = Plan(b % 2 ^ half)]
         /\ asked' = asked
      \/ /\ Bits(b) > BitsPerChar \div 2 /\ half >= BitsPerChar
         /\ calls' = [calls EXCEPT ![Depth].pc = 1, ![Depth].delim = delim,
                                   ![Depth].plan = Plan(Read(low)),
                                   ![Depth].parts = Having(Having(@, "low", low),
                                                           "high", High(p, delim))]
         /\ UNCHANGED <<val, asked>>
  BY DEF EnterZsqrLl
<1>4. /\ delim \in Nat /\ (half >= BitsPerChar => delim > 0)
      /\ Bits(b) > BitsPerChar \div 2 => (p.bits \in Nat => delim <= p.bits)
  <2>1. Usable("b")
    BY <1>2, UsableAt
  <2>2. Piece(p) /\ val[p.of] \in Int /\ Read(p) \in Int
    BY <2>1 DEF Usable, Target, PlaceInv, Numbers
  <2> QED BY <2>2, Delimiter
<1>5. b % 2 ^ half = Lo(half, b) /\ b \div 2 ^ half = Hi(half, b)
  BY DEF Lo, Hi
<1> HIDE DEF b, half, delim, t
<1>6. CASE val' = [val EXCEPT ![t] = b * b] /\ Return
  <2>1. val' = [val EXCEPT ![t] = B[Depth] * C[Depth]]
    BY <1>2, <1>6
  <2> QED BY <1>1, <1>6, <2>1, ResultFactors DEF t
<1>7. CASE /\ val' = Having(Having(val, Local("low"), b % 2 ^ half), Local("high"), b \div 2 ^ half)
           /\ calls' = [calls EXCEPT ![Depth].pc = 1, ![Depth].delim = half,
                                     ![Depth].plan = Plan(b % 2 ^ half)]
           /\ asked' = asked
  <2>1. /\ val' = Having(Having(val, Local("low"), Lo(half, B[Depth])), Local("high"), Hi(half, B[Depth]))
        /\ calls' = [calls EXCEPT ![Depth].pc = 1, ![Depth].delim = half,
                                  ![Depth].plan = Plan(Lo(half, B[Depth]))]
    BY <1>2, <1>5, <1>7
  <2> QED BY <1>1, <1>7, <2>1, SquareCopies
<1>8. CASE /\ Bits(b) > BitsPerChar \div 2 /\ half >= BitsPerChar
           /\ calls' = [calls EXCEPT ![Depth].pc = 1, ![Depth].delim = delim,
                                     ![Depth].plan = Plan(Read(low)),
                                     ![Depth].parts = Having(Having(@, "low", low),
                                                             "high", High(p, delim))]
           /\ UNCHANGED <<val, asked>>
  <2>1. delim \in Nat /\ delim > 0 /\ (p.bits \in Nat => delim <= p.bits)
    BY <1>4, <1>8
  <2> QED BY <1>1, <1>8, <2>1, SquareReads
<1> QED BY <1>3, <1>6, <1>7, <1>8

(* A function has gone through its body.                                   *)
LEMMA LeaveFunctionFactors ==
  ASSUME StackInv, PlaceInv, ValueInv, LeaveFunction, Depth > 1, Asking(asked),
         NEW B, NEW C, Factors(asked, calls, val, B, C)
  PROVE  Factors(asked', calls', val', B, C)
<1> DEFINE b == B[Depth]
           c == C[Depth]
<1>1. Finished /\ Return /\ val' = Keeping(val, Outlive)
  BY DEF LeaveFunction
<1>2. Running /\ Count(Frame) = 0
  BY <1>1, AtEnd
<1>3. /\ Activated(Frame) /\ Serves(Frame, Depth) /\ Placed(Frame, Depth, DOMAIN val)
      /\ Depth \in Nat /\ Len(calls) = Depth /\ Depth \in 2 .. Depth
  BY <1>2, Innermost, InnermostPlaced DEF Depth
<1>4. Knows(calls, val, Depth, b, c)
  BY <1>3 DEF Factors
<1>5. Frame.plan # "zmul_ll" => b = c
  BY <1>4 DEF Knows, Frame
<1>6. \/ Frame.plan = "zmul_ll" /\ Frame.pc = 22
      \/ Frame.plan = "high_only" /\ Frame.pc = 3
      \/ Frame.plan = "both_parts" /\ Frame.pc = 12
  <2> DEFINE plan == Frame.plan
             pc   == Frame.pc
             len  == Len(Steps(plan))
  <2>1. plan \in Plans /\ plan \notin {"zmul", "zsqr"} /\ pc \in Nat
    BY <1>3 DEF Activated, Serves
  <2>2. pc > len /\ pc <= len + 1 /\ (plan = "zsqr_ll" => pc = 0)
    BY <1>1, <1>3 DEF Finished, Activated
  <2>3. /\ plan = "zmul_ll" => len = 21
        /\ plan = "zsqr_ll" => len = 0
        /\ plan = "high_only" => len = 2
        /\ plan = "both_parts" => len = 11
    BY <2>1, Lengths
  <2>4. plan \in {"zmul_ll", "zsqr_ll", "high_only", "both_parts"}
    BY <2>1 DEF Plans
  <2> HIDE DEF plan, pc, len
  <2>5. \/ plan = "zmul_ll" /\ pc = 22
        \/ plan = "high_only" /\ pc = 3
        \/ plan = "both_parts" /\ pc = 12
    BY <2>1, <2>2, <2>3, <2>4
  <2> QED BY <2>5 DEF plan, pc
<1>7. Wanted(Frame, b, c, "a", b * c)
  <2> HIDE DEF b, c
  <2>1. CASE Frame.plan = "zmul_ll" /\ Frame.pc = 22
    BY <2>1 DEF Wanted, InProduct
  <2>2. CASE Frame.plan = "high_only" /\ Frame.pc = 3
    BY <1>5, <2>2 DEF Wanted, InHigh
  <2>3. CASE Frame.plan = "both_parts" /\ Frame.pc = 12
    BY <1>5, <2>3 DEF Wanted, InSquare
  <2> QED BY <1>6, <2>1, <2>2, <2>3
<1>8. Target("a") \in DOMAIN val /\ Read(Part("a")) = b * c
  BY <1>2, <1>4, <1>7, HasWanted
<1>9. Part("a") = Whole(Target("a")) /\ Target("a") \in Outside(Depth)
  <2>1. "a" \in DOMAIN Frame.parts
    BY <1>3 DEF Serves
  <2> QED BY <1>2, <1>3, <2>1, WholeTarget DEF Placed, Target, Part
<1>10. val[Target("a")] = b * c
  BY <1>8, <1>9, SameRead
<1>11. Target("a") \in Outlive
  BY <1>3, <1>8, <1>9 DEF Outlive, Outside
<1>12. Delivered(b * c)
  BY <1>1, <1>10, <1>11 DEF Delivered, Keeping
<1> QED BY <1>1, <1>2, <1>12, ReturnFactors

-----------------------------------------------------------------------------
(* A call.                                                                 *)

(* What the caller wants is not where the product will be stored, unless   *)
(* it is the product.                                                      *)
LEMMA CallerSees ==
  ASSUME StackInv, PlaceInv, ValueInv, NEW kind \in {"mul", "sqr"}, At(kind), Depth > 1,
         NEW B, NEW C, Factors(asked, calls, val, B, C), NEW cs,
         Len(cs) = Depth + 1, cs[Depth] = Onward(Frame), cs[Depth + 1].parts["a"] = Part(Arg(1)),
         NEW x, NEW v, NEW w,
         After(Frame, B[Depth], C[Depth], x, v, Arg(1), w)
  PROVE  Sees(cs, val, Depth, x, v)
<1> DEFINE g == Onward(Frame)
           p == PartOf(g, Depth, x)
<1>1. /\ Knows(calls, val, Depth, B[Depth], C[Depth]) /\ Running /\ Depth \in Nat
      /\ Frame.pc \in Nat
  BY InnerStep, Innermost
<1>2. g.plan = Frame.plan /\ g.pc = Frame.pc + 1 /\ g.parts = Frame.parts
  BY OnwardIs
<1>3. Arg(1) = Awaited(g)
  <2>1. g.pc - 1 = Frame.pc
    BY <1>1, <1>2
  <2>2. Arg(1) = Steps(Frame.plan)[Frame.pc][2]
    BY AtStep
  <2> QED BY <1>2, <2>1, <2>2 DEF Awaited
<1> HIDE DEF g
<1>4. CASE x = Arg(1)
  <2>1. Depth < Len(cs)
    BY <1>1
  <2> QED BY <1>3, <1>4, <2>1 DEF Sees, g
<1>5. CASE Wanted(Frame, B[Depth], C[Depth], x, v) /\ Elsewhere(x, Arg(1))
  <2>1. p = Part(x) /\ p.of = Target(x)
    BY <1>2 DEF PartOf, Part, Target, Local
  <2>2. Target(x) \in DOMAIN val /\ Reads(val, p) = v
    <3>1. Target(x) \in DOMAIN val /\ Read(Part(x)) = v
      BY <1>1, <1>5, HasWanted
    <3> QED BY <2>1, <3>1, SameRead
  <2>3. Target(x) # Target(Arg(1))
    BY <1>1, <1>5, ElsewhereApart
  <2>4. \A k \in Depth + 1 .. Len(cs) : p.of # cs[k].parts["a"].of
    <3>1. \A k \in Depth + 1 .. Len(cs) : k = Depth + 1
      BY <1>1
    <3> QED BY <2>1, <2>3, <3>1 DEF Target
  <2> HIDE DEF p
  <2> QED BY <2>1, <2>2, <2>4 DEF Sees, p, g
<1> QED BY <1>4, <1>5 DEF After

(* Nor is what those below it want.                                        *)
LEMMA CallOthersKnow ==
  ASSUME StackInv, PlaceInv, ValueInv, NEW kind \in {"mul", "sqr"}, At(kind), NEW cs,
         Len(cs) = Depth + 1, cs[Depth] = Onward(Frame), cs[Depth + 1].parts["a"] = Part(Arg(1)),
         NEW i \in 1 .. Depth - 1, \A k \in 1 .. Depth - 1 : cs[k] = calls[k],
         calls[i].plan # "zsqr_ll", NEW b, NEW c, Knows(calls, val, i, b, c)
  PROVE  Knows(cs, val, i, b, c)
<1>1. /\ Running /\ Depth \in Nat /\ Len(calls) = Depth
      /\ Serves(Frame, Depth) /\ Placed(Frame, Depth, DOMAIN val)
  BY InnermostPlaced DEF At, Depth
<1>2. i \in Nat /\ i \in 1 .. Depth /\ Depth > i /\ Depth \in i + 1 .. Depth
  BY <1>1
<1>3. cs[Depth].parts["a"] = Frame.parts["a"] /\ Frame = calls[Depth]
  BY OnwardIs DEF Frame
<1>4. Target("a") = calls[Depth].parts["a"].of
  BY <1>1 DEF Target, Part, Frame, Serves
<1>5. Target(Arg(1)) = Target("a") \/ Target(Arg(1)) \in {Depth} \X Locals
  <2>1. Arg(1) \in {"a"} \cup Temporaries
    BY Named
  <2>2. CASE Arg(1) \in Temporaries
    <3>1. Arg(1) \notin DOMAIN Frame.parts /\ Arg(1) \in Locals
      BY <1>1, <2>2 DEF Serves, Temporaries, Locals
    <3>2. Target(Arg(1)) = <<Depth, Arg(1)>>
      BY <3>1 DEF Target, Part, Local, Whole
    <3> QED BY <3>1, <3>2
  <2> QED BY <2>1, <2>2
<1>6. ASSUME NEW x, NEW v, Wanted(calls[i], b, c, x, v)
      PROVE  Sees(cs, val, i, x, v)
  <2> DEFINE p == PartOf(calls[i], i, x)
  <2>1. Sees(calls, val, i, x, v) /\ cs[i] = calls[i]
    BY <1>6 DEF Knows
  <2>2. CASE x = Awaited(calls[i])
    <3>1. i < Len(cs)
      BY <1>1, <1>2
    <3> QED BY <2>1, <2>2, <3>1 DEF Sees
  <2>3. CASE x # Awaited(calls[i])
    <3>1. /\ p.of \in DOMAIN val /\ Reads(val, p) = v
          /\ \A k \in i + 1 .. Depth : p.of # calls[k].parts["a"].of
      BY <1>1, <2>1, <2>3 DEF Sees
    <3>2. p.of \notin {Depth} \X Locals
      <4>1. Placed(calls[i], i, DOMAIN val)
        BY <1>2 DEF PlaceInv
      <4> QED BY <1>1, <1>2, <4>1, PlacesOfNames
    <3>3. p.of # Target(Arg(1))
      BY <1>2, <1>4, <1>5, <3>1, <3>2
    <3>4. ASSUME NEW k \in i + 1 .. Len(cs)
          PROVE  p.of # cs[k].parts["a"].of
      <4>1. k \in i + 1 .. Depth \/ k = Depth + 1
        BY <1>1, <1>2
      <4>2. CASE k = Depth + 1
        BY <3>3, <4>2 DEF Target
      <4>3. CASE k = Depth
        BY <1>2, <1>3, <3>1, <4>3
      <4>4. CASE k \in i + 1 .. Depth /\ k # Depth
        <5>1. k \in 1 .. Depth - 1
          BY <1>1, <1>2, <4>4
        <5> QED BY <3>1, <4>4, <5>1
      <4> QED BY <4>1, <4>2, <4>3, <4>4
    <3> HIDE DEF p
    <3> QED BY <2>1, <3>1, <3>4 DEF Sees, p
  <2> QED BY <2>2, <2>3
<1>7. cs[i] = calls[i]
  OBVIOUS
<1> QED BY <1>6, <1>7 DEF Knows

(* The factors, with those of a call.                                      *)
With(B, n, x) == [i \in 1 .. n + 1 |-> IF i = n + 1 THEN x ELSE B[i]]

LEMMA CallFactors ==
  ASSUME StackInv, PlaceInv, ValueInv, NEW kind \in {"mul", "sqr"}, At(kind),
         NEW plan \in {"zmul_ll", "zsqr_ll"}, NEW parts, Call(plan, parts),
         UNCHANGED <<val, tempStack, status, asked>>, parts["a"] = Part(Arg(1)),
         NEW B, NEW C, Factors(asked, calls, val, B, C), NEW x \in Nat, NEW y \in Nat,
         AsksFor(Onward(Frame), B[Depth], C[Depth], x, y),
         Knows(calls', val, Depth + 1, x, y),
         Depth = 1 => Outer(asked, calls', val),
         NEW w, Depth > 1 => \A z, v : Wanted(Onward(Frame), B[Depth], C[Depth], z, v) =>
                               After(Frame, B[Depth], C[Depth], z, v, Arg(1), w)
  PROVE  Factors(asked', calls', val', With(B, Depth, x), With(C, Depth, y))
<1> DEFINE g  == Onward(Frame)
           D  == Depth
           B2 == With(B, D, x)
           C2 == With(C, D, y)
<1>1. /\ Depth' = D + 1 /\ calls'[D + 1] = Activation(plan, parts) /\ calls'[D] = g
      /\ \A i \in 1 .. D : i # D => calls'[i] = calls[i]
  BY CallStack
<1>2. Running /\ D \in Nat /\ D > 0 /\ Len(calls) = D /\ Len(calls') = D + 1
  BY <1>1, Innermost DEF At, Depth
<1>3. calls'[D + 1].parts["a"] = Part(Arg(1)) /\ g.parts = Frame.parts /\ g.plan = Frame.plan
      /\ g.delim = Frame.delim
  BY <1>1, OnwardIs DEF Activation
<1>4. \A i \in 1 .. D - 1 : calls'[i] = calls[i] /\ i \in 1 .. D /\ i # D
  BY <1>1, <1>2
<1> HIDE DEF g, D, B2, C2
<1>5. /\ B2[D + 1] = x /\ C2[D + 1] = y
      /\ \A i \in 1 .. D : B2[i] = B[i] /\ C2[i] = C[i]
  BY <1>2 DEF B2, C2, With
<1>6. ASSUME NEW i \in 1 .. Len(calls')
      PROVE  B2[i] \in Nat /\ C2[i] \in Nat
  <2>1. i \in 1 .. D \/ i = D + 1
    BY <1>2
  <2>2. \A j \in 1 .. D : B[j] \in Nat /\ C[j] \in Nat
    BY <1>2 DEF Factors
  <2> QED BY <1>5, <2>1, <2>2
<1>7. B2[1] = Abs(asked.was[asked.b]) /\ C2[1] = Abs(asked.was[asked.c])
  <2>1. 1 \in 1 .. D
    BY <1>2
  <2> QED BY <1>5, <2>1 DEF Factors
<1>8. Outer(asked, calls', val)
  <2>1. CASE D = 1
    BY <2>1 DEF D
  <2>2. CASE D > 1
    <3>1. calls'[1] = calls[1] /\ Outer(asked, calls, val)
      BY <1>2, <1>4, <2>2 DEF Factors
    <3>2. Len(calls') > 1 /\ Len(calls) > 1
      BY <1>2, <2>2
    <3>3. ASSUME NEW v, Expected(asked, calls'[1], v), NEW n \in Reg
          PROVE  (n = asked.a /\ Len(calls') > 1) \/ val[n] = v[n]
      BY <3>1, <3>2, <3>3 DEF Outer
    <3> QED BY <3>1, <3>3 DEF Outer
  <2> QED BY <1>2, <2>1, <2>2
<1>9. ASSUME NEW i \in 1 .. Len(calls') - 1
      PROVE  Waits(calls', i, B2[i], C2[i], B2[i + 1], C2[i + 1])
  <2>1. i \in 1 .. D - 1 \/ i = D
    BY <1>2
  <2>2. CASE i = D
    <3>1. AsksFor(g, B[D], C[D], x, y)
      BY DEF g, D
    <3>2. B2[D] = B[D] /\ C2[D] = C[D]
      BY <1>2, <1>5
    <3>3. Part(Arg(1)) = PartOf(g, D, Awaited(g))
      <4>1. Arg(1) = Steps(Frame.plan)[Frame.pc][2] /\ g.pc = Frame.pc + 1 /\ Frame.pc \in Nat
        BY AtStep, OnwardIs DEF g
      <4>2. Arg(1) = Awaited(g)
        <5>1. g.pc - 1 = Frame.pc
          BY <4>1
        <5> QED BY <1>3, <4>1, <5>1 DEF Awaited
      <4> QED BY <1>3, <4>2 DEF Part, PartOf, Local, D
    <3> QED BY <1>1, <1>3, <1>5, <2>2, <3>1, <3>2, <3>3 DEF Waits
  <2>3. CASE i \in 1 .. D - 1
    <3>1. Waits(calls, i, B[i], C[i], B[i + 1], C[i + 1])
      BY <1>2, <2>3 DEF Factors
    <3>2. i \in 1 .. D /\ i + 1 \in 1 .. D /\ calls'[i] = calls[i]
      BY <1>2, <1>4, <2>3
    <3>3. B2[i] = B[i] /\ C2[i] = C[i] /\ B2[i + 1] = B[i + 1] /\ C2[i + 1] = C[i + 1]
      BY <1>5, <3>2
    <3>4. calls'[i + 1].parts["a"] = calls[i + 1].parts["a"]
      <4>1. CASE i + 1 = D
        BY <1>1, <1>3, <4>1 DEF Frame, D
      <4>2. CASE i + 1 # D
        BY <1>1, <3>2, <4>2
      <4> QED BY <4>1, <4>2
    <3> QED BY <3>1, <3>2, <3>3, <3>4 DEF Waits
  <2> QED BY <2>1, <2>2, <2>3
<1>10. ASSUME NEW i \in 2 .. Len(calls')
      PROVE  Knows(calls', val, i, B2[i], C2[i])
  <2>1. i = D + 1 \/ i = D \/ (i \in 2 .. D - 1 /\ i \in 1 .. D - 1 /\ i \in 2 .. D)
    BY <1>2
  <2>2. CASE i = D + 1
    BY <1>5, <2>2 DEF D
  <2>3. CASE i = D
    <3>1. D > 1 /\ D \in 1 .. D /\ D \in 2 .. D
      BY <1>2, <2>3
    <3>2. /\ Frame.plan \in {"zmul_ll", "high_only", "both_parts"}
          /\ Frame.plan # "zmul_ll" => B[D] = C[D]
          /\ Frame.plan = "high_only" => Lo(Frame.delim, B[D]) = 0
      BY <3>1, InnerStep DEF D
    <3>3. \A z, v : Wanted(g, B[D], C[D], z, v) => Sees(calls', val, D, z, v)
      <4>1. \A z, v : Wanted(g, B[D], C[D], z, v) => After(Frame, B[D], C[D], z, v, Arg(1), w)
        BY <3>1 DEF g, D
      <4> QED BY <1>1, <1>2, <1>3, <3>1, <4>1, CallerSees DEF g, D
    <3> QED BY <1>1, <1>3, <1>5, <2>3, <3>1, <3>2, <3>3 DEF Knows
  <2>4. CASE i \in 2 .. D - 1 /\ i \in 1 .. D - 1 /\ i \in 2 .. D
    <3>1. Knows(calls, val, i, B[i], C[i]) /\ AsksFor(calls[i], B[i], C[i], B[i + 1], C[i + 1])
      BY <1>2, <2>4 DEF Factors, Waits
    <3>2. calls[i].plan # "zsqr_ll"
      BY <3>1, WaitersChose
    <3>3. Knows(calls', val, i, B[i], C[i])
      BY <1>1, <1>2, <1>3, <1>4, <2>4, <3>1, <3>2, CallOthersKnow DEF g, D
    <3>4. B2[i] = B[i] /\ C2[i] = C[i]
      BY <1>4, <1>5, <2>4
    <3> QED BY <3>3, <3>4
  <2> QED BY <2>1, <2>2, <2>3, <2>4
<1>11. Factors(asked, calls', val, B2, C2)
  BY <1>6, <1>7, <1>8, <1>9, <1>10 DEF Factors
<1> QED BY <1>11 DEF B2, C2, D

(* What a call of zmul_ll multiplies.                                      *)
LEMMA MultiplyAsks ==
  ASSUME StackInv, PlaceInv, ValueInv, At("mul"), Depth > 1,
         NEW B, NEW C, Factors(asked, calls, val, B, C)
  PROVE  \E u, w \in Nat :
           /\ Wanted(Frame, B[Depth], C[Depth], Arg(2), u)
           /\ Wanted(Frame, B[Depth], C[Depth], Arg(3), w)
           /\ AsksFor(Onward(Frame), B[Depth], C[Depth], u, w)
           /\ \E p : \A x, v : Wanted(Onward(Frame), B[Depth], C[Depth], x, v) =>
                       After(Frame, B[Depth], C[Depth], x, v, Arg(1), p)
<1> DEFINE f == Frame
           g == Onward(Frame)
           b == B[Depth]
           c == C[Depth]
           d == f.delim
           Asks(u, w) ==
             /\ Wanted(f, b, c, Arg(2), u) /\ Wanted(f, b, c, Arg(3), w)
             /\ AsksFor(g, b, c, u, w)
             /\ \E p : \A x, v : Wanted(g, b, c, x, v) => After(f, b, c, x, v, Arg(1), p)
<1>1. /\ b \in Nat /\ c \in Nat /\ d \in Nat /\ NextOf(f, g)
      /\ f.plan # "zmul_ll" => b = c
      /\ f.pc \in Nat \ {0} /\ f.pc \in Nat
  BY InnerStep
<1>2. \/ f.plan = "zmul_ll" /\ f.pc = 7 /\ Names3("a", "b_low", "c_low")
      \/ f.plan = "zmul_ll" /\ f.pc = 10 /\ Names3("b_low", "b_low", "c_low")
      \/ f.plan = "zmul_ll" /\ f.pc = 11 /\ Names3("c_low", "b_high", "c_high")
      \/ f.plan = "both_parts" /\ f.pc = 4 /\ Names3("z1", "low", "high")
  <2>1. Sites("mul") /\ f.plan # "zmul"
    BY InnerStep
  <2> QED BY <2>1 DEF Sites, Is
<1> HIDE DEF f, g, b, c, d
<1>3. g.plan = f.plan /\ g.delim = d /\ g.pc = f.pc + 1
  BY <1>1 DEF NextOf, d
<1>4. CASE f.plan = "zmul_ll" /\ f.pc = 7 /\ Names3("a", "b_low", "c_low")
  <2> DEFINE s == Lo(d, b)
             t == Lo(d, c)
  <2>1. s \in Nat /\ t \in Nat
    BY <1>1, ProductsOfHalves
  <2>2. Wanted(f, b, c, "b_low", s) /\ Wanted(f, b, c, "c_low", t)
    BY <1>4 DEF Wanted, InProduct, d
  <2>3. AsksFor(g, b, c, s, t)
    BY <1>3, <1>4 DEF AsksFor
  <2>4. \A x, v : Wanted(g, b, c, x, v) => After(f, b, c, x, v, "a", LoLo(d, b, c))
    BY <1>1, <1>4, ProductTable DEF d
  <2> HIDE DEF s, t
  <2>5. Asks(s, t)
    BY <1>4, <2>2, <2>3, <2>4, Zenon DEF Names3
  <2> QED BY <2>1, <2>5 DEF f, g, b, c
<1>5. CASE f.plan = "zmul_ll" /\ f.pc = 10 /\ Names3("b_low", "b_low", "c_low")
  <2> DEFINE s == Sum(d, b)
             t == Sum(d, c)
  <2>1. s \in Nat /\ t \in Nat
    BY <1>1, ProductsOfHalves
  <2>2. Wanted(f, b, c, "b_low", s) /\ Wanted(f, b, c, "c_low", t)
    BY <1>5 DEF Wanted, InProduct, d
  <2>3. AsksFor(g, b, c, s, t)
    BY <1>3, <1>5 DEF AsksFor
  <2>4. \A x, v : Wanted(g, b, c, x, v) => After(f, b, c, x, v, "b_low", Cross(d, b, c))
    BY <1>1, <1>5, ProductTable DEF d
  <2> HIDE DEF s, t
  <2>5. Asks(s, t)
    BY <1>5, <2>2, <2>3, <2>4, Zenon DEF Names3
  <2> QED BY <2>1, <2>5 DEF f, g, b, c
<1>6. CASE f.plan = "zmul_ll" /\ f.pc = 11 /\ Names3("c_low", "b_high", "c_high")
  <2> DEFINE s == Hi(d, b)
             t == Hi(d, c)
  <2>1. s \in Nat /\ t \in Nat
    BY <1>1, ProductsOfHalves
  <2>2. Wanted(f, b, c, "b_high", s) /\ Wanted(f, b, c, "c_high", t)
    BY <1>6 DEF Wanted, InProduct, d
  <2>3. AsksFor(g, b, c, s, t)
    BY <1>3, <1>6 DEF AsksFor
  <2>4. \A x, v : Wanted(g, b, c, x, v) => After(f, b, c, x, v, "c_low", HiHi(d, b, c))
    BY <1>1, <1>6, ProductTable DEF d
  <2> HIDE DEF s, t
  <2>5. Asks(s, t)
    BY <1>6, <2>2, <2>3, <2>4, Zenon DEF Names3
  <2> QED BY <2>1, <2>5 DEF f, g, b, c
<1>7. CASE f.plan = "both_parts" /\ f.pc = 4 /\ Names3("z1", "low", "high")
  <2> DEFINE s == Lo(d, b)
             t == Hi(d, b)
  <2>1. s \in Nat /\ t \in Nat
    BY <1>1, SquaresOfHalves
  <2>2. Wanted(f, b, c, "low", s) /\ Wanted(f, b, c, "high", t)
    BY <1>7 DEF Wanted, InSquare, d
  <2>3. AsksFor(g, b, c, s, t)
    BY <1>3, <1>7 DEF AsksFor
  <2>4. \A x, v : Wanted(g, b, c, x, v) => After(f, b, c, x, v, "z1", LoHi(d, b, b))
    BY <1>1, <1>7, SquareTable DEF d
  <2> HIDE DEF s, t
  <2>5. Asks(s, t)
    BY <1>7, <2>2, <2>3, <2>4, Zenon DEF Names3
  <2> QED BY <2>1, <2>5 DEF f, g, b, c
<1> QED BY <1>2, <1>4, <1>5, <1>6, <1>7

(* What a call of zsqr_ll squares.                                         *)
LEMMA SquareAsks ==
  ASSUME StackInv, PlaceInv, ValueInv, At("sqr"), Depth > 1,
         NEW B, NEW C, Factors(asked, calls, val, B, C)
  PROVE  \E u \in Nat :
           /\ Wanted(Frame, B[Depth], C[Depth], Arg(2), u)
           /\ AsksFor(Onward(Frame), B[Depth], C[Depth], u, u)
           /\ \E p : \A x, v : Wanted(Onward(Frame), B[Depth], C[Depth], x, v) =>
                       After(Frame, B[Depth], C[Depth], x, v, Arg(1), p)
<1> DEFINE f == Frame
           g == Onward(Frame)
           b == B[Depth]
           c == C[Depth]
           d == f.delim
           Asks(u) ==
             /\ Wanted(f, b, c, Arg(2), u) /\ AsksFor(g, b, c, u, u)
             /\ \E p : \A x, v : Wanted(g, b, c, x, v) => After(f, b, c, x, v, Arg(1), p)
<1>1. /\ b \in Nat /\ c \in Nat /\ d \in Nat /\ NextOf(f, g)
      /\ f.pc \in Nat \ {0} /\ f.pc \in Nat
  BY InnerStep
<1>2. \/ f.plan = "high_only" /\ f.pc = 1 /\ Names2("a", "high")
      \/ f.plan = "both_parts" /\ f.pc = 3 /\ Names2("z0", "low")
      \/ f.plan = "both_parts" /\ f.pc = 6 /\ Names2("a", "high")
  <2>1. Sites("sqr") /\ f.plan # "zsqr"
    BY InnerStep
  <2> QED BY <2>1 DEF Sites, Is
<1> HIDE DEF f, g, b, c, d
<1>3. g.plan = f.plan /\ g.delim = d /\ g.pc = f.pc + 1
  BY <1>1 DEF NextOf, d
<1>4. Hi(d, b) \in Nat /\ Lo(d, b) \in Nat
  BY <1>1, SquaresOfHalves
<1>5. CASE f.plan = "high_only" /\ f.pc = 1 /\ Names2("a", "high")
  <2> DEFINE s == Hi(d, b)
  <2>1. Wanted(f, b, c, "high", s)
    BY <1>5 DEF Wanted, InHigh, d
  <2>2. AsksFor(g, b, c, s, s)
    BY <1>3, <1>5 DEF AsksFor
  <2>3. \A x, v : Wanted(g, b, c, x, v) => After(f, b, c, x, v, "a", HiHi(d, b, b))
    BY <1>1, <1>5, SquareTable DEF d
  <2> HIDE DEF s
  <2>4. Asks(s)
    BY <1>5, <2>1, <2>2, <2>3, Zenon DEF Names2
  <2> QED BY <1>4, <2>4 DEF f, g, b, c, s
<1>6. CASE f.plan = "both_parts" /\ f.pc = 3 /\ Names2("z0", "low")
  <2> DEFINE s == Lo(d, b)
  <2>1. Wanted(f, b, c, "low", s)
    BY <1>6 DEF Wanted, InSquare, d
  <2>2. AsksFor(g, b, c, s, s)
    BY <1>3, <1>6 DEF AsksFor
  <2>3. \A x, v : Wanted(g, b, c, x, v) => After(f, b, c, x, v, "z0", LoLo(d, b, b))
    BY <1>1, <1>6, SquareTable DEF d
  <2> HIDE DEF s
  <2>4. Asks(s)
    BY <1>6, <2>1, <2>2, <2>3, Zenon DEF Names2
  <2> QED BY <1>4, <2>4 DEF f, g, b, c, s
<1>7. CASE f.plan = "both_parts" /\ f.pc = 6 /\ Names2("a", "high")
  <2> DEFINE s == Hi(d, b)
  <2>1. Wanted(f, b, c, "high", s)
    BY <1>7 DEF Wanted, InSquare, d
  <2>2. AsksFor(g, b, c, s, s)
    BY <1>3, <1>7 DEF AsksFor
  <2>3. \A x, v : Wanted(g, b, c, x, v) => After(f, b, c, x, v, "a", HiHi(d, b, b))
    BY <1>1, <1>7, SquareTable DEF d
  <2> HIDE DEF s
  <2>4. Asks(s)
    BY <1>7, <2>1, <2>2, <2>3, Zenon DEF Names2
  <2> QED BY <1>4, <2>4 DEF f, g, b, c, s
<1> QED BY <1>2, <1>5, <1>6, <1>7

(* A new activation knows its operands.                                    *)
LEMMA NewKnows ==
  ASSUME NEW cs, NEW i \in Nat, Len(cs) = i, NEW plan \in {"zmul_ll", "zsqr_ll"}, NEW parts,
         cs[i] = Activation(plan, parts), "b" \in DOMAIN parts,
         NEW x \in Nat, NEW y \in Nat,
         plan = "zmul_ll" => /\ parts["b"].of \in DOMAIN val /\ Reads(val, parts["b"]) = x
                             /\ "c" \in DOMAIN parts
                             /\ parts["c"].of \in DOMAIN val /\ Reads(val, parts["c"]) = y,
         plan = "zsqr_ll" => /\ x = y /\ Abs(Reads(val, parts["b"])) = x
                             /\ {"low", "high"} \cap DOMAIN parts = {}
  PROVE  Knows(cs, val, i, x, y)
<1> DEFINE f == cs[i]
<1>1. f.plan = plan /\ f.pc = 0 /\ f.parts = parts
  BY DEF Activation
<1>2. \A k : k \notin i + 1 .. Len(cs)
  OBVIOUS
<1>3. ASSUME NEW z, NEW v, Wanted(f, x, y, z, v)
      PROVE  Sees(cs, val, i, z, v)
  <2>1. plan = "zmul_ll" /\ ((z = "b" /\ v = x) \/ (z = "c" /\ v = y))
    BY <1>1, <1>3 DEF Wanted, InProduct
  <2>2. PartOf(f, i, z) = parts[z]
    BY <1>1, <2>1 DEF PartOf
  <2>3. parts[z].of \in DOMAIN val /\ Reads(val, parts[z]) = v
    BY <2>1
  <2> QED BY <1>2, <2>2, <2>3 DEF Sees
<1> QED BY <1>1, <1>3 DEF Knows

(* An activation that works for another calls zmul_ll.                     *)
LEMMA InnerMultiply ==
  ASSUME StackInv, PlaceInv, ValueInv, Multiply, Depth > 1,
         NEW B, NEW C, Factors(asked, calls, val, B, C)
  PROVE  \E B2, C2 : Factors(asked', calls', val', B2, C2)
<1> DEFINE parts == [a |-> Part(Arg(1)), b |-> Part(Arg(2)), c |-> Part(Arg(3))]
<1>1. At("mul") /\ Call("zmul_ll", parts) /\ UNCHANGED <<val, tempStack, status, asked>>
  BY DEF Multiply
<1>2. PICK u \in Nat, w \in Nat :
        /\ Wanted(Frame, B[Depth], C[Depth], Arg(2), u)
        /\ Wanted(Frame, B[Depth], C[Depth], Arg(3), w)
        /\ AsksFor(Onward(Frame), B[Depth], C[Depth], u, w)
        /\ \E p : \A x, v : Wanted(Onward(Frame), B[Depth], C[Depth], x, v) =>
                    After(Frame, B[Depth], C[Depth], x, v, Arg(1), p)
  BY <1>1, MultiplyAsks
<1>3. PICK p : \A x, v : Wanted(Onward(Frame), B[Depth], C[Depth], x, v) =>
                 After(Frame, B[Depth], C[Depth], x, v, Arg(1), p)
  BY <1>2
<1>4. /\ DOMAIN parts = {"a", "b", "c"} /\ parts["a"] = Part(Arg(1))
      /\ parts["b"] = Part(Arg(2)) /\ parts["c"] = Part(Arg(3))
  OBVIOUS
<1> HIDE DEF parts
<1>5. Knows(calls, val, Depth, B[Depth], C[Depth]) /\ Running /\ Depth \in Nat
  BY <1>1, InnerStep, Innermost
<1>6. /\ Target(Arg(2)) \in DOMAIN val /\ Read(Part(Arg(2))) = u
      /\ Target(Arg(3)) \in DOMAIN val /\ Read(Part(Arg(3))) = w
  BY <1>2, <1>5, HasWanted
<1>7. /\ parts["b"].of \in DOMAIN val /\ Reads(val, parts["b"]) = u
      /\ parts["c"].of \in DOMAIN val /\ Reads(val, parts["c"]) = w
  BY <1>4, <1>6, SameRead DEF Target
<1>8. Depth' = Depth + 1 /\ calls'[Depth + 1] = Activation("zmul_ll", parts)
  BY <1>1, CallStack
<1>9. Knows(calls', val, Depth + 1, u, w)
  <2>1. Len(calls') = Depth + 1 /\ Depth + 1 \in Nat
    BY <1>5, <1>8 DEF Depth
  <2> QED BY <1>4, <1>7, <1>8, <2>1, NewKnows
<1>10. Depth = 1 => Outer(asked, calls', val)
  BY <1>5
<1>11. Factors(asked', calls', val', With(B, Depth, u), With(C, Depth, w))
  BY <1>1, <1>2, <1>3, <1>4, <1>9, <1>10, CallFactors
<1> QED BY <1>11

(* Or zsqr_ll.                                                             *)
LEMMA InnerSquare ==
  ASSUME StackInv, PlaceInv, ValueInv, Square, Depth > 1,
         NEW B, NEW C, Factors(asked, calls, val, B, C)
  PROVE  \E B2, C2 : Factors(asked', calls', val', B2, C2)
<1> DEFINE parts == [a |-> Part(Arg(1)), b |-> Part(Arg(2))]
<1>1. At("sqr") /\ Call("zsqr_ll", parts) /\ UNCHANGED <<val, tempStack, status, asked>>
  BY DEF Square
<1>2. PICK u \in Nat :
        /\ Wanted(Frame, B[Depth], C[Depth], Arg(2), u)
        /\ AsksFor(Onward(Frame), B[Depth], C[Depth], u, u)
        /\ \E p : \A x, v : Wanted(Onward(Frame), B[Depth], C[Depth], x, v) =>
                    After(Frame, B[Depth], C[Depth], x, v, Arg(1), p)
  BY <1>1, SquareAsks
<1>3. PICK p : \A x, v : Wanted(Onward(Frame), B[Depth], C[Depth], x, v) =>
                 After(Frame, B[Depth], C[Depth], x, v, Arg(1), p)
  BY <1>2
<1>4. DOMAIN parts = {"a", "b"} /\ parts["a"] = Part(Arg(1)) /\ parts["b"] = Part(Arg(2))
  OBVIOUS
<1> HIDE DEF parts
<1>5. Knows(calls, val, Depth, B[Depth], C[Depth]) /\ Running /\ Depth \in Nat
  BY <1>1, InnerStep, Innermost
<1>6. Read(Part(Arg(2))) = u
  BY <1>2, <1>5, HasWanted
<1>7. Abs(Reads(val, parts["b"])) = u /\ {"low", "high"} \cap DOMAIN parts = {}
  <2>1. Reads(val, parts["b"]) = u
    BY <1>4, <1>6, SameRead
  <2>2. Abs(u) = u
    BY DEF Abs
  <2> QED BY <1>4, <2>1, <2>2
<1>8. Depth' = Depth + 1 /\ calls'[Depth + 1] = Activation("zsqr_ll", parts)
  BY <1>1, CallStack
<1>9. Knows(calls', val, Depth + 1, u, u)
  <2>1. Len(calls') = Depth + 1 /\ Depth + 1 \in Nat
    BY <1>5, <1>8 DEF Depth
  <2> QED BY <1>4, <1>7, <1>8, <2>1, NewKnows
<1>10. Depth = 1 => Outer(asked, calls', val)
  BY <1>5
<1>11. Factors(asked', calls', val', With(B, Depth, u), With(C, Depth, u))
  BY <1>1, <1>2, <1>3, <1>4, <1>9, <1>10, CallFactors
<1> QED BY <1>11

-----------------------------------------------------------------------------
(* zmul and zsqr themselves.                                               *)

(* What zmul and zsqr work on are the program's numbers.                   *)
LEMMA OutermostReads ==
  ASSUME StackInv, PlaceInv, ValueInv, Running, Depth = 1, Asking(asked),
         NEW B, NEW C, Factors(asked, calls, val, B, C)
  PROVE  /\ Frame = calls[1] /\ Len(calls) = 1 /\ Outermost(Frame) /\ Activated(Frame)
         /\ Frame.plan = asked.fn /\ asked.fn \in {"zmul", "zsqr"}
         /\ \A x \in {"a", "b", "c"} : /\ Part(x) = Whole(asked[x]) /\ Target(x) = asked[x]
                                       /\ asked[x] \in Reg /\ asked[x] \in DOMAIN val
                                       /\ Read(Part(x)) = val[asked[x]]
         /\ asked.was \in [Reg -> Int] /\ Reg \subseteq DOMAIN val
         /\ B[1] = Abs(asked.was[asked.b]) /\ C[1] = Abs(asked.was[asked.c])
         /\ Outer(asked, calls, val)
         /\ \A v : Expected(asked, Frame, v) => \A n \in Reg : val[n] = v[n]
<1>1. /\ Frame = calls[1] /\ Len(calls) = 1 /\ 1 \in 1 .. Depth
  BY DEF Frame, Depth
<1>2. Outermost(Frame) /\ Activated(Frame)
  BY <1>1, Innermost DEF ValueInv, Served
<1>3. /\ Frame.plan = asked.fn /\ asked.fn \in {"zmul", "zsqr"}
      /\ Frame.parts = [a |-> Whole(asked.a), b |-> Whole(asked.b), c |-> Whole(asked.c)]
  BY <1>2 DEF Outermost
<1>4. asked.was \in [Reg -> Int] /\ Reg \subseteq DOMAIN val
  BY DEF Asking, PlaceInv, Numbers
<1>5. ASSUME NEW x \in {"a", "b", "c"}
      PROVE  /\ Part(x) = Whole(asked[x]) /\ Target(x) = asked[x]
             /\ asked[x] \in Reg /\ asked[x] \in DOMAIN val
             /\ Read(Part(x)) = val[asked[x]]
  <2>1. asked[x] \in Reg
    BY DEF ValueInv, Asked
  <2>2. Part(x) = Whole(asked[x])
    BY <1>3 DEF Part
  <2>3. Target(x) = asked[x]
    BY <2>2, WholePiece DEF Target
  <2>4. Read(Part(x)) = val[asked[x]]
    BY <2>2, SameRead
  <2> QED BY <1>4, <2>1, <2>2, <2>3, <2>4
<1>6. /\ B[1] = Abs(asked.was[asked.b]) /\ C[1] = Abs(asked.was[asked.c])
      /\ Outer(asked, calls, val)
  BY DEF Factors
<1>7. \A v : Expected(asked, Frame, v) => \A n \in Reg : val[n] = v[n]
  <2>1. ~ (Len(calls) > 1)
    BY <1>1
  <2> QED BY <1>1, <1>6, <2>1 DEF Outer
<1> QED BY <1>1, <1>2, <1>3, <1>4, <1>5, <1>6, <1>7

(* A step of theirs is right when the program's numbers are.               *)
LEMMA OuterOn ==
  ASSUME StackInv, Running, Depth = 1, NEW B, NEW C, Factors(asked, calls, val, B, C),
         NEW g, calls' = [calls EXCEPT ![Depth] = g], asked' = asked,
         \A v : Expected(asked, g, v) => \A n \in Reg : val'[n] = v[n],
         g.plan = "zmul" /\ g.pc > 1 => g.signs["b"] = Sign(asked.was[asked.b]),
         g.plan = "zmul" /\ g.pc > 2 => g.signs["c"] = Sign(NoB(asked)[asked.c])
  PROVE  Factors(asked', calls', val', B, C)
<1>1. Len(calls) = 1 /\ Len(calls') = 1 /\ calls'[1] = g
  BY InnermostReplaced DEF Depth
<1>2. Outer(asked', calls', val')
  BY <1>1 DEF Outer
<1>3. /\ \A i \in 1 .. Len(calls') : B[i] \in Nat /\ C[i] \in Nat
      /\ B[1] = Abs(asked'.was[asked'.b]) /\ C[1] = Abs(asked'.was[asked'.c])
  BY <1>1 DEF Factors
<1>4. \A n : n = 1 => 2 .. n = {} /\ 1 .. n - 1 = {}
  OBVIOUS
<1>5. 2 .. Len(calls') = {} /\ 1 .. Len(calls') - 1 = {}
  BY <1>1, <1>4, Zenon
<1> QED BY <1>2, <1>3, <1>4, <1>5 DEF Factors

(* zmul and zsqr begin.                                                    *)
LEMMA EnterZmulFactors ==
  ASSUME StackInv, PlaceInv, ValueInv, EnterZmul, Asking(asked), Depth = 1,
         NEW B, NEW C, Factors(asked, calls, val, B, C)
  PROVE  Factors(asked', calls', val', B, C)
<1> DEFINE g == Onward(Frame)
<1>1. Running /\ Activated(Frame) /\ Frame.pc = 0 /\ Frame.plan \in {"zmul", "zsqr"}
  BY AtEntry DEF EnterZmul
<1>2. calls' = [calls EXCEPT ![Depth] = g] /\ asked' = asked /\ val' = val
  BY DEF EnterZmul, Proceed, Onward, Frame
<1>3. g.plan = Frame.plan /\ g.pc = 1
  BY <1>1 DEF Onward, Activated, Fields
<1> HIDE DEF g
<1>4. ASSUME NEW v, Expected(asked, g, v), NEW n \in Reg
      PROVE  val'[n] = v[n]
  <2>1. Expected(asked, Frame, v)
    BY <1>1, <1>3, <1>4 DEF Expected
  <2> QED BY <1>1, <1>2, <2>1, OutermostReads
<1>5. ~ (g.pc > 1) /\ ~ (g.pc > 2)
  BY <1>3
<1> QED BY <1>1, <1>2, <1>4, <1>5, OuterOn

(* zmul takes the sign of its first operand away, and of the second.       *)
LEMMA TakeSignFactors ==
  ASSUME StackInv, PlaceInv, ValueInv, TakeSign, Asking(asked), Depth = 1,
         NEW B, NEW C, Factors(asked, calls, val, B, C)
  PROVE  Factors(asked', calls', val', B, C)
<1> DEFINE x == Arg(1)
           y == asked[x]
           g == [Frame EXCEPT !.pc = @ + 1, !.signs = Having(@, x, Sign(val[y]))]
<1>1. At("abs") /\ Running
  BY DEF TakeSign, At
<1>2. \/ Frame.plan = "zmul" /\ Frame.pc = 1 /\ x = "b"
      \/ Frame.plan = "zmul" /\ Frame.pc = 2 /\ x = "c"
  <2>1. Sites("abs")
    BY <1>1, KindIs
  <2> QED BY <2>1 DEF Sites, Is, Names1
<1>3. /\ Activated(Frame) /\ asked.was \in [Reg -> Int] /\ Reg \subseteq DOMAIN val
      /\ Target(x) = y /\ y \in Reg /\ Read(Part(x)) = val[y]
      /\ asked.b \in Reg /\ asked.c \in Reg /\ Outer(asked, calls, val) /\ Frame = calls[1]
      /\ \A v : Expected(asked, Frame, v) => \A n \in Reg : val[n] = v[n]
  BY <1>1, <1>2, OutermostReads
<1>4. /\ calls' = [calls EXCEPT ![Depth] = g] /\ asked' = asked
      /\ val' = [val EXCEPT ![y] = Abs(val[y])]
  BY <1>3 DEF TakeSign, Frame
<1>5. /\ g.plan = Frame.plan /\ g.pc = Frame.pc + 1
      /\ g.signs = Having(Frame.signs, x, Sign(val[y]))
  BY <1>3 DEF Activated, Fields
<1>6. /\ g.signs[x] = Sign(val[y])
      /\ \A z \in DOMAIN Frame.signs : z # x => g.signs[z] = Frame.signs[z]
  BY <1>5 DEF Having
<1>7. \A n \in Reg : val'[n] = IF n = y THEN Abs(val[y]) ELSE val[n]
  BY <1>3, <1>4
<1>8. Noted(Frame)
  BY <1>3, <1>1 DEF ValueInv, Served
<1> HIDE DEF g
<1>9. CASE Frame.plan = "zmul" /\ Frame.pc = 1 /\ x = "b"
  <2>1. \A n \in Reg : val[n] = asked.was[n]
    BY <1>3, <1>9 DEF Expected
  <2>2. ASSUME NEW v, Expected(asked, g, v), NEW n \in Reg
        PROVE  val'[n] = v[n]
    <3>1. v = NoB(asked)
      BY <1>5, <1>9, <2>2 DEF Expected
    <3>2. v[n] = IF n = asked.b THEN Abs(asked.was[n]) ELSE asked.was[n]
      BY <1>3, <3>1 DEF NoB
    <3> QED BY <1>3, <1>7, <1>9, <2>1, <3>2
  <2>3. g.signs["b"] = Sign(asked.was[asked.b]) /\ ~ (g.pc > 2)
    BY <1>3, <1>5, <1>6, <1>9, <2>1
  <2> QED BY <1>1, <1>4, <2>2, <2>3, OuterOn
<1>10. CASE Frame.plan = "zmul" /\ Frame.pc = 2 /\ x = "c"
  <2>1. \A n \in Reg : val[n] = NoB(asked)[n]
    BY <1>3, <1>10 DEF Expected
  <2>2. ASSUME NEW v, Expected(asked, g, v), NEW n \in Reg
        PROVE  val'[n] = v[n]
    <3>1. v = NoC(asked)
      BY <1>5, <1>10, <2>2 DEF Expected
    <3>2. v[n] = IF n = asked.c THEN Abs(NoB(asked)[n]) ELSE NoB(asked)[n]
      BY <1>3, <3>1 DEF NoC, NoB
    <3> QED BY <1>3, <1>7, <1>10, <2>1, <3>2
  <2>3. g.signs["c"] = Sign(NoB(asked)[asked.c])
    BY <1>3, <1>6, <1>10, <2>1
  <2>4. g.signs["b"] = Sign(asked.was[asked.b])
    <3>1. Frame.pc > 1
      BY <1>10
    <3>2. "b" \in DOMAIN Frame.signs
      BY <1>8, <1>10, <3>1 DEF Noted
    <3>3. Frame.signs["b"] = Sign(asked.was[asked.b])
      BY <1>3, <1>10, <3>1 DEF Outer
    <3> QED BY <1>6, <1>10, <3>2, <3>3
  <2> QED BY <1>1, <1>4, <2>2, <2>3, <2>4, OuterOn
<1> QED BY <1>2, <1>9, <1>10

(* And gives the signs back.                                               *)
LEMMA GiveSignFactors ==
  ASSUME StackInv, PlaceInv, ValueInv, GiveSign, Asking(asked), Depth = 1,
         NEW B, NEW C, Factors(asked, calls, val, B, C)
  PROVE  Factors(asked', calls', val', B, C)
<1> DEFINE x == Arg(1)
           y == asked[x]
           g == Onward(Frame)
<1>1. At("restore") /\ Running
  BY DEF GiveSign, At
<1>2. \/ Frame.plan = "zmul" /\ Frame.pc = 4 /\ x = "c"
      \/ Frame.plan = "zmul" /\ Frame.pc = 5 /\ x = "b"
  <2>1. Sites("restore")
    BY <1>1, KindIs
  <2> QED BY <2>1 DEF Sites, Is, Names1
<1>3. /\ asked.was \in [Reg -> Int] /\ Reg \subseteq DOMAIN val
      /\ Target(x) = y /\ y \in Reg /\ Read(Part(x)) = val[y]
      /\ asked.a \in Reg /\ asked.b \in Reg /\ asked.c \in Reg
      /\ Outer(asked, calls, val) /\ Frame = calls[1]
      /\ \A v : Expected(asked, Frame, v) => \A n \in Reg : val[n] = v[n]
  BY <1>1, <1>2, OutermostReads
<1>4. /\ calls' = [calls EXCEPT ![Depth] = g] /\ asked' = asked
      /\ val' = [val EXCEPT ![y] = Frame.signs[x] * Abs(val[y])]
  BY <1>3 DEF GiveSign, Resign, Store, Proceed, Onward, Frame
<1>5. g.plan = Frame.plan /\ g.pc = Frame.pc + 1 /\ g.signs = Frame.signs
  BY <1>1, OnwardIs
<1>6. \A n \in Reg : val'[n] = IF n = y THEN Frame.signs[x] * Abs(val[y]) ELSE val[n]
  BY <1>3, <1>4
<1> HIDE DEF g
<1>7. /\ Frame.signs["b"] = Sign(asked.was[asked.b])
      /\ Frame.signs["c"] = Sign(NoB(asked)[asked.c])
  <2>1. Frame.pc > 1 /\ Frame.pc > 2 /\ Frame.plan = "zmul"
    BY <1>2
  <2> QED BY <1>3, <2>1 DEF Outer
<1>8. ASSUME NEW v, Expected(asked, g, v), NEW n \in Reg
      PROVE  val'[n] = v[n]
  <2>1. CASE Frame.plan = "zmul" /\ Frame.pc = 4 /\ x = "c"
    <3>1. \A m \in Reg : val[m] = Stored(asked)[m]
      BY <1>3, <2>1 DEF Expected
    <3>2. v = HasC(asked)
      BY <1>5, <1>8, <2>1 DEF Expected
    <3>3. v[n] = IF n = asked.c THEN Sign(NoB(asked)[asked.c]) * Abs(Stored(asked)[n])
                 ELSE Stored(asked)[n]
      BY <1>3, <3>2 DEF HasC, Stored, NoC, NoB
    <3> QED BY <1>3, <1>6, <1>7, <2>1, <3>1, <3>3
  <2>2. CASE Frame.plan = "zmul" /\ Frame.pc = 5 /\ x = "b"
    <3>1. \A m \in Reg : val[m] = HasC(asked)[m]
      BY <1>3, <2>2 DEF Expected
    <3>2. v = HasB(asked)
      BY <1>5, <1>8, <2>2 DEF Expected
    <3>3. v[n] = IF n = asked.b THEN Sign(asked.was[asked.b]) * Abs(HasC(asked)[n])
                 ELSE HasC(asked)[n]
      BY <1>3, <3>2 DEF HasB, HasC, Stored, NoC, NoB
    <3> QED BY <1>3, <1>6, <1>7, <2>2, <3>1, <3>3
  <2> QED BY <1>2, <2>1, <2>2
<1> QED BY <1>1, <1>4, <1>5, <1>7, <1>8, OuterOn

(* Two signs and a magnitude.                                              *)
LEMMA TwoSigns ==
  ASSUME NEW m \in Nat, NEW s \in {-1, 0, 1}, NEW t \in {-1, 0, 1}
  PROVE  /\ s = 0 \/ t = 0 => (m * s) * t = 0
         /\ s # 0 /\ t # 0 => (m * s) * t = IF s = t THEN m ELSE - m
<1>1. CASE s = 0
  BY <1>1
<1>2. CASE s = 1
  <2>1. m * s = m
    BY <1>2
  <2> QED BY <1>2, <2>1
<1>3. CASE s = -1
  <2>1. m * s = - m
    BY <1>3
  <2> QED BY <1>3, <2>1
<1> QED BY <1>1, <1>2, <1>3

(* A product with the signs of its factors, whichever of them it has       *)
(* overwritten.                                                            *)
LEMMA SignedProduct ==
  ASSUME NEW u \in Int, NEW w \in Int, NEW m, m = Abs(u) * Abs(w)
  PROVE  /\ m \in Nat
         /\ (Abs(m) * Sign(u)) * Sign(w) = u * w
         /\ \A x : x = Sign(u) * Abs(m) => (Abs(x) * Sign(x)) * Sign(w) = u * w
         /\ \A x : x = Sign(w) * Abs(m) => (Abs(x) * Sign(u)) * Sign(x) = u * w
         /\ \A x : u = w /\ x = Sign(u) * Abs(Sign(Abs(u)) * Abs(m)) =>
              (Abs(x) * Sign(x)) * Sign(x) = u * w
<1> DEFINE p == Abs(u)
           q == Abs(w)
           s == Sign(u)
           t == Sign(w)
<1>1. /\ p \in Nat /\ q \in Nat /\ s \in {-1, 0, 1} /\ t \in {-1, 0, 1}
      /\ (s = 1 => u = p) /\ (s = -1 => u = - p) /\ (s = 0 => u = 0 /\ p = 0)
      /\ (t = 1 => w = q) /\ (t = -1 => w = - q) /\ (t = 0 => w = 0 /\ q = 0)
      /\ (s # 0 => p > 0) /\ (t # 0 => q > 0)
      /\ u = w => s = t
      /\ Sign(p) = IF s = 0 THEN 0 ELSE 1
  BY DEF Abs, Sign
<1> HIDE DEF p, q, s, t
<1>2. m = p * q
  BY DEF p, q
<1>3. m \in Nat /\ (s # 0 /\ t # 0 => m > 0) /\ (s = 0 \/ t = 0 => m = 0)
  <2>1. p * q \in Nat /\ (p > 0 /\ q > 0 => p * q > 0) /\ (p = 0 \/ q = 0 => p * q = 0)
    BY <1>1
  <2> QED BY <1>1, <1>2, <2>1
<1>4. /\ s = t /\ s # 0 => u * w = m
      /\ s # t /\ s # 0 /\ t # 0 => u * w = - m
      /\ s = 0 \/ t = 0 => u * w = 0
  <2>1. (- p) * (- q) = p * q /\ (- p) * q = - (p * q) /\ p * (- q) = - (p * q)
    BY <1>1
  <2>2. 0 * w = 0 /\ u * 0 = 0
    OBVIOUS
  <2> QED BY <1>1, <1>2, <2>1, <2>2
<1>5. \A k \in {-1, 0, 1} : /\ Abs(k * m) = (IF k = 0 THEN 0 ELSE m)
                            /\ Sign(k * m) = (IF m = 0 THEN 0 ELSE k)
  BY <1>3 DEF Abs, Sign
<1>6. Abs(m) = m
  BY <1>3 DEF Abs
<1>7. \A k, l \in {-1, 0, 1} : /\ k = 0 \/ l = 0 => (m * k) * l = 0
                              /\ k # 0 /\ l # 0 => (m * k) * l = IF k = l THEN m ELSE - m
  BY <1>3, TwoSigns
<1>8. (m * s) * t = u * w
  BY <1>1, <1>4, <1>7
<1>9. ASSUME NEW x, x = s * m
      PROVE  (Abs(x) * Sign(x)) * t = u * w
  <2>1. CASE m = 0
    <3>1. Abs(x) = 0 /\ u * w = 0 /\ Sign(x) = 0
      BY <1>1, <1>3, <1>4, <1>5, <1>9, <2>1
    <3>2. (0 * 0) * t = 0
      BY <1>1
    <3> QED BY <3>1, <3>2
  <2>2. CASE m # 0
    <3>1. s # 0 /\ Abs(x) = m /\ Sign(x) = s
      BY <1>1, <1>3, <1>5, <1>9, <2>2
    <3> QED BY <1>8, <3>1
  <2> QED BY <2>1, <2>2
<1>10. ASSUME NEW x, x = t * m
       PROVE  (Abs(x) * s) * Sign(x) = u * w
  <2>1. CASE m = 0
    <3>1. Abs(x) = 0 /\ u * w = 0 /\ Sign(x) = 0
      BY <1>1, <1>3, <1>4, <1>5, <1>10, <2>1
    <3>2. (0 * s) * 0 = 0
      BY <1>1
    <3> QED BY <3>1, <3>2
  <2>2. CASE m # 0
    <3>1. t # 0 /\ Abs(x) = m /\ Sign(x) = t
      BY <1>1, <1>3, <1>5, <1>10, <2>2
    <3> QED BY <1>8, <3>1
  <2> QED BY <2>1, <2>2
<1>11. ASSUME NEW x, u = w, x = s * Abs(Sign(p) * m)
       PROVE  (Abs(x) * Sign(x)) * Sign(x) = u * w
  <2>1. s = t
    BY <1>1, <1>11
  <2>2. Abs(Sign(p) * m) = m
    <3>1. Sign(p) = 1 \/ (Sign(p) = 0 /\ s = 0)
      BY <1>1
    <3> QED BY <1>3, <1>5, <3>1
  <2>3. x = s * m
    BY <1>11, <2>2
  <2>4. (Abs(x) * Sign(x)) * t = u * w
    BY <1>9, <2>3
  <2>5. CASE m = 0
    <3>1. Abs(x) = 0 /\ u * w = 0 /\ Sign(x) = 0
      BY <1>1, <1>3, <1>4, <1>5, <2>3, <2>5
    <3>2. (0 * 0) * 0 = 0
      OBVIOUS
    <3> QED BY <3>1, <3>2
  <2>6. CASE m # 0
    <3>1. Sign(x) = s
      BY <1>1, <1>5, <2>3, <2>6
    <3> QED BY <2>1, <2>4, <3>1
  <2> QED BY <2>5, <2>6
<1>12. \A x : x = s * Abs(m) => (Abs(x) * Sign(x)) * t = u * w
  BY <1>6, <1>9
<1>13. \A x : x = t * Abs(m) => (Abs(x) * s) * Sign(x) = u * w
  BY <1>6, <1>10
<1>14. \A x : u = w /\ x = s * Abs(Sign(p) * Abs(m)) => (Abs(x) * Sign(x)) * Sign(x) = u * w
  BY <1>6, <1>11
<1>15. (Abs(m) * s) * t = u * w
  BY <1>6, <1>8
<1> QED BY <1>3, <1>12, <1>13, <1>14, <1>15, Zenon DEF s, t, p

(* What the operands and the destination are when the signs are given      *)
(* back.                                                                   *)
LEMMA SignsGivenBack ==
  ASSUME ValueInv, Asking(asked), NEW u, NEW w, NEW m,
         u = asked.was[asked.b], w = asked.was[asked.c], m = Abs(u) * Abs(w)
  PROVE  /\ \A n \in Reg : n # asked.a => HasB(asked)[n] = asked.was[n]
         /\ asked.a \notin {asked.b, asked.c} => HasB(asked)[asked.a] = m
         /\ asked.a = asked.b /\ asked.a # asked.c =>
              HasB(asked)[asked.a] = Sign(u) * Abs(m)
         /\ asked.a = asked.c /\ asked.a # asked.b =>
              HasB(asked)[asked.a] = Sign(w) * Abs(m)
         /\ asked.a = asked.b /\ asked.a = asked.c =>
              HasB(asked)[asked.a] = Sign(u) * Abs(Sign(Abs(u)) * Abs(m))
<1> DEFINE a == asked.a
           b == asked.b
           c == asked.c
           was == asked.was
<1>1. a \in Reg /\ b \in Reg /\ c \in Reg /\ was \in [Reg -> Int]
  BY DEF ValueInv, Asked, Asking
<1>2. /\ NoB(asked) = [was EXCEPT ![b] = Abs(@)]
      /\ NoC(asked) = [NoB(asked) EXCEPT ![c] = Abs(@)]
      /\ Stored(asked) = [NoC(asked) EXCEPT ![a] = m]
      /\ HasC(asked) = [Stored(asked) EXCEPT ![c] = Sign(NoB(asked)[c]) * Abs(@)]
      /\ HasB(asked) = [HasC(asked) EXCEPT ![b] = Sign(u) * Abs(@)]
  BY DEF NoB, NoC, Stored, HasC, HasB
<1> HIDE DEF a, b, c, was
<1>3. \A n \in Reg : NoB(asked)[n] = IF n = b THEN Abs(was[n]) ELSE was[n]
  BY <1>1, <1>2
<1>4. \A n \in Reg : NoC(asked)[n] = IF n = c THEN Abs(NoB(asked)[n]) ELSE NoB(asked)[n]
  BY <1>1, <1>2
<1>5. \A n \in Reg : Stored(asked)[n] = IF n = a THEN m ELSE NoC(asked)[n]
  BY <1>1, <1>2
<1>6. \A n \in Reg : HasC(asked)[n] =
        IF n = c THEN Sign(NoB(asked)[c]) * Abs(Stored(asked)[n]) ELSE Stored(asked)[n]
  BY <1>1, <1>2
<1>7. \A n \in Reg : HasB(asked)[n] =
        IF n = b THEN Sign(u) * Abs(HasC(asked)[n]) ELSE HasC(asked)[n]
  BY <1>1, <1>2
<1>8. \A v \in Int : /\ Abs(Abs(v)) = Abs(v) /\ Sign(v) * Abs(v) = v
                     /\ Sign(Abs(v)) * Abs(v) = Abs(v)
  BY DEF Abs, Sign
<1>9. u = was[b] /\ w = was[c] /\ u \in Int /\ w \in Int
  BY <1>1 DEF was, b, c
<1>10. ASSUME NEW n \in Reg, n # a
       PROVE  HasB(asked)[n] = was[n]
  <2>1. Stored(asked)[n] = NoC(asked)[n] /\ was[n] \in Int
    BY <1>1, <1>5, <1>10
  <2>2. CASE n = b /\ n = c
    <3>1. Stored(asked)[n] = Abs(was[n]) /\ NoB(asked)[c] = Abs(was[n])
      BY <1>3, <1>4, <1>8, <2>1, <2>2
    <3>2. HasC(asked)[n] = Sign(Abs(was[n])) * Abs(Abs(was[n]))
      BY <1>6, <2>2, <3>1
    <3>3. HasC(asked)[n] = Abs(was[n])
      BY <1>8, <2>1, <3>2
    <3>4. HasB(asked)[n] = Sign(was[n]) * Abs(Abs(was[n]))
      BY <1>7, <1>9, <2>2, <3>3
    <3> QED BY <1>8, <2>1, <3>4
  <2>3. CASE n = b /\ n # c
    <3>1. HasC(asked)[n] = Abs(was[n])
      BY <1>3, <1>4, <1>6, <2>1, <2>3
    <3>2. HasB(asked)[n] = Sign(was[n]) * Abs(Abs(was[n]))
      BY <1>7, <1>9, <2>3, <3>1
    <3> QED BY <1>8, <2>1, <3>2
  <2>4. CASE n # b /\ n = c
    <3>1. NoB(asked)[c] = was[n] /\ Stored(asked)[n] = Abs(was[n])
      BY <1>3, <1>4, <2>1, <2>4
    <3>2. HasB(asked)[n] = Sign(was[n]) * Abs(Abs(was[n]))
      BY <1>6, <1>7, <2>4, <3>1
    <3> QED BY <1>8, <2>1, <3>2
  <2>5. CASE n # b /\ n # c
    BY <1>3, <1>4, <1>6, <1>7, <2>1, <2>5
  <2> QED BY <2>2, <2>3, <2>4, <2>5
<1>11. Stored(asked)[a] = m
  BY <1>1, <1>5
<1>12. ASSUME a # b, a # c
       PROVE  HasB(asked)[a] = m
  BY <1>1, <1>6, <1>7, <1>11, <1>12
<1>13. ASSUME a = b, a # c
       PROVE  HasB(asked)[a] = Sign(u) * Abs(m)
  BY <1>1, <1>6, <1>7, <1>11, <1>13
<1>14. ASSUME a = c, a # b
       PROVE  HasB(asked)[a] = Sign(w) * Abs(m)
  <2>1. NoB(asked)[c] = w
    BY <1>1, <1>3, <1>9, <1>14
  <2> QED BY <1>1, <1>6, <1>7, <1>11, <1>14, <2>1
<1>15. ASSUME a = b, a = c
       PROVE  HasB(asked)[a] = Sign(u) * Abs(Sign(Abs(u)) * Abs(m))
  <2>1. NoB(asked)[c] = Abs(u)
    BY <1>1, <1>3, <1>9, <1>15
  <2>2. HasC(asked)[a] = Sign(Abs(u)) * Abs(m)
    BY <1>1, <1>6, <1>11, <1>15, <2>1
  <2> QED BY <1>1, <1>7, <1>15, <2>2
<1> QED BY <1>10, <1>12, <1>13, <1>14, <1>15 DEF a, b, c, was

(* zmul gives the product its sign.                                        *)
LEMMA SetSignFactors ==
  ASSUME StackInv, PlaceInv, ValueInv, SetSign, Asking(asked), Depth = 1,
         NEW B, NEW C, Factors(asked, calls, val, B, C)
  PROVE  Factors(asked', calls', val', B, C)
<1> DEFINE a == asked.a
           b == asked.b
           c == asked.c
           u == asked.was[b]
           w == asked.was[c]
           m == Abs(u) * Abs(w)
           H == HasB(asked)
           g == Onward(Frame)
<1>1. At("sign") /\ Running
  BY DEF SetSign, At
<1>2. Frame.plan = "zmul" /\ Frame.pc = 6
  <2>1. Sites("sign")
    BY <1>1, KindIs
  <2> QED BY <2>1 DEF Sites, Is
<1>3. /\ asked.was \in [Reg -> Int] /\ Reg \subseteq DOMAIN val
      /\ a \in Reg /\ b \in Reg /\ c \in Reg /\ Target("a") = a
      /\ Read(Part("a")) = val[a] /\ Read(Part("b")) = val[b] /\ Read(Part("c")) = val[c]
      /\ Outer(asked, calls, val) /\ Frame = calls[1]
      /\ \A v : Expected(asked, Frame, v) => \A n \in Reg : val[n] = v[n]
  BY <1>1, OutermostReads
<1>4. /\ calls' = [calls EXCEPT ![Depth] = g] /\ asked' = asked
      /\ val' = [val EXCEPT ![a] = Abs(val[a]) * Sign(val[b]) * Sign(val[c])]
  BY <1>3 DEF SetSign, Resign, Store, Proceed, Onward, Frame
<1>5. g.plan = "zmul" /\ g.pc = 7 /\ g.signs = Frame.signs
  BY <1>1, <1>2, OnwardIs
<1>6. \A n \in Reg : val[n] = H[n]
  <2>1. Expected(asked, Frame, H)
    BY <1>2 DEF Expected
  <2> QED BY <1>3, <2>1
<1>7. \A n \in Reg : val'[n] = IF n = a THEN (Abs(H[a]) * Sign(H[b])) * Sign(H[c]) ELSE H[n]
  BY <1>3, <1>4, <1>6
<1>8. u \in Int /\ w \in Int
  BY <1>3
<1> HIDE DEF u, w, m, H, g
<1>9. /\ \A n \in Reg : n # a => H[n] = asked.was[n]
      /\ a \notin {b, c} => H[a] = m
      /\ a = b /\ a # c => H[a] = Sign(u) * Abs(m)
      /\ a = c /\ a # b => H[a] = Sign(w) * Abs(m)
      /\ a = b /\ a = c => H[a] = Sign(u) * Abs(Sign(Abs(u)) * Abs(m))
  BY SignsGivenBack DEF u, w, m, H
<1>10. /\ m \in Nat
       /\ (Abs(m) * Sign(u)) * Sign(w) = u * w
       /\ \A x : x = Sign(u) * Abs(m) => (Abs(x) * Sign(x)) * Sign(w) = u * w
       /\ \A x : x = Sign(w) * Abs(m) => (Abs(x) * Sign(u)) * Sign(x) = u * w
       /\ \A x : u = w /\ x = Sign(u) * Abs(Sign(Abs(u)) * Abs(m)) =>
            (Abs(x) * Sign(x)) * Sign(x) = u * w
  <2>1. m = Abs(u) * Abs(w)
    BY DEF m
  <2>2. m \in Nat /\ (Abs(m) * Sign(u)) * Sign(w) = u * w
    BY <1>8, <2>1, SignedProduct
  <2>3. \A x : x = Sign(u) * Abs(m) => (Abs(x) * Sign(x)) * Sign(w) = u * w
    BY <1>8, <2>1, SignedProduct
  <2>4. \A x : x = Sign(w) * Abs(m) => (Abs(x) * Sign(u)) * Sign(x) = u * w
    BY <1>8, <2>1, SignedProduct
  <2>5. \A x : u = w /\ x = Sign(u) * Abs(Sign(Abs(u)) * Abs(m)) =>
           (Abs(x) * Sign(x)) * Sign(x) = u * w
    BY <1>8, <2>1, SignedProduct
  <2> QED BY <2>2, <2>3, <2>4, <2>5, Zenon
<1>11. (b # a => H[b] = u) /\ (c # a => H[c] = w) /\ (b = c => u = w)
  BY <1>3, <1>9 DEF u, w
<1>12. (Abs(H[a]) * Sign(H[b])) * Sign(H[c]) = u * w
  <2>1. CASE a \notin {b, c}
    BY <1>9, <1>10, <1>11, <2>1, Zenon
  <2>2. CASE a = b /\ a # c
    BY <1>9, <1>10, <1>11, <2>2, Zenon
  <2>3. CASE a = c /\ a # b
    BY <1>9, <1>10, <1>11, <2>3, Zenon
  <2>4. CASE a = b /\ a = c
    BY <1>9, <1>10, <1>11, <2>4, Zenon
  <2> QED BY <2>1, <2>2, <2>3, <2>4, Zenon
<1>13. ASSUME NEW v, Expected(asked, g, v), NEW n \in Reg
       PROVE  val'[n] = v[n]
  <2>1. v = Product(asked)
    BY <1>5, <1>13 DEF Expected
  <2>2. v[n] = IF n = a THEN u * w ELSE asked.was[n]
    BY <1>3, <2>1 DEF Product, u, w
  <2> QED BY <1>7, <1>9, <1>12, <2>2
<1>14. g.signs["b"] = Sign(asked.was[asked.b]) /\ g.signs["c"] = Sign(NoB(asked)[asked.c])
  <2>1. Frame.pc > 1 /\ Frame.pc > 2
    BY <1>2
  <2> QED BY <1>2, <1>3, <1>5, <2>1 DEF Outer
<1> QED BY <1>1, <1>4, <1>13, <1>14, OuterOn

(* zsqr makes the square positive, which it is.                            *)
LEMMA SetPositiveFactors ==
  ASSUME StackInv, PlaceInv, ValueInv, SetPositive, Asking(asked), Depth = 1,
         NEW B, NEW C, Factors(asked, calls, val, B, C)
  PROVE  Factors(asked', calls', val', B, C)
<1> DEFINE a == asked.a
           w == asked.was[asked.b]
           g == Onward(Frame)
<1>1. At("positive") /\ Running
  BY DEF SetPositive, At
<1>2. Frame.plan = "zsqr" /\ Frame.pc = 2
  <2>1. Sites("positive")
    BY <1>1, KindIs
  <2> QED BY <2>1 DEF Sites, Is
<1>3. /\ asked.was \in [Reg -> Int] /\ Reg \subseteq DOMAIN val
      /\ a \in Reg /\ asked.b \in Reg /\ asked.b = asked.c
      /\ Target("a") = a /\ Read(Part("a")) = val[a]
      /\ \A v : Expected(asked, Frame, v) => \A n \in Reg : val[n] = v[n]
  BY <1>1, <1>2, OutermostReads DEF Asking
<1>4. /\ calls' = [calls EXCEPT ![Depth] = g] /\ asked' = asked
      /\ val' = [val EXCEPT ![a] = Abs(val[a])]
  BY <1>3 DEF SetPositive, Resign, Store, Proceed, Onward, Frame
<1>5. g.plan = "zsqr" /\ g.pc = 3
  BY <1>1, <1>2, OnwardIs
<1>6. \A n \in Reg : val[n] = Product(asked)[n]
  <2>1. Expected(asked, Frame, Product(asked))
    BY <1>2 DEF Expected
  <2> QED BY <1>3, <2>1
<1>7. Product(asked)[a] = w * w /\ w \in Int
  BY <1>3 DEF Product
<1> HIDE DEF w, g
<1>8. Abs(w * w) = w * w
  <2>1. w * w >= 0 /\ w * w \in Int
    BY <1>7
  <2> QED BY <2>1 DEF Abs
<1>9. ASSUME NEW v, Expected(asked, g, v), NEW n \in Reg
      PROVE  val'[n] = v[n]
  <2>1. v = Product(asked)
    BY <1>5, <1>9 DEF Expected
  <2>2. CASE n = a
    <3>1. val'[n] = Abs(val[a])
      BY <1>3, <1>4, <2>2
    <3> QED BY <1>3, <1>6, <1>7, <1>8, <2>1, <2>2, <3>1
  <2>3. CASE n # a
    BY <1>3, <1>4, <1>6, <2>1, <2>3
  <2> QED BY <2>2, <2>3
<1> QED BY <1>1, <1>4, <1>5, <1>9, OuterOn

(* zmul calls zmul_ll with the magnitudes.                                 *)
LEMMA OuterMultiply ==
  ASSUME StackInv, PlaceInv, ValueInv, Multiply, Asking(asked), Depth = 1,
         NEW B, NEW C, Factors(asked, calls, val, B, C)
  PROVE  \E B2, C2 : Factors(asked', calls', val', B2, C2)
<1> DEFINE parts == [a |-> Part(Arg(1)), b |-> Part(Arg(2)), c |-> Part(Arg(3))]
           g == Onward(Frame)
           x == B[Depth]
           y == C[Depth]
<1>1. /\ At("mul") /\ Running /\ Call("zmul_ll", parts)
      /\ UNCHANGED <<val, tempStack, status, asked>>
  BY DEF Multiply, At
<1>2. /\ Frame = calls[1] /\ Len(calls) = 1 /\ Frame.plan \in {"zmul", "zsqr"}
      /\ Part("b") = Whole(asked.b) /\ Part("c") = Whole(asked.c)
      /\ asked.a \in Reg /\ asked.b \in Reg /\ asked.c \in Reg
      /\ asked.was \in [Reg -> Int] /\ Reg \subseteq DOMAIN val
      /\ B[1] = Abs(asked.was[asked.b]) /\ C[1] = Abs(asked.was[asked.c])
      /\ Outer(asked, calls, val)
      /\ \A v : Expected(asked, Frame, v) => \A n \in Reg : val[n] = v[n]
  BY <1>1, OutermostReads
<1>3. Frame.plan = "zmul" /\ Frame.pc = 3 /\ Names3("a", "b", "c")
  <2>1. Sites("mul")
    BY <1>1, KindIs
  <2> QED BY <1>2, <2>1 DEF Sites, Is
<1>4. /\ DOMAIN parts = {"a", "b", "c"} /\ parts["a"] = Part(Arg(1))
      /\ parts["b"] = Whole(asked.b) /\ parts["c"] = Whole(asked.c)
  BY <1>2, <1>3 DEF Names3
<1> HIDE DEF parts
<1>5. g.plan = "zmul" /\ g.pc = 4 /\ g.signs = Frame.signs
  BY <1>1, <1>3, OnwardIs
<1>6. /\ Depth' = 2 /\ calls'[2] = Activation("zmul_ll", parts) /\ calls'[1] = g
  <2>1. /\ Depth' = Depth + 1 /\ calls'[Depth + 1] = Activation("zmul_ll", parts)
        /\ calls'[Depth] = g
    BY <1>1, CallStack
  <2> QED BY <2>1
<1> HIDE DEF g
<1>7. x \in Nat /\ y \in Nat /\ x = Abs(asked.was[asked.b]) /\ y = Abs(asked.was[asked.c])
  BY <1>2 DEF Factors
<1>8. \A n \in Reg : val[n] = NoC(asked)[n]
  <2>1. Expected(asked, Frame, NoC(asked))
    BY <1>3 DEF Expected
  <2> QED BY <1>2, <2>1
<1>9. val[asked.b] = x /\ val[asked.c] = y
  <2>1. \A n \in Reg : /\ NoB(asked)[n] = IF n = asked.b THEN Abs(asked.was[n]) ELSE asked.was[n]
                       /\ NoC(asked)[n] = IF n = asked.c THEN Abs(NoB(asked)[n]) ELSE NoB(asked)[n]
    BY <1>2 DEF NoC, NoB
  <2>2. \A v \in Int : Abs(Abs(v)) = Abs(v)
    BY DEF Abs
  <2>3. asked.was[asked.b] \in Int /\ asked.was[asked.c] \in Int
    BY <1>2
  <2> QED BY <1>2, <1>7, <1>8, <2>1, <2>2, <2>3
<1>10. Knows(calls', val, Depth + 1, x, y)
  <2>1. Len(calls') = 2 /\ Depth + 1 = 2
    BY <1>6 DEF Depth
  <2>2. Whole(asked.b).of = asked.b /\ Whole(asked.c).of = asked.c
    BY WholePiece
  <2>3. /\ parts["b"].of \in DOMAIN val /\ Reads(val, parts["b"]) = x
        /\ parts["c"].of \in DOMAIN val /\ Reads(val, parts["c"]) = y
    BY <1>2, <1>4, <1>9, <2>2, SameRead
  <2> HIDE DEF x, y
  <2> QED BY <1>4, <1>6, <1>7, <2>1, <2>3, NewKnows
<1>11. AsksFor(g, B[Depth], C[Depth], x, y)
  BY <1>5 DEF AsksFor
<1>12. Outer(asked, calls', val)
  <2>1. ASSUME NEW v, Expected(asked, g, v), NEW n \in Reg, n # asked.a
        PROVE  val[n] = v[n]
    <3>1. v = Stored(asked)
      BY <1>5, <2>1 DEF Expected
    <3>2. v[n] = NoC(asked)[n]
      BY <1>2, <2>1, <3>1 DEF Stored, NoC, NoB
    <3> QED BY <1>8, <3>2
  <2>2. Len(calls') > 1
    BY <1>6 DEF Depth
  <2>3. Frame.pc > 1 /\ Frame.pc > 2
    BY <1>3
  <2>4. g.signs["b"] = Sign(asked.was[asked.b]) /\ g.signs["c"] = Sign(NoB(asked)[asked.c])
    BY <1>2, <1>3, <1>5, <2>3 DEF Outer
  <2> QED BY <1>6, <2>1, <2>2, <2>4 DEF Outer
<1>13. ~ (Depth > 1)
  OBVIOUS
<1> HIDE DEF x, y
<1>14. Factors(asked', calls', val', With(B, Depth, x), With(C, Depth, y))
  BY <1>1, <1>4, <1>7, <1>10, <1>11, <1>12, <1>13, CallFactors DEF g
<1> QED BY <1>14

(* zsqr calls zsqr_ll, which takes the sign away.                          *)
LEMMA OuterSquare ==
  ASSUME StackInv, PlaceInv, ValueInv, Square, Asking(asked), Depth = 1,
         NEW B, NEW C, Factors(asked, calls, val, B, C)
  PROVE  \E B2, C2 : Factors(asked', calls', val', B2, C2)
<1> DEFINE parts == [a |-> Part(Arg(1)), b |-> Part(Arg(2))]
           g == Onward(Frame)
           x == B[Depth]
<1>1. /\ At("sqr") /\ Running /\ Call("zsqr_ll", parts)
      /\ UNCHANGED <<val, tempStack, status, asked>>
  BY DEF Square, At
<1>2. /\ Frame = calls[1] /\ Len(calls) = 1 /\ Frame.plan \in {"zmul", "zsqr"}
      /\ Part("b") = Whole(asked.b) /\ asked.a \in Reg /\ asked.b \in Reg
      /\ asked.was \in [Reg -> Int] /\ Reg \subseteq DOMAIN val
      /\ B[1] = Abs(asked.was[asked.b])
      /\ \A v : Expected(asked, Frame, v) => \A n \in Reg : val[n] = v[n]
  BY <1>1, OutermostReads
<1>3. Frame.plan = "zsqr" /\ Frame.pc = 1 /\ Names2("a", "b")
  <2>1. Sites("sqr")
    BY <1>1, KindIs
  <2> QED BY <1>2, <2>1 DEF Sites, Is
<1>4. DOMAIN parts = {"a", "b"} /\ parts["a"] = Part(Arg(1)) /\ parts["b"] = Whole(asked.b)
  BY <1>2, <1>3 DEF Names2
<1> HIDE DEF parts
<1>5. g.plan = "zsqr" /\ g.pc = 2
  BY <1>1, <1>3, OnwardIs
<1>6. /\ Depth' = 2 /\ calls'[2] = Activation("zsqr_ll", parts) /\ calls'[1] = g
  <2>1. /\ Depth' = Depth + 1 /\ calls'[Depth + 1] = Activation("zsqr_ll", parts)
        /\ calls'[Depth] = g
    BY <1>1, CallStack
  <2> QED BY <2>1
<1> HIDE DEF g
<1>7. x \in Nat /\ x = Abs(asked.was[asked.b])
  BY <1>2 DEF Factors
<1>8. \A n \in Reg : val[n] = asked.was[n]
  <2>1. Expected(asked, Frame, asked.was)
    BY <1>3 DEF Expected
  <2> QED BY <1>2, <2>1
<1>9. Knows(calls', val, Depth + 1, x, x)
  <2>1. Len(calls') = 2 /\ Depth + 1 = 2
    BY <1>6 DEF Depth
  <2>2. Abs(Reads(val, parts["b"])) = x /\ {"low", "high"} \cap DOMAIN parts = {}
    BY <1>2, <1>4, <1>7, <1>8, SameRead
  <2> HIDE DEF x
  <2> QED BY <1>4, <1>6, <1>7, <2>1, <2>2, NewKnows
<1>10. AsksFor(g, B[Depth], C[Depth], x, x)
  BY <1>5 DEF AsksFor
<1>11. Outer(asked, calls', val)
  <2>1. ASSUME NEW v, Expected(asked, g, v), NEW n \in Reg, n # asked.a
        PROVE  val[n] = v[n]
    <3>1. v = Product(asked)
      BY <1>5, <2>1 DEF Expected
    <3>2. v[n] = asked.was[n]
      BY <1>2, <2>1, <3>1 DEF Product
    <3> QED BY <1>8, <3>2
  <2>2. Len(calls') > 1 /\ g.plan # "zmul"
    BY <1>5, <1>6 DEF Depth
  <2> QED BY <1>6, <2>1, <2>2 DEF Outer
<1>12. ~ (Depth > 1)
  OBVIOUS
<1> HIDE DEF x
<1>13. Factors(asked', calls', val', With(B, Depth, x), With(C, Depth, x))
  BY <1>1, <1>4, <1>7, <1>9, <1>10, <1>11, <1>12, CallFactors DEF g
<1> QED BY <1>13

(* When the outermost activation returns, the program's numbers are all    *)
(* that is left.                                                           *)
LEMMA OnlyNumbersLeft ==
  ASSUME StackInv, PlaceInv, Running, Depth = 1
  PROVE  Outlive = Reg
<1>1. Reg \subseteq DOMAIN val
  BY DEF PlaceInv, Numbers
<1>2. ASSUME NEW n \in DOMAIN val, n \notin Reg
      PROVE  ~ (n[1] < Depth)
  <2>1. n \in (1 .. Depth) \X Locals
    BY <1>2 DEF PlaceInv, Numbers
  <2> QED BY <2>1
<1> QED BY <1>1, <1>2 DEF Outlive

(* The square of nothing.                                                  *)
LEMMA NothingSquared ==
  ASSUME StackInv, PlaceInv, ValueInv, SquareNothing, Asking(asked), Depth = 1,
         NEW B, NEW C, Factors(asked, calls, val, B, C)
  PROVE  val' = Product(asked)
<1> DEFINE a == asked.a
           b == asked.b
<1>1. Running /\ Frame.pc = 0 /\ Frame.plan = "zsqr" /\ Entering
  BY AtEntry DEF SquareNothing
<1>2. /\ asked.was \in [Reg -> Int] /\ a \in Reg /\ b \in Reg /\ asked.b = asked.c
      /\ Target("a") = a /\ Read(Part("b")) = val[b]
      /\ \A v : Expected(asked, Frame, v) => \A n \in Reg : val[n] = v[n]
  BY <1>1, OutermostReads DEF Asking
<1>3. DOMAIN val = Reg /\ val = [n \in DOMAIN val |-> val[n]]
  BY <1>1, NoLocals, OnlyNumbersLeft DEF PlaceInv, Numbers
<1>4. val' = [val EXCEPT ![a] = 0] /\ val[b] = 0
  BY <1>2 DEF SquareNothing
<1>5. \A n \in Reg : val[n] = asked.was[n]
  <2>1. Expected(asked, Frame, asked.was)
    BY <1>1 DEF Expected
  <2> QED BY <1>2, <2>1
<1>6. asked.was[asked.b] * asked.was[asked.c] = 0
  BY <1>2, <1>4, <1>5
<1>7. val' = [n \in Reg |-> IF n = a THEN 0 ELSE val[n]]
  BY <1>2, <1>3, <1>4
<1>8. Product(asked) = [n \in Reg |-> IF n = a THEN 0 ELSE asked.was[n]]
  BY <1>2, <1>6 DEF Product
<1> QED BY <1>5, <1>7, <1>8

(* zmul and zsqr return.                                                   *)
LEMMA ProductReturned ==
  ASSUME StackInv, PlaceInv, ValueInv, LeaveFunction, Asking(asked), Depth = 1,
         NEW B, NEW C, Factors(asked, calls, val, B, C)
  PROVE  val' = Product(asked)
<1>1. Finished /\ Running /\ val' = Keeping(val, Outlive)
  BY AtEnd DEF LeaveFunction
<1>2. /\ Frame.plan \in {"zmul", "zsqr"} /\ Activated(Frame)
      /\ asked.was \in [Reg -> Int] /\ asked.a \in Reg
      /\ \A v : Expected(asked, Frame, v) => \A n \in Reg : val[n] = v[n]
  BY <1>1, OutermostReads
<1>3. /\ Frame.plan = "zmul" => Frame.pc = 7
      /\ Frame.plan = "zsqr" => Frame.pc = 3
  <2> DEFINE last == Len(Steps(Frame.plan))
  <2>1. Frame.pc \in Nat /\ Frame.pc > last /\ Frame.pc <= last + 1 /\ Frame.plan \in Plans
    BY <1>1, <1>2 DEF Finished, Activated
  <2>2. /\ Frame.plan = "zmul" => last = 6
        /\ Frame.plan = "zsqr" => last = 2
    BY <2>1, Lengths
  <2> HIDE DEF last
  <2>3. last = 6 => Frame.pc = 7
    BY <2>1
  <2>4. last = 2 => Frame.pc = 3
    BY <2>1
  <2> QED BY <2>2, <2>3, <2>4
<1>4. Expected(asked, Frame, Product(asked))
  BY <1>2, <1>3 DEF Expected
<1>5. \A n \in Reg : val[n] = Product(asked)[n]
  BY <1>2, <1>4
<1>6. val' = [n \in Reg |-> val[n]]
  BY <1>1, OnlyNumbersLeft DEF Keeping
<1>7. Product(asked) = [n \in Reg |-> Product(asked)[n]]
  BY <1>2 DEF Product
<1> QED BY <1>5, <1>6, <1>7

-----------------------------------------------------------------------------
(* The product.                                                            *)

(* Which activations are at which steps.                                   *)
LEMMA WhoseStep ==
  ASSUME StackInv, PlaceInv, ValueInv
  PROVE  /\ \A kind \in {"init", "free", "split", "shift", "add", "sub"} :
              At(kind) => Running /\ Depth > 1
         /\ \A kind \in {"abs", "restore", "sign", "positive"} :
              At(kind) => Running /\ Depth = 1
         /\ \A kind : At(kind) => Running
         /\ Running => Depth = 1 \/ Depth > 1
<1>1. ASSUME Running
      PROVE  /\ Depth = 1 \/ Depth > 1
             /\ Depth = 1 => Frame.plan \in {"zmul", "zsqr"}
             /\ Depth > 1 => Frame.plan \notin {"zmul", "zsqr"}
  <2>1. /\ Serves(Frame, Depth) /\ Depth \in Nat /\ Depth > 0
        /\ Depth = 1 => Outermost(Frame)
    BY <1>1, InnermostPlaced, Innermost
  <2> QED BY <2>1 DEF Serves, Outermost
<1>2. ASSUME NEW kind \in {"init", "free", "split", "shift", "add", "sub"}, At(kind)
      PROVE  Running /\ Depth > 1
  <2>1. Running /\ Sites(kind)
    BY <1>2, KindIs DEF At
  <2>2. Frame.plan \notin {"zmul", "zsqr"}
    BY <1>2, <2>1 DEF Sites, Is
  <2> QED BY <1>1, <2>1, <2>2
<1>3. ASSUME NEW kind \in {"abs", "restore", "sign", "positive"}, At(kind)
      PROVE  Running /\ Depth = 1
  <2>1. Running /\ Sites(kind)
    BY <1>3, KindIs DEF At
  <2>2. Frame.plan \in {"zmul", "zsqr"}
    BY <1>3, <2>1 DEF Sites, Is
  <2> QED BY <1>1, <2>1, <2>2
<1> QED BY <1>1, <1>2, <1>3 DEF At

(* And which at an entry.                                                  *)
LEMMA WhoseEntry ==
  ASSUME StackInv, PlaceInv, ValueInv, Entering
  PROVE  /\ Frame.plan \in {"zmul", "zsqr"} => Depth = 1
         /\ Frame.plan \in {"zmul_ll", "zsqr_ll"} => Depth > 1
<1>1. /\ Serves(Frame, Depth) /\ Depth \in Nat /\ Depth > 0
      /\ Depth = 1 => Outermost(Frame)
  BY InnermostPlaced, Innermost DEF Entering
<1> QED BY <1>1 DEF Serves, Outermost

(* The activations there are after a step multiply what they should.       *)
LEMMA RunsOn ==
  ASSUME FactorInv, Running, UNCHANGED <<asked, status>>,
         \E B, C : Factors(asked', calls', val', B, C)
  PROVE  FactorInv'
BY DEF FactorInv, ProductRight, Running

(* After a failure there is no product, and after a loan it can be wrong.  *)
LEMMA NoProduct ==
  ASSUME FactorInv, asked' = asked, loan' \/ status' \notin {"run", "returned"}
  PROVE  FactorInv'
BY DEF FactorInv, ProductRight

(* The product is returned.                                                *)
LEMMA ProductIsThere ==
  ASSUME FactorInv, asked' = asked, status' = "returned", val' = Product(asked)
  PROVE  FactorInv'
BY DEF FactorInv, ProductRight, Product

(* What multiplies goes on with the factors it has, if it has them before. *)
LEMMA Multiplying ==
  ASSUME FactorInv, Exact, Running
  PROVE  Asking(asked) /\ \E B, C : Factors(asked, calls, val, B, C)
BY DEF FactorInv, Exact, Running

(* The steps of zmul_ll and zsqr_ll.                                       *)
LEMMA InnerSteps ==
  ASSUME StackInv, PlaceInv, ValueInv, UsedInv, FactorInv, Exact,
         InitTemp \/ FreeTemp \/ Split \/ Shift \/ Add \/ Subtract
  PROVE  FactorInv'
<1>1. CASE Fail
  BY <1>1, NoProduct DEF Fail
<1>2. ASSUME ~ Fail
      PROVE  FactorInv'
  <2>1. Running /\ Depth > 1
    BY WhoseStep DEF InitTemp, FreeTemp, Split, Shift, Add, Subtract
  <2>2. PICK B, C : Factors(asked, calls, val, B, C)
    BY <2>1, Multiplying
  <2>3. UNCHANGED <<asked, status>>
    BY <1>2 DEF InitTemp, FreeTemp, Split, Shift, Add, Subtract, Resign, Store, Proceed
  <2>4. Factors(asked', calls', val', B, C)
    BY <1>2, <2>1, <2>2, InitTempFactors, FreeTempFactors, SplitFactors, ShiftFactors,
       AddFactors, SubtractFactors
  <2> QED BY <2>1, <2>3, <2>4, RunsOn
<1> QED BY <1>1, <1>2

(* Those of zmul and zsqr.                                                 *)
LEMMA OuterSteps ==
  ASSUME StackInv, PlaceInv, ValueInv, FactorInv, Exact,
         EnterZmul \/ TakeSign \/ GiveSign \/ SetSign \/ SetPositive
  PROVE  FactorInv'
<1>1. Running /\ Depth = 1
  <2>1. CASE EnterZmul
    <3>1. Entering /\ Frame.plan \in {"zmul", "zsqr"}
      BY <2>1 DEF EnterZmul
    <3> QED BY <3>1, WhoseEntry DEF Entering
  <2>2. CASE TakeSign \/ GiveSign \/ SetSign \/ SetPositive
    BY <2>2, WhoseStep DEF TakeSign, GiveSign, SetSign, SetPositive
  <2> QED BY <2>1, <2>2
<1>2. Asking(asked)
  BY <1>1, Multiplying
<1>3. PICK B, C : Factors(asked, calls, val, B, C)
  BY <1>1, Multiplying
<1>4. UNCHANGED <<asked, status>>
  BY DEF EnterZmul, TakeSign, GiveSign, SetSign, SetPositive, Resign, Store, Proceed
<1>5. Factors(asked', calls', val', B, C)
  BY <1>1, <1>2, <1>3, EnterZmulFactors, TakeSignFactors, GiveSignFactors, SetSignFactors,
     SetPositiveFactors
<1> QED BY <1>1, <1>4, <1>5, RunsOn

(* The calls.                                                              *)
LEMMA Calls ==
  ASSUME StackInv, PlaceInv, ValueInv, FactorInv, Exact, Multiply \/ Square
  PROVE  FactorInv'
<1>1. Running /\ (Depth = 1 \/ Depth > 1)
  BY WhoseStep DEF Multiply, Square
<1>2. Asking(asked)
  BY <1>1, Multiplying
<1>3. PICK B, C : Factors(asked, calls, val, B, C)
  BY <1>1, Multiplying
<1>4. UNCHANGED <<asked, status>>
  BY DEF Multiply, Square
<1>5. \E B2, C2 : Factors(asked', calls', val', B2, C2)
  <2>1. CASE Depth = 1
    BY <1>2, <1>3, <2>1, OuterMultiply, OuterSquare
  <2>2. CASE Depth > 1
    BY <1>3, <2>2, InnerMultiply, InnerSquare
  <2> QED BY <1>1, <2>1, <2>2
<1> QED BY <1>1, <1>4, <1>5, RunsOn

(* zmul_ll and zsqr_ll begin.                                              *)
LEMMA Entries ==
  ASSUME StackInv, PlaceInv, ValueInv, FactorInv, Exact, EnterZmulLl \/ EnterZsqrLl
  PROVE  FactorInv'
<1>1. CASE Fail
  BY <1>1, NoProduct DEF Fail
<1>2. ASSUME ~ Fail
      PROVE  FactorInv'
  <2>1. Running /\ Depth > 1
    <3>1. Entering /\ Frame.plan \in {"zmul_ll", "zsqr_ll"}
      BY DEF EnterZmulLl, EnterZsqrLl
    <3> QED BY <3>1, WhoseEntry DEF Entering
  <2>2. Asking(asked)
    BY <2>1, Multiplying
  <2>3. PICK B, C : Factors(asked, calls, val, B, C)
    BY <2>1, Multiplying
  <2>4. UNCHANGED <<asked, status>>
    <3>1. Depth # 1
      BY <2>1
    <3> QED BY <1>2, <3>1 DEF EnterZmulLl, EnterZsqrLl, Return
  <2>5. Factors(asked', calls', val', B, C)
    BY <1>2, <2>1, <2>2, <2>3, EnterZmulLlFactors, EnterZsqrLlFactors
  <2> QED BY <2>1, <2>4, <2>5, RunsOn
<1> QED BY <1>1, <1>2

(* The returns.                                                            *)
LEMMA Returns ==
  ASSUME StackInv, PlaceInv, ValueInv, FactorInv, Exact, SquareNothing \/ LeaveFunction
  PROVE  FactorInv'
<1>1. Running /\ (Depth = 1 \/ Depth > 1)
  <2>1. Running
    BY DEF SquareNothing, LeaveFunction, Entering, Finished
  <2> QED BY <2>1, WhoseStep
<1>2. Asking(asked)
  BY <1>1, Multiplying
<1>3. PICK B, C : Factors(asked, calls, val, B, C)
  BY <1>1, Multiplying
<1>4. asked' = asked /\ status' = IF Depth = 1 THEN "returned" ELSE status
  BY DEF SquareNothing, LeaveFunction, Return
<1>5. CASE Depth = 1
  <2>1. val' = Product(asked)
    BY <1>1, <1>2, <1>3, <1>5, NothingSquared, ProductReturned
  <2> QED BY <1>4, <1>5, <2>1, ProductIsThere
<1>6. CASE Depth > 1
  <2>1. LeaveFunction
    <3>1. ~ SquareNothing
      <4> SUFFICES ASSUME SquareNothing
                   PROVE  FALSE
        OBVIOUS
      <4>1. Entering /\ Frame.plan \in {"zmul", "zsqr"}
        BY DEF SquareNothing
      <4> QED BY <1>6, <4>1, WhoseEntry
    <3> QED BY <3>1
  <2>2. Factors(asked', calls', val', B, C)
    BY <1>2, <1>3, <1>6, <2>1, LeaveFunctionFactors
  <2>3. status' = status
    BY <1>4, <1>6
  <2> QED BY <1>1, <1>4, <2>2, <2>3, RunsOn
<1> QED BY <1>1, <1>5, <1>6

(* At first the program's numbers are as they were.                        *)
LEMMA InitFactors ==
  ASSUME Init
  PROVE  FactorInv
<1>1. PICK fn \in {"zmul", "zsqr"}, p \in Parameters, v \in [Reg -> Operand \cup {Other}] :
        /\ fn = "zsqr" => p[2] = p[3]
        /\ val = v
        /\ asked = [fn |-> fn, a |-> p[1], b |-> p[2], c |-> p[3], was |-> v]
        /\ calls = << [plan |-> fn, pc |-> 0, delim |-> 0, signs |-> <<>>, height |-> 0,
                       parts |-> [a |-> Whole(p[1]), b |-> Whole(p[2]), c |-> Whole(p[3])]] >>
  BY DEF Init
<1> DEFINE f == calls[1]
<1>2. /\ asked.fn = fn /\ asked.b = p[2] /\ asked.c = p[3] /\ asked.was = v /\ val = v
      /\ p[2] \in Reg /\ p[3] \in Reg
  BY <1>1, ParameterAssumption
<1>3. Len(calls) = 1 /\ f.plan = fn /\ f.pc = 0
  BY <1>1
<1>4. v \in [Reg -> Int]
  BY OperandAssumption
<1>5. Asking(asked)
  BY <1>1, <1>2, <1>4 DEF Asking
<1> HIDE DEF f
<1>6. Outer(asked, calls, val)
  <2>1. \A w : Expected(asked, f, w) => w = v
    BY <1>2, <1>3 DEF Expected
  <2>2. ~ (f.pc > 1) /\ ~ (f.pc > 2)
    BY <1>3
  <2> QED BY <1>2, <2>1, <2>2 DEF Outer, f
<1> DEFINE B == << Abs(v[p[2]]) >>
           C == << Abs(v[p[3]]) >>
<1>7. B[1] = Abs(v[p[2]]) /\ C[1] = Abs(v[p[3]])
  OBVIOUS
<1>8. B[1] \in Nat /\ C[1] \in Nat
  BY <1>2, <1>4, <1>7, SignsAreInts
<1> HIDE DEF B, C
<1>9. Factors(asked, calls, val, B, C)
  <2>1. \A n : n = 1 => 2 .. n = {} /\ 1 .. n - 1 = {} /\ 1 .. n = {1}
    OBVIOUS
  <2>2. 2 .. Len(calls) = {} /\ 1 .. Len(calls) - 1 = {} /\ 1 .. Len(calls) = {1}
    BY <1>3, <2>1, Zenon
  <2> QED BY <1>2, <1>6, <1>7, <1>8, <2>2 DEF Factors
<1>10. status = "run"
  BY DEF Init
<1> QED BY <1>5, <1>9, <1>10 DEF FactorInv, ProductRight

(* What the program asked for, and a limb that has lent, are not forgotten. *)
LEMMA CallStays ==
  ASSUME [Next]_vars
  PROVE  asked' = asked /\ (loan' = loan \/ loan' = TRUE)
<1>1. CASE UNCHANGED vars
  BY <1>1 DEF vars
<1>2. CASE EnterZmul \/ SquareNothing \/ EnterZmulLl \/ EnterZsqrLl \/ LeaveFunction
  BY <1>2 DEF EnterZmul, SquareNothing, EnterZmulLl, EnterZsqrLl, LeaveFunction, Proceed, Return, Fail
<1>3. CASE Multiply \/ Square \/ InitTemp \/ FreeTemp \/ Unwind \/ Longjmp
  BY <1>3 DEF Multiply, Square, InitTemp, FreeTemp, Unwind, Longjmp, Proceed, Fail
<1>4. CASE Split \/ Shift \/ Add
  BY <1>4 DEF Split, Shift, Add, Store, Proceed, Fail
<1>5. CASE Subtract
  BY <1>5 DEF Subtract, Resign, Store, Proceed
<1>6. CASE TakeSign \/ GiveSign \/ SetSign \/ SetPositive
  BY <1>6 DEF TakeSign, GiveSign, SetSign, SetPositive, Resign, Store, Proceed
<1> QED BY <1>1, <1>2, <1>3, <1>4, <1>5, <1>6 DEF Next

(* Every step keeps the factors.                                           *)
LEMMA NextFactors ==
  ASSUME StackInv, PlaceInv, ValueInv, UsedInv, FactorInv, [Next]_vars
  PROVE  FactorInv'
<1>1. CASE UNCHANGED vars
  BY <1>1 DEF vars, FactorInv, ProductRight
<1>2. CASE Unwind \/ Longjmp
  <2>1. asked' = asked /\ status' \notin {"run", "returned"}
    BY <1>2 DEF Unwind, Longjmp
  <2> QED BY <2>1, NoProduct
<1>3. CASE loan'
  <2>1. asked' = asked
    BY CallStays
  <2> QED BY <1>3, <2>1, NoProduct
<1>4. CASE ~ loan' /\ ~ UNCHANGED vars
  <2>1. Exact
    <3>1. loan' = loan
      BY <1>4, CallStays, Zenon
    <3>2. ~ loan
      BY <1>4, <3>1, Zenon
    <3> QED BY <1>4, <3>2 DEF Exact
  <2>2. \/ InitTemp \/ FreeTemp \/ Split \/ Shift \/ Add \/ Subtract
        \/ EnterZmul \/ TakeSign \/ GiveSign \/ SetSign \/ SetPositive
        \/ Multiply \/ Square
        \/ EnterZmulLl \/ EnterZsqrLl
        \/ SquareNothing \/ LeaveFunction
        \/ Unwind \/ Longjmp
    BY <1>4 DEF Next
  <2>3. CASE InitTemp \/ FreeTemp \/ Split \/ Shift \/ Add \/ Subtract
    BY <2>1, <2>3, InnerSteps
  <2>4. CASE EnterZmul \/ TakeSign \/ GiveSign \/ SetSign \/ SetPositive
    BY <2>1, <2>4, OuterSteps
  <2>5. CASE Multiply \/ Square
    BY <2>1, <2>5, Calls
  <2>6. CASE EnterZmulLl \/ EnterZsqrLl
    BY <2>1, <2>6, Entries
  <2>7. CASE SquareNothing \/ LeaveFunction
    BY <2>1, <2>7, Returns
  <2> QED BY <1>2, <2>2, <2>3, <2>4, <2>5, <2>6, <2>7
<1> QED BY <1>1, <1>3, <1>4

(* Whatever the operands, however large, and whichever of the parameters   *)
(* are the same: zmul and zsqr return with the product in the first, and   *)
(* with every other number of the program as it was, unless in one of the  *)
(* differences of zmul_ll an inner limb that is 1 has lent (zsub.c:21).    *)
THEOREM ProductAlwaysRight == Spec => []ProductRight
<1>1. Init => StackInv /\ ValueInv /\ PlaceInv /\ UsedInv /\ FactorInv
  BY InitStack, InitValues, InitPlaces, InitUsed, InitFactors
<1>2. /\ StackInv /\ ValueInv /\ PlaceInv /\ UsedInv /\ FactorInv /\ [Next]_vars
      => StackInv' /\ ValueInv' /\ PlaceInv' /\ UsedInv' /\ FactorInv'
  BY NextStack, NextValues, NextPlaces, NextUsed, NextFactors
<1>3. FactorInv => ProductRight
  BY DEF FactorInv
<1> QED BY <1>1, <1>2, <1>3, PTL DEF Spec
=============================================================================
