---------------------------- MODULE ZahlIntegers ----------------------------
(***************************************************************************)
(* The integers of libzahl: a sign and a sequence of limbs, the lowest     *)
(* first, which may end in limbs that are zero.  The operations are        *)
(* operators on the numbers a program holds (num) and yield what it holds  *)
(* afterwards, for any of their parameters may be the same number, and     *)
(* comparisons trim their operands.  Where a function reads limbs nobody   *)
(* has written the operator yields every outcome.                          *)
(*                                                                         *)
(* Blocks are the subject of ZahlMemory; here they are large enough.       *)
(***************************************************************************)
EXTENDS Integers, Sequences, FiniteSetsExt

CONSTANTS
  Reg,          \* the numbers of the program
  Kept,         \* those whose values the next operation goes on with
  BitsPerChar,  \* bits of a limb                                (64)
  Group,        \* limbs the loops of memory.h copy at once      (4)
  SmallCopy,    \* limbs up to which they copy exactly           (20)
  MaxLimbs,     \* bound: the limbs of all kept values together
  Counts        \* bound: what a shift, a truncation or a bit index counts

ASSUME RegAssumption  == Kept \subseteq Reg
ASSUME BitsAssumption == /\ BitsPerChar \in Nat /\ BitsPerChar >= 1
                         /\ Group \in Nat /\ Group >= 1
                         /\ SmallCopy \in Nat /\ MaxLimbs \in Nat /\ Counts \subseteq Nat

VARIABLE num

Base == 2 ^ BitsPerChar
Limb == 0 .. Base - 1

Number(sign, limbs) == [sign |-> sign, limbs |-> limbs]
(* The limbs of a number whose sign is 0 are not looked at.                *)
Zero == Number(0, <<>>)

IsZero(a) == num[a].sign = 0
Limbs(a)  == num[a].limbs
Used(a)   == Len(num[a].limbs)
At(s, i)  == IF i <= Len(s) THEN s[i] ELSE 0

(* The longer of two sequences, the second one of equals.                  *)
Longer(s, t)  == IF Len(s) > Len(t) THEN s ELSE t
Shorter(s, t) == IF Len(s) > Len(t) THEN t ELSE s

(* s without the zeros at its end beyond its first n limbs: TRIM, and the  *)
(* loops of zbits and zcmpmag.                                             *)
TrimToNothing(s, n) == s  \* mutant: the zeros are kept
TrimTo(s, n) ==
  IF Len(s) <= n THEN s
  ELSE SubSeq(s, 1, Max({n} \cup { k \in n + 1 .. Len(s) : s[k] # 0 }))

Trimmed(n) == Number(n.sign, TrimTo(n.limbs, 0))

(* TRIM_AND_SIGN, and TRIM_AND_ZERO when sign is that of the number.       *)
TrimAndSignKeeping(sign, s) ==  \* mutant: the sign of nothing is kept
  Number(sign, TrimTo(s, 0))
TrimAndSign(sign, s) == IF TrimTo(s, 0) = <<>> THEN Zero
                        ELSE Number(sign, TrimTo(s, 0))

Abs(n) == Number(n.sign * n.sign, n.limbs)
Neg(n) == Number(- n.sign, n.limbs)

Assign(a, n) == { [num EXCEPT ![a] = n] }

-----------------------------------------------------------------------------
(* Comparison.                                                             *)

(* What the operands of zcmpmag, b and c, are after it.                    *)
Compared(b, c) ==
  IF IsZero(b) \/ IsZero(c) THEN num
  ELSE [num EXCEPT ![b].limbs = TrimTo(@, Used(c)), ![c].limbs = TrimTo(@, Used(b))]

(* The comparison of limbs that have been trimmed to each other.           *)
CmpLimbs(s, t) ==
  LET differ == { k \in 1 .. Len(s) : s[k] # t[k] }
      k      == Max(differ)
  IN  IF Len(s) # Len(t) THEN IF Len(s) > Len(t) THEN 1 ELSE -1
      ELSE IF differ = {} THEN 0
      ELSE IF s[k] < t[k] THEN -1 ELSE 1

zcmpmag(b, c) ==
  IF IsZero(b) THEN IF IsZero(c) THEN 0 ELSE -1
  ELSE IF IsZero(c) THEN 1
  ELSE CmpLimbs(Compared(b, c)[b].limbs, Compared(b, c)[c].limbs)

zcmp(b, c) ==
  IF num[b].sign # num[c].sign
  THEN IF num[b].sign < num[c].sign THEN -1 ELSE 1
  ELSE num[b].sign * zcmpmag(b, c)

-----------------------------------------------------------------------------
(* Addition.                                                               *)

CarriesOfPairs(s, t) ==  \* mutant: what is carried in is not carried on
  [i \in 0 .. Len(s) |-> IF i = 0 THEN 0 ELSE (s[i] + At(t, i)) \div Base]
Carries(s, t) ==
  LET carry[i \in 0 .. Len(s)] ==
        IF i = 0 THEN 0 ELSE (s[i] + At(t, i) + carry[i - 1]) \div Base
  IN  carry

(* The limbs of the sum, t not longer than s.  A carry out of the last     *)
(* limb of s is added to the limb above it and leaves there what top says. *)
AddLimbs(s, t, top) ==
  LET carry == Carries(s, t)
  IN  [i \in 1 .. Len(s) |-> (s[i] + At(t, i) + carry[i - 1]) % Base]
      \o IF carry[Len(s)] = 0 THEN <<>> ELSE top

(* That limb has been set to 0, but when the sum is stored in a third      *)
(* number the limbs only one operand has are copied there first: in groups *)
(* if they are many, so that a limb nobody has written may be copied over  *)
(* the 0.                                                                  *)
Tops(a, b, c) ==
  LET copied == Len(Longer(Limbs(b), Limbs(c))) - Len(Shorter(Limbs(b), Limbs(c)))
  IN  IF a \in {b, c} \/ copied <= SmallCopy \/ copied % Group = 0
      THEN { <<1>> }
      ELSE { <<l>> : l \in Limb \ {0} } \cup { <<0, l>> : l \in Limb \ {0} }

zadd_unsigned_assign(a, b) ==
  IF IsZero(a) THEN Assign(a, Abs(num[b]))
  ELSE IF IsZero(b) THEN { num }
  ELSE Assign(a, Number(1, AddLimbs(Longer(Limbs(a), Limbs(b)),
                                    Shorter(Limbs(a), Limbs(b)), <<1>>)))

zadd_unsigned(a, b, c) ==
  IF IsZero(b) THEN Assign(a, Abs(num[c]))
  ELSE IF IsZero(c) THEN Assign(a, Abs(num[b]))
  ELSE { [num EXCEPT ![a] =
            Number(1, AddLimbs(Longer(Limbs(b), Limbs(c)),
                               Shorter(Limbs(b), Limbs(c)), top))] :
         top \in Tops(a, b, c) }

-----------------------------------------------------------------------------
(* Subtraction.                                                            *)

Borrows(s, t) ==
  LET borrow[i \in 0 .. Len(t)] ==
        IF i = 0 THEN 0
        ELSE IF s[i] < t[i] + borrow[i - 1] THEN 1 ELSE 0
  IN  borrow

(* The limb of s at which a borrow out of limb n ends.                     *)
LenderAtTop(s, n) == Len(s)  \* mutant: the last limb lends
Lender(s, n)      == Min({ k \in n + 1 .. Len(s) : s[k] # 0 })

(* The limbs above n when they lend.  If the lender is 1, not it but the   *)
(* last limb of s is given up.                                             *)
Lend(s, n) ==
  LET lender == Lender(s, n)
  IN  [i \in 1 .. Len(s) - n - (IF s[lender] = 1 THEN 1 ELSE 0) |->
         CASE i + n < lender                    -> Base - 1
           [] i + n = lender /\ s[lender] # 1  -> s[lender] - 1
           [] OTHER                             -> s[i + n]]

(* zsub_impl, for s greater than t.                                        *)
SubLimbs(s, t) ==
  LET borrow == Borrows(s, t)
  IN  [i \in 1 .. Len(t) |-> (s[i] - t[i] - borrow[i - 1]) % Base]
      \o IF borrow[Len(t)] = 0 THEN SubSeq(s, Len(t) + 1, Len(s))
         ELSE Lend(s, Len(t))

zsub_unsigned(a, b, c) ==
  LET seen == Compared(b, c)
      s    == seen[b].limbs
      t    == seen[c].limbs
  IN  IF IsZero(b) THEN Assign(a, Neg(Abs(num[c])))
      ELSE IF IsZero(c) THEN Assign(a, Abs(num[b]))
      ELSE { [seen EXCEPT ![a] =
                CASE zcmpmag(b, c) = 0  -> Zero
                  [] zcmpmag(b, c) = 1  -> Number(1, SubLimbs(s, t))
                  [] zcmpmag(b, c) = -1 -> Number(-1, SubLimbs(t, s))] }

(* a minus b in place, for a that is greater than b and b not negative.    *)
zsub_nonnegative_assign(a, b) ==
  IF IsZero(b) THEN Assign(a, Abs(num[a]))
  ELSE IF zcmpmag(a, b) = 0 THEN { [Compared(a, b) EXCEPT ![a] = Zero] }
  ELSE { [Compared(a, b) EXCEPT ![a].limbs = SubLimbs(@, Compared(a, b)[b].limbs)] }

(* The same for b positive; nothing is compared, so nothing is trimmed.    *)
zsub_positive_assign(a, b) ==
  { [num EXCEPT ![a].limbs = SubLimbs(@, TrimTo(Limbs(b), Used(a)))] }

-----------------------------------------------------------------------------
(* Addition and subtraction of signed numbers.                             *)

NegAll(a, results) == { [r EXCEPT ![a] = Neg(@)] : r \in results }

zadd(a, b, c) ==
  CASE IsZero(b) -> Assign(a, num[c])
    [] ~ IsZero(b) /\ IsZero(c) -> Assign(a, num[b])
    [] num[b].sign = -1 /\ num[c].sign = -1 -> NegAll(a, zadd_unsigned(a, b, c))
    [] num[b].sign = -1 /\ num[c].sign = 1  -> zsub_unsigned(a, c, b)
    [] num[b].sign = 1  /\ num[c].sign = -1 -> zsub_unsigned(a, b, c)
    [] num[b].sign = 1  /\ num[c].sign = 1  -> zadd_unsigned(a, b, c)

zsub(a, b, c) ==
  CASE IsZero(b) -> Assign(a, Neg(num[c]))
    [] ~ IsZero(b) /\ IsZero(c) -> Assign(a, num[b])
    [] num[b].sign = -1 /\ num[c].sign = -1 -> zsub_unsigned(a, c, b)
    [] num[b].sign = -1 /\ num[c].sign = 1  -> NegAll(a, zadd_unsigned(a, b, c))
    [] num[b].sign = 1  /\ num[c].sign = -1 -> zadd_unsigned(a, b, c)
    [] num[b].sign = 1  /\ num[c].sign = 1  -> zsub_unsigned(a, b, c)

-----------------------------------------------------------------------------
(* Shifts and truncation.  Limbs are numbers, their bits sets of positions.*)

CharsIn(bits)    == bits \div BitsPerChar
BitsInLast(bits) == bits % BitsPerChar
Zeros(n)         == [i \in 1 .. n |-> 0]

(* s shifted left by less than a limb; the bits shifted out make a limb    *)
(* only when there are any.                                                *)
ShiftedUp(s, bits) ==
  LET carry(i) == (At(s, i) * 2 ^ bits) \div Base
  IN  TrimTo([i \in 1 .. Len(s) + 1 |->
                ((At(s, i) * 2 ^ bits) % Base) + IF i = 1 THEN 0 ELSE carry(i - 1)],
             Len(s))

zlsh(a, b, bits) ==
  IF IsZero(b) THEN Assign(a, Zero)
  ELSE Assign(a, Number(num[b].sign, Zeros(CharsIn(bits))
                                       \o ShiftedUp(Limbs(b), BitsInLast(bits))))

ShiftedDownApart(s, bits) ==  \* mutant: no bits move to the limb below
  [i \in 1 .. Len(s) |-> s[i] \div 2 ^ bits]
ShiftedDown(s, bits) ==
  [i \in 1 .. Len(s) |-> ((s[i] + Base * At(s, i + 1)) \div 2 ^ bits) % Base]

(* What zbits yields, which trims its operand.                             *)
BitLength(n) ==
  IF n.sign = 0 THEN 1
  ELSE LET s == TrimTo(n.limbs, 0)
       IN  (Len(s) - 1) * BitsPerChar + Min({ k \in 1 .. BitsPerChar : 2 ^ k > s[Len(s)] })

Rsh(n, bits) ==
  LET s == TrimTo(n.limbs, 0)
  IN  IF bits = 0 THEN n
      ELSE IF n.sign = 0 \/ CharsIn(bits) >= Len(n.limbs) \/ BitLength(n) <= bits THEN Zero
      ELSE TrimAndSign(n.sign, ShiftedDown(SubSeq(s, CharsIn(bits) + 1, Len(s)),
                                           BitsInLast(bits)))

(* The operand is trimmed only when zbits is reached.                      *)
zrsh(a, b, bits) ==
  IF bits = 0 \/ CharsIn(bits) >= Used(b) THEN Assign(a, Rsh(num[b], bits))
  ELSE { [num EXCEPT ![b] = Trimmed(@), ![a] = Rsh(num[b], bits)] }

(* The lowest bits of n.                                                   *)
Trunc(n, bits) ==
  LET chars == (bits + BitsPerChar - 1) \div BitsPerChar
  IN  IF n.sign = 0 THEN Zero
      ELSE TrimAndSign(n.sign, [i \in 1 .. Min({chars, Len(n.limbs)}) |->
             IF i = chars /\ BitsInLast(bits) # 0 THEN n.limbs[i] % 2 ^ BitsInLast(bits)
             ELSE n.limbs[i]])

ztrunc(a, b, bits) == Assign(a, Trunc(num[b], bits))

(* The half that is stored in a itself is computed last.                  *)
zsplit(high, low, a, delim) ==
  IF high = a
  THEN { [num EXCEPT ![low] = Trunc(num[a], delim), ![high] = Rsh(num[a], delim)] }
  ELSE { [r EXCEPT ![low] = Trunc(r[a], delim)] : r \in zrsh(high, a, delim) }

-----------------------------------------------------------------------------
(* Bits.  A limb is also the set of the positions of its bits.             *)

Bits(n, width) == { k \in 0 .. width - 1 : (n \div 2 ^ k) % 2 = 1 }
BitsIn    == [n \in Limb |-> Bits(n, BitsPerChar)]
OfBits(B) == CHOOSE n \in Limb : BitsIn[n] = B

And == [m \in Limb |-> [n \in Limb |-> OfBits(BitsIn[m] \cap BitsIn[n])]]
Or  == [m \in Limb |-> [n \in Limb |-> OfBits(BitsIn[m] \cup BitsIn[n])]]
Xor == [m \in Limb |->
          [n \in Limb |-> OfBits((BitsIn[m] \cup BitsIn[n]) \ (BitsIn[m] \cap BitsIn[n]))]]

(* The limbs that ZMEM_2OP_PRECISE writes when asked for n: the last of    *)
(* several whole groups is left out.                                       *)
WrittenInPlace(n) ==
  IF n > Group /\ n % Group = 0 THEN 1 .. n - Group ELSE 1 .. n

(* Both operands limb by limb as far as the shorter one reaches, then the  *)
(* longer one; when the result is one of the operands, in place.           *)
CombinedUpTo(Op, a, b, c) ==  \* mutant: what a lacks is not copied
  LET n == Min({Used(b), Used(c)})
  IN  [i \in 1 .. Max({Used(b), Used(c)}) |->
         IF i > n THEN At(Limbs(a), i) ELSE Op[Limbs(b)[i]][Limbs(c)[i]]]
Combined(Op, a, b, c) ==
  LET s == Longer(Limbs(b), Limbs(c))
      t == Shorter(Limbs(b), Limbs(c))
      written == IF a \in {b, c} THEN WrittenInPlace(Len(t)) ELSE 1 .. Len(t)
  IN  [i \in 1 .. Len(s) |->
         CASE i \in written -> Op[s[i]][t[i]]
           [] i > Len(t)     -> s[i]
           [] OTHER          -> Limbs(a)[i]]

zand(a, b, c) ==
  LET n == Min({Used(b), Used(c)})
  IN  IF IsZero(b) \/ IsZero(c) THEN Assign(a, Zero)
      ELSE Assign(a, TrimAndSign(IF 1 \in {num[b].sign, num[c].sign} THEN 1 ELSE -1,
                                 [i \in 1 .. n |-> And[Limbs(b)[i]][Limbs(c)[i]]]))

(* Nothing is trimmed: the longer operand decides the length.              *)
zor(a, b, c) ==
  CASE IsZero(b) -> Assign(a, num[c])
    [] ~ IsZero(b) /\ IsZero(c) -> Assign(a, num[b])
    [] OTHER     -> Assign(a, Number(IF {num[b].sign, num[c].sign} = {1} THEN 1 ELSE -1,
                                     Combined(Or, a, b, c)))

zxor(a, b, c) ==
  CASE IsZero(b) -> Assign(a, num[c])
    [] ~ IsZero(b) /\ IsZero(c) -> Assign(a, num[b])
    [] OTHER     -> Assign(a, TrimAndSign(num[b].sign * num[c].sign,
                                          Combined(Xor, a, b, c)))

(* Every bit up to the highest one that is set.                            *)
znot(a, b) ==
  LET s     == TrimTo(Limbs(b), 0)
      width == BitsInLast(BitLength(num[b]))
      not   == [i \in 1 .. Len(s) |->
                  IF i = Len(s) /\ width # 0 THEN (Base - 1 - s[i]) % 2 ^ width
                  ELSE Base - 1 - s[i]]
  IN  IF IsZero(b) THEN Assign(a, Zero)
      ELSE { [num EXCEPT ![b] = Trimmed(@), ![a] = TrimAndSign(- num[b].sign, not)] }

(* Setting or flipping a bit may make the number longer.                   *)
Lengthened(n, chars) ==
  LET s == IF n.sign = 0 THEN <<>> ELSE n.limbs
  IN  Number(IF n.sign = 0 THEN 1 ELSE n.sign, s \o Zeros(chars - Len(s)))

WithBit(n, bit, Op) ==
  LET char == CharsIn(bit) + 1
      long == Lengthened(n, char)
  IN  Number(long.sign, [long.limbs EXCEPT ![char] = Op[@][2 ^ BitsInLast(bit)]])

AndNot == [m \in Limb |-> [n \in Limb |-> OfBits(BitsIn[m] \ BitsIn[n])]]

zbset(a, b, bit, action) ==
  CASE action = "set"   -> Assign(a, WithBit(num[b], bit, Or))
    [] action = "flip"  -> Assign(a, TrimAndSign(WithBit(num[b], bit, Xor).sign,
                                                 WithBit(num[b], bit, Xor).limbs))
    [] action = "clear" -> IF IsZero(b) \/ CharsIn(bit) >= Used(b) THEN Assign(a, num[b])
                           ELSE Assign(a, TrimAndSign(num[b].sign,
                                                      WithBit(num[b], bit, AndNot).limbs))

-----------------------------------------------------------------------------
(* The program: any operation on any of the numbers, the same one in every *)
(* place it likes.                                                         *)

Init == num = [r \in Reg |-> Zero]

Step(results) ==
  \E r \in results :
    /\ MapThenSumSet(LAMBDA k : Len(r[k].limbs), Kept) <= MaxLimbs
    /\ num' = r

Setu(a) == \E v \in Limb : Step(Assign(a, IF v = 0 THEN Zero ELSE Number(1, <<v>>)))
Seti(a) == \E v \in Limb \ {0} : Step(Assign(a, Number(-1, <<v>>)))
Swap(a, b) == Step({ [num EXCEPT ![a] = num[b], ![b] = num[a]] })
Negate(a, b)   == Step(Assign(a, Neg(num[b])))
Absolute(a, b) == Step(Assign(a, Abs(num[b])))

Compare(a, b) == num[a].sign = num[b].sign /\ Step({ Compared(a, b) })
CountBits(a)  == ~ IsZero(a) /\ Step(Assign(a, Trimmed(num[a])))

Add(a, b, c) == Step(zadd(a, b, c)) \/ Step(zadd_unsigned(a, b, c))
AddTo(a, b)  == Step(zadd_unsigned_assign(a, b))
Subtract(a, b, c) == Step(zsub(a, b, c)) \/ Step(zsub_unsigned(a, b, c))

(* What the in-place subtractions assume of their operands; the only       *)
(* caller of the second one, zgcd, has just compared them, too.            *)
AtMost(b, a)   == num[b].sign >= 0 /\ zcmp(a, b) >= 0
LessThan(b, a) == num[b].sign = 1 /\ zcmp(a, b) = 1 /\ Compared(a, b) = num
SubtractFrom(a, b) == \/ AtMost(b, a) /\ Step(zsub_nonnegative_assign(a, b))
                      \/ LessThan(b, a) /\ Step(zsub_positive_assign(a, b))

Shift(a, b) == \E n \in Counts : Step(zlsh(a, b, n)) \/ Step(zrsh(a, b, n))
Truncate(a, b) == \E n \in Counts : Step(ztrunc(a, b, n))
Split(a, b, c) == a # b /\ \E n \in Counts : Step(zsplit(a, b, c, n))
SetBit(a, b) == \E n \in Counts, action \in {"set", "clear", "flip"} :
                   Step(zbset(a, b, n, action))
BitOperation(a, b, c) == Step(zand(a, b, c)) \/ Step(zor(a, b, c)) \/ Step(zxor(a, b, c))
Complement(a, b) == Step(znot(a, b))

Next ==
  \E a \in Kept :
    \/ Setu(a) \/ Seti(a) \/ CountBits(a)
    \/ \E b \in Kept :
         \/ Swap(a, b) \/ Negate(a, b) \/ Absolute(a, b) \/ Compare(a, b)
         \/ AddTo(a, b) \/ SubtractFrom(a, b)
         \/ Shift(a, b) \/ Truncate(a, b) \/ SetBit(a, b) \/ Complement(a, b)
         \/ \E c \in Kept : \/ Add(a, b, c) \/ Subtract(a, b, c)
                            \/ Split(a, b, c) \/ BitOperation(a, b, c)

vars == <<num>>
Spec == Init /\ [][Next]_vars

-----------------------------------------------------------------------------
(* What the numbers stand for.                                             *)

Magnitude(s) ==
  LET upTo[i \in 0 .. Len(s)] ==
        IF i = 0 THEN 0 ELSE upTo[i - 1] + s[i] * 2 ^ (BitsPerChar * (i - 1))
  IN  upTo[Len(s)]
Value(n)  == n.sign * Magnitude(n.limbs)
Size(a)   == Value(Abs(num[a]))
Sign(i)   == IF i > 0 THEN 1 ELSE IF i < 0 THEN -1 ELSE 0

(* After r, a holds the value v and every other number the one it had.     *)
Stores(r, a, v) ==
  /\ Value(r[a]) = v
  /\ \A x \in Reg \ {a} : r[x] # num[x] => Value(r[x]) = Value(num[x])

(* Numbers are a sign and limbs, and the sign is 0 for no other value than *)
(* zero and for zero always: every function asks zzero first and then      *)
(* takes a nonzero limb for granted (TRIM_NONZERO, zbits, zcmpu).          *)
TypeOK ==
  /\ num \in [Reg -> [sign : {-1, 0, 1}, limbs : Seq(Limb)]]
  /\ \A r \in Reg : num[r].sign = 0 <=> Magnitude(num[r].limbs) = 0

(* zcmp and zcmpmag order numbers as their values, however many zeros      *)
(* earlier operations have left above them, and change no value by trimming.*)
ComparisonRight ==
  \A b, c \in Kept :
    /\ zcmp(b, c) = Sign(Value(num[b]) - Value(num[c]))
    /\ zcmpmag(b, c) = Sign(Size(b) - Size(c))
    /\ \A x \in Reg : Value(Compared(b, c)[x]) = Value(num[x])

(* A subtraction of magnitudes in which the limb that lends is 1 and not   *)
(* the last one.                                                           *)
InnerLoan(b, c) ==
  LET s == IF Size(b) > Size(c) THEN Compared(b, c)[b].limbs ELSE Compared(b, c)[c].limbs
      t == IF Size(b) > Size(c) THEN Compared(b, c)[c].limbs ELSE Compared(b, c)[b].limbs
  IN  /\ ~ IsZero(b) /\ ~ IsZero(c) /\ Size(b) # Size(c)
      /\ Borrows(s, t)[Len(t)] = 1
      /\ s[Lender(s, Len(t))] = 1 /\ Lender(s, Len(t)) < Len(s)

(* The last carry of a sum goes to a limb that copying in groups has       *)
(* written.                                                                *)
CarryIntoCopy(a, b, c) ==
  LET s == Longer(Limbs(b), Limbs(c))
  IN  /\ ~ IsZero(b) /\ ~ IsZero(c) /\ Tops(a, b, c) # {<<1>>}
      /\ Carries(s, Shorter(Limbs(b), Limbs(c)))[Len(s)] = 1

(* The sum that zahl.h promises of zadd_unsigned (zahl.h:126).             *)
SumsDocumented ==
  \A a \in Reg, b, c \in Kept :
    \A r \in zadd_unsigned(a, b, c) : Stores(r, a, Size(b) + Size(c))

(* zadd and its unsigned forms store the sum whichever of the parameters   *)
(* are the same number, and disturb no other, unless the last carry is     *)
(* lost in a copy.  Numbers of different signs are subtracted, which goes  *)
(* wrong for an inner loan; and adding zero to a negative number in place  *)
(* leaves it negative.                                                     *)
SumsRight ==
  \A a \in Reg, b, c \in Kept :
    /\ \/ IF num[b].sign # num[c].sign THEN InnerLoan(b, c) ELSE CarryIntoCopy(a, b, c)
       \/ \A r \in zadd(a, b, c) : Stores(r, a, Value(num[b]) + Value(num[c]))
    /\ CarryIntoCopy(a, b, c) \/
         \A r \in zadd_unsigned(a, b, c) : Stores(r, a, Size(b) + Size(c))
    /\ a = b /\ ~ (IsZero(c) /\ num[a].sign = -1) =>
         \A r \in zadd_unsigned_assign(a, c) : Stores(r, a, Size(a) + Size(c))

(* The differences that zahl.h promises of zsub, zsub_unsigned and the two *)
(* forms in place (zahl.h:112, 127, 129-130), but for sums in the first    *)
(* whose carry is lost in a copy.                                          *)
Differences(b, c) ==
  /\ \A a \in Reg :
       /\ \/ num[b].sign # num[c].sign /\ CarryIntoCopy(a, b, c)
          \/ \A r \in zsub(a, b, c) : Stores(r, a, Value(num[b]) - Value(num[c]))
       /\ \A r \in zsub_unsigned(a, b, c) : Stores(r, a, Size(b) - Size(c))
  /\ AtMost(c, b) => \A r \in zsub_nonnegative_assign(b, c) :
                        Stores(r, b, Value(num[b]) - Value(num[c]))
  /\ LessThan(c, b) => \A r \in zsub_positive_assign(b, c) :
                          Stores(r, b, Value(num[b]) - Value(num[c]))

DifferencesDocumented == \A b, c \in Kept : Differences(b, c)
(* They are what the functions store unless an inner limb that is 1 lends. *)
DifferencesRight == \A b, c \in Kept : InnerLoan(b, c) \/ Differences(b, c)

(* A number is the sum of what zrsh leaves of it shifted back by zlsh and  *)
(* what ztrunc takes, zsplit makes both, and zbits is the least number of  *)
(* bits that holds it.                                                     *)
ShiftsRight ==
  \A a \in Reg, b \in Kept :
    /\ Size(b) < 2 ^ BitLength(num[b])
    /\ IsZero(b) \/ Size(b) >= 2 ^ (BitLength(num[b]) - 1)
    /\ \A n \in Counts :
         LET high == num[b].sign * (Size(b) \div 2 ^ n)
             low  == num[b].sign * (Size(b) % 2 ^ n)
         IN  /\ \A r \in zlsh(a, b, n) : Stores(r, a, Value(num[b]) * 2 ^ n)
             /\ \A r \in zrsh(a, b, n) : Stores(r, a, high)
             /\ \A r \in ztrunc(a, b, n) : Stores(r, a, low)
             /\ \A c \in Kept \ {a} : \A r \in zsplit(a, c, b, n) :
                  Value(r[a]) = high /\ Value(r[c]) = low

AllBits(n) == Bits(Magnitude(n.limbs), Len(n.limbs) * BitsPerChar)

(* A result in place of an operand is not written for the last of several  *)
(* whole groups.                                                           *)
GroupLeftOut(a, b, c) ==
  LET n == Len(Shorter(Limbs(b), Limbs(c)))
  IN  ~ IsZero(b) /\ ~ IsZero(c) /\ a \in {b, c} /\ WrittenInPlace(n) # 1 .. n

Joined(a, b, c) ==
  LET B == AllBits(num[b])
      C == AllBits(num[c])
  IN  /\ \A r \in zor(a, b, c)  : AllBits(r[a]) = B \cup C
      /\ \A r \in zxor(a, b, c) : AllBits(r[a]) = (B \cup C) \ (B \cap C)

(* What zahl.h promises of zor and zxor (zahl.h:136-137).                  *)
BitsDocumented == \A a \in Reg, b, c \in Kept : Joined(a, b, c)

(* The bitwise functions combine the bits of the magnitudes as zahl.h      *)
(* writes them down, whichever parameters are the same number, unless a    *)
(* group is left out.                                                      *)
BitsRight ==
  \A a \in Reg, b \in Kept :
    LET B == AllBits(num[b])
    IN  /\ \A c \in Kept :
             /\ \A r \in zand(a, b, c) : AllBits(r[a]) = B \cap AllBits(num[c])
             /\ GroupLeftOut(a, b, c) \/ Joined(a, b, c)
        /\ \A r \in znot(a, b) :
             AllBits(r[a]) = (0 .. BitLength(num[b]) - 1) \ B \/ IsZero(b)
        /\ \A n \in Counts :
             /\ \A r \in zbset(a, b, n, "set")   : AllBits(r[a]) = B \cup {n}
             /\ \A r \in zbset(a, b, n, "clear") : AllBits(r[a]) = B \ {n}
             /\ \A r \in zbset(a, b, n, "flip")  :
                  AllBits(r[a]) = (B \cup {n}) \ (B \cap {n})

=============================================================================
