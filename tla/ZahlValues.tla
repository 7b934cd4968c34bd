----------------------------- MODULE ZahlValues -----------------------------
(* What the functions of libzahl that work limb by limb compute, on the    *)
(* integers themselves: the operations the larger functions are made of.   *)
(* ZahlIntegers has the limbs of most of them.                             *)
EXTENDS Integers

(* zabs, zsignum                                                           *)
Abs(v)  == IF v < 0 THEN -v ELSE v
Sign(v) == IF v < 0 THEN -1 ELSE IF v > 0 THEN 1 ELSE 0

(* zbits; zlsb, of a value that is not 0.                                  *)
Bits(v) == IF v = 0 THEN 1
           ELSE CHOOSE k \in 1 .. Abs(v) : 2 ^ (k - 1) <= Abs(v) /\ Abs(v) < 2 ^ k
Lsb(v)  == CHOOSE k \in 0 .. Abs(v) : Abs(v) % 2 ^ k = 0 /\ (Abs(v) \div 2 ^ k) % 2 = 1

(* zrsh, and zbset of a bit that becomes 1.                                *)
ShiftDown(v, k) == Sign(v) * (Abs(v) \div 2 ^ k)
SetBit(v, k)    == IF (v \div 2 ^ k) % 2 = 1 THEN v ELSE v + 2 ^ k

(* What limb i counts, if a limb has so many bits.                         *)
Weight(i, bits) == 2 ^ (bits * i)

(* zsub_impl takes the n limbs of b from the limbs, so many, of a.  What   *)
(* the last of the n borrows is lent by the lowest limb above them that is *)
(* not 0.  If that limb is 1 the last limb of a is dropped in its place;   *)
(* where it is not the last one itself, this is what is left.              *)
LendersOfOne(a, b, n, size, bits) ==
  { i \in n .. size - 1 :
      /\ a % Weight(n, bits) < b
      /\ (a \div Weight(n, bits)) % Weight(i + 1 - n, bits) = Weight(i - n, bits) }
LentByInner(a, b, i, size, bits) == (a % Weight(size - 1, bits)) - b + Weight(i, bits)

(* The quotient cut off, and what it leaves, which has the dividend's sign. *)
Quot(c, d) == Sign(c) * Sign(d) * (Abs(c) \div Abs(d))
Rem(c, d)  == Sign(c) * (Abs(c) % Abs(d))
=============================================================================
