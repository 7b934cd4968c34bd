------------------------------ MODULE LibUtil -------------------------------
(* Sizes in libutil: reallocarray's test whether a product wraps.           *)
EXTENDS Integers

CONSTANT WordBits   \* bits of size_t, even     (64)

ASSUME WordAssumption == WordBits \in Nat /\ WordBits >= 2 /\ WordBits % 2 = 0

SizeMax         == 2 ^ WordBits - 1
MUL_NO_OVERFLOW == 2 ^ (WordBits \div 2)

RefusedAbove(nmemb, size) ==  \* mutant: the square root itself is thought to be safe
  /\ nmemb > MUL_NO_OVERFLOW \/ size > MUL_NO_OVERFLOW
  /\ nmemb > 0 /\ SizeMax \div nmemb < size
Refused(nmemb, size) ==
  /\ nmemb >= MUL_NO_OVERFLOW \/ size >= MUL_NO_OVERFLOW
  /\ nmemb > 0 /\ SizeMax \div nmemb < size

(* What realloc is asked for.                                              *)
Bytes(nmemb, size) == (size * nmemb) % (SizeMax + 1)

(* A block has room for as many members as its owner asked for, and what   *)
(* could be allocated is not refused.                                      *)
Checked(nmemb, size) ==
  IF Refused(nmemb, size) THEN nmemb * size > SizeMax
  ELSE Bytes(nmemb, size) = nmemb * size
=============================================================================
