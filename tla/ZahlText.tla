------------------------------ MODULE ZahlText ------------------------------
(***************************************************************************)
(* Numbers as text: what zsets reads, and what zstr leaves in the buffer   *)
(* of its caller, whose size zstr_length has told.  Both work on groups of *)
(* as many digits as a limb can hold.  A character that is a digit is its  *)
(* value; the others have the numbers below.                               *)
(***************************************************************************)
EXTENDS Integers, Sequences, FiniteSetsExt

CONSTANT GroupDigits   \* digits of a group      (19)

ASSUME GroupAssumption == GroupDigits \in Nat /\ GroupDigits >= 1

NL     == 10
Letter == 11
Minus  == 12
Plus   == 13
NUL    == -1
Unset  == -2     \* what nobody has written

Digit     == 0 .. 9

(* Ten by itself, so many times.                                           *)
Ten(n) == LET power[k \in 0 .. n] == IF k = 0 THEN 1 ELSE 10 * power[k - 1]
          IN  power[n]

GroupBase == Ten(GroupDigits)

(* The C string that begins at an index of cells.                          *)
CString(cells, from) ==
  LET ends == { i \in DOMAIN cells : i >= from /\ cells[i] = NUL }
      n    == Min(ends) - from
  IN  [i \in 1 .. n |-> cells[from + i - 1]]

-----------------------------------------------------------------------------
(* zsets.                                                                  *)

Signed(str)   == str # <<>> /\ str[1] \in {Minus, Plus}
Unsigned(str) == IF Signed(str) THEN Tail(str) ELSE str
IsNumber(str) == Unsigned(str) # <<>> /\ \A i \in DOMAIN Unsigned(str) : Unsigned(str)[i] \in Digit

(* temp, after so many digits up to the one at i.                          *)
Group(s, i, n) == LET temp[k \in 0 .. n] == IF k = 0 THEN 0 ELSE temp[k - 1] * 10 + s[i - n + k]
                  IN  temp[n]

(* Mutant: a group of zeros does not move the ones before it.              *)
GroupsNotNothing(s) ==
  LET a[i \in 0 .. Len(s)] ==
        IF i < GroupDigits THEN Group(s, i, i)
        ELSE IF Group(s, i, GroupDigits) = 0 THEN a[i - GroupDigits]
        ELSE a[i - GroupDigits] * GroupBase + Group(s, i, GroupDigits)
  IN  a[Len(s)]

(* a, after the groups up to the digit at i: the first group has the digits *)
(* that are left over.                                                     *)
Groups(s) ==
  LET a[i \in 0 .. Len(s)] ==
        IF i < GroupDigits THEN Group(s, i, i)
        ELSE a[i - GroupDigits] * GroupBase + Group(s, i, GroupDigits)
  IN  a[Len(s)]
zsets(str) == IF Signed(str) /\ str[1] = Minus THEN - Groups(Unsigned(str)) ELSE Groups(Unsigned(str))

-----------------------------------------------------------------------------
(* zstr_length with radix 10, of a number that is not negative: divided by *)
(* the greatest of 10, 100, 10^4, 10^8 ... that is not greater.            *)
Squarings(num) ==
  LET from[k \in Nat] == IF num \div Ten(2 ^ k) < Ten(2 ^ k) THEN k ELSE from[k + 1]
  IN  from[0]
ZstrLength(a) ==
  LET size[num \in Nat] ==
        IF num = 0 THEN 1
        ELSE IF num < 10 THEN size[0]
        ELSE 2 ^ Squarings(num) + size[num \div Ten(2 ^ Squarings(num))]
  IN  size[a]

(* The digits of a group, all of them, or without the zeros before.        *)
sprintint_fix(v) == [i \in 1 .. GroupDigits |-> (v \div Ten(GroupDigits - i)) % 10]
sprintint_min(v) ==
  LET all   == sprintint_fix(v)
      first == Min({ i \in 1 .. GroupDigits : all[i] # 0 })
  IN  SubSeq(all, first, GroupDigits)

(* Cells with a sequence stored from an index on.                          *)
Stored(cells, at, s) ==
  [i \in DOMAIN cells |-> IF i \in at .. at + Len(s) - 1 THEN s[i - at + 1] ELSE cells[i]]

(* zstr of a positive number in a buffer b of n characters: groups from    *)
(* the end of the buffer towards its begin, each ended by the first digit  *)
(* of the one before; then the leading digits at the begin, and the groups *)
(* moved behind them.                                                      *)
Below(n) == IF n > GroupDigits THEN n - GroupDigits ELSE 0

RestMovedShort(b, len, last, tot) ==  \* mutant: the end of the string is not moved
  Stored(b, len, [i \in 1 .. tot |-> b[last + i - 1]])
RestMoved(b, len, last, tot) == Stored(b, len, [i \in 1 .. tot + 1 |-> b[last + i - 1]])

ZstrBegin(a, size) ==
  [num |-> a, b |-> [i \in 0 .. size + GroupDigits |-> Unset],
   n |-> Below(size), last |-> size, tot |-> 0, overridden |-> NUL]

ZstrLastGroup(s) == s.num < GroupBase
ZstrGroup(s) ==
  LET b == Stored(s.b, s.n, Append(sprintint_fix(s.num % GroupBase), s.overridden))
  IN  [num |-> s.num \div GroupBase, b |-> b, n |-> Below(s.n), last |-> s.n,
       tot |-> s.tot + GroupDigits, overridden |-> b[s.n]]
ZstrEnd(s) ==
  LET head == sprintint_min(s.num)
  IN  [s EXCEPT !.b = IF s.tot = 0 THEN Stored(@, 0, Append(head, NUL))
                      ELSE RestMoved(Stored(@, 0, head), Len(head), s.last, s.tot)]
=============================================================================
