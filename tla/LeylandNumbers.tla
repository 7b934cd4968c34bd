--------------------------- MODULE LeylandNumbers ---------------------------
(***************************************************************************)
(* What leyland.1 promises of the program: it prints the Leyland numbers,  *)
(* the numbers x^y + y^x with 1 < y <= x, in ascending order, each with an *)
(* x and a y, and it leaves none out.                                      *)
(***************************************************************************)
EXTENDS Integers, Sequences

CONSTANTS
  Power(_, _),   \* the power of two numbers
  MaxBase        \* largest x considered

Leyland(p) == Power(p[1], p[2]) + Power(p[2], p[1])

Pair == { p \in (2 .. MaxBase) \X (2 .. MaxBase) : p[2] <= p[1] }

VARIABLE out   \* the lines printed so far

Last == IF out = <<>> THEN 0 ELSE out[Len(out)].val

Init == out = <<>>

Next == \E p \in Pair :
          /\ out' = Append(out, [val |-> Leyland(p), x |-> p[1], y |-> p[2]])
          /\ Last < Leyland(p)
          /\ ~ \E q \in Pair : Last < Leyland(q) /\ Leyland(q) < Leyland(p)

Spec == Init /\ [][Next]_out
=============================================================================
