------------------------------ MODULE MCLeyland ------------------------------
(* Powers for the model checking of Leyland: exact up to Cap, which no line *)
(* within the bounds reaches, and Cap above it.                             *)
EXTENDS Leyland

Cap == 1000000000

PowerTable ==
  LET p[i \in 2 .. MaxBase + 2, j \in 0 .. MaxBase + 2] ==
        IF j = 0 THEN 1
        ELSE LET q == p[i, j - 1] IN IF q > Cap \div i THEN Cap ELSE i * q
  IN  [i, j \in 2 .. MaxBase + 2 |-> p[i, j]]

CappedPower(i, j) == PowerTable[i, j]
=============================================================================
