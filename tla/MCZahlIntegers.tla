--------------------------- MODULE MCZahlIntegers ---------------------------
(* The values of the constants of ZahlIntegers.                            *)
EXTENDS ZahlIntegers, TLC

CONSTANTS x, y, result

MCReg    == {x, y, result}
MCKept   == {x, y}
Symmetry == Permutations(MCKept)

ShortCounts == {0, 1, 2, 5}
WideCounts  == {22}
GroupCounts == {6, 7}
=============================================================================
