--------------------------- MODULE MCZahlProducts ---------------------------
(* Operands for the model checking of ZahlProducts, for limbs of four bits: *)
(* half a limb, a limb, two limbs and three, with and without zeros in a    *)
(* half, one less than a power of two, and negative ones.                   *)
EXTENDS ZahlProducts

CONSTANTS x, y, r

MCReg == {x, y, r}

MCOperand == {0, 3, -13, 40, 103, -106, 255, 256, -1000, 4080}
(* b is the first number; a and c are that one or others.                  *)
MCParameters == { <<a, x, c>> : a \in {x, y, r}, c \in {x, y} }
=============================================================================
