---------------------------- MODULE MCZahlMemory ----------------------------
(* Symmetry for the model checking of ZahlMemory.  Dedicated is left out:  *)
(* its instances have one member.                                          *)
EXTENDS ZahlMemory, TLC

Symmetric == Permutations(Block) \cup Permutations(User) \cup Permutations(Local)
=============================================================================
