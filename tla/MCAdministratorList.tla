------------------------- MODULE MCAdministratorList -------------------------
(* Model values for AdministratorList.                                         *)
EXTENDS AdministratorList, TLC

Symmetry == Permutations(People) \cup Permutations(Names)
=============================================================================
