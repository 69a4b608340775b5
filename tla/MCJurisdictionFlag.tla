--------------------------- MODULE MCJurisdictionFlag ---------------------------
(***************************************************************************)
(* Symmetry for checking JurisdictionFlag: no operation names an account,  *)
(* an address or a code.                                                   *)
(***************************************************************************)
EXTENDS JurisdictionFlag, TLC

Symmetry ==
  Permutations(Account) \cup Permutations(Subject) \cup Permutations(WellFormed)
=============================================================================
