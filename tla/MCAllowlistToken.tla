---------------------------- MODULE MCAllowlistToken ----------------------------
(***************************************************************************)
(* Symmetry for checking AllowlistToken: no operation names an account, an *)
(* address or a key.                                                       *)
(***************************************************************************)
EXTENDS AllowlistToken, TLC

Symmetry == Permutations(Account) \cup Permutations(Subject) \cup Permutations(Key)
=============================================================================
