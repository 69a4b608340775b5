----------------------------- MODULE MCGatedTokens -----------------------------
(***************************************************************************)
(* Symmetry for checking GatedTokens: no operation names an account or a   *)
(* holder.                                                                 *)
(***************************************************************************)
EXTENDS GatedTokens, TLC

Symmetry == Permutations(Account) \cup Permutations(Holder)
=============================================================================
