-------------------------- MODULE MCDenylistSignerSet --------------------------
(***************************************************************************)
(* Symmetry for checking DenylistSignerSet: no operation names an address. *)
(***************************************************************************)
EXTENDS DenylistSignerSet, TLC

Symmetry == Permutations(Address)
=============================================================================
