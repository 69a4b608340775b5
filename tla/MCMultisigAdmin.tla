--------------------------- MODULE MCMultisigAdmin ---------------------------
(***************************************************************************)
(* Model values and symmetry for checking MultisigAdmin.                   *)
(***************************************************************************)
EXTENDS MultisigAdmin, TLC

\* The three addresses are interchangeable: no operation names one.
Symmetry == Permutations(Address)
=============================================================================
