---------------------------- MODULE MCDenylistGate ----------------------------
(***************************************************************************)
(* Model values and symmetry for checking DenylistGate.                    *)
(***************************************************************************)
EXTENDS DenylistGate, TLC

\* Accounts, subjects and hashes are interchangeable: no operation names one.
Symmetry ==
  Permutations(Account) \cup Permutations(Subject) \cup Permutations(Wasm)
=============================================================================
