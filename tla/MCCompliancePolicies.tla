------------------------- MODULE MCCompliancePolicies -------------------------
(***************************************************************************)
(* Worlds for checking CompliancePolicies: a gate that passes both         *)
(* addresses, refuses the first or traps; a flag that passes both, refuses *)
(* the second or fails with an error; a breaker that is open, frozen or    *)
(* not initialized. The properties take the two addresses in both orders.  *)
(***************************************************************************)
EXTENDS CompliancePolicies, TLC

CONSTANTS gate, flag, breaker, x1, x2

Both(a) == [x \in {x1, x2} |-> a]
Refuses(x) == [Both("pass") EXCEPT ![x] = "fail"]

MCWorld ==
  {(gate :> g) @@ (flag :> f) @@ (breaker :> b) :
     g \in {Both("pass"), Refuses(x1), Both("trap")},
     f \in {Both("pass"), Refuses(x2), Both("trap")},
     b \in {Both("pass"), Both("fail"), Both("trap")}}

Symmetry == Permutations(Account)
=============================================================================
