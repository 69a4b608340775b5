----------------------------- MODULE PolicyChecks -----------------------------
(***************************************************************************)
(* What the two composition contracts see of the primitives they call: a   *)
(* registered check answers each address with a pass or a fail, or it      *)
(* traps (it returns an error, is not deployed, or its entry is archived), *)
(* and then the whole invocation does.                                     *)
(*                                                                         *)
(* policy-engine and compliance-aggregator only read the primitives, and   *)
(* all the reads of one invocation see one state of them. A world is such  *)
(* a state, reduced to the answers it gives: the evaluations take it as an *)
(* argument, and the properties quantify over all of World.                *)
(***************************************************************************)

CONSTANTS
  Address,          \* the parties of transfers
  Denylist,         \* registered denylist-gate contracts
  Jurisdiction,     \* registered jurisdiction-flag contracts, each with its codes
  Allowlist,        \* registered allowlist-token contracts
  CircuitBreaker,   \* registered circuit-breaker contracts
  World,            \* the states of the primitives, reduced to their answers
  None              \* an absent storage entry

CheckKind == Denylist \cup Jurisdiction \cup Allowlist \cup CircuitBreaker
Answer == {"pass", "fail", "trap"}

ASSUME WorldAssumption == World \subseteq [CheckKind -> [Address -> Answer]]

\* is_frozen() takes no address.
ASSUME BreakerAssumption ==
  \A w \in World, b \in CircuitBreaker : \A x, y \in Address : w[b][x] = w[b][y]

ASSUME NoneAssumption == None \notin CheckKind

\* run_check: the jurisdiction client is the only one called through try_, so
\* what would trap is a failed check there.
run_check(w, check, x) ==
  IF check \in Jurisdiction /\ w[check][x] = "trap" THEN "fail" ELSE w[check][x]
=============================================================================
