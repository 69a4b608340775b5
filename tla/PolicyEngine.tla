----------------------------- MODULE PolicyEngine -----------------------------
(***************************************************************************)
(* contracts/policy-engine: an ordered list of checks combined with All or *)
(* Any, managed by one admin, behind an optional circuit breaker, with a   *)
(* delayed upgrade.                                                        *)
(*                                                                         *)
(* The contract reads the flag of the pausable crate and has no entry      *)
(* point that sets it, so the flag is left out. Abstracted: TTL extension, *)
(* the PolicyResult event, and the CheckFailure of evaluate_verbose.        *)
(***************************************************************************)
EXTENDS PolicyChecks, Integers, Sequences

CONSTANTS
  Account,      \* those who may call initialize
  Wasm,         \* WASM hashes
  MaxChecks,    \* MAX_CHECKS
  MaxDelay,     \* bound: the longest upgrade delay proposed
  MaxLedger     \* bound: the last ledger of a behaviour

ASSUME EngineAssumption ==
  /\ MaxChecks \in Nat /\ MaxDelay \in Nat /\ MaxLedger \in Nat
  /\ None \notin Account \cup {"All", "Any"}

VARIABLES
  ledger,            \* env.ledger().sequence()
  admin,             \* DataKey::Admin
  op,                \* DataKey::CombineOp
  checks,            \* DataKey::Checks
  circuit_breaker,   \* DataKey::CircuitBreaker
  pendingUpgrade,    \* DataKey::PendingUpgrade
  wasm               \* the code the instance runs

policy == <<op, checks, circuit_breaker>>
engineVars == <<ledger, admin, policy, pendingUpgrade, wasm>>

CombineOp == {"All", "Any"}
UpgradeState == [new_wasm : Wasm, activated_at : 0..(MaxLedger + MaxDelay)]

EngineTypeOK ==
  /\ ledger \in 0..MaxLedger
  /\ admin \in Account \cup {None}
  /\ op \in CombineOp \cup {None}
  /\ checks \in Seq(CheckKind) /\ Len(checks) <= MaxChecks
  /\ circuit_breaker \in CircuitBreaker \cup {None}
  /\ pendingUpgrade \in UpgradeState \cup {None}
  /\ wasm \in Wasm
  /\ admin # None <=> op # None

EngineInit ==
  /\ ledger = 0
  /\ admin = None
  /\ op = None
  /\ checks = <<>>
  /\ circuit_breaker = None
  /\ pendingUpgrade = None
  /\ wasm \in Wasm

CloseLedger ==
  /\ ledger < MaxLedger
  /\ ledger' = ledger + 1
  /\ UNCHANGED <<admin, policy, pendingUpgrade, wasm>>

initialize(a, o, breaker) ==
  /\ admin = None
  /\ admin' = a
  /\ op' = o
  /\ checks' = <<>>
  /\ circuit_breaker' = breaker
  /\ UNCHANGED <<ledger, pendingUpgrade, wasm>>

\* require_admin: caller authorized the call and is the stored admin.
RequireAdmin(caller) == admin # None /\ caller = admin

set_circuit_breaker(caller, breaker) ==
  /\ RequireAdmin(caller)
  /\ circuit_breaker' = breaker
  /\ UNCHANGED <<ledger, admin, op, checks, pendingUpgrade, wasm>>

propose_upgrade(caller, hash, delay) ==
  /\ RequireAdmin(caller)
  /\ pendingUpgrade' = [new_wasm |-> hash, activated_at |-> ledger + delay]
  /\ UNCHANGED <<ledger, admin, policy, wasm>>

commit_upgrade(caller) ==
  /\ RequireAdmin(caller)
  /\ pendingUpgrade # None
  /\ ledger >= pendingUpgrade.activated_at
  /\ wasm' = pendingUpgrade.new_wasm
  /\ pendingUpgrade' = None
  /\ UNCHANGED <<ledger, admin, policy>>

cancel_upgrade(caller) ==
  /\ RequireAdmin(caller)
  /\ pendingUpgrade' = None
  /\ UNCHANGED <<ledger, admin, policy, wasm>>

-----------------------------------------------------------------------------
\* The list of checks, indexed from 1 here and from 0 in the code.

SetChecks(list) ==
  /\ checks' = list
  /\ UNCHANGED <<ledger, admin, op, circuit_breaker, pendingUpgrade, wasm>>

\* Variant: the limit is compared after the check is appended.
add_check_OneMore(caller, check) ==
  /\ RequireAdmin(caller)
  /\ Len(checks) <= MaxChecks
  /\ SetChecks(Append(checks, check))

add_check(caller, check) ==
  /\ RequireAdmin(caller)
  /\ Len(checks) < MaxChecks
  /\ SetChecks(Append(checks, check))

\* remove_check: the indices above i shift down.
remove_check(caller, i) ==
  /\ RequireAdmin(caller)
  /\ i \in DOMAIN checks
  /\ SetChecks([k \in 1..(Len(checks) - 1) |-> checks[IF k < i THEN k ELSE k + 1]])

\* Variant: checks.set(i, check_j) is not followed by checks.set(j, check_i).
swap_checks_Copies(caller, i, j) ==
  /\ RequireAdmin(caller)
  /\ i # j
  /\ {i, j} \subseteq DOMAIN checks
  /\ SetChecks([checks EXCEPT ![i] = checks[j]])

\* swap_checks; with i = j the call succeeds and changes nothing.
swap_checks(caller, i, j) ==
  /\ RequireAdmin(caller)
  /\ i # j
  /\ {i, j} \subseteq DOMAIN checks
  /\ SetChecks([checks EXCEPT ![i] = checks[j], ![j] = checks[i]])

clear_checks(caller) ==
  /\ RequireAdmin(caller)
  /\ SetChecks(<<>>)

-----------------------------------------------------------------------------
\* Evaluation in world w.

\* Variant: || and && exchanged, so that one of the parties is enough.
OnBoth_Either(w, check, from, to) ==
  IF run_check(w, check, from) = "fail"
  THEN run_check(w, check, to)
  ELSE run_check(w, check, from)

\* One check on both parties: to is not asked unless from passes.
OnBoth(w, check, from, to) ==
  IF run_check(w, check, from) = "pass"
  THEN run_check(w, check, to)
  ELSE run_check(w, check, from)

\* The checks that end the loop of evaluate_inner: under All the first that
\* does not pass, under Any the first that does not fail.
Deciders(w, from, to) ==
  LET goesOn == IF op = "All" THEN "pass" ELSE "fail"
  IN  {i \in DOMAIN checks : OnBoth(w, checks[i], from, to) # goesOn}

First(S) == CHOOSE i \in S : \A j \in S : i <= j

\* Variant: no break, so that the last check of the list has the last word.
Combine_LastWins(w, from, to) ==
  IF Deciders(w, from, to) # {} THEN OnBoth(w, checks[Len(checks)], from, to)
  ELSE IF op = "All" THEN "pass" ELSE "fail"

\* The match on op: what the list alone decides.
Combine(w, from, to) ==
  LET deciders == Deciders(w, from, to)
  IN  IF deciders # {} THEN OnBoth(w, checks[First(deciders)], from, to)
      ELSE IF op = "All" THEN "pass" ELSE "fail"

\* evaluate_inner: the breaker in DataKey::CircuitBreaker is asked before any
\* check, and takes no address.
evaluate_inner(w, from, to) ==
  IF circuit_breaker # None /\ run_check(w, circuit_breaker, from) # "pass"
  THEN run_check(w, circuit_breaker, from)
  ELSE Combine(w, from, to)

\* evaluate, evaluate_verbose, and batch_evaluate for each of its pairs.
evaluate(w, from, to) ==
  IF admin = None THEN "error" ELSE evaluate_inner(w, from, to)

-----------------------------------------------------------------------------
EngineNext ==
  \/ CloseLedger
  \/ \E a \in Account :
       \/ \E o \in CombineOp, b \in CircuitBreaker \cup {None} : initialize(a, o, b)
       \/ \E b \in CircuitBreaker : set_circuit_breaker(a, b)
       \/ \E h \in Wasm, d \in 0..MaxDelay : propose_upgrade(a, h, d)
       \/ commit_upgrade(a)
       \/ cancel_upgrade(a)
       \/ \E c \in CheckKind : add_check(a, c)
       \/ \E i \in DOMAIN checks : remove_check(a, i)
       \/ \E i, j \in DOMAIN checks : swap_checks(a, i, j)
       \/ clear_checks(a)

EngineSpec == EngineInit /\ [][EngineNext]_engineVars

-----------------------------------------------------------------------------
\* Whatever the primitives answer, a transfer is admitted only with the breaker
\* answering that it is not frozen and, under All, every check passing for both
\* parties; under Any one check has passed for both, and not one for each.
AdmittedIsCleared ==
  \A w \in World : \A x, y \in Address :
    evaluate(w, x, y) = "pass" =>
      LET Clears(c) == run_check(w, c, x) = "pass" /\ run_check(w, c, y) = "pass"
      IN  /\ circuit_breaker # None => Clears(circuit_breaker)
          /\ op = "All" => \A i \in DOMAIN checks : Clears(checks[i])
          /\ op = "Any" => \E i \in DOMAIN checks : Clears(checks[i])

\* Reordering the list, which admins do to have the cheap checks asked first,
\* turns no refusal into an admission and no admission into a refusal: the
\* answer can change only where a check traps.
KeepsTheVerdict ==
  checks' # checks /\ (\E a \in Account : \E i, j \in DOMAIN checks : swap_checks(a, i, j)) =>
    \A w \in World : \A x, y \in Address :
      \/ evaluate(w, x, y)' = evaluate(w, x, y)
      \/ evaluate(w, x, y)' = "trap"
      \/ evaluate(w, x, y) = "trap"

ReorderingKeepsTheVerdict == [][KeepsTheVerdict]_engineVars

\* A check added under All admits nothing that was refused, and one added under
\* Any refuses nothing that was admitted; a check removed, or all of them, the
\* other way round. Under Any what a removal admits may have trapped before.
AddingIsMonotone ==
  checks' # checks /\ (\E a \in Account, c \in CheckKind : add_check(a, c)) =>
    \A w \in World : \A x, y \in Address :
      IF op = "All" THEN evaluate(w, x, y)' = "pass" => evaluate(w, x, y) = "pass"
      ELSE evaluate(w, x, y) = "pass" => evaluate(w, x, y)' = "pass"

RemovingIsMonotone ==
  /\ checks' # checks
  /\ \E a \in Account : clear_checks(a) \/ \E i \in DOMAIN checks : remove_check(a, i)
  => \A w \in World : \A x, y \in Address :
       IF op = "All" THEN evaluate(w, x, y) = "pass" => evaluate(w, x, y)' = "pass"
       ELSE evaluate(w, x, y)' = "pass" => evaluate(w, x, y) # "fail"

ChecksAreMonotone == [][AddingIsMonotone /\ RemovingIsMonotone]_engineVars
=============================================================================
