------------------------- MODULE ComplianceAggregator -------------------------
(***************************************************************************)
(* contracts/compliance-aggregator: at most one denylist gate, one         *)
(* jurisdiction flag and one circuit breaker, asked together by three      *)
(* entry points that each have a loop of their own.                        *)
(*                                                                         *)
(* Abstracted: the order and repetition of the addresses of a batch, the   *)
(* per-check breakdown, TTL extension, and events. The allowed codes, an   *)
(* argument here and part of the check in policy-engine, are the same in   *)
(* all the calls compared: they come with the member of Jurisdiction.      *)
(***************************************************************************)
EXTENDS PolicyChecks, Integers, FiniteSets

CONSTANTS
  Account,       \* admins and those who would be
  Wasm,          \* WASM hashes
  MaxBatchSize   \* MAX_BATCH_SIZE

VARIABLES
  admin,               \* DataKey::Admin
  paused,              \* the flag of the pausable crate
  denylist_gate,       \* DataKey::DenylistGate
  jurisdiction_flag,   \* DataKey::JurisdictionFlag
  circuit_breaker,     \* DataKey::CircuitBreaker
  wasm                 \* the code the instance runs

registered == <<denylist_gate, jurisdiction_flag, circuit_breaker>>
vars == <<admin, paused, registered, wasm>>

TypeOK ==
  /\ admin \in Account \cup {None}
  /\ paused \in BOOLEAN
  /\ denylist_gate \in Denylist \cup {None}
  /\ jurisdiction_flag \in Jurisdiction \cup {None}
  /\ circuit_breaker \in CircuitBreaker \cup {None}
  /\ wasm \in Wasm

Init ==
  /\ admin = None
  /\ paused = FALSE
  /\ denylist_gate = None /\ jurisdiction_flag = None /\ circuit_breaker = None
  /\ wasm \in Wasm

initialize(a, gate, flag, breaker) ==
  /\ admin = None
  /\ admin' = a
  /\ denylist_gate' = gate
  /\ jurisdiction_flag' = flag
  /\ circuit_breaker' = breaker
  /\ UNCHANGED <<paused, wasm>>

\* require_admin: caller authorized the call and is the stored admin.
RequireAdmin(caller) == admin # None /\ caller = admin

pause(caller) ==
  /\ RequireAdmin(caller)
  /\ paused' = TRUE
  /\ UNCHANGED <<admin, registered, wasm>>

unpause(caller) ==
  /\ RequireAdmin(caller)
  /\ paused' = FALSE
  /\ UNCHANGED <<admin, registered, wasm>>

\* upgrade is not refused while paused.
upgrade(caller, hash) ==
  /\ RequireAdmin(caller)
  /\ wasm' = hash
  /\ UNCHANGED <<admin, paused, registered>>

set_admin(caller, a) ==
  /\ ~paused /\ RequireAdmin(caller)
  /\ admin' = a
  /\ UNCHANGED <<paused, registered, wasm>>

set_denylist_gate(caller, gate) ==
  /\ ~paused /\ RequireAdmin(caller)
  /\ denylist_gate' = gate
  /\ UNCHANGED <<admin, paused, jurisdiction_flag, circuit_breaker, wasm>>

set_jurisdiction_flag(caller, flag) ==
  /\ ~paused /\ RequireAdmin(caller)
  /\ jurisdiction_flag' = flag
  /\ UNCHANGED <<admin, paused, denylist_gate, circuit_breaker, wasm>>

clear_denylist_gate(caller) ==
  /\ ~paused /\ RequireAdmin(caller)
  /\ denylist_gate' = None
  /\ UNCHANGED <<admin, paused, jurisdiction_flag, circuit_breaker, wasm>>

clear_jurisdiction_flag(caller) ==
  /\ ~paused /\ RequireAdmin(caller)
  /\ jurisdiction_flag' = None
  /\ UNCHANGED <<admin, paused, denylist_gate, circuit_breaker, wasm>>

set_circuit_breaker(caller, breaker) ==
  /\ ~paused /\ RequireAdmin(caller)
  /\ circuit_breaker' = breaker
  /\ UNCHANGED <<admin, paused, denylist_gate, jurisdiction_flag, wasm>>

-----------------------------------------------------------------------------
\* The entry points, in world w. An invocation that returns an error or traps
\* answers for none of its addresses.

\* A check that is not registered is skipped, as if it had passed.
Asked(w, contract, x) ==
  IF contract = None THEN "pass" ELSE run_check(w, contract, x)

\* Variant: all_passed = passed, so that the flag overrules the gate.
AllPassed_Last(w, x) ==
  IF jurisdiction_flag # None THEN Asked(w, jurisdiction_flag, x)
  ELSE Asked(w, denylist_gate, x)

\* Both are asked, whatever the first answers; the flag never traps.
AllPassed(w, x) ==
  IF Asked(w, denylist_gate, x) = "pass"
  THEN Asked(w, jurisdiction_flag, x)
  ELSE Asked(w, denylist_gate, x)

\* check_address: a frozen breaker answers without asking the others.
check_address(w, x) ==
  IF Asked(w, circuit_breaker, x) # "pass" THEN Asked(w, circuit_breaker, x)
  ELSE IF {denylist_gate, jurisdiction_flag, circuit_breaker} = {None} THEN "error"
  ELSE AllPassed(w, x)

\* What a batch returns: the addresses it lists as passing, if it returns at all.
Batch(ok, passing) == [ok |-> ok, passed |-> IF ok THEN passing ELSE {}]

\* Variant: the breaker's answer starts all_passed but asks the others anyway,
\* which overwrite it.
check_all_Overwrites(w, batch) ==
  Batch(/\ batch # {}
        /\ {denylist_gate, jurisdiction_flag, circuit_breaker} # {None}
        /\ \A x \in batch : "trap" \notin {Asked(w, circuit_breaker, x), AllPassed(w, x)},
        {x \in batch : AllPassed(w, x) = "pass"})

\* check_all: the breaker is asked once, each address as in check_address.
check_all(w, batch) ==
  Batch(/\ batch # {}
        /\ \A x \in batch : Asked(w, circuit_breaker, x) # "trap"
        /\ {denylist_gate, jurisdiction_flag, circuit_breaker} # {None}
        /\ \A x \in batch :
             Asked(w, circuit_breaker, x) = "fail" \/ AllPassed(w, x) # "trap",
        {x \in batch : Asked(w, circuit_breaker, x) # "fail" /\ AllPassed(w, x) = "pass"})

\* batch_check: bounded, and the breaker is not asked.
batch_check(w, batch) ==
  Batch(/\ batch # {}
        /\ Cardinality(batch) <= MaxBatchSize
        /\ {denylist_gate, jurisdiction_flag} # {None}
        /\ \A x \in batch : AllPassed(w, x) # "trap",
        {x \in batch : AllPassed(w, x) = "pass"})

-----------------------------------------------------------------------------
Next ==
  \E a \in Account :
    \/ \E gate \in Denylist \cup {None}, flag \in Jurisdiction \cup {None},
          breaker \in CircuitBreaker \cup {None} : initialize(a, gate, flag, breaker)
    \/ pause(a)
    \/ unpause(a)
    \/ \E h \in Wasm : upgrade(a, h)
    \/ \E b \in Account : set_admin(a, b)
    \/ \E gate \in Denylist : set_denylist_gate(a, gate)
    \/ \E flag \in Jurisdiction : set_jurisdiction_flag(a, flag)
    \/ clear_denylist_gate(a)
    \/ clear_jurisdiction_flag(a)
    \/ \E breaker \in CircuitBreaker : set_circuit_breaker(a, breaker)

Spec == Init /\ [][Next]_vars

-----------------------------------------------------------------------------
\* The three entry points agree on every address wherever they can be compared:
\* check_all returns iff check_address does for each of its addresses, with the
\* same answers; and so does batch_check, for a batch within its bound, while no
\* registered breaker refuses and a gate or a flag is registered.
EntryPointsAgree ==
  \A w \in World : \A batch \in (SUBSET Address) \ {{}} :
    LET returns == \A x \in batch : check_address(w, x) \in {"pass", "fail"}
        passing == {x \in batch : returns /\ check_address(w, x) = "pass"}
        one == [ok |-> returns, passed |-> passing]
    IN  /\ check_all(w, batch) = one
        /\ /\ \A x \in batch : Asked(w, circuit_breaker, x) = "pass"
           /\ {denylist_gate, jurisdiction_flag} # {None}
           /\ Cardinality(batch) <= MaxBatchSize
           => batch_check(w, batch) = one

\* "When configured and frozen, every address is denied without running any
\* check" (the module's documentation), by whichever entry point: batch_check
\* never asks the breaker.
FrozenDeniesEverywhere ==
  \A w \in World : \A x \in Address :
    circuit_breaker # None /\ Asked(w, circuit_breaker, x) = "fail" =>
      /\ check_address(w, x) = "fail"
      /\ x \notin check_all(w, {x}).passed
      /\ x \notin batch_check(w, {x}).passed
=============================================================================
