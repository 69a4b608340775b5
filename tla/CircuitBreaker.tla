----------------------------- MODULE CircuitBreaker -----------------------------
(***************************************************************************)
(* contracts/circuit-breaker: one freeze flag for a deployment, which the  *)
(* admin or any guardian sets and the admin alone clears, and the admin's  *)
(* handover in two steps.  The tokens that read it are in GatedTokens.     *)
(*                                                                         *)
(* Abstracted: TTL extension, events, and the audit log, whose address no  *)
(* entry point stores (record_audit does nothing without one).             *)
(***************************************************************************)
EXTENDS Integers

CONSTANTS
  Account,       \* admins, guardians and those who would be
  None,          \* an absent storage entry
  MaxUpgrades    \* bound: code swaps in a behaviour

ASSUME NoneIsNoAccount == None \notin Account
ASSUME UpgradeBound == MaxUpgrades \in Nat

VARIABLES
  admin,         \* DataKey::Admin
  pendingAdmin,  \* DataKey::PendingAdmin
  guardians,     \* DataKey::Guardians, a list without duplicates
  frozen,        \* DataKey::Frozen
  code,          \* how many times the code has been swapped
  \* history
  nominator,     \* who made the proposal in pendingAdmin
  by             \* who authorized the last call

breakerVars == <<admin, pendingAdmin, guardians, frozen, code, nominator>>

BreakerTypeOK ==
  /\ admin \in Account \cup {None}
  /\ pendingAdmin \in Account \cup {None}
  /\ guardians \subseteq Account
  /\ frozen \in BOOLEAN
  /\ code \in 0..MaxUpgrades
  /\ nominator \in Account \cup {None}

BreakerInit ==
  /\ admin = None
  /\ pendingAdmin = None
  /\ guardians = {}
  /\ frozen = FALSE
  /\ code = 0
  /\ nominator = None

\* What a consumer's call of is_frozen needs in order not to stop it: an
\* uninitialized breaker answers with an error, which fails the calling
\* transfer as well.
is_open == admin # None /\ ~frozen

-----------------------------------------------------------------------------
RequireAdmin(caller) == admin # None /\ caller = admin

RequireAdminOrGuardian(caller) == admin # None /\ caller \in {admin} \cup guardians

initialize_breaker(caller) ==
  /\ admin = None
  /\ admin' = caller
  /\ frozen' = FALSE
  /\ by' = caller
  /\ UNCHANGED <<pendingAdmin, guardians, code, nominator>>

freeze(caller) ==
  /\ RequireAdminOrGuardian(caller)
  /\ frozen' = TRUE
  /\ by' = caller
  /\ UNCHANGED <<admin, pendingAdmin, guardians, code, nominator>>

\* Variant: resuming asks for no more than halting does.
unfreeze_ByGuardian(caller) ==
  /\ RequireAdminOrGuardian(caller)
  /\ frozen
  /\ frozen' = FALSE
  /\ by' = caller
  /\ UNCHANGED <<admin, pendingAdmin, guardians, code, nominator>>

\* unfreeze: with nothing frozen it returns before it writes, which is no step.
unfreeze(caller) ==
  /\ RequireAdmin(caller)
  /\ frozen
  /\ frozen' = FALSE
  /\ by' = caller
  /\ UNCHANGED <<admin, pendingAdmin, guardians, code, nominator>>

add_guardian(caller, g) ==
  /\ RequireAdmin(caller)
  /\ guardians' = guardians \cup {g}
  /\ by' = caller
  /\ UNCHANGED <<admin, pendingAdmin, frozen, code, nominator>>

remove_guardian(caller, g) ==
  /\ RequireAdmin(caller)
  /\ guardians' = guardians \ {g}
  /\ by' = caller
  /\ UNCHANGED <<admin, pendingAdmin, frozen, code, nominator>>

propose_admin(caller, a) ==
  /\ RequireAdmin(caller)
  /\ pendingAdmin' = a
  /\ nominator' = caller
  /\ by' = caller
  /\ UNCHANGED <<admin, guardians, frozen, code>>

\* Variant: the proposal outlives its acceptance.
accept_admin_KeepsProposal(caller) ==
  /\ pendingAdmin # None
  /\ pendingAdmin = caller
  /\ admin # None
  /\ admin' = caller
  /\ by' = caller
  /\ UNCHANGED <<pendingAdmin, nominator, guardians, frozen, code>>

\* accept_admin: the guardians of the old admin stay.
accept_admin(caller) ==
  /\ pendingAdmin # None
  /\ pendingAdmin = caller
  /\ admin # None
  /\ admin' = caller
  /\ pendingAdmin' = None
  /\ nominator' = None
  /\ by' = caller
  /\ UNCHANGED <<guardians, frozen, code>>

cancel_admin_proposal(caller) ==
  /\ RequireAdmin(caller)
  /\ pendingAdmin # None
  /\ pendingAdmin' = None
  /\ nominator' = None
  /\ by' = caller
  /\ UNCHANGED <<admin, guardians, frozen, code>>

\* upgrade: at once, and the storage stays.
upgrade(caller) ==
  /\ RequireAdmin(caller)
  /\ code < MaxUpgrades
  /\ code' = code + 1
  /\ by' = caller
  /\ UNCHANGED <<admin, pendingAdmin, guardians, frozen, nominator>>

BreakerNext ==
  \E caller \in Account :
    \/ initialize_breaker(caller)
    \/ freeze(caller)
    \/ unfreeze(caller)
    \/ \E a \in Account :
         \/ add_guardian(caller, a)
         \/ remove_guardian(caller, a)
         \/ propose_admin(caller, a)
    \/ accept_admin(caller)
    \/ cancel_admin_proposal(caller)
    \/ upgrade(caller)

-----------------------------------------------------------------------------
\* A pending handover was proposed by the admin in office: nobody who has
\* handed the breaker over, nor his nominee, can take it back.
PendingIsCurrentAdmins == pendingAdmin # None => nominator = admin
=============================================================================
