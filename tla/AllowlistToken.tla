----------------------------- MODULE AllowlistToken -----------------------------
(***************************************************************************)
(* contracts/allowlist-token: a wrapper that forwards transfers to a token *)
(* between allowlisted addresses; the admin, the officer and the handover; *)
(* additions that a relayer submits with a signature; the pause; upgrades  *)
(* after a delay.                                                          *)
(*                                                                         *)
(* The file does not compile as it stands.  Two helpers are taken from     *)
(* their callers and their comments: require_compliance_authority, which   *)
(* is called and not defined, and is_allowed_and_extend_ttl, whose body is *)
(* broken.                                                                 *)
(*                                                                         *)
(* Abstracted: the wrapped token and the amounts (a negative one is        *)
(* refused before anything is read); TTL extension and events; the hash of *)
(* a code.  A ledger's timestamp is its sequence number.                   *)
(***************************************************************************)
EXTENDS Integers, FiniteSets

CONSTANTS
  Account,        \* admins, officers and those who would be
  Subject,        \* the addresses on the allowlist
  Key,            \* ed25519 keys
  None,           \* an absent storage entry
  Forever,        \* an allowlist entry without an expiry
  MaxBatchSize,   \* MAX_BATCH_SIZE
  MinDelay,       \* MIN_UPGRADE_DELAY_LEDGERS
  Delay,          \* bound: the delays that are proposed
  MaxLedger,      \* bound: the last ledger of a behaviour, and of an expiry
  MaxNonce,       \* bound: the largest nonce that is signed
  MaxSigned,      \* bound: how many messages are signed
  MaxUpgrades     \* bound: code swaps in a behaviour

ASSUME SetAssumption == IsFiniteSet(Subject) /\ None \notin Account \cup Key
ASSUME EntryAssumption == None # Forever /\ {None, Forever} \cap Nat = {}
ASSUME BoundAssumption ==
  /\ MaxBatchSize \in Nat /\ MinDelay \in Nat /\ Delay \subseteq Nat
  /\ MaxLedger \in Nat /\ MaxNonce \in Nat /\ MaxSigned \in Nat /\ MaxUpgrades \in Nat

VARIABLES
  ledger,          \* env.ledger(): sequence and timestamp
  admin,           \* DataKey::Admin
  pendingAdmin,    \* DataKey::PendingAdmin
  officer,         \* DataKey::ComplianceOfficer
  paused,          \* DataKey::Paused
  entry,           \* DataKey::Allowed(address): None, Forever or the last ledger
  adminKey,        \* DataKey::DelegatedAdminPubKey
  pendingUpgrade,  \* DataKey::PendingUpgrade: its activated_at
  code,            \* how many times the code has been swapped
  \* the environment
  signed,          \* the messages that holders of keys have signed
  \* history
  nominator,       \* who made the proposal in pendingAdmin
  proposedAt,      \* the ledger of the proposal in pendingUpgrade
  accepted,        \* per admin, the last nonce accepted
  stale,           \* whether a nonce was accepted that is not above it
  by,              \* who edited the allowlist or swapped the code, if the last call did
  passed           \* the parties of the transfer the last call forwarded

roles == <<admin, pendingAdmin, officer, nominator, adminKey>>
upgrading == <<pendingUpgrade, code, proposedAt>>
delegation == <<signed, accepted, stale>>
vars == <<ledger, roles, paused, entry, upgrading, delegation, by, passed>>

Ledger == 0..MaxLedger
Message == [key : Key, subject : Subject, nonce : 1..MaxNonce, expiry : 1..MaxLedger]

TypeOK ==
  /\ ledger \in Ledger
  /\ admin \in Account \cup {None}
  /\ pendingAdmin \in Account \cup {None}
  /\ officer \in Account \cup {None}
  /\ paused \in BOOLEAN
  /\ entry \in [Subject -> Ledger \cup {None, Forever}]
  /\ adminKey \in Key \cup {None}
  /\ pendingUpgrade \in Nat \cup {None}
  /\ code \in 0..MaxUpgrades
  /\ signed \subseteq Message
  /\ nominator \in Account \cup {None}
  /\ proposedAt \in Ledger \cup {None}
  /\ accepted \in [Account -> 0..MaxNonce]
  /\ stale \in BOOLEAN
  /\ by \in Account \cup {None}
  /\ passed \subseteq Subject

Init ==
  /\ ledger = 0
  /\ admin = None /\ pendingAdmin = None /\ officer = None /\ nominator = None
  /\ paused = FALSE
  /\ entry = [s \in Subject |-> None]
  /\ adminKey = None
  /\ pendingUpgrade = None /\ code = 0 /\ proposedAt = None
  /\ signed = {}
  /\ accepted = [a \in Account |-> 0]
  /\ stale = FALSE
  /\ by = None /\ passed = {}

-----------------------------------------------------------------------------
CloseLedger ==
  /\ ledger < MaxLedger
  /\ ledger' = ledger + 1
  /\ by' = None /\ passed' = {}
  /\ UNCHANGED <<roles, paused, entry, upgrading, delegation>>

\* require_admin: caller authorized the call and is the stored admin.
RequireAdmin(caller) == admin # None /\ caller = admin

\* What every call by an account has in common: editor made an edit, if any.
ByCall(editor) == by' = editor /\ passed' = {} /\ UNCHANGED <<ledger, delegation>>

initialize(a) ==
  /\ admin = None
  /\ admin' = a
  /\ ByCall(None)
  /\ UNCHANGED <<pendingAdmin, officer, nominator, adminKey, paused, entry, upgrading>>

set_delegated_admin_key(caller, k) ==
  /\ RequireAdmin(caller)
  /\ adminKey' = k
  /\ ByCall(None)
  /\ UNCHANGED <<admin, pendingAdmin, officer, nominator, paused, entry, upgrading>>

set_compliance_officer(caller, a) ==
  /\ RequireAdmin(caller)
  /\ officer' = a
  /\ ByCall(None)
  /\ UNCHANGED <<admin, pendingAdmin, nominator, adminKey, paused, entry, upgrading>>

revoke_compliance_officer(caller) ==
  /\ RequireAdmin(caller)
  /\ officer' = None
  /\ ByCall(None)
  /\ UNCHANGED <<admin, pendingAdmin, nominator, adminKey, paused, entry, upgrading>>

propose_admin(caller, a) ==
  /\ RequireAdmin(caller)
  /\ pendingAdmin' = a
  /\ nominator' = caller
  /\ ByCall(None)
  /\ UNCHANGED <<admin, officer, adminKey, paused, entry, upgrading>>

\* accept_admin: by the very account that was proposed. The officer, the key
\* and a pending upgrade of the old admin stay.
accept_admin(caller) ==
  /\ pendingAdmin # None
  /\ pendingAdmin = caller
  /\ admin # None
  /\ admin' = caller
  /\ pendingAdmin' = None
  /\ nominator' = None
  /\ ByCall(None)
  /\ UNCHANGED <<officer, adminKey, paused, entry, upgrading>>

\* Variant: the immediate rotation leaves the proposal pending.
transfer_admin_KeepsProposal(caller, a) ==
  /\ RequireAdmin(caller)
  /\ admin' = a
  /\ ByCall(None)
  /\ UNCHANGED <<pendingAdmin, nominator, officer, adminKey, paused, entry, upgrading>>

\* transfer_admin: at once, and no outstanding proposal survives it.
transfer_admin(caller, a) ==
  /\ RequireAdmin(caller)
  /\ admin' = a
  /\ pendingAdmin' = None
  /\ nominator' = None
  /\ ByCall(None)
  /\ UNCHANGED <<officer, adminKey, paused, entry, upgrading>>

pause(caller) ==
  /\ RequireAdmin(caller)
  /\ paused' = TRUE
  /\ ByCall(None)
  /\ UNCHANGED <<roles, entry, upgrading>>

unpause(caller) ==
  /\ RequireAdmin(caller)
  /\ paused' = FALSE
  /\ ByCall(None)
  /\ UNCHANGED <<roles, entry, upgrading>>

-----------------------------------------------------------------------------
\* Upgrades.

propose_upgrade(caller, delay) ==
  /\ RequireAdmin(caller)
  /\ delay >= MinDelay
  /\ pendingUpgrade' = ledger + delay
  /\ proposedAt' = ledger
  /\ ByCall(None)
  /\ UNCHANGED <<roles, paused, entry, code>>

\* Variant: that there is a proposal is checked, and not when it is due.
commit_upgrade_Early(caller) ==
  /\ RequireAdmin(caller)
  /\ pendingUpgrade # None
  /\ code < MaxUpgrades
  /\ code' = code + 1
  /\ pendingUpgrade' = None
  /\ proposedAt' = None
  /\ ByCall(caller)
  /\ UNCHANGED <<roles, paused, entry>>

commit_upgrade(caller) ==
  /\ RequireAdmin(caller)
  /\ pendingUpgrade # None
  /\ ledger >= pendingUpgrade
  /\ code < MaxUpgrades
  /\ code' = code + 1
  /\ pendingUpgrade' = None
  /\ proposedAt' = None
  /\ ByCall(caller)
  /\ UNCHANGED <<roles, paused, entry>>

cancel_upgrade(caller) ==
  /\ RequireAdmin(caller)
  /\ pendingUpgrade' = None
  /\ proposedAt' = None
  /\ ByCall(None)
  /\ UNCHANGED <<roles, paused, entry, code>>

-----------------------------------------------------------------------------
\* The allowlist.

\* is_allowed and is_compliant: the last ledger of an entry is included.
is_allowed(s) ==
  \/ entry[s] = Forever
  \/ entry[s] \in Nat /\ ledger <= entry[s]

\* Variant: the last ledger that the caller names is taken for a lifetime.
set_entries_Lifetime(S, e) ==
  entry' = [s \in Subject |->
    IF s \notin S THEN entry[s] ELSE IF e \in Nat THEN ledger + e ELSE e]

\* What the entries of the addresses in S become.
set_entries(S, e) == entry' = [s \in Subject |-> IF s \in S THEN e ELSE entry[s]]

MayExpire(e) == e \in Nat => e >= ledger

\* add_to_allowlist and add_multiple_to_allowlist, neither of which looks at
\* the pause; one address is a batch of one.
add_multiple_to_allowlist(caller, S, e) ==
  /\ RequireAdmin(caller)
  /\ Cardinality(S) <= MaxBatchSize
  /\ MayExpire(e)
  /\ set_entries(S, e)
  /\ ByCall(caller)
  /\ UNCHANGED <<roles, paused, upgrading>>

\* get_delegated_nonce: nothing stores DataKey::DelegatedNonce.
get_delegated_nonce(a) == 0

\* The holder of m.key signs delegated_action_message(m.subject, m.nonce,
\* m.expiry), which names no admin.
Sign(m) ==
  /\ Cardinality(signed) < MaxSigned
  /\ signed' = signed \cup {m}
  /\ by' = None /\ passed' = {}
  /\ UNCHANGED <<ledger, roles, paused, entry, upgrading, accepted, stale>>

\* Variant: the signature is verified and its expiry is not.
add_to_allowlist_delegated_Late(a, m) ==
  /\ ~paused
  /\ RequireAdmin(a)
  /\ m.nonce > get_delegated_nonce(a)
  /\ adminKey # None /\ m.key = adminKey
  /\ set_entries({m.subject}, Forever)
  /\ accepted' = [accepted EXCEPT ![a] = m.nonce]
  /\ stale' = (stale \/ m.nonce <= accepted[a])
  /\ by' = None /\ passed' = {}
  /\ UNCHANGED <<ledger, roles, paused, upgrading, signed>>

\* add_to_allowlist_delegated: a relayer submits m for the admin a, whose own
\* authorization is not asked for.
add_to_allowlist_delegated(a, m) ==
  /\ ~paused
  /\ RequireAdmin(a)
  /\ m.expiry > ledger
  /\ m.nonce > get_delegated_nonce(a)
  /\ adminKey # None /\ m.key = adminKey
  /\ set_entries({m.subject}, Forever)
  /\ accepted' = [accepted EXCEPT ![a] = m.nonce]
  /\ stale' = (stale \/ m.nonce <= accepted[a])
  /\ by' = None /\ passed' = {}
  /\ UNCHANGED <<ledger, roles, paused, upgrading, signed>>

\* require_compliance_authority, from its callers.
RequireComplianceAuthority(caller) == admin # None /\ caller \in {admin, officer}

remove_from_allowlist(caller, s) ==
  /\ ~paused
  /\ RequireComplianceAuthority(caller)
  /\ set_entries({s}, None)
  /\ ByCall(caller)
  /\ UNCHANGED <<roles, paused, upgrading>>

\* remove_multiple_from_allowlist, which does not look at the pause.
remove_multiple_from_allowlist(caller, S) ==
  /\ RequireComplianceAuthority(caller)
  /\ Cardinality(S) <= MaxBatchSize
  /\ set_entries(S, None)
  /\ ByCall(caller)
  /\ UNCHANGED <<roles, paused, upgrading>>

\* transfer: blocked, with Ok(false), unless both parties are allowed now.
transfer(from, to) ==
  /\ admin # None
  /\ ~paused
  /\ is_allowed(from) /\ is_allowed(to)
  /\ passed' = {from, to}
  /\ by' = None
  /\ UNCHANGED <<ledger, roles, paused, entry, upgrading, delegation>>

Next ==
  \/ CloseLedger
  \/ \E a \in Account : initialize(a)
  \/ \E m \in Message : Sign(m)
  \/ \E a \in Account : \E m \in signed : add_to_allowlist_delegated(a, m)
  \/ \E from, to \in Subject : transfer(from, to)
  \/ \E caller \in Account :
       \/ \E k \in Key : set_delegated_admin_key(caller, k)
       \/ \E a \in Account :
            \/ set_compliance_officer(caller, a)
            \/ propose_admin(caller, a)
            \/ transfer_admin(caller, a)
       \/ revoke_compliance_officer(caller)
       \/ accept_admin(caller)
       \/ pause(caller)
       \/ unpause(caller)
       \/ \E delay \in Delay : propose_upgrade(caller, delay)
       \/ commit_upgrade(caller)
       \/ cancel_upgrade(caller)
       \/ \E s \in Subject : remove_from_allowlist(caller, s)
       \/ \E S \in SUBSET Subject :
            \/ \E e \in Ledger \cup {Forever} : add_multiple_to_allowlist(caller, S, e)
            \/ remove_multiple_from_allowlist(caller, S)

Spec == Init /\ [][Next]_vars

-----------------------------------------------------------------------------
\* A pending handover is the current admin's: a rotation at once, which is for
\* keys that may be compromised, leaves no proposal of the old key behind.
PendingIsCurrentAdmins == pendingAdmin # None => nominator = admin

\* A pending upgrade becomes due no sooner than the review window after the
\* proposal it came from, whoever proposes over it, cancels or hands over.
UpgradeIsReviewed ==
  pendingUpgrade # None => proposedAt # None /\ pendingUpgrade >= proposedAt + MinDelay

\* Each call's nonce is strictly greater than the last one accepted for its
\* admin (lib.rs:34-37).
NoncesIncrease == ~stale

\* An address comes to be allowed by a call of the admin, or by a message for
\* this very address that the key configured now has signed and that has not
\* run out, and never by the officer, by time or by a change of roles; it
\* leaves by a call of the admin or the officer, or as its entry runs out. What
\* is forwarded is between addresses that are allowed at that moment.
GrantStep ==
  \A s \in Subject :
    /\ ~is_allowed(s) /\ is_allowed(s)' =>
         \/ by' = admin /\ admin # None
         \/ /\ ~paused /\ admin # None
            /\ \E m \in signed :
                 m.subject = s /\ m.key = adminKey /\ m.expiry > ledger
    /\ is_allowed(s) /\ ~is_allowed(s)' =>
         \/ by' \in {admin, officer} \ {None}
         \/ entry' = entry /\ ledger' > entry[s]
    /\ s \in passed' => is_allowed(s) /\ ~paused
GrantsAreAuthorized == [][GrantStep]_vars

\* The code is swapped only by the admin of the moment and only after a
\* proposal has stood for the review window.
UpgradeStep ==
  code' # code =>
    /\ by' = admin /\ admin # None
    /\ proposedAt # None /\ ledger >= proposedAt + MinDelay
UpgradeWasReviewed == [][UpgradeStep]_vars
=============================================================================
