----------------------------- MODULE DenylistGate -----------------------------
(***************************************************************************)
(* contracts/denylist-gate, except its signer set (DenylistSignerSet):     *)
(* the roles and their handover, the pause, the denylist, the timelocked   *)
(* upgrade, and the best-effort audit write into an audit-log contract,    *)
(* which is the module AuditLog under the same clock. The log is shared:   *)
(* other contracts and accounts record entries of their own in it, of any  *)
(* kind and about any address, the gate's kinds and subjects included.     *)
(*                                                                         *)
(* Abstracted: the order of the addresses of a batch, the wording of audit *)
(* details (all of them fit the log's limit), TTL extension, and events    *)
(* other than AuditLogFailed.                                              *)
(***************************************************************************)
EXTENDS Integers, FiniteSets

CONSTANTS
  Account,        \* admins, officers and those who would be
  Subject,        \* the addresses a denylist is about
  Wasm,           \* WASM hashes
  None,           \* an absent storage entry
  Gate,           \* this contract, as the source of audit entries
  Recorder,       \* the other sources that authorize entries in the same log
  OtherKind,      \* the kinds of entry only they record
  Log,            \* the address of the audit log
  NotALog,        \* an address where no audit log answers
  MinDelay,       \* MIN_UPGRADE_DELAY_LEDGERS
  MaxBatchSize,   \* MAX_BATCH_SIZE
  MaxDelay,       \* bound: the longest delay proposed
  MaxLedger,      \* bound: the last ledger of a behaviour
  MaxEntries      \* bound: how many audit entries a behaviour records

ASSUME DelayAssumption ==
  MinDelay \in Nat /\ MaxDelay \in Nat /\ MaxLedger \in Nat
ASSUME EntriesAssumption == MaxEntries \in Nat
ASSUME NoneAssumption == None \notin Account /\ None \notin {Log, NotALog}
\* source.require_auth: nobody else can authorize an entry in the gate's name.
ASSUME RecorderAssumption == Gate \notin Recorder

VARIABLES
  ledger,          \* env.ledger().sequence()
  admin,           \* DataKey::Admin
  pendingAdmin,    \* DataKey::PendingAdmin
  officer,         \* DataKey::ComplianceOfficer
  paused,          \* DataKey::Paused
  auditLog,        \* DataKey::AuditLog
  denied,          \* the addresses with a DataKey::Denied entry
  pendingUpgrade,  \* DataKey::PendingUpgrade
  wasm,            \* the code the instance runs
  \* the audit log contract
  logAdmin, logPaused, entryCount, entry, logCode,
  \* history
  nominator,       \* who made the proposal in pendingAdmin
  since,           \* the ledger the upgrade in pendingUpgrade was proposed at
  trail            \* trail[s]: what became of the last change of s in the log

AuditKind == {"deny_add", "deny_remove"} \cup OtherKind

Audit == INSTANCE AuditLog WITH Source <- {Gate} \cup Recorder, Kind <- AuditKind,
                                Code <- {Log}

ASSUME EntryAssumption == None \notin Audit!LogEntry

logVars == <<logAdmin, logPaused, entryCount, entry, logCode>>
roles == <<admin, pendingAdmin, officer, nominator>>
upgrades == <<pendingUpgrade, wasm, since>>
vars == <<ledger, roles, paused, auditLog, denied, upgrades, logVars, trail>>

UpgradeState == [new_wasm : Wasm, activated_at : 0..(MaxLedger + MaxDelay)]
Fate == {"unlogged", "recorded", "failed"}

TypeOK ==
  /\ ledger \in 0..MaxLedger
  /\ admin \in Account \cup {None}
  /\ pendingAdmin \in Account \cup {None}
  /\ officer \in Account \cup {None}
  /\ paused \in BOOLEAN
  /\ auditLog \in {None, Log, NotALog}
  /\ denied \in SUBSET Subject
  /\ pendingUpgrade \in UpgradeState \cup {None}
  /\ wasm \in Wasm
  /\ Audit!LogTypeOK
  /\ nominator \in Account \cup {None}
  /\ since \in 0..MaxLedger
  /\ trail \in [Subject -> Fate]

-----------------------------------------------------------------------------
Init ==
  /\ ledger = 0
  /\ admin = None /\ pendingAdmin = None /\ officer = None
  /\ paused = FALSE
  /\ auditLog = None
  /\ denied = {}
  /\ pendingUpgrade = None
  /\ wasm \in Wasm
  /\ Audit!Init
  /\ nominator = None
  /\ since = 0
  /\ trail = [s \in Subject |-> "unlogged"]

CloseLedger ==
  /\ ledger < MaxLedger
  /\ ledger' = ledger + 1
  /\ UNCHANGED <<roles, paused, auditLog, denied, upgrades, logVars, trail>>

\* The log's own admin works on it, in transactions of their own.
AdministerLog ==
  /\ Audit!Administer
  /\ UNCHANGED <<ledger, roles, paused, auditLog, denied, upgrades, trail>>

\* Any other source that authorizes its own entry writes it, of whatever kind
\* and about whomever: the log's admin is not asked.
RecordByOthers ==
  /\ \E src \in Recorder, kind \in AuditKind, s \in Subject, fits \in BOOLEAN :
       Audit!record(src, kind, s, fits)
  /\ UNCHANGED <<ledger, roles, paused, auditLog, denied, upgrades, trail>>

\* initialize: whoever calls first names the admin, who authorizes it.
initialize(a) ==
  /\ admin = None
  /\ admin' = a
  /\ paused' = FALSE
  /\ UNCHANGED <<ledger, pendingAdmin, officer, nominator, auditLog, denied,
                 upgrades, logVars, trail>>

\* require_admin: caller authorized the call and is the stored admin.
RequireAdmin(caller) == admin # None /\ caller = admin

-----------------------------------------------------------------------------
\* Roles.

set_compliance_officer(caller, a) ==
  /\ RequireAdmin(caller)
  /\ officer' = a
  /\ UNCHANGED <<ledger, admin, pendingAdmin, nominator, paused, auditLog,
                 denied, upgrades, logVars, trail>>

revoke_compliance_officer(caller) ==
  /\ RequireAdmin(caller)
  /\ officer' = None
  /\ UNCHANGED <<ledger, admin, pendingAdmin, nominator, paused, auditLog,
                 denied, upgrades, logVars, trail>>

propose_admin(caller, a) ==
  /\ RequireAdmin(caller)
  /\ pendingAdmin' = a
  /\ nominator' = caller
  /\ UNCHANGED <<ledger, admin, officer, paused, auditLog, denied, upgrades,
                 logVars, trail>>

\* accept_admin: the caller authorizes and must be the one proposed.
accept_admin(caller) ==
  /\ pendingAdmin # None
  /\ pendingAdmin = caller
  /\ admin # None
  /\ admin' = caller
  /\ pendingAdmin' = None
  /\ nominator' = None
  /\ UNCHANGED <<ledger, officer, paused, auditLog, denied, upgrades,
                 logVars, trail>>

cancel_admin_proposal(caller) ==
  /\ RequireAdmin(caller)
  /\ pendingAdmin # None
  /\ pendingAdmin' = None
  /\ nominator' = None
  /\ UNCHANGED <<ledger, admin, officer, paused, auditLog, denied, upgrades,
                 logVars, trail>>

\* Variant, not in Next: the emergency rotation leaves the proposal pending.
transfer_admin_KeepsProposal(caller, a) ==
  /\ RequireAdmin(caller)
  /\ admin' = a
  /\ UNCHANGED <<ledger, pendingAdmin, nominator, officer, paused, auditLog,
                 denied, upgrades, logVars, trail>>

\* transfer_admin: at once, and the pending proposal goes with the old admin.
transfer_admin(caller, a) ==
  /\ RequireAdmin(caller)
  /\ admin' = a
  /\ pendingAdmin' = None
  /\ nominator' = None
  /\ UNCHANGED <<ledger, officer, paused, auditLog, denied, upgrades, logVars,
                 trail>>

-----------------------------------------------------------------------------
\* Pause and audit-log wiring.

pause(caller) ==
  /\ RequireAdmin(caller)
  /\ paused' = TRUE
  /\ UNCHANGED <<ledger, roles, auditLog, denied, upgrades, logVars, trail>>

unpause(caller) ==
  /\ RequireAdmin(caller)
  /\ paused' = FALSE
  /\ UNCHANGED <<ledger, roles, auditLog, denied, upgrades, logVars, trail>>

set_audit_log(caller, log) ==
  /\ RequireAdmin(caller)
  /\ auditLog' = log
  /\ UNCHANGED <<ledger, roles, paused, denied, upgrades, logVars, trail>>

clear_audit_log(caller) ==
  /\ RequireAdmin(caller)
  /\ auditLog' = None
  /\ UNCHANGED <<ledger, roles, paused, denied, upgrades, logVars, trail>>

-----------------------------------------------------------------------------
\* The timelocked upgrade. None of it is stopped by the pause.

\* A proposal replaces the pending one and its review starts again.
propose_upgrade(caller, hash, delay) ==
  /\ RequireAdmin(caller)
  /\ delay >= MinDelay
  /\ pendingUpgrade' = [new_wasm |-> hash, activated_at |-> ledger + delay]
  /\ since' = ledger
  /\ UNCHANGED <<ledger, roles, paused, auditLog, denied, wasm, logVars, trail>>

\* Variant: the review is over one ledger early.
commit_upgrade_Early(caller) ==
  /\ RequireAdmin(caller)
  /\ pendingUpgrade # None
  /\ ledger + 1 >= pendingUpgrade.activated_at
  /\ wasm' = pendingUpgrade.new_wasm
  /\ pendingUpgrade' = None
  /\ since' = 0
  /\ UNCHANGED <<ledger, roles, paused, auditLog, denied, logVars, trail>>

commit_upgrade(caller) ==
  /\ RequireAdmin(caller)
  /\ pendingUpgrade # None
  /\ ledger >= pendingUpgrade.activated_at
  /\ wasm' = pendingUpgrade.new_wasm
  /\ pendingUpgrade' = None
  /\ since' = 0
  /\ UNCHANGED <<ledger, roles, paused, auditLog, denied, logVars, trail>>

cancel_upgrade(caller) ==
  /\ RequireAdmin(caller)
  /\ pendingUpgrade' = None
  /\ since' = 0
  /\ UNCHANGED <<ledger, roles, paused, auditLog, denied, wasm, logVars, trail>>

-----------------------------------------------------------------------------
\* The denylist.

\* reject_if_paused, then require_compliance_authority: the caller authorized
\* the call and is the admin or the officer.
MayEdit(caller) ==
  /\ ~paused
  /\ admin # None
  /\ caller \in {admin, officer}

\* record_audit: try_record contains every failure of the log, which is then
\* announced by an AuditLogFailed event instead of reverting the caller.
record_audit(kind, s) ==
  \/ /\ auditLog = None
     /\ trail' = [trail EXCEPT ![s] = "unlogged"]
     /\ UNCHANGED logVars
  \/ /\ auditLog = Log
     /\ Audit!record(Gate, kind, s, TRUE)
     /\ trail' = [trail EXCEPT ![s] = "recorded"]
  \/ /\ auditLog # None
     /\ ~(auditLog = Log /\ Audit!Accepts(TRUE))
     /\ trail' = [trail EXCEPT ![s] = "failed"]
     /\ UNCHANGED logVars

add_to_denylist(caller, s) ==
  /\ MayEdit(caller)
  /\ denied' = denied \cup {s}
  /\ record_audit("deny_add", s)
  /\ UNCHANGED <<ledger, roles, paused, auditLog, upgrades>>

\* Variant: the entry carries the name of the event instead of the kind.
remove_from_denylist_WrongKind(caller, s) ==
  /\ MayEdit(caller)
  /\ denied' = denied \ {s}
  /\ record_audit("DenyRemove", s)
  /\ UNCHANGED <<ledger, roles, paused, auditLog, upgrades>>

remove_from_denylist(caller, s) ==
  /\ MayEdit(caller)
  /\ denied' = denied \ {s}
  /\ record_audit("deny_remove", s)
  /\ UNCHANGED <<ledger, roles, paused, auditLog, upgrades>>

\* remove_multiple_from_denylist: up to MAX_BATCH_SIZE addresses, and no call
\* of record_audit: what it lifts leaves the log as it was.
remove_multiple_from_denylist(caller, batch) ==
  /\ MayEdit(caller)
  /\ Cardinality(batch) <= MaxBatchSize
  /\ denied' = denied \ batch
  /\ trail' = [s \in Subject |->
                 IF s \in batch \cap denied THEN "unlogged" ELSE trail[s]]
  /\ UNCHANGED <<ledger, roles, paused, auditLog, upgrades, logVars>>

-----------------------------------------------------------------------------
Next ==
  \/ CloseLedger
  \/ AdministerLog
  \/ RecordByOthers
  \/ \E a \in Account : initialize(a)
  \/ \E caller \in Account :
       \/ \E a \in Account :
            \/ set_compliance_officer(caller, a)
            \/ propose_admin(caller, a)
            \/ transfer_admin(caller, a)
       \/ revoke_compliance_officer(caller)
       \/ accept_admin(caller)
       \/ cancel_admin_proposal(caller)
       \/ pause(caller) \/ unpause(caller)
       \/ \E log \in {Log, NotALog} : set_audit_log(caller, log)
       \/ clear_audit_log(caller)
       \/ \E hash \in Wasm, delay \in 0..MaxDelay : propose_upgrade(caller, hash, delay)
       \/ commit_upgrade(caller)
       \/ cancel_upgrade(caller)
       \/ \E s \in Subject : add_to_denylist(caller, s) \/ remove_from_denylist(caller, s)
       \/ \E batch \in SUBSET Subject : remove_multiple_from_denylist(caller, batch)

Spec == Init /\ [][Next]_vars

-----------------------------------------------------------------------------
\* A pending handover is always the current admin's: a proposal made by an
\* admin who has since been rotated out (transfer_admin) or has handed over
\* (accept_admin) can never be accepted.
PendingIsCurrentAdmins == pendingAdmin # None => nominator = admin

\* Code is installed only if that very code was announced by propose_upgrade
\* and stayed pending, not replaced and not withdrawn, for the whole minimum
\* review window.
UpgradeStep ==
  wasm' # wasm =>
    /\ pendingUpgrade # None
    /\ wasm' = pendingUpgrade.new_wasm
    /\ ledger >= since + MinDelay
UpgradeWasReviewed == [][UpgradeStep]_vars

\* The indices of the gate's own entries about s.
EntriesAbout(s) ==
  {i \in Audit!Index : /\ entry[i] # None
                       /\ entry[i].source = Gate /\ entry[i].subject = s}

\* For an address whose last change was recorded, the newest entry the gate
\* wrote about it tells what the denylist says, whatever the log refused in
\* between and whatever others wrote about the same address in the same log.
TrailAgrees ==
  \A s \in Subject : trail[s] = "recorded" =>
    \E i \in EntriesAbout(s) :
      /\ \A j \in EntriesAbout(s) : j <= i
      /\ entry[i].kind = (IF s \in denied THEN "deny_add" ELSE "deny_remove")

\* Gate and other sources writing in turn, and whatever the log's admin does
\* meanwhile, an entry that was counted is never rewritten and the counter
\* never goes back.
LogIsAppendOnly == Audit!AppendOnly
=============================================================================
