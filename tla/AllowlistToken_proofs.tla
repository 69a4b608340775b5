-------------------------- MODULE AllowlistToken_proofs --------------------------
(***************************************************************************)
(* Proofs about AllowlistToken for every value of its constants.           *)
(***************************************************************************)
EXTENDS AllowlistToken, TLAPS

\* The calls by their effect: on roles and the pause, on upgrades, on entries.
RoleCall ==
  \/ \E a \in Account : initialize(a)
  \/ \E caller \in Account :
       \/ \E k \in Key : set_delegated_admin_key(caller, k)
       \/ \E a \in Account :
            \/ set_compliance_officer(caller, a)
            \/ propose_admin(caller, a)
            \/ transfer_admin(caller, a)
       \/ revoke_compliance_officer(caller)
       \/ accept_admin(caller)
       \/ pause(caller)
       \/ unpause(caller)

UpgradeCall ==
  \E caller \in Account :
    \/ \E delay \in Delay : propose_upgrade(caller, delay)
    \/ commit_upgrade(caller)
    \/ cancel_upgrade(caller)

\* Nobody proposes before there is an admin.
PendingAfterSetup == pendingAdmin # None => admin # None

\* The inductive invariant.
IInv == TypeOK /\ PendingIsCurrentAdmins /\ UpgradeIsReviewed /\ PendingAfterSetup

LEMMA InitIInv == Init => IInv
  <1> SUFFICES ASSUME Init PROVE IInv
    OBVIOUS
  <1>1. 0 \in Ledger /\ 0 \in 0..MaxUpgrades /\ 0 \in 0..MaxNonce
    BY BoundAssumption DEF Ledger
  <1>2. TypeOK
    BY <1>1, Zenon DEF Init, TypeOK
  <1>3. PendingIsCurrentAdmins /\ UpgradeIsReviewed /\ PendingAfterSetup
    BY DEF Init, PendingIsCurrentAdmins, UpgradeIsReviewed, PendingAfterSetup
  <1> QED BY <1>2, <1>3 DEF IInv

LEMMA RoleCallSafe ==
  ASSUME IInv, RoleCall
  PROVE  /\ IInv'
         /\ UNCHANGED <<ledger, entry, code>> /\ passed' = {}
  <1>1. UNCHANGED <<ledger, entry, upgrading, delegation>> /\ by' = None /\ passed' = {}
    BY DEF RoleCall, initialize, set_delegated_admin_key, set_compliance_officer,
           propose_admin, transfer_admin, revoke_compliance_officer, accept_admin,
           pause, unpause, ByCall
  <1>2. paused' \in BOOLEAN
    BY Zenon
       DEF IInv, TypeOK, RoleCall, initialize, set_delegated_admin_key,
           set_compliance_officer, propose_admin, transfer_admin,
           revoke_compliance_officer, accept_admin, pause, unpause, roles
  <1>3. /\ admin' \in Account \cup {None} /\ pendingAdmin' \in Account \cup {None}
        /\ officer' \in Account \cup {None} /\ nominator' \in Account \cup {None}
        /\ adminKey' \in Key \cup {None}
    BY DEF IInv, TypeOK, RoleCall, initialize, set_delegated_admin_key,
           set_compliance_officer, propose_admin, transfer_admin,
           revoke_compliance_officer, accept_admin, pause, unpause, roles
  <1>4. TypeOK'
    BY <1>1, <1>2, <1>3 DEF IInv, TypeOK, upgrading, delegation
  <1>5. PendingIsCurrentAdmins' /\ PendingAfterSetup'
    BY SetAssumption
       DEF IInv, PendingIsCurrentAdmins, PendingAfterSetup, RoleCall, initialize,
           set_delegated_admin_key, set_compliance_officer, propose_admin,
           transfer_admin, revoke_compliance_officer, accept_admin, pause, unpause,
           roles, RequireAdmin
  <1>6. UpgradeIsReviewed'
    BY <1>1 DEF IInv, UpgradeIsReviewed, upgrading
  <1> QED BY <1>1, <1>4, <1>5, <1>6 DEF IInv, upgrading

LEMMA UpgradeCallSafe ==
  ASSUME IInv, UpgradeCall
  PROVE  /\ IInv'
         /\ UNCHANGED <<ledger, entry>> /\ passed' = {}
         /\ UpgradeStep
  <1>1. PICK caller \in Account :
          \/ \E delay \in Delay : propose_upgrade(caller, delay)
          \/ commit_upgrade(caller)
          \/ cancel_upgrade(caller)
    BY DEF UpgradeCall
  <1>2. /\ UNCHANGED <<ledger, entry, roles, paused, delegation>>
        /\ passed' = {} /\ by' \in {caller, None}
    BY <1>1 DEF propose_upgrade, commit_upgrade, cancel_upgrade, ByCall
  <1>3. ledger \in Nat /\ MinDelay \in Nat /\ Delay \subseteq Nat /\ MaxUpgrades \in Nat
        /\ code \in Nat /\ code <= MaxUpgrades
    BY BoundAssumption DEF IInv, TypeOK, Ledger
  <1>4. /\ pendingUpgrade' \in Nat \cup {None} /\ proposedAt' \in Ledger \cup {None}
        /\ code' \in 0..MaxUpgrades
        /\ UpgradeIsReviewed'
    <2>1. ASSUME NEW delay \in Delay, propose_upgrade(caller, delay)
          PROVE  /\ pendingUpgrade' \in Nat /\ proposedAt' \in Ledger
                 /\ code' = code /\ UpgradeIsReviewed'
      <3>1. /\ pendingUpgrade' = ledger + delay /\ proposedAt' = ledger /\ code' = code
            /\ delay >= MinDelay /\ delay \in Nat
        BY <1>3, <2>1 DEF propose_upgrade
      <3>2. proposedAt' # None
        BY <1>3, <3>1, EntryAssumption
      <3>3. proposedAt' \in Ledger
        BY <3>1 DEF IInv, TypeOK
      <3> QED BY <1>3, <3>1, <3>2, <3>3 DEF UpgradeIsReviewed
    <2>2. CASE commit_upgrade(caller)
      <3>1. pendingUpgrade' = None /\ proposedAt' = None /\ code' = code + 1
            /\ code < MaxUpgrades
        BY <2>2 DEF commit_upgrade
      <3> QED BY <1>3, <3>1 DEF UpgradeIsReviewed
    <2>3. CASE cancel_upgrade(caller)
      <3>1. pendingUpgrade' = None /\ proposedAt' = None /\ code' = code
        BY <2>3 DEF cancel_upgrade
      <3> QED BY <1>3, <3>1 DEF UpgradeIsReviewed
    <2>4. code \in 0..MaxUpgrades
      BY DEF IInv, TypeOK
    <2> QED BY <1>1, <2>1, <2>2, <2>3, <2>4
  <1>5. TypeOK'
    BY <1>2, <1>4 DEF IInv, TypeOK, roles, delegation
  <1>6. PendingIsCurrentAdmins' /\ PendingAfterSetup'
    BY <1>2 DEF IInv, PendingIsCurrentAdmins, PendingAfterSetup, roles
  <1>7. UpgradeStep
    <2>1. CASE commit_upgrade(caller)
      <3>1. /\ by' = admin /\ admin # None
            /\ pendingUpgrade # None /\ ledger >= pendingUpgrade
        BY <2>1 DEF commit_upgrade, RequireAdmin, ByCall
      <3>2. /\ proposedAt # None /\ pendingUpgrade >= proposedAt + MinDelay
            /\ pendingUpgrade \in Nat /\ proposedAt \in Nat
        BY <3>1, BoundAssumption DEF IInv, TypeOK, UpgradeIsReviewed, Ledger
      <3> QED BY <1>3, <3>1, <3>2 DEF UpgradeStep
    <2>2. CASE ~commit_upgrade(caller)
      BY <1>1, <2>2 DEF propose_upgrade, cancel_upgrade, UpgradeStep
    <2> QED BY <2>1, <2>2
  <1> QED BY <1>2, <1>4, <1>5, <1>6, <1>7 DEF IInv

-----------------------------------------------------------------------------
\* The calls that edit entries.
EntryCall(caller) ==
  \/ \E s \in Subject : remove_from_allowlist(caller, s)
  \/ \E S \in SUBSET Subject :
       \/ \E e \in Ledger \cup {Forever} : add_multiple_to_allowlist(caller, S, e)
       \/ remove_multiple_from_allowlist(caller, S)

\* The invariant depends on the roles, the upgrade and the types alone.
LEMMA SameRoles ==
  ASSUME IInv, UNCHANGED <<roles, paused, upgrading>>, TypeOK'
  PROVE  IInv' /\ UpgradeStep
  BY DEF IInv, PendingIsCurrentAdmins, PendingAfterSetup, UpgradeIsReviewed,
         UpgradeStep, roles, upgrading

LEMMA EntriesSet ==
  ASSUME TypeOK, NEW S \in SUBSET Subject, NEW e \in Ledger \cup {None, Forever},
         set_entries(S, e)
  PROVE  /\ entry' \in [Subject -> Ledger \cup {None, Forever}]
         /\ \A s \in Subject : entry'[s] = IF s \in S THEN e ELSE entry[s]
  BY DEF TypeOK, set_entries

LEMMA EntryCallSafe ==
  ASSUME IInv, NEW caller \in Account, EntryCall(caller)
  PROVE  IInv' /\ UpgradeStep /\ GrantStep
  <1>1. /\ UNCHANGED <<ledger, roles, paused, upgrading, delegation>>
        /\ by' = caller /\ passed' = {} /\ caller # None
    BY SetAssumption
       DEF EntryCall, remove_from_allowlist, add_multiple_to_allowlist,
           remove_multiple_from_allowlist, ByCall
  <1>2. TypeOK
    BY DEF IInv
  <1>3. PICK S \in SUBSET Subject : \E e \in Ledger \cup {None, Forever} :
          /\ set_entries(S, e)
          /\ caller \in {admin, officer}
          /\ e # None => caller = admin
    <2>1. ASSUME NEW s \in Subject, remove_from_allowlist(caller, s)
          PROVE  set_entries({s}, None) /\ caller \in {admin, officer}
      BY <2>1 DEF remove_from_allowlist, RequireComplianceAuthority
    <2>2. ASSUME NEW S \in SUBSET Subject, NEW e \in Ledger \cup {Forever},
                 add_multiple_to_allowlist(caller, S, e)
          PROVE  set_entries(S, e) /\ caller = admin
      BY <2>2 DEF add_multiple_to_allowlist, RequireAdmin
    <2>3. ASSUME NEW S \in SUBSET Subject, remove_multiple_from_allowlist(caller, S)
          PROVE  set_entries(S, None) /\ caller \in {admin, officer}
      BY <2>3 DEF remove_multiple_from_allowlist, RequireComplianceAuthority
    <2>4. ASSUME NEW s \in Subject PROVE {s} \in SUBSET Subject
      OBVIOUS
    <2> QED BY <2>1, <2>2, <2>3, <2>4 DEF EntryCall
  <1>4. PICK e \in Ledger \cup {None, Forever} :
          /\ set_entries(S, e)
          /\ caller \in {admin, officer}
          /\ e # None => caller = admin
    BY <1>3
  <1>5. /\ entry' \in [Subject -> Ledger \cup {None, Forever}]
        /\ \A s \in Subject : entry'[s] = IF s \in S THEN e ELSE entry[s]
    BY <1>2, <1>4, EntriesSet
  <1>6. TypeOK'
    BY <1>1, <1>2, <1>5 DEF TypeOK, roles, upgrading, delegation
  <1>7. GrantStep
    <2>1. ASSUME NEW s \in Subject, ~is_allowed(s), is_allowed(s)'
          PROVE  by' = admin /\ admin # None
      <3>1. s \in S /\ e # None
        BY <1>1, <1>5, <2>1, EntryAssumption DEF is_allowed
      <3> QED BY <1>1, <1>4, <3>1
    <2> QED BY <1>1, <1>4, <2>1 DEF GrantStep
  <1> QED BY <1>1, <1>6, <1>7, SameRoles

LEMMA DelegatedSafe ==
  ASSUME IInv, NEW a \in Account, NEW m \in signed, add_to_allowlist_delegated(a, m)
  PROVE  IInv' /\ UpgradeStep /\ GrantStep
  <1>1. /\ UNCHANGED <<ledger, roles, paused, upgrading, signed>>
        /\ by' = None /\ passed' = {} /\ admin # None /\ ~paused
        /\ m.key = adminKey /\ m.expiry > ledger
        /\ accepted' = [accepted EXCEPT ![a] = m.nonce]
        /\ stale' = (stale \/ m.nonce <= accepted[a])
        /\ set_entries({m.subject}, Forever)
    BY DEF add_to_allowlist_delegated, RequireAdmin
  <1>2. TypeOK
    BY DEF IInv
  <1>3. m \in Message
    BY <1>2 DEF TypeOK
  <1>4. m.subject \in Subject /\ m.nonce \in 0..MaxNonce
    BY <1>3, BoundAssumption DEF Message
  <1>5. /\ entry' \in [Subject -> Ledger \cup {None, Forever}]
        /\ \A s \in Subject : entry'[s] = IF s \in {m.subject} THEN Forever ELSE entry[s]
    <2>1. {m.subject} \in SUBSET Subject
      BY <1>4
    <2> QED BY <1>1, <1>2, <2>1, EntriesSet
  <1>6. TypeOK'
    <2>1. accepted' \in [Account -> 0..MaxNonce]
      BY <1>1, <1>2, <1>4 DEF TypeOK
    <2>2. stale' \in BOOLEAN
      BY <1>1, <1>2, Zenon DEF TypeOK
    <2> QED BY <1>1, <1>2, <1>5, <2>1, <2>2 DEF TypeOK, roles, upgrading
  <1>7. GrantStep
    <2>1. ASSUME NEW s \in Subject
          PROVE  /\ ~is_allowed(s) /\ is_allowed(s)' => s = m.subject
                 /\ is_allowed(s) => is_allowed(s)'
      <3>1. CASE s = m.subject
        BY <1>5, <3>1 DEF is_allowed
      <3>2. CASE s # m.subject
        <4>1. entry'[s] = entry[s] /\ ledger' = ledger
          BY <1>1, <1>5, <3>2
        <4> QED BY <4>1 DEF is_allowed
      <3> QED BY <3>1, <3>2
    <2> QED BY <1>1, <2>1 DEF GrantStep
  <1> QED BY <1>1, <1>6, <1>7, SameRoles

\* Entries and clock as they were: nothing is granted or revoked.
LEMMA NothingGranted ==
  ASSUME UNCHANGED <<ledger, entry>>, passed' = {}
  PROVE  GrantStep
  BY DEF GrantStep, is_allowed

LEMMA ClockSafe ==
  ASSUME IInv, CloseLedger
  PROVE  IInv' /\ UpgradeStep /\ GrantStep
  <1>1. /\ ledger < MaxLedger /\ ledger' = ledger + 1 /\ by' = None /\ passed' = {}
        /\ UNCHANGED <<roles, paused, entry, upgrading, delegation>>
    BY DEF CloseLedger
  <1>2. ledger \in Nat /\ ledger' \in Ledger
    BY <1>1, BoundAssumption DEF IInv, TypeOK, Ledger
  <1>3. TypeOK'
    BY <1>1, <1>2 DEF IInv, TypeOK, roles, upgrading, delegation
  <1>4. GrantStep
    <2>1. ASSUME NEW s \in Subject
          PROVE  /\ ~is_allowed(s) => ~is_allowed(s)'
                 /\ is_allowed(s) /\ ~is_allowed(s)' => ledger' > entry[s]
      BY <1>1, <1>2 DEF is_allowed
    <2> QED BY <1>1, <2>1 DEF GrantStep
  <1> QED BY <1>1, <1>3, <1>4, SameRoles

LEMMA StepSafe ==
  IInv /\ [Next]_vars => IInv' /\ [UpgradeStep]_vars /\ [GrantStep]_vars
  <1> SUFFICES ASSUME IInv, [Next]_vars
               PROVE  IInv' /\ ((UpgradeStep /\ GrantStep) \/ UNCHANGED vars)
    OBVIOUS
  <1>1. CASE CloseLedger
    BY <1>1, ClockSafe
  <1>2. CASE RoleCall
    BY <1>2, RoleCallSafe, NothingGranted DEF UpgradeStep
  <1>3. CASE UpgradeCall
    BY <1>3, UpgradeCallSafe, NothingGranted
  <1>4. ASSUME NEW caller \in Account, EntryCall(caller)
        PROVE  IInv' /\ UpgradeStep /\ GrantStep
    BY <1>4, EntryCallSafe
  <1>5. ASSUME NEW a \in Account, NEW m \in signed, add_to_allowlist_delegated(a, m)
        PROVE  IInv' /\ UpgradeStep /\ GrantStep
    BY <1>5, DelegatedSafe
  <1>6. ASSUME NEW m \in Message, Sign(m)
        PROVE  IInv' /\ UpgradeStep /\ GrantStep
    <2>1. /\ UNCHANGED <<ledger, roles, paused, entry, upgrading, accepted, stale>>
          /\ by' = None /\ passed' = {} /\ signed' = signed \cup {m}
      BY <1>6 DEF Sign
    <2>2. TypeOK'
      BY <2>1 DEF IInv, TypeOK, roles, upgrading
    <2> QED BY <2>1, <2>2, SameRoles, NothingGranted
  <1>7. ASSUME NEW from \in Subject, NEW to \in Subject, transfer(from, to)
        PROVE  IInv' /\ UpgradeStep /\ GrantStep
    <2>1. /\ UNCHANGED <<ledger, roles, paused, entry, upgrading, delegation>>
          /\ by' = None /\ passed' = {from, to}
          /\ is_allowed(from) /\ is_allowed(to) /\ ~paused
      BY <1>7 DEF transfer
    <2>2. TypeOK'
      BY <2>1 DEF IInv, TypeOK, roles, upgrading, delegation
    <2>3. GrantStep
      BY <2>1 DEF GrantStep, is_allowed
    <2> QED BY <2>1, <2>2, <2>3, SameRoles
  <1>8. CASE UNCHANGED vars
    <2>1. UNCHANGED <<ledger, roles, paused, entry, upgrading, delegation, by, passed>>
      BY <1>8 DEF vars
    <2>2. TypeOK'
      BY <2>1 DEF IInv, TypeOK, roles, upgrading, delegation
    <2> QED BY <1>8, <2>1, <2>2, SameRoles
  <1> QED BY <1>1, <1>2, <1>3, <1>4, <1>5, <1>6, <1>7, <1>8
      DEF Next, RoleCall, UpgradeCall, EntryCall

-----------------------------------------------------------------------------
\* Storage keeps its shape.
THEOREM AllowlistTypeCorrect == Spec => []TypeOK
  <1>1. IInv => TypeOK
    BY DEF IInv
  <1> QED BY <1>1, InitIInv, StepSafe, PTL DEF Spec

\* No proposal of an admin who has left office can ever be accepted.
THEOREM ProposalSafe == Spec => []PendingIsCurrentAdmins
  <1>1. IInv => PendingIsCurrentAdmins
    BY DEF IInv
  <1> QED BY <1>1, InitIInv, StepSafe, PTL DEF Spec

\* Allowlisting, leaving the list and forwarding happen on the authority that
\* the property names, however many handovers, messages and expiries intervene.
THEOREM GrantsSafe == Spec => GrantsAreAuthorized
  <1> QED BY InitIInv, StepSafe, PTL DEF Spec, GrantsAreAuthorized

\* A code swap follows a proposal that stood for the review window.
THEOREM UpgradesReviewed == Spec => UpgradeWasReviewed
  <1> QED BY InitIInv, StepSafe, PTL DEF Spec, UpgradeWasReviewed
=============================================================================
