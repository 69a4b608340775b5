-------------------------- MODULE DenylistGate_proofs --------------------------
(***************************************************************************)
(* Proofs about DenylistGate, with the audit log it writes to, for every   *)
(* value of the constants.                                                 *)
(***************************************************************************)
EXTENDS DenylistGate, TLAPS

\* The calls by what they change: roles, pause and wiring; the upgrade; the
\* denylist.
RoleCall ==
  \/ \E a \in Account : initialize(a)
  \/ \E caller \in Account :
       \/ \E a \in Account :
            \/ set_compliance_officer(caller, a)
            \/ propose_admin(caller, a)
            \/ transfer_admin(caller, a)
       \/ revoke_compliance_officer(caller)
       \/ accept_admin(caller)
       \/ cancel_admin_proposal(caller)
       \/ pause(caller) \/ unpause(caller)
       \/ \E log \in {Log, NotALog} : set_audit_log(caller, log)
       \/ clear_audit_log(caller)

UpgradeCall ==
  \E caller \in Account :
    \/ \E hash \in Wasm, delay \in 0..MaxDelay : propose_upgrade(caller, hash, delay)
    \/ commit_upgrade(caller)
    \/ cancel_upgrade(caller)

\* Nobody proposes before there is an admin.
PendingAfterSetup == pendingAdmin # None => admin # None

\* A pending upgrade is not due before its review is over.
DueAfterReview ==
  pendingUpgrade # None => since + MinDelay <= pendingUpgrade.activated_at

\* The counter and the entries of the log agree, and a log that was not set up
\* is empty: initialize, the one call that writes the counter besides record,
\* finds it at zero.
LogIsDense ==
  /\ \A i \in Audit!Index : entry[i] # None <=> i < entryCount
  /\ logAdmin = None => entryCount = 0

\* The inductive invariant.
IInv ==
  /\ TypeOK
  /\ PendingIsCurrentAdmins /\ PendingAfterSetup
  /\ DueAfterReview
  /\ LogIsDense
  /\ TrailAgrees

LEMMA InitIInv == Init => IInv
  <1> SUFFICES ASSUME Init PROVE IInv
    OBVIOUS
  <1>1. 0 \in 0..MaxLedger /\ 0 \in 0..MaxEntries
    BY DelayAssumption, EntriesAssumption
  <1>2. Audit!LogTypeOK
    BY <1>1, Zenon DEF Init, Audit!Init, Audit!LogTypeOK
  <1>3. TypeOK
    BY <1>1, <1>2, Zenon DEF Init, TypeOK, Fate
  <1>4. LogIsDense
    BY DEF Init, Audit!Init, LogIsDense, Audit!Index
  <1>5. PendingIsCurrentAdmins /\ PendingAfterSetup /\ DueAfterReview /\ TrailAgrees
    BY Zenon DEF Init, PendingIsCurrentAdmins, PendingAfterSetup, DueAfterReview,
               TrailAgrees
  <1> QED BY <1>3, <1>4, <1>5 DEF IInv

-----------------------------------------------------------------------------
\* What a step leaves alone keeps the parts of the invariant that read it.
LEMMA SameRoles ==
  ASSUME IInv, UNCHANGED roles
  PROVE  PendingIsCurrentAdmins' /\ PendingAfterSetup'
  BY DEF IInv, roles, PendingIsCurrentAdmins, PendingAfterSetup

LEMMA SameUpgrades ==
  ASSUME IInv, UNCHANGED upgrades
  PROVE  DueAfterReview' /\ UpgradeStep
  BY DEF IInv, upgrades, DueAfterReview, UpgradeStep

LEMMA SameLog ==
  ASSUME IInv, UNCHANGED logVars
  PROVE  LogIsDense' /\ Audit!AppendStep /\ Audit!LogTypeOK'
  <1>1. entryCount <= entryCount
    BY DEF IInv, TypeOK, Audit!LogTypeOK
  <1> QED BY <1>1 DEF IInv, TypeOK, logVars, LogIsDense, Audit!AppendStep,
             Audit!LogTypeOK

LEMMA SameTrail ==
  ASSUME IInv, UNCHANGED <<denied, entry, trail>>
  PROVE  TrailAgrees'
  BY DEF IInv, TrailAgrees, EntriesAbout

LEMMA RoleCallSafe ==
  ASSUME IInv, RoleCall
  PROVE  IInv' /\ UpgradeStep /\ Audit!AppendStep
  <1>1. UNCHANGED <<ledger, denied, upgrades, logVars, trail>>
    BY DEF RoleCall, initialize, set_compliance_officer, propose_admin, transfer_admin,
           revoke_compliance_officer, accept_admin, cancel_admin_proposal, pause,
           unpause, set_audit_log, clear_audit_log
  <1>2. paused' \in BOOLEAN
    BY Zenon
       DEF IInv, TypeOK, RoleCall, initialize, set_compliance_officer, propose_admin,
           transfer_admin, revoke_compliance_officer, accept_admin,
           cancel_admin_proposal, pause, unpause, set_audit_log, clear_audit_log
  <1>3. /\ admin' \in Account \cup {None} /\ pendingAdmin' \in Account \cup {None}
        /\ officer' \in Account \cup {None} /\ nominator' \in Account \cup {None}
        /\ auditLog' \in {None, Log, NotALog}
    BY DEF IInv, TypeOK, RoleCall, initialize, set_compliance_officer, propose_admin,
           transfer_admin, revoke_compliance_officer, accept_admin,
           cancel_admin_proposal, pause, unpause, set_audit_log, clear_audit_log, roles
  <1>4. LogIsDense' /\ Audit!AppendStep /\ Audit!LogTypeOK'
    BY <1>1, SameLog
  <1>5. TypeOK'
    BY <1>1, <1>2, <1>3, <1>4 DEF IInv, TypeOK, upgrades
  <1>6. PendingIsCurrentAdmins' /\ PendingAfterSetup'
    BY NoneAssumption
       DEF IInv, PendingIsCurrentAdmins, PendingAfterSetup, RoleCall, initialize,
           set_compliance_officer, propose_admin, transfer_admin,
           revoke_compliance_officer, accept_admin, cancel_admin_proposal, pause,
           unpause, set_audit_log, clear_audit_log, roles, RequireAdmin
  <1>7. TrailAgrees'
    BY <1>1, SameTrail DEF logVars
  <1> QED BY <1>1, <1>4, <1>5, <1>6, <1>7, SameUpgrades DEF IInv

-----------------------------------------------------------------------------
\* The upgrade: a proposal restarts the review it is checked against.
LEMMA UpgradeCallSafe ==
  ASSUME IInv, UpgradeCall
  PROVE  IInv' /\ UpgradeStep /\ Audit!AppendStep
  <1>1. PICK caller \in Account :
          \/ \E hash \in Wasm, delay \in 0..MaxDelay : propose_upgrade(caller, hash, delay)
          \/ commit_upgrade(caller)
          \/ cancel_upgrade(caller)
    BY DEF UpgradeCall
  <1>2. UNCHANGED <<ledger, roles, paused, auditLog, denied, logVars, trail>>
    BY <1>1 DEF propose_upgrade, commit_upgrade, cancel_upgrade
  <1>3. /\ ledger \in Nat /\ ledger <= MaxLedger /\ MinDelay \in Nat
        /\ MaxDelay \in Nat /\ MaxLedger \in Nat /\ 0 \in 0..MaxLedger
    BY DelayAssumption DEF IInv, TypeOK
  <1>4. /\ pendingUpgrade' \in UpgradeState \cup {None}
        /\ since' \in 0..MaxLedger /\ wasm' \in Wasm
        /\ DueAfterReview' /\ UpgradeStep
    <2>1. ASSUME NEW hash \in Wasm, NEW delay \in 0..MaxDelay,
                 propose_upgrade(caller, hash, delay)
          PROVE  /\ pendingUpgrade' \in UpgradeState \cup {None}
                 /\ since' \in 0..MaxLedger /\ wasm' \in Wasm
                 /\ DueAfterReview' /\ UpgradeStep
      <3>1. /\ pendingUpgrade' = [new_wasm |-> hash, activated_at |-> ledger + delay]
            /\ since' = ledger /\ wasm' = wasm /\ delay >= MinDelay
        BY <2>1 DEF propose_upgrade
      <3>2. ledger + delay \in 0..(MaxLedger + MaxDelay)
        BY <1>3
      <3>3. since' + MinDelay <= pendingUpgrade'.activated_at
        BY <1>3, <3>1
      <3> QED BY <1>3, <3>1, <3>2, <3>3
          DEF IInv, TypeOK, UpgradeState, DueAfterReview, UpgradeStep
    <2>2. CASE commit_upgrade(caller)
      <3>1. /\ pendingUpgrade # None /\ ledger >= pendingUpgrade.activated_at
            /\ wasm' = pendingUpgrade.new_wasm /\ pendingUpgrade' = None /\ since' = 0
        BY <2>2 DEF commit_upgrade
      <3>2. /\ pendingUpgrade.new_wasm \in Wasm
            /\ pendingUpgrade.activated_at \in Nat /\ since \in Nat
        BY <1>3, <3>1 DEF IInv, TypeOK, UpgradeState
      <3>3. ledger >= since + MinDelay
        BY <1>3, <3>1, <3>2 DEF IInv, DueAfterReview
      <3> QED BY <1>3, <3>1, <3>2, <3>3 DEF DueAfterReview, UpgradeStep
    <2>3. CASE cancel_upgrade(caller)
      BY <1>3, <2>3 DEF cancel_upgrade, IInv, TypeOK, DueAfterReview, UpgradeStep
    <2> QED BY <1>1, <2>1, <2>2, <2>3
  <1>5. LogIsDense' /\ Audit!AppendStep /\ Audit!LogTypeOK'
    BY <1>2, SameLog
  <1>6. TypeOK'
    BY <1>2, <1>4, <1>5 DEF IInv, TypeOK, roles
  <1>7. TrailAgrees'
    BY <1>2, SameTrail DEF logVars
  <1> QED BY <1>2, <1>4, <1>5, <1>6, <1>7, SameRoles DEF IInv

-----------------------------------------------------------------------------
\* The log's own admin: nothing it does reaches an entry or the counter of a
\* log in use.
LEMMA AdministerLogSafe ==
  ASSUME IInv, AdministerLog
  PROVE  IInv' /\ UpgradeStep /\ Audit!AppendStep
  <1>1. UNCHANGED <<ledger, roles, paused, auditLog, denied, upgrades, trail>>
    BY DEF AdministerLog
  <1>2. PICK a \in Account :
          \/ Audit!initialize(a) \/ Audit!pause(a) \/ Audit!unpause(a)
          \/ \E hash \in {Log} : Audit!upgrade(a, hash)
    BY DEF AdministerLog, Audit!Administer
  <1>3. entryCount \in 0..MaxEntries /\ entryCount \in Nat
    BY DEF IInv, TypeOK, Audit!LogTypeOK
  <1>4. entryCount' = entryCount /\ entry' = entry
    BY <1>2 DEF IInv, LogIsDense, Audit!initialize, Audit!pause, Audit!unpause,
               Audit!upgrade
  <1>5. logPaused' \in BOOLEAN
    BY <1>2, Zenon DEF IInv, TypeOK, Audit!LogTypeOK, Audit!initialize, Audit!pause,
                      Audit!unpause, Audit!upgrade
  <1>6. logAdmin' \in Account \cup {None} /\ logCode' \in {Log}
        /\ (logAdmin' = None => logAdmin = None)
    BY <1>2, NoneAssumption
       DEF IInv, TypeOK, Audit!LogTypeOK, Audit!initialize, Audit!pause,
           Audit!unpause, Audit!upgrade
  <1>7. Audit!LogTypeOK'
    BY <1>4, <1>5, <1>6 DEF IInv, TypeOK, Audit!LogTypeOK
  <1>8. LogIsDense' /\ Audit!AppendStep
    BY <1>3, <1>4, <1>6 DEF IInv, LogIsDense, Audit!AppendStep
  <1>9. TypeOK'
    BY <1>1, <1>7 DEF IInv, TypeOK, roles, upgrades
  <1> QED BY <1>1, <1>4, <1>8, <1>9, SameRoles, SameUpgrades, SameTrail DEF IInv

-----------------------------------------------------------------------------
\* An entry, whoever wrote it, goes to the first free index, so it is the newest,
\* and for every other subject the gate's entries are what they were before; when
\* somebody else wrote it, for its own subject too.
LEMMA Recorded ==
  ASSUME IInv, NEW src \in {Gate} \cup Recorder, NEW kind \in AuditKind,
         NEW s \in Subject, NEW fits \in BOOLEAN, Audit!record(src, kind, s, fits)
  PROVE  /\ LogIsDense' /\ Audit!AppendStep /\ Audit!LogTypeOK'
         /\ entryCount \in Audit!Index
         /\ \A j \in Audit!Index : entry'[j] # None => j <= entryCount
         /\ entry'[entryCount] = [source |-> src, kind |-> kind, subject |-> s]
         /\ entry'[entryCount] # None
         /\ \A t \in Subject : t # s \/ src # Gate => EntriesAbout(t)' = EntriesAbout(t)
         /\ \A j \in Audit!Index : j # entryCount => entry'[j] = entry[j]
  <1> DEFINE new == [source |-> src, kind |-> kind, subject |-> s]
  <1>1. /\ entryCount < MaxEntries /\ entry' = [entry EXCEPT ![entryCount] = new]
        /\ entryCount' = entryCount + 1
        /\ logAdmin # None
        /\ logAdmin' = logAdmin /\ logPaused' = logPaused /\ logCode' = logCode
    BY DEF Audit!record, Audit!Accepts
  <1>2. entryCount \in Nat /\ MaxEntries \in Nat /\ entryCount \in Audit!Index
    BY <1>1, EntriesAssumption DEF IInv, TypeOK, Audit!LogTypeOK, Audit!Index
  <1>3. new \in Audit!LogEntry /\ new # None
    BY EntryAssumption DEF Audit!LogEntry
  <1>4. Audit!Index \subseteq Nat
    BY <1>2 DEF Audit!Index
  <1>5. entry \in [Audit!Index -> Audit!LogEntry \cup {None}]
    BY DEF IInv, TypeOK, Audit!LogTypeOK
  <1>6. /\ entry'[entryCount] = new
        /\ \A j \in Audit!Index : j # entryCount => entry'[j] = entry[j]
        /\ entry' \in [Audit!Index -> Audit!LogEntry \cup {None}]
    BY <1>1, <1>2, <1>3, <1>5
  <1>7. \A j \in Audit!Index : entry[j] # None <=> j < entryCount
    BY DEF IInv, LogIsDense
  <1>8. LogIsDense'
    <2>1. ASSUME NEW j \in Audit!Index PROVE entry'[j] # None <=> j < entryCount'
      BY <1>1, <1>2, <1>3, <1>4, <1>6, <1>7
    <2>2. Audit!Index' = Audit!Index
      BY DEF Audit!Index
    <2> QED BY <1>1, <2>1, <2>2 DEF LogIsDense
  <1>9. Audit!AppendStep
    BY <1>1, <1>2, <1>4, <1>6 DEF Audit!AppendStep
  <1>10. Audit!LogTypeOK'
    BY <1>1, <1>2, <1>6 DEF IInv, TypeOK, Audit!LogTypeOK, Audit!Index
  <1>11. \A j \in Audit!Index : entry'[j] # None => j <= entryCount
    BY <1>2, <1>4, <1>6, <1>7
  <1>12. ASSUME NEW t \in Subject, t # s \/ src # Gate
         PROVE  EntriesAbout(t)' = EntriesAbout(t)
    <2>1. new.subject = s /\ new.source = src
      OBVIOUS
    <2>2. entry[entryCount] = None
      BY <1>2, <1>7
    <2>3. ASSUME NEW j \in Audit!Index
          PROVE  entry'[j] # None /\ entry'[j].source = Gate /\ entry'[j].subject = t
                   <=> entry[j] # None /\ entry[j].source = Gate /\ entry[j].subject = t
      BY <1>6, <1>12, <2>1, <2>2
    <2> QED BY <2>3 DEF EntriesAbout, Audit!Index
  <1> QED BY <1>2, <1>3, <1>6, <1>8, <1>9, <1>10, <1>11, <1>12

\* What was counted before stays where it was, so an entry of another source
\* takes nothing from what the gate's own entries tell.
LEMMA RecordByOthersSafe ==
  ASSUME IInv, RecordByOthers
  PROVE  IInv' /\ UpgradeStep /\ Audit!AppendStep
  <1>1. PICK src \in Recorder, kind \in AuditKind, s \in Subject, fits \in BOOLEAN :
          Audit!record(src, kind, s, fits)
    BY DEF RecordByOthers
  <1>2. UNCHANGED <<ledger, roles, paused, auditLog, denied, upgrades, trail>>
    BY DEF RecordByOthers
  <1>3. src \in {Gate} \cup Recorder /\ src # Gate
    BY RecorderAssumption
  <1>4. /\ LogIsDense' /\ Audit!AppendStep /\ Audit!LogTypeOK'
        /\ \A t \in Subject : EntriesAbout(t)' = EntriesAbout(t)
        /\ \A j \in Audit!Index : j # entryCount => entry'[j] = entry[j]
    BY <1>1, <1>3, Recorded
  <1>5. TrailAgrees'
    <2>1. ASSUME NEW t \in Subject, trail'[t] = "recorded"
          PROVE  \E i \in EntriesAbout(t)' :
                   /\ \A j \in EntriesAbout(t)' : j <= i
                   /\ entry'[i].kind = (IF t \in denied' THEN "deny_add" ELSE "deny_remove")
      <3>1. PICK i \in EntriesAbout(t) :
              /\ \A j \in EntriesAbout(t) : j <= i
              /\ entry[i].kind = (IF t \in denied THEN "deny_add" ELSE "deny_remove")
        BY <1>2, <2>1 DEF IInv, TrailAgrees
      <3>2. i \in Audit!Index /\ i < entryCount /\ entryCount \in Nat
        BY DEF EntriesAbout, IInv, LogIsDense, TypeOK, Audit!LogTypeOK
      <3>3. entry'[i] = entry[i]
        BY <1>4, <3>2 DEF Audit!Index
      <3> QED BY <1>2, <1>4, <3>1, <3>3
    <2> QED BY <2>1 DEF TrailAgrees
  <1>6. TypeOK'
    BY <1>2, <1>4 DEF IInv, TypeOK, roles, upgrades
  <1> QED BY <1>2, <1>4, <1>5, <1>6, SameRoles, SameUpgrades DEF IInv

\* One address added or removed, and the attempt to record it.
LEMMA RecordSafe ==
  ASSUME IInv, NEW kind \in {"deny_add", "deny_remove"}, NEW s \in Subject,
         record_audit(kind, s),
         denied' = (IF kind = "deny_add" THEN denied \cup {s} ELSE denied \ {s})
  PROVE  /\ LogIsDense' /\ Audit!AppendStep /\ Audit!LogTypeOK'
         /\ trail' \in [Subject -> Fate]
         /\ TrailAgrees'
  <1>1. trail \in [Subject -> Fate]
    BY DEF IInv, TypeOK
  <1>2. \A t \in Subject : t # s => (t \in denied' <=> t \in denied)
    OBVIOUS
  <1>0. Gate \in {Gate} \cup Recorder /\ kind \in AuditKind /\ TRUE \in BOOLEAN
    BY DEF AuditKind
  <1>3. ASSUME trail' \in {[trail EXCEPT ![s] = "unlogged"], [trail EXCEPT ![s] = "failed"]},
               UNCHANGED logVars
        PROVE  trail' \in [Subject -> Fate] /\ TrailAgrees'
    <2>1. trail' \in [Subject -> Fate]
      BY <1>1, <1>3 DEF Fate
    <2>2. /\ trail'[s] # "recorded"
          /\ \A t \in Subject : t # s => trail'[t] = trail[t]
      BY <1>1, <1>3
    <2>3. ASSUME NEW t \in Subject, trail'[t] = "recorded"
          PROVE  \E i \in EntriesAbout(t)' :
                   /\ \A j \in EntriesAbout(t)' : j <= i
                   /\ entry'[i].kind = (IF t \in denied' THEN "deny_add" ELSE "deny_remove")
      <3>1. t # s /\ trail[t] = "recorded"
        BY <2>2, <2>3
      <3>2. EntriesAbout(t)' = EntriesAbout(t) /\ entry' = entry
        BY <1>3 DEF logVars, EntriesAbout
      <3> QED BY <1>2, <3>1, <3>2 DEF IInv, TrailAgrees
    <2> QED BY <2>1, <2>3 DEF TrailAgrees
  <1>4. ASSUME Audit!record(Gate, kind, s, TRUE),
               trail' = [trail EXCEPT ![s] = "recorded"]
        PROVE  trail' \in [Subject -> Fate] /\ TrailAgrees'
    <2>1. trail' \in [Subject -> Fate]
      BY <1>1, <1>4 DEF Fate
    <2>2. \A t \in Subject : t # s => trail'[t] = trail[t]
      BY <1>1, <1>4
    <2>3. ASSUME NEW t \in Subject, trail'[t] = "recorded"
          PROVE  \E i \in EntriesAbout(t)' :
                   /\ \A j \in EntriesAbout(t)' : j <= i
                   /\ entry'[i].kind = (IF t \in denied' THEN "deny_add" ELSE "deny_remove")
      <3>1. CASE t = s
        <4>1. entryCount \in EntriesAbout(s)'
          <5>1. entryCount \in Audit!Index /\ entry'[entryCount] # None
                /\ entry'[entryCount] = [source |-> Gate, kind |-> kind, subject |-> s]
            BY <1>0, <1>4, Recorded
          <5> QED BY <5>1 DEF EntriesAbout, Audit!Index
        <4>2. \A j \in EntriesAbout(s)' : j <= entryCount
          BY <1>0, <1>4, Recorded DEF EntriesAbout, Audit!Index
        <4>3. entry'[entryCount].kind = kind
          <5>1. entry'[entryCount] = [source |-> Gate, kind |-> kind, subject |-> s]
            BY <1>0, <1>4, Recorded
          <5> QED BY <5>1
        <4>4. kind = (IF s \in denied' THEN "deny_add" ELSE "deny_remove")
          OBVIOUS
        <4> QED BY <3>1, <4>1, <4>2, <4>3, <4>4
      <3>2. CASE t # s
        <4>1. EntriesAbout(t)' = EntriesAbout(t) /\ trail[t] = "recorded"
          BY <1>0, <1>4, <2>2, <2>3, <3>2, Recorded
        <4>2. PICK i \in EntriesAbout(t) :
                /\ \A j \in EntriesAbout(t) : j <= i
                /\ entry[i].kind = (IF t \in denied THEN "deny_add" ELSE "deny_remove")
          BY <4>1 DEF IInv, TrailAgrees
        <4>3. i \in Audit!Index /\ i < entryCount /\ entryCount \in Nat
          BY DEF EntriesAbout, IInv, LogIsDense, TypeOK, Audit!LogTypeOK
        <4>4. i # entryCount
          BY <4>3 DEF Audit!Index
        <4>5. entry'[i] = entry[i]
          BY <1>0, <1>4, <4>3, <4>4, Recorded
        <4> QED BY <1>2, <3>2, <4>1, <4>2, <4>5
      <3> QED BY <3>1, <3>2
    <2> QED BY <2>1, <2>3 DEF TrailAgrees
  <1>5. \/ trail' \in {[trail EXCEPT ![s] = "unlogged"], [trail EXCEPT ![s] = "failed"]}
           /\ UNCHANGED logVars
        \/ Audit!record(Gate, kind, s, TRUE) /\ trail' = [trail EXCEPT ![s] = "recorded"]
    BY DEF record_audit
  <1> QED BY <1>0, <1>3, <1>4, <1>5, SameLog, Recorded

-----------------------------------------------------------------------------
\* A batch lifted without entries: its addresses have no recorded change left,
\* and for the others nothing changes.
LEMMA BatchSafe ==
  ASSUME IInv, NEW caller \in Account, NEW batch \in SUBSET Subject,
         remove_multiple_from_denylist(caller, batch)
  PROVE  trail' \in [Subject -> Fate] /\ TrailAgrees'
  <1>1. /\ trail' = [s \in Subject |->
                       IF s \in batch \cap denied THEN "unlogged" ELSE trail[s]]
        /\ denied' = denied \ batch
        /\ entry' = entry
    BY DEF remove_multiple_from_denylist, logVars
  <1>2. trail' \in [Subject -> Fate]
    BY <1>1 DEF IInv, TypeOK, Fate
  <1>3. ASSUME NEW t \in Subject, trail'[t] = "recorded"
        PROVE  \E i \in EntriesAbout(t)' :
                 /\ \A j \in EntriesAbout(t)' : j <= i
                 /\ entry'[i].kind = (IF t \in denied' THEN "deny_add" ELSE "deny_remove")
    <2>1. t \notin batch \cap denied /\ trail[t] = "recorded"
      BY <1>1, <1>3
    <2>2. t \in denied' <=> t \in denied
      BY <1>1, <2>1
    <2>3. EntriesAbout(t)' = EntriesAbout(t)
      BY <1>1 DEF EntriesAbout
    <2> QED BY <1>1, <2>1, <2>2, <2>3 DEF IInv, TrailAgrees
  <1> QED BY <1>2, <1>3 DEF TrailAgrees

\* The three mutations of the denylist.
EditCall ==
  \E caller \in Account :
    \/ \E s \in Subject : add_to_denylist(caller, s) \/ remove_from_denylist(caller, s)
    \/ \E batch \in SUBSET Subject : remove_multiple_from_denylist(caller, batch)

LEMMA EditCallSafe ==
  ASSUME IInv, EditCall
  PROVE  IInv' /\ UpgradeStep /\ Audit!AppendStep
  <1>1. UNCHANGED <<ledger, roles, paused, auditLog, upgrades>>
    BY DEF EditCall, add_to_denylist, remove_from_denylist, remove_multiple_from_denylist
  <1>2. /\ LogIsDense' /\ Audit!AppendStep /\ Audit!LogTypeOK'
        /\ trail' \in [Subject -> Fate] /\ TrailAgrees'
        /\ denied' \in SUBSET Subject
    <2>1. ASSUME NEW caller \in Account, NEW s \in Subject, add_to_denylist(caller, s)
          PROVE  /\ LogIsDense' /\ Audit!AppendStep /\ Audit!LogTypeOK'
                 /\ trail' \in [Subject -> Fate] /\ TrailAgrees'
                 /\ denied' \in SUBSET Subject
      <3>1. denied' = denied \cup {s} /\ record_audit("deny_add", s)
        BY <2>1 DEF add_to_denylist
      <3> QED BY <3>1, RecordSafe DEF IInv, TypeOK
    <2>2. ASSUME NEW caller \in Account, NEW s \in Subject,
                 remove_from_denylist(caller, s)
          PROVE  /\ LogIsDense' /\ Audit!AppendStep /\ Audit!LogTypeOK'
                 /\ trail' \in [Subject -> Fate] /\ TrailAgrees'
                 /\ denied' \in SUBSET Subject
      <3>1. denied' = denied \ {s} /\ record_audit("deny_remove", s)
        BY <2>2 DEF remove_from_denylist
      <3> QED BY <3>1, RecordSafe DEF IInv, TypeOK
    <2>3. ASSUME NEW caller \in Account, NEW batch \in SUBSET Subject,
                 remove_multiple_from_denylist(caller, batch)
          PROVE  /\ LogIsDense' /\ Audit!AppendStep /\ Audit!LogTypeOK'
                 /\ trail' \in [Subject -> Fate] /\ TrailAgrees'
                 /\ denied' \in SUBSET Subject
      <3>1. UNCHANGED logVars /\ denied' = denied \ batch
        BY <2>3 DEF remove_multiple_from_denylist
      <3> QED BY <2>3, <3>1, BatchSafe, SameLog DEF IInv, TypeOK
    <2> QED BY <2>1, <2>2, <2>3 DEF EditCall
  <1>3. TypeOK'
    BY <1>1, <1>2 DEF IInv, TypeOK, roles, upgrades
  <1> QED BY <1>1, <1>2, <1>3, SameRoles, SameUpgrades DEF IInv

LEMMA StepSafe ==
  IInv /\ [Next]_vars => IInv' /\ [UpgradeStep]_vars /\ [Audit!AppendStep]_(Audit!logVars)
  <1> SUFFICES ASSUME IInv, [Next]_vars
               PROVE  IInv' /\ UpgradeStep /\ Audit!AppendStep
    OBVIOUS
  <1>1. CASE CloseLedger
    <2>1. /\ ledger' = ledger + 1 /\ ledger < MaxLedger
          /\ UNCHANGED <<roles, paused, auditLog, denied, upgrades, logVars, trail>>
      BY <1>1 DEF CloseLedger
    <2>2. ledger' \in 0..MaxLedger
      BY <2>1, DelayAssumption DEF IInv, TypeOK
    <2>3. TypeOK'
      BY <2>1, <2>2, SameLog DEF IInv, TypeOK, roles, upgrades
    <2> QED BY <2>1, <2>3, SameLog, SameRoles, SameUpgrades, SameTrail DEF IInv, logVars
  <1>2. CASE UNCHANGED vars
    <2>1. UNCHANGED <<ledger, roles, paused, auditLog, denied, upgrades, logVars, trail>>
      BY <1>2 DEF vars
    <2>2. TypeOK'
      BY <2>1, SameLog DEF IInv, TypeOK, roles, upgrades
    <2> QED BY <2>1, <2>2, SameLog, SameRoles, SameUpgrades, SameTrail DEF IInv, logVars
  <1>3. \/ CloseLedger \/ AdministerLog \/ RecordByOthers
        \/ RoleCall \/ UpgradeCall \/ EditCall \/ UNCHANGED vars
    BY DEF Next, RoleCall, UpgradeCall, EditCall
  <1> QED BY <1>1, <1>2, <1>3, AdministerLogSafe, RecordByOthersSafe, RoleCallSafe, UpgradeCallSafe,
             EditCallSafe

-----------------------------------------------------------------------------
\* Storage of the gate and of its log keeps its shape.
THEOREM GateTypeCorrect == Spec => []TypeOK
  <1>1. IInv => TypeOK
    BY DEF IInv
  <1> QED BY <1>1, InitIInv, StepSafe, PTL DEF Spec

\* No proposal of an admin who has left office can ever be accepted.
THEOREM ProposalSafe == Spec => []PendingIsCurrentAdmins
  <1>1. IInv => PendingIsCurrentAdmins
    BY DEF IInv
  <1> QED BY <1>1, InitIInv, StepSafe, PTL DEF Spec

\* Code is swapped only for what was announced and stood for the whole window.
THEOREM UpgradesReviewed == Spec => UpgradeWasReviewed
  <1> QED BY InitIInv, StepSafe, PTL DEF Spec, UpgradeWasReviewed

\* The newest entry the gate wrote about an address tells what the denylist says,
\* unless a later change of it went unrecorded, in a log anybody writes to.
THEOREM TrailIsTrue == Spec => []TrailAgrees
  <1>1. IInv => TrailAgrees
    BY DEF IInv
  <1> QED BY <1>1, InitIInv, StepSafe, PTL DEF Spec

\* What the log has counted stays in it, whoever writes and administers it.
THEOREM LogKeepsEntries == Spec => LogIsAppendOnly
  <1> QED BY InitIInv, StepSafe, PTL DEF Spec, LogIsAppendOnly, Audit!AppendOnly

\* The audit log under a gate behaves as the log does alone: the gate reaches its
\* storage only through record, of which a refusal leaves nothing behind.
THEOREM LogRunsAlone == Spec => Audit!Spec
  <1>1. Init => Audit!Init
    BY DEF Init
  <1>2. [Next]_vars => [Audit!Next]_(Audit!logVars)
    <2> SUFFICES ASSUME [Next]_vars PROVE Audit!Next \/ UNCHANGED logVars
      BY DEF logVars, Audit!logVars
    <2>1. ASSUME NEW kind \in {"deny_add", "deny_remove"}, NEW s \in Subject, record_audit(kind, s)
          PROVE  Audit!Next \/ UNCHANGED logVars
      <3>1. Gate \in {Gate} \cup Recorder /\ kind \in AuditKind /\ TRUE \in BOOLEAN
        BY DEF AuditKind
      <3>2. Audit!record(Gate, kind, s, TRUE) \/ UNCHANGED logVars
        BY <2>1 DEF record_audit
      <3> QED BY <3>1, <3>2 DEF Audit!Next
    <2>2. CASE AdministerLog
      BY <2>2 DEF AdministerLog, Audit!Next
    <2>3. CASE EditCall
      BY <2>1, <2>3 DEF EditCall, add_to_denylist, remove_from_denylist, remove_multiple_from_denylist
    <2>4. CASE UNCHANGED vars
      BY <2>4 DEF vars
    <2>5. CASE CloseLedger
      BY <2>5 DEF CloseLedger
    <2>6. CASE RoleCall
      BY <2>6 DEF RoleCall, initialize, set_compliance_officer, revoke_compliance_officer, propose_admin,
         accept_admin, cancel_admin_proposal, transfer_admin, pause, unpause, set_audit_log,
         clear_audit_log
    <2>7. CASE UpgradeCall
      BY <2>7 DEF UpgradeCall, propose_upgrade, commit_upgrade, cancel_upgrade
    <2>8. CASE RecordByOthers
      BY <2>8 DEF RecordByOthers, Audit!Next
    <2> QED BY <2>2, <2>3, <2>4, <2>5, <2>6, <2>7, <2>8 DEF Next, RoleCall, UpgradeCall, EditCall
  <1> QED BY <1>1, <1>2, PTL DEF Spec, Audit!Spec
=============================================================================
