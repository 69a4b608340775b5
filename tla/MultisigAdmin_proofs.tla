------------------------ MODULE MultisigAdmin_proofs ------------------------
(***************************************************************************)
(* Proofs about MultisigAdmin for every value of its constants.            *)
(*                                                                         *)
(* The inductive invariant is the conjunction of the invariants the model  *)
(* checker checks and of ApprovalsAreConsent: neither it nor               *)
(* QuorumReachable nor ExecutedOnce mentions the others, but the           *)
(* refinement needs all three, and each needs TypeOK for the arithmetic of *)
(* cardinalities.                                                          *)
(***************************************************************************)
EXTENDS MultisigAdmin, FiniteSetTheorems, TLAPS

-----------------------------------------------------------------------------
\* A submitted list is a sequence over its indices, all of them addresses.
LEMMA ListFacts ==
  ASSUME NEW list \in AddressLists
  PROVE  /\ Len(list) \in Nat
         /\ DOMAIN list = 1..Len(list)
         /\ list \in [1..Len(list) -> Address]
         /\ Range(list) \in SUBSET Address
  <1>1. PICK n \in 0..MaxList : list \in [1..n -> Address]
    BY DEF AddressLists
  <1>2. n \in Nat
    BY <1>1, BoundsAssumption
  <1>3. list \in Seq(Address)
    BY <1>1, <1>2
  <1>4. Len(list) = n
    BY <1>1, <1>2, <1>3
  <1> QED BY <1>1, <1>2, <1>4 DEF Range

\* A set of addresses is finite, and so is what it shares with another set.
LEMMA AddressSetFacts ==
  ASSUME NEW S \in SUBSET Address, NEW T
  PROVE  /\ IsFiniteSet(S)
         /\ Cardinality(S) \in Nat
         /\ Cardinality(S \cap T) \in Nat
  <1>1. IsFiniteSet(S)
    BY AddressAssumption, FS_Subset
  <1>2. IsFiniteSet(S \cap T)
    BY <1>1, FS_Intersection
  <1> QED BY <1>1, <1>2, FS_CardinalityType

\* A list without duplicates names as many addresses as it has entries: the
\* count initialize compares the threshold with is the number of signers.
LEMMA InjectiveListCount ==
  ASSUME NEW list \in AddressLists, IsInjective(list)
  PROVE  Cardinality(Range(list)) = Len(list)
  <1> DEFINE D == 1..Len(list)
  <1>1. list \in [D -> Range(list)]
    BY ListFacts DEF Range
  <1>2. list \in Injection(D, Range(list))
    BY <1>1 DEF Injection
  <1>3. list \in Surjection(D, Range(list))
    BY <1>1, ListFacts DEF Surjection, Range
  <1>4. ExistsBijection(D, Range(list))
    BY <1>2, <1>3 DEF ExistsBijection, Bijection
  <1>5. Len(list) \in Nat
    BY ListFacts
  <1> QED BY <1>4, <1>5, FS_CountingElements

\* __check_auth counts entries of the signature list; with the duplicate
\* check, that many distinct current signers have authorized the call.
LEMMA CheckAuthIsQuorum ==
  ASSUME NEW sigs \in AddressLists, CheckAuth(sigs), threshold \in Nat
  PROVE  Cardinality(Range(sigs) \cap signers) >= threshold
  <1> DEFINE I == {i \in DOMAIN sigs : sigs[i] \in signers}
             J == Range(sigs) \cap signers
             f == [i \in I |-> sigs[i]]
  <1>1. IsFiniteSet(J) /\ Cardinality(J) \in Nat
    <2>1. Range(sigs) \in SUBSET Address
      BY ListFacts
    <2>2. IsFiniteSet(J)
      BY <2>1, AddressSetFacts, FS_Intersection
    <2> QED BY <2>2, FS_CardinalityType
  <1>2. f \in [I -> J]
    BY DEF Range
  <1>3. \A x, y \in I : f[x] = f[y] => x = y
    BY DEF CheckAuth, IsInjective
  <1>4. f \in Injection(I, J)
    BY <1>2, <1>3 DEF Injection, IsInjective
  <1>5. IsFiniteSet(I) /\ Cardinality(I) <= Cardinality(J)
    <2> HIDE DEF f, I, J
    <2> QED BY <1>1, <1>4, FS_Injection
  <1>6. Cardinality(I) \in Nat
    BY <1>5, FS_CardinalityType
  <1>7. Cardinality(I) >= threshold
    BY DEF CheckAuth
  <1> HIDE DEF I, J
  <1>8. Cardinality(J) >= threshold
    BY <1>1, <1>5, <1>6, <1>7
  <1> QED BY <1>8 DEF J

-----------------------------------------------------------------------------
\* Type correctness: every storage entry keeps the type the contract gives it.
THEOREM TypeCorrect == Spec => []TypeOK
  <1>1. Init => TypeOK
    <2>1. 0 \in Ledger /\ 0 \in 0..MaxProposals
      BY BoundsAssumption DEF Ledger
    <2>2. 0 \in Nat
      OBVIOUS
    <2> QED BY <2>1, <2>2, Zenon DEF Init, TypeOK
  <1>2. TypeOK /\ [Next]_vars => TypeOK'
    <2> SUFFICES ASSUME TypeOK, [Next]_vars
                 PROVE  TypeOK'
      OBVIOUS
    <2> USE BoundsAssumption, NoProposalAssumption DEF TypeOK
    <2>1. CASE CloseLedger
      BY <2>1 DEF CloseLedger, Ledger, storage
    <2>2. ASSUME NEW list \in AddressLists, NEW t \in 0..MaxList,
                 initialize(list, t)
          PROVE  TypeOK'
      <3>1. Range(list) \in SUBSET Address
        BY ListFacts
      <3> QED BY <2>2, <3>1 DEF initialize
    <2>3. ASSUME NEW sigs \in AddressLists, RequireSelfAuth(sigs)
          PROVE  /\ by' \in SUBSET Address
                 /\ UNCHANGED <<ledger, executed, consent>>
      BY <2>3, ListFacts DEF RequireSelfAuth
    <2>4. ASSUME NEW sigs \in AddressLists, pause(sigs) \/ unpause(sigs)
          PROVE  TypeOK'
      BY <2>3, <2>4 DEF pause, unpause
    <2>5. ASSUME NEW sigs \in AddressLists, NEW hash \in Wasm,
                 upgrade(sigs, hash)
          PROVE  TypeOK'
      BY <2>3, <2>5 DEF upgrade
    <2>6. ASSUME NEW sigs \in AddressLists, NEW a \in Address,
                 add_signer(sigs, a) \/ remove_signer(sigs, a)
          PROVE  TypeOK'
      BY <2>3, <2>6 DEF add_signer, remove_signer
    <2>7. ASSUME NEW sigs \in AddressLists, NEW t \in 0..MaxList,
                 update_threshold(sigs, t)
          PROVE  TypeOK'
      BY <2>3, <2>7 DEF update_threshold
    <2>8. ASSUME NEW expiry \in Ledger, propose(expiry)
          PROVE  TypeOK'
      <3>1. [expiry |-> expiry, approvals |-> {}] \in Proposal
        BY <2>8 DEF propose, Proposal, Ledger
      <3>2. proposals' \in [ProposalId -> Proposal \cup {NoProposal}]
        BY <2>8, <3>1 DEF propose
      <3> QED BY <2>8, <3>2 DEF propose
    <2>9. ASSUME NEW id \in ProposalId, execute(id)
          PROVE  TypeOK'
      BY <2>9 DEF execute
    <2>10. ASSUME NEW id \in ProposalId, NEW a \in Address, approve(id, a)
           PROVE  TypeOK'
      <3>1. proposals[id] \in Proposal
        BY <2>10 DEF approve, Live
      <3>2. [proposals[id] EXCEPT !.approvals = @ \cup {a}] \in Proposal
        BY <3>1 DEF Proposal
      <3>3. proposals' \in [ProposalId -> Proposal \cup {NoProposal}]
        BY <2>10, <3>2 DEF approve
      <3>4. by' \in SUBSET Address /\ consent' \in [ProposalId -> SUBSET Address]
        BY <2>10 DEF approve
      <3> QED BY <2>10, <3>3, <3>4 DEF approve
    <2>11. CASE UNCHANGED vars
      BY <2>11 DEF vars, storage
    <2> QED
      BY <2>1, <2>2, <2>4, <2>5, <2>6, <2>7, <2>8, <2>9, <2>10, <2>11 DEF Next
  <1> QED BY <1>1, <1>2, PTL DEF Spec

-----------------------------------------------------------------------------
\* The invocations that require the contract's own authorization.
SelfCall(sigs) ==
  \/ pause(sigs)
  \/ unpause(sigs)
  \/ \E hash \in Wasm : upgrade(sigs, hash)
  \/ \E a \in Address : add_signer(sigs, a) \/ remove_signer(sigs, a)
  \/ \E t \in 0..MaxList : update_threshold(sigs, t)

\* They all run __check_auth, and none touches the trail of proposals.
LEMMA SelfCallFrame ==
  ASSUME NEW sigs, SelfCall(sigs)
  PROVE  /\ CheckAuth(sigs)
         /\ by' = Range(sigs)
         /\ UNCHANGED <<ledger, proposals, nextProposalId, executed, consent>>
  BY DEF SelfCall, RequireSelfAuth, pause, unpause, upgrade, add_signer,
         remove_signer, update_threshold

\* Next, with the self-governed invocations as one case.
LEMMA NextCases ==
  ASSUME [Next]_vars
  PROVE  \/ CloseLedger
         \/ \E list \in AddressLists, t \in 0..MaxList : initialize(list, t)
         \/ \E sigs \in AddressLists : SelfCall(sigs)
         \/ \E expiry \in Ledger : propose(expiry)
         \/ \E id \in ProposalId : execute(id)
         \/ \E id \in ProposalId, a \in Address : approve(id, a)
         \/ UNCHANGED vars
  BY Zenon DEF Next, SelfCall

-----------------------------------------------------------------------------
\* A quorum of the current signers always exists once the contract is set up:
\* no sequence of initialize, add_signer, remove_signer and update_threshold
\* leaves a threshold the signers cannot reach.
THEOREM GovernanceNeverLocked == Spec => []QuorumReachable
  <1>1. Init => QuorumReachable
    BY DEF Init, QuorumReachable, Initialized
  <1>2. TypeOK /\ QuorumReachable /\ [Next]_vars => QuorumReachable'
    <2> SUFFICES ASSUME TypeOK, QuorumReachable, [Next]_vars
                 PROVE  QuorumReachable'
      OBVIOUS
    <2> USE DEF QuorumReachable, Initialized
    <2>1. threshold \in Nat /\ signers \in SUBSET Address
      BY DEF TypeOK
    <2>2. IsFiniteSet(signers) /\ Cardinality(signers) \in Nat
      BY <2>1, AddressSetFacts
    <2>3. ASSUME UNCHANGED <<signers, threshold>>
          PROVE  QuorumReachable'
      BY <2>3
    <2>4. CASE CloseLedger
      BY <2>3, <2>4 DEF CloseLedger, storage
    <2>5. ASSUME NEW list \in AddressLists, NEW t \in 0..MaxList,
                 initialize(list, t)
          PROVE  QuorumReachable'
      <3>1. Cardinality(Range(list)) = Len(list)
        BY <2>5, InjectiveListCount DEF initialize
      <3>2. t \in 1..Len(list)
        BY <2>5, ListFacts, BoundsAssumption DEF initialize
      <3> QED BY <2>5, <3>1, <3>2 DEF initialize
    <2>6. ASSUME NEW sigs \in AddressLists, SelfCall(sigs)
          PROVE  QuorumReachable'
      <3>1. threshold # 0
        BY <2>6, SelfCallFrame DEF CheckAuth
      <3>2. CASE pause(sigs) \/ unpause(sigs)
        BY <2>3, <3>2 DEF pause, unpause
      <3>3. CASE \E hash \in Wasm : upgrade(sigs, hash)
        BY <2>3, <3>3 DEF upgrade
      <3>4. ASSUME NEW a \in Address, add_signer(sigs, a)
            PROVE  QuorumReachable'
        <4>1. Cardinality(signers \cup {a}) = Cardinality(signers) + 1
          BY <2>2, <3>4, FS_AddElement DEF add_signer
        <4> QED BY <2>1, <2>2, <3>1, <3>4, <4>1 DEF add_signer
      <3>5. ASSUME NEW a \in Address, remove_signer(sigs, a)
            PROVE  QuorumReachable'
        <4>1. Cardinality(signers \ {a}) \in Nat
          BY <2>2, FS_RemoveElement, FS_CardinalityType
        <4> QED BY <2>1, <3>1, <3>5, <4>1 DEF remove_signer
      <3>6. ASSUME NEW t \in 0..MaxList, update_threshold(sigs, t)
            PROVE  QuorumReachable'
        BY <2>2, <3>6, BoundsAssumption DEF update_threshold
      <3> QED BY <2>6, <3>2, <3>3, <3>4, <3>5, <3>6 DEF SelfCall
    <2>7. ASSUME NEW expiry \in Ledger, propose(expiry)
          PROVE  QuorumReachable'
      BY <2>3, <2>7 DEF propose
    <2>8. ASSUME NEW id \in ProposalId, execute(id)
          PROVE  QuorumReachable'
      BY <2>3, <2>8 DEF execute
    <2>9. ASSUME NEW id \in ProposalId, NEW a \in Address, approve(id, a)
          PROVE  QuorumReachable'
      BY <2>3, <2>9 DEF approve
    <2>10. CASE UNCHANGED vars
      BY <2>3, <2>10 DEF vars, storage
    <2> QED
      BY <2>4, <2>5, <2>6, <2>7, <2>8, <2>9, <2>10, NextCases
  <1> QED BY <1>1, <1>2, TypeCorrect, PTL DEF Spec

-----------------------------------------------------------------------------
\* Every approval a stored proposal counts is one its approver authorized for
\* that very id, and an approval is never lost while the proposal is stored.
ApprovalsAreConsent ==
  \A id \in Live : proposals[id].approvals = consent[id]

\* What makes the trail sound: the ids handed out, the proposals stored, the
\* consents given and the executions announced agree.
TrailInv == ExecutedOnce /\ ApprovalsAreConsent

LEMMA TrailInitially == Init => TrailInv
  BY Zenon DEF Init, TrailInv, ExecutedOnce, ApprovalsAreConsent, Live

LEMMA TrailStep == TypeOK /\ TrailInv /\ [Next]_vars => TrailInv'
  <1> SUFFICES ASSUME TypeOK, TrailInv, [Next]_vars
               PROVE  TrailInv'
    OBVIOUS
  <1> USE DEF TrailInv, ExecutedOnce, ApprovalsAreConsent, Live
  <1>0. /\ proposals \in [ProposalId -> Proposal \cup {NoProposal}]
        /\ consent \in [ProposalId -> SUBSET Address]
        /\ nextProposalId \in Nat
        /\ ProposalId \subseteq Int
    BY BoundsAssumption DEF TypeOK, ProposalId
  <1>1. ASSUME UNCHANGED <<proposals, nextProposalId, executed, consent>>
        PROVE  TrailInv'
    BY <1>1
  <1>2. CASE CloseLedger
    BY <1>1, <1>2 DEF CloseLedger, storage
  <1>3. CASE \E list \in AddressLists, t \in 0..MaxList : initialize(list, t)
    BY <1>1, <1>3 DEF initialize
  <1>4. CASE \E sigs \in AddressLists : SelfCall(sigs)
    BY <1>1, <1>4, SelfCallFrame
  <1>5. ASSUME NEW expiry \in Ledger, propose(expiry)
        PROVE  TrailInv'
    <2> DEFINE p == [expiry |-> expiry, approvals |-> {}]
    <2>1. nextProposalId \in ProposalId
      BY <1>0, <1>5, BoundsAssumption DEF propose, ProposalId
    <2>2. /\ proposals'[nextProposalId] = p
          /\ \A id \in ProposalId \ {nextProposalId} : proposals'[id] = proposals[id]
      BY <1>0, <1>5, <2>1 DEF propose
    <2>3. p.approvals = consent[nextProposalId]
      BY <1>0, <2>1
    <2>4. UNCHANGED <<executed, consent>> /\ nextProposalId' = nextProposalId + 1
      BY <1>5 DEF propose
    <2>5. ExecutedOnce'
      <3>1. nextProposalId \notin executed
        BY <1>0, <2>1
      <3>2. executed' \cap Live' = {}
        BY <2>2, <2>4, <3>1
      <3>3. ASSUME NEW id \in ProposalId, id >= nextProposalId'
            PROVE  id \notin executed' \cup Live' /\ consent'[id] = {}
        <4>1. id >= nextProposalId /\ id # nextProposalId
          BY <1>0, <2>4, <3>3
        <4> QED BY <2>2, <2>4, <4>1
      <3> QED BY <3>2, <3>3
    <2>6. ApprovalsAreConsent'
      BY <1>0, <2>2, <2>3, <2>4
    <2> QED BY <2>5, <2>6
  <1>6. ASSUME NEW id \in ProposalId, execute(id)
        PROVE  TrailInv'
    <2>1. /\ proposals'[id] = NoProposal
          /\ \A i \in ProposalId \ {id} : proposals'[i] = proposals[i]
          /\ executed' = executed \cup {id}
          /\ UNCHANGED <<nextProposalId, consent>>
          /\ proposals[id] # NoProposal
      BY <1>0, <1>6 DEF execute
    <2>2. id < nextProposalId
      BY <1>0, <2>1
    <2>3. ExecutedOnce'
      BY <1>0, <2>1, <2>2
    <2> QED BY <2>1, <2>3
  <1>7. ASSUME NEW id \in ProposalId, NEW a \in Address, approve(id, a)
        PROVE  TrailInv'
    <2>1. proposals[id] \in Proposal /\ proposals[id] # NoProposal
      BY <1>0, <1>7 DEF approve
    <2>2. /\ proposals'[id] = [proposals[id] EXCEPT !.approvals = @ \cup {a}]
          /\ consent'[id] = consent[id] \cup {a}
          /\ \A i \in ProposalId \ {id} :
               proposals'[i] = proposals[i] /\ consent'[i] = consent[i]
          /\ UNCHANGED <<nextProposalId, executed>>
      BY <1>0, <1>7 DEF approve
    <2>3. proposals'[id].approvals = proposals[id].approvals \cup {a}
      BY <2>1, <2>2 DEF Proposal
    <2>4. id < nextProposalId
      BY <1>0, <2>1
    <2>5. ExecutedOnce'
      BY <1>0, <2>1, <2>2, <2>4
    <2>6. ApprovalsAreConsent'
      BY <1>0, <2>1, <2>2, <2>3
    <2> QED BY <2>5, <2>6
  <1>8. CASE UNCHANGED vars
    BY <1>1, <1>8 DEF vars, storage
  <1> QED
    BY <1>2, <1>3, <1>4, <1>5, <1>6, <1>7, <1>8, NextCases

\* No proposal is executed twice and no id is handed out twice.
THEOREM AtMostOneExecution == Spec => []ExecutedOnce
  <1>1. TrailInv => ExecutedOnce
    BY DEF TrailInv
  <1> QED BY <1>1, TypeCorrect, TrailInitially, TrailStep, PTL DEF Spec

\* Every approval counted for a proposal was authorized for it in person.
THEOREM ApprovalsAreAuthorized == Spec => []ApprovalsAreConsent
  <1>1. TrailInv => ApprovalsAreConsent
    BY DEF TrailInv
  <1> QED BY <1>1, TypeCorrect, TrailInitially, TrailStep, PTL DEF Spec

-----------------------------------------------------------------------------
\* pause needs a quorum, so only a contract that is set up is ever paused.
PausedAfterSetup == paused => Initialized

LEMMA PausedAfterSetupInvariant == Spec => []PausedAfterSetup
  <1> USE DEF PausedAfterSetup, Initialized
  <1>1. Init => PausedAfterSetup
    BY DEF Init
  <1>2. TypeOK /\ PausedAfterSetup /\ [Next]_vars => PausedAfterSetup'
    <2> SUFFICES ASSUME TypeOK, PausedAfterSetup, [Next]_vars
                 PROVE  PausedAfterSetup'
      OBVIOUS
    <2>1. CASE CloseLedger
      BY <2>1 DEF CloseLedger, storage
    <2>2. ASSUME NEW list \in AddressLists, NEW t \in 0..MaxList,
                 initialize(list, t)
          PROVE  PausedAfterSetup'
      BY <2>2 DEF initialize
    <2>3. ASSUME NEW sigs \in AddressLists, SelfCall(sigs)
          PROVE  PausedAfterSetup'
      <3>1. threshold # 0
        BY <2>3, SelfCallFrame DEF CheckAuth
      <3>2. ASSUME NEW t \in 0..MaxList, update_threshold(sigs, t)
            PROVE  threshold' # 0
        BY <3>2 DEF update_threshold
      <3> QED BY <2>3, <3>1, <3>2
          DEF SelfCall, pause, unpause, upgrade, add_signer, remove_signer
    <2>4. ASSUME NEW expiry \in Ledger, propose(expiry)
          PROVE  PausedAfterSetup'
      BY <2>4 DEF propose
    <2>5. ASSUME NEW id \in ProposalId, execute(id)
          PROVE  PausedAfterSetup'
      BY <2>5 DEF execute
    <2>6. ASSUME NEW id \in ProposalId, NEW a \in Address, approve(id, a)
          PROVE  PausedAfterSetup'
      BY <2>6 DEF approve
    <2>7. CASE UNCHANGED vars
      BY <2>7 DEF vars, storage
    <2> QED BY <2>1, <2>2, <2>3, <2>4, <2>5, <2>6, <2>7, NextCases
  <1> QED BY <1>1, <1>2, TypeCorrect, PTL DEF Spec

\* While the contract is paused no call makes a proposal executable that was
\* not: the calls that could (approving, re-adding an approver, lowering the
\* threshold, proposing) are all gated, and time and execution only disarm.
THEOREM PauseIsSafe == Spec => PauseArmsNothing
  <1>1. /\ TypeOK /\ PausedAfterSetup
        /\ [Next]_vars
        => [paused => Executable' \subseteq Executable]_vars
    <2> SUFFICES ASSUME TypeOK, PausedAfterSetup, [Next]_vars, paused
                 PROVE  Executable' \subseteq Executable
      OBVIOUS
    <2> USE DEF Executable, Live, ValidApprovals
    <2>1. proposals \in [ProposalId -> Proposal \cup {NoProposal}]
      BY DEF TypeOK
    <2>2. ASSUME UNCHANGED <<ledger, signers, threshold, proposals>>
          PROVE  Executable' \subseteq Executable
      BY <2>2
    <2>3. CASE CloseLedger
      <3>1. /\ ledger \in Int /\ ledger' = ledger + 1
            /\ UNCHANGED <<signers, threshold, proposals>>
        BY <2>3 DEF CloseLedger, storage, TypeOK, Ledger
      <3>2. ASSUME NEW id \in ProposalId, proposals[id] # NoProposal,
                   ledger + 1 < proposals[id].expiry
            PROVE  ledger < proposals[id].expiry
        <4>1. proposals[id].expiry \in Int
          BY <2>1, <3>2, BoundsAssumption DEF Proposal
        <4> QED BY <3>1, <3>2, <4>1
      <3> QED BY <3>1, <3>2
    <2>4. ASSUME NEW list \in AddressLists, NEW t \in 0..MaxList,
                 initialize(list, t)
          PROVE  FALSE
      BY <2>4 DEF initialize, PausedAfterSetup
    <2>5. ASSUME NEW sigs \in AddressLists, SelfCall(sigs)
          PROVE  Executable' \subseteq Executable
      <3>1. UNCHANGED <<signers, threshold>>
        BY <2>5 DEF SelfCall, pause, unpause, upgrade, add_signer,
                    remove_signer, update_threshold
      <3> QED BY <2>2, <2>5, <3>1, SelfCallFrame
    <2>6. ASSUME NEW expiry \in Ledger, propose(expiry)
          PROVE  FALSE
      BY <2>6 DEF propose
    <2>7. ASSUME NEW id \in ProposalId, execute(id)
          PROVE  Executable' \subseteq Executable
      <3>1. /\ proposals'[id] = NoProposal
            /\ \A i \in ProposalId \ {id} : proposals'[i] = proposals[i]
            /\ UNCHANGED <<ledger, signers, threshold>>
        BY <2>1, <2>7 DEF execute
      <3> QED BY <3>1
    <2>8. ASSUME NEW id \in ProposalId, NEW a \in Address, approve(id, a)
          PROVE  FALSE
      BY <2>8 DEF approve
    <2>9. CASE UNCHANGED vars
      BY <2>2, <2>9 DEF vars, storage
    <2> QED
      BY <2>3, <2>4, <2>5, <2>6, <2>7, <2>8, <2>9, NextCases
  <1> QED
    BY <1>1, TypeCorrect, PausedAfterSetupInvariant, PTL
    DEF Spec, PauseArmsNothing

-----------------------------------------------------------------------------
\* The abstract administrator counts as the contract does.
LEMMA SameCardinality ==
  ASSUME NEW S
  PROVE  Governance!Cardinality(S) = Cardinality(S)
  BY Zenon DEF Cardinality, Governance!Cardinality

\* The steps of the refinement, under the invariants above.
LEMMA GovernanceStep ==
  ASSUME TypeOK, TypeOK', TrailInv, QuorumReachable, QuorumReachable',
         [Next]_vars
  PROVE  [Governance!Next]_(Governance!vars)
  <1> USE DEF Initialized
  <1>0. /\ threshold \in Nat /\ signers' \in SUBSET Address
        /\ consent \in [ProposalId -> SUBSET Address]
        /\ proposals \in [ProposalId -> Proposal \cup {NoProposal}]
    BY DEF TypeOK
  <1>1. CASE CloseLedger
    <2>1. Governance!Idle
      BY <1>1 DEF CloseLedger, storage, Governance!Idle
    <2> QED BY <2>1 DEF Governance!Next
  <1>2. ASSUME NEW list \in AddressLists, NEW t \in 0..MaxList,
               initialize(list, t)
        PROVE  Governance!Next
    <2>1. threshold' \in 1..Cardinality(signers')
      BY <1>2 DEF initialize, QuorumReachable
    <2>2. Governance!Constitute
      BY <1>0, <1>2, <2>1, SameCardinality DEF initialize, Governance!Constitute
    <2> QED BY <2>2 DEF Governance!Next
  <1>3. ASSUME NEW sigs \in AddressLists, SelfCall(sigs)
        PROVE  Governance!Next
    <2>1. /\ CheckAuth(sigs)
          /\ by' = Range(sigs)
          /\ UNCHANGED <<consent, executed>>
      BY <1>3, SelfCallFrame
    <2>2. threshold # 0
      BY <2>1 DEF CheckAuth
    <2>3. Governance!Quorate(by')
      BY <1>0, <2>1, CheckAuthIsQuorum, SameCardinality DEF Governance!Quorate
    <2>4. threshold' \in 1..Cardinality(signers')
      <3>1. threshold' # 0
        BY <1>3, <2>2 DEF SelfCall, pause, unpause, upgrade, add_signer,
           remove_signer, update_threshold
      <3> QED BY <3>1 DEF QuorumReachable
    <2>5. paused => UNCHANGED <<signers, threshold>>
      BY <1>3 DEF SelfCall, pause, unpause, upgrade, add_signer,
                  remove_signer, update_threshold
    <2>6. paused' \in BOOLEAN
      BY DEF TypeOK
    <2>7. Governance!Amend
      BY <1>0, <2>1, <2>2, <2>3, <2>4, <2>5, <2>6, SameCardinality DEF Governance!Amend
    <2> QED BY <2>7 DEF Governance!Next
  <1>4. ASSUME NEW expiry \in Ledger, propose(expiry)
        PROVE  Governance!Next
    <2>1. Governance!Idle
      BY <1>4 DEF propose, Governance!Idle
    <2> QED BY <2>1 DEF Governance!Next
  <1>5. ASSUME NEW id \in ProposalId, execute(id)
        PROVE  Governance!Next
    <2>1. id \in Live /\ id \notin executed
      BY <1>5 DEF execute, TrailInv, ExecutedOnce
    <2>2. Cardinality(consent[id] \cap signers) >= threshold
      BY <1>5, <2>1 DEF execute, ValidApprovals, TrailInv, ApprovalsAreConsent
    <2>3. Governance!Decide(id)
      BY <1>5, <2>1, <2>2, SameCardinality DEF execute, Governance!Decide, Governance!Quorate
    <2> QED BY <1>5, <2>3 DEF Governance!Next
  <1>6. ASSUME NEW id \in ProposalId, NEW a \in Address, approve(id, a)
        PROVE  Governance!Next
    <2>1. id \in Live /\ id \notin executed
      BY <1>6 DEF approve, TrailInv, ExecutedOnce
    <2>2. consent' = [consent EXCEPT ![id] = @ \cup {a}]
      BY <1>6 DEF approve
    <2>3. Governance!Consent(id, a)
      BY <1>6, <2>1, <2>2 DEF approve, Governance!Consent
    <2> QED BY <1>6, <2>3 DEF Governance!Next
  <1>7. CASE UNCHANGED vars
    BY <1>7 DEF vars, storage, Governance!vars
  <1> QED
    BY <1>1, <1>2, <1>3, <1>4, <1>5, <1>6, <1>7, NextCases

\* The contract is an M-of-N administrator: every behaviour of it is one of
\* the abstract administrator of QuorumGovernance, signature lists, storage
\* and deadlines hidden.
THEOREM Refinement == Spec => ImplementsGovernance
  <1>1. Init => Governance!Init
    BY DEF Init, Governance!Init
  <1>2. []TrailInv /\ []TypeOK /\ []QuorumReachable /\ [][Next]_vars
        => [][Governance!Next]_(Governance!vars)
    BY GovernanceStep, PTL
  <1>3. Spec => []TrailInv
    BY TypeCorrect, TrailInitially, TrailStep, PTL DEF Spec
  <1> QED
    BY <1>1, <1>2, <1>3, TypeCorrect, GovernanceNeverLocked, PTL
    DEF Spec, ImplementsGovernance, Governance!Spec
=============================================================================
