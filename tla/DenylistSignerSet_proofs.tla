----------------------- MODULE DenylistSignerSet_proofs -----------------------
(***************************************************************************)
(* Proofs about DenylistSignerSet for every value of its constants.        *)
(***************************************************************************)
EXTENDS DenylistSignerSet, FiniteSetTheorems, TLAPS

\* A list without duplicates names as many addresses as it has entries.
LEMMA InjectiveListCount ==
  ASSUME NEW list \in AddressLists, IsInjective(list)
  PROVE  /\ Range(list) \in SUBSET Address
         /\ Len(list) \in 0..MaxList
         /\ Cardinality(Range(list)) = Len(list)
  <1>1. PICK n \in 0..MaxList : list \in [1..n -> Address]
    BY DEF AddressLists
  <1>2. n \in Nat
    BY <1>1, BoundAssumption
  <1>3. list \in Seq(Address)
    BY <1>1, <1>2
  <1>4. Len(list) = n
    BY <1>1, <1>2, <1>3
  <1>5. list \in Injection(1..n, Range(list))
    BY <1>1 DEF Injection, Range
  <1>6. list \in Surjection(1..n, Range(list))
    BY <1>1 DEF Surjection, Range
  <1>7. ExistsBijection(1..n, Range(list))
    BY <1>5, <1>6 DEF ExistsBijection, Bijection
  <1>8. Cardinality(Range(list)) = n
    BY <1>2, <1>7, FS_CountingElements
  <1> QED BY <1>1, <1>4, <1>8 DEF Range

\* The signers are finitely many, whatever is added to or taken from them.
LEMMA SignerCount ==
  ASSUME NEW S \in SUBSET Address, NEW a
  PROVE  /\ Cardinality(S) \in Nat
         /\ a \notin S => Cardinality(S \cup {a}) = Cardinality(S) + 1
         /\ a \in S => Cardinality(S \ {a}) = Cardinality(S) - 1
         /\ Cardinality(S) = 0 <=> S = {}
  <1>1. IsFiniteSet(S)
    BY AddressAssumption, FS_Subset
  <1> QED BY <1>1, FS_CardinalityType, FS_AddElement, FS_RemoveElement, FS_EmptySet

\* The inductive invariant: QuorumReachable next to the types. Each call checks
\* the set it changes in the call that changes it, so no fact about pending
\* approvals is needed.
QInv == TypeOK /\ QuorumReachable

LEMMA QInvStep == QInv /\ [Next]_vars => QInv'
  <1> SUFFICES ASSUME QInv, [Next]_vars
               PROVE  QInv'
    OBVIOUS
  <1> USE DEF QInv, QuorumReachable, Enabled
  <1>1. /\ signers \in SUBSET Address /\ threshold \in 0..MaxList
        /\ pending \in [SignerAction -> SUBSET Address]
        /\ unspent \in [SignerAction -> SUBSET Address]
        /\ MaxList \in Nat
        /\ threshold = 0 <=> signers = {}
    BY BoundAssumption DEF TypeOK
  <1>2. Cardinality(signers) \in Nat
    BY <1>1, SignerCount
  <1>3. ASSUME NEW list \in AddressLists, NEW t \in 0..MaxList,
               initialize_multisig(list, t)
        PROVE  QInv'
    <2>1. /\ Range(list) \in SUBSET Address
          /\ Cardinality(Range(list)) = Len(list)
          /\ Len(list) \in Nat
      BY <1>1, <1>3, InjectiveListCount DEF initialize_multisig
    <2>2. t \in 1..Cardinality(Range(list))
      BY <1>1, <1>3, <2>1 DEF initialize_multisig
    <2>3. Range(list) # {}
      BY <2>2, FS_EmptySet
    <2> QED BY <1>1, <1>3, <2>1, <2>2, <2>3 DEF initialize_multisig, TypeOK
  <1>4. ASSUME NEW action \in SignerAction, NEW caller \in Address,
               approve(caller, action)
        PROVE  /\ pending' \in [SignerAction -> SUBSET Address]
               /\ unspent' \in [SignerAction -> SUBSET Address]
    BY <1>1, <1>4 DEF approve
  <1>5. ASSUME NEW action \in SignerAction, NEW caller \in Address,
               approve(caller, action), UNCHANGED <<signers, threshold>>
        PROVE  QInv'
    BY <1>1, <1>4, <1>5 DEF TypeOK
  <1>6. ASSUME NEW caller \in Address, NEW a \in Address, add_signer(caller, a)
        PROVE  QInv'
    <2>1. Add(a) \in SignerAction /\ approve(caller, Add(a)) /\ a \notin signers
          /\ threshold # 0
      BY <1>6 DEF add_signer, RequireSigner, Add, SignerAction
    <2>2. CASE UNCHANGED <<signers, threshold>>
      BY <1>5, <2>1, <2>2
    <2>3. CASE Apply(Add(a))
      <3>1. signers' = signers \cup {a} /\ threshold' = threshold
        BY <2>3 DEF Apply, Add
      <3>2. Cardinality(signers') = Cardinality(signers) + 1
        BY <1>1, <2>1, <3>1, SignerCount
      <3> QED BY <1>1, <1>2, <1>4, <2>1, <3>1, <3>2 DEF TypeOK
    <2> QED BY <2>1, <2>2, <2>3 DEF approve
  <1>7. ASSUME NEW caller \in Address, NEW a \in Address, remove_signer(caller, a)
        PROVE  QInv'
    <2>1. /\ Remove(a) \in SignerAction /\ approve(caller, Remove(a))
          /\ a \in signers /\ threshold # 0
          /\ threshold <= Cardinality(signers) - 1
      BY <1>7 DEF remove_signer, RequireSigner, Remove, SignerAction
    <2>2. CASE UNCHANGED <<signers, threshold>>
      BY <1>5, <2>1, <2>2
    <2>3. CASE Apply(Remove(a))
      <3>1. signers' = signers \ {a} /\ threshold' = threshold
        BY <2>3 DEF Apply, Remove
      <3>2. Cardinality(signers') = Cardinality(signers) - 1
        BY <1>1, <2>1, <3>1, SignerCount
      <3>3. threshold' \in 1..Cardinality(signers')
        BY <1>1, <1>2, <2>1, <3>1, <3>2
      <3>4. signers' \in SUBSET Address /\ signers' # {}
        BY <1>1, <3>1, <3>3, SignerCount
      <3> QED BY <1>1, <1>4, <2>1, <3>1, <3>3, <3>4 DEF TypeOK
    <2> QED BY <2>1, <2>2, <2>3 DEF approve
  <1>8. ASSUME NEW caller \in Address, NEW n \in 0..MaxList, set_threshold(caller, n)
        PROVE  QInv'
    <2>1. /\ SetThreshold(n) \in SignerAction /\ approve(caller, SetThreshold(n))
          /\ threshold # 0
      BY <1>8 DEF set_threshold, RequireSigner, SetThreshold, SignerAction
    <2>2. CASE UNCHANGED <<signers, threshold>>
      BY <1>5, <2>1, <2>2
    <2>3. CASE Apply(SetThreshold(n))
      <3>1. /\ signers' = signers /\ threshold' = n
            /\ n # 0 /\ n <= Cardinality(signers)
        BY <2>3 DEF Apply, SetThreshold
      <3> QED BY <1>1, <1>2, <1>4, <2>1, <3>1 DEF TypeOK
    <2> QED BY <2>1, <2>2, <2>3 DEF approve
  <1>9. CASE UNCHANGED vars
    BY <1>1, <1>9 DEF vars, TypeOK
  <1> QED BY <1>3, <1>6, <1>7, <1>8, <1>9 DEF Next

LEMMA InitQInv == Init => QInv
  BY BoundAssumption DEF Init, QInv, TypeOK, QuorumReachable, Enabled

\* Signers, threshold and pending approvals keep their types, whichever calls
\* interleave.
THEOREM SignerSetTypeCorrect == Spec => []TypeOK
  <1>1. QInv => TypeOK
    BY DEF QInv
  <1> QED BY <1>1, InitQInv, QInvStep, PTL DEF Spec

\* The set is never empty or smaller than the threshold once installed: no
\* interleaving of approvals leaves a quorum out of reach.
THEOREM SignerSetNeverLocked == Spec => []QuorumReachable
  <1>1. QInv => QuorumReachable
    BY DEF QInv
  <1> QED BY <1>1, InitQInv, QInvStep, PTL DEF Spec

\* What the calls have in common: initialize_multisig or an approval.
LEMMA NextCases ==
  ASSUME [Next]_vars
  PROVE  \/ \E list \in AddressLists, t \in 0..MaxList : initialize_multisig(list, t)
         \/ \E action \in SignerAction, caller \in signers : approve(caller, action)
         \/ UNCHANGED vars
  <1>1. ASSUME NEW caller \in Address, NEW a \in Address,
               add_signer(caller, a) \/ remove_signer(caller, a)
        PROVE  \E action \in SignerAction : caller \in signers /\ approve(caller, action)
    <2>1. Add(a) \in SignerAction /\ Remove(a) \in SignerAction
      BY DEF Add, Remove, SignerAction
    <2> QED BY <1>1, <2>1, Zenon DEF add_signer, remove_signer, RequireSigner
  <1>2. ASSUME NEW caller \in Address, NEW n \in 0..MaxList, set_threshold(caller, n)
        PROVE  \E action \in SignerAction : caller \in signers /\ approve(caller, action)
    <2>1. SetThreshold(n) \in SignerAction
      BY DEF SetThreshold, SignerAction
    <2> QED BY <1>2, <2>1, Zenon DEF set_threshold, RequireSigner
  <1> QED BY <1>1, <1>2, Zenon DEF Next

\* The approvals in storage are the ones given and not spent.
THEOREM StoredApprovalsAreUnspent == Spec => []PendingIsUnspent
  <1> USE DEF PendingIsUnspent
  <1>1. Init => PendingIsUnspent
    BY DEF Init
  <1>2. QInv /\ PendingIsUnspent /\ [Next]_vars => PendingIsUnspent'
    <2> SUFFICES ASSUME QInv, PendingIsUnspent, [Next]_vars
                 PROVE  PendingIsUnspent'
      OBVIOUS
    <2>1. /\ pending \in [SignerAction -> SUBSET Address]
          /\ unspent \in [SignerAction -> SUBSET Address]
      BY DEF QInv, TypeOK
    <2>2. CASE \E list \in AddressLists, t \in 0..MaxList : initialize_multisig(list, t)
      BY <2>2 DEF initialize_multisig
    <2>3. ASSUME NEW action \in SignerAction, NEW caller \in signers,
                 approve(caller, action)
          PROVE  PendingIsUnspent'
      BY <2>1, <2>3 DEF approve
    <2>4. CASE UNCHANGED vars
      BY <2>4 DEF vars
    <2> QED BY <2>2, <2>3, <2>4, NextCases
  <1> QED BY <1>1, <1>2, InitQInv, QInvStep, PTL DEF Spec

\* A change of the signer set takes a threshold of distinct current signers
\* who approved it since it was last made.
THEOREM ApprovalsAreSpent == Spec => ChangeSpendsApprovals
  <1>1. PendingIsUnspent /\ [Next]_vars =>
          [Enabled /\ <<signers, threshold>>' # <<signers, threshold>> =>
             \E action \in SignerAction, caller \in signers :
               /\ Apply(action)
               /\ Cardinality((unspent[action] \cup {caller}) \cap signers)
                    >= threshold]_vars
    <2> SUFFICES ASSUME PendingIsUnspent, [Next]_vars, Enabled,
                        <<signers, threshold>>' # <<signers, threshold>>
                 PROVE  \E action \in SignerAction, caller \in signers :
                          /\ Apply(action)
                          /\ Cardinality((unspent[action] \cup {caller}) \cap signers)
                               >= threshold
      OBVIOUS
    <2>1. PICK action \in SignerAction, caller \in signers : approve(caller, action)
      BY NextCases DEF initialize_multisig, vars
    <2>2. /\ Apply(action)
          /\ Cardinality((pending[action] \cup {caller}) \cap signers) >= threshold
      BY <2>1 DEF approve
    <2>3. pending[action] = unspent[action]
      BY DEF PendingIsUnspent
    <2> QED BY <2>2, <2>3
  <1> QED
    BY <1>1, StoredApprovalsAreUnspent, PTL DEF Spec, ChangeSpendsApprovals
=============================================================================
