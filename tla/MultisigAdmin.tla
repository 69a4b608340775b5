---------------------------- MODULE MultisigAdmin ----------------------------
(***************************************************************************)
(* contracts/multisig-admin: an M-of-N administrator.  Its entry points    *)
(* are actions; one invocation is one step because the Soroban host        *)
(* applies a transaction whole or not at all, so an invocation that        *)
(* returns Err or traps leaves no trace and is not a step.                 *)
(*                                                                         *)
(* The operations team governs the contract through __check_auth: an       *)
(* invocation that requires the contract's own authorization carries a     *)
(* list of addresses, each of which must authorize the invocation itself.  *)
(* The trail propose / approve / execute is a second, stored quorum.       *)
(*                                                                         *)
(* Abstracted: the payload bytes (opaque to the contract), events other    *)
(* than PropExec, TTL extension (an archived instance refuses every call   *)
(* and keeps its state), and the order of the Vec<Address> values once     *)
(* they are known to hold no duplicate.                                    *)
(***************************************************************************)
EXTENDS Integers, FiniteSets, Sequences, Functions

CONSTANTS
  Address,         \* signers and would-be signers
  Wasm,            \* WASM hashes the contract may be upgraded to
  NoProposal,      \* the absent Proposal(id) entry
  MaxLedger,       \* bound: the last ledger of a behaviour
  MaxProposals,    \* bound: how many proposals a behaviour creates
  MaxList          \* bound: the longest signer or signature list submitted

ProposalId == 0..(MaxProposals - 1)
Ledger == 0..MaxLedger
Proposal == [expiry : 1..MaxLedger, approvals : SUBSET Address]

ASSUME AddressAssumption == IsFiniteSet(Address)
ASSUME BoundsAssumption ==
  MaxLedger \in Nat /\ MaxProposals \in Nat /\ MaxList \in Nat
ASSUME NoProposalAssumption == NoProposal \notin Proposal

VARIABLES
  ledger,          \* env.ledger().sequence()
  signers,         \* DataKey::Signers
  threshold,       \* DataKey::Threshold; 0 stands for the absent entry
  proposals,       \* DataKey::Proposal(id)
  nextProposalId,  \* DataKey::NextProposalId
  paused,          \* the flag of the pausable crate
  wasm,            \* the code the instance runs
  executed,        \* history: ids announced by a PropExec event
  consent,         \* history: who authorized an approval of each id
  by               \* observation: whose require_auth the last call passed

storage == <<signers, threshold, proposals, nextProposalId, paused, wasm>>
vars == <<ledger, storage, executed, consent, by>>

Initialized == threshold # 0

\* Every Vec<Address> argument a caller can submit, duplicates included.
AddressLists == UNION {[1..n -> Address] : n \in 0..MaxList}

\* How many distinct approvers recorded for a proposal are signers today.
ValidApprovals(p) == Cardinality(p.approvals \cap signers)

Live == {id \in ProposalId : proposals[id] # NoProposal}

\* The proposals execute would accept now.
Executable ==
  {id \in Live : /\ ledger < proposals[id].expiry
                 /\ ValidApprovals(proposals[id]) >= threshold}

TypeOK ==
  /\ ledger \in Ledger
  /\ signers \in SUBSET Address
  /\ threshold \in Nat
  /\ proposals \in [ProposalId -> Proposal \cup {NoProposal}]
  /\ nextProposalId \in 0..MaxProposals
  /\ paused \in BOOLEAN
  /\ wasm \in Wasm
  /\ executed \in SUBSET ProposalId
  /\ consent \in [ProposalId -> SUBSET Address]
  /\ by \in SUBSET Address

-----------------------------------------------------------------------------
Init ==
  /\ ledger = 0
  /\ signers = {}
  /\ threshold = 0
  /\ proposals = [id \in ProposalId |-> NoProposal]
  /\ nextProposalId = 0
  /\ paused = FALSE
  /\ wasm \in Wasm
  /\ executed = {}
  /\ consent = [id \in ProposalId |-> {}]
  /\ by = {}

\* The network closes a ledger.
CloseLedger ==
  /\ ledger < MaxLedger
  /\ ledger' = ledger + 1
  /\ by' = {}
  /\ UNCHANGED <<storage, executed, consent>>

\* initialize: anybody may call it, once.
initialize(list, t) ==
  /\ ~Initialized
  /\ IsInjective(list)
  /\ t # 0 /\ t <= Len(list)
  /\ signers' = Range(list)
  /\ threshold' = t
  /\ by' = {}
  /\ UNCHANGED <<ledger, proposals, nextProposalId, paused, wasm, executed, consent>>

\* Variant, not in Next: __check_auth without its duplicate check.
CheckAuthWithDuplicates(sigs) ==
  /\ Initialized
  /\ Cardinality({i \in DOMAIN sigs : sigs[i] \in signers}) >= threshold

\* __check_auth: a duplicated signature is refused, addresses outside the
\* signer set are ignored, and the rest must reach the threshold.
CheckAuth(sigs) ==
  /\ Initialized
  /\ IsInjective(sigs)
  /\ Cardinality({i \in DOMAIN sigs : sigs[i] \in signers}) >= threshold

\* env.current_contract_address().require_auth(): __check_auth accepts sigs,
\* and every address in it has authorized the invocation.
RequireSelfAuth(sigs) ==
  /\ CheckAuth(sigs)
  /\ by' = Range(sigs)
  /\ UNCHANGED <<ledger, executed, consent>>

pause(sigs) ==
  /\ RequireSelfAuth(sigs)
  /\ paused' = TRUE
  /\ UNCHANGED <<signers, threshold, proposals, nextProposalId, wasm>>

unpause(sigs) ==
  /\ RequireSelfAuth(sigs)
  /\ paused' = FALSE
  /\ UNCHANGED <<signers, threshold, proposals, nextProposalId, wasm>>

\* upgrade: not stopped by the pause; the storage survives it.
upgrade(sigs, hash) ==
  /\ RequireSelfAuth(sigs)
  /\ wasm' = hash
  /\ UNCHANGED <<signers, threshold, proposals, nextProposalId, paused>>

add_signer(sigs, a) ==
  /\ ~paused
  /\ RequireSelfAuth(sigs)
  /\ a \notin signers
  /\ signers' = signers \cup {a}
  /\ UNCHANGED <<threshold, proposals, nextProposalId, paused, wasm>>

\* Variant: the count is compared with the threshold before the removal.
remove_signer_CountsFirst(sigs, a) ==
  /\ ~paused
  /\ RequireSelfAuth(sigs)
  /\ a \in signers
  /\ Cardinality(signers) >= threshold
  /\ signers' = signers \ {a}
  /\ UNCHANGED <<threshold, proposals, nextProposalId, paused, wasm>>

remove_signer(sigs, a) ==
  /\ ~paused
  /\ RequireSelfAuth(sigs)
  /\ a \in signers
  /\ Cardinality(signers \ {a}) >= threshold
  /\ signers' = signers \ {a}
  /\ UNCHANGED <<threshold, proposals, nextProposalId, paused, wasm>>

\* Variant: the threshold may be lowered while the contract is paused.
update_threshold_WhilePaused(sigs, t) ==
  /\ RequireSelfAuth(sigs)
  /\ t # 0 /\ t <= Cardinality(signers)
  /\ threshold' = t
  /\ UNCHANGED <<signers, proposals, nextProposalId, paused, wasm>>

update_threshold(sigs, t) ==
  /\ ~paused
  /\ RequireSelfAuth(sigs)
  /\ t # 0 /\ t <= Cardinality(signers)
  /\ threshold' = t
  /\ UNCHANGED <<signers, proposals, nextProposalId, paused, wasm>>

\* Variant: a proposal may expire at the ledger it is created in.
propose_ExpiresNow(expiry) ==
  /\ ~paused
  /\ expiry >= ledger
  /\ Initialized
  /\ nextProposalId < MaxProposals
  /\ proposals' = [proposals EXCEPT ![nextProposalId] =
                     [expiry |-> expiry, approvals |-> {}]]
  /\ nextProposalId' = nextProposalId + 1
  /\ by' = {}
  /\ UNCHANGED <<ledger, signers, threshold, paused, wasm, executed, consent>>

\* propose: anybody may put a proposal on the trail.
propose(expiry) ==
  /\ ~paused
  /\ expiry > ledger
  /\ Initialized
  /\ nextProposalId < MaxProposals
  /\ proposals' = [proposals EXCEPT ![nextProposalId] =
                     [expiry |-> expiry, approvals |-> {}]]
  /\ nextProposalId' = nextProposalId + 1
  /\ by' = {}
  /\ UNCHANGED <<ledger, signers, threshold, paused, wasm, executed, consent>>

\* approve: whether the approvals now suffice is only answered to the caller;
\* the answer counts former signers too, which execute does not.
approve(id, approver) ==
  /\ ~paused
  /\ id \in Live
  /\ ledger < proposals[id].expiry
  /\ approver \in signers
  /\ approver \notin proposals[id].approvals
  /\ proposals' = [proposals EXCEPT ![id].approvals = @ \cup {approver}]
  /\ by' = {approver}
  /\ consent' = [consent EXCEPT ![id] = @ \cup by']
  /\ UNCHANGED <<ledger, signers, threshold, nextProposalId, paused, wasm, executed>>

\* Variant: the executed proposal is left in storage.
execute_KeepsProposal(id) ==
  /\ id \in Live
  /\ ledger < proposals[id].expiry
  /\ Initialized
  /\ ValidApprovals(proposals[id]) >= threshold
  /\ executed' = executed \cup {id}
  /\ by' = {}
  /\ UNCHANGED <<ledger, storage, consent>>

\* execute: open to anybody and not stopped by the pause.
execute(id) ==
  /\ id \in Live
  /\ ledger < proposals[id].expiry
  /\ Initialized
  /\ ValidApprovals(proposals[id]) >= threshold
  /\ proposals' = [proposals EXCEPT ![id] = NoProposal]
  /\ executed' = executed \cup {id}
  /\ by' = {}
  /\ UNCHANGED <<ledger, signers, threshold, nextProposalId, paused, wasm, consent>>

Next ==
  \/ CloseLedger
  \/ \E list \in AddressLists, t \in 0..MaxList : initialize(list, t)
  \/ \E sigs \in AddressLists :
       \/ pause(sigs)
       \/ unpause(sigs)
       \/ \E hash \in Wasm : upgrade(sigs, hash)
       \/ \E a \in Address : add_signer(sigs, a) \/ remove_signer(sigs, a)
       \/ \E t \in 0..MaxList : update_threshold(sigs, t)
  \/ \E expiry \in Ledger : propose(expiry)
  \/ \E id \in ProposalId : execute(id) \/ \E a \in Address : approve(id, a)

Spec == Init /\ [][Next]_vars

-----------------------------------------------------------------------------
\* A contract that is set up can always still be governed: its threshold is
\* at least one and the signers left can reach it, whatever sequence of
\* initialize, add_signer, remove_signer and update_threshold led here.  The
\* duplicate check of initialize and the count check of remove_signer are
\* there for this: without it every contract governed is locked for good.
QuorumReachable == Initialized => threshold \in 1..Cardinality(signers)

\* The trail never runs a proposal twice and never recycles an id: an id
\* announced by PropExec was handed out by propose and has no stored proposal,
\* and an id not handed out yet has neither a proposal nor a consent.
ExecutedOnce ==
  /\ executed \cap Live = {}
  /\ \A id \in ProposalId :
       id >= nextProposalId => id \notin executed \cup Live /\ consent[id] = {}

\* While the contract is paused no call can make a proposal executable that
\* was not executable when the call started: re-adding a removed approver,
\* lowering the threshold and approving are all refused.
PauseArmsNothing == [][paused => Executable' \subseteq Executable]_vars

\* The contract is an M-of-N administrator: see QuorumGovernance.
Governance == INSTANCE QuorumGovernance WITH
  members <- signers, quorum <- threshold, suspended <- paused,
  code <- wasm, decided <- executed

\* Every step of the contract is a step the abstract administrator allows:
\* amendments carry a quorum of distinct current signers, consent is given in
\* person, and execution has a quorum of the signers of the day.
ImplementsGovernance == Governance!Spec
=============================================================================
