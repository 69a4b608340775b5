--------------------------- MODULE DenylistSignerSet ---------------------------
(***************************************************************************)
(* contracts/denylist-gate, its M-of-N signer set: initialize_multisig,    *)
(* add_signer, remove_signer and set_threshold.  Unlike multisig-admin,    *)
(* where a list of signatures comes with one call, each signer approves a  *)
(* change in a call of its own, approvals of one change pile up in storage *)
(* across calls and across other changes, and the call that reaches the    *)
(* threshold applies the change.                                           *)
(*                                                                         *)
(* The rest of the contract meets these entry points only in the admin     *)
(* that initialize_multisig asks for; when it authorizes that call is left *)
(* to the environment.                                                     *)
(***************************************************************************)
EXTENDS Integers, FiniteSets, Sequences, Functions

CONSTANTS
  Address,      \* signers and would-be signers
  MaxList       \* bound: the longest list given to initialize_multisig, and
                \* the largest threshold asked for

ASSUME AddressAssumption == IsFiniteSet(Address)
ASSUME BoundAssumption == MaxList \in Nat

VARIABLES
  signers,      \* SignerSet.signers; empty while DataKey::SignerSet is absent
  threshold,    \* SignerSet.threshold; 0 while DataKey::SignerSet is absent
  pending,      \* DataKey::PendingSignerAction(action): {} when absent
  unspent       \* history: who approved the action since it last was applied

vars == <<signers, threshold, pending, unspent>>

\* SignerAction.
Add(a) == [kind |-> "add", arg |-> a]
Remove(a) == [kind |-> "remove", arg |-> a]
SetThreshold(n) == [kind |-> "threshold", arg |-> n]
SignerAction ==
  [kind : {"add", "remove"}, arg : Address]
    \cup [kind : {"threshold"}, arg : 0..MaxList]

AddressLists == UNION {[1..n -> Address] : n \in 0..MaxList}
Enabled == threshold # 0

TypeOK ==
  /\ signers \in SUBSET Address
  /\ threshold \in 0..MaxList
  /\ threshold = 0 <=> signers = {}
  /\ pending \in [SignerAction -> SUBSET Address]
  /\ unspent \in [SignerAction -> SUBSET Address]

Init ==
  /\ signers = {}
  /\ threshold = 0
  /\ pending = [action \in SignerAction |-> {}]
  /\ unspent = [action \in SignerAction |-> {}]

\* initialize_multisig: once, a non-empty list without duplicates.
initialize_multisig(list, t) ==
  /\ ~Enabled
  /\ list # <<>>
  /\ t # 0 /\ t <= Len(list)
  /\ IsInjective(list)
  /\ signers' = Range(list)
  /\ threshold' = t
  /\ UNCHANGED <<pending, unspent>>

\* require_signer: the caller authorized the call and is a signer today.
RequireSigner(caller) == Enabled /\ caller \in signers

\* Variant, not in Next: the threshold is checked against the count only.
Apply_ZeroThreshold(action) ==
  CASE action.kind = "add" ->
         signers' = signers \cup {action.arg} /\ threshold' = threshold
    [] action.kind = "remove" ->
         signers' = signers \ {action.arg} /\ threshold' = threshold
    [] action.kind = "threshold" ->
         /\ action.arg <= Cardinality(signers)
         /\ threshold' = action.arg /\ signers' = signers

\* The change of the set an action asks for; SetThreshold may still refuse,
\* and then the whole call is undone, its approval included.
Apply(action) ==
  CASE action.kind = "add" ->
         signers' = signers \cup {action.arg} /\ threshold' = threshold
    [] action.kind = "remove" ->
         signers' = signers \ {action.arg} /\ threshold' = threshold
    [] action.kind = "threshold" ->
         /\ action.arg # 0 /\ action.arg <= Cardinality(signers)
         /\ threshold' = action.arg /\ signers' = signers

\* Variant: an applied change leaves its approvals in storage.
approve_KeepsApprovals(caller, action) ==
  LET approvals == pending[action] \cup {caller}
      approved == unspent[action] \cup {caller}
  IN  \/ /\ Cardinality(approvals \cap signers) < threshold
         /\ pending' = [pending EXCEPT ![action] = approvals]
         /\ unspent' = [unspent EXCEPT ![action] = approved]
         /\ UNCHANGED <<signers, threshold>>
      \/ /\ Cardinality(approvals \cap signers) >= threshold
         /\ Apply(action)
         /\ pending' = [pending EXCEPT ![action] = approvals]
         /\ unspent' = [unspent EXCEPT ![action] = {}]

\* approve: one more approval of the action, counting only those of today's
\* signers; at the threshold they are spent and the change is made.
approve(caller, action) ==
  LET approvals == pending[action] \cup {caller}
      approved == unspent[action] \cup {caller}
  IN  \/ /\ Cardinality(approvals \cap signers) < threshold
         /\ pending' = [pending EXCEPT ![action] = approvals]
         /\ unspent' = [unspent EXCEPT ![action] = approved]
         /\ UNCHANGED <<signers, threshold>>
      \/ /\ Cardinality(approvals \cap signers) >= threshold
         /\ Apply(action)
         /\ pending' = [pending EXCEPT ![action] = {}]
         /\ unspent' = [unspent EXCEPT ![action] = {}]

add_signer(caller, a) ==
  /\ RequireSigner(caller)
  /\ a \notin signers
  /\ approve(caller, Add(a))

\* Variant: a removal is not checked against the threshold.
remove_signer_BelowThreshold(caller, a) ==
  /\ RequireSigner(caller)
  /\ a \in signers
  /\ Cardinality(signers) > 1
  /\ approve(caller, Remove(a))

\* remove_signer: refused before the approval is recorded if the set could
\* not spare a signer.
remove_signer(caller, a) ==
  /\ RequireSigner(caller)
  /\ a \in signers
  /\ Cardinality(signers) > 1
  /\ threshold <= Cardinality(signers) - 1
  /\ approve(caller, Remove(a))

set_threshold(caller, n) ==
  /\ RequireSigner(caller)
  /\ approve(caller, SetThreshold(n))

Next ==
  \/ \E list \in AddressLists, t \in 0..MaxList : initialize_multisig(list, t)
  \/ \E caller \in Address :
       \/ \E a \in Address : add_signer(caller, a) \/ remove_signer(caller, a)
       \/ \E n \in 0..MaxList : set_threshold(caller, n)

Spec == Init /\ [][Next]_vars

-----------------------------------------------------------------------------
\* "The set may never become empty or smaller than the threshold" (lib.rs:697):
\* no interleaving of pending additions, removals and threshold changes, each
\* validated when it was approved and applied later, leaves a threshold the
\* signers cannot reach.
QuorumReachable == Enabled => threshold \in 1..Cardinality(signers)

\* A change of the set is made by the approvals of a threshold of distinct
\* signers of the day, each given after the same change was last made: an
\* approval is spent by the change it led to and cannot lead to it again, also
\* when the change is undone in between by removing the signer it added.
ChangeSpendsApprovals ==
  [][Enabled /\ <<signers, threshold>>' # <<signers, threshold>> =>
       \E action \in SignerAction, caller \in signers :
         /\ Apply(action)
         /\ Cardinality((unspent[action] \cup {caller}) \cap signers) >= threshold]_vars

\* Every approval in storage is one not spent yet.
PendingIsUnspent ==
  \A action \in SignerAction : pending[action] = unspent[action]
=============================================================================
