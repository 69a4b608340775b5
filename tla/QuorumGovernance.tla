-------------------------- MODULE QuorumGovernance --------------------------
(***************************************************************************)
(* What an M-of-N administrator promises, with no storage layout, no       *)
(* signature lists, no deadlines and no proposal records: a body of        *)
(* members with a quorum, amended only by a quorum of its current members, *)
(* that decides a matter at most once and only when a quorum of its        *)
(* current members has consented to it.  MultisigAdmin implements it.      *)
(***************************************************************************)
EXTENDS Integers, FiniteSets

CONSTANTS
  Address,      \* everybody who may ever be a member
  ProposalId    \* the matters that may be put to the body

VARIABLES
  members,      \* the current members
  quorum,       \* how many of them decide; 0 before the body exists
  suspended,    \* no member, quorum or consent changes while TRUE
  code,         \* the program that runs the body
  consent,      \* consent[id]: who consented to id, while a member
  decided,      \* the matters decided
  by            \* whose authorization the last step demanded and obtained

vars == <<members, quorum, suspended, code, consent, decided, by>>

Quorate(S) == Cardinality(S \cap members) >= quorum

Init ==
  /\ members = {}
  /\ quorum = 0
  /\ suspended = FALSE
  /\ consent = [id \in ProposalId |-> {}]
  /\ decided = {}
  /\ by = {}

\* The body comes into being once, with a quorum its members can reach.
Constitute ==
  /\ quorum = 0
  /\ members' \subseteq Address
  /\ quorum' \in 1..Cardinality(members')
  /\ by' = {}
  /\ UNCHANGED <<suspended, code, consent, decided>>

\* Members, quorum, suspension and program change by consent of a quorum of
\* the members before the change; the quorum stays one they can reach.
Amend ==
  /\ quorum # 0
  /\ Quorate(by')
  /\ members' \subseteq Address
  /\ quorum' \in 1..Cardinality(members')
  /\ suspended => UNCHANGED <<members, quorum>>
  /\ suspended' \in BOOLEAN
  /\ UNCHANGED <<consent, decided>>

\* A member consents to an undecided matter, in person.
Consent(id, a) ==
  /\ ~suspended
  /\ a \in members
  /\ id \notin decided
  /\ by' = {a}
  /\ consent' = [consent EXCEPT ![id] = @ \cup {a}]
  /\ UNCHANGED <<members, quorum, suspended, code, decided>>

\* An undecided matter is decided when a quorum of today's members consents.
Decide(id) ==
  /\ quorum # 0
  /\ id \notin decided
  /\ Quorate(consent[id])
  /\ decided' = decided \cup {id}
  /\ by' = {}
  /\ UNCHANGED <<members, quorum, suspended, code, consent>>

\* Time passes or a matter is put to the body.
Idle ==
  /\ by' = {}
  /\ UNCHANGED <<members, quorum, suspended, code, consent, decided>>

Next ==
  \/ Constitute
  \/ Amend
  \/ \E id \in ProposalId : (\E a \in Address : Consent(id, a)) \/ Decide(id)
  \/ Idle

Spec == Init /\ [][Next]_vars
=============================================================================
