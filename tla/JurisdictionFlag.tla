---------------------------- MODULE JurisdictionFlag ----------------------------
(***************************************************************************)
(* contracts/jurisdiction-flag: jurisdiction codes attached to addresses,  *)
(* with an optional last ledger; the issuer, the officer and the issuer's  *)
(* handover; the pause.                                                    *)
(*                                                                         *)
(* Abstracted: the order of an address's codes, which decides only which   *)
(* of them the single-code views name (add_jurisdiction never stores a     *)
(* code twice, so a list is a set and its first code); the order of a      *)
(* batch, whose later entries overwrite earlier ones of the same address;  *)
(* TTL extension and events.  upgrade is no step: it removes a key that    *)
(* nothing sets and, whatever its comment says, swaps no code.             *)
(***************************************************************************)
EXTENDS Integers, FiniteSets

CONSTANTS
  Account,        \* issuers, officers and those who would be
  Subject,        \* the addresses that carry flags
  Code,           \* the strings given as jurisdiction codes
  WellFormed,     \* those of two uppercase letters
  None,           \* an absent storage entry
  MaxCodes,       \* MAX_CODES_PER_ADDRESS
  MaxBatchSize,   \* MAX_BATCH_SIZE
  MaxLedger       \* bound: the last ledger of a behaviour, and of an expiry

ASSUME CodeAssumption == IsFiniteSet(Code) /\ WellFormed \subseteq Code
ASSUME LimitAssumption == MaxCodes \in Nat \ {0} /\ MaxLedger \in Nat
ASSUME NoneAssumption == None \notin Account \cup Code \cup Nat

VARIABLES
  ledger,          \* env.ledger().sequence()
  issuer,          \* DataKey::Issuer
  pendingIssuer,   \* DataKey::PendingIssuer
  officer,         \* DataKey::ComplianceOfficer
  paused,          \* DataKey::Paused
  codes,           \* DataKey::Jurisdictions(address), {} when absent
  legacy,          \* DataKey::Jurisdiction(address): the first of the codes
  validUntil,      \* DataKey::ValidUntil(address)
  \* history
  nominator,       \* who made the proposal in pendingIssuer
  by               \* who changed flags, when the last call did

roles == <<issuer, pendingIssuer, officer, nominator>>
flags == <<codes, legacy, validUntil>>
vars == <<ledger, roles, paused, flags, by>>

TypeOK ==
  /\ ledger \in 0..MaxLedger
  /\ issuer \in Account \cup {None}
  /\ pendingIssuer \in Account \cup {None}
  /\ officer \in Account \cup {None}
  /\ paused \in BOOLEAN
  /\ codes \in [Subject -> SUBSET WellFormed]
  /\ legacy \in [Subject -> WellFormed \cup {None}]
  /\ validUntil \in [Subject -> (0..MaxLedger) \cup {None}]
  /\ nominator \in Account \cup {None}
  /\ by \in Account \cup {None}

-----------------------------------------------------------------------------
\* Storage.

\* load_jurisdictions: the list, or else the one code of the older layout.
load_jurisdictions(s) ==
  IF codes[s] # {} THEN codes[s] ELSE {legacy[s]} \ {None}

Expired(s) == validUntil[s] # None /\ validUntil[s] < ledger

\* load_active_jurisdictions, which every read of a flag goes through: an
\* expired flag stays in storage and counts for nothing.
load_active_jurisdictions(s) == IF Expired(s) THEN {} ELSE load_jurisdictions(s)

\* The first code of the list that replaces the codes of s by set: the old
\* first if it stays, as codes are appended and removed in place.
MayLead(c, s, set) ==
  IF legacy[s] \in set \cap load_jurisdictions(s) THEN c = legacy[s] ELSE c \in set

\* Variant: an emptied list takes its two code keys along but not the expiry.
store_jurisdictions_KeepsExpiry(new, until) ==
  /\ codes' = [s \in Subject |-> IF s \in DOMAIN new THEN new[s] ELSE codes[s]]
  /\ legacy' \in [Subject -> Code \cup {None}]
  /\ \A s \in Subject :
       IF s \notin DOMAIN new THEN legacy'[s] = legacy[s]
       ELSE IF new[s] = {} THEN legacy'[s] = None
       ELSE MayLead(legacy'[s], s, new[s])
  /\ validUntil' = [s \in Subject |->
       IF s \in DOMAIN new THEN until[s] ELSE validUntil[s]]

\* store_jurisdictions for each s in DOMAIN new, with what its caller does to
\* ValidUntil: an empty list takes every key of the address along.
store_jurisdictions(new, until) ==
  /\ codes' = [s \in Subject |-> IF s \in DOMAIN new THEN new[s] ELSE codes[s]]
  /\ legacy' \in [Subject -> Code \cup {None}]
  /\ \A s \in Subject :
       IF s \notin DOMAIN new THEN legacy'[s] = legacy[s]
       ELSE IF new[s] = {} THEN legacy'[s] = None
       ELSE MayLead(legacy'[s], s, new[s])
  /\ validUntil' = [s \in Subject |->
       IF s \notin DOMAIN new THEN validUntil[s]
       ELSE IF new[s] = {} THEN None ELSE until[s]]

-----------------------------------------------------------------------------
\* A fresh instance, or one whose flags were written by the single-code layout
\* that load_jurisdictions still reads.
Init ==
  /\ ledger = 0
  /\ \/ issuer = None /\ legacy = [s \in Subject |-> None]
     \/ issuer \in Account /\ legacy \in [Subject -> WellFormed \cup {None}]
  /\ pendingIssuer = None /\ officer = None /\ nominator = None
  /\ paused = FALSE
  /\ codes = [s \in Subject |-> {}]
  /\ validUntil = [s \in Subject |-> None]
  /\ by = None

CloseLedger ==
  /\ ledger < MaxLedger
  /\ ledger' = ledger + 1
  /\ by' = None
  /\ UNCHANGED <<roles, paused, flags>>

initialize(a) ==
  /\ issuer = None
  /\ issuer' = a
  /\ paused' = FALSE
  /\ by' = None
  /\ UNCHANGED <<ledger, pendingIssuer, officer, nominator, flags>>

\* require_issuer: caller authorized the call and is the stored issuer.
RequireIssuer(caller) == issuer # None /\ caller = issuer

\* Variant: the emergency rotation leaves the proposal pending.
transfer_issuer_KeepsProposal(caller, a) ==
  /\ RequireIssuer(caller)
  /\ issuer' = a
  /\ by' = None
  /\ UNCHANGED <<ledger, pendingIssuer, officer, nominator, paused, flags>>

\* transfer_issuer: at once, and no outstanding proposal survives it.
transfer_issuer(caller, a) ==
  /\ RequireIssuer(caller)
  /\ issuer' = a
  /\ pendingIssuer' = None
  /\ nominator' = None
  /\ by' = None
  /\ UNCHANGED <<ledger, officer, paused, flags>>

propose_issuer(caller, a) ==
  /\ RequireIssuer(caller)
  /\ pendingIssuer' = a
  /\ nominator' = caller
  /\ by' = None
  /\ UNCHANGED <<ledger, issuer, officer, paused, flags>>

\* accept_issuer: by the very account that was proposed.
accept_issuer(caller) ==
  /\ pendingIssuer # None
  /\ pendingIssuer = caller
  /\ issuer # None
  /\ issuer' = caller
  /\ pendingIssuer' = None
  /\ nominator' = None
  /\ by' = None
  /\ UNCHANGED <<ledger, officer, paused, flags>>

cancel_issuer_proposal(caller) ==
  /\ RequireIssuer(caller)
  /\ pendingIssuer' = None
  /\ nominator' = None
  /\ by' = None
  /\ UNCHANGED <<ledger, issuer, officer, paused, flags>>

set_compliance_officer(caller, a) ==
  /\ RequireIssuer(caller)
  /\ officer' = a
  /\ by' = None
  /\ UNCHANGED <<ledger, issuer, pendingIssuer, nominator, paused, flags>>

revoke_compliance_officer(caller) ==
  /\ RequireIssuer(caller)
  /\ officer' = None
  /\ by' = None
  /\ UNCHANGED <<ledger, issuer, pendingIssuer, nominator, paused, flags>>

pause(caller) ==
  /\ RequireIssuer(caller)
  /\ paused' = TRUE
  /\ by' = None
  /\ UNCHANGED <<ledger, roles, flags>>

unpause(caller) ==
  /\ RequireIssuer(caller)
  /\ paused' = FALSE
  /\ by' = None
  /\ UNCHANGED <<ledger, roles, flags>>

-----------------------------------------------------------------------------
\* Assigning codes: the issuer or the officer, not while paused.

\* require_compliance_authority, then reject_if_paused.
MayAssign(caller) ==
  /\ issuer # None
  /\ caller \in {issuer, officer}
  /\ ~paused

\* set_jurisdiction: c replaces all codes of s, for good.
set_jurisdiction(caller, s, c) ==
  /\ MayAssign(caller)
  /\ c \in WellFormed
  /\ store_jurisdictions([x \in {s} |-> {c}], [x \in {s} |-> None])
  /\ by' = caller
  /\ UNCHANGED <<ledger, roles, paused>>

\* Variant: the batch was written without the validation of its single twin.
set_multiple_jurisdictions_Unvalidated(caller, batch) ==
  /\ MayAssign(caller)
  /\ DOMAIN batch # {}
  /\ Cardinality(DOMAIN batch) <= MaxBatchSize
  /\ store_jurisdictions([s \in DOMAIN batch |-> {batch[s]}],
                         [s \in DOMAIN batch |-> None])
  /\ by' = caller
  /\ UNCHANGED <<ledger, roles, paused>>

\* set_multiple_jurisdictions: every code is validated before the first write.
set_multiple_jurisdictions(caller, batch) ==
  /\ MayAssign(caller)
  /\ DOMAIN batch # {}
  /\ Cardinality(DOMAIN batch) <= MaxBatchSize
  /\ \A s \in DOMAIN batch : batch[s] \in WellFormed
  /\ store_jurisdictions([s \in DOMAIN batch |-> {batch[s]}],
                         [s \in DOMAIN batch |-> None])
  /\ by' = caller
  /\ UNCHANGED <<ledger, roles, paused>>

\* set_jurisdiction_until: the last ledger may be the current one.
set_jurisdiction_until(caller, s, c, until) ==
  /\ MayAssign(caller)
  /\ c \in WellFormed
  /\ until >= ledger
  /\ store_jurisdictions([x \in {s} |-> {c}], [x \in {s} |-> until])
  /\ by' = caller
  /\ UNCHANGED <<ledger, roles, paused>>

\* Variant: the new code comes with no expiry, like one just set.
add_jurisdiction_ForGood(caller, s, c) ==
  /\ MayAssign(caller)
  /\ c \in WellFormed
  /\ c \notin load_jurisdictions(s)
  /\ Cardinality(load_jurisdictions(s)) < MaxCodes
  /\ store_jurisdictions([x \in {s} |-> load_jurisdictions(s) \cup {c}],
                         [x \in {s} |-> None])
  /\ by' = caller
  /\ UNCHANGED <<ledger, roles, paused>>

\* add_jurisdiction: joins the codes in storage, expired ones included, under
\* the expiry they have. A code that is there already is no step.
add_jurisdiction(caller, s, c) ==
  /\ MayAssign(caller)
  /\ c \in WellFormed
  /\ c \notin load_jurisdictions(s)
  /\ Cardinality(load_jurisdictions(s)) < MaxCodes
  /\ store_jurisdictions([x \in {s} |-> load_jurisdictions(s) \cup {c}], validUntil)
  /\ by' = caller
  /\ UNCHANGED <<ledger, roles, paused>>

-----------------------------------------------------------------------------
\* Removing codes: the issuer only, not while paused.

\* Variant: removal takes the officer too, like the calls that assign.
remove_jurisdiction_ByOfficer(caller, s, c) ==
  /\ MayAssign(caller)
  /\ store_jurisdictions([x \in {s} |-> load_jurisdictions(s) \ {c}], validUntil)
  /\ by' = caller
  /\ UNCHANGED <<ledger, roles, paused>>

\* remove_jurisdiction: the rest is stored back, in the newer layout.
remove_jurisdiction(caller, s, c) ==
  /\ RequireIssuer(caller)
  /\ ~paused
  /\ store_jurisdictions([x \in {s} |-> load_jurisdictions(s) \ {c}], validUntil)
  /\ by' = caller
  /\ UNCHANGED <<ledger, roles, paused>>

\* remove_jurisdiction_multiple, whose number of addresses is not limited.
remove_jurisdiction_multiple(caller, batch) ==
  /\ RequireIssuer(caller)
  /\ ~paused
  /\ store_jurisdictions([s \in batch |-> {}], validUntil)
  /\ by' = caller
  /\ UNCHANGED <<ledger, roles, paused>>

Next ==
  \/ CloseLedger
  \/ \E a \in Account : initialize(a)
  \/ \E caller \in Account :
       \/ \E a \in Account :
            \/ transfer_issuer(caller, a)
            \/ propose_issuer(caller, a)
            \/ set_compliance_officer(caller, a)
       \/ accept_issuer(caller)
       \/ cancel_issuer_proposal(caller)
       \/ revoke_compliance_officer(caller)
       \/ pause(caller)
       \/ unpause(caller)
       \/ \E s \in Subject, c \in Code :
            \/ set_jurisdiction(caller, s, c)
            \/ \E until \in 0..MaxLedger : set_jurisdiction_until(caller, s, c, until)
            \/ add_jurisdiction(caller, s, c)
            \/ remove_jurisdiction(caller, s, c)
       \/ \E S \in SUBSET Subject :
            \/ \E batch \in [S -> Code] : set_multiple_jurisdictions(caller, batch)
            \/ remove_jurisdiction_multiple(caller, S)

Spec == Init /\ [][Next]_vars

-----------------------------------------------------------------------------
\* A pending handover is always the current issuer's: a proposal of an issuer
\* who was rotated out, or has handed over, can never be accepted.
PendingIsCurrentIssuers == pendingIssuer # None => nominator = issuer

\* The three storage keys of an address never contradict each other, in
\* whatever order it is flagged, extended, migrated and cleared: the older key
\* names one of the codes, an expiry never outlives the codes it was given for
\* (it would fall on the next ones), and reads stay within their budget.
KeysAgree ==
  \A s \in Subject :
    /\ codes[s] # {} => legacy[s] \in codes[s]
    /\ validUntil[s] # None => codes[s] # {}
    /\ Cardinality(codes[s]) <= MaxCodes

\* An address whose flag has run out is read as flagged again only through an
\* explicit assignment, by an authority, of the one code it is then left with:
\* never by attaching or removing codes, by the pause or by a handover.
RenewalStep ==
  \A s \in Subject :
    Expired(s) /\ load_active_jurisdictions(s)' # {} =>
      /\ by' \in {issuer, officer} \ {None}
      /\ Cardinality(codes'[s]) = 1
ExpiredNeedsRenewal == [][RenewalStep]_vars

\* Flags change only while the contract runs and by the issuer or the officer
\* of the moment, and only the issuer leaves an address without any code: "the
\* officer role does not extend to removal" (lib.rs:314).
AuthorityStep ==
  flags' # flags =>
    /\ ~paused
    /\ by' \in {issuer, officer} \ {None}
    /\ \A s \in Subject :
         load_jurisdictions(s) # {} /\ load_jurisdictions(s)' = {} => by' = issuer
FlagsUnderAuthority == [][AuthorityStep]_vars
=============================================================================
