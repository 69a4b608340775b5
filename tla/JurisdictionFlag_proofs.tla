------------------------- MODULE JurisdictionFlag_proofs -------------------------
(***************************************************************************)
(* Proofs about JurisdictionFlag for every value of its constants.         *)
(***************************************************************************)
EXTENDS JurisdictionFlag, FiniteSetTheorems, TLAPS

Until == (0..MaxLedger) \cup {None}

LEMMA InitType == Init => TypeOK
  <1> SUFFICES ASSUME Init PROVE TypeOK
    OBVIOUS
  <1>1. 0 \in 0..MaxLedger
    BY LimitAssumption
  <1> QED BY <1>1 DEF Init, TypeOK

\* Sets of codes are finite, and so is what adding and removing leaves.
LEMMA CodeCount ==
  ASSUME NEW C \in SUBSET WellFormed
  PROVE  /\ Cardinality(C) \in Nat
         /\ \A c : c \notin C => Cardinality(C \cup {c}) = Cardinality(C) + 1
         /\ \A c : Cardinality(C \ {c}) <= Cardinality(C)
         /\ \A c : Cardinality({c}) = 1
         /\ Cardinality({}) = 0
  <1>1. IsFiniteSet(C)
    BY CodeAssumption, FS_Subset
  <1>2. Cardinality(C) \in Nat
    BY <1>1, FS_CardinalityType
  <1>3. ASSUME NEW c PROVE Cardinality(C \ {c}) <= Cardinality(C)
    <2>1. C \ {c} \in SUBSET C
      OBVIOUS
    <2> QED BY <1>1, <2>1, FS_Subset
  <1> QED BY <1>1, <1>2, <1>3, FS_AddElement, FS_Singleton, FS_EmptySet

\* What is read from storage is a set of well-formed codes within the limit.
LEMMA Loaded ==
  ASSUME TypeOK, KeysAgree, NEW s \in Subject
  PROVE  /\ load_jurisdictions(s) \in SUBSET WellFormed
         /\ Cardinality(load_jurisdictions(s)) <= MaxCodes
  <1>1. load_jurisdictions(s) \in SUBSET WellFormed
    BY DEF TypeOK, load_jurisdictions
  <1>2. CASE codes[s] # {}
    BY <1>1, <1>2 DEF KeysAgree, load_jurisdictions
  <1>3. CASE codes[s] = {} /\ legacy[s] = None
    <2>1. load_jurisdictions(s) = {}
      BY <1>3 DEF load_jurisdictions
    <2>2. Cardinality({}) = 0 /\ 0 <= MaxCodes
      BY FS_EmptySet, LimitAssumption
    <2> QED BY <1>1, <2>1, <2>2
  <1>4. CASE codes[s] = {} /\ legacy[s] # None
    <2>1. load_jurisdictions(s) = {legacy[s]}
      BY <1>4 DEF load_jurisdictions
    <2>2. Cardinality({legacy[s]}) = 1
      BY FS_Singleton
    <2>3. 1 <= MaxCodes
      BY LimitAssumption
    <2> QED BY <1>1, <2>1, <2>2, <2>3
  <1> QED BY <1>2, <1>3, <1>4

\* Storing lists within the limit keeps the keys of every address consistent.
LEMMA Stored ==
  ASSUME TypeOK, KeysAgree,
         NEW S \in SUBSET Subject, NEW new \in [S -> SUBSET WellFormed], NEW until,
         \A s \in S : until[s] \in Until,
         \A s \in S : Cardinality(new[s]) <= MaxCodes,
         store_jurisdictions(new, until)
  PROVE  /\ codes' \in [Subject -> SUBSET WellFormed]
         /\ legacy' \in [Subject -> WellFormed \cup {None}]
         /\ validUntil' \in [Subject -> Until]
         /\ KeysAgree'
  <1>1. DOMAIN new = S
    OBVIOUS
  <1>2. codes' \in [Subject -> SUBSET WellFormed]
    BY <1>1 DEF TypeOK, store_jurisdictions
  <1>3. \A s \in S : new[s] # {} => legacy'[s] \in new[s]
    BY <1>1 DEF store_jurisdictions, MayLead
  <1>4. \A s \in Subject : legacy'[s] \in WellFormed \cup {None}
    BY <1>1, <1>3 DEF TypeOK, store_jurisdictions
  <1>5. legacy' \in [Subject -> WellFormed \cup {None}]
    <2>1. legacy' \in [Subject -> Code \cup {None}]
      BY DEF store_jurisdictions
    <2> QED BY <1>4, <2>1
  <1>6. validUntil' \in [Subject -> Until]
    BY <1>1 DEF TypeOK, store_jurisdictions, Until
  <1>7. ASSUME NEW s \in Subject
        PROVE  /\ codes'[s] # {} => legacy'[s] \in codes'[s]
               /\ validUntil'[s] # None => codes'[s] # {}
               /\ Cardinality(codes'[s]) <= MaxCodes
    <2>1. CASE s \in S
      <3>1. codes'[s] = new[s] /\ (new[s] = {} => validUntil'[s] = None)
        BY <1>1, <2>1 DEF store_jurisdictions
      <3> QED BY <1>3, <2>1, <3>1
    <2>2. CASE s \notin S
      <3>1. codes'[s] = codes[s] /\ legacy'[s] = legacy[s]
            /\ validUntil'[s] = validUntil[s]
        BY <1>1, <2>2 DEF store_jurisdictions
      <3> QED BY <3>1 DEF KeysAgree
    <2> QED BY <2>1, <2>2
  <1> QED BY <1>2, <1>5, <1>6, <1>7 DEF KeysAgree

\* What the calls that touch flags have in common: they are stores by an
\* authority of lists within the limit.
FlagCall(caller) ==
  \/ \E s \in Subject, c \in Code :
       \/ set_jurisdiction(caller, s, c)
       \/ \E until \in 0..MaxLedger : set_jurisdiction_until(caller, s, c, until)
       \/ add_jurisdiction(caller, s, c)
       \/ remove_jurisdiction(caller, s, c)
  \/ \E S \in SUBSET Subject :
       \/ \E batch \in [S -> Code] : set_multiple_jurisdictions(caller, batch)
       \/ remove_jurisdiction_multiple(caller, S)

LEMMA FlagCallStores ==
  ASSUME TypeOK, KeysAgree, NEW caller \in Account, FlagCall(caller)
  PROVE  /\ by' = caller /\ caller \in {issuer, officer} /\ caller # None /\ ~paused
         /\ UNCHANGED <<ledger, roles, paused>>
         /\ \E S \in SUBSET Subject : \E new \in [S -> SUBSET WellFormed] : \E until :
              /\ \A s \in S : until[s] \in Until
              /\ \A s \in S : Cardinality(new[s]) <= MaxCodes
              /\ store_jurisdictions(new, until)
              /\ \/ \A s \in S : Cardinality(new[s]) = 1
                 \/ \A s \in S : until[s] = validUntil[s]
              /\ \/ caller = issuer
                 \/ \A s \in S : new[s] # {}
  <1> DEFINE Good(S, new, until) ==
        /\ \A s \in S : until[s] \in Until
        /\ \A s \in S : Cardinality(new[s]) <= MaxCodes
        /\ store_jurisdictions(new, until)
        /\ \/ \A s \in S : Cardinality(new[s]) = 1
           \/ \A s \in S : until[s] = validUntil[s]
        /\ \/ caller = issuer
           \/ \A s \in S : new[s] # {}
      Stores == \E S \in SUBSET Subject : \E new \in [S -> SUBSET WellFormed] :
                  \E until : Good(S, new, until)
  <1>1. MaxCodes \in Nat /\ 1 <= MaxCodes /\ caller # None /\ None \in Until
    BY LimitAssumption, NoneAssumption DEF Until
  <1>2. \A c : Cardinality({c}) = 1
    BY CodeCount
  <1>3. ASSUME NEW s \in Subject, NEW c \in Code, set_jurisdiction(caller, s, c)
        PROVE  Stores
    <2> DEFINE new == [x \in {s} |-> {c}]
               until == [x \in {s} |-> None]
    <2>1. new \in [{s} -> SUBSET WellFormed] /\ store_jurisdictions(new, until)
      BY <1>3 DEF set_jurisdiction
    <2>2. Good({s}, new, until)
      BY <1>1, <1>2, <2>1
    <2> QED BY <2>1, <2>2
  <1>4. ASSUME NEW s \in Subject, NEW c \in Code, NEW u \in 0..MaxLedger,
               set_jurisdiction_until(caller, s, c, u)
        PROVE  Stores
    <2> DEFINE new == [x \in {s} |-> {c}]
               until == [x \in {s} |-> u]
    <2>1. new \in [{s} -> SUBSET WellFormed] /\ store_jurisdictions(new, until)
      BY <1>4 DEF set_jurisdiction_until
    <2>2. Good({s}, new, until)
      BY <1>1, <1>2, <2>1 DEF Until
    <2> QED BY <2>1, <2>2
  <1>5. ASSUME NEW s \in Subject, NEW c \in Code, add_jurisdiction(caller, s, c)
        PROVE  Stores
    <2> DEFINE L == load_jurisdictions(s)
               new == [x \in {s} |-> L \cup {c}]
    <2>1. L \in SUBSET WellFormed
      BY Loaded
    <2>2. c \in WellFormed /\ c \notin L /\ Cardinality(L) < MaxCodes
          /\ store_jurisdictions(new, validUntil)
      BY <1>5 DEF add_jurisdiction
    <2>3. Cardinality(L \cup {c}) <= MaxCodes
      <3>1. Cardinality(L \cup {c}) = Cardinality(L) + 1 /\ Cardinality(L) \in Nat
        BY <2>1, <2>2, CodeCount
      <3> QED BY <1>1, <2>2, <3>1
    <2>4. new \in [{s} -> SUBSET WellFormed]
      BY <2>1, <2>2
    <2>5. Good({s}, new, validUntil)
      BY <2>2, <2>3 DEF TypeOK, Until
    <2> QED BY <2>4, <2>5
  <1>6. ASSUME NEW s \in Subject, NEW c \in Code, remove_jurisdiction(caller, s, c)
        PROVE  Stores
    <2> DEFINE L == load_jurisdictions(s)
               new == [x \in {s} |-> L \ {c}]
    <2>1. L \in SUBSET WellFormed /\ Cardinality(L) <= MaxCodes
      BY Loaded
    <2>2. caller = issuer /\ store_jurisdictions(new, validUntil)
      BY <1>6 DEF remove_jurisdiction, RequireIssuer
    <2>3. Cardinality(L \ {c}) <= MaxCodes
      <3>1. /\ Cardinality(L \ {c}) <= Cardinality(L)
            /\ Cardinality(L) \in Nat /\ Cardinality(L \ {c}) \in Nat
        BY <2>1, CodeCount
      <3> QED BY <1>1, <2>1, <3>1
    <2>4. new \in [{s} -> SUBSET WellFormed]
      BY <2>1
    <2>5. Good({s}, new, validUntil)
      BY <2>2, <2>3 DEF TypeOK, Until
    <2> QED BY <2>4, <2>5
  <1>7. ASSUME NEW S \in SUBSET Subject, NEW batch \in [S -> Code],
               set_multiple_jurisdictions(caller, batch)
        PROVE  Stores
    <2> DEFINE new == [s \in S |-> {batch[s]}]
               until == [s \in S |-> None]
    <2>1. new \in [S -> SUBSET WellFormed] /\ store_jurisdictions(new, until)
      BY <1>7 DEF set_multiple_jurisdictions
    <2>2. Good(S, new, until)
      BY <1>1, <1>2, <2>1
    <2> QED BY <2>1, <2>2
  <1>8. ASSUME NEW S \in SUBSET Subject, remove_jurisdiction_multiple(caller, S)
        PROVE  Stores
    <2> DEFINE new == [s \in S |-> {}]
    <2>1. new \in [S -> SUBSET WellFormed] /\ store_jurisdictions(new, validUntil)
          /\ caller = issuer
      BY <1>8 DEF remove_jurisdiction_multiple, RequireIssuer
    <2>2. Good(S, new, validUntil)
      BY <1>1, <2>1, CodeCount DEF TypeOK, Until
    <2> QED BY <2>1, <2>2
  <1>9. /\ by' = caller /\ caller \in {issuer, officer} /\ ~paused
        /\ UNCHANGED <<ledger, roles, paused>>
    BY DEF FlagCall, set_jurisdiction, set_jurisdiction_until, add_jurisdiction,
           remove_jurisdiction, set_multiple_jurisdictions,
           remove_jurisdiction_multiple, MayAssign, RequireIssuer
  <1>10. Stores
    BY <1>3, <1>4, <1>5, <1>6, <1>7, <1>8 DEF FlagCall
  <1> QED BY <1>1, <1>9, <1>10

\* The other calls, which leave the flags alone.
RoleCall(caller) ==
  \/ \E a \in Account :
       \/ transfer_issuer(caller, a)
       \/ propose_issuer(caller, a)
       \/ set_compliance_officer(caller, a)
  \/ accept_issuer(caller)
  \/ cancel_issuer_proposal(caller)
  \/ revoke_compliance_officer(caller)
  \/ pause(caller)
  \/ unpause(caller)

LEMMA NextCases ==
  ASSUME [Next]_vars
  PROVE  \/ CloseLedger
         \/ \E a \in Account : initialize(a)
         \/ \E caller \in Account : RoleCall(caller) \/ FlagCall(caller)
         \/ UNCHANGED vars
  BY DEF Next, RoleCall, FlagCall

\* Nobody can propose before there is an issuer, and initialize drops nothing.
PendingAfterSetup == pendingIssuer # None => issuer # None

\* A role call keeps the types, leaves the flags and the clock alone, and
\* leaves no proposal but one of the issuer it leaves in office.
LEMMA RoleCallSafe ==
  ASSUME TypeOK, PendingIsCurrentIssuers, NEW caller \in Account, RoleCall(caller)
  PROVE  /\ TypeOK' /\ PendingIsCurrentIssuers'
         /\ issuer' # None
         /\ UNCHANGED <<ledger, flags>>
  <1>1. UNCHANGED <<ledger, flags>>
    BY DEF RoleCall, transfer_issuer, propose_issuer, set_compliance_officer,
           accept_issuer, cancel_issuer_proposal, revoke_compliance_officer,
           pause, unpause, roles
  <1>2. /\ ledger' = ledger
        /\ codes' = codes /\ legacy' = legacy /\ validUntil' = validUntil
    BY <1>1 DEF flags
  <1>3. TypeOK'
    BY <1>2 DEF TypeOK, RoleCall, transfer_issuer, propose_issuer,
           set_compliance_officer, accept_issuer, cancel_issuer_proposal,
           revoke_compliance_officer, pause, unpause, roles
  <1>4. PendingIsCurrentIssuers'
    BY DEF PendingIsCurrentIssuers, RoleCall, transfer_issuer, propose_issuer,
           set_compliance_officer, accept_issuer, cancel_issuer_proposal,
           revoke_compliance_officer, pause, unpause, roles, RequireIssuer
  <1>5. issuer' # None
    BY NoneAssumption DEF RoleCall, transfer_issuer, propose_issuer,
           set_compliance_officer, accept_issuer, cancel_issuer_proposal,
           revoke_compliance_officer, pause, unpause, roles, RequireIssuer
  <1> QED BY <1>1, <1>3, <1>4, <1>5

\* The inductive invariant. The handover and the keys do not depend on each
\* other, but both need the types.
IInv == TypeOK /\ PendingIsCurrentIssuers /\ KeysAgree /\ PendingAfterSetup

LEMMA InitIInv == Init => IInv
  <1> SUFFICES ASSUME Init PROVE IInv
    OBVIOUS
  <1>1. PendingIsCurrentIssuers /\ PendingAfterSetup
    BY DEF Init, PendingIsCurrentIssuers, PendingAfterSetup
  <1>2. KeysAgree
    BY CodeCount, LimitAssumption DEF Init, KeysAgree
  <1> QED BY <1>1, <1>2, InitType DEF IInv

LEMMA StepIInv == IInv /\ [Next]_vars => IInv'
  <1> SUFFICES ASSUME TypeOK, PendingIsCurrentIssuers, KeysAgree,
                      PendingAfterSetup, [Next]_vars
               PROVE  IInv'
    BY DEF IInv
  <1>1. CASE CloseLedger
    <2>1. ledger' \in 0..MaxLedger
      BY <1>1, LimitAssumption DEF CloseLedger, TypeOK
    <2> QED BY <1>1, <2>1
        DEF IInv, PendingAfterSetup, CloseLedger, TypeOK, PendingIsCurrentIssuers, KeysAgree, roles, flags
  <1>2. ASSUME NEW a \in Account, initialize(a)
        PROVE  IInv'
    <2>1. pendingIssuer = None
      BY <1>2 DEF PendingAfterSetup, initialize
    <2>2. a # None
      BY NoneAssumption
    <2> QED BY <1>2, <2>1, <2>2
        DEF IInv, PendingAfterSetup, initialize, TypeOK, PendingIsCurrentIssuers, KeysAgree, flags
  <1>3. ASSUME NEW caller \in Account, RoleCall(caller)
        PROVE  IInv'
    <2>1. TypeOK' /\ PendingIsCurrentIssuers' /\ codes' = codes /\ legacy' = legacy
          /\ validUntil' = validUntil /\ issuer' # None
      BY <1>3, RoleCallSafe DEF flags
    <2> QED BY <2>1 DEF IInv, KeysAgree, PendingAfterSetup
  <1>4. ASSUME NEW caller \in Account, FlagCall(caller)
        PROVE  IInv'
    <2>1. by' = caller /\ UNCHANGED <<ledger, roles, paused>>
      BY <1>4, FlagCallStores
    <2>2. PICK S \in SUBSET Subject : \E new \in [S -> SUBSET WellFormed] : \E until :
            /\ \A s \in S : until[s] \in Until
            /\ \A s \in S : Cardinality(new[s]) <= MaxCodes
            /\ store_jurisdictions(new, until)
      BY <1>4, FlagCallStores
    <2>3. /\ codes' \in [Subject -> SUBSET WellFormed]
          /\ legacy' \in [Subject -> WellFormed \cup {None}]
          /\ validUntil' \in [Subject -> Until]
          /\ KeysAgree'
      BY <2>2, Stored
    <2> QED BY <2>1, <2>3 DEF IInv, PendingAfterSetup, TypeOK, PendingIsCurrentIssuers, roles, Until
  <1>5. CASE UNCHANGED vars
    BY <1>5 DEF IInv, PendingAfterSetup, vars, TypeOK, PendingIsCurrentIssuers, KeysAgree, roles, flags
  <1> QED BY <1>1, <1>2, <1>3, <1>4, <1>5, NextCases

\* Storage holds well-formed codes, expiries within the horizon, accounts in
\* the role keys.
THEOREM FlagTypeCorrect == Spec => []TypeOK
  <1>1. IInv => TypeOK
    BY DEF IInv
  <1> QED BY <1>1, InitIInv, StepIInv, PTL DEF Spec

\* No proposal of an issuer who has left office can ever be accepted, whatever
\* order rotations, proposals and acceptances come in.
THEOREM ProposalSafe == Spec => []PendingIsCurrentIssuers
  <1>1. IInv => PendingIsCurrentIssuers
    BY DEF IInv
  <1> QED BY <1>1, InitIInv, StepIInv, PTL DEF Spec

\* The older key names a code of the list, an expiry never outlives its codes
\* and no list passes the limit, through every call that writes flags.
THEOREM KeysConsistent == Spec => []KeysAgree
  <1>1. IInv => KeysAgree
    BY DEF IInv
  <1> QED BY <1>1, InitIInv, StepIInv, PTL DEF Spec

-----------------------------------------------------------------------------
\* The action properties.

\* Steps that do not write flags leave every key of them.
LEMMA OtherSteps ==
  ASSUME TypeOK, PendingIsCurrentIssuers,
         \/ CloseLedger
         \/ \E a \in Account : initialize(a)
         \/ \E caller \in Account : RoleCall(caller)
         \/ UNCHANGED vars
  PROVE  UNCHANGED flags /\ ledger' >= ledger
  <1>1. ledger \in Int
    BY LimitAssumption DEF TypeOK
  <1>2. CASE CloseLedger
    BY <1>1, <1>2 DEF CloseLedger
  <1>3. ASSUME NEW a \in Account, initialize(a) PROVE UNCHANGED flags /\ ledger' >= ledger
    BY <1>1, <1>3 DEF initialize
  <1>4. ASSUME NEW caller \in Account, RoleCall(caller)
        PROVE  UNCHANGED flags /\ ledger' >= ledger
    BY <1>1, <1>4, RoleCallSafe
  <1>5. CASE UNCHANGED vars
    BY <1>1, <1>5 DEF vars
  <1> QED BY <1>2, <1>3, <1>4, <1>5

LEMMA Renewal == IInv /\ [Next]_vars => RenewalStep
  <1> SUFFICES ASSUME IInv, [Next]_vars, NEW s \in Subject,
                      Expired(s), load_active_jurisdictions(s)' # {}
               PROVE  /\ by' \in {issuer, officer} \ {None}
                      /\ Cardinality(codes'[s]) = 1
    BY DEF RenewalStep
  <1>1. TypeOK /\ PendingIsCurrentIssuers /\ KeysAgree
    BY DEF IInv
  <1>2. ledger \in Int /\ validUntil[s] \in Int /\ validUntil[s] < ledger
        /\ validUntil[s] # None
    BY <1>1, LimitAssumption DEF TypeOK, Expired
  <1>3. ~Expired(s)'
    BY DEF load_active_jurisdictions
  <1>4. CASE UNCHANGED flags /\ ledger' >= ledger
    <2>1. validUntil' = validUntil /\ ledger' >= ledger /\ ledger' \in Int
      <3>1. ledger' \in Int
        BY <1>1, StepIInv, LimitAssumption DEF IInv, TypeOK
      <3> QED BY <1>4, <3>1 DEF flags
    <2> QED BY <1>2, <1>3, <2>1 DEF Expired
  <1>5. ASSUME NEW caller \in Account, FlagCall(caller)
        PROVE  /\ by' \in {issuer, officer} \ {None}
               /\ Cardinality(codes'[s]) = 1
    <2>1. /\ by' = caller /\ caller \in {issuer, officer} /\ caller # None
          /\ UNCHANGED <<ledger, roles, paused>>
          /\ \E S \in SUBSET Subject : \E new \in [S -> SUBSET WellFormed] : \E until :
               /\ store_jurisdictions(new, until)
               /\ \/ \A x \in S : Cardinality(new[x]) = 1
                  \/ \A x \in S : until[x] = validUntil[x]
      BY <1>1, <1>5, FlagCallStores
    <2>2. PICK S \in SUBSET Subject : \E new \in [S -> SUBSET WellFormed] : \E until :
               /\ store_jurisdictions(new, until)
               /\ \/ \A x \in S : Cardinality(new[x]) = 1
                  \/ \A x \in S : until[x] = validUntil[x]
      BY <2>1
    <2>3. PICK new \in [S -> SUBSET WellFormed] : \E until :
               /\ store_jurisdictions(new, until)
               /\ \/ \A x \in S : Cardinality(new[x]) = 1
                  \/ \A x \in S : until[x] = validUntil[x]
      BY <2>2
    <2>4. PICK until :
               /\ store_jurisdictions(new, until)
               /\ \/ \A x \in S : Cardinality(new[x]) = 1
                  \/ \A x \in S : until[x] = validUntil[x]
      BY <2>3
    <2>5. s \in S /\ validUntil'[s] # validUntil[s]
      <3>1. validUntil'[s] # validUntil[s]
        BY <1>2, <1>3, <2>1 DEF Expired
      <3> QED BY <2>4, <3>1 DEF store_jurisdictions
    <2>6. codes'[s] = new[s]
      BY <2>4, <2>5 DEF store_jurisdictions
    <2>7. new[s] # {}
      <3>1. CASE new[s] = {}
        <4>1. codes'[s] = {} /\ legacy'[s] = None
          BY <2>4, <2>5, <3>1 DEF store_jurisdictions
        <4> QED BY <4>1 DEF load_active_jurisdictions, load_jurisdictions
      <3> QED BY <3>1
    <2>8. validUntil'[s] = until[s]
      BY <2>4, <2>5, <2>7 DEF store_jurisdictions
    <2> QED BY <2>1, <2>4, <2>5, <2>6, <2>8
  <1> QED BY <1>1, <1>4, <1>5, OtherSteps, NextCases

\* An expired flag counts again only after an explicit assignment.
THEOREM ExpiryHolds == Spec => ExpiredNeedsRenewal
  <1> QED BY InitIInv, StepIInv, Renewal, PTL DEF Spec, ExpiredNeedsRenewal

LEMMA Authority == IInv /\ [Next]_vars => AuthorityStep
  <1> SUFFICES ASSUME IInv, [Next]_vars, flags' # flags
               PROVE  /\ ~paused
                      /\ by' \in {issuer, officer} \ {None}
                      /\ \A s \in Subject : load_jurisdictions(s) # {}
                           /\ load_jurisdictions(s)' = {} => by' = issuer
    BY DEF AuthorityStep
  <1>1. TypeOK /\ PendingIsCurrentIssuers /\ KeysAgree
    BY DEF IInv
  <1>2. PICK caller \in Account : FlagCall(caller)
    BY <1>1, OtherSteps, NextCases
  <1>3. /\ by' = caller /\ caller \in {issuer, officer} /\ caller # None /\ ~paused
        /\ \E S \in SUBSET Subject : \E new \in [S -> SUBSET WellFormed] : \E until :
             /\ store_jurisdictions(new, until)
             /\ \/ caller = issuer
                \/ \A x \in S : new[x] # {}
    BY <1>1, <1>2, FlagCallStores
  <1>4. ASSUME NEW s \in Subject, load_jurisdictions(s) # {},
               load_jurisdictions(s)' = {}, caller # issuer
        PROVE  FALSE
    <2>1. PICK S \in SUBSET Subject : \E new \in [S -> SUBSET WellFormed] : \E until :
            store_jurisdictions(new, until) /\ \A x \in S : new[x] # {}
      BY <1>3, <1>4
    <2>2. PICK new \in [S -> SUBSET WellFormed] : \E until :
            store_jurisdictions(new, until) /\ \A x \in S : new[x] # {}
      BY <2>1
    <2>3. PICK until : store_jurisdictions(new, until) /\ \A x \in S : new[x] # {}
      BY <2>2
    <2>4. CASE s \in S
      <3>1. codes'[s] # {}
        BY <2>3, <2>4 DEF store_jurisdictions
      <3> QED BY <1>4, <3>1 DEF load_jurisdictions
    <2>5. CASE s \notin S
      <3>1. codes'[s] = codes[s] /\ legacy'[s] = legacy[s]
        BY <2>3, <2>5 DEF store_jurisdictions
      <3> QED BY <1>4, <3>1 DEF load_jurisdictions
    <2> QED BY <2>4, <2>5
  <1> QED BY <1>3, <1>4

\* Flags change only by the issuer or the officer in office and never while
\* paused; an officer never leaves an address without codes.
THEOREM AuthorityHolds == Spec => FlagsUnderAuthority
  <1> QED BY InitIInv, StepIInv, Authority, PTL DEF Spec, FlagsUnderAuthority
=============================================================================
