--------------------------- MODULE GatedTokens_proofs ---------------------------
(***************************************************************************)
(* Proofs about the breaker and the tokens that read it, for every value   *)
(* of the constants.                                                       *)
(***************************************************************************)
EXTENDS GatedTokens, FiniteSetTheorems, WellFoundedInduction, TLAPS

\* What a call with this amount may do to balances: nothing falls below zero
\* unless the amount is negative, and only the payer's falls, by the amount,
\* unless it is.
Takes(from, amount) ==
  \A x \in Holder : balance'[x] < balance[x] =>
    /\ balance'[x] < 0 => amount < 0
    /\ amount >= 0 => x = from /\ balance[x] - balance'[x] = amount

\* A transfer moves the amount from sender to recipient and touches no other
\* balance; from an address to itself it adds the amount.
LEMMA Moved ==
  ASSUME TypeOK, NEW from \in Holder, NEW to \in Holder, NEW amount \in Amount,
         move(from, to, amount)
  PROVE  /\ balance' \in [Holder -> Balance]
         /\ selfGain' \in Gain /\ issued' = issued /\ lastAmount' = amount
         /\ \/ balance[from] - balance'[from] = amount
            \/ selfGain' - selfGain = amount
         /\ Takes(from, amount)
         /\ \A x, y \in Holder : balance'[x] < balance[x] /\ balance'[y] > balance[y] =>
              {x, y} = {from, to}
  <1>1. /\ amount \in Int /\ balance[from] \in Int /\ balance[to] \in Int
        /\ amount <= balance[from] /\ selfGain \in Int
        /\ \A x \in Holder : balance[x] \in Int
    BY AmountBounds DEF TypeOK, Amount, Balance, Gain, move
  <1>2. /\ balance' = [[balance EXCEPT ![from] = balance[from] - amount]
                              EXCEPT ![to] = balance[to] + amount]
        /\ balance' \in [Holder -> Balance]
        /\ selfGain' \in Gain /\ issued' = issued /\ lastAmount' = amount
        /\ selfGain' = selfGain + IF from = to THEN amount ELSE 0
    BY DEF move
  <1>3. \A x \in Holder : balance'[x] = IF x = to THEN balance[to] + amount
                                       ELSE IF x = from THEN balance[from] - amount
                                       ELSE balance[x]
    BY <1>2 DEF TypeOK
  <1>4. \/ balance[from] - balance'[from] = amount
        \/ selfGain' - selfGain = amount
    BY <1>1, <1>2, <1>3
  <1>5. Takes(from, amount)
    <2> SUFFICES ASSUME NEW x \in Holder, balance'[x] < balance[x]
                 PROVE  /\ balance'[x] < 0 => amount < 0
                        /\ amount >= 0 => x = from /\ balance[x] - balance'[x] = amount
      BY DEF Takes
    <2>1. CASE x = to
      <3>1. balance'[x] = balance[x] + amount
        BY <1>3, <2>1
      <3> QED BY <1>1, <3>1
    <2>2. CASE x # to /\ x = from
      <3>1. balance'[x] = balance[x] - amount /\ amount <= balance[x]
        BY <1>1, <1>3, <2>2
      <3> QED BY <1>1, <2>2, <3>1
    <2>3. CASE x # to /\ x # from
      <3>1. balance'[x] = balance[x]
        BY <1>3, <2>3
      <3> QED BY <1>1, <3>1
    <2> QED BY <2>1, <2>2, <2>3
  <1>6. ASSUME NEW x \in Holder, NEW y \in Holder,
               balance'[x] < balance[x], balance'[y] > balance[y]
        PROVE  {x, y} = {from, to}
    <2>1. balance'[x] # balance[x] /\ balance'[y] # balance[y] /\ x # y
      BY <1>1, <1>3, <1>6
    <2>2. x \in {from, to} /\ y \in {from, to}
      BY <1>3, <2>1
    <2> QED BY <2>1, <2>2
  <1> QED BY <1>2, <1>4, <1>5, <1>6

LEMMA BurnTakes ==
  ASSUME TypeOK, NEW from \in Holder, NEW amount \in Amount, Burned(from, amount)
  PROVE  /\ balance' \in [Holder -> Balance]
         /\ issued' \in Int /\ selfGain' = selfGain /\ lastAmount' = amount
         /\ balance[from] - balance'[from] = amount
         /\ Takes(from, amount)
         /\ \A x \in Holder : x # from => balance'[x] = balance[x]
  <1>1. /\ amount \in Int /\ amount <= balance[from] /\ issued \in Int
        /\ \A x \in Holder : balance[x] \in Int
        /\ balance[from] - amount \in Balance
        /\ balance' = [balance EXCEPT ![from] = balance[from] - amount]
        /\ issued' = issued - amount /\ selfGain' = selfGain /\ lastAmount' = amount
    BY AmountBounds DEF TypeOK, Amount, Balance, Burned
  <1>2. /\ balance' \in [Holder -> Balance]
        /\ balance'[from] = balance[from] - amount
        /\ \A x \in Holder : x # from => balance'[x] = balance[x]
    BY <1>1 DEF TypeOK
  <1>3. Takes(from, amount)
    <2> SUFFICES ASSUME NEW x \in Holder, balance'[x] < balance[x]
                 PROVE  /\ balance'[x] < 0 => amount < 0
                        /\ amount >= 0 => x = from /\ balance[x] - balance'[x] = amount
      BY DEF Takes
    <2>1. x = from
      BY <1>1, <1>2
    <2> QED BY <1>1, <1>2, <2>1
  <1> QED BY <1>1, <1>2, <1>3

LEMMA Spent ==
  ASSUME TypeOK, NEW owner \in Holder, NEW spender \in Holder,
         NEW amount \in Amount, Spend(owner, spender, amount)
  PROVE  /\ allowance' \in [Holder \X Holder -> Amount]
         /\ allowance[<<owner, spender>>] - allowance'[<<owner, spender>>] = amount
         /\ allowance'[<<owner, spender>>] >= 0
         /\ \A p \in Holder \X Holder : p # <<owner, spender>> => allowance'[p] = allowance[p]
  <1> DEFINE q == <<owner, spender>>
  <1>1. q \in Holder \X Holder
    OBVIOUS
  <1>2. allowance[q] \in Int /\ amount \in Int
    BY <1>1, AmountBounds DEF TypeOK, Amount
  <1>3. /\ amount <= allowance[q] /\ allowance[q] - amount \in Amount
        /\ allowance' = [allowance EXCEPT ![q] = allowance[q] - amount]
    BY <1>1, <1>2 DEF Spend
  <1>4. allowance \in [Holder \X Holder -> Amount]
    BY DEF TypeOK
  <1> HIDE DEF q
  <1>5. /\ allowance' \in [Holder \X Holder -> Amount]
        /\ allowance'[q] = allowance[q] - amount
        /\ \A p \in Holder \X Holder : p # q => allowance'[p] = allowance[p]
    BY <1>1, <1>3, <1>4
  <1>6. allowance[q] - allowance'[q] = amount /\ allowance'[q] >= 0
    BY <1>2, <1>3, <1>5
  <1> QED BY <1>5, <1>6 DEF q

-----------------------------------------------------------------------------
\* The inductive invariant: next to the properties, that nothing is frozen and
\* nobody proposed before the breaker has an admin.
BeforeSetup == admin = None => ~frozen /\ pendingAdmin = None
IInv == TypeOK /\ PendingIsCurrentAdmins /\ BeforeSetup

LEMMA InitIInv == Init => IInv
  <1> SUFFICES ASSUME Init PROVE IInv
    OBVIOUS
  <1>1. 0 \in 0..MaxUpgrades /\ 0 \in Gain /\ 0 \in Amount /\ 0 \in Balance
    BY UpgradeBound, AmountBounds DEF Amount, Gain, Balance
  <1>2. BreakerTypeOK
    BY <1>1 DEF Init, BreakerInit, BreakerTypeOK
  <1>3. TypeOK
    <2>1. 0 \in Int /\ FALSE \in BOOLEAN
      OBVIOUS
    <2>2. Reads[kind] \subseteq Primitive
      BY TokenAssumption DEF Init, Reads, Primitive
    <2>3. clears \in [Holder -> SUBSET Primitive]
      BY <2>2 DEF Init
    <2> QED BY <1>1, <1>2, <2>1, <2>3, Zenon DEF Init, TypeOK
  <1>4. PendingIsCurrentAdmins /\ BeforeSetup
    BY DEF Init, BreakerInit, PendingIsCurrentAdmins, BeforeSetup
  <1> QED BY <1>3, <1>4 DEF IInv

\* The breaker on its own.
LEMMA BreakerStep ==
  ASSUME BreakerTypeOK, PendingIsCurrentAdmins, BeforeSetup, BreakerNext
  PROVE  /\ BreakerTypeOK' /\ PendingIsCurrentAdmins' /\ BeforeSetup'
         /\ by' \in Account
         /\ FreezeStep
  <1>1. PICK caller \in Account :
          \/ initialize_breaker(caller)
          \/ freeze(caller)
          \/ unfreeze(caller)
          \/ \E a \in Account :
               \/ add_guardian(caller, a)
               \/ remove_guardian(caller, a)
               \/ propose_admin(caller, a)
          \/ accept_admin(caller)
          \/ cancel_admin_proposal(caller)
          \/ upgrade(caller)
    BY DEF BreakerNext
  <1>2. caller # None
    BY NoneIsNoAccount
  <1>3. by' = caller
    BY <1>1 DEF initialize_breaker, freeze, unfreeze, add_guardian, remove_guardian,
           propose_admin, accept_admin, cancel_admin_proposal, upgrade
  <1>4. BreakerTypeOK'
    <2>1. code' \in 0..MaxUpgrades
      <3>1. code' = code \/ (code < MaxUpgrades /\ code' = code + 1)
        BY <1>1
           DEF initialize_breaker, freeze, unfreeze, add_guardian, remove_guardian,
               propose_admin, accept_admin, cancel_admin_proposal, upgrade
      <3> QED BY <3>1, UpgradeBound DEF BreakerTypeOK
    <2>2. frozen' \in BOOLEAN
      BY <1>1, Zenon
         DEF BreakerTypeOK, initialize_breaker, freeze, unfreeze, add_guardian,
             remove_guardian, propose_admin, accept_admin, cancel_admin_proposal, upgrade
    <2>3. /\ admin' \in Account \cup {None} /\ pendingAdmin' \in Account \cup {None}
          /\ nominator' \in Account \cup {None}
      BY <1>1
         DEF BreakerTypeOK, initialize_breaker, freeze, unfreeze, add_guardian,
             remove_guardian, propose_admin, accept_admin, cancel_admin_proposal, upgrade
    <2>4. guardians' \subseteq Account
      BY <1>1
         DEF BreakerTypeOK, initialize_breaker, freeze, unfreeze, add_guardian,
             remove_guardian, propose_admin, accept_admin, cancel_admin_proposal, upgrade
    <2> QED BY <2>1, <2>2, <2>3, <2>4 DEF BreakerTypeOK
  <1>5. PendingIsCurrentAdmins' /\ BeforeSetup'
    BY <1>1, <1>2
       DEF PendingIsCurrentAdmins, BeforeSetup, RequireAdmin, RequireAdminOrGuardian,
           initialize_breaker, freeze, unfreeze, add_guardian, remove_guardian,
           propose_admin, accept_admin, cancel_admin_proposal, upgrade
  <1>6. FreezeStep
    BY <1>1
       DEF FreezeStep, BeforeSetup, RequireAdmin, RequireAdminOrGuardian,
           initialize_breaker, freeze, unfreeze, add_guardian, remove_guardian,
           propose_admin, accept_admin, cancel_admin_proposal, upgrade
  <1> QED BY <1>3, <1>4, <1>5, <1>6

\* What every step of the tokens leaves and what it does to balances, in one
\* case per way of moving them.
Quiet == UNCHANGED <<balance, allowance>>

Initialized(a) ==
  /\ wired' = TRUE
  /\ IF kind = "sep41" THEN a \in Account /\ issuer' = a ELSE issuer' = issuer
  /\ by' = a /\ lastAmount' = 0
  /\ UNCHANGED <<breakerVars, kind, balance, allowance, clears, issued, selfGain>>

Moves(from, to, amount) ==
  \/ transfer_example(from, to, amount)
  \/ transfer_rwa(from, to, amount)
  \/ transfer_sep41(from, to, amount)

\* What a token requires before it moves balance between two addresses.
Admits(from, to) ==
  /\ HasBreaker => is_open
  /\ Reads[kind] \subseteq clears[from] \cap clears[to]

LEMMA MovesAreTransfers ==
  ASSUME NEW from \in Holder, NEW to \in Holder, NEW amount \in Amount,
         Moves(from, to, amount)
  PROVE  Transferred(from, to, amount) /\ Admits(from, to)
  BY DEF Moves, transfer_example, transfer_rwa, transfer_sep41, gate_check, Admits,
         Reads, HasBreaker, Primitive

LEMMA Steps ==
  ASSUME [Next]_vars
  PROVE  \/ Breaker
         \/ \E a \in Account \cup {None} : Initialized(a)
         \/ \E a \in Account \cup {None}, h \in Holder, n \in Amount :
              Minted(h, n) /\ by' = a
         \/ \E h \in Holder, p \in Primitive : Reassess(h, p)
         \/ \E h, k \in Holder, n \in Amount :
              \/ Moves(h, k, n)
              \/ approve(h, k, n)
              \/ burn(h, n)
              \/ burn_from(k, h, n)
              \/ \E s \in Holder : transfer_from(s, h, k, n)
         \/ UNCHANGED vars
  BY DEF Next, Initialized, initialize, initialize_sep41, mint, mint_sep41, Moves

LEMMA BreakerKept ==
  ASSUME IInv, UNCHANGED breakerVars
  PROVE  /\ BreakerTypeOK' /\ PendingIsCurrentAdmins' /\ BeforeSetup'
         /\ FreezeStep
  BY DEF IInv, TypeOK, breakerVars, BreakerTypeOK, PendingIsCurrentAdmins, BeforeSetup,
         FreezeStep

Goal == IInv' /\ FreezeStep /\ MoveStep /\ SpendStep /\ OverdraftStep

LEMMA Numbers ==
  ASSUME TypeOK
  PROVE  /\ \A h \in Holder : balance[h] \in Int
         /\ \A p \in Holder \X Holder : allowance[p] \in Int
         /\ selfGain \in Int /\ issued \in Int
         /\ \A n \in Amount : n \in Int
         /\ 0 \in Amount
  BY AmountBounds DEF TypeOK, Amount, Balance, Gain

\* No allowance changes, no pair of addresses has used one.
LEMMA NothingUsed ==
  ASSUME TypeOK, allowance' = allowance
  PROVE  /\ \A p \in Holder \X Holder : ~(allowance'[p] > allowance[p]) /\ ~(allowance'[p] # allowance[p])
         /\ \A owner, spender \in Holder :
              ~(allowance[<<owner, spender>>] - allowance'[<<owner, spender>>] # 0)
  <1>1. \A p \in Holder \X Holder : allowance[p] \in Int /\ allowance'[p] = allowance[p]
    BY Numbers
  <1>2. ASSUME NEW owner \in Holder, NEW spender \in Holder
        PROVE  ~(allowance[<<owner, spender>>] - allowance'[<<owner, spender>>] # 0)
    <2>1. <<owner, spender>> \in Holder \X Holder
      OBVIOUS
    <2>2. PICK a \in Int : allowance[<<owner, spender>>] = a /\ allowance'[<<owner, spender>>] = a
      BY <1>1, <2>1
    <2> QED BY <2>2
  <1> QED BY <1>1, <1>2

\* The owner's own call, which leaves the allowances alone.
LEMMA OwnersCall ==
  ASSUME TypeOK, NEW h \in Holder, NEW n \in Amount,
         Takes(h, n), UNCHANGED allowance, by' = h, lastAmount' = n
  PROVE  SpendStep /\ OverdraftStep
  <1>1. SpendStep
    BY NothingUsed DEF SpendStep, Takes
  <1>2. OverdraftStep
    BY NothingUsed DEF OverdraftStep, Takes
  <1> QED BY <1>1, <1>2

\* A spender's call.
LEMMA SpendersCall ==
  ASSUME TypeOK, NEW s \in Holder, NEW h \in Holder, NEW n \in Amount,
         Takes(h, n), Spend(h, s, n), by' = s, lastAmount' = n,
         \/ balance[h] - balance'[h] = n
         \/ selfGain' - selfGain = n
  PROVE  SpendStep /\ OverdraftStep
  <1> DEFINE q == <<h, s>>
  <1>1. /\ q \in Holder \X Holder /\ q[1] = h
        /\ \A owner, spender \in Holder : /\ <<owner, spender>> \in Holder \X Holder
                                         /\ <<owner, spender>> = q => owner = h /\ spender = s
    OBVIOUS
  <1>2. /\ \A p \in Holder \X Holder : allowance[p] \in Int /\ allowance'[p] \in Int
        /\ allowance[q] - allowance'[q] = n
        /\ allowance'[q] >= 0
        /\ \A p \in Holder \X Holder : p # q => allowance'[p] = allowance[p]
    <2>1. \A p \in Holder \X Holder : allowance'[p] \in Amount
      BY Spent
    <2> QED BY <2>1, Spent, Numbers
  <1>3. n \in Int
    BY Numbers
  <1>0. q = <<h, s>>
    OBVIOUS
  <1> HIDE DEF q
  <1>4. ASSUME NEW owner \in Holder, NEW spender \in Holder,
               allowance[<<owner, spender>>] - allowance'[<<owner, spender>>] # 0
        PROVE  /\ owner = h /\ spender = s
               /\ allowance[<<owner, spender>>] - allowance'[<<owner, spender>>] = n
    <2>1. <<owner, spender>> = q
      BY <1>1, <1>2, <1>4
    <2> QED BY <1>1, <1>2, <2>1
  <1>5. n >= 0 => \A p \in Holder \X Holder : ~(allowance'[p] > allowance[p])
    <2> SUFFICES ASSUME n >= 0, NEW p \in Holder \X Holder
                 PROVE  ~(allowance'[p] > allowance[p])
      OBVIOUS
    <2>1. CASE p = q
      BY <1>2, <1>3, <2>1
    <2>2. CASE p # q
      <3>1. allowance'[p] = allowance[p] /\ allowance[p] \in Int
        BY <1>2, <2>2
      <3> QED BY <3>1
    <2> QED BY <2>1, <2>2
  <1>6. SpendStep
    <2>1. \A owner, spender \in Holder :
            LET used  == allowance[<<owner, spender>>] - allowance'[<<owner, spender>>]
                taken == balance[owner] - balance'[owner]
            IN used # 0 /\ by' # owner =>
                 by' = spender /\ (used = taken \/ used = selfGain' - selfGain)
      BY <1>4
    <2>2. n >= 0 => \A x \in Holder : balance'[x] < balance[x] =>
            /\ s \in Holder
            /\ balance[x] - balance'[x] = allowance[<<x, s>>] - allowance'[<<x, s>>]
      <3>1. \A x \in Holder : balance'[x] < balance[x] /\ n >= 0 => x = h /\ balance[x] - balance'[x] = n
        BY DEF Takes
      <3>2. allowance[<<h, s>>] - allowance'[<<h, s>>] = n
        BY <1>2, <1>0
      <3> QED BY <3>1, <3>2
    <2>3. n >= 0 => \A p \in Holder \X Holder : allowance'[p] > allowance[p] => s = p[1]
      BY <1>5
    <2> QED BY <2>1, <2>2, <2>3 DEF SpendStep
  <1>7. OverdraftStep
    <2>1. \A p \in Holder \X Holder : ~(allowance'[p] # allowance[p] /\ allowance'[p] < 0)
      <3> SUFFICES ASSUME NEW p \in Holder \X Holder, allowance'[p] # allowance[p], allowance'[p] < 0
                   PROVE  FALSE
        OBVIOUS
      <3>1. p = q
        BY <1>2
      <3>2. allowance'[q] \in Int /\ allowance'[q] >= 0 /\ allowance'[q] < 0
        BY <1>1, <1>2, <3>1
      <3> QED BY <3>2
    <2> QED BY <2>1 DEF OverdraftStep, Takes
  <1> QED BY <1>6, <1>7

\* One balance alone changes: nothing passes between two.
LEMMA BurnMovesNothing ==
  ASSUME TypeOK, NEW h \in Holder, balance' \in [Holder -> Balance],
         \A x \in Holder : x # h => balance'[x] = balance[x]
  PROVE  MoveStep
  <1>1. \A x \in Holder : balance[x] \in Int /\ balance'[x] \in Int
    BY AmountBounds, Numbers DEF Balance
  <1>2. ASSUME NEW x \in Holder, NEW y \in Holder, balance'[x] < balance[x], balance'[y] > balance[y]
        PROVE  FALSE
    <2>1. x = h
      BY <1>1, <1>2
    <2>2. y = h
      BY <1>1, <1>2
    <2> QED BY <1>1, <1>2, <2>1, <2>2
  <1> QED BY <1>2 DEF MoveStep

LEMMA NothingMoves ==
  ASSUME TypeOK, Quiet
  PROVE  MoveStep /\ SpendStep /\ OverdraftStep
  <1>1. \A h \in Holder : ~(balance'[h] < balance[h])
    BY Numbers DEF Quiet
  <1>2. allowance' = allowance
    BY DEF Quiet
  <1>3. MoveStep /\ OverdraftStep
    BY <1>1, <1>2, NothingUsed DEF MoveStep, OverdraftStep
  <1>4. SpendStep
    BY <1>1, <1>2, NothingUsed DEF SpendStep
  <1> QED BY <1>3, <1>4

LEMMA StepGoal == IInv /\ [Next]_vars => Goal
  <1> SUFFICES ASSUME IInv, [Next]_vars PROVE Goal
    OBVIOUS
  <1>0. TypeOK /\ BreakerTypeOK /\ PendingIsCurrentAdmins /\ BeforeSetup /\ 0 \in Amount
    BY Numbers DEF IInv, TypeOK
  <1>1. CASE Breaker
    <2>1. Quiet /\ UNCHANGED <<kind, tokenVars, clears>> /\ lastAmount' = 0
      BY <1>1 DEF Breaker, Quiet, tokenVars
    <2>2. MoveStep /\ SpendStep /\ OverdraftStep
      BY <1>0, <2>1, NothingMoves
    <2>3. /\ BreakerTypeOK' /\ PendingIsCurrentAdmins' /\ BeforeSetup'
          /\ by' \in Account /\ FreezeStep
      BY <1>0, <1>1, BreakerStep DEF Breaker
    <2> QED BY <1>0, <2>1, <2>2, <2>3 DEF Goal, IInv, TypeOK, tokenVars
  <1>2. ASSUME NEW a \in Account \cup {None}, Initialized(a) PROVE Goal
    <2>1. Quiet /\ UNCHANGED breakerVars
      BY <1>2 DEF Initialized, Quiet
    <2>2. /\ issuer' \in Account \cup {None}
          /\ (issuer' # None) <=> (kind = "sep41" /\ wired')
      BY <1>0, <1>2, NoneIsNoAccount DEF Initialized, TypeOK
    <2> QED BY <1>0, <1>2, <2>1, <2>2, NothingMoves, BreakerKept
        DEF Goal, IInv, TypeOK, Initialized
  <1>3. ASSUME NEW a \in Account \cup {None}, NEW h \in Holder, NEW n \in Amount,
               Minted(h, n), by' = a
        PROVE  Goal
    <2>1. /\ balance' = [balance EXCEPT ![h] = balance[h] + n] /\ balance[h] + n \in Balance
          /\ issued' = issued + n /\ lastAmount' = n
          /\ UNCHANGED <<breakerVars, kind, wired, issuer, allowance, clears, selfGain>>
      BY <1>3 DEF Minted
    <2>2. /\ balance' \in [Holder -> Balance] /\ issued' \in Int
          /\ \A x \in Holder : x # h => balance'[x] = balance[x]
          /\ balance'[h] = balance[h] + n
      BY <1>0, <2>1, Numbers DEF TypeOK
    <2>3. \A x \in Holder : balance'[x] < balance[x] => x = h /\ n < 0
      BY <1>0, <2>2, Numbers
    <2>4. ~(n < 0 /\ n >= 0) /\ n \in Int
      BY <1>0, Numbers
    <2>5. MoveStep
      <3>1. \A x, y \in Holder : ~(balance'[x] < balance[x] /\ balance'[y] > balance[y])
        BY <1>0, <2>2, <2>3, Numbers
      <3> QED BY <3>1 DEF MoveStep
    <2>6. OverdraftStep
      BY <1>0, <2>1, <2>3, NothingUsed DEF OverdraftStep
    <2>7. SpendStep
      BY <1>0, <2>1, <2>3, <2>4, NothingUsed DEF SpendStep
    <2> QED BY <1>0, <1>3, <2>1, <2>2, <2>5, <2>6, <2>7, BreakerKept DEF Goal, IInv, TypeOK
  <1>4. ASSUME NEW h \in Holder, NEW p \in Primitive, Reassess(h, p) PROVE Goal
    <2>1. Quiet /\ UNCHANGED breakerVars /\ UNCHANGED <<kind, tokenVars>>
      BY <1>4 DEF Reassess, Quiet, tokenVars
    <2>2. clears' \in [Holder -> SUBSET Primitive]
      BY <1>0, <1>4 DEF Reassess, TypeOK
    <2> QED BY <1>0, <1>4, <2>1, <2>2, NothingMoves, BreakerKept
        DEF Goal, IInv, TypeOK, Reassess, tokenVars
  <1>5. ASSUME NEW h \in Holder, NEW k \in Holder, NEW n \in Amount, Moves(h, k, n)
        PROVE  Goal
    <2>1. move(h, k, n) /\ Admits(h, k) /\ by' = h
          /\ UNCHANGED <<breakerVars, kind, wired, issuer, allowance, clears>>
      BY <1>5, MovesAreTransfers DEF Transferred
    <2>2. /\ balance' \in [Holder -> Balance]
          /\ selfGain' \in Gain /\ issued' = issued /\ lastAmount' = n
          /\ Takes(h, n)
          /\ \A x, y \in Holder : balance'[x] < balance[x] /\ balance'[y] > balance[y] =>
               {x, y} = {h, k}
      BY <1>0, <2>1, Moved
    <2>3. MoveStep
      BY <2>1, <2>2 DEF MoveStep, Admits, is_open
    <2>4. SpendStep /\ OverdraftStep
      BY <1>0, <2>1, <2>2, OwnersCall
    <2> QED BY <1>0, <2>1, <2>2, <2>3, <2>4, BreakerKept DEF Goal, IInv, TypeOK
  <1>6. ASSUME NEW h \in Holder, NEW k \in Holder, NEW n \in Amount, approve(h, k, n)
        PROVE  Goal
    <2>1. /\ UNCHANGED <<breakerVars, kind, wired, issuer, balance, clears, issued, selfGain>>
          /\ by' = h /\ lastAmount' = n
          /\ allowance' = [allowance EXCEPT ![<<h, k>>] = n]
      BY <1>6 DEF approve
    <2>2. allowance' \in [Holder \X Holder -> Amount]
      BY <1>0, <2>1 DEF TypeOK
    <2>3. \A x \in Holder : ~(balance'[x] < balance[x])
      BY <1>0, <2>1, Numbers
    <2>4. \A p \in Holder \X Holder : p # <<h, k>> => allowance'[p] = allowance[p]
      BY <1>0, <2>1 DEF TypeOK
    <2>5. \A p \in Holder \X Holder :
            /\ allowance'[p] > allowance[p] => p[1] = h
            /\ allowance'[p] # allowance[p] => p[1] = h
      <3>1. \A p \in Holder \X Holder : allowance[p] \in Int
        BY <1>0, Numbers
      <3>2. \A p \in Holder \X Holder : allowance'[p] # allowance[p] => p[1] = h
        BY <2>4
      <3> QED BY <3>1, <3>2
    <2>6. \A owner, spender \in Holder :
            allowance[<<owner, spender>>] - allowance'[<<owner, spender>>] # 0 => owner = h
      <3> SUFFICES ASSUME NEW owner \in Holder, NEW spender \in Holder, owner # h
                   PROVE  ~(allowance[<<owner, spender>>] - allowance'[<<owner, spender>>] # 0)
        OBVIOUS
      <3>1. <<owner, spender>> \in Holder \X Holder /\ <<owner, spender>> # <<h, k>>
        OBVIOUS
      <3>2. /\ allowance[<<owner, spender>>] \in Int
            /\ allowance'[<<owner, spender>>] = allowance[<<owner, spender>>]
        BY <1>0, <2>4, <3>1, Numbers
      <3> QED BY <3>2
    <2>7. MoveStep /\ OverdraftStep
      BY <2>1, <2>3, <2>5 DEF MoveStep, OverdraftStep
    <2>8. SpendStep
      BY <2>1, <2>3, <2>5, <2>6 DEF SpendStep
    <2> QED BY <1>0, <2>1, <2>2, <2>7, <2>8, BreakerKept DEF Goal, IInv, TypeOK
  <1>7. ASSUME NEW h \in Holder, NEW n \in Amount, burn(h, n) PROVE Goal
    <2>1. Burned(h, n) /\ by' = h
          /\ UNCHANGED <<breakerVars, kind, wired, issuer, allowance, clears>>
      BY <1>7 DEF burn
    <2>2. /\ balance' \in [Holder -> Balance] /\ issued' \in Int /\ selfGain' = selfGain
          /\ lastAmount' = n /\ Takes(h, n)
          /\ \A x \in Holder : x # h => balance'[x] = balance[x]
          /\ balance[h] - balance'[h] = n
      BY <1>0, <2>1, BurnTakes
    <2>3. MoveStep
      BY <1>0, <2>2, BurnMovesNothing
    <2>4. SpendStep /\ OverdraftStep
      BY <1>0, <2>1, <2>2, OwnersCall
    <2> QED BY <1>0, <2>1, <2>2, <2>3, <2>4, BreakerKept DEF Goal, IInv, TypeOK
  <1>8. ASSUME NEW s \in Holder, NEW h \in Holder, NEW n \in Amount, burn_from(s, h, n)
        PROVE  Goal
    <2>1. Burned(h, n) /\ Spend(h, s, n) /\ by' = s
          /\ UNCHANGED <<breakerVars, kind, wired, issuer, clears>>
      BY <1>8 DEF burn_from
    <2>2. /\ balance' \in [Holder -> Balance] /\ issued' \in Int /\ selfGain' = selfGain
          /\ lastAmount' = n /\ Takes(h, n)
          /\ \A x \in Holder : x # h => balance'[x] = balance[x]
          /\ balance[h] - balance'[h] = n
      BY <1>0, <2>1, BurnTakes
    <2>3. MoveStep
      BY <1>0, <2>2, BurnMovesNothing
    <2>4. allowance' \in [Holder \X Holder -> Amount]
      BY <1>0, <2>1, Spent
    <2>5. SpendStep /\ OverdraftStep
      BY <1>0, <2>1, <2>2, SpendersCall
    <2> QED BY <1>0, <2>1, <2>2, <2>3, <2>4, <2>5, BreakerKept DEF Goal, IInv, TypeOK
  <1>9. ASSUME NEW s \in Holder, NEW h \in Holder, NEW k \in Holder, NEW n \in Amount,
               transfer_from(s, h, k, n)
        PROVE  Goal
    <2>1. move(h, k, n) /\ Admits(h, k) /\ Spend(h, s, n) /\ by' = s
          /\ UNCHANGED <<breakerVars, kind, wired, issuer, clears>>
      BY <1>9 DEF transfer_from, gate_check, Admits, Reads, HasBreaker
    <2>2. /\ balance' \in [Holder -> Balance]
          /\ selfGain' \in Gain /\ issued' = issued /\ lastAmount' = n
          /\ balance[h] - balance'[h] = n \/ selfGain' - selfGain = n
          /\ Takes(h, n)
          /\ \A x, y \in Holder : balance'[x] < balance[x] /\ balance'[y] > balance[y] =>
               {x, y} = {h, k}
      BY <1>0, <2>1, Moved
    <2>3. MoveStep
      BY <2>1, <2>2 DEF MoveStep, Admits, is_open
    <2>4. allowance' \in [Holder \X Holder -> Amount]
      BY <1>0, <2>1, Spent
    <2>5. SpendStep /\ OverdraftStep
      BY <1>0, <2>1, <2>2, SpendersCall
    <2> QED BY <1>0, <2>1, <2>2, <2>3, <2>4, <2>5, BreakerKept DEF Goal, IInv, TypeOK
  <1>10. CASE UNCHANGED vars
    <2>1. Quiet /\ UNCHANGED breakerVars
      BY <1>10 DEF vars, tokenVars, Quiet
    <2> QED BY <1>0, <1>10, <2>1, NothingMoves, BreakerKept
        DEF Goal, IInv, TypeOK, vars, tokenVars
  <1> QED BY <1>1, <1>2, <1>3, <1>4, <1>5, <1>6, <1>7, <1>8, <1>9, <1>10, Steps

-----------------------------------------------------------------------------
(* Sums over a finite set. *)

\* A set of naturals that is not empty has a least element.
LEMMA Least ==
  ASSUME NEW T, T \subseteq Nat, T # {}
  PROVE  \E n \in T : \A m \in T : n <= m
  <1> DEFINE Less == {ss \in Nat \X Nat : ss[1] < ss[2]}
  <1>1. OpToRel(<, Nat) = Less
    BY Zenon DEF OpToRel
  <1>2. IsWellFoundedOn(Less, Nat)
    BY <1>1, NatLessThanWellFounded, Zenon
  <1>3. ASSUME NEW m \in Nat, NEW n \in Nat, m < n PROVE <<m, n>> \in Less
    BY <1>3
  <1> HIDE DEF Less
  <1>4. PICK n \in T : \A m \in T : ~(<<m, n>> \in Less)
    BY <1>2, WFMin, Zenon
  <1>5. \A m \in T : n <= m
    <2> TAKE m \in T
    <2>1. n \in Nat /\ m \in Nat
      OBVIOUS
    <2>2. ~(m < n)
      BY <1>3, <1>4, <2>1
    <2> QED BY <2>1, <2>2
  <1> QED BY <1>5

\* The element a sum over s adds last, the sum over s from those of smaller sets,
\* and what a table g of the sums of all subsets satisfies.
Pick(s) == CHOOSE x \in s : TRUE
SumStep(f, g, s) == IF s = {} THEN 0 ELSE f[Pick(s)] + g[s \ {Pick(s)}]
Folded(f, S, g) == g = [s \in SUBSET S |-> SumStep(f, g, s)]

\* SumFunction, unfolded: the sums of all subsets, read at the whole set.
LEMMA SumIs ==
  ASSUME NEW S, NEW f, DOMAIN f = S
  PROVE SumFunction(f) = (CHOOSE g : Folded(f, S, g))[S]
  BY DEF SumFunction, SumFunctionOnSet, FoldFunctionOnSet, MapThenFoldSet, Folded, Pick, SumStep

LEMMA PickSmaller ==
  ASSUME NEW S, IsFiniteSet(S), NEW s \in SUBSET S, s # {}
  PROVE  /\ Pick(s) \in s /\ s \ {Pick(s)} \in SUBSET S
         /\ Cardinality(s) \in Nat /\ Cardinality(s \ {Pick(s)}) = Cardinality(s) - 1
         /\ Cardinality(s) # 0
  <1>1. Pick(s) \in s
    BY DEF Pick
  <1>2. IsFiniteSet(s)
    BY FS_Subset
  <1> QED BY <1>1, <1>2, FS_RemoveElement, FS_CardinalityType, FS_EmptySet

\* Such a table of sums exists: by induction on the size of the subsets.
LEMMA FoldExists ==
  ASSUME NEW S, IsFiniteSet(S), NEW f \in [S -> Int]
  PROVE  \E g \in [SUBSET S -> Int] : Folded(f, S, g)
  <1> DEFINE Small(n) == {s \in SUBSET S : Cardinality(s) <= n}
             Good(n) == \E g \in [Small(n) -> Int] : \A s \in Small(n) : g[s] = SumStep(f, g, s)
             Bad == {n \in Nat : ~Good(n)}
  <1>1. \A s \in SUBSET S : Cardinality(s) \in Nat
    BY FS_Subset, FS_CardinalityType
  <1>2. Good(0)
    <2>1. Small(0) = {{}}
      <3>1. {} \in Small(0)
        BY FS_EmptySet
      <3>2. ASSUME NEW s \in Small(0) PROVE s = {}
        <4>1. s \in SUBSET S /\ Cardinality(s) \in Nat /\ Cardinality(s) <= 0
          BY <1>1
        <4>2. s # {} => Cardinality(s) # 0
          BY <4>1, PickSmaller
        <4> QED BY <4>1, <4>2
      <3> QED BY <3>1, <3>2
    <2>2. [s \in Small(0) |-> 0] \in [Small(0) -> Int]
      OBVIOUS
    <2>3. \A s \in Small(0) : [t \in Small(0) |-> 0][s] = SumStep(f, [t \in Small(0) |-> 0], s)
      BY <2>1 DEF SumStep
    <2> QED BY <2>2, <2>3
  <1>3. ASSUME NEW n \in Nat, Good(n) PROVE Good(n + 1)
    <2>1. PICK g \in [Small(n) -> Int] : \A s \in Small(n) : g[s] = SumStep(f, g, s)
      BY <1>3
    <2> DEFINE h == [s \in Small(n + 1) |-> SumStep(f, g, s)]
    <2>2. ASSUME NEW s \in Small(n + 1), s # {}
          PROVE  s \ {Pick(s)} \in Small(n) /\ f[Pick(s)] \in Int
      <3>1. s \in SUBSET S /\ Cardinality(s) <= n + 1
        OBVIOUS
      <3>2. /\ Pick(s) \in s /\ s \ {Pick(s)} \in SUBSET S /\ Cardinality(s) \in Nat
            /\ Cardinality(s \ {Pick(s)}) = Cardinality(s) - 1
        BY <2>2, <3>1, PickSmaller
      <3> QED BY <3>1, <3>2
    <2>3. \A s \in Small(n + 1) : SumStep(f, g, s) \in Int
      BY <2>2 DEF SumStep
    <2>4. h \in [Small(n + 1) -> Int]
      BY <2>3
    <2>5. \A s \in Small(n) : s \in Small(n + 1) /\ h[s] = g[s]
      BY <1>1, <2>1
    <2>6. \A s \in Small(n + 1) : h[s] = SumStep(f, h, s)
      BY <2>2, <2>5 DEF SumStep
    <2> QED BY <2>4, <2>6
  <1> HIDE DEF Good
  <1>4. Bad = {}
    <2> SUFFICES ASSUME Bad # {} PROVE FALSE
      OBVIOUS
    <2>1. PICK n \in Bad : \A m \in Bad : n <= m
      BY Least
    <2>2. n \in Nat /\ n # 0 /\ ~Good(n)
      BY <1>2
    <2>3. n - 1 \in Nat /\ ~(n <= n - 1) /\ (n - 1) + 1 = n
      BY <2>2
    <2>4. Good(n - 1)
      BY <2>1, <2>3
    <2> QED BY <1>3, <2>2, <2>3, <2>4
  <1>5. Good(Cardinality(S))
    BY <1>1, <1>4
  <1>6. Small(Cardinality(S)) = SUBSET S
    BY <1>1, FS_Subset
  <1> HIDE DEF Small
  <1> QED BY <1>5, <1>6 DEF Good, Folded

\* Induction over the subsets of a finite set, with a set for the predicate.
LEMMA BySmaller ==
  ASSUME NEW S, IsFiniteSet(S), NEW G,
         \A s \in SUBSET S : (s # {} => s \ {Pick(s)} \in G) => s \in G
  PROVE  S \in G
  <1> DEFINE Bad == {n \in Nat : \E s \in SUBSET S : Cardinality(s) = n /\ s \notin G}
  <1>1. Bad = {}
    <2> SUFFICES ASSUME Bad # {} PROVE FALSE
      OBVIOUS
    <2>1. PICK n \in Bad : \A m \in Bad : n <= m
      BY Least
    <2>2. PICK s \in SUBSET S : Cardinality(s) = n /\ s \notin G
      BY <2>1
    <2>3. s # {} /\ s \ {Pick(s)} \notin G
      BY <2>2
    <2>4. s \ {Pick(s)} \in SUBSET S /\ Cardinality(s \ {Pick(s)}) = n - 1 /\ n - 1 \in Nat
      <3>1. /\ s \ {Pick(s)} \in SUBSET S /\ Cardinality(s) \in Nat /\ Cardinality(s) # 0
            /\ Cardinality(s \ {Pick(s)}) = Cardinality(s) - 1
        BY <2>3, PickSmaller
      <3> QED BY <2>2, <3>1
    <2> QED BY <2>1, <2>3, <2>4
  <1> QED BY <1>1, FS_CardinalityType

LEMMA SumTable ==
  ASSUME NEW S, IsFiniteSet(S), NEW f \in [S -> Int]
  PROVE  \E F : Folded(f, S, F) /\ SumFunction(f) = F[S]
  BY FoldExists, SumIs

LEMMA SumOfNothing ==
  ASSUME NEW S, IsFiniteSet(S)
  PROVE  SumFunction([x \in S |-> 0]) = 0
  <1> DEFINE f == [x \in S |-> 0]
  <1>1. f \in [S -> Int] /\ \A x \in S : f[x] = 0
    OBVIOUS
  <1> HIDE DEF f
  <1>2. PICK F : Folded(f, S, F) /\ SumFunction(f) = F[S]
    BY <1>1, SumTable
  <1> DEFINE G == {s \in SUBSET S : F[s] = 0}
  <1>3. ASSUME NEW s \in SUBSET S, s # {} => s \ {Pick(s)} \in G
        PROVE  s \in G
    <2>1. F[s] = SumStep(f, F, s)
      BY <1>2 DEF Folded
    <2>2. s # {} => Pick(s) \in S
      BY PickSmaller
    <2> QED BY <1>1, <1>3, <2>1, <2>2 DEF SumStep
  <1>4. S \in G
    BY <1>3, BySmaller
  <1> QED BY <1>2, <1>4 DEF f

\* Changing one summand changes the sum by as much, in whatever order the
\* summands are added.
LEMMA SumChanges ==
  ASSUME NEW S, IsFiniteSet(S), NEW f \in [S -> Int], NEW x \in S, NEW v \in Int
  PROVE  /\ SumFunction(f) \in Int
         /\ SumFunction([f EXCEPT ![x] = v]) = SumFunction(f) + v - f[x]
  <1> DEFINE h == [f EXCEPT ![x] = v]
             d == v - f[x]
  <1>0. /\ h \in [S -> Int] /\ d \in Int /\ f[x] \in Int /\ v = f[x] + d
        /\ \A y \in S : h[y] = IF y = x THEN f[y] + d ELSE f[y]
    OBVIOUS
  <1> HIDE DEF h, d
  <1>1. PICK F : Folded(f, S, F) /\ SumFunction(f) = F[S]
    BY SumTable
  <1>2. PICK H : Folded(h, S, H) /\ SumFunction(h) = H[S]
    BY <1>0, SumTable
  <1>3. \A s \in SUBSET S : F[s] = SumStep(f, F, s) /\ H[s] = SumStep(h, H, s)
    BY <1>1, <1>2 DEF Folded
  <1> DEFINE Agree(s) == F[s] \in Int /\ H[s] = IF x \in s THEN F[s] + d ELSE F[s]
             G == {s \in SUBSET S : Agree(s)}
  <1> HIDE DEF Agree
  <1>4. ASSUME NEW s \in SUBSET S, s # {} => s \ {Pick(s)} \in G
        PROVE  s \in G
    <2>1. CASE s = {}
      <3>1. F[s] = 0 /\ H[s] = 0
        BY <1>3, <2>1 DEF SumStep
      <3> QED BY <2>1, <3>1 DEF Agree
    <2>2. CASE s # {}
      <3>1. Pick(s) \in s /\ Pick(s) \in S
        BY <2>2, PickSmaller
      <3>2. F[s] = f[Pick(s)] + F[s \ {Pick(s)}] /\ H[s] = h[Pick(s)] + H[s \ {Pick(s)}]
        BY <1>3, <2>2 DEF SumStep
      <3>3. /\ f[Pick(s)] \in Int /\ F[s \ {Pick(s)}] \in Int
            /\ H[s \ {Pick(s)}] = IF x \in s \ {Pick(s)} THEN F[s \ {Pick(s)}] + d ELSE F[s \ {Pick(s)}]
        BY <1>4, <2>2, <3>1 DEF Agree
      <3>4. h[Pick(s)] = IF Pick(s) = x THEN f[Pick(s)] + d ELSE f[Pick(s)]
        BY <1>0, <3>1
      <3>5. Agree(s)
        BY <1>0, <3>1, <3>2, <3>3, <3>4 DEF Agree
      <3> QED BY <3>5
    <2> QED BY <2>1, <2>2
  <1>5. S \in G
    BY <1>4, BySmaller
  <1>6. Agree(S)
    BY <1>5
  <1> QED BY <1>0, <1>1, <1>2, <1>6 DEF Agree, h

-----------------------------------------------------------------------------
LEMMA SupplyStep ==
  ASSUME TypeOK, SupplyAccounted, [Next]_vars
  PROVE  SupplyAccounted'
  <1>1. /\ balance \in [Holder -> Int] /\ \A h \in Holder : balance[h] \in Int
        /\ issued \in Int /\ selfGain \in Int /\ \A n \in Amount : n \in Int
        /\ SumFunction(balance) = issued + selfGain
    BY AmountBounds DEF TypeOK, Amount, Balance, Gain, SupplyAccounted, Supply
  <1> SUFFICES SumFunction(balance') = issued' + selfGain'
    BY DEF SupplyAccounted, Supply
  <1>2. CASE UNCHANGED <<balance, issued, selfGain>>
    BY <1>1, <1>2
  <1>3. ASSUME NEW h \in Holder, NEW n \in Amount, Minted(h, n)
        PROVE  SumFunction(balance') = issued' + selfGain'
    <2>1. /\ balance' = [balance EXCEPT ![h] = balance[h] + n]
          /\ issued' = issued + n /\ selfGain' = selfGain
      BY <1>3 DEF Minted
    <2>2. balance[h] \in Int /\ n \in Int /\ balance[h] + n \in Int
      BY <1>1
    <2>3. SumFunction(balance') = SumFunction(balance) + (balance[h] + n) - balance[h]
      BY <1>1, <2>1, <2>2, SumChanges, HolderAssumption
    <2> QED BY <1>1, <2>1, <2>2, <2>3
  <1>4. ASSUME NEW h \in Holder, NEW n \in Amount, Burned(h, n)
        PROVE  SumFunction(balance') = issued' + selfGain'
    <2>1. /\ balance' = [balance EXCEPT ![h] = balance[h] - n]
          /\ issued' = issued - n /\ selfGain' = selfGain
      BY <1>4 DEF Burned
    <2>2. balance[h] \in Int /\ n \in Int /\ balance[h] - n \in Int
      BY <1>1
    <2>3. SumFunction(balance') = SumFunction(balance) + (balance[h] - n) - balance[h]
      BY <1>1, <2>1, <2>2, SumChanges, HolderAssumption
    <2> QED BY <1>1, <2>1, <2>2, <2>3
  <1>5. ASSUME NEW h \in Holder, NEW k \in Holder, NEW n \in Amount, move(h, k, n)
        PROVE  SumFunction(balance') = issued' + selfGain'
    <2> DEFINE debited == [balance EXCEPT ![h] = balance[h] - n]
    <2>1. /\ balance' = [debited EXCEPT ![k] = balance[k] + n]
          /\ issued' = issued /\ selfGain' = selfGain + IF h = k THEN n ELSE 0
      BY <1>5 DEF move
    <2>2. /\ balance[h] \in Int /\ balance[k] \in Int /\ n \in Int
          /\ balance[h] - n \in Int /\ balance[k] + n \in Int
      BY <1>1
    <2>3. /\ debited \in [Holder -> Int]
          /\ debited[k] = IF h = k THEN balance[k] - n ELSE balance[k]
      BY <1>1, <2>2
    <2>4. SumFunction(debited) = SumFunction(balance) + (balance[h] - n) - balance[h]
      BY <1>1, <2>2, SumChanges, HolderAssumption
    <2> HIDE DEF debited
    <2>5. SumFunction(balance') = SumFunction(debited) + (balance[k] + n) - debited[k]
      BY <2>1, <2>2, <2>3, SumChanges, HolderAssumption
    <2> QED BY <1>1, <2>1, <2>2, <2>3, <2>4, <2>5
  <1>6. \/ UNCHANGED <<balance, issued, selfGain>>
        \/ \E h \in Holder, n \in Amount : Minted(h, n) \/ Burned(h, n)
        \/ \E h, k \in Holder, n \in Amount : move(h, k, n)
    <2>1. ASSUME NEW h \in Holder, NEW k \in Holder, NEW n \in Amount, Moves(h, k, n)
          PROVE  move(h, k, n)
      BY <2>1, MovesAreTransfers DEF Transferred
    <2> QED BY <2>1, Steps
        DEF Breaker, Initialized, Reassess, approve, burn, burn_from, transfer_from,
            tokenVars, vars
  <1> QED BY <1>2, <1>3, <1>4, <1>5, <1>6

-----------------------------------------------------------------------------
\* Storage keeps its shape in every deployment, whatever the sign of the amounts:
\* only an initialized sep41 token has an admin, and always has one.
THEOREM TokensTypeCorrect == Spec => []TypeOK
  <1>1. IInv => TypeOK
    BY DEF IInv
  <1>2. Goal => IInv'
    BY DEF Goal
  <1> QED BY <1>1, <1>2, InitIInv, StepGoal, PTL DEF Spec

\* A pending handover of the breaker is the current admin's.
THEOREM BreakerHandoverSafe == Spec => []PendingIsCurrentAdmins
  <1>1. IInv => PendingIsCurrentAdmins
    BY DEF IInv
  <1>2. Goal => IInv'
    BY DEF Goal
  <1> QED BY <1>1, <1>2, InitIInv, StepGoal, PTL DEF Spec

\* Only the admin of the moment ends a freeze, swaps the code or changes who
\* may freeze and who comes next.
THEOREM FreezeIsTheAdmins == Spec => FreezeHolds
  <1>1. Goal => IInv' /\ FreezeStep
    BY DEF Goal
  <1> QED BY <1>1, InitIInv, StepGoal, PTL DEF Spec, FreezeHolds

\* No token moves balance under a frozen or uninitialized breaker it is wired
\* to, or between parties that one of its primitives does not clear.
THEOREM MovesAdmitted == Spec => MovesAreAdmitted
  <1>1. Goal => IInv' /\ MoveStep
    BY DEF Goal
  <1> QED BY <1>1, InitIInv, StepGoal, PTL DEF Spec, MovesAreAdmitted

\* For amounts of either sign an allowance is charged with what its spender's
\* calls take; for those that are not negative, who takes from another address
\* pays from an allowance, which only the owner raises.
THEOREM AllowancesHold == Spec => SpendersPay
  <1>1. Goal => IInv' /\ SpendStep
    BY DEF Goal
  <1> QED BY <1>1, InitIInv, StepGoal, PTL DEF Spec, SpendersPay

\* No call takes a balance below zero but one whose amount is negative, and no
\* spender an allowance whatever the amount.
THEOREM NothingIsOverdrawn == Spec => NothingOverdrawn
  <1>1. Goal => IInv' /\ OverdraftStep
    BY DEF Goal
  <1> QED BY <1>1, InitIInv, StepGoal, PTL DEF Spec, NothingOverdrawn

\* Whatever the order of transfers, spending, minting and burning, the balances
\* add up to what was minted and not burned, and what transfers to oneself added.
THEOREM SupplyIsAccounted == Spec => []SupplyAccounted
  <1>1. Init => SupplyAccounted
    <2> SUFFICES ASSUME Init PROVE SupplyAccounted
      OBVIOUS
    <2>1. balance = [h \in Holder |-> 0] /\ issued = 0 /\ selfGain = 0
      BY DEF Init
    <2>2. SumFunction(balance) = 0
      BY <2>1, SumOfNothing, HolderAssumption
    <2> QED BY <2>1, <2>2 DEF SupplyAccounted, Supply
  <1>2. TypeOK /\ SupplyAccounted /\ [Next]_vars => SupplyAccounted'
    BY SupplyStep
  <1> QED BY <1>1, <1>2, TokensTypeCorrect, PTL DEF Spec

\* Under any of the tokens the breaker behaves as it does alone: they read it and
\* never write it, so what its admin and guardians may rely on is the breaker's.
THEOREM BreakerRunsAlone == Spec => BreakerInit /\ [][BreakerNext]_breakerVars
  <1>1. Init => BreakerInit
    BY DEF Init
  <1>2. [Next]_vars => [BreakerNext]_breakerVars
    <2> SUFFICES ASSUME [Next]_vars PROVE BreakerNext \/ UNCHANGED breakerVars
      OBVIOUS
    <2>1. CASE Breaker
      BY <2>1 DEF Breaker
    <2>2. ASSUME NEW h \in Holder, NEW k \in Holder, NEW n \in Amount, Moves(h, k, n)
          PROVE  UNCHANGED breakerVars
      BY <2>2, MovesAreTransfers DEF Transferred
    <2>3. ASSUME NEW h \in Holder, NEW k \in Holder, NEW n \in Amount,
                 \/ approve(h, k, n)
                 \/ burn(h, n)
                 \/ burn_from(k, h, n)
                 \/ \E s \in Holder : transfer_from(s, h, k, n)
          PROVE  UNCHANGED breakerVars
      BY <2>3 DEF approve, burn, burn_from, transfer_from
    <2>4. ASSUME \/ \E a \in Account \cup {None} : Initialized(a)
                 \/ \E h \in Holder, n \in Amount : Minted(h, n)
                 \/ \E h \in Holder, p \in Primitive : Reassess(h, p)
                 \/ UNCHANGED vars
          PROVE  UNCHANGED breakerVars
      BY <2>4 DEF Initialized, Minted, Reassess, vars
    <2> QED BY <2>1, <2>2, <2>3, <2>4, Steps
  <1> QED BY <1>1, <1>2, PTL DEF Spec
=============================================================================
