------------------------------ MODULE GatedTokens ------------------------------
(***************************************************************************)
(* The tokens of examples/, each composed with the primitives it reads:    *)
(*                                                                         *)
(*   example  denylist-gate-consumer  breaker, denylist                    *)
(*   rwa      rwa-token               breaker, allowlist, denylist and     *)
(*                                    jurisdiction                         *)
(*   sep41    denylist-gate-sep41     denylist; allowances and burning     *)
(*                                                                         *)
(* The breaker is CircuitBreaker's.  The other primitives have modules of  *)
(* their own: here each is what it answers about an address, which changes *)
(* at any time.  Calls of one contract by another run inside the caller's  *)
(* transaction, so a transfer is one step.                                 *)
(*                                                                         *)
(* An amount is an i128 and no token looks at its sign, so it is an        *)
(* integer of either sign here.  Abstracted: names and decimals, and the   *)
(* ends of the i128 range.                                                 *)
(***************************************************************************)
EXTENDS CircuitBreaker, FiniteSets, Functions

CONSTANTS
  Token,         \* the tokens that may be deployed
  Holder,        \* addresses that hold, send and spend
  MaxAmount,     \* bound: on the amount of a call and on an allowance, either way
  MaxBalance,    \* bound: on a balance, either way
  MaxGain,       \* bound: on selfGain, either way
  MaxAllowances, \* bound: allowances other than 0 at a time
  MaxRefusals    \* bound: addresses that primitives refuse at a time

ASSUME TokenAssumption == Token \subseteq {"example", "rwa", "sep41"}
ASSUME HolderAssumption == IsFiniteSet(Holder) /\ None \notin Holder
ASSUME AmountBounds ==
  /\ MaxAmount \in Nat /\ MaxBalance \in Nat /\ MaxGain \in Nat
  /\ MaxAllowances \in Nat /\ MaxRefusals \in Nat

VARIABLES
  kind,          \* which token is deployed
  wired,         \* whether it was initialized: the addresses it reads are set
  issuer,        \* sep41: DataKey::Admin
  balance,       \* DataKey::Balance(address), 0 when absent
  allowance,     \* sep41: DataKey::Allowance(owner, spender), 0 when absent
  clears,        \* the primitives that clear an address
  \* history
  issued,        \* minted less burned
  selfGain,      \* what transfers of an address to itself have added to it
  lastAmount     \* the amount of the last call, 0 if it has none

tokenVars == <<wired, issuer, balance, allowance, issued, selfGain>>
vars == <<breakerVars, by, kind, tokenVars, clears, lastAmount>>

Primitive == {"gate", "allowlist", "jurisdiction"}
Amount == -MaxAmount..MaxAmount
Balance == -MaxBalance..MaxBalance
Gain == -MaxGain..MaxGain

\* The primitives each token is wired to besides the breaker, and which tokens
\* are wired to that.
Reads == [example |-> {"gate"}, rwa |-> Primitive, sep41 |-> {"gate"}]
HasBreaker == kind # "sep41"

Supply == SumFunction(balance)

TypeOK ==
  /\ BreakerTypeOK
  /\ by \in Account \cup Holder \cup {None}
  /\ kind \in Token
  /\ wired \in BOOLEAN
  /\ issuer \in Account \cup {None}
  /\ issuer # None <=> kind = "sep41" /\ wired
  /\ balance \in [Holder -> Balance]
  /\ allowance \in [Holder \X Holder -> Amount]
  /\ clears \in [Holder -> SUBSET Primitive]
  /\ issued \in Int
  /\ selfGain \in Gain
  /\ lastAmount \in Amount

Init ==
  /\ BreakerInit
  /\ by = None
  /\ kind \in Token
  /\ wired = FALSE
  /\ issuer = None
  /\ balance = [h \in Holder |-> 0]
  /\ allowance = [p \in Holder \X Holder |-> 0]
  /\ clears = [h \in Holder |-> Reads[kind]]
  /\ issued = 0
  /\ selfGain = 0
  /\ lastAmount = 0

-----------------------------------------------------------------------------
\* Set-up and funding.

\* initialize of the example and the rwa token, by anybody.
initialize ==
  /\ kind # "sep41"
  /\ ~wired
  /\ wired' = TRUE
  /\ by' = None /\ lastAmount' = 0
  /\ UNCHANGED <<breakerVars, kind, issuer, balance, allowance, clears, issued, selfGain>>

\* Variant: the admin is not stored.
initialize_sep41_NoAdmin(a) ==
  /\ kind = "sep41"
  /\ ~wired
  /\ wired' = TRUE
  /\ by' = a /\ lastAmount' = 0
  /\ UNCHANGED <<breakerVars, kind, issuer, balance, allowance, clears, issued, selfGain>>

initialize_sep41(a) ==
  /\ kind = "sep41"
  /\ ~wired
  /\ wired' = TRUE
  /\ issuer' = a
  /\ by' = a /\ lastAmount' = 0
  /\ UNCHANGED <<breakerVars, kind, balance, allowance, clears, issued, selfGain>>

Minted(to, amount) ==
  /\ balance[to] + amount \in Balance
  /\ lastAmount' = amount
  /\ balance' = [balance EXCEPT ![to] = @ + amount]
  /\ issued' = issued + amount
  /\ UNCHANGED <<breakerVars, kind, wired, issuer, allowance, clears, selfGain>>

\* mint of the example and the rwa token, by anybody, initialized or not.
mint(to, amount) ==
  /\ kind # "sep41"
  /\ Minted(to, amount)
  /\ by' = None

mint_sep41(caller, to, amount) ==
  /\ kind = "sep41"
  /\ issuer # None /\ caller = issuer
  /\ Minted(to, amount)
  /\ by' = caller

-----------------------------------------------------------------------------
\* Moving balances.

\* Variant: the credit is written first, and the debit from what was read.
move_CreditLost(from, to, amount) ==
  /\ balance[from] >= amount
  /\ balance' = [[balance EXCEPT ![to] = balance[to] + amount]
                          EXCEPT ![from] = balance[from] - amount]
  /\ balance' \in [Holder -> Balance]
  /\ selfGain' = selfGain + IF from = to THEN amount ELSE 0
  /\ selfGain' \in Gain
  /\ lastAmount' = amount
  /\ UNCHANGED issued

\* The common end of the transfers (do_transfer): both balances are read, then
\* the debit is written, then the credit.
move(from, to, amount) ==
  /\ balance[from] >= amount
  /\ balance' = [[balance EXCEPT ![from] = balance[from] - amount]
                          EXCEPT ![to] = balance[to] + amount]
  /\ balance' \in [Holder -> Balance]
  /\ selfGain' = selfGain + IF from = to THEN amount ELSE 0
  /\ selfGain' \in Gain
  /\ lastAmount' = amount
  /\ UNCHANGED issued

Transferred(from, to, amount) ==
  /\ move(from, to, amount)
  /\ by' = from
  /\ UNCHANGED <<breakerVars, kind, wired, issuer, allowance, clears>>

\* transfer of the example token: the breaker, then the denylist.
transfer_example(from, to, amount) ==
  /\ kind = "example"
  /\ wired
  /\ is_open
  /\ "gate" \in clears[from] \cap clears[to]
  /\ Transferred(from, to, amount)

\* Variant: the recipient's jurisdiction is not looked at.
transfer_rwa_SenderOnly(from, to, amount) ==
  /\ kind = "rwa"
  /\ wired
  /\ is_open
  /\ {"allowlist", "gate"} \subseteq clears[from] \cap clears[to]
  /\ "jurisdiction" \in clears[from]
  /\ Transferred(from, to, amount)

\* transfer of the rwa token: the breaker, the allowlist, the denylist, the
\* jurisdiction. The last is asked with try_, so that an answer that is an error
\* counts as not permitted; an error of the others fails the call.
transfer_rwa(from, to, amount) ==
  /\ kind = "rwa"
  /\ wired
  /\ is_open
  /\ {"allowlist", "gate", "jurisdiction"} \subseteq clears[from] \cap clears[to]
  /\ Transferred(from, to, amount)

gate_check(from, to) == wired /\ "gate" \in clears[from] \cap clears[to]

transfer_sep41(from, to, amount) ==
  /\ kind = "sep41"
  /\ gate_check(from, to)
  /\ Transferred(from, to, amount)

-----------------------------------------------------------------------------
\* Allowances and burning, of the sep41 token only.

\* Few allowances are given at a time.
Bounded == Cardinality({p \in Holder \X Holder : allowance'[p] # 0}) <= MaxAllowances

\* approve: at any time, whatever the denylist says; the expiry is ignored.
approve(owner, spender, amount) ==
  /\ kind = "sep41"
  /\ allowance' = [allowance EXCEPT ![<<owner, spender>>] = amount]
  /\ Bounded
  /\ by' = owner /\ lastAmount' = amount
  /\ UNCHANGED <<breakerVars, kind, wired, issuer, balance, clears, issued, selfGain>>

\* Variant: the allowance is charged without being compared with the amount.
Spend_Unchecked(owner, spender, amount) ==
  /\ allowance[<<owner, spender>>] - amount \in Amount
  /\ allowance' = [allowance EXCEPT ![<<owner, spender>>] = @ - amount]
  /\ Bounded

Spend(owner, spender, amount) ==
  /\ allowance[<<owner, spender>>] >= amount
  /\ allowance[<<owner, spender>>] - amount \in Amount
  /\ allowance' = [allowance EXCEPT ![<<owner, spender>>] = @ - amount]
  /\ Bounded

\* transfer_from: the denylist is asked about owner and recipient, not about
\* the spender.
transfer_from(spender, from, to, amount) ==
  /\ kind = "sep41"
  /\ gate_check(from, to)
  /\ Spend(from, spender, amount)
  /\ move(from, to, amount)
  /\ by' = spender
  /\ UNCHANGED <<breakerVars, kind, wired, issuer, clears>>

\* burn and burn_from ask no primitive.
Burned(from, amount) ==
  /\ balance[from] >= amount
  /\ balance[from] - amount \in Balance
  /\ balance' = [balance EXCEPT ![from] = @ - amount]
  /\ issued' = issued - amount
  /\ lastAmount' = amount
  /\ UNCHANGED selfGain

burn(from, amount) ==
  /\ kind = "sep41"
  /\ Burned(from, amount)
  /\ by' = from
  /\ UNCHANGED <<breakerVars, kind, wired, issuer, allowance, clears>>

\* Variant: the allowance is checked and not charged.
burn_from_Uncharged(spender, from, amount) ==
  /\ kind = "sep41"
  /\ allowance[<<from, spender>>] >= amount
  /\ Burned(from, amount)
  /\ by' = spender
  /\ UNCHANGED <<breakerVars, kind, wired, issuer, allowance, clears>>

burn_from(spender, from, amount) ==
  /\ kind = "sep41"
  /\ Spend(from, spender, amount)
  /\ Burned(from, amount)
  /\ by' = spender
  /\ UNCHANGED <<breakerVars, kind, wired, issuer, clears>>

-----------------------------------------------------------------------------
\* A primitive the token reads changes its mind about an address.
Reassess(h, p) ==
  /\ p \in Reads[kind]
  /\ clears' = [clears EXCEPT ![h] = IF p \in @ THEN @ \ {p} ELSE @ \cup {p}]
  /\ Cardinality({r \in Holder \X Reads[kind] : r[2] \notin clears'[r[1]]}) <= MaxRefusals
  /\ by' = None /\ lastAmount' = 0
  /\ UNCHANGED <<breakerVars, kind, tokenVars>>

\* A call of the breaker, where one is deployed.
Breaker ==
  /\ HasBreaker
  /\ BreakerNext
  /\ lastAmount' = 0
  /\ UNCHANGED <<kind, tokenVars, clears>>

Next ==
  \/ Breaker
  \/ initialize
  \/ \E a \in Account : initialize_sep41(a)
  \/ \E h \in Holder :
       \/ \E p \in Primitive : Reassess(h, p)
       \/ \E n \in Amount :
            \/ mint(h, n)
            \/ \E a \in Account : mint_sep41(a, h, n)
            \/ burn(h, n)
            \/ \E k \in Holder :
                 \/ transfer_example(h, k, n)
                 \/ transfer_rwa(h, k, n)
                 \/ transfer_sep41(h, k, n)
                 \/ approve(h, k, n)
                 \/ burn_from(k, h, n)
                 \/ \E s \in Holder : transfer_from(s, h, k, n)

Spec == Init /\ [][Next]_vars

-----------------------------------------------------------------------------
\* Every unit in circulation was minted and not burned, except for what
\* transfers to oneself have added: no order of transfers, spending and burning
\* by several parties loses or doubles a balance otherwise.
SupplyAccounted == Supply = issued + selfGain


\* A freeze holds until the admin of the moment ends it: no guardian, nominee
\* or former admin reopens a frozen breaker, and none of them swaps its code or
\* changes who may freeze and who comes next.
FreezeStep ==
  /\ frozen /\ ~frozen' => by' = admin
  /\ <<guardians, code>>' # <<guardians, code>> => by' = admin
  /\ pendingAdmin' # pendingAdmin => by' \in {admin, pendingAdmin}
FreezeHolds == [][FreezeStep]_vars

\* Balance passes from one address to another only under an initialized breaker
\* that is not frozen, and only while every primitive the token is wired to
\* clears both parties.
MoveStep ==
  \A h, k \in Holder : balance'[h] < balance[h] /\ balance'[k] > balance[k] =>
    /\ HasBreaker => admin # None /\ ~frozen
    /\ Reads[kind] \subseteq clears[h] \cap clears[k]
MovesAreAdmitted == [][MoveStep]_vars

\* What a spender takes is paid from the allowance, of either sign: but for its
\* owner's calls, an allowance changes by what its spender's calls take from the
\* owner's balance, or add to it by moving it onto itself. A call with an amount
\* that is not negative lowers a balance only as its owner's own call or out of
\* an allowance, and only the owner's raise an allowance. So a spender who names
\* such amounts never takes more than was approved since he last took.
SpendStep ==
  /\ \A owner, spender \in Holder :
       LET used  == allowance[<<owner, spender>>] - allowance'[<<owner, spender>>]
           taken == balance[owner] - balance'[owner]
       IN used # 0 /\ by' # owner =>
            by' = spender /\ (used = taken \/ used = selfGain' - selfGain)
  /\ lastAmount' >= 0 =>
       /\ \A h \in Holder : balance'[h] < balance[h] =>
            \/ by' = h
            \/ /\ by' \in Holder
               /\ balance[h] - balance'[h] = allowance[<<h, by'>>] - allowance'[<<h, by'>>]
       /\ \A p \in Holder \X Holder : allowance'[p] > allowance[p] => by' = p[1]
SpendersPay == [][SpendStep]_vars

\* Nothing is spent that is not there: a call whose amount is not negative takes
\* no balance below zero, also after calls whose amount was; and an allowance
\* is below zero because its owner approved that, never because of a spender.
OverdraftStep ==
  /\ \A h \in Holder :
       balance'[h] < balance[h] /\ balance'[h] < 0 => lastAmount' < 0
  /\ \A p \in Holder \X Holder :
       allowance'[p] # allowance[p] /\ allowance'[p] < 0 => by' = p[1]
NothingOverdrawn == [][OverdraftStep]_vars
=============================================================================
