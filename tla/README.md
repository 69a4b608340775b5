# Compliance primitives: TLA+ models, checks and proofs

This directory holds TLA+ models of the compliance primitives in this
repository (Soroban contracts in `contracts/`, the tokens of `examples/`, the
event indexer in `tools/indexer`), the TLC configurations that check them on
small instances and the proofs TLAPS checks for all instances.

Everything is translated from the source; `PROJECT.json` gives, for every
definition, the lines it models (`map`), for every run what it checks (`runs`),
for every property a plausible slip in the code that breaks it (`mutants`), and
the hazards the properties are for (`hazards`).

## 1. Inventory

| Component | State it keeps | Operations | Calls |
|---|---|---|---|
| `multisig-admin` | signers, threshold, proposals, next id, pause flag | initialize, add/remove signer, update threshold, pause, unpause, upgrade, propose, approve, execute, `__check_auth` | is the admin address of the other contracts: the host asks its `__check_auth` |
| `denylist-gate` | admin, pending admin, officer, pause, denylist, pending upgrade, audit-log address; signer set and pending signer actions | roles and handover, pause, add/remove/batch, upgrade in three steps, M-of-N signer set | `audit-log.record`, best effort |
| `audit-log` | admin, pause flag, counter, entries by index | initialize, pause, unpause, upgrade, record; paged views | - |
| `pausable` (crate) | one flag in the linking contract | pause, unpause, guards | - |
| `circuit-breaker` | admin, pending admin, guardians, frozen flag | freeze, unfreeze, guardians, handover, upgrade | an audit log, which nothing configures |
| `policy-engine` | admin, checks, combination, breaker, pending upgrade | edit checks, evaluate (single, batch, verbose), upgrade | denylist, allowlist, jurisdiction, breaker |
| `compliance-aggregator` | admin, gate, flag, breaker, pause | set/clear, check_address, check_all, batch_check | denylist, jurisdiction, breaker |
| `jurisdiction-flag` | issuer, pending issuer, officer, pause; per address a list of codes, the single code of the older layout, an expiry | set/add/remove codes, with expiry and in batches, roles and handover, pause | - |
| `allowlist-token` | admin, pending admin, officer, pause, allowlist with expiry, delegated key, pending upgrade; a nonce it reads and never writes | allowlist edits, delegated additions, handover, upgrade in three steps, transfer | the wrapped token |
| `examples`: three tokens | balances, allowances, addresses of the primitives | initialize, mint, transfer, approve, transfer_from, burn | breaker, denylist, allowlist, jurisdiction |
| `compliance-check` | none | a trait | - |
| `tools/indexer` | database in memory and on disk, checkpoint; one poll in flight | poll, apply, checkpoint, shutdown, restart; query, health | RPC node |
| other examples, fuzz, scripts, web, test-trace | no protocol state | - | - |

How they interact. Contracts call each other synchronously inside one
transaction, which the host applies whole or not at all. Between contracts there
is therefore no message in flight; what is concurrent is the order in which
independent people submit transactions, across contracts and across ledgers.
The indexer is different: it is a process with awaits, a remote node, a file and
a supervisor.

What is hard, and what makes each part correct:

- *multisig-admin*: long sequences of legal amendments, approvals that outlive
  the signer who gave them, expiry, a pause that some entry points honour and
  some do not. Correct when the quorum stays reachable, when nothing happens
  without a quorum of distinct current signers, when a proposal runs at most
  once.
- *denylist-gate*: handovers that race rotations, upgrades that race
  re-proposals, a signer set that amends itself while approvals of other changes
  are pending, a log that may refuse to write. Correct when no proposal survives
  its proposer, when code was announced for the whole window, when log and
  denylist agree where the log was written, when an approval is spent once.
- *audit-log*: shared by every contract and account that authenticates itself.
  Correct when entries are never rewritten, counter and entries in step.
- *jurisdiction-flag*: three storage keys per address in two layouts, edited one
  at a time, in batches and by two roles, while ledgers pass. Correct when the
  keys agree, when an expired flag counts again only because somebody assigned
  it, when the officer cannot clear.
- *allowlist-token*: messages signed once and submitted by anybody at any time,
  around key changes, handovers, removals and expiry. Correct when an entry is
  granted only by an authority of the moment or by its key, once per message.
- *circuit-breaker and the tokens*: a freeze that guardians may set and only the
  admin ends, guardians who outlast an admin, primitives that change their
  answer between two transfers, a sender who is the recipient, amounts whose sign
  nobody looks at. Correct when no balance moves against a primitive the token
  reads, when spenders pay and nothing is overdrawn, when balances add up to what
  was issued.
- *indexer*: lagging nodes, failed requests, kills between two file writes,
  torn files, replays. Correct when the checkpoint never claims what was not
  stored, when the tables show what the contracts announced (for the
  jurisdictions they do only as far as `JurisdictionSet` goes, section 3), when it
  catches up.
- *policies* (policy-engine, aggregator): checks that refuse, trap or fail
  softly, evaluated in an order that stops early, over lists their admins edit.
  Correct when no failure turns into a pass, when an edit changes verdicts only
  in the direction it should, when the entry points agree among themselves and
  the two contracts with each other.

## 2. Modules

| Module | Models | Refines / composes |
|---|---|---|
| `QuorumGovernance` | what an M-of-N administrator promises | abstract |
| `MultisigAdmin` | `contracts/multisig-admin/src/lib.rs` | refines `QuorumGovernance` |
| `AuditLog` | `contracts/audit-log/src/lib.rs` | instantiated by `DenylistGate` |
| `DenylistGate` | `contracts/denylist-gate/src/lib.rs`, all but the signer set | composes `AuditLog` |
| `DenylistSignerSet` | the signer set of the same file | - |
| `JurisdictionFlag` | `contracts/jurisdiction-flag/src/lib.rs` | - |
| `AllowlistToken` | `contracts/allowlist-token/src/lib.rs` | - |
| `CircuitBreaker` | `contracts/circuit-breaker/src/lib.rs` | extended by `GatedTokens` |
| `GatedTokens` | `examples/denylist-gate-consumer`, `rwa-token`, `denylist-gate-sep41` | composes `CircuitBreaker` |
| `PolicyChecks` | the answers of the primitives to the policies | extended by the next two |
| `PolicyEngine` | `contracts/policy-engine/src/lib.rs` | - |
| `ComplianceAggregator` | `contracts/compliance-aggregator/src/lib.rs` | - |
| `CompliancePolicies` | the two side by side | extends the first, instantiates the second |
| `Indexer` | `tools/indexer/src/indexer.ts`, `db.ts`, `index.ts`, `rpc.ts` | - |
| `*_proofs` | theorems | extend the module they name |
| `MC*` | symmetry and model values for TLC | extend the module they name |

**Contracts.** A storage key is a variable (named in its comment), an entry
point an action of the same name, and an invocation one step: a call that
returns `Err` or traps is rolled back by the host and is no step. `require_auth`
is a parameter: the action's caller is an account that did authorize. Calls into
other contracts happen inside the action. Archived or extended storage, events
nobody's property is about, and the wording of details are left out.

*MultisigAdmin.* Self-governed operations take the list of addresses the
invocation carries; `CheckAuth` is `__check_auth`, duplicates and strangers
included, and the host's rule that a contract authorizes itself only through it
is `RequireSelfAuth`. `executed` and `consent` are history variables, `by`
observes who authorized the last call.

*DenylistGate* shares its clock with an `AuditLog` instance whose admin pauses
and upgrades it as it likes, and in which other sources write too
(`RecordByOthers`: any `Recorder`, any kind, the gate's own kinds and subjects
included, for `record` asks only that the source authenticates itself).
`record_audit` is the code's `try_record`: it writes when the configured address
is a log that accepts, and otherwise leaves the change in place. `trail` is
history: whether the last change of each subject was recorded, refused by the
log, or never offered to it. `EntriesAbout` are the entries about a subject whose
source is the gate: whoever reads the trail must look at the source, because
entries of others about the same subject say nothing about the denylist.

*DenylistSignerSet.* `pending` is `PendingSignerAction(action)`. One call both
stores an approval and, if that completes a quorum, applies the change, with the
validation repeated against the set as it is then. `unspent` is history.

*JurisdictionFlag.* Each address has its three keys, `codes`, `legacy` and
`validUntil`, and every write of flags goes through `store_jurisdictions` as in
the code, with what its caller does to the expiry. A list of codes is a set (the
code stores no code twice); which code leads it is what `MayLead` allows. `Init`
also starts from an instance written by the older, single-code layout, which
`load_jurisdictions` still reads. `upgrade` is no step: it removes a key nothing
sets (see *Divergences without a run*).

*AllowlistToken.* `signed` is the environment: what holders of keys have signed,
and a signed message can be submitted by anybody, any number of times.
`accepted` and `stale` are history: the last nonce accepted per admin, and
whether one was accepted that is not above it. `passed` observes the parties of
a forwarded transfer. A ledger's timestamp is its sequence number. The file does
not compile at this commit: `require_compliance_authority` is called and not
defined, the body of `is_allowed_and_extend_ttl` is broken, and `propose_upgrade`
answers `Error::UpgradeDelayTooShort` (541), which `enum Error` (195-212) does not
have. The first two are modelled as their callers and comments use them, the
third as the error it evidently is: the call fails.

*CircuitBreaker, GatedTokens.* One model of three tokens; `kind` says which is
deployed and never changes. `Reads` gives the primitives a token is wired to.
The breaker is the real one, in the same state space; the other primitives are
`clears`, and the external action `Reassess` changes their answers at any time.
`issued` and `selfGain` are history, and `lastAmount` observes the amount of the
last call. Amounts are integers of either sign, because the code takes an `i128`
and compares it from above only: a negative amount passes every comparison,
lowers the recipient and raises the payer, and raises an allowance where it is
charged. The properties say which part of correctness survives that
(`SupplyAccounted`, `MovesAreAdmitted`, the first half of `SpendersPay`, the
second half of `NothingOverdrawn`: whatever the sign) and which holds for calls
whose own amount is not negative, also after calls whose amount was; the rest
fails (section 3, divergences). The breaker's file does not compile either
(`freeze` names an undefined variable, `record_audit` an undeclared key), and
the model is of what it evidently means: nothing stores an audit log's address,
so `record_audit` does nothing.

*PolicyEngine, ComplianceAggregator.* Both only read the primitives, and all the
reads of one invocation see one state of them. A *world* is such a state reduced
to its answers: pass, fail, or trap, for each check and address. Evaluations are
operators of the stored policy and a world; the properties quantify over all of
`World` in every reachable state, so nothing need be assumed of how the
primitives change between invocations. `run_check` keeps the one asymmetry of
the code: jurisdiction checks are called through `try_`, the others trap the
caller. The loops that stop at the first deciding check are stated by that
check (`Deciders`, `First`). An index is one more here than in the code.
`swap_checks(i, i)` succeeds and changes nothing, and is no step. The engine
reads the flag of `pausable` but has no entry point that sets it, so
`ContractPaused` cannot be answered and the flag is left out.

**Indexer.** An action is what runs between two awaits, because JavaScript runs
that without interruption: `tick`, the reply to each request, the checkpoint.
The last page and the checkpoint are two actions although nothing is awaited
between them, since a kill can fall between their file writes; a signal
handler cannot, and `shutdown` is disabled there. `mem` is the sql.js database,
`disk` the file. `flush` may be cut short: the file is truncated first, so what
is left is empty or a fragment. The process survives a failed write with memory
ahead of the file, or is killed in the next step, which is a crash in the middle
of a write. A row count stands for an event's row in `events` (and `audit_log`):
neither has a unique key. Tables are last-writer-wins, like the SQL. What they are
compared with is stated apart, from what the contracts do: an address is listed
when the last add or remove about it was an add (`Listed`), and a code is
attached by `JurisdictionSet` and detached by `JurisdictionRemoved` and
`JurisdictionExpired` (`Attached`, `Detaches`). The last two are events the
indexer stores and does not act on. The node
and the network are external: any ledger up to the network's may be a node's
latest. `abandoned`, `interrupted` and the `origin` field are history.

## 3. Runs

| Run | Question | Result |
|---|---|---|
| `multisig_safety` | type, reachable quorum, single execution, nothing armed while paused, refinement of `QuorumGovernance` | holds |
| `denylist_safety` | type, handover, upgrade window; log against denylist and append-only log, while others write in the same log | holds |
| `signerset_safety` | type, reachable threshold, approvals spent once | holds |
| `jurisdiction_safety` | type, handover, storage keys agree, expired flags need renewal, who may change and who may clear | holds |
| `tokens_safety` | with amounts of either sign: type, breaker handover, only the admin ends a freeze, nothing moves unadmitted, supply accounted for, spenders pay, nothing overdrawn | holds |
| `tokens_selftransfer` | does a transfer to oneself leave the balance? | violated: it adds the amount |
| `allowlist_safety` | type, handover, who lets an address in or out, upgrade window | holds |
| `allowlist_replay` | is every accepted nonce above the last? | violated: the nonce is never stored |
| `policies_safety` | type, admission only on clearance, order and edits of the list, entry points agree, engine and aggregator agree | holds |
| `policies_frozen` | does a frozen breaker deny through every entry point? | violated: `batch_check` does not ask it |
| `indexer_safety` | type, checkpoint honest but for mid-pagination regressions, bounded duplicates, tables as the contracts' lists (jurisdictions: while nothing detaches them), catching up | holds |
| `indexer_regression` | is everything below the checkpoint stored? | violated: a regression between pages loses events |

The violations are the findings of `PROJECT.json`, each with the line of the
documentation, comment or test it contradicts.

Read next to each other, `indexer_regression` and `OnlyRegressionSkips` say that
the lost pages are the *only* way the checkpoint lies. `policies_frozen` and
`EntryPointsAgree` say the same of the breaker: with it open, `batch_check`
agrees with the others. `tokens_selftransfer` and `SupplyAccounted` say that
balances differ from what was issued by exactly what transfers to oneself have
added. `allowlist_replay` and `GrantsAreAuthorized` say that a replay is the
worst a relayer can do: what it submits is still signed by the current key,
unexpired, and for that address.

### Divergences without a run

Seen while modelling, kept in the models as the code has them, and not the
subject of a property:

- multisig-admin `approve` answers by the number of stored approvals (605),
  former signers included, where its documentation says whether the proposal can
  execute (549-550); `execute` ignores the pause (610), which the error
  documents to stop every mutating operation (273, `SPEC.md:813`).
- denylist-gate's batch removal calls no audit log (605) and so emits no
  `AuditLogFailed` either (`docs/fail-open-fail-closed-audit.md:284`). A signer
  action that reaches its threshold only because another change lowered it is
  not applied until somebody approves again (784, against 684-685).
- The indexer flushes its file in place (`db.ts:277`), so a crash in a flush
  leaves no database to resume from (`db.ts:4-6`, `tools/indexer/README.md:18-19`).
- The indexer's `updateState` (`db.ts:329-394`) sets a jurisdictions row on
  `JurisdictionSet` (362) and has no case for `JurisdictionRemoved` and
  `JurisdictionExpired`, which jurisdiction-flag emits (`lib.rs` 527, 550, 752)
  and the decoder knows (`decoder.ts:304-305`, 327-329): the row of a removed or
  expired code stays, where the documentation promises "current assignments"
  (`tools/indexer/README.md:261`) and "materialised current state" (`db.ts:48`).
  `TablesMirrorTheChain` says what is left: with no removal since the last set, a
  row is a code the contract stores. An allowlist entry's expiry has no event at
  all.
- No example token looks at the sign of an amount (sep41 211-223, 249-254,
  280-285, 326; consumer 126-133), where allowlist-token refuses negative ones
  (696). A transfer of a negative amount takes from the recipient, below zero if
  need be, and `transfer_from` and `burn_from` raise the allowance they charge
  ("grant approval" and "burn with allowance" are what `approve` and `burn_from`
  are for, `denylist-gate-sep41/src/lib.rs:25`, 30). The model has them all.
  `SpendersPay` and `NothingOverdrawn` say what is left: such a call is the only
  way, and an allowance that its owner did not raise was raised by as much as
  the owner's balance (or, from an address to itself, by as much as
  `selfGain` fell).
- allowlist-token's direct additions and its batch removal ignore the pause
  (against 649-650).
- circuit-breaker's guardians may freeze, where `SPEC.md:480-482` gives that to
  the admin alone.
- jurisdiction-flag's `upgrade` swaps no code (636, against 632-635), and the
  three upgrade entry points of `SPEC.md:288-300` do not exist. The officer, who
  may not remove (302-316), can shorten a flag to the current ledger (465).
- The aggregator with only a breaker registered clears every address through
  `check_address` and `check_all` (593), while `batch_check` answers
  `NoChecksRegistered` (`SPEC.md:574-575`); `EntryPointsAgree` excludes that
  configuration by name.

### Bounds

- `MultisigAdmin`: three addresses (a quorum of two can lose, replace and regain
  a member), lists of up to three with duplicates, two proposals (ids can be
  confused), ledgers 0-2 (alive, expiring, expired).
- `DenylistGate`: two accounts (rotation there and back), two hashes and a minimum
  delay of one within ledgers 0-2 (a proposal replaced when the first was ready,
  committed later), one subject, a batch limit of one, one other source and three
  log entries (an entry of the gate's, another's about the same subject, the
  gate's next one, with a refusal in between).
- `DenylistSignerSet`: three addresses, thresholds 0-3.
- `JurisdictionFlag`: two accounts, two subjects, three well-formed codes and a
  malformed one under a limit of two (an address can be full), batches of two,
  ledgers 0-2 (an expiry behind, at and ahead of the current ledger).
- `GatedTokens`: amounts -1, 0 and 1, and balances, allowances and self-transfer
  gains in the same range: the comparisons in the code are with an amount, so one
  step either side of zero is every case of them. Two accounts and one code swap
  around the breaker, three holders (one spends for another to the third), two
  allowances and two refusals by primitives at a time (both parties, or two
  primitives about one).
- `AllowlistToken`: two accounts that hand the role over, two subjects, two keys
  and one signed message, delays 0 and 1 against a minimum of one, ledgers 0-2.
  One message is enough: it is submitted before and after everything else
  happens, and again. Two keys are for the message whose key was replaced.
- `CompliancePolicies`: one contract of three kinds and lists of up to two
  checks give every pair in both orders, a check listed twice and a list at its
  limit; two addresses are the parties of a transfer and a batch at its limit.
  The 27 worlds combine a gate that passes both, refuses one or traps, a flag
  that passes both, refuses the other or fails with an error, and a breaker that
  is open, frozen or not initialized. An allowlist check behaves as a gate does
  (its call traps too), so its set is empty; the proofs cover any.
- `Indexer`: histories of four to six events over three ledgers, pages of two (a page
  ends inside a ledger; a poll takes several pages), one lag, one failed
  request, one death, one torn write, in every combination. Seven setups: four
  histories, which touch, overwrite and delete from each table and attach and
  detach jurisdictions; with and without `START_LEDGER` and `END_LEDGER`,
  including the end before the default start.

Bounds named in the modules' CONSTANTS appear in guards only (`MaxLedger`,
`MaxEntries`, `MaxHeight`, ...); nothing else is capped.

### Fairness

Only `Indexer` states fairness. `WF(Process)`: timers fire, and a request is
answered or fails. The first is the event loop; the second is an assumption, for
`fetch` is called without a timeout (`rpc.ts:63`). It includes `start`: some
supervisor runs the process again, as the README's container setup expects.
`WF(closeLedger)`: the network goes on. Nothing is assumed of faults, which are
bounded. `CHECK_DEADLOCK FALSE` is set there because an unreadable file does end
everything. The contracts have no fairness: nobody is obliged to call them.

## 4. Proofs

The proof modules prove every property of the passing runs but one, `CatchesUp`,
for any sets of accounts and addresses, any limits and any bounds. Each follows
one plan: an inductive invariant, the initial states, one step per action, and
the action properties from that invariant.

| Module | Inductive invariant | Why it is more than the property |
|---|---|---|
| `MultisigAdmin_proofs` | `TypeOK`, `QuorumReachable`, the proposal trail, paused only after set-up | `initialize` is not stopped by the pause |
| `DenylistGate_proofs` | `TypeOK`, `PendingIsCurrentAdmins`, `PendingAfterSetup`, `DueAfterReview`, `LogIsDense`, `TrailAgrees` | a pending upgrade is due a review window after `since`; nothing lies at or above the log's counter |
| `DenylistSignerSet_proofs` | `TypeOK`, `QuorumReachable`, stored approvals are the unspent ones | |
| `JurisdictionFlag_proofs` | `TypeOK`, `PendingIsCurrentIssuers`, `KeysAgree`, `PendingAfterSetup` | `initialize` does not clear a proposal, so there must be none before it |
| `GatedTokens_proofs` | `TypeOK`, `PendingIsCurrentAdmins`, `BeforeSetup` | before set-up there is no guardian, freeze or proposal |
| `AllowlistToken_proofs` | `TypeOK`, `PendingIsCurrentAdmins`, `UpgradeIsReviewed`, `PendingAfterSetup` | as for the gate |
| `CompliancePolicies_proofs` | `TypeOK`; for the engine alone, `EngineTypeOK` and operator and admin set together | |
| `Indexer_proofs` | `TypeOK`, `PollFits`, `DiskFits`, `MemFits`, `FileFits` | a page and its checkpoint are two writes, so the database in between must be described too (below) |

- *QuorumReachable* (`GovernanceNeverLocked`, `SignerSetNeverLocked`): its core is
  a counting lemma, a list without duplicates has as many distinct members as
  entries (`InjectiveListCount`), which is why `initialize` rejects duplicates.
- *PauseArmsNothing*: a paused contract changes neither signers nor threshold nor
  approvals, and a closing ledger only expires proposals.
- *ImplementsGovernance*: initial states map to initial states, every action to
  an abstract action or a stutter (`GovernanceStep`, `Refinement`), with
  `CheckAuthIsQuorum`: a signature list `__check_auth` accepts contains a
  threshold of distinct current signers.
- *ChangeSpendsApprovals*: the stored approvals are exactly the unspent ones
  (`StoredApprovalsAreUnspent`), so a change is paid for by a threshold of them.
- *UpgradeWasReviewed* (gate and allowlist): the pending upgrade's age is the age
  of *that* proposal, because every re-proposal restarts the window and
  everything else leaves it or removes it.
- *TrailAgrees*: `record` writes at the counter and the counter grows by one, so
  the gate's newest entry about a subject is the one its last recorded change
  wrote. Entries of other sources move the counter and are none of the gate's
  (`RecordByOthersSafe`): that rests on the host's authentication of the source,
  which the assumption that the gate is no other recorder states.
- *KeysAgree*, *ExpiredNeedsRenewal*, *FlagsUnderAuthority*: all writes go
  through `store_jurisdictions`, so what it does to the three keys is shown once
  and each entry point supplies the list and the expiry.
- *FreezeHolds*, *MovesAreAdmitted*, *GrantsAreAuthorized*: action properties,
  action by action.
- *SpendersPay*, *NothingOverdrawn*: `Takes` says what a call may do to balances
  in terms of its amount. `Moved` and `BurnTakes` show it of a transfer and of a
  burn for either sign, `Spent` what a charge does to the allowances, and
  `OwnersCall` and `SpendersCall` combine them. What is left of a balance or an
  allowance after it was compared with the amount is never negative, which is why
  no induction over earlier amounts is needed.
- *The engine.* `EvaluationMeans` says what an evaluation amounts to without the
  loop: under All the breaker and every check pass; under Any some check passes
  and all before it fail. It rests on the type invariant and on `HasFirst`, the
  well-foundedness of the indices. `AdmissionIsClearance` reads it off one
  state. `ReorderingIsSafe` and `ListIsMonotone` compare two states: which
  answers of the new list are answers of the old one (`SwapKeepsTheVerdict`,
  `AddIsMonotone`, `FewerIsMonotone`). Under Any only "fails" is independent of
  the order, which is why these properties speak of traps.
- *The indexer.* Its properties speak of databases, so the invariant does too:
  `Fits` says what a database holds of a history when the poll under way has
  applied the events `Done` - which are stored, of which the checkpoint claims
  none, over what the polls before it stored - and what each table cell shows:
  what the last of `Done` left there, or, if none of them writes it, what the
  checkpoint stands for, or something that an interrupted poll wrote past the
  checkpoint. `PollFits` ties `Done` to the locals of `poll()`: the events of its
  range up to the cursor and, once it has no page left, all of it but what a
  regression abandoned. `DiskFits` says that the file of a running process is
  what the process holds or the remains of a torn write, and `FileFits` that the
  file a stopped process left fits by itself. Three lemmas about databases alone
  carry the argument: a page (`PageFits`), a poll cut off (`CutOffFits`) and a
  checkpoint (`CheckpointFits`). The steps are instances of these, by what the
  operators return: a page is the first events of what there is, and all of it
  unless full (`PageIsAPrefix`); pages continue each other without a gap
  (`PageContinues`); a batch leaves in a cell what its last event that writes it
  does (`BatchLeaves`); the checkpoint covers what the poll applied
  (`IndexedThroughIs`). What the contracts hold is tied to that last: an address is
  listed when the last event that writes its row leaves one (`ListRow`), and a code
  is attached while no later event detaches it (`JurisdictionRow`). TLC found `IInv` to hold on
  `indexer_safety`'s instance before it was proved; a module that extends
  `MCIndexer` and `Indexer_proofs` repeats that.
- *Sums and folds.* The provers cannot instantiate the library's induction
  theorems. `SupplyAccounted` (a fold over the balances) and `BatchLeaves` (a
  recursive function over the batch) are proved by the least counterexample,
  which exists because `<` on the naturals is well-founded (`Least`).
  `SumChanges` then says what an update of one balance does to the sum, and
  `SupplyStep` goes through the actions.
- *Composition.* A contract inside another module still behaves as it does
  alone: the log under the gate (`LogRunsAlone`), the breaker under the tokens
  (`BreakerRunsAlone`), engine and aggregator (`EngineRunsAlone`,
  `AggregatorRunsAlone`). So what holds of the component's own specification
  holds of it there. Only the first has a call between contracts to account for.
- *The policies side by side.* `CheckAddressMeans` does for the aggregator what
  `EvaluationMeans` does for the engine. `EntryPointsAreOne` compares the three
  loops; `SiblingsAreOne` sets the two meanings side by side, for an engine
  whose list holds exactly the aggregator's checks.

Assumptions: the address sets are finite where something is counted, bounds are
naturals, the absent value is no proposal, check, account or entry, a world
answers every check and address, and a breaker answers all addresses alike. They
are ASSUMEs of the modules, and TLC evaluates them in every run.

`Indexer` also assumes what can be configured: a chain of events in ledger order
and an `END_LEDGER` not before its `START_LEDGER`. That an RPC node answers in
ledger order is the RPC service's promise; the second is the code's own check.

Only model-checked: `CatchesUp`, which is liveness under fairness and out of the
prover's reach.

## 5. Plan

Done, in this order: `MultisigAdmin` and its abstract specification,
`DenylistSignerSet`, `DenylistGate` with `AuditLog`, `Indexer`, the policies,
`JurisdictionFlag`, the tokens with the breaker, `AllowlistToken`; and the proofs
of all safety properties. Left:

1. **Overlapping polls**: the exported `pollOnce` beside the timer, or `stop` and
   `start` around an await. Nothing in the repository starts two polls, so this
   is about the module's interface, not about the program as it is run.
2. **One deployment**: the tokens over the real primitives instead of `clears`,
   with `multisig-admin` as the admin of each.
3. **The policies inside a transfer**: the breaker of `CircuitBreaker` and the
   flags of `JurisdictionFlag` as the worlds of `CompliancePolicies`.

## 6. Not modelled

Storage rent and archival (an archived instance answers nothing and changes
nothing, but `audit-log.list_entries` skips archived entries); events as such;
gas; overflow of an i128 in the tokens; byte-level decoding;
read-only views and queries; the indexer's decoder, query and health modules,
and `config.ts` except where it bounds what can be configured; the retry delays
and the classification of errors inside one RPC request. Of the files that do
not compile (section 2) only what their callers and comments settle is modelled.
The components listed as `not_modelled` in `PROJECT.json` have their reasons
there.

## 7. Running

    tlc -workers 2 -config MultisigAdmin_safety.cfg MCMultisigAdmin.tla
    tlapm MultisigAdmin_proofs.tla

A run's module and configuration are in `PROJECT.json`. The largest runs take
about two and a half minutes.
