------------------------------- MODULE Indexer -------------------------------
(***************************************************************************)
(* tools/indexer: a process that polls a Soroban RPC node for contract     *)
(* events, applies them to a database held in memory (sql.js) and writes   *)
(* the whole database file after each batch and each checkpoint.           *)
(*                                                                         *)
(* An action is what the process does between two awaits; the node and the *)
(* file system answer it: replies come from a node that may lag, a request *)
(* may fail, a file write may be cut short, the process may die anywhere.  *)
(*                                                                         *)
(* Abstracted: XDR decoding (every event decodes), the columns of a row, a *)
(* contract id (one contract per table), the retries inside one request,   *)
(* health and query, which only read. A row count stands for the events    *)
(* row and, for a ComplianceEvent, its audit_log row: one transaction      *)
(* inserts both. Blocked stands for every kind that is only stored (Frozen,*)
(* AdminSet, PolicyResult, SignerAdd, ...). setTimeout and RPC delays are  *)
(* steps that may come late.                                               *)
(*                                                                         *)
(* What the contracts hold is defined from their own rules (Listed,        *)
(* Attached), not from the indexer's.                                      *)
(***************************************************************************)
EXTENDS Integers, Sequences, FiniteSetsExt

CONSTANTS
  Address,      \* the subjects of events
  Code,         \* jurisdiction codes
  Setup,        \* what may be configured and emitted: [chain, start, end]
  PageLimit,    \* events in a full page (200 in the code)
  Retention,    \* ledgers assumed available at a first start (17280)
  MaxHeight,    \* bound: ledgers the network closes
  MaxLag,       \* bound: replies from a node behind the network
  MaxErrors,    \* bound: requests that fail
  MaxCrashes,   \* bound: the times the process goes down
  MaxTorn       \* bound: file writes that are cut short

Kind == {"AllowAdd", "AllowRemove", "DenyAdd", "DenyRemove",
         "JurisdictionSet", "JurisdictionRemoved", "JurisdictionExpired",
         "ComplianceEvent", "Blocked"}

\* code and whole are the call's: a JurisdictionSet that replaces the address's
\* codes (set_jurisdiction) or adds to them, a JurisdictionRemoved that clears
\* them (remove_jurisdiction_multiple) or takes one away. An event on the chain
\* has no whole, and only a JurisdictionSet has the code.
Event == [ledger : 1..MaxHeight, kind : Kind, addr : Address, code : Code, whole : BOOLEAN]

\* Events arrive in ledger order; an END_LEDGER is not before its START_LEDGER.
ASSUME SetupAssumption ==
  \A s \in Setup :
    /\ s.chain \in Seq(Event)
    /\ \A i, j \in DOMAIN s.chain : i < j => s.chain[i].ledger <= s.chain[j].ledger
    /\ s.start \in Nat /\ s.end \in Nat
    /\ s.start > 0 /\ s.end > 0 => s.start <= s.end

\* A code is two upper-case letters, never the mark of a missing row.
ASSUME CodeAssumption == "absent" \notin Code

ASSUME BoundAssumption ==
  /\ PageLimit \in Nat \ {0} /\ Retention \in Nat /\ MaxHeight \in Nat \ {0}
  /\ MaxLag \in Nat /\ MaxErrors \in Nat /\ MaxCrashes \in Nat /\ MaxTorn \in Nat

VARIABLES
  setup,        \* the configuration and the events the contracts emit
  height,       \* the last ledger the network closed
  pc,           \* where the process is: down, between polls, or at an await
  poll,         \* the locals of poll()
  mem,          \* the database the process holds
  disk,         \* what the database file holds
  used,         \* how much of each bound the environment has used
  abandoned,    \* history: events on the pages a regression left unfetched
  interrupted   \* history: polls that ended early after storing a page

vars == <<setup, height, pc, poll, mem, disk, used, abandoned, interrupted>>

Table == {"allowlist", "denylist", "jurisdictions"}
Absent == "absent"
Present == "present"
EventId == 1..Len(setup.chain)

\* origin is history: the ledger the first checkpoint was counted from.
EmptyDb == [last |-> 0, origin |-> 0, rows |-> [i \in EventId |-> 0],
            view |-> [k \in Table \X Address |-> Absent]]
Unreadable == [last |-> -1, origin |-> 0, rows |-> [i \in EventId |-> 0],
               view |-> [k \in Table \X Address |-> Absent]]
NoPoll == [last |-> 0, start |-> 0, target |-> 0, cursor |-> 0, horizon |-> 0]

Awaiting == pc \in {"earliest", "latest", "page"}

-----------------------------------------------------------------------------
(* What the node answers. *)

\* The replies of a node whose last ledger is h: the network's, or one behind.
Answers(h) ==
  /\ h \in 1..height
  /\ \/ h = height /\ used' = used
     \/ h < height /\ used.lag < MaxLag /\ used' = [used EXCEPT !.lag = @ + 1]

\* getEvents: at most PageLimit events from ledger start on, after cursor.
Page(start, cursor, h) ==
  LET Found == {i \in EventId : i > cursor /\ setup.chain[i].ledger \in start..h}
  IN  {i \in Found : Cardinality({j \in Found : j < i}) < PageLimit}

-----------------------------------------------------------------------------
(* The database. *)

\* The table an event kind is materialised in, if any.
TableOf(kind) ==
  CASE kind \in {"AllowAdd", "AllowRemove"} -> "allowlist"
    [] kind \in {"DenyAdd", "DenyRemove"} -> "denylist"
    [] kind = "JurisdictionSet" -> "jurisdictions"
    [] OTHER -> "none"

RowLeft(e) ==
  CASE e.kind \in {"AllowRemove", "DenyRemove"} -> Absent
    [] e.kind = "JurisdictionSet" -> e.code
    [] OTHER -> Present

\* Variant: an existing jurisdiction row is kept (INSERT OR IGNORE).
updateState_Ignore(view, e) ==
  [k \in Table \X Address |->
     IF k = <<TableOf(e.kind), e.addr>> /\ (view[k] = Absent \/ RowLeft(e) = Absent)
       THEN RowLeft(e) ELSE view[k]]

\* Insert-or-ignore, delete and upsert all leave the event's own row behind.
updateState(view, e) ==
  [k \in Table \X Address |->
     IF k = <<TableOf(e.kind), e.addr>> THEN RowLeft(e) ELSE view[k]]

\* The tables after the events ids, in their order.
Materialised(view, ids) ==
  LET After[n \in 0..Len(setup.chain)] ==
        IF n = 0 THEN view
        ELSE IF n \in ids THEN updateState(After[n - 1], setup.chain[n])
        ELSE After[n - 1]
  IN  After[Len(setup.chain)]

\* One transaction: every event of the batch is stored and materialised.
applyEvents(db, ids) ==
  [db EXCEPT !.rows = [i \in EventId |-> IF i \in ids THEN @[i] + 1 ELSE @[i]],
             !.view = Materialised(@, ids)]

\* Variant: the write is left for later.
flush_Deferred(db, done) ==
  IF done THEN disk' = disk ELSE disk' \in {EmptyDb, Unreadable}

\* flush: the file is truncated, then written; done tells whether it was.
\* A write cut short leaves an empty file, which opens as an empty database,
\* or a part of one, which does not open.
flush(db, done) ==
  IF done THEN disk' = db ELSE disk' \in {EmptyDb, Unreadable}

MayTear(done) == done \/ used.torn < MaxTorn
Tear(done) == used' = IF done THEN used ELSE [used EXCEPT !.torn = @ + 1]

-----------------------------------------------------------------------------
(* The environment. *)

Init ==
  /\ setup \in Setup
  /\ height = 1
  /\ pc = "down"
  /\ poll = NoPoll
  /\ mem = EmptyDb
  /\ disk = EmptyDb
  /\ used = [lag |-> 0, error |-> 0, crash |-> 0, torn |-> 0]
  /\ abandoned = {}
  /\ interrupted = 0

closeLedger ==
  /\ height < MaxHeight
  /\ height' = height + 1
  /\ UNCHANGED <<setup, pc, poll, mem, disk, used, abandoned, interrupted>>

\* A poll that ends before its checkpoint has stored rows it will meet again.
Interrupt ==
  interrupted' = IF \E i \in EventId : mem.rows[i] > 0
                                    /\ setup.chain[i].ledger >= poll.start
                 THEN interrupted + 1 ELSE interrupted

\* The process is killed; a kill may fall between any two file writes.
crash ==
  /\ pc # "down" /\ used.crash < MaxCrashes
  /\ pc' = "down"
  /\ mem' = EmptyDb
  /\ poll' = NoPoll
  /\ used' = [used EXCEPT !.crash = @ + 1]
  /\ IF pc \in {"page", "save"} THEN Interrupt ELSE UNCHANGED interrupted
  /\ UNCHANGED <<setup, height, disk, abandoned>>

\* SIGINT or SIGTERM: stop, db.close (a last flush), process.exit. Signal
\* handlers run between turns of the event loop, so never at "save".
shutdown(done) ==
  /\ pc \notin {"down", "save"} /\ used.crash < MaxCrashes /\ MayTear(done)
  /\ pc' = "down"
  /\ flush(mem, done)
  /\ mem' = EmptyDb
  /\ poll' = NoPoll
  /\ used' = [used EXCEPT !.crash = @ + 1, !.torn = IF done THEN @ ELSE @ + 1]
  /\ IF pc = "page" THEN Interrupt ELSE UNCHANGED interrupted
  /\ UNCHANGED <<setup, height, abandoned>>

-----------------------------------------------------------------------------
(* The process. *)

\* main: open the file if there is one, migrate (which flushes), start. A file
\* that is no database stops main, and so does a flush that fails.
start(done) ==
  /\ pc = "down" /\ disk # Unreadable /\ MayTear(done)
  /\ flush(disk, done)
  /\ Tear(done)
  /\ IF done THEN pc' = "idle" /\ mem' = disk ELSE UNCHANGED <<pc, mem>>
  /\ UNCHANGED <<setup, height, poll, abandoned, interrupted>>

\* Variant: the checkpoint's own ledger is fetched again.
ResumeFrom_Checkpoint == IF mem.last > 0 THEN mem.last ELSE setup.start

ResumeFrom == IF mem.last > 0 THEN mem.last + 1 ELSE setup.start

BeginAt(ledger) ==
  [last |-> mem.last, start |-> ledger, target |-> 0, cursor |-> 0, horizon |-> 0]

\* tick: read the checkpoint and choose where to begin.
tick ==
  /\ pc = "idle"
  /\ poll' = BeginAt(ResumeFrom)
  /\ pc' = IF ResumeFrom > 0 THEN "latest" ELSE "earliest"
  /\ UNCHANGED <<setup, height, mem, disk, used, abandoned, interrupted>>

getEarliestAvailableLedger(h) ==
  /\ pc = "earliest" /\ Answers(h)
  /\ poll' = BeginAt(Max({1, h - Retention}))
  /\ pc' = "latest"
  /\ UNCHANGED <<setup, height, mem, disk, abandoned, interrupted>>

\* The latest ledger is known: the range to fetch, if there is one.
getLatestLedger(h) ==
  /\ pc = "latest" /\ Answers(h)
  /\ LET target == IF setup.end > 0 THEN Min({h, setup.end}) ELSE h
         complete == setup.end > 0 /\ poll.last >= setup.end
     IN  IF complete \/ poll.start > target
           THEN /\ pc' = IF complete THEN "stopped" ELSE "idle"
                /\ poll' = NoPoll
           ELSE /\ pc' = "page"
                /\ poll' = [poll EXCEPT !.target = target]
  /\ UNCHANGED <<setup, height, mem, disk, abandoned, interrupted>>

\* Variant: only a poll that succeeded schedules the next one.
requestFails_Unscheduled ==
  /\ Awaiting /\ used.error < MaxErrors
  /\ used' = [used EXCEPT !.error = @ + 1]
  /\ pc' = "stopped"
  /\ poll' = NoPoll
  /\ IF pc = "page" THEN Interrupt ELSE UNCHANGED interrupted
  /\ UNCHANGED <<setup, height, mem, disk, abandoned>>

\* A request failed through all its retries: the poll is over, a new one is
\* scheduled.
requestFails ==
  /\ Awaiting /\ used.error < MaxErrors
  /\ used' = [used EXCEPT !.error = @ + 1]
  /\ pc' = "idle"
  /\ poll' = NoPoll
  /\ IF pc = "page" THEN Interrupt ELSE UNCHANGED interrupted
  /\ UNCHANGED <<setup, height, mem, disk, abandoned>>

\* The node is behind the checkpoint: the poll returns, the checkpoint stays.
regressBelowCheckpoint(h) ==
  /\ pc = "page" /\ Answers(h)
  /\ h < poll.last
  /\ pc' = "idle"
  /\ poll' = NoPoll
  /\ Interrupt
  /\ UNCHANGED <<setup, height, mem, disk, abandoned>>

\* The node is behind the previous page's: the loop breaks, the events of the
\* pages still to come stay where they are.
regressBetweenPages(h) ==
  /\ pc = "page" /\ Answers(h)
  /\ h >= poll.last /\ h < poll.horizon
  /\ pc' = "save"
  /\ abandoned' = abandoned \cup
       {i \in EventId : i > poll.cursor /\ setup.chain[i].ledger \in poll.start..poll.horizon}
  /\ UNCHANGED <<setup, height, poll, mem, disk, interrupted>>

PageIsUsable(h) == h >= poll.last /\ h >= poll.horizon

\* The fetched events the poll keeps.
InRange(ids, h) ==
  {i \in ids : setup.chain[i].ledger \in poll.start..Min({poll.target, h})}

\* A page is applied and written; then the next page, or the checkpoint.
\* A write that fails leaves the page in memory and ends the poll.
getEvents(h, done) ==
  /\ pc = "page" /\ h \in 1..height /\ PageIsUsable(h)
  /\ LET fetched == Page(poll.start, poll.cursor, h)
         kept == InRange(fetched, h)
         more == /\ Cardinality(fetched) = PageLimit
                 /\ ~(setup.end > 0 /\ \E i \in fetched : setup.chain[i].ledger > poll.target)
     IN  /\ IF kept = {}
              THEN done /\ Answers(h) /\ UNCHANGED <<mem, disk>>
              ELSE /\ mem' = applyEvents(mem, kept)
                   /\ flush(mem', done)
                   /\ IF done THEN Answers(h) ELSE MayTear(done) /\ h = height /\ Tear(done)
         /\ IF done
              THEN /\ pc' = IF more THEN "page" ELSE "save"
                   /\ poll' = [poll EXCEPT !.horizon = h,
                                           !.cursor = IF more THEN Max(fetched) ELSE 0]
                   /\ UNCHANGED interrupted
              ELSE pc' = "idle" /\ poll' = NoPoll /\ interrupted' = interrupted + 1
  /\ UNCHANGED <<setup, height, abandoned>>

\* Variant: the checkpoint follows the latest ledger, not the events' horizon.
IndexedThrough_Target == poll.target

IndexedThrough ==
  IF poll.horizon < poll.start THEN poll.last ELSE Min({poll.target, poll.horizon})

\* The checkpoint, in a file write of its own.
setLastIndexedLedger(done) ==
  /\ pc = "save" /\ MayTear(done)
  /\ IF IndexedThrough > poll.last
       THEN /\ mem' = [mem EXCEPT !.last = IndexedThrough,
                         !.origin = IF poll.last = 0 THEN poll.start ELSE @]
            /\ flush(mem', done)
       ELSE done /\ UNCHANGED <<mem, disk>>
  /\ Tear(done)
  /\ pc' = IF done /\ setup.end > 0 /\ IndexedThrough >= setup.end
             THEN "stopped" ELSE "idle"
  /\ poll' = NoPoll
  /\ UNCHANGED <<setup, height, abandoned, interrupted>>

Process ==
  \/ \E done \in BOOLEAN : start(done) \/ setLastIndexedLedger(done)
  \/ tick
  \/ \E h \in 1..MaxHeight :
       \/ getEarliestAvailableLedger(h)
       \/ getLatestLedger(h)
       \/ regressBelowCheckpoint(h)
       \/ regressBetweenPages(h)
       \/ \E done \in BOOLEAN : getEvents(h, done)

Environment ==
  \/ closeLedger
  \/ requestFails
  \/ crash
  \/ \E done \in BOOLEAN : shutdown(done)

Next == Process \/ Environment

\* Timers fire, a supervisor restarts the process, and every request is
\* answered or fails; nothing obliges the environment to err.
Spec == Init /\ [][Next]_vars /\ WF_vars(Process) /\ WF_vars(closeLedger)

-----------------------------------------------------------------------------
(* Properties. *)

Db == [last : -1..MaxHeight, origin : 0..MaxHeight, rows : [EventId -> Nat],
       view : [Table \X Address -> Code \cup {Absent, Present}]]

\* The variables keep their types, and the process holds what is on disk
\* until a write is cut short: no step of it forgets to flush.
TypeOK ==
  /\ setup \in Setup
  /\ height \in 1..MaxHeight
  /\ pc \in {"down", "idle", "earliest", "latest", "page", "save", "stopped"}
  /\ poll \in [last : 0..MaxHeight, start : Nat, target : 0..MaxHeight,
               cursor : 0..Len(setup.chain), horizon : 0..MaxHeight]
  /\ mem \in Db /\ disk \in Db
  /\ used \in [lag : 0..MaxLag, error : 0..MaxErrors,
               crash : 0..MaxCrashes, torn : 0..MaxTorn]
  /\ abandoned \subseteq EventId
  /\ interrupted \in Nat
  /\ pc # "down" /\ used.torn = 0 => mem = disk

\* The events a database claims to have indexed: from where it began, to its
\* checkpoint.
Claimed(db) == {i \in EventId : setup.chain[i].ledger \in db.origin..db.last}

\* The checkpoint written last, in memory or on disk, never covers an event
\* that was not stored, whatever lags, fails or crashes in between: except the
\* pages left behind when the node regresses in the middle of a pagination
\* (poll, applyEvents and setLastIndexedLedger are separate file writes).
OnlyRegressionSkips ==
  \A db \in {mem, disk} : \A i \in Claimed(db) : db.rows[i] > 0 \/ i \in abandoned

\* As the README has it: a regression leaves the last covered checkpoint, so
\* an event at or below the checkpoint is in the database.
NothingSkipped == \A i \in Claimed(mem) : mem.rows[i] > 0

\* An event is stored again only by a poll that repeats one that was cut off
\* after a page: the events table has no unique key, so each cut-off poll may
\* add one row of every event it had stored, and nothing else adds any.
DuplicatesNeedARetry ==
  \A db \in {mem, disk} : \A i \in EventId : db.rows[i] <= 1 + interrupted

-----------------------------------------------------------------------------
(* What the contracts hold. *)

Emitted(origin, ledger) == {i \in EventId : setup.chain[i].ledger \in origin..ledger}

About(kind, a, ids) == {i \in ids : setup.chain[i].kind = kind /\ setup.chain[i].addr = a}

\* A list has an entry for a when a was added and not removed since.
Listed(add, remove, a, ids) ==
  \E i \in About(add, a, ids) : \A j \in About(remove, a, ids) : j < i

\* A set that replaces, a removal of every code, a removal of this one.
Detaches(i, code) ==
  LET e == setup.chain[i]
  IN  \/ e.kind \in {"JurisdictionSet", "JurisdictionRemoved"} /\ e.whole
      \/ e.kind = "JurisdictionRemoved" /\ e.code = code

\* The codes stored for a: set or added, and not detached since.
Attached(a, ids) ==
  {code \in Code : \E i \in About("JurisdictionSet", a, ids) :
     /\ setup.chain[i].code = code
     /\ \A j \in ids : j > i /\ setup.chain[j].addr = a => ~Detaches(j, code)}

\* Nothing is stored past the checkpoint, and nothing was abandoned.
Settled(db) ==
  /\ db.last > 0 /\ abandoned = {}
  /\ \A i \in EventId : db.rows[i] > 0 => i \in Claimed(db)

\* The allowlist and denylist tables of a settled database have a row exactly
\* for the addresses that have an entry in the contract at that ledger (by the
\* events since the first ledger indexed), although retries replay old events
\* over newer rows (applyEvents of a repeated page).
\* The jurisdictions table has a row exactly for the addresses that were ever
\* set, and its code is one the contract stores for the address, unless a removal
\* came after the last set: updateState has no case for it, nor for an expiry,
\* which leaves the codes stored and no longer listed.
TablesMirrorTheChain ==
  \A db \in {mem, disk} : Settled(db) =>
    LET ids == Emitted(db.origin, db.last)
    IN  \A a \in Address :
          /\ db.view[<<"allowlist", a>>] =
               IF Listed("AllowAdd", "AllowRemove", a, ids) THEN Present ELSE Absent
          /\ db.view[<<"denylist", a>>] =
               IF Listed("DenyAdd", "DenyRemove", a, ids) THEN Present ELSE Absent
          /\ db.view[<<"jurisdictions", a>>] = Absent <=>
               About("JurisdictionSet", a, ids) = {}
          /\ \/ db.view[<<"jurisdictions", a>>] \in Attached(a, ids) \cup {Absent}
             \/ \E i \in About("JurisdictionRemoved", a, ids) :
                  \A j \in About("JurisdictionSet", a, ids) : j < i

-----------------------------------------------------------------------------
Goal == IF setup.end > 0 THEN Min({setup.end, MaxHeight}) ELSE MaxHeight

\* The checkpoint reaches the network's last ledger (or END_LEDGER) and stays
\* there, through lags, failed requests and restarts, unless the file became
\* unreadable; an END_LEDGER must come with a START_LEDGER, because the
\* default start may lie past it and the backfill then never ends.
CatchesUp ==
  <>[](\/ disk = Unreadable
       \/ setup.start = 0 /\ setup.end > 0
       \/ mem.last >= Goal)
=============================================================================
