------------------------------- MODULE AuditLog -------------------------------
(***************************************************************************)
(* contracts/audit-log: an append-only trail of compliance events, written *)
(* by any source that authorizes its own entry and paused by its admin.    *)
(* Storage is the contract's: a counter and one entry per index, so that   *)
(* "append-only" is a property of record and not of a sequence type.       *)
(*                                                                         *)
(* Abstracted: the detail string (its length is one bit, whether it fits   *)
(* MAX_DETAIL_LEN), the ledger stamp, TTL extension, events.               *)
(***************************************************************************)
EXTENDS Integers

CONSTANTS
  Account,      \* who may administer the log
  Source,       \* who may write entries
  Kind,         \* event kinds
  Subject,      \* the addresses entries are about
  Code,         \* WASM hashes the log may be upgraded to
  None,         \* an absent storage entry
  MaxEntries    \* bound: how many entries a behaviour records

VARIABLES
  logAdmin,     \* DataKey::Admin
  logPaused,    \* the flag of the pausable crate
  entryCount,   \* DataKey::EntryCount
  entry,        \* DataKey::Entry(index)
  logCode       \* the code the instance runs

logVars == <<logAdmin, logPaused, entryCount, entry, logCode>>

Index == 0..(MaxEntries - 1)
LogEntry == [source : Source, kind : Kind, subject : Subject]

LogTypeOK ==
  /\ logAdmin \in Account \cup {None}
  /\ logPaused \in BOOLEAN
  /\ entryCount \in 0..MaxEntries
  /\ entry \in [Index -> LogEntry \cup {None}]
  /\ logCode \in Code

Init ==
  /\ logAdmin = None
  /\ logPaused = FALSE
  /\ entryCount = 0
  /\ entry = [i \in Index |-> None]
  /\ logCode \in Code

\* Variant, not in Next: a second initialize is not refused.
initialize_Again(a) ==
  /\ logAdmin' = a
  /\ entryCount' = 0
  /\ UNCHANGED <<logPaused, entry, logCode>>

initialize(a) ==
  /\ logAdmin = None
  /\ logAdmin' = a
  /\ entryCount' = 0
  /\ UNCHANGED <<logPaused, entry, logCode>>

\* require_admin(a): a authorized the call and is the stored admin.
pause(a) ==
  /\ a = logAdmin
  /\ logPaused' = TRUE
  /\ UNCHANGED <<logAdmin, entryCount, entry, logCode>>

unpause(a) ==
  /\ a = logAdmin
  /\ logPaused' = FALSE
  /\ UNCHANGED <<logAdmin, entryCount, entry, logCode>>

upgrade(a, hash) ==
  /\ a = logAdmin
  /\ logCode' = hash
  /\ UNCHANGED <<logAdmin, logPaused, entryCount, entry>>

\* The calls of record that return Ok: the source's authorization apart.
Accepts(fits) == ~logPaused /\ logAdmin # None /\ fits

\* Variant: the counter is not advanced.
record_Uncounted(source, kind, subject, fits) ==
  /\ Accepts(fits)
  /\ entryCount < MaxEntries
  /\ entry' = [entry EXCEPT ![entryCount] =
                 [source |-> source, kind |-> kind, subject |-> subject]]
  /\ UNCHANGED <<logAdmin, logPaused, entryCount, logCode>>

\* record: source authorized the call; fits tells whether detail does.
record(source, kind, subject, fits) ==
  /\ Accepts(fits)
  /\ entryCount < MaxEntries
  /\ entry' = [entry EXCEPT ![entryCount] =
                 [source |-> source, kind |-> kind, subject |-> subject]]
  /\ entryCount' = entryCount + 1
  /\ UNCHANGED <<logAdmin, logPaused, logCode>>

Administer ==
  \E a \in Account :
    \/ initialize(a)
    \/ pause(a)
    \/ unpause(a)
    \/ \E hash \in Code : upgrade(a, hash)

Next ==
  \/ Administer
  \/ \E src \in Source, k \in Kind, s \in Subject, fits \in BOOLEAN :
       record(src, k, s, fits)

Spec == Init /\ [][Next]_logVars

-----------------------------------------------------------------------------
\* An entry that was counted is never rewritten or dropped, and the counter
\* never goes back: what a reader has seen of the log stays in it.
AppendStep ==
  /\ entryCount <= entryCount'
  /\ \A i \in Index : i < entryCount => entry'[i] = entry[i]
AppendOnly == [][AppendStep]_logVars
=============================================================================
