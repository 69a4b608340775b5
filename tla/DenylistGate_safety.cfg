\* Two accounts hand the admin role back and forth. A minimum delay of one ledger
\* out of three: a proposal made at ledger 0 can be replaced at ledger 1, where
\* the first would have been ready, and the new one be committed at ledger 2.
\* Three audit entries about one address, by the gate or by another source of the
\* same log: enough for an entry of the gate's to be followed by another's and by
\* the gate's next one, and for the log to refuse in between.
CONSTANTS
  Account = {a1, a2}
  Subject = {s1}
  Wasm = {w1, w2}
  None = None
  Gate = Gate
  Recorder = {other}
  OtherKind = {}
  Log = Log
  NotALog = NotALog
  MinDelay = 1
  MaxBatchSize = 1
  MaxDelay = 1
  MaxLedger = 2
  MaxEntries = 3
SPECIFICATION Spec
SYMMETRY Symmetry
INVARIANTS
  TypeOK
  PendingIsCurrentAdmins
  TrailAgrees
PROPERTIES
  UpgradeWasReviewed
  LogIsAppendOnly
