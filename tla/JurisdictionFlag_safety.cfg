\* Three codes under a limit of two: an address can be full. An expiry can lie
\* behind, at and ahead of the current ledger.
CONSTANTS
  Account = {a1, a2}
  Subject = {s1, s2}
  Code = {us, gb, fr, malformed}
  WellFormed = {us, gb, fr}
  None = None
  MaxCodes = 2
  MaxBatchSize = 2
  MaxLedger = 2
SPECIFICATION Spec
SYMMETRY Symmetry
INVARIANTS
  TypeOK
  PendingIsCurrentIssuers
  KeysAgree
PROPERTIES
  ExpiredNeedsRenewal
  FlagsUnderAuthority
