\* Two accounts that hand the admin role over, two keys of which one signs, a
\* review window of one ledger.
CONSTANTS
  Account = {a1, a2}
  Subject = {s1, s2}
  Key = {k1, k2}
  None = None
  Forever = Forever
  MaxBatchSize = 2
  MinDelay = 1
  Delay = {0, 1}
  MaxLedger = 2
  MaxNonce = 1
  MaxSigned = 1
  MaxUpgrades = 1
SPECIFICATION Spec
SYMMETRY Symmetry
INVARIANTS
  TypeOK
  PendingIsCurrentAdmins
PROPERTIES
  GrantsAreAuthorized
  UpgradeWasReviewed
