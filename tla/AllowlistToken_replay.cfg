\* A message is accepted twice, with nothing else than the delegated path.
CONSTANTS
  Account = {a1, a2}
  Subject = {s1, s2}
  Key = {k1, k2}
  None = None
  Forever = Forever
  MaxBatchSize = 2
  MinDelay = 1
  Delay = {0, 1}
  MaxLedger = 2
  MaxNonce = 1
  MaxSigned = 1
  MaxUpgrades = 1
SPECIFICATION Spec
SYMMETRY Symmetry
INVARIANT NoncesIncrease
