\* A node that regresses in the middle of a pagination.
SPECIFICATION Spec
CONSTANTS
  Address = {"x", "y"}
  Code = {"US", "DE"}
  Setup <- MCSetup
  PageLimit = 2
  Retention = 1
  MaxHeight = 3
  MaxLag = 1
  MaxErrors = 1
  MaxCrashes = 1
  MaxTorn = 1
INVARIANTS
  NothingSkipped
\* A database file that cannot be opened keeps the process from starting.
CHECK_DEADLOCK FALSE
