\* Three holders: one may spend for another to the third. Two accounts around the
\* breaker. Amounts, balances and allowances one unit either side of zero, and up
\* to two refusals by the primitives at a time.
CONSTANTS
  Account = {a1, a2}
  Token = {"example", "rwa", "sep41"}
  Holder = {h1, h2, h3}
  None = None
  MaxAmount = 1
  MaxBalance = 1
  MaxGain = 1
  MaxAllowances = 2
  MaxRefusals = 2
  MaxUpgrades = 1
SPECIFICATION Spec
SYMMETRY Symmetry
INVARIANTS
  TypeOK
  PendingIsCurrentAdmins
  SupplyAccounted
PROPERTIES
  FreezeHolds
  MovesAreAdmitted
  SpendersPay
  NothingOverdrawn
