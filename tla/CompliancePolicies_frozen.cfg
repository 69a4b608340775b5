CONSTANTS
  gate = gate
  flag = flag
  breaker = breaker
  x1 = x1
  x2 = x2
  Address = {x1, x2}
  Denylist = {gate}
  Jurisdiction = {flag}
  Allowlist = {}
  CircuitBreaker = {breaker}
  World <- MCWorld
  None = None
  Account = {a1, a2}
  Wasm = {w1}
  MaxChecks = 2
  MaxDelay = 1
  MaxLedger = 1
  MaxBatchSize = 2
SPECIFICATION Spec
SYMMETRY Symmetry
INVARIANTS
  FrozenDeniesEverywhere
