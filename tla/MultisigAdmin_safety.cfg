\* Three addresses: enough for a signer to be removed, replaced and re-added
\* around a quorum of two. Two proposals, two ledgers to expire over.
CONSTANTS
  Address = {a1, a2, a3}
  Wasm = {w1, w2}
  NoProposal = NoProposal
  MaxLedger = 2
  MaxProposals = 2
  MaxList = 3
SYMMETRY Symmetry
SPECIFICATION Spec
INVARIANTS
  TypeOK
  QuorumReachable
  ExecutedOnce
PROPERTIES
  PauseArmsNothing
  ImplementsGovernance
