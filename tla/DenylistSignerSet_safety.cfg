\* Three addresses: a set of three whose quorum of two removes, re-adds and
\* re-weighs itself while approvals of other changes are pending.
CONSTANTS
  Address = {a1, a2, a3}
  MaxList = 3
SPECIFICATION Spec
SYMMETRY Symmetry
INVARIANTS
  TypeOK
  QuorumReachable
PROPERTIES
  ChangeSpendsApprovals
