\* Three requests at once on one transaction.
SPECIFICATION Spec
CONSTANTS
  None = None
  Txs = {t1}
  Categories = {c1}
  Tags = {"action_req"}
  Requests = {r1, r2, r3}
SYMMETRY Symmetry
INVARIANTS
  AcknowledgedStays
  ScreeningIsCurrent
