\* Jumps between two problems, two submissions, two polls each, one failure.
CONSTANTS
  Problems = {p, q}
  MaxAttempts = 2
  MaxVisits = 3
  MaxSubs = 2
  MaxFaults = 1
  None = None
SPECIFICATION Spec
INVARIANTS PageInv MismatchHasCause
PROPERTIES NeverRegresses PollingEnds
CHECK_DEADLOCK FALSE
