SPECIFICATION FairSpec
CONSTANTS
  Problems = {p1}
  ListKeys = {l1}
  Readers = {r1, r2}
  Admins = {a1, a2}
  Faults = {"get", "set", "del", "crash", "outage"}
  MaxFaults = 1
  MaxWrites = 3
  None = None
INVARIANTS TypeOK StaleHasCause
PROPERTIES EventuallyFresh WithdrawnFades
CHECK_DEADLOCK FALSE
