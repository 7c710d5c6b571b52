\* Three requests of one user, a limit of one per window of three ticks, and one
\* fault.
CONSTANTS
  Requests = {r1, r2, r3}
  Limit = 1
  Window = 3
  MaxFaults = 1
SPECIFICATION FairSpec
INVARIANTS LimiterInv LimitPerLife BurstBound RefusedOnlyBeyondLimit
PROPERTIES RefusalEnds
