\* One probe, two signals and three outages, with the embedded worker.
CONSTANTS
  Probes = {r1}
  Signals = {int, term}
  Embedded = TRUE
  MaxOutages = 3
SPECIFICATION ProcessSpec
INVARIANTS ProcessInv
PROPERTIES EverythingEnds
CHECK_DEADLOCK FALSE
