SPECIFICATION FairSpec
CONSTANTS
  MaxTests = 2
  Faults = {"mkdir", "disk", "spawn", "daemon", "rm", "rmdir"}
  MaxFaults = 2
INVARIANTS EngineInv OneContainerAtATime DirectoryRemoved
PROPERTIES ImplementsJudge ContainersRemoved EvaluationEnds
CHECK_DEADLOCK FALSE
