SPECIFICATION FairSpec
CONSTANTS
  Submissions = {s1}
  Workers = {w1, w2}
  Concurrency = 1
  MaxAttempts = 3
  MaxStalled = 2
  EngineVerdicts = {"ACCEPTED", "WRONG_ANSWER"}
  Faults = {"engine", "finalize"}
  MaxFaults = 1
  NoSlot = NoSlot
  NoSubmission = NoSubmission
  NoWorker = NoWorker
PROPERTY FailedAttemptDecided
CHECK_DEADLOCK FALSE
