\* Workers that are killed, once more often than a job may stall.
SPECIFICATION FairSpec
CONSTANTS
  Submissions = {s1}
  Workers = {w1, w2}
  Concurrency = 1
  MaxAttempts = 3
  MaxStalled = 2
  EngineVerdicts = {"ACCEPTED", "WRONG_ANSWER"}
  Faults = {"crash"}
  MaxFaults = 3
  NoSlot = NoSlot
  NoSubmission = NoSubmission
  NoWorker = NoWorker
PROPERTY StalledJobKept
CHECK_DEADLOCK FALSE
