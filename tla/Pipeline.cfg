SPECIFICATION CausesSpec
CONSTANTS
  Submissions = {s1, s2}
  Workers = {w1, w2}
  Concurrency = 1
  MaxAttempts = 2
  MaxStalled = 1
  EngineVerdicts = {"ACCEPTED", "WRONG_ANSWER"}
  Faults = {"enqueue", "load", "claim", "claimAck", "engine", "finalize", "finalizeAck", "quarantine", "mark", "lock", "crash", "shutdown"}
  MaxFaults = 3
  NoSlot = NoSlot
  NoSubmission = NoSubmission
  NoWorker = NoWorker
INVARIANTS IndInv SingleEvaluation CompletedWasClaimed QuarantineOnlyExhausted RetriesBounded NothingForgotten
PROPERTIES VerdictFinal UndecidedHasCause JobsFinish ImplementsLifecycle
CHECK_DEADLOCK FALSE
