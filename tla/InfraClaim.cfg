\* One failure of the platform that a comment calls retriable.
SPECIFICATION Spec
CONSTANTS
  MaxTests = 1
  Faults = {"spawn", "daemon", "disk"}
  MaxFaults = 1
INVARIANT PlatformFailureIsRetried
CHECK_DEADLOCK FALSE
