\* Two concurrent requests on any route, and one failure.
CONSTANTS
  admin = admin
  alice = alice
  p1 = p1
  t1 = t1
  s1 = s1
  ea = ea
  na = na
  None = None
  Requests = {r1, r2}
  Emails = {ea, eb}
  Names = {na, nb}
  OldProblems = {p1}
  MaxFaults = 1
  Seeds <- MCSeeds
  OldTests <- MCTests
  OldSubs <- MCSubs
  Ops <- Routes
SPECIFICATION Spec
INVARIANTS Consistent FailureLeavesNothing AcknowledgedIsQueued
           SubmittedWhilePublished AcknowledgedIsSeen
CHECK_DEADLOCK FALSE
