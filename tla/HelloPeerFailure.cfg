SPECIFICATION FairSpec
CONSTANTS
  TestModes <- AllTestModes
  FailureModes <- AllFailureModes
  Rndvs = {TRUE, FALSE}
  Faults = {FALSE}
INVARIANTS FailureTestSucceeds
CHECK_DEADLOCK FALSE
