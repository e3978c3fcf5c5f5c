SPECIFICATION FairSpec
CONSTANTS
  TestModes <- AllTestModes
  FailureModes <- AllFailureModes
  Rndvs = {TRUE, FALSE}
  Faults = {TRUE, FALSE}
INVARIANTS TypeOK NoLostWakeup RemoteDisconnected ZeroMeansDelivered
PROPERTIES SurvivorEnds BothEndWell
\* Both processes end; a server waits for a client that never comes.
CHECK_DEADLOCK FALSE
