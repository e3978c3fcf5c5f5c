SPECIFICATION FairSpec
CONSTANTS
  NoClient = NoClient
  Clients = {c1}
  CommTypes = {"am"}
  NumIterations = 1
  Rndvs = {FALSE}
  MayCrash = FALSE
PROPERTY FinIsReceived
\* The server waits for clients that may all be gone.
CHECK_DEADLOCK FALSE
