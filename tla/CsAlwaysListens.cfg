SPECIFICATION FairSpec
CONSTANTS
  NoClient = NoClient
  Clients = {c1}
  CommTypes = {"tag"}
  NumIterations = 2
  Rndvs = {FALSE}
  MayCrash = TRUE
PROPERTY AlwaysListens
\* The server waits for clients that may all be gone.
CHECK_DEADLOCK FALSE
