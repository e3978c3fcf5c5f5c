SPECIFICATION FairSpec
CONSTANTS
  NoClient = NoClient
  Clients = {c1, c2}
  CommTypes = {"stream", "tag", "am"}
  NumIterations = 2
  Rndvs = {TRUE, FALSE}
  MayCrash = TRUE
PROPERTIES ServesSerially EveryClientEnds KeptIsServed NotHeldForEver
\* The server waits for clients that may all be gone.
CHECK_DEADLOCK FALSE
