SPECIFICATION Spec
CONSTANTS
  NoClient = NoClient
  Clients = {c1}
  CommTypes = {"am"}
  NumIterations = 2
  Rndvs = {FALSE}
  MayCrash = FALSE
INVARIANT EagerDataIsReady
\* The server waits for clients that may all be gone.
CHECK_DEADLOCK FALSE
