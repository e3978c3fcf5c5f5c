SPECIFICATION Spec
CONSTANTS
  NoClient = NoClient
  Clients = {c1, c2, c3}
  CommTypes = {"stream", "tag", "am"}
  NumIterations = 3
  Rndvs = {TRUE, FALSE}
  MayCrash = TRUE
SYMMETRY Symmetry
INVARIANTS TypeOK OneClientAtATime FinAcknowledges InOrder SessionClean
PROPERTIES ReleasedWhenGone AmBufferLive
\* The server waits for clients that may all be gone.
CHECK_DEADLOCK FALSE
