SPECIFICATION Spec
CONSTANTS
  NoValue = NoValue
  NoHandle = NoHandle
  Clients = {c1, c2, c3}
  Server = server
  MsgLen = 2
  InPlace = TRUE
  MayFail = TRUE
SYMMETRY Symmetry
INVARIANTS TypeOK HandleOutlivesCallback WaitersSleep OneSession CompletedMeansTransfer TeardownOrder
PROPERTIES TransfersOnce
\* The programs end.
CHECK_DEADLOCK FALSE
