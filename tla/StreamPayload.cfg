SPECIFICATION Spec
CONSTANTS
  NoValue = NoValue
  NoHandle = NoHandle
  Clients = {c1}
  Server = server
  MsgLen = 2
  InPlace = FALSE
  MayFail = FALSE
INVARIANT PayloadIsData
\* The programs end.
CHECK_DEADLOCK FALSE
