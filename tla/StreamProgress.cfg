SPECIFICATION FairSpec
CONSTANTS
  NoValue = NoValue
  NoHandle = NoHandle
  Clients = {c1, c2, c3}
  Server = server
  MsgLen = 2
  InPlace = TRUE
  MayFail = FALSE
PROPERTIES ServerReturns ClientsEnd
\* The programs end.
CHECK_DEADLOCK FALSE
