SPECIFICATION Spec
CONSTANTS
  NoValue = NoValue
  NoHandle = NoHandle
  Coroutines = {c1, c2, c3}
  Values = {v1, v2}
  MaxSets = 4
SYMMETRY Symmetry
INVARIANTS TypeOK NoMissedSignal NoneStranded
PROPERTIES ResumesOnlySuspended
\* Every coroutine may be done or asleep with no set left to come.
CHECK_DEADLOCK FALSE
