SPECIFICATION Spec
CONSTANTS
  Programs <- AllPrograms
  IovCnt = 3
INVARIANTS TypeOK ParentsOutlive MisuseOnlyAfterFailure BuffersHeld 
\* A process ends.
CHECK_DEADLOCK FALSE
