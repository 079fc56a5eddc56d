CONSTANTS
  Requests = {r1, r2}
  Sweepers = {w1, w2}
  MinAge = 2
  InFlight = 1
  MaxTime = 6
  Nobody = nobody
SPECIFICATION FairSpec
INVARIANTS
  IInv
  ExecutionsApart
  OverlappingExecuteOnce
PROPERTIES
  OldRecordsReclaimed
