SPECIFICATION Spec
CONSTANTS
  p1 = p1
  p2 = p2
  f1 = f1
  f2 = f2
  None = None
  Proc <- MCOneProc
  File <- MCOneFile
  Days = 1
  MaxTime = 2
INVARIANTS
  PrunedAreIndexed
