SPECIFICATION Spec
CONSTANTS
  r1 = r1
  r2 = r2
  m1 = m1
  None = None
  Recorder <- MCRecorder
  Emitter <- MCEmitter
  MaxEvent = 4
  MaxTear = 3
  Callers = 2
SYMMETRY MCSymmetry
INVARIANTS
  TypeOK
  SeqUnique
  CauseKnown
  NoSilentFork
  OneLossPerTear
