SPECIFICATION SnapshotsSpec
CONSTANTS
  r1 = r1
  r2 = r2
  m1 = m1
  b1 = b1
  None = None
  Recorder <- MCRecorder
  Emitter <- MCEmitter
  Rebuilder <- MCRebuilder
  MaxEvent = 3
  MaxTear = 0
  Callers = 1
SYMMETRY MCSymmetry
VIEW MCView
INVARIANTS
  SnapshotsTypeOK
  SeqUnique
  NoDoubleReplay
  ExactWhenQuiet
