SPECIFICATION Spec
CONSTANTS
  p1 = p1
  p2 = p2
  n1 = n1
  n2 = n2
  a = a
  b = b
  None = None
  Proc <- MCProc
  Name <- MCName
  Data <- MCData
  Mails <- MCMails
  MaxRetry = 2
SYMMETRY MCSymmetry
INVARIANTS
  TypeOK
  TransactionInv
  FlushedWasHanded
  ArchiveFirst
  NoSilentLoss
PROPERTIES
  OutboxWriteSound
  DeliveryPromise
