SPECIFICATION FairSendSpec
CONSTANTS
  p1 = p1
  p2 = p2
  n1 = n1
  n2 = n2
  a = a
  b = b
  None = None
  Proc <- MCBothProcs
  Name <- MCName
  Data <- MCData
  Mails <- MCDistinctMails
  MaxRetry = 1
INVARIANTS
  SendTypeOK
  SentWhenAlone
PROPERTIES
  UsesOutbox
  AlwaysAnswers
