SPECIFICATION SendSpec
CONSTANTS
  p1 = p1
  p2 = p2
  n1 = n1
  n2 = n2
  a = a
  b = b
  None = None
  Proc <- MCOneProc
  Name <- MCName
  Data <- MCData
  Mails <- MCDistinctMails
  MaxRetry = 2
PROPERTIES
  SentMeansHanded
