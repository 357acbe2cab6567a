SPECIFICATION ExSpec
CONSTANTS
  s1 = s1
  s2 = s2
  i1 = i1
  i2 = i2
  Nil = Nil
  Broken = Broken
  Session <- MCOneSession
  Issue <- MCIssue
  MaxCalls = 4
PROPERTIES
  PermanentKnowledge
