SPECIFICATION LibSpec
\* Every part stops: clocks, counters and inputs are bounded.
CHECK_DEADLOCK FALSE
CONSTANTS
  LockHolder = {h1, h2}
  LockTTL = 3
  LockMaxTime = 4
  NoHolder = NoHolder
  PoolSize = 2
  PoolWorker = {w1, w2}
  CbCaller = {c1, c2}
  CbStderr = {{"hit your limit"}, {"overloaded"}, {"503 ", "rate limit"}, {}}
  CbBackoffMax = 3
  CbYear = 4
  CbDay = 1
  CbMaxTime = 5
  RpModels <- MCModels
  RpStream = {s1, s2}
  RpChunk = {{"429"}, {"ok"}}
  RpCooldown = 2
  RpMaxTime = 4
  RpMaxHits = 4
  InMail = {m1}
  InWorker = {w1, w2}
  InSlack = 1
  InVersions = 2
  InNoMail = InNoMail
  WvWave = {"w"}
  WvSteps <- MCSteps
  WvStatus = {"success", "failed"}
  WvBound = 3
  WvGauge = {0, 3}
  BusPub = {p1, p2}
  BusSub = {s1, s2}
  BusBuffer = 1
  BusEvents = 2
  StSession = {s1, s2}
  StNone = StNone
  StTool = {t1}
  StRaw <- MCRaw
  StRawMax = 6
  StLines = 3
  DevMax = 3
  CsProc = {p1, p2}
  CsProvider = {"a"}
  CsNoId = ""
  CsMaxTime = 2
  RcExp = {1}
  RcReason <- MCReason
  RcThreshold = 2
  RcWindow = 3
  RcEvents = 4
  StExp = {1, 2}
  StWindow = {1, 2}
  StGain = 2
  StLoss = 3
  StUpper = 4
  StLower = 5
  StRecords = 4
  RvUpdater = {u1, u2}
  RvLine <- MCReviewLine
  RvWindow = 2
  RvLines = 3
  RvEdits = 4
  TrMail <- MCTriageMail
  TrExp = {1, 2}
  TrMaxLevel = 2
  TrMaxRetries = 1
  TrBudget = {0, 2}
  TrSteps = 4
  InsWriter = {1, 2}
  InsCorrection <- MCCorrection
  InsJournal <- MCJournal
  InsTexts <- MCTexts
  InsMaxLuminas = 2
  InsJournals = 3
  InsAppends = 2
  CoMeta <- MCMeta
  CoTool <- MCTool
  CoHops = 3
  DrChanges = 2
  DrScopes <- MCScopes
  DrSizes <- MCSizes
  DrBytes = {3, 900}
  DrMessages = 3
  SuSteps = 3
  CtRequired <- MCRequired
  CtShown <- MCShown
  CtLine <- MCContractLine
  CtLines = 5
  CtSent = 3
  CtSources <- MCSources
  CtMeta <- MCContractMeta
  CtBullet <- MCBullet
  CtBullets = 3
  ApRequest = {1, 2}
  ApLine <- MCTypedLine
  ApTyped = 2
  ApIssue = {"i", "j"}
  ApWrites = 3
  PrToken <- MCToken
  PrValue <- MCValue
  PrData <- MCData
  PrTokens = 4
INVARIANTS
  LibraryTypeOK
  OneRunPerKey
  PoolSound
  BreakerSound
  WavesSound
  StreamsSound
  RecordsSound
  TextsSound
PROPERTIES
  CallersAdmitted
  ObjectSteps
