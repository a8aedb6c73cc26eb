SPECIFICATION AnySpec
CONSTANTS
  \* Turns
  s1 = s1 s2 = s2 s3 = s3 r1 = r1 r2 = r2 k1 = k1 k2 = k2 k3 = k3
  Send = {s1, s2}
  Regen = {r1, r2}
  Key = {k1}
  KeyOf <- SameKey
  MaxMsgs = 3
  TTL = 1
  MaxTime = 1
  \* Snapshots
  acct = acct u1 = u1 u2 = u2 worker = worker flush = flush
  Accounts = acct
  UserFile = {u1, u2}
  Rank <- PathOrder
  Uploader = {worker, flush}
  Worker = worker
  Private = TRUE
  MaxWrites = 3
  MaxFaults = 2
  \* Memory
  sam = sam zed = zed often = often coffee = coffee espresso = espresso nobody = nobody
  Nobody = nobody
  NonNames = {often}
  Words <- TheWords
  Talk <- Talks
  Cured = TRUE
  MaxFacts = 3
  MaxHashes = 2
  MaxForgets = 1
  MaxMemFaults = 1
  \* Answers
  page = page essay = essay ann = ann
  q1 = q1 q2 = q2 q3 = q3 q4 = q4
  Senders = {s1}
  Phrases <- ThePhrases
  Pictures = {page}
  Papers = {essay}
  Decks = {}
  NoUpload = NoUpload
  Names = {ann}
  Nameless = Nameless
  Opinions = {"vision", "none", "unsure"}
  CacheOn = TRUE
  GreetingsOn = TRUE
  NearRounds = 2
  LastRounds = 1
  MaxPictures = 1
  MaxReused = 2
  MaxRepeats = 2
  RepeatTTL = 0
  MaxRounds = 2
  MaxClock = 1
INVARIANTS  PersistedOnceOrNotAtAll NoLiveDuplicateUnlessPoached CleanMeansMirroredUnlessSlipped 
PROPERTIES LiveAnswersKept ClaimsReleased EventuallyMirrored RemoteKeepsFilesUnlessBotched
CHECK_DEADLOCK FALSE
