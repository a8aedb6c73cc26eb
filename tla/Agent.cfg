SPECIFICATION AnySpec
CONSTANTS
  \* AgentTurn
  a = a b = b r = r w = w none = none
  Tier = {a, b}
  NoTools = {}
  NoTier = none
  Reader = {r}
  Mutator = {w}
  MaxLlm = 3
  MaxTools = 2
  MaxRounds = 2
  MaxPlan = 1
  MaxReflect = 1
  LoopRounds = 2
  \* Stream
  x = x w1 = w1 idle = idle
  Turn = {x}
  Worker = {w1}
  QueueMax = 2
  MaxCalls = 4
  MaxTokens = 1
  Idle = idle
  \* Workspace
  j1 = j1 j2 = j2 script = script mainC = mainC otherC = otherC top = top src = src
  Jobs = {j1, j2}
  Sources = {script, mainC, otherC}
  Compiled = {mainC, otherC}
  Folder <- TheFolders
  Binary <- TheStems
  Top = top
  Sizes = {1}
  Unused = Unused
  MaxFiles = 2
  MaxBytes = 2
  MaxSlips = 1
INVARIANTS  OurLimitsBlameNoTierUnlessPlanned ProvenanceCompleteUnlessCut CreditTruthfulUnlessSwapped ToldTheTruth
PROPERTIES TurnEnds NothingForTheGone DraftKeptUnlessUnverified ResetBetweenCallsUnlessOrphaned
CHECK_DEADLOCK FALSE
