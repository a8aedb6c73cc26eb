SPECIFICATION PipesSpec
CONSTANTS
  look = look write = write
  Pipes = {w1, w2}
  PipeJobs = {j1}
  PipeTools = {look, write}
  WebSearch = look
  Drafts <- TheDrafts
  NoSteps = NoSteps
  MaxPipes = 1
  MaxSteps = 3
  ToolCalls = 2
  SearchCalls = 1
  MaxPipeRuns = 2
INVARIANT BudgetCoversEveryStep
CHECK_DEADLOCK FALSE
