SPECIFICATION AnySpec
CONSTANTS
  \* Accounts
  u1 = u1 u2 = u2 q1 = q1
  User = {u1, u2}
  Request = {q1}
  NoUser = none
  MaxAccounts = 2
  MaxFails = 2
  Window = 2
  LockFor = 2
  TTL = 1
  MaxTokens = 2
  MaxTime = 3
  \* RateLimit
  r1 = r1 r2 = r2 r3 = r3 r4 = r4
  Requests = {r1, r2, r3, r4}
  Server <- Servers
  Limit = 2
  RateWindow = 2
  MaxRateTime = 4
  \* Lessons
  a = a b = b m1 = m1
  Shapes = {a, b}
  Recorders = {m1}
  MaxEpisodes = 3
  MineEvery = 2
  MinSupport = 2
  Margin = 2
  MaxTurns = 4
  \* Cascade
  t1 = t1 t2 = t2 c1 = c1 c2 = c2 op = op
  Tier = {t1, t2}
  Order <- Tiers
  Callers = {c1, c2}
  Operator = op
  NoCaller = none
  Failure = {"timeout", "rate_limit", "capability"}
  CoolingWindow <- Windows
  Longest = 1
  Strikes = 2
  MaxCooling = 1
  \* Approvals
  tab1 = tab1 tab2 = tab2 a1 = a1 a2 = a2
  Caller = {tab1, tab2}
  Action = {a1, a2}
  NoAction = none
  MaxPending = 2
  ApprovalTTL = 1
  MaxId = 3
  MaxToken = 3
  MaxApprovalTime = 1
  MaxFaults = 1
  \* Door
  ann = ann
  Tabs = {tab1, tab2}
  Users = {ann}
  Visitor = Nobody
  Deployments <- TheDeployments
  MaxSessions = 2
  MaxMishaps = 1
CONSTRAINT StillAsked
INVARIANTS ActsAsShownUnlessUpset RunsWhatWasClicked RejectedNeverRunsUnlessLate RevokedStaysRevokedUnlessClobbered LiveSessionsKeptUnlessClobbered  LimitIsExact DisabledStaysUnlessStale CooldownSurvivesUnlessSpoiled
PROPERTIES ImplementsOneShot
CHECK_DEADLOCK FALSE
