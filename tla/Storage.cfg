SPECIFICATION AnySpec
CONSTANTS
  \* Vault
  w1 = w1 w2 = w2 w3 = w3
  Writers = {w1, w2, w3}
  Home <- Homes
  MaxMishaps = 2
  \* Files
  u1 = u1 u2 = u2 o1 = o1
  Uploads = {u1, u2}
  Outputs = {o1}
  Size <- FileSizes
  MaxFiles = 2
  MaxBytes = 3
  MaxFaults = 1
  \* Knowledge
  d1 = d1 d2 = d2 x = x y = y
  Removable = {d1}
  Docs = {d1, d2}
  Large = {d1, x}
  Others = {x}
  Slots = 1
  BacklogMax = 1
  KbMaxDocs = 1
  MaxSlips = 1
  \* Desk
  Folders = {p1}
  Clerks = {k1, k2}
  NoClerk = Nobody
  Personal = Personal
  KeptMessages = 3
  MaxSubjects = 2
  MaxBriefs = 1
  MaxOutputs = 2
INVARIANTS AnswersWithItsOwnUnlessBeside  CitedSurvivesUnlessExcused  NeverCitesTheDeleted
PROPERTIES EveryWriterLeaves LeftoversGo IngestSettlesUnlessJammed
CHECK_DEADLOCK FALSE
