SPECIFICATION KnowledgeSpec
CONSTANTS
  d1 = d1 d2 = d2 x = x y = y
  Removable = {d1, d2}
  Docs = {d1, d2}
  Others = {x}
  Large = {d1, d2}
  Slots = 1
  BacklogMax = 1
  KbMaxDocs = 2
  MaxSlips = 1
PROPERTIES SlotsAlwaysReleased
CHECK_DEADLOCK FALSE
