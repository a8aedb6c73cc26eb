SPECIFICATION AnySpec
CONSTANTS
  \* Chats
  s1 = s1 s2 = s2 k1 = k1 k2 = k2
  b1 = b1 b2 = b2
  TTL = 1
  MaxTime = 0
  Send = {s1, s2}
  Regen = {}
  Key = {k1, k2}
  KeyOf <- OwnKeys
  Browse = {b1, b2}
  MaxMsgs = 4
  MaxChats = 2
  MaxStamp = 3
  \* Teaching
  algebra = algebra graphs = graphs scan = scan NoFile = NoFile
  Course <- TheCourse
  Uploads <- TheUploads
  Stem <- TheStems
  Slides <- TheSlides
  Pages <- ThePages
  Shape <- TheShapes
  Pasts <- ThePasts
  Strays <- TheStrays
  Recent = 2
  MaxTurns = 4
  MaxStrays = 1
  MaxAsides = 1
  \* Client
  talkA = talkA talkB = talkB
  Words = 2
  Threads = {talkA, talkB}
  First = talkA
  MaxLength = 4
  MaxCalls = 2
  MaxClicks = 3
  MaxLosses = 1
CONSTRAINT FewClicksAndLosses
INVARIANTS TypedKeptUnlessMislaid  NothingSkippedUnlessDrifted
PROPERTIES BrowsingKeepsMessages
CHECK_DEADLOCK FALSE
