SPECIFICATION SpecChats
CONSTANTS
  s1 = s1 s2 = s2 k1 = k1 k2 = k2
  b1 = b1 b2 = b2
  TTL = 1
  MaxTime = 0
  Send = {s1, s2}
  Regen = {}
  Key = {k1, k2}
  KeyOf <- OwnKeys
  Browse = {b1, b2}
  MaxMsgs = 4
  MaxChats = 2
  MaxStamp = 2
PROPERTY SavesKeepUnseenMessages
CHECK_DEADLOCK FALSE
