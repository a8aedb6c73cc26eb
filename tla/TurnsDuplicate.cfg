SPECIFICATION Spec
CONSTANTS
  s1 = s1 s2 = s2 s3 = s3 r1 = r1 r2 = r2 k1 = k1 k2 = k2 k3 = k3
  Send = {s1, s2, s3}
  Regen = {}
  Key = {k1, k2, k3}
  KeyOf <- SameKey
  MaxMsgs = 2
  TTL = 1
  MaxTime = 2
INVARIANT NoLiveDuplicate
CHECK_DEADLOCK FALSE
