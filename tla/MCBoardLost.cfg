SPECIFICATION Spec
CONSTANTS
  Students = {s1, s2}
  Strangers = {}
  Requests = {r1, r2}
  Uploads = {k1}
  MaxReads = 1
INVARIANT NothingLost
CHECK_DEADLOCK FALSE
