SPECIFICATION Spec
CONSTANTS
  Students = {s1, s2}
  Strangers = {x}
  Requests = {r1, r2}
  Uploads = {k1}
  MaxReads = 1
INVARIANTS TypeOK OnlyOnesOwn KnownWhenSeen ExactlyOnceAlone
SYMMETRY Symmetry
CHECK_DEADLOCK FALSE
