SPECIFICATION Spec
CONSTANTS
  u1 = u1
  u2 = u2
  Uploads = {u1, u2}
  Size <- Sizes
  Paths <- AllPaths
  PathChoices <- AnyPaths
  Ports = {p1, p2}
  NoPort = NoPort
  NoUpload = NoUpload
  MaxBuffer = 3
  MaxInt = 3
  MaxCrashes = 1
INVARIANTS TypeOK BufferAccounted ListedIdsResolve KeptIsVerified
PROPERTY ImplementsStore
SYMMETRY Symmetry
CHECK_DEADLOCK FALSE
