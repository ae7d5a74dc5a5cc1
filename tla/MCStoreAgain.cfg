SPECIFICATION Spec
CONSTANTS
  u1 = u1
  u2 = u2
  Uploads = {u1, u2}
  Size <- Sizes
  Paths <- AllPaths
  PathChoices <- SamePaths
  Ports = {p1, p2}
  NoPort = NoPort
  NoUpload = NoUpload
  MaxBuffer = 6
  MaxInt = 15
  MaxCrashes = 0
PROPERTY StoredStays
CHECK_DEADLOCK FALSE
