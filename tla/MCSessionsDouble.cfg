SPECIFICATION Spec
CONSTANTS
  Ids = {"1705101", "1705102"}
  Typed = {"1705101", "1705102"}
  Parse <- MCParse
  Conns = {c1, c2}
  NoConn = NoConn
  MaxQueue = 1
  MaxLines = 2
  Listers = {c1, c2}
  Vanishers = {c1, c2}
  Lossy = {FALSE}
INVARIANT OneSessionPerStudent
CHECK_DEADLOCK FALSE
