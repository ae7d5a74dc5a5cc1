SPECIFICATION FairSpec
CONSTANTS
  Ids = {"1705101"}
  Typed = {"1705101"}
  Parse <- MCParse
  Conns = {c1, c2}
  NoConn = NoConn
  MaxQueue = 1
  MaxLines = 0
  Listers = {}
  Vanishers = {c1}
  Lossy = {FALSE}
PROPERTY GrantedAtLast
CHECK_DEADLOCK FALSE
