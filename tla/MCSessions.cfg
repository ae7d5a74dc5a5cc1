SPECIFICATION Spec
CONSTANTS
  Ids = {"1705101"}
  Typed = {"1705101", "01705101", ""}
  Parse <- MCParse
  Conns = {c1, c2}
  NoConn = NoConn
  MaxQueue = 2
  MaxLines = 2
  Listers = {c1, c2}
  Vanishers = {}
  Lossy = {TRUE, FALSE}
INVARIANTS TypeOK Inv GrantedIsKnown
PROPERTIES TakeoverIsEarned OfflineIsGone
SYMMETRY Symmetry
CHECK_DEADLOCK FALSE
