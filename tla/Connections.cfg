CONSTANTS
  Conn = {c1, c2}
  c1 = c1
  c2 = c2
  f = f
  h = h
  b = b
  orders = orders
  w = w
  Fn = {f, h, b}
  External = {h, b}
  Namespace = {default, orders}
  Default = default
  WorkerName = {w}
  Scenarios <- Handover
  NoOne = NoOne
SPECIFICATION FairSpec
INVARIANTS LastWordWins OneServer SuccessorKept CleanSlate
PROPERTY ReattachReturns
CHECK_DEADLOCK FALSE
