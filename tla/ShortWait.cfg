SPECIFICATION Spec
CONSTANTS
  Ip = {i1}
  User = {u1}
  Request = {r1, r2, r3}
  Kind = {"read"}
  Anonymous <- OfAddress
  Authenticated <- OfAccount
  Second = 2
  IdleWindow = 5
  Lag = 1
  Skew = 0
  Backends = {"memory", "redis"}
  MaxTime = 8
  Nil = Nil
SYMMETRY Requests
\* Every request is answered once and the clock stops at its bound.
CHECK_DEADLOCK FALSE
PROPERTY WaitIsEnough
