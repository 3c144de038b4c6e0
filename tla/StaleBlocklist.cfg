SPECIFICATION Spec
CONSTANTS
  r1 = r1
  r2 = r2
  r3 = r3
  r4 = r4
  Request = {r1, r2, r3}
  Topics = {"blocklist"}
  Load <- MCLoad
  Lossy = FALSE
  Nil = Nil
  LongestSlug = 2
  Entries = {e1, e2}
  Founder = {root, guest}
  Administrator = root
  Anonymous = anonymous
  Content = {c1, c2}
  SliceSize = 1
  PerSecond = 2
  Retention = 1
  LastTime = 2
CHECK_DEADLOCK FALSE
INVARIANT SnapshotIsCurrent
