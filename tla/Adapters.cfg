SPECIFICATION FairSpec
CONSTANTS
  Request = {r1, r2, r3}
  LongestSlug = 2
  PoolSize = 2
  Calls <- MCCalls
  Nil = Nil
CHECK_DEADLOCK FALSE
INVARIANTS
  TypeOK
PROPERTIES
  IsAtomic
