SPECIFICATION FairSpec
CONSTANTS
  Page = {p1, p2}
  LastText = 2
  Capacity = 3
  Batch = 2
  Editable = {p1}
  MaxStops = 1
  Failing = {"handler", "list", "read", "commit", "marker", "upsert", "open"}
  MaxFaults = 1
INVARIANTS
  TypeOK
  NeverAhead
PROPERTIES
  MirrorsStore
  Follows
  RebuildCovers
CHECK_DEADLOCK FALSE
