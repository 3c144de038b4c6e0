SPECIFICATION Spec
CONSTANTS
  Page = {p1, p2}
  LastText = 2
  Capacity = 2
  Batch = 2
  Editable = {}
  MaxStops = 0
  Failing = {}
  MaxFaults = 0
INVARIANTS
  IndexIsCurrent
CHECK_DEADLOCK FALSE
