SPECIFICATION Spec
CONSTANTS
  Req = {r1, r2, r3, r4}
  Anonymous = Anonymous
  Editor = Editor
  Moderator = Moderator
  User = {Anonymous, Editor, Moderator}
  Slug = {home}
  Perms <- PermsOfStaff
  Scope = "None"
  NewUsers = {}
  Ops = {"create", "update", "delete", "revert", "protect"}
  GraphQL = TRUE
  Labelling = {TRUE, FALSE}
  ProtectTo = {"None", "SemiProtected", "Protected", "FullyProtected"}
  Serial = TRUE
  Faults = FALSE
  Nil = Nil
SYMMETRY Requests
\* Once every request has been served the run is over.
CHECK_DEADLOCK FALSE
INVARIANTS
  HistoryIsLinear
  LevelsHold
  DerivedFollowsHead
