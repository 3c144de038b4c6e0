SPECIFICATION Spec
CONSTANTS
  Req = {r1, r2, r3}
  Anonymous = Anonymous
  Editor = Editor
  Moderator = Moderator
  User = {Anonymous, Moderator}
  Slug = {home}
  Perms <- PermsOfTwo
  Scope = "None"
  NewUsers = {}
  Ops = {"create", "update", "protect"}
  GraphQL = FALSE
  Labelling = {FALSE}
  ProtectTo = {"FullyProtected"}
  Serial = FALSE
  Faults = FALSE
  Nil = Nil
SYMMETRY Requests
\* Once every request has been served the run is over.
CHECK_DEADLOCK FALSE
INVARIANTS
  HeadIsTip
