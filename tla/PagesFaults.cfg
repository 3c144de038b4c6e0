SPECIFICATION Spec
CONSTANTS
  Req = {r1, r2, r3, r4}
  Anonymous = Anonymous
  Editor = Editor
  Moderator = Moderator
  User = {Anonymous, Moderator}
  Slug = {home}
  Perms <- PermsOfTwo
  Scope = "Anonymous"
  NewUsers = {}
  Ops = {"create", "update", "delete", "revert", "protect", "approve", "reject"}
  GraphQL = FALSE
  Labelling = {FALSE}
  ProtectTo = {"FullyProtected"}
  Serial = FALSE
  Faults = TRUE
  Nil = Nil
SYMMETRY Requests
\* Once every request has been served the run is over.
CHECK_DEADLOCK FALSE
INVARIANTS
  TypeOK
  HistoryStaysOnPage
  NothingOutlivesPage
  PublishedAtMostOnce
  LogAgreesWithQueue
  EveryWriteLogged
  CoveredTextWasApproved
  DecisionsAreCarriedOut
  HeadlessAwaitsText
PROPERTIES
  DecisionsAreFinal
  HistoryIsAppendOnly
