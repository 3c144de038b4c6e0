SPECIFICATION Spec
CONSTANTS
  Name <- MCName
  Body <- MCBody
  Size <- MCSize
  Programs <- MCPrograms
  Rewrites <- MCRewrites
  MaxDepth = 4
  Nil = Nil
CHECK_DEADLOCK FALSE
INVARIANTS
  TypeOK
  NoTemplateInItself
  NotFoundIsTrue
  SaysWhatIsMeant
PROPERTIES
  Ends
