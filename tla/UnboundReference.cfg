SPECIFICATION Spec
CONSTANTS
  Name <- MCName
  Body <- MCBody
  Size <- MCSize
  Programs <- MCUnbound
  Rewrites <- MCRewrites
  MaxDepth = 2
  Nil = Nil
CHECK_DEADLOCK FALSE
INVARIANT NothingExpandsItself
