CONSTANTS
  Char = {tab, x, nul}
  Tab = tab
  MaxTab = 3
  MaxHaystack = 5
  MaxNeedle = 2
  IntMax = 4
SPECIFICATION CallbackFairSpec
INVARIANTS SubTypeOK SubReplaces SubOrigins OverrunExplained TerminatedInside SpacesFit 
PROPERTY SubEnds
CHECK_DEADLOCK FALSE
