CONSTANTS
  Char = {a, b}
  MaxHaystack = 5
  MaxNeedle = 3
SPECIFICATION FairSpec
INVARIANTS TypeOK SearchInv NoMatchMissed HitsDisjoint
PROPERTIES Exhausted ReportsStartsInside StepsThroughChosen
