CONSTANTS
  Loop = {first, second}
  View = {original, copy}
  Original = original
  MaxPosition = 3
SPECIFICATION FairSpec
INVARIANTS TypeOK SinglePass SeenOnce AloneSeesAll
PROPERTY LoopsEnd
CHECK_DEADLOCK FALSE
