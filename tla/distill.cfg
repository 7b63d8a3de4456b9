SPECIFICATION FairSpec
CONSTANTS
  Clis = {c1, c2}
  Inits = {i1}
  Sessions = {s1}
  Answers = {a1, a2}
  Poison = {1}
  Limit = 2
  Local = TRUE
  MaxRows = 2
  MaxCrashes = 1
INVARIANTS
  PalaceFromOneAnswer
  OnlyPendingInHand
  
PROPERTIES
  DistilledIsFinal
  PendingSettles
