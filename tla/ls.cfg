SPECIFICATION Spec
CONSTANTS
  MaxRows = 5
  MaxSize = 2
  Pages <- FirstPages
  Limits <- FewLimits
  Tied <- AtOnce
  MaxChanges = 3
INVARIANTS TypeOK OthersAreNotMissed MissedAtMostChanged RepeatedAtMostCame
PROPERTIES ReadingEnds
