CONSTANTS
  Claims = {c1, c2}
  Schedule <- MCSchedule
  MaxDay = 4
SPECIFICATION BonusSpec
SYMMETRY Symmetry
INVARIANTS
  StreakIsEarned
