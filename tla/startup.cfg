SPECIFICATION Spec
CONSTANTS
  Setups <- Sound
  Tables <- MCTables
  Slots <- MCSlots
  MaxStarts = 3
INVARIANT TypeOK
INVARIANT ServesItsSources
INVARIANT RuntimeSurvives
INVARIANT AllStartOrNone
INVARIANT SeededUnlessTouched
INVARIANT FlagsHonoured
PROPERTY StartsDecide
CHECK_DEADLOCK FALSE
