SPECIFICATION Spec
CONSTANTS
  Setups <- Sharded
  Tables <- MCTables
  Slots <- MCSlots
  MaxStarts = 1
INVARIANT ServesItsSources
CHECK_DEADLOCK FALSE
