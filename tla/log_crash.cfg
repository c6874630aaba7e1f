SPECIFICATION Spec
CONSTANTS
  Goroutines <- MCGoroutines
  Keys = {"users", "gap"}
  Calls = 3
INVARIANT NeverCrashes
CHECK_DEADLOCK FALSE
