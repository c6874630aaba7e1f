SPECIFICATION Spec
CONSTANTS
  Goroutines <- MCGoroutines
  Keys = {"users", "gap"}
  Calls = 3
INVARIANT TypeOK
INVARIANT RepeatsAreSilent
PROPERTY EverythingLogged
CHECK_DEADLOCK FALSE
