SPECIFICATION Spec
CONSTANTS
  c1 = c1 c2 = c2 c3 = c3 c4 = c4 a = a b = b
  NoRow = NoRow NoCall = NoCall
  Calls = {c1, c2, c3}
  Kept = {a, b} Nested = {a, b}
  Payload <- AllAlike
  Rows = {1}
  UserIsNull = FALSE
  Ttl = 2 MaxRun = 1
  Faults = {"run"}
  MaxFaults = 1
  MaxTime = 1
INVARIANTS ExecutedOnce
CHECK_DEADLOCK FALSE
