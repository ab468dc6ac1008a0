SPECIFICATION Spec
CONSTANTS
  c1 = c1 c2 = c2 c3 = c3 c4 = c4 a = a b = b
  NoRow = NoRow NoCall = NoCall
  Calls = {c1, c2, c3}
  Kept = {a, b} Nested = {a, b}
  Payload <- OneOdd
  Rows = {1, 2}
  UserIsNull = FALSE
  Ttl = 2 MaxRun = 1
  Faults = {"run", "store", "mark", "crash"}
  MaxFaults = 2
  MaxTime = 6
INVARIANTS OncePerTtl OncePerTtlSerial AnswersMatchPayload
PROPERTIES BusyMeansRecent
CHECK_DEADLOCK FALSE
