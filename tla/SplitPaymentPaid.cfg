SPECIFICATION SPSpec
CONSTANTS
  SpRequests = {r1}
  SpPayers = {p1, p2}
  SpWorkers = {w1}
  SpMaxOpen = 2
INVARIANT SPConfirmedWhenAllPaid
CHECK_DEADLOCK FALSE
