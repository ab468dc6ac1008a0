SPECIFICATION Spec
CONSTANTS
  b1 = b1 b2 = b2 e1 = e1 e2 = e2 e3 = e3 e4 = e4
  w1 = w1 w2 = w2 q1 = q1 q2 = q2 None = None
  Bookings = {b1} Seats <- MCSeats Capacity = 2
  Events = {e1, e3, e4} Kind <- PaidAndRefunded BookingOf <- MCBookingOf
  TaggedKinds <- Kinds
  Workers = {w1, w2} Requests = {q1, q2}
  MaxActive = 2 Legacy = TRUE
  MaxDuplicates = 1 MaxFaults = 1 MaxRequests = 1 MaxAbandoned = 1
SYMMETRY DeliverySymmetry
INVARIANTS AckedWasApplied ProcessedWasApplied DeductionIsLedgered
CHECK_DEADLOCK FALSE
