SPECIFICATION Spec
CONSTANTS
  b1 = b1 b2 = b2 e1 = e1 e2 = e2 e3 = e3 e4 = e4
  w1 = w1 w2 = w2 q1 = q1 q2 = q2 None = None
  Bookings = {b1} Seats <- MCSeats Capacity = 3
  Events = {e1} Kind <- AllCheckout BookingOf <- MCBookingOf
  TaggedKinds <- OnlyCheckout
  Workers = {w1, w2} Requests = {}
  MaxActive = 2 Legacy = FALSE
  MaxDuplicates = 1 MaxFaults = 0 MaxRequests = 0 MaxAbandoned = 0
INVARIANTS SeatsDeductedOnce
CHECK_DEADLOCK FALSE
