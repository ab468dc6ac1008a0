SPECIFICATION RunSpec
CONSTANTS
  r1 = r1 r2 = r2 r3 = r3 l1 = l1 l2 = l2 l3 = l3 c1 = c1 c2 = c2 alice = alice bob = bob
  NoLock = NoLock NoRequest = NoRequest
  Requests = {r1, r2}
  Customers = {alice, bob}
  Locks = {l1, l2}
  Calls = {c1}
  Customer <- MCCustomer
  Seats <- OneSeatEach
  Capacity = 1 MaxSeats = 1
  Duration = 2 TxTimeout = 1 MaxTime = 0 MaxFaults = 0
INVARIANTS NoDoubleBooking
CHECK_DEADLOCK FALSE
