SPECIFICATION RunSpec
CONSTANTS
  r1 = r1 r2 = r2 r3 = r3 l1 = l1 l2 = l2 l3 = l3 c1 = c1 c2 = c2 alice = alice bob = bob
  NoLock = NoLock NoRequest = NoRequest
  Requests = {r1, r2, r3}
  Customers = {alice, bob}
  Locks = {l1, l2, l3}
  Calls = {c1, c2}
  Customer <- MCCustomer
  Seats <- MCSeats
  Capacity = 2 MaxSeats = 2
  Duration = 2 TxTimeout = 1 MaxTime = 3 MaxFaults = 1
SYMMETRY RowSymmetry
INVARIANTS CountsLiveLocks NoSeatLost
PROPERTIES GrantFits
CHECK_DEADLOCK FALSE
