SPECIFICATION RunSpec
CONSTANTS
  r1 = r1 r2 = r2 l1 = l1 l2 = l2 c1 = c1 alice = alice bob = bob
  NoLock = NoLock NoRequest = NoRequest
  Requests = {r1, r2}
  Customers = {alice, bob}
  Locks = {l1, l2}
  Calls = {c1}
  Customer <- MCCustomer
  Seats <- MCSeats
  Capacity = 2 MaxSeats = 2
  Duration = 2 TxTimeout = 1 MaxTime = 3 MaxFaults = 1
  one = one two = two first = first second = second
  WlEntries = {one, two}
  WlSeats <- MCListSeats
  WlUser <- MCListUser
  WlFirst = two
  WlRuns = {1}
  WlMaxDoing = 1 WlSold = 2
  WrEvents = {first, second}
  WrMixes <- MCMixes
  WrAttempts = 2 WrMaxRetries = 2 WrMaxDeliveries = 2
INVARIANTS WRAppliedOnce
PROPERTIES RequestsFinish WLOffersEnd WRRecovers
CHECK_DEADLOCK FALSE
