SPECIFICATION RunSpec
CONSTANTS
  k1 = k1 k2 = k2 group = group trip = trip c1 = c1 c2 = c2
  one = one two = two x1 = x1 x2 = x2 SmNobody = SmNobody
  StClerks = {k1, k2}
  StGroups = {group}
  StRebookings = {trip}
  StSize <- MCSize
  StMaxSize = 2 StCapacity = 4 StDailyLimit = 1 StMaxAgent = 3
  ShCalls = {c1, k1, k2}
  ShSeats <- MCHoldSeats
  ShAvailable = 1 ShOverbook = 1 ShMaxSold = 1
  WlEntries = {one, two}
  WlSeats <- MCListSeats
  WlUser <- MCListUser
  WlFirst = two
  WlRuns = {k1, k2}
  WlMaxDoing = 1 WlSold = 2
  SmSeats = 2
  SmCrew = {}
  SmPassengers = {x1, x2}
  SmSessions = {k1, k2}
  SmMaxOps = 4
  GtCalls = {k1, k2}
  GtFlights = {c1, c2}
  GtGates = {x1, x2}
  GtMaxOps = 4
SYMMETRY RunSymmetry
INVARIANTS TypesOK STOverrunsBounded SeatsAccounted SHHoldsBounded LaterIsBehind WLOffersFit SMOneSeat GTGatesAgree
PROPERTIES DoneStaysDone
CHECK_DEADLOCK FALSE
