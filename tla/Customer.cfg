SPECIFICATION RunSpec
CONSTANTS
  topUp = topUp refund = refund bad = bad
  NoCall = NoCall
  Calls = {topUp, k1, k2, refund, bad}
  Kind <- MCKind
  Amount <- MCAmount
  MaxBalance = 2 MaxFaults = 1
  k1 = k1 k2 = k2 x1 = x1 x2 = x2 b1 = b1 b2 = b2 b3 = b3 mailer = mailer
  MiSessions = {k1, k2}
  MiBookings = {b1}
  MiBase = 4
  MiAmounts = {3}
  MiLadder <- MCLadder
  MiMaxOps = 4
  FgSessions = {k1, k2}
  FgGroups = {x1, x2}
  FgUsers = {b1, b2}
  FgMaxMembers = 2
  VoSessions = {k1, k2}
  VoBookings = {b1, b2, b3, x1, x2}
  VoOwner <- MCOwner
  VoMaxUses = 2
  VoCredits <- MCCredits
  VoAmount <- MCCreditAmount
  VoAsked = {2}
  VoMaxOps = 3
  PlSessions = {k1, k2}
  PlMaxLocks = 3
  SpRequests = {k1, k2}
  SpPayers = {x1, x2}
  SpWorkers = {mailer}
  SpMaxOpen = 2
  SnSessions = {k1, k2}
  SnMaxTokens = 3
  NdCalls = {k1, k2}
  NdFlights = {b1, b2}
  NdFlight = b1
  NdSeats = 1 NdMaxOrders = 2 NdMaxOps = 4
  FsAdmins = {k1, k2}
  FsBookings = {x1, x2}
  FsMaxOps = 3
SYMMETRY RunSymmetry
INVARIANTS TypesOK HistoryExplainsBalance MILogExplains MIPoolConserves FGMembersBounded FGOwnerStays VOUsesBounded VOCreditCovers PLOverrunsBounded SPOneDivision SNOneLine NDOrdersSettle FSCancellationSettles
PROPERTIES ImplementsLedger
CHECK_DEADLOCK FALSE
