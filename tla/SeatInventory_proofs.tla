------------------------ MODULE SeatInventory_proofs ------------------------
(***************************************************************************)
(* For any number of requests, locks and seats: the module is well typed,  *)
(* the row lock guards what was read under it, a grant always fits, the    *)
(* lock transaction counts no lock that had expired, and seats are lost    *)
(* only to calls that missed a payment.                                    *)
(***************************************************************************)
EXTENDS SeatInventory, FiniteSetTheorems, TLAPS

(***************************************************************************)
(* Types                                                                   *)
(***************************************************************************)
\* What the steps write is a row of its table.
LEMMA LeaveType ==
  ASSUME TypeOK, NEW r \in Requests, NEW pc \in RequestPc,
         NEW l \in Locks \cup {NoLock}, Leave(r, pc, l)
  PROVE  request' \in [Requests -> RequestRow]
<1>1. {} \in SUBSET Locks OBVIOUS
<1>2. FreshRow(pc, l) \in RequestRow BY <1>1 DEF FreshRow, RequestRow
<1>3. QED BY <1>2 DEF TypeOK, Leave, Move

LEMMA GotoType ==
  ASSUME TypeOK, NEW r \in Requests, NEW pc \in RequestPc, Goto(r, pc)
  PROVE  request' \in [Requests -> RequestRow]
  BY DEF TypeOK, Goto, RequestRow

LEMMA StatusType ==
  ASSUME TypeOK, NEW l, NEW status \in LockStatus, SetStatus(l, status)
  PROVE  lock' \in [Locks -> LockRow]
  BY DEF TypeOK, SetStatus, LockRow

LEMMA SweepType ==
  ASSUME TypeOK PROVE ExpireLocks \in [Locks -> LockRow]
  BY DEF TypeOK, ExpireLocks, LockRow, LockStatus

LEMMA NewLockType ==
  ASSUME TypeOK, NEW r \in Requests PROVE NewLock(r) \in LockRow
<1>1. Seats[r] \in 0..MaxSeats /\ Customer[r] \in Customers
  BY ConstantsAssumption
<1>2. request[r].started + Duration \in Nat
  BY ConstantsAssumption DEF TypeOK, RequestRow
<1>3. QED BY <1>1, <1>2 DEF NewLock, LockRow, LockStatus

LEMMA Pcs ==
  /\ {"new", "rejected", "waiting", "counting", "deciding", "checking",
      "inserting", "converting", "pending", "confirmed", "cancelled"} = RequestPc
  BY DEF RequestPc, Creating, InTransaction, BookingStatus

LEMMA EndCallType ==
  ASSUME TypeOK, NEW c \in Calls, NEW r \in Requests, EndCall(c, r)
  PROVE  call' \in [Calls -> CallRow] /\ missedSeats' \in Nat
<1>1. NoCall \in CallRow BY DEF NoCall, CallRow
<1>2. Seats[r] \in Nat BY ConstantsAssumption
<1>3. QED BY <1>1, <1>2 DEF EndCall, TypeOK

LEMMA InitTypeOK == Init => TypeOK
  BY ConstantsAssumption
  DEF Init, TypeOK, LockRow, LockStatus, FreshRow, RequestRow, RequestPc,
      NoCall, CallRow

LEMMA NextTypeOK == TypeOK /\ [Next]_vars => TypeOK'
<1> SUFFICES ASSUME TypeOK, [Next]_vars PROVE TypeOK'
  OBVIOUS
<1> USE DEF callVars
<1>f. faults \in 0..MaxFaults /\ Fault => faults' \in 0..MaxFaults
  BY ConstantsAssumption DEF Fault
<1>s. \A r \in Requests : Seats[r] \in Nat BY ConstantsAssumption
<1>1. ASSUME NEW r \in Requests, BeginLock(r) PROVE TypeOK'
  <2> DEFINE begun == [request[r] EXCEPT !.pc = "waiting", !.started = now,
                                         !.swept = TRUE]
  <2>1. begun \in RequestRow BY Pcs DEF TypeOK, RequestRow
  <2>2. request' = [request EXCEPT ![r] = begun] BY <1>1 DEF BeginLock, Move
  <2>3. lock' \in [Locks -> LockRow] BY <1>1, SweepType DEF BeginLock
  <2> HIDE DEF begun
  <2>4. QED BY <1>1, <2>1, <2>2, <2>3 DEF BeginLock, TypeOK
<1>2. ASSUME NEW r \in Requests, BeginLockUnswept(r) PROVE TypeOK'
  <2> DEFINE begun == [request[r] EXCEPT !.pc = "waiting", !.started = now,
                                         !.swept = FALSE]
  <2>1. begun \in RequestRow BY Pcs DEF TypeOK, RequestRow
  <2>2. request' = [request EXCEPT ![r] = begun]
    BY <1>2 DEF BeginLockUnswept, Move
  <2>3. faults' \in 0..MaxFaults BY <1>2, <1>f DEF BeginLockUnswept, TypeOK
  <2> HIDE DEF begun
  <2>4. QED BY <1>2, <2>1, <2>2, <2>3 DEF BeginLockUnswept, TypeOK
<1>3. ASSUME NEW r \in Requests, NEW l \in Locks, UseLock(r, l) PROVE TypeOK'
  BY <1>3, LeaveType, Pcs DEF UseLock, TypeOK
<1>4. ASSUME NEW r \in Requests, NEW l \in Locks, UseStaleLock(r, l) PROVE TypeOK'
  BY <1>4, LeaveType, Pcs DEF UseStaleLock, TypeOK
<1>5. ASSUME NEW r \in Requests, LockFlightRow(r) PROVE TypeOK'
  <2> DEFINE read == [request[r] EXCEPT !.pc = "counting", !.seen = avail]
  <2>1. read \in RequestRow BY Pcs DEF TypeOK, RequestRow
  <2>2. request' = [request EXCEPT ![r] = read] BY <1>5 DEF LockFlightRow, Move
  <2> HIDE DEF read
  <2>3. QED BY <1>5, <2>1, <2>2 DEF LockFlightRow, TypeOK
<1>6. ASSUME NEW r \in Requests, CountLocks(r) PROVE TypeOK'
  <2> DEFINE read == [request[r] EXCEPT !.pc = "deciding", !.counted = Active]
  <2>1. Active \in SUBSET Locks BY DEF Active
  <2>2. read \in RequestRow BY <2>1, Pcs DEF TypeOK, RequestRow
  <2>3. request' = [request EXCEPT ![r] = read] BY <1>6 DEF CountLocks, Move
  <2> HIDE DEF read
  <2>4. QED BY <1>6, <2>2, <2>3 DEF CountLocks, TypeOK
<1>7. ASSUME NEW r \in Requests, GrantLock(r) PROVE TypeOK'
  <2>1. PICK l \in Locks : /\ lock' = [lock EXCEPT ![l] = NewLock(r)]
                           /\ Leave(r, "checking", l)
    BY <1>7 DEF GrantLock
  <2>2. lock' \in [Locks -> LockRow] BY <2>1, NewLockType DEF TypeOK
  <2>3. request' \in [Requests -> RequestRow] BY <2>1, LeaveType, Pcs
  <2>4. QED BY <1>7, <2>2, <2>3 DEF GrantLock, TypeOK
<1>8. ASSUME NEW r \in Requests, RefuseLock(r) PROVE TypeOK'
  BY <1>8, LeaveType, Pcs DEF RefuseLock, TypeOK
<1>9. ASSUME NEW r \in Requests, RollbackLock(r) PROVE TypeOK'
  BY <1>9, <1>f, LeaveType, Pcs DEF RollbackLock, TypeOK
<1>10. ASSUME NEW l \in Locks, ReleaseInventoryLock(l) PROVE TypeOK'
  BY <1>10, StatusType DEF ReleaseInventoryLock, TypeOK, LockStatus
<1>11. ASSUME NEW l \in Locks, BeginExtend(l) PROVE TypeOK'
  BY <1>11 DEF BeginExtend, TypeOK
<1>12. ASSUME NEW l \in Locks, ExtendLock(l) PROVE TypeOK'
  <2>1. now + Duration \in Nat BY ConstantsAssumption DEF TypeOK
  <2>2. lock' \in [Locks -> LockRow]
    BY <1>12, <2>1 DEF ExtendLock, Extended, TypeOK, LockRow
  <2>3. QED BY <1>12, <2>2 DEF ExtendLock, TypeOK
<1>13. CASE GetAvailableSeats
  BY <1>13, SweepType DEF GetAvailableSeats, TypeOK
<1>14. ASSUME NEW r \in Requests, CheckAvailability(r) PROVE TypeOK'
  BY <1>14, GotoType, Pcs DEF CheckAvailability, TypeOK
<1>15. ASSUME NEW r \in Requests, InsertBooking(r) PROVE TypeOK'
  BY <1>15, GotoType, Pcs DEF InsertBooking, TypeOK
<1>16. ASSUME NEW r \in Requests, FailBooking(r) PROVE TypeOK'
  BY <1>16, <1>f, GotoType, Pcs DEF FailBooking, TypeOK
<1>17. ASSUME NEW r \in Requests, ConvertLock(r) PROVE TypeOK'
  BY <1>17, GotoType, StatusType, Pcs DEF ConvertLock, TypeOK, LockStatus
<1>18. ASSUME NEW r \in Requests, SkipConvert(r) PROVE TypeOK'
  BY <1>18, <1>f, GotoType, Pcs DEF SkipConvert, TypeOK
<1>19. ASSUME NEW c \in Calls, NEW r \in Requests, Confirm(c, r) PROVE TypeOK'
  <2>1. avail' \in Nat BY <1>19, <1>s DEF Confirm, Deduct, TypeOK
  <2>2. lock' \in [Locks -> LockRow]
    BY <1>19, StatusType DEF Confirm, TypeOK, LockStatus
  <2>3. request' \in [Requests -> RequestRow] BY <1>19, GotoType, Pcs DEF Confirm
  <2>4. QED BY <1>19, <2>1, <2>2, <2>3, EndCallType DEF Confirm, TypeOK
<1>20. ASSUME NEW c \in Calls, NEW r \in Requests, Cancel(c, r) PROVE TypeOK'
  <2>1. avail' \in Nat BY <1>20, <1>s DEF Cancel, Restore, TypeOK
  <2>2. request' \in [Requests -> RequestRow] BY <1>20, GotoType, Pcs DEF Cancel
  <2>3. QED BY <1>20, <2>1, <2>2, EndCallType DEF Cancel, TypeOK
<1>24. ASSUME NEW c \in Calls, NEW r \in Requests,
              ReadPayment(c, r) \/ ReadCancel(c, r)
       PROVE  TypeOK'
  <2>1. CASE ReadPayment(c, r)
    <3>1. PICK l \in IF OwnLocks(r) = {} THEN {NoLock} ELSE OwnLocks(r) :
            BeginCall(c, [doing |-> "paying", booking |-> r, read |-> "pending",
                          toConvert |-> l])
      BY <2>1 DEF ReadPayment
    <3>2. l \in Locks \cup {NoLock} BY DEF OwnLocks, Active
    <3>3. QED BY <2>1, <3>1, <3>2 DEF ReadPayment, BeginCall, CallRow, TypeOK
  <2>2. CASE ReadCancel(c, r)
    BY <2>2 DEF ReadCancel, BeginCall, CallRow, TypeOK
  <2>3. QED BY <1>24, <2>1, <2>2
<1>25. ASSUME NEW r \in Requests, ExpireBooking(r) PROVE TypeOK'
  <2>1. request' \in [Requests -> RequestRow]
    BY <1>25, GotoType, Pcs DEF ExpireBooking
  <2>2. QED BY <1>25, <2>1 DEF ExpireBooking, callVars, TypeOK
<1>21. CASE Tick
  BY <1>21 DEF Tick, TypeOK
<1>22. CASE UNCHANGED vars
  BY <1>22 DEF vars, TypeOK
<1>23. QED
  BY <1>1, <1>2, <1>3, <1>4, <1>5, <1>6, <1>7, <1>8, <1>9, <1>10, <1>11, <1>12,
     <1>13, <1>14, <1>15, <1>16, <1>17, <1>18, <1>19, <1>20, <1>21, <1>22, <1>24, <1>25
  DEF Next, Progress

\* Type correctness; in particular the counter is never negative and no
\* lock or request is in a state its table does not allow.
THEOREM TypeCorrect == Spec => []TypeOK
  BY InitTypeOK, NextTypeOK, PTL DEF Spec

(***************************************************************************)
(* The row lock                                                            *)
(***************************************************************************)
\* A step of a request that neither holds nor takes the flight row.
LEMMA StepOutside ==
  ASSUME TypeOK, RowLockGuardsRead, NEW r \in Requests,
         request[r].pc \notin {"counting", "deciding"},
         \A q \in Requests \ {r} : request'[q] = request[q],
         request'[r].pc \notin {"counting", "deciding"},
         rowLock' = rowLock,
         avail' = avail \/ rowLock = NoRequest
  PROVE  RowLockGuardsRead'
  BY ConstantsAssumption DEF RowLockGuardsRead, TypeOK

\* A step that releases the row, or none.
LEMMA StepRelease ==
  ASSUME TypeOK, RowLockGuardsRead, NEW r \in Requests,
         \A q \in Requests \ {r} : request'[q] = request[q],
         request'[r].pc \notin {"counting", "deciding"},
         rowLock' = IF rowLock = r THEN NoRequest ELSE rowLock,
         avail' = avail
  PROVE  RowLockGuardsRead'
  BY ConstantsAssumption DEF RowLockGuardsRead, TypeOK

\* A payment or cancellation in flight works on a booking that exists, and a
\* payment goes on only with a copy that was pending.
CallsHaveBookings ==
  \A c \in Calls : call[c].doing # "nothing" =>
    /\ call[c].booking \in Requests
    /\ request[call[c].booking].pc \in BookingStatus
    /\ call[c].doing = "paying" => call[c].read = "pending"

\* A booking that exists is never taken back to its creation.
LEMMA BookingStays ==
  ASSUME TypeOK, [Next]_vars, NEW r \in Requests, request[r].pc \in BookingStatus
  PROVE  request'[r].pc \in BookingStatus
<1> USE DEF BookingStatus
<1>1. ASSUME NEW q \in Requests, q # r, NEW pc, Goto(q, pc)
      PROVE  request'[r] = request[r]
  BY <1>1 DEF Goto, TypeOK
<1>2. ASSUME NEW q \in Requests, q # r, NEW row, Move(q, row)
      PROVE  request'[r] = request[r]
  BY <1>2 DEF Move, TypeOK
<1>3. CASE UNCHANGED request BY <1>3
<1>4. ASSUME NEW q \in Requests, NEW pc \in BookingStatus, Goto(q, pc)
      PROVE  request'[r].pc \in BookingStatus
  BY <1>4 DEF Goto, TypeOK, RequestRow
<1>5. ASSUME NEW q \in Requests,
             \/ CheckAvailability(q) \/ InsertBooking(q) \/ FailBooking(q)
             \/ ConvertLock(q) \/ SkipConvert(q) \/ ExpireBooking(q)
             \/ \E c \in Calls : Confirm(c, q) \/ Cancel(c, q)
      PROVE  request'[r].pc \in BookingStatus
  BY <1>1, <1>4, <1>5
  DEF CheckAvailability, InsertBooking, FailBooking, ConvertLock, SkipConvert,
      ExpireBooking, Confirm, Cancel, At
<1>6. ASSUME NEW q \in Requests,
             \/ BeginLock(q) \/ BeginLockUnswept(q) \/ LockFlightRow(q)
             \/ CountLocks(q) \/ GrantLock(q) \/ RefuseLock(q) \/ RollbackLock(q)
             \/ \E l \in Locks : UseLock(q, l) \/ UseStaleLock(q, l)
      PROVE  request'[r].pc \in BookingStatus
  <2>1. q # r
    BY <1>6 DEF BeginLock, BeginLockUnswept, LockFlightRow, CountLocks, GrantLock,
                RefuseLock, RollbackLock, UseLock, UseStaleLock, At, InTransaction
  <2>2. \E row : Move(q, row)
    BY <1>6 DEF BeginLock, BeginLockUnswept, LockFlightRow, CountLocks, GrantLock,
                RefuseLock, RollbackLock, UseLock, UseStaleLock, Leave
  <2>3. QED BY <1>2, <2>1, <2>2
<1>7. QED
  BY <1>3, <1>5, <1>6
  DEF Next, Progress, vars, ReleaseInventoryLock, BeginExtend, ExtendLock,
      GetAvailableSeats, ReadPayment, ReadCancel, Tick

\* Only the four steps of a call change what it has read.
LEMMA CallStep ==
  ASSUME [Next]_vars
  PROVE  \/ UNCHANGED callVars
         \/ \E c \in Calls, r \in Requests :
              \/ ReadPayment(c, r) \/ ReadCancel(c, r)
              \/ Confirm(c, r) \/ Cancel(c, r)
  BY DEF Next, Progress, vars, callVars, BeginLock, BeginLockUnswept, UseLock,
         UseStaleLock, LockFlightRow, CountLocks, GrantLock, RefuseLock,
         RollbackLock, ReleaseInventoryLock, BeginExtend, ExtendLock,
         GetAvailableSeats, CheckAvailability, InsertBooking, FailBooking,
         ConvertLock, SkipConvert, ExpireBooking, Tick

LEMMA NextCalls ==
  ASSUME TypeOK, CallsHaveBookings, [Next]_vars PROVE CallsHaveBookings'
<1> SUFFICES ASSUME NEW c \in Calls, call'[c].doing # "nothing"
             PROVE  /\ call'[c].booking \in Requests
                    /\ request'[call'[c].booking].pc \in BookingStatus
                    /\ call'[c].doing = "paying" => call'[c].read = "pending"
  BY DEF CallsHaveBookings
<1>1. CASE call'[c] = call[c]
  BY <1>1, BookingStays DEF CallsHaveBookings
<1>2. ASSUME NEW r \in Requests, ReadPayment(c, r) \/ ReadCancel(c, r)
      PROVE  /\ call'[c].booking = r
             /\ call'[c].doing = "paying" => call'[c].read = "pending"
             /\ request[r].pc \in BookingStatus
  BY <1>2 DEF ReadPayment, ReadCancel, BeginCall, At, BookingStatus, TypeOK
<1>3. ASSUME NEW d \in Calls, NEW r \in Requests,
             ReadPayment(d, r) \/ ReadCancel(d, r) \/ Confirm(d, r) \/ Cancel(d, r)
      PROVE  \/ call'[c] = call[c]
             \/ ReadPayment(c, r) \/ ReadCancel(c, r)
  BY <1>3 DEF ReadPayment, ReadCancel, BeginCall, Confirm, Cancel, EndCall,
              NoCall, TypeOK
<1>4. QED BY <1>1, <1>2, <1>3, BookingStays, CallStep DEF callVars

LEMMA NextRowLock ==
  TypeOK /\ CallsHaveBookings /\ RowLockGuardsRead /\ [Next]_vars
    => RowLockGuardsRead'
<1> SUFFICES ASSUME TypeOK, CallsHaveBookings, RowLockGuardsRead, [Next]_vars
             PROVE  RowLockGuardsRead'
  OBVIOUS
<1> USE DEF At, Goto
<1>1. ASSUME NEW r \in Requests, BeginLock(r) PROVE RowLockGuardsRead'
  BY <1>1, StepOutside DEF BeginLock, Move, TypeOK, RequestRow
<1>2. ASSUME NEW r \in Requests, BeginLockUnswept(r) PROVE RowLockGuardsRead'
  BY <1>2, StepOutside DEF BeginLockUnswept, Move, TypeOK, RequestRow
<1>3. ASSUME NEW r \in Requests, NEW l \in Locks, UseLock(r, l)
      PROVE  RowLockGuardsRead'
  BY <1>3, StepOutside DEF UseLock, Leave, FreshRow, Move, TypeOK
<1>4. ASSUME NEW r \in Requests, NEW l \in Locks, UseStaleLock(r, l)
      PROVE  RowLockGuardsRead'
  BY <1>4, StepOutside DEF UseStaleLock, Leave, FreshRow, Move, TypeOK
<1>5. ASSUME NEW r \in Requests, LockFlightRow(r) PROVE RowLockGuardsRead'
  BY <1>5, ConstantsAssumption
  DEF LockFlightRow, RowFree, Move, TypeOK, RequestRow, RowLockGuardsRead
<1>6. ASSUME NEW r \in Requests, CountLocks(r) PROVE RowLockGuardsRead'
  BY <1>6 DEF CountLocks, Move, TypeOK, RequestRow, RowLockGuardsRead
<1>7. ASSUME NEW r \in Requests, GrantLock(r) PROVE RowLockGuardsRead'
  <2>1. rowLock = r BY <1>7 DEF GrantLock, RowLockGuardsRead
  <2>2. QED BY <1>7, <2>1, StepRelease
            DEF GrantLock, Leave, FreshRow, Move, TypeOK
<1>8. ASSUME NEW r \in Requests, RefuseLock(r) PROVE RowLockGuardsRead'
  <2>1. rowLock = r BY <1>8 DEF RefuseLock, RowLockGuardsRead
  <2>2. QED BY <1>8, <2>1, StepRelease
            DEF RefuseLock, Leave, FreshRow, Move, TypeOK
<1>9. ASSUME NEW r \in Requests, RollbackLock(r) PROVE RowLockGuardsRead'
  BY <1>9, StepRelease DEF RollbackLock, Leave, FreshRow, Move, TypeOK
<1>10. CASE UNCHANGED <<request, rowLock, avail>>
  BY <1>10 DEF RowLockGuardsRead
<1>11. ASSUME NEW r \in Requests, CheckAvailability(r) PROVE RowLockGuardsRead'
  BY <1>11, StepOutside DEF CheckAvailability, TypeOK, RequestRow
<1>12. ASSUME NEW r \in Requests, InsertBooking(r) PROVE RowLockGuardsRead'
  BY <1>12, StepOutside DEF InsertBooking, TypeOK, RequestRow
<1>13. ASSUME NEW r \in Requests, FailBooking(r) PROVE RowLockGuardsRead'
  BY <1>13, StepOutside DEF FailBooking, TypeOK, RequestRow
<1>14. ASSUME NEW r \in Requests, ConvertLock(r) PROVE RowLockGuardsRead'
  BY <1>14, StepOutside DEF ConvertLock, TypeOK, RequestRow
<1>15. ASSUME NEW r \in Requests, SkipConvert(r) PROVE RowLockGuardsRead'
  BY <1>15, StepOutside DEF SkipConvert, TypeOK, RequestRow
<1>16. ASSUME NEW c \in Calls, NEW r \in Requests, Confirm(c, r) \/ Cancel(c, r)
       PROVE  RowLockGuardsRead'
  <2>1. request[r].pc \in BookingStatus
    BY <1>16 DEF Confirm, Cancel, Doing, CallsHaveBookings
  <2>2. CASE Confirm(c, r)
    BY <2>1, <2>2, StepOutside
    DEF Confirm, RowFree, TypeOK, RequestRow, BookingStatus
  <2>3. CASE Cancel(c, r)
    BY <2>1, <2>3, StepOutside
    DEF Cancel, Restore, RowFree, TypeOK, RequestRow, BookingStatus
  <2>4. QED BY <1>16, <2>2, <2>3
<1>17. ASSUME NEW r \in Requests, ExpireBooking(r) PROVE RowLockGuardsRead'
  BY <1>17, StepOutside DEF ExpireBooking, TypeOK, RequestRow
<1>18. QED
  BY <1>1, <1>2, <1>3, <1>4, <1>5, <1>6, <1>7, <1>8, <1>9, <1>10, <1>11, <1>12,
     <1>13, <1>14, <1>15, <1>16, <1>17
  DEF Next, Progress, ReleaseInventoryLock, BeginExtend, ExtendLock,
      GetAvailableSeats, ReadPayment, ReadCancel, Tick, vars

\* The counter a request read under FOR UPDATE is current until its
\* transaction ends, for any number of requests, payments and cancellations.
THEOREM RowLockSafe == Spec => []RowLockGuardsRead
<1>1. Init => RowLockGuardsRead
  BY ConstantsAssumption DEF Init, FreshRow, RowLockGuardsRead
<1>2. Init => CallsHaveBookings
  BY DEF Init, CallsHaveBookings, NoCall
<1>3. TypeOK /\ CallsHaveBookings /\ [Next]_vars => CallsHaveBookings'
  BY NextCalls
<1>4. QED BY <1>1, <1>2, <1>3, InitTypeOK, NextTypeOK, NextRowLock, PTL DEF Spec

(***************************************************************************)
(* Grants                                                                  *)
(***************************************************************************)
\* Only a grant makes a lock active, and no step changes the seats of one.
Shrinks == /\ Active' \subseteq Active
           /\ \A l \in Active : lock'[l].seats = lock[l].seats

LEMMA OnlyGrantsGrow ==
  ASSUME TypeOK, [Next]_vars
  PROVE  Shrinks \/ \E r \in Requests : GrantLock(r)
<1> USE DEF Active, Shrinks, TypeOK
<1>1. ASSUME lock' = ExpireLocks PROVE Shrinks
  BY <1>1 DEF ExpireLocks, LockRow
<1>2. ASSUME NEW l, NEW status, status # "active", SetStatus(l, status)
      PROVE  Shrinks
  BY <1>2 DEF SetStatus, LockRow
<1>3. ASSUME NEW l \in Locks, ExtendLock(l) PROVE Shrinks
  BY <1>3 DEF ExtendLock, Extended, LockRow
<1>4. ASSUME NEW c \in Calls, NEW r \in Requests, Confirm(c, r) PROVE Shrinks
  BY <1>2, <1>4 DEF Confirm
<1>5. CASE UNCHANGED lock BY <1>5
<1>6. QED
  BY <1>1, <1>2, <1>3, <1>4, <1>5
  DEF Next, Progress, vars, BeginLock, BeginLockUnswept, UseLock, UseStaleLock,
      LockFlightRow, CountLocks, RefuseLock, RollbackLock, ReleaseInventoryLock,
      BeginExtend, GetAvailableSeats, CheckAvailability, InsertBooking,
      FailBooking, ConvertLock, SkipConvert, ReadPayment, ReadCancel, Cancel,
      ExpireBooking, Tick

\* Nothing becomes active between the SUM of a request and its decision:
\* only the holder of the flight row grants.
CountCoversActive ==
  \A r \in Requests : At(r, "deciding") => Active \subseteq request[r].counted

GrantInv == TypeOK /\ CallsHaveBookings /\ RowLockGuardsRead /\ CountCoversActive

\* A request that is deciding has just counted, or has not moved.
LEMMA DecidingStep ==
  ASSUME TypeOK, [Next]_vars, NEW r \in Requests, request'[r].pc = "deciding"
  PROVE  CountLocks(r) \/ request'[r] = request[r]
<1>1. ASSUME NEW q \in Requests, NEW pc \in RequestPc \ {"deciding"}, Goto(q, pc)
      PROVE  request'[r] = request[r]
  BY <1>1 DEF Goto, TypeOK, RequestRow
<1>2. ASSUME NEW q \in Requests, NEW pc \in RequestPc \ {"deciding"}, NEW l,
             Leave(q, pc, l)
      PROVE  request'[r] = request[r]
  BY <1>2 DEF Leave, Move, FreshRow, TypeOK
<1>3. ASSUME NEW q \in Requests,
             BeginLock(q) \/ BeginLockUnswept(q) \/ LockFlightRow(q)
      PROVE  request'[r] = request[r]
  BY <1>3 DEF BeginLock, BeginLockUnswept, LockFlightRow, Move, TypeOK, RequestRow
<1>4. ASSUME NEW q \in Requests, CountLocks(q)
      PROVE  CountLocks(r) \/ request'[r] = request[r]
  BY <1>4 DEF CountLocks, Move, TypeOK
<1>5. CASE UNCHANGED request BY <1>5
<1>6. ASSUME NEW q \in Requests,
             \/ CheckAvailability(q) \/ InsertBooking(q) \/ FailBooking(q)
             \/ ConvertLock(q) \/ SkipConvert(q) \/ ExpireBooking(q)
             \/ \E c \in Calls : Confirm(c, q) \/ Cancel(c, q)
      PROVE  request'[r] = request[r]
  BY <1>1, <1>6, Pcs
  DEF CheckAvailability, InsertBooking, FailBooking, ConvertLock, SkipConvert,
      ExpireBooking, Confirm, Cancel
<1>7. ASSUME NEW q \in Requests,
             \/ \E l \in Locks : UseLock(q, l) \/ UseStaleLock(q, l)
             \/ GrantLock(q) \/ RefuseLock(q) \/ RollbackLock(q)
      PROVE  request'[r] = request[r]
  BY <1>2, <1>7, Pcs
  DEF UseLock, UseStaleLock, GrantLock, RefuseLock, RollbackLock
<1>8. QED
  BY <1>3, <1>4, <1>5, <1>6, <1>7
  DEF Next, Progress, vars, ReleaseInventoryLock, BeginExtend, ExtendLock,
      GetAvailableSeats, ReadPayment, ReadCancel, Tick

LEMMA GrantInvariant == Spec => []GrantInv
<1>1. Init => GrantInv
  BY InitTypeOK, ConstantsAssumption
  DEF Init, GrantInv, FreshRow, RowLockGuardsRead, CountCoversActive, At,
      CallsHaveBookings, NoCall
<1>2. ASSUME GrantInv, [Next]_vars PROVE CountCoversActive'
  <2> SUFFICES ASSUME NEW r \in Requests, request'[r].pc = "deciding"
               PROVE  Active' \subseteq request'[r].counted
    BY DEF CountCoversActive, At
  <2>1. CASE CountLocks(r)
    BY <1>2, <2>1 DEF CountLocks, Move, Active, GrantInv, TypeOK, RequestRow
  <2>2. CASE request'[r] = request[r]
    <3>1. Active \subseteq request[r].counted /\ rowLock = r
      BY <1>2, <2>2 DEF GrantInv, CountCoversActive, RowLockGuardsRead, At
    <3>2. ~\E q \in Requests : GrantLock(q)
      <4> SUFFICES ASSUME NEW q \in Requests, GrantLock(q) PROVE FALSE
        OBVIOUS
      <4>1. q = r
        BY <1>2, <3>1 DEF GrantLock, GrantInv, RowLockGuardsRead, At
      <4>2. request'[r].pc = "checking"
        BY <1>2, <4>1 DEF GrantLock, Leave, Move, FreshRow, GrantInv, TypeOK
      <4>3. QED BY <4>2
    <3>3. QED BY <1>2, <2>2, <3>1, <3>2, OnlyGrantsGrow DEF GrantInv, Shrinks
  <2>3. QED BY <1>2, <2>1, <2>2, DecidingStep DEF GrantInv
<1>3. GrantInv /\ [Next]_vars => GrantInv'
  BY <1>2, NextTypeOK, NextCalls, NextRowLock DEF GrantInv
<1>4. QED BY <1>1, <1>3, PTL DEF Spec

(***************************************************************************)
(* Sums of seats                                                           *)
(***************************************************************************)
LEMMA SumType ==
  ASSUME NEW L \in SUBSET Locks
  PROVE  IsFiniteSet(SeatUnits(L)) /\ SumSeats(L) \in Nat
<1>1. IsFiniteSet(L) BY ConstantsAssumption, FS_Subset
<1>2. IsFiniteSet(1..MaxSeats) BY ConstantsAssumption, FS_Interval
<1>3. IsFiniteSet(L \X (1..MaxSeats)) BY <1>1, <1>2, FS_Product
<1>4. SeatUnits(L) \in SUBSET (L \X (1..MaxSeats)) BY DEF SeatUnits
<1>5. QED BY <1>3, <1>4, FS_Subset, FS_CardinalityType DEF SumSeats

LEMMA SumMonotone ==
  ASSUME NEW L \in SUBSET Locks, NEW M \in SUBSET L
  PROVE  SumSeats(M) <= SumSeats(L)
<1>1. SeatUnits(M) \in SUBSET SeatUnits(L) BY DEF SeatUnits
<1>2. QED BY <1>1, SumType, FS_Subset DEF SumSeats

\* A block of n seats counts n.
LEMMA BlockSize ==
  ASSUME NEW x, NEW n \in Nat
  PROVE  IsFiniteSet({x} \X (1..n)) /\ Cardinality({x} \X (1..n)) = n
<1>1. IsFiniteSet({x}) /\ Cardinality({x}) = 1 BY FS_Singleton
<1>2. IsFiniteSet(1..n) /\ Cardinality(1..n) = n BY FS_Interval
<1>3. /\ IsFiniteSet({x} \X (1..n))
      /\ Cardinality({x} \X (1..n)) = Cardinality({x}) * Cardinality(1..n)
  BY <1>1, <1>2, FS_Product
<1>4. QED BY <1>1, <1>2, <1>3

(***************************************************************************)
(* GrantFits                                                               *)
(***************************************************************************)
LEMMA GrantStep ==
  ASSUME GrantInv, NEW r \in Requests, GrantLock(r)
  PROVE  SumSeats(Active)' <= avail'
<1> USE DEF GrantInv
<1>1. PICK l \in Locks : /\ lock[l].status = "absent"
                         /\ lock' = [lock EXCEPT ![l] = NewLock(r)]
  BY DEF GrantLock
<1> DEFINE block == {l} \X (1..Seats[r])
<1>2. Seats[r] \in Nat \ {0} /\ Seats[r] <= MaxSeats BY ConstantsAssumption
<1>3. SeatUnits(Active)' = SeatUnits(Active) \cup block
  <2>1. Active' = Active \cup {l} /\ lock'[l].seats = Seats[r]
    BY <1>1 DEF Active, NewLock, TypeOK
  <2>2. \A k \in Active : lock'[k] = lock[k] BY <1>1 DEF Active, TypeOK
  <2>3. \A k \in Locks, n \in 1..MaxSeats :
          <<k, n>> \in SeatUnits(Active)' <=> <<k, n>> \in SeatUnits(Active) \cup block
    BY <1>2, <2>1, <2>2, ConstantsAssumption DEF SeatUnits
  <2>4. /\ SeatUnits(Active)' \subseteq Locks \X (1..MaxSeats)
        /\ SeatUnits(Active) \cup block \subseteq Locks \X (1..MaxSeats)
    BY <1>2, <2>1, ConstantsAssumption DEF SeatUnits, Active
  <2>5. QED BY <2>3, <2>4
<1>4. IsFiniteSet(SeatUnits(Active)) /\ SumSeats(Active) \in Nat
  BY SumType DEF Active
<1>5. IsFiniteSet(block) /\ Cardinality(block) = Seats[r] BY <1>2, BlockSize
<1> HIDE DEF block
<1>6. SumSeats(Active)' <= SumSeats(Active) + Seats[r]
  <2>1. /\ IsFiniteSet(SeatUnits(Active) \cap block)
        /\ Cardinality(SeatUnits(Active) \cap block) \in Nat
    BY <1>4, FS_Intersection, FS_CardinalityType
  <2>2. Cardinality(SeatUnits(Active) \cup block)
          = Cardinality(SeatUnits(Active)) + Cardinality(block)
              - Cardinality(SeatUnits(Active) \cap block)
    BY <1>4, <1>5, FS_Union
  <2>3. QED BY <1>2, <1>3, <1>4, <1>5, <2>1, <2>2 DEF SumSeats
<1>7. Active \subseteq request[r].counted /\ request[r].seen = avail
  BY DEF GrantLock, CountCoversActive, RowLockGuardsRead, At
<1>8. request[r].counted \in SUBSET Locks BY DEF TypeOK, RequestRow
<1>9. SumSeats(Active) <= SumSeats(request[r].counted)
  BY <1>7, <1>8, SumMonotone
<1>10. SumSeats(request[r].counted) + Seats[r] <= avail
  BY <1>2, <1>7, <1>8, SumType DEF GrantLock, Fits, Unlocked, TypeOK
<1>11. avail' = avail BY DEF GrantLock
<1>12. SumSeats(Active)' \in Nat
  <2>1. IsFiniteSet(SeatUnits(Active) \cup block) BY <1>4, <1>5, FS_Union
  <2>2. QED BY <1>3, <2>1, FS_CardinalityType DEF SumSeats
<1>13. QED BY <1>2, <1>4, <1>6, <1>8, <1>9, <1>10, <1>11, <1>12, SumType DEF TypeOK

LEMMA OtherStep ==
  ASSUME Shrinks PROVE SumSeats(Active)' <= SumSeats(Active)
<1>1. SeatUnits(Active)' \in SUBSET SeatUnits(Active)
  BY DEF Shrinks, SeatUnits
<1>2. IsFiniteSet(SeatUnits(Active)) BY SumType DEF Active
<1>3. QED BY <1>1, <1>2, FS_Subset DEF SumSeats

\* However many requests run createInventoryLock at once, a lock is granted
\* only when all the active locks still fit in what the cabin has left.
THEOREM GrantsFit == Spec => GrantFits
<1>1. ASSUME GrantInv, [Next]_vars
      PROVE  [SumSeats(Active)' > SumSeats(Active) => SumSeats(Active)' <= avail']_vars
  <2>1. CASE Shrinks
    <3>1. IsFiniteSet(SeatUnits(Active)) /\ SumSeats(Active) \in Nat
      BY SumType DEF Active
    <3>2. SeatUnits(Active)' \in SUBSET SeatUnits(Active)
      BY <2>1 DEF Shrinks, SeatUnits
    <3>3. SumSeats(Active)' \in Nat
      BY <3>1, <3>2, FS_Subset, FS_CardinalityType DEF SumSeats
    <3>4. QED BY <2>1, <3>1, <3>3, OtherStep
  <2>2. CASE \E r \in Requests : GrantLock(r)
    BY <1>1, <2>2, GrantStep
  <2>3. QED BY <1>1, <2>1, <2>2, OnlyGrantsGrow DEF GrantInv
<1>2. QED BY <1>1, GrantInvariant, PTL DEF Spec, GrantFits

(***************************************************************************)
(* CountsLiveLocks                                                         *)
(***************************************************************************)
\* A transaction is younger than a lock lives, so that a lock granted while
\* it runs expires after it began.
Young == \A r \in Requests : request[r].pc \in InTransaction =>
           request[r].started <= now /\ now <= request[r].started + TxTimeout

\* The sweep of a running transaction has left no lock that had expired.
SweptIsClean ==
  \A r \in Requests : request[r].pc \in InTransaction /\ request[r].swept =>
    \A l \in Active : lock[l].expiresAt >= request[r].started

LiveInv == GrantInv /\ Young /\ SweptIsClean /\ CountsLiveLocks

\* A transaction that runs after a step has just begun, or was running then,
\* and kept what it knows about its start.
LEMMA TransactionStep ==
  ASSUME TypeOK, [Next]_vars, NEW r \in Requests,
         request'[r].pc \in InTransaction
  PROVE  \/ BeginLock(r) \/ BeginLockUnswept(r)
         \/ /\ request[r].pc \in InTransaction
            /\ request'[r].started = request[r].started
            /\ request'[r].swept = request[r].swept
<1> DEFINE Kept == /\ request[r].pc \in InTransaction
                   /\ request'[r].started = request[r].started
                   /\ request'[r].swept = request[r].swept
<1> USE DEF InTransaction
<1>1. ASSUME NEW q \in Requests, NEW pc \in RequestPc \ InTransaction, Goto(q, pc)
      PROVE  Kept
  BY <1>1 DEF Goto, TypeOK, RequestRow
<1>2. ASSUME NEW q \in Requests, NEW pc \in RequestPc \ InTransaction, NEW l,
             Leave(q, pc, l)
      PROVE  Kept
  BY <1>2 DEF Leave, Move, FreshRow, TypeOK
<1>3. ASSUME NEW q \in Requests, BeginLock(q) \/ BeginLockUnswept(q)
      PROVE  BeginLock(r) \/ BeginLockUnswept(r) \/ Kept
  BY <1>3 DEF BeginLock, BeginLockUnswept, Move, TypeOK, RequestRow
<1>4. ASSUME NEW q \in Requests, LockFlightRow(q) \/ CountLocks(q) PROVE Kept
  <2>1. CASE LockFlightRow(q)
    BY <2>1 DEF LockFlightRow, Move, TypeOK, RequestRow, At
  <2>2. CASE CountLocks(q)
    BY <2>2 DEF CountLocks, Move, TypeOK, RequestRow, At
  <2>3. QED BY <1>4, <2>1, <2>2
<1>5. CASE UNCHANGED request BY <1>5
<1>6. ASSUME NEW q \in Requests,
             \/ CheckAvailability(q) \/ InsertBooking(q) \/ FailBooking(q)
             \/ ConvertLock(q) \/ SkipConvert(q) \/ ExpireBooking(q)
             \/ \E c \in Calls : Confirm(c, q) \/ Cancel(c, q)
      PROVE  Kept
  BY <1>1, <1>6, Pcs
  DEF CheckAvailability, InsertBooking, FailBooking, ConvertLock, SkipConvert,
      ExpireBooking, Confirm, Cancel
<1>7. ASSUME NEW q \in Requests,
             \/ \E l \in Locks : UseLock(q, l) \/ UseStaleLock(q, l)
             \/ GrantLock(q) \/ RefuseLock(q) \/ RollbackLock(q)
      PROVE  Kept
  BY <1>2, <1>7, Pcs
  DEF UseLock, UseStaleLock, GrantLock, RefuseLock, RollbackLock
<1>8. QED
  BY <1>3, <1>4, <1>5, <1>6, <1>7
  DEF Next, Progress, vars, ReleaseInventoryLock, BeginExtend, ExtendLock,
      GetAvailableSeats, ReadPayment, ReadCancel, Tick

\* Time passes only while every transaction has time left.
LEMMA TimeStep ==
  ASSUME TypeOK, [Next]_vars
  PROVE  UNCHANGED now \/ Tick
  BY DEF Next, Progress, vars, BeginLock, BeginLockUnswept, UseLock,
         UseStaleLock, LockFlightRow, CountLocks, GrantLock, RefuseLock,
         RollbackLock, ReleaseInventoryLock, BeginExtend, ExtendLock,
         GetAvailableSeats, CheckAvailability, InsertBooking, FailBooking,
         ConvertLock, SkipConvert, ReadPayment, Confirm, ReadCancel, Cancel,
         ExpireBooking

LEMMA NextYoung ==
  ASSUME TypeOK, Young, [Next]_vars PROVE Young'
<1> SUFFICES ASSUME NEW r \in Requests, request'[r].pc \in InTransaction
             PROVE  /\ request'[r].started <= now'
                    /\ now' <= request'[r].started + TxTimeout
  BY DEF Young
<1>1. /\ now \in Nat /\ request[r].started \in Nat
      /\ TxTimeout \in Nat
  BY ConstantsAssumption DEF TypeOK, RequestRow
<1>2. CASE BeginLock(r) \/ BeginLockUnswept(r)
  <2>1. CASE BeginLock(r)
    BY <1>1, <2>1 DEF BeginLock, Move, TypeOK, RequestRow
  <2>2. CASE BeginLockUnswept(r)
    BY <1>1, <2>2 DEF BeginLockUnswept, Move, TypeOK, RequestRow
  <2>3. QED BY <1>2, <2>1, <2>2
<1>3. CASE /\ request[r].pc \in InTransaction
           /\ request'[r].started = request[r].started
  BY <1>1, <1>3, TimeStep DEF Young, Tick
<1>4. QED BY <1>2, <1>3, TransactionStep

\* What a step does to the expiry of a lock: it keeps it, postpones it to
\* LOCK_DURATION from now, or is the grant of the lock.
LEMMA ExpiryStep ==
  ASSUME TypeOK, [Next]_vars, NEW l \in Locks
  PROVE  \/ lock'[l].expiresAt = lock[l].expiresAt
         \/ lock'[l].expiresAt = now + Duration
         \/ \E r \in Requests :
              GrantLock(r) /\ lock'[l].expiresAt = request[r].started + Duration
<1> USE DEF TypeOK
<1>1. CASE lock' = ExpireLocks
  BY <1>1 DEF ExpireLocks, LockRow
<1>2. ASSUME NEW k, NEW status, SetStatus(k, status)
      PROVE  lock'[l].expiresAt = lock[l].expiresAt
  BY <1>2 DEF SetStatus, LockRow
<1>3. ASSUME NEW k \in Locks, ExtendLock(k)
      PROVE  \/ lock'[l].expiresAt = lock[l].expiresAt
             \/ lock'[l].expiresAt = now + Duration
  BY <1>3 DEF ExtendLock, Extended, LockRow
<1>4. ASSUME NEW c \in Calls, NEW r \in Requests, Confirm(c, r)
      PROVE  lock'[l].expiresAt = lock[l].expiresAt
  BY <1>2, <1>4 DEF Confirm
<1>5. ASSUME NEW r \in Requests, GrantLock(r)
      PROVE  \/ lock'[l].expiresAt = lock[l].expiresAt
             \/ lock'[l].expiresAt = request[r].started + Duration
  <2>1. PICK k \in Locks : lock' = [lock EXCEPT ![k] = NewLock(r)]
    BY <1>5 DEF GrantLock
  <2>2. NewLock(r).expiresAt = request[r].started + Duration BY DEF NewLock
  <2>3. QED BY <2>1, <2>2
<1>6. CASE UNCHANGED lock BY <1>6
<1>7. QED
  BY <1>1, <1>2, <1>3, <1>4, <1>5, <1>6
  DEF Next, Progress, vars, BeginLock, BeginLockUnswept, UseLock, UseStaleLock,
      LockFlightRow, CountLocks, RefuseLock, RollbackLock, ReleaseInventoryLock,
      BeginExtend, GetAvailableSeats, CheckAvailability, InsertBooking,
      FailBooking, ConvertLock, SkipConvert, ReadPayment, ReadCancel, Cancel,
      ExpireBooking, Tick

\* Whatever happens to locks while r's transaction runs, it never brings
\* their expiry before r's start.
LEMMA ExpiryKept ==
  ASSUME TypeOK, Young, [Next]_vars, NEW l \in Locks, NEW r \in Requests,
         request[r].pc \in InTransaction,
         \/ lock[l].expiresAt >= request[r].started
         \/ \E q \in Requests : GrantLock(q)
              /\ lock'[l].expiresAt = request[q].started + Duration
  PROVE  lock'[l].expiresAt >= request[r].started
<1>1. /\ now \in Nat /\ Duration \in Nat /\ TxTimeout \in Nat
      /\ TxTimeout < Duration /\ request[r].started \in Nat
      /\ lock[l].expiresAt \in Nat
  BY ConstantsAssumption DEF TypeOK, RequestRow, LockRow
<1>2. request[r].started <= now BY DEF Young
<1>3. ASSUME NEW q \in Requests, GrantLock(q),
             lock'[l].expiresAt = request[q].started + Duration
      PROVE  lock'[l].expiresAt >= request[r].started
  <2>1. request[q].started \in Nat /\ now <= request[q].started + TxTimeout
    BY <1>3 DEF GrantLock, At, Young, InTransaction, TypeOK, RequestRow
  <2>2. QED BY <1>1, <1>2, <1>3, <2>1
<1>4. QED BY <1>1, <1>2, <1>3, ExpiryStep

LEMMA NextSwept ==
  ASSUME TypeOK, Young, SweptIsClean, [Next]_vars PROVE SweptIsClean'
<1> SUFFICES ASSUME NEW r \in Requests, request'[r].pc \in InTransaction,
                    request'[r].swept, NEW l \in Locks, lock'[l].status = "active"
             PROVE  lock'[l].expiresAt >= request'[r].started
  BY DEF SweptIsClean, Active
<1>1. CASE BeginLock(r)
  <2>1. request'[r].started = now
    BY <1>1 DEF BeginLock, Move, TypeOK, RequestRow
  <2>2. lock'[l] = lock[l] /\ l \in Active /\ ~Expired(l)
    BY <1>1 DEF BeginLock, ExpireLocks, Active, TypeOK, LockRow
  <2>3. lock[l].expiresAt \in Nat /\ now \in Nat BY DEF TypeOK, LockRow
  <2>4. QED BY <2>1, <2>2, <2>3 DEF Expired
<1>2. CASE BeginLockUnswept(r)
  BY <1>2 DEF BeginLockUnswept, Move, TypeOK, RequestRow
<1>3. CASE /\ request[r].pc \in InTransaction
           /\ request'[r].started = request[r].started
           /\ request'[r].swept = request[r].swept
  <2>1. CASE l \in Active
    <3>1. lock[l].expiresAt >= request[r].started
      BY <1>3, <2>1 DEF SweptIsClean
    <3>2. QED BY <1>3, <3>1, ExpiryKept
  <2>2. CASE l \notin Active
    <3>1. PICK q \in Requests : GrantLock(q)
      BY <2>2, OnlyGrantsGrow DEF Shrinks, Active
    <3>2. PICK k \in Locks : lock' = [lock EXCEPT ![k] = NewLock(q)]
      BY <3>1 DEF GrantLock
    <3>3. k = l BY <2>2, <3>2 DEF Active, TypeOK
    <3>4. lock'[l].expiresAt = request[q].started + Duration
      BY <3>2, <3>3 DEF TypeOK, NewLock
    <3>5. QED BY <1>3, <3>1, <3>4, ExpiryKept
  <2>3. QED BY <2>1, <2>2
<1>4. QED BY <1>1, <1>2, <1>3, TransactionStep

LEMMA NextCounts ==
  ASSUME LiveInv, [Next]_vars PROVE CountsLiveLocks'
<1> USE DEF LiveInv, GrantInv
<1> SUFFICES ASSUME NEW r \in Requests, request'[r].pc = "deciding",
                    request'[r].swept, NEW l \in request'[r].counted
             PROVE  lock'[l].expiresAt >= request'[r].started
  BY DEF CountsLiveLocks, At
<1>1. CASE CountLocks(r)
  <2>1. /\ request'[r].counted = Active /\ request'[r].swept = request[r].swept
        /\ request'[r].started = request[r].started /\ lock' = lock
    BY <1>1 DEF CountLocks, Move, TypeOK, RequestRow
  <2>2. request[r].pc \in InTransaction
    BY <1>1 DEF CountLocks, At, InTransaction
  <2>3. QED BY <2>1, <2>2 DEF SweptIsClean
<1>2. CASE request'[r] = request[r]
  <2>1. l \in Locks /\ lock[l].expiresAt >= request[r].started
    BY <1>2 DEF CountsLiveLocks, At, TypeOK, RequestRow
  <2>2. request[r].pc \in InTransaction BY <1>2 DEF InTransaction
  <2>3. QED BY <1>2, <2>1, <2>2, ExpiryKept
<1>3. QED BY <1>1, <1>2, DecidingStep

\* A request is never refused for seats whose lock had expired before it
\* began, for any durations with TxTimeout < Duration.
THEOREM CountsAreLive == Spec => []CountsLiveLocks
<1>1. Init => Young /\ SweptIsClean /\ CountsLiveLocks
  BY DEF Init, FreshRow, InTransaction, Young, SweptIsClean, CountsLiveLocks, At
<1>2. GrantInv /\ [Next]_vars /\ GrantInv' /\ Young /\ SweptIsClean
        /\ CountsLiveLocks
      => Young' /\ SweptIsClean' /\ CountsLiveLocks'
  BY NextYoung, NextSwept, NextCounts DEF GrantInv, LiveInv
<1>3. QED BY <1>1, <1>2, GrantInvariant, PTL DEF Spec

(***************************************************************************)
(* NoSeatLost                                                              *)
(***************************************************************************)
LEMMA SeatsType ==
  ASSUME NEW R \in SUBSET Requests
  PROVE  LET units == {u \in R \X (1..MaxSeats) : u[2] <= Seats[u[1]]}
         IN  IsFiniteSet(units) /\ SeatsOf(R) = Cardinality(units) /\ SeatsOf(R) \in Nat
<1> DEFINE units == {u \in R \X (1..MaxSeats) : u[2] <= Seats[u[1]]}
<1>1. IsFiniteSet(R) BY ConstantsAssumption, FS_Subset
<1>2. IsFiniteSet(1..MaxSeats) BY ConstantsAssumption, FS_Interval
<1>3. IsFiniteSet(R \X (1..MaxSeats)) BY <1>1, <1>2, FS_Product
<1>4. units \in SUBSET (R \X (1..MaxSeats)) OBVIOUS
<1>5. QED BY <1>3, <1>4, FS_Subset, FS_CardinalityType DEF SeatsOf

\* A request adds its own seats.
LEMMA SeatsAdd ==
  ASSUME NEW R \in SUBSET Requests, NEW r \in Requests \ R
  PROVE  SeatsOf(R \cup {r}) = SeatsOf(R) + Seats[r]
<1> DEFINE U(X) == {u \in X \X (1..MaxSeats) : u[2] <= Seats[u[1]]}
           block == {r} \X (1..Seats[r])
<1>1. Seats[r] \in Nat /\ Seats[r] <= MaxSeats BY ConstantsAssumption
<1>2. U(R \cup {r}) = U(R) \cup block BY <1>1, ConstantsAssumption
<1>3. U(R) \cap block = {} OBVIOUS
<1>4. IsFiniteSet(U(R)) /\ SeatsOf(R) = Cardinality(U(R)) /\ SeatsOf(R) \in Nat
  BY SeatsType
<1>5. IsFiniteSet(block) /\ Cardinality(block) = Seats[r] BY <1>1, BlockSize
<1>6. SeatsOf(R \cup {r}) = Cardinality(U(R) \cup block) BY <1>2 DEF SeatsOf
<1> HIDE DEF U, block
<1>7. Cardinality(U(R) \cup block)
        = Cardinality(U(R)) + Cardinality(block) - Cardinality(U(R) \cap block)
  BY <1>4, <1>5, FS_Union
<1>8. Cardinality(U(R) \cap block) = 0 BY <1>3, FS_EmptySet
<1>9. QED BY <1>1, <1>4, <1>5, <1>6, <1>7, <1>8

\* Confirmed bookings come and go by payments and cancellations alone.
LEMMA ConfirmedStep ==
  ASSUME TypeOK, [Next]_vars
  PROVE  \/ Confirmed' = Confirmed /\ avail' = avail
         \/ \E c \in Calls, r \in Requests : Confirm(c, r) \/ Cancel(c, r)
<1>1. ASSUME NEW q \in Requests, NEW pc \in RequestPc \ {"confirmed"},
             Goto(q, pc), ~At(q, "confirmed")
      PROVE  Confirmed' = Confirmed
  BY <1>1 DEF Goto, At, Confirmed, TypeOK, RequestRow
<1>2. ASSUME NEW q \in Requests, NEW pc \in RequestPc \ {"confirmed"}, NEW l,
             Leave(q, pc, l), ~At(q, "confirmed")
      PROVE  Confirmed' = Confirmed
  BY <1>2 DEF Leave, Move, FreshRow, At, Confirmed, TypeOK
<1>3. ASSUME NEW q \in Requests,
             \/ BeginLock(q) \/ BeginLockUnswept(q) \/ LockFlightRow(q)
             \/ CountLocks(q)
      PROVE  Confirmed' = Confirmed /\ avail' = avail
  <2>1. ASSUME NEW row, row.pc # "confirmed", ~At(q, "confirmed"), Move(q, row)
        PROVE  Confirmed' = Confirmed
    BY <2>1 DEF Move, At, Confirmed, TypeOK
  <2>2. CASE BeginLock(q)
    BY <2>1, <2>2 DEF BeginLock, At, TypeOK, RequestRow
  <2>3. CASE BeginLockUnswept(q)
    BY <2>1, <2>3 DEF BeginLockUnswept, At, TypeOK, RequestRow
  <2>4. CASE LockFlightRow(q)
    BY <2>1, <2>4 DEF LockFlightRow, At, TypeOK, RequestRow
  <2>5. CASE CountLocks(q)
    BY <2>1, <2>5 DEF CountLocks, At, TypeOK, RequestRow
  <2>6. QED BY <1>3, <2>2, <2>3, <2>4, <2>5
<1>4. CASE UNCHANGED <<request, avail>> BY <1>4 DEF Confirmed, At
<1>5. ASSUME NEW q \in Requests,
             \/ CheckAvailability(q) \/ InsertBooking(q) \/ FailBooking(q)
             \/ ConvertLock(q) \/ SkipConvert(q) \/ ExpireBooking(q)
      PROVE  Confirmed' = Confirmed /\ avail' = avail
  BY <1>1, <1>5, Pcs
  DEF CheckAvailability, InsertBooking, FailBooking, ConvertLock, SkipConvert,
      ExpireBooking, At
<1>6. ASSUME NEW q \in Requests,
             \/ \E l \in Locks : UseLock(q, l) \/ UseStaleLock(q, l)
             \/ GrantLock(q) \/ RefuseLock(q) \/ RollbackLock(q)
      PROVE  Confirmed' = Confirmed /\ avail' = avail
  BY <1>2, <1>6, Pcs
  DEF UseLock, UseStaleLock, GrantLock, RefuseLock, RollbackLock, At, InTransaction
<1>7. QED
  BY <1>3, <1>4, <1>5, <1>6
  DEF Next, Progress, vars, ReleaseInventoryLock, BeginExtend, ExtendLock,
      GetAvailableSeats, ReadPayment, ReadCancel, Tick

LEMMA NextNoSeatLost ==
  ASSUME TypeOK, CallsHaveBookings, NoSeatLost, [Next]_vars PROVE NoSeatLost'
<1>1. /\ avail \in Nat /\ Capacity \in Nat /\ Confirmed \in SUBSET Requests
      /\ SeatsOf(Confirmed) \in Nat /\ missedSeats \in Nat
      /\ avail + SeatsOf(Confirmed) + missedSeats >= Capacity
  BY ConstantsAssumption, SeatsType DEF TypeOK, Confirmed, NoSeatLost
<1>2. CASE ~\E c \in Calls, r \in Requests : Confirm(c, r) \/ Cancel(c, r)
  <2>1. Confirmed' = Confirmed /\ avail' = avail BY <1>2, ConfirmedStep
  <2>2. missedSeats' = missedSeats
    BY <1>2, CallStep DEF callVars, ReadPayment, ReadCancel, BeginCall
  <2>3. QED BY <2>1, <2>2 DEF NoSeatLost, SeatsOf
<1>3. ASSUME NEW c \in Calls, NEW r \in Requests, Confirm(c, r) PROVE NoSeatLost'
  <2>1. Confirmed' = Confirmed \cup {r}
    BY <1>3 DEF Confirm, Goto, At, Confirmed, TypeOK, RequestRow
  <2>2. Seats[r] \in Nat /\ avail' = (IF avail >= Seats[r] THEN avail - Seats[r] ELSE 0)
    BY <1>3, ConstantsAssumption DEF Confirm, Deduct
  <2>3. call[c].read = "pending"
    BY <1>3 DEF Confirm, Doing, CallsHaveBookings
  <2>4. CASE r \notin Confirmed
    <3>1. SeatsOf(Confirmed') = SeatsOf(Confirmed) + Seats[r]
      BY <1>1, <2>1, <2>4, SeatsAdd
    <3>2. missedSeats' = missedSeats
      BY <1>3, <2>4 DEF Confirm, EndCall, Confirmed
    <3>3. avail' + SeatsOf(Confirmed') + missedSeats' >= Capacity
      BY <1>1, <2>2, <3>1, <3>2
    <3>4. QED BY <3>3 DEF NoSeatLost, SeatsOf
  <2>5. CASE r \in Confirmed
    <3>1. Confirmed' = Confirmed BY <2>1, <2>5
    <3>2. missedSeats' = missedSeats + Seats[r]
      BY <1>3, <2>3, <2>5 DEF Confirm, EndCall, Confirmed
    <3>3. avail' + SeatsOf(Confirmed) + missedSeats' >= Capacity
      BY <1>1, <2>2, <3>2
    <3>4. QED BY <3>1, <3>3 DEF NoSeatLost, SeatsOf
  <2>6. QED BY <2>4, <2>5
<1>4. ASSUME NEW c \in Calls, NEW r \in Requests, Cancel(c, r) PROVE NoSeatLost'
  <2>1. Confirmed' = Confirmed \ {r}
    BY <1>4 DEF Cancel, Goto, At, Confirmed, TypeOK, RequestRow
  <2>2. /\ Seats[r] \in Nat /\ call[c].read \in {"pending", "confirmed"}
        /\ avail' = IF call[c].read = "confirmed" THEN avail + Seats[r] ELSE avail
    BY <1>4, ConstantsAssumption DEF Cancel, Restore, TypeOK, CallRow
  <2>3. missedSeats' = IF call[c].read = "pending" /\ r \in Confirmed
                       THEN missedSeats + Seats[r] ELSE missedSeats
    BY <1>4 DEF Cancel, EndCall, Confirmed
  <2>4. CASE r \in Confirmed
    <3>1. Confirmed = (Confirmed \ {r}) \cup {r} BY <2>4
    <3>2. SeatsOf(Confirmed) = SeatsOf(Confirmed \ {r}) + Seats[r]
      BY <1>1, <2>4, <3>1, SeatsAdd
    <3>3. SeatsOf(Confirmed \ {r}) \in Nat BY <1>1, SeatsType
    <3>4. avail' + missedSeats' = avail + missedSeats + Seats[r]
      BY <1>1, <2>2, <2>3, <2>4
    <3>5. avail' \in Nat /\ missedSeats' \in Nat BY <1>1, <2>2, <2>3
    <3>6. avail' + SeatsOf(Confirmed') + missedSeats' >= Capacity
      BY <1>1, <2>1, <2>2, <3>2, <3>3, <3>4, <3>5
    <3>7. QED BY <3>6 DEF NoSeatLost, SeatsOf
  <2>5. CASE r \notin Confirmed
    <3>1. Confirmed' = Confirmed BY <2>1, <2>5
    <3>2. avail' + SeatsOf(Confirmed) + missedSeats' >= Capacity
      BY <1>1, <2>2, <2>3, <2>5
    <3>3. QED BY <3>1, <3>2 DEF NoSeatLost, SeatsOf
  <2>6. QED BY <2>4, <2>5
<1>5. QED BY <1>2, <1>3, <1>4

\* What is not on sale is held by a confirmed booking, or was lost to a call
\* that missed a payment, however deductions and cancellations interleave.
THEOREM SeatsAreKept == Spec => []NoSeatLost
<1>1. Init => NoSeatLost
  <2> SUFFICES ASSUME Init PROVE NoSeatLost
    OBVIOUS
  <2>1. avail = Capacity /\ missedSeats = 0 /\ Capacity \in Nat
    BY ConstantsAssumption DEF Init
  <2>2. SeatsOf(Confirmed) \in Nat BY SeatsType DEF Confirmed
  <2>3. QED BY <2>1, <2>2 DEF NoSeatLost
<1>2. GrantInv /\ NoSeatLost /\ [Next]_vars => NoSeatLost'
  BY NextNoSeatLost DEF GrantInv
<1>3. QED BY <1>1, <1>2, GrantInvariant, PTL DEF Spec
=============================================================================
