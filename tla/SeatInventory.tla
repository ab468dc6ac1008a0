--------------------------- MODULE SeatInventory ---------------------------
(***************************************************************************)
(* Seat inventory of one flight and one cabin: the column                  *)
(* flights.economyAvailable (or businessAvailable), the table              *)
(* inventory_locks, and the requests that take seats from it.              *)
(*                                                                         *)
(* Every query of inventory-lock.service.ts is keyed by (flight, cabin),   *)
(* so one key is modelled.  A request r is one call of createBooking       *)
(* followed by the life of the booking it inserts.  Each await of the code *)
(* is a step boundary; a statement, and the part of a transaction that     *)
(* holds FOR UPDATE on the flight row, is what the database makes atomic.  *)
(* The webhook and cancelBooking read the booking without a lock and write *)
(* later from that copy, so each is a call with a read step and a write    *)
(* step; StripeWebhook.tla models their failures and retries.              *)
(***************************************************************************)
EXTENDS Integers, FiniteSets

CONSTANTS
  Requests,     \* booking attempts
  Customers,    \* a browser session together with the user it belongs to
  Customer,     \* Customer[r] sends request r
  Seats,        \* Seats[r] passengers travel on request r
  Locks,        \* row ids of inventory_locks
  Calls,        \* runs of the payment webhook or of cancelBooking in flight
  Capacity,     \* seats on sale when the model starts
  MaxSeats,     \* bound on the passengers of one request
  Duration,     \* LOCK_DURATION_MINUTES, in ticks
  TxTimeout,    \* innodb_lock_wait_timeout, in ticks: shorter than a lock
  MaxTime,      \* bound on the clock
  MaxFaults,    \* bound on failed statements and requests
  NoLock, NoRequest

ASSUME ConstantsAssumption ==
  /\ IsFiniteSet(Requests) /\ IsFiniteSet(Locks)
  /\ Capacity \in Nat /\ MaxSeats \in Nat \ {0}
  /\ Customer \in [Requests -> Customers]
  /\ Seats \in [Requests -> 1..MaxSeats]
  /\ Duration \in Nat /\ TxTimeout \in Nat /\ TxTimeout < Duration
  /\ MaxTime \in Nat /\ MaxFaults \in Nat
  /\ NoLock \notin Locks /\ NoRequest \notin Requests

VARIABLES
  avail,          \* flights.xAvailable
  lock,           \* inventory_locks
  rowLock,        \* the request that holds FOR UPDATE on the flight row
  request,        \* program point and local variables of every request
  toRelease,      \* locks a verifyLock found expired and is about to release
  toExtend,       \* locks an extendLock verified and is about to extend
  call,           \* what every payment and cancellation in flight has read
  missedSeats,    \* history: the seats of the writes that missed a payment
  now,
  faults

callVars == <<call, missedSeats>>
vars == <<avail, lock, rowLock, request, toRelease, toExtend, callVars, now, faults>>

(***************************************************************************)
(* inventory_locks.  "absent" is a row id not handed out yet.              *)
(***************************************************************************)
LockStatus == {"absent", "active", "released", "expired", "converted"}
LockRow == [status : LockStatus, seats : 0..MaxSeats,
            session : Customers \cup {NoLock}, expiresAt : Nat]

Active == {l \in Locks : lock[l].status = "active"}
Expired(l) == lock[l].expiresAt < now

\* SUM(numberOfSeats) over the rows in L, as the number of seats they cover.
SeatUnits(L) ==
  {u \in L \X (1..MaxSeats) : u[2] <= lock[u[1]].seats}
SumSeats(L) == Cardinality(SeatUnits(L))

SetStatus(l, status) == lock' = [lock EXCEPT ![l].status = status]

(***************************************************************************)
(* Requests.  The booking row exists from "converting" on: its status is   *)
(* pending until it is confirmed or cancelled.                             *)
(***************************************************************************)
InTransaction == {"waiting", "counting", "deciding"}
Creating == InTransaction \cup {"checking", "inserting", "converting"}
BookingStatus == {"pending", "confirmed", "cancelled"}
RequestPc == {"new", "rejected"} \cup Creating \cup BookingStatus
RequestRow == [pc      : RequestPc,
               lockId  : Locks \cup {NoLock},
               seen    : Nat,          \* currentAvailable
               counted : SUBSET Locks, \* the rows the SUM covered
               started : Nat,          \* when releaseExpiredLocks ran
               swept   : BOOLEAN]      \* whether it succeeded

\* A request outside the lock transaction has no use for its locals.
FreshRow(pc, l) == [pc |-> pc, lockId |-> l, seen |-> 0, counted |-> {},
                    started |-> 0, swept |-> FALSE]

At(r, pc) == request[r].pc = pc
Move(r, row) == request' = [request EXCEPT ![r] = row]
Goto(r, pc) == request' = [request EXCEPT ![r].pc = pc]

Leave(r, pc, l) == Move(r, FreshRow(pc, l))

\* A call keeps the copy of the booking row that it read.
CallRow == [doing : {"nothing", "paying", "cancelling"},
            booking : Requests \cup {NoRequest},
            read : {"pending", "confirmed"},     \* booking.status in the copy
            toConvert : Locks \cup {NoLock}]     \* activeLock of the webhook
NoCall == [doing |-> "nothing", booking |-> NoRequest, read |-> "pending",
           toConvert |-> NoLock]

Fault == faults < MaxFaults /\ faults' = faults + 1

Init ==
  /\ avail = Capacity
  /\ lock = [l \in Locks |-> [status |-> "absent", seats |-> 0,
                              session |-> NoLock, expiresAt |-> 0]]
  /\ rowLock = NoRequest
  /\ request = [r \in Requests |-> FreshRow("new", NoLock)]
  /\ toRelease = {} /\ toExtend = {}
  /\ call = [c \in Calls |-> NoCall] /\ missedSeats = 0
  /\ now = 0 /\ faults = 0

(***************************************************************************)
(* createInventoryLock                                                     *)
(***************************************************************************)
ExpireLocksMutant == \* a sweep that lets a lock outlive its expiry by a tick
  [l \in Locks |-> IF l \in Active /\ lock[l].expiresAt + 1 < now
                   THEN [lock[l] EXCEPT !.status = "expired"] ELSE lock[l]]
ExpireLocks ==
  [l \in Locks |-> IF l \in Active /\ Expired(l)
                   THEN [lock[l] EXCEPT !.status = "expired"] ELSE lock[l]]

\* releaseExpiredLocks runs first, as a statement of its own.
BeginLock(r) ==
  /\ At(r, "new")
  /\ lock' = ExpireLocks
  /\ Move(r, [request[r] EXCEPT !.pc = "waiting", !.started = now,
                                !.swept = TRUE])
  /\ UNCHANGED <<avail, rowLock, toRelease, toExtend, callVars, now, faults>>

\* releaseExpiredLocks swallows its errors.
BeginLockUnswept(r) ==
  /\ At(r, "new")
  /\ Fault
  /\ Move(r, [request[r] EXCEPT !.pc = "waiting", !.started = now,
                                !.swept = FALSE])
  /\ UNCHANGED <<avail, lock, rowLock, toRelease, toExtend, callVars, now>>

\* SELECT ... FROM flights ... FOR UPDATE
RowFree == rowLock = NoRequest
LockFlightRow(r) ==
  /\ At(r, "waiting")
  /\ RowFree
  /\ rowLock' = r
  /\ Move(r, [request[r] EXCEPT !.pc = "counting", !.seen = avail])
  /\ UNCHANGED <<avail, lock, toRelease, toExtend, callVars, now, faults>>

\* SELECT SUM(numberOfSeats) ... WHERE status = 'active'
CountLocks(r) ==
  /\ At(r, "counting")
  /\ Move(r, [request[r] EXCEPT !.pc = "deciding", !.counted = Active])
  /\ UNCHANGED <<avail, lock, rowLock, toRelease, toExtend, callVars, now, faults>>

Unlocked(r) ==
  LET left == request[r].seen - SumSeats(request[r].counted)
  IN  IF left < 0 THEN 0 ELSE left

FitsMutant(r) == request[r].seen >= Seats[r] \* the other locks forgotten
Fits(r) == Unlocked(r) >= Seats[r]

\* The row a grant inserts.
NewLock(r) == [status |-> "active", seats |-> Seats[r],
               session |-> Customer[r],
               expiresAt |-> request[r].started + Duration]

GrantLock(r) ==
  /\ At(r, "deciding")
  /\ Fits(r)
  /\ \E l \in Locks :
       /\ lock[l].status = "absent"
       /\ lock' = [lock EXCEPT ![l] = NewLock(r)]
       /\ Leave(r, "checking", l)
  /\ rowLock' = NoRequest
  /\ UNCHANGED <<avail, toRelease, toExtend, callVars, now, faults>>

RefuseLock(r) ==
  /\ At(r, "deciding")
  /\ ~Fits(r)
  /\ rowLock' = NoRequest
  /\ Leave(r, "rejected", NoLock)
  /\ UNCHANGED <<avail, lock, toRelease, toExtend, callVars, now, faults>>

RollbackLockMutant(r) == \* a failure that leaves its transaction open
  /\ request[r].pc \in InTransaction
  /\ Fault
  /\ Leave(r, "rejected", NoLock)
  /\ UNCHANGED <<avail, lock, rowLock, toRelease, toExtend, callVars, now>>

\* A database error, or the wait for the row timing out, rolls back.
RollbackLock(r) ==
  /\ request[r].pc \in InTransaction
  /\ Fault
  /\ rowLock' = IF rowLock = r THEN NoRequest ELSE rowLock
  /\ Leave(r, "rejected", NoLock)
  /\ UNCHANGED <<avail, lock, toRelease, toExtend, callVars, now>>

(***************************************************************************)
(* verifyLock, releaseInventoryLock, extendLock, getAvailableSeats         *)
(***************************************************************************)
Found(l, s) == l \in Active /\ lock[l].session = s

\* createBooking is given a lockId: verifyLock decides.
UseLock(r, l) ==
  /\ At(r, "new")
  /\ Found(l, Customer[r]) /\ ~Expired(l)
  /\ Leave(r, "checking", l)
  /\ UNCHANGED <<avail, lock, rowLock, toRelease, toExtend, callVars, now, faults>>

UseStaleLock(r, l) ==
  /\ At(r, "new")
  /\ lock[l].session = Customer[r]
  /\ ~Found(l, Customer[r]) \/ Expired(l)
  /\ toRelease' = IF Found(l, Customer[r]) THEN toRelease \cup {l}
                  ELSE toRelease
  /\ Leave(r, "rejected", NoLock)
  /\ UNCHANGED <<avail, lock, rowLock, toExtend, callVars, now, faults>>

\* UPDATE ... WHERE id = l, whatever the status has become meanwhile.
ReleaseInventoryLock(l) ==
  /\ l \in toRelease
  /\ SetStatus(l, "released")
  /\ toRelease' = toRelease \ {l}
  /\ UNCHANGED <<avail, rowLock, request, toExtend, callVars, now, faults>>

BeginExtend(l) ==
  /\ l \in Active \ (toExtend \cup toRelease)
  /\ IF Expired(l)
     THEN toRelease' = toRelease \cup {l} /\ UNCHANGED toExtend
     ELSE toExtend' = toExtend \cup {l} /\ UNCHANGED toRelease
  /\ UNCHANGED <<avail, lock, rowLock, request, callVars, now, faults>>

Extended(l) == [lock EXCEPT ![l].expiresAt = now + Duration]
ExtendLock(l) ==
  /\ l \in toExtend
  /\ lock' = Extended(l)
  /\ toExtend' = toExtend \ {l}
  /\ UNCHANGED <<avail, rowLock, request, toRelease, callVars, now, faults>>

\* The only change getAvailableSeats makes is the sweep it starts with.
GetAvailableSeats ==
  /\ \E l \in Active : Expired(l)
  /\ lock' = ExpireLocks
  /\ UNCHANGED <<avail, rowLock, request, toRelease, toExtend, callVars, now, faults>>

(***************************************************************************)
(* createBooking, once it has a lock                                       *)
(***************************************************************************)
\* checkFlightAvailability reads the counter alone, and no lock.
CheckAvailability(r) ==
  /\ At(r, "checking")
  /\ Goto(r, IF avail >= Seats[r] THEN "inserting" ELSE "rejected")
  /\ UNCHANGED <<avail, lock, rowLock, toRelease, toExtend, callVars, now, faults>>

InsertBooking(r) ==
  /\ At(r, "inserting")
  /\ Goto(r, "converting")
  /\ UNCHANGED <<avail, lock, rowLock, toRelease, toExtend, callVars, now, faults>>

\* An error before the insert leaves the lock active.
FailBooking(r) ==
  /\ request[r].pc \in {"checking", "inserting"}
  /\ Fault
  /\ Goto(r, "rejected")
  /\ UNCHANGED <<avail, lock, rowLock, toRelease, toExtend, callVars, now>>

\* convertLockToBooking: UPDATE ... WHERE id = lockId, before any payment.
ConvertLock(r) ==
  /\ At(r, "converting")
  /\ SetStatus(request[r].lockId, "converted")
  /\ Goto(r, "pending")
  /\ UNCHANGED <<avail, rowLock, toRelease, toExtend, callVars, now, faults>>

\* createBooking swallows a failed conversion; a failed passenger or
\* ancillary insert leaves the pending booking behind without it.
SkipConvert(r) ==
  /\ At(r, "converting")
  /\ Fault
  /\ Goto(r, "pending")
  /\ UNCHANGED <<avail, lock, rowLock, toRelease, toExtend, callVars, now>>

(***************************************************************************)
(* Payments and cancellations.  The updates of a transaction hold their    *)
(* row locks until the commit, so they are one step, which waits for the   *)
(* flight row if it updates it.  A call that fails rolls back and has done *)
(* nothing.                                                                *)
(***************************************************************************)
Doing(c, what, r) == call[c].doing = what /\ call[c].booking = r
BeginCall(c, row) == /\ call[c] = NoCall
                     /\ call' = [call EXCEPT ![c] = row]
                     /\ UNCHANGED missedSeats

\* The write missed a payment if the booking, pending in its copy, is paid by
\* now.
EndCall(c, r) ==
  /\ call' = [call EXCEPT ![c] = NoCall]
  /\ missedSeats' = IF call[c].read = "pending" /\ At(r, "confirmed")
                    THEN missedSeats + Seats[r] ELSE missedSeats

\* The webhook of checkout.session.completed reads the booking and, from the
\* same snapshot, one active lock of the user; it skips a paid booking and
\* throws for a cancelled one.
OwnLocks(r) == {l \in Active : lock[l].session = Customer[r]}
ReadPayment(c, r) ==
  /\ At(r, "pending")
  /\ \E l \in IF OwnLocks(r) = {} THEN {NoLock} ELSE OwnLocks(r) :
       BeginCall(c, [doing |-> "paying", booking |-> r, read |-> "pending",
                     toConvert |-> l])
  /\ UNCHANGED <<avail, lock, rowLock, request, toRelease, toExtend, now, faults>>

Deduct(n) == IF avail >= n THEN avail - n ELSE 0  \* GREATEST(avail - n, 0)

\* It then confirms the booking, whatever its status has become.
Confirm(c, r) ==
  /\ Doing(c, "paying", r)
  /\ RowFree
  /\ avail' = Deduct(Seats[r])
  /\ IF call[c].toConvert = NoLock THEN UNCHANGED lock
     ELSE SetStatus(call[c].toConvert, "converted")
  /\ Goto(r, "confirmed")
  /\ EndCall(c, r)
  /\ UNCHANGED <<rowLock, toRelease, toExtend, now, faults>>

\* cancelBooking reads the booking before its transaction ...
ReadCancel(c, r) ==
  /\ request[r].pc \in {"pending", "confirmed"}
  /\ BeginCall(c, [doing |-> "cancelling", booking |-> r,
                   read |-> request[r].pc, toConvert |-> NoLock])
  /\ UNCHANGED <<avail, lock, rowLock, request, toRelease, toExtend, now, faults>>

RestoreMutant(c, r) == avail \* seats not given back
Restore(c, r) == IF call[c].read = "confirmed" THEN avail + Seats[r] ELSE avail

\* ... which cancels unconditionally, and restores if the copy was confirmed.
Cancel(c, r) ==
  /\ Doing(c, "cancelling", r)
  /\ call[c].read = "confirmed" => RowFree
  /\ avail' = Restore(c, r)
  /\ Goto(r, "cancelled")
  /\ EndCall(c, r)
  /\ UNCHANGED <<lock, rowLock, toRelease, toExtend, now, faults>>

\* The clean-up of bookings pending for too long: one conditional UPDATE.
ExpireBooking(r) ==
  /\ At(r, "pending")
  /\ Goto(r, "cancelled")
  /\ UNCHANGED <<avail, lock, rowLock, toRelease, toExtend, callVars, now, faults>>

\* No transaction outlives the database's lock wait timeout.
Tick ==
  /\ now < MaxTime
  /\ \A r \in Requests :
       request[r].pc \in InTransaction => now < request[r].started + TxTimeout
  /\ now' = now + 1
  /\ UNCHANGED <<avail, lock, rowLock, request, toRelease, toExtend, callVars, faults>>

(***************************************************************************)
(* Specification                                                           *)
(***************************************************************************)
\* The steps a running createBooking takes by itself.
Progress(r) ==
  \/ LockFlightRow(r) \/ CountLocks(r) \/ GrantLock(r) \/ RefuseLock(r)
  \/ CheckAvailability(r) \/ InsertBooking(r) \/ ConvertLock(r)

Next ==
  \/ \E r \in Requests :
       \/ BeginLock(r) \/ BeginLockUnswept(r)
       \/ \E l \in Locks : UseLock(r, l) \/ UseStaleLock(r, l)
       \/ Progress(r)
       \/ RollbackLock(r) \/ FailBooking(r) \/ SkipConvert(r)
       \/ ExpireBooking(r)
       \/ \E c \in Calls : \/ ReadPayment(c, r) \/ Confirm(c, r)
                           \/ ReadCancel(c, r) \/ Cancel(c, r)
  \/ \E l \in Locks :
       ReleaseInventoryLock(l) \/ BeginExtend(l) \/ ExtendLock(l)
  \/ GetAvailableSeats
  \/ Tick

Spec == Init /\ [][Next]_vars

\* A request that runs keeps being scheduled by the event loop, and InnoDB
\* hands a row lock to its waiters in the order they asked for it.
Fairness == \A r \in Requests :
              WF_vars(Progress(r) /\ ~At(r, "waiting")) /\ SF_vars(LockFlightRow(r))
FairSpec == Spec /\ Fairness

(***************************************************************************)
(* Properties                                                              *)
(***************************************************************************)
TypeOK ==
  /\ avail \in Nat
  /\ lock \in [Locks -> LockRow]
  /\ rowLock \in Requests \cup {NoRequest}
  /\ request \in [Requests -> RequestRow]
  /\ toRelease \in SUBSET Locks
  /\ toExtend \in SUBSET Locks
  /\ call \in [Calls -> CallRow]
  /\ missedSeats \in Nat
  /\ now \in Nat
  /\ faults \in 0..MaxFaults

\* The locks granted on a cabin never exceed what the cabin has left at the
\* moment of the grant, however many requests run createInventoryLock at once
\* and whatever happens to other locks between their steps.
GrantFits == [][SumSeats(Active)' > SumSeats(Active)
                  => SumSeats(Active)' <= avail']_vars

\* The lock transaction counts no lock that had expired when the request
\* began, provided its sweep succeeded: nobody is turned away for seats
\* that an abandoned checkout no longer holds.
CountsLiveLocks ==
  \A r \in Requests :
    At(r, "deciding") /\ request[r].swept =>
      \A l \in request[r].counted : lock[l].expiresAt >= request[r].started

\* What is not on sale is held by confirmed bookings, even when the
\* GREATEST(..., 0) of the webhook has clamped; seats get lost only to a
\* payment or a cancellation that wrote from a copy of the booking older than
\* its payment, each losing its own booking's seats at most.
SeatsOf(R) == Cardinality({u \in R \X (1..MaxSeats) : u[2] <= Seats[u[1]]})
Confirmed == {r \in Requests : At(r, "confirmed")}
NoSeatLost == avail + SeatsOf(Confirmed) + missedSeats >= Capacity

\* Only the request that is between its FOR UPDATE and its commit holds the
\* flight row, and the availability it read is still the current one.
RowLockGuardsRead ==
  \A r \in Requests :
    /\ request[r].pc \in {"counting", "deciding"} <=> rowLock = r
    /\ rowLock = r => request[r].seen = avail

\* Every createBooking that was started finishes: it is refused or leaves a
\* booking, and no request waits for the flight row for ever.
RequestsFinish ==
  \A r \in Requests : request[r].pc \in Creating ~> request[r].pc \notin Creating

\* The service's promise (inventory-lock.service.ts:8, "Prevents double
\* booking by temporarily locking seats during checkout"): the confirmed
\* bookings of a cabin fit in it.
NoDoubleBooking == SeatsOf(Confirmed) <= Capacity
=============================================================================
