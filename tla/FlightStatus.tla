---------------------------- MODULE FlightStatus ----------------------------
(***************************************************************************)
(* flight-status.service.ts: the status of a flight, its history, and the  *)
(* cancellation of the flight with the refund of its bookings, beside the  *)
(* payments, cancellations and refunds the customers ask for.  No          *)
(* statement is in a transaction with another: an administrator's call is  *)
(* a look at the flight, its update, the entry in the history and one      *)
(* update for every paid booking; a refund is a look at the booking, the   *)
(* call of Stripe and an update by id of what was read.                    *)
(***************************************************************************)
EXTENDS Integers, FiniteSets, Sequences

CONSTANTS
  FsAdmins,     \* calls of administrators in progress
  FsBookings,   \* bookings of the flight
  FsMaxOps      \* bound on the administrators' calls and the refunds

ASSUME FlightStatusAssumption == FsMaxOps \in Nat

VARIABLES
  fsStatus,     \* flights.status
  fsHistory,    \* flight_status_history
  fsBooking,    \* status and paymentStatus of each booking
  fsCall,       \* what each administrator has under way
  fsRead,       \* bookings that a payment has read as pending and will confirm
  fsAsked,      \* the refund of each booking that is at Stripe, as it was read
  fsOps,
  \* History, for the properties:
  fsDone,       \* a cancellation of the flight has refunded all it found
  fsLate,       \* bookings marked paid after a cancellation had looked for them
  fsMixed       \* calls overlapped, or one failed before its entry was made

fsVars == <<fsStatus, fsHistory, fsBooking, fsCall, fsRead, fsAsked, fsOps, fsDone, fsLate, fsMixed>>

FsStates == {"scheduled", "delayed", "cancelled", "completed"}
FsAllowed == [s \in FsStates |-> CASE s = "scheduled" -> {"delayed", "cancelled", "completed"}
                                   [] s = "delayed" -> {"scheduled", "cancelled", "completed"}
                                   [] OTHER -> {}]
FsIdle == [doing |-> "idle", old |-> "scheduled", new |-> "scheduled",
           refund |-> FALSE, left |-> {}]
FsNotAsked == [status |-> "pending", pay |-> "pending"]

FSInit ==
  /\ fsStatus = "scheduled" /\ fsHistory = <<>>
  /\ fsBooking = [b \in FsBookings |-> [status |-> "pending", pay |-> "pending"]]
  /\ fsCall = [k \in FsAdmins |-> FsIdle]
  /\ fsRead = {} /\ fsAsked = [b \in FsBookings |-> FsNotAsked]
  /\ fsOps = 0 /\ fsDone = FALSE /\ fsLate = {} /\ fsMixed = FALSE

FsDoing(k, what) == fsCall[k].doing = what
FsSet(k, call) == fsCall' = [fsCall EXCEPT ![k] = call]
FsMark(b, status, pay) ==
  fsBooking' = [fsBooking EXCEPT ![b] = [status |-> status, pay |-> pay]]

\* updateFlightStatus, alone or as the first part of cancelFlightAndRefund.
FSReadFlight(k, new, refund) ==
  /\ FsDoing(k, "idle") /\ fsOps < FsMaxOps
  /\ new \in FsAllowed[fsStatus] /\ (refund => new = "cancelled")
  /\ FsSet(k, [doing |-> "write", old |-> fsStatus, new |-> new,
               refund |-> refund, left |-> {}])
  /\ fsMixed' = (fsMixed \/ \E j \in FsAdmins : FsDoing(j, "write") \/ FsDoing(j, "log"))
  /\ fsOps' = fsOps + 1
  /\ UNCHANGED <<fsStatus, fsHistory, fsBooking, fsRead, fsAsked, fsDone, fsLate>>

FSWriteStatus(k) ==
  /\ FsDoing(k, "write")
  /\ fsStatus' = fsCall[k].new
  /\ FsSet(k, [fsCall[k] EXCEPT !.doing = "log"])
  /\ UNCHANGED <<fsHistory, fsBooking, fsRead, fsAsked, fsOps, fsDone, fsLate, fsMixed>>

FSLog(k) ==
  /\ FsDoing(k, "log")
  /\ fsHistory' = Append(fsHistory, <<fsCall[k].old, fsCall[k].new>>)
  /\ FsSet(k, IF fsCall[k].refund THEN [fsCall[k] EXCEPT !.doing = "find"] ELSE FsIdle)
  /\ UNCHANGED <<fsStatus, fsBooking, fsRead, fsAsked, fsOps, fsDone, fsLate, fsMixed>>

\* The bookings to refund: those that are paid, whatever became of them.
FsPaidMutant == {b \in FsBookings : fsBooking[b].status = "confirmed"}
FsPaid == {b \in FsBookings : fsBooking[b].pay = "paid"}
FSFindPaid(k) ==
  /\ FsDoing(k, "find")
  /\ FsSet(k, [fsCall[k] EXCEPT !.doing = "refund", !.left = FsPaid])
  /\ UNCHANGED <<fsStatus, fsHistory, fsBooking, fsRead, fsAsked, fsOps, fsDone, fsLate, fsMixed>>

\* The update of one booking: no refund is made at Stripe.
FSMarkRefunded(k, b) ==
  /\ FsDoing(k, "refund") /\ b \in fsCall[k].left
  /\ FsMark(b, "cancelled", "refunded")
  /\ FsSet(k, [fsCall[k] EXCEPT !.left = fsCall[k].left \ {b}])
  /\ UNCHANGED <<fsStatus, fsHistory, fsRead, fsAsked, fsOps, fsDone, fsLate, fsMixed>>

FSEnd(k) ==
  /\ FsDoing(k, "refund") /\ fsCall[k].left = {}
  /\ FsSet(k, FsIdle) /\ fsDone' = TRUE
  /\ UNCHANGED <<fsStatus, fsHistory, fsBooking, fsRead, fsAsked, fsOps, fsLate, fsMixed>>

\* A statement or a notification fails.  The flight stays cancelled, and as no
\* status follows "cancelled" the call cannot be repeated.
FSFail(k) ==
  /\ ~FsDoing(k, "idle")
  /\ FsSet(k, FsIdle)
  /\ fsMixed' = (fsMixed \/ FsDoing(k, "log"))
  /\ UNCHANGED <<fsStatus, fsHistory, fsBooking, fsRead, fsAsked, fsOps, fsDone, fsLate>>

\* The bookings whose mark as paid comes too late for a cancellation.
FsNowLate(b) ==
  IF fsDone \/ \E k \in FsAdmins : FsDoing(k, "refund") THEN fsLate \cup {b} ELSE fsLate

\* The payment is handled, whatever the status of the flight (webhooks/stripe.ts):
\* the event reads the booking without a lock, and then marks it by its id.
FSReadPayment(b) ==
  /\ fsBooking[b].status = "pending" /\ b \notin fsRead
  /\ fsRead' = fsRead \cup {b}
  /\ UNCHANGED <<fsStatus, fsHistory, fsBooking, fsCall, fsAsked, fsOps, fsDone, fsLate, fsMixed>>
FSPay(b) ==
  /\ b \in fsRead /\ fsRead' = fsRead \ {b}
  /\ FsMark(b, "confirmed", "paid") /\ fsLate' = FsNowLate(b)
  /\ UNCHANGED <<fsStatus, fsHistory, fsCall, fsAsked, fsOps, fsDone, fsMixed>>
\* It fails and is rolled back.
FSPayFails(b) ==
  /\ b \in fsRead /\ fsRead' = fsRead \ {b}
  /\ UNCHANGED <<fsStatus, fsHistory, fsBooking, fsCall, fsAsked, fsOps, fsDone, fsLate, fsMixed>>

\* cancelBooking leaves the payment as it is.
FSCancelBooking(b) ==
  /\ fsBooking[b].status # "cancelled"
  /\ FsMark(b, "cancelled", fsBooking[b].pay)
  /\ UNCHANGED <<fsStatus, fsHistory, fsCall, fsRead, fsAsked, fsOps, fsDone, fsLate, fsMixed>>

\* createRefund: of the whole amount, or of a part after the cancellation fee.
FSAskRefund(b) ==
  /\ fsBooking[b].pay = "paid" /\ fsAsked[b] = FsNotAsked /\ fsOps < FsMaxOps
  /\ fsAsked' = [fsAsked EXCEPT ![b] = fsBooking[b]] /\ fsOps' = fsOps + 1
  /\ UNCHANGED <<fsStatus, fsHistory, fsBooking, fsCall, fsRead, fsDone, fsLate, fsMixed>>

FsAnswered(b) ==
  /\ fsAsked[b] # FsNotAsked
  /\ fsAsked' = [fsAsked EXCEPT ![b] = FsNotAsked]
  /\ UNCHANGED <<fsStatus, fsHistory, fsCall, fsRead, fsOps, fsDone, fsMixed>>
FSRecordRefund(b) == FsAnswered(b) /\ FsMark(b, "cancelled", "refunded") /\ UNCHANGED fsLate
FSRecordPart(b) ==
  /\ FsAnswered(b) /\ FsMark(b, fsAsked[b].status, "paid")
  /\ fsLate' = FsNowLate(b)
FSRefundFails(b) == FsAnswered(b) /\ UNCHANGED <<fsBooking, fsLate>>

FSNext ==
  \/ \E k \in FsAdmins, new \in FsStates, refund \in BOOLEAN : FSReadFlight(k, new, refund)
  \/ \E k \in FsAdmins :
       FSWriteStatus(k) \/ FSLog(k) \/ FSFindPaid(k) \/ FSEnd(k) \/ FSFail(k)
  \/ \E k \in FsAdmins, b \in FsBookings : FSMarkRefunded(k, b)
  \/ \E b \in FsBookings :
       \/ FSReadPayment(b) \/ FSPay(b) \/ FSPayFails(b)
       \/ FSCancelBooking(b) \/ FSAskRefund(b)
       \/ FSRecordRefund(b) \/ FSRecordPart(b) \/ FSRefundFails(b)

FSSpec == FSInit /\ [][FSNext]_fsVars

FSTypeOK ==
  /\ fsStatus \in FsStates /\ fsHistory \in Seq(FsStates \X FsStates)
  /\ fsBooking \in [FsBookings -> [status : {"pending", "confirmed", "cancelled"},
                                   pay : {"pending", "paid", "refunded"}]]
  /\ fsRead \subseteq FsBookings /\ fsLate \subseteq FsBookings /\ fsOps \in 0..FsMaxOps
  /\ fsDone \in BOOLEAN /\ fsMixed \in BOOLEAN

\* Once a cancellation of the flight has ended without a failure, no booking
\* stays paid unless it was marked so after the cancellation had looked: a
\* payment that came late, or a partial refund that wrote back what it had
\* read.  And the history of the flight tells how it came to its status,
\* unless administrators' calls overlapped or one failed before its entry.
FSCancellationSettles ==
  /\ fsDone => {b \in FsBookings : fsBooking[b].pay = "paid"} \subseteq fsLate
  /\ ~fsMixed /\ (\A k \in FsAdmins : ~FsDoing(k, "log")) =>
       LET n == Len(fsHistory) IN
       /\ fsStatus = IF n = 0 THEN "scheduled" ELSE fsHistory[n][2]
       /\ \A i \in 1..n : fsHistory[i][1] = IF i = 1 THEN "scheduled" ELSE fsHistory[i - 1][2]
=============================================================================
