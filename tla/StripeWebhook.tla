---------------------------- MODULE StripeWebhook ----------------------------
(***************************************************************************)
(* The life of bookings on one flight and cabin, once createBooking has    *)
(* inserted them: the Stripe webhook (webhooks/stripe.ts), cancelBooking,  *)
(* createRefund, the clean-up of unpaid bookings and the legacy            *)
(* payments.create.                                                        *)
(*                                                                         *)
(* Stripe delivers an event at least once and again until it gets a 200.   *)
(* A delivery is served by a worker, that is, by one run of                *)
(* handleStripeWebhook; an API call is served by a request.  Each await    *)
(* that reads or writes shared state is a step.  A database transaction    *)
(* reads its snapshot first, then updates rows, which makes it wait for    *)
(* other transactions holding them, then commits: its writes are visible   *)
(* from the commit on.                                                     *)
(***************************************************************************)
EXTENDS Integers, FiniteSets

CONSTANTS
  Bookings, Seats,        \* Seats[b] = numberOfPassengers of b
  Capacity,               \* seats on sale when the model starts
  Events, Kind, BookingOf,\* Stripe events: their type and metadata.bookingId
  TaggedKinds,            \* types whose object carries metadata.bookingId
  Workers, Requests,      \* webhook deliveries and API calls in progress
  MaxActive,              \* how many of them run at the same time
  Legacy,                 \* whether payments.create is used
  MaxDuplicates, MaxFaults, MaxRequests, MaxAbandoned,  \* bounds
  None

Kinds == {"checkout", "pi_succeeded", "pi_failed", "full_refund", "part_refund"}

ASSUME ConstantsAssumption ==
  /\ Seats \in [Bookings -> Nat \ {0}]
  /\ Capacity \in Nat
  /\ Kind \in [Events -> Kinds]
  /\ BookingOf \in [Events -> Bookings]
  /\ TaggedKinds \subseteq Kinds
  /\ MaxActive \in Nat /\ Legacy \in BOOLEAN
  /\ MaxDuplicates \in Nat /\ MaxFaults \in Nat /\ MaxRequests \in Nat
  /\ MaxAbandoned \in Nat
  /\ None \notin Bookings /\ None \notin Events

VARIABLES
  booking,   \* bookings: status, paymentStatus, whether a payment intent is set
  avail,     \* flights.xAvailable
  outbox,    \* Stripe's view of an event: unsent, pending, acked
  row,       \* stripe_events: absent, unprocessed, processed
  worker, request,
  refunded,  \* what Stripe has paid back of a booking: none, part, full
  postTasks, \* sendConfirmationAndAwardMiles calls queued for a booking
  \* history, read by no action
  applied,   \* commits of the handler of an event
  charges,   \* "charge" rows of financial_ledger for a booking
  deducted, restored, \* how often the seats of a booking were taken, given back
  early,     \* bookings whose post tasks ran before any commit confirmed them
  duplicates, faults, requests, abandoned

db == <<booking, avail, charges, deducted, restored>>
webhook == <<outbox, row, worker, applied>>
api == <<request, refunded>>
tasks == <<postTasks, early>>
bounds == <<duplicates, faults, requests, abandoned>>
vars == <<db, webhook, api, tasks, bounds>>

(***************************************************************************)
(* Types                                                                   *)
(***************************************************************************)
BookingRow == [status : {"pending", "confirmed", "cancelled", "completed"},
               pay    : {"pending", "paid", "refunded", "failed"},
               pi     : BOOLEAN]
Unpaid == [status |-> "pending", pay |-> "pending", pi |-> FALSE]
IsPaid(bk) == bk.status = "confirmed" /\ bk.pay = "paid"

\* pc is the await the handler is at; "committing" has run its updates and
\* holds the rows, "responding" is about to send 200, "failed" to send 500.
WorkerPc == {"idle", "dedup", "inserting", "recheck", "loading", "updating",
             "committing", "responding", "failed"}
WorkerRow == [pc : WorkerPc, ev : Events \cup {None}, seen : BookingRow,
              writes : BOOLEAN]
IdleWorker == [pc |-> "idle", ev |-> None, seen |-> Unpaid, writes |-> FALSE]

RequestPc == {"idle", "cancelling", "refunding", "recording", "restoring"}
RequestRow == [pc : RequestPc, b : Bookings \cup {None}, seen : BookingRow,
               full : BOOLEAN]
IdleRequest == [pc |-> "idle", b |-> None, seen |-> Unpaid, full |-> FALSE]

Init ==
  /\ booking = [b \in Bookings |-> Unpaid]
  /\ avail = Capacity
  /\ outbox = [e \in Events |-> "unsent"]
  /\ row = [e \in Events |-> "absent"]
  /\ worker = [w \in Workers |-> IdleWorker]
  /\ request = [r \in Requests |-> IdleRequest]
  /\ refunded = [b \in Bookings |-> "none"]
  /\ postTasks = [b \in Bookings |-> 0]
  /\ applied = [e \in Events |-> 0]
  /\ charges = [b \in Bookings |-> 0]
  /\ deducted = [b \in Bookings |-> 0]
  /\ restored = [b \in Bookings |-> 0]
  /\ early = {}
  /\ duplicates = 0 /\ faults = 0 /\ requests = 0 /\ abandoned = 0

Active == {w \in Workers : worker[w].pc # "idle"}
            \cup {r \in Requests : request[r].pc # "idle"}
MayStart == Cardinality(Active) < MaxActive

At(w, pc) == worker[w].pc = pc
Goto(w, pc) == worker' = [worker EXCEPT ![w].pc = pc]
Ev(w) == worker[w].ev
Bk(w) == BookingOf[Ev(w)]
Fault == faults < MaxFaults /\ faults' = faults + 1

(***************************************************************************)
(* Stripe                                                                  *)
(***************************************************************************)
\* The customer pays, fails to pay or is paid back.  A refund event follows
\* a payment.
Emit(e) ==
  /\ outbox[e] = "unsent"
  /\ Kind[e] \in {"full_refund", "part_refund"} =>
       \E p \in Events : Kind[p] = "checkout" /\ BookingOf[p] = BookingOf[e]
                           /\ outbox[p] # "unsent"
  /\ outbox' = [outbox EXCEPT ![e] = "pending"]
  /\ UNCHANGED <<db, api, tasks, bounds, row, worker, applied>>

\* A delivery.  It is a duplicate when the event is acknowledged already or
\* another delivery of it is still running.
Deliver(w, e) ==
  LET duplicate == outbox[e] = "acked" \/ \E v \in Workers : Ev(v) = e IN
  /\ MayStart
  /\ At(w, "idle")
  /\ outbox[e] # "unsent"
  /\ duplicate => duplicates < MaxDuplicates
  /\ duplicates' = IF duplicate THEN duplicates + 1 ELSE duplicates
  /\ worker' = [worker EXCEPT ![w] = [IdleWorker EXCEPT !.pc = "dedup", !.ev = e]]
  /\ UNCHANGED <<db, api, tasks, outbox, row, applied, faults, requests,
                 abandoned>>

(***************************************************************************)
(* handleStripeWebhook                                                     *)
(***************************************************************************)
\* 200: Stripe stops delivering.
Ack(w) ==
  /\ outbox' = [outbox EXCEPT ![Ev(w)] = "acked"]
  /\ worker' = [worker EXCEPT ![w] = IdleWorker]

\* SELECT ... FROM stripe_events, first and after a duplicate insert.
CheckProcessed(w) ==
  /\ worker[w].pc \in {"dedup", "recheck"}
  /\ \/ row[Ev(w)] = "processed" /\ Ack(w)
     \/ /\ row[Ev(w)] # "processed"
        /\ Goto(w, IF At(w, "dedup") /\ row[Ev(w)] = "absent"
                   THEN "inserting" ELSE "loading")
        /\ UNCHANGED outbox
  /\ UNCHANGED <<db, api, tasks, bounds, row, applied>>

StoredMutant == "processed" \* the event stored as processed at once
Stored == "unprocessed"
InsertEvent(w) ==
  /\ At(w, "inserting")
  /\ IF row[Ev(w)] = "absent"
     THEN row' = [row EXCEPT ![Ev(w)] = Stored] /\ Goto(w, "loading")
     ELSE Goto(w, "recheck") /\ UNCHANGED row
  /\ UNCHANGED <<db, api, tasks, bounds, outbox, applied>>

\* What the handler of the event makes of the booking it loads: it throws,
\* it writes, or it returns having done nothing.
Tagged(e) == Kind[e] \in TaggedKinds
RejectsMutant(e, bk) == \* any booking may be confirmed
  Kind[e] = "checkout" /\ ~Tagged(e)
RejectsFailedMutant(e, bk) == \* a booking whose payment failed once is stuck
  Kind[e] = "checkout" /\ (~Tagged(e) \/ bk.pay = "failed")
Rejects(e, bk) ==
  /\ Kind[e] = "checkout"
  /\ ~Tagged(e) \/ bk.status \notin {"pending", "confirmed"}
Writes(e, bk) ==
  \/ Kind[e] = "checkout" /\ ~Rejects(e, bk) /\ ~IsPaid(bk)
  \/ Kind[e] = "pi_succeeded" /\ Tagged(e) /\ bk.status = "pending"
  \/ Kind[e] = "pi_failed" /\ (Tagged(e) \/ bk.pi) /\ bk.status = "pending"
  \/ Kind[e] \in {"full_refund", "part_refund"} /\ Tagged(e)

LoadBooking(w) ==
  LET e == Ev(w)  bk == booking[Bk(w)] IN
  /\ At(w, "loading")
  /\ worker' = [worker EXCEPT ![w] =
       [pc |-> IF Rejects(e, bk) THEN "failed"
               ELSE IF Writes(e, bk) THEN "updating" ELSE "committing",
        ev |-> e, seen |-> bk, writes |-> Writes(e, bk)]]
  /\ UNCHANGED <<db, api, tasks, bounds, outbox, row, applied>>

\* Which handlers touch the seat counter, and how.
DeductsMutant(w) == FALSE \* as in stripe-webhook-v2.service.ts
Deducts(w) == Kind[Ev(w)] = "checkout" /\ worker[w].seen.status # "confirmed"
Restores(w) == /\ Kind[Ev(w)] = "full_refund"
               /\ worker[w].seen.status = "confirmed" \/ worker[w].seen.pay = "paid"

\* Row locks of the transactions that wait for their commit.
Holders == {w \in Workers : At(w, "committing") /\ worker[w].writes}
BookingFree(b) == \A w \in Holders : Bk(w) # b
FlightFree == \A w \in Holders : ~Deducts(w) /\ ~Restores(w)

\* The updates of the handler.  That of a completed checkout ends with a
\* setImmediate, which does not wait for the commit.
RunUpdates(w) ==
  /\ At(w, "updating")
  /\ BookingFree(Bk(w))
  /\ Deducts(w) \/ Restores(w) => FlightFree
  /\ Goto(w, "committing")
  /\ postTasks' = IF Kind[Ev(w)] = "checkout"
                  THEN [postTasks EXCEPT ![Bk(w)] = @ + 1] ELSE postTasks
  /\ UNCHANGED <<db, api, bounds, outbox, row, applied, early>>

\* The columns a handler sets; the others keep their value.
PayAfter == [checkout |-> "paid", pi_succeeded |-> "paid", pi_failed |-> "failed",
             full_refund |-> "refunded", part_refund |-> "refunded"]
Confirms(w) == Kind[Ev(w)] \in {"checkout", "pi_succeeded"}
NewBooking(w) ==
  [status |-> IF Confirms(w) THEN "confirmed"
              ELSE IF Kind[Ev(w)] = "full_refund" THEN "cancelled"
              ELSE IF Kind[Ev(w)] = "part_refund" THEN worker[w].seen.status
              ELSE booking[Bk(w)].status,
   pay    |-> PayAfter[Kind[Ev(w)]],
   pi     |-> Confirms(w) \/ booking[Bk(w)].pi]

NewAvail(w) ==
  LET n == Seats[Bk(w)] IN
  IF Deducts(w) THEN (IF avail >= n THEN avail - n ELSE 0)
  ELSE IF Restores(w) THEN avail + n ELSE avail

Bump(f, b, yes) == IF yes THEN [f EXCEPT ![b] = @ + 1] ELSE f

EffectsMutant(w) == \* a second charge of a booking left out of the ledger
  LET b == Bk(w) IN
  /\ booking' = [booking EXCEPT ![b] = NewBooking(w)]
  /\ avail' = NewAvail(w)
  /\ charges' = Bump(charges, b, Kind[Ev(w)] = "checkout" /\ charges[b] = 0)
  /\ deducted' = Bump(deducted, b, Deducts(w))
  /\ restored' = Bump(restored, b, Restores(w))

\* The effects of a handler that writes, all in one transaction.
Effects(w) ==
  LET b == Bk(w) IN
  /\ booking' = [booking EXCEPT ![b] = NewBooking(w)]
  /\ avail' = NewAvail(w)
  /\ charges' = Bump(charges, b, Kind[Ev(w)] = "checkout")
  /\ deducted' = Bump(deducted, b, Deducts(w))
  /\ restored' = Bump(restored, b, Restores(w))

Commit(w) ==
  /\ At(w, "committing")
  /\ IF worker[w].writes THEN Effects(w) ELSE UNCHANGED db
  /\ row' = [row EXCEPT ![Ev(w)] = "processed"]
  /\ applied' = [applied EXCEPT ![Ev(w)] = @ + 1]
  /\ Goto(w, "responding")
  /\ UNCHANGED <<api, tasks, bounds, outbox>>

Respond(w) ==
  /\ At(w, "responding")
  /\ Ack(w)
  /\ UNCHANGED <<db, api, tasks, bounds, row, applied>>

\* Any statement up to the commit may fail; the transaction rolls back.
Fail(w) ==
  /\ worker[w].pc \in WorkerPc \ {"idle", "responding", "failed"}
  /\ Fault
  /\ Goto(w, "failed")
  /\ UNCHANGED <<db, api, tasks, outbox, row, applied, duplicates, requests,
                 abandoned>>

MarkFailedMutant(w) == \* 200 from the catch block
  /\ At(w, "failed")
  /\ Ack(w)
  /\ UNCHANGED <<db, api, tasks, bounds, row, applied>>

\* catch: processed := false whatever it has become, then 500.
MarkFailed(w) ==
  LET e == Ev(w) IN
  /\ At(w, "failed")
  /\ row' = [row EXCEPT ![e] = IF @ = "absent" THEN @ ELSE "unprocessed"]
  /\ worker' = [worker EXCEPT ![w] = IdleWorker]
  /\ UNCHANGED <<db, api, tasks, bounds, outbox, applied>>

\* The server dies, or the response is lost: Stripe hears nothing.
Crash(w) ==
  /\ ~At(w, "idle")
  /\ Fault
  /\ worker' = [worker EXCEPT ![w] = IdleWorker]
  /\ UNCHANGED <<db, api, tasks, outbox, row, applied, duplicates, requests,
                 abandoned>>

\* sendConfirmationAndAwardMiles: confirmation, e-tickets, miles.
RunPostTask(b) ==
  /\ postTasks[b] > 0
  /\ postTasks' = [postTasks EXCEPT ![b] = @ - 1]
  /\ early' = IF charges[b] = 0 THEN early \cup {b} ELSE early
  /\ UNCHANGED <<db, webhook, api, bounds>>

(***************************************************************************)
(* cancelBooking                                                           *)
(***************************************************************************)
StartRequest(r, pc, b, full) ==
  /\ MayStart
  /\ request[r].pc = "idle"
  /\ requests < MaxRequests
  /\ requests' = requests + 1
  /\ request' = [request EXCEPT ![r] =
                   [pc |-> pc, b |-> b, seen |-> booking[b], full |-> full]]

EndRequest(r) == request' = [request EXCEPT ![r] = IdleRequest]

\* getBookingById, outside the transaction.
BeginCancel(r, b) ==
  /\ booking[b].status \notin {"cancelled", "completed"}
  /\ StartRequest(r, "cancelling", b, FALSE)
  /\ UNCHANGED <<db, webhook, tasks, refunded, duplicates, faults, abandoned>>

CancelTx(r) ==
  LET b == request[r].b  back == IsPaid(request[r].seen) IN
  /\ request[r].pc = "cancelling"
  /\ BookingFree(b) /\ (back => FlightFree)
  /\ booking' = [booking EXCEPT ![b].status = "cancelled"]
  /\ avail' = IF back THEN avail + Seats[b] ELSE avail
  /\ restored' = Bump(restored, b, back)
  /\ EndRequest(r)
  /\ UNCHANGED <<webhook, tasks, bounds, charges, deducted, refunded>>

(***************************************************************************)
(* createRefund: reads, calls Stripe, then updates outside a transaction   *)
(***************************************************************************)
BeginRefund(r, b) ==
  /\ booking[b].pay = "paid" /\ booking[b].pi
  /\ \E full \in BOOLEAN : StartRequest(r, "refunding", b, full)
  /\ UNCHANGED <<db, webhook, tasks, refunded, duplicates, faults, abandoned>>

\* stripe.refunds.create: Stripe refuses to pay back more than was paid.
CallStripe(r) ==
  LET b == request[r].b  full == request[r].full IN
  /\ request[r].pc = "refunding"
  /\ IF refunded[b] = "full" \/ (full /\ refunded[b] # "none")
     THEN EndRequest(r) /\ UNCHANGED refunded
     ELSE /\ refunded' = [refunded EXCEPT ![b] = IF full THEN "full" ELSE "part"]
          /\ request' = [request EXCEPT ![r].pc = "recording"]
  /\ UNCHANGED <<db, webhook, tasks, bounds>>

RecordRefund(r) ==
  LET b == request[r].b  full == request[r].full  seen == request[r].seen IN
  /\ request[r].pc = "recording"
  /\ BookingFree(b)
  /\ booking' = [booking EXCEPT ![b] =
       [status |-> IF full THEN "cancelled" ELSE seen.status,
        pay    |-> IF full THEN "refunded" ELSE "paid",
        pi     |-> booking[b].pi]]
  /\ IF full /\ seen.status = "confirmed"
     THEN request' = [request EXCEPT ![r].pc = "restoring"]
     ELSE EndRequest(r)
  /\ UNCHANGED <<webhook, tasks, bounds, avail, charges, deducted, restored,
                 refunded>>

RestoreSeats(r) ==
  LET b == request[r].b IN
  /\ request[r].pc = "restoring"
  /\ FlightFree
  /\ avail' = avail + Seats[b]
  /\ restored' = Bump(restored, b, TRUE)
  /\ EndRequest(r)
  /\ UNCHANGED <<webhook, tasks, bounds, booking, charges, deducted,
                 refunded>>

\* The server dies between two statements of an API call.
Abandon(r) ==
  /\ request[r].pc # "idle"
  /\ abandoned < MaxAbandoned /\ abandoned' = abandoned + 1
  /\ EndRequest(r)
  /\ UNCHANGED <<db, webhook, refunded, tasks, duplicates, faults, requests>>

(***************************************************************************)
(* The clean-up job and the legacy payment                                 *)
(***************************************************************************)
\* cleanupExpiredBookings: one conditional UPDATE.
ExpireBooking(b) ==
  /\ MayStart
  /\ booking[b].status = "pending"
  /\ BookingFree(b)
  /\ booking' = [booking EXCEPT ![b].status = "cancelled"]
  /\ UNCHANGED <<webhook, api, tasks, bounds, avail, charges, deducted,
                 restored>>

\* payments.create: updateBookingStatus(confirmed) whatever the status is.
CreatePayment(b) ==
  /\ Legacy /\ MayStart
  /\ requests < MaxRequests /\ requests' = requests + 1
  /\ BookingFree(b)
  /\ booking' = [booking EXCEPT ![b].status = "confirmed"]
  /\ UNCHANGED <<webhook, api, tasks, avail, charges, deducted, restored,
                 duplicates, faults, abandoned>>

(***************************************************************************)
(* Specification                                                           *)
(***************************************************************************)
Handle(w) == \/ CheckProcessed(w) \/ InsertEvent(w) \/ LoadBooking(w)
             \/ RunUpdates(w) \/ Commit(w) \/ Respond(w) \/ MarkFailed(w)
Serve(r) == CancelTx(r) \/ CallStripe(r) \/ RecordRefund(r) \/ RestoreSeats(r)

Next ==
  \/ \E e \in Events : Emit(e)
  \/ \E w \in Workers : \/ \E e \in Events : Deliver(w, e)
                        \/ Handle(w) \/ Fail(w) \/ Crash(w)
  \/ \E r \in Requests : \/ \E b \in Bookings : BeginCancel(r, b) \/ BeginRefund(r, b)
                         \/ Serve(r) \/ Abandon(r)
  \/ \E b \in Bookings : RunPostTask(b) \/ ExpireBooking(b) \/ CreatePayment(b)

Spec == Init /\ [][Next]_vars

\* The event loop keeps running what it started, and Stripe retries an
\* event until it is acknowledged.
Fairness ==
  /\ \A w \in Workers : WF_vars(Handle(w))
  /\ \A r \in Requests : WF_vars(Serve(r))
  /\ \A e \in Events :
       SF_vars(outbox[e] = "pending" /\ \E w \in Workers : Deliver(w, e))
FairSpec == Spec /\ Fairness

(***************************************************************************)
(* Properties                                                              *)
(***************************************************************************)
TypeOK ==
  /\ booking \in [Bookings -> BookingRow]
  /\ avail \in Nat
  /\ outbox \in [Events -> {"unsent", "pending", "acked"}]
  /\ row \in [Events -> {"absent", "unprocessed", "processed"}]
  /\ worker \in [Workers -> WorkerRow]
  /\ request \in [Requests -> RequestRow]
  /\ refunded \in [Bookings -> {"none", "part", "full"}]
  /\ postTasks \in [Bookings -> Nat]
  /\ applied \in [Events -> Nat]
  /\ charges \in [Bookings -> Nat]
  /\ deducted \in [Bookings -> Nat]
  /\ restored \in [Bookings -> Nat]
  /\ early \in SUBSET Bookings
  /\ duplicates \in Nat /\ faults \in Nat
  /\ requests \in Nat /\ abandoned \in Nat

\* Stripe stops retrying an event only when its handler has committed: no
\* crash, failure or concurrent delivery loses a payment.
AckedWasApplied == \A e \in Events : outbox[e] = "acked" => applied[e] > 0

\* The processed mark commits together with the effects of the event.
ProcessedWasApplied == \A e \in Events : row[e] = "processed" => applied[e] > 0

\* Seats are taken only together with a ledger entry for their charge: the
\* handler's updates succeed or fail as one.
DeductionIsLedgered == \A b \in Bookings : deducted[b] <= charges[b]

\* An event of a booking that is not cancelled is acknowledged in the end,
\* whatever fails on the way (stripe.ts:68-73: a 500 makes Stripe retry).
EventsSettle ==
  \A e \in Events : outbox[e] = "pending"
    ~> outbox[e] = "acked" \/ booking[BookingOf[e]].status = "cancelled"

SeatsOf(B) == Cardinality({u \in B \X (1..Capacity) : u[2] <= Seats[u[1]]})
Quiet == \A r \in Requests : request[r].pc # "restoring"

\* The counter agrees with the bookings: a seat is on sale exactly when no
\* confirmed booking holds it.
SeatsMatchBookings ==
  Quiet => avail + SeatsOf({b \in Bookings : booking[b].status = "confirmed"})
             = Capacity

\* A cancelled booking stays cancelled.
CancelledIsFinal ==
  [][\A b \in Bookings : booking[b].status = "cancelled"
                           => booking'[b].status = "cancelled"]_booking

\* stripe.ts:350 "Only allow transition from pending states": a booking
\* becomes confirmed from pending only.
ConfirmedOnlyFromPending ==
  [][\A b \in Bookings :
       booking'[b].status = "confirmed"
         => booking[b].status \in {"pending", "confirmed"}]_booking

\* stripe.ts:5 "De-duplication via stripeEvents table": the seats of a
\* booking are taken once.
SeatsDeductedOnce == \A b \in Bookings : deducted[b] <= 1

\* stripe.ts:360 "Create ledger entry (with uniqueness protection)": the
\* payment of a booking is booked once.
ChargedOnce == \A b \in Bookings : charges[b] <= 1

\* bookings.service.ts:304 "atomically update booking status and restore
\* seats": seats that were taken once are not given back twice.
SeatsRestoredOnce == \A b \in Bookings : restored[b] <= deducted[b]

\* stripe.ts:492-493 "Post-transaction tasks ... executed after commit".
PostTasksAfterCommit == early = {}
=============================================================================
