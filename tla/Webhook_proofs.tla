-------------------------- MODULE Webhook_proofs -----------------------------
(***************************************************************************)
(* Proofs about the Stripe webhook and about the worker that retries its   *)
(* events: StripeWebhook, for any number of bookings, events, concurrent   *)
(* deliveries and API calls, and WebhookRetry, for any events, attempts    *)
(* and deliveries.  The names of the second part begin with Wr.            *)
(***************************************************************************)
EXTENDS StripeWebhook, WebhookRetry, FiniteSetTheorems, TLAPS

(***************************************************************************)
(* The webhook: an event is marked processed or acknowledged only after    *)
(* its handler committed, and every deduction of seats has its ledger      *)
(* entry.                                                                  *)
(***************************************************************************)
\* A running handler has an event, a running API call a booking.
Busy ==
  /\ \A w \in Workers : ~At(w, "idle") => Ev(w) \in Events
  /\ \A r \in Requests : request[r].pc # "idle" => request[r].b \in Bookings

WellFormed == TypeOK /\ Busy

LEMMA InitWellFormed == Init => WellFormed
  BY ConstantsAssumption
  DEF Init, WellFormed, TypeOK, Busy, Unpaid, IdleWorker, IdleRequest, BookingRow,
      WorkerRow, WorkerPc, RequestRow, RequestPc, At, Ev

\* The row a handler writes is a row of bookings.
LEMMA NewBookingType ==
  ASSUME WellFormed, NEW w \in Workers, ~At(w, "idle")
  PROVE  NewBooking(w) \in BookingRow
<1>1. Ev(w) \in Events /\ Bk(w) \in Bookings /\ Kind[Ev(w)] \in Kinds
  BY ConstantsAssumption DEF WellFormed, Busy, Bk, Ev
<1>2. booking[Bk(w)] \in BookingRow /\ worker[w].seen \in BookingRow
  BY <1>1 DEF WellFormed, TypeOK, WorkerRow
<1>3. QED BY <1>1, <1>2 DEF NewBooking, PayAfter, Confirms, BookingRow, Kinds

LEMMA NewAvailType ==
  ASSUME WellFormed, NEW w \in Workers, ~At(w, "idle")
  PROVE  NewAvail(w) \in Nat
<1>1. Bk(w) \in Bookings BY ConstantsAssumption DEF WellFormed, Busy, Bk, Ev
<1>2. Seats[Bk(w)] \in Nat BY <1>1, ConstantsAssumption
<1>3. QED BY <1>2 DEF NewAvail, WellFormed, TypeOK

LEMMA IdleType ==
  /\ IdleWorker \in WorkerRow /\ IdleWorker.pc = "idle"
  /\ IdleRequest \in RequestRow /\ IdleRequest.pc = "idle"
  BY DEF IdleWorker, WorkerRow, WorkerPc, IdleRequest, RequestRow, RequestPc,
         Unpaid, BookingRow

LEMMA NextWellFormed == WellFormed /\ [Next]_vars => WellFormed'
<1> SUFFICES ASSUME WellFormed, [Next]_vars PROVE WellFormed'
  OBVIOUS
<1> USE DEF WellFormed, TypeOK, Busy, At, Ev, Goto
<1>1. ASSUME NEW e \in Events, Emit(e) PROVE WellFormed'
  BY <1>1 DEF Emit, db, webhook, api, tasks, bounds
<1>2. ASSUME NEW w \in Workers, NEW e \in Events, Deliver(w, e) PROVE WellFormed'
  <2>1. duplicates' \in Nat BY <1>2 DEF Deliver
  <2> DEFINE started == [IdleWorker EXCEPT !.pc = "dedup", !.ev = e]
  <2>2. started \in WorkerRow /\ started.ev \in Events
    BY DEF IdleWorker, WorkerRow, WorkerPc, Unpaid, BookingRow
  <2>3. worker' = [worker EXCEPT ![w] = started] BY <1>2 DEF Deliver
  <2>4. QED BY <1>2, <2>1, <2>2, <2>3 DEF Deliver, db, api, tasks
<1>3. ASSUME NEW w \in Workers, CheckProcessed(w) PROVE WellFormed'
  <2>1. CASE Ack(w)
    BY <1>3, <2>1, IdleType DEF CheckProcessed, Ack, db, api, tasks, bounds
  <2>2. CASE /\ \E pc \in {"inserting", "loading"} :
                  worker' = [worker EXCEPT ![w].pc = pc]
             /\ UNCHANGED outbox
    BY <1>3, <2>2 DEF CheckProcessed, db, api, tasks, bounds, WorkerRow, WorkerPc
  <2>3. QED BY <1>3, <2>1, <2>2 DEF CheckProcessed
<1>4. ASSUME NEW w \in Workers, InsertEvent(w) PROVE WellFormed'
  <2>1. row' \in [Events -> {"absent", "unprocessed", "processed"}]
    BY <1>4 DEF InsertEvent, Stored
  <2>2. PICK pc \in {"loading", "recheck"} : worker' = [worker EXCEPT ![w].pc = pc]
    BY <1>4 DEF InsertEvent
  <2>3. worker' \in [Workers -> WorkerRow]
    BY <2>2 DEF WorkerRow, WorkerPc
  <2>4. QED BY <1>4, <2>1, <2>2, <2>3 DEF InsertEvent, db, api, tasks, bounds
<1>5. ASSUME NEW w \in Workers, LoadBooking(w) PROVE WellFormed'
  <2>1. booking[Bk(w)] \in BookingRow
    BY <1>5, ConstantsAssumption DEF LoadBooking, Bk
  <2>2. Writes(Ev(w), booking[Bk(w)]) \in BOOLEAN BY DEF Writes
  <2>3. QED BY <1>5, <2>1, <2>2 DEF LoadBooking, db, api, tasks, bounds,
                                    WorkerRow, WorkerPc
<1>6. ASSUME NEW w \in Workers, RunUpdates(w) PROVE WellFormed'
  <2>1. Bk(w) \in Bookings BY <1>6, ConstantsAssumption DEF RunUpdates, Bk
  <2>2. postTasks' \in [Bookings -> Nat] BY <1>6, <2>1 DEF RunUpdates
  <2>3. QED BY <1>6, <2>2 DEF RunUpdates, db, api, bounds, WorkerRow, WorkerPc
<1>7. ASSUME NEW w \in Workers, Commit(w) PROVE WellFormed'
  <2>1. NewBooking(w) \in BookingRow BY <1>7, NewBookingType DEF Commit
  <2>2. NewAvail(w) \in Nat BY <1>7, NewAvailType DEF Commit
  <2>3. /\ booking' \in [Bookings -> BookingRow] /\ avail' \in Nat
        /\ charges' \in [Bookings -> Nat] /\ deducted' \in [Bookings -> Nat]
        /\ restored' \in [Bookings -> Nat]
    <3>1. CASE worker[w].writes
      <4>1. Bk(w) \in Bookings BY <1>7, ConstantsAssumption DEF Commit, Bk
      <4>2. Effects(w) BY <1>7, <3>1 DEF Commit
      <4>3. booking' \in [Bookings -> BookingRow] /\ avail' \in Nat
        BY <2>1, <2>2, <4>2 DEF Effects
      <4>4. charges' \in [Bookings -> Nat] BY <4>1, <4>2 DEF Effects, Bump
      <4>5. deducted' \in [Bookings -> Nat] BY <4>1, <4>2 DEF Effects, Bump
      <4>6. restored' \in [Bookings -> Nat] BY <4>1, <4>2 DEF Effects, Bump
      <4>7. QED BY <4>3, <4>4, <4>5, <4>6
    <3>2. CASE ~worker[w].writes
      BY <1>7, <3>2 DEF Commit, db
    <3>3. QED BY <3>1, <3>2
  <2>4. QED BY <1>7, <2>3 DEF Commit, api, tasks, bounds, WorkerRow, WorkerPc
<1>8. ASSUME NEW w \in Workers, Respond(w) PROVE WellFormed'
  BY <1>8, IdleType DEF Respond, Ack, db, api, tasks, bounds
<1>9. ASSUME NEW w \in Workers, Fail(w) PROVE WellFormed'
  BY <1>9 DEF Fail, Fault, db, api, tasks, WorkerRow, WorkerPc
<1>10. ASSUME NEW w \in Workers, MarkFailed(w) PROVE WellFormed'
  BY <1>10, IdleType DEF MarkFailed, db, api, tasks, bounds
<1>11. ASSUME NEW w \in Workers, Crash(w) PROVE WellFormed'
  BY <1>11, IdleType DEF Crash, Fault, db, api, tasks
<1>12. ASSUME NEW b \in Bookings, RunPostTask(b) PROVE WellFormed'
  BY <1>12 DEF RunPostTask, db, webhook, api, bounds
<1>13. ASSUME NEW r \in Requests, NEW b \in Bookings, BeginCancel(r, b)
       PROVE WellFormed'
  BY <1>13 DEF BeginCancel, StartRequest, db, webhook, tasks, RequestRow, RequestPc
<1>14. ASSUME NEW r \in Requests, NEW b \in Bookings, BeginRefund(r, b)
       PROVE WellFormed'
  BY <1>14 DEF BeginRefund, StartRequest, db, webhook, tasks, RequestRow, RequestPc
<1>15. ASSUME NEW r \in Requests, CancelTx(r) PROVE WellFormed'
  <2>1. request[r].b \in Bookings /\ Seats[request[r].b] \in Nat
    BY <1>15, ConstantsAssumption DEF CancelTx
  <2>2. booking' \in [Bookings -> BookingRow]
    BY <1>15 DEF CancelTx, BookingRow
  <2>3. avail' \in Nat BY <1>15, <2>1 DEF CancelTx
  <2>4. restored' \in [Bookings -> Nat] BY <1>15, <2>1 DEF CancelTx, Bump
  <2>5. QED BY <1>15, <2>2, <2>3, <2>4, IdleType
            DEF CancelTx, EndRequest, webhook, tasks, bounds
<1>16. ASSUME NEW r \in Requests, CallStripe(r) PROVE WellFormed'
  <2>1. refunded' \in [Bookings -> {"none", "part", "full"}]
    BY <1>16 DEF CallStripe
  <2>2. CASE request' = [request EXCEPT ![r] = IdleRequest]
    BY <1>16, <2>1, <2>2, IdleType DEF CallStripe, db, webhook, tasks, bounds
  <2>3. CASE request' = [request EXCEPT ![r].pc = "recording"]
    BY <1>16, <2>1, <2>3 DEF CallStripe, db, webhook, tasks, bounds, RequestRow,
                             RequestPc
  <2>4. QED BY <1>16, <2>2, <2>3 DEF CallStripe, EndRequest
<1>17. ASSUME NEW r \in Requests, RecordRefund(r) PROVE WellFormed'
  <2> DEFINE b == request[r].b
             recorded == [status |-> IF request[r].full THEN "cancelled"
                                     ELSE request[r].seen.status,
                          pay    |-> IF request[r].full THEN "refunded" ELSE "paid",
                          pi     |-> booking[b].pi]
  <2>1. b \in Bookings BY <1>17 DEF RecordRefund
  <2>2. request[r].seen \in BookingRow BY DEF RequestRow
  <2>3. recorded \in BookingRow BY <2>1, <2>2 DEF BookingRow
  <2>4. booking' = [booking EXCEPT ![b] = recorded] BY <1>17 DEF RecordRefund
  <2> HIDE DEF recorded
  <2>5. booking' \in [Bookings -> BookingRow] BY <2>3, <2>4
  <2>6. CASE request' = [request EXCEPT ![r] = IdleRequest]
    BY <1>17, <2>5, <2>6, IdleType DEF RecordRefund, webhook, tasks, bounds
  <2>7. CASE request' = [request EXCEPT ![r].pc = "restoring"]
    BY <1>17, <2>5, <2>7 DEF RecordRefund, webhook, tasks, bounds, RequestRow,
                             RequestPc
  <2>8. QED BY <1>17, <2>6, <2>7 DEF RecordRefund, EndRequest
<1>18. ASSUME NEW r \in Requests, RestoreSeats(r) PROVE WellFormed'
  <2>1. request[r].b \in Bookings /\ Seats[request[r].b] \in Nat
    BY <1>18, ConstantsAssumption DEF RestoreSeats
  <2>2. avail' \in Nat BY <1>18, <2>1 DEF RestoreSeats
  <2>3. restored' \in [Bookings -> Nat] BY <1>18, <2>1 DEF RestoreSeats, Bump
  <2>4. QED BY <1>18, <2>2, <2>3, IdleType
            DEF RestoreSeats, EndRequest, webhook, tasks, bounds
<1>19. ASSUME NEW r \in Requests, Abandon(r) PROVE WellFormed'
  BY <1>19, IdleType DEF Abandon, EndRequest, db, webhook, tasks
<1>20. ASSUME NEW b \in Bookings, ExpireBooking(b) PROVE WellFormed'
  BY <1>20 DEF ExpireBooking, webhook, api, tasks, bounds, BookingRow
<1>21. ASSUME NEW b \in Bookings, CreatePayment(b) PROVE WellFormed'
  BY <1>21 DEF CreatePayment, webhook, api, tasks, BookingRow
<1>22. CASE UNCHANGED vars
  BY <1>22 DEF vars, db, webhook, api, tasks, bounds
<1>23. QED
  BY <1>1, <1>2, <1>3, <1>4, <1>5, <1>6, <1>7, <1>8, <1>9, <1>10, <1>11, <1>12,
     <1>13, <1>14, <1>15, <1>16, <1>17, <1>18, <1>19, <1>20, <1>21, <1>22
  DEF Next, Handle, Serve

\* Type correctness, for any number of concurrent deliveries and calls.
THEOREM TypeCorrect == Spec => []TypeOK
<1>1. Spec => []WellFormed BY InitWellFormed, NextWellFormed, PTL DEF Spec
<1>2. WellFormed => TypeOK BY DEF WellFormed
<1>3. QED BY <1>1, <1>2, PTL

\* What the processed mark and the acknowledgement mean.

\* A handler about to answer 200 has committed.  AckedWasApplied alone is
\* not inductive: Respond acknowledges without looking at applied.
RespondedWasApplied == \A w \in Workers : At(w, "responding") => applied[Ev(w)] > 0

Settled == ProcessedWasApplied /\ AckedWasApplied /\ RespondedWasApplied
IInv == WellFormed /\ Settled

LEMMA NextSettled == IInv /\ [Next]_vars => Settled'
<1> SUFFICES ASSUME IInv, [Next]_vars PROVE Settled'
  OBVIOUS
<1> USE DEF IInv, Settled, ProcessedWasApplied, AckedWasApplied,
            RespondedWasApplied, At, Ev
<1>1. ASSUME NEW e \in Events, Emit(e) PROVE Settled'
  BY <1>1 DEF Emit, WellFormed, TypeOK
<1>2. ASSUME NEW w \in Workers, NEW e \in Events, Deliver(w, e) PROVE Settled'
  BY <1>2 DEF Deliver, WellFormed, TypeOK, IdleWorker
<1>3. ASSUME NEW w \in Workers, CheckProcessed(w) PROVE Settled'
  <2>1. Ev(w) \in Events BY <1>3 DEF CheckProcessed, WellFormed, Busy
  <2>2. CASE row[Ev(w)] = "processed" /\ Ack(w)
    BY <1>3, <2>1, <2>2, IdleType DEF CheckProcessed, Ack, WellFormed, TypeOK
  <2>3. CASE /\ \E pc \in {"inserting", "loading"} :
                  worker' = [worker EXCEPT ![w].pc = pc]
             /\ UNCHANGED outbox
    BY <1>3, <2>3 DEF CheckProcessed, WellFormed, TypeOK, WorkerRow
  <2>4. QED BY <1>3, <2>2, <2>3 DEF CheckProcessed, Goto
<1>4. ASSUME NEW w \in Workers, InsertEvent(w) PROVE Settled'
  BY <1>4 DEF InsertEvent, Stored, Goto, WellFormed, TypeOK, WorkerRow
<1>5. ASSUME NEW w \in Workers, LoadBooking(w) PROVE Settled'
  BY <1>5 DEF LoadBooking, WellFormed, TypeOK, WorkerRow
<1>6. ASSUME NEW w \in Workers, RunUpdates(w) PROVE Settled'
  BY <1>6 DEF RunUpdates, Goto, WellFormed, TypeOK, WorkerRow
<1>7. ASSUME NEW w \in Workers, Commit(w) PROVE Settled'
  <2>1. Ev(w) \in Events BY <1>7 DEF Commit, WellFormed, Busy
  <2>2. \A e \in Events : applied[e] \in Nat BY DEF WellFormed, TypeOK
  <2>3. \A e \in Events : applied'[e] = IF e = Ev(w) THEN applied[e] + 1
                                                    ELSE applied[e]
    BY <1>7, <2>1 DEF Commit, WellFormed, TypeOK
  <2>4. applied'[Ev(w)] > 0 /\ \A e \in Events : applied[e] > 0 => applied'[e] > 0
    BY <2>1, <2>2, <2>3
  <2>5. ProcessedWasApplied' /\ AckedWasApplied'
    BY <1>7, <2>4 DEF Commit, WellFormed, TypeOK
  <2>6. RespondedWasApplied'
    BY <1>7, <2>4 DEF Commit, Goto, WellFormed, TypeOK, Busy, WorkerRow
  <2>7. QED BY <2>5, <2>6
<1>8. ASSUME NEW w \in Workers, Respond(w) PROVE Settled'
  BY <1>8, IdleType DEF Respond, Ack, WellFormed, TypeOK
<1>9. ASSUME NEW w \in Workers, Fail(w) PROVE Settled'
  BY <1>9 DEF Fail, Goto, WellFormed, TypeOK, WorkerRow
<1>10. ASSUME NEW w \in Workers, MarkFailed(w) PROVE Settled'
  BY <1>10, IdleType DEF MarkFailed, WellFormed, TypeOK
<1>11. ASSUME NEW w \in Workers, Crash(w) PROVE Settled'
  BY <1>11, IdleType DEF Crash, WellFormed, TypeOK
<1>12. CASE UNCHANGED webhook
  BY <1>12 DEF webhook
<1>13. QED
  BY <1>1, <1>2, <1>3, <1>4, <1>5, <1>6, <1>7, <1>8, <1>9, <1>10, <1>11, <1>12
  DEF Next, Handle, Serve, vars, RunPostTask, BeginCancel, CancelTx, BeginRefund,
      CallStripe, RecordRefund, RestoreSeats, Abandon, ExpireBooking, CreatePayment

LEMMA InductiveInvariant == Spec => []IInv
<1>1. Init => IInv
  BY InitWellFormed, IdleType
  DEF Init, IInv, Settled, ProcessedWasApplied, AckedWasApplied,
      RespondedWasApplied, At
<1>2. IInv /\ [Next]_vars => IInv'
  BY NextWellFormed, NextSettled DEF IInv
<1>3. QED BY <1>1, <1>2, PTL DEF Spec

\* A webhook event is acknowledged to Stripe only after its handler has
\* committed, for any number of events, duplicates, failures and crashes.
THEOREM AckIsSafe == Spec => []AckedWasApplied
<1>1. IInv => AckedWasApplied BY DEF IInv, Settled
<1>2. QED BY <1>1, InductiveInvariant, PTL

\* The processed mark of stripe_events is never set before the commit.
THEOREM MarkIsSafe == Spec => []ProcessedWasApplied
<1>1. IInv => ProcessedWasApplied BY DEF IInv, Settled
<1>2. QED BY <1>1, InductiveInvariant, PTL

\* Every deduction of seats has its charge.

LEMMA NextLedgered ==
  WellFormed /\ DeductionIsLedgered /\ [Next]_vars => DeductionIsLedgered'
<1> SUFFICES ASSUME WellFormed, DeductionIsLedgered, [Next]_vars
             PROVE  DeductionIsLedgered'
  OBVIOUS
<1>1. ASSUME NEW w \in Workers, Commit(w), worker[w].writes
      PROVE  DeductionIsLedgered'
  <2>1. Effects(w) BY <1>1 DEF Commit
  <2>2. Deducts(w) => Kind[Ev(w)] = "checkout" BY DEF Deducts
  <2>3. /\ charges \in [Bookings -> Nat] /\ deducted \in [Bookings -> Nat]
        /\ \A b \in Bookings : deducted[b] <= charges[b]
    BY DEF WellFormed, TypeOK, DeductionIsLedgered
  <2>4. CASE Deducts(w)
    BY <2>1, <2>2, <2>3, <2>4 DEF Effects, Bump, DeductionIsLedgered
  <2>5. CASE ~Deducts(w)
    BY <2>1, <2>3, <2>5 DEF Effects, Bump, DeductionIsLedgered
  <2>6. QED BY <2>4, <2>5
<1>2. CASE UNCHANGED <<charges, deducted>>
  BY <1>2 DEF DeductionIsLedgered
<1>3. QED
  BY <1>1, <1>2
  DEF Next, Handle, Serve, vars, db, Emit, Deliver, CheckProcessed, InsertEvent,
      LoadBooking, RunUpdates, Commit, Respond, MarkFailed, Fail, Crash,
      RunPostTask, BeginCancel, CancelTx, BeginRefund, CallStripe, RecordRefund,
      RestoreSeats, Abandon, ExpireBooking, CreatePayment

\* Seats leave the counter only in the transaction that books the charge.
THEOREM LedgerCoversSeats == Spec => []DeductionIsLedgered
<1>1. Init => DeductionIsLedgered BY DEF Init, DeductionIsLedgered
<1>2. Spec => []WellFormed BY InitWellFormed, NextWellFormed, PTL DEF Spec
<1>3. QED BY <1>1, <1>2, NextLedgered, PTL DEF Spec

(***************************************************************************)
(* One call at a time: the counter agrees with the bookings, and what is   *)
(* cancelled stays so.                                                     *)
(***************************************************************************)
\* What the run without overlaps supposes: one delivery or API call at a time,
\* no event but a completed checkout that names its booking, no legacy payment,
\* no API call abandoned half-way; and the bookings fit in the seats on sale,
\* which is what their inventory locks are for.
Serial ==
  /\ MaxActive <= 1 /\ TaggedKinds \subseteq {"checkout"} /\ ~Legacy
  /\ MaxAbandoned = 0
SeatsFit ==
  /\ IsFiniteSet(Bookings) /\ \A b \in Bookings : Seats[b] <= Capacity
  /\ SeatsOf(Bookings) <= Capacity

Serving(r) == request[r].pc # "idle"

SerialAlone ==
  /\ \A w, v \in Workers : ~At(w, "idle") /\ ~At(v, "idle") => w = v
  /\ \A r, q \in Requests : Serving(r) /\ Serving(q) => r = q
  /\ \A w \in Workers, r \in Requests : ~At(w, "idle") => ~Serving(r)

\* What the one call has read is still so.
SerialFresh ==
  /\ \A w \in Workers : worker[w].pc \in {"updating", "committing"} =>
       /\ worker[w].seen = booking[Bk(w)] /\ ~Rejects(Ev(w), booking[Bk(w)])
       /\ worker[w].writes => Writes(Ev(w), booking[Bk(w)])
  /\ \A r \in Requests :
       /\ request[r].pc \in {"cancelling", "refunding", "recording"} =>
            request[r].seen = booking[request[r].b]
       /\ request[r].pc = "restoring" => booking[request[r].b].status = "cancelled"

Confirmed == {b \in Bookings : booking[b].status = "confirmed"}
\* Bookings whose seats are on their way back.
Returning == {b \in Bookings : \E r \in Requests :
                request[r].pc = "restoring" /\ request[r].b = b}

\* A confirmed booking is paid, so whoever ends it returns its seats.
SerialPaid == \A b \in Confirmed : booking[b].pay = "paid"
SerialSeats == avail + SeatsOf(Confirmed \cup Returning) = Capacity

SerialInv == WellFormed /\ SerialAlone /\ SerialFresh /\ SerialPaid /\ SerialSeats

\* --- Seats of sets of bookings ---
LEMMA SeatsAdd ==
  ASSUME SeatsFit, NEW B \in SUBSET Bookings, NEW b \in Bookings \ B
  PROVE  SeatsOf(B \cup {b}) = SeatsOf(B) + Seats[b]
<1> DEFINE U(S) == {u \in S \X (1..Capacity) : u[2] <= Seats[u[1]]}
<1>1. Seats[b] \in Nat /\ Seats[b] <= Capacity /\ Capacity \in Nat
  BY ConstantsAssumption DEF SeatsFit
<1>2. U(B \cup {b}) = U(B) \cup ({b} \X (1..Seats[b]))
  <2>1. ASSUME NEW x \in B \cup {b}, NEW i \in 1..Capacity
        PROVE  i <= Seats[x] <=> (x \in B /\ i <= Seats[x]) \/ (x = b /\ i \in 1..Seats[b])
    BY <1>1, <2>1
  <2>2. ASSUME NEW i \in 1..Seats[b] PROVE i \in 1..Capacity BY <1>1, <2>2
  <2>3. QED BY <2>1, <2>2
<1>3. U(B) \cap ({b} \X (1..Seats[b])) = {} OBVIOUS
<1>4. IsFiniteSet({b} \X (1..Seats[b])) /\ Cardinality({b} \X (1..Seats[b])) = Seats[b]
  <2>1. IsFiniteSet({b}) /\ Cardinality({b}) = 1 BY FS_Singleton
  <2>2. IsFiniteSet(1..Seats[b]) /\ Cardinality(1..Seats[b]) = Seats[b]
    <3>1. 1 \in Int /\ Seats[b] \in Int BY <1>1
    <3>2. IsFiniteSet(1..Seats[b])
            /\ Cardinality(1..Seats[b]) = IF 1 > Seats[b] THEN 0 ELSE Seats[b] - 1 + 1
      BY <3>1, FS_Interval
    <3>3. QED BY <1>1, <3>2
  <2>3. IsFiniteSet({b} \X (1..Seats[b])) /\ Cardinality({b} \X (1..Seats[b]))
          = Cardinality({b}) * Cardinality(1..Seats[b])
    BY <2>1, <2>2, FS_Product
  <2>4. QED BY <1>1, <2>1, <2>2, <2>3
<1>5. IsFiniteSet(U(B))
  <2>1. IsFiniteSet(B) BY FS_Subset DEF SeatsFit
  <2>2. IsFiniteSet(1..Capacity)
    <3>1. 1 \in Int /\ Capacity \in Int BY <1>1
    <3>2. QED BY <3>1, FS_Interval
  <2>3. IsFiniteSet(B \X (1..Capacity)) BY <2>1, <2>2, FS_Product
  <2>4. U(B) \in SUBSET (B \X (1..Capacity)) OBVIOUS
  <2> HIDE DEF U
  <2>5. QED BY <2>3, <2>4, FS_Subset
<1> DEFINE P == {b} \X (1..Seats[b])
<1> HIDE DEF U, P
<1>6. IsFiniteSet(P) /\ Cardinality(P) = Seats[b] /\ U(B \cup {b}) = U(B) \cup P
        /\ U(B) \cap P = {}
  BY <1>2, <1>3, <1>4 DEF P
<1>7. Cardinality(U(B)) \in Nat /\ Cardinality(U(B) \cap P) = 0
  BY <1>5, <1>6, FS_CardinalityType, FS_EmptySet
<1>8. Cardinality(U(B \cup {b})) = Cardinality(U(B)) + Seats[b]
  <2>1. Cardinality(U(B) \cup P) = Cardinality(U(B)) + Cardinality(P) - Cardinality(U(B) \cap P)
    BY <1>5, <1>6, FS_Union
  <2>2. Cardinality(U(B \cup {b})) = Cardinality(U(B) \cup P) BY <1>6, Zenon
  <2>3. Cardinality(P) = Seats[b] BY <1>6
  <2>4. QED BY <1>1, <1>7, <2>1, <2>2, <2>3
<1>9. QED BY <1>8 DEF SeatsOf, U

LEMMA SeatsWithin ==
  ASSUME SeatsFit, NEW B \in SUBSET Bookings
  PROVE  SeatsOf(B) \in Nat /\ SeatsOf(B) <= Capacity
<1> DEFINE U(S) == {u \in S \X (1..Capacity) : u[2] <= Seats[u[1]]}
<1>1. Capacity \in Nat BY ConstantsAssumption
<1>2. IsFiniteSet(U(Bookings))
  <2>1. IsFiniteSet(1..Capacity)
    <3>1. 1 \in Int /\ Capacity \in Int BY <1>1
    <3>2. QED BY <3>1, FS_Interval
  <2>2. IsFiniteSet(Bookings \X (1..Capacity)) BY <2>1, FS_Product DEF SeatsFit
  <2>3. U(Bookings) \in SUBSET (Bookings \X (1..Capacity)) OBVIOUS
  <2>4. QED BY <2>2, <2>3, FS_Subset
<1>3. U(B) \subseteq U(Bookings) OBVIOUS
<1> HIDE DEF U
<1>4. IsFiniteSet(U(B)) /\ Cardinality(U(B)) <= Cardinality(U(Bookings))
  BY <1>2, <1>3, FS_Subset
<1>5. Cardinality(U(B)) \in Nat /\ Cardinality(U(Bookings)) \in Nat
  BY <1>2, <1>4, FS_CardinalityType
<1>6. SeatsOf(B) = Cardinality(U(B)) /\ SeatsOf(Bookings) = Cardinality(U(Bookings))
  BY DEF U, SeatsOf
<1>7. SeatsOf(Bookings) <= Capacity BY DEF SeatsFit
<1>8. QED BY <1>1, <1>4, <1>5, <1>6, <1>7

\* --- One at a time ---
LEMMA SerialStart ==
  ASSUME Serial, SerialAlone, MayStart
  PROVE  /\ \A w \in Workers : At(w, "idle")
         /\ \A r \in Requests : ~Serving(r)
<1>1. SUFFICES ASSUME Active # {} PROVE FALSE
  BY DEF Active, At, Serving
<1>2. PICK x \in Active : TRUE BY <1>1
<1>3. Active = {x} BY <1>2 DEF Active, SerialAlone, At, Serving
<1>4. Cardinality(Active) = 1 BY <1>3, FS_Singleton
<1>5. QED BY <1>4, ConstantsAssumption DEF MayStart, Serial

\* Whoever is at work was so before.
LEMMA AloneShrinks ==
  ASSUME SerialAlone,
         \A w \in Workers : At(w, "idle") => At(w, "idle")',
         \A r \in Requests : ~Serving(r) => ~Serving(r)'
  PROVE  SerialAlone'
  BY DEF SerialAlone, At, Serving

LEMMA GotoWrites ==
  ASSUME NEW w, NEW pc, Goto(w, pc)
  PROVE  \E u : worker' = [worker EXCEPT ![w] = u]
  BY DEF Goto

LEMMA NextAlone ==
  ASSUME Serial, WellFormed, SerialAlone, [Next]_vars
  PROVE  SerialAlone'
<1> USE DEF WellFormed, TypeOK, At, Serving
<1>1. ASSUME NEW w \in Workers, NEW e \in Events, Deliver(w, e) PROVE SerialAlone'
  <2>1. worker' = [worker EXCEPT ![w] = [IdleWorker EXCEPT !.pc = "dedup", !.ev = e]]
        /\ request' = request /\ MayStart
    BY <1>1 DEF Deliver, api
  <2>2. \A v \in Workers : At(v, "idle") BY <2>1, SerialStart
  <2>3. \A r \in Requests : ~Serving(r) BY <2>1, SerialStart
  <2>4. QED BY <2>1, <2>2, <2>3 DEF SerialAlone
<1>2. ASSUME NEW r \in Requests, NEW b \in Bookings, NEW pc \in {"cancelling", "refunding"},
             NEW full \in BOOLEAN, StartRequest(r, pc, b, full), worker' = worker
      PROVE  SerialAlone'
  <2>1. MayStart /\ request' = [request EXCEPT ![r] =
                   [pc |-> pc, b |-> b, seen |-> booking[b], full |-> full]]
    BY <1>2 DEF StartRequest
  <2>2. \A v \in Workers : At(v, "idle") BY <2>1, SerialStart
  <2>3. \A q \in Requests : ~Serving(q) BY <2>1, SerialStart
  <2>4. QED BY <1>2, <2>1, <2>2, <2>3 DEF SerialAlone
<1>3. ASSUME NEW w \in Workers, ~At(w, "idle"), request' = request,
             NEW u, worker' = [worker EXCEPT ![w] = u]
      PROVE  SerialAlone'
  BY <1>3 DEF SerialAlone
<1>4. ASSUME NEW r \in Requests, Serving(r), worker' = worker,
             NEW u, request' = [request EXCEPT ![r] = u]
      PROVE  SerialAlone'
  BY <1>4 DEF SerialAlone
<1>5. ASSUME UNCHANGED <<worker, request>> PROVE SerialAlone'
  BY <1>5 DEF SerialAlone
<1>6. ASSUME NEW w \in Workers, Handle(w) \/ Fail(w) \/ Crash(w) PROVE SerialAlone'
  <2>1. ~At(w, "idle") /\ request' = request
    BY <1>6 DEF Handle, CheckProcessed, InsertEvent, LoadBooking, RunUpdates, Commit,
                Respond, MarkFailed, Fail, Crash, api
  <2>2. \E u : worker' = [worker EXCEPT ![w] = u]
    BY <1>6, <2>1, GotoWrites DEF Handle, CheckProcessed, InsertEvent, LoadBooking,
         RunUpdates, Commit, Respond, MarkFailed, Fail, Crash, Ack
  <2>3. QED BY <1>3, <2>1, <2>2
<1>7. ASSUME NEW r \in Requests, Serve(r) \/ Abandon(r) PROVE SerialAlone'
  <2>1. Serving(r) /\ worker' = worker
    BY <1>7 DEF Serve, CancelTx, CallStripe, RecordRefund, RestoreSeats, Abandon, webhook
  <2>2. \E u : request' = [request EXCEPT ![r] = u]
    BY <1>7 DEF Serve, CancelTx, CallStripe, RecordRefund, RestoreSeats, Abandon, EndRequest
  <2>3. QED BY <1>4, <2>1, <2>2
<1>8. QED
  BY <1>1, <1>2, <1>5, <1>6, <1>7
  DEF Next, Emit, BeginCancel, BeginRefund, RunPostTask, ExpireBooking, CreatePayment,
      vars, webhook, api

\* --- A delivery, up to its commit and after ---
\* Bookings, counter and requests stay; a worker that is going to write has read
\* the booking just now, or was going to write before.
LEMMA SerialReads ==
  ASSUME SerialInv, UNCHANGED <<booking, avail, request>>,
         \A w \in Workers : worker'[w].pc \in {"updating", "committing"} =>
           \/ worker[w].pc \in {"updating", "committing"} /\ worker'[w].ev = worker[w].ev
                /\ worker'[w].seen = worker[w].seen /\ worker'[w].writes = worker[w].writes
           \/ LET e == worker'[w].ev  bk == booking[BookingOf[e]] IN
              worker'[w].seen = bk /\ ~Rejects(e, bk) /\ worker'[w].writes = Writes(e, bk)
  PROVE  SerialFresh' /\ SerialPaid' /\ SerialSeats'
<1>1. SerialFresh'
  <2>1. ASSUME NEW w \in Workers, worker'[w].pc \in {"updating", "committing"}
        PROVE  /\ worker'[w].seen = booking'[BookingOf[worker'[w].ev]]
               /\ ~Rejects(worker'[w].ev, booking'[BookingOf[worker'[w].ev]])
               /\ worker'[w].writes => Writes(worker'[w].ev, booking'[BookingOf[worker'[w].ev]])
    <3> HIDE DEF SerialInv
    <3>1. CASE worker[w].pc \in {"updating", "committing"} /\ worker'[w].ev = worker[w].ev
                /\ worker'[w].seen = worker[w].seen /\ worker'[w].writes = worker[w].writes
      BY <3>1, <2>1 DEF SerialInv, SerialFresh, Bk, Ev
    <3>2. CASE LET e == worker'[w].ev  bk == booking[BookingOf[e]] IN
              worker'[w].seen = bk /\ ~Rejects(e, bk) /\ worker'[w].writes = Writes(e, bk)
      BY <3>2, <2>1
    <3>3. QED BY <2>1, <3>1, <3>2
  <2>2. QED BY <2>1 DEF SerialInv, SerialFresh, Bk, Ev, Rejects, Writes, Tagged, IsPaid
<1>2. Confirmed' = Confirmed /\ Returning' = Returning BY DEF Confirmed, Returning
<1>3. QED BY <1>1, <1>2 DEF SerialInv, SerialPaid, SerialSeats

LEMMA SerialDelivers ==
  ASSUME SerialInv, NEW w \in Workers,
         \/ \E e \in Events : Deliver(w, e)
         \/ CheckProcessed(w) \/ InsertEvent(w) \/ LoadBooking(w) \/ RunUpdates(w)
         \/ Respond(w) \/ MarkFailed(w) \/ Fail(w) \/ Crash(w)
  PROVE  SerialFresh' /\ SerialPaid' /\ SerialSeats'
<1> USE DEF SerialInv, WellFormed, TypeOK
<1>1. UNCHANGED <<booking, avail, request>>
  BY DEF Deliver, CheckProcessed, InsertEvent, LoadBooking, RunUpdates, Respond, MarkFailed,
         Fail, Crash, db, api
<1>2. CASE LoadBooking(w)
  <2>1. ASSUME NEW v \in Workers, worker'[v].pc \in {"updating", "committing"}, v = w
        PROVE  LET e == worker'[v].ev  bk == booking[BookingOf[e]] IN
               worker'[v].seen = bk /\ ~Rejects(e, bk) /\ worker'[v].writes = Writes(e, bk)
    BY <1>2, <2>1 DEF LoadBooking, Bk, Ev
  <2>2. ASSUME NEW v \in Workers, v # w PROVE worker'[v] = worker[v]
    BY <1>2, <2>2 DEF LoadBooking
  <2>3. QED BY <1>1, <2>1, <2>2, SerialReads
<1>3. CASE ~LoadBooking(w)
  <2>1. \A v \in Workers : v # w => worker'[v] = worker[v]
    BY <1>3 DEF Deliver, CheckProcessed, InsertEvent, RunUpdates, Respond, MarkFailed,
                Fail, Crash, Ack, Goto
  <2>2. worker'[w].pc \in {"updating", "committing"} =>
          worker[w].pc = "updating" /\ worker' = [worker EXCEPT ![w].pc = "committing"]
    <3> USE DEF WorkerRow, At, Goto
    <3>1. ASSUME NEW e \in Events, Deliver(w, e) PROVE worker'[w].pc = "dedup"
      <4>1. worker' = [worker EXCEPT ![w] = [IdleWorker EXCEPT !.pc = "dedup", !.ev = e]]
        BY <3>1 DEF Deliver
      <4>2. worker'[w] = [IdleWorker EXCEPT !.pc = "dedup", !.ev = e] BY <4>1
      <4>3. QED BY <4>2 DEF IdleWorker
    <3>2. CASE CheckProcessed(w) BY <3>2 DEF CheckProcessed, Ack, IdleWorker
    <3>3. CASE InsertEvent(w) BY <3>3 DEF InsertEvent
    <3>4. CASE RunUpdates(w) BY <3>4 DEF RunUpdates
    <3>5. CASE Respond(w) BY <3>5 DEF Respond, Ack, IdleWorker
    <3>6. CASE MarkFailed(w) BY <3>6 DEF MarkFailed, IdleWorker
    <3>7. CASE Fail(w) BY <3>7 DEF Fail
    <3>8. CASE Crash(w) BY <3>8 DEF Crash, IdleWorker
    <3>9. QED BY <1>3, <3>1, <3>2, <3>3, <3>4, <3>5, <3>6, <3>7, <3>8
  <2>3. worker'[w].pc \in {"updating", "committing"} =>
          /\ worker[w].pc = "updating" /\ worker'[w].ev = worker[w].ev
          /\ worker'[w].seen = worker[w].seen /\ worker'[w].writes = worker[w].writes
    BY <2>2 DEF WorkerRow
  <2>4. QED BY <1>1, <2>1, <2>3, SerialReads
<1>4. QED BY <1>2, <1>3

\* --- The commit of a delivery ---
\* What it writes: a paid booking that was pending, or a failed payment of one.
LEMMA SerialWrites ==
  ASSUME Serial, SerialInv, NEW w \in Workers, At(w, "committing"), worker[w].writes
  PROVE  /\ Bk(w) \in Bookings /\ booking[Bk(w)].status = "pending"
         /\ Kind[Ev(w)] \in {"checkout", "pi_failed"} /\ ~Restores(w)
         /\ worker[w].seen = booking[Bk(w)]
<1>1. Ev(w) \in Events /\ Bk(w) \in Bookings /\ Kind[Ev(w)] \in Kinds
  BY ConstantsAssumption DEF SerialInv, WellFormed, Busy, Bk, Ev, At
<1>2. /\ worker[w].seen = booking[Bk(w)] /\ ~Rejects(Ev(w), booking[Bk(w)])
      /\ Writes(Ev(w), booking[Bk(w)])
  BY DEF SerialInv, SerialFresh, At
<1>3. Kind[Ev(w)] \in {"checkout", "pi_failed"}
  BY <1>1, <1>2 DEF Writes, Tagged, Serial, Kinds
<1>4. booking[Bk(w)].status = "pending"
  <2>1. CASE Kind[Ev(w)] = "pi_failed" BY <1>2, <2>1 DEF Writes
  <2>2. CASE Kind[Ev(w)] = "checkout"
    <3>1. booking[Bk(w)].status \in {"pending", "confirmed"} /\ ~IsPaid(booking[Bk(w)])
      BY <1>2, <2>2 DEF Writes, Rejects
    <3>2. QED BY <1>1, <3>1 DEF SerialInv, SerialPaid, Confirmed, IsPaid
  <2>3. QED BY <1>3, <2>1, <2>2
<1>5. ~Restores(w) BY <1>3 DEF Restores
<1>6. QED BY <1>1, <1>2, <1>3, <1>4, <1>5

LEMMA NobodyServes ==
  ASSUME SerialInv, NEW w \in Workers, ~At(w, "idle")
  PROVE  \A r \in Requests : request[r].pc = "idle"
  BY DEF SerialInv, SerialAlone, Serving

LEMMA SerialCommits ==
  ASSUME Serial, SeatsFit, SerialInv, NEW w \in Workers, Commit(w)
  PROVE  SerialFresh' /\ SerialPaid' /\ SerialSeats'
<1>1. At(w, "committing") /\ ~At(w, "idle") BY DEF Commit, At
<1>2. \A r \in Requests : request[r].pc = "idle" BY <1>1, NobodyServes
<1>3. request' = request BY DEF Commit, api
<1>4. Returning = {} /\ Returning' = {} BY <1>2, <1>3 DEF Returning
<1>5. \A v \in Workers : worker'[v].pc \notin {"updating", "committing"}
  BY <1>1 DEF Commit, Goto, SerialInv, SerialAlone, WellFormed, TypeOK, WorkerRow, At
<1>6. SerialFresh'
  BY <1>2, <1>3, <1>5 DEF SerialFresh
<1>7. CASE ~worker[w].writes
  <2>1. booking' = booking /\ avail' = avail BY <1>7 DEF Commit, db
  <2>2. Confirmed' = Confirmed BY <2>1 DEF Confirmed
  <2>3. QED BY <1>4, <1>6, <2>1, <2>2 DEF SerialInv, SerialPaid, SerialSeats
<1>8. CASE worker[w].writes
  <2> DEFINE b == Bk(w)
  <2>1. /\ b \in Bookings /\ booking[b].status = "pending"
        /\ Kind[Ev(w)] \in {"checkout", "pi_failed"} /\ ~Restores(w)
        /\ worker[w].seen = booking[b]
    BY <1>1, <1>8, SerialWrites
  <2>2. booking' = [booking EXCEPT ![b] = NewBooking(w)] /\ avail' = NewAvail(w)
    BY <1>8 DEF Commit, Effects
  <2>3. \A c \in Bookings : booking'[c] = IF c = b THEN NewBooking(w) ELSE booking[c]
    BY <2>2 DEF SerialInv, WellFormed, TypeOK
  <2>4. b \notin Confirmed BY <2>1 DEF Confirmed
  <2>5. Capacity \in Nat /\ Seats[b] \in Nat /\ avail \in Nat
    BY <2>1, ConstantsAssumption DEF SerialInv, WellFormed, TypeOK
  <2>6. CASE Kind[Ev(w)] = "checkout"
    <3>1. NewBooking(w).status = "confirmed" /\ NewBooking(w).pay = "paid"
      BY <2>6 DEF NewBooking, Confirms, PayAfter
    <3>2. Confirmed' = Confirmed \cup {b} BY <2>1, <2>3, <3>1 DEF Confirmed
    <3>3. SerialPaid' BY <2>3, <3>1, <3>2 DEF SerialInv, SerialPaid, Confirmed
    <3>4. SeatsOf(Confirmed \cup {b}) = SeatsOf(Confirmed) + Seats[b]
      BY <2>1, <2>4, SeatsAdd DEF Confirmed
    <3>5. SeatsOf(Confirmed) \in Nat /\ SeatsOf(Confirmed \cup {b}) <= Capacity
      BY <2>1, SeatsWithin DEF Confirmed
    <3>6. avail + SeatsOf(Confirmed) = Capacity
      BY <1>4 DEF SerialInv, SerialSeats
    <3>7. avail' = IF avail >= Seats[b] THEN avail - Seats[b] ELSE 0
      BY <2>1, <2>2, <2>6 DEF NewAvail, Deducts
    <3>8. avail' + SeatsOf(Confirmed \cup {b}) = Capacity
      BY <2>5, <3>4, <3>5, <3>6, <3>7
    <3>9. SerialSeats' BY <1>4, <3>2, <3>8 DEF SerialSeats
    <3>10. QED BY <1>6, <3>3, <3>9
  <2>7. CASE Kind[Ev(w)] = "pi_failed"
    <3>1. NewBooking(w).status = "pending"
      BY <2>1, <2>7 DEF NewBooking, Confirms
    <3>2. Confirmed' = Confirmed BY <2>1, <2>3, <3>1 DEF Confirmed
    <3>3. SerialPaid' BY <2>3, <2>4, <3>2 DEF SerialInv, SerialPaid, Confirmed
    <3>4. avail' = avail BY <2>1, <2>2, <2>7 DEF NewAvail, Deducts
    <3>5. SerialSeats' BY <1>4, <3>2, <3>4 DEF SerialInv, SerialSeats
    <3>6. QED BY <1>6, <3>3, <3>5
  <2>8. QED BY <2>1, <2>6, <2>7
<1>9. QED BY <1>7, <1>8

\* --- API calls ---
\* The one call about booking b, while nothing is delivered.
LEMMA SerialServes ==
  ASSUME SerialInv, NEW r \in Requests, Serving(r)
  PROVE  /\ request[r].b \in Bookings
         /\ \A w \in Workers : At(w, "idle")
         /\ \A q \in Requests : q # r => request[q].pc = "idle"
  BY DEF SerialInv, SerialAlone, Serving, WellFormed, Busy

LEMMA SerialBegins ==
  ASSUME Serial, SerialInv, NEW r \in Requests, NEW b \in Bookings,
         BeginCancel(r, b) \/ BeginRefund(r, b)
  PROVE  SerialFresh' /\ SerialPaid' /\ SerialSeats'
<1>1. UNCHANGED <<booking, avail, worker>> BY DEF BeginCancel, BeginRefund, db, webhook
<1>2. PICK pc \in {"cancelling", "refunding"}, full \in BOOLEAN : StartRequest(r, pc, b, full)
  BY DEF BeginCancel, BeginRefund
<1>3. request[r].pc = "idle" /\ \A q \in Requests : request'[q] =
        IF q = r THEN [pc |-> pc, b |-> b, seen |-> booking[b], full |-> full] ELSE request[q]
  BY <1>2 DEF StartRequest, SerialInv, WellFormed, TypeOK
<1>4. SerialFresh'
  BY <1>1, <1>3 DEF SerialInv, SerialFresh, Bk, Ev, Rejects, Writes, Tagged, IsPaid
<1>5. Confirmed' = Confirmed BY <1>1 DEF Confirmed
<1>6. Returning' = Returning BY <1>3 DEF Returning
<1>7. QED BY <1>1, <1>4, <1>5, <1>6 DEF SerialInv, SerialPaid, SerialSeats

\* A call ends, or goes on; the others were idle.
LEMMA SerialGoesOn ==
  ASSUME SerialInv, NEW r \in Requests, Serving(r), worker' = worker,
         NEW u \in RequestRow, request' = [request EXCEPT ![r] = u],
         u.pc \in {"cancelling", "refunding", "recording"} => u.seen = booking'[u.b],
         u.pc = "restoring" => booking'[u.b].status = "cancelled"
  PROVE  /\ SerialFresh'
         /\ Returning' = IF u.pc = "restoring" /\ u.b \in Bookings THEN {u.b} ELSE {}
<1>1. \A q \in Requests : request'[q] = IF q = r THEN u ELSE request[q]
  BY DEF SerialInv, WellFormed, TypeOK
<1>2. /\ \A w \in Workers : worker[w].pc = "idle"
      /\ \A q \in Requests : q # r => request[q].pc = "idle"
  BY SerialServes DEF At
<1>3. \A w \in Workers : worker'[w].pc \notin {"updating", "committing"} BY <1>2
<1>4. \A q \in Requests :
        /\ request'[q].pc \in {"cancelling", "refunding", "recording"} =>
             request'[q].seen = booking'[request'[q].b]
        /\ request'[q].pc = "restoring" => booking'[request'[q].b].status = "cancelled"
  BY <1>1, <1>2
<1>5. SerialFresh' BY <1>3, <1>4 DEF SerialFresh
<1>6. QED BY <1>1, <1>2, <1>5 DEF Returning

LEMMA SerialCancels ==
  ASSUME Serial, SeatsFit, SerialInv, NEW r \in Requests, CancelTx(r)
  PROVE  SerialFresh' /\ SerialPaid' /\ SerialSeats'
<1> DEFINE b == request[r].b
<1>1. Serving(r) /\ b \in Bookings BY SerialServes DEF CancelTx, Serving
<1>2. request[r].seen = booking[b] BY DEF CancelTx, SerialInv, SerialFresh
<1>3. SerialFresh' /\ Returning' = {}
  BY <1>1, SerialGoesOn, IdleType DEF CancelTx, EndRequest, webhook
<1>4. Returning = {} BY <1>1, SerialServes DEF CancelTx, Returning
<1>5. \A c \in Bookings : booking'[c].status = (IF c = b THEN "cancelled" ELSE booking[c].status)
                           /\ booking'[c].pay = booking[c].pay
  BY <1>1 DEF CancelTx, SerialInv, WellFormed, TypeOK, BookingRow
<1>6. Confirmed' = Confirmed \ {b} BY <1>5 DEF Confirmed
<1>7. SerialPaid' BY <1>5, <1>6 DEF SerialInv, SerialPaid, Confirmed
<1>8. IsPaid(request[r].seen) <=> b \in Confirmed
  BY <1>1, <1>2 DEF SerialInv, SerialPaid, Confirmed, IsPaid
<1>9. avail + SeatsOf(Confirmed) = Capacity BY <1>4 DEF SerialInv, SerialSeats
<1>10. avail' + SeatsOf(Confirmed') = Capacity
  <2>1. CASE b \in Confirmed
    <3>1. avail' = avail + Seats[b] BY <1>8, <2>1 DEF CancelTx
    <3>2. Confirmed = (Confirmed \ {b}) \cup {b} BY <2>1
    <3>3. SeatsOf(Confirmed) = SeatsOf(Confirmed \ {b}) + Seats[b]
      <4>1. (Confirmed \ {b}) \in SUBSET Bookings BY DEF Confirmed
      <4>2. SeatsOf((Confirmed \ {b}) \cup {b}) = SeatsOf(Confirmed \ {b}) + Seats[b]
        BY <1>1, <4>1, SeatsAdd
      <4>3. QED BY <3>2, <4>2
    <3>4. SeatsOf(Confirmed \ {b}) \in Nat BY SeatsWithin DEF Confirmed
    <3>5. avail \in Nat /\ Seats[b] \in Nat
      BY <1>1, ConstantsAssumption DEF SerialInv, WellFormed, TypeOK
    <3>6. QED BY <1>6, <1>9, <3>1, <3>3, <3>4, <3>5
  <2>2. CASE b \notin Confirmed
    <3>1. avail' = avail BY <1>8, <2>2 DEF CancelTx
    <3>2. Confirmed' = Confirmed BY <1>6, <2>2
    <3>3. QED BY <1>9, <3>1, <3>2
  <2>3. QED BY <2>1, <2>2
<1>11. SerialSeats' BY <1>3, <1>10 DEF SerialSeats
<1>12. QED BY <1>3, <1>7, <1>11

LEMMA SerialCalls ==
  ASSUME SerialInv, NEW r \in Requests, CallStripe(r)
  PROVE  SerialFresh' /\ SerialPaid' /\ SerialSeats'
<1>1. Serving(r) /\ request[r].pc = "refunding" BY DEF CallStripe, Serving
<1>2. UNCHANGED <<booking, avail, worker>> BY DEF CallStripe, db, webhook
<1>3. Returning = {} BY <1>1, SerialServes DEF Returning
<1>4. PICK u \in {IdleRequest, [request[r] EXCEPT !.pc = "recording"]} :
        request' = [request EXCEPT ![r] = u]
  BY DEF CallStripe, EndRequest
<1>5. request[r] \in RequestRow BY DEF SerialInv, WellFormed, TypeOK
<1>6. /\ u \in RequestRow /\ u.pc \in {"idle", "recording"}
      /\ u.pc = "recording" => u.seen = request[r].seen /\ u.b = request[r].b
  BY <1>4, <1>5, IdleType DEF RequestRow, RequestPc
<1>7. request[r].seen = booking[request[r].b] BY <1>1 DEF SerialInv, SerialFresh
<1>8. SerialFresh' /\ Returning' = {}
  BY <1>1, <1>2, <1>4, <1>6, <1>7, SerialGoesOn
<1>9. Confirmed' = Confirmed BY <1>2 DEF Confirmed
<1>10. QED BY <1>2, <1>3, <1>8, <1>9 DEF SerialInv, SerialPaid, SerialSeats

LEMMA SerialRecords ==
  ASSUME SerialInv, NEW r \in Requests, RecordRefund(r)
  PROVE  SerialFresh' /\ SerialPaid' /\ SerialSeats'
<1> DEFINE b == request[r].b
           full == request[r].full
           status == IF full THEN "cancelled" ELSE booking[b].status
           ends == full /\ booking[b].status = "confirmed"
<1>1. Serving(r) /\ b \in Bookings BY SerialServes DEF RecordRefund, Serving
<1>2. request[r].seen = booking[b] BY DEF RecordRefund, SerialInv, SerialFresh
<1>3. avail' = avail /\ worker' = worker BY DEF RecordRefund, webhook
<1>4. Returning = {} BY <1>1, SerialServes DEF RecordRefund, Returning
<1>5. \A c \in Bookings :
        /\ booking'[c].status = (IF c = b THEN status ELSE booking[c].status)
        /\ booking'[c].pay = (IF c = b THEN (IF full THEN "refunded" ELSE "paid")
                              ELSE booking[c].pay)
  BY <1>1, <1>2 DEF RecordRefund, SerialInv, WellFormed, TypeOK
<1>6. request[r] \in RequestRow BY DEF SerialInv, WellFormed, TypeOK
<1> DEFINE u == IF ends THEN [request[r] EXCEPT !.pc = "restoring"] ELSE IdleRequest
<1>7. request' = [request EXCEPT ![r] = u] BY <1>2 DEF RecordRefund, EndRequest
<1>8. /\ u \in RequestRow /\ u.pc = (IF ends THEN "restoring" ELSE "idle")
      /\ ends => u.b = b
  BY <1>6, IdleType DEF RequestRow, RequestPc
<1>9. ends => booking'[b].status = "cancelled" BY <1>1, <1>5
<1> HIDE DEF u
<1>10. SerialFresh' /\ Returning' = IF ends THEN {b} ELSE {}
  BY <1>1, <1>3, <1>7, <1>8, <1>9, SerialGoesOn
<1>11. Confirmed' = IF full THEN Confirmed \ {b} ELSE Confirmed
  BY <1>1, <1>5 DEF Confirmed
<1>12. ends <=> full /\ b \in Confirmed BY <1>1 DEF Confirmed
<1>13. (Confirmed \cup Returning)' = Confirmed \cup Returning
  BY <1>4, <1>10, <1>11, <1>12
<1>14. SerialSeats' BY <1>3, <1>13 DEF SerialInv, SerialSeats
<1>15. SerialPaid' BY <1>1, <1>5, <1>11 DEF SerialInv, SerialPaid, Confirmed
<1>16. QED BY <1>10, <1>14, <1>15

LEMMA SerialRestores ==
  ASSUME SeatsFit, SerialInv, NEW r \in Requests, RestoreSeats(r)
  PROVE  SerialFresh' /\ SerialPaid' /\ SerialSeats'
<1> DEFINE b == request[r].b
<1>1. Serving(r) /\ b \in Bookings /\ request[r].pc = "restoring"
  BY SerialServes DEF RestoreSeats, Serving
<1>2. booking' = booking /\ worker' = worker /\ avail' = avail + Seats[b]
  BY DEF RestoreSeats, webhook
<1>3. Returning = {b} BY <1>1, SerialServes DEF Returning
<1>4. SerialFresh' /\ Returning' = {}
  BY <1>1, <1>2, SerialGoesOn, IdleType DEF RestoreSeats, EndRequest
<1>5. b \notin Confirmed BY <1>1 DEF SerialInv, SerialFresh, Confirmed
<1>6. Confirmed' = Confirmed BY <1>2 DEF Confirmed
<1>7. SeatsOf(Confirmed \cup {b}) = SeatsOf(Confirmed) + Seats[b]
  BY <1>1, <1>5, SeatsAdd DEF Confirmed
<1>8. SeatsOf(Confirmed) \in Nat BY SeatsWithin DEF Confirmed
<1>9. avail \in Nat /\ Seats[b] \in Nat
  BY <1>1, ConstantsAssumption DEF SerialInv, WellFormed, TypeOK
<1>10. avail' + SeatsOf(Confirmed) = Capacity
  BY <1>2, <1>3, <1>7, <1>8, <1>9 DEF SerialInv, SerialSeats
<1>11. SerialSeats' BY <1>4, <1>6, <1>10 DEF SerialSeats
<1>12. QED BY <1>2, <1>4, <1>6, <1>11 DEF SerialInv, SerialPaid

\* --- The clean-up ---
LEMMA SerialExpires ==
  ASSUME Serial, SerialInv, NEW b \in Bookings, ExpireBooking(b)
  PROVE  SerialFresh' /\ SerialPaid' /\ SerialSeats'
<1>1. /\ \A w \in Workers : worker[w].pc = "idle"
      /\ \A r \in Requests : request[r].pc = "idle"
  BY SerialStart DEF ExpireBooking, SerialInv, At, Serving
<1>2. worker' = worker /\ request' = request /\ avail' = avail
  BY DEF ExpireBooking, webhook, api
<1>3. SerialFresh' BY <1>1, <1>2 DEF SerialFresh
<1>4. \A c \in Bookings : booking'[c].status = (IF c = b THEN "cancelled" ELSE booking[c].status)
                           /\ booking'[c].pay = booking[c].pay
  BY DEF ExpireBooking, SerialInv, WellFormed, TypeOK, BookingRow
<1>5. Confirmed' = Confirmed BY <1>4 DEF Confirmed, ExpireBooking
<1>6. Returning' = Returning BY <1>2 DEF Returning
<1>7. SerialPaid' BY <1>4, <1>5 DEF SerialInv, SerialPaid, Confirmed
<1>8. QED BY <1>2, <1>3, <1>5, <1>6, <1>7 DEF SerialInv, SerialSeats

LEMMA NextSerial ==
  ASSUME Serial, SeatsFit, SerialInv, [Next]_vars
  PROVE  SerialInv'
<1>1. WellFormed' BY NextWellFormed DEF SerialInv
<1>2. SerialAlone' BY NextAlone DEF SerialInv
<1>3. SerialFresh' /\ SerialPaid' /\ SerialSeats'
  <2>1. ASSUME UNCHANGED <<booking, avail, worker, request>>
        PROVE  SerialFresh' /\ SerialPaid' /\ SerialSeats'
    BY <2>1, SerialReads
  <2>2. ASSUME NEW w \in Workers, (\E e \in Events : Deliver(w, e)) \/ Handle(w) \/ Fail(w)
                                   \/ Crash(w)
        PROVE  SerialFresh' /\ SerialPaid' /\ SerialSeats'
    BY <2>2, SerialDelivers, SerialCommits DEF Handle
  <2>3. ASSUME NEW r \in Requests, (\E b \in Bookings : BeginCancel(r, b) \/ BeginRefund(r, b))
                                   \/ Serve(r)
        PROVE  SerialFresh' /\ SerialPaid' /\ SerialSeats'
    BY <2>3, SerialBegins, SerialCancels, SerialCalls, SerialRecords, SerialRestores DEF Serve
  <2>4. ASSUME NEW r \in Requests, Abandon(r) PROVE FALSE
    BY <2>4 DEF Abandon, Serial, SerialInv, WellFormed, TypeOK
  <2>5. ASSUME NEW b \in Bookings, CreatePayment(b) PROVE FALSE
    BY <2>5 DEF CreatePayment, Serial
  <2>6. QED
    BY <2>1, <2>2, <2>3, <2>4, <2>5, SerialExpires
    DEF Next, Emit, RunPostTask, vars, db, webhook, api
<1>4. QED BY <1>1, <1>2, <1>3 DEF SerialInv

LEMMA InitSerial ==
  ASSUME Serial, SeatsFit, Init
  PROVE  SerialInv
<1>1. WellFormed BY InitWellFormed
<1>2. /\ \A w \in Workers : worker[w].pc = "idle"
      /\ \A r \in Requests : request[r].pc = "idle"
  BY DEF Init, IdleWorker, IdleRequest
<1>3. SerialAlone /\ SerialFresh BY <1>2 DEF SerialAlone, SerialFresh, At, Serving
<1>4. Confirmed = {} /\ Returning = {} BY <1>2 DEF Init, Confirmed, Returning, Unpaid
<1>5. SeatsOf({}) = 0
  <2>1. {u \in {} \X (1..Capacity) : u[2] <= Seats[u[1]]} = {} OBVIOUS
  <2>2. QED BY <2>1, FS_EmptySet DEF SeatsOf
<1>6. avail = Capacity /\ Capacity \in Nat BY ConstantsAssumption DEF Init
<1>7. SerialPaid /\ SerialSeats BY <1>4, <1>5, <1>6 DEF SerialPaid, SerialSeats
<1>8. QED BY <1>1, <1>3, <1>7 DEF SerialInv

\* SeatsMatchBookings: as long as one delivery or call runs at a time, checkouts
\* alone name their booking, no call is abandoned and the bookings fit, a seat is
\* on sale exactly when no confirmed booking holds it - whatever is delivered
\* twice, fails or crashes, for any bookings, events and deliveries.
THEOREM SeatsMatch == ASSUME Serial, SeatsFit PROVE Spec => []SeatsMatchBookings
<1>1. Init => SerialInv BY InitSerial
<1>2. SerialInv /\ [Next]_vars => SerialInv' BY NextSerial
<1>3. SerialInv => SeatsMatchBookings
  <2> SUFFICES ASSUME SerialInv, Quiet PROVE avail + SeatsOf(Confirmed) = Capacity
    BY DEF SeatsMatchBookings, Confirmed
  <2>1. Returning = {} BY DEF Quiet, Returning
  <2>2. QED BY <2>1 DEF SerialInv, SerialSeats
<1>4. QED BY <1>1, <1>2, <1>3, PTL DEF Spec

\* What a step makes of a cancelled booking.
LEMMA SerialStays ==
  ASSUME Serial, SerialInv, [Next]_vars, NEW b \in Bookings, booking[b].status = "cancelled"
  PROVE  booking'[b].status = "cancelled"
<1> USE DEF SerialInv, WellFormed, TypeOK
<1>1. CASE booking' = booking BY <1>1
<1>2. ASSUME NEW w \in Workers, Commit(w) PROVE booking'[b].status = "cancelled"
  <2>1. CASE worker[w].writes
    <3>1. At(w, "committing") BY <1>2 DEF Commit
    <3>2. Bk(w) \in Bookings /\ booking[Bk(w)].status = "pending"
      BY <2>1, <3>1, SerialWrites
    <3>3. booking' = [booking EXCEPT ![Bk(w)] = NewBooking(w)]
      BY <1>2, <2>1 DEF Commit, Effects
    <3>4. b # Bk(w) BY <3>2
    <3>5. QED BY <3>3, <3>4
  <2>2. CASE ~worker[w].writes BY <1>2, <2>2 DEF Commit, db
  <2>3. QED BY <2>1, <2>2
<1>3. ASSUME NEW r \in Requests, CancelTx(r) PROVE booking'[b].status = "cancelled"
  BY <1>3 DEF CancelTx, BookingRow
<1>4. ASSUME NEW r \in Requests, RecordRefund(r) PROVE booking'[b].status = "cancelled"
  <2>1. request[r].seen = booking[request[r].b] BY <1>4 DEF RecordRefund, SerialFresh
  <2>2. QED BY <1>4, <2>1 DEF RecordRefund
<1>5. ASSUME NEW c \in Bookings, ExpireBooking(c) PROVE booking'[b].status = "cancelled"
  BY <1>5 DEF ExpireBooking, BookingRow
<1>6. ASSUME NEW c \in Bookings, CreatePayment(c) PROVE FALSE
  BY <1>6 DEF CreatePayment, Serial
<1>7. QED
  BY <1>1, <1>2, <1>3, <1>4, <1>5, <1>6
  DEF Next, Handle, Serve, vars, db, Emit, Deliver, CheckProcessed, InsertEvent, LoadBooking,
      RunUpdates, Respond, MarkFailed, Fail, Crash, RunPostTask, BeginCancel, BeginRefund,
      CallStripe, RestoreSeats, Abandon

\* CancelledIsFinal, under the same suppositions: what a handler, a refund or
\* payment writes was read before, but a cancellation never comes in between.
THEOREM CancelledStays == ASSUME Serial, SeatsFit PROVE Spec => CancelledIsFinal
<1>1. Init => SerialInv BY InitSerial
<1>2. SerialInv /\ [Next]_vars => SerialInv' BY NextSerial
<1>3. SerialInv /\ [Next]_vars =>
        [\A b \in Bookings : booking[b].status = "cancelled"
                               => booking'[b].status = "cancelled"]_booking
  BY SerialStays
<1>4. QED BY <1>1, <1>2, <1>3, PTL DEF Spec, CancelledIsFinal

(***************************************************************************)
(* The retry worker                                                        *)
(***************************************************************************)
\* What the tables are functions on.
WrShapes ==
  /\ wrRow \in [WrEvents -> {"absent", "unprocessed", "processed"}]
  /\ wrDelivery \in [WrEvents -> WrStatus \cup {"idle"}]
  /\ wrJob \in [WrEvents -> WrStatus \cup {"none", "waiting", "done", "failed"}]
  /\ wrCommits \in [WrEvents -> Nat]
  /\ wrBooking \in WrStatus

\* Of an event that was never handled by both: one of them handles it at most,
\* only if it has not been applied, and once it has it is marked.
WrOneHandler == \A e \in WrEvents \ wrTwice :
  /\ ~(e \in WrDelivering /\ e \in WrActive)
  /\ e \in WrDelivering \cup WrActive => wrCommits[e] = 0
  /\ wrCommits[e] > 0 => wrRow[e] = "processed"
  /\ wrCommits[e] <= 1

WrIInv == WrShapes /\ WrOneHandler

LEMMA WrApart == WrStatus \cap {"none", "waiting", "done", "failed", "idle"} = {}
BY DEF WrStatus

LEMMA WrInitIInv == WRInit => WrIInv
<1> SUFFICES ASSUME WRInit PROVE WrIInv
  OBVIOUS
<1>1. WrShapes
  BY DEF WRInit, WrShapes, WrStatus
<1>2. WrOneHandler
  BY WrApart DEF WRInit, WrOneHandler, WrDelivering, WrActive
<1> QED
  BY <1>1, <1>2 DEF WrIInv

LEMMA WrHandledIsStatus ==
  ASSUME WrShapes, NEW e \in WrEvents, NEW seen
  PROVE  WrHandled(e, seen) \in WrStatus
<1>1. CASE wrKind[e] = "checkout"
  BY <1>1 DEF WrHandled, WrStatus
<1>2. CASE wrKind[e] = "succeeded" /\ seen = "pending"
  BY <1>2 DEF WrHandled, WrStatus
<1>3. CASE wrKind[e] = "refund"
  BY <1>3 DEF WrHandled, WrStatus
<1>4. CASE ~(\/ wrKind[e] = "checkout" \/ wrKind[e] = "refund"
             \/ wrKind[e] = "succeeded" /\ seen = "pending")
  BY <1>4 DEF WrHandled, WrShapes
<1> QED
  BY <1>1, <1>2, <1>3, <1>4

\* What a step does to one event leaves the others alone; so it is enough that
\* the invariant holds for that event.
LEMMA WrOneEvent ==
  ASSUME WrIInv, WrShapes', NEW e \in WrEvents, wrTwice \subseteq wrTwice',
         \A f \in WrEvents \ {e} : /\ wrRow'[f] = wrRow[f]
                                   /\ wrDelivery'[f] = wrDelivery[f]
                                   /\ wrJob'[f] = wrJob[f]
                                   /\ wrCommits'[f] = wrCommits[f],
         e \notin wrTwice' =>
           /\ ~(wrDelivery'[e] \in WrStatus /\ wrJob'[e] \in WrStatus)
           /\ wrDelivery'[e] \in WrStatus \/ wrJob'[e] \in WrStatus => wrCommits'[e] = 0
           /\ wrCommits'[e] > 0 => wrRow'[e] = "processed"
           /\ wrCommits'[e] <= 1
  PROVE  WrIInv'
BY DEF WrIInv, WrOneHandler, WrDelivering, WrActive

LEMMA WrDeliveryStep ==
  ASSUME WrIInv, NEW e \in WrEvents,
         WRDeliver(e) \/ WRDeliveryCommits(e) \/ WRDeliveryFails(e)
  PROVE  WrIInv'
<1> USE WrApart DEF WrIInv, WrShapes
<1>1. CASE WRDeliver(e)
  <2>1. WrShapes'
    BY <1>1 DEF WRDeliver
  <2>2. e \notin wrTwice' =>
          /\ wrJob'[e] \notin WrStatus /\ wrCommits'[e] = 0 /\ e \notin wrTwice
    BY <1>1 DEF WRDeliver, WrActive, WrOneHandler
  <2>3. /\ wrTwice \subseteq wrTwice'
        /\ \A f \in WrEvents \ {e} : /\ wrRow'[f] = wrRow[f]
                                     /\ wrDelivery'[f] = wrDelivery[f]
                                     /\ wrJob'[f] = wrJob[f]
                                     /\ wrCommits'[f] = wrCommits[f]
    BY <1>1 DEF WRDeliver
  <2> QED
    BY <2>1, <2>2, <2>3, WrOneEvent
<1>2. CASE WRDeliveryCommits(e)
  <2>1. WrShapes'
    <3>1. WrHandled(e, wrDelivery[e]) \in WrStatus
      BY WrHandledIsStatus
    <3> QED
      BY <1>2, <3>1 DEF WRDeliveryCommits, WrCommit
  <2>2. /\ wrDelivery'[e] = "idle" /\ wrCommits'[e] = wrCommits[e] + 1
        /\ wrRow'[e] = "processed" /\ wrJob' = wrJob /\ wrTwice' = wrTwice
    BY <1>2 DEF WRDeliveryCommits, WrCommit
  <2>3. e \notin wrTwice => wrJob[e] \notin WrStatus /\ wrCommits[e] = 0
    BY <1>2 DEF WRDeliveryCommits, WrOneHandler, WrActive
  <2>4. \A f \in WrEvents \ {e} : /\ wrRow'[f] = wrRow[f]
                                  /\ wrDelivery'[f] = wrDelivery[f]
                                  /\ wrJob'[f] = wrJob[f]
                                  /\ wrCommits'[f] = wrCommits[f]
    BY <1>2 DEF WRDeliveryCommits, WrCommit
  <2> QED
    BY <2>1, <2>2, <2>3, <2>4, WrOneEvent
<1>3. CASE WRDeliveryFails(e)
  <2>1. WrShapes'
    BY <1>3 DEF WRDeliveryFails
  <2>2. /\ wrDelivery'[e] = "idle" /\ wrCommits' = wrCommits /\ wrJob' = wrJob
        /\ wrTwice \subseteq wrTwice'
    BY <1>3 DEF WRDeliveryFails
  <2>3. e \notin wrTwice' => wrJob[e] \notin WrStatus /\ wrCommits[e] = 0
    BY <1>3 DEF WRDeliveryFails, WrOneHandler, WrActive
  <2>4. \A f \in WrEvents \ {e} : /\ wrRow'[f] = wrRow[f]
                                  /\ wrDelivery'[f] = wrDelivery[f]
                                  /\ wrJob'[f] = wrJob[f]
                                  /\ wrCommits'[f] = wrCommits[f]
    BY <1>3 DEF WRDeliveryFails
  <2> QED
    BY <2>1, <2>2, <2>3, <2>4, WrOneEvent
<1> QED
  BY <1>1, <1>2, <1>3

LEMMA WrJobStep ==
  ASSUME WrIInv, NEW e \in WrEvents,
         WRTakeJob(e) \/ WRJobCommits(e) \/ WRJobRefused(e) \/ WRJobBreaks(e)
  PROVE  WrIInv'
<1> USE WrApart DEF WrIInv, WrShapes
<1>1. CASE WRTakeJob(e)
  <2>1. WrShapes'
    BY <1>1 DEF WRTakeJob
  <2>2. /\ wrRow' = wrRow /\ wrDelivery' = wrDelivery /\ wrCommits' = wrCommits
        /\ wrTwice \subseteq wrTwice' /\ wrJob[e] = "waiting"
        /\ \A f \in WrEvents \ {e} : wrJob'[f] = wrJob[f]
    BY <1>1 DEF WRTakeJob
  <2>3. e \notin wrTwice' /\ wrJob'[e] \in WrStatus =>
          wrDelivery[e] \notin WrStatus /\ wrRow[e] # "processed"
    BY <1>1 DEF WRTakeJob, WrSkips, WrDelivering
  <2>4. e \notin wrTwice' =>
          /\ e \notin wrTwice /\ wrCommits[e] <= 1
          /\ wrCommits[e] > 0 => wrRow[e] = "processed"
          /\ wrDelivery[e] \in WrStatus => wrCommits[e] = 0
    BY <2>2 DEF WrOneHandler, WrDelivering
  <2> QED
    BY <2>1, <2>2, <2>3, <2>4, WrOneEvent
<1>2. CASE WRJobCommits(e)
  <2>1. WrShapes'
    <3>1. "confirmed" \in WrStatus
      BY DEF WrStatus
    <3> QED
      BY <1>2, <3>1 DEF WRJobCommits, WrCommit
  <2>2. /\ wrJob'[e] = "done" /\ wrCommits'[e] = wrCommits[e] + 1
        /\ wrRow'[e] = "processed" /\ wrDelivery' = wrDelivery /\ wrTwice' = wrTwice
    BY <1>2 DEF WRJobCommits, WrCommit
  <2>3. e \notin wrTwice => wrDelivery[e] \notin WrStatus /\ wrCommits[e] = 0
    BY <1>2 DEF WRJobCommits, WrOneHandler, WrDelivering
  <2>4. \A f \in WrEvents \ {e} : /\ wrRow'[f] = wrRow[f]
                                  /\ wrDelivery'[f] = wrDelivery[f]
                                  /\ wrJob'[f] = wrJob[f]
                                  /\ wrCommits'[f] = wrCommits[f]
    BY <1>2 DEF WRJobCommits, WrCommit
  <2> QED
    BY <2>1, <2>2, <2>3, <2>4, WrOneEvent
<1>3. CASE WRJobRefused(e) \/ WRJobBreaks(e)
  <2>1. WrJobFailed(e)
    BY <1>3 DEF WRJobRefused, WRJobBreaks
  <2>2. /\ wrJob' = [wrJob EXCEPT ![e] = WrAfterFailure(e)]
        /\ WrAfterFailure(e) \in {"waiting", "failed"}
        /\ UNCHANGED <<wrRow, wrDelivery, wrCommits, wrBooking, wrTwice>>
    BY <2>1 DEF WrJobFailed, WrAfterFailure
  <2>3. WrShapes'
    BY <2>2
  <2>4. wrJob'[e] \notin WrStatus /\ \A f \in WrEvents \ {e} : wrJob'[f] = wrJob[f]
    BY <2>2
  <2>5. e \notin wrTwice =>
          /\ wrDelivery[e] \in WrStatus => wrCommits[e] = 0
          /\ wrCommits[e] > 0 => wrRow[e] = "processed"
          /\ wrCommits[e] <= 1
    BY DEF WrOneHandler, WrDelivering
  <2> QED
    BY <2>2, <2>3, <2>4, <2>5, WrOneEvent
<1> QED
  BY <1>1, <1>2, <1>3

LEMMA WrNextIInv == WrIInv /\ [WRNext]_wrVars => WrIInv'
<1> SUFFICES ASSUME WrIInv, [WRNext]_wrVars PROVE WrIInv'
  OBVIOUS
<1>1. ASSUME NEW e \in WrEvents,
             WRDeliver(e) \/ WRDeliveryCommits(e) \/ WRDeliveryFails(e)
      PROVE  WrIInv'
  BY <1>1, WrDeliveryStep
<1>2. ASSUME NEW e \in WrEvents,
             WRTakeJob(e) \/ WRJobCommits(e) \/ WRJobRefused(e) \/ WRJobBreaks(e)
      PROVE  WrIInv'
  BY <1>2, WrJobStep
<1>3. CASE WRReconcile
  <2>1. /\ UNCHANGED <<wrRow, wrDelivery, wrCommits, wrBooking, wrTwice>>
        /\ wrJob' = [e \in WrEvents |-> IF WrQueued(e) THEN "waiting" ELSE wrJob[e]]
    BY <1>3 DEF WRReconcile
  <2>2. WrShapes'
    BY <2>1 DEF WrIInv, WrShapes
  <2>3. \A e \in WrEvents : wrJob'[e] \in WrStatus => wrJob[e] \in WrStatus
    BY <2>1, WrApart
  <2> QED
    BY <2>1, <2>2, <2>3 DEF WrIInv, WrOneHandler, WrDelivering, WrActive
<1>4. CASE UNCHANGED wrVars
  BY <1>4 DEF wrVars, WrIInv, WrShapes, WrOneHandler, WrDelivering, WrActive
<1> QED
  BY <1>1, <1>2, <1>3, <1>4 DEF WRNext

LEMMA WrSpecIInv == WRSpec => []WrIInv
BY WrInitIInv, WrNextIInv, PTL DEF WRSpec

LEMMA WrIInvApplied == WrIInv => WRAppliedOnce
BY DEF WrIInv, WrOneHandler, WRAppliedOnce

\* Although a delivery and the retry worker share nothing but the mark of the
\* event, its handler takes effect once, unless the two had it in hand at once
\* or a delivery failed after the worker was done.
THEOREM AppliedOnce == WRSpec => []WRAppliedOnce
BY WrIInvApplied, WrSpecIInv, PTL
==============================================================================
