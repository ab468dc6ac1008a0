------------------------------ MODULE NdcOrders ------------------------------
(***************************************************************************)
(* ndc.service.ts: one offer of the distribution interface, the orders     *)
(* made from it, their bookings and the seats of the flights, beside the   *)
(* payments and cancellations of the bookings themselves.  An operation    *)
(* reads its order or offer and then writes it, the booking, the seats and *)
(* the services by separate statements, in no transaction; a payment or a  *)
(* cancellation reads the booking before the transaction that writes it.   *)
(* Every booking is for one passenger.  An order never leaves "pending"    *)
(* for "confirmed": nothing tells it of a payment.                         *)
(***************************************************************************)
EXTENDS Integers, FiniteSets

CONSTANTS
  NdCalls,      \* calls in progress
  NdFlights,    \* flights of the route
  NdFlight,     \* the one the offer is for
  NdSeats,      \* seats of each cabin of a flight
  NdMaxOrders,  \* bound on the bookings ever made
  NdMaxOps      \* bound on the calls begun

ASSUME NdcOrdersAssumption ==
  /\ IsFiniteSet(NdCalls)
  /\ NdFlight \in NdFlights /\ NdSeats \in Nat /\ NdMaxOrders \in Nat /\ NdMaxOps \in Nat

VARIABLES
  ndOffer,      \* ndc_offers.status
  ndLapsed,     \* the offer is past expiresAt
  ndOrder,      \* ndc_orders: status and totalAmount; an order and its booking share a number
  ndBooking,    \* bookings: status, flight and cabin
  ndServices,   \* booking_ancillaries of each booking
  ndFree,       \* seats available in each cabin of each flight
  ndCall,       \* what each call has under way
  ndOps,
  \* History, for the properties:
  ndOdd,        \* calls that overlapped or stopped half-way, sales of no seat
  ndMoved       \* moves of bookings that had paid

ndVars ==
  <<ndOffer, ndLapsed, ndOrder, ndBooking, ndServices, ndFree, ndCall, ndOps, ndOdd, ndMoved>>

NdIds == 1..NdMaxOrders
NdPools == NdFlights \X {"economy", "business"}
NdIdle == [doing |-> "idle", order |-> 0, total |-> 0, added |-> 0, to |-> {}]

NDInit ==
  /\ ndOffer = "active" /\ ndLapsed = FALSE
  /\ ndOrder = [o \in NdIds |-> [status |-> "none", total |-> 0]]
  /\ ndBooking = [o \in NdIds |-> [status |-> "none", flight |-> NdFlight, cabin |-> "economy"]]
  /\ ndServices = [o \in NdIds |-> 0]
  /\ ndFree = [p \in NdPools |-> NdSeats]
  /\ ndCall = [k \in NdCalls |-> NdIdle]
  /\ ndOps = 0 /\ ndOdd = 0 /\ ndMoved = 0

NdDoing(k, what) == ndCall[k].doing \in what
NdSet(k, call) == ndCall' = [ndCall EXCEPT ![k] = call]
NdThen(k, what) == NdSet(k, [ndCall[k] EXCEPT !.doing = what])
NdPool(o) == <<ndBooking[o].flight, ndBooking[o].cabin>>
NdOne(condition) == IF condition THEN 1 ELSE 0
NdBusy == \E j \in NdCalls : ~NdDoing(j, {"idle"})

\* A call begins with what it has read, a seat of the pool "to" among it; one
\* that meets another is noted.
NdBeginWith(k, what, o, to) ==
  /\ NdDoing(k, {"idle"}) /\ ndOps < NdMaxOps /\ ndOps' = ndOps + 1
  /\ ndOdd' = ndOdd + NdOne(NdBusy)
  /\ NdSet(k, [NdIdle EXCEPT !.doing = what, !.order = o, !.to = to,
                             !.total = IF o = 0 THEN 0 ELSE ndOrder[o].total])
  /\ UNCHANGED <<ndOffer, ndLapsed, ndOrder, ndBooking, ndServices, ndFree, ndMoved>>
NdBegin(k, what, o) == NdBeginWith(k, what, o, {})

\* createOrder: the offer, a booking, the order, and the offer again.
NdOrderable == ndOffer = "active" /\ ~ndLapsed
NDReadToOrder(k) == NdOrderable /\ NdBegin(k, "book", 0)
NDBook(k) ==
  /\ NdDoing(k, {"book"})
  /\ \E o \in NdIds :
       /\ ndBooking[o].status = "none"
       /\ \A u \in NdIds : u < o => ndBooking[u].status # "none"
       /\ ndBooking' = [ndBooking EXCEPT ![o].status = "pending"]
       /\ NdSet(k, [ndCall[k] EXCEPT !.doing = "order", !.order = o])
  /\ UNCHANGED <<ndOffer, ndLapsed, ndOrder, ndServices, ndFree, ndOps, ndOdd, ndMoved>>
NDInsertOrder(k) ==
  /\ NdDoing(k, {"order"})
  /\ ndOrder' = [ndOrder EXCEPT ![ndCall[k].order] = [status |-> "pending", total |-> 1]]
  /\ NdThen(k, "mark")
  /\ UNCHANGED <<ndOffer, ndLapsed, ndBooking, ndServices, ndFree, ndOps, ndOdd, ndMoved>>
NDMarkOrdered(k) ==
  /\ NdDoing(k, {"mark"}) /\ ndOffer' = "ordered" /\ NdSet(k, NdIdle)
  /\ UNCHANGED <<ndLapsed, ndOrder, ndBooking, ndServices, ndFree, ndOps, ndOdd, ndMoved>>

\* The offer found past its time, by getOffer or createOrder, and by the clean-up.
NDFindExpired(k) == ndOffer = "active" /\ ndLapsed /\ NdBegin(k, "expire", 0)
NDExpireFound(k) ==
  /\ NdDoing(k, {"expire"}) /\ ndOffer' = "expired" /\ NdSet(k, NdIdle)
  /\ UNCHANGED <<ndLapsed, ndOrder, ndBooking, ndServices, ndFree, ndOps, ndOdd, ndMoved>>
NDExpireStale ==
  /\ ndOffer = "active" /\ ndLapsed /\ ndOffer' = "expired"
  /\ UNCHANGED <<ndLapsed, ndOrder, ndBooking, ndServices, ndFree, ndCall, ndOps, ndOdd, ndMoved>>
NDLapse ==
  /\ ~ndLapsed /\ ndLapsed' = TRUE
  /\ UNCHANGED <<ndOffer, ndOrder, ndBooking, ndServices, ndFree, ndCall, ndOps, ndOdd, ndMoved>>

\* cancelOrder: the order, its booking, the seat if it was paid, the offer.
NDReadToCancel(k, o) == ndOrder[o].status \in {"pending", "changed"} /\ NdBegin(k, "cancel", o)
NDCancelOrder(k) ==
  /\ NdDoing(k, {"cancel"})
  /\ ndOrder' = [ndOrder EXCEPT ![ndCall[k].order].status = "cancelled"] /\ NdThen(k, "look")
  /\ UNCHANGED <<ndOffer, ndLapsed, ndBooking, ndServices, ndFree, ndOps, ndOdd, ndMoved>>
\* "to" keeps the seat to restore: that of the booking as it was read.
NDLookAtBooking(k) ==
  LET o == ndCall[k].order IN
  /\ NdDoing(k, {"look"})
  /\ IF ndBooking[o].status = "cancelled" THEN NdThen(k, "offer")
     ELSE NdSet(k, [ndCall[k] EXCEPT !.doing = "unbook",
                      !.to = IF ndBooking[o].status = "confirmed" THEN {NdPool(o)} ELSE {}])
  /\ UNCHANGED <<ndOffer, ndLapsed, ndOrder, ndBooking, ndServices, ndFree, ndOps, ndOdd, ndMoved>>
NDUnbook(k) ==
  /\ NdDoing(k, {"unbook"})
  /\ ndBooking' = [ndBooking EXCEPT ![ndCall[k].order].status = "cancelled"]
  /\ NdThen(k, IF ndCall[k].to = {} THEN "offer" ELSE "restore")
  /\ UNCHANGED <<ndOffer, ndLapsed, ndOrder, ndServices, ndFree, ndOps, ndOdd, ndMoved>>
NdRestoredMutant(P) == ndFree
NdRestored(P) == [p \in NdPools |-> ndFree[p] + NdOne(p \in P)]
NDRestore(k) ==
  /\ NdDoing(k, {"restore"}) /\ ndFree' = NdRestored(ndCall[k].to) /\ NdThen(k, "offer")
  /\ UNCHANGED <<ndOffer, ndLapsed, ndOrder, ndBooking, ndServices, ndOps, ndOdd, ndMoved>>
NDReleaseOffer(k) ==
  /\ NdDoing(k, {"offer"}) /\ NdSet(k, NdIdle)
  /\ ndOffer' = IF ndOffer = "ordered" THEN "cancelled" ELSE ndOffer
  /\ UNCHANGED <<ndLapsed, ndOrder, ndBooking, ndServices, ndFree, ndOps, ndOdd, ndMoved>>

\* changeOrder: another date, the other cabin, both or neither.  Either needs a
\* free seat where the booking goes, and takes none and gives none back.
NDReadToChange(k, o) == ndOrder[o].status = "pending" /\ NdBegin(k, "change", o)
NdMove(o, f, cabin) ==
  /\ ndFree[<<f, cabin>>] >= 1
  /\ ndBooking' = [ndBooking EXCEPT ![o].flight = f, ![o].cabin = cabin]
  /\ ndMoved' = ndMoved + NdOne(ndBooking[o].status = "confirmed")
  /\ UNCHANGED <<ndOffer, ndLapsed, ndOrder, ndServices, ndFree, ndOps, ndOdd>>
NDChangeDate(k, f) ==
  LET o == ndCall[k].order IN
  /\ NdDoing(k, {"change"}) /\ NdMove(o, f, ndBooking[o].cabin) /\ NdThen(k, "cabin")
NDUpgrade(k) ==
  LET o == ndCall[k].order IN
  /\ NdDoing(k, {"change", "cabin"}) /\ ndBooking[o].cabin = "economy"
  /\ NdMove(o, ndBooking[o].flight, "business")
  /\ NdSet(k, [ndCall[k] EXCEPT !.doing = "record", !.added = 1])
NdBilled(k) == ndCall[k].total + ndCall[k].added
NDRecordChange(k) ==
  /\ NdDoing(k, {"change", "cabin", "record"}) /\ NdSet(k, NdIdle)
  /\ ndOrder' = [ndOrder EXCEPT ![ndCall[k].order] = [status |-> "changed", total |-> NdBilled(k)]]
  /\ UNCHANGED <<ndOffer, ndLapsed, ndBooking, ndServices, ndFree, ndOps, ndOdd, ndMoved>>

\* serviceOrder: each service as it is found, then the bill.
NDReadToServe(k, o) == ndOrder[o].status = "pending" /\ NdBegin(k, "serve", o)
NDAddService(k) ==
  LET o == ndCall[k].order IN
  /\ NdDoing(k, {"serve"}) /\ ndCall[k].added < 2
  /\ ndServices' = [ndServices EXCEPT ![o] = @ + 1]
  /\ NdSet(k, [ndCall[k] EXCEPT !.added = @ + 1])
  /\ UNCHANGED <<ndOffer, ndLapsed, ndOrder, ndBooking, ndFree, ndOps, ndOdd, ndMoved>>
NDBill(k) ==
  /\ NdDoing(k, {"serve"}) /\ ndCall[k].added > 0 /\ NdSet(k, NdIdle)
  /\ ndOrder' = [ndOrder EXCEPT ![ndCall[k].order].total = NdBilled(k)]
  /\ UNCHANGED <<ndOffer, ndLapsed, ndBooking, ndServices, ndFree, ndOps, ndOdd, ndMoved>>

\* The payment of a booking is handled (webhooks/stripe.ts): it is found pending,
\* and later confirmed whatever it is by then; a seat of where it was is taken,
\* as far as there is one.
NDReadPayment(k, o) == ndBooking[o].status = "pending" /\ NdBeginWith(k, "pay", o, {NdPool(o)})
NDPay(k) ==
  /\ NdDoing(k, {"pay"}) /\ NdSet(k, NdIdle)
  /\ ndBooking' = [ndBooking EXCEPT ![ndCall[k].order].status = "confirmed"]
  /\ ndFree' = [p \in NdPools |-> IF p \in ndCall[k].to /\ ndFree[p] > 0 THEN ndFree[p] - 1
                                 ELSE ndFree[p]]
  /\ ndOdd' = ndOdd + NdOne(\E p \in ndCall[k].to : ndFree[p] = 0)
  /\ UNCHANGED <<ndOffer, ndLapsed, ndOrder, ndServices, ndOps, ndMoved>>

\* cancelBooking, which knows nothing of the order: it decides what seat to
\* give back by the booking it has read before its transaction.
NDReadBookingToCancel(k, o) ==
  /\ ndBooking[o].status \in {"pending", "confirmed"}
  /\ NdBeginWith(k, "drop", o, IF ndBooking[o].status = "confirmed" THEN {NdPool(o)} ELSE {})
NDCancelBooking(k) ==
  /\ NdDoing(k, {"drop"}) /\ NdSet(k, NdIdle)
  /\ ndBooking' = [ndBooking EXCEPT ![ndCall[k].order].status = "cancelled"]
  /\ ndFree' = NdRestored(ndCall[k].to)
  /\ UNCHANGED <<ndOffer, ndLapsed, ndOrder, ndServices, ndOps, ndOdd, ndMoved>>

\* A call is refused (a flight without a seat, a service that is not known) or
\* a statement fails; what it has written stays, save in the transaction of a
\* payment or a cancellation.
NdWroteNothing(k) ==
  \/ NdDoing(k, {"book", "expire", "cancel", "change", "pay", "drop"})
  \/ NdDoing(k, {"serve"}) /\ ndCall[k].added = 0
NDStop(k) ==
  /\ ~NdDoing(k, {"idle"}) /\ NdSet(k, NdIdle)
  /\ ndOdd' = ndOdd + NdOne(~NdWroteNothing(k))
  /\ UNCHANGED <<ndOffer, ndLapsed, ndOrder, ndBooking, ndServices, ndFree, ndOps, ndMoved>>

NDNext ==
  \/ \E k \in NdCalls :
       \/ NDReadToOrder(k) \/ NDBook(k) \/ NDInsertOrder(k) \/ NDMarkOrdered(k)
       \/ NDFindExpired(k) \/ NDExpireFound(k) \/ NDCancelOrder(k) \/ NDLookAtBooking(k)
       \/ NDUnbook(k) \/ NDRestore(k) \/ NDReleaseOffer(k) \/ NDUpgrade(k)
       \/ NDRecordChange(k) \/ NDAddService(k) \/ NDBill(k) \/ NDStop(k)
       \/ NDPay(k) \/ NDCancelBooking(k)
       \/ \E f \in NdFlights : NDChangeDate(k, f)
       \/ \E o \in NdIds :
            \/ NDReadToCancel(k, o) \/ NDReadToChange(k, o) \/ NDReadToServe(k, o)
            \/ NDReadPayment(k, o) \/ NDReadBookingToCancel(k, o)
  \/ NDExpireStale \/ NDLapse

NDSpec == NDInit /\ [][NDNext]_ndVars

NDTypeOK ==
  /\ ndOffer \in {"active", "expired", "ordered", "cancelled"} /\ ndLapsed \in BOOLEAN
  /\ ndOrder \in [NdIds -> [status : {"none", "pending", "changed", "cancelled"}, total : Nat]]
  /\ ndBooking \in [NdIds -> [status : {"none", "pending", "confirmed", "cancelled"},
                              flight : NdFlights, cabin : {"economy", "business"}]]
  /\ ndServices \in [NdIds -> Nat] /\ ndFree \in [NdPools -> Nat] /\ ndOps \in 0..NdMaxOps

\* A cabin of a flight has its seats: those available, of the paid bookings in
\* it and on the way back from a cancelled order, except one for each call that
\* met another (a payment and a cancellation of one booking among them) or
\* stopped half-way, for each sale of no seat, and for each move of a paid
\* booking, which leaves its seat behind.
NdHeld(p) ==
  Cardinality({o \in NdIds : ndBooking[o].status = "confirmed" /\ NdPool(o) = p})
  + Cardinality({k \in NdCalls : NdDoing(k, {"restore"}) /\ p \in ndCall[k].to})
NDSeatsKept ==
  \A p \in NdPools : LET drift == ndFree[p] + NdHeld(p) - NdSeats IN
    drift <= ndOdd + ndMoved /\ -drift <= ndOdd + ndMoved

\* An offer becomes one order, and one more for each such call.  And without
\* them, when no call is under way, a cancelled order has a cancelled booking
\* and offer, and the bill of every order is the fare, the upgrade if the
\* booking is in business, and the services of the booking.
NdMade == {o \in NdIds : ndOrder[o].status # "none"}
NDOrdersAgree ==
  /\ Cardinality(NdMade) <= 1 + ndOdd
  /\ ndOdd = 0 /\ ~NdBusy => \A o \in NdMade :
       /\ (ndOrder[o].status = "cancelled") <=> (ndOffer = "cancelled")
       /\ ndOrder[o].status = "cancelled" => ndBooking[o].status = "cancelled"
       /\ ndOrder[o].total = 1 + NdOne(ndBooking[o].cabin = "business") + ndServices[o]

\* Both: what the offer, its orders, their bookings and the seats owe each other.
NDOrdersSettle == NDSeatsKept /\ NDOrdersAgree
=============================================================================
