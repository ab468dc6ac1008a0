----------------------------- MODULE SeatHolds -----------------------------
(***************************************************************************)
(* allocateSeats of inventory.service.ts: the rows of seat_holds and the   *)
(* rows of waitlist it inserts for one flight and cabin.  What is free is  *)
(* read first - the counter of the flight, less the live holds, plus what  *)
(* may be overbooked - and the hold is inserted in a later statement, so   *)
(* calls that read together hold the same seats.  Converting a hold does   *)
(* not touch the counter: the booking takes its seats when it is paid.     *)
(*                                                                         *)
(* A call of allocateSeats has a hold and a row on the list of its own, so *)
(* both are named by the call.                                             *)
(***************************************************************************)
EXTENDS Integers, FiniteSetsExt

CONSTANTS
  ShCalls,      \* calls of allocateSeats
  ShSeats,      \* ShSeats[c] is the number of seats call c asks for
  ShAvailable,  \* flights.xAvailable when the model starts
  ShOverbook,   \* overbookingLimit of the cabin
  ShMaxSold     \* bound on the seats sold by bookings meanwhile

ASSUME SeatHoldsAssumption ==
  /\ IsFiniteSet(ShCalls) /\ ShSeats \in [ShCalls -> Nat]
  /\ ShAvailable \in Nat /\ ShOverbook \in Nat /\ ShMaxSold \in Nat

VARIABLES
  shSold,       \* seats paid for since the start: xAvailable is the rest
  shCall,       \* program point of each call, what it read as free, its hold
                \* and its row on the waiting list
  shReleasing,  \* calls whose hold a releaseSeatHold has read as active
  shOverlaps,   \* history: reads made while another call had read and not held
  shLeft,       \* history: some row left the list
  shRaced       \* history: calls whose hold was converted under a release

shVars == <<shSold, shCall, shReleasing, shOverlaps, shLeft, shRaced>>

ShNew == [pc |-> "new", free |-> 0, hold |-> "none", got |-> 0,
          row |-> "none", rest |-> 0, priority |-> 0, before |-> {}]

SHInit ==
  /\ shSold = 0
  /\ shCall = [c \in ShCalls |-> ShNew]
  /\ shReleasing = {}
  /\ shOverlaps = 0 /\ shLeft = FALSE /\ shRaced = {}

ShSet(c, row) == shCall' = [shCall EXCEPT ![c] = row]
ShActive(c) == shCall[c].hold \in {"active", "overdue"}
ShWaiting == {c \in ShCalls : shCall[c].row = "waiting"}
ShHeldBy(C) == SumFunctionOnSet([c \in ShCalls |-> shCall[c].got], C)

\* getActiveHoldsCount: what has passed its expiry no longer counts, swept or not.
ShLive == {c \in ShCalls : shCall[c].hold = "active"}
ShHeldMutant == Cardinality(ShLive)
ShHeld == ShHeldBy(ShLive)

\* getInventoryStatus: availableSeats and effectiveAvailable
ShFree == ShAvailable - shSold - ShHeld
ShEffective == Max({0, ShFree + ShOverbook})

(***************************************************************************)
(* allocateSeats                                                           *)
(***************************************************************************)
\* All seats are held, or as many as there are and the rest waits, or the
\* whole request waits; a full flight takes nobody on an empty list.
SHRead(c) ==
  /\ shCall[c].pc = "new"
  /\ \/ /\ ShEffective > 0
        /\ ShSet(c, [ShNew EXCEPT !.pc = "hold", !.free = ShEffective])
        /\ shOverlaps' = IF \E d \in ShCalls : shCall[d].pc = "hold"
                         THEN shOverlaps + 1 ELSE shOverlaps
     \/ /\ ShEffective = 0 /\ ShWaiting # {}
        /\ ShSet(c, [ShNew EXCEPT !.pc = "count", !.rest = ShSeats[c]])
        /\ UNCHANGED shOverlaps
  /\ UNCHANGED <<shSold, shReleasing, shLeft, shRaced>>

ShGotMutant(c) == shCall[c].free
ShGot(c) == Min({ShSeats[c], shCall[c].free})
SHHold(c) ==
  /\ shCall[c].pc = "hold"
  /\ ShSet(c, [shCall[c] EXCEPT !.pc = IF ShGot(c) = ShSeats[c] THEN "done" ELSE "count",
                 !.free = 0, !.hold = "active",
                 !.got = ShGot(c), !.rest = ShSeats[c] - ShGot(c)])
  /\ UNCHANGED <<shSold, shReleasing, shOverlaps, shLeft, shRaced>>

\* addToWaitlist: the priority is the number of rows that wait, plus one.
ShNextPriority == Cardinality(ShWaiting) + 1
SHCount(c) ==
  /\ shCall[c].pc = "count"
  /\ ShSet(c, [shCall[c] EXCEPT !.pc = "join", !.priority = ShNextPriority,
                                !.before = ShWaiting])
  /\ UNCHANGED <<shSold, shReleasing, shOverlaps, shLeft, shRaced>>

SHJoin(c) ==
  /\ shCall[c].pc = "join"
  /\ ShSet(c, [shCall[c] EXCEPT !.pc = "done", !.row = "waiting"])
  /\ UNCHANGED <<shSold, shReleasing, shOverlaps, shLeft, shRaced>>

(***************************************************************************)
(* The end of a hold                                                       *)
(***************************************************************************)
SHLapse(c) ==
  /\ shCall[c].hold = "active"
  /\ ShSet(c, [shCall[c] EXCEPT !.hold = "overdue"])
  /\ UNCHANGED <<shSold, shReleasing, shOverlaps, shLeft, shRaced>>

\* processWaitlist of the service, after holds have ended: rows are offered
\* seats in the order of their priority until one does not fit.  Rows of one
\* priority come in any order.
ShAhead(c, d) == shCall[c].priority <= shCall[d].priority
ShRest(S) == SumFunctionOnSet([c \in ShCalls |-> shCall[c].rest], S)
ShOffer(free) == {S \in SUBSET ShWaiting :
  /\ \A c \in S, d \in ShWaiting \ S : ShAhead(c, d)
  /\ ShRest(S) <= Max({0, free})
  /\ \/ S = ShWaiting \/ free <= 0
     \/ \E d \in ShWaiting \ S : /\ \A e \in ShWaiting \ S : ShAhead(d, e)
                                /\ ShRest(S \cup {d}) > free}

ShEnd(C, status) == \E S \in ShOffer(ShFree + ShHeldBy(C \cap ShLive)) :
  /\ shCall' = [c \in ShCalls |->
       [shCall[c] EXCEPT !.hold = IF c \in C THEN status ELSE shCall[c].hold,
                         !.row = IF c \in S THEN "offered" ELSE shCall[c].row]]
  /\ shLeft' = (shLeft \/ S # {})

\* releaseSeatHold: the status is read, and written by the id of the hold.
SHReadHold(c) ==
  /\ ShActive(c) /\ c \notin shReleasing
  /\ shReleasing' = shReleasing \cup {c}
  /\ UNCHANGED <<shSold, shCall, shOverlaps, shLeft, shRaced>>

SHRelease(c) ==
  /\ c \in shReleasing
  /\ ShEnd({c}, "released")
  /\ shReleasing' = shReleasing \ {c}
  /\ UNCHANGED <<shSold, shOverlaps, shRaced>>

\* convertHoldToBooking: whatever the hold has become.
SHConvert(c) ==
  /\ shCall[c].hold \notin {"none", "converted"}
  /\ ShSet(c, [shCall[c] EXCEPT !.hold = "converted"])
  /\ shRaced' = IF c \in shReleasing THEN shRaced \cup {c} ELSE shRaced
  /\ UNCHANGED <<shSold, shReleasing, shOverlaps, shLeft>>

\* expireOldHolds, a scheduled job: one UPDATE.
ShOverdue == {c \in ShCalls : shCall[c].hold = "overdue"}
SHExpireHolds ==
  /\ ShOverdue # {}
  /\ ShEnd(ShOverdue, "expired")
  /\ UNCHANGED <<shSold, shReleasing, shOverlaps, shRaced>>

\* removeFromWaitlist, and cancelWaitlistEntry of the other service
SHLeave(c) ==
  /\ shCall[c].row \in {"waiting", "offered"}
  /\ ShSet(c, [shCall[c] EXCEPT !.row = "gone", !.rest = 0, !.before = {}])
  /\ shLeft' = TRUE
  /\ UNCHANGED <<shSold, shReleasing, shOverlaps, shRaced>>

\* A booking of the flight is paid; it looks at the counter, not at holds.
SHSell ==
  /\ shSold < ShMaxSold
  /\ shSold' = shSold + 1
  /\ UNCHANGED <<shCall, shReleasing, shOverlaps, shLeft, shRaced>>

SHNext ==
  \/ \E c \in ShCalls :
       \/ SHRead(c) \/ SHHold(c) \/ SHCount(c) \/ SHJoin(c)
       \/ SHLapse(c) \/ SHReadHold(c) \/ SHRelease(c) \/ SHConvert(c)
       \/ SHLeave(c)
  \/ SHExpireHolds \/ SHSell

SHSpec == SHInit /\ [][SHNext]_shVars

(***************************************************************************)
(* Properties                                                              *)
(***************************************************************************)
SHTypeOK ==
  /\ shSold \in 0..ShMaxSold
  /\ shCall \in [ShCalls ->
       [pc : {"new", "hold", "count", "join", "done"}, free : Nat,
        hold : {"none", "active", "overdue", "released", "converted", "expired"},
        got : Nat, row : {"none", "waiting", "offered", "gone"},
        rest : Nat, priority : Nat, before : SUBSET ShCalls]]
  /\ shReleasing \subseteq ShCalls /\ shRaced \subseteq ShCalls
  /\ shOverlaps \in Nat /\ shLeft \in BOOLEAN

\* The seats held never exceed what may be held, as long as no two calls
\* overlap between their read and their hold; each overlap adds at most as
\* much again, however holds end and others begin.
SHHoldsBounded ==
  ShHeldBy(ShLive) <= (1 + shOverlaps) * (ShAvailable + ShOverbook)

\* A hold that became a booking stays one: no clean-up takes it back, and a
\* release only when it had read the hold before.
SHConvertedStays ==
  [][\A c \in ShCalls : shCall[c].hold = "converted" /\ c \notin shRaced
       => shCall'[c].hold = "converted"]_shCall

\* Until a row leaves the list by an offer or a cancellation, the list is in the
\* order of arrival.  Then the count of waiting rows is smaller than the last
\* priority, and a later customer may get a place in front.
SHLaterIsBehind ==
  ~shLeft => \A c \in ShWaiting : \A d \in shCall[c].before :
                  shCall[d].priority < shCall[c].priority
=============================================================================
