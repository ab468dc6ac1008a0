----------------------------- MODULE SeatTakers -----------------------------
(***************************************************************************)
(* The sales of one flight that do not pass through an inventory lock:     *)
(* group bookings, the rebooking of an earlier trip, and the bookings of a *)
(* travel agent.  Each reads flights.xAvailable, compares it with what it  *)
(* needs and subtracts in a later statement without comparing again, so    *)
(* what was read may be stale by then.                                     *)
(*                                                                         *)
(* A clerk is a session of an administrator, a customer, the agent's       *)
(* programme or the payment webhook: it has one call under way at a time   *)
(* and any number after each other.                                        *)
(***************************************************************************)
EXTENDS Integers, FiniteSetsExt

CONSTANTS
  StClerks,
  StGroups,       \* rows of group_bookings
  StRebookings,   \* calls of quickRebook, and the booking each creates
  StSize,         \* StSize[x] is the number of seats group or rebooking x needs
  StMaxSize,      \* the most seats a call takes
  StCapacity,     \* seats on sale when the model starts
  StDailyLimit,   \* dailyBookingLimit of the agent
  StMaxAgent      \* bound on the bookings of the agent

ASSUME SeatTakersAssumption ==
  /\ IsFiniteSet(StClerks) /\ IsFiniteSet(StGroups) /\ IsFiniteSet(StRebookings)
  /\ StMaxSize \in Nat \ {0}
  /\ StSize \in [StGroups \cup StRebookings -> 1..StMaxSize]
  /\ StCapacity \in Nat /\ StDailyLimit \in Nat /\ StMaxAgent \in Nat

VARIABLES
  stAvail,      \* flights.xAvailable
  stGroup,      \* status of each group booking, and how often it was deducted
  stRebooked,   \* status of the booking of each rebooking
  stAgent,      \* rows of agent_bookings of today
  stAgentTaken, \* history: seats the agent's bookings have taken
  stClerk,      \* what each clerk has under way
  stMissed      \* history: seats of the writes that missed a payment

stVars == <<stAvail, stGroup, stRebooked, stAgent, stAgentTaken, stClerk,
            stMissed>>

StIdle == [doing |-> "idle", seats |-> 0]
StCalls == [doing : {"approve", "deduct"}, group : StGroups, seats : 1..StMaxSize]
           \cup [doing : {"reject"}, group : StGroups, seats : {0}]
           \cup [doing : {"rebook"}, trip : StRebookings, seats : 1..StMaxSize]
           \cup [doing : {"pay"}, trip : StRebookings, read : {"pending"}, seats : {0}]
           \cup [doing : {"cancel"}, trip : StRebookings,
                 read : {"pending", "confirmed"}, seats : {0}]
           \cup [doing : {"limits"}, seats : {0}]
           \cup [doing : {"insert", "take"}, seats : 1..StMaxSize]

StDoing(k, what) == stClerk[k].doing = what
StSet(k, call) == stClerk' = [stClerk EXCEPT ![k] = call]

STInit ==
  /\ stAvail = StCapacity
  /\ stGroup = [g \in StGroups |-> [status |-> "pending", taken |-> 0]]
  /\ stRebooked = [b \in StRebookings |-> "none"]
  /\ stAgent = 0 /\ stAgentTaken = 0
  /\ stClerk = [k \in StClerks |-> StIdle]
  /\ stMissed = 0

\* The check every taker makes of the counter it has read.
StEnoughMutant(n) == n > 0
StEnough(n) == stAvail >= n

(***************************************************************************)
(* Group bookings.  The status and the counter are two statements.         *)
(***************************************************************************)
StPending(g) == stGroup[g].status = "pending"
STReadGroup(k, g) ==
  /\ StDoing(k, "idle")
  /\ StPending(g) /\ StEnough(StSize[g])
  /\ StSet(k, [doing |-> "approve", group |-> g, seats |-> StSize[g]])
  /\ UNCHANGED <<stAvail, stGroup, stRebooked, stAgent, stAgentTaken, stMissed>>

STApproveGroup(k) ==
  /\ StDoing(k, "approve")
  /\ stGroup' = [stGroup EXCEPT ![stClerk[k].group].status = "confirmed"]
  /\ StSet(k, [stClerk[k] EXCEPT !.doing = "deduct"])
  /\ UNCHANGED <<stAvail, stRebooked, stAgent, stAgentTaken, stMissed>>

STDeductGroup(k) ==
  /\ StDoing(k, "deduct")
  /\ stAvail' = stAvail - stClerk[k].seats
  /\ stGroup' = [stGroup EXCEPT ![stClerk[k].group].taken =
                   stGroup[stClerk[k].group].taken + 1]
  /\ StSet(k, StIdle)
  /\ UNCHANGED <<stRebooked, stAgent, stAgentTaken, stMissed>>

STReadRejected(k, g) ==
  /\ StDoing(k, "idle")
  /\ StPending(g)
  /\ StSet(k, [doing |-> "reject", group |-> g, seats |-> 0])
  /\ UNCHANGED <<stAvail, stGroup, stRebooked, stAgent, stAgentTaken, stMissed>>

STRejectGroup(k) ==
  /\ StDoing(k, "reject")
  /\ stGroup' = [stGroup EXCEPT ![stClerk[k].group].status = "cancelled"]
  /\ StSet(k, StIdle)
  /\ UNCHANGED <<stAvail, stRebooked, stAgent, stAgentTaken, stMissed>>

(***************************************************************************)
(* quickRebook.  The booking, its passengers and the seats are written in  *)
(* one transaction; the payment deducts them again (GREATEST) and a        *)
(* cancellation returns them only from a confirmed booking.                *)
(***************************************************************************)
STReadTrip(k, b) ==
  /\ StDoing(k, "idle")
  /\ stRebooked[b] = "none" /\ StEnough(StSize[b])
  /\ \A j \in StClerks : StDoing(j, "rebook") => stClerk[j].trip # b
  /\ StSet(k, [doing |-> "rebook", trip |-> b, seats |-> StSize[b]])
  /\ UNCHANGED <<stAvail, stGroup, stRebooked, stAgent, stAgentTaken, stMissed>>

STRebook(k) ==
  /\ StDoing(k, "rebook")
  /\ stRebooked' = [stRebooked EXCEPT ![stClerk[k].trip] = "pending"]
  /\ stAvail' = stAvail - stClerk[k].seats
  /\ StSet(k, StIdle)
  /\ UNCHANGED <<stGroup, stAgent, stAgentTaken, stMissed>>

\* The webhook and cancelBooking read the booking first; the transaction that
\* follows decides from that copy.  It misses a payment if the copy is pending
\* and the booking is paid by then.
StCopy(doing, b) == [doing |-> doing, trip |-> b, read |-> stRebooked[b], seats |-> 0]
STReadPayment(k, b) ==
  /\ StDoing(k, "idle")
  /\ stRebooked[b] = "pending"
  /\ StSet(k, StCopy("pay", b))
  /\ UNCHANGED <<stAvail, stGroup, stRebooked, stAgent, stAgentTaken, stMissed>>

STReadCancel(k, b) ==
  /\ StDoing(k, "idle")
  /\ stRebooked[b] \in {"pending", "confirmed"}
  /\ StSet(k, StCopy("cancel", b))
  /\ UNCHANGED <<stAvail, stGroup, stRebooked, stAgent, stAgentTaken, stMissed>>

StEndTrip(k, b, status) ==
  /\ stClerk[k].trip = b
  /\ stRebooked' = [stRebooked EXCEPT ![b] = status]
  /\ stMissed' = IF stClerk[k].read = "pending" /\ stRebooked[b] = "confirmed"
                 THEN stMissed + StSize[b] ELSE stMissed
  /\ StSet(k, StIdle)
  /\ UNCHANGED <<stGroup, stAgent, stAgentTaken>>

STPay(k, b) ==
  /\ StDoing(k, "pay")
  /\ StEndTrip(k, b, "confirmed")
  /\ stAvail' = IF stAvail >= StSize[b] THEN stAvail - StSize[b] ELSE 0

StReturnedMutant(k, b) == 0
StReturned(k, b) == IF stClerk[k].read = "confirmed" THEN StSize[b] ELSE 0
STCancel(k, b) ==
  /\ StDoing(k, "cancel")
  /\ StEndTrip(k, b, "cancelled")
  /\ stAvail' = stAvail + StReturned(k, b)

(***************************************************************************)
(* createAgentBooking: the bookings of the day are counted, the flight is  *)
(* read, booking and agent_bookings are inserted, and the seats go last.   *)
(***************************************************************************)
StUnderLimit == stAgent < StDailyLimit
STCountToday(k) ==
  /\ StDoing(k, "idle")
  /\ StUnderLimit
  /\ StSet(k, [doing |-> "limits", seats |-> 0])
  /\ UNCHANGED <<stAvail, stGroup, stRebooked, stAgent, stAgentTaken, stMissed>>

STReadFlight(k) ==
  /\ StDoing(k, "limits")
  /\ \E n \in 1..StMaxSize :
       IF StEnough(n) THEN StSet(k, [doing |-> "insert", seats |-> n])
       ELSE StSet(k, StIdle)
  /\ UNCHANGED <<stAvail, stGroup, stRebooked, stAgent, stAgentTaken, stMissed>>

STInsertBooking(k) ==
  /\ StDoing(k, "insert")
  /\ stAgent < StMaxAgent
  /\ stAgent' = stAgent + 1
  /\ StSet(k, [stClerk[k] EXCEPT !.doing = "take"])
  /\ UNCHANGED <<stAvail, stGroup, stRebooked, stAgentTaken, stMissed>>

STTakeSeats(k) ==
  /\ StDoing(k, "take")
  /\ stAvail' = stAvail - stClerk[k].seats
  /\ stAgentTaken' = stAgentTaken + stClerk[k].seats
  /\ StSet(k, StIdle)
  /\ UNCHANGED <<stGroup, stRebooked, stAgent, stMissed>>

\* A call ends half way: what it wrote stays.
STFail(k) ==
  /\ ~StDoing(k, "idle")
  /\ StSet(k, StIdle)
  /\ UNCHANGED <<stAvail, stGroup, stRebooked, stAgent, stAgentTaken, stMissed>>

STNext ==
  \E k \in StClerks :
       \/ \E g \in StGroups : STReadGroup(k, g) \/ STReadRejected(k, g)
       \/ \E b \in StRebookings : \/ STReadTrip(k, b)
                                 \/ STReadPayment(k, b) \/ STPay(k, b)
                                 \/ STReadCancel(k, b) \/ STCancel(k, b)
       \/ STApproveGroup(k) \/ STDeductGroup(k) \/ STRejectGroup(k)
       \/ STRebook(k) \/ STCountToday(k) \/ STReadFlight(k)
       \/ STInsertBooking(k) \/ STTakeSeats(k) \/ STFail(k)

STSpec == STInit /\ [][STNext]_stVars

(***************************************************************************)
(* Properties                                                              *)
(***************************************************************************)
STTypeOK ==
  /\ stAvail \in Int /\ stAgent \in 0..StMaxAgent /\ stAgentTaken \in Nat
  /\ stMissed \in Nat
  /\ stGroup \in [StGroups ->
       [status : {"pending", "confirmed", "cancelled"}, taken : Nat]]
  /\ stRebooked \in [StRebookings -> {"none", "pending", "confirmed", "cancelled"}]
  /\ stClerk \in [StClerks -> StCalls \cup {StIdle}]

\* A check made on a stale read is overrun by one call of every clerk and no
\* more, however the calls interleave: the seats of the flight, the limit of the
\* agent, which the last to count has not yet exceeded, and the deductions of
\* a group, each by a clerk that read it as pending.
STOverrunsBounded ==
  /\ stAvail >= -(StMaxSize * Cardinality(StClerks))
  /\ StDailyLimit > 0 => stAgent <= StDailyLimit + Cardinality(StClerks) - 1
  /\ \A g \in StGroups : /\ stGroup[g].taken <= Cardinality(StClerks)
                         /\ stGroup[g].status = "pending" => stGroup[g].taken = 0

\* Every seat is somewhere: on sale, in a group as often as it was deducted,
\* with the agent, or in a rebooked trip - twice once it is paid, and once
\* for ever when it is cancelled - or was lost to a payment or a cancellation
\* that wrote from a copy older than the trip's payment.  A payment that takes
\* more than there is stops at zero, so the sum may exceed the capacity.
StKept(b) == CASE stRebooked[b] = "none" -> 0
               [] stRebooked[b] = "confirmed" -> 2 * StSize[b]
               [] OTHER -> StSize[b]
STSeatsAccounted ==
  stAvail + stAgentTaken
    + SumFunctionOnSet([g \in StGroups |-> stGroup[g].taken * StSize[g]], StGroups)
    + SumFunctionOnSet([b \in StRebookings |-> StKept(b)], StRebookings)
    + stMissed >= StCapacity
=============================================================================
