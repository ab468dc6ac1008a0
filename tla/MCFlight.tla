------------------------------ MODULE MCFlight ------------------------------
(***************************************************************************)
(* One run for what goes on around the seats of a flight outside the       *)
(* inventory locks: the sales that bypass them, the holds, the waiting     *)
(* list, the seat map and the gates.  The parts have no variable in        *)
(* common; the initial state chooses the one that moves.                   *)
(***************************************************************************)
EXTENDS SeatTakers, SeatHolds, Waitlist, SeatMap, Gates, TLC

CONSTANTS k1, k2, group, trip, c1, c2, one, two, x1, x2

VARIABLE part

MCSize == [x \in {group, trip} |-> IF x = group THEN 1 ELSE 2]
MCHoldSeats == [c \in ShCalls |-> IF c = c1 THEN 1 ELSE 2]
RunSymmetry == Permutations({k1, k2}) \cup Permutations({x1, x2})

MCListSeats == [e \in WlEntries |-> IF e = one THEN 1 ELSE 2]
MCListUser == [e \in WlEntries |-> e]

RunInit ==
  /\ part \in {"takers", "holds", "list", "map", "gates"}
  /\ STInit /\ SHInit /\ WLInit /\ SMInit /\ GTInit

RunNext ==
  /\ \/ part = "takers" /\ STNext /\ UNCHANGED <<shVars, wlVars, smVars, gtVars>>
     \/ part = "holds" /\ SHNext /\ UNCHANGED <<stVars, wlVars, smVars, gtVars>>
     \/ part = "list" /\ WLNext /\ UNCHANGED <<stVars, shVars, smVars, gtVars>>
     \/ part = "map" /\ SMNext /\ UNCHANGED <<stVars, shVars, wlVars, gtVars>>
     \/ part = "gates" /\ GTNext /\ UNCHANGED <<stVars, shVars, wlVars, smVars>>
  /\ UNCHANGED part

\* The state of each part has its type.
TypesOK == STTypeOK /\ SHTypeOK /\ WLTypeOK /\ SMTypeOK /\ GTTypeOK

\* First come, first served, in the lists of both services (addToWaitlist of
\* waitlist.service.ts and of inventory.service.ts).
LaterIsBehind == WLLaterIsBehind /\ SHLaterIsBehind

\* Every seat is accounted for, by the sales that bypass the locks (the group,
\* rebooking and travel agent services) and by the waiting list.
SeatsAccounted == STSeatsAccounted /\ WLSeatsAccounted

\* A hold that became a booking stays one (releaseSeatHold, expireOldHolds), and
\* a passenger who has checked in keeps the seat (releaseSeat of the seat map).
DoneStaysDone == SHConvertedStays /\ SMCheckedInStays

RunSpec == RunInit /\ [][RunNext]_<<stVars, shVars, wlVars, smVars, gtVars, part>>
=============================================================================
