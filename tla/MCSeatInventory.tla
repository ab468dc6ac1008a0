-------------------------- MODULE MCSeatInventory --------------------------
(***************************************************************************)
(* Instances of SeatInventory for TLC.  The initial state chooses a part:  *)
(* three booking attempts that are not paid yet, or two attempts with two  *)
(* payments and cancellations in flight.                                   *)
(***************************************************************************)
EXTENDS SeatInventory, TLC

CONSTANTS r1, r2, r3, l1, l2, l3, c1, c2, alice, bob

VARIABLE part

MCCustomer == [r \in Requests |-> IF r = r1 THEN alice ELSE bob]
MCSeats == [r \in Requests |-> IF r = r1 THEN 2 ELSE 1]
OneSeatEach == [r \in Requests |-> 1]
RowSymmetry == Permutations(Locks) \cup Permutations(Calls)

RunInit == Init /\ part \in {"locks", "payments"}
RunNext == /\ Next
           /\ part = "locks" => call' = call
           /\ part = "payments" => \A r \in Requests \ {r1, r2} : At(r, "new")'
           /\ UNCHANGED part
RunSpec == RunInit /\ [][RunNext]_<<vars, part>>
=============================================================================
