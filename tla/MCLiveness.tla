----------------------------- MODULE MCLiveness -----------------------------
(***************************************************************************)
(* One run for what must happen in the end and is driven by a clock or a   *)
(* worker: the requests that wait for the flight row, the offers of the    *)
(* waiting list, and the retry of Stripe events.  The parts have no        *)
(* variable in common; the initial state chooses the one that moves, and   *)
(* the others have nothing to be fair about.                               *)
(***************************************************************************)
EXTENDS SeatInventory, Waitlist, WebhookRetry

CONSTANTS r1, r2, l1, l2, c1, alice, bob, one, two, first, second

VARIABLE part

MCCustomer == [r \in Requests |-> IF r = r1 THEN alice ELSE bob]
MCSeats == [r \in Requests |-> IF r = r1 THEN 2 ELSE 1]

MCListSeats == [e \in WlEntries |-> IF e = one THEN 1 ELSE 2]
MCListUser == [e \in WlEntries |-> e]

MCMix(a, b) == [e \in WrEvents |-> IF e = first THEN a ELSE b]
MCMixes == {MCMix("checkout", "succeeded"), MCMix("checkout", "refund"),
            MCMix("succeeded", "refund"), MCMix("succeeded", "failed")}

RunInit ==
  /\ part \in {"locks", "list", "retry"}
  /\ Init /\ WLInit /\ WRInit
  /\ part # "retry" => wrKind = MCMix("checkout", "succeeded")

RunNext ==
  /\ \/ part = "locks" /\ Next /\ UNCHANGED <<wlVars, wrVars>>
     \/ part = "list" /\ WLNext /\ UNCHANGED <<vars, wrVars>>
     \/ part = "retry" /\ WRNext /\ UNCHANGED <<vars, wlVars>>
  /\ UNCHANGED part

RunSpec == /\ RunInit /\ [][RunNext]_<<vars, wlVars, wrVars, part>>
           /\ Fairness /\ WLFairness /\ WRFairness
=============================================================================
