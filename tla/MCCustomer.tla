----------------------------- MODULE MCCustomer -----------------------------
(***************************************************************************)
(* One run for what a customer owns: the wallet, the miles, the family     *)
(* group, vouchers and credits, price locks, the split of a price among    *)
(* payers, the sessions on several devices, the orders made through a      *)
(* distributor, and the bookings of a flight that is cancelled.  The parts *)
(* have no variable in common; the initial state chooses the one that      *)
(* moves.                                                                  *)
(***************************************************************************)
EXTENDS Wallet, Miles, FamilyGroup, Vouchers, PriceLocks, SplitPayment, Sessions,
        NdcOrders, FlightStatus, TLC

CONSTANTS topUp, refund, bad, k1, k2, x1, x2, b1, b2, b3, mailer

VARIABLE part

MCKind == [c \in Calls |-> CASE c = topUp -> "topUp"
                             [] c = refund -> "refund"
                             [] OTHER -> "pay"]
MCAmount == [c \in Calls |-> CASE c = refund -> 1
                               [] c = bad -> 0
                               [] OTHER -> 2]

\* Silver starts at 4 points with a quarter more, gold at 8 with half more.
MCLadder == <<[from |-> 0, percent |-> 100], [from |-> 4, percent |-> 125],
              [from |-> 8, percent |-> 150]>>

MCOwner == [b \in {b1, b2, b3, x1, x2} |-> IF b \in {b1, b2, b3} THEN b1 ELSE b]
MCCredits == <<"first", "second">>
MCCreditAmount == [c \in {"first", "second"} |-> IF c = "first" THEN 1 ELSE 2]

Requests == {k1, k2}
Others == {x1, x2}
RunSymmetry == Permutations(Requests) \cup Permutations(Others)

OwnVars == <<vars, miVars, fgVars, voVars, plVars, spVars>>
Together == <<OwnVars, snVars, ndVars, fsVars>>

RunInit ==
  /\ part \in {"wallet", "miles", "family", "vouchers", "price locks", "split",
              "sessions", "orders", "flight status"}
  /\ Init /\ MIInit /\ FGInit /\ VOInit /\ PLInit /\ SPInit
  /\ SNInit /\ NDInit /\ FSInit

\* One division of a price with two shares paid, or two with one.
SplitBound ==
  Cardinality({r \in SpRequests : spRequest'[r] # "idle"}) + Cardinality(SpOpened') <= 3

OwnNext ==
  \/ part = "wallet" /\ Next
     /\ UNCHANGED <<miVars, fgVars, voVars, plVars, spVars>>
  \/ part = "miles" /\ MINext
     /\ UNCHANGED <<vars, fgVars, voVars, plVars, spVars>>
  \/ part = "family" /\ FGNext
     /\ UNCHANGED <<vars, miVars, voVars, plVars, spVars>>
  \/ part = "vouchers" /\ VONext
     /\ UNCHANGED <<vars, miVars, fgVars, plVars, spVars>>
  \/ part = "price locks" /\ PLNext
     /\ UNCHANGED <<vars, miVars, fgVars, voVars, spVars>>
  \/ part = "split" /\ SPNext /\ SplitBound
     /\ UNCHANGED <<vars, miVars, fgVars, voVars, plVars>>

RunNext ==
  /\ \/ OwnNext /\ UNCHANGED <<snVars, ndVars, fsVars>>
     \/ part = "sessions" /\ SNNext /\ UNCHANGED <<OwnVars, ndVars, fsVars>>
     \/ part = "orders" /\ NDNext /\ UNCHANGED <<OwnVars, snVars, fsVars>>
     \/ part = "flight status" /\ FSNext /\ UNCHANGED <<OwnVars, snVars, ndVars>>
  /\ UNCHANGED part

\* The state of each part has its type; that of the wallet says that no payment
\* makes the balance negative and none goes past the column.
TypesOK ==
  /\ TypeOK /\ MITypeOK /\ FGTypeOK /\ VOTypeOK /\ PLTypeOK /\ SPTypeOK
  /\ SNTypeOK /\ NDTypeOK /\ FSTypeOK

RunSpec == RunInit /\ [][RunNext]_<<Together, part>>
=============================================================================
