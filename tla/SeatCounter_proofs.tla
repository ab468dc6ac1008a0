------------------------ MODULE SeatCounter_proofs ---------------------------
(***************************************************************************)
(* Proofs about what takes seats from the counter of a flight outside the  *)
(* inventory locks: the sales of the group, rebooking and travel agent     *)
(* services (SeatTakers), the holds and their waiting list (SeatHolds,     *)
(* names that begin with Hold) and the waiting list of its own (Waitlist,  *)
(* names that begin with List), for any number of calls, entries, bookings *)
(* and seats.                                                              *)
(*                                                                         *)
(* No call of any of them locks what it has read.  The invariants say what *)
(* a call that is half way still knows, and count the calls whose write is *)
(* still to come with what is already written.                             *)
(***************************************************************************)
EXTENDS SeatTakers, SeatHolds, Waitlist, Sums_proofs

(***************************************************************************)
(* SeatTakers: every overrun is paid for by a clerk who has a check behind *)
(* and its write before it.  What may still be overrun shrinks with each.  *)
(***************************************************************************)
Clerks == Cardinality(StClerks)
Doing(W) == {k \in StClerks : stClerk[k].doing \in W}
Checked == {"approve", "deduct", "rebook", "insert", "take"}
Counted == {"limits", "insert"}
OnGroup(g) == {k \in Doing({"approve", "deduct"}) : stClerk[k].group = g}

\* Only clerks who have already taken their seats leave the counter negative.
OversellInv == stAvail >= -(StMaxSize * (Clerks - Cardinality(Doing(Checked))))

\* Of those who counted the agent's bookings together the first finds one less
\* than the limit.
LimitInv ==
  StDailyLimit > 0 =>
    stAgent + Cardinality(Doing(Counted)) <= StDailyLimit + Clerks - 1

\* A group was deducted, or will be, once for every clerk who read it as
\* pending; and not before it was approved.
GroupInv == \A g \in StGroups :
  /\ stGroup[g].taken + Cardinality(OnGroup(g)) <= Clerks
  /\ stGroup[g].status = "pending" =>
       /\ stGroup[g].taken = 0
       /\ \A k \in OnGroup(g) : stClerk[k].doing # "deduct"

IInv == STTypeOK /\ OversellInv /\ LimitInv /\ GroupInv

\* Counting clerks

LEMMA SizeOfPart ==
  ASSUME NEW T \in SUBSET StClerks
  PROVE  /\ IsFiniteSet(T) /\ Cardinality(T) \in Nat
         /\ Clerks \in Nat /\ Cardinality(T) <= Clerks
BY SeatTakersAssumption, FS_Subset, FS_CardinalityType DEF Clerks

LEMMA SizeLess ==
  ASSUME NEW T \in SUBSET StClerks, NEW k \in T
  PROVE  Cardinality(T \ {k}) = Cardinality(T) - 1
BY SizeOfPart, FS_RemoveElement

LEMMA SizeShrinks ==
  ASSUME NEW T \in SUBSET StClerks, NEW U \in SUBSET T
  PROVE  Cardinality(U) <= Cardinality(T)
BY SizeOfPart, FS_Subset

LEMMA CallTypes ==
  ASSUME STTypeOK, NEW k \in StClerks
  PROVE  /\ stClerk[k] \in StCalls \cup {StIdle}
         /\ StDoing(k, "approve") \/ StDoing(k, "deduct") =>
              stClerk[k].group \in StGroups /\ stClerk[k].seats \in 1..StMaxSize
         /\ StDoing(k, "reject") => stClerk[k].group \in StGroups
         /\ StDoing(k, "rebook") =>
              stClerk[k].trip \in StRebookings /\ stClerk[k].seats \in 1..StMaxSize
         /\ StDoing(k, "insert") \/ StDoing(k, "take") =>
              stClerk[k].seats \in 1..StMaxSize
         /\ StDoing(k, "pay") \/ StDoing(k, "cancel") =>
              /\ stClerk[k].trip \in StRebookings
              /\ stClerk[k].read \in {"pending", "confirmed"}
         /\ StDoing(k, "pay") => stClerk[k].read = "pending"
         /\ StDoing(k, "approve") =>
              [stClerk[k] EXCEPT !.doing = "deduct"] \in StCalls
         /\ StDoing(k, "insert") =>
              [stClerk[k] EXCEPT !.doing = "take"] \in StCalls
<1>1. stClerk[k] \in StCalls \cup {StIdle}
  BY DEF STTypeOK
<1> DEFINE c == stClerk[k]
<1>2. c.doing \in {"approve", "deduct"} =>
        c \in [doing : {"approve", "deduct"}, group : StGroups, seats : 1..StMaxSize]
  BY <1>1 DEF StCalls, StIdle
<1>3. c.doing = "reject" => c \in [doing : {"reject"}, group : StGroups, seats : {0}]
  BY <1>1 DEF StCalls, StIdle
<1>4. c.doing = "rebook" =>
        c \in [doing : {"rebook"}, trip : StRebookings, seats : 1..StMaxSize]
  BY <1>1 DEF StCalls, StIdle
<1>5. c.doing \in {"insert", "take"} =>
        c \in [doing : {"insert", "take"}, seats : 1..StMaxSize]
  BY <1>1 DEF StCalls, StIdle
<1>8. c.doing = "pay" => c \in [doing : {"pay"}, trip : StRebookings,
                                 read : {"pending"}, seats : {0}]
  BY <1>1 DEF StCalls, StIdle
<1>9. c.doing = "cancel" => c \in [doing : {"cancel"}, trip : StRebookings,
                                    read : {"pending", "confirmed"}, seats : {0}]
  BY <1>1 DEF StCalls, StIdle
<1>6. c.doing = "approve" => [c EXCEPT !.doing = "deduct"] \in StCalls
  BY <1>2 DEF StCalls
<1>7. c.doing = "insert" => [c EXCEPT !.doing = "take"] \in StCalls
  BY <1>5 DEF StCalls
<1> QED
  BY <1>1, <1>2, <1>3, <1>4, <1>5, <1>6, <1>7, <1>8, <1>9 DEF StDoing

\* A clerk who moves on changes the sets of clerks by itself alone.
LEMMA ClerkMoves ==
  ASSUME STTypeOK, NEW k \in StClerks, NEW c \in StCalls \cup {StIdle}, StSet(k, c)
  PROVE  /\ stClerk' \in [StClerks -> StCalls \cup {StIdle}]
         /\ stClerk'[k] = c
         /\ \A j \in StClerks \ {k} : stClerk'[j] = stClerk[j]
         /\ \A W : /\ c.doing \in W => Doing(W)' = Doing(W) \cup {k}
                   /\ c.doing \notin W => Doing(W)' = Doing(W) \ {k}
<1>1. /\ stClerk' \in [StClerks -> StCalls \cup {StIdle}]
      /\ stClerk'[k] = c
      /\ \A j \in StClerks \ {k} : stClerk'[j] = stClerk[j]
  BY DEF STTypeOK, StSet
<1> QED
  BY <1>1 DEF Doing

\* Leaving the group's calls, or never having been in them, adds nobody there.
LEMMA GroupLeft ==
  ASSUME STTypeOK, NEW k \in StClerks, NEW c \in StCalls \cup {StIdle}, StSet(k, c),
         c.doing \notin {"approve", "deduct"}, NEW g \in StGroups
  PROVE  /\ OnGroup(g)' = OnGroup(g) \ {k}
         /\ \A j \in OnGroup(g)' : stClerk'[j].doing = stClerk[j].doing
<1> DEFINE W == {"approve", "deduct"}
<1>1. Doing(W)' = Doing(W) \ {k}
  BY ClerkMoves
<1>2. \A j \in StClerks \ {k} : stClerk'[j] = stClerk[j]
  BY ClerkMoves
<1>3. \A j \in Doing(W)' : j \in StClerks \ {k}
  BY <1>1 DEF Doing
<1> QED
  BY <1>1, <1>2, <1>3 DEF OnGroup

\* Steps that disturb a part of the invariant in the same way

LEMMA Products ==
  ASSUME NEW m \in Nat, NEW a \in Nat, NEW b \in Nat, b <= a
  PROVE  /\ m * a \in Nat /\ m * b <= m * a
         /\ m * (a + 1) = m * a + m
<1>1. PICK d \in Nat : a = b + d
  BY SMT
<1>2. m * a = m * b + m * d /\ m * d \in Nat /\ m * b \in Nat
  BY <1>1, SMT
<1> QED
  BY <1>2, SMT

\* The counter is above zero, or nothing was taken and no check was added.
LEMMA OversellKept ==
  ASSUME STTypeOK, OversellInv, stAvail' \in Int,
         \/ stAvail' >= 0
         \/ stAvail' >= stAvail /\ Doing(Checked)' \subseteq Doing(Checked)
  PROVE  OversellInv'
<1> DEFINE t == Cardinality(Doing(Checked))
           u == Cardinality(Doing(Checked)')
<1>1. /\ Doing(Checked) \in SUBSET StClerks /\ Doing(Checked)' \in SUBSET StClerks
      /\ StMaxSize \in Nat
  BY SeatTakersAssumption DEF Doing
<1>2. t \in Nat /\ u \in Nat /\ Clerks \in Nat /\ t <= Clerks /\ u <= Clerks
  BY <1>1, SizeOfPart
<1>3. StMaxSize * (Clerks - u) \in Nat
  BY <1>1, <1>2, Products
<1>4. CASE stAvail' >= 0
  BY <1>3, <1>4 DEF OversellInv, Clerks
<1>5. CASE stAvail' >= stAvail /\ Doing(Checked)' \subseteq Doing(Checked)
  <2>1. u <= t
    BY <1>1, <1>5, SizeShrinks
  <2>2. StMaxSize * (Clerks - t) <= StMaxSize * (Clerks - u)
    <3> DEFINE a == Clerks - u
               b == Clerks - t
    <3>1. a \in Nat /\ b \in Nat /\ b <= a
      BY <1>2, <2>1
    <3> HIDE DEF a, b
    <3>2. StMaxSize * b <= StMaxSize * a
      BY <1>1, <3>1, Products
    <3> QED
      BY <3>2 DEF a, b
  <2>3. StMaxSize * (Clerks - t) \in Nat
    BY <1>1, <1>2, Products
  <2>4. stAvail >= -(StMaxSize * (Clerks - t)) /\ stAvail \in Int
    BY DEF OversellInv, STTypeOK
  <2> HIDE DEF t, u
  <2>5. stAvail' >= -(StMaxSize * (Clerks - u))
    BY <1>3, <1>5, <2>2, <2>3, <2>4
  <2> QED
    BY <2>5 DEF OversellInv, u, Clerks
<1> QED
  BY <1>4, <1>5

\* A clerk that had checked takes the seats of one call.
LEMMA OversellTaken ==
  ASSUME STTypeOK, OversellInv, NEW k \in Doing(Checked), NEW n \in 1..StMaxSize,
         stAvail' = stAvail - n, Doing(Checked)' = Doing(Checked) \ {k}
  PROVE  OversellInv'
<1> DEFINE t == Cardinality(Doing(Checked))
           a == Clerks - t
<1>1. Doing(Checked) \in SUBSET StClerks /\ StMaxSize \in Nat
  BY SeatTakersAssumption DEF Doing
<1>2. t \in Nat /\ Clerks \in Nat /\ t <= Clerks
  BY <1>1, SizeOfPart
<1>3. Cardinality(Doing(Checked)') = t - 1
  BY <1>1, SizeLess
<1>4. a \in Nat /\ Clerks - (t - 1) = a + 1
  BY <1>2
<1>5. stAvail >= -(StMaxSize * a) /\ stAvail \in Int
  BY DEF OversellInv, STTypeOK
<1> HIDE DEF a, t
<1>6. StMaxSize * (a + 1) = StMaxSize * a + StMaxSize /\ StMaxSize * a \in Nat
  BY <1>1, <1>4, Products
<1>7. stAvail' >= -(StMaxSize * (Clerks - Cardinality(Doing(Checked)')))
  BY <1>1, <1>3, <1>4, <1>5, <1>6
<1> QED
  BY <1>7 DEF OversellInv, Clerks

LEMMA LimitKept ==
  ASSUME STTypeOK, LimitInv, stAgent' = stAgent,
         Doing(Counted)' \subseteq Doing(Counted)
  PROVE  LimitInv'
<1>1. Doing(Counted) \in SUBSET StClerks /\ Doing(Counted)' \in SUBSET StClerks
  BY DEF Doing
<1>2. Cardinality(Doing(Counted)') <= Cardinality(Doing(Counted))
  BY <1>1, SizeShrinks
<1>3. /\ Cardinality(Doing(Counted)') \in Nat /\ Cardinality(Doing(Counted)) \in Nat
      /\ Clerks \in Nat /\ stAgent \in Nat /\ StDailyLimit \in Nat
  BY <1>1, SizeOfPart, SeatTakersAssumption DEF STTypeOK
<1>4. StDailyLimit > 0 =>
        stAgent' + Cardinality(Doing(Counted)') <= StDailyLimit + Clerks - 1
  BY <1>2, <1>3 DEF LimitInv
<1> QED
  BY <1>4 DEF LimitInv, Clerks

LEMMA GroupKept ==
  ASSUME STTypeOK, GroupInv, stGroup' = stGroup,
         \A g \in StGroups :
           /\ OnGroup(g)' \subseteq OnGroup(g)
           /\ \A k \in OnGroup(g)' : stClerk'[k].doing = stClerk[k].doing
  PROVE  GroupInv'
<1> SUFFICES ASSUME NEW g \in StGroups
             PROVE  /\ stGroup'[g].taken + Cardinality(OnGroup(g)') <= Clerks
                    /\ stGroup'[g].status = "pending" =>
                         /\ stGroup'[g].taken = 0
                         /\ \A k \in OnGroup(g)' : stClerk'[k].doing # "deduct"
  BY DEF GroupInv, Clerks
<1>1. OnGroup(g) \in SUBSET StClerks /\ OnGroup(g)' \in SUBSET OnGroup(g)
  BY DEF OnGroup, Doing
<1>2. Cardinality(OnGroup(g)') <= Cardinality(OnGroup(g))
  BY <1>1, SizeShrinks
<1>3. /\ Cardinality(OnGroup(g)') \in Nat /\ Cardinality(OnGroup(g)) \in Nat
      /\ Clerks \in Nat /\ stGroup[g].taken \in Nat
  BY <1>1, SizeOfPart DEF STTypeOK
<1>4. stGroup'[g].taken + Cardinality(OnGroup(g)') <= Clerks
  BY <1>2, <1>3 DEF GroupInv
<1> QED
  BY <1>1, <1>4 DEF GroupInv

\* The invariant

LEMMA InitIInv == STInit => IInv
<1> SUFFICES ASSUME STInit PROVE IInv
  OBVIOUS
<1> USE SeatTakersAssumption
<1>1. STTypeOK
  BY DEF STInit, STTypeOK, StIdle
<1>2. \A W : "idle" \notin W => Doing(W) = {}
  BY DEF STInit, Doing, StIdle
<1>3. /\ Doing(Checked) = {} /\ Doing(Counted) = {}
      /\ \A g \in StGroups : OnGroup(g) = {}
  BY <1>2 DEF Checked, Counted, OnGroup
<1>4. Cardinality({}) = 0 /\ Clerks \in Nat
  BY FS_EmptySet, FS_CardinalityType DEF Clerks
<1>5. OversellInv
  <2>1. StMaxSize * Clerks \in Nat
    BY <1>4, Products
  <2> QED
    BY <1>3, <1>4, <2>1 DEF OversellInv, STInit
<1>6. LimitInv
  BY <1>3, <1>4 DEF LimitInv, STInit
<1>7. GroupInv
  <2>1. \A g \in StGroups : stGroup[g].taken = 0 /\ OnGroup(g) = {}
    BY <1>3 DEF STInit
  <2>2. \A g \in StGroups : Cardinality(OnGroup(g)) = 0
    BY <1>4, <2>1
  <2> QED
    BY <1>4, <2>1, <2>2 DEF GroupInv
<1> QED
  BY <1>1, <1>5, <1>6, <1>7 DEF IInv

\* A call that begins or ends without writing.
LEMMA QuietStep ==
  ASSUME IInv, NEW k \in StClerks, NEW c \in StCalls \cup {StIdle}, StSet(k, c),
         c.doing \in {"idle", "reject", "pay", "cancel"} \/ (c.doing = "rebook" /\ stAvail >= 0),
         UNCHANGED <<stAvail, stGroup, stRebooked, stAgent, stAgentTaken, stMissed>>
  PROVE  IInv'
<1> USE DEF IInv
<1>1. STTypeOK'
  BY ClerkMoves DEF STTypeOK
<1>2. OversellInv'
  <2>1. c.doing \notin Checked => Doing(Checked)' \subseteq Doing(Checked)
    BY ClerkMoves
  <2>2. stAvail' = stAvail /\ stAvail \in Int
    BY DEF STTypeOK
  <2> QED
    BY <2>1, <2>2, OversellKept DEF Checked
<1>3. LimitInv'
  <2>1. Doing(Counted)' \subseteq Doing(Counted)
    BY ClerkMoves DEF Counted
  <2> QED
    BY <2>1, LimitKept
<1>4. GroupInv'
  <2>1. \A g \in StGroups :
          /\ OnGroup(g)' = OnGroup(g) \ {k}
          /\ \A j \in OnGroup(g)' : stClerk'[j].doing = stClerk[j].doing
    BY GroupLeft
  <2> QED
    BY <2>1, GroupKept
<1> QED
  BY <1>1, <1>2, <1>3, <1>4

\* A call other than an approval that takes its seats and ends, or begins to
\* insert.
LEMMA TakeStep ==
  ASSUME IInv, NEW k \in StClerks, stClerk[k].doing \in {"rebook", "take"},
         stAvail' = stAvail - stClerk[k].seats, StSet(k, StIdle),
         stRebooked' \in [StRebookings -> {"none", "pending", "confirmed", "cancelled"}],
         stAgentTaken' \in Nat, UNCHANGED <<stGroup, stAgent, stMissed>>
  PROVE  IInv'
<1> USE DEF IInv
<1>1. /\ stClerk[k].seats \in 1..StMaxSize /\ stAvail \in Int
      /\ StIdle \in StCalls \cup {StIdle} /\ StIdle.doing = "idle"
  BY CallTypes DEF StDoing, STTypeOK, StIdle
<1>2. stAvail' \in Int /\ 1..StMaxSize \subseteq Int
  BY <1>1
<1>3. STTypeOK'
  BY <1>1, <1>2, ClerkMoves DEF STTypeOK
<1>4. OversellInv'
  <2>1. Doing(Checked)' = Doing(Checked) \ {k} /\ k \in Doing(Checked)
    BY <1>1, ClerkMoves DEF Doing, Checked
  <2> QED
    BY <1>1, <2>1, OversellTaken
<1>5. LimitInv'
  <2>1. Doing(Counted)' \subseteq Doing(Counted)
    BY <1>1, ClerkMoves DEF Counted
  <2> QED
    BY <2>1, LimitKept
<1>6. GroupInv'
  <2>1. \A g \in StGroups :
          /\ OnGroup(g)' = OnGroup(g) \ {k}
          /\ \A j \in OnGroup(g)' : stClerk'[j].doing = stClerk[j].doing
    BY <1>1, GroupLeft
  <2> QED
    BY <2>1, GroupKept
<1> QED
  BY <1>3, <1>4, <1>5, <1>6

\* A trip is paid or cancelled, and the call ends.
LEMMA TripStep ==
  ASSUME IInv, NEW k \in StClerks, NEW b \in StRebookings,
         STPay(k, b) \/ STCancel(k, b)
  PROVE  IInv'
<1> USE DEF IInv
<1>1. /\ StSize[b] \in Nat /\ stAvail \in Int /\ StSet(k, StIdle)
      /\ StIdle \in StCalls \cup {StIdle} /\ StIdle.doing = "idle"
      /\ stRebooked' \in [StRebookings -> {"none", "pending", "confirmed", "cancelled"}]
      /\ stMissed' \in Nat
      /\ UNCHANGED <<stGroup, stAgent, stAgentTaken>>
  BY SeatTakersAssumption DEF STPay, STCancel, StEndTrip, STTypeOK, StIdle
<1>2. stAvail' \in Int /\ (stAvail' >= 0 \/ stAvail' >= stAvail)
  <2>1. CASE STPay(k, b)
    BY <1>1, <2>1 DEF STPay
  <2>2. CASE STCancel(k, b)
    BY <1>1, <2>2 DEF STCancel, StReturned
  <2> QED
    BY <2>1, <2>2
<1>3. STTypeOK'
  BY <1>1, <1>2, ClerkMoves DEF STTypeOK
<1>4. OversellInv'
  <2>1. Doing(Checked)' \subseteq Doing(Checked)
    BY <1>1, ClerkMoves DEF Checked
  <2> QED
    BY <1>2, <2>1, OversellKept
<1>5. LimitInv'
  <2>1. Doing(Counted)' \subseteq Doing(Counted)
    BY <1>1, ClerkMoves DEF Counted
  <2> QED
    BY <1>1, <2>1, LimitKept
<1>6. GroupInv'
  <2>1. \A g \in StGroups :
          /\ OnGroup(g)' = OnGroup(g) \ {k}
          /\ \A j \in OnGroup(g)' : stClerk'[j].doing = stClerk[j].doing
    BY <1>1, GroupLeft
  <2> QED
    BY <1>1, <2>1, GroupKept
<1> QED
  BY <1>3, <1>4, <1>5, <1>6

LEMMA NoStep ==
  ASSUME IInv, UNCHANGED stVars
  PROVE  IInv'
<1> USE DEF IInv, stVars
<1>1. STTypeOK' /\ stAvail' \in Int /\ stAvail' >= stAvail
  BY DEF STTypeOK
<1>2. /\ \A W : Doing(W)' = Doing(W)
      /\ \A g \in StGroups : OnGroup(g)' = OnGroup(g)
  BY DEF Doing, OnGroup
<1>3. OversellInv'
  BY <1>1, <1>2, OversellKept
<1>4. LimitInv'
  BY <1>2, LimitKept
<1>5. GroupInv'
  BY <1>2, GroupKept
<1> QED
  BY <1>1, <1>3, <1>4, <1>5

\* The webhook or a cancellation has read the booking it will write.
LEMMA ReadStep ==
  ASSUME STTypeOK, NEW k \in StClerks, NEW b \in StRebookings,
         NEW what \in {"pay", "cancel"}, StSet(k, StCopy(what, b)),
         what = "pay" => stRebooked[b] = "pending",
         stRebooked[b] \in {"pending", "confirmed"}
  PROVE  /\ StCopy(what, b) \in StCalls \cup {StIdle}
         /\ StCopy(what, b).doing = what /\ StCopy(what, b).trip = b
BY DEF StCopy, StCalls

LEMMA GroupApprovals ==
  ASSUME IInv, NEW k \in StClerks, NEW g \in StGroups
  PROVE  /\ STReadGroup(k, g) => IInv'
         /\ STApproveGroup(k) => IInv'
         /\ STDeductGroup(k) => IInv'
         /\ STRejectGroup(k) => IInv'
<1> USE DEF IInv
<1> STTypeOK
  OBVIOUS
<1>1. ASSUME STReadGroup(k, g) PROVE IInv'
  <2> DEFINE c == [doing |-> "approve", group |-> g, seats |-> StSize[g]]
  <2>1. /\ StSize[g] \in 1..StMaxSize /\ StMaxSize \in Nat /\ stAvail \in Int
        /\ StPending(g) /\ stAvail >= StSize[g] /\ StSet(k, c)
        /\ stClerk[k].doing = "idle"
        /\ UNCHANGED <<stAvail, stGroup, stRebooked, stAgent, stAgentTaken, stMissed>>
    BY <1>1, SeatTakersAssumption DEF STReadGroup, StEnough, STTypeOK, StDoing
  <2>2. c \in StCalls \cup {StIdle} /\ c.doing = "approve" /\ c.group = g
    BY <2>1 DEF StCalls
  <2> HIDE DEF c
  <2>3. STTypeOK'
    BY <2>1, <2>2, ClerkMoves DEF STTypeOK
  <2>4. OversellInv'
    <3>1. stAvail' \in Int /\ stAvail' >= 0
      BY <2>1
    <3> QED
      BY <3>1, OversellKept
  <2>5. LimitInv'
    <3>1. Doing(Counted)' \subseteq Doing(Counted)
      BY <2>1, <2>2, ClerkMoves DEF Counted
    <3> QED
      BY <2>1, <3>1, LimitKept
  <2>6. GroupInv'
    <3> SUFFICES ASSUME NEW h \in StGroups
                 PROVE  /\ stGroup'[h].taken + Cardinality(OnGroup(h)') <= Clerks
                        /\ stGroup'[h].status = "pending" =>
                             /\ stGroup'[h].taken = 0
                             /\ \A j \in OnGroup(h)' : stClerk'[j].doing # "deduct"
      BY DEF GroupInv, Clerks
    <3>1. /\ stClerk'[k] = c
          /\ \A j \in StClerks \ {k} : stClerk'[j] = stClerk[j]
          /\ Doing({"approve", "deduct"})' = Doing({"approve", "deduct"}) \cup {k}
          /\ k \notin Doing({"approve", "deduct"})
      BY <2>1, <2>2, ClerkMoves DEF Doing
    <3>2. OnGroup(h)' = IF h = g THEN OnGroup(h) \cup {k} ELSE OnGroup(h)
      BY <2>2, <3>1 DEF OnGroup, Doing
    <3>3. OnGroup(h)' \in SUBSET StClerks /\ OnGroup(h) \in SUBSET StClerks
      BY DEF OnGroup, Doing
    <3>4. stGroup'[h] = stGroup[h] /\ stGroup[h].taken \in Nat
      BY <2>1 DEF STTypeOK
    <3>5. stGroup'[h].taken + Cardinality(OnGroup(h)') <= Clerks
      <4>1. CASE h = g
        <5>1. stGroup[h].taken = 0
          BY <2>1, <4>1 DEF GroupInv, StPending
        <5> QED
          BY <3>3, <3>4, <5>1, SizeOfPart
      <4>2. CASE h # g
        BY <3>2, <3>4, <4>2 DEF GroupInv
      <4> QED
        BY <4>1, <4>2
    <3>6. \A j \in OnGroup(h)' : \/ j = k
                                 \/ j \in OnGroup(h) /\ stClerk'[j] = stClerk[j]
      <4>1. OnGroup(h)' \subseteq OnGroup(h) \cup {k}
        BY <3>2
      <4>2. \A j \in StClerks \ {k} : stClerk'[j] = stClerk[j]
        BY <3>1
      <4> QED
        BY <3>3, <4>1, <4>2
    <3> QED
      BY <2>2, <3>1, <3>4, <3>5, <3>6 DEF GroupInv
  <2> QED
    BY <2>3, <2>4, <2>5, <2>6
<1>2. ASSUME STApproveGroup(k) PROVE IInv'
  <2> DEFINE c == [stClerk[k] EXCEPT !.doing = "deduct"]
             h0 == stClerk[k].group
  <2>1. /\ stClerk[k].doing = "approve" /\ StSet(k, c) /\ h0 \in StGroups
        /\ stGroup' = [stGroup EXCEPT ![h0].status = "confirmed"]
        /\ UNCHANGED <<stAvail, stRebooked, stAgent, stAgentTaken, stMissed>>
        /\ c \in StCalls \cup {StIdle}
    BY <1>2, CallTypes DEF STApproveGroup, StDoing
  <2>2. c.doing = "deduct" /\ c.group = h0
    <3>1. stClerk[k] \in [doing : {"approve", "deduct"}, group : StGroups, seats : 1..StMaxSize]
      BY <2>1 DEF STTypeOK, StCalls, StIdle
    <3> QED
      BY <3>1
  <2> HIDE DEF c, h0
  <2>3. /\ stGroup' \in [StGroups -> [status : {"pending", "confirmed", "cancelled"}, taken : Nat]]
        /\ \A h \in StGroups : /\ stGroup'[h].taken = stGroup[h].taken
                               /\ h = h0 => stGroup'[h].status = "confirmed"
                               /\ h # h0 => stGroup'[h].status = stGroup[h].status
    BY <2>1 DEF STTypeOK
  <2>4. STTypeOK'
    BY <2>1, <2>3, ClerkMoves DEF STTypeOK
  <2>5. OversellInv'
    <3>1. Doing(Checked)' = Doing(Checked)
      BY <2>1, <2>2, ClerkMoves DEF Checked, Doing
    <3>2. stAvail' \in Int /\ stAvail' = stAvail
      BY <2>1 DEF STTypeOK
    <3> QED
      BY <3>1, <3>2, OversellKept
  <2>6. LimitInv'
    <3>1. Doing(Counted)' \subseteq Doing(Counted)
      BY <2>1, <2>2, ClerkMoves DEF Counted
    <3> QED
      BY <2>1, <3>1, LimitKept
  <2>7. GroupInv'
    <3> SUFFICES ASSUME NEW h \in StGroups
                 PROVE  /\ stGroup'[h].taken + Cardinality(OnGroup(h)') <= Clerks
                        /\ stGroup'[h].status = "pending" =>
                             /\ stGroup'[h].taken = 0
                             /\ \A j \in OnGroup(h)' : stClerk'[j].doing # "deduct"
      BY DEF GroupInv, Clerks
    <3>1. /\ stClerk'[k] = c
          /\ \A j \in StClerks \ {k} : stClerk'[j] = stClerk[j]
          /\ Doing({"approve", "deduct"})' = Doing({"approve", "deduct"})
      BY <2>1, <2>2, ClerkMoves DEF Doing
    <3>2. \A j \in Doing({"approve", "deduct"}) : stClerk'[j].group = stClerk[j].group
      BY <2>2, <3>1 DEF Doing, h0
    <3>3. OnGroup(h)' = OnGroup(h)
      BY <3>1, <3>2 DEF OnGroup
    <3>4. \A j \in OnGroup(h)' : h # h0 => stClerk'[j].doing = stClerk[j].doing
      BY <2>2, <3>1, <3>3 DEF OnGroup, h0, Doing
    <3> QED
      BY <2>3, <3>3, <3>4 DEF GroupInv
  <2> QED
    BY <2>4, <2>5, <2>6, <2>7
<1>3. ASSUME STDeductGroup(k) PROVE IInv'
  <2> DEFINE h0 == stClerk[k].group
  <2>1. /\ stClerk[k].doing = "deduct" /\ StSet(k, StIdle) /\ h0 \in StGroups
        /\ stClerk[k].seats \in 1..StMaxSize /\ stAvail' = stAvail - stClerk[k].seats
        /\ stGroup' = [stGroup EXCEPT ![h0].taken = stGroup[h0].taken + 1]
        /\ UNCHANGED <<stRebooked, stAgent, stAgentTaken, stMissed>>
        /\ StIdle \in StCalls \cup {StIdle} /\ StIdle.doing = "idle"
    BY <1>3, CallTypes DEF STDeductGroup, StDoing, StIdle
  <2>2. k \in OnGroup(h0)
    BY <2>1 DEF OnGroup, Doing
  <2> HIDE DEF h0
  <2>3. /\ stGroup' \in [StGroups -> [status : {"pending", "confirmed", "cancelled"}, taken : Nat]]
        /\ \A h \in StGroups : /\ stGroup'[h].status = stGroup[h].status
                               /\ h = h0 => stGroup'[h].taken = stGroup[h].taken + 1
                               /\ h # h0 => stGroup'[h].taken = stGroup[h].taken
    BY <2>1 DEF STTypeOK
  <2>4. STTypeOK'
    <3>1. stAvail' \in Int
      BY <2>1 DEF STTypeOK
    <3> QED
      BY <2>1, <2>3, <3>1, ClerkMoves DEF STTypeOK
  <2>5. OversellInv'
    <3>1. Doing(Checked)' = Doing(Checked) \ {k} /\ k \in Doing(Checked)
      BY <2>1, ClerkMoves DEF Doing, Checked
    <3> QED
      BY <2>1, <3>1, OversellTaken
  <2>6. LimitInv'
    <3>1. Doing(Counted)' \subseteq Doing(Counted)
      BY <2>1, ClerkMoves DEF Counted
    <3> QED
      BY <2>1, <3>1, LimitKept
  <2>7. GroupInv'
    <3> SUFFICES ASSUME NEW h \in StGroups
                 PROVE  /\ stGroup'[h].taken + Cardinality(OnGroup(h)') <= Clerks
                        /\ stGroup'[h].status = "pending" =>
                             /\ stGroup'[h].taken = 0
                             /\ \A j \in OnGroup(h)' : stClerk'[j].doing # "deduct"
      BY DEF GroupInv, Clerks
    <3>1. /\ OnGroup(h)' = OnGroup(h) \ {k}
          /\ \A j \in OnGroup(h)' : stClerk'[j].doing = stClerk[j].doing
      BY <2>1, GroupLeft
    <3>2. OnGroup(h) \in SUBSET StClerks /\ OnGroup(h)' \in SUBSET OnGroup(h)
      BY <3>1 DEF OnGroup, Doing
    <3>3. /\ Cardinality(OnGroup(h)') \in Nat /\ Cardinality(OnGroup(h)) \in Nat
          /\ Clerks \in Nat /\ stGroup[h].taken \in Nat
      BY <3>2, SizeOfPart DEF STTypeOK
    <3>4. stGroup'[h].taken + Cardinality(OnGroup(h)') <= Clerks
      <4>1. CASE h = h0
        <5>1. Cardinality(OnGroup(h)') = Cardinality(OnGroup(h)) - 1
          BY <2>2, <3>1, <3>2, <4>1, SizeLess
        <5> QED
          BY <2>3, <3>3, <4>1, <5>1 DEF GroupInv
      <4>2. CASE h # h0
        <5>1. Cardinality(OnGroup(h)') <= Cardinality(OnGroup(h))
          BY <3>2, SizeShrinks
        <5> QED
          BY <2>3, <3>3, <4>2, <5>1 DEF GroupInv
      <4> QED
        BY <4>1, <4>2
    <3>5. stGroup'[h].status = "pending" => h # h0
      BY <2>1, <2>2, <2>3 DEF GroupInv
    <3> QED
      BY <2>3, <3>1, <3>4, <3>5 DEF GroupInv
  <2> QED
    BY <2>4, <2>5, <2>6, <2>7
<1>4. ASSUME STRejectGroup(k) PROVE IInv'
  <2> DEFINE h0 == stClerk[k].group
  <2>1. /\ stClerk[k].doing = "reject" /\ StSet(k, StIdle) /\ h0 \in StGroups
        /\ stGroup' = [stGroup EXCEPT ![h0].status = "cancelled"]
        /\ UNCHANGED <<stAvail, stRebooked, stAgent, stAgentTaken, stMissed>>
        /\ StIdle \in StCalls \cup {StIdle} /\ StIdle.doing = "idle"
    BY <1>4, CallTypes DEF STRejectGroup, StDoing, StIdle
  <2> HIDE DEF h0
  <2>2. /\ stGroup' \in [StGroups -> [status : {"pending", "confirmed", "cancelled"}, taken : Nat]]
        /\ \A h \in StGroups : /\ stGroup'[h].taken = stGroup[h].taken
                               /\ h = h0 => stGroup'[h].status = "cancelled"
                               /\ h # h0 => stGroup'[h].status = stGroup[h].status
    BY <2>1 DEF STTypeOK
  <2>3. STTypeOK'
    BY <2>1, <2>2, ClerkMoves DEF STTypeOK
  <2>4. OversellInv'
    <3>1. Doing(Checked)' \subseteq Doing(Checked)
      BY <2>1, ClerkMoves DEF Checked
    <3>2. stAvail' \in Int /\ stAvail' = stAvail
      BY <2>1 DEF STTypeOK
    <3>3. stAvail' >= stAvail
      BY <3>2
    <3> QED
      BY <3>1, <3>2, <3>3, OversellKept
  <2>5. LimitInv'
    <3>1. Doing(Counted)' \subseteq Doing(Counted)
      BY <2>1, ClerkMoves DEF Counted
    <3> QED
      BY <2>1, <3>1, LimitKept
  <2>6. GroupInv'
    <3> SUFFICES ASSUME NEW h \in StGroups
                 PROVE  /\ stGroup'[h].taken + Cardinality(OnGroup(h)') <= Clerks
                        /\ stGroup'[h].status = "pending" =>
                             /\ stGroup'[h].taken = 0
                             /\ \A j \in OnGroup(h)' : stClerk'[j].doing # "deduct"
      BY DEF GroupInv, Clerks
    <3>1. /\ OnGroup(h)' = OnGroup(h) \ {k}
          /\ \A j \in OnGroup(h)' : stClerk'[j].doing = stClerk[j].doing
      BY <2>1, GroupLeft
    <3>2. OnGroup(h)' = OnGroup(h)
      BY <2>1, <3>1 DEF OnGroup, Doing
    <3> QED
      BY <2>2, <3>1, <3>2 DEF GroupInv
  <2> QED
    BY <2>3, <2>4, <2>5, <2>6
<1> QED
  BY <1>1, <1>2, <1>3, <1>4

LEMMA AgentBookings ==
  ASSUME IInv, NEW k \in StClerks
  PROVE  /\ STCountToday(k) => IInv'
         /\ STReadFlight(k) => IInv'
         /\ STInsertBooking(k) => IInv'
<1> USE DEF IInv
<1>1. ASSUME STCountToday(k) PROVE IInv'
  <2> DEFINE c == [doing |-> "limits", seats |-> 0]
  <2>1. /\ StSet(k, c) /\ c \in StCalls \cup {StIdle} /\ c.doing = "limits"
        /\ stAgent < StDailyLimit
        /\ UNCHANGED <<stAvail, stGroup, stRebooked, stAgent, stAgentTaken, stMissed>>
    BY <1>1 DEF STCountToday, StUnderLimit, StCalls
  <2> HIDE DEF c
  <2>2. STTypeOK'
    BY <2>1, ClerkMoves DEF STTypeOK
  <2>3. OversellInv'
    <3>1. Doing(Checked)' \subseteq Doing(Checked)
      BY <2>1, ClerkMoves DEF Checked
    <3>2. stAvail' \in Int /\ stAvail' >= stAvail
      BY <2>1 DEF STTypeOK
    <3> QED
      BY <3>1, <3>2, OversellKept
  <2>4. LimitInv'
    <3>1. Doing(Counted)' \in SUBSET StClerks
      BY DEF Doing
    <3>2. /\ Cardinality(Doing(Counted)') \in Nat /\ Clerks \in Nat
          /\ Cardinality(Doing(Counted)') <= Clerks
          /\ stAgent \in Nat /\ StDailyLimit \in Nat
      BY <3>1, SizeOfPart, SeatTakersAssumption DEF STTypeOK
    <3>3. stAgent' + Cardinality(Doing(Counted)') <= StDailyLimit + Clerks - 1
      BY <2>1, <3>2
    <3> QED
      BY <3>3 DEF LimitInv, Clerks
  <2>5. GroupInv'
    <3>1. \A g \in StGroups :
            /\ OnGroup(g)' = OnGroup(g) \ {k}
            /\ \A j \in OnGroup(g)' : stClerk'[j].doing = stClerk[j].doing
      BY <2>1, GroupLeft
    <3> QED
      BY <2>1, <3>1, GroupKept
  <2> QED
    BY <2>2, <2>3, <2>4, <2>5
<1>2. ASSUME STReadFlight(k) PROVE IInv'
  <2>1. PICK n \in 1..StMaxSize :
          IF StEnough(n) THEN StSet(k, [doing |-> "insert", seats |-> n])
          ELSE StSet(k, StIdle)
    BY <1>2 DEF STReadFlight
  <2>2. /\ stClerk[k].doing = "limits"
        /\ UNCHANGED <<stAvail, stGroup, stRebooked, stAgent, stAgentTaken, stMissed>>
    BY <1>2 DEF STReadFlight, StDoing
  <2>3. CASE ~StEnough(n)
    <3>1. /\ StSet(k, StIdle) /\ StIdle \in StCalls \cup {StIdle}
          /\ StIdle.doing = "idle"
      BY <2>1, <2>3 DEF StIdle
    <3> QED
      BY <2>2, <3>1, QuietStep
  <2>4. CASE StEnough(n)
    <3> DEFINE c == [doing |-> "insert", seats |-> n]
    <3>1. StSet(k, c) /\ c \in StCalls \cup {StIdle} /\ c.doing = "insert"
      BY <2>1, <2>4 DEF StCalls
    <3> HIDE DEF c
    <3>2. STTypeOK'
      BY <2>2, <3>1, ClerkMoves DEF STTypeOK
    <3>3. OversellInv'
      <4>1. stAvail' \in Int /\ stAvail' >= 0
        BY <2>2, <2>4, SeatTakersAssumption DEF STTypeOK, StEnough
      <4> QED
        BY <4>1, OversellKept
    <3>4. LimitInv'
      <4>1. Doing(Counted)' \subseteq Doing(Counted)
        BY <2>2, <3>1, ClerkMoves DEF Counted, Doing
      <4> QED
        BY <2>2, <4>1, LimitKept
    <3>5. GroupInv'
      <4>1. \A g \in StGroups :
              /\ OnGroup(g)' = OnGroup(g) \ {k}
              /\ \A j \in OnGroup(g)' : stClerk'[j].doing = stClerk[j].doing
        BY <3>1, GroupLeft
      <4> QED
        BY <2>2, <4>1, GroupKept
    <3> QED
      BY <3>2, <3>3, <3>4, <3>5
  <2> QED
    BY <2>3, <2>4
<1>3. ASSUME STInsertBooking(k) PROVE IInv'
  <2> DEFINE c == [stClerk[k] EXCEPT !.doing = "take"]
  <2>1. /\ stClerk[k].doing = "insert" /\ StSet(k, c) /\ c \in StCalls \cup {StIdle}
        /\ stAgent' = stAgent + 1 /\ stAgent < StMaxAgent
        /\ UNCHANGED <<stAvail, stGroup, stRebooked, stAgentTaken, stMissed>>
    BY <1>3, CallTypes DEF STInsertBooking, StDoing
  <2>2. c.doing = "take"
    <3>1. stClerk[k] \in [doing : {"insert", "take"}, seats : 1..StMaxSize]
      BY <2>1 DEF STTypeOK, StCalls, StIdle
    <3> QED
      BY <3>1
  <2> HIDE DEF c
  <2>3. STTypeOK'
    <3>1. stAgent' \in 0..StMaxAgent
      BY <2>1, SeatTakersAssumption DEF STTypeOK
    <3> QED
      BY <2>1, <3>1, ClerkMoves DEF STTypeOK
  <2>4. OversellInv'
    <3>1. Doing(Checked)' \subseteq Doing(Checked)
      BY <2>1, <2>2, ClerkMoves DEF Checked, Doing
    <3>2. stAvail' \in Int /\ stAvail' >= stAvail
      BY <2>1 DEF STTypeOK
    <3> QED
      BY <3>1, <3>2, OversellKept
  <2>5. LimitInv'
    <3>1. Doing(Counted)' = Doing(Counted) \ {k} /\ k \in Doing(Counted)
      BY <2>1, <2>2, ClerkMoves DEF Counted, Doing
    <3>2. Doing(Counted) \in SUBSET StClerks
      BY DEF Doing
    <3>3. Cardinality(Doing(Counted)') = Cardinality(Doing(Counted)) - 1
      BY <3>1, <3>2, SizeLess
    <3>4. /\ Cardinality(Doing(Counted)) \in Nat /\ Clerks \in Nat
          /\ stAgent \in Nat /\ StDailyLimit \in Nat
      BY <3>2, SizeOfPart, SeatTakersAssumption DEF STTypeOK
    <3>5. StDailyLimit > 0 =>
            stAgent' + Cardinality(Doing(Counted)') <= StDailyLimit + Clerks - 1
      BY <2>1, <3>3, <3>4 DEF LimitInv
    <3> QED
      BY <3>5 DEF LimitInv, Clerks
  <2>6. GroupInv'
    <3>1. \A g \in StGroups :
            /\ OnGroup(g)' = OnGroup(g) \ {k}
            /\ \A j \in OnGroup(g)' : stClerk'[j].doing = stClerk[j].doing
      BY <2>1, <2>2, GroupLeft
    <3> QED
      BY <2>1, <3>1, GroupKept
  <2> QED
    BY <2>3, <2>4, <2>5, <2>6
<1> QED
  BY <1>1, <1>2, <1>3

LEMMA NextIInv == IInv /\ [STNext]_stVars => IInv'
<1> SUFFICES ASSUME IInv, [STNext]_stVars PROVE IInv'
  OBVIOUS
<1> STTypeOK
  BY DEF IInv
<1> StIdle \in StCalls \cup {StIdle} /\ StIdle.doing = "idle"
  BY DEF StIdle
<1>1. ASSUME NEW k \in StClerks, NEW g \in StGroups,
             STReadGroup(k, g) \/ STReadRejected(k, g)
      PROVE  IInv'
  <2>1. CASE STReadGroup(k, g)
    BY <2>1, GroupApprovals
  <2>2. CASE STReadRejected(k, g)
    <3> DEFINE c == [doing |-> "reject", group |-> g, seats |-> 0]
    <3>1. c \in StCalls \cup {StIdle} /\ c.doing = "reject"
      BY DEF StCalls
    <3> HIDE DEF c
    <3> QED
      BY <2>2, <3>1, QuietStep DEF STReadRejected, c
  <2> QED
    BY <1>1, <2>1, <2>2
<1>2. ASSUME NEW k \in StClerks, NEW b \in StRebookings, STReadTrip(k, b)
      PROVE  IInv'
  <2> DEFINE c == [doing |-> "rebook", trip |-> b, seats |-> StSize[b]]
  <2>1. /\ StSize[b] \in 1..StMaxSize /\ StMaxSize \in Nat
        /\ stAvail >= StSize[b] /\ stAvail \in Int
    BY <1>2, SeatTakersAssumption DEF STReadTrip, StEnough, STTypeOK
  <2>2. c \in StCalls \cup {StIdle} /\ c.doing = "rebook" /\ stAvail >= 0
    BY <2>1 DEF StCalls
  <2>3. /\ StSet(k, c)
        /\ UNCHANGED <<stAvail, stGroup, stRebooked, stAgent, stAgentTaken, stMissed>>
    BY <1>2 DEF STReadTrip
  <2> HIDE DEF c
  <2> QED
    BY <2>2, <2>3, QuietStep
<1>3. ASSUME NEW k \in StClerks,
             \/ STApproveGroup(k) \/ STDeductGroup(k) \/ STRejectGroup(k)
      PROVE  IInv'
  <2>1. PICK g : g \in StGroups
    BY <1>3, CallTypes DEF STApproveGroup, STDeductGroup, STRejectGroup
  <2> QED
    BY <1>3, <2>1, GroupApprovals
<1>4. ASSUME NEW k \in StClerks, STRebook(k) PROVE IInv'
  <2>1. stRebooked' \in [StRebookings -> {"none", "pending", "confirmed", "cancelled"}]
    BY <1>4 DEF STRebook, STTypeOK
  <2>2. stAgentTaken' \in Nat
    BY <1>4 DEF STRebook, STTypeOK
  <2> QED
    BY <1>4, <2>1, <2>2, TakeStep DEF STRebook, StDoing
<1>5. ASSUME NEW k \in StClerks,
             STCountToday(k) \/ STReadFlight(k) \/ STInsertBooking(k)
      PROVE  IInv'
  BY <1>5, AgentBookings
<1>6. ASSUME NEW k \in StClerks, STTakeSeats(k) PROVE IInv'
  <2>1. stClerk[k].seats \in 1..StMaxSize /\ StMaxSize \in Nat
    BY <1>6, CallTypes, SeatTakersAssumption DEF STTakeSeats
  <2>2. stAgentTaken' \in Nat
    BY <1>6, <2>1 DEF STTakeSeats, STTypeOK
  <2> QED
    BY <1>6, <2>2, TakeStep DEF STTakeSeats, StDoing, STTypeOK
<1>7. ASSUME NEW k \in StClerks, STFail(k) PROVE IInv'
  BY <1>7, QuietStep DEF STFail
<1>8. ASSUME NEW k \in StClerks, NEW b \in StRebookings,
             STReadPayment(k, b) \/ STReadCancel(k, b)
      PROVE  IInv'
  <2>1. PICK what \in {"pay", "cancel"} :
          /\ StSet(k, StCopy(what, b)) /\ stRebooked[b] \in {"pending", "confirmed"}
          /\ what = "pay" => stRebooked[b] = "pending"
    BY <1>8 DEF STReadPayment, STReadCancel
  <2> DEFINE c == StCopy(what, b)
  <2>2. c \in StCalls \cup {StIdle} /\ c.doing \in {"pay", "cancel"} /\ StSet(k, c)
    BY <2>1, ReadStep
  <2>3. UNCHANGED <<stAvail, stGroup, stRebooked, stAgent, stAgentTaken, stMissed>>
    BY <1>8 DEF STReadPayment, STReadCancel
  <2> HIDE DEF c
  <2> QED
    BY <2>2, <2>3, QuietStep
<1>9. ASSUME NEW k \in StClerks, NEW b \in StRebookings, STPay(k, b) \/ STCancel(k, b)
      PROVE  IInv'
  BY <1>9, TripStep
<1>10. CASE UNCHANGED stVars
  BY <1>10, NoStep
<1> QED
  BY <1>1, <1>2, <1>3, <1>4, <1>5, <1>6, <1>7, <1>8, <1>9, <1>10 DEF STNext

LEMMA SpecIInv == STSpec => []IInv
BY InitIInv, NextIInv, PTL DEF STSpec

\* Theorems

\* Every state is well typed, whatever the clerks do.
THEOREM TypeCorrect == STSpec => []STTypeOK
<1>1. IInv => STTypeOK
  BY DEF IInv
<1> QED
  BY <1>1, SpecIInv, PTL

LEMMA IInvBounds == IInv => STOverrunsBounded
<1> SUFFICES ASSUME IInv PROVE STOverrunsBounded
  OBVIOUS
<1> USE DEF IInv
<1>1. /\ Doing(Checked) \in SUBSET StClerks /\ Doing(Counted) \in SUBSET StClerks
      /\ \A g \in StGroups : OnGroup(g) \in SUBSET StClerks
  BY DEF Doing, OnGroup
<1>2. Clerks \in Nat /\ StMaxSize \in Nat /\ StDailyLimit \in Nat
  BY <1>1, SizeOfPart, SeatTakersAssumption
<1>3. stAvail >= -(StMaxSize * Clerks)
  <2> DEFINE t == Cardinality(Doing(Checked))
             b == Clerks - t
  <2>1. b \in Nat /\ b <= Clerks
    BY <1>1, <1>2, SizeOfPart
  <2>2. stAvail >= -(StMaxSize * b) /\ stAvail \in Int
    BY DEF OversellInv, STTypeOK
  <2> HIDE DEF b
  <2>3. StMaxSize * b <= StMaxSize * Clerks /\ StMaxSize * Clerks \in Nat
    BY <1>2, <2>1, Products
  <2>4. StMaxSize * b \in Nat
    BY <1>2, <2>1, Products
  <2> QED
    BY <2>2, <2>3, <2>4
<1>4. StDailyLimit > 0 => stAgent <= StDailyLimit + Clerks - 1
  <2>1. Cardinality(Doing(Counted)) \in Nat /\ stAgent \in Nat
    BY <1>1, SizeOfPart, SeatTakersAssumption DEF STTypeOK
  <2> QED
    BY <1>2, <2>1 DEF LimitInv
<1>5. \A g \in StGroups : /\ stGroup[g].taken <= Clerks
                          /\ stGroup[g].status = "pending" => stGroup[g].taken = 0
  <2> SUFFICES ASSUME NEW g \in StGroups
               PROVE  /\ stGroup[g].taken <= Clerks
                      /\ stGroup[g].status = "pending" => stGroup[g].taken = 0
    OBVIOUS
  <2>1. Cardinality(OnGroup(g)) \in Nat /\ stGroup[g].taken \in Nat
    BY <1>1, SizeOfPart DEF STTypeOK
  <2> QED
    BY <1>2, <2>1 DEF GroupInv
<1> QED
  BY <1>3, <1>4, <1>5 DEF STOverrunsBounded, Clerks

\* Whatever overlaps, a stale read costs one call of every clerk: of seats, of
\* the agent's bookings and of the deductions of a group.
THEOREM OverrunsAreBounded == STSpec => []STOverrunsBounded
BY IInvBounds, SpecIInv, PTL

\* Where the seats are

GroupSeats == [g \in StGroups |-> stGroup[g].taken * StSize[g]]
TripSeats == [b \in StRebookings |-> StKept(b)]
Rebooking(k) == stClerk[k].doing = "rebook"

\* A call takes as many seats as it read that it needs; a rebooking is of a trip
\* that is not rebooked yet, and no other call is about it; a payment or a
\* cancellation is of a trip that is.
CallInv == \A k \in StClerks :
  /\ stClerk[k].doing \in {"approve", "deduct"} =>
       stClerk[k].seats = StSize[stClerk[k].group]
  /\ Rebooking(k) =>
       /\ stClerk[k].seats = StSize[stClerk[k].trip]
       /\ stRebooked[stClerk[k].trip] = "none"
       /\ \A j \in StClerks \ {k} : Rebooking(j) => stClerk[j].trip # stClerk[k].trip
  /\ stClerk[k].doing \in {"pay", "cancel"} => stRebooked[stClerk[k].trip] # "none"

SeatInv == STTypeOK /\ CallInv /\ STSeatsAccounted

LEMMA SeatTypes ==
  ASSUME STTypeOK
  PROVE  /\ \A g \in StGroups : GroupSeats[g] \in Int
         /\ \A b \in StRebookings : TripSeats[b] \in Int
         /\ SumFunctionOnSet(GroupSeats, StGroups) \in Int
         /\ SumFunctionOnSet(TripSeats, StRebookings) \in Int
         /\ stAvail \in Int /\ stAgentTaken \in Int /\ StCapacity \in Int
         /\ stMissed \in Int
<1>1. \A g \in StGroups : GroupSeats[g] \in Int
  <2> SUFFICES ASSUME NEW g \in StGroups PROVE GroupSeats[g] \in Int
    OBVIOUS
  <2>1. stGroup[g].taken \in Nat /\ StSize[g] \in Nat
    BY SeatTakersAssumption DEF STTypeOK
  <2> QED
    BY <2>1 DEF GroupSeats
<1>2. \A b \in StRebookings : TripSeats[b] \in Int
  BY SeatTakersAssumption DEF STTypeOK, TripSeats, StKept
<1> QED
  BY <1>1, <1>2, SumType, SeatTakersAssumption DEF STTypeOK

\* What the seats of the groups and the trips become, one row at a time.
LEMMA GroupSeatsChange ==
  ASSUME STTypeOK, STTypeOK', NEW h \in StGroups,
         \A g \in StGroups \ {h} : stGroup'[g].taken = stGroup[g].taken
  PROVE  SumFunctionOnSet(GroupSeats, StGroups)'
           = SumFunctionOnSet(GroupSeats, StGroups) + GroupSeats'[h] - GroupSeats[h]
<1>1. \A g \in StGroups : GroupSeats[g] \in Int /\ GroupSeats'[g] \in Int
  <2> SUFFICES ASSUME NEW g \in StGroups PROVE GroupSeats[g] \in Int /\ GroupSeats'[g] \in Int
    OBVIOUS
  <2>1. stGroup[g].taken \in Nat /\ stGroup'[g].taken \in Nat /\ StSize[g] \in Nat
    BY SeatTakersAssumption DEF STTypeOK
  <2> QED
    BY <2>1 DEF GroupSeats
<1>2. \A g \in StGroups \ {h} : GroupSeats'[g] = GroupSeats[g]
  BY DEF GroupSeats
<1>3. SumFunctionOnSet(GroupSeats, StGroups)' = SumFunctionOnSet(GroupSeats', StGroups)
  OBVIOUS
<1> HIDE DEF GroupSeats
<1> QED
  BY <1>1, <1>2, <1>3, SumChange, SeatTakersAssumption

LEMMA TripSeatsChange ==
  ASSUME STTypeOK, STTypeOK', NEW c \in StRebookings,
         \A b \in StRebookings \ {c} : stRebooked'[b] = stRebooked[b]
  PROVE  SumFunctionOnSet(TripSeats, StRebookings)'
           = SumFunctionOnSet(TripSeats, StRebookings) + TripSeats'[c] - TripSeats[c]
<1>1. \A b \in StRebookings : TripSeats[b] \in Int /\ TripSeats'[b] \in Int
  BY SeatTakersAssumption DEF STTypeOK, TripSeats, StKept
<1>2. \A b \in StRebookings \ {c} : TripSeats'[b] = TripSeats[b]
  BY DEF TripSeats, StKept
<1>3. SumFunctionOnSet(TripSeats, StRebookings)' = SumFunctionOnSet(TripSeats', StRebookings)
  OBVIOUS
<1> QED
  BY <1>1, <1>2, <1>3, SumChange, SeatTakersAssumption

LEMMA SeatsKept ==
  ASSUME STTypeOK, STTypeOK', STSeatsAccounted,
         stAvail' = stAvail, stAgentTaken' = stAgentTaken, stRebooked' = stRebooked,
         stMissed' = stMissed,
         \A g \in StGroups : stGroup'[g].taken = stGroup[g].taken
  PROVE  STSeatsAccounted'
<1>1. GroupSeats' = GroupSeats /\ TripSeats' = TripSeats
  BY DEF GroupSeats, TripSeats, StKept
<1> QED
  BY <1>1 DEF STSeatsAccounted, GroupSeats, TripSeats

LEMMA InitSeatInv == STInit => SeatInv
<1> SUFFICES ASSUME STInit PROVE SeatInv
  OBVIOUS
<1>1. STTypeOK
  BY InitIInv DEF IInv
<1>2. CallInv
  BY DEF STInit, StIdle, CallInv, Rebooking
<1>3. STSeatsAccounted
  <2>1. \A g \in StGroups : GroupSeats[g] = 0
    <3> SUFFICES ASSUME NEW g \in StGroups PROVE GroupSeats[g] = 0
      OBVIOUS
    <3>1. stGroup[g].taken = 0 /\ StSize[g] \in Nat
      BY SeatTakersAssumption DEF STInit
    <3> QED
      BY <3>1 DEF GroupSeats
  <2>2. \A b \in StRebookings : TripSeats[b] = 0
    BY DEF STInit, TripSeats, StKept
  <2>3. /\ SumFunctionOnSet(GroupSeats, StGroups) \in Nat
        /\ SumFunctionOnSet(TripSeats, StRebookings) \in Nat
    BY <2>1, <2>2, SumNat, SeatTakersAssumption
  <2>4. stAvail + stAgentTaken + SumFunctionOnSet(GroupSeats, StGroups)
          + SumFunctionOnSet(TripSeats, StRebookings) + stMissed >= StCapacity
    BY <2>3, SeatTakersAssumption DEF STInit
  <2> QED
    BY <2>4 DEF STSeatsAccounted, GroupSeats, TripSeats
<1> QED
  BY <1>1, <1>2, <1>3 DEF SeatInv

\* A clerk moves on: what it has under way fits, and what others have still does.
LEMMA CallKept ==
  ASSUME STTypeOK, CallInv, NEW k \in StClerks, NEW c \in StCalls \cup {StIdle},
         StSet(k, c),
         c.doing \in {"approve", "deduct"} => c.seats = StSize[c.group],
         c.doing # "rebook",
         c.doing \in {"pay", "cancel"} => stRebooked'[c.trip] # "none",
         \A j \in StClerks \ {k} : Rebooking(j) =>
           stRebooked'[stClerk[j].trip] = stRebooked[stClerk[j].trip],
         \A b \in StRebookings : stRebooked[b] # "none" => stRebooked'[b] # "none"
  PROVE  CallInv'
<1>1. /\ stClerk'[k] = c /\ \A j \in StClerks \ {k} : stClerk'[j] = stClerk[j]
  BY ClerkMoves
<1> SUFFICES ASSUME NEW j \in StClerks
             PROVE  /\ stClerk'[j].doing \in {"approve", "deduct"} =>
                         stClerk'[j].seats = StSize[stClerk'[j].group]
                    /\ stClerk'[j].doing = "rebook" =>
                         /\ stClerk'[j].seats = StSize[stClerk'[j].trip]
                         /\ stRebooked'[stClerk'[j].trip] = "none"
                         /\ \A i \in StClerks \ {j} : stClerk'[i].doing = "rebook" =>
                              stClerk'[i].trip # stClerk'[j].trip
                    /\ stClerk'[j].doing \in {"pay", "cancel"} =>
                         stRebooked'[stClerk'[j].trip] # "none"
  BY DEF CallInv, Rebooking
<1>2. CASE j = k
  BY <1>1, <1>2
<1>3. CASE j # k
  <2>1. stClerk'[j] = stClerk[j]
    BY <1>1, <1>3
  <2>2. \A i \in StClerks : stClerk'[i].doing = "rebook" => i # k /\ stClerk'[i] = stClerk[i]
    BY <1>1
  <2>3. stClerk[j].doing \in {"pay", "cancel"} => stClerk[j].trip \in StRebookings
    BY CallTypes DEF StDoing
  <2> QED
    BY <1>3, <2>1, <2>2, <2>3 DEF CallInv, Rebooking
<1> QED
  BY <1>2, <1>3

LEMMA NextSeatInv == SeatInv /\ IInv /\ IInv' /\ [STNext]_stVars => SeatInv'
<1> SUFFICES ASSUME SeatInv, IInv, IInv', [STNext]_stVars PROVE SeatInv'
  OBVIOUS
<1> STTypeOK /\ STTypeOK' /\ CallInv /\ STSeatsAccounted
  BY DEF SeatInv, IInv
<1> DEFINE quiet == /\ stAvail' = stAvail /\ stAgentTaken' = stAgentTaken
                    /\ stRebooked' = stRebooked /\ stMissed' = stMissed
                    /\ \A g \in StGroups : stGroup'[g].taken = stGroup[g].taken
<1>1. ASSUME NEW k \in StClerks, NEW c \in StCalls \cup {StIdle}, StSet(k, c), quiet,
             c.doing \in {"approve", "deduct"} => c.seats = StSize[c.group],
             c.doing # "rebook",
             c.doing \in {"pay", "cancel"} => stRebooked[c.trip] # "none"
      PROVE  SeatInv'
  BY <1>1, CallKept, SeatsKept DEF SeatInv
<1>idle. StIdle \in StCalls \cup {StIdle} /\ StIdle.doing = "idle"
  BY DEF StIdle
<1>2. ASSUME NEW k \in StClerks, NEW g \in StGroups, STReadGroup(k, g) PROVE SeatInv'
  <2> DEFINE c == [doing |-> "approve", group |-> g, seats |-> StSize[g]]
  <2>1. c \in StCalls \cup {StIdle} /\ StSet(k, c) /\ quiet
    BY <1>2, SeatTakersAssumption DEF STReadGroup, StCalls
  <2>2. c.doing = "approve" /\ c.seats = StSize[c.group]
    OBVIOUS
  <2> HIDE DEF c, quiet
  <2> QED
    BY <1>1, <2>1, <2>2
<1>3. ASSUME NEW k \in StClerks, NEW g \in StGroups, STReadRejected(k, g) PROVE SeatInv'
  <2> DEFINE c == [doing |-> "reject", group |-> g, seats |-> 0]
  <2>1. c \in StCalls \cup {StIdle} /\ StSet(k, c) /\ quiet /\ c.doing = "reject"
    BY <1>3 DEF STReadRejected, StCalls
  <2> HIDE DEF c, quiet
  <2> QED
    BY <1>1, <2>1
<1>4. ASSUME NEW k \in StClerks, NEW b \in StRebookings, STReadTrip(k, b) PROVE SeatInv'
  <2> DEFINE c == [doing |-> "rebook", trip |-> b, seats |-> StSize[b]]
  <2>1. /\ c \in StCalls \cup {StIdle} /\ StSet(k, c) /\ quiet /\ stRebooked[b] = "none"
        /\ c.doing = "rebook" /\ c.trip = b /\ c.seats = StSize[b]
        /\ \A j \in StClerks : Rebooking(j) => stClerk[j].trip # b
    BY <1>4, SeatTakersAssumption DEF STReadTrip, StCalls, StDoing, Rebooking
  <2> HIDE DEF c
  <2>2. /\ stClerk'[k] = c /\ \A j \in StClerks \ {k} : stClerk'[j] = stClerk[j]
    BY <2>1, ClerkMoves
  <2>3. CallInv'
    <3> SUFFICES ASSUME NEW j \in StClerks
                 PROVE  /\ stClerk'[j].doing \in {"approve", "deduct"} =>
                             stClerk'[j].seats = StSize[stClerk'[j].group]
                        /\ stClerk'[j].doing = "rebook" =>
                             /\ stClerk'[j].seats = StSize[stClerk'[j].trip]
                             /\ stRebooked'[stClerk'[j].trip] = "none"
                             /\ \A i \in StClerks \ {j} : stClerk'[i].doing = "rebook" =>
                                  stClerk'[i].trip # stClerk'[j].trip
                        /\ stClerk'[j].doing \in {"pay", "cancel"} =>
                             stRebooked'[stClerk'[j].trip] # "none"
      BY DEF CallInv, Rebooking
    <3>1. CASE j = k
      BY <2>1, <2>2, <3>1 DEF Rebooking
    <3>2. CASE j # k
      <4>1. stClerk'[j] = stClerk[j]
        BY <2>2, <3>2
      <4>2. \A i \in StClerks \ {j} : stClerk[j].doing = "rebook" =>
              (stClerk'[i].doing = "rebook" => stClerk'[i].trip # stClerk[j].trip)
        BY <2>1, <2>2, <3>2 DEF CallInv, Rebooking
      <4> QED
        BY <2>1, <4>1, <4>2 DEF CallInv, Rebooking
    <3> QED
      BY <3>1, <3>2
  <2> QED
    BY <2>1, <2>3, SeatsKept DEF SeatInv
<1>5. ASSUME NEW k \in StClerks, STApproveGroup(k) PROVE SeatInv'
  <2> DEFINE c == [stClerk[k] EXCEPT !.doing = "deduct"]
  <2>1. /\ c \in StCalls \cup {StIdle} /\ StSet(k, c) /\ stClerk[k].doing = "approve"
    BY <1>5, CallTypes DEF STApproveGroup, StDoing
  <2>2. c.doing = "deduct" /\ c.seats = StSize[c.group]
    <3>1. stClerk[k] \in [doing : {"approve", "deduct"}, group : StGroups, seats : 1..StMaxSize]
      BY <2>1 DEF STTypeOK, StCalls, StIdle
    <3> QED
      BY <2>1, <3>1 DEF CallInv
  <2>3. quiet
    BY <1>5 DEF STApproveGroup, STTypeOK
  <2> HIDE DEF c, quiet
  <2> QED
    BY <1>1, <2>1, <2>2, <2>3
<1>6. ASSUME NEW k \in StClerks, STDeductGroup(k) PROVE SeatInv'
  <2> DEFINE h == stClerk[k].group
             n == stClerk[k].seats
  <2>1. /\ h \in StGroups /\ n = StSize[h] /\ StSet(k, StIdle)
        /\ stAvail' = stAvail - n /\ stAgentTaken' = stAgentTaken
        /\ stRebooked' = stRebooked /\ stClerk[k].doing = "deduct" /\ stMissed' = stMissed
        /\ stGroup' = [stGroup EXCEPT ![h].taken = stGroup[h].taken + 1]
    BY <1>6, CallTypes DEF STDeductGroup, StDoing, CallInv
  <2> HIDE DEF h, n
  <2>2. /\ stGroup'[h].taken = stGroup[h].taken + 1
        /\ \A g \in StGroups \ {h} : stGroup'[g].taken = stGroup[g].taken
    BY <2>1 DEF STTypeOK
  <2>3. SumFunctionOnSet(GroupSeats, StGroups)'
          = SumFunctionOnSet(GroupSeats, StGroups) + GroupSeats'[h] - GroupSeats[h]
    BY <2>1, <2>2, GroupSeatsChange
  <2>4. GroupSeats'[h] = GroupSeats[h] + n /\ n \in Nat
    <3>0. StSize[h] \in 1..StMaxSize /\ stGroup[h].taken \in Nat
      BY <2>1, SeatTakersAssumption DEF STTypeOK
    <3>1. stGroup[h].taken \in Nat /\ n \in Nat
      BY <2>1, <3>0
    <3>2. (stGroup[h].taken + 1) * n = stGroup[h].taken * n + n
      BY <3>1
    <3> QED
      BY <2>1, <2>2, <3>1, <3>2 DEF GroupSeats
  <2>5. TripSeats' = TripSeats
    BY <2>1 DEF TripSeats, StKept
  <2>6. STSeatsAccounted'
    <3>1. (stAvail + stAgentTaken + SumFunctionOnSet(GroupSeats, StGroups)
             + SumFunctionOnSet(TripSeats, StRebookings) + stMissed >= StCapacity)'
      <4>1. stAvail + stAgentTaken + SumFunctionOnSet(GroupSeats, StGroups)
             + SumFunctionOnSet(TripSeats, StRebookings) + stMissed >= StCapacity
        BY DEF STSeatsAccounted, GroupSeats, TripSeats
      <4>2. SumFunctionOnSet(TripSeats, StRebookings)' = SumFunctionOnSet(TripSeats, StRebookings)
        BY <2>5
      <4>3. GroupSeats[h] \in Int
        BY <2>1, SeatTypes
      <4> QED
        BY <2>1, <2>3, <2>4, <4>1, <4>2, <4>3, SeatTypes
    <3> QED
      BY <3>1 DEF STSeatsAccounted, GroupSeats, TripSeats
  <2>7. CallInv'
    BY <1>idle, <2>1, CallKept
  <2> QED
    BY <2>6, <2>7 DEF SeatInv
<1>7. ASSUME NEW k \in StClerks, STRejectGroup(k) PROVE SeatInv'
  <2>1. StSet(k, StIdle) /\ quiet
    BY <1>7, CallTypes DEF STRejectGroup, STTypeOK
  <2> QED
    BY <1>1, <1>idle, <2>1
<1>8. ASSUME NEW k \in StClerks, STRebook(k) PROVE SeatInv'
  <2> DEFINE c == stClerk[k].trip
             n == stClerk[k].seats
  <2>1. /\ c \in StRebookings /\ n = StSize[c] /\ StSet(k, StIdle)
        /\ stAvail' = stAvail - n /\ stAgentTaken' = stAgentTaken
        /\ stGroup' = stGroup /\ Rebooking(k) /\ stRebooked[c] = "none"
        /\ stMissed' = stMissed
        /\ stRebooked' = [stRebooked EXCEPT ![c] = "pending"]
        /\ \A j \in StClerks \ {k} : Rebooking(j) => stClerk[j].trip # c
    BY <1>8, CallTypes DEF STRebook, StDoing, CallInv, Rebooking
  <2> HIDE DEF c, n
  <2>2. /\ stRebooked'[c] = "pending"
        /\ \A b \in StRebookings \ {c} : stRebooked'[b] = stRebooked[b]
    BY <2>1 DEF STTypeOK
  <2>3. SumFunctionOnSet(TripSeats, StRebookings)'
          = SumFunctionOnSet(TripSeats, StRebookings) + TripSeats'[c] - TripSeats[c]
    BY <2>1, <2>2, TripSeatsChange
  <2>4. TripSeats'[c] = n /\ TripSeats[c] = 0 /\ n \in Nat
    BY <2>1, <2>2, SeatTakersAssumption DEF TripSeats, StKept
  <2>5. GroupSeats' = GroupSeats
    BY <2>1 DEF GroupSeats
  <2>6. STSeatsAccounted'
    <3>1. (stAvail + stAgentTaken + SumFunctionOnSet(GroupSeats, StGroups)
             + SumFunctionOnSet(TripSeats, StRebookings) + stMissed >= StCapacity)'
      <4>1. stAvail + stAgentTaken + SumFunctionOnSet(GroupSeats, StGroups)
             + SumFunctionOnSet(TripSeats, StRebookings) + stMissed >= StCapacity
        BY DEF STSeatsAccounted, GroupSeats, TripSeats
      <4>2. SumFunctionOnSet(GroupSeats, StGroups)' = SumFunctionOnSet(GroupSeats, StGroups)
        BY <2>5
      <4> QED
        BY <2>1, <2>3, <2>4, <4>1, <4>2, SeatTypes
    <3> QED
      BY <3>1 DEF STSeatsAccounted, GroupSeats, TripSeats
  <2>7. CallInv'
    <3>1. \A j \in StClerks \ {k} : Rebooking(j) =>
            stRebooked'[stClerk[j].trip] = stRebooked[stClerk[j].trip]
      BY <2>1, <2>2, CallTypes DEF Rebooking, StDoing
    <3> QED
      BY <1>idle, <2>1, <2>2, <3>1, CallKept
  <2> QED
    BY <2>6, <2>7 DEF SeatInv
<1>9. ASSUME NEW k \in StClerks, STCountToday(k) PROVE SeatInv'
  <2> DEFINE c == [doing |-> "limits", seats |-> 0]
  <2>1. c \in StCalls \cup {StIdle} /\ StSet(k, c) /\ quiet /\ c.doing = "limits"
    BY <1>9 DEF STCountToday, StCalls
  <2> HIDE DEF c, quiet
  <2> QED
    BY <1>1, <2>1
<1>10. ASSUME NEW k \in StClerks, STReadFlight(k) PROVE SeatInv'
  <2>1. PICK n \in 1..StMaxSize : \/ StSet(k, [doing |-> "insert", seats |-> n])
                                  \/ StSet(k, StIdle)
    BY <1>10 DEF STReadFlight
  <2>2. quiet
    BY <1>10 DEF STReadFlight
  <2> DEFINE c == [doing |-> "insert", seats |-> n]
  <2>3. c \in StCalls \cup {StIdle} /\ c.doing = "insert"
    BY DEF StCalls
  <2>4. StSet(k, c) \/ StSet(k, StIdle)
    BY <2>1
  <2> HIDE DEF c, quiet
  <2> QED
    BY <1>1, <1>idle, <2>2, <2>3, <2>4
<1>11. ASSUME NEW k \in StClerks, STInsertBooking(k) PROVE SeatInv'
  <2> DEFINE c == [stClerk[k] EXCEPT !.doing = "take"]
  <2>1. /\ c \in StCalls \cup {StIdle} /\ StSet(k, c) /\ quiet
        /\ stClerk[k].doing = "insert"
    BY <1>11, CallTypes DEF STInsertBooking, StDoing
  <2>2. c.doing = "take"
    <3>1. stClerk[k] \in [doing : {"insert", "take"}, seats : 1..StMaxSize]
      BY <2>1 DEF STTypeOK, StCalls, StIdle
    <3> QED
      BY <3>1
  <2> HIDE DEF c, quiet
  <2> QED
    BY <1>1, <2>1, <2>2
<1>12. ASSUME NEW k \in StClerks, STTakeSeats(k) PROVE SeatInv'
  <2>1. /\ StSet(k, StIdle) /\ stGroup' = stGroup /\ stRebooked' = stRebooked
        /\ stAvail' = stAvail - stClerk[k].seats
        /\ stAgentTaken' = stAgentTaken + stClerk[k].seats
        /\ StDoing(k, "take") /\ stMissed' = stMissed
    BY <1>12 DEF STTakeSeats
  <2>4. stClerk[k].seats \in Int
    <3>1. stClerk[k].seats \in 1..StMaxSize
      BY <2>1, CallTypes
    <3> QED
      BY <3>1
  <2>2. GroupSeats' = GroupSeats /\ TripSeats' = TripSeats
    BY <2>1 DEF GroupSeats, TripSeats, StKept
  <2>3. STSeatsAccounted'
    <3>1. stAvail' + stAgentTaken' = stAvail + stAgentTaken
      BY <2>1, <2>4, SeatTypes
    <3>2. (stAvail + stAgentTaken + SumFunctionOnSet(GroupSeats, StGroups)
             + SumFunctionOnSet(TripSeats, StRebookings) + stMissed >= StCapacity)'
      <4>1. stAvail + stAgentTaken + SumFunctionOnSet(GroupSeats, StGroups)
             + SumFunctionOnSet(TripSeats, StRebookings) + stMissed >= StCapacity
        BY DEF STSeatsAccounted, GroupSeats, TripSeats
      <4>2. /\ SumFunctionOnSet(GroupSeats, StGroups)' = SumFunctionOnSet(GroupSeats, StGroups)
            /\ SumFunctionOnSet(TripSeats, StRebookings)' = SumFunctionOnSet(TripSeats, StRebookings)
        BY <2>2
      <4> QED
        BY <2>1, <3>1, <4>1, <4>2, SeatTypes
    <3> QED
      BY <3>2 DEF STSeatsAccounted, GroupSeats, TripSeats
  <2>5. CallInv'
    BY <1>idle, <2>1, CallKept
  <2> QED
    BY <2>3, <2>5 DEF SeatInv
<1>13. ASSUME NEW k \in StClerks, STFail(k) PROVE SeatInv'
  <2>1. StSet(k, StIdle) /\ quiet
    BY <1>13 DEF STFail
  <2> QED
    BY <1>1, <1>idle, <2>1
<1>14. ASSUME NEW k \in StClerks, NEW c \in StRebookings, STPay(k, c) \/ STCancel(k, c)
       PROVE  SeatInv'
  <2> DEFINE n == StSize[c]
             read == stClerk[k].read
             missed == IF read = "pending" /\ stRebooked[c] = "confirmed"
                       THEN stMissed + n ELSE stMissed
  <2>1. /\ stRebooked[c] # "none" /\ StSet(k, StIdle) /\ stGroup' = stGroup
        /\ stAgentTaken' = stAgentTaken /\ n \in Nat /\ stMissed' = missed
        /\ stRebooked'[c] \in {"confirmed", "cancelled"}
        /\ \A b \in StRebookings \ {c} : stRebooked'[b] = stRebooked[b]
    BY <1>14, SeatTakersAssumption DEF STPay, STCancel, StEndTrip, StDoing, CallInv, STTypeOK
  <2>2. stAvail' + TripSeats'[c] + stMissed' >= stAvail + TripSeats[c] + stMissed
    <3>1. CASE STPay(k, c)
      <4>1. /\ TripSeats'[c] = 2 * n /\ read = "pending"
            /\ TripSeats[c] = IF stRebooked[c] = "confirmed" THEN 2 * n ELSE n
        BY <2>1, <3>1, CallTypes DEF STPay, StEndTrip, STTypeOK, TripSeats, StKept
      <4>2. stAvail' = IF stAvail >= n THEN stAvail - n ELSE 0
        BY <3>1 DEF STPay
      <4> HIDE DEF n, read
      <4> QED
        BY <2>1, <4>1, <4>2, SeatTypes
    <3>2. CASE STCancel(k, c)
      <4>1. /\ TripSeats'[c] = n /\ read \in {"pending", "confirmed"}
            /\ TripSeats[c] = IF stRebooked[c] = "confirmed" THEN 2 * n ELSE n
            /\ stAvail' = stAvail + IF read = "confirmed" THEN n ELSE 0
        BY <2>1, <3>2, CallTypes
           DEF STCancel, StEndTrip, STTypeOK, TripSeats, StKept, StReturned
      <4> HIDE DEF n, read
      <4> QED
        BY <2>1, <4>1, SeatTypes
    <3> QED
      BY <1>14, <3>1, <3>2
  <2> HIDE DEF n, read, missed
  <2>3. SumFunctionOnSet(TripSeats, StRebookings)'
          = SumFunctionOnSet(TripSeats, StRebookings) + TripSeats'[c] - TripSeats[c]
    BY <2>1, TripSeatsChange
  <2>4. GroupSeats' = GroupSeats
    BY <2>1 DEF GroupSeats
  <2>5. STSeatsAccounted'
    <3>1. (stAvail + stAgentTaken + SumFunctionOnSet(GroupSeats, StGroups)
             + SumFunctionOnSet(TripSeats, StRebookings) + stMissed >= StCapacity)'
      <4>1. stAvail + stAgentTaken + SumFunctionOnSet(GroupSeats, StGroups)
             + SumFunctionOnSet(TripSeats, StRebookings) + stMissed >= StCapacity
        BY DEF STSeatsAccounted, GroupSeats, TripSeats
      <4>2. SumFunctionOnSet(GroupSeats, StGroups)' = SumFunctionOnSet(GroupSeats, StGroups)
        BY <2>4
      <4>3. /\ stAvail' \in Int /\ TripSeats'[c] \in Int /\ TripSeats[c] \in Int
            /\ stMissed' \in Int
        BY SeatTakersAssumption DEF STTypeOK, TripSeats, StKept
      <4> QED
        BY <2>1, <2>2, <2>3, <4>1, <4>2, <4>3, SeatTypes
    <3> QED
      BY <3>1 DEF STSeatsAccounted, GroupSeats, TripSeats
  <2>6. CallInv'
    <3>1. ASSUME NEW j \in StClerks, Rebooking(j)
          PROVE  stClerk[j].trip # c /\ stClerk[j].trip \in StRebookings
      <4>1. stClerk[j].trip \in StRebookings
        BY <3>1, CallTypes DEF Rebooking, StDoing
      <4> QED
        BY <2>1, <3>1, <4>1 DEF CallInv
    <3>2. \A j \in StClerks : Rebooking(j) =>
            stRebooked'[stClerk[j].trip] = stRebooked[stClerk[j].trip]
      BY <2>1, <3>1
    <3>3. \A b \in StRebookings : stRebooked[b] # "none" => stRebooked'[b] # "none"
      BY <2>1
    <3> QED
      BY <1>idle, <2>1, <3>2, <3>3, CallKept
  <2> QED
    BY <2>5, <2>6 DEF SeatInv
<1>16. ASSUME NEW k \in StClerks, NEW b \in StRebookings,
              STReadPayment(k, b) \/ STReadCancel(k, b)
       PROVE  SeatInv'
  <2>1. PICK what \in {"pay", "cancel"} :
          /\ StSet(k, StCopy(what, b)) /\ stRebooked[b] \in {"pending", "confirmed"}
          /\ what = "pay" => stRebooked[b] = "pending"
    BY <1>16 DEF STReadPayment, STReadCancel
  <2> DEFINE c == StCopy(what, b)
  <2>2. /\ c \in StCalls \cup {StIdle} /\ c.doing \in {"pay", "cancel"} /\ StSet(k, c)
        /\ stRebooked[c.trip] # "none"
    BY <2>1, ReadStep
  <2>3. quiet
    BY <1>16 DEF STReadPayment, STReadCancel
  <2> HIDE DEF c, quiet
  <2> QED
    BY <1>1, <2>2, <2>3
<1>15. ASSUME UNCHANGED stVars PROVE SeatInv'
  <2>1. CallInv' /\ quiet
    BY <1>15 DEF stVars, CallInv, Rebooking
  <2> QED
    BY <2>1, SeatsKept DEF SeatInv
<1> HIDE DEF quiet
<1> QED
  BY <1>2, <1>3, <1>4, <1>5, <1>6, <1>7, <1>8, <1>9, <1>10, <1>11, <1>12, <1>13,
     <1>14, <1>15, <1>16 DEF STNext

\* No seat of the flight is lost by a group, an agent or a rebooking, however
\* their calls overlap: what is on sale and what was taken add up to no less
\* than the capacity.
THEOREM SeatsAreAccounted == STSpec => []STSeatsAccounted
<1>1. STInit => IInv /\ SeatInv
  BY InitIInv, InitSeatInv
<1>2. IInv /\ SeatInv /\ [STNext]_stVars => (IInv /\ SeatInv)'
  BY NextIInv, NextSeatInv
<1>3. SeatInv => STSeatsAccounted
  BY DEF SeatInv
<1> QED
  BY <1>1, <1>2, <1>3, PTL DEF STSpec

(***************************************************************************)
(* Holds                                                                   *)
(***************************************************************************)
\* What a call may hold: the seats it has read as free, then those it holds.
HoldLoad == [c \in ShCalls |-> IF shCall[c].pc = "hold" THEN shCall[c].free
                               ELSE IF shCall[c].hold = "active" THEN shCall[c].got ELSE 0]
HoldMost == ShAvailable + ShOverbook
HoldBegun == \A c \in ShCalls : shCall[c].pc \in {"new", "hold"} => shCall[c].hold = "none"

\* Each read that overlaps others adds what it may have found, and no more.
HoldBoundInv == SumFunctionOnSet(HoldLoad, ShCalls) <= (1 + shOverlaps) * HoldMost

HoldRaceInv == \A c \in shReleasing :
  shCall[c].hold # "none" /\ (shCall[c].hold = "converted" => c \in shRaced)

\* As long as nobody has left, the list a call has counted is still there, and
\* with each row on it all that were before that row.
HoldListed(c) == shCall[c].pc = "join" \/ shCall[c].row = "waiting"
HoldOrderInv == ~shLeft => \A c \in ShCalls : HoldListed(c) =>
  /\ shCall[c].before \subseteq ShWaiting /\ c \notin shCall[c].before
  /\ shCall[c].priority = Cardinality(shCall[c].before) + 1
  /\ \A d \in shCall[c].before : shCall[d].before \subseteq shCall[c].before \ {d}
HoldRowInv == \A c \in ShCalls : shCall[c].pc \in {"new", "hold", "count"} => shCall[c].row = "none"

HoldInv ==
  SHTypeOK /\ HoldBegun /\ HoldBoundInv /\ HoldRaceInv /\ HoldOrderInv /\ HoldRowInv

HoldRow ==
  [pc : {"new", "hold", "count", "join", "done"}, free : Nat,
   hold : {"none", "active", "overdue", "released", "converted", "expired"},
   got : Nat, row : {"none", "waiting", "offered", "gone"},
   rest : Nat, priority : Nat, before : SUBSET ShCalls]

LEMMA HoldTypes ==
  ASSUME SHTypeOK
  PROVE  /\ shCall \in [ShCalls -> HoldRow]
         /\ ShWaiting \in SUBSET ShCalls /\ Cardinality(ShWaiting) \in Nat
         /\ \A c \in ShCalls : HoldLoad[c] \in Nat
         /\ ShHeldBy(ShLive) \in Nat
         /\ ShEffective = IF ShFree + ShOverbook >= 0 THEN ShFree + ShOverbook ELSE 0
         /\ ShFree \in Int /\ ShEffective \in Nat /\ HoldMost \in Nat
         /\ ShFree = ShAvailable - shSold - ShHeldBy(ShLive)
<1>1. shCall \in [ShCalls -> HoldRow]
  BY DEF SHTypeOK, HoldRow
<1>2. ShWaiting \in SUBSET ShCalls /\ Cardinality(ShWaiting) \in Nat
  BY SeatHoldsAssumption, FS_Subset, FS_CardinalityType DEF ShWaiting
<1>3. \A c \in ShCalls : HoldLoad[c] \in Nat
  BY <1>1 DEF HoldRow, HoldLoad
<1>4. ShHeldBy(ShLive) \in Nat
  <2> DEFINE f == [c \in ShCalls |-> shCall[c].got]
  <2>1. IsFiniteSet(ShLive) /\ \A c \in ShLive : f[c] \in Nat
    BY <1>1, SeatHoldsAssumption, FS_Subset DEF ShLive, HoldRow
  <2> HIDE DEF f
  <2>2. SumFunctionOnSet(f, ShLive) \in Nat
    BY <2>1, SumNat
  <2> QED
    BY <2>2 DEF ShHeldBy, f
<1>5. /\ ShFree = ShAvailable - shSold - ShHeldBy(ShLive)
      /\ ShFree \in Int /\ ShFree + ShOverbook \in Int /\ HoldMost \in Nat
  BY <1>4, SeatHoldsAssumption DEF ShFree, ShHeld, SHTypeOK, HoldMost
<1>6. ShEffective = IF ShFree + ShOverbook >= 0 THEN ShFree + ShOverbook ELSE 0
  <2> DEFINE m == ShFree + ShOverbook
  <2>1. Max({0, m}) = IF 0 <= m THEN m ELSE 0
    BY <1>5, MaxOfTwo
  <2> QED
    BY <1>5, <2>1 DEF ShEffective
<1> QED
  BY <1>1, <1>2, <1>3, <1>4, <1>5, <1>6

\* One call writes its row.
LEMMA HoldSet ==
  ASSUME SHTypeOK, NEW c \in ShCalls, NEW row \in HoldRow, ShSet(c, row)
  PROVE  /\ shCall' \in [ShCalls -> HoldRow] /\ shCall'[c] = row
         /\ \A d \in ShCalls \ {c} : shCall'[d] = shCall[d]
BY HoldTypes DEF ShSet

\* A step that lets nobody hold more keeps the bound.
LEMMA HoldBoundKept ==
  ASSUME SHTypeOK, shCall' \in [ShCalls -> HoldRow], HoldBoundInv, shOverlaps' = shOverlaps,
         \A c \in ShCalls : HoldLoad'[c] <= HoldLoad[c]
  PROVE  HoldBoundInv'
<1>1. \A c \in ShCalls : HoldLoad'[c] \in Nat /\ HoldLoad[c] \in Nat
  BY HoldTypes DEF HoldLoad, HoldRow
<1>2. SumFunctionOnSet(HoldLoad', ShCalls) <= SumFunctionOnSet(HoldLoad, ShCalls)
  BY <1>1, SumLeq, SeatHoldsAssumption
<1>3. /\ SumFunctionOnSet(HoldLoad', ShCalls) \in Int
      /\ SumFunctionOnSet(HoldLoad, ShCalls) \in Int
  BY <1>1, SumType, SeatHoldsAssumption
<1>4. (1 + shOverlaps) * HoldMost \in Int
  BY HoldTypes DEF SHTypeOK
<1>5. HoldMost' = HoldMost
  BY DEF HoldMost
<1> QED
  BY <1>2, <1>3, <1>4, <1>5 DEF HoldBoundInv

\* Nothing changes about the rows and their order.
LEMMA HoldOrderKept ==
  ASSUME SHTypeOK, HoldOrderInv, HoldRowInv, shLeft' = shLeft,
         shCall' \in [ShCalls -> HoldRow],
         \A c \in ShCalls : /\ shCall'[c].row = shCall[c].row
                            /\ shCall'[c].before = shCall[c].before
                            /\ shCall'[c].priority = shCall[c].priority
                            /\ shCall'[c].pc = "join" => shCall[c].pc = "join"
  PROVE  HoldOrderInv'
<1>1. ShWaiting' = ShWaiting
  BY DEF ShWaiting
<1>2. \A c \in ShCalls : HoldListed(c)' => HoldListed(c)
  BY DEF HoldListed
<1>3. \A c \in ShCalls : shCall[c].before \subseteq ShCalls
  BY HoldTypes DEF HoldRow
<1> SUFFICES ASSUME ~shLeft, NEW c \in ShCalls, HoldListed(c)
             PROVE  /\ shCall'[c].before \subseteq ShWaiting' /\ c \notin shCall'[c].before
                    /\ shCall'[c].priority = Cardinality(shCall'[c].before) + 1
                    /\ \A d \in shCall'[c].before :
                         shCall'[d].before \subseteq shCall'[c].before \ {d}
  BY <1>2 DEF HoldOrderInv
<1>4. shCall'[c].before = shCall[c].before /\ shCall'[c].priority = shCall[c].priority
  OBVIOUS
<1>5. \A d \in shCall[c].before : shCall'[d].before = shCall[d].before
  BY <1>3
<1> QED
  BY <1>1, <1>4, <1>5 DEF HoldOrderInv

LEMMA HoldInit == SHInit => HoldInv
<1> SUFFICES ASSUME SHInit PROVE HoldInv
  OBVIOUS
<1>1. SHTypeOK
  <2>1. ShNew \in HoldRow
    BY DEF ShNew, HoldRow
  <2>2. shSold \in 0..ShMaxSold
    BY SeatHoldsAssumption DEF SHInit
  <2> QED
    BY <2>1, <2>2 DEF SHInit, SHTypeOK, HoldRow
<1>2. HoldBoundInv
  <2>1. \A c \in ShCalls : HoldLoad[c] = 0
    BY DEF SHInit, ShNew, HoldLoad
  <2>2. SumFunctionOnSet(HoldLoad, ShCalls) = 0
    BY <2>1, SumZero, SeatHoldsAssumption
  <2> QED
    BY <1>1, <2>2, HoldTypes DEF SHInit, HoldBoundInv
<1>3. HoldBegun /\ HoldRaceInv /\ HoldOrderInv /\ HoldRowInv
  BY DEF SHInit, ShNew, HoldBegun, HoldRaceInv, HoldOrderInv, HoldListed, HoldRowInv
<1> QED
  BY <1>1, <1>2, <1>3 DEF HoldInv

\* What is held and was read by nobody else before.
LEMMA HoldAlone ==
  ASSUME SHTypeOK, \A c \in ShCalls : shCall[c].pc # "hold"
  PROVE  SumFunctionOnSet(HoldLoad, ShCalls) = ShHeldBy(ShLive)
<1> DEFINE f == [c \in ShCalls |-> shCall[c].got]
           m == [c \in ShCalls |-> IF c \in ShLive THEN f[c] ELSE 0]
<1>1. ShLive \in SUBSET ShCalls /\ \A c \in ShLive : f[c] \in Int
  BY HoldTypes DEF ShLive, HoldRow
<1>2. \A c \in ShCalls : HoldLoad[c] = m[c]
  BY DEF HoldLoad, ShLive
<1>3. HoldLoad = m
  BY <1>2 DEF HoldLoad
<1>4. SumFunctionOnSet(f, ShLive) = SumFunctionOnSet(m, ShCalls)
  <2> HIDE DEF f
  <2> QED
    BY <1>1, SumMask, SeatHoldsAssumption
<1> QED
  BY <1>3, <1>4 DEF ShHeldBy

\* A call that does not read writes its row and holds no more than before.
LEMMA HoldMove ==
  ASSUME HoldInv, NEW c \in ShCalls, NEW row \in HoldRow, ShSet(c, row),
         UNCHANGED <<shSold, shReleasing, shOverlaps>>, shLeft' \in BOOLEAN,
         row.pc \notin {"new", "hold"}, row.pc = "count" => row.row = "none",
         row.hold = "active" => row.got <= HoldLoad[c],
         shRaced' \in SUBSET ShCalls, shRaced \subseteq shRaced',
         c \in shReleasing =>
           row.hold # "none" /\ (row.hold = "converted" => c \in shRaced')
  PROVE  SHTypeOK' /\ HoldBegun' /\ HoldBoundInv' /\ HoldRaceInv' /\ HoldRowInv'
<1> USE DEF HoldInv
<1>1. /\ shCall' \in [ShCalls -> HoldRow] /\ shCall'[c] = row
      /\ \A d \in ShCalls \ {c} : shCall'[d] = shCall[d]
  BY HoldSet
<1>2. SHTypeOK'
  BY <1>1 DEF SHTypeOK, HoldRow
<1>3. HoldBoundInv'
  <2>1. \A d \in ShCalls : HoldLoad'[d] <= HoldLoad[d]
    <3> SUFFICES ASSUME NEW d \in ShCalls PROVE HoldLoad'[d] <= HoldLoad[d]
      OBVIOUS
    <3>1. HoldLoad[d] \in Nat
      BY HoldTypes
    <3>2. CASE d = c
      <4>1. HoldLoad'[c] = IF row.hold = "active" THEN row.got ELSE 0
        BY <1>1 DEF HoldLoad
      <4> QED
        BY <3>1, <3>2, <4>1
    <3>3. CASE d # c
      <4>1. HoldLoad'[d] = HoldLoad[d]
        BY <1>1, <3>3 DEF HoldLoad
      <4> QED
        BY <3>1, <4>1
    <3> QED
      BY <3>2, <3>3
  <2> QED
    BY <1>1, <2>1, HoldBoundKept
<1>4. HoldBegun' /\ HoldRowInv'
  BY <1>1 DEF HoldBegun, HoldRowInv
<1>5. HoldRaceInv'
  BY <1>1 DEF HoldRaceInv, SHTypeOK
<1> QED
  BY <1>2, <1>3, <1>4, <1>5

LEMMA HoldReads ==
  ASSUME HoldInv, NEW c \in ShCalls, SHRead(c)
  PROVE  HoldInv'
<1> USE DEF HoldInv
<1>1. /\ shCall[c].pc = "new" /\ shCall[c].hold = "none" /\ shCall[c].row = "none"
      /\ c \notin shReleasing
  BY DEF SHRead, HoldBegun, HoldRowInv, HoldRaceInv
<1>2. CASE ShEffective > 0 /\ ShSet(c, [ShNew EXCEPT !.pc = "hold", !.free = ShEffective])
  <2> DEFINE row == [ShNew EXCEPT !.pc = "hold", !.free = ShEffective]
  <2>1. /\ row \in HoldRow /\ row.pc = "hold" /\ row.free = ShEffective
        /\ row.hold = "none" /\ row.row = "none"
    BY HoldTypes DEF ShNew, HoldRow
  <2>2. ShSet(c, row)
    BY <1>2
  <2> HIDE DEF row
  <2>3. /\ shCall' \in [ShCalls -> HoldRow] /\ shCall'[c] = row
        /\ \A d \in ShCalls \ {c} : shCall'[d] = shCall[d]
    BY <2>1, <2>2, HoldSet
  <2>4. /\ UNCHANGED <<shSold, shReleasing, shLeft, shRaced>>
        /\ shOverlaps' = IF \E d \in ShCalls : shCall[d].pc = "hold"
                         THEN shOverlaps + 1 ELSE shOverlaps
    <3>1. ~(ShEffective = 0)
      BY <1>2, HoldTypes
    <3> QED
      BY <3>1 DEF SHRead
  <2>5. SHTypeOK'
    BY <2>3, <2>4 DEF SHTypeOK, HoldRow
  <2>6. HoldBoundInv'
    <3>1. \A d \in ShCalls : HoldLoad[d] \in Int /\ HoldLoad'[d] \in Int
      BY <2>3, HoldTypes DEF HoldLoad, HoldRow
    <3>2. \A d \in ShCalls \ {c} : HoldLoad'[d] = HoldLoad[d]
      BY <2>3 DEF HoldLoad
    <3>3. HoldLoad'[c] = ShEffective /\ HoldLoad[c] = 0
      BY <1>1, <2>1, <2>3 DEF HoldLoad
    <3>4. SumFunctionOnSet(HoldLoad', ShCalls)
            = SumFunctionOnSet(HoldLoad, ShCalls) + HoldLoad'[c] - HoldLoad[c]
      BY <3>1, <3>2, SumChange, SeatHoldsAssumption
    <3>5. ShEffective = ShAvailable - shSold - ShHeldBy(ShLive) + ShOverbook
      BY <1>2, HoldTypes
    <3>6. /\ shSold \in Nat /\ ShHeldBy(ShLive) \in Nat /\ ShAvailable \in Nat
          /\ ShOverbook \in Nat /\ HoldMost = ShAvailable + ShOverbook /\ HoldMost' = HoldMost
          /\ shOverlaps \in Nat
      BY HoldTypes, SeatHoldsAssumption DEF SHTypeOK, HoldMost
    <3>7. SumFunctionOnSet(HoldLoad, ShCalls) \in Int
      BY <3>1, SumType, SeatHoldsAssumption
    <3>8. CASE \E d \in ShCalls : shCall[d].pc = "hold"
      <4>1. shOverlaps' = shOverlaps + 1
        BY <2>4, <3>8
      <4>2. SumFunctionOnSet(HoldLoad', ShCalls) <= (1 + shOverlaps) * HoldMost + HoldMost
        <5>1. (1 + shOverlaps) * HoldMost \in Int
          BY <3>6
        <5> QED
          BY <3>3, <3>4, <3>5, <3>6, <3>7, <5>1 DEF HoldBoundInv
      <4>3. (1 + (shOverlaps + 1)) * HoldMost = (1 + shOverlaps) * HoldMost + HoldMost
        <5>1. HoldMost \in Int
          BY <3>6
        <5> QED
          BY <3>6, <5>1
      <4> QED
        BY <3>6, <4>1, <4>2, <4>3 DEF HoldBoundInv
    <3>9. CASE \A d \in ShCalls : shCall[d].pc # "hold"
      <4>1. shOverlaps' = shOverlaps
        BY <2>4, <3>9
      <4>2. SumFunctionOnSet(HoldLoad', ShCalls) <= HoldMost
        BY <3>3, <3>4, <3>5, <3>6, <3>9, HoldAlone
      <4>3. HoldMost <= (1 + shOverlaps) * HoldMost
        <5>1. (1 + shOverlaps) * HoldMost = HoldMost + shOverlaps * HoldMost
          BY <3>6
        <5>2. shOverlaps * HoldMost \in Nat
          BY <3>6
        <5> QED
          BY <3>6, <5>1, <5>2
      <4>4. SumFunctionOnSet(HoldLoad', ShCalls) \in Int /\ (1 + shOverlaps) * HoldMost \in Int
        BY <3>1, <3>6, SumType, SeatHoldsAssumption
      <4> QED
        BY <3>6, <4>1, <4>2, <4>3, <4>4 DEF HoldBoundInv
    <3> QED
      BY <3>8, <3>9
  <2>7. HoldBegun' /\ HoldRowInv'
    BY <2>1, <2>3 DEF HoldBegun, HoldRowInv
  <2>8. HoldRaceInv'
    BY <1>1, <2>1, <2>3, <2>4 DEF HoldRaceInv, SHTypeOK
  <2>9. HoldOrderInv'
    <3>1. ShWaiting' = ShWaiting /\ c \notin ShWaiting
      BY <1>1, <2>1, <2>3 DEF ShWaiting
    <3> SUFFICES ASSUME ~shLeft, NEW d \in ShCalls, HoldListed(d)'
                 PROVE  /\ shCall'[d].before \subseteq ShWaiting' /\ d \notin shCall'[d].before
                        /\ shCall'[d].priority = Cardinality(shCall'[d].before) + 1
                        /\ \A e \in shCall'[d].before :
                             shCall'[e].before \subseteq shCall'[d].before \ {e}
      BY <2>4 DEF HoldOrderInv
    <3>2. d # c
      BY <2>1, <2>3 DEF HoldListed
    <3>3. shCall'[d] = shCall[d] /\ HoldListed(d)
      BY <2>3, <3>2 DEF HoldListed
    <3>4. \A e \in shCall[d].before : e \in ShCalls \ {c}
      BY <3>1, <3>3, HoldTypes DEF HoldOrderInv
    <3>5. \A e \in shCall[d].before : shCall'[e] = shCall[e]
      BY <2>3, <3>4
    <3> QED
      BY <3>1, <3>3, <3>5 DEF HoldOrderInv
  <2> QED
    BY <2>5, <2>6, <2>7, <2>8, <2>9
<1>3. CASE ShEffective = 0 /\ ShSet(c, [ShNew EXCEPT !.pc = "count", !.rest = ShSeats[c]])
  <2> DEFINE row == [ShNew EXCEPT !.pc = "count", !.rest = ShSeats[c]]
  <2>1. /\ row \in HoldRow /\ row.pc = "count" /\ row.hold = "none" /\ row.row = "none"
    BY SeatHoldsAssumption DEF ShNew, HoldRow
  <2>2. ShSet(c, row)
    BY <1>3
  <2> HIDE DEF row
  <2>3. /\ shCall' \in [ShCalls -> HoldRow] /\ shCall'[c] = row
        /\ \A d \in ShCalls \ {c} : shCall'[d] = shCall[d]
    BY <2>1, <2>2, HoldSet
  <2>4. UNCHANGED <<shSold, shReleasing, shLeft, shRaced, shOverlaps>>
    BY <1>3 DEF SHRead
  <2>5. SHTypeOK' /\ HoldBegun' /\ HoldBoundInv' /\ HoldRaceInv' /\ HoldRowInv'
    <3>1. shLeft' \in BOOLEAN /\ shRaced' \in SUBSET ShCalls
      BY <2>4 DEF SHTypeOK
    <3> QED
      BY <1>1, <2>1, <2>2, <2>4, <3>1, HoldMove
  <2>6. HoldOrderInv'
    <3>1. ShWaiting' = ShWaiting /\ c \notin ShWaiting
      BY <1>1, <2>1, <2>3 DEF ShWaiting
    <3> SUFFICES ASSUME ~shLeft, NEW d \in ShCalls, HoldListed(d)'
                 PROVE  /\ shCall'[d].before \subseteq ShWaiting' /\ d \notin shCall'[d].before
                        /\ shCall'[d].priority = Cardinality(shCall'[d].before) + 1
                        /\ \A e \in shCall'[d].before :
                             shCall'[e].before \subseteq shCall'[d].before \ {e}
      BY <2>4 DEF HoldOrderInv
    <3>2. d # c
      BY <2>1, <2>3 DEF HoldListed
    <3>3. shCall'[d] = shCall[d] /\ HoldListed(d)
      BY <2>3, <3>2 DEF HoldListed
    <3>4. \A e \in shCall[d].before : e \in ShCalls \ {c}
      BY <3>1, <3>3, HoldTypes DEF HoldOrderInv
    <3>5. \A e \in shCall[d].before : shCall'[e] = shCall[e]
      BY <2>3, <3>4
    <3> QED
      BY <3>1, <3>3, <3>5 DEF HoldOrderInv
  <2> QED
    BY <2>5, <2>6
<1> QED
  BY <1>2, <1>3 DEF SHRead

LEMMA HoldHolds ==
  ASSUME HoldInv, NEW c \in ShCalls
  PROVE  /\ SHHold(c) => HoldInv'
         /\ SHLapse(c) => HoldInv'
         /\ SHConvert(c) => HoldInv'
<1> USE DEF HoldInv
<1>1. shCall \in [ShCalls -> HoldRow]
  BY HoldTypes
<1>2. ASSUME NEW row \in HoldRow, ShSet(c, row),
             UNCHANGED <<shSold, shReleasing, shOverlaps, shLeft>>,
             row.pc \notin {"new", "hold", "join"} \/ row.pc = shCall[c].pc, row.pc \notin {"new", "hold"},
             row.row = shCall[c].row, row.before = shCall[c].before,
             row.priority = shCall[c].priority,
             row.pc = "count" => row.row = "none",
             row.hold = "active" => row.got <= HoldLoad[c],
             shRaced' \in SUBSET ShCalls, shRaced \subseteq shRaced',
             row.hold # "none", row.hold = "converted" /\ c \in shReleasing => c \in shRaced'
      PROVE  HoldInv'
  <2>1. SHTypeOK' /\ HoldBegun' /\ HoldBoundInv' /\ HoldRaceInv' /\ HoldRowInv'
    <3>1. shLeft' \in BOOLEAN
      BY <1>2 DEF SHTypeOK
    <3> QED
      BY <1>2, <3>1, HoldMove
  <2>2. /\ shCall' \in [ShCalls -> HoldRow] /\ shCall'[c] = row
        /\ \A d \in ShCalls \ {c} : shCall'[d] = shCall[d]
    BY <1>2, HoldSet
  <2>3. HoldOrderInv'
    BY <1>2, <2>2, HoldOrderKept
  <2> QED
    BY <2>1, <2>3
<1>3. ASSUME SHHold(c) PROVE HoldInv'
  <2> DEFINE got == ShGot(c)
             row == [shCall[c] EXCEPT !.pc = IF got = ShSeats[c] THEN "done" ELSE "count",
                       !.free = 0, !.hold = "active", !.got = got, !.rest = ShSeats[c] - got]
  <2>1. shCall[c].pc = "hold" /\ shCall[c].row = "none" /\ ShSeats[c] \in Nat /\ shCall[c].free \in Nat
    BY <1>1, <1>3, SeatHoldsAssumption DEF SHHold, HoldRowInv, HoldRow
  <2>2. got = IF ShSeats[c] <= shCall[c].free THEN ShSeats[c] ELSE shCall[c].free
    BY <2>1, MinOfTwo DEF ShGot
  <2>3. ShSet(c, row) /\ UNCHANGED <<shSold, shReleasing, shOverlaps, shLeft, shRaced>>
    BY <1>3 DEF SHHold
  <2> HIDE DEF got
  <2>4. got \in Nat /\ ShSeats[c] - got \in Nat /\ got <= shCall[c].free
    BY <2>1, <2>2
  <2>5. /\ row \in HoldRow /\ row.pc \in {"done", "count"} /\ row.hold = "active"
        /\ row.got = got /\ row.row = shCall[c].row /\ row.before = shCall[c].before
        /\ row.priority = shCall[c].priority
    <3> DEFINE old == shCall[c]
               pc == IF got = ShSeats[c] THEN "done" ELSE "count"
               rest == ShSeats[c] - got
               new == [old EXCEPT !.pc = pc, !.free = 0, !.hold = "active", !.got = got,
                                  !.rest = rest]
    <3>1. old \in HoldRow /\ pc \in {"done", "count"} /\ rest \in Nat /\ got \in Nat
      BY <1>1, <2>4
    <3> HIDE DEF old, pc, rest
    <3>2. /\ new \in HoldRow /\ new.pc = pc /\ new.hold = "active" /\ new.got = got
          /\ new.row = old.row /\ new.before = old.before /\ new.priority = old.priority
      BY <3>1 DEF HoldRow
    <3>3. row = new
      BY DEF old, pc, rest
    <3> HIDE DEF new, row
    <3> QED
      BY <3>1, <3>2, <3>3 DEF old
  <2>6. HoldLoad[c] = shCall[c].free
    BY <2>1 DEF HoldLoad
  <2>7. shRaced' \in SUBSET ShCalls
    BY <2>3 DEF SHTypeOK
  <2> HIDE DEF row
  <2> QED
    BY <1>2, <2>1, <2>3, <2>4, <2>5, <2>6, <2>7
<1>4. ASSUME SHLapse(c) PROVE HoldInv'
  <2> DEFINE row == [shCall[c] EXCEPT !.hold = "overdue"]
  <2>1. /\ shCall[c].hold = "active" /\ ShSet(c, row)
        /\ UNCHANGED <<shSold, shReleasing, shOverlaps, shLeft, shRaced>>
    BY <1>4 DEF SHLapse
  <2>2. shCall[c].pc \notin {"new", "hold"} /\ (shCall[c].pc = "count" => shCall[c].row = "none")
    BY <2>1 DEF HoldBegun, HoldRowInv
  <2>3. /\ row \in HoldRow /\ row.pc = shCall[c].pc /\ row.hold = "overdue"
        /\ row.row = shCall[c].row /\ row.before = shCall[c].before
        /\ row.priority = shCall[c].priority
    BY <1>1 DEF HoldRow
  <2>4. shRaced' \in SUBSET ShCalls
    BY <2>1 DEF SHTypeOK
  <2> HIDE DEF row
  <2> QED
    BY <1>2, <2>1, <2>2, <2>3, <2>4
<1>5. ASSUME SHConvert(c) PROVE HoldInv'
  <2> DEFINE row == [shCall[c] EXCEPT !.hold = "converted"]
  <2>1. /\ shCall[c].hold # "none" /\ ShSet(c, row)
        /\ shRaced' = IF c \in shReleasing THEN shRaced \cup {c} ELSE shRaced
        /\ UNCHANGED <<shSold, shReleasing, shOverlaps, shLeft>>
    BY <1>5 DEF SHConvert
  <2>2. shCall[c].pc \notin {"new", "hold"} /\ (shCall[c].pc = "count" => shCall[c].row = "none")
    BY <2>1 DEF HoldBegun, HoldRowInv
  <2>3. /\ row \in HoldRow /\ row.pc = shCall[c].pc /\ row.hold = "converted"
        /\ row.row = shCall[c].row /\ row.before = shCall[c].before
        /\ row.priority = shCall[c].priority
    BY <1>1 DEF HoldRow
  <2>4. shRaced' \in SUBSET ShCalls
    BY <2>1 DEF SHTypeOK
  <2> HIDE DEF row
  <2> QED
    BY <1>2, <2>1, <2>2, <2>3, <2>4
<1> QED
  BY <1>3, <1>4, <1>5

LEMMA HoldLists ==
  ASSUME HoldInv, NEW c \in ShCalls
  PROVE  /\ SHCount(c) => HoldInv'
         /\ SHJoin(c) => HoldInv'
         /\ SHLeave(c) => HoldInv'
<1> USE DEF HoldInv
<1>1. /\ shCall \in [ShCalls -> HoldRow] /\ HoldLoad[c] \in Nat
      /\ ShWaiting \in SUBSET ShCalls /\ Cardinality(ShWaiting) \in Nat
  BY HoldTypes
<1>2. shCall[c].pc # "hold" /\ shCall[c].hold = "active" => shCall[c].got <= HoldLoad[c]
  BY <1>1 DEF HoldLoad, HoldRow
<1>3. ASSUME SHCount(c) PROVE HoldInv'
  <2> DEFINE row == [shCall[c] EXCEPT !.pc = "join", !.priority = ShNextPriority,
                                      !.before = ShWaiting]
  <2>1. /\ shCall[c].pc = "count" /\ shCall[c].row = "none" /\ ShSet(c, row)
        /\ UNCHANGED <<shSold, shReleasing, shOverlaps, shLeft, shRaced>>
    BY <1>3 DEF SHCount, HoldRowInv
  <2>2. /\ row \in HoldRow /\ row.pc = "join" /\ row.hold = shCall[c].hold
        /\ row.got = shCall[c].got /\ row.row = "none" /\ row.before = ShWaiting
        /\ row.priority = Cardinality(ShWaiting) + 1
    <3> DEFINE old == shCall[c]
               n == ShNextPriority
    <3>1. /\ old \in HoldRow /\ old.row = "none" /\ n \in Nat
          /\ n = Cardinality(ShWaiting) + 1 /\ ShWaiting \in SUBSET ShCalls
      BY <1>1, <2>1 DEF ShNextPriority
    <3> HIDE DEF old, n
    <3>2. /\ [old EXCEPT !.pc = "join", !.priority = n, !.before = ShWaiting] \in HoldRow
          /\ [old EXCEPT !.pc = "join", !.priority = n, !.before = ShWaiting].pc = "join"
          /\ [old EXCEPT !.pc = "join", !.priority = n, !.before = ShWaiting].hold = old.hold
          /\ [old EXCEPT !.pc = "join", !.priority = n, !.before = ShWaiting].got = old.got
          /\ [old EXCEPT !.pc = "join", !.priority = n, !.before = ShWaiting].row = old.row
          /\ [old EXCEPT !.pc = "join", !.priority = n, !.before = ShWaiting].before = ShWaiting
          /\ [old EXCEPT !.pc = "join", !.priority = n, !.before = ShWaiting].priority = n
      BY <3>1 DEF HoldRow
    <3> QED
      BY <3>1, <3>2 DEF old, n
  <2> HIDE DEF row
  <2>3. /\ shCall' \in [ShCalls -> HoldRow] /\ shCall'[c] = row
        /\ \A d \in ShCalls \ {c} : shCall'[d] = shCall[d]
    BY <2>1, <2>2, HoldSet
  <2>4. SHTypeOK' /\ HoldBegun' /\ HoldBoundInv' /\ HoldRaceInv' /\ HoldRowInv'
    <3>1. /\ shLeft' \in BOOLEAN /\ shRaced' \in SUBSET ShCalls /\ shRaced \subseteq shRaced'
          /\ c \in shReleasing =>
               row.hold # "none" /\ (row.hold = "converted" => c \in shRaced')
      BY <2>1, <2>2 DEF SHTypeOK, HoldRaceInv
    <3>2. row.hold = "active" => row.got <= HoldLoad[c]
      BY <1>2, <2>1, <2>2
    <3> QED
      BY <2>1, <2>2, <3>1, <3>2, HoldMove
  <2>5. HoldOrderInv'
    <3>1. ShWaiting' = ShWaiting /\ c \notin ShWaiting
      BY <2>1, <2>2, <2>3 DEF ShWaiting
    <3> SUFFICES ASSUME ~shLeft, NEW d \in ShCalls, HoldListed(d)'
                 PROVE  /\ shCall'[d].before \subseteq ShWaiting' /\ d \notin shCall'[d].before
                        /\ shCall'[d].priority = Cardinality(shCall'[d].before) + 1
                        /\ \A e \in shCall'[d].before :
                             shCall'[e].before \subseteq shCall'[d].before \ {e}
      BY <2>1 DEF HoldOrderInv
    <3>2. ASSUME NEW e \in ShWaiting
          PROVE  /\ shCall'[e] = shCall[e] /\ shCall[e].before \subseteq ShWaiting \ {e}
      <4>1. e \in ShCalls \ {c} /\ HoldListed(e)
        BY <1>1, <3>1 DEF ShWaiting, HoldListed
      <4> QED
        BY <2>3, <4>1 DEF HoldOrderInv
    <3>3. CASE d = c
      BY <2>2, <2>3, <3>1, <3>2, <3>3
    <3>4. CASE d # c
      <4>1. shCall'[d] = shCall[d] /\ HoldListed(d)
        BY <2>3, <3>4 DEF HoldListed
      <4>2. \A e \in shCall[d].before : e \in ShWaiting
        BY <4>1 DEF HoldOrderInv
      <4> QED
        BY <3>1, <3>2, <4>1, <4>2 DEF HoldOrderInv
    <3> QED
      BY <3>3, <3>4
  <2> QED
    BY <2>4, <2>5
<1>4. ASSUME SHJoin(c) PROVE HoldInv'
  <2> DEFINE row == [shCall[c] EXCEPT !.pc = "done", !.row = "waiting"]
  <2>1. /\ shCall[c].pc = "join" /\ ShSet(c, row)
        /\ UNCHANGED <<shSold, shReleasing, shOverlaps, shLeft, shRaced>>
    BY <1>4 DEF SHJoin
  <2>2. /\ row \in HoldRow /\ row.pc = "done" /\ row.hold = shCall[c].hold
        /\ row.got = shCall[c].got /\ row.row = "waiting" /\ row.before = shCall[c].before
        /\ row.priority = shCall[c].priority
    BY <1>1, <2>1 DEF HoldRow
  <2> HIDE DEF row
  <2>3. /\ shCall' \in [ShCalls -> HoldRow] /\ shCall'[c] = row
        /\ \A d \in ShCalls \ {c} : shCall'[d] = shCall[d]
    BY <2>1, <2>2, HoldSet
  <2>4. SHTypeOK' /\ HoldBegun' /\ HoldBoundInv' /\ HoldRaceInv' /\ HoldRowInv'
    <3>1. /\ shLeft' \in BOOLEAN /\ shRaced' \in SUBSET ShCalls /\ shRaced \subseteq shRaced'
          /\ c \in shReleasing =>
               row.hold # "none" /\ (row.hold = "converted" => c \in shRaced')
      BY <2>1, <2>2 DEF SHTypeOK, HoldRaceInv
    <3>2. row.hold = "active" => row.got <= HoldLoad[c]
      BY <1>2, <2>1, <2>2
    <3> QED
      BY <2>1, <2>2, <3>1, <3>2, HoldMove
  <2>5. HoldOrderInv'
    <3>1. ShWaiting' = ShWaiting \cup {c}
      BY <1>1, <2>2, <2>3 DEF ShWaiting
    <3>2. HoldListed(c)
      BY <2>1 DEF HoldListed
    <3>3. \A d \in ShCalls : /\ shCall'[d].before = shCall[d].before
                             /\ shCall'[d].priority = shCall[d].priority
                             /\ HoldListed(d)' => HoldListed(d)
      BY <2>2, <2>3, <3>2 DEF HoldListed
    <3>4. \A d \in ShCalls : shCall[d].before \in SUBSET ShCalls
      BY <1>1 DEF HoldRow
    <3> SUFFICES ASSUME ~shLeft, NEW d \in ShCalls, HoldListed(d)
                 PROVE  /\ shCall'[d].before \subseteq ShWaiting' /\ d \notin shCall'[d].before
                        /\ shCall'[d].priority = Cardinality(shCall'[d].before) + 1
                        /\ \A e \in shCall'[d].before :
                             shCall'[e].before \subseteq shCall'[d].before \ {e}
      BY <2>1, <3>3 DEF HoldOrderInv
    <3>5. shCall'[d].before = shCall[d].before /\ shCall'[d].priority = shCall[d].priority
      BY <3>3
    <3>6. \A e \in shCall[d].before : shCall'[e].before = shCall[e].before
      BY <3>3, <3>4
    <3> QED
      BY <3>1, <3>5, <3>6 DEF HoldOrderInv
  <2> QED
    BY <2>4, <2>5
<1>5. ASSUME SHLeave(c) PROVE HoldInv'
  <2> DEFINE row == [shCall[c] EXCEPT !.row = "gone", !.rest = 0, !.before = {}]
  <2>1. /\ shCall[c].row \in {"waiting", "offered"} /\ ShSet(c, row) /\ shLeft' = TRUE
        /\ UNCHANGED <<shSold, shReleasing, shOverlaps, shRaced>>
    BY <1>5 DEF SHLeave
  <2>2. /\ row \in HoldRow /\ row.pc = shCall[c].pc /\ row.hold = shCall[c].hold
        /\ row.got = shCall[c].got
    <3>1. shCall[c] \in HoldRow /\ {} \in SUBSET ShCalls
      BY <1>1
    <3> QED
      BY <3>1 DEF HoldRow
  <2>3. row.pc \notin {"new", "hold", "count"}
    BY <2>1, <2>2 DEF HoldRowInv
  <2> HIDE DEF row
  <2>4. SHTypeOK' /\ HoldBegun' /\ HoldBoundInv' /\ HoldRaceInv' /\ HoldRowInv'
    <3>1. /\ shLeft' \in BOOLEAN /\ shRaced' \in SUBSET ShCalls /\ shRaced \subseteq shRaced'
          /\ c \in shReleasing =>
               row.hold # "none" /\ (row.hold = "converted" => c \in shRaced')
      BY <2>1, <2>2 DEF SHTypeOK, HoldRaceInv
    <3>2. row.hold = "active" => row.got <= HoldLoad[c]
      BY <1>2, <2>2, <2>3
    <3> QED
      BY <2>1, <2>2, <2>3, <3>1, <3>2, HoldMove
  <2> QED
    BY <2>1, <2>4 DEF HoldOrderInv
<1> QED
  BY <1>3, <1>4, <1>5

\* Holds end together, and rows are offered seats.
LEMMA HoldEnds ==
  ASSUME HoldInv, NEW C \in SUBSET ShCalls, NEW status \in {"released", "expired"},
         ShEnd(C, status), \A c \in C : shCall[c].pc \notin {"new", "hold"},
         UNCHANGED <<shSold, shOverlaps, shRaced>>, shReleasing' \subseteq shReleasing
  PROVE  HoldInv'
<1> USE DEF HoldInv
<1>1. shCall \in [ShCalls -> HoldRow]
  BY HoldTypes
<1>2. PICK S \in SUBSET ShWaiting :
        /\ shCall' = [c \in ShCalls |->
             [shCall[c] EXCEPT !.hold = IF c \in C THEN status ELSE shCall[c].hold,
                               !.row = IF c \in S THEN "offered" ELSE shCall[c].row]]
        /\ shLeft' = (shLeft \/ S # {})
  BY DEF ShEnd, ShOffer
<1>3. ASSUME NEW c \in ShCalls
      PROVE  /\ shCall'[c] \in HoldRow
             /\ shCall'[c].hold = IF c \in C THEN status ELSE shCall[c].hold
             /\ shCall'[c].row = IF c \in S THEN "offered" ELSE shCall[c].row
             /\ shCall'[c].pc = shCall[c].pc /\ shCall'[c].free = shCall[c].free
             /\ shCall'[c].got = shCall[c].got
             /\ shCall'[c].before = shCall[c].before
             /\ shCall'[c].priority = shCall[c].priority
  <2> DEFINE h == IF c \in C THEN status ELSE shCall[c].hold
             r == IF c \in S THEN "offered" ELSE shCall[c].row
             row == shCall[c]
  <2>1. row \in HoldRow
    BY <1>1
  <2>2. /\ h \in {"none", "active", "overdue", "released", "converted", "expired"}
        /\ r \in {"none", "waiting", "offered", "gone"}
    BY <2>1 DEF HoldRow
  <2>3. shCall'[c] = [row EXCEPT !.hold = h, !.row = r]
    BY <1>2
  <2> HIDE DEF h, r, row
  <2>4. /\ [row EXCEPT !.hold = h, !.row = r] \in HoldRow
        /\ [row EXCEPT !.hold = h, !.row = r].hold = h
        /\ [row EXCEPT !.hold = h, !.row = r].row = r
        /\ [row EXCEPT !.hold = h, !.row = r].pc = row.pc
        /\ [row EXCEPT !.hold = h, !.row = r].free = row.free
        /\ [row EXCEPT !.hold = h, !.row = r].got = row.got
        /\ [row EXCEPT !.hold = h, !.row = r].before = row.before
        /\ [row EXCEPT !.hold = h, !.row = r].priority = row.priority
    BY <2>1, <2>2 DEF HoldRow
  <2> QED
    BY <2>3, <2>4 DEF h, r, row
<1>4. shCall' \in [ShCalls -> HoldRow]
  BY <1>2, <1>3
<1>5. SHTypeOK'
  BY <1>2, <1>4 DEF SHTypeOK, HoldRow
<1>6. HoldBoundInv'
  <2>1. \A c \in ShCalls : HoldLoad'[c] <= HoldLoad[c]
    <3> SUFFICES ASSUME NEW c \in ShCalls PROVE HoldLoad'[c] <= HoldLoad[c]
      OBVIOUS
    <3>1. HoldLoad[c] \in Nat
      BY HoldTypes
    <3>2. HoldLoad'[c] = HoldLoad[c] \/ HoldLoad'[c] = 0
      BY <1>3 DEF HoldLoad
    <3> QED
      BY <3>1, <3>2
  <2> QED
    BY <1>4, <2>1, HoldBoundKept
<1>7. HoldBegun'
  BY <1>3 DEF HoldBegun
<1>8. HoldRaceInv'
  BY <1>3 DEF HoldRaceInv, SHTypeOK
<1>9. HoldRowInv'
  BY <1>3 DEF HoldRowInv, ShWaiting
<1>10. HoldOrderInv'
  <2>1. CASE S = {}
    <3>1. shLeft' = shLeft
      BY <1>2, <2>1 DEF SHTypeOK
    <3>2. \A c \in ShCalls : shCall'[c].row = shCall[c].row
      BY <1>3, <2>1
    <3> QED
      BY <1>3, <1>4, <3>1, <3>2, HoldOrderKept
  <2>2. CASE S # {}
    BY <1>2, <2>2 DEF HoldOrderInv
  <2> QED
    BY <2>1, <2>2
<1> QED
  BY <1>5, <1>6, <1>7, <1>8, <1>9, <1>10

LEMMA HoldNext == HoldInv /\ [SHNext]_shVars => HoldInv'
<1> SUFFICES ASSUME HoldInv, [SHNext]_shVars PROVE HoldInv'
  OBVIOUS
<1>1. ASSUME shCall' = shCall, shLeft' = shLeft, shRaced' = shRaced,
             shOverlaps' = shOverlaps, shReleasing' \in SUBSET ShCalls, shSold' \in 0..ShMaxSold,
             \A c \in shReleasing' : shCall[c].hold # "none"
                                     /\ (shCall[c].hold = "converted" => c \in shRaced)
      PROVE  HoldInv'
  <2>1. SHTypeOK' /\ HoldRaceInv'
    BY <1>1 DEF HoldInv, SHTypeOK, HoldRaceInv
  <2>2. HoldLoad' = HoldLoad /\ HoldMost' = HoldMost /\ ShWaiting' = ShWaiting
    BY <1>1 DEF HoldLoad, HoldMost, ShWaiting
  <2> QED
    BY <1>1, <2>1, <2>2
    DEF HoldInv, HoldBegun, HoldBoundInv, HoldOrderInv, HoldListed, HoldRowInv
<1>2. ASSUME NEW c \in ShCalls, SHReadHold(c) PROVE HoldInv'
  <2>1. shCall[c].hold \notin {"none", "converted"}
    BY <1>2 DEF SHReadHold, ShActive
  <2> QED
    BY <1>1, <1>2, <2>1 DEF SHReadHold, HoldInv, SHTypeOK, HoldRaceInv
<1>3. ASSUME NEW c \in ShCalls, SHRelease(c) PROVE HoldInv'
  <2>1. /\ shCall[c].pc \notin {"new", "hold"} /\ c \in ShCalls
        /\ shReleasing' \subseteq shReleasing
    BY <1>3 DEF SHRelease, HoldInv, HoldBegun, HoldRaceInv
  <2> QED
    BY <1>3, <2>1, HoldEnds DEF SHRelease
<1>4. ASSUME SHExpireHolds PROVE HoldInv'
  <2>1. /\ ShOverdue \in SUBSET ShCalls
        /\ \A c \in ShOverdue : shCall[c].pc \notin {"new", "hold"}
    BY DEF ShOverdue, HoldInv, HoldBegun
  <2> QED
    BY <1>4, <2>1, HoldEnds DEF SHExpireHolds
<1>5. ASSUME SHSell PROVE HoldInv'
  <2>1. shSold' \in 0..ShMaxSold
    BY <1>5, SeatHoldsAssumption DEF SHSell, HoldInv, SHTypeOK
  <2> QED
    BY <1>1, <1>5, <2>1 DEF SHSell, HoldInv, SHTypeOK, HoldRaceInv
<1>6. ASSUME UNCHANGED shVars PROVE HoldInv'
  BY <1>1, <1>6 DEF shVars, HoldInv, SHTypeOK, HoldRaceInv
<1> QED
  BY <1>2, <1>3, <1>4, <1>5, <1>6, HoldReads, HoldHolds, HoldLists DEF SHNext

LEMMA HoldInvImplies == HoldInv => SHTypeOK /\ SHHoldsBounded /\ SHLaterIsBehind
<1> SUFFICES ASSUME HoldInv PROVE SHTypeOK /\ SHHoldsBounded /\ SHLaterIsBehind
  OBVIOUS
<1> USE DEF HoldInv
<1>1. SHHoldsBounded
  <2> DEFINE f == [c \in ShCalls |-> shCall[c].got]
             m == [c \in ShCalls |-> IF c \in ShLive THEN f[c] ELSE 0]
  <2>1. ShLive \in SUBSET ShCalls /\ \A c \in ShLive : f[c] \in Int
    BY HoldTypes DEF ShLive, HoldRow
  <2>2. SumFunctionOnSet(f, ShLive) = SumFunctionOnSet(m, ShCalls)
    <3> HIDE DEF f
    <3> QED
      BY <2>1, SumMask, SeatHoldsAssumption
  <2>3. \A c \in ShCalls : m[c] \in Int /\ HoldLoad[c] \in Int /\ m[c] <= HoldLoad[c]
    <3> SUFFICES ASSUME NEW c \in ShCalls
                 PROVE  m[c] \in Int /\ HoldLoad[c] \in Int /\ m[c] <= HoldLoad[c]
      OBVIOUS
    <3>1. HoldLoad[c] \in Nat /\ shCall[c].got \in Nat
      BY HoldTypes DEF HoldRow
    <3>2. c \in ShLive => HoldLoad[c] = shCall[c].got
      BY DEF ShLive, HoldBegun, HoldLoad
    <3> QED
      BY <3>1, <3>2
  <2> HIDE DEF m
  <2>4. SumFunctionOnSet(m, ShCalls) <= SumFunctionOnSet(HoldLoad, ShCalls)
    BY <2>3, SumLeq, SeatHoldsAssumption
  <2>5. /\ SumFunctionOnSet(m, ShCalls) \in Int
        /\ SumFunctionOnSet(HoldLoad, ShCalls) \in Int
        /\ (1 + shOverlaps) * HoldMost \in Int
    BY <2>3, SumType, SeatHoldsAssumption, HoldTypes DEF SHTypeOK
  <2>6. SumFunctionOnSet(m, ShCalls) <= (1 + shOverlaps) * HoldMost
    BY <2>4, <2>5 DEF HoldBoundInv
  <2> QED
    BY <2>2, <2>6 DEF SHHoldsBounded, ShHeldBy, HoldMost
<1>2. SHLaterIsBehind
  <2> SUFFICES ASSUME ~shLeft, NEW c \in ShWaiting, NEW d \in shCall[c].before
               PROVE  shCall[d].priority < shCall[c].priority
    BY DEF SHLaterIsBehind
  <2>1. c \in ShCalls /\ HoldListed(c)
    BY DEF ShWaiting, HoldListed
  <2>2. /\ d \in ShCalls /\ HoldListed(d)
        /\ shCall[d].before \subseteq shCall[c].before \ {d}
    BY <2>1 DEF HoldOrderInv, ShWaiting, HoldListed
  <2>3. /\ shCall[c].priority = Cardinality(shCall[c].before) + 1
        /\ shCall[d].priority = Cardinality(shCall[d].before) + 1
    BY <2>1, <2>2 DEF HoldOrderInv
  <2> DEFINE A == shCall[c].before
             B == shCall[d].before
  <2>4. A \in SUBSET ShCalls /\ d \in A /\ B \in SUBSET (A \ {d})
    BY <2>1, <2>2, HoldTypes DEF HoldRow
  <2> HIDE DEF A, B
  <2>5. /\ IsFiniteSet(A) /\ IsFiniteSet(A \ {d}) /\ Cardinality(A \ {d}) = Cardinality(A) - 1
        /\ Cardinality(A) \in Nat
    BY <2>4, SeatHoldsAssumption, FS_Subset, FS_RemoveElement, FS_CardinalityType
  <2>6. IsFiniteSet(B) /\ Cardinality(B) <= Cardinality(A \ {d}) /\ Cardinality(B) \in Nat
    BY <2>4, <2>5, FS_Subset, FS_CardinalityType
  <2> QED
    BY <2>3, <2>5, <2>6 DEF A, B
<1> QED
  BY <1>1, <1>2

LEMMA HoldSpec == SHSpec => []HoldInv
BY HoldInit, HoldNext, PTL DEF SHSpec

\* What calls hold together stays within the seats and the overbooking limit,
\* plus as much again for each read of allocateSeats that overlapped another.
THEOREM HoldsAreBounded == SHSpec => []SHHoldsBounded
BY HoldSpec, HoldInvImplies, PTL

\* A hold that became a booking is taken back only by a release that had read it
\* before.
LEMMA HoldConvertedStep ==
  ASSUME HoldInv, [SHNext]_shVars, NEW c \in ShCalls,
         shCall[c].hold = "converted", c \notin shRaced
  PROVE  shCall'[c].hold = "converted"
<1> USE DEF HoldInv
<1>1. shCall \in [ShCalls -> HoldRow] /\ c \notin shReleasing
  BY HoldTypes DEF HoldRaceInv
<1>2. ASSUME NEW d \in ShCalls, NEW row, ShSet(d, row), d = c => row.hold = "converted"
      PROVE  shCall'[c].hold = "converted"
  BY <1>1, <1>2 DEF ShSet
<1>3. ASSUME NEW C \in SUBSET ShCalls, NEW status, ShEnd(C, status), c \notin C
      PROVE  shCall'[c].hold = "converted"
  <2>1. PICK S : shCall' = [e \in ShCalls |->
             [shCall[e] EXCEPT !.hold = IF e \in C THEN status ELSE shCall[e].hold,
                               !.row = IF e \in S THEN "offered" ELSE shCall[e].row]]
    BY <1>3 DEF ShEnd
  <2>2. shCall'[c] = [shCall[c] EXCEPT !.hold = shCall[c].hold,
                               !.row = IF c \in S THEN "offered" ELSE shCall[c].row]
    BY <1>3, <2>1
  <2>3. shCall[c] \in HoldRow
    BY <1>1
  <2> QED
    BY <2>2, <2>3 DEF HoldRow
<1>4. ASSUME NEW d \in ShCalls, SHRead(d) PROVE shCall'[c].hold = "converted"
  <2>1. d # c
    BY <1>4 DEF SHRead, HoldBegun
  <2>2. \E row : ShSet(d, row)
    BY <1>4 DEF SHRead
  <2> QED
    BY <1>2, <2>1, <2>2
<1>5. ASSUME NEW d \in ShCalls, SHHold(d) PROVE shCall'[c].hold = "converted"
  <2>1. d # c
    BY <1>5 DEF SHHold, HoldBegun
  <2>2. \E row : ShSet(d, row)
    BY <1>5 DEF SHHold
  <2> QED
    BY <1>2, <2>1, <2>2
<1>6. ASSUME NEW d \in ShCalls, SHCount(d) \/ SHJoin(d) \/ SHLeave(d)
      PROVE  shCall'[c].hold = "converted"
  <2>1. shCall[d] \in HoldRow
    BY <1>1
  <2>2. CASE SHCount(d)
    <3> DEFINE row == [shCall[d] EXCEPT !.pc = "join", !.priority = ShNextPriority,
                                        !.before = ShWaiting]
    <3>1. ShSet(d, row) /\ row.hold = shCall[d].hold
      BY <2>1, <2>2 DEF SHCount, HoldRow
    <3> HIDE DEF row
    <3> QED
      BY <1>2, <3>1
  <2>3. CASE SHJoin(d)
    <3> DEFINE row == [shCall[d] EXCEPT !.pc = "done", !.row = "waiting"]
    <3>1. ShSet(d, row) /\ row.hold = shCall[d].hold
      BY <2>1, <2>3 DEF SHJoin, HoldRow
    <3> HIDE DEF row
    <3> QED
      BY <1>2, <3>1
  <2>4. CASE SHLeave(d)
    <3> DEFINE row == [shCall[d] EXCEPT !.row = "gone", !.rest = 0, !.before = {}]
    <3>1. ShSet(d, row) /\ row.hold = shCall[d].hold
      BY <2>1, <2>4 DEF SHLeave, HoldRow
    <3> HIDE DEF row
    <3> QED
      BY <1>2, <3>1
  <2> QED
    BY <1>6, <2>2, <2>3, <2>4
<1>7. ASSUME NEW d \in ShCalls, SHLapse(d) PROVE shCall'[c].hold = "converted"
  <2>1. d # c /\ \E row : ShSet(d, row)
    BY <1>7 DEF SHLapse
  <2> QED
    BY <1>2, <2>1
<1>8. ASSUME NEW d \in ShCalls, SHConvert(d) PROVE shCall'[c].hold = "converted"
  <2>1. d # c /\ \E row : ShSet(d, row)
    BY <1>8 DEF SHConvert
  <2> QED
    BY <1>2, <2>1
<1>9. ASSUME NEW d \in ShCalls, SHRelease(d) PROVE shCall'[c].hold = "converted"
  BY <1>1, <1>3, <1>9 DEF SHRelease
<1>10. ASSUME SHExpireHolds PROVE shCall'[c].hold = "converted"
  BY <1>3, <1>10 DEF SHExpireHolds, ShOverdue
<1>11. CASE shCall' = shCall
  BY <1>11
<1> QED
  BY <1>4, <1>5, <1>6, <1>7, <1>8, <1>9, <1>10, <1>11 DEF SHNext, shVars, SHReadHold, SHSell

LEMMA ConvertedStays == SHSpec => SHConvertedStays
<1>1. HoldInv /\ [SHNext]_shVars =>
        [\A c \in ShCalls : shCall[c].hold = "converted" /\ c \notin shRaced
           => shCall'[c].hold = "converted"]_shCall
  BY HoldConvertedStep
<1> QED
  BY <1>1, HoldSpec, PTL DEF SHSpec, SHConvertedStays

(***************************************************************************)
(* The waiting list                                                        *)
(***************************************************************************)
ListRow == [status : WlJoining \cup WlStatus, priority : Nat, lapsed : BOOLEAN,
            before : SUBSET WlEntries, taken : 0..Cardinality(WlRuns)]
ListRun == [pc : {"idle", "due", "read", "offering", "done"}, left : Nat,
            queue : Seq(WlEntries)]

ListDone == {r \in WlRuns : wlRun[r].pc = "done"}
ListQueue(r) == {wlRun[r].queue[i] : i \in DOMAIN wlRun[r].queue}
ListTaken == [e \in WlEntries |-> wlEntry[e].taken * WlSeats[e]]

\* A row keeps what it was numbered with, and so do all that were there before.
ListOrderInv == \A e \in WlEntries :
  /\ wlEntry[e].status # "new" => wlEntry[e].before \subseteq WlInserted
  /\ wlEntry[e].status \notin {"new", "checked"} =>
       \A f \in wlEntry[e].before : wlEntry[f].priority < wlEntry[e].priority

\* Each run takes seats once, and for nobody who is still to be served.
ListTakenInv == \A e \in WlEntries :
  /\ wlEntry[e].taken <= Cardinality(ListDone)
  /\ wlEntry[e].status \in WlJoining \cup {"waiting"} => wlEntry[e].taken = 0

\* Undisturbed, a run may give away what it has read as left.
ListFitInv == ~wlDisturbed =>
  /\ wlAvail >= 0
  /\ \A e \in WlEntries : wlEntry[e].taken <= 1
  /\ \A r \in WlRuns : wlRun[r].pc = "read" =>
       /\ wlRun[r].left <= wlAvail
       /\ \A e \in ListQueue(r) : wlEntry[e].taken = 0

ListSmall == WLTypeOK /\ ListOrderInv /\ ListTakenInv
ListInv == ListSmall /\ WLSeatsAccounted /\ ListFitInv

LEMMA ListTypes ==
  ASSUME WLTypeOK
  PROVE  /\ wlEntry \in [WlEntries -> ListRow] /\ wlRun \in [WlRuns -> ListRun]
         /\ WlInserted \in SUBSET WlEntries /\ IsFiniteSet(WlInserted)
         /\ Cardinality(ListDone) \in Nat /\ Cardinality(WlRuns) \in Nat
         /\ Cardinality(ListDone) <= Cardinality(WlRuns)
         /\ \A e \in WlEntries : wlEntry[e].taken \in Nat /\ WlSeats[e] \in Nat /\ ListTaken[e] \in Int
         /\ \A r \in WlRuns : ListQueue(r) \in SUBSET WlEntries
<1>1. wlEntry \in [WlEntries -> ListRow] /\ wlRun \in [WlRuns -> ListRun]
  BY DEF WLTypeOK, ListRow, ListRun
<1>2. /\ WlInserted \in SUBSET WlEntries /\ IsFiniteSet(WlInserted)
      /\ ListDone \in SUBSET WlRuns /\ IsFiniteSet(ListDone)
  BY WaitlistAssumption, FS_Subset DEF WlInserted, ListDone
<1>3. /\ Cardinality(ListDone) \in Nat /\ Cardinality(WlRuns) \in Nat
      /\ Cardinality(ListDone) <= Cardinality(WlRuns)
  BY <1>2, WaitlistAssumption, FS_Subset, FS_CardinalityType
<1>4. ASSUME NEW e \in WlEntries
      PROVE  wlEntry[e].taken \in Nat /\ WlSeats[e] \in Nat /\ ListTaken[e] \in Int
  <2>1. wlEntry[e].taken \in Nat /\ WlSeats[e] \in Nat
    BY <1>1, <1>3, WaitlistAssumption DEF ListRow
  <2> QED
    BY <2>1 DEF ListTaken
<1>5. ASSUME NEW r \in WlRuns PROVE ListQueue(r) \in SUBSET WlEntries
  <2>1. wlRun[r].queue \in Seq(WlEntries)
    BY <1>1 DEF ListRun
  <2> QED
    BY <2>1 DEF ListQueue
<1> QED
  BY <1>1, <1>2, <1>3, <1>4, <1>5

LEMMA ListInit == WLInit => ListInv
<1> SUFFICES ASSUME WLInit PROVE ListInv
  OBVIOUS
<1>1. WLTypeOK
  <2>1. Cardinality(WlRuns) \in Nat
    BY WaitlistAssumption, FS_CardinalityType
  <2>2. wlEntry \in [WlEntries -> ListRow]
    BY <2>1 DEF WLInit, ListRow, WlJoining, WlStatus
  <2>3. wlRun \in [WlRuns -> ListRun]
    BY DEF WLInit, ListRun
  <2>4. wlAvail \in Int /\ wlDisturbed \in BOOLEAN /\ wlDoing = {}
    <3>1. wlAvail = 0
      BY DEF WLInit
    <3>2. wlAvail \in Int
      BY <3>1
    <3>3. wlDisturbed \in BOOLEAN
      BY Zenon DEF WLInit
    <3>4. wlDoing = {}
      BY DEF WLInit
    <3> QED
      BY <3>2, <3>3, <3>4
  <2>5. wlSold \in 0..WlSold
    <3>1. wlSold = WlSold /\ WlSold \in Nat
      BY WaitlistAssumption DEF WLInit
    <3> QED
      BY <3>1
  <2> QED
    BY <2>2, <2>3, <2>4, <2>5 DEF WLTypeOK, ListRow, ListRun
<1>2. \A e \in WlEntries : /\ wlEntry[e].taken = 0 /\ wlEntry[e].before = {}
                           /\ ListTaken[e] = 0
  BY WaitlistAssumption DEF WLInit, ListTaken
<1>3. ListOrderInv /\ ListTakenInv
  BY <1>1, <1>2, ListTypes DEF ListOrderInv, ListTakenInv
<1>4. ListFitInv
  BY <1>2 DEF WLInit, ListFitInv
<1>5. WLSeatsAccounted
  <2>1. SumFunctionOnSet(ListTaken, WlEntries) = 0
    BY <1>2, SumZero, WaitlistAssumption
  <2> QED
    BY <2>1, WaitlistAssumption DEF WLInit, WLSeatsAccounted, ListTaken
<1> QED
  BY <1>1, <1>3, <1>4, <1>5 DEF ListInv, ListSmall

(***************************************************************************)
(* Steps that change one row of the list                                   *)
(***************************************************************************)
LEMMA ListRowWritten ==
  ASSUME WLTypeOK, NEW e \in WlEntries, NEW row \in ListRow,
         wlEntry' = [wlEntry EXCEPT ![e] = row]
  PROVE  /\ wlEntry' \in [WlEntries -> ListRow] /\ wlEntry'[e] = row
         /\ \A f \in WlEntries \ {e} : wlEntry'[f] = wlEntry[f]
BY ListTypes

\* No seats are taken, and the row does not go back to waiting.
LEMMA ListRowKept ==
  ASSUME ListInv, NEW e \in WlEntries, NEW row \in ListRow,
         wlEntry' = [wlEntry EXCEPT ![e] = row],
         row.taken = wlEntry[e].taken,
         row.status \in WlJoining \cup {"waiting"} => wlEntry[e].taken = 0,
         e \in WlInserted => row.status \in WlStatus /\ row.priority = wlEntry[e].priority,
         row.status # "new" => row.before \subseteq WlInserted,
         row.status \notin {"new", "checked"} =>
           \A f \in row.before \ {e} : wlEntry[f].priority < row.priority,
         e \notin row.before \/ row.status \in {"new", "checked"},
         UNCHANGED <<wlAvail, wlSold, wlDisturbed>>,
         wlDoing' \subseteq [entry : WlEntries, status : {"confirmed", "expired"}, again : BOOLEAN],
         wlRun' \in [WlRuns -> ListRun],
         ListDone \subseteq ListDone',
         \A r \in WlRuns : wlRun'[r].pc = "read" => wlRun'[r] = wlRun[r]
  PROVE  ListInv'
<1> USE DEF ListInv, ListSmall
<1>1. /\ wlEntry' \in [WlEntries -> ListRow] /\ wlEntry'[e] = row
      /\ \A f \in WlEntries \ {e} : wlEntry'[f] = wlEntry[f]
  BY ListRowWritten
<1>2. WLTypeOK'
  BY <1>1 DEF WLTypeOK, ListRow, ListRun
<1>3. \A f \in WlEntries : wlEntry'[f].taken = wlEntry[f].taken
  BY <1>1
<1>4. /\ \A f \in WlInserted : f \in WlInserted' /\ wlEntry'[f].priority = wlEntry[f].priority
      /\ WlInserted \in SUBSET WlEntries
  BY <1>1, ListTypes DEF WlInserted
<1>5. ListOrderInv'
  <2> SUFFICES ASSUME NEW f \in WlEntries
               PROVE  /\ wlEntry'[f].status # "new" => wlEntry'[f].before \subseteq WlInserted'
                      /\ wlEntry'[f].status \notin {"new", "checked"} =>
                           \A g \in wlEntry'[f].before :
                             wlEntry'[g].priority < wlEntry'[f].priority
    BY DEF ListOrderInv
  <2>1. CASE f = e
    <3>1. row.status # "new" => row.before \subseteq WlInserted'
      BY <1>4
    <3>2. row.status \notin {"new", "checked"} =>
            \A g \in row.before : wlEntry'[g].priority < row.priority
      BY <1>4
    <3> QED
      BY <1>1, <2>1, <3>1, <3>2
  <2>2. CASE f # e
    <3>1. wlEntry'[f] = wlEntry[f]
      BY <1>1, <2>2
    <3> QED
      BY <1>4, <3>1 DEF ListOrderInv
  <2> QED
    BY <2>1, <2>2
<1>6. ListTakenInv'
  <2>1. Cardinality(ListDone) <= Cardinality(ListDone')
    <3>1. IsFiniteSet(ListDone') /\ ListDone \in SUBSET (ListDone')
      BY WaitlistAssumption, FS_Subset DEF ListDone
    <3> QED
      BY <3>1, FS_Subset
  <2>2. Cardinality(ListDone') \in Nat /\ Cardinality(ListDone) \in Nat
    BY WaitlistAssumption, FS_Subset, FS_CardinalityType DEF ListDone
  <2>3. \A f \in WlEntries : wlEntry[f].taken \in Nat
    BY ListTypes
  <2>4. \A f \in WlEntries : wlEntry'[f].taken <= Cardinality(ListDone')
    BY <1>3, <2>1, <2>2, <2>3 DEF ListTakenInv
  <2>5. \A f \in WlEntries :
          wlEntry'[f].status \in WlJoining \cup {"waiting"} => wlEntry'[f].taken = 0
    BY <1>1 DEF ListTakenInv
  <2> QED
    BY <2>4, <2>5 DEF ListTakenInv
<1>7. WLSeatsAccounted'
  <2>1. ListTaken' = ListTaken
    BY <1>3 DEF ListTaken
  <2> QED
    BY <2>1 DEF WLSeatsAccounted, ListTaken
<1>8. ListFitInv'
  <2>1. \A r \in WlRuns : wlRun'[r].pc = "read" =>
          wlRun'[r] = wlRun[r] /\ ListQueue(r)' = ListQueue(r) /\ ListQueue(r) \in SUBSET WlEntries
    BY ListTypes DEF ListQueue
  <2> QED
    BY <1>3, <2>1 DEF ListFitInv
<1> QED
  BY <1>2, <1>5, <1>6, <1>7, <1>8

LEMMA ListRunAgain ==
  ASSUME WLTypeOK, WlRunAgain
  PROVE  /\ wlRun' \in [WlRuns -> ListRun] /\ ListDone' = ListDone
         /\ \A r \in WlRuns : wlRun'[r].pc = "read" => wlRun'[r] = wlRun[r]
<1>1. PICK q \in WlRuns : wlRun[q].pc = "idle" /\ wlRun' = [wlRun EXCEPT ![q].pc = "due"]
  BY DEF WlRunAgain
<1>2. wlRun \in [WlRuns -> ListRun]
  BY ListTypes
<1>3. /\ wlRun' \in [WlRuns -> ListRun] /\ wlRun'[q].pc = "due"
      /\ \A r \in WlRuns \ {q} : wlRun'[r] = wlRun[r]
  BY <1>1, <1>2 DEF ListRun
<1> QED
  BY <1>1, <1>3 DEF ListDone

LEMMA ListRunsSame ==
  ASSUME WLTypeOK, wlRun' = wlRun
  PROVE  /\ wlRun' \in [WlRuns -> ListRun] /\ ListDone' = ListDone
         /\ \A r \in WlRuns : wlRun'[r].pc = "read" => wlRun'[r] = wlRun[r]
BY ListTypes DEF ListDone

LEMMA ListNextPriority ==
  ASSUME WLTypeOK, NEW e \in WlEntries
  PROVE  /\ WlNextPriority(e) \in Nat
         /\ \A f \in WlInserted : wlEntry[f].priority < WlNextPriority(e)
<1> DEFINE p == [f \in WlInserted |-> wlEntry[f].priority]
           T == {p[f] : f \in WlInserted}
           M == {wlEntry[f].priority : f \in WlInserted} \cup {0}
<1>1. IsFiniteSet(T)
  <2>1. IsFiniteSet(WlInserted)
    BY ListTypes
  <2> HIDE DEF p
  <2> QED
    BY <2>1, ImageFinite
<1>2. M = T \cup {0}
  OBVIOUS
<1>3. \A f \in WlInserted : wlEntry[f].priority \in Nat
  BY ListTypes DEF ListRow
<1>4. \A x \in M : x \in Nat
  BY <1>3
<1>5. IsFiniteSet(M) /\ M # {}
  <2> HIDE DEF T
  <2> QED
    BY <1>1, <1>2, FS_AddElement
<1>6. \A f \in WlInserted : wlEntry[f].priority \in M
  OBVIOUS
<1>7. WlNextPriority(e) = Max(M) + 1
  BY DEF WlNextPriority
<1> HIDE DEF M
<1>8. Max(M) \in M /\ \A x \in M : x <= Max(M)
  BY <1>4, <1>5, MaxIs
<1> QED
  BY <1>3, <1>4, <1>6, <1>7, <1>8

LEMMA ListJoins ==
  ASSUME ListInv, NEW e \in WlEntries
  PROVE  /\ WLCheckJoin(e) => ListInv'
         /\ WLNumber(e) => ListInv'
         /\ WLInsert(e) => ListInv'
<1> USE DEF ListInv, ListSmall
<1>1. /\ wlEntry \in [WlEntries -> ListRow] /\ wlEntry[e] \in ListRow
      /\ WlInserted \in SUBSET WlEntries
  BY ListTypes
<1>2. ASSUME WLCheckJoin(e) PROVE ListInv'
  <2> DEFINE old == wlEntry[e]
             row == [old EXCEPT !.status = "checked", !.before = WlInserted]
  <2>1. /\ old.status = "new" /\ wlEntry' = [wlEntry EXCEPT ![e] = row]
        /\ UNCHANGED <<wlAvail, wlSold, wlDoing, wlRun, wlDisturbed>> /\ e \notin WlInserted
    BY <1>1, <1>2 DEF WLCheckJoin, WlInserted, WlStatus
  <2>2. /\ row \in ListRow /\ row.status = "checked" /\ row.before = WlInserted
        /\ row.taken = old.taken
    BY <1>1 DEF ListRow, WlJoining
  <2>3. wlEntry[e].taken = 0
    BY <2>1 DEF ListTakenInv, WlJoining
  <2>4. wlDoing' \subseteq [entry : WlEntries, status : {"confirmed", "expired"}, again : BOOLEAN]
    BY <2>1 DEF WLTypeOK
  <2> HIDE DEF row
  <2> QED
    BY <2>1, <2>2, <2>3, <2>4, ListRunsSame, ListRowKept
<1>3. ASSUME WLNumber(e) PROVE ListInv'
  <2> DEFINE old == wlEntry[e]
             n == WlNextPriority(e)
             row == [old EXCEPT !.status = "numbered", !.priority = n]
  <2>1. /\ old.status = "checked" /\ wlEntry' = [wlEntry EXCEPT ![e] = row]
        /\ UNCHANGED <<wlAvail, wlSold, wlDoing, wlRun, wlDisturbed>> /\ e \notin WlInserted
    BY <1>1, <1>3 DEF WLNumber, WlInserted, WlStatus
  <2>2. n \in Nat /\ \A f \in WlInserted : wlEntry[f].priority < n
    BY ListNextPriority
  <2> HIDE DEF n
  <2>3. /\ row \in ListRow /\ row.status = "numbered" /\ row.before = old.before
        /\ row.taken = old.taken /\ row.priority = n
    BY <1>1, <2>2 DEF ListRow, WlJoining
  <2>4. wlEntry[e].taken = 0 /\ old.before \subseteq WlInserted
    BY <2>1 DEF ListTakenInv, WlJoining, ListOrderInv
  <2>5. wlDoing' \subseteq [entry : WlEntries, status : {"confirmed", "expired"}, again : BOOLEAN]
    BY <2>1 DEF WLTypeOK
  <2>6. \A f \in row.before : wlEntry[f].priority < row.priority
    BY <2>2, <2>3, <2>4
  <2> HIDE DEF row
  <2> QED
    BY <2>1, <2>3, <2>4, <2>5, <2>6, ListRunsSame, ListRowKept
<1>4. ASSUME WLInsert(e) PROVE ListInv'
  <2> DEFINE old == wlEntry[e]
             row == [old EXCEPT !.status = "waiting"]
  <2>1. /\ old.status = "numbered" /\ wlEntry' = [wlEntry EXCEPT ![e] = row]
        /\ UNCHANGED <<wlAvail, wlSold, wlDoing, wlRun, wlDisturbed>> /\ e \notin WlInserted
    BY <1>1, <1>4 DEF WLInsert, WlInserted, WlStatus
  <2>2. /\ row \in ListRow /\ row.status = "waiting" /\ row.before = old.before
        /\ row.taken = old.taken /\ row.priority = old.priority
    BY <1>1 DEF ListRow, WlStatus
  <2>3. /\ wlEntry[e].taken = 0 /\ old.before \subseteq WlInserted
        /\ \A f \in old.before : wlEntry[f].priority < old.priority
    BY <2>1 DEF ListTakenInv, WlJoining, ListOrderInv
  <2>4. wlDoing' \subseteq [entry : WlEntries, status : {"confirmed", "expired"}, again : BOOLEAN]
    BY <2>1 DEF WLTypeOK
  <2> HIDE DEF row
  <2> QED
    BY <2>1, <2>2, <2>3, <2>4, ListRunsSame, ListRowKept
<1> QED
  BY <1>2, <1>3, <1>4

\* An inserted row gets another status; nothing else of it changes but the end
\* of its offer.
LEMMA ListAnswered ==
  ASSUME ListInv, NEW e \in WlEntries, wlEntry[e].status \in WlStatus \/ wlEntry[e].taken > 0,
         e \in WlInserted,
         NEW status \in WlStatus \ {"waiting"}, NEW lapsed \in BOOLEAN,
         wlEntry' = [wlEntry EXCEPT ![e].status = status, ![e].lapsed = lapsed],
         UNCHANGED <<wlAvail, wlSold, wlDisturbed>>,
         wlDoing' \subseteq [entry : WlEntries, status : {"confirmed", "expired"}, again : BOOLEAN],
         wlRun' \in [WlRuns -> ListRun], ListDone \subseteq ListDone',
         \A r \in WlRuns : wlRun'[r].pc = "read" => wlRun'[r] = wlRun[r]
  PROVE  ListInv'
<1> USE DEF ListInv, ListSmall
<1> DEFINE old == wlEntry[e]
           row == [old EXCEPT !.status = status, !.lapsed = lapsed]
<1>1. old \in ListRow /\ wlEntry \in [WlEntries -> ListRow] /\ old.status \in WlStatus
  BY ListTypes DEF WlInserted
<1>2. wlEntry' = [wlEntry EXCEPT ![e] = row]
  BY <1>1
<1>3. /\ row \in ListRow /\ row.status = status /\ row.before = old.before
      /\ row.taken = old.taken /\ row.priority = old.priority
  BY <1>1 DEF ListRow
<1>4. /\ old.before \subseteq WlInserted
      /\ \A f \in old.before : wlEntry[f].priority < old.priority
      /\ e \notin old.before
  <2>1. old.status \notin {"new", "checked"}
    BY <1>1 DEF WlStatus
  <2>2. \A f \in old.before : wlEntry[f].priority < old.priority
    BY <2>1 DEF ListOrderInv
  <2>3. old.priority \in Nat
    BY <1>1 DEF ListRow
  <2> QED
    BY <2>1, <2>2, <2>3 DEF ListOrderInv
<1>5. status \in WlStatus /\ status \notin WlJoining \cup {"waiting"}
  BY DEF WlStatus, WlJoining
<1> HIDE DEF row
<1> QED
  BY <1>2, <1>3, <1>4, <1>5, ListRowKept

LEMMA ListAnswers ==
  ASSUME ListInv, NEW e \in WlEntries
  PROVE  /\ WLAccept(e) => ListInv'
         /\ WLFindExpired(e) => ListInv'
         /\ WLDecline(e) => ListInv'
         /\ WLCancel(e) => ListInv'
         /\ WLOfferSeat(e) => ListInv'
         /\ WLLapse(e) => ListInv'
<1> USE DEF ListInv, ListSmall
<1> DEFINE ListBusy == [entry : WlEntries, status : {"confirmed", "expired"}, again : BOOLEAN]
<1>1. /\ wlEntry \in [WlEntries -> ListRow] /\ wlEntry[e] \in ListRow
      /\ wlDoing \subseteq ListBusy
      /\ wlEntry[e].status \in WlStatus => e \in WlInserted
  BY ListTypes DEF WlInserted, WLTypeOK
<1>2. ASSUME NEW d \in ListBusy, wlDoing' = wlDoing \cup {d},
             UNCHANGED <<wlAvail, wlSold, wlEntry, wlRun, wlDisturbed>>
      PROVE  ListInv'
  <2>1. WLTypeOK'
    BY <1>1, <1>2 DEF WLTypeOK
  <2>2. ListDone' = ListDone /\ WlInserted' = WlInserted /\ ListTaken' = ListTaken
    BY <1>2 DEF ListDone, WlInserted, ListTaken
  <2>3. \A r \in WlRuns : ListQueue(r)' = ListQueue(r)
    BY <1>2 DEF ListQueue
  <2>4. ListOrderInv' /\ ListTakenInv'
    BY <1>2, <2>2 DEF ListOrderInv, ListTakenInv
  <2>5. WLSeatsAccounted'
    BY <1>2, <2>2 DEF WLSeatsAccounted, ListTaken
  <2>6. ListFitInv'
    BY <1>2, <2>3 DEF ListFitInv
  <2> QED
    BY <2>1, <2>4, <2>5, <2>6
<1>3. ASSUME WLAccept(e) \/ WLFindExpired(e) PROVE ListInv'
  <2> DEFINE d == [entry |-> e, status |-> IF wlEntry[e].lapsed THEN "expired" ELSE "confirmed",
                   again |-> FALSE]
             f == [entry |-> e, status |-> "expired", again |-> TRUE]
  <2>1. d \in ListBusy /\ f \in ListBusy
    OBVIOUS
  <2>2. /\ UNCHANGED <<wlAvail, wlSold, wlEntry, wlRun, wlDisturbed>>
        /\ wlDoing' = wlDoing \cup {d} \/ wlDoing' = wlDoing \cup {f}
    BY <1>3 DEF WLAccept, WLFindExpired, WlBegin
  <2> HIDE DEF d, f, ListBusy
  <2> QED
    BY <1>2, <2>1, <2>2
<1>4. ASSUME WLDecline(e) PROVE ListInv'
  <2>1. /\ wlEntry[e].status = "offered" /\ WlSet(e, "cancelled") /\ WlRunAgain
        /\ UNCHANGED <<wlAvail, wlSold, wlDoing, wlDisturbed>>
    BY <1>4 DEF WLDecline
  <2> QED
    BY <1>1, <2>1, ListRunAgain, ListAnswered DEF WlSet, WlStatus
<1>5. ASSUME WLCancel(e) PROVE ListInv'
  <2>1. /\ wlEntry[e].status \in WlStatus /\ WlSet(e, "cancelled")
        /\ UNCHANGED <<wlAvail, wlSold, wlDoing, wlRun, wlDisturbed>>
    BY <1>5 DEF WLCancel
  <2> QED
    BY <1>1, <2>1, ListRunsSame, ListAnswered DEF WlSet, WlStatus
<1>6. ASSUME WLOfferSeat(e) PROVE ListInv'
  <2>1. /\ wlEntry[e].status = "waiting" /\ WlSet(e, "offered")
        /\ UNCHANGED <<wlAvail, wlSold, wlDoing, wlRun, wlDisturbed>>
    BY <1>6 DEF WLOfferSeat
  <2> QED
    BY <1>1, <2>1, ListRunsSame, ListAnswered DEF WlSet, WlStatus
<1>7. ASSUME WLLapse(e) PROVE ListInv'
  <2>1. /\ wlEntry[e].status = "offered" /\ wlEntry' = [wlEntry EXCEPT ![e].lapsed = TRUE]
        /\ UNCHANGED <<wlAvail, wlSold, wlDoing, wlRun, wlDisturbed>>
    BY <1>7 DEF WLLapse
  <2>2. wlEntry' = [wlEntry EXCEPT ![e].status = "offered", ![e].lapsed = TRUE]
    <3> DEFINE old == wlEntry[e]
    <3>1. [old EXCEPT !.lapsed = TRUE] = [old EXCEPT !.status = "offered", !.lapsed = TRUE]
      BY <1>1, <2>1 DEF ListRow
    <3> QED
      BY <2>1, <3>1
  <2> QED
    BY <1>1, <2>1, <2>2, ListRunsSame, ListAnswered DEF WlStatus
<1> QED
  BY <1>3, <1>4, <1>5, <1>6, <1>7

\* The rows that operations and runs have read are still there when they are
\* written: rows do not leave the table.
ListOpenInv ==
  /\ \A d \in wlDoing : d.entry \in WlInserted
  /\ \A r \in WlRuns : ListQueue(r) \subseteq WlInserted

LEMMA ListWrites ==
  ASSUME ListInv, ListOpenInv, NEW d \in wlDoing, WLWrite(d)
  PROVE  ListInv'
<1> USE DEF ListInv, ListSmall
<1>1. d.entry \in WlEntries /\ d.entry \in WlInserted /\ d.status \in {"confirmed", "expired"}
  BY DEF ListOpenInv, WLTypeOK
<1>2. /\ WlSet(d.entry, d.status) /\ UNCHANGED <<wlAvail, wlSold, wlDisturbed>>
      /\ wlDoing' \subseteq [entry : WlEntries, status : {"confirmed", "expired"}, again : BOOLEAN]
      /\ WlRunAgain \/ wlRun' = wlRun
  BY DEF WLWrite, WLTypeOK
<1>3. wlEntry[d.entry].status \in WlStatus
  BY <1>1 DEF WlInserted
<1>4. /\ wlRun' \in [WlRuns -> ListRun] /\ ListDone \subseteq ListDone'
      /\ \A r \in WlRuns : wlRun'[r].pc = "read" => wlRun'[r] = wlRun[r]
  BY <1>2, ListRunAgain, ListRunsSame
<1>5. d.status \in WlStatus \ {"waiting"}
  BY <1>1 DEF WlStatus
<1> QED
  BY <1>1, <1>2, <1>3, <1>4, <1>5, ListAnswered DEF WlSet

(***************************************************************************)
(* Steps of the runs                                                       *)
(***************************************************************************)
\* A run of which nothing is "read" afterwards moves on.
LEMMA ListRunMoves ==
  ASSUME WLTypeOK, NEW r \in WlRuns, NEW run \in ListRun,
         wlRun' = [wlRun EXCEPT ![r] = run], wlRun[r].pc # "done"
  PROVE  /\ wlRun' \in [WlRuns -> ListRun] /\ wlRun'[r] = run
         /\ \A q \in WlRuns \ {r} : wlRun'[q] = wlRun[q]
         /\ ListDone \in SUBSET (ListDone')
         /\ run.pc = "done" => ListDone' = ListDone \cup {r}
         /\ r \notin ListDone
<1>1. wlRun \in [WlRuns -> ListRun]
  BY ListTypes
<1>2. /\ wlRun' \in [WlRuns -> ListRun] /\ wlRun'[r] = run
      /\ \A q \in WlRuns \ {r} : wlRun'[q] = wlRun[q]
  BY <1>1
<1> QED
  BY <1>2 DEF ListDone

\* The rows, the counters and the history stay as they are.
LEMMA ListOnlyRun ==
  ASSUME ListInv, NEW r \in WlRuns, NEW run \in ListRun,
         wlRun' = [wlRun EXCEPT ![r] = run], wlRun[r].pc # "done",
         run.pc = "read" => /\ run.left <= wlAvail
                            /\ \A i \in DOMAIN run.queue : run.queue[i] \in WlIn("waiting"),
         UNCHANGED <<wlAvail, wlSold, wlEntry, wlDoing, wlDisturbed>>
  PROVE  ListInv'
<1> USE DEF ListInv, ListSmall
<1>1. /\ wlRun' \in [WlRuns -> ListRun] /\ wlRun'[r] = run
      /\ \A q \in WlRuns \ {r} : wlRun'[q] = wlRun[q]
      /\ ListDone \in SUBSET (ListDone')
  BY ListRunMoves
<1>2. WLTypeOK'
  BY <1>1 DEF WLTypeOK, ListRun
<1>3. WlInserted' = WlInserted
  BY DEF WlInserted
<1>4. ListOrderInv'
  BY <1>3 DEF ListOrderInv
<1>5. ListTakenInv'
  <2>1. IsFiniteSet(ListDone')
    BY WaitlistAssumption, FS_Subset DEF ListDone
  <2>2. Cardinality(ListDone) <= Cardinality(ListDone')
    BY <1>1, <2>1, FS_Subset
  <2>3. Cardinality(ListDone') \in Nat /\ Cardinality(ListDone) \in Nat
    BY <2>1, <1>1, FS_Subset, FS_CardinalityType
  <2>4. \A f \in WlEntries : wlEntry[f].taken \in Nat
    BY ListTypes
  <2> QED
    BY <2>2, <2>3, <2>4 DEF ListTakenInv
<1>6. WLSeatsAccounted'
  BY DEF WLSeatsAccounted
<1>7. ListFitInv'
  <2>1. ASSUME NEW q \in WlRuns, wlRun'[q].pc = "read", ~wlDisturbed
        PROVE  /\ wlRun'[q].left <= wlAvail
               /\ \A e \in ListQueue(q)' : wlEntry[e].taken = 0
    <3>1. CASE q = r
      <4>1. ListQueue(q)' = {run.queue[i] : i \in DOMAIN run.queue}
        BY <1>1, <3>1 DEF ListQueue
      <4>2. \A e \in WlIn("waiting") : wlEntry[e].taken = 0
        BY DEF ListTakenInv, WlIn
      <4> QED
        BY <1>1, <2>1, <3>1, <4>1, <4>2
    <3>2. CASE q # r
      <4>1. wlRun'[q] = wlRun[q] /\ ListQueue(q)' = ListQueue(q)
        BY <1>1, <3>2 DEF ListQueue
      <4> QED
        BY <2>1, <4>1 DEF ListFitInv
    <3> QED
      BY <3>1, <3>2
  <2>2. UNCHANGED <<wlAvail, wlEntry, wlDisturbed>>
    OBVIOUS
  <2>3. ~wlDisturbed => wlAvail >= 0 /\ \A e \in WlEntries : wlEntry[e].taken <= 1
    BY DEF ListFitInv
  <2> QED
    BY <2>1, <2>2, <2>3 DEF ListFitInv
<1> QED
  BY <1>2, <1>4, <1>5, <1>6, <1>7

\* The sequences a queue is taken from have just these rows in them.
LEMMA ListQueueOf ==
  ASSUME NEW S, IsFiniteSet(S), NEW s \in SetToSeqs(S)
  PROVE  s \in Seq(S) /\ \A i \in DOMAIN s : s[i] \in S
<1>1. s \in [1..Cardinality(S) -> S] /\ Cardinality(S) \in Nat
  BY FS_CardinalityType DEF SetToSeqs
<1> QED
  BY <1>1

LEMMA ListReads ==
  ASSUME ListInv, NEW r \in WlRuns
  PROVE  /\ WLRead(r) => ListInv'
         /\ WLReadInventory(r) => ListInv'
         /\ WLNothingFree(r) => ListInv'
<1> USE DEF ListInv, ListSmall
<1>1. wlRun \in [WlRuns -> ListRun] /\ wlRun[r] \in ListRun /\ wlAvail \in Int
  BY ListTypes DEF WLTypeOK
<1>2. ASSUME NEW pc \in {"read", "offering"}, NEW s \in SetToSeqs(WlIn("waiting")),
             wlAvail > 0, wlRun[r].pc # "done",
             wlRun' = [wlRun EXCEPT ![r] = [pc |-> pc, left |-> wlAvail, queue |-> s]],
             UNCHANGED <<wlAvail, wlSold, wlEntry, wlDoing, wlDisturbed>>
      PROVE  ListInv'
  <2> DEFINE run == [pc |-> pc, left |-> wlAvail, queue |-> s]
  <2>1. s \in Seq(WlIn("waiting")) /\ \A i \in DOMAIN s : s[i] \in WlIn("waiting")
    <3>1. IsFiniteSet(WlIn("waiting"))
      BY WaitlistAssumption, FS_Subset DEF WlIn
    <3> QED
      BY <1>2, <3>1, ListQueueOf
  <2>2. s \in Seq(WlEntries)
    BY <2>1 DEF WlIn
  <2>3. run \in ListRun /\ run.left = wlAvail /\ run.queue = s
    BY <1>1, <1>2, <2>2 DEF ListRun
  <2>4. wlRun' = [wlRun EXCEPT ![r] = run] /\ run.left <= wlAvail
    BY <1>1, <1>2, <2>3
  <2> HIDE DEF run
  <2> QED
    BY <1>2, <2>1, <2>3, <2>4, ListOnlyRun
<1>3. ASSUME WLRead(r) PROVE ListInv'
  BY <1>2, <1>3 DEF WLRead
<1>4. ASSUME WLReadInventory(r) PROVE ListInv'
  BY <1>2, <1>4 DEF WLReadInventory
<1>5. ASSUME WLNothingFree(r) PROVE ListInv'
  <2> DEFINE old == wlRun[r]
             run == [old EXCEPT !.pc = "done"]
  <2>1. /\ wlRun[r].pc # "done" /\ wlRun' = [wlRun EXCEPT ![r] = run]
        /\ UNCHANGED <<wlAvail, wlSold, wlEntry, wlDoing, wlDisturbed>>
    BY <1>1, <1>5 DEF WLNothingFree
  <2>2. run \in ListRun /\ run.pc = "done"
    BY <1>1 DEF ListRun
  <2> HIDE DEF run
  <2> QED
    BY <2>1, <2>2, ListOnlyRun
<1> QED
  BY <1>3, <1>4, <1>5

\* Whoever is served last of those a run serves fits in.
LEMMA ListServedFits ==
  ASSUME WLTypeOK, NEW r \in WlRuns, NEW S \in SUBSET WlEntries, WlServed(r, S)
  PROVE  /\ WlSeatsOf(S) \in Nat /\ WlSeatsOf(S) <= wlRun[r].left
         /\ S \subseteq ListQueue(r)
<1> DEFINE q == wlRun[r].queue
           J == {j \in DOMAIN q :
                   WlSeatsOf(S \cap WlEarlier(r, j)) + WlSeats[q[j]] <= wlRun[r].left}
<1>1. q \in Seq(WlEntries) /\ wlRun[r].left \in Nat
  BY ListTypes DEF ListRun
<1>2. S = {q[i] : i \in J}
  BY DEF WlServed
<1>3. /\ IsFiniteSet(S) /\ \A x \in WlEntries : WlSeats[x] \in Nat /\ WlSeats[x] \in Int
      /\ WlSeatsOf(S) \in Nat
  BY WaitlistAssumption, FS_Subset, SumNat DEF WlSeatsOf
<1>4. S \subseteq ListQueue(r)
  BY <1>2 DEF ListQueue
<1>5. CASE S = {}
  BY <1>1, <1>3, <1>4, <1>5, SumEmpty DEF WlSeatsOf
<1>6. CASE S # {}
  <2>1. J # {} /\ J \in SUBSET (1..Len(q)) /\ Len(q) \in Nat
    <3>1. J \subseteq DOMAIN q
      OBVIOUS
    <3> HIDE DEF J, q
    <3>2. J # {}
      BY <1>2, <1>6
    <3>3. DOMAIN q = 1..Len(q) /\ Len(q) \in Nat
      BY <1>1
    <3> QED
      BY <3>1, <3>2, <3>3
  <2>2. IsFiniteSet(J)
    <3> HIDE DEF J, q
    <3>1. IsFiniteSet(1..Len(q))
      <4>1. 1 \in Int /\ Len(q) \in Int
        BY <2>1
      <4> QED
        BY <4>1, FS_Interval
    <3> QED
      BY <2>1, <3>1, FS_Subset
  <2>3. \A x \in J : x \in Int
    BY <2>1
  <2> DEFINE last == Max(J)
             e == q[last]
             E == WlEarlier(r, last)
             R == S \cap E
  <2>4. last \in J /\ \A x \in J : x <= last
    <3> HIDE DEF J
    <3> QED
      BY <2>1, <2>2, <2>3, MaxIs
  <2>5. /\ WlSeatsOf(R) + WlSeats[e] <= wlRun[r].left
        /\ e \in S /\ e \in WlEntries
    BY <1>1, <1>2, <2>4
  <2>6. S = R \cup {e}
    <3>1. ASSUME NEW x \in S, x # e PROVE x \in E
      <4>1. PICK i \in J : x = q[i]
        BY <1>2
      <4>2. i \in 1..(last - 1)
        <5>1. i <= last /\ i # last /\ i \in Nat /\ last \in Nat /\ i >= 1
          <6> HIDE DEF J, last
          <6>1. i # last
            BY <3>1, <4>1 DEF e
          <6> QED
            BY <2>1, <2>4, <6>1
        <5> HIDE DEF last
        <5> QED
          BY <5>1
      <4> QED
        BY <4>1, <4>2 DEF WlEarlier
    <3> HIDE DEF e, E
    <3> QED
      BY <2>5, <3>1
  <2>7. IsFiniteSet(R) /\ \A x \in R : WlSeats[x] \in Nat
    BY <1>3, FS_Subset
  <2>8. WlSeatsOf(R) \in Nat
    BY <2>7, SumNat DEF WlSeatsOf
  <2> HIDE DEF e, R
  <2>9. CASE e \in R
    <3>1. S = R
      BY <2>6, <2>9
    <3>2. WlSeatsOf(S) = WlSeatsOf(R)
      BY <3>1
    <3> QED
      BY <1>1, <1>3, <1>4, <2>5, <2>8, <3>2
  <2>10. CASE e \notin R
    <3>1. \A x \in R \cup {e} : WlSeats[x] \in Int
      BY <1>3, <2>6
    <3>2. WlSeatsOf(R \cup {e}) = WlSeatsOf(R) + WlSeats[e]
      BY <2>7, <2>10, <3>1, SumAdd DEF WlSeatsOf
    <3>3. WlSeatsOf(S) = WlSeatsOf(R) + WlSeats[e]
      BY <2>6, <3>2
    <3> QED
      BY <1>3, <1>4, <2>5, <3>3
  <2> QED
    BY <2>9, <2>10
<1> QED
  BY <1>5, <1>6

LEMMA ListCommits ==
  ASSUME ListInv, ListOpenInv, NEW r \in WlRuns, WLCommit(r)
  PROVE  ListInv'
<1> USE DEF ListInv, ListSmall
<1> DEFINE ListBusy == [entry : WlEntries, status : {"confirmed", "expired"}, again : BOOLEAN]
<1>1. PICK S \in SUBSET WlEntries :
        /\ WlServed(r, S)
        /\ wlAvail' = wlAvail - WlSeatsOf(S)
        /\ wlEntry' = [e \in WlEntries |-> IF e \in S
             THEN [wlEntry[e] EXCEPT !.status = "offered", !.lapsed = FALSE,
                                     !.taken = wlEntry[e].taken + 1]
             ELSE wlEntry[e]]
  BY DEF WLCommit, WlTake
<1>2. /\ wlRun[r].pc = "read"
      /\ wlRun' = [wlRun EXCEPT ![r] = [pc |-> "done", left |-> 0, queue |-> <<>>]]
      /\ wlDisturbed' = (wlDisturbed \/ \E q \in WlRuns \ {r} : wlRun[q].pc = "read")
      /\ UNCHANGED <<wlSold, wlDoing>>
  BY DEF WLCommit
<1>3. /\ WlSeatsOf(S) \in Nat /\ WlSeatsOf(S) <= wlRun[r].left /\ wlRun[r].left \in Nat
      /\ S \subseteq ListQueue(r)
  BY <1>1, ListServedFits, ListTypes DEF ListRun
<1> DEFINE run == [pc |-> "done", left |-> 0, queue |-> <<>>]
<1>4. /\ wlRun' \in [WlRuns -> ListRun] /\ wlRun'[r].pc = "done"
      /\ \A q \in WlRuns \ {r} : wlRun'[q] = wlRun[q]
      /\ ListDone' = ListDone \cup {r} /\ r \notin ListDone
  <2>1. run \in ListRun /\ run.pc = "done"
    BY DEF ListRun
  <2>2. wlRun' = [wlRun EXCEPT ![r] = run] /\ wlRun[r].pc # "done"
    BY <1>2
  <2> HIDE DEF run
  <2> QED
    BY <2>1, <2>2, ListRunMoves
<1>5. /\ Cardinality(ListDone') = Cardinality(ListDone) + 1
      /\ Cardinality(ListDone) \in Nat /\ Cardinality(ListDone') \in Nat
      /\ Cardinality(ListDone') <= Cardinality(WlRuns) /\ Cardinality(WlRuns) \in Nat
  <2>1. IsFiniteSet(ListDone) /\ IsFiniteSet(ListDone') /\ ListDone' \in SUBSET WlRuns
    BY WaitlistAssumption, FS_Subset DEF ListDone
  <2> QED
    BY <1>4, <2>1, WaitlistAssumption, FS_Subset, FS_AddElement, FS_CardinalityType
<1>6. \A e \in WlEntries : wlEntry[e] \in ListRow /\ wlEntry[e].taken \in Nat
                           /\ wlEntry[e].taken <= Cardinality(ListDone)
  BY ListTypes DEF ListTakenInv
<1>7. \A e \in S : /\ wlEntry'[e].status = "offered" /\ wlEntry'[e].lapsed = FALSE
                  /\ wlEntry'[e].taken = wlEntry[e].taken + 1
                  /\ wlEntry'[e].before = wlEntry[e].before
                  /\ wlEntry'[e].priority = wlEntry[e].priority
                  /\ wlEntry'[e] \in ListRow
  <2> SUFFICES ASSUME NEW e \in S
               PROVE  /\ wlEntry'[e].status = "offered" /\ wlEntry'[e].lapsed = FALSE
                      /\ wlEntry'[e].taken = wlEntry[e].taken + 1
                      /\ wlEntry'[e].before = wlEntry[e].before
                      /\ wlEntry'[e].priority = wlEntry[e].priority
                      /\ wlEntry'[e] \in ListRow
    OBVIOUS
  <2> DEFINE old == wlEntry[e]
             n == old.taken + 1
             row == [old EXCEPT !.status = "offered", !.lapsed = FALSE, !.taken = n]
  <2>1. wlEntry'[e] = row
    BY <1>1
  <2>2. n \in 0..Cardinality(WlRuns) /\ old \in ListRow
    BY <1>5, <1>6
  <2>3. n = wlEntry[e].taken + 1
    OBVIOUS
  <2> HIDE DEF n
  <2>4. /\ row.status = "offered" /\ row.lapsed = FALSE /\ row.taken = n
        /\ row.before = old.before /\ row.priority = old.priority /\ row \in ListRow
    BY <2>2 DEF ListRow, WlStatus
  <2> HIDE DEF row
  <2> QED
    BY <2>1, <2>3, <2>4
<1>8. \A e \in WlEntries \ S : wlEntry'[e] = wlEntry[e]
  BY <1>1
<1>9. wlEntry' \in [WlEntries -> ListRow]
  <2>1. \A e \in WlEntries : wlEntry'[e] \in ListRow
    BY <1>6, <1>7, <1>8
  <2>2. wlEntry' = [e \in WlEntries |-> wlEntry'[e]]
    BY <1>1
  <2> QED
    BY <2>1, <2>2
<1>10. WLTypeOK'
  <2>1. wlAvail \in Int /\ wlAvail' \in Int
    <3>1. wlAvail' = wlAvail - WlSeatsOf(S) /\ wlAvail \in Int
      BY <1>1 DEF WLTypeOK
    <3> QED
      BY <1>3, <3>1
  <2>2. wlSold' \in 0..WlSold /\ wlDoing' \subseteq ListBusy
    BY <1>2 DEF WLTypeOK
  <2>3. wlDisturbed' \in BOOLEAN
    BY <1>2, Zenon
  <2> QED
    BY <1>4, <1>9, <2>1, <2>2, <2>3 DEF WLTypeOK, ListRow, ListRun
<1>11. \A e \in WlEntries : /\ wlEntry'[e].before = wlEntry[e].before
                            /\ wlEntry'[e].priority = wlEntry[e].priority
  BY <1>7, <1>8
<1>12. ListTakenInv'
  <2>1. ASSUME NEW e \in WlEntries
        PROVE  /\ wlEntry'[e].taken <= Cardinality(ListDone')
               /\ wlEntry'[e].status \in WlJoining \cup {"waiting"} => wlEntry'[e].taken = 0
    <3>1. CASE e \in S
      BY <1>5, <1>6, <1>7, <3>1 DEF WlJoining
    <3>2. CASE e \notin S
      <4>1. wlEntry'[e] = wlEntry[e]
        BY <1>8, <3>2
      <4>2. wlEntry[e].taken <= Cardinality(ListDone')
        BY <1>5, <1>6
      <4> QED
        BY <4>1, <4>2 DEF ListTakenInv
    <3> QED
      BY <3>1, <3>2
  <2> QED
    BY <2>1 DEF ListTakenInv
<1>13. WLSeatsAccounted'
  <2> DEFINE mask == [e \in WlEntries |-> IF e \in S THEN WlSeats[e] ELSE 0]
  <2>1. \A e \in WlEntries : WlSeats[e] \in Nat /\ ListTaken[e] \in Int
    BY ListTypes
  <2>2. WlSeatsOf(S) = SumFunctionOnSet(mask, WlEntries)
    BY <2>1, WaitlistAssumption, SumMask DEF WlSeatsOf
  <2>3. \A e \in WlEntries : ListTaken'[e] = ListTaken[e] + mask[e] /\ mask[e] \in Int
    <3> SUFFICES ASSUME NEW e \in WlEntries
                 PROVE  ListTaken'[e] = ListTaken[e] + mask[e] /\ mask[e] \in Int
      OBVIOUS
    <3>1. ListTaken[e] = wlEntry[e].taken * WlSeats[e] /\ ListTaken'[e] = wlEntry'[e].taken * WlSeats[e]
      BY DEF ListTaken
    <3>2. CASE e \in S
      <4> DEFINE n == wlEntry[e].taken
                 k == WlSeats[e]
      <4>1. n \in Nat /\ k \in Nat /\ wlEntry'[e].taken = n + 1
        BY <1>6, <1>7, <2>1, <3>2
      <4>2. mask[e] = k
        BY <3>2
      <4>3. ListTaken[e] = n * k /\ ListTaken'[e] = (n + 1) * k
        BY <3>1, <4>1
      <4> HIDE DEF n, k, mask
      <4>4. (n + 1) * k = n * k + k
        BY <4>1
      <4> QED
        BY <4>1, <4>2, <4>3, <4>4
    <3>3. CASE e \notin S
      <4>1. wlEntry'[e] = wlEntry[e] /\ mask[e] = 0
        BY <1>8, <3>3
      <4> HIDE DEF mask
      <4> QED
        BY <2>1, <3>1, <4>1
    <3> QED
      BY <3>2, <3>3
  <2> HIDE DEF mask
  <2>4. SumFunctionOnSet(ListTaken', WlEntries)
          = SumFunctionOnSet(ListTaken, WlEntries) + SumFunctionOnSet(mask, WlEntries)
    BY <2>1, <2>3, WaitlistAssumption, SumPlus
  <2>5. SumFunctionOnSet(ListTaken, WlEntries) \in Int
    BY <2>1, WaitlistAssumption, SumType
  <2>6. wlAvail + wlSold + SumFunctionOnSet(ListTaken, WlEntries) = WlSold
    BY DEF WLSeatsAccounted, ListTaken
  <2>7. wlAvail' + wlSold' + SumFunctionOnSet(ListTaken', WlEntries) = WlSold
    <3>1. wlAvail \in Int /\ wlSold \in Int /\ WlSold \in Int
      BY WaitlistAssumption DEF WLTypeOK
    <3>2. wlAvail' = wlAvail - WlSeatsOf(S) /\ wlSold' = wlSold
      BY <1>1, <1>2
    <3> QED
      BY <1>3, <2>2, <2>4, <2>5, <2>6, <3>1, <3>2
  <2> QED
    BY <2>7 DEF WLSeatsAccounted, ListTaken
<1>14. ListOrderInv'
  <2>1. WlInserted \subseteq WlInserted'
    <3> SUFFICES ASSUME NEW e \in WlEntries, wlEntry[e].status \in WlStatus
                 PROVE  wlEntry'[e].status \in WlStatus
      BY DEF WlInserted
    <3> QED
      BY <1>7, <1>8 DEF WlStatus
  <2>2. ASSUME NEW e \in WlEntries
        PROVE  /\ wlEntry'[e].status # "new" => wlEntry'[e].before \subseteq WlInserted'
               /\ wlEntry'[e].status \notin {"new", "checked"} =>
                    \A f \in wlEntry'[e].before : wlEntry'[f].priority < wlEntry'[e].priority
    <3>1. wlEntry[e].status = wlEntry'[e].status
          \/ wlEntry[e].status \notin {"new", "checked"}
      <4>1. e \in S => wlEntry[e].status \in WlStatus
        BY <1>3 DEF ListOpenInv, WlInserted
      <4> QED
        BY <1>8, <4>1 DEF WlStatus
    <3>2. /\ wlEntry[e].status # "new" => wlEntry[e].before \subseteq WlInserted
          /\ wlEntry[e].status \notin {"new", "checked"} =>
               \A f \in wlEntry[e].before : wlEntry[f].priority < wlEntry[e].priority
      BY DEF ListOrderInv
    <3>3. wlEntry[e].before \subseteq WlEntries
      BY <1>6 DEF ListRow
    <3>4. wlEntry'[e].status # "new" => wlEntry[e].status # "new"
      BY <3>1
    <3>5. wlEntry'[e].status \notin {"new", "checked"} =>
            wlEntry[e].status \notin {"new", "checked"}
      BY <3>1
    <3> QED
      BY <1>11, <2>1, <3>2, <3>3, <3>4, <3>5
  <2> QED
    BY <2>2 DEF ListOrderInv
<1>15. ListFitInv'
  <2> SUFFICES ASSUME ~wlDisturbed'
               PROVE  /\ wlAvail' >= 0
                      /\ \A e \in WlEntries : wlEntry'[e].taken <= 1
                      /\ \A q \in WlRuns : wlRun'[q].pc # "read"
    BY DEF ListFitInv
  <2>1. ~wlDisturbed /\ \A q \in WlRuns \ {r} : wlRun[q].pc # "read"
    BY <1>2
  <2>2. \A q \in WlRuns : wlRun'[q].pc # "read"
    BY <1>4, <2>1
  <2>3. /\ wlRun[r].left <= wlAvail /\ \A e \in ListQueue(r) : wlEntry[e].taken = 0
        /\ \A e \in WlEntries : wlEntry[e].taken <= 1
    BY <1>2, <2>1 DEF ListFitInv
  <2>4. wlAvail' >= 0
    <3>1. wlAvail \in Int
      BY DEF WLTypeOK
    <3>2. wlAvail' = wlAvail - WlSeatsOf(S)
      BY <1>1
    <3> QED
      BY <1>3, <2>3, <3>1, <3>2
  <2>5. \A e \in WlEntries : wlEntry'[e].taken <= 1
    BY <1>3, <1>7, <1>8, <2>3
  <2> QED
    BY <2>2, <2>4, <2>5
<1> QED
  BY <1>10, <1>12, <1>13, <1>14, <1>15

LEMMA ListOffers ==
  ASSUME ListInv, ListOpenInv, NEW r \in WlRuns, WLOfferNext(r)
  PROVE  ListInv'
<1> USE DEF ListInv, ListSmall
<1> DEFINE old == wlRun[r]
           e == Head(old.queue)
           n == old.left - WlSeats[e]
           rest == Tail(old.queue)
           run == [old EXCEPT !.left = n, !.queue = rest]
<1>1. wlRun \in [WlRuns -> ListRun] /\ old \in ListRun /\ wlEntry \in [WlEntries -> ListRow]
  BY ListTypes
<1>2. /\ old.pc = "offering" /\ old.queue # <<>> /\ WlSeats[e] <= old.left
      /\ wlEntry' = [wlEntry EXCEPT ![e].status = "offered", ![e].lapsed = FALSE]
      /\ wlRun' = [wlRun EXCEPT ![r].left = n, ![r].queue = rest]
      /\ UNCHANGED <<wlAvail, wlSold, wlDoing, wlDisturbed>>
  BY DEF WLOfferNext
<1>3. old.queue \in Seq(WlEntries) /\ old.left \in Nat
  BY <1>1 DEF ListRun
<1>4. e = old.queue[1] /\ 1 \in DOMAIN old.queue /\ rest \in Seq(WlEntries)
  BY <1>2, <1>3
<1>5. e \in WlEntries /\ e \in WlInserted
  BY <1>3, <1>4 DEF ListOpenInv, ListQueue
<1>6. n \in Nat
  <2>1. WlSeats[e] \in Nat
    BY <1>5, WaitlistAssumption
  <2> HIDE DEF e
  <2> QED
    BY <1>2, <1>3, <2>1
<1> HIDE DEF n, rest, e
<1>7. wlRun' = [wlRun EXCEPT ![r] = run]
  BY <1>1, <1>2
<1>8. run \in ListRun /\ run.pc = "offering"
  BY <1>1, <1>2, <1>4, <1>6 DEF ListRun
<1> HIDE DEF run
<1>9. /\ wlRun' \in [WlRuns -> ListRun] /\ ListDone \in SUBSET (ListDone')
      /\ \A q \in WlRuns : wlRun'[q].pc = "read" => wlRun'[q] = wlRun[q]
  BY <1>2, <1>7, <1>8, ListRunMoves
<1>10. wlDoing' \subseteq [entry : WlEntries, status : {"confirmed", "expired"}, again : BOOLEAN]
  BY <1>2 DEF WLTypeOK
<1>11. wlEntry[e].status \in WlStatus /\ "offered" \in WlStatus \ {"waiting"}
  BY <1>5 DEF WlInserted, WlStatus
<1> QED
  BY <1>2, <1>5, <1>9, <1>10, <1>11, ListAnswered

LEMMA ListExpires ==
  ASSUME ListInv, WLExpireOffers
  PROVE  ListInv'
<1> USE DEF ListInv, ListSmall
<1>1. /\ wlEntry' = [e \in WlEntries |-> IF e \in WlExpirable
           THEN [wlEntry[e] EXCEPT !.status = "expired", !.lapsed = FALSE] ELSE wlEntry[e]]
      /\ UNCHANGED <<wlAvail, wlSold, wlDoing, wlRun, wlDisturbed>>
  BY DEF WLExpireOffers
<1>2. \A e \in WlEntries :
        /\ wlEntry'[e] \in ListRow /\ wlEntry'[e].taken = wlEntry[e].taken
        /\ wlEntry'[e].before = wlEntry[e].before /\ wlEntry'[e].priority = wlEntry[e].priority
        /\ \/ wlEntry'[e].status = wlEntry[e].status
           \/ wlEntry'[e].status = "expired" /\ wlEntry[e].status = "offered"
  <2> SUFFICES ASSUME NEW e \in WlEntries
               PROVE  /\ wlEntry'[e] \in ListRow /\ wlEntry'[e].taken = wlEntry[e].taken
                      /\ wlEntry'[e].before = wlEntry[e].before
                      /\ wlEntry'[e].priority = wlEntry[e].priority
                      /\ \/ wlEntry'[e].status = wlEntry[e].status
                         \/ wlEntry'[e].status = "expired" /\ wlEntry[e].status = "offered"
    OBVIOUS
  <2> DEFINE old == wlEntry[e]
             row == [old EXCEPT !.status = "expired", !.lapsed = FALSE]
  <2>1. old \in ListRow
    BY ListTypes
  <2>2. /\ row \in ListRow /\ row.taken = old.taken /\ row.before = old.before
        /\ row.priority = old.priority /\ row.status = "expired"
    BY <2>1 DEF ListRow, WlStatus
  <2>3. CASE e \in WlExpirable
    <3>1. wlEntry'[e] = row
      BY <1>1, <2>3
    <3>2. old.status = "offered"
      BY <2>3 DEF WlExpirable, WlIn
    <3> HIDE DEF row
    <3> QED
      BY <2>2, <3>1, <3>2
  <2>4. CASE e \notin WlExpirable
    <3>1. wlEntry'[e] = old
      BY <1>1, <2>4
    <3> QED
      BY <2>1, <3>1
  <2> QED
    BY <2>3, <2>4
<1>3. wlEntry' \in [WlEntries -> ListRow]
  <2>1. wlEntry' = [e \in WlEntries |-> wlEntry'[e]]
    BY <1>1
  <2> QED
    BY <1>2, <2>1
<1>4. WLTypeOK'
  BY <1>1, <1>3 DEF WLTypeOK, ListRow, ListRun
<1>5. \A e \in WlInserted : e \in WlInserted'
  BY <1>2 DEF WlInserted, WlStatus
<1>6. ListOrderInv'
  <2> SUFFICES ASSUME NEW e \in WlEntries
               PROVE  /\ wlEntry'[e].status # "new" => wlEntry'[e].before \subseteq WlInserted'
                      /\ wlEntry'[e].status \notin {"new", "checked"} =>
                           \A f \in wlEntry'[e].before : wlEntry'[f].priority < wlEntry'[e].priority
    BY DEF ListOrderInv
  <2>1. wlEntry[e].before \subseteq WlEntries
    BY ListTypes DEF ListRow
  <2>2. /\ wlEntry'[e].status # "new" => wlEntry[e].status # "new"
        /\ wlEntry'[e].status \notin {"new", "checked"} =>
             wlEntry[e].status \notin {"new", "checked"}
    BY <1>2
  <2>3. /\ wlEntry[e].status # "new" => wlEntry[e].before \subseteq WlInserted
        /\ wlEntry[e].status \notin {"new", "checked"} =>
             \A f \in wlEntry[e].before : wlEntry[f].priority < wlEntry[e].priority
    BY DEF ListOrderInv
  <2> QED
    BY <1>2, <1>5, <2>1, <2>2, <2>3
<1>7. ListDone' = ListDone /\ ListTaken' = ListTaken
  <2>1. ListTaken' = ListTaken
    BY <1>2 DEF ListTaken
  <2>2. ListDone' = ListDone
    BY <1>1 DEF ListDone
  <2> QED
    BY <2>1, <2>2
<1>8. ListTakenInv'
  BY <1>2, <1>7 DEF ListTakenInv, WlJoining
<1>9. WLSeatsAccounted'
  <2>1. UNCHANGED <<wlAvail, wlSold>>
    BY <1>1
  <2> QED
    BY <1>7, <2>1 DEF WLSeatsAccounted, ListTaken
<1>10. ListFitInv'
  <2>1. \A q \in WlRuns : ListQueue(q)' = ListQueue(q) /\ ListQueue(q) \in SUBSET WlEntries
    BY <1>1, ListTypes DEF ListQueue
  <2>2. UNCHANGED <<wlAvail, wlRun, wlDisturbed>>
    BY <1>1
  <2> QED
    BY <1>2, <2>1, <2>2 DEF ListFitInv
<1> QED
  BY <1>4, <1>6, <1>8, <1>9, <1>10

\* Seats that other customers give back or buy.
LEMMA ListOthers ==
  ASSUME ListInv
  PROVE  /\ WLReturnSeat => ListInv'
         /\ WLSellSeat => ListInv'
         /\ UNCHANGED wlVars => ListInv'
<1> USE DEF ListInv, ListSmall
<1> DEFINE Sum == SumFunctionOnSet(ListTaken, WlEntries)
<1>1. /\ wlAvail \in Int /\ wlSold \in Nat /\ wlSold <= WlSold /\ WlSold \in Nat
      /\ Sum \in Nat /\ wlAvail + wlSold + Sum = WlSold
  <2>1. \A e \in WlEntries : ListTaken[e] \in Nat
    <3> SUFFICES ASSUME NEW e \in WlEntries PROVE ListTaken[e] \in Nat
      OBVIOUS
    <3> DEFINE n == wlEntry[e].taken
               k == WlSeats[e]
    <3>1. n \in Nat /\ k \in Nat
      BY ListTypes
    <3>2. ListTaken[e] = n * k
      BY DEF ListTaken
    <3> HIDE DEF n, k
    <3> QED
      BY <3>1, <3>2
  <2>2. Sum \in Nat
    BY <2>1, SumNat, WaitlistAssumption
  <2>3. wlAvail + wlSold + Sum = WlSold
    BY DEF WLSeatsAccounted, ListTaken
  <2> QED
    BY <2>2, <2>3, WaitlistAssumption DEF WLTypeOK
<1> HIDE DEF Sum
<1>2. ASSUME UNCHANGED <<wlEntry, wlDoing, wlRun>>,
             wlAvail' \in Int, wlSold' \in 0..WlSold, wlDisturbed' \in BOOLEAN,
             wlAvail' + wlSold' = wlAvail + wlSold,
             wlAvail' >= 0 \/ wlDisturbed',
             ~wlDisturbed' => /\ ~wlDisturbed
                              /\ wlAvail <= wlAvail' \/ \A r \in WlRuns : wlRun[r].pc # "read"
      PROVE  ListInv'
  <2>1. WLTypeOK'
    BY <1>2 DEF WLTypeOK
  <2>2. ListDone' = ListDone /\ WlInserted' = WlInserted /\ ListTaken' = ListTaken
    BY <1>2 DEF ListDone, WlInserted, ListTaken
  <2>3. \A r \in WlRuns : ListQueue(r)' = ListQueue(r)
    BY <1>2 DEF ListQueue
  <2>4. ListOrderInv' /\ ListTakenInv'
    BY <1>2, <2>2 DEF ListOrderInv, ListTakenInv
  <2>5. WLSeatsAccounted'
    <3>1. wlAvail' + wlSold' + SumFunctionOnSet(ListTaken', WlEntries)
            = wlAvail' + wlSold' + Sum
      BY <2>2 DEF Sum
    <3>2. wlSold' \in Int
      BY <1>1, <1>2
    <3>3. wlAvail' + wlSold' + SumFunctionOnSet(ListTaken', WlEntries) = WlSold
      BY <1>1, <1>2, <3>1, <3>2
    <3> QED
      BY <3>3 DEF WLSeatsAccounted, ListTaken
  <2>6. ListFitInv'
    <3> SUFFICES ASSUME ~wlDisturbed'
                 PROVE  /\ wlAvail' >= 0
                        /\ \A e \in WlEntries : wlEntry[e].taken <= 1
                        /\ \A r \in WlRuns : wlRun[r].pc = "read" =>
                             /\ wlRun[r].left <= wlAvail'
                             /\ \A e \in ListQueue(r) : wlEntry[e].taken = 0
      BY <1>2, <2>3 DEF ListFitInv
    <3>1. ListFitInv /\ ~wlDisturbed
      BY <1>2
    <3>2. \A r \in WlRuns : wlRun[r].pc = "read" => wlRun[r].left <= wlAvail'
      BY <1>1, <1>2, <3>1, ListTypes DEF ListFitInv, ListRun
    <3> QED
      BY <1>2, <3>1, <3>2 DEF ListFitInv
  <2> QED
    BY <2>1, <2>4, <2>5, <2>6
<1>3. ASSUME WLReturnSeat PROVE ListInv'
  <2>1. /\ UNCHANGED <<wlEntry, wlDoing, wlRun, wlDisturbed>> /\ wlSold > 0
        /\ wlSold' = wlSold - 1 /\ wlAvail' = wlAvail + 1 /\ wlDisturbed' \in BOOLEAN
    BY <1>3 DEF WLReturnSeat, WLTypeOK
  <2>2. ~wlDisturbed => wlAvail >= 0
    BY DEF ListFitInv
  <2>3. /\ wlAvail' \in Int /\ wlSold' \in 0..WlSold /\ wlAvail <= wlAvail'
        /\ wlAvail' + wlSold' = wlAvail + wlSold
    BY <1>1, <2>1
  <2>4. wlAvail' >= 0 \/ wlDisturbed'
    BY <1>1, <2>1, <2>2
  <2> QED
    BY <1>2, <2>1, <2>3, <2>4
<1>4. ASSUME WLSellSeat PROVE ListInv'
  <2>1. /\ UNCHANGED <<wlEntry, wlDoing, wlRun>> /\ wlAvail > 0
        /\ wlSold' = wlSold + 1 /\ wlAvail' = wlAvail - 1
        /\ wlDisturbed' = (wlDisturbed \/ \E r \in WlRuns : wlRun[r].pc = "read")
    BY <1>4 DEF WLSellSeat
  <2>2. wlDisturbed' \in BOOLEAN /\ ~wlDisturbed' =>
          ~wlDisturbed /\ \A r \in WlRuns : wlRun[r].pc # "read"
    BY <2>1, Zenon
  <2>3. /\ wlAvail' \in Int /\ wlSold' \in 0..WlSold /\ wlAvail' >= 0
        /\ wlAvail' + wlSold' = wlAvail + wlSold
    BY <1>1, <2>1
  <2>4. wlDisturbed' \in BOOLEAN
    BY <2>1, Zenon
  <2> QED
    BY <1>2, <2>1, <2>2, <2>3, <2>4
<1>5. ASSUME UNCHANGED wlVars PROVE ListInv'
  <2>1. UNCHANGED <<wlEntry, wlDoing, wlRun, wlAvail, wlSold, wlDisturbed>>
    BY <1>5 DEF wlVars
  <2>2. wlAvail' \in Int /\ wlSold' \in 0..WlSold /\ wlDisturbed' \in BOOLEAN
    BY <2>1 DEF WLTypeOK
  <2>3. wlAvail' >= 0 \/ wlDisturbed'
    BY <2>1 DEF ListFitInv
  <2>4. wlAvail <= wlAvail' /\ wlAvail' + wlSold' = wlAvail + wlSold
    BY <1>1, <2>1
  <2> QED
    BY <1>2, <2>1, <2>2, <2>3, <2>4
<1> QED
  BY <1>3, <1>4, <1>5

\* No row leaves the table.
LEMMA ListInsertedStay ==
  ASSUME ListInv, ListOpenInv, [WLNext]_wlVars
  PROVE  WlInserted \subseteq WlInserted'
<1> USE DEF ListInv, ListSmall
<1>1. wlEntry \in [WlEntries -> ListRow]
  BY ListTypes
<1>2. ASSUME NEW e \in WlEntries, NEW status \in WlStatus, WlSet(e, status)
      PROVE  WlInserted \subseteq WlInserted'
  BY <1>1, <1>2 DEF WlSet, WlInserted, ListRow
<1>3. ASSUME NEW e \in WlEntries, wlEntry[e].status \notin WlStatus, wlEntry'[e] \in ListRow,
             \A f \in WlEntries \ {e} : wlEntry'[f] = wlEntry[f]
      PROVE  WlInserted \subseteq WlInserted'
  BY <1>3 DEF WlInserted
<1>4. wlEntry' = wlEntry => WlInserted \subseteq WlInserted'
  BY DEF WlInserted
<1>5. ASSUME NEW e \in WlEntries,
             \/ WLCheckJoin(e) \/ WLNumber(e) \/ WLInsert(e)
             \/ WLAccept(e) \/ WLDecline(e) \/ WLCancel(e) \/ WLOfferSeat(e)
             \/ WLFindExpired(e) \/ WLLapse(e)
      PROVE  WlInserted \subseteq WlInserted'
  <2>1. CASE WLCheckJoin(e) \/ WLNumber(e) \/ WLInsert(e)
    <3>1. wlEntry[e].status \notin WlStatus
      BY <2>1 DEF WLCheckJoin, WLNumber, WLInsert, WlStatus
    <3>2. \A f \in WlEntries \ {e} : wlEntry'[f] = wlEntry[f]
      BY <1>1, <2>1 DEF WLCheckJoin, WLNumber, WLInsert
    <3> QED
      BY <3>1, <3>2 DEF WlInserted
  <2>2. CASE WLDecline(e) \/ WLCancel(e) \/ WLOfferSeat(e)
    <3>1. WlSet(e, "cancelled") \/ WlSet(e, "offered")
      BY <2>2 DEF WLDecline, WLCancel, WLOfferSeat
    <3> QED
      BY <1>2, <3>1 DEF WlStatus
  <2>3. CASE WLAccept(e) \/ WLFindExpired(e)
    BY <1>4, <2>3 DEF WLAccept, WLFindExpired, WlBegin
  <2>4. CASE WLLapse(e)
    <3>1. wlEntry' = [wlEntry EXCEPT ![e].lapsed = TRUE]
      BY <2>4 DEF WLLapse
    <3>2. \A f \in WlEntries : wlEntry'[f].status = wlEntry[f].status
      BY <1>1, <3>1 DEF ListRow
    <3> QED
      BY <3>2 DEF WlInserted
  <2> QED
    BY <1>5, <2>1, <2>2, <2>3, <2>4
<1>6. ASSUME NEW d \in wlDoing, WLWrite(d)
      PROVE  WlInserted \subseteq WlInserted'
  <2>1. d.entry \in WlEntries /\ d.status \in WlStatus
    BY DEF WLTypeOK, WlStatus
  <2>2. WlSet(d.entry, d.status)
    BY <1>6 DEF WLWrite
  <2> QED
    BY <1>2, <2>1, <2>2
<1>7. ASSUME WLExpireOffers PROVE WlInserted \subseteq WlInserted'
  <2>1. \A f \in WlEntries : \/ wlEntry'[f] = wlEntry[f]
                             \/ wlEntry'[f].status = "expired"
    <3> SUFFICES ASSUME NEW f \in WlEntries
                 PROVE  wlEntry'[f] = wlEntry[f] \/ wlEntry'[f].status = "expired"
      OBVIOUS
    <3> DEFINE old == wlEntry[f]
    <3>1. old \in ListRow /\ [old EXCEPT !.status = "expired", !.lapsed = FALSE].status = "expired"
      BY <1>1 DEF ListRow
    <3> QED
      BY <1>7, <3>1 DEF WLExpireOffers
  <2> QED
    BY <2>1 DEF WlInserted, WlStatus
<1>8. ASSUME NEW r \in WlRuns, WLCommit(r) PROVE WlInserted \subseteq WlInserted'
  <2>1. \A f \in WlEntries : \/ wlEntry'[f] = wlEntry[f]
                             \/ wlEntry'[f].status = "offered"
    <3> SUFFICES ASSUME NEW f \in WlEntries
                 PROVE  wlEntry'[f] = wlEntry[f] \/ wlEntry'[f].status = "offered"
      OBVIOUS
    <3> DEFINE old == wlEntry[f]
               n == old.taken + 1
    <3>1. old \in ListRow
      BY <1>1
    <3>2. [old EXCEPT !.status = "offered", !.lapsed = FALSE, !.taken = n].status = "offered"
      BY <3>1 DEF ListRow
    <3> QED
      BY <1>8, <3>2 DEF WLCommit
  <2> QED
    BY <2>1 DEF WlInserted, WlStatus
<1>9. ASSUME NEW r \in WlRuns, WLOfferNext(r) PROVE WlInserted \subseteq WlInserted'
  <2> DEFINE e == Head(wlRun[r].queue)
  <2>1. WlSet(e, "offered")
    BY <1>9 DEF WLOfferNext, WlSet
  <2>2. e \in WlEntries
    BY <1>9, ListTypes DEF WLOfferNext, ListRun
  <2> HIDE DEF e
  <2> QED
    BY <1>2, <2>1, <2>2 DEF WlStatus
<1>10. ASSUME NEW r \in WlRuns, WLRead(r) \/ WLNothingFree(r) \/ WLReadInventory(r)
       PROVE WlInserted \subseteq WlInserted'
  BY <1>4, <1>10 DEF WLRead, WLNothingFree, WLReadInventory
<1>11. WLReturnSeat \/ WLSellSeat \/ UNCHANGED wlVars => WlInserted \subseteq WlInserted'
  BY <1>4 DEF WLReturnSeat, WLSellSeat, wlVars
<1> QED
  BY <1>5, <1>6, <1>7, <1>8, <1>9, <1>10, <1>11 DEF WLNext

LEMMA ListOpenKept ==
  ASSUME ListInv, ListOpenInv, [WLNext]_wlVars
  PROVE  ListOpenInv'
<1> USE DEF ListInv, ListSmall
<1>1. WlInserted \subseteq WlInserted'
  BY ListInsertedStay
<1>2. \A d \in wlDoing' : d \in wlDoing \/ d.entry \in WlInserted
  <2>1. ASSUME NEW e \in WlEntries, WLAccept(e) \/ WLFindExpired(e)
        PROVE  \A d \in wlDoing' : d \in wlDoing \/ d.entry \in WlInserted
    BY <2>1 DEF WLAccept, WLFindExpired, WlBegin, WlInserted, WlStatus
  <2>2. ASSUME NEW d \in wlDoing, WLWrite(d) PROVE wlDoing' \subseteq wlDoing
    BY <2>2 DEF WLWrite
  <2>3. ASSUME NEW e \in WlEntries,
               \/ WLCheckJoin(e) \/ WLNumber(e) \/ WLInsert(e)
               \/ WLDecline(e) \/ WLCancel(e) \/ WLOfferSeat(e) \/ WLLapse(e)
        PROVE  wlDoing' = wlDoing
    BY <2>3 DEF WLCheckJoin, WLNumber, WLInsert, WLDecline, WLCancel, WLOfferSeat, WLLapse
  <2>4. ASSUME NEW r \in WlRuns,
               \/ WLRead(r) \/ WLNothingFree(r) \/ WLCommit(r)
               \/ WLReadInventory(r) \/ WLOfferNext(r)
        PROVE  wlDoing' = wlDoing
    BY <2>4 DEF WLRead, WLNothingFree, WLCommit, WLReadInventory, WLOfferNext
  <2>5. WLExpireOffers \/ WLReturnSeat \/ WLSellSeat \/ UNCHANGED wlVars => wlDoing' = wlDoing
    BY DEF WLExpireOffers, WLReturnSeat, WLSellSeat, wlVars
  <2> QED
    BY <2>1, <2>2, <2>3, <2>4, <2>5 DEF WLNext
<1>3. \A r \in WlRuns : ListQueue(r)' \subseteq ListQueue(r) \cup WlInserted
  <2>1. wlRun \in [WlRuns -> ListRun]
    BY ListTypes
  <2>2. ASSUME \A r \in WlRuns : wlRun'[r].queue = wlRun[r].queue
        PROVE  \A r \in WlRuns : ListQueue(r)' \subseteq ListQueue(r) \cup WlInserted
    BY <2>2 DEF ListQueue
  <2>3. WlRunAgain => \A r \in WlRuns : wlRun'[r].queue = wlRun[r].queue
    BY <2>1 DEF WlRunAgain, ListRun
  <2>4. ASSUME NEW e \in WlEntries,
               \/ WLCheckJoin(e) \/ WLNumber(e) \/ WLInsert(e)
               \/ WLAccept(e) \/ WLDecline(e) \/ WLCancel(e) \/ WLOfferSeat(e)
               \/ WLFindExpired(e) \/ WLLapse(e)
        PROVE  wlRun' = wlRun \/ WlRunAgain
    BY <2>4 DEF WLCheckJoin, WLNumber, WLInsert, WLAccept, WLDecline, WLCancel, WLOfferSeat,
                WLFindExpired, WLLapse, WlBegin
  <2>5. ASSUME NEW d \in wlDoing, WLWrite(d) PROVE wlRun' = wlRun \/ WlRunAgain
    BY <2>5 DEF WLWrite
  <2>6. WLExpireOffers \/ WLReturnSeat \/ WLSellSeat \/ UNCHANGED wlVars => wlRun' = wlRun
    BY DEF WLExpireOffers, WLReturnSeat, WLSellSeat, wlVars
  <2>7. ASSUME NEW r \in WlRuns, WLNothingFree(r)
        PROVE  \A q \in WlRuns : wlRun'[q].queue = wlRun[q].queue
    BY <2>1, <2>7 DEF WLNothingFree, ListRun
  <2>8. ASSUME NEW r \in WlRuns, NEW run,
               wlRun' = [wlRun EXCEPT ![r] = run],
               \A i \in DOMAIN run.queue : run.queue[i] \in ListQueue(r) \cup WlInserted
        PROVE  \A q \in WlRuns : ListQueue(q)' \subseteq ListQueue(q) \cup WlInserted
    <3>1. wlRun'[r] = run /\ \A q \in WlRuns \ {r} : wlRun'[q] = wlRun[q]
      BY <2>1, <2>8
    <3> QED
      BY <2>8, <3>1 DEF ListQueue
  <2>9. ASSUME NEW r \in WlRuns, WLRead(r) \/ WLReadInventory(r)
        PROVE  \A q \in WlRuns : ListQueue(q)' \subseteq ListQueue(q) \cup WlInserted
    <3>1. PICK s \in SetToSeqs(WlIn("waiting")), pc \in {"read", "offering"} :
            wlRun' = [wlRun EXCEPT ![r] = [pc |-> pc, left |-> wlAvail, queue |-> s]]
      BY <2>9 DEF WLRead, WLReadInventory
    <3>2. \A i \in DOMAIN s : s[i] \in WlIn("waiting")
      <4>1. IsFiniteSet(WlIn("waiting"))
        BY WaitlistAssumption, FS_Subset DEF WlIn
      <4> QED
        BY <4>1, ListQueueOf
    <3>3. WlIn("waiting") \subseteq WlInserted
      BY DEF WlIn, WlInserted, WlStatus
    <3> QED
      BY <2>8, <3>1, <3>2, <3>3
  <2>10. ASSUME NEW r \in WlRuns, WLCommit(r)
         PROVE  \A q \in WlRuns : ListQueue(q)' \subseteq ListQueue(q) \cup WlInserted
    <3> DEFINE run == [pc |-> "done", left |-> 0, queue |-> <<>>]
    <3>1. wlRun' = [wlRun EXCEPT ![r] = run]
      BY <2>10 DEF WLCommit
    <3>2. DOMAIN run.queue = {}
      OBVIOUS
    <3> HIDE DEF run
    <3> QED
      BY <2>8, <3>1, <3>2
  <2>11. ASSUME NEW r \in WlRuns, WLOfferNext(r)
         PROVE  \A q \in WlRuns : ListQueue(q)' \subseteq ListQueue(q) \cup WlInserted
    <3> DEFINE old == wlRun[r]
               n == old.left - WlSeats[Head(old.queue)]
               rest == Tail(old.queue)
               run == [old EXCEPT !.left = n, !.queue = rest]
    <3>1. old \in ListRun /\ old.queue # <<>>
      BY <2>1, <2>11 DEF WLOfferNext
    <3>2. wlRun' = [wlRun EXCEPT ![r] = run]
      BY <2>1, <2>11 DEF WLOfferNext
    <3>3. run.queue = rest
      BY <3>1 DEF ListRun
    <3>4. \A i \in DOMAIN rest : rest[i] = old.queue[i + 1] /\ i + 1 \in DOMAIN old.queue
      <4>1. old.queue \in Seq(WlEntries) /\ old.queue # <<>>
        BY <3>1 DEF ListRun
      <4> QED
        BY <4>1
    <3>5. \A i \in DOMAIN run.queue : run.queue[i] \in ListQueue(r)
      BY <3>3, <3>4 DEF ListQueue
    <3> HIDE DEF run
    <3> QED
      BY <2>8, <3>2, <3>5
  <2>12. CASE \/ wlRun' = wlRun \/ WlRunAgain
    BY <2>2, <2>3, <2>12
  <2> QED
    BY <2>2, <2>4, <2>5, <2>6, <2>7, <2>9, <2>10, <2>11, <2>12 DEF WLNext
<1>4. \A d \in wlDoing' : d.entry \in WlInserted'
  BY <1>1, <1>2 DEF ListOpenInv
<1>5. \A r \in WlRuns : ListQueue(r)' \subseteq WlInserted'
  BY <1>1, <1>3 DEF ListOpenInv
<1> QED
  BY <1>4, <1>5 DEF ListOpenInv

ListAll == ListInv /\ ListOpenInv

LEMMA ListNext ==
  ASSUME ListAll, [WLNext]_wlVars
  PROVE  ListAll'
<1> USE DEF ListAll
<1>1. ListOpenInv'
  BY ListOpenKept
<1>2. ListInv'
  BY ListJoins, ListAnswers, ListWrites, ListExpires, ListReads, ListCommits, ListOffers,
     ListOthers DEF WLNext
<1> QED
  BY <1>1, <1>2

LEMMA ListStart == WLInit => ListAll
<1> SUFFICES ASSUME WLInit PROVE ListAll
  OBVIOUS
<1>1. ListInv
  BY ListInit
<1>2. ListOpenInv
  BY DEF WLInit, ListOpenInv, ListQueue
<1> QED
  BY <1>1, <1>2 DEF ListAll

LEMMA ListInvImplies ==
  ASSUME ListAll
  PROVE  WLTypeOK /\ WLSeatsAccounted /\ WLOffersFit /\ WLLaterIsBehind
<1>1. WLOffersFit
  BY DEF ListAll, ListInv, ListFitInv, WLOffersFit
<1>2. WLLaterIsBehind
  BY DEF ListAll, ListInv, ListSmall, ListOrderInv, WLLaterIsBehind, WlInserted, WlStatus
<1> QED
  BY <1>1, <1>2 DEF ListAll, ListInv, ListSmall

LEMMA ListSpec == WLSpec => []ListAll
<1>1. WLInit => ListAll
  BY ListStart
<1>2. ListAll /\ [WLNext]_wlVars => ListAll'
  BY ListNext
<1> QED
  BY <1>1, <1>2, PTL DEF WLSpec

\* On the waiting list, every seat taken out of the counter for an offer stays
\* accounted for, for any entries and any number of overlapping calls of
\* processWaitlist.
THEOREM OffersAreAccounted == WLSpec => []WLSeatsAccounted
<1>1. ListAll => WLSeatsAccounted
  BY ListInvImplies
<1> QED
  BY <1>1, ListSpec, PTL

\* As long as nothing changes the counter between the read and the commit of a
\* processWaitlist, nobody is offered seats twice and the counter stays at or
\* above zero.
THEOREM OffersFit == WLSpec => []WLOffersFit
<1>1. ListAll => WLOffersFit
  BY ListInvImplies
<1> QED
  BY <1>1, ListSpec, PTL
==============================================================================
