-------------------------- MODULE Customer_proofs ----------------------------
(***************************************************************************)
(* What promises to a customer hold when requests overlap: the proofs      *)
(* about PriceLocks, Vouchers, Sessions, SplitPayment, FamilyGroup and     *)
(* NdcOrders, for any number of requests and rows. None of the six locks   *)
(* what it has looked at, so what their promises may be overrun by is what *)
(* the requests that have looked may still write, and the invariants count *)
(* those with what is written. The names of the first three sections begin *)
(* with Pl, Vo and Sn where they would be the same, those about credits    *)
(* with Credit, shares with Split, families with Fam and orders with       *)
(* Order.                                                                  *)
(***************************************************************************)
EXTENDS Vouchers, PriceLocks, Sessions, SplitPayment, FamilyGroup, NdcOrders,
        Sums_proofs

(***************************************************************************)
(* Price locks: createPriceLock and usePriceLock                           *)
(***************************************************************************)

PlAll == Cardinality(PlSessions)
Creating == {k \in PlSessions : PlDoing(k, "create")}
Using(l) == {k \in PlSessions : PlDoing(k, "use") /\ plSession[k].lock = l}

\* Creators saw no active lock: the first of them made the only one there is.
ActiveInv == Cardinality(PlActive) + Cardinality(Creating) <= PlAll

\* A lock that is active has not been used, and those who saw it active use it
\* once each.
UsesInv == \A l \in PlIds :
  /\ plUses[l] + Cardinality(Using(l)) <= PlAll
  /\ plStatus[l] \in {"none", "active"} => plUses[l] = 0

PlIInv == PLTypeOK /\ ActiveInv /\ UsesInv

\* --- Counting requests and locks ---
LEMMA PlRequests ==
  ASSUME NEW T \in SUBSET PlSessions
  PROVE  /\ IsFiniteSet(T) /\ Cardinality(T) \in Nat
         /\ PlAll \in Nat /\ Cardinality(T) <= PlAll
BY PriceLocksAssumption, FS_Subset, FS_CardinalityType DEF PlAll

LEMMA Locks ==
  ASSUME NEW T \in SUBSET PlIds
  PROVE  IsFiniteSet(T) /\ Cardinality(T) \in Nat
<1>1. IsFiniteSet(PlIds)
  BY PriceLocksAssumption, FS_Interval DEF PlIds
<1> QED
  BY <1>1, FS_Subset, FS_CardinalityType

LEMMA Fewer ==
  ASSUME NEW T, IsFiniteSet(T), NEW U \in SUBSET T
  PROVE  Cardinality(U) <= Cardinality(T)
BY FS_Subset

LEMMA SessionTypes ==
  ASSUME PLTypeOK, NEW k \in PlSessions
  PROVE  /\ plSession[k].doing \in {"idle", "create", "cancel", "use", "expire"}
         /\ plSession[k].lock \in 0..PlMaxLocks
         /\ ~PlDoing(k, "idle") /\ ~PlDoing(k, "create") => plSession[k].lock \in PlIds
BY PriceLocksAssumption DEF PLTypeOK, PlIds

\* A request that moves on changes what is counted by itself alone.
LEMMA PlSessionMoves ==
  ASSUME PLTypeOK, NEW k \in PlSessions,
         NEW what \in {"idle", "create", "cancel", "use", "expire"},
         NEW n \in 0..PlMaxLocks, n = 0 <=> what \in {"idle", "create"},
         plSession' = [plSession EXCEPT ![k] = [doing |-> what, lock |-> n]]
  PROVE  /\ plSession' \in [PlSessions ->
              [doing : {"idle", "create", "cancel", "use", "expire"}, lock : 0..PlMaxLocks]]
         /\ \A j \in PlSessions :
              plSession'[j].lock = 0 <=> PlDoing(j, "idle")' \/ PlDoing(j, "create")'
         /\ what # "create" => Creating' = Creating \ {k} /\ Creating' \subseteq Creating
         /\ \A l \in PlIds : what # "use" \/ n # l =>
              Using(l)' = Using(l) \ {k} /\ Using(l)' \subseteq Using(l)
<1>1. /\ plSession'[k].doing = what /\ plSession'[k].lock = n
      /\ \A j \in PlSessions \ {k} : plSession'[j] = plSession[j]
      /\ plSession' \in [PlSessions ->
           [doing : {"idle", "create", "cancel", "use", "expire"}, lock : 0..PlMaxLocks]]
  BY DEF PLTypeOK
<1>2. \A j \in PlSessions :
        plSession'[j].lock = 0 <=> PlDoing(j, "idle")' \/ PlDoing(j, "create")'
  BY <1>1 DEF PLTypeOK, PlDoing
<1>3. what # "create" => Creating' = Creating \ {k}
  BY <1>1 DEF Creating, PlDoing
<1>4. ASSUME NEW l \in PlIds, what # "use" \/ n # l
      PROVE  Using(l)' = Using(l) \ {k}
  BY <1>1, <1>4 DEF Using, PlDoing
<1>5. \A S, T : S = T \ {k} => S \subseteq T
  OBVIOUS
<1> QED
  BY <1>1, <1>2, <1>3, <1>4, <1>5

\* --- Steps that disturb a part of the invariant in the same way ---
LEMMA ActiveKept ==
  ASSUME ActiveInv, PlActive' \subseteq PlActive, Creating' \subseteq Creating
  PROVE  ActiveInv'
<1>1. /\ PlActive \in SUBSET PlIds /\ Creating \in SUBSET PlSessions
      /\ PlActive' \in SUBSET PlIds /\ Creating' \in SUBSET PlSessions
  BY DEF PlActive, Creating
<1>2. /\ Cardinality(PlActive') <= Cardinality(PlActive)
      /\ Cardinality(Creating') <= Cardinality(Creating)
  BY <1>1, Locks, PlRequests, Fewer
<1>3. Cardinality(PlActive') + Cardinality(Creating') <= PlAll
  BY <1>1, <1>2, Locks, PlRequests DEF ActiveInv
<1> QED
  BY <1>3 DEF ActiveInv, PlAll

LEMMA UsesKept ==
  ASSUME PLTypeOK, UsesInv, plUses' = plUses,
         \A l \in PlIds : Using(l)' \subseteq Using(l),
         \A l \in PlIds : plStatus'[l] \in {"none", "active"} =>
                            plStatus[l] \in {"none", "active"}
  PROVE  UsesInv'
<1> SUFFICES ASSUME NEW l \in PlIds
             PROVE  /\ plUses'[l] + Cardinality(Using(l)') <= PlAll
                    /\ plStatus'[l] \in {"none", "active"} => plUses'[l] = 0
  BY DEF UsesInv, PlAll
<1>1. Using(l) \in SUBSET PlSessions /\ Using(l)' \in SUBSET Using(l)
  BY DEF Using
<1>2. /\ Cardinality(Using(l)') \in Nat /\ Cardinality(Using(l)) \in Nat /\ PlAll \in Nat
      /\ Cardinality(Using(l)') <= Cardinality(Using(l)) /\ plUses[l] \in Nat
  BY <1>1, PlRequests, Fewer DEF PLTypeOK
<1> QED
  BY <1>2 DEF UsesInv

\* --- The invariant ---
LEMMA PlInitIInv == PLInit => PlIInv
<1> SUFFICES ASSUME PLInit PROVE PlIInv
  OBVIOUS
<1>1. PLTypeOK
  BY PriceLocksAssumption DEF PLInit, PLTypeOK, PlIdle, PlDoing
<1>2. PlActive = {} /\ Creating = {} /\ \A l \in PlIds : Using(l) = {} /\ plUses[l] = 0
  BY DEF PLInit, PlActive, Creating, Using, PlDoing, PlIdle
<1>3. Cardinality({}) = 0 /\ PlAll \in Nat
  BY FS_EmptySet, PlRequests
<1>4. ActiveInv
  BY <1>2, <1>3 DEF ActiveInv
<1>5. UsesInv
  <2>1. \A l \in PlIds : Cardinality(Using(l)) = 0
    BY <1>2, <1>3
  <2> QED
    BY <1>2, <1>3, <2>1 DEF UsesInv
<1> QED
  BY <1>1, <1>4, <1>5 DEF PlIInv

\* A request reads something and remembers it.
LEMMA PlReadStep ==
  ASSUME PlIInv, NEW k \in PlSessions, NEW l \in 0..PlMaxLocks,
         NEW what \in {"create", "cancel", "use", "expire"}, l = 0 <=> what = "create",
         PlRead(k, what, l), what = "create" => PlActive = {},
         what = "use" => plStatus[l] = "active"
  PROVE  PlIInv'
<1> USE DEF PlIInv
<1>1. /\ UNCHANGED <<plStatus, plOverdue, plUses>>
      /\ plSession' = [plSession EXCEPT ![k] = [doing |-> what, lock |-> l]]
      /\ l = 0 <=> what \in {"idle", "create"}
      /\ PlActive' = PlActive
  BY DEF PlRead, PlActive
<1>2. PLTypeOK'
  BY <1>1, PlSessionMoves DEF PLTypeOK
<1>3. ActiveInv'
  <2>1. CASE what = "create"
    <3>1. Creating' \in SUBSET PlSessions /\ Cardinality(PlActive') = 0
      BY <1>1, <2>1, FS_EmptySet DEF Creating
    <3>2. Cardinality(PlActive') + Cardinality(Creating') <= PlAll
      BY <3>1, PlRequests
    <3> QED
      BY <3>2 DEF ActiveInv, PlAll
  <2>2. CASE what # "create"
    <3>1. Creating' \subseteq Creating
      BY <1>1, <2>2, PlSessionMoves
    <3> QED
      BY <1>1, <3>1, ActiveKept
  <2> QED
    BY <2>1, <2>2
<1>4. UsesInv'
  <2>1. CASE what # "use"
    <3>1. \A m \in PlIds : Using(m)' \subseteq Using(m)
      BY <1>1, <2>1, PlSessionMoves
    <3> QED
      BY <1>1, <3>1, UsesKept
  <2>2. CASE what = "use"
    <3> SUFFICES ASSUME NEW m \in PlIds
                 PROVE  /\ plUses'[m] + Cardinality(Using(m)') <= PlAll
                        /\ plStatus'[m] \in {"none", "active"} => plUses'[m] = 0
      BY DEF UsesInv, PlAll
    <3>1. Using(m) \in SUBSET PlSessions /\ Using(m)' \in SUBSET PlSessions
      BY DEF Using
    <3>2. CASE m = l
      <4>1. plUses[m] = 0
        BY <2>2, <3>2 DEF UsesInv
      <4> QED
        BY <1>1, <3>1, <4>1, PlRequests
    <3>3. CASE m # l
      <4>1. Using(m)' \subseteq Using(m)
        BY <1>1, <3>3, PlSessionMoves
      <4>2. /\ Cardinality(Using(m)') \in Nat /\ Cardinality(Using(m)) \in Nat
            /\ Cardinality(Using(m)') <= Cardinality(Using(m)) /\ plUses[m] \in Nat
            /\ PlAll \in Nat
        BY <3>1, <4>1, PlRequests, Fewer DEF PLTypeOK
      <4> QED
        BY <1>1, <4>2 DEF UsesInv
    <3> QED
      BY <3>2, <3>3
  <2> QED
    BY <2>1, <2>2
<1> QED
  BY <1>2, <1>3, <1>4

\* A request ends a lock it has read: whatever it was, it is not active now.
LEMMA EndStep ==
  ASSUME PlIInv, NEW k \in PlSessions, NEW l \in PlIds,
         NEW status \in {"used", "expired", "cancelled"}, PlWrite(k, l, status)
  PROVE  /\ PLTypeOK' \/ plUses' \notin [PlIds -> Nat]
         /\ ActiveInv'
         /\ \A m \in PlIds : Using(m)' = Using(m) \ {k}
         /\ plStatus'[l] = status
         /\ \A m \in PlIds \ {l} : plStatus'[m] = plStatus[m]
<1> USE DEF PlIInv
<1>1. /\ plStatus' = [plStatus EXCEPT ![l] = status] /\ plOverdue' = plOverdue
      /\ plSession' = [plSession EXCEPT ![k] = [doing |-> "idle", lock |-> 0]]
  BY DEF PlWrite, PlIdle
<1>2. 0 \in 0..PlMaxLocks
  BY PriceLocksAssumption
<1>3. plStatus'[l] = status /\ \A m \in PlIds \ {l} : plStatus'[m] = plStatus[m]
  BY <1>1 DEF PLTypeOK
<1>4. \A m \in PlIds : Using(m)' = Using(m) \ {k}
  BY <1>1, <1>2, PlSessionMoves
<1>5. ActiveInv'
  <2>1. Creating' \subseteq Creating
    BY <1>1, <1>2, PlSessionMoves
  <2>2. PlActive' \subseteq PlActive
    BY <1>3 DEF PlActive
  <2> QED
    BY <2>1, <2>2, ActiveKept
<1>6. PLTypeOK' \/ plUses' \notin [PlIds -> Nat]
  BY <1>1, <1>2, PlSessionMoves DEF PLTypeOK
<1> QED
  BY <1>3, <1>4, <1>5, <1>6

LEMMA CreateStep ==
  ASSUME PlIInv, NEW k \in PlSessions, PLCreate(k)
  PROVE  PlIInv'
<1> USE DEF PlIInv
<1>1. PICK l \in PlIds : plStatus[l] = "none" /\ PlWrite(k, l, "active")
  BY Zenon DEF PLCreate
<1>2. /\ plStatus' = [plStatus EXCEPT ![l] = "active"] /\ plOverdue' = plOverdue
      /\ plSession' = [plSession EXCEPT ![k] = [doing |-> "idle", lock |-> 0]]
  BY <1>1 DEF PlWrite, PlIdle
<1>. plUses' = plUses /\ k \in Creating
  BY DEF PLCreate, Creating
<1>. 0 \in 0..PlMaxLocks
  BY PriceLocksAssumption
<1>3. plStatus'[l] = "active" /\ \A m \in PlIds \ {l} : plStatus'[m] = plStatus[m]
  BY <1>2 DEF PLTypeOK
<1>4. PLTypeOK'
  BY <1>2, PlSessionMoves DEF PLTypeOK
<1>5. ActiveInv'
  <2>1. PlActive' = PlActive \cup {l} /\ l \notin PlActive
    BY <1>1, <1>3 DEF PlActive
  <2>2. Creating' = Creating \ {k}
    BY <1>2, PlSessionMoves
  <2>3. /\ PlActive \in SUBSET PlIds /\ Creating \in SUBSET PlSessions
        /\ IsFiniteSet(PlActive) /\ IsFiniteSet(Creating)
        /\ Cardinality(PlActive) \in Nat /\ Cardinality(Creating) \in Nat
    BY Locks, PlRequests DEF PlActive, Creating
  <2>4. /\ Cardinality(PlActive') = Cardinality(PlActive) + 1
        /\ Cardinality(Creating') = Cardinality(Creating) - 1
    BY <1>2, <2>1, <2>2, <2>3, FS_AddElement, FS_RemoveElement
  <2>5. Cardinality(PlActive') + Cardinality(Creating') <= PlAll
    BY <2>3, <2>4, PlRequests DEF ActiveInv
  <2> QED
    BY <2>5 DEF ActiveInv, PlAll
<1>6. UsesInv'
  <2>1. \A m \in PlIds : Using(m)' \subseteq Using(m)
    BY <1>2, PlSessionMoves
  <2>2. \A m \in PlIds : plStatus'[m] \in {"none", "active"} =>
                           plStatus[m] \in {"none", "active"}
    BY <1>1, <1>3
  <2> QED
    BY <1>2, <2>1, <2>2, UsesKept
<1> QED
  BY <1>4, <1>5, <1>6

LEMMA UseStep ==
  ASSUME PlIInv, NEW k \in PlSessions, PLUse(k)
  PROVE  PlIInv'
<1> USE DEF PlIInv
<1> DEFINE l == plSession[k].lock
<1>1. /\ PlWrite(k, l, "used") /\ l \in PlIds /\ PlDoing(k, "use")
      /\ plUses' = [plUses EXCEPT ![l] = plUses[l] + 1]
  BY SessionTypes DEF PLUse, PlDoing
<1>2. k \in Using(l)
  BY <1>1 DEF Using
<1> HIDE DEF l
<1>3. /\ plUses' \in [PlIds -> Nat] /\ plUses'[l] = plUses[l] + 1
      /\ \A m \in PlIds \ {l} : plUses'[m] = plUses[m]
  BY <1>1 DEF PLTypeOK
<1>4. PLTypeOK' /\ ActiveInv'
  BY <1>1, <1>3, EndStep
<1>5. /\ \A m \in PlIds : Using(m)' = Using(m) \ {k}
      /\ plStatus'[l] = "used"
      /\ \A m \in PlIds \ {l} : plStatus'[m] = plStatus[m]
  BY <1>1, EndStep
<1>6. UsesInv'
  <2> SUFFICES ASSUME NEW m \in PlIds
               PROVE  /\ plUses'[m] + Cardinality(Using(m)') <= PlAll
                      /\ plStatus'[m] \in {"none", "active"} => plUses'[m] = 0
    BY DEF UsesInv, PlAll
  <2>1. /\ Using(m) \in SUBSET PlSessions /\ Using(m)' \in SUBSET Using(m)
        /\ Using(m)' = Using(m) \ {k}
    BY <1>5 DEF Using
  <2>2. /\ IsFiniteSet(Using(m)) /\ Cardinality(Using(m)) \in Nat /\ PlAll \in Nat
        /\ Cardinality(Using(m)') \in Nat /\ plUses[m] \in Nat
    BY <2>1, PlRequests DEF PLTypeOK
  <2>3. CASE m = l
    <3>1. Cardinality(Using(m) \ {k}) = Cardinality(Using(m)) - 1
      BY <1>2, <2>2, <2>3, FS_RemoveElement
    <3>2. Cardinality(Using(m)') = Cardinality(Using(m)) - 1
      BY <2>1, <3>1
    <3> QED
      BY <1>3, <1>5, <2>2, <2>3, <3>2 DEF UsesInv
  <2>4. CASE m # l
    <3>1. Cardinality(Using(m)') <= Cardinality(Using(m))
      BY <2>1, <2>2, Fewer
    <3> QED
      BY <1>3, <1>5, <2>2, <2>4, <3>1 DEF UsesInv
  <2> QED
    BY <2>3, <2>4
<1> QED
  BY <1>4, <1>6

\* A lock is cancelled or expired by the request that read it.
LEMMA DropStep ==
  ASSUME PlIInv, NEW k \in PlSessions, NEW l \in PlIds,
         NEW status \in {"expired", "cancelled"}, PlWrite(k, l, status),
         UNCHANGED plUses
  PROVE  PlIInv'
<1> USE DEF PlIInv
<1>1. PLTypeOK' /\ ActiveInv'
  BY EndStep DEF PLTypeOK
<1>2. \A m \in PlIds : Using(m)' \subseteq Using(m)
  BY EndStep
<1>3. plStatus'[l] = status /\ \A m \in PlIds \ {l} : plStatus'[m] = plStatus[m]
  BY EndStep
<1>4. \A m \in PlIds : plStatus'[m] \in {"none", "active"} =>
                         plStatus[m] \in {"none", "active"}
  BY <1>3
<1>5. UsesInv'
  BY <1>2, <1>4, UsesKept
<1> QED
  BY <1>1, <1>5

\* The locks change or not, no request moves.
LEMMA ClockStep ==
  ASSUME PlIInv, plOverdue' \subseteq PlIds, plSession' = plSession, plUses' = plUses,
         plStatus' \in [PlIds -> {"none", "active", "used", "expired", "cancelled"}],
         \A l \in PlIds : plStatus'[l] # plStatus[l] => plStatus'[l] = "expired"
  PROVE  PlIInv'
<1> USE DEF PlIInv
<1>1. PLTypeOK'
  BY DEF PLTypeOK, PlDoing
<1>2. Creating' = Creating /\ \A l \in PlIds : Using(l)' = Using(l)
  BY DEF Creating, Using, PlDoing
<1>3. PlActive' \subseteq PlActive
  BY DEF PlActive
<1>4. ActiveInv'
  BY <1>2, <1>3, ActiveKept
<1>5. UsesInv'
  BY <1>2, UsesKept
<1> QED
  BY <1>1, <1>4, <1>5

LEMMA PlNextIInv == PlIInv /\ [PLNext]_plVars => PlIInv'
<1> SUFFICES ASSUME PlIInv, [PLNext]_plVars PROVE PlIInv'
  OBVIOUS
<1> PLTypeOK
  BY DEF PlIInv
<1> 0 \in 0..PlMaxLocks /\ \A l \in PlIds : l \in 0..PlMaxLocks /\ l # 0
  BY PriceLocksAssumption DEF PlIds
<1>1. ASSUME NEW k \in PlSessions, PLReadToCreate(k) PROVE PlIInv'
  BY <1>1, PlReadStep DEF PLReadToCreate, PlNone
<1>2. ASSUME NEW k \in PlSessions, NEW l \in PlIds,
             PLReadToCancel(k, l) \/ PLReadToUse(k, l) \/ PLReadOverdue(k, l)
      PROVE  PlIInv'
  <2>1. CASE PLReadToCancel(k, l)
    BY <2>1, PlReadStep DEF PLReadToCancel
  <2>2. CASE PLReadToUse(k, l)
    BY <2>2, PlReadStep DEF PLReadToUse, PlUsable, PlActive
  <2>3. CASE PLReadOverdue(k, l)
    BY <2>3, PlReadStep DEF PLReadOverdue
  <2> QED
    BY <1>2, <2>1, <2>2, <2>3
<1>3. ASSUME NEW k \in PlSessions, PLCreate(k) PROVE PlIInv'
  BY <1>3, CreateStep
<1>4. ASSUME NEW k \in PlSessions, PLUse(k) PROVE PlIInv'
  BY <1>4, UseStep
<1>5. ASSUME NEW k \in PlSessions, PLCancel(k) PROVE PlIInv'
  <2>1. plSession[k].lock \in PlIds
    BY <1>5, SessionTypes DEF PLCancel, PlDoing
  <2> QED
    BY <1>5, <2>1, DropStep DEF PLCancel
<1>6. ASSUME NEW k \in PlSessions, PLExpire(k) PROVE PlIInv'
  <2>1. plSession[k].lock \in PlIds
    BY <1>6, SessionTypes DEF PLExpire, PlDoing
  <2> QED
    BY <1>6, <2>1, DropStep DEF PLExpire
<1>7. ASSUME NEW k \in PlSessions, PLAbort(k) PROVE PlIInv'
  <2>1. /\ plSession' = [plSession EXCEPT ![k] = [doing |-> "idle", lock |-> 0]]
        /\ UNCHANGED <<plStatus, plOverdue, plUses>>
    BY <1>7 DEF PLAbort, PlIdle
  <2>2. /\ Creating' \subseteq Creating
        /\ \A l \in PlIds : Using(l)' \subseteq Using(l)
    BY <2>1, PlSessionMoves
  <2>3. PLTypeOK'
    BY <2>1, PlSessionMoves DEF PLTypeOK
  <2>4. ActiveInv'
    BY <2>1, <2>2, ActiveKept DEF PlIInv, PlActive
  <2>5. UsesInv'
    BY <2>1, <2>2, UsesKept DEF PlIInv
  <2> QED
    BY <2>3, <2>4, <2>5 DEF PlIInv
<1>8. CASE PLExpireOldLocks
  <2>1. /\ plOverdue' \subseteq PlIds /\ plSession' = plSession /\ plUses' = plUses
        /\ plStatus' \in [PlIds -> {"none", "active", "used", "expired", "cancelled"}]
        /\ \A l \in PlIds : plStatus'[l] # plStatus[l] => plStatus'[l] = "expired"
    BY <1>8 DEF PLExpireOldLocks, PLTypeOK
  <2> QED
    BY <2>1, ClockStep
<1>9. CASE PLTimePasses
  BY <1>9, ClockStep DEF PLTimePasses, PLTypeOK, PlActive
<1>10. CASE UNCHANGED plVars
  BY <1>10, ClockStep DEF plVars, PLTypeOK
<1> QED
  BY <1>1, <1>2, <1>3, <1>4, <1>5, <1>6, <1>7, <1>8, <1>9, <1>10 DEF PLNext

LEMMA PlSpecIInv == PLSpec => []PlIInv
BY PlInitIInv, PlNextIInv, PTL DEF PLSpec

\* --- Theorems ---
\* Every state is well typed: a request that ends a lock knows which.
THEOREM LocksTypeCorrect == PLSpec => []PLTypeOK
<1>1. PlIInv => PLTypeOK
  BY DEF PlIInv
<1> QED
  BY <1>1, PlSpecIInv, PTL

LEMMA PlIInvBounds == PlIInv => PLOverrunsBounded
<1> SUFFICES ASSUME PlIInv PROVE PLOverrunsBounded
  OBVIOUS
<1>1. /\ PlActive \in SUBSET PlIds /\ Creating \in SUBSET PlSessions
      /\ \A l \in PlIds : Using(l) \in SUBSET PlSessions
  BY DEF PlActive, Creating, Using
<1>2. Cardinality(PlActive) <= PlAll
  BY <1>1, Locks, PlRequests DEF PlIInv, ActiveInv
<1>3. ASSUME NEW l \in PlIds PROVE plUses[l] <= PlAll
  <2>1. Cardinality(Using(l)) \in Nat /\ PlAll \in Nat /\ plUses[l] \in Nat
    BY <1>1, PlRequests DEF PlIInv, PLTypeOK
  <2> QED
    BY <2>1 DEF PlIInv, UsesInv
<1> QED
  BY <1>2, <1>3 DEF PLOverrunsBounded, PlAll

\* Although neither createPriceLock nor usePriceLock locks what it has looked
\* at, a customer has no more active locks and a lock no more bookings than
\* there are requests at a time.
THEOREM LockOverrunsAreBounded == PLSpec => []PLOverrunsBounded
BY PlIInvBounds, PlSpecIInv, PTL

(***************************************************************************)
(* Vouchers: applyVoucher                                                  *)
(***************************************************************************)

VoAll == Cardinality(VoSessions)
Applying == {k \in VoSessions : VoDoing(k, "apply")}
UsedBy(o) == {d \in voUsage : VoOwner[d] = o}
ApplyingFor(o) == {k \in Applying : VoOwner[voSession[k].booking] = o}

\* What the proofs need to know of the sessions and the rows.
Shapes ==
  /\ voSession = [k \in VoSessions |-> voSession[k]]
  /\ IsFiniteSet(voUsage)

\* The count is the number of rows; those who read it below the limit may each
\* still add one.
CountInv ==
  /\ voCount = Cardinality(voUsage)
  /\ voCount + Cardinality(Applying) <= VoMaxUses + VoAll - 1

\* A customer had no use when a request read; whoever read it may add one.
CustomerInv == \A o : Cardinality(UsedBy(o)) + Cardinality(ApplyingFor(o)) <= VoAll

VoIInv == Shapes /\ CountInv /\ CustomerInv

\* --- Counting ---
LEMMA VoRequests ==
  ASSUME NEW T \in SUBSET VoSessions
  PROVE  /\ IsFiniteSet(T) /\ Cardinality(T) \in Nat
         /\ VoAll \in Nat /\ Cardinality(T) <= VoAll
BY VouchersAssumption, FS_Subset, FS_CardinalityType DEF VoAll

LEMMA Uses ==
  ASSUME Shapes, NEW o
  PROVE  /\ IsFiniteSet(UsedBy(o)) /\ Cardinality(UsedBy(o)) \in Nat
         /\ Cardinality(voUsage) \in Nat
BY FS_Subset, FS_CardinalityType DEF Shapes, UsedBy

\* A request that moves on changes what is counted by itself alone.
LEMMA VoSessionMoves ==
  ASSUME Shapes, NEW k \in VoSessions, NEW s, VoSet(k, s)
  PROVE  /\ voSession' = [j \in VoSessions |-> voSession'[j]]
         /\ voSession'[k] = s
         /\ \A j \in VoSessions \ {k} : voSession'[j] = voSession[j]
         /\ s.doing # "apply" => Applying' = Applying \ {k}
         /\ s.doing # "apply" => \A o : ApplyingFor(o)' = ApplyingFor(o) \ {k}
<1>1. /\ voSession' = [j \in VoSessions |-> voSession'[j]]
      /\ voSession'[k] = s
      /\ \A j \in VoSessions \ {k} : voSession'[j] = voSession[j]
  BY DEF Shapes, VoSet
<1>2. s.doing # "apply" => Applying' = Applying \ {k}
  BY <1>1 DEF Applying, VoDoing
<1>3. ASSUME s.doing # "apply", NEW o PROVE ApplyingFor(o)' = ApplyingFor(o) \ {k}
  BY <1>1, <1>2, <1>3 DEF ApplyingFor, Applying
<1> QED
  BY <1>1, <1>2, <1>3

\* --- The invariant ---
LEMMA VoInitIInv == VOInit => VoIInv
<1> SUFFICES ASSUME VOInit PROVE VoIInv
  OBVIOUS
<1>1. voUsage = {} /\ voCount = 0 /\ Applying = {}
  BY DEF VOInit, Applying, VoDoing, VoIdle
<1>2. \A o : UsedBy(o) = {} /\ ApplyingFor(o) = {}
  BY <1>1 DEF UsedBy, ApplyingFor
<1>3. IsFiniteSet({}) /\ Cardinality({}) = 0 /\ VoAll \in Nat /\ VoMaxUses \in Nat \ {0}
  BY FS_EmptySet, VoRequests, VouchersAssumption
<1>4. Shapes
  BY <1>1, <1>3 DEF Shapes, VOInit
<1>5. CountInv
  BY <1>1, <1>3 DEF CountInv
<1>6. CustomerInv
  <2>1. \A o : Cardinality(UsedBy(o)) = 0 /\ Cardinality(ApplyingFor(o)) = 0
    BY <1>2, <1>3
  <2> QED
    BY <1>3, <2>1 DEF CustomerInv
<1> QED
  BY <1>4, <1>5, <1>6 DEF VoIInv

\* Nothing is used and nobody is about to who was not before.
LEMMA IdleStep ==
  ASSUME VoIInv, UNCHANGED <<voCount, voUsage>>,
         voSession' = [j \in VoSessions |-> voSession'[j]],
         Applying' \subseteq Applying, \A o : ApplyingFor(o)' \subseteq ApplyingFor(o)
  PROVE  VoIInv'
<1> USE DEF VoIInv
<1>1. Shapes'
  BY DEF Shapes
<1>2. CountInv'
  <2>1. Applying \in SUBSET VoSessions /\ Applying' \in SUBSET VoSessions
    BY DEF Applying
  <2>2. /\ Cardinality(Applying') <= Cardinality(Applying) /\ VoAll \in Nat
        /\ Cardinality(Applying') \in Nat /\ Cardinality(Applying) \in Nat
        /\ voCount \in Nat /\ VoMaxUses \in Nat
    BY <2>1, VoRequests, Fewer, Uses, VouchersAssumption DEF CountInv
  <2>3. voCount' + Cardinality(Applying') <= VoMaxUses + VoAll - 1
    BY <2>2 DEF CountInv
  <2> QED
    BY <2>3 DEF CountInv, VoAll
<1>3. CustomerInv'
  <2> SUFFICES ASSUME NEW o
               PROVE  Cardinality(UsedBy(o)') + Cardinality(ApplyingFor(o)') <= VoAll
    BY DEF CustomerInv, VoAll
  <2>1. /\ ApplyingFor(o) \in SUBSET VoSessions /\ UsedBy(o)' = UsedBy(o)
        /\ ApplyingFor(o)' \in SUBSET ApplyingFor(o)
    BY DEF ApplyingFor, Applying, UsedBy
  <2>2. /\ Cardinality(ApplyingFor(o)') <= Cardinality(ApplyingFor(o))
        /\ Cardinality(ApplyingFor(o)') \in Nat /\ Cardinality(ApplyingFor(o)) \in Nat
        /\ VoAll \in Nat /\ Cardinality(UsedBy(o)) \in Nat
    BY <2>1, VoRequests, Fewer, Uses
  <2> QED
    BY <2>1, <2>2 DEF CustomerInv
<1> QED
  BY <1>1, <1>2, <1>3

LEMMA VoQuietStep ==
  ASSUME VoIInv, NEW k \in VoSessions, NEW s, s.doing # "apply", VoSet(k, s),
         UNCHANGED <<voCount, voUsage>>
  PROVE  VoIInv'
<1>1. /\ voSession' = [j \in VoSessions |-> voSession'[j]]
      /\ Applying' = Applying \ {k}
      /\ \A o : ApplyingFor(o)' = ApplyingFor(o) \ {k}
  BY VoSessionMoves DEF VoIInv
<1>2. Applying' \subseteq Applying /\ \A o : ApplyingFor(o)' \subseteq ApplyingFor(o)
  BY <1>1
<1> QED
  BY <1>1, <1>2, IdleStep

\* The voucher was found active, with a use left, and unused by the customer.
LEMMA VoReadStep ==
  ASSUME VoIInv, NEW k \in VoSessions, NEW b \in VoBookings, VORead(k, b)
  PROVE  VoIInv'
<1> USE DEF VoIInv
<1> DEFINE s == [doing |-> "apply", booking |-> b, count |-> voCount]
<1>1. /\ VoSet(k, s) /\ voCount < VoMaxUses /\ UNCHANGED <<voCount, voUsage>>
      /\ UsedBy(VoOwner[b]) = {}
  BY DEF VORead, VoLeft, VoUnused, UsedBy
<1>2. s.booking = b
  OBVIOUS
<1> HIDE DEF s
<1>3. /\ voSession' = [j \in VoSessions |-> voSession'[j]]
      /\ voSession'[k] = s /\ \A j \in VoSessions \ {k} : voSession'[j] = voSession[j]
  BY <1>1, VoSessionMoves
<1>4. Shapes'
  BY <1>1, <1>3 DEF Shapes
<1>5. CountInv'
  <2>1. Applying' \in SUBSET VoSessions
    BY DEF Applying
  <2>2. /\ Cardinality(Applying') \in Nat /\ VoAll \in Nat /\ VoMaxUses \in Nat
        /\ Cardinality(Applying') <= VoAll /\ voCount \in Nat
    BY <2>1, VoRequests, Uses, VouchersAssumption DEF CountInv
  <2>3. voCount' + Cardinality(Applying') <= VoMaxUses + VoAll - 1
    BY <1>1, <2>2
  <2> QED
    BY <1>1, <2>3 DEF CountInv, VoAll
<1>6. CustomerInv'
  <2> SUFFICES ASSUME NEW o
               PROVE  Cardinality(UsedBy(o)') + Cardinality(ApplyingFor(o)') <= VoAll
    BY DEF CustomerInv, VoAll
  <2>1. /\ ApplyingFor(o) \in SUBSET VoSessions /\ ApplyingFor(o)' \in SUBSET VoSessions
        /\ UsedBy(o)' = UsedBy(o)
    BY <1>1 DEF ApplyingFor, Applying, UsedBy
  <2>2. CASE o = VoOwner[b]
    <3>1. Cardinality(UsedBy(o)') = 0
      BY <1>1, <2>1, <2>2, FS_EmptySet
    <3> QED
      BY <2>1, <3>1, VoRequests
  <2>3. CASE o # VoOwner[b]
    <3>1. ApplyingFor(o)' \subseteq ApplyingFor(o)
      BY <1>2, <1>3, <2>3 DEF ApplyingFor, Applying, VoDoing
    <3>2. /\ Cardinality(ApplyingFor(o)') <= Cardinality(ApplyingFor(o))
          /\ Cardinality(ApplyingFor(o)') \in Nat /\ Cardinality(ApplyingFor(o)) \in Nat
          /\ VoAll \in Nat /\ Cardinality(UsedBy(o)) \in Nat
      BY <2>1, <3>1, VoRequests, Fewer, Uses
    <3> QED
      BY <2>1, <3>2 DEF CustomerInv
  <2> QED
    BY <2>2, <2>3
<1> QED
  BY <1>4, <1>5, <1>6

\* A row is added for a booking that had none.
LEMMA ApplyStep ==
  ASSUME VoIInv, NEW k \in VoSessions, VOApply(k), voSession[k].booking \notin voUsage
  PROVE  VoIInv'
<1> USE DEF VoIInv
<1> DEFINE b == voSession[k].booking
<1>1. /\ k \in Applying /\ VoSet(k, VoIdle) /\ VoIdle.doing # "apply"
      /\ voUsage' = voUsage \cup {b} /\ voCount' = voCount + 1 /\ b \notin voUsage
  BY DEF VOApply, Applying, VoNewCount, VoIdle
<1>2. k \in ApplyingFor(VoOwner[b])
  BY <1>1 DEF ApplyingFor
<1> HIDE DEF b
<1>3. /\ voSession' = [j \in VoSessions |-> voSession'[j]]
      /\ Applying' = Applying \ {k}
      /\ \A o : ApplyingFor(o)' = ApplyingFor(o) \ {k}
  BY <1>1, VoSessionMoves
<1>4. /\ IsFiniteSet(voUsage') /\ Cardinality(voUsage') = Cardinality(voUsage) + 1
      /\ Cardinality(voUsage) \in Nat
  BY <1>1, Uses, FS_AddElement DEF Shapes
<1>5. Shapes'
  BY <1>3, <1>4 DEF Shapes
<1>6. CountInv'
  <2>1. Applying \in SUBSET VoSessions
    BY DEF Applying
  <2>2. IsFiniteSet(Applying) /\ Cardinality(Applying) \in Nat /\ VoAll \in Nat
    BY <2>1, VoRequests
  <2>3. Cardinality(Applying \ {k}) = Cardinality(Applying) - 1
    BY <1>1, <2>2, FS_RemoveElement
  <2>4. voCount' + Cardinality(Applying') <= VoMaxUses + VoAll - 1
    BY <1>1, <1>3, <1>4, <2>2, <2>3, VouchersAssumption DEF CountInv
  <2>5. voCount' = Cardinality(voUsage')
    BY <1>1, <1>4 DEF CountInv
  <2> QED
    BY <2>4, <2>5 DEF CountInv, VoAll
<1>7. CustomerInv'
  <2> SUFFICES ASSUME NEW o
               PROVE  Cardinality(UsedBy(o)') + Cardinality(ApplyingFor(o)') <= VoAll
    BY DEF CustomerInv, VoAll
  <2>1. ApplyingFor(o) \in SUBSET VoSessions /\ ApplyingFor(o) \ {k} \in SUBSET ApplyingFor(o)
    BY DEF ApplyingFor, Applying
  <2>2. /\ IsFiniteSet(ApplyingFor(o)) /\ Cardinality(ApplyingFor(o)) \in Nat
        /\ Cardinality(ApplyingFor(o) \ {k}) \in Nat /\ VoAll \in Nat
        /\ IsFiniteSet(UsedBy(o)) /\ Cardinality(UsedBy(o)) \in Nat
    BY <2>1, VoRequests, Uses
  <2>3. ApplyingFor(o)' = ApplyingFor(o) \ {k}
    BY <1>3
  <2>4. CASE o = VoOwner[b]
    <3>1. UsedBy(o)' = UsedBy(o) \cup {b} /\ b \notin UsedBy(o)
      BY <1>1, <2>4 DEF UsedBy
    <3>2. Cardinality(UsedBy(o) \cup {b}) = Cardinality(UsedBy(o)) + 1
      BY <2>2, <3>1, FS_AddElement
    <3>3. Cardinality(ApplyingFor(o) \ {k}) = Cardinality(ApplyingFor(o)) - 1
      BY <1>2, <2>2, <2>4, FS_RemoveElement
    <3>4. Cardinality(UsedBy(o)) + Cardinality(ApplyingFor(o)) <= VoAll
      BY DEF CustomerInv
    <3> QED
      BY <2>2, <2>3, <3>1, <3>2, <3>3, <3>4
  <2>5. CASE o # VoOwner[b]
    <3>1. UsedBy(o)' = UsedBy(o)
      BY <1>1, <2>5 DEF UsedBy
    <3>2. Cardinality(ApplyingFor(o) \ {k}) <= Cardinality(ApplyingFor(o))
      BY <2>1, <2>2, Fewer
    <3>3. Cardinality(UsedBy(o)) + Cardinality(ApplyingFor(o)) <= VoAll
      BY DEF CustomerInv
    <3> QED
      BY <2>2, <2>3, <3>1, <3>2, <3>3
  <2> QED
    BY <2>4, <2>5
<1> QED
  BY <1>5, <1>6, <1>7

LEMMA VoNextIInv == VoIInv /\ [VONext]_voVars => VoIInv'
<1> SUFFICES ASSUME VoIInv, [VONext]_voVars PROVE VoIInv'
  OBVIOUS
<1>1. ASSUME NEW k \in VoSessions, NEW b \in VoBookings, VORead(k, b) PROVE VoIInv'
  BY <1>1, VoReadStep
<1>2. ASSUME NEW k \in VoSessions, VOApply(k) PROVE VoIInv'
  <2>1. CASE voSession[k].booking \in voUsage
    BY <1>2, <2>1, VoQuietStep DEF VOApply, VoIdle
  <2>2. CASE voSession[k].booking \notin voUsage
    BY <1>2, <2>2, ApplyStep
  <2> QED
    BY <2>1, <2>2
<1>3. ASSUME NEW k \in VoSessions, NEW n \in VoAsked, VOReadCredits(k, n) PROVE VoIInv'
  <2> DEFINE s == [doing |-> "use", take |-> VoTake(n, VoUsable), seen |-> voUsed]
  <2>1. s.doing # "apply"
    OBVIOUS
  <2>2. VoSet(k, s) /\ UNCHANGED <<voCount, voUsage>>
    BY <1>3 DEF VOReadCredits
  <2> HIDE DEF s
  <2> QED
    BY <2>1, <2>2, VoQuietStep
<1>4. ASSUME NEW k \in VoSessions, VOUse(k) PROVE VoIInv'
  BY <1>4, VoQuietStep DEF VOUse, VoIdle
<1>5. ASSUME NEW k \in VoSessions, VOFindExpired(k) PROVE VoIInv'
  <2> DEFINE s == [doing |-> "expire", credits |-> {c \in voLapsed : VoFree(c) > 0}]
  <2>1. s.doing # "apply"
    OBVIOUS
  <2>2. VoSet(k, s) /\ UNCHANGED <<voCount, voUsage>>
    BY <1>5 DEF VOFindExpired
  <2> HIDE DEF s
  <2> QED
    BY <2>1, <2>2, VoQuietStep
<1>6. ASSUME NEW k \in VoSessions, VOExpireCredits(k) PROVE VoIInv'
  <2>1. PICK c \in voSession[k].credits :
          VoSet(k, IF voSession[k].credits = {c} THEN VoIdle
                   ELSE [doing |-> "expire", credits |-> voSession[k].credits \ {c}])
    BY <1>6 DEF VOExpireCredits
  <2> DEFINE s == IF voSession[k].credits = {c} THEN VoIdle
                  ELSE [doing |-> "expire", credits |-> voSession[k].credits \ {c}]
  <2>2. s.doing # "apply"
    BY DEF VoIdle
  <2>3. VoSet(k, s) /\ UNCHANGED <<voCount, voUsage>>
    BY <1>6, <2>1 DEF VOExpireCredits
  <2> HIDE DEF s
  <2> QED
    BY <2>2, <2>3, VoQuietStep
<1>7. ASSUME NEW k \in VoSessions, VOFail(k) PROVE VoIInv'
  BY <1>7, VoQuietStep DEF VOFail, VoIdle
<1>8. ASSUME UNCHANGED <<voCount, voUsage, voSession>> PROVE VoIInv'
  <2>1. Applying' = Applying /\ \A o : ApplyingFor(o)' = ApplyingFor(o)
    BY <1>8 DEF Applying, ApplyingFor, VoDoing
  <2>2. voSession' = [j \in VoSessions |-> voSession'[j]]
    BY <1>8 DEF VoIInv, Shapes
  <2> QED
    BY <1>8, <2>1, <2>2, IdleStep
<1>9. CASE VODeactivate
  BY <1>8, <1>9 DEF VODeactivate
<1>10. ASSUME NEW c \in VoIds, VOLapse(c) PROVE VoIInv'
  BY <1>8, <1>10 DEF VOLapse
<1>11. CASE UNCHANGED voVars
  BY <1>8, <1>11 DEF voVars
<1> QED
  BY <1>1, <1>2, <1>3, <1>4, <1>5, <1>6, <1>7, <1>9, <1>10, <1>11 DEF VONext

LEMMA VoSpecIInv == VOSpec => []VoIInv
BY VoInitIInv, VoNextIInv, PTL DEF VOSpec

\* --- The theorem ---
LEMMA VoIInvBounds == VoIInv => VOUsesBounded
<1> SUFFICES ASSUME VoIInv PROVE VOUsesBounded
  OBVIOUS
<1> USE DEF VoIInv
<1>1. Applying \in SUBSET VoSessions /\ \A o : ApplyingFor(o) \in SUBSET VoSessions
  BY DEF Applying, ApplyingFor
<1>2. /\ Cardinality(Applying) \in Nat /\ VoAll \in Nat /\ VoMaxUses \in Nat
      /\ voCount \in Nat
  BY <1>1, VoRequests, Uses, VouchersAssumption DEF CountInv
<1>3. voCount <= VoMaxUses + VoAll - 1
  BY <1>2 DEF CountInv
<1>4. ASSUME NEW b \in voUsage PROVE Cardinality(UsedBy(VoOwner[b])) <= VoAll
  <2>1. /\ Cardinality(UsedBy(VoOwner[b])) \in Nat
        /\ Cardinality(ApplyingFor(VoOwner[b])) \in Nat
    BY <1>1, Uses, VoRequests
  <2> QED
    BY <1>2, <2>1 DEF CustomerInv
<1> QED
  BY <1>3, <1>4 DEF VOUsesBounded, CountInv, UsedBy, VoAll

\* The count of a voucher is the number of its rows, and although applyVoucher
\* locks nothing the limit and the one use of a customer are passed by no more
\* than the requests at a time.
THEOREM UsesAreBounded == VOSpec => []VOUsesBounded
BY VoIInvBounds, VoSpecIInv, PTL

(***************************************************************************)
(* Credits: useCredit and processExpiredCredits                            *)
(***************************************************************************)
CreditSums == [VoIds -> Nat]
CreditTakes == UNION {[C -> Nat] : C \in SUBSET VoIds}
CreditCall ==
  [doing : {"idle"}] \cup [doing : {"apply"}, booking : VoBookings, count : Nat]
  \cup [doing : {"use"}, take : CreditTakes, seen : CreditSums]
  \cup [doing : {"expire"}, credits : SUBSET VoIds]

CreditTyped ==
  /\ voSession \in [VoSessions -> CreditCall]
  /\ voUsed \in CreditSums /\ voSpent \in CreditSums /\ voLapsed \subseteq VoIds
  /\ voActive \in BOOLEAN /\ voLost \in BOOLEAN /\ voOps \in 0..VoMaxOps
  /\ voCount \in Nat /\ voUsage \subseteq VoBookings

\* What a request is to take of a credit fits in what it saw of it.
CreditFits(req) ==
  req.doing = "use" =>
    \A c \in DOMAIN req.take : req.seen[c] + req.take[c] <= VoAmount[c]
CreditCalls == \A k \in VoSessions : CreditFits(voSession[k])

CreditInv == CreditTyped /\ CreditCalls /\ VOCreditCovers

LEMMA CreditAmounts ==
  /\ \A c \in VoIds : VoAmount[c] \in Nat /\ VoAmount[c] > 0
  /\ IsFiniteSet(VoIds) /\ VoMaxOps \in Nat /\ \A n \in VoAsked : n \in Nat
<1>1. VoAmount \in [VoIds -> Nat \ {0}] /\ VoMaxOps \in Nat /\ VoAsked \subseteq Nat \ {0}
  BY VouchersAssumption DEF VoIds
<1>2. IsFiniteSet(VoIds)
  <2>1. VoCredits \in Seq(ToSet(VoCredits))
    BY VouchersAssumption DEF ToSet
  <2>2. IsFiniteSet(DOMAIN VoCredits)
    BY <2>1, FS_Interval
  <2>3. IsFiniteSet({VoCredits[i] : i \in DOMAIN VoCredits})
    BY <2>2, ImageFinite
  <2> QED
    BY <2>3 DEF VoIds, ToSet
<1> QED
  BY <1>1, <1>2

LEMMA CreditInvImplies == CreditInv => VOTypeOK /\ VOCreditCovers
BY DEF CreditInv, CreditTyped, CreditSums, VOTypeOK

LEMMA CreditInit == VOInit => CreditInv
<1> SUFFICES ASSUME VOInit PROVE CreditInv
  OBVIOUS
<1>1. [doing |-> "idle"] \in CreditCall
  BY DEF CreditCall
<1>2. voSession \in [VoSessions -> CreditCall]
  BY <1>1 DEF VOInit, VoIdle
<1>3. CreditTyped
  <2>1. voUsed \in CreditSums /\ voSpent \in CreditSums
    BY DEF VOInit, CreditSums
  <2>2. voLapsed \subseteq VoIds /\ voOps \in 0..VoMaxOps /\ voCount \in Nat /\ voUsage \subseteq VoBookings
    BY CreditAmounts DEF VOInit
  <2>3. voActive \in BOOLEAN /\ voLost \in BOOLEAN
    BY DEF VOInit
  <2> QED
    BY <1>2, <2>1, <2>2, <2>3 DEF CreditTyped
<1>4. CreditCalls
  BY DEF VOInit, VoIdle, CreditCalls, CreditFits
<1>5. VOCreditCovers
  BY CreditAmounts DEF VOInit, VOCreditCovers
<1> QED
  BY <1>3, <1>4, <1>5 DEF CreditInv

\* A request that goes on to something that fits.
LEMMA CreditMoves ==
  ASSUME CreditInv, NEW k \in VoSessions, NEW req \in CreditCall, VoSet(k, req),
         CreditFits(req)
  PROVE  voSession' \in [VoSessions -> CreditCall] /\ CreditCalls'
<1>1. voSession \in [VoSessions -> CreditCall]
  BY DEF CreditInv, CreditTyped
<1>2. /\ voSession' \in [VoSessions -> CreditCall] /\ voSession'[k] = req
      /\ \A j \in VoSessions \ {k} : voSession'[j] = voSession[j]
  <2> HIDE DEF CreditCall
  <2> QED
    BY <1>1 DEF VoSet
<1>3. \A j \in VoSessions : CreditFits(voSession'[j])
  BY <1>2 DEF CreditInv, CreditCalls
<1> QED
  BY <1>2, <1>3 DEF CreditCalls

\* Credits are left alone.
LEMMA CreditQuiet ==
  ASSUME CreditInv, voSession' \in [VoSessions -> CreditCall], CreditCalls',
         UNCHANGED <<voUsed, voSpent, voLost>>,
         voLapsed' \subseteq VoIds, voActive' \in BOOLEAN, voOps' \in 0..VoMaxOps,
         voCount' \in Nat, voUsage' \subseteq VoBookings
  PROVE  CreditInv'
<1>1. CreditTyped'
  <2> HIDE DEF CreditCall
  <2> QED
    BY DEF CreditInv, CreditTyped, CreditSums
<1>2. VOCreditCovers'
  BY DEF CreditInv, VOCreditCovers
<1> QED
  BY <1>1, <1>2 DEF CreditInv

LEMMA CreditIdle == VoIdle \in CreditCall /\ CreditFits(VoIdle)
BY DEF VoIdle, CreditCall, CreditFits

\* What is taken of a credit is not more than is free of it.
LEMMA CreditTake ==
  ASSUME CreditInv, NEW n \in Nat
  PROVE  /\ VoTake(n, VoUsable) \in [VoUsable -> Nat] /\ VoUsable \subseteq VoIds
         /\ \A c \in VoUsable : voUsed[c] + VoTake(n, VoUsable)[c] <= VoAmount[c]
<1>1. VoUsable \subseteq VoIds /\ \A c \in VoUsable : VoFree(c) > 0
  BY DEF VoUsable
<1>2. \A c \in VoIds : voUsed[c] \in Nat /\ VoAmount[c] \in Nat /\ VoFree(c) \in Int
  BY CreditAmounts DEF CreditInv, CreditTyped, CreditSums, VoFree
<1>3. \A T \in SUBSET VoIds : VoFreeIn(T) \in Int
  <2> TAKE T \in SUBSET VoIds
  <2>1. IsFiniteSet(T)
    BY CreditAmounts, FS_Subset
  <2> DEFINE f == [c \in T |-> VoFree(c)]
  <2>2. \A c \in T : f[c] \in Int
    BY <1>2
  <2> HIDE DEF f
  <2>3. SumFunctionOnSet(f, T) \in Int
    BY <2>1, <2>2, SumType
  <2> QED
    BY <2>3 DEF f, VoFreeIn
<1>4. ASSUME NEW c \in VoUsable
      PROVE  VoTake(n, VoUsable)[c] \in Nat /\ VoTake(n, VoUsable)[c] <= VoFree(c)
  <2> DEFINE rest == n - VoFreeIn(VoUsable \cap VoBefore(c))
  <2>1. rest \in Int
    BY <1>1, <1>3
  <2>2. VoFree(c) \in Int /\ VoFree(c) > 0
    BY <1>1, <1>2
  <2>3. VoTake(n, VoUsable)[c] = Min({VoFree(c), Max({0, rest})})
    BY DEF VoTake
  <2> HIDE DEF rest
  <2>4. Max({0, rest}) = IF 0 <= rest THEN rest ELSE 0
    BY <2>1, MaxOfTwo
  <2>5. Max({0, rest}) \in Int /\ Max({0, rest}) >= 0
    BY <2>1, <2>4
  <2>6. PICK m \in Int : m = Max({0, rest})
    BY <2>5
  <2>7. PICK f \in Int : f = VoFree(c)
    BY <2>2
  <2>8. Min({f, m}) = IF f <= m THEN f ELSE m
    BY MinOfTwo
  <2> QED
    BY <2>2, <2>3, <2>5, <2>6, <2>7, <2>8
<1>5. VoTake(n, VoUsable) = [c \in VoUsable |-> VoTake(n, VoUsable)[c]]
  BY DEF VoTake
<1> HIDE DEF VoTake
<1>6. VoTake(n, VoUsable) \in [VoUsable -> Nat]
  BY <1>4, <1>5
<1>7. ASSUME NEW c \in VoUsable PROVE voUsed[c] + VoTake(n, VoUsable)[c] <= VoAmount[c]
  <2>1. voUsed[c] \in Nat /\ VoAmount[c] \in Nat /\ VoFree(c) = VoAmount[c] - voUsed[c]
    BY <1>1, <1>2 DEF VoFree
  <2> QED
    BY <1>4, <2>1
<1> QED
  BY <1>1, <1>6, <1>7

LEMMA CreditReads ==
  ASSUME CreditInv, NEW k \in VoSessions, NEW n \in VoAsked, VOReadCredits(k, n)
  PROVE  CreditInv'
<1> DEFINE req == [doing |-> "use", take |-> VoTake(n, VoUsable), seen |-> voUsed]
<1>1. /\ VoTake(n, VoUsable) \in [VoUsable -> Nat] /\ VoUsable \subseteq VoIds
      /\ \A c \in VoUsable : voUsed[c] + VoTake(n, VoUsable)[c] <= VoAmount[c]
  BY CreditTake, CreditAmounts
<1>2. VoTake(n, VoUsable) \in CreditTakes /\ DOMAIN VoTake(n, VoUsable) = VoUsable
  <2>1. VoUsable \in SUBSET VoIds
    BY <1>1
  <2> QED
    BY <1>1, <2>1 DEF CreditTakes
<1>3. voUsed \in CreditSums
  BY DEF CreditInv, CreditTyped
<1>4. req \in CreditCall /\ CreditFits(req)
  <2> HIDE DEF CreditTakes, CreditSums, VoTake
  <2>1. req \in [doing : {"use"}, take : CreditTakes, seen : CreditSums]
    BY <1>2, <1>3
  <2>2. req \in CreditCall
    BY <2>1 DEF CreditCall
  <2>3. CreditFits(req)
    BY <1>1, <1>2 DEF CreditFits
  <2> QED
    BY <2>2, <2>3
<1>5. VoSet(k, req)
  BY DEF VOReadCredits
<1> HIDE DEF req
<1>6. voSession' \in [VoSessions -> CreditCall] /\ CreditCalls'
  BY <1>4, <1>5, CreditMoves
<1>7. voOps' \in 0..VoMaxOps
  BY CreditAmounts DEF VOReadCredits, CreditInv, CreditTyped
<1>8. /\ UNCHANGED <<voUsed, voSpent, voLost, voLapsed, voActive, voCount, voUsage>>
      /\ voLapsed \subseteq VoIds /\ voActive \in BOOLEAN
      /\ voCount \in Nat /\ voUsage \subseteq VoBookings
  BY DEF VOReadCredits, CreditInv, CreditTyped
<1> QED
  BY <1>6, <1>7, <1>8, CreditQuiet

LEMMA CreditUses ==
  ASSUME CreditInv, NEW k \in VoSessions, VOUse(k)
  PROVE  CreditInv'
<1> DEFINE s == voSession[k]
           C == {c \in DOMAIN s.take : s.take[c] > 0}
<1>1. s.doing = "use" /\ s \in CreditCall /\ CreditFits(s)
  BY DEF VOUse, VoDoing, CreditInv, CreditTyped, CreditCalls
<1>2. s.take \in CreditTakes /\ s.seen \in CreditSums
  BY <1>1 DEF CreditCall
<1>3. /\ DOMAIN s.take \subseteq VoIds /\ \A c \in DOMAIN s.take : s.take[c] \in Nat
      /\ \A c \in VoIds : s.seen[c] \in Nat
  <2>1. PICK T \in SUBSET VoIds : s.take \in [T -> Nat]
    BY <1>2 DEF CreditTakes
  <2> QED
    BY <1>2, <2>1 DEF CreditSums
<1>4. \A c \in DOMAIN s.take : s.seen[c] + s.take[c] <= VoAmount[c]
  BY <1>1 DEF CreditFits
<1>5. /\ voUsed' = VoUsedAfter(s)
      /\ voSpent' = [c \in VoIds |-> IF c \in C THEN voSpent[c] + s.take[c] ELSE voSpent[c]]
      /\ voLost' = (voLost \/ \E c \in C : voUsed[c] # s.seen[c])
      /\ VoSet(k, VoIdle)
      /\ UNCHANGED <<voActive, voCount, voUsage, voLapsed, voOps>>
  BY DEF VOUse
<1>6. \A c \in VoIds : voUsed[c] \in Nat /\ voSpent[c] \in Nat /\ VoAmount[c] \in Nat
  BY CreditAmounts DEF CreditInv, CreditTyped, CreditSums
<1>7. \A c \in VoIds :
        /\ voUsed'[c] = IF c \in C THEN s.seen[c] + s.take[c] ELSE voUsed[c]
        /\ voSpent'[c] = IF c \in C THEN voSpent[c] + s.take[c] ELSE voSpent[c]
  BY <1>5 DEF VoUsedAfter
<1>8. voUsed' \in CreditSums /\ voSpent' \in CreditSums
  <2>1. \A c \in VoIds : voUsed'[c] \in Nat /\ voSpent'[c] \in Nat
    BY <1>3, <1>6, <1>7
  <2>2. voUsed' = [c \in VoIds |-> voUsed'[c]] /\ voSpent' = [c \in VoIds |-> voSpent'[c]]
    BY <1>5 DEF VoUsedAfter
  <2> QED
    BY <2>1, <2>2 DEF CreditSums
<1>9. voLost' \in BOOLEAN
  BY <1>5, Zenon
<1>10. voSession' \in [VoSessions -> CreditCall] /\ CreditCalls'
  BY <1>5, CreditIdle, CreditMoves
<1>11. CreditTyped'
  BY <1>5, <1>8, <1>9, <1>10 DEF CreditInv, CreditTyped
<1>12. ASSUME NEW c \in VoIds
       PROVE  voUsed'[c] <= VoAmount[c] /\ (~voLost' => voSpent'[c] <= voUsed'[c])
  <2>1. voUsed[c] <= VoAmount[c] /\ (~voLost => voSpent[c] <= voUsed[c])
    BY DEF CreditInv, VOCreditCovers
  <2>2. ~voLost' => ~voLost /\ (c \in C => voUsed[c] = s.seen[c])
    BY <1>5, Zenon
  <2>3. CASE c \in C
    <3>1. voUsed'[c] = s.seen[c] + s.take[c] /\ voSpent'[c] = voSpent[c] + s.take[c]
      BY <1>7, <2>3
    <3>2. s.take[c] \in Nat /\ s.seen[c] \in Nat /\ s.seen[c] + s.take[c] <= VoAmount[c]
      BY <1>3, <1>4, <2>3
    <3> HIDE DEF s, C
    <3>3. ASSUME ~voLost' PROVE voSpent'[c] <= voUsed'[c]
      <4>1. voUsed[c] = s.seen[c] /\ voSpent[c] <= voUsed[c]
        BY <2>1, <2>2, <2>3, <3>3
      <4> QED
        BY <1>6, <3>1, <3>2, <4>1
    <3> QED
      BY <3>1, <3>2, <3>3
  <2>4. CASE c \notin C
    BY <1>7, <2>1, <2>2, <2>4
  <2> QED
    BY <2>3, <2>4
<1> QED
  BY <1>10, <1>11, <1>12 DEF CreditInv, VOCreditCovers

\* Expired credits are marked as used up.
LEMMA CreditExpires ==
  ASSUME CreditInv, NEW k \in VoSessions, VOExpireCredits(k)
  PROVE  CreditInv'
<1> DEFINE E == voSession[k].credits
           left(e) == IF E = {e} THEN VoIdle ELSE [doing |-> "expire", credits |-> E \ {e}]
<1>0. voSession[k] \in CreditCall /\ voSession[k].doing = "expire" /\ voUsed \in CreditSums
  BY DEF VOExpireCredits, VoDoing, CreditInv, CreditTyped
<1>8. E \in SUBSET VoIds
  BY <1>0 DEF CreditCall
<1>9. PICK e \in E : voUsed' = [voUsed EXCEPT ![e] = VoAmount[e]] /\ VoSet(k, left(e))
  BY DEF VOExpireCredits
<1>10. left(e) \in CreditCall /\ CreditFits(left(e))
  <2>1. CASE E = {e}
    BY <2>1, CreditIdle
  <2>2. CASE E # {e}
    <3> DEFINE req == [doing |-> "expire", credits |-> E \ {e}]
    <3>1. E \ {e} \in SUBSET VoIds
      BY <1>8
    <3> HIDE DEF E
    <3>2. req \in CreditCall /\ CreditFits(req)
      BY <3>1 DEF CreditCall, CreditFits
    <3> QED
      BY <2>2, <3>2
  <2> QED
    BY <2>1, <2>2
<1> HIDE DEF left
<1>1. voSession' \in [VoSessions -> CreditCall] /\ CreditCalls'
  BY <1>9, <1>10, CreditMoves
<1> HIDE DEF E
<1>2. /\ voUsed' = [c \in VoIds |-> IF c = e THEN VoAmount[c] ELSE voUsed[c]]
      /\ UNCHANGED <<voActive, voCount, voUsage, voSpent, voLapsed, voOps, voLost>>
  BY <1>0, <1>8, <1>9 DEF VOExpireCredits, CreditSums
<1>3. \A c \in VoIds :
        /\ voUsed[c] \in Nat /\ voSpent[c] \in Nat /\ VoAmount[c] \in Nat
        /\ voUsed[c] <= VoAmount[c] /\ (~voLost => voSpent[c] <= voUsed[c])
  BY CreditAmounts DEF CreditInv, CreditTyped, CreditSums, VOCreditCovers
<1>4. voUsed' \in CreditSums
  BY <1>2, <1>3 DEF CreditSums
<1>5. CreditTyped'
  <2> HIDE DEF CreditCall, CreditSums
  <2> QED
    BY <1>1, <1>2, <1>4 DEF CreditInv, CreditTyped
<1>6. ASSUME NEW c \in VoIds
      PROVE  voUsed'[c] <= VoAmount[c] /\ (~voLost => voSpent[c] <= voUsed'[c])
  <2>1. voUsed'[c] = IF c = e THEN VoAmount[c] ELSE voUsed[c]
    BY <1>2
  <2>2. voUsed'[c] >= voUsed[c] /\ voUsed'[c] <= VoAmount[c] /\ voUsed'[c] \in Nat
    BY <1>3, <2>1
  <2>3. ASSUME ~voLost PROVE voSpent[c] <= voUsed'[c]
    <3>1. voSpent[c] <= voUsed[c]
      BY <1>3, <2>3
    <3> QED
      BY <1>3, <2>2, <3>1
  <2> QED
    BY <2>2, <2>3
<1>7. VOCreditCovers'
  BY <1>2, <1>6 DEF VOCreditCovers
<1> QED
  BY <1>1, <1>5, <1>7 DEF CreditInv

\* The other steps of a request write nothing about credits.
LEMMA CreditOthers ==
  ASSUME CreditInv, NEW k \in VoSessions,
         (\E b \in VoBookings : VORead(k, b)) \/ VOApply(k) \/ VOFindExpired(k) \/ VOFail(k)
  PROVE  CreditInv'
<1>1. /\ voCount \in Nat /\ voUsage \subseteq VoBookings /\ voLapsed \subseteq VoIds
      /\ voActive \in BOOLEAN /\ voOps \in 0..VoMaxOps
  BY DEF CreditInv, CreditTyped
<1>2. ASSUME NEW b \in VoBookings, VORead(k, b) PROVE CreditInv'
  <2> DEFINE req == [doing |-> "apply", booking |-> b, count |-> voCount]
  <2>1. req \in CreditCall /\ CreditFits(req)
    BY <1>1 DEF CreditCall, CreditFits
  <2>2. VoSet(k, req)
    BY <1>2 DEF VORead
  <2> HIDE DEF req
  <2>3. voSession' \in [VoSessions -> CreditCall] /\ CreditCalls'
    BY <2>1, <2>2, CreditMoves
  <2>4. UNCHANGED <<voActive, voCount, voUsage, voUsed, voSpent, voLapsed, voOps, voLost>>
    BY <1>2 DEF VORead
  <2> QED
    BY <1>1, <2>3, <2>4, CreditQuiet
<1>3. ASSUME VOApply(k) PROVE CreditInv'
  <2>1. voSession[k].doing = "apply" /\ voSession[k] \in CreditCall
    BY <1>3 DEF VOApply, VoDoing, CreditInv, CreditTyped
  <2>2. voSession[k].booking \in VoBookings
    BY <2>1 DEF CreditCall
  <2>3. voCount' \in Nat /\ voUsage' \subseteq VoBookings
    BY <1>1, <1>3, <2>2 DEF VOApply, VoNewCount
  <2>4. voSession' \in [VoSessions -> CreditCall] /\ CreditCalls'
    BY <1>3, CreditIdle, CreditMoves DEF VOApply
  <2>5. UNCHANGED <<voActive, voUsed, voSpent, voLapsed, voOps, voLost>>
    BY <1>3 DEF VOApply
  <2> QED
    BY <1>1, <2>3, <2>4, <2>5, CreditQuiet
<1>4. ASSUME VOFindExpired(k) PROVE CreditInv'
  <2> DEFINE E == {c \in voLapsed : VoFree(c) > 0}
             req == [doing |-> "expire", credits |-> E]
  <2>1. E \in SUBSET VoIds
    BY <1>1
  <2>2. VoSet(k, req)
    BY <1>4 DEF VOFindExpired
  <2> HIDE DEF E
  <2>3. req \in CreditCall /\ CreditFits(req)
    BY <2>1 DEF CreditCall, CreditFits
  <2> HIDE DEF req
  <2>4. voSession' \in [VoSessions -> CreditCall] /\ CreditCalls'
    BY <2>2, <2>3, CreditMoves
  <2>5. UNCHANGED <<voActive, voCount, voUsage, voUsed, voSpent, voLapsed, voOps, voLost>>
    BY <1>4 DEF VOFindExpired
  <2> QED
    BY <1>1, <2>4, <2>5, CreditQuiet
<1>5. ASSUME VOFail(k) PROVE CreditInv'
  <2>1. voSession' \in [VoSessions -> CreditCall] /\ CreditCalls'
    BY <1>5, CreditIdle, CreditMoves DEF VOFail
  <2>2. UNCHANGED <<voActive, voCount, voUsage, voUsed, voSpent, voLapsed, voOps, voLost>>
    BY <1>5 DEF VOFail
  <2> QED
    BY <1>1, <2>1, <2>2, CreditQuiet
<1> QED
  BY <1>2, <1>3, <1>4, <1>5

LEMMA CreditNext == CreditInv /\ [VONext]_voVars => CreditInv'
<1> SUFFICES ASSUME CreditInv, [VONext]_voVars PROVE CreditInv'
  OBVIOUS
<1>0. /\ voSession \in [VoSessions -> CreditCall] /\ CreditCalls
      /\ voCount \in Nat /\ voUsage \subseteq VoBookings /\ voLapsed \subseteq VoIds
      /\ voActive \in BOOLEAN /\ voOps \in 0..VoMaxOps
  BY DEF CreditInv, CreditTyped
<1>1. ASSUME NEW k \in VoSessions, NEW n \in VoAsked, VOReadCredits(k, n) PROVE CreditInv'
  BY <1>1, CreditReads
<1>2. ASSUME NEW k \in VoSessions, VOUse(k) PROVE CreditInv'
  BY <1>2, CreditUses
<1>3. ASSUME NEW k \in VoSessions, VOExpireCredits(k) PROVE CreditInv'
  BY <1>3, CreditExpires
<1>4. ASSUME NEW k \in VoSessions,
             (\E b \in VoBookings : VORead(k, b)) \/ VOApply(k) \/ VOFindExpired(k) \/ VOFail(k)
      PROVE  CreditInv'
  BY <1>4, CreditOthers
<1>5. ASSUME voSession' = voSession PROVE voSession' \in [VoSessions -> CreditCall] /\ CreditCalls'
  BY <1>0, <1>5 DEF CreditCalls
<1>6. CASE VODeactivate
  BY <1>0, <1>5, <1>6, CreditQuiet DEF VODeactivate
<1>7. ASSUME NEW c \in VoIds, VOLapse(c) PROVE CreditInv'
  BY <1>0, <1>5, <1>7, CreditQuiet DEF VOLapse
<1>8. CASE UNCHANGED voVars
  BY <1>0, <1>5, <1>8, CreditQuiet DEF voVars
<1> QED
  BY <1>1, <1>2, <1>3, <1>4, <1>6, <1>7, <1>8, Zenon DEF VONext

LEMMA CreditSpec == VOSpec => []CreditInv
BY CreditInit, CreditNext, PTL DEF VOSpec

\* Whatever calls of useCredit and of the expiry job overwrite each other, a
\* credit is never used past its amount, and the uses recorded for bookings are
\* within what its row says unless an overwrite was lost.
THEOREM CreditCovers == VOSpec => []VOCreditCovers
<1>1. CreditInv => VOCreditCovers
  BY CreditInvImplies
<1> QED
  BY CreditSpec, <1>1, PTL

(***************************************************************************)
(* Sessions: refreshTokens                                                 *)
(*                                                                         *)
(* The line of a login moves from a token to the next; a token that was read *)
(* may have ended since, and what comes of it then is counted apart.       *)
(***************************************************************************)

Rows == [state : {"none", "live", "revoked", "deleted"}, login : 0..SnMaxTokens]
Exchanging(t) == {k \in SnSessions : snSession[k] = t}
Known == {t \in SnIds : snToken[t].state # "none"}

\* What has a row keeps it; a login is a row, and so are the tokens that were
\* read, raced or ended.
KnownInv ==
  /\ SNTypeOK
  /\ \A t \in Known : snToken[t].login \in Known
  /\ snRaced \subseteq Known /\ snEnded \subseteq Known /\ snLapsed \subseteq Known
  /\ \A k \in SnSessions : snSession[k] # 0 => snSession[k] \in Known

\* The holder of a login has one token, or none after a logout.
LineInv ==
  \A t, u \in SnLive \ snRaced :
    snToken[t].login = snToken[u].login => t = u /\ snToken[t].login \notin snEnded

\* A live token was not exchanged yet; whoever has read it will exchange it once.
NextsInv == \A t \in SnIds :
  /\ snNexts[t] + Cardinality(Exchanging(t)) <= Cardinality(SnSessions)
  /\ snToken[t].state \in {"none", "live"} => snNexts[t] = 0

SnIInv == KnownInv /\ LineInv /\ NextsInv

LEMMA SnRequests ==
  ASSUME NEW t
  PROVE  /\ IsFiniteSet(Exchanging(t)) /\ Cardinality(Exchanging(t)) \in Nat
         /\ Cardinality(SnSessions) \in Nat
         /\ Cardinality(Exchanging(t)) <= Cardinality(SnSessions)
<1>1. Exchanging(t) \in SUBSET SnSessions
  BY DEF Exchanging
<1> QED
  BY <1>1, SessionsAssumption, FS_Subset, FS_CardinalityType

LEMMA Ids ==
  /\ SnIds \subseteq 0..SnMaxTokens /\ 0 \notin SnIds /\ 0 \in 0..SnMaxTokens
BY SessionsAssumption DEF SnIds

LEMMA SnInitIInv == SNInit => SnIInv
<1> SUFFICES ASSUME SNInit PROVE SnIInv
  OBVIOUS
<1>1. SNTypeOK
  BY Ids DEF SNInit, SNTypeOK, SnNoToken
<1>2. Known = {} /\ SnLive = {}
  BY DEF SNInit, Known, SnLive, SnNoToken
<1>3. KnownInv
  BY <1>1, <1>2 DEF KnownInv, SNInit
<1>4. LineInv
  BY <1>2 DEF LineInv
<1>5. NextsInv
  <2> SUFFICES ASSUME NEW t \in SnIds
               PROVE  snNexts[t] + Cardinality(Exchanging(t)) <= Cardinality(SnSessions) /\ snNexts[t] = 0
    BY DEF NextsInv
  <2>1. snNexts[t] = 0
    BY DEF SNInit
  <2> QED
    BY <2>1, SnRequests
<1> QED
  BY <1>3, <1>4, <1>5 DEF SnIInv

\* The steps after which nobody has a token in hand who had not before, and no
\* token was exchanged.
LEMMA NextsKept ==
  ASSUME SnIInv, UNCHANGED snNexts,
         \A k \in SnSessions : snSession'[k] = 0 \/ snSession'[k] = snSession[k],
         \A t \in SnIds : snToken'[t].state \in {"none", "live"} =>
           snToken[t].state \in {"none", "live"}
  PROVE  NextsInv'
<1> SUFFICES ASSUME NEW t \in SnIds
             PROVE  /\ snNexts[t] + Cardinality(Exchanging(t)') <= Cardinality(SnSessions)
                    /\ snToken'[t].state \in {"none", "live"} => snNexts[t] = 0
  BY DEF NextsInv
<1>1. snToken'[t].state \in {"none", "live"} => snNexts[t] = 0
  BY DEF SnIInv, NextsInv
<1>2. Exchanging(t)' \subseteq Exchanging(t)
  BY Ids DEF Exchanging
<1>3. Cardinality(Exchanging(t)') <= Cardinality(Exchanging(t)) /\ Cardinality(Exchanging(t)') \in Nat
  BY <1>2, SnRequests, FS_Subset, FS_CardinalityType
<1>4. snNexts[t] \in Nat
  BY DEF SnIInv, KnownInv, SNTypeOK
<1> QED
  BY <1>1, <1>3, <1>4, SnRequests DEF SnIInv, NextsInv

LEMMA LoginStep ==
  ASSUME SnIInv, NEW t \in SnIds, SNLogin(t)
  PROVE  SnIInv'
<1> DEFINE row == [state |-> "live", login |-> t]
<1>0. /\ KnownInv /\ LineInv /\ NextsInv /\ SNTypeOK
      /\ snToken' = [snToken EXCEPT ![t] = row] /\ snToken[t].state = "none"
      /\ UNCHANGED <<snLapsed, snSession, snNexts, snRaced, snEnded>>
  BY DEF SnIInv, KnownInv, SNLogin, SnIsNext
<1>1. row \in Rows /\ row.state = "live" /\ row.login = t
  BY Ids DEF Rows
<1> HIDE DEF row
<1>2. /\ snToken' \in [SnIds -> Rows]
      /\ \A u \in SnIds : snToken'[u] = IF u = t THEN row ELSE snToken[u]
  BY <1>0, <1>1 DEF SNTypeOK, Rows
<1>3. /\ Known' = Known \cup {t} /\ t \notin Known
      /\ SnLive' = SnLive \cup {t} /\ SnLive \subseteq Known
  BY <1>0, <1>1, <1>2 DEF Known, SnLive
<1>4. KnownInv'
  <2>1. SNTypeOK'
    BY <1>0, <1>2 DEF SNTypeOK, Rows
  <2>2. \A u \in Known' : snToken'[u].login \in Known'
    BY <1>0, <1>1, <1>2, <1>3 DEF KnownInv, Known
  <2> QED
    BY <1>0, <1>3, <2>1, <2>2 DEF KnownInv
<1>5. LineInv'
  <2> SUFFICES ASSUME NEW u \in SnLive' \ snRaced', NEW w \in SnLive' \ snRaced',
                      snToken'[u].login = snToken'[w].login
               PROVE  u = w /\ snToken'[u].login \notin snEnded'
    BY DEF LineInv
  <2>1. \A v \in SnLive : snToken'[v] = snToken[v] /\ snToken[v].login \in Known
    BY <1>0, <1>2, <1>3 DEF KnownInv, SnLive
  <2>2. snToken'[t].login = t /\ t \notin snEnded
    BY <1>0, <1>1, <1>2, <1>3 DEF KnownInv
  <2> QED
    BY <1>0, <1>3, <2>1, <2>2 DEF LineInv
<1>6. NextsInv'
  BY <1>0, <1>1, <1>2, NextsKept
<1> QED
  BY <1>4, <1>5, <1>6 DEF SnIInv

\* The steps that only end tokens, each of them by a state of its own.
LEMMA EndingStep ==
  ASSUME SnIInv, snToken' \in [SnIds -> Rows],
         \A t \in SnIds : /\ snToken'[t].login = snToken[t].login
                          /\ \/ snToken'[t] = snToken[t]
                             \/ snToken[t].state # "none"
                                /\ snToken'[t].state \in {"revoked", "deleted"},
         snEnded' = snEnded \cup {snToken[t].login : t \in (SnLive \ SnLive') \ snRaced}
           \/ snEnded' = snEnded,
         snLapsed' \subseteq Known,
         UNCHANGED <<snSession, snNexts, snRaced>>
  PROVE  SnIInv'
<1>0. KnownInv /\ LineInv /\ SNTypeOK
  BY DEF SnIInv, KnownInv
<1>1. Known' = Known /\ SnLive' \subseteq SnLive /\ SnLive \subseteq Known
  BY DEF Known, SnLive
<1>2. \A l \in snEnded' : l \in snEnded \/ \E t \in (SnLive \ SnLive') \ snRaced : l = snToken[t].login
  OBVIOUS
<1>3. KnownInv'
  <2>1. snEnded' \subseteq Known
    BY <1>0, <1>1, <1>2 DEF KnownInv
  <2>2. SNTypeOK'
    BY <1>0, <2>1 DEF SNTypeOK, Rows, Known
  <2> QED
    BY <1>0, <1>1, <2>1, <2>2 DEF KnownInv, Known
<1>4. LineInv'
  <2> SUFFICES ASSUME NEW u \in SnLive' \ snRaced', NEW w \in SnLive' \ snRaced',
                      snToken'[u].login = snToken'[w].login
               PROVE  u = w /\ snToken'[u].login \notin snEnded'
    BY DEF LineInv
  <2>1. /\ u \in SnLive \ snRaced /\ w \in SnLive \ snRaced
        /\ snToken'[u].login = snToken[u].login /\ snToken'[w].login = snToken[w].login
    BY <1>1 DEF SnLive
  <2>2. u = w /\ snToken[u].login \notin snEnded
    <3>1. snToken[u].login = snToken[w].login
      BY <2>1
    <3> QED
      BY <1>0, <2>1, <3>1, Zenon DEF LineInv
  <2>3. ASSUME NEW t \in (SnLive \ SnLive') \ snRaced PROVE snToken[u].login # snToken[t].login
    BY <1>0, <2>1, <2>3 DEF LineInv
  <2> QED
    BY <1>2, <2>1, <2>2, <2>3
<1>5. NextsInv'
  BY NextsKept
<1> QED
  BY <1>3, <1>4, <1>5 DEF SnIInv

LEMMA RevokeStep ==
  ASSUME SnIInv, NEW T \in SUBSET SnLive, SnRevoke(T)
  PROVE  SnIInv'
<1>0. SNTypeOK /\ snLapsed \subseteq Known /\ SnLive \subseteq SnIds
  BY DEF SnIInv, KnownInv, SnLive
<1>1. /\ snToken' = [t \in SnIds |-> IF t \in T THEN [snToken[t] EXCEPT !.state = "revoked"]
                                   ELSE snToken[t]]
      /\ snEnded' = snEnded \cup {snToken[t].login : t \in T \ snRaced}
      /\ UNCHANGED <<snLapsed, snSession, snNexts, snRaced>>
  BY DEF SnRevoke, SnRevoked
<1>2. snToken' \in [SnIds -> Rows]
  BY <1>0, <1>1 DEF SNTypeOK, Rows
<1>3. \A t \in SnIds :
        /\ snToken'[t].login = snToken[t].login
        /\ t \notin T => snToken'[t] = snToken[t]
        /\ t \in T => snToken[t].state = "live" /\ snToken'[t].state = "revoked"
  BY <1>0, <1>1 DEF SNTypeOK, SnLive
<1>4. SnLive \ SnLive' = T
  BY <1>0, <1>3 DEF SnLive
<1> QED
  BY <1>0, <1>1, <1>2, <1>3, <1>4, EndingStep

LEMMA CleanUpStep ==
  ASSUME SnIInv, SNCleanUp
  PROVE  SnIInv'
<1>0. SNTypeOK /\ snLapsed \subseteq Known
  BY DEF SnIInv, KnownInv
<1>1. /\ snToken' = [t \in SnIds |-> IF t \in snLapsed
                                   THEN [snToken[t] EXCEPT !.state = "deleted"] ELSE snToken[t]]
      /\ UNCHANGED <<snLapsed, snSession, snNexts, snRaced, snEnded>>
  BY DEF SNCleanUp
<1>2. snToken' \in [SnIds -> Rows]
  BY <1>0, <1>1 DEF SNTypeOK, Rows
<1>3. \A t \in SnIds :
        /\ snToken'[t].login = snToken[t].login
        /\ \/ snToken'[t] = snToken[t]
           \/ snToken[t].state # "none" /\ snToken'[t].state \in {"revoked", "deleted"}
  BY <1>0, <1>1 DEF SNTypeOK, Known
<1> QED
  BY <1>0, <1>1, <1>2, <1>3, EndingStep

\* A refresh that is refused, and time, touch no token.
LEMMA SnQuietStep ==
  ASSUME SnIInv, UNCHANGED <<snToken, snNexts, snRaced, snEnded>>,
         snLapsed' \subseteq Known, snSession' \in [SnSessions -> 0..SnMaxTokens],
         \A k \in SnSessions : snSession'[k] = 0 \/ snSession'[k] = snSession[k]
  PROVE  SnIInv'
<1>1. Known' = Known /\ SnLive' = SnLive /\ Known \subseteq SnIds
  BY DEF Known, SnLive
<1>2. KnownInv'
  BY <1>1 DEF SnIInv, KnownInv, SNTypeOK
<1>3. LineInv'
  BY <1>1 DEF SnIInv, LineInv
<1>4. NextsInv'
  BY NextsKept
<1> QED
  BY <1>2, <1>3, <1>4 DEF SnIInv

\* The token read is live, and so not exchanged yet.
LEMMA SnReadStep ==
  ASSUME SnIInv, NEW k \in SnSessions, NEW t \in SnIds, SNReadToken(k, t)
  PROVE  SnIInv'
<1>0. /\ KnownInv /\ LineInv /\ NextsInv /\ SNTypeOK /\ t \in SnLive
      /\ snSession' = [snSession EXCEPT ![k] = t]
      /\ UNCHANGED <<snToken, snLapsed, snNexts, snRaced, snEnded>>
  BY DEF SnIInv, KnownInv, SNReadToken, SnUsable
<1>1. Known' = Known /\ SnLive' = SnLive /\ t \in Known /\ snToken[t].state = "live"
  BY <1>0 DEF Known, SnLive
<1>2. \A j \in SnSessions : snSession'[j] = IF j = k THEN t ELSE snSession[j]
  BY <1>0 DEF SNTypeOK
<1>3. KnownInv'
  BY <1>0, <1>1, <1>2, Ids DEF KnownInv, SNTypeOK
<1>4. LineInv'
  BY <1>0, <1>1 DEF LineInv
<1>5. NextsInv'
  <2> SUFFICES ASSUME NEW u \in SnIds
               PROVE  /\ snNexts[u] + Cardinality(Exchanging(u)') <= Cardinality(SnSessions)
                      /\ snToken[u].state \in {"none", "live"} => snNexts[u] = 0
    BY <1>0 DEF NextsInv
  <2>1. snToken[u].state \in {"none", "live"} => snNexts[u] = 0
    BY <1>0 DEF NextsInv
  <2>2. /\ Cardinality(Exchanging(u)') \in Nat /\ Cardinality(SnSessions) \in Nat
        /\ Cardinality(Exchanging(u)') <= Cardinality(SnSessions)
    <3>1. Exchanging(u)' \in SUBSET SnSessions
      BY DEF Exchanging
    <3> QED
      BY <3>1, SessionsAssumption, FS_Subset, FS_CardinalityType
  <2>3. CASE u = t
    BY <1>1, <2>1, <2>2, <2>3
  <2>4. CASE u # t
    <3>1. Exchanging(u)' \subseteq Exchanging(u)
      BY <1>2, <2>4 DEF Exchanging
    <3>2. Cardinality(Exchanging(u)') <= Cardinality(Exchanging(u))
      BY <3>1, SnRequests, FS_Subset
    <3>3. snNexts[u] \in Nat
      BY <1>0 DEF SNTypeOK
    <3> QED
      BY <1>0, <2>1, <2>2, <3>2, <3>3, SnRequests DEF NextsInv
  <2> QED
    BY <2>3, <2>4
<1> QED
  BY <1>3, <1>4, <1>5 DEF SnIInv

\* The exchange: the token that was read ends, whatever became of it, and the
\* next one has its login - in its line, if it was still live.
LEMMA RotateStep ==
  ASSUME SnIInv, NEW k \in SnSessions, NEW n \in SnIds, SNRotate(k, n)
  PROVE  SnIInv'
<1> DEFINE t == snSession[k]
           row == [state |-> "live", login |-> snToken[t].login]
           old == [snToken[t] EXCEPT !.state = SnAfterUse(t)]
<1>0. /\ KnownInv /\ LineInv /\ NextsInv /\ SNTypeOK
      /\ t \in Known /\ t \in SnIds /\ t # 0 /\ snToken[n].state = "none" /\ t # n
  BY Ids DEF SnIInv, KnownInv, SNRotate, SnIsNext, Known, SNTypeOK
<1>1. /\ snToken' = [snToken EXCEPT ![t] = old, ![n] = row]
      /\ snNexts' = [snNexts EXCEPT ![t] = snNexts[t] + 1]
      /\ snRaced' = IF t \in snRaced \/ t \notin SnLive THEN snRaced \cup {n} ELSE snRaced
      /\ snSession' = [snSession EXCEPT ![k] = 0]
      /\ UNCHANGED <<snLapsed, snEnded>>
  BY DEF SNRotate
<1>2. /\ old \in Rows /\ old.state \in {"revoked", "deleted"} /\ old.login = snToken[t].login
      /\ row \in Rows /\ row.state = "live" /\ row.login = snToken[t].login
      /\ snToken[t].login \in Known
  BY <1>0 DEF SNTypeOK, Rows, SnAfterUse, Known, KnownInv
<1>3. k \in Exchanging(t)
  BY DEF Exchanging
<1>4. \A j \in SnSessions : snSession'[j] = IF j = k THEN 0 ELSE snSession[j]
  BY <1>0, <1>1 DEF SNTypeOK
<1> HIDE DEF t, row, old
<1>5. /\ snToken' \in [SnIds -> Rows]
      /\ \A u \in SnIds :
           snToken'[u] = IF u = n THEN row ELSE IF u = t THEN old ELSE snToken[u]
  BY <1>0, <1>1, <1>2 DEF SNTypeOK, Rows
<1>6. /\ snNexts' \in [SnIds -> Nat]
      /\ \A u \in SnIds : snNexts'[u] = IF u = t THEN snNexts[t] + 1 ELSE snNexts[u]
  BY <1>0, <1>1 DEF SNTypeOK
<1>7. /\ Known' = Known \cup {n} /\ n \notin Known
      /\ SnLive' = (SnLive \ {t}) \cup {n} /\ SnLive \subseteq Known
  BY <1>0, <1>2, <1>5 DEF Known, SnLive
<1>8. KnownInv'
  <2>1. snRaced' \subseteq Known' /\ snEnded' \subseteq Known' /\ snLapsed' \subseteq Known'
    BY <1>0, <1>1, <1>7 DEF KnownInv
  <2>2. \A u \in Known' : snToken'[u].login \in Known'
    BY <1>0, <1>2, <1>5, <1>7 DEF KnownInv, Known
  <2>3. snSession' \in [SnSessions -> 0..SnMaxTokens]
    BY <1>0, <1>1, Ids DEF SNTypeOK
  <2>4. SNTypeOK'
    BY <1>5, <1>6, <2>1, <2>3 DEF SNTypeOK, Rows, Known
  <2>5. \A j \in SnSessions : snSession'[j] # 0 => snSession'[j] \in Known'
    BY <1>0, <1>4, <1>7 DEF KnownInv
  <2> QED
    BY <2>1, <2>2, <2>4, <2>5 DEF KnownInv
<1>9. LineInv'
  <2> SUFFICES ASSUME NEW u \in SnLive' \ snRaced', NEW w \in SnLive' \ snRaced',
                      snToken'[u].login = snToken'[w].login
               PROVE  u = w /\ snToken'[u].login \notin snEnded'
    BY DEF LineInv
  <2>1. u \in SnIds /\ w \in SnIds /\ SnLive \subseteq SnIds
    BY DEF SnLive
  <2>2. ASSUME NEW v \in SnLive' \ snRaced', v # n
        PROVE  v \in SnLive \ snRaced /\ v # t /\ snToken'[v] = snToken[v]
    BY <1>0, <1>1, <1>5, <1>7, <2>2 DEF SnLive
  <2>3. n \notin snRaced' => /\ t \in SnLive \ snRaced
                            /\ snToken'[n].login = snToken[t].login
    BY <1>1, <1>2, <1>5
  <2>4. CASE u # n /\ w # n
    <3>1. /\ u \in SnLive \ snRaced /\ snToken'[u] = snToken[u]
          /\ w \in SnLive \ snRaced /\ snToken'[w] = snToken[w]
      BY <2>2, <2>4
    <3>2. snToken[u].login = snToken[w].login
      BY <3>1
    <3>3. u = w /\ snToken[u].login \notin snEnded
      BY <1>0, <3>1, <3>2 DEF LineInv
    <3> QED
      BY <1>0, <1>1, <3>1, <3>3
  <2>5. CASE u = n /\ w # n
    BY <1>0, <2>2, <2>3, <2>5 DEF LineInv
  <2>6. CASE u # n /\ w = n
    BY <1>0, <2>2, <2>3, <2>6 DEF LineInv
  <2>7. CASE u = n /\ w = n
    BY <1>0, <1>1, <2>3, <2>7 DEF LineInv
  <2> QED
    BY <2>4, <2>5, <2>6, <2>7
<1>10. NextsInv'
  <2> SUFFICES ASSUME NEW u \in SnIds
               PROVE  /\ snNexts'[u] + Cardinality(Exchanging(u)') <= Cardinality(SnSessions)
                      /\ snToken'[u].state \in {"none", "live"} => snNexts'[u] = 0
    BY DEF NextsInv
  <2>1. Exchanging(u)' = IF u = t THEN Exchanging(u) \ {k} ELSE Exchanging(u)
    <3>1. \A j \in SnSessions : snSession'[j] = u <=> (j # k /\ snSession[j] = u)
      BY <1>4, Ids
    <3> QED
      BY <1>3, <3>1 DEF Exchanging, t
  <2>2. snNexts[u] \in Nat /\ snNexts[u] + Cardinality(Exchanging(u)) <= Cardinality(SnSessions)
    BY <1>0 DEF NextsInv, SNTypeOK
  <2>3. CASE u = t
    <3>1. Cardinality(Exchanging(u) \ {k}) = Cardinality(Exchanging(u)) - 1
      BY <1>3, <2>3, SnRequests, FS_RemoveElement
    <3> QED
      BY <1>0, <1>2, <1>5, <1>6, <2>1, <2>2, <2>3, <3>1, SnRequests
  <2>4. CASE u # t
    <3>1. snToken'[u].state \in {"none", "live"} => snToken[u].state \in {"none", "live"}
      BY <1>0, <1>5, <2>4
    <3> QED
      BY <1>0, <1>6, <2>1, <2>2, <2>4, <3>1 DEF NextsInv
  <2> QED
    BY <2>3, <2>4
<1> QED
  BY <1>8, <1>9, <1>10 DEF SnIInv

LEMMA SnNextIInv == SnIInv /\ [SNNext]_snVars => SnIInv'
<1> SUFFICES ASSUME SnIInv, [SNNext]_snVars PROVE SnIInv'
  OBVIOUS
<1>0. KnownInv /\ SNTypeOK /\ 0 \in 0..SnMaxTokens
  BY Ids DEF SnIInv, KnownInv
<1>1. ASSUME NEW t \in SnIds, SNLogin(t) PROVE SnIInv'
  BY <1>1, LoginStep
<1>2. ASSUME NEW t \in SnIds, SNLogout(t) PROVE SnIInv'
  <2>1. {t} \in SUBSET SnLive /\ SnRevoke({t})
    BY <1>2 DEF SNLogout
  <2> QED
    BY <2>1, RevokeStep
<1>3. ASSUME NEW t \in SnIds, SNLapse(t) PROVE SnIInv'
  <2>1. snLapsed' \subseteq Known
    BY <1>0, <1>3 DEF SNLapse, KnownInv, Known
  <2> QED
    BY <1>0, <1>3, <2>1, SnQuietStep DEF SNLapse, SNTypeOK
<1>4. ASSUME NEW k \in SnSessions, NEW t \in SnIds, SNReadToken(k, t) PROVE SnIInv'
  BY <1>4, SnReadStep
<1>5. ASSUME NEW k \in SnSessions, NEW n \in SnIds, SNRotate(k, n) PROVE SnIInv'
  BY <1>5, RotateStep
<1>6. ASSUME NEW k \in SnSessions, SNRefuse(k) PROVE SnIInv'
  <2>1. /\ snSession' \in [SnSessions -> 0..SnMaxTokens]
        /\ \A j \in SnSessions : snSession'[j] = 0 \/ snSession'[j] = snSession[j]
    BY <1>0, <1>6 DEF SNRefuse, SNTypeOK
  <2> QED
    BY <1>0, <1>6, <2>1, SnQuietStep DEF SNRefuse, KnownInv
<1>7. CASE SNLogoutAll
  BY <1>7, RevokeStep DEF SNLogoutAll
<1>8. CASE SNCleanUp
  BY <1>8, CleanUpStep
<1>9. CASE UNCHANGED snVars
  BY <1>0, <1>9, SnQuietStep DEF snVars, KnownInv, SNTypeOK
<1> QED
  BY <1>1, <1>2, <1>3, <1>4, <1>5, <1>6, <1>7, <1>8, <1>9 DEF SNNext

LEMMA SnSpecIInv == SNSpec => []SnIInv
BY SnInitIInv, SnNextIInv, PTL DEF SNSpec

LEMMA IInvOneLine == SnIInv => SNOneLine
<1> SUFFICES ASSUME SnIInv PROVE SNOneLine
  OBVIOUS
<1>1. ASSUME NEW t \in SnIds PROVE snNexts[t] <= Cardinality(SnSessions)
  BY <1>1, SnRequests DEF SnIInv, KnownInv, SNTypeOK, NextsInv
<1> QED
  BY <1>1 DEF SNOneLine, SnIInv, LineInv

\* A login is one line of tokens until its holder logs out, as far as tokens come
\* from live ones, and although the exchange locks nothing a token is exchanged
\* no more often than there are refreshes at a time.
THEOREM LoginsStayOneLine == SNSpec => []SNOneLine
BY IInvOneLine, SnSpecIInv, PTL

(***************************************************************************)
(* Split payment: initiateSplitPayment and the webhook                     *)
(***************************************************************************)
\* Two initiations one of which may still add, or has, rows of its own that are
\* alive: they overlapped, or a late write revived a row of one.
SplitExcused(r, q) == {r, q} \subseteq spOverlaps \/ {r, q} \cap spRevived # {}

SplitRows ==
  /\ \A s \in SpRows : spRequest[s[1]] # "idle"
  /\ \A w \in SpWorkers : spWorker[w] \subseteq SpRows

\* An initiation found nothing alive when it began; whatever is alive beside it
\* was still being inserted then, or was revived.
SplitApart ==
  /\ \A r, q \in SpInserting : r # q => SplitExcused(r, q)
  /\ \A r \in SpInserting : \A t \in SpLive : t[1] # r => SplitExcused(r, t[1])
  /\ \A s, t \in SpLive : s[1] # t[1] => SplitExcused(s[1], t[1])

\* Who had a copy of the pending booking when it was settled are those who may
\* still have one.
SplitBooked ==
  /\ spBooking # "pending" => \A s \in SpSplits : spShare[s] = "read" => s \in spMet
  /\ spLedger \subseteq spMet
  /\ spBooking = "confirmed" => spLedger # {}
  /\ \A s \in spLedger : spShare[s] = "handled" /\ spBooking # "pending"

SplitInv == SPTypeOK /\ SplitRows /\ SplitApart /\ SplitBooked

LEMMA SplitInvImplies ==
  ASSUME SplitInv
  PROVE  SPTypeOK /\ SPOneDivision
BY DEF SplitInv, SplitApart, SplitBooked, SplitExcused, SPOneDivision

LEMMA SplitInit == SPInit => SplitInv
<1> SUFFICES ASSUME SPInit PROVE SplitInv
  OBVIOUS
<1>1. SpRows = {} /\ SpLive = {} /\ SpInserting = {}
  BY DEF SPInit, SpRows, SpLive, SpInserting
<1>2. SPTypeOK
  BY DEF SPInit, SPTypeOK
<1>3. SplitBooked
  BY DEF SPInit, SplitBooked
<1>4. SplitRows
  BY <1>1 DEF SPInit, SplitRows
<1>5. SplitApart
  BY <1>1 DEF SplitApart
<1> QED
  BY <1>2, <1>3, <1>4, <1>5 DEF SplitInv

\* The first of a split is the initiation that inserted it.
LEMMA SplitParts ==
  ASSUME NEW s \in SpSplits
  PROVE  s[1] \in SpRequests
BY DEF SpSplits

\* What does not begin an initiation and revives nothing without saying so
\* keeps the divisions apart.
LEMMA SplitApartKept ==
  ASSUME SplitInv, SPTypeOK', spOverlaps \subseteq spOverlaps', spRevived \subseteq spRevived',
         SpInserting' \subseteq SpInserting,
         \A s \in SpLive' : s \in SpLive \/ s[1] \in spRevived' \/ s[1] \in SpInserting
  PROVE  SplitApart'
<1> USE DEF SplitExcused
<1>1. \A r, q \in SpInserting' : r # q => SplitExcused(r, q)'
  BY DEF SplitInv, SplitApart
<1>2. \A r \in SpInserting' : \A t \in SpLive' : t[1] # r => SplitExcused(r, t[1])'
  BY DEF SplitInv, SplitApart
<1>3. \A s, t \in SpLive' : s[1] # t[1] => SplitExcused(s[1], t[1])'
  BY DEF SplitInv, SplitApart
<1> QED
  BY <1>1, <1>2, <1>3 DEF SplitApart

LEMMA SplitChecks ==
  ASSUME SplitInv, NEW r \in SpRequests, SPCheck(r)
  PROVE  SplitInv'
<1>1. /\ spRequest[r] = "idle" /\ SpLive = {}
      /\ spRequest' = [spRequest EXCEPT ![r] = "insert"]
      /\ spOverlaps' = IF SpInserting = {} THEN spOverlaps
                       ELSE spOverlaps \cup SpInserting \cup {r}
      /\ UNCHANGED <<spBooking, spStatus, spOverdue, spWorker, spShare, spLedger, spMet, spRevived>>
  BY DEF SPCheck, SpFree
<1>2. SPTypeOK'
  BY <1>1 DEF SplitInv, SPTypeOK
<1>3. SpLive' = {} /\ SpRows' = SpRows
  BY <1>1 DEF SpLive, SpRows
<1>4. SpInserting' = SpInserting \cup {r}
  BY <1>1 DEF SpInserting, SplitInv, SPTypeOK
<1>5. \A x, y \in SpInserting' : x # y => SplitExcused(x, y)'
  <2>1. CASE SpInserting = {}
    BY <1>4, <2>1
  <2>2. CASE SpInserting # {}
    <3>1. SpInserting' \subseteq spOverlaps'
      BY <1>1, <1>4, <2>2
    <3> QED
      BY <3>1 DEF SplitExcused
  <2> QED
    BY <2>1, <2>2
<1>6. SplitApart'
  BY <1>3, <1>5 DEF SplitApart
<1>7. SplitRows'
  <2>1. ASSUME NEW s \in SpRows PROVE spRequest'[s[1]] # "idle"
    <3>1. spRequest[s[1]] # "idle" /\ s[1] \in SpRequests
      BY SplitParts DEF SplitInv, SplitRows, SpRows
    <3> QED
      BY <1>1, <3>1 DEF SplitInv, SPTypeOK
  <2>2. \A w \in SpWorkers : spWorker'[w] \subseteq SpRows'
    BY <1>1, <1>3 DEF SplitInv, SplitRows
  <2> QED
    BY <1>3, <2>1, <2>2 DEF SplitRows
<1>8. SplitBooked'
  BY <1>1 DEF SplitInv, SplitBooked
<1> QED
  BY <1>2, <1>6, <1>7, <1>8 DEF SplitInv

LEMMA SplitInserts ==
  ASSUME SplitInv, NEW r \in SpRequests, NEW p \in SpPayers, SPInsert(r, p)
  PROVE  SplitInv'
<1> DEFINE new == <<r, p>>
           next == IF \A q \in SpPayers \ {p} : spStatus[<<r, q>>] # "none" THEN "done" ELSE "insert"
<1>1. /\ spRequest[r] = "insert" /\ spStatus' = [spStatus EXCEPT ![new] = "unpaid"]
      /\ spRequest' = [spRequest EXCEPT ![r] = next]
      /\ UNCHANGED <<spBooking, spOverdue, spWorker, spShare, spLedger, spMet, spOverlaps, spRevived>>
  BY DEF SPInsert
<1>2. new \in SpSplits /\ new[1] = r /\ next \in {"done", "insert"}
  BY DEF SpSplits
<1> HIDE DEF new, next
<1>3. SPTypeOK'
  BY <1>1, <1>2 DEF SplitInv, SPTypeOK
<1>4. SpRows \subseteq SpRows' /\ SpRows' \subseteq SpRows \cup {new}
  BY <1>1, <1>2 DEF SpRows, SplitInv, SPTypeOK
<1>5. SpLive' \subseteq SpLive \cup {new}
  BY <1>1, <1>2 DEF SpRows, SpLive, SplitInv, SPTypeOK
<1>6. SpInserting' \subseteq SpInserting /\ r \in SpInserting
  BY <1>1, <1>2 DEF SpInserting, SplitInv, SPTypeOK
<1>7. SplitApart'
  BY <1>1, <1>2, <1>3, <1>5, <1>6, SplitApartKept
<1>8. SplitRows'
  <2>1. ASSUME NEW s \in SpRows' PROVE spRequest'[s[1]] # "idle"
    <3>1. s[1] \in SpRequests /\ spRequest[s[1]] # "idle"
      BY <1>1, <1>2, <1>4, SplitParts DEF SplitInv, SplitRows, SpRows
    <3> QED
      BY <1>1, <1>2, <3>1 DEF SplitInv, SPTypeOK
  <2>2. \A w \in SpWorkers : spWorker'[w] \subseteq SpRows'
    BY <1>1, <1>4 DEF SplitInv, SplitRows
  <2> QED
    BY <2>1, <2>2 DEF SplitRows
<1>9. SplitBooked'
  BY <1>1 DEF SplitInv, SplitBooked
<1> QED
  BY <1>3, <1>7, <1>8, <1>9 DEF SplitInv

LEMMA SplitFails ==
  ASSUME SplitInv, NEW r \in SpRequests, SPFail(r)
  PROVE  SplitInv'
<1>1. /\ spRequest[r] = "insert" /\ spRequest' = [spRequest EXCEPT ![r] = "done"]
      /\ UNCHANGED <<spBooking, spStatus, spOverdue, spWorker, spShare, spLedger, spMet, spOverlaps, spRevived>>
  BY DEF SPFail
<1>2. SPTypeOK'
  BY <1>1 DEF SplitInv, SPTypeOK
<1>3. SpRows' = SpRows /\ SpLive' = SpLive
  BY <1>1 DEF SpRows, SpLive
<1>4. SpInserting' \subseteq SpInserting
  BY <1>1 DEF SpInserting, SplitInv, SPTypeOK
<1>5. SplitApart'
  BY <1>1, <1>2, <1>3, <1>4, SplitApartKept
<1>6. SplitRows'
  <2>1. ASSUME NEW s \in SpRows PROVE spRequest'[s[1]] # "idle"
    <3>1. s[1] \in SpRequests /\ spRequest[s[1]] # "idle"
      BY SplitParts DEF SplitInv, SplitRows, SpRows
    <3> QED
      BY <1>1, <3>1 DEF SplitInv, SPTypeOK
  <2> QED
    BY <1>1, <1>3, <2>1 DEF SplitInv, SplitRows
<1>7. SplitBooked'
  BY <1>1 DEF SplitInv, SplitBooked
<1> QED
  BY <1>2, <1>5, <1>6, <1>7 DEF SplitInv

LEMMA SplitSends ==
  ASSUME SplitInv, NEW w \in SpWorkers, NEW s \in SpSplits, SPSent(w, s)
  PROVE  SplitInv'
<1>1. /\ spWorker[w] = {s} /\ spStatus' = [spStatus EXCEPT ![s] = "unpaid"]
      /\ spWorker' = [spWorker EXCEPT ![w] = {}]
      /\ spRevived' = IF spStatus[s] \in SpDead THEN spRevived \cup {s[1]} ELSE spRevived
      /\ UNCHANGED <<spBooking, spOverdue, spRequest, spShare, spLedger, spMet, spOverlaps>>
  BY DEF SPSent
<1>2. SPTypeOK'
  BY <1>1 DEF SplitInv, SPTypeOK
<1>3. s \in SpRows
  BY <1>1 DEF SplitInv, SplitRows
<1>4. SpRows' = SpRows
  BY <1>1, <1>3 DEF SpRows, SplitInv, SPTypeOK
<1>5. \A t \in SpLive' : t \in SpLive \/ t[1] \in spRevived'
  <2>1. \A t \in SpSplits \ {s} : spStatus'[t] = spStatus[t]
    BY <1>1 DEF SplitInv, SPTypeOK
  <2>2. s \in SpLive \/ s[1] \in spRevived'
    BY <1>1, <1>3 DEF SpLive
  <2>3. ASSUME NEW t \in SpLive', t # s PROVE t \in SpLive
    BY <1>4, <2>1, <2>3 DEF SpLive, SpRows
  <2> QED
    BY <2>2, <2>3
<1>6. SpInserting' = SpInserting /\ spRevived \subseteq spRevived'
  BY <1>1 DEF SpInserting
<1>7. SplitApart'
  BY <1>1, <1>2, <1>5, <1>6, SplitApartKept
<1>8. SplitRows'
  <2>1. \A v \in SpWorkers : spWorker'[v] \subseteq SpRows
    <3>1. ASSUME NEW v \in SpWorkers PROVE spWorker'[v] = {} \/ spWorker'[v] = spWorker[v]
      BY <1>1
    <3> QED
      BY <3>1 DEF SplitInv, SplitRows
  <2> QED
    BY <1>1, <1>4, <2>1 DEF SplitInv, SplitRows
<1>9. SplitBooked'
  BY <1>1 DEF SplitInv, SplitBooked
<1> QED
  BY <1>2, <1>7, <1>8, <1>9 DEF SplitInv

\* expiry and cancellation, of one row or of all
LEMMA SplitEnds ==
  ASSUME SplitInv, NEW rows, rows \subseteq SpRows, NEW status \in SpDead, SpEnd(rows, status)
  PROVE  SplitInv'
<1>1. /\ spStatus' = [s \in SpSplits |-> IF s \in rows THEN status ELSE spStatus[s]]
      /\ UNCHANGED <<spBooking, spOverdue, spRequest, spWorker, spShare, spLedger, spMet,
                     spOverlaps, spRevived>>
  BY DEF SpEnd
<1>2. SPTypeOK'
  <2>1. status \in {"none", "unpaid", "expired", "cancelled"}
    BY DEF SpDead
  <2>2. spStatus' \in [SpSplits -> {"none", "unpaid", "expired", "cancelled"}]
    BY <1>1, <2>1 DEF SplitInv, SPTypeOK
  <2> QED
    BY <1>1, <2>2 DEF SplitInv, SPTypeOK
<1>3. status \in SpDead /\ status # "none"
  BY DEF SpDead
<1>4. SpRows' = SpRows
  BY <1>1, <1>3 DEF SpRows
<1>5. SpLive' \subseteq SpLive
  BY <1>1, <1>3, <1>4 DEF SpLive, SpRows
<1>6. SpInserting' = SpInserting
  BY <1>1 DEF SpInserting
<1>7. SplitApart'
  BY <1>1, <1>2, <1>5, <1>6, SplitApartKept
<1>8. SplitRows' /\ SplitBooked'
  BY <1>1, <1>4 DEF SplitInv, SplitRows, SplitBooked
<1> QED
  BY <1>2, <1>7, <1>8 DEF SplitInv

\* What leaves the rows and the initiations alone.
LEMMA SplitStands ==
  ASSUME SplitInv, SPTypeOK', spStatus' = spStatus, spRequest' = spRequest,
         spOverlaps' = spOverlaps, spRevived' = spRevived,
         \A w \in SpWorkers : spWorker'[w] \subseteq SpRows, SplitBooked'
  PROVE  SplitInv'
<1>1. SpRows' = SpRows /\ SpLive' = SpLive /\ SpInserting' = SpInserting
  BY DEF SpRows, SpLive, SpInserting
<1>2. SplitApart'
  BY <1>1, SplitApartKept
<1>3. SplitRows'
  BY <1>1 DEF SplitInv, SplitRows
<1> QED
  BY <1>2, <1>3 DEF SplitInv

LEMMA SplitNext ==
  ASSUME SplitInv, [SPNext]_spVars
  PROVE  SplitInv'
<1>1. /\ SPTypeOK /\ SplitBooked /\ \A w \in SpWorkers : spWorker[w] \subseteq SpRows
  BY DEF SplitInv, SplitRows
<1>2. ASSUME NEW s \in SpSplits, SPExpire(s) \/ SPCancel(s) PROVE SplitInv'
  BY <1>2, SplitEnds DEF SPExpire, SPCancel, SpDead
<1>3. ASSUME SPCancelAll PROVE SplitInv'
  BY <1>3, SplitEnds DEF SPCancelAll, SpDead
<1>4. ASSUME NEW w \in SpWorkers, NEW s \in SpSplits, SPReadToSend(w, s) PROVE SplitInv'
  <2>1. /\ s \in SpRows /\ spWorker' = [spWorker EXCEPT ![w] = {s}]
        /\ UNCHANGED <<spBooking, spStatus, spOverdue, spRequest, spShare, spLedger,
                       spMet, spOverlaps, spRevived>>
    BY <1>4 DEF SPReadToSend
  <2>2. \A v \in SpWorkers : spWorker'[v] = {s} \/ spWorker'[v] = spWorker[v]
    BY <2>1
  <2>3. SPTypeOK' /\ SplitBooked'
    BY <1>1, <2>1 DEF SPTypeOK, SplitBooked
  <2> QED
    BY <1>1, <2>1, <2>2, <2>3, SplitStands
<1>5. ASSUME NEW s \in SpSplits, SPOpen(s) \/ SPPay(s) PROVE SplitInv'
  <2>1. /\ spShare[s] \in {"none", "open"}
        /\ \E share \in {"open", "charged"} : spShare' = [spShare EXCEPT ![s] = share]
        /\ UNCHANGED <<spBooking, spStatus, spOverdue, spRequest, spWorker, spLedger,
                       spMet, spOverlaps, spRevived>>
    BY <1>5 DEF SPOpen, SPPay
  <2>2. SPTypeOK'
    BY <1>1, <2>1 DEF SPTypeOK
  <2>3. SplitBooked'
    <3>1. \A t \in spLedger : t # s /\ t \in SpSplits
      BY <1>1, <2>1 DEF SplitBooked, SPTypeOK
    <3>2. \A t \in spLedger : spShare'[t] = spShare[t]
      BY <1>1, <2>1, <3>1 DEF SPTypeOK
    <3>3. \A t \in SpSplits : spShare'[t] = "read" => spShare[t] = "read"
      BY <1>1, <2>1 DEF SPTypeOK
    <3> QED
      BY <1>1, <2>1, <3>2, <3>3 DEF SplitBooked
  <2> QED
    BY <1>1, <2>1, <2>2, <2>3, SplitStands
<1>6. ASSUME NEW r \in SpRequests, SPTimePasses(r) PROVE SplitInv'
  <2>1. /\ spOverdue' = spOverdue \cup {r}
        /\ UNCHANGED <<spBooking, spStatus, spRequest, spWorker, spShare, spLedger,
                       spMet, spOverlaps, spRevived>>
    BY <1>6 DEF SPTimePasses
  <2>2. SPTypeOK' /\ SplitBooked'
    BY <1>1, <2>1 DEF SPTypeOK, SplitBooked
  <2> QED
    BY <1>1, <2>1, <2>2, SplitStands
<1>7. ASSUME NEW s \in SpSplits, SPReadBooking(s) \/ SPRollback(s) PROVE SplitInv'
  <2>1. PICK share \in {"handled", "read", "charged"} :
          /\ spShare' = [spShare EXCEPT ![s] = share]
          /\ share = "read" => spBooking = "pending"
          /\ spShare[s] # "handled"
    BY <1>1, <1>7 DEF SPReadBooking, SPRollback, SpPaid, SPTypeOK
  <2>2. UNCHANGED <<spBooking, spStatus, spOverdue, spRequest, spWorker, spLedger,
                    spMet, spOverlaps, spRevived>>
    BY <1>7 DEF SPReadBooking, SPRollback
  <2>3. SPTypeOK'
    BY <1>1, <2>1, <2>2 DEF SPTypeOK
  <2>4. \A t \in SpSplits : spShare'[t] = IF t = s THEN share ELSE spShare[t]
    BY <1>1, <2>1 DEF SPTypeOK
  <2>5. s \notin spLedger /\ spLedger \subseteq SpSplits
    BY <1>1, <2>1 DEF SplitBooked, SPTypeOK
  <2>6. SplitBooked'
    BY <1>1, <2>1, <2>2, <2>4, <2>5 DEF SplitBooked
  <2> QED
    BY <1>1, <2>2, <2>3, <2>6, SplitStands
<1>9. ASSUME NEW s \in SpSplits, SPConfirm(s) PROVE SplitInv'
  <2>1. /\ spShare' = [spShare EXCEPT ![s] = "handled"] /\ spBooking' = "confirmed"
        /\ spLedger' = spLedger \cup {s} /\ spShare[s] = "read"
        /\ spMet' = IF spBooking = "pending" THEN {t \in SpSplits : spShare[t] = "read"}
                    ELSE spMet
        /\ UNCHANGED <<spStatus, spOverdue, spRequest, spWorker, spOverlaps, spRevived>>
    BY <1>9 DEF SPConfirm, SpSettle
  <2>2. SPTypeOK'
    BY <1>1, <2>1 DEF SPTypeOK
  <2>3. \A t \in SpSplits : spShare'[t] = IF t = s THEN "handled" ELSE spShare[t]
    BY <1>1, <2>1 DEF SPTypeOK
  <2>4. spLedger \subseteq SpSplits /\ spMet \subseteq SpSplits
    BY <1>1 DEF SPTypeOK
  <2>5. \A t \in SpSplits : spShare'[t] = "read" => t \in spMet'
    BY <1>1, <2>1, <2>3 DEF SplitBooked
  <2>6. spLedger' \subseteq spMet'
    <3>1. CASE spBooking = "pending"
      BY <1>1, <2>1, <3>1 DEF SplitBooked
    <3>2. CASE spBooking # "pending"
      BY <1>1, <2>1, <3>2 DEF SplitBooked
    <3> QED
      BY <3>1, <3>2
  <2>7. \A t \in spLedger' : spShare'[t] = "handled"
    BY <1>1, <2>1, <2>3, <2>4 DEF SplitBooked
  <2>8. SplitBooked'
    BY <2>1, <2>5, <2>6, <2>7 DEF SplitBooked
  <2> QED
    BY <1>1, <2>1, <2>2, <2>8, SplitStands
<1>10. ASSUME SPCancelBooking PROVE SplitInv'
  <2>1. /\ spBooking' = "cancelled"
        /\ spMet' = IF spBooking = "pending" THEN {t \in SpSplits : spShare[t] = "read"}
                    ELSE spMet
        /\ UNCHANGED <<spStatus, spOverdue, spRequest, spWorker, spShare, spLedger,
                       spOverlaps, spRevived>>
    BY <1>10 DEF SPCancelBooking, SpSettle
  <2>2. SPTypeOK'
    BY <1>1, <2>1 DEF SPTypeOK
  <2>3. \A t \in SpSplits : spShare'[t] = "read" => t \in spMet'
    BY <1>1, <2>1 DEF SplitBooked
  <2>4. spLedger' \subseteq spMet'
    BY <1>1, <2>1 DEF SplitBooked
  <2>5. SplitBooked'
    BY <1>1, <2>1, <2>3, <2>4 DEF SplitBooked
  <2> QED
    BY <1>1, <2>1, <2>2, <2>5, SplitStands
<1>8. ASSUME UNCHANGED spVars PROVE SplitInv'
  <2>1. /\ spStatus' = spStatus /\ spRequest' = spRequest /\ spOverlaps' = spOverlaps
        /\ spRevived' = spRevived /\ spWorker' = spWorker /\ spBooking' = spBooking
        /\ spOverdue' = spOverdue /\ spShare' = spShare /\ spLedger' = spLedger
        /\ spMet' = spMet
    BY <1>8 DEF spVars
  <2>2. SPTypeOK' /\ SplitBooked'
    BY <1>1, <2>1 DEF SPTypeOK, SplitBooked
  <2> QED
    BY <1>1, <2>1, <2>2, SplitStands
<1> QED
  BY <1>2, <1>3, <1>4, <1>5, <1>6, <1>7, <1>8, <1>9, <1>10, SplitChecks, SplitInserts,
     SplitFails, SplitSends
  DEF SPNext

LEMMA SplitSpec == SPSpec => []SplitInv
<1>1. SplitInv /\ [SPNext]_spVars => SplitInv'
  BY SplitNext
<1> QED
  BY <1>1, SplitInit, PTL DEF SPSpec

\* split-payment.service.ts: for any number of initiations and payers, rows of
\* two divisions of a price are alive together only if the initiations
\* overlapped or a late write revived a row; and the ledger charges only shares
\* whose events had read the booking before it was first confirmed or cancelled.
THEOREM OneDivision == SPSpec => []SPOneDivision
<1>1. SplitInv => SPOneDivision
  BY SplitInvImplies
<1> QED
  BY <1>1, SplitSpec, PTL

(***************************************************************************)
(* Family groups: family-pool.service.ts                                   *)
(***************************************************************************)
FamCall ==
  [doing : {"idle"}] \cup [doing : {"create", "insert"}, user : FgUsers]
  \cup [doing : {"owner", "add", "join"}, group : FgGroups, user : FgUsers]
  \cup [doing : {"close"}, group : FgGroups]
FamGroup == {FgNoGroup} \cup [status : {"active", "inactive"}, owner : FgUsers]
FamEmpty(g) == \A u \in FgUsers : fgRows[g][u] = 0

\* Who has checked that a group has room, and who has checked that a user is in
\* no group, and have not yet written the row.
FamAdds(call, g) == call.doing \in {"owner", "add", "join"} /\ call.group = g
FamJoins(call, u) == call.doing \in {"insert", "owner", "join"} /\ call.user = u
FamAdders(g) == {k \in FgSessions : FamAdds(fgSession[k], g)}
FamJoiners(u) == {k \in FgSessions : FamJoins(fgSession[k], u)}

FamTyped ==
  /\ fgGroup \in [FgGroups -> FamGroup] /\ fgRows \in [FgGroups -> [FgUsers -> Nat]]
  /\ fgSession \in [FgSessions -> FamCall]
  /\ fgBroken \subseteq FgGroups /\ fgLate \subseteq FgGroups

\* A call under way is about a group that exists; one that inserts the owner
\* knows who that is, and one that closes a group has emptied it.
FamCallOK(call) ==
  /\ call.doing \in {"owner", "add", "join", "close"} => fgGroup[call.group] # FgNoGroup
  /\ call.doing = "owner" => fgGroup[call.group].owner = call.user
  /\ call.doing = "close" => call.group \in fgLate \/ FamEmpty(call.group)
FamCallInv == \A k \in FgSessions : FamCallOK(fgSession[k])
FamNewInv == \A g \in FgGroups : fgGroup[g] = FgNoGroup => FamEmpty(g)

FamRoomInv == \A g \in FgGroups :
  FgSize(fgRows[g]) + Cardinality(FamAdders(g)) <= FgMaxMembers + Cardinality(FgSessions) - 1
FamOneInv == \A u \in FgUsers :
  FgMemberships(u) + Cardinality(FamJoiners(u)) <= Cardinality(FgSessions)

FamOwned(g) ==
  \/ fgRows[g][fgGroup[g].owner] > 0
  \/ \E k \in FgSessions : fgSession[k].doing \in {"owner", "close"} /\ fgSession[k].group = g
FamOwnerInv ==
  /\ \A g \in FgActive \ fgBroken : FamOwned(g)
  /\ \A g \in FgGroups \ fgLate : fgGroup[g].status = "inactive" => FamEmpty(g)

FamInv == FamTyped /\ FamCallInv /\ FamNewInv /\ FamRoomInv /\ FamOneInv /\ FamOwnerInv

LEMMA FamFinite ==
  /\ IsFiniteSet(FgUsers) /\ IsFiniteSet(FgGroups) /\ IsFiniteSet(FgSessions)
  /\ FgMaxMembers \in Nat /\ FgMaxMembers > 0 /\ Cardinality(FgSessions) \in Nat
BY FamilyGroupAssumption, FS_CardinalityType

LEMMA FamCounts ==
  ASSUME NEW K \in SUBSET FgSessions
  PROVE  /\ IsFiniteSet(K) /\ Cardinality(K) \in Nat
         /\ Cardinality(K) <= Cardinality(FgSessions)
         /\ \A k \in K : Cardinality(K \ {k}) = Cardinality(K) - 1
         /\ \A J \in SUBSET K : Cardinality(J) <= Cardinality(K) /\ Cardinality(J) \in Nat
BY FamFinite, FS_Subset, FS_CardinalityType, FS_RemoveElement

\* The sums of the rows of a group and of a user.
LEMMA FamSizes ==
  ASSUME NEW rows, \A u \in FgUsers : rows[u] \in Nat
  PROVE  /\ FgSize(rows) \in Nat
         /\ (\A u \in FgUsers : rows[u] = 0) => FgSize(rows) = 0
         /\ \A u \in FgUsers : rows[u] <= FgSize(rows)
<1>1. \A u \in FgUsers : rows[u] \in Int
  OBVIOUS
<1>2. FgSize(rows) \in Nat
  BY FamFinite, SumNat DEF FgSize
<1>3. ASSUME \A u \in FgUsers : rows[u] = 0 PROVE FgSize(rows) = 0
  BY <1>3, FamFinite, SumZero DEF FgSize
<1>4. ASSUME NEW u \in FgUsers PROVE rows[u] <= FgSize(rows)
  <2>1. FgSize(rows) = rows[u] + SumFunctionOnSet(rows, FgUsers \ {u})
    BY <1>1, FamFinite, SumRemove DEF FgSize
  <2>2. SumFunctionOnSet(rows, FgUsers \ {u}) \in Nat
    <3>1. IsFiniteSet(FgUsers \ {u})
      BY FamFinite, FS_Subset
    <3> QED
      BY <3>1, SumNat
  <2> QED
    BY <2>1, <2>2
<1> QED
  BY <1>2, <1>3, <1>4

LEMMA FamShares ==
  ASSUME NEW rows, \A g \in FgGroups : rows[g] \in Nat
  PROVE  /\ SumFunctionOnSet(rows, FgGroups) \in Nat
         /\ (\A g \in FgGroups : rows[g] = 0) => SumFunctionOnSet(rows, FgGroups) = 0
         /\ \A g \in FgGroups : rows[g] <= SumFunctionOnSet(rows, FgGroups)
<1>1. \A g \in FgGroups : rows[g] \in Int
  OBVIOUS
<1>2. SumFunctionOnSet(rows, FgGroups) \in Nat
  BY FamFinite, SumNat
<1>3. ASSUME \A g \in FgGroups : rows[g] = 0 PROVE SumFunctionOnSet(rows, FgGroups) = 0
  BY <1>3, FamFinite, SumZero
<1>4. ASSUME NEW g \in FgGroups PROVE rows[g] <= SumFunctionOnSet(rows, FgGroups)
  <2>1. SumFunctionOnSet(rows, FgGroups) = rows[g] + SumFunctionOnSet(rows, FgGroups \ {g})
    BY <1>1, FamFinite, SumRemove
  <2>2. SumFunctionOnSet(rows, FgGroups \ {g}) \in Nat
    <3>1. IsFiniteSet(FgGroups \ {g})
      BY FamFinite, FS_Subset
    <3> QED
      BY <3>1, SumNat
  <2> QED
    BY <2>1, <2>2
<1> QED
  BY <1>2, <1>3, <1>4

LEMMA FamShare ==
  ASSUME FamTyped, NEW u \in FgUsers
  PROVE  /\ FgMemberships(u) \in Nat
         /\ (\A g \in FgGroups : fgRows[g][u] = 0) => FgMemberships(u) = 0
         /\ \A g \in FgGroups : fgRows[g][u] <= FgMemberships(u)
<1> DEFINE mine == [g \in FgGroups |-> fgRows[g][u]]
<1>1. \A g \in FgGroups : mine[g] = fgRows[g][u] /\ mine[g] \in Nat
  BY DEF FamTyped
<1>2. FgMemberships(u) = SumFunctionOnSet(mine, FgGroups)
  BY DEF FgMemberships
<1> HIDE DEF mine
<1> QED
  BY <1>1, <1>2, FamShares

LEMMA FamInvImplies ==
  ASSUME FamInv
  PROVE  FGTypeOK /\ FGMembersBounded /\ FGOwnerStays
<1>1. FamTyped /\ \A g \in FgGroups, u \in FgUsers : fgRows[g][u] \in Nat
  BY DEF FamInv, FamTyped
<1>2. ASSUME NEW g \in FgGroups
      PROVE  FgSize(fgRows[g]) <= FgMaxMembers + Cardinality(FgSessions) - 1
  <2>1. FgSize(fgRows[g]) + Cardinality(FamAdders(g)) <= FgMaxMembers + Cardinality(FgSessions) - 1
    BY DEF FamInv, FamRoomInv
  <2>2. Cardinality(FamAdders(g)) \in Nat
    BY FamCounts DEF FamAdders
  <2>3. FgSize(fgRows[g]) \in Nat
    BY <1>1, FamSizes
  <2> QED
    BY <2>1, <2>2, <2>3, FamFinite
<1>3. ASSUME NEW u \in FgUsers PROVE FgMemberships(u) <= Cardinality(FgSessions)
  <2>1. FgMemberships(u) + Cardinality(FamJoiners(u)) <= Cardinality(FgSessions)
    BY DEF FamInv, FamOneInv
  <2>2. Cardinality(FamJoiners(u)) \in Nat
    BY FamCounts DEF FamJoiners
  <2>3. FgMemberships(u) \in Nat
    BY <1>1, FamShare
  <2> QED
    BY <2>1, <2>2, <2>3, FamFinite
<1>4. FGTypeOK
  <2>1. ASSUME NEW g \in FgGroups, NEW u \in FgUsers
        PROVE  fgRows[g][u] \in 0..Cardinality(FgSessions)
    <3>1. fgRows[g][u] <= FgMemberships(u) /\ FgMemberships(u) \in Nat
      BY <1>1, FamShare
    <3> QED
      BY <1>1, <1>3, <3>1, FamFinite
  <2>2. fgRows \in [FgGroups -> [FgUsers -> 0..Cardinality(FgSessions)]]
    BY <1>1, <2>1 DEF FamTyped
  <2> QED
    BY <1>1, <2>2 DEF FamTyped, FamGroup, FGTypeOK
<1>5. FGOwnerStays
  <2>1. ASSUME NEW g \in FgGroups \ fgLate, fgGroup[g].status = "inactive"
        PROVE  FgSize(fgRows[g]) = 0
    <3>1. FamEmpty(g)
      BY <2>1 DEF FamInv, FamOwnerInv
    <3> QED
      BY <1>1, <3>1, FamSizes DEF FamEmpty
  <2> QED
    BY <2>1 DEF FamInv, FamOwnerInv, FamOwned, FGOwnerStays
<1> QED
  BY <1>2, <1>3, <1>4, <1>5 DEF FGMembersBounded

LEMMA FamInit == FGInit => FamInv
<1> SUFFICES ASSUME FGInit PROVE FamInv
  OBVIOUS
<1>1. /\ fgGroup = [g \in FgGroups |-> FgNoGroup]
      /\ fgRows = [g \in FgGroups |-> [u \in FgUsers |-> 0]]
      /\ fgSession = [k \in FgSessions |-> FgIdle] /\ fgBroken = {} /\ fgLate = {}
  BY DEF FGInit
<1>2. FamTyped
  BY <1>1 DEF FamTyped, FamGroup, FamCall, FgIdle
<1>3. \A g \in FgGroups : FamEmpty(g)
  BY <1>1 DEF FamEmpty
<1>4. \A k \in FgSessions : fgSession[k].doing = "idle"
  BY <1>1 DEF FgIdle
<1>5. \A g \in FgGroups : fgGroup[g].status = "none"
  BY <1>1 DEF FgNoGroup
<1>6. ASSUME NEW g \in FgGroups
      PROVE  FgSize(fgRows[g]) = 0 /\ Cardinality(FamAdders(g)) = 0
  <2>1. FgSize(fgRows[g]) = 0
    BY <1>2, <1>3, FamSizes DEF FamEmpty, FamTyped
  <2>2. FamAdders(g) = {}
    BY <1>4 DEF FamAdders, FamAdds
  <2> QED
    BY <2>1, <2>2, FS_EmptySet
<1>7. ASSUME NEW u \in FgUsers
      PROVE  FgMemberships(u) = 0 /\ Cardinality(FamJoiners(u)) = 0
  <2>1. FgMemberships(u) = 0
    BY <1>2, <1>3, FamShare DEF FamEmpty
  <2>2. FamJoiners(u) = {}
    BY <1>4 DEF FamJoiners, FamJoins
  <2> QED
    BY <2>1, <2>2, FS_EmptySet
<1>8. FamRoomInv /\ FamOneInv
  BY <1>6, <1>7, FamFinite DEF FamRoomInv, FamOneInv
<1>9. FamCallInv /\ FamNewInv /\ FamOwnerInv
  BY <1>3, <1>4, <1>5 DEF FamCallInv, FamCallOK, FamNewInv, FamOwnerInv, FgActive
<1> QED
  BY <1>2, <1>8, <1>9 DEF FamInv

(***************************************************************************)
(* The steps                                                               *)
(***************************************************************************)
FamTotal(rows, u) == SumFunctionOnSet([g \in FgGroups |-> rows[g][u]], FgGroups)

LEMMA FamTotals == \A u \in FgUsers :
  /\ FgMemberships(u) = FamTotal(fgRows, u)
  /\ FgMemberships(u)' = FamTotal(fgRows', u)
BY DEF FgMemberships, FamTotal

LEMMA FamTotalNat ==
  ASSUME NEW rows, \A g \in FgGroups, u \in FgUsers : rows[g][u] \in Nat
  PROVE  \A u \in FgUsers : FamTotal(rows, u) \in Nat
<1> TAKE u \in FgUsers
<1> DEFINE mine == [g \in FgGroups |-> rows[g][u]]
<1>1. \A g \in FgGroups : mine[g] \in Nat
  OBVIOUS
<1>2. FamTotal(rows, u) = SumFunctionOnSet(mine, FgGroups)
  BY DEF FamTotal
<1> HIDE DEF mine
<1> QED
  BY <1>1, <1>2, FamShares

LEMMA FamTotalLeq ==
  ASSUME NEW old, NEW new,
         \A g \in FgGroups, u \in FgUsers :
           old[g][u] \in Nat /\ new[g][u] \in Nat /\ new[g][u] <= old[g][u]
  PROVE  /\ \A g \in FgGroups : FgSize(new[g]) <= FgSize(old[g])
         /\ \A u \in FgUsers : FamTotal(new, u) <= FamTotal(old, u)
<1>1. ASSUME NEW g \in FgGroups PROVE FgSize(new[g]) <= FgSize(old[g])
  <2>1. \A u \in FgUsers : new[g][u] \in Int /\ old[g][u] \in Int /\ new[g][u] <= old[g][u]
    OBVIOUS
  <2> QED
    BY <2>1, FamFinite, SumLeq DEF FgSize
<1>2. ASSUME NEW u \in FgUsers PROVE FamTotal(new, u) <= FamTotal(old, u)
  <2> DEFINE f == [g \in FgGroups |-> new[g][u]]
             h == [g \in FgGroups |-> old[g][u]]
  <2>1. \A g \in FgGroups : f[g] \in Int /\ h[g] \in Int /\ f[g] <= h[g]
    OBVIOUS
  <2>2. FamTotal(new, u) = SumFunctionOnSet(f, FgGroups)
        /\ FamTotal(old, u) = SumFunctionOnSet(h, FgGroups)
    BY DEF FamTotal
  <2> HIDE DEF f, h
  <2> QED
    BY <2>1, <2>2, FamFinite, SumLeq
<1> QED
  BY <1>1, <1>2

LEMMA FamRowsNat ==
  /\ FamTyped => \A g \in FgGroups, u \in FgUsers : fgRows[g][u] \in Nat
  /\ FamTyped' => \A g \in FgGroups, u \in FgUsers : fgRows'[g][u] \in Nat
BY DEF FamTyped

\* What changes in the two sets when the call of one session does.
LEMMA FamMove ==
  ASSUME FamTyped, NEW k \in FgSessions, NEW c,
         fgSession' = [fgSession EXCEPT ![k] = c]
  PROVE  /\ \A g \in FgGroups : FamAdders(g)' =
              IF FamAdds(c, g) THEN FamAdders(g) \cup {k} ELSE FamAdders(g) \ {k}
         /\ \A u \in FgUsers : FamJoiners(u)' =
              IF FamJoins(c, u) THEN FamJoiners(u) \cup {k} ELSE FamJoiners(u) \ {k}
<1>1. fgSession'[k] = c /\ \A j \in FgSessions \ {k} : fgSession'[j] = fgSession[j]
  BY DEF FamTyped
<1>2. ASSUME NEW g \in FgGroups
      PROVE  FamAdders(g)' =
               IF FamAdds(c, g) THEN FamAdders(g) \cup {k} ELSE FamAdders(g) \ {k}
  <2>1. FamAdders(g)' = {j \in FgSessions : FamAdds(fgSession'[j], g)}
    BY DEF FamAdders, FamAdds
  <2> QED
    BY <1>1, <2>1 DEF FamAdders
<1>3. ASSUME NEW u \in FgUsers
      PROVE  FamJoiners(u)' =
               IF FamJoins(c, u) THEN FamJoiners(u) \cup {k} ELSE FamJoiners(u) \ {k}
  <2>1. FamJoiners(u)' = {j \in FgSessions : FamJoins(fgSession'[j], u)}
    BY DEF FamJoiners, FamJoins
  <2> QED
    BY <1>1, <2>1 DEF FamJoiners
<1> QED
  BY <1>2, <1>3

\* A step that writes no row keeps the two bounds if who is counted anew found
\* the room, or the user free.
LEMMA FamKeeps ==
  ASSUME FamTyped, FamTyped', FamRoomInv, FamOneInv,
         \A g \in FgGroups, u \in FgUsers : fgRows'[g][u] <= fgRows[g][u],
         \A g \in FgGroups :
           FamAdders(g)' \subseteq FamAdders(g) \/ FgSize(fgRows[g]) < FgMaxMembers,
         \A u \in FgUsers :
           FamJoiners(u)' \subseteq FamJoiners(u) \/ FgMemberships(u) = 0
  PROVE  FamRoomInv' /\ FamOneInv'
<1>1. /\ \A g \in FgGroups, u \in FgUsers : fgRows[g][u] \in Nat
      /\ \A g \in FgGroups, u \in FgUsers : fgRows'[g][u] \in Nat
  BY FamRowsNat
<1>2. /\ \A g \in FgGroups : FgSize(fgRows'[g]) <= FgSize(fgRows[g])
      /\ \A u \in FgUsers : FamTotal(fgRows', u) <= FamTotal(fgRows, u)
  BY <1>1, FamTotalLeq
<1>3. ASSUME NEW g \in FgGroups
      PROVE  FgSize(fgRows'[g]) + Cardinality(FamAdders(g)')
               <= FgMaxMembers + Cardinality(FgSessions) - 1
  <2>1. FgSize(fgRows[g]) \in Nat /\ FgSize(fgRows'[g]) \in Nat
    BY <1>1, FamSizes
  <2>2. /\ FamAdders(g) \in SUBSET FgSessions /\ FamAdders(g)' \in SUBSET FgSessions
    BY DEF FamAdders
  <2>3. /\ Cardinality(FamAdders(g)) \in Nat /\ Cardinality(FamAdders(g)') \in Nat
        /\ Cardinality(FamAdders(g)') <= Cardinality(FgSessions)
        /\ FamAdders(g)' \subseteq FamAdders(g)
             => Cardinality(FamAdders(g)') <= Cardinality(FamAdders(g))
    BY <2>2, FamCounts
  <2>4. FgSize(fgRows[g]) + Cardinality(FamAdders(g))
          <= FgMaxMembers + Cardinality(FgSessions) - 1
    BY DEF FamRoomInv
  <2>5. FgSize(fgRows'[g]) <= FgSize(fgRows[g])
    BY <1>2
  <2> QED
    BY <2>1, <2>3, <2>4, <2>5, FamFinite
<1>4. ASSUME NEW u \in FgUsers
      PROVE  FamTotal(fgRows', u) + Cardinality(FamJoiners(u)') <= Cardinality(FgSessions)
  <2>1. FamTotal(fgRows, u) \in Nat /\ FamTotal(fgRows', u) \in Nat
    BY <1>1, FamTotalNat
  <2>2. FamJoiners(u) \in SUBSET FgSessions /\ FamJoiners(u)' \in SUBSET FgSessions
    BY DEF FamJoiners
  <2>3. /\ Cardinality(FamJoiners(u)) \in Nat /\ Cardinality(FamJoiners(u)') \in Nat
        /\ Cardinality(FamJoiners(u)') <= Cardinality(FgSessions)
        /\ FamJoiners(u)' \subseteq FamJoiners(u)
             => Cardinality(FamJoiners(u)') <= Cardinality(FamJoiners(u))
    BY <2>2, FamCounts
  <2>4. FamTotal(fgRows, u) + Cardinality(FamJoiners(u)) <= Cardinality(FgSessions)
    BY FamTotals DEF FamOneInv
  <2>5. FamTotal(fgRows', u) <= FamTotal(fgRows, u)
    BY <1>2
  <2>6. FamJoiners(u)' \subseteq FamJoiners(u) \/ FamTotal(fgRows, u) = 0
    BY FamTotals
  <2> QED
    BY <2>1, <2>3, <2>4, <2>5, <2>6, FamFinite
<1>5. FamRoomInv'
  BY <1>3 DEF FamRoomInv
<1>6. FamOneInv'
  <2>1. ASSUME NEW u \in FgUsers
        PROVE  FgMemberships(u)' + Cardinality(FamJoiners(u)') <= Cardinality(FgSessions)
    BY <1>4, FamTotals
  <2> QED
    BY <2>1 DEF FamOneInv
<1> QED
  BY <1>5, <1>6

\* A row is written: the group and the user have one more, and one request
\* less that is to add one.
LEMMA FamWrites ==
  ASSUME FamTyped, FamTyped', FamRoomInv, FamOneInv, NEW k \in FgSessions,
         NEW g0 \in FgGroups, NEW u0 \in FgUsers,
         FamAdds(fgSession[k], g0), FamJoins(fgSession[k], u0),
         fgSession' = [fgSession EXCEPT ![k] = FgIdle],
         fgRows' = [fgRows EXCEPT ![g0][u0] = fgRows[g0][u0] + 1]
  PROVE  FamRoomInv' /\ FamOneInv'
<1>1. /\ \A g \in FgGroups, u \in FgUsers : fgRows[g][u] \in Nat
      /\ \A g \in FgGroups, u \in FgUsers : fgRows'[g][u] \in Nat
  BY FamRowsNat
<1>2. \A g \in FgGroups, u \in FgUsers :
        fgRows'[g][u] = IF g = g0 /\ u = u0 THEN fgRows[g][u] + 1 ELSE fgRows[g][u]
  BY DEF FamTyped
<1>3. /\ \A g \in FgGroups : FamAdders(g)' = FamAdders(g) \ {k}
      /\ \A u \in FgUsers : FamJoiners(u)' = FamJoiners(u) \ {k}
  <2>1. \A g \in FgGroups : ~FamAdds(FgIdle, g)
    BY DEF FamAdds, FgIdle
  <2>2. \A u \in FgUsers : ~FamJoins(FgIdle, u)
    BY DEF FamJoins, FgIdle
  <2> QED
    BY <2>1, <2>2, FamMove
<1>4. k \in FamAdders(g0) /\ k \in FamJoiners(u0)
  BY DEF FamAdders, FamJoiners
<1>5. ASSUME NEW g \in FgGroups
      PROVE  FgSize(fgRows'[g]) + Cardinality(FamAdders(g)')
               <= FgMaxMembers + Cardinality(FgSessions) - 1
  <2>1. FgSize(fgRows[g]) \in Nat /\ FgSize(fgRows'[g]) \in Nat
    BY <1>1, FamSizes
  <2>2. FamAdders(g) \in SUBSET FgSessions
    BY DEF FamAdders
  <2>3. /\ Cardinality(FamAdders(g)) \in Nat /\ Cardinality(FamAdders(g)') \in Nat
        /\ Cardinality(FamAdders(g)') <= Cardinality(FamAdders(g))
        /\ k \in FamAdders(g) => Cardinality(FamAdders(g)') = Cardinality(FamAdders(g)) - 1
    BY <1>3, <2>2, FamCounts
  <2>4. FgSize(fgRows[g]) + Cardinality(FamAdders(g))
          <= FgMaxMembers + Cardinality(FgSessions) - 1
    BY DEF FamRoomInv
  <2>5. \A u \in FgUsers : fgRows[g][u] \in Int /\ fgRows'[g][u] \in Int
    BY <1>1
  <2>6. CASE g = g0
    <3>1. \A u \in FgUsers \ {u0} : fgRows'[g][u] = fgRows[g][u]
      BY <1>2, <2>6
    <3>2. fgRows'[g][u0] = fgRows[g][u0] + 1
      BY <1>2, <2>6
    <3> DEFINE old == fgRows[g]
               new == fgRows'[g]
    <3>3. new[u0] = fgRows'[g][u0] /\ old[u0] = fgRows[g][u0]
      OBVIOUS
    <3>4. \A u \in FgUsers : new[u] \in Int /\ old[u] \in Int
      BY <2>5
    <3>5. \A u \in FgUsers \ {u0} : new[u] = old[u]
      BY <3>1
    <3>6. FgSize(fgRows'[g]) = SumFunctionOnSet(new, FgUsers)
          /\ FgSize(fgRows[g]) = SumFunctionOnSet(old, FgUsers)
      BY DEF FgSize
    <3> HIDE DEF old, new
    <3>7. FgSize(fgRows'[g]) = FgSize(fgRows[g]) + new[u0] - old[u0]
      BY <3>4, <3>5, <3>6, FamFinite, SumChange
    <3>8. fgRows[g][u0] \in Nat
      BY <1>1
    <3> QED
      BY <1>4, <2>1, <2>3, <2>4, <2>6, <3>2, <3>3, <3>7, <3>8, FamFinite
  <2>7. CASE g # g0
    <3>1. \A u \in FgUsers : fgRows'[g][u] = fgRows[g][u]
      BY <1>2, <2>7
    <3> DEFINE old == fgRows[g]
               new == fgRows'[g]
    <3>3. \A u \in FgUsers : old[u] \in Int /\ new[u] = old[u]
      BY <2>5, <3>1
    <3>4. FgSize(fgRows'[g]) = SumFunctionOnSet(new, FgUsers)
          /\ FgSize(fgRows[g]) = SumFunctionOnSet(old, FgUsers)
      BY DEF FgSize
    <3> HIDE DEF old, new
    <3>2. FgSize(fgRows'[g]) = FgSize(fgRows[g])
      BY <3>3, <3>4, FamFinite, SumSame
    <3> QED
      BY <2>1, <2>3, <2>4, <3>2, FamFinite
  <2> QED
    BY <2>6, <2>7
<1>6. ASSUME NEW u \in FgUsers
      PROVE  FamTotal(fgRows', u) + Cardinality(FamJoiners(u)') <= Cardinality(FgSessions)
  <2>1. FamTotal(fgRows, u) \in Nat /\ FamTotal(fgRows', u) \in Nat
    BY <1>1, FamTotalNat
  <2>2. FamJoiners(u) \in SUBSET FgSessions
    BY DEF FamJoiners
  <2>3. /\ Cardinality(FamJoiners(u)) \in Nat /\ Cardinality(FamJoiners(u)') \in Nat
        /\ Cardinality(FamJoiners(u)') <= Cardinality(FamJoiners(u))
        /\ k \in FamJoiners(u) => Cardinality(FamJoiners(u)') = Cardinality(FamJoiners(u)) - 1
    BY <1>3, <2>2, FamCounts
  <2>4. FamTotal(fgRows, u) + Cardinality(FamJoiners(u)) <= Cardinality(FgSessions)
    BY FamTotals DEF FamOneInv
  <2> DEFINE old == [g \in FgGroups |-> fgRows[g][u]]
             new == [g \in FgGroups |-> fgRows'[g][u]]
  <2>5. \A g \in FgGroups : old[g] \in Int /\ new[g] \in Int
    BY <1>1
  <2>6. FamTotal(fgRows, u) = SumFunctionOnSet(old, FgGroups)
        /\ FamTotal(fgRows', u) = SumFunctionOnSet(new, FgGroups)
    BY DEF FamTotal
  <2>7. CASE u = u0
    <3>1. \A g \in FgGroups \ {g0} : new[g] = old[g]
      BY <1>2
    <3>2. new[g0] = old[g0] + 1 /\ old[g0] \in Nat
      BY <1>1, <1>2, <2>7
    <3> HIDE DEF old, new
    <3>3. FamTotal(fgRows', u) = FamTotal(fgRows, u) + new[g0] - old[g0]
      BY <2>5, <2>6, <3>1, FamFinite, SumChange
    <3> QED
      BY <1>4, <2>1, <2>3, <2>4, <2>7, <3>2, <3>3, FamFinite
  <2>8. CASE u # u0
    <3>1. \A g \in FgGroups : new[g] = old[g]
      BY <1>2, <2>8
    <3> HIDE DEF old, new
    <3>2. FamTotal(fgRows', u) = FamTotal(fgRows, u)
      BY <2>5, <2>6, <3>1, FamFinite, SumSame
    <3> QED
      BY <2>1, <2>3, <2>4, <3>2, FamFinite
  <2> QED
    BY <2>7, <2>8
<1>7. FamRoomInv'
  BY <1>5 DEF FamRoomInv
<1>8. FamOneInv'
  <2>1. ASSUME NEW u \in FgUsers
        PROVE  FgMemberships(u)' + Cardinality(FamJoiners(u)') <= Cardinality(FgSessions)
    BY <1>6, FamTotals
  <2> QED
    BY <2>1 DEF FamOneInv
<1> QED
  BY <1>7, <1>8

LEMMA FamFree ==
  ASSUME FamTyped, NEW u \in FgUsers, FgFree(u)
  PROVE  FgMemberships(u) = 0
<1>1. \A g \in FgGroups : fgRows[g][u] = 0
  BY DEF FamTyped, FgFree, FgGroupsOf
<1> QED
  BY <1>1, FamShare

\* A step that checks something and writes nothing.
LEMMA FamChecks ==
  ASSUME FamInv, NEW k \in FgSessions, NEW c \in FamCall,
         fgSession' = [fgSession EXCEPT ![k] = c],
         UNCHANGED <<fgGroup, fgRows, fgBroken, fgLate>>,
         fgSession[k].doing \notin {"owner", "close"}, FamCallOK(c),
         \A g \in FgGroups : FamAdds(c, g) =>
           FamAdds(fgSession[k], g) \/ FgSize(fgRows[g]) < FgMaxMembers,
         \A u \in FgUsers : FamJoins(c, u) =>
           FamJoins(fgSession[k], u) \/ FgMemberships(u) = 0
  PROVE  FamInv'
<1>1. FamTyped /\ FamCallInv /\ FamNewInv /\ FamRoomInv /\ FamOneInv /\ FamOwnerInv
  BY DEF FamInv
<1>2. fgGroup' = fgGroup /\ fgRows' = fgRows /\ fgBroken' = fgBroken /\ fgLate' = fgLate
  OBVIOUS
<1>3. fgSession'[k] = c /\ \A j \in FgSessions \ {k} : fgSession'[j] = fgSession[j]
  BY <1>1 DEF FamTyped
<1>4. FamTyped'
  <2>1. fgSession' \in [FgSessions -> FamCall]
    BY <1>1 DEF FamTyped
  <2> QED
    BY <1>1, <1>2, <2>1 DEF FamTyped
<1>5. FamRoomInv' /\ FamOneInv'
  <2>1. ASSUME NEW g \in FgGroups
        PROVE  FamAdders(g)' \subseteq FamAdders(g) \/ FgSize(fgRows[g]) < FgMaxMembers
    <3>1. FamAdders(g)' = IF FamAdds(c, g) THEN FamAdders(g) \cup {k} ELSE FamAdders(g) \ {k}
      BY <1>1, FamMove
    <3>2. FamAdds(fgSession[k], g) => k \in FamAdders(g)
      BY DEF FamAdders
    <3> QED
      BY <3>1, <3>2
  <2>2. ASSUME NEW u \in FgUsers
        PROVE  FamJoiners(u)' \subseteq FamJoiners(u) \/ FgMemberships(u) = 0
    <3>1. FamJoiners(u)' =
            IF FamJoins(c, u) THEN FamJoiners(u) \cup {k} ELSE FamJoiners(u) \ {k}
      BY <1>1, FamMove
    <3>2. FamJoins(fgSession[k], u) => k \in FamJoiners(u)
      BY DEF FamJoiners
    <3> QED
      BY <3>1, <3>2
  <2>3. \A g \in FgGroups, u \in FgUsers : fgRows'[g][u] <= fgRows[g][u]
    BY <1>1, <1>2, FamRowsNat
  <2> QED
    BY <1>1, <1>4, <2>1, <2>2, <2>3, FamKeeps
<1>6. FamCallInv'
  <2>1. ASSUME NEW j \in FgSessions PROVE FamCallOK(fgSession'[j])
    BY <1>1, <1>3 DEF FamCallInv
  <2>2. ASSUME NEW j \in FgSessions PROVE FamCallOK(fgSession[j])'
    BY <1>2, <2>1 DEF FamCallOK, FamEmpty
  <2> QED
    BY <2>2 DEF FamCallInv
<1>7. FamNewInv'
  BY <1>1, <1>2 DEF FamNewInv, FamEmpty
<1>8. FamOwnerInv'
  <2>1. ASSUME NEW g \in FgActive' \ fgBroken' PROVE FamOwned(g)'
    <3>1. g \in FgActive \ fgBroken
      BY <1>2 DEF FgActive
    <3>2. FamOwned(g)
      BY <1>1, <3>1 DEF FamOwnerInv
    <3>3. CASE fgRows[g][fgGroup[g].owner] > 0
      BY <1>2, <3>3 DEF FamOwned
    <3>4. ASSUME NEW j \in FgSessions, fgSession[j].doing \in {"owner", "close"},
                 fgSession[j].group = g
          PROVE  FamOwned(g)'
      <4>1. j # k
        BY <3>4
      <4> QED
        BY <1>3, <3>4, <4>1 DEF FamOwned
    <3> QED
      BY <3>2, <3>3, <3>4 DEF FamOwned
  <2>2. ASSUME NEW g \in FgGroups \ fgLate', fgGroup'[g].status = "inactive"
        PROVE  FamEmpty(g)'
    BY <1>1, <1>2, <2>2 DEF FamOwnerInv, FamEmpty
  <2> QED
    BY <2>1, <2>2 DEF FamOwnerInv
<1> QED
  BY <1>4, <1>5, <1>6, <1>7, <1>8 DEF FamInv

LEMMA FamCheckOwner ==
  ASSUME FamInv, NEW k \in FgSessions, NEW u \in FgUsers, FGCheckOwner(k, u)
  PROVE  FamInv'
<1> DEFINE c == [doing |-> "create", user |-> u]
<1>1. /\ fgSession' = [fgSession EXCEPT ![k] = c] /\ fgSession[k].doing = "idle"
      /\ UNCHANGED <<fgGroup, fgRows, fgBroken, fgLate>>
  BY DEF FGCheckOwner, FgStart, FgSet, FgDoing
<1>2. c \in FamCall /\ FamCallOK(c)
  BY DEF FamCall, FamCallOK
<1>3. (\A g \in FgGroups : ~FamAdds(c, g)) /\ \A v \in FgUsers : ~FamJoins(c, v)
  BY DEF FamAdds, FamJoins
<1>4. fgSession[k].doing \notin {"owner", "close"}
  BY <1>1
<1> HIDE DEF c
<1> QED
  BY <1>1, <1>2, <1>3, <1>4, FamChecks

LEMMA FamCheckFree ==
  ASSUME FamInv, NEW k \in FgSessions, FGCheckFree(k)
  PROVE  FamInv'
<1> DEFINE call == fgSession[k]
           c == IF FgFree(call.user) THEN [call EXCEPT !.doing = "insert"] ELSE FgIdle
<1>1. /\ fgSession' = [fgSession EXCEPT ![k] = c] /\ call.doing = "create"
      /\ UNCHANGED <<fgGroup, fgRows, fgBroken, fgLate>>
  BY DEF FGCheckFree, FgCheck, FgSet, FgDoing
<1>2. call \in FamCall /\ FamTyped
  BY DEF FamInv, FamTyped
<1>3. call \in [doing : {"create", "insert"}, user : FgUsers]
  BY <1>1, <1>2 DEF FamCall
<1>4. c \in [doing : {"create", "insert"}, user : FgUsers] \/ c = FgIdle
  BY <1>3
<1>5. c # FgIdle => c.doing = "insert" /\ c.user = call.user /\ FgFree(call.user)
  BY <1>3
<1>6. c \in FamCall
  BY <1>4 DEF FamCall, FgIdle
<1>7. c.doing \in {"insert", "idle"}
  BY <1>5 DEF FgIdle
<1>8. FamCallOK(c) /\ \A g \in FgGroups : ~FamAdds(c, g)
  BY <1>7 DEF FamCallOK, FamAdds
<1>9. \A v \in FgUsers : FamJoins(c, v) => FgMemberships(v) = 0
  BY <1>2, <1>5, FamFree DEF FamJoins, FgIdle
<1>10. fgSession[k].doing \notin {"owner", "close"}
  BY <1>1
<1> HIDE DEF c
<1> QED
  BY <1>1, <1>6, <1>8, <1>9, <1>10, FamChecks

LEMMA FamCheckRoom ==
  ASSUME FamInv, NEW k \in FgSessions, NEW g \in FgGroups, NEW u \in FgUsers,
         FGCheckRoom(k, g, u)
  PROVE  FamInv'
<1> DEFINE c == [doing |-> "add", group |-> g, user |-> u]
<1>1. /\ fgSession' = [fgSession EXCEPT ![k] = c] /\ fgSession[k].doing = "idle"
      /\ UNCHANGED <<fgGroup, fgRows, fgBroken, fgLate>>
      /\ g \in FgActive /\ FgSize(fgRows[g]) < FgMaxMembers
  BY DEF FGCheckRoom, FgRoom, FgStart, FgSet, FgDoing
<1>2. c \in FamCall
  BY DEF FamCall
<1>3. fgGroup[g] # FgNoGroup
  BY <1>1 DEF FgActive, FgNoGroup
<1>4. FamCallOK(c)
  BY <1>3 DEF FamCallOK
<1>5. (\A h \in FgGroups : FamAdds(c, h) => h = g) /\ \A v \in FgUsers : ~FamJoins(c, v)
  BY DEF FamAdds, FamJoins
<1>6. fgSession[k].doing \notin {"owner", "close"}
  BY <1>1
<1> HIDE DEF c
<1> QED
  BY <1>1, <1>2, <1>4, <1>5, <1>6, FamChecks

LEMMA FamCheckMember ==
  ASSUME FamInv, NEW k \in FgSessions, FGCheckMember(k)
  PROVE  FamInv'
<1> DEFINE call == fgSession[k]
           c == IF FgFree(call.user) THEN [call EXCEPT !.doing = "join"] ELSE FgIdle
           adding == [doing : {"owner", "add", "join"}, group : FgGroups, user : FgUsers]
<1>1. /\ fgSession' = [fgSession EXCEPT ![k] = c] /\ call.doing = "add"
      /\ UNCHANGED <<fgGroup, fgRows, fgBroken, fgLate>>
  BY DEF FGCheckMember, FgCheck, FgSet, FgDoing
<1>2. call \in FamCall /\ FamTyped /\ FamCallOK(call)
  BY DEF FamInv, FamTyped, FamCallInv
<1>3. call \in adding
  BY <1>1, <1>2 DEF FamCall
<1>4. c \in adding \/ c = FgIdle
  BY <1>3
<1>5. c # FgIdle => /\ c.doing = "join" /\ c.user = call.user /\ c.group = call.group
                    /\ FgFree(call.user)
  BY <1>3
<1>6. c \in FamCall
  BY <1>4 DEF FamCall, FgIdle
<1>7. FamCallOK(c)
  BY <1>1, <1>2, <1>5 DEF FamCallOK, FgIdle
<1>8. \A g \in FgGroups : FamAdds(c, g) => FamAdds(fgSession[k], g)
  BY <1>1, <1>5 DEF FamAdds, FgIdle
<1>9. \A v \in FgUsers : FamJoins(c, v) => FgMemberships(v) = 0
  BY <1>2, <1>5, FamFree DEF FamJoins, FgIdle
<1>10. fgSession[k].doing \notin {"owner", "close"}
  BY <1>1
<1> HIDE DEF c
<1> QED
  BY <1>1, <1>6, <1>7, <1>8, <1>9, <1>10, FamChecks

LEMMA FamInsertGroup ==
  ASSUME FamInv, NEW k \in FgSessions, NEW g \in FgGroups, FGInsertGroup(k, g)
  PROVE  FamInv'
<1> DEFINE call == fgSession[k]
           c == [doing |-> "owner", group |-> g, user |-> call.user]
           row == [status |-> "active", owner |-> call.user]
<1>1. FamTyped /\ FamCallInv /\ FamNewInv /\ FamRoomInv /\ FamOneInv /\ FamOwnerInv
  BY DEF FamInv
<1>2. /\ fgSession' = [fgSession EXCEPT ![k] = c] /\ call.doing = "insert"
      /\ fgGroup[g] = FgNoGroup /\ fgGroup' = [fgGroup EXCEPT ![g] = row]
      /\ fgRows' = fgRows /\ fgBroken' = fgBroken /\ fgLate' = fgLate
  BY DEF FGInsertGroup, FgSet, FgDoing
<1>3. call \in FamCall
  BY <1>1 DEF FamTyped
<1>4. call.user \in FgUsers
  BY <1>2, <1>3 DEF FamCall
<1>5. c \in FamCall /\ row \in FamGroup
  BY <1>4 DEF FamCall, FamGroup
<1>6. c.doing = "owner" /\ c.group = g /\ c.user = call.user
      /\ row.status = "active" /\ row.owner = call.user /\ row # FgNoGroup
  BY DEF FgNoGroup
<1> HIDE DEF c, row
<1>7. FamTyped'
  BY <1>1, <1>2, <1>5 DEF FamTyped
<1>8. /\ fgSession'[k] = c /\ \A j \in FgSessions \ {k} : fgSession'[j] = fgSession[j]
      /\ fgGroup'[g] = row /\ \A h \in FgGroups \ {g} : fgGroup'[h] = fgGroup[h]
  BY <1>1, <1>2 DEF FamTyped
<1>9. FamEmpty(g)
  BY <1>1, <1>2 DEF FamNewInv
<1>10. FgSize(fgRows[g]) < FgMaxMembers
  <2>1. \A u \in FgUsers : fgRows[g][u] = 0
    BY <1>9 DEF FamEmpty
  <2>2. \A u \in FgUsers : fgRows[g][u] \in Nat
    BY <2>1
  <2> QED
    BY <2>1, <2>2, FamSizes, FamFinite
<1>11. FamRoomInv' /\ FamOneInv'
  <2>1. ASSUME NEW h \in FgGroups
        PROVE  FamAdders(h)' \subseteq FamAdders(h) \/ FgSize(fgRows[h]) < FgMaxMembers
    <3>1. FamAdders(h)' = IF FamAdds(c, h) THEN FamAdders(h) \cup {k} ELSE FamAdders(h) \ {k}
      BY <1>1, <1>2, FamMove
    <3>2. FamAdds(c, h) => h = g
      BY <1>6 DEF FamAdds
    <3> QED
      BY <1>10, <3>1, <3>2
  <2>2. ASSUME NEW u \in FgUsers
        PROVE  FamJoiners(u)' \subseteq FamJoiners(u) \/ FgMemberships(u) = 0
    <3>1. FamJoiners(u)' =
            IF FamJoins(c, u) THEN FamJoiners(u) \cup {k} ELSE FamJoiners(u) \ {k}
      BY <1>1, <1>2, FamMove
    <3>2. FamJoins(c, u) => k \in FamJoiners(u)
      BY <1>2, <1>6 DEF FamJoins, FamJoiners
    <3> QED
      BY <3>1, <3>2
  <2>3. \A h \in FgGroups, u \in FgUsers : fgRows'[h][u] <= fgRows[h][u]
    BY <1>1, <1>2, FamRowsNat
  <2> QED
    BY <1>1, <1>7, <2>1, <2>2, <2>3, FamKeeps
<1>12. FamCallInv'
  <2>1. ASSUME NEW j \in FgSessions PROVE FamCallOK(fgSession[j])'
    <3>1. CASE j = k
      BY <1>6, <1>8, <3>1 DEF FamCallOK
    <3>2. CASE j # k
      <4>1. FamCallOK(fgSession[j]) /\ fgSession'[j] = fgSession[j]
        BY <1>1, <1>8, <3>2 DEF FamCallInv
      <4>2. fgSession[j] \in FamCall
        BY <1>1 DEF FamTyped
      <4>3. ASSUME fgSession[j].doing \in {"owner", "add", "join", "close"}
            PROVE  fgSession[j].group \in FgGroups \ {g}
        BY <1>2, <4>1, <4>2, <4>3 DEF FamCall, FamCallOK
      <4>4. ASSUME fgSession[j].doing \in {"owner", "add", "join", "close"}
            PROVE  fgGroup'[fgSession[j].group] = fgGroup[fgSession[j].group]
        BY <1>8, <4>3, <4>4
      <4> QED
        BY <1>2, <4>1, <4>4 DEF FamCallOK, FamEmpty
    <3> QED
      BY <3>1, <3>2
  <2> QED
    BY <2>1 DEF FamCallInv
<1>13. FamNewInv'
  <2>1. ASSUME NEW h \in FgGroups, fgGroup'[h] = FgNoGroup PROVE FamEmpty(h)'
    <3>1. h # g
      BY <1>6, <1>8, <2>1
    <3>2. FamEmpty(h)
      BY <1>1, <1>8, <2>1, <3>1 DEF FamNewInv
    <3> QED
      BY <1>2, <3>2 DEF FamEmpty
  <2> QED
    BY <2>1 DEF FamNewInv
<1>14. FamOwnerInv'
  <2>1. ASSUME NEW h \in FgActive' \ fgBroken' PROVE FamOwned(h)'
    <3>1. CASE h = g
      BY <1>6, <1>8, <3>1 DEF FamOwned
    <3>2. CASE h # g
      <4>1. h \in FgGroups /\ fgGroup'[h] = fgGroup[h] /\ fgGroup'[h].status = "active"
        BY <1>8, <3>2 DEF FgActive
      <4>2. FamOwned(h)
        BY <1>1, <1>2, <4>1 DEF FamOwnerInv, FgActive
      <4>3. ASSUME fgRows[h][fgGroup[h].owner] > 0 PROVE FamOwned(h)'
        BY <1>2, <4>1, <4>3 DEF FamOwned
      <4>4. ASSUME NEW j \in FgSessions, fgSession[j].doing \in {"owner", "close"},
                   fgSession[j].group = h
            PROVE  FamOwned(h)'
        <5>1. j # k
          BY <1>2, <4>4
        <5> QED
          BY <1>8, <4>4, <5>1 DEF FamOwned
      <4> QED
        BY <4>2, <4>3, <4>4 DEF FamOwned
    <3> QED
      BY <3>1, <3>2
  <2>2. ASSUME NEW h \in FgGroups \ fgLate', fgGroup'[h].status = "inactive"
        PROVE  FamEmpty(h)'
    <3>1. h # g
      BY <1>6, <1>8, <2>2
    <3>2. FamEmpty(h)
      BY <1>1, <1>2, <1>8, <2>2, <3>1 DEF FamOwnerInv
    <3> QED
      BY <1>2, <3>2 DEF FamEmpty
  <2> QED
    BY <2>1, <2>2 DEF FamOwnerInv
<1> QED
  BY <1>7, <1>11, <1>12, <1>13, <1>14 DEF FamInv

\* The row of an owner or of a member is inserted.
LEMMA FamInserts ==
  ASSUME FamInv, NEW k \in FgSessions, fgSession[k].doing \in {"owner", "join"},
         FgInsertRow(fgSession[k].group, fgSession[k].user), FgSet(k, FgIdle),
         UNCHANGED <<fgGroup, fgBroken>>
  PROVE  FamInv'
<1> DEFINE call == fgSession[k]
<1>1. FamTyped /\ FamCallInv /\ FamNewInv /\ FamRoomInv /\ FamOneInv /\ FamOwnerInv
  BY DEF FamInv
<1>2. call \in FamCall /\ FamCallOK(call)
  BY <1>1 DEF FamTyped, FamCallInv
<1>3. call.group \in FgGroups /\ call.user \in FgUsers
  BY <1>2 DEF FamCall
<1>4. PICK g \in FgGroups : g = call.group
  BY <1>3
<1>5. PICK u \in FgUsers : u = call.user
  BY <1>3
<1>6. fgGroup[g] # FgNoGroup /\ (call.doing = "owner" => fgGroup[g].owner = u)
  BY <1>2, <1>4, <1>5 DEF FamCallOK
<1>7. /\ fgSession' = [fgSession EXCEPT ![k] = FgIdle]
      /\ fgRows' = [fgRows EXCEPT ![g][u] = fgRows[g][u] + 1]
      /\ fgGroup' = fgGroup /\ fgBroken' = fgBroken
  BY <1>4, <1>5 DEF FgInsertRow, FgSet
<1>8. /\ fgLate \subseteq fgLate' /\ fgLate' \subseteq FgGroups
      /\ fgGroup[g].status = "inactive" => g \in fgLate'
      /\ \A j \in FgSessions :
           fgSession[j].doing = "close" /\ fgSession[j].group = g => g \in fgLate'
  BY <1>1, <1>4 DEF FgInsertRow, FgDoing, FamTyped
<1>9. /\ fgSession'[k] = FgIdle /\ \A j \in FgSessions \ {k} : fgSession'[j] = fgSession[j]
  BY <1>1, <1>7 DEF FamTyped
<1>10. \A h \in FgGroups, v \in FgUsers :
         fgRows'[h][v] = IF h = g /\ v = u THEN fgRows[h][v] + 1 ELSE fgRows[h][v]
  BY <1>1, <1>7 DEF FamTyped
<1>11. \A h \in FgGroups \ {g} : FamEmpty(h) => FamEmpty(h)'
  BY <1>10 DEF FamEmpty
<1>12. FamTyped'
  <2>1. fgSession' \in [FgSessions -> FamCall]
    BY <1>1, <1>7 DEF FamTyped, FamCall, FgIdle
  <2>2. fgRows' \in [FgGroups -> [FgUsers -> Nat]]
    BY <1>1, <1>7 DEF FamTyped
  <2> QED
    BY <1>1, <1>7, <1>8, <2>1, <2>2 DEF FamTyped
<1>13. FamRoomInv' /\ FamOneInv'
  <2>1. FamAdds(fgSession[k], g) /\ FamJoins(fgSession[k], u)
    BY <1>4, <1>5 DEF FamAdds, FamJoins
  <2> QED
    BY <1>1, <1>7, <1>12, <2>1, FamWrites
<1>14. FamCallInv'
  <2>1. ASSUME NEW j \in FgSessions PROVE FamCallOK(fgSession[j])'
    <3>1. CASE j = k
      BY <1>9, <3>1 DEF FamCallOK, FgIdle
    <3>2. CASE j # k
      <4>1. FamCallOK(fgSession[j]) /\ fgSession'[j] = fgSession[j]
        BY <1>1, <1>9, <3>2 DEF FamCallInv
      <4>2. fgSession[j] \in FamCall
        BY <1>1 DEF FamTyped
      <4>3. ASSUME fgSession[j].doing = "close"
            PROVE  fgSession[j].group \in fgLate' \/ FamEmpty(fgSession[j].group)'
        <5>1. fgSession[j].group \in FgGroups
          BY <4>2, <4>3 DEF FamCall
        <5>2. fgSession[j].group \in fgLate \/ FamEmpty(fgSession[j].group)
          BY <4>1, <4>3 DEF FamCallOK
        <5>3. CASE fgSession[j].group = g
          BY <1>8, <4>3, <5>3
        <5>4. CASE fgSession[j].group # g
          <6>1. PICK h \in FgGroups \ {g} : h = fgSession[j].group
            BY <5>1, <5>4
          <6>2. FamEmpty(h) => \A v \in FgUsers : fgRows'[h][v] = 0
            BY <1>11 DEF FamEmpty
          <6> QED
            BY <1>8, <4>1, <5>2, <6>1, <6>2 DEF FamEmpty
        <5> QED
          BY <5>3, <5>4
      <4> QED
        BY <1>7, <4>1, <4>3 DEF FamCallOK
    <3> QED
      BY <3>1, <3>2
  <2> QED
    BY <2>1 DEF FamCallInv
<1>15. FamNewInv'
  <2>1. ASSUME NEW h \in FgGroups, fgGroup'[h] = FgNoGroup PROVE FamEmpty(h)'
    BY <1>1, <1>6, <1>7, <1>11, <2>1 DEF FamNewInv
  <2> QED
    BY <2>1 DEF FamNewInv
<1>16. FamOwnerInv'
  <2>1. ASSUME NEW h \in FgActive' \ fgBroken' PROVE FamOwned(h)'
    <3>1. h \in FgActive \ fgBroken /\ h \in FgGroups
      BY <1>7 DEF FgActive
    <3>2. FamOwned(h) /\ fgGroup[h].status = "active" /\ fgGroup[h] \in FamGroup
      BY <1>1, <3>1 DEF FamOwnerInv, FgActive, FamTyped
    <3>3. fgGroup[h].owner \in FgUsers
      BY <3>2 DEF FamGroup, FgNoGroup
    <3>4. \A v \in FgUsers : fgRows[h][v] \in Nat
      BY <1>1, <3>1 DEF FamTyped
    <3>5. ASSUME fgRows[h][fgGroup[h].owner] > 0 PROVE FamOwned(h)'
      <4>1. fgRows'[h][fgGroup[h].owner] > 0
        BY <1>10, <3>1, <3>3, <3>4, <3>5
      <4> QED
        BY <1>7, <4>1 DEF FamOwned
    <3>6. ASSUME NEW j \in FgSessions, fgSession[j].doing \in {"owner", "close"},
                 fgSession[j].group = h
          PROVE  FamOwned(h)'
      <4>1. CASE j # k
        BY <1>9, <3>6, <4>1 DEF FamOwned
      <4>2. CASE j = k
        <5>1. h = g /\ fgGroup[h].owner = u
          BY <1>4, <1>6, <3>6, <4>2
        <5>2. fgRows'[h][fgGroup[h].owner] > 0
          BY <1>10, <3>4, <5>1
        <5> QED
          BY <1>7, <5>2 DEF FamOwned
      <4> QED
        BY <4>1, <4>2
    <3> QED
      BY <3>2, <3>5, <3>6 DEF FamOwned
  <2>2. ASSUME NEW h \in FgGroups \ fgLate', fgGroup'[h].status = "inactive"
        PROVE  FamEmpty(h)'
    <3>1. h # g /\ h \in FgGroups \ fgLate
      BY <1>7, <1>8, <2>2
    <3> QED
      BY <1>1, <1>7, <1>11, <2>2, <3>1 DEF FamOwnerInv
  <2> QED
    BY <2>1, <2>2 DEF FamOwnerInv
<1> QED
  BY <1>12, <1>13, <1>14, <1>15, <1>16 DEF FamInv

LEMMA FamRemove ==
  ASSUME FamInv, NEW g \in FgGroups, NEW u \in FgUsers, FGRemove(g, u)
  PROVE  FamInv'
<1>1. FamTyped /\ FamCallInv /\ FamNewInv /\ FamRoomInv /\ FamOneInv /\ FamOwnerInv
  BY DEF FamInv
<1>2. /\ fgRows' = [fgRows EXCEPT ![g][u] = 0] /\ u # fgGroup[g].owner
      /\ fgGroup' = fgGroup /\ fgSession' = fgSession /\ fgBroken' = fgBroken
      /\ fgLate' = fgLate
  BY DEF FGRemove, FgRemovable
<1>3. \A h \in FgGroups, v \in FgUsers :
        fgRows'[h][v] = IF h = g /\ v = u THEN 0 ELSE fgRows[h][v]
  BY <1>1, <1>2 DEF FamTyped
<1>4. FamTyped'
  <2>1. fgRows' \in [FgGroups -> [FgUsers -> Nat]]
    BY <1>1, <1>2 DEF FamTyped
  <2> QED
    BY <1>1, <1>2, <2>1 DEF FamTyped
<1>5. \A h \in FgGroups : FamEmpty(h) => FamEmpty(h)'
  BY <1>3 DEF FamEmpty
<1>6. FamRoomInv' /\ FamOneInv'
  <2>1. \A h \in FgGroups : FamAdders(h)' = FamAdders(h)
    BY <1>2 DEF FamAdders
  <2>2. \A v \in FgUsers : FamJoiners(v)' = FamJoiners(v)
    BY <1>2 DEF FamJoiners
  <2>3. \A h \in FgGroups, v \in FgUsers : fgRows'[h][v] <= fgRows[h][v]
    <3>1. \A h \in FgGroups, v \in FgUsers : fgRows[h][v] \in Nat
      BY <1>1, FamRowsNat
    <3> QED
      BY <1>3, <3>1
  <2> QED
    BY <1>1, <1>4, <2>1, <2>2, <2>3, FamKeeps
<1>7. FamCallInv'
  <2>1. ASSUME NEW j \in FgSessions PROVE FamCallOK(fgSession[j])'
    <3>1. FamCallOK(fgSession[j])
      BY <1>1 DEF FamCallInv
    <3>2. fgSession[j].doing = "close" => fgSession[j].group \in FgGroups
      BY <1>1 DEF FamTyped, FamCall
    <3>3. ASSUME fgSession[j].doing = "close"
          PROVE  fgSession[j].group \in fgLate' \/ FamEmpty(fgSession[j].group)'
      <4>1. fgSession[j].group \in FgGroups
        BY <3>2, <3>3
      <4>2. PICK h \in FgGroups : h = fgSession[j].group
        BY <4>1
      <4>3. h \in fgLate \/ FamEmpty(h)
        BY <3>1, <3>3, <4>2 DEF FamCallOK
      <4>4. h \in fgLate' \/ \A v \in FgUsers : fgRows'[h][v] = 0
        BY <1>2, <1>5, <4>3 DEF FamEmpty
      <4> QED
        BY <1>2, <4>2, <4>4 DEF FamEmpty
    <3> QED
      BY <1>2, <3>1, <3>3 DEF FamCallOK
  <2> QED
    BY <2>1 DEF FamCallInv
<1>8. FamNewInv'
  BY <1>1, <1>2, <1>5 DEF FamNewInv
<1>9. FamOwnerInv'
  <2>1. ASSUME NEW h \in FgActive' \ fgBroken' PROVE FamOwned(h)'
    <3>1. h \in FgActive \ fgBroken /\ h \in FgGroups
      BY <1>2 DEF FgActive
    <3>2. FamOwned(h) /\ fgGroup[h].status = "active" /\ fgGroup[h] \in FamGroup
      BY <1>1, <3>1 DEF FamOwnerInv, FgActive, FamTyped
    <3>3. fgGroup[h].owner \in FgUsers
      BY <3>2 DEF FamGroup, FgNoGroup
    <3>4. fgRows'[h][fgGroup[h].owner] = fgRows[h][fgGroup[h].owner]
      BY <1>2, <1>3, <3>1, <3>3
    <3> QED
      BY <1>2, <3>2, <3>4 DEF FamOwned
  <2>2. \A h \in FgGroups \ fgLate' : fgGroup'[h].status = "inactive" => FamEmpty(h)'
    BY <1>1, <1>2, <1>5 DEF FamOwnerInv
  <2> QED
    BY <2>1, <2>2 DEF FamOwnerInv
<1> QED
  BY <1>4, <1>6, <1>7, <1>8, <1>9 DEF FamInv

LEMMA FamRemoveAll ==
  ASSUME FamInv, NEW k \in FgSessions, NEW g \in FgGroups, FGRemoveAll(k, g)
  PROVE  FamInv'
<1> DEFINE c == [doing |-> "close", group |-> g]
<1>1. FamTyped /\ FamCallInv /\ FamNewInv /\ FamRoomInv /\ FamOneInv /\ FamOwnerInv
  BY DEF FamInv
<1>2. /\ fgRows' = [fgRows EXCEPT ![g] = [u \in FgUsers |-> 0]] /\ fgGroup[g] # FgNoGroup
      /\ fgSession' = [fgSession EXCEPT ![k] = c] /\ fgSession[k].doing = "idle"
      /\ fgGroup' = fgGroup /\ fgBroken' = fgBroken /\ fgLate' = fgLate
  BY DEF FGRemoveAll, FgCleared, FgStart, FgDoing, FgSet
<1>3. \A h \in FgGroups, v \in FgUsers :
        fgRows'[h][v] = IF h = g THEN 0 ELSE fgRows[h][v]
  BY <1>1, <1>2 DEF FamTyped
<1>4. c \in FamCall /\ c.doing = "close" /\ c.group = g
  BY DEF FamCall
<1> HIDE DEF c
<1>5. fgSession'[k] = c /\ \A j \in FgSessions \ {k} : fgSession'[j] = fgSession[j]
  BY <1>1, <1>2 DEF FamTyped
<1>6. FamTyped'
  <2>1. fgRows' \in [FgGroups -> [FgUsers -> Nat]]
    BY <1>1, <1>2 DEF FamTyped
  <2> QED
    BY <1>1, <1>2, <1>4, <2>1 DEF FamTyped
<1>7. FamEmpty(g)' /\ \A h \in FgGroups : FamEmpty(h) => FamEmpty(h)'
  BY <1>3 DEF FamEmpty
<1>8. FamRoomInv' /\ FamOneInv'
  <2>1. ASSUME NEW h \in FgGroups PROVE FamAdders(h)' \subseteq FamAdders(h)
    <3>1. ~FamAdds(c, h)
      BY <1>4 DEF FamAdds
    <3> QED
      BY <1>1, <1>2, <3>1, FamMove
  <2>2. ASSUME NEW v \in FgUsers PROVE FamJoiners(v)' \subseteq FamJoiners(v)
    <3>1. ~FamJoins(c, v)
      BY <1>4 DEF FamJoins
    <3> QED
      BY <1>1, <1>2, <3>1, FamMove
  <2>3. \A h \in FgGroups, v \in FgUsers : fgRows'[h][v] <= fgRows[h][v]
    <3>1. \A h \in FgGroups, v \in FgUsers : fgRows[h][v] \in Nat
      BY <1>1, FamRowsNat
    <3> QED
      BY <1>3, <3>1
  <2> QED
    BY <1>1, <1>6, <2>1, <2>2, <2>3, FamKeeps
<1>9. FamCallInv'
  <2>1. ASSUME NEW j \in FgSessions PROVE FamCallOK(fgSession[j])'
    <3>1. CASE j = k
      <4>1. \A v \in FgUsers : fgRows'[c.group][v] = 0
        BY <1>3, <1>4
      <4> QED
        BY <1>2, <1>4, <1>5, <3>1, <4>1 DEF FamCallOK, FamEmpty
    <3>2. CASE j # k
      <4>1. FamCallOK(fgSession[j]) /\ fgSession'[j] = fgSession[j]
        BY <1>1, <1>5, <3>2 DEF FamCallInv
      <4>2. ASSUME fgSession[j].doing = "close"
            PROVE  fgSession[j].group \in fgLate' \/ FamEmpty(fgSession[j].group)'
        <5>1. fgSession[j].group \in FgGroups
          BY <1>1, <4>2 DEF FamTyped, FamCall
        <5>2. PICK h \in FgGroups : h = fgSession[j].group
          BY <5>1
        <5>3. h \in fgLate \/ FamEmpty(h)
          BY <4>1, <4>2, <5>2 DEF FamCallOK
        <5>4. h \in fgLate' \/ \A v \in FgUsers : fgRows'[h][v] = 0
          BY <1>2, <1>7, <5>3 DEF FamEmpty
        <5> QED
          BY <1>5, <3>2, <5>2, <5>4 DEF FamEmpty
      <4> QED
        BY <1>2, <4>1, <4>2 DEF FamCallOK
    <3> QED
      BY <3>1, <3>2
  <2> QED
    BY <2>1 DEF FamCallInv
<1>10. FamNewInv'
  BY <1>1, <1>2, <1>7 DEF FamNewInv
<1>11. FamOwnerInv'
  <2>1. ASSUME NEW h \in FgActive' \ fgBroken' PROVE FamOwned(h)'
    <3>1. h \in FgActive \ fgBroken /\ h \in FgGroups
      BY <1>2 DEF FgActive
    <3>2. CASE h = g
      BY <1>4, <1>5, <3>2 DEF FamOwned
    <3>3. CASE h # g
      <4>1. FamOwned(h) /\ fgGroup[h].status = "active" /\ fgGroup[h] \in FamGroup
        BY <1>1, <3>1 DEF FamOwnerInv, FgActive, FamTyped
      <4>2. fgGroup[h].owner \in FgUsers
        BY <4>1 DEF FamGroup, FgNoGroup
      <4>3. ASSUME fgRows[h][fgGroup[h].owner] > 0 PROVE FamOwned(h)'
        <5>1. fgRows'[h][fgGroup'[h].owner] > 0
          BY <1>2, <1>3, <3>1, <3>3, <4>2, <4>3
        <5> QED
          BY <5>1 DEF FamOwned
      <4>4. ASSUME NEW j \in FgSessions, fgSession[j].doing \in {"owner", "close"},
                   fgSession[j].group = h
            PROVE  FamOwned(h)'
        <5>1. j # k
          BY <1>2, <4>4
        <5> QED
          BY <1>5, <4>4, <5>1 DEF FamOwned
      <4> QED
        BY <4>1, <4>3, <4>4 DEF FamOwned
    <3> QED
      BY <3>2, <3>3
  <2>2. \A h \in FgGroups \ fgLate' : fgGroup'[h].status = "inactive" => FamEmpty(h)'
    BY <1>1, <1>2, <1>7 DEF FamOwnerInv
  <2> QED
    BY <2>1, <2>2 DEF FamOwnerInv
<1> QED
  BY <1>6, <1>8, <1>9, <1>10, <1>11 DEF FamInv

\* The end of a call of a session, which leaves the rows as they are and gives
\* the groups a status that the ends of the other steps allow.
LEMMA FamIdle ==
  ASSUME FamTyped, FamTyped', FamCallInv, FamRoomInv, FamOneInv,
         NEW k \in FgSessions, fgSession' = [fgSession EXCEPT ![k] = FgIdle],
         fgRows' = fgRows, fgLate' = fgLate,
         \A g \in FgGroups : fgGroup[g] # FgNoGroup =>
           fgGroup'[g] # FgNoGroup /\ fgGroup'[g].owner = fgGroup[g].owner
  PROVE  FamCallInv' /\ FamRoomInv' /\ FamOneInv'
<1>1. fgSession'[k] = FgIdle /\ \A j \in FgSessions \ {k} : fgSession'[j] = fgSession[j]
  BY DEF FamTyped
<1>2. FamRoomInv' /\ FamOneInv'
  <2>1. ASSUME NEW g \in FgGroups PROVE FamAdders(g)' \subseteq FamAdders(g)
    <3>1. ~FamAdds(FgIdle, g)
      BY DEF FamAdds, FgIdle
    <3> QED
      BY <3>1, FamMove
  <2>2. ASSUME NEW u \in FgUsers PROVE FamJoiners(u)' \subseteq FamJoiners(u)
    <3>1. ~FamJoins(FgIdle, u)
      BY DEF FamJoins, FgIdle
    <3> QED
      BY <3>1, FamMove
  <2>3. \A g \in FgGroups, u \in FgUsers : fgRows'[g][u] <= fgRows[g][u]
    BY FamRowsNat
  <2> QED
    BY <2>1, <2>2, <2>3, FamKeeps
<1>3. FamCallInv'
  <2>1. ASSUME NEW j \in FgSessions PROVE FamCallOK(fgSession[j])'
    <3>1. CASE j = k
      BY <1>1, <3>1 DEF FamCallOK, FgIdle
    <3>2. CASE j # k
      <4>1. FamCallOK(fgSession[j]) /\ fgSession'[j] = fgSession[j]
        BY <1>1, <3>2 DEF FamCallInv
      <4>2. fgSession[j] \in FamCall
        BY DEF FamTyped
      <4>3. ASSUME fgSession[j].doing \in {"owner", "add", "join", "close"}
            PROVE  /\ fgGroup'[fgSession[j].group] # FgNoGroup
                   /\ fgGroup'[fgSession[j].group].owner = fgGroup[fgSession[j].group].owner
        <5>1. fgSession[j].group \in FgGroups
          BY <4>2, <4>3 DEF FamCall
        <5> QED
          BY <4>1, <4>3, <5>1 DEF FamCallOK
      <4> QED
        BY <4>1, <4>3 DEF FamCallOK, FamEmpty
    <3> QED
      BY <3>1, <3>2
  <2> QED
    BY <2>1 DEF FamCallInv
<1> QED
  BY <1>2, <1>3

LEMMA FamClose ==
  ASSUME FamInv, NEW k \in FgSessions, FGClose(k)
  PROVE  FamInv'
<1> DEFINE call == fgSession[k]
<1>1. FamTyped /\ FamCallInv /\ FamNewInv /\ FamRoomInv /\ FamOneInv /\ FamOwnerInv
  BY DEF FamInv
<1>2. call \in FamCall /\ FamCallOK(call) /\ call.doing = "close"
  BY <1>1 DEF FamTyped, FamCallInv, FGClose, FgDoing
<1>3. call.group \in FgGroups
  BY <1>2 DEF FamCall
<1>4. PICK g \in FgGroups : g = call.group
  BY <1>3
<1>5. fgGroup[g] # FgNoGroup /\ (g \in fgLate \/ FamEmpty(g))
  BY <1>2, <1>4 DEF FamCallOK
<1>6. /\ fgSession' = [fgSession EXCEPT ![k] = FgIdle]
      /\ fgGroup' = [fgGroup EXCEPT ![g].status = "inactive"]
      /\ fgRows' = fgRows /\ fgBroken' = fgBroken /\ fgLate' = fgLate
  BY <1>4 DEF FGClose, FgSet
<1>7. fgGroup[g] \in [status : {"active", "inactive"}, owner : FgUsers]
  BY <1>1, <1>5 DEF FamTyped, FamGroup
<1>8. /\ fgGroup'[g] = [fgGroup[g] EXCEPT !.status = "inactive"]
      /\ \A h \in FgGroups \ {g} : fgGroup'[h] = fgGroup[h]
  BY <1>1, <1>6 DEF FamTyped
<1>9. /\ fgGroup'[g] \in [status : {"active", "inactive"}, owner : FgUsers]
      /\ fgGroup'[g].status = "inactive" /\ fgGroup'[g].owner = fgGroup[g].owner
      /\ fgGroup'[g] # FgNoGroup
  BY <1>7, <1>8 DEF FgNoGroup
<1>10. FamTyped'
  <2>1. fgGroup' = [h \in FgGroups |-> IF h = g THEN fgGroup'[g] ELSE fgGroup[h]]
    BY <1>1, <1>6 DEF FamTyped
  <2>2. fgGroup' \in [FgGroups -> FamGroup]
    <3>1. \A h \in FgGroups : fgGroup[h] \in FamGroup
      BY <1>1 DEF FamTyped
    <3>2. fgGroup'[g] \in FamGroup
      BY <1>9 DEF FamGroup
    <3> QED
      BY <2>1, <3>1, <3>2
  <2>3. fgSession' \in [FgSessions -> FamCall]
    BY <1>1, <1>6 DEF FamTyped, FamCall, FgIdle
  <2> QED
    BY <1>1, <1>6, <2>2, <2>3 DEF FamTyped
<1>11. FamCallInv' /\ FamRoomInv' /\ FamOneInv'
  <2>1. \A h \in FgGroups : fgGroup[h] # FgNoGroup =>
          fgGroup'[h] # FgNoGroup /\ fgGroup'[h].owner = fgGroup[h].owner
    BY <1>8, <1>9
  <2> QED
    BY <1>1, <1>6, <1>10, <2>1, FamIdle
<1>12. \A h \in FgGroups : FamEmpty(h) => FamEmpty(h)'
  BY <1>6 DEF FamEmpty
<1>13. FamNewInv'
  BY <1>1, <1>8, <1>9, <1>12 DEF FamNewInv
<1>14. FamOwnerInv'
  <2>1. ASSUME NEW h \in FgActive' \ fgBroken' PROVE FamOwned(h)'
    <3>1. h \in FgGroups /\ h # g /\ fgGroup'[h] = fgGroup[h]
      BY <1>8, <1>9 DEF FgActive
    <3>2. FamOwned(h)
      BY <1>1, <1>6, <3>1 DEF FamOwnerInv, FgActive
    <3>3. ASSUME fgRows[h][fgGroup[h].owner] > 0 PROVE FamOwned(h)'
      BY <1>6, <3>1, <3>3 DEF FamOwned
    <3>4. ASSUME NEW j \in FgSessions, fgSession[j].doing \in {"owner", "close"},
                 fgSession[j].group = h
          PROVE  FamOwned(h)'
      <4>1. j # k
        BY <1>4, <3>1, <3>4
      <4>2. fgSession'[j] = fgSession[j]
        BY <1>1, <1>6, <4>1 DEF FamTyped
      <4> QED
        BY <3>4, <4>2 DEF FamOwned
    <3> QED
      BY <3>2, <3>3, <3>4 DEF FamOwned
  <2>2. ASSUME NEW h \in FgGroups \ fgLate', fgGroup'[h].status = "inactive"
        PROVE  FamEmpty(h)'
    <3>1. FamEmpty(h)
      BY <1>1, <1>5, <1>6, <1>8, <2>2 DEF FamOwnerInv
    <3> QED
      BY <1>12, <2>2, <3>1
  <2> QED
    BY <2>1, <2>2 DEF FamOwnerInv
<1> QED
  BY <1>10, <1>11, <1>13, <1>14 DEF FamInv

LEMMA FamFail ==
  ASSUME FamInv, NEW k \in FgSessions, FGFail(k)
  PROVE  FamInv'
<1> DEFINE call == fgSession[k]
<1>1. FamTyped /\ FamCallInv /\ FamNewInv /\ FamRoomInv /\ FamOneInv /\ FamOwnerInv
  BY DEF FamInv
<1>2. /\ fgSession' = [fgSession EXCEPT ![k] = FgIdle]
      /\ fgBroken' = IF call.doing \in {"owner", "close"} THEN fgBroken \cup {call.group}
                     ELSE fgBroken
      /\ fgGroup' = fgGroup /\ fgRows' = fgRows /\ fgLate' = fgLate
  BY DEF FGFail, FgSet
<1>3. call.doing \in {"owner", "close"} => call.group \in FgGroups
  BY <1>1 DEF FamTyped, FamCall
<1>4. FamTyped'
  <2>1. fgSession' \in [FgSessions -> FamCall]
    BY <1>1, <1>2 DEF FamTyped, FamCall, FgIdle
  <2>2. fgBroken' \subseteq FgGroups
    BY <1>1, <1>2, <1>3 DEF FamTyped
  <2> QED
    BY <1>1, <1>2, <2>1, <2>2 DEF FamTyped
<1>5. FamCallInv' /\ FamRoomInv' /\ FamOneInv'
  BY <1>1, <1>2, <1>4, FamIdle
<1>6. FamNewInv'
  BY <1>1, <1>2 DEF FamNewInv, FamEmpty
<1>7. FamOwnerInv'
  <2>1. ASSUME NEW h \in FgActive' \ fgBroken' PROVE FamOwned(h)'
    <3>1. FamOwned(h)
      BY <1>1, <1>2 DEF FamOwnerInv, FgActive
    <3>2. ASSUME fgRows[h][fgGroup[h].owner] > 0 PROVE FamOwned(h)'
      BY <1>2, <3>2 DEF FamOwned
    <3>3. ASSUME NEW j \in FgSessions, fgSession[j].doing \in {"owner", "close"},
                 fgSession[j].group = h
          PROVE  FamOwned(h)'
      <4>1. j # k
        BY <1>2, <3>3
      <4>2. fgSession'[j] = fgSession[j]
        BY <1>1, <1>2, <4>1 DEF FamTyped
      <4> QED
        BY <3>3, <4>2 DEF FamOwned
    <3> QED
      BY <3>1, <3>2, <3>3 DEF FamOwned
  <2>2. \A h \in FgGroups \ fgLate' : fgGroup'[h].status = "inactive" => FamEmpty(h)'
    BY <1>1, <1>2 DEF FamOwnerInv, FamEmpty
  <2> QED
    BY <2>1, <2>2 DEF FamOwnerInv
<1> QED
  BY <1>4, <1>5, <1>6, <1>7 DEF FamInv

LEMMA FamNext == FamInv /\ [FGNext]_fgVars => FamInv'
<1> SUFFICES ASSUME FamInv, [FGNext]_fgVars PROVE FamInv'
  OBVIOUS
<1>1. ASSUME NEW k \in FgSessions, NEW u \in FgUsers, FGCheckOwner(k, u) PROVE FamInv'
  BY <1>1, FamCheckOwner
<1>2. ASSUME NEW k \in FgSessions, NEW g \in FgGroups, FGInsertGroup(k, g) PROVE FamInv'
  BY <1>2, FamInsertGroup
<1>3. ASSUME NEW k \in FgSessions, NEW g \in FgGroups, FGRemoveAll(k, g) PROVE FamInv'
  BY <1>3, FamRemoveAll
<1>4. ASSUME NEW k \in FgSessions, NEW g \in FgGroups, NEW u \in FgUsers, FGCheckRoom(k, g, u)
      PROVE  FamInv'
  BY <1>4, FamCheckRoom
<1>5. ASSUME NEW k \in FgSessions, FGCheckFree(k) PROVE FamInv'
  BY <1>5, FamCheckFree
<1>6. ASSUME NEW k \in FgSessions, FGInsertOwner(k) PROVE FamInv'
  BY <1>6, FamInserts DEF FGInsertOwner, FgDoing
<1>7. ASSUME NEW k \in FgSessions, FGCheckMember(k) PROVE FamInv'
  BY <1>7, FamCheckMember
<1>8. ASSUME NEW k \in FgSessions, FGInsertMember(k) PROVE FamInv'
  BY <1>8, FamInserts DEF FGInsertMember, FgDoing
<1>9. ASSUME NEW k \in FgSessions, FGClose(k) PROVE FamInv'
  BY <1>9, FamClose
<1>10. ASSUME NEW k \in FgSessions, FGFail(k) PROVE FamInv'
  BY <1>10, FamFail
<1>11. ASSUME NEW g \in FgGroups, NEW u \in FgUsers, FGRemove(g, u) PROVE FamInv'
  BY <1>11, FamRemove
<1>12. CASE UNCHANGED fgVars
  <2>1. /\ fgGroup' = fgGroup /\ fgRows' = fgRows /\ fgSession' = fgSession
        /\ fgBroken' = fgBroken /\ fgLate' = fgLate
    BY <1>12 DEF fgVars
  <2> QED
    BY <2>1 DEF FamInv, FamTyped, FamCallInv, FamCallOK, FamEmpty, FamNewInv, FamRoomInv,
      FamAdders, FamOneInv, FamJoiners, FgMemberships, FamOwnerInv, FamOwned, FgActive
<1> QED
  BY <1>1, <1>2, <1>3, <1>4, <1>5, <1>6, <1>7, <1>8, <1>9, <1>10, <1>11, <1>12 DEF FGNext

LEMMA FamSpec == FGSpec => []FamInv
<1>1. FGInit => FamInv
  BY FamInit
<1>2. FamInv /\ [FGNext]_fgVars => FamInv'
  BY FamNext
<1> QED
  BY <1>1, <1>2, PTL DEF FGSpec

\* Additions that checked together overrun what they checked each by one: a
\* group has at most one member less than its limit and the requests, and a
\* user is in one group, or in one for every request (family-pool.service.ts).
THEOREM MembersAreBounded == FGSpec => []FGMembersBounded
<1>1. FamInv => FGMembersBounded
  BY FamInvImplies
<1> QED
  BY <1>1, FamSpec, PTL

\* The owner is a member of an active group unless its creation or deletion is
\* under way or ended half way, and nobody stays in a deleted group but by an
\* addition that raced the deletion (createFamilyGroup, deleteFamilyGroup).
THEOREM OwnerStays == FGSpec => []FGOwnerStays
<1>1. FamInv => FGOwnerStays
  BY FamInvImplies
<1> QED
  BY <1>1, FamSpec, PTL

(***************************************************************************)
(* Orders made through a distributor: ndc.service.ts                       *)
(***************************************************************************)
OrderDoings == {"idle", "book", "order", "mark", "expire", "cancel", "look", "unbook",
                "restore", "offer", "change", "cabin", "record", "serve", "pay", "drop"}
OrderSets == SUBSET NdPools
OrderCall == [doing : OrderDoings, order : 0..NdMaxOrders, total : Nat, added : 0..2,
              to : OrderSets]
OrderRow == [status : {"none", "pending", "changed", "cancelled"}, total : Nat]
OrderBooking == [status : {"none", "pending", "confirmed", "cancelled"},
                 flight : NdFlights, cabin : {"economy", "business"}]
OrderMade(o) == ndOrder[o].status # "none"
OrderIn(calls, stages) == {k \in NdCalls : calls[k].doing \in stages}

OrderTyped ==
  /\ NDTypeOK /\ ndCall \in [NdCalls -> OrderCall] /\ ndOdd \in Nat /\ ndMoved \in Nat

\* A call that goes on with an order has one, whose booking was made before it;
\* and a booking that was not made has nothing.
OrderKnows(req, orders, bookings) ==
  /\ req.doing \notin {"idle", "book", "expire"} =>
       req.order \in NdIds /\ bookings[req.order].status # "none"
  /\ req.doing \notin {"idle", "book", "expire", "order", "pay", "drop"} =>
       orders[req.order].status # "none"
OrderBlank(o) == ~OrderMade(o) /\ ndBooking[o].cabin = "economy" /\ ndServices[o] = 0
OrderKnown ==
  /\ \A k \in NdCalls : OrderKnows(ndCall[k], ndOrder, ndBooking)
  /\ \A o \in NdIds : ndBooking[o].status = "none" => OrderBlank(o)

\* Seats.  The calls that met another have each paid for one seat: what is left
\* of that covers those that will still end a booking ("ending"), all but one
\* of them unless one of those has read what is no longer so ("stale"), and
\* those that may still move one.
OrderOwed(row) == IF row.status = "confirmed" THEN {<<row.flight, row.cabin>>} ELSE {}
OrderSpot(row) == <<row.flight, row.cabin>>
OrderPaid(bookings, p) == {o \in NdIds : p \in OrderOwed(bookings[o])}
OrderBack(calls, p) == {k \in NdCalls : calls[k].doing = "restore" /\ p \in calls[k].to}
OrderEnding == {"cancel", "look", "unbook", "pay", "drop"}
OrderMoving == {"change", "cabin"}
OrderReading == {"unbook", "pay", "drop"}
OrderWrong(req, row) ==
  \/ req.doing \in {"unbook", "drop"} /\ req.to # OrderOwed(row)
  \/ req.doing = "pay" /\ (OrderOwed(row) # {} \/ req.to # {OrderSpot(row)})
OrderStale(calls, bookings) == \E k \in NdCalls : OrderWrong(calls[k], bookings[calls[k].order])

OrderCosts(ending, moving, stale, room) ==
  /\ room >= 0 /\ ending <= room + 1
  /\ moving > 0 => ending + moving <= room + 1
  /\ stale => ending <= room
OrderDrift(free, bookings, calls, p) ==
  free[p] + Cardinality(OrderPaid(bookings, p)) + Cardinality(OrderBack(calls, p)) - NdSeats
OrderFits(calls, bookings, room) ==
  OrderCosts(Cardinality(OrderIn(calls, OrderEnding)), Cardinality(OrderIn(calls, OrderMoving)),
             OrderStale(calls, bookings), room)
OrderSeats ==
  \A p \in NdPools :
    /\ OrderFits(ndCall, ndBooking, ndOdd + ndMoved - OrderDrift(ndFree, ndBooking, ndCall, p))
    /\ OrderFits(ndCall, ndBooking, ndOdd + ndMoved + OrderDrift(ndFree, ndBooking, ndCall, p))

\* Orders.  Of the calls that found the offer active all but one met another.
OrderCreating == {"book", "order"}
OrderHolding == {"book", "order", "mark"}
OrderCount ==
  /\ Cardinality(NdMade) + Cardinality(OrderIn(ndCall, OrderCreating)) <= 1 + ndOdd
  /\ ndOffer = "active" /\ OrderIn(ndCall, OrderHolding) = {} => Cardinality(NdMade) <= ndOdd

\* Until a call meets another or stops half-way there is one order and one call
\* at most; what the order, the booking and the offer say is known for every
\* stage of the call, and they agree when there is none.
OrderBill(o) == 1 + NdOne(ndBooking[o].cabin = "business") + ndServices[o]
OrderRest ==
  /\ NdMade # {} => ndOffer \in {"ordered", "cancelled"}
  /\ \A o \in NdMade : /\ ndOrder[o].total = OrderBill(o)
                       /\ ndOrder[o].status = "cancelled" <=> ndOffer = "cancelled"
                       /\ ndOrder[o].status = "cancelled" => ndBooking[o].status = "cancelled"
OrderStage(doing, o, total, added) ==
  /\ doing \in {"book", "expire", "order"} => NdMade = {}
  /\ doing = "order" => ndBooking[o].cabin = "economy" /\ ndServices[o] = 0
  /\ doing = "mark" => ndOrder[o].status = "pending"
  /\ doing \in {"mark", "cancel", "look", "unbook", "restore", "offer", "change", "cabin"} =>
       ndOrder[o].total = OrderBill(o)
  /\ doing \in {"cancel", "change", "cabin", "record", "serve"} =>
       ndOffer = "ordered" /\ ndOrder[o].status # "cancelled"
  /\ doing \in {"look", "unbook", "restore", "offer"} =>
       ndOffer = "ordered" /\ ndOrder[o].status = "cancelled"
  /\ doing \in {"restore", "offer"} => ndBooking[o].status = "cancelled"
  /\ doing \in {"change", "cabin"} => added = 0
  /\ doing \in {"change", "cabin", "record", "serve"} => total + added = OrderBill(o)
  /\ doing = "serve" => ndOrder[o].total = total
  /\ doing \in {"pay", "drop"} => OrderRest
  /\ doing = "pay" => ndBooking[o].status = "pending"
OrderOne == \A o, u \in NdMade : o = u
OrderStaged(req) ==
  req.doing # "idle" => OrderStage(req.doing, req.order, req.total, req.added)
OrderCalm == ndOdd = 0 =>
  /\ \A j, k \in NdCalls : ndCall[j].doing # "idle" /\ ndCall[k].doing # "idle" => j = k
  /\ OrderOne
  /\ \A k \in NdCalls : OrderStaged(ndCall[k])
  /\ (\A k \in NdCalls : ndCall[k].doing = "idle") => OrderRest

OrderInv == OrderTyped /\ OrderKnown /\ OrderSeats /\ OrderCount /\ OrderCalm

\* --- Counting ---
LEMMA OrderTally ==
  ASSUME NEW S, IsFiniteSet(S), NEW T \in SUBSET S, NEW U \in SUBSET S, NEW x \in S,
         \A y \in S \ {x} : y \in U <=> y \in T
  PROVE  /\ Cardinality(T) \in Nat /\ Cardinality(U) \in Nat
         /\ Cardinality(U) = Cardinality(T) + NdOne(x \in U) - NdOne(x \in T)
<1> DEFINE V == T \ {x}
<1>1. IsFiniteSet(T) /\ IsFiniteSet(U) /\ IsFiniteSet(V) /\ U \ {x} = V
  <2>1. U \ {x} = V
    OBVIOUS
  <2>2. IsFiniteSet(T) /\ IsFiniteSet(U)
    BY FS_Subset
  <2>3. IsFiniteSet(V)
    BY <2>2, FS_Subset
  <2> QED
    BY <2>1, <2>2, <2>3
<1>2. Cardinality(T) \in Nat /\ Cardinality(U) \in Nat /\ Cardinality(V) \in Nat
  BY <1>1, FS_CardinalityType
<1>3. Cardinality(V) = IF x \in T THEN Cardinality(T) - 1 ELSE Cardinality(T)
  BY <1>1, FS_RemoveElement
<1>4. Cardinality(U \ {x}) = IF x \in U THEN Cardinality(U) - 1 ELSE Cardinality(U)
  BY <1>1, FS_RemoveElement
<1> QED
  BY <1>1, <1>2, <1>3, <1>4 DEF NdOne

LEMMA OrderFinite ==
  /\ IsFiniteSet(NdCalls) /\ IsFiniteSet(NdIds) /\ NdMaxOrders \in Nat /\ NdMaxOps \in Nat
  /\ NdSeats \in Nat /\ NdFlight \in NdFlights
BY NdcOrdersAssumption, FS_Interval DEF NdIds

\* A call that goes on changes what is counted by itself alone.
LEMMA OrderGoes ==
  ASSUME OrderTyped, NEW k \in NdCalls, NEW req \in OrderCall, NdSet(k, req)
  PROVE  /\ ndCall' \in [NdCalls -> OrderCall] /\ ndCall'[k] = req
         /\ \A j \in NdCalls \ {k} : ndCall'[j] = ndCall[j]
<1>1. ndCall \in [NdCalls -> OrderCall] /\ ndCall' = [ndCall EXCEPT ![k] = req]
  BY DEF OrderTyped, NdSet
<1> HIDE DEF OrderCall
<1> QED
  BY <1>1

LEMMA OrderGoesCounts ==
  ASSUME OrderTyped, NEW k \in NdCalls, NEW req \in OrderCall, NdSet(k, req), NEW stages
  PROVE  /\ Cardinality(OrderIn(ndCall, stages)) \in Nat
         /\ Cardinality(OrderIn(ndCall', stages)) \in Nat
         /\ Cardinality(OrderIn(ndCall', stages))
              = Cardinality(OrderIn(ndCall, stages)) + NdOne(req.doing \in stages)
                - NdOne(ndCall[k].doing \in stages)
<1>1. ndCall'[k] = req /\ \A j \in NdCalls \ {k} : ndCall'[j] = ndCall[j]
  BY OrderGoes
<1> DEFINE T == OrderIn(ndCall, stages)
           U == OrderIn(ndCall', stages)
<1>2. T \in SUBSET NdCalls /\ U \in SUBSET NdCalls /\ \A j \in NdCalls \ {k} : j \in U <=> j \in T
  BY <1>1 DEF OrderIn
<1>3. (k \in U <=> req.doing \in stages) /\ (k \in T <=> ndCall[k].doing \in stages)
  BY <1>1 DEF OrderIn
<1> HIDE DEF T, U
<1>4. /\ Cardinality(T) \in Nat /\ Cardinality(U) \in Nat
      /\ Cardinality(U) = Cardinality(T) + NdOne(k \in U) - NdOne(k \in T)
  BY <1>2, OrderFinite, OrderTally
<1>5. NdOne(k \in U) = NdOne(req.doing \in stages) /\ NdOne(k \in T) = NdOne(ndCall[k].doing \in stages)
  BY <1>3 DEF NdOne
<1> QED
  BY <1>4, <1>5 DEF T, U

LEMMA OrderGoesBack ==
  ASSUME OrderTyped, NEW k \in NdCalls, NEW req \in OrderCall, NdSet(k, req), NEW p
  PROVE  /\ Cardinality(OrderBack(ndCall, p)) \in Nat
         /\ Cardinality(OrderBack(ndCall', p)) \in Nat
         /\ Cardinality(OrderBack(ndCall', p))
              = Cardinality(OrderBack(ndCall, p)) + NdOne(req.doing = "restore" /\ p \in req.to)
                - NdOne(ndCall[k].doing = "restore" /\ p \in ndCall[k].to)
<1>1. ndCall'[k] = req /\ \A j \in NdCalls \ {k} : ndCall'[j] = ndCall[j]
  BY OrderGoes
<1> DEFINE T == OrderBack(ndCall, p)
           U == OrderBack(ndCall', p)
<1>2. T \in SUBSET NdCalls /\ U \in SUBSET NdCalls /\ \A j \in NdCalls \ {k} : j \in U <=> j \in T
  BY <1>1 DEF OrderBack
<1>3. /\ k \in U <=> req.doing = "restore" /\ p \in req.to
      /\ k \in T <=> ndCall[k].doing = "restore" /\ p \in ndCall[k].to
  BY <1>1 DEF OrderBack
<1> HIDE DEF T, U
<1>4. /\ Cardinality(T) \in Nat /\ Cardinality(U) \in Nat
      /\ Cardinality(U) = Cardinality(T) + NdOne(k \in U) - NdOne(k \in T)
  BY <1>2, OrderFinite, OrderTally
<1>5. /\ NdOne(k \in U) = NdOne(req.doing = "restore" /\ p \in req.to)
      /\ NdOne(k \in T) = NdOne(ndCall[k].doing = "restore" /\ p \in ndCall[k].to)
  BY <1>3 DEF NdOne
<1> QED
  BY <1>4, <1>5 DEF T, U

\* So does a booking.
LEMMA OrderBooks ==
  ASSUME OrderTyped, NEW o \in NdIds, NEW row \in OrderBooking,
         ndBooking' = [ndBooking EXCEPT ![o] = row]
  PROVE  /\ ndBooking' \in [NdIds -> OrderBooking] /\ ndBooking'[o] = row
         /\ \A u \in NdIds \ {o} : ndBooking'[u] = ndBooking[u]
<1>1. ndBooking \in [NdIds -> OrderBooking]
  BY DEF OrderTyped, NDTypeOK, OrderBooking
<1> HIDE DEF OrderBooking
<1> QED
  BY <1>1

LEMMA OrderBooksPaid ==
  ASSUME OrderTyped, NEW o \in NdIds, NEW row \in OrderBooking,
         ndBooking' = [ndBooking EXCEPT ![o] = row], NEW p
  PROVE  /\ Cardinality(OrderPaid(ndBooking, p)) \in Nat
         /\ Cardinality(OrderPaid(ndBooking', p)) \in Nat
         /\ Cardinality(OrderPaid(ndBooking', p))
              = Cardinality(OrderPaid(ndBooking, p)) + NdOne(p \in OrderOwed(row))
                - NdOne(p \in OrderOwed(ndBooking[o]))
<1>1. ndBooking'[o] = row /\ \A u \in NdIds \ {o} : ndBooking'[u] = ndBooking[u]
  BY OrderBooks
<1> DEFINE T == OrderPaid(ndBooking, p)
           U == OrderPaid(ndBooking', p)
<1> HIDE DEF OrderOwed
<1>2. T \in SUBSET NdIds /\ U \in SUBSET NdIds /\ \A u \in NdIds \ {o} : u \in U <=> u \in T
  BY <1>1 DEF OrderPaid
<1>3. (o \in U <=> p \in OrderOwed(row)) /\ (o \in T <=> p \in OrderOwed(ndBooking[o]))
  BY <1>1 DEF OrderPaid
<1> HIDE DEF T, U
<1>4. /\ Cardinality(T) \in Nat /\ Cardinality(U) \in Nat
      /\ Cardinality(U) = Cardinality(T) + NdOne(o \in U) - NdOne(o \in T)
  BY <1>2, OrderFinite, OrderTally
<1>5. NdOne(o \in U) = NdOne(p \in OrderOwed(row)) /\ NdOne(o \in T) = NdOne(p \in OrderOwed(ndBooking[o]))
  BY <1>3 DEF NdOne
<1> QED
  BY <1>4, <1>5 DEF T, U

LEMMA OrderNumbers ==
  ASSUME OrderTyped
  PROVE  /\ \A stages : Cardinality(OrderIn(ndCall, stages)) \in Nat
         /\ \A p : Cardinality(OrderBack(ndCall, p)) \in Nat /\ Cardinality(OrderPaid(ndBooking, p)) \in Nat
         /\ \A p \in NdPools : ndFree[p] \in Nat /\ OrderDrift(ndFree, ndBooking, ndCall, p) \in Int
         /\ Cardinality(NdMade) \in Nat /\ ndOdd \in Nat /\ ndMoved \in Nat
<1>1. \A stages : OrderIn(ndCall, stages) \in SUBSET NdCalls
  BY DEF OrderIn
<1>2. \A p : OrderBack(ndCall, p) \in SUBSET NdCalls /\ OrderPaid(ndBooking, p) \in SUBSET NdIds
  BY DEF OrderBack, OrderPaid
<1>3. NdMade \in SUBSET NdIds
  BY DEF NdMade
<1>4. \A T \in SUBSET NdCalls : Cardinality(T) \in Nat
  BY OrderFinite, FS_Subset, FS_CardinalityType
<1>5. \A T \in SUBSET NdIds : Cardinality(T) \in Nat
  BY OrderFinite, FS_Subset, FS_CardinalityType
<1>6. \A p : Cardinality(OrderBack(ndCall, p)) \in Nat /\ Cardinality(OrderPaid(ndBooking, p)) \in Nat
  BY <1>2, <1>4, <1>5
<1>7. \A p \in NdPools : ndFree[p] \in Nat
  BY DEF OrderTyped, NDTypeOK
<1>8. \A p \in NdPools : OrderDrift(ndFree, ndBooking, ndCall, p) \in Int
  BY <1>6, <1>7, OrderFinite DEF OrderDrift
<1> QED
  BY <1>1, <1>3, <1>4, <1>5, <1>6, <1>7, <1>8 DEF OrderTyped

\* --- What may happen to the seats that are covered ---
LEMMA OrderCostsLess ==
  ASSUME NEW c \in Nat, NEW m \in Nat, NEW st \in BOOLEAN, NEW n \in Int, OrderCosts(c, m, st, n),
         NEW c2 \in Nat, NEW m2 \in Nat, NEW st2 \in BOOLEAN, NEW n2 \in Int,
         c2 <= c, m2 <= m, st2 => st, n2 >= n
  PROVE  OrderCosts(c2, m2, st2, n2)
BY DEF OrderCosts

LEMMA OrderCostsMore ==
  ASSUME NEW c \in Nat, NEW m \in Nat, NEW st \in BOOLEAN, NEW n \in Int, OrderCosts(c, m, st, n),
         NEW c2 \in Nat, NEW m2 \in Nat, NEW st2 \in BOOLEAN, NEW n2 \in Int,
         c2 >= c, m2 >= m, c2 + m2 <= c + m + 1, st2 => st,
         n2 >= n + 1 \/ (c = 0 /\ m = 0 /\ ~st /\ n2 >= n)
  PROVE  OrderCosts(c2, m2, st2, n2)
BY DEF OrderCosts

\* One met another, or moves a booking itself.
LEMMA OrderCostsMet ==
  ASSUME NEW c \in Nat, NEW m \in Nat, NEW st \in BOOLEAN, NEW n \in Int, OrderCosts(c, m, st, n),
         NEW m2 \in Nat, NEW st2 \in BOOLEAN, NEW n2 \in Int, m2 <= m,
         n2 >= n + 1 \/ (m > 0 /\ n2 >= n)
  PROVE  OrderCosts(c, m2, st2, n2)
BY DEF OrderCosts

LEMMA OrderCostsEnded ==
  ASSUME NEW c \in Nat, NEW m \in Nat, NEW st \in BOOLEAN, NEW n \in Int, OrderCosts(c, m, st, n),
         c > 0, NEW st2 \in BOOLEAN, NEW n2 \in Int, n2 >= n - 1, ~st => n2 >= n
  PROVE  OrderCosts(c - 1, m, st2, n2)
BY DEF OrderCosts

LEMMA OrderStaleType ==
  ASSUME NEW calls, NEW bookings PROVE OrderStale(calls, bookings) \in BOOLEAN
BY DEF OrderStale

\* What the seats have to be after a step, in numbers.
LEMMA OrderSeatsAfter ==
  ASSUME \A p \in NdPools :
           /\ OrderFits(ndCall', ndBooking', ndOdd' + ndMoved' - OrderDrift(ndFree', ndBooking', ndCall', p))
           /\ OrderFits(ndCall', ndBooking', ndOdd' + ndMoved' + OrderDrift(ndFree', ndBooking', ndCall', p))
  PROVE  OrderSeats'
BY DEF OrderSeats

LEMMA OrderNobody ==
  ASSUME ~NdBusy
  PROVE  /\ \A k \in NdCalls : ndCall[k].doing = "idle"
         /\ Cardinality(OrderIn(ndCall, OrderEnding)) = 0
         /\ Cardinality(OrderIn(ndCall, OrderMoving)) = 0
         /\ OrderIn(ndCall, OrderHolding) = {} /\ Cardinality(OrderIn(ndCall, OrderCreating)) = 0
         /\ ~OrderStale(ndCall, ndBooking)
<1>1. \A k \in NdCalls : ndCall[k].doing = "idle"
  BY DEF NdBusy, NdDoing
<1>2. /\ OrderIn(ndCall, OrderEnding) = {} /\ OrderIn(ndCall, OrderMoving) = {}
      /\ OrderIn(ndCall, OrderHolding) = {} /\ OrderIn(ndCall, OrderCreating) = {}
      /\ ~OrderStale(ndCall, ndBooking)
  BY <1>1 DEF OrderIn, OrderEnding, OrderMoving, OrderHolding, OrderCreating, OrderStale, OrderWrong
<1> QED
  BY <1>1, <1>2, FS_EmptySet

\* A call goes on, and bookings and counters are as they were.
LEMMA OrderSeatsQuiet ==
  ASSUME OrderInv, NEW k \in NdCalls, NEW req \in OrderCall, NdSet(k, req),
         ndOdd' \in Nat, ndMoved' = ndMoved, ndOdd' >= ndOdd, ndFree' = ndFree,
         \A o \in NdIds : /\ OrderOwed(ndBooking'[o]) = OrderOwed(ndBooking[o])
                          /\ OrderSpot(ndBooking'[o]) = OrderSpot(ndBooking[o]),
         req.doing # "restore", ndCall[k].doing = "restore" => ndOdd' >= ndOdd + 1,
         req.doing \in OrderReading =>
           req.order \in NdIds /\ ~OrderWrong(req, ndBooking[req.order]),
         \/ /\ req.doing \in OrderEnding => ndCall[k].doing \in OrderEnding
            /\ req.doing \in OrderMoving => ndCall[k].doing \in OrderMoving
         \/ ndCall[k].doing = "idle" /\ ndOdd' = ndOdd + NdOne(NdBusy)
  PROVE  OrderSeats'
<1> DEFINE st == OrderStale(ndCall, ndBooking)
           st2 == OrderStale(ndCall', ndBooking')
<1>1. OrderTyped /\ OrderKnown /\ OrderSeats
  BY DEF OrderInv
<1>2. ndCall'[k] = req /\ \A j \in NdCalls \ {k} : ndCall'[j] = ndCall[j]
  BY <1>1, OrderGoes
<1>3. st2 => st
  <2> HIDE DEF OrderOwed, OrderSpot
  <2> SUFFICES ASSUME NEW j \in NdCalls, OrderWrong(ndCall'[j], ndBooking'[ndCall'[j].order])
               PROVE  st
    BY DEF OrderStale
  <2>1. ndCall'[j].doing \in OrderReading
    BY DEF OrderWrong, OrderReading
  <2>2. j # k
    <3> SUFFICES ASSUME j = k PROVE FALSE
      OBVIOUS
    <3>1. ndCall'[j] = req /\ req.order \in NdIds /\ ~OrderWrong(req, ndBooking[req.order])
      BY <1>2, <2>1
    <3> QED
      BY <3>1 DEF OrderWrong
  <2>3. ndCall'[j] = ndCall[j] /\ ndCall[j].order \in NdIds
    BY <1>1, <1>2, <2>1, <2>2 DEF OrderKnown, OrderKnows, OrderReading
  <2>4. OrderWrong(ndCall[j], ndBooking[ndCall[j].order])
    BY <2>3 DEF OrderWrong
  <2> QED
    BY <2>4 DEF OrderStale
<1>4. PICK c \in Nat : c = Cardinality(OrderIn(ndCall, OrderEnding))
  BY <1>1, OrderNumbers
<1>5. PICK m \in Nat : m = Cardinality(OrderIn(ndCall, OrderMoving))
  BY <1>1, OrderNumbers
<1>6. PICK c2 \in Nat : c2 = Cardinality(OrderIn(ndCall', OrderEnding))
  BY <1>1, OrderGoesCounts
<1>7. PICK m2 \in Nat : m2 = Cardinality(OrderIn(ndCall', OrderMoving))
  BY <1>1, OrderGoesCounts
<1>8. /\ c2 = c + NdOne(req.doing \in OrderEnding) - NdOne(ndCall[k].doing \in OrderEnding)
      /\ m2 = m + NdOne(req.doing \in OrderMoving) - NdOne(ndCall[k].doing \in OrderMoving)
  BY <1>1, <1>4, <1>5, <1>6, <1>7, OrderGoesCounts
<1>9. st \in BOOLEAN /\ st2 \in BOOLEAN
  BY OrderStaleType
<1>10. ASSUME NEW p \in NdPools
       PROVE  /\ OrderFits(ndCall', ndBooking', ndOdd' + ndMoved' - OrderDrift(ndFree', ndBooking', ndCall', p))
              /\ OrderFits(ndCall', ndBooking', ndOdd' + ndMoved' + OrderDrift(ndFree', ndBooking', ndCall', p))
  <2>1. PICK d \in Int : d = OrderDrift(ndFree, ndBooking, ndCall, p)
    BY <1>1, OrderNumbers
  <2>2. OrderPaid(ndBooking', p) = OrderPaid(ndBooking, p)
    <3> HIDE DEF OrderOwed
    <3> QED
      BY DEF OrderPaid
  <2>3. PICK back \in {0, 1} :
           /\ back = NdOne(ndCall[k].doing = "restore" /\ p \in ndCall[k].to)
           /\ back = 1 => ndOdd' >= ndOdd + 1
    BY DEF NdOne
  <2>4. OrderDrift(ndFree', ndBooking', ndCall', p) = d - back
    <3>1. Cardinality(OrderBack(ndCall', p)) = Cardinality(OrderBack(ndCall, p)) - back
      <4>1. NdOne(req.doing = "restore" /\ p \in req.to) = 0
        BY DEF NdOne
      <4>2. /\ Cardinality(OrderBack(ndCall, p)) \in Nat
            /\ Cardinality(OrderBack(ndCall', p))
                 = Cardinality(OrderBack(ndCall, p)) + NdOne(req.doing = "restore" /\ p \in req.to)
                   - NdOne(ndCall[k].doing = "restore" /\ p \in ndCall[k].to)
        BY <1>1, OrderGoesBack
      <4> QED
        BY <2>3, <4>1, <4>2
    <3>2. /\ Cardinality(OrderBack(ndCall, p)) \in Nat /\ Cardinality(OrderPaid(ndBooking, p)) \in Nat
          /\ ndFree[p] \in Nat /\ NdSeats \in Nat
      BY <1>1, OrderNumbers, OrderFinite
    <3> QED
      BY <2>1, <2>2, <3>1, <3>2 DEF OrderDrift
  <2>5. PICK n \in Int : n = ndOdd + ndMoved - d
    BY <1>1, OrderNumbers
  <2>6. PICK q \in Int : q = ndOdd + ndMoved + d
    BY <1>1, OrderNumbers
  <2>7. PICK n2 \in Int : n2 = ndOdd' + ndMoved' - (d - back)
    BY <1>1, OrderNumbers
  <2>8. PICK q2 \in Int : q2 = ndOdd' + ndMoved' + (d - back)
    BY <1>1, OrderNumbers
  <2>9. OrderCosts(c, m, st, n) /\ OrderCosts(c, m, st, q)
    BY <1>1, <1>4, <1>5, <2>1, <2>5, <2>6 DEF OrderSeats, OrderFits
  <2>10. OrderCosts(c2, m2, st2, n2) /\ OrderCosts(c2, m2, st2, q2)
    <3> HIDE DEF st, st2
    <3>1. ndOdd \in Nat /\ ndMoved \in Nat
      BY <1>1, OrderNumbers
    <3>2. CASE /\ req.doing \in OrderEnding => ndCall[k].doing \in OrderEnding
               /\ req.doing \in OrderMoving => ndCall[k].doing \in OrderMoving
      <4>1. c2 <= c /\ m2 <= m
        BY <1>8, <3>2 DEF NdOne
      <4>2. n2 >= n /\ q2 >= q
        BY <2>3, <2>5, <2>6, <2>7, <2>8, <3>1
      <4> QED
        BY <1>3, <1>9, <2>9, <4>1, <4>2, OrderCostsLess
    <3>3. CASE ndCall[k].doing = "idle" /\ ndOdd' = ndOdd + NdOne(NdBusy)
      <4>1. back = 0
        BY <2>3, <3>3 DEF NdOne
      <4>2. c2 >= c /\ m2 >= m /\ c2 + m2 <= c + m + 1
        BY <1>8, <3>3 DEF NdOne, OrderEnding, OrderMoving
      <4>3. CASE NdBusy
        <5>1. ndOdd' = ndOdd + 1
          BY <3>3, <4>3 DEF NdOne
        <5>2. n2 >= n + 1 /\ q2 >= q + 1
          BY <2>5, <2>6, <2>7, <2>8, <3>1, <4>1, <5>1
        <5> QED
          BY <1>3, <1>9, <2>9, <4>2, <5>2, OrderCostsMore
      <4>4. CASE ~NdBusy
        <5>1. ndOdd' = ndOdd
          BY <1>1, <3>1, <3>3, <4>4 DEF NdOne
        <5>2. n2 >= n /\ q2 >= q
          BY <2>5, <2>6, <2>7, <2>8, <3>1, <4>1, <5>1
        <5>3. c = 0 /\ m = 0 /\ ~st
          BY <1>4, <1>5, <4>4, OrderNobody DEF st
        <5> QED
          BY <1>3, <1>9, <2>9, <4>2, <5>2, <5>3, OrderCostsMore
      <4> QED
        BY <4>3, <4>4
    <3> QED
      BY <3>2, <3>3
  <2> QED
    BY <1>6, <1>7, <2>4, <2>7, <2>8, <2>10 DEF OrderFits
<1> QED
  BY <1>10, OrderSeatsAfter

\* A call ends a booking in the transaction it began before: a pool gains or
\* loses a seat when what it read is no longer so, and "e" more are paid for.
OrderShift(k, o, row, e) ==
  \A p \in NdPools : \E x \in Int :
    /\ ndFree'[p] + NdOne(p \in OrderOwed(row))
         = ndFree[p] + NdOne(p \in OrderOwed(ndBooking[o])) + x
    /\ x <= e + 1 /\ -x <= e + 1
    /\ ~OrderWrong(ndCall[k], ndBooking[o]) => x <= e /\ -x <= e

LEMMA OrderSeatsEnd ==
  ASSUME OrderInv, NEW k \in NdCalls, NEW req \in OrderCall, NdSet(k, req),
         ndCall[k].doing \in {"pay", "drop"}, req.doing = "idle", ndMoved' = ndMoved,
         NEW e \in Nat, ndOdd' = ndOdd + e,
         NEW o \in NdIds, o = ndCall[k].order, NEW row \in OrderBooking,
         ndBooking' = [ndBooking EXCEPT ![o] = row], ndFree' \in [NdPools -> Nat],
         OrderShift(k, o, row, e)
  PROVE  OrderSeats'
<1> DEFINE st == OrderStale(ndCall, ndBooking)
           st2 == OrderStale(ndCall', ndBooking')
<1>1. OrderTyped /\ OrderSeats
  BY DEF OrderInv
<1>2. PICK c \in Nat : c = Cardinality(OrderIn(ndCall, OrderEnding))
  BY <1>1, OrderNumbers
<1>3. PICK m \in Nat : m = Cardinality(OrderIn(ndCall, OrderMoving))
  BY <1>1, OrderNumbers
<1>4. /\ Cardinality(OrderIn(ndCall', OrderEnding)) = c - 1
      /\ Cardinality(OrderIn(ndCall', OrderMoving)) = m
      /\ c > 0
  <2>1. Cardinality(OrderIn(ndCall', OrderEnding)) = c - 1
    BY <1>1, <1>2, OrderGoesCounts DEF NdOne, OrderEnding
  <2>2. Cardinality(OrderIn(ndCall', OrderMoving)) = m
    BY <1>1, <1>3, OrderGoesCounts DEF NdOne, OrderMoving
  <2>3. Cardinality(OrderIn(ndCall', OrderEnding)) \in Nat
    BY <1>1, OrderGoesCounts
  <2> QED
    BY <2>1, <2>2, <2>3
<1>5. ~st => ~OrderWrong(ndCall[k], ndBooking[o])
  <2> HIDE DEF OrderWrong
  <2> QED
    BY DEF OrderStale
<1>6. st \in BOOLEAN /\ st2 \in BOOLEAN
  BY OrderStaleType
<1> HIDE DEF st, st2, OrderWrong
<1>7. ASSUME NEW p \in NdPools
      PROVE  /\ OrderFits(ndCall', ndBooking', ndOdd' + ndMoved' - OrderDrift(ndFree', ndBooking', ndCall', p))
             /\ OrderFits(ndCall', ndBooking', ndOdd' + ndMoved' + OrderDrift(ndFree', ndBooking', ndCall', p))
  <2>1. PICK d \in Int : d = OrderDrift(ndFree, ndBooking, ndCall, p)
    BY <1>1, OrderNumbers
  <2>2. PICK was \in {0, 1} : was = NdOne(p \in OrderOwed(ndBooking[o]))
    BY DEF NdOne
  <2>3. PICK now \in {0, 1} : now = NdOne(p \in OrderOwed(row))
    BY DEF NdOne
  <2>4. PICK x \in Int : /\ ndFree'[p] + now = ndFree[p] + was + x
                         /\ x <= e + 1 /\ -x <= e + 1 /\ (~st => x <= e /\ -x <= e)
    BY <1>5, <2>2, <2>3 DEF OrderShift
  <2>5. OrderDrift(ndFree', ndBooking', ndCall', p) = d + x
    <3>1. Cardinality(OrderBack(ndCall', p)) = Cardinality(OrderBack(ndCall, p))
      <4>1. NdOne(ndCall[k].doing = "restore" /\ p \in ndCall[k].to) = 0
            /\ NdOne(req.doing = "restore" /\ p \in req.to) = 0
        BY DEF NdOne
      <4> HIDE DEF OrderBack, OrderCall
      <4> QED
        BY <1>1, <4>1, OrderGoesBack
    <3>2. Cardinality(OrderPaid(ndBooking', p)) = Cardinality(OrderPaid(ndBooking, p)) + now - was
      <4> HIDE DEF OrderPaid, OrderBooking, OrderOwed
      <4> QED
        BY <1>1, <2>2, <2>3, OrderBooksPaid
    <3>3. /\ Cardinality(OrderBack(ndCall, p)) \in Nat /\ Cardinality(OrderPaid(ndBooking, p)) \in Nat
          /\ ndFree[p] \in Nat /\ NdSeats \in Nat
      BY <1>1, OrderNumbers, OrderFinite
    <3>4. ndFree'[p] = ndFree[p] + was + x - now
      <4>1. ndFree'[p] \in Nat
        OBVIOUS
      <4> QED
        BY <2>4, <3>3, <4>1
    <3> QED
      BY <2>1, <3>1, <3>2, <3>3, <3>4 DEF OrderDrift
  <2>6. PICK n \in Int : n = ndOdd + ndMoved - d
    BY <1>1, OrderNumbers
  <2>7. PICK q \in Int : q = ndOdd + ndMoved + d
    BY <1>1, OrderNumbers
  <2>8. OrderCosts(c, m, st, n) /\ OrderCosts(c, m, st, q)
    BY <1>1, <1>2, <1>3, <2>1, <2>6, <2>7 DEF OrderSeats, OrderFits, st
  <2>9. ndOdd \in Nat /\ ndMoved \in Nat
    BY <1>1, OrderNumbers
  <2>10. PICK n2 \in Int : n2 = ndOdd' + ndMoved' - (d + x)
    BY <2>9
  <2>11. PICK q2 \in Int : q2 = ndOdd' + ndMoved' + (d + x)
    BY <2>9
  <2>12. n2 >= n - 1 /\ q2 >= q - 1 /\ (~st => n2 >= n /\ q2 >= q)
    BY <2>4, <2>6, <2>7, <2>9, <2>10, <2>11
  <2>13. OrderCosts(c - 1, m, st2, n2) /\ OrderCosts(c - 1, m, st2, q2)
    BY <1>4, <1>6, <2>8, <2>12, OrderCostsEnded
  <2> QED
    BY <1>4, <2>5, <2>10, <2>11, <2>13 DEF OrderFits, st2
<1> QED
  BY <1>7, OrderSeatsAfter

\* A call changes a booking: it ends one whose seat it may have read wrongly, or
\* moves one, and a move of a paid booking is paid for.
LEMMA OrderSeatsWrite ==
  ASSUME OrderInv, NEW k \in NdCalls, NEW req \in OrderCall, NdSet(k, req),
         NEW o \in NdIds, NEW row \in OrderBooking, ndBooking' = [ndBooking EXCEPT ![o] = row],
         ndOdd' = ndOdd, ndFree' = ndFree, o = ndCall[k].order, ndMoved' \in Nat,
         \/ /\ ndCall[k].doing = "unbook" /\ ndMoved' = ndMoved /\ OrderOwed(row) = {}
            /\ req.doing \in {"restore", "offer"} /\ req.to = ndCall[k].to
            /\ req.doing = "offer" => req.to = {}
         \/ /\ ndCall[k].doing \in OrderMoving /\ req.doing \in {"cabin", "record"}
            /\ ndMoved' >= ndMoved
            /\ ndMoved' >= ndMoved + 1 \/ OrderOwed(row) = OrderOwed(ndBooking[o])
  PROVE  OrderSeats'
<1>1. OrderTyped /\ OrderKnown /\ OrderSeats
  BY DEF OrderInv
<1>11. PICK c \in Nat : c = Cardinality(OrderIn(ndCall, OrderEnding))
  BY <1>1, OrderNumbers
<1>12. PICK m \in Nat : m = Cardinality(OrderIn(ndCall, OrderMoving))
  BY <1>1, OrderNumbers
<1>2. PICK c2 \in Nat : c2 = Cardinality(OrderIn(ndCall', OrderEnding))
  BY <1>1, OrderGoesCounts
<1>3. PICK m2 \in Nat : m2 = Cardinality(OrderIn(ndCall', OrderMoving))
  BY <1>1, OrderGoesCounts
<1>4. /\ c2 = c + NdOne(req.doing \in OrderEnding) - NdOne(ndCall[k].doing \in OrderEnding)
      /\ m2 = m + NdOne(req.doing \in OrderMoving) - NdOne(ndCall[k].doing \in OrderMoving)
  BY <1>1, <1>11, <1>12, <1>2, <1>3, OrderGoesCounts
<1>5. ASSUME NEW p \in NdPools
      PROVE  /\ OrderFits(ndCall', ndBooking', ndOdd' + ndMoved' - OrderDrift(ndFree', ndBooking', ndCall', p))
             /\ OrderFits(ndCall', ndBooking', ndOdd' + ndMoved' + OrderDrift(ndFree', ndBooking', ndCall', p))
  <2>1. PICK d \in Int : d = OrderDrift(ndFree, ndBooking, ndCall, p)
    BY <1>1, OrderNumbers
  <2>2. PICK was \in {0, 1} : was = NdOne(p \in OrderOwed(ndBooking[o]))
    BY DEF NdOne
  <2>3. PICK now \in {0, 1} : now = NdOne(p \in OrderOwed(row))
    BY DEF NdOne
  <2>4. PICK back \in {0, 1} : back = NdOne(req.doing = "restore" /\ p \in req.to)
    BY DEF NdOne
  <2>5. PICK n \in Int : n = ndOdd + ndMoved - d
    BY <1>1, OrderNumbers
  <2>6. PICK q \in Int : q = ndOdd + ndMoved + d
    BY <1>1, OrderNumbers
  <2>7. OrderCosts(c, m, OrderStale(ndCall, ndBooking), n) /\ OrderCosts(c, m, OrderStale(ndCall, ndBooking), q)
    BY <1>1, <1>11, <1>12, <2>1, <2>5, <2>6 DEF OrderSeats, OrderFits
  <2>8. OrderDrift(ndFree', ndBooking', ndCall', p) = d - was + now + back
    <3>1. Cardinality(OrderBack(ndCall', p)) = Cardinality(OrderBack(ndCall, p)) + back
      <4>1. NdOne(ndCall[k].doing = "restore" /\ p \in ndCall[k].to) = 0
        BY DEF NdOne, OrderMoving
      <4> HIDE DEF OrderBack, OrderCall
      <4> QED
        BY <1>1, <2>4, <4>1, OrderGoesBack
    <3>2. Cardinality(OrderPaid(ndBooking', p)) = Cardinality(OrderPaid(ndBooking, p)) + now - was
      <4> HIDE DEF OrderPaid, OrderBooking, OrderOwed
      <4> QED
        BY <1>1, <2>2, <2>3, OrderBooksPaid
    <3>3. /\ Cardinality(OrderBack(ndCall, p)) \in Nat /\ Cardinality(OrderPaid(ndBooking, p)) \in Nat
          /\ ndFree[p] \in Nat /\ NdSeats \in Nat
      BY <1>1, OrderNumbers, OrderFinite
    <3> QED
      BY <2>1, <3>1, <3>2, <3>3 DEF OrderDrift
  <2>9. PICK n2 \in Int : n2 = ndOdd' + ndMoved' - (d - was + now + back)
    BY <1>1, OrderNumbers
  <2>10. PICK q2 \in Int : q2 = ndOdd' + ndMoved' + (d - was + now + back)
    BY <1>1, OrderNumbers
  <2>11. ndOdd \in Nat /\ ndMoved \in Nat
    BY <1>1, OrderNumbers
  <2>12. /\ OrderCosts(c2, m2, OrderStale(ndCall', ndBooking'), n2)
         /\ OrderCosts(c2, m2, OrderStale(ndCall', ndBooking'), q2)
    <3>1. CASE /\ ndCall[k].doing = "unbook" /\ ndMoved' = ndMoved /\ OrderOwed(row) = {}
               /\ req.doing \in {"restore", "offer"} /\ req.to = ndCall[k].to
               /\ req.doing = "offer" => req.to = {}
      <4>1. m2 = m /\ c2 = c - 1 /\ c > 0
        <5>1. m2 = m /\ c2 = c - 1
          BY <1>4, <3>1 DEF NdOne, OrderEnding, OrderMoving
        <5> QED
          BY <5>1
      <4>2. now = 0 /\ back = NdOne(p \in ndCall[k].to)
        BY <2>3, <2>4, <3>1 DEF NdOne
      <4>3. ~OrderStale(ndCall, ndBooking) => was = back
        <5>1. ~OrderStale(ndCall, ndBooking) => ndCall[k].to = OrderOwed(ndBooking[o])
          <6> HIDE DEF OrderOwed
          <6> QED
            BY <3>1 DEF OrderStale, OrderWrong
        <5> QED
          BY <2>2, <4>2, <5>1
      <4>4. n2 >= n - 1 /\ q2 >= q - 1 /\ (~OrderStale(ndCall, ndBooking) => n2 >= n /\ q2 >= q)
        BY <2>5, <2>6, <2>9, <2>10, <2>11, <3>1, <4>2, <4>3
      <4> HIDE DEF OrderStale
      <4> QED
        BY <2>7, <4>1, <4>4, OrderStaleType, OrderCostsEnded
    <3>2. CASE /\ ndCall[k].doing \in OrderMoving /\ req.doing \in {"cabin", "record"}
               /\ ndMoved' >= ndMoved
               /\ ndMoved' >= ndMoved + 1 \/ OrderOwed(row) = OrderOwed(ndBooking[o])
      <4>1. m2 <= m /\ c2 = c /\ m > 0
        <5>1. m2 <= m /\ c2 = c
          BY <1>4, <3>2 DEF NdOne, OrderEnding, OrderMoving
        <5>2. m2 = m \/ m2 = m - 1
          BY <1>4, <3>2 DEF NdOne, OrderMoving
        <5>3. k \in OrderIn(ndCall, OrderMoving) /\ OrderIn(ndCall, OrderMoving) \in SUBSET NdCalls
          BY <3>2 DEF OrderIn
        <5>4. m # 0
          BY <1>12, <5>3, OrderFinite, FS_Subset, FS_EmptySet
        <5> QED
          BY <5>1, <5>4
      <4>2. back = 0
        BY <2>4, <3>2 DEF NdOne
      <4>3. ndMoved' >= ndMoved + 1 \/ was = now
        BY <2>2, <2>3, <3>2
      <4>4. n2 >= n /\ q2 >= q
        <5>1. ndMoved' \in Nat /\ ndOdd' = ndOdd /\ ndMoved' >= ndMoved
          BY <3>2
        <5>2. PICK moved \in Nat : moved = ndMoved'
          BY <5>1
        <5>3. n2 = ndOdd + moved - (d - was + now) /\ q2 = ndOdd + moved + (d - was + now)
          BY <2>9, <2>10, <4>2, <5>1, <5>2
        <5>4. moved >= ndMoved /\ (moved >= ndMoved + 1 \/ was = now)
          BY <4>3, <5>1, <5>2
        <5> HIDE DEF OrderCall, OrderBooking
        <5> QED
          BY <2>5, <2>6, <2>11, <5>3, <5>4
      <4> HIDE DEF OrderStale
      <4> QED
        BY <2>7, <4>1, <4>4, OrderStaleType, OrderCostsMet
    <3> QED
      BY <3>1, <3>2
  <2> QED
    BY <1>2, <1>3, <2>8, <2>9, <2>10, <2>12 DEF OrderFits
<1> QED
  BY <1>5, OrderSeatsAfter

\* The seat on the way back arrives.
LEMMA OrderSeatsRestore ==
  ASSUME OrderInv, NEW k \in NdCalls, NEW req \in OrderCall, NdSet(k, req),
         ndCall[k].doing = "restore", req.doing = "offer", ndFree' = NdRestored(ndCall[k].to),
         ndOdd' = ndOdd, ndMoved' = ndMoved, ndBooking' = ndBooking
  PROVE  OrderSeats'
<1>1. OrderTyped /\ OrderKnown /\ OrderSeats
  BY DEF OrderInv
<1>2. ndCall'[k] = req /\ \A j \in NdCalls \ {k} : ndCall'[j] = ndCall[j]
  BY <1>1, OrderGoes
<1>11. PICK c \in Nat : c = Cardinality(OrderIn(ndCall, OrderEnding))
  BY <1>1, OrderNumbers
<1>12. PICK m \in Nat : m = Cardinality(OrderIn(ndCall, OrderMoving))
  BY <1>1, OrderNumbers
<1>3. Cardinality(OrderIn(ndCall', OrderEnding)) = c /\ Cardinality(OrderIn(ndCall', OrderMoving)) = m
  BY <1>1, <1>11, <1>12, OrderGoesCounts DEF NdOne, OrderEnding, OrderMoving
<1>4. OrderStale(ndCall', ndBooking') => OrderStale(ndCall, ndBooking)
  <2>1. ~OrderWrong(req, ndBooking[req.order])
    BY DEF OrderWrong
  <2> HIDE DEF OrderWrong
  <2> QED
    BY <1>2, <2>1 DEF OrderStale
<1>5. ASSUME NEW p \in NdPools
      PROVE  OrderDrift(ndFree', ndBooking', ndCall', p) = OrderDrift(ndFree, ndBooking, ndCall, p)
  <2>1. PICK back \in {0, 1} : back = NdOne(p \in ndCall[k].to)
    BY DEF NdOne
  <2>2. ndFree'[p] = ndFree[p] + back
    BY <2>1 DEF NdRestored
  <2>3. Cardinality(OrderBack(ndCall', p)) = Cardinality(OrderBack(ndCall, p)) - back
    <3>1. NdOne(req.doing = "restore" /\ p \in req.to) = 0
          /\ NdOne(ndCall[k].doing = "restore" /\ p \in ndCall[k].to) = back
      BY <2>1 DEF NdOne
    <3> HIDE DEF OrderBack, OrderCall
    <3> QED
      BY <1>1, <3>1, OrderGoesBack
  <2>4. /\ Cardinality(OrderBack(ndCall, p)) \in Nat /\ Cardinality(OrderPaid(ndBooking, p)) \in Nat
        /\ ndFree[p] \in Nat /\ NdSeats \in Nat
    BY <1>1, OrderNumbers, OrderFinite
  <2> QED
    BY <2>2, <2>3, <2>4 DEF OrderDrift
<1>6. ASSUME NEW p \in NdPools
      PROVE  /\ OrderFits(ndCall', ndBooking', ndOdd' + ndMoved' - OrderDrift(ndFree', ndBooking', ndCall', p))
             /\ OrderFits(ndCall', ndBooking', ndOdd' + ndMoved' + OrderDrift(ndFree', ndBooking', ndCall', p))
  <2>1. PICK d \in Int : d = OrderDrift(ndFree, ndBooking, ndCall, p)
    BY <1>1, OrderNumbers
  <2>5. PICK n \in Int : n = ndOdd + ndMoved - d
    BY <1>1, OrderNumbers
  <2>6. PICK q \in Int : q = ndOdd + ndMoved + d
    BY <1>1, OrderNumbers
  <2>7. OrderCosts(c, m, OrderStale(ndCall, ndBooking), n) /\ OrderCosts(c, m, OrderStale(ndCall, ndBooking), q)
    BY <1>1, <1>11, <1>12, <2>1, <2>5, <2>6 DEF OrderSeats, OrderFits
  <2>8. /\ OrderCosts(c, m, OrderStale(ndCall', ndBooking'), n)
        /\ OrderCosts(c, m, OrderStale(ndCall', ndBooking'), q)
    BY <1>4, <2>7, OrderStaleType, OrderCostsLess
  <2> QED
    BY <1>3, <1>5, <2>1, <2>5, <2>6, <2>8 DEF OrderFits
<1> QED
  BY <1>6, OrderSeatsAfter

\* --- The invariant says what the run checks, and holds at the start ---
LEMMA OrderInvImplies == OrderInv => NDTypeOK /\ NDOrdersSettle
<1> SUFFICES ASSUME OrderInv PROVE NDTypeOK /\ NDOrdersSettle
  OBVIOUS
<1>1. OrderTyped /\ OrderSeats /\ OrderCount /\ OrderCalm
  BY DEF OrderInv
<1>2. ASSUME NEW p \in NdPools
      PROVE  LET drift == ndFree[p] + NdHeld(p) - NdSeats IN
               drift <= ndOdd + ndMoved /\ -drift <= ndOdd + ndMoved
  <2>1. {o \in NdIds : ndBooking[o].status = "confirmed" /\ NdPool(o) = p} = OrderPaid(ndBooking, p)
    BY DEF OrderPaid, OrderOwed, NdPool
  <2>2. {k \in NdCalls : NdDoing(k, {"restore"}) /\ p \in ndCall[k].to} = OrderBack(ndCall, p)
    BY DEF OrderBack, NdDoing
  <2>3. /\ Cardinality(OrderBack(ndCall, p)) \in Nat /\ Cardinality(OrderPaid(ndBooking, p)) \in Nat
        /\ ndFree[p] \in Nat /\ NdSeats \in Nat /\ ndOdd \in Nat /\ ndMoved \in Nat
    BY <1>1, OrderNumbers, OrderFinite
  <2>4. PICK d \in Int : d = OrderDrift(ndFree, ndBooking, ndCall, p)
    BY <1>1, OrderNumbers
  <2>5. ndOdd + ndMoved - d >= 0 /\ ndOdd + ndMoved + d >= 0
    BY <1>1, <2>4 DEF OrderSeats, OrderFits, OrderCosts
  <2>6. ndFree[p] + NdHeld(p) - NdSeats = d
    <3>1. NdHeld(p) = Cardinality(OrderPaid(ndBooking, p)) + Cardinality(OrderBack(ndCall, p))
      BY <2>1, <2>2 DEF NdHeld
    <3> QED
      BY <2>3, <2>4, <3>1 DEF OrderDrift
  <2> QED
    BY <2>3, <2>5, <2>6
<1>3. NDSeatsKept
  BY <1>2 DEF NDSeatsKept
<1>4. Cardinality(NdMade) <= 1 + ndOdd
  BY <1>1, OrderNumbers DEF OrderCount
<1>5. ASSUME ndOdd = 0, ~NdBusy, NEW o \in NdMade
      PROVE  /\ (ndOrder[o].status = "cancelled") <=> (ndOffer = "cancelled")
             /\ ndOrder[o].status = "cancelled" => ndBooking[o].status = "cancelled"
             /\ ndOrder[o].total = 1 + NdOne(ndBooking[o].cabin = "business") + ndServices[o]
  BY <1>1, <1>5, OrderNobody DEF OrderCalm, OrderRest, OrderBill
<1>6. NDOrdersAgree
  BY <1>4, <1>5 DEF NDOrdersAgree
<1> QED
  BY <1>1, <1>3, <1>6 DEF OrderTyped, NDOrdersSettle

LEMMA OrderInit == NDInit => OrderInv
<1> SUFFICES ASSUME NDInit PROVE OrderInv
  OBVIOUS
<1>0. /\ \A k \in NdCalls : ndCall[k] = NdIdle
      /\ \A o \in NdIds : /\ ndOrder[o] = [status |-> "none", total |-> 0]
                          /\ ndBooking[o] = [status |-> "none", flight |-> NdFlight, cabin |-> "economy"]
                          /\ ndServices[o] = 0
      /\ \A p \in NdPools : ndFree[p] = NdSeats
      /\ ndOffer = "active" /\ ndLapsed = FALSE /\ ndOps = 0 /\ ndOdd = 0 /\ ndMoved = 0
  BY DEF NDInit
<1>1. OrderTyped
  <2>1. NdIdle \in OrderCall
    BY OrderFinite DEF NdIdle, OrderCall, OrderDoings, OrderSets
  <2>2. ndCall \in [NdCalls -> OrderCall]
    <3> HIDE DEF OrderCall, NdIdle
    <3> QED
      BY <2>1 DEF NDInit
  <2>3. ndLapsed \in BOOLEAN
    BY <1>0
  <2>4. NDTypeOK
    BY <2>3, OrderFinite DEF NDInit, NDTypeOK
  <2> QED
    BY <1>0, <2>2, <2>4 DEF OrderTyped
<1>2. OrderKnown
  BY <1>0 DEF OrderKnown, OrderKnows, OrderBlank, OrderMade, NdIdle
<1>3. NdMade = {} /\ ~NdBusy
  BY <1>0 DEF NdMade, NdBusy, NdDoing, NdIdle
<1>4. OrderSeats
  <2> SUFFICES ASSUME NEW p \in NdPools
               PROVE  OrderDrift(ndFree, ndBooking, ndCall, p) = 0
    BY <1>0, <1>3, OrderNobody DEF OrderSeats, OrderFits, OrderCosts
  <2>1. OrderPaid(ndBooking, p) = {} /\ OrderBack(ndCall, p) = {}
    BY <1>0 DEF OrderPaid, OrderOwed, OrderBack, NdIdle
  <2> QED
    BY <1>0, <2>1, FS_EmptySet, OrderFinite DEF OrderDrift
<1>5. OrderCount
  BY <1>0, <1>3, OrderNobody, FS_EmptySet DEF OrderCount
<1>6. OrderCalm
  BY <1>0, <1>3 DEF OrderCalm, OrderOne, OrderStaged, OrderRest, NdIdle
<1> QED
  BY <1>1, <1>2, <1>4, <1>5, <1>6 DEF OrderInv

\* --- The other parts, after a step ---
LEMMA OrderKnownStays ==
  ASSUME OrderInv,
         \A j \in NdCalls : ndCall'[j] = ndCall[j] \/ OrderKnows(ndCall'[j], ndOrder', ndBooking'),
         \A o \in NdIds :
           /\ ndOrder[o].status # "none" => ndOrder'[o].status # "none"
           /\ ndBooking[o].status # "none" => ndBooking'[o].status # "none"
           /\ ndBooking'[o].status = "none" =>
                ndOrder'[o] = ndOrder[o] /\ ndBooking'[o] = ndBooking[o] /\ ndServices'[o] = ndServices[o]
  PROVE  OrderKnown'
BY DEF OrderInv, OrderKnown, OrderKnows, OrderBlank, OrderMade

LEMMA OrderCountStays ==
  ASSUME OrderInv, NEW k \in NdCalls, NEW req \in OrderCall, NdSet(k, req),
         NdMade' = NdMade, ndOdd' \in Nat, ndOdd' >= ndOdd,
         req.doing \in OrderCreating => ndCall[k].doing \in OrderCreating,
         ndOffer' = "active" =>
           /\ ndOffer = "active"
           /\ ndCall[k].doing = "mark" => req.doing = "mark" \/ ndOdd' >= ndOdd + 1
  PROVE  OrderCount'
<1>1. OrderTyped /\ OrderCount
  BY DEF OrderInv
<1>2. ndCall'[k] = req /\ \A j \in NdCalls \ {k} : ndCall'[j] = ndCall[j]
  BY <1>1, OrderGoes
<1>3. PICK c \in Nat : c = Cardinality(OrderIn(ndCall, OrderCreating))
  BY <1>1, OrderNumbers
<1>4. PICK c2 \in Nat : c2 = Cardinality(OrderIn(ndCall', OrderCreating))
  BY <1>1, OrderGoesCounts
<1>5. c2 = c + NdOne(req.doing \in OrderCreating) - NdOne(ndCall[k].doing \in OrderCreating)
  BY <1>1, <1>3, <1>4, OrderGoesCounts
<1>6. PICK made \in Nat : made = Cardinality(NdMade)
  BY <1>1, OrderNumbers
<1>7. Cardinality(NdMade)' = made
  BY <1>6
<1>8. ndOdd \in Nat /\ made + c <= 1 + ndOdd
  BY <1>1, <1>3, <1>6, OrderNumbers DEF OrderCount
<1>9. made + c2 <= 1 + ndOdd'
  <2>1. c2 <= c
    BY <1>5 DEF NdOne
  <2>2. PICK odd \in Nat : odd = ndOdd
    BY <1>8
  <2>3. PICK odd2 \in Nat : odd2 = ndOdd'
    OBVIOUS
  <2>4. made + c <= 1 + odd /\ odd2 >= odd
    BY <1>8, <2>2, <2>3
  <2>5. made + c2 <= 1 + odd2
    BY <2>1, <2>4
  <2> QED
    BY <2>3, <2>5
<1>10. ASSUME ndOffer' = "active", OrderIn(ndCall', OrderHolding) = {} PROVE made <= ndOdd'
  <2>1. req.doing \notin OrderHolding /\ \A j \in NdCalls \ {k} : ndCall[j].doing \notin OrderHolding
    BY <1>2, <1>10 DEF OrderIn
  <2>2. CASE ndCall[k].doing \in OrderCreating
    <3>1. c2 = c - 1
      BY <1>5, <2>1, <2>2 DEF NdOne, OrderCreating, OrderHolding
    <3> QED
      BY <1>8, <3>1
  <2>3. CASE ndCall[k].doing = "mark"
    <3>1. ndOdd' >= ndOdd + 1
      BY <1>10, <2>1, <2>3 DEF OrderHolding
    <3> QED
      BY <1>8, <3>1
  <2>4. CASE ndCall[k].doing \notin OrderHolding
    <3>1. OrderIn(ndCall, OrderHolding) = {}
      BY <2>1, <2>4 DEF OrderIn
    <3>2. made <= ndOdd
      BY <1>1, <1>6, <1>10, <3>1 DEF OrderCount
    <3> QED
      BY <1>8, <3>2
  <2> QED
    BY <2>2, <2>3, <2>4 DEF OrderHolding, OrderCreating
<1> QED
  BY <1>4, <1>7, <1>9, <1>10 DEF OrderCount

\* While nothing is odd the call under way is the only one.
LEMMA OrderAlone ==
  ASSUME OrderInv, NEW k \in NdCalls, ndCall[k].doing # "idle", ndOdd = 0
  PROVE  /\ \A j \in NdCalls \ {k} : ndCall[j].doing = "idle"
         /\ OrderOne
         /\ OrderStage(ndCall[k].doing, ndCall[k].order, ndCall[k].total, ndCall[k].added)
BY DEF OrderInv, OrderCalm, OrderStaged

LEMMA OrderCalmTurn ==
  ASSUME OrderInv, NEW k \in NdCalls, NEW req \in OrderCall, NdSet(k, req),
         ndOdd' = 0 =>
           /\ \A j \in NdCalls \ {k} : ndCall[j].doing = "idle"
           /\ OrderOne'
           /\ req.doing # "idle" => OrderStage(req.doing, req.order, req.total, req.added)'
           /\ req.doing = "idle" => OrderRest'
  PROVE  OrderCalm'
<1>1. ndCall'[k] = req /\ \A j \in NdCalls \ {k} : ndCall'[j] = ndCall[j]
  BY OrderGoes DEF OrderInv
<1> SUFFICES ASSUME ndOdd' = 0
             PROVE  /\ (\A i, j \in NdCalls : ndCall[i].doing # "idle" /\ ndCall[j].doing # "idle" => i = j)'
                    /\ OrderOne'
                    /\ (\A j \in NdCalls : OrderStaged(ndCall[j]))'
                    /\ ((\A j \in NdCalls : ndCall[j].doing = "idle") => OrderRest)'
  BY DEF OrderCalm
<1>2. \A j \in NdCalls \ {k} : ndCall'[j].doing = "idle"
  BY <1>1
<1>3. ASSUME NEW j \in NdCalls PROVE OrderStaged(ndCall[j])'
  BY <1>1, <1>2 DEF OrderStaged, OrderStage
<1> QED
  BY <1>1, <1>2, <1>3

\* --- A call begins ---
LEMMA OrderFresh ==
  ASSUME NEW what \in OrderDoings, NEW o \in 0..NdMaxOrders, NEW total \in Nat, NEW to \in OrderSets
  PROVE  [NdIdle EXCEPT !.doing = what, !.order = o, !.to = to, !.total = total] \in OrderCall
<1> DEFINE O == 0..NdMaxOrders
           A == 0..2
           N == Nat
<1>1. o \in O /\ 0 \in A /\ total \in N
  OBVIOUS
<1> HIDE DEF O, A, N, OrderDoings, OrderSets
<1>2. [NdIdle EXCEPT !.doing = what, !.order = o, !.to = to, !.total = total]
        \in [doing : OrderDoings, order : O, total : N, added : A, to : OrderSets]
  BY <1>1 DEF NdIdle
<1> QED
  BY <1>2, Zenon DEF OrderCall, O, A, N

LEMMA OrderBegins ==
  ASSUME OrderInv, NEW k \in NdCalls,
         NEW what \in {"book", "expire", "cancel", "change", "serve", "pay", "drop"},
         NEW o \in 0..NdMaxOrders, NEW to \in OrderSets, NdBeginWith(k, what, o, to),
         what \in {"book", "expire"} => ndOffer = "active",
         what \in {"cancel", "change", "serve"} =>
           o \in NdIds /\ ndOrder[o].status \in {"pending", "changed"},
         what \in {"pay", "drop"} => o \in NdIds /\ ndBooking[o].status # "none",
         what = "pay" => ndBooking[o].status = "pending" /\ to = {OrderSpot(ndBooking[o])},
         what = "drop" => to = OrderOwed(ndBooking[o])
  PROVE  OrderInv'
<1> DEFINE row == [NdIdle EXCEPT !.doing = what, !.order = o, !.to = to,
                                 !.total = IF o = 0 THEN 0 ELSE ndOrder[o].total]
<1>1. OrderTyped /\ OrderKnown /\ OrderSeats /\ OrderCount /\ OrderCalm
  BY DEF OrderInv
<1>2. row \in OrderCall
  <2> DEFINE total == IF o = 0 THEN 0 ELSE ndOrder[o].total
  <2>1. total \in Nat
    <3>1. CASE o = 0
      BY <3>1
    <3>2. CASE o # 0
      <4>1. o \in NdIds
        BY <3>2, OrderFinite DEF NdIds
      <4> QED
        BY <1>1, <3>2, <4>1 DEF OrderTyped, NDTypeOK
    <3> QED
      BY <3>1, <3>2
  <2>2. row = [NdIdle EXCEPT !.doing = what, !.order = o, !.to = to, !.total = total]
    OBVIOUS
  <2>3. what \in OrderDoings
    BY DEF OrderDoings
  <2> HIDE DEF row, total, OrderSets, OrderDoings
  <2> QED
    BY <2>1, <2>2, <2>3, OrderFresh, Zenon
<1>3. /\ row.doing = what /\ row.order = o /\ row.added = 0 /\ row.to = to
      /\ o # 0 => row.total = ndOrder[o].total
  BY DEF NdIdle
<1>4. ndCall[k].doing = "idle" /\ NdSet(k, row)
  BY DEF NdBeginWith, NdDoing
<1> HIDE DEF row
<1>5. PICK req \in OrderCall :
        /\ NdSet(k, req) /\ req.doing = what /\ req.order = o /\ req.added = 0 /\ req.to = to
        /\ o # 0 => req.total = ndOrder[o].total
  BY <1>2, <1>3, <1>4
<1>6. /\ ndOps' \in 0..NdMaxOps /\ ndOdd' = ndOdd + NdOne(NdBusy)
      /\ ndOffer' = ndOffer /\ ndLapsed' = ndLapsed /\ ndOrder' = ndOrder /\ ndBooking' = ndBooking
      /\ ndServices' = ndServices /\ ndFree' = ndFree /\ ndMoved' = ndMoved
  <2>1. ndOps \in 0..NdMaxOps /\ ndOps < NdMaxOps /\ ndOps' = ndOps + 1
    BY <1>1 DEF NdBeginWith, OrderTyped, NDTypeOK
  <2>2. ndOps' \in 0..NdMaxOps
    BY <2>1, OrderFinite
  <2>3. ndOdd' = ndOdd + NdOne(NdBusy)
    BY <1>1, OrderNumbers DEF NdBeginWith, NdOne
  <2> QED
    BY <2>2, <2>3 DEF NdBeginWith
<1>7. /\ ndCall' \in [NdCalls -> OrderCall] /\ ndCall'[k] = req
      /\ \A j \in NdCalls \ {k} : ndCall'[j] = ndCall[j]
  BY <1>1, <1>5, OrderGoes
<1>8. ndOdd \in Nat /\ ndOdd' \in Nat /\ ndOdd' >= ndOdd
  BY <1>1, <1>6, OrderNumbers DEF NdOne
<1>9. OrderTyped'
  BY <1>1, <1>6, <1>7, <1>8 DEF OrderTyped, NDTypeOK, NdIds, NdPools
<1>10. OrderKnown'
  <2>1. OrderKnows(req, ndOrder', ndBooking')
    BY <1>1, <1>5, <1>6 DEF OrderKnown, OrderBlank, OrderMade, OrderKnows
  <2>2. \A j \in NdCalls : ndCall'[j] = ndCall[j] \/ OrderKnows(ndCall'[j], ndOrder', ndBooking')
    BY <1>7, <2>1
  <2> QED
    BY <1>6, <2>2, OrderKnownStays
<1>11. OrderSeats'
  <2>1. req.doing \in OrderReading => req.order \in NdIds /\ ~OrderWrong(req, ndBooking[req.order])
    BY <1>5 DEF OrderReading, OrderWrong, OrderOwed
  <2> HIDE DEF OrderOwed, OrderWrong
  <2> QED
    BY <1>4, <1>5, <1>6, <1>8, <2>1, OrderSeatsQuiet
<1>12. NdMade' = NdMade
  BY <1>6 DEF NdMade
<1>13. OrderCount'
  <2>1. CASE what # "book"
    BY <1>4, <1>5, <1>6, <1>8, <1>12, <2>1, OrderCountStays DEF OrderCreating
  <2>2. CASE what = "book"
    <3>1. PICK c \in Nat : c = Cardinality(OrderIn(ndCall, OrderCreating))
      BY <1>1, OrderNumbers
    <3>2. Cardinality(OrderIn(ndCall', OrderCreating)) = c + 1
      BY <1>1, <1>4, <1>5, <2>2, <3>1, OrderGoesCounts DEF NdOne, OrderCreating
    <3>3. PICK made \in Nat : made = Cardinality(NdMade)
      BY <1>1, OrderNumbers
    <3>4. made + c + 1 <= 1 + ndOdd'
      <4>1. CASE NdBusy
        <5>1. ndOdd' = ndOdd + 1
          BY <1>6, <4>1 DEF NdOne
        <5> QED
          BY <1>1, <1>8, <3>1, <3>3, <5>1 DEF OrderCount
      <4>2. CASE ~NdBusy
        <5>1. ndOdd' = ndOdd /\ c = 0
          BY <1>6, <1>8, <3>1, <4>2, OrderNobody DEF NdOne
        <5>2. made <= ndOdd
          BY <1>1, <2>2, <3>3, <4>2, OrderNobody DEF OrderCount
        <5> QED
          BY <1>8, <5>1, <5>2
      <4> QED
        BY <4>1, <4>2
    <3>5. OrderIn(ndCall', OrderHolding) # {}
      BY <1>5, <1>7, <2>2 DEF OrderIn, OrderHolding
    <3>6. Cardinality(NdMade)' = made
      BY <1>12, <3>3
    <3> QED
      BY <1>8, <3>1, <3>2, <3>3, <3>4, <3>5, <3>6 DEF OrderCount
  <2> QED
    BY <2>1, <2>2
<1>14. OrderCalm'
  <2> SUFFICES ASSUME ndOdd' = 0
               PROVE  /\ \A j \in NdCalls \ {k} : ndCall[j].doing = "idle"
                      /\ OrderOne'
                      /\ OrderStage(req.doing, req.order, req.total, req.added)'
    BY <1>5, OrderCalmTurn
  <2>1. ndOdd = 0 /\ ~NdBusy
    BY <1>6, <1>8 DEF NdOne
  <2>2. \A j \in NdCalls : ndCall[j].doing = "idle"
    BY <2>1, OrderNobody
  <2>3. OrderOne /\ OrderRest
    BY <1>1, <2>1, <2>2 DEF OrderCalm
  <2>4. OrderOne'
    BY <1>12, <2>3 DEF OrderOne
  <2>5. OrderStage(req.doing, req.order, req.total, req.added)
    <3>1. CASE what \in {"book", "expire"}
      BY <1>5, <2>3, <3>1 DEF OrderRest, OrderStage
    <3>2. CASE what \in {"pay", "drop"}
      BY <1>5, <2>3, <3>2 DEF OrderStage
    <3>3. CASE what \in {"cancel", "change", "serve"}
      <4>1. o \in NdMade /\ o # 0 /\ ndOrder[o].status # "cancelled"
        BY <3>3 DEF NdMade, NdIds
      <4>2. ndOffer = "ordered" /\ ndOrder[o].total = OrderBill(o)
        BY <2>3, <4>1 DEF OrderRest
      <4>3. ndOrder[o].total \in Nat
        BY <1>1, <3>3 DEF OrderTyped, NDTypeOK
      <4>4. req.total + req.added = OrderBill(o) /\ req.total = ndOrder[o].total
        BY <1>5, <4>1, <4>2, <4>3
      <4> HIDE DEF OrderBill, OrderCall
      <4> QED
        BY <1>5, <3>3, <4>1, <4>2, <4>4 DEF OrderStage
    <3> QED
      BY <3>1, <3>2, <3>3
  <2>6. OrderStage(req.doing, req.order, req.total, req.added)'
    <3>1. OrderRest => OrderRest'
      BY <1>6, <1>12 DEF OrderRest, OrderBill
    <3> HIDE DEF OrderRest
    <3> QED
      BY <1>6, <1>12, <2>5, <3>1 DEF OrderStage, OrderBill
  <2> QED
    BY <2>2, <2>4, <2>6
<1> QED
  BY <1>9, <1>10, <1>11, <1>13, <1>14 DEF OrderInv

\* --- A call goes on ---
LEMMA OrderThen ==
  ASSUME OrderTyped, NEW k \in NdCalls, NEW what \in OrderDoings, NdThen(k, what)
  PROVE  \E req \in OrderCall :
           /\ NdSet(k, req) /\ req.doing = what /\ req.order = ndCall[k].order
           /\ req.total = ndCall[k].total /\ req.added = ndCall[k].added /\ req.to = ndCall[k].to
<1> DEFINE row == [ndCall[k] EXCEPT !.doing = what]
<1>1. ndCall[k] \in OrderCall
  BY DEF OrderTyped
<1>2. /\ row \in OrderCall /\ row.doing = what /\ row.order = ndCall[k].order
      /\ row.total = ndCall[k].total /\ row.added = ndCall[k].added /\ row.to = ndCall[k].to
  <2> HIDE DEF OrderDoings, OrderSets
  <2> QED
    BY <1>1 DEF OrderCall
<1>3. NdSet(k, row)
  BY DEF NdThen
<1> HIDE DEF row
<1> QED
  BY <1>2, <1>3

LEMMA OrderReturns ==
  ASSUME OrderTyped, NEW k \in NdCalls, NdSet(k, NdIdle)
  PROVE  \E req \in OrderCall : NdSet(k, req) /\ req.doing = "idle"
<1>1. NdIdle \in OrderCall /\ NdIdle.doing = "idle"
  BY OrderFinite DEF NdIdle, OrderCall, OrderDoings, OrderSets
<1> HIDE DEF NdIdle, OrderCall
<1> QED
  BY <1>1

LEMMA OrderOrders ==
  ASSUME OrderTyped, NEW o \in NdIds, NEW row \in OrderRow, ndOrder' = [ndOrder EXCEPT ![o] = row]
  PROVE  /\ ndOrder' \in [NdIds -> OrderRow] /\ ndOrder'[o] = row
         /\ \A u \in NdIds \ {o} : ndOrder'[u] = ndOrder[u]
<1>1. ndOrder \in [NdIds -> OrderRow]
  BY DEF OrderTyped, NDTypeOK, OrderRow
<1> HIDE DEF OrderRow
<1> QED
  BY <1>1

\* The order of a call that has one.
LEMMA OrderOwn ==
  ASSUME OrderInv, NEW k \in NdCalls, ndCall[k].doing \notin {"idle", "book", "expire"}
  PROVE  \E o \in NdIds : /\ o = ndCall[k].order /\ ndBooking[o].status # "none"
                          /\ ndCall[k].doing \notin {"order", "pay", "drop"} =>
                               ndOrder[o].status # "none"
                          /\ ndOrder[o] \in OrderRow /\ ndBooking[o] \in OrderBooking
                          /\ ndServices[o] \in Nat
<1>1. ndCall[k].order \in NdIds
  BY DEF OrderInv, OrderKnown, OrderKnows
<1>2. PICK o \in NdIds : o = ndCall[k].order
  BY <1>1
<1>3. /\ ndBooking[o].status # "none"
      /\ ndCall[k].doing \notin {"order", "pay", "drop"} => ndOrder[o].status # "none"
  BY <1>2 DEF OrderInv, OrderKnown, OrderKnows
<1>4. ndOrder[o] \in OrderRow /\ ndBooking[o] \in OrderBooking /\ ndServices[o] \in Nat
  BY DEF OrderInv, OrderTyped, NDTypeOK, OrderRow, OrderBooking
<1> QED
  BY <1>2, <1>3, <1>4

LEMMA OrderBook == ASSUME OrderInv, NEW k \in NdCalls, NDBook(k) PROVE OrderInv'
<1>1. OrderTyped /\ OrderKnown /\ ndCall[k].doing = "book" /\ ndCall[k] \in OrderCall
  BY DEF OrderInv, OrderTyped, NDBook, NdDoing
<1>2. PICK o \in NdIds : /\ ndBooking[o].status = "none"
                         /\ ndBooking' = [ndBooking EXCEPT ![o].status = "pending"]
                         /\ NdSet(k, [ndCall[k] EXCEPT !.doing = "order", !.order = o])
  BY Zenon DEF NDBook
<1>3. PICK req \in OrderCall : NdSet(k, req) /\ req.doing = "order" /\ req.order = o
  <2> DEFINE row == [ndCall[k] EXCEPT !.doing = "order", !.order = o]
  <2>1. row \in OrderCall /\ row.doing = "order" /\ row.order = o
    <3>1. "order" \in OrderDoings /\ o \in 0..NdMaxOrders
      BY OrderFinite DEF OrderDoings, NdIds
    <3> HIDE DEF OrderDoings, OrderSets
    <3> QED
      BY <1>1, <3>1 DEF OrderCall
  <2>2. NdSet(k, row)
    BY <1>2
  <2> HIDE DEF row
  <2> QED
    BY <2>1, <2>2
<1>4. PICK row \in OrderBooking : /\ ndBooking' = [ndBooking EXCEPT ![o] = row] /\ row.status = "pending"
                                  /\ row.cabin = ndBooking[o].cabin /\ row.flight = ndBooking[o].flight
  <2> DEFINE b == [ndBooking[o] EXCEPT !.status = "pending"]
  <2>1. /\ b \in OrderBooking /\ b.status = "pending" /\ b.cabin = ndBooking[o].cabin
        /\ b.flight = ndBooking[o].flight
    BY <1>1 DEF OrderTyped, NDTypeOK, OrderBooking
  <2>2. ndBooking' = [ndBooking EXCEPT ![o] = b]
    BY <1>2
  <2> HIDE DEF b
  <2> QED
    BY <2>1, <2>2
<1>5. /\ ndBooking' \in [NdIds -> OrderBooking] /\ ndBooking'[o] = row
      /\ \A u \in NdIds \ {o} : ndBooking'[u] = ndBooking[u]
  BY <1>1, <1>4, OrderBooks
<1>6. /\ ndCall' \in [NdCalls -> OrderCall] /\ ndCall'[k] = req
      /\ \A j \in NdCalls \ {k} : ndCall'[j] = ndCall[j]
  BY <1>1, <1>3, OrderGoes
<1>7. /\ ndOffer' = ndOffer /\ ndLapsed' = ndLapsed /\ ndOrder' = ndOrder /\ ndServices' = ndServices
      /\ ndFree' = ndFree /\ ndOps' = ndOps /\ ndOdd' = ndOdd /\ ndMoved' = ndMoved /\ NdMade' = NdMade
  BY DEF NDBook, NdMade
<1>8. ndOdd \in Nat
  BY <1>1 DEF OrderTyped
<1>9. OrderTyped'
  BY <1>1, <1>5, <1>6, <1>7 DEF OrderTyped, NDTypeOK, NdIds, NdPools, OrderBooking
<1>10. OrderKnown'
  <2>1. OrderKnows(req, ndOrder', ndBooking')
    BY <1>3, <1>4, <1>5 DEF OrderKnows
  <2>2. \A j \in NdCalls : ndCall'[j] = ndCall[j] \/ OrderKnows(ndCall'[j], ndOrder', ndBooking')
    BY <1>6, <2>1
  <2> QED
    BY <1>4, <1>5, <1>7, <2>2, OrderKnownStays
<1>11. OrderSeats'
  <2>1. \A u \in NdIds : /\ OrderOwed(ndBooking'[u]) = OrderOwed(ndBooking[u])
                          /\ OrderSpot(ndBooking'[u]) = OrderSpot(ndBooking[u])
    BY <1>2, <1>4, <1>5 DEF OrderOwed, OrderSpot
  <2> QED
    BY <1>1, <1>3, <1>7, <1>8, <2>1, OrderSeatsQuiet DEF OrderEnding, OrderMoving, OrderReading
<1>12. OrderCount'
  BY <1>1, <1>3, <1>7, <1>8, OrderCountStays DEF OrderCreating
<1>13. OrderCalm'
  <2> SUFFICES ASSUME ndOdd = 0
               PROVE  /\ \A j \in NdCalls \ {k} : ndCall[j].doing = "idle"
                      /\ OrderOne'
                      /\ OrderStage(req.doing, req.order, req.total, req.added)'
    BY <1>3, <1>7, OrderCalmTurn
  <2>1. NdMade = {} /\ \A j \in NdCalls \ {k} : ndCall[j].doing = "idle"
    BY <1>1, OrderAlone DEF OrderStage
  <2>2. ndBooking'[o].cabin = "economy" /\ ndServices'[o] = 0
    BY <1>1, <1>2, <1>4, <1>5, <1>7 DEF OrderKnown, OrderBlank
  <2>3. OrderOne'
    BY <1>7, <2>1 DEF OrderOne
  <2> QED
    BY <1>3, <1>7, <2>1, <2>2, <2>3 DEF OrderStage
<1> QED
  BY <1>9, <1>10, <1>11, <1>12, <1>13 DEF OrderInv

LEMMA OrderInsertOrder == ASSUME OrderInv, NEW k \in NdCalls, NDInsertOrder(k) PROVE OrderInv'
<1>1. OrderTyped /\ OrderKnown /\ OrderCount /\ ndCall[k].doing = "order"
  BY DEF OrderInv, NDInsertOrder, NdDoing
<1>2. PICK o \in NdIds : /\ o = ndCall[k].order /\ ndBooking[o].status # "none" /\ ndServices[o] \in Nat
                         /\ ndOrder[o] \in OrderRow /\ ndBooking[o] \in OrderBooking
  BY <1>1, OrderOwn
<1>3. PICK req \in OrderCall : NdSet(k, req) /\ req.doing = "mark" /\ req.order = o
  BY <1>1, <1>2, OrderThen DEF NDInsertOrder, OrderDoings
<1>4. PICK row \in OrderRow : /\ ndOrder' = [ndOrder EXCEPT ![o] = row] /\ row.status = "pending"
                              /\ row.total = 1
  <2> DEFINE new == [status |-> "pending", total |-> 1]
  <2>1. new \in OrderRow /\ new.status = "pending" /\ new.total = 1
    BY DEF OrderRow
  <2>2. ndOrder' = [ndOrder EXCEPT ![o] = new]
    BY <1>2 DEF NDInsertOrder
  <2> HIDE DEF new, OrderRow
  <2> QED
    BY <2>1, <2>2
<1>5. /\ ndOrder' \in [NdIds -> OrderRow] /\ ndOrder'[o] = row
      /\ \A u \in NdIds \ {o} : ndOrder'[u] = ndOrder[u]
  BY <1>1, <1>4, OrderOrders
<1>6. /\ ndCall' \in [NdCalls -> OrderCall] /\ ndCall'[k] = req
      /\ \A j \in NdCalls \ {k} : ndCall'[j] = ndCall[j]
  BY <1>1, <1>3, OrderGoes
<1>7. /\ ndOffer' = ndOffer /\ ndLapsed' = ndLapsed /\ ndBooking' = ndBooking /\ ndServices' = ndServices
      /\ ndFree' = ndFree /\ ndOps' = ndOps /\ ndOdd' = ndOdd /\ ndMoved' = ndMoved
  BY DEF NDInsertOrder
<1>8. ndOdd \in Nat
  BY <1>1 DEF OrderTyped
<1>9. OrderTyped'
  BY <1>1, <1>5, <1>6, <1>7 DEF OrderTyped, NDTypeOK, NdIds, NdPools, OrderRow
<1>10. OrderKnown'
  <2>1. OrderKnows(req, ndOrder', ndBooking')
    BY <1>2, <1>3, <1>4, <1>5, <1>7 DEF OrderKnows
  <2>2. \A j \in NdCalls : ndCall'[j] = ndCall[j] \/ OrderKnows(ndCall'[j], ndOrder', ndBooking')
    BY <1>6, <2>1
  <2> QED
    BY <1>2, <1>4, <1>5, <1>7, <2>2, OrderKnownStays
<1>11. OrderSeats'
  BY <1>1, <1>3, <1>7, <1>8, OrderSeatsQuiet DEF OrderEnding, OrderMoving, OrderReading
<1>12. OrderCount'
  <2>1. PICK c \in Nat : c = Cardinality(OrderIn(ndCall, OrderCreating))
    BY <1>1, OrderNumbers
  <2>2. Cardinality(OrderIn(ndCall', OrderCreating)) = c - 1
    BY <1>1, <1>3, <2>1, OrderGoesCounts DEF NdOne, OrderCreating
  <2>3. PICK made \in Nat : made = Cardinality(NdMade)
    BY <1>1, OrderNumbers
  <2>4. PICK made2 \in Nat : made2 = Cardinality(NdMade') /\ made2 <= made + 1
    <3>1. NdMade' \in SUBSET NdIds /\ NdMade \in SUBSET NdIds /\ \A u \in NdIds \ {o} : u \in NdMade' <=> u \in NdMade
      BY <1>5 DEF NdMade
    <3>2. Cardinality(NdMade') \in Nat
          /\ Cardinality(NdMade') = Cardinality(NdMade) + NdOne(o \in NdMade') - NdOne(o \in NdMade)
      BY <3>1, OrderFinite, OrderTally
    <3> QED
      BY <2>3, <3>2 DEF NdOne
  <2>5. OrderIn(ndCall', OrderHolding) # {}
    BY <1>3, <1>6 DEF OrderIn, OrderHolding
  <2>6. made + c <= 1 + ndOdd
    BY <1>1, <2>1, <2>3 DEF OrderCount
  <2>7. Cardinality(NdMade') + Cardinality(OrderIn(ndCall', OrderCreating)) <= 1 + ndOdd'
    BY <1>7, <1>8, <2>2, <2>4, <2>6
  <2> QED
    BY <2>5, <2>7 DEF OrderCount
<1>13. OrderCalm'
  <2> SUFFICES ASSUME ndOdd = 0
               PROVE  /\ \A j \in NdCalls \ {k} : ndCall[j].doing = "idle"
                      /\ OrderOne'
                      /\ OrderStage(req.doing, req.order, req.total, req.added)'
    BY <1>3, <1>7, OrderCalmTurn
  <2>1. /\ NdMade = {} /\ \A j \in NdCalls \ {k} : ndCall[j].doing = "idle"
        /\ ndBooking[o].cabin = "economy" /\ ndServices[o] = 0
    BY <1>1, <1>2, OrderAlone DEF OrderStage
  <2>2. \A u \in NdMade' : u = o
    BY <1>5, <2>1 DEF NdMade
  <2>3. OrderOne'
    BY <2>2 DEF OrderOne
  <2>4. OrderBill(o)' = 1
    BY <1>7, <2>1 DEF OrderBill, NdOne
  <2> HIDE DEF OrderBill
  <2> QED
    BY <1>3, <1>4, <1>5, <2>1, <2>3, <2>4 DEF OrderStage
<1> QED
  BY <1>9, <1>10, <1>11, <1>12, <1>13 DEF OrderInv

LEMMA OrderMarkOrdered == ASSUME OrderInv, NEW k \in NdCalls, NDMarkOrdered(k) PROVE OrderInv'
<1>1. OrderTyped /\ OrderKnown /\ ndCall[k].doing = "mark"
  BY DEF OrderInv, NDMarkOrdered, NdDoing
<1>2. PICK o \in NdIds : o = ndCall[k].order /\ ndOrder[o].status # "none"
  BY <1>1, OrderOwn
<1>3. PICK req \in OrderCall : NdSet(k, req) /\ req.doing = "idle"
  BY <1>1, OrderReturns DEF NDMarkOrdered
<1>6. /\ ndCall' \in [NdCalls -> OrderCall] /\ ndCall'[k] = req
      /\ \A j \in NdCalls \ {k} : ndCall'[j] = ndCall[j]
  BY <1>1, <1>3, OrderGoes
<1>7. /\ ndOffer' = "ordered" /\ ndLapsed' = ndLapsed /\ ndOrder' = ndOrder /\ ndBooking' = ndBooking
      /\ ndServices' = ndServices /\ ndFree' = ndFree /\ ndOps' = ndOps /\ ndOdd' = ndOdd
      /\ ndMoved' = ndMoved /\ NdMade' = NdMade
  BY DEF NDMarkOrdered, NdMade
<1>8. ndOdd \in Nat
  BY <1>1 DEF OrderTyped
<1>9. OrderTyped'
  BY <1>1, <1>6, <1>7 DEF OrderTyped, NDTypeOK, NdIds, NdPools
<1>10. OrderKnown'
  <2>1. \A j \in NdCalls : ndCall'[j] = ndCall[j] \/ OrderKnows(ndCall'[j], ndOrder', ndBooking')
    BY <1>3, <1>6 DEF OrderKnows
  <2> QED
    BY <1>7, <2>1, OrderKnownStays
<1>11. OrderSeats'
  BY <1>1, <1>3, <1>7, <1>8, OrderSeatsQuiet DEF OrderEnding, OrderMoving, OrderReading
<1>12. OrderCount'
  BY <1>1, <1>3, <1>7, <1>8, OrderCountStays DEF OrderCreating
<1>13. OrderCalm'
  <2> SUFFICES ASSUME ndOdd = 0
               PROVE  (\A j \in NdCalls \ {k} : ndCall[j].doing = "idle") /\ OrderOne' /\ OrderRest'
    BY <1>3, <1>7, OrderCalmTurn
  <2>1. /\ \A j \in NdCalls \ {k} : ndCall[j].doing = "idle"
        /\ OrderOne /\ ndOrder[o].status = "pending" /\ ndOrder[o].total = OrderBill(o)
    BY <1>1, <1>2, OrderAlone DEF OrderStage
  <2>2. OrderOne'
    BY <1>7, <2>1 DEF OrderOne
  <2>3. \A u \in NdMade' : u = o
    BY <1>2, <1>7, <2>1 DEF OrderOne, NdMade
  <2>4. OrderBill(o)' = OrderBill(o)
    BY <1>7 DEF OrderBill
  <2> HIDE DEF OrderBill
  <2>5. OrderRest'
    BY <1>7, <2>1, <2>3, <2>4 DEF OrderRest
  <2> QED
    BY <2>1, <2>2, <2>5
<1> QED
  BY <1>9, <1>10, <1>11, <1>12, <1>13 DEF OrderInv

LEMMA OrderExpireFound == ASSUME OrderInv, NEW k \in NdCalls, NDExpireFound(k) PROVE OrderInv'
<1>1. OrderTyped /\ OrderKnown /\ ndCall[k].doing = "expire"
  BY DEF OrderInv, NDExpireFound, NdDoing
<1>3. PICK req \in OrderCall : NdSet(k, req) /\ req.doing = "idle"
  BY <1>1, OrderReturns DEF NDExpireFound
<1>6. /\ ndCall' \in [NdCalls -> OrderCall] /\ ndCall'[k] = req
      /\ \A j \in NdCalls \ {k} : ndCall'[j] = ndCall[j]
  BY <1>1, <1>3, OrderGoes
<1>7. /\ ndOffer' = "expired" /\ ndLapsed' = ndLapsed /\ ndOrder' = ndOrder /\ ndBooking' = ndBooking
      /\ ndServices' = ndServices /\ ndFree' = ndFree /\ ndOps' = ndOps /\ ndOdd' = ndOdd
      /\ ndMoved' = ndMoved /\ NdMade' = NdMade
  BY DEF NDExpireFound, NdMade
<1>8. ndOdd \in Nat
  BY <1>1 DEF OrderTyped
<1>9. OrderTyped'
  BY <1>1, <1>6, <1>7 DEF OrderTyped, NDTypeOK, NdIds, NdPools
<1>10. OrderKnown'
  <2>1. \A j \in NdCalls : ndCall'[j] = ndCall[j] \/ OrderKnows(ndCall'[j], ndOrder', ndBooking')
    BY <1>3, <1>6 DEF OrderKnows
  <2> QED
    BY <1>7, <2>1, OrderKnownStays
<1>11. OrderSeats'
  BY <1>1, <1>3, <1>7, <1>8, OrderSeatsQuiet DEF OrderEnding, OrderMoving, OrderReading
<1>12. OrderCount'
  BY <1>1, <1>3, <1>7, <1>8, OrderCountStays DEF OrderCreating
<1>13. OrderCalm'
  <2> SUFFICES ASSUME ndOdd = 0
               PROVE  (\A j \in NdCalls \ {k} : ndCall[j].doing = "idle") /\ OrderOne' /\ OrderRest'
    BY <1>3, <1>7, OrderCalmTurn
  <2>1. NdMade = {} /\ \A j \in NdCalls \ {k} : ndCall[j].doing = "idle"
    BY <1>1, OrderAlone DEF OrderStage
  <2> QED
    BY <1>7, <2>1 DEF OrderOne, OrderRest
<1> QED
  BY <1>9, <1>10, <1>11, <1>12, <1>13 DEF OrderInv

LEMMA OrderCancelOrder == ASSUME OrderInv, NEW k \in NdCalls, NDCancelOrder(k) PROVE OrderInv'
<1>1. OrderTyped /\ OrderKnown /\ ndCall[k].doing = "cancel"
  BY DEF OrderInv, NDCancelOrder, NdDoing
<1>2. PICK o \in NdIds : /\ o = ndCall[k].order /\ ndOrder[o].status # "none"
                         /\ ndBooking[o].status # "none" /\ ndOrder[o] \in OrderRow
  BY <1>1, OrderOwn
<1>3. PICK req \in OrderCall : NdSet(k, req) /\ req.doing = "look" /\ req.order = o
  BY <1>1, <1>2, OrderThen DEF NDCancelOrder, OrderDoings
<1>4. PICK row \in OrderRow : /\ ndOrder' = [ndOrder EXCEPT ![o] = row] /\ row.status = "cancelled"
                              /\ row.total = ndOrder[o].total
  <2> DEFINE new == [ndOrder[o] EXCEPT !.status = "cancelled"]
  <2>1. new \in OrderRow /\ new.status = "cancelled" /\ new.total = ndOrder[o].total
    BY <1>2 DEF OrderRow
  <2>2. ndOrder' = [ndOrder EXCEPT ![o] = new]
    BY <1>2 DEF NDCancelOrder
  <2> HIDE DEF new, OrderRow
  <2> QED
    BY <2>1, <2>2
<1>5. /\ ndOrder' \in [NdIds -> OrderRow] /\ ndOrder'[o] = row
      /\ \A u \in NdIds \ {o} : ndOrder'[u] = ndOrder[u]
  BY <1>1, <1>4, OrderOrders
<1>6. /\ ndCall' \in [NdCalls -> OrderCall] /\ ndCall'[k] = req
      /\ \A j \in NdCalls \ {k} : ndCall'[j] = ndCall[j]
  BY <1>1, <1>3, OrderGoes
<1>7. /\ ndOffer' = ndOffer /\ ndLapsed' = ndLapsed /\ ndBooking' = ndBooking /\ ndServices' = ndServices
      /\ ndFree' = ndFree /\ ndOps' = ndOps /\ ndOdd' = ndOdd /\ ndMoved' = ndMoved
  BY DEF NDCancelOrder
<1>8. NdMade' = NdMade
  BY <1>2, <1>4, <1>5 DEF NdMade
<1>9. OrderTyped'
  BY <1>1, <1>5, <1>6, <1>7 DEF OrderTyped, NDTypeOK, NdIds, NdPools, OrderRow
<1>10. OrderKnown'
  <2>1. OrderKnows(req, ndOrder', ndBooking')
    BY <1>2, <1>3, <1>4, <1>5, <1>7 DEF OrderKnows
  <2>2. \A j \in NdCalls : ndCall'[j] = ndCall[j] \/ OrderKnows(ndCall'[j], ndOrder', ndBooking')
    BY <1>6, <2>1
  <2> QED
    BY <1>2, <1>4, <1>5, <1>7, <2>2, OrderKnownStays
<1>11. ndOdd \in Nat
  BY <1>1 DEF OrderTyped
<1>12. OrderSeats'
  BY <1>1, <1>3, <1>7, <1>11, OrderSeatsQuiet DEF OrderEnding, OrderMoving, OrderReading
<1>13. OrderCount'
  BY <1>1, <1>3, <1>7, <1>8, <1>11, OrderCountStays DEF OrderCreating
<1>14. OrderCalm'
  <2> SUFFICES ASSUME ndOdd = 0
               PROVE  /\ \A j \in NdCalls \ {k} : ndCall[j].doing = "idle"
                      /\ OrderOne'
                      /\ OrderStage(req.doing, req.order, req.total, req.added)'
    BY <1>3, <1>7, OrderCalmTurn
  <2>1. /\ \A j \in NdCalls \ {k} : ndCall[j].doing = "idle"
        /\ OrderOne /\ ndOffer = "ordered" /\ ndOrder[o].total = OrderBill(o)
    BY <1>1, <1>2, OrderAlone DEF OrderStage
  <2>2. OrderOne'
    BY <1>8, <2>1 DEF OrderOne
  <2>3. OrderBill(o)' = OrderBill(o)
    BY <1>7 DEF OrderBill
  <2> HIDE DEF OrderBill
  <2> QED
    BY <1>3, <1>4, <1>5, <1>7, <2>1, <2>2, <2>3 DEF OrderStage
<1> QED
  BY <1>9, <1>10, <1>12, <1>13, <1>14 DEF OrderInv

LEMMA OrderLookAtBooking == ASSUME OrderInv, NEW k \in NdCalls, NDLookAtBooking(k) PROVE OrderInv'
<1>1. OrderTyped /\ OrderKnown /\ ndCall[k].doing = "look" /\ ndCall[k] \in OrderCall
  BY DEF OrderInv, OrderTyped, NDLookAtBooking, NdDoing
<1>2. PICK o \in NdIds : /\ o = ndCall[k].order /\ ndOrder[o].status # "none"
                         /\ ndBooking[o].status # "none" /\ ndBooking[o] \in OrderBooking
  BY <1>1, OrderOwn
<1>3. PICK req \in OrderCall :
        /\ NdSet(k, req) /\ req.doing \in {"offer", "unbook"} /\ req.order = o
        /\ req.doing = "offer" => ndBooking[o].status = "cancelled"
        /\ req.doing = "unbook" => req.to = OrderOwed(ndBooking[o])
  <2>1. CASE ndBooking[o].status = "cancelled"
    <3>1. NdThen(k, "offer")
      BY <1>2, <2>1 DEF NDLookAtBooking
    <3> QED
      BY <1>1, <1>2, <2>1, <3>1, OrderThen DEF OrderDoings
  <2>2. CASE ndBooking[o].status # "cancelled"
    <3> DEFINE to == IF ndBooking[o].status = "confirmed" THEN {NdPool(o)} ELSE {}
               new == [ndCall[k] EXCEPT !.doing = "unbook", !.to = to]
    <3>1. to = OrderOwed(ndBooking[o]) /\ to \in OrderSets
      BY <1>2 DEF OrderOwed, NdPool, OrderSets, NdPools, OrderBooking
    <3>2. NdSet(k, new)
      BY <1>2, <2>2 DEF NDLookAtBooking
    <3> HIDE DEF to
    <3>3. new \in OrderCall /\ new.doing = "unbook" /\ new.order = o /\ new.to = to
      <4>1. "unbook" \in OrderDoings
        BY DEF OrderDoings
      <4> HIDE DEF OrderDoings, OrderSets
      <4> QED
        BY <1>1, <1>2, <3>1, <4>1 DEF OrderCall
    <3> HIDE DEF new, OrderCall
    <3> QED
      BY <3>1, <3>2, <3>3
  <2> QED
    BY <2>1, <2>2
<1>6. /\ ndCall' \in [NdCalls -> OrderCall] /\ ndCall'[k] = req
      /\ \A j \in NdCalls \ {k} : ndCall'[j] = ndCall[j]
  BY <1>1, <1>3, OrderGoes
<1>7. /\ ndOffer' = ndOffer /\ ndLapsed' = ndLapsed /\ ndOrder' = ndOrder /\ ndBooking' = ndBooking
      /\ ndServices' = ndServices /\ ndFree' = ndFree /\ ndOps' = ndOps /\ ndOdd' = ndOdd
      /\ ndMoved' = ndMoved /\ NdMade' = NdMade
  BY DEF NDLookAtBooking, NdMade
<1>8. ndOdd \in Nat
  BY <1>1 DEF OrderTyped
<1>9. OrderTyped'
  BY <1>1, <1>6, <1>7 DEF OrderTyped, NDTypeOK, NdIds, NdPools
<1>10. OrderKnown'
  <2>1. OrderKnows(req, ndOrder', ndBooking')
    BY <1>2, <1>3, <1>7 DEF OrderKnows
  <2>2. \A j \in NdCalls : ndCall'[j] = ndCall[j] \/ OrderKnows(ndCall'[j], ndOrder', ndBooking')
    BY <1>6, <2>1
  <2> QED
    BY <1>7, <2>2, OrderKnownStays
<1>11. OrderSeats'
  <2>1. req.doing \in OrderReading => req.order \in NdIds /\ ~OrderWrong(req, ndBooking[req.order])
    BY <1>3 DEF OrderReading, OrderWrong
  <2> HIDE DEF OrderOwed, OrderWrong
  <2> QED
    BY <1>1, <1>3, <1>7, <1>8, <2>1, OrderSeatsQuiet DEF OrderEnding, OrderMoving, OrderReading
<1>12. OrderCount'
  BY <1>1, <1>3, <1>7, <1>8, OrderCountStays DEF OrderCreating
<1>13. OrderCalm'
  <2> SUFFICES ASSUME ndOdd = 0
               PROVE  /\ \A j \in NdCalls \ {k} : ndCall[j].doing = "idle"
                      /\ OrderOne'
                      /\ OrderStage(req.doing, req.order, req.total, req.added)'
    BY <1>3, <1>7, OrderCalmTurn
  <2>1. /\ \A j \in NdCalls \ {k} : ndCall[j].doing = "idle"
        /\ OrderOne /\ ndOffer = "ordered" /\ ndOrder[o].status = "cancelled"
        /\ ndOrder[o].total = OrderBill(o)
    BY <1>1, <1>2, OrderAlone DEF OrderStage
  <2>2. OrderOne'
    BY <1>7, <2>1 DEF OrderOne
  <2>3. OrderBill(o)' = OrderBill(o)
    BY <1>7 DEF OrderBill
  <2> HIDE DEF OrderBill, OrderOwed
  <2> QED
    BY <1>3, <1>7, <2>1, <2>2, <2>3 DEF OrderStage
<1> QED
  BY <1>9, <1>10, <1>11, <1>12, <1>13 DEF OrderInv

LEMMA OrderUnbook == ASSUME OrderInv, NEW k \in NdCalls, NDUnbook(k) PROVE OrderInv'
<1>1. OrderTyped /\ OrderKnown /\ ndCall[k].doing = "unbook"
  BY DEF OrderInv, NDUnbook, NdDoing
<1>2. PICK o \in NdIds : /\ o = ndCall[k].order /\ ndOrder[o].status # "none"
                         /\ ndBooking[o].status # "none" /\ ndBooking[o] \in OrderBooking
  BY <1>1, OrderOwn
<1>3. PICK req \in OrderCall :
        /\ NdSet(k, req) /\ req.doing \in {"restore", "offer"} /\ req.order = o /\ req.to = ndCall[k].to
        /\ req.doing = "offer" => req.to = {}
  <2>1. CASE ndCall[k].to = {}
    <3>1. NdThen(k, "offer")
      BY <2>1 DEF NDUnbook
    <3> QED
      BY <1>1, <1>2, <2>1, <3>1, OrderThen DEF OrderDoings
  <2>2. CASE ndCall[k].to # {}
    <3>1. NdThen(k, "restore")
      BY <2>2 DEF NDUnbook
    <3> QED
      BY <1>1, <1>2, <3>1, OrderThen DEF OrderDoings
  <2> QED
    BY <2>1, <2>2
<1>4. PICK row \in OrderBooking : /\ ndBooking' = [ndBooking EXCEPT ![o] = row] /\ row.status = "cancelled"
                                  /\ row.cabin = ndBooking[o].cabin
  <2> DEFINE new == [ndBooking[o] EXCEPT !.status = "cancelled"]
  <2>1. new \in OrderBooking /\ new.status = "cancelled" /\ new.cabin = ndBooking[o].cabin
    BY <1>2 DEF OrderBooking
  <2>2. ndBooking' = [ndBooking EXCEPT ![o] = new]
    BY <1>2 DEF NDUnbook
  <2> HIDE DEF new, OrderBooking
  <2> QED
    BY <2>1, <2>2
<1>5. /\ ndBooking' \in [NdIds -> OrderBooking] /\ ndBooking'[o] = row
      /\ \A u \in NdIds \ {o} : ndBooking'[u] = ndBooking[u]
  BY <1>1, <1>4, OrderBooks
<1>6. /\ ndCall' \in [NdCalls -> OrderCall] /\ ndCall'[k] = req
      /\ \A j \in NdCalls \ {k} : ndCall'[j] = ndCall[j]
  BY <1>1, <1>3, OrderGoes
<1>7. /\ ndOffer' = ndOffer /\ ndLapsed' = ndLapsed /\ ndOrder' = ndOrder /\ ndServices' = ndServices
      /\ ndFree' = ndFree /\ ndOps' = ndOps /\ ndOdd' = ndOdd /\ ndMoved' = ndMoved /\ NdMade' = NdMade
  BY DEF NDUnbook, NdMade
<1>8. ndOdd \in Nat /\ ndMoved \in Nat
  BY <1>1 DEF OrderTyped
<1>9. OrderTyped'
  BY <1>1, <1>5, <1>6, <1>7 DEF OrderTyped, NDTypeOK, NdIds, NdPools, OrderBooking
<1>10. OrderKnown'
  <2>1. OrderKnows(req, ndOrder', ndBooking')
    BY <1>2, <1>3, <1>4, <1>5, <1>7 DEF OrderKnows
  <2>2. \A j \in NdCalls : ndCall'[j] = ndCall[j] \/ OrderKnows(ndCall'[j], ndOrder', ndBooking')
    BY <1>6, <2>1
  <2> QED
    BY <1>4, <1>5, <1>7, <2>2, OrderKnownStays
<1>11. OrderSeats'
  <2>1. OrderOwed(row) = {}
    BY <1>4 DEF OrderOwed
  <2> HIDE DEF OrderOwed, OrderBooking, OrderCall
  <2> QED
    BY <1>1, <1>2, <1>3, <1>4, <1>7, <1>8, <2>1, OrderSeatsWrite
<1>12. OrderCount'
  BY <1>1, <1>3, <1>7, <1>8, OrderCountStays DEF OrderCreating
<1>13. OrderCalm'
  <2> SUFFICES ASSUME ndOdd = 0
               PROVE  /\ \A j \in NdCalls \ {k} : ndCall[j].doing = "idle"
                      /\ OrderOne'
                      /\ OrderStage(req.doing, req.order, req.total, req.added)'
    BY <1>3, <1>7, OrderCalmTurn
  <2>1. /\ \A j \in NdCalls \ {k} : ndCall[j].doing = "idle"
        /\ OrderOne /\ ndOffer = "ordered" /\ ndOrder[o].status = "cancelled"
        /\ ndOrder[o].total = OrderBill(o)
    BY <1>1, <1>2, OrderAlone DEF OrderStage
  <2>2. OrderOne'
    BY <1>7, <2>1 DEF OrderOne
  <2>3. OrderBill(o)' = OrderBill(o)
    BY <1>4, <1>5, <1>7 DEF OrderBill
  <2> HIDE DEF OrderBill
  <2> QED
    BY <1>3, <1>4, <1>5, <1>7, <2>1, <2>2, <2>3 DEF OrderStage
<1> QED
  BY <1>9, <1>10, <1>11, <1>12, <1>13 DEF OrderInv

LEMMA OrderRestore == ASSUME OrderInv, NEW k \in NdCalls, NDRestore(k) PROVE OrderInv'
<1>1. OrderTyped /\ OrderKnown /\ ndCall[k].doing = "restore"
  BY DEF OrderInv, NDRestore, NdDoing
<1>2. PICK o \in NdIds : o = ndCall[k].order /\ ndOrder[o].status # "none" /\ ndBooking[o].status # "none"
  BY <1>1, OrderOwn
<1>3. PICK req \in OrderCall : NdSet(k, req) /\ req.doing = "offer" /\ req.order = o
  BY <1>1, <1>2, OrderThen DEF NDRestore, OrderDoings
<1>6. /\ ndCall' \in [NdCalls -> OrderCall] /\ ndCall'[k] = req
      /\ \A j \in NdCalls \ {k} : ndCall'[j] = ndCall[j]
  BY <1>1, <1>3, OrderGoes
<1>7. /\ ndOffer' = ndOffer /\ ndLapsed' = ndLapsed /\ ndOrder' = ndOrder /\ ndBooking' = ndBooking
      /\ ndServices' = ndServices /\ ndFree' = NdRestored(ndCall[k].to) /\ ndOps' = ndOps
      /\ ndOdd' = ndOdd /\ ndMoved' = ndMoved /\ NdMade' = NdMade
  BY DEF NDRestore, NdMade
<1>8. ndOdd \in Nat
  BY <1>1 DEF OrderTyped
<1>9. OrderTyped'
  <2>1. ndFree' \in [NdPools -> Nat]
    BY <1>1, <1>7 DEF OrderTyped, NDTypeOK, NdRestored, NdOne
  <2> QED
    BY <1>1, <1>6, <1>7, <2>1 DEF OrderTyped, NDTypeOK, NdIds, NdPools
<1>10. OrderKnown'
  <2>1. OrderKnows(req, ndOrder', ndBooking')
    BY <1>2, <1>3, <1>7 DEF OrderKnows
  <2>2. \A j \in NdCalls : ndCall'[j] = ndCall[j] \/ OrderKnows(ndCall'[j], ndOrder', ndBooking')
    BY <1>6, <2>1
  <2> QED
    BY <1>7, <2>2, OrderKnownStays
<1>11. OrderSeats'
  BY <1>1, <1>3, <1>7, OrderSeatsRestore
<1>12. OrderCount'
  BY <1>1, <1>3, <1>7, <1>8, OrderCountStays DEF OrderCreating
<1>13. OrderCalm'
  <2> SUFFICES ASSUME ndOdd = 0
               PROVE  /\ \A j \in NdCalls \ {k} : ndCall[j].doing = "idle"
                      /\ OrderOne'
                      /\ OrderStage(req.doing, req.order, req.total, req.added)'
    BY <1>3, <1>7, OrderCalmTurn
  <2>1. /\ \A j \in NdCalls \ {k} : ndCall[j].doing = "idle"
        /\ OrderOne /\ ndOffer = "ordered" /\ ndOrder[o].status = "cancelled"
        /\ ndBooking[o].status = "cancelled" /\ ndOrder[o].total = OrderBill(o)
    BY <1>1, <1>2, OrderAlone DEF OrderStage
  <2>2. OrderOne'
    BY <1>7, <2>1 DEF OrderOne
  <2>3. OrderBill(o)' = OrderBill(o)
    BY <1>7 DEF OrderBill
  <2> HIDE DEF OrderBill
  <2> QED
    BY <1>3, <1>7, <2>1, <2>2, <2>3 DEF OrderStage
<1> QED
  BY <1>9, <1>10, <1>11, <1>12, <1>13 DEF OrderInv

LEMMA OrderReleaseOffer == ASSUME OrderInv, NEW k \in NdCalls, NDReleaseOffer(k) PROVE OrderInv'
<1>1. OrderTyped /\ OrderKnown /\ ndCall[k].doing = "offer"
  BY DEF OrderInv, NDReleaseOffer, NdDoing
<1>2. PICK o \in NdIds : o = ndCall[k].order /\ ndOrder[o].status # "none"
  BY <1>1, OrderOwn
<1>3. PICK req \in OrderCall : NdSet(k, req) /\ req.doing = "idle"
  BY <1>1, OrderReturns DEF NDReleaseOffer
<1>6. /\ ndCall' \in [NdCalls -> OrderCall] /\ ndCall'[k] = req
      /\ \A j \in NdCalls \ {k} : ndCall'[j] = ndCall[j]
  BY <1>1, <1>3, OrderGoes
<1>7. /\ ndOffer' = (IF ndOffer = "ordered" THEN "cancelled" ELSE ndOffer)
      /\ ndLapsed' = ndLapsed /\ ndOrder' = ndOrder /\ ndBooking' = ndBooking
      /\ ndServices' = ndServices /\ ndFree' = ndFree /\ ndOps' = ndOps /\ ndOdd' = ndOdd
      /\ ndMoved' = ndMoved /\ NdMade' = NdMade
  BY DEF NDReleaseOffer, NdMade
<1>8. ndOdd \in Nat
  BY <1>1 DEF OrderTyped
<1>9. OrderTyped'
  BY <1>1, <1>6, <1>7 DEF OrderTyped, NDTypeOK, NdIds, NdPools
<1>10. OrderKnown'
  <2>1. \A j \in NdCalls : ndCall'[j] = ndCall[j] \/ OrderKnows(ndCall'[j], ndOrder', ndBooking')
    BY <1>3, <1>6 DEF OrderKnows
  <2> QED
    BY <1>7, <2>1, OrderKnownStays
<1>11. OrderSeats'
  BY <1>1, <1>3, <1>7, <1>8, OrderSeatsQuiet DEF OrderEnding, OrderMoving, OrderReading
<1>12. OrderCount'
  BY <1>1, <1>3, <1>7, <1>8, OrderCountStays DEF OrderCreating
<1>13. OrderCalm'
  <2> SUFFICES ASSUME ndOdd = 0
               PROVE  (\A j \in NdCalls \ {k} : ndCall[j].doing = "idle") /\ OrderOne' /\ OrderRest'
    BY <1>3, <1>7, OrderCalmTurn
  <2>1. /\ \A j \in NdCalls \ {k} : ndCall[j].doing = "idle"
        /\ OrderOne /\ ndOrder[o].status = "cancelled" /\ ndBooking[o].status = "cancelled"
        /\ ndOrder[o].total = OrderBill(o) /\ ndOffer = "ordered"
    BY <1>1, <1>2, OrderAlone DEF OrderStage
  <2>2. OrderOne'
    BY <1>7, <2>1 DEF OrderOne
  <2>3. \A u \in NdMade' : u = o
    BY <1>2, <1>7, <2>1 DEF OrderOne, NdMade
  <2>4. OrderBill(o)' = OrderBill(o)
    BY <1>7 DEF OrderBill
  <2> HIDE DEF OrderBill
  <2>5. OrderRest'
    BY <1>7, <2>1, <2>3, <2>4 DEF OrderRest
  <2> QED
    BY <2>1, <2>2, <2>5
<1> QED
  BY <1>9, <1>10, <1>11, <1>12, <1>13 DEF OrderInv

LEMMA OrderChangeDate ==
  ASSUME OrderInv, NEW k \in NdCalls, NEW f \in NdFlights, NDChangeDate(k, f) PROVE OrderInv'
<1>1. OrderTyped /\ OrderKnown /\ ndCall[k].doing = "change"
  BY DEF OrderInv, NDChangeDate, NdDoing
<1>2. PICK o \in NdIds : /\ o = ndCall[k].order /\ ndOrder[o].status # "none"
                         /\ ndBooking[o].status # "none" /\ ndBooking[o] \in OrderBooking
  BY <1>1, OrderOwn
<1>3. PICK req \in OrderCall :
        /\ NdSet(k, req) /\ req.doing = "cabin" /\ req.order = o
        /\ req.total = ndCall[k].total /\ req.added = ndCall[k].added
  BY <1>1, <1>2, OrderThen DEF NDChangeDate, OrderDoings
<1>4. PICK row \in OrderBooking : /\ ndBooking' = [ndBooking EXCEPT ![o] = row]
                                  /\ row.status = ndBooking[o].status /\ row.cabin = ndBooking[o].cabin
  <2> DEFINE new == [ndBooking[o] EXCEPT !.flight = f, !.cabin = ndBooking[o].cabin]
  <2>1. new \in OrderBooking /\ new.status = ndBooking[o].status /\ new.cabin = ndBooking[o].cabin
    BY <1>2 DEF OrderBooking
  <2>2. ndBooking' = [ndBooking EXCEPT ![o] = new]
    BY <1>1, <1>2 DEF NDChangeDate, NdMove, OrderTyped, NDTypeOK
  <2> HIDE DEF new, OrderBooking
  <2> QED
    BY <2>1, <2>2
<1>5. /\ ndBooking' \in [NdIds -> OrderBooking] /\ ndBooking'[o] = row
      /\ \A u \in NdIds \ {o} : ndBooking'[u] = ndBooking[u]
  BY <1>1, <1>4, OrderBooks
<1>6. /\ ndCall' \in [NdCalls -> OrderCall] /\ ndCall'[k] = req
      /\ \A j \in NdCalls \ {k} : ndCall'[j] = ndCall[j]
  BY <1>1, <1>3, OrderGoes
<1>7. /\ ndOffer' = ndOffer /\ ndLapsed' = ndLapsed /\ ndOrder' = ndOrder /\ ndServices' = ndServices
      /\ ndFree' = ndFree /\ ndOps' = ndOps /\ ndOdd' = ndOdd /\ NdMade' = NdMade
      /\ ndMoved' = ndMoved + NdOne(ndBooking[o].status = "confirmed")
  BY <1>2 DEF NDChangeDate, NdMove, NdMade
<1>8. ndOdd \in Nat /\ ndMoved \in Nat /\ ndMoved' \in Nat /\ ndMoved' >= ndMoved
  BY <1>1, <1>7 DEF OrderTyped, NdOne
<1>9. OrderTyped'
  BY <1>1, <1>5, <1>6, <1>7, <1>8 DEF OrderTyped, NDTypeOK, NdIds, NdPools, OrderBooking
<1>10. OrderKnown'
  <2>1. OrderKnows(req, ndOrder', ndBooking')
    BY <1>2, <1>3, <1>4, <1>5, <1>7 DEF OrderKnows
  <2>2. \A j \in NdCalls : ndCall'[j] = ndCall[j] \/ OrderKnows(ndCall'[j], ndOrder', ndBooking')
    BY <1>6, <2>1
  <2> QED
    BY <1>2, <1>4, <1>5, <1>7, <2>2, OrderKnownStays
<1>11. OrderSeats'
  <2>1. ndMoved' >= ndMoved + 1 \/ OrderOwed(row) = OrderOwed(ndBooking[o])
    BY <1>4, <1>7, <1>8 DEF OrderOwed, NdOne
  <2>2. ndCall[k].doing \in OrderMoving
    BY <1>1 DEF OrderMoving
  <2> HIDE DEF OrderOwed, OrderBooking, OrderCall
  <2> QED
    BY <1>1, <1>2, <1>3, <1>4, <1>7, <1>8, <2>1, <2>2, OrderSeatsWrite
<1>12. OrderCount'
  BY <1>1, <1>3, <1>7, <1>8, OrderCountStays DEF OrderCreating
<1>13. OrderCalm'
  <2> SUFFICES ASSUME ndOdd = 0
               PROVE  /\ \A j \in NdCalls \ {k} : ndCall[j].doing = "idle"
                      /\ OrderOne'
                      /\ OrderStage(req.doing, req.order, req.total, req.added)'
    BY <1>3, <1>7, OrderCalmTurn
  <2>1. /\ \A j \in NdCalls \ {k} : ndCall[j].doing = "idle"
        /\ OrderOne /\ ndOffer = "ordered" /\ ndOrder[o].status # "cancelled"
        /\ ndOrder[o].total = OrderBill(o) /\ req.added = 0 /\ req.total + req.added = OrderBill(o)
    BY <1>1, <1>2, <1>3, OrderAlone DEF OrderStage
  <2>2. OrderOne'
    BY <1>7, <2>1 DEF OrderOne
  <2>3. OrderBill(o)' = OrderBill(o)
    BY <1>4, <1>5, <1>7 DEF OrderBill
  <2> HIDE DEF OrderBill
  <2> QED
    BY <1>3, <1>7, <2>1, <2>2, <2>3 DEF OrderStage
<1> QED
  BY <1>9, <1>10, <1>11, <1>12, <1>13 DEF OrderInv

LEMMA OrderUpgrade == ASSUME OrderInv, NEW k \in NdCalls, NDUpgrade(k) PROVE OrderInv'
<1>1. OrderTyped /\ OrderKnown /\ ndCall[k].doing \in {"change", "cabin"} /\ ndCall[k] \in OrderCall
  BY DEF OrderInv, OrderTyped, NDUpgrade, NdDoing
<1>2. PICK o \in NdIds : /\ o = ndCall[k].order /\ ndOrder[o].status # "none"
                         /\ ndBooking[o].status # "none" /\ ndBooking[o] \in OrderBooking
                         /\ ndServices[o] \in Nat
  BY <1>1, OrderOwn
<1>3. PICK req \in OrderCall :
        /\ NdSet(k, req) /\ req.doing = "record" /\ req.order = o
        /\ req.total = ndCall[k].total /\ req.added = 1
  <2> DEFINE new == [ndCall[k] EXCEPT !.doing = "record", !.added = 1]
  <2>1. NdSet(k, new)
    BY DEF NDUpgrade
  <2>2. /\ new \in OrderCall /\ new.doing = "record" /\ new.order = o
        /\ new.total = ndCall[k].total /\ new.added = 1
    <3>1. "record" \in OrderDoings
      BY DEF OrderDoings
    <3> DEFINE O == 0..NdMaxOrders
               A == 0..2
               N == Nat
    <3>2. 1 \in A
      OBVIOUS
    <3>3. ndCall[k] \in [doing : OrderDoings, order : O, total : N, added : A, to : OrderSets]
      BY <1>1, Zenon DEF OrderCall
    <3> HIDE DEF OrderDoings, OrderSets, O, A, N
    <3>4. new \in [doing : OrderDoings, order : O, total : N, added : A, to : OrderSets]
      BY <3>1, <3>2, <3>3
    <3>5. new \in OrderCall
      BY <3>4, Zenon DEF OrderCall, O, A, N
    <3>6. new.doing = "record" /\ new.order = o /\ new.total = ndCall[k].total /\ new.added = 1
      BY <1>2, <3>3
    <3> QED
      BY <3>5, <3>6
  <2> HIDE DEF new
  <2> QED
    BY <2>1, <2>2
<1>4. PICK row \in OrderBooking : /\ ndBooking' = [ndBooking EXCEPT ![o] = row]
                                  /\ row.status = ndBooking[o].status /\ row.cabin = "business"
  <2> DEFINE new == [ndBooking[o] EXCEPT !.flight = ndBooking[o].flight, !.cabin = "business"]
  <2>1. new \in OrderBooking /\ new.status = ndBooking[o].status /\ new.cabin = "business"
    BY <1>2 DEF OrderBooking
  <2>2. ndBooking' = [ndBooking EXCEPT ![o] = new]
    BY <1>1, <1>2 DEF NDUpgrade, NdMove, OrderTyped, NDTypeOK
  <2> HIDE DEF new, OrderBooking
  <2> QED
    BY <2>1, <2>2
<1>5. /\ ndBooking' \in [NdIds -> OrderBooking] /\ ndBooking'[o] = row
      /\ \A u \in NdIds \ {o} : ndBooking'[u] = ndBooking[u]
  BY <1>1, <1>4, OrderBooks
<1>6. /\ ndCall' \in [NdCalls -> OrderCall] /\ ndCall'[k] = req
      /\ \A j \in NdCalls \ {k} : ndCall'[j] = ndCall[j]
  BY <1>1, <1>3, OrderGoes
<1>7. /\ ndOffer' = ndOffer /\ ndLapsed' = ndLapsed /\ ndOrder' = ndOrder /\ ndServices' = ndServices
      /\ ndFree' = ndFree /\ ndOps' = ndOps /\ ndOdd' = ndOdd /\ NdMade' = NdMade
      /\ ndMoved' = ndMoved + NdOne(ndBooking[o].status = "confirmed")
      /\ ndBooking[o].cabin = "economy"
  BY <1>2 DEF NDUpgrade, NdMove, NdMade
<1>8. ndOdd \in Nat /\ ndMoved \in Nat /\ ndMoved' \in Nat /\ ndMoved' >= ndMoved
  BY <1>1, <1>7 DEF OrderTyped, NdOne
<1>9. OrderTyped'
  BY <1>1, <1>5, <1>6, <1>7, <1>8 DEF OrderTyped, NDTypeOK, NdIds, NdPools, OrderBooking
<1>10. OrderKnown'
  <2>1. OrderKnows(req, ndOrder', ndBooking')
    BY <1>2, <1>3, <1>4, <1>5, <1>7 DEF OrderKnows
  <2>2. \A j \in NdCalls : ndCall'[j] = ndCall[j] \/ OrderKnows(ndCall'[j], ndOrder', ndBooking')
    BY <1>6, <2>1
  <2> QED
    BY <1>2, <1>4, <1>5, <1>7, <2>2, OrderKnownStays
<1>11. OrderSeats'
  <2>1. ndMoved' >= ndMoved + 1 \/ OrderOwed(row) = OrderOwed(ndBooking[o])
    BY <1>4, <1>7, <1>8 DEF OrderOwed, NdOne
  <2>2. ndCall[k].doing \in OrderMoving
    BY <1>1 DEF OrderMoving
  <2> HIDE DEF OrderOwed, OrderBooking, OrderCall
  <2> QED
    BY <1>1, <1>2, <1>3, <1>4, <1>7, <1>8, <2>1, <2>2, OrderSeatsWrite
<1>12. OrderCount'
  BY <1>1, <1>3, <1>7, <1>8, OrderCountStays DEF OrderCreating
<1>13. OrderCalm'
  <2> SUFFICES ASSUME ndOdd = 0
               PROVE  /\ \A j \in NdCalls \ {k} : ndCall[j].doing = "idle"
                      /\ OrderOne'
                      /\ OrderStage(req.doing, req.order, req.total, req.added)'
    BY <1>3, <1>7, OrderCalmTurn
  <2>1. /\ \A j \in NdCalls \ {k} : ndCall[j].doing = "idle"
        /\ OrderOne /\ ndOffer = "ordered" /\ ndOrder[o].status # "cancelled"
        /\ ndCall[k].added = 0 /\ ndCall[k].total + ndCall[k].added = OrderBill(o)
    BY <1>1, <1>2, OrderAlone DEF OrderStage
  <2>2. OrderOne'
    BY <1>7, <2>1 DEF OrderOne
  <2>3. req.total + req.added = OrderBill(o)'
    <3>1. OrderBill(o) = 1 + ndServices[o] /\ OrderBill(o)' = 2 + ndServices[o]
      BY <1>2, <1>4, <1>5, <1>7 DEF OrderBill, NdOne
    <3>2. ndCall[k].total \in Nat
      BY <1>1 DEF OrderCall
    <3> QED
      BY <1>2, <1>3, <2>1, <3>1, <3>2
  <2> HIDE DEF OrderBill
  <2> QED
    BY <1>3, <1>7, <2>1, <2>2, <2>3 DEF OrderStage
<1> QED
  BY <1>9, <1>10, <1>11, <1>12, <1>13 DEF OrderInv

LEMMA OrderRecordChange == ASSUME OrderInv, NEW k \in NdCalls, NDRecordChange(k) PROVE OrderInv'
<1>1. OrderTyped /\ OrderKnown /\ ndCall[k].doing \in {"change", "cabin", "record"} /\ ndCall[k] \in OrderCall
  BY DEF OrderInv, OrderTyped, NDRecordChange, NdDoing
<1>2. PICK o \in NdIds : /\ o = ndCall[k].order /\ ndOrder[o].status # "none"
                         /\ ndBooking[o].status # "none"
  BY <1>1, OrderOwn
<1>3. PICK req \in OrderCall : NdSet(k, req) /\ req.doing = "idle"
  BY <1>1, OrderReturns DEF NDRecordChange
<1>4. PICK row \in OrderRow : /\ ndOrder' = [ndOrder EXCEPT ![o] = row] /\ row.status = "changed"
                              /\ row.total = ndCall[k].total + ndCall[k].added
  <2> DEFINE new == [status |-> "changed", total |-> NdBilled(k)]
  <2>1. NdBilled(k) \in Nat /\ NdBilled(k) = ndCall[k].total + ndCall[k].added
    <3> HIDE DEF OrderDoings, OrderSets
    <3> QED
      BY <1>1 DEF NdBilled, OrderCall
  <2>2. new \in OrderRow /\ new.status = "changed" /\ new.total = ndCall[k].total + ndCall[k].added
    BY <2>1 DEF OrderRow
  <2>3. ndOrder' = [ndOrder EXCEPT ![o] = new]
    BY <1>2 DEF NDRecordChange
  <2> HIDE DEF new, OrderRow
  <2> QED
    BY <2>2, <2>3
<1>5. /\ ndOrder' \in [NdIds -> OrderRow] /\ ndOrder'[o] = row
      /\ \A u \in NdIds \ {o} : ndOrder'[u] = ndOrder[u]
  BY <1>1, <1>4, OrderOrders
<1>6. /\ ndCall' \in [NdCalls -> OrderCall] /\ ndCall'[k] = req
      /\ \A j \in NdCalls \ {k} : ndCall'[j] = ndCall[j]
  BY <1>1, <1>3, OrderGoes
<1>7. /\ ndOffer' = ndOffer /\ ndLapsed' = ndLapsed /\ ndBooking' = ndBooking /\ ndServices' = ndServices
      /\ ndFree' = ndFree /\ ndOps' = ndOps /\ ndOdd' = ndOdd /\ ndMoved' = ndMoved
  BY DEF NDRecordChange
<1>8. ndOdd \in Nat /\ NdMade' = NdMade
  BY <1>1, <1>2, <1>4, <1>5 DEF OrderTyped, NdMade
<1>9. OrderTyped'
  BY <1>1, <1>5, <1>6, <1>7 DEF OrderTyped, NDTypeOK, NdIds, NdPools, OrderRow
<1>10. OrderKnown'
  <2>1. \A j \in NdCalls : ndCall'[j] = ndCall[j] \/ OrderKnows(ndCall'[j], ndOrder', ndBooking')
    BY <1>3, <1>6 DEF OrderKnows
  <2> QED
    BY <1>2, <1>4, <1>5, <1>7, <2>1, OrderKnownStays
<1>11. OrderSeats'
  BY <1>1, <1>3, <1>7, <1>8, OrderSeatsQuiet DEF OrderEnding, OrderMoving, OrderReading
<1>12. OrderCount'
  BY <1>1, <1>3, <1>7, <1>8, OrderCountStays DEF OrderCreating
<1>13. OrderCalm'
  <2> SUFFICES ASSUME ndOdd = 0
               PROVE  (\A j \in NdCalls \ {k} : ndCall[j].doing = "idle") /\ OrderOne' /\ OrderRest'
    BY <1>3, <1>7, OrderCalmTurn
  <2>1. /\ \A j \in NdCalls \ {k} : ndCall[j].doing = "idle"
        /\ OrderOne /\ ndOffer = "ordered" /\ ndCall[k].total + ndCall[k].added = OrderBill(o)
    BY <1>1, <1>2, OrderAlone DEF OrderStage
  <2>2. OrderOne'
    BY <1>8, <2>1 DEF OrderOne
  <2>3. \A u \in NdMade' : u = o
    BY <1>2, <1>8, <2>1 DEF OrderOne, NdMade
  <2>4. OrderBill(o)' = OrderBill(o)
    BY <1>7 DEF OrderBill
  <2> HIDE DEF OrderBill
  <2>5. OrderRest'
    BY <1>4, <1>5, <1>7, <2>1, <2>3, <2>4 DEF OrderRest
  <2> QED
    BY <2>1, <2>2, <2>5
<1> QED
  BY <1>9, <1>10, <1>11, <1>12, <1>13 DEF OrderInv

LEMMA OrderAddService == ASSUME OrderInv, NEW k \in NdCalls, NDAddService(k) PROVE OrderInv'
<1>1. /\ OrderTyped /\ OrderKnown /\ ndCall[k].doing = "serve" /\ ndCall[k] \in OrderCall
      /\ ndCall[k].added < 2
  BY DEF OrderInv, OrderTyped, NDAddService, NdDoing
<1>2. PICK o \in NdIds : /\ o = ndCall[k].order /\ ndOrder[o].status # "none"
                         /\ ndBooking[o].status # "none" /\ ndServices[o] \in Nat
  BY <1>1, OrderOwn
<1>3. PICK req \in OrderCall :
        /\ NdSet(k, req) /\ req.doing = "serve" /\ req.order = o
        /\ req.total = ndCall[k].total /\ req.added = ndCall[k].added + 1
  <2> DEFINE new == [ndCall[k] EXCEPT !.added = @ + 1]
  <2>1. NdSet(k, new)
    BY DEF NDAddService
  <2>2. /\ new \in OrderCall /\ new.doing = "serve" /\ new.order = o
        /\ new.total = ndCall[k].total /\ new.added = ndCall[k].added + 1
    <3>1. ndCall[k].added + 1 \in 0..2
      <4> HIDE DEF OrderDoings, OrderSets
      <4> QED
        BY <1>1 DEF OrderCall
    <3> HIDE DEF OrderDoings, OrderSets
    <3> QED
      BY <1>1, <1>2, <3>1 DEF OrderCall
  <2> HIDE DEF new
  <2> QED
    BY <2>1, <2>2
<1>5. /\ ndServices' \in [NdIds -> Nat] /\ ndServices'[o] = ndServices[o] + 1
      /\ \A u \in NdIds \ {o} : ndServices'[u] = ndServices[u]
  BY <1>1, <1>2 DEF NDAddService, OrderTyped, NDTypeOK
<1>6. /\ ndCall' \in [NdCalls -> OrderCall] /\ ndCall'[k] = req
      /\ \A j \in NdCalls \ {k} : ndCall'[j] = ndCall[j]
  BY <1>1, <1>3, OrderGoes
<1>7. /\ ndOffer' = ndOffer /\ ndLapsed' = ndLapsed /\ ndOrder' = ndOrder /\ ndBooking' = ndBooking
      /\ ndFree' = ndFree /\ ndOps' = ndOps /\ ndOdd' = ndOdd /\ ndMoved' = ndMoved /\ NdMade' = NdMade
  BY DEF NDAddService, NdMade
<1>8. ndOdd \in Nat
  BY <1>1 DEF OrderTyped
<1>9. OrderTyped'
  BY <1>1, <1>5, <1>6, <1>7 DEF OrderTyped, NDTypeOK, NdIds, NdPools
<1>10. OrderKnown'
  <2>1. OrderKnows(req, ndOrder', ndBooking')
    BY <1>2, <1>3, <1>7 DEF OrderKnows
  <2>2. \A j \in NdCalls : ndCall'[j] = ndCall[j] \/ OrderKnows(ndCall'[j], ndOrder', ndBooking')
    BY <1>6, <2>1
  <2> QED
    BY <1>2, <1>5, <1>7, <2>2, OrderKnownStays
<1>11. OrderSeats'
  BY <1>1, <1>3, <1>7, <1>8, OrderSeatsQuiet DEF OrderEnding, OrderMoving, OrderReading
<1>12. OrderCount'
  BY <1>1, <1>3, <1>7, <1>8, OrderCountStays DEF OrderCreating
<1>13. OrderCalm'
  <2> SUFFICES ASSUME ndOdd = 0
               PROVE  /\ \A j \in NdCalls \ {k} : ndCall[j].doing = "idle"
                      /\ OrderOne'
                      /\ OrderStage(req.doing, req.order, req.total, req.added)'
    BY <1>3, <1>7, OrderCalmTurn
  <2>1. /\ \A j \in NdCalls \ {k} : ndCall[j].doing = "idle"
        /\ OrderOne /\ ndOffer = "ordered" /\ ndOrder[o].status # "cancelled"
        /\ ndCall[k].total + ndCall[k].added = OrderBill(o) /\ ndOrder[o].total = ndCall[k].total
    BY <1>1, <1>2, OrderAlone DEF OrderStage
  <2>2. OrderOne'
    BY <1>7, <2>1 DEF OrderOne
  <2>3. req.total + req.added = OrderBill(o)'
    <3>1. OrderBill(o)' = OrderBill(o) + 1 /\ OrderBill(o) \in Nat
      BY <1>2, <1>5, <1>7 DEF OrderBill, NdOne
    <3>2. ndCall[k].total \in Nat /\ ndCall[k].added \in Nat
      <4> HIDE DEF OrderDoings, OrderSets
      <4> QED
        BY <1>1 DEF OrderCall
    <3> QED
      BY <1>3, <2>1, <3>1, <3>2
  <2> HIDE DEF OrderBill
  <2> QED
    BY <1>3, <1>7, <2>1, <2>2, <2>3 DEF OrderStage
<1> QED
  BY <1>9, <1>10, <1>11, <1>12, <1>13 DEF OrderInv

LEMMA OrderBillIt == ASSUME OrderInv, NEW k \in NdCalls, NDBill(k) PROVE OrderInv'
<1>1. OrderTyped /\ OrderKnown /\ ndCall[k].doing = "serve" /\ ndCall[k] \in OrderCall
  BY DEF OrderInv, OrderTyped, NDBill, NdDoing
<1>2. PICK o \in NdIds : /\ o = ndCall[k].order /\ ndOrder[o].status # "none"
                         /\ ndBooking[o].status # "none" /\ ndOrder[o] \in OrderRow
  BY <1>1, OrderOwn
<1>3. PICK req \in OrderCall : NdSet(k, req) /\ req.doing = "idle"
  BY <1>1, OrderReturns DEF NDBill
<1>4. PICK row \in OrderRow : /\ ndOrder' = [ndOrder EXCEPT ![o] = row] /\ row.status = ndOrder[o].status
                              /\ row.total = ndCall[k].total + ndCall[k].added
  <2> DEFINE new == [ndOrder[o] EXCEPT !.total = NdBilled(k)]
  <2>1. NdBilled(k) \in Nat /\ NdBilled(k) = ndCall[k].total + ndCall[k].added
    <3> HIDE DEF OrderDoings, OrderSets
    <3> QED
      BY <1>1 DEF NdBilled, OrderCall
  <2>2. /\ new \in OrderRow /\ new.status = ndOrder[o].status
        /\ new.total = ndCall[k].total + ndCall[k].added
    BY <1>2, <2>1 DEF OrderRow
  <2>3. ndOrder' = [ndOrder EXCEPT ![o] = new]
    BY <1>2 DEF NDBill
  <2> HIDE DEF new, OrderRow
  <2> QED
    BY <2>2, <2>3
<1>5. /\ ndOrder' \in [NdIds -> OrderRow] /\ ndOrder'[o] = row
      /\ \A u \in NdIds \ {o} : ndOrder'[u] = ndOrder[u]
  BY <1>1, <1>4, OrderOrders
<1>6. /\ ndCall' \in [NdCalls -> OrderCall] /\ ndCall'[k] = req
      /\ \A j \in NdCalls \ {k} : ndCall'[j] = ndCall[j]
  BY <1>1, <1>3, OrderGoes
<1>7. /\ ndOffer' = ndOffer /\ ndLapsed' = ndLapsed /\ ndBooking' = ndBooking /\ ndServices' = ndServices
      /\ ndFree' = ndFree /\ ndOps' = ndOps /\ ndOdd' = ndOdd /\ ndMoved' = ndMoved
  BY DEF NDBill
<1>8. ndOdd \in Nat /\ NdMade' = NdMade
  BY <1>1, <1>2, <1>4, <1>5 DEF OrderTyped, NdMade
<1>9. OrderTyped'
  BY <1>1, <1>5, <1>6, <1>7 DEF OrderTyped, NDTypeOK, NdIds, NdPools, OrderRow
<1>10. OrderKnown'
  <2>1. \A j \in NdCalls : ndCall'[j] = ndCall[j] \/ OrderKnows(ndCall'[j], ndOrder', ndBooking')
    BY <1>3, <1>6 DEF OrderKnows
  <2> QED
    BY <1>2, <1>4, <1>5, <1>7, <2>1, OrderKnownStays
<1>11. OrderSeats'
  BY <1>1, <1>3, <1>7, <1>8, OrderSeatsQuiet DEF OrderEnding, OrderMoving, OrderReading
<1>12. OrderCount'
  BY <1>1, <1>3, <1>7, <1>8, OrderCountStays DEF OrderCreating
<1>13. OrderCalm'
  <2> SUFFICES ASSUME ndOdd = 0
               PROVE  (\A j \in NdCalls \ {k} : ndCall[j].doing = "idle") /\ OrderOne' /\ OrderRest'
    BY <1>3, <1>7, OrderCalmTurn
  <2>1. /\ \A j \in NdCalls \ {k} : ndCall[j].doing = "idle"
        /\ OrderOne /\ ndOffer = "ordered" /\ ndOrder[o].status # "cancelled"
        /\ ndCall[k].total + ndCall[k].added = OrderBill(o)
    BY <1>1, <1>2, OrderAlone DEF OrderStage
  <2>2. OrderOne'
    BY <1>8, <2>1 DEF OrderOne
  <2>3. \A u \in NdMade' : u = o
    BY <1>2, <1>8, <2>1 DEF OrderOne, NdMade
  <2>4. OrderBill(o)' = OrderBill(o)
    BY <1>7 DEF OrderBill
  <2> HIDE DEF OrderBill
  <2>5. OrderRest'
    BY <1>4, <1>5, <1>7, <2>1, <2>3, <2>4 DEF OrderRest
  <2> QED
    BY <2>1, <2>2, <2>5
<1> QED
  BY <1>9, <1>10, <1>11, <1>12, <1>13 DEF OrderInv
LEMMA OrderStop == ASSUME OrderInv, NEW k \in NdCalls, NDStop(k) PROVE OrderInv'
<1>1. OrderTyped /\ OrderKnown /\ ndCall[k].doing # "idle" /\ ndCall[k] \in OrderCall
  BY DEF OrderInv, OrderTyped, NDStop, NdDoing
<1>3. PICK req \in OrderCall : NdSet(k, req) /\ req.doing = "idle"
  BY <1>1, OrderReturns DEF NDStop
<1>6. /\ ndCall' \in [NdCalls -> OrderCall] /\ ndCall'[k] = req
      /\ \A j \in NdCalls \ {k} : ndCall'[j] = ndCall[j]
  BY <1>1, <1>3, OrderGoes
<1>7. /\ ndOffer' = ndOffer /\ ndLapsed' = ndLapsed /\ ndOrder' = ndOrder /\ ndBooking' = ndBooking
      /\ ndServices' = ndServices /\ ndFree' = ndFree /\ ndOps' = ndOps
      /\ ndMoved' = ndMoved /\ NdMade' = NdMade
  BY DEF NDStop, NdMade
<1>8. /\ ndOdd \in Nat /\ ndOdd' \in Nat /\ ndOdd' >= ndOdd
      /\ ~NdWroteNothing(k) => ndOdd' = ndOdd + 1
      /\ ndOdd' = ndOdd \/ ndOdd' = ndOdd + 1
  BY <1>1 DEF OrderTyped, NDStop, NdOne
<1>9. OrderTyped'
  BY <1>1, <1>6, <1>7, <1>8 DEF OrderTyped, NDTypeOK, NdIds, NdPools
<1>10. OrderKnown'
  <2>1. \A j \in NdCalls : ndCall'[j] = ndCall[j] \/ OrderKnows(ndCall'[j], ndOrder', ndBooking')
    BY <1>3, <1>6 DEF OrderKnows
  <2> QED
    BY <1>7, <2>1, OrderKnownStays
<1>11. OrderSeats'
  <2>1. ndCall[k].doing = "restore" => ndOdd' >= ndOdd + 1
    BY <1>8 DEF NdWroteNothing, NdDoing
  <2> QED
    BY <1>1, <1>3, <1>7, <1>8, <2>1, OrderSeatsQuiet DEF OrderEnding, OrderMoving, OrderReading
<1>12. OrderCount'
  <2>1. ndCall[k].doing = "mark" => ndOdd' >= ndOdd + 1
    BY <1>8 DEF NdWroteNothing, NdDoing
  <2> QED
    BY <1>1, <1>3, <1>7, <1>8, <2>1, OrderCountStays DEF OrderCreating
<1>13. OrderCalm'
  <2> SUFFICES ASSUME ndOdd' = 0
               PROVE  (\A j \in NdCalls \ {k} : ndCall[j].doing = "idle") /\ OrderOne' /\ OrderRest'
    BY <1>3, OrderCalmTurn
  <2>1. ndOdd = 0 /\ NdWroteNothing(k)
    BY <1>8
  <2>2. /\ \A j \in NdCalls \ {k} : ndCall[j].doing = "idle"
        /\ OrderOne /\ OrderStage(ndCall[k].doing, ndCall[k].order, ndCall[k].total, ndCall[k].added)
    BY <1>1, <2>1, OrderAlone
  <2>3. OrderOne'
    BY <1>7, <2>2 DEF OrderOne
  <2>4. CASE ndCall[k].doing \in {"book", "expire"}
    <3>1. NdMade' = {}
      BY <1>7, <2>2, <2>4 DEF OrderStage
    <3>2. OrderRest'
      BY <3>1 DEF OrderRest
    <3> QED
      BY <2>2, <2>3, <3>2
  <2>5. CASE ndCall[k].doing \in {"cancel", "change"} \/ (ndCall[k].doing = "serve" /\ ndCall[k].added = 0)
    <3>1. PICK o \in NdIds : /\ o = ndCall[k].order /\ ndOrder[o].status # "none"
      BY <1>1, <2>5, OrderOwn
    <3>2. ndOffer = "ordered" /\ ndOrder[o].status # "cancelled"
      BY <2>2, <2>5, <3>1 DEF OrderStage
    <3>3. ndCall[k].total \in Nat
      BY <1>1 DEF OrderCall
    <3>4. ndOrder[o].total = OrderBill(o)
      BY <2>2, <2>5, <3>1, <3>3 DEF OrderStage
    <3>5. \A u \in NdMade' : u = o
      BY <1>7, <2>2, <3>1 DEF OrderOne, NdMade
    <3>6. OrderBill(o)' = OrderBill(o)
      BY <1>7 DEF OrderBill
    <3> HIDE DEF OrderBill
    <3>7. OrderRest'
      BY <1>7, <3>2, <3>4, <3>5, <3>6 DEF OrderRest
    <3> QED
      BY <2>2, <2>3, <3>7
  <2>6. CASE ndCall[k].doing \in {"pay", "drop"}
    <3>1. OrderRest
      BY <2>2, <2>6 DEF OrderStage
    <3>2. OrderRest'
      BY <1>7, <3>1 DEF OrderRest, OrderBill
    <3> QED
      BY <2>2, <2>3, <3>2
  <2> QED
    BY <2>1, <2>4, <2>5, <2>6 DEF NdWroteNothing, NdDoing
<1> QED
  BY <1>9, <1>10, <1>11, <1>12, <1>13 DEF OrderInv

\* --- A payment and a cancellation of the booking itself ---
LEMMA OrderEnds ==
  ASSUME OrderInv, NEW k \in NdCalls, ndCall[k].doing \in {"pay", "drop"}, NdSet(k, NdIdle),
         NEW o \in NdIds, o = ndCall[k].order, NEW row \in OrderBooking,
         ndBooking' = [ndBooking EXCEPT ![o] = row], row.cabin = ndBooking[o].cabin,
         row.status = (IF ndCall[k].doing = "pay" THEN "confirmed" ELSE "cancelled"),
         NEW e \in Nat, ndOdd' = ndOdd + e, ndFree' \in [NdPools -> Nat],
         OrderShift(k, o, row, e),
         UNCHANGED <<ndOffer, ndLapsed, ndOrder, ndServices, ndOps, ndMoved>>
  PROVE  OrderInv'
<1>1. OrderTyped /\ OrderKnown
  BY DEF OrderInv
<1>2. PICK req \in OrderCall : NdSet(k, req) /\ req.doing = "idle"
  BY <1>1, OrderReturns
<1>3. /\ ndBooking' \in [NdIds -> OrderBooking] /\ ndBooking'[o] = row
      /\ \A u \in NdIds \ {o} : ndBooking'[u] = ndBooking[u]
  BY <1>1, OrderBooks
<1>4. /\ ndCall' \in [NdCalls -> OrderCall] /\ ndCall'[k] = req
      /\ \A j \in NdCalls \ {k} : ndCall'[j] = ndCall[j]
  BY <1>1, <1>2, OrderGoes
<1>5. /\ ndOffer' = ndOffer /\ ndLapsed' = ndLapsed /\ ndOrder' = ndOrder /\ ndServices' = ndServices
      /\ ndOps' = ndOps /\ ndMoved' = ndMoved /\ NdMade' = NdMade
  BY DEF NdMade
<1>6. ndOdd \in Nat /\ ndOdd' \in Nat /\ ndOdd' >= ndOdd
  BY <1>1 DEF OrderTyped
<1>7. OrderTyped'
  BY <1>1, <1>3, <1>4, <1>5, <1>6 DEF OrderTyped, NDTypeOK, NdIds, NdPools, OrderBooking
<1>8. OrderKnown'
  <2>1. \A j \in NdCalls : ndCall'[j] = ndCall[j] \/ OrderKnows(ndCall'[j], ndOrder', ndBooking')
    BY <1>2, <1>4 DEF OrderKnows
  <2>2. ndBooking[o].status # "none" /\ row.status # "none"
    BY <1>1 DEF OrderKnown, OrderKnows
  <2> QED
    BY <1>3, <1>5, <2>1, <2>2, OrderKnownStays
<1>9. OrderSeats'
  <2> HIDE DEF OrderOwed, OrderWrong, OrderBooking, OrderCall
  <2> QED
    BY <1>2, <1>5, OrderSeatsEnd, ZenonT(30)
<1>10. OrderCount'
  BY <1>1, <1>2, <1>5, <1>6, OrderCountStays DEF OrderCreating
<1>11. OrderCalm'
  <2> SUFFICES ASSUME ndOdd' = 0
               PROVE  (\A j \in NdCalls \ {k} : ndCall[j].doing = "idle") /\ OrderOne' /\ OrderRest'
    BY <1>2, OrderCalmTurn
  <2>1. /\ ndOdd = 0 /\ \A j \in NdCalls \ {k} : ndCall[j].doing = "idle"
        /\ OrderOne /\ OrderRest
        /\ ndCall[k].doing = "pay" => ndBooking[o].status = "pending"
    BY <1>6, OrderAlone DEF OrderStage
  <2>2. OrderOne'
    BY <1>5, <2>1 DEF OrderOne
  <2>3. \A u \in NdIds : /\ ndBooking'[u].cabin = ndBooking[u].cabin
                         /\ ndBooking[u].status = "cancelled" => ndBooking'[u].status = "cancelled"
    BY <1>3, <2>1
  <2>4. OrderRest'
    BY <1>5, <2>1, <2>3 DEF OrderRest, OrderBill, NdMade
  <2> QED
    BY <2>1, <2>2, <2>4
<1> QED
  BY <1>7, <1>8, <1>9, <1>10, <1>11 DEF OrderInv

LEMMA OrderTaken ==
  ASSUME NEW free \in Nat, NEW e \in Nat, NEW was \in {0, 1}, NEW now \in {0, 1},
         NEW take \in {0, 1}, NEW free2, free2 = free - take, NEW right \in BOOLEAN, was <= now,
         right => was = 0 /\ now - take <= e /\ take <= now
  PROVE  \E x \in Int : /\ free2 + now = free + was + x
                         /\ x <= e + 1 /\ -x <= e + 1
                         /\ right => x <= e /\ -x <= e
<1>1. PICK x \in Int : x = now - was - take
  OBVIOUS
<1>2. free2 + now = free + was + x /\ x <= e + 1 /\ -x <= e + 1
  BY <1>1
<1>3. ASSUME right PROVE x <= e /\ -x <= e
  <2>1. x = now - take /\ now - take <= e /\ take <= now
    BY <1>1, <1>3
  <2> QED
    BY <2>1
<1> QED
  BY <1>2, <1>3

LEMMA OrderPay == ASSUME OrderInv, NEW k \in NdCalls, NDPay(k) PROVE OrderInv'
<1>1. /\ OrderTyped /\ ndCall[k].doing = "pay" /\ ndFree \in [NdPools -> Nat]
      /\ NdSet(k, NdIdle) /\ ndOdd \in Nat
  BY DEF OrderInv, OrderTyped, NDTypeOK, NDPay, NdDoing
<1>2. PICK o \in NdIds : o = ndCall[k].order /\ ndBooking[o] \in OrderBooking
  BY <1>1, OrderOwn
<1>3. PICK row \in OrderBooking :
        /\ ndBooking' = [ndBooking EXCEPT ![o] = row] /\ row.status = "confirmed"
        /\ row.cabin = ndBooking[o].cabin /\ OrderSpot(row) = OrderSpot(ndBooking[o])
  <2> DEFINE new == [ndBooking[o] EXCEPT !.status = "confirmed"]
  <2>1. /\ new \in OrderBooking /\ new.status = "confirmed" /\ new.cabin = ndBooking[o].cabin
        /\ OrderSpot(new) = OrderSpot(ndBooking[o])
    BY <1>2 DEF OrderBooking, OrderSpot
  <2>2. ndBooking' = [ndBooking EXCEPT ![o] = new]
    BY <1>2 DEF NDPay
  <2> HIDE DEF new, OrderBooking, OrderSpot
  <2> QED
    BY <2>1, <2>2
<1>4. PICK to : to = ndCall[k].to
  OBVIOUS
<1>5. PICK e \in {0, 1} : e = NdOne(\E p \in to : ndFree[p] = 0)
  BY DEF NdOne
<1>6. /\ \A p \in NdPools : ndFree'[p] = IF p \in to /\ ndFree[p] > 0 THEN ndFree[p] - 1 ELSE ndFree[p]
      /\ ndOdd' = ndOdd + e
      /\ UNCHANGED <<ndOffer, ndLapsed, ndOrder, ndServices, ndOps, ndMoved>>
  BY <1>4, <1>5 DEF NDPay
<1>7. ndFree' \in [NdPools -> Nat]
  BY <1>1 DEF NDPay
<1>8. OrderOwed(row) = {OrderSpot(ndBooking[o])} /\ OrderOwed(ndBooking[o]) \subseteq OrderOwed(row)
  BY <1>3 DEF OrderOwed, OrderSpot
<1>9. ~OrderWrong(ndCall[k], ndBooking[o]) => OrderOwed(ndBooking[o]) = {} /\ to = {OrderSpot(ndBooking[o])}
  BY <1>1, <1>4 DEF OrderWrong
<1> HIDE DEF OrderOwed, OrderSpot, OrderWrong, OrderBooking
<1>10. ASSUME NEW p \in NdPools
       PROVE  \E x \in Int :
                /\ ndFree'[p] + NdOne(p \in OrderOwed(row))
                     = ndFree[p] + NdOne(p \in OrderOwed(ndBooking[o])) + x
                /\ x <= e + 1 /\ -x <= e + 1
                /\ ~OrderWrong(ndCall[k], ndBooking[o]) => x <= e /\ -x <= e
  <2>1. ndFree[p] \in Nat
    BY <1>1
  <2>2. PICK was \in {0, 1} : was = NdOne(p \in OrderOwed(ndBooking[o]))
    BY DEF NdOne
  <2>3. PICK now \in {0, 1} : now = NdOne(p \in OrderOwed(row))
    BY DEF NdOne
  <2>4. PICK take \in {0, 1} : /\ ndFree'[p] = ndFree[p] - take
                               /\ take = 1 <=> p \in to /\ ndFree[p] > 0
    BY <1>6, <2>1
  <2>5. ~OrderWrong(ndCall[k], ndBooking[o]) => was = 0 /\ (now = 1 <=> p \in to)
    BY <1>8, <1>9, <2>2, <2>3 DEF NdOne
  <2>6. p \in to /\ ndFree[p] = 0 => e = 1
    BY <1>5 DEF NdOne
  <2>7. ~OrderWrong(ndCall[k], ndBooking[o]) => was = 0 /\ now - take <= e /\ take <= now
    BY <2>1, <2>4, <2>5, <2>6
  <2>8. (~OrderWrong(ndCall[k], ndBooking[o])) \in BOOLEAN
    OBVIOUS
  <2>9. \E x \in Int : /\ ndFree'[p] + now = ndFree[p] + was + x
                       /\ x <= e + 1 /\ -x <= e + 1
                       /\ ~OrderWrong(ndCall[k], ndBooking[o]) => x <= e /\ -x <= e
    <3>1. was <= now
      BY <1>8, <2>2, <2>3 DEF NdOne
    <3> QED
      BY <2>1, <2>4, <2>7, <2>8, <3>1, OrderTaken
  <2> QED
    BY <2>2, <2>3, <2>9, Zenon
<1>11. /\ row.status = (IF ndCall[k].doing = "pay" THEN "confirmed" ELSE "cancelled")
       /\ ndCall[k].doing \in {"pay", "drop"} /\ e \in Nat
  BY <1>1, <1>3
<1>12. OrderShift(k, o, row, e)
  BY <1>10 DEF OrderShift
<1> QED
  <2>1. /\ ndCall[k].doing \in {"pay", "drop"} /\ NdSet(k, NdIdle) /\ o = ndCall[k].order
        /\ ndBooking' = [ndBooking EXCEPT ![o] = row] /\ row.cabin = ndBooking[o].cabin
        /\ row.status = (IF ndCall[k].doing = "pay" THEN "confirmed" ELSE "cancelled")
        /\ e \in Nat /\ ndOdd' = ndOdd + e /\ ndFree' \in [NdPools -> Nat]
        /\ UNCHANGED <<ndOffer, ndLapsed, ndOrder, ndServices, ndOps, ndMoved>>
    BY <1>1, <1>2, <1>3, <1>6, <1>7, <1>11
  <2> QED
    BY <1>12, <2>1, OrderEnds, ZenonT(30)

LEMMA OrderCancelBooking == ASSUME OrderInv, NEW k \in NdCalls, NDCancelBooking(k) PROVE OrderInv'
<1>1. /\ OrderTyped /\ ndCall[k].doing = "drop" /\ ndFree \in [NdPools -> Nat]
      /\ NdSet(k, NdIdle) /\ ndOdd \in Nat
  BY DEF OrderInv, OrderTyped, NDTypeOK, NDCancelBooking, NdDoing
<1>2. PICK o \in NdIds : o = ndCall[k].order /\ ndBooking[o] \in OrderBooking
  BY <1>1, OrderOwn
<1>3. PICK row \in OrderBooking :
        /\ ndBooking' = [ndBooking EXCEPT ![o] = row] /\ row.status = "cancelled"
        /\ row.cabin = ndBooking[o].cabin
  <2> DEFINE new == [ndBooking[o] EXCEPT !.status = "cancelled"]
  <2>1. new \in OrderBooking /\ new.status = "cancelled" /\ new.cabin = ndBooking[o].cabin
    BY <1>2 DEF OrderBooking
  <2>2. ndBooking' = [ndBooking EXCEPT ![o] = new]
    BY <1>2 DEF NDCancelBooking
  <2> HIDE DEF new, OrderBooking
  <2> QED
    BY <2>1, <2>2
<1>4. PICK to : to = ndCall[k].to
  OBVIOUS
<1>5. /\ \A p \in NdPools : ndFree'[p] = ndFree[p] + NdOne(p \in to)
      /\ ndFree' \in [NdPools -> Nat] /\ ndOdd' = ndOdd + 0
      /\ UNCHANGED <<ndOffer, ndLapsed, ndOrder, ndServices, ndOps, ndMoved>>
  BY <1>1, <1>4 DEF NDCancelBooking, NdRestored, NdOne
<1>6. OrderOwed(row) = {}
  BY <1>3 DEF OrderOwed
<1>7. ~OrderWrong(ndCall[k], ndBooking[o]) => to = OrderOwed(ndBooking[o])
  BY <1>1, <1>4 DEF OrderWrong
<1> HIDE DEF OrderOwed, OrderWrong, OrderBooking
<1>8. ASSUME NEW p \in NdPools
      PROVE  \E x \in Int :
               /\ ndFree'[p] + NdOne(p \in OrderOwed(row))
                    = ndFree[p] + NdOne(p \in OrderOwed(ndBooking[o])) + x
               /\ x <= 0 + 1 /\ -x <= 0 + 1
               /\ ~OrderWrong(ndCall[k], ndBooking[o]) => x <= 0 /\ -x <= 0
  <2>1. ndFree[p] \in Nat
    BY <1>1
  <2>2. PICK was \in {0, 1} : was = NdOne(p \in OrderOwed(ndBooking[o]))
    BY DEF NdOne
  <2>3. NdOne(p \in OrderOwed(row)) = 0
    BY <1>6 DEF NdOne
  <2>4. PICK back \in {0, 1} : ndFree'[p] = ndFree[p] + back /\ back = NdOne(p \in to)
    BY <1>5 DEF NdOne
  <2>5. ~OrderWrong(ndCall[k], ndBooking[o]) => back = was
    BY <1>7, <2>2, <2>4
  <2>6. PICK x \in Int : x = back - was
    BY <2>4
  <2>7. ndFree'[p] + 0 = ndFree[p] + was + x /\ x <= 0 + 1 /\ -x <= 0 + 1
    BY <2>1, <2>2, <2>4, <2>6
  <2>8. ~OrderWrong(ndCall[k], ndBooking[o]) => x <= 0 /\ -x <= 0
    BY <2>5, <2>6
  <2> QED
    BY <2>2, <2>3, <2>7, <2>8
<1>9. /\ row.status = (IF ndCall[k].doing = "pay" THEN "confirmed" ELSE "cancelled")
      /\ ndCall[k].doing \in {"pay", "drop"} /\ 0 \in Nat
  BY <1>1, <1>3
<1>10. OrderShift(k, o, row, 0)
  BY <1>8 DEF OrderShift
<1> QED
  BY <1>1, <1>2, <1>3, <1>5, <1>9, <1>10, OrderEnds, ZenonT(30)

\* --- A step of no call ---
LEMMA OrderCountDeed ==
  ASSUME OrderInv, ndCall' = ndCall, NdMade' = NdMade, ndOdd' \in Nat, ndOdd' >= ndOdd,
         ndOffer' = "active" => ndOffer = "active"
  PROVE  OrderCount'
<1>1. OrderTyped /\ OrderCount
  BY DEF OrderInv
<1>2. PICK c \in Nat : c = Cardinality(OrderIn(ndCall, OrderCreating))
  BY <1>1, OrderNumbers
<1>3. PICK made \in Nat : made = Cardinality(NdMade)
  BY <1>1, OrderNumbers
<1>4. /\ made + c <= 1 + ndOdd /\ ndOdd \in Nat
      /\ ndOffer = "active" /\ OrderIn(ndCall, OrderHolding) = {} => made <= ndOdd
  BY <1>1, <1>2, <1>3, OrderNumbers DEF OrderCount
<1>5. OrderIn(ndCall', OrderCreating) = OrderIn(ndCall, OrderCreating)
      /\ OrderIn(ndCall', OrderHolding) = OrderIn(ndCall, OrderHolding)
  OBVIOUS
<1>6. Cardinality(NdMade') = made /\ Cardinality(OrderIn(ndCall', OrderCreating)) = c
  BY <1>2, <1>3, <1>5
<1>7. (OrderIn(ndCall, OrderHolding) = {})' => OrderIn(ndCall, OrderHolding) = {}
  BY <1>5
<1>8. Cardinality(NdMade)' = made /\ Cardinality(OrderIn(ndCall, OrderCreating))' = c
  BY <1>6
<1>9. made + c <= 1 + ndOdd'
  <2>1. PICK odd \in Nat : odd = ndOdd
    BY <1>4
  <2>2. PICK odd2 \in Nat : odd2 = ndOdd'
    OBVIOUS
  <2>3. made + c <= 1 + odd /\ odd2 >= odd
    BY <1>4, <2>1, <2>2
  <2>4. made + c <= 1 + odd2
    BY <2>3
  <2> QED
    BY <2>2, <2>4
<1>10. ASSUME ndOffer' = "active", (OrderIn(ndCall, OrderHolding) = {})' PROVE made <= ndOdd'
  <2>1. made <= ndOdd
    BY <1>4, <1>7, <1>10
  <2> QED
    BY <1>4, <2>1
<1> QED
  BY <1>8, <1>9, <1>10 DEF OrderCount

\* The offer alone: it lapses, or the clean-up finds it.
LEMMA OrderOfferOnly ==
  ASSUME OrderInv, ndOffer' \in {"active", "expired", "ordered", "cancelled"}, ndLapsed' \in BOOLEAN,
         ndOffer' = ndOffer \/ (ndOffer = "active" /\ ndOffer' = "expired"),
         UNCHANGED <<ndOrder, ndBooking, ndServices, ndFree, ndCall, ndOps, ndOdd, ndMoved>>
  PROVE  OrderInv'
<1>1. OrderTyped /\ OrderKnown /\ OrderSeats /\ OrderCalm
  BY DEF OrderInv
<1>2. OrderTyped'
  <2>1. /\ ndOrder' = ndOrder /\ ndBooking' = ndBooking /\ ndServices' = ndServices /\ ndFree' = ndFree
        /\ ndCall' = ndCall /\ ndOps' = ndOps /\ ndOdd' = ndOdd /\ ndMoved' = ndMoved
    OBVIOUS
  <2> HIDE DEF OrderCall
  <2> QED
    BY <1>1, <2>1 DEF OrderTyped, NDTypeOK, NdIds, NdPools
<1>3. OrderKnown'
  BY OrderKnownStays
<1>4. OrderSeats'
  BY <1>1, OrderSeatsAfter DEF OrderSeats
<1>5. OrderCount'
  <2>1. NdMade' = NdMade
    BY DEF NdMade
  <2>2. ndOdd' \in Nat /\ ndOdd' >= ndOdd
    BY <1>1 DEF OrderTyped
  <2> QED
    BY <2>1, <2>2, OrderCountDeed
<1>6. OrderCalm'
  <2>1. NdMade' = NdMade
    BY DEF NdMade
  <2>2. CASE ndOffer' = ndOffer
    BY <1>1, <2>1, <2>2 DEF OrderCalm, OrderOne, OrderStaged, OrderStage, OrderRest, OrderBill
  <2>3. CASE ndOffer = "active" /\ ndOffer' = "expired"
    <3> SUFFICES ASSUME ndOdd = 0 PROVE OrderCalm'
      BY DEF OrderCalm
    <3>1. /\ \A j, k \in NdCalls : ndCall[j].doing # "idle" /\ ndCall[k].doing # "idle" => j = k
          /\ OrderOne
          /\ \A k \in NdCalls : OrderStaged(ndCall[k])
          /\ (\A k \in NdCalls : ndCall[k].doing = "idle") => OrderRest
      BY <1>1 DEF OrderCalm
    <3>2. ndCall' = ndCall /\ OrderOne'
      BY <2>1, <3>1 DEF OrderOne
    <3>3. \A k \in NdCalls : OrderStaged(ndCall[k])'
      <4>1. OrderRest => OrderRest'
        BY <2>1, <2>3 DEF OrderRest
      <4> HIDE DEF OrderRest
      <4> QED
        BY <2>1, <2>3, <3>1, <4>1 DEF OrderStaged, OrderStage, OrderBill
    <3>4. (\A k \in NdCalls : ndCall[k].doing = "idle") => OrderRest'
      BY <2>1, <2>3, <3>1 DEF OrderRest
    <3> QED
      BY <3>1, <3>2, <3>3, <3>4 DEF OrderCalm
  <2> QED
    BY <2>2, <2>3
<1> QED
  BY <1>2, <1>3, <1>4, <1>5, <1>6 DEF OrderInv

LEMMA OrderNext == ASSUME OrderInv, [NDNext]_ndVars PROVE OrderInv'
<1>1. CASE UNCHANGED ndVars
  <2>1. /\ ndOffer' = ndOffer /\ ndLapsed' = ndLapsed
        /\ UNCHANGED <<ndOrder, ndBooking, ndServices, ndFree, ndCall, ndOps, ndOdd, ndMoved>>
    BY <1>1 DEF ndVars
  <2>2. ndOffer \in {"active", "expired", "ordered", "cancelled"} /\ ndLapsed \in BOOLEAN
    BY DEF OrderInv, OrderTyped, NDTypeOK
  <2> QED
    BY <2>1, <2>2, OrderOfferOnly
<1>2. CASE NDExpireStale \/ NDLapse
  <2>1. ndOffer \in {"active", "expired", "ordered", "cancelled"} /\ ndLapsed \in BOOLEAN
    BY DEF OrderInv, OrderTyped, NDTypeOK
  <2>2. /\ ndOffer' \in {"active", "expired", "ordered", "cancelled"} /\ ndLapsed' \in BOOLEAN
        /\ ndOffer' = ndOffer \/ (ndOffer = "active" /\ ndOffer' = "expired")
        /\ UNCHANGED <<ndOrder, ndBooking, ndServices, ndFree, ndCall, ndOps, ndOdd, ndMoved>>
    BY <1>2, <2>1 DEF NDExpireStale, NDLapse
  <2> QED
    BY <2>2, OrderOfferOnly
<1>3. {} \in OrderSets
  BY DEF OrderSets
<1>4. ASSUME NEW k \in NdCalls, NDReadToOrder(k) \/ NDFindExpired(k) PROVE OrderInv'
  <2>1. 0 \in 0..NdMaxOrders
    BY OrderFinite
  <2>2. ndOffer = "active" /\ (NdBeginWith(k, "book", 0, {}) \/ NdBeginWith(k, "expire", 0, {}))
    BY <1>4 DEF NDReadToOrder, NDFindExpired, NdOrderable, NdBegin
  <2>3. CASE NdBeginWith(k, "book", 0, {})
    BY <1>3, <2>1, <2>2, <2>3, OrderBegins
  <2>4. CASE NdBeginWith(k, "expire", 0, {})
    BY <1>3, <2>1, <2>2, <2>4, OrderBegins
  <2> QED
    BY <2>2, <2>3, <2>4
<1>5. ASSUME NEW k \in NdCalls, NEW o \in NdIds,
             \/ NDReadToCancel(k, o) \/ NDReadToChange(k, o) \/ NDReadToServe(k, o)
             \/ NDReadPayment(k, o) \/ NDReadBookingToCancel(k, o)
      PROVE  OrderInv'
  <2>1. o \in 0..NdMaxOrders
    BY OrderFinite DEF NdIds
  <2>2. CASE NDReadToCancel(k, o) \/ NDReadToChange(k, o) \/ NDReadToServe(k, o)
    <3>1. /\ ndOrder[o].status \in {"pending", "changed"}
          /\ NdBeginWith(k, "cancel", o, {}) \/ NdBeginWith(k, "change", o, {})
             \/ NdBeginWith(k, "serve", o, {})
      BY <2>2 DEF NDReadToCancel, NDReadToChange, NDReadToServe, NdBegin
    <3>2. CASE NdBeginWith(k, "cancel", o, {})
      BY <1>3, <2>1, <3>1, <3>2, OrderBegins
    <3>3. CASE NdBeginWith(k, "change", o, {})
      BY <1>3, <2>1, <3>1, <3>3, OrderBegins
    <3>4. CASE NdBeginWith(k, "serve", o, {})
      BY <1>3, <2>1, <3>1, <3>4, OrderBegins
    <3> QED
      BY <3>1, <3>2, <3>3, <3>4
  <2>3. ndBooking[o] \in OrderBooking /\ NdPool(o) = OrderSpot(ndBooking[o])
    BY DEF OrderInv, OrderTyped, NDTypeOK, OrderBooking, NdPool, OrderSpot
  <2>4. {OrderSpot(ndBooking[o])} \in OrderSets
    BY <2>3 DEF OrderSets, OrderSpot, OrderBooking, NdPools
  <2>5. CASE NDReadPayment(k, o)
    <3>1. ndBooking[o].status = "pending" /\ NdBeginWith(k, "pay", o, {OrderSpot(ndBooking[o])})
      BY <2>3, <2>5 DEF NDReadPayment
    <3> HIDE DEF OrderSpot
    <3> QED
      BY <2>1, <2>4, <3>1, OrderBegins
  <2>6. CASE NDReadBookingToCancel(k, o)
    <3>1. /\ ndBooking[o].status # "none" /\ OrderOwed(ndBooking[o]) \in OrderSets
          /\ NdBeginWith(k, "drop", o, OrderOwed(ndBooking[o]))
      BY <1>3, <2>3, <2>4, <2>6 DEF NDReadBookingToCancel, OrderOwed, OrderSpot
    <3> HIDE DEF OrderOwed
    <3> QED
      BY <2>1, <3>1, OrderBegins
  <2> QED
    BY <1>5, <2>2, <2>5, <2>6
<1>6. ASSUME NEW k \in NdCalls,
             \/ NDBook(k) \/ NDInsertOrder(k) \/ NDMarkOrdered(k) \/ NDExpireFound(k)
             \/ NDCancelOrder(k) \/ NDLookAtBooking(k) \/ NDUnbook(k) \/ NDRestore(k)
             \/ NDReleaseOffer(k) \/ NDUpgrade(k) \/ NDRecordChange(k) \/ NDAddService(k)
             \/ NDBill(k) \/ NDStop(k) \/ NDPay(k) \/ NDCancelBooking(k)
             \/ \E f \in NdFlights : NDChangeDate(k, f)
      PROVE  OrderInv'
  BY <1>6, OrderBook, OrderInsertOrder, OrderMarkOrdered, OrderExpireFound, OrderCancelOrder,
     OrderLookAtBooking, OrderUnbook, OrderRestore, OrderReleaseOffer, OrderUpgrade,
     OrderRecordChange, OrderAddService, OrderBillIt, OrderStop, OrderPay, OrderCancelBooking,
     OrderChangeDate
<1> QED
  BY <1>1, <1>2, <1>3, <1>4, <1>5, <1>6 DEF NDNext

LEMMA OrderSpec == NDSpec => []OrderInv
<1>1. OrderInv /\ [NDNext]_ndVars => OrderInv'
  BY OrderNext
<1> QED
  BY OrderInit, <1>1, PTL DEF NDSpec

\* The seats of every cabin and the offer, its orders and their bookings owe
\* each other what ndc.service.ts, which writes them one by one, lets them owe:
\* the drift is covered by the calls that met, stopped half-way or moved a paid
\* booking, however many calls, orders and flights there are.
THEOREM OrdersSettle == NDSpec => []NDOrdersSettle
<1>1. OrderInv => NDOrdersSettle
  BY OrderInvImplies
<1> QED
  BY OrderSpec, <1>1, PTL
==============================================================================
