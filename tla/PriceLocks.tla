----------------------------- MODULE PriceLocks -----------------------------
(***************************************************************************)
(* price-lock.service.ts: the locks one customer has on the price of one   *)
(* cabin of one flight.  Creating and using a lock are transactions that   *)
(* read without a lock on the row; cancelling and expiring write by id     *)
(* what they read before.                                                  *)
(***************************************************************************)
EXTENDS Integers, FiniteSets

CONSTANTS
  PlSessions,   \* requests in progress
  PlMaxLocks    \* bound on the locks that are created

ASSUME PriceLocksAssumption == IsFiniteSet(PlSessions) /\ PlMaxLocks \in Nat

VARIABLES
  plStatus,     \* status of every row of price_locks, in the order of the ids
  plOverdue,    \* rows whose expiresAt has passed
  plUses,       \* how many bookings were made with each lock
  plSession     \* what each request has read

plVars == <<plStatus, plOverdue, plUses, plSession>>

PlIds == 1..PlMaxLocks
PlIdle == [doing |-> "idle", lock |-> 0]
PlActive == {l \in PlIds : plStatus[l] = "active"}

PLInit ==
  /\ plStatus = [l \in PlIds |-> "none"] /\ plOverdue = {}
  /\ plUses = [l \in PlIds |-> 0]
  /\ plSession = [k \in PlSessions |-> PlIdle]

PlDoing(k, what) == plSession[k].doing = what
PlRead(k, what, l) ==
  /\ PlDoing(k, "idle")
  /\ plSession' = [plSession EXCEPT ![k] = [doing |-> what, lock |-> l]]
  /\ UNCHANGED <<plStatus, plOverdue, plUses>>
PlWrite(k, l, status) ==
  /\ plStatus' = [plStatus EXCEPT ![l] = status]
  /\ plSession' = [plSession EXCEPT ![k] = PlIdle]
  /\ UNCHANGED plOverdue

\* createPriceLock looks for an active lock, which may be overdue by now.
PlNone == PlActive = {}
PLReadToCreate(k) == PlNone /\ PlRead(k, "create", 0)
PLCreate(k) ==
  /\ PlDoing(k, "create")
  /\ \E l \in PlIds :
       /\ plStatus[l] = "none" /\ \A j \in 1..(l - 1) : plStatus[j] # "none"
       /\ PlWrite(k, l, "active")
  /\ UNCHANGED plUses

PLReadToCancel(k, l) == l \in PlActive /\ PlRead(k, "cancel", l)
PLCancel(k) ==
  /\ PlDoing(k, "cancel") /\ PlWrite(k, plSession[k].lock, "cancelled")
  /\ UNCHANGED plUses

\* usePriceLock; on an overdue lock it throws, and its "expired" is undone.
PlUsableMutant(l) == plStatus[l] # "none"
PlUsable(l) == l \in PlActive
PLReadToUse(k, l) == PlUsable(l) /\ l \notin plOverdue /\ PlRead(k, "use", l)
PLUse(k) ==
  LET l == plSession[k].lock IN
  /\ PlDoing(k, "use") /\ PlWrite(k, l, "used")
  /\ plUses' = [plUses EXCEPT ![l] = plUses[l] + 1]

\* getActiveLockForFlight
PLReadOverdue(k, l) == l \in PlActive \cap plOverdue /\ PlRead(k, "expire", l)
PLExpire(k) ==
  /\ PlDoing(k, "expire") /\ PlWrite(k, plSession[k].lock, "expired")
  /\ UNCHANGED plUses

PLExpireOldLocks ==
  /\ PlActive \cap plOverdue # {}
  /\ plStatus' = [l \in PlIds |-> IF l \in PlActive \cap plOverdue THEN "expired"
                                  ELSE plStatus[l]]
  /\ UNCHANGED <<plOverdue, plUses, plSession>>

\* 48 hours pass.
PLTimePasses ==
  /\ \E l \in PlActive \ plOverdue : plOverdue' = plOverdue \cup {l}
  /\ UNCHANGED <<plStatus, plUses, plSession>>

\* A request ends before its last write.
PLAbort(k) ==
  /\ ~PlDoing(k, "idle")
  /\ plSession' = [plSession EXCEPT ![k] = PlIdle]
  /\ UNCHANGED <<plStatus, plOverdue, plUses>>

PLNext ==
  \/ \E k \in PlSessions :
       \/ PLReadToCreate(k) \/ PLCreate(k) \/ PLCancel(k) \/ PLUse(k)
       \/ PLExpire(k) \/ PLAbort(k)
       \/ \E l \in PlIds :
            PLReadToCancel(k, l) \/ PLReadToUse(k, l) \/ PLReadOverdue(k, l)
  \/ PLExpireOldLocks \/ PLTimePasses

PLSpec == PLInit /\ [][PLNext]_plVars

(***************************************************************************)
(* Properties                                                              *)
(***************************************************************************)
PLTypeOK ==
  /\ plStatus \in [PlIds -> {"none", "active", "used", "expired", "cancelled"}]
  /\ plOverdue \subseteq PlIds
  /\ plUses \in [PlIds -> Nat]
  /\ plSession \in [PlSessions ->
       [doing : {"idle", "create", "cancel", "use", "expire"}, lock : 0..PlMaxLocks]]
  /\ \A k \in PlSessions :
       plSession[k].lock = 0 <=> PlDoing(k, "idle") \/ PlDoing(k, "create")

\* createPriceLock looks for an active lock and inserts one, usePriceLock looks
\* whether the lock is active and marks it, each in a transaction that locks
\* nothing.  What is overrun is bounded by the requests at a time: so many
\* active locks a customer may have, and so many bookings a lock may price.
PLOverrunsBounded ==
  /\ Cardinality(PlActive) <= Cardinality(PlSessions)
  /\ \A l \in PlIds : plUses[l] <= Cardinality(PlSessions)
=============================================================================
