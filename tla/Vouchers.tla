------------------------------ MODULE Vouchers ------------------------------
(***************************************************************************)
(* voucher.service.ts: one voucher and the credits of one customer.        *)
(* applyVoucher and useCredit are transactions that read their rows        *)
(* without a lock, decide, and write.  The count of a voucher is           *)
(* incremented in the database; usedAmount of a credit is overwritten with *)
(* what the transaction computed from its read.                            *)
(***************************************************************************)
EXTENDS Integers, SequencesExt

CONSTANTS
  VoSessions,   \* requests in progress
  VoBookings,   \* bookings a voucher may be applied to
  VoOwner,      \* VoOwner[b] is the customer of booking b
  VoMaxUses,    \* maxUses of the voucher
  VoCredits,    \* rows of user_credits, in the order in which they are used
  VoAmount,     \* VoAmount[c] is the amount of credit c
  VoAsked,      \* amounts useCredit is asked for
  VoMaxOps      \* bound on the calls of useCredit

ASSUME VouchersAssumption ==
  /\ IsFiniteSet(VoSessions) /\ VoMaxUses \in Nat \ {0}
  /\ VoCredits \in Seq(ToSet(VoCredits)) /\ IsInjective(VoCredits)
  /\ VoAmount \in [ToSet(VoCredits) -> Nat \ {0}]
  /\ VoAsked \subseteq Nat \ {0} /\ VoMaxOps \in Nat

VARIABLES
  voActive,     \* isActive of the voucher, and its validity period
  voCount,      \* usedCount
  voUsage,      \* voucher_usage: bookings with a row
  voUsed,       \* usedAmount of each credit
  voSpent,      \* sum of credit_usage of each credit
  voLapsed,     \* credits past their expiry
  voSession,    \* what each request has read
  voOps,
  voLost        \* history: a usedAmount was overwritten that had changed

voVars == <<voActive, voCount, voUsage, voUsed, voSpent, voLapsed, voSession,
            voOps, voLost>>

VoIds == ToSet(VoCredits)
VoIdle == [doing |-> "idle"]

VOInit ==
  /\ voActive = TRUE /\ voCount = 0 /\ voUsage = {}
  /\ voUsed = [c \in VoIds |-> 0] /\ voSpent = [c \in VoIds |-> 0]
  /\ voLapsed = {}
  /\ voSession = [k \in VoSessions |-> VoIdle]
  /\ voOps = 0 /\ voLost = FALSE

VoDoing(k, what) == voSession[k].doing = what
VoSet(k, s) == voSession' = [voSession EXCEPT ![k] = s]

(***************************************************************************)
(* applyVoucher                                                            *)
(***************************************************************************)
VoUnused(b) == \A d \in voUsage : VoOwner[d] # VoOwner[b]
VoLeftMutant == voCount <= VoMaxUses
VoLeft == voCount < VoMaxUses
VORead(k, b) ==
  /\ VoDoing(k, "idle")
  /\ voActive /\ VoLeft /\ VoUnused(b)
  /\ VoSet(k, [doing |-> "apply", booking |-> b, count |-> voCount])
  /\ UNCHANGED <<voActive, voCount, voUsage, voUsed, voSpent, voLapsed, voOps, voLost>>

\* The unique index on voucher and booking refuses a second row, and with it
\* the transaction.
VoNewCount(k) == voCount + 1
VOApply(k) ==
  /\ VoDoing(k, "apply")
  /\ IF voSession[k].booking \in voUsage THEN UNCHANGED <<voUsage, voCount>>
     ELSE /\ voUsage' = voUsage \cup {voSession[k].booking}
          /\ voCount' = VoNewCount(k)
  /\ VoSet(k, VoIdle)
  /\ UNCHANGED <<voActive, voUsed, voSpent, voLapsed, voOps, voLost>>

\* deactivateVoucher, or the end of the validity period
VODeactivate ==
  /\ voActive /\ voActive' = FALSE
  /\ UNCHANGED <<voCount, voUsage, voUsed, voSpent, voLapsed, voSession, voOps, voLost>>

(***************************************************************************)
(* useCredit                                                               *)
(***************************************************************************)
VoFree(c) == VoAmount[c] - voUsed[c]
VoUsable == {c \in VoIds \ voLapsed : VoFree(c) > 0}
VoFreeIn(credits) == SumFunctionOnSet([c \in credits |-> VoFree(c)], credits)
VoBefore(c) == {VoCredits[i] : i \in {j \in DOMAIN VoCredits :
                  \E m \in DOMAIN VoCredits : VoCredits[m] = c /\ j < m}}

\* How much of each credit an amount takes: first come, first used.
VoTakeMutant(n, credits) == [c \in credits |-> n]
VoTake(n, credits) ==
  [c \in credits |->
     Min({VoFree(c), Max({0, n - VoFreeIn(credits \cap VoBefore(c))})})]

VOReadCredits(k, n) ==
  /\ VoDoing(k, "idle") /\ voOps < VoMaxOps
  /\ VoFreeIn(VoUsable) >= n
  /\ VoSet(k, [doing |-> "use", take |-> VoTake(n, VoUsable), seen |-> voUsed])
  /\ voOps' = voOps + 1
  /\ UNCHANGED <<voActive, voCount, voUsage, voUsed, voSpent, voLapsed, voLost>>

VoUsedAfter(s) == [c \in VoIds |-> IF c \in DOMAIN s.take /\ s.take[c] > 0
                                   THEN s.seen[c] + s.take[c] ELSE voUsed[c]]
VOUse(k) ==
  LET s == voSession[k]  C == {c \in DOMAIN s.take : s.take[c] > 0} IN
  /\ VoDoing(k, "use")
  /\ voUsed' = VoUsedAfter(s)
  /\ voSpent' = [c \in VoIds |-> IF c \in C THEN voSpent[c] + s.take[c] ELSE voSpent[c]]
  /\ voLost' = (voLost \/ \E c \in C : voUsed[c] # s.seen[c])
  /\ VoSet(k, VoIdle)
  /\ UNCHANGED <<voActive, voCount, voUsage, voLapsed, voOps>>

\* processExpiredCredits finds what has lapsed and has something left, and
\* then marks each as used up by a statement of its own.
VOLapse(c) ==
  /\ c \notin voLapsed /\ voLapsed' = voLapsed \cup {c}
  /\ UNCHANGED <<voActive, voCount, voUsage, voUsed, voSpent, voSession, voOps, voLost>>

VOFindExpired(k) ==
  LET C == {c \in voLapsed : VoFree(c) > 0} IN
  /\ VoDoing(k, "idle") /\ C # {}
  /\ VoSet(k, [doing |-> "expire", credits |-> C])
  /\ UNCHANGED <<voActive, voCount, voUsage, voUsed, voSpent, voLapsed, voOps, voLost>>

VOExpireCredits(k) ==
  /\ VoDoing(k, "expire")
  /\ \E c \in voSession[k].credits :
       /\ voUsed' = [voUsed EXCEPT ![c] = VoAmount[c]]
       /\ VoSet(k, IF voSession[k].credits = {c} THEN VoIdle
                   ELSE [doing |-> "expire", credits |-> voSession[k].credits \ {c}])
  /\ UNCHANGED <<voActive, voCount, voUsage, voSpent, voLapsed, voOps, voLost>>

\* The transaction is rolled back, or the expiry stops with what it has marked.
VOFail(k) ==
  /\ ~VoDoing(k, "idle") /\ VoSet(k, VoIdle)
  /\ UNCHANGED <<voActive, voCount, voUsage, voUsed, voSpent, voLapsed, voOps, voLost>>

VONext ==
  \/ \E k \in VoSessions :
       \/ \E b \in VoBookings : VORead(k, b)
       \/ VOApply(k)
       \/ \E n \in VoAsked : VOReadCredits(k, n)
       \/ VOUse(k) \/ VOFindExpired(k) \/ VOExpireCredits(k) \/ VOFail(k)
  \/ VODeactivate
  \/ \E c \in VoIds : VOLapse(c)

VOSpec == VOInit /\ [][VONext]_voVars

(***************************************************************************)
(* Properties                                                              *)
(***************************************************************************)
VOTypeOK ==
  /\ voActive \in BOOLEAN /\ voCount \in Nat /\ voUsage \subseteq VoBookings
  /\ voUsed \in [VoIds -> Nat] /\ voSpent \in [VoIds -> Nat]
  /\ voLapsed \subseteq VoIds /\ voOps \in 0..VoMaxOps /\ voLost \in BOOLEAN

\* The count is the number of rows, whatever overlaps or fails.  The limit of
\* the voucher is passed only by calls that read the same count, and a
\* customer uses it more than once only by calls that looked for a use at the
\* same time: one for every request.
VOUsesBounded ==
  /\ voCount = Cardinality(voUsage)
  /\ voCount <= VoMaxUses + Cardinality(VoSessions) - 1
  /\ \A b \in voUsage :
       Cardinality({d \in voUsage : VoOwner[d] = VoOwner[b]}) <= Cardinality(VoSessions)

\* A credit is never used past its amount in its own row, even by calls that
\* overwrite each other; and the uses recorded for bookings stay within it
\* unless an overwrite was lost.
VOCreditCovers ==
  \A c \in VoIds : /\ voUsed[c] <= VoAmount[c]
                   /\ ~voLost => voSpent[c] <= voUsed[c]
=============================================================================
