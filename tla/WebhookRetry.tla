---------------------------- MODULE WebhookRetry ----------------------------
(***************************************************************************)
(* The retry of Stripe events that a delivery left unprocessed: the daily  *)
(* reconciliation and the webhook-retry worker of queue-v2.service.ts,     *)
(* with the handlers of stripe-webhook-v2.service.ts, beside deliveries,   *)
(* which webhooks/stripe.ts handles.  All events are about one booking.    *)
(*                                                                         *)
(* A job has the id of its event: while BullMQ keeps a job, finished or    *)
(* failed ones too, adding it again does nothing.                          *)
(***************************************************************************)
EXTENDS Integers, FiniteSets

CONSTANTS
  WrEvents,
  WrMixes,          \* the mixes of types of events that are considered
  WrAttempts,       \* attempts of a job
  WrMaxRetries,     \* retryCount from which the worker gives up
  WrMaxDeliveries   \* bound on the deliveries of an event

ASSUME WebhookRetryAssumption ==
  /\ WrMixes \subseteq [WrEvents -> {"checkout", "succeeded", "failed", "refund"}]
  /\ WrAttempts \in Nat \ {0} /\ WrMaxRetries \in Nat /\ WrMaxDeliveries \in Nat

VARIABLES
  wrKind,       \* the type of each event
  wrBooking,    \* bookings.status
  wrRow,        \* stripe_events: "absent", "unprocessed" or "processed"
  wrRetries,    \* retryCount
  wrOld,        \* events a reconciliation has gone over; the next, a day
                \* later, looks at younger ones only
  wrDelivery,   \* the status a delivery has read of the booking, or "idle"
  wrJob,        \* the job of an event: "none", "waiting", "done", "failed",
                \* or the status it has read of the booking
  wrFails,      \* failed attempts of a job
  wrDeliveries,
  wrCommits,    \* history: how often the handler of an event committed
  wrTwice       \* history: events handled by both at once, or marked
                \* unprocessed by a delivery that failed late

wrVars == <<wrKind, wrBooking, wrRow, wrRetries, wrOld, wrDelivery, wrJob,
            wrFails, wrDeliveries, wrCommits, wrTwice>>

WrStatus == {"pending", "confirmed", "cancelled"}
WrActive == {e \in WrEvents : wrJob[e] \in WrStatus}
WrDelivering == {e \in WrEvents : wrDelivery[e] \in WrStatus}

WRInit ==
  /\ wrKind \in WrMixes
  /\ wrBooking = "pending"
  /\ wrRow = [e \in WrEvents |-> "absent"]
  /\ wrRetries = [e \in WrEvents |-> 0] /\ wrOld = {}
  /\ wrDelivery = [e \in WrEvents |-> "idle"] /\ wrJob = [e \in WrEvents |-> "none"]
  /\ wrFails = [e \in WrEvents |-> 0] /\ wrDeliveries = [e \in WrEvents |-> 0]
  /\ wrCommits = [e \in WrEvents |-> 0] /\ wrTwice = {}

(***************************************************************************)
(* A delivery: de-duplication, then the handler in a transaction           *)
(***************************************************************************)
WRDeliver(e) ==
  /\ wrDelivery[e] = "idle" /\ wrDeliveries[e] < WrMaxDeliveries
  /\ wrRow[e] # "processed"
  /\ wrRow' = [wrRow EXCEPT ![e] = "unprocessed"]
  /\ wrDelivery' = [wrDelivery EXCEPT ![e] = wrBooking]
  /\ wrDeliveries' = [wrDeliveries EXCEPT ![e] = wrDeliveries[e] + 1]
  /\ wrTwice' = IF e \in WrActive THEN wrTwice \cup {e} ELSE wrTwice
  /\ UNCHANGED <<wrBooking, wrRetries, wrOld, wrJob, wrFails, wrCommits>>

\* What the handlers of webhooks/stripe.ts make of the status they read.
WrHandled(e, seen) ==
  CASE wrKind[e] = "checkout" -> "confirmed"
    [] wrKind[e] = "succeeded" /\ seen = "pending" -> "confirmed"
    [] wrKind[e] = "refund" -> "cancelled"
    [] OTHER -> wrBooking
WrRefused(e, seen) == wrKind[e] = "checkout" /\ seen = "cancelled"

WrCommit(e, status) ==
  /\ wrBooking' = status
  /\ wrRow' = [wrRow EXCEPT ![e] = "processed"]
  /\ wrCommits' = [wrCommits EXCEPT ![e] = wrCommits[e] + 1]
WRDeliveryCommits(e) ==
  /\ e \in WrDelivering /\ ~WrRefused(e, wrDelivery[e])
  /\ WrCommit(e, WrHandled(e, wrDelivery[e]))
  /\ wrDelivery' = [wrDelivery EXCEPT ![e] = "idle"]
  /\ UNCHANGED <<wrRetries, wrOld, wrJob, wrFails, wrDeliveries, wrTwice>>

\* The handler throws or a statement fails; the row is marked unprocessed,
\* whatever it has become.
WRDeliveryFails(e) ==
  /\ e \in WrDelivering
  /\ wrRow' = [wrRow EXCEPT ![e] = "unprocessed"]
  /\ wrRetries' = [wrRetries EXCEPT ![e] = wrRetries[e] + 1]
  /\ wrDelivery' = [wrDelivery EXCEPT ![e] = "idle"]
  /\ wrTwice' = IF wrRow[e] = "processed" THEN wrTwice \cup {e} ELSE wrTwice
  /\ UNCHANGED <<wrBooking, wrOld, wrJob, wrFails, wrDeliveries, wrCommits>>

(***************************************************************************)
(* runReconciliation, every night                                          *)
(***************************************************************************)
WrQueued(e) ==
  wrRow[e] = "unprocessed" /\ e \notin wrOld /\ wrJob[e] = "none"
WRReconcile ==
  /\ \E e \in WrEvents : wrRow[e] # "absent" /\ e \notin wrOld
  /\ wrJob' = [e \in WrEvents |-> IF WrQueued(e) THEN "waiting" ELSE wrJob[e]]
  /\ wrOld' = {e \in WrEvents : wrRow[e] # "absent"}
  /\ UNCHANGED <<wrBooking, wrRow, wrRetries, wrDelivery, wrFails, wrDeliveries,
                 wrCommits, wrTwice>>

(***************************************************************************)
(* The worker                                                              *)
(***************************************************************************)
WrSkipsMutant(e) == wrRetries[e] >= WrMaxRetries
WrSkips(e) == wrRow[e] = "processed" \/ wrRetries[e] >= WrMaxRetries
WRTakeJob(e) ==
  /\ wrJob[e] = "waiting"
  /\ IF WrSkips(e)
     THEN wrJob' = [wrJob EXCEPT ![e] = "done"] /\ UNCHANGED wrTwice
     ELSE /\ wrJob' = [wrJob EXCEPT ![e] = wrBooking]
          /\ wrTwice' = IF e \in WrDelivering THEN wrTwice \cup {e} ELSE wrTwice
  /\ UNCHANGED <<wrBooking, wrRow, wrRetries, wrOld, wrDelivery, wrFails,
                 wrDeliveries, wrCommits>>

\* The handlers of stripe-webhook-v2.service.ts write a status that bookings
\* does not have after a failed payment and after a refund, and after a
\* checkout a row of booking_status_history without its bookingReference:
\* MySQL refuses each, and the transaction is rolled back.
WrImpossible(e, seen) ==
  \/ wrKind[e] = "checkout" /\ seen # "confirmed"
  \/ wrKind[e] = "failed" /\ seen = "pending"
  \/ wrKind[e] = "refund"
WRJobCommits(e) ==
  /\ e \in WrActive /\ ~WrImpossible(e, wrJob[e])
  /\ WrCommit(e, IF wrKind[e] = "succeeded" /\ wrJob[e] = "pending" THEN "confirmed"
                 ELSE wrBooking)
  /\ wrJob' = [wrJob EXCEPT ![e] = "done"]
  /\ UNCHANGED <<wrRetries, wrOld, wrDelivery, wrFails, wrDeliveries, wrTwice>>

WrAfterFailureMutant(e) == "failed"
WrAfterFailure(e) == IF wrFails[e] + 1 < WrAttempts THEN "waiting" ELSE "failed"
WrJobFailed(e) ==
  /\ wrFails' = [wrFails EXCEPT ![e] = wrFails[e] + 1]
  /\ wrJob' = [wrJob EXCEPT ![e] = WrAfterFailure(e)]
  /\ UNCHANGED <<wrBooking, wrRow, wrRetries, wrOld, wrDelivery, wrDeliveries,
                 wrCommits, wrTwice>>
WRJobRefused(e) == e \in WrActive /\ WrImpossible(e, wrJob[e]) /\ WrJobFailed(e)
WRJobBreaks(e) == e \in WrActive /\ ~WrImpossible(e, wrJob[e]) /\ WrJobFailed(e)

WRNext ==
  /\ \/ \E e \in WrEvents :
          \/ WRDeliver(e) \/ WRDeliveryCommits(e) \/ WRDeliveryFails(e)
          \/ WRTakeJob(e) \/ WRJobCommits(e) \/ WRJobRefused(e) \/ WRJobBreaks(e)
     \/ WRReconcile
  /\ UNCHANGED wrKind

\* The worker goes on, the reconciliation comes every night, a handler ends.
WRFairness ==
  /\ WF_wrVars(WRReconcile /\ UNCHANGED wrKind)
  /\ \A e \in WrEvents :
       /\ WF_wrVars(WRTakeJob(e) /\ UNCHANGED wrKind)
       /\ WF_wrVars((WRJobCommits(e) \/ WRJobRefused(e)) /\ UNCHANGED wrKind)
       /\ WF_wrVars((WRDeliveryCommits(e) \/ WRDeliveryFails(e)) /\ UNCHANGED wrKind)

WRSpec == WRInit /\ [][WRNext]_wrVars /\ WRFairness

(***************************************************************************)
(* Properties                                                              *)
(***************************************************************************)
WRTypeOK ==
  /\ wrBooking \in WrStatus
  /\ wrRow \in [WrEvents -> {"absent", "unprocessed", "processed"}]
  /\ wrDelivery \in [WrEvents -> WrStatus \cup {"idle"}]
  /\ wrJob \in [WrEvents -> WrStatus \cup {"none", "waiting", "done", "failed"}]
  /\ wrFails \in [WrEvents -> 0..WrAttempts]
  /\ wrRetries \in [WrEvents -> 0..WrMaxDeliveries]

\* The handler of an event takes effect once, unless the worker and a delivery
\* handled it at the same time, or a delivery failed after the other was done.
WRAppliedOnce == \A e \in WrEvents \ wrTwice : wrCommits[e] <= 1

\* What a delivery left unprocessed is processed in the end, unless it came
\* again and again in vain, every attempt of its job failed, or a job of it
\* was finished before it was marked unprocessed.
WRRecovers ==
  \A e \in WrEvents :
    wrRow[e] = "unprocessed" ~>
      \/ wrRow[e] = "processed" \/ e \in wrTwice
      \/ wrRetries[e] >= WrMaxRetries \/ wrFails[e] = WrAttempts
=============================================================================
