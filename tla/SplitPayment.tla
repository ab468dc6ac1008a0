---------------------------- MODULE SplitPayment ----------------------------
(***************************************************************************)
(* split-payment.service.ts and the Stripe webhook: the price of a booking *)
(* is divided among payers, each of whom gets a row in payment_splits, a   *)
(* mail and a checkout session.  The session carries the id of the booking *)
(* as well as that of the split, and the only handler of a completed       *)
(* session, handleCheckoutSessionCompleted of webhooks/stripe.ts, reads    *)
(* the former.  markSplitPaid is called from nowhere.                      *)
(***************************************************************************)
EXTENDS Integers, FiniteSetsExt

CONSTANTS
  SpRequests,   \* calls of initiateSplitPayment
  SpPayers,     \* payers among whom the price is divided
  SpWorkers,    \* mails being sent
  SpMaxOpen     \* bound on the splits for which a checkout session is opened

VARIABLES
  spBooking,    \* status of the booking
  spStatus,     \* payment_splits: status by request and payer; "unpaid" is pending
                \* or email_sent, which no check tells apart
  spOverdue,    \* initiations whose rows are past expiresAt, the same for all
  spRequest,    \* initiations: "idle", "insert" or "done"
  spWorker,     \* the split a mail is being sent for
  spShare,      \* checkout session of a split: none, open, charged by Stripe,
                \* its event with a copy of the pending booking, or processed
  spLedger,     \* splits with a charge in financial_ledger; the booking's
                \* paymentStatus is paid if there is one
  spMet,        \* history: splits whose event had its copy when the booking
                \* was pending no longer
  spOverlaps,   \* history: initiations checked while another was inserting
  spRevived     \* history: initiations of which a late write revived a row

spVars == <<spBooking, spStatus, spOverdue, spRequest, spWorker, spShare,
            spLedger, spMet, spOverlaps, spRevived>>

SpSplits == SpRequests \X SpPayers
SpDead == {"cancelled", "expired"}
SpRows == {s \in SpSplits : spStatus[s] # "none"}
SpLive == {s \in SpRows : spStatus[s] \notin SpDead}

SPInit ==
  /\ spBooking = "pending"
  /\ spStatus = [s \in SpSplits |-> "none"] /\ spOverdue = {}
  /\ spRequest = [r \in SpRequests |-> "idle"]
  /\ spWorker = [w \in SpWorkers |-> {}]
  /\ spShare = [s \in SpSplits |-> "none"] /\ spLedger = {} /\ spMet = {}
  /\ spOverlaps = {} /\ spRevived = {}

(***************************************************************************)
(* initiateSplitPayment: the check, then a statement for every row         *)
(***************************************************************************)
SpFree == SpLive = {}
SpInserting == {r \in SpRequests : spRequest[r] = "insert"}
SPCheck(r) ==
  /\ spRequest[r] = "idle" /\ spLedger = {} /\ SpFree
  /\ spRequest' = [spRequest EXCEPT ![r] = "insert"]
  /\ spOverlaps' = IF SpInserting = {} THEN spOverlaps
                   ELSE spOverlaps \cup SpInserting \cup {r}
  /\ UNCHANGED <<spBooking, spStatus, spOverdue, spWorker, spShare, spLedger,
                 spMet, spRevived>>

SPInsert(r, p) ==
  /\ spRequest[r] = "insert" /\ spStatus[<<r, p>>] = "none"
  /\ spStatus' = [spStatus EXCEPT ![<<r, p>>] = "unpaid"]
  /\ spRequest' = [spRequest EXCEPT ![r] =
       IF \A q \in SpPayers \ {p} : spStatus[<<r, q>>] # "none" THEN "done" ELSE "insert"]
  /\ UNCHANGED <<spBooking, spOverdue, spWorker, spShare, spLedger,
                 spMet, spOverlaps, spRevived>>

\* An insert fails: the rows before it stay.
SPFail(r) ==
  /\ spRequest[r] = "insert"
  /\ spRequest' = [spRequest EXCEPT ![r] = "done"]
  /\ UNCHANGED <<spBooking, spStatus, spOverdue, spWorker, spShare, spLedger,
                 spMet, spOverlaps, spRevived>>

(***************************************************************************)
(* Requests on one split, which read its row and write it by id            *)
(***************************************************************************)
\* sendPaymentRequest refuses a cancelled split, but sends for an expired one;
\* resendPaymentRequest, which also refuses that, writes the row and sends.
SPReadToSend(w, s) ==
  /\ spWorker[w] = {} /\ s \in SpRows /\ spStatus[s] # "cancelled"
  /\ spWorker' = [spWorker EXCEPT ![w] = {s}]
  /\ UNCHANGED <<spBooking, spStatus, spOverdue, spRequest, spShare, spLedger,
                 spMet, spOverlaps, spRevived>>
SPSent(w, s) ==
  /\ spWorker[w] = {s}
  /\ spStatus' = [spStatus EXCEPT ![s] = "unpaid"]
  /\ spWorker' = [spWorker EXCEPT ![w] = {}]
  /\ spRevived' = IF spStatus[s] \in SpDead THEN spRevived \cup {s[1]} ELSE spRevived
  /\ UNCHANGED <<spBooking, spOverdue, spRequest, spShare, spLedger, spMet,
                 spOverlaps>>

\* What getPayerPaymentDetails, processPayerPayment and cancelSplit read stays
\* true until they write: the row is overdue, or not paid.
SpEnd(rows, status) ==
  /\ spStatus' = [s \in SpSplits |-> IF s \in rows THEN status ELSE spStatus[s]]
  /\ UNCHANGED <<spBooking, spOverdue, spRequest, spWorker, spShare, spLedger,
                 spMet, spOverlaps, spRevived>>
SPExpire(s) == s \in SpRows /\ s[1] \in spOverdue /\ SpEnd({s}, "expired")
SPCancel(s) == s \in SpRows /\ SpEnd({s}, "cancelled")
SPCancelAll == SpRows # {} /\ SpEnd(SpRows, "cancelled")

\* processPayerPayment, one session per split.  Nothing that changes between
\* its read and its call of Stripe can be told from a change after the call.
SpOpened == {s \in SpSplits : spShare[s] # "none"}
SPOpen(s) ==
  /\ s \in SpLive /\ s[1] \notin spOverdue
  /\ spShare[s] = "none" /\ Cardinality(SpOpened) < SpMaxOpen
  /\ spShare' = [spShare EXCEPT ![s] = "open"]
  /\ UNCHANGED <<spBooking, spStatus, spOverdue, spRequest, spWorker, spLedger,
                 spMet, spOverlaps, spRevived>>

SPTimePasses(r) ==
  /\ r \notin spOverdue /\ spRequest[r] = "done"
  /\ spOverdue' = spOverdue \cup {r}
  /\ UNCHANGED <<spBooking, spStatus, spRequest, spWorker, spShare, spLedger,
                 spMet, spOverlaps, spRevived>>

(***************************************************************************)
(* Stripe: a payer pays the open session of a split, and the event of the  *)
(* session reaches handleCheckoutSessionCompleted                          *)
(***************************************************************************)
SPPay(s) ==
  /\ spShare[s] = "open"
  /\ spShare' = [spShare EXCEPT ![s] = "charged"]
  /\ UNCHANGED <<spBooking, spStatus, spOverdue, spRequest, spWorker, spLedger,
                 spMet, spOverlaps, spRevived>>

\* The event is skipped when the booking is paid, and fails, to be delivered
\* again, when it is cancelled.  The booking is not locked by the read.
SpPaidMutant == FALSE \* a booking charged for every share
SpPaid == spBooking = "confirmed"
SPReadBooking(s) ==
  /\ spShare[s] = "charged" /\ spBooking # "cancelled"
  /\ spShare' = [spShare EXCEPT ![s] = IF SpPaid THEN "handled" ELSE "read"]
  /\ UNCHANGED <<spBooking, spStatus, spOverdue, spRequest, spWorker, spLedger,
                 spMet, spOverlaps, spRevived>>

\* The booking becomes confirmed or cancelled, whatever it is by then.
SpSettle(status) ==
  /\ spBooking' = status
  /\ spMet' = IF spBooking = "pending" THEN {s \in SpSplits : spShare[s] = "read"}
              ELSE spMet

SPConfirm(s) ==
  /\ spShare[s] = "read"
  /\ SpSettle("confirmed")
  /\ spLedger' = spLedger \cup {s}
  /\ spShare' = [spShare EXCEPT ![s] = "handled"]
  /\ UNCHANGED <<spStatus, spOverdue, spRequest, spWorker, spOverlaps, spRevived>>

\* The transaction is rolled back, and the event will be delivered again.
SPRollback(s) ==
  /\ spShare[s] = "read"
  /\ spShare' = [spShare EXCEPT ![s] = "charged"]
  /\ UNCHANGED <<spBooking, spStatus, spOverdue, spRequest, spWorker, spLedger,
                 spMet, spOverlaps, spRevived>>

\* cancelBooking: an older copy of the status only decides about seats.
SPCancelBooking ==
  /\ spBooking # "cancelled"
  /\ SpSettle("cancelled")
  /\ UNCHANGED <<spStatus, spOverdue, spRequest, spWorker, spShare, spLedger,
                 spOverlaps, spRevived>>

SPNext ==
  \/ \E r \in SpRequests :
       \/ SPCheck(r) \/ SPFail(r) \/ SPTimePasses(r)
       \/ \E p \in SpPayers : SPInsert(r, p)
  \/ \E s \in SpSplits :
       \/ SPExpire(s) \/ SPCancel(s) \/ SPOpen(s) \/ SPPay(s)
       \/ SPReadBooking(s) \/ SPConfirm(s) \/ SPRollback(s)
       \/ \E w \in SpWorkers : SPReadToSend(w, s) \/ SPSent(w, s)
  \/ SPCancelAll \/ SPCancelBooking

SPSpec == SPInit /\ [][SPNext]_spVars

(***************************************************************************)
(* Properties                                                              *)
(***************************************************************************)
SPTypeOK ==
  /\ spBooking \in {"pending", "confirmed", "cancelled"}
  /\ spStatus \in [SpSplits -> {"none", "unpaid", "expired", "cancelled"}]
  /\ spRequest \in [SpRequests -> {"idle", "insert", "done"}]
  /\ spShare \in [SpSplits -> {"none", "open", "charged", "read", "handled"}]
  /\ spLedger \subseteq SpSplits /\ spMet \subseteq SpSplits /\ spOverdue \subseteq SpRequests

\* One division of the price at a time: rows of two initiations are alive
\* together only if both were checked before either had inserted all its
\* rows, or a late write brought a cancelled or expired row back.  And the
\* ledger charges a share only if its event had read the booking by the time
\* the first of them, or a cancellation, was through: a share paid later is
\* never charged to the booking, and a cancelled booking comes back as confirmed
\* only through such an event, with its charge.
SPOneDivision ==
  /\ \A s, t \in SpLive :
       s[1] # t[1] => \/ {s[1], t[1]} \subseteq spOverlaps
                      \/ {s[1], t[1]} \cap spRevived # {}
  /\ spLedger \subseteq spMet
  /\ spBooking = "confirmed" => spLedger # {}
  /\ \A s \in spLedger : spShare[s] = "handled" /\ spBooking # "pending"

\* split-payment.service.ts:538-540: once all splits that are alive are paid,
\* and only then, the booking is confirmed.
SPConfirmedWhenAllPaid ==
  spBooking = "confirmed" => \A s \in SpLive : spShare[s] \in {"charged", "read", "handled"}
=============================================================================
