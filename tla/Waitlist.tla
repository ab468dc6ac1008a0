------------------------------ MODULE Waitlist ------------------------------
(***************************************************************************)
(* The waiting list of one flight and cabin: the rows of the table         *)
(* waitlist, the counter flights.xAvailable, and the two services that     *)
(* make offers from them.  waitlist.service.ts takes the seats of an offer *)
(* out of the counter; inventory.service.ts makes offers that do not (rows *)
(* that service inserts itself, with a priority of its own, are left out). *)
(*                                                                         *)
(* Every operation reads a row and later writes it by its id; an operation *)
(* that has read and not yet written is kept in wlDoing.  The transaction  *)
(* of processWaitlist reads a snapshot and takes no lock before its first  *)
(* update, from which on it holds the flight row until it commits.         *)
(***************************************************************************)
EXTENDS Integers, FiniteSets, SequencesExt

CONSTANTS
  WlEntries,    \* ids of waitlist rows
  WlSeats,      \* WlSeats[e] is the number of seats entry e asks for
  WlUser,       \* WlUser[e] is the customer of entry e
  WlFirst,      \* the entry that is on the list when the model starts
  WlRuns,       \* calls of processWaitlist, and so a bound on what leads to one
  WlMaxDoing,   \* bound on the operations between their read and their write
  WlSold        \* seats sold to other customers when the model starts

ASSUME WaitlistAssumption ==
  /\ IsFiniteSet(WlEntries) /\ IsFiniteSet(WlRuns)
  /\ WlSeats \in [WlEntries -> Nat] /\ WlSold \in Nat

VARIABLES
  wlAvail,      \* flights.xAvailable
  wlSold,       \* seats in bookings of other customers
  wlEntry,      \* waitlist, and the call that inserts each row
  wlDoing,      \* operations that have read their row and not written it
  wlRun,        \* calls of processWaitlist
  wlDisturbed   \* history: something changed under a run's snapshot

wlVars == <<wlAvail, wlSold, wlEntry, wlDoing, wlRun, wlDisturbed>>

(***************************************************************************)
(* Joining.  addToWaitlist reads its row, the flight and MAX(priority) one *)
(* after the other and then inserts; "before" is history: the rows that    *)
(* were there when the call began.                                         *)
(***************************************************************************)
WlJoining == {"new", "checked", "numbered"}
WlStatus == {"waiting", "offered", "confirmed", "expired", "cancelled"}
WlIn(status) == {e \in WlEntries : wlEntry[e].status = status}
WlInserted == {e \in WlEntries : wlEntry[e].status \in WlStatus}

WlNextPriorityMutant(e) == Cardinality(WlIn("waiting")) + 1
WlNextPriority(e) == Max({wlEntry[f].priority : f \in WlInserted} \cup {0}) + 1

WLInit ==
  /\ wlAvail = 0 /\ wlSold = WlSold
  /\ wlEntry = [e \in WlEntries |->
       [status |-> IF e = WlFirst THEN "waiting" ELSE "new",
        priority |-> IF e = WlFirst THEN 1 ELSE 0, lapsed |-> FALSE,
        before |-> {}, taken |-> 0]]
  /\ wlDoing = {}
  /\ wlRun = [r \in WlRuns |-> [pc |-> "idle", left |-> 0, queue |-> <<>>]]
  /\ wlDisturbed = FALSE

WLCheckJoin(e) ==
  /\ wlEntry[e].status = "new"
  /\ \A f \in WlIn("waiting") : WlUser[f] # WlUser[e]
  /\ wlAvail < WlSeats[e]
  /\ wlEntry' = [wlEntry EXCEPT ![e].status = "checked",
                                ![e].before = WlInserted]
  /\ UNCHANGED <<wlAvail, wlSold, wlDoing, wlRun, wlDisturbed>>

WLNumber(e) ==
  /\ wlEntry[e].status = "checked"
  /\ wlEntry' = [wlEntry EXCEPT ![e].status = "numbered",
                                ![e].priority = WlNextPriority(e)]
  /\ UNCHANGED <<wlAvail, wlSold, wlDoing, wlRun, wlDisturbed>>

WLInsert(e) ==
  /\ wlEntry[e].status = "numbered"
  /\ wlEntry' = [wlEntry EXCEPT ![e].status = "waiting"]
  /\ UNCHANGED <<wlAvail, wlSold, wlDoing, wlRun, wlDisturbed>>

(***************************************************************************)
(* Operations on one row.  Accepting and expiring an offer are kept apart  *)
(* into the read and the write by id, which overtake each other; the other *)
(* operations are one step.                                                *)
(***************************************************************************)
WlSet(e, status) ==
  wlEntry' = [wlEntry EXCEPT ![e].status = status, ![e].lapsed = FALSE]

WlBegin(e, status, again) ==
  /\ Cardinality(wlDoing) < WlMaxDoing
  /\ wlDoing' = wlDoing \cup {[entry |-> e, status |-> status, again |-> again]}
  /\ UNCHANGED <<wlAvail, wlSold, wlEntry, wlRun, wlDisturbed>>

\* A call of processWaitlist is the next thing the operation does.
WlRunAgain == \E r \in WlRuns : /\ wlRun[r].pc = "idle"
                                /\ wlRun' = [wlRun EXCEPT ![r].pc = "due"]

\* acceptOffer
WLAccept(e) ==
  /\ wlEntry[e].status = "offered"
  /\ WlBegin(e, IF wlEntry[e].lapsed THEN "expired" ELSE "confirmed", FALSE)

\* processExpiredOffers, which then runs processWaitlist
WLFindExpired(e) ==
  wlEntry[e].status = "offered" /\ wlEntry[e].lapsed /\ WlBegin(e, "expired", TRUE)

WLWrite(d) ==
  /\ d \in wlDoing
  /\ WlSet(d.entry, d.status)
  /\ wlDoing' = wlDoing \ {d}
  /\ IF d.again THEN WlRunAgain ELSE UNCHANGED wlRun
  /\ UNCHANGED <<wlAvail, wlSold, wlDisturbed>>

\* declineOffer, which then runs processWaitlist
WLDecline(e) ==
  /\ wlEntry[e].status = "offered"
  /\ WlSet(e, "cancelled")
  /\ WlRunAgain
  /\ UNCHANGED <<wlAvail, wlSold, wlDoing, wlDisturbed>>

\* cancelWaitlistEntry
WLCancel(e) ==
  /\ wlEntry[e].status \in WlStatus \ {"cancelled", "confirmed"}
  /\ WlSet(e, "cancelled")
  /\ UNCHANGED <<wlAvail, wlSold, wlDoing, wlRun, wlDisturbed>>

\* offerSeat: no seat leaves the counter
WLOfferSeat(e) ==
  /\ wlEntry[e].status = "waiting"
  /\ WlSet(e, "offered")
  /\ UNCHANGED <<wlAvail, wlSold, wlDoing, wlRun, wlDisturbed>>

\* Time passes offerExpiresAt.
WLLapse(e) ==
  /\ wlEntry[e].status = "offered" /\ ~wlEntry[e].lapsed
  /\ wlEntry' = [wlEntry EXCEPT ![e].lapsed = TRUE]
  /\ UNCHANGED <<wlAvail, wlSold, wlDoing, wlRun, wlDisturbed>>

\* expireWaitlistOffers of inventory.service, a scheduled job: one UPDATE.
WlExpirableMutant == {e \in WlIn("offered") : wlEntry[e].lapsed /\ wlEntry[e].taken > 0}
WlExpirable == {e \in WlIn("offered") : wlEntry[e].lapsed}
WLExpireOffers ==
  /\ WlExpirable # {}
  /\ wlEntry' = [e \in WlEntries |-> IF e \in WlExpirable
       THEN [wlEntry[e] EXCEPT !.status = "expired", !.lapsed = FALSE] ELSE wlEntry[e]]
  /\ UNCHANGED <<wlAvail, wlSold, wlDoing, wlRun, wlDisturbed>>

(***************************************************************************)
(* processWaitlist of waitlist.service                                     *)
(***************************************************************************)
WlByPriority(s) == \A i, j \in DOMAIN s :
  i < j => wlEntry[s[i]].priority <= wlEntry[s[j]].priority

WLRead(r) ==
  /\ wlRun[r].pc \in {"idle", "due"}
  /\ wlAvail > 0
  /\ \E s \in SetToSeqs(WlIn("waiting")) :
       /\ WlByPriority(s)
       /\ wlRun' = [wlRun EXCEPT ![r] = [pc |-> "read", left |-> wlAvail, queue |-> s]]
  /\ UNCHANGED <<wlAvail, wlSold, wlEntry, wlDoing, wlDisturbed>>

WLNothingFree(r) ==
  /\ wlRun[r].pc = "due" /\ wlAvail <= 0
  /\ wlRun' = [wlRun EXCEPT ![r].pc = "done"]
  /\ UNCHANGED <<wlAvail, wlSold, wlEntry, wlDoing, wlDisturbed>>

WlSeatsOf(S) == SumFunctionOnSet(WlSeats, S)

\* Who of the queue is offered seats: each entry that fits into what those that
\* were served before it have left.
WlEarlier(r, i) == {wlRun[r].queue[j] : j \in 1..(i - 1)}
WlServedMutant(r, S) == S = {wlRun[r].queue[i] : i \in
  {j \in DOMAIN wlRun[r].queue : WlSeats[wlRun[r].queue[j]] <= wlRun[r].left}}
WlServed(r, S) == S = {wlRun[r].queue[i] : i \in
  {j \in DOMAIN wlRun[r].queue :
     WlSeatsOf(S \cap WlEarlier(r, j)) + WlSeats[wlRun[r].queue[j]] <= wlRun[r].left}}

WlTake(S) == WlSeatsOf(S)

WLCommit(r) ==
  /\ wlRun[r].pc = "read"
  /\ \E S \in SUBSET WlEntries :
       /\ WlServed(r, S)
       /\ wlAvail' = wlAvail - WlTake(S)
       /\ wlEntry' = [e \in WlEntries |-> IF e \in S
            THEN [wlEntry[e] EXCEPT !.status = "offered", !.lapsed = FALSE,
                                    !.taken = wlEntry[e].taken + 1]
            ELSE wlEntry[e]]
  /\ wlRun' = [wlRun EXCEPT ![r] = [pc |-> "done", left |-> 0, queue |-> <<>>]]
  /\ wlDisturbed' = (wlDisturbed \/ \E q \in WlRuns \ {r} : wlRun[q].pc = "read")
  /\ UNCHANGED <<wlSold, wlDoing>>

(***************************************************************************)
(* processWaitlist of inventory.service, when nobody holds seats: the queue *)
(* is offered the free seats one row after the other, until one does not   *)
(* fit; the counter stays as it is.                                        *)
(***************************************************************************)
WLReadInventory(r) ==
  /\ wlRun[r].pc = "idle"
  /\ wlAvail > 0
  /\ \E s \in SetToSeqs(WlIn("waiting")) :
       /\ WlByPriority(s)
       /\ wlRun' = [wlRun EXCEPT ![r] = [pc |-> "offering", left |-> wlAvail, queue |-> s]]
  /\ UNCHANGED <<wlAvail, wlSold, wlEntry, wlDoing, wlDisturbed>>

WLOfferNext(r) ==
  LET e == Head(wlRun[r].queue) IN
  /\ wlRun[r].pc = "offering" /\ wlRun[r].queue # <<>>
  /\ WlSeats[e] <= wlRun[r].left
  /\ wlEntry' = [wlEntry EXCEPT ![e].status = "offered", ![e].lapsed = FALSE]
  /\ wlRun' = [wlRun EXCEPT ![r].left = wlRun[r].left - WlSeats[e],
                            ![r].queue = Tail(wlRun[r].queue)]
  /\ UNCHANGED <<wlAvail, wlSold, wlDoing, wlDisturbed>>

(***************************************************************************)
(* The bookings of other customers: a cancellation returns a seat, a       *)
(* payment takes one.                                                      *)
(***************************************************************************)
WLReturnSeat ==
  /\ wlSold > 0
  /\ wlSold' = wlSold - 1 /\ wlAvail' = wlAvail + 1
  /\ UNCHANGED <<wlEntry, wlDoing, wlRun, wlDisturbed>>

WLSellSeat ==
  /\ wlAvail > 0
  /\ wlSold' = wlSold + 1 /\ wlAvail' = wlAvail - 1
  /\ wlDisturbed' = (wlDisturbed \/ \E r \in WlRuns : wlRun[r].pc = "read")
  /\ UNCHANGED <<wlEntry, wlDoing, wlRun>>

WLNext ==
  \/ \E e \in WlEntries :
       \/ WLCheckJoin(e) \/ WLNumber(e) \/ WLInsert(e)
       \/ WLAccept(e) \/ WLDecline(e) \/ WLCancel(e) \/ WLOfferSeat(e)
       \/ WLFindExpired(e) \/ WLLapse(e)
  \/ \E d \in wlDoing : WLWrite(d)
  \/ WLExpireOffers
  \/ \E r \in WlRuns :
       WLRead(r) \/ WLNothingFree(r) \/ WLCommit(r)
       \/ WLReadInventory(r) \/ WLOfferNext(r)
  \/ WLReturnSeat \/ WLSellSeat

WLSpec == WLInit /\ [][WLNext]_wlVars

\* The worker repeats the clean-up of offers, and time goes on.
WLFairness ==
  /\ WF_wlVars(WLExpireOffers)
  /\ \A e \in WlEntries : WF_wlVars(WLLapse(e))

(***************************************************************************)
(* Properties                                                              *)
(***************************************************************************)
WLTypeOK ==
  /\ wlAvail \in Int /\ wlSold \in 0..WlSold
  /\ wlEntry \in [WlEntries ->
       [status : WlJoining \cup WlStatus, priority : Nat, lapsed : BOOLEAN,
        before : SUBSET WlEntries, taken : 0..Cardinality(WlRuns)]]
  /\ wlDoing \subseteq
       [entry : WlEntries, status : {"confirmed", "expired"}, again : BOOLEAN]
  /\ wlRun \in [WlRuns -> [pc : {"idle", "due", "read", "offering", "done"},
                           left : Nat, queue : Seq(WlEntries)]]
  /\ wlDisturbed \in BOOLEAN

\* First come, first served: whoever joined after another row was there stands
\* behind it, whatever happened to the rows in between and however joins
\* overlap.
WLLaterIsBehind ==
  \A e \in WlInserted :
    \A f \in wlEntry[e].before : wlEntry[f].priority < wlEntry[e].priority

\* Every seat taken out of the counter for an offer stays accounted for: the
\* seats on sale, those of other bookings, and those of each offer made by
\* processWaitlist, as often as it was made, are all the seats there are.
\* Nothing that happens to an offer later returns them.
WLSeatsAccounted ==
  wlAvail + wlSold
    + SumFunctionOnSet([e \in WlEntries |-> wlEntry[e].taken * WlSeats[e]], WlEntries)
    = WlSold

\* As long as nothing changed the counter between the read and the commit of
\* a processWaitlist, no entry is offered seats twice and the counter stays
\* at or above zero.
WLOffersFit == ~wlDisturbed =>
  wlAvail >= 0 /\ \A e \in WlEntries : wlEntry[e].taken <= 1

\* No offer keeps a customer waiting for ever: it is answered or it expires.
WLOffersEnd ==
  \A e \in WlEntries : wlEntry[e].status = "offered" ~> wlEntry[e].status # "offered"
=============================================================================
