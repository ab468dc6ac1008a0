---------------------------- MODULE Idempotency ----------------------------
(***************************************************************************)
(* withIdempotency of idempotency-v2.service.ts: the calls that carry one  *)
(* (scope, userId, key), the rows of idempotency_requests with that key,   *)
(* and the clean-up of expired rows.                                       *)
(*                                                                         *)
(* A call looks its row up, inserts it or takes it over, runs the          *)
(* operation and stores the outcome; between any two of these statements   *)
(* other calls and the clean-up run.  A response stands for the call whose *)
(* operation produced it; the operation returns a value, so a completed    *)
(* row always has a response to return.                                    *)
(***************************************************************************)
EXTENDS Integers, FiniteSets

CONSTANTS
  Calls,        \* calls of withIdempotency
  Kept, Nested, \* the two parts of a request, below
  Payload,      \* Payload[c] is the request of call c
  Rows,         \* row ids of idempotency_requests
  UserIsNull,   \* the key has no userId, which the unique index ignores
  Ttl,          \* ttlSeconds, in ticks
  MaxRun,       \* the longest a call takes, in ticks
  Faults,       \* what may fail
  MaxFaults,    \* bound on the failures of each kind
  MaxTime,      \* bound on the clock
  NoRow, NoCall

\* The operation fails, its outcome cannot be stored, its failure cannot be
\* marked, or the process is lost.
Kinds == {"run", "store", "mark", "crash"}

ASSUME IdempotencyAssumption ==
  /\ Payload \in [Calls -> [kept : Kept, nested : Nested]] /\ Kept # {}
  /\ UserIsNull \in BOOLEAN /\ Faults \subseteq Kinds
  /\ Ttl \in Nat /\ MaxRun \in Nat /\ 2 * MaxRun <= Ttl
  /\ MaxFaults \in Nat /\ MaxTime \in Nat
  /\ NoRow \notin Rows /\ NoCall \notin Calls

VARIABLES
  row, call, now,
  faults,       \* how often each kind of failure has happened
  serial        \* whether the traffic never has two calls at once, nor a
                \* call during a clean-up; it never changes

vars == <<row, call, now, faults, serial>>

(***************************************************************************)
(* The request hash.  The sorted top-level keys are given to JSON.stringify*)
(* as its replacer, which keeps the keys of that name at every depth and   *)
(* drops all others: what a request has under other nested keys is no part *)
(* of the hash.                                                            *)
(***************************************************************************)
calculateRequestHash(request) == request.kept
Hash(c) == calculateRequestHash(Payload[c])

(***************************************************************************)
(* idempotency_requests.  A row id is "absent" until it is handed out and  *)
(* "deleted" for ever after the clean-up removed the row.                  *)
(***************************************************************************)
Status == {"absent", "STARTED", "COMPLETED", "FAILED", "deleted"}
Record == [status : Status, hash : Kept, response : Calls \cup {NoCall},
           expiresAt : Nat]

Live == {r \in Rows : row[r].status \notin {"absent", "deleted"}}

(***************************************************************************)
(* Calls.  ran says whether the operation was carried out.                 *)
(***************************************************************************)
Owning == {"running", "storing", "failing"}
Active == {"inserting", "rearming"} \cup Owning
Finished == {"returned", "conflict", "inProgress", "threw", "crashed"}
CallRow == [pc : {"new"} \cup Active \cup Finished,
            row : Rows \cup {NoRow}, started : Nat, ran : BOOLEAN,
            answer : Calls \cup {NoCall}]

At(c, pc) == call[c].pc = pc
Running == {c \in Calls : call[c].pc \in Active}
Alone == serial => Running = {}

\* The call starts now: expiresAt is computed from this moment.
Begin(c, pc, r, answer) ==
  /\ At(c, "new") /\ Alone
  /\ call' = [call EXCEPT ![c] = [pc |-> pc, row |-> r, started |-> now,
                                  ran |-> FALSE, answer |-> answer]]
  /\ UNCHANGED <<row, now, faults>>

\* The call goes on with the row it has.
Goto(c, pc) == call' = [call EXCEPT ![c] =
  [pc |-> pc, row |-> call[c].row, started |-> call[c].started,
   ran |-> call[c].ran, answer |-> call[c].answer]]

ExpiresAt(c) == call[c].started + Ttl

Fault(f) ==
  /\ f \in Faults /\ faults[f] < MaxFaults
  /\ faults' = [faults EXCEPT ![f] = faults[f] + 1]

Init ==
  /\ row = [r \in Rows |->
       [status |-> "absent", hash |-> CHOOSE h \in Kept : TRUE,
        response |-> NoCall, expiresAt |-> 0]]
  /\ call = [c \in Calls |-> [pc |-> "new", row |-> NoRow, started |-> 0,
                              ran |-> FALSE, answer |-> NoCall]]
  /\ now = 0 /\ faults = [f \in Kinds |-> 0] /\ serial \in BOOLEAN

(***************************************************************************)
(* The lookup, and what a call makes of the row it finds.                  *)
(***************************************************************************)
SamePayloadMutant(c, r) == TRUE \* the hash not compared
SamePayload(c, r) == row[r].hash = Hash(c)

\* "Stale - allow retry"
StaleMutant(r) == TRUE \* an attempt in progress is taken over
StaleNever(r) == FALSE \* an attempt in progress is waited for indefinitely
Stale(r) == row[r].expiresAt < now

FindNothing(c) ==
  Live = {} /\ Begin(c, "inserting", NoRow, NoCall)

RefusePayload(c, r) ==
  ~SamePayload(c, r) /\ Begin(c, "conflict", NoRow, NoCall)

ReturnCached(c, r) ==
  /\ SamePayload(c, r) /\ row[r].status = "COMPLETED"
  /\ Begin(c, "returned", NoRow, row[r].response)

RefuseInProgress(c, r) ==
  /\ SamePayload(c, r) /\ row[r].status = "STARTED" /\ ~Stale(r)
  /\ Begin(c, "inProgress", NoRow, NoCall)

TakeOver(c, r) ==
  /\ SamePayload(c, r)
  /\ row[r].status = "FAILED" \/ (row[r].status = "STARTED" /\ Stale(r))
  /\ Begin(c, "rearming", r, NoCall)

Find(c, r) == r \in Live /\
  \/ RefusePayload(c, r) \/ ReturnCached(c, r)
  \/ RefuseInProgress(c, r) \/ TakeOver(c, r)

\* UPDATE ... WHERE id = existing.id, whoever did the same meanwhile.
Rearm(c) ==
  LET r == call[c].row IN
  /\ At(c, "rearming") /\ r \in Live
  /\ row' = [row EXCEPT ![r] =
       [status |-> "STARTED", hash |-> row[r].hash,
        response |-> row[r].response, expiresAt |-> ExpiresAt(c)]]
  /\ Goto(c, "running")
  /\ UNCHANGED <<now, faults>>

\* The row is gone and the update changes nothing: the call runs without one.
RearmGone(c) ==
  /\ At(c, "rearming") /\ call[c].row \notin Live
  /\ call' = [call EXCEPT ![c] =
       [pc |-> "running", row |-> NoRow, started |-> call[c].started,
        ran |-> FALSE, answer |-> NoCall]]
  /\ UNCHANGED <<row, now, faults>>

CanInsertMutant == TRUE \* the unique index missing
CanInsert == UserIsNull \/ Live = {}

Insert(c) ==
  /\ At(c, "inserting") /\ CanInsert
  /\ \E r \in Rows :
       /\ row[r].status = "absent"
       /\ row' = [row EXCEPT ![r] =
            [status |-> "STARTED", hash |-> Hash(c), response |-> NoCall,
             expiresAt |-> ExpiresAt(c)]]
       /\ call' = [call EXCEPT ![c] =
            [pc |-> "running", row |-> r, started |-> call[c].started,
             ran |-> FALSE, answer |-> NoCall]]
  /\ UNCHANGED <<now, faults>>

\* ER_DUP_ENTRY
RefuseDuplicate(c) ==
  /\ At(c, "inserting") /\ ~CanInsert
  /\ Goto(c, "inProgress")
  /\ UNCHANGED <<row, now, faults>>

(***************************************************************************)
(* The operation and its outcome.  The row is updated by scope, key and    *)
(* user, so every live row of the key is.                                  *)
(***************************************************************************)
Run(c) ==
  /\ At(c, "running")
  /\ call' = [call EXCEPT ![c] =
       [pc |-> "storing", row |-> call[c].row, started |-> call[c].started,
        ran |-> TRUE, answer |-> c]]
  /\ UNCHANGED <<row, now, faults>>

RunFails(c) ==
  /\ At(c, "running") /\ Fault("run")
  /\ Goto(c, "failing")
  /\ UNCHANGED <<row, now>>

SetAll(status, response) ==
  row' = [r \in Rows |-> IF r \in Live
    THEN [status |-> status, hash |-> row[r].hash,
          response |-> IF response = NoCall THEN row[r].response ELSE response,
          expiresAt |-> row[r].expiresAt]
    ELSE row[r]]

Store(c) ==
  /\ At(c, "storing")
  /\ SetAll("COMPLETED", c)
  /\ Goto(c, "returned")
  /\ UNCHANGED <<now, faults>>

\* An error of this update is caught like one of the operation.
StoreFails(c) ==
  /\ At(c, "storing") /\ Fault("store")
  /\ Goto(c, "failing")
  /\ UNCHANGED <<row, now>>

MarkFailed(c) ==
  /\ At(c, "failing")
  /\ SetAll("FAILED", NoCall)
  /\ Goto(c, "threw")
  /\ UNCHANGED <<now, faults>>

MarkFails(c) ==
  /\ At(c, "failing") /\ Fault("mark")
  /\ Goto(c, "threw")
  /\ UNCHANGED <<row, now>>

\* The process is lost, or a statement before the operation fails.
Crash(c) ==
  /\ c \in Running /\ Fault("crash")
  /\ Goto(c, "crashed")
  /\ UNCHANGED <<row, now>>

\* cleanupExpiredIdempotencyRecords: whatever the status of the row.
Cleanup ==
  /\ Alone
  /\ \E r \in Live : row[r].expiresAt < now
  /\ row' = [r \in Rows |-> IF r \in Live /\ row[r].expiresAt < now
       THEN [status |-> "deleted", hash |-> row[r].hash,
             response |-> row[r].response, expiresAt |-> row[r].expiresAt]
       ELSE row[r]]
  /\ UNCHANGED <<call, now, faults>>

Tick ==
  /\ now < MaxTime
  /\ \A c \in Running : now < call[c].started + MaxRun
  /\ now' = now + 1
  /\ UNCHANGED <<row, call, faults>>

Step ==
  \/ \E c \in Calls :
       \/ FindNothing(c) \/ \E r \in Rows : Find(c, r)
       \/ Rearm(c) \/ RearmGone(c) \/ Insert(c) \/ RefuseDuplicate(c)
       \/ Run(c) \/ RunFails(c) \/ Store(c) \/ StoreFails(c)
       \/ MarkFailed(c) \/ MarkFails(c) \/ Crash(c)
  \/ Cleanup
  \/ Tick

Next == Step /\ UNCHANGED serial

Spec == Init /\ [][Next]_vars

(***************************************************************************)
(* Properties                                                              *)
(***************************************************************************)
TypeOK ==
  /\ row \in [Rows -> Record]
  /\ call \in [Calls -> CallRow]
  /\ now \in Nat
  /\ faults \in [Kinds -> 0..MaxFaults]
  /\ serial \in BOOLEAN

\* While nothing fails, two calls with the same key both carry out the
\* operation only when they began more than a TTL apart.
Apart(c, d) == call[c].started + Ttl < call[d].started
RunsApart ==
  \A c, d \in Calls :
    c # d /\ call[c].ran /\ call[d].ran => Apart(c, d) \/ Apart(d, c)
Smoothly == \A f \in Kinds : faults[f] = 0
OncePerTtl == Smoothly => RunsApart

\* Calls that do not overlap keep that promise whatever fails, as long as an
\* outcome that was reached can be stored.
OncePerTtlSerial == serial /\ faults["store"] = 0 => RunsApart

\* With a user, and whatever fails, an answer is that of an operation carried
\* out for a request with the same hash, or by a call that had no row: the
\* clean-up removed the row it took over, and it stores its outcome in whatever
\* row there is then.  Requests that differ only in what the hash drops do get
\* each other's answers, against the message of idempotency-v2.service.ts:135.
AnswersMatchPayload ==
  \A c \in Calls :
    LET author == call[c].answer IN
    At(c, "returned") =>
      /\ author \in Calls /\ call[author].ran
      /\ Hash(author) = Hash(c) \/ call[author].row = NoRow

\* No key is blocked by an attempt that died: a call is turned away as "in
\* progress" only while another one began at most a TTL ago.
BusyMeansRecent ==
  [][\A c \in Calls : call[c].pc # "inProgress" /\ call'[c].pc = "inProgress" =>
       \E d \in Calls \ {c} : call[d].row # NoRow /\ now <= call[d].started + Ttl]_vars

\* The service's promise (idempotency-v2.service.ts:84-85): the operation "is
\* only executed once, even under concurrent requests".
ExecutedOnce == Cardinality({c \in Calls : call[c].ran}) <= 1
=============================================================================
