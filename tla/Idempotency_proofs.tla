------------------------- MODULE Idempotency_proofs -------------------------
(***************************************************************************)
(* Proofs about Idempotency, for all calls, requests and times.            *)
(***************************************************************************)
EXTENDS Idempotency, TLAPS

USE IdempotencyAssumption

(***************************************************************************)
(* What holds whatever fails: types, the age of a call, and who is behind  *)
(* a row.                                                                  *)
(***************************************************************************)
Timely ==
  \A c \in Calls :
    /\ call[c].started <= now
    /\ call[c].pc \in Active => now <= call[c].started + MaxRun

NoRowYet ==
  \A c \in Calls : call[c].pc \in {"new", "inserting"} => call[c].row = NoRow

\* A live row expires a TTL after the start of a call that has it.
RowHasCaller ==
  \A r \in Live : \E d \in Calls :
    call[d].row = r /\ row[r].expiresAt = call[d].started + Ttl

\* When a call finds the key free and another one takes it first, that one
\* began not much earlier and has its row for good.
LateInsert ==
  \A c \in Calls : call[c].pc = "inserting" =>
    \/ Live = {}
    \/ \E d \in Calls : call[d].row # NoRow /\ call[d].pc # "rearming"
                        /\ call[c].started <= call[d].started + MaxRun

Base == TypeOK /\ Timely /\ NoRowYet /\ RowHasCaller /\ LateInsert

Pcs == {"new"} \cup Active \cup Finished

LEMMA CallTypes ==
  ASSUME TypeOK, NEW c \in Calls
  PROVE  /\ call[c] \in CallRow
         /\ call[c].pc \in Pcs /\ call[c].row \in Rows \cup {NoRow}
         /\ call[c].started \in Nat /\ call[c].ran \in BOOLEAN
         /\ call[c].answer \in Calls \cup {NoCall}
BY DEF TypeOK, CallRow, Pcs

LEMMA RowTypes ==
  ASSUME TypeOK, NEW r \in Rows
  PROVE  /\ row[r] \in Record
         /\ row[r].status \in Status /\ row[r].hash \in Kept
         /\ row[r].response \in Calls \cup {NoCall}
         /\ row[r].expiresAt \in Nat
BY DEF TypeOK, Record

LEMMA HashType == \A c \in Calls : Hash(c) \in Kept
<1> DEFINE Requests == [kept : Kept, nested : Nested]
<1>1. \A p \in Requests : p.kept \in Kept
  OBVIOUS
<1>2. Payload \in [Calls -> Requests]
  OBVIOUS
<1> HIDE DEF Requests
<1> QED
  BY <1>1, <1>2 DEF Hash, calculateRequestHash

LEMMA InitBase == Init => Base
<1> SUFFICES ASSUME Init PROVE Base
  OBVIOUS
<1>1. TypeOK
  BY DEF Init, TypeOK, Record, Status, CallRow
<1>2. Live = {}
  BY DEF Init, Live
<1>3. Timely /\ NoRowYet
  BY DEF Init, Timely, NoRowYet, Active, Owning
<1> QED
  BY <1>1, <1>2, <1>3 DEF Base, RowHasCaller, LateInsert

\* A call that has begun goes on with its row; no row comes alive and the
\* live ones keep their expiry.
LEMMA MoveOn ==
  ASSUME Base, NEW c \in Calls, NEW next \in CallRow,
         call[c].pc # "new", next.pc \notin {"new", "inserting", "rearming"},
         next.pc \in Active => call[c].pc \in Active,
         next.row = call[c].row, next.started = call[c].started,
         call' = [call EXCEPT ![c] = next], now' = now,
         row' \in [Rows -> Record], Live' \subseteq Live,
         \A r \in Live' : row'[r].expiresAt = row[r].expiresAt,
         faults' \in [Kinds -> 0..MaxFaults], serial' = serial
  PROVE  Base'
<1>1. TypeOK'
  BY DEF Base, TypeOK
<1>2. \A d \in Calls : call'[d].row = call[d].row
                       /\ call'[d].started = call[d].started
  BY DEF Base, TypeOK
<1>3. Timely'
  BY <1>2 DEF Base, TypeOK, Timely
<1>4. NoRowYet'
  BY <1>2 DEF Base, TypeOK, NoRowYet
<1>5. RowHasCaller'
  BY <1>2 DEF Base, RowHasCaller
<1>6. LateInsert'
  <2> SUFFICES ASSUME NEW d \in Calls, call'[d].pc = "inserting", Live' # {}
               PROVE  \E e \in Calls :
                        /\ call'[e].row # NoRow /\ call'[e].pc # "rearming"
                        /\ call'[d].started <= call'[e].started + MaxRun
    BY DEF LateInsert
  <2>1. d # c /\ call'[d] = call[d]
    BY DEF Base, TypeOK
  <2>2. PICK e \in Calls : /\ call[e].row # NoRow /\ call[e].pc # "rearming"
                           /\ call[d].started <= call[e].started + MaxRun
    BY <2>1 DEF Base, LateInsert
  <2>3. call'[e].pc # "rearming"
    BY <2>2 DEF Base, TypeOK
  <2> QED
    BY <1>2, <2>2, <2>3
<1> QED
  BY <1>1, <1>3, <1>4, <1>5, <1>6 DEF Base

LEMMA GotoStep ==
  ASSUME Base, NEW c \in Calls, NEW pc \in Finished \cup Owning,
         call[c].pc \in Active, Goto(c, pc), now' = now,
         row' \in [Rows -> Record], Live' \subseteq Live,
         \A r \in Live' : row'[r].expiresAt = row[r].expiresAt,
         faults' \in [Kinds -> 0..MaxFaults], serial' = serial
  PROVE  Base'
<1> DEFINE next == [pc |-> pc, row |-> call[c].row,
             started |-> call[c].started, ran |-> call[c].ran,
             answer |-> call[c].answer]
<1>1. next \in CallRow
  BY CallTypes DEF Base, CallRow, Active
<1>2. next.pc = pc /\ next.row = call[c].row /\ next.started = call[c].started
  OBVIOUS
<1>3. call' = [call EXCEPT ![c] = next]
  BY DEF Goto
<1> HIDE DEF next
<1> QED
  BY <1>1, <1>2, <1>3, MoveOn DEF Active, Owning, Finished

LEMMA SameRows ==
  ASSUME TypeOK, row' = row
  PROVE  /\ row' \in [Rows -> Record] /\ Live' \subseteq Live
         /\ \A r \in Live' : row'[r].expiresAt = row[r].expiresAt
BY DEF TypeOK, Live

\* A call begins.
LEMMA BeginStep ==
  ASSUME Base, NEW c \in Calls, NEW pc \in Pcs \ {"new"},
         NEW r \in Rows \cup {NoRow}, NEW answer \in Calls \cup {NoCall},
         pc = "inserting" => r = NoRow /\ Live = {},
         Begin(c, pc, r, answer), serial' = serial
  PROVE  Base'
<1> DEFINE next == [pc |-> pc, row |-> r, started |-> now,
                    ran |-> FALSE, answer |-> answer]
<1>1. /\ call' = [call EXCEPT ![c] = next] /\ call[c].pc = "new"
      /\ row' = row /\ now' = now /\ faults' = faults
  BY DEF Begin, At
<1>2. next \in CallRow
  BY DEF Base, TypeOK, CallRow, Pcs
<1>3. /\ next.pc = pc /\ next.row = r /\ next.started = now
  OBVIOUS
<1> HIDE DEF next
<1>4. TypeOK'
  BY <1>1, <1>2 DEF Base, TypeOK
<1>5. Live' = Live
  BY <1>1 DEF Live
<1>6. Timely'
  BY <1>1, <1>3 DEF Base, TypeOK, Timely
<1>7. NoRowYet'
  BY <1>1, <1>3 DEF Base, TypeOK, NoRowYet
<1>8. \A d \in Calls : call[d].row # NoRow =>
        call'[d].row = call[d].row /\ call'[d].started = call[d].started
  BY <1>1 DEF Base, TypeOK, NoRowYet
<1>9. RowHasCaller'
  <2> SUFFICES ASSUME NEW q \in Live
               PROVE  \E d \in Calls : call'[d].row = q
                        /\ row'[q].expiresAt = call'[d].started + Ttl
    BY <1>5 DEF RowHasCaller
  <2>1. PICK d \in Calls : call[d].row = q
                           /\ row[q].expiresAt = call[d].started + Ttl
    BY DEF Base, RowHasCaller
  <2>2. q # NoRow
    BY DEF Live
  <2> QED
    BY <1>1, <1>8, <2>1, <2>2
<1>10. LateInsert'
  <2> SUFFICES ASSUME NEW e \in Calls, call'[e].pc = "inserting", Live # {}
               PROVE  \E d \in Calls : call'[d].row # NoRow
                        /\ call'[d].pc # "rearming"
                        /\ call'[e].started <= call'[d].started + MaxRun
    BY <1>5 DEF LateInsert
  <2>1. e # c
    BY <1>1, <1>3 DEF Base, TypeOK
  <2>2. call'[e] = call[e]
    BY <1>1, <2>1 DEF Base, TypeOK
  <2>3. PICK d \in Calls : call[d].row # NoRow /\ call[d].pc # "rearming"
                           /\ call[e].started <= call[d].started + MaxRun
    BY <2>2 DEF Base, LateInsert
  <2>4. call'[d] = call[d]
    BY <1>1, <2>3 DEF Base, TypeOK, NoRowYet
  <2> QED
    BY <2>2, <2>3, <2>4
<1> QED
  BY <1>4, <1>6, <1>7, <1>9, <1>10 DEF Base

LEMMA RearmStep ==
  ASSUME Base, NEW c \in Calls, Rearm(c), serial' = serial
  PROVE  Base'
<1> DEFINE r == call[c].row
           next == [pc |-> "running", row |-> r, started |-> call[c].started,
                    ran |-> call[c].ran, answer |-> call[c].answer]
           new == [status |-> "STARTED", hash |-> row[r].hash,
                   response |-> row[r].response, expiresAt |-> ExpiresAt(c)]
<1>0. TypeOK
  BY DEF Base
<1>1. /\ call[c].pc = "rearming" /\ call' = [call EXCEPT ![c] = next]
      /\ row' = [row EXCEPT ![r] = new] /\ r \in Live /\ r \in Rows
      /\ UNCHANGED <<now, faults>>
  BY DEF Rearm, At, Goto, Live
<1>2. next \in CallRow /\ new \in Record
  BY <1>0, <1>1, CallTypes, RowTypes
  DEF CallRow, Active, Owning, Record, Status, ExpiresAt
<1>3. /\ next.pc = "running" /\ next.row = r /\ next.started = call[c].started
      /\ new.status = "STARTED" /\ new.expiresAt = call[c].started + Ttl
  BY DEF ExpiresAt
<1> HIDE DEF next, new
<1>4. TypeOK'
  BY <1>0, <1>1, <1>2 DEF TypeOK
<1>5. Live' = Live
  BY <1>0, <1>1, <1>3 DEF Live, TypeOK
<1>6. \A d \in Calls : call'[d].row = call[d].row
                       /\ call'[d].started = call[d].started
  BY <1>0, <1>1, <1>3 DEF TypeOK
<1> HIDE DEF r
<1>7. Timely'
  BY <1>0, <1>1, <1>3, <1>6 DEF Base, TypeOK, Timely, Active, Owning
<1>8. NoRowYet'
  BY <1>0, <1>1, <1>3, <1>6 DEF Base, TypeOK, NoRowYet
<1>9. RowHasCaller'
  <2> SUFFICES ASSUME NEW q \in Live
               PROVE  \E d \in Calls : call'[d].row = q
                        /\ row'[q].expiresAt = call'[d].started + Ttl
    BY <1>5 DEF RowHasCaller
  <2>1. CASE q = r
    BY <1>0, <1>1, <1>3, <1>6, <2>1 DEF TypeOK, r
  <2>2. CASE q # r
    <3>1. row'[q] = row[q]
      BY <1>0, <1>1, <2>2 DEF TypeOK, Live
    <3> QED
      BY <1>6, <3>1 DEF Base, RowHasCaller
  <2> QED
    BY <2>1, <2>2
<1>10. LateInsert'
  BY <1>0, <1>1, <1>3, <1>5, <1>6 DEF Base, TypeOK, LateInsert
<1> QED
  BY <1>4, <1>7, <1>8, <1>9, <1>10 DEF Base

\* A call whose row is gone loses it: nobody relies on that row.
LEMMA RearmGoneStep ==
  ASSUME Base, NEW c \in Calls, RearmGone(c), serial' = serial
  PROVE  Base'
<1> DEFINE next == [pc |-> "running", row |-> NoRow, started |-> call[c].started,
                    ran |-> FALSE, answer |-> NoCall]
<1>0. TypeOK
  BY DEF Base
<1>1. /\ call[c].pc = "rearming" /\ call' = [call EXCEPT ![c] = next]
      /\ call[c].row \notin Live /\ UNCHANGED <<row, now, faults>>
  BY DEF RearmGone, At
<1>2. next \in CallRow
  BY <1>0, CallTypes DEF CallRow, Active, Owning
<1>3. /\ next.pc = "running" /\ next.row = NoRow
      /\ next.started = call[c].started
  OBVIOUS
<1> HIDE DEF next
<1>4. call'[c] = next /\ \A d \in Calls \ {c} : call'[d] = call[d]
  BY <1>0, <1>1 DEF TypeOK
<1>5. TypeOK'
  BY <1>0, <1>1, <1>2 DEF TypeOK
<1>6. Live' = Live
  BY <1>1 DEF Live
<1>7. Timely'
  BY <1>1, <1>3, <1>4 DEF Base, Timely, Active, Owning
<1>8. NoRowYet'
  BY <1>3, <1>4 DEF Base, NoRowYet
<1>9. RowHasCaller'
  <2> SUFFICES ASSUME NEW q \in Live
               PROVE  \E d \in Calls : call'[d].row = q
                        /\ row'[q].expiresAt = call'[d].started + Ttl
    BY <1>6 DEF RowHasCaller
  <2>1. PICK d \in Calls : call[d].row = q
                           /\ row[q].expiresAt = call[d].started + Ttl
    BY DEF Base, RowHasCaller
  <2> QED
    BY <1>1, <1>4, <2>1
<1>10. LateInsert'
  <2> SUFFICES ASSUME NEW e \in Calls, call'[e].pc = "inserting", Live # {}
               PROVE  \E d \in Calls : call'[d].row # NoRow
                        /\ call'[d].pc # "rearming"
                        /\ call'[e].started <= call'[d].started + MaxRun
    BY <1>6 DEF LateInsert
  <2>1. call'[e] = call[e]
    BY <1>3, <1>4
  <2>2. PICK d \in Calls : call[d].row # NoRow /\ call[d].pc # "rearming"
                           /\ call[e].started <= call[d].started + MaxRun
    BY <2>1 DEF Base, LateInsert
  <2>3. call'[d] = call[d]
    BY <1>1, <1>4, <2>2
  <2> QED
    BY <2>1, <2>2, <2>3
<1> QED
  BY <1>5, <1>7, <1>8, <1>9, <1>10 DEF Base

\* The row an insert fills, and the call that has it from then on.
LEMMA InsertEffect ==
  ASSUME TypeOK, NEW c \in Calls, Insert(c)
  PROVE  \E r \in Rows :
           /\ row[r].status = "absent" /\ Live' = Live \cup {r}
           /\ row' \in [Rows -> Record] /\ call' \in [Calls -> CallRow]
           /\ \A q \in Rows \ {r} : row'[q] = row[q]
           /\ \A d \in Calls \ {c} : call'[d] = call[d]
           /\ row'[r].status = "STARTED" /\ row'[r].hash = Hash(c)
           /\ row'[r].expiresAt = call[c].started + Ttl
           /\ call'[c].pc = "running" /\ call'[c].row = r
           /\ call'[c].started = call[c].started /\ call'[c].ran = FALSE
           /\ call'[c].answer = NoCall
<1>1. PICK r \in Rows :
        /\ row[r].status = "absent"
        /\ row' = [row EXCEPT ![r] =
             [status |-> "STARTED", hash |-> Hash(c), response |-> NoCall,
              expiresAt |-> ExpiresAt(c)]]
        /\ call' = [call EXCEPT ![c] =
             [pc |-> "running", row |-> r, started |-> call[c].started,
              ran |-> FALSE, answer |-> NoCall]]
  BY DEF Insert
<1> DEFINE new == [status |-> "STARTED", hash |-> Hash(c),
                   response |-> NoCall, expiresAt |-> ExpiresAt(c)]
           next == [pc |-> "running", row |-> r, started |-> call[c].started,
                    ran |-> FALSE, answer |-> NoCall]
<1>2. new \in Record
  <2>1. ExpiresAt(c) \in Nat
    BY CallTypes DEF ExpiresAt
  <2> QED
    BY <2>1, HashType DEF Record, Status
<1>3. next \in CallRow
  BY CallTypes DEF CallRow, Active, Owning
<1>4. /\ new.status = "STARTED" /\ new.hash = Hash(c)
      /\ new.expiresAt = call[c].started + Ttl
  BY DEF ExpiresAt
<1>5. /\ next.pc = "running" /\ next.row = r /\ next.started = call[c].started
      /\ next.ran = FALSE /\ next.answer = NoCall
  OBVIOUS
<1>6. row' = [row EXCEPT ![r] = new] /\ call' = [call EXCEPT ![c] = next]
  BY <1>1
<1> HIDE DEF new, next
<1>7. row' \in [Rows -> Record] /\ call' \in [Calls -> CallRow]
  BY <1>2, <1>3, <1>6 DEF TypeOK
<1>8. /\ \A q \in Rows \ {r} : row'[q] = row[q]
      /\ \A d \in Calls \ {c} : call'[d] = call[d]
      /\ row'[r] = new /\ call'[c] = next
  BY <1>6 DEF TypeOK
<1>9. Live' = Live \cup {r}
  BY <1>4, <1>8 DEF Live
<1> QED
  BY <1>1, <1>4, <1>5, <1>7, <1>8, <1>9

LEMMA InsertStep ==
  ASSUME Base, NEW c \in Calls, Insert(c), serial' = serial
  PROVE  Base'
<1>0. TypeOK /\ call[c].pc = "inserting" /\ UNCHANGED <<now, faults>>
  BY DEF Base, Insert, At
<1>1. PICK r \in Rows :
        /\ row[r].status = "absent" /\ Live' = Live \cup {r}
        /\ row' \in [Rows -> Record] /\ call' \in [Calls -> CallRow]
        /\ \A q \in Rows \ {r} : row'[q] = row[q]
        /\ \A d \in Calls \ {c} : call'[d] = call[d]
        /\ row'[r].expiresAt = call[c].started + Ttl
        /\ call'[c].pc = "running" /\ call'[c].row = r
        /\ call'[c].started = call[c].started
  BY <1>0, InsertEffect
<1>2. TypeOK'
  BY <1>0, <1>1 DEF TypeOK
<1>3. Timely'
  BY <1>0, <1>1 DEF Base, Timely, Active, Owning
<1>4. NoRowYet'
  BY <1>1 DEF Base, NoRowYet
<1>5. RowHasCaller'
  <2> SUFFICES ASSUME NEW q \in Live'
               PROVE  \E d \in Calls : call'[d].row = q
                        /\ row'[q].expiresAt = call'[d].started + Ttl
    BY DEF RowHasCaller
  <2>1. CASE q = r
    BY <1>1, <2>1
  <2>2. CASE q # r
    <3>1. q \in Live /\ row'[q] = row[q] /\ q # NoRow
      BY <1>1, <2>2 DEF Live
    <3>2. PICK d \in Calls : call[d].row = q
                             /\ row[q].expiresAt = call[d].started + Ttl
      BY <3>1 DEF Base, RowHasCaller
    <3>3. d # c
      BY <1>0, <3>1, <3>2 DEF Base, NoRowYet
    <3> QED
      BY <1>1, <3>1, <3>2, <3>3
  <2> QED
    BY <2>1, <2>2
<1>6. LateInsert'
  <2> SUFFICES ASSUME NEW e \in Calls, call'[e].pc = "inserting"
               PROVE  /\ call'[c].row # NoRow /\ call'[c].pc # "rearming"
                      /\ call'[e].started <= call'[c].started + MaxRun
    BY DEF LateInsert
  <2>1. e # c
    BY <1>1
  <2>2. call'[e] = call[e]
    BY <1>1, <2>1
  <2>3. call[e].started <= now /\ now <= call[c].started + MaxRun
    BY <1>0 DEF Base, Timely, Active
  <2>4. call[e].started \in Nat /\ call[c].started \in Nat /\ now \in Nat
    BY <1>0, CallTypes DEF TypeOK
  <2> QED
    BY <1>1, <2>2, <2>3, <2>4
<1> QED
  BY <1>2, <1>3, <1>4, <1>5, <1>6 DEF Base

\* An outcome is written to every live row of the key.
LEMMA SetAllEffect ==
  ASSUME TypeOK, NEW status \in {"COMPLETED", "FAILED"},
         NEW response \in Calls \cup {NoCall}, SetAll(status, response)
  PROVE  /\ row' \in [Rows -> Record]
         /\ Live' = Live
         /\ \A r \in Rows : row'[r].expiresAt = row[r].expiresAt
                            /\ row'[r].hash = row[r].hash
         /\ \A r \in Rows \ Live : row'[r] = row[r]
         /\ \A r \in Live : /\ row'[r].status = status
                            /\ response # NoCall => row'[r].response = response
<1> DEFINE new(r) == [status |-> status, hash |-> row[r].hash,
             response |-> IF response = NoCall THEN row[r].response ELSE response,
             expiresAt |-> row[r].expiresAt]
<1>1. ASSUME NEW r \in Rows PROVE new(r) \in Record
  <2>1. (IF response = NoCall THEN row[r].response ELSE response)
          \in Calls \cup {NoCall}
    BY RowTypes
  <2> QED
    BY <2>1, RowTypes DEF Record, Status
<1>2. ASSUME NEW r \in Rows
      PROVE  /\ new(r).status = status /\ new(r).hash = row[r].hash
             /\ new(r).expiresAt = row[r].expiresAt
             /\ response # NoCall => new(r).response = response
  OBVIOUS
<1>3. row' = [r \in Rows |-> IF r \in Live THEN new(r) ELSE row[r]]
  BY DEF SetAll
<1> HIDE DEF new
<1>4. row' \in [Rows -> Record]
  BY <1>1, <1>3 DEF TypeOK
<1>5. /\ \A r \in Rows \ Live : row'[r] = row[r]
      /\ \A r \in Live : row'[r] = new(r)
  BY <1>3 DEF Live
<1>6. Live \subseteq Rows
  BY DEF Live
<1>7. Live' = Live
  BY <1>2, <1>5, <1>6 DEF Live
<1> QED
  BY <1>2, <1>4, <1>5, <1>6, <1>7

\* The clean-up deletes expired rows and leaves the others alone.
LEMMA CleanupEffect ==
  ASSUME TypeOK, Cleanup
  PROVE  /\ row' \in [Rows -> Record] /\ Live' \subseteq Live
         /\ \A r \in Live' : row'[r] = row[r]
         /\ \A r \in Rows : /\ row'[r].expiresAt = row[r].expiresAt
                            /\ row'[r].hash = row[r].hash
         /\ \A r \in Live \ Live' : row[r].expiresAt < now
                                   /\ row'[r].status = "deleted"
         /\ \A r \in Rows \ Live : row'[r] = row[r]
<1> DEFINE gone(r) == [status |-> "deleted", hash |-> row[r].hash,
             response |-> row[r].response, expiresAt |-> row[r].expiresAt]
<1>1. \A r \in Rows : gone(r) \in Record
  BY RowTypes DEF Record, Status
<1>2. \A r \in Rows : /\ gone(r).status = "deleted" /\ gone(r).hash = row[r].hash
                      /\ gone(r).expiresAt = row[r].expiresAt
  OBVIOUS
<1>3. row' = [r \in Rows |-> IF r \in Live /\ row[r].expiresAt < now
                             THEN gone(r) ELSE row[r]]
  BY DEF Cleanup
<1> HIDE DEF gone
<1>4. row' \in [Rows -> Record]
  BY <1>1, <1>3 DEF TypeOK
<1>5. \A r \in Rows : row'[r] = IF r \in Live /\ row[r].expiresAt < now
                                THEN gone(r) ELSE row[r]
  BY <1>3
<1>6. Live \subseteq Rows /\ Live' \subseteq Rows
  BY DEF Live
<1>7. Live' = {r \in Live : ~(row[r].expiresAt < now)}
  BY <1>2, <1>5 DEF Live
<1> QED
  BY <1>2, <1>4, <1>5, <1>6, <1>7

LEMMA NextBase == Base /\ [Next]_vars => Base'
<1> SUFFICES ASSUME Base, [Next]_vars PROVE Base'
  OBVIOUS
<1>0. TypeOK
  BY DEF Base
<1>s. serial' = serial
  BY DEF Next, vars
<1>1. ASSUME NEW c \in Calls, FindNothing(c) PROVE Base'
  BY <1>s, <1>1, BeginStep DEF FindNothing, Pcs, Active
<1>2. ASSUME NEW c \in Calls, NEW r \in Rows, Find(c, r) PROVE Base'
  <2>1. row[r].response \in Calls \cup {NoCall}
    BY <1>0, RowTypes
  <2>2. CASE RefusePayload(c, r)
    BY <1>s, <2>2, BeginStep DEF RefusePayload, Pcs, Finished
  <2>3. CASE ReturnCached(c, r)
    BY <1>s, <2>1, <2>3, BeginStep DEF ReturnCached, Pcs, Finished
  <2>4. CASE RefuseInProgress(c, r)
    BY <1>s, <2>4, BeginStep DEF RefuseInProgress, Pcs, Finished
  <2>5. CASE TakeOver(c, r)
    BY <1>s, <2>5, BeginStep DEF TakeOver, Pcs, Active
  <2> QED
    BY <1>2, <2>2, <2>3, <2>4, <2>5 DEF Find
<1>3. ASSUME NEW c \in Calls, Rearm(c) PROVE Base'
  BY <1>s, <1>3, RearmStep
<1>12. ASSUME NEW c \in Calls, RearmGone(c) PROVE Base'
  BY <1>s, <1>12, RearmGoneStep
<1>4. ASSUME NEW c \in Calls, Insert(c) PROVE Base'
  BY <1>s, <1>4, InsertStep
<1>5. ASSUME NEW c \in Calls, RefuseDuplicate(c) PROVE Base'
  BY <1>s, <1>0, <1>5, GotoStep, SameRows
  DEF RefuseDuplicate, At, Active, Finished, TypeOK
<1>6. ASSUME NEW c \in Calls, Run(c) PROVE Base'
  <2> DEFINE next == [pc |-> "storing", row |-> call[c].row,
               started |-> call[c].started, ran |-> TRUE, answer |-> c]
  <2>1. next \in CallRow
    BY <1>0, CallTypes DEF CallRow, Active, Owning
  <2>2. /\ next.pc = "storing" /\ next.row = call[c].row
        /\ next.started = call[c].started
    OBVIOUS
  <2>3. /\ call' = [call EXCEPT ![c] = next] /\ call[c].pc = "running"
        /\ UNCHANGED <<row, now, faults>>
    BY <1>6 DEF Run, At
  <2> HIDE DEF next
  <2> QED
    BY <1>s, <1>0, <2>1, <2>2, <2>3, MoveOn, SameRows DEF Active, Owning, TypeOK
<1>7. ASSUME NEW c \in Calls,
             RunFails(c) \/ StoreFails(c) \/ MarkFails(c) \/ Crash(c)
      PROVE  Base'
  <2>1. /\ \E pc \in {"failing", "threw", "crashed"} : Goto(c, pc)
        /\ call[c].pc \in Active
        /\ UNCHANGED <<row, now>>
    BY <1>7 DEF RunFails, StoreFails, MarkFails, Crash, At, Running, Active, Owning
  <2>2. faults' \in [Kinds -> 0..MaxFaults]
    BY <1>0, <1>7 DEF RunFails, StoreFails, MarkFails, Crash, Fault, TypeOK
  <2> QED
    BY <1>s, <1>0, <2>1, <2>2, GotoStep, SameRows DEF Owning, Finished
<1>8. ASSUME NEW c \in Calls, Store(c) \/ MarkFailed(c) PROVE Base'
  <2>1. /\ \E pc \in {"returned", "threw"} : Goto(c, pc)
        /\ call[c].pc \in Active
        /\ UNCHANGED <<now, faults>>
        /\ \E status \in {"COMPLETED", "FAILED"}, response \in Calls \cup {NoCall} :
             SetAll(status, response)
    BY <1>8 DEF Store, MarkFailed, At, Active, Owning
  <2>2. /\ row' \in [Rows -> Record] /\ Live' = Live
        /\ \A r \in Rows : row'[r].expiresAt = row[r].expiresAt
    BY <1>0, <2>1, SetAllEffect
  <2>3. Live' \subseteq Rows
    BY DEF Live
  <2> QED
    BY <1>s, <1>0, <2>1, <2>2, <2>3, GotoStep DEF Finished, TypeOK
<1>9. ASSUME Cleanup PROVE Base'
  <2>1. /\ row' \in [Rows -> Record] /\ Live' \subseteq Live
        /\ \A r \in Live' : row'[r].expiresAt = row[r].expiresAt
    BY <1>0, <1>9, CleanupEffect
  <2>2. UNCHANGED <<call, now, faults>>
    BY <1>9 DEF Cleanup
  <2>3. TypeOK' /\ Timely' /\ NoRowYet'
    BY <1>s, <2>1, <2>2 DEF Base, TypeOK, Timely, NoRowYet
  <2>4. RowHasCaller'
    BY <2>1, <2>2 DEF Base, RowHasCaller
  <2>5. LateInsert'
    BY <2>1, <2>2 DEF Base, LateInsert
  <2> QED
    BY <2>3, <2>4, <2>5 DEF Base
<1>10. ASSUME Tick PROVE Base'
  <2>1. Live' = Live
    BY <1>10 DEF Tick, Live
  <2>2. Timely'
    <3> SUFFICES ASSUME NEW c \in Calls
                 PROVE  /\ call[c].started <= now + 1
                        /\ call[c].pc \in Active => now + 1 <= call[c].started + MaxRun
      BY <1>10 DEF Tick, Timely
    <3>1. call[c].started \in Nat /\ now \in Nat
      BY <1>0, CallTypes DEF TypeOK
    <3>2. call[c].pc \in Active => now < call[c].started + MaxRun
      BY <1>10 DEF Tick, Running
    <3> QED
      BY <3>1, <3>2 DEF Base, Timely
  <2> QED
    BY <1>s, <1>10, <2>1, <2>2
    DEF Tick, Base, TypeOK, NoRowYet, RowHasCaller, LateInsert
<1>11. CASE UNCHANGED vars
  <2>1. Live' = Live
    BY <1>11 DEF vars, Live
  <2> QED
    BY <1>11, <2>1
    DEF vars, Base, TypeOK, Timely, NoRowYet, RowHasCaller, LateInsert
<1> QED
  BY <1>1, <1>2, <1>3, <1>4, <1>5, <1>6, <1>7, <1>8, <1>9, <1>10, <1>11,
     <1>12
  DEF Next, Step

LEMMA BaseInvariant == Spec => []Base
<1> QED
  BY InitBase, NextBase, PTL DEF Spec

\* The rows, the calls and the clock keep their types.
THEOREM TypeCorrect == Spec => []TypeOK
<1>1. Base => TypeOK
  BY DEF Base
<1> QED
  BY <1>1, BaseInvariant, PTL

\* BusyMeansRecent, whatever fails and however calls overlap: "in progress"
\* is only said while a call of the last TTL is behind the row.
THEOREM BusyIsRecent == Spec => BusyMeansRecent
<1>1. ASSUME Base, [Next]_vars, NEW c \in Calls,
             call[c].pc # "inProgress", call'[c].pc = "inProgress"
      PROVE  \E d \in Calls \ {c} :
               call[d].row # NoRow /\ now <= call[d].started + Ttl
  <2>0. TypeOK
    BY <1>1 DEF Base
  <2>1. \/ \E r \in Live : At(c, "new") /\ ~Stale(r)
        \/ RefuseDuplicate(c)
    <3>1. ASSUME NEW e \in Calls, NEW pc \in Pcs, Goto(e, pc), pc # "inProgress"
          PROVE  FALSE
      BY <1>1, <2>0, <3>1 DEF Goto, TypeOK
    <3>2. ASSUME NEW e \in Calls, NEW pc \in Pcs, NEW r \in Rows \cup {NoRow},
                 NEW a \in Calls \cup {NoCall}, Begin(e, pc, r, a)
          PROVE  e = c /\ pc = "inProgress" /\ At(c, "new")
      BY <1>1, <2>0, <3>2 DEF Begin, TypeOK
    <3>3. ASSUME NEW e \in Calls, RefuseDuplicate(e) PROVE e = c
      BY <1>1, <2>0, <3>3 DEF RefuseDuplicate, Goto, TypeOK
    <3>4. ASSUME NEW e \in Calls, Insert(e) PROVE FALSE
      BY <1>1, <2>0, <3>4, InsertEffect
    <3>5. ASSUME NEW e \in Calls, Run(e) PROVE FALSE
      BY <1>1, <2>0, <3>5 DEF Run, TypeOK
    <3>6. ASSUME NEW e \in Calls,
                 Rearm(e) \/ RunFails(e) \/ Store(e) \/ StoreFails(e)
                   \/ MarkFailed(e) \/ MarkFails(e) \/ Crash(e)
          PROVE  FALSE
      BY <3>1, <3>6 DEF Rearm, RunFails, Store, StoreFails, MarkFailed, MarkFails,
                        Crash, Pcs, Active, Owning, Finished
    <3>10. ASSUME NEW e \in Calls, RearmGone(e) PROVE FALSE
      BY <1>1, <2>0, <3>10 DEF RearmGone, TypeOK
    <3>7. ASSUME NEW e \in Calls, FindNothing(e) PROVE FALSE
      BY <3>2, <3>7 DEF FindNothing, Pcs, Active
    <3>8. ASSUME NEW e \in Calls, NEW r \in Rows, Find(e, r)
          PROVE  r \in Live /\ At(c, "new") /\ ~Stale(r)
      <4>1. row[r].response \in Calls \cup {NoCall}
        BY <2>0, RowTypes
      <4>2. ASSUME RefusePayload(e, r) PROVE FALSE
        BY <3>2, <4>2 DEF RefusePayload, Pcs, Finished
      <4>3. ASSUME ReturnCached(e, r) PROVE FALSE
        BY <3>2, <4>1, <4>3 DEF ReturnCached, Pcs, Finished
      <4>4. ASSUME TakeOver(e, r) PROVE FALSE
        BY <3>2, <4>4 DEF TakeOver, Pcs, Active
      <4>5. ASSUME RefuseInProgress(e, r) PROVE At(c, "new") /\ ~Stale(r)
        BY <3>2, <4>5 DEF RefuseInProgress, Pcs, Finished
      <4> QED
        BY <3>8, <4>2, <4>3, <4>4, <4>5 DEF Find
    <3>9. call' # call
      BY <1>1
    <3> QED
      BY <1>1, <3>3, <3>4, <3>5, <3>6, <3>7, <3>8, <3>9, <3>10
      DEF Next, Step, Cleanup, Tick, vars
  <2>2. ASSUME NEW r \in Live, At(c, "new"), ~Stale(r)
        PROVE  \E d \in Calls \ {c} :
                 call[d].row # NoRow /\ now <= call[d].started + Ttl
    <3>1. PICK d \in Calls : call[d].row = r
                             /\ row[r].expiresAt = call[d].started + Ttl
      BY <1>1 DEF Base, RowHasCaller
    <3>2. r \in Rows
      BY DEF Live
    <3>3. d # c
      BY <1>1, <2>2, <3>1, <3>2 DEF Base, NoRowYet, At
    <3>4. now <= row[r].expiresAt
      BY <2>0, <2>2, <3>2, RowTypes DEF Stale, TypeOK
    <3> QED
      BY <3>1, <3>2, <3>3, <3>4
  <2>3. ASSUME RefuseDuplicate(c)
        PROVE  \E d \in Calls \ {c} :
                 call[d].row # NoRow /\ now <= call[d].started + Ttl
    <3>1. call[c].pc = "inserting" /\ Live # {}
      BY <2>3 DEF RefuseDuplicate, CanInsert, At
    <3>2. PICK d \in Calls : call[d].row # NoRow
                             /\ call[c].started <= call[d].started + MaxRun
      BY <1>1, <3>1 DEF Base, LateInsert
    <3>3. d # c
      BY <1>1, <3>1, <3>2 DEF Base, NoRowYet
    <3>4. now <= call[c].started + MaxRun
      BY <1>1, <3>1 DEF Base, Timely, Active
    <3>5. call[c].started \in Nat /\ call[d].started \in Nat /\ now \in Nat
      BY <2>0, CallTypes DEF TypeOK
    <3> QED
      BY <3>2, <3>3, <3>4, <3>5
  <2> QED
    BY <2>1, <2>2, <2>3
<1>2. Base /\ [Next]_vars =>
        [\A c \in Calls : call[c].pc # "inProgress" /\ call'[c].pc = "inProgress" =>
           \E d \in Calls \ {c} :
             call[d].row # NoRow /\ now <= call[d].started + Ttl]_vars
  BY <1>1
<1> QED
  BY <1>2, BaseInvariant, PTL DEF Spec, BusyMeansRecent

(***************************************************************************)
(* When nothing fails and the key has a user: a call that gets to run has  *)
(* inserted the row, and nobody else does before the row is gone.          *)
(***************************************************************************)
Owner(c) == call[c].row # NoRow

Smooth ==
  \A c \in Calls :
    /\ call[c].pc \notin {"rearming", "failing", "threw", "crashed"}
    /\ call[c].pc \in {"running", "storing"} \/ call[c].ran => Owner(c)

\* What the row of an owner says of it.
RowOf(c) ==
  LET r == call[c].row IN
  /\ r \in Rows
  /\ row[r].expiresAt = call[c].started + Ttl
  /\ row[r].status \in {"STARTED", "COMPLETED", "deleted"}
  /\ row[r].status = "STARTED" <=> call[c].pc \in {"running", "storing"}
  /\ row[r].status = "deleted" => row[r].expiresAt < now
RowsOfOwners == \A c \in Calls : Owner(c) => RowOf(c)

OneLive == \A r, q \in Live : r = q

OwnersApart ==
  \A c, d \in Calls :
    c # d /\ Owner(c) /\ Owner(d) =>
      call[c].row # call[d].row /\ (Apart(c, d) \/ Apart(d, c))

\* A call that is about to insert will fail to, or came after the row of the
\* owner was deleted.
InsertersApart ==
  \A c, d \in Calls :
    Owner(c) /\ call[d].pc = "inserting" =>
      \/ Apart(c, d)
      \/ call[c].row \in Live /\ call[d].started <= call[c].started + MaxRun

IInv == /\ Base /\ Smooth /\ RowsOfOwners /\ OneLive
        /\ OwnersApart /\ InsertersApart

LEMMA InitIInv == Init => IInv
<1> SUFFICES ASSUME Init PROVE IInv
  OBVIOUS
<1>1. Base
  BY InitBase
<1>2. Live = {}
  BY DEF Init, Live
<1>3. \A c \in Calls : call[c].pc = "new" /\ ~Owner(c) /\ ~call[c].ran
  BY DEF Init, Owner
<1> QED
  BY <1>1, <1>2, <1>3
  DEF IInv, Smooth, RowsOfOwners, OneLive, OwnersApart, InsertersApart

\* An owner whose row is not live began more than a TTL ago.
LEMMA GoneIsOld ==
  ASSUME IInv, NEW c \in Calls, Owner(c), call[c].row \notin Live
  PROVE  call[c].started + Ttl < now
<1>1. RowOf(c)
  BY DEF IInv, RowsOfOwners
<1> QED
  BY <1>1 DEF RowOf, Live

\* A call that owns no row changes its program point, the rows stay.
LEMMA QuietStep ==
  ASSUME IInv, Base', NEW c \in Calls, ~Owner(c), NEW next \in CallRow,
         next.pc \in {"inserting", "conflict", "inProgress", "returned"},
         next.row = NoRow, next.ran = FALSE,
         next.pc = "inserting" => Live = {} /\ next.started = now,
         call' = [call EXCEPT ![c] = next], UNCHANGED <<row, now>>
  PROVE  IInv'
<1>0. TypeOK
  BY DEF IInv, Base
<1>1. Live' = Live
  BY DEF Live
<1>2. /\ call'[c] = next /\ \A d \in Calls \ {c} : call'[d] = call[d]
  BY <1>0 DEF TypeOK
<1>3. ~call[c].ran
  BY DEF IInv, Smooth
<1>4. ~Owner(c)' /\ \A d \in Calls \ {c} : Owner(d)' <=> Owner(d)
  BY <1>2 DEF Owner
<1>5. Smooth'
  BY <1>2, <1>4 DEF IInv, Smooth
<1>6. RowsOfOwners'
  BY <1>2, <1>4 DEF IInv, RowsOfOwners, RowOf
<1>7. OneLive'
  BY <1>1 DEF IInv, OneLive
<1>8. OwnersApart'
  BY <1>2, <1>4 DEF IInv, OwnersApart, Apart
<1>9. InsertersApart'
  <2> SUFFICES ASSUME NEW e \in Calls, NEW d \in Calls, Owner(e)',
                      call'[d].pc = "inserting"
               PROVE  \/ Apart(e, d)'
                      \/ /\ call'[e].row \in Live
                         /\ call'[d].started <= call'[e].started + MaxRun
    BY <1>1 DEF InsertersApart
  <2>1. e # c /\ Owner(e) /\ call'[e] = call[e]
    BY <1>2, <1>4
  <2>2. CASE d = c
    <3>1. call[e].started + Ttl < now
      BY <2>1, <2>2, <1>2, GoneIsOld
    <3> QED
      BY <2>1, <2>2, <3>1, <1>2 DEF Apart
  <2>3. CASE d # c
    BY <2>1, <2>3, <1>2 DEF IInv, InsertersApart, Apart
  <2> QED
    BY <2>2, <2>3
<1> QED
  BY <1>5, <1>6, <1>7, <1>8, <1>9 DEF IInv

LEMMA BeginIInv ==
  ASSUME IInv, Base', NEW c \in Calls, NEW answer \in Calls \cup {NoCall},
         NEW pc \in {"inserting", "conflict", "inProgress", "returned"},
         pc = "inserting" => Live = {},
         Begin(c, pc, NoRow, answer)
  PROVE  IInv'
<1> DEFINE next == [pc |-> pc, row |-> NoRow, started |-> now,
                    ran |-> FALSE, answer |-> answer]
<1>1. /\ next.pc = pc /\ next.row = NoRow /\ next.started = now
      /\ next.ran = FALSE /\ next.answer = answer
  OBVIOUS
<1>2. next \in CallRow
  BY DEF IInv, Base, TypeOK, CallRow, Active, Finished
<1>3. ~Owner(c) /\ call' = [call EXCEPT ![c] = next] /\ UNCHANGED <<row, now>>
  BY DEF Begin, At, Owner, IInv, Base, NoRowYet
<1> HIDE DEF next
<1> QED
  BY <1>1, <1>2, <1>3, QuietStep

LEMMA InsertIInv ==
  ASSUME IInv, Base', ~UserIsNull, NEW c \in Calls, Insert(c)
  PROVE  IInv'
<1>0. /\ TypeOK /\ call[c].pc = "inserting" /\ Live = {}
      /\ UNCHANGED <<now, faults>>
  BY DEF IInv, Base, Insert, At, CanInsert
<1>1. PICK r \in Rows :
        /\ row[r].status = "absent" /\ Live' = Live \cup {r}
        /\ \A q \in Rows \ {r} : row'[q] = row[q]
        /\ \A d \in Calls \ {c} : call'[d] = call[d]
        /\ row'[r].status = "STARTED"
        /\ row'[r].expiresAt = call[c].started + Ttl
        /\ call'[c].pc = "running" /\ call'[c].row = r
        /\ call'[c].started = call[c].started /\ call'[c].ran = FALSE
  BY <1>0, InsertEffect
<1>2. ~Owner(c) /\ ~call[c].ran
  BY <1>0 DEF IInv, Base, NoRowYet, Owner, Smooth
<1>3. Owner(c)' /\ \A d \in Calls \ {c} : Owner(d)' <=> Owner(d)
  BY <1>1 DEF Owner
<1>4. \A d \in Calls \ {c} :
        Owner(d) => /\ call[d].row \in Rows \ {r}
                    /\ Apart(d, c) /\ call[d].row \notin Live
  BY <1>0, <1>1 DEF IInv, RowsOfOwners, RowOf, InsertersApart
<1>5. Smooth'
  BY <1>1, <1>3 DEF IInv, Smooth
<1>6. RowsOfOwners'
  <2> SUFFICES ASSUME NEW d \in Calls, Owner(d)' PROVE RowOf(d)'
    BY DEF RowsOfOwners
  <2>1. CASE d = c
    BY <1>1, <2>1 DEF RowOf
  <2>2. CASE d # c
    <3>1. RowOf(d) /\ call'[d] = call[d] /\ call[d].row \in Rows \ {r}
      BY <1>1, <1>3, <1>4, <2>2 DEF IInv, RowsOfOwners
    <3>2. row'[call[d].row] = row[call[d].row]
      BY <1>1, <3>1
    <3> QED
      BY <1>0, <3>1, <3>2 DEF RowOf
  <2> QED
    BY <2>1, <2>2
<1>7. OneLive'
  BY <1>0, <1>1 DEF OneLive
<1>8. OwnersApart'
  BY <1>1, <1>3, <1>4 DEF IInv, OwnersApart, Apart
<1>9. InsertersApart'
  <2> SUFFICES ASSUME NEW e \in Calls, NEW d \in Calls, Owner(e)',
                      call'[d].pc = "inserting"
               PROVE  \/ Apart(e, d)'
                      \/ /\ call'[e].row \in Live'
                         /\ call'[d].started <= call'[e].started + MaxRun
    BY DEF InsertersApart
  <2>1. d # c /\ call'[d] = call[d]
    BY <1>1
  <2>2. CASE e = c
    <3>1. call[d].started <= now /\ now <= call[c].started + MaxRun
      BY <1>0 DEF IInv, Base, Timely, Active
    <3>2. /\ call[d].started \in Nat /\ call[c].started \in Nat /\ now \in Nat
      BY <1>0, CallTypes DEF TypeOK
    <3> QED
      BY <1>1, <2>1, <2>2, <3>1, <3>2
  <2>3. CASE e # c
    BY <1>1, <1>3, <1>4, <2>1, <2>3 DEF IInv, InsertersApart, Apart
  <2> QED
    BY <2>2, <2>3
<1> QED
  BY <1>5, <1>6, <1>7, <1>8, <1>9 DEF IInv

LEMMA RunIInv ==
  ASSUME IInv, Base', NEW c \in Calls, Run(c)
  PROVE  IInv'
<1> DEFINE next == [pc |-> "storing", row |-> call[c].row,
             started |-> call[c].started, ran |-> TRUE, answer |-> c]
<1>0. TypeOK /\ call[c].pc = "running" /\ UNCHANGED <<row, now>>
      /\ call' = [call EXCEPT ![c] = next]
  BY DEF IInv, Base, Run, At
<1>1. /\ next.pc = "storing" /\ next.row = call[c].row /\ next.ran = TRUE
      /\ next.started = call[c].started /\ next.answer = c
  OBVIOUS
<1> HIDE DEF next
<1>2. /\ call'[c] = next /\ \A d \in Calls \ {c} : call'[d] = call[d]
  BY <1>0 DEF TypeOK
<1>3. Live' = Live
  BY <1>0 DEF Live
<1>4. /\ \A d \in Calls : /\ call'[d].row = call[d].row
                          /\ call'[d].started = call[d].started
                          /\ Owner(d)' <=> Owner(d)
  BY <1>1, <1>2 DEF Owner
<1>5. Smooth'
  BY <1>0, <1>1, <1>2, <1>4 DEF IInv, Smooth
<1>6. RowsOfOwners'
  BY <1>0, <1>1, <1>2, <1>4 DEF IInv, RowsOfOwners, RowOf
<1>7. OneLive'
  BY <1>3 DEF IInv, OneLive
<1>8. OwnersApart'
  BY <1>4 DEF IInv, OwnersApart, Apart
<1>9. InsertersApart'
  BY <1>1, <1>2, <1>3, <1>4 DEF IInv, InsertersApart, Apart
<1> QED
  BY <1>5, <1>6, <1>7, <1>8, <1>9 DEF IInv

LEMMA StoreIInv ==
  ASSUME IInv, Base', NEW c \in Calls, Store(c)
  PROVE  IInv'
<1> DEFINE next == [pc |-> "returned", row |-> call[c].row,
             started |-> call[c].started, ran |-> call[c].ran,
             answer |-> call[c].answer]
<1>0. /\ TypeOK /\ call[c].pc = "storing" /\ now' = now
      /\ SetAll("COMPLETED", c) /\ call' = [call EXCEPT ![c] = next]
  BY DEF IInv, Base, Store, At, Goto
<1>1. /\ next.pc = "returned" /\ next.row = call[c].row
      /\ next.ran = call[c].ran /\ next.started = call[c].started
      /\ next.answer = call[c].answer
  OBVIOUS
<1> HIDE DEF next
<1>2. /\ call'[c] = next /\ \A d \in Calls \ {c} : call'[d] = call[d]
  BY <1>0 DEF TypeOK
<1>3. /\ Live' = Live
      /\ \A r \in Rows : /\ row'[r].expiresAt = row[r].expiresAt
                         /\ row'[r].hash = row[r].hash
      /\ \A r \in Rows \ Live : row'[r] = row[r]
      /\ \A r \in Live : row'[r].status = "COMPLETED" /\ row'[r].response = c
  BY <1>0, SetAllEffect
<1>4. /\ \A d \in Calls : /\ call'[d].row = call[d].row
                          /\ call'[d].started = call[d].started
                          /\ call'[d].ran = call[d].ran
                          /\ call'[d].answer = call[d].answer
                          /\ Owner(d)' <=> Owner(d)
  BY <1>1, <1>2 DEF Owner
<1>5. Owner(c) /\ RowOf(c) /\ call[c].row \in Live
  BY <1>0 DEF IInv, Smooth, RowsOfOwners, RowOf, Live
<1>6. Smooth'
  BY <1>0, <1>1, <1>2, <1>4 DEF IInv, Smooth
<1>7. RowsOfOwners'
  <2> SUFFICES ASSUME NEW d \in Calls, Owner(d) PROVE RowOf(d)'
    BY <1>4 DEF RowsOfOwners
  <2>1. CASE d = c
    BY <1>0, <1>1, <1>2, <1>3, <1>5, <2>1 DEF RowOf
  <2>2. CASE d # c
    <3>1. RowOf(d) /\ call[d].row # call[c].row
      BY <1>5, <2>2 DEF IInv, RowsOfOwners, OwnersApart
    <3>2. call[d].row \notin Live
      BY <1>5, <3>1 DEF IInv, OneLive
    <3>3. row'[call[d].row] = row[call[d].row]
      BY <1>3, <3>1, <3>2 DEF RowOf
    <3> QED
      BY <1>0, <1>2, <2>2, <3>1, <3>3 DEF RowOf
  <2> QED
    BY <2>1, <2>2
<1>8. OneLive'
  BY <1>3 DEF IInv, OneLive
<1>9. OwnersApart'
  BY <1>4 DEF IInv, OwnersApart, Apart
<1>10. InsertersApart'
  BY <1>1, <1>2, <1>3, <1>4 DEF IInv, InsertersApart, Apart
<1> QED
  BY <1>6, <1>7, <1>8, <1>9, <1>10 DEF IInv

\* The clean-up, the clock and steps that change nothing: calls stay.
LEMMA StillIInv ==
  ASSUME IInv, Base', call' = call, row' \in [Rows -> Record],
         now' \in {now, now + 1}, Live' \subseteq Live,
         \A r \in Live' : row'[r] = row[r],
         \A r \in Rows : /\ row'[r].expiresAt = row[r].expiresAt
                        /\ row'[r].hash = row[r].hash,
         \A r \in Live \ Live' : row[r].expiresAt < now
                               /\ row'[r].status = "deleted",
         \A r \in Rows \ Live : row'[r] = row[r]
  PROVE  IInv'
<1>0. TypeOK /\ now \in Nat
  BY DEF IInv, Base, TypeOK
<1>1. \A c \in Calls : Owner(c)' <=> Owner(c)
  BY DEF Owner
<1>2. Smooth'
  BY <1>1 DEF IInv, Smooth
<1>3. RowsOfOwners'
  <2> SUFFICES ASSUME NEW c \in Calls, Owner(c) PROVE RowOf(c)'
    BY <1>1 DEF RowsOfOwners
  <2> DEFINE r == call[c].row
  <2>1. RowOf(c) /\ r \in Rows
    BY DEF IInv, RowsOfOwners, RowOf
  <2>2. call[c].started \in Nat
    BY <1>0, CallTypes
  <2>3. CASE r \in Live \ Live'
    <3>1. row[r].status # "STARTED"
      <4>1. call[c].pc \in {"running", "storing"} => now <= call[c].started + Ttl
        BY <1>0, <2>2 DEF IInv, Base, Timely, Active, Owning
      <4>2. row[r].expiresAt < now /\ row[r].expiresAt = call[c].started + Ttl
        BY <2>1, <2>3 DEF RowOf
      <4> QED
        BY <1>0, <2>1, <2>2, <4>1, <4>2 DEF RowOf
    <3> QED
      BY <1>0, <2>1, <2>2, <2>3, <3>1 DEF RowOf
  <2>4. CASE r \notin Live \ Live'
    <3>1. row'[r] = row[r]
      BY <2>1, <2>4
    <3> QED
      BY <1>0, <2>1, <2>2, <3>1 DEF RowOf
  <2> QED
    BY <2>3, <2>4
<1>4. OneLive'
  BY DEF IInv, OneLive
<1>5. OwnersApart'
  BY <1>1 DEF IInv, OwnersApart, Apart
<1>6. InsertersApart'
  <2> SUFFICES ASSUME NEW c \in Calls, NEW d \in Calls, Owner(c),
                      call[d].pc = "inserting", ~Apart(c, d)
               PROVE  call[c].row \in Live'
                      /\ call[d].started <= call[c].started + MaxRun
    BY <1>1 DEF InsertersApart, Apart
  <2>1. call[c].row \in Live /\ call[d].started <= call[c].started + MaxRun
    BY DEF IInv, InsertersApart
  <2>2. /\ call[c].started \in Nat /\ call[d].started \in Nat
        /\ now <= call[d].started + MaxRun
    BY <1>0, CallTypes DEF IInv, Base, Timely, Active
  <2>3. now <= call[c].started + Ttl
    BY <1>0, <2>1, <2>2
  <2>4. ~(row[call[c].row].expiresAt < now)
    BY <1>0, <2>2, <2>3 DEF IInv, RowsOfOwners, RowOf
  <2> QED
    BY <2>1, <2>4
<1> QED
  BY <1>2, <1>3, <1>4, <1>5, <1>6 DEF IInv

\* A failure is never forgotten.
LEMMA FaultsGrow ==
  ASSUME TypeOK, [Next]_vars, Smoothly'
  PROVE  Smoothly /\ faults' = faults
<1>1. ASSUME NEW f \in Kinds, Fault(f) PROVE FALSE
  <2>1. faults'[f] = faults[f] + 1 /\ faults[f] \in Nat
    BY <1>1 DEF Fault, TypeOK
  <2> QED
    BY <2>1 DEF Smoothly
<1>2. faults' = faults
  BY <1>1 DEF Next, Step, vars, Kinds, FindNothing, Find, RefusePayload,
     ReturnCached, RefuseInProgress, TakeOver, Begin, Rearm, RearmGone, Insert,
     RefuseDuplicate, Run, RunFails, Store, StoreFails, MarkFailed, MarkFails,
     Crash, Cleanup, Tick
<1> QED
  BY <1>2 DEF Smoothly

LEMMA NextIInv ==
  ASSUME ~UserIsNull, IInv, [Next]_vars, faults' = faults
  PROVE  IInv'
<1>0. Base' /\ TypeOK
  BY NextBase DEF IInv, Base
<1>1. ASSUME NEW c \in Calls, FindNothing(c) PROVE IInv'
  BY <1>0, <1>1, BeginIInv DEF FindNothing
<1>2. ASSUME NEW c \in Calls, NEW r \in Rows, Find(c, r) PROVE IInv'
  <2>1. /\ r \in Live /\ row[r].response \in Calls \cup {NoCall}
        /\ row[r].expiresAt \in Nat /\ now \in Nat
    BY <1>0, <1>2, RowTypes DEF Find, TypeOK
  <2>2. PICK d \in Calls : call[d].row = r
                           /\ row[r].expiresAt = call[d].started + Ttl
    BY <2>1 DEF IInv, Base, RowHasCaller
  <2>3. Owner(d) /\ RowOf(d)
    BY <2>2 DEF IInv, RowsOfOwners, Owner
  <2>4. CASE RefusePayload(c, r)
    BY <1>0, <2>4, BeginIInv DEF RefusePayload
  <2>5. CASE ReturnCached(c, r)
    BY <1>0, <2>1, <2>5, BeginIInv DEF ReturnCached
  <2>6. CASE RefuseInProgress(c, r)
    BY <1>0, <2>6, BeginIInv DEF RefuseInProgress
  <2>7. CASE TakeOver(c, r)
    <3>1. row[r].status = "STARTED" /\ row[r].expiresAt < now
      BY <2>2, <2>3, <2>7 DEF TakeOver, RowOf, Stale
    <3>2. now <= call[d].started + MaxRun
      BY <2>2, <2>3, <3>1 DEF RowOf, IInv, Base, Timely, Active, Owning
    <3>3. call[d].started \in Nat
      BY <1>0, CallTypes
    <3> QED
      BY <2>1, <2>2, <3>1, <3>2, <3>3
  <2> QED
    BY <1>2, <2>4, <2>5, <2>6, <2>7 DEF Find
<1>3. ASSUME NEW c \in Calls, Insert(c) PROVE IInv'
  BY <1>0, <1>3, InsertIInv
<1>4. ASSUME NEW c \in Calls, RefuseDuplicate(c) PROVE IInv'
  <2> DEFINE next == [pc |-> "inProgress", row |-> call[c].row,
               started |-> call[c].started, ran |-> call[c].ran,
               answer |-> call[c].answer]
  <2>1. call[c].pc = "inserting" /\ UNCHANGED <<row, now>>
        /\ call' = [call EXCEPT ![c] = next]
    BY <1>4 DEF RefuseDuplicate, At, Goto
  <2>2. ~Owner(c) /\ call[c].ran = FALSE /\ call[c].row = NoRow
    BY <1>0, <2>1, CallTypes DEF IInv, Base, NoRowYet, Smooth, Owner
  <2>3. next \in CallRow
    BY <1>0, CallTypes DEF CallRow, Finished
  <2>4. next.pc = "inProgress" /\ next.row = NoRow /\ next.ran = FALSE
    BY <2>2
  <2> HIDE DEF next
  <2> QED
    BY <1>0, <2>1, <2>2, <2>3, <2>4, QuietStep
<1>5. ASSUME NEW c \in Calls, Run(c) PROVE IInv'
  BY <1>0, <1>5, RunIInv
<1>6. ASSUME NEW c \in Calls, Store(c) PROVE IInv'
  BY <1>0, <1>6, StoreIInv
<1>7. ASSUME NEW c \in Calls,
             Rearm(c) \/ RearmGone(c) \/ RunFails(c) \/ StoreFails(c)
               \/ MarkFailed(c) \/ MarkFails(c) \/ Crash(c)
      PROVE  FALSE
  <2>1. ASSUME NEW f \in Kinds, Fault(f) PROVE FALSE
    <3>1. faults'[f] = faults[f] + 1 /\ faults[f] \in Nat
      BY <1>0, <2>1 DEF Fault, TypeOK
    <3> QED
      BY <3>1
  <2> QED
    BY <1>7, <2>1 DEF Rearm, RearmGone, RunFails, StoreFails, MarkFailed, MarkFails, Crash,
                      Kinds, At, IInv, Smooth
<1>8. ASSUME Cleanup PROVE IInv'
  <2>1. call' = call /\ now' = now
    BY <1>8 DEF Cleanup
  <2> QED
    BY <1>0, <1>8, <2>1, CleanupEffect, StillIInv
<1>9. CASE Tick \/ UNCHANGED vars
  <2>1. /\ call' = call /\ row' = row /\ now' \in {now, now + 1}
    BY <1>9 DEF Tick, vars
  <2>2. Live' = Live
    BY <2>1 DEF Live
  <2> QED
    BY <1>0, <2>1, <2>2, StillIInv DEF TypeOK
<1> QED
  BY <1>1, <1>2, <1>3, <1>4, <1>5, <1>6, <1>7, <1>8, <1>9 DEF Next, Step

\* What holds whatever fails, and what holds until something does.
Safe == Base /\ (Smoothly => IInv)

LEMMA SmoothInvariant == ASSUME ~UserIsNull PROVE Spec => []Safe
<1>1. Init => Safe
  BY InitIInv DEF Safe, IInv
<1>2. Safe /\ [Next]_vars => Safe'
  <2> SUFFICES ASSUME Safe, [Next]_vars PROVE Safe'
    OBVIOUS
  <2>1. Base' /\ TypeOK
    BY NextBase DEF Safe, Base
  <2>2. ASSUME Smoothly' PROVE IInv'
    BY <2>1, <2>2, FaultsGrow, NextIInv DEF Safe
  <2> QED
    BY <2>1, <2>2 DEF Safe
<1> QED
  BY <1>1, <1>2, PTL DEF Spec

\* OncePerTtl: until something fails, and with a user, overlapping calls of a
\* key and the clean-up let the operation run once in a TTL.
THEOREM OnceUntilFailure == ASSUME ~UserIsNull PROVE Spec => []OncePerTtl
<1>1. Safe => OncePerTtl
  BY DEF Safe, IInv, Smooth, OwnersApart, OncePerTtl, RunsApart
<1> QED
  BY <1>1, SmoothInvariant, PTL

(***************************************************************************)
(* Whatever fails, with a user: a call that holds a row wrote its own hash *)
(* there or found it there, and no such row goes while the call is about   *)
(* the operation.                                                          *)
(***************************************************************************)
Holds(c) ==
  LET r == call[c].row IN
  /\ call[c].pc \in {"rearming"} \cup Owning /\ r # NoRow =>
       row[r].status # "absent" /\ row[r].hash = Hash(c)
  /\ call[c].pc \in Owning /\ r # NoRow =>
       r \in Live /\ call[c].started + MaxRun <= row[r].expiresAt

GoodAnswer(a, hash) ==
  /\ a \in Calls /\ call[a].ran
  /\ Hash(a) = hash \/ call[a].row = NoRow

Answered(c) ==
  /\ call[c].pc \in {"new", "inserting", "rearming", "running"} => ~call[c].ran
  /\ call[c].pc = "storing" => call[c].ran /\ call[c].answer = c
  /\ call[c].pc = "returned" => GoodAnswer(call[c].answer, Hash(c))

Cached(r) ==
  row[r].status = "COMPLETED" => GoodAnswer(row[r].response, row[r].hash)

AInv ==
  /\ Base /\ OneLive
  /\ \A c \in Calls : Holds(c) /\ Answered(c)
  /\ \A r \in Live : Cached(r)

LEMMA InitAInv == Init => AInv
<1> SUFFICES ASSUME Init PROVE AInv
  OBVIOUS
<1>1. Base
  BY InitBase
<1>2. Live = {}
  BY DEF Init, Live
<1>3. \A c \in Calls : call[c].pc = "new" /\ ~call[c].ran
  BY DEF Init
<1> QED
  BY <1>1, <1>2, <1>3 DEF AInv, OneLive, Holds, Answered, Owning

\* A step of one call: what the others have stays, and so do the answers.
LEMMA CallAInv ==
  ASSUME AInv, Base', OneLive', NEW c \in Calls, NEW next \in CallRow,
         call' = [call EXCEPT ![c] = next],
         call[c].ran => next.ran /\ next.row = call[c].row,
         Holds(c)', Answered(c)',
         \A r \in Rows : row[r].status # "absent" =>
           row'[r].status # "absent" /\ row'[r].hash = row[r].hash,
         \A d \in Calls \ {c} : call[d].pc \in Owning /\ call[d].row # NoRow =>
           /\ call[d].row \in Live'
           /\ call[d].started + MaxRun <= row'[call[d].row].expiresAt,
         \A r \in Live' : row'[r].status = "COMPLETED" =>
           \/ r \in Live /\ row[r].status = "COMPLETED"
              /\ row'[r].response = row[r].response /\ row'[r].hash = row[r].hash
           \/ GoodAnswer(row[r].response, row[r].hash)'
  PROVE  AInv'
<1>0. TypeOK
  BY DEF AInv, Base
<1>1. call'[c] = next /\ \A d \in Calls \ {c} : call'[d] = call[d]
  BY <1>0 DEF TypeOK
<1>2. ASSUME NEW a, NEW h, GoodAnswer(a, h)
      PROVE  /\ a \in Calls /\ call'[a].ran
             /\ Hash(a) = h \/ call'[a].row = NoRow
  BY <1>1, <1>2 DEF GoodAnswer
<1>3. ASSUME NEW d \in Calls PROVE Holds(d)' /\ Answered(d)'
  <2>1. CASE d = c
    BY <2>1
  <2>2. CASE d # c
    <3>1. call'[d] = call[d] /\ Holds(d) /\ Answered(d)
      BY <1>1, <2>2 DEF AInv
    <3>2. call[d].row # NoRow => call[d].row \in Rows
      BY <1>0, CallTypes
    <3>3. Holds(d)'
      BY <2>2, <3>1, <3>2 DEF Holds
    <3>4. call[d].pc = "returned" => GoodAnswer(call[d].answer, Hash(d))'
      BY <1>2, <3>1 DEF Answered, GoodAnswer
    <3>5. Answered(d)'
      BY <3>1, <3>4 DEF Answered
    <3> QED
      BY <3>3, <3>5
  <2> QED
    BY <2>1, <2>2
<1>4. ASSUME NEW r \in Live', row'[r].status = "COMPLETED"
      PROVE  GoodAnswer(row[r].response, row[r].hash)'
  <2>1. CASE r \in Live /\ row[r].status = "COMPLETED"
             /\ row'[r].response = row[r].response /\ row'[r].hash = row[r].hash
    <3>1. GoodAnswer(row[r].response, row[r].hash)
      BY <2>1 DEF AInv, Cached
    <3> QED
      BY <1>2, <2>1, <3>1 DEF GoodAnswer
  <2> QED
    BY <1>4, <2>1
<1> QED
  BY <1>3, <1>4 DEF AInv, Cached

\* The rows stay.
LEMMA CallOnlyAInv ==
  ASSUME AInv, Base', NEW c \in Calls, NEW next \in CallRow,
         call' = [call EXCEPT ![c] = next],
         call[c].ran => next.ran /\ next.row = call[c].row,
         Holds(c)', Answered(c)', row' = row
  PROVE  AInv'
<1>1. Live' = Live
  BY DEF Live
<1>2. OneLive'
  BY <1>1 DEF AInv, OneLive
<1>3. \A d \in Calls \ {c} : call[d].pc \in Owning /\ call[d].row # NoRow =>
        /\ call[d].row \in Live'
        /\ call[d].started + MaxRun <= row'[call[d].row].expiresAt
  BY <1>1 DEF AInv, Holds
<1> QED
  BY <1>1, <1>2, <1>3, CallAInv

LEMMA BeginAInv ==
  ASSUME AInv, Base', NEW c \in Calls, NEW pc \in Pcs \ {"new"}, pc \notin Owning,
         NEW r \in Rows \cup {NoRow}, NEW answer \in Calls \cup {NoCall},
         pc = "rearming" => r \in Live /\ row[r].hash = Hash(c),
         pc = "returned" => GoodAnswer(answer, Hash(c)),
         Begin(c, pc, r, answer)
  PROVE  AInv'
<1> DEFINE next == [pc |-> pc, row |-> r, started |-> now,
                    ran |-> FALSE, answer |-> answer]
<1>0. TypeOK
  BY DEF AInv, Base
<1>1. /\ call' = [call EXCEPT ![c] = next] /\ call[c].pc = "new" /\ row' = row
  BY DEF Begin, At
<1>2. next \in CallRow
  BY <1>0 DEF TypeOK, CallRow, Pcs
<1>3. next.pc = pc /\ next.row = r /\ next.ran = FALSE /\ next.answer = answer
  OBVIOUS
<1> HIDE DEF next
<1>4. call'[c] = next /\ \A d \in Calls \ {c} : call'[d] = call[d]
  BY <1>0, <1>1 DEF TypeOK
<1>5. ~call[c].ran
  BY <1>1 DEF AInv, Answered
<1>6. Holds(c)'
  BY <1>1, <1>3, <1>4 DEF Holds, Live
<1>7. pc = "returned" => GoodAnswer(answer, Hash(c))'
  BY <1>4, <1>5 DEF GoodAnswer
<1>8. Answered(c)'
  BY <1>3, <1>4, <1>7 DEF Answered, GoodAnswer, Owning
<1> QED
  BY <1>1, <1>2, <1>5, <1>6, <1>8, CallOnlyAInv

\* Who else holds the row began at most MaxRun after the call that re-arms it
\* ends, which is sooner than the row expires.
LEMMA RearmAInv ==
  ASSUME AInv, Base', NEW c \in Calls, Rearm(c)
  PROVE  AInv'
<1> DEFINE r == call[c].row
           next == [pc |-> "running", row |-> r, started |-> call[c].started,
                    ran |-> call[c].ran, answer |-> call[c].answer]
           new == [status |-> "STARTED", hash |-> row[r].hash,
                   response |-> row[r].response, expiresAt |-> ExpiresAt(c)]
<1>0. TypeOK
  BY DEF AInv, Base
<1>1. /\ call[c].pc = "rearming" /\ call' = [call EXCEPT ![c] = next]
      /\ row' = [row EXCEPT ![r] = new] /\ r \in Live /\ r \in Rows
  BY DEF Rearm, At, Goto, Live
<1>2. next \in CallRow
  BY <1>0, CallTypes DEF CallRow, Active, Owning
<1>3. /\ next.pc = "running" /\ next.row = r /\ next.started = call[c].started
      /\ next.ran = call[c].ran /\ new.status = "STARTED"
      /\ new.hash = row[r].hash /\ new.expiresAt = call[c].started + Ttl
  BY DEF ExpiresAt
<1> HIDE DEF next, new
<1>4. /\ call'[c] = next /\ row'[r] = new
      /\ \A q \in Rows \ {r} : row'[q] = row[q]
  BY <1>0, <1>1 DEF TypeOK
<1>5. Live' = Live
  BY <1>1, <1>3, <1>4 DEF Live
<1>6. OneLive'
  BY <1>5 DEF AInv, OneLive
<1>7. r # NoRow /\ row[r].hash = Hash(c) /\ ~call[c].ran
  BY <1>1 DEF AInv, Holds, Answered
<1>8. \A d \in Calls : call[d].started <= now /\ call[d].started \in Nat
  BY <1>0, CallTypes DEF AInv, Base, Timely
<1>9. now <= call[c].started + MaxRun /\ now \in Nat
  BY <1>0, <1>1 DEF AInv, Base, Timely, Active, TypeOK
<1>10. \A d \in Calls : call[d].started + MaxRun <= call[c].started + Ttl
  BY <1>8, <1>9
<1> HIDE DEF r
<1>11. Holds(c)'
  BY <1>1, <1>3, <1>4, <1>5, <1>7, <1>10 DEF Holds
<1>12. Answered(c)'
  BY <1>3, <1>4, <1>7 DEF Answered
<1>13. ASSUME NEW d \in Calls \ {c}, call[d].pc \in Owning, call[d].row # NoRow
       PROVE  /\ call[d].row \in Live'
              /\ call[d].started + MaxRun <= row'[call[d].row].expiresAt
  <2>1. call[d].row \in Live
        /\ call[d].started + MaxRun <= row[call[d].row].expiresAt
    BY <1>13 DEF AInv, Holds
  <2>2. call[d].row = r
    BY <1>1, <2>1 DEF AInv, OneLive
  <2> QED
    BY <1>3, <1>4, <1>5, <1>10, <2>1, <2>2
<1>14. \A q \in Rows : row[q].status # "absent" =>
         row'[q].status # "absent" /\ row'[q].hash = row[q].hash
  BY <1>3, <1>4
<1>15. \A q \in Live' : row'[q].status = "COMPLETED" =>
         q \in Live /\ row[q].status = "COMPLETED"
           /\ row'[q].response = row[q].response /\ row'[q].hash = row[q].hash
  BY <1>3, <1>4, <1>5 DEF Live
<1> QED
  BY <1>1, <1>2, <1>6, <1>7, <1>11, <1>12, <1>13, <1>14, <1>15, CallAInv

LEMMA RearmGoneAInv ==
  ASSUME AInv, Base', NEW c \in Calls, RearmGone(c)
  PROVE  AInv'
<1> DEFINE next == [pc |-> "running", row |-> NoRow, started |-> call[c].started,
                    ran |-> FALSE, answer |-> NoCall]
<1>0. TypeOK
  BY DEF AInv, Base
<1>1. /\ call[c].pc = "rearming" /\ call' = [call EXCEPT ![c] = next] /\ row' = row
  BY DEF RearmGone, At
<1>2. next \in CallRow
  BY <1>0, CallTypes DEF CallRow, Active, Owning
<1>3. next.pc = "running" /\ next.row = NoRow /\ next.ran = FALSE
  OBVIOUS
<1> HIDE DEF next
<1>4. call'[c] = next
  BY <1>0, <1>1 DEF TypeOK
<1>5. ~call[c].ran
  BY <1>1 DEF AInv, Answered
<1>6. Holds(c)' /\ Answered(c)'
  BY <1>3, <1>4 DEF Holds, Answered
<1> QED
  BY <1>1, <1>2, <1>5, <1>6, CallOnlyAInv

LEMMA InsertAInv ==
  ASSUME AInv, Base', ~UserIsNull, NEW c \in Calls, Insert(c)
  PROVE  AInv'
<1>0. TypeOK /\ call[c].pc = "inserting" /\ Live = {}
  BY DEF AInv, Base, Insert, At, CanInsert
<1>1. PICK r \in Rows :
        /\ row[r].status = "absent" /\ Live' = Live \cup {r}
        /\ call' \in [Calls -> CallRow]
        /\ \A q \in Rows \ {r} : row'[q] = row[q]
        /\ \A d \in Calls \ {c} : call'[d] = call[d]
        /\ row'[r].status = "STARTED" /\ row'[r].hash = Hash(c)
        /\ row'[r].expiresAt = call[c].started + Ttl
        /\ call'[c].pc = "running" /\ call'[c].row = r
        /\ call'[c].started = call[c].started /\ call'[c].ran = FALSE
  BY <1>0, InsertEffect
<1>2. PICK next \in CallRow : next = call'[c]
  BY <1>1
<1>3. call' = [call EXCEPT ![c] = next]
  BY <1>0, <1>1, <1>2 DEF TypeOK
<1>4. OneLive' /\ ~call[c].ran
  BY <1>0, <1>1 DEF OneLive, AInv, Answered
<1>5. call[c].started \in Nat
  BY <1>0, CallTypes
<1>6. call[c].started + MaxRun <= call[c].started + Ttl
  BY <1>5
<1>7. Holds(c)' /\ Answered(c)'
  BY <1>1, <1>6 DEF Holds, Answered
<1>8. \A d \in Calls : ~(call[d].pc \in Owning /\ call[d].row # NoRow)
  BY <1>0 DEF AInv, Holds
<1>9. \A q \in Rows : row[q].status # "absent" =>
        row'[q].status # "absent" /\ row'[q].hash = row[q].hash
  BY <1>1
<1>10. \A q \in Live' : row'[q].status # "COMPLETED"
  BY <1>0, <1>1
<1> QED
  BY <1>2, <1>3, <1>4, <1>7, <1>8, <1>9, <1>10, CallAInv

LEMMA RunAInv ==
  ASSUME AInv, Base', NEW c \in Calls, Run(c)
  PROVE  AInv'
<1> DEFINE next == [pc |-> "storing", row |-> call[c].row,
             started |-> call[c].started, ran |-> TRUE, answer |-> c]
<1>0. TypeOK
  BY DEF AInv, Base
<1>1. /\ call[c].pc = "running" /\ call' = [call EXCEPT ![c] = next] /\ row' = row
  BY DEF Run, At
<1>2. next \in CallRow
  BY <1>0, CallTypes DEF CallRow, Active, Owning
<1>3. /\ next.pc = "storing" /\ next.row = call[c].row /\ next.ran = TRUE
      /\ next.started = call[c].started /\ next.answer = c
  OBVIOUS
<1> HIDE DEF next
<1>4. call'[c] = next /\ Live' = Live
  BY <1>0, <1>1 DEF TypeOK, Live
<1>5. Holds(c)'
  BY <1>1, <1>3, <1>4 DEF AInv, Holds, Owning
<1>6. Answered(c)'
  BY <1>3, <1>4 DEF Answered
<1> QED
  BY <1>1, <1>2, <1>3, <1>5, <1>6, CallOnlyAInv

\* The one live row gets the answer: it has the hash of the call, or the call
\* has no row.
LEMMA StoreAInv ==
  ASSUME AInv, Base', NEW c \in Calls, Store(c)
  PROVE  AInv'
<1> DEFINE next == [pc |-> "returned", row |-> call[c].row,
             started |-> call[c].started, ran |-> call[c].ran,
             answer |-> call[c].answer]
<1>0. TypeOK
  BY DEF AInv, Base
<1>1. /\ call[c].pc = "storing" /\ SetAll("COMPLETED", c)
      /\ call' = [call EXCEPT ![c] = next]
  BY DEF Store, At, Goto
<1>2. next \in CallRow
  BY <1>0, CallTypes DEF CallRow, Finished
<1>3. /\ next.pc = "returned" /\ next.row = call[c].row
      /\ next.ran = call[c].ran /\ next.answer = call[c].answer
  OBVIOUS
<1> HIDE DEF next
<1>4. call'[c] = next
  BY <1>0, <1>1 DEF TypeOK
<1>5. /\ Live' = Live
      /\ \A r \in Rows : /\ row'[r].expiresAt = row[r].expiresAt
                         /\ row'[r].hash = row[r].hash
      /\ \A r \in Rows \ Live : row'[r] = row[r]
      /\ \A r \in Live : row'[r].status = "COMPLETED" /\ row'[r].response = c
  BY <1>0, <1>1, SetAllEffect
<1>6. call[c].ran /\ call[c].answer = c
  BY <1>1 DEF AInv, Answered
<1>7. OneLive'
  BY <1>5 DEF AInv, OneLive
<1>8. Holds(c)'
  BY <1>3, <1>4 DEF Holds, Owning
<1>9. Answered(c)'
  BY <1>3, <1>4, <1>6 DEF Answered, GoodAnswer
<1>10. \A r \in Rows : row[r].status # "absent" =>
         row'[r].status # "absent" /\ row'[r].hash = row[r].hash
  BY <1>5
<1>11. ASSUME NEW d \in Calls \ {c}, call[d].pc \in Owning, call[d].row # NoRow
       PROVE  /\ call[d].row \in Live'
              /\ call[d].started + MaxRun <= row'[call[d].row].expiresAt
  <2>1. /\ call[d].row \in Live /\ call[d].row \in Rows
        /\ call[d].started + MaxRun <= row[call[d].row].expiresAt
    BY <1>11 DEF AInv, Holds, Live
  <2> QED
    BY <1>5, <2>1
<1>12. ASSUME NEW r \in Live
       PROVE  GoodAnswer(row[r].response, row[r].hash)'
  <2>1. r \in Rows /\ row'[r].response = c /\ row'[r].hash = row[r].hash
    BY <1>5 DEF Live
  <2>2. call[c].row = NoRow \/ row[r].hash = Hash(c)
    BY <1>1 DEF AInv, Holds, OneLive, Owning
  <2> QED
    BY <1>3, <1>4, <1>6, <2>1, <2>2 DEF GoodAnswer
<1> QED
  BY <1>1, <1>2, <1>3, <1>5, <1>7, <1>8, <1>9, <1>10, <1>11, <1>12, CallAInv

\* A call goes on without an answer; no row is completed.
LEMMA GotoAInv ==
  ASSUME AInv, Base', NEW c \in Calls,
         NEW pc \in {"inProgress", "failing", "threw", "crashed"},
         pc = "failing" => call[c].pc \in Owning,
         Goto(c, pc), row' = row \/ SetAll("FAILED", NoCall)
  PROVE  AInv'
<1> DEFINE next == [pc |-> pc, row |-> call[c].row,
             started |-> call[c].started, ran |-> call[c].ran,
             answer |-> call[c].answer]
<1>0. TypeOK
  BY DEF AInv, Base
<1>1. next \in CallRow
  BY <1>0, CallTypes DEF CallRow, Active, Owning, Finished
<1>2. /\ next.pc = pc /\ next.row = call[c].row
      /\ next.started = call[c].started /\ next.ran = call[c].ran
  OBVIOUS
<1>3. call' = [call EXCEPT ![c] = next]
  BY DEF Goto
<1> HIDE DEF next
<1>4. call'[c] = next
  BY <1>0, <1>3 DEF TypeOK
<1>5. /\ Live' = Live
      /\ \A r \in Rows : /\ row'[r].expiresAt = row[r].expiresAt
                         /\ row'[r].hash = row[r].hash
      /\ \A r \in Rows \ Live : row'[r] = row[r]
      /\ \A r \in Live : row'[r] = row[r] \/ row'[r].status = "FAILED"
  <2>1. CASE row' = row
    BY <2>1 DEF Live
  <2>2. CASE SetAll("FAILED", NoCall)
    BY <1>0, <2>2, SetAllEffect
  <2> QED
    BY <2>1, <2>2
<1>6. OneLive' /\ Live \subseteq Rows
  BY <1>5 DEF AInv, OneLive, Live
<1>7. \A r \in Rows : row[r].status # "absent" =>
        row'[r].status # "absent" /\ row'[r].hash = row[r].hash
  BY <1>5
<1>8. ASSUME NEW d \in Calls, call[d].pc \in Owning, call[d].row # NoRow
      PROVE  /\ call[d].row \in Live'
             /\ call[d].started + MaxRun <= row'[call[d].row].expiresAt
  BY <1>5, <1>6, <1>8 DEF AInv, Holds
<1>9. Answered(c)'
  BY <1>2, <1>4 DEF Answered
<1>10. Holds(c)'
  <2>1. CASE pc # "failing"
    BY <1>2, <1>4, <2>1 DEF Holds, Owning
  <2>2. CASE pc = "failing" /\ call[c].row = NoRow
    BY <1>2, <1>4, <2>2 DEF Holds
  <2>3. CASE pc = "failing" /\ call[c].row # NoRow
    <3>1. call[c].row \in Rows /\ row[call[c].row].status # "absent"
          /\ row[call[c].row].hash = Hash(c)
      BY <1>0, <2>3, CallTypes DEF AInv, Holds
    <3> QED
      BY <1>2, <1>4, <1>7, <1>8, <2>3, <3>1 DEF Holds
  <2> QED
    BY <2>1, <2>2, <2>3
<1>11. \A r \in Live' : row'[r].status = "COMPLETED" =>
         r \in Live /\ row[r].status = "COMPLETED"
           /\ row'[r].response = row[r].response /\ row'[r].hash = row[r].hash
  BY <1>5
<1> QED
  BY <1>1, <1>2, <1>3, <1>6, <1>7, <1>8, <1>9, <1>10, <1>11, CallAInv

\* The clean-up and the clock: no row goes that a call with work to do holds.
LEMMA StillAInv ==
  ASSUME AInv, Base', call' = call, Live' \subseteq Live,
         \A r \in Live' : row'[r] = row[r],
         \A r \in Rows : row'[r].hash = row[r].hash,
         \A r \in Live \ Live' : row[r].expiresAt < now
                                /\ row'[r].status = "deleted",
         \A r \in Rows \ Live : row'[r] = row[r]
  PROVE  AInv'
<1>0. TypeOK /\ now \in Nat
  BY DEF AInv, Base, TypeOK
<1>1. OneLive' /\ Live \subseteq Rows /\ Live' \subseteq Rows
  BY DEF AInv, OneLive, Live
<1>2. ASSUME NEW c \in Calls PROVE Holds(c)'
  <2> DEFINE r == call[c].row
  <2>1. r # NoRow => r \in Rows
    BY <1>0, CallTypes
  <2>2. call[c].pc \in Owning /\ r # NoRow => r \in Live'
    <3> SUFFICES ASSUME call[c].pc \in Owning, r # NoRow, r \notin Live'
                 PROVE  FALSE
      OBVIOUS
    <3>1. r \in Live /\ call[c].started + MaxRun <= row[r].expiresAt
      BY DEF AInv, Holds
    <3>2. row[r].expiresAt < now /\ now <= call[c].started + MaxRun
      BY <3>1 DEF AInv, Base, Timely, Active
    <3>3. row[r].expiresAt \in Nat /\ call[c].started \in Nat
      BY <1>0, <2>1, CallTypes, RowTypes
    <3> QED
      BY <1>0, <3>1, <3>2, <3>3
  <2>3. r \in Rows /\ row[r].status # "absent" => row'[r].status # "absent"
    <3>1. CASE r \in Live \ Live'
      BY <3>1
    <3>2. CASE r \in Live' \/ r \in Rows \ Live
      BY <3>2
    <3> QED
      BY <3>1, <3>2
  <2> HIDE DEF r
  <2>4. Holds(c)
    BY DEF AInv
  <2> QED
    BY <2>1, <2>2, <2>3, <2>4 DEF Holds, r
<1>3. ASSUME NEW c \in Calls PROVE Answered(c)'
  BY DEF AInv, Answered, GoodAnswer
<1>4. ASSUME NEW r \in Live' PROVE Cached(r)'
  BY DEF AInv, Cached, GoodAnswer
<1> QED
  BY <1>1, <1>2, <1>3, <1>4 DEF AInv

LEMMA NextAInv == ASSUME ~UserIsNull, AInv, [Next]_vars PROVE AInv'
<1>0. Base' /\ TypeOK
  BY NextBase DEF AInv, Base
<1>1. ASSUME NEW c \in Calls, FindNothing(c) PROVE AInv'
  BY <1>0, <1>1, BeginAInv DEF FindNothing, Pcs, Active, Owning
<1>2. ASSUME NEW c \in Calls, NEW r \in Rows, Find(c, r) PROVE AInv'
  <2>1. r \in Live /\ row[r].response \in Calls \cup {NoCall}
    BY <1>0, <1>2, RowTypes DEF Find
  <2>2. CASE RefusePayload(c, r)
    BY <1>0, <2>2, BeginAInv DEF RefusePayload, Pcs, Finished, Owning
  <2>3. CASE ReturnCached(c, r)
    <3>1. GoodAnswer(row[r].response, Hash(c))
      BY <2>1, <2>3 DEF ReturnCached, SamePayload, AInv, Cached
    <3> QED
      BY <1>0, <2>1, <2>3, <3>1, BeginAInv DEF ReturnCached, Pcs, Finished, Owning
  <2>4. CASE RefuseInProgress(c, r)
    BY <1>0, <2>4, BeginAInv DEF RefuseInProgress, Pcs, Finished, Owning
  <2>5. CASE TakeOver(c, r)
    BY <1>0, <2>1, <2>5, BeginAInv DEF TakeOver, SamePayload, Pcs, Active, Owning
  <2> QED
    BY <1>2, <2>2, <2>3, <2>4, <2>5 DEF Find
<1>3. ASSUME NEW c \in Calls, Rearm(c) PROVE AInv'
  BY <1>0, <1>3, RearmAInv
<1>4. ASSUME NEW c \in Calls, RearmGone(c) PROVE AInv'
  BY <1>0, <1>4, RearmGoneAInv
<1>5. ASSUME NEW c \in Calls, Insert(c) PROVE AInv'
  BY <1>0, <1>5, InsertAInv
<1>6. ASSUME NEW c \in Calls, Run(c) PROVE AInv'
  BY <1>0, <1>6, RunAInv
<1>7. ASSUME NEW c \in Calls, Store(c) PROVE AInv'
  BY <1>0, <1>7, StoreAInv
<1>8. ASSUME NEW c \in Calls,
             RefuseDuplicate(c) \/ RunFails(c) \/ StoreFails(c) \/ MarkFailed(c)
               \/ MarkFails(c) \/ Crash(c)
      PROVE  AInv'
  <2>1. \E pc \in {"inProgress", "failing", "threw", "crashed"} :
          /\ Goto(c, pc) /\ (pc = "failing" => call[c].pc \in Owning)
          /\ row' = row \/ SetAll("FAILED", NoCall)
    BY <1>8 DEF RefuseDuplicate, RunFails, StoreFails, MarkFailed, MarkFails,
                Crash, At, Owning
  <2> QED
    BY <1>0, <2>1, GotoAInv
<1>9. ASSUME Cleanup PROVE AInv'
  <2>1. call' = call
    BY <1>9 DEF Cleanup
  <2> QED
    BY <1>0, <1>9, <2>1, CleanupEffect, StillAInv
<1>10. CASE Tick \/ UNCHANGED vars
  <2>1. call' = call /\ row' = row
    BY <1>10 DEF Tick, vars
  <2>2. Live' = Live
    BY <2>1 DEF Live
  <2> QED
    BY <1>0, <2>1, <2>2, StillAInv
<1> QED
  BY <1>1, <1>2, <1>3, <1>4, <1>5, <1>6, <1>7, <1>8, <1>9, <1>10 DEF Next, Step

\* AnswersMatchPayload, with a user and whatever fails: who gets an answer gets
\* that of a request with the same hash, unless the call that produced it found
\* the row it took over already removed.
THEOREM AnswersAreForPayload ==
  ASSUME ~UserIsNull PROVE Spec => []AnswersMatchPayload
<1>1. Init => AInv
  BY InitAInv
<1>2. AInv /\ [Next]_vars => AInv'
  BY NextAInv
<1>3. AInv => AnswersMatchPayload
  BY DEF AInv, Answered, GoodAnswer, AnswersMatchPayload, At
<1> QED
  BY <1>1, <1>2, <1>3, PTL DEF Spec

(***************************************************************************)
(* One call at a time: whatever fails, but the storing of an outcome, an   *)
(* operation that was carried out keeps the key for its TTL.               *)
(***************************************************************************)
\* What keeps a second call from carrying out the operation after d did.
Settled(d) == call[d].started + Ttl < now
Barred(d) == \E r \in Live :
  row[r].status # "FAILED" /\ call[d].started + Ttl <= row[r].expiresAt

\* What the call under way knows, at each of its steps.
CallKnows(c) ==
  /\ At(c, "inserting") => Live = {}
  /\ At(c, "rearming") => call[c].row \in Live
  /\ At(c, "running") => /\ call[c].row \in Live
                         /\ row[call[c].row].status = "STARTED"
                         /\ row[call[c].row].expiresAt = call[c].started + Ttl
  /\ call[c].ran => At(c, "storing")
  /\ \A d \in Calls \ {c} : call[d].ran => Apart(d, c)

OneByOne ==
  /\ \A c, d \in Running : c = d
  /\ OneLive
  /\ \A c \in Running : CallKnows(c)
  /\ \A d \in Calls : call[d].ran => Settled(d) \/ Barred(d)
  /\ RunsApart

OnceInv == Base /\ (serial /\ faults["store"] = 0 => OneByOne)

LEMMA InitOnce == Init => OnceInv
<1> SUFFICES ASSUME Init PROVE OnceInv
  OBVIOUS
<1>1. Base
  BY InitBase
<1>2. Live = {} /\ Running = {} /\ \A c \in Calls : ~call[c].ran
  BY DEF Init, Live, Running, Active, Owning
<1> QED
  BY <1>1, <1>2 DEF OnceInv, OneByOne, OneLive, RunsApart

\* A step of a call while no other is under way.
LEMMA OneCall ==
  ASSUME TypeOK, OneByOne, NEW c \in Calls, NEW next \in CallRow,
         call' = [call EXCEPT ![c] = next], Running \subseteq {c}, OneLive',
         next.ran => /\ next.started = call[c].started
                     /\ call[c].ran \/ c \in Running,
         next.pc \in Active => CallKnows(c)',
         \A d \in Calls : call'[d].ran => Settled(d)' \/ Barred(d)'
  PROVE  OneByOne'
<1>1. call'[c] = next /\ \A d \in Calls \ {c} : call'[d] = call[d]
  BY DEF TypeOK
<1>2. Running' \subseteq {c} /\ (c \in Running' => next.pc \in Active)
  BY <1>1 DEF Running
<1>3. RunsApart'
  <2> SUFFICES ASSUME NEW e \in Calls, NEW d \in Calls, e # d, call'[e].ran, call'[d].ran
               PROVE  Apart(e, d)' \/ Apart(d, e)'
    BY DEF RunsApart
  <2>1. call'[e].started = call[e].started /\ call'[d].started = call[d].started
    BY <1>1
  <2>2. Apart(e, d) \/ Apart(d, e)
    <3>1. CASE call[e].ran /\ call[d].ran
      BY <3>1 DEF OneByOne, RunsApart
    <3>2. CASE ~call[e].ran
      BY <1>1, <3>2 DEF OneByOne, CallKnows
    <3>3. CASE ~call[d].ran
      BY <1>1, <3>3 DEF OneByOne, CallKnows
    <3> QED
      BY <3>1, <3>2, <3>3
  <2> QED
    BY <2>1, <2>2 DEF Apart
<1> QED
  BY <1>2, <1>3 DEF OneByOne

\* A call begins: whoever carried out the operation did so more than a TTL ago,
\* if this call is to go on.
LEMMA BeginsOne ==
  ASSUME TypeOK, OneByOne, serial, NEW c \in Calls, NEW pc \in Pcs \ {"new"},
         NEW r \in Rows \cup {NoRow}, NEW answer \in Calls \cup {NoCall},
         Begin(c, pc, r, answer), pc \notin Owning,
         pc \in Active => \A d \in Calls : call[d].ran => Settled(d),
         pc = "inserting" => Live = {}, pc = "rearming" => r \in Live
  PROVE  OneByOne'
<1> DEFINE next == [pc |-> pc, row |-> r, started |-> now,
                    ran |-> FALSE, answer |-> answer]
<1>1. /\ call' = [call EXCEPT ![c] = next] /\ Running = {}
      /\ row' = row /\ now' = now
  BY DEF Begin, Alone
<1>2. next \in CallRow
  BY DEF TypeOK, CallRow, Pcs
<1>3. /\ next.pc = pc /\ next.row = r /\ next.started = now /\ next.ran = FALSE
  OBVIOUS
<1> HIDE DEF next
<1>4. call'[c] = next /\ \A d \in Calls \ {c} : call'[d] = call[d]
  BY <1>1 DEF TypeOK
<1>5. Live' = Live
  BY <1>1 DEF Live
<1>6. OneLive'
  BY <1>5 DEF OneByOne, OneLive
<1>7. pc \in Active => CallKnows(c)'
  BY <1>3, <1>4, <1>5 DEF CallKnows, At, Apart, Settled, Owning
<1>8. \A d \in Calls : call'[d].ran => Settled(d)' \/ Barred(d)'
  BY <1>1, <1>3, <1>4, <1>5 DEF OneByOne, Settled, Barred
<1> QED
  BY <1>1, <1>2, <1>3, <1>6, <1>7, <1>8, OneCall

\* The call under way goes on; rows stay or get an outcome.
LEMMA GoesOnOne ==
  ASSUME TypeOK, OneByOne, NEW c \in Running, NEW next \in CallRow,
         call' = [call EXCEPT ![c] = next], now' = now,
         next.started = call[c].started, next.pc \notin {"new", "inserting", "rearming"},
         Live' = Live,
         \A r \in Live : /\ row'[r].expiresAt = row[r].expiresAt
                         /\ row'[r].status = row[r].status \/ row'[r].status = "COMPLETED",
         next.pc # "running",
         next.ran = call[c].ran \/ (next.ran = TRUE /\ At(c, "running")),
         next.ran /\ next.pc \in Active => next.pc = "storing"
  PROVE  OneByOne'
<1>1. call'[c] = next /\ \A d \in Calls \ {c} : call'[d] = call[d]
  BY DEF TypeOK, Running
<1>2. c \in Calls /\ Running \subseteq {c} /\ CallKnows(c)
  BY DEF OneByOne, Running
<1>3. OneLive'
  BY DEF OneByOne, OneLive
<1>4. next.pc \in Active => CallKnows(c)'
  BY <1>1, <1>2 DEF CallKnows, At, Apart
<1>5. \A d \in Calls : call'[d].ran => Settled(d)' \/ Barred(d)'
  <2> SUFFICES ASSUME NEW d \in Calls, call'[d].ran
               PROVE  Settled(d)' \/ Barred(d)'
    OBVIOUS
  <2>1. call'[d].started = call[d].started
    BY <1>1
  <2>2. Settled(d) \/ Barred(d)
    <3>1. CASE call[d].ran
      BY <3>1 DEF OneByOne
    <3>2. CASE ~call[d].ran
      <4>1. d = c /\ At(c, "running")
        BY <1>1, <3>2
      <4>2. call[c].row \in Live /\ row[call[c].row].status = "STARTED"
            /\ row[call[c].row].expiresAt = call[c].started + Ttl
        BY <1>2, <4>1 DEF CallKnows
      <4>3. call[c].started + Ttl \in Nat
        BY <1>2, CallTypes
      <4> QED
        BY <4>1, <4>2, <4>3 DEF Barred
    <3> QED
      BY <3>1, <3>2
  <2>3. CASE Settled(d)
    BY <2>1, <2>3 DEF Settled
  <2>4. CASE Barred(d)
    <3>1. PICK r \in Live : row[r].status # "FAILED"
                            /\ call[d].started + Ttl <= row[r].expiresAt
      BY <2>4 DEF Barred
    <3>2. row'[r].status # "FAILED" /\ row'[r].expiresAt = row[r].expiresAt
      BY <3>1
    <3> QED
      BY <2>1, <3>1, <3>2 DEF Barred
  <2> QED
    BY <2>2, <2>3, <2>4
<1> QED
  BY <1>1, <1>2, <1>3, <1>4, <1>5, OneCall

\* A call takes the key for a TTL: it takes over the row, or inserts one.
LEMMA TakesOne ==
  ASSUME TypeOK, OneByOne, NEW c \in Running, ~call[c].ran, NEW next \in CallRow,
         call' = [call EXCEPT ![c] = next], now' = now, call[c].started <= now,
         next.pc = "running", next.started = call[c].started, next.ran = FALSE,
         next.row \in Live', OneLive',
         row'[next.row].status = "STARTED",
         row'[next.row].expiresAt = call[c].started + Ttl
  PROVE  OneByOne'
<1>1. call'[c] = next /\ \A d \in Calls \ {c} : call'[d] = call[d]
  BY DEF TypeOK, Running
<1>2. c \in Calls /\ Running \subseteq {c} /\ CallKnows(c)
  BY DEF OneByOne, Running
<1>3. CallKnows(c)'
  BY <1>1, <1>2 DEF CallKnows, At, Apart
<1>4. \A d \in Calls : call'[d].ran => Settled(d)' \/ Barred(d)'
  <2> SUFFICES ASSUME NEW d \in Calls, call'[d].ran PROVE Settled(d)'
    OBVIOUS
  <2>1. d # c /\ call'[d].started = call[d].started /\ Apart(d, c)
    BY <1>1, <1>2 DEF CallKnows
  <2>2. call[d].started \in Nat /\ call[c].started \in Nat /\ now \in Nat
    BY <1>2, CallTypes DEF TypeOK
  <2> QED
    BY <2>1, <2>2 DEF Apart, Settled
<1> QED
  BY <1>1, <1>2, <1>3, <1>4, OneCall

LEMMA RearmOne ==
  ASSUME Base, OneByOne, NEW c \in Calls, Rearm(c)
  PROVE  OneByOne'
<1> DEFINE r == call[c].row
           next == [pc |-> "running", row |-> r, started |-> call[c].started,
                    ran |-> call[c].ran, answer |-> call[c].answer]
           new == [status |-> "STARTED", hash |-> row[r].hash,
                   response |-> row[r].response, expiresAt |-> ExpiresAt(c)]
<1>0. TypeOK
  BY DEF Base
<1>1. /\ call[c].pc = "rearming" /\ call' = [call EXCEPT ![c] = next] /\ now' = now
  BY DEF Rearm, At, Goto
<1>2. c \in Running /\ ~call[c].ran /\ r \in Live /\ call[c].started <= now
  BY <1>1 DEF OneByOne, CallKnows, Running, Active, At, Base, Timely
<1>3. row' = [row EXCEPT ![r] = new] /\ r \in Rows
  BY <1>2 DEF Rearm, Live
<1>4. next \in CallRow
  BY <1>0, CallTypes DEF CallRow, Active, Owning
<1>5. /\ next.pc = "running" /\ next.row = r /\ next.started = call[c].started
      /\ next.ran = FALSE /\ new.status = "STARTED"
      /\ new.expiresAt = call[c].started + Ttl
  BY <1>2 DEF ExpiresAt
<1> HIDE DEF next, new, r
<1>6. Live' = Live /\ row'[r] = new
  BY <1>0, <1>2, <1>3, <1>5 DEF Live, TypeOK
<1>7. OneLive'
  BY <1>6 DEF OneByOne, OneLive
<1> QED
  BY <1>0, <1>1, <1>2, <1>4, <1>5, <1>6, <1>7, TakesOne

LEMMA InsertOne ==
  ASSUME Base, OneByOne, NEW c \in Calls, Insert(c)
  PROVE  OneByOne'
<1>0. TypeOK /\ call[c].pc = "inserting" /\ now' = now
  BY DEF Base, Insert, At
<1>1. PICK r \in Rows :
        /\ Live' = Live \cup {r}
        /\ call' \in [Calls -> CallRow]
        /\ \A d \in Calls \ {c} : call'[d] = call[d]
        /\ row'[r].status = "STARTED"
        /\ row'[r].expiresAt = call[c].started + Ttl
        /\ call'[c].pc = "running" /\ call'[c].row = r
        /\ call'[c].started = call[c].started /\ call'[c].ran = FALSE
  BY <1>0, InsertEffect
<1>2. c \in Running /\ ~call[c].ran /\ Live = {} /\ call[c].started <= now
  BY <1>0 DEF OneByOne, CallKnows, Running, Active, At, Base, Timely
<1>3. OneLive'
  BY <1>1, <1>2 DEF OneLive
<1>4. PICK next \in CallRow : next = call'[c]
  BY <1>1
<1>5. call' = [call EXCEPT ![c] = next]
  BY <1>0, <1>1, <1>4 DEF TypeOK
<1> QED
  BY <1>0, <1>1, <1>2, <1>3, <1>4, <1>5, TakesOne

\* A failed call has not carried out the operation, and whoever did is settled.
LEMMA FailsOne ==
  ASSUME Base, OneByOne, NEW c \in Calls, MarkFailed(c)
  PROVE  OneByOne'
<1> DEFINE next == [pc |-> "threw", row |-> call[c].row, started |-> call[c].started,
                    ran |-> call[c].ran, answer |-> call[c].answer]
<1>0. TypeOK
  BY DEF Base
<1>1. /\ call[c].pc = "failing" /\ call' = [call EXCEPT ![c] = next] /\ now' = now
      /\ SetAll("FAILED", NoCall)
  BY DEF MarkFailed, At, Goto
<1>2. c \in Running /\ Running \subseteq {c} /\ CallKnows(c) /\ ~call[c].ran
      /\ call[c].started <= now
  BY <1>1 DEF OneByOne, CallKnows, Running, Active, Owning, At, Base, Timely
<1>3. next \in CallRow
  BY <1>0, CallTypes DEF CallRow, Finished
<1>4. next.pc = "threw" /\ next.ran = FALSE /\ next.started = call[c].started
  BY <1>2
<1> HIDE DEF next
<1>5. call'[c] = next /\ \A d \in Calls \ {c} : call'[d] = call[d]
  BY <1>0, <1>1 DEF TypeOK
<1>6. OneLive'
  BY <1>0, <1>1, SetAllEffect DEF OneByOne, OneLive
<1>7. \A d \in Calls : call'[d].ran => Settled(d)'
  <2> SUFFICES ASSUME NEW d \in Calls, call'[d].ran PROVE Settled(d)'
    OBVIOUS
  <2>1. d # c /\ call'[d].started = call[d].started /\ Apart(d, c)
    BY <1>2, <1>4, <1>5 DEF CallKnows
  <2>2. call[d].started \in Nat /\ call[c].started \in Nat /\ now \in Nat
    BY <1>0, CallTypes DEF TypeOK
  <2> QED
    BY <1>1, <1>2, <2>1, <2>2 DEF Apart, Settled
<1> QED
  BY <1>0, <1>1, <1>2, <1>3, <1>4, <1>6, <1>7, OneCall DEF Active, Owning

\* The clean-up deletes what has expired, and the clock settles more.
LEMMA StillOne ==
  ASSUME TypeOK, OneByOne, call' = call, now' \in {now, now + 1},
         Live' \subseteq Live, \A r \in Live' : row'[r] = row[r],
         \A r \in Live \ Live' : row[r].expiresAt < now,
         Live' = Live \/ Running = {}
  PROVE  OneByOne'
<1>1. Running' = Running /\ RunsApart'
  BY DEF OneByOne, Running, RunsApart, Apart
<1>2. OneLive'
  BY DEF OneByOne, OneLive
<1>3. \A c \in Running : CallKnows(c)'
  BY DEF OneByOne, CallKnows, At, Apart
<1>4. ASSUME NEW d \in Calls, call[d].ran PROVE Settled(d)' \/ Barred(d)'
  <2>1. call[d].started \in Nat /\ now \in Nat
    BY CallTypes DEF TypeOK
  <2>2. CASE Settled(d)
    BY <2>1, <2>2 DEF Settled
  <2>3. CASE Barred(d)
    <3>1. PICK r \in Live : row[r].status # "FAILED"
                            /\ call[d].started + Ttl <= row[r].expiresAt
      BY <2>3 DEF Barred
    <3>2. row[r].expiresAt \in Nat
      BY <3>1, RowTypes DEF Live
    <3>3. CASE r \in Live'
      BY <3>1, <3>3 DEF Barred
    <3>4. CASE r \notin Live'
      <4>1. row[r].expiresAt < now
        BY <3>1, <3>4
      <4> QED
        BY <2>1, <3>1, <3>2, <4>1 DEF Settled
    <3> QED
      BY <3>3, <3>4
  <2> QED
    BY <1>4, <2>2, <2>3 DEF OneByOne
<1> QED
  BY <1>1, <1>2, <1>3, <1>4 DEF OneByOne

LEMMA NextOne ==
  ASSUME Base, OneByOne, serial, [Next]_vars, faults["store"] = 0, faults'["store"] = 0
  PROVE  OneByOne'
<1>0. TypeOK
  BY DEF Base
<1>1. ASSUME NEW c \in Calls, FindNothing(c) PROVE OneByOne'
  <2>1. Live = {} /\ \A d \in Calls : call[d].ran => Settled(d)
    BY <1>1 DEF FindNothing, OneByOne, Barred
  <2> QED
    BY <1>0, <1>1, <2>1, BeginsOne DEF FindNothing, Pcs, Active, Owning
<1>2. ASSUME NEW c \in Calls, NEW r \in Rows, Find(c, r) PROVE OneByOne'
  <2>1. row[r].response \in Calls \cup {NoCall} /\ r \in Live
    BY <1>0, <1>2, RowTypes DEF Find
  <2>2. CASE RefusePayload(c, r)
    BY <1>0, <2>2, BeginsOne DEF RefusePayload, Pcs, Finished, Active, Owning
  <2>3. CASE ReturnCached(c, r)
    BY <1>0, <2>1, <2>3, BeginsOne DEF ReturnCached, Pcs, Finished, Active, Owning
  <2>4. CASE RefuseInProgress(c, r)
    BY <1>0, <2>4, BeginsOne DEF RefuseInProgress, Pcs, Finished, Active, Owning
  <2>5. CASE TakeOver(c, r)
    <3>1. ASSUME NEW d \in Calls, call[d].ran PROVE Settled(d)
      <4>1. ASSUME Barred(d) PROVE Settled(d)
        <5>1. row[r].status # "FAILED" /\ call[d].started + Ttl <= row[r].expiresAt
          BY <2>1, <4>1 DEF Barred, OneByOne, OneLive
        <5>2. row[r].expiresAt < now
          BY <2>5, <5>1 DEF TakeOver, Stale
        <5>3. call[d].started \in Nat /\ now \in Nat /\ row[r].expiresAt \in Nat
          BY <1>0, CallTypes, RowTypes DEF TypeOK
        <5> QED
          BY <5>1, <5>2, <5>3 DEF Settled
      <4> QED
        BY <3>1, <4>1 DEF OneByOne
    <3> QED
      BY <1>0, <2>1, <2>5, <3>1, BeginsOne DEF TakeOver, Pcs, Active, Owning
  <2> QED
    BY <1>2, <2>2, <2>3, <2>4, <2>5 DEF Find
<1>3. ASSUME NEW c \in Calls, Rearm(c) PROVE OneByOne'
  BY <1>3, RearmOne
<1>13. ASSUME NEW c \in Calls, RearmGone(c) PROVE FALSE
  <2>1. c \in Running /\ At(c, "rearming") /\ call[c].row \notin Live
    BY <1>13 DEF RearmGone, Running, Active, At
  <2> QED
    BY <2>1 DEF OneByOne, CallKnows
<1>4. ASSUME NEW c \in Calls, Insert(c) PROVE OneByOne'
  BY <1>4, InsertOne
<1>5. ASSUME NEW c \in Calls, Run(c) PROVE OneByOne'
  <2> DEFINE next == [pc |-> "storing", row |-> call[c].row,
               started |-> call[c].started, ran |-> TRUE, answer |-> c]
  <2>1. next \in CallRow
    BY <1>0, CallTypes DEF CallRow, Active, Owning
  <2>2. /\ next.pc = "storing" /\ next.started = call[c].started /\ next.ran = TRUE
    OBVIOUS
  <2>3. /\ call' = [call EXCEPT ![c] = next] /\ At(c, "running")
        /\ UNCHANGED <<row, now>>
    BY <1>5 DEF Run
  <2> HIDE DEF next
  <2>4. Live' = Live /\ c \in Running
    BY <2>3 DEF Live, Running, At, Active, Owning
  <2> QED
    BY <1>0, <2>1, <2>2, <2>3, <2>4, GoesOnOne
<1>6. ASSUME NEW c \in Running, NEW pc \in Finished \cup {"failing"}, Goto(c, pc),
             pc = "failing" => At(c, "running"), now' = now, Live' = Live,
             \A r \in Live : /\ row'[r].expiresAt = row[r].expiresAt
                             /\ row'[r].status = row[r].status
                                  \/ row'[r].status = "COMPLETED"
      PROVE  OneByOne'
  <2> DEFINE next == [pc |-> pc, row |-> call[c].row, started |-> call[c].started,
                      ran |-> call[c].ran, answer |-> call[c].answer]
  <2>1. c \in Calls /\ CallKnows(c)
    BY DEF Running, OneByOne
  <2>2. next \in CallRow
    BY <1>0, <2>1, CallTypes DEF CallRow, Active, Owning
  <2>3. next.pc = pc /\ next.started = call[c].started /\ next.ran = call[c].ran
    OBVIOUS
  <2>4. call' = [call EXCEPT ![c] = next]
    BY <1>6 DEF Goto
  <2> HIDE DEF next
  <2>5. next.ran /\ next.pc \in Active => next.pc = "storing"
    BY <1>6, <2>1, <2>3 DEF CallKnows, At, Active, Owning, Finished
  <2> QED
    BY <1>0, <1>6, <2>2, <2>3, <2>4, <2>5, GoesOnOne DEF Finished
<1>7. ASSUME NEW c \in Calls,
             RefuseDuplicate(c) \/ RunFails(c) \/ MarkFails(c) \/ Crash(c)
      PROVE  OneByOne'
  <2>1. c \in Running /\ UNCHANGED <<row, now>>
    BY <1>7 DEF RefuseDuplicate, RunFails, MarkFails, Crash, Running, At, Active, Owning
  <2>2. \E pc \in Finished \cup {"failing"} :
          Goto(c, pc) /\ (pc = "failing" => At(c, "running"))
    BY <1>7 DEF RefuseDuplicate, RunFails, MarkFails, Crash, Finished
  <2>3. Live' = Live
    BY <2>1 DEF Live
  <2> QED
    BY <1>6, <2>1, <2>2, <2>3
<1>8. ASSUME NEW c \in Calls, Store(c) PROVE OneByOne'
  <2>1. c \in Running /\ now' = now /\ Goto(c, "returned") /\ SetAll("COMPLETED", c)
    BY <1>8 DEF Store, Running, At, Active, Owning
  <2>2. /\ Live' = Live
        /\ \A r \in Rows : row'[r].expiresAt = row[r].expiresAt
        /\ \A r \in Live : row'[r].status = "COMPLETED"
    BY <1>0, <2>1, SetAllEffect
  <2>3. Live \subseteq Rows
    BY DEF Live
  <2> QED
    BY <1>6, <2>1, <2>2, <2>3 DEF Finished
<1>9. ASSUME NEW c \in Calls, StoreFails(c) PROVE FALSE
  <2>1. faults'["store"] = faults["store"] + 1
    BY <1>0, <1>9 DEF StoreFails, Fault, TypeOK, Kinds
  <2> QED
    BY <2>1
<1>10. ASSUME NEW c \in Calls, MarkFailed(c) PROVE OneByOne'
  BY <1>10, FailsOne
<1>11. ASSUME Cleanup PROVE OneByOne'
  <2>1. call' = call /\ now' = now /\ Running = {}
    BY <1>11 DEF Cleanup, Alone
  <2> QED
    BY <1>0, <1>11, <2>1, CleanupEffect, StillOne
<1>12. CASE Tick \/ UNCHANGED vars
  <2>1. call' = call /\ row' = row /\ now' \in {now, now + 1}
    BY <1>12 DEF Tick, vars
  <2>2. Live' = Live
    BY <2>1 DEF Live
  <2> QED
    BY <1>0, <2>1, <2>2, StillOne
<1> QED
  BY <1>1, <1>2, <1>3, <1>4, <1>5, <1>7, <1>8, <1>9, <1>10, <1>11,
     <1>12, <1>13
  DEF Next, Step

\* A failure to store an outcome is never forgotten.
LEMMA StoresGrow ==
  ASSUME TypeOK, [Next]_vars, faults'["store"] = 0
  PROVE  faults["store"] = 0
<1>1. ASSUME NEW f \in Kinds, Fault(f) PROVE faults["store"] = 0
  <2>1. CASE f = "store"
    <3>1. faults'["store"] = faults["store"] + 1 /\ faults["store"] \in Nat
      BY <1>1, <2>1 DEF Fault, TypeOK, Kinds
    <3> QED
      BY <3>1
  <2>2. CASE f # "store"
    BY <1>1, <2>2 DEF Fault, TypeOK, Kinds
  <2> QED
    BY <2>1, <2>2
<1>2. \/ faults' = faults
      \/ \E f \in Kinds : Fault(f)
  BY DEF Next, Step, vars, Kinds, FindNothing, Find, RefusePayload,
     ReturnCached, RefuseInProgress, TakeOver, Begin, Rearm, RearmGone, Insert,
     RefuseDuplicate, Run, RunFails, Store, StoreFails, MarkFailed, MarkFails,
     Crash, Cleanup, Tick
<1> QED
  BY <1>1, <1>2

\* OncePerTtlSerial, for every kind of failure but that of storing an outcome,
\* and with or without a user: calls that do not overlap carry out the operation
\* once in a TTL, though a process is lost or a failure cannot be marked.
THEOREM OnceDespiteFailure == Spec => []OncePerTtlSerial
<1>1. Init => OnceInv
  BY InitOnce
<1>2. OnceInv /\ [Next]_vars => OnceInv'
  <2> SUFFICES ASSUME OnceInv, [Next]_vars PROVE OnceInv'
    OBVIOUS
  <2>1. Base' /\ TypeOK /\ serial' = serial
    BY NextBase DEF OnceInv, Base, Next, vars
  <2>2. ASSUME serial, faults'["store"] = 0 PROVE OneByOne'
    BY <2>1, <2>2, StoresGrow, NextOne DEF OnceInv
  <2> QED
    BY <2>1, <2>2 DEF OnceInv
<1>3. OnceInv => OncePerTtlSerial
  BY DEF OnceInv, OneByOne, OncePerTtlSerial
<1> QED
  BY <1>1, <1>2, <1>3, PTL DEF Spec
=============================================================================
