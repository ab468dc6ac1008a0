------------------------------ MODULE SeatMap ------------------------------
(***************************************************************************)
(* seat-map.service.ts: the seats of one flight, who sits where, and the   *)
(* check-in.  No operation is a transaction: each reads what it checks and *)
(* then writes rows by id, in one statement for every row.  The reads an   *)
(* operation makes before its first write are one step here.               *)
(***************************************************************************)
EXTENDS Integers, FiniteSetsExt

CONSTANTS
  SmSeats,       \* how many seats the flight has; they are numbered by row
  SmCrew,        \* seats the layout blocks
  SmPassengers,  \* passengers of one confirmed and paid booking
  SmSessions,    \* requests in progress
  SmMaxOps,      \* bound on the requests
  SmNobody

ASSUME SeatMapAssumption ==
  SmSeats \in Nat /\ SmMaxOps \in Nat /\ SmCrew \subseteq 1..SmSeats /\ SmNobody \notin SmPassengers

VARIABLES
  smSeat,        \* seat_inventory: status, passenger and boarding sequence
  smPaper,       \* passengers.seatNumber, 0 for none
  smCheckedIn,   \* bookings.checkedIn
  smSession,     \* what each request has read, and its step to come
  smOverlap,     \* history: a request began while another was in progress
  smNamed,       \* history: passengers checked in on a seat they named
  smOps

smVars == <<smSeat, smPaper, smCheckedIn, smSession, smOverlap, smNamed,
            smOps>>

SmIds == 1..SmSeats
SmIdle == [doing |-> "idle"]
SmIn(p) == {s \in SmIds : smSeat[s].status = "checked_in" /\ smSeat[s].who = p}
SmSeatsOf(p) == {s \in SmIds : smSeat[s].who = p}
SmAvailable == {s \in SmIds : smSeat[s].status = "available"}

SMInit ==
  /\ smSeat = [s \in SmIds |-> [status |-> IF s \in SmCrew THEN "blocked" ELSE "available",
                                who |-> SmNobody, seq |-> 0]]
  /\ smPaper = [p \in SmPassengers |-> 0] /\ smCheckedIn = FALSE
  /\ smSession = [k \in SmSessions |-> SmIdle]
  /\ smOverlap = FALSE /\ smNamed = {} /\ smOps = 0

SmDoing(k, what) == smSession[k].doing = what
SmGo(k, s) == smSession' = [smSession EXCEPT ![k] = s]
SmNext(k, what) == SmGo(k, [smSession[k] EXCEPT !.doing = what])

\* The reads of an operation: passenger p, the seat it gives up, the seat it
\* takes (0 for none), their rows as they were read, a boarding sequence.
SmStartWith(k, what, p, s, t, n) ==
  /\ smSession[k] = SmIdle /\ smOps < SmMaxOps /\ smOps' = smOps + 1
  /\ SmGo(k, [doing |-> what, who |-> p, seat |-> s, to |-> t, next |-> n,
              seen |-> [i \in {s, t} \ {0} |-> smSeat[i]]])
  /\ smOverlap' = (smOverlap \/ \E j \in SmSessions : smSession[j] # SmIdle)
  /\ UNCHANGED <<smSeat, smPaper, smCheckedIn>>
SmStart(k, what, p, s, t) == SmStartWith(k, what, p, s, t, 0)
SmWrite(s, row) ==
  /\ smSeat' = [smSeat EXCEPT ![s] = row]
  /\ UNCHANGED <<smPaper, smCheckedIn, smOverlap, smNamed, smOps>>
SmFreed == [status |-> "available", who |-> SmNobody, seq |-> 0]

(***************************************************************************)
(* selectSeat gives up the seat the passenger has, whatever its status and *)
(* without its sequence, before it looks at the seat that is wanted        *)
(***************************************************************************)
SmHeldMutant(p) == {}
SmHeld(p) == SmSeatsOf(p)
SMSelect(k, p, t) ==
  /\ IF SmHeld(p) = {} THEN SmStart(k, "look", p, t, t)
     ELSE \E s \in SmHeld(p) : SmStart(k, "give up", p, s, t)
  /\ UNCHANGED smNamed
SMGiveUp(k) ==
  LET s == smSession[k].seat IN
  /\ SmDoing(k, "give up")
  /\ SmWrite(s, [status |-> "available", who |-> SmNobody, seq |-> smSeat[s].seq])
  /\ SmNext(k, "look")
SMLook(k) ==
  /\ SmDoing(k, "look")
  /\ LET s == smSession[k] IN
     IF s.to \in SmAvailable
     THEN SmGo(k, [s EXCEPT !.doing = "sit", !.seen = [i \in {s.to} |-> smSeat[i]]])
     ELSE SmGo(k, SmIdle)
  /\ UNCHANGED <<smSeat, smPaper, smCheckedIn, smOverlap, smNamed, smOps>>
SMSit(k) ==
  LET s == smSession[k] IN
  /\ SmDoing(k, "sit")
  /\ SmWrite(s.to, [status |-> "occupied", who |-> s.who, seq |-> smSeat[s.to].seq])
  /\ SmNext(k, "note")

\* The last statement of selectSeat, changeSeat and releaseSeat.
SMNote(k) ==
  LET s == smSession[k] IN
  /\ SmDoing(k, "note")
  /\ smPaper' = [smPaper EXCEPT ![s.who] = s.to]
  /\ SmGo(k, SmIdle)
  /\ UNCHANGED <<smSeat, smCheckedIn, smOverlap, smNamed, smOps>>

(***************************************************************************)
(* releaseSeat, blockSeat and unblockSeat                                  *)
(***************************************************************************)
SmReleasableMutant == {s \in SmIds : smSeat[s].status # "available"}
SmReleasable == {s \in SmIds : smSeat[s].status \notin {"available", "checked_in"}}
SMReadToRelease(k, s) ==
  s \in SmReleasable /\ SmStart(k, "release", smSeat[s].who, s, 0) /\ UNCHANGED smNamed
SMRelease(k) ==
  LET s == smSession[k] IN
  /\ SmDoing(k, "release")
  /\ SmWrite(s.seat, SmFreed)
  /\ IF s.who = SmNobody THEN SmGo(k, SmIdle) ELSE SmNext(k, "note")

SMReadToBlock(k, s) ==
  s \in SmAvailable /\ SmStart(k, "block", SmNobody, s, 0) /\ UNCHANGED smNamed
SMReadToUnblock(k, s) ==
  /\ smSeat[s].status = "blocked"
  /\ SmStart(k, "unblock", SmNobody, s, 0) /\ UNCHANGED smNamed
SMBlock(k) ==
  LET s == smSession[k].seat IN
  /\ smSession[k].doing \in {"block", "unblock"}
  /\ SmWrite(s, [smSeat[s] EXCEPT !.status = IF SmDoing(k, "block") THEN "blocked"
                                             ELSE "available"])
  /\ SmGo(k, SmIdle)

(***************************************************************************)
(* changeSeat carries a check-in and its sequence to the new seat          *)
(***************************************************************************)
SMReadToChange(k, p, s, t) ==
  /\ s # t /\ smSeat[s].who = p /\ t \in SmAvailable
  /\ SmStart(k, "leave", p, s, t) /\ UNCHANGED smNamed
SMLeave(k) ==
  /\ SmDoing(k, "leave")
  /\ SmWrite(smSession[k].seat, SmFreed) /\ SmNext(k, "move")
SMMove(k) ==
  LET s == smSession[k]
      old == s.seen[s.seat] IN
  /\ SmDoing(k, "move")
  /\ SmWrite(s.to, IF old.status = "checked_in"
                   THEN [status |-> "checked_in", who |-> s.who, seq |-> old.seq]
                   ELSE [status |-> "occupied", who |-> s.who, seq |-> 0])
  /\ SmNext(k, "note")

(***************************************************************************)
(* checkIn: on the seat that is named, the one the passenger has, or the   *)
(* first available one of the cabin (autoAssignSeat)                       *)
(***************************************************************************)
SmAutomatic(p) ==
  IF \E s \in SmSeatsOf(p) : smSeat[s].status = "occupied"
  THEN {s \in SmSeatsOf(p) : smSeat[s].status = "occupied"}
  ELSE {s \in SmAvailable : \A t \in SmAvailable : s <= t}
SmSequence == 1 + Max({smSeat[s].seq : s \in SmIds})
SMReadToCheckIn(k, p, s, named) ==
  /\ SmIn(p) = {}
  /\ named \/ s \in SmAutomatic(p)
  /\ smSeat[s].who \in {SmNobody, p} /\ smSeat[s].status # "blocked"
  /\ SmStartWith(k, "check in", p, s, s, SmSequence)
  /\ smNamed' = IF s \in SmAutomatic(p) THEN smNamed ELSE smNamed \cup {p}

SMCheckIn(k) ==
  LET s == smSession[k] IN
  /\ SmDoing(k, "check in")
  /\ SmWrite(s.to, [status |-> "checked_in", who |-> s.who, seq |-> s.next])
  /\ SmNext(k, "note and count")
SMNoteCheckIn(k) ==
  /\ SmDoing(k, "note and count")
  /\ smPaper' = [smPaper EXCEPT ![smSession[k].who] = smSession[k].to]
  /\ SmNext(k, "count")
  /\ UNCHANGED <<smSeat, smCheckedIn, smOverlap, smNamed, smOps>>
SmAllIn == Cardinality({s \in SmIds : smSeat[s].status = "checked_in"})
             >= Cardinality(SmPassengers)
SMCount(k) ==
  /\ SmDoing(k, "count")
  /\ smCheckedIn' = (smCheckedIn \/ SmAllIn)
  /\ SmGo(k, SmIdle)
  /\ UNCHANGED <<smSeat, smPaper, smOverlap, smNamed, smOps>>

\* undoCheckIn
SMReadToUndo(k, p, s) ==
  s \in SmIn(p) /\ SmStart(k, "undo", p, s, s) /\ UNCHANGED smNamed
SMUndo(k) ==
  LET s == smSession[k].seat IN
  /\ SmDoing(k, "undo")
  /\ SmWrite(s, [status |-> "occupied", who |-> smSeat[s].who, seq |-> 0])
  /\ SmNext(k, "unmark")
SMUnmark(k) ==
  /\ SmDoing(k, "unmark")
  /\ smCheckedIn' = FALSE
  /\ SmGo(k, SmIdle)
  /\ UNCHANGED <<smSeat, smPaper, smOverlap, smNamed, smOps>>

\* A statement fails: what was written before it stays.
SMFail(k) ==
  /\ smSession[k] # SmIdle /\ SmGo(k, SmIdle)
  /\ UNCHANGED <<smSeat, smPaper, smCheckedIn, smOverlap, smNamed, smOps>>

SMNext ==
  \E k \in SmSessions :
    \/ \E s \in SmIds :
         \/ SMReadToRelease(k, s) \/ SMReadToBlock(k, s) \/ SMReadToUnblock(k, s)
         \/ \E p \in SmPassengers :
              \/ SMSelect(k, p, s) \/ SMReadToUndo(k, p, s)
              \/ \E t \in SmIds : SMReadToChange(k, p, s, t)
              \/ \E named \in BOOLEAN : SMReadToCheckIn(k, p, s, named)
    \/ SMGiveUp(k) \/ SMLook(k) \/ SMSit(k) \/ SMNote(k)
    \/ SMRelease(k) \/ SMBlock(k) \/ SMLeave(k) \/ SMMove(k)
    \/ SMCheckIn(k) \/ SMNoteCheckIn(k) \/ SMCount(k) \/ SMUndo(k) \/ SMUnmark(k)
    \/ SMFail(k)

SMSpec == SMInit /\ [][SMNext]_smVars

(***************************************************************************)
(* Properties                                                              *)
(***************************************************************************)
SmRow == [status : {"available", "occupied", "blocked", "checked_in"},
          who : SmPassengers \cup {SmNobody}, seq : 0..SmMaxOps]
SMTypeOK ==
  /\ smSeat \in [SmIds -> SmRow]
  /\ smPaper \in [SmPassengers -> 0..SmSeats]
  /\ \A k \in SmSessions : smSession[k] # SmIdle =>
       /\ smSession[k].who \in SmPassengers \cup {SmNobody} /\ smSession[k].seat \in SmIds
       /\ smSession[k].to \in 0..SmSeats /\ smSession[k].next \in 0..SmMaxOps
       /\ DOMAIN smSession[k].seen \subseteq SmIds
       /\ \A s \in DOMAIN smSession[k].seen : smSession[k].seen[s] \in SmRow
  /\ smCheckedIn \in BOOLEAN /\ smOverlap \in BOOLEAN /\ smNamed \subseteq SmPassengers
  /\ smOps \in 0..SmMaxOps

\* What one request at a time keeps: a passenger has one seat, except after a
\* check-in on a named seat, which keeps the old one; and no two seats that
\* are checked in have the same boarding sequence, although it is read as a
\* maximum before it is written and seats that were given up keep theirs.
SMOneSeat == ~smOverlap =>
  /\ \A p \in SmPassengers \ smNamed : Cardinality(SmSeatsOf(p)) <= 1
  /\ \A p, q \in SmPassengers : \A s \in SmIn(p), t \in SmIn(q) :
       s # t => smSeat[s].seq # smSeat[t].seq

\* A passenger who is checked in loses the seat only to a change, selection or
\* check-in of his own, or to a request that read the seat before the check-in;
\* nobody else's request releases or takes it.
SMCheckedInStays ==
  [][\A s \in SmIds :
       smSeat[s].status = "checked_in" /\ smSeat'[s].who # smSeat[s].who =>
         \E k \in SmSessions :
           /\ smSession'[k] # smSession[k]
           /\ \/ smSession[k].who = smSeat[s].who /\ ~SmDoing(k, "release")
              \/ s \in DOMAIN smSession[k].seen /\ smSession[k].seen[s] # smSeat[s]]_smVars
=============================================================================
