---------------------------- MODULE Flight_proofs ----------------------------
(***************************************************************************)
(* Proofs about the seat map and the gates (SeatMap and Gates, names that  *)
(* begin with Map and Gate), for any number of their calls, seats and      *)
(* gates, and about the five parts of a flight put together as MCFlight    *)
(* runs them.                                                              *)
(*                                                                         *)
(* Neither service has a transaction.  The invariants say what a request   *)
(* that is half way has read and what of it is still so when it is alone,  *)
(* or what the overlaps that were counted allow the rows to be off by.     *)
(***************************************************************************)
EXTENDS MCFlight, SeatCounter_proofs

(***************************************************************************)
(* The seat map                                                            *)
(***************************************************************************)
MapRow(n) == [status : {"available", "occupied", "blocked", "checked_in"},
              who : SmPassengers \cup {SmNobody}, seq : 0..n]
MapDoings == {"look", "give up", "sit", "note", "release", "block", "unblock", "leave", "move",
              "check in", "note and count", "count", "undo", "unmark"}
MapSeen(n) == UNION {[S -> MapRow(n)] : S \in SUBSET SmIds}
MapRequest(n) ==
  [doing : MapDoings,
   who : SmPassengers \cup {SmNobody}, seat : SmIds, to : 0..SmSeats, next : 0..n,
   seen : MapSeen(n)]

\* A sequence that is on a row, or that a request is about to write, is at most
\* the number of requests.
MapTyped ==
  /\ smSeat \in [SmIds -> MapRow(smOps)]
  /\ smPaper \in [SmPassengers -> 0..SmSeats]
  /\ smSession \in [SmSessions -> {SmIdle} \cup MapRequest(smOps)]
  /\ smCheckedIn \in BOOLEAN /\ smOverlap \in BOOLEAN /\ smNamed \subseteq SmPassengers
  /\ smOps \in 0..SmMaxOps

\* What a request that is under way has read.
MapReads(call) ==
  /\ call.doing \in {"give up", "leave"} =>
       call.seat \in DOMAIN call.seen /\ call.seen[call.seat].who = call.who
  /\ call.doing \in {"sit", "leave", "move"} =>
       call.to \in DOMAIN call.seen /\ call.seen[call.to].status = "available"
  /\ call.doing \in {"leave", "move"} => call.seat \in DOMAIN call.seen
  /\ call.doing = "release" =>
       /\ call.seat \in DOMAIN call.seen
       /\ call.seen[call.seat].status \notin {"available", "checked_in"}
  /\ call.doing = "check in" =>
       call.to \in DOMAIN call.seen /\ call.seen[call.to].who \in {SmNobody, call.who}
  /\ call.doing \in {"look", "give up", "sit", "leave", "move", "check in"} =>
       call.who \in SmPassengers /\ call.to \in SmIds

\* And what is still so if no other request has begun meanwhile.
MapStage(k) ==
  LET call == smSession[k] IN
  /\ call.doing = "give up" => smSeat[call.seat].who = call.who
  /\ call.doing = "leave" => smSeat[call.seat] = call.seen[call.seat]
  /\ call.doing \in {"look", "sit", "move"} /\ call.who \notin smNamed =>
       \A t \in SmIds : smSeat[t].who # call.who
  /\ call.doing \in {"block", "unblock"} => smSeat[call.seat].who = SmNobody
  /\ call.doing = "move" /\ call.seen[call.seat].status = "checked_in" =>
       \A t \in SmIds : smSeat[t].status = "checked_in" =>
         smSeat[t].seq # call.seen[call.seat].seq
  /\ call.doing = "check in" =>
       /\ call.who \notin smNamed => \A t \in SmIds : smSeat[t].who = call.who => t = call.to
       /\ \A t \in SmIds : smSeat[t].seq < call.next

MapIdle(k) == smSession[k] = SmIdle
MapUnique ==
  /\ \A s \in SmIds : smSeat[s].status \in {"available", "blocked"} => smSeat[s].who = SmNobody
  /\ \A p \in SmPassengers \ smNamed : \A s, t \in SmSeatsOf(p) : s = t
  /\ \A s, t \in SmIds : smSeat[s].status = "checked_in" /\ smSeat[t].status = "checked_in" /\ s # t =>
       smSeat[s].seq # smSeat[t].seq
MapAlone ==
  /\ \A j, k \in SmSessions : MapIdle(j) \/ MapIdle(k) \/ j = k
  /\ \A k \in SmSessions : MapStage(k)

MapInv ==
  /\ MapTyped
  /\ \A s \in SmIds : smSeat[s].status = "checked_in" => smSeat[s].who \in SmPassengers
  /\ \A k \in SmSessions : MapReads(smSession[k])
  /\ ~smOverlap => MapUnique /\ MapAlone

LEMMA MapSeats ==
  /\ \A s \in SmIds : s # 0 /\ s \in 0..SmSeats
  /\ \A s \in 0..SmSeats : s # 0 => s \in SmIds
BY SeatMapAssumption DEF SmIds

LEMMA MapGrows ==
  ASSUME NEW m \in Nat, NEW n \in Nat, m <= n
  PROVE  /\ MapRow(m) \subseteq MapRow(n) /\ MapSeen(m) \subseteq MapSeen(n)
         /\ MapRequest(m) \subseteq MapRequest(n)
<1>1. 0..m \subseteq 0..n
  OBVIOUS
<1>2. MapRow(m) \subseteq MapRow(n)
  BY <1>1 DEF MapRow
<1>3. \A S \in SUBSET SmIds : [S -> MapRow(m)] \subseteq [S -> MapRow(n)]
  BY <1>2
<1>4. MapSeen(m) \subseteq MapSeen(n)
  BY <1>3 DEF MapSeen
<1>5. MapRequest(m) \subseteq MapRequest(n)
  BY <1>1, <1>4 DEF MapRequest
<1> QED
  BY <1>2, <1>4, <1>5

\* The fields of a request under way.
LEMMA MapFields ==
  ASSUME NEW n \in Nat, NEW call \in MapRequest(n)
  PROVE  /\ call # SmIdle /\ call.doing # "idle" /\ call.doing \in MapDoings
         /\ call.who \in SmPassengers \cup {SmNobody} /\ call.seat \in SmIds
         /\ call.to \in 0..SmSeats /\ call.next \in 0..n
         /\ DOMAIN call.seen \subseteq SmIds
         /\ \A s \in DOMAIN call.seen : call.seen[s] \in MapRow(n)
<1>1. /\ call.doing \in MapDoings
      /\ call.who \in SmPassengers \cup {SmNobody} /\ call.seat \in SmIds
      /\ call.to \in 0..SmSeats /\ call.next \in 0..n /\ call.seen \in MapSeen(n)
  BY DEF MapRequest
<1>2. DOMAIN call.seen \subseteq SmIds /\ \A s \in DOMAIN call.seen : call.seen[s] \in MapRow(n)
  <2>1. PICK S \in SUBSET SmIds : call.seen \in [S -> MapRow(n)]
    BY <1>1 DEF MapSeen
  <2> QED
    BY <2>1
<1>3. call.doing # "idle" /\ call # SmIdle
  <2>1. call.doing # "idle"
    BY <1>1 DEF MapDoings
  <2>2. SmIdle.doing = "idle"
    BY DEF SmIdle
  <2> QED
    BY <2>1, <2>2
<1> QED
  BY <1>1, <1>2, <1>3

\* A request is idle, or under way.
LEMMA MapActs ==
  ASSUME MapTyped, NEW k \in SmSessions, smSession[k] # SmIdle \/ smSession[k].doing # "idle"
  PROVE  smSession[k] \in MapRequest(smOps) /\ smOps \in Nat
<1>1. smSession[k] \in {SmIdle} \cup MapRequest(smOps) /\ smOps \in Nat
  BY SeatMapAssumption DEF MapTyped
<1>2. smSession[k] # SmIdle
  BY DEF SmIdle
<1> QED
  BY <1>1, <1>2

LEMMA MapInvImplies ==
  ASSUME MapInv
  PROVE  SMTypeOK /\ SMOneSeat
<1>1. MapTyped /\ smOps \in Nat /\ SmMaxOps \in Nat /\ smOps <= SmMaxOps
  BY SeatMapAssumption DEF MapInv, MapTyped
<1>2. MapRow(smOps) \subseteq SmRow
  BY <1>1 DEF MapRow, SmRow
<1>3. ASSUME NEW k \in SmSessions, smSession[k] # SmIdle
      PROVE  /\ smSession[k].who \in SmPassengers \cup {SmNobody} /\ smSession[k].seat \in SmIds
             /\ smSession[k].to \in 0..SmSeats /\ smSession[k].next \in 0..SmMaxOps
             /\ DOMAIN smSession[k].seen \subseteq SmIds
             /\ \A s \in DOMAIN smSession[k].seen : smSession[k].seen[s] \in SmRow
  <2>1. smSession[k] \in MapRequest(smOps)
    BY <1>1, <1>3, MapActs
  <2> QED
    BY <1>1, <1>2, <2>1, MapFields
<1>4. SMTypeOK
  <2>1. smSeat \in [SmIds -> SmRow]
    BY <1>1, <1>2 DEF MapTyped
  <2> QED
    BY <1>1, <1>3, <2>1 DEF MapTyped, SMTypeOK
<1>5. SMOneSeat
  <2> SUFFICES ASSUME ~smOverlap
               PROVE  /\ \A p \in SmPassengers \ smNamed : Cardinality(SmSeatsOf(p)) <= 1
                      /\ \A p, q \in SmPassengers : \A s \in SmIn(p), t \in SmIn(q) :
                           s # t => smSeat[s].seq # smSeat[t].seq
    BY DEF SMOneSeat
  <2>1. MapUnique
    BY DEF MapInv
  <2>2. ASSUME NEW p \in SmPassengers \ smNamed PROVE Cardinality(SmSeatsOf(p)) <= 1
    <3>1. \A s, t \in SmSeatsOf(p) : s = t
      BY <2>1 DEF MapUnique
    <3>2. CASE SmSeatsOf(p) = {}
      BY <3>2, FS_EmptySet
    <3>3. CASE SmSeatsOf(p) # {}
      <4>1. PICK s \in SmSeatsOf(p) : TRUE
        BY <3>3
      <4>2. SmSeatsOf(p) = {s}
        BY <3>1
      <4>3. Cardinality({s}) = 1
        BY FS_Singleton
      <4> QED
        BY <4>2, <4>3
    <3> QED
      BY <3>2, <3>3
  <2>3. \A p, q \in SmPassengers : \A s \in SmIn(p), t \in SmIn(q) :
                           s # t => smSeat[s].seq # smSeat[t].seq
    BY <2>1 DEF MapUnique, SmIn
  <2> QED
    BY <2>2, <2>3
<1> QED
  BY <1>4, <1>5

LEMMA MapInit == SMInit => MapInv
<1> SUFFICES ASSUME SMInit PROVE MapInv
  OBVIOUS
<1>1. /\ smSeat = [s \in SmIds |-> [status |-> IF s \in SmCrew THEN "blocked" ELSE "available",
                                who |-> SmNobody, seq |-> 0]]
      /\ smSession = [k \in SmSessions |-> SmIdle] /\ smOps = 0 /\ smNamed = {}
      /\ smPaper = [p \in SmPassengers |-> 0] /\ smCheckedIn = FALSE /\ smOverlap = FALSE
  BY DEF SMInit
<1>2. MapTyped
  <2>1. smSeat \in [SmIds -> MapRow(smOps)]
    BY <1>1 DEF MapRow
  <2>2. smSession \in [SmSessions -> {SmIdle} \cup MapRequest(smOps)]
    BY <1>1
  <2>3. smOps \in 0..SmMaxOps
    BY <1>1, SeatMapAssumption
  <2>4. smPaper \in [SmPassengers -> 0..SmSeats] /\ smNamed \subseteq SmPassengers
    BY <1>1, SeatMapAssumption
  <2>5. smCheckedIn \in BOOLEAN /\ smOverlap \in BOOLEAN
    BY <1>1
  <2> QED
    BY <2>1, <2>2, <2>3, <2>4, <2>5 DEF MapTyped
<1>3. \A k \in SmSessions : MapReads(smSession[k]) /\ MapStage(k) /\ MapIdle(k)
  BY <1>1 DEF MapReads, MapStage, MapIdle, SmIdle
<1>4. \A s \in SmIds : /\ smSeat[s].who = SmNobody /\ smSeat[s].status # "checked_in"
  BY <1>1
<1>5. MapUnique
  <2>1. \A p \in SmPassengers : SmSeatsOf(p) = {}
    BY <1>4, SeatMapAssumption DEF SmSeatsOf
  <2> QED
    BY <1>4, <2>1 DEF MapUnique
<1> QED
  BY <1>2, <1>3, <1>4, <1>5 DEF MapInv, MapAlone

\* A request that is under way writes one row and goes on, or stops.
LEMMA MapWrites ==
  ASSUME MapInv, NEW k \in SmSessions, smSession[k].doing # "idle",
         NEW call \in {SmIdle} \cup MapRequest(smOps), MapReads(call),
         smSession' = [smSession EXCEPT ![k] = call],
         NEW s \in SmIds, NEW row \in MapRow(smOps),
         smSeat' = [smSeat EXCEPT ![s] = row],
         row.status = "checked_in" => row.who \in SmPassengers,
         smPaper' \in [SmPassengers -> 0..SmSeats], smCheckedIn' \in BOOLEAN,
         smNamed' = smNamed, smOps' = smOps, smOverlap' = smOverlap,
         ~smOverlap /\ MapUnique /\ MapStage(k) =>
           /\ row.status \in {"available", "blocked"} => row.who = SmNobody
           /\ row.who \in SmPassengers \ smNamed => SmSeatsOf(row.who) \subseteq {s}
           /\ row.status = "checked_in" =>
                \A t \in SmIds \ {s} : smSeat[t].status = "checked_in" => smSeat[t].seq # row.seq
           /\ MapStage(k)'
  PROVE  MapInv'
<1>1. /\ MapTyped /\ smOps \in Nat /\ smSeat \in [SmIds -> MapRow(smOps)]
      /\ smSession \in [SmSessions -> {SmIdle} \cup MapRequest(smOps)]
  BY SeatMapAssumption DEF MapInv, MapTyped
<1>2. /\ smSession'[k] = call /\ \A j \in SmSessions \ {k} : smSession'[j] = smSession[j]
      /\ smSeat'[s] = row /\ \A t \in SmIds \ {s} : smSeat'[t] = smSeat[t]
  BY <1>1
<1>3. MapTyped'
  <2>1. smSeat' \in [SmIds -> MapRow(smOps)]
    BY <1>1
  <2>2. smSession' \in [SmSessions -> {SmIdle} \cup MapRequest(smOps)]
    BY <1>1
  <2>3. (MapRow(smOps))' = MapRow(smOps)
    BY DEF MapRow
  <2>6. (MapRequest(smOps))' = MapRequest(smOps)
    BY Zenon, <2>3 DEF MapRequest, MapSeen
  <2>4. (smSeat \in [SmIds -> MapRow(smOps)])'
    BY <2>1, <2>3
  <2>5. (smSession \in [SmSessions -> {SmIdle} \cup MapRequest(smOps)])'
    BY <2>2, <2>6
  <2> QED
    BY <1>1, <2>4, <2>5 DEF MapTyped
<1>4. \A t \in SmIds : smSeat'[t].status = "checked_in" => smSeat'[t].who \in SmPassengers
  BY <1>2 DEF MapInv
<1>5. \A j \in SmSessions : MapReads(smSession'[j])
  BY <1>2 DEF MapInv
<1>6. ASSUME ~smOverlap PROVE MapUnique' /\ MapAlone'
  <2>1. MapUnique /\ MapAlone /\ MapStage(k)
    BY <1>6 DEF MapInv, MapAlone
  <2>2. /\ row.status \in {"available", "blocked"} => row.who = SmNobody
        /\ row.who \in SmPassengers \ smNamed => SmSeatsOf(row.who) \subseteq {s}
        /\ row.status = "checked_in" =>
             \A t \in SmIds \ {s} : smSeat[t].status = "checked_in" => smSeat[t].seq # row.seq
        /\ MapStage(k)'
    BY <1>6, <2>1
  <2>3. \A j \in SmSessions \ {k} : smSession[j] = SmIdle
    <3>1. ~MapIdle(k)
      BY DEF MapIdle, SmIdle
    <3> QED
      BY <2>1, <3>1 DEF MapAlone, MapIdle
  <2>4. ASSUME NEW j \in SmSessions \ {k} PROVE MapIdle(j)' /\ MapStage(j)'
    <3>1. smSession'[j] = SmIdle /\ smSession'[j].doing = "idle"
      BY <1>2, <2>3 DEF SmIdle
    <3> QED
      BY <3>1 DEF MapIdle, MapStage
  <2>5. MapAlone'
    BY <2>2, <2>4 DEF MapAlone
  <2>6. \A t \in SmIds : smSeat'[t].status \in {"available", "blocked"} => smSeat'[t].who = SmNobody
    BY <1>2, <2>1, <2>2 DEF MapUnique
  <2>7. ASSUME NEW p \in SmPassengers \ smNamed', NEW t \in SmSeatsOf(p)', NEW u \in SmSeatsOf(p)'
        PROVE  t = u
    <3>1. \A x, y \in SmSeatsOf(p) : x = y
      BY <2>1 DEF MapUnique
    <3>2. CASE row.who = p
      <4>1. SmSeatsOf(p)' \subseteq {s}
        BY <1>2, <2>2, <3>2 DEF SmSeatsOf
      <4> QED
        BY <4>1
    <3>3. CASE row.who # p
      <4>1. SmSeatsOf(p)' \subseteq SmSeatsOf(p)
        BY <1>2, <3>3 DEF SmSeatsOf
      <4> QED
        BY <3>1, <4>1
    <3> QED
      BY <3>2, <3>3
  <2>8. \A t, u \in SmIds :
          smSeat'[t].status = "checked_in" /\ smSeat'[u].status = "checked_in" /\ t # u =>
            smSeat'[t].seq # smSeat'[u].seq
    BY <1>2, <2>1, <2>2 DEF MapUnique
  <2> QED
    BY <2>5, <2>6, <2>7, <2>8 DEF MapUnique
<1> QED
  BY <1>3, <1>4, <1>5, <1>6 DEF MapInv

\* What a request that begins has checked.
MapMay(what, p, s, t, n) ==
  /\ what \in {"look", "give up", "release", "block", "unblock", "leave", "check in", "undo"}
  /\ p \in SmPassengers \cup {SmNobody} /\ s \in SmIds /\ t \in 0..SmSeats /\ n \in 0..(smOps + 1)
  /\ what \in {"give up", "leave"} => smSeat[s].who = p
  /\ what \in {"look", "give up", "leave", "check in"} => p \in SmPassengers /\ t \in SmIds
  /\ what = "leave" => smSeat[t].status = "available"
  /\ what = "release" => smSeat[s].status \notin {"available", "checked_in"}
  /\ what = "check in" => smSeat[t].who \in {SmNobody, p}
  /\ what = "look" => \A u \in SmIds : smSeat[u].who # p
MapMayAlone(what, p, s, t, n, named) ==
  ~smOverlap /\ MapUnique =>
    /\ what \in {"block", "unblock"} => smSeat[s].who = SmNobody
    /\ what = "check in" =>
         /\ p \notin named => \A u \in SmIds : smSeat[u].who = p => u = t
         /\ \A u \in SmIds : smSeat[u].seq < n

\* A request begins.
LEMMA MapBegins ==
  ASSUME MapInv, NEW k \in SmSessions, NEW what, NEW p, NEW s, NEW t, NEW n,
         SmStartWith(k, what, p, s, t, n), MapMay(what, p, s, t, n),
         smNamed \subseteq smNamed', smNamed' \subseteq SmPassengers,
         MapMayAlone(what, p, s, t, n, smNamed')
  PROVE  MapInv'
<1> DEFINE call == [doing |-> what, who |-> p, seat |-> s, to |-> t, next |-> n,
                    seen |-> [i \in {s, t} \ {0} |-> smSeat[i]]]
<1>1. /\ smSession[k] = SmIdle /\ smOps < SmMaxOps /\ smOps' = smOps + 1
      /\ smSession' = [smSession EXCEPT ![k] = call]
      /\ smOverlap' = (smOverlap \/ \E j \in SmSessions : smSession[j] # SmIdle)
      /\ smSeat' = smSeat /\ smPaper' = smPaper /\ smCheckedIn' = smCheckedIn
  BY DEF SmStartWith, SmGo
<1>2. /\ MapTyped /\ smOps \in Nat /\ smOps + 1 \in Nat /\ smOps + 1 <= SmMaxOps
      /\ smSeat \in [SmIds -> MapRow(smOps)] /\ SmIds = 1..SmSeats /\ SmSeats \in Nat
      /\ smSession \in [SmSessions -> {SmIdle} \cup MapRequest(smOps)]
  BY <1>1, SeatMapAssumption DEF MapInv, MapTyped, SmIds
<1>3. /\ MapRow(smOps) \subseteq MapRow(smOps + 1)
      /\ MapRequest(smOps) \subseteq MapRequest(smOps + 1)
  BY <1>2, MapGrows
<1>4. /\ call.seen \in MapSeen(smOps + 1) /\ DOMAIN call.seen = {s, t} \ {0}
      /\ \A i \in {s, t} \ {0} : call.seen[i] = smSeat[i]
  <2>1. {s, t} \ {0} \in SUBSET SmIds
    BY MapSeats DEF MapMay
  <2>2. [i \in {s, t} \ {0} |-> smSeat[i]] \in [{s, t} \ {0} -> MapRow(smOps + 1)]
    BY <1>2, <1>3, <2>1
  <2>3. call.seen = [i \in {s, t} \ {0} |-> smSeat[i]]
    OBVIOUS
  <2> HIDE DEF call
  <2>4. call.seen \in MapSeen(smOps + 1)
    BY <2>1, <2>2, <2>3 DEF MapSeen
  <2> QED
    BY <2>3, <2>4
<1>5. call \in MapRequest(smOps + 1)
  <2>1. /\ what \in MapDoings
        /\ p \in SmPassengers \cup {SmNobody} /\ s \in SmIds /\ t \in 0..SmSeats
        /\ n \in 0..(smOps + 1)
    BY DEF MapMay, MapDoings
  <2> QED
    BY <1>4, <2>1 DEF MapRequest
<1>6. /\ call.doing = what /\ call.who = p /\ call.seat = s /\ call.to = t /\ call.next = n
  OBVIOUS
<1> HIDE DEF call
<1>7. /\ smSession'[k] = call /\ \A j \in SmSessions \ {k} : smSession'[j] = smSession[j]
  BY <1>1, <1>2
<1>8. MapTyped'
  <2>1. smSeat' \in [SmIds -> MapRow(smOps + 1)]
    BY <1>1, <1>2, <1>3
  <2>2. smSession' \in [SmSessions -> {SmIdle} \cup MapRequest(smOps + 1)]
    BY <1>1, <1>2, <1>3, <1>5
  <2>3. smOps' \in 0..SmMaxOps
    BY <1>1, <1>2
  <2>4. smOverlap' \in BOOLEAN
    BY <1>1, <1>2 DEF MapTyped
  <2>6. (smSeat \in [SmIds -> MapRow(smOps)])'
    BY <1>1, <2>1 DEF MapRow
  <2>7. (smSession \in [SmSessions -> {SmIdle} \cup MapRequest(smOps)])'
    <3>1. smOps' = smOps + 1
      BY <1>1
    <3>2. (MapRequest(smOps))' = MapRequest(smOps + 1)
      BY Zenon, <3>1 DEF MapRequest, MapSeen, MapRow
    <3> QED
      BY <2>2, <3>2
  <2> QED
    BY <1>1, <1>2, <2>3, <2>4, <2>6, <2>7 DEF MapTyped
<1>9. \A u \in SmIds : smSeat'[u].status = "checked_in" => smSeat'[u].who \in SmPassengers
  BY <1>1 DEF MapInv
<1>10. MapReads(call)
  <2>1. s # 0 /\ (t \in SmIds => t # 0)
    BY MapSeats DEF MapMay
  <2>2. s \in DOMAIN call.seen /\ call.seen[s] = smSeat[s]
    BY <1>4, <2>1
  <2>3. t \in SmIds => t \in DOMAIN call.seen /\ call.seen[t] = smSeat[t]
    BY <1>4, <2>1
  <2> QED
    BY <1>6, <2>2, <2>3 DEF MapReads, MapMay
<1>11. \A j \in SmSessions : MapReads(smSession'[j])
  BY <1>7, <1>10 DEF MapInv
<1>12. ASSUME ~smOverlap' PROVE MapUnique' /\ MapAlone'
  <2>1. ~smOverlap /\ \A j \in SmSessions : smSession[j] = SmIdle
    BY <1>1, <1>12
  <2>2. MapUnique
    BY <2>1 DEF MapInv
  <2>3. MapUnique'
    BY <1>1, <2>2 DEF MapUnique, SmSeatsOf
  <2>4. ASSUME NEW j \in SmSessions \ {k} PROVE MapIdle(j)' /\ MapStage(j)'
    <3>1. smSession'[j] = SmIdle /\ smSession'[j].doing = "idle"
      BY <1>7, <2>1 DEF SmIdle
    <3> QED
      BY <3>1 DEF MapIdle, MapStage
  <2>5. MapStage(k)'
    <3>1. s # 0 /\ s \in DOMAIN call.seen /\ call.seen[s] = smSeat[s]
      <4>1. s # 0
        BY MapSeats DEF MapMay
      <4> QED
        BY <1>4, <4>1
    <3>4. /\ smSession'[k].doing = what /\ smSession'[k].who = p /\ smSession'[k].seat = s
          /\ smSession'[k].to = t /\ smSession'[k].next = n /\ smSession'[k].seen = call.seen
      BY <1>6, <1>7
    <3>5. /\ what = "give up" => smSeat'[s].who = p
          /\ what = "leave" => smSeat'[s] = call.seen[s]
          /\ what = "look" => \A u \in SmIds : smSeat'[u].who # p
          /\ what \in {"block", "unblock"} => smSeat'[s].who = SmNobody
      BY <1>1, <2>1, <2>2, <3>1 DEF MapMay, MapMayAlone
    <3>6. what = "check in" =>
                /\ p \notin smNamed' => \A u \in SmIds : smSeat'[u].who = p => u = t
                /\ \A u \in SmIds : smSeat'[u].seq < n
      BY <1>1, <2>1, <2>2 DEF MapMayAlone
    <3>7. what \notin {"sit", "move"}
      BY DEF MapMay
    <3> QED
      BY <3>4, <3>5, <3>6, <3>7 DEF MapStage
  <2> QED
    BY <2>3, <2>4, <2>5 DEF MapAlone
<1> QED
  BY <1>8, <1>9, <1>11, <1>12 DEF MapInv

(***************************************************************************)
(* The steps of a request                                                  *)
(***************************************************************************)
LEMMA MapTurned ==
  ASSUME NEW n \in Nat, NEW old \in MapRequest(n), NEW what \in MapDoings
  PROVE  /\ [old EXCEPT !.doing = what] \in MapRequest(n)
         /\ [old EXCEPT !.doing = what].doing = what
         /\ [old EXCEPT !.doing = what].who = old.who /\ [old EXCEPT !.doing = what].seat = old.seat
         /\ [old EXCEPT !.doing = what].to = old.to /\ [old EXCEPT !.doing = what].next = old.next
         /\ [old EXCEPT !.doing = what].seen = old.seen
BY DEF MapRequest

\* A step after which nothing is left to write on the seats.
LEMMA MapCalm ==
  ASSUME NEW k \in SmSessions, NEW call, smSession'[k] = call,
         call.doing \in {"idle", "note", "note and count", "count", "unmark"}
  PROVE  MapReads(call) /\ MapStage(k)'
<1>1. MapReads(call)
  BY DEF MapReads
<1>2. smSession'[k].doing \in {"idle", "note", "note and count", "count", "unmark"}
  OBVIOUS
<1>3. MapStage(k)'
  BY <1>2 DEF MapStage
<1> QED
  BY <1>1, <1>3

\* A step that leaves the seats alone.
LEMMA MapQuiet ==
  ASSUME MapInv, NEW k \in SmSessions, smSession[k].doing # "idle",
         NEW call \in {SmIdle} \cup MapRequest(smOps), MapReads(call),
         smSession' = [smSession EXCEPT ![k] = call], smSeat' = smSeat,
         smPaper' \in [SmPassengers -> 0..SmSeats], smCheckedIn' \in BOOLEAN,
         smNamed' = smNamed, smOps' = smOps, smOverlap' = smOverlap,
         ~smOverlap /\ MapUnique /\ MapStage(k) => MapStage(k)'
  PROVE  MapInv'
<1> DEFINE s == smSession[k].seat
           row == smSeat[s]
<1>1. /\ smSeat \in [SmIds -> MapRow(smOps)] /\ s \in SmIds
      /\ \A t \in SmIds : smSeat[t].status = "checked_in" => smSeat[t].who \in SmPassengers
  BY MapActs, MapFields DEF MapInv, MapTyped
<1>2. row \in MapRow(smOps) /\ smSeat' = [smSeat EXCEPT ![s] = row]
      /\ (row.status = "checked_in" => row.who \in SmPassengers)
  BY <1>1
<1>3. ASSUME MapUnique
      PROVE  /\ row.status \in {"available", "blocked"} => row.who = SmNobody
             /\ row.who \in SmPassengers \ smNamed => SmSeatsOf(row.who) \subseteq {s}
             /\ row.status = "checked_in" =>
                  \A t \in SmIds \ {s} : smSeat[t].status = "checked_in" => smSeat[t].seq # row.seq
  <2>1. row.who \in SmPassengers \ smNamed => SmSeatsOf(row.who) \subseteq {s}
    <3>1. s \in SmSeatsOf(row.who)
      BY <1>1 DEF SmSeatsOf
    <3> QED
      BY <1>3, <3>1 DEF MapUnique
  <2> QED
    BY <1>1, <1>3, <2>1 DEF MapUnique
<1> HIDE DEF s, row
<1> QED
  BY <1>1, <1>2, <1>3, MapWrites

\* A step that has no more to read than its call says.
LEMMA MapEnds ==
  ASSUME MapInv, NEW k \in SmSessions, smSession[k].doing # "idle",
         NEW call \in {SmIdle} \cup MapRequest(smOps),
         call.doing \in {"idle", "note", "note and count", "count", "unmark"},
         smSession' = [smSession EXCEPT ![k] = call], smSeat' = smSeat,
         smPaper' \in [SmPassengers -> 0..SmSeats], smCheckedIn' \in BOOLEAN,
         smNamed' = smNamed, smOps' = smOps, smOverlap' = smOverlap
  PROVE  MapInv'
<1>1. smSession'[k] = call
  BY DEF MapInv, MapTyped
<1>2. MapReads(call) /\ MapStage(k)'
  BY <1>1, MapCalm
<1> QED
  BY <1>2, MapQuiet

LEMMA MapSilent ==
  ASSUME MapInv, NEW k \in SmSessions,
         \/ SMNote(k) \/ SMNoteCheckIn(k) \/ SMCount(k) \/ SMUnmark(k) \/ SMFail(k)
  PROVE  MapInv'
<1> DEFINE old == smSession[k]
           count == [old EXCEPT !.doing = "count"]
<1>1. /\ old \in MapRequest(smOps) /\ smOps \in Nat /\ old.doing # "idle"
      /\ smPaper \in [SmPassengers -> 0..SmSeats] /\ smCheckedIn \in BOOLEAN
  <2>1. old # SmIdle \/ old.doing # "idle"
    BY DEF SMNote, SMNoteCheckIn, SMCount, SMUnmark, SMFail, SmDoing
  <2> QED
    BY <2>1, MapActs, MapFields DEF MapInv, MapTyped
<1>2. old.to \in 0..SmSeats
  BY <1>1, MapFields
<1>3. SmIdle.doing = "idle"
  BY DEF SmIdle
<1>4. count \in MapRequest(smOps) /\ count.doing = "count"
  <2>1. "count" \in MapDoings
    BY DEF MapDoings
  <2> QED
    BY <1>1, <2>1, MapTurned
<1> HIDE DEF count
<1>5. smSeat' = smSeat /\ smNamed' = smNamed /\ smOps' = smOps /\ smOverlap' = smOverlap
  BY DEF SMNote, SMNoteCheckIn, SMCount, SMUnmark, SMFail
<1>6. smPaper' = smPaper \/ smPaper' = [smPaper EXCEPT ![old.who] = old.to]
  BY DEF SMNote, SMNoteCheckIn, SMCount, SMUnmark, SMFail
<1>7. smPaper' \in [SmPassengers -> 0..SmSeats]
  BY <1>1, <1>2, <1>6
<1>8. smCheckedIn' \in BOOLEAN
  <2>1. CASE SMCount(k)
    BY Zenon, <2>1, <1>1 DEF SMCount, SmAllIn
  <2>2. CASE ~SMCount(k)
    BY <1>1, <2>2 DEF SMNote, SMNoteCheckIn, SMUnmark, SMFail
  <2> QED
    BY <2>1, <2>2
<1>9. \/ smSession' = [smSession EXCEPT ![k] = SmIdle]
      \/ smSession' = [smSession EXCEPT ![k] = count]
  BY DEF SMNote, SMNoteCheckIn, SMCount, SMUnmark, SMFail, SmGo, SmNext, count
<1> QED
  BY <1>1, <1>3, <1>4, <1>5, <1>7, <1>8, <1>9, MapEnds

\* What a request that is about to write has to go on with.
LEMMA MapActing ==
  ASSUME MapInv, NEW k \in SmSessions, smSession[k].doing # "idle"
  PROVE  /\ smSession[k] \in MapRequest(smOps) /\ smOps \in Nat
         /\ smSession[k].who \in SmPassengers \cup {SmNobody} /\ smSession[k].seat \in SmIds
         /\ smSession[k].next \in 0..smOps
         /\ \A s \in DOMAIN smSession[k].seen : smSession[k].seen[s] \in MapRow(smOps)
         /\ MapReads(smSession[k])
         /\ smSeat \in [SmIds -> MapRow(smOps)]
         /\ smPaper \in [SmPassengers -> 0..SmSeats] /\ smCheckedIn \in BOOLEAN
         /\ ~smOverlap => MapStage(k)
         /\ SmNobody \notin SmPassengers
<1>1. smSession[k] \in MapRequest(smOps) /\ smOps \in Nat
  BY MapActs DEF MapInv
<1>2. /\ smSession[k].who \in SmPassengers \cup {SmNobody} /\ smSession[k].seat \in SmIds
      /\ smSession[k].next \in 0..smOps
      /\ \A s \in DOMAIN smSession[k].seen : smSession[k].seen[s] \in MapRow(smOps)
  BY <1>1, MapFields
<1>3. /\ MapReads(smSession[k]) /\ smSeat \in [SmIds -> MapRow(smOps)]
      /\ smPaper \in [SmPassengers -> 0..SmSeats] /\ smCheckedIn \in BOOLEAN
      /\ SmNobody \notin SmPassengers
  BY SeatMapAssumption DEF MapInv, MapTyped
<1>4. ~smOverlap => MapStage(k)
  BY DEF MapInv, MapAlone
<1> QED
  BY <1>1, <1>2, <1>3, <1>4

\* The row of a seat that is given up, and one that is only taken.
LEMMA MapRows ==
  ASSUME NEW n \in Nat, NEW q \in 0..n
  PROVE  /\ \A status \in {"available", "occupied", "blocked", "checked_in"},
               p \in SmPassengers \cup {SmNobody} :
              [status |-> status, who |-> p, seq |-> q] \in MapRow(n)
         /\ SmFreed \in MapRow(n)
BY DEF MapRow, SmFreed

LEMMA MapToTake ==
  ASSUME NEW k \in SmSessions, smSession'[k].doing \in {"look", "sit"},
         smSession'[k].who \notin smNamed' =>
           \A t \in SmIds : smSeat'[t].who # smSession'[k].who
  PROVE  MapStage(k)'
BY DEF MapStage

LEMMA MapGivesUp ==
  ASSUME MapInv, NEW k \in SmSessions, SMGiveUp(k)
  PROVE  MapInv'
<1> DEFINE old == smSession[k]
           call == [old EXCEPT !.doing = "look"]
           row == [status |-> "available", who |-> SmNobody, seq |-> smSeat[old.seat].seq]
<1>1. /\ old.doing = "give up" /\ smSeat' = [smSeat EXCEPT ![old.seat] = row]
      /\ smSession' = [smSession EXCEPT ![k] = call]
      /\ smPaper' = smPaper /\ smCheckedIn' = smCheckedIn
      /\ smNamed' = smNamed /\ smOps' = smOps /\ smOverlap' = smOverlap
  BY DEF SMGiveUp, SmDoing, SmWrite, SmNext, SmGo
<1>2. /\ old \in MapRequest(smOps) /\ smOps \in Nat /\ old.seat \in SmIds /\ MapReads(old)
      /\ smSeat \in [SmIds -> MapRow(smOps)] /\ (~smOverlap => MapStage(k))
      /\ smPaper \in [SmPassengers -> 0..SmSeats] /\ smCheckedIn \in BOOLEAN
      /\ SmNobody \notin SmPassengers
  BY <1>1, MapActing
<1>3. /\ call \in MapRequest(smOps) /\ call.doing = "look" /\ call.who = old.who
      /\ call.seat = old.seat /\ call.to = old.to
  <2>1. "look" \in MapDoings
    BY DEF MapDoings
  <2> QED
    BY <1>2, <2>1, MapTurned
<1>4. row \in MapRow(smOps) /\ row.status = "available" /\ row.who = SmNobody
  <2>1. smSeat[old.seat].seq \in 0..smOps
    BY <1>2 DEF MapRow
  <2> QED
    BY <1>2, <2>1, MapRows
<1> HIDE DEF call, row
<1>5. MapReads(call) /\ old.who \in SmPassengers
  BY <1>1, <1>2, <1>3 DEF MapReads
<1>6. /\ smSession'[k] = call /\ smSeat'[old.seat] = row
      /\ \A t \in SmIds \ {old.seat} : smSeat'[t] = smSeat[t]
  BY <1>1, <1>2 DEF MapInv, MapTyped
<1>7. ASSUME ~smOverlap, MapUnique, MapStage(k) PROVE MapStage(k)'
  <2>1. smSeat[old.seat].who = old.who
    BY <1>1, <1>7 DEF MapStage
  <2>2. ASSUME old.who \notin smNamed, NEW t \in SmIds PROVE smSeat'[t].who # old.who
    <3>1. CASE t = old.seat
      BY <1>2, <1>4, <1>5, <1>6, <3>1
    <3>2. CASE t # old.seat
      <4>1. smSeat[t].who = old.who => t \in SmSeatsOf(old.who) /\ old.seat \in SmSeatsOf(old.who)
        BY <1>2, <2>1 DEF SmSeatsOf
      <4> QED
        BY <1>5, <1>6, <1>7, <2>2, <3>2, <4>1 DEF MapUnique
    <3> QED
      BY <3>1, <3>2
  <2>3. smSession'[k].doing = "look" /\ smSession'[k].who = old.who
    BY <1>3, <1>6
  <2>4. smSession'[k].who \notin smNamed' =>
          \A t \in SmIds : smSeat'[t].who # smSession'[k].who
    <3>1. smNamed' = smNamed
      BY <1>1
    <3> QED
      BY <2>2, <2>3, <3>1
  <2> QED
    BY <2>3, <2>4, MapToTake
<1> QED
  BY <1>1, <1>2, <1>3, <1>4, <1>5, <1>7, MapWrites

LEMMA MapLooks ==
  ASSUME MapInv, NEW k \in SmSessions, SMLook(k)
  PROVE  MapInv'
<1> DEFINE old == smSession[k]
           read == [i \in {old.to} |-> smSeat[i]]
           call == [old EXCEPT !.doing = "sit", !.seen = read]
<1>1. /\ old.doing = "look" /\ smSeat' = smSeat
      /\ smPaper' = smPaper /\ smCheckedIn' = smCheckedIn
      /\ smNamed' = smNamed /\ smOps' = smOps /\ smOverlap' = smOverlap
      /\ \/ smSession' = [smSession EXCEPT ![k] = SmIdle]
         \/ old.to \in SmAvailable /\ smSession' = [smSession EXCEPT ![k] = call]
  BY DEF SMLook, SmDoing, SmGo
<1>2. /\ old \in MapRequest(smOps) /\ smOps \in Nat /\ MapReads(old)
      /\ smSeat \in [SmIds -> MapRow(smOps)]
      /\ smPaper \in [SmPassengers -> 0..SmSeats] /\ smCheckedIn \in BOOLEAN
  BY <1>1, MapActing
<1>3. CASE smSession' = [smSession EXCEPT ![k] = SmIdle]
  <2>1. SmIdle.doing = "idle"
    BY DEF SmIdle
  <2> QED
    BY <1>1, <1>2, <1>3, <2>1, MapEnds
<1>4. CASE old.to \in SmAvailable /\ smSession' = [smSession EXCEPT ![k] = call]
  <2>1. old.to \in SmIds /\ smSeat[old.to].status = "available"
    BY <1>4 DEF SmAvailable
  <2>2. /\ call \in MapRequest(smOps) /\ call.doing = "sit" /\ call.who = old.who
        /\ call.to = old.to /\ call.seen = read
    <3>1. read \in MapSeen(smOps)
      <4>1. {old.to} \in SUBSET SmIds /\ read \in [{old.to} -> MapRow(smOps)]
        BY <1>2, <2>1
      <4> QED
        BY <4>1 DEF MapSeen
    <3>2. "sit" \in MapDoings
      BY DEF MapDoings
    <3>3. old \in MapRequest(smOps) /\ smOps \in Nat
      BY <1>2
    <3> HIDE DEF read, old
    <3> DEFINE turned == [old EXCEPT !.doing = "sit"]
    <3>4. /\ turned \in MapRequest(smOps) /\ turned.doing = "sit" /\ turned.who = old.who
          /\ turned.to = old.to
      BY <3>2, <3>3, MapTurned
    <3>5. call = [turned EXCEPT !.seen = read]
      OBVIOUS
    <3> HIDE DEF turned, call
    <3> QED
      BY <3>1, <3>4, <3>5 DEF MapRequest
  <2> HIDE DEF call
  <2>3. old.to \in DOMAIN call.seen /\ call.seen[old.to].status = "available"
    BY <2>1, <2>2
  <2>4. MapReads(call) /\ smSession'[k] = call
    <3>1. old.who \in SmPassengers
      BY <1>1, <1>2 DEF MapReads
    <3>2. smSession'[k] = call
      BY <1>4 DEF MapInv, MapTyped
    <3> QED
      BY <2>1, <2>2, <2>3, <3>1, <3>2 DEF MapReads
  <2>5. ASSUME MapStage(k) PROVE MapStage(k)'
    <3>1. old.who \notin smNamed => \A t \in SmIds : smSeat[t].who # old.who
      BY <1>1, <2>5 DEF MapStage
    <3>2. smSession'[k].doing = "sit" /\ smSession'[k].who = old.who
      BY <2>2, <2>4
    <3>3. smSession'[k].who \notin smNamed' =>
            \A t \in SmIds : smSeat'[t].who # smSession'[k].who
      BY <1>1, <3>1, <3>2
    <3> QED
      BY <3>2, <3>3, MapToTake
  <2>6. old.doing # "idle"
    BY <1>1
  <2> QED
    BY <1>1, <1>2, <1>4, <2>2, <2>4, <2>5, <2>6, MapQuiet
<1> QED
  BY <1>1, <1>3, <1>4

\* A passenger takes a seat: selectSeat.
LEMMA MapSits ==
  ASSUME MapInv, NEW k \in SmSessions, SMSit(k)
  PROVE  MapInv'
<1> DEFINE old == smSession[k]
           call == [old EXCEPT !.doing = "note"]
           row == [status |-> "occupied", who |-> old.who, seq |-> smSeat[old.to].seq]
<1>1. /\ old.doing = "sit" /\ smSeat' = [smSeat EXCEPT ![old.to] = row]
      /\ smSession' = [smSession EXCEPT ![k] = call]
      /\ smPaper' = smPaper /\ smCheckedIn' = smCheckedIn
      /\ smNamed' = smNamed /\ smOps' = smOps /\ smOverlap' = smOverlap
  BY DEF SMSit, SmDoing, SmWrite, SmNext, SmGo
<1>2. /\ old \in MapRequest(smOps) /\ smOps \in Nat /\ MapReads(old)
      /\ smSeat \in [SmIds -> MapRow(smOps)] /\ (~smOverlap => MapStage(k))
      /\ smPaper \in [SmPassengers -> 0..SmSeats] /\ smCheckedIn \in BOOLEAN
  BY <1>1, MapActing
<1>3. call \in MapRequest(smOps) /\ call.doing = "note"
  <2>1. "note" \in MapDoings
    BY DEF MapDoings
  <2> QED
    BY <1>2, <2>1, MapTurned
<1>4. old.who \in SmPassengers /\ old.to \in SmIds
  BY <1>1, <1>2 DEF MapReads
<1>5. row \in MapRow(smOps) /\ row.status = "occupied" /\ row.who = old.who
  <2>1. smSeat[old.to].seq \in 0..smOps
    BY <1>2, <1>4 DEF MapRow
  <2> QED
    BY <1>2, <1>4, <2>1, MapRows
<1> HIDE DEF call, row
<1>6. smSession'[k] = call
  BY <1>1 DEF MapInv, MapTyped
<1>7. MapReads(call) /\ MapStage(k)'
  BY <1>3, <1>6, MapCalm
<1>8. ASSUME MapStage(k), row.who \in SmPassengers \ smNamed
      PROVE  SmSeatsOf(row.who) \subseteq {old.to}
  BY <1>1, <1>5, <1>8 DEF MapStage, SmSeatsOf
<1> QED
  BY <1>1, <1>2, <1>3, <1>4, <1>5, <1>7, <1>8, MapWrites

\* releaseSeat, blockSeat and unblockSeat, by the row that was read.
LEMMA MapReleases ==
  ASSUME MapInv, NEW k \in SmSessions, SMRelease(k) \/ SMBlock(k)
  PROVE  MapInv'
<1> DEFINE old == smSession[k]
           note == [old EXCEPT !.doing = "note"]
           row == IF old.doing = "release" THEN SmFreed
                  ELSE [smSeat[old.seat] EXCEPT
                          !.status = IF old.doing = "block" THEN "blocked" ELSE "available"]
<1>1. /\ old.doing \in {"release", "block", "unblock"}
      /\ smSeat' = [smSeat EXCEPT ![old.seat] = row]
      /\ \/ smSession' = [smSession EXCEPT ![k] = SmIdle]
         \/ smSession' = [smSession EXCEPT ![k] = note]
      /\ smPaper' = smPaper /\ smCheckedIn' = smCheckedIn
      /\ smNamed' = smNamed /\ smOps' = smOps /\ smOverlap' = smOverlap
  BY DEF SMRelease, SMBlock, SmDoing, SmWrite, SmNext, SmGo
<1>2. /\ old \in MapRequest(smOps) /\ smOps \in Nat /\ old.seat \in SmIds
      /\ smSeat \in [SmIds -> MapRow(smOps)] /\ (~smOverlap => MapStage(k))
      /\ smPaper \in [SmPassengers -> 0..SmSeats] /\ smCheckedIn \in BOOLEAN
      /\ SmNobody \notin SmPassengers
  BY <1>1, MapActing
<1>3. note \in MapRequest(smOps) /\ note.doing = "note"
  <2>1. "note" \in MapDoings
    BY DEF MapDoings
  <2> QED
    BY <1>2, <2>1, MapTurned
<1>4. /\ row \in MapRow(smOps) /\ row.status \in {"available", "blocked"}
      /\ \/ old.doing = "release" /\ row.who = SmNobody
         \/ old.doing \in {"block", "unblock"} /\ row.who = smSeat[old.seat].who
  <2>1. CASE old.doing = "release"
    <3>1. SmFreed \in MapRow(smOps)
      BY <1>2, MapRows
    <3> QED
      BY <2>1, <3>1 DEF SmFreed
  <2>2. CASE old.doing # "release"
    <3>1. smSeat[old.seat] \in MapRow(smOps)
      BY <1>2
    <3> QED
      BY <1>1, <2>2, <3>1 DEF MapRow
  <2> QED
    BY <2>1, <2>2
<1> HIDE DEF note, row
<1>5. \E call \in {SmIdle} \cup MapRequest(smOps) :
        /\ call.doing \in {"idle", "note"} /\ smSession' = [smSession EXCEPT ![k] = call]
  <2>1. SmIdle.doing = "idle"
    BY DEF SmIdle
  <2> QED
    BY <1>1, <1>3, <2>1
<1>6. PICK call \in {SmIdle} \cup MapRequest(smOps) :
        /\ call.doing \in {"idle", "note"} /\ smSession' = [smSession EXCEPT ![k] = call]
  BY <1>5
<1>7. smSession'[k] = call
  BY <1>6 DEF MapInv, MapTyped
<1>8. MapReads(call) /\ MapStage(k)'
  BY <1>6, <1>7, MapCalm
<1>9. ASSUME MapStage(k) PROVE row.who = SmNobody
  BY <1>4, <1>9 DEF MapStage
<1>10. old.doing # "idle" /\ row.status # "checked_in"
  BY <1>1, <1>4
<1> QED
  BY <1>1, <1>2, <1>4, <1>6, <1>8, <1>9, <1>10, MapWrites

\* changeSeat gives up the old seat, then takes the new one.
LEMMA MapLeaves ==
  ASSUME MapInv, NEW k \in SmSessions, SMLeave(k)
  PROVE  MapInv'
<1> DEFINE old == smSession[k]
           call == [old EXCEPT !.doing = "move"]
<1>1. /\ old.doing = "leave" /\ smSeat' = [smSeat EXCEPT ![old.seat] = SmFreed]
      /\ smSession' = [smSession EXCEPT ![k] = call]
      /\ smPaper' = smPaper /\ smCheckedIn' = smCheckedIn
      /\ smNamed' = smNamed /\ smOps' = smOps /\ smOverlap' = smOverlap
  BY DEF SMLeave, SmDoing, SmWrite, SmNext, SmGo
<1>2. /\ old \in MapRequest(smOps) /\ smOps \in Nat /\ old.seat \in SmIds /\ MapReads(old)
      /\ smSeat \in [SmIds -> MapRow(smOps)] /\ (~smOverlap => MapStage(k))
      /\ smPaper \in [SmPassengers -> 0..SmSeats] /\ smCheckedIn \in BOOLEAN
      /\ SmNobody \notin SmPassengers
  BY <1>1, MapActing
<1>3. /\ call \in MapRequest(smOps) /\ call.doing = "move" /\ call.who = old.who
      /\ call.seat = old.seat /\ call.to = old.to /\ call.seen = old.seen
  <2>1. "move" \in MapDoings
    BY DEF MapDoings
  <2> QED
    BY <1>2, <2>1, MapTurned
<1>4. /\ SmFreed \in MapRow(smOps) /\ SmFreed.status = "available" /\ SmFreed.who = SmNobody
  <2>1. SmFreed \in MapRow(smOps)
    BY <1>2, MapRows
  <2> QED
    BY <2>1 DEF SmFreed
<1> HIDE DEF call
<1>5. /\ MapReads(call) /\ old.who \in SmPassengers /\ old.seen[old.seat].who = old.who
      /\ old.seat \in DOMAIN old.seen
  BY <1>1, <1>2, <1>3 DEF MapReads
<1>6. /\ smSession'[k] = call /\ smSeat'[old.seat] = SmFreed
      /\ \A t \in SmIds \ {old.seat} : smSeat'[t] = smSeat[t]
  BY <1>1, <1>2 DEF MapInv, MapTyped
<1>7. ASSUME ~smOverlap, MapUnique, MapStage(k) PROVE MapStage(k)'
  <2>1. smSeat[old.seat] = old.seen[old.seat]
    BY <1>1, <1>7 DEF MapStage
  <2>2. ASSUME old.who \notin smNamed, NEW t \in SmIds PROVE smSeat'[t].who # old.who
    <3>1. CASE t = old.seat
      BY <1>2, <1>4, <1>5, <1>6, <3>1
    <3>2. CASE t # old.seat
      <4>1. smSeat[t].who = old.who => t \in SmSeatsOf(old.who) /\ old.seat \in SmSeatsOf(old.who)
        BY <1>2, <1>5, <2>1 DEF SmSeatsOf
      <4> QED
        BY <1>5, <1>6, <1>7, <2>2, <3>2, <4>1 DEF MapUnique
    <3> QED
      BY <3>1, <3>2
  <2>3. ASSUME old.seen[old.seat].status = "checked_in", NEW t \in SmIds,
               smSeat'[t].status = "checked_in"
        PROVE  smSeat'[t].seq # old.seen[old.seat].seq
    <3>1. t # old.seat
      BY <1>4, <1>6, <2>3
    <3>2. smSeat'[t] = smSeat[t]
      BY <1>6, <3>1
    <3> QED
      BY <1>2, <1>7, <2>1, <2>3, <3>1, <3>2 DEF MapUnique
  <2>4. /\ smSession'[k].doing = "move" /\ smSession'[k].who = old.who
        /\ smSession'[k].seat = old.seat /\ smSession'[k].seen = old.seen
    BY <1>3, <1>6
  <2>5. smNamed' = smNamed
    BY <1>1
  <2>6. smSession'[k].who \notin smNamed' => \A t \in SmIds : smSeat'[t].who # smSession'[k].who
    BY <2>2, <2>4, <2>5
  <2>7. smSession'[k].seen[smSession'[k].seat].status = "checked_in" =>
          \A t \in SmIds : smSeat'[t].status = "checked_in" =>
            smSeat'[t].seq # smSession'[k].seen[smSession'[k].seat].seq
    BY <2>3, <2>4
  <2> QED
    BY <2>4, <2>6, <2>7 DEF MapStage
<1>8. old.doing # "idle" /\ SmFreed.status # "checked_in" /\ SmFreed.who \notin SmPassengers
  BY <1>1, <1>2, <1>4
<1> QED
  BY <1>1, <1>2, <1>3, <1>4, <1>5, <1>7, <1>8, MapWrites

\* A passenger is put on a seat with the sequence that was read, by changeSeat
\* and by checkIn.
LEMMA MapPuts ==
  ASSUME MapInv, NEW k \in SmSessions, SMMove(k) \/ SMCheckIn(k)
  PROVE  MapInv'
<1> DEFINE old == smSession[k]
           was == old.seen[old.seat]
           what == IF old.doing = "move" THEN "note" ELSE "note and count"
           call == [old EXCEPT !.doing = what]
           row == IF old.doing = "check in"
                  THEN [status |-> "checked_in", who |-> old.who, seq |-> old.next]
                  ELSE IF was.status = "checked_in"
                       THEN [status |-> "checked_in", who |-> old.who, seq |-> was.seq]
                       ELSE [status |-> "occupied", who |-> old.who, seq |-> 0]
<1>1. /\ old.doing \in {"move", "check in"} /\ smSeat' = [smSeat EXCEPT ![old.to] = row]
      /\ smSession' = [smSession EXCEPT ![k] = call]
      /\ smPaper' = smPaper /\ smCheckedIn' = smCheckedIn
      /\ smNamed' = smNamed /\ smOps' = smOps /\ smOverlap' = smOverlap
  BY DEF SMMove, SMCheckIn, SmDoing, SmWrite, SmNext, SmGo
<1>2. /\ old \in MapRequest(smOps) /\ smOps \in Nat /\ MapReads(old) /\ old.next \in 0..smOps
      /\ smSeat \in [SmIds -> MapRow(smOps)] /\ (~smOverlap => MapStage(k))
      /\ smPaper \in [SmPassengers -> 0..SmSeats] /\ smCheckedIn \in BOOLEAN
      /\ \A s \in DOMAIN old.seen : old.seen[s] \in MapRow(smOps)
  BY <1>1, MapActing
<1>3. call \in MapRequest(smOps) /\ call.doing \in {"note", "note and count"}
  <2>1. what \in MapDoings /\ what \in {"note", "note and count"}
    BY DEF MapDoings
  <2>2. old \in MapRequest(smOps) /\ smOps \in Nat
    BY <1>2
  <2> HIDE DEF what, old
  <2>3. call \in MapRequest(smOps) /\ call.doing = what
    BY <2>1, <2>2, MapTurned
  <2> QED
    BY <2>1, <2>3
<1>4. /\ old.who \in SmPassengers /\ old.to \in SmIds
      /\ old.doing = "move" => was \in MapRow(smOps)
  BY <1>1, <1>2 DEF MapReads
<1>5. /\ row \in MapRow(smOps) /\ row.who = old.who
      /\ row.status \in {"occupied", "checked_in"}
  <2>1. CASE old.doing = "check in"
    BY <1>2, <1>4, <2>1 DEF MapRow
  <2>2. CASE old.doing = "move"
    <3>1. was.seq \in 0..smOps /\ 0 \in 0..smOps
      BY <1>2, <1>4, <2>2 DEF MapRow
    <3> HIDE DEF was
    <3> QED
      BY <1>4, <2>2, <3>1 DEF MapRow
  <2> QED
    BY <1>1, <2>1, <2>2
<1>6. row.status = "checked_in" =>
        \/ old.doing = "check in" /\ row.seq = old.next
        \/ old.doing = "move" /\ was.status = "checked_in" /\ row.seq = was.seq
  BY <1>1
<1> HIDE DEF call, row
<1>7. smSession'[k] = call
  BY <1>1 DEF MapInv, MapTyped
<1>8. MapReads(call) /\ MapStage(k)'
  BY <1>3, <1>7, MapCalm
<1>9. ASSUME MapStage(k)
      PROVE  /\ row.who \in SmPassengers \ smNamed => SmSeatsOf(row.who) \subseteq {old.to}
             /\ row.status = "checked_in" =>
                  \A t \in SmIds \ {old.to} : smSeat[t].status = "checked_in" =>
                    smSeat[t].seq # row.seq
  <2>1. CASE old.doing = "move"
    <3>1. old.who \notin smNamed => \A t \in SmIds : smSeat[t].who # old.who
      BY <1>9, <2>1 DEF MapStage
    <3>2. was.status = "checked_in" =>
            \A t \in SmIds : smSeat[t].status = "checked_in" => smSeat[t].seq # was.seq
      BY <1>9, <2>1 DEF MapStage
    <3> HIDE DEF was
    <3> QED
      BY <1>5, <1>6, <2>1, <3>1, <3>2 DEF SmSeatsOf
  <2>2. CASE old.doing = "check in"
    <3>1. old.who \notin smNamed => \A t \in SmIds : smSeat[t].who = old.who => t = old.to
      BY <1>9, <2>2 DEF MapStage
    <3>2. \A t \in SmIds : smSeat[t].seq < old.next /\ smSeat[t].seq \in Nat
      <4>1. \A t \in SmIds : smSeat[t].seq < old.next
        BY <1>9, <2>2 DEF MapStage
      <4>2. \A t \in SmIds : smSeat[t].seq \in Nat
        BY <1>2 DEF MapRow
      <4> QED
        BY <4>1, <4>2
    <3>3. row.status = "checked_in" => row.seq = old.next /\ old.next \in Nat
      <4>1. old.next \in Nat
        BY <1>2
      <4>2. row.status = "checked_in" => row.seq = old.next
        BY <1>6, <2>2
      <4> QED
        BY <4>1, <4>2
    <3>4. row.who \in SmPassengers \ smNamed => SmSeatsOf(row.who) \subseteq {old.to}
      BY <1>5, <3>1 DEF SmSeatsOf
    <3>5. row.status = "checked_in" => \A t \in SmIds : smSeat[t].seq # row.seq
      BY <3>2, <3>3
    <3> QED
      BY <3>4, <3>5
  <2> QED
    BY <1>1, <2>1, <2>2
<1>10. old.doing # "idle" /\ row.status \notin {"available", "blocked"}
       /\ row.who \in SmPassengers
  BY <1>1, <1>4, <1>5
<1> QED
  BY <1>1, <1>2, <1>3, <1>4, <1>5, <1>8, <1>9, <1>10, MapWrites

\* undoCheckIn
LEMMA MapUndoes ==
  ASSUME MapInv, NEW k \in SmSessions, SMUndo(k)
  PROVE  MapInv'
<1> DEFINE old == smSession[k]
           call == [old EXCEPT !.doing = "unmark"]
           row == [status |-> "occupied", who |-> smSeat[old.seat].who, seq |-> 0]
<1>1. /\ old.doing = "undo" /\ smSeat' = [smSeat EXCEPT ![old.seat] = row]
      /\ smSession' = [smSession EXCEPT ![k] = call]
      /\ smPaper' = smPaper /\ smCheckedIn' = smCheckedIn
      /\ smNamed' = smNamed /\ smOps' = smOps /\ smOverlap' = smOverlap
  BY DEF SMUndo, SmDoing, SmWrite, SmNext, SmGo
<1>2. /\ old \in MapRequest(smOps) /\ smOps \in Nat /\ old.seat \in SmIds
      /\ smSeat \in [SmIds -> MapRow(smOps)]
      /\ smPaper \in [SmPassengers -> 0..SmSeats] /\ smCheckedIn \in BOOLEAN
  BY <1>1, MapActing
<1>3. call \in MapRequest(smOps) /\ call.doing = "unmark"
  <2>1. "unmark" \in MapDoings
    BY DEF MapDoings
  <2> QED
    BY <1>2, <2>1, MapTurned
<1>4. row \in MapRow(smOps) /\ row.status = "occupied" /\ row.who = smSeat[old.seat].who
  <2>1. smSeat[old.seat].who \in SmPassengers \cup {SmNobody} /\ 0 \in 0..smOps
    BY <1>2 DEF MapRow
  <2> QED
    BY <1>2, <2>1, MapRows
<1> HIDE DEF call, row
<1>5. smSession'[k] = call
  BY <1>1 DEF MapInv, MapTyped
<1>6. MapReads(call) /\ MapStage(k)'
  BY <1>3, <1>5, MapCalm
<1>7. ASSUME MapUnique, row.who \in SmPassengers \ smNamed
      PROVE  SmSeatsOf(row.who) \subseteq {old.seat}
  <2>1. old.seat \in SmSeatsOf(row.who)
    BY <1>2, <1>4 DEF SmSeatsOf
  <2> QED
    BY <1>7, <2>1 DEF MapUnique
<1>8. old.doing # "idle" /\ row.status # "checked_in"
      /\ row.status \notin {"available", "blocked"}
  BY <1>1, <1>4
<1> QED
  BY <1>1, <1>2, <1>3, <1>4, <1>6, <1>7, <1>8, MapWrites

\* The sequence that checkIn reads is above every one that is on a seat.
LEMMA MapSequence ==
  ASSUME MapInv, SmIds # {}
  PROVE  SmSequence \in 0..(smOps + 1) /\ \A t \in SmIds : smSeat[t].seq < SmSequence
<1> DEFINE seq == [t \in SmIds |-> smSeat[t].seq]
           T == {seq[t] : t \in SmIds}
<1>1. /\ smSeat \in [SmIds -> MapRow(smOps)] /\ smOps \in Nat
  BY SeatMapAssumption DEF MapInv, MapTyped
<1>2. \A t \in SmIds : seq[t] \in 0..smOps /\ seq[t] = smSeat[t].seq
  BY <1>1 DEF MapRow
<1>3. IsFiniteSet(SmIds)
  BY SeatMapAssumption, FS_Interval DEF SmIds
<1>4. T = {smSeat[t].seq : t \in SmIds}
  OBVIOUS
<1> HIDE DEF seq
<1>5. IsFiniteSet(T)
  BY <1>3, ImageFinite
<1>6. T # {} /\ T \subseteq 0..smOps /\ T \subseteq Int /\ \A t \in SmIds : smSeat[t].seq \in T
  BY <1>1, <1>2
<1> HIDE DEF T
<1>7. Max(T) \in T /\ \A x \in T : x <= Max(T)
  BY <1>5, <1>6, MaxIs
<1>8. SmSequence = 1 + Max(T)
  BY <1>4 DEF SmSequence
<1>9. Max(T) \in 0..smOps
  BY <1>6, <1>7
<1>10. SmSequence \in 0..(smOps + 1)
  BY <1>1, <1>8, <1>9
<1>11. ASSUME NEW t \in SmIds PROVE smSeat[t].seq < SmSequence
  <2>1. smSeat[t].seq <= Max(T) /\ smSeat[t].seq \in Nat /\ Max(T) \in Nat
    BY <1>1, <1>2, <1>6, <1>7, <1>9
  <2> QED
    BY <1>8, <2>1
<1> QED
  BY <1>10, <1>11

LEMMA MapStarts ==
  ASSUME MapInv, NEW k \in SmSessions, NEW what, NEW p, NEW s, NEW t,
         SmStart(k, what, p, s, t), MapMay(what, p, s, t, 0), what # "check in",
         smNamed' = smNamed,
         MapUnique => (what \in {"block", "unblock"} => smSeat[s].who = SmNobody)
  PROVE  MapInv'
<1>1. SmStartWith(k, what, p, s, t, 0)
  BY DEF SmStart
<1>2. MapMayAlone(what, p, s, t, 0, smNamed')
  BY DEF MapMayAlone
<1>3. smNamed \subseteq smNamed' /\ smNamed' \subseteq SmPassengers
  BY DEF MapInv, MapTyped
<1> QED
  BY <1>1, <1>2, <1>3, MapBegins

LEMMA MapRequests ==
  ASSUME MapInv, NEW k \in SmSessions, NEW s \in SmIds,
         \/ SMReadToRelease(k, s) \/ SMReadToBlock(k, s) \/ SMReadToUnblock(k, s)
         \/ \E p \in SmPassengers :
              \/ SMSelect(k, p, s) \/ SMReadToUndo(k, p, s)
              \/ \E t \in SmIds : SMReadToChange(k, p, s, t)
              \/ \E named \in BOOLEAN : SMReadToCheckIn(k, p, s, named)
  PROVE  MapInv'
<1>1. /\ smSeat \in [SmIds -> MapRow(smOps)] /\ smOps \in Nat /\ smNamed \subseteq SmPassengers
      /\ 0 \in 0..SmSeats /\ 0 \in 0..(smOps + 1)
  BY SeatMapAssumption DEF MapInv, MapTyped
<1>2. \A t \in SmIds : t \in 0..SmSeats /\ smSeat[t].who \in SmPassengers \cup {SmNobody}
  BY <1>1, MapSeats DEF MapRow
<1>3. CASE SMReadToRelease(k, s)
  <2>1. smSeat[s].status \notin {"available", "checked_in"} /\ smNamed' = smNamed
        /\ SmStart(k, "release", smSeat[s].who, s, 0)
    BY <1>3 DEF SMReadToRelease, SmReleasable
  <2>2. MapMay("release", smSeat[s].who, s, 0, 0)
    BY <1>1, <1>2, <2>1 DEF MapMay
  <2> QED
    BY <2>1, <2>2, MapStarts
<1>4. CASE SMReadToBlock(k, s) \/ SMReadToUnblock(k, s)
  <2>1. smSeat[s].status \in {"available", "blocked"} /\ smNamed' = smNamed
        /\ \E what \in {"block", "unblock"} : SmStart(k, what, SmNobody, s, 0)
    BY <1>4 DEF SMReadToBlock, SMReadToUnblock, SmAvailable
  <2>2. PICK what \in {"block", "unblock"} : SmStart(k, what, SmNobody, s, 0)
    BY <2>1
  <2>3. MapMay(what, SmNobody, s, 0, 0)
    BY <1>1, <2>2 DEF MapMay
  <2>4. MapUnique => smSeat[s].who = SmNobody
    BY <2>1 DEF MapUnique
  <2>5. what # "check in"
    BY <2>2
  <2> QED
    BY <2>1, <2>2, <2>3, <2>4, <2>5, MapStarts
<1>5. ASSUME NEW p \in SmPassengers, SMSelect(k, p, s) PROVE MapInv'
  <2>1. CASE SmHeld(p) = {}
    <3>1. SmStart(k, "look", p, s, s) /\ smNamed' = smNamed
          /\ \A u \in SmIds : smSeat[u].who # p
      BY <1>5, <2>1 DEF SMSelect, SmHeld, SmSeatsOf
    <3>2. MapMay("look", p, s, s, 0)
      BY <1>1, <1>2, <3>1 DEF MapMay
    <3> QED
      BY <3>1, <3>2, MapStarts
  <2>2. CASE SmHeld(p) # {}
    <3>1. PICK u \in SmHeld(p) : SmStart(k, "give up", p, u, s)
      BY <1>5, <2>2 DEF SMSelect
    <3>2. u \in SmIds /\ smSeat[u].who = p /\ smNamed' = smNamed
      BY <1>5, <3>1 DEF SMSelect, SmHeld, SmSeatsOf
    <3>3. MapMay("give up", p, u, s, 0)
      BY <1>1, <1>2, <3>2 DEF MapMay
    <3> QED
      BY <3>1, <3>2, <3>3, MapStarts
  <2> QED
    BY <2>1, <2>2
<1>6. ASSUME NEW p \in SmPassengers, SMReadToUndo(k, p, s) PROVE MapInv'
  <2>1. SmStart(k, "undo", p, s, s) /\ smNamed' = smNamed
    BY <1>6 DEF SMReadToUndo
  <2>2. MapMay("undo", p, s, s, 0)
    BY <1>1, <1>2 DEF MapMay
  <2> QED
    BY <2>1, <2>2, MapStarts
<1>7. ASSUME NEW p \in SmPassengers, NEW t \in SmIds, SMReadToChange(k, p, s, t) PROVE MapInv'
  <2>1. SmStart(k, "leave", p, s, t) /\ smNamed' = smNamed
        /\ smSeat[s].who = p /\ smSeat[t].status = "available"
    BY <1>7 DEF SMReadToChange, SmAvailable
  <2>2. MapMay("leave", p, s, t, 0)
    BY <1>1, <1>2, <2>1 DEF MapMay
  <2> QED
    BY <2>1, <2>2, MapStarts
<1>8. ASSUME NEW p \in SmPassengers, NEW named \in BOOLEAN, SMReadToCheckIn(k, p, s, named)
      PROVE  MapInv'
  <2>1. /\ SmIn(p) = {} /\ smSeat[s].who \in {SmNobody, p}
        /\ SmStartWith(k, "check in", p, s, s, SmSequence)
        /\ smNamed' = IF s \in SmAutomatic(p) THEN smNamed ELSE smNamed \cup {p}
    BY <1>8 DEF SMReadToCheckIn
  <2>2. SmSequence \in 0..(smOps + 1) /\ \A t \in SmIds : smSeat[t].seq < SmSequence
    BY MapSequence
  <2>3. MapMay("check in", p, s, s, SmSequence)
    BY <1>1, <1>2, <2>1, <2>2 DEF MapMay
  <2>4. smNamed \subseteq smNamed' /\ smNamed' \subseteq SmPassengers
    BY <1>1, <2>1
  <2>5. ASSUME MapUnique, p \notin smNamed', NEW u \in SmIds, smSeat[u].who = p PROVE u = s
    <3>1. s \in SmAutomatic(p) /\ p \notin smNamed
      BY <2>1, <2>5
    <3>2. u \in SmSeatsOf(p)
      BY <2>5 DEF SmSeatsOf
    <3>3. smSeat[u].status = "occupied"
      <4>1. smSeat[u].status # "checked_in"
        BY <2>1, <2>5 DEF SmIn
      <4>2. smSeat[u].status \notin {"available", "blocked"}
        BY <2>5, SeatMapAssumption DEF MapUnique
      <4>3. smSeat[u].status \in {"available", "occupied", "blocked", "checked_in"}
        BY <1>1 DEF MapRow
      <4> QED
        BY <4>1, <4>2, <4>3
    <3>4. s \in SmSeatsOf(p)
      BY <3>1, <3>2, <3>3 DEF SmAutomatic
    <3> QED
      BY <2>5, <3>1, <3>2, <3>4 DEF MapUnique
  <2>6. MapMayAlone("check in", p, s, s, SmSequence, smNamed')
    BY <2>2, <2>5 DEF MapMayAlone
  <2> QED
    BY <2>1, <2>3, <2>4, <2>6, MapBegins
<1> QED
  BY <1>3, <1>4, <1>5, <1>6, <1>7, <1>8

LEMMA MapSame ==
  ASSUME MapInv, UNCHANGED smVars
  PROVE  MapInv'
<1>1. /\ smSeat' = smSeat /\ smPaper' = smPaper /\ smCheckedIn' = smCheckedIn
      /\ smSession' = smSession /\ smOverlap' = smOverlap /\ smNamed' = smNamed /\ smOps' = smOps
  BY DEF smVars
<1>2. MapTyped'
  <2>1. (MapRow(smOps))' = MapRow(smOps)
    BY <1>1 DEF MapRow
  <2>2. (MapRequest(smOps))' = MapRequest(smOps)
    BY Zenon, <1>1, <2>1 DEF MapRequest, MapSeen
  <2>3. MapTyped
    BY DEF MapInv
  <2> QED
    BY <1>1, <2>1, <2>2, <2>3 DEF MapTyped
<1>3. \A s \in SmIds : smSeat'[s].status = "checked_in" => smSeat'[s].who \in SmPassengers
  BY <1>1 DEF MapInv
<1>4. \A k \in SmSessions : MapReads(smSession'[k])
  BY <1>1 DEF MapInv
<1>5. MapUnique' <=> MapUnique
  BY <1>1 DEF MapUnique, SmSeatsOf
<1>6. MapAlone' <=> MapAlone
  BY <1>1 DEF MapAlone, MapIdle, MapStage
<1> QED
  BY <1>1, <1>2, <1>3, <1>4, <1>5, <1>6 DEF MapInv

LEMMA MapNext ==
  ASSUME MapInv, [SMNext]_smVars
  PROVE  MapInv'
<1>1. ASSUME NEW k \in SmSessions, NEW s \in SmIds,
             \/ SMReadToRelease(k, s) \/ SMReadToBlock(k, s) \/ SMReadToUnblock(k, s)
             \/ \E p \in SmPassengers :
                  \/ SMSelect(k, p, s) \/ SMReadToUndo(k, p, s)
                  \/ \E t \in SmIds : SMReadToChange(k, p, s, t)
                  \/ \E named \in BOOLEAN : SMReadToCheckIn(k, p, s, named)
      PROVE  MapInv'
  BY <1>1, MapRequests
<1>2. ASSUME NEW k \in SmSessions,
             \/ SMGiveUp(k) \/ SMLook(k) \/ SMSit(k) \/ SMNote(k)
             \/ SMRelease(k) \/ SMBlock(k) \/ SMLeave(k) \/ SMMove(k)
             \/ SMCheckIn(k) \/ SMNoteCheckIn(k) \/ SMCount(k) \/ SMUndo(k) \/ SMUnmark(k)
             \/ SMFail(k)
      PROVE  MapInv'
  BY <1>2, MapGivesUp, MapLooks, MapSits, MapSilent, MapReleases, MapLeaves, MapPuts, MapUndoes
<1>3. ASSUME UNCHANGED smVars PROVE MapInv'
  BY <1>3, MapSame
<1> QED
  BY <1>1, <1>2, <1>3 DEF SMNext

LEMMA MapSpec == SMSpec => []MapInv
<1>1. MapInv /\ [SMNext]_smVars => MapInv'
  BY MapNext
<1> QED
  BY <1>1, MapInit, PTL DEF SMSpec

\* seat-map.service.ts: as long as no request has begun while another was in
\* progress, a passenger has one seat, unless a check-in named another, and no
\* two seats that are checked in have the same boarding sequence, although
\* checkIn reads it as a maximum before it writes it.
THEOREM OneSeat == SMSpec => []SMOneSeat
<1>1. MapInv => SMOneSeat
  BY MapInvImplies
<1> QED
  BY <1>1, MapSpec, PTL

\* What a step may do to the passenger of a seat that is checked in.
MapKept(k, s) ==
  \/ smSession[k].who = smSeat[s].who /\ ~SmDoing(k, "release")
  \/ s \in DOMAIN smSession[k].seen /\ smSession[k].seen[s] # smSeat[s]
MapKeeps ==
  \A s \in SmIds :
    smSeat[s].status = "checked_in" /\ smSeat'[s].who # smSeat[s].who =>
      \E k \in SmSessions :
        /\ smSession'[k] # smSession[k]
        /\ \/ smSession[k].who = smSeat[s].who /\ ~SmDoing(k, "release")
           \/ s \in DOMAIN smSession[k].seen /\ smSession[k].seen[s] # smSeat[s]

LEMMA MapWriteKeeps ==
  ASSUME MapInv, NEW k \in SmSessions, NEW call, smSession[k].doing # "idle",
         smSession' = [smSession EXCEPT ![k] = call], call.doing # smSession[k].doing,
         NEW s \in SmIds, NEW row, smSeat' = [smSeat EXCEPT ![s] = row],
         smSeat[s].status = "checked_in" /\ row.who # smSeat[s].who => MapKept(k, s)
  PROVE  MapKeeps
<1>1. smSeat'[s] = row /\ \A t \in SmIds \ {s} : smSeat'[t] = smSeat[t]
  BY DEF MapInv, MapTyped
<1>2. smSession'[k] # smSession[k]
  BY DEF MapInv, MapTyped
<1> QED
  BY <1>1, <1>2 DEF MapKeeps, MapKept

LEMMA MapGiveUpKeeps ==
  ASSUME MapInv, NEW k \in SmSessions, SMGiveUp(k) \/ SMLeave(k)
  PROVE  MapKeeps
<1> DEFINE old == smSession[k]
           s == old.seat
<1>1. old.doing \in {"give up", "leave"}
  BY DEF SMGiveUp, SMLeave, SmDoing
<1>2. /\ old \in MapRequest(smOps) /\ MapReads(old) /\ s \in SmIds
  BY <1>1, MapActing
<1>3. s \in DOMAIN old.seen /\ old.seen[s].who = old.who
  BY <1>1, <1>2 DEF MapReads
<1>4. MapKept(k, s)
  BY <1>1, <1>3 DEF MapKept, SmDoing
<1>5. CASE SMGiveUp(k)
  <2>1. /\ smSeat' = [smSeat EXCEPT ![s] = [status |-> "available", who |-> SmNobody, seq |-> smSeat[s].seq]]
        /\ smSession' = [smSession EXCEPT ![k] = [old EXCEPT !.doing = "look"]]
    BY <1>5 DEF SMGiveUp, SmWrite, SmNext, SmGo
  <2>2. [old EXCEPT !.doing = "look"].doing = "look"
    BY <1>2 DEF MapRequest
  <2> HIDE DEF s, old
  <2> QED
    BY <1>1, <1>2, <1>4, <2>1, <2>2, MapWriteKeeps DEF old
<1>6. CASE SMLeave(k)
  <2>1. /\ smSeat' = [smSeat EXCEPT ![s] = SmFreed]
        /\ smSession' = [smSession EXCEPT ![k] = [old EXCEPT !.doing = "move"]]
    BY <1>6 DEF SMLeave, SmWrite, SmNext, SmGo
  <2>2. [old EXCEPT !.doing = "move"].doing = "move"
    BY <1>2 DEF MapRequest
  <2> HIDE DEF s, old
  <2> QED
    BY <1>1, <1>2, <1>4, <2>1, <2>2, MapWriteKeeps DEF old
<1> QED
  BY <1>5, <1>6

LEMMA MapTakeKeeps ==
  ASSUME MapInv, NEW k \in SmSessions, SMSit(k) \/ SMMove(k) \/ SMCheckIn(k)
  PROVE  MapKeeps
<1> DEFINE old == smSession[k]
           s == old.to
<1>1. old.doing \in {"sit", "move", "check in"}
  BY DEF SMSit, SMMove, SMCheckIn, SmDoing
<1>2. /\ old \in MapRequest(smOps) /\ MapReads(old)
  BY <1>1, MapActing
<1>3. s \in SmIds /\ s \in DOMAIN old.seen
      /\ \/ old.seen[s].status = "available"
         \/ old.seen[s].who \in {SmNobody, old.who}
  BY <1>1, <1>2 DEF MapReads
<1>4. smSeat[s].status = "checked_in" => smSeat[s].who \in SmPassengers /\ smSeat[s].who # SmNobody
  BY <1>3, SeatMapAssumption DEF MapInv
<1>5. smSeat[s].status = "checked_in" => MapKept(k, s)
  BY <1>1, <1>3, <1>4 DEF MapKept, SmDoing
<1>6. \E what \in {"note", "note and count"} : \E row :
        /\ smSeat' = [smSeat EXCEPT ![s] = row]
        /\ smSession' = [smSession EXCEPT ![k] = [old EXCEPT !.doing = what]]
  BY DEF SMSit, SMMove, SMCheckIn, SmWrite, SmNext, SmGo
<1>7. PICK what \in {"note", "note and count"} : \E row :
        /\ smSeat' = [smSeat EXCEPT ![s] = row]
        /\ smSession' = [smSession EXCEPT ![k] = [old EXCEPT !.doing = what]]
  BY <1>6, Zenon
<1>8. PICK row :
        /\ smSeat' = [smSeat EXCEPT ![s] = row]
        /\ smSession' = [smSession EXCEPT ![k] = [old EXCEPT !.doing = what]]
  BY <1>7, Zenon
<1>9. [old EXCEPT !.doing = what].doing = what
  BY <1>2 DEF MapRequest
<1> HIDE DEF s, old
<1>10. [old EXCEPT !.doing = what].doing # old.doing /\ old.doing # "idle"
  BY <1>1, <1>7, <1>9
<1> QED
  BY <1>3, <1>5, <1>8, <1>10, MapWriteKeeps DEF old

LEMMA MapReleaseKeeps ==
  ASSUME MapInv, NEW k \in SmSessions, SMRelease(k)
  PROVE  MapKeeps
<1> DEFINE old == smSession[k]
           s == old.seat
           call == IF old.who = SmNobody THEN SmIdle ELSE [old EXCEPT !.doing = "note"]
<1>1. old.doing = "release" /\ smSeat' = [smSeat EXCEPT ![s] = SmFreed]
      /\ smSession' = [smSession EXCEPT ![k] = call]
  BY DEF SMRelease, SmDoing, SmWrite, SmNext, SmGo
<1>2. /\ old \in MapRequest(smOps) /\ MapReads(old) /\ s \in SmIds
  BY <1>1, MapActing
<1>3. s \in DOMAIN old.seen /\ old.seen[s].status # "checked_in"
  BY <1>1, <1>2 DEF MapReads
<1>4. smSeat[s].status = "checked_in" => MapKept(k, s)
  BY <1>3 DEF MapKept
<1>5. call.doing \in {"idle", "note"}
  BY <1>2 DEF MapRequest, SmIdle
<1> HIDE DEF call, s, old
<1> QED
  BY <1>1, <1>2, <1>4, <1>5, MapWriteKeeps DEF old

\* blockSeat, unblockSeat and undoCheckIn leave the passenger of the row.
LEMMA MapSparesAll ==
  ASSUME MapInv, NEW k \in SmSessions, SMBlock(k) \/ SMUndo(k)
  PROVE  \A s \in SmIds : smSeat'[s].who = smSeat[s].who
<1> DEFINE old == smSession[k]
           s == old.seat
<1>1. old.doing \in {"block", "unblock", "undo"}
  BY DEF SMBlock, SMUndo, SmDoing
<1>2. s \in SmIds /\ smSeat \in [SmIds -> MapRow(smOps)]
  BY <1>1, MapActing
<1>3. smSeat[s] \in MapRow(smOps)
  BY <1>2
<1>4. PICK row : smSeat' = [smSeat EXCEPT ![s] = row] /\ row.who = smSeat[s].who
  <2>1. CASE SMBlock(k)
    <3> DEFINE status == IF SmDoing(k, "block") THEN "blocked" ELSE "available"
    <3>1. smSeat' = [smSeat EXCEPT ![s] = [smSeat[s] EXCEPT !.status = status]]
      BY <2>1 DEF SMBlock, SmWrite
    <3> HIDE DEF status, s
    <3>2. [smSeat[s] EXCEPT !.status = status].who = smSeat[s].who
      BY <1>3 DEF MapRow
    <3> QED
      BY <3>1, <3>2
  <2>2. CASE SMUndo(k)
    <3> DEFINE row == [status |-> "occupied", who |-> smSeat[s].who, seq |-> 0]
    <3>1. smSeat' = [smSeat EXCEPT ![s] = row]
      BY <2>2 DEF SMUndo, SmWrite
    <3>2. row.who = smSeat[s].who
      OBVIOUS
    <3> HIDE DEF row
    <3> QED
      BY <3>1, <3>2
  <2> QED
    BY <2>1, <2>2
<1> HIDE DEF s
<1> QED
  BY <1>2, <1>4

LEMMA MapKeepsStep ==
  ASSUME MapInv, [SMNext]_smVars
  PROVE  MapKeeps
<1>1. ASSUME \A s \in SmIds : smSeat'[s].who = smSeat[s].who PROVE MapKeeps
  BY <1>1 DEF MapKeeps
<1>2. ASSUME smSeat' = smSeat PROVE MapKeeps
  BY <1>1, <1>2
<1>3. ASSUME NEW k \in SmSessions, NEW s \in SmIds,
             \/ SMReadToRelease(k, s) \/ SMReadToBlock(k, s) \/ SMReadToUnblock(k, s)
             \/ \E p \in SmPassengers :
                  \/ SMSelect(k, p, s) \/ SMReadToUndo(k, p, s)
                  \/ \E t \in SmIds : SMReadToChange(k, p, s, t)
                  \/ \E named \in BOOLEAN : SMReadToCheckIn(k, p, s, named)
      PROVE  smSeat' = smSeat
  <2>1. ASSUME NEW what, NEW p, NEW t, NEW u, NEW n, SmStartWith(k, what, p, t, u, n)
        PROVE  smSeat' = smSeat
    BY <2>1 DEF SmStartWith
  <2>2. ASSUME NEW what, NEW p, NEW t, NEW u, SmStart(k, what, p, t, u)
        PROVE  smSeat' = smSeat
    BY <2>1, <2>2 DEF SmStart
  <2>3. ASSUME NEW p \in SmPassengers, SMSelect(k, p, s)
        PROVE  smSeat' = smSeat
    <3>1. CASE SmHeld(p) = {}
      BY <2>2, <2>3, <3>1 DEF SMSelect
    <3>2. CASE SmHeld(p) # {}
      BY <2>2, <2>3, <3>2 DEF SMSelect
    <3> QED
      BY <3>1, <3>2
  <2>4. ASSUME NEW p \in SmPassengers, NEW named \in BOOLEAN, SMReadToCheckIn(k, p, s, named)
        PROVE  smSeat' = smSeat
    BY <2>1, <2>4 DEF SMReadToCheckIn
  <2> QED
    BY <1>3, <2>2, <2>3, <2>4 DEF SMReadToRelease, SMReadToBlock, SMReadToUnblock,
       SMReadToUndo, SMReadToChange
<1>4. ASSUME NEW k \in SmSessions,
             \/ SMLook(k) \/ SMNote(k) \/ SMNoteCheckIn(k) \/ SMCount(k) \/ SMUnmark(k) \/ SMFail(k)
      PROVE  smSeat' = smSeat
  BY <1>4 DEF SMLook, SMNote, SMNoteCheckIn, SMCount, SMUnmark, SMFail
<1>5. ASSUME NEW k \in SmSessions,
             \/ SMGiveUp(k) \/ SMSit(k) \/ SMRelease(k) \/ SMBlock(k) \/ SMLeave(k) \/ SMMove(k)
             \/ SMCheckIn(k) \/ SMUndo(k)
      PROVE  MapKeeps
  BY <1>1, <1>5, MapGiveUpKeeps, MapTakeKeeps, MapReleaseKeeps, MapSparesAll
<1>6. ASSUME UNCHANGED smVars PROVE smSeat' = smSeat
  BY <1>6 DEF smVars
<1> QED
  BY <1>2, <1>3, <1>4, <1>5, <1>6 DEF SMNext

\* seat-map.service.ts: the seat of a passenger who is checked in is taken away
\* only by his own requests, or by one that read the row before the check-in.
THEOREM CheckedInStays == SMSpec => SMCheckedInStays
<1>1. MapInv /\ [SMNext]_smVars => [MapKeeps]_smVars
  BY MapKeepsStep
<1>2. [MapKeeps]_smVars =>
        [\A s \in SmIds :
           smSeat[s].status = "checked_in" /\ smSeat'[s].who # smSeat[s].who =>
             \E k \in SmSessions :
               /\ smSession'[k] # smSession[k]
               /\ \/ smSession[k].who = smSeat[s].who /\ ~SmDoing(k, "release")
                  \/ s \in DOMAIN smSession[k].seen /\ smSession[k].seen[s] # smSeat[s]]_smVars
  BY DEF MapKeeps
<1> QED
  BY <1>1, <1>2, MapSpec, PTL DEF SMSpec, SMCheckedInStays

(***************************************************************************)
(* The gates                                                               *)
(***************************************************************************)
GateRow == [flight : GtFlights, gate : GtGates, status : {"assigned", "ended"}]
GateCall == [doing : {"idle", "find", "look", "end", "free", "insert", "occupy", "delete"},
             flights : SUBSET GtFlights, to : SUBSET GtGates, row : 0..Len(gtRows)]

GateAbout(f) == {k \in GtCalls : f \in gtCall[k].flights}
GateAdds(f) == {k \in GateAbout(f) : /\ gtCall[k].doing \in {"look", "end", "free", "insert"}
                                     /\ gtCall[k].to # {}}
GateEnders(f) == {k \in GateAbout(f) : /\ gtCall[k].doing \in {"look", "end"}
                                       /\ gtCall[k].to # {}}
GateEnds(f) == {gtCall[k].row : k \in GateEnders(f)}
GateStays(f) == GtActiveOf(f) \ GateEnds(f)

\* What a call has read and is about to write.
GateShape(k) ==
  LET call == gtCall[k] IN
  /\ call.doing = "idle" => call = GtIdle
  /\ call.doing \in {"look", "end", "free"} =>
       call.row # 0 /\ gtRows[call.row].flight \in call.flights
  /\ call.doing \in {"look", "insert", "occupy", "find"} => call.to # {}
  /\ \A g, h \in call.to : g = h
  /\ \A f, h \in call.flights : f = h

\* The rows that stay and those that are to come are no more than the calls
\* that began together allow for.
GateCount(f) ==
  /\ Cardinality(GateAbout(f)) <= 1 + gtOverlaps[f]
  /\ Cardinality(GateStays(f)) + Cardinality(GateAdds(f)) <= 1 + gtOverlaps[f]

GateOf(k) == GtGatesOf(gtCall[k])
GateAgrees(g) == (gtGate[g] = "occupied") <=> (GtActiveAt(g) # {})

\* A call is between the two writes that make a gate and its rows agree.
GateBetween(k, g) ==
  \/ gtCall[k].doing = "free" /\ gtRows[gtCall[k].row].gate = g
  \/ gtCall[k].doing = "occupy" /\ g \in gtCall[k].to

GateKnows(k, g) ==
  LET call == gtCall[k] IN
  /\ call.doing = "free" /\ gtRows[call.row].gate = g => GtActiveAt(g) = {}
  /\ call.doing = "occupy" /\ g \in call.to => GtActiveAt(g) # {}
  /\ call.doing = "delete" /\ g \in call.to => GtActiveAt(g) = {}
  /\ call.doing \in {"look", "end"} /\ gtRows[call.row].gate = g => call.row \in GtActiveAt(g)
  /\ call.doing \in {"find", "end", "free", "insert", "occupy"} /\ g \in call.to =>
       gtGate[g] # "deleted"

\* What holds of a gate that nothing made unsure: one call at a time is about it.
GateSure(g) == g \notin gtUnsure =>
  /\ \A r, s \in GtActiveAt(g) : r = s
  /\ \A k \in GtCalls : GateKnows(k, g)
  /\ (\A k \in GtCalls : ~GateBetween(k, g)) => GateAgrees(g)
  /\ \A j, k \in GtCalls :
       j # k => g \notin GateOf(j) \/ g \notin GateOf(k)

GateInv ==
  /\ GTTypeOK
  /\ \A k \in GtCalls : GateShape(k)
  /\ \A f \in GtFlights : GateCount(f)
  /\ \A g \in GtGates : GateSure(g)

LEMMA GateTypes ==
  ASSUME GTTypeOK
  PROVE  /\ gtCall \in [GtCalls -> GateCall]
         /\ \A r \in DOMAIN gtRows : gtRows[r] \in GateRow
         /\ DOMAIN gtRows = 1..Len(gtRows) /\ Len(gtRows) \in Nat
         /\ gtRows \in Seq(GateRow)
<1>1. gtCall \in [GtCalls -> GateCall] /\ gtRows \in Seq(GateRow)
  BY Zenon DEF GTTypeOK, GateCall, GateRow
<1> QED
  BY <1>1

LEMMA GateFinite ==
  ASSUME GTTypeOK, NEW f \in GtFlights
  PROVE  /\ IsFiniteSet(GateAbout(f)) /\ IsFiniteSet(GateAdds(f)) /\ IsFiniteSet(GateEnders(f))
         /\ IsFiniteSet(GtActiveOf(f)) /\ IsFiniteSet(GateStays(f))
         /\ GateAdds(f) \in SUBSET GateAbout(f)
         /\ Cardinality(GateAbout(f)) \in Nat /\ Cardinality(GateAdds(f)) \in Nat
         /\ Cardinality(GateStays(f)) \in Nat /\ Cardinality(GtActiveOf(f)) \in Nat
         /\ gtOverlaps[f] \in Nat
<1>1. IsFiniteSet(GateAbout(f)) /\ IsFiniteSet(GateAdds(f)) /\ IsFiniteSet(GateEnders(f))
  BY GatesAssumption, FS_Subset DEF GateAbout, GateAdds, GateEnders
<1>2. IsFiniteSet(1..Len(gtRows))
  BY GateTypes, FS_Interval
<1>3. GtActiveOf(f) \in SUBSET (1..Len(gtRows)) /\ GateStays(f) \in SUBSET (1..Len(gtRows))
  BY GateTypes DEF GtActiveOf, GtActive, GateStays
<1>4. IsFiniteSet(GtActiveOf(f)) /\ IsFiniteSet(GateStays(f))
  BY <1>2, <1>3, FS_Subset
<1>5. gtOverlaps[f] \in Nat
  BY DEF GTTypeOK
<1> QED
  BY <1>1, <1>4, <1>5, FS_CardinalityType DEF GateAdds

LEMMA GateInvImplies ==
  ASSUME GateInv
  PROVE  GTTypeOK /\ GTGatesAgree
<1> USE DEF GateInv
<1>1. ASSUME NEW f \in GtFlights
      PROVE  Cardinality(GtActiveOf(f)) <= 1 + gtOverlaps[f]
  <2> DEFINE row == [k \in GateEnders(f) |-> gtCall[k].row]
             E == {row[k] : k \in GateEnders(f)}
             A == GtActiveOf(f)
             both == A \cap E
  <2>1. E = GateEnds(f)
    BY DEF GateEnds
  <2>2. IsFiniteSet(E) /\ Cardinality(E) <= Cardinality(GateEnders(f)) /\ Cardinality(E) \in Nat
    <3>1. row \in Surjection(GateEnders(f), E)
      BY DEF Surjection
    <3> HIDE DEF row, E
    <3>2. IsFiniteSet(GateEnders(f))
      BY GateFinite
    <3> QED
      BY <3>1, <3>2, FS_Surjection, FS_CardinalityType
  <2>3. Cardinality(GateEnders(f)) <= Cardinality(GateAdds(f))
    <3>1. GateEnders(f) \in SUBSET GateAdds(f)
      BY DEF GateEnders, GateAdds
    <3> QED
      BY <3>1, GateFinite, FS_Subset
  <2> HIDE DEF row, E
  <2>4. both \in SUBSET E /\ both \in SUBSET A /\ A = GateStays(f) \cup both
        /\ GateStays(f) \cap both = {}
    BY <2>1 DEF GateStays
  <2>5. IsFiniteSet(both) /\ Cardinality(both) <= Cardinality(E) /\ Cardinality(both) \in Nat
    BY <2>2, <2>4, FS_Subset, FS_CardinalityType
  <2>6. Cardinality(A) <= Cardinality(GateStays(f)) + Cardinality(both)
    <3> HIDE DEF A, both
    <3>1. IsFiniteSet(GateStays(f))
      BY GateFinite
    <3>2. GateStays(f) \cap both = {} => Cardinality(GateStays(f) \cap both) = 0
      BY FS_EmptySet
    <3>3. Cardinality(GateStays(f) \cup both) =
            Cardinality(GateStays(f)) + Cardinality(both) - Cardinality(GateStays(f) \cap both)
      BY <2>5, <3>1, FS_Union
    <3>4. Cardinality(GateStays(f)) \in Nat
      BY GateFinite
    <3> QED
      BY <2>4, <2>5, <3>2, <3>3, <3>4
  <2>7. Cardinality(GateStays(f)) + Cardinality(GateAdds(f)) <= 1 + gtOverlaps[f]
    BY DEF GateCount
  <2>8. Cardinality(GateEnders(f)) \in Nat /\ Cardinality(A) \in Nat
    BY GateFinite, FS_CardinalityType
  <2> HIDE DEF A, both
  <2>9. Cardinality(A) <= 1 + gtOverlaps[f]
    BY <2>2, <2>3, <2>5, <2>6, <2>7, <2>8, GateFinite
  <2> QED
    BY <2>9 DEF A
<1>2. ASSUME NEW g \in GtGates \ (gtUnsure \cup UNION {GtGatesOf(gtCall[k]) : k \in GtCalls})
      PROVE  (gtGate[g] = "occupied") <=> (GtActiveAt(g) # {})
  <2>1. \A k \in GtCalls : g \notin GateOf(k)
    BY DEF GateOf
  <2>2. \A k \in GtCalls : ~GateBetween(k, g)
    BY <2>1 DEF GateBetween, GateOf, GtGatesOf, GateShape
  <2> QED
    BY <2>2 DEF GateSure, GateAgrees
<1> QED
  BY <1>1, <1>2 DEF GTGatesAgree

LEMMA GateInit == GTInit => GateInv
<1> SUFFICES ASSUME GTInit PROVE GateInv
  OBVIOUS
<1>1. gtRows = <<>> /\ DOMAIN gtRows = {} /\ Len(gtRows) = 0
  BY DEF GTInit
<1>2. gtCall = [k \in GtCalls |-> GtIdle]
  BY DEF GTInit
<1>3. GTTypeOK
  <2>1. gtCall \in [GtCalls -> GateCall]
    BY <1>1, <1>2 DEF GtIdle, GateCall
  <2>2. gtRows \in Seq(GateRow)
    BY <1>1
  <2>3. gtOps \in 0..GtMaxOps /\ gtOverlaps \in [GtFlights -> Nat] /\ gtUnsure \subseteq GtGates
    BY GatesAssumption DEF GTInit
  <2>4. gtGate \in [GtGates -> {"available", "occupied", "maintenance", "deleted"}]
    BY DEF GTInit
  <2> QED
    BY <2>1, <2>2, <2>3, <2>4 DEF GTTypeOK, GateCall, GateRow
<1>4. \A k \in GtCalls : GateShape(k)
  BY <1>2 DEF GateShape, GtIdle
<1>5. ASSUME NEW f \in GtFlights PROVE GateCount(f)
  <2>1. GateAbout(f) = {} /\ GateAdds(f) = {} /\ GateStays(f) = {}
    BY <1>1, <1>2 DEF GateAbout, GateAdds, GateStays, GtActiveOf, GtActive, GtIdle
  <2>2. gtOverlaps[f] = 0
    BY DEF GTInit
  <2> QED
    BY <2>1, <2>2, FS_EmptySet DEF GateCount
<1>6. ASSUME NEW g \in GtGates PROVE GateSure(g)
  <2>1. GtActiveAt(g) = {} /\ gtGate[g] = "available"
    BY <1>1 DEF GTInit, GtActiveAt, GtActive
  <2>2. \A k \in GtCalls : gtCall[k].doing = "idle" /\ GateOf(k) = {}
    BY <1>2 DEF GtIdle, GateOf, GtGatesOf
  <2> QED
    BY <2>1, <2>2 DEF GateSure, GateKnows, GateAgrees
<1> QED
  BY <1>3, <1>4, <1>5, <1>6 DEF GateInv

(***************************************************************************)
(* How many rows of a flight are active, and how many are to come          *)
(***************************************************************************)
LEMMA GateCountLess ==
  ASSUME GateInv, GTTypeOK', NEW f \in GtFlights,
         GateAbout(f)' \subseteq GateAbout(f), GateAdds(f)' \subseteq GateAdds(f),
         GateStays(f)' \subseteq GateStays(f), gtOverlaps[f] <= gtOverlaps'[f]
  PROVE  GateCount(f)'
<1>1. /\ GTTypeOK /\ Cardinality(GateAbout(f)) <= 1 + gtOverlaps[f]
      /\ Cardinality(GateStays(f)) + Cardinality(GateAdds(f)) <= 1 + gtOverlaps[f]
  BY DEF GateInv, GateCount
<1>2. /\ IsFiniteSet(GateAbout(f)) /\ IsFiniteSet(GateAdds(f)) /\ IsFiniteSet(GateStays(f))
      /\ Cardinality(GateAbout(f)) \in Nat /\ Cardinality(GateAdds(f)) \in Nat
      /\ Cardinality(GateStays(f)) \in Nat /\ gtOverlaps[f] \in Nat
  BY <1>1, GateFinite
<1>3. gtOverlaps'[f] \in Nat
  BY DEF GTTypeOK
<1>4. /\ Cardinality(GateAbout(f)') <= Cardinality(GateAbout(f)) /\ Cardinality(GateAbout(f)') \in Nat
      /\ Cardinality(GateAdds(f)') <= Cardinality(GateAdds(f)) /\ Cardinality(GateAdds(f)') \in Nat
      /\ Cardinality(GateStays(f)') <= Cardinality(GateStays(f)) /\ Cardinality(GateStays(f)') \in Nat
  BY <1>2, FS_Subset, FS_CardinalityType
<1>5. Cardinality(GateAbout(f)') <= 1 + gtOverlaps'[f]
  BY <1>1, <1>2, <1>3, <1>4
<1>6. Cardinality(GateStays(f)') + Cardinality(GateAdds(f)') <= 1 + gtOverlaps'[f]
  BY <1>1, <1>2, <1>3, <1>4
<1> QED
  BY <1>5, <1>6 DEF GateCount

\* A row that a call was to add, or to replace, stays.
LEMMA GateCountMoved ==
  ASSUME GateInv, GTTypeOK', NEW f \in GtFlights, NEW k \in GateAdds(f), NEW r,
         GateAbout(f)' \subseteq GateAbout(f), GateAdds(f)' \subseteq GateAdds(f) \ {k},
         GateStays(f)' \subseteq GateStays(f) \cup {r}, gtOverlaps[f] = gtOverlaps'[f]
  PROVE  GateCount(f)'
<1>1. /\ GTTypeOK /\ Cardinality(GateAbout(f)) <= 1 + gtOverlaps[f]
      /\ Cardinality(GateStays(f)) + Cardinality(GateAdds(f)) <= 1 + gtOverlaps[f]
  BY DEF GateInv, GateCount
<1>2. /\ IsFiniteSet(GateAbout(f)) /\ IsFiniteSet(GateAdds(f)) /\ IsFiniteSet(GateStays(f))
      /\ Cardinality(GateAbout(f)) \in Nat /\ Cardinality(GateAdds(f)) \in Nat
      /\ Cardinality(GateStays(f)) \in Nat /\ gtOverlaps[f] \in Nat
  BY <1>1, GateFinite
<1>3. Cardinality(GateAdds(f) \ {k}) = Cardinality(GateAdds(f)) - 1 /\ IsFiniteSet(GateAdds(f) \ {k})
  BY <1>2, FS_RemoveElement
<1>4. /\ IsFiniteSet(GateStays(f) \cup {r})
      /\ Cardinality(GateStays(f) \cup {r}) <= Cardinality(GateStays(f)) + 1
      /\ Cardinality(GateStays(f) \cup {r}) \in Nat
  <2> DEFINE T == GateStays(f)
  <2>1. IsFiniteSet(T) /\ Cardinality(T) \in Nat
    BY <1>2
  <2> HIDE DEF T
  <2>2. /\ IsFiniteSet(T \cup {r})
        /\ Cardinality(T \cup {r}) <= Cardinality(T) + 1
        /\ Cardinality(T \cup {r}) \in Nat
    <3>1. IsFiniteSet(T \cup {r})
      BY <2>1, FS_AddElement
    <3>2. Cardinality(T \cup {r}) = Cardinality(T) \/ Cardinality(T \cup {r}) = Cardinality(T) + 1
      BY <2>1, FS_AddElement
    <3> QED
      BY <2>1, <3>1, <3>2
  <2> QED
    BY <2>2 DEF T
<1>5. /\ Cardinality(GateAbout(f)') <= Cardinality(GateAbout(f)) /\ Cardinality(GateAbout(f)') \in Nat
      /\ Cardinality(GateAdds(f)') <= Cardinality(GateAdds(f) \ {k}) /\ Cardinality(GateAdds(f)') \in Nat
      /\ Cardinality(GateStays(f)') <= Cardinality(GateStays(f) \cup {r})
      /\ Cardinality(GateStays(f)') \in Nat
  BY <1>2, <1>3, <1>4, FS_Subset, FS_CardinalityType
<1>6. Cardinality(GateAbout(f)') <= 1 + gtOverlaps'[f]
  BY <1>1, <1>2, <1>5
<1>7. Cardinality(GateStays(f)') + Cardinality(GateAdds(f)') <= 1 + gtOverlaps'[f]
  BY <1>1, <1>2, <1>3, <1>4, <1>5
<1> QED
  BY <1>6, <1>7 DEF GateCount

\* A step of one call, as the gates see it.
GateLocal(k, g) ==
  /\ \A r, s \in GtActiveAt(g) : r = s
  /\ GateKnows(k, g)
  /\ ~GateBetween(k, g) => GateAgrees(g)

LEMMA GateStep ==
  ASSUME GateInv, NEW k \in GtCalls, \A j \in GtCalls \ {k} : gtCall'[j] = gtCall[j],
         GTTypeOK', \A j \in GtCalls : GateShape(j)',
         \A r \in DOMAIN gtRows : gtRows'[r].gate = gtRows[r].gate,
         gtUnsure \subseteq gtUnsure', NEW g \in GtGates,
         g \notin gtUnsure' =>
           \/ /\ g \notin GateOf(k) /\ g \notin GateOf(k)'
              /\ GtActiveAt(g)' = GtActiveAt(g) /\ gtGate'[g] = gtGate[g]
           \/ (\A j \in GtCalls \ {k} : g \notin GateOf(j)) /\ GateLocal(k, g)'
  PROVE  GateSure(g)'
<1> SUFFICES ASSUME g \notin gtUnsure'
             PROVE  /\ \A r, s \in GtActiveAt(g)' : r = s
                    /\ \A j \in GtCalls : GateKnows(j, g)'
                    /\ (\A j \in GtCalls : ~GateBetween(j, g)') => GateAgrees(g)'
                    /\ \A i, j \in GtCalls :
                         i # j => \/ g \notin GateOf(i)'
                                  \/ g \notin GateOf(j)'
  BY DEF GateSure
<1>1. /\ \A r, s \in GtActiveAt(g) : r = s
      /\ \A j \in GtCalls : GateKnows(j, g)
      /\ (\A j \in GtCalls : ~GateBetween(j, g)) => GateAgrees(g)
      /\ \A i, j \in GtCalls :
           i # j => g \notin GateOf(i) \/ g \notin GateOf(j)
  BY DEF GateInv, GateSure
<1>2. ASSUME NEW j \in GtCalls \ {k}, gtCall[j].row # 0
      PROVE  gtRows'[gtCall[j].row].gate = gtRows[gtCall[j].row].gate
  <2>1. gtCall[j].row \in DOMAIN gtRows
    BY <1>2, GateTypes DEF GateInv, GateCall
  <2> QED
    BY <2>1
<1>6. \A j \in GtCalls \ {k} : GateOf(j)' = GateOf(j)
  BY <1>2 DEF GateOf, GtGatesOf
<1>3. \A j \in GtCalls : gtCall[j].doing \in {"look", "end", "free"} => gtCall[j].row # 0
  BY DEF GateInv, GateShape
<1>4. CASE /\ g \notin GateOf(k) /\ g \notin GateOf(k)'
           /\ GtActiveAt(g)' = GtActiveAt(g) /\ gtGate'[g] = gtGate[g]
  <2>1. \A j \in GtCalls \ {k} : GateKnows(j, g)' /\ (GateBetween(j, g)' <=> GateBetween(j, g))
    <3> SUFFICES ASSUME NEW j \in GtCalls \ {k}
                 PROVE  GateKnows(j, g)' /\ (GateBetween(j, g)' <=> GateBetween(j, g))
      OBVIOUS
    <3>1. /\ gtCall'[j] = gtCall[j]
          /\ gtCall[j].doing \in {"look", "end", "free"} =>
               gtRows'[gtCall[j].row].gate = gtRows[gtCall[j].row].gate
      BY <1>2, <1>3
    <3>2. GateKnows(j, g) /\ GtActiveAt(g)' = GtActiveAt(g) /\ gtGate'[g] = gtGate[g]
      BY <1>1, <1>4
    <3> QED
      BY <3>1, <3>2 DEF GateKnows, GateBetween
  <2>2. GateKnows(k, g)' /\ ~GateBetween(k, g)' /\ ~GateBetween(k, g)
    <3>1. /\ gtCall[k].doing \in {"look", "end", "free"} => gtCall[k].row # 0
          /\ gtCall'[k].doing \in {"look", "end", "free"} => gtCall'[k].row # 0
      BY DEF GateInv, GateShape
    <3>2. /\ g \notin gtCall[k].to /\ (gtCall[k].row # 0 => gtRows[gtCall[k].row].gate # g)
          /\ g \notin gtCall'[k].to /\ (gtCall'[k].row # 0 => gtRows'[gtCall'[k].row].gate # g)
      BY <1>4 DEF GateOf, GtGatesOf
    <3> QED
      BY <3>1, <3>2 DEF GateKnows, GateBetween
  <2>3. GateAgrees(g)' <=> GateAgrees(g)
    BY <1>4 DEF GateAgrees
  <2>4. (\A j \in GtCalls : ~GateBetween(j, g)') => GateAgrees(g)'
    BY <1>1, <2>1, <2>2, <2>3
  <2>5. \A r, s \in GtActiveAt(g)' : r = s
    BY <1>1, <1>4
  <2>6. \A i, j \in GtCalls : i # j => \/ g \notin GateOf(i)'
                                      \/ g \notin GateOf(j)'
    <3>1. \A i, j \in GtCalls : i # j => g \notin GateOf(i) \/ g \notin GateOf(j)
      BY <1>1
    <3>2. g \notin GateOf(k)'
      BY <1>4
    <3> QED
      BY <1>6, <3>1, <3>2
  <2> QED
    BY <2>1, <2>2, <2>4, <2>5, <2>6
<1>5. CASE (\A j \in GtCalls \ {k} : g \notin GateOf(j)) /\ GateLocal(k, g)'
  <2>1. \A j \in GtCalls \ {k} : GateKnows(j, g)' /\ ~GateBetween(j, g)'
    <3> SUFFICES ASSUME NEW j \in GtCalls \ {k}
                 PROVE  GateKnows(j, g)' /\ ~GateBetween(j, g)'
      OBVIOUS
    <3>1. gtCall'[j].doing \in {"look", "end", "free"} => gtCall'[j].row # 0
      BY DEF GateShape
    <3>2. g \notin gtCall'[j].to /\ (gtCall'[j].row # 0 => gtRows'[gtCall'[j].row].gate # g)
      <4>1. gtCall'[j] = gtCall[j] /\ g \notin GateOf(j)
            /\ (gtCall[j].row # 0 => gtRows'[gtCall[j].row].gate = gtRows[gtCall[j].row].gate)
        BY <1>2, <1>5
      <4> QED
        BY <4>1 DEF GateOf, GtGatesOf
    <3> QED
      BY <3>1, <3>2 DEF GateKnows, GateBetween
  <2>2. \A i, j \in GtCalls : i # j => \/ g \notin GateOf(i)'
                                      \/ g \notin GateOf(j)'
    <3>1. \A j \in GtCalls \ {k} : g \notin GateOf(j)'
      BY <1>5, <1>6
    <3> QED
      BY <3>1
  <2> QED
    BY <1>5, <2>1, <2>2 DEF GateLocal
<1> QED
  BY <1>4, <1>5

\* What a call knows, as far as its record and the rows say.
GateShaped(call, rows) ==
  /\ call.doing = "idle" => call = GtIdle
  /\ call.doing \in {"look", "end", "free"} =>
       call.row # 0 /\ rows[call.row].flight \in call.flights
  /\ call.doing \in {"look", "insert", "occupy", "find"} => call.to # {}
  /\ \A g, h \in call.to : g = h
  /\ \A f, h \in call.flights : f = h

LEMMA GateMoves ==
  ASSUME GateInv, NEW k \in GtCalls, NEW call \in GateCall, GateShaped(call, gtRows'),
         gtCall' = [gtCall EXCEPT ![k] = call],
         gtGate' \in [GtGates -> {"available", "occupied", "maintenance", "deleted"}],
         gtRows' \in Seq(GateRow), Len(gtRows) <= Len(gtRows'),
         \A r \in DOMAIN gtRows : /\ gtRows'[r].gate = gtRows[r].gate
                                 /\ gtRows'[r].flight = gtRows[r].flight,
         gtOps' \in 0..GtMaxOps, gtOverlaps' \in [GtFlights -> Nat], gtUnsure' \subseteq GtGates
  PROVE  /\ GTTypeOK' /\ \A j \in GtCalls : GateShape(j)'
         /\ gtCall'[k] = call /\ \A j \in GtCalls \ {k} : gtCall'[j] = gtCall[j]
<1>1. /\ gtCall \in [GtCalls -> GateCall] /\ Len(gtRows) \in Nat
      /\ DOMAIN gtRows = 1..Len(gtRows)
  BY GateTypes DEF GateInv
<1>2. Len(gtRows') \in Nat
  OBVIOUS
<1>3. gtCall'[k] = call /\ \A j \in GtCalls \ {k} : gtCall'[j] = gtCall[j]
  BY <1>1
<1>4. \A j \in GtCalls : gtCall'[j] \in (GateCall)'
  <2>1. \A c \in GateCall : c \in (GateCall)'
    BY <1>1, <1>2 DEF GateCall
  <2> QED
    BY <1>1, <1>3, <2>1
<1>5. gtCall' \in [GtCalls -> (GateCall)']
  BY <1>1, <1>4
<1>6. GTTypeOK'
  BY <1>5 DEF GTTypeOK, GateCall, GateRow
<1>7. ASSUME NEW j \in GtCalls PROVE GateShape(j)'
  <2>1. CASE j = k
    BY <1>3, <2>1 DEF GateShape, GateShaped
  <2>2. CASE j # k
    <3>1. gtCall'[j] = gtCall[j] /\ GateShape(j)
      BY <1>3, <2>2 DEF GateInv
    <3>2. gtCall[j].row # 0 => gtRows'[gtCall[j].row].flight = gtRows[gtCall[j].row].flight
      <4>1. gtCall[j].row # 0 => gtCall[j].row \in DOMAIN gtRows
        BY <1>1 DEF GateCall
      <4> QED
        BY <4>1
    <3> QED
      BY <3>1, <3>2 DEF GateShape
  <2> QED
    BY <2>1, <2>2
<1> QED
  BY <1>3, <1>6, <1>7

\* The calls about a flight, when one call moves.
LEMMA GateOthers ==
  ASSUME NEW k \in GtCalls, \A j \in GtCalls \ {k} : gtCall'[j] = gtCall[j],
         NEW f \in GtFlights
  PROVE  /\ GateAbout(f)' \ {k} = GateAbout(f) \ {k}
         /\ GateAdds(f)' \ {k} = GateAdds(f) \ {k}
         /\ GateEnders(f)' \ {k} = GateEnders(f) \ {k}
         /\ \A r \in GateEnds(f) : r \in GateEnds(f)' \/ (r = gtCall[k].row /\ k \in GateEnders(f))
         /\ \A r \in GateEnds(f)' : r \in GateEnds(f) \/ (r = gtCall'[k].row /\ k \in GateEnders(f)')
<1>1. /\ GateAbout(f)' \ {k} = GateAbout(f) \ {k}
      /\ GateAdds(f)' \ {k} = GateAdds(f) \ {k}
      /\ GateEnders(f)' \ {k} = GateEnders(f) \ {k}
  BY DEF GateAbout, GateAdds, GateEnders
<1>2. \A r \in GateEnds(f) : r \in GateEnds(f)' \/ (r = gtCall[k].row /\ k \in GateEnders(f))
  <2> SUFFICES ASSUME NEW j \in GateEnders(f)
               PROVE  \/ gtCall[j].row \in GateEnds(f)'
                      \/ gtCall[j].row = gtCall[k].row /\ k \in GateEnders(f)
    BY DEF GateEnds
  <2>1. CASE j = k
    BY <2>1
  <2>2. CASE j # k
    <3>1. j \in GateEnders(f)' /\ gtCall'[j] = gtCall[j]
      BY <1>1, <2>2 DEF GateEnders, GateAbout
    <3> QED
      BY <3>1 DEF GateEnds
  <2> QED
    BY <2>1, <2>2
<1>3. \A r \in GateEnds(f)' : r \in GateEnds(f) \/ (r = gtCall'[k].row /\ k \in GateEnders(f)')
  <2> SUFFICES ASSUME NEW j \in GateEnders(f)'
               PROVE  \/ gtCall'[j].row \in GateEnds(f)
                      \/ gtCall'[j].row = gtCall'[k].row /\ k \in GateEnders(f)'
    BY DEF GateEnds
  <2>1. CASE j = k
    BY <2>1
  <2>2. CASE j # k
    <3>1. j \in GateEnders(f) /\ gtCall'[j] = gtCall[j]
      BY <1>1, <2>2 DEF GateEnders, GateAbout
    <3> QED
      BY <3>1 DEF GateEnds
  <2> QED
    BY <2>1, <2>2
<1> QED
  BY <1>1, <1>2, <1>3

LEMMA GateBegins ==
  ASSUME GateInv, NEW k \in GtCalls, NEW call \in GateCall, GtBegin(k, call),
         GateShaped(call, gtRows),
         call.doing \in {"find", "look", "end", "delete"},
         call.doing \in {"look", "end"} => call.row \in GtActive,
         call.doing = "find" => \A g \in call.to : gtGate[g] # "deleted",
         call.doing = "end" => call.to = {},
         call.doing = "delete" => call.flights = {} /\ \A g \in call.to : GtActiveAt(g) = {},
         call.doing \in {"find", "delete"} => call.row = 0
  PROVE  GateInv'
<1> DEFINE busy == {j \in GtCalls : ~GtDoing(j, "idle")}
           same == {j \in busy : gtCall[j].flights \cap call.flights # {}}
           common(j) == IF j \in same THEN GtGatesOf(gtCall[j]) \cup GtGatesOf(call)
                        ELSE GtGatesOf(gtCall[j]) \cap GtGatesOf(call)
<1>1. /\ gtCall[k].doing = "idle" /\ gtOps < GtMaxOps /\ gtOps' = gtOps + 1
      /\ gtCall' = [gtCall EXCEPT ![k] = call]
      /\ gtOverlaps' = [f \in GtFlights |->
           IF f \in call.flights /\ same # {} THEN gtOverlaps[f] + 1 ELSE gtOverlaps[f]]
      /\ gtUnsure' = gtUnsure \cup UNION {common(j) : j \in busy}
      /\ gtGate' = gtGate /\ gtRows' = gtRows
  BY DEF GtBegin, GtDoing
<1>2. /\ GTTypeOK /\ gtCall[k] = GtIdle /\ \A j \in GtCalls : GateShape(j)
      /\ gtCall \in [GtCalls -> GateCall] /\ gtRows \in Seq(GateRow) /\ Len(gtRows) \in Nat
      /\ DOMAIN gtRows = 1..Len(gtRows) /\ \A r \in DOMAIN gtRows : gtRows[r] \in GateRow
  BY <1>1, GateTypes DEF GateInv, GateShape
<1>3. \A c \in GateCall : GtGatesOf(c) \subseteq GtGates
  BY <1>2 DEF GateCall, GateRow, GtGatesOf
<1>4. gtUnsure' \subseteq GtGates
  <2>1. \A j \in busy : common(j) \subseteq GtGates
    BY <1>2, <1>3
  <2> HIDE DEF common, busy
  <2> QED
    BY <1>1, <1>2, <2>1 DEF GTTypeOK
<1>5. gtOverlaps' \in [GtFlights -> Nat] /\ \A f \in GtFlights : gtOverlaps[f] <= gtOverlaps'[f]
  <2>1. \A f \in GtFlights : gtOverlaps[f] \in Nat
    BY <1>2 DEF GTTypeOK
  <2> HIDE DEF same
  <2> QED
    BY <1>1, <2>1
<1>6. /\ GTTypeOK' /\ \A j \in GtCalls : GateShape(j)'
      /\ gtCall'[k] = call /\ \A j \in GtCalls \ {k} : gtCall'[j] = gtCall[j]
  <2>1. gtGate' \in [GtGates -> {"available", "occupied", "maintenance", "deleted"}]
    BY <1>1, <1>2 DEF GTTypeOK
  <2>2. gtOps' \in 0..GtMaxOps
    BY <1>1, <1>2, GatesAssumption DEF GTTypeOK
  <2>3. /\ gtRows' \in Seq(GateRow) /\ Len(gtRows) <= Len(gtRows')
        /\ \A r \in DOMAIN gtRows : /\ gtRows'[r].gate = gtRows[r].gate
                                   /\ gtRows'[r].flight = gtRows[r].flight
    BY <1>1, <1>2
  <2>4. GateShaped(call, gtRows') /\ gtCall' = [gtCall EXCEPT ![k] = call]
    BY <1>1
  <2> HIDE DEF busy, same, common
  <2> QED
    BY <1>4, <1>5, <2>1, <2>2, <2>3, <2>4, GateMoves
<1>7. ASSUME NEW f \in GtFlights PROVE GateCount(f)'
  <2>1. /\ k \notin GateAbout(f) /\ k \notin GateAdds(f) /\ k \notin GateEnders(f)
        /\ GateAdds(f) \in SUBSET GateAbout(f)
    BY <1>2 DEF GateAbout, GateAdds, GateEnders, GtIdle
  <2>2. GtActiveOf(f)' = GtActiveOf(f)
    BY <1>1 DEF GtActiveOf, GtActive
  <2>3. /\ GateAbout(f)' \ {k} = GateAbout(f) /\ GateAdds(f)' \ {k} = GateAdds(f)
        /\ \A r \in GateEnds(f) : r \in GateEnds(f)'
        /\ \A r \in GateEnds(f)' : r \in GateEnds(f) \/ (r = call.row /\ k \in GateEnders(f)')
    BY <1>6, <2>1, GateOthers
  <2>4. GateStays(f)' \subseteq GateStays(f)
    BY <2>2, <2>3 DEF GateStays
  <2>5. CASE f \notin call.flights
    <3>1. k \notin GateAbout(f)' /\ k \notin GateAdds(f)'
      BY <1>6, <2>5 DEF GateAbout, GateAdds
    <3>2. GateAbout(f)' \subseteq GateAbout(f) /\ GateAdds(f)' \subseteq GateAdds(f)
      BY <2>3, <3>1
    <3> QED
      BY <1>5, <1>6, <2>4, <3>2, GateCountLess
  <2>6. CASE f \in call.flights /\ same = {}
    <3>1. GateAbout(f) = {}
      <4>1. ASSUME NEW j \in GateAbout(f) PROVE FALSE
        <5>1. j \in GtCalls /\ f \in gtCall[j].flights
          BY DEF GateAbout
        <5>2. gtCall[j].doing # "idle"
          BY <1>2, <5>1 DEF GateShape, GtIdle
        <5> QED
          BY <2>6, <5>1, <5>2 DEF GtDoing
      <4> QED
        BY <4>1
    <3>2. GateAdds(f) = {} /\ GateEnds(f) = {} /\ GateStays(f) = GtActiveOf(f)
      BY <3>1 DEF GateAdds, GateEnds, GateEnders, GateStays
    <3>3. GateAbout(f)' \subseteq {k} /\ GateAdds(f)' \subseteq {k}
      BY <2>3, <3>1, <3>2
    <3>4. /\ Cardinality(GateStays(f)) <= 1 + gtOverlaps[f] /\ Cardinality(GateStays(f)) \in Nat
          /\ gtOverlaps[f] \in Nat /\ gtOverlaps'[f] = gtOverlaps[f] /\ IsFiniteSet(GateStays(f))
      <4>1. Cardinality(GateStays(f)) + Cardinality(GateAdds(f)) <= 1 + gtOverlaps[f]
        BY DEF GateInv, GateCount
      <4>2. gtOverlaps'[f] = gtOverlaps[f]
        BY <1>1, <2>6
      <4>3. Cardinality(GateAdds(f)) = 0
        BY <3>2, FS_EmptySet
      <4> QED
        BY <1>2, <4>1, <4>2, <4>3, GateFinite
    <3>5. /\ Cardinality(GateAbout(f)') <= 1 /\ Cardinality(GateAbout(f)') \in Nat
          /\ Cardinality(GateAdds(f)') <= 1 /\ Cardinality(GateAdds(f)') \in Nat
      <4>1. IsFiniteSet({k}) /\ Cardinality({k}) = 1
        BY FS_Singleton
      <4> QED
        BY <3>3, <4>1, FS_Subset, FS_CardinalityType
    <3>6. Cardinality(GateStays(f)') <= Cardinality(GateStays(f)) /\ Cardinality(GateStays(f)') \in Nat
      BY <2>4, <3>4, FS_Subset, FS_CardinalityType
    <3>7. Cardinality(GateStays(f)') + Cardinality(GateAdds(f)') <= 1 + gtOverlaps'[f]
      <4>1. CASE call.doing = "look"
        <5>1. call.row \in GtActiveOf(f)
          <6>1. gtRows[call.row].flight \in call.flights /\ call.row \in GtActive
            BY <4>1 DEF GateShaped
          <6>2. gtRows[call.row].flight = f
            BY <2>6, <6>1 DEF GateShaped
          <6> QED
            BY <6>1, <6>2 DEF GtActiveOf
        <5>2. call.row \in GateEnds(f)'
          <6>1. k \in GateEnders(f)' /\ gtCall'[k].row = call.row
            BY <1>6, <2>6, <4>1 DEF GateEnders, GateAbout, GateShaped
          <6> QED
            BY <6>1 DEF GateEnds
        <5>3. GateStays(f)' \subseteq GateStays(f) \ {call.row} /\ call.row \in GateStays(f)
          BY <2>4, <3>2, <5>1, <5>2 DEF GateStays
        <5>4. /\ Cardinality(GateStays(f) \ {call.row}) = Cardinality(GateStays(f)) - 1
              /\ IsFiniteSet(GateStays(f) \ {call.row})
          BY <3>4, <5>3, FS_RemoveElement
        <5>5. Cardinality(GateStays(f)') <= Cardinality(GateStays(f) \ {call.row})
          BY <5>3, <5>4, FS_Subset
        <5> QED
          BY <3>4, <3>5, <3>6, <5>4, <5>5
      <4>2. CASE call.doing # "look"
        <5>1. k \notin GateAdds(f)'
          BY <1>6, <4>2 DEF GateAdds, GateAbout
        <5>2. GateAdds(f)' = {}
          BY <3>3, <5>1
        <5>3. Cardinality(GateAdds(f)') = 0
          BY <5>2, FS_EmptySet
        <5> QED
          BY <3>4, <3>6, <5>3
      <4> QED
        BY <4>1, <4>2
    <3>8. Cardinality(GateAbout(f)') <= 1 + gtOverlaps'[f]
      BY <3>4, <3>5
    <3> QED
      BY <3>7, <3>8 DEF GateCount
  <2>7. CASE f \in call.flights /\ same # {}
    <3>1. gtOverlaps'[f] = gtOverlaps[f] + 1 /\ gtOverlaps[f] \in Nat
      BY <1>1, <1>2, <2>7 DEF GTTypeOK
    <3>2. /\ Cardinality(GateAbout(f)) <= 1 + gtOverlaps[f]
          /\ Cardinality(GateStays(f)) + Cardinality(GateAdds(f)) <= 1 + gtOverlaps[f]
      BY DEF GateInv, GateCount
    <3>3. /\ IsFiniteSet(GateAbout(f)) /\ IsFiniteSet(GateAdds(f)) /\ IsFiniteSet(GateStays(f))
          /\ Cardinality(GateAbout(f)) \in Nat /\ Cardinality(GateAdds(f)) \in Nat
          /\ Cardinality(GateStays(f)) \in Nat
      BY <1>2, GateFinite
    <3>4. GateAbout(f)' \subseteq GateAbout(f) \cup {k} /\ GateAdds(f)' \subseteq GateAdds(f) \cup {k}
      BY <2>3
    <3>5. /\ IsFiniteSet(GateAbout(f) \cup {k}) /\ IsFiniteSet(GateAdds(f) \cup {k})
          /\ Cardinality(GateAbout(f) \cup {k}) = Cardinality(GateAbout(f)) + 1
          /\ Cardinality(GateAdds(f) \cup {k}) = Cardinality(GateAdds(f)) + 1
      BY <2>1, <3>3, FS_AddElement
    <3>6. /\ Cardinality(GateAbout(f)') <= Cardinality(GateAbout(f)) + 1
          /\ Cardinality(GateAbout(f)') \in Nat
          /\ Cardinality(GateAdds(f)') <= Cardinality(GateAdds(f)) + 1
          /\ Cardinality(GateAdds(f)') \in Nat
      BY <3>4, <3>5, FS_Subset, FS_CardinalityType
    <3>7. Cardinality(GateStays(f)') <= Cardinality(GateStays(f)) /\ Cardinality(GateStays(f)') \in Nat
      BY <2>4, <3>3, FS_Subset, FS_CardinalityType
    <3>8. Cardinality(GateAbout(f)') <= 1 + gtOverlaps'[f]
      BY <3>1, <3>2, <3>3, <3>6
    <3>9. Cardinality(GateStays(f)') + Cardinality(GateAdds(f)') <= 1 + gtOverlaps'[f]
      BY <3>1, <3>2, <3>3, <3>6, <3>7
    <3> QED
      BY <3>8, <3>9 DEF GateCount
  <2> HIDE DEF same
  <2> QED
    BY <2>5, <2>6, <2>7
<1>8. ASSUME NEW g \in GtGates PROVE GateSure(g)'
  <2>1. GtActiveAt(g)' = GtActiveAt(g) /\ gtGate'[g] = gtGate[g] /\ gtRows' = gtRows
    BY <1>1 DEF GtActiveAt, GtActive
  <2>2. GateOf(k) = {} /\ GateOf(k)' = GtGatesOf(call)
    BY <1>1, <1>2, <1>6 DEF GateOf, GtGatesOf, GtIdle
  <2>3. CASE g \notin GtGatesOf(call)
    <3>1. g \notin GateOf(k) /\ g \notin GateOf(k)'
      BY <2>2, <2>3
    <3>2. gtUnsure \subseteq gtUnsure' /\ \A r \in DOMAIN gtRows : gtRows'[r].gate = gtRows[r].gate
      BY <1>1, <2>1
    <3> HIDE DEF busy, same, common
    <3> QED
      BY <1>6, <2>1, <3>1, <3>2, GateStep
  <2>4. CASE g \in GtGatesOf(call) /\ g \notin gtUnsure'
    <3>1. \A j \in GtCalls \ {k} : g \notin GateOf(j)
      <4> SUFFICES ASSUME NEW j \in GtCalls \ {k}, g \in GateOf(j) PROVE FALSE
        OBVIOUS
      <4>1. j \in busy
        BY <1>2 DEF GateOf, GateShape, GtGatesOf, GtIdle, GtDoing
      <4>2. g \in common(j)
        BY <2>4 DEF GateOf
      <4>3. common(j) \subseteq gtUnsure'
        <5> HIDE DEF common, busy
        <5> QED
          BY <1>1, <4>1
      <4> QED
        BY <2>4, <4>2, <4>3
    <3>2. g \notin gtUnsure
      BY <1>1, <2>4
    <3>3. /\ \A r, s \in GtActiveAt(g) : r = s
          /\ (\A j \in GtCalls : ~GateBetween(j, g)) => GateAgrees(g)
      BY <3>2 DEF GateInv, GateSure
    <3>4. \A j \in GtCalls : ~GateBetween(j, g)
      <4> SUFFICES ASSUME NEW j \in GtCalls, GateBetween(j, g) PROVE FALSE
        OBVIOUS
      <4>1. g \in GateOf(j)
        BY <1>2 DEF GateBetween, GateOf, GtGatesOf, GateShape
      <4> QED
        BY <2>2, <3>1, <4>1
    <3>5. GateKnows(k, g)'
      <4>1. gtCall'[k] = call
        BY <1>6
      <4>2. call.doing \in {"look", "end"} /\ gtRows[call.row].gate = g => call.row \in GtActiveAt(g)
        BY DEF GtActiveAt
      <4> QED
        BY <2>1, <4>1, <4>2 DEF GateKnows
    <3>6. GateAgrees(g)'
      BY <2>1, <3>3, <3>4 DEF GateAgrees
    <3>7. GateLocal(k, g)'
      BY <2>1, <3>3, <3>5, <3>6 DEF GateLocal
    <3>8. gtUnsure \subseteq gtUnsure' /\ \A r \in DOMAIN gtRows : gtRows'[r].gate = gtRows[r].gate
      BY <1>1, <2>1
    <3> HIDE DEF busy, same, common
    <3> QED
      BY <1>6, <3>1, <3>7, <3>8, GateStep
  <2>5. CASE g \in gtUnsure'
    BY <2>5 DEF GateSure
  <2> QED
    BY <2>3, <2>4, <2>5
<1> QED
  BY <1>6, <1>7, <1>8 DEF GateInv

(***************************************************************************)
(* A call that is under way moves on, or ends                              *)
(***************************************************************************)
LEMMA GateGoes ==
  ASSUME GateInv, NEW k \in GtCalls, NEW call \in GateCall, GateShaped(call, gtRows'),
         gtCall' = [gtCall EXCEPT ![k] = call],
         call.flights \subseteq gtCall[k].flights, call.to \subseteq gtCall[k].to,
         call.row = 0 \/ call.row = gtCall[k].row,
         gtGate' \in [GtGates -> {"available", "occupied", "maintenance", "deleted"}],
         gtRows' \in Seq(GateRow), Len(gtRows) <= Len(gtRows'),
         \A r \in DOMAIN gtRows : /\ gtRows'[r].gate = gtRows[r].gate
                                 /\ gtRows'[r].flight = gtRows[r].flight,
         gtOps' = gtOps, gtOverlaps' = gtOverlaps,
         gtUnsure \subseteq gtUnsure', gtUnsure' \subseteq GtGates,
         \A f \in GtFlights :
           \/ /\ k \in GateAdds(f)' => k \in GateAdds(f)
              /\ GateStays(f)' \subseteq GateStays(f)
           \/ /\ k \in GateAdds(f) /\ k \notin GateAdds(f)'
              /\ \E r : GateStays(f)' \subseteq GateStays(f) \cup {r}
           \/ GateStays(f)' = {},
         \A g \in GtGates : g \notin gtUnsure' =>
           \/ /\ g \notin GateOf(k)
              /\ GtActiveAt(g)' = GtActiveAt(g) /\ gtGate'[g] = gtGate[g]
           \/ g \in GateOf(k) /\ GateLocal(k, g)'
  PROVE  GateInv'
<1>1. /\ GTTypeOK /\ \A j \in GtCalls : GateShape(j)
      /\ gtCall \in [GtCalls -> GateCall]
      /\ DOMAIN gtRows = 1..Len(gtRows)
  BY GateTypes DEF GateInv
<1>2. /\ GTTypeOK' /\ \A j \in GtCalls : GateShape(j)'
      /\ gtCall'[k] = call /\ \A j \in GtCalls \ {k} : gtCall'[j] = gtCall[j]
  <2>1. gtOps' \in 0..GtMaxOps /\ gtOverlaps' \in [GtFlights -> Nat]
    BY <1>1 DEF GTTypeOK
  <2> QED
    BY <2>1, GateMoves
<1>3. ASSUME NEW f \in GtFlights PROVE GateCount(f)'
  <2>1. /\ GateAbout(f)' \ {k} = GateAbout(f) \ {k}
        /\ GateAdds(f)' \ {k} = GateAdds(f) \ {k}
    BY <1>2, GateOthers
  <2>2. k \in GateAbout(f)' => k \in GateAbout(f)
    BY <1>2 DEF GateAbout
  <2>3. GateAbout(f)' \subseteq GateAbout(f)
    BY <2>1, <2>2
  <2>4. gtOverlaps[f] <= gtOverlaps'[f] /\ gtOverlaps[f] = gtOverlaps'[f]
    BY <1>1 DEF GTTypeOK
  <2>5. CASE /\ k \in GateAdds(f)' => k \in GateAdds(f)
             /\ GateStays(f)' \subseteq GateStays(f)
    <3>1. GateAdds(f)' \subseteq GateAdds(f)
      BY <2>1, <2>5
    <3> QED
      BY <1>2, <2>3, <2>4, <2>5, <3>1, GateCountLess
  <2>6. CASE /\ k \in GateAdds(f) /\ k \notin GateAdds(f)'
             /\ \E r : GateStays(f)' \subseteq GateStays(f) \cup {r}
    <3>1. GateAdds(f)' \subseteq GateAdds(f) \ {k}
      BY <2>1, <2>6
    <3>2. PICK r : GateStays(f)' \subseteq GateStays(f) \cup {r}
      BY <2>6
    <3> QED
      BY <1>2, <2>3, <2>4, <2>6, <3>1, <3>2, GateCountMoved
  <2>7. CASE GateStays(f)' = {}
    <3>1. Cardinality(GateAbout(f)) <= 1 + gtOverlaps[f]
      BY DEF GateInv, GateCount
    <3>2. IsFiniteSet(GateAbout(f)) /\ Cardinality(GateAbout(f)) \in Nat /\ gtOverlaps[f] \in Nat
      BY <1>1, GateFinite
    <3>3. /\ IsFiniteSet(GateAbout(f)') /\ Cardinality(GateAbout(f)') <= Cardinality(GateAbout(f))
          /\ Cardinality(GateAbout(f)') \in Nat
      BY <2>3, <3>2, FS_Subset, FS_CardinalityType
    <3>4. GateAdds(f)' \subseteq GateAbout(f)'
      BY DEF GateAdds
    <3>5. Cardinality(GateAdds(f)') <= Cardinality(GateAbout(f)') /\ Cardinality(GateAdds(f)') \in Nat
      BY <3>3, <3>4, FS_Subset, FS_CardinalityType
    <3>6. Cardinality(GateStays(f)') = 0
      BY <2>7, FS_EmptySet
    <3>7. Cardinality(GateAbout(f)') <= 1 + gtOverlaps'[f]
      BY <2>4, <3>1, <3>2, <3>3
    <3>8. Cardinality(GateStays(f)') + Cardinality(GateAdds(f)') <= 1 + gtOverlaps'[f]
      BY <2>4, <3>2, <3>3, <3>5, <3>6, <3>7
    <3> QED
      BY <3>7, <3>8 DEF GateCount
  <2> QED
    BY <2>5, <2>6, <2>7
<1>4. ASSUME NEW g \in GtGates PROVE GateSure(g)'
  <2>1. CASE g \in gtUnsure'
    BY <2>1 DEF GateSure
  <2>2. CASE g \notin gtUnsure' /\ g \notin GateOf(k)
    <3>1. g \notin GateOf(k)'
      <4>1. call.row # 0 => call.row = gtCall[k].row /\ call.row \in DOMAIN gtRows
        BY <1>1 DEF GateCall
      <4>2. call.row # 0 => gtRows'[call.row].gate = gtRows[call.row].gate
        BY <4>1
      <4> QED
        BY <1>2, <2>2, <4>1, <4>2 DEF GateOf, GtGatesOf
    <3>2. GtActiveAt(g)' = GtActiveAt(g) /\ gtGate'[g] = gtGate[g]
      BY <2>2
    <3>3. \A r \in DOMAIN gtRows : gtRows'[r].gate = gtRows[r].gate
      OBVIOUS
    <3> QED
      BY <1>2, <2>2, <3>1, <3>2, <3>3, GateStep
  <2>3. CASE g \notin gtUnsure' /\ g \in GateOf(k)
    <3>1. g \notin gtUnsure
      BY <2>3
    <3>2. \A j \in GtCalls \ {k} : g \notin GateOf(j)
      BY <2>3, <3>1 DEF GateInv, GateSure
    <3>3. GateLocal(k, g)'
      BY <2>3
    <3>4. \A r \in DOMAIN gtRows : gtRows'[r].gate = gtRows[r].gate
      OBVIOUS
    <3> QED
      BY <1>2, <3>2, <3>3, <3>4, GateStep
  <2> QED
    BY <2>1, <2>2, <2>3
<1> QED
  BY <1>2, <1>3, <1>4 DEF GateInv

\* What is known of a gate that a call under way is about.
LEMMA GateKnown ==
  ASSUME GateInv, NEW k \in GtCalls, NEW g \in GtGates, g \notin gtUnsure, g \in GateOf(k)
  PROVE  /\ \A r, s \in GtActiveAt(g) : r = s
         /\ GateKnows(k, g)
         /\ ~GateBetween(k, g) => GateAgrees(g)
<1>1. /\ \A r, s \in GtActiveAt(g) : r = s
      /\ \A j \in GtCalls : GateKnows(j, g)
      /\ (\A j \in GtCalls : ~GateBetween(j, g)) => GateAgrees(g)
  BY DEF GateInv, GateSure
<1>2. \A i, j \in GtCalls : i # j => g \notin GateOf(i) \/ g \notin GateOf(j)
  BY DEF GateInv, GateSure
<1>3. \A j \in GtCalls \ {k} : g \notin GateOf(j)
  BY <1>2
<1>4. ASSUME NEW j \in GtCalls \ {k} PROVE ~GateBetween(j, g)
  <2>1. g \notin GateOf(j) /\ GateShape(j)
    BY <1>3 DEF GateInv
  <2> QED
    BY <2>1 DEF GateBetween, GateOf, GtGatesOf, GateShape
<1> QED
  BY <1>1, <1>4

\* When the active rows of a flight are the same, those that stay are at most
\* one more: the one that the call was to end.
LEMMA GateStaysSame ==
  ASSUME NEW k \in GtCalls, \A j \in GtCalls \ {k} : gtCall'[j] = gtCall[j],
         NEW f \in GtFlights, GtActiveOf(f)' \subseteq GtActiveOf(f)
  PROVE  /\ GateStays(f)' \subseteq GateStays(f) \cup {gtCall[k].row}
         /\ k \notin GateEnders(f) => GateStays(f)' \subseteq GateStays(f)
         /\ gtCall[k].row \in GateEnds(f)' => GateStays(f)' \subseteq GateStays(f)
<1>1. \A r \in GateEnds(f) : r \in GateEnds(f)' \/ (r = gtCall[k].row /\ k \in GateEnders(f))
  BY GateOthers
<1> QED
  BY <1>1 DEF GateStays

LEMMA GateEndsRow ==
  ASSUME NEW f \in GtFlights, NEW k \in GateEnders(f)
  PROVE  gtCall[k].row \in GateEnds(f)
BY DEF GateEnds

\* A call moves on, or stops, without touching the rows.
LEMMA GateTurns ==
  ASSUME GateInv, NEW k \in GtCalls, NEW call \in GateCall, GateShaped(call, gtRows),
         gtCall' = [gtCall EXCEPT ![k] = call],
         call.flights \subseteq gtCall[k].flights, call.to \subseteq gtCall[k].to,
         call.row = 0 \/ call.row = gtCall[k].row, gtRows' = gtRows,
         gtGate' \in [GtGates -> {"available", "occupied", "maintenance", "deleted"}],
         gtOps' = gtOps, gtOverlaps' = gtOverlaps,
         gtUnsure \subseteq gtUnsure', gtUnsure' \subseteq GtGates,
         \/ call = GtIdle
         \/ /\ call = [gtCall[k] EXCEPT !.doing = call.doing]
            /\ \/ call.doing = "end" /\ gtCall[k].doing = "look"
               \/ call.doing = "insert" /\ gtCall[k].doing = "free"
               \/ /\ call.doing = "insert" /\ gtCall[k].doing = "find"
                  /\ \A f \in gtCall[k].flights : GtActiveOf(f) = {},
         \A g \in GtGates : g \notin gtUnsure' =>
           \/ g \notin GateOf(k) /\ gtGate'[g] = gtGate[g]
           \/ g \in GateOf(k) /\ GateLocal(k, g)'
  PROVE  GateInv'
<1>1. /\ gtCall \in [GtCalls -> GateCall] /\ gtRows \in Seq(GateRow) /\ Len(gtRows) \in Nat
      /\ gtCall'[k] = call /\ \A j \in GtCalls \ {k} : gtCall'[j] = gtCall[j]
  BY GateTypes DEF GateInv
<1>2. ASSUME NEW f \in GtFlights
      PROVE  \/ /\ k \in GateAdds(f)' => k \in GateAdds(f)
                /\ GateStays(f)' \subseteq GateStays(f)
             \/ /\ k \in GateAdds(f) /\ k \notin GateAdds(f)'
                /\ \E r : GateStays(f)' \subseteq GateStays(f) \cup {r}
             \/ GateStays(f)' = {}
  <2>1. GtActiveOf(f)' = GtActiveOf(f)
    BY DEF GtActiveOf, GtActive
  <2>2. /\ GateStays(f)' \subseteq GateStays(f) \cup {gtCall[k].row}
        /\ k \notin GateEnders(f) => GateStays(f)' \subseteq GateStays(f)
        /\ gtCall[k].row \in GateEnds(f)' => GateStays(f)' \subseteq GateStays(f)
    BY <1>1, <2>1, GateStaysSame
  <2>3. CASE call = GtIdle
    <3>1. k \notin GateAdds(f)'
      BY <1>1, <2>3 DEF GateAdds, GateAbout, GtIdle
    <3>2. k \in GateEnders(f) => k \in GateAdds(f)
      BY DEF GateEnders, GateAdds
    <3> QED
      BY <2>2, <3>1, <3>2
  <2>4. CASE /\ call = [gtCall[k] EXCEPT !.doing = call.doing]
             /\ call.doing = "end" /\ gtCall[k].doing = "look"
    <3>1. /\ k \in GateAdds(f)' => k \in GateAdds(f)
          /\ k \in GateEnders(f) => k \in GateEnders(f)' /\ gtCall'[k].row = gtCall[k].row
      BY <1>1, <2>4 DEF GateAdds, GateAbout, GateEnders, GateCall
    <3>2. k \in GateEnders(f) => gtCall[k].row \in GateEnds(f)'
      BY <3>1 DEF GateEnds
    <3> QED
      BY <2>2, <3>1, <3>2
  <2>5. CASE /\ call = [gtCall[k] EXCEPT !.doing = call.doing]
             /\ call.doing = "insert" /\ gtCall[k].doing = "free"
    <3>1. /\ k \in GateAdds(f)' => k \in GateAdds(f)
          /\ k \notin GateEnders(f)
      BY <1>1, <2>5 DEF GateAdds, GateAbout, GateEnders, GateCall
    <3> QED
      BY <2>2, <3>1
  <2>6. CASE /\ call = [gtCall[k] EXCEPT !.doing = call.doing]
             /\ call.doing = "insert" /\ gtCall[k].doing = "find"
             /\ \A h \in gtCall[k].flights : GtActiveOf(h) = {}
    <3>1. CASE f \in gtCall[k].flights
      BY <2>1, <2>6, <3>1 DEF GateStays
    <3>2. CASE f \notin gtCall[k].flights
      <4>1. k \notin GateAdds(f)' /\ k \notin GateEnders(f)
        BY <1>1, <2>6, <3>2 DEF GateAdds, GateAbout, GateEnders, GateCall
      <4> QED
        BY <2>2, <4>1
    <3> QED
      BY <3>1, <3>2
  <2> QED
    BY <2>3, <2>4, <2>5, <2>6
<1>3. ASSUME NEW g \in GtGates, g \notin gtUnsure'
      PROVE  \/ /\ g \notin GateOf(k)
                /\ GtActiveAt(g)' = GtActiveAt(g) /\ gtGate'[g] = gtGate[g]
             \/ g \in GateOf(k) /\ GateLocal(k, g)'
  <2>1. GtActiveAt(g)' = GtActiveAt(g)
    BY DEF GtActiveAt, GtActive
  <2> QED
    BY <1>3, <2>1
<1>4. GateShaped(call, gtRows') /\ gtRows' \in Seq(GateRow) /\ Len(gtRows) <= Len(gtRows')
  BY <1>1
<1>5. \A r \in DOMAIN gtRows : /\ gtRows'[r].gate = gtRows[r].gate
                              /\ gtRows'[r].flight = gtRows[r].flight
  OBVIOUS
<1> QED
  BY <1>2, <1>3, <1>4, <1>5, GateGoes

\* GtIdle as a record of a call.
LEMMA GateIdle == GTTypeOK => GtIdle \in GateCall /\ \A rows : GateShaped(GtIdle, rows)
<1> SUFFICES ASSUME GTTypeOK PROVE GtIdle \in GateCall /\ \A rows : GateShaped(GtIdle, rows)
  OBVIOUS
<1>1. Len(gtRows) \in Nat
  BY GateTypes
<1> QED
  BY <1>1 DEF GtIdle, GateCall, GateShaped

LEMMA GateStops ==
  ASSUME GateInv, NEW k \in GtCalls, GTStop(k)
  PROVE  GateInv'
<1>1. /\ GTTypeOK /\ gtCall \in [GtCalls -> GateCall] /\ GateShape(k)
      /\ gtCall[k].doing # "idle" /\ gtCall' = [gtCall EXCEPT ![k] = GtIdle]
      /\ gtUnsure' = IF gtCall[k].doing \in {"free", "occupy"}
                     THEN gtUnsure \cup GateOf(k) ELSE gtUnsure
      /\ gtGate' = gtGate /\ gtRows' = gtRows /\ gtOps' = gtOps /\ gtOverlaps' = gtOverlaps
  BY GateTypes DEF GateInv, GTStop, GtDoing, GtEnd, GateOf
<1>2. GateOf(k) \subseteq GtGates
  <2>1. gtCall[k].row # 0 => gtRows[gtCall[k].row].gate \in GtGates
    BY <1>1, GateTypes DEF GateCall, GateRow
  <2>2. gtCall[k].to \subseteq GtGates
    BY <1>1 DEF GateCall
  <2> QED
    BY <2>1, <2>2 DEF GateOf, GtGatesOf
<1>3. gtUnsure \subseteq gtUnsure' /\ gtUnsure' \subseteq GtGates
  BY <1>1, <1>2 DEF GTTypeOK
<1>4. ASSUME NEW g \in GtGates, g \notin gtUnsure', g \in GateOf(k) PROVE GateLocal(k, g)'
  <2>1. ~GateBetween(k, g) /\ g \notin gtUnsure
    <3>1. gtCall[k].doing \notin {"free", "occupy"}
      BY <1>1, <1>4
    <3> QED
      BY <1>3, <1>4, <3>1 DEF GateBetween
  <2>2. (\A r, s \in GtActiveAt(g) : r = s) /\ GateAgrees(g)
    BY <1>4, <2>1, GateKnown
  <2>3. GtActiveAt(g)' = GtActiveAt(g)
    BY <1>1 DEF GtActiveAt, GtActive
  <2>4. GateAgrees(g)'
    BY <1>1, <2>2, <2>3 DEF GateAgrees
  <2>5. gtCall'[k] = GtIdle
    BY <1>1
  <2>6. GateKnows(k, g)'
    BY <2>5 DEF GateKnows, GtIdle
  <2> QED
    BY <2>2, <2>3, <2>4, <2>6 DEF GateLocal
<1>5. GtIdle \in GateCall /\ GateShaped(GtIdle, gtRows)
  BY <1>1, GateIdle
<1>6. GtIdle.flights \subseteq gtCall[k].flights /\ GtIdle.to \subseteq gtCall[k].to /\ GtIdle.row = 0
  BY DEF GtIdle
<1>7. gtGate' \in [GtGates -> {"available", "occupied", "maintenance", "deleted"}]
  BY <1>1 DEF GTTypeOK
<1>8. \A g \in GtGates : g \notin gtUnsure' =>
        \/ g \notin GateOf(k) /\ gtGate'[g] = gtGate[g]
        \/ g \in GateOf(k) /\ GateLocal(k, g)'
  BY <1>1, <1>4
<1> QED
  BY <1>1, <1>3, <1>5, <1>6, <1>7, <1>8, GateTurns

LEMMA GateFinds ==
  ASSUME GateInv, NEW k \in GtCalls, GTFindNone(k) \/ GTLookAtGate(k)
  PROVE  GateInv'
<1> DEFINE old == gtCall[k]
           what == IF old.doing = "find" THEN "insert" ELSE "end"
           call == [old EXCEPT !.doing = what]
<1>1. /\ GTTypeOK /\ gtCall \in [GtCalls -> GateCall] /\ GateShape(k)
      /\ gtRows' = gtRows /\ gtGate' = gtGate /\ gtUnsure' = gtUnsure
      /\ gtOps' = gtOps /\ gtOverlaps' = gtOverlaps
  BY GateTypes DEF GateInv, GTFindNone, GTLookAtGate
<1>2. /\ gtCall' = [gtCall EXCEPT ![k] = call]
      /\ \/ old.doing = "find" /\ \A f \in old.flights : GtActiveOf(f) = {}
         \/ old.doing = "look" /\ \A g \in old.to : gtGate[g] # "deleted"
  BY <1>1 DEF GTFindNone, GTLookAtGate, GtDoing, GtSet, GtFree, GtUsable
<1>3. /\ call \in GateCall /\ call.doing = what /\ call.flights = old.flights
      /\ call.to = old.to /\ call.row = old.row
  BY <1>1 DEF GateCall
<1>4. GateShaped(call, gtRows)
  BY <1>1, <1>2, <1>3 DEF GateShape, GateShaped
<1>5. ASSUME NEW g \in GtGates, g \notin gtUnsure, g \in GateOf(k) PROVE GateLocal(k, g)'
  <2>1. /\ \A r, s \in GtActiveAt(g) : r = s
        /\ GateKnows(k, g) /\ (~GateBetween(k, g) => GateAgrees(g))
    BY <1>5, GateKnown
  <2>2. GtActiveAt(g)' = GtActiveAt(g) /\ gtGate' = gtGate /\ gtRows' = gtRows
    BY <1>1 DEF GtActiveAt, GtActive
  <2>3. gtCall'[k] = call
    BY <1>1, <1>2
  <2>4. ~GateBetween(k, g)
    BY <1>2 DEF GateBetween
  <2>5. GateAgrees(g)'
    BY <2>1, <2>2, <2>4 DEF GateAgrees
  <2>6. GateKnows(k, g)'
    <3> HIDE DEF call
    <3> QED
      BY <1>2, <1>3, <2>1, <2>2, <2>3 DEF GateKnows
  <2> QED
    BY <2>1, <2>2, <2>5, <2>6 DEF GateLocal
<1>6. gtGate' \in [GtGates -> {"available", "occupied", "maintenance", "deleted"}]
      /\ gtUnsure' \subseteq GtGates
  BY <1>1 DEF GTTypeOK
<1>7. \A g \in GtGates : g \notin gtUnsure' =>
        \/ g \notin GateOf(k) /\ gtGate'[g] = gtGate[g]
        \/ g \in GateOf(k) /\ GateLocal(k, g)'
  BY <1>1, <1>5
<1>8. /\ call = [gtCall[k] EXCEPT !.doing = call.doing]
      /\ \/ call.doing = "end" /\ gtCall[k].doing = "look"
         \/ call.doing = "insert" /\ gtCall[k].doing = "free"
         \/ /\ call.doing = "insert" /\ gtCall[k].doing = "find"
            /\ \A f \in gtCall[k].flights : GtActiveOf(f) = {}
  BY <1>2, <1>3
<1> HIDE DEF call
<1> QED
  BY <1>1, <1>2, <1>3, <1>4, <1>6, <1>7, <1>8, GateTurns

\* The status of a gate is written; the call ends, or goes on to insert.
LEMMA GateWrites ==
  ASSUME GateInv, NEW k \in GtCalls, GTDelete(k) \/ GTFree(k) \/ GTOccupy(k)
  PROVE  GateInv'
<1> DEFINE old == gtCall[k]
           next == [old EXCEPT !.doing = "insert"]
           Status == {"available", "occupied", "maintenance", "deleted"}
<1>1. /\ GTTypeOK /\ gtCall \in [GtCalls -> GateCall] /\ GateShape(k) /\ old \in GateCall
      /\ gtGate \in [GtGates -> Status]
      /\ gtRows' = gtRows /\ gtUnsure' = gtUnsure
      /\ gtOps' = gtOps /\ gtOverlaps' = gtOverlaps
  BY GateTypes DEF GateInv, GTDelete, GTFree, GTOccupy, GTTypeOK
<1>2. /\ next \in GateCall /\ next.doing = "insert" /\ next.flights = old.flights
      /\ next.to = old.to /\ next.row = old.row
  BY <1>1 DEF GateCall
<1>3. \/ /\ old.doing = "delete" /\ gtCall' = [gtCall EXCEPT ![k] = GtIdle]
         /\ gtGate' = [g \in GtGates |-> IF g \in old.to THEN "deleted" ELSE gtGate[g]]
      \/ /\ old.doing = "free"
         /\ gtGate' = GtWritten(gtRows[old.row].gate, "available")
         /\ \/ gtCall' = [gtCall EXCEPT ![k] = GtIdle]
            \/ old.to # {} /\ gtCall' = [gtCall EXCEPT ![k] = next]
      \/ /\ old.doing = "occupy" /\ gtCall' = [gtCall EXCEPT ![k] = GtIdle]
         /\ \E g \in old.to : gtGate' = GtWritten(g, "occupied")
  BY <1>1 DEF GTDelete, GTFree, GTOccupy, GtDoing, GtSet, GtEnd
<1>4. gtGate' \in [GtGates -> Status]
  BY <1>1, <1>3 DEF GtWritten
<1> HIDE DEF next
<1>5. \A g \in GtGates \ GateOf(k) : gtGate'[g] = gtGate[g]
  <2>1. CASE old.doing = "delete"
    BY <1>1, <1>3, <2>1 DEF GateOf, GtGatesOf
  <2>2. CASE old.doing = "free"
    BY <1>1, <1>3, <2>2 DEF GtWritten, GateOf, GtGatesOf, GateShape
  <2>3. CASE old.doing = "occupy"
    BY <1>1, <1>3, <2>3 DEF GtWritten, GateOf, GtGatesOf
  <2> QED
    BY <1>3, <2>1, <2>2, <2>3
<1>6. ASSUME NEW g \in GtGates, g \notin gtUnsure, g \in GateOf(k) PROVE GateLocal(k, g)'
  <2>1. /\ \A r, s \in GtActiveAt(g) : r = s
        /\ GateKnows(k, g) /\ (~GateBetween(k, g) => GateAgrees(g))
    BY <1>6, GateKnown
  <2>2. GtActiveAt(g)' = GtActiveAt(g)
    BY <1>1 DEF GtActiveAt, GtActive
  <2>3. GateAgrees(g)'
    <3>1. CASE old.doing = "delete"
      <4>1. ~GateBetween(k, g)
        BY <3>1 DEF GateBetween
      <4>2. g \in old.to => GtActiveAt(g) = {}
        BY <2>1, <3>1 DEF GateKnows
      <4>3. gtGate'[g] = IF g \in old.to THEN "deleted" ELSE gtGate[g]
        BY <1>1, <1>3, <3>1
      <4> QED
        BY <2>1, <2>2, <4>1, <4>2, <4>3 DEF GateAgrees
    <3>2. CASE old.doing = "free"
      <4>1. CASE gtRows[old.row].gate = g
        <5>1. GtActiveAt(g) = {}
          BY <2>1, <3>2, <4>1 DEF GateKnows
        <5>2. gtGate'[g] # "occupied"
          BY <1>1, <1>3, <3>2, <4>1 DEF GtWritten
        <5> QED
          BY <2>2, <5>1, <5>2 DEF GateAgrees
      <4>2. CASE gtRows[old.row].gate # g
        <5>1. ~GateBetween(k, g) /\ gtGate'[g] = gtGate[g]
          BY <1>1, <1>3, <3>2, <4>2 DEF GtWritten, GateBetween
        <5> QED
          BY <2>1, <2>2, <5>1 DEF GateAgrees
      <4> QED
        BY <4>1, <4>2
    <3>3. CASE old.doing = "occupy"
      <4>1. CASE g \in old.to
        <5>1. GtActiveAt(g) # {} /\ gtGate[g] # "deleted"
          BY <2>1, <3>3, <4>1 DEF GateKnows
        <5>2. gtGate' = GtWritten(g, "occupied")
          BY <1>1, <1>3, <3>3, <4>1 DEF GateShape
        <5>3. gtGate'[g] = "occupied"
          BY <1>1, <5>1, <5>2 DEF GtWritten
        <5> QED
          BY <2>2, <5>1, <5>3 DEF GateAgrees
      <4>2. CASE g \notin old.to
        <5>1. ~GateBetween(k, g) /\ gtGate'[g] = gtGate[g]
          BY <1>1, <1>3, <3>3, <4>2 DEF GtWritten, GateBetween
        <5> QED
          BY <2>1, <2>2, <5>1 DEF GateAgrees
      <4> QED
        BY <4>1, <4>2
    <3> QED
      BY <1>3, <3>1, <3>2, <3>3
  <2>4. GateKnows(k, g)'
    <3>1. CASE gtCall'[k] = GtIdle
      BY <3>1 DEF GateKnows, GtIdle
    <3>2. CASE gtCall'[k] = next /\ old.doing = "free"
      <4>1. g \in old.to => gtGate[g] # "deleted"
        BY <2>1, <3>2 DEF GateKnows
      <4>2. gtGate[g] # "deleted" => gtGate'[g] # "deleted"
        BY <1>1, <1>3, <3>2 DEF GtWritten
      <4> QED
        BY <1>2, <3>2, <4>1, <4>2 DEF GateKnows
    <3> QED
      BY <1>1, <1>3, <3>1, <3>2
  <2> QED
    BY <2>1, <2>2, <2>3, <2>4 DEF GateLocal
<1>7. \A g \in GtGates : g \notin gtUnsure' =>
        \/ g \notin GateOf(k) /\ gtGate'[g] = gtGate[g]
        \/ g \in GateOf(k) /\ GateLocal(k, g)'
  BY <1>1, <1>5, <1>6
<1>8. gtUnsure' \subseteq GtGates /\ gtUnsure \subseteq gtUnsure'
  BY <1>1 DEF GTTypeOK
<1>9. CASE gtCall' = [gtCall EXCEPT ![k] = GtIdle]
  <2>1. GtIdle \in GateCall /\ GateShaped(GtIdle, gtRows)
    BY <1>1, GateIdle
  <2>2. GtIdle.flights \subseteq old.flights /\ GtIdle.to \subseteq old.to /\ GtIdle.row = 0
    BY DEF GtIdle
  <2> QED
    BY <1>1, <1>4, <1>7, <1>8, <1>9, <2>1, <2>2, GateTurns
<1>10. CASE old.to # {} /\ old.doing = "free" /\ gtCall' = [gtCall EXCEPT ![k] = next]
  <2>1. GateShaped(next, gtRows)
    BY <1>1, <1>2, <1>10 DEF GateShape, GateShaped
  <2>2. next = [gtCall[k] EXCEPT !.doing = next.doing]
    BY <1>2 DEF next
  <2> QED
    BY <1>1, <1>2, <1>4, <1>7, <1>8, <1>10, <2>1, <2>2, GateTurns
<1> QED
  BY <1>3, <1>9, <1>10

LEMMA GateEndsARow ==
  ASSUME GateInv, NEW k \in GtCalls, GTEndRow(k)
  PROVE  GateInv'
<1> DEFINE old == gtCall[k]
           call == [old EXCEPT !.doing = "free"]
           n == old.row
           row == [gtRows[n] EXCEPT !.status = "ended"]
<1>1. /\ GTTypeOK /\ gtCall \in [GtCalls -> GateCall] /\ GateShape(k) /\ old \in GateCall
      /\ gtRows \in Seq(GateRow) /\ Len(gtRows) \in Nat /\ DOMAIN gtRows = 1..Len(gtRows)
      /\ gtGate' = gtGate /\ gtUnsure' = gtUnsure /\ gtOps' = gtOps /\ gtOverlaps' = gtOverlaps
  BY GateTypes DEF GateInv, GTEndRow
<1>2. /\ old.doing = "end" /\ n # 0 /\ gtRows[n].flight \in old.flights
      /\ gtRows' = [gtRows EXCEPT ![n].status = "ended"]
      /\ gtCall' = [gtCall EXCEPT ![k] = call]
  BY <1>1 DEF GTEndRow, GtDoing, GtSet, GateShape
<1>3. n \in DOMAIN gtRows /\ gtRows[n] \in GateRow
  BY <1>1, <1>2 DEF GateCall
<1>4. /\ call \in GateCall /\ call.doing = "free" /\ call.flights = old.flights
      /\ call.to = old.to /\ call.row = n
  BY <1>1 DEF GateCall
<1>5. /\ row \in GateRow /\ row.gate = gtRows[n].gate /\ row.flight = gtRows[n].flight
      /\ row.status = "ended"
  BY <1>3 DEF GateRow
<1>6. gtRows' = [gtRows EXCEPT ![n] = row]
  BY <1>2
<1> HIDE DEF call, row
<1>7. /\ gtRows' \in Seq(GateRow) /\ Len(gtRows') = Len(gtRows) /\ DOMAIN gtRows' = DOMAIN gtRows
      /\ gtRows'[n] = row /\ \A r \in DOMAIN gtRows \ {n} : gtRows'[r] = gtRows[r]
  BY <1>1, <1>3, <1>5, <1>6
<1>8. \A r \in DOMAIN gtRows : /\ gtRows'[r].gate = gtRows[r].gate
                              /\ gtRows'[r].flight = gtRows[r].flight
  BY <1>5, <1>7
<1>9. GtActive' = GtActive \ {n}
  BY <1>5, <1>7 DEF GtActive
<1>10. \A g \in GtGates : GtActiveAt(g)' = GtActiveAt(g) \ {n}
  BY <1>8, <1>9 DEF GtActiveAt, GtActive
<1>11. \A f \in GtFlights : GtActiveOf(f)' = GtActiveOf(f) \ {n}
  BY <1>8, <1>9 DEF GtActiveOf, GtActive
<1>12. gtCall'[k] = call /\ \A j \in GtCalls \ {k} : gtCall'[j] = gtCall[j]
  BY <1>1, <1>2
<1>13. ASSUME NEW f \in GtFlights
       PROVE  /\ k \in GateAdds(f)' => k \in GateAdds(f)
              /\ GateStays(f)' \subseteq GateStays(f)
  <2>1. k \in GateAdds(f)' => k \in GateAdds(f)
    BY <1>2, <1>4, <1>12 DEF GateAdds, GateAbout
  <2>2. GateStays(f)' \subseteq GateStays(f) \cup {n}
    <3>1. GtActiveOf(f)' \subseteq GtActiveOf(f)
      BY <1>11
    <3> QED
      BY <1>12, <3>1, GateStaysSame
  <2>3. n \notin GateStays(f)'
    BY <1>11 DEF GateStays
  <2> QED
    BY <2>1, <2>2, <2>3
<1>14. ASSUME NEW g \in GtGates, g \notin GateOf(k) PROVE GtActiveAt(g)' = GtActiveAt(g)
  <2>1. n \notin GtActiveAt(g)
    BY <1>2, <1>14 DEF GateOf, GtGatesOf, GtActiveAt
  <2> QED
    BY <1>10, <2>1
<1>15. ASSUME NEW g \in GtGates, g \notin gtUnsure, g \in GateOf(k) PROVE GateLocal(k, g)'
  <2>1. /\ \A r, s \in GtActiveAt(g) : r = s
        /\ GateKnows(k, g) /\ GateAgrees(g)
    BY <1>2, <1>15, GateKnown DEF GateBetween
  <2>2. GtActiveAt(g)' = GtActiveAt(g) \ {n}
    BY <1>10
  <2>3. g \in old.to => gtGate'[g] # "deleted"
    BY <1>1, <1>2, <2>1 DEF GateKnows
  <2>4. gtRows'[n].gate = gtRows[n].gate
    BY <1>3, <1>8
  <2>5. CASE gtRows[n].gate = g
    <3>1. n \in GtActiveAt(g)
      BY <1>2, <2>1, <2>5 DEF GateKnows
    <3>2. GtActiveAt(g)' = {}
      BY <2>1, <2>2, <3>1
    <3>3. GateKnows(k, g)' /\ GateBetween(k, g)'
      BY <1>4, <1>12, <2>3, <2>4, <2>5, <3>2 DEF GateKnows, GateBetween
    <3> QED
      BY <3>2, <3>3 DEF GateLocal
  <2>6. CASE gtRows[n].gate # g
    <3>1. GtActiveAt(g)' = GtActiveAt(g)
      BY <2>2, <2>6 DEF GtActiveAt
    <3>2. GateAgrees(g)'
      BY <1>1, <2>1, <3>1 DEF GateAgrees
    <3>3. GateKnows(k, g)'
      BY <1>4, <1>12, <2>3, <2>4, <2>6 DEF GateKnows
    <3> QED
      BY <2>1, <3>1, <3>2, <3>3 DEF GateLocal
  <2> QED
    BY <2>5, <2>6
<1>16. \A g \in GtGates : g \notin gtUnsure' =>
        \/ /\ g \notin GateOf(k)
           /\ GtActiveAt(g)' = GtActiveAt(g) /\ gtGate'[g] = gtGate[g]
        \/ g \in GateOf(k) /\ GateLocal(k, g)'
  BY <1>1, <1>14, <1>15
<1>17. GateShaped(call, gtRows')
  <2>1. gtRows'[n].flight \in call.flights
    BY <1>2, <1>3, <1>4, <1>8
  <2> QED
    BY <1>1, <1>2, <1>4, <2>1 DEF GateShape, GateShaped
<1>18. /\ gtGate' \in [GtGates -> {"available", "occupied", "maintenance", "deleted"}]
       /\ gtUnsure \subseteq gtUnsure' /\ gtUnsure' \subseteq GtGates
       /\ Len(gtRows) <= Len(gtRows')
  BY <1>1, <1>7 DEF GTTypeOK
<1> QED
  BY <1>1, <1>2, <1>4, <1>7, <1>8, <1>13, <1>16, <1>17, <1>18, GateGoes

LEMMA GateInserts ==
  ASSUME GateInv, NEW k \in GtCalls, GTInsert(k)
  PROVE  GateInv'
<1> DEFINE old == gtCall[k]
           call == [old EXCEPT !.doing = "occupy"]
           n == Len(gtRows) + 1
<1>1. /\ GTTypeOK /\ gtCall \in [GtCalls -> GateCall] /\ GateShape(k) /\ old \in GateCall
      /\ gtRows \in Seq(GateRow) /\ Len(gtRows) \in Nat /\ DOMAIN gtRows = 1..Len(gtRows)
      /\ gtGate' = gtGate /\ gtOps' = gtOps /\ gtOverlaps' = gtOverlaps
  BY GateTypes DEF GateInv, GTInsert
<1>2. /\ old.doing = "insert" /\ old.to # {} /\ gtCall' = [gtCall EXCEPT ![k] = call]
      /\ \E f \in old.flights, g \in old.to :
           /\ gtRows' = Append(gtRows, [flight |-> f, gate |-> g, status |-> "assigned"])
           /\ gtUnsure' = IF GtActiveAt(g) = {} THEN gtUnsure ELSE gtUnsure \cup {g}
  BY <1>1 DEF GTInsert, GtDoing, GtSet, GateShape
<1>3. PICK f0 \in old.flights, g0 \in old.to :
           /\ gtRows' = Append(gtRows, [flight |-> f0, gate |-> g0, status |-> "assigned"])
           /\ gtUnsure' = IF GtActiveAt(g0) = {} THEN gtUnsure ELSE gtUnsure \cup {g0}
  BY <1>2
<1> DEFINE row == [flight |-> f0, gate |-> g0, status |-> "assigned"]
<1>4. /\ f0 \in GtFlights /\ g0 \in GtGates
      /\ \A g \in old.to : g = g0
      /\ \A f \in old.flights : f = f0
  BY <1>1, <1>3 DEF GateCall, GateShape
<1>5. /\ call \in GateCall /\ call.doing = "occupy" /\ call.flights = old.flights
      /\ call.to = old.to /\ call.row = old.row
  BY <1>1 DEF GateCall
<1>6. row \in GateRow /\ row.gate = g0 /\ row.flight = f0 /\ row.status = "assigned"
  BY <1>4 DEF GateRow
<1>7. gtRows' = Append(gtRows, row)
  BY <1>3
<1> HIDE DEF call, row
<1>8. /\ gtRows' \in Seq(GateRow) /\ Len(gtRows') = n /\ DOMAIN gtRows' = DOMAIN gtRows \cup {n}
      /\ gtRows'[n] = row /\ \A r \in DOMAIN gtRows : gtRows'[r] = gtRows[r]
      /\ n \notin DOMAIN gtRows
  BY <1>1, <1>6, <1>7
<1> HIDE DEF n
<1>9. GtActive' = GtActive \cup {n}
  BY <1>6, <1>8 DEF GtActive
<1>10. ASSUME NEW g \in GtGates
       PROVE  GtActiveAt(g)' = IF g = g0 THEN GtActiveAt(g) \cup {n} ELSE GtActiveAt(g)
  BY <1>6, <1>8, <1>9 DEF GtActiveAt, GtActive
<1>11. ASSUME NEW f \in GtFlights
       PROVE  GtActiveOf(f)' = IF f = f0 THEN GtActiveOf(f) \cup {n} ELSE GtActiveOf(f)
  BY <1>6, <1>8, <1>9 DEF GtActiveOf, GtActive
<1>12. gtCall'[k] = call /\ \A j \in GtCalls \ {k} : gtCall'[j] = gtCall[j]
  BY <1>1, <1>2
<1>13. ASSUME NEW f \in GtFlights
       PROVE  \/ /\ k \in GateAdds(f)' => k \in GateAdds(f)
                 /\ GateStays(f)' \subseteq GateStays(f)
              \/ /\ k \in GateAdds(f) /\ k \notin GateAdds(f)'
                 /\ GateStays(f)' \subseteq GateStays(f) \cup {n}
  <2>1. k \notin GateAdds(f)' /\ k \notin GateEnders(f)
    BY <1>2, <1>5, <1>12 DEF GateAdds, GateEnders, GateAbout
  <2>2. \A r \in GateEnds(f) : r \in GateEnds(f)'
    BY <1>12, <2>1, GateOthers
  <2>3. CASE f = f0
    <3>1. k \in GateAdds(f)
      BY <1>2, <1>3, <2>3 DEF GateAdds, GateAbout
    <3>2. GtActiveOf(f)' = GtActiveOf(f) \cup {n}
      BY <1>11, <2>3
    <3>3. GateStays(f)' \subseteq GateStays(f) \cup {n}
      BY <2>2, <3>2 DEF GateStays
    <3> QED
      BY <2>1, <3>1, <3>3
  <2>4. CASE f # f0
    <3>1. GtActiveOf(f)' = GtActiveOf(f)
      BY <1>11, <2>4
    <3>2. GateStays(f)' \subseteq GateStays(f)
      BY <2>2, <3>1 DEF GateStays
    <3> QED
      BY <2>1, <3>2
  <2> QED
    BY <2>3, <2>4
<1>14. ASSUME NEW g \in GtGates, g \notin gtUnsure', g \notin GateOf(k)
       PROVE  GtActiveAt(g)' = GtActiveAt(g)
  <2>1. g # g0
    BY <1>3, <1>14 DEF GateOf, GtGatesOf
  <2> QED
    BY <1>10, <2>1
<1>15. gtUnsure \subseteq gtUnsure' /\ gtUnsure' \subseteq GtGates
  BY <1>1, <1>3, <1>4 DEF GTTypeOK
<1>16. ASSUME NEW g \in GtGates, g \notin gtUnsure', g \in GateOf(k) PROVE GateLocal(k, g)'
  <2>1. /\ \A r, s \in GtActiveAt(g) : r = s
        /\ GateKnows(k, g) /\ GateAgrees(g)
    BY <1>2, <1>15, <1>16, GateKnown DEF GateBetween
  <2>2. g \in old.to => gtGate'[g] # "deleted"
    BY <1>1, <1>2, <2>1 DEF GateKnows
  <2>3. CASE g = g0
    <3>1. GtActiveAt(g) = {}
      BY <1>3, <1>16, <2>3
    <3>2. GtActiveAt(g)' = {n}
      BY <1>10, <2>3, <3>1
    <3>3. GateKnows(k, g)' /\ GateBetween(k, g)'
      BY <1>3, <1>5, <1>12, <2>2, <2>3, <3>2 DEF GateKnows, GateBetween
    <3> QED
      BY <3>2, <3>3 DEF GateLocal
  <2>4. CASE g # g0
    <3>1. GtActiveAt(g)' = GtActiveAt(g)
      BY <1>10, <2>4
    <3>2. GateAgrees(g)'
      BY <1>1, <2>1, <3>1 DEF GateAgrees
    <3>3. g \notin old.to
      BY <1>4, <2>4
    <3>4. GateKnows(k, g)'
      BY <1>5, <1>12, <3>3 DEF GateKnows
    <3> QED
      BY <2>1, <3>1, <3>2, <3>4 DEF GateLocal
  <2> QED
    BY <2>3, <2>4
<1>17. \A g \in GtGates : g \notin gtUnsure' =>
        \/ /\ g \notin GateOf(k)
           /\ GtActiveAt(g)' = GtActiveAt(g) /\ gtGate'[g] = gtGate[g]
        \/ g \in GateOf(k) /\ GateLocal(k, g)'
  BY <1>1, <1>14, <1>16
<1>18. GateShaped(call, gtRows')
  BY <1>1, <1>2, <1>5 DEF GateShape, GateShaped
<1>19. /\ gtGate' \in [GtGates -> {"available", "occupied", "maintenance", "deleted"}]
       /\ Len(gtRows) <= Len(gtRows')
       /\ \A r \in DOMAIN gtRows : /\ gtRows'[r].gate = gtRows[r].gate
                                  /\ gtRows'[r].flight = gtRows[r].flight
  BY <1>1, <1>8 DEF GTTypeOK, n
<1>20. \A f \in GtFlights :
           \/ /\ k \in GateAdds(f)' => k \in GateAdds(f)
              /\ GateStays(f)' \subseteq GateStays(f)
           \/ /\ k \in GateAdds(f) /\ k \notin GateAdds(f)'
              /\ \E r : GateStays(f)' \subseteq GateStays(f) \cup {r}
           \/ GateStays(f)' = {}
  BY <1>13
<1> QED
  BY <1>1, <1>2, <1>5, <1>8, <1>15, <1>17, <1>18, <1>19, <1>20, GateGoes

\* An administrator sets the status of a gate: the gate is no longer sure.
LEMMA GateIsSet ==
  ASSUME GateInv, NEW g0 \in GtGates, NEW status \in {"available", "occupied", "maintenance"},
         GTSetByHand(g0, status)
  PROVE  GateInv'
<1>1. /\ GTTypeOK /\ gtCall \in [GtCalls -> GateCall]
      /\ gtRows' = gtRows /\ gtCall' = gtCall /\ gtOverlaps' = gtOverlaps
      /\ gtUnsure' = gtUnsure \cup {g0} /\ gtOps < GtMaxOps /\ gtOps' = gtOps + 1
      /\ gtGate' = [gtGate EXCEPT ![g0] = status]
  BY GateTypes DEF GateInv, GTSetByHand
<1>2. GTTypeOK'
  <2>1. gtGate' \in [GtGates -> {"available", "occupied", "maintenance", "deleted"}]
    BY <1>1 DEF GTTypeOK
  <2>2. gtOps' \in 0..GtMaxOps
    BY <1>1, GatesAssumption DEF GTTypeOK
  <2>3. gtUnsure' \subseteq GtGates
    BY <1>1 DEF GTTypeOK
  <2> QED
    BY <1>1, <2>1, <2>2, <2>3 DEF GTTypeOK
<1>3. \A k \in GtCalls : GateShape(k)'
  BY <1>1 DEF GateInv, GateShape
<1>4. ASSUME NEW f \in GtFlights PROVE GateCount(f)'
  <2>1. /\ GateAbout(f)' = GateAbout(f) /\ GateAdds(f)' = GateAdds(f)
        /\ GateEnders(f)' = GateEnders(f) /\ GtActiveOf(f)' = GtActiveOf(f)
    BY <1>1 DEF GateAbout, GateAdds, GateEnders, GtActiveOf, GtActive
  <2>2. GateEnds(f)' = GateEnds(f)
    BY <1>1, <2>1 DEF GateEnds
  <2>3. GateStays(f)' = GateStays(f)
    BY <2>1, <2>2 DEF GateStays
  <2>4. gtOverlaps[f] <= gtOverlaps'[f]
    BY <1>1 DEF GTTypeOK
  <2> QED
    BY <1>2, <2>1, <2>3, <2>4, GateCountLess
<1>5. ASSUME NEW g \in GtGates PROVE GateSure(g)'
  <2>1. CASE g = g0
    BY <1>1, <2>1 DEF GateSure
  <2>2. CASE g # g0
    <3>1. GtActiveAt(g)' = GtActiveAt(g) /\ gtGate'[g] = gtGate[g]
      BY <1>1, <2>2 DEF GtActiveAt, GtActive
    <3>2. \A k \in GtCalls : GateOf(k)' = GateOf(k)
      BY <1>1 DEF GateOf, GtGatesOf
    <3>3. \A k \in GtCalls : /\ GateKnows(k, g)' <=> GateKnows(k, g)
                             /\ GateBetween(k, g)' <=> GateBetween(k, g)
      BY <1>1, <3>1 DEF GateKnows, GateBetween
    <3>4. GateAgrees(g)' <=> GateAgrees(g)
      BY <3>1 DEF GateAgrees
    <3>5. GateSure(g) /\ (g \in gtUnsure => g \in gtUnsure')
      BY <1>1 DEF GateInv
    <3>6. (\A r, s \in GtActiveAt(g) : r = s) => (\A r, s \in GtActiveAt(g)' : r = s)
      BY <3>1
    <3> QED
      BY <3>2, <3>3, <3>4, <3>5, <3>6 DEF GateSure
  <2> QED
    BY <2>1, <2>2
<1> QED
  BY <1>2, <1>3, <1>4, <1>5 DEF GateInv

\* What a call is about when it begins.
LEMMA GateReads ==
  ASSUME GateInv, NEW k \in GtCalls, NEW f \in GtFlights, NEW g \in GtGates,
         \/ GTReadToAssign(k, f, g) \/ GTReadToDelete(k, g)
         \/ \E r \in DOMAIN gtRows : GTReadToChange(k, f, r, g) \/ GTReadToRelease(k, f, r)
  PROVE  GateInv'
<1>1. Len(gtRows) \in Nat /\ DOMAIN gtRows = 1..Len(gtRows)
  BY GateTypes DEF GateInv
<1>2. CASE GTReadToAssign(k, f, g)
  <2> DEFINE call == [doing |-> "find", flights |-> {f}, to |-> {g}, row |-> 0]
  <2>1. call \in GateCall
    BY <1>1 DEF GateCall
  <2>2. /\ call.doing = "find" /\ call.flights = {f} /\ call.to = {g} /\ call.row = 0
        /\ GtBegin(k, call) /\ gtGate[g] # "deleted"
    BY <1>2 DEF GTReadToAssign, GtUsable
  <2> HIDE DEF call
  <2>3. GateShaped(call, gtRows)
    BY <2>2 DEF GateShaped
  <2> QED
    BY <2>1, <2>2, <2>3, GateBegins
<1>3. CASE GTReadToDelete(k, g)
  <2> DEFINE call == [doing |-> "delete", flights |-> {}, to |-> {g}, row |-> 0]
  <2>1. call \in GateCall
    BY <1>1 DEF GateCall
  <2>2. /\ call.doing = "delete" /\ call.flights = {} /\ call.to = {g} /\ call.row = 0
        /\ GtBegin(k, call) /\ GtActiveAt(g) = {}
    BY <1>3 DEF GTReadToDelete
  <2> HIDE DEF call
  <2>3. GateShaped(call, gtRows)
    BY <2>2 DEF GateShaped
  <2> QED
    BY <2>1, <2>2, <2>3, GateBegins
<1>4. ASSUME NEW r \in DOMAIN gtRows, GTReadToChange(k, f, r, g) PROVE GateInv'
  <2> DEFINE call == [doing |-> "look", flights |-> {f}, to |-> {g}, row |-> r]
  <2>1. call \in GateCall
    BY <1>1 DEF GateCall
  <2>2. /\ call.doing = "look" /\ call.flights = {f} /\ call.to = {g} /\ call.row = r
        /\ GtBegin(k, call)
    BY <1>4 DEF GTReadToChange
  <2>3. r # 0 /\ r \in GtActive /\ gtRows[r].flight = f
    BY <1>1, <1>4 DEF GTReadToChange, GtActiveOf
  <2> HIDE DEF call
  <2>4. GateShaped(call, gtRows)
    BY <2>2, <2>3 DEF GateShaped
  <2> QED
    BY <2>1, <2>2, <2>3, <2>4, GateBegins
<1>5. ASSUME NEW r \in DOMAIN gtRows, GTReadToRelease(k, f, r) PROVE GateInv'
  <2> DEFINE call == [doing |-> "end", flights |-> {f}, to |-> {}, row |-> r]
  <2>1. call \in GateCall
    BY <1>1 DEF GateCall
  <2>2. /\ call.doing = "end" /\ call.flights = {f} /\ call.to = {} /\ call.row = r
        /\ GtBegin(k, call)
    BY <1>5 DEF GTReadToRelease
  <2>3. r # 0 /\ r \in GtActive /\ gtRows[r].flight = f
    BY <1>1, <1>5 DEF GTReadToRelease, GtActiveOf
  <2> HIDE DEF call
  <2>4. GateShaped(call, gtRows)
    BY <2>2, <2>3 DEF GateShaped
  <2> QED
    BY <2>1, <2>2, <2>3, <2>4, GateBegins
<1> QED
  BY <1>2, <1>3, <1>4, <1>5

LEMMA GateSame ==
  ASSUME GateInv, UNCHANGED gtVars
  PROVE  GateInv'
<1>1. /\ gtGate' = gtGate /\ gtRows' = gtRows /\ gtCall' = gtCall
      /\ gtOps' = gtOps /\ gtOverlaps' = gtOverlaps /\ gtUnsure' = gtUnsure
  BY DEF gtVars
<1>2. GTTypeOK' <=> GTTypeOK
  BY <1>1 DEF GTTypeOK
<1>3. GtActive' = GtActive
  BY <1>1 DEF GtActive
<1>4. \A k \in GtCalls : GateShape(k)' <=> GateShape(k)
  BY <1>1 DEF GateShape
<1>5. ASSUME NEW f \in GtFlights PROVE GateCount(f)'
  <2>1. GateCount(f)
    BY DEF GateInv
  <2>2. GateAbout(f)' = GateAbout(f) /\ GateAdds(f)' = GateAdds(f) /\ GtActiveOf(f)' = GtActiveOf(f)
    BY <1>1 DEF GateAbout, GateAdds, GtActiveOf, GtActive
  <2>3. GateEnds(f)' = GateEnds(f)
    BY <1>1 DEF GateEnds, GateEnders, GateAbout
  <2>4. GateStays(f)' = GateStays(f)
    BY <2>2, <2>3 DEF GateStays
  <2> QED
    BY <1>1, <2>1, <2>2, <2>4 DEF GateCount
<1>6. ASSUME NEW g \in GtGates PROVE GateSure(g)'
  <2>1. GateSure(g)
    BY DEF GateInv
  <2>2. GtActiveAt(g)' = GtActiveAt(g)
    BY <1>1, <1>3 DEF GtActiveAt
  <2>3. \A k \in GtCalls : /\ GateKnows(k, g)' <=> GateKnows(k, g)
                           /\ GateBetween(k, g)' <=> GateBetween(k, g)
                           /\ GateOf(k)' = GateOf(k)
    BY <1>1, <2>2 DEF GateKnows, GateBetween, GateOf, GtGatesOf
  <2>4. GateAgrees(g)' <=> GateAgrees(g)
    BY <1>1, <2>2 DEF GateAgrees
  <2> QED
    BY <1>1, <2>1, <2>2, <2>3, <2>4 DEF GateSure
<1> QED
  BY <1>2, <1>4, <1>5, <1>6 DEF GateInv

LEMMA GateNext ==
  ASSUME GateInv, [GTNext]_gtVars
  PROVE  GateInv'
<1>1. ASSUME NEW k \in GtCalls, NEW f \in GtFlights, NEW g \in GtGates,
             \/ GTReadToAssign(k, f, g) \/ GTReadToDelete(k, g)
             \/ \E r \in DOMAIN gtRows : GTReadToChange(k, f, r, g) \/ GTReadToRelease(k, f, r)
      PROVE  GateInv'
  BY <1>1, GateReads
<1>2. ASSUME NEW k \in GtCalls,
             \/ GTFindNone(k) \/ GTLookAtGate(k) \/ GTDelete(k) \/ GTStop(k)
             \/ GTEndRow(k) \/ GTFree(k) \/ GTInsert(k) \/ GTOccupy(k)
      PROVE  GateInv'
  BY <1>2, GateFinds, GateWrites, GateStops, GateEndsARow, GateInserts
<1>3. ASSUME NEW g \in GtGates, NEW status \in {"available", "occupied", "maintenance"},
             GTSetByHand(g, status)
      PROVE  GateInv'
  BY <1>3, GateIsSet
<1>4. ASSUME UNCHANGED gtVars PROVE GateInv'
  BY <1>4, GateSame
<1> QED
  BY <1>1, <1>2, <1>3, <1>4 DEF GTNext

LEMMA GateSpec == GTSpec => []GateInv
<1>1. GateInv /\ [GTNext]_gtVars => GateInv'
  BY GateNext
<1> QED
  BY <1>1, GateInit, PTL DEF GTSpec

\* gate.service.ts, no two statements of which are in a transaction: however
\* the calls of the administrators interleave, fail half way or set a gate by
\* hand, a flight has at most one active assignment more than the calls about
\* it that began while another was under way, and a gate about which nothing of
\* that kind happened, and which no call is about, is occupied exactly when it
\* is assigned.
THEOREM GatesAgree == GTSpec => []GTGatesAgree
<1>1. GateInv => GTGatesAgree
  BY GateInvImplies
<1> QED
  BY <1>1, GateSpec, PTL

(***************************************************************************)
(* The flight: one part moves, the others stand                            *)
(***************************************************************************)
LEMMA PartsSpec == RunSpec => STSpec /\ SHSpec /\ WLSpec /\ SMSpec /\ GTSpec
<1> DEFINE all == <<stVars, shVars, wlVars, smVars, gtVars, part>>
<1>1. RunInit => STInit /\ SHInit /\ WLInit /\ SMInit /\ GTInit
  BY DEF RunInit
<1>2. [RunNext]_all =>
        [STNext]_stVars /\ [SHNext]_shVars /\ [WLNext]_wlVars /\ [SMNext]_smVars /\ [GTNext]_gtVars
  BY DEF RunNext
<1> QED
  BY <1>1, <1>2, PTL DEF RunSpec, STSpec, SHSpec, WLSpec, SMSpec, GTSpec

\* The state of every part keeps its type.
THEOREM FlightTypes == RunSpec => []TypesOK
<1>1. STSpec => []STTypeOK
  <2>1. IInv => STTypeOK
    BY DEF IInv
  <2> QED
    BY <2>1, InitIInv, NextIInv, PTL DEF STSpec
<1>2. HoldInv => SHTypeOK
  BY HoldInvImplies
<1>3. ListAll => WLTypeOK
  BY ListInvImplies
<1>4. MapInv => SMTypeOK
  BY MapInvImplies
<1>5. GateInv => GTTypeOK
  BY GateInvImplies
<1>6. STTypeOK /\ SHTypeOK /\ WLTypeOK /\ SMTypeOK /\ GTTypeOK => TypesOK
  BY DEF TypesOK
<1> QED
  BY <1>1, <1>2, <1>3, <1>4, <1>5, <1>6, PartsSpec, HoldSpec, ListSpec, MapSpec, GateSpec, PTL

\* Every seat that the group, rebooking and travel agent services or the waiting
\* list take out of the counter stays accounted for.
THEOREM FlightSeats == RunSpec => []SeatsAccounted
<1>1. STSeatsAccounted /\ WLSeatsAccounted => SeatsAccounted
  BY DEF SeatsAccounted
<1> QED
  BY <1>1, PartsSpec, SeatsAreAccounted, OffersAreAccounted, PTL

\* Both waiting lists are first come, first served: who joins after another has
\* the higher number, in the list of the holds until a row has left it.
THEOREM FlightQueues == RunSpec => []LaterIsBehind
<1>1. HoldInv => SHLaterIsBehind
  BY HoldInvImplies
<1>2. ListAll => WLLaterIsBehind
  BY ListInvImplies
<1>3. WLLaterIsBehind /\ SHLaterIsBehind => LaterIsBehind
  BY DEF LaterIsBehind
<1> QED
  BY <1>1, <1>2, <1>3, PartsSpec, HoldSpec, ListSpec, PTL

\* A hold that was converted into a booking is never released or expired by a
\* call that had not read it before, and the seat of a passenger who is checked
\* in is taken away only by his own requests or by one that read it before.
THEOREM FlightDone == RunSpec => DoneStaysDone
<1>1. SHConvertedStays /\ SMCheckedInStays => DoneStaysDone
  BY DEF DoneStaysDone
<1> QED
  BY <1>1, PartsSpec, ConvertedStays, CheckedInStays, PTL
=============================================================================
