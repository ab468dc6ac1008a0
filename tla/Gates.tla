-------------------------------- MODULE Gates --------------------------------
(***************************************************************************)
(* gate.service.ts: the gates of an airport and their assignment to        *)
(* flights.  No two statements of it are in a transaction: a call looks at *)
(* the rows it needs, one after the other, and then ends an assignment,    *)
(* frees its gate, inserts an assignment and occupies its gate, as the     *)
(* operation asks, while other calls do the same.  A gate that another     *)
(* flight occupies is not refused, and an administrator may set the status *)
(* of a gate by hand.                                                      *)
(***************************************************************************)
EXTENDS Integers, FiniteSets, Sequences

CONSTANTS
  GtCalls,      \* calls of administrators in progress
  GtFlights,
  GtGates,      \* airport_gates, as createGate has left them
  GtMaxOps      \* bound on the calls ever begun

ASSUME GatesAssumption == GtMaxOps \in Nat /\ IsFiniteSet(GtCalls)

VARIABLES
  gtGate,       \* status of each gate, or "deleted"
  gtRows,       \* gate_assignments: flight, gate, and whether assigned or ended
  gtCall,       \* what each call has under way
  gtOps,
  \* History, for the properties:
  gtOverlaps,   \* for each flight, calls begun while another was under way
  gtUnsure      \* gates set by hand, shared by flights, raced for, or left by a failure

gtVars == <<gtGate, gtRows, gtCall, gtOps, gtOverlaps, gtUnsure>>

GtIdle == [doing |-> "idle", flights |-> {}, to |-> {}, row |-> 0]

GTInit ==
  /\ gtGate = [g \in GtGates |-> "available"] /\ gtRows = <<>>
  /\ gtCall = [k \in GtCalls |-> GtIdle]
  /\ gtOps = 0 /\ gtOverlaps = [f \in GtFlights |-> 0] /\ gtUnsure = {}

GtDoing(k, what) == gtCall[k].doing = what
GtSet(k, what) == gtCall' = [gtCall EXCEPT ![k].doing = what]
GtEnd(k) == gtCall' = [gtCall EXCEPT ![k] = GtIdle]

GtActive == {r \in DOMAIN gtRows : gtRows[r].status = "assigned"}
GtActiveOf(f) == {r \in GtActive : gtRows[r].flight = f}
GtActiveAt(g) == {r \in GtActive : gtRows[r].gate = g}
GtUsable(g) == gtGate[g] \notin {"maintenance", "deleted"}

\* The gates a call is about: the one it assigns and that of the row it ends.
GtGatesOf(call) ==
  call.to \cup (IF call.row = 0 THEN {} ELSE {gtRows[call.row].gate})

\* A call begins.  What it shares with another that is under way is noted.
GtBegin(k, call) ==
  LET busy == {j \in GtCalls : ~GtDoing(j, "idle")}
      sameFlight == {j \in busy : gtCall[j].flights \cap call.flights # {}}
      common(j) == IF j \in sameFlight THEN GtGatesOf(gtCall[j]) \cup GtGatesOf(call)
                   ELSE GtGatesOf(gtCall[j]) \cap GtGatesOf(call)
  IN
  /\ GtDoing(k, "idle") /\ gtOps < GtMaxOps /\ gtOps' = gtOps + 1
  /\ gtCall' = [gtCall EXCEPT ![k] = call]
  /\ gtOverlaps' = [f \in GtFlights |->
       IF f \in call.flights /\ sameFlight # {} THEN gtOverlaps[f] + 1 ELSE gtOverlaps[f]]
  /\ gtUnsure' = gtUnsure \cup UNION {common(j) : j \in busy}
  /\ UNCHANGED <<gtGate, gtRows>>

\* assignGate: the gate, then the assignment of the flight.
GTReadToAssign(k, f, g) ==
  GtUsable(g) /\ GtBegin(k, [doing |-> "find", flights |-> {f}, to |-> {g}, row |-> 0])
GtFreeMutant(f) == TRUE
GtFree(f) == GtActiveOf(f) = {}
GTFindNone(k) ==
  /\ GtDoing(k, "find") /\ \A f \in gtCall[k].flights : GtFree(f)
  /\ GtSet(k, "insert")
  /\ UNCHANGED <<gtGate, gtRows, gtOps, gtOverlaps, gtUnsure>>

\* updateGateAssignment: the assignment of the flight, then the new gate.
GTReadToChange(k, f, r, g) ==
  /\ r \in GtActiveOf(f)
  /\ GtBegin(k, [doing |-> "look", flights |-> {f}, to |-> {g}, row |-> r])
GTLookAtGate(k) ==
  /\ GtDoing(k, "look") /\ \A g \in gtCall[k].to : GtUsable(g)
  /\ GtSet(k, "end")
  /\ UNCHANGED <<gtGate, gtRows, gtOps, gtOverlaps, gtUnsure>>

\* releaseGate
GTReadToRelease(k, f, r) ==
  /\ r \in GtActiveOf(f)
  /\ GtBegin(k, [doing |-> "end", flights |-> {f}, to |-> {}, row |-> r])

\* deleteGate
GTReadToDelete(k, g) ==
  /\ gtGate[g] # "deleted" /\ GtActiveAt(g) = {}
  /\ GtBegin(k, [doing |-> "delete", flights |-> {}, to |-> {g}, row |-> 0])
GTDelete(k) ==
  /\ GtDoing(k, "delete")
  /\ gtGate' = [g \in GtGates |-> IF g \in gtCall[k].to THEN "deleted" ELSE gtGate[g]]
  /\ GtEnd(k) /\ UNCHANGED <<gtRows, gtOps, gtOverlaps, gtUnsure>>

\* The statements that write, by the ids that were read.
GtWritten(g, status) == [gtGate EXCEPT ![g] = IF @ = "deleted" THEN @ ELSE status]
GTEndRow(k) ==
  /\ GtDoing(k, "end")
  /\ gtRows' = [gtRows EXCEPT ![gtCall[k].row].status = "ended"]
  /\ GtSet(k, "free") /\ UNCHANGED <<gtGate, gtOps, gtOverlaps, gtUnsure>>
GTFree(k) ==
  /\ GtDoing(k, "free")
  /\ gtGate' = GtWritten(gtRows[gtCall[k].row].gate, "available")
  /\ IF gtCall[k].to = {} THEN GtEnd(k) ELSE GtSet(k, "insert")
  /\ UNCHANGED <<gtRows, gtOps, gtOverlaps, gtUnsure>>
GTInsert(k) ==
  /\ GtDoing(k, "insert")
  /\ \E f \in gtCall[k].flights, g \in gtCall[k].to :
       /\ gtRows' = Append(gtRows, [flight |-> f, gate |-> g, status |-> "assigned"])
       /\ gtUnsure' = IF GtActiveAt(g) = {} THEN gtUnsure ELSE gtUnsure \cup {g}
  /\ GtSet(k, "occupy") /\ UNCHANGED <<gtGate, gtOps, gtOverlaps>>
GTOccupy(k) ==
  /\ GtDoing(k, "occupy")
  /\ \E g \in gtCall[k].to : gtGate' = GtWritten(g, "occupied")
  /\ GtEnd(k) /\ UNCHANGED <<gtRows, gtOps, gtOverlaps, gtUnsure>>

\* A call is refused by what it finds, or one of its statements fails.
GTStop(k) ==
  /\ ~GtDoing(k, "idle") /\ GtEnd(k)
  /\ gtUnsure' = IF gtCall[k].doing \in {"free", "occupy"}
                 THEN gtUnsure \cup GtGatesOf(gtCall[k]) ELSE gtUnsure
  /\ UNCHANGED <<gtGate, gtRows, gtOps, gtOverlaps>>

\* updateGateStatus
GTSetByHand(g, status) ==
  /\ gtGate[g] \notin {"deleted", status} /\ gtOps < GtMaxOps /\ gtOps' = gtOps + 1
  /\ gtGate' = [gtGate EXCEPT ![g] = status] /\ gtUnsure' = gtUnsure \cup {g}
  /\ UNCHANGED <<gtRows, gtCall, gtOverlaps>>

GTNext ==
  \/ \E k \in GtCalls, f \in GtFlights, g \in GtGates :
       \/ GTReadToAssign(k, f, g) \/ GTReadToDelete(k, g)
       \/ \E r \in DOMAIN gtRows : GTReadToChange(k, f, r, g) \/ GTReadToRelease(k, f, r)
  \/ \E k \in GtCalls :
       \/ GTFindNone(k) \/ GTLookAtGate(k) \/ GTDelete(k) \/ GTStop(k)
       \/ GTEndRow(k) \/ GTFree(k) \/ GTInsert(k) \/ GTOccupy(k)
  \/ \E g \in GtGates, status \in {"available", "occupied", "maintenance"} :
       GTSetByHand(g, status)

GTSpec == GTInit /\ [][GTNext]_gtVars

GTTypeOK ==
  /\ gtGate \in [GtGates -> {"available", "occupied", "maintenance", "deleted"}]
  /\ gtRows \in Seq([flight : GtFlights, gate : GtGates, status : {"assigned", "ended"}])
  /\ gtCall \in [GtCalls -> [
       doing : {"idle", "find", "look", "end", "free", "insert", "occupy", "delete"},
       flights : SUBSET GtFlights, to : SUBSET GtGates, row : 0..Len(gtRows)]]
  /\ gtOps \in 0..GtMaxOps /\ gtOverlaps \in [GtFlights -> Nat] /\ gtUnsure \subseteq GtGates

\* A flight has one active assignment and one more for each call about it that
\* began while another was under way.  And a gate that no call is about, was
\* never set by hand, shared by two flights, raced for or left by a failure is
\* occupied exactly when it is assigned, and is not deleted under an assignment.
GTGatesAgree ==
  /\ \A f \in GtFlights : Cardinality(GtActiveOf(f)) <= 1 + gtOverlaps[f]
  /\ \A g \in GtGates \ (gtUnsure \cup UNION {GtGatesOf(gtCall[k]) : k \in GtCalls}) :
       (gtGate[g] = "occupied") <=> (GtActiveAt(g) # {})
=============================================================================
