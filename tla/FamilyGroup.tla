----------------------------- MODULE FamilyGroup -----------------------------
(***************************************************************************)
(* Who is in which family group: family_groups and family_group_members.   *)
(* Every operation of family-pool.service.ts checks what it needs in       *)
(* statements of its own and writes in later ones, without a transaction   *)
(* and without an index that would refuse a second membership.             *)
(***************************************************************************)
EXTENDS Integers, FiniteSetsExt

CONSTANTS
  FgUsers, FgGroups,
  FgSessions,     \* requests in progress
  FgMaxMembers    \* maxMembers of a group

ASSUME FamilyGroupAssumption ==
  /\ IsFiniteSet(FgUsers) /\ IsFiniteSet(FgGroups) /\ IsFiniteSet(FgSessions)
  /\ FgMaxMembers \in Nat \ {0}

VARIABLES
  fgGroup,    \* family_groups: status and owner
  fgRows,     \* active rows of family_group_members, by group and user
  fgSession,  \* what each request has checked
  fgBroken,   \* history: groups whose creation or deletion ended half way
  fgLate      \* history: groups somebody joined after their members were removed

fgVars == <<fgGroup, fgRows, fgSession, fgBroken, fgLate>>

FgIdle == [doing |-> "idle"]
FgNoGroup == [status |-> "none"]
FgActive == {g \in FgGroups : fgGroup[g].status = "active"}
FgGroupsOf(u) == {g \in FgGroups : fgRows[g][u] > 0}
FgSize(rows) == SumFunctionOnSet(rows, FgUsers)
FgMemberships(u) == SumFunctionOnSet([g \in FgGroups |-> fgRows[g][u]], FgGroups)

FGInit ==
  /\ fgGroup = [g \in FgGroups |-> FgNoGroup]
  /\ fgRows = [g \in FgGroups |-> [u \in FgUsers |-> 0]]
  /\ fgSession = [k \in FgSessions |-> FgIdle]
  /\ fgBroken = {} /\ fgLate = {}

FgDoing(k, what) == fgSession[k].doing = what
FgSet(k, s) == fgSession' = [fgSession EXCEPT ![k] = s]
FgStart(k, s) == FgDoing(k, "idle") /\ FgSet(k, s)
FgCheck(k, s) == FgSet(k, s) /\ UNCHANGED <<fgGroup, fgRows, fgBroken, fgLate>>

FgInsertRow(g, u) ==
  /\ fgRows' = [fgRows EXCEPT ![g][u] = fgRows[g][u] + 1]
  /\ fgLate' = IF fgGroup[g].status = "inactive"
                  \/ \E k \in FgSessions : FgDoing(k, "close") /\ fgSession[k].group = g
               THEN fgLate \cup {g} ELSE fgLate

\* Nobody may be in two groups.
FgFree(u) == FgGroupsOf(u) = {}

(***************************************************************************)
(* createFamilyGroup                                                       *)
(***************************************************************************)
FGCheckOwner(k, u) ==
  /\ \A g \in FgActive : fgGroup[g].owner # u
  /\ FgStart(k, [doing |-> "create", user |-> u])
  /\ UNCHANGED <<fgGroup, fgRows, fgBroken, fgLate>>

FGCheckFree(k) ==
  /\ FgDoing(k, "create")
  /\ FgCheck(k, IF FgFree(fgSession[k].user) THEN [fgSession[k] EXCEPT !.doing = "insert"]
                ELSE FgIdle)

FGInsertGroup(k, g) ==
  /\ FgDoing(k, "insert") /\ fgGroup[g] = FgNoGroup
  /\ fgGroup' = [fgGroup EXCEPT ![g] = [status |-> "active", owner |-> fgSession[k].user]]
  /\ FgSet(k, [doing |-> "owner", group |-> g, user |-> fgSession[k].user])
  /\ UNCHANGED <<fgRows, fgBroken, fgLate>>

FGInsertOwner(k) ==
  /\ FgDoing(k, "owner")
  /\ FgInsertRow(fgSession[k].group, fgSession[k].user)
  /\ FgSet(k, FgIdle)
  /\ UNCHANGED <<fgGroup, fgBroken>>

(***************************************************************************)
(* addFamilyMember and removeFamilyMember, called by the owner of g        *)
(***************************************************************************)
FgRoomMutant(g) == FgSize(fgRows[g]) <= FgMaxMembers
FgRoom(g) == FgSize(fgRows[g]) < FgMaxMembers
FGCheckRoom(k, g, u) ==
  /\ g \in FgActive /\ FgRoom(g)
  /\ FgStart(k, [doing |-> "add", group |-> g, user |-> u])
  /\ UNCHANGED <<fgGroup, fgRows, fgBroken, fgLate>>

FGCheckMember(k) ==
  /\ FgDoing(k, "add")
  /\ FgCheck(k, IF FgFree(fgSession[k].user) THEN [fgSession[k] EXCEPT !.doing = "join"]
                ELSE FgIdle)

FGInsertMember(k) ==
  /\ FgDoing(k, "join")
  /\ FgInsertRow(fgSession[k].group, fgSession[k].user)
  /\ FgSet(k, FgIdle)
  /\ UNCHANGED <<fgGroup, fgBroken>>

FgRemovable(g) == FgUsers \ {fgGroup[g].owner}
FGRemove(g, u) ==
  /\ fgGroup[g] # FgNoGroup /\ u \in FgRemovable(g)
  /\ fgRows' = [fgRows EXCEPT ![g][u] = 0]
  /\ UNCHANGED <<fgGroup, fgSession, fgBroken, fgLate>>

(***************************************************************************)
(* deleteFamilyGroup: the members, then the group                          *)
(***************************************************************************)
FgClearedMutant(g) == [fgRows[g] EXCEPT ![fgGroup[g].owner] = 0]
FgCleared(g) == [u \in FgUsers |-> 0]
FGRemoveAll(k, g) ==
  /\ fgGroup[g] # FgNoGroup
  /\ FgStart(k, [doing |-> "close", group |-> g])
  /\ fgRows' = [fgRows EXCEPT ![g] = FgCleared(g)]
  /\ UNCHANGED <<fgGroup, fgBroken, fgLate>>

FGClose(k) ==
  /\ FgDoing(k, "close")
  /\ fgGroup' = [fgGroup EXCEPT ![fgSession[k].group].status = "inactive"]
  /\ FgSet(k, FgIdle)
  /\ UNCHANGED <<fgRows, fgBroken, fgLate>>

\* A statement fails: what was written before it stays.
FGFail(k) ==
  /\ ~FgDoing(k, "idle")
  /\ fgBroken' = IF fgSession[k].doing \in {"owner", "close"}
                 THEN fgBroken \cup {fgSession[k].group} ELSE fgBroken
  /\ FgSet(k, FgIdle)
  /\ UNCHANGED <<fgGroup, fgRows, fgLate>>

FGNext ==
  \/ \E k \in FgSessions :
       \/ \E u \in FgUsers : FGCheckOwner(k, u)
       \/ \E g \in FgGroups :
            \/ FGInsertGroup(k, g) \/ FGRemoveAll(k, g)
            \/ \E u \in FgUsers : FGCheckRoom(k, g, u)
       \/ FGCheckFree(k) \/ FGInsertOwner(k)
       \/ FGCheckMember(k) \/ FGInsertMember(k) \/ FGClose(k) \/ FGFail(k)
  \/ \E g \in FgGroups, u \in FgUsers : FGRemove(g, u)

FGSpec == FGInit /\ [][FGNext]_fgVars

(***************************************************************************)
(* Properties                                                              *)
(***************************************************************************)
FGTypeOK ==
  /\ fgGroup \in [FgGroups -> {FgNoGroup} \cup
                    [status : {"active", "inactive"}, owner : FgUsers]]
  /\ fgRows \in [FgGroups -> [FgUsers -> 0..Cardinality(FgSessions)]]
  /\ fgBroken \subseteq FgGroups /\ fgLate \subseteq FgGroups

\* Additions that checked together overrun what they checked, each by one: a
\* group has at most one member less than its limit and the requests, and a
\* user is in one group, or in one for every request at a time.  Who is in a
\* group is never added to another afterwards.
FGMembersBounded ==
  /\ \A g \in FgGroups : FgSize(fgRows[g]) <= FgMaxMembers + Cardinality(FgSessions) - 1
  /\ \A u \in FgUsers : FgMemberships(u) <= Cardinality(FgSessions)

\* A group and its members begin and end together.  The owner is a member of
\* an active group, unless its creation or its deletion is under way or ended
\* half way; and nobody stays a member of a deleted group, and so barred from
\* every other, except by an addition that was checked before the deletion.
FGOwnerStays ==
  /\ \A g \in FgActive \ fgBroken :
       \/ fgRows[g][fgGroup[g].owner] > 0
       \/ \E k \in FgSessions :
            fgSession[k].doing \in {"owner", "close"} /\ fgSession[k].group = g
  /\ \A g \in FgGroups \ fgLate :
       fgGroup[g].status = "inactive" => FgSize(fgRows[g]) = 0
=============================================================================
