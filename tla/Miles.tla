------------------------------- MODULE Miles -------------------------------
(***************************************************************************)
(* The miles of one customer: the row of loyalty_accounts, which           *)
(* loyalty.service.ts changes, and the contributions to a family pool,     *)
(* which family-pool.service.ts takes out of the same row.                 *)
(*                                                                         *)
(* An operation of loyalty.service.ts is a transaction that reads the      *)
(* account without a lock and writes back what it computed from it, so two *)
(* that overlap lose an update.  The expiry and the contribution subtract  *)
(* from the column instead; the contribution is three statements.          *)
(***************************************************************************)
EXTENDS Integers, Sequences, FiniteSetsExt

CONSTANTS
  MiSessions,   \* requests and jobs in progress on the account
  MiBookings,   \* bookings miles are earned and redeemed for
  MiBase,       \* miles a booking earns before the tier's bonus
  MiAmounts,    \* amounts of miles that are redeemed, given or contributed
  MiLadder,     \* tiers: the points each starts at and its percentage
  MiMaxOps      \* bound on the operations that start

ASSUME MilesAssumption ==
  /\ IsFiniteSet(MiSessions) /\ MiSessions # {}
  /\ MiBase \in Nat /\ MiMaxOps \in Nat
  /\ IsFiniteSet(MiAmounts) /\ MiAmounts # {} /\ MiAmounts \subseteq Nat \ {0}
  /\ MiLadder \in Seq([from : Nat, percent : Nat])
  /\ MiLadder # <<>> /\ MiLadder[1].from = 0
  /\ \A t \in 2..Len(MiLadder) : MiLadder[t].from > 0

VARIABLES
  miAccount,    \* currentMilesBalance, totalMilesEarned, tierPoints, tier
  miFirst,      \* the first row of miles_transactions of each booking
  miLapsed,     \* sum of the earnings whose expiresAt has passed
  miLive,       \* sum of the other earnings
  miLogged,     \* sum of all rows of miles_transactions
  miPool,       \* pooledMiles of the group, the rows the customer has in
                \* family_group_members, and their milesContributed together
  miSession,    \* what each session has under way and the account it has read
  miOps,
  miStale,      \* history: an account was written that had changed since read
  miUnpaid,     \* history: miles reversed in the log that were not there
  miDebited,    \* history: miles taken for the pool
  miExpired,    \* history: miles expired, and runs that expired some
  miBroken      \* history: a contribution ended half way

miVars == <<miAccount, miFirst, miLapsed, miLive, miLogged, miPool, miSession,
            miOps, miStale, miUnpaid, miDebited, miExpired, miBroken>>

MiIdle == [doing |-> "idle"]
MiNone == [earn |-> FALSE, miles |-> 0]
MiFresh == [balance |-> 0, earned |-> 0, points |-> 0, tier |-> 1]

MIInit ==
  /\ miAccount = MiFresh
  /\ miFirst = [b \in MiBookings |-> <<>>]
  /\ miLapsed = 0 /\ miLive = 0 /\ miLogged = 0
  /\ miPool = [member |-> 0, group |-> 0, rows |-> 1]
  /\ miSession = [k \in MiSessions |-> MiIdle]
  /\ miOps = 0
  /\ miStale = FALSE /\ miUnpaid = 0 /\ miDebited = 0
  /\ miExpired = [miles |-> 0, runs |-> 0] /\ miBroken = FALSE

MiDoing(k, what) == miSession[k].doing = what
MiSet(k, s) == miSession' = [miSession EXCEPT ![k] = s]
MiStart(k, s) ==
  /\ MiDoing(k, "idle") /\ miOps < MiMaxOps /\ miOps' = miOps + 1
  /\ MiSet(k, s)

\* calculateTier, and the miles of a booking in a tier
MiTier(points) == Max({t \in DOMAIN MiLadder : points >= MiLadder[t].from})
MiAward(tier) == (MiBase * MiLadder[tier].percent) \div 100

(***************************************************************************)
(* Transactions of loyalty.service.ts: the read ...                        *)
(***************************************************************************)
MiRead(k, op, b, n) ==
  /\ MiStart(k, [doing |-> op, booking |-> b, n |-> n, seen |-> miAccount])
  /\ UNCHANGED <<miAccount, miFirst, miLapsed, miLive, miLogged, miPool,
                 miStale, miUnpaid, miDebited, miExpired, miBroken>>

MIReadToAward(k, b) == MiRead(k, "award", b, 0)
MIReadForBonus(k, b, n) == MiRead(k, "bonus", b, n)
MIReadToRedeem(k, b, n) == miAccount.balance >= n /\ MiRead(k, "redeem", b, n)
MIReadToReverse(k, b) ==
  /\ miFirst[b] # <<>> /\ Head(miFirst[b]).earn
  /\ MiRead(k, "reverse", b, Head(miFirst[b]).miles)

\* ... and the commit: the new row of the account, the row of the log.
MiWrite(k, account, booked, logged, earns) ==
  LET s == miSession[k] IN
  /\ miAccount' = account
  /\ miLogged' = miLogged + logged
  /\ miFirst' = IF booked = MiNone \/ miFirst[s.booking] # <<>> THEN miFirst
                 ELSE [miFirst EXCEPT ![s.booking] = <<booked>>]
  /\ miLive' = miLive + earns
  /\ miStale' = (miStale \/ miAccount # s.seen)
  /\ MiSet(k, MiIdle)
  /\ UNCHANGED <<miLapsed, miPool, miOps, miDebited, miExpired, miBroken>>

MiTotal(seen, miles) == seen.earned + miles
MIAward(k) ==
  LET seen == miSession[k].seen
      miles == MiAward(seen.tier)
      points == seen.points + MiBase IN
  /\ MiDoing(k, "award")
  /\ MiWrite(k, [balance |-> seen.balance + miles, earned |-> MiTotal(seen, miles),
                 points |-> points, tier |-> MiTier(points)],
             [earn |-> TRUE, miles |-> miles], miles, miles)
  /\ UNCHANGED miUnpaid

MIBonus(k) ==
  LET s == miSession[k] IN
  /\ MiDoing(k, "bonus")
  /\ MiWrite(k, [miAccount EXCEPT !.balance = s.seen.balance + s.n,
                                  !.earned = MiTotal(s.seen, s.n)], MiNone, s.n, 0)
  /\ UNCHANGED miUnpaid

MIRedeem(k) ==
  LET s == miSession[k] IN
  /\ MiDoing(k, "redeem")
  /\ MiWrite(k, [miAccount EXCEPT !.balance = s.seen.balance - s.n],
             [earn |-> FALSE, miles |-> s.n], -s.n, 0)
  /\ UNCHANGED miUnpaid

\* The log records the whole reversal, the balance stops at zero.
MiReversed(s) == Max({0, s.seen.balance - s.n})
MIReverse(k) ==
  LET s == miSession[k] IN
  /\ MiDoing(k, "reverse")
  /\ MiWrite(k, [miAccount EXCEPT !.balance = MiReversed(s)], MiNone, -s.n, 0)
  /\ miUnpaid' = miUnpaid + MiReversed(s) - (s.seen.balance - s.n)

(***************************************************************************)
(* processExpiredMiles: what has lapsed is expired by every run anew       *)
(***************************************************************************)
MiExpirableMutant == Min({miLapsed + miLive, miAccount.balance})
MiExpirable == Min({miLapsed, miAccount.balance})
MIReadToExpire(k) ==
  /\ miAccount.balance > 0 /\ miLapsed > 0
  /\ MiStart(k, [doing |-> "expire", n |-> MiExpirable,
                 seen |-> miAccount])
  /\ UNCHANGED <<miAccount, miFirst, miLapsed, miLive, miLogged, miPool,
                 miStale, miUnpaid, miDebited, miExpired, miBroken>>

MIExpire(k) ==
  LET s == miSession[k] IN
  /\ MiDoing(k, "expire")
  /\ miAccount' = [miAccount EXCEPT !.balance = Max({0, miAccount.balance - s.n})]
  /\ miLogged' = miLogged - s.n
  /\ miExpired' = [miles |-> miExpired.miles + s.n, runs |-> miExpired.runs + 1]
  /\ miStale' = (miStale \/ miAccount # s.seen)
  /\ MiSet(k, MiIdle)
  /\ UNCHANGED <<miFirst, miLapsed, miLive, miPool, miOps, miUnpaid, miDebited,
                 miBroken>>

\* Two years pass.
MILapse ==
  /\ miLive > 0
  /\ miLapsed' = miLapsed + miLive /\ miLive' = 0
  /\ UNCHANGED <<miAccount, miFirst, miLogged, miPool, miSession, miOps, miStale,
                 miUnpaid, miDebited, miExpired, miBroken>>

(***************************************************************************)
(* contributeMilesToPool of family-pool.service.ts                         *)
(***************************************************************************)
MICheckMiles(k, n) ==
  /\ miAccount.balance >= n
  /\ MiStart(k, [doing |-> "debit", n |-> n])
  /\ UNCHANGED <<miAccount, miFirst, miLapsed, miLive, miLogged, miPool,
                 miStale, miUnpaid, miDebited, miExpired, miBroken>>

MIDebit(k) ==
  /\ MiDoing(k, "debit")
  /\ miAccount' = [miAccount EXCEPT !.balance = miAccount.balance - miSession[k].n]
  /\ miDebited' = miDebited + miSession[k].n
  /\ MiSet(k, [miSession[k] EXCEPT !.doing = "credit"])
  /\ UNCHANGED <<miFirst, miLapsed, miLive, miLogged, miPool, miOps, miStale,
                 miUnpaid, miExpired, miBroken>>

\* Every row of the customer is credited, the ones that were removed too.
MICreditMember(k) ==
  /\ MiDoing(k, "credit")
  /\ miPool' = [miPool EXCEPT !.member = miPool.member + miPool.rows * miSession[k].n]
  /\ MiSet(k, [miSession[k] EXCEPT !.doing = "pool"])
  /\ UNCHANGED <<miAccount, miFirst, miLapsed, miLive, miLogged, miOps, miStale,
                 miUnpaid, miDebited, miExpired, miBroken>>

MiPooledMutant(k) == miSession[k].n
MiPooled(k) == miPool.group + miSession[k].n
MICreditPool(k) ==
  /\ MiDoing(k, "pool")
  /\ miPool' = [miPool EXCEPT !.group = MiPooled(k)]
  /\ MiSet(k, MiIdle)
  /\ UNCHANGED <<miAccount, miFirst, miLapsed, miLive, miLogged, miOps, miStale,
                 miUnpaid, miDebited, miExpired, miBroken>>

\* The customer is removed from the group and added again.
MIRejoin ==
  /\ miPool.rows = 1
  /\ miPool' = [miPool EXCEPT !.rows = 2]
  /\ UNCHANGED <<miAccount, miFirst, miLapsed, miLive, miLogged, miSession, miOps,
                 miStale, miUnpaid, miDebited, miExpired, miBroken>>

\* A statement fails: a transaction is rolled back, a contribution stays as
\* far as it got.
MIFail(k) ==
  /\ ~MiDoing(k, "idle")
  /\ miBroken' = (miBroken \/ miSession[k].doing \in {"credit", "pool"})
  /\ MiSet(k, MiIdle)
  /\ UNCHANGED <<miAccount, miFirst, miLapsed, miLive, miLogged, miPool, miOps,
                 miStale, miUnpaid, miDebited, miExpired>>

MINext ==
  \/ \E k \in MiSessions :
       \/ \E b \in MiBookings :
            \/ MIReadToAward(k, b) \/ MIReadToReverse(k, b)
            \/ \E n \in MiAmounts : MIReadForBonus(k, b, n) \/ MIReadToRedeem(k, b, n)
       \/ MIReadToExpire(k)
       \/ \E n \in MiAmounts : MICheckMiles(k, n)
       \/ MIAward(k) \/ MIBonus(k) \/ MIRedeem(k) \/ MIReverse(k) \/ MIExpire(k)
       \/ MIDebit(k) \/ MICreditMember(k) \/ MICreditPool(k) \/ MIFail(k)
  \/ MILapse \/ MIRejoin

MISpec == MIInit /\ [][MINext]_miVars

(***************************************************************************)
(* Properties                                                              *)
(***************************************************************************)
MITypeOK ==
  /\ miAccount \in [balance : Int, earned : Nat, points : Nat, tier : DOMAIN MiLadder]
  /\ miPool \in [member : Nat, group : Nat, rows : {1, 2}]
  /\ miLapsed \in Nat /\ miLive \in Nat /\ miLogged \in Int
  /\ miOps \in 0..MiMaxOps /\ miStale \in BOOLEAN /\ miBroken \in BOOLEAN

\* What is stored twice agrees.  The log explains the balance: unless an update
\* was lost, it is the sum of the log, less what went to the pool (which is
\* not logged), plus what a reversal could not take because it was spent.  The
\* tier is the one the points stand for, although every award writes it back.
\* And every run of the clean-up expires again what has lapsed, but never more.
MILogExplains ==
  /\ ~miStale => miAccount.balance = miLogged - miDebited + miUnpaid
  /\ miAccount.tier = Max({t \in DOMAIN MiLadder : MiLadder[t].from <= miAccount.points})
  /\ miExpired.miles <= miExpired.runs * miLapsed

\* Miles are never made on the way into the pool, and none is lost unless a
\* contribution fails half way; who has joined twice is credited twice.
\* Contributions that checked the same miles overdraw the account by at most
\* one amount for every further session, if no update is lost.
MIPoolConserves ==
  /\ miPool.group <= miPool.member /\ miPool.member <= miPool.rows * miDebited
  /\ ~miBroken /\ (\A k \in MiSessions : miSession[k].doing \notin {"credit", "pool"})
       => miPool.group = miDebited
  /\ ~miStale => miAccount.balance >= -(Cardinality(MiSessions) - 1) * Max(MiAmounts)
=============================================================================
