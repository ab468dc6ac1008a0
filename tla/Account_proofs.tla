-------------------------- MODULE Account_proofs -----------------------------
(***************************************************************************)
(* What a customer owns: the proofs about Wallet, FlightStatus and Miles,  *)
(* for any calls, bookings, amounts and bounds, and about the run that     *)
(* holds them together with the other parts (MCCustomer). The names of the *)
(* sections begin with Wallet, Status and Miles.                           *)
(***************************************************************************)
EXTENDS MCCustomer, Customer_proofs

(***************************************************************************)
(* The wallet: wallet.service.ts                                           *)
(***************************************************************************)
\* A transaction has the row it updated, what it wrote is the committed
\* balance plus its own change, and what it read back is what it wrote.
WalletInFlight ==
  \A c \in Calls :
    /\ call[c].pc \in InTransaction <=> rowLock = c
    /\ call[c].pc \in InTransaction =>
         call[c].written = wallet.balance + Delta(c)
    /\ call[c].pc = "inserting" => call[c].newBalance = call[c].written

\* Only a positive amount gets past the first check, only an existing wallet
\* past the lookup, and a wallet that does not exist yet holds nothing.
WalletSane ==
  /\ \A c \in Calls :
       /\ call[c].pc \notin {"new", "failed"} => Amount[c] > 0
       /\ call[c].pc \notin {"new", "failed", "creating"} => wallet.exists
  /\ ~wallet.exists => wallet.balance = 0

WalletIInv == TypeOK /\ WalletInFlight /\ WalletSane

LEMMA WalletCallTypes ==
  ASSUME TypeOK, NEW c \in Calls
  PROVE  /\ call[c] \in CallRow
         /\ call[c].pc \in Pc /\ call[c].seen \in WalletRow
         /\ call[c].written \in 0..MaxBalance
         /\ call[c].newBalance \in 0..MaxBalance
BY DEF TypeOK, CallRow

LEMMA WalletTypes ==
  ASSUME TypeOK
  PROVE  /\ wallet.exists \in BOOLEAN
         /\ wallet.balance \in 0..MaxBalance
         /\ wallet.status \in {"active", "frozen"}
BY DEF TypeOK, WalletRow

LEMMA WalletDeltaType ==
  ASSUME NEW c \in Calls
  PROVE  Delta(c) \in Int
BY WalletAssumption DEF Delta

LEMMA WalletDeltaNotZero ==
  ASSUME NEW c \in Calls, Amount[c] > 0
  PROVE  Delta(c) \in Int \ {0}
BY WalletAssumption DEF Delta

\* Moving a call on keeps the table of calls well typed.
LEMMA WalletGotoType ==
  ASSUME TypeOK, NEW c \in Calls, NEW pc \in Pc, Goto(c, pc)
  PROVE  call' \in [Calls -> CallRow]
BY WalletCallTypes DEF Goto, TypeOK, CallRow

LEMMA WalletMoveType ==
  ASSUME TypeOK, NEW c \in Calls, NEW row \in CallRow,
         call' = [call EXCEPT ![c] = row]
  PROVE  call' \in [Calls -> CallRow]
BY DEF TypeOK

LEMMA WalletInitIInv == Init => WalletIInv
<1> SUFFICES ASSUME Init PROVE WalletIInv
  OBVIOUS
<1>1. NoWallet \in WalletRow
  BY WalletAssumption DEF NoWallet, WalletRow
<1>2. FreshCall \in CallRow
  BY <1>1, WalletAssumption DEF FreshCall, CallRow, Pc, InTransaction
<1>3. TypeOK
  BY <1>1, <1>2, WalletAssumption DEF Init, TypeOK
<1>4. WalletInFlight
  BY WalletAssumption DEF Init, WalletInFlight, FreshCall, InTransaction
<1>5. WalletSane
  BY DEF Init, WalletSane, NoWallet, FreshCall
<1> QED
  BY <1>3, <1>4, <1>5 DEF WalletIInv

\* A step that neither touches the row nor enters or leaves a transaction.
LEMMA WalletOutsideStep ==
  ASSUME WalletIInv, NEW c \in Calls, NEW row \in CallRow,
         call[c].pc \notin InTransaction, row.pc \notin InTransaction,
         row.pc \notin {"new", "failed"} => Amount[c] > 0,
         row.pc \notin {"new", "failed", "creating"} => wallet.exists,
         call' = [call EXCEPT ![c] = row],
         UNCHANGED <<wallet, entries, rowLock, faults>>
  PROVE  WalletIInv'
<1>1. TypeOK'
  BY WalletMoveType DEF WalletIInv, TypeOK
<1>2. WalletInFlight'
  BY DEF WalletIInv, TypeOK, WalletInFlight, Delta, InTransaction
<1>3. WalletSane'
  BY DEF WalletIInv, TypeOK, WalletSane
<1> QED
  BY <1>1, <1>2, <1>3 DEF WalletIInv

LEMMA WalletNextIInv == WalletIInv /\ [Next]_vars => WalletIInv'
<1> SUFFICES ASSUME WalletIInv, [Next]_vars PROVE WalletIInv'
  OBVIOUS
<1> USE WalletAssumption
<1> TypeOK
  BY DEF WalletIInv
<1>1. ASSUME NEW c \in Calls, RejectAmount(c) PROVE WalletIInv'
  <2> DEFINE row == [call[c] EXCEPT !.pc = "failed"]
  <2>1. row \in CallRow /\ row.pc = "failed"
    BY WalletCallTypes DEF CallRow, Pc, InTransaction
  <2> QED
    BY <1>1, <2>1, WalletOutsideStep DEF RejectAmount, At, Goto, InTransaction
<1>2. ASSUME NEW c \in Calls, FindWallet(c) PROVE WalletIInv'
  <2> DEFINE row == [pc |-> IF wallet.exists THEN "checking" ELSE "creating",
                     seen |-> wallet, written |-> 0, newBalance |-> 0]
  <2>1. /\ row \in CallRow /\ row.pc \in {"checking", "creating"}
        /\ row.pc = "checking" => wallet.exists
    BY DEF TypeOK, CallRow, Pc, InTransaction
  <2>2. call' = [call EXCEPT ![c] = row] /\ Amount[c] > 0
    BY <1>2 DEF FindWallet
  <2> HIDE DEF row
  <2> QED
    BY <1>2, <2>1, <2>2, WalletOutsideStep DEF FindWallet, At, InTransaction
<1>3. ASSUME NEW c \in Calls, CreateWallet(c) PROVE WalletIInv'
  <2>1. CASE CanCreate
    <3>1. /\ wallet' = [exists |-> TRUE, balance |-> 0, status |-> "active"]
          /\ Goto(c, "reading") /\ At(c, "creating")
          /\ UNCHANGED <<entries, rowLock, faults>>
      BY <1>3, <2>1 DEF CreateWallet
    <3>2. wallet'.balance = wallet.balance
      BY <2>1, <3>1 DEF CanCreate, WalletIInv, WalletSane
    <3>3. wallet' \in WalletRow
      BY <3>1 DEF WalletRow
    <3>4. TypeOK'
      BY <3>1, <3>3, WalletGotoType DEF TypeOK, Pc, InTransaction
    <3>5. WalletInFlight'
      BY <3>1, <3>2 DEF WalletIInv, TypeOK, WalletInFlight, Delta, Goto, At, InTransaction
    <3>6. WalletSane'
      BY <3>1, <3>2 DEF WalletIInv, TypeOK, WalletSane, Goto, At
    <3> QED
      BY <3>4, <3>5, <3>6 DEF WalletIInv
  <2>2. CASE ~CanCreate
    <3> DEFINE row == [call[c] EXCEPT !.pc = "failed"]
    <3>1. row \in CallRow /\ row.pc = "failed"
      BY WalletCallTypes DEF CallRow, Pc, InTransaction
    <3> QED
      BY <1>3, <2>2, <3>1, WalletOutsideStep DEF CreateWallet, At, Goto, InTransaction
  <2> QED
    BY <2>1, <2>2
<1>4. ASSUME NEW c \in Calls, ReadWallet(c) PROVE WalletIInv'
  <2> DEFINE row == [pc |-> "checking", seen |-> wallet,
                     written |-> 0, newBalance |-> 0]
  <2>1. row \in CallRow /\ row.pc = "checking"
    BY DEF TypeOK, CallRow, Pc, InTransaction
  <2>2. call' = [call EXCEPT ![c] = row] /\ Amount[c] > 0 /\ wallet.exists
    BY <1>4 DEF ReadWallet, At, WalletIInv, WalletSane
  <2> HIDE DEF row
  <2> QED
    BY <1>4, <2>1, <2>2, WalletOutsideStep DEF ReadWallet, At, InTransaction
<1>5. ASSUME NEW c \in Calls, CheckWallet(c) PROVE WalletIInv'
  <2> DEFINE pc == IF Accepts(c) THEN "updating" ELSE "failed"
             row == [call[c] EXCEPT !.pc = pc]
  <2>1. pc \in {"updating", "failed"}
    OBVIOUS
  <2>2. call' = [call EXCEPT ![c] = row] /\ Amount[c] > 0 /\ wallet.exists
    BY <1>5 DEF CheckWallet, Goto, At, WalletIInv, WalletSane
  <2> HIDE DEF pc
  <2>3. row \in CallRow /\ row.pc = pc
    BY <2>1, WalletCallTypes DEF CallRow, Pc, InTransaction
  <2> HIDE DEF row
  <2> QED
    BY <1>5, <2>1, <2>2, <2>3, WalletOutsideStep DEF CheckWallet, At, InTransaction
<1>6. ASSUME NEW c \in Calls, UpdateBalance(c) PROVE WalletIInv'
  <2>1. CASE Covers(c)
    <3> DEFINE row == [pc |-> "updated", seen |-> call[c].seen,
                       written |-> wallet.balance + Delta(c), newBalance |-> 0]
    <3>1. /\ call' = [call EXCEPT ![c] = row]
          /\ rowLock' = c /\ rowLock = NoCall /\ call[c].pc = "updating"
          /\ UNCHANGED <<wallet, entries, faults>>
      BY <1>6, <2>1 DEF UpdateBalance, RowFree, At
    <3>2. row \in CallRow
      BY <2>1, WalletCallTypes DEF Covers, CallRow, Pc, InTransaction
    <3>3. TypeOK'
      BY <3>1, <3>2, WalletMoveType DEF TypeOK
    <3>4. row.pc = "updated" /\ row.written = wallet.balance + Delta(c)
      OBVIOUS
    <3> HIDE DEF row
    <3>5. WalletInFlight'
      BY <3>1, <3>4 DEF WalletIInv, TypeOK, WalletInFlight, Delta, InTransaction
    <3>6. WalletSane'
      BY <3>1, <3>4 DEF WalletIInv, TypeOK, WalletSane
    <3> QED
      BY <3>3, <3>5, <3>6 DEF WalletIInv
  <2>2. CASE ~Covers(c)
    <3> DEFINE row == [call[c] EXCEPT !.pc = "failed"]
    <3>1. row \in CallRow /\ row.pc = "failed"
      BY WalletCallTypes DEF CallRow, Pc, InTransaction
    <3> QED
      BY <1>6, <2>2, <3>1, WalletOutsideStep DEF UpdateBalance, At, Goto, InTransaction
  <2> QED
    BY <2>1, <2>2
<1>7. ASSUME NEW c \in Calls, ReadBalance(c) PROVE WalletIInv'
  <2> DEFINE row == [pc |-> "inserting", seen |-> call[c].seen,
                     written |-> call[c].written, newBalance |-> ReadBack(c)]
  <2>1. /\ call' = [call EXCEPT ![c] = row]
        /\ call[c].pc = "updated"
        /\ UNCHANGED <<wallet, entries, rowLock, faults>>
    BY <1>7 DEF ReadBalance, At
  <2>2. row \in CallRow
    BY WalletCallTypes DEF ReadBack, CallRow, Pc, InTransaction
  <2>3. /\ row.pc = "inserting" /\ row.written = call[c].written
        /\ row.newBalance = row.written
    BY DEF ReadBack
  <2>4. TypeOK'
    BY <2>1, <2>2, WalletMoveType DEF TypeOK
  <2> HIDE DEF row
  <2>5. WalletInFlight'
    BY <2>1, <2>3 DEF WalletIInv, TypeOK, WalletInFlight, Delta, InTransaction
  <2>6. WalletSane'
    BY <2>1, <2>3 DEF WalletIInv, TypeOK, WalletSane
  <2> QED
    BY <2>4, <2>5, <2>6 DEF WalletIInv
<1>8. ASSUME NEW c \in Calls, InsertEntry(c) PROVE WalletIInv'
  <2>1. /\ wallet' = [wallet EXCEPT !.balance = call[c].written]
        /\ entries' = Append(entries, [amount |-> Delta(c),
                                       balanceAfter |-> call[c].newBalance])
        /\ rowLock' = NoCall /\ Goto(c, "done") /\ call[c].pc = "inserting"
        /\ UNCHANGED faults
    BY <1>8 DEF InsertEntry, At
  <2>2. rowLock = c /\ Amount[c] > 0
    BY <2>1 DEF WalletIInv, WalletInFlight, WalletSane, InTransaction
  <2>3. wallet' \in WalletRow /\ wallet'.balance = call[c].written
        /\ wallet'.exists = wallet.exists
    BY <2>1, WalletCallTypes, WalletTypes DEF TypeOK, WalletRow
  <2>4. [amount |-> Delta(c), balanceAfter |-> call[c].newBalance] \in Entry
    BY <2>2, WalletDeltaNotZero, WalletCallTypes DEF Entry
  <2>5. entries' \in Seq(Entry)
    BY <2>1, <2>4 DEF TypeOK
  <2>6. TypeOK'
    BY <2>1, <2>3, <2>5, WalletGotoType DEF TypeOK, Pc, InTransaction
  <2>7. WalletInFlight'
    BY <2>1, <2>2 DEF WalletIInv, TypeOK, WalletInFlight, Goto, InTransaction
  <2>8. wallet.exists
    BY <2>1 DEF WalletIInv, WalletSane
  <2>9. WalletSane'
    BY <2>1, <2>2, <2>3, <2>8 DEF WalletIInv, TypeOK, WalletSane, Goto
  <2> QED
    BY <2>6, <2>7, <2>9 DEF WalletIInv
<1>9. ASSUME NEW c \in Calls, Fail(c) PROVE WalletIInv'
  <2>1. /\ Goto(c, "failed") /\ faults' \in 0..MaxFaults
        /\ rowLock' = IF rowLock = c THEN NoCall ELSE rowLock
        /\ UNCHANGED <<wallet, entries>>
    BY <1>9 DEF Fail, TypeOK
  <2>2. TypeOK'
    BY <2>1, WalletGotoType DEF TypeOK, Pc, InTransaction
  <2>3. WalletInFlight'
    BY <2>1 DEF WalletIInv, TypeOK, WalletInFlight, Goto, Delta, InTransaction
  <2>4. WalletSane'
    BY <2>1 DEF WalletIInv, TypeOK, WalletSane, Goto
  <2> QED
    BY <2>2, <2>3, <2>4 DEF WalletIInv
<1>10. ASSUME ChangeStatus PROVE WalletIInv'
  <2>1. PICK s \in {"active", "frozen"} : wallet' = [wallet EXCEPT !.status = s]
    BY <1>10 DEF ChangeStatus
  <2>2. /\ wallet' \in WalletRow /\ wallet'.balance = wallet.balance
        /\ wallet'.exists = wallet.exists
    BY <2>1, WalletTypes DEF TypeOK, WalletRow
  <2>3. UNCHANGED <<entries, rowLock, call, faults>>
    BY <1>10 DEF ChangeStatus
  <2> QED
    BY <2>2, <2>3 DEF WalletIInv, TypeOK, WalletInFlight, Delta, WalletSane
<1>11. CASE UNCHANGED vars
  BY <1>11 DEF vars, WalletIInv, TypeOK, WalletInFlight, Delta, WalletSane
<1> QED
  BY <1>1, <1>2, <1>3, <1>4, <1>5, <1>6, <1>7, <1>8, <1>9, <1>10, <1>11
  DEF Next, Step

\* Types, and what a transaction in flight holds, are kept by every step.
LEMMA WalletInvariant == Spec => []WalletIInv
<1> QED
  BY WalletInitIInv, WalletNextIInv, PTL DEF Spec

\* The wallet, its entries and the calls keep their types: in particular the
\* balance stays within 0..MaxBalance, so no payment overdraws the wallet.
THEOREM WalletTypeCorrect == Spec => []TypeOK
<1>1. WalletIInv => TypeOK
  BY DEF WalletIInv
<1> QED
  BY <1>1, WalletInvariant, PTL

-----------------------------------------------------------------------------
\* Only InsertEntry changes the balance or the entries.
LEMMA WalletWhatChanges ==
  ASSUME WalletIInv, Next
  PROVE  \/ wallet'.balance = wallet.balance /\ UNCHANGED entries
         \/ \E c \in Calls : InsertEntry(c)
<1>1. ASSUME NEW c \in Calls, CreateWallet(c)
      PROVE  wallet'.balance = wallet.balance /\ UNCHANGED entries
  <2>1. CASE CanCreate
    BY <1>1, <2>1 DEF CreateWallet, CanCreate, WalletIInv, WalletSane
  <2>2. CASE ~CanCreate
    BY <1>1, <2>2 DEF CreateWallet
  <2> QED
    BY <2>1, <2>2
<1>2. ASSUME ChangeStatus
      PROVE  wallet'.balance = wallet.balance /\ UNCHANGED entries
  <2>1. PICK s \in {"active", "frozen"} : wallet' = [wallet EXCEPT !.status = s]
    BY <1>2 DEF ChangeStatus
  <2> QED
    BY <1>2, <2>1 DEF ChangeStatus, WalletIInv, TypeOK, WalletRow
<1>3. ASSUME NEW c \in Calls,
             RejectAmount(c) \/ FindWallet(c) \/ ReadWallet(c) \/ CheckWallet(c)
               \/ UpdateBalance(c) \/ ReadBalance(c) \/ Fail(c)
      PROVE  UNCHANGED <<wallet, entries>>
  BY <1>3 DEF RejectAmount, FindWallet, ReadWallet, CheckWallet, UpdateBalance,
              ReadBalance, Fail
<1> QED
  BY <1>1, <1>2, <1>3 DEF Next, Step

\* What the entry of a commit says.
LEMMA WalletCommitPosts ==
  ASSUME WalletIInv, NEW c \in Calls, InsertEntry(c)
  PROVE  /\ Delta(c) \in Int \ {0}
         /\ wallet'.balance = wallet.balance + Delta(c)
         /\ wallet'.balance \in 0..MaxBalance
         /\ entries' = Append(entries, [amount |-> Delta(c),
                                        balanceAfter |-> wallet'.balance])
<1>1. call[c].pc = "inserting"
  BY DEF InsertEntry, At
<1>2. /\ call[c].newBalance = call[c].written
      /\ call[c].written = wallet.balance + Delta(c)
      /\ Amount[c] > 0
  BY <1>1 DEF WalletIInv, WalletInFlight, WalletSane, InTransaction
<1>3. wallet'.balance = call[c].written
  BY DEF InsertEntry, WalletIInv, TypeOK, WalletRow
<1>4. call[c].written \in 0..MaxBalance
  BY WalletCallTypes DEF WalletIInv
<1>5. Delta(c) \in Int \ {0}
  BY <1>2, WalletDeltaNotZero
<1>6. entries' = Append(entries, [amount |-> Delta(c),
                                  balanceAfter |-> call[c].newBalance])
  BY DEF InsertEntry
<1> QED
  BY <1>2, <1>3, <1>4, <1>5, <1>6

\* HistoryExplainsBalance: each entry continues the one before it and the
\* last one is the balance.
THEOREM HistoryIsExplained == Spec => []HistoryExplainsBalance
<1>1. Init => HistoryExplainsBalance
  BY DEF Init, NoWallet, HistoryExplainsBalance
<1>2. WalletIInv /\ HistoryExplainsBalance /\ [Next]_vars => HistoryExplainsBalance'
  <2> SUFFICES ASSUME WalletIInv, HistoryExplainsBalance, [Next]_vars
               PROVE  HistoryExplainsBalance'
    OBVIOUS
  <2>1. CASE wallet'.balance = wallet.balance /\ UNCHANGED entries
    BY <2>1 DEF HistoryExplainsBalance, BalanceBefore
  <2>2. ASSUME NEW c \in Calls, InsertEntry(c) PROVE HistoryExplainsBalance'
    <3>0. PICK n \in Nat : n = Len(entries)
      BY DEF WalletIInv, TypeOK
    <3> DEFINE entry == [amount |-> Delta(c), balanceAfter |-> wallet'.balance]
    <3>1. entries \in Seq(Entry) /\ n = Len(entries)
      BY <3>0 DEF WalletIInv, TypeOK
    <3>2. entry \in Entry
      BY <2>2, WalletCommitPosts DEF Entry
    <3>3. /\ entries' = Append(entries, entry)
          /\ wallet'.balance = wallet.balance + Delta(c)
      BY <2>2, WalletCommitPosts
    <3>4. /\ entry.amount = Delta(c) /\ entry.balanceAfter = wallet'.balance
      OBVIOUS
    <3> HIDE DEF entry
    <3>5. /\ Len(entries') = n + 1 /\ entries'[n + 1] = entry
          /\ \A i \in 1..n : entries'[i] = entries[i]
          /\ entries' # <<>>
      BY <3>1, <3>2, <3>3
    <3>6. BalanceBefore(n + 1)' = wallet.balance
      <4>1. CASE n = 0
        BY <4>1, <3>1 DEF BalanceBefore, HistoryExplainsBalance
      <4>2. CASE n # 0
        <5>1. n \in 1..n /\ n + 1 # 1 /\ (n + 1) - 1 = n /\ entries # <<>>
          BY <4>2, <3>1
        <5>2. BalanceBefore(n + 1)' = entries[n].balanceAfter
          BY <5>1, <3>5 DEF BalanceBefore
        <5> QED
          BY <5>1, <5>2, <3>1 DEF HistoryExplainsBalance
      <4> QED
        BY <4>1, <4>2
    <3>7. \A i \in 1..n : BalanceBefore(i)' = BalanceBefore(i)
      BY <3>1, <3>5 DEF BalanceBefore
    <3>8. ASSUME NEW i \in 1..(n + 1)
          PROVE  entries'[i].balanceAfter
                   = BalanceBefore(i)' + entries'[i].amount
      <4>1. CASE i = n + 1
        <5>1. BalanceBefore(i)' = wallet.balance
          BY <4>1, <3>6 DEF BalanceBefore
        <5>2. entries'[i].balanceAfter = wallet.balance + Delta(c)
              /\ entries'[i].amount = Delta(c)
          BY <4>1, <3>3, <3>4, <3>5
        <5> QED
          BY <5>1, <5>2
      <4>2. CASE i # n + 1
        <5>1. i \in 1..n
          BY <4>2, <3>1
        <5> QED
          BY <5>1, <3>1, <3>5, <3>7 DEF HistoryExplainsBalance
      <4> QED
        BY <4>1, <4>2
    <3> QED
      BY <3>1, <3>2, <3>3, <3>4, <3>5, <3>8 DEF HistoryExplainsBalance
  <2>3. CASE UNCHANGED vars
    BY <2>3 DEF vars, HistoryExplainsBalance, BalanceBefore
  <2> QED
    BY <2>1, <2>2, <2>3, WalletWhatChanges
<1> QED
  BY <1>1, <1>2, WalletInvariant, PTL DEF Spec

\* ImplementsLedger: overlapping, failing and racing calls are, seen from the
\* committed row and its entries, single steps of a statement of account.
THEOREM LedgerImplemented == Spec => ImplementsLedger
<1>1. Init => Ledger!LedgerInit
  BY DEF Init, NoWallet, Ledger!LedgerInit
<1>2. WalletIInv /\ [Next]_vars => [Ledger!LedgerNext]_(Ledger!ledgerVars)
  <2> SUFFICES ASSUME WalletIInv, [Next]_vars
               PROVE  \/ Ledger!LedgerNext
                      \/ wallet'.balance = wallet.balance /\ UNCHANGED entries
    BY DEF Ledger!ledgerVars
  <2>1. ASSUME NEW c \in Calls, InsertEntry(c) PROVE Ledger!LedgerNext
    <3>1. Delta(c) \in Int \ {0} /\ wallet.balance \in 0..MaxBalance
      BY <2>1, WalletCommitPosts, WalletTypes DEF WalletIInv
    <3>2. Ledger!Post(Delta(c))
      BY <2>1, <3>1, WalletCommitPosts DEF Ledger!Post
    <3>3. Delta(c) \in (-MaxBalance)..MaxBalance
      <4>1. wallet.balance + Delta(c) \in 0..MaxBalance
        BY <2>1, WalletCommitPosts
      <4>2. MaxBalance \in Nat
        BY WalletAssumption
      <4> QED
        BY <3>1, <4>1, <4>2
    <3> QED
      BY <3>1, <3>2, <3>3 DEF Ledger!LedgerNext
  <2>2. CASE UNCHANGED vars
    BY <2>2 DEF vars
  <2> QED
    BY <2>1, <2>2, WalletWhatChanges
<1> QED
  BY <1>1, <1>2, WalletInvariant, PTL DEF Spec, ImplementsLedger, Ledger!LedgerSpec

(***************************************************************************)
(* The status of a flight: what a cancellation settles and what its        *)
(* history tells                                                           *)
(***************************************************************************)
StatusCalls == [doing : {"idle", "write", "log", "find", "refund"}, old : FsStates,
          new : FsStates, refund : BOOLEAN, left : SUBSET FsBookings]

StatusRows == [status : {"pending", "confirmed", "cancelled"}, pay : {"pending", "paid", "refunded"}]

StatusTypeInv == /\ FSTypeOK
           /\ fsCall \in [FsAdmins -> StatusCalls] /\ fsAsked \in [FsBookings -> StatusRows]

\* Bookings: a cancellation under way has still to mark, or has lost to a
\* later payment, every booking that is paid; one that has ended has lost
\* them all.
StatusRefundInv ==
  /\ fsDone => FsPaid \subseteq fsLate
  /\ \A k \in FsAdmins : FsDoing(k, "refund") => FsPaid \subseteq fsCall[k].left \cup fsLate

\* History: a call between its look and its entry is the only one, knows
\* the status it found, and that status is where the history ends.
StatusEnds == IF Len(fsHistory) = 0 THEN "scheduled" ELSE fsHistory[Len(fsHistory)][2]
StatusBusy(k) == FsDoing(k, "write") \/ FsDoing(k, "log")
StatusChained ==
  \A i \in 1..Len(fsHistory) :
    fsHistory[i][1] = IF i = 1 THEN "scheduled" ELSE fsHistory[i - 1][2]

StatusHistoryInv == ~fsMixed =>
  /\ StatusChained
  /\ \A j, k \in FsAdmins : StatusBusy(j) /\ StatusBusy(k) => j = k
  /\ \A k \in FsAdmins : StatusBusy(k) => fsCall[k].old = StatusEnds
  /\ \A k \in FsAdmins : FsDoing(k, "log") => fsStatus = fsCall[k].new
  /\ (\A k \in FsAdmins : ~FsDoing(k, "log")) => fsStatus = StatusEnds

StatusIInv == StatusTypeInv /\ StatusRefundInv /\ StatusHistoryInv

LEMMA StatusInitIInv == FSInit => StatusIInv
<1> SUFFICES ASSUME FSInit PROVE StatusIInv
  OBVIOUS
<1>1. StatusTypeInv
  <2>1. fsCall \in [FsAdmins -> StatusCalls]
    BY DEF FSInit, FsStates, FsIdle, StatusCalls
  <2>2. fsBooking \in [FsBookings -> StatusRows] /\ fsAsked \in [FsBookings -> StatusRows]
    BY DEF FSInit, StatusRows, FsNotAsked
  <2>3. fsStatus \in FsStates /\ fsHistory \in Seq(FsStates \X FsStates)
    BY DEF FSInit, FsStates
  <2>4. fsRead \subseteq FsBookings /\ fsLate \subseteq FsBookings /\ fsOps \in 0..FsMaxOps
    BY FlightStatusAssumption DEF FSInit
  <2>5. fsDone \in BOOLEAN /\ fsMixed \in BOOLEAN
    BY DEF FSInit
  <2> QED
    BY <2>1, <2>2, <2>3, <2>4, <2>5 DEF StatusTypeInv, FSTypeOK, StatusRows
<1>2. StatusRefundInv
  BY DEF FSInit, StatusRefundInv, FsPaid, FsDoing, FsIdle
<1>3. StatusHistoryInv
  BY DEF FSInit, StatusHistoryInv, StatusEnds, StatusChained, StatusBusy, FsDoing, FsIdle
<1> QED
  BY <1>1, <1>2, <1>3 DEF StatusIInv

\* The administrators' steps
\* The steps that leave the status, its history and who is about to write
\* either as they are.
LEMMA StatusHistoryKept ==
  ASSUME StatusTypeInv, StatusHistoryInv, UNCHANGED <<fsStatus, fsHistory>>, fsMixed => fsMixed',
         \A k \in FsAdmins :
           /\ FsDoing(k, "log")' <=> FsDoing(k, "log")
           /\ StatusBusy(k)' => StatusBusy(k) /\ fsCall'[k] = fsCall[k]
  PROVE  StatusHistoryInv'
<1> SUFFICES ASSUME ~fsMixed' PROVE StatusHistoryInv'
  BY DEF StatusHistoryInv
<1>1. StatusEnds' = StatusEnds /\ (StatusChained' <=> StatusChained)
  BY DEF StatusEnds, StatusChained
<1> QED
  BY <1>1 DEF StatusHistoryInv, StatusBusy, FsDoing

\* The steps that concern neither bookings nor the refunding call.
LEMMA StatusRefundKept ==
  ASSUME StatusTypeInv, StatusRefundInv, UNCHANGED <<fsBooking, fsDone, fsLate>>,
         \A k \in FsAdmins : FsDoing(k, "refund")' =>
           FsDoing(k, "refund") /\ fsCall'[k].left = fsCall[k].left
  PROVE  StatusRefundInv'
BY DEF StatusRefundInv, FsPaid

LEMMA StatusReadStep ==
  ASSUME StatusIInv, NEW k \in FsAdmins, NEW new \in FsStates, NEW pays \in BOOLEAN,
         FSReadFlight(k, new, pays)
  PROVE  StatusIInv'
<1> DEFINE req == [doing |-> "write", old |-> fsStatus, new |-> new,
                    refund |-> pays, left |-> {}]
<1>0. StatusTypeInv /\ StatusRefundInv /\ StatusHistoryInv
  BY DEF StatusIInv
<1>1. /\ fsCall' = [fsCall EXCEPT ![k] = req] /\ FsDoing(k, "idle")
      /\ UNCHANGED <<fsStatus, fsHistory, fsBooking, fsRead, fsAsked, fsDone, fsLate>>
      /\ fsMixed' = (fsMixed \/ \E j \in FsAdmins : StatusBusy(j))
      /\ fsOps < FsMaxOps /\ fsOps' = fsOps + 1
  BY DEF FSReadFlight, FsSet, StatusBusy
<1>2. req \in StatusCalls
  BY <1>0 DEF StatusCalls, StatusTypeInv, FSTypeOK
<1>3. StatusTypeInv'
  <2>1. fsCall' \in [FsAdmins -> StatusCalls]
    BY <1>0, <1>1, <1>2 DEF StatusTypeInv
  <2>2. fsMixed' \in BOOLEAN /\ fsOps' \in 0..FsMaxOps
    BY <1>0, <1>1, FlightStatusAssumption DEF StatusTypeInv, FSTypeOK
  <2> QED
    BY <1>0, <1>1, <2>1, <2>2 DEF StatusTypeInv, FSTypeOK
<1>4. \A j \in FsAdmins : fsCall'[j] = IF j = k THEN req ELSE fsCall[j]
  BY <1>0, <1>1 DEF StatusTypeInv
<1>5. StatusRefundInv'
  BY <1>0, <1>1, <1>4, StatusRefundKept DEF FsDoing
<1>6. StatusHistoryInv'
  <2> SUFFICES ASSUME ~fsMixed' PROVE StatusHistoryInv'
    BY DEF StatusHistoryInv
  <2>1. ~fsMixed /\ \A j \in FsAdmins : ~StatusBusy(j)
    BY <1>1
  <2>2. StatusEnds' = StatusEnds /\ (StatusChained' <=> StatusChained)
    BY <1>1 DEF StatusEnds, StatusChained
  <2>3. fsStatus = StatusEnds
    BY <1>0, <2>1 DEF StatusHistoryInv, StatusBusy
  <2>4. \A j \in FsAdmins : (StatusBusy(j)' => j = k) /\ ~FsDoing(j, "log")'
    BY <1>4, <2>1 DEF StatusBusy, FsDoing
  <2>5. fsCall'[k].old = StatusEnds'
    BY <1>4, <2>2, <2>3
  <2> QED
    BY <1>0, <1>1, <2>1, <2>2, <2>3, <2>4, <2>5 DEF StatusHistoryInv
<1> QED
  BY <1>3, <1>5, <1>6 DEF StatusIInv

LEMMA StatusWriteStep ==
  ASSUME StatusIInv, NEW k \in FsAdmins, FSWriteStatus(k)
  PROVE  StatusIInv'
<1> DEFINE req == [fsCall[k] EXCEPT !.doing = "log"]
<1>0. StatusTypeInv /\ StatusRefundInv /\ StatusHistoryInv /\ fsCall[k] \in StatusCalls
  BY DEF StatusIInv, StatusTypeInv
<1>1. /\ FsDoing(k, "write") /\ fsStatus' = fsCall[k].new
      /\ fsCall' = [fsCall EXCEPT ![k] = req]
      /\ UNCHANGED <<fsHistory, fsBooking, fsRead, fsAsked, fsOps, fsDone, fsLate, fsMixed>>
  BY DEF FSWriteStatus, FsSet
<1>2. /\ req \in StatusCalls /\ req.doing = "log"
      /\ req.old = fsCall[k].old /\ req.new = fsCall[k].new
  BY <1>0 DEF StatusCalls
<1> HIDE DEF req
<1>3. StatusTypeInv'
  <2>1. fsCall' \in [FsAdmins -> StatusCalls] /\ fsStatus' \in FsStates
    BY <1>0, <1>1, <1>2 DEF StatusTypeInv, StatusCalls
  <2> QED
    BY <1>0, <1>1, <2>1 DEF StatusTypeInv, FSTypeOK
<1>4. \A j \in FsAdmins : fsCall'[j] = IF j = k THEN req ELSE fsCall[j]
  BY <1>0, <1>1 DEF StatusTypeInv
<1>5. StatusRefundInv'
  BY <1>0, <1>1, <1>2, <1>4, StatusRefundKept DEF FsDoing
<1>6. StatusHistoryInv'
  <2> SUFFICES ASSUME ~fsMixed' PROVE StatusHistoryInv'
    BY DEF StatusHistoryInv
  <2>1. StatusEnds' = StatusEnds /\ (StatusChained' <=> StatusChained)
    BY <1>1 DEF StatusEnds, StatusChained
  <2>2. StatusBusy(k) /\ \A j \in FsAdmins : StatusBusy(j) => j = k
    BY <1>0, <1>1 DEF StatusHistoryInv, StatusBusy
  <2>3. \A j \in FsAdmins : StatusBusy(j)' => j = k
    BY <1>4, <2>2 DEF StatusBusy, FsDoing
  <2>4. fsCall'[k].old = StatusEnds' /\ fsStatus' = fsCall'[k].new /\ FsDoing(k, "log")'
    BY <1>0, <1>1, <1>2, <1>4, <2>1, <2>2 DEF StatusHistoryInv, FsDoing
  <2>5. \A j \in FsAdmins : FsDoing(j, "log")' => j = k
    BY <2>3 DEF StatusBusy
  <2> QED
    BY <1>0, <1>1, <2>1, <2>3, <2>4, <2>5 DEF StatusHistoryInv
<1> QED
  BY <1>3, <1>5, <1>6 DEF StatusIInv

LEMMA StatusLogStep ==
  ASSUME StatusIInv, NEW k \in FsAdmins, FSLog(k)
  PROVE  StatusIInv'
<1> DEFINE req == IF fsCall[k].refund THEN [fsCall[k] EXCEPT !.doing = "find"] ELSE FsIdle
           entry == <<fsCall[k].old, fsCall[k].new>>
<1>0. /\ StatusTypeInv /\ StatusRefundInv /\ StatusHistoryInv /\ fsCall[k] \in StatusCalls
      /\ fsHistory \in Seq(FsStates \X FsStates)
  BY DEF StatusIInv, StatusTypeInv, FSTypeOK
<1>1. /\ FsDoing(k, "log") /\ fsHistory' = Append(fsHistory, entry)
      /\ fsCall' = [fsCall EXCEPT ![k] = req]
      /\ UNCHANGED <<fsStatus, fsBooking, fsRead, fsAsked, fsOps, fsDone, fsLate, fsMixed>>
  BY DEF FSLog, FsSet
<1>2. req \in StatusCalls /\ req.doing \in {"find", "idle"} /\ entry \in FsStates \X FsStates
  BY <1>0 DEF StatusCalls, FsIdle, FsStates
<1>3. entry[1] = fsCall[k].old /\ entry[2] = fsCall[k].new
  OBVIOUS
<1> HIDE DEF req, entry
<1>4. /\ fsHistory' \in Seq(FsStates \X FsStates) /\ Len(fsHistory') = Len(fsHistory) + 1
      /\ \A i \in 1..Len(fsHistory) : fsHistory'[i] = fsHistory[i]
      /\ fsHistory'[Len(fsHistory) + 1] = entry /\ Len(fsHistory) \in Nat
  BY <1>0, <1>1, <1>2
<1>5. StatusTypeInv'
  <2>1. fsCall' \in [FsAdmins -> StatusCalls]
    BY <1>0, <1>1, <1>2 DEF StatusTypeInv
  <2> QED
    BY <1>0, <1>1, <1>4, <2>1 DEF StatusTypeInv, FSTypeOK
<1>6. \A j \in FsAdmins : fsCall'[j] = IF j = k THEN req ELSE fsCall[j]
  BY <1>0, <1>1 DEF StatusTypeInv
<1>7. StatusRefundInv'
  BY <1>0, <1>1, <1>2, <1>6, StatusRefundKept DEF FsDoing
<1>8. StatusHistoryInv'
  <2> SUFFICES ASSUME ~fsMixed' PROVE StatusHistoryInv'
    BY DEF StatusHistoryInv
  <2>1. StatusBusy(k) /\ \A j \in FsAdmins : StatusBusy(j) => j = k
    BY <1>0, <1>1 DEF StatusHistoryInv, StatusBusy
  <2>2. \A j \in FsAdmins : ~StatusBusy(j)'
    BY <1>2, <1>6, <2>1 DEF StatusBusy, FsDoing
  <2>3. entry[1] = StatusEnds /\ fsStatus' = entry[2] /\ StatusChained
    BY <1>0, <1>1, <1>3, <2>1 DEF StatusHistoryInv
  <2>4. StatusEnds' = entry[2]
    BY <1>4 DEF StatusEnds
  <2>5. StatusChained'
    <3> SUFFICES ASSUME NEW i \in 1..Len(fsHistory')
                 PROVE  fsHistory'[i][1] = IF i = 1 THEN "scheduled" ELSE fsHistory'[i - 1][2]
      BY DEF StatusChained
    <3>1. CASE i = Len(fsHistory) + 1
      BY <1>4, <2>3, <3>1 DEF StatusEnds
    <3>2. CASE i # Len(fsHistory) + 1
      <4>1. i \in 1..Len(fsHistory) /\ (i # 1 => i - 1 \in 1..Len(fsHistory))
        BY <1>4, <3>2
      <4> QED
        BY <1>4, <2>3, <4>1 DEF StatusChained
    <3> QED
      BY <3>1, <3>2
  <2> QED
    BY <2>2, <2>3, <2>4, <2>5 DEF StatusHistoryInv, StatusBusy
<1> QED
  BY <1>5, <1>7, <1>8 DEF StatusIInv

\* The steps of a cancellation after its entry, its end and its failures: the
\* call they leave is not about to write.
LEMMA StatusRefundingStep ==
  ASSUME StatusIInv, NEW k \in FsAdmins, NEW req \in StatusCalls, FsSet(k, req),
         req.doing \in {"idle", "refund"},
         UNCHANGED <<fsStatus, fsHistory, fsOps, fsRead, fsAsked>>,
         fsMixed' \in BOOLEAN, fsMixed => fsMixed', FsDoing(k, "log") => fsMixed'
  PROVE  /\ \A j \in FsAdmins : fsCall'[j] = IF j = k THEN req ELSE fsCall[j]
         /\ fsCall' \in [FsAdmins -> StatusCalls]
         /\ StatusHistoryInv'
<1>0. StatusTypeInv /\ StatusHistoryInv /\ fsCall' = [fsCall EXCEPT ![k] = req]
  BY DEF StatusIInv, FsSet
<1>1. /\ \A j \in FsAdmins : fsCall'[j] = IF j = k THEN req ELSE fsCall[j]
      /\ fsCall' \in [FsAdmins -> StatusCalls]
  BY <1>0 DEF StatusTypeInv
<1>2. StatusHistoryInv'
  <2> SUFFICES ASSUME ~fsMixed' PROVE StatusHistoryInv'
    BY DEF StatusHistoryInv
  <2>1. \A j \in FsAdmins :
          /\ FsDoing(j, "log")' <=> FsDoing(j, "log")
          /\ StatusBusy(j)' => StatusBusy(j) /\ fsCall'[j] = fsCall[j]
    BY <1>1 DEF FsDoing, StatusBusy
  <2> QED
    BY <1>0, <2>1, StatusHistoryKept
<1> QED
  BY <1>1, <1>2

LEMMA StatusFindStep ==
  ASSUME StatusIInv, NEW k \in FsAdmins, FSFindPaid(k)
  PROVE  StatusIInv'
<1> DEFINE req == [fsCall[k] EXCEPT !.doing = "refund", !.left = FsPaid]
<1>0. StatusTypeInv /\ StatusRefundInv /\ fsCall[k] \in StatusCalls
  BY DEF StatusIInv, StatusTypeInv
<1>1. /\ FsDoing(k, "find") /\ FsSet(k, req)
      /\ UNCHANGED <<fsStatus, fsHistory, fsBooking, fsRead, fsAsked, fsOps, fsDone, fsLate, fsMixed>>
  BY DEF FSFindPaid
<1>2. req \in StatusCalls /\ req.doing = "refund" /\ req.left = FsPaid
  BY <1>0 DEF StatusCalls, FsPaid
<1> HIDE DEF req
<1>3. /\ \A j \in FsAdmins : fsCall'[j] = IF j = k THEN req ELSE fsCall[j]
      /\ fsCall' \in [FsAdmins -> StatusCalls] /\ StatusHistoryInv'
  BY <1>0, <1>1, <1>2, StatusRefundingStep DEF FsDoing, StatusTypeInv, FSTypeOK
<1>4. StatusTypeInv'
  BY <1>0, <1>1, <1>3 DEF StatusTypeInv, FSTypeOK
<1>5. StatusRefundInv'
  BY <1>0, <1>1, <1>2, <1>3 DEF StatusRefundInv, FsPaid, FsDoing
<1> QED
  BY <1>3, <1>4, <1>5 DEF StatusIInv

LEMMA StatusMarkStep ==
  ASSUME StatusIInv, NEW k \in FsAdmins, NEW b \in FsBookings, FSMarkRefunded(k, b)
  PROVE  StatusIInv'
<1> DEFINE req == [fsCall[k] EXCEPT !.left = fsCall[k].left \ {b}]
<1>0. StatusTypeInv /\ StatusRefundInv /\ fsCall[k] \in StatusCalls
  BY DEF StatusIInv, StatusTypeInv
<1>1. /\ FsDoing(k, "refund") /\ FsMark(b, "cancelled", "refunded") /\ FsSet(k, req)
      /\ UNCHANGED <<fsStatus, fsHistory, fsRead, fsAsked, fsOps, fsDone, fsLate, fsMixed>>
  BY DEF FSMarkRefunded
<1>2. req \in StatusCalls /\ req.doing = "refund" /\ req.left = fsCall[k].left \ {b}
  BY <1>0, <1>1 DEF StatusCalls, FsDoing
<1> HIDE DEF req
<1>3. /\ \A j \in FsAdmins : fsCall'[j] = IF j = k THEN req ELSE fsCall[j]
      /\ fsCall' \in [FsAdmins -> StatusCalls] /\ StatusHistoryInv'
  BY <1>0, <1>1, <1>2, StatusRefundingStep DEF FsDoing, StatusTypeInv, FSTypeOK
<1>4. StatusTypeInv'
  BY <1>0, <1>1, <1>3 DEF StatusTypeInv, FSTypeOK, FsMark
<1>5. FsPaid' = FsPaid \ {b}
  BY <1>0, <1>1 DEF FsPaid, FsMark, StatusTypeInv, FSTypeOK
<1>6. StatusRefundInv'
  BY <1>0, <1>1, <1>2, <1>3, <1>5 DEF StatusRefundInv, FsDoing
<1> QED
  BY <1>3, <1>4, <1>6 DEF StatusIInv

LEMMA StatusEndStep ==
  ASSUME StatusIInv, NEW k \in FsAdmins, FSEnd(k) \/ FSFail(k)
  PROVE  StatusIInv'
<1>0. StatusTypeInv /\ StatusRefundInv
  BY DEF StatusIInv
<1>1. /\ FsSet(k, FsIdle) /\ FsIdle \in StatusCalls /\ FsIdle.doing = "idle"
      /\ UNCHANGED <<fsStatus, fsHistory, fsBooking, fsRead, fsAsked, fsOps, fsLate>>
  BY DEF FSEnd, FSFail, FsIdle, StatusCalls, FsStates
<1>2. fsMixed' = (fsMixed \/ FsDoing(k, "log"))
  BY <1>0 DEF FSEnd, FSFail, FsDoing, StatusTypeInv, FSTypeOK
<1>3. /\ \A j \in FsAdmins : fsCall'[j] = IF j = k THEN FsIdle ELSE fsCall[j]
      /\ fsCall' \in [FsAdmins -> StatusCalls] /\ StatusHistoryInv'
  <2>1. fsMixed' \in BOOLEAN /\ (fsMixed => fsMixed') /\ (FsDoing(k, "log") => fsMixed')
    BY <1>0, <1>2 DEF StatusTypeInv, FSTypeOK
  <2> QED
    BY <1>1, <2>1, StatusRefundingStep
<1>4. fsDone' \in BOOLEAN /\ (fsDone' => FsPaid \subseteq fsLate)
  <2>1. CASE FSEnd(k)
    <3>1. FsPaid \subseteq fsCall[k].left \cup fsLate /\ fsCall[k].left = {} /\ fsDone' = TRUE
      BY <1>0, <2>1 DEF FSEnd, StatusRefundInv
    <3> QED
      BY <3>1
  <2>2. CASE FSFail(k)
    BY <1>0, <2>2 DEF FSFail, StatusRefundInv, StatusTypeInv, FSTypeOK
  <2> QED
    BY <2>1, <2>2
<1>5. StatusTypeInv'
  <2>1. fsMixed' \in BOOLEAN
    BY <1>0, <1>2 DEF StatusTypeInv, FSTypeOK
  <2> QED
    BY <1>0, <1>1, <1>3, <1>4, <2>1 DEF StatusTypeInv, FSTypeOK
<1>6. StatusRefundInv'
  BY <1>0, <1>1, <1>3, <1>4 DEF StatusRefundInv, FsPaid, FsDoing
<1> QED
  BY <1>3, <1>5, <1>6 DEF StatusIInv

\* The customers' steps
LEMMA StatusBookingKept ==
  ASSUME StatusIInv, UNCHANGED <<fsStatus, fsHistory, fsCall, fsDone, fsMixed>>,
         fsBooking' \in [FsBookings -> StatusRows], fsAsked' \in [FsBookings -> StatusRows],
         fsRead' \subseteq FsBookings, fsLate' \subseteq FsBookings, fsOps' \in 0..FsMaxOps,
         StatusRefundInv'
  PROVE  StatusIInv'
<1>1. StatusTypeInv /\ StatusHistoryInv
  BY DEF StatusIInv
<1>2. StatusTypeInv'
  BY <1>1 DEF StatusTypeInv, FSTypeOK, StatusRows
<1>3. StatusHistoryInv'
  BY <1>1, StatusHistoryKept DEF FsDoing, StatusBusy
<1> QED
  BY <1>2, <1>3 DEF StatusIInv

\* Whoever marks a booking as paid, a payment or a partial refund, is late for
\* every cancellation that has looked.
LEMMA StatusPaidStep ==
  ASSUME StatusIInv, NEW b \in FsBookings, NEW s \in {"pending", "confirmed", "cancelled"},
         FsMark(b, s, "paid"), fsLate' = FsNowLate(b), fsAsked' \in [FsBookings -> StatusRows],
         fsRead' \subseteq FsBookings,
         UNCHANGED <<fsStatus, fsHistory, fsCall, fsOps, fsDone, fsMixed>>
  PROVE  StatusIInv'
<1>0. StatusTypeInv /\ StatusRefundInv
  BY DEF StatusIInv
<1>1. /\ fsBooking' \in [FsBookings -> StatusRows]
      /\ FsPaid' = FsPaid \cup {b}
  BY <1>0 DEF FsMark, FsPaid, StatusTypeInv, FSTypeOK, StatusRows
<1>2. fsLate' \subseteq FsBookings /\ fsLate \subseteq fsLate'
  BY <1>0 DEF FsNowLate, StatusTypeInv, FSTypeOK
<1>3. fsDone \/ (\E k \in FsAdmins : FsDoing(k, "refund")) => b \in fsLate'
  BY DEF FsNowLate
<1>4. StatusRefundInv'
  BY <1>0, <1>1, <1>2, <1>3 DEF StatusRefundInv, FsDoing
<1> QED
  BY <1>0, <1>1, <1>2, <1>4, StatusBookingKept DEF StatusTypeInv, FSTypeOK

\* Nobody is paid who was not before.
LEMMA StatusUnpaidStep ==
  ASSUME StatusIInv, UNCHANGED <<fsStatus, fsHistory, fsCall, fsDone, fsLate, fsMixed>>,
         fsBooking' \in [FsBookings -> StatusRows], fsAsked' \in [FsBookings -> StatusRows],
         fsRead' \subseteq FsBookings, fsOps' \in 0..FsMaxOps, FsPaid' \subseteq FsPaid
  PROVE  StatusIInv'
<1>0. StatusTypeInv /\ StatusRefundInv
  BY DEF StatusIInv
<1>1. StatusRefundInv'
  BY <1>0 DEF StatusRefundInv, FsDoing
<1> QED
  BY <1>0, <1>1, StatusBookingKept DEF StatusTypeInv, FSTypeOK

LEMMA StatusCustomerStep ==
  ASSUME StatusIInv, NEW b \in FsBookings,
         \/ FSReadPayment(b) \/ FSPay(b) \/ FSPayFails(b) \/ FSCancelBooking(b) \/ FSAskRefund(b)
         \/ FSRecordRefund(b) \/ FSRecordPart(b) \/ FSRefundFails(b)
  PROVE  StatusIInv'
<1>0. StatusTypeInv /\ fsBooking \in [FsBookings -> StatusRows] /\ fsAsked \in [FsBookings -> StatusRows]
  BY DEF StatusIInv, StatusTypeInv, FSTypeOK, StatusRows
<1>1. fsOps \in 0..FsMaxOps /\ FsMaxOps \in Nat /\ fsRead \subseteq FsBookings
  BY <1>0, FlightStatusAssumption DEF StatusTypeInv, FSTypeOK
<1>2. CASE FSPay(b)
  BY <1>0, <1>1, <1>2, StatusPaidStep DEF FSPay
<1>9. CASE FSReadPayment(b) \/ FSPayFails(b)
  <2>1. fsRead' \subseteq FsBookings /\ FsPaid' = FsPaid
    BY <1>1, <1>9 DEF FSReadPayment, FSPayFails, FsPaid
  <2> QED
    BY <1>0, <1>1, <1>9, <2>1, StatusUnpaidStep DEF FSReadPayment, FSPayFails
<1>3. CASE FSCancelBooking(b)
  <2>1. fsBooking' \in [FsBookings -> StatusRows] /\ FsPaid' \subseteq FsPaid
    BY <1>0, <1>3 DEF FSCancelBooking, FsMark, FsPaid, StatusRows
  <2> QED
    BY <1>0, <1>1, <1>3, <2>1, StatusUnpaidStep DEF FSCancelBooking
<1>4. CASE FSAskRefund(b)
  <2>1. fsAsked' \in [FsBookings -> StatusRows] /\ fsOps' \in 0..FsMaxOps /\ FsPaid' = FsPaid
    BY <1>0, <1>1, <1>4 DEF FSAskRefund, FsPaid
  <2> QED
    BY <1>0, <1>1, <1>4, <2>1, StatusUnpaidStep DEF FSAskRefund
<1>5. ASSUME FsAnswered(b) PROVE fsAsked' \in [FsBookings -> StatusRows]
  BY <1>0, <1>5 DEF FsAnswered, FsNotAsked, StatusRows
<1>6. CASE FSRecordRefund(b)
  <2>1. fsBooking' \in [FsBookings -> StatusRows] /\ FsPaid' \subseteq FsPaid
    BY <1>0, <1>6 DEF FSRecordRefund, FsMark, FsPaid, StatusRows
  <2> QED
    BY <1>0, <1>1, <1>5, <1>6, <2>1, StatusUnpaidStep DEF FSRecordRefund, FsAnswered
<1>7. CASE FSRecordPart(b)
  <2>1. fsAsked[b].status \in {"pending", "confirmed", "cancelled"}
    BY <1>0 DEF StatusRows
  <2> QED
    BY <1>1, <1>5, <1>7, <2>1, StatusPaidStep DEF FSRecordPart, FsAnswered
<1>8. CASE FSRefundFails(b)
  <2>1. FsPaid' = FsPaid
    BY <1>8 DEF FSRefundFails, FsPaid
  <2> QED
    BY <1>0, <1>1, <1>5, <1>8, <2>1, StatusUnpaidStep DEF FSRefundFails, FsAnswered
<1> QED
  BY <1>2, <1>3, <1>4, <1>6, <1>7, <1>8, <1>9

\* The invariant and the theorem
LEMMA StatusNextIInv == StatusIInv /\ [FSNext]_fsVars => StatusIInv'
<1> SUFFICES ASSUME StatusIInv, [FSNext]_fsVars PROVE StatusIInv'
  OBVIOUS
<1>1. ASSUME NEW k \in FsAdmins, NEW new \in FsStates, NEW pays \in BOOLEAN,
             FSReadFlight(k, new, pays)
      PROVE  StatusIInv'
  BY <1>1, StatusReadStep
<1>2. ASSUME NEW k \in FsAdmins,
             FSWriteStatus(k) \/ FSLog(k) \/ FSFindPaid(k) \/ FSEnd(k) \/ FSFail(k)
      PROVE  StatusIInv'
  BY <1>2, StatusWriteStep, StatusLogStep, StatusFindStep, StatusEndStep
<1>3. ASSUME NEW k \in FsAdmins, NEW b \in FsBookings, FSMarkRefunded(k, b) PROVE StatusIInv'
  BY <1>3, StatusMarkStep
<1>4. ASSUME NEW b \in FsBookings,
             \/ FSReadPayment(b) \/ FSPay(b) \/ FSPayFails(b) \/ FSCancelBooking(b) \/ FSAskRefund(b)
             \/ FSRecordRefund(b) \/ FSRecordPart(b) \/ FSRefundFails(b)
      PROVE  StatusIInv'
  BY <1>4, StatusCustomerStep
<1>5. CASE UNCHANGED fsVars
  BY <1>5 DEF fsVars, StatusIInv, StatusTypeInv, FSTypeOK, StatusRefundInv, StatusHistoryInv, StatusEnds, StatusChained, StatusBusy,
              FsPaid, FsDoing
<1> QED
  BY <1>1, <1>2, <1>3, <1>4, <1>5 DEF FSNext

LEMMA StatusSpecIInv == FSSpec => []StatusIInv
BY StatusInitIInv, StatusNextIInv, PTL DEF FSSpec

LEMMA StatusIInvSettles == StatusIInv => FSCancellationSettles
<1> SUFFICES ASSUME StatusIInv PROVE FSCancellationSettles
  OBVIOUS
<1>1. fsDone => {b \in FsBookings : fsBooking[b].pay = "paid"} \subseteq fsLate
  BY DEF StatusIInv, StatusRefundInv, FsPaid
<1>2. ASSUME ~fsMixed, \A k \in FsAdmins : ~FsDoing(k, "log")
      PROVE  fsStatus = StatusEnds /\ StatusChained
  BY <1>2 DEF StatusIInv, StatusHistoryInv
<1> QED
  BY <1>1, <1>2 DEF FSCancellationSettles, StatusEnds, StatusChained

\* However payments, refunds and administrators interleave: a cancellation that
\* has ended left no booking paid but those paid after its look, and until
\* two administrators overlap or an entry is lost the history leads from
\* "scheduled" to the status of the flight without a gap.
THEOREM CancellationSettles == FSSpec => []FSCancellationSettles
BY StatusIInvSettles, StatusSpecIInv, PTL

(***************************************************************************)
(* Miles: loyalty.service.ts and the family pool                           *)
(***************************************************************************)
MilesRow == [balance : Int, earned : Nat, points : Nat, tier : DOMAIN MiLadder]
MilesBooked == [earn : BOOLEAN, miles : Nat]
MilesReads == {"award", "bonus", "redeem", "reverse"}
MilesCall ==
  [doing : {"idle"}]
  \cup [doing : MilesReads, booking : MiBookings, n : Nat, seen : MilesRow]
  \cup [doing : {"expire"}, n : Nat, seen : MilesRow]
  \cup [doing : {"debit", "credit", "pool"}, n : MiAmounts]

\* The miles that contributions under way have still to take out of the account
\* ("debit"), to give to the member ("credit"), and to give to the pool.
MilesSteps == {"debit", "credit", "pool"}
MilesWeight(req, what) == IF req.doing = what THEN req.n ELSE 0
MilesSum(calls, what) ==
  SumFunctionOnSet([k \in MiSessions |-> MilesWeight(calls[k], what)], MiSessions)
MilesOver == (Cardinality(MiSessions) - 1) * Max(MiAmounts)

MilesTyped ==
  /\ miAccount \in MilesRow
  /\ miFirst \in [MiBookings -> Seq(MilesBooked)]
  /\ miLapsed \in Nat /\ miLive \in Nat /\ miLogged \in Int
  /\ miPool \in [member : Nat, group : Nat, rows : {1, 2}]
  /\ miSession \in [MiSessions -> MilesCall]
  /\ miOps \in 0..MiMaxOps /\ miStale \in BOOLEAN /\ miBroken \in BOOLEAN
  /\ miUnpaid \in Int /\ miDebited \in Nat /\ miExpired \in [miles : Nat, runs : Nat]

\* What a call under way knows of the account it has read.
MilesCallOK(req, lapsed) ==
  /\ req.doing = "redeem" => req.seen.balance >= req.n
  /\ req.doing = "expire" => req.n <= req.seen.balance /\ req.n <= lapsed
MilesCallInv == \A k \in MiSessions : MilesCallOK(miSession[k], miLapsed)

MilesLogInv ==
  /\ ~miStale => miAccount.balance = miLogged - miDebited + miUnpaid
  /\ miAccount.tier = MiTier(miAccount.points)
  /\ miExpired.miles <= miExpired.runs * miLapsed

MilesPoolInv ==
  /\ miPool.group + MilesSum(miSession, "pool") <= miPool.member
  /\ miPool.member + miPool.rows * MilesSum(miSession, "credit") <= miPool.rows * miDebited
  /\ ~miBroken => miPool.group + MilesSum(miSession, "credit") + MilesSum(miSession, "pool") = miDebited

\* What the contributions under way have still to take overdraws the account by
\* one amount less than there are sessions at most.
MilesDueInv == ~miStale => miAccount.balance - MilesSum(miSession, "debit") >= -MilesOver

MilesInv == MilesTyped /\ MilesCallInv /\ MilesLogInv /\ MilesPoolInv /\ MilesDueInv

LEMMA MilesConstants ==
  /\ MiMaxOps \in Nat /\ MiBase \in Nat
  /\ IsFiniteSet(MiSessions) /\ Cardinality(MiSessions) \in Nat /\ Cardinality(MiSessions) > 0
  /\ Max(MiAmounts) \in Nat /\ \A n \in MiAmounts : n \in Nat /\ n > 0 /\ n <= Max(MiAmounts)
  /\ MilesOver \in Nat
<1>1. IsFiniteSet(MiSessions) /\ Cardinality(MiSessions) \in Nat /\ Cardinality(MiSessions) > 0
  <2>1. Cardinality(MiSessions) # 0
    BY MilesAssumption, FS_EmptySet
  <2> QED
    BY <2>1, MilesAssumption, FS_CardinalityType
<1>2. MiAmounts \subseteq Nat \ {0} /\ IsFiniteSet(MiAmounts) /\ MiAmounts # {}
  BY MilesAssumption
<1>3. Max(MiAmounts) \in MiAmounts /\ \A n \in MiAmounts : n <= Max(MiAmounts)
  <2>1. MiAmounts \subseteq Int
    BY <1>2
  <2> QED
    BY <1>2, <2>1, MaxIs
<1>4. Max(MiAmounts) \in Nat /\ \A n \in MiAmounts : n \in Nat /\ n > 0 /\ n <= Max(MiAmounts)
  <2>1. \A n \in MiAmounts : n \in Nat /\ n # 0
    BY <1>2
  <2>2. \A n \in MiAmounts : n \in Nat /\ n > 0
    BY <2>1
  <2> QED
    BY <1>3, <2>2
<1>5. \A c, m \in Nat : c > 0 => (c - 1) * m \in Nat
  OBVIOUS
<1>6. MiMaxOps \in Nat /\ MiBase \in Nat
  BY MilesAssumption
<1> QED
  BY <1>1, <1>4, <1>5, <1>6 DEF MilesOver

\* The tier of a number of points, and what a booking earns in it.
LEMMA MilesTier ==
  /\ \A points \in Nat : MiTier(points) \in DOMAIN MiLadder
  /\ MiTier(0) = 1
  /\ \A tier \in DOMAIN MiLadder : MiAward(tier) \in Nat
<1>1. /\ MiLadder \in Seq([from : Nat, percent : Nat]) /\ MiLadder # <<>>
      /\ MiLadder[1].from = 0 /\ \A t \in 2..Len(MiLadder) : MiLadder[t].from > 0
  BY MilesAssumption
<1>2. Len(MiLadder) \in Nat /\ Len(MiLadder) > 0 /\ DOMAIN MiLadder = 1..Len(MiLadder)
  BY <1>1
<1>3. \A t \in DOMAIN MiLadder : MiLadder[t].from \in Nat /\ MiLadder[t].percent \in Nat
  <2> DEFINE Rung == [from : Nat, percent : Nat]
  <2>1. \A step \in Rung : step.from \in Nat /\ step.percent \in Nat
    OBVIOUS
  <2>2. MiLadder \in Seq(Rung)
    BY <1>1
  <2> HIDE DEF Rung
  <2>3. \A t \in DOMAIN MiLadder : MiLadder[t] \in Rung
    BY <1>2, <2>2
  <2> QED
    BY <2>1, <2>3
<1>4. ASSUME NEW points \in Nat
      PROVE  /\ MiTier(points) \in DOMAIN MiLadder
             /\ points >= MiLadder[MiTier(points)].from
  <2> DEFINE T == {t \in DOMAIN MiLadder : points >= MiLadder[t].from}
  <2>1. 1 \in T
    BY <1>1, <1>2
  <2>2. IsFiniteSet(T)
    <3>1. IsFiniteSet(1..Len(MiLadder))
      BY <1>2, FS_Interval
    <3> QED
      BY <1>2, <3>1, FS_Subset
  <2>3. T \subseteq Int
    BY <1>2
  <2>4. MiTier(points) = Max(T)
    BY DEF MiTier
  <2>5. Max(T) \in T
    <3> HIDE DEF T
    <3> QED
      BY <2>1, <2>2, <2>3, MaxIs
  <2> QED
    BY <2>4, <2>5
<1>5. MiTier(0) = 1
  <2>1. MiTier(0) \in DOMAIN MiLadder /\ 0 >= MiLadder[MiTier(0)].from
    BY <1>4
  <2> QED
    BY <1>1, <1>2, <1>3, <2>1
<1>6. ASSUME NEW tier \in DOMAIN MiLadder PROVE MiAward(tier) \in Nat
  <2>1. MiBase * MiLadder[tier].percent \in Nat
    BY <1>3, MilesAssumption
  <2>2. \A n \in Nat : n \div 100 \in Nat
    OBVIOUS
  <2> QED
    BY <2>1, <2>2 DEF MiAward
<1> QED
  BY <1>4, <1>5, <1>6

\* The initial account, and the miles a transaction has read.
LEMMA MilesFresh == MiFresh \in MilesRow /\ MiFresh.balance = 0 /\ MiFresh.points = 0 /\ MiFresh.tier = 1
<1>1. 1 \in DOMAIN MiLadder
  BY MilesAssumption
<1> QED
  BY <1>1 DEF MiFresh, MilesRow

LEMMA MilesWeightType ==
  /\ \A req \in MilesCall, what \in MilesSteps :
       MilesWeight(req, what) \in Nat /\ MilesWeight(req, what) <= Max(MiAmounts)
  /\ \A what \in MilesSteps : MilesWeight(MiIdle, what) = 0
  /\ MiIdle \in MilesCall
<1>1. ASSUME NEW req \in MilesCall, NEW what \in MilesSteps
      PROVE  MilesWeight(req, what) \in Nat /\ MilesWeight(req, what) <= Max(MiAmounts)
  <2>1. req.doing = what => req.n \in MiAmounts
    BY DEF MilesCall, MilesSteps, MilesReads
  <2> QED
    BY <2>1, MilesConstants DEF MilesWeight
<1> QED
  BY <1>1 DEF MilesWeight, MilesSteps, MiIdle, MilesCall

LEMMA MilesSumType ==
  ASSUME MilesTyped, NEW what \in MilesSteps
  PROVE  /\ MilesSum(miSession, what) \in Nat
         /\ (\A k \in MiSessions : miSession[k].doing # what) => MilesSum(miSession, what) = 0
<1> DEFINE f == [k \in MiSessions |-> MilesWeight(miSession[k], what)]
<1>1. \A k \in MiSessions : f[k] \in Nat
  BY MilesWeightType DEF MilesTyped
<1>2. (\A k \in MiSessions : miSession[k].doing # what) => \A k \in MiSessions : f[k] = 0
  BY DEF MilesWeight
<1>3. MilesSum(miSession, what) = SumFunctionOnSet(f, MiSessions)
  BY DEF MilesSum
<1> HIDE DEF f
<1> QED
  BY <1>1, <1>2, <1>3, MilesConstants, SumNat, SumZero

\* A session that takes nothing leaves at most its share of the others.
LEMMA MilesOthers ==
  ASSUME MilesTyped, NEW j \in MiSessions, miSession[j].doing # "debit"
  PROVE  MilesSum(miSession, "debit") <= MilesOver
<1> DEFINE f == [k \in MiSessions |-> MilesWeight(miSession[k], "debit")]
<1>1. \A k \in MiSessions : f[k] \in Nat /\ f[k] <= Max(MiAmounts)
  BY MilesWeightType DEF MilesTyped, MilesSteps
<1>2. f[j] = 0
  BY DEF MilesWeight
<1>3. MilesSum(miSession, "debit") = SumFunctionOnSet(f, MiSessions)
  BY DEF MilesSum
<1> HIDE DEF f
<1>4. SumFunctionOnSet(f, MiSessions) = f[j] + SumFunctionOnSet(f, MiSessions \ {j})
  <2>1. \A k \in MiSessions : f[k] \in Int
    BY <1>1
  <2> QED
    BY <2>1, MilesConstants, SumRemove
<1>5. IsFiniteSet(MiSessions \ {j}) /\ Cardinality(MiSessions \ {j}) = Cardinality(MiSessions) - 1
  BY MilesConstants, FS_Subset, FS_RemoveElement
<1>6. SumFunctionOnSet(f, MiSessions \ {j}) <= Cardinality(MiSessions \ {j}) * Max(MiAmounts)
  <2>1. \A k \in MiSessions \ {j} : f[k] \in Nat /\ f[k] <= Max(MiAmounts)
    BY <1>1
  <2> QED
    BY <1>5, <2>1, MilesConstants, SumBound
<1>7. SumFunctionOnSet(f, MiSessions \ {j}) \in Nat
  <2>1. \A k \in MiSessions \ {j} : f[k] \in Nat
    BY <1>1
  <2> QED
    BY <1>5, <2>1, SumNat
<1> QED
  BY <1>2, <1>3, <1>4, <1>5, <1>6, <1>7 DEF MilesOver

\* The sums when one session moves.
LEMMA MilesMove ==
  ASSUME MilesTyped, NEW k \in MiSessions, NEW c \in MilesCall,
         miSession' = [miSession EXCEPT ![k] = c]
  PROVE  /\ miSession' \in [MiSessions -> MilesCall]
         /\ miSession'[k] = c /\ \A j \in MiSessions \ {k} : miSession'[j] = miSession[j]
         /\ \A what \in MilesSteps :
              /\ MilesSum(miSession, what) \in Nat /\ MilesSum(miSession', what) \in Nat
              /\ MilesSum(miSession', what) = MilesSum(miSession, what) + MilesWeight(c, what)
                                     - MilesWeight(miSession[k], what)
<1>1. /\ miSession' \in [MiSessions -> MilesCall] /\ miSession'[k] = c
      /\ \A j \in MiSessions \ {k} : miSession'[j] = miSession[j]
      /\ \A j \in MiSessions : miSession[j] \in MilesCall /\ miSession'[j] \in MilesCall
  BY DEF MilesTyped
<1>2. ASSUME NEW what \in MilesSteps
      PROVE  /\ MilesSum(miSession, what) \in Nat /\ MilesSum(miSession', what) \in Nat
             /\ MilesSum(miSession', what) = MilesSum(miSession, what) + MilesWeight(c, what)
                                    - MilesWeight(miSession[k], what)
  <2> DEFINE f == [j \in MiSessions |-> MilesWeight(miSession[j], what)]
             g == [j \in MiSessions |-> MilesWeight(miSession'[j], what)]
  <2>1. \A j \in MiSessions : f[j] \in Nat /\ g[j] \in Nat
    BY <1>1, MilesWeightType
  <2>2. \A j \in MiSessions \ {k} : g[j] = f[j]
    BY <1>1
  <2>3. g[k] = MilesWeight(c, what) /\ f[k] = MilesWeight(miSession[k], what)
    BY <1>1
  <2>4. MilesSum(miSession, what) = SumFunctionOnSet(f, MiSessions)
    BY DEF MilesSum
  <2>5. MilesSum(miSession', what) = SumFunctionOnSet(g, MiSessions)
    BY DEF MilesSum, MilesWeight
  <2> HIDE DEF f, g
  <2>6. \A j \in MiSessions : f[j] \in Int /\ g[j] \in Int
    BY <2>1
  <2>7. SumFunctionOnSet(g, MiSessions) = SumFunctionOnSet(f, MiSessions) + g[k] - f[k]
    BY <2>2, <2>6, MilesConstants, SumChange
  <2>8. SumFunctionOnSet(g, MiSessions) \in Nat /\ SumFunctionOnSet(f, MiSessions) \in Nat
    BY <2>1, MilesConstants, SumNat
  <2> QED
    BY <2>3, <2>4, <2>5, <2>7, <2>8
<1> QED
  BY <1>1, <1>2

LEMMA MilesInvImplies ==
  ASSUME MilesInv
  PROVE  MITypeOK /\ MILogExplains /\ MIPoolConserves
<1>1. MilesTyped /\ MilesLogInv /\ MilesPoolInv /\ MilesDueInv
  BY DEF MilesInv
<1>2. \A what \in MilesSteps : MilesSum(miSession, what) \in Nat
  BY <1>1, MilesSumType
<1>3. MITypeOK
  BY <1>1 DEF MilesTyped, MilesRow, MITypeOK
<1>4. MILogExplains
  <2>1. miAccount.points \in Nat
    BY <1>1 DEF MilesTyped, MilesRow
  <2>2. \A t \in DOMAIN MiLadder : miAccount.points >= MiLadder[t].from
                                   <=> MiLadder[t].from <= miAccount.points
    OBVIOUS
  <2>3. {t \in DOMAIN MiLadder : miAccount.points >= MiLadder[t].from}
          = {t \in DOMAIN MiLadder : MiLadder[t].from <= miAccount.points}
    BY <2>2
  <2> QED
    BY <1>1, <2>3 DEF MilesLogInv, MiTier, MILogExplains
<1>5. MIPoolConserves
  <2>1. /\ miPool.group \in Nat /\ miPool.member \in Nat /\ miPool.rows \in {1, 2}
        /\ miDebited \in Nat /\ miAccount.balance \in Int
    BY <1>1 DEF MilesTyped, MilesRow
  <2>2. MilesSum(miSession, "debit") \in Nat /\ MilesSum(miSession, "credit") \in Nat /\ MilesSum(miSession, "pool") \in Nat
    BY <1>2 DEF MilesSteps
  <2>3. miPool.group <= miPool.member
    BY <1>1, <2>1, <2>2 DEF MilesPoolInv
  <2>4. miPool.member <= miPool.rows * miDebited
    <3>1. miPool.member + miPool.rows * MilesSum(miSession, "credit") <= miPool.rows * miDebited
      BY <1>1 DEF MilesPoolInv
    <3>2. CASE miPool.rows = 1
      BY <2>1, <2>2, <3>1, <3>2
    <3>3. CASE miPool.rows = 2
      BY <2>1, <2>2, <3>1, <3>3
    <3> QED
      BY <2>1, <3>2, <3>3
  <2>5. ASSUME ~miBroken, \A k \in MiSessions : miSession[k].doing \notin {"credit", "pool"}
        PROVE  miPool.group = miDebited
    <3>1. MilesSum(miSession, "credit") = 0 /\ MilesSum(miSession, "pool") = 0
      BY <1>1, <2>5, MilesSumType DEF MilesSteps
    <3> QED
      BY <1>1, <2>1, <2>5, <3>1 DEF MilesPoolInv
  <2>6. ASSUME ~miStale PROVE miAccount.balance >= -MilesOver
    <3>1. miAccount.balance - MilesSum(miSession, "debit") >= -MilesOver
      BY <1>1, <2>6 DEF MilesDueInv
    <3> QED
      BY <2>1, <2>2, <3>1, MilesConstants
  <2> QED
    BY <2>3, <2>4, <2>5, <2>6 DEF MIPoolConserves, MilesOver
<1> QED
  BY <1>3, <1>4, <1>5

LEMMA MilesInit == MIInit => MilesInv
<1> SUFFICES ASSUME MIInit PROVE MilesInv
  OBVIOUS
<1>1. /\ miAccount = MiFresh /\ miFirst = [b \in MiBookings |-> <<>>]
      /\ miLapsed = 0 /\ miLive = 0 /\ miLogged = 0
      /\ miPool = [member |-> 0, group |-> 0, rows |-> 1]
      /\ miSession = [k \in MiSessions |-> MiIdle] /\ miOps = 0
      /\ miStale = FALSE /\ miUnpaid = 0 /\ miDebited = 0
      /\ miExpired = [miles |-> 0, runs |-> 0] /\ miBroken = FALSE
  BY DEF MIInit
<1>2. MilesTyped
  <2>1. <<>> \in Seq(MilesBooked)
    OBVIOUS
  <2>2. miFirst \in [MiBookings -> Seq(MilesBooked)]
    BY <1>1, <2>1
  <2>3. miSession \in [MiSessions -> MilesCall]
    BY <1>1, MilesWeightType
  <2>4. miPool \in [member : Nat, group : Nat, rows : {1, 2}]
        /\ miExpired \in [miles : Nat, runs : Nat]
    BY <1>1
  <2>5. miStale \in BOOLEAN /\ miBroken \in BOOLEAN
    BY <1>1
  <2>6. miAccount \in MilesRow
    BY <1>1, MilesFresh
  <2>7. miOps \in 0..MiMaxOps /\ miLapsed \in Nat /\ miLive \in Nat /\ miLogged \in Int
        /\ miUnpaid \in Int /\ miDebited \in Nat
    BY <1>1, MilesConstants
  <2> QED
    BY <2>2, <2>3, <2>4, <2>5, <2>6, <2>7 DEF MilesTyped
<1>3. \A k \in MiSessions : miSession[k].doing = "idle"
  BY <1>1 DEF MiIdle
<1>4. MilesSum(miSession, "debit") = 0 /\ MilesSum(miSession, "credit") = 0 /\ MilesSum(miSession, "pool") = 0
  BY <1>2, <1>3, MilesSumType DEF MilesSteps
<1>5. MilesCallInv
  BY <1>3 DEF MilesCallInv, MilesCallOK
<1>6. MilesLogInv
  BY <1>1, MilesFresh, MilesTier DEF MilesLogInv
<1>7. MilesPoolInv
  BY <1>1, <1>4 DEF MilesPoolInv
<1>8. MilesDueInv
  BY <1>1, <1>4, MilesFresh, MilesConstants DEF MilesDueInv
<1> QED
  BY <1>2, <1>5, <1>6, <1>7, <1>8 DEF MilesInv

(***************************************************************************)
(* The steps                                                               *)
(***************************************************************************)
\* The calls under way keep what they know of the account they have read.
LEMMA MilesCalls ==
  ASSUME MilesTyped, MilesCallInv, NEW k \in MiSessions, NEW c \in MilesCall,
         miSession' = [miSession EXCEPT ![k] = c], miLapsed' >= miLapsed,
         miLapsed' \in Nat, MilesCallOK(c, miLapsed')
  PROVE  MilesCallInv'
<1>1. ASSUME NEW j \in MiSessions PROVE MilesCallOK(miSession'[j], miLapsed')
  <2>1. CASE j = k
    <3>1. miSession'[j] = c
      BY <2>1, MilesMove
    <3> QED
      BY <3>1
  <2>2. CASE j # k
    <3>1. miSession'[j] = miSession[j] /\ miSession[j] \in MilesCall
      BY <2>2, MilesMove DEF MilesTyped
    <3>2. MilesCallOK(miSession[j], miLapsed)
      BY DEF MilesCallInv
    <3>3. miSession[j].doing = "expire" => miSession[j].n \in Nat
      BY <3>1 DEF MilesCall, MilesReads
    <3>4. miLapsed \in Nat
      BY DEF MilesTyped
    <3>5. miSession[j].doing = "expire" => miSession[j].n <= miLapsed'
      BY <3>2, <3>3, <3>4 DEF MilesCallOK
    <3> QED
      BY <3>1, <3>2, <3>5 DEF MilesCallOK
  <2> QED
    BY <2>1, <2>2
<1> QED
  BY <1>1 DEF MilesCallInv

\* What a session weighs is what the sums change by.
LEMMA MilesMoveSums ==
  ASSUME MilesTyped, NEW k \in MiSessions, NEW c \in MilesCall,
         miSession' = [miSession EXCEPT ![k] = c]
  PROVE  \A what \in MilesSteps :
           /\ MilesSum(miSession, what) \in Nat
           /\ MilesSum(miSession', what) = MilesSum(miSession, what) + MilesWeight(c, what)
                                            - MilesWeight(miSession[k], what)
BY MilesMove

\* A session that was idle starts a call.
LEMMA MilesStarts ==
  ASSUME MilesInv, NEW k \in MiSessions, NEW c \in MilesCall,
         MiStart(k, c),
         UNCHANGED <<miAccount, miFirst, miLapsed, miLive, miLogged, miPool,
                     miStale, miUnpaid, miDebited, miExpired, miBroken>>,
         MilesCallOK(c, miLapsed), c.doing \notin {"credit", "pool"},
         c.doing = "debit" => miAccount.balance >= c.n
  PROVE  MilesInv'
<1>1. MilesTyped /\ MilesCallInv /\ MilesLogInv /\ MilesPoolInv /\ MilesDueInv
  BY DEF MilesInv
<1>2. /\ miAccount' = miAccount /\ miFirst' = miFirst /\ miLapsed' = miLapsed
      /\ miLive' = miLive /\ miLogged' = miLogged /\ miPool' = miPool /\ miStale' = miStale
      /\ miUnpaid' = miUnpaid /\ miDebited' = miDebited /\ miExpired' = miExpired
      /\ miBroken' = miBroken
  OBVIOUS
<1>3. /\ miSession' = [miSession EXCEPT ![k] = c] /\ miSession[k].doing = "idle"
      /\ miOps < MiMaxOps /\ miOps' = miOps + 1
  BY DEF MiStart, MiSet, MiDoing
<1>4. \A what \in MilesSteps : MilesWeight(miSession[k], what) = 0
  BY <1>3 DEF MilesWeight, MilesSteps
<1>5. MilesWeight(c, "credit") = 0 /\ MilesWeight(c, "pool") = 0
  BY DEF MilesWeight
<1>6. /\ MilesSum(miSession, "debit") \in Nat /\ MilesSum(miSession, "credit") \in Nat /\ MilesSum(miSession, "pool") \in Nat
      /\ MilesSum(miSession', "debit") = MilesSum(miSession, "debit") + MilesWeight(c, "debit")
      /\ MilesWeight(c, "debit") \in Nat
      /\ MilesSum(miSession', "credit") = MilesSum(miSession, "credit") /\ MilesSum(miSession', "pool") = MilesSum(miSession, "pool")
  <2>0. \A what \in MilesSteps :
          /\ MilesSum(miSession, what) \in Nat
          /\ MilesSum(miSession', what) = MilesSum(miSession, what) + MilesWeight(c, what)
                                           - MilesWeight(miSession[k], what)
    BY <1>1, <1>3, MilesMoveSums
  <2>1. ASSUME NEW what \in MilesSteps
        PROVE  /\ MilesSum(miSession, what) \in Nat /\ MilesWeight(c, what) \in Nat
               /\ MilesSum(miSession', what) = MilesSum(miSession, what) + MilesWeight(c, what)
    <3>1. /\ MilesSum(miSession, what) \in Nat
          /\ MilesSum(miSession', what) = MilesSum(miSession, what) + MilesWeight(c, what)
                                           - MilesWeight(miSession[k], what)
      BY <2>0
    <3>2. MilesWeight(c, what) \in Nat
      BY MilesWeightType
    <3> QED
      BY <1>4, <3>1, <3>2
  <2>2. "debit" \in MilesSteps /\ "credit" \in MilesSteps /\ "pool" \in MilesSteps
    BY DEF MilesSteps
  <2> QED
    BY <1>5, <2>1, <2>2
<1>7. MilesTyped'
  <2>1. miSession' \in [MiSessions -> MilesCall]
    BY <1>1, <1>3, MilesMove
  <2>2. miOps' \in 0..MiMaxOps
    BY <1>1, <1>3, MilesConstants DEF MilesTyped
  <2> QED
    BY <1>1, <1>2, <2>1, <2>2 DEF MilesTyped
<1>8. MilesCallInv'
  <2>1. miLapsed \in Nat
    BY <1>1 DEF MilesTyped
  <2>2. MilesCallOK(c, miLapsed')
    BY <1>2 DEF MilesCallOK
  <2>3. miLapsed' >= miLapsed /\ miLapsed' \in Nat
    BY <1>2, <2>1
  <2>4. miSession' = [miSession EXCEPT ![k] = c]
    BY <1>3
  <2> QED
    BY <1>1, <2>2, <2>3, <2>4, MilesCalls
<1>9. MilesLogInv'
  BY <1>1, <1>2 DEF MilesLogInv
<1>10. MilesPoolInv'
  BY <1>1, <1>2, <1>6 DEF MilesPoolInv
<1>11. MilesDueInv'
  <2>1. CASE c.doing = "debit"
    <3>1. MilesWeight(c, "debit") = c.n
      BY <2>1 DEF MilesWeight
    <3>2. miAccount.balance >= c.n /\ miAccount.balance \in Int
      BY <1>1, <2>1 DEF MilesTyped, MilesRow
    <3>3. MilesSum(miSession, "debit") <= MilesOver
      BY <1>1, <1>3, MilesOthers
    <3>4. miAccount.balance - (MilesSum(miSession, "debit") + MilesWeight(c, "debit")) >= -MilesOver
      BY <1>6, <3>1, <3>2, <3>3, MilesConstants
    <3>5. MilesOver' = MilesOver
      BY DEF MilesOver
    <3> QED
      BY <1>2, <1>6, <3>4, <3>5 DEF MilesDueInv
  <2>2. CASE c.doing # "debit"
    <3>1. MilesSum(miSession', "debit") = MilesSum(miSession, "debit")
      BY <1>6, <2>2 DEF MilesWeight
    <3>2. MilesOver' = MilesOver
      BY DEF MilesOver
    <3> QED
      BY <1>1, <1>2, <3>1, <3>2 DEF MilesDueInv
  <2> QED
    BY <2>1, <2>2
<1> QED
  BY <1>7, <1>8, <1>9, <1>10, <1>11 DEF MilesInv

\* A transaction commits: the account it writes is of its tier, and if the
\* account was still the one it had read, the log says what changed and the
\* balance is no less than it was, or at least nothing is missing from it.
LEMMA MilesCommits ==
  ASSUME MilesInv, NEW k \in MiSessions, miSession[k].doing \in MilesReads,
         NEW account \in MilesRow, NEW booked \in MilesBooked \cup {MiNone},
         NEW logged \in Int, NEW earns \in Nat,
         MiWrite(k, account, booked, logged, earns), miUnpaid' \in Int,
         account.tier = MiTier(account.points),
         miAccount = miSession[k].seen =>
           /\ account.balance = miAccount.balance + logged + miUnpaid' - miUnpaid
           /\ account.balance >= 0 \/ account.balance >= miAccount.balance
  PROVE  MilesInv'
<1> DEFINE req == miSession[k]
<1>1. MilesTyped /\ MilesCallInv /\ MilesLogInv /\ MilesPoolInv /\ MilesDueInv
  BY DEF MilesInv
<1>2. /\ miAccount' = account /\ miLogged' = miLogged + logged /\ miLive' = miLive + earns
      /\ miFirst' = IF booked = MiNone \/ miFirst[req.booking] # <<>> THEN miFirst
                    ELSE [miFirst EXCEPT ![req.booking] = <<booked>>]
      /\ miStale' = (miStale \/ miAccount # req.seen)
      /\ miSession' = [miSession EXCEPT ![k] = MiIdle]
      /\ miLapsed' = miLapsed /\ miPool' = miPool /\ miOps' = miOps
      /\ miDebited' = miDebited /\ miExpired' = miExpired /\ miBroken' = miBroken
  BY DEF MiWrite, MiSet
<1>3. req \in MilesCall /\ req.doing \in MilesReads
  BY <1>1 DEF MilesTyped
<1>4. \A what \in MilesSteps : MilesWeight(req, what) = 0
  BY <1>3 DEF MilesWeight, MilesSteps, MilesReads
<1>5. PICK idle \in MilesCall :
        idle = MiIdle /\ \A what \in MilesSteps : MilesWeight(idle, what) = 0
  BY MilesWeightType
<1>14. /\ miSession' = [miSession EXCEPT ![k] = idle] /\ miLapsed' = miLapsed
       /\ miPool' = miPool /\ miDebited' = miDebited /\ miBroken' = miBroken
  BY <1>2, <1>5
<1>6. /\ MilesSum(miSession, "debit") \in Nat
      /\ MilesSum(miSession', "debit") = MilesSum(miSession, "debit") /\ MilesSum(miSession', "credit") = MilesSum(miSession, "credit")
      /\ MilesSum(miSession', "pool") = MilesSum(miSession, "pool")
  <2>1. ASSUME NEW what \in MilesSteps
        PROVE  /\ MilesSum(miSession, what) \in Nat
               /\ MilesSum(miSession', what) = MilesSum(miSession, what)
    <3>1. /\ MilesSum(miSession, what) \in Nat
          /\ MilesSum(miSession', what) = MilesSum(miSession, what) + MilesWeight(idle, what)
                                           - MilesWeight(miSession[k], what)
      BY <1>1, <1>14, MilesMove
    <3>2. MilesWeight(idle, what) = 0 /\ MilesWeight(miSession[k], what) = 0
      BY <1>4, <1>5
    <3> QED
      BY <3>1, <3>2
  <2> QED
    BY <2>1 DEF MilesSteps
<1>7. MilesTyped'
  <2>1. miSession' \in [MiSessions -> MilesCall]
    BY <1>1, <1>14, MilesMove
  <2>2. miFirst' \in [MiBookings -> Seq(MilesBooked)]
    <3>1. MiNone \in MilesBooked
      BY DEF MiNone, MilesBooked
    <3>2. <<booked>> \in Seq(MilesBooked)
      BY <3>1
    <3>3. miFirst \in [MiBookings -> Seq(MilesBooked)]
      BY <1>1 DEF MilesTyped
    <3> QED
      BY <1>2, <3>2, <3>3
  <2>3. miLogged' \in Int /\ miLive' \in Nat
    BY <1>1, <1>2 DEF MilesTyped
  <2>4. miStale' \in BOOLEAN
    BY <1>2
  <2> QED
    BY <1>1, <1>2, <2>1, <2>2, <2>3, <2>4 DEF MilesTyped
<1>8. MilesCallInv'
  <2>1. miLapsed \in Nat
    BY <1>1 DEF MilesTyped
  <2>2. MilesCallOK(idle, miLapsed')
    BY <1>5 DEF MilesCallOK, MiIdle
  <2>3. miLapsed' >= miLapsed /\ miLapsed' \in Nat
    BY <1>14, <2>1
  <2> QED
    BY <1>1, <1>14, <2>2, <2>3, MilesCalls
<1>9. miLogged \in Int /\ miDebited \in Nat /\ miUnpaid \in Int
      /\ miAccount.balance \in Int /\ account.balance \in Int
  BY <1>1 DEF MilesTyped, MilesRow
<1>10. ~miStale' => ~miStale /\ miAccount = req.seen
  BY <1>2
<1>11. MilesLogInv'
  <2>1. ASSUME ~miStale'
        PROVE  account.balance = miLogged + logged - miDebited + miUnpaid'
    <3>1. miAccount.balance = miLogged - miDebited + miUnpaid
      BY <1>1, <1>10, <2>1 DEF MilesLogInv
    <3> QED
      BY <1>9, <1>10, <2>1, <3>1
  <2>2. miAccount'.tier = MiTier(miAccount'.points)
    BY <1>2
  <2>3. /\ miLogged' = miLogged + logged /\ miDebited' = miDebited /\ miExpired' = miExpired
        /\ miLapsed' = miLapsed /\ miAccount' = account
    BY <1>2
  <2>4. miExpired.miles <= miExpired.runs * miLapsed
    BY <1>1 DEF MilesLogInv
  <2>5. ASSUME ~miStale' PROVE miAccount'.balance = miLogged' - miDebited' + miUnpaid'
    <3>1. account.balance = miLogged + logged - miDebited + miUnpaid'
      BY <2>1, <2>5
    <3>2. miAccount'.balance = account.balance
      BY <2>3
    <3>3. miLogged' = miLogged + logged /\ miDebited' = miDebited
      BY <2>3
    <3> QED
      BY <1>9, <3>1, <3>2, <3>3
  <2>6. miExpired'.miles <= miExpired'.runs * miLapsed'
    BY <2>3, <2>4
  <2> QED
    BY <2>2, <2>5, <2>6 DEF MilesLogInv
<1>12. MilesPoolInv'
  BY <1>1, <1>6, <1>14 DEF MilesPoolInv
<1>13. MilesDueInv'
  <2>1. ASSUME ~miStale' PROVE account.balance - MilesSum(miSession, "debit") >= -MilesOver
    <3>1. miAccount.balance - MilesSum(miSession, "debit") >= -MilesOver
      BY <1>1, <1>10, <2>1 DEF MilesDueInv
    <3>2. MilesSum(miSession, "debit") <= MilesOver
      <4>1. req.doing # "debit"
        BY <1>3 DEF MilesReads
      <4> QED
        BY <1>1, <4>1, MilesOthers
    <3> QED
      BY <1>6, <1>9, <1>10, <2>1, <3>1, <3>2, MilesConstants
  <2>2. MilesOver' = MilesOver
    BY DEF MilesOver
  <2> QED
    BY <1>2, <1>6, <2>1, <2>2 DEF MilesDueInv
<1> QED
  BY <1>7, <1>8, <1>11, <1>12, <1>13 DEF MilesInv

LEMMA MilesRead ==
  ASSUME MilesInv, NEW k \in MiSessions, NEW op \in MilesReads, NEW b \in MiBookings,
         NEW n \in Nat, MiRead(k, op, b, n), op = "redeem" => miAccount.balance >= n
  PROVE  MilesInv'
<1> DEFINE c == [doing |-> op, booking |-> b, n |-> n, seen |-> miAccount]
<1>1. miAccount \in MilesRow
  BY DEF MilesInv, MilesTyped
<1>2. c \in MilesCall /\ c.doing = op /\ c.n = n /\ c.seen = miAccount
  BY <1>1 DEF MilesCall
<1>3. /\ MiStart(k, c)
      /\ UNCHANGED <<miAccount, miFirst, miLapsed, miLive, miLogged, miPool,
                     miStale, miUnpaid, miDebited, miExpired, miBroken>>
  BY DEF MiRead
<1> HIDE DEF c
<1>4. MilesCallOK(c, miLapsed)
  BY <1>2 DEF MilesCallOK, MilesReads
<1>5. c.doing \notin {"credit", "pool"} /\ c.doing # "debit"
  BY <1>2 DEF MilesReads
<1> QED
  BY <1>2, <1>3, <1>4, <1>5, MilesStarts

LEMMA MilesReadReverse ==
  ASSUME MilesInv, NEW k \in MiSessions, NEW b \in MiBookings, MIReadToReverse(k, b)
  PROVE  MilesInv'
<1>1. miFirst[b] \in Seq(MilesBooked) /\ miFirst[b] # <<>>
  BY DEF MilesInv, MilesTyped, MIReadToReverse
<1>2. Head(miFirst[b]) \in MilesBooked
  BY <1>1
<1>3. Head(miFirst[b]).miles \in Nat
  BY <1>2 DEF MilesBooked
<1>4. MiRead(k, "reverse", b, Head(miFirst[b]).miles)
  BY DEF MIReadToReverse
<1>5. PICK n \in Nat : n = Head(miFirst[b]).miles
  BY <1>3
<1>6. PICK op \in MilesReads : op = "reverse"
  BY DEF MilesReads
<1>7. MiRead(k, op, b, n) /\ op # "redeem"
  BY <1>4, <1>5, <1>6
<1> QED
  BY <1>7, MilesRead

LEMMA MilesReadExpire ==
  ASSUME MilesInv, NEW k \in MiSessions, MIReadToExpire(k)
  PROVE  MilesInv'
<1> DEFINE c == [doing |-> "expire", n |-> MiExpirable, seen |-> miAccount]
<1>1. miAccount \in MilesRow /\ miLapsed \in Nat
  BY DEF MilesInv, MilesTyped
<1>2. miAccount.balance \in Int /\ miAccount.balance > 0 /\ miLapsed > 0
  BY <1>1 DEF MIReadToExpire, MilesRow
<1>3. MiExpirable \in Nat /\ MiExpirable <= miLapsed /\ MiExpirable <= miAccount.balance
  BY <1>1, <1>2, MinOfTwo DEF MiExpirable
<1>4. c \in MilesCall /\ c.doing = "expire" /\ c.n = MiExpirable /\ c.seen = miAccount
  BY <1>1, <1>3 DEF MilesCall
<1>5. /\ MiStart(k, c)
      /\ UNCHANGED <<miAccount, miFirst, miLapsed, miLive, miLogged, miPool,
                     miStale, miUnpaid, miDebited, miExpired, miBroken>>
  BY DEF MIReadToExpire
<1> HIDE DEF c
<1>6. MilesCallOK(c, miLapsed)
  BY <1>3, <1>4 DEF MilesCallOK
<1> QED
  BY <1>4, <1>5, <1>6, MilesStarts

LEMMA MilesCheck ==
  ASSUME MilesInv, NEW k \in MiSessions, NEW n \in MiAmounts, MICheckMiles(k, n)
  PROVE  MilesInv'
<1> DEFINE c == [doing |-> "debit", n |-> n]
<1>1. c \in MilesCall /\ c.doing = "debit" /\ c.n = n
  BY DEF MilesCall
<1>2. /\ MiStart(k, c) /\ miAccount.balance >= n
      /\ UNCHANGED <<miAccount, miFirst, miLapsed, miLive, miLogged, miPool,
                     miStale, miUnpaid, miDebited, miExpired, miBroken>>
  BY DEF MICheckMiles
<1> HIDE DEF c
<1>3. MilesCallOK(c, miLapsed)
  BY <1>1 DEF MilesCallOK
<1> QED
  BY <1>1, <1>2, <1>3, MilesStarts

\* A call that has read the account.
LEMMA MilesSeen ==
  ASSUME MilesInv, NEW k \in MiSessions, miSession[k].doing \in MilesReads
  PROVE  /\ miSession[k].seen \in MilesRow /\ miSession[k].n \in Nat
         /\ miSession[k].booking \in MiBookings
         /\ miSession[k].seen.balance \in Int /\ miSession[k].seen.earned \in Nat
         /\ miSession[k].seen.points \in Nat /\ miSession[k].seen.tier \in DOMAIN MiLadder
         /\ miAccount \in MilesRow /\ miAccount.tier = MiTier(miAccount.points)
         /\ miAccount.balance \in Int /\ miUnpaid \in Int
<1>1. miSession[k] \in MilesCall /\ miAccount \in MilesRow /\ miUnpaid \in Int
  BY DEF MilesInv, MilesTyped
<1>2. miSession[k] \in [doing : MilesReads, booking : MiBookings, n : Nat, seen : MilesRow]
  BY <1>1 DEF MilesCall, MilesReads
<1>3. \A row \in MilesRow : row.balance \in Int /\ row.earned \in Nat /\ row.points \in Nat
                            /\ row.tier \in DOMAIN MiLadder
  BY DEF MilesRow
<1>4. miAccount.tier = MiTier(miAccount.points)
  BY DEF MilesInv, MilesLogInv
<1>5. /\ miSession[k].seen \in MilesRow /\ miSession[k].n \in Nat
      /\ miSession[k].booking \in MiBookings
  BY <1>2
<1> QED
  BY <1>1, <1>3, <1>4, <1>5

LEMMA MilesAward ==
  ASSUME MilesInv, NEW k \in MiSessions, MIAward(k)
  PROVE  MilesInv'
<1> DEFINE seen == miSession[k].seen
           miles == MiAward(seen.tier)
           points == seen.points + MiBase
           account == [balance |-> seen.balance + miles, earned |-> MiTotal(seen, miles),
                       points |-> points, tier |-> MiTier(points)]
           booked == [earn |-> TRUE, miles |-> miles]
<1>1. miSession[k].doing \in MilesReads /\ MiWrite(k, account, booked, miles, miles)
      /\ miUnpaid' = miUnpaid
  BY DEF MIAward, MiDoing, MilesReads
<1>2. seen.balance \in Int /\ seen.earned \in Nat /\ seen.points \in Nat
      /\ seen.tier \in DOMAIN MiLadder /\ miUnpaid \in Int /\ miAccount.balance \in Int
  BY <1>1, MilesSeen
<1>3. miles \in Nat /\ points \in Nat
  <2>1. miles \in Nat
    BY <1>2, MilesTier
  <2>2. points \in Nat
    BY <1>2, MilesConstants
  <2> QED
    BY <2>1, <2>2
<1>4. account \in MilesRow
  <2>1. MiTier(points) \in DOMAIN MiLadder
    BY <1>3, MilesTier
  <2>2. seen.balance + miles \in Int /\ MiTotal(seen, miles) \in Nat
    BY <1>2, <1>3 DEF MiTotal
  <2> HIDE DEF miles, points
  <2> QED
    BY <1>3, <2>1, <2>2 DEF MilesRow
<1>5. account.tier = MiTier(account.points) /\ account.balance = seen.balance + miles
  OBVIOUS
<1>6. booked \in MilesBooked
  BY <1>3 DEF MilesBooked
<1>7. miAccount = seen => miAccount.balance = seen.balance
  OBVIOUS
<1> HIDE DEF booked, account, miles, points
<1>8. miAccount = seen =>
        /\ account.balance = miAccount.balance + miles + miUnpaid' - miUnpaid
        /\ account.balance >= miAccount.balance
  BY <1>1, <1>2, <1>3, <1>5, <1>7
<1>9. PICK n \in Nat : n = miles
  BY <1>3
<1> QED
  BY <1>1, <1>2, <1>4, <1>5, <1>6, <1>8, <1>9, MilesCommits

LEMMA MilesBonus ==
  ASSUME MilesInv, NEW k \in MiSessions, MIBonus(k)
  PROVE  MilesInv'
<1> DEFINE s == miSession[k]
           account == [miAccount EXCEPT !.balance = s.seen.balance + s.n,
                                        !.earned = MiTotal(s.seen, s.n)]
<1>1. s.doing \in MilesReads /\ MiWrite(k, account, MiNone, s.n, 0) /\ miUnpaid' = miUnpaid
  BY DEF MIBonus, MiDoing, MilesReads
<1>2. /\ s.seen.balance \in Int /\ s.seen.earned \in Nat /\ s.n \in Nat /\ miUnpaid \in Int
      /\ miAccount \in MilesRow /\ miAccount.tier = MiTier(miAccount.points)
      /\ miAccount.balance \in Int
  BY <1>1, MilesSeen
<1>3. s.seen.balance + s.n \in Int /\ MiTotal(s.seen, s.n) \in Nat
  BY <1>2 DEF MiTotal
<1>4. /\ account \in MilesRow /\ account.balance = s.seen.balance + s.n
      /\ account.points = miAccount.points /\ account.tier = miAccount.tier
  BY <1>2, <1>3 DEF MilesRow
<1>5. miAccount = s.seen => miAccount.balance = s.seen.balance
  OBVIOUS
<1> HIDE DEF account
<1>6. miAccount = s.seen =>
        /\ account.balance = miAccount.balance + s.n + miUnpaid' - miUnpaid
        /\ account.balance >= miAccount.balance
  BY <1>1, <1>2, <1>4, <1>5
<1>7. account.tier = MiTier(account.points)
  BY <1>2, <1>4
<1>8. PICK n \in Int : n = s.n
  BY <1>2
<1>9. PICK booked \in MilesBooked \cup {MiNone} : booked = MiNone
  OBVIOUS
<1>10. MiWrite(k, account, booked, n, 0)
  BY <1>1, <1>8, <1>9
<1>11. miUnpaid' \in Int /\ (miAccount = s.seen =>
          /\ account.balance = miAccount.balance + n + miUnpaid' - miUnpaid
          /\ account.balance >= miAccount.balance)
  BY <1>1, <1>2, <1>6, <1>8
<1> QED
  BY <1>1, <1>4, <1>7, <1>10, <1>11, MilesCommits

LEMMA MilesRedeem ==
  ASSUME MilesInv, NEW k \in MiSessions, MIRedeem(k)
  PROVE  MilesInv'
<1> DEFINE s == miSession[k]
           account == [miAccount EXCEPT !.balance = s.seen.balance - s.n]
           row == [earn |-> FALSE, miles |-> s.n]
<1>1. s.doing \in MilesReads /\ MiWrite(k, account, row, -s.n, 0) /\ miUnpaid' = miUnpaid
      /\ s.doing = "redeem"
  BY DEF MIRedeem, MiDoing, MilesReads
<1>2. /\ s.seen.balance \in Int /\ s.n \in Nat /\ miUnpaid \in Int
      /\ miAccount \in MilesRow /\ miAccount.tier = MiTier(miAccount.points)
      /\ miAccount.balance \in Int
  BY <1>1, MilesSeen
<1>3. s.seen.balance >= s.n
  BY <1>1 DEF MilesInv, MilesCallInv, MilesCallOK
<1>4. s.seen.balance - s.n \in Int
  BY <1>2
<1>5. /\ account \in MilesRow /\ account.balance = s.seen.balance - s.n
      /\ account.points = miAccount.points /\ account.tier = miAccount.tier
  BY <1>2, <1>4 DEF MilesRow
<1>6. row \in MilesBooked
  BY <1>2 DEF MilesBooked
<1>7. miAccount = s.seen => miAccount.balance = s.seen.balance
  OBVIOUS
<1> HIDE DEF account, row
<1>8. PICK n \in Int : n = -s.n
  BY <1>2
<1>9. miAccount = s.seen =>
        /\ account.balance = miAccount.balance + n + miUnpaid' - miUnpaid
        /\ account.balance >= 0
  BY <1>1, <1>2, <1>3, <1>5, <1>7, <1>8
<1>10. account.tier = MiTier(account.points)
  BY <1>2, <1>5
<1>11. PICK booked \in MilesBooked \cup {MiNone} : booked = row
  BY <1>6
<1>12. MiWrite(k, account, booked, n, 0)
  BY <1>1, <1>8, <1>11
<1> QED
  BY <1>1, <1>2, <1>5, <1>9, <1>10, <1>12, MilesCommits

LEMMA MilesReverse ==
  ASSUME MilesInv, NEW k \in MiSessions, MIReverse(k)
  PROVE  MilesInv'
<1> DEFINE s == miSession[k]
           account == [miAccount EXCEPT !.balance = MiReversed(s)]
<1>1. /\ s.doing \in MilesReads /\ MiWrite(k, account, MiNone, -s.n, 0)
      /\ miUnpaid' = miUnpaid + MiReversed(s) - (s.seen.balance - s.n)
  BY DEF MIReverse, MiDoing, MilesReads
<1>2. /\ s.seen.balance \in Int /\ s.n \in Nat /\ miUnpaid \in Int
      /\ miAccount \in MilesRow /\ miAccount.tier = MiTier(miAccount.points)
      /\ miAccount.balance \in Int
  BY <1>1, MilesSeen
<1>3. MiReversed(s) \in Nat
  <2>1. PICK x \in Int : x = s.seen.balance - s.n
    BY <1>2
  <2>2. MiReversed(s) = Max({0, x})
    BY <2>1 DEF MiReversed
  <2>3. Max({0, x}) = IF 0 <= x THEN x ELSE 0
    BY MaxOfTwo
  <2> QED
    BY <2>2, <2>3
<1>4. /\ account \in MilesRow /\ account.balance = MiReversed(s)
      /\ account.points = miAccount.points /\ account.tier = miAccount.tier
  BY <1>2, <1>3 DEF MilesRow
<1>5. miAccount = s.seen => miAccount.balance = s.seen.balance
  OBVIOUS
<1> HIDE DEF account
<1>6. PICK n \in Int : n = -s.n
  BY <1>2
<1>7. miUnpaid' \in Int
  BY <1>1, <1>2, <1>3
<1>8. miAccount = s.seen =>
        /\ account.balance = miAccount.balance + n + miUnpaid' - miUnpaid
        /\ account.balance >= 0
  BY <1>1, <1>2, <1>3, <1>4, <1>5, <1>6
<1>9. account.tier = MiTier(account.points)
  BY <1>2, <1>4
<1>10. PICK booked \in MilesBooked \cup {MiNone} : booked = MiNone
  OBVIOUS
<1>11. MiWrite(k, account, booked, n, 0)
  BY <1>1, <1>6, <1>10
<1> QED
  BY <1>1, <1>4, <1>7, <1>8, <1>9, <1>11, MilesCommits

\* Products of natural numbers.
LEMMA MilesProducts ==
  /\ \A r, l, m \in Nat : l <= m => r * l <= r * m
  /\ \A r, l \in Nat : (r + 1) * l = r * l + l /\ r * l \in Nat
<1>1. ASSUME NEW r \in Nat, NEW l \in Nat, NEW m \in Nat, l <= m PROVE r * l <= r * m
  <2>1. r * (m - l) >= 0
    BY <1>1
  <2>2. r * (m - l) = r * m - r * l
    OBVIOUS
  <2>3. r * m \in Int /\ r * l \in Int
    OBVIOUS
  <2> QED
    BY <2>1, <2>2, <2>3
<1>2. \A r, l \in Nat : (r + 1) * l = r * l + l /\ r * l \in Nat
  OBVIOUS
<1> QED
  BY <1>1, <1>2

LEMMA MilesExpire ==
  ASSUME MilesInv, NEW k \in MiSessions, MIExpire(k)
  PROVE  MilesInv'
<1> DEFINE s == miSession[k]
<1>1. MilesTyped /\ MilesCallInv /\ MilesLogInv /\ MilesPoolInv /\ MilesDueInv
  BY DEF MilesInv
<1>2. /\ s.doing = "expire"
      /\ miAccount' = [miAccount EXCEPT !.balance = Max({0, miAccount.balance - s.n})]
      /\ miLogged' = miLogged - s.n
      /\ miExpired' = [miles |-> miExpired.miles + s.n, runs |-> miExpired.runs + 1]
      /\ miStale' = (miStale \/ miAccount # s.seen)
      /\ miSession' = [miSession EXCEPT ![k] = MiIdle]
  BY DEF MIExpire, MiDoing, MiSet
<1>3. /\ miFirst' = miFirst /\ miLapsed' = miLapsed /\ miLive' = miLive /\ miPool' = miPool
      /\ miOps' = miOps /\ miUnpaid' = miUnpaid /\ miDebited' = miDebited
      /\ miBroken' = miBroken
  BY DEF MIExpire
<1>4. s \in MilesCall /\ MilesCallOK(s, miLapsed)
  BY <1>1 DEF MilesTyped, MilesCallInv
<1>5. s \in [doing : {"expire"}, n : Nat, seen : MilesRow]
  BY <1>2, <1>4 DEF MilesCall, MilesReads
<1>6. s.n \in Nat /\ s.n <= s.seen.balance /\ s.n <= miLapsed
  BY <1>2, <1>4, <1>5 DEF MilesCallOK
<1>7. /\ miAccount \in MilesRow /\ miAccount.balance \in Int /\ miLogged \in Int
      /\ miUnpaid \in Int /\ miDebited \in Nat /\ miLapsed \in Nat
      /\ miExpired.miles \in Nat /\ miExpired.runs \in Nat
  BY <1>1 DEF MilesTyped, MilesRow
<1>8. PICK x \in Int : x = miAccount.balance - s.n
  BY <1>6, <1>7
<1>9. Max({0, x}) = IF 0 <= x THEN x ELSE 0
  BY MaxOfTwo
<1>10. PICK left \in Nat : left = Max({0, x})
  BY <1>9
<1>11. miAccount' = [miAccount EXCEPT !.balance = left]
  BY <1>2, <1>8, <1>10
<1>12. /\ miAccount' \in MilesRow /\ miAccount'.balance = left
       /\ miAccount'.points = miAccount.points /\ miAccount'.tier = miAccount.tier
  BY <1>7, <1>11 DEF MilesRow
<1>13. PICK idle \in MilesCall :
         idle = MiIdle /\ \A what \in MilesSteps : MilesWeight(idle, what) = 0
  BY MilesWeightType
<1>14. miSession' = [miSession EXCEPT ![k] = idle]
  BY <1>2, <1>13
<1>15. /\ MilesSum(miSession, "debit") \in Nat
       /\ MilesSum(miSession', "debit") = MilesSum(miSession, "debit")
       /\ MilesSum(miSession', "credit") = MilesSum(miSession, "credit")
       /\ MilesSum(miSession', "pool") = MilesSum(miSession, "pool")
  <2>1. ASSUME NEW what \in MilesSteps
        PROVE  /\ MilesSum(miSession, what) \in Nat
               /\ MilesSum(miSession', what) = MilesSum(miSession, what)
    <3>1. /\ MilesSum(miSession, what) \in Nat
          /\ MilesSum(miSession', what) = MilesSum(miSession, what) + MilesWeight(idle, what)
                                           - MilesWeight(miSession[k], what)
      BY <1>1, <1>14, MilesMove
    <3>2. MilesWeight(idle, what) = 0 /\ MilesWeight(miSession[k], what) = 0
      BY <1>2, <1>13 DEF MilesWeight, MilesSteps
    <3> QED
      BY <3>1, <3>2
  <2> QED
    BY <2>1 DEF MilesSteps
<1>16. MilesTyped'
  <2>1. miSession' \in [MiSessions -> MilesCall]
    BY <1>1, <1>14, MilesMove
  <2>2. miLogged' \in Int /\ miExpired' \in [miles : Nat, runs : Nat] /\ miStale' \in BOOLEAN
    BY <1>2, <1>6, <1>7
  <2> QED
    BY <1>1, <1>3, <1>12, <2>1, <2>2 DEF MilesTyped
<1>17. MilesCallInv'
  <2>1. MilesCallOK(idle, miLapsed')
    BY <1>13 DEF MilesCallOK, MiIdle
  <2>2. miLapsed' >= miLapsed /\ miLapsed' \in Nat
    BY <1>3, <1>7
  <2> QED
    BY <1>1, <1>14, <2>1, <2>2, MilesCalls
<1>18. MilesLogInv'
  <2>1. ASSUME ~miStale' PROVE miAccount'.balance = miLogged' - miDebited' + miUnpaid'
    <3>1. ~miStale /\ miAccount = s.seen
      BY <1>2, <2>1
    <3>2. miAccount.balance = miLogged - miDebited + miUnpaid
      BY <1>1, <3>1 DEF MilesLogInv
    <3>3. left = miAccount.balance - s.n
      BY <1>6, <1>7, <1>8, <1>9, <1>10, <3>1
    <3> QED
      BY <1>2, <1>3, <1>6, <1>7, <1>12, <3>2, <3>3
  <2>2. miAccount'.tier = MiTier(miAccount'.points)
    BY <1>1, <1>12 DEF MilesLogInv
  <2>3. miExpired'.miles <= miExpired'.runs * miLapsed'
    <3>1. miExpired.miles <= miExpired.runs * miLapsed
      BY <1>1 DEF MilesLogInv
    <3>2. /\ (miExpired.runs + 1) * miLapsed = miExpired.runs * miLapsed + miLapsed
          /\ miExpired.runs * miLapsed \in Nat
      BY <1>7, MilesProducts
    <3>3. miExpired.miles + s.n <= (miExpired.runs + 1) * miLapsed
      BY <1>6, <1>7, <3>1, <3>2
    <3>4. miExpired'.miles = miExpired.miles + s.n /\ miExpired'.runs = miExpired.runs + 1
      BY <1>2
    <3> QED
      BY <1>3, <3>3, <3>4
  <2> QED
    BY <2>1, <2>2, <2>3 DEF MilesLogInv
<1>19. MilesPoolInv'
  BY <1>1, <1>3, <1>15 DEF MilesPoolInv
<1>20. MilesDueInv'
  <2>1. MilesSum(miSession, "debit") <= MilesOver
    BY <1>1, <1>2, MilesOthers
  <2>2. left - MilesSum(miSession, "debit") >= -MilesOver
    BY <1>15, <2>1, MilesConstants
  <2>3. MilesOver' = MilesOver
    BY DEF MilesOver
  <2> QED
    BY <1>12, <1>15, <2>2, <2>3 DEF MilesDueInv
<1> QED
  BY <1>16, <1>17, <1>18, <1>19, <1>20 DEF MilesInv

\* A contribution moves from one of its steps to the next, or ends.
LEMMA MilesStep ==
  ASSUME MilesInv, NEW k \in MiSessions, NEW c \in MilesCall,
         miSession[k].doing \in MilesSteps, c.doing \in MilesSteps \cup {"idle"},
         miSession' = [miSession EXCEPT ![k] = c], miLapsed' = miLapsed
  PROVE  /\ miSession' \in [MiSessions -> MilesCall] /\ MilesCallInv'
         /\ miSession[k].n \in MiAmounts /\ miSession[k].n \in Nat
         /\ \A what \in MilesSteps :
              /\ MilesSum(miSession, what) \in Nat /\ MilesSum(miSession', what) \in Nat
              /\ MilesSum(miSession', what) = MilesSum(miSession, what)
                    + (IF c.doing = what THEN c.n ELSE 0)
                    - (IF miSession[k].doing = what THEN miSession[k].n ELSE 0)
<1>1. MilesTyped /\ MilesCallInv
  BY DEF MilesInv
<1>2. miSession' \in [MiSessions -> MilesCall]
  BY <1>1, MilesMove
<1>3. MilesCallInv'
  <2>1. miLapsed' >= miLapsed /\ miLapsed' \in Nat
    BY <1>1 DEF MilesTyped
  <2>2. MilesCallOK(c, miLapsed')
    BY DEF MilesCallOK, MilesSteps
  <2> QED
    BY <1>1, <2>1, <2>2, MilesCalls
<1>4. miSession[k].n \in MiAmounts /\ miSession[k].n \in Nat
  <2>1. miSession[k] \in MilesCall
    BY <1>1 DEF MilesTyped
  <2>2. miSession[k].n \in MiAmounts
    BY <2>1 DEF MilesCall, MilesSteps, MilesReads
  <2> QED
    BY <2>2, MilesConstants
<1>5. ASSUME NEW what \in MilesSteps
      PROVE  /\ MilesSum(miSession, what) \in Nat /\ MilesSum(miSession', what) \in Nat
             /\ MilesSum(miSession', what) = MilesSum(miSession, what)
                   + (IF c.doing = what THEN c.n ELSE 0)
                   - (IF miSession[k].doing = what THEN miSession[k].n ELSE 0)
  <2>1. /\ MilesSum(miSession, what) \in Nat /\ MilesSum(miSession', what) \in Nat
        /\ MilesSum(miSession', what) = MilesSum(miSession, what) + MilesWeight(c, what)
                                         - MilesWeight(miSession[k], what)
    BY <1>1, MilesMove
  <2> QED
    BY <2>1 DEF MilesWeight
<1> QED
  BY <1>2, <1>3, <1>4, <1>5

\* The sums of the three steps.
LEMMA MilesStepNames ==
  "debit" \in MilesSteps /\ "credit" \in MilesSteps /\ "pool" \in MilesSteps
BY DEF MilesSteps

LEMMA MilesDebit ==
  ASSUME MilesInv, NEW k \in MiSessions, MIDebit(k)
  PROVE  MilesInv'
<1> DEFINE s == miSession[k]
           c == [s EXCEPT !.doing = "credit"]
<1>1. MilesTyped /\ MilesLogInv /\ MilesPoolInv /\ MilesDueInv
  BY DEF MilesInv
<1>2. /\ s.doing = "debit" /\ miSession' = [miSession EXCEPT ![k] = c]
      /\ miAccount' = [miAccount EXCEPT !.balance = miAccount.balance - s.n]
      /\ miDebited' = miDebited + s.n
  BY DEF MIDebit, MiDoing, MiSet
<1>3. /\ miFirst' = miFirst /\ miLapsed' = miLapsed /\ miLive' = miLive
      /\ miLogged' = miLogged /\ miPool' = miPool /\ miOps' = miOps /\ miStale' = miStale
      /\ miUnpaid' = miUnpaid /\ miExpired' = miExpired /\ miBroken' = miBroken
  BY DEF MIDebit
<1>4. s \in [doing : {"debit", "credit", "pool"}, n : MiAmounts]
  BY <1>1, <1>2 DEF MilesTyped, MilesCall, MilesReads
<1>5. c \in MilesCall /\ c.doing = "credit" /\ c.n = s.n
  BY <1>4 DEF MilesCall
<1> HIDE DEF c
<1>6. PICK n \in Nat : n = s.n
  BY <1>4, MilesConstants
<1>7. /\ miSession' \in [MiSessions -> MilesCall] /\ MilesCallInv'
      /\ \A what \in MilesSteps :
           /\ MilesSum(miSession, what) \in Nat
           /\ MilesSum(miSession', what) = MilesSum(miSession, what)
                 + (IF "credit" = what THEN n ELSE 0) - (IF "debit" = what THEN n ELSE 0)
  <2>1. s.doing \in MilesSteps /\ c.doing \in MilesSteps \cup {"idle"}
    BY <1>2, <1>5 DEF MilesSteps
  <2>2. miSession' = [miSession EXCEPT ![k] = c] /\ miLapsed' = miLapsed /\ c \in MilesCall
    BY <1>2, <1>3, <1>5
  <2>3. /\ miSession' \in [MiSessions -> MilesCall] /\ MilesCallInv'
        /\ \A what \in MilesSteps :
             /\ MilesSum(miSession, what) \in Nat /\ MilesSum(miSession', what) \in Nat
             /\ MilesSum(miSession', what) = MilesSum(miSession, what)
                   + (IF c.doing = what THEN c.n ELSE 0)
                   - (IF miSession[k].doing = what THEN miSession[k].n ELSE 0)
    BY <2>1, <2>2, MilesStep
  <2> QED
    BY <1>2, <1>5, <1>6, <2>3
<1>8. /\ MilesSum(miSession, "debit") \in Nat /\ MilesSum(miSession, "credit") \in Nat
      /\ MilesSum(miSession, "pool") \in Nat
      /\ MilesSum(miSession', "debit") = MilesSum(miSession, "debit") - n
      /\ MilesSum(miSession', "credit") = MilesSum(miSession, "credit") + n
      /\ MilesSum(miSession', "pool") = MilesSum(miSession, "pool")
  BY <1>7, MilesStepNames
<1>9. /\ miAccount \in MilesRow /\ miAccount.balance \in Int /\ miDebited \in Nat
      /\ miLogged \in Int /\ miUnpaid \in Int
      /\ miPool.member \in Nat /\ miPool.group \in Nat /\ miPool.rows \in {1, 2}
  BY <1>1 DEF MilesTyped, MilesRow
<1>10. PICK left \in Int : left = miAccount.balance - n
  BY <1>9
<1>11. miAccount' = [miAccount EXCEPT !.balance = left]
  BY <1>2, <1>6, <1>10
<1>12. /\ miAccount' \in MilesRow /\ miAccount'.balance = left
       /\ miAccount'.points = miAccount.points /\ miAccount'.tier = miAccount.tier
  BY <1>9, <1>11 DEF MilesRow
<1>13. miDebited' = miDebited + n
  BY <1>2, <1>6
<1>14. MilesTyped'
  <2>1. miDebited' \in Nat
    BY <1>9, <1>13
  <2> QED
    BY <1>1, <1>3, <1>7, <1>12, <2>1 DEF MilesTyped
<1>15. MilesLogInv'
  <2>1. ASSUME ~miStale' PROVE miAccount'.balance = miLogged' - miDebited' + miUnpaid'
    <3>1. miAccount.balance = miLogged - miDebited + miUnpaid
      BY <1>1, <1>3, <2>1 DEF MilesLogInv
    <3> QED
      BY <1>3, <1>9, <1>10, <1>12, <1>13, <3>1
  <2>2. miAccount'.tier = MiTier(miAccount'.points)
    BY <1>1, <1>12 DEF MilesLogInv
  <2>3. miExpired'.miles <= miExpired'.runs * miLapsed'
    BY <1>1, <1>3 DEF MilesLogInv
  <2> QED
    BY <2>1, <2>2, <2>3 DEF MilesLogInv
<1>16. MilesPoolInv'
  <2>1. miPool'.group + MilesSum(miSession', "pool") <= miPool'.member
    BY <1>1, <1>3, <1>8 DEF MilesPoolInv
  <2>2. miPool'.member + miPool'.rows * MilesSum(miSession', "credit") <= miPool'.rows * miDebited'
    <3>1. miPool.member + miPool.rows * MilesSum(miSession, "credit") <= miPool.rows * miDebited
      BY <1>1 DEF MilesPoolInv
    <3>2. CASE miPool.rows = 1
      BY <1>3, <1>8, <1>9, <1>13, <3>1, <3>2
    <3>3. CASE miPool.rows = 2
      BY <1>3, <1>8, <1>9, <1>13, <3>1, <3>3
    <3> QED
      BY <1>9, <3>2, <3>3
  <2>3. ASSUME ~miBroken'
        PROVE  miPool'.group + MilesSum(miSession', "credit") + MilesSum(miSession', "pool")
                 = miDebited'
    <3>1. miPool.group + MilesSum(miSession, "credit") + MilesSum(miSession, "pool") = miDebited
      BY <1>1, <1>3, <2>3 DEF MilesPoolInv
    <3> QED
      BY <1>3, <1>8, <1>9, <1>13, <3>1
  <2> QED
    BY <2>1, <2>2, <2>3 DEF MilesPoolInv
<1>17. MilesDueInv'
  <2>1. ASSUME ~miStale' PROVE left - MilesSum(miSession', "debit") >= -MilesOver
    <3>1. miAccount.balance - MilesSum(miSession, "debit") >= -MilesOver
      BY <1>1, <1>3, <2>1 DEF MilesDueInv
    <3> QED
      BY <1>8, <1>9, <1>10, <3>1, MilesConstants
  <2>2. MilesOver' = MilesOver
    BY DEF MilesOver
  <2> QED
    BY <1>12, <2>1, <2>2 DEF MilesDueInv
<1> QED
  BY <1>7, <1>14, <1>15, <1>16, <1>17 DEF MilesInv

\* A step of a contribution that leaves the account and the log as they are.
LEMMA MilesPools ==
  ASSUME MilesInv, MilesPoolInv', miSession' \in [MiSessions -> MilesCall], MilesCallInv',
         miPool' \in [member : Nat, group : Nat, rows : {1, 2}], miBroken' \in BOOLEAN,
         MilesSum(miSession', "debit") \in Nat,
         MilesSum(miSession', "debit") <= MilesSum(miSession, "debit"),
         UNCHANGED <<miAccount, miFirst, miLapsed, miLive, miLogged, miOps, miStale,
                     miUnpaid, miDebited, miExpired>>
  PROVE  MilesInv'
<1>1. MilesTyped /\ MilesLogInv /\ MilesPoolInv /\ MilesDueInv
  BY DEF MilesInv
<1>2. /\ miAccount' = miAccount /\ miFirst' = miFirst /\ miLapsed' = miLapsed
      /\ miLive' = miLive /\ miLogged' = miLogged /\ miOps' = miOps /\ miStale' = miStale
      /\ miUnpaid' = miUnpaid /\ miDebited' = miDebited /\ miExpired' = miExpired
  OBVIOUS
<1>3. MilesTyped'
  BY <1>1, <1>2 DEF MilesTyped
<1>4. MilesLogInv'
  BY <1>1, <1>2 DEF MilesLogInv
<1>5. MilesDueInv'
  <2>1. miAccount.balance \in Int /\ MilesSum(miSession, "debit") \in Nat
    BY <1>1, MilesSumType, MilesStepNames DEF MilesTyped, MilesRow
  <2>2. ASSUME ~miStale PROVE miAccount.balance - MilesSum(miSession', "debit") >= -MilesOver
    <3>1. miAccount.balance - MilesSum(miSession, "debit") >= -MilesOver
      BY <1>1, <2>2 DEF MilesDueInv
    <3> QED
      BY <2>1, <3>1, MilesConstants
  <2>3. MilesOver' = MilesOver
    BY DEF MilesOver
  <2> QED
    BY <1>2, <2>2, <2>3 DEF MilesDueInv
<1> QED
  BY <1>3, <1>4, <1>5 DEF MilesInv

LEMMA MilesCreditMember ==
  ASSUME MilesInv, NEW k \in MiSessions, MICreditMember(k)
  PROVE  MilesInv'
<1> DEFINE s == miSession[k]
           c == [s EXCEPT !.doing = "pool"]
<1>1. MilesTyped /\ MilesPoolInv
  BY DEF MilesInv
<1>2. /\ s.doing = "credit" /\ miSession' = [miSession EXCEPT ![k] = c]
      /\ miPool' = [miPool EXCEPT !.member = miPool.member + miPool.rows * s.n]
  BY DEF MICreditMember, MiDoing, MiSet
<1>3. UNCHANGED <<miAccount, miFirst, miLapsed, miLive, miLogged, miOps, miStale,
                  miUnpaid, miDebited, miExpired>> /\ miBroken' = miBroken
      /\ miDebited' = miDebited /\ miLapsed' = miLapsed
  BY DEF MICreditMember
<1>4. s \in [doing : {"debit", "credit", "pool"}, n : MiAmounts]
  BY <1>1, <1>2 DEF MilesTyped, MilesCall, MilesReads
<1>5. c \in MilesCall /\ c.doing = "pool" /\ c.n = s.n
  BY <1>4 DEF MilesCall
<1> HIDE DEF c
<1>6. PICK n \in Nat : n = s.n
  BY <1>4, MilesConstants
<1>7. /\ miSession' \in [MiSessions -> MilesCall] /\ MilesCallInv'
      /\ \A what \in MilesSteps :
           /\ MilesSum(miSession, what) \in Nat /\ MilesSum(miSession', what) \in Nat
           /\ MilesSum(miSession', what) = MilesSum(miSession, what)
                 + (IF "pool" = what THEN n ELSE 0) - (IF "credit" = what THEN n ELSE 0)
  <2>1. s.doing \in MilesSteps /\ c.doing \in MilesSteps \cup {"idle"}
    BY <1>2, <1>5 DEF MilesSteps
  <2>2. miSession' = [miSession EXCEPT ![k] = c] /\ miLapsed' = miLapsed /\ c \in MilesCall
    BY <1>2, <1>3, <1>5
  <2>3. /\ miSession' \in [MiSessions -> MilesCall] /\ MilesCallInv'
        /\ \A what \in MilesSteps :
             /\ MilesSum(miSession, what) \in Nat /\ MilesSum(miSession', what) \in Nat
             /\ MilesSum(miSession', what) = MilesSum(miSession, what)
                   + (IF c.doing = what THEN c.n ELSE 0)
                   - (IF miSession[k].doing = what THEN miSession[k].n ELSE 0)
    BY <2>1, <2>2, MilesStep
  <2> QED
    BY <1>2, <1>5, <1>6, <2>3
<1>8. /\ MilesSum(miSession, "debit") \in Nat /\ MilesSum(miSession, "credit") \in Nat
      /\ MilesSum(miSession, "pool") \in Nat /\ MilesSum(miSession', "debit") \in Nat
      /\ MilesSum(miSession', "debit") = MilesSum(miSession, "debit")
      /\ MilesSum(miSession', "credit") = MilesSum(miSession, "credit") - n
      /\ MilesSum(miSession', "pool") = MilesSum(miSession, "pool") + n
  BY <1>7, MilesStepNames
<1>9. miPool \in [member : Nat, group : Nat, rows : {1, 2}] /\ miDebited \in Nat
      /\ miPool.member \in Nat /\ miPool.group \in Nat /\ miPool.rows \in {1, 2}
  BY <1>1 DEF MilesTyped
<1>10. PICK member \in Nat : member = miPool.member + miPool.rows * n
  BY <1>9
<1>11. miPool' = [miPool EXCEPT !.member = member]
  BY <1>2, <1>6, <1>10
<1>12. /\ miPool' \in [member : Nat, group : Nat, rows : {1, 2}]
       /\ miPool'.member = member /\ miPool'.group = miPool.group
       /\ miPool'.rows = miPool.rows
  BY <1>9, <1>11
<1>13. MilesPoolInv'
  <2>1. /\ miPool.group + MilesSum(miSession, "pool") <= miPool.member
        /\ miPool.member + miPool.rows * MilesSum(miSession, "credit") <= miPool.rows * miDebited
    BY <1>1 DEF MilesPoolInv
  <2>2. /\ miPool.group + MilesSum(miSession', "pool") <= member
        /\ member + miPool.rows * MilesSum(miSession', "credit") <= miPool.rows * miDebited
    <3>1. CASE miPool.rows = 1
      BY <1>8, <1>9, <1>10, <2>1, <3>1
    <3>2. CASE miPool.rows = 2
      BY <1>8, <1>9, <1>10, <2>1, <3>2
    <3> QED
      BY <1>9, <3>1, <3>2
  <2>3. ASSUME ~miBroken'
        PROVE  miPool'.group + MilesSum(miSession', "credit") + MilesSum(miSession', "pool")
                 = miDebited'
    <3>1. miPool.group + MilesSum(miSession, "credit") + MilesSum(miSession, "pool") = miDebited
      BY <1>1, <1>3, <2>3 DEF MilesPoolInv
    <3> QED
      BY <1>3, <1>8, <1>9, <1>12, <3>1
  <2> QED
    BY <1>3, <1>12, <2>2, <2>3 DEF MilesPoolInv
<1>14. miBroken' \in BOOLEAN /\ MilesSum(miSession', "debit") <= MilesSum(miSession, "debit")
  BY <1>1, <1>3, <1>8 DEF MilesTyped
<1> QED
  BY <1>3, <1>7, <1>8, <1>12, <1>13, <1>14, MilesPools

LEMMA MilesCreditPool ==
  ASSUME MilesInv, NEW k \in MiSessions, MICreditPool(k)
  PROVE  MilesInv'
<1> DEFINE s == miSession[k]
<1>1. MilesTyped /\ MilesPoolInv
  BY DEF MilesInv
<1>2. /\ s.doing = "pool" /\ miSession' = [miSession EXCEPT ![k] = MiIdle]
      /\ miPool' = [miPool EXCEPT !.group = miPool.group + s.n]
  BY DEF MICreditPool, MiPooled, MiDoing, MiSet
<1>3. UNCHANGED <<miAccount, miFirst, miLapsed, miLive, miLogged, miOps, miStale,
                  miUnpaid, miDebited, miExpired>> /\ miBroken' = miBroken
      /\ miDebited' = miDebited /\ miLapsed' = miLapsed
  BY DEF MICreditPool
<1>4. s \in [doing : {"debit", "credit", "pool"}, n : MiAmounts]
  BY <1>1, <1>2 DEF MilesTyped, MilesCall, MilesReads
<1>5. PICK c \in MilesCall : c = MiIdle /\ c.doing = "idle"
  BY MilesWeightType DEF MiIdle
<1>6. PICK n \in Nat : n = s.n
  BY <1>4, MilesConstants
<1>7. /\ miSession' \in [MiSessions -> MilesCall] /\ MilesCallInv'
      /\ \A what \in MilesSteps :
           /\ MilesSum(miSession, what) \in Nat /\ MilesSum(miSession', what) \in Nat
           /\ MilesSum(miSession', what) = MilesSum(miSession, what)
                 + 0 - (IF "pool" = what THEN n ELSE 0)
  <2>1. s.doing \in MilesSteps /\ c.doing \in MilesSteps \cup {"idle"}
    BY <1>2, <1>5 DEF MilesSteps
  <2>2. miSession' = [miSession EXCEPT ![k] = c] /\ miLapsed' = miLapsed /\ c \in MilesCall
    BY <1>2, <1>3, <1>5
  <2>3. /\ miSession' \in [MiSessions -> MilesCall] /\ MilesCallInv'
        /\ \A what \in MilesSteps :
             /\ MilesSum(miSession, what) \in Nat /\ MilesSum(miSession', what) \in Nat
             /\ MilesSum(miSession', what) = MilesSum(miSession, what)
                   + (IF c.doing = what THEN c.n ELSE 0)
                   - (IF miSession[k].doing = what THEN miSession[k].n ELSE 0)
    BY <2>1, <2>2, MilesStep
  <2>4. \A what \in MilesSteps : c.doing # what
    BY <1>5 DEF MilesSteps
  <2> QED
    BY <1>2, <1>6, <2>3, <2>4
<1>8. /\ MilesSum(miSession, "debit") \in Nat /\ MilesSum(miSession, "credit") \in Nat
      /\ MilesSum(miSession, "pool") \in Nat /\ MilesSum(miSession', "debit") \in Nat
      /\ MilesSum(miSession', "debit") = MilesSum(miSession, "debit")
      /\ MilesSum(miSession', "credit") = MilesSum(miSession, "credit")
      /\ MilesSum(miSession', "pool") = MilesSum(miSession, "pool") - n
  BY <1>7, MilesStepNames
<1>9. miPool \in [member : Nat, group : Nat, rows : {1, 2}] /\ miDebited \in Nat
      /\ miPool.member \in Nat /\ miPool.group \in Nat /\ miPool.rows \in {1, 2}
  BY <1>1 DEF MilesTyped
<1>10. PICK group \in Nat : group = miPool.group + n
  BY <1>9
<1>11. miPool' = [miPool EXCEPT !.group = group]
  BY <1>2, <1>6, <1>10
<1>12. /\ miPool' \in [member : Nat, group : Nat, rows : {1, 2}]
       /\ miPool'.member = miPool.member /\ miPool'.group = group
       /\ miPool'.rows = miPool.rows
  BY <1>9, <1>11
<1>13. MilesPoolInv'
  <2>1. /\ miPool.group + MilesSum(miSession, "pool") <= miPool.member
        /\ miPool.member + miPool.rows * MilesSum(miSession, "credit") <= miPool.rows * miDebited
    BY <1>1 DEF MilesPoolInv
  <2>2. group + MilesSum(miSession', "pool") <= miPool.member
    BY <1>8, <1>9, <1>10, <2>1
  <2>3. ASSUME ~miBroken'
        PROVE  miPool'.group + MilesSum(miSession', "credit") + MilesSum(miSession', "pool")
                 = miDebited'
    <3>1. miPool.group + MilesSum(miSession, "credit") + MilesSum(miSession, "pool") = miDebited
      BY <1>1, <1>3, <2>3 DEF MilesPoolInv
    <3> QED
      BY <1>3, <1>8, <1>9, <1>10, <1>12, <3>1
  <2> QED
    BY <1>3, <1>8, <1>12, <2>1, <2>2, <2>3 DEF MilesPoolInv
<1>14. miBroken' \in BOOLEAN /\ MilesSum(miSession', "debit") <= MilesSum(miSession, "debit")
  BY <1>1, <1>3, <1>8 DEF MilesTyped
<1> QED
  BY <1>3, <1>7, <1>8, <1>12, <1>13, <1>14, MilesPools

LEMMA MilesRejoin ==
  ASSUME MilesInv, MIRejoin
  PROVE  MilesInv'
<1>1. MilesTyped /\ MilesPoolInv /\ MilesCallInv
  BY DEF MilesInv
<1>2. /\ miPool.rows = 1 /\ miPool' = [miPool EXCEPT !.rows = 2]
      /\ miSession' = miSession /\ miBroken' = miBroken /\ miDebited' = miDebited
      /\ miLapsed' = miLapsed
      /\ UNCHANGED <<miAccount, miFirst, miLapsed, miLive, miLogged, miOps, miStale,
                     miUnpaid, miDebited, miExpired>>
  BY DEF MIRejoin
<1>3. miPool \in [member : Nat, group : Nat, rows : {1, 2}] /\ miDebited \in Nat
      /\ miPool.member \in Nat /\ miPool.group \in Nat
  BY <1>1 DEF MilesTyped
<1>4. /\ miPool' \in [member : Nat, group : Nat, rows : {1, 2}]
      /\ miPool'.member = miPool.member /\ miPool'.group = miPool.group /\ miPool'.rows = 2
  BY <1>2, <1>3
<1>5. /\ MilesSum(miSession, "debit") \in Nat /\ MilesSum(miSession, "credit") \in Nat
      /\ MilesSum(miSession, "pool") \in Nat
  BY <1>1, MilesSumType, MilesStepNames
<1>6. MilesPoolInv'
  <2>1. /\ miPool.group + MilesSum(miSession, "pool") <= miPool.member
        /\ miPool.member + miPool.rows * MilesSum(miSession, "credit") <= miPool.rows * miDebited
    BY <1>1 DEF MilesPoolInv
  <2>2. miPool.member + MilesSum(miSession, "credit") <= miDebited
    BY <1>2, <1>3, <1>5, <2>1
  <2>3. miPool.member + 2 * MilesSum(miSession, "credit") <= 2 * miDebited
    BY <1>3, <1>5, <2>2
  <2>4. ASSUME ~miBroken'
        PROVE  miPool'.group + MilesSum(miSession', "credit") + MilesSum(miSession', "pool")
                 = miDebited'
    BY <1>1, <1>2, <1>4, <2>4 DEF MilesPoolInv
  <2> QED
    BY <1>2, <1>4, <2>1, <2>3, <2>4 DEF MilesPoolInv
<1>7. miSession' \in [MiSessions -> MilesCall] /\ MilesCallInv' /\ miBroken' \in BOOLEAN
  BY <1>1, <1>2 DEF MilesTyped, MilesCallInv
<1>8. MilesSum(miSession', "debit") = MilesSum(miSession, "debit")
  BY <1>2
<1>9. MilesSum(miSession', "debit") \in Nat
      /\ MilesSum(miSession', "debit") <= MilesSum(miSession, "debit")
  BY <1>5, <1>8
<1> QED
  BY <1>2, <1>4, <1>6, <1>7, <1>9, MilesPools

LEMMA MilesLapse ==
  ASSUME MilesInv, MILapse
  PROVE  MilesInv'
<1>1. MilesTyped /\ MilesCallInv /\ MilesLogInv /\ MilesPoolInv /\ MilesDueInv
  BY DEF MilesInv
<1>2. /\ miLapsed' = miLapsed + miLive /\ miLive' = 0
      /\ miAccount' = miAccount /\ miFirst' = miFirst /\ miLogged' = miLogged
      /\ miPool' = miPool /\ miSession' = miSession /\ miOps' = miOps /\ miStale' = miStale
      /\ miUnpaid' = miUnpaid /\ miDebited' = miDebited /\ miExpired' = miExpired
      /\ miBroken' = miBroken
  BY DEF MILapse
<1>3. miLapsed \in Nat /\ miLive \in Nat /\ miExpired.miles \in Nat /\ miExpired.runs \in Nat
  BY <1>1 DEF MilesTyped
<1>4. miLapsed' \in Nat /\ miLapsed <= miLapsed'
  BY <1>2, <1>3
<1>5. MilesTyped'
  BY <1>1, <1>2, <1>4 DEF MilesTyped
<1>6. MilesCallInv'
  <2>1. ASSUME NEW k \in MiSessions PROVE MilesCallOK(miSession[k], miLapsed')
    <3>1. MilesCallOK(miSession[k], miLapsed) /\ miSession[k] \in MilesCall
      BY <1>1 DEF MilesCallInv, MilesTyped
    <3>2. miSession[k].doing = "expire" => miSession[k].n \in Nat
      BY <3>1 DEF MilesCall, MilesReads
    <3> QED
      BY <1>3, <1>4, <3>1, <3>2 DEF MilesCallOK
  <2> QED
    BY <1>2, <2>1 DEF MilesCallInv
<1>7. MilesLogInv'
  <2>1. miExpired.miles <= miExpired.runs * miLapsed
    BY <1>1 DEF MilesLogInv
  <2>2. /\ miExpired.runs * miLapsed <= miExpired.runs * miLapsed'
        /\ miExpired.runs * miLapsed \in Nat /\ miExpired.runs * miLapsed' \in Nat
    BY <1>3, <1>4, MilesProducts
  <2>3. miExpired.miles <= miExpired.runs * miLapsed'
    BY <1>3, <2>1, <2>2
  <2>4. ASSUME ~miStale' PROVE miAccount'.balance = miLogged' - miDebited' + miUnpaid'
    BY <1>1, <1>2, <2>4 DEF MilesLogInv
  <2>5. miAccount'.tier = MiTier(miAccount'.points)
    BY <1>1, <1>2 DEF MilesLogInv
  <2> QED
    BY <1>2, <2>3, <2>4, <2>5 DEF MilesLogInv
<1>8. MilesPoolInv' /\ MilesDueInv'
  BY <1>1, <1>2 DEF MilesPoolInv, MilesDueInv, MilesOver
<1> QED
  BY <1>5, <1>6, <1>7, <1>8 DEF MilesInv

LEMMA MilesFail ==
  ASSUME MilesInv, NEW k \in MiSessions, MIFail(k)
  PROVE  MilesInv'
<1> DEFINE s == miSession[k]
<1>1. MilesTyped /\ MilesPoolInv /\ MilesCallInv
  BY DEF MilesInv
<1>2. /\ miSession' = [miSession EXCEPT ![k] = MiIdle]
      /\ miBroken' = (miBroken \/ s.doing \in {"credit", "pool"})
      /\ miPool' = miPool /\ miDebited' = miDebited /\ miLapsed' = miLapsed
      /\ UNCHANGED <<miAccount, miFirst, miLapsed, miLive, miLogged, miOps, miStale,
                     miUnpaid, miDebited, miExpired>>
  BY DEF MIFail, MiSet
<1>3. PICK c \in MilesCall :
        c = MiIdle /\ c.doing = "idle" /\ \A what \in MilesSteps : MilesWeight(c, what) = 0
  BY MilesWeightType DEF MiIdle
<1>4. miSession' = [miSession EXCEPT ![k] = c]
  BY <1>2, <1>3
<1>5. /\ miSession' \in [MiSessions -> MilesCall]
      /\ \A what \in MilesSteps :
           /\ MilesSum(miSession, what) \in Nat /\ MilesSum(miSession', what) \in Nat
           /\ MilesSum(miSession', what) <= MilesSum(miSession, what)
           /\ s.doing # what => MilesSum(miSession', what) = MilesSum(miSession, what)
  <2>1. s \in MilesCall
    BY <1>1 DEF MilesTyped
  <2>2. ASSUME NEW what \in MilesSteps
        PROVE  /\ MilesSum(miSession, what) \in Nat /\ MilesSum(miSession', what) \in Nat
               /\ MilesSum(miSession', what) <= MilesSum(miSession, what)
               /\ s.doing # what => MilesSum(miSession', what) = MilesSum(miSession, what)
    <3>1. /\ MilesSum(miSession, what) \in Nat /\ MilesSum(miSession', what) \in Nat
          /\ MilesSum(miSession', what) = MilesSum(miSession, what) + MilesWeight(c, what)
                                           - MilesWeight(miSession[k], what)
      BY <1>1, <1>4, MilesMove
    <3>2. MilesWeight(c, what) = 0 /\ MilesWeight(miSession[k], what) \in Nat
      BY <1>3, <2>1, MilesWeightType
    <3>3. s.doing # what => MilesWeight(miSession[k], what) = 0
      BY DEF MilesWeight
    <3> QED
      BY <3>1, <3>2, <3>3
  <2> QED
    BY <1>1, <1>4, <2>2, MilesMove
<1>6. MilesCallInv'
  <2>1. MilesCallOK(c, miLapsed')
    BY <1>3 DEF MilesCallOK
  <2>2. miLapsed' >= miLapsed /\ miLapsed' \in Nat
    BY <1>1, <1>2 DEF MilesTyped
  <2> QED
    BY <1>1, <1>4, <2>1, <2>2, MilesCalls
<1>7. miPool \in [member : Nat, group : Nat, rows : {1, 2}] /\ miDebited \in Nat
      /\ miPool.member \in Nat /\ miPool.group \in Nat /\ miPool.rows \in {1, 2}
  BY <1>1 DEF MilesTyped
<1>8. /\ MilesSum(miSession, "credit") \in Nat /\ MilesSum(miSession', "credit") \in Nat
      /\ MilesSum(miSession', "credit") <= MilesSum(miSession, "credit")
      /\ MilesSum(miSession, "pool") \in Nat /\ MilesSum(miSession', "pool") \in Nat
      /\ MilesSum(miSession', "pool") <= MilesSum(miSession, "pool")
      /\ MilesSum(miSession, "debit") \in Nat /\ MilesSum(miSession', "debit") \in Nat
      /\ MilesSum(miSession', "debit") <= MilesSum(miSession, "debit")
  BY <1>5, MilesStepNames
<1>9. MilesPoolInv'
  <2>1. /\ miPool.group + MilesSum(miSession, "pool") <= miPool.member
        /\ miPool.member + miPool.rows * MilesSum(miSession, "credit") <= miPool.rows * miDebited
    BY <1>1 DEF MilesPoolInv
  <2>2. miPool.group + MilesSum(miSession', "pool") <= miPool.member
    BY <1>7, <1>8, <2>1
  <2>3. miPool.member + miPool.rows * MilesSum(miSession', "credit") <= miPool.rows * miDebited
    <3>1. CASE miPool.rows = 1
      BY <1>7, <1>8, <2>1, <3>1
    <3>2. CASE miPool.rows = 2
      BY <1>7, <1>8, <2>1, <3>2
    <3> QED
      BY <1>7, <3>1, <3>2
  <2>4. ASSUME ~miBroken'
        PROVE  miPool'.group + MilesSum(miSession', "credit") + MilesSum(miSession', "pool")
                 = miDebited'
    <3>1. ~miBroken /\ s.doing # "credit" /\ s.doing # "pool"
      BY <1>2, <2>4
    <3>2. /\ MilesSum(miSession', "credit") = MilesSum(miSession, "credit")
          /\ MilesSum(miSession', "pool") = MilesSum(miSession, "pool")
      BY <1>5, <3>1, MilesStepNames
    <3> QED
      BY <1>1, <1>2, <3>1, <3>2 DEF MilesPoolInv
  <2> QED
    BY <1>2, <2>2, <2>3, <2>4 DEF MilesPoolInv
<1>10. miBroken' \in BOOLEAN
  BY <1>2
<1>11. miPool' \in [member : Nat, group : Nat, rows : {1, 2}]
  BY <1>2, <1>7
<1> QED
  BY <1>2, <1>5, <1>6, <1>8, <1>9, <1>10, <1>11, MilesPools

LEMMA MilesNext == MilesInv /\ [MINext]_miVars => MilesInv'
<1> SUFFICES ASSUME MilesInv, [MINext]_miVars PROVE MilesInv'
  OBVIOUS
<1>1. ASSUME NEW k \in MiSessions, NEW b \in MiBookings, MIReadToAward(k, b) PROVE MilesInv'
  <2>1. MiRead(k, "award", b, 0) /\ "award" \in MilesReads
    BY <1>1 DEF MIReadToAward, MilesReads
  <2> QED
    BY <2>1, MilesRead
<1>2. ASSUME NEW k \in MiSessions, NEW b \in MiBookings, NEW n \in MiAmounts,
             MIReadForBonus(k, b, n)
      PROVE  MilesInv'
  <2>1. MiRead(k, "bonus", b, n) /\ "bonus" \in MilesReads /\ n \in Nat
    BY <1>2, MilesConstants DEF MIReadForBonus, MilesReads
  <2> QED
    BY <2>1, MilesRead
<1>3. ASSUME NEW k \in MiSessions, NEW b \in MiBookings, NEW n \in MiAmounts,
             MIReadToRedeem(k, b, n)
      PROVE  MilesInv'
  <2>1. MiRead(k, "redeem", b, n) /\ "redeem" \in MilesReads /\ n \in Nat
        /\ miAccount.balance >= n
    BY <1>3, MilesConstants DEF MIReadToRedeem, MilesReads
  <2> QED
    BY <2>1, MilesRead
<1>4. ASSUME NEW k \in MiSessions, NEW b \in MiBookings, MIReadToReverse(k, b) PROVE MilesInv'
  BY <1>4, MilesReadReverse
<1>5. ASSUME NEW k \in MiSessions, MIReadToExpire(k) PROVE MilesInv'
  BY <1>5, MilesReadExpire
<1>6. ASSUME NEW k \in MiSessions, NEW n \in MiAmounts, MICheckMiles(k, n) PROVE MilesInv'
  BY <1>6, MilesCheck
<1>7. ASSUME NEW k \in MiSessions, MIAward(k) PROVE MilesInv'
  BY <1>7, MilesAward
<1>8. ASSUME NEW k \in MiSessions, MIBonus(k) PROVE MilesInv'
  BY <1>8, MilesBonus
<1>9. ASSUME NEW k \in MiSessions, MIRedeem(k) PROVE MilesInv'
  BY <1>9, MilesRedeem
<1>10. ASSUME NEW k \in MiSessions, MIReverse(k) PROVE MilesInv'
  BY <1>10, MilesReverse
<1>11. ASSUME NEW k \in MiSessions, MIExpire(k) PROVE MilesInv'
  BY <1>11, MilesExpire
<1>12. ASSUME NEW k \in MiSessions, MIDebit(k) PROVE MilesInv'
  BY <1>12, MilesDebit
<1>13. ASSUME NEW k \in MiSessions, MICreditMember(k) PROVE MilesInv'
  BY <1>13, MilesCreditMember
<1>14. ASSUME NEW k \in MiSessions, MICreditPool(k) PROVE MilesInv'
  BY <1>14, MilesCreditPool
<1>15. ASSUME NEW k \in MiSessions, MIFail(k) PROVE MilesInv'
  BY <1>15, MilesFail
<1>16. ASSUME MILapse \/ MIRejoin PROVE MilesInv'
  BY <1>16, MilesLapse, MilesRejoin
<1>17. CASE UNCHANGED miVars
  <2>1. /\ miAccount' = miAccount /\ miFirst' = miFirst /\ miLapsed' = miLapsed
        /\ miLive' = miLive /\ miLogged' = miLogged /\ miPool' = miPool
        /\ miSession' = miSession /\ miOps' = miOps /\ miStale' = miStale
        /\ miUnpaid' = miUnpaid /\ miDebited' = miDebited /\ miExpired' = miExpired
        /\ miBroken' = miBroken
    BY <1>17 DEF miVars
  <2> QED
    BY <2>1 DEF MilesInv, MilesTyped, MilesCallInv, MilesLogInv, MilesPoolInv, MilesDueInv,
      MilesOver
<1> QED
  BY <1>1, <1>2, <1>3, <1>4, <1>5, <1>6, <1>7, <1>8, <1>9, <1>10, <1>11, <1>12, <1>13, <1>14,
     <1>15, <1>16, <1>17 DEF MINext

LEMMA MilesSpec == MISpec => []MilesInv
<1>1. MIInit => MilesInv
  BY MilesInit
<1>2. MilesInv /\ [MINext]_miVars => MilesInv'
  BY MilesNext
<1> QED
  BY <1>1, <1>2, PTL DEF MISpec

\* The log explains the balance unless an update was lost, the tier is that of
\* the points, and a run of the clean-up expires no more than what has lapsed
\* (loyalty.service.ts).
THEOREM LogExplains == MISpec => []MILogExplains
<1>1. MilesInv => MILogExplains
  BY MilesInvImplies
<1> QED
  BY <1>1, MilesSpec, PTL

\* No miles are made on the way into the pool, none is lost unless a
\* contribution ended half way, and contributions that checked the same miles
\* overdraw the account by at most one amount for every further session
\* (contributeMilesToPool of family-pool.service.ts).
THEOREM PoolConserves == MISpec => []MIPoolConserves
<1>1. MilesInv => MIPoolConserves
  BY MilesInvImplies
<1> QED
  BY <1>1, MilesSpec, PTL

(***************************************************************************)
(* What a customer owns: one part moves, the others stand                  *)
(***************************************************************************)
LEMMA AccountParts ==
  RunSpec => /\ Spec /\ MISpec /\ FGSpec /\ VOSpec /\ PLSpec /\ SPSpec
             /\ SNSpec /\ NDSpec /\ FSSpec
<1>1. RunInit => /\ Init /\ MIInit /\ FGInit /\ VOInit /\ PLInit /\ SPInit
                 /\ SNInit /\ NDInit /\ FSInit
  BY DEF RunInit
<1>2. [RunNext]_<<Together, part>> =>
        /\ [Next]_vars /\ [MINext]_miVars /\ [FGNext]_fgVars /\ [VONext]_voVars
        /\ [PLNext]_plVars /\ [SPNext]_spVars
        /\ [SNNext]_snVars /\ [NDNext]_ndVars /\ [FSNext]_fsVars
  <2>1. ASSUME UNCHANGED <<Together, part>>
        PROVE  UNCHANGED <<vars, miVars, fgVars, voVars, plVars, spVars, snVars, ndVars, fsVars>>
    BY <2>1 DEF Together, OwnVars
  <2>2. ASSUME RunNext, UNCHANGED OwnVars
        PROVE  UNCHANGED <<vars, miVars, fgVars, voVars, plVars, spVars>>
    BY <2>2 DEF OwnVars
  <2>3. ASSUME OwnNext
        PROVE  /\ [Next]_vars /\ [MINext]_miVars /\ [FGNext]_fgVars /\ [VONext]_voVars
               /\ [PLNext]_plVars /\ [SPNext]_spVars
    BY <2>3 DEF OwnNext
  <2> QED
    BY <2>1, <2>2, <2>3 DEF RunNext
<1> QED
  BY <1>1, <1>2, PTL DEF RunSpec, Spec, MISpec, FGSpec, VOSpec, PLSpec, SPSpec, SNSpec, NDSpec, FSSpec

\* The state of every part keeps its type: in particular neither a wallet nor
\* the seats of a cabin go below zero, and no counter or column past its bound.
THEOREM AccountTypes == RunSpec => []TypesOK
<1>1. MilesInv => MITypeOK
  BY MilesInvImplies
<1>2. FamInv => FGTypeOK
  BY FamInvImplies
<1>3. CreditInv => VOTypeOK
  BY CreditInvImplies
<1>4. SplitInv => SPTypeOK
  BY SplitInvImplies
<1>5. SnIInv => SNTypeOK
  BY DEF SnIInv, KnownInv
<1>6. OrderInv => NDTypeOK
  BY OrderInvImplies
<1>7. StatusIInv => FSTypeOK
  BY DEF StatusIInv, StatusTypeInv
<1>8. TypeOK /\ MITypeOK /\ FGTypeOK /\ VOTypeOK /\ PLTypeOK /\ SPTypeOK /\ SNTypeOK /\ NDTypeOK
        /\ FSTypeOK => TypesOK
  BY DEF TypesOK
<1> QED
  BY <1>1, <1>2, <1>3, <1>4, <1>5, <1>6, <1>7, <1>8, AccountParts, WalletTypeCorrect, MilesSpec,
     FamSpec, CreditSpec, LocksTypeCorrect, SplitSpec, SnSpecIInv, OrderSpec, StatusSpecIInv, PTL
==============================================================================
