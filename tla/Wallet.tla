------------------------------- MODULE Wallet -------------------------------
(***************************************************************************)
(* wallet.service.ts: the wallet of one user (wallets.userId is unique and *)
(* every query starts from it) and the calls of topUpWallet, payFromWallet *)
(* and refundToWallet that run on it.                                      *)
(*                                                                         *)
(* A call looks the wallet up, creating it when it is missing, decides on  *)
(* what it read, and then runs a transaction of three statements.  The     *)
(* UPDATE locks the row until the commit, so other calls wait for it; the  *)
(* plain SELECT of the lookup does not wait.                               *)
(***************************************************************************)
EXTENDS Integers, Sequences

CONSTANTS
  Calls,        \* calls of the three operations
  Kind,         \* Kind[c]: which operation
  Amount,       \* Amount[c]: the amount asked for
  MaxBalance,   \* the largest value of the column wallets.balance
  MaxFaults,    \* bound on failed statements and lost processes
  NoCall

Kinds == {"topUp", "pay", "refund"}

ASSUME WalletAssumption ==
  /\ Kind \in [Calls -> Kinds]
  /\ Amount \in [Calls -> Int]
  /\ MaxBalance \in Nat /\ MaxFaults \in Nat
  /\ NoCall \notin Calls

VARIABLES
  wallet,     \* the row of wallets, as committed
  entries,    \* wallet_transactions of the wallet, in the order of their ids
  rowLock,    \* the call whose transaction has updated the row
  call,       \* program point and local variables of every call
  faults

vars == <<wallet, entries, rowLock, call, faults>>

WalletRow == [exists : BOOLEAN, balance : 0..MaxBalance,
              status : {"active", "frozen"}]
Entry == [amount : Int \ {0}, balanceAfter : 0..MaxBalance]

InTransaction == {"updated", "inserting"}
Pc == {"new", "creating", "reading", "checking", "updating", "done", "failed"}
        \cup InTransaction

\* What a call has read: the row at its lookup, then the balance it wrote and
\* the balance it read back for the entry.
CallRow == [pc : Pc, seen : WalletRow, written : 0..MaxBalance,
            newBalance : 0..MaxBalance]

At(c, pc) == call[c].pc = pc
Goto(c, pc) == call' = [call EXCEPT ![c].pc = pc]

\* The change of the balance: a payment is recorded as -amount.
Delta(c) == IF Kind[c] = "pay" THEN -Amount[c] ELSE Amount[c]

NoWallet == [exists |-> FALSE, balance |-> 0, status |-> "active"]
FreshCall == [pc |-> "new", seen |-> NoWallet, written |-> 0, newBalance |-> 0]

Init ==
  /\ wallet = NoWallet
  /\ entries = <<>>
  /\ rowLock = NoCall
  /\ call = [c \in Calls |-> FreshCall]
  /\ faults = 0

(***************************************************************************)
(* getOrCreateWallet                                                       *)
(***************************************************************************)
\* "Amount must be positive"
RejectAmount(c) ==
  /\ At(c, "new") /\ Amount[c] <= 0
  /\ Goto(c, "failed")
  /\ UNCHANGED <<wallet, entries, rowLock, faults>>

FindWallet(c) ==
  /\ At(c, "new") /\ Amount[c] > 0
  /\ call' = [call EXCEPT ![c] =
       [pc |-> IF wallet.exists THEN "checking" ELSE "creating",
        seen |-> wallet, written |-> 0, newBalance |-> 0]]
  /\ UNCHANGED <<wallet, entries, rowLock, faults>>

\* The unique index on userId refuses a second wallet.
CanCreateMutant == TRUE \* no unique index: the new row replaces the old one
CanCreate == ~wallet.exists
CreateWallet(c) ==
  /\ At(c, "creating")
  /\ IF CanCreate
     THEN /\ wallet' = [exists |-> TRUE, balance |-> 0, status |-> "active"]
          /\ Goto(c, "reading")
     ELSE /\ Goto(c, "failed")
          /\ UNCHANGED wallet
  /\ UNCHANGED <<entries, rowLock, faults>>

\* The new wallet is selected by its id: others may have used it meanwhile.
ReadWallet(c) ==
  /\ At(c, "reading")
  /\ call' = [call EXCEPT ![c] = [pc |-> "checking", seen |-> wallet,
                                  written |-> 0, newBalance |-> 0]]
  /\ UNCHANGED <<wallet, entries, rowLock, faults>>

(***************************************************************************)
(* topUpWallet, payFromWallet, refundToWallet                              *)
(***************************************************************************)
\* A refund goes to a frozen wallet too.
Accepts(c) ==
  /\ Kind[c] # "refund" => call[c].seen.status = "active"
  /\ Kind[c] = "pay" => call[c].seen.balance >= Amount[c]

CheckWallet(c) ==
  /\ At(c, "checking")
  /\ Goto(c, IF Accepts(c) THEN "updating" ELSE "failed")
  /\ UNCHANGED <<wallet, entries, rowLock, faults>>

\* WHERE balance >= amount, and the range of the INT column, which the
\* database enforces by failing the statement.
CoversMutant(c) == \* the WHERE of the payment forgotten
  wallet.balance + Delta(c) <= MaxBalance
Covers(c) == wallet.balance + Delta(c) \in 0..MaxBalance

\* UPDATE wallets SET balance = balance + delta
RowFreeMutant(c) == rowLock # c \* an UPDATE that does not lock
RowFree(c) == rowLock = NoCall
UpdateBalance(c) ==
  /\ At(c, "updating")
  /\ RowFree(c)
  /\ IF Covers(c)
     THEN /\ rowLock' = c
          /\ call' = [call EXCEPT ![c] =
               [pc |-> "updated", seen |-> call[c].seen,
                written |-> wallet.balance + Delta(c), newBalance |-> 0]]
     ELSE /\ Goto(c, "failed")
          /\ UNCHANGED rowLock
  /\ UNCHANGED <<wallet, entries, faults>>

\* A transaction reads its own update back.
ReadBackMutant(c) == call[c].seen.balance + Delta(c) \* computed from the lookup
ReadBack(c) == call[c].written
ReadBalance(c) ==
  /\ At(c, "updated")
  /\ call' = [call EXCEPT ![c] =
       [pc |-> "inserting", seen |-> call[c].seen,
        written |-> call[c].written, newBalance |-> ReadBack(c)]]
  /\ UNCHANGED <<wallet, entries, rowLock, faults>>

\* INSERT INTO wallet_transactions, and the commit.
InsertEntry(c) ==
  /\ At(c, "inserting")
  /\ wallet' = [wallet EXCEPT !.balance = call[c].written]
  /\ entries' = Append(entries, [amount |-> Delta(c),
                                 balanceAfter |-> call[c].newBalance])
  /\ rowLock' = NoCall
  /\ Goto(c, "done")
  /\ UNCHANGED faults

\* A failed statement or a lost process, before or inside the transaction.
Fail(c) ==
  /\ call[c].pc \notin {"new", "done", "failed"}
  /\ faults < MaxFaults
  /\ faults' = faults + 1
  /\ rowLock' = IF rowLock = c THEN NoCall ELSE rowLock
  /\ Goto(c, "failed")
  /\ UNCHANGED <<wallet, entries>>

\* The row's status is changed from outside the service; that UPDATE, too,
\* waits for a transaction that has the row.
ChangeStatus ==
  /\ wallet.exists /\ rowLock = NoCall
  /\ \E s \in {"active", "frozen"} : wallet' = [wallet EXCEPT !.status = s]
  /\ UNCHANGED <<entries, rowLock, call, faults>>

Step(c) ==
  \/ RejectAmount(c) \/ FindWallet(c) \/ CreateWallet(c) \/ ReadWallet(c)
  \/ CheckWallet(c) \/ UpdateBalance(c) \/ ReadBalance(c) \/ InsertEntry(c)

Next ==
  \/ \E c \in Calls : Step(c) \/ Fail(c)
  \/ ChangeStatus

Spec == Init /\ [][Next]_vars

(***************************************************************************)
(* Properties                                                              *)
(***************************************************************************)
TypeOK ==
  /\ wallet \in WalletRow
  /\ entries \in Seq(Entry)
  /\ rowLock \in Calls \cup {NoCall}
  /\ call \in [Calls -> CallRow]
  /\ faults \in 0..MaxFaults

\* Every entry's balanceAfter is the previous one plus its amount, and the
\* balance is what the last entry says: the history explains the balance,
\* whatever calls overlapped, failed or found the wallet missing.
BalanceBefore(i) == IF i = 1 THEN 0 ELSE entries[i - 1].balanceAfter
HistoryExplainsBalance ==
  /\ \A i \in 1..Len(entries) :
       entries[i].balanceAfter = BalanceBefore(i) + entries[i].amount
  /\ wallet.balance =
       IF entries = <<>> THEN 0 ELSE entries[Len(entries)].balanceAfter

\* The calls together behave like one statement of account to which each
\* successful call posts its amount in one step.
Ledger == INSTANCE WalletLedger WITH total <- wallet.balance, statement <- entries
ImplementsLedger == Ledger!LedgerSpec
=============================================================================
