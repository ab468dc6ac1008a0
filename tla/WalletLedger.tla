---------------------------- MODULE WalletLedger ----------------------------
(***************************************************************************)
(* What a wallet promises its owner: a statement of account.  Money is     *)
(* posted in one step, the balance never leaves 0..MaxBalance, and every   *)
(* entry carries the balance it left behind (wallet_transactions           *)
(* .balanceAfter).  Wallet.tla implements this.                            *)
(***************************************************************************)
EXTENDS Integers, Sequences

CONSTANT MaxBalance

VARIABLES total, statement

ledgerVars == <<total, statement>>

LedgerInit == total = 0 /\ statement = <<>>

Post(amount) ==
  /\ total + amount \in 0..MaxBalance
  /\ total' = total + amount
  /\ statement' = Append(statement, [amount |-> amount, balanceAfter |-> total'])

LedgerNext == \E amount \in (-MaxBalance)..MaxBalance : amount # 0 /\ Post(amount)

LedgerSpec == LedgerInit /\ [][LedgerNext]_ledgerVars
=============================================================================
