----------------------------- MODULE WalletLedger -----------------------------
(***************************************************************************)
(* The wallet of a node in mock mode (api/services/wallet.py, the table     *)
(* wallet_transactions of data/database.py).  Endpoints and the threads of   *)
(* chat tasks book transactions: the ledger and the balance are changed under*)
(* a lock, the row is written after it.  The process may end between the two;*)
(* when it starts again the wallet is rebuilt from the rows.  A reset of all *)
(* data clears the rows first and the wallet some time later.                *)
(***************************************************************************)
EXTENDS Naturals, SequencesExt

CONSTANTS Writers,    \* threads that book transactions
          Amounts,    \* possible amounts
          Initial,    \* payment.mock.initial_balance, and the balance of a new process
          Capacity,   \* wallet_ledger_capacity
          MaxBooked   \* bound: transactions ever booked

WalletAssumption ==
  /\ Amounts \subseteq Nat \ {0} /\ {Initial, MaxBooked} \subseteq Nat
  /\ Capacity \in Nat \ {0}

VARIABLES
  ledger,     \* wallet_ledger
  balance,    \* mock_balance
  rows,       \* wallet_transactions, in the order in which the rows were written
  unsaved,    \* the transaction each writer has booked and not saved, or NoTx
  clearing,   \* a reset has cleared the rows and not yet the wallet
  time,       \* the timestamp of the last transaction
  counted     \* history: the transactions the balance accounts for

walletVars == <<ledger, balance, rows, unsaved, clearing, time, counted>>

Txs == [timestamp : 1 .. MaxBooked, type : {"income", "expense"}, amount : Amounts]
NoTx == [timestamp |-> 0]

WalletInit ==
  /\ ledger = <<>> /\ balance = Initial /\ rows = <<>>
  /\ unsaved = [w \in Writers |-> NoTx] /\ clearing = FALSE
  /\ time = 0 /\ counted = {}

\* Applied: a balance after a transaction; it never falls below zero.
Applied(b, tx) ==
  IF tx.type = "expense" THEN IF b > tx.amount THEN b - tx.amount ELSE 0
                         ELSE b + tx.amount

\* Summed: the balance after a list of transactions.
Summed(list) ==
  LET after[n \in 0 .. Len(list)] == IF n = 0 THEN Initial ELSE Applied(after[n - 1], list[n])
  IN  after[Len(list)]

\* Trimmed: the newest n of a list.
Trimmed(list, n) == SubSeq(list, IF Len(list) > n THEN Len(list) - n + 1 ELSE 1, Len(list))

\* Book: the timestamp is taken under the lock.
Book(w) ==
  /\ unsaved[w] = NoTx /\ time < MaxBooked
  /\ \E type \in {"income", "expense"}, amount \in Amounts :
       LET tx == [timestamp |-> time + 1, type |-> type, amount |-> amount]
       IN /\ ledger' = Trimmed(Append(ledger, tx), Capacity)
          /\ balance' = Applied(balance, tx)
          /\ unsaved' = [unsaved EXCEPT ![w] = tx]
          /\ counted' = counted \cup {tx}
  /\ time' = time + 1
  /\ UNCHANGED <<rows, clearing>>

\* SaveRow: or the database refuses, which is only logged.
SaveRow(w) ==
  /\ unsaved[w] # NoTx
  /\ rows' \in {Append(rows, unsaved[w]), rows}
  /\ unsaved' = [unsaved EXCEPT ![w] = NoTx]
  /\ UNCHANGED <<ledger, balance, clearing, time, counted>>

\* Stored, mutated form: in the order in which the rows were written.
StoredAsWritten(limit) == SubSeq(rows, 1, IF Len(rows) > limit THEN limit ELSE Len(rows))

\* InOrder: transactions in the order of their timestamps, which are all different.
InOrder(txs) ==
  LET upTo[n \in 0 .. MaxBooked] ==
        IF n = 0 THEN <<>>
        ELSE IF \E tx \in txs : tx.timestamp = n
             THEN Append(upTo[n - 1], CHOOSE tx \in txs : tx.timestamp = n)
             ELSE upTo[n - 1]
  IN  upTo[MaxBooked]

\* Stored: get_wallet_transactions, the oldest rows first, and no more than the limit.
Stored(limit) ==
  LET list == InOrder(ToSet(rows))
  IN SubSeq(list, 1, IF Len(list) > limit THEN limit ELSE Len(list))

\* Restart: the process ends, wherever its threads are, and starts again; without
\* rows the wallet stays as a new process has it.
Restart ==
  /\ LET restored == Stored(Capacity)
     IN /\ ledger' = Trimmed(restored, Capacity)
        /\ balance' = Summed(restored)
        /\ counted' = ToSet(restored)
  /\ unsaved' = [w \in Writers |-> NoTx] /\ clearing' = FALSE
  /\ UNCHANGED <<rows, time>>

\* ResetRows, ResetWallet: reset_all_data.
ResetRows ==
  /\ ~clearing /\ rows # <<>>
  /\ rows' = <<>> /\ clearing' = TRUE
  /\ UNCHANGED <<ledger, balance, unsaved, time, counted>>

ResetWallet ==
  /\ clearing
  /\ ledger' = <<>> /\ balance' = Initial /\ counted' = {} /\ clearing' = FALSE
  /\ UNCHANGED <<rows, unsaved, time>>

WalletNext ==
  \/ \E w \in Writers : Book(w) \/ SaveRow(w)
  \/ Restart \/ ResetRows \/ ResetWallet

-----------------------------------------------------------------------------
(* Properties.                                                               *)

WalletTypeOK ==
  /\ ledger \in Seq(Txs) /\ Len(ledger) <= Capacity
  /\ balance \in Nat /\ rows \in Seq(Txs)
  /\ unsaved \in [Writers -> Txs \cup {NoTx}]
  /\ clearing \in BOOLEAN /\ time \in 0 .. MaxBooked /\ counted \subseteq Txs

\* A restart leaves the wallet as it is when every transaction that it accounts for
\* has its row and no other has one, as long as the ledger is large enough for all the
\* rows: the same ledger and, although an expense that exceeds the balance is not taken
\* in full and rows may be written in another order than they were booked, the same
\* balance (server.py:8457 "Restore wallet transactions from DB").
RestartKeepsSmallWallet ==
  [][Restart /\ counted = ToSet(rows) /\ Len(rows) <= Capacity
       => ledger' = ledger /\ balance' = balance]_walletVars
=============================================================================
