----------------------------- MODULE WalletStore -----------------------------
(***************************************************************************)
(* The two tables every money-moving service writes: the wallet account of *)
(* one owner (WalletAccount) and its journal (WalletTransaction).  The     *)
(* other components extend this module and share both variables.           *)
(*                                                                         *)
(* Database steps.  Prisma runs an interactive transaction at PostgreSQL's *)
(* default isolation, READ COMMITTED.  A read sees the last committed row  *)
(* and takes no lock; writes are invisible until the commit and hold the   *)
(* row lock until then, so a relative update (increment, decrement) is     *)
(* applied to the value the row has at the commit, while a value computed  *)
(* from an earlier read may be stale.  A transaction is therefore modelled *)
(* by one step per read and one step for all of its writes.                *)
(***************************************************************************)
EXTENDS Integers, Sequences, Functions

CONSTANT Sources  \* what a journal row is written for: a topup, message or run

VARIABLES wallet,   \* the WalletAccount row of the workspace owner
          ledger    \* the committed WalletTransaction rows, in commit order

walletVars == <<wallet, ledger>>

WalletTransactionType ==
  {"TOPUP_CREDIT", "MESSAGE_DEBIT", "CAMPAIGN_HOLD", "CAMPAIGN_REFUND"}

Debits == {"MESSAGE_DEBIT", "CAMPAIGN_HOLD"}

WalletAccount == [exists      : BOOLEAN,
                  balance     : Int,
                  totalTopup  : Int,
                  totalSpent  : Int,
                  totalRefund : Int]

WalletTransaction == [type          : WalletTransactionType,
                      source        : Sources,
                      amount        : Int,
                      balanceBefore : Int,
                      balanceAfter  : Int]

WalletTypeOK == /\ wallet \in WalletAccount
                /\ ledger \in Seq(WalletTransaction)

(* An account that holds b credits, all of them from earlier topups.       *)
AccountWith(exists, b) == [exists      |-> exists,
                           balance     |-> b,
                           totalTopup  |-> b,
                           totalSpent  |-> 0,
                           totalRefund |-> 0]

(* walletTransaction.create with the balances the caller read earlier.     *)
Post(type, source, amount, before, after) ==
  ledger' = Append(ledger, [type          |-> type,
                            source        |-> source,
                            amount        |-> amount,
                            balanceBefore |-> before,
                            balanceAfter  |-> after])

Posted(type, source) ==
  \E i \in DOMAIN ledger : ledger[i].type = type /\ ledger[i].source = source

(* A step of others on the same wallet, seen by a component that alone     *)
(* posts rows of these types for these sources.                            *)
OthersPost(types, sources) ==
  /\ WalletTypeOK'
  /\ \/ ledger' = ledger
     \/ \E entry \in WalletTransaction :
          /\ entry.type \notin types \/ entry.source \notin sources
          /\ ledger' = Append(ledger, entry)

(* Sum of the amounts of the journal rows that satisfy Test.               *)
AmountWhere(Test(_)) ==
  SumFunctionOnSet([i \in DOMAIN ledger |-> ledger[i].amount],
                   {i \in DOMAIN ledger : Test(ledger[i])})

PostedAmount(types) == AmountWhere(LAMBDA row : row.type \in types)
=============================================================================
