-------------------------------- MODULE Billing --------------------------------
(***************************************************************************)
(* The wallet of one owner with everything that moves money: topups,       *)
(* single messages and campaign runs, each by its own requests, all on the *)
(* same account and journal.  A step of one component leaves the private   *)
(* state of the others alone.                                              *)
(***************************************************************************)
EXTENDS WalletStore, FiniteSets

CONSTANTS TopupIds, Amount, StrayAmounts, Handlers,
          MaxCrashes, MaxLostReplies, MaxStrays, NoTopup,
          SendIds, MessagePrice, PublicPrice, MaxInFlight,
          Requests, Rows, Prices, Ops, MaxFaults, Serial, NoRow,
          Credits          \* credits bought before

ASSUME BillingSources == TopupIds \cup SendIds \cup Requests \subseteq Sources
ASSUME BillingNumbers == /\ Amount \in [TopupIds -> Nat] /\ StrayAmounts \subseteq Int
                         /\ MessagePrice \in Nat /\ PublicPrice \in Nat
                         /\ Prices \subseteq Nat /\ Credits \subseteq Nat
ASSUME BillingRows == IsFiniteSet(Rows) /\ NoRow \notin Rows
ASSUME BillingBounds == /\ MaxCrashes \in Nat /\ MaxLostReplies \in Nat /\ MaxStrays \in Nat
                        /\ MaxInFlight \in Nat \ {0} /\ MaxFaults \in Nat
ASSUME BillingKinds == /\ NoTopup \notin TopupIds
                       /\ Ops \subseteq {"execute", "retry", "importCsv", "updateRow",
                                         "removeRow", "remove"}
                       /\ Serial \in BOOLEAN

VARIABLES topup, order, call, handler, pay2s, strays, answers, crashes, lostReplies,
          send, sendLog, sent,
          campaign, row, req, log, delivered, faults

Topup    == INSTANCE Topups
Sending  == INSTANCE Sending
              WITH InitialBalances <- Credits, log <- sendLog, delivered <- sent
Campaign == INSTANCE Campaign

topupVars    == <<topup, order, call, handler, pay2s, strays, answers, crashes, lostReplies>>
sendVars     == <<send, sendLog, sent>>
campaignVars == <<campaign, row, req, log, delivered, faults>>

vars == <<walletVars, topupVars, sendVars, campaignVars>>

BillingInit ==
  /\ wallet \in {AccountWith(FALSE, 0)} \cup {AccountWith(TRUE, b) : b \in Credits}
  /\ ledger = <<>>
  /\ Topup!TopupStart
  /\ Sending!SendStart
  /\ Campaign!CampaignStart

BillingNext ==
  \/ Topup!TopupNext       /\ UNCHANGED <<sendVars, campaignVars>>
  \/ Sending!SendNext      /\ UNCHANGED <<topupVars, campaignVars>>
  \/ Campaign!CampaignNext /\ UNCHANGED <<topupVars, sendVars>>

BillingSpec == BillingInit /\ [][BillingNext]_vars

-----------------------------------------------------------------------------
(* Properties                                                              *)

(* Amounts of the journal rows from position i on, signed.                 *)
Signed(entry) == IF entry.type \in Debits THEN -entry.amount ELSE entry.amount
MovedSince(i) ==
  SumFunctionOnSet([j \in DOMAIN ledger |-> Signed(ledger[j])],
                   {j \in DOMAIN ledger : j >= i})

TopupRows == {i \in DOMAIN ledger : ledger[i].type = "TOPUP_CREDIT"}
Opening   == wallet.totalTopup - PostedAmount({"TOPUP_CREDIT"})

(* Only a topup writes the balance absolutely; debits, holds and refunds   *)
(* are relative.  So the balance is what the last topup wrote down as its  *)
(* balanceAfter, moved by the journal rows since: whatever overlaps, no    *)
(* debit, hold or refund is lost to anything but a topup.                  *)
BalanceSinceLastTopup ==
  IF TopupRows = {}
  THEN wallet.balance = Opening + MovedSince(1)
  ELSE \E last \in TopupRows :
         /\ \A i \in TopupRows : i <= last
         /\ wallet.balance = ledger[last].balanceAfter + MovedSince(last + 1)

(* The three totals of the account are sums over its journal: totalSpent   *)
(* is the holds and the debits of the public API (those of the operators'  *)
(* API are missing from it), totalRefund the refunds; what totalTopup has  *)
(* beyond the topup rows is what was bought before.                        *)
PublicDebit(entry) ==
  entry.type = "MESSAGE_DEBIT" /\ send[entry.source].api = "public"

TotalsArePosted ==
  /\ wallet.totalSpent =
       AmountWhere(LAMBDA e : e.type = "CAMPAIGN_HOLD" \/ PublicDebit(e))
  /\ wallet.totalRefund = PostedAmount({"CAMPAIGN_REFUND"})
  /\ Opening \in Credits \cup {0}

(* What the topups promise of themselves.                                  *)
TopupsKeepPromise ==
  /\ Topup!CreditedOnce
  /\ Topup!CreditDocumented
  /\ Topup!StatusTellsCredit

(* What the messages promise: debited, once, iff logged as sent.           *)
MessagesStayPaid == Sending!ChargedIffLogged

(* What the runs promise: they cost their successes, and those were sent.  *)
RunsCostTheirMessages == Campaign!RunCostsItsSuccesses /\ Campaign!SuccessWasSent

(* Step by step: credits are made as PaymentCredit says, of what payments  *)
(* and strays announce, and a run is a PrepaidBatch.                       *)
CreditsAsPromised == Topup!Promise!Spec
RunsArePrepaid    == Campaign!ImplementsPrepaidBatch

(* What each component promises of itself holds with the others on the     *)
(* same account and journal: a topup is credited once and with its papers, *)
(* a message is debited iff it is logged as sent, a run is a prepaid batch *)
(* and costs its successes.  None takes a row of another for its own, and  *)
(* no movement of the account between two of its steps makes it charge     *)
(* twice or skip.                                                          *)
PromisesKept ==
  /\ [](TopupsKeepPromise /\ MessagesStayPaid /\ RunsCostTheirMessages)
  /\ CreditsAsPromised
  /\ RunsArePrepaid
=============================================================================
