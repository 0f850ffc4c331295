------------------------------- MODULE Sending -------------------------------
(***************************************************************************)
(* Single ZNS messages: MessagingService.sendSingle (operators) and        *)
(* PublicApiService.sendSingle (API keys).  Both read the balance, refuse  *)
(* the request if it does not cover the price, hand the message to Zalo    *)
(* and then, in one transaction, debit the wallet, write the journal row   *)
(* and the SUCCESS log.  The debit is not checked again, and the journal   *)
(* row carries the balance read before the message was sent.               *)
(*                                                                         *)
(* Requests interleave at every await.  Zalo is external: it refuses a     *)
(* message, accepts it, or accepts it and its answer is lost.  The checks  *)
(* of template, OA and workspace depend on other components; a request     *)
(* they refuse changes nothing and is a request that is never made here.   *)
(***************************************************************************)
EXTENDS WalletStore, FiniteSets

CONSTANTS SendIds,         \* send requests
          MessagePrice,    \* resolveTemplateUnitPrice of the template
          PublicPrice,     \* unitCost of the public API (1000)
          InitialBalances, \* credits bought before
          MaxInFlight      \* bound: requests between check and debit at a time

ASSUME SendSources == SendIds \subseteq Sources
ASSUME SendPrices == MessagePrice \in Nat /\ PublicPrice \in Nat
ASSUME SendBalances == InitialBalances \subseteq Nat
ASSUME SendBound == MaxInFlight \in Nat \ {0}

VARIABLES send,        \* progress of each request
          log,         \* the request's MessageLog row: status or "none"
          delivered    \* external: requests whose message Zalo accepted

sendVars == <<send, log, delivered>>
vars == <<walletVars, sendVars>>

Apis == {"messaging", "public"}
SendSteps == {"new", "checked", "accepted", "refused", "done", "rejected", "lost"}
Send == [step : SendSteps, api : Apis, seen : Int]

Cost(api) == IF api = "public" THEN PublicPrice ELSE MessagePrice
TopCost == IF PublicPrice > MessagePrice THEN PublicPrice ELSE MessagePrice
LeastCost == IF PublicPrice > MessagePrice THEN MessagePrice ELSE PublicPrice

InFlight == {s \in SendIds : send[s].step \in {"checked", "accepted"}}

SendTypeOK ==
  /\ WalletTypeOK
  /\ send \in [SendIds -> Send]
  /\ log \in [SendIds -> {"none", "SUCCESS", "FAILED"}]
  /\ delivered \in SUBSET SendIds

SendStart ==
  /\ send = [s \in SendIds |-> [step |-> "new", api |-> "messaging", seen |-> 0]]
  /\ log = [s \in SendIds |-> "none"]
  /\ delivered = {}

SendInit ==
  /\ \E b \in InitialBalances : wallet = AccountWith(TRUE, b)
  /\ ledger = <<>>
  /\ SendStart

-----------------------------------------------------------------------------
SendGoes(s, from, to) == /\ send[s].step = from
                         /\ send' = [send EXCEPT ![s].step = to]

(* Fault: any positive balance will do.                                    *)
SomeCredit(balance, cost) == balance > 0

Covers(balance, cost) == balance >= cost

(* The wallet is read and compared with the price.                         *)
CheckCredit(s, api) ==
  /\ send[s].step = "new"
  /\ Cardinality(InFlight) < MaxInFlight
  /\ send' = [send EXCEPT ![s] =
       [step |-> IF wallet.exists /\ Covers(wallet.balance, Cost(api))
                 THEN "checked" ELSE "rejected",
        api  |-> api,
        seen |-> wallet.balance]]
  /\ UNCHANGED <<walletVars, log, delivered>>

(* dispatchZnsTemplate: the OA's token, then the call to Zalo.             *)
DispatchAccepted(s) ==
  /\ SendGoes(s, "checked", "accepted")
  /\ delivered' = delivered \cup {s}
  /\ UNCHANGED <<walletVars, log>>

(* It throws; the message may have reached Zalo before the answer was lost.*)
DispatchThrows(s) ==
  /\ SendGoes(s, "checked", "refused")
  /\ delivered' \in {delivered, delivered \cup {s}}
  /\ UNCHANGED <<walletVars, log>>

LogFailure(s) ==
  /\ SendGoes(s, "refused", "done")
  /\ log' = [log EXCEPT ![s] = "FAILED"]
  /\ UNCHANGED <<walletVars, delivered>>

(* Fault: the debit writes the balance computed from the earlier read.     *)
DebitedAbsolutely(w, api, seen) ==
  [w EXCEPT !.balance = seen - Cost(api),
            !.totalSpent = IF api = "public" THEN @ + PublicPrice ELSE @]

(* Only the public API adds to totalSpent.                                 *)
Debited(w, api, seen) ==
  [w EXCEPT !.balance = @ - Cost(api),
            !.totalSpent = IF api = "public" THEN @ + PublicPrice ELSE @]

(* Fault: the SUCCESS log is written whether or not the debit went through,*)
(* in a transaction of its own.                                            *)
LogWithoutCharge(s) ==
  /\ SendGoes(s, "accepted", "done")
  /\ log' = [log EXCEPT ![s] = "SUCCESS"]
  /\ UNCHANGED <<walletVars, delivered>>

(* The transaction after the message was sent.                             *)
Charge(s) ==
  LET api  == send[s].api
      seen == send[s].seen
  IN  /\ SendGoes(s, "accepted", "done")
      /\ wallet' = Debited(wallet, api, seen)
      /\ Post("MESSAGE_DEBIT", s, Cost(api), seen, seen - Cost(api))
      /\ log' = [log EXCEPT ![s] = "SUCCESS"]
      /\ UNCHANGED delivered

(* The server dies, or the transaction or the failure log throws.          *)
CrashSend(s) ==
  /\ send[s].step \in {"checked", "accepted", "refused"}
  /\ send' = [send EXCEPT ![s].step = "lost"]
  /\ UNCHANGED <<walletVars, log, delivered>>

-----------------------------------------------------------------------------
SendStep(s) == \/ \E api \in Apis : CheckCredit(s, api)
               \/ DispatchAccepted(s) \/ DispatchThrows(s)
               \/ LogFailure(s) \/ Charge(s) \/ CrashSend(s)

SendNext == \E s \in SendIds : SendStep(s)

SendSpec == SendInit /\ [][SendNext]_vars

-----------------------------------------------------------------------------
(* Properties                                                              *)

(* A request's journal row and its SUCCESS log exist together, once, and   *)
(* only for a message Zalo accepted: nobody pays for a message that was    *)
(* not sent or that is logged as FAILED, whatever crashes or is lost.      *)
ChargedIffLogged ==
  /\ \A s \in SendIds : /\ Posted("MESSAGE_DEBIT", s) <=> log[s] = "SUCCESS"
                        /\ log[s] = "SUCCESS" => s \in delivered
  /\ \A i, j \in DOMAIN ledger :
       /\ ledger[i].type = "MESSAGE_DEBIT" /\ ledger[j].type = "MESSAGE_DEBIT"
       /\ ledger[i].source = ledger[j].source
       => i = j

(* Check and debit are apart, so overlapping requests can overdraw the     *)
(* wallet; but never by more than the overlap: the last one checked was    *)
(* covered, and at most MaxInFlight - 1 others were debited after it.      *)
OverdraftBounded ==
  wallet.balance >= LeastCost - TopCost * (MaxInFlight - Cardinality(InFlight))
=============================================================================
