-------------------------------- MODULE Topups --------------------------------
(***************************************************************************)
(* TopupsService: a workspace owner buys credits.  createTopupWithPay2S    *)
(* writes a PENDING topup request, asks Pay2S for a collection link and    *)
(* stores its QR code; Pay2S, once the customer has paid, calls the        *)
(* webhook until it is answered with success; the webhook credits the      *)
(* wallet and writes the order and its invoice.                            *)
(*                                                                         *)
(* Creation calls and webhook calls interleave at every await.  Pay2S is   *)
(* external: it may fail to answer, answer without a QR code, deliver a    *)
(* notification several times, late, and several at once.  The payer can   *)
(* only pay through the QR code, so a payment presupposes that the QR code *)
(* was stored.  A notification of a failed payment (resultCode # 0) or of  *)
(* a topupCode nobody knows is answered without touching any state and is  *)
(* not modelled.                                                           *)
(*                                                                         *)
(* The webhook is a public route.  It does not look at the signature (dto. *)
(* signature is optional, verifyPay2sSignature has no caller), nor whether *)
(* the amount of the notification is that of the topup: it takes both the  *)
(* topupCode and the amount from the body.  So notifications that do not   *)
(* report a payment of the topup's amount (another sum was transferred, or *)
(* it does not come from Pay2S at all) are part of the environment here:   *)
(* strays, any amount for any topup at any time, up to MaxStrays.  What is *)
(* said of payments alone is said under the condition that there are none. *)
(***************************************************************************)
EXTENDS WalletStore, FiniteSets

CONSTANTS TopupIds,      \* topup requests (topupCode)
          Amount,        \* Amount[t]: what the customer pays for t
          StrayAmounts,  \* amounts that notifications without a payment report
          Handlers,      \* webhook requests served at the same time
          MaxCrashes,    \* bound: server crashes and lost database sessions
          MaxLostReplies,\* bound: committed writes reported as failed
          MaxStrays,     \* bound: notifications without a payment
          NoTopup        \* "no topup request"

ASSUME TopupSources == TopupIds \subseteq Sources
ASSUME TopupAmounts == Amount \in [TopupIds -> Nat] /\ StrayAmounts \subseteq Int
ASSUME TopupBounds  == MaxCrashes \in Nat /\ MaxLostReplies \in Nat /\ MaxStrays \in Nat
ASSUME NoTopupIsNone == NoTopup \notin TopupIds

VARIABLES topup,      \* TopupRequest rows: status and whether qrCodeUrl is set
          order,      \* topups that have an Order (with items) and its Invoice
          call,       \* progress of createTopupWithPay2S for each topup
          handler,    \* webhook requests being served
          pay2s,      \* external: Pay2S's collection request for each topup
          strays,     \* external: <<topup, amount>> of notifications without a payment
          answers,    \* HTTP answers given to the notifications of each topup
          crashes,    \* number of crashes so far
          lostReplies \* number of committed writes reported as failed so far

topupVars == <<topup, order, call, handler, pay2s, strays, answers, crashes, lostReplies>>
vars == <<walletVars, topupVars>>

CallSteps == {"idle", "created", "saving", "failing", "returned", "failed", "lost"}
TopupRequest == [status : {"none", "PENDING", "PAID", "FAILED"}, qr : BOOLEAN]
Handler   == [step   : {"idle", "found", "read"},
              topup  : TopupIds \cup {NoTopup},
              amount : Int,     \* amountPaid, from the body of the notification
              seen   : Int]     \* balanceBefore

Idle == [step |-> "idle", topup |-> NoTopup, amount |-> 0, seen |-> 0]

TopupTypeOK ==
  /\ WalletTypeOK
  /\ topup \in [TopupIds -> TopupRequest]
  /\ order \in SUBSET TopupIds
  /\ call \in [TopupIds -> CallSteps]
  /\ handler \in [Handlers -> Handler]
  /\ pay2s \in [TopupIds -> {"none", "open", "paid"}]
  /\ strays \in SUBSET (TopupIds \X StrayAmounts)
  /\ answers \in [TopupIds -> SUBSET {200, 500}]
  /\ crashes \in 0..MaxCrashes
  /\ lostReplies \in 0..MaxLostReplies

TopupStart ==
  /\ topup = [t \in TopupIds |-> [status |-> "none", qr |-> FALSE]]
  /\ order = {}
  /\ call = [t \in TopupIds |-> "idle"]
  /\ handler = [h \in Handlers |-> Idle]
  /\ pay2s = [t \in TopupIds |-> "none"]
  /\ strays = {}
  /\ answers = [t \in TopupIds |-> {}]
  /\ crashes = 0
  /\ lostReplies = 0

(* Registration creates the wallet after the user, in a statement of its   *)
(* own: an owner may reach a topup with or without one.                    *)
TopupInit ==
  /\ wallet \in {AccountWith(e, 0) : e \in BOOLEAN}
  /\ ledger = <<>>
  /\ TopupStart

-----------------------------------------------------------------------------
(* createTopupWithPay2S                                                    *)

GoTo(t, from, to) == /\ call[t] = from
                     /\ call' = [call EXCEPT ![t] = to]

LoseReply == /\ lostReplies < MaxLostReplies
             /\ lostReplies' = lostReplies + 1

(* The wallet is upserted, then the PENDING request is inserted.           *)
CreateTopup(t) ==
  /\ GoTo(t, "idle", "created")
  /\ wallet' = [wallet EXCEPT !.exists = TRUE]
  /\ topup' = [topup EXCEPT ![t].status = "PENDING"]
  /\ UNCHANGED <<ledger, order, handler, pay2s, strays, answers, crashes, lostReplies>>

(* The money account or the Pay2S settings are unusable, or Pay2S could    *)
(* not be reached or refused the request.                                  *)
LinkRefused(t) ==
  /\ GoTo(t, "created", "failing")
  /\ UNCHANGED <<walletVars, topup, order, handler, pay2s, strays, answers, crashes, lostReplies>>

(* Pay2S opened a collection request but its answer was lost (30 s timeout)*)
(* or carries no QR code.                                                  *)
LinkUnusable(t) ==
  /\ GoTo(t, "created", "failing")
  /\ pay2s' = [pay2s EXCEPT ![t] = "open"]
  /\ UNCHANGED <<walletVars, topup, order, handler, strays, answers, crashes, lostReplies>>

LinkOpened(t) ==
  /\ GoTo(t, "created", "saving")
  /\ pay2s' = [pay2s EXCEPT ![t] = "open"]
  /\ UNCHANGED <<walletVars, topup, order, handler, strays, answers, crashes, lostReplies>>

(* The image is written to disk and qrCodeUrl stored.                      *)
SaveQr(t) ==
  /\ GoTo(t, "saving", "returned")
  /\ topup' = [topup EXCEPT ![t].qr = TRUE]
  /\ UNCHANGED <<walletVars, order, handler, pay2s, strays, answers, crashes, lostReplies>>

(* Fault: a step after the QR code was stored throws.                      *)
FailsAfterSave(t) ==
  /\ GoTo(t, "saving", "failing")
  /\ topup' = [topup EXCEPT ![t].qr = TRUE]
  /\ UNCHANGED <<walletVars, order, handler, pay2s, strays, answers, crashes, lostReplies>>

(* Writing the image or the row throws; when the reply of the database was *)
(* lost the row is written all the same.                                   *)
SaveQrFails(t) ==
  /\ GoTo(t, "saving", "failing")
  /\ \/ UNCHANGED <<topup, lostReplies>>
     \/ LoseReply /\ topup' = [topup EXCEPT ![t].qr = TRUE]
  /\ UNCHANGED <<walletVars, order, handler, pay2s, strays, answers, crashes>>

(* Fault: the request is closed as EXPIRED.                                *)
MarkExpired(t) ==
  /\ GoTo(t, "failing", "failed")
  /\ topup' = [topup EXCEPT ![t].status = "EXPIRED"]
  /\ UNCHANGED <<walletVars, order, handler, pay2s, strays, answers, crashes, lostReplies>>

(* The catch block: whatever the row says now, it becomes FAILED.          *)
MarkFailed(t) ==
  /\ GoTo(t, "failing", "failed")
  /\ topup' = [topup EXCEPT ![t].status = "FAILED"]
  /\ UNCHANGED <<walletVars, order, handler, pay2s, strays, answers, crashes, lostReplies>>

(* The server dies, or (in the catch block) the update throws and the      *)
(* error is only logged: nothing resumes the call.                         *)
CrashCall(t) ==
  /\ crashes < MaxCrashes
  /\ call[t] \in {"created", "saving", "failing"}
  /\ call' = [call EXCEPT ![t] = "lost"]
  /\ crashes' = crashes + 1
  /\ UNCHANGED <<walletVars, topup, order, handler, pay2s, strays, answers, lostReplies>>

-----------------------------------------------------------------------------
(* The customer and Pay2S                                                  *)

PayQr(t) ==
  /\ pay2s[t] = "open"
  /\ topup[t].qr
  /\ pay2s' = [pay2s EXCEPT ![t] = "paid"]
  /\ UNCHANGED <<walletVars, topup, order, call, handler, strays, answers, crashes, lostReplies>>

(* A notification of success for t that reports the amount a, and no       *)
(* payment of Amount[t] behind it.                                         *)
StrayNotice(t, a) ==
  /\ Cardinality(strays) < MaxStrays
  /\ strays' = strays \cup {<<t, a>>}
  /\ UNCHANGED <<walletVars, topup, order, call, handler, pay2s, answers, crashes, lostReplies>>

(* A notification that reports the amount a for t may arrive, any number   *)
(* of times: Pay2S reports what was paid.                                  *)
Announced(t, a) == \/ pay2s[t] = "paid" /\ a = Amount[t]
                   \/ <<t, a>> \in strays

Answer(t, code) == answers' = [answers EXCEPT ![t] = @ \cup {code}]

-----------------------------------------------------------------------------
(* handlePay2sWebhook                                                      *)

(* Fault: only a PENDING request is processed.                             *)
NotPending(t) == topup[t].status # "PENDING"

AlreadyProcessed(t) == topup[t].status = "PAID"

Found(t, a) == [step |-> "found", topup |-> t, amount |-> a, seen |-> 0]

(* Fault: the request is marked PAID on arrival, before the transaction.   *)
FindAndMarkPaid(h, t, a) ==
  /\ handler[h].step = "idle"
  /\ Announced(t, a)
  /\ topup[t].status # "none"
  /\ ~AlreadyProcessed(t)
  /\ handler' = [handler EXCEPT ![h] = Found(t, a)]
  /\ topup' = [topup EXCEPT ![t].status = "PAID"]
  /\ UNCHANGED <<walletVars, order, call, pay2s, strays, answers, crashes, lostReplies>>

(* The request is looked up outside the transaction.  Whatever its status  *)
(* is, if it is not PAID the reported amount will be credited.             *)
FindTopup(h, t, a) ==
  /\ handler[h].step = "idle"
  /\ Announced(t, a)
  /\ topup[t].status # "none"
  /\ IF AlreadyProcessed(t)
     THEN Answer(t, 200) /\ UNCHANGED handler
     ELSE handler' = [handler EXCEPT ![h] = Found(t, a)] /\ UNCHANGED answers
  /\ UNCHANGED <<walletVars, topup, order, call, pay2s, strays, crashes, lostReplies>>

(* First statement of the transaction: the balance is read and the new     *)
(* balance computed from it.                                               *)
ReadWallet(h) ==
  /\ handler[h].step = "found"
  /\ wallet.exists
  /\ handler' = [handler EXCEPT ![h].step = "read", ![h].seen = wallet.balance]
  /\ UNCHANGED <<walletVars, topup, order, call, pay2s, strays, answers, crashes, lostReplies>>

(* Fault: random codes, no unique keys.                                    *)
NoUniqueKeys(t) == FALSE

(* TX_<topupCode>, ORD_<topupCode> and topupRequestId are unique keys.     *)
CodesTaken(t) == Posted("TOPUP_CREDIT", t) \/ t \in order

(* The row is set to the balance computed from the earlier read, whatever  *)
(* it is now, and totalTopup incremented.                                  *)
Credited(w, seen, amount) ==
  [w EXCEPT !.balance = seen + amount, !.totalTopup = @ + amount]

(* Fault: the credit is made if the balance is still the one that was      *)
(* read, and nobody looks whether it was.                                  *)
CreditIfUnmoved(h) ==
  LET t    == handler[h].topup
      paid == handler[h].amount
      seen == handler[h].seen
  IN  /\ handler[h].step = "read"
      /\ ~CodesTaken(t)
      /\ topup' = [topup EXCEPT ![t].status = "PAID"]
      /\ order' = order \cup {t}
      /\ IF wallet.balance = seen
         THEN /\ wallet' = Credited(wallet, seen, paid)
              /\ Post("TOPUP_CREDIT", t, paid, seen, seen + paid)
         ELSE UNCHANGED walletVars
      /\ Answer(t, 200)
      /\ handler' = [handler EXCEPT ![h] = Idle]
      /\ UNCHANGED <<call, pay2s, strays, crashes, lostReplies>>

(* The writes of the transaction, with the amount of the notification.     *)
(* When the reply of the commit is lost the request fails although the     *)
(* credit is permanent.                                                    *)
CommitCredit(h) ==
  LET t    == handler[h].topup
      paid == handler[h].amount
      seen == handler[h].seen
  IN  /\ handler[h].step = "read"
      /\ ~CodesTaken(t)
      /\ topup' = [topup EXCEPT ![t].status = "PAID"]
      /\ wallet' = Credited(wallet, seen, paid)
      /\ Post("TOPUP_CREDIT", t, paid, seen, seen + paid)
      /\ order' = order \cup {t}
      /\ \/ Answer(t, 200) /\ UNCHANGED lostReplies
         \/ Answer(t, 500) /\ LoseReply
      /\ handler' = [handler EXCEPT ![h] = Idle]
      /\ UNCHANGED <<call, pay2s, strays, crashes>>

(* A unique key is taken: the transaction rolls back, the request fails.   *)
RollBackCredit(h) ==
  /\ handler[h].step = "read"
  /\ CodesTaken(handler[h].topup)
  /\ Answer(handler[h].topup, 500)
  /\ handler' = [handler EXCEPT ![h] = Idle]
  /\ UNCHANGED <<walletVars, topup, order, call, pay2s, strays, crashes, lostReplies>>

CrashHandler(h) ==
  /\ crashes < MaxCrashes
  /\ handler[h].step # "idle"
  /\ handler' = [handler EXCEPT ![h] = Idle]
  /\ crashes' = crashes + 1
  /\ UNCHANGED <<walletVars, topup, order, call, pay2s, strays, answers, lostReplies>>

-----------------------------------------------------------------------------
CallStep(t) == \/ CreateTopup(t) \/ LinkRefused(t) \/ LinkUnusable(t) \/ LinkOpened(t)
               \/ SaveQr(t) \/ SaveQrFails(t) \/ MarkFailed(t) \/ CrashCall(t)

HandlerStep(h) == \/ \E t \in TopupIds : \E a \in StrayAmounts \cup {Amount[t]} : FindTopup(h, t, a)
                  \/ ReadWallet(h) \/ CommitCredit(h) \/ RollBackCredit(h)
                  \/ CrashHandler(h)

TopupNext == \/ \E t \in TopupIds : CallStep(t) \/ PayQr(t)
             \/ \E t \in TopupIds : \E a \in StrayAmounts : StrayNotice(t, a)
             \/ \E h \in Handlers : HandlerStep(h)

TopupSpec == TopupInit /\ [][TopupNext]_vars

(* Pay2S repeats a notification until it is answered with success, so a    *)
(* paid and unanswered request reaches a free handler again and again (it  *)
(* is not assumed to go on once a stray for the same topup was answered so)*)
(* A request being served runs to its end unless the server crashes.       *)
Redeliver(t) ==
  /\ pay2s[t] = "paid"
  /\ 200 \notin answers[t]
  /\ \E h \in Handlers : FindTopup(h, t, Amount[t])

TopupFairness ==
  /\ \A t \in TopupIds : SF_vars(Redeliver(t))
  /\ \A h \in Handlers : WF_vars(ReadWallet(h) \/ CommitCredit(h) \/ RollBackCredit(h))

FairTopupSpec == TopupSpec /\ TopupFairness

-----------------------------------------------------------------------------
(* Properties                                                              *)

(* handlePay2sWebhook: however many notifications of one topup are served  *)
(* at once or again later, the journal has at most one credit row for it.  *)
CreditedOnce ==
  \A i, j \in DOMAIN ledger :
    /\ ledger[i].type = "TOPUP_CREDIT"
    /\ ledger[j].type = "TOPUP_CREDIT"
    /\ ledger[i].source = ledger[j].source
    => i = j

(* Credit row and order with invoice stand or fall together, and a topup   *)
(* that reads PAID has them.  Every credit is one a notification announced *)
(* for that topup: while there are no strays, what the customer paid and   *)
(* no other sum, however notifications of several topups overlap.          *)
CreditDocumented ==
  /\ \A t \in TopupIds : /\ Posted("TOPUP_CREDIT", t) <=> t \in order
                         /\ topup[t].status = "PAID" => t \in order
  /\ \A i \in DOMAIN ledger :
       ledger[i].type = "TOPUP_CREDIT" => /\ ledger[i].source \in TopupIds
                                          /\ Announced(ledger[i].source, ledger[i].amount)

(* The catch block of the creation call is the only step that can hide a   *)
(* credit behind another status, and it cannot while every failed write    *)
(* was really not made and nothing but a payment is announced: then a      *)
(* topup is credited iff it reads PAID.  A FAILED one was never paid for,  *)
(* strays or not.                                                          *)
StatusTellsCredit ==
  \A t \in TopupIds :
    /\ call[t] # "failed" \/ (lostReplies = 0 /\ \A a \in StrayAmounts : <<t, a>> \notin strays)
         => (t \in order <=> topup[t].status = "PAID")
    /\ lostReplies = 0 => (topup[t].status = "FAILED" => pay2s[t] # "paid")

(* The credits of the journal, as pairs of a topup and an amount.          *)
CreditRows == {i \in DOMAIN ledger : ledger[i].type = "TOPUP_CREDIT"}
CreditsPosted == {<<ledger[i].source, ledger[i].amount>> : i \in CreditRows}

(* The module implements the abstract promise: credits happen once, for    *)
(* an amount that was announced, and every payment is eventually met by a  *)
(* credit although notifications are lost, repeated and interrupted.       *)
Promise == INSTANCE PaymentCredit
             WITH Payments <- TopupIds,
                  Others   <- StrayAmounts,
                  paid     <- {t \in TopupIds : pay2s[t] = "paid"},
                  strays   <- strays,
                  credited <- CreditsPosted,
                  total    <- wallet.totalTopup

ImplementsPromise == Promise!FairSpec

(* "chi cong vi mot lan": one credit per payment reaches the balance.      *)
(* Nothing is spent here, so the balance should be what was topped up.     *)
BalanceHoldsCredits == wallet.balance = wallet.totalTopup
=============================================================================
