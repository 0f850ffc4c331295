---------------------------- MODULE Topups_proofs ----------------------------
(***************************************************************************)
(* Theorems about Topups, for every set of topups and handlers, every      *)
(* amount and every number of crashes and lost database replies.           *)
(***************************************************************************)
EXTENDS Topups, TLAPS

(* What ties a webhook request to the notification it serves: it carries   *)
(* the amount announced for its topup, and that topup was created; nobody  *)
(* pays before the link exists.                                            *)
ServesNotice ==
  /\ \A h \in Handlers : handler[h].step # "idle" =>
       /\ handler[h].topup \in TopupIds
       /\ call[handler[h].topup] # "idle"
       /\ Announced(handler[h].topup, handler[h].amount)
  /\ \A t \in TopupIds : /\ call[t] \in {"idle", "created"} => pay2s[t] = "none"
                         /\ call[t] = "idle" => topup[t].status = "none"

TypeInv == TopupTypeOK /\ ServesNotice

-----------------------------------------------------------------------------
(* The rows and records the actions build have their types.                *)

LEMMA StatusTyped ==
  ASSUME TopupTypeOK, NEW t \in TopupIds, NEW st \in {"PENDING", "PAID", "FAILED"}
  PROVE  [topup EXCEPT ![t].status = st] \in [TopupIds -> TopupRequest]
<1>1. topup[t] \in TopupRequest
  BY DEF TopupTypeOK
<1>2. [topup[t] EXCEPT !.status = st] \in TopupRequest
  BY <1>1 DEF TopupRequest
<1> QED  BY <1>2 DEF TopupTypeOK

LEMMA QrTyped ==
  ASSUME TopupTypeOK, NEW t \in TopupIds, NEW b \in BOOLEAN
  PROVE  [topup EXCEPT ![t].qr = b] \in [TopupIds -> TopupRequest]
<1>1. topup[t] \in TopupRequest
  BY DEF TopupTypeOK
<1>2. [topup[t] EXCEPT !.qr = b] \in TopupRequest
  BY <1>1 DEF TopupRequest
<1> QED  BY <1>2 DEF TopupTypeOK

LEMMA IdleTyped == Idle \in Handler
BY DEF Idle, Handler

LEMMA RowAfterStatus ==
  ASSUME TopupTypeOK, NEW t \in TopupIds, NEW st, topup' = [topup EXCEPT ![t].status = st],
         NEW u \in TopupIds
  PROVE  /\ topup'[u].qr = topup[u].qr
         /\ topup'[u].status = IF u = t THEN st ELSE topup[u].status
<1>1. topup \in [TopupIds -> TopupRequest] /\ topup[u] \in TopupRequest
  BY DEF TopupTypeOK
<1> QED  BY <1>1 DEF TopupRequest

LEMMA RowAfterQr ==
  ASSUME TopupTypeOK, NEW t \in TopupIds, NEW b, topup' = [topup EXCEPT ![t].qr = b],
         NEW u \in TopupIds
  PROVE  /\ topup'[u].status = topup[u].status
         /\ topup'[u].qr = IF u = t THEN b ELSE topup[u].qr
<1>1. topup \in [TopupIds -> TopupRequest] /\ topup[u] \in TopupRequest
  BY DEF TopupTypeOK
<1> QED  BY <1>1 DEF TopupRequest

(* A credit row appended to the journal: the journal keeps its type, its   *)
(* old rows, and the new row is the credit of t.                           *)
LEMMA PostCredit ==
  ASSUME ledger \in Seq(WalletTransaction), NEW t \in TopupIds,
         NEW amount \in Int, NEW before \in Int, NEW after \in Int,
         Post("TOPUP_CREDIT", t, amount, before, after)
  PROVE  /\ ledger' \in Seq(WalletTransaction)
         /\ DOMAIN ledger = 1..Len(ledger)
         /\ DOMAIN ledger' = 1..(Len(ledger) + 1)
         /\ \A i \in 1..Len(ledger) : ledger'[i] = ledger[i]
         /\ ledger'[Len(ledger) + 1].type = "TOPUP_CREDIT"
         /\ ledger'[Len(ledger) + 1].source = t
         /\ ledger'[Len(ledger) + 1].amount = amount
<1> DEFINE new == [type |-> "TOPUP_CREDIT", source |-> t, amount |-> amount,
                   balanceBefore |-> before, balanceAfter |-> after]
<1>1. new \in WalletTransaction
  BY TopupSources DEF WalletTransaction, WalletTransactionType
<1>2. ledger' = Append(ledger, new)
  BY DEF Post
<1>3. new.type = "TOPUP_CREDIT" /\ new.source = t /\ new.amount = amount
  OBVIOUS
<1> HIDE DEF new
<1> QED  BY <1>1, <1>2, <1>3

-----------------------------------------------------------------------------
LEMMA TypeInit == TopupInit => TypeInv
BY TopupBounds
   DEF TopupInit, TopupStart, TypeInv, ServesNotice, TopupTypeOK, WalletTypeOK,
       WalletAccount, AccountWith, TopupRequest, Handler, Idle, CallSteps

(* What was announced stays announced: payments and strays are final.      *)
LEMMA PaymentIsFinal ==
  ASSUME TypeInv, [TopupNext]_vars
  PROVE  /\ \A u \in TopupIds : pay2s[u] = "paid" => pay2s'[u] = "paid"
         /\ strays \subseteq strays'
<1>1. ASSUME NEW u \in TopupIds, pay2s[u] = "paid" PROVE pay2s'[u] = "paid"
  <2>1. ASSUME NEW t \in TopupIds, LinkUnusable(t) \/ LinkOpened(t)
        PROVE  pay2s'[u] = "paid"
    BY <1>1, <2>1 DEF LinkUnusable, LinkOpened, GoTo, TypeInv, ServesNotice, TopupTypeOK
  <2>2. ASSUME NEW t \in TopupIds, PayQr(t) PROVE pay2s'[u] = "paid"
    BY <1>1, <2>2 DEF PayQr, TypeInv, TopupTypeOK
  <2>3. CASE UNCHANGED pay2s
    BY <1>1, <2>3
  <2> QED
    BY <2>1, <2>2, <2>3 DEF TopupNext, CallStep, HandlerStep, CreateTopup, LinkRefused,
       SaveQr, SaveQrFails, MarkFailed, CrashCall, StrayNotice, FindTopup, ReadWallet,
       CommitCredit, RollBackCredit, CrashHandler, vars, topupVars
<1>2. strays \subseteq strays'
  BY DEF TopupNext, CallStep, HandlerStep, CreateTopup, LinkRefused, LinkUnusable,
     LinkOpened, SaveQr, SaveQrFails, MarkFailed, CrashCall, PayQr, StrayNotice, FindTopup,
     ReadWallet, CommitCredit, RollBackCredit, CrashHandler, vars, topupVars
<1> QED  BY <1>1, <1>2

(* A step that leaves the requests alone and neither forgets a call nor    *)
(* shows the status of one that did not begin keeps the tie.               *)
LEMMA TieKept ==
  ASSUME TypeInv, [TopupNext]_vars,
         \A h \in Handlers : handler'[h].step # "idle" =>
           /\ handler[h].step # "idle"
           /\ handler'[h].topup = handler[h].topup
           /\ handler'[h].amount = handler[h].amount,
         \A t \in TopupIds : /\ call[t] # "idle" => call'[t] # "idle"
                             /\ call'[t] \in {"idle", "created"} => pay2s'[t] = "none"
                             /\ call'[t] = "idle" => topup'[t].status = topup[t].status
  PROVE  ServesNotice'
<1>1. ASSUME NEW h \in Handlers, handler'[h].step # "idle"
      PROVE  /\ handler'[h].topup \in TopupIds
             /\ call'[handler'[h].topup] # "idle"
             /\ Announced(handler[h].topup, handler[h].amount)'
  <2>1. /\ handler[h].step # "idle"
        /\ handler'[h].topup = handler[h].topup
        /\ handler'[h].amount = handler[h].amount
    BY <1>1
  <2>2. /\ handler[h].topup \in TopupIds
        /\ call[handler[h].topup] # "idle"
        /\ Announced(handler[h].topup, handler[h].amount)
    BY <2>1 DEF TypeInv, ServesNotice
  <2>3. Announced(handler[h].topup, handler[h].amount)'
    BY <2>1, <2>2, PaymentIsFinal DEF Announced
  <2> QED  BY <2>1, <2>2, <2>3 DEF Announced
<1>2. ASSUME NEW t \in TopupIds, call'[t] = "idle" PROVE topup'[t].status = "none"
  <2>1. call[t] = "idle" => topup[t].status = "none"
    BY DEF TypeInv, ServesNotice
  <2> QED  BY <1>2, <2>1
<1>3. \A t \in TopupIds : call'[t] \in {"idle", "created"} => pay2s'[t] = "none"
  OBVIOUS
<1> QED  BY <1>1, <1>2, <1>3 DEF ServesNotice, Announced

LEMMA TypeStep == TypeInv /\ [TopupNext]_vars => TypeInv'
<1> SUFFICES ASSUME TypeInv, [TopupNext]_vars PROVE TopupTypeOK' /\ ServesNotice'
  BY DEF TypeInv
<1> USE TopupBounds
<1>0. /\ TopupTypeOK
      /\ \A t \in TopupIds : /\ call[t] \in {"idle", "created"} => pay2s[t] = "none"
                             /\ call[t] = "idle" => topup[t].status = "none"
  BY DEF TypeInv, ServesNotice
<1> USE DEF TopupTypeOK, WalletTypeOK, GoTo, CallSteps
<1>1. ASSUME NEW t \in TopupIds, CreateTopup(t) PROVE TopupTypeOK' /\ ServesNotice'
  <2>1. topup' \in [TopupIds -> TopupRequest]
    BY <1>0, <1>1, StatusTyped DEF CreateTopup
  <2>2. wallet' \in WalletAccount
    BY <1>0, <1>1 DEF CreateTopup, WalletAccount
  <2>3. \A u \in TopupIds : u # t => topup'[u] = topup[u]
    BY <1>0, <1>1 DEF CreateTopup
  <2>4. ServesNotice'
    BY <1>0, <1>1, <2>3, TieKept DEF CreateTopup
  <2> QED  BY <1>0, <1>1, <2>1, <2>2, <2>4 DEF CreateTopup
<1>2. ASSUME NEW t \in TopupIds,
             LinkRefused(t) \/ LinkUnusable(t) \/ LinkOpened(t) \/ CrashCall(t) \/ PayQr(t)
      PROVE  TopupTypeOK' /\ ServesNotice'
  <2>1. topup' = topup /\ handler' = handler
    BY <1>2 DEF LinkRefused, LinkUnusable, LinkOpened, CrashCall, PayQr
  <2>2. \A u \in TopupIds : /\ call[u] # "idle" => call'[u] # "idle"
                            /\ call'[u] \in {"idle", "created"} => pay2s'[u] = "none"
                            /\ call'[u] = "idle" => call[u] = "idle"
    BY <1>0, <1>2 DEF LinkRefused, LinkUnusable, LinkOpened, CrashCall, PayQr
  <2>3. ServesNotice'
    BY <2>1, <2>2, TieKept
  <2>4. TopupTypeOK'
    BY <1>0, <1>2 DEF LinkRefused, LinkUnusable, LinkOpened, CrashCall, PayQr, walletVars
  <2> QED  BY <2>3, <2>4
<1>3. ASSUME NEW t \in TopupIds, SaveQr(t) \/ SaveQrFails(t)
      PROVE  TopupTypeOK' /\ ServesNotice'
  <2>1. \/ topup' = topup
        \/ topup' = [topup EXCEPT ![t].qr = TRUE]
    BY <1>3 DEF SaveQr, SaveQrFails
  <2>2. topup' \in [TopupIds -> TopupRequest]
    <3>1. TRUE \in BOOLEAN
      OBVIOUS
    <3>2. [topup EXCEPT ![t].qr = TRUE] \in [TopupIds -> TopupRequest]
      BY <1>0, <3>1, QrTyped
    <3> QED  BY <1>0, <2>1, <3>2
  <2>3. \A u \in TopupIds : topup'[u].status = topup[u].status
    <3> SUFFICES ASSUME NEW u \in TopupIds PROVE topup'[u].status = topup[u].status
      OBVIOUS
    <3>1. topup[u] \in TopupRequest
      BY <1>0
    <3> QED  BY <1>0, <2>1, <3>1 DEF TopupRequest
  <2>4. lostReplies' \in 0..MaxLostReplies
    BY <1>0, <1>3 DEF SaveQr, SaveQrFails, LoseReply
  <2>5. /\ handler' = handler /\ pay2s' = pay2s
        /\ \A u \in TopupIds : /\ call[u] # "idle" => call'[u] # "idle"
                               /\ call'[u] \in {"idle", "created"} => call'[u] = call[u]
    BY <1>0, <1>3 DEF SaveQr, SaveQrFails
  <2>6. ServesNotice'
    BY <1>0, <2>3, <2>5, TieKept
  <2> QED  BY <1>0, <1>3, <2>2, <2>4, <2>6 DEF SaveQr, SaveQrFails, walletVars
<1>4. ASSUME NEW t \in TopupIds, MarkFailed(t) PROVE TopupTypeOK' /\ ServesNotice'
  <2>1. topup' \in [TopupIds -> TopupRequest]
    BY <1>0, <1>4, StatusTyped DEF MarkFailed
  <2>2. \A u \in TopupIds : u # t => topup'[u] = topup[u]
    BY <1>0, <1>4 DEF MarkFailed
  <2>3. ServesNotice'
    BY <1>0, <1>4, <2>2, TieKept DEF MarkFailed
  <2> QED  BY <1>0, <1>4, <2>1, <2>3 DEF MarkFailed, walletVars
<1>5. ASSUME NEW t \in TopupIds, NEW a \in StrayAmounts, StrayNotice(t, a)
      PROVE  TopupTypeOK' /\ ServesNotice'
  <2>1. <<t, a>> \in TopupIds \X StrayAmounts
    OBVIOUS
  <2>2. strays' \in SUBSET (TopupIds \X StrayAmounts)
    BY <1>0, <1>5, <2>1 DEF StrayNotice
  <2>3. ServesNotice'
    BY <1>0, <1>5, TieKept DEF StrayNotice
  <2> QED  BY <1>0, <1>5, <2>2, <2>3 DEF StrayNotice, walletVars
<1>6. ASSUME NEW h \in Handlers, NEW t \in TopupIds,
             NEW a \in StrayAmounts \cup {Amount[t]}, FindTopup(h, t, a)
      PROVE  TopupTypeOK' /\ ServesNotice'
  <2>1. a \in Int
    BY TopupAmounts
  <2>2. Found(t, a) \in Handler /\ Found(t, a).topup = t /\ Found(t, a).amount = a
    BY <2>1 DEF Found, Handler
  <2>3. CASE AlreadyProcessed(t)
    <3>1. ServesNotice'
      BY <1>0, <1>6, <2>3, TieKept DEF FindTopup
    <3> QED  BY <1>0, <1>6, <2>3, <3>1 DEF FindTopup, Answer, walletVars
  <2>4. CASE ~AlreadyProcessed(t)
    <3>1. handler' = [handler EXCEPT ![h] = Found(t, a)]
      BY <1>6, <2>4 DEF FindTopup
    <3>2. /\ Announced(t, a) /\ topup[t].status # "none"
          /\ UNCHANGED <<topup, call, pay2s, strays>>
      BY <1>6 DEF FindTopup
    <3>3. call[t] # "idle" /\ call' = call
      BY <1>0, <3>2
    <3>4. \A u \in TopupIds : \A b : Announced(u, b)' <=> Announced(u, b)
      BY <3>2 DEF Announced
    <3>5. ASSUME NEW g \in Handlers, handler'[g].step # "idle"
          PROVE  /\ handler'[g].topup \in TopupIds
                 /\ call'[handler'[g].topup] # "idle"
                 /\ Announced(handler[g].topup, handler[g].amount)'
      <4>1. CASE g = h
        <5>1. handler'[g] = Found(t, a)
          BY <1>0, <3>1, <4>1
        <5>2. Announced(t, a)'
          BY <3>2, <3>4
        <5>3. Announced(handler[g].topup, handler[g].amount)'
          BY <5>1, <5>2, <2>2 DEF Announced
        <5> QED  BY <5>1, <5>3, <2>2, <3>3
      <4>2. CASE g # h
        <5>1. handler'[g] = handler[g]
          BY <1>0, <3>1, <4>2
        <5>2. /\ handler[g].topup \in TopupIds
              /\ call[handler[g].topup] # "idle"
              /\ Announced(handler[g].topup, handler[g].amount)
          BY <5>1, <3>5 DEF TypeInv, ServesNotice
        <5>3. Announced(handler[g].topup, handler[g].amount)'
          BY <5>1, <5>2, <3>2 DEF Announced
        <5> QED  BY <5>1, <5>2, <5>3, <3>3
      <4> QED  BY <4>1, <4>2
    <3>6. ServesNotice'
      BY <1>0, <3>2, <3>5 DEF ServesNotice
    <3> QED  BY <1>0, <1>6, <2>2, <2>4, <3>1, <3>6 DEF FindTopup, walletVars
  <2> QED  BY <2>3, <2>4
<1>7. ASSUME NEW h \in Handlers, ReadWallet(h) PROVE TopupTypeOK' /\ ServesNotice'
  <2>1. wallet.balance \in Int
    BY <1>0 DEF WalletAccount
  <2>2. handler[h] \in Handler
    BY <1>0
  <2>3. [handler[h] EXCEPT !.step = "read", !.seen = wallet.balance] \in Handler
    BY ONLY <2>1, <2>2 DEF Handler
  <2>4. handler' \in [Handlers -> Handler]
    BY <1>0, <1>7, <2>3 DEF ReadWallet
  <2>5. \A g \in Handlers : handler'[g].step # "idle" =>
          /\ handler[g].step # "idle"
          /\ handler'[g].topup = handler[g].topup
          /\ handler'[g].amount = handler[g].amount
    BY <1>0, <1>7 DEF ReadWallet, Handler
  <2>6. ServesNotice'
    BY <1>0, <1>7, <2>5, TieKept DEF ReadWallet
  <2> QED  BY <1>0, <1>7, <2>4, <2>6 DEF ReadWallet, walletVars
<1>8. ASSUME NEW h \in Handlers, CommitCredit(h) PROVE TopupTypeOK' /\ ServesNotice'
  <2> DEFINE t    == handler[h].topup
             paid == handler[h].amount
             seen == handler[h].seen
  <2>1. t \in TopupIds /\ call[t] # "idle" /\ seen \in Int /\ paid \in Int
    <3>1. handler[h].step # "idle" /\ handler[h] \in Handler
      BY <1>0, <1>8 DEF CommitCredit
    <3> QED  BY <3>1 DEF TypeInv, ServesNotice, Handler
  <2>2. wallet' \in WalletAccount
    <3>1. /\ wallet.balance \in Int
          /\ wallet.totalTopup + paid \in Int
          /\ seen + paid \in Int
      BY <1>0, <2>1 DEF WalletAccount
    <3>2. [wallet EXCEPT !.balance = seen + paid,
                         !.totalTopup = wallet.totalTopup + paid] \in WalletAccount
      BY <1>0, <3>1 DEF WalletAccount
    <3> QED  BY <1>8, <3>2 DEF CommitCredit, Credited
  <2>3. ledger' \in Seq(WalletTransaction)
    <3>1. Post("TOPUP_CREDIT", t, paid, seen, seen + paid)
      BY <1>8 DEF CommitCredit
    <3>2. seen + paid \in Int /\ ledger \in Seq(WalletTransaction)
      BY <1>0, <2>1
    <3> HIDE DEF t, paid, seen
    <3> QED  BY <3>1, <3>2, <2>1, PostCredit
  <2>4. topup' = [topup EXCEPT ![t].status = "PAID"]
    BY <1>8 DEF CommitCredit
  <2>5. topup' \in [TopupIds -> TopupRequest]
    BY <1>0, <2>4, <2>1, StatusTyped
  <2>6. answers' \in [TopupIds -> SUBSET {200, 500}]
    BY <1>0, <1>8, <2>1 DEF CommitCredit, Answer
  <2>7. handler' \in [Handlers -> Handler]
    BY <1>0, <1>8, IdleTyped DEF CommitCredit
  <2>8. ServesNotice'
    <3>1. \A g \in Handlers : handler'[g].step # "idle" =>
            /\ handler[g].step # "idle"
            /\ handler'[g].topup = handler[g].topup
            /\ handler'[g].amount = handler[g].amount
      BY <1>0, <1>8 DEF CommitCredit, Idle
    <3>2. \A u \in TopupIds : u # t => topup'[u] = topup[u]
      BY <1>0, <2>4
    <3> QED  BY <1>0, <1>8, <2>1, <3>1, <3>2, TieKept DEF CommitCredit
  <2>9. lostReplies' \in 0..MaxLostReplies
    BY <1>0, <1>8 DEF CommitCredit, LoseReply
  <2> QED
    BY <1>0, <1>8, <2>1, <2>2, <2>3, <2>5, <2>6, <2>7, <2>8, <2>9 DEF CommitCredit
<1>9. ASSUME NEW h \in Handlers, RollBackCredit(h) \/ CrashHandler(h)
      PROVE  TopupTypeOK' /\ ServesNotice'
  <2>1. answers' \in [TopupIds -> SUBSET {200, 500}]
    BY <1>0, <1>9 DEF RollBackCredit, CrashHandler, Answer
  <2>2. handler' = [handler EXCEPT ![h] = Idle]
    BY <1>9 DEF RollBackCredit, CrashHandler
  <2>3. handler' \in [Handlers -> Handler]
    BY <1>0, <2>2, IdleTyped
  <2>4. \A g \in Handlers : handler'[g].step # "idle" => handler'[g] = handler[g]
    BY <1>0, <2>2 DEF Idle
  <2>5. ServesNotice'
    BY <1>0, <1>9, <2>4, TieKept DEF RollBackCredit, CrashHandler
  <2> QED  BY <1>0, <1>9, <2>1, <2>3, <2>5 DEF RollBackCredit, CrashHandler, walletVars
<1>10. CASE UNCHANGED vars
  <2>1. ServesNotice'
    BY <1>0, <1>10, TieKept DEF vars, topupVars
  <2> QED  BY <1>0, <1>10, <2>1 DEF vars, walletVars, topupVars
<1> QED
  BY <1>1, <1>2, <1>3, <1>4, <1>5, <1>6, <1>7, <1>8, <1>9, <1>10
     DEF TopupNext, CallStep, HandlerStep

(* Every variable keeps its type, and a webhook request only ever serves a *)
(* topup that was created, with an amount that was announced for it.       *)
THEOREM TypeCorrect == TopupSpec => [](TopupTypeOK /\ ServesNotice)
<1>1. TopupSpec => []TypeInv
  BY TypeInit, TypeStep, PTL DEF TopupSpec
<1> QED  BY <1>1, PTL DEF TypeInv

-----------------------------------------------------------------------------
(* The steps that reach the journal or the orders: only a commit does.     *)

LEMMA OnlyCommitPosts ==
  ASSUME TypeInv, [TopupNext]_vars,
         \A h \in Handlers : ~CommitCredit(h)
  PROVE  UNCHANGED <<ledger, order, wallet.totalTopup>>
<1>1. ASSUME NEW t \in TopupIds, CallStep(t) \/ PayQr(t)
      PROVE  UNCHANGED <<ledger, order, wallet.totalTopup>>
  <2>1. CASE CreateTopup(t)
    BY <2>1 DEF CreateTopup, TypeInv, TopupTypeOK, WalletTypeOK, WalletAccount
  <2>2. CASE ~CreateTopup(t)
    BY <1>1, <2>2 DEF CallStep, LinkRefused, LinkUnusable, LinkOpened, SaveQr,
       SaveQrFails, MarkFailed, CrashCall, PayQr, walletVars
  <2> QED  BY <2>1, <2>2
<1>2. ASSUME NEW t \in TopupIds, NEW a \in StrayAmounts, StrayNotice(t, a)
      PROVE  UNCHANGED <<ledger, order, wallet.totalTopup>>
  BY <1>2 DEF StrayNotice, walletVars
<1>3. ASSUME NEW h \in Handlers, HandlerStep(h)
      PROVE  UNCHANGED <<ledger, order, wallet.totalTopup>>
  BY <1>3 DEF HandlerStep, FindTopup, ReadWallet, RollBackCredit, CrashHandler, walletVars
<1>4. CASE UNCHANGED vars
  BY <1>4 DEF vars, walletVars, topupVars
<1> QED  BY <1>1, <1>2, <1>3, <1>4 DEF TopupNext

(* What a commit does to the journal and to the set of credited topups.    *)
LEMMA CommitPosts ==
  ASSUME TypeInv, NEW h \in Handlers, CommitCredit(h)
  PROVE  /\ handler[h].topup \in TopupIds
         /\ call[handler[h].topup] # "idle"
         /\ Announced(handler[h].topup, handler[h].amount)
         /\ ~Posted("TOPUP_CREDIT", handler[h].topup)
         /\ handler[h].topup \notin order
         /\ DOMAIN ledger = 1..Len(ledger) /\ Len(ledger) \in Nat
         /\ DOMAIN ledger' = 1..(Len(ledger) + 1)
         /\ \A i \in 1..Len(ledger) : ledger'[i] = ledger[i]
         /\ ledger'[Len(ledger) + 1].type = "TOPUP_CREDIT"
         /\ ledger'[Len(ledger) + 1].source = handler[h].topup
         /\ ledger'[Len(ledger) + 1].amount = handler[h].amount
<1> DEFINE t    == handler[h].topup
           paid == handler[h].amount
           seen == handler[h].seen
<1>1. /\ t \in TopupIds /\ seen \in Int /\ paid \in Int
      /\ call[t] # "idle" /\ Announced(t, paid)
  <2>1. handler[h].step # "idle"
    BY DEF CommitCredit
  <2>2. t \in TopupIds /\ call[t] # "idle" /\ Announced(t, paid)
    BY <2>1 DEF TypeInv, ServesNotice
  <2>3. handler[h] \in Handler
    BY DEF TypeInv, TopupTypeOK
  <2>4. seen \in Int /\ paid \in Int
    BY <2>3 DEF Handler
  <2> QED  BY <2>2, <2>4
<1>2. ledger \in Seq(WalletTransaction)
  BY DEF TypeInv, TopupTypeOK, WalletTypeOK
<1>3. Post("TOPUP_CREDIT", t, paid, seen, seen + paid) /\ ~CodesTaken(t)
  BY DEF CommitCredit
<1>4. seen + paid \in Int /\ Len(ledger) \in Nat
  BY <1>1, <1>2
<1> HIDE DEF seen, paid
<1>5. /\ DOMAIN ledger = 1..Len(ledger)
      /\ DOMAIN ledger' = 1..(Len(ledger) + 1)
      /\ \A i \in 1..Len(ledger) : ledger'[i] = ledger[i]
      /\ ledger'[Len(ledger) + 1].type = "TOPUP_CREDIT"
      /\ ledger'[Len(ledger) + 1].source = t
      /\ ledger'[Len(ledger) + 1].amount = paid
  BY <1>1, <1>2, <1>3, <1>4, PostCredit
<1> QED  BY <1>1, <1>3, <1>4, <1>5 DEF CodesTaken, paid

-----------------------------------------------------------------------------
LEMMA OnceInit == TopupInit => CreditedOnce
BY DEF TopupInit, CreditedOnce

LEMMA OnceStep == TypeInv /\ CreditedOnce /\ [TopupNext]_vars => CreditedOnce'
<1> SUFFICES ASSUME TypeInv, CreditedOnce, [TopupNext]_vars PROVE CreditedOnce'
  OBVIOUS
<1>1. CASE \A h \in Handlers : ~CommitCredit(h)
  BY <1>1, OnlyCommitPosts DEF CreditedOnce
<1>2. ASSUME NEW h \in Handlers, CommitCredit(h) PROVE CreditedOnce'
  <2> DEFINE t == handler[h].topup
             n == Len(ledger) + 1
  <2>1. \A i \in 1..Len(ledger) :
          ~(ledger[i].type = "TOPUP_CREDIT" /\ ledger[i].source = t)
    BY <1>2, CommitPosts DEF Posted
  <2>2. \A i \in DOMAIN ledger' : i \in 1..Len(ledger) \/ i = n
    BY <1>2, CommitPosts
  <2> QED  BY <1>2, <2>1, <2>2, CommitPosts DEF CreditedOnce
<1> QED  BY <1>1, <1>2

(* At most one credit row per topup, for any number of notifications       *)
(* served at once, whatever crashes and whatever reply is lost.            *)
THEOREM CreditedAtMostOnce == TopupSpec => []CreditedOnce
BY TypeInit, TypeStep, OnceInit, OnceStep, PTL DEF TopupSpec

-----------------------------------------------------------------------------
(* The orders: PAID topups have one, and it exists with the credit row.    *)

LEMMA PostedAfterCommit ==
  ASSUME TypeInv, NEW h \in Handlers, CommitCredit(h), NEW u \in TopupIds
  PROVE  Posted("TOPUP_CREDIT", u)'
           <=> Posted("TOPUP_CREDIT", u) \/ u = handler[h].topup
<1> DEFINE n == Len(ledger) + 1
<1>1. ASSUME u = handler[h].topup PROVE Posted("TOPUP_CREDIT", u)'
  <2>1. n \in DOMAIN ledger'
    BY CommitPosts
  <2> QED  BY <1>1, <2>1, CommitPosts DEF Posted
<1>2. ASSUME Posted("TOPUP_CREDIT", u) PROVE Posted("TOPUP_CREDIT", u)'
  BY <1>2, CommitPosts DEF Posted
<1>3. ASSUME Posted("TOPUP_CREDIT", u)', u # handler[h].topup
      PROVE  Posted("TOPUP_CREDIT", u)
  <2>1. PICK i \in DOMAIN ledger' :
          ledger'[i].type = "TOPUP_CREDIT" /\ ledger'[i].source = u
    BY <1>3 DEF Posted
  <2>2. i # n
    BY <1>3, <2>1, CommitPosts
  <2> QED  BY <2>1, <2>2, CommitPosts DEF Posted
<1> QED  BY <1>1, <1>2, <1>3

LEMMA OnlyCommitMarksPaid ==
  ASSUME TypeInv, [TopupNext]_vars,
         \A h \in Handlers : ~CommitCredit(h)
  PROVE  \A u \in TopupIds : topup'[u].status = "PAID" => topup[u].status = "PAID"
<1> SUFFICES ASSUME NEW u \in TopupIds, topup'[u].status = "PAID"
             PROVE  topup[u].status = "PAID"
  OBVIOUS
<1>1. topup \in [TopupIds -> TopupRequest] /\ topup[u] \in TopupRequest
  BY DEF TypeInv, TopupTypeOK
<1>2. ASSUME NEW t \in TopupIds, NEW st \in {"PENDING", "FAILED"},
             topup' = [topup EXCEPT ![t].status = st]
      PROVE  topup[u].status = "PAID"
  BY <1>1, <1>2 DEF TopupRequest
<1>3. ASSUME NEW t \in TopupIds, NEW b \in BOOLEAN, topup' = [topup EXCEPT ![t].qr = b]
      PROVE  topup[u].status = "PAID"
  BY <1>1, <1>3 DEF TopupRequest
<1>4. ASSUME NEW t \in TopupIds, CallStep(t) \/ PayQr(t)
      PROVE  topup[u].status = "PAID"
  <2>1. CASE CreateTopup(t) \/ MarkFailed(t)
    BY <1>2, <2>1 DEF CreateTopup, MarkFailed
  <2>2. CASE SaveQr(t) \/ SaveQrFails(t)
    BY <1>3, <2>2 DEF SaveQr, SaveQrFails
  <2>3. CASE LinkRefused(t) \/ LinkUnusable(t) \/ LinkOpened(t) \/ CrashCall(t) \/ PayQr(t)
    BY <2>3 DEF LinkRefused, LinkUnusable, LinkOpened, CrashCall, PayQr
  <2> QED  BY <1>4, <2>1, <2>2, <2>3 DEF CallStep
<1>5. ASSUME NEW h \in Handlers, HandlerStep(h) PROVE topup[u].status = "PAID"
  BY <1>5 DEF HandlerStep, FindTopup, ReadWallet, RollBackCredit, CrashHandler
<1>6. ASSUME NEW t \in TopupIds, NEW a \in StrayAmounts, StrayNotice(t, a)
      PROVE  topup[u].status = "PAID"
  BY <1>6 DEF StrayNotice
<1>7. CASE UNCHANGED vars
  BY <1>7 DEF vars, topupVars
<1> QED  BY <1>4, <1>5, <1>6, <1>7 DEF TopupNext

LEMMA DocumentedInit == TopupInit => CreditDocumented
BY DEF TopupInit, TopupStart, CreditDocumented, Posted

LEMMA DocumentedStep == TypeInv /\ CreditDocumented /\ [TopupNext]_vars => CreditDocumented'
<1> SUFFICES ASSUME TypeInv, CreditDocumented, [TopupNext]_vars PROVE CreditDocumented'
  OBVIOUS
<1>1. ASSUME \A h \in Handlers : ~CommitCredit(h) PROVE CreditDocumented'
  <2>1. ledger' = ledger /\ order' = order
    BY <1>1, OnlyCommitPosts
  <2>2. \A t \in TopupIds : topup'[t].status = "PAID" => topup[t].status = "PAID"
    BY <1>1, OnlyCommitMarksPaid
  <2>3. \A t \in TopupIds : Posted("TOPUP_CREDIT", t)' <=> Posted("TOPUP_CREDIT", t)
    BY <2>1 DEF Posted
  <2>4. ASSUME NEW i \in DOMAIN ledger', ledger'[i].type = "TOPUP_CREDIT"
        PROVE  ledger'[i].source \in TopupIds /\ Announced(ledger[i].source, ledger[i].amount)'
    <3>1. ledger[i].source \in TopupIds /\ Announced(ledger[i].source, ledger[i].amount)
      BY <2>1, <2>4 DEF CreditDocumented
    <3> QED  BY <2>1, <3>1, PaymentIsFinal DEF Announced
  <2> QED  BY <2>1, <2>2, <2>3, <2>4 DEF CreditDocumented
<1>2. ASSUME NEW h \in Handlers, CommitCredit(h) PROVE CreditDocumented'
  <2>1. order' = order \cup {handler[h].topup} /\ pay2s' = pay2s /\ strays' = strays
    BY <1>2 DEF CommitCredit
  <2>2. \A t \in TopupIds : t # handler[h].topup => topup'[t] = topup[t]
    BY <1>2 DEF CommitCredit, TypeInv, TopupTypeOK
  <2>3. ASSUME NEW i \in DOMAIN ledger', ledger'[i].type = "TOPUP_CREDIT"
        PROVE  ledger'[i].source \in TopupIds /\ Announced(ledger[i].source, ledger[i].amount)'
    <3>1. \/ i \in DOMAIN ledger /\ ledger'[i] = ledger[i]
          \/ ledger'[i].source = handler[h].topup /\ ledger'[i].amount = handler[h].amount
      BY <1>2, CommitPosts
    <3>2. handler[h].topup \in TopupIds /\ Announced(handler[h].topup, handler[h].amount)
      BY <1>2, CommitPosts
    <3> QED  BY <2>1, <2>3, <3>1, <3>2 DEF CreditDocumented, Announced
  <2>4. \A t \in TopupIds : /\ Posted("TOPUP_CREDIT", t)' <=> t \in order'
                            /\ topup'[t].status = "PAID" => t \in order'
    BY <1>2, <2>1, <2>2, CommitPosts, PostedAfterCommit DEF CreditDocumented
  <2> QED  BY <2>3, <2>4 DEF CreditDocumented
<1> QED  BY <1>1, <1>2

(* Credit row and order stand or fall together, a topup that reads PAID    *)
(* has both, and every credit is of a topup and an amount that a payment   *)
(* or a stray announced - also when committed writes are reported as       *)
(* failed.                                                                 *)
THEOREM CreditIsDocumented == TopupSpec => []CreditDocumented
BY TypeInit, TypeStep, DocumentedInit, DocumentedStep, PTL DEF TopupSpec

-----------------------------------------------------------------------------
(* The status of a topup tells whether it was credited.  The strengthening *)
(* has two parts.  Only the catch block writes FAILED, and it ends the     *)
(* call, so before that a credited topup reads PAID.  And if a failed      *)
(* write was really not made, the QR code is stored by the last step of a  *)
(* call that succeeds: a call that can still reach its catch block has     *)
(* shown the customer nothing to pay.                                      *)
StatusFollowsCall ==
  \A t \in TopupIds :
    /\ topup[t].status = "FAILED" => call[t] = "failed"
    /\ t \in order => call[t] # "idle"
    /\ t \in order /\ call[t] # "failed" => topup[t].status = "PAID"

QrMeansSuccess ==
  lostReplies = 0 =>
    \A t \in TopupIds : /\ call[t] # "returned" => ~topup[t].qr
                        /\ pay2s[t] = "paid" => topup[t].qr

StatusInv == TypeInv /\ CreditDocumented /\ StatusFollowsCall /\ QrMeansSuccess

LEMMA LostRepliesGrow ==
  ASSUME TypeInv, [TopupNext]_vars, lostReplies' = 0
  PROVE  lostReplies = 0
<1>1. lostReplies \in Nat
  BY TopupBounds DEF TypeInv, TopupTypeOK
<1>2. UNCHANGED lostReplies \/ LoseReply
  BY DEF TopupNext, CallStep, HandlerStep, CreateTopup, LinkRefused, LinkUnusable,
     LinkOpened, SaveQr, SaveQrFails, MarkFailed, CrashCall, PayQr, StrayNotice, FindTopup,
     ReadWallet, CommitCredit, RollBackCredit, CrashHandler, vars, topupVars
<1> QED  BY <1>1, <1>2 DEF LoseReply

LEMMA StatusInit == TopupInit => StatusFollowsCall /\ QrMeansSuccess
BY DEF TopupInit, TopupStart, StatusFollowsCall, QrMeansSuccess

LEMMA StatusStep == StatusInv /\ [TopupNext]_vars => StatusFollowsCall'
<1> SUFFICES ASSUME StatusInv, [TopupNext]_vars, NEW u \in TopupIds
             PROVE  /\ topup'[u].status = "FAILED" => call'[u] = "failed"
                    /\ u \in order' => call'[u] # "idle"
                    /\ u \in order' /\ call'[u] # "failed" => topup'[u].status = "PAID"
  BY DEF StatusFollowsCall
<1> DEFINE Kept == /\ topup'[u].status = "FAILED" => call'[u] = "failed"
                   /\ u \in order' => call'[u] # "idle"
                   /\ u \in order' /\ call'[u] # "failed" => topup'[u].status = "PAID"
<1>0. /\ TypeInv /\ TopupTypeOK
      /\ topup \in [TopupIds -> TopupRequest] /\ topup[u] \in TopupRequest
      /\ call \in [TopupIds -> CallSteps]
      /\ topup[u].status = "FAILED" => call[u] = "failed"
      /\ u \in order => call[u] # "idle"
      /\ u \in order /\ call[u] # "failed" => topup[u].status = "PAID"
  BY DEF StatusInv, StatusFollowsCall, TypeInv, TopupTypeOK
<1>1. ASSUME NEW t \in TopupIds, CreateTopup(t) PROVE Kept
  BY <1>0, <1>1, RowAfterStatus DEF CreateTopup, GoTo
<1>2. ASSUME NEW t \in TopupIds, MarkFailed(t) PROVE Kept
  BY <1>0, <1>2, RowAfterStatus DEF MarkFailed, GoTo
<1>3. ASSUME NEW t \in TopupIds, SaveQr(t) \/ SaveQrFails(t) PROVE Kept
  <2>1. topup'[u].status = topup[u].status
    BY <1>0, <1>3 DEF SaveQr, SaveQrFails, TopupRequest
  <2>2. /\ call[t] = "saving" /\ order' = order
        /\ \/ call' = [call EXCEPT ![t] = "failing"]
           \/ call' = [call EXCEPT ![t] = "returned"]
    BY <1>3 DEF SaveQr, SaveQrFails, GoTo
  <2> QED  BY <1>0, <2>1, <2>2
<1>4. ASSUME NEW t \in TopupIds,
             LinkRefused(t) \/ LinkUnusable(t) \/ LinkOpened(t) \/ CrashCall(t)
      PROVE  Kept
  BY <1>0, <1>4 DEF LinkRefused, LinkUnusable, LinkOpened, CrashCall, GoTo
<1>5. ASSUME NEW t \in TopupIds, PayQr(t) PROVE Kept
  BY <1>0, <1>5 DEF PayQr
<1>6. ASSUME NEW t \in TopupIds, NEW a \in StrayAmounts, StrayNotice(t, a) PROVE Kept
  BY <1>0, <1>6 DEF StrayNotice
<1>7. ASSUME NEW h \in Handlers, CommitCredit(h) PROVE Kept
  <2>1. /\ handler[h].topup \in TopupIds
        /\ call[handler[h].topup] # "idle"
        /\ topup' = [topup EXCEPT ![handler[h].topup].status = "PAID"]
        /\ order' = order \cup {handler[h].topup}
        /\ call' = call
    BY <1>0, <1>7, CommitPosts DEF CommitCredit
  <2>2. topup'[u].status = IF u = handler[h].topup THEN "PAID" ELSE topup[u].status
    BY <1>0, <2>1 DEF TopupRequest
  <2> QED  BY <1>0, <2>1, <2>2
<1>8. ASSUME NEW h \in Handlers, HandlerStep(h), ~CommitCredit(h) PROVE Kept
  BY <1>0, <1>8 DEF HandlerStep, FindTopup, ReadWallet, RollBackCredit, CrashHandler
<1>9. CASE UNCHANGED vars
  BY <1>0, <1>9 DEF vars, topupVars
<1> QED
  BY <1>1, <1>2, <1>3, <1>4, <1>5, <1>6, <1>7, <1>8, <1>9
     DEF TopupNext, CallStep, HandlerStep

LEMMA QrStep == StatusInv /\ [TopupNext]_vars => QrMeansSuccess'
<1> SUFFICES ASSUME StatusInv, [TopupNext]_vars, lostReplies' = 0, NEW u \in TopupIds
             PROVE  /\ call'[u] # "returned" => ~topup'[u].qr
                    /\ pay2s'[u] = "paid" => topup'[u].qr
  BY DEF QrMeansSuccess
<1> DEFINE Kept == /\ call'[u] # "returned" => ~topup'[u].qr
                   /\ pay2s'[u] = "paid" => topup'[u].qr
<1>0. /\ TypeInv /\ TopupTypeOK
      /\ topup \in [TopupIds -> TopupRequest] /\ topup[u] \in TopupRequest
      /\ call \in [TopupIds -> CallSteps]
      /\ pay2s \in [TopupIds -> {"none", "open", "paid"}]
      /\ call[u] # "returned" => ~topup[u].qr
      /\ pay2s[u] = "paid" => topup[u].qr
  <2>1. lostReplies = 0
    BY LostRepliesGrow DEF StatusInv
  <2> QED
    BY <2>1 DEF StatusInv, QrMeansSuccess, TypeInv, TopupTypeOK
<1>1. ASSUME NEW t \in TopupIds, CreateTopup(t) PROVE Kept
  BY <1>0, <1>1, RowAfterStatus DEF CreateTopup, GoTo
<1>2. ASSUME NEW t \in TopupIds, MarkFailed(t) PROVE Kept
  BY <1>0, <1>2, RowAfterStatus DEF MarkFailed, GoTo
<1>3. ASSUME NEW t \in TopupIds, SaveQr(t) PROVE Kept
  BY <1>0, <1>3, RowAfterQr DEF SaveQr, GoTo
<1>4. ASSUME NEW t \in TopupIds, SaveQrFails(t) PROVE Kept
  <2>1. topup' = topup
    BY <1>0, <1>4, TopupBounds DEF SaveQrFails, LoseReply, TypeInv, TopupTypeOK
  <2>2. /\ call[t] = "saving" /\ call' = [call EXCEPT ![t] = "failing"]
        /\ pay2s' = pay2s
    BY <1>4 DEF SaveQrFails, GoTo
  <2> QED  BY <1>0, <2>1, <2>2
<1>5. ASSUME NEW t \in TopupIds,
             LinkRefused(t) \/ LinkUnusable(t) \/ LinkOpened(t) \/ CrashCall(t)
      PROVE  Kept
  BY <1>0, <1>5 DEF LinkRefused, LinkUnusable, LinkOpened, CrashCall, GoTo
<1>6. ASSUME NEW t \in TopupIds, PayQr(t) PROVE Kept
  BY <1>0, <1>6 DEF PayQr
<1>7. ASSUME NEW t \in TopupIds, NEW a \in StrayAmounts, StrayNotice(t, a) PROVE Kept
  BY <1>0, <1>7 DEF StrayNotice
<1>8. ASSUME NEW h \in Handlers, CommitCredit(h) PROVE Kept
  <2>1. /\ handler[h].topup \in TopupIds
        /\ topup' = [topup EXCEPT ![handler[h].topup].status = "PAID"]
        /\ call' = call /\ pay2s' = pay2s
    BY <1>0, <1>8, CommitPosts DEF CommitCredit
  <2>2. topup'[u].qr = topup[u].qr
    BY <1>0, <2>1 DEF TopupRequest
  <2> QED  BY <1>0, <2>1, <2>2
<1>9. ASSUME NEW h \in Handlers, HandlerStep(h), ~CommitCredit(h) PROVE Kept
  BY <1>0, <1>9 DEF HandlerStep, FindTopup, ReadWallet, RollBackCredit, CrashHandler
<1>10. CASE UNCHANGED vars
  BY <1>0, <1>10 DEF vars, topupVars
<1> QED
  BY <1>1, <1>2, <1>3, <1>4, <1>5, <1>6, <1>7, <1>8, <1>9, <1>10
     DEF TopupNext, CallStep, HandlerStep

LEMMA StatusTells == StatusInv => StatusTellsCredit
<1> SUFFICES ASSUME StatusInv, NEW t \in TopupIds
             PROVE  /\ call[t] # "failed" \/ (/\ lostReplies = 0
                                              /\ \A a \in StrayAmounts : <<t, a>> \notin strays)
                         => (t \in order <=> topup[t].status = "PAID")
                    /\ lostReplies = 0 => (topup[t].status = "FAILED" => pay2s[t] # "paid")
  BY DEF StatusTellsCredit
<1>1. /\ topup[t].status = "FAILED" => call[t] = "failed"
      /\ t \in order /\ call[t] # "failed" => topup[t].status = "PAID"
      /\ topup[t].status = "PAID" => t \in order
  BY DEF StatusInv, StatusFollowsCall, CreditDocumented
<1>2. lostReplies = 0 => (pay2s[t] = "paid" => call[t] = "returned")
  BY DEF StatusInv, QrMeansSuccess
<1>3. ASSUME t \in order, \A a \in StrayAmounts : <<t, a>> \notin strays
      PROVE  pay2s[t] = "paid"
  <2>1. PICK i \in DOMAIN ledger :
          ledger[i].type = "TOPUP_CREDIT" /\ ledger[i].source = t
    BY <1>3 DEF StatusInv, CreditDocumented, Posted
  <2>2. Announced(t, ledger[i].amount)
    BY <2>1 DEF StatusInv, CreditDocumented
  <2>3. <<t, ledger[i].amount>> \notin strays
    BY <1>3 DEF StatusInv, TypeInv, TopupTypeOK
  <2> QED  BY <2>2, <2>3 DEF Announced
<1> QED  BY <1>1, <1>2, <1>3

(* Until the catch block of its creation call ran, and for good when no    *)
(* committed write was reported as failed and no stray came for it, a      *)
(* topup is credited exactly when it reads PAID; one that reads FAILED was *)
(* never paid, whatever notifications came.                                *)
THEOREM StatusIsTruthful == TopupSpec => []StatusTellsCredit
<1>1. TopupInit => StatusInv
  BY TypeInit, DocumentedInit, StatusInit DEF StatusInv
<1>2. StatusInv /\ [TopupNext]_vars => StatusInv'
  BY TypeStep, DocumentedStep, StatusStep, QrStep DEF StatusInv
<1> QED  BY <1>1, <1>2, StatusTells, PTL DEF TopupSpec

-----------------------------------------------------------------------------
(* Refinement.                                                             *)

LEMMA PromiseStep == TypeInv /\ [TopupNext]_vars => [Promise!Next]_(Promise!vars)
<1> SUFFICES ASSUME TypeInv, [TopupNext]_vars
             PROVE  Promise!Next \/ UNCHANGED Promise!vars
  OBVIOUS
<1> DEFINE Paid == {t \in TopupIds : pay2s[t] = "paid"}
<1>0. pay2s \in [TopupIds -> {"none", "open", "paid"}]
  BY DEF TypeInv, TopupTypeOK
<1>1. ASSUME NEW t \in TopupIds, PayQr(t) PROVE Promise!Next
  <2>1. t \in TopupIds \ Paid /\ Paid' = Paid \cup {t}
    BY <1>0, <1>1 DEF PayQr
  <2>2. CreditsPosted' = CreditsPosted /\ strays' = strays /\ wallet' = wallet
    BY <1>1 DEF PayQr, walletVars, CreditsPosted, CreditRows
  <2>3. Promise!Pay(t)
    BY <2>1, <2>2 DEF Promise!Pay
  <2> QED  BY <2>3 DEF Promise!Next
<1>2. ASSUME NEW t \in TopupIds, NEW a \in StrayAmounts, StrayNotice(t, a)
      PROVE  Promise!Next
  <2>1. CreditsPosted' = CreditsPosted /\ Paid' = Paid /\ wallet' = wallet
    BY <1>2 DEF StrayNotice, walletVars, CreditsPosted, CreditRows
  <2>2. Promise!Stray(t, a)
    BY <1>2, <2>1 DEF Promise!Stray, StrayNotice
  <2> QED  BY <2>2 DEF Promise!Next
<1>3. ASSUME NEW h \in Handlers, CommitCredit(h) PROVE Promise!Next
  <2>1. PICK t \in TopupIds, a \in Int : t = handler[h].topup /\ a = handler[h].amount
    <3>1. handler[h] \in Handler /\ handler[h].topup \in TopupIds
      BY <1>3, CommitPosts DEF TypeInv, TopupTypeOK
    <3> QED  BY <3>1 DEF Handler
  <2>2. Announced(t, a)
    BY <1>3, <2>1, CommitPosts
  <2>3. a \in StrayAmounts \cup {Amount[t]}
    BY <2>2 DEF Announced, TypeInv, TopupTypeOK
  <2>4. Promise!Announced(t, a)
    BY <2>2 DEF Announced, Promise!Announced
  <2>5. wallet'.totalTopup = wallet.totalTopup + a
    BY <1>3, <2>1 DEF CommitCredit, Credited, TypeInv, TopupTypeOK, WalletTypeOK, WalletAccount
  <2>6. Paid' = Paid /\ strays' = strays
    BY <1>3 DEF CommitCredit
  <2>7. \A c \in CreditsPosted : c[1] # t
    <3>1. \A i \in CreditRows : ledger[i].source # t
      BY <1>3, <2>1, CommitPosts DEF Posted, CreditRows
    <3> QED  BY <3>1 DEF CreditsPosted
  <2>8. CreditsPosted' = CreditsPosted \cup {<<t, a>>}
    <3>1. CreditRows' = CreditRows \cup {Len(ledger) + 1}
      BY <1>3, CommitPosts DEF CreditRows
    <3>2. \A i \in CreditRows : ledger'[i] = ledger[i]
      BY <1>3, CommitPosts DEF CreditRows
    <3>3. ledger'[Len(ledger) + 1].source = t /\ ledger'[Len(ledger) + 1].amount = a
      BY <1>3, <2>1, CommitPosts
    <3> HIDE DEF CreditRows
    <3> QED  BY <3>1, <3>2, <3>3 DEF CreditsPosted
  <2>9. Promise!Credit(t, a)
    BY <2>4, <2>5, <2>6, <2>7, <2>8 DEF Promise!Credit
  <2> QED  BY <2>3, <2>9 DEF Promise!Next
<1>4. ASSUME \A h \in Handlers : ~CommitCredit(h), \A t \in TopupIds : ~PayQr(t),
             \A t \in TopupIds : \A a \in StrayAmounts : ~StrayNotice(t, a)
      PROVE  UNCHANGED Promise!vars
  <2>1. /\ \A t \in TopupIds : pay2s'[t] = "paid" => pay2s[t] = "paid"
        /\ strays' = strays
    BY <1>0, <1>4 DEF TopupNext, CallStep, HandlerStep, CreateTopup, LinkRefused,
       LinkUnusable, LinkOpened, SaveQr, SaveQrFails, MarkFailed, CrashCall,
       FindTopup, ReadWallet, RollBackCredit, CrashHandler, vars, topupVars
  <2>2. Paid' = Paid
    BY <2>1, PaymentIsFinal
  <2>3. UNCHANGED <<ledger, wallet.totalTopup>>
    BY <1>4, OnlyCommitPosts
  <2>4. CreditsPosted' = CreditsPosted
    BY <2>3 DEF CreditsPosted, CreditRows
  <2> QED  BY <2>1, <2>2, <2>3, <2>4 DEF Promise!vars
<1> QED  BY <1>1, <1>2, <1>3, <1>4

(* Each step of the component is a payment, a stray, a credit or a stutter *)
(* of the abstract specification, so every behaviour keeps its safety      *)
(* part: no topup is credited twice, and each for an amount announced for  *)
(* it, which is the amount paid when nothing else was announced.           *)
THEOREM CreditsAsPromised == TopupSpec => Promise!Spec
<1>1. TopupInit => Promise!Init
  BY DEF TopupInit, TopupStart, AccountWith, CreditsPosted, CreditRows, Promise!Init
<1> QED  BY <1>1, PromiseStep, TypeInit, TypeStep, PTL DEF TopupSpec, Promise!Spec

-----------------------------------------------------------------------------
(* On a shared wallet.                                                     *)

(* Messages and campaigns move the same account between any two steps, and *)
(* post rows of their own; totalTopup they leave alone.                    *)
Elsewhere == /\ OthersPost({"TOPUP_CREDIT"}, Sources)
             /\ UNCHANGED <<wallet.totalTopup, topupVars>>

SharedInit == WalletTypeOK /\ wallet.totalTopup \in Nat /\ ledger = <<>> /\ TopupStart
SharedSpec == SharedInit /\ [][TopupNext \/ Elsewhere]_vars

SharedInv == StatusInv /\ CreditedOnce

(* The credit rows stay where they are.                                    *)
LEMMA CreditsStay ==
  ASSUME WalletTypeOK, Elsewhere
  PROVE  /\ \A i \in DOMAIN ledger : i \in DOMAIN ledger' /\ ledger'[i] = ledger[i]
         /\ \A i \in DOMAIN ledger' :
              ledger'[i].type = "TOPUP_CREDIT" => i \in DOMAIN ledger
<1>1. CASE ledger' = ledger
  BY <1>1
<1>2. ASSUME NEW e \in WalletTransaction, ledger' = Append(ledger, e),
             e.type \notin {"TOPUP_CREDIT"} \/ e.source \notin Sources
      PROVE  /\ \A i \in DOMAIN ledger : i \in DOMAIN ledger' /\ ledger'[i] = ledger[i]
             /\ \A i \in DOMAIN ledger' :
                  ledger'[i].type = "TOPUP_CREDIT" => i \in DOMAIN ledger
  <2>1. ledger \in Seq(WalletTransaction)
    BY DEF WalletTypeOK
  <2>2. /\ DOMAIN ledger = 1..Len(ledger) /\ Len(ledger) \in Nat
        /\ DOMAIN ledger' = 1..(Len(ledger) + 1)
        /\ \A i \in 1..Len(ledger) : ledger'[i] = ledger[i]
        /\ ledger'[Len(ledger) + 1] = e
    BY <1>2, <2>1
  <2>3. e.type # "TOPUP_CREDIT"
    BY <1>2 DEF WalletTransaction
  <2> QED  BY <2>2, <2>3
<1> QED  BY <1>1, <1>2 DEF Elsewhere, OthersPost

LEMMA CreditsPostedStay ==
  ASSUME WalletTypeOK, Elsewhere
  PROVE  CreditsPosted' = CreditsPosted
<1>1. /\ \A i \in CreditRows : i \in CreditRows' /\ ledger'[i] = ledger[i]
      /\ \A i \in CreditRows' : i \in CreditRows /\ ledger'[i] = ledger[i]
  BY CreditsStay DEF CreditRows
<1>2. CreditRows' = CreditRows
  BY <1>1
<1> QED  BY <1>1, <1>2 DEF CreditsPosted

LEMMA ElsewhereKeeps ==
  ASSUME SharedInv, Elsewhere
  PROVE  SharedInv'
<1>1. TypeInv'
  <2>1. WalletTypeOK'
    BY DEF Elsewhere, OthersPost
  <2> QED  BY <2>1 DEF SharedInv, StatusInv, TypeInv, TopupTypeOK, ServesNotice,
          Announced, Elsewhere, topupVars
<1>2. WalletTypeOK
  BY DEF SharedInv, StatusInv, TypeInv, TopupTypeOK
<1>3. \A t \in TopupIds : Posted("TOPUP_CREDIT", t)' <=> Posted("TOPUP_CREDIT", t)
  BY <1>2, CreditsStay DEF Posted
<1>4. CreditDocumented'
  <2>1. ASSUME NEW i \in DOMAIN ledger', ledger'[i].type = "TOPUP_CREDIT"
        PROVE  ledger'[i].source \in TopupIds /\ Announced(ledger[i].source, ledger[i].amount)'
    <3>1. i \in DOMAIN ledger /\ ledger'[i] = ledger[i]
      BY <1>2, <2>1, CreditsStay
    <3>2. ledger[i].source \in TopupIds /\ Announced(ledger[i].source, ledger[i].amount)
      BY <2>1, <3>1 DEF SharedInv, StatusInv, CreditDocumented
    <3> QED  BY <3>1, <3>2 DEF Announced, Elsewhere, topupVars
  <2>2. \A t \in TopupIds : /\ Posted("TOPUP_CREDIT", t)' <=> t \in order'
                            /\ topup'[t].status = "PAID" => t \in order'
    BY <1>3 DEF SharedInv, StatusInv, CreditDocumented, Elsewhere, topupVars
  <2> QED  BY <2>1, <2>2 DEF CreditDocumented
<1>5. StatusFollowsCall' /\ QrMeansSuccess'
  BY DEF SharedInv, StatusInv, StatusFollowsCall, QrMeansSuccess, Elsewhere, topupVars
<1>6. CreditedOnce'
  BY <1>2, CreditsStay DEF SharedInv, CreditedOnce
<1> QED  BY <1>1, <1>4, <1>5, <1>6 DEF SharedInv, StatusInv

LEMMA SharedStarts == SharedInit => SharedInv
<1> SUFFICES ASSUME SharedInit PROVE SharedInv
  OBVIOUS
<1>1. TypeInv
  BY TopupBounds DEF SharedInit, TopupStart, TypeInv, ServesNotice, TopupTypeOK,
     TopupRequest, Handler, Idle, CallSteps
<1>2. CreditDocumented /\ StatusFollowsCall /\ QrMeansSuccess /\ CreditedOnce
  BY DEF SharedInit, TopupStart, CreditDocumented, Posted, StatusFollowsCall, QrMeansSuccess,
     CreditedOnce
<1> QED  BY <1>1, <1>2 DEF SharedInv, StatusInv

LEMMA SharedStep == SharedInv /\ [TopupNext \/ Elsewhere]_vars => SharedInv'
<1> SUFFICES ASSUME SharedInv, [TopupNext \/ Elsewhere]_vars PROVE SharedInv'
  OBVIOUS
<1>1. CASE Elsewhere
  BY <1>1, ElsewhereKeeps
<1>2. CASE [TopupNext]_vars
  BY <1>2, TypeStep, DocumentedStep, StatusStep, QrStep, OnceStep DEF SharedInv, StatusInv
<1> QED  BY <1>1, <1>2

(* What Topups promises holds on a wallet that others move as they like:   *)
(* one credit per topup, announced and documented, and a status that tells *)
(* of it.                                                                  *)
THEOREM CreditsOnSharedWallet ==
  SharedSpec => [](CreditedOnce /\ CreditDocumented /\ StatusTellsCredit)
<1>1. SharedInv => CreditedOnce /\ CreditDocumented /\ StatusTellsCredit
  BY StatusTells DEF SharedInv, StatusInv
<1> QED  BY <1>1, SharedStarts, SharedStep, PTL DEF SharedSpec

(* ... and the refinement of the abstract promise.                         *)
THEOREM SharedCreditsAsPromised == SharedSpec => Promise!Spec
<1>1. SharedInit => Promise!Init
  BY DEF SharedInit, TopupStart, CreditsPosted, CreditRows, Promise!Init
<1>2. SharedInv /\ [TopupNext \/ Elsewhere]_vars => [Promise!Next]_(Promise!vars)
  <2>1. SharedInv /\ Elsewhere => UNCHANGED Promise!vars
    <3>1. SharedInv /\ Elsewhere => CreditsPosted' = CreditsPosted
      BY CreditsPostedStay DEF SharedInv, StatusInv, TypeInv, TopupTypeOK
    <3> QED  BY <3>1 DEF Elsewhere, topupVars, Promise!vars
  <2> QED  BY <2>1, PromiseStep DEF SharedInv, StatusInv
<1> QED  BY <1>1, <1>2, SharedStarts, SharedStep, PTL DEF SharedSpec, Promise!Spec
=============================================================================
