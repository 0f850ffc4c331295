---------------------------- MODULE Sending_proofs ----------------------------
(***************************************************************************)
(* Theorems about Sending, for every set of requests (finite or not), all  *)
(* prices, balances and every bound on the requests in flight.             *)
(***************************************************************************)
EXTENDS Sending, FiniteSetTheorems, TLAPS

LEMMA CostTyped ==
  ASSUME NEW api
  PROVE  /\ Cost(api) \in Nat /\ TopCost \in Nat /\ LeastCost \in Nat
         /\ LeastCost <= Cost(api) /\ Cost(api) <= TopCost
BY SendPrices DEF Cost, TopCost, LeastCost

(* A debit row appended to the journal.                                    *)
LEMMA PostDebit ==
  ASSUME ledger \in Seq(WalletTransaction), NEW s \in SendIds,
         NEW amount \in Int, NEW before \in Int, NEW after \in Int,
         Post("MESSAGE_DEBIT", s, amount, before, after)
  PROVE  /\ ledger' \in Seq(WalletTransaction)
         /\ DOMAIN ledger = 1..Len(ledger) /\ Len(ledger) \in Nat
         /\ DOMAIN ledger' = 1..(Len(ledger) + 1)
         /\ \A i \in 1..Len(ledger) : ledger'[i] = ledger[i]
         /\ ledger'[Len(ledger) + 1].type = "MESSAGE_DEBIT"
         /\ ledger'[Len(ledger) + 1].source = s
<1> DEFINE new == [type |-> "MESSAGE_DEBIT", source |-> s, amount |-> amount,
                   balanceBefore |-> before, balanceAfter |-> after]
<1>1. new \in WalletTransaction
  BY SendSources DEF WalletTransaction, WalletTransactionType
<1>2. ledger' = Append(ledger, new)
  BY DEF Post
<1>3. new.type = "MESSAGE_DEBIT" /\ new.source = s
  OBVIOUS
<1> HIDE DEF new
<1> QED  BY <1>1, <1>2, <1>3

-----------------------------------------------------------------------------
LEMMA TypeInit == SendInit => SendTypeOK
<1> SUFFICES ASSUME SendInit PROVE SendTypeOK
  OBVIOUS
<1>1. PICK b \in InitialBalances : wallet = AccountWith(TRUE, b)
  BY DEF SendInit
<1>2. wallet \in WalletAccount
  BY <1>1, SendBalances DEF AccountWith, WalletAccount
<1>3. [step |-> "new", api |-> "messaging", seen |-> 0] \in Send
  BY DEF Send, SendSteps, Apis
<1>4. ledger \in Seq(WalletTransaction)
  BY DEF SendInit
<1> QED  BY <1>2, <1>3, <1>4 DEF SendInit, SendStart, SendTypeOK, WalletTypeOK

LEMMA TypeStep == SendTypeOK /\ [SendNext]_vars => SendTypeOK'
<1> SUFFICES ASSUME SendTypeOK, [SendNext]_vars PROVE SendTypeOK'
  OBVIOUS
<1> USE DEF SendTypeOK, WalletTypeOK
<1>1. ASSUME NEW s \in SendIds, NEW from \in SendSteps, NEW to \in SendSteps,
             SendGoes(s, from, to)
      PROVE  send' \in [SendIds -> Send]
  BY <1>1 DEF SendGoes, Send
<1>2. ASSUME NEW s \in SendIds, NEW api \in Apis, CheckCredit(s, api) PROVE SendTypeOK'
  <2>1. wallet.balance \in Int
    BY DEF WalletAccount
  <2> QED  BY <1>2, <2>1 DEF CheckCredit, Send, SendSteps, walletVars
<1>3. ASSUME NEW s \in SendIds, DispatchAccepted(s) PROVE SendTypeOK'
  BY <1>1, <1>3 DEF DispatchAccepted, SendSteps, walletVars
<1>4. ASSUME NEW s \in SendIds, DispatchThrows(s) PROVE SendTypeOK'
  BY <1>1, <1>4 DEF DispatchThrows, SendSteps, walletVars
<1>5. ASSUME NEW s \in SendIds, LogFailure(s) PROVE SendTypeOK'
  BY <1>1, <1>5 DEF LogFailure, SendSteps, walletVars
<1>6. ASSUME NEW s \in SendIds, Charge(s) PROVE SendTypeOK'
  <2> DEFINE api == send[s].api
             seen == send[s].seen
  <2>1. seen \in Int /\ Cost(api) \in Int
    BY CostTyped DEF Send
  <2>2. wallet' \in WalletAccount
    <3>1. /\ wallet.balance - Cost(api) \in Int
          /\ (IF api = "public" THEN wallet.totalSpent + PublicPrice
                                ELSE wallet.totalSpent) \in Int
      BY <2>1, SendPrices DEF WalletAccount
    <3> QED  BY <1>6, <3>1 DEF Charge, Debited, WalletAccount
  <2>3. Post("MESSAGE_DEBIT", s, Cost(api), seen, seen - Cost(api))
    BY <1>6 DEF Charge
  <2>4. ledger' \in Seq(WalletTransaction)
    BY <2>1, <2>3, PostDebit
  <2> QED  BY <1>1, <1>6, <2>2, <2>4 DEF Charge, SendSteps
<1>7. ASSUME NEW s \in SendIds, CrashSend(s) PROVE SendTypeOK'
  BY <1>7 DEF CrashSend, Send, SendSteps, walletVars
<1>8. CASE UNCHANGED vars
  BY <1>8 DEF vars, walletVars, sendVars
<1> QED  BY <1>2, <1>3, <1>4, <1>5, <1>6, <1>7, <1>8 DEF SendNext, SendStep

(* Every variable keeps its type.                                          *)
THEOREM TypeCorrect == SendSpec => []SendTypeOK
BY TypeInit, TypeStep, PTL DEF SendSpec

-----------------------------------------------------------------------------
(* A request writes a log only in its last step, and is between check and  *)
(* debit only with a message Zalo accepted and no log.                     *)
LogLast ==
  \A s \in SendIds : /\ log[s] # "none" => send[s].step = "done"
                     /\ send[s].step = "accepted" => s \in delivered

ChargeInv == SendTypeOK /\ LogLast /\ ChargedIffLogged

LEMMA ChargeInit == SendInit => LogLast /\ ChargedIffLogged
BY DEF SendInit, SendStart, LogLast, ChargedIffLogged, Posted

LEMMA ChargeStep == ChargeInv /\ [SendNext]_vars => (LogLast /\ ChargedIffLogged)'
<1> SUFFICES ASSUME ChargeInv, [SendNext]_vars PROVE (LogLast /\ ChargedIffLogged)'
  OBVIOUS
<1> USE DEF ChargeInv
<1>0. /\ send \in [SendIds -> Send] /\ log \in [SendIds -> {"none", "SUCCESS", "FAILED"}]
      /\ ledger \in Seq(WalletTransaction)
  BY DEF SendTypeOK, WalletTypeOK
<1>1. ASSUME UNCHANGED <<ledger, log>>, delivered \subseteq delivered',
             \A s \in SendIds : /\ send[s].step = "done" => send'[s].step = "done"
                                /\ send'[s].step = "accepted" => s \in delivered'
      PROVE  (LogLast /\ ChargedIffLogged)'
  BY <1>1 DEF LogLast, ChargedIffLogged, Posted
<1>2. ASSUME NEW s \in SendIds, NEW api \in Apis, CheckCredit(s, api)
      PROVE  (LogLast /\ ChargedIffLogged)'
  BY <1>0, <1>1, <1>2 DEF CheckCredit, LogLast, walletVars, Send
<1>3. ASSUME NEW s \in SendIds, DispatchAccepted(s) \/ DispatchThrows(s) \/ CrashSend(s)
      PROVE  (LogLast /\ ChargedIffLogged)'
  BY <1>0, <1>1, <1>3 DEF DispatchAccepted, DispatchThrows, CrashSend, SendGoes, LogLast,
     walletVars, Send
<1>4. ASSUME NEW s \in SendIds, LogFailure(s) PROVE (LogLast /\ ChargedIffLogged)'
  BY <1>0, <1>4 DEF LogFailure, SendGoes, LogLast, ChargedIffLogged, Posted, walletVars, Send
<1>5. ASSUME NEW s \in SendIds, Charge(s) PROVE (LogLast /\ ChargedIffLogged)'
  <2> DEFINE n == Len(ledger) + 1
  <2>1. /\ send[s].step = "accepted" /\ send' = [send EXCEPT ![s].step = "done"]
        /\ log' = [log EXCEPT ![s] = "SUCCESS"] /\ delivered' = delivered
    BY <1>5 DEF Charge, SendGoes
  <2>2. log[s] = "none" /\ s \in delivered
    BY <1>0, <2>1 DEF LogLast
  <2>3. /\ DOMAIN ledger = 1..Len(ledger) /\ Len(ledger) \in Nat
        /\ DOMAIN ledger' = 1..n
        /\ \A i \in 1..Len(ledger) : ledger'[i] = ledger[i]
        /\ ledger'[n].type = "MESSAGE_DEBIT" /\ ledger'[n].source = s
    <3>1. send[s].seen \in Int /\ Cost(send[s].api) \in Int
      BY <1>0, CostTyped DEF Send
    <3>2. Post("MESSAGE_DEBIT", s, Cost(send[s].api), send[s].seen,
               send[s].seen - Cost(send[s].api))
      BY <1>5 DEF Charge
    <3>3. send[s].seen - Cost(send[s].api) \in Int
      BY <3>1
    <3> QED  BY ONLY <1>0, <3>1, <3>2, <3>3, PostDebit
  <2>4. \A i \in DOMAIN ledger :
          ~(ledger[i].type = "MESSAGE_DEBIT" /\ ledger[i].source = s)
    BY <2>2 DEF ChargedIffLogged, Posted
  <2>5. LogLast'
    BY <1>0, <2>1 DEF LogLast, Send
  <2>6. \A i, j \in DOMAIN ledger' :
          /\ ledger'[i].type = "MESSAGE_DEBIT" /\ ledger'[j].type = "MESSAGE_DEBIT"
          /\ ledger'[i].source = ledger'[j].source
          => i = j
    BY <2>3, <2>4 DEF ChargedIffLogged
  <2>7. ASSUME NEW u \in SendIds
        PROVE  Posted("MESSAGE_DEBIT", u)' <=> Posted("MESSAGE_DEBIT", u) \/ u = s
    <3>1. CASE u = s
      BY <2>3, <3>1 DEF Posted
    <3>2. CASE u # s
      BY <2>3, <3>2 DEF Posted
    <3> QED  BY <3>1, <3>2
  <2>8. \A u \in SendIds : /\ Posted("MESSAGE_DEBIT", u)' <=> log'[u] = "SUCCESS"
                           /\ log'[u] = "SUCCESS" => u \in delivered'
    BY <1>0, <2>1, <2>2, <2>7 DEF ChargedIffLogged
  <2> QED  BY <2>5, <2>6, <2>8 DEF ChargedIffLogged
<1>6. CASE UNCHANGED vars
  BY <1>1, <1>6 DEF vars, walletVars, sendVars, LogLast
<1> QED  BY <1>2, <1>3, <1>4, <1>5, <1>6 DEF SendNext, SendStep

(* A message is paid for exactly when it is logged SUCCESS, once, and only *)
(* if Zalo accepted it, wherever requests crash.                           *)
THEOREM PaidIffSent == SendSpec => []ChargedIffLogged
<1>1. SendInit => ChargeInv
  BY TypeInit, ChargeInit DEF ChargeInv
<1>2. ChargeInv /\ [SendNext]_vars => ChargeInv'
  BY TypeStep, ChargeStep DEF ChargeInv
<1> QED  BY <1>1, <1>2, PTL DEF SendSpec, ChargeInv

-----------------------------------------------------------------------------
(* The overdraft.  At most MaxInFlight requests are between check and      *)
(* debit, and each can still take one price from the wallet.               *)
OverdraftInv == /\ SendTypeOK
                /\ IsFiniteSet(InFlight)
                /\ Cardinality(InFlight) <= MaxInFlight
                /\ OverdraftBounded

LEMMA Product ==
  ASSUME NEW a \in Nat, NEW b \in Nat
  PROVE  a * b \in Nat /\ a * (b + 1) = a * b + a /\ a * (b + 1) >= a
OBVIOUS

(* InFlight after a request has moved.                                     *)
LEMMA InFlightAfter ==
  ASSUME SendTypeOK, NEW s \in SendIds,
         \A u \in SendIds : u # s => send'[u] = send[u]
  PROVE  /\ send'[s].step \in {"checked", "accepted"} => InFlight' = InFlight \cup {s}
         /\ send'[s].step \notin {"checked", "accepted"} => InFlight' = InFlight \ {s}
BY DEF InFlight

LEMMA OverdraftInit == SendInit => OverdraftInv
<1> SUFFICES ASSUME SendInit PROVE OverdraftInv
  OBVIOUS
<1>1. SendTypeOK
  BY TypeInit
<1>2. InFlight = {}
  BY DEF SendInit, SendStart, InFlight
<1>3. IsFiniteSet(InFlight) /\ Cardinality(InFlight) = 0
  BY <1>2, FS_EmptySet
<1>4. wallet.balance \in Nat
  BY SendBalances DEF SendInit, AccountWith
<1>5. TopCost * MaxInFlight >= LeastCost
  <2>1. MaxInFlight - 1 \in Nat /\ MaxInFlight = (MaxInFlight - 1) + 1
    BY SendBound
  <2>2. TopCost \in Nat /\ LeastCost \in Nat /\ LeastCost <= TopCost
    BY CostTyped
  <2>3. TopCost * ((MaxInFlight - 1) + 1) >= TopCost
    BY <2>1, <2>2, Product
  <2> QED  BY <2>1, <2>2, <2>3
<1>6. wallet.balance >= LeastCost - TopCost * (MaxInFlight - Cardinality(InFlight))
  <2>1. MaxInFlight - Cardinality(InFlight) = MaxInFlight
    BY <1>3, SendBound
  <2>2. TopCost * MaxInFlight \in Nat /\ LeastCost \in Nat
    BY SendBound, CostTyped, Product
  <2> QED  BY <1>4, <1>5, <2>1, <2>2
<1> QED  BY <1>1, <1>3, <1>6, SendBound DEF OverdraftInv, OverdraftBounded

LEMMA OverdraftStep == OverdraftInv /\ [SendNext]_vars => OverdraftInv'
<1> SUFFICES ASSUME OverdraftInv, [SendNext]_vars PROVE OverdraftInv'
  OBVIOUS
<1> DEFINE k == Cardinality(InFlight)
<1>0. /\ SendTypeOK /\ SendTypeOK' /\ send \in [SendIds -> Send]
      /\ IsFiniteSet(InFlight) /\ k \in Nat /\ k <= MaxInFlight /\ MaxInFlight \in Nat
      /\ wallet.balance \in Int
      /\ TopCost \in Nat /\ LeastCost \in Nat
      /\ wallet.balance >= LeastCost - TopCost * (MaxInFlight - k)
  BY TypeStep, FS_CardinalityType, SendBound, CostTyped
     DEF OverdraftInv, SendTypeOK, WalletTypeOK, WalletAccount, OverdraftBounded
<1>1. ASSUME UNCHANGED wallet, InFlight' = InFlight PROVE OverdraftInv'
  BY <1>0, <1>1 DEF OverdraftInv, OverdraftBounded
(* A request leaves with or without being charged.                         *)
<1>2. ASSUME NEW s \in InFlight, InFlight' = InFlight \ {s}, NEW paid \in Nat,
             paid <= TopCost, wallet'.balance = wallet.balance - paid
      PROVE  OverdraftInv'
  <2>1. IsFiniteSet(InFlight') /\ Cardinality(InFlight') = k - 1 /\ k - 1 \in Nat
    BY <1>0, <1>2, FS_RemoveElement, FS_EmptySet, FS_CardinalityType
  <2>2. MaxInFlight - (k - 1) = (MaxInFlight - k) + 1 /\ MaxInFlight - k \in Nat
    BY <1>0
  <2>3. TopCost * ((MaxInFlight - k) + 1) = TopCost * (MaxInFlight - k) + TopCost
    BY <1>0, <2>2, Product
  <2>4. TopCost * (MaxInFlight - k) \in Nat
    BY <1>0, <2>2, Product
  <2>5. wallet'.balance >= LeastCost - TopCost * (MaxInFlight - (k - 1))
    BY <1>0, <1>2, <2>2, <2>3, <2>4
  <2> QED  BY <1>0, <2>1, <2>5 DEF OverdraftInv, OverdraftBounded
(* A request enters: the balance covers it.                                *)
<1>3. ASSUME NEW s \in SendIds \ InFlight, InFlight' = InFlight \cup {s},
             k < MaxInFlight, UNCHANGED wallet, wallet.balance >= LeastCost
      PROVE  OverdraftInv'
  <2>1. IsFiniteSet(InFlight') /\ Cardinality(InFlight') = k + 1
    BY <1>0, <1>3, FS_AddElement
  <2>2. MaxInFlight - (k + 1) \in Nat
    BY <1>0, <1>3
  <2>3. TopCost * (MaxInFlight - (k + 1)) \in Nat
    BY <1>0, <2>2, Product
  <2>4. wallet'.balance >= LeastCost - TopCost * (MaxInFlight - (k + 1))
    BY <1>0, <1>3, <2>3
  <2> QED  BY <1>0, <1>3, <2>1, <2>4 DEF OverdraftInv, OverdraftBounded
<1>4. ASSUME NEW s \in SendIds, NEW api \in Apis, CheckCredit(s, api) PROVE OverdraftInv'
  <2>1. s \notin InFlight /\ k < MaxInFlight /\ UNCHANGED wallet
    BY <1>4 DEF CheckCredit, InFlight, walletVars
  <2>2. /\ \A u \in SendIds : u # s => send'[u] = send[u]
        /\ send'[s].step = IF wallet.exists /\ Covers(wallet.balance, Cost(api))
                           THEN "checked" ELSE "rejected"
    BY <1>0, <1>4 DEF CheckCredit
  <2>3. CASE wallet.exists /\ Covers(wallet.balance, Cost(api))
    <3>1. InFlight' = InFlight \cup {s}
      BY <1>0, <2>2, <2>3, InFlightAfter
    <3>2. wallet.balance >= LeastCost
      BY <1>0, <2>3, CostTyped DEF Covers
    <3> QED  BY <1>3, <2>1, <3>1, <3>2
  <2>4. CASE ~(wallet.exists /\ Covers(wallet.balance, Cost(api)))
    <3>1. send'[s].step \notin {"checked", "accepted"}
      BY <2>2, <2>4
    <3>2. InFlight' = InFlight \ {s}
      BY <1>0, <2>2, <3>1, InFlightAfter
    <3>3. InFlight' = InFlight
      BY <2>1, <3>2
    <3> QED  BY <1>1, <2>1, <3>3
  <2> QED  BY <2>3, <2>4
<1>5. ASSUME NEW s \in SendIds, DispatchAccepted(s) PROVE OverdraftInv'
  <2>1. InFlight' = InFlight /\ UNCHANGED wallet
    BY <1>0, <1>5 DEF DispatchAccepted, SendGoes, InFlight, Send, walletVars
  <2> QED  BY <1>1, <2>1
<1>6. ASSUME NEW s \in SendIds, DispatchThrows(s) PROVE OverdraftInv'
  <2>1. s \in InFlight /\ InFlight' = InFlight \ {s} /\ UNCHANGED wallet
    BY <1>0, <1>6 DEF DispatchThrows, SendGoes, InFlight, Send, walletVars
  <2> QED  BY <1>0, <1>2, <2>1
<1>7. ASSUME NEW s \in SendIds, LogFailure(s) PROVE OverdraftInv'
  <2>1. InFlight' = InFlight /\ UNCHANGED wallet
    BY <1>0, <1>7 DEF LogFailure, SendGoes, InFlight, Send, walletVars
  <2> QED  BY <1>1, <2>1
<1>8. ASSUME NEW s \in SendIds, Charge(s) PROVE OverdraftInv'
  <2>1. s \in InFlight /\ InFlight' = InFlight \ {s}
    BY <1>0, <1>8 DEF Charge, SendGoes, InFlight, Send
  <2>2. wallet'.balance = wallet.balance - Cost(send[s].api)
    BY <1>0, <1>8 DEF Charge, Debited, SendTypeOK, WalletTypeOK, WalletAccount
  <2> QED  BY <1>2, <2>1, <2>2, CostTyped
<1>9. ASSUME NEW s \in SendIds, CrashSend(s) PROVE OverdraftInv'
  <2>1. InFlight' = InFlight \ {s} /\ UNCHANGED wallet
    BY <1>0, <1>9 DEF CrashSend, InFlight, Send, walletVars
  <2>2. CASE s \in InFlight
    BY <1>0, <1>2, <2>1, <2>2
  <2>3. CASE s \notin InFlight
    BY <1>1, <2>1, <2>3
  <2> QED  BY <2>2, <2>3
<1>10. CASE UNCHANGED vars
  BY <1>1, <1>10 DEF vars, walletVars, sendVars, InFlight
<1> QED  BY <1>4, <1>5, <1>6, <1>7, <1>8, <1>9, <1>10 DEF SendNext, SendStep

(* However many requests check the same credit, the wallet is overdrawn by *)
(* no more than the messages in flight at a time can cost.                 *)
THEOREM OverdraftIsBounded == SendSpec => []OverdraftBounded
<1>1. OverdraftInv => OverdraftBounded
  BY DEF OverdraftInv
<1> QED  BY <1>1, OverdraftInit, OverdraftStep, PTL DEF SendSpec

-----------------------------------------------------------------------------
(* On a shared wallet.                                                     *)

(* Topups and campaigns move the account and post rows of their own.       *)
Elsewhere == OthersPost({"MESSAGE_DEBIT"}, Sources) /\ UNCHANGED sendVars

SharedInit == WalletTypeOK /\ ledger = <<>> /\ SendStart
SharedSpec == SharedInit /\ [][SendNext \/ Elsewhere]_vars

(* The debits stay where they are.                                         *)
LEMMA DebitsStay ==
  ASSUME WalletTypeOK, Elsewhere
  PROVE  /\ \A i \in DOMAIN ledger : i \in DOMAIN ledger' /\ ledger'[i] = ledger[i]
         /\ \A i \in DOMAIN ledger' :
              ledger'[i].type = "MESSAGE_DEBIT" => i \in DOMAIN ledger
<1>1. CASE ledger' = ledger
  BY <1>1
<1>2. ASSUME NEW e \in WalletTransaction, ledger' = Append(ledger, e),
             e.type \notin {"MESSAGE_DEBIT"} \/ e.source \notin Sources
      PROVE  /\ \A i \in DOMAIN ledger : i \in DOMAIN ledger' /\ ledger'[i] = ledger[i]
             /\ \A i \in DOMAIN ledger' :
                  ledger'[i].type = "MESSAGE_DEBIT" => i \in DOMAIN ledger
  <2>1. ledger \in Seq(WalletTransaction)
    BY DEF WalletTypeOK
  <2>2. /\ DOMAIN ledger = 1..Len(ledger) /\ Len(ledger) \in Nat
        /\ DOMAIN ledger' = 1..(Len(ledger) + 1)
        /\ \A i \in 1..Len(ledger) : ledger'[i] = ledger[i]
        /\ ledger'[Len(ledger) + 1] = e
    BY <1>2, <2>1
  <2>3. e.type # "MESSAGE_DEBIT"
    BY <1>2 DEF WalletTransaction
  <2> QED  BY <2>2, <2>3
<1> QED  BY <1>1, <1>2 DEF Elsewhere, OthersPost

LEMMA ElsewhereKeeps ==
  ASSUME ChargeInv, Elsewhere
  PROVE  ChargeInv'
<1>1. WalletTypeOK /\ WalletTypeOK'
  BY DEF ChargeInv, SendTypeOK, Elsewhere, OthersPost
<1>2. SendTypeOK' /\ LogLast'
  BY <1>1 DEF ChargeInv, SendTypeOK, LogLast, Elsewhere, sendVars
<1>3. \A s \in SendIds : Posted("MESSAGE_DEBIT", s)' <=> Posted("MESSAGE_DEBIT", s)
  BY <1>1, DebitsStay DEF Posted
<1>4. ChargedIffLogged'
  BY <1>1, <1>3, DebitsStay DEF ChargeInv, ChargedIffLogged, Elsewhere, sendVars
<1> QED  BY <1>2, <1>4 DEF ChargeInv

(* A message is paid for exactly when it is logged SUCCESS, once, also on  *)
(* a wallet that others move as they like.                                 *)
THEOREM PaidIffSentOnSharedWallet == SharedSpec => []ChargedIffLogged
<1>1. SharedInit => ChargeInv
  <2> SUFFICES ASSUME SharedInit PROVE ChargeInv
    OBVIOUS
  <2>1. [step |-> "new", api |-> "messaging", seen |-> 0] \in Send
    BY DEF Send, SendSteps, Apis
  <2>2. SendTypeOK
    BY <2>1 DEF SharedInit, SendStart, SendTypeOK
  <2>3. LogLast /\ ChargedIffLogged
    BY DEF SharedInit, SendStart, LogLast, ChargedIffLogged, Posted
  <2> QED  BY <2>2, <2>3 DEF ChargeInv
<1>2. ChargeInv /\ [SendNext \/ Elsewhere]_vars => ChargeInv'
  BY ElsewhereKeeps, TypeStep, ChargeStep DEF ChargeInv
<1> QED  BY <1>1, <1>2, PTL DEF SharedSpec, ChargeInv
=============================================================================
