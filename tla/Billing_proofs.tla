----------------------------- MODULE Billing_proofs -----------------------------
(***************************************************************************)
(* Theorems about Billing, for any topups, requests and prices: the totals *)
(* and the balance of the wallet are sums over its journal, and what       *)
(* topups, messages and runs promise alone holds on the wallet they share. *)
(***************************************************************************)
EXTENDS Billing, FiniteSetTheorems, WellFoundedInduction, TLAPS

-----------------------------------------------------------------------------
(* Sums over a finite set                                                  *)

LEMMA NatLeast ==
  ASSUME NEW T, T \subseteq Nat, T # {}
  PROVE  \E n \in T : \A m \in T : n <= m
<1>1. \E n \in T : \A m \in T : ~(<<m, n>> \in OpToRel(<, Nat))
  BY WFMin, NatLessThanWellFounded, Zenon
<1>2. \E n \in T : \A m \in T : ~(m < n)
  BY <1>1, Zenon DEF OpToRel
<1> QED  BY <1>2

LEMMA CountingInduction ==
  ASSUME NEW T, 0 \in T, \A n \in Nat : n \in T => n + 1 \in T
  PROVE  Nat \subseteq T
<1> SUFFICES ASSUME Nat \ T # {} PROVE FALSE
  OBVIOUS
<1>1. PICK n \in Nat \ T : \A m \in Nat \ T : n <= m
  BY NatLeast
<1>2. n - 1 \in Nat \ T
  BY <1>1
<1> QED  BY <1>1, <1>2

Any(s) == CHOOSE x \in s : TRUE
Sums(f, S, g) ==
  g = [s \in SUBSET S |-> IF s = {} THEN 0 ELSE f[Any(s)] + g[s \ {Any(s)}]]

LEMMA SumIs ==
  ASSUME NEW f, NEW S
  PROVE  SumFunctionOnSet(f, S) = (CHOOSE g : Sums(f, S, g))[S]
BY DEF SumFunctionOnSet, FoldFunctionOnSet, MapThenFoldSet, Sums, Any

(* The subsets of a finite set, and an element of each.                    *)
LEMMA Subsets ==
  ASSUME NEW S, IsFiniteSet(S), NEW s \in SUBSET S
  PROVE  /\ Cardinality(s) \in Nat /\ Cardinality(s) <= Cardinality(S)
         /\ Cardinality(S) \in Nat
         /\ Cardinality(s) = 0 <=> s = {}
         /\ \A x \in s : /\ s \ {x} \in SUBSET S
                         /\ Cardinality(s \ {x}) = Cardinality(s) - 1
         /\ s # {} => Any(s) \in s
<1>1. IsFiniteSet(s) /\ Cardinality(s) <= Cardinality(S)
  BY FS_Subset
<1>2. Cardinality(s) \in Nat /\ Cardinality(S) \in Nat
  BY <1>1, FS_CardinalityType
<1>3. Cardinality(s) = 0 <=> s = {}
  BY <1>1, FS_EmptySet
<1>4. \A x \in s : Cardinality(s \ {x}) = Cardinality(s) - 1
  BY <1>1, FS_RemoveElement
<1>5. s # {} => Any(s) \in s
  BY DEF Any
<1> QED  BY <1>1, <1>2, <1>3, <1>4, <1>5

(* Induction on the size of the subsets of a finite set.                   *)
LEMMA SubsetInduction ==
  ASSUME NEW S, IsFiniteSet(S), NEW P, {} \in P,
         \A s \in SUBSET S : (\A x \in s : s \ {x} \in P) => s \in P
  PROVE  SUBSET S \subseteq P
<1> DEFINE T == {n \in Nat : \A s \in SUBSET S : Cardinality(s) <= n => s \in P}
<1>1. 0 \in T
  BY Subsets
<1>2. ASSUME NEW n \in Nat, n \in T PROVE n + 1 \in T
  <2> SUFFICES ASSUME NEW s \in SUBSET S, Cardinality(s) <= n + 1 PROVE s \in P
    OBVIOUS
  <2>1. \A x \in s : s \ {x} \in P
    BY <1>2, Subsets
  <2> QED  BY <2>1
<1> HIDE DEF T
<1>3. Nat \subseteq T
  BY <1>1, <1>2, CountingInduction
<1>4. ASSUME NEW s \in SUBSET S PROVE s \in P
  BY <1>3, <1>4, Subsets DEF T
<1> QED  BY <1>4

Term(f, s, g) == IF s = {} THEN 0 ELSE f[Any(s)] + g[s \ {Any(s)}]

LEMMA SumsAre ==
  ASSUME NEW f, NEW S, NEW g, Sums(f, S, g), NEW s \in SUBSET S
  PROVE  g[s] = Term(f, s, g)
BY DEF Sums, Term

LEMMA SumsExist ==
  ASSUME NEW f, NEW S, IsFiniteSet(S), \A x \in S : f[x] \in Int
  PROVE  \E g \in [SUBSET S -> Int] : Sums(f, S, g)
<1> DEFINE Upto(n) == {s \in SUBSET S : Cardinality(s) <= n}
           Solves(n, h) == h \in [Upto(n) -> Int] /\ \A s \in Upto(n) : h[s] = Term(f, s, h)
           T == {n \in Nat : \E h : Solves(n, h)}
<1>1. 0 \in T
  <2>1. Upto(0) = {{}}
    BY Subsets
  <2>2. Solves(0, [s \in Upto(0) |-> 0])
    BY <2>1 DEF Term
  <2> QED  BY <2>2
<1>2. ASSUME NEW n \in Nat, n \in T PROVE n + 1 \in T
  <2>1. PICK h : Solves(n, h)
    BY <1>2
  <2> DEFINE k == [s \in Upto(n + 1) |-> IF s \in Upto(n) THEN h[s] ELSE Term(f, s, h)]
  <2>2. ASSUME NEW s \in Upto(n + 1), s # {}
        PROVE  Any(s) \in S /\ s \ {Any(s)} \in Upto(n) /\ s \ {Any(s)} \in Upto(n + 1)
    BY <2>2, Subsets
  <2>3. \A s \in Upto(n + 1) : Term(f, s, h) \in Int
    BY <2>1, <2>2 DEF Term
  <2>4. k \in [Upto(n + 1) -> Int]
    BY <2>1, <2>3
  <2>5. ASSUME NEW s \in Upto(n + 1) PROVE k[s] = Term(f, s, k)
    <3>1. Term(f, s, k) = Term(f, s, h)
      BY <2>2 DEF Term
    <3>2. k[s] = Term(f, s, h)
      BY <2>1
    <3> QED  BY <3>1, <3>2
  <2> HIDE DEF k
  <2>6. Solves(n + 1, k)
    BY <2>4, <2>5
  <2> HIDE DEF Solves
  <2> QED  BY <2>6
<1> HIDE DEF T
<1>3. Nat \subseteq T
  BY <1>1, <1>2, CountingInduction
<1>4. Cardinality(S) \in T
  BY <1>3, Subsets
<1>5. Upto(Cardinality(S)) = SUBSET S
  BY Subsets
<1>6. PICK h : Solves(Cardinality(S), h)
  BY <1>4 DEF T
<1> QED  BY <1>5, <1>6 DEF Sums, Term

LEMMA SumsAgree ==
  ASSUME NEW f, NEW S, NEW g, Sums(f, S, g), NEW h, NEW R, NEW k, Sums(h, R, k),
         IsFiniteSet(S), NEW T, T \subseteq S, T \subseteq R, \A x \in T : f[x] = h[x]
  PROVE  g[T] = k[T]
<1> DEFINE P == {s \in SUBSET T : g[s] = k[s]}
<1>1. IsFiniteSet(T)
  BY FS_Subset
<1>2. {} \in P
  BY SumsAre DEF Term
<1>3. ASSUME NEW s \in SUBSET T, \A x \in s : s \ {x} \in P PROVE s \in P
  <2>1. CASE s = {}
    BY <1>2, <2>1
  <2>2. CASE s # {}
    <3>1. Any(s) \in s
      BY <2>2 DEF Any
    <3>2. g[s \ {Any(s)}] = k[s \ {Any(s)}] /\ f[Any(s)] = h[Any(s)]
      BY <1>3, <3>1
    <3>3. g[s] = Term(f, s, g) /\ k[s] = Term(h, s, k)
      BY SumsAre
    <3> QED  BY <2>2, <3>2, <3>3 DEF Term
  <2> QED  BY <2>1, <2>2
<1> HIDE DEF P
<1>4. SUBSET T \subseteq P
  BY <1>1, <1>2, <1>3, SubsetInduction
<1> QED  BY <1>4 DEF P

(* The sum the library's fold computes.                                    *)
LEMMA SumSolves ==
  ASSUME NEW f, NEW S, IsFiniteSet(S), \A x \in S : f[x] \in Int
  PROVE  \E g \in [SUBSET S -> Int] : Sums(f, S, g) /\ SumFunctionOnSet(f, S) = g[S]
<1> DEFINE G == CHOOSE g : Sums(f, S, g)
<1>1. PICK g \in [SUBSET S -> Int] : Sums(f, S, g)
  BY SumsExist
<1>2. Sums(f, S, G)
  BY <1>1
<1> HIDE DEF G
<1>3. G[S] = g[S]
  BY <1>1, <1>2, SumsAgree
<1> QED  BY <1>1, <1>3, SumIs DEF G

LEMMA SumOfNone == ASSUME NEW f PROVE SumFunctionOnSet(f, {}) = 0
<1>1. PICK g \in [SUBSET {} -> Int] : Sums(f, {}, g) /\ SumFunctionOnSet(f, {}) = g[{}]
  BY SumSolves, FS_EmptySet
<1> QED  BY <1>1, SumsAre DEF Term

LEMMA SumSame ==
  ASSUME NEW f, NEW h, NEW S, IsFiniteSet(S), \A x \in S : f[x] \in Int /\ h[x] = f[x]
  PROVE  SumFunctionOnSet(f, S) = SumFunctionOnSet(h, S) /\ SumFunctionOnSet(f, S) \in Int
<1>1. PICK g \in [SUBSET S -> Int] : Sums(f, S, g) /\ SumFunctionOnSet(f, S) = g[S]
  BY SumSolves
<1>2. PICK k \in [SUBSET S -> Int] : Sums(h, S, k) /\ SumFunctionOnSet(h, S) = k[S]
  BY SumSolves
<1>3. g[S] = k[S]
  BY <1>1, <1>2, SumsAgree
<1> QED  BY <1>1, <1>2, <1>3

(* Whichever element is taken off first.                                   *)
AnyOrder(f, S, g) == \A s \in SUBSET S : \A x \in s : g[s] = f[x] + g[s \ {x}]

LEMMA AnyFirst ==
  ASSUME NEW f, NEW S, IsFiniteSet(S), NEW g, g \in [SUBSET S -> Int], Sums(f, S, g),
         \A x \in S : f[x] \in Int
  PROVE  AnyOrder(f, S, g)
<1> DEFINE P == {s \in SUBSET S : \A x \in s : g[s] = f[x] + g[s \ {x}]}
<1>1. {} \in P
  OBVIOUS
<1>2. ASSUME NEW s \in SUBSET S, \A x \in s : s \ {x} \in P PROVE s \in P
  <2> SUFFICES ASSUME NEW x \in s PROVE g[s] = f[x] + g[s \ {x}]
    OBVIOUS
  <2>1. PICK y \in s : y = Any(s)
    BY DEF Any
  <2>2. g[s] = f[y] + g[s \ {y}]
    BY <2>1, SumsAre DEF Term
  <2>3. CASE x = y
    BY <2>2, <2>3
  <2>4. CASE x # y
    <3>1. g[s \ {y}] = f[x] + g[(s \ {y}) \ {x}]
      BY <1>2, <2>1, <2>4
    <3>2. g[s \ {x}] = f[y] + g[(s \ {x}) \ {y}]
      BY <1>2, <2>1, <2>4
    <3>3. (s \ {y}) \ {x} = (s \ {x}) \ {y}
      OBVIOUS
    <3>4. PICK rest \in Int : rest = g[(s \ {x}) \ {y}]
      OBVIOUS
    <3>5. f[x] \in Int /\ f[y] \in Int
      BY <2>1
    <3>6. g[s] = f[y] + (f[x] + rest) /\ g[s \ {x}] = f[y] + rest
      BY <2>2, <3>1, <3>2, <3>3, <3>4
    <3> QED  BY <3>4, <3>5, <3>6
  <2> QED  BY <2>3, <2>4
<1> HIDE DEF P
<1>3. SUBSET S \subseteq P
  BY <1>1, <1>2, SubsetInduction, SMTT(60)
<1> QED  BY <1>3 DEF P, AnyOrder

LEMMA SumAdd ==
  ASSUME NEW f, NEW S, IsFiniteSet(S), NEW x, x \notin S,
         f[x] \in Int, \A y \in S : f[y] \in Int
  PROVE  SumFunctionOnSet(f, S \cup {x}) = f[x] + SumFunctionOnSet(f, S)
<1>r. PICK R : R = S \cup {x}
  OBVIOUS
<1>1. IsFiniteSet(R) /\ (\A y \in R : f[y] \in Int)
  BY <1>r, FS_AddElement
<1>2. PICK g \in [SUBSET R -> Int] : Sums(f, R, g) /\ SumFunctionOnSet(f, R) = g[R]
  BY <1>1, SumSolves
<1>3. PICK k \in [SUBSET S -> Int] : Sums(f, S, k) /\ SumFunctionOnSet(f, S) = k[S]
  BY SumSolves
<1>4. x \in R /\ R \ {x} = S
  BY <1>r
<1>o. AnyOrder(f, R, g)
  BY <1>1, <1>2, AnyFirst
<1>5. g[R] = f[x] + g[R \ {x}]
  BY <1>o, <1>4 DEF AnyOrder
<1>6. g[S] = k[S]
  BY <1>r, <1>1, <1>2, <1>3, SumsAgree
<1> QED  BY <1>r, <1>2, <1>3, <1>4, <1>5, <1>6

(* A sum over the positions of a journal, and what one more row adds.      *)
LEMMA SumExtends ==
  ASSUME NEW n \in Nat, NEW f, NEW h, NEW T \in SUBSET (1..n),
         \A i \in 1..n : f[i] \in Int /\ h[i] = f[i],
         h[n + 1] \in Int
  PROVE  /\ SumFunctionOnSet(f, T) \in Int
         /\ SumFunctionOnSet(h, T) = SumFunctionOnSet(f, T)
         /\ SumFunctionOnSet(h, T \cup {n + 1}) = h[n + 1] + SumFunctionOnSet(f, T)
<1>1. IsFiniteSet(T)
  <2>1. PICK R : R = 1..n
    OBVIOUS
  <2>2. IsFiniteSet(R) /\ T \subseteq R
    BY <2>1, FS_Interval
  <2> QED  BY <2>2, FS_Subset
<1>2. \A i \in T : f[i] \in Int /\ h[i] = f[i]
  OBVIOUS
<1>3. \A i \in T : h[i] \in Int
  BY <1>2
<1>4. n + 1 \notin T
  OBVIOUS
<1>5. SumFunctionOnSet(f, T) = SumFunctionOnSet(h, T) /\ SumFunctionOnSet(f, T) \in Int
  BY <1>1, <1>2, SumSame
<1>6. PICK x : x = n + 1
  OBVIOUS
<1>7. x \notin T /\ h[x] \in Int
  BY <1>4, <1>6
<1>8. SumFunctionOnSet(h, T \cup {x}) = h[x] + SumFunctionOnSet(h, T)
  BY <1>1, <1>3, <1>7, SumAdd
<1> QED  BY <1>5, <1>6, <1>8

-----------------------------------------------------------------------------
(* What a step of a component does to the account and the journal          *)

Entry == WalletTransaction

(* The local variables of a campaign request that amounts depend on.       *)
LocalsOK(r) ==
  /\ DOMAIN r = DOMAIN Campaign!NewRequest
  /\ r.price \in Nat
  /\ IsFiniteSet(r.batch)
  /\ IsFiniteSet(r.failed)
  /\ r.seen \in Int

RunsOK == DOMAIN req = Requests /\ \A q \in Requests : LocalsOK(req[q])

HandlersOK == /\ handler \in [Handlers -> Topup!Handler]
              /\ \A h \in Handlers : handler[h].step # "idle" => handler[h].topup \in TopupIds

BillingTypes == /\ wallet \in WalletAccount
                /\ ledger \in Seq(Entry)
                /\ send \in [SendIds -> Sending!Send]
                /\ HandlersOK
                /\ RunsOK

(* The account is as before but for its existence.                         *)
Untouched == /\ ledger' = ledger
             /\ wallet' \in WalletAccount
             /\ wallet'.balance = wallet.balance
             /\ wallet'.totalTopup = wallet.totalTopup
             /\ wallet'.totalSpent = wallet.totalSpent
             /\ wallet'.totalRefund = wallet.totalRefund

IsTopup(e)  == e.type = "TOPUP_CREDIT"
IsRefund(e) == e.type = "CAMPAIGN_REFUND"
IsSpent(e)  == e.type = "CAMPAIGN_HOLD" \/ PublicDebit(e)
IfIs(test, amount) == IF test THEN amount ELSE 0

(* One row is added, and the account moved by it.                          *)
Books(e) ==
  /\ ledger' = Append(ledger, e)
  /\ wallet' \in WalletAccount
  /\ wallet'.balance = IF IsTopup(e) THEN e.balanceAfter ELSE wallet.balance + Signed(e)
  /\ wallet'.totalTopup = wallet.totalTopup + IfIs(IsTopup(e), e.amount)
  /\ wallet'.totalSpent = wallet.totalSpent + IfIs(IsSpent(e), e.amount)
  /\ wallet'.totalRefund = wallet.totalRefund + IfIs(IsRefund(e), e.amount)
  /\ e.type = "MESSAGE_DEBIT" => /\ e.source \in SendIds
                                 /\ send[e.source].step = "accepted"
                                 /\ send'[e.source].step = "done"

(* What a request was sent through is settled once it was checked.         *)
SendsStay ==
  \A s \in SendIds :
    /\ send[s].step # "new" => send'[s].api = send[s].api
    /\ send[s].step = "done" => send'[s].step = "done"

(* A row of one of these types is added.                                   *)
BooksA(types) == \E e \in Entry : e.type \in types /\ Books(e)

CampaignTypes == {"CAMPAIGN_HOLD", "CAMPAIGN_REFUND"}

Effect(types) == (Untouched \/ BooksA(types)) /\ SendsStay /\ BillingTypes'

LEMMA Unmoved ==
  ASSUME BillingTypes, UNCHANGED walletVars
  PROVE  Untouched /\ (ledger \in Seq(Entry))' /\ (wallet \in WalletAccount)'
BY DEF BillingTypes, walletVars, Untouched

LEMMA BooksOne ==
  ASSUME BillingTypes, NEW e \in Entry, ledger' = Append(ledger, e)
  PROVE  ledger' \in Seq(Entry)
BY DEF BillingTypes

LEMMA NewEntry ==
  ASSUME NEW type \in WalletTransactionType, NEW source,
         source \in TopupIds \/ source \in SendIds \/ source \in Requests,
         NEW amount \in Int, NEW before \in Int, NEW after \in Int
  PROVE  \E e \in Entry :
           /\ e = [type |-> type, source |-> source, amount |-> amount,
                   balanceBefore |-> before, balanceAfter |-> after]
           /\ e.type = type /\ e.source = source /\ e.amount = amount
           /\ e.balanceAfter = after
<1>1. [type |-> type, source |-> source, amount |-> amount,
       balanceBefore |-> before, balanceAfter |-> after] \in Entry
  BY BillingSources DEF Entry, WalletTransaction
<1> QED  BY <1>1

(* Topups                                                                  *)
LEMMA TopupEffect ==
  ASSUME BillingTypes, Topup!TopupNext, UNCHANGED <<sendVars, campaignVars>>
  PROVE  Effect({"TOPUP_CREDIT"})
<1>1. RunsOK' /\ SendsStay /\ (send \in [SendIds -> Sending!Send])'
  BY DEF BillingTypes, RunsOK, LocalsOK, SendsStay, sendVars, campaignVars
<1>2. SUFFICES (Untouched \/ BooksA({"TOPUP_CREDIT"})) /\ (ledger \in Seq(Entry))' /\ HandlersOK'
               /\ (wallet \in WalletAccount)'
  BY <1>1 DEF Effect, BillingTypes
<1>3. HandlersOK
  BY DEF BillingTypes
<1>4. ASSUME NEW t \in TopupIds, Topup!CallStep(t)
      PROVE  handler' = handler /\ Untouched
             /\ (ledger \in Seq(Entry))' /\ (wallet \in WalletAccount)'
  <2>1. CASE Topup!CreateTopup(t)
    BY <2>1 DEF Topup!CreateTopup, BillingTypes, Untouched, WalletAccount
  <2>2. CASE ~Topup!CreateTopup(t)
    <3>1. handler' = handler /\ UNCHANGED walletVars
      BY <1>4, <2>2 DEF Topup!CallStep, Topup!LinkRefused, Topup!LinkUnusable,
            Topup!LinkOpened, Topup!SaveQr, Topup!SaveQrFails, Topup!MarkFailed,
            Topup!CrashCall, Topup!walletVars, walletVars
    <3> QED  BY <3>1, Unmoved
  <2> QED  BY <2>1, <2>2
<1>5. ASSUME NEW t \in TopupIds, Topup!PayQr(t)
      PROVE  handler' = handler /\ UNCHANGED walletVars
  BY <1>5 DEF Topup!PayQr, Topup!walletVars, walletVars
<1>6. ASSUME NEW h \in Handlers, Topup!HandlerStep(h), ~Topup!CommitCredit(h)
      PROVE  HandlersOK' /\ UNCHANGED walletVars
  <2>1. UNCHANGED walletVars
    BY <1>6 DEF Topup!HandlerStep, Topup!FindTopup, Topup!ReadWallet, Topup!RollBackCredit,
          Topup!CrashHandler, Topup!walletVars, walletVars
  <2>2. PICK x : /\ handler' = handler \/ handler' = [handler EXCEPT ![h] = x]
                 /\ x \in Topup!Handler /\ (x.step # "idle" => x.topup \in TopupIds)
    <3>1. Topup!Idle \in Topup!Handler /\ Topup!Idle.step = "idle"
      BY DEF Topup!Idle, Topup!Handler
    <3>2. CASE Topup!RollBackCredit(h) \/ Topup!CrashHandler(h)
      BY <3>1, <3>2 DEF Topup!RollBackCredit, Topup!CrashHandler
    <3>3. ASSUME NEW t \in TopupIds, NEW b \in StrayAmounts \cup {Amount[t]},
                 Topup!FindTopup(h, t, b)
          PROVE  \E x : /\ handler' = handler \/ handler' = [handler EXCEPT ![h] = x]
                        /\ x \in Topup!Handler /\ (x.step # "idle" => x.topup \in TopupIds)
      <4>1. Topup!Found(t, b) \in Topup!Handler /\ Topup!Found(t, b).topup = t
        BY BillingNumbers DEF Topup!Found, Topup!Handler
      <4> QED  BY <3>3, <4>1 DEF Topup!FindTopup
    <3>4. CASE Topup!ReadWallet(h)
      <4>1. handler' = [handler EXCEPT ![h] = [@ EXCEPT !.step = "read", !.seen = wallet.balance]]
        BY <1>3, <3>4 DEF Topup!ReadWallet, HandlersOK, Topup!Handler
      <4>2. [handler[h] EXCEPT !.step = "read", !.seen = wallet.balance] \in Topup!Handler
        BY <1>3 DEF HandlersOK, Topup!Handler, BillingTypes, WalletAccount
      <4>3. handler[h].topup \in TopupIds
        BY <1>3, <3>4 DEF HandlersOK, Topup!ReadWallet
      <4> QED  BY <4>1, <4>2, <4>3, <1>3 DEF HandlersOK, Topup!Handler
    <3> QED  BY <1>6, <3>2, <3>3, <3>4 DEF Topup!HandlerStep
  <2>3. HandlersOK'
    BY <1>3, <2>2 DEF HandlersOK
  <2> QED  BY <2>1, <2>3
<1>7. ASSUME NEW h \in Handlers, Topup!CommitCredit(h)
      PROVE  HandlersOK' /\ (ledger \in Seq(Entry))' /\ (wallet \in WalletAccount)'
             /\ BooksA({"TOPUP_CREDIT"})
  <2>1. PICK t \in TopupIds, seen \in Int : t = handler[h].topup /\ seen = handler[h].seen
    BY <1>3, <1>7 DEF HandlersOK, Topup!Handler, Topup!CommitCredit
  <2>2. PICK a \in Int : a = handler[h].amount
    BY <1>3, <1>7 DEF HandlersOK, Topup!Handler, Topup!CommitCredit
  <2>3. PICK e \in Entry :
          /\ e = [type |-> "TOPUP_CREDIT", source |-> t, amount |-> a,
                  balanceBefore |-> seen, balanceAfter |-> seen + a]
          /\ e.type = "TOPUP_CREDIT" /\ e.amount = a /\ e.balanceAfter = seen + a
    <3>1. a \in Int /\ seen + a \in Int /\ "TOPUP_CREDIT" \in WalletTransactionType
      BY DEF WalletTransactionType
    <3> QED  BY <3>1, NewEntry
  <2>4. ledger' = Append(ledger, e)
    BY <1>7, <2>1, <2>2, <2>3 DEF Topup!CommitCredit, Topup!Post
  <2>5. wallet' = [wallet EXCEPT !.balance = seen + a, !.totalTopup = @ + a]
    BY <1>7, <2>1, <2>2 DEF Topup!CommitCredit, Topup!Credited
  <2>6. HandlersOK'
    BY <1>3, <1>7 DEF HandlersOK, Topup!Handler, Topup!CommitCredit, Topup!Idle
  <2>7. Books(e)
    <3>1. wallet \in WalletAccount
      BY DEF BillingTypes
    <3>2. /\ wallet' \in WalletAccount
          /\ wallet'.balance = seen + a
          /\ wallet'.totalTopup = wallet.totalTopup + a
          /\ wallet'.totalSpent = wallet.totalSpent + 0
          /\ wallet'.totalRefund = wallet.totalRefund + 0
      <4>1. PICK n \in Int : n = wallet.totalTopup + a
        BY <3>1 DEF WalletAccount
      <4>2. PICK m \in Int : m = seen + a
        OBVIOUS
      <4>3. wallet' = [wallet EXCEPT !.balance = m, !.totalTopup = n]
        BY <2>5, <3>1, <4>1, <4>2 DEF WalletAccount
      <4>4. /\ wallet' \in WalletAccount /\ wallet'.balance = m /\ wallet'.totalTopup = n
            /\ wallet'.totalSpent = wallet.totalSpent
            /\ wallet'.totalRefund = wallet.totalRefund
        BY <3>1, <4>3 DEF WalletAccount
      <4>5. wallet.totalSpent \in Int /\ wallet.totalRefund \in Int
        BY <3>1 DEF WalletAccount
      <4> QED  BY <4>1, <4>2, <4>4, <4>5
    <3>3. IsTopup(e) /\ ~IsRefund(e) /\ ~IsSpent(e) /\ e.type # "MESSAGE_DEBIT"
      BY <2>3 DEF IsTopup, IsRefund, IsSpent, PublicDebit
    <3>4. e.amount = a /\ e.balanceAfter = seen + a
      BY <2>3
    <3>5. /\ IfIs(IsTopup(e), e.amount) = a /\ IfIs(IsSpent(e), e.amount) = 0
          /\ IfIs(IsRefund(e), e.amount) = 0
      BY <3>3, <3>4 DEF IfIs
    <3> QED  BY <2>4, <3>2, <3>3, <3>4, <3>5 DEF Books
  <2>8. ledger' \in Seq(Entry)
    BY <2>4, BooksOne
  <2>9. BooksA({"TOPUP_CREDIT"})
    BY <2>3, <2>7 DEF BooksA
  <2> QED  BY <2>6, <2>7, <2>8, <2>9 DEF Books
<1>8. ASSUME handler' = handler PROVE HandlersOK'
  BY <1>3, <1>8 DEF HandlersOK
<1>9. ASSUME NEW t \in TopupIds, NEW b \in StrayAmounts, Topup!StrayNotice(t, b)
      PROVE  handler' = handler /\ UNCHANGED walletVars
  BY <1>9 DEF Topup!StrayNotice, Topup!walletVars, walletVars
<1> QED
  BY <1>4, <1>5, <1>6, <1>7, <1>8, <1>9, Unmoved DEF Topup!TopupNext

(* Single messages                                                         *)
LEMMA SendEffect ==
  ASSUME BillingTypes, Sending!SendNext, UNCHANGED <<topupVars, campaignVars>>
  PROVE  Effect({"MESSAGE_DEBIT"})
<1>1. RunsOK' /\ HandlersOK'
  BY DEF BillingTypes, RunsOK, LocalsOK, HandlersOK, topupVars, campaignVars
<1>2. SUFFICES (Untouched \/ BooksA({"MESSAGE_DEBIT"})) /\ (ledger \in Seq(Entry))' /\ SendsStay
               /\ (send \in [SendIds -> Sending!Send])' /\ (wallet \in WalletAccount)'
  BY <1>1 DEF Effect, BillingTypes
<1>3. send \in [SendIds -> Sending!Send] /\ wallet \in WalletAccount
  BY DEF BillingTypes
<1>4. PICK s \in SendIds : Sending!SendStep(s)
  BY DEF Sending!SendNext
<1>5. CASE ~Sending!Charge(s)
  <2>1. UNCHANGED walletVars
    BY <1>4, <1>5 DEF Sending!SendStep, Sending!CheckCredit, Sending!DispatchAccepted,
          Sending!DispatchThrows, Sending!LogFailure, Sending!CrashSend, Sending!walletVars,
          walletVars
  <2>2. CASE \E api \in Sending!Apis : Sending!CheckCredit(s, api)
    <3>1. PICK api \in Sending!Apis, to \in {"checked", "rejected"} :
            /\ send[s].step = "new"
            /\ send' = [send EXCEPT ![s] = [step |-> to, api |-> api, seen |-> wallet.balance]]
      BY <2>2 DEF Sending!CheckCredit
    <3>2. [step |-> to, api |-> api, seen |-> wallet.balance] \in Sending!Send
      BY <1>3, <3>1 DEF Sending!Send, Sending!SendSteps, WalletAccount
    <3> QED  BY <1>3, <2>1, <3>1, <3>2, Unmoved DEF SendsStay, Sending!Send
  <2>3. CASE ~\E api \in Sending!Apis : Sending!CheckCredit(s, api)
    <3>1. PICK to \in Sending!SendSteps :
            send[s].step \notin {"new", "done"} /\ send' = [send EXCEPT ![s].step = to]
      BY <1>4, <1>5, <2>3 DEF Sending!SendStep, Sending!DispatchAccepted,
            Sending!DispatchThrows, Sending!LogFailure, Sending!CrashSend, Sending!SendGoes,
            Sending!SendSteps
    <3> QED  BY <1>3, <2>1, <3>1, Unmoved DEF SendsStay, Sending!Send
  <2> QED  BY <2>2, <2>3
<1>6. CASE Sending!Charge(s)
  <2>1. /\ send[s].step = "accepted" /\ send' = [send EXCEPT ![s].step = "done"]
        /\ send[s].api \in Sending!Apis /\ send[s].seen \in Int
    BY <1>3, <1>6 DEF Sending!Charge, Sending!SendGoes, Sending!Send
  <2>2. PICK cost \in Nat : cost = Sending!Cost(send[s].api)
    BY BillingNumbers DEF Sending!Cost
  <2>3. PICK e \in Entry :
          /\ e = [type |-> "MESSAGE_DEBIT", source |-> s, amount |-> cost,
                  balanceBefore |-> send[s].seen, balanceAfter |-> send[s].seen - cost]
          /\ e.type = "MESSAGE_DEBIT" /\ e.source = s /\ e.amount = cost
    <3>1. cost \in Int /\ send[s].seen - cost \in Int /\ "MESSAGE_DEBIT" \in WalletTransactionType
      BY <2>1 DEF WalletTransactionType
    <3> QED  BY <2>1, <3>1, NewEntry
  <2>4. ledger' = Append(ledger, e)
    BY <1>6, <2>2, <2>3 DEF Sending!Charge, Sending!Post
  <2>5. SendsStay /\ (send \in [SendIds -> Sending!Send])' /\ send'[s].step = "done"
    BY <1>3, <2>1 DEF SendsStay, Sending!Send, Sending!SendSteps
  <2>6. PICK m \in Int : m = wallet.balance - cost
    BY <1>3 DEF WalletAccount
  <2>7. PICK n \in Int : n = IF send[s].api = "public" THEN wallet.totalSpent + cost
                             ELSE wallet.totalSpent
    BY <1>3 DEF WalletAccount
  <2>8. wallet' = [wallet EXCEPT !.balance = m, !.totalSpent = n]
    BY <1>3, <1>6, <2>2, <2>6, <2>7 DEF Sending!Charge, Sending!Debited, Sending!Cost, WalletAccount
  <2>9. /\ wallet' \in WalletAccount /\ wallet'.balance = m /\ wallet'.totalSpent = n
        /\ wallet'.totalTopup = wallet.totalTopup
        /\ wallet'.totalRefund = wallet.totalRefund
    BY <1>3, <2>8 DEF WalletAccount
  <2>10. /\ wallet.totalSpent \in Int /\ wallet.totalRefund \in Int /\ wallet.totalTopup \in Int
         /\ wallet.balance \in Int
    BY <1>3 DEF WalletAccount
  <2>11. /\ ~IsTopup(e) /\ ~IsRefund(e) /\ (IsSpent(e) <=> send[s].api = "public")
    BY <2>3 DEF IsTopup, IsRefund, IsSpent, PublicDebit
  <2>12. e.type = "MESSAGE_DEBIT" /\ e.source = s /\ e.amount = cost
    BY <2>3
  <2>13. /\ IfIs(IsTopup(e), e.amount) = 0 /\ IfIs(IsRefund(e), e.amount) = 0
         /\ IfIs(IsSpent(e), e.amount) = IF send[s].api = "public" THEN cost ELSE 0
         /\ Signed(e) = -cost
    BY <2>11, <2>12 DEF IfIs, Signed, Debits
  <2>14. Books(e)
    BY <2>1, <2>4, <2>5, <2>6, <2>7, <2>9, <2>10, <2>11, <2>12, <2>13 DEF Books
  <2>15. ledger' \in Seq(Entry)
    BY <2>4, BooksOne
  <2>16. BooksA({"MESSAGE_DEBIT"})
    BY <2>12, <2>14 DEF BooksA
  <2> QED  BY <2>5, <2>9, <2>15, <2>16
<1> QED  BY <1>5, <1>6

(* Campaigns.  Every step gives one request new local variables.           *)
LEMMA ScopedOK ==
  ASSUME NEW r, LocalsOK(r), NEW to
  PROVE  LocalsOK(Campaign!Scoped(r, to))
<1>1. CASE to \in Campaign!EndSteps
  <2>1. Campaign!Scoped(r, to) =
          [Campaign!NewRequest EXCEPT !.op = r.op, !.step = to, !.price = r.price]
    BY <1>1 DEF Campaign!Scoped
  <2>2. r.price \in Nat /\ IsFiniteSet({})
    BY FS_EmptySet DEF LocalsOK
  <2> QED  BY <2>1, <2>2 DEF LocalsOK, Campaign!NewRequest
<1>2. CASE to \notin Campaign!EndSteps
  <2> DEFINE s == IF to \in {"debiting", "crediting"} THEN r.seen ELSE 0
             w == IF to \in {"accepted", "refused", "updating", "deleting"} THEN r.row ELSE NoRow
             c == IF to = "synced" THEN r.counts ELSE Campaign!NoCounts
  <2>1. s \in Int
    BY DEF LocalsOK
  <2>2. Campaign!Scoped(r, to) = [r EXCEPT !.step = to, !.row = w, !.seen = s, !.counts = c]
    BY <1>2 DEF Campaign!Scoped, LocalsOK, Campaign!NewRequest
  <2> HIDE DEF s, w, c
  <2> QED  BY <2>1, <2>2 DEF LocalsOK, Campaign!NewRequest
<1> QED  BY <1>1, <1>2

LEMMA RunsStay ==
  ASSUME RunsOK, NEW q \in Requests, NEW r, LocalsOK(r), NEW to, Campaign!With(q, r, to)
  PROVE  RunsOK'
<1>1. PICK x : LocalsOK(x) /\ req' = [req EXCEPT ![q] = x]
  BY ScopedOK DEF Campaign!With
<1>2. DOMAIN req' = Requests /\ \A p \in Requests : req'[p] = x \/ req'[p] = req[p]
  BY <1>1 DEF RunsOK
<1>3. \A p \in Requests : LocalsOK(req'[p])
  BY <1>1, <1>2 DEF RunsOK
<1> QED  BY <1>2, <1>3 DEF RunsOK, LocalsOK

LEMMA RunsGo ==
  ASSUME RunsOK, NEW q \in Requests,
         \E from, to : Campaign!Goes(q, from, to)
  PROVE  RunsOK'
<1>1. LocalsOK(req[q])
  BY DEF RunsOK
<1> QED  BY <1>1, RunsStay DEF Campaign!Goes

(* What a hold or a refund costs.                                          *)
LEMMA Priced ==
  ASSUME RunsOK, NEW q \in Requests
  PROVE  Campaign!Charge(q) \in Nat /\ Campaign!Refund(q) \in Nat
<1>1. LocalsOK(req[q])
  BY DEF RunsOK
<1>2. /\ req[q].price \in Nat /\ Cardinality(req[q].batch) \in Nat
      /\ Cardinality(req[q].failed) \in Nat
  BY <1>1, FS_CardinalityType DEF LocalsOK
<1>3. \A a, b \in Nat : a * b \in Nat
  OBVIOUS
<1>4. \A S : Campaign!Cardinality(S) = Cardinality(S)
  BY DEF Campaign!Cardinality, Cardinality
<1> QED  BY <1>2, <1>3, <1>4 DEF Campaign!Charge, Campaign!Refund

LEMMA HoldBooks ==
  ASSUME BillingTypes, NEW q \in Requests, Campaign!PostHold(q)
  PROVE  BooksA(CampaignTypes)
<1>1. wallet \in WalletAccount
  BY DEF BillingTypes
<1>2. PICK cost \in Nat : cost = Campaign!Charge(q)
  BY Priced DEF BillingTypes
<1>3. PICK seen \in Int : seen = req[q].seen
  BY DEF BillingTypes, RunsOK, LocalsOK
<1>4. PICK e \in Entry :
        /\ e = [type |-> "CAMPAIGN_HOLD", source |-> q, amount |-> cost,
                balanceBefore |-> seen, balanceAfter |-> seen - cost]
        /\ e.type = "CAMPAIGN_HOLD" /\ e.amount = cost
  <2>1. cost \in Int /\ seen - cost \in Int /\ "CAMPAIGN_HOLD" \in WalletTransactionType
    BY DEF WalletTransactionType
  <2>2. q \in TopupIds \/ q \in SendIds \/ q \in Requests
    OBVIOUS
  <2>3. PICK after \in Int : after = seen - cost
    BY <2>1
  <2> QED  BY <2>1, <2>2, <2>3, NewEntry
<1>5. ledger' = Append(ledger, e)
  BY <1>2, <1>3, <1>4 DEF Campaign!PostHold, Campaign!Post
<1>6. PICK m \in Int, n \in Int : m = wallet.balance - cost /\ n = wallet.totalSpent + cost
  BY <1>1 DEF WalletAccount
<1>7. wallet' = [wallet EXCEPT !.balance = m, !.totalSpent = n]
  BY <1>1, <1>2, <1>6 DEF Campaign!PostHold, WalletAccount
<1>8. /\ wallet' \in WalletAccount /\ wallet'.balance = m /\ wallet'.totalSpent = n
      /\ wallet'.totalTopup = wallet.totalTopup
      /\ wallet'.totalRefund = wallet.totalRefund
  BY <1>1, <1>7 DEF WalletAccount
<1>9. /\ wallet.totalRefund \in Int /\ wallet.totalTopup \in Int
      /\ wallet.balance \in Int
  BY <1>1 DEF WalletAccount
<1>10. ~IsTopup(e) /\ ~IsRefund(e) /\ IsSpent(e)
  BY <1>4 DEF IsTopup, IsRefund, IsSpent, PublicDebit
<1>11. e.type = "CAMPAIGN_HOLD" /\ e.amount = cost
  BY <1>4
<1>t. (IF IsTopup(e) THEN e.balanceAfter ELSE wallet.balance + Signed(e)) = wallet.balance + Signed(e)
  BY <1>10
<1>12. /\ IfIs(IsTopup(e), e.amount) = 0 /\ IfIs(IsRefund(e), e.amount) = 0
       /\ IfIs(IsSpent(e), e.amount) = cost /\ Signed(e) = -cost
  BY <1>10, <1>11 DEF IfIs, Signed, Debits
<1>13. e.type # "MESSAGE_DEBIT"
  BY <1>11
<1>14. Books(e)
  BY <1>t, <1>5, <1>6, <1>8, <1>9, <1>12, <1>13 DEF Books
<1> QED  BY <1>11, <1>14 DEF BooksA, CampaignTypes

LEMMA RefundBooks ==
  ASSUME BillingTypes, NEW q \in Requests, Campaign!CommitRefund(q)
  PROVE  BooksA(CampaignTypes)
<1>1. wallet \in WalletAccount
  BY DEF BillingTypes
<1>2. PICK cost \in Nat : cost = Campaign!Refund(q)
  BY Priced DEF BillingTypes
<1>3. PICK seen \in Int : seen = req[q].seen
  BY DEF BillingTypes, RunsOK, LocalsOK
<1>4. PICK e \in Entry :
        /\ e = [type |-> "CAMPAIGN_REFUND", source |-> q, amount |-> cost,
                balanceBefore |-> seen, balanceAfter |-> seen + cost]
        /\ e.type = "CAMPAIGN_REFUND" /\ e.amount = cost
  <2>1. cost \in Int /\ seen + cost \in Int /\ "CAMPAIGN_REFUND" \in WalletTransactionType
    BY DEF WalletTransactionType
  <2>2. q \in TopupIds \/ q \in SendIds \/ q \in Requests
    OBVIOUS
  <2>3. PICK after \in Int : after = seen + cost
    BY <2>1
  <2> QED  BY <2>1, <2>2, <2>3, NewEntry
<1>5. ledger' = Append(ledger, e)
  BY <1>2, <1>3, <1>4 DEF Campaign!CommitRefund, Campaign!Post
<1>6. PICK m \in Int, n \in Int : m = wallet.balance + cost /\ n = wallet.totalRefund + cost
  BY <1>1 DEF WalletAccount
<1>7. wallet' = [wallet EXCEPT !.balance = m, !.totalRefund = n]
  BY <1>1, <1>2, <1>6 DEF Campaign!CommitRefund, WalletAccount
<1>8. /\ wallet' \in WalletAccount /\ wallet'.balance = m /\ wallet'.totalRefund = n
      /\ wallet'.totalTopup = wallet.totalTopup
      /\ wallet'.totalSpent = wallet.totalSpent
  BY <1>1, <1>7 DEF WalletAccount
<1>9. /\ wallet.totalSpent \in Int /\ wallet.totalTopup \in Int
      /\ wallet.balance \in Int
  BY <1>1 DEF WalletAccount
<1>10. ~IsTopup(e) /\ IsRefund(e) /\ ~IsSpent(e)
  BY <1>4 DEF IsTopup, IsRefund, IsSpent, PublicDebit
<1>11. e.type = "CAMPAIGN_REFUND" /\ e.amount = cost
  BY <1>4
<1>t. (IF IsTopup(e) THEN e.balanceAfter ELSE wallet.balance + Signed(e)) = wallet.balance + Signed(e)
  BY <1>10
<1>12. /\ IfIs(IsTopup(e), e.amount) = 0 /\ IfIs(IsRefund(e), e.amount) = cost
       /\ IfIs(IsSpent(e), e.amount) = 0 /\ Signed(e) = cost
  BY <1>10, <1>11 DEF IfIs, Signed, Debits
<1>13. e.type # "MESSAGE_DEBIT"
  BY <1>11
<1>14. Books(e)
  BY <1>t, <1>5, <1>6, <1>8, <1>9, <1>12, <1>13 DEF Books
<1> QED  BY <1>11, <1>14 DEF BooksA, CampaignTypes

LEMMA RunsMove ==
  ASSUME RunsOK, wallet \in WalletAccount, NEW q \in Requests,
         Campaign!BeginRequest(q) \/ Campaign!Continue(q) \/ Campaign!CrashRequest(q)
  PROVE  RunsOK'
<1> DEFINE Moves == \E r, to : LocalsOK(r) /\ Campaign!With(q, r, to)
<1> SUFFICES Moves
  BY RunsStay
<1>1. LocalsOK(req[q])
  BY DEF RunsOK
<1>2. \A to : Campaign!With(q, req[q], to) => Moves
  BY <1>1
<1>3. \A from, to : Campaign!Goes(q, from, to) => Moves
  BY <1>2 DEF Campaign!Goes
<1>4. \A r : LocalsOK(r) => \A to : Campaign!With(q, r, to) => Moves
  OBVIOUS
<1> HIDE DEF Moves
<1>5. ASSUME NEW op, NEW allowed, NEW step, Campaign!Begin(q, op, allowed, step)
      PROVE  Moves
  <2>1. LocalsOK([req[q] EXCEPT !.op = op, !.hadRun = campaign.hasRun])
    BY <1>1 DEF LocalsOK, Campaign!NewRequest
  <2> QED  BY <1>4, <1>5, <2>1 DEF Campaign!Begin
<1>6. CASE Campaign!BeginRequest(q)
  BY <1>5, <1>6 DEF Campaign!BeginRequest, Campaign!BeginRun, Campaign!BeginImport,
        Campaign!BeginEdit, Campaign!BeginRemove
<1>7. CASE Campaign!CrashRequest(q)
  BY <1>2, <1>7 DEF Campaign!CrashRequest
<1>8. CASE Campaign!PickRows(q)
  <2>1. ASSUME NEW batch \in SUBSET Rows
        PROVE  LocalsOK([req[q] EXCEPT !.batch = batch, !.todo = batch])
    <3>1. IsFiniteSet(batch)
      BY BillingRows, FS_Subset
    <3> QED  BY <1>1, <3>1 DEF LocalsOK, Campaign!NewRequest
  <2> QED  BY <1>2, <1>4, <1>8, <2>1 DEF Campaign!PickRows
<1>9. CASE Campaign!CheckWallet(q)
  <2>1. ASSUME NEW price \in Prices PROVE LocalsOK([req[q] EXCEPT !.price = price])
    <3>1. price \in Nat
      BY BillingNumbers
    <3> QED  BY <1>1, <3>1 DEF LocalsOK, Campaign!NewRequest
  <2> QED  BY <1>4, <1>9, <2>1 DEF Campaign!CheckWallet
<1>10. CASE Campaign!ReadForHold(q) \/ Campaign!ReadForRefund(q)
  <2>1. LocalsOK([req[q] EXCEPT !.seen = wallet.balance])
    <3>1. PICK n \in Int : n = wallet.balance
      BY DEF WalletAccount
    <3> QED  BY <1>1, <3>1 DEF LocalsOK, Campaign!NewRequest
  <2> QED  BY <1>4, <1>10, <2>1 DEF Campaign!ReadForHold, Campaign!ReadForRefund
<1>11. CASE Campaign!DispatchAccepted(q) \/ Campaign!DispatchThrows(q)
  <2>1. \A r : LocalsOK([req[q] EXCEPT !.row = r, !.todo = @ \ {r}])
    BY <1>1 DEF LocalsOK, Campaign!NewRequest
  <2> QED  BY <1>4, <1>11, <2>1 DEF Campaign!DispatchAccepted, Campaign!DispatchThrows
<1>12. CASE Campaign!RecordRefused(q) \/ Campaign!RecordThrows(q)
  <2>1. LocalsOK([req[q] EXCEPT !.failed = @ \cup {req[q].row}])
    <3>1. IsFiniteSet(req[q].failed \cup {req[q].row})
      BY <1>1, FS_AddElement DEF LocalsOK
    <3> QED  BY <1>1, <3>1 DEF LocalsOK, Campaign!NewRequest
  <2> QED  BY <1>4, <1>12, <2>1 DEF Campaign!RecordRefused, Campaign!RecordThrows,
                Campaign!RecordFailure
<1>13. CASE Campaign!SeeOldRows(q)
  <2>1. LocalsOK([req[q] EXCEPT !.batch = {r \in Rows : Campaign!Live(r)}])
    <3>1. IsFiniteSet({r \in Rows : Campaign!Live(r)})
      BY BillingRows, FS_Subset
    <3> QED  BY <1>1, <3>1 DEF LocalsOK, Campaign!NewRequest
  <2> QED  BY <1>4, <1>13, <2>1 DEF Campaign!SeeOldRows
<1>14. CASE Campaign!FindRow(q)
  <2>1. \A r, b : LocalsOK([req[q] EXCEPT !.row = r, !.wasFailed = b])
    BY <1>1 DEF LocalsOK, Campaign!NewRequest
  <2> QED  BY <1>2, <1>4, <1>14, <2>1 DEF Campaign!FindRow
<1>15. CASE Campaign!CountForSync(q)
  <2>1. \A c : LocalsOK([req[q] EXCEPT !.counts = c])
    BY <1>1 DEF LocalsOK, Campaign!NewRequest
  <2> QED  BY <1>4, <1>15, <2>1 DEF Campaign!CountForSync
<1>16. CASE Campaign!UpdateRow(q) \/ Campaign!DeleteRow(q)
  BY <1>2, <1>16 DEF Campaign!UpdateRow, Campaign!DeleteRow
<1>17. CASE \/ Campaign!MarkRunning(q) \/ Campaign!CommitHold(q) \/ Campaign!HoldThrows(q)
            \/ Campaign!RestoreStatus(q) \/ Campaign!RecordSuccess(q) \/ Campaign!RowGone(q)
            \/ Campaign!CommitRefund(q) \/ Campaign!WriteCounters(q) \/ Campaign!FinishRun(q)
            \/ Campaign!CommitImport(q) \/ Campaign!ImportGone(q) \/ Campaign!CountRemaining(q)
            \/ Campaign!BackToDraft(q) \/ Campaign!DropCampaign(q) \/ Campaign!CancelCampaign(q)
  BY <1>3, <1>17 DEF Campaign!MarkRunning, Campaign!CommitHold, Campaign!HoldThrows,
        Campaign!RestoreStatus, Campaign!RecordSuccess, Campaign!RowGone, Campaign!CommitRefund,
        Campaign!WriteCounters, Campaign!FinishRun, Campaign!CommitImport, Campaign!ImportGone,
        Campaign!CountRemaining, Campaign!BackToDraft, Campaign!DropCampaign,
        Campaign!CancelCampaign, Campaign!SetCampaign
<1> QED
  BY <1>6, <1>7, <1>8, <1>9, <1>10, <1>11, <1>12, <1>13, <1>14, <1>15, <1>16, <1>17
  DEF Campaign!Continue, Campaign!RunStep, Campaign!EditStep

LEMMA CampaignEffect ==
  ASSUME BillingTypes, Campaign!CampaignNext, UNCHANGED <<topupVars, sendVars>>
  PROVE  Effect(CampaignTypes)
<1>1. HandlersOK' /\ SendsStay /\ (send \in [SendIds -> Sending!Send])'
  BY DEF BillingTypes, HandlersOK, SendsStay, sendVars, topupVars
<1>2. PICK q \in Requests :
        Campaign!BeginRequest(q) \/ Campaign!Continue(q) \/ Campaign!CrashRequest(q)
  BY DEF Campaign!CampaignNext
<1>3. RunsOK'
  BY <1>2, RunsMove DEF BillingTypes
<1>4. SUFFICES (Untouched \/ BooksA(CampaignTypes)) /\ (ledger \in Seq(Entry))'
               /\ (wallet \in WalletAccount)'
  BY <1>1, <1>3 DEF Effect, BillingTypes
<1>5. \/ UNCHANGED walletVars \/ Campaign!PostHold(q) \/ Campaign!CommitRefund(q)
  <2>1. CASE Campaign!BeginRequest(q)
    BY <2>1 DEF Campaign!BeginRequest, Campaign!BeginRun, Campaign!BeginImport,
          Campaign!BeginEdit, Campaign!BeginRemove, Campaign!Begin, Campaign!walletVars, walletVars
  <2>2. CASE Campaign!CrashRequest(q)
    BY <2>2 DEF Campaign!CrashRequest, Campaign!walletVars, walletVars
  <2>3. CASE Campaign!RunStep(q)
    BY <2>3 DEF Campaign!RunStep, Campaign!PickRows, Campaign!CheckWallet, Campaign!MarkRunning,
          Campaign!ReadForHold, Campaign!CommitHold, Campaign!HoldThrows, Campaign!RestoreStatus,
          Campaign!DispatchAccepted, Campaign!DispatchThrows, Campaign!RecordSuccess,
          Campaign!RecordRefused, Campaign!RecordThrows, Campaign!RecordFailure,
          Campaign!RowGone, Campaign!ReadForRefund, Campaign!FinishRun,
          Campaign!walletVars, walletVars
  <2>4. CASE Campaign!EditStep(q)
    BY <2>4 DEF Campaign!EditStep, Campaign!SeeOldRows, Campaign!CommitImport,
          Campaign!ImportGone, Campaign!FindRow, Campaign!UpdateRow, Campaign!DeleteRow,
          Campaign!CountRemaining, Campaign!BackToDraft, Campaign!DropCampaign,
          Campaign!CancelCampaign, Campaign!walletVars, walletVars
  <2>5. CASE Campaign!CountForSync(q) \/ Campaign!WriteCounters(q)
    BY <2>5 DEF Campaign!CountForSync, Campaign!WriteCounters, Campaign!walletVars, walletVars
  <2> QED  BY <1>2, <2>1, <2>2, <2>3, <2>4, <2>5 DEF Campaign!Continue
<1>6. CASE UNCHANGED walletVars
  BY <1>6, Unmoved
<1>7. ASSUME NEW e \in Entry, Books(e)
      PROVE  (ledger \in Seq(Entry))' /\ (wallet \in WalletAccount)'
  BY <1>7, BooksOne DEF Books
<1>8. CASE Campaign!PostHold(q) \/ Campaign!CommitRefund(q)
  BY <1>7, <1>8, HoldBooks, RefundBooks DEF BooksA
<1> QED  BY <1>5, <1>6, <1>8

LEMMA StepEffect ==
  ASSUME BillingTypes, [BillingNext]_vars
  PROVE  Effect(WalletTransactionType)
<1>1. CASE UNCHANGED vars
  <2>1. BillingTypes' /\ SendsStay
    BY <1>1 DEF vars, topupVars, sendVars, campaignVars, walletVars, BillingTypes, SendsStay,
          HandlersOK, RunsOK, LocalsOK
  <2>2. Untouched
    BY <1>1, Unmoved DEF vars
  <2> QED  BY <2>1, <2>2 DEF Effect
<1>2. CASE BillingNext
  <2>1. \A types : Effect(types) => Effect(WalletTransactionType)
    BY DEF Effect, BooksA, Entry, WalletTransaction
  <2> QED  BY <1>2, <2>1, TopupEffect, SendEffect, CampaignEffect DEF BillingNext
<1> QED  BY <1>1, <1>2

-----------------------------------------------------------------------------
(* The journal and the account                                             *)

AmountsOf(L) == [i \in DOMAIN L |-> L[i].amount]
SignedOf(L)  == [i \in DOMAIN L |-> Signed(L[i])]

(* The properties, with the sums by the sets of positions they run over.   *)
SpentRows  == {i \in DOMAIN ledger : IsSpent(ledger[i])}
RefundRows == {i \in DOMAIN ledger : IsRefund(ledger[i])}
CreditRows == {i \in DOMAIN ledger : IsTopup(ledger[i])}
Over(rows) == SumFunctionOnSet(AmountsOf(ledger), rows)
From(i) == {j \in DOMAIN ledger : j >= i}
Moved(i) == SumFunctionOnSet(SignedOf(ledger), From(i))

Totals == /\ wallet.totalSpent = Over(SpentRows)
          /\ wallet.totalRefund = Over(RefundRows)
          /\ wallet.totalTopup - Over(CreditRows) \in Credits \cup {0}

Balance ==
  /\ CreditRows = {} => wallet.balance = wallet.totalTopup - Over(CreditRows) + Moved(1)
  /\ CreditRows # {} => \E last \in CreditRows :
       /\ \A i \in CreditRows : i <= last
       /\ wallet.balance = ledger[last].balanceAfter + Moved(last + 1)

LEMMA TotalsRestated == TotalsArePosted <=> Totals
<1>1. {i \in DOMAIN ledger : ledger[i].type \in {"CAMPAIGN_REFUND"}} = RefundRows
  BY DEF RefundRows, IsRefund
<1>2. {i \in DOMAIN ledger : ledger[i].type \in {"TOPUP_CREDIT"}} = CreditRows
  BY DEF CreditRows, IsTopup
<1>3. {i \in DOMAIN ledger : ledger[i].type = "CAMPAIGN_HOLD" \/ PublicDebit(ledger[i])} = SpentRows
  BY DEF SpentRows, IsSpent
<1>4. PostedAmount({"CAMPAIGN_REFUND"}) = Over(RefundRows)
  BY <1>1 DEF PostedAmount, AmountWhere, Over, AmountsOf
<1>5. PostedAmount({"TOPUP_CREDIT"}) = Over(CreditRows)
  BY <1>2 DEF PostedAmount, AmountWhere, Over, AmountsOf
<1>6. AmountWhere(LAMBDA e : e.type = "CAMPAIGN_HOLD" \/ PublicDebit(e)) = Over(SpentRows)
  BY <1>3 DEF AmountWhere, Over, AmountsOf
<1> QED  BY <1>4, <1>5, <1>6 DEF TotalsArePosted, Totals, Opening

LEMMA BalanceRestated == BalanceSinceLastTopup <=> Balance
<1>1. TopupRows = CreditRows
  BY DEF TopupRows, CreditRows, IsTopup
<1>2. \A i : MovedSince(i) = Moved(i)
  BY DEF MovedSince, Moved, SignedOf, From
<1>3. {i \in DOMAIN ledger : ledger[i].type \in {"TOPUP_CREDIT"}} = CreditRows
  BY DEF CreditRows, IsTopup
<1>4. PostedAmount({"TOPUP_CREDIT"}) = Over(CreditRows)
  BY <1>3 DEF PostedAmount, AmountWhere, Over, AmountsOf
<1> QED  BY <1>1, <1>2, <1>4 DEF BalanceSinceLastTopup, Balance, Opening

(* A journaled message was charged, so its request is over.                *)
DebitsDone ==
  \A i \in DOMAIN ledger : ledger[i].type = "MESSAGE_DEBIT" =>
    ledger[i].source \in SendIds /\ send[ledger[i].source].step = "done"

Inductive == BillingTypes /\ DebitsDone /\ TotalsArePosted /\ BalanceSinceLastTopup

LEMMA Journal ==
  ASSUME ledger \in Seq(Entry)
  PROVE  \E n \in Nat :
           /\ n = Len(ledger) /\ DOMAIN ledger = 1..n
           /\ \A i \in 1..n : /\ ledger[i] \in Entry /\ ledger[i].amount \in Int
                             /\ AmountsOf(ledger)[i] = ledger[i].amount
                             /\ SignedOf(ledger)[i] = Signed(ledger[i])
                             /\ Signed(ledger[i]) \in Int
<1>1. PICK n \in Nat : n = Len(ledger) /\ DOMAIN ledger = 1..n
  OBVIOUS
<1>2. \A i \in 1..n : ledger[i] \in Entry
  BY <1>1
<1>3. \A i \in 1..n : ledger[i].amount \in Int
  BY <1>2 DEF Entry, WalletTransaction
<1>4. \A i \in 1..n : Signed(ledger[i]) \in Int
  BY <1>3 DEF Signed
<1>5. \A i \in 1..n : /\ AmountsOf(ledger)[i] = ledger[i].amount
                       /\ SignedOf(ledger)[i] = Signed(ledger[i])
  BY <1>1 DEF AmountsOf, SignedOf
<1> QED  BY <1>1, <1>2, <1>3, <1>4, <1>5

(* What counted as spent still does: the request of a debit is over.       *)
LEMMA SpentStays ==
  ASSUME DebitsDone, SendsStay, NEW i \in DOMAIN ledger, ledger'[i] = ledger[i]
  PROVE  IsSpent(ledger[i])' <=> IsSpent(ledger[i])
BY DEF DebitsDone, SendsStay, IsSpent, PublicDebit

LEMMA UntouchedStep ==
  ASSUME Inductive, Untouched, SendsStay, BillingTypes'
  PROVE  Inductive'
<1>1. ledger' = ledger
  BY DEF Untouched
<1>2. DebitsDone'
  BY <1>1 DEF Inductive, DebitsDone, SendsStay
<1>3. SpentRows' = SpentRows
  <2>1. \A i \in DOMAIN ledger : IsSpent(ledger[i])' <=> IsSpent(ledger[i])
    BY <1>1, SpentStays DEF Inductive
  <2> QED  BY <1>1, <2>1 DEF SpentRows
<1>4. RefundRows' = RefundRows /\ CreditRows' = CreditRows
  BY <1>1 DEF RefundRows, CreditRows, IsRefund, IsTopup
<1>5. Over(SpentRows)' = Over(SpentRows) /\ Over(RefundRows)' = Over(RefundRows)
      /\ Over(CreditRows)' = Over(CreditRows)
  BY <1>1, <1>3, <1>4 DEF Over, AmountsOf
<1>6. Moved(1)' = Moved(1) /\ \A i : Moved(i + 1)' = Moved(i + 1)
  BY <1>1 DEF Moved, From, SignedOf, Signed
<1>7. Totals'
  BY <1>5, TotalsRestated DEF Inductive, Totals, Untouched
<1>8. Balance'
  BY <1>1, <1>4, <1>5, <1>6, BalanceRestated DEF Inductive, Balance, Untouched
<1>9. TotalsArePosted' /\ BalanceSinceLastTopup'
  BY <1>7, <1>8, TotalsRestated, BalanceRestated, PTL
<1> QED  BY <1>2, <1>9 DEF Inductive

(* A sum over rows picked by a test, when a row is added that passes it    *)
(* or does not.                                                            *)
LEMMA OverAfter ==
  ASSUME NEW n \in Nat, NEW f, NEW h, NEW S \in SUBSET (1..n), NEW T, NEW test \in BOOLEAN,
         \A i \in 1..n : f[i] \in Int /\ h[i] = f[i], h[n + 1] \in Int,
         T = IF test THEN S \cup {n + 1} ELSE S
  PROVE  /\ SumFunctionOnSet(f, S) \in Int
         /\ SumFunctionOnSet(h, T) = SumFunctionOnSet(f, S) + IfIs(test, h[n + 1])
<1>1. /\ SumFunctionOnSet(f, S) \in Int
      /\ SumFunctionOnSet(h, S) = SumFunctionOnSet(f, S)
      /\ SumFunctionOnSet(h, S \cup {n + 1}) = h[n + 1] + SumFunctionOnSet(f, S)
  BY SumExtends
<1> QED  BY <1>1 DEF IfIs

LEMMA BooksStep ==
  ASSUME Inductive, NEW e \in Entry, Books(e), SendsStay, BillingTypes'
  PROVE  Inductive'
<1>1. PICK n \in Nat :
        /\ n = Len(ledger) /\ DOMAIN ledger = 1..n
        /\ \A i \in 1..n : /\ ledger[i] \in Entry /\ ledger[i].amount \in Int
                          /\ AmountsOf(ledger)[i] = ledger[i].amount
                          /\ SignedOf(ledger)[i] = Signed(ledger[i])
                          /\ Signed(ledger[i]) \in Int
  BY Journal DEF Inductive, BillingTypes
<1>2. /\ DOMAIN ledger' = 1..(n + 1) /\ ledger'[n + 1] = e
      /\ \A i \in 1..n : ledger'[i] = ledger[i]
  BY <1>1 DEF Books, Inductive, BillingTypes
<1>3. e.amount \in Int /\ Signed(e) \in Int /\ e.balanceAfter \in Int
  BY DEF Entry, WalletTransaction, Signed
<1> DEFINE f == AmountsOf(ledger)
           h == AmountsOf(ledger')
           s == SignedOf(ledger)
           z == SignedOf(ledger')
<1>4. /\ \A i \in 1..n : f[i] \in Int /\ h[i] = f[i] /\ s[i] \in Int /\ z[i] = s[i]
      /\ h[n + 1] = e.amount /\ z[n + 1] = Signed(e)
  BY <1>1, <1>2 DEF AmountsOf, SignedOf
<1>5. DebitsDone'
  <2>1. \A i \in DOMAIN ledger : ledger[i].type = "MESSAGE_DEBIT" =>
          ledger[i].source \in SendIds /\ send'[ledger[i].source].step = "done"
    BY DEF Inductive, DebitsDone, SendsStay
  <2>2. e.type = "MESSAGE_DEBIT" => e.source \in SendIds /\ send'[e.source].step = "done"
    BY DEF Books
  <2> QED  BY <1>1, <1>2, <2>1, <2>2 DEF DebitsDone
<1>6. IsSpent(e)' <=> IsSpent(e)
  BY DEF IsSpent, PublicDebit, Books, SendsStay
<1>7. SpentRows' = IF IsSpent(e) THEN SpentRows \cup {n + 1} ELSE SpentRows
  <2>1. \A i \in 1..n : IsSpent(ledger[i])' <=> IsSpent(ledger[i])
    BY <1>1, <1>2, SpentStays DEF Inductive
  <2>2. IsSpent(ledger[n + 1])' <=> IsSpent(e)
    BY <1>2, <1>6 DEF IsSpent, PublicDebit
  <2> QED  BY <1>1, <1>2, <2>1, <2>2 DEF SpentRows
<1>8. RefundRows' = IF IsRefund(e) THEN RefundRows \cup {n + 1} ELSE RefundRows
  BY <1>1, <1>2 DEF RefundRows, IsRefund
<1>9. CreditRows' = IF IsTopup(e) THEN CreditRows \cup {n + 1} ELSE CreditRows
  BY <1>1, <1>2 DEF CreditRows, IsTopup
<1>10. SpentRows \in SUBSET (1..n) /\ RefundRows \in SUBSET (1..n) /\ CreditRows \in SUBSET (1..n)
  BY <1>1 DEF SpentRows, RefundRows, CreditRows
<1> HIDE DEF f, h, s, z
<1>11. /\ Over(SpentRows) \in Int
       /\ Over(SpentRows)' = Over(SpentRows) + IfIs(IsSpent(e), e.amount)
  <2>1. IsSpent(e) \in BOOLEAN
    BY DEF IsSpent
  <2> QED  BY <1>3, <1>4, <1>7, <1>10, <2>1, OverAfter DEF Over, f, h
<1>12. /\ Over(RefundRows) \in Int
       /\ Over(RefundRows)' = Over(RefundRows) + IfIs(IsRefund(e), e.amount)
  <2>1. IsRefund(e) \in BOOLEAN
    BY DEF IsRefund
  <2> QED  BY <1>3, <1>4, <1>8, <1>10, <2>1, OverAfter DEF Over, f, h
<1>13. /\ Over(CreditRows) \in Int
       /\ Over(CreditRows)' = Over(CreditRows) + IfIs(IsTopup(e), e.amount)
  <2>1. IsTopup(e) \in BOOLEAN
    BY DEF IsTopup
  <2> QED  BY <1>3, <1>4, <1>9, <1>10, <2>1, OverAfter DEF Over, f, h
<1>14. wallet \in WalletAccount /\ wallet' \in WalletAccount
  BY DEF Inductive, BillingTypes, Books
<1>15. Totals'
  <2>1. Totals
    BY TotalsRestated DEF Inductive
  <2>2. /\ wallet'.totalSpent = Over(SpentRows)'
        /\ wallet'.totalRefund = Over(RefundRows)'
    BY <1>11, <1>12, <2>1 DEF Totals, Books
  <2>3. wallet'.totalTopup - Over(CreditRows)' = wallet.totalTopup - Over(CreditRows)
    <3>1. PICK a \in Int : a = IfIs(IsTopup(e), e.amount)
      BY <1>3 DEF IfIs
    <3>2. wallet.totalTopup \in Int
      BY <1>14 DEF WalletAccount
    <3>3. wallet'.totalTopup = wallet.totalTopup + a
      BY <3>1 DEF Books
    <3> QED  BY <1>13, <3>1, <3>2, <3>3
  <2> QED  BY <2>1, <2>2, <2>3 DEF Totals
<1>16. ASSUME NEW i \in 1..(n + 1)
       PROVE  Moved(i) \in Int /\ Moved(i)' = Moved(i) + Signed(e)
  <2>1. From(i) \in SUBSET (1..n) /\ From(i)' = From(i) \cup {n + 1}
    BY <1>1, <1>2 DEF From
  <2> QED  BY <1>3, <1>4, <2>1, SumExtends DEF Moved, s, z
<1>17. Moved(n + 2)' = 0
  <2>1. From(n + 2)' = {}
    BY <1>2 DEF From
  <2> QED  BY <2>1, SumOfNone DEF Moved
<1>18. Balance
  BY BalanceRestated DEF Inductive
<1>19. Balance'
  <2>1. CASE IsTopup(e)
    <3>1. wallet'.balance = e.balanceAfter
      BY <2>1 DEF Books
    <3>2. n + 1 \in CreditRows' /\ \A i \in CreditRows' : i <= n + 1
      BY <1>9, <1>10, <2>1
    <3>3. (n + 1) + 1 = n + 2
      OBVIOUS
    <3>4. wallet'.balance = ledger'[n + 1].balanceAfter + Moved((n + 1) + 1)'
      BY <1>2, <1>3, <1>17, <3>1, <3>3
    <3> QED  BY <3>2, <3>4 DEF Balance
  <2>2. CASE ~IsTopup(e)
    <3>1. wallet'.balance = wallet.balance + Signed(e) /\ wallet.balance \in Int
      BY <1>14, <2>2 DEF Books, WalletAccount
    <3>2. CreditRows' = CreditRows
      BY <1>9, <2>2
    <3>3. CASE CreditRows = {}
      <4>1. wallet.balance = wallet.totalTopup - Over(CreditRows) + Moved(1)
        BY <1>18, <3>3 DEF Balance
      <4>2. wallet'.totalTopup = wallet.totalTopup + 0 /\ Over(CreditRows)' = Over(CreditRows) + 0
        BY <1>13, <2>2 DEF Books, IfIs
      <4>3. wallet.totalTopup \in Int
        BY <1>14 DEF WalletAccount
      <4>4. Moved(1) \in Int /\ Moved(1)' = Moved(1) + Signed(e)
        BY <1>16
      <4>5. wallet'.balance = wallet'.totalTopup - Over(CreditRows)' + Moved(1)'
        BY <1>3, <1>13, <3>1, <4>1, <4>2, <4>3, <4>4
      <4> QED  BY <3>2, <3>3, <4>5 DEF Balance
    <3>4. CASE CreditRows # {}
      <4>1. PICK last \in CreditRows :
              /\ \A i \in CreditRows : i <= last
              /\ wallet.balance = ledger[last].balanceAfter + Moved(last + 1)
        BY <1>18, <3>4 DEF Balance
      <4>2. last \in 1..n /\ last + 1 \in 1..(n + 1)
        BY <1>10
      <4>3. Moved(last + 1) \in Int /\ Moved(last + 1)' = Moved(last + 1) + Signed(e)
        BY <1>16, <4>2
      <4>4. ledger'[last] = ledger[last] /\ ledger[last].balanceAfter \in Int
        BY <1>1, <1>2, <4>2 DEF Entry, WalletTransaction
      <4>5. wallet'.balance = ledger'[last].balanceAfter + Moved(last + 1)'
        BY <1>3, <3>1, <4>1, <4>3, <4>4
      <4> QED  BY <3>2, <4>1, <4>5 DEF Balance
    <3> QED  BY <3>3, <3>4
  <2> QED  BY <2>1, <2>2
<1>20. TotalsArePosted' /\ BalanceSinceLastTopup'
  BY <1>15, <1>19, TotalsRestated, BalanceRestated, PTL
<1> QED  BY <1>5, <1>20 DEF Inductive

LEMMA InductiveInit == BillingInit => Inductive
<1> SUFFICES ASSUME BillingInit PROVE Inductive
  OBVIOUS
<1>1. PICK b \in Credits \cup {0}, there \in BOOLEAN : wallet = AccountWith(there, b)
  BY DEF BillingInit
<1>2. /\ wallet \in WalletAccount /\ wallet.balance = b /\ wallet.totalTopup = b
      /\ wallet.totalSpent = 0 /\ wallet.totalRefund = 0 /\ b \in Int
  BY <1>1, BillingNumbers DEF AccountWith, WalletAccount
<1>3. ledger = <<>> /\ ledger \in Seq(Entry) /\ DOMAIN ledger = {}
  BY DEF BillingInit
<1>4. send \in [SendIds -> Sending!Send]
  BY DEF BillingInit, Sending!SendStart, Sending!Send, Sending!SendSteps, Sending!Apis
<1>5. HandlersOK
  BY DEF BillingInit, Topup!TopupStart, HandlersOK, Topup!Handler, Topup!Idle
<1>6. RunsOK
  <2>1. LocalsOK(Campaign!NewRequest)
    BY FS_EmptySet DEF LocalsOK, Campaign!NewRequest
  <2>2. req = [q \in Requests |-> Campaign!NewRequest]
    BY DEF BillingInit, Campaign!CampaignStart
  <2> HIDE DEF LocalsOK
  <2> QED  BY <2>1, <2>2 DEF RunsOK
<1>7. DebitsDone
  BY <1>3 DEF DebitsDone
<1>8. SpentRows = {} /\ RefundRows = {} /\ CreditRows = {} /\ From(1) = {}
  BY <1>3 DEF SpentRows, RefundRows, CreditRows, From
<1>9. Over({}) = 0 /\ Moved(1) = 0
  BY <1>8, SumOfNone DEF Over, Moved
<1>10. Totals /\ Balance
  BY <1>2, <1>8, <1>9 DEF Totals, Balance
<1> QED
  BY <1>2, <1>3, <1>4, <1>5, <1>6, <1>7, <1>10, TotalsRestated, BalanceRestated
  DEF Inductive, BillingTypes

LEMMA InductiveStep == Inductive /\ [BillingNext]_vars => Inductive'
<1> SUFFICES ASSUME Inductive, [BillingNext]_vars PROVE Inductive'
  OBVIOUS
<1>1. Effect(WalletTransactionType)
  BY StepEffect DEF Inductive
<1> QED  BY <1>1, UntouchedStep, BooksStep DEF Effect, BooksA

(* Whatever topups, messages and campaign runs overlap, and however many   *)
(* of them, the totals of the account are the sums of its journal.         *)
THEOREM TotalsAreThoseOfTheJournal == BillingSpec => []TotalsArePosted
<1>1. Inductive => TotalsArePosted
  BY DEF Inductive
<1> QED  BY <1>1, InductiveInit, InductiveStep, PTL DEF BillingSpec

(* ... and its balance is what the last topup wrote, moved by the rows     *)
(* since: no debit, hold or refund is lost to anything but a topup.        *)
THEOREM OnlyATopupLosesMovements == BillingSpec => []BalanceSinceLastTopup
<1>1. Inductive => BalanceSinceLastTopup
  BY DEF Inductive
<1> QED  BY <1>1, InductiveInit, InductiveStep, PTL DEF BillingSpec
-----------------------------------------------------------------------------
(* The components on the shared wallet.  What was proved of each of them,  *)
(* with any others beside it, holds here: its own steps are its steps, and *)
(* those of the two others move the account and post rows of other types.  *)

TP == INSTANCE Topups_proofs
SP == INSTANCE Sending_proofs
        WITH InitialBalances <- Credits, log <- sendLog, delivered <- sent
CP == INSTANCE Campaign_proofs

LEMMA SameTopups ==
  /\ Topup!TopupStart <=> TP!TopupStart
  /\ Topup!TopupNext <=> TP!TopupNext
  /\ Topup!CreditedOnce <=> TP!CreditedOnce
  /\ Topup!CreditDocumented <=> TP!CreditDocumented
  /\ Topup!StatusTellsCredit <=> TP!StatusTellsCredit
BY Zenon DEF Topup!TopupStart, TP!TopupStart, Topup!TopupNext, TP!TopupNext, Topup!CreditedOnce,
  TP!CreditedOnce, Topup!CreditDocumented, TP!CreditDocumented, Topup!StatusTellsCredit,
  TP!StatusTellsCredit, Topup!Idle, TP!Idle, Topup!CallStep, TP!CallStep, Topup!PayQr, TP!PayQr,
  Topup!HandlerStep, TP!HandlerStep, Topup!Posted, TP!Posted, Topup!CreateTopup, TP!CreateTopup,
  Topup!LinkRefused, TP!LinkRefused, Topup!LinkUnusable, TP!LinkUnusable, Topup!LinkOpened,
  TP!LinkOpened, Topup!SaveQr, TP!SaveQr, Topup!SaveQrFails, TP!SaveQrFails, Topup!MarkFailed,
  TP!MarkFailed, Topup!CrashCall, TP!CrashCall, Topup!walletVars, TP!walletVars, Topup!FindTopup,
  TP!FindTopup, Topup!ReadWallet, TP!ReadWallet, Topup!CommitCredit, TP!CommitCredit,
  Topup!RollBackCredit, TP!RollBackCredit, Topup!CrashHandler, TP!CrashHandler, Topup!GoTo,
  TP!GoTo, Topup!LoseReply, TP!LoseReply, Topup!AlreadyProcessed, TP!AlreadyProcessed,
  Topup!Answer, TP!Answer, Topup!CodesTaken, TP!CodesTaken, Topup!Credited, TP!Credited,
  Topup!Post, TP!Post, Topup!StrayNotice, TP!StrayNotice, Topup!Announced, TP!Announced,
  Topup!Found, TP!Found, Topup!Cardinality, TP!Cardinality

LEMMA SameSends ==
  /\ Sending!SendStart <=> SP!SendStart
  /\ Sending!SendNext <=> SP!SendNext
  /\ Sending!ChargedIffLogged <=> SP!ChargedIffLogged
BY Zenon DEF Sending!SendStart, SP!SendStart, Sending!SendNext, SP!SendNext,
  Sending!ChargedIffLogged, SP!ChargedIffLogged, Sending!SendStep, SP!SendStep, Sending!Posted,
  SP!Posted, Sending!Apis, SP!Apis, Sending!CheckCredit, SP!CheckCredit, Sending!DispatchAccepted,
  SP!DispatchAccepted, Sending!DispatchThrows, SP!DispatchThrows, Sending!LogFailure,
  SP!LogFailure, Sending!Charge, SP!Charge, Sending!CrashSend, SP!CrashSend, Sending!InFlight,
  SP!InFlight, Sending!Covers, SP!Covers, Sending!Cost, SP!Cost, Sending!walletVars,
  SP!walletVars, Sending!SendGoes, SP!SendGoes, Sending!Debited, SP!Debited, Sending!Post,
  SP!Post, Sending!Cardinality, SP!Cardinality

LEMMA SameRuns ==
  /\ Campaign!CampaignStart <=> CP!CampaignStart
  /\ Campaign!CampaignNext <=> CP!CampaignNext
  /\ Campaign!RunCostsItsSuccesses <=> CP!RunCostsItsSuccesses
  /\ Campaign!SuccessWasSent <=> CP!SuccessWasSent
BY Zenon DEF Campaign!CampaignStart, CP!CampaignStart, Campaign!CampaignNext, CP!CampaignNext,
  Campaign!RunCostsItsSuccesses, CP!RunCostsItsSuccesses, Campaign!SuccessWasSent,
  CP!SuccessWasSent, Campaign!NoCounts, CP!NoCounts, Campaign!NewRequest, CP!NewRequest,
  Campaign!BeginRequest, CP!BeginRequest, Campaign!Continue, CP!Continue, Campaign!CrashRequest,
  CP!CrashRequest, Campaign!IsRun, CP!IsRun, Campaign!At, CP!At, Campaign!Holds, CP!Holds,
  Campaign!Refunds, CP!Refunds, Campaign!CostIs, CP!CostIs, Campaign!SentOk, CP!SentOk,
  Campaign!RowStatus, CP!RowStatus, Campaign!BeginRun, CP!BeginRun, Campaign!BeginImport,
  CP!BeginImport, Campaign!BeginEdit, CP!BeginEdit, Campaign!BeginRemove, CP!BeginRemove,
  Campaign!RunStep, CP!RunStep, Campaign!EditStep, CP!EditStep, Campaign!CountForSync,
  CP!CountForSync, Campaign!WriteCounters, CP!WriteCounters, Campaign!Active, CP!Active,
  Campaign!With, CP!With, Campaign!Logged, CP!Logged, Campaign!walletVars, CP!walletVars,
  Campaign!JournalOf, CP!JournalOf, Campaign!Begin, CP!Begin, Campaign!CanRun, CP!CanRun,
  Campaign!CanImport, CP!CanImport, Campaign!CanEdit, CP!CanEdit, Campaign!CanRemove,
  CP!CanRemove, Campaign!PickRows, CP!PickRows, Campaign!CheckWallet, CP!CheckWallet,
  Campaign!MarkRunning, CP!MarkRunning, Campaign!ReadForHold, CP!ReadForHold, Campaign!CommitHold,
  CP!CommitHold, Campaign!HoldThrows, CP!HoldThrows, Campaign!RestoreStatus, CP!RestoreStatus,
  Campaign!DispatchAccepted, CP!DispatchAccepted, Campaign!DispatchThrows, CP!DispatchThrows,
  Campaign!RecordSuccess, CP!RecordSuccess, Campaign!RecordRefused, CP!RecordRefused,
  Campaign!RecordThrows, CP!RecordThrows, Campaign!RowGone, CP!RowGone, Campaign!ReadForRefund,
  CP!ReadForRefund, Campaign!CommitRefund, CP!CommitRefund, Campaign!FinishRun, CP!FinishRun,
  Campaign!SeeOldRows, CP!SeeOldRows, Campaign!CommitImport, CP!CommitImport, Campaign!ImportGone,
  CP!ImportGone, Campaign!FindRow, CP!FindRow, Campaign!UpdateRow, CP!UpdateRow,
  Campaign!DeleteRow, CP!DeleteRow, Campaign!CountRemaining, CP!CountRemaining,
  Campaign!BackToDraft, CP!BackToDraft, Campaign!DropCampaign, CP!DropCampaign,
  Campaign!CancelCampaign, CP!CancelCampaign, Campaign!CountRows, CP!CountRows,
  Campaign!SetCampaign, CP!SetCampaign, Campaign!AfterSync, CP!AfterSync, Campaign!Ended,
  CP!Ended, Campaign!Scoped, CP!Scoped, Campaign!Arrives, CP!Arrives, Campaign!Picked, CP!Picked,
  Campaign!Charge, CP!Charge, Campaign!Goes, CP!Goes, Campaign!PostHold, CP!PostHold,
  Campaign!Deliver, CP!Deliver, Campaign!Live, CP!Live, Campaign!RecordFailure, CP!RecordFailure,
  Campaign!Refund, CP!Refund, Campaign!Post, CP!Post, Campaign!Exists, CP!Exists,
  Campaign!EndSteps, CP!EndSteps, Campaign!Cardinality, CP!Cardinality

LEMMA SameCredits ==
  /\ Topup!Promise!Init <=> TP!Promise!Init
  /\ [Topup!Promise!Next]_(Topup!Promise!vars) <=> [TP!Promise!Next]_(TP!Promise!vars)
BY Zenon DEF Topup!Promise!Init, TP!Promise!Init, Topup!Promise!Next, TP!Promise!Next,
  Topup!Promise!Credit, TP!Promise!Credit, Topup!Promise!Pay, TP!Promise!Pay,
  Topup!Promise!Stray, TP!Promise!Stray, Topup!Promise!Announced, TP!Promise!Announced,
  Topup!Promise!vars, TP!Promise!vars, Topup!CreditsPosted, TP!CreditsPosted, Topup!CreditRows,
  TP!CreditRows

LEMMA SameBatches ==
  /\ Campaign!Batches!Init <=> CP!Batches!Init
  /\ [Campaign!Batches!Next]_(Campaign!Batches!vars) <=> [CP!Batches!Next]_(CP!Batches!vars)
BY Zenon DEF Campaign!Holds, CP!Holds, Campaign!Refunds, CP!Refunds, Campaign!JournalOf,
  CP!JournalOf, Campaign!AmountOf, CP!AmountOf, Campaign!TheEntry, CP!TheEntry, Campaign!LoggedBy,
  CP!LoggedBy, Campaign!Batches!Init, CP!Batches!Init, Campaign!Batches!Next, CP!Batches!Next,
  Campaign!Batches!vars, CP!Batches!vars, Campaign!Batches!Hold, CP!Batches!Hold,
  Campaign!Batches!Paid, CP!Batches!Paid, Campaign!Batches!Deliver, CP!Batches!Deliver,
  Campaign!Batches!Record, CP!Batches!Record, Campaign!Batches!Refund, CP!Batches!Refund,
  Campaign!Batches!Covers, CP!Batches!Covers, Campaign!Batches!NotYet, CP!Batches!NotYet,
  Campaign!Batches!Cardinality, CP!Batches!Cardinality

(* What one component does, seen by another that posts other rows.         *)
PostsOther(types) ==
  /\ wallet' \in WalletAccount /\ ledger' \in Seq(WalletTransaction)
  /\ \/ ledger' = ledger
     \/ \E e \in WalletTransaction : e.type \in types /\ ledger' = Append(ledger, e)
  /\ "TOPUP_CREDIT" \notin types => wallet'.totalTopup = wallet.totalTopup

LEMMA EffectPosts ==
  ASSUME BillingTypes, NEW types, Effect(types)
  PROVE  PostsOther(types)
<1>1. wallet' \in WalletAccount /\ ledger' \in Seq(WalletTransaction)
  BY DEF Effect, BillingTypes, Entry
<1>2. CASE Untouched
  BY <1>1, <1>2 DEF Untouched, PostsOther
<1>3. ASSUME NEW e \in Entry, e.type \in types, Books(e)
      PROVE  PostsOther(types)
  <2>1. e \in WalletTransaction /\ ledger' = Append(ledger, e)
    BY <1>3 DEF Entry, Books
  <2>2. "TOPUP_CREDIT" \notin types => ~IsTopup(e)
    BY <1>3 DEF IsTopup
  <2>3. wallet'.totalTopup = wallet.totalTopup + IfIs(IsTopup(e), e.amount)
    BY <1>3 DEF Books
  <2>4. wallet.totalTopup \in Int
    BY DEF BillingTypes, WalletAccount
  <2>5. "TOPUP_CREDIT" \notin types => wallet'.totalTopup = wallet.totalTopup
    BY <2>2, <2>3, <2>4 DEF IfIs
  <2> QED  BY <1>1, <1>3, <2>1, <2>5 DEF PostsOther
<1> QED  BY <1>2, <1>3 DEF Effect, BooksA

LEMMA Starts ==
  BillingInit => /\ wallet \in WalletAccount /\ wallet.totalTopup \in Nat
                 /\ ledger = <<>> /\ ledger \in Seq(WalletTransaction)
<1> SUFFICES ASSUME BillingInit
             PROVE  wallet \in WalletAccount /\ wallet.totalTopup \in Nat /\ ledger = <<>>
  OBVIOUS
<1>1. PICK b \in Credits \cup {0}, there \in BOOLEAN : wallet = AccountWith(there, b)
  BY DEF BillingInit
<1> QED  BY <1>1, BillingNumbers DEF BillingInit, AccountWith, WalletAccount

LEMMA TopupsShared ==
  /\ BillingInit => TP!SharedInit
  /\ Inductive /\ [BillingNext]_vars => [TP!TopupNext \/ TP!Elsewhere]_(TP!vars)
<1>1. BillingInit => TP!SharedInit
  BY Starts, SameTopups
  DEF BillingInit, TP!SharedInit, TP!WalletTypeOK, TP!WalletAccount, WalletAccount,
      TP!WalletTransaction, WalletTransaction, TP!WalletTransactionType, WalletTransactionType
<1>2. ASSUME Inductive, [BillingNext]_vars
      PROVE  [TP!TopupNext \/ TP!Elsewhere]_(TP!vars)
  <2>1. CASE UNCHANGED vars
    BY <2>1 DEF vars, walletVars, topupVars, TP!vars, TP!walletVars, TP!topupVars
  <2>2. CASE Topup!TopupNext
    BY <2>2, SameTopups
  <2>3. ASSUME NEW types, Effect(types), "TOPUP_CREDIT" \notin types, UNCHANGED topupVars
        PROVE  TP!Elsewhere
    <3>1. PostsOther(types)
      BY <1>2, <2>3, EffectPosts DEF Inductive
    <3> QED
      BY <2>3, <3>1
      DEF PostsOther, TP!Elsewhere, TP!OthersPost, TP!WalletTypeOK, TP!WalletAccount,
          WalletAccount, TP!WalletTransaction, WalletTransaction, TP!WalletTransactionType,
          WalletTransactionType, topupVars, TP!topupVars
  <2>4. CASE Sending!SendNext /\ UNCHANGED <<topupVars, campaignVars>>
    <3>1. Effect({"MESSAGE_DEBIT"})
      BY <1>2, <2>4, SendEffect DEF Inductive
    <3> QED  BY <2>3, <2>4, <3>1
  <2>5. CASE Campaign!CampaignNext /\ UNCHANGED <<topupVars, sendVars>>
    <3>1. Effect(CampaignTypes) /\ "TOPUP_CREDIT" \notin CampaignTypes
      BY <1>2, <2>5, CampaignEffect DEF Inductive, CampaignTypes
    <3> QED  BY <2>3, <2>5, <3>1
  <2> QED  BY <1>2, <2>1, <2>2, <2>4, <2>5 DEF BillingNext
<1> QED  BY <1>1, <1>2

(* However messages and campaign runs move the account in between, every   *)
(* topup is credited once, with its papers, and its status tells.          *)
THEOREM TopupsKeepTheirPromise == BillingSpec => []TopupsKeepPromise
<1>1. BillingSpec => TP!SharedSpec
  BY TopupsShared, InductiveInit, InductiveStep, PTL DEF BillingSpec, TP!SharedSpec
<1>2. TP!SharedSpec => [](TP!CreditedOnce /\ TP!CreditDocumented /\ TP!StatusTellsCredit)
  BY TP!CreditsOnSharedWallet, BillingSources, BillingNumbers, BillingBounds, BillingKinds
<1>3. TP!CreditedOnce /\ TP!CreditDocumented /\ TP!StatusTellsCredit <=> TopupsKeepPromise
  BY SameTopups DEF TopupsKeepPromise
<1> QED  BY <1>1, <1>2, <1>3, PTL

(* Step by step, payments are credited as PaymentCredit promises: each step *)
(* of a topup is a step of the promise, and no other step undoes one.      *)
THEOREM CreditsAreAsPromised == BillingSpec => CreditsAsPromised
<1>1. BillingSpec => TP!SharedSpec
  BY TopupsShared, InductiveInit, InductiveStep, PTL DEF BillingSpec, TP!SharedSpec
<1>2. TP!SharedSpec => TP!Promise!Spec
  BY TP!SharedCreditsAsPromised, BillingSources, BillingNumbers, BillingBounds, BillingKinds
<1>3. TP!Promise!Spec => Topup!Promise!Spec
  BY SameCredits, PTL DEF TP!Promise!Spec, Topup!Promise!Spec
<1> QED  BY <1>1, <1>2, <1>3, PTL DEF CreditsAsPromised

(* Single messages                                                         *)

LEMMA SendsShared ==
  /\ BillingInit => SP!SharedInit
  /\ Inductive /\ [BillingNext]_vars => [SP!SendNext \/ SP!Elsewhere]_(SP!vars)
<1>1. BillingInit => SP!SharedInit
  BY Starts, SameSends
  DEF BillingInit, SP!SharedInit, SP!WalletTypeOK, SP!WalletAccount, WalletAccount,
      SP!WalletTransaction, WalletTransaction, SP!WalletTransactionType, WalletTransactionType
<1>2. ASSUME Inductive, [BillingNext]_vars
      PROVE  [SP!SendNext \/ SP!Elsewhere]_(SP!vars)
  <2>1. CASE UNCHANGED vars
    BY <2>1 DEF vars, walletVars, sendVars, SP!vars, SP!walletVars, SP!sendVars
  <2>2. CASE Sending!SendNext
    BY <2>2, SameSends
  <2>3. ASSUME NEW types, Effect(types), "MESSAGE_DEBIT" \notin types, UNCHANGED sendVars
        PROVE  SP!Elsewhere
    <3>1. PostsOther(types)
      BY <1>2, <2>3, EffectPosts DEF Inductive
    <3> QED
      BY <2>3, <3>1
      DEF PostsOther, SP!Elsewhere, SP!OthersPost, SP!WalletTypeOK, SP!WalletAccount,
          WalletAccount, SP!WalletTransaction, WalletTransaction, SP!WalletTransactionType,
          WalletTransactionType, sendVars, SP!sendVars
  <2>4. CASE Topup!TopupNext /\ UNCHANGED <<sendVars, campaignVars>>
    <3>1. Effect({"TOPUP_CREDIT"})
      BY <1>2, <2>4, TopupEffect DEF Inductive
    <3> QED  BY <2>3, <2>4, <3>1
  <2>5. CASE Campaign!CampaignNext /\ UNCHANGED <<topupVars, sendVars>>
    <3>1. Effect(CampaignTypes) /\ "MESSAGE_DEBIT" \notin CampaignTypes
      BY <1>2, <2>5, CampaignEffect DEF Inductive, CampaignTypes
    <3> QED  BY <2>3, <2>5, <3>1
  <2> QED  BY <1>2, <2>1, <2>2, <2>4, <2>5 DEF BillingNext
<1> QED  BY <1>1, <1>2

(* A message is debited, once, exactly when it is logged as sent, though   *)
(* topups overwrite the balance it was debited from and campaigns hold.    *)
THEOREM MessagesDoStayPaid == BillingSpec => []MessagesStayPaid
<1>1. BillingSpec => SP!SharedSpec
  BY SendsShared, InductiveInit, InductiveStep, PTL DEF BillingSpec, SP!SharedSpec
<1>2. SP!SharedSpec => []SP!ChargedIffLogged
  BY SP!PaidIffSentOnSharedWallet, BillingSources, BillingNumbers, BillingBounds
<1>3. SP!ChargedIffLogged <=> MessagesStayPaid
  BY SameSends DEF MessagesStayPaid
<1> QED  BY <1>1, <1>2, <1>3, PTL

(* Campaign runs                                                           *)

LEMMA RunsShared ==
  /\ BillingInit => CP!SharedInit
  /\ Inductive /\ [BillingNext]_vars => [CP!CampaignNext \/ CP!OthersMove]_(CP!vars)
<1>1. BillingInit => CP!SharedInit
  BY Starts, SameRuns
  DEF BillingInit, CP!SharedInit, CP!WalletTypeOK, CP!WalletAccount, WalletAccount,
      CP!WalletTransaction, WalletTransaction, CP!WalletTransactionType, WalletTransactionType
<1>2. ASSUME Inductive, [BillingNext]_vars
      PROVE  [CP!CampaignNext \/ CP!OthersMove]_(CP!vars)
  <2>1. CASE UNCHANGED vars
    BY <2>1 DEF vars, walletVars, campaignVars, CP!vars, CP!walletVars, CP!campaignVars
  <2>2. CASE Campaign!CampaignNext
    BY <2>2, SameRuns
  <2>3. ASSUME NEW types, Effect(types), types \cap CampaignTypes = {}, UNCHANGED campaignVars
        PROVE  CP!OthersMove
    <3>1. PostsOther(types)
      BY <1>2, <2>3, EffectPosts DEF Inductive
    <3> QED
      BY <2>3, <3>1
      DEF PostsOther, CP!OthersMove, CP!OthersPost, CP!WalletTypeOK, CP!WalletAccount,
          WalletAccount, CP!WalletTransaction, WalletTransaction, CP!WalletTransactionType,
          WalletTransactionType, campaignVars, CP!campaignVars, CampaignTypes
  <2>4. CASE Topup!TopupNext /\ UNCHANGED <<sendVars, campaignVars>>
    <3>1. Effect({"TOPUP_CREDIT"}) /\ {"TOPUP_CREDIT"} \cap CampaignTypes = {}
      BY <1>2, <2>4, TopupEffect DEF Inductive, CampaignTypes
    <3> QED  BY <2>3, <2>4, <3>1
  <2>5. CASE Sending!SendNext /\ UNCHANGED <<topupVars, campaignVars>>
    <3>1. Effect({"MESSAGE_DEBIT"}) /\ {"MESSAGE_DEBIT"} \cap CampaignTypes = {}
      BY <1>2, <2>5, SendEffect DEF Inductive, CampaignTypes
    <3> QED  BY <2>3, <2>5, <3>1
  <2> QED  BY <1>2, <2>1, <2>2, <2>4, <2>5 DEF BillingNext
<1> QED  BY <1>1, <1>2

LEMMA RunRowsFinite == CP!IsFiniteSet(Rows)
BY BillingRows DEF CP!IsFiniteSet, IsFiniteSet

LEMMA RunsAssumed ==
  BillingSpec => CP!SharedSpec
BY RunsShared, InductiveInit, InductiveStep, PTL DEF BillingSpec, CP!SharedSpec

(* A run that ended normally has cost its price for each message it logged *)
(* as sent, whatever topups and messages did to the balance meanwhile, and *)
(* a row that reads SUCCESS was sent.                                      *)
THEOREM RunsDoCostTheirMessages == BillingSpec => []RunsCostTheirMessages
<1>1. CP!SharedSpec => []CP!RunCostsItsSuccesses
  BY CP!CostsOnSharedWallet, BillingSources, BillingNumbers, BillingRows, BillingBounds,
     BillingKinds, RunRowsFinite
<1>2. CP!SharedSpec => []CP!SuccessWasSent
  BY CP!SuccessOnSharedWallet, BillingSources, BillingNumbers, BillingRows, BillingBounds,
     BillingKinds, RunRowsFinite
<1>3. CP!RunCostsItsSuccesses /\ CP!SuccessWasSent <=> RunsCostTheirMessages
  BY SameRuns DEF RunsCostTheirMessages
<1> QED  BY RunsAssumed, <1>1, <1>2, <1>3, PTL

(* Step by step, a run stays a prepaid batch: no topup, message or crash   *)
(* makes it hold twice, send what it did not hold for or refund too much.  *)
THEOREM RunsStayPrepaid == BillingSpec => RunsArePrepaid
<1>1. CP!SharedSpec => CP!Batches!Spec
  BY CP!PrepaidOnSharedWallet, BillingSources, BillingNumbers, BillingRows, BillingBounds,
     BillingKinds, RunRowsFinite DEF CP!ImplementsPrepaidBatch
<1>2. CP!Batches!Spec => Campaign!Batches!Spec
  BY SameBatches, PTL DEF CP!Batches!Spec, Campaign!Batches!Spec
<1> QED  BY RunsAssumed, <1>1, <1>2, PTL DEF RunsArePrepaid, Campaign!ImplementsPrepaidBatch

(* So every component keeps its promise on the wallet it shares with the   *)
(* others, for any topups, messages, requests and prices.                  *)
THEOREM PromisesAreKept == BillingSpec => PromisesKept
BY TopupsKeepTheirPromise, MessagesDoStayPaid, RunsDoCostTheirMessages,
   CreditsAreAsPromised, RunsStayPrepaid, PTL DEF PromisesKept
=============================================================================
