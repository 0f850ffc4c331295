---------------------------- MODULE Campaign_proofs ----------------------------
(***************************************************************************)
(* Theorems about Campaign, for every finite set of rows and any requests, *)
(* prices, credits and number of faults.                                   *)
(***************************************************************************)
EXTENDS Campaign, FiniteSetTheorems, TLAPS

Steps == {"idle"} \cup RunSteps \cup EditSteps \cup SyncSteps \cup EndSteps

LEMMA ScopedTyped ==
  ASSUME NEW r \in Request, NEW to \in Steps
  PROVE  /\ Scoped(r, to) \in Request
         /\ Scoped(r, to).step = to
         /\ Scoped(r, to).op = r.op
         /\ Scoped(r, to).price = r.price
         /\ to \notin EndSteps =>
              /\ Scoped(r, to).batch = r.batch
              /\ Scoped(r, to).todo = r.todo
              /\ Scoped(r, to).failed = r.failed
              /\ to \in {"accepted", "refused", "updating", "deleting"} =>
                   Scoped(r, to).row = r.row
<1>1. NoCounts \in Counters
  BY DEF NoCounts, Counters
<1>2. CASE to \in EndSteps
  <2>1. NewRequest \in Request
    BY <1>1 DEF NewRequest, Request
  <2>2. Scoped(r, to) = [NewRequest EXCEPT !.op = r.op, !.step = to, !.price = r.price]
    BY <1>2 DEF Scoped
  <2>3. r.op \in Ops \cup {"none"} /\ r.price \in Nat
    BY DEF Request
  <2>4. to \in {"idle"} \cup RunSteps \cup EditSteps \cup SyncSteps \cup EndSteps
    BY DEF Steps
  <2> HIDE DEF NewRequest
  <2>5. Scoped(r, to) \in Request
    BY <2>1, <2>2, <2>3, <2>4 DEF Request
  <2>6. /\ Scoped(r, to).step = to /\ Scoped(r, to).op = r.op
        /\ Scoped(r, to).price = r.price
    BY <2>1, <2>2 DEF Request
  <2> QED  BY <1>2, <2>5, <2>6
<1>3. CASE to \notin EndSteps
  <2> DEFINE w == IF to \in {"accepted", "refused", "updating", "deleting"} THEN r.row ELSE NoRow
             s == IF to \in {"debiting", "crediting"} THEN r.seen ELSE 0
             c == IF to = "synced" THEN r.counts ELSE NoCounts
  <2>1. w \in Rows \cup {NoRow} /\ s \in Int /\ c \in Counters
    BY <1>1 DEF Request
  <2>2. Scoped(r, to) = [r EXCEPT !.step = to, !.row = w, !.seen = s, !.counts = c]
    BY <1>3 DEF Scoped, Request
  <2>3. to \in {"accepted", "refused", "updating", "deleting"} => w = r.row
    OBVIOUS
  <2> HIDE DEF w, s, c
  <2> QED  BY <1>3, <2>1, <2>2, <2>3 DEF Request, Steps
<1> QED  BY <1>2, <1>3

(* Where request q goes with local variables r, and that no other moves.   *)
Moved(q, r, to) ==
  /\ req' \in [Requests -> Request]
  /\ req'[q].step = to
  /\ req'[q].op = r.op
  /\ req'[q].price = r.price
  /\ to \notin EndSteps =>
       /\ req'[q].batch = r.batch
       /\ req'[q].todo = r.todo
       /\ req'[q].failed = r.failed
       /\ to \in {"accepted", "refused", "updating", "deleting"} => req'[q].row = r.row
  /\ \A p \in Requests : p # q => req'[p] = req[p]

LEMMA WithMoves ==
  ASSUME req \in [Requests -> Request], NEW q \in Requests, NEW r \in Request, NEW to \in Steps,
         With(q, r, to)
  PROVE  Moved(q, r, to)
<1>1. req' = [req EXCEPT ![q] = Scoped(r, to)]
  BY DEF With
<1>2. req' \in [Requests -> Request] /\ req'[q] = Scoped(r, to)
      /\ \A p \in Requests : p # q => req'[p] = req[p]
  BY <1>1, ScopedTyped
<1> QED  BY <1>2, ScopedTyped DEF Moved

-----------------------------------------------------------------------------
(* Types                                                                   *)

LEMMA Counted == CountRows \in Counters
<1>1. \A st \in RowStatus : {r \in Rows : row[r] = st} \subseteq Rows
  OBVIOUS
<1>2. \A st \in RowStatus : Cardinality({r \in Rows : row[r] = st}) \in Nat
  BY <1>1, CampaignRows, FS_Subset, FS_CardinalityType
<1> QED  BY <1>2 DEF CountRows, Counters

LEMMA SubsetsOfRows ==
  ASSUME NEW S \in SUBSET Rows
  PROVE  IsFiniteSet(S) /\ Cardinality(S) \in Nat
BY CampaignRows, FS_Subset, FS_CardinalityType

LEMMA Product ==
  ASSUME NEW a \in Nat, NEW b \in Nat
  PROVE  a * b \in Nat
OBVIOUS

LEMMA PostsOne ==
  ASSUME ledger \in Seq(WalletTransaction), NEW q \in Requests,
         NEW type \in WalletTransactionType,
         NEW amount \in Int, NEW before \in Int, NEW after \in Int,
         Post(type, q, amount, before, after)
  PROVE  /\ ledger' \in Seq(WalletTransaction)
         /\ DOMAIN ledger = 1..Len(ledger) /\ Len(ledger) \in Nat
         /\ DOMAIN ledger' = 1..(Len(ledger) + 1)
         /\ \A i \in 1..Len(ledger) : ledger'[i] = ledger[i]
         /\ ledger'[Len(ledger) + 1].type = type
         /\ ledger'[Len(ledger) + 1].source = q
         /\ ledger'[Len(ledger) + 1].amount = amount
<1> DEFINE new == [type |-> type, source |-> q, amount |-> amount,
                   balanceBefore |-> before, balanceAfter |-> after]
<1>1. new \in WalletTransaction
  BY CampaignSources DEF WalletTransaction
<1>2. ledger' = Append(ledger, new)
  BY DEF Post
<1>3. new.type = type /\ new.source = q /\ new.amount = amount
  OBVIOUS
<1> HIDE DEF new
<1> QED  BY <1>1, <1>2, <1>3

(* The campaign starts on a wallet that has no entries yet, be it the       *)
(* owner's new account or one that others work with as well.               *)
SharedInit == WalletTypeOK /\ ledger = <<>> /\ CampaignStart

LEMMA StartsShared == CampaignInit => SharedInit
<1> SUFFICES ASSUME CampaignInit PROVE SharedInit
  OBVIOUS
<1>1. PICK b \in Credits : wallet = AccountWith(TRUE, b)
  BY DEF CampaignInit
<1>2. wallet \in WalletAccount
  BY <1>1, CampaignNumbers DEF AccountWith, WalletAccount
<1>3. ledger = <<>> /\ ledger \in Seq(WalletTransaction)
  BY DEF CampaignInit
<1> QED  BY <1>2, <1>3 DEF CampaignInit, SharedInit, WalletTypeOK

LEMMA TypeInit == SharedInit => CampaignTypeOK
<1> SUFFICES ASSUME SharedInit PROVE CampaignTypeOK
  OBVIOUS
<1>3. PICK first \in SUBSET Rows :
        /\ campaign = [status |-> IF first = {} THEN "DRAFT" ELSE "READY",
                       hasRun |-> FALSE,
                       counts |-> [NoCounts EXCEPT !["PENDING"] = Cardinality(first)]]
        /\ row = [r \in Rows |-> IF r \in first THEN "PENDING" ELSE "unborn"]
  BY DEF SharedInit, CampaignStart
<1>4. NoCounts \in Counters
  BY DEF NoCounts, Counters
<1>5. [NoCounts EXCEPT !["PENDING"] = Cardinality(first)] \in Counters
  BY <1>4, SubsetsOfRows DEF Counters
<1>6. campaign \in [status : CampaignStatus, hasRun : BOOLEAN, counts : Counters]
  BY <1>3, <1>5 DEF CampaignStatus
<1>7. row \in [Rows -> RowStatus \cup {"unborn", "deleted"}]
  BY <1>3 DEF RowStatus
<1>8. NewRequest \in Request
  BY <1>4 DEF NewRequest, Request
<1>9. /\ req \in [Requests -> Request] /\ log \in SUBSET LogRow
      /\ delivered \in [Rows -> Nat] /\ faults \in 0..MaxFaults
  BY <1>8, CampaignNumbers DEF SharedInit, CampaignStart
<1> QED  BY <1>6, <1>7, <1>9 DEF CampaignTypeOK, SharedInit

(* The type invariant, spread out.                                         *)
LEMMA Typed ==
  CampaignTypeOK =>
    /\ wallet \in WalletAccount /\ ledger \in Seq(WalletTransaction)
    /\ campaign \in [status : CampaignStatus, hasRun : BOOLEAN, counts : Counters]
    /\ row \in [Rows -> RowStatus \cup {"unborn", "deleted"}]
    /\ req \in [Requests -> Request]
    /\ log \in SUBSET LogRow
    /\ delivered \in [Rows -> Nat]
    /\ faults \in 0..MaxFaults
BY DEF CampaignTypeOK, WalletTypeOK

(* What a request may set among its local variables.                       *)
LEMMA LocalsTyped ==
  ASSUME NEW r \in Request
  PROVE  /\ r.step \in Steps /\ r.price \in Nat /\ r.seen \in Int /\ r.counts \in Counters
         /\ r.row \in Rows \cup {NoRow}
         /\ r.batch \in SUBSET Rows /\ r.todo \in SUBSET Rows /\ r.failed \in SUBSET Rows
         /\ \A op \in Ops, had \in BOOLEAN : [r EXCEPT !.op = op, !.hadRun = had] \in Request
         /\ \A b \in SUBSET Rows : /\ [r EXCEPT !.batch = b] \in Request
                                  /\ [r EXCEPT !.batch = b, !.todo = b] \in Request
                                  /\ [r EXCEPT !.failed = b] \in Request
         /\ \A p \in Nat : [r EXCEPT !.price = p] \in Request
         /\ \A b \in Int : [r EXCEPT !.seen = b] \in Request
         /\ \A c \in Counters : [r EXCEPT !.counts = c] \in Request
         /\ \A w \in Rows : /\ [r EXCEPT !.row = w, !.todo = r.todo \ {w}] \in Request
                           /\ \A f \in BOOLEAN : [r EXCEPT !.row = w, !.wasFailed = f] \in Request
BY DEF Request, Steps
LEMMA StepNames ==
  /\ "idle" \in Steps /\ "picking" \in Steps /\ "pricing" \in Steps /\ "marking" \in Steps
  /\ "holding" \in Steps /\ "debiting" \in Steps /\ "restoring" \in Steps /\ "sending" \in Steps
  /\ "accepted" \in Steps /\ "refused" \in Steps /\ "crediting" \in Steps /\ "finishing" \in Steps
  /\ "importing" \in Steps /\ "replacing" \in Steps /\ "finding" \in Steps /\ "updating" \in Steps
  /\ "deleting" \in Steps /\ "counting" \in Steps /\ "emptying" \in Steps /\ "dropping" \in Steps
  /\ "cancelling" \in Steps /\ "syncing" \in Steps /\ "synced" \in Steps /\ "done" \in Steps
  /\ "unpaid" \in Steps /\ "rejected" \in Steps /\ "aborted" \in Steps /\ "lost" \in Steps
BY DEF Steps, RunSteps, EditSteps, SyncSteps, EndSteps

OnARow == {"accepted", "refused", "updating", "deleting"}

(* The steps at which a request works on a row, and those at which not.    *)
LEMMA StepsOffRows ==
  {"idle", "picking", "pricing", "marking", "holding", "debiting", "restoring", "sending",
   "crediting", "finishing", "importing", "replacing", "finding", "counting", "emptying",
   "dropping", "cancelling", "syncing", "synced", "done", "unpaid", "rejected", "aborted",
   "lost"} \cap OnARow = {}
BY DEF OnARow

Quiet == UNCHANGED <<walletVars, campaign, row, log, delivered, faults>>

(* A quiet step: request q goes on with other local variables, and that is *)
(* all.  What it may be, for each action that is one.                      *)
QuietMove(q, r, to) == With(q, r, to) /\ Quiet

Opened(q, op) == [req[q] EXCEPT !.op = op, !.hadRun = campaign.hasRun]

FirstSteps(op) == IF op \in {"execute", "retry"} THEN {"picking", "rejected"}
                  ELSE {"importing", "finding", "dropping", "cancelling", "rejected"}

LEMMA BeginMoves ==
  ASSUME CampaignTypeOK, NEW q \in Requests, BeginRequest(q)
  PROVE  /\ At(q, "idle")
         /\ \E op \in Ops : \E to \in FirstSteps(op) :
              /\ to \in Steps
              /\ Opened(q, op) \in Request
              /\ QuietMove(q, Opened(q, op), to)
<1>1. ASSUME NEW op, NEW allowed, NEW step \in FirstSteps(op), Begin(q, op, allowed, step)
      PROVE  /\ At(q, "idle") /\ op \in Ops
             /\ \E to \in FirstSteps(op) :
                  /\ to \in Steps
                  /\ Opened(q, op) \in Request
                  /\ QuietMove(q, Opened(q, op), to)
  <2> DEFINE to == IF allowed THEN step ELSE "rejected"
  <2>1. op \in Ops /\ At(q, "idle") /\ QuietMove(q, Opened(q, op), to)
    BY <1>1 DEF Begin, Arrives, QuietMove, Quiet, Opened
  <2>2. to \in FirstSteps(op) /\ to \in Steps
    BY <1>1, StepNames DEF FirstSteps
  <2>3. req[q] \in Request /\ campaign.hasRun \in BOOLEAN
    BY Typed
  <2>4. Opened(q, op) \in Request
    BY <2>1, <2>3, LocalsTyped DEF Opened
  <2> HIDE DEF to
  <2> QED  BY <2>1, <2>2, <2>4
<1>2. CASE BeginRun(q)
  <2>1. PICK op \in {"execute", "retry"} : Begin(q, op, CanRun, "picking")
    BY <1>2 DEF BeginRun
  <2>2. "picking" \in FirstSteps(op)
    BY DEF FirstSteps
  <2> QED  BY <1>1, <2>1, <2>2
<1>3. CASE BeginImport(q)
  <2>1. "importing" \in FirstSteps("importCsv")
    BY DEF FirstSteps
  <2> QED  BY <1>1, <1>3, <2>1 DEF BeginImport
<1>4. CASE BeginEdit(q)
  <2>1. PICK op \in {"updateRow", "removeRow"} : Begin(q, op, CanEdit(op), "finding")
    BY <1>4 DEF BeginEdit
  <2>2. "finding" \in FirstSteps(op)
    BY DEF FirstSteps
  <2> QED  BY <1>1, <2>1, <2>2
<1>5. CASE BeginRemove(q)
  <2> DEFINE step == IF campaign.status = "DRAFT" THEN "dropping" ELSE "cancelling"
  <2>1. step \in FirstSteps("remove")
    BY DEF FirstSteps
  <2>2. Begin(q, "remove", CanRemove, step)
    BY <1>5 DEF BeginRemove
  <2> HIDE DEF step
  <2> QED  BY <1>1, <2>1, <2>2
<1> QED  BY <1>2, <1>3, <1>4, <1>5 DEF BeginRequest

(* A request that works on a row has chosen one.                           *)
RowChosen == \A q \in Requests : req[q].step \in OnARow => req[q].row \in Rows

TypeInv == CampaignTypeOK /\ RowChosen

LEMMA ChoosesRow ==
  ASSUME TypeInv, NEW q \in Requests, NEW r \in Request, NEW to \in Steps, With(q, r, to),
         to \in OnARow => r.row \in Rows
  PROVE  req' \in [Requests -> Request] /\ RowChosen'
<1>1. Moved(q, r, to)
  BY Typed, WithMoves DEF TypeInv
<1> QED  BY <1>1 DEF Moved, TypeInv, RowChosen, OnARow, EndSteps

(* What only moves a request keeps the types.                              *)
LEMMA QuietKeepsTypes ==
  ASSUME TypeInv, NEW q \in Requests, NEW r \in Request, NEW to \in Steps,
         QuietMove(q, r, to), to \in OnARow => r.row \in Rows
  PROVE  TypeInv'
<1>1. req' \in [Requests -> Request] /\ RowChosen'
  BY ChoosesRow DEF QuietMove
<1> QED  BY <1>1 DEF QuietMove, Quiet, walletVars, TypeInv, CampaignTypeOK, WalletTypeOK

LEMMA TypeStep == TypeInv /\ [CampaignNext]_vars => TypeInv'
<1> SUFFICES ASSUME TypeInv, [CampaignNext]_vars PROVE TypeInv'
  OBVIOUS
<1> USE DEF TypeInv
<1>1. CASE UNCHANGED vars
  BY <1>1 DEF vars, walletVars, campaignVars, CampaignTypeOK, WalletTypeOK, RowChosen
<1> SUFFICES ASSUME NEW q \in Requests, BeginRequest(q) \/ Continue(q) \/ CrashRequest(q)
             PROVE  TypeInv'
  BY <1>1 DEF CampaignNext
<1>r. /\ req[q] \in Request /\ req \in [Requests -> Request]
      /\ wallet.balance \in Int /\ campaign.hasRun \in BOOLEAN
  BY Typed DEF WalletAccount
<1>q. ASSUME NEW r \in Request, NEW to \in Steps, QuietMove(q, r, to),
             to \in OnARow => r.row \in Rows
      PROVE  TypeInv'
  BY <1>q, QuietKeepsTypes
<1>w. ASSUME NEW to \in Steps \ OnARow, With(q, req[q], to)
      PROVE  req' \in [Requests -> Request] /\ RowChosen'
  BY <1>w, <1>r, ChoosesRow
<1>f. ASSUME faults < MaxFaults, faults' = faults + 1 PROVE faults' \in 0..MaxFaults
  BY <1>f, Typed, CampaignNumbers
<1>2. CASE BeginRequest(q)
  <2>1. PICK op \in Ops : \E to \in FirstSteps(op) :
          to \in Steps /\ Opened(q, op) \in Request /\ QuietMove(q, Opened(q, op), to)
    BY <1>2, BeginMoves
  <2>2. FirstSteps(op) \cap OnARow = {}
    BY DEF FirstSteps, OnARow
  <2> QED  BY <1>q, <2>1, <2>2
<1>3. CASE PickRows(q)
  <2>1. ASSUME NEW batch \in SUBSET Rows,
               With(q, [req[q] EXCEPT !.batch = batch, !.todo = batch], "pricing"), Quiet
        PROVE  TypeInv'
    BY <2>1, <1>q, <1>r, LocalsTyped, StepNames, StepsOffRows DEF QuietMove
  <2>2. ASSUME With(q, req[q], "rejected"), Quiet PROVE TypeInv'
    BY <2>2, <1>q, <1>r, StepNames, StepsOffRows DEF QuietMove
  <2> QED  BY <1>3, <2>1, <2>2 DEF PickRows, Quiet
<1>4. CASE CheckWallet(q)
  <2>1. PICK p \in Prices : With(q, [req[q] EXCEPT !.price = p],
            IF wallet.exists /\ wallet.balance >= p * Cardinality(req[q].batch)
            THEN "marking" ELSE "rejected")
    BY <1>4 DEF CheckWallet
  <2>2. [req[q] EXCEPT !.price = p] \in Request
    BY <1>r, CampaignNumbers, LocalsTyped
  <2> QED  BY <1>4, <1>q, <2>1, <2>2, StepNames, StepsOffRows DEF CheckWallet, QuietMove, Quiet
<1>5. CASE ReadForHold(q)
  BY <1>5, <1>q, <1>r, LocalsTyped, StepNames, StepsOffRows DEF ReadForHold, QuietMove, Quiet
<1>6. CASE ReadForRefund(q)
  BY <1>6, <1>q, <1>r, LocalsTyped, StepNames, StepsOffRows DEF ReadForRefund, QuietMove, Quiet
<1>7. CASE CountForSync(q)
  BY <1>7, <1>q, <1>r, LocalsTyped, Counted, StepNames, StepsOffRows DEF CountForSync, QuietMove, Quiet
<1>8. CASE SeeOldRows(q)
  <2>1. {r \in Rows : Live(r)} \in SUBSET Rows
    OBVIOUS
  <2> QED  BY <1>8, <1>q, <1>r, <2>1, LocalsTyped, StepNames, StepsOffRows DEF SeeOldRows, QuietMove, Quiet
<1>9. CASE ImportGone(q)
  BY <1>9, <1>q, <1>r, StepNames, StepsOffRows DEF ImportGone, Goes, QuietMove, Quiet
<1>10. CASE FindRow(q)
  <2>1. ASSUME NEW r \in Rows, NEW f \in BOOLEAN, NEW to \in Steps,
               With(q, [req[q] EXCEPT !.row = r, !.wasFailed = f], to), Quiet
        PROVE  TypeInv'
    <3>1. [req[q] EXCEPT !.row = r, !.wasFailed = f] \in Request
      BY <1>r, <2>1, LocalsTyped
    <3>2. [req[q] EXCEPT !.row = r, !.wasFailed = f].row = r
      BY <1>r DEF Request
    <3> QED  BY <1>q, <2>1, <3>1, <3>2 DEF QuietMove
  <2>2. ASSUME With(q, req[q], "rejected"), Quiet PROVE TypeInv'
    BY <2>2, <1>q, <1>r, StepNames, StepsOffRows DEF QuietMove
  <2>3. \A r : (row[r] = "FAILED") \in BOOLEAN
    OBVIOUS
  <2> QED  BY <1>10, <2>1, <2>2, <2>3, StepNames, StepsOffRows DEF FindRow, Quiet
<1>11. CASE CountRemaining(q)
  BY <1>11, <1>q, <1>r, StepNames, StepsOffRows DEF CountRemaining, Goes, QuietMove, Quiet
(* The campaign's own row is written.                                      *)
<1>c. ASSUME NEW from, NEW to \in Steps \ OnARow, NEW otherwise \in Steps \ OnARow, NEW c,
             SetCampaign(q, from, to, otherwise, c),
             c \in [status : CampaignStatus, hasRun : BOOLEAN, counts : Counters]
      PROVE  /\ req' \in [Requests -> Request] /\ RowChosen'
             /\ campaign' \in [status : CampaignStatus, hasRun : BOOLEAN, counts : Counters]
  <2>1. With(q, req[q], IF Exists THEN to ELSE otherwise)
    BY <1>c DEF SetCampaign, Goes
  <2> QED  BY <1>c, <1>w, <2>1, Typed DEF SetCampaign
<1>s. ASSUME NEW st \in CampaignStatus, NEW has \in BOOLEAN
      PROVE  /\ [campaign EXCEPT !.status = st] \in [status : CampaignStatus, hasRun : BOOLEAN, counts : Counters]
             /\ [campaign EXCEPT !.status = st, !.hasRun = has] \in [status : CampaignStatus, hasRun : BOOLEAN, counts : Counters]
  BY Typed
<1>n. \A st \in {"DRAFT", "READY", "RUNNING", "COMPLETED", "CANCELLED", "gone"} : st \in CampaignStatus
  BY DEF CampaignStatus
<1>12. CASE MarkRunning(q)
  BY <1>12, <1>c, <1>s, <1>n, StepNames, StepsOffRows, Typed DEF MarkRunning, walletVars, CampaignTypeOK, WalletTypeOK
<1>13. CASE RestoreStatus(q)
  <2>1. (IF req[q].hadRun THEN "COMPLETED" ELSE "READY") \in CampaignStatus
    BY <1>n
  <2> QED  BY <1>13, <1>c, <1>s, <2>1, StepNames, StepsOffRows DEF RestoreStatus, walletVars, CampaignTypeOK, WalletTypeOK
<1>14. CASE FinishRun(q)
  BY <1>14, <1>c, <1>s, <1>n, StepNames, StepsOffRows DEF FinishRun, walletVars, CampaignTypeOK, WalletTypeOK
<1>15. CASE BackToDraft(q)
  BY <1>15, <1>c, <1>s, <1>n, StepNames, StepsOffRows DEF BackToDraft, walletVars, CampaignTypeOK, WalletTypeOK
<1>16. CASE CancelCampaign(q)
  BY <1>16, <1>c, <1>s, <1>n, StepNames, StepsOffRows DEF CancelCampaign, walletVars, CampaignTypeOK, WalletTypeOK
<1>17. CASE WriteCounters(q)
  <2>1. [campaign EXCEPT !.counts = req[q].counts] \in [status : CampaignStatus, hasRun : BOOLEAN, counts : Counters]
    BY <1>r, Typed, LocalsTyped
  <2>2. AfterSync(q) \in Steps \ OnARow
    BY StepNames, StepsOffRows DEF AfterSync
  <2> QED  BY <1>17, <1>c, <2>1, <2>2, StepNames, StepsOffRows DEF WriteCounters, walletVars, CampaignTypeOK, WalletTypeOK
<1>18. CASE DropCampaign(q)
  <2>1. row' \in [Rows -> RowStatus \cup {"unborn", "deleted"}]
    BY <1>18, Typed DEF DropCampaign
  <2> QED  BY <1>18, <1>c, <1>s, <1>n, <2>1, StepNames, StepsOffRows DEF DropCampaign, walletVars, CampaignTypeOK, WalletTypeOK
<1>19. CASE CommitImport(q)
  <2>1. PICK new \in SUBSET {r \in Rows : row[r] = "unborn"} \ {{}} :
          /\ row' = [r \in Rows |-> IF r \in new THEN "PENDING"
                                    ELSE IF Live(r) /\ r \in req[q].batch THEN "deleted"
                                    ELSE row[r]]
          /\ campaign' = [campaign EXCEPT
               !.status = "READY",
               !.counts = [NoCounts EXCEPT !["PENDING"] = Cardinality(new)]]
    BY <1>19 DEF CommitImport
  <2>2. row' \in [Rows -> RowStatus \cup {"unborn", "deleted"}]
    BY <2>1, Typed DEF RowStatus
  <2>3. [NoCounts EXCEPT !["PENDING"] = Cardinality(new)] \in Counters
    <3>1. Cardinality(new) \in Nat
      BY SubsetsOfRows
    <3> QED  BY <3>1 DEF NoCounts, Counters
  <2>4. campaign' \in [status : CampaignStatus, hasRun : BOOLEAN, counts : Counters]
    BY <1>n, <2>1, <2>3, Typed
  <2>5. req' \in [Requests -> Request] /\ RowChosen'
    BY <1>19, <1>w, StepNames, StepsOffRows DEF CommitImport, Goes
  <2> QED  BY <1>19, <2>2, <2>4, <2>5 DEF CommitImport, walletVars, CampaignTypeOK, WalletTypeOK
(* A row is written.                                                       *)
<1>20. CASE UpdateRow(q) \/ DeleteRow(q)
  <2>1. row' \in [Rows -> RowStatus \cup {"unborn", "deleted"}]
    BY <1>20, Typed DEF UpdateRow, DeleteRow, RowStatus
  <2>2. req' \in [Requests -> Request] /\ RowChosen'
    BY <1>20, <1>w, StepNames, StepsOffRows DEF UpdateRow, DeleteRow
  <2> QED  BY <1>20, <2>1, <2>2 DEF UpdateRow, DeleteRow, walletVars, CampaignTypeOK, WalletTypeOK
<1>x. req[q].step \in OnARow => req[q].row \in Rows
  BY DEF RowChosen
<1>l. ASSUME NEW statuses \in SUBSET {"SUCCESS", "FAILED"}, req[q].row \in Rows, Logged(q, statuses)
      PROVE  log' \in SUBSET LogRow
  BY <1>l, Typed DEF Logged, LogRow
<1>v. ASSUME req[q].row \in Rows, NEW st \in RowStatus, row' = [row EXCEPT ![req[q].row] = st]
      PROVE  row' \in [Rows -> RowStatus \cup {"unborn", "deleted"}]
  BY <1>v, Typed
<1>21. CASE RecordSuccess(q)
  <2>1. req' \in [Requests -> Request] /\ RowChosen'
    BY <1>21, <1>w, StepNames, StepsOffRows DEF RecordSuccess, Goes
  <2>2. req[q].row \in Rows
    BY <1>21, <1>x DEF RecordSuccess, Goes, At, OnARow
  <2>3. log' \in SUBSET LogRow
    BY <1>21, <1>l, <2>2 DEF RecordSuccess
  <2>4. row' \in [Rows -> RowStatus \cup {"unborn", "deleted"}]
    BY <1>21, <1>v, <2>2 DEF RecordSuccess, RowStatus
  <2> QED  BY <1>21, <2>1, <2>3, <2>4 DEF RecordSuccess, walletVars, CampaignTypeOK, WalletTypeOK
<1>22. ASSUME NEW from \in {"accepted", "refused"}, NEW st \in SUBSET {"SUCCESS", "FAILED"},
              RecordFailure(q, from, st), faults' \in 0..MaxFaults
       PROVE  TypeInv'
  <2>1. req[q].row \in Rows
    BY <1>22, <1>x DEF RecordFailure, At, OnARow
  <2>2. req[q].failed \cup {req[q].row} \in SUBSET Rows
    BY <1>r, <2>1, LocalsTyped
  <2>3. [req[q] EXCEPT !.failed = @ \cup {req[q].row}] \in Request
    BY <1>r, <2>2, LocalsTyped
  <2>4. req' \in [Requests -> Request] /\ RowChosen'
    BY <1>22, <2>3, ChoosesRow, StepNames, StepsOffRows DEF RecordFailure
  <2>5. log' \in SUBSET LogRow
    BY <1>22, <1>l, <2>1 DEF RecordFailure
  <2>6. row' \in [Rows -> RowStatus \cup {"unborn", "deleted"}]
    BY <1>22, <1>v, <2>1 DEF RecordFailure, RowStatus
  <2> QED  BY <1>22, <2>4, <2>5, <2>6 DEF RecordFailure, walletVars, CampaignTypeOK, WalletTypeOK
<1>23. CASE RecordRefused(q)
  BY <1>22, <1>23, Typed DEF RecordRefused
<1>24. CASE RecordThrows(q)
  BY <1>22, <1>24, <1>f DEF RecordThrows
<1>25. CASE RowGone(q)
  <2>1. req[q].row \in Rows
    BY <1>25, <1>x DEF RowGone, OnARow
  <2>2. log' \in SUBSET LogRow
    BY <1>25, <1>l, <2>1 DEF RowGone
  <2>3. req' \in [Requests -> Request] /\ RowChosen'
    BY <1>25, <1>w, StepNames, StepsOffRows DEF RowGone, Goes
  <2> QED  BY <1>25, <2>2, <2>3 DEF RowGone, walletVars, CampaignTypeOK, WalletTypeOK
(* A message is dispatched.                                                *)
<1>d. ASSUME NEW r \in req[q].todo, NEW to \in {"accepted", "refused"},
             With(q, [req[q] EXCEPT !.row = r, !.todo = @ \ {r}], to)
      PROVE  r \in Rows /\ req' \in [Requests -> Request] /\ RowChosen'
  <2>1. r \in Rows
    BY <1>r, LocalsTyped
  <2>2. [req[q] EXCEPT !.row = r, !.todo = @ \ {r}] \in Request
    BY <1>r, <2>1, LocalsTyped
  <2>3. [req[q] EXCEPT !.row = r, !.todo = @ \ {r}].row = r
    BY <1>r DEF Request
  <2> QED  BY <1>d, <2>1, <2>2, <2>3, ChoosesRow, StepNames
<1>e. ASSUME NEW r \in Rows, Deliver(r) PROVE delivered' \in [Rows -> Nat]
  BY <1>e, Typed DEF Deliver
<1>26. CASE DispatchAccepted(q)
  <2>1. req' \in [Requests -> Request] /\ RowChosen' /\ delivered' \in [Rows -> Nat]
    BY <1>26, <1>d, <1>e DEF DispatchAccepted
  <2> QED  BY <1>26, <2>1 DEF DispatchAccepted, walletVars, CampaignTypeOK, WalletTypeOK
<1>27. CASE DispatchThrows(q)
  <2>1. /\ req' \in [Requests -> Request] /\ RowChosen' /\ delivered' \in [Rows -> Nat]
        /\ faults' \in 0..MaxFaults
    BY <1>27, <1>d, <1>e, <1>f, Typed DEF DispatchThrows
  <2> QED  BY <1>27, <2>1 DEF DispatchThrows, walletVars, CampaignTypeOK, WalletTypeOK
(* The wallet is written.                                                  *)
<1>28. Charge(q) \in Nat /\ Refund(q) \in Nat /\ req[q].seen \in Int
  <2>1. Cardinality(req[q].batch) \in Nat /\ Cardinality(req[q].failed) \in Nat
    BY <1>r, LocalsTyped, SubsetsOfRows
  <2>2. req[q].price \in Nat /\ req[q].seen \in Int
    BY <1>r, LocalsTyped
  <2> QED  BY ONLY <2>1, <2>2, Product DEF Charge, Refund
<1>h. ASSUME PostHold(q)
      PROVE  wallet' \in WalletAccount /\ ledger' \in Seq(WalletTransaction)
  <2>1. /\ wallet.balance - Charge(q) \in Int /\ wallet.totalSpent + Charge(q) \in Int
        /\ req[q].seen - Charge(q) \in Int
    BY <1>28, Typed DEF WalletAccount
  <2>2. wallet' \in WalletAccount
    BY <1>h, <2>1, Typed DEF PostHold, WalletAccount
  <2>3. "CAMPAIGN_HOLD" \in WalletTransactionType /\ Charge(q) \in Int
    BY <1>28 DEF WalletTransactionType
  <2>4. Post("CAMPAIGN_HOLD", q, Charge(q), req[q].seen, req[q].seen - Charge(q))
    BY <1>h DEF PostHold
  <2> QED  BY <1>28, <2>1, <2>2, <2>3, <2>4, Typed, PostsOne
<1>29. CASE CommitHold(q)
  <2>1. req' \in [Requests -> Request] /\ RowChosen'
    BY <1>29, <1>w, StepNames, StepsOffRows DEF CommitHold, Goes
  <2> QED  BY <1>29, <1>h, <2>1 DEF CommitHold, CampaignTypeOK, WalletTypeOK
<1>30. CASE HoldThrows(q)
  <2>1. req' \in [Requests -> Request] /\ RowChosen'
    BY <1>30, <1>w, StepNames, StepsOffRows DEF HoldThrows, Goes
  <2>2. wallet' \in WalletAccount /\ ledger' \in Seq(WalletTransaction)
    BY <1>30, <1>h, Typed DEF HoldThrows, walletVars
  <2>3. faults' \in 0..MaxFaults
    BY <1>30, <1>f DEF HoldThrows
  <2> QED  BY <1>30, <2>1, <2>2, <2>3 DEF HoldThrows, CampaignTypeOK, WalletTypeOK
<1>31. CASE CommitRefund(q)
  <2>1. req' \in [Requests -> Request] /\ RowChosen'
    BY <1>31, <1>w, StepNames, StepsOffRows DEF CommitRefund, Goes
  <2>2. /\ wallet.balance + Refund(q) \in Int /\ wallet.totalRefund + Refund(q) \in Int
        /\ req[q].seen + Refund(q) \in Int
    BY <1>28, Typed DEF WalletAccount
  <2>3. wallet' \in WalletAccount
    BY <1>31, <2>2, Typed DEF CommitRefund, WalletAccount
  <2>4. "CAMPAIGN_REFUND" \in WalletTransactionType /\ Refund(q) \in Int
    BY <1>28 DEF WalletTransactionType
  <2>5. Post("CAMPAIGN_REFUND", q, Refund(q), req[q].seen, req[q].seen + Refund(q))
    BY <1>31 DEF CommitRefund
  <2>6. ledger' \in Seq(WalletTransaction)
    BY <1>28, <2>2, <2>4, <2>5, Typed, PostsOne
  <2> QED  BY <1>31, <2>1, <2>3, <2>6 DEF CommitRefund, CampaignTypeOK, WalletTypeOK
<1>32. CASE CrashRequest(q)
  <2>1. req' \in [Requests -> Request] /\ RowChosen'
    BY <1>32, <1>w, StepNames, StepsOffRows DEF CrashRequest
  <2>2. log' \in SUBSET LogRow
    BY <1>32, <1>l, <1>x, Typed DEF CrashRequest, At, OnARow
  <2>3. faults' \in 0..MaxFaults
    BY <1>32, <1>f DEF CrashRequest
  <2> QED  BY <1>32, <2>1, <2>2, <2>3 DEF CrashRequest, walletVars, CampaignTypeOK, WalletTypeOK
<1> QED
  BY <1>2, <1>3, <1>4, <1>5, <1>6, <1>7, <1>8, <1>9, <1>10, <1>11, <1>12, <1>13, <1>14, <1>15,
     <1>16, <1>17, <1>18, <1>19, <1>20, <1>21, <1>23, <1>24, <1>25, <1>26, <1>27, <1>29, <1>30,
     <1>31, <1>32
  DEF Continue, RunStep, EditStep

LEMMA TypeStarts == SharedInit => TypeInv
<1>1. SharedInit => \A q \in Requests : req[q].step = "idle"
  BY DEF SharedInit, CampaignStart, NewRequest
<1> QED  BY <1>1, TypeInit, StepsOffRows DEF TypeInv, RowChosen

(* Every variable keeps its type, for any number of rows and requests.     *)
THEOREM TypeCorrect == CampaignSpec => []CampaignTypeOK
<1>1. TypeInv => CampaignTypeOK
  BY DEF TypeInv
<1> QED  BY <1>1, StartsShared, TypeStarts, TypeStep, PTL DEF CampaignSpec

-----------------------------------------------------------------------------
(* What a step of a request means for its account with the wallet.         *)

Unpaid   == {"idle", "picking", "pricing", "marking", "holding", "debiting"}
Spending == {"sending", "accepted", "refused", "crediting"}

NothingBooked == UNCHANGED <<ledger, log, delivered>>
SameBatch(q) == /\ req'[q].batch = req[q].batch /\ req'[q].todo = req[q].todo
                /\ req'[q].failed = req[q].failed
SamePrice(q) == req'[q].price = req[q].price

(* A run comes to its end from sending, if nothing is to be refunded; to   *)
(* the steps of an edit it never comes.                                    *)
Settling == {"syncing", "synced", "finishing", "done"}
OnTrack(q) ==
  IsRun(q)' =>
    /\ req'[q].step \in EditSteps => IsRun(q) /\ req[q].step \in EditSteps
    /\ req'[q].step \in Settling =>
         /\ IsRun(q) /\ SamePrice(q)
         /\ \/ req[q].step \in Settling \cup EditSteps
            \/ At(q, "sending") /\ req[q].todo = {} /\ ~(Refund(q) > 0)

(* The steps a request may leave its course by, and those it is sent on to. *)
Off == {"restoring", "unpaid", "rejected", "aborted", "lost"}
Onward(q, to) == \/ to \in Off
                 \/ req[q].step \in EditSteps /\ to \in EditSteps \cup Settling
                 \/ req[q].step \in Settling /\ to \in Settling

Departs(q) == /\ req'[q].step \notin Unpaid \cup Spending
              /\ SamePrice(q) \/ At(q, "pricing")
              /\ NothingBooked
              /\ OnTrack(q)

Starts(q) == /\ At(q, "idle") /\ req'[q].step = "picking"
             /\ SameBatch(q) /\ SamePrice(q) /\ NothingBooked

Picks(q) == /\ At(q, "picking") /\ req'[q].step = "pricing"
            /\ req'[q].batch # {} /\ req'[q].todo = req'[q].batch
            /\ req'[q].failed = req[q].failed /\ SamePrice(q) /\ NothingBooked

FindsPrice(q) == /\ At(q, "pricing") /\ req'[q].step = "marking"
                 /\ req'[q].price \in Prices /\ SameBatch(q) /\ NothingBooked

Prepares(q) == /\ \/ At(q, "marking") /\ req'[q].step = "holding"
                  \/ At(q, "holding") /\ req'[q].step = "debiting"
               /\ SameBatch(q) /\ SamePrice(q) /\ NothingBooked

(* A journal entry of q.                                                   *)
Enters(q, type, amount) ==
  /\ DOMAIN ledger = 1..Len(ledger) /\ Len(ledger) \in Nat
  /\ DOMAIN ledger' = 1..(Len(ledger) + 1)
  /\ \A i \in 1..Len(ledger) : ledger'[i] = ledger[i]
  /\ ledger'[Len(ledger) + 1].type = type
  /\ ledger'[Len(ledger) + 1].source = q
  /\ ledger'[Len(ledger) + 1].amount = amount
  /\ SamePrice(q) /\ UNCHANGED <<log, delivered>>

Pays(q) == /\ At(q, "debiting")
           /\ \/ req'[q].step = "sending" /\ SameBatch(q)
              \/ req'[q].step = "restoring"
           /\ Enters(q, "CAMPAIGN_HOLD", Charge(q))

Tries(q) == /\ At(q, "sending") /\ req'[q].step \in {"accepted", "refused"}
            /\ req'[q].row \in req[q].todo
            /\ req'[q].todo = req[q].todo \ {req'[q].row}
            /\ req'[q].batch = req[q].batch /\ req'[q].failed = req[q].failed
            /\ SamePrice(q) /\ UNCHANGED <<ledger, log>>
            /\ UNCHANGED delivered \/ Deliver(req'[q].row)
            /\ req'[q].step = "accepted" => Deliver(req'[q].row)

Notes(q, st) ==
  /\ st # {} /\ Logged(q, st)
  /\ req[q].step \in {"accepted", "refused"}
  /\ \/ req'[q].step \in {"aborted", "lost"}
     \/ /\ req'[q].step = "sending"
        /\ req'[q].batch = req[q].batch /\ req'[q].todo = req[q].todo
        /\ req'[q].failed = req[q].failed \cup (IF "FAILED" \in st THEN {req[q].row} ELSE {})
        /\ {"SUCCESS", "FAILED"} \subseteq st => faults' # 0
  /\ SamePrice(q) /\ UNCHANGED <<ledger, delivered>>

Closes(q) == /\ At(q, "sending") /\ req'[q].step = "crediting" /\ req[q].todo = {}
             /\ SameBatch(q) /\ SamePrice(q) /\ NothingBooked

GivesBack(q) == /\ At(q, "crediting") /\ req'[q].step = "syncing"
                /\ Enters(q, "CAMPAIGN_REFUND", Refund(q))

AccountStep(q) ==
  /\ \A p \in Requests : p # q => req'[p] = req[p]
  /\ faults' = 0 => faults = 0
  /\ \/ Departs(q) \/ Starts(q) \/ Picks(q) \/ FindsPrice(q) \/ Prepares(q)
     \/ Pays(q) \/ Tries(q) \/ Closes(q) \/ GivesBack(q)
     \/ \E st \in SUBSET {"SUCCESS", "FAILED"} : Notes(q, st)

LEMMA StepsOfAccount ==
  /\ Spending \cap EndSteps = {} /\ Unpaid \cap EndSteps = {} /\ Unpaid \cap Spending = {}
  /\ EditSteps \cap (Unpaid \cup Spending) = {} /\ SyncSteps \cap (Unpaid \cup Spending) = {}
  /\ "restoring" \notin Unpaid \cup Spending /\ "finishing" \notin Unpaid \cup Spending
BY DEF Spending, Unpaid, EndSteps, EditSteps, SyncSteps

LEMMA EachIsAccountStep ==
  ASSUME TypeInv, NEW q \in Requests, BeginRequest(q) \/ Continue(q) \/ CrashRequest(q)
  PROVE  AccountStep(q)
<1>r. /\ CampaignTypeOK /\ req[q] \in Request /\ req \in [Requests -> Request]
      /\ wallet.balance \in Int /\ campaign.hasRun \in BOOLEAN
  BY Typed DEF WalletAccount, TypeInv
<1>m. ASSUME NEW r \in Request, NEW to \in Steps, With(q, r, to) PROVE Moved(q, r, to)
  BY <1>m, <1>r, WithMoves
(* What ends a request or moves it among the other steps.                  *)
<1>z. faults' = 0 => faults = 0
  <2>1. faults \in Nat
    BY <1>r, Typed, CampaignNumbers
  <2>2. faults' = faults \/ faults' = faults + 1
    BY DEF BeginRequest, BeginRun, BeginImport, BeginEdit, BeginRemove, Begin, CrashRequest,
           Continue, RunStep, EditStep, PickRows, CheckWallet, MarkRunning, ReadForHold, CommitHold,
           HoldThrows, RestoreStatus, DispatchAccepted, DispatchThrows, RecordSuccess,
           RecordRefused, RecordThrows, RowGone, ReadForRefund, CommitRefund, FinishRun,
           SeeOldRows, CommitImport, ImportGone, FindRow, UpdateRow, DeleteRow, CountRemaining,
           BackToDraft, DropCampaign, CancelCampaign, CountForSync, WriteCounters
  <2> QED  BY <2>1, <2>2
<1>d. ASSUME NEW r \in Request, NEW to \in Steps \ (Unpaid \cup Spending), With(q, r, to),
             r.price = req[q].price \/ At(q, "pricing"), NothingBooked,
             r.op \in {"execute", "retry"} /\ to \in EditSteps \cup Settling =>
               /\ r.op = req[q].op /\ r.price = req[q].price
               /\ to \in EditSteps => req[q].step \in EditSteps
               /\ \/ req[q].step \in EditSteps \cup Settling
                  \/ At(q, "sending") /\ req[q].todo = {} /\ ~(Refund(q) > 0)
      PROVE  AccountStep(q)
  <2>1. Moved(q, r, to)
    BY <1>d, <1>m
  <2>2. OnTrack(q)
    BY <1>d, <2>1 DEF Moved, OnTrack, IsRun, SamePrice
  <2> QED  BY <1>d, <1>z, <2>1, <2>2 DEF Moved, AccountStep, Departs, SamePrice
<1>o. ASSUME NEW r \in Request, NEW to \in Steps \ (Unpaid \cup Spending), With(q, r, to),
             r.op = req[q].op, r.price = req[q].price, NothingBooked, Onward(q, to)
      PROVE  AccountStep(q)
  <2>1. EditSteps \cap Settling = {} /\ Off \cap (EditSteps \cup Settling) = {}
    BY DEF EditSteps, Settling, Off
  <2> QED  BY <1>d, <1>o, <2>1 DEF Onward
<1>e. ASSUME NEW to \in Steps \ (Unpaid \cup Spending), With(q, req[q], to), NothingBooked,
             Onward(q, to)
      PROVE  AccountStep(q)
  BY <1>e, <1>o, <1>r
<1>i. ASSUME NEW to \in Off PROVE Onward(q, to)
  BY <1>i DEF Onward
<1>j. \A t \in {"restoring", "unpaid", "rejected", "aborted", "lost"} : t \in Off
  BY DEF Off
<1>n. {"restoring", "finishing", "importing", "replacing", "finding", "updating", "deleting",
       "counting", "emptying", "dropping", "cancelling", "syncing", "synced", "done", "unpaid",
       "rejected", "aborted", "lost"} \subseteq Steps \ (Unpaid \cup Spending)
  BY StepNames DEF Unpaid, Spending
<1>k. /\ \A t \in {"restoring", "finishing", "importing", "replacing", "finding", "updating",
              "deleting", "counting", "emptying", "dropping", "cancelling", "syncing", "synced",
              "done", "unpaid", "rejected", "aborted", "lost"} : t \in Steps \ (Unpaid \cup Spending)
  BY <1>n
<1>2. CASE BeginRequest(q)
  <2>1. PICK op \in Ops : \E to \in FirstSteps(op) :
          to \in Steps /\ Opened(q, op) \in Request /\ QuietMove(q, Opened(q, op), to)
    BY <1>2, <1>r, BeginMoves
  <2>2. PICK to \in FirstSteps(op) :
          to \in Steps /\ Opened(q, op) \in Request /\ QuietMove(q, Opened(q, op), to)
    BY <2>1
  <2>3. /\ Opened(q, op).price = req[q].price /\ Opened(q, op).batch = req[q].batch
        /\ Opened(q, op).todo = req[q].todo /\ Opened(q, op).failed = req[q].failed
    BY <1>r DEF Opened, Request
  <2>4. With(q, Opened(q, op), to) /\ NothingBooked
    BY <2>2 DEF QuietMove, Quiet, NothingBooked, walletVars
  <2>5. CASE to = "picking"
    <3>1. At(q, "idle")
      BY <1>2, <1>r, BeginMoves
    <3>2. Moved(q, Opened(q, op), to)
      BY <1>m, <2>2, <2>4
    <3>3. to \notin EndSteps
      BY <2>5 DEF EndSteps
    <3>4. Starts(q)
      BY <2>3, <2>4, <2>5, <3>1, <3>2, <3>3 DEF Moved, Starts, SameBatch, SamePrice
    <3> QED  BY <1>z, <3>2, <3>4 DEF AccountStep, Moved
  <2>6. CASE to # "picking"
    <3>1. to \in Steps \ (Unpaid \cup Spending)
      BY <2>2, <2>6, <1>k DEF FirstSteps
    <3>2. Opened(q, op).op = op
      BY <1>r DEF Opened, Request
    <3>3. ~(op \in {"execute", "retry"} /\ to \in EditSteps \cup Settling)
      BY <2>6 DEF FirstSteps, EditSteps, Settling
    <3> QED  BY <1>d, <2>2, <2>3, <2>4, <3>1, <3>2, <3>3
  <2> QED  BY <2>5, <2>6
<1>3. CASE PickRows(q)
  <2>1. ASSUME NEW batch \in SUBSET Rows, batch # {}, At(q, "picking"), NothingBooked,
               With(q, [req[q] EXCEPT !.batch = batch, !.todo = batch], "pricing")
        PROVE  AccountStep(q)
    <3> DEFINE r == [req[q] EXCEPT !.batch = batch, !.todo = batch]
    <3>1. r \in Request
      BY <1>r, LocalsTyped
    <3>2. /\ r.batch = batch /\ r.todo = batch /\ r.failed = req[q].failed
          /\ r.price = req[q].price
      BY <1>r DEF Request
    <3> HIDE DEF r
    <3>3. Moved(q, r, "pricing")
      BY <1>m, <2>1, <3>1, StepNames DEF r
    <3>4. Picks(q)
      BY <2>1, <3>2, <3>3 DEF Picks, Moved, SamePrice, EndSteps
    <3> QED  BY <1>z, <3>3, <3>4 DEF AccountStep, Moved
  <2> QED  BY <1>3, <1>e, <1>i, <1>j, <1>k, <2>1 DEF PickRows, NothingBooked, walletVars
<1>4. CASE CheckWallet(q)
  <2>1. PICK p \in Prices : With(q, [req[q] EXCEPT !.price = p],
            IF wallet.exists /\ wallet.balance >= p * Cardinality(req[q].batch)
            THEN "marking" ELSE "rejected")
    BY <1>4 DEF CheckWallet
  <2> DEFINE r == [req[q] EXCEPT !.price = p]
             to == IF wallet.exists /\ wallet.balance >= p * Cardinality(req[q].batch)
                   THEN "marking" ELSE "rejected"
  <2>2. r \in Request
    BY <1>r, CampaignNumbers, LocalsTyped
  <2>3. /\ r.price = p /\ r.batch = req[q].batch /\ r.todo = req[q].todo
        /\ r.failed = req[q].failed
    BY <1>r DEF Request
  <2>4. At(q, "pricing") /\ NothingBooked /\ With(q, r, to) /\ to \in {"marking", "rejected"}
    BY <1>4, <2>1 DEF CheckWallet, NothingBooked, walletVars
  <2> HIDE DEF r, to
  <2>5. CASE to = "rejected"
    <3>1. "rejected" \notin EditSteps \cup Settling
      BY DEF EditSteps, Settling
    <3> QED  BY <1>d, <1>k, <2>2, <2>4, <2>5, <3>1
  <2>6. CASE to = "marking"
    <3>1. Moved(q, r, "marking")
      BY <1>m, <2>2, <2>4, <2>6, StepNames
    <3>2. FindsPrice(q)
      BY <2>3, <2>4, <3>1 DEF FindsPrice, Moved, SameBatch, EndSteps
    <3> QED  BY <1>z, <3>1, <3>2 DEF AccountStep, Moved
  <2> QED  BY <2>4, <2>5, <2>6
<1>5. CASE MarkRunning(q)
  <2>1. /\ At(q, "marking") /\ NothingBooked
        /\ With(q, req[q], IF Exists THEN "holding" ELSE "aborted")
    BY <1>5 DEF MarkRunning, SetCampaign, Goes, NothingBooked, walletVars
  <2>2. CASE Exists
    <3>1. Moved(q, req[q], "holding")
      BY <1>m, <1>r, <2>1, <2>2, StepNames
    <3>2. Prepares(q)
      BY <2>1, <3>1 DEF Prepares, Moved, SameBatch, SamePrice, EndSteps
    <3> QED  BY <1>z, <3>1, <3>2 DEF AccountStep, Moved
  <2>3. CASE ~Exists
    BY <1>e, <1>i, <1>j, <1>k, <2>1, <2>3
  <2> QED  BY <2>2, <2>3
<1>6. CASE ReadForHold(q)
  <2> DEFINE r == [req[q] EXCEPT !.seen = wallet.balance]
  <2>1. r \in Request
    BY <1>r, LocalsTyped
  <2>2. /\ r.batch = req[q].batch /\ r.todo = req[q].todo /\ r.failed = req[q].failed
        /\ r.price = req[q].price /\ r.op = req[q].op
    BY <1>r DEF Request
  <2>3. /\ At(q, "holding") /\ NothingBooked
        /\ With(q, r, IF wallet.balance >= Charge(q) THEN "debiting" ELSE "restoring")
    BY <1>6 DEF ReadForHold, NothingBooked, walletVars
  <2> HIDE DEF r
  <2>4. CASE wallet.balance >= Charge(q)
    <3>1. Moved(q, r, "debiting")
      BY <1>m, <2>1, <2>3, <2>4, StepNames
    <3>2. Prepares(q)
      BY <2>2, <2>3, <3>1 DEF Prepares, Moved, SameBatch, SamePrice, EndSteps
    <3> QED  BY <1>z, <3>1, <3>2 DEF AccountStep, Moved
  <2>5. CASE ~(wallet.balance >= Charge(q))
    BY <1>i, <1>j, <1>k, <1>o, <2>1, <2>2, <2>3, <2>5
  <2> QED  BY <2>4, <2>5
<1>c. Charge(q) \in Int /\ Refund(q) \in Int /\ req[q].seen \in Int
  <2>1. Cardinality(req[q].batch) \in Nat /\ Cardinality(req[q].failed) \in Nat
    BY <1>r, LocalsTyped, SubsetsOfRows
  <2>2. req[q].price \in Nat /\ req[q].seen \in Int
    BY <1>r, LocalsTyped
  <2>3. req[q].price * Cardinality(req[q].batch) \in Nat
        /\ req[q].price * Cardinality(req[q].failed) \in Nat
    BY ONLY <2>1, <2>2, Product
  <2> QED  BY <2>2, <2>3 DEF Charge, Refund
<1>h. ASSUME PostHold(q), SamePrice(q), UNCHANGED <<log, delivered>>
      PROVE  Enters(q, "CAMPAIGN_HOLD", Charge(q))
  <2>1. "CAMPAIGN_HOLD" \in WalletTransactionType /\ req[q].seen - Charge(q) \in Int
    BY <1>c DEF WalletTransactionType
  <2>2. Post("CAMPAIGN_HOLD", q, Charge(q), req[q].seen, req[q].seen - Charge(q))
    BY <1>h DEF PostHold
  <2> QED  BY <1>c, <1>h, <1>r, <2>1, <2>2, PostsOne, Typed DEF Enters
<1>7. CASE CommitHold(q)
  <2>1. /\ At(q, "debiting") /\ Moved(q, req[q], "sending") /\ PostHold(q)
        /\ UNCHANGED <<log, delivered>>
    BY <1>7, <1>m, <1>r, StepNames DEF CommitHold, Goes
  <2>2. Pays(q)
    BY <1>h, <2>1 DEF Pays, Moved, SameBatch, SamePrice, EndSteps
  <2> QED  BY <1>z, <2>1, <2>2 DEF AccountStep, Moved
<1>8. CASE HoldThrows(q)
  <2>1. CASE UNCHANGED walletVars
    BY <1>8, <1>e, <1>i, <1>j, <1>k, <2>1 DEF HoldThrows, Goes, NothingBooked, walletVars
  <2>2. CASE PostHold(q)
    <3>1. /\ At(q, "debiting") /\ Moved(q, req[q], "restoring") /\ UNCHANGED <<log, delivered>>
      BY <1>8, <1>m, <1>r, StepNames DEF HoldThrows, Goes
    <3>2. Pays(q)
      BY <1>h, <2>2, <3>1 DEF Pays, Moved, SamePrice
    <3> QED  BY <1>z, <3>1, <3>2 DEF AccountStep, Moved
  <2> QED  BY <1>8, <2>1, <2>2 DEF HoldThrows
<1>t. ASSUME NEW r \in req[q].todo, NEW to \in {"accepted", "refused"}, At(q, "sending"),
             With(q, [req[q] EXCEPT !.row = r, !.todo = @ \ {r}], to),
             UNCHANGED <<ledger, log>>, UNCHANGED delivered \/ Deliver(r),
             to = "accepted" => Deliver(r)
      PROVE  AccountStep(q)
  <2> DEFINE m == [req[q] EXCEPT !.row = r, !.todo = @ \ {r}]
  <2>1. r \in Rows
    BY <1>r, LocalsTyped
  <2>2. m \in Request
    BY <1>r, <2>1, LocalsTyped
  <2>3. /\ m.row = r /\ m.todo = req[q].todo \ {r} /\ m.batch = req[q].batch
        /\ m.failed = req[q].failed /\ m.price = req[q].price
    BY <1>r DEF Request
  <2> HIDE DEF m
  <2>4. Moved(q, m, to)
    BY <1>m, <1>t, <2>2, StepNames DEF m
  <2>5. Tries(q)
    BY <1>t, <2>3, <2>4 DEF Tries, Moved, SamePrice, EndSteps
  <2> QED  BY <1>z, <2>4, <2>5 DEF AccountStep, Moved
<1>9. CASE DispatchAccepted(q)
  BY <1>9, <1>t DEF DispatchAccepted, walletVars
<1>10. CASE DispatchThrows(q)
  BY <1>10, <1>t DEF DispatchThrows, walletVars
<1>11. CASE RecordSuccess(q)
  <2>1. Moved(q, req[q], "sending")
    BY <1>11, <1>m, <1>r, StepNames DEF RecordSuccess, Goes
  <2>2. req[q].failed \cup {} = req[q].failed
    OBVIOUS
  <2>3. Notes(q, {"SUCCESS"})
    BY <1>11, <2>1, <2>2 DEF RecordSuccess, Goes, At, Notes, Moved, SamePrice, EndSteps, walletVars
  <2> QED  BY <1>z, <2>1, <2>3 DEF AccountStep, Moved
<1>f. ASSUME NEW from \in {"accepted", "refused"}, NEW st \in SUBSET {"SUCCESS", "FAILED"},
             "FAILED" \in st, RecordFailure(q, from, st),
             {"SUCCESS", "FAILED"} \subseteq st => faults' # 0
      PROVE  AccountStep(q)
  <2> DEFINE r == [req[q] EXCEPT !.failed = @ \cup {req[q].row}]
  <2>1. req[q].row \in Rows
    BY <1>f DEF RecordFailure, At, TypeInv, RowChosen, OnARow
  <2>2. req[q].failed \cup {req[q].row} \in SUBSET Rows
    BY <1>r, <2>1, LocalsTyped
  <2>3. r \in Request
    BY <1>r, <2>2, LocalsTyped
  <2>4. /\ r.failed = req[q].failed \cup {req[q].row} /\ r.todo = req[q].todo
        /\ r.batch = req[q].batch /\ r.price = req[q].price
    BY <1>r DEF Request
  <2>5. With(q, r, "sending")
    BY <1>f DEF RecordFailure
  <2> HIDE DEF r
  <2>6. Moved(q, r, "sending")
    BY <1>m, <2>3, <2>5, StepNames
  <2>7. Notes(q, st)
    BY <1>f, <2>4, <2>6 DEF RecordFailure, At, Notes, Moved, SamePrice, EndSteps, walletVars
  <2> QED  BY <1>z, <2>6, <2>7 DEF AccountStep, Moved
<1>12. CASE RecordRefused(q)
  BY <1>12, <1>f DEF RecordRefused
<1>13. CASE RecordThrows(q)
  <2>1. faults' # 0
    BY <1>13, <1>r, CampaignNumbers DEF RecordThrows, CampaignTypeOK
  <2> QED  BY <1>13, <1>f, <2>1 DEF RecordThrows
<1>a. ASSUME NEW to \in {"aborted", "lost"}, With(q, req[q], to),
             NEW st \in SUBSET {"SUCCESS", "FAILED"}, st # {}, Logged(q, st),
             req[q].step \in {"accepted", "refused"}, UNCHANGED <<ledger, delivered>>
      PROVE  AccountStep(q)
  <2>1. Moved(q, req[q], to)
    BY <1>a, <1>m, <1>r, StepNames
  <2>2. Notes(q, st)
    BY <1>a, <2>1 DEF Notes, Moved, SamePrice, EndSteps
  <2> QED  BY <1>z, <2>1, <2>2 DEF AccountStep, Moved
<1>14. CASE RowGone(q)
  BY <1>14, <1>a DEF RowGone, Goes, walletVars
<1>15. CASE ReadForRefund(q)
  <2> DEFINE r == [req[q] EXCEPT !.seen = wallet.balance]
  <2>1. r \in Request
    BY <1>r, LocalsTyped
  <2>2. /\ r.batch = req[q].batch /\ r.todo = req[q].todo /\ r.failed = req[q].failed
        /\ r.price = req[q].price /\ r.op = req[q].op
    BY <1>r DEF Request
  <2>3. /\ At(q, "sending") /\ req[q].todo = {} /\ NothingBooked
        /\ With(q, r, IF Refund(q) > 0 THEN "crediting" ELSE "syncing")
    BY <1>15 DEF ReadForRefund, NothingBooked, walletVars
  <2> HIDE DEF r
  <2>4. CASE Refund(q) > 0
    <3>1. Moved(q, r, "crediting")
      BY <1>m, <2>1, <2>3, <2>4, StepNames
    <3>2. Closes(q)
      BY <2>2, <2>3, <3>1 DEF Closes, Moved, SameBatch, SamePrice, EndSteps
    <3> QED  BY <1>z, <3>1, <3>2 DEF AccountStep, Moved
  <2>5. CASE ~(Refund(q) > 0)
    <3>1. "syncing" \notin EditSteps
      BY DEF EditSteps
    <3> QED  BY <1>d, <1>k, <2>1, <2>2, <2>3, <2>5, <3>1
  <2> QED  BY <2>4, <2>5
<1>16. CASE CommitRefund(q)
  <2>1. /\ At(q, "crediting") /\ Moved(q, req[q], "syncing") /\ UNCHANGED <<log, delivered>>
        /\ Post("CAMPAIGN_REFUND", q, Refund(q), req[q].seen, req[q].seen + Refund(q))
    BY <1>16, <1>m, <1>r, StepNames DEF CommitRefund, Goes
  <2>2. "CAMPAIGN_REFUND" \in WalletTransactionType /\ req[q].seen + Refund(q) \in Int
    BY <1>c DEF WalletTransactionType
  <2>3. SamePrice(q)
    BY <2>1 DEF Moved, SamePrice
  <2>4. Enters(q, "CAMPAIGN_REFUND", Refund(q))
    BY <1>c, <1>r, <2>1, <2>2, <2>3, PostsOne, Typed DEF Enters
  <2> QED  BY <1>z, <2>1, <2>4 DEF GivesBack, AccountStep, Moved
(* The others neither book nor price anything.                             *)
<1>s. ASSUME NEW from, NEW to \in Steps \ (Unpaid \cup Spending), NEW otherwise \in Off, NEW c,
             SetCampaign(q, from, to, otherwise, c), NothingBooked, Onward(q, to)
      PROVE  AccountStep(q)
  <2>1. With(q, req[q], IF Exists THEN to ELSE otherwise)
    BY <1>s DEF SetCampaign, Goes
  <2>2. otherwise \in Steps \ (Unpaid \cup Spending)
    BY <1>k, <1>s DEF Off
  <2> QED  BY <1>e, <1>i, <1>s, <2>1, <2>2
<1>17. CASE RestoreStatus(q)
  BY <1>17, <1>i, <1>j, <1>k, <1>s DEF RestoreStatus, NothingBooked, walletVars
<1>18. CASE FinishRun(q)
  <2>1. Onward(q, "done")
    BY <1>18 DEF FinishRun, SetCampaign, Goes, At, Onward, Settling
  <2> QED  BY <1>18, <1>j, <1>k, <1>s, <2>1 DEF FinishRun, NothingBooked, walletVars
<1>19. CASE BackToDraft(q) \/ CancelCampaign(q) \/ DropCampaign(q)
  <2>1. Onward(q, "done")
    BY <1>19 DEF BackToDraft, CancelCampaign, DropCampaign, SetCampaign, Goes, At, Onward,
                 EditSteps, Settling
  <2>2. NothingBooked
    BY <1>19 DEF BackToDraft, CancelCampaign, DropCampaign, NothingBooked, walletVars
  <2> QED  BY <1>19, <1>j, <1>k, <1>s, <2>1, <2>2 DEF BackToDraft, CancelCampaign, DropCampaign
<1>20. CASE WriteCounters(q)
  <2>1. /\ At(q, "synced") /\ NothingBooked
        /\ With(q, req[q], IF Exists THEN AfterSync(q) ELSE "aborted")
    BY <1>20 DEF WriteCounters, SetCampaign, Goes, NothingBooked, walletVars
  <2>2. AfterSync(q) \in Steps \ (Unpaid \cup Spending)
    BY <1>k DEF AfterSync
  <2>3. CASE ~Exists
    BY <1>e, <1>i, <1>j, <1>k, <2>1, <2>3
  <2>4. CASE Exists /\ req[q].op \notin {"execute", "retry"}
    BY <1>d, <1>r, <2>1, <2>2, <2>4
  <2>5. CASE Exists /\ req[q].op \in {"execute", "retry"}
    <3>1. AfterSync(q) = "finishing"
      BY <2>5 DEF AfterSync
    <3>2. Onward(q, "finishing")
      BY <2>1 DEF Onward, At, Settling
    <3> QED  BY <1>e, <2>1, <2>2, <2>5, <3>1, <3>2
  <2> QED  BY <2>3, <2>4, <2>5
<1>21. CASE CountForSync(q)
  <2> DEFINE r == [req[q] EXCEPT !.counts = CountRows]
  <2>1. r \in Request
    BY <1>r, Counted, LocalsTyped
  <2>2. r.price = req[q].price /\ r.op = req[q].op
    BY <1>r DEF Request
  <2>3. With(q, r, "synced") /\ NothingBooked
    BY <1>21 DEF CountForSync, NothingBooked, walletVars
  <2>4. Onward(q, "synced")
    BY <1>21 DEF CountForSync, At, Onward, Settling
  <2> HIDE DEF r
  <2> QED  BY <1>k, <1>o, <2>1, <2>2, <2>3, <2>4
<1>22. CASE SeeOldRows(q)
  <2> DEFINE r == [req[q] EXCEPT !.batch = {w \in Rows : Live(w)}]
  <2>1. {w \in Rows : Live(w)} \in SUBSET Rows
    OBVIOUS
  <2>2. r \in Request
    BY <1>r, <2>1, LocalsTyped
  <2>3. r.price = req[q].price /\ r.op = req[q].op
    BY <1>r DEF Request
  <2>4. With(q, r, "replacing") /\ NothingBooked
    BY <1>22 DEF SeeOldRows, NothingBooked, walletVars
  <2>5. Onward(q, "replacing")
    BY <1>22 DEF SeeOldRows, At, Onward, EditSteps
  <2> HIDE DEF r
  <2> QED  BY <1>k, <1>o, <2>2, <2>3, <2>4, <2>5
<1>23. CASE CommitImport(q) \/ ImportGone(q) \/ CountRemaining(q) \/ UpdateRow(q) \/ DeleteRow(q)
  <2>1. NothingBooked
    BY <1>23 DEF CommitImport, ImportGone, CountRemaining, UpdateRow, DeleteRow,
                 NothingBooked, walletVars
  <2>2. req[q].step \in EditSteps
    BY <1>23 DEF CommitImport, ImportGone, CountRemaining, UpdateRow, DeleteRow, Goes, At, EditSteps
  <2>3. \E to \in {"done", "aborted", "emptying", "syncing"} : With(q, req[q], to)
    BY <1>23 DEF CommitImport, ImportGone, CountRemaining, UpdateRow, DeleteRow, Goes
  <2>4. \A to \in {"done", "aborted", "emptying", "syncing"} : Onward(q, to)
    BY <2>2 DEF Onward, Off, EditSteps, Settling
  <2> QED  BY <1>e, <1>k, <2>1, <2>3, <2>4
<1>25. CASE FindRow(q)
  <2>1. ASSUME NEW r \in Rows, NEW f \in BOOLEAN, NEW to \in {"updating", "deleting"},
               With(q, [req[q] EXCEPT !.row = r, !.wasFailed = f], to), NothingBooked
        PROVE  AccountStep(q)
    <3>1. [req[q] EXCEPT !.row = r, !.wasFailed = f] \in Request
      BY <1>r, LocalsTyped
    <3>2. /\ [req[q] EXCEPT !.row = r, !.wasFailed = f].price = req[q].price
          /\ [req[q] EXCEPT !.row = r, !.wasFailed = f].op = req[q].op
      BY <1>r DEF Request
    <3>3. Onward(q, to)
      BY <1>25, <2>1 DEF FindRow, At, Onward, EditSteps
    <3> QED  BY <1>k, <1>o, <2>1, <3>1, <3>2, <3>3
  <2> QED  BY <1>25, <1>e, <1>i, <1>j, <1>k, <2>1 DEF FindRow, NothingBooked, walletVars
<1>24. CASE CrashRequest(q)
  BY <1>24, <1>a, <1>e, <1>i, <1>j, <1>k DEF CrashRequest, At, NothingBooked, walletVars
<1> QED
  BY <1>2, <1>3, <1>4, <1>5, <1>6, <1>7, <1>8, <1>9, <1>10, <1>11, <1>12, <1>13, <1>14, <1>15,
     <1>16, <1>17, <1>18, <1>19, <1>20, <1>21, <1>22, <1>23, <1>24, <1>25
  DEF Continue, RunStep, EditStep

-----------------------------------------------------------------------------
(* The account of a request between its steps.  Until it pays, it has      *)
(* neither entry nor log; while it spends, it has one hold, of its whole   *)
(* charge, and has logged just the rows it has done with.                  *)
Tried(q)     == LoggedBy(q, {"SUCCESS", "FAILED"})
FailedOf(q)  == LoggedBy(q, {"FAILED"})
SentBy(q)    == LoggedBy(q, {"SUCCESS"})
InHand(q)    == IF req[q].step \in {"accepted", "refused"} THEN {req[q].row} ELSE {}
AtMostOne(S) == S = {} \/ \E h \in S : S = {h}

UnpaidOK(q) ==
  req[q].step \in Unpaid =>
    /\ Holds(q) = {} /\ Refunds(q) = {} /\ Tried(q) = {}
    /\ req[q].failed = {}
    /\ req[q].step \notin {"idle", "picking"} =>
         req[q].batch # {} /\ req[q].todo = req[q].batch
    /\ req[q].step \in {"marking", "holding", "debiting"} => req[q].price \in Prices

SpendingOK(q) ==
  req[q].step \in Spending =>
    /\ \E h \in Holds(q) : Holds(q) = {h} /\ ledger[h].amount = Charge(q)
    /\ Refunds(q) = {}
    /\ req[q].todo \subseteq req[q].batch
    /\ InHand(q) \subseteq req[q].batch \ req[q].todo
    /\ Tried(q) = req[q].batch \ (req[q].todo \cup InHand(q))
    /\ FailedOf(q) = req[q].failed
    /\ At(q, "crediting") => req[q].todo = {}

AccountOK(q) == /\ UnpaidOK(q) /\ SpendingOK(q)
                /\ AtMostOne(Holds(q)) /\ AtMostOne(Refunds(q))

Accounts == \A q \in Requests : AccountOK(q)

LEMMA EntriesAfter ==
  ASSUME NEW q, NEW type, NEW amount, Enters(q, type, amount), NEW p, NEW t
  PROVE  /\ JournalOf(p, t) \subseteq 1..Len(ledger)
         /\ Len(ledger) + 1 \notin JournalOf(p, t)
         /\ p = q /\ t = type => JournalOf(p, t)' = JournalOf(p, t) \cup {Len(ledger) + 1}
         /\ p # q \/ t # type => JournalOf(p, t)' = JournalOf(p, t)
         /\ \A i \in JournalOf(p, t) : ledger'[i] = ledger[i]
         /\ ledger'[Len(ledger) + 1].amount = amount
BY DEF Enters, JournalOf

LEMMA LogAfter ==
  ASSUME NEW q, NEW st, Logged(q, st), NEW p, NEW statuses
  PROVE  /\ p # q => LoggedBy(p, statuses)' = LoggedBy(p, statuses)
         /\ st \cap statuses = {} => LoggedBy(p, statuses)' = LoggedBy(p, statuses)
         /\ st \cap statuses # {} =>
              LoggedBy(q, statuses)' = LoggedBy(q, statuses) \cup {req[q].row}
<1> DEFINE new == {[req |-> q, row |-> req[q].row, status |-> s] : s \in st}
<1>1. log' = log \cup new
  BY DEF Logged
<1>2. \A e \in new : e.req = q /\ e.row = req[q].row /\ e.status \in st
  OBVIOUS
<1>3. ASSUME NEW s \in st PROVE \E e \in new : e.status = s
  <2>1. [req |-> q, row |-> req[q].row, status |-> s] \in new
    BY <1>3
  <2> HIDE DEF new
  <2> QED  BY <2>1
<1> HIDE DEF new
<1> QED  BY <1>1, <1>2, <1>3 DEF LoggedBy

(* The accounts of the other requests stay as they are.                    *)
LEMMA OthersStay ==
  ASSUME NEW q \in Requests, AccountStep(q), NEW p \in Requests, p # q
  PROVE  /\ req'[p] = req[p]
         /\ Holds(p)' = Holds(p) /\ Refunds(p)' = Refunds(p)
         /\ Tried(p)' = Tried(p) /\ FailedOf(p)' = FailedOf(p) /\ SentBy(p)' = SentBy(p)
         /\ \A i \in Holds(p) \cup Refunds(p) : ledger'[i] = ledger[i]
<1>1. req'[p] = req[p]
  BY DEF AccountStep
<1>2. CASE UNCHANGED <<ledger, log>>
  BY <1>1, <1>2 DEF Holds, Refunds, JournalOf, Tried, FailedOf, SentBy, LoggedBy
<1>3. ASSUME NEW type, NEW amount, Enters(q, type, amount)
      PROVE  /\ Holds(p)' = Holds(p) /\ Refunds(p)' = Refunds(p)
             /\ Tried(p)' = Tried(p) /\ FailedOf(p)' = FailedOf(p) /\ SentBy(p)' = SentBy(p)
             /\ \A i \in Holds(p) \cup Refunds(p) : ledger'[i] = ledger[i]
  <2>1. UNCHANGED log
    BY <1>3 DEF Enters
  <2>2. Tried(p)' = Tried(p) /\ FailedOf(p)' = FailedOf(p) /\ SentBy(p)' = SentBy(p)
    BY <2>1 DEF Tried, FailedOf, SentBy, LoggedBy
  <2> QED  BY <1>3, <2>2, EntriesAfter DEF Holds, Refunds
<1>4. ASSUME NEW st, Notes(q, st)
      PROVE  /\ Holds(p)' = Holds(p) /\ Refunds(p)' = Refunds(p)
             /\ Tried(p)' = Tried(p) /\ FailedOf(p)' = FailedOf(p) /\ SentBy(p)' = SentBy(p)
             /\ \A i \in Holds(p) \cup Refunds(p) : ledger'[i] = ledger[i]
  <2>1. UNCHANGED ledger /\ Logged(q, st)
    BY <1>4 DEF Notes
  <2>2. Holds(p)' = Holds(p) /\ Refunds(p)' = Refunds(p)
    BY <2>1 DEF Holds, Refunds, JournalOf
  <2> QED  BY <2>1, <2>2, LogAfter DEF Tried, FailedOf, SentBy
<1> QED  BY <1>1, <1>2, <1>3, <1>4
         DEF AccountStep, Departs, Starts, Picks, FindsPrice, Prepares, Pays, Tries, Closes,
             GivesBack, NothingBooked

LEMMA AccountsInit == SharedInit => Accounts
<1> SUFFICES ASSUME SharedInit, NEW q \in Requests PROVE AccountOK(q)
  BY DEF Accounts
<1>1. /\ req[q].step = "idle" /\ req[q].failed = {} /\ ledger = <<>> /\ log = {}
  BY DEF SharedInit, CampaignStart, NewRequest
<1>2. Holds(q) = {} /\ Refunds(q) = {} /\ Tried(q) = {}
  BY <1>1 DEF Holds, Refunds, JournalOf, Tried, LoggedBy
<1> QED  BY <1>1, <1>2 DEF AccountOK, UnpaidOK, SpendingOK, Spending, AtMostOne

LEMMA AccountsStep ==
  ASSUME TypeInv, TypeInv', Accounts, NEW q \in Requests, AccountStep(q)
  PROVE  Accounts'
<1> SUFFICES ASSUME NEW p \in Requests PROVE AccountOK(p)'
  BY DEF Accounts
<1>1. CASE p # q
  <2>1. /\ req'[p] = req[p]
        /\ Holds(p)' = Holds(p) /\ Refunds(p)' = Refunds(p)
        /\ Tried(p)' = Tried(p) /\ FailedOf(p)' = FailedOf(p)
        /\ \A i \in Holds(p) \cup Refunds(p) : ledger'[i] = ledger[i]
    BY <1>1, OthersStay
  <2>2. AccountOK(p)
    BY DEF Accounts
  <2>3. UnpaidOK(p)'
    BY <2>1, <2>2 DEF AccountOK, UnpaidOK
  <2>4. SpendingOK(p)'
    <3>1. InHand(p)' = InHand(p) /\ Charge(p)' = Charge(p)
      BY <2>1 DEF InHand, Charge
    <3> QED  BY <2>1, <2>2, <3>1 DEF AccountOK, SpendingOK, At
  <2> QED  BY <2>1, <2>2, <2>3, <2>4 DEF AccountOK, AtMostOne
<1>q. AccountOK(q)
  BY DEF Accounts
<1> SUFFICES AccountOK(q)'
  BY <1>1
<1>r. /\ req[q] \in Request /\ req'[q] \in Request
  BY Typed DEF TypeInv, CampaignTypeOK
<1>2. CASE Departs(q)
  <2>1. Holds(q)' = Holds(q) /\ Refunds(q)' = Refunds(q)
    BY <1>2 DEF Departs, NothingBooked, Holds, Refunds, JournalOf
  <2> QED  BY <1>2, <1>q, <2>1 DEF Departs, AccountOK, UnpaidOK, SpendingOK, AtMostOne
(* Steps that book nothing and do not depart.                              *)
<1>b. ASSUME NothingBooked
      PROVE  /\ Holds(q)' = Holds(q) /\ Refunds(q)' = Refunds(q)
             /\ Tried(q)' = Tried(q) /\ FailedOf(q)' = FailedOf(q)
             /\ ledger' = ledger
  BY <1>b DEF NothingBooked, Holds, Refunds, JournalOf, Tried, FailedOf, LoggedBy
<1>3. CASE Starts(q) \/ Picks(q) \/ FindsPrice(q) \/ Prepares(q)
  <2>1. NothingBooked
    BY <1>3 DEF Starts, Picks, FindsPrice, Prepares
  <2>2. req[q].step \in Unpaid /\ req'[q].step \in Unpaid /\ req'[q].step \notin Spending
    BY <1>3 DEF Starts, Picks, FindsPrice, Prepares, At, Unpaid, Spending
  <2>3. UnpaidOK(q)'
    <3>1. /\ Holds(q)' = {} /\ Refunds(q)' = {} /\ Tried(q)' = {}
      BY <1>b, <1>q, <2>1, <2>2 DEF AccountOK, UnpaidOK
    <3>2. req'[q].failed = {}
      BY <1>3, <1>q, <2>2 DEF AccountOK, UnpaidOK, Starts, Picks, FindsPrice, Prepares, SameBatch
    <3>3. req'[q].step \notin {"idle", "picking"} =>
            req'[q].batch # {} /\ req'[q].todo = req'[q].batch
      BY <1>3, <1>q, <2>2
         DEF AccountOK, UnpaidOK, Starts, Picks, FindsPrice, Prepares, SameBatch, At
    <3>4. req'[q].step \in {"marking", "holding", "debiting"} => req'[q].price \in Prices
      BY <1>3, <1>q, <2>2
         DEF AccountOK, UnpaidOK, Starts, Picks, FindsPrice, Prepares, SamePrice, At
    <3> QED  BY <3>1, <3>2, <3>3, <3>4 DEF UnpaidOK
  <2>4. AtMostOne(Holds(q))' /\ AtMostOne(Refunds(q))'
    BY <1>b, <1>q, <2>1 DEF AccountOK, AtMostOne
  <2> QED  BY <2>2, <2>3, <2>4 DEF AccountOK, SpendingOK
<1>4. CASE Pays(q)
  <2>1. /\ Holds(q) = {} /\ Refunds(q) = {} /\ Tried(q) = {} /\ req[q].failed = {}
        /\ req[q].todo = req[q].batch
    BY <1>4, <1>q DEF Pays, At, AccountOK, UnpaidOK, Unpaid
  <2> DEFINE h == Len(ledger) + 1
  <2>2. /\ Holds(q)' = {h} /\ Refunds(q)' = {} /\ ledger'[h].amount = Charge(q)
    BY <1>4, <2>1, EntriesAfter DEF Pays, Holds, Refunds
  <2>3. UNCHANGED log
    BY <1>4 DEF Pays, Enters
  <2>4. Tried(q)' = {} /\ FailedOf(q)' = {}
    BY <2>1, <2>3 DEF Tried, FailedOf, LoggedBy
  <2> HIDE DEF h
  <2>5. SpendingOK(q)'
    <3> SUFFICES ASSUME req'[q].step \in Spending PROVE SpendingOK(q)'
      BY DEF SpendingOK
    <3>1. req'[q].step = "sending" /\ SameBatch(q) /\ SamePrice(q)
      BY <1>4 DEF Pays, Spending, Enters
    <3>2. Charge(q)' = Charge(q) /\ InHand(q)' = {}
      BY <3>1 DEF Charge, InHand, SameBatch, SamePrice
    <3> QED  BY <2>1, <2>2, <2>4, <3>1, <3>2 DEF SpendingOK, SameBatch, At
  <2>6. req'[q].step \notin Unpaid
    BY <1>4 DEF Pays, Unpaid
  <2> QED  BY <2>2, <2>5, <2>6 DEF AccountOK, UnpaidOK, AtMostOne
<1>5. CASE Tries(q) \/ Closes(q)
  <2>1. UNCHANGED <<ledger, log>> /\ SamePrice(q) /\ req'[q].batch = req[q].batch
        /\ req'[q].failed = req[q].failed
    BY <1>5 DEF Tries, Closes, NothingBooked, SameBatch
  <2>2. /\ Holds(q)' = Holds(q) /\ Refunds(q)' = Refunds(q)
        /\ Tried(q)' = Tried(q) /\ FailedOf(q)' = FailedOf(q)
    BY <2>1 DEF Holds, Refunds, JournalOf, Tried, FailedOf, LoggedBy
  <2>3. At(q, "sending") /\ req[q].step \in Spending /\ InHand(q) = {}
    BY <1>5 DEF Tries, Closes, At, Spending, InHand
  <2>4. req'[q].step \in Spending /\ req'[q].step \notin Unpaid
    BY <1>5 DEF Tries, Closes, Spending, Unpaid
  <2>5. Charge(q)' = Charge(q)
    BY <2>1 DEF Charge, SamePrice
  <2>6. /\ req'[q].todo \subseteq req'[q].batch
        /\ InHand(q)' \subseteq req'[q].batch \ req'[q].todo
        /\ req'[q].todo \cup InHand(q)' = req[q].todo
        /\ At(q, "crediting")' => req'[q].todo = {}
    <3>1. req[q].todo \subseteq req[q].batch
      BY <1>q, <2>3 DEF AccountOK, SpendingOK
    <3>2. CASE Tries(q)
      BY <2>1, <3>1, <3>2 DEF Tries, InHand, At
    <3>3. CASE Closes(q)
      BY <2>1, <3>1, <3>3 DEF Closes, InHand, At, SameBatch
    <3> QED  BY <1>5, <3>2, <3>3
  <2>7. SpendingOK(q)'
    BY <1>q, <2>1, <2>2, <2>3, <2>5, <2>6 DEF AccountOK, SpendingOK
  <2> QED  BY <1>q, <2>2, <2>4, <2>7 DEF AccountOK, UnpaidOK, AtMostOne
<1>6. ASSUME NEW st \in SUBSET {"SUCCESS", "FAILED"}, Notes(q, st) PROVE AccountOK(q)'
  <2>1. UNCHANGED ledger /\ SamePrice(q) /\ Logged(q, st) /\ st # {}
    BY <1>6 DEF Notes
  <2>2. Holds(q)' = Holds(q) /\ Refunds(q)' = Refunds(q)
    BY <2>1 DEF Holds, Refunds, JournalOf
  <2>3. Tried(q)' = Tried(q) \cup {req[q].row}
    <3>1. st \cap {"SUCCESS", "FAILED"} # {}
      BY <2>1
    <3> QED  BY <2>1, <3>1, LogAfter DEF Tried
  <2>4. FailedOf(q)' = FailedOf(q) \cup (IF "FAILED" \in st THEN {req[q].row} ELSE {})
    <3>1. CASE "FAILED" \in st
      <4>1. st \cap {"FAILED"} # {}
        BY <3>1
      <4> QED  BY <2>1, <3>1, <4>1, LogAfter DEF FailedOf
    <3>2. CASE "FAILED" \notin st
      <4>1. st \cap {"FAILED"} = {}
        BY <3>2
      <4> QED  BY <2>1, <3>2, <4>1, LogAfter DEF FailedOf
    <3> QED  BY <3>1, <3>2
  <2>5. req[q].step \in Spending /\ InHand(q) = {req[q].row}
    BY <1>6 DEF Notes, Spending, InHand
  <2>6. CASE req'[q].step \in {"aborted", "lost"}
    <3>1. req'[q].step \notin Unpaid \cup Spending
      BY <2>6 DEF Unpaid, Spending
    <3> QED  BY <1>q, <2>2, <3>1 DEF AccountOK, UnpaidOK, SpendingOK, AtMostOne
  <2>7. CASE req'[q].step \notin {"aborted", "lost"}
    <3>1. /\ req'[q].step = "sending"
          /\ req'[q].batch = req[q].batch /\ req'[q].todo = req[q].todo
          /\ req'[q].failed = req[q].failed \cup (IF "FAILED" \in st THEN {req[q].row} ELSE {})
      BY <1>6, <2>7 DEF Notes
    <3>2. Charge(q)' = Charge(q) /\ InHand(q)' = {}
      BY <2>1, <3>1 DEF Charge, SamePrice, InHand
    <3>3. /\ {req[q].row} \subseteq req[q].batch \ req[q].todo
          /\ Tried(q) = req[q].batch \ (req[q].todo \cup {req[q].row})
          /\ FailedOf(q) = req[q].failed /\ req[q].todo \subseteq req[q].batch
      BY <1>q, <2>5 DEF AccountOK, SpendingOK
    <3>4. Tried(q)' = req'[q].batch \ (req'[q].todo \cup InHand(q)')
      BY <2>3, <3>1, <3>2, <3>3
    <3>5. \E h \in Holds(q)' : Holds(q)' = {h} /\ ledger'[h].amount = Charge(q)'
      BY <1>q, <2>1, <2>2, <2>5, <3>2 DEF AccountOK, SpendingOK
    <3>6. Refunds(q)' = {}
      BY <1>q, <2>2, <2>5 DEF AccountOK, SpendingOK
    <3>7. SpendingOK(q)'
      BY <2>4, <3>1, <3>2, <3>3, <3>4, <3>5, <3>6 DEF SpendingOK, At
    <3> QED  BY <1>q, <2>2, <3>1, <3>7 DEF AccountOK, UnpaidOK, Unpaid, AtMostOne
  <2> QED  BY <2>6, <2>7
<1>7. CASE GivesBack(q)
  <2>1. Refunds(q) = {}
    BY <1>7, <1>q DEF GivesBack, At, AccountOK, SpendingOK, Spending
  <2>2. Holds(q)' = Holds(q) /\ Refunds(q)' = {Len(ledger) + 1}
    BY <1>7, <2>1, EntriesAfter DEF GivesBack, Holds, Refunds
  <2>3. req'[q].step \notin Unpaid \cup Spending
    BY <1>7 DEF GivesBack, Unpaid, Spending
  <2> QED  BY <1>q, <2>2, <2>3 DEF AccountOK, UnpaidOK, SpendingOK, AtMostOne
<1> QED  BY <1>2, <1>3, <1>4, <1>5, <1>6, <1>7 DEF AccountStep

-----------------------------------------------------------------------------
(* A run as a prepaid batch                                                *)

PriceOf    == [q \in Requests |-> IF Holds(q) = {} THEN 0 ELSE req[q].price]
HeldOf     == [q \in Requests |-> AmountOf(Holds(q))]
TriedOf    == [q \in Requests |-> Tried(q)]
FailedRows == [q \in Requests |-> FailedOf(q)]
RefundOf   == [q \in Requests |-> AmountOf(Refunds(q))]

LEMMA Amounts ==
  ASSUME NEW p, NEW type, NEW h
  PROVE  /\ JournalOf(p, type) = {} => AmountOf(JournalOf(p, type)) = -1
         /\ JournalOf(p, type) = {h} => AmountOf(JournalOf(p, type)) = ledger[h].amount
         /\ JournalOf(p, type)' = {} => AmountOf(JournalOf(p, type))' = -1
         /\ JournalOf(p, type)' = {h} => AmountOf(JournalOf(p, type))' = ledger'[h].amount
<1>1. ASSUME JournalOf(p, type) = {h}
      PROVE  AmountOf(JournalOf(p, type)) = ledger[h].amount
  <2>1. TheEntry(JournalOf(p, type)) = h
    BY <1>1 DEF TheEntry
  <2> QED  BY <1>1, <2>1 DEF AmountOf
<1>2. ASSUME JournalOf(p, type)' = {h}
      PROVE  AmountOf(JournalOf(p, type))' = ledger'[h].amount
  <2>1. TheEntry(JournalOf(p, type))' = h
    BY <1>2 DEF TheEntry
  <2> QED  BY <1>2, <2>1 DEF AmountOf
<1> QED  BY <1>1, <1>2 DEF AmountOf

LEMMA SameAmount ==
  ASSUME NEW p, NEW type, AtMostOne(JournalOf(p, type)),
         JournalOf(p, type)' = JournalOf(p, type),
         \A i \in JournalOf(p, type) : ledger'[i] = ledger[i]
  PROVE  AmountOf(JournalOf(p, type))' = AmountOf(JournalOf(p, type))
<1>1. CASE JournalOf(p, type) = {}
  BY <1>1, Amounts
<1>2. CASE JournalOf(p, type) # {}
  <2>1. PICK h \in JournalOf(p, type) : JournalOf(p, type) = {h}
    BY <1>2 DEF AtMostOne
  <2> QED  BY <2>1, Amounts
<1> QED  BY <1>1, <1>2

(* What a step of q leaves of the other runs.                              *)
OthersBatch(q) ==
  \A p \in Requests \ {q} :
    /\ PriceOf'[p] = PriceOf[p] /\ HeldOf'[p] = HeldOf[p] /\ RefundOf'[p] = RefundOf[p]
    /\ TriedOf'[p] = TriedOf[p] /\ FailedRows'[p] = FailedRows[p]

LEMMA OthersBatchStays ==
  ASSUME Accounts, NEW q \in Requests, AccountStep(q)
  PROVE  OthersBatch(q)
<1> SUFFICES ASSUME NEW p \in Requests \ {q}
             PROVE  /\ PriceOf'[p] = PriceOf[p] /\ HeldOf'[p] = HeldOf[p]
                    /\ RefundOf'[p] = RefundOf[p]
                    /\ TriedOf'[p] = TriedOf[p] /\ FailedRows'[p] = FailedRows[p]
  BY DEF OthersBatch
<1>1. /\ req'[p] = req[p]
      /\ Holds(p)' = Holds(p) /\ Refunds(p)' = Refunds(p)
      /\ Tried(p)' = Tried(p) /\ FailedOf(p)' = FailedOf(p)
      /\ \A i \in Holds(p) \cup Refunds(p) : ledger'[i] = ledger[i]
  BY OthersStay
<1>2. AtMostOne(Holds(p)) /\ AtMostOne(Refunds(p))
  BY DEF Accounts, AccountOK
<1>3. AmountOf(Holds(p))' = AmountOf(Holds(p)) /\ AmountOf(Refunds(p))' = AmountOf(Refunds(p))
  BY <1>1, <1>2, SameAmount DEF Holds, Refunds
<1> QED  BY <1>1, <1>3 DEF PriceOf, HeldOf, RefundOf, TriedOf, FailedRows

LEMMA SameCardinality == \A S : Batches!Cardinality(S) = Cardinality(S)
BY DEF Batches!Cardinality, Cardinality

(* The actions of the abstract run, in terms of its variables here.        *)
LEMMA BatchVars ==
  /\ Batches!vars = <<PriceOf, HeldOf, TriedOf, FailedRows, RefundOf, delivered>>
  /\ Batches!vars' = <<PriceOf, HeldOf, TriedOf, FailedRows, RefundOf, delivered>>'
BY DEF Batches!vars, PriceOf, HeldOf, TriedOf, FailedRows, RefundOf, Tried, FailedOf

LEMMA BatchHold ==
  ASSUME NEW q \in Requests, HeldOf[q] = -1,
         NEW p \in Prices, NEW n \in 1..Cardinality(Rows),
         PriceOf' = [PriceOf EXCEPT ![q] = p], HeldOf' = [HeldOf EXCEPT ![q] = p * n],
         UNCHANGED <<TriedOf, FailedRows, RefundOf, delivered>>
  PROVE  Batches!Next
<1>1. Batches!Hold(q)
  BY SameCardinality DEF Batches!Hold, Batches!NotYet, PriceOf, HeldOf, TriedOf, FailedRows, RefundOf, Tried,
         FailedOf
<1> QED  BY <1>1 DEF Batches!Next

LEMMA BatchPaid ==
  ASSUME NEW q \in Requests, HeldOf[q] # -1, RefundOf[q] = -1
  PROVE  Batches!Paid(q)
BY DEF Batches!Paid, Batches!NotYet, HeldOf, RefundOf

LEMMA BatchDeliver ==
  ASSUME NEW q \in Requests, Batches!Paid(q),
         PriceOf[q] * (Cardinality(TriedOf[q]) + 1) <= HeldOf[q],
         NEW r \in Rows, r \notin TriedOf[q], delivered' = [delivered EXCEPT ![r] = @ + 1],
         UNCHANGED <<PriceOf, HeldOf, TriedOf, FailedRows, RefundOf>>
  PROVE  Batches!Next
<1>1. Batches!Deliver(q)
  BY SameCardinality DEF Batches!Deliver, Batches!Covers, PriceOf, HeldOf, TriedOf, FailedRows, RefundOf, Tried,
         FailedOf
<1> QED  BY <1>1 DEF Batches!Next

LEMMA BatchRecord ==
  ASSUME NEW q \in Requests, Batches!Paid(q),
         PriceOf[q] * (Cardinality(TriedOf[q]) + 1) <= HeldOf[q],
         NEW r \in Rows, r \notin TriedOf[q],
         TriedOf' = [TriedOf EXCEPT ![q] = @ \cup {r}],
         FailedRows' \in {FailedRows, [FailedRows EXCEPT ![q] = @ \cup {r}]},
         UNCHANGED <<PriceOf, HeldOf, RefundOf, delivered>>
  PROVE  Batches!Next
<1>1. Batches!Record(q)
  BY SameCardinality DEF Batches!Record, Batches!Covers, PriceOf, HeldOf, TriedOf, FailedRows, RefundOf, Tried,
         FailedOf
<1> QED  BY <1>1 DEF Batches!Next

LEMMA BatchRefund ==
  ASSUME NEW q \in Requests, Batches!Paid(q),
         HeldOf[q] = PriceOf[q] * Cardinality(TriedOf[q]),
         RefundOf' = [RefundOf EXCEPT ![q] = PriceOf[q] * Cardinality(FailedRows[q])],
         UNCHANGED <<PriceOf, HeldOf, TriedOf, FailedRows, delivered>>
  PROVE  Batches!Next
<1>1. Batches!Refund(q)
  BY SameCardinality DEF Batches!Refund, PriceOf, HeldOf, TriedOf, FailedRows, RefundOf, Tried, FailedOf
<1> QED  BY <1>1 DEF Batches!Next

(* A function that differs at q only.                                      *)
LEMMA Elsewhere ==
  ASSUME NEW f, NEW g, f = [p \in Requests |-> f[p]], g = [p \in Requests |-> g[p]],
         NEW q \in Requests, \A p \in Requests \ {q} : g[p] = f[p]
  PROVE  /\ g[q] = f[q] => g = f
         /\ \A v : g[q] = v => g = [f EXCEPT ![q] = v]
OBVIOUS

LEMMA BatchAt ==
  ASSUME NEW q \in Requests, OthersBatch(q)
  PROVE  /\ PriceOf'[q] = PriceOf[q] => PriceOf' = PriceOf
         /\ HeldOf'[q] = HeldOf[q] => HeldOf' = HeldOf
         /\ TriedOf'[q] = TriedOf[q] => TriedOf' = TriedOf
         /\ FailedRows'[q] = FailedRows[q] => FailedRows' = FailedRows
         /\ RefundOf'[q] = RefundOf[q] => RefundOf' = RefundOf
         /\ PriceOf' = [PriceOf EXCEPT ![q] = PriceOf'[q]]
         /\ HeldOf' = [HeldOf EXCEPT ![q] = HeldOf'[q]]
         /\ TriedOf' = [TriedOf EXCEPT ![q] = TriedOf'[q]]
         /\ FailedRows' = [FailedRows EXCEPT ![q] = FailedRows'[q]]
         /\ RefundOf' = [RefundOf EXCEPT ![q] = RefundOf'[q]]
<1>1. PriceOf = [p \in Requests |-> PriceOf[p]] /\ PriceOf' = [p \in Requests |-> PriceOf'[p]]
  BY DEF PriceOf
<1>2. HeldOf = [p \in Requests |-> HeldOf[p]] /\ HeldOf' = [p \in Requests |-> HeldOf'[p]]
  BY DEF HeldOf
<1>3. TriedOf = [p \in Requests |-> TriedOf[p]] /\ TriedOf' = [p \in Requests |-> TriedOf'[p]]
  BY DEF TriedOf
<1>4. /\ FailedRows = [p \in Requests |-> FailedRows[p]]
      /\ FailedRows' = [p \in Requests |-> FailedRows'[p]]
  BY DEF FailedRows
<1>5. RefundOf = [p \in Requests |-> RefundOf[p]] /\ RefundOf' = [p \in Requests |-> RefundOf'[p]]
  BY DEF RefundOf
<1>6. \A p \in Requests \ {q} :
        /\ PriceOf'[p] = PriceOf[p] /\ HeldOf'[p] = HeldOf[p] /\ RefundOf'[p] = RefundOf[p]
        /\ TriedOf'[p] = TriedOf[p] /\ FailedRows'[p] = FailedRows[p]
  BY DEF OthersBatch
<1>7. PriceOf' = [PriceOf EXCEPT ![q] = PriceOf'[q]] /\ (PriceOf'[q] = PriceOf[q] => PriceOf' = PriceOf)
  BY ONLY <1>1, <1>6, Elsewhere, q \in Requests
<1>8. HeldOf' = [HeldOf EXCEPT ![q] = HeldOf'[q]] /\ (HeldOf'[q] = HeldOf[q] => HeldOf' = HeldOf)
  BY ONLY <1>2, <1>6, Elsewhere, q \in Requests
<1>9. TriedOf' = [TriedOf EXCEPT ![q] = TriedOf'[q]] /\ (TriedOf'[q] = TriedOf[q] => TriedOf' = TriedOf)
  BY ONLY <1>3, <1>6, Elsewhere, q \in Requests
<1>10. /\ FailedRows' = [FailedRows EXCEPT ![q] = FailedRows'[q]]
       /\ FailedRows'[q] = FailedRows[q] => FailedRows' = FailedRows
  BY ONLY <1>4, <1>6, Elsewhere, q \in Requests
<1>11. /\ RefundOf' = [RefundOf EXCEPT ![q] = RefundOf'[q]]
       /\ RefundOf'[q] = RefundOf[q] => RefundOf' = RefundOf
  BY ONLY <1>5, <1>6, Elsewhere, q \in Requests
<1> QED  BY <1>7, <1>8, <1>9, <1>10, <1>11

LEMMA BatchInit == SharedInit => Batches!Init
<1> SUFFICES ASSUME SharedInit PROVE Batches!Init
  OBVIOUS
<1>1. ledger = <<>> /\ log = {} /\ delivered = [r \in Rows |-> 0]
  BY DEF SharedInit, CampaignStart
<1>2. \A q, statuses : LoggedBy(q, statuses) = {}
  BY <1>1 DEF LoggedBy
<1>3. \A q \in Requests : Holds(q) = {} /\ Refunds(q) = {}
  BY <1>1 DEF Holds, Refunds, JournalOf
<1>4. \A q \in Requests : AmountOf(Holds(q)) = -1 /\ AmountOf(Refunds(q)) = -1
  BY <1>3, Amounts DEF Holds, Refunds
<1> QED  BY <1>1, <1>2, <1>3, <1>4 DEF Batches!Init, Batches!NotYet

(* What was paid covers one more row than those tried.                     *)
LEMMA OneMoreIsCovered ==
  ASSUME NEW price \in Nat, NEW batch \in SUBSET Rows, NEW tried \in SUBSET batch,
         NEW r \in batch, r \notin tried
  PROVE  price * (Cardinality(tried) + 1) <= price * Cardinality(batch)
<1>1. IsFiniteSet(tried) /\ IsFiniteSet(batch) /\ tried \cup {r} \subseteq batch
  BY SubsetsOfRows
<1>2. Cardinality(tried \cup {r}) = Cardinality(tried) + 1
  BY <1>1, FS_AddElement
<1>3. Cardinality(tried \cup {r}) <= Cardinality(batch)
  BY <1>1, FS_Subset
<1>4. Cardinality(tried) \in Nat /\ Cardinality(batch) \in Nat
  BY <1>1, FS_CardinalityType
<1> DEFINE a == Cardinality(tried) + 1
           b == Cardinality(batch)
<1>5. a \in Nat /\ b \in Nat /\ a <= b
  BY <1>2, <1>3, <1>4
<1> HIDE DEF a, b
<1>6. price * a <= price * b
  <2>1. PICK d \in Nat : b = a + d
    <3>1. b - a \in Nat /\ b = a + (b - a)
      BY <1>5
    <3> QED  BY <3>1
  <2>2. price * (a + d) = price * a + price * d
    BY <1>5
  <2>3. price * a \in Nat /\ price * d \in Nat
    BY <1>5, Product
  <2> QED  BY <2>1, <2>2, <2>3
<1> QED  BY <1>6 DEF a, b

(* Every step of a request is a step of its prepaid batch, or none.        *)
LEMMA BatchStep ==
  ASSUME TypeInv, TypeInv', Accounts, NEW q \in Requests, AccountStep(q)
  PROVE  Batches!Next \/ UNCHANGED Batches!vars
<1>q. AccountOK(q) /\ OthersBatch(q)
  BY OthersBatchStays DEF Accounts
<1>r. /\ req[q] \in Request /\ req'[q] \in Request /\ delivered \in [Rows -> Nat]
      /\ req[q].price \in Nat /\ req[q].batch \in SUBSET Rows
  BY Typed, LocalsTyped DEF TypeInv, CampaignTypeOK
<1>v. /\ PriceOf[q] = (IF Holds(q) = {} THEN 0 ELSE req[q].price)
      /\ PriceOf'[q] = (IF Holds(q)' = {} THEN 0 ELSE req'[q].price)
      /\ HeldOf[q] = AmountOf(Holds(q)) /\ HeldOf'[q] = AmountOf(Holds(q))'
      /\ RefundOf[q] = AmountOf(Refunds(q)) /\ RefundOf'[q] = AmountOf(Refunds(q))'
      /\ TriedOf[q] = Tried(q) /\ TriedOf'[q] = Tried(q)'
      /\ FailedRows[q] = FailedOf(q) /\ FailedRows'[q] = FailedOf(q)'
  BY DEF PriceOf, HeldOf, TriedOf, FailedRows, RefundOf
(* Neither journal nor log change: no variable but delivered does.         *)
<1>u. ASSUME UNCHANGED <<ledger, log>>, SamePrice(q) \/ At(q, "pricing")
      PROVE  UNCHANGED <<PriceOf, HeldOf, TriedOf, FailedRows, RefundOf>>
  <2>1. /\ Holds(q)' = Holds(q) /\ Refunds(q)' = Refunds(q)
        /\ Tried(q)' = Tried(q) /\ FailedOf(q)' = FailedOf(q)
    BY <1>u DEF Holds, Refunds, JournalOf, Tried, FailedOf, LoggedBy
  <2>2. AmountOf(Holds(q))' = AmountOf(Holds(q)) /\ AmountOf(Refunds(q))' = AmountOf(Refunds(q))
    BY <1>u, <1>q, <2>1, SameAmount DEF AccountOK, Holds, Refunds
  <2>3. SamePrice(q) \/ Holds(q) = {}
    BY <1>u, <1>q DEF AccountOK, UnpaidOK, Unpaid, At
  <2>4. PriceOf'[q] = PriceOf[q]
    BY <1>v, <2>1, <2>3 DEF SamePrice
  <2> QED  BY <1>q, <1>v, <2>1, <2>2, <2>4, BatchAt
(* While it spends, a run is paid and its hold is its charge.              *)
<1>s. ASSUME req[q].step \in Spending
      PROVE  /\ Batches!Paid(q) /\ PriceOf[q] = req[q].price /\ RefundOf[q] = -1
             /\ HeldOf[q] = req[q].price * Cardinality(req[q].batch)
             /\ Tried(q) \in SUBSET req[q].batch
  <2>1. PICK h \in Holds(q) : Holds(q) = {h} /\ ledger[h].amount = Charge(q)
    BY <1>s, <1>q DEF AccountOK, SpendingOK
  <2>2. Refunds(q) = {} /\ Tried(q) \in SUBSET req[q].batch
    BY <1>s, <1>q DEF AccountOK, SpendingOK
  <2>3. HeldOf[q] = Charge(q) /\ RefundOf[q] = -1
    BY <1>v, <2>1, <2>2, Amounts DEF Holds, Refunds
  <2>4. Charge(q) \in Nat
    <3>1. Cardinality(req[q].batch) \in Nat
      BY <1>r, SubsetsOfRows
    <3> QED  BY ONLY <1>r, <3>1, Product DEF Charge
  <2>5. Charge(q) # -1
    BY <2>4
  <2>6. Batches!Paid(q)
    BY <2>3, <2>5, BatchPaid
  <2> QED  BY <1>v, <2>1, <2>2, <2>3, <2>6 DEF Charge
<1>1. CASE Departs(q) \/ Starts(q) \/ Picks(q) \/ FindsPrice(q) \/ Prepares(q) \/ Closes(q)
  <2>1. NothingBooked /\ (SamePrice(q) \/ At(q, "pricing"))
    BY <1>1 DEF Departs, Starts, Picks, FindsPrice, Prepares, Closes
  <2> QED  BY <1>u, <2>1, BatchVars DEF NothingBooked
<1>2. CASE Pays(q)
  <2>1. /\ Holds(q) = {} /\ Refunds(q) = {} /\ req[q].price \in Prices
        /\ req[q].todo = req[q].batch /\ req[q].batch # {}
    BY <1>2, <1>q DEF Pays, At, AccountOK, UnpaidOK, Unpaid
  <2> DEFINE h == Len(ledger) + 1
             n == Cardinality(req[q].batch)
  <2>2. /\ Holds(q)' = {h} /\ Refunds(q)' = {} /\ ledger'[h].amount = Charge(q)
        /\ UNCHANGED <<log, delivered>> /\ SamePrice(q)
    BY <1>2, <2>1, EntriesAfter DEF Pays, Holds, Refunds, Enters
  <2>3. n \in 1..Cardinality(Rows)
    <3>1. IsFiniteSet(Rows) /\ IsFiniteSet(req[q].batch)
      BY <1>r, CampaignRows, SubsetsOfRows
    <3>2. n \in Nat /\ Cardinality(Rows) \in Nat /\ n <= Cardinality(Rows)
      BY <1>r, <3>1, FS_CardinalityType, FS_Subset
    <3>3. n # 0
      BY <2>1, <3>1, FS_EmptySet
    <3> QED  BY <3>2, <3>3
  <2>4. HeldOf[q] = -1
    BY <1>v, <2>1, Amounts DEF Holds
  <2>5. HeldOf'[q] = req[q].price * n
    BY <1>v, <2>2, Amounts DEF Holds, Charge
  <2>6. PriceOf'[q] = req[q].price
    BY <1>v, <2>2 DEF SamePrice
  <2>7. RefundOf'[q] = RefundOf[q]
    BY <1>v, <2>1, <2>2, Amounts DEF Refunds
  <2>8. TriedOf'[q] = TriedOf[q] /\ FailedRows'[q] = FailedRows[q]
    BY <1>v, <2>2 DEF Tried, FailedOf, LoggedBy
  <2>9. /\ PriceOf' = [PriceOf EXCEPT ![q] = req[q].price]
        /\ HeldOf' = [HeldOf EXCEPT ![q] = req[q].price * n]
        /\ UNCHANGED <<TriedOf, FailedRows, RefundOf, delivered>>
    BY <1>q, <2>2, <2>5, <2>6, <2>7, <2>8, BatchAt
  <2> HIDE DEF n
  <2> QED  BY <2>1, <2>3, <2>4, <2>9, BatchHold
<1>3. CASE Tries(q)
  <2>1. UNCHANGED <<PriceOf, HeldOf, TriedOf, FailedRows, RefundOf>>
    BY <1>3, <1>u DEF Tries
  <2> DEFINE r == req'[q].row
  <2>2. /\ req[q].step \in Spending /\ InHand(q) = {} /\ r \in req[q].todo
    BY <1>3 DEF Tries, At, Spending, InHand
  <2>3. r \in req[q].batch /\ r \notin Tried(q) /\ r \in Rows
    BY <1>q, <1>r, <2>2 DEF AccountOK, SpendingOK
  <2>4. CASE UNCHANGED delivered
    BY <2>1, <2>4, BatchVars
  <2>5. CASE Deliver(r)
    <3>1. PriceOf[q] * (Cardinality(TriedOf[q]) + 1) <= HeldOf[q]
      BY <1>r, <1>s, <1>v, <2>2, <2>3, OneMoreIsCovered
    <3>2. delivered' = [delivered EXCEPT ![r] = @ + 1]
      BY <2>5 DEF Deliver
    <3> HIDE DEF r
    <3> QED  BY <1>s, <1>v, <2>1, <2>2, <2>3, <3>1, <3>2, BatchDeliver
  <2> QED  BY <1>3, <2>4, <2>5 DEF Tries
<1>4. ASSUME NEW st \in SUBSET {"SUCCESS", "FAILED"}, Notes(q, st)
      PROVE  Batches!Next \/ UNCHANGED Batches!vars
  <2> DEFINE r == req[q].row
  <2>1. UNCHANGED <<ledger, delivered>> /\ SamePrice(q) /\ Logged(q, st) /\ st # {}
    BY <1>4 DEF Notes
  <2>2. req[q].step \in Spending /\ InHand(q) = {r}
    BY <1>4 DEF Notes, Spending, InHand
  <2>3. r \in req[q].batch /\ r \notin Tried(q) /\ r \in Rows
    BY <1>q, <1>r, <2>2 DEF AccountOK, SpendingOK
  <2>4. Holds(q)' = Holds(q) /\ Refunds(q)' = Refunds(q)
    BY <2>1 DEF Holds, Refunds, JournalOf
  <2>5. AmountOf(Holds(q))' = AmountOf(Holds(q)) /\ AmountOf(Refunds(q))' = AmountOf(Refunds(q))
    BY <1>q, <2>1, <2>4, SameAmount DEF AccountOK, Holds, Refunds
  <2>6. UNCHANGED <<PriceOf, HeldOf, RefundOf>>
    BY <1>q, <1>v, <2>1, <2>4, <2>5, BatchAt DEF SamePrice
  <2>7. st \cap {"SUCCESS", "FAILED"} # {}
    BY <2>1
  <2>8. TriedOf'[q] = TriedOf[q] \cup {r}
    BY <1>v, <2>1, <2>7, LogAfter DEF Tried
  <2>9. TriedOf' = [TriedOf EXCEPT ![q] = @ \cup {r}]
    BY <1>q, <2>8, BatchAt
  <2>10. FailedRows' \in {FailedRows, [FailedRows EXCEPT ![q] = @ \cup {r}]}
    <3>1. CASE "FAILED" \in st
      <4>1. st \cap {"FAILED"} # {}
        BY <3>1
      <4>2. FailedRows'[q] = FailedRows[q] \cup {r}
        BY <1>v, <2>1, <4>1, LogAfter DEF FailedOf
      <4> QED  BY <1>q, <4>2, BatchAt
    <3>2. CASE "FAILED" \notin st
      <4>1. st \cap {"FAILED"} = {}
        BY <3>2
      <4>2. FailedRows'[q] = FailedRows[q]
        BY <1>v, <2>1, <4>1, LogAfter DEF FailedOf
      <4> QED  BY <1>q, <4>2, BatchAt
    <3> QED  BY <3>1, <3>2
  <2>11. PriceOf[q] * (Cardinality(TriedOf[q]) + 1) <= HeldOf[q]
    BY <1>r, <1>s, <1>v, <2>2, <2>3, OneMoreIsCovered
  <2> HIDE DEF r
  <2> QED  BY <1>s, <1>v, <2>1, <2>2, <2>3, <2>6, <2>9, <2>10, <2>11, BatchRecord
<1>5. CASE GivesBack(q)
  <2>1. At(q, "crediting") /\ req[q].step \in Spending
    BY <1>5 DEF GivesBack, At, Spending
  <2>2. /\ Refunds(q) = {} /\ Tried(q) = req[q].batch /\ FailedOf(q) = req[q].failed
        /\ AtMostOne(Holds(q))
    BY <1>q, <2>1 DEF AccountOK, SpendingOK, InHand, At
  <2> DEFINE f == Len(ledger) + 1
  <2>3. /\ Refunds(q)' = {f} /\ ledger'[f].amount = Refund(q)
        /\ Holds(q)' = Holds(q) /\ \A i \in Holds(q) : ledger'[i] = ledger[i]
        /\ UNCHANGED <<log, delivered>> /\ SamePrice(q)
    BY <1>5, <2>2, EntriesAfter DEF GivesBack, Holds, Refunds, Enters
  <2>4. AmountOf(Holds(q))' = AmountOf(Holds(q))
    BY <2>2, <2>3, SameAmount DEF Holds
  <2>5. RefundOf'[q] = PriceOf[q] * Cardinality(FailedRows[q])
    <3> HIDE DEF f
    <3>1. AmountOf(Refunds(q))' = ledger'[f].amount
      BY <2>3, Amounts DEF Refunds
    <3>2. RefundOf'[q] = Refund(q)
      BY <1>v, <2>3, <3>1
    <3> QED  BY <1>s, <1>v, <2>1, <2>2, <3>2 DEF Refund
  <2>6. PriceOf'[q] = PriceOf[q] /\ HeldOf'[q] = HeldOf[q]
    BY <1>v, <2>3, <2>4 DEF SamePrice
  <2>7. TriedOf'[q] = TriedOf[q] /\ FailedRows'[q] = FailedRows[q]
    BY <1>v, <2>3 DEF Tried, FailedOf, LoggedBy
  <2>8. /\ RefundOf' = [RefundOf EXCEPT ![q] = PriceOf[q] * Cardinality(FailedRows[q])]
        /\ UNCHANGED <<PriceOf, HeldOf, TriedOf, FailedRows, delivered>>
    BY <1>q, <2>3, <2>5, <2>6, <2>7, BatchAt
  <2>9. HeldOf[q] = PriceOf[q] * Cardinality(TriedOf[q])
    BY <1>s, <1>v, <2>1, <2>2
  <2> QED  BY <1>s, <2>1, <2>8, <2>9, BatchRefund
<1> QED  BY <1>1, <1>2, <1>3, <1>4, <1>5 DEF AccountStep

LEMMA PrepaidStep ==
  TypeInv /\ Accounts /\ [CampaignNext]_vars => Accounts' /\ [Batches!Next]_(Batches!vars)
<1> SUFFICES ASSUME TypeInv, Accounts, [CampaignNext]_vars
             PROVE  Accounts' /\ (Batches!Next \/ UNCHANGED Batches!vars)
  OBVIOUS
<1>1. TypeInv'
  BY TypeStep
<1>2. CASE UNCHANGED vars
  <2>1. UNCHANGED <<ledger, log, delivered, req>>
    BY <1>2 DEF vars, walletVars, campaignVars
  <2>2. \A q \in Requests : AccountOK(q)' = AccountOK(q)
    BY <2>1 DEF AccountOK, UnpaidOK, SpendingOK, AtMostOne, Holds, Refunds, JournalOf, Tried,
                FailedOf, LoggedBy, InHand, Charge, At
  <2>3. UNCHANGED Batches!vars
    BY <2>1 DEF Batches!vars, Holds, Refunds, JournalOf, AmountOf, TheEntry, LoggedBy
  <2> QED  BY <2>2, <2>3 DEF Accounts
<1>3. CASE CampaignNext
  <2>1. PICK q \in Requests : BeginRequest(q) \/ Continue(q) \/ CrashRequest(q)
    BY <1>3 DEF CampaignNext
  <2>2. AccountStep(q)
    BY <2>1, EachIsAccountStep
  <2> QED  BY <1>1, <2>2, AccountsStep, BatchStep
<1> QED  BY <1>2, <1>3

(* However runs and edits overlap and whatever aborts them, every run is a *)
(* prepaid batch: paid once and in advance, no more tried than was paid    *)
(* for, and the price of the failed ones given back at most once.          *)
THEOREM RunsArePrepaid == CampaignSpec => ImplementsPrepaidBatch
<1>1. CampaignInit => TypeInv /\ Accounts /\ Batches!Init
  BY StartsShared, TypeStarts, AccountsInit, BatchInit
<1> QED  BY <1>1, PrepaidStep, TypeStep, PTL DEF CampaignSpec, ImplementsPrepaidBatch, Batches!Spec

-----------------------------------------------------------------------------
(* What a run has cost                                                     *)

(* A run that comes to its end has paid for what it tried and got back, if *)
(* it was anything, what it noted as failed.                               *)
SettledOK(q) ==
  IsRun(q) /\ req[q].step \in Settling =>
    /\ \E h \in Holds(q) :
         Holds(q) = {h} /\ ledger[h].amount = req[q].price * Cardinality(Tried(q))
    /\ \/ Refunds(q) = {} /\ ~(req[q].price * Cardinality(FailedOf(q)) > 0)
       \/ \E f \in Refunds(q) :
            Refunds(q) = {f} /\ ledger[f].amount = req[q].price * Cardinality(FailedOf(q))

EditsOK(q) == req[q].step \in EditSteps => ~IsRun(q)

(* Without faults no row is noted as both.                                 *)
CleanOK(q) ==
  faults = 0 /\ (req[q].step \in Spending \/ (IsRun(q) /\ req[q].step \in Settling)) =>
    SentBy(q) \cap FailedOf(q) = {}

CostOK(q) == SettledOK(q) /\ EditsOK(q) /\ CleanOK(q)
Costs == \A q \in Requests : CostOK(q)

LEMMA LoggedUnion == ASSUME NEW q PROVE Tried(q) = SentBy(q) \cup FailedOf(q)
BY DEF Tried, SentBy, FailedOf, LoggedBy

LEMMA SettlingApart ==
  /\ Settling \cap (Unpaid \cup Spending \cup EditSteps) = {}
  /\ EditSteps \cap (Unpaid \cup Spending) = {}
  /\ {"aborted", "lost", "restoring"} \cap (Settling \cup EditSteps \cup Spending) = {}
  /\ Unpaid \cap Spending = {}
BY DEF Settling, Unpaid, Spending, EditSteps

LEMMA CostsInit == SharedInit => Costs
<1> SUFFICES ASSUME SharedInit, NEW q \in Requests PROVE CostOK(q)
  BY DEF Costs
<1>1. req[q].step = "idle"
  BY DEF SharedInit, CampaignStart, NewRequest
<1>2. "idle" \notin Settling \cup EditSteps \cup Spending
  BY DEF Settling, EditSteps, Spending
<1> QED  BY <1>1, <1>2 DEF CostOK, SettledOK, EditsOK, CleanOK

LEMMA CostsStep ==
  ASSUME TypeInv, TypeInv', Accounts, Costs, NEW q \in Requests, AccountStep(q)
  PROVE  Costs'
<1> SUFFICES ASSUME NEW p \in Requests PROVE CostOK(p)'
  BY DEF Costs
<1>z. faults' = 0 => faults = 0
  BY DEF AccountStep
<1>1. CASE p # q
  <2>1. /\ req'[p] = req[p]
        /\ Holds(p)' = Holds(p) /\ Refunds(p)' = Refunds(p)
        /\ Tried(p)' = Tried(p) /\ FailedOf(p)' = FailedOf(p) /\ SentBy(p)' = SentBy(p)
        /\ \A i \in Holds(p) \cup Refunds(p) : ledger'[i] = ledger[i]
    BY <1>1, OthersStay
  <2>2. CostOK(p)
    BY DEF Costs
  <2> QED  BY <1>z, <2>1, <2>2 DEF CostOK, SettledOK, EditsOK, CleanOK, IsRun
<1>q. AccountOK(q) /\ CostOK(q)
  BY DEF Accounts, Costs
<1> SUFFICES CostOK(q)'
  BY <1>1
<1>2. CASE Departs(q)
  <2>1. /\ Holds(q)' = Holds(q) /\ Refunds(q)' = Refunds(q) /\ ledger' = ledger
        /\ Tried(q)' = Tried(q) /\ FailedOf(q)' = FailedOf(q) /\ SentBy(q)' = SentBy(q)
    BY <1>2 DEF Departs, NothingBooked, Holds, Refunds, JournalOf, Tried, FailedOf, SentBy,
                LoggedBy
  <2>2. req'[q].step \notin Spending /\ OnTrack(q)
    BY <1>2 DEF Departs
  <2>3. EditsOK(q)'
    BY <1>q, <2>2 DEF OnTrack, CostOK, EditsOK, IsRun
  <2>4. ASSUME IsRun(q)', req'[q].step \in Settling
        PROVE  SettledOK(q)' /\ (faults' = 0 => SentBy(q)' \cap FailedOf(q)' = {})
    <3>1. IsRun(q) /\ req'[q].price = req[q].price
      BY <2>2, <2>4 DEF OnTrack, SamePrice
    <3>2. CASE req[q].step \in Settling
      BY <1>q, <1>z, <2>1, <3>1, <3>2 DEF CostOK, SettledOK, CleanOK
    <3>3. CASE At(q, "sending") /\ req[q].todo = {} /\ ~(Refund(q) > 0)
      <4>1. req[q].step \in Spending /\ InHand(q) = {}
        BY <3>3 DEF At, Spending, InHand
      <4>2. /\ \E h \in Holds(q) : Holds(q) = {h} /\ ledger[h].amount = Charge(q)
            /\ Refunds(q) = {} /\ Tried(q) = req[q].batch /\ FailedOf(q) = req[q].failed
        BY <1>q, <3>3, <4>1 DEF AccountOK, SpendingOK
      <4>3. SettledOK(q)'
        BY <2>1, <3>1, <3>3, <4>2 DEF SettledOK, Charge, Refund
      <4> QED  BY <1>q, <1>z, <2>1, <4>1, <4>3 DEF CostOK, CleanOK
    <3>4. req[q].step \notin EditSteps
      BY <1>q, <3>1 DEF CostOK, EditsOK
    <3> QED  BY <2>2, <2>4, <3>2, <3>3, <3>4 DEF OnTrack
  <2> QED  BY <2>2, <2>3, <2>4 DEF CostOK, SettledOK, CleanOK
<1>3. CASE Starts(q) \/ Picks(q) \/ FindsPrice(q) \/ Prepares(q)
  <2>1. req'[q].step \in Unpaid
    BY <1>3 DEF Starts, Picks, FindsPrice, Prepares, Unpaid
  <2> QED  BY <2>1, SettlingApart DEF CostOK, SettledOK, EditsOK, CleanOK
<1>4. CASE Pays(q)
  <2>1. Tried(q) = {} /\ UNCHANGED log
    BY <1>4, <1>q DEF Pays, Enters, At, AccountOK, UnpaidOK, Unpaid
  <2>2. SentBy(q)' = {}
    BY <2>1 DEF Tried, SentBy, LoggedBy
  <2>3. req'[q].step \notin Settling \cup EditSteps
    BY <1>4 DEF Pays, Settling, EditSteps
  <2> QED  BY <2>2, <2>3 DEF CostOK, SettledOK, EditsOK, CleanOK
<1>5. CASE Tries(q) \/ Closes(q)
  <2>1. req[q].step \in Spending /\ req'[q].step \in Spending /\ UNCHANGED log
    BY <1>5 DEF Tries, Closes, At, Spending, NothingBooked
  <2>2. SentBy(q)' = SentBy(q) /\ FailedOf(q)' = FailedOf(q)
    BY <2>1 DEF SentBy, FailedOf, LoggedBy
  <2>3. req'[q].step \notin Settling \cup EditSteps
    BY <2>1, SettlingApart
  <2> QED  BY <1>q, <1>z, <2>1, <2>2, <2>3 DEF CostOK, SettledOK, EditsOK, CleanOK
<1>6. ASSUME NEW st \in SUBSET {"SUCCESS", "FAILED"}, Notes(q, st) PROVE CostOK(q)'
  <2>1. CASE req'[q].step \in {"aborted", "lost"}
    BY <2>1, SettlingApart DEF CostOK, SettledOK, EditsOK, CleanOK
  <2>2. CASE req'[q].step \notin {"aborted", "lost"}
    <3>1. /\ req'[q].step = "sending" /\ Logged(q, st)
          /\ {"SUCCESS", "FAILED"} \subseteq st => faults' # 0
      BY <1>6, <2>2 DEF Notes
    <3>2. req[q].step \in Spending /\ InHand(q) = {req[q].row}
      BY <1>6 DEF Notes, Spending, InHand
    <3>3. req[q].row \notin SentBy(q) \cup FailedOf(q)
      BY <1>q, <3>2, LoggedUnion DEF AccountOK, SpendingOK
    <3>4. ASSUME faults' = 0 PROVE SentBy(q)' \cap FailedOf(q)' = {}
      <4>1. SentBy(q) \cap FailedOf(q) = {}
        BY <1>q, <1>z, <3>2, <3>4 DEF CostOK, CleanOK
      <4>2. CASE "SUCCESS" \notin st
        <5>1. st \cap {"SUCCESS"} = {}
          BY <4>2
        <5>2. /\ SentBy(q)' = SentBy(q)
              /\ FailedOf(q)' \subseteq FailedOf(q) \cup {req[q].row}
          BY <3>1, <5>1, LogAfter DEF SentBy, FailedOf
        <5> QED  BY <3>3, <4>1, <5>2
      <4>3. CASE "FAILED" \notin st
        <5>1. st \cap {"FAILED"} = {}
          BY <4>3
        <5>2. /\ FailedOf(q)' = FailedOf(q)
              /\ SentBy(q)' \subseteq SentBy(q) \cup {req[q].row}
          BY <3>1, <5>1, LogAfter DEF SentBy, FailedOf
        <5> QED  BY <3>3, <4>1, <5>2
      <4> QED  BY <3>1, <3>4, <4>2, <4>3
    <3>5. req'[q].step \notin Settling \cup EditSteps
      BY <3>1 DEF Settling, EditSteps
    <3> QED  BY <3>4, <3>5 DEF CostOK, SettledOK, EditsOK, CleanOK
  <2> QED  BY <2>1, <2>2
<1>7. CASE GivesBack(q)
  <2>1. At(q, "crediting") /\ req[q].step \in Spending /\ InHand(q) = {}
    BY <1>7 DEF GivesBack, At, Spending, InHand
  <2>2. /\ \E h \in Holds(q) : Holds(q) = {h} /\ ledger[h].amount = Charge(q)
        /\ Refunds(q) = {} /\ Tried(q) = req[q].batch /\ FailedOf(q) = req[q].failed
    BY <1>q, <2>1 DEF AccountOK, SpendingOK
  <2> DEFINE f == Len(ledger) + 1
  <2>3. /\ Refunds(q)' = {f} /\ ledger'[f].amount = Refund(q)
        /\ Holds(q)' = Holds(q) /\ \A i \in Holds(q) : ledger'[i] = ledger[i]
        /\ UNCHANGED log /\ req'[q].price = req[q].price
    BY <1>7, <2>2, EntriesAfter DEF GivesBack, Holds, Refunds, Enters, SamePrice
  <2> HIDE DEF f
  <2>4. /\ Tried(q)' = Tried(q) /\ FailedOf(q)' = FailedOf(q) /\ SentBy(q)' = SentBy(q)
    BY <2>3 DEF Tried, FailedOf, SentBy, LoggedBy
  <2>5. SettledOK(q)'
    BY <2>2, <2>3, <2>4 DEF SettledOK, Charge, Refund
  <2>6. req'[q].step \notin Spending \cup EditSteps
    BY <1>7 DEF GivesBack, Spending, EditSteps
  <2>7. CleanOK(q)'
    BY <1>q, <1>z, <2>1, <2>4, <2>6 DEF CostOK, CleanOK
  <2> QED  BY <2>5, <2>6, <2>7 DEF CostOK, EditsOK
<1> QED  BY <1>2, <1>3, <1>4, <1>5, <1>6, <1>7 DEF AccountStep

(* The price of what was tried, less that of what failed, is at most that  *)
(* of what was sent; and just that, if nothing is noted as both.           *)
LEMMA CostOfRows ==
  ASSUME NEW S, NEW F, IsFiniteSet(S), IsFiniteSet(F), NEW price \in Nat
  PROVE  /\ price * Cardinality(S \cup F) - price * Cardinality(F) <= price * Cardinality(S)
         /\ S \cap F = {} =>
              price * Cardinality(S \cup F) - price * Cardinality(F) = price * Cardinality(S)
<1> DEFINE s == Cardinality(S)
           f == Cardinality(F)
           b == Cardinality(S \cap F)
           u == Cardinality(S \cup F)
<1>1. IsFiniteSet(S \cap F)
  BY FS_Subset
<1>2. u = s + f - b /\ s \in Nat /\ f \in Nat /\ b \in Nat /\ b <= f
  BY <1>1, FS_Union, FS_CardinalityType, FS_Subset
<1>3. S \cap F = {} => b = 0
  BY FS_EmptySet
<1> HIDE DEF s, f, b, u
<1>4. price * u = price * s + price * f - price * b
  BY <1>2
<1>5. price * b \in Nat /\ price * s \in Nat /\ price * f \in Nat /\ price * 0 = 0
  BY <1>2, Product
<1> QED  BY <1>3, <1>4, <1>5 DEF s, f, b, u

LEMMA CostsFollow == TypeInv /\ Costs => RunCostsItsSuccesses
<1> SUFFICES ASSUME TypeInv, Costs, NEW q \in Requests, IsRun(q), At(q, "done")
             PROVE  \E h \in Holds(q) :
                      /\ Holds(q) = {h}
                      /\ \/ Refunds(q) = {} /\ CostIs(ledger[h].amount, q)
                         \/ \E f \in Refunds(q) :
                              /\ Refunds(q) = {f}
                              /\ CostIs(ledger[h].amount - ledger[f].amount, q)
  BY DEF RunCostsItsSuccesses
<1>1. SettledOK(q) /\ (faults = 0 => SentBy(q) \cap FailedOf(q) = {})
  BY DEF Costs, CostOK, CleanOK, Settling, At
<1>2. /\ log \in SUBSET LogRow /\ req[q].price \in Nat
  BY Typed, LocalsTyped DEF TypeInv, CampaignTypeOK
<1>3. SentBy(q) = SentOk(q)
  BY <1>2 DEF SentBy, SentOk, LoggedBy, LogRow
<1>4. SentBy(q) \in SUBSET Rows /\ FailedOf(q) \in SUBSET Rows
  BY <1>2 DEF SentBy, FailedOf, LoggedBy, LogRow
<1>5. /\ IsFiniteSet(SentBy(q)) /\ IsFiniteSet(FailedOf(q))
      /\ Cardinality(FailedOf(q)) \in Nat
  BY <1>4, SubsetsOfRows
<1> DEFINE paid == req[q].price * Cardinality(Tried(q))
           back == req[q].price * Cardinality(FailedOf(q))
<1>6. CostIs(paid - back, q)
  <2>1. /\ paid - back <= req[q].price * Cardinality(SentBy(q))
        /\ SentBy(q) \cap FailedOf(q) = {} => paid - back = req[q].price * Cardinality(SentBy(q))
    BY <1>2, <1>5, CostOfRows, LoggedUnion
  <2> QED  BY <1>1, <1>3, <2>1 DEF CostIs
<1>7. paid \in Nat /\ back \in Nat
  <2>1. Cardinality(Tried(q)) \in Nat
    BY <1>4, SubsetsOfRows, LoggedUnion
  <2> QED  BY <1>2, <1>5, <2>1, Product
<1>8. PICK h \in Holds(q) : Holds(q) = {h} /\ ledger[h].amount = paid
  BY <1>1 DEF SettledOK, Settling, At
<1>9. \/ Refunds(q) = {} /\ ~(back > 0)
      \/ \E f \in Refunds(q) : Refunds(q) = {f} /\ ledger[f].amount = back
  BY <1>1 DEF SettledOK, Settling, At
<1> HIDE DEF paid, back
<1>10. CASE Refunds(q) = {} /\ ~(back > 0)
  <2>1. paid - back = paid
    BY <1>7, <1>10
  <2> QED  BY <1>6, <1>8, <1>10, <2>1
<1>11. CASE \E f \in Refunds(q) : Refunds(q) = {f} /\ ledger[f].amount = back
  BY <1>6, <1>8, <1>11
<1> QED  BY <1>9, <1>10, <1>11

LEMMA RunCostsStep ==
  TypeInv /\ Accounts /\ Costs /\ [CampaignNext]_vars => Accounts' /\ Costs'
<1> SUFFICES ASSUME TypeInv, Accounts, Costs, [CampaignNext]_vars PROVE Accounts' /\ Costs'
  OBVIOUS
<1>1. CASE UNCHANGED vars
  <2>1. UNCHANGED <<ledger, log, req, faults>>
    BY <1>1 DEF vars, walletVars, campaignVars
  <2>2. \A q \in Requests : AccountOK(q)' = AccountOK(q)
    BY <2>1 DEF AccountOK, UnpaidOK, SpendingOK, AtMostOne, Holds, Refunds, JournalOf, Tried,
                FailedOf, LoggedBy, InHand, Charge, At
  <2>3. \A q \in Requests : CostOK(q)' = CostOK(q)
    BY <2>1 DEF CostOK, SettledOK, EditsOK, CleanOK, IsRun, Holds, Refunds, JournalOf, Tried,
                FailedOf, SentBy, LoggedBy
  <2> QED  BY <2>2, <2>3 DEF Accounts, Costs
<1>2. CASE CampaignNext
  <2>1. PICK q \in Requests : BeginRequest(q) \/ Continue(q) \/ CrashRequest(q)
    BY <1>2 DEF CampaignNext
  <2>2. AccountStep(q)
    BY <2>1, EachIsAccountStep
  <2> QED  BY <2>2, TypeStep, AccountsStep, CostsStep
<1> QED  BY <1>1, <1>2

(* A run that ended normally has cost its price for each message it logged *)
(* as sent, however it was overlapped; after a fault at most that.         *)
THEOREM RunsCostTheirSuccesses == CampaignSpec => []RunCostsItsSuccesses
<1>1. CampaignInit => TypeInv /\ Accounts /\ Costs
  BY StartsShared, TypeStarts, AccountsInit, CostsInit
<1> QED  BY <1>1, RunCostsStep, TypeStep, CostsFollow, PTL DEF CampaignSpec

-----------------------------------------------------------------------------
(* Rows that read SUCCESS                                                  *)

AcceptedWasSent == \A q \in Requests : At(q, "accepted") => delivered[req[q].row] > 0

SentInv == TypeInv /\ AcceptedWasSent /\ SuccessWasSent

LEMMA OnlySuccessMarks ==
  ASSUME TypeInv, NEW q \in Requests, BeginRequest(q) \/ Continue(q) \/ CrashRequest(q),
         NEW r \in Rows, row'[r] = "SUCCESS", row[r] # "SUCCESS"
  PROVE  RecordSuccess(q) /\ r = req[q].row
<1>1. row \in [Rows -> RowStatus \cup {"unborn", "deleted"}]
  BY Typed DEF TypeInv
<1>2. ASSUME NEW s, row' = [row EXCEPT ![s] = "FAILED"] PROVE FALSE
  BY <1>1, <1>2
<1>3. ~UNCHANGED row
  OBVIOUS
<1>4. ~BeginRequest(q) /\ ~CrashRequest(q)
  BY <1>3 DEF BeginRequest, BeginRun, BeginImport, BeginEdit, BeginRemove, Begin, CrashRequest
<1>5. /\ ~PickRows(q) /\ ~CheckWallet(q) /\ ~MarkRunning(q) /\ ~ReadForHold(q)
      /\ ~CommitHold(q) /\ ~HoldThrows(q) /\ ~RestoreStatus(q)
      /\ ~DispatchAccepted(q) /\ ~DispatchThrows(q) /\ ~RowGone(q)
      /\ ~ReadForRefund(q) /\ ~CommitRefund(q) /\ ~FinishRun(q)
  BY <1>3 DEF PickRows, CheckWallet, MarkRunning, ReadForHold, CommitHold, HoldThrows,
              RestoreStatus, DispatchAccepted, DispatchThrows, RowGone, ReadForRefund,
              CommitRefund, FinishRun
<1>6. ~RecordRefused(q) /\ ~RecordThrows(q)
  BY <1>2 DEF RecordRefused, RecordThrows, RecordFailure
<1>7. /\ ~SeeOldRows(q) /\ ~ImportGone(q) /\ ~FindRow(q) /\ ~CountRemaining(q)
      /\ ~BackToDraft(q) /\ ~CancelCampaign(q) /\ ~CountForSync(q) /\ ~WriteCounters(q)
  BY <1>3 DEF SeeOldRows, ImportGone, FindRow, CountRemaining, BackToDraft, CancelCampaign,
              CountForSync, WriteCounters
<1>8. ~CommitImport(q) /\ ~DropCampaign(q)
  BY DEF CommitImport, DropCampaign
<1>9. ~UpdateRow(q) /\ ~DeleteRow(q)
  BY <1>1 DEF UpdateRow, DeleteRow
<1>10. RecordSuccess(q)
  BY <1>4, <1>5, <1>6, <1>7, <1>8, <1>9 DEF Continue, RunStep, EditStep
<1> QED  BY <1>1, <1>10 DEF RecordSuccess

(* Nothing that was delivered or logged is undone.                         *)
LEMMA RecordsStay ==
  ASSUME TypeInv, NEW q \in Requests, AccountStep(q)
  PROVE  /\ \A r \in Rows : delivered[r] > 0 => delivered'[r] > 0
         /\ log \subseteq log'
<1>1. delivered \in [Rows -> Nat]
  BY Typed DEF TypeInv
<1>2. ASSUME NEW w, Deliver(w) PROVE \A r \in Rows : delivered[r] > 0 => delivered'[r] > 0
  BY <1>1, <1>2 DEF Deliver
<1> QED  BY <1>2 DEF AccountStep, Departs, Starts, Picks, FindsPrice, Prepares, Pays, Enters,
                     Tries, Closes, GivesBack, Notes, Logged, NothingBooked

LEMMA SentStarts == SharedInit => SentInv
<1> SUFFICES ASSUME SharedInit PROVE SentInv
  OBVIOUS
<1>1. \A q \in Requests : req[q].step = "idle"
  BY DEF SharedInit, CampaignStart, NewRequest
<1>2. \A r \in Rows : row[r] # "SUCCESS"
  BY DEF SharedInit, CampaignStart
<1> QED  BY <1>1, <1>2, TypeStarts DEF SentInv, AcceptedWasSent, SuccessWasSent, At

LEMMA SentStep == SentInv /\ [CampaignNext]_vars => SentInv'
<1> SUFFICES ASSUME SentInv, [CampaignNext]_vars PROVE SentInv'
  OBVIOUS
<1> USE DEF SentInv
<1>1. TypeInv'
  BY TypeStep
<1>2. CASE UNCHANGED vars
  BY <1>1, <1>2 DEF vars, walletVars, campaignVars, AcceptedWasSent, SuccessWasSent, SentOk, At
<1>3. CASE CampaignNext
  <2>1. PICK q \in Requests : BeginRequest(q) \/ Continue(q) \/ CrashRequest(q)
    BY <1>3 DEF CampaignNext
  <2>2. AccountStep(q)
    BY <2>1, EachIsAccountStep
  <2>3. (\A r \in Rows : delivered[r] > 0 => delivered'[r] > 0) /\ log \subseteq log'
    BY <2>2, RecordsStay
  <2>4. AcceptedWasSent'
    <3> SUFFICES ASSUME NEW p \in Requests, req'[p].step = "accepted"
                 PROVE  delivered'[req'[p].row] > 0
      BY DEF AcceptedWasSent, At
    <3>1. req'[p].row \in Rows
      BY <1>1 DEF TypeInv, RowChosen, OnARow
    <3>2. CASE p # q
      <4>1. req'[p] = req[p]
        BY <2>2, <3>2 DEF AccountStep
      <4> QED  BY <2>3, <3>1, <4>1 DEF AcceptedWasSent, At
    <3>3. CASE p = q
      <4>1. Tries(q)
        BY <2>2, <3>3 DEF AccountStep, Departs, Starts, Picks, FindsPrice, Prepares, Pays,
                          Closes, GivesBack, Notes, Spending, EndSteps
      <4>2. Deliver(req'[q].row) /\ delivered \in [Rows -> Nat]
        BY <3>3, <4>1, Typed DEF Tries, TypeInv
      <4> QED  BY <3>1, <3>3, <4>2 DEF Deliver
    <3> QED  BY <3>2, <3>3
  <2>5. SuccessWasSent'
    <3> SUFFICES ASSUME NEW r \in Rows, row'[r] = "SUCCESS"
                 PROVE  delivered'[r] > 0 /\ \E p \in Requests : r \in SentOk(p)'
      BY DEF SuccessWasSent
    <3>1. CASE row[r] = "SUCCESS"
      <4>1. delivered[r] > 0 /\ \E p \in Requests : r \in SentOk(p)
        BY <3>1 DEF SuccessWasSent
      <4> QED  BY <2>3, <4>1 DEF SentOk
    <3>2. CASE row[r] # "SUCCESS"
      <4>1. RecordSuccess(q) /\ r = req[q].row
        BY <2>1, <3>2, OnlySuccessMarks
      <4>2. delivered[r] > 0
        BY <4>1 DEF RecordSuccess, Goes, AcceptedWasSent
      <4>3. [req |-> q, row |-> r, status |-> "SUCCESS"] \in log'
        BY <4>1 DEF RecordSuccess, Logged
      <4> QED  BY <2>3, <4>2, <4>3 DEF SentOk
    <3> QED  BY <3>1, <3>2
  <2> QED  BY <1>1, <2>4, <2>5
<1> QED  BY <1>2, <1>3

(* A row that reads SUCCESS was accepted by Zalo and logged by a run, also *)
(* when runs overlap, rows are edited or the server dies.                  *)
THEOREM SuccessIsReal == CampaignSpec => []SuccessWasSent
<1>1. SentInv => SuccessWasSent
  BY DEF SentInv
<1> QED  BY <1>1, StartsShared, SentStarts, SentStep, PTL DEF CampaignSpec

-----------------------------------------------------------------------------
(* On a shared wallet.                                                     *)

(* Topups, single messages and the runs of other campaigns move the same   *)
(* account between any two steps, and post entries of their own.           *)
OthersMove == /\ OthersPost({"CAMPAIGN_HOLD", "CAMPAIGN_REFUND"}, Requests)
              /\ UNCHANGED campaignVars

SharedSpec == SharedInit /\ [][CampaignNext \/ OthersMove]_vars

(* The entries of this campaign's runs stay as they are.                   *)
EntriesKept(q) == /\ Holds(q)' = Holds(q) /\ Refunds(q)' = Refunds(q)
                  /\ \A i \in Holds(q) \cup Refunds(q) : ledger'[i] = ledger[i]

LEMMA EntriesStay ==
  ASSUME WalletTypeOK, OthersMove, NEW q \in Requests
  PROVE  EntriesKept(q)
<1>1. CASE ledger' = ledger
  BY <1>1 DEF EntriesKept, Holds, Refunds, JournalOf
<1>2. ASSUME NEW e \in WalletTransaction, ledger' = Append(ledger, e),
             e.type \notin {"CAMPAIGN_HOLD", "CAMPAIGN_REFUND"} \/ e.source \notin Requests
      PROVE  EntriesKept(q)
  <2>1. ledger \in Seq(WalletTransaction)
    BY DEF WalletTypeOK
  <2>2. /\ DOMAIN ledger = 1..Len(ledger) /\ Len(ledger) \in Nat
        /\ DOMAIN ledger' = 1..(Len(ledger) + 1)
        /\ \A i \in 1..Len(ledger) : ledger'[i] = ledger[i]
        /\ ledger'[Len(ledger) + 1] = e
    BY <1>2, <2>1
  <2>3. ASSUME NEW type \in {"CAMPAIGN_HOLD", "CAMPAIGN_REFUND"}
        PROVE  /\ JournalOf(q, type)' = JournalOf(q, type)
               /\ \A i \in JournalOf(q, type) : ledger'[i] = ledger[i]
    <3>1. ~(e.source = q /\ e.type = type)
      BY <1>2, <2>3
    <3> QED  BY <2>2, <3>1 DEF JournalOf
  <2> QED  BY <2>3 DEF EntriesKept, Holds, Refunds
<1> QED  BY <1>1, <1>2 DEF OthersMove, OthersPost

LEMMA TypesStay ==
  ASSUME TypeInv, OthersMove \/ UNCHANGED vars
  PROVE  TypeInv'
<1>1. WalletTypeOK' /\ UNCHANGED campaignVars
  BY DEF OthersMove, OthersPost, vars, walletVars, WalletTypeOK, TypeInv, CampaignTypeOK
<1> QED  BY <1>1 DEF TypeInv, CampaignTypeOK, campaignVars, RowChosen

(* So a run's account, and what it has cost, are as they were.             *)
LEMMA AccountsStay ==
  ASSUME TypeInv, Accounts, OthersMove
  PROVE  /\ Accounts'
         /\ UNCHANGED Batches!vars
         /\ Costs => Costs'
<1>1. UNCHANGED <<req, log, delivered, faults>>
  BY DEF OthersMove, campaignVars
<1>2. \A q \in Requests : EntriesKept(q)
  BY EntriesStay DEF TypeInv, CampaignTypeOK
<1>3. Accounts'
  <2> SUFFICES ASSUME NEW q \in Requests PROVE AccountOK(q)'
    BY DEF Accounts
  <2>1. AccountOK(q) /\ EntriesKept(q)
    BY <1>2 DEF Accounts
  <2>2. Tried(q)' = Tried(q) /\ FailedOf(q)' = FailedOf(q) /\ InHand(q)' = InHand(q)
        /\ Charge(q)' = Charge(q)
    BY <1>1 DEF Tried, FailedOf, LoggedBy, InHand, Charge
  <2>3. UnpaidOK(q)'
    BY <1>1, <2>1, <2>2 DEF AccountOK, UnpaidOK, EntriesKept
  <2>4. SpendingOK(q)'
    BY <1>1, <2>1, <2>2 DEF AccountOK, SpendingOK, EntriesKept, At
  <2> QED  BY <2>1, <2>3, <2>4 DEF AccountOK, EntriesKept, AtMostOne
<1>4. UNCHANGED Batches!vars
  <2>1. \A q \in Requests : AtMostOne(Holds(q)) /\ AtMostOne(Refunds(q))
    BY DEF Accounts, AccountOK
  <2>2. \A q \in Requests : /\ AmountOf(Holds(q))' = AmountOf(Holds(q))
                            /\ AmountOf(Refunds(q))' = AmountOf(Refunds(q))
    BY <1>2, <2>1, SameAmount DEF EntriesKept, Holds, Refunds
  <2>3. HeldOf' = HeldOf /\ RefundOf' = RefundOf
    BY <2>2 DEF HeldOf, RefundOf
  <2>4. PriceOf' = PriceOf
    BY <1>1, <1>2 DEF PriceOf, EntriesKept
  <2>5. TriedOf' = TriedOf /\ FailedRows' = FailedRows
    BY <1>1 DEF TriedOf, FailedRows, Tried, FailedOf, LoggedBy
  <2> QED  BY <1>1, <2>3, <2>4, <2>5, BatchVars
<1>5. ASSUME Costs PROVE Costs'
  <2> SUFFICES ASSUME NEW q \in Requests PROVE CostOK(q)'
    BY DEF Costs
  <2>1. CostOK(q) /\ EntriesKept(q)
    BY <1>2, <1>5 DEF Costs
  <2>2. Tried(q)' = Tried(q) /\ FailedOf(q)' = FailedOf(q) /\ SentBy(q)' = SentBy(q)
    BY <1>1 DEF Tried, FailedOf, SentBy, LoggedBy
  <2>3. SettledOK(q)'
    BY <1>1, <2>1, <2>2 DEF CostOK, SettledOK, EntriesKept, IsRun
  <2>4. EditsOK(q)' /\ CleanOK(q)'
    BY <1>1, <2>1, <2>2 DEF CostOK, EditsOK, CleanOK, IsRun
  <2> QED  BY <2>3, <2>4 DEF CostOK
<1> QED  BY <1>3, <1>4, <1>5

LEMMA SharedTypes == TypeInv /\ [CampaignNext \/ OthersMove]_vars => TypeInv'
BY TypesStay, TypeStep

LEMMA SharedStep ==
  /\ TypeInv /\ Accounts /\ [CampaignNext \/ OthersMove]_vars
     => Accounts' /\ [Batches!Next]_(Batches!vars)
  /\ TypeInv /\ Accounts /\ Costs /\ [CampaignNext \/ OthersMove]_vars => Costs'
<1> SUFFICES ASSUME TypeInv, Accounts, [CampaignNext \/ OthersMove]_vars
             PROVE  /\ Accounts' /\ (Batches!Next \/ UNCHANGED Batches!vars)
                    /\ Costs => Costs'
  OBVIOUS
<1>1. CASE OthersMove
  BY <1>1, AccountsStay
<1>2. CASE [CampaignNext]_vars
  BY <1>2, PrepaidStep, RunCostsStep
<1> QED  BY <1>1, <1>2

(* Every run is a prepaid batch also on a wallet that topups, messages and *)
(* other campaigns of the owner move at the same time.                     *)
THEOREM PrepaidOnSharedWallet == SharedSpec => ImplementsPrepaidBatch
<1>1. SharedInit => TypeInv /\ Accounts /\ Batches!Init
  BY TypeStarts, AccountsInit, BatchInit
<1> QED  BY <1>1, SharedTypes, SharedStep, PTL
         DEF SharedSpec, ImplementsPrepaidBatch, Batches!Spec

(* Nor does it cost more or less for what else moves the account.          *)
THEOREM CostsOnSharedWallet == SharedSpec => []RunCostsItsSuccesses
<1>1. SharedInit => TypeInv /\ Accounts /\ Costs
  BY TypeStarts, AccountsInit, CostsInit
<1> QED  BY <1>1, SharedTypes, SharedStep, CostsFollow, PTL DEF SharedSpec

(* And a row that reads SUCCESS was sent.                                  *)
THEOREM SuccessOnSharedWallet == SharedSpec => []SuccessWasSent
<1>1. ASSUME SentInv, OthersMove PROVE SentInv'
  <2>1. TypeInv' /\ UNCHANGED campaignVars
    BY <1>1, TypesStay DEF SentInv, OthersMove
  <2> QED  BY <1>1, <2>1 DEF SentInv, AcceptedWasSent, SuccessWasSent, SentOk, At, campaignVars
<1>2. SentInv /\ [CampaignNext \/ OthersMove]_vars => SentInv'
  BY <1>1, SentStep
<1>3. SentInv => SuccessWasSent
  BY DEF SentInv
<1> QED  BY <1>2, <1>3, SentStarts, PTL DEF SharedSpec

-----------------------------------------------------------------------------
(* Requests one after the other.  What holds while the only request that   *)
(* is served, with local variables r, is at step s and nothing has failed. *)
Running   == {"execute", "retry"}
AtRest    == {"idle"} \cup EndSteps
Uncounted == {"sending", "accepted", "refused", "crediting", "syncing", "synced"}
Marked(op, s) == op \in Running /\ s \in RunSteps \cup SyncSteps
                 /\ s \notin {"picking", "pricing", "marking"}

(* Each operation has steps of its own.                                    *)
OwnStep(op, s) ==
  /\ s \in RunSteps => op \in Running
  /\ s \in SyncSteps => op \in Running \cup {"updateRow", "removeRow"}
  /\ s = "finding" => op \in {"updateRow", "removeRow"}
  /\ s = "updating" => op = "updateRow"
  /\ s \in {"deleting", "counting", "emptying"} => op = "removeRow"
  /\ s \in {"importing", "replacing"} => op = "importCsv"
  /\ s \in {"dropping", "cancelling"} => op = "remove"

(* The campaign is RUNNING just as long as the run has marked it, and only *)
(* removeRow works on a campaign that is cancelled.                        *)
StatusFits(op, s) ==
  Exists =>
    /\ campaign.status = "RUNNING" <=> Marked(op, s)
    /\ campaign.status = "CANCELLED" => s \in AtRest \/ op = "removeRow"

CountersFit(r, s) ==
  /\ Exists /\ s \notin Uncounted => campaign.counts = CountRows
  /\ s = "synced" => r.counts = CountRows

(* Nobody got two messages, and a recipient whose row may yet be sent none, *)
(* but for the one whose message Zalo has just accepted.                   *)
DeliveriesFit(r, s) ==
  \A x \in Rows :
    /\ delivered[x] <= 1
    /\ row[x] \in {"unborn", "PENDING", "FAILED"} =>
         delivered[x] = 0 \/ (s = "accepted" /\ r.row = x)

Sendable(x) == row[x] \in {"PENDING", "FAILED"}

(* What the request read is still so.                                      *)
RowsFit(r, s) ==
  /\ s \in {"pricing", "marking", "holding", "debiting", "sending", "accepted", "refused"} =>
       \A x \in r.todo : Sendable(x)
  /\ s \in {"accepted", "refused"} => Sendable(r.row) /\ r.row \notin r.todo
  /\ s = "updating" /\ r.wasFailed => row[r.row] = "FAILED"
  /\ s = "replacing" => \A x \in Rows : Live(x) => x \in r.batch
  /\ s = "emptying" => \A x \in Rows : ~Live(x)

Agrees(r, s) == /\ OwnStep(r.op, s) /\ StatusFits(r.op, s) /\ CountersFit(r, s)
                /\ DeliveriesFit(r, s) /\ RowsFit(r, s)

Alone(q) == \A p \in Requests : p # q => ~Active(p)

SerialSound ==
  /\ \A q \in Requests : Active(q) => Alone(q) /\ Agrees(req[q], req[q].step)
  /\ (\A q \in Requests : ~Active(q)) => Agrees(NewRequest, "idle")

SerialInv == Serial /\ faults = 0 => SerialSound

LEMMA AtRestIsOff ==
  /\ "idle" \in AtRest /\ AtRest \cap (RunSteps \cup EditSteps \cup SyncSteps) = {}
  /\ \A op, s : s \in AtRest => ~Marked(op, s) /\ OwnStep(op, s)
  /\ AtRest \cap Uncounted = {}
<1>1. AtRest \cap (RunSteps \cup EditSteps \cup SyncSteps) = {} /\ AtRest \cap Uncounted = {}
  BY DEF AtRest, EndSteps, RunSteps, EditSteps, SyncSteps, Uncounted
<1>2. \A op, s : s \in AtRest => ~Marked(op, s)
  BY <1>1 DEF Marked
<1>3. \A op, s : s \in AtRest => OwnStep(op, s)
  BY DEF AtRest, EndSteps, OwnStep, RunSteps, SyncSteps
<1> QED  BY <1>1, <1>2, <1>3 DEF AtRest

(* At rest only the campaign and its rows count.                           *)
RestAgreement ==
  \A r, r2 : \A s, s2 \in AtRest : Agrees(r, s) => Agrees(r2, s2)

LEMMA RestAgrees == RestAgreement
<1> SUFFICES ASSUME NEW r, NEW s \in AtRest, NEW r2, NEW s2 \in AtRest
             PROVE  Agrees(r, s) => Agrees(r2, s2)
  BY DEF RestAgreement
<1>1. s2 \in {"idle", "done", "unpaid", "rejected", "aborted", "lost"}
  BY DEF AtRest, EndSteps
<1>2. s # "accepted"
  BY DEF AtRest, EndSteps
<1>3. RowsFit(r2, s2) /\ OwnStep(r2.op, s2)
  BY <1>1, AtRestIsOff DEF RowsFit
<1>4. CountersFit(r, s) => CountersFit(r2, s2)
  BY <1>1, AtRestIsOff DEF CountersFit
<1>5. DeliveriesFit(r, s) => DeliveriesFit(r2, s2)
  BY <1>2 DEF DeliveriesFit
<1>6. StatusFits(r.op, s) => StatusFits(r2.op, s2)
  BY AtRestIsOff DEF StatusFits
<1> QED  BY <1>3, <1>4, <1>5, <1>6 DEF Agrees

(* A request with the same local variables, as far as step s has them.     *)
SameLocals(r, r2, s) ==
  /\ r2.op = r.op /\ r2.batch = r.batch /\ r2.todo = r.todo /\ r2.wasFailed = r.wasFailed
  /\ s \in OnARow => r2.row = r.row
  /\ s = "synced" => r2.counts = r.counts

SameAgreement == \A r, r2, s : SameLocals(r, r2, s) /\ Agrees(r, s) => Agrees(r2, s)

LEMMA SameAgrees == SameAgreement
BY DEF SameAgreement, SameLocals, Agrees, StatusFits, CountersFit, DeliveriesFit, RowsFit, OnARow

(* The local variables a request keeps.                                    *)
LEMMA LocalsKept ==
  ASSUME req \in [Requests -> Request], NEW q \in Requests, NEW r \in Request, NEW to \in Steps,
         With(q, r, to), to \notin EndSteps
  PROVE  SameLocals(r, req'[q], to)
<1>1. req'[q] = Scoped(r, to)
  BY DEF With
<1> DEFINE w == IF to \in {"accepted", "refused", "updating", "deleting"} THEN r.row ELSE NoRow
           b == IF to \in {"debiting", "crediting"} THEN r.seen ELSE 0
           c == IF to = "synced" THEN r.counts ELSE NoCounts
<1>2. Scoped(r, to) = [r EXCEPT !.step = to, !.row = w, !.seen = b, !.counts = c]
  BY DEF Scoped, Request
<1>3. (to \in OnARow => w = r.row) /\ (to = "synced" => c = r.counts)
  BY DEF OnARow
<1> HIDE DEF w, b, c
<1> QED  BY <1>1, <1>2, <1>3 DEF Request, SameLocals

(* Enough to show of a step of request q.                                  *)
LEMMA GoesSoundly ==
  ASSUME TypeInv, NEW q \in Requests, NEW r \in Request, NEW to \in Steps \ {"idle"},
         With(q, r, to), Alone(q), Agrees(r, to)'
  PROVE  SerialSound'
<1>1. req \in [Requests -> Request]
  BY Typed DEF TypeInv
<1>2. req'[q].step = to /\ \A p \in Requests : p # q => req'[p] = req[p]
  BY <1>1, WithMoves DEF Moved
<1>3. \A p \in Requests : p # q => ~Active(p)'
  BY <1>2 DEF Alone, Active, Ended
<1>4. CASE to \in EndSteps
  <2>1. ~Active(q)'
    BY <1>2, <1>4 DEF Active, Ended
  <2>2. to \in AtRest /\ "idle" \in AtRest
    BY <1>4 DEF AtRest
  <2>3. RestAgreement'
    BY RestAgrees, PTL
  <2>4. Agrees(NewRequest, "idle")'
    BY <2>2, <2>3 DEF RestAgreement, NewRequest, NoCounts
  <2> QED  BY <1>3, <2>1, <2>4 DEF SerialSound
<1>5. CASE to \notin EndSteps
  <2>1. PICK r2 : r2 = req'[q]
    OBVIOUS
  <2>2. SameLocals(r, r2, to)
    BY <1>1, <1>5, <2>1, LocalsKept
  <2>3. SameAgreement'
    BY SameAgrees, PTL
  <2>4. Agrees(r2, to)'
    BY <2>2, <2>3 DEF SameAgreement, SameLocals
  <2>6. Agrees(req[q], req[q].step)'
    BY <1>2, <2>1, <2>4
  <2>5. Active(q)' /\ Alone(q)'
    BY <1>2, <1>3, <1>5 DEF Active, Ended, Alone
  <2> QED  BY <1>3, <2>5, <2>6 DEF SerialSound
<1> QED  BY <1>4, <1>5

(* A step that changes neither the campaign nor its rows nor deliveries.   *)
LEMMA QuietAgrees ==
  ASSUME UNCHANGED <<campaign, row, delivered>>, NEW r, NEW s
  PROVE  Agrees(r, s) <=> Agrees(r, s)'
BY DEF Agrees, StatusFits, CountersFit, DeliveriesFit, RowsFit, Exists, Sendable, Live, CountRows

LEMMA QuietlySound ==
  ASSUME TypeInv, NEW q \in Requests, NEW r \in Request, NEW to \in Steps \ {"idle"},
         With(q, r, to), UNCHANGED <<campaign, row, delivered>>, Alone(q), Agrees(r, to)
  PROVE  SerialSound'
<1>1. Agrees(r, to)'
  BY QuietAgrees
<1> QED  BY <1>1, GoesSoundly

(* A request that has begun is the only one.                               *)
LEMMA ServedAlone ==
  ASSUME SerialSound, NEW q \in Requests, NEW s \in RunSteps \cup EditSteps \cup SyncSteps,
         At(q, s)
  PROVE  Alone(q) /\ Agrees(req[q], s)
<1>1. s \notin AtRest
  BY AtRestIsOff
<1>2. Active(q)
  BY <1>1 DEF Active, Ended, At, AtRest
<1> QED  BY <1>2 DEF SerialSound, At

(* What the first checks of a request have seen.                           *)
LEMMA BeginSound ==
  ASSUME TypeInv, SerialSound, Serial, NEW q \in Requests, BeginRequest(q)
  PROVE  SerialSound'
<1>0. req[q] \in Request /\ campaign.hasRun \in BOOLEAN /\ campaign.status \in CampaignStatus
  BY Typed DEF TypeInv
<1>1. ASSUME NEW op \in Ops, NEW allowed, NEW step \in Steps, Begin(q, op, allowed, step),
             step \in {"picking", "importing", "finding", "dropping", "cancelling"},
             allowed => OwnStep(op, step) /\ campaign.status # "RUNNING"
                        /\ (campaign.status = "CANCELLED" => op = "removeRow")
      PROVE  SerialSound'
  <2> DEFINE r == Opened(q, op)
             to == IF allowed THEN step ELSE "rejected"
  <2>1. /\ With(q, r, to) /\ Quiet /\ \A p \in Requests : ~Active(p)
    BY <1>1 DEF Begin, Arrives, Opened, Quiet
  <2>2. r \in Request /\ r.op = op
    BY <1>0, LocalsTyped DEF Opened, Request
  <2>3. Agrees(NewRequest, "idle")
    BY <2>1 DEF SerialSound
  <2>4. Agrees(r, to)
    <3>1. CASE allowed
      <4>1. to = step /\ to \notin AtRest \cup Uncounted
        BY <1>1, <3>1 DEF AtRest, EndSteps, Uncounted
      <4>2. ~Marked(op, step)
        BY <1>1 DEF Marked, RunSteps, SyncSteps
      <4>3. ~Marked("none", "idle")
        BY DEF Marked, Running
      <4>4. StatusFits(op, step)
        BY <1>1, <3>1, <4>2 DEF StatusFits
      <4>5. campaign.counts = CountRows \/ ~Exists
        BY <2>3, AtRestIsOff DEF Agrees, CountersFit
      <4>6. CountersFit(r, step)
        BY <1>1, <4>5 DEF CountersFit
      <4>7. DeliveriesFit(r, step)
        BY <2>3 DEF Agrees, DeliveriesFit
      <4>8. RowsFit(r, step)
        BY <1>1 DEF RowsFit
      <4> HIDE DEF r, to
      <4> QED  BY <1>1, <2>2, <3>1, <4>1, <4>4, <4>6, <4>7, <4>8 DEF Agrees
    <3>2. CASE ~allowed
      <4>1. to = "rejected" /\ to \in AtRest /\ "idle" \in AtRest
        BY <3>2 DEF AtRest, EndSteps
      <4> HIDE DEF r, to
      <4> QED  BY <2>3, <4>1, RestAgrees DEF RestAgreement
    <3> QED  BY <3>1, <3>2
  <2>5. to \in Steps \ {"idle"}
    BY <1>1, StepNames
  <2>6. Alone(q) /\ UNCHANGED <<campaign, row, delivered>>
    BY <2>1 DEF Alone, Quiet
  <2> HIDE DEF r, to
  <2> QED  BY <2>1, <2>2, <2>4, <2>5, <2>6, QuietlySound
<1>2. CASE BeginRun(q)
  <2>1. PICK op \in {"execute", "retry"} : Begin(q, op, CanRun, "picking")
    BY <1>2 DEF BeginRun
  <2>2. op \in Ops /\ OwnStep(op, "picking")
    BY <2>1 DEF Begin, Arrives, OwnStep, Running, RunSteps, SyncSteps
  <2> QED  BY <1>1, <2>1, <2>2, StepNames DEF CanRun
<1>3. CASE BeginImport(q)
  <2>1. Begin(q, "importCsv", CanImport, "importing")
    BY <1>3 DEF BeginImport
  <2>2. "importCsv" \in Ops /\ OwnStep("importCsv", "importing")
    BY <2>1 DEF Begin, Arrives, OwnStep, RunSteps, SyncSteps
  <2> QED  BY <1>1, <2>1, <2>2, StepNames DEF CanImport
<1>4. CASE BeginEdit(q)
  <2>1. PICK op \in {"updateRow", "removeRow"} : Begin(q, op, CanEdit(op), "finding")
    BY <1>4 DEF BeginEdit
  <2>2. op \in Ops /\ OwnStep(op, "finding")
    BY <2>1 DEF Begin, Arrives, OwnStep, RunSteps, SyncSteps
  <2> QED  BY <1>1, <2>1, <2>2, StepNames DEF CanEdit
<1>5. CASE BeginRemove(q)
  <2> DEFINE step == IF campaign.status = "DRAFT" THEN "dropping" ELSE "cancelling"
  <2>1. Begin(q, "remove", CanRemove, step)
    BY <1>5 DEF BeginRemove
  <2>2. "remove" \in Ops /\ OwnStep("remove", step) /\ step \in {"dropping", "cancelling"}
    BY <2>1 DEF Begin, Arrives, OwnStep, RunSteps, SyncSteps
  <2>3. campaign.status # "RUNNING"
    <3>1. Exists /\ \A p \in Requests : ~Active(p)
      BY <2>1 DEF Begin, Arrives
    <3>2. StatusFits("none", "idle")
      BY <3>1 DEF SerialSound, Agrees, NewRequest
    <3> QED  BY <3>1, <3>2, AtRestIsOff DEF StatusFits
  <2>4. step \in Steps
    BY <2>2, StepNames
  <2> HIDE DEF step
  <2> QED  BY <1>1, <2>1, <2>2, <2>3, <2>4 DEF CanRemove
<1> QED  BY <1>2, <1>3, <1>4, <1>5 DEF BeginRequest

(* A request that goes on from step s to step t, as if by a quiet step.    *)
LEMMA MoveAgrees ==
  ASSUME NEW r, NEW s \in RunSteps \cup EditSteps \cup SyncSteps, NEW r2, NEW t,
         Agrees(r, s), r2.op = r.op, s # "accepted",
         OwnStep(r.op, t), Marked(r.op, s) <=> Marked(r.op, t), s \in Uncounted => t \in Uncounted,
         t = "synced" => r2.counts = CountRows, RowsFit(r2, t)
  PROVE  Agrees(r2, t)
<1>1. s \notin AtRest
  BY AtRestIsOff
<1>2. StatusFits(r2.op, t)
  BY <1>1 DEF Agrees, StatusFits
<1>3. CountersFit(r2, t)
  BY DEF Agrees, CountersFit
<1>4. DeliveriesFit(r2, t)
  BY DEF Agrees, DeliveriesFit
<1> QED  BY <1>2, <1>3, <1>4 DEF Agrees

(* A request writes the status of the campaign, if that still exists.      *)
LEMMA StatusWritten ==
  ASSUME TypeInv, NEW q \in Requests, NEW from \in (RunSteps \cup EditSteps) \ Uncounted,
         NEW to \in Steps \ {"idle"}, NEW c, SetCampaign(q, from, to, "aborted", c),
         c.counts = campaign.counts, c.status # "gone",
         c.status = "RUNNING" <=> Marked(req[q].op, to),
         c.status = "CANCELLED" => to \in AtRest,
         UNCHANGED <<row, delivered>>,
         Alone(q), Agrees(req[q], from), OwnStep(req[q].op, to), to \notin Uncounted,
         RowsFit(req[q], to)
  PROVE  SerialSound'
<1>1. PICK r : r = req[q]
  OBVIOUS
<1>2. r \in Request
  BY <1>1, Typed DEF TypeInv
<1>3. CountRows' = CountRows
  BY DEF CountRows
<1>4. from # "accepted" /\ to # "synced"
  BY DEF Uncounted
<1>5. CASE Exists
  <2>1. campaign' = c /\ With(q, r, to)
    BY <1>1, <1>5 DEF SetCampaign, Goes
  <2>2. StatusFits(r.op, to)'
    BY <1>1, <2>1 DEF StatusFits
  <2>3. CountersFit(r, to)'
    BY <1>1, <1>3, <1>4, <1>5, <2>1 DEF CountersFit, Agrees
  <2>4. DeliveriesFit(r, to)'
    BY <1>1, <1>4 DEF DeliveriesFit, Agrees
  <2>5. RowsFit(r, to)'
    BY <1>1 DEF RowsFit, Sendable, Live
  <2>6. Agrees(r, to)'
    BY <1>1, <2>2, <2>3, <2>4, <2>5 DEF Agrees
  <2> QED  BY <1>2, <2>1, <2>6, GoesSoundly
<1>6. CASE ~Exists
  <2>1. campaign' = campaign /\ With(q, r, "aborted")
    BY <1>1, <1>6 DEF SetCampaign, Goes
  <2>2. "aborted" \in Steps \ {"idle"} /\ "aborted" \in AtRest
    BY StepNames DEF AtRest, EndSteps
  <2>3. StatusFits(r.op, "aborted")
    BY <1>6 DEF StatusFits
  <2>4. CountersFit(r, "aborted")
    BY <1>6 DEF CountersFit
  <2>5. DeliveriesFit(r, "aborted")
    BY <1>1, <1>4 DEF DeliveriesFit, Agrees
  <2>6. RowsFit(r, "aborted") /\ OwnStep(r.op, "aborted")
    BY <2>2, AtRestIsOff DEF RowsFit
  <2>7. Agrees(r, "aborted")
    BY <2>3, <2>4, <2>5, <2>6 DEF Agrees
  <2> QED  BY <1>2, <2>1, <2>2, <2>7, QuietlySound
<1> QED  BY <1>5, <1>6

(* The steps of a request, as sets of names.                               *)
Serving == RunSteps \cup EditSteps \cup SyncSteps

LEMMA EndsOf ==
  ASSUME NEW q \in Requests, NEW s \in Serving, NEW t \in {"rejected", "aborted"},
         Agrees(req[q], s), s \notin Uncounted, ~Marked(req[q].op, s)
  PROVE  Agrees(req[q], t) /\ t \in Steps \ {"idle"}
<1>1. t \in AtRest /\ ~Marked(req[q].op, t) /\ OwnStep(req[q].op, t) /\ t # "synced"
  BY AtRestIsOff DEF AtRest, EndSteps
<1>2. RowsFit(req[q], t)
  BY DEF RowsFit
<1>3. s # "accepted"
  BY DEF Uncounted
<1> QED  BY <1>1, <1>2, <1>3, MoveAgrees, StepNames DEF Serving

(* The steps that change neither the campaign nor a row nor deliveries.    *)
LEMMA QuietStepsSound ==
  ASSUME TypeInv, SerialSound, NEW q \in Requests,
         \/ PickRows(q) \/ CheckWallet(q) \/ ReadForHold(q) \/ CommitHold(q)
         \/ ReadForRefund(q) \/ CommitRefund(q) \/ CountForSync(q)
         \/ SeeOldRows(q) \/ ImportGone(q) \/ FindRow(q) \/ CountRemaining(q)
  PROVE  SerialSound'
<1> USE DEF Serving
<1>r. req[q] \in Request /\ wallet.balance \in Int
  BY Typed DEF TypeInv, WalletAccount
<1>a. ASSUME NEW s \in Serving, At(q, s)
      PROVE  Alone(q) /\ Agrees(req[q], s)
  BY <1>a, ServedAlone
<1>o. ASSUME NEW s \in Serving, At(q, s)
      PROVE  OwnStep(req[q].op, s)
  BY <1>o, <1>a DEF Agrees
<1>q. ASSUME NEW r \in Request, NEW to \in Steps \ {"idle"}, With(q, r, to),
             UNCHANGED <<campaign, row, delivered>>, Alone(q), Agrees(r, to)
      PROVE  SerialSound'
  BY <1>q, QuietlySound
<1>m. ASSUME NEW s \in Serving, At(q, s), NEW r \in Request, r.op = req[q].op,
             NEW to \in Steps \ {"idle"}, With(q, r, to), UNCHANGED <<campaign, row, delivered>>,
             s # "accepted", OwnStep(r.op, to), Marked(r.op, s) <=> Marked(r.op, to),
             s \in Uncounted => to \in Uncounted,
             to = "synced" => r.counts = CountRows, RowsFit(r, to)
      PROVE  SerialSound'
  <2>1. Alone(q) /\ Agrees(req[q], s)
    BY <1>m, <1>a
  <2>2. Agrees(r, to)
    BY <1>m, <2>1, MoveAgrees
  <2> QED  BY <1>m, <1>q, <2>1, <2>2
<1>1. CASE PickRows(q)
  <2>0. At(q, "picking") /\ "picking" \in Serving /\ UNCHANGED <<campaign, row, delivered>>
    BY <1>1 DEF PickRows, RunSteps
  <2>1. req[q].op \in Running
    BY <1>o, <2>0 DEF OwnStep, RunSteps
  <2>2. ASSUME NEW batch \in SUBSET Rows, Picked(q, batch),
               With(q, [req[q] EXCEPT !.batch = batch, !.todo = batch], "pricing")
        PROVE  SerialSound'
    <3>1. PICK r : r = [req[q] EXCEPT !.batch = batch, !.todo = batch]
      OBVIOUS
    <3>2. r \in Request /\ r.op = req[q].op /\ r.todo = batch
      BY <1>r, <3>1, LocalsTyped DEF Request
    <3>3. \A x \in batch : Sendable(x)
      BY <2>2 DEF Picked, Sendable
    <3>4. RowsFit(r, "pricing")
      BY <3>2, <3>3 DEF RowsFit
    <3>5. OwnStep(r.op, "pricing") /\ "pricing" \in Steps \ {"idle"}
      BY <2>1, <3>2, StepNames DEF OwnStep, RunSteps, SyncSteps
    <3>6. ~Marked(r.op, "picking") /\ ~Marked(r.op, "pricing") /\ "picking" \notin Uncounted
      BY DEF Marked, Uncounted
    <3> QED  BY <1>m, <2>0, <2>2, <3>1, <3>2, <3>4, <3>5, <3>6
  <2>3. ASSUME With(q, req[q], "rejected") PROVE SerialSound'
    <3>1. ~Marked(req[q].op, "picking") /\ "picking" \notin Uncounted
      BY DEF Marked, Uncounted
    <3>2. Agrees(req[q], "rejected") /\ "rejected" \in Steps \ {"idle"} /\ Alone(q)
      BY <1>a, <2>0, <3>1, EndsOf
    <3> QED  BY <1>q, <1>r, <2>0, <2>3, <3>2
  <2> QED  BY <1>1, <2>2, <2>3 DEF PickRows
<1>2. CASE CheckWallet(q)
  <2>0. At(q, "pricing") /\ "pricing" \in Serving /\ UNCHANGED <<campaign, row, delivered>>
    BY <1>2 DEF CheckWallet, RunSteps
  <2>1. req[q].op \in Running
    BY <1>o, <2>0 DEF OwnStep, RunSteps
  <2>2. PICK p \in Prices : \E to \in {"marking", "rejected"} : With(q, [req[q] EXCEPT !.price = p], to)
    BY <1>2 DEF CheckWallet
  <2>3. PICK r, to : /\ r = [req[q] EXCEPT !.price = p] /\ to \in {"marking", "rejected"}
                     /\ With(q, r, to)
    BY <2>2
  <2>4. r \in Request /\ r.op = req[q].op /\ r.todo = req[q].todo
    <3>1. p \in Nat
      BY CampaignNumbers
    <3> QED  BY <1>r, <2>3, <3>1, LocalsTyped DEF Request
  <2>5. OwnStep(r.op, to) /\ to \in Steps \ {"idle"} /\ to # "synced"
    BY <2>1, <2>3, <2>4, StepNames DEF OwnStep, RunSteps, SyncSteps
  <2>6. /\ ~Marked(r.op, "pricing") /\ "pricing" \notin Uncounted
        /\ to \in {"marking", "rejected"} => ~Marked(r.op, to)
    BY DEF Marked, Uncounted, RunSteps, SyncSteps
  <2>7. RowsFit(r, to)
    <3>1. \A x \in req[q].todo : Sendable(x)
      BY <1>a, <2>0 DEF Agrees, RowsFit
    <3> QED  BY <2>3, <2>4, <3>1 DEF RowsFit
  <2> QED  BY <1>m, <2>0, <2>3, <2>4, <2>5, <2>6, <2>7
<1>3. CASE ReadForHold(q)
  <2>0. At(q, "holding") /\ "holding" \in Serving /\ UNCHANGED <<campaign, row, delivered>>
    BY <1>3 DEF ReadForHold, RunSteps
  <2>1. req[q].op \in Running
    BY <1>o, <2>0 DEF OwnStep, RunSteps
  <2>2. PICK r, to : /\ r = [req[q] EXCEPT !.seen = wallet.balance]
                     /\ to \in {"debiting", "restoring"} /\ With(q, r, to)
    BY <1>3 DEF ReadForHold
  <2>4. r \in Request /\ r.op = req[q].op /\ r.todo = req[q].todo
    BY <1>r, <2>2, LocalsTyped DEF Request
  <2>5. OwnStep(r.op, to) /\ to \in Steps \ {"idle"} /\ to # "synced"
    BY <2>1, <2>2, <2>4, StepNames DEF OwnStep, RunSteps, SyncSteps
  <2>6. Marked(r.op, "holding") /\ Marked(r.op, to) /\ "holding" \notin Uncounted
    BY <2>1, <2>2, <2>4 DEF Marked, Uncounted, RunSteps
  <2>7. RowsFit(r, to)
    <3>1. \A x \in req[q].todo : Sendable(x)
      BY <1>a, <2>0 DEF Agrees, RowsFit
    <3> QED  BY <2>2, <2>4, <3>1 DEF RowsFit
  <2> QED  BY <1>m, <2>0, <2>2, <2>4, <2>5, <2>6, <2>7
<1>4. CASE CommitHold(q)
  <2>0. At(q, "debiting") /\ "debiting" \in Serving /\ UNCHANGED <<campaign, row, delivered>>
        /\ With(q, req[q], "sending")
    BY <1>4 DEF CommitHold, Goes, RunSteps
  <2>1. req[q].op \in Running
    BY <1>o, <2>0 DEF OwnStep, RunSteps
  <2>5. OwnStep(req[q].op, "sending") /\ "sending" \in Steps \ {"idle"}
    BY <2>1, StepNames DEF OwnStep, RunSteps, SyncSteps
  <2>6. Marked(req[q].op, "debiting") /\ Marked(req[q].op, "sending") /\ "debiting" \notin Uncounted
    BY <2>1 DEF Marked, Uncounted, RunSteps
  <2>7. RowsFit(req[q], "sending")
    <3>1. \A x \in req[q].todo : Sendable(x)
      BY <1>a, <2>0 DEF Agrees, RowsFit
    <3> QED  BY <3>1 DEF RowsFit
  <2> QED  BY <1>m, <1>r, <2>0, <2>5, <2>6, <2>7
<1>5. CASE ReadForRefund(q)
  <2>0. At(q, "sending") /\ "sending" \in Serving /\ UNCHANGED <<campaign, row, delivered>>
    BY <1>5 DEF ReadForRefund, RunSteps
  <2>1. req[q].op \in Running
    BY <1>o, <2>0 DEF OwnStep, RunSteps
  <2>2. PICK r, to : /\ r = [req[q] EXCEPT !.seen = wallet.balance]
                     /\ to \in {"crediting", "syncing"} /\ With(q, r, to)
    BY <1>5 DEF ReadForRefund
  <2>4. r \in Request /\ r.op = req[q].op
    BY <1>r, <2>2, LocalsTyped DEF Request
  <2>5. OwnStep(r.op, to) /\ to \in Steps \ {"idle"} /\ to # "synced"
    BY <2>1, <2>2, <2>4, StepNames DEF OwnStep, RunSteps, SyncSteps
  <2>6. Marked(r.op, "sending") /\ Marked(r.op, to) /\ to \in Uncounted
    BY <2>1, <2>2, <2>4 DEF Marked, Uncounted, RunSteps, SyncSteps
  <2>7. RowsFit(r, to)
    BY <2>2 DEF RowsFit
  <2> QED  BY <1>m, <2>0, <2>2, <2>4, <2>5, <2>6, <2>7
<1>6. CASE CommitRefund(q)
  <2>0. At(q, "crediting") /\ "crediting" \in Serving /\ UNCHANGED <<campaign, row, delivered>>
        /\ With(q, req[q], "syncing")
    BY <1>6 DEF CommitRefund, Goes, RunSteps
  <2>1. req[q].op \in Running
    BY <1>o, <2>0 DEF OwnStep, RunSteps
  <2>5. OwnStep(req[q].op, "syncing") /\ "syncing" \in Steps \ {"idle"}
    BY <2>1, StepNames DEF OwnStep, RunSteps, SyncSteps
  <2>6. Marked(req[q].op, "crediting") /\ Marked(req[q].op, "syncing") /\ "syncing" \in Uncounted
    BY <2>1 DEF Marked, Uncounted, RunSteps, SyncSteps
  <2>7. RowsFit(req[q], "syncing")
    BY DEF RowsFit
  <2> QED  BY <1>m, <1>r, <2>0, <2>5, <2>6, <2>7
<1>7. CASE CountForSync(q)
  <2>0. At(q, "syncing") /\ "syncing" \in Serving /\ UNCHANGED <<campaign, row, delivered>>
    BY <1>7 DEF CountForSync, SyncSteps
  <2>1. OwnStep(req[q].op, "syncing")
    BY <1>o, <2>0
  <2>2. PICK r : r = [req[q] EXCEPT !.counts = CountRows] /\ With(q, r, "synced")
    BY <1>7 DEF CountForSync
  <2>4. r \in Request /\ r.op = req[q].op /\ r.counts = CountRows
    BY <1>r, <2>2, Counted, LocalsTyped DEF Request
  <2>5. OwnStep(r.op, "synced") /\ "synced" \in Steps \ {"idle"}
    BY <2>1, <2>4, StepNames DEF OwnStep, RunSteps, SyncSteps
  <2>6. (Marked(r.op, "syncing") <=> Marked(r.op, "synced")) /\ "synced" \in Uncounted
    BY DEF Marked, Uncounted, SyncSteps
  <2>7. RowsFit(r, "synced")
    BY DEF RowsFit
  <2> QED  BY <1>m, <2>0, <2>2, <2>4, <2>5, <2>6, <2>7
<1>8. CASE SeeOldRows(q)
  <2>0. At(q, "importing") /\ "importing" \in Serving /\ UNCHANGED <<campaign, row, delivered>>
    BY <1>8 DEF SeeOldRows, EditSteps
  <2>1. req[q].op = "importCsv"
    BY <1>o, <2>0 DEF OwnStep
  <2>2. PICK live : live = {x \in Rows : Live(x)}
    OBVIOUS
  <2>3. PICK r : r = [req[q] EXCEPT !.batch = live] /\ With(q, r, "replacing")
    BY <1>8, <2>2 DEF SeeOldRows
  <2>4. r \in Request /\ r.op = req[q].op /\ r.batch = live
    <3>1. live \in SUBSET Rows
      BY <2>2
    <3> QED  BY <1>r, <2>3, <3>1, LocalsTyped DEF Request
  <2>5. OwnStep(r.op, "replacing") /\ "replacing" \in Steps \ {"idle"}
    BY <2>1, <2>4, StepNames DEF OwnStep, RunSteps, SyncSteps
  <2>6. ~Marked(r.op, "importing") /\ ~Marked(r.op, "replacing") /\ "importing" \notin Uncounted
    BY DEF Marked, Uncounted, RunSteps, SyncSteps
  <2>7. RowsFit(r, "replacing")
    BY <2>2, <2>4 DEF RowsFit
  <2> QED  BY <1>m, <2>0, <2>3, <2>4, <2>5, <2>6, <2>7
<1>9. CASE ImportGone(q)
  <2>0. At(q, "replacing") /\ "replacing" \in Serving /\ UNCHANGED <<campaign, row, delivered>>
        /\ With(q, req[q], "aborted")
    BY <1>9 DEF ImportGone, Goes, EditSteps
  <2>5. OwnStep(req[q].op, "aborted") /\ "aborted" \in Steps \ {"idle"}
    BY StepNames DEF OwnStep, RunSteps, SyncSteps
  <2>6. /\ ~Marked(req[q].op, "replacing") /\ ~Marked(req[q].op, "aborted")
        /\ "replacing" \notin Uncounted
    BY DEF Marked, Uncounted, RunSteps, SyncSteps
  <2>7. RowsFit(req[q], "aborted")
    BY DEF RowsFit
  <2> QED  BY <1>m, <1>r, <2>0, <2>5, <2>6, <2>7
<1>10. CASE FindRow(q)
  <2>0. At(q, "finding") /\ "finding" \in Serving /\ UNCHANGED <<campaign, row, delivered>>
    BY <1>10 DEF FindRow, EditSteps
  <2>1. req[q].op \in {"updateRow", "removeRow"}
    BY <1>o, <2>0 DEF OwnStep
  <2>2. ~Marked(req[q].op, "finding") /\ "finding" \notin Uncounted
    BY DEF Marked, Uncounted, RunSteps, SyncSteps
  <2>3. ASSUME NEW x \in Rows,
               With(q, [req[q] EXCEPT !.row = x, !.wasFailed = (row[x] = "FAILED")],
                    IF req[q].op = "updateRow" THEN "updating" ELSE "deleting")
        PROVE  SerialSound'
    <3>1. PICK f \in BOOLEAN : f = (row[x] = "FAILED")
      OBVIOUS
    <3>2. PICK r, to : /\ r = [req[q] EXCEPT !.row = x, !.wasFailed = f] /\ With(q, r, to)
                       /\ to = IF req[q].op = "updateRow" THEN "updating" ELSE "deleting"
      BY <2>3, <3>1
    <3>3. r \in Request /\ r.op = req[q].op /\ r.row = x /\ r.wasFailed = f
      <4>1. r \in Request
        BY <1>r, <3>1, <3>2, LocalsTyped
      <4> QED  BY <1>r, <3>2, <4>1 DEF Request
    <3>4. OwnStep(r.op, to) /\ to \in Steps \ {"idle"} /\ to # "synced"
      BY <2>1, <3>2, <3>3, StepNames DEF OwnStep, RunSteps, SyncSteps
    <3>5. ~Marked(r.op, to)
      <4>1. to \in {"updating", "deleting"}
        BY <3>2
      <4> QED  BY <4>1 DEF Marked, RunSteps, SyncSteps
    <3>6. RowsFit(r, to)
      BY <3>1, <3>2, <3>3 DEF RowsFit
    <3> QED  BY <1>m, <2>0, <2>2, <3>2, <3>3, <3>4, <3>5, <3>6
  <2>4. ASSUME With(q, req[q], "rejected") PROVE SerialSound'
    <3>1. Agrees(req[q], "rejected") /\ "rejected" \in Steps \ {"idle"} /\ Alone(q)
      BY <1>a, <2>0, <2>2, EndsOf
    <3> QED  BY <1>q, <1>r, <2>0, <2>4, <3>1
  <2> QED  BY <1>10, <2>3, <2>4 DEF FindRow
<1>11. CASE CountRemaining(q)
  <2>0. At(q, "counting") /\ "counting" \in Serving /\ UNCHANGED <<campaign, row, delivered>>
    BY <1>11 DEF CountRemaining, Goes, EditSteps
  <2>1. req[q].op = "removeRow"
    BY <1>o, <2>0 DEF OwnStep
  <2>2. PICK to : /\ to = IF \E x \in Rows : Live(x) THEN "done" ELSE "emptying"
                  /\ With(q, req[q], to)
    BY <1>11 DEF CountRemaining, Goes
  <2>5. OwnStep(req[q].op, to) /\ to \in Steps \ {"idle"} /\ to # "synced"
    BY <2>1, <2>2, StepNames DEF OwnStep, RunSteps, SyncSteps
  <2>6. ~Marked(req[q].op, "counting") /\ ~Marked(req[q].op, to) /\ "counting" \notin Uncounted
    BY <2>2 DEF Marked, Uncounted, RunSteps, SyncSteps
  <2>7. RowsFit(req[q], to)
    BY <2>2 DEF RowsFit
  <2> QED  BY <1>m, <1>r, <2>0, <2>2, <2>5, <2>6, <2>7
<1> QED  BY <1>1, <1>2, <1>3, <1>4, <1>5, <1>6, <1>7, <1>8, <1>9, <1>10, <1>11

(* The steps that write the campaign.                                      *)
LEMMA CampaignStepsSound ==
  ASSUME TypeInv, SerialSound, NEW q \in Requests,
         \/ MarkRunning(q) \/ RestoreStatus(q) \/ WriteCounters(q) \/ FinishRun(q)
         \/ BackToDraft(q) \/ CancelCampaign(q) \/ DropCampaign(q) \/ CommitImport(q)
  PROVE  SerialSound'
<1> USE DEF Serving
<1>r. /\ req[q] \in Request /\ campaign \in [status : CampaignStatus, hasRun : BOOLEAN, counts : Counters]
      /\ row \in [Rows -> RowStatus \cup {"unborn", "deleted"}]
  BY Typed DEF TypeInv
<1>a. ASSUME NEW s \in Serving, At(q, s)
      PROVE  Alone(q) /\ Agrees(req[q], s) /\ OwnStep(req[q].op, s)
  BY <1>a, ServedAlone DEF Agrees
<1>e. \A t \in {"done", "unpaid", "aborted"} :
        /\ t \in Steps \ {"idle"} /\ t \in AtRest /\ t \notin Uncounted
        /\ ~Marked(req[q].op, t) /\ OwnStep(req[q].op, t) /\ RowsFit(req[q], t)
  BY StepNames, AtRestIsOff DEF AtRest, EndSteps, RowsFit
<1>1. CASE MarkRunning(q)
  <2> DEFINE c == [campaign EXCEPT !.status = "RUNNING"]
  <2>0. /\ SetCampaign(q, "marking", "holding", "aborted", c)
        /\ At(q, "marking") /\ UNCHANGED <<row, delivered>>
    BY <1>1 DEF MarkRunning, SetCampaign, Goes
  <2>1. c.counts = campaign.counts /\ c.status = "RUNNING"
    BY <1>r
  <2>2. "marking" \in (RunSteps \cup EditSteps) \ Uncounted /\ "holding" \notin Uncounted
    BY DEF RunSteps, Uncounted
  <2>3. Alone(q) /\ Agrees(req[q], "marking") /\ req[q].op \in Running
    BY <1>a, <2>0, <2>2 DEF OwnStep, RunSteps
  <2>4. /\ Marked(req[q].op, "holding") /\ OwnStep(req[q].op, "holding")
        /\ "holding" \in Steps \ {"idle"}
    BY <2>3, StepNames DEF Marked, OwnStep, RunSteps, SyncSteps
  <2>5. RowsFit(req[q], "holding")
    <3>1. \A x \in req[q].todo : Sendable(x)
      BY <2>3 DEF Agrees, RowsFit
    <3> QED  BY <3>1 DEF RowsFit
  <2> HIDE DEF c
  <2> QED  BY <2>0, <2>1, <2>2, <2>3, <2>4, <2>5, StatusWritten
<1>2. CASE RestoreStatus(q)
  <2> DEFINE c == [campaign EXCEPT !.status = IF req[q].hadRun THEN "COMPLETED" ELSE "READY"]
  <2>0. /\ SetCampaign(q, "restoring", "unpaid", "aborted", c)
        /\ At(q, "restoring") /\ UNCHANGED <<row, delivered>>
    BY <1>2 DEF RestoreStatus, SetCampaign, Goes
  <2>1. c.counts = campaign.counts /\ c.status \in {"COMPLETED", "READY"}
    BY <1>r
  <2>2. "restoring" \in (RunSteps \cup EditSteps) \ Uncounted
    BY DEF RunSteps, Uncounted
  <2>3. Alone(q) /\ Agrees(req[q], "restoring")
    BY <1>a, <2>0, <2>2
  <2> HIDE DEF c
  <2> QED  BY <1>e, <2>0, <2>1, <2>2, <2>3, StatusWritten
<1>3. CASE FinishRun(q)
  <2> DEFINE c == [campaign EXCEPT !.status = "COMPLETED", !.hasRun = TRUE]
  <2>0. /\ SetCampaign(q, "finishing", "done", "aborted", c)
        /\ At(q, "finishing") /\ UNCHANGED <<row, delivered>>
    BY <1>3 DEF FinishRun, SetCampaign, Goes
  <2>1. c.counts = campaign.counts /\ c.status = "COMPLETED"
    BY <1>r
  <2>2. "finishing" \in (RunSteps \cup EditSteps) \ Uncounted
    BY DEF RunSteps, Uncounted
  <2>3. Alone(q) /\ Agrees(req[q], "finishing")
    BY <1>a, <2>0, <2>2
  <2> HIDE DEF c
  <2> QED  BY <1>e, <2>0, <2>1, <2>2, <2>3, StatusWritten
<1>4. CASE BackToDraft(q)
  <2> DEFINE c == [campaign EXCEPT !.status = "DRAFT"]
  <2>0. /\ SetCampaign(q, "emptying", "done", "aborted", c)
        /\ At(q, "emptying") /\ UNCHANGED <<row, delivered>>
    BY <1>4 DEF BackToDraft, SetCampaign, Goes
  <2>1. c.counts = campaign.counts /\ c.status = "DRAFT"
    BY <1>r
  <2>2. "emptying" \in (RunSteps \cup EditSteps) \ Uncounted
    BY DEF EditSteps, Uncounted
  <2>3. Alone(q) /\ Agrees(req[q], "emptying")
    BY <1>a, <2>0, <2>2
  <2> HIDE DEF c
  <2> QED  BY <1>e, <2>0, <2>1, <2>2, <2>3, StatusWritten
<1>5. CASE CancelCampaign(q)
  <2> DEFINE c == [campaign EXCEPT !.status = "CANCELLED"]
  <2>0. /\ SetCampaign(q, "cancelling", "done", "aborted", c)
        /\ At(q, "cancelling") /\ UNCHANGED <<row, delivered>>
    BY <1>5 DEF CancelCampaign, SetCampaign, Goes
  <2>1. c.counts = campaign.counts /\ c.status = "CANCELLED"
    BY <1>r
  <2>2. "cancelling" \in (RunSteps \cup EditSteps) \ Uncounted
    BY DEF EditSteps, Uncounted
  <2>3. Alone(q) /\ Agrees(req[q], "cancelling")
    BY <1>a, <2>0, <2>2
  <2> HIDE DEF c
  <2> QED  BY <1>e, <2>0, <2>1, <2>2, <2>3, StatusWritten
<1>p. PICK r : r = req[q]
  OBVIOUS
<1>g. ASSUME NEW to \in Steps \ {"idle"}, With(q, r, to), Alone(q), Agrees(r, to)'
      PROVE  SerialSound'
  BY <1>g, <1>p, <1>r, GoesSoundly
<1>6. CASE WriteCounters(q)
  <2>0. /\ With(q, r, IF Exists THEN AfterSync(q) ELSE "aborted") /\ At(q, "synced")
        /\ campaign' = IF Exists THEN [campaign EXCEPT !.counts = r.counts] ELSE campaign
        /\ UNCHANGED <<row, delivered>>
    BY <1>6, <1>p DEF WriteCounters, SetCampaign, Goes
  <2>1. "synced" \in Serving
    BY DEF SyncSteps
  <2>2. Alone(q) /\ Agrees(r, "synced") /\ OwnStep(r.op, "synced")
    BY <1>a, <1>p, <2>0, <2>1
  <2>3. r.op \in Running \cup {"updateRow", "removeRow"} /\ r.counts = CountRows
    BY <2>2 DEF OwnStep, SyncSteps, Agrees, CountersFit
  <2>4. PICK to : to = IF Exists THEN AfterSync(q) ELSE "aborted"
    OBVIOUS
  <2>5. /\ Exists => to = IF r.op \in Running THEN "finishing"
                          ELSE IF r.op = "updateRow" THEN "done" ELSE "counting"
        /\ ~Exists => to = "aborted"
    BY <1>p, <2>3, <2>4 DEF AfterSync, Running
  <2>6. /\ to \in {"finishing", "done", "counting", "aborted"}
        /\ to = "finishing" => r.op \in Running
        /\ to = "counting" => r.op = "removeRow"
    BY <2>3, <2>5
  <2>7. to \in Steps \ {"idle"} /\ OwnStep(r.op, to) /\ RowsFit(r, to)'
    BY <2>6, StepNames DEF OwnStep, RowsFit, RunSteps, SyncSteps
  <2>8. StatusFits(r.op, to)'
    <3>1. CASE ~Exists
      BY <2>0, <3>1 DEF StatusFits, Exists
    <3>2. CASE Exists
      <4>1. campaign'.status = campaign.status
        BY <1>r, <2>0, <3>2
      <4>2. Marked(r.op, "synced") <=> Marked(r.op, to)
        BY <2>3, <2>5, <3>2 DEF Marked, Running, RunSteps, SyncSteps
      <4>3. "synced" \notin AtRest
        BY DEF AtRest, EndSteps
      <4> QED  BY <2>2, <3>2, <4>1, <4>2, <4>3 DEF StatusFits, Exists, Agrees
    <3> QED  BY <3>1, <3>2
  <2>9. CountersFit(r, to)'
    <3>1. CountRows' = CountRows /\ to # "synced"
      BY <2>0, <2>6 DEF CountRows
    <3>2. Exists => campaign'.counts = CountRows
      BY <1>r, <2>0, <2>3
    <3>3. ~Exists => ~Exists'
      BY <2>0 DEF Exists
    <3> QED  BY <3>1, <3>2, <3>3 DEF CountersFit
  <2>10. DeliveriesFit(r, to)'
    BY <2>0, <2>2, <2>6 DEF DeliveriesFit, Agrees
  <2>11. Agrees(r, to)'
    BY <2>7, <2>8, <2>9, <2>10 DEF Agrees, OwnStep
  <2> QED  BY <1>g, <2>0, <2>2, <2>4, <2>7, <2>11
(* What ends the request: the campaign is gone or has just its new rows.   *)
<1>d. ASSUME NEW s \in Serving, At(q, s), s # "accepted", NEW to \in {"done", "aborted"},
             With(q, r, to), UNCHANGED delivered,
             \A x \in Rows : row'[x] \in {"unborn", "PENDING", "FAILED"} =>
                               row[x] \in {"unborn", "PENDING", "FAILED"},
             Exists' => campaign'.status = "READY" /\ (campaign.counts = CountRows)'
      PROVE  SerialSound'
  <2>1. Alone(q) /\ Agrees(r, s)
    BY <1>a, <1>d, <1>p
  <2>2. DeliveriesFit(r, to)'
    BY <1>d, <2>1 DEF DeliveriesFit, Agrees
  <2>3. StatusFits(r.op, to)'
    BY <1>d, <1>e, <1>p DEF StatusFits
  <2>4. CountersFit(r, to)'
    BY <1>d DEF CountersFit
  <2>5. Agrees(r, to)'
    BY <1>e, <1>p, <2>2, <2>3, <2>4, StepNames DEF Agrees, OwnStep, RowsFit, RunSteps, SyncSteps
  <2> QED  BY <1>d, <1>e, <1>g, <2>1, <2>5
<1>7. CASE DropCampaign(q)
  <2>1. At(q, "dropping") /\ UNCHANGED delivered /\ "dropping" \in Serving
    BY <1>7 DEF DropCampaign, SetCampaign, Goes, EditSteps
  <2>2. PICK to \in {"done", "aborted"} : With(q, r, to)
    BY <1>7, <1>p DEF DropCampaign, SetCampaign, Goes
  <2>3. campaign' = IF Exists THEN [campaign EXCEPT !.status = "gone"] ELSE campaign
    BY <1>7 DEF DropCampaign, SetCampaign
  <2>4. ~Exists'
    BY <1>r, <2>3 DEF Exists
  <2>5. \A x \in Rows : row'[x] = IF Live(x) THEN "deleted" ELSE row[x]
    BY <1>7 DEF DropCampaign
  <2> QED  BY <1>d, <2>1, <2>2, <2>4, <2>5
<1>8. CASE CommitImport(q)
  <2>0. At(q, "replacing") /\ "replacing" \in Serving /\ UNCHANGED delivered /\ With(q, r, "done")
    BY <1>8, <1>p DEF CommitImport, Goes, EditSteps
  <2>1. \A x \in Rows : Live(x) => x \in r.batch
    BY <1>a, <1>p, <2>0 DEF Agrees, RowsFit
  <2>2. PICK new \in SUBSET {x \in Rows : row[x] = "unborn"} \ {{}} :
          /\ row' = [x \in Rows |-> IF x \in new THEN "PENDING"
                                    ELSE IF Live(x) /\ x \in r.batch THEN "deleted"
                                    ELSE row[x]]
          /\ campaign' = [campaign EXCEPT
               !.status = "READY",
               !.counts = [NoCounts EXCEPT !["PENDING"] = Cardinality(new)]]
    BY <1>8, <1>p DEF CommitImport
  <2>3. \A x \in Rows : row'[x] = IF x \in new THEN "PENDING"
                                  ELSE IF Live(x) THEN "deleted" ELSE row[x]
    BY <2>1, <2>2
  <2>4. {x \in Rows : row'[x] = "PENDING"} = new
    BY <2>3 DEF Live, RowStatus
  <2>5. {x \in Rows : row'[x] = "SUCCESS"} = {} /\ {x \in Rows : row'[x] = "FAILED"} = {}
    BY <2>3 DEF Live, RowStatus
  <2>6. CountRows' = [NoCounts EXCEPT !["PENDING"] = Cardinality(new)]
    <3>1. CountRows' = [st \in RowStatus |-> Cardinality({x \in Rows : row'[x] = st})]
      BY DEF CountRows
    <3>2. \A st \in RowStatus : Cardinality({x \in Rows : row'[x] = st}) =
                                  IF st = "PENDING" THEN Cardinality(new) ELSE 0
      BY <2>4, <2>5, FS_EmptySet DEF RowStatus
    <3> QED  BY <3>1, <3>2 DEF NoCounts
  <2>7. campaign'.status = "READY" /\ (campaign.counts = CountRows)'
    BY <1>r, <2>2, <2>6
  <2>8. \A x \in Rows : row'[x] \in {"unborn", "PENDING", "FAILED"} =>
                          row[x] \in {"unborn", "PENDING", "FAILED"}
    BY <2>2, <2>3
  <2> QED  BY <1>d, <2>0, <2>7, <2>8
<1> QED  BY <1>1, <1>2, <1>3, <1>4, <1>5, <1>6, <1>7, <1>8


(* A request that writes a row of the campaign, and nothing else of it.    *)
LEMMA RowWritten ==
  ASSUME TypeInv, NEW q \in Requests, NEW r \in Request, NEW s, NEW to \in {"sending", "syncing"},
         Alone(q), Agrees(req[q], s), With(q, r, to), UNCHANGED <<campaign, delivered>>,
         r.op = req[q].op, OwnStep(r.op, to), s \notin AtRest, Marked(r.op, s) <=> Marked(r.op, to),
         \A x \in Rows : row'[x] \in {"unborn", "PENDING", "FAILED"} => delivered[x] = 0,
         to = "sending" => \A x \in r.todo : row'[x] \in {"PENDING", "FAILED"}
  PROVE  SerialSound'
<1>1. to \in Uncounted /\ to \in Steps \ {"idle"}
  BY StepNames DEF Uncounted
<1>2. StatusFits(r.op, to)'
  BY DEF StatusFits, Exists, Agrees
<1>3. CountersFit(r, to)'
  BY <1>1 DEF CountersFit
<1>4. DeliveriesFit(r, to)'
  BY DEF DeliveriesFit, Agrees
<1>5. RowsFit(r, to)'
  BY DEF RowsFit, Sendable
<1>6. Agrees(r, to)'
  BY <1>2, <1>3, <1>4, <1>5 DEF Agrees, OwnStep
<1> QED  BY <1>1, <1>6, GoesSoundly

(* The steps that send a message, record it, or edit a row.                *)
LEMMA RowStepsSound ==
  ASSUME TypeInv, SerialSound, NEW q \in Requests, faults = 0, faults' = 0,
         \/ DispatchAccepted(q) \/ DispatchThrows(q) \/ RecordSuccess(q) \/ RecordRefused(q)
         \/ RowGone(q) \/ UpdateRow(q) \/ DeleteRow(q)
  PROVE  SerialSound'
<1> USE DEF Serving
<1>r. /\ req[q] \in Request /\ row \in [Rows -> RowStatus \cup {"unborn", "deleted"}]
      /\ delivered \in [Rows -> Nat] /\ req[q].todo \in SUBSET Rows
      /\ req[q].step \in OnARow => req[q].row \in Rows
  BY Typed, LocalsTyped DEF TypeInv, RowChosen
<1>a. ASSUME NEW s \in Serving, At(q, s)
      PROVE  Alone(q) /\ Agrees(req[q], s) /\ OwnStep(req[q].op, s)
  BY <1>a, ServedAlone DEF Agrees
(* While a run sends.                                                      *)
<1>s. ASSUME NEW s \in {"sending", "accepted", "refused"}, At(q, s)
      PROVE  /\ Alone(q) /\ Agrees(req[q], s) /\ req[q].op \in Running
             /\ \A t \in {"sending", "accepted", "refused"} :
                  /\ OwnStep(req[q].op, t) /\ Marked(req[q].op, t)
                  /\ t \in Uncounted /\ t \in Steps \ {"idle"} /\ t \notin AtRest
             /\ \A x \in req[q].todo : Sendable(x)
  <2>1. s \in Serving /\ s \in RunSteps
    BY DEF RunSteps
  <2>2. Alone(q) /\ Agrees(req[q], s) /\ req[q].op \in Running
    BY <1>a, <1>s, <2>1 DEF OwnStep
  <2>3. \A t \in {"sending", "accepted", "refused"} :
          /\ OwnStep(req[q].op, t) /\ Marked(req[q].op, t)
          /\ t \in Uncounted /\ t \in Steps \ {"idle"} /\ t \notin AtRest
    BY <2>2, StepNames DEF OwnStep, Marked, Uncounted, RunSteps, SyncSteps, AtRest, EndSteps
  <2>4. \A x \in req[q].todo : Sendable(x)
    BY <2>2 DEF Agrees, RowsFit
  <2> QED  BY <2>2, <2>3, <2>4
<1>d. ASSUME NEW x \in req[q].todo
      PROVE  \E r \in Request : /\ r = [req[q] EXCEPT !.row = x, !.todo = @ \ {x}]
                                /\ r.op = req[q].op /\ r.row = x /\ r.todo = req[q].todo \ {x}
  <2>1. x \in Rows
    BY <1>r
  <2>2. [req[q] EXCEPT !.row = x, !.todo = @ \ {x}] \in Request
    BY <1>r, <2>1, LocalsTyped
  <2> QED  BY <1>r, <2>2 DEF Request
<1>1. CASE DispatchAccepted(q)
  <2>0. At(q, "sending") /\ UNCHANGED <<campaign, row>>
    BY <1>1 DEF DispatchAccepted
  <2>1. PICK x \in req[q].todo :
          With(q, [req[q] EXCEPT !.row = x, !.todo = @ \ {x}], "accepted") /\ Deliver(x)
    BY <1>1 DEF DispatchAccepted
  <2>2. PICK r \in Request : /\ r = [req[q] EXCEPT !.row = x, !.todo = @ \ {x}]
                             /\ r.op = req[q].op /\ r.row = x /\ r.todo = req[q].todo \ {x}
    BY <1>d
  <2>3. Agrees(req[q], "sending") /\ Alone(q)
    BY <1>s, <2>0
  <2>4. Sendable(x) /\ x \in Rows
    BY <1>r, <1>s, <2>0
  <2>5. delivered[x] = 0
    BY <2>3, <2>4 DEF Agrees, DeliveriesFit, Sendable
  <2>6. \A y \in Rows : delivered'[y] = IF y = x THEN 1 ELSE delivered[y]
    BY <1>r, <2>1, <2>5 DEF Deliver
  <2>7. DeliveriesFit(r, "accepted")'
    BY <2>0, <2>2, <2>3, <2>6 DEF DeliveriesFit, Agrees
  <2>8. StatusFits(r.op, "accepted")'
    <3>1. Marked(req[q].op, "sending") /\ Marked(req[q].op, "accepted") /\ "sending" \notin AtRest
      BY <1>s, <2>0
    <3> QED  BY <2>0, <2>2, <2>3, <3>1 DEF StatusFits, Exists, Agrees
  <2>9. CountersFit(r, "accepted")'
    BY DEF CountersFit, Uncounted
  <2>10. RowsFit(r, "accepted")'
    <3>1. \A y \in r.todo : Sendable(y)
      BY <1>s, <2>0, <2>2
    <3> QED  BY <2>0, <2>2, <2>4, <3>1 DEF RowsFit, Sendable
  <2>11. OwnStep(r.op, "accepted") /\ "accepted" \in Steps \ {"idle"}
    BY <1>s, <2>0, <2>2
  <2>12. Agrees(r, "accepted")'
    BY <2>7, <2>8, <2>9, <2>10, <2>11 DEF Agrees, OwnStep
  <2> QED  BY <2>1, <2>2, <2>3, <2>11, <2>12, GoesSoundly
<1>2. CASE DispatchThrows(q)
  <2>0. At(q, "sending") /\ UNCHANGED <<campaign, row>>
    BY <1>2 DEF DispatchThrows
  <2>1. PICK x \in req[q].todo :
          /\ With(q, [req[q] EXCEPT !.row = x, !.todo = @ \ {x}], "refused")
          /\ \/ UNCHANGED <<delivered, faults>>
             \/ faults < MaxFaults /\ faults' = faults + 1 /\ Deliver(x)
    BY <1>2 DEF DispatchThrows
  <2>2. PICK r \in Request : /\ r = [req[q] EXCEPT !.row = x, !.todo = @ \ {x}]
                             /\ r.op = req[q].op /\ r.row = x /\ r.todo = req[q].todo \ {x}
    BY <1>d
  <2>3. UNCHANGED delivered
    BY <2>1
  <2>4. Agrees(req[q], "sending") /\ Alone(q)
    BY <1>s, <2>0
  <2>5. Sendable(x) /\ \A y \in r.todo : Sendable(y)
    BY <1>s, <2>0, <2>2
  <2>6. RowsFit(r, "refused")
    BY <2>2, <2>5 DEF RowsFit
  <2>7. /\ OwnStep(r.op, "refused") /\ "refused" \in Steps \ {"idle"} /\ "sending" \in Serving
        /\ Marked(r.op, "sending") /\ Marked(r.op, "refused") /\ "refused" \in Uncounted
    BY <1>s, <2>0, <2>2 DEF RunSteps
  <2>8. Agrees(r, "refused")
    BY <2>2, <2>4, <2>6, <2>7, MoveAgrees
  <2> QED  BY <2>0, <2>1, <2>2, <2>3, <2>4, <2>7, <2>8, QuietlySound
<1>p. PICK x : x = req[q].row
  OBVIOUS
<1>3. CASE RecordSuccess(q)
  <2>0. /\ At(q, "accepted") /\ UNCHANGED <<campaign, delivered>> /\ With(q, req[q], "sending")
        /\ row' = [row EXCEPT ![x] = "SUCCESS"]
    BY <1>3, <1>p DEF RecordSuccess, Goes
  <2>1. Agrees(req[q], "accepted") /\ Alone(q)
    BY <1>s, <2>0
  <2>2. \A y \in Rows : row'[y] = IF y = x THEN "SUCCESS" ELSE row[y]
    BY <1>r, <2>0
  <2>3. \A y \in Rows : row'[y] \in {"unborn", "PENDING", "FAILED"} => delivered[y] = 0
    BY <1>p, <2>1, <2>2 DEF Agrees, DeliveriesFit
  <2>4. \A y \in req[q].todo : row'[y] \in {"PENDING", "FAILED"}
    <3>1. x \notin req[q].todo /\ \A y \in req[q].todo : Sendable(y)
      BY <1>p, <2>1 DEF Agrees, RowsFit
    <3> QED  BY <1>r, <2>2, <3>1 DEF Sendable
  <2>5. /\ OwnStep(req[q].op, "sending") /\ Marked(req[q].op, "accepted")
        /\ Marked(req[q].op, "sending") /\ "accepted" \notin AtRest
    BY <1>s, <2>0
  <2> QED  BY <1>r, <2>0, <2>1, <2>3, <2>4, <2>5, RowWritten
<1>4. CASE RecordRefused(q)
  <2>0. /\ At(q, "refused") /\ UNCHANGED <<campaign, delivered>>
        /\ With(q, [req[q] EXCEPT !.failed = @ \cup {x}], "sending")
        /\ row' = [row EXCEPT ![x] = "FAILED"]
    BY <1>4, <1>p DEF RecordRefused, RecordFailure
  <2>1. Agrees(req[q], "refused") /\ Alone(q)
    BY <1>s, <2>0
  <2>2. x \in Rows
    BY <1>p, <1>r, <2>0 DEF At, OnARow
  <2>3. PICK r : r = [req[q] EXCEPT !.failed = @ \cup {x}]
    OBVIOUS
  <2>4. r \in Request /\ r.op = req[q].op /\ r.todo = req[q].todo
    <3>1. req[q].failed \cup {x} \in SUBSET Rows
      BY <1>r, <2>2, LocalsTyped
    <3>2. r \in Request
      BY <1>r, <2>3, <3>1, LocalsTyped
    <3> QED  BY <1>r, <2>3, <3>2 DEF Request
  <2>5. \A y \in Rows : row'[y] = IF y = x THEN "FAILED" ELSE row[y]
    BY <1>r, <2>0
  <2>6. x \notin req[q].todo /\ Sendable(x) /\ \A y \in req[q].todo : Sendable(y)
    BY <1>p, <2>1 DEF Agrees, RowsFit
  <2>7. \A y \in Rows : row'[y] \in {"unborn", "PENDING", "FAILED"} => delivered[y] = 0
    BY <2>1, <2>5, <2>6 DEF Agrees, DeliveriesFit, Sendable
  <2>8. \A y \in r.todo : row'[y] \in {"PENDING", "FAILED"}
    BY <1>r, <2>4, <2>5, <2>6 DEF Sendable
  <2>9. /\ OwnStep(r.op, "sending") /\ Marked(r.op, "refused")
        /\ Marked(r.op, "sending") /\ "refused" \notin AtRest
    BY <1>s, <2>0, <2>4
  <2>10. With(q, r, "sending")
    BY <2>0, <2>3
  <2> QED  BY <2>0, <2>1, <2>4, <2>7, <2>8, <2>9, <2>10, RowWritten
<1>5. CASE RowGone(q)
  <2>1. req[q].step \in {"accepted", "refused"} /\ ~Live(x)
    BY <1>5, <1>p DEF RowGone
  <2>2. PICK s \in {"accepted", "refused"} : At(q, s)
    BY <2>1 DEF At
  <2>3. Agrees(req[q], s)
    BY <1>s, <2>2
  <2>4. Sendable(x)
    BY <1>p, <2>2, <2>3 DEF Agrees, RowsFit
  <2> QED  BY <2>1, <2>4 DEF Sendable, Live, RowStatus
(* An edited row: what its edit does to it, and that it may be gone.       *)
<1>6. ASSUME NEW s \in {"updating", "deleting"}, At(q, s), UNCHANGED <<campaign, delivered>>,
             With(q, req[q], IF Live(x) THEN "syncing" ELSE "aborted"),
             ~Live(x) => row' = row,
             \A y \in Rows : row'[y] \in {"unborn", "PENDING", "FAILED"} =>
                               row[y] \in {"unborn", "PENDING", "FAILED"}
      PROVE  SerialSound'
  <2>1. s \in Serving /\ s \notin Uncounted /\ s \notin AtRest
    BY DEF EditSteps, Uncounted, AtRest, EndSteps
  <2>2. Alone(q) /\ Agrees(req[q], s) /\ req[q].op \in {"updateRow", "removeRow"}
    BY <1>a, <1>6, <2>1 DEF OwnStep
  <2>3. ~Marked(req[q].op, s) /\ ~Marked(req[q].op, "syncing")
    BY <2>2 DEF Marked, Running
  <2>4. OwnStep(req[q].op, "syncing")
    BY <2>2 DEF OwnStep, RunSteps, SyncSteps
  <2>5. CASE Live(x)
    <3>1. \A y \in Rows : row'[y] \in {"unborn", "PENDING", "FAILED"} => delivered[y] = 0
      BY <1>6, <2>2 DEF Agrees, DeliveriesFit
    <3> QED  BY <1>6, <1>r, <2>1, <2>2, <2>3, <2>4, <2>5, <3>1, RowWritten
  <2>6. CASE ~Live(x)
    <3>1. Agrees(req[q], "aborted") /\ "aborted" \in Steps \ {"idle"}
      BY <2>1, <2>2, <2>3, EndsOf
    <3>2. With(q, req[q], "aborted") /\ UNCHANGED <<campaign, row, delivered>>
      BY <1>6, <2>6
    <3> QED  BY <1>r, <2>2, <3>1, <3>2, QuietlySound
  <2> QED  BY <2>5, <2>6
<1>7. CASE UpdateRow(q)
  <2>0. /\ At(q, "updating") /\ UNCHANGED <<campaign, delivered>>
        /\ With(q, req[q], IF Live(x) THEN "syncing" ELSE "aborted")
        /\ row' = IF Live(x) /\ req[q].wasFailed THEN [row EXCEPT ![x] = "PENDING"] ELSE row
    BY <1>7, <1>p DEF UpdateRow
  <2>1. req[q].wasFailed => row[x] = "FAILED"
    <3>1. "updating" \in Serving
      BY DEF EditSteps
    <3>2. Agrees(req[q], "updating")
      BY <1>a, <2>0, <3>1
    <3> QED  BY <1>p, <3>2 DEF Agrees, RowsFit
  <2>2. \A y \in Rows : row'[y] \in {"unborn", "PENDING", "FAILED"} =>
                          row[y] \in {"unborn", "PENDING", "FAILED"}
    BY <1>r, <2>0, <2>1
  <2>3. ~Live(x) => row' = row
    BY <2>0
  <2> QED  BY <1>6, <2>0, <2>2, <2>3
<1>8. CASE DeleteRow(q)
  <2>0. /\ At(q, "deleting") /\ UNCHANGED <<campaign, delivered>>
        /\ With(q, req[q], IF Live(x) THEN "syncing" ELSE "aborted")
        /\ row' = IF Live(x) THEN [row EXCEPT ![x] = "deleted"] ELSE row
    BY <1>8, <1>p DEF DeleteRow
  <2>1. \A y \in Rows : row'[y] \in {"unborn", "PENDING", "FAILED"} =>
                          row[y] \in {"unborn", "PENDING", "FAILED"}
    BY <1>r, <2>0
  <2>2. ~Live(x) => row' = row
    BY <2>0
  <2> QED  BY <1>6, <2>0, <2>1, <2>2
<1> QED  BY <1>1, <1>2, <1>3, <1>4, <1>5, <1>7, <1>8

LEMMA SerialInit == CampaignInit => SerialInv
<1> SUFFICES ASSUME CampaignInit PROVE SerialSound
  BY DEF SerialInv
<1>1. PICK first \in SUBSET Rows :
        /\ campaign = [status |-> IF first = {} THEN "DRAFT" ELSE "READY",
                       hasRun |-> FALSE,
                       counts |-> [NoCounts EXCEPT !["PENDING"] = Cardinality(first)]]
        /\ row = [r \in Rows |-> IF r \in first THEN "PENDING" ELSE "unborn"]
  BY DEF CampaignInit, CampaignStart
<1>2. \A q \in Requests : ~Active(q)
  BY DEF CampaignInit, CampaignStart, Active, NewRequest
<1>3. \A r \in Rows : delivered[r] = 0
  BY DEF CampaignInit, CampaignStart
<1>4. {x \in Rows : row[x] = "PENDING"} = first
  BY <1>1
<1>5. {x \in Rows : row[x] = "SUCCESS"} = {} /\ {x \in Rows : row[x] = "FAILED"} = {}
  BY <1>1
<1>6. campaign.counts = CountRows
  <2>1. \A st \in RowStatus : Cardinality({x \in Rows : row[x] = st}) =
                                IF st = "PENDING" THEN Cardinality(first) ELSE 0
    BY <1>4, <1>5, FS_EmptySet DEF RowStatus
  <2>2. campaign.counts = [NoCounts EXCEPT !["PENDING"] = Cardinality(first)]
    BY <1>1
  <2> QED  BY <2>1, <2>2 DEF NoCounts, CountRows
<1>7. StatusFits("none", "idle")
  <2>1. campaign.status \in {"DRAFT", "READY"}
    BY <1>1
  <2> QED  BY <2>1, AtRestIsOff DEF StatusFits
<1>8. CountersFit(NewRequest, "idle") /\ DeliveriesFit(NewRequest, "idle")
  BY <1>3, <1>6 DEF CountersFit, DeliveriesFit
<1>9. RowsFit(NewRequest, "idle") /\ OwnStep("none", "idle")
  BY AtRestIsOff DEF RowsFit
<1>10. Agrees(NewRequest, "idle")
  <2>1. NewRequest.op = "none"
    BY DEF NewRequest
  <2> HIDE DEF NewRequest
  <2> QED  BY <1>7, <1>8, <1>9, <2>1 DEF Agrees
<1> QED  BY <1>2, <1>10 DEF SerialSound

LEMMA SerialStep == TypeInv /\ SerialInv /\ [CampaignNext]_vars => SerialInv'
<1> SUFFICES ASSUME TypeInv, SerialInv, [CampaignNext]_vars, Serial, faults' = 0
             PROVE  SerialSound'
  BY DEF SerialInv
<1>1. CASE UNCHANGED vars
  <2>1. UNCHANGED <<campaign, row, req, delivered, faults>>
    BY <1>1 DEF vars, campaignVars
  <2>2. \A r, s : Agrees(r, s) => Agrees(r, s)'
    BY <2>1, QuietAgrees
  <2>3. \A q \in Requests : Active(q)' <=> Active(q)
    BY <2>1 DEF Active, Ended
  <2>4. SerialSound
    BY <2>1 DEF SerialInv
  <2>5. \A q \in Requests : Active(q)' => Alone(q)' /\ Agrees(req[q], req[q].step)'
    BY <2>1, <2>2, <2>3, <2>4 DEF SerialSound, Alone
  <2> QED  BY <2>2, <2>3, <2>4, <2>5 DEF SerialSound
<1>2. ASSUME NEW q \in Requests, BeginRequest(q) \/ Continue(q) \/ CrashRequest(q)
      PROVE  SerialSound'
  <2>1. faults = 0
    BY <1>2, EachIsAccountStep DEF AccountStep
  <2>2. SerialSound
    BY <2>1 DEF SerialInv
  <2>3. ~HoldThrows(q) /\ ~RecordThrows(q) /\ ~CrashRequest(q)
    BY <2>1 DEF HoldThrows, RecordThrows, CrashRequest
  <2>4. CASE BeginRequest(q)
    BY <2>2, <2>4, BeginSound
  <2>5. CASE Continue(q)
    BY <2>1, <2>2, <2>3, <2>5, QuietStepsSound, CampaignStepsSound, RowStepsSound
       DEF Continue, RunStep, EditStep
  <2> QED  BY <1>2, <2>3, <2>4, <2>5
<1> QED  BY <1>1, <1>2 DEF CampaignNext

LEMMA SerialAgrees == SerialInv => SerialRequestsAgree
<1> SUFFICES ASSUME SerialSound
             PROVE  /\ \A r \in Rows : delivered[r] <= 1
                    /\ Exists /\ (\A q \in Requests : ~Active(q)) =>
                         campaign.counts = CountRows /\ campaign.status # "RUNNING"
  BY DEF SerialInv, SerialRequestsAgree
<1>1. \E r, s : Agrees(r, s)
  BY DEF SerialSound
<1>2. \A r \in Rows : delivered[r] <= 1
  BY <1>1 DEF Agrees, DeliveriesFit
<1>3. ASSUME Exists, \A q \in Requests : ~Active(q)
      PROVE  campaign.counts = CountRows /\ campaign.status # "RUNNING"
  <2>1. Agrees(NewRequest, "idle")
    BY <1>3 DEF SerialSound
  <2>2. "idle" \notin Uncounted /\ "idle" \in AtRest
    BY AtRestIsOff
  <2>3. campaign.counts = CountRows
    BY <1>3, <2>1, <2>2 DEF Agrees, CountersFit
  <2>4. campaign.status # "RUNNING"
    BY <1>3, <2>1, <2>2, AtRestIsOff DEF Agrees, StatusFits
  <2> QED  BY <2>3, <2>4
<1> QED  BY <1>2, <1>3

LEMMA SerialHolds == CampaignSpec => [](TypeInv /\ SerialInv)
<1>1. CampaignInit => TypeInv /\ SerialInv
  BY StartsShared, TypeStarts, SerialInit
<1>2. (TypeInv /\ SerialInv) /\ [CampaignNext]_vars => (TypeInv /\ SerialInv)'
  BY TypeStep, SerialStep
<1> QED  BY <1>1, <1>2, PTL DEF CampaignSpec

(* When requests come one after the other and nothing fails, no recipient  *)
(* gets a message twice, and between two requests the counters are those   *)
(* of the rows and the campaign is not RUNNING.                            *)
THEOREM SerialRequestsDoAgree == CampaignSpec => []SerialRequestsAgree
BY SerialHolds, SerialAgrees, PTL

-----------------------------------------------------------------------------
(* Cancelled campaigns                                                     *)

(* What a step may do to a cancelled campaign.                             *)
LeavesFrozen ==
  /\ UNCHANGED <<walletVars, log, delivered>>
  /\ \A r \in Rows : row'[r] \in {row[r], "deleted"}
  /\ \/ campaign'.status = "CANCELLED"
     \/ campaign'.status = "DRAFT" /\ \A r \in Rows : ~Live(r)

(* Where the steps of a request begin.                                     *)
LEMMA StepsBegin ==
  ASSUME NEW q \in Requests
  PROVE  /\ RunStep(q) => req[q].step \in RunSteps
         /\ UpdateRow(q) => req[q].step = "updating"
         /\ SeeOldRows(q) => req[q].step = "importing"
         /\ CommitImport(q) \/ ImportGone(q) => req[q].step = "replacing"
         /\ DropCampaign(q) => req[q].step = "dropping"
         /\ CancelCampaign(q) => req[q].step = "cancelling"
<1>1. PickRows(q) \/ CheckWallet(q) \/ MarkRunning(q) => req[q].step \in RunSteps
  BY DEF PickRows, CheckWallet, MarkRunning, SetCampaign, Goes, At, RunSteps
<1>2. ReadForHold(q) \/ CommitHold(q) \/ HoldThrows(q) \/ RestoreStatus(q) => req[q].step \in RunSteps
  BY DEF ReadForHold, CommitHold, HoldThrows, RestoreStatus, SetCampaign, Goes, At, RunSteps
<1>3. DispatchAccepted(q) \/ DispatchThrows(q) \/ RecordSuccess(q) \/ RecordRefused(q)
      \/ RecordThrows(q) \/ RowGone(q) => req[q].step \in RunSteps
  BY DEF DispatchAccepted, DispatchThrows, RecordSuccess, RecordRefused, RecordThrows, RecordFailure,
         RowGone, Goes, At, RunSteps
<1>4. ReadForRefund(q) \/ CommitRefund(q) \/ FinishRun(q) => req[q].step \in RunSteps
  BY DEF ReadForRefund, CommitRefund, FinishRun, SetCampaign, Goes, At, RunSteps
<1>5. RunStep(q) => req[q].step \in RunSteps
  BY <1>1, <1>2, <1>3, <1>4 DEF RunStep
<1> QED  BY <1>5 DEF UpdateRow, SeeOldRows, CommitImport, ImportGone, DropCampaign, CancelCampaign,
                     SetCampaign, Goes, At

LEMMA CancelledStep ==
  ASSUME TypeInv, SerialSound, NEW q \in Requests, campaign.status = "CANCELLED",
         BeginRequest(q) \/ Continue(q) \/ CrashRequest(q)
  PROVE  LeavesFrozen
<1>r. /\ campaign \in [status : CampaignStatus, hasRun : BOOLEAN, counts : Counters]
      /\ row \in [Rows -> RowStatus \cup {"unborn", "deleted"}]
  BY Typed DEF TypeInv
<1>q. ASSUME UNCHANGED <<walletVars, campaign, row, log, delivered>> PROVE LeavesFrozen
  BY <1>q DEF LeavesFrozen
(* Only removeRow serves a cancelled campaign.                             *)
<1>o. ASSUME req[q].step \in RunSteps \cup EditSteps \cup SyncSteps
      PROVE  /\ req[q].op = "removeRow" /\ Agrees(req[q], req[q].step)
             /\ req[q].step \notin RunSteps
             /\ req[q].step \notin {"updating", "importing", "replacing", "dropping", "cancelling"}
  <2>1. PICK s \in RunSteps \cup EditSteps \cup SyncSteps : At(q, s)
    BY <1>o DEF At
  <2>2. Agrees(req[q], s) /\ s \notin AtRest
    BY <2>1, ServedAlone, AtRestIsOff
  <2>3. req[q].op = "removeRow"
    BY <2>2 DEF Agrees, StatusFits, Exists
  <2>4. s \notin RunSteps /\ s \notin {"updating", "importing", "replacing", "dropping", "cancelling"}
    BY <2>2, <2>3 DEF Agrees, OwnStep, Running
  <2> QED  BY <2>1, <2>2, <2>3, <2>4 DEF At
<1>n. /\ ~RunStep(q) /\ ~UpdateRow(q) /\ ~SeeOldRows(q) /\ ~CommitImport(q) /\ ~ImportGone(q)
      /\ ~DropCampaign(q) /\ ~CancelCampaign(q)
  <2>1. {"updating", "importing", "replacing", "dropping", "cancelling"} \subseteq EditSteps
    BY DEF EditSteps
  <2> QED  BY <1>o, <2>1, StepsBegin
<1>1. CASE BeginRequest(q)
  <2>1. Quiet
    BY <1>1, BeginMoves DEF QuietMove, TypeInv
  <2> QED  BY <1>q, <2>1 DEF Quiet
<1>2. CASE CrashRequest(q)
  <2>1. UNCHANGED <<walletVars, campaign, row, delivered>>
    BY <1>2 DEF CrashRequest
  <2>2. req[q].step \notin {"accepted", "refused"}
    BY <1>o DEF RunSteps
  <2>3. UNCHANGED log
    BY <1>2, <2>2 DEF CrashRequest, At
  <2> QED  BY <1>q, <2>1, <2>3
<1>3. CASE FindRow(q) \/ CountRemaining(q) \/ CountForSync(q)
  BY <1>3, <1>q DEF FindRow, CountRemaining, CountForSync
<1>4. CASE DeleteRow(q)
  <2>1. UNCHANGED <<walletVars, campaign, log, delivered>>
    BY <1>4 DEF DeleteRow
  <2>2. \A x \in Rows : row'[x] \in {row[x], "deleted"}
    BY <1>4, <1>r DEF DeleteRow
  <2> QED  BY <2>1, <2>2 DEF LeavesFrozen
<1>5. CASE WriteCounters(q)
  <2>1. UNCHANGED <<walletVars, row, log, delivered>>
    BY <1>5 DEF WriteCounters
  <2>2. campaign' = [campaign EXCEPT !.counts = req[q].counts] \/ campaign' = campaign
    BY <1>5 DEF WriteCounters, SetCampaign
  <2>3. campaign'.status = "CANCELLED"
    BY <1>r, <2>2
  <2> QED  BY <2>1, <2>3 DEF LeavesFrozen
<1>6. CASE BackToDraft(q)
  <2>1. UNCHANGED <<walletVars, row, log, delivered>> /\ req[q].step = "emptying"
    BY <1>6 DEF BackToDraft, SetCampaign, Goes, At
  <2>2. campaign' = [campaign EXCEPT !.status = "DRAFT"] \/ campaign' = campaign
    BY <1>6 DEF BackToDraft, SetCampaign
  <2>3. campaign'.status \in {"DRAFT", "CANCELLED"}
    BY <1>r, <2>2
  <2>4. \A x \in Rows : ~Live(x)
    BY <1>o, <2>1 DEF Agrees, RowsFit, EditSteps
  <2> QED  BY <2>1, <2>3, <2>4 DEF LeavesFrozen
<1> QED  BY <1>n, <1>1, <1>2, <1>3, <1>4, <1>5, <1>6 DEF Continue, EditStep

(* "Campaign is cancelled": when requests come one after the other, what   *)
(* is still served of a cancelled campaign sends, logs and charges nothing *)
(* and writes no row but to delete it.                                     *)
THEOREM CancelledStaysFrozen == CampaignSpec => CancelledIsFrozen
<1>1. TypeInv /\ SerialInv /\ [CampaignNext]_vars =>
        [Serial /\ faults = 0 /\ campaign.status = "CANCELLED" => LeavesFrozen]_vars
  <2> SUFFICES ASSUME TypeInv, SerialSound, CampaignNext, campaign.status = "CANCELLED"
               PROVE  LeavesFrozen
    BY DEF SerialInv
  <2>1. PICK q \in Requests : BeginRequest(q) \/ Continue(q) \/ CrashRequest(q)
    BY DEF CampaignNext
  <2> QED  BY <2>1, CancelledStep
<1>2. TypeInv /\ SerialInv /\ [CampaignNext]_vars =>
        [Serial /\ faults = 0 /\ campaign.status = "CANCELLED" =>
           /\ UNCHANGED <<walletVars, log, delivered>>
           /\ \A r \in Rows : row'[r] \in {row[r], "deleted"}
           /\ \/ campaign'.status = "CANCELLED"
              \/ campaign'.status = "DRAFT" /\ \A r \in Rows : ~Live(r)]_vars
  BY <1>1 DEF LeavesFrozen
<1> QED  BY <1>2, SerialHolds, PTL DEF CampaignSpec, CancelledIsFrozen
=============================================================================
