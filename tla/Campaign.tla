------------------------------- MODULE Campaign -------------------------------
(***************************************************************************)
(* CampaignsService: one campaign, its rows (recipients) and the requests  *)
(* that work on it.  execute and retry send a batch of rows in the request *)
(* itself: the charge for the batch is held from the wallet, the rows are  *)
(* sent one by one, the charge of the failed ones is refunded.  Meanwhile  *)
(* other requests import rows, edit or delete them, cancel the campaign or *)
(* run it again; nothing locks it, and each checks the status it read      *)
(* first.                                                                  *)
(*                                                                         *)
(* A request is a process that stops at every await.  Requests that the    *)
(* first checks refuse end in "rejected"; an exception in the middle ends  *)
(* in "aborted".  Template, workspace and OA checks belong to other        *)
(* components: here they pass.  Zalo is external, as in Sending.           *)
(***************************************************************************)
EXTENDS WalletStore, FiniteSets

CONSTANTS Requests,        \* requests to the campaign's endpoints
          Rows,            \* row ids; an import takes new ones
          Prices,          \* prices per message in force when a run starts
          Credits,         \* credits bought before
          Ops,             \* bound: the operations requests may ask for
          MaxFaults,       \* bound: crashes and failed writes
          Serial,          \* TRUE: one request at a time
          NoRow            \* "no row"

ASSUME CampaignSources == Requests \subseteq Sources
ASSUME CampaignNumbers == /\ Prices \subseteq Nat
                          /\ Credits \subseteq Nat
                          /\ MaxFaults \in Nat
ASSUME CampaignRows == IsFiniteSet(Rows) /\ NoRow \notin Rows
ASSUME CampaignOps == Ops \subseteq {"execute", "retry", "importCsv", "updateRow",
                                     "removeRow", "remove"}
ASSUME SerialIsFlag == Serial \in BOOLEAN

VARIABLES campaign,   \* the Campaign row: status, lastRunAt set?, counters
          row,        \* status of each CampaignRow, "unborn" or "deleted"
          req,        \* progress of each request
          log,        \* MessageLog rows written by runs
          delivered,  \* external: how often Zalo accepted each row's message
          faults      \* number of faults so far

campaignVars == <<campaign, row, req, log, delivered, faults>>
vars == <<walletVars, campaignVars>>

RowStatus == {"PENDING", "SUCCESS", "FAILED"}
Live(r) == row[r] \in RowStatus
CampaignStatus == {"DRAFT", "READY", "RUNNING", "COMPLETED", "CANCELLED", "gone"}
Exists == campaign.status # "gone"

Counters == [RowStatus -> Nat]
CountRows == [st \in RowStatus |-> Cardinality({r \in Rows : row[r] = st})]

RunSteps  == {"picking", "pricing", "marking", "holding", "debiting", "restoring",
              "sending", "accepted", "refused", "crediting", "finishing"}
EditSteps == {"importing", "replacing", "finding", "updating", "deleting", "counting", "emptying",
              "dropping", "cancelling"}
SyncSteps == {"syncing", "synced"}
EndSteps  == {"done", "unpaid", "rejected", "aborted", "lost"}

Request == [op     : Ops \cup {"none"},
            step   : {"idle"} \cup RunSteps \cup EditSteps \cup SyncSteps \cup EndSteps,
            hadRun : BOOLEAN,          \* lastRunAt when the campaign was read
            price  : Nat,
            batch  : SUBSET Rows,      \* rows picked for the run, or to be replaced
            todo   : SUBSET Rows,      \* rows not yet sent
            failed : SUBSET Rows,      \* failedCount
            row    : Rows \cup {NoRow},
            wasFailed : BOOLEAN,       \* the edited row's status when read
            seen   : Int,              \* balance read in the transaction
            counts : Counters]         \* rows counted for the counters

NoCounts == [st \in RowStatus |-> 0]
NewRequest == [op |-> "none", step |-> "idle", hadRun |-> FALSE, price |-> 0,
               batch |-> {}, todo |-> {}, failed |-> {}, row |-> NoRow,
               wasFailed |-> FALSE, seen |-> 0, counts |-> NoCounts]

LogRow == [req : Requests, row : Rows, status : {"SUCCESS", "FAILED"}]

CampaignTypeOK ==
  /\ WalletTypeOK
  /\ campaign \in [status : CampaignStatus, hasRun : BOOLEAN, counts : Counters]
  /\ row \in [Rows -> RowStatus \cup {"unborn", "deleted"}]
  /\ req \in [Requests -> Request]
  /\ log \in SUBSET LogRow
  /\ delivered \in [Rows -> Nat]
  /\ faults \in 0..MaxFaults

(* A new campaign: a DRAFT, or READY once a file was imported.             *)
CampaignStart ==
  /\ \E first \in SUBSET Rows :
       /\ campaign = [status |-> IF first = {} THEN "DRAFT" ELSE "READY",
                      hasRun |-> FALSE,
                      counts |-> [NoCounts EXCEPT !["PENDING"] = Cardinality(first)]]
       /\ row = [r \in Rows |-> IF r \in first THEN "PENDING" ELSE "unborn"]
  /\ req = [q \in Requests |-> NewRequest]
  /\ log = {}
  /\ delivered = [r \in Rows |-> 0]
  /\ faults = 0

CampaignInit ==
  /\ \E b \in Credits : wallet = AccountWith(TRUE, b)
  /\ ledger = <<>>
  /\ CampaignStart

-----------------------------------------------------------------------------
At(q, step) == req[q].step = step

(* Local variables that are out of scope at a step are forgotten.          *)
Scoped(r, step) ==
  IF step \in EndSteps
  THEN [NewRequest EXCEPT !.op = r.op, !.step = step, !.price = r.price]
  ELSE [r EXCEPT !.step = step,
                 !.row = IF step \in {"accepted", "refused", "updating", "deleting"}
                         THEN @ ELSE NoRow,
                 !.seen = IF step \in {"debiting", "crediting"} THEN @ ELSE 0,
                 !.counts = IF step = "synced" THEN @ ELSE NoCounts]

(* The request goes on with step "to" and local variables r.               *)
With(q, r, to) == req' = [req EXCEPT ![q] = Scoped(r, to)]
Goes(q, from, to) == At(q, from) /\ With(q, req[q], to)
Ended(q) == req[q].step \in EndSteps
Active(q) == req[q].step # "idle" /\ ~Ended(q)

(* A new request with its first read of the campaign (getCampaignContext). *)
Arrives(q, op) ==
  /\ op \in Ops
  /\ At(q, "idle")
  /\ Exists
  /\ Serial => \A p \in Requests : ~Active(p)

Begin(q, op, allowed, step) ==
  /\ Arrives(q, op)
  /\ With(q, [req[q] EXCEPT !.op = op, !.hadRun = campaign.hasRun],
          IF allowed THEN step ELSE "rejected")
  /\ UNCHANGED <<walletVars, campaign, row, log, delivered, faults>>

(* campaign.update throws when the campaign was deleted meanwhile.         *)
SetCampaign(q, from, to, otherwise, c) ==
  /\ Goes(q, from, IF Exists THEN to ELSE otherwise)
  /\ campaign' = IF Exists THEN c ELSE campaign

-----------------------------------------------------------------------------
(* execute, retry and runSendBatch                                         *)

(* Fault: a cancelled campaign can be run.                                 *)
CanRunUnlessRunning == campaign.status # "RUNNING"

(* assertCanRun                                                            *)
CanRun == campaign.status \notin {"CANCELLED", "RUNNING"}

BeginRun(q) == \E op \in {"execute", "retry"} : Begin(q, op, CanRun, "picking")

(* Fault: execute also takes the rows sent before.                         *)
PickedAgain(q, batch) ==
  IF req[q].op = "execute"
  THEN batch = {r \in Rows : row[r] \in {"PENDING", "SUCCESS"}}
  ELSE batch \in SUBSET {r \in Rows : row[r] = "FAILED"}

(* All PENDING rows, or the rows asked for if all of them are FAILED.      *)
Picked(q, batch) ==
  IF req[q].op = "execute"
  THEN batch = {r \in Rows : row[r] = "PENDING"}
  ELSE batch \in SUBSET {r \in Rows : row[r] = "FAILED"}

PickRows(q) ==
  /\ At(q, "picking")
  /\ \/ \E batch \in SUBSET Rows :
          /\ Picked(q, batch)
          /\ batch # {}
          /\ With(q, [req[q] EXCEPT !.batch = batch, !.todo = batch], "pricing")
     \/ /\ req[q].op = "execute" => \A r \in Rows : row[r] # "PENDING"
        /\ With(q, req[q], "rejected")
  /\ UNCHANGED <<walletVars, campaign, row, log, delivered, faults>>

Charge(q) == req[q].price * Cardinality(req[q].batch)

Refund(q) == req[q].price * Cardinality(req[q].failed)

(* The price is resolved, and the wallet read a first time.                *)
CheckWallet(q) ==
  /\ At(q, "pricing")
  /\ \E p \in Prices :
       With(q, [req[q] EXCEPT !.price = p],
            IF wallet.exists /\ wallet.balance >= p * Cardinality(req[q].batch)
            THEN "marking" ELSE "rejected")
  /\ UNCHANGED <<walletVars, campaign, row, log, delivered, faults>>

MarkRunning(q) ==
  /\ SetCampaign(q, "marking", "holding", "aborted", [campaign EXCEPT !.status = "RUNNING"])
  /\ UNCHANGED <<walletVars, row, log, delivered, faults>>

(* debitWallet: read and check inside the transaction.                     *)
ReadForHold(q) ==
  /\ At(q, "holding")
  /\ With(q, [req[q] EXCEPT !.seen = wallet.balance],
          IF wallet.balance >= Charge(q) THEN "debiting" ELSE "restoring")
  /\ UNCHANGED <<walletVars, campaign, row, log, delivered, faults>>

(* Fault: the hold is not added to totalSpent.                             *)
PostHoldUncounted(q) ==
  /\ Post("CAMPAIGN_HOLD", q, Charge(q), req[q].seen, req[q].seen - Charge(q))
  /\ wallet' = [wallet EXCEPT !.balance = @ - Charge(q)]

(* debitWallet: its writes.                                                *)
PostHold(q) ==
  /\ Post("CAMPAIGN_HOLD", q, Charge(q), req[q].seen, req[q].seen - Charge(q))
  /\ wallet' = [wallet EXCEPT !.balance = @ - Charge(q), !.totalSpent = @ + Charge(q)]

CommitHold(q) ==
  /\ Goes(q, "debiting", "sending")
  /\ PostHold(q)
  /\ UNCHANGED <<campaign, row, log, delivered, faults>>

(* Fault: the run goes on when the hold failed.                            *)
HoldIgnored(q) ==
  /\ faults < MaxFaults
  /\ faults' = faults + 1
  /\ Goes(q, "debiting", "sending")
  /\ \/ UNCHANGED walletVars
     \/ PostHold(q)
  /\ UNCHANGED <<campaign, row, log, delivered>>

(* debitWallet throws: its transaction rolled back, or was committed and   *)
(* the reply lost.                                                         *)
HoldThrows(q) ==
  /\ faults < MaxFaults
  /\ faults' = faults + 1
  /\ Goes(q, "debiting", "restoring")
  /\ \/ UNCHANGED walletVars
     \/ PostHold(q)
  /\ UNCHANGED <<campaign, row, log, delivered>>

(* The debit failed: the status the campaign had before is guessed from    *)
(* lastRunAt, and the request fails.                                       *)
RestoreStatus(q) ==
  /\ SetCampaign(q, "restoring", "unpaid", "aborted",
       [campaign EXCEPT !.status = IF req[q].hadRun THEN "COMPLETED" ELSE "READY"])
  /\ UNCHANGED <<walletVars, row, log, delivered, faults>>

-----------------------------------------------------------------------------
(* sendOneRow                                                              *)

Deliver(r) == delivered' = [delivered EXCEPT ![r] = @ + 1]

(* dispatchZnsTemplate for the next row: createMany gives all rows one     *)
(* createdAt, so their order is arbitrary.                                 *)
DispatchAccepted(q) ==
  /\ At(q, "sending")
  /\ \E r \in req[q].todo :
       /\ With(q, [req[q] EXCEPT !.row = r, !.todo = @ \ {r}], "accepted")
       /\ Deliver(r)
  /\ UNCHANGED <<walletVars, campaign, row, log, faults>>

(* It throws; Zalo may have accepted the message and its answer be lost.   *)
DispatchThrows(q) ==
  /\ At(q, "sending")
  /\ \E r \in req[q].todo :
       /\ With(q, [req[q] EXCEPT !.row = r, !.todo = @ \ {r}], "refused")
       /\ \/ UNCHANGED <<delivered, faults>>
          \/ faults < MaxFaults /\ faults' = faults + 1 /\ Deliver(r)
  /\ UNCHANGED <<walletVars, campaign, row, log>>

Logged(q, statuses) ==
  log' = log \cup {[req |-> q, row |-> req[q].row, status |-> st] : st \in statuses}

(* The SUCCESS log and the row's new status.                               *)
RecordSuccess(q) ==
  /\ Goes(q, "accepted", "sending")
  /\ Live(req[q].row)
  /\ row' = [row EXCEPT ![req[q].row] = "SUCCESS"]
  /\ Logged(q, {"SUCCESS"})
  /\ UNCHANGED <<walletVars, campaign, delivered, faults>>

(* The catch block: the FAILED log and the row's new status.               *)
RecordFailure(q, from, statuses) ==
  /\ At(q, from)
  /\ Live(req[q].row)
  /\ With(q, [req[q] EXCEPT !.failed = @ \cup {req[q].row}], "sending")
  /\ row' = [row EXCEPT ![req[q].row] = "FAILED"]
  /\ Logged(q, statuses)
  /\ UNCHANGED <<walletVars, campaign, delivered>>

(* Fault: a refused row is not counted as failed.                          *)
RefusedUncounted(q) ==
  /\ Goes(q, "refused", "sending")
  /\ Live(req[q].row)
  /\ row' = [row EXCEPT ![req[q].row] = "FAILED"]
  /\ Logged(q, {"FAILED"})
  /\ UNCHANGED <<walletVars, campaign, delivered, faults>>

(* Fault: the catch block writes the status of the try block.              *)
RefusedAsSent(q) ==
  /\ At(q, "refused")
  /\ Live(req[q].row)
  /\ With(q, [req[q] EXCEPT !.failed = @ \cup {req[q].row}], "sending")
  /\ row' = [row EXCEPT ![req[q].row] = "SUCCESS"]
  /\ Logged(q, {"FAILED"})
  /\ UNCHANGED <<walletVars, campaign, delivered, faults>>

RecordRefused(q) == RecordFailure(q, "refused", {"FAILED"}) /\ UNCHANGED faults

(* Writing the SUCCESS log, or the row after it, throws: the same catch    *)
(* block records a message that was sent as failed.                        *)
RecordThrows(q) ==
  /\ faults < MaxFaults
  /\ faults' = faults + 1
  /\ \E st \in {{"FAILED"}, {"SUCCESS", "FAILED"}} : RecordFailure(q, "accepted", st)

(* The row was deleted meanwhile: its update throws in the catch block     *)
(* too, after the logs were written, and the batch stops there.            *)
RowGone(q) ==
  /\ req[q].step \in {"accepted", "refused"}
  /\ ~Live(req[q].row)
  /\ \/ Goes(q, "accepted", "aborted") /\ Logged(q, {"SUCCESS", "FAILED"})
     \/ Goes(q, "refused", "aborted") /\ Logged(q, {"FAILED"})
  /\ UNCHANGED <<walletVars, campaign, row, delivered, faults>>

-----------------------------------------------------------------------------
(* The end of runSendBatch                                                 *)

(* All rows are done; creditWallet's read if any of them failed.           *)
ReadForRefund(q) ==
  /\ At(q, "sending")
  /\ req[q].todo = {}
  /\ With(q, [req[q] EXCEPT !.seen = wallet.balance],
          IF Refund(q) > 0 THEN "crediting" ELSE "syncing")
  /\ UNCHANGED <<walletVars, campaign, row, log, delivered, faults>>

(* creditWallet's writes                                                   *)
CommitRefund(q) ==
  /\ Goes(q, "crediting", "syncing")
  /\ Post("CAMPAIGN_REFUND", q, Refund(q), req[q].seen, req[q].seen + Refund(q))
  /\ wallet' = [wallet EXCEPT !.balance = @ + Refund(q), !.totalRefund = @ + Refund(q)]
  /\ UNCHANGED <<campaign, row, log, delivered, faults>>

(* syncCampaignCounters: the rows are counted, then the counters written.  *)
CountForSync(q) ==
  /\ At(q, "syncing")
  /\ With(q, [req[q] EXCEPT !.counts = CountRows], "synced")
  /\ UNCHANGED <<walletVars, campaign, row, log, delivered, faults>>

AfterSync(q) == CASE req[q].op = "updateRow" -> "done"
                  [] req[q].op = "removeRow" -> "counting"
                  [] OTHER -> "finishing"

WriteCounters(q) ==
  /\ SetCampaign(q, "synced", AfterSync(q), "aborted",
                 [campaign EXCEPT !.counts = req[q].counts])
  /\ UNCHANGED <<walletVars, row, log, delivered, faults>>

(* Fault: only lastRunAt is written.                                       *)
FinishKeepsStatus(q) ==
  /\ SetCampaign(q, "finishing", "done", "aborted", [campaign EXCEPT !.hasRun = TRUE])
  /\ UNCHANGED <<walletVars, row, log, delivered, faults>>

(* COMPLETED and lastRunAt, whatever the status is now.                    *)
FinishRun(q) ==
  /\ SetCampaign(q, "finishing", "done", "aborted",
                 [campaign EXCEPT !.status = "COMPLETED", !.hasRun = TRUE])
  /\ UNCHANGED <<walletVars, row, log, delivered, faults>>

-----------------------------------------------------------------------------
(* importCsv                                                               *)

(* assertCanImport                                                         *)
CanImport == campaign.status \notin {"RUNNING", "CANCELLED"} /\ ~campaign.hasRun

BeginImport(q) == Begin(q, "importCsv", CanImport, "importing")

(* deleteMany: it deletes the rows it sees, not those another import       *)
(* commits later.                                                          *)
SeeOldRows(q) ==
  /\ At(q, "importing")
  /\ With(q, [req[q] EXCEPT !.batch = {r \in Rows : Live(r)}], "replacing")
  /\ UNCHANGED <<walletVars, campaign, row, log, delivered, faults>>

(* The rows of the file are written in their place, the status and the     *)
(* counters set, and the transaction commits.  The code makes the campaign *)
(* a DRAFT if the file has no rows, but the parser has refused such a file *)
(* before (CampaignFile).                                                  *)
CommitImport(q) ==
  /\ Goes(q, "replacing", "done")
  /\ Exists
  /\ \E new \in SUBSET {r \in Rows : row[r] = "unborn"} \ {{}} :
       /\ row' = [r \in Rows |-> IF r \in new THEN "PENDING"
                                 ELSE IF Live(r) /\ r \in req[q].batch THEN "deleted"
                                 ELSE row[r]]
       /\ campaign' = [campaign EXCEPT
            !.status = "READY",
            !.counts = [NoCounts EXCEPT !["PENDING"] = Cardinality(new)]]
  /\ UNCHANGED <<walletVars, log, delivered, faults>>

ImportGone(q) ==
  /\ Goes(q, "replacing", "aborted")
  /\ ~Exists
  /\ UNCHANGED <<walletVars, campaign, row, log, delivered, faults>>

-----------------------------------------------------------------------------
(* updateRow and removeRow                                                 *)

CanEdit(op) == /\ campaign.status # "RUNNING"
               /\ op = "updateRow" => campaign.status # "CANCELLED"

BeginEdit(q) == \E op \in {"updateRow", "removeRow"} : Begin(q, op, CanEdit(op), "finding")

(* The row is looked up.                                                   *)
FindRow(q) ==
  /\ At(q, "finding")
  /\ \/ \E r \in Rows :
          /\ Live(r)
          /\ With(q, [req[q] EXCEPT !.row = r, !.wasFailed = (row[r] = "FAILED")],
                  IF req[q].op = "updateRow" THEN "updating" ELSE "deleting")
     \/ /\ \A r \in Rows : ~Live(r)
        /\ With(q, req[q], "rejected")
  /\ UNCHANGED <<walletVars, campaign, row, log, delivered, faults>>

(* Fault: the row is given the status of a campaign.                       *)
UpdateRowReady(q) ==
  /\ At(q, "updating")
  /\ LET r == req[q].row IN
     /\ With(q, req[q], IF Live(r) THEN "syncing" ELSE "aborted")
     /\ row' = IF Live(r) /\ req[q].wasFailed THEN [row EXCEPT ![r] = "READY"] ELSE row
  /\ UNCHANGED <<walletVars, campaign, log, delivered, faults>>

(* A row that was FAILED when it was read becomes PENDING.                 *)
UpdateRow(q) ==
  /\ At(q, "updating")
  /\ LET r == req[q].row IN
     /\ With(q, req[q], IF Live(r) THEN "syncing" ELSE "aborted")
     /\ row' = IF Live(r) /\ req[q].wasFailed THEN [row EXCEPT ![r] = "PENDING"] ELSE row
  /\ UNCHANGED <<walletVars, campaign, log, delivered, faults>>

DeleteRow(q) ==
  /\ At(q, "deleting")
  /\ LET r == req[q].row IN
     /\ With(q, req[q], IF Live(r) THEN "syncing" ELSE "aborted")
     /\ row' = IF Live(r) THEN [row EXCEPT ![r] = "deleted"] ELSE row
  /\ UNCHANGED <<walletVars, campaign, log, delivered, faults>>

(* removeRow counts the rows that are left ...                             *)
CountRemaining(q) ==
  /\ Goes(q, "counting", IF \E r \in Rows : Live(r) THEN "done" ELSE "emptying")
  /\ UNCHANGED <<walletVars, campaign, row, log, delivered, faults>>

(* ... and makes an empty campaign a DRAFT, whatever its status is.        *)
BackToDraft(q) ==
  /\ SetCampaign(q, "emptying", "done", "aborted", [campaign EXCEPT !.status = "DRAFT"])
  /\ UNCHANGED <<walletVars, row, log, delivered, faults>>

-----------------------------------------------------------------------------
(* remove                                                                  *)

CanRemove == campaign.status # "CANCELLED"

(* A campaign read as DRAFT is deleted, any other one cancelled, also when *)
(* it is running.                                                          *)
BeginRemove(q) ==
  Begin(q, "remove", CanRemove, IF campaign.status = "DRAFT" THEN "dropping" ELSE "cancelling")

(* The campaign is deleted, and its rows with it.                          *)
DropCampaign(q) ==
  /\ SetCampaign(q, "dropping", "done", "aborted", [campaign EXCEPT !.status = "gone"])
  /\ row' = [r \in Rows |-> IF Live(r) THEN "deleted" ELSE row[r]]
  /\ UNCHANGED <<walletVars, log, delivered, faults>>

CancelCampaign(q) ==
  /\ SetCampaign(q, "cancelling", "done", "aborted", [campaign EXCEPT !.status = "CANCELLED"])
  /\ UNCHANGED <<walletVars, row, log, delivered, faults>>

-----------------------------------------------------------------------------
(* The server dies, or a statement throws where no catch block awaits it.  *)
(* Between a row's log and its status the log stays behind.                *)
CrashRequest(q) ==
  /\ faults < MaxFaults
  /\ faults' = faults + 1
  /\ Active(q)
  /\ With(q, req[q], "lost")
  /\ \/ UNCHANGED log
     \/ At(q, "accepted") /\ Logged(q, {"SUCCESS"})
     \/ At(q, "refused") /\ Logged(q, {"FAILED"})
  /\ UNCHANGED <<walletVars, campaign, row, delivered>>

RunStep(q) ==
  \/ PickRows(q) \/ CheckWallet(q) \/ MarkRunning(q)
  \/ ReadForHold(q) \/ CommitHold(q) \/ HoldThrows(q) \/ RestoreStatus(q)
  \/ DispatchAccepted(q) \/ DispatchThrows(q)
  \/ RecordSuccess(q) \/ RecordRefused(q) \/ RecordThrows(q) \/ RowGone(q)
  \/ ReadForRefund(q) \/ CommitRefund(q) \/ FinishRun(q)

EditStep(q) ==
  \/ SeeOldRows(q) \/ CommitImport(q) \/ ImportGone(q)
  \/ FindRow(q) \/ UpdateRow(q) \/ DeleteRow(q) \/ CountRemaining(q) \/ BackToDraft(q)
  \/ DropCampaign(q) \/ CancelCampaign(q)

Continue(q) == RunStep(q) \/ EditStep(q) \/ CountForSync(q) \/ WriteCounters(q)

BeginRequest(q) == BeginRun(q) \/ BeginImport(q) \/ BeginEdit(q) \/ BeginRemove(q)

CampaignNext == \E q \in Requests : BeginRequest(q) \/ Continue(q) \/ CrashRequest(q)

CampaignSpec == CampaignInit /\ [][CampaignNext]_vars

(* A request that is being served goes on; nobody has to send one.         *)
FairCampaignSpec == CampaignSpec /\ \A q \in Requests : WF_vars(Continue(q))

-----------------------------------------------------------------------------
(* Properties                                                              *)

JournalOf(q, type) == {i \in DOMAIN ledger : ledger[i].source = q /\ ledger[i].type = type}
Holds(q)   == JournalOf(q, "CAMPAIGN_HOLD")
Refunds(q) == JournalOf(q, "CAMPAIGN_REFUND")
SentOk(q)  == {r \in Rows : [req |-> q, row |-> r, status |-> "SUCCESS"] \in log}
IsRun(q)   == req[q].op \in {"execute", "retry"}

(* A run that ended normally has cost its price for each message logged    *)
(* SUCCESS and nothing for the others: one hold, one refund if it was due. *)
(* After a fault it may have cost less, never more.                        *)
CostIs(cost, q) ==
  LET worth == req[q].price * Cardinality(SentOk(q))
  IN  IF faults = 0 THEN cost = worth ELSE cost <= worth

RunCostsItsSuccesses ==
  \A q \in Requests : IsRun(q) /\ At(q, "done") =>
    \E h \in Holds(q) :
      /\ Holds(q) = {h}
      /\ \/ Refunds(q) = {} /\ CostIs(ledger[h].amount, q)
         \/ \E f \in Refunds(q) : /\ Refunds(q) = {f}
                                  /\ CostIs(ledger[h].amount - ledger[f].amount, q)

(* A run is a prepaid batch, whatever aborts it and however runs and edits *)
(* overlap: its charge is held once and before anything is sent, no more   *)
(* messages are tried than were paid for, and at most once, when all were  *)
(* tried, it gets back the price of those it logged FAILED.                *)
TheEntry(entries) == CHOOSE i \in entries : entries = {i}
AmountOf(entries) == IF entries = {} THEN -1                            \* none yet
                     ELSE IF entries = {TheEntry(entries)}
                          THEN ledger[TheEntry(entries)].amount
                          ELSE -2                                       \* posted twice
LoggedBy(q, statuses) == {e.row : e \in {l \in log : l.req = q /\ l.status \in statuses}}

Batches == INSTANCE PrepaidBatch WITH
  Runs      <- Requests,
  Recipients <- Rows,
  price     <- [q \in Requests |-> IF Holds(q) = {} THEN 0 ELSE req[q].price],
  held      <- [q \in Requests |-> AmountOf(Holds(q))],
  tried     <- [q \in Requests |-> LoggedBy(q, {"SUCCESS", "FAILED"})],
  failed    <- [q \in Requests |-> LoggedBy(q, {"FAILED"})],
  refunded  <- [q \in Requests |-> AmountOf(Refunds(q))]

ImplementsPrepaidBatch == Batches!Spec

(* A row reads SUCCESS only if Zalo accepted a message for it and a run    *)
(* logged it.                                                              *)
SuccessWasSent ==
  \A r \in Rows : row[r] = "SUCCESS" =>
    /\ delivered[r] > 0
    /\ \E q \in Requests : r \in SentOk(q)

(* Requests that come one after the other, with no fault: no recipient     *)
(* gets the message twice, the counters agree with the rows and RUNNING    *)
(* means that a run is under way.                                          *)
SerialRequestsAgree ==
  Serial /\ faults = 0 =>
    /\ \A r \in Rows : delivered[r] <= 1
    /\ Exists /\ (\A q \in Requests : ~Active(q)) =>
         campaign.counts = CountRows /\ campaign.status # "RUNNING"

(* "Campaign is cancelled": as long as requests come one after the other,  *)
(* a cancelled campaign stays so and loses rows at most; nothing is sent,  *)
(* logged or charged any more.  Only with its last row gone it is a DRAFT. *)
CancelledIsFrozen ==
  [][Serial /\ faults = 0 /\ campaign.status = "CANCELLED" =>
       /\ UNCHANGED <<walletVars, log, delivered>>
       /\ \A r \in Rows : row'[r] \in {row[r], "deleted"}
       /\ \/ campaign'.status = "CANCELLED"
          \/ campaign'.status = "DRAFT" /\ \A r \in Rows : ~Live(r)]_vars

(* Without edits and faults every run ends, and the last one to end leaves *)
(* the campaign not running.                                               *)
RunningEnds == campaign.status = "RUNNING" ~> campaign.status # "RUNNING"

(* assertCanRun, "Campaign is already running": one batch at a time.       *)
Sends(q) == req[q].step \in {"sending", "accepted", "refused"}
OneRunAtATime == \A p, q \in Requests : Sends(p) /\ Sends(q) => p = q
=============================================================================
