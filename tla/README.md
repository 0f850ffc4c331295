# Formal model of the Comvia backend

TLA+ modules, TLC configurations and TLAPS proofs for the NestJS backend in
`src/` (Prisma on PostgreSQL). Paths below are relative to the repository,
`topups.service.ts` and the like being files under `src/src/`.

## 1. Inventory

The backend is one HTTP server. A handler runs as an async function and gives
way at every `await`; there are no background jobs, queues or locks. State lives
in PostgreSQL; interactive transactions run at READ COMMITTED. The only tests
are the generator's "Hello World".

| Component | State | Operations | Interacts with | What is hard | What makes it correct |
|---|---|---|---|---|---|
| Wallet (schema.prisma `WalletAccount`, `WalletTransaction`) | balance, totals, journal rows | none of its own | written by topups, messages, campaigns | absolute and relative updates mixed, stale reads | balance and totals agree with the journal |
| Topups (`topups.service.ts`, `webhooks.controller.ts`, `pay2s.util.ts`) | TopupRequest, Order, Invoice | createTopupWithPay2S, handlePay2sWebhook | Pay2S (external), wallet | repeated, overlapping and unchecked notifications, catch block against webhook, lost replies, crashes | a topup credited at most once, for an announced amount, documented; a payment met by a credit eventually |
| Single messages (`messaging.service.ts`, `public-api.service.ts`, `oa-messaging.service.ts`) | MessageLog | the two sendSingle | Zalo (external), wallet | check-then-act around a remote call | charged iff logged as sent; bounded overdraft |
| Campaigns (`campaigns.service.ts`, `campaign-csv.util.ts`) | Campaign, CampaignRow, MessageLog | create, importCsv, execute, retry, updateRow, removeRow, remove, exportCsvTemplate | Zalo, wallet, a template's placeholders | long batch in a request, other requests beside it, faults in every step; quotes, case and blanks in the file | a run is a prepaid batch and costs its successes, RUNNING ends, a cancelled campaign is frozen, rows say what the file says |
| Registration and OTP (`auth.service.ts`, `otp.service.ts`) | User, OtpRequest | register, login, createOtp, resendOtp, verifyOtp | email, wallet | stale status and attempt count | at most one active code, used once, attempts bounded |
| OA connection (`oa-connections.service.ts`, `oa-token.service.ts`) | WorkspaceOaConnection | startConnect, callback, disconnect, refresh | Zalo OAuth | late results written over newer state | a CONNECTED row has tokens Zalo accepts; a disconnect holds |
| Quick chat (`quick-chat/`) | agent profiles, sessions, actions, execution logs | createSession, sendMessage, confirmAction, upsertAgent; rules that turn a message into a plan, a registry of tools and roles, the executor | other services and tables through tools | double confirmation, a policy that changes between plan and confirmation, colliding log keys | status, log and announcement agree; a tool runs only if policy, role and confirmation allow |
| Templates (`templates.service.ts`) | Template, approval logs | create, update, submit, staff actions, disable | OA | unconditional status writes | an APPROVED template is what staff approved |
| Members, workspaces, admin (`members.service.ts`, `workspaces.service.ts`, `admin.service.ts`) | Workspace, WorkspaceMember, Invitation | create, update, delete, invite, accept, remove, disable | guards | guard, read and write are apart | a member was invited; an invitation serves once; an inactive workspace is frozen |
| API keys (`api-keys.service.ts`, `api-key.guard.ts`) | ApiKey | create, disable, regenerate, use | public API | overlapping regenerations | somebody was given the secret a key has |
| Invoices (`orders/invoice-pdf-verification.*.ts`) | billing profile, Invoice with its snapshot, PDF file | verify and issue; the comparison | Gemini, topups | status read long before it is written; rounding, normalisation, fields that are not read | issued once, from a matching PDF; the right PDF passes and another's does not |
| Read-only or single-statement parts | audit log, users, money accounts, system configuration, order listings, guards | | | | not modelled |

## 2. Modules and how they correspond to the code

Every statement that the code awaits is an action of its own, so that other
requests can come in between; what a transaction does is one action (at READ
COMMITTED a read in a transaction is separate from its writes and is a step of
its own where it matters: the webhook, the hold, the refund). The progress of a
request is a record with a `step` and what the request still remembers of its
reads. A request ends, and its id is not used again. Errors are actions:
a statement that throws leads where the code's `catch` leads, or ends the
request; a crash ends it anywhere. Ghost state (`disconnects`, `accepted`,
`joined`, `effects`, `permitted`, the `...Overlapped` flags) is only read by properties.

| Module | Models | State (code) | Actions |
|---|---|---|---|
| `WalletStore` | the shared account and journal | `wallet` (WalletAccount), `ledger` (WalletTransaction, append-only) | helpers `Post`, `PostedAmount`, `AccountWith`; `OthersPost`, what one component sees of the others on its wallet, used by the proofs only |
| `PaymentCredit` | the promise to the customer, abstractly | payments, stray announcements, credits, total | `Pay`, `Stray`, `Credit` |
| `Topups` | createTopupWithPay2S, handlePay2sWebhook | `topup`, `order`, progress of the creation (`call`) and of webhooks (`handler`); Pay2S outside (`pay2s`, `answers`), notifications without a payment (`strays`) | creation up to the QR code and its `catch` block; webhook: find, read wallet, commit or roll back |
| `Sending` | both `sendSingle` | `send`, `log`; Zalo outside (`delivered`) | check, dispatch, charge, log, crash |
| `PrepaidBatch` | what a run promises about money, abstractly | per run: price, held, tried, failed, refunded; deliveries | `Hold`, `Deliver`, `Record`, `Refund` |
| `Campaign` | one campaign: import, execute, retry, updateRow, removeRow, remove | `campaign`, `row`, `req`, `log` | every await of `runSendBatch` and of the edits, counters included |
| `CampaignFile` | buildCsvTemplateContent, the CSV parser, importCsv and updateRow as far as the texts go | placeholder `keys`, `rows`, what the request in flight will write (`pending`); the last `file` and the keys a row was checked for (`checked`) are ghosts | new campaign, template revised, table or exported template read, edit read and checked, rows written, write fails |
| `Billing` | composition on one wallet and journal | instances of `Topups`, `Sending`, `Campaign` | a step of one leaves the private state of the others |
| `ChatTools` | orchestrator, registry, executor: which plan a message leads to, who may run which tool | none: operators | |
| `QuickChat` | createSession, sendMessage, confirmAction, upsertAgent | `agent`, `open`, `action`, `log` (unique keys), `announced`; `permitted` is a ghost | upsert, open, ask, plan, confirm, tool returns or throws, write or roll back |
| `OaConnection` | connect, callback, disconnect, token refresh | `conn`, `oaReq`; Zalo outside (`issued`, `live`, `exchanged`) | one per await |
| `Templates` | create, update, the admin's price, submit, disable, staff operations with the provider's id; extends `OaConnection`, whose row `create` needs | `template`, `submission`, `review` | read and check, then write |
| `Otp` | register, login, verifyOtp, resendOtp, lockUser for one address | `user`, `ownsWallet`, `otps`, `auth` | one per statement |
| `Workspaces` | one workspace, its owner's update, members, invitations, keys, the guards of members and of API keys | `workspace`, `member`, `invitation`, `apiKey`, `access` | guards, read, write |
| `InvoiceIssue` | verifyAndIssueInvoicePdf | `invoice`, `stored`, `upload` | read, extract, compare, save, issue |
| `InvoiceComparison` | billing profile, its snapshot in the invoice, `invoice-pdf-verification.util.ts` | `profile`, `posted`; the last `comparison` | save profile, post invoice, compare a PDF |
| `Administration` | `Otp`, `Workspaces`, `InvoiceIssue`, `InvoiceComparison`, `CampaignFile` side by side | theirs | a behaviour takes steps of one of them, since none reads a variable of another |

Abstracted: amounts to small integers, names and texts away (but in
`CampaignFile`, where a text is a sequence of words and of the characters the
parser looks at, and in `InvoiceComparison`, where a field is the words or the
groups of digits that normalising keeps, and how it is typed), codes and secrets
to numbers or to right and wrong, time to the classes the code compares it with
(`age` of an OTP, `fresh` of a token, `lapsed` of an invitation), Zalo, Pay2S,
Gemini and the quick-chat tools to what they may answer. Operators marked
*Fault* are the definition next to them with one mistake; they are not part of
any specification and show that a property would notice the mistake.

## 3. Runs

| Run | Question | Bounds and why they are enough |
|---|---|---|
| `topups` | Is a topup credited at most once, for an amount announced for it, and documented, and is every payment in the end met by a credit? Does the module implement `PaymentCredit`? | 2 topups of different amounts, so that credits can be confused; 2 webhook requests at once, of one topup or of both; 2 crashes, so that a repetition is cut off too; 1 lost reply of the database; 1 notification without a payment, of the other topup's amount or of one that nobody pays, before, during and after the payment's own |
| `sending` | Do charge, journal and log agree, and how far is the wallet overdrawn? | 4 requests, 3 at once, both prices, balances that cover some of them |
| `campaign` | Is every run a prepaid batch, and does one that ends cost its successes, whatever happens beside it? Does `Campaign` implement `PrepaidBatch`? | 2 requests of any kind on 2 rows with 1 fault at any step |
| `campaign_serial` | Do rows, counters and deliveries agree over a history of requests? Is a cancelled campaign frozen? | 4 requests one after the other on 3 rows: import, run, edit, retry; run, cancel, remove rows, run again |
| `campaign_ends` | Does RUNNING end? | 2 overlapping runs, prices and balances with which the hold fails or succeeds; no fault |
| `billing` | What does the balance hold when everything happens at once? Does each component keep its promise (both refinements included) when the others move the same account between its steps? | 1 topup with 1 webhook request at a time and 1 notification without a payment, 1 message, 1 run of 1 row; each pair of writers meets in every order. Webhooks that overlap are the matter of `topups` |
| `quickchat` | Do status, log and effects of an action agree? Did policy, role and confirmation sanction every tool that ran? | 4 requests, 2 at once, 2 actions, 1 millisecond (so tools that run at once collide on their key), 4 tools (one reads, one sends, one changes an entity, one the executor does not know), 2 policies, 4 sets of intents, 1 fault |
| `channel` | Are the tokens of a connected OA usable, does a disconnect hold, does a template's status agree with its log? | 3 OA requests, 2 at once, 1 fault (refresh, disconnect and callback in every order); 3 reviewers, 2 at once, 2 templates competing for 1 code, 2 attempts to find a free one |
| `administration` | Do codes, users and wallets, members and invitations, keys and secrets, invoices and PDFs agree? Does the right PDF pass, and only that? Do rows say what their file says? | 4 requests per component, 2 or 3 at once, 1 fault, 2 attempts per code: register, refuse, refuse again, accept; create, invite, accept, remove. 3 buyers (a company, a person, one with blanks), amounts 5, 6 and 7 and rates 8 and 10, so that sums round both ways and of two of them the difference is one dong, which the tolerance allows, or two, which it does not, 1 field not read. Placeholders: none, one, two, two differing in case, two the template does not quote; cells blank, with comma and quote, with a line end; at most 4 cells, 3 lines for a limit of 2; an edit after each import, its payload with any of the placeholders and a further key, text or blank; the template revised before, during or after |
| `topups_lost_credit` | violation: `BalanceHoldsCredits` | two webhooks of two topups |
| `campaign_twice` | violation: `OneRunAtATime` | two execute requests |
| `quickchat_once` | violation: `ActionRunsOnce` | one confirmation after the other, no fault |

Requests (and rows, ids of topups in flight) are symmetric and declared so in
the runs without liveness. Deadlock is not checked: a finite set of requests
ends, and the system then rests. Several properties are conditional: after an
overlap or a fault they claim less, because the code does. The condition is in
the formula, and the same run still explores the overlap for the unconditional
part and for the other properties. `SendTypeOK` is checked by no run: it is
proved.

**Fairness.** Liveness is claimed for two things. `topups` assumes that Pay2S
repeats a notification until it is answered with success and that it finds a
free handler again and again (strong fairness of `Redeliver`, because a request
being served, or all handlers being busy, disables it), and that a request being
served goes on (weak fairness: the event loop resumes every settled await).
Crashes are bounded, so they do not prevent it. `campaign_ends` assumes only that a
served request goes on. Nothing is assumed of users, payers or Zalo's verdicts.

**Notifications.** Nothing in the code ties a notification to a payment, so the
model does not either: beside what Pay2S reports of payments (`PayQr`, then any
number of notifications of that amount), a *stray* may announce any amount for
any topup at any time. `CreditedOnce`, `CreditDocumented`, the last conjunct of
`StatusTellsCredit` and the refinement hold with strays; what they then say is
that a credit has an announcement, not that it has a payment. Only if no stray
names the topup does it follow that it was paid, with that sum. The first
conjunct of `StatusTellsCredit` has the condition in its formula: a stray for a
topup that is still PENDING may be credited before the catch block writes FAILED
over it. The bound on strays (`MaxStrays`) is one of the runs, not of the proofs,
where it is any number.

### What the violation runs show

- **A credit is lost.** `topups.service.ts:402` writes the balance it read before
  plus the amount. Two overlapping webhooks of different topups keep one of the
  credits in `balance` (both in `totalTopup`); the comment at line 378 says the
  wallet is credited once.
- **Two runs at once.** `assertCanRun` (808) tests the status read with the
  campaign; RUNNING is written several awaits later. Two `execute` requests send
  every row twice.
- **An action runs again and again.** A failed attempt leaves a log row that
  takes the action's only key (`quick-chat.service.ts:196`). From then on every
  confirmation runs the tool and rolls its success back.

### Observed while modelling, not run

- The webhook (`topups.service.ts:360-376`, a public route) takes the topup and
  the amount from the body. It does not look at `dto.signature`, which is optional
  (`verifyPay2sSignature` has no caller), and does not compare the amount with
  `amountInclVat`, which order and invoice show. See *Notifications* below.
- Requests that overlap overdraw the wallet: the balance is checked before the
  message is sent (`messaging.service.ts:77`, `public-api.service.ts:122`), and
  two holds (`campaigns.service.ts:601`) can both read the same balance.
  `OverdraftBounded` says how far single messages go.
- Removing the last row makes a campaign DRAFT whatever its status
  (`campaigns.service.ts:322`), also a cancelled one, which every other operation
  refuses; it can be imported and run again, which is why `CancelledIsFrozen`
  has that exception. The end of a run writes COMPLETED over a cancellation.
- The branch of importCsv that makes an empty campaign a DRAFT cannot be reached:
  the parser refuses a file without rows. A campaign's template may get other
  placeholders while rows are imported or edited, or later; neither an execution
  nor a retry looks, so a row may lack a placeholder the template has now. An edit
  stores its payload whole, keys included that no placeholder has.
- The CSV parser splits at line ends before it looks at quotes, so a quoted line
  end tears a row apart; a placeholder `phone`, two that differ only in case, or
  one with a comma, a quote or blanks at its edges make the exported template
  one that cannot be imported, or columns that are confused. updateRow accepts a
  phone of blanks, the import does not.
- A row deleted while a batch is being sent makes its update throw, in the catch
  block too: the batch stops, nothing is refunded, the campaign stays RUNNING.
- Of two overlapping notifications of one topup the second runs into the unique
  transaction code and is answered 500, although `webhooks.controller.ts:12`
  always wants a 200. Pay2S repeats it and gets its 200.
- A token refresh that ends after a disconnect makes the row CONNECTED again; one
  that fails after another succeeded sets TOKEN_EXPIRED over valid tokens.
- A wrong code that was read before a right one was accepted makes that code
  ACTIVE again, and overlapping guesses count once.
- An update on its way changes a template approved meanwhile; a staff decision or
  a submission on its way brings back a disabled one.
- An invitation can be accepted in a workspace that is disabled or deleted, and
  by two users at once; the owner can be removed as a member.
- An invoice's item always has the column's default VAT rate of 10
  (`topups.service.ts:459`): the right PDF of a topup with another rate is refused.
  A profile of blanks passes the validation and then matches no PDF; a tax code
  without digits equals a missing one; a PDF without a number is issued, since the
  branch that says "no number extracted" (`invoice-pdf-verification.util.ts:262`)
  cannot be reached. In demo mode the invoice is compared with itself.
- The API key guard does not look at the workspace's status, and one that is
  overtaken by a regeneration marks the new key as used. A regeneration makes a
  DISABLED key ACTIVE.
- Quick chat: `topups.createQr` is planned, but the executor does not know it, so
  its confirmation always fails. A message that names its tool with
  `requiresConfirmation: false` runs a write at once, although the default agent's
  prompt says never to bypass confirmation. A policy that is withdrawn after the
  plan does not stop the confirmation. Sessions of the internal endpoints are
  created with a workspace and looked up without one, hence never found. No code
  writes CANCELLED or REJECTED to an action, or reads `autoExecute`. Two tools run
  in the same millisecond collide on the log's key. The generic entity tools
  write tables directly; what the other modules show assumes that a table is
  written by its service only.
- A failed verification that was on its way writes `result: fail` over an issued
  invoice, and two uploads on their way issue it twice.
- A registration cut off after its first statement leaves a user without wallet
  whose address is taken.

## 4. Proofs

TLAPS checks these for all values of the constants that satisfy the named
assumptions of the modules (`ASSUME`: amounts and prices are naturals, bounds are
naturals, null values are no ids).

| Theorem | Says | Inductive argument |
|---|---|---|
| `Topups_proofs!TypeCorrect` | type invariant | `ServesNotice` beside it: a webhook request serves a topup that was created, with an amount that was announced for it, and nobody pays before the payment link exists |
| `Topups_proofs!CreditedAtMostOnce` | `CreditedOnce` | a commit needs the transaction code to be free, and codes are never given back (`OnlyCommitPosts`, `PostedAfterCommit`) |
| `Topups_proofs!CreditIsDocumented` | `CreditDocumented` | credit row, order and status change in `CommitCredit` only, or in the catch block, which does not set PAID; by `ServesNotice` the amount was announced for this topup, and what was announced stays so |
| `Topups_proofs!StatusIsTruthful` | `StatusTellsCredit` | `StatusFollowsCall`: before the catch block ran, only the webhook has changed the status, strays or not. `QrMeansSuccess`: without a lost reply, a payable QR code means that the creation did not fail, so a topup whose creation fails was never paid, and without strays nothing credits it |
| `Topups_proofs!CreditsAsPromised` | every step of `Topups` is a step of `PaymentCredit` or a stutter | from the above; `PaymentIsFinal` for `paid`, the commit for `credited` and `total`: it credits what was announced, and only if the transaction code shows no earlier credit |
| `Sending_proofs!TypeCorrect`, `PaidIffSent` | type; `ChargedIffLogged` | `LogLast`: a log exists only at the end of a request, so `Charge` meets no earlier journal row |
| `Sending_proofs!OverdraftIsBounded` | `OverdraftBounded` | `OverdraftInv`: the bound with the cardinality of the set in flight, which a debit lowers by one as it lowers the balance by at most `TopCost` |
| `QuickChat_proofs!TypeCorrect` | type invariant | `HoldsKey`: who runs a tool holds a key and, when it is an action's, runs that action's tool |
| `QuickChat_proofs!ExecutionIsLogged` | `ExecutedIsLogged` | `ReturnedTookEffect`: a writing tool that returned has taken effect |
| `QuickChat_proofs!EffectsAreTraced` | `EffectsTraced` | `PlannersHoldNoKey`: a request that has not confirmed holds no key of an action |
| `QuickChat_proofs!ToolsAreSanctioned` | `ToolsWereSanctioned` | `SanctionedInv`: what is planned, stored or running was allowed when it was asked for, and a write without a confirmation was asked for by name; `permitted` only grows while the session is open |
| `QuickChat_proofs!RepeatsAreBounded` | `RepeatsBounded` | `BoundedInv`: at most `MaxInFlight` requests are in flight; while an action has no log row its effects are covered by the requests whose tool has returned and by faults, and once one logged success, effects and tools still running together are at most `MaxInFlight` and the faults |
| `Campaign_proofs!TypeCorrect` | type invariant | `RowChosen`: a request that works on a row has chosen one |
| `Campaign_proofs!RunsArePrepaid` | every step of `Campaign` is a step of `PrepaidBatch` or a stutter: `ImplementsPrepaidBatch` | `Accounts`: until it pays a request has neither journal entry nor log row; while it sends it has one hold of its whole charge, no refund, and has logged just the rows of its batch it is done with. Each action is an `AccountStep` (pays, tries, notes, closes, gives back, or books nothing), and the invariant and the refinement are proved of those |
| `Campaign_proofs!RunsCostTheirSuccesses` | `RunCostsItsSuccesses` | `Costs` beside `Accounts`: from its refund on, a run has paid for the rows it tried and got back the price of those it noted as failed; without faults no row is noted as both, so the difference is what it sent (`CostOfRows`) |
| `Campaign_proofs!SuccessIsReal` | `SuccessWasSent` | `AcceptedWasSent`: who is about to record a success has delivered; deliveries and logs are never undone (`RecordsStay`) |
| `Campaign_proofs!SerialRequestsDoAgree` | `SerialRequestsAgree` | `SerialInv`: as long as requests come one after the other and nothing failed, only one is served (`Alone`), and it and the rest agree (`Agrees`): each operation is at a step of its own; the campaign is RUNNING just from `marking` on; the counters are those of the rows except while rows are being sent or edited and not yet counted; who may still be sent was sent nothing, but for the row whose message has just been accepted; and what the request read (rows to send, rows to replace, the edited row's status) is still so. The property alone says nothing of the middle of a request, so it is not inductive |
| `Campaign_proofs!CancelledStaysFrozen` | `CancelledIsFrozen` | from `SerialInv`: the request served while the campaign is CANCELLED can only be a removeRow, and it makes the campaign a DRAFT only after it found no row left |
| `Billing_proofs!TotalsAreThoseOfTheJournal`, `OnlyATopupLosesMovements` | `TotalsArePosted`; `BalanceSinceLastTopup` | `Inductive`: both, the types, and `DebitsDone` (a journaled message is over, so it is not journaled again). The sums are folds over the journal's indices: that they exist, do not depend on the order and grow by what is appended is shown first, by induction on the size of a set. Each step of each component then only books: it posts one row and moves the totals by its amount, or touches neither |
| `Topups_proofs!CreditsOnSharedWallet`, `SharedCreditsAsPromised` | what the five theorems above say, but for the type of the wallet's totals, on a wallet that others move: `SharedSpec` | the invariants above, each of which a step of others keeps: it may set the balance to anything and post any row but a topup's (`Elsewhere`) |
| `Sending_proofs!PaidIffSentOnSharedWallet` | `ChargedIffLogged` on such a wallet | `ChargeInv`; others post any row but a debit |
| `Campaign_proofs!PrepaidOnSharedWallet`, `CostsOnSharedWallet`, `SuccessOnSharedWallet` | `ImplementsPrepaidBatch`, `RunCostsItsSuccesses`, `SuccessWasSent` on such a wallet | `Accounts` and `Costs` speak of the rows a run posted itself (`EntriesStay`); others may post holds and refunds too, of runs that are not this campaign's, so other campaigns of the owner are covered |
| `Billing_proofs!TopupsKeepTheirPromise`, `CreditsAreAsPromised`, `MessagesDoStayPaid`, `RunsDoCostTheirMessages`, `RunsStayPrepaid`, and together `PromisesAreKept` | `TopupsKeepPromise`, `CreditsAsPromised`, `MessagesStayPaid`, `RunsCostTheirMessages`, `RunsArePrepaid`, the conjuncts of `PromisesKept`: what each component promises holds with the others on the same wallet | each behaviour of `Billing` is one of each part's `SharedSpec`: a step of another part is a step of others, since by `Inductive` the wallet keeps its type and `Effect` says which rows the step posts |
| `Administration_proofs!IssuesAreVerified` | type; `IssuedAsVerified` | `StepsBehind`: an upload past the comparison agreed, one that issues is stored; `AloneOnPosted`: until uploads overlap, the one that is served found the invoice POSTED and it still is |
| `Channel_proofs!TypeCorrect` | types of `OaConnection` and `Templates` | a code is exchanged for a state that was handed out; a request on a template knows one. Both components read or write only their own variables, except that `create` needs the connection, so `PartsStep` splits a step and each half is proved alone |
| `Channel_proofs!ConnectedUsable` | `ConnectedIsUsable` | `Pairs`: the pair of the row and every pair a request has read or in hand was issued, a new pair in hand is one Zalo accepts, nobody else has it in hand, and the row does not name it yet |
| `Channel_proofs!DisconnectedStays` | `StaysDisconnected` | `Seen`: a request that may connect the account has read the row before its last disconnect if it is DISCONNECTED now, and a disconnect clears the state that a callback must match |
| `Channel_proofs!StatusesAreLogged` | `StatusIsLogged` | inductive for each template; status and log row are written together, so no overlap matters |
| `Channel_proofs!ApprovedReadOnly`, `DisabledStays` | `ApprovedIsReadOnly`; `DisabledUntilStaff` | `Serial`: until requests overlap one is served at a time, and what it checked of its template is still true when it writes |
| `Otp_proofs!TypeCorrect`, `TokensVerified` | types; `TokensAreVerified` | `HasRead`: a request about to write a row has read it. `Proven`: not only who has a token, also an ACTIVE user and a request on the way there, was verified; `VerifiedStays` since no row and no acceptance is forgotten |
| `Otp_proofs!RegisteredOwnsWallet` | `RegisteredHasWallet` | inductive as it stands: the unique address lets one registration create the user, and it creates the wallet next |
| `Otp_proofs!CodesAgreeAlways` | `CodesAgree` | `Codes`: until requests overlap one is served, and it knows the row it is about to write (still ACTIVE, the attempts it read), or that no row is ACTIVE before it inserts one |
| `Administration_proofs!WorkspaceTypeCorrect` | types | `TargetFits`: a request works on a user, key or invitation of the right kind that exists |
| `Administration_proofs!MembersInvited` | `MembersWereInvited` | `Invited`, with an invitation having a role, and `Alone`: until requests overlap, who accepts an invitation found it PENDING and it still is |
| `Administration_proofs!SecretsReturned` | `SecretsAreHandedOut` | secrets of a key are numbered and only grow; under `Alone` the guard marks the key with the secret it was called with |
| `Administration_proofs!InactiveFrozen` | `InactiveIsFrozen` | `Alone`: until requests overlap, a request past the guards still has an ACTIVE workspace, so none is past them in an inactive one |
| `Administration_proofs!RecipientsAreComplete` | `RowsAreComplete` | `RecipientsInv`: the same of the rows that the request in flight is about to write, since it is the placeholders it read that they were checked for; that a parsed line has a value for each of them holds for any text, and an edit is checked whole, whatever else it brings |
| `Administration_proofs!OwnPdfIsAccepted` | `OwnPdfPasses` | `PostedFits`: the invoice's sums are those of one amount at the topup's rate; the profile's fields are typed. With lemmas that a text includes itself, that printing keeps what normalising keeps, and that rounding up or down moves a sum by a dong at most |
| `Administration_proofs!OthersPdfIsRefused` | `OthersPdfFails` | the same invariant; one field that disagrees is enough |
| `Administration_proofs!PartsBehaveAlone` | a behaviour of `Administration` is one of each of its five parts | each step is a step of one part and leaves the variables of the others |
| `Administration_proofs!AdministrationTypeCorrect` | `AdminTypeOK` | `PartsBehaveAlone` and the type invariant of each part |

The assumptions are those of the modules, and TLC evaluates them in every run.
`Sources` is any set that holds the topups, messages and runs a journal row can
name; a component alone may have no others, and in `Billing` they are those of
all three. Only a campaign's `Rows` are assumed to be finite; where a property counts
requests, that the set it counts is finite is part of the invariant. `Billing`
repeats those of its parts, because an instance does not bring them along, and
`Billing_proofs` instantiates the proof modules of its parts, whose theorems then
hold under these. `BuyersAreTyped` says that a buyer is an organisation or an individual, as
the enum of the schema does, and that the content of its fields is a sequence of
words, of which "0" is one; the words are a constant, since no prover knows that
a literal is in STRING. The theorems about serial requests hold for `Serial`
FALSE too, but the properties then say nothing; overlapping requests are what the
others are about.

**Only model-checked, or only of a component alone.**

- `ImportedAsWritten`: that the parser gives back the cells a file was written
  from. Parser and writer recurse over the text, and no prover expands
  `SelectSeq` or does induction over such definitions.
- Three theorems are about a component alone and not carried over to `Billing`:
  `OverdraftBounded`, which does not hold beside runs and topups,
  `CancelledIsFrozen`, which says that the wallet does not move, and
  `SerialRequestsAgree`, which says nothing of the wallet.
- Liveness: `RunningEnds`, and the fairness part of `ImplementsPromise`, whose
  safety part is `CreditsAsPromised`. The provers handle neither liveness nor
  ENABLED.

## 5. Not modelled

- Listings of orders and invoices, wallet reading, audit log, request log,
  users, switchWorkspace, the chat's transcript: reads, appends or single
  statements with no rule across them.
- Money accounts, system configuration and the resolution of a message's price
  from it: single statements; the price of a run or message is any of a set.
- Guards that only read the token or the user's platform role, decorators,
  configuration, the Prisma module: no state.
- Rendering of emails and prompts, and storage of the raw import row, which
  nothing reads.
- What Zalo, Pay2S and Gemini do beyond their answers (external definitions).

## 6. Plan

Done, in this order:

1. `WalletStore`, `Topups` with `PaymentCredit`, `Sending`, `Campaign`, `Billing`
   (money first), `QuickChat`; then `OaConnection` with `Templates`, and `Otp`,
   `Workspaces`, `InvoiceIssue` under `Administration`. Proofs of `Topups`,
   `Sending`, `QuickChat`, `InvoiceIssue`.
2. `PrepaidBatch`, which `Campaign` implements as `Topups` implements
   `PaymentCredit`; `ChatTools`, `CampaignFile`, `InvoiceComparison`; owner's update,
   API key guard and price-only update. Proofs of `Campaign`, of who may run a
   tool, and of `OaConnection` with `Templates`, `Otp` and `Workspaces`.
3. Proofs: the wallet's sums (`Billing`), `RepeatsBounded`, requests to a campaign
   one after the other, recipients, what PDFs agree with an invoice, and the
   composition `Administration`.
4. Proofs: what is proved of `Topups`, `Sending` and `Campaign` alone, on a wallet
   that others move, and from that in `Billing`, where they share one.

Left:

5. Model: two campaigns of one owner on one wallet; an abstract specification of
   the OA connection (tokens are usable, a disconnect holds) that `OaConnection`
   implements; the public API behind the key guard (a key disabled between guard
   and send).
