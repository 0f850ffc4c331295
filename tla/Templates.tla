------------------------------ MODULE Templates ------------------------------
(***************************************************************************)
(* TemplatesService: the message templates of one workspace, written by    *)
(* its operators and reviewed by the platform's staff.  A template is made *)
(* for the workspace's OA connection, which module OaConnection keeps.     *)
(*                                                                         *)
(* Each operation reads the template, decides, and writes it one await     *)
(* later, whatever its status then is.  Of a template's fields the status, *)
(* the code, whether it has a providerTemplateId, whether it has a price   *)
(* of its own and a number for each version of its content are kept; every *)
(* change of name or placeholders counts as a new version.                 *)
(***************************************************************************)
EXTENDS OaConnection, SequencesExt

CONSTANTS Templates,            \* ids of Template rows
          Codes,                \* values of a template's code
          Reviewers,            \* requests on templates, by operators and staff
          CodeAttempts,         \* SIX_DIGIT_CODE_ATTEMPTS
          MaxReviewersInFlight  \* bound: requests on templates served at a time

ASSUME TemplateBounds == CodeAttempts \in Nat \ {0} /\ MaxReviewersInFlight \in Nat

VARIABLES template,    \* the Template rows
          submission,  \* TemplateSubmissionLog: the rows, in order
          approved,    \* the version staff approved last (0: none)
          review,      \* progress of each request
          overlapped   \* two requests on templates have been served at once

templateVars == <<template, submission, approved, review, overlapped>>
channelVars  == <<oaVars, templateVars>>

TemplateStatus == {"none", "DRAFT", "PENDING_ZALO_APPROVAL", "APPROVED", "REJECTED", "DISABLED"}
Template == [status : TemplateStatus, code : Codes \cup {"none"}, version : Nat,
             provider : BOOLEAN, priced : BOOLEAN]
StaffStatus == {"APPROVED", "REJECTED", "PENDING_ZALO_APPROVAL", "DISABLED"}

SubmissionRow == [status : StaffStatus, provider : BOOLEAN]

Operations == {"create", "update", "price", "submit", "disable", "staff"}
Review == [step : {"idle", "writing", "ended"},
           op : Operations, template : Templates \cup {"none"}, attempts : 0..CodeAttempts]
Resting(step) == [step |-> step, op |-> "create", template |-> "none", attempts |-> 0]
ReviewsInFlight == {r \in Reviewers : review[r].step = "writing"}

TemplateTypeOK ==
  /\ template \in [Templates -> Template]
  /\ \A t \in Templates : \A i \in DOMAIN submission[t] : submission[t][i] \in SubmissionRow
  /\ approved \in [Templates -> Nat]
  /\ review \in [Reviewers -> Review]
  /\ overlapped \in BOOLEAN
  /\ \A t, u \in Templates : template[t].code = template[u].code /\ t # u
                             => template[t].code = "none"

NoTemplate == [status |-> "none", code |-> "none", version |-> 0,
               provider |-> FALSE, priced |-> FALSE]
Draft(c)   == [NoTemplate EXCEPT !.status = "DRAFT", !.code = c, !.version = 1]

(* No template yet, or one draft, which a connection was needed for.       *)
TemplateInit ==
  /\ \/ template = [t \in Templates |-> NoTemplate]
     \/ /\ conn.status # "none"
        /\ \E u \in Templates, c \in Codes :
             template = [t \in Templates |-> IF t = u THEN Draft(c) ELSE NoTemplate]
  /\ submission = [t \in Templates |-> <<>>]
  /\ approved = [t \in Templates |-> 0]
  /\ review = [r \in Reviewers |-> Resting("idle")]
  /\ overlapped = FALSE

-----------------------------------------------------------------------------
(* A request begins by reading the template (create: the OA connection);   *)
(* one that is refused changes nothing and is left out.                    *)

(* Fault: an approved template can be edited.                              *)
EditableUnlessDisabled(t) == template[t].status \notin {"none", "DISABLED"}

Editable(t) == template[t].status \notin {"none", "DISABLED", "APPROVED"}

(* Fault: a disabled template can be submitted.                            *)
SubmittableUnlessApproved(t) == template[t].status \notin {"none", "APPROVED"}

Submittable(t) == template[t].status \notin {"none", "DISABLED", "APPROVED"}

(* What each operation requires of what it reads.  Operators and staff may *)
(* disable, and staff review, a template of any status.                    *)
Accepts(op, t) ==
  CASE op = "create" -> t = "none" /\ conn.status = "CONNECTED"
    [] op = "update" -> t # "none" /\ Editable(t)
    [] op = "price"  -> t # "none" /\ template[t].status = "APPROVED"
    [] op = "submit" -> t # "none" /\ Submittable(t)
    [] OTHER         -> t # "none" /\ template[t].status # "none"

BeginReview(r) ==
  /\ review[r].step = "idle"
  /\ Cardinality(ReviewsInFlight) < MaxReviewersInFlight
  /\ \E op \in Operations, t \in Templates \cup {"none"} :
       /\ Accepts(op, t)
       /\ review' = [review EXCEPT ![r] = [step |-> "writing", op |-> op, template |-> t,
                                           attempts |-> 0]]
  /\ overlapped' = (overlapped \/ ReviewsInFlight # {})
  /\ UNCHANGED <<oaVars, template, submission, approved>>

Writes(r, op) == review[r].step = "writing" /\ review[r].op = op
EndReview(r) == review' = [review EXCEPT ![r] = Resting("ended")]
Subject(r) == review[r].template

(* Fault: the index on the code is not unique.                             *)
NoUniqueCode(c, t) == c \in Codes /\ t \in Templates

(* The database refuses a second template with the same code.              *)
CodeFree(c, t) == \A u \in Templates \ {t} : template[u].code # c

(* create: a random code, and another one if it is taken, a few times.     *)
Insert(r) ==
  /\ Writes(r, "create")
  /\ \E t \in Templates, c \in Codes :
       /\ template[t].status = "none"
       /\ IF CodeFree(c, t)
          THEN /\ template' = [template EXCEPT ![t] = Draft(c)]
               /\ EndReview(r)
          ELSE /\ IF review[r].attempts + 1 < CodeAttempts
                  THEN review' = [review EXCEPT ![r].attempts = @ + 1] ELSE EndReview(r)
               /\ UNCHANGED template
  /\ UNCHANGED <<oaVars, submission, approved, overlapped>>

(* update: new content, and by admin or staff also another code.           *)
WriteUpdate(r) ==
  /\ Writes(r, "update")
  /\ LET t == Subject(r)
     IN  \E c \in Codes :
           IF CodeFree(c, t)
           THEN /\ template' = [template EXCEPT ![t].version = @ + 1, ![t].code = c]
                /\ EndReview(r)
           ELSE EndReview(r) /\ UNCHANGED template
  /\ UNCHANGED <<oaVars, submission, approved, overlapped>>

(* update by the admin, of the price alone: the one field of an approved   *)
(* template that may change.                                               *)
WritePrice(r) ==
  /\ Writes(r, "price")
  /\ template' = [template EXCEPT ![Subject(r)].priced = TRUE]
  /\ EndReview(r)
  /\ UNCHANGED <<oaVars, submission, approved, overlapped>>

Logs(t, status, provider) ==
  submission' = [submission EXCEPT ![t] = Append(@, [status |-> status, provider |-> provider])]

(* submit: log row and status in one transaction.                          *)
WriteSubmit(r) ==
  /\ Writes(r, "submit")
  /\ LET t == Subject(r)
     IN  /\ Logs(t, "PENDING_ZALO_APPROVAL", FALSE)
         /\ template' = [template EXCEPT ![t].status = "PENDING_ZALO_APPROVAL"]
  /\ EndReview(r)
  /\ UNCHANGED <<oaVars, approved, overlapped>>

(* disable, by an operator: no log row.                                    *)
WriteDisable(r) ==
  /\ Writes(r, "disable")
  /\ template' = [template EXCEPT ![Subject(r)].status = "DISABLED"]
  /\ EndReview(r)
  /\ UNCHANGED <<oaVars, submission, approved, overlapped>>

(* Fault: an approval without a providerTemplateId keeps the old one.      *)
StaffKeepsProvider(r) ==
  /\ Writes(r, "staff")
  /\ \E status \in StaffStatus, given \in BOOLEAN :
       LET t == Subject(r)
       IN  /\ Logs(t, status, given)
           /\ template' = [template EXCEPT ![t].status = status, ![t].provider = @ \/ given]
           /\ approved' = IF status = "APPROVED"
                          THEN [approved EXCEPT ![t] = template[t].version] ELSE approved
  /\ EndReview(r)
  /\ UNCHANGED <<oaVars, overlapped>>

(* staffApprove, staffReject, staffMarkPendingZaloApproval, staffDisable:  *)
(* updateTemplateInternalStatus.  An approval sets the providerTemplateId, *)
(* to null if none is given; the others leave it.                          *)
WriteStaff(r) ==
  /\ Writes(r, "staff")
  /\ \E status \in StaffStatus, given \in BOOLEAN :
       LET t == Subject(r)
       IN  /\ given => status = "APPROVED"
           /\ Logs(t, status, given)
           /\ template' = [template EXCEPT ![t].status = status,
                             ![t].provider = IF status = "APPROVED" THEN given ELSE @]
           /\ approved' = IF status = "APPROVED"
                          THEN [approved EXCEPT ![t] = template[t].version] ELSE approved
  /\ EndReview(r)
  /\ UNCHANGED <<oaVars, overlapped>>

ReviewStep(r) ==
  \/ BeginReview(r) \/ Insert(r) \/ WriteUpdate(r) \/ WritePrice(r)
  \/ WriteSubmit(r) \/ WriteDisable(r) \/ WriteStaff(r)

TemplateNext == \E r \in Reviewers : ReviewStep(r)

ChannelInit == OaInit /\ TemplateInit
ChannelNext == (OaNext /\ UNCHANGED templateVars) \/ TemplateNext
ChannelSpec == ChannelInit /\ [][ChannelNext]_channelVars

-----------------------------------------------------------------------------
(* Properties                                                              *)

ChannelTypeOK == OaTypeOK /\ TemplateTypeOK

(* However requests overlap, a template that was submitted or reviewed has *)
(* the status that was logged last, unless it has been disabled, and an    *)
(* approved one the providerTemplateId that was logged with its approval.  *)
StatusIsLogged ==
  \A t \in Templates :
    template[t].status \notin {"none", "DRAFT", "DISABLED"} =>
      /\ submission[t] # <<>>
      /\ Last(submission[t]).status = template[t].status
      /\ template[t].status = "APPROVED" =>
           Last(submission[t]).provider = template[t].provider

(* "Approved template is read-only": as long as no two requests have       *)
(* overlapped, an approved template is the version that staff approved.    *)
ApprovedIsReadOnly ==
  \A t \in Templates :
    template[t].status = "APPROVED" /\ ~overlapped => template[t].version = approved[t]

(* "Template is disabled": as long as no two requests have overlapped,     *)
(* only staff bring a disabled template back.                              *)
DisabledUntilStaff ==
  [][\A t \in Templates :
       template[t].status = "DISABLED" /\ template'[t].status # "DISABLED" /\ ~overlapped =>
         \E r \in Reviewers : Writes(r, "staff") /\ review'[r].step = "ended"]_channelVars
=============================================================================
