---------------------------- MODULE InvoiceIssue ----------------------------
(***************************************************************************)
(* InvoicePdfVerificationService: staff upload the PDF of one invoice that *)
(* a credited topup has posted; Gemini reads it, what it read is compared  *)
(* with the billing snapshot, and the invoice is issued if they agree.     *)
(* Uploads stop at every await.                                            *)
(*                                                                         *)
(* A comparison yields severities only; an upload is its own file.         *)
(* CANCELLED is written by no code and left out.                           *)
(***************************************************************************)
EXTENDS Integers, FiniteSets

CONSTANTS Uploads,             \* requests to verify and issue, each with its PDF
          MaxUploadsInFlight,  \* bound: requests being served at a time
          MaxUploadFaults,     \* bound: crashes and failed statements
          NoUpload             \* null

ASSUME UploadBounds == MaxUploadsInFlight \in Nat /\ MaxUploadFaults \in Nat
ASSUME NoUploadIsNone == NoUpload \notin Uploads

VARIABLES invoice,            \* Invoice: status, PDF, verificationJson
          stored,             \* PDFs in public/invoices
          agreed,             \* uploads whose comparison found no mismatch
          issuances,          \* INVOICE_ISSUED_VIA_PDF audit rows
          upload,             \* progress of each upload
          uploadsOverlapped,  \* two uploads have been served at once
          uploadFaults        \* number of faults so far

uploadVars == <<invoice, stored, agreed, issuances, upload, uploadsOverlapped, uploadFaults>>

Invoice == [status : {"POSTED", "ISSUED"}, pdf : Uploads \cup {NoUpload},
            result : {"none", "pass", "fail"}, verified : Uploads \cup {NoUpload}]
UploadSteps == {"idle", "extracting", "failing", "saving", "issuing", "ended"}
UploadsInFlight == {q \in Uploads : upload[q] \notin {"idle", "ended"}}

InvoiceTypeOK ==
  /\ invoice \in Invoice
  /\ stored \subseteq agreed /\ agreed \subseteq Uploads
  /\ issuances \in Nat
  /\ upload \in [Uploads -> UploadSteps]
  /\ uploadsOverlapped \in BOOLEAN
  /\ uploadFaults \in 0..MaxUploadFaults

InvoiceInit ==
  /\ invoice = [status |-> "POSTED", pdf |-> NoUpload, result |-> "none", verified |-> NoUpload]
  /\ stored = {} /\ agreed = {} /\ issuances = 0
  /\ upload = [q \in Uploads |-> "idle"]
  /\ uploadsOverlapped = FALSE
  /\ uploadFaults = 0

UploadFault == uploadFaults < MaxUploadFaults /\ uploadFaults' = uploadFaults + 1
UploadAt(q, step)   == upload[q] = step /\ UNCHANGED uploadsOverlapped
UploadGoes(q, step) == upload' = [upload EXCEPT ![q] = step]

-----------------------------------------------------------------------------

(* Fault: only a cancelled invoice is refused.                             *)
IssuableUnlessCancelled == invoice.status # "CANCELLED"

Issuable == invoice.status = "POSTED"

BeginUpload(q) ==
  /\ upload[q] = "idle" /\ Cardinality(UploadsInFlight) < MaxUploadsInFlight
  /\ uploadsOverlapped' = (uploadsOverlapped \/ UploadsInFlight # {})
  /\ UploadGoes(q, IF Issuable THEN "extracting" ELSE "ended")
  /\ UNCHANGED <<invoice, stored, agreed, issuances, uploadFaults>>

(* buildInvoicePdfMismatches: warnings are not reported.                   *)
Mismatches(severities) == severities \cap {"error"}

(* What Gemini makes of a PDF may differ from call to call.                *)
Extract(q) ==
  /\ UploadAt(q, "extracting")
  /\ \E severities \in SUBSET {"error", "warning"} :
       IF Mismatches(severities) = {}
       THEN UploadGoes(q, "saving") /\ agreed' = agreed \cup {q}
       ELSE UploadGoes(q, "failing") /\ UNCHANGED agreed
  /\ UNCHANGED <<invoice, stored, issuances, uploadFaults>>

(* The outcome is written whatever the status has become.                  *)
RecordMismatch(q) ==
  /\ UploadAt(q, "failing")
  /\ invoice' = [invoice EXCEPT !.result = "fail", !.verified = q]
  /\ UploadGoes(q, "ended")
  /\ UNCHANGED <<stored, agreed, issuances, uploadFaults>>

SavePdf(q) ==
  /\ UploadAt(q, "saving")
  /\ stored' = stored \cup {q}
  /\ UploadGoes(q, "issuing")
  /\ UNCHANGED <<invoice, agreed, issuances, uploadFaults>>

(* Invoice and audit row in one transaction.                               *)
IssueInvoice(q) ==
  /\ UploadAt(q, "issuing")
  /\ invoice' = [status |-> "ISSUED", pdf |-> q, result |-> "pass", verified |-> q]
  /\ issuances' = issuances + 1
  /\ UploadGoes(q, "ended")
  /\ UNCHANGED <<stored, agreed, uploadFaults>>

(* The server dies, Gemini fails or takes too long, a write fails.         *)
CrashUpload(q) ==
  /\ q \in UploadsInFlight
  /\ UploadFault
  /\ UploadGoes(q, "ended")
  /\ UNCHANGED <<invoice, stored, agreed, issuances, uploadsOverlapped>>

UploadStep(q) ==
  \/ BeginUpload(q) \/ Extract(q) \/ RecordMismatch(q) \/ SavePdf(q) \/ IssueInvoice(q)
  \/ CrashUpload(q)

InvoiceNext == \E q \in Uploads : UploadStep(q)

InvoiceSpec == InvoiceInit /\ [][InvoiceNext]_uploadVars

-----------------------------------------------------------------------------
(* Properties                                                              *)

(* An issued invoice shows a stored PDF that agreed with the billing, its  *)
(* issue is on record, and nothing else issues it.  "Invoice is already    *)
(* issued": unless two uploads overlapped, it was issued once and its      *)
(* verification is that of the PDF it shows.                               *)
IssuedAsVerified ==
  /\ invoice.status = "ISSUED" <=> issuances > 0
  /\ invoice.status = "ISSUED" =>
       /\ invoice.pdf \in stored \cap agreed
       /\ ~uploadsOverlapped =>
            /\ issuances = 1
            /\ invoice.result = "pass" /\ invoice.verified = invoice.pdf
=============================================================================
