------------------------- MODULE InvoiceComparison -------------------------
(***************************************************************************)
(* What an invoice is compared with: the workspace's billing profile, the  *)
(* snapshot of it in the invoice that a credited topup posts, and what     *)
(* Gemini reads in the PDF (invoice-pdf-verification.util.ts).  The upload *)
(* that runs the comparison, step by step, is InvoiceIssue.                *)
(*                                                                         *)
(* A field of a billing profile is its content, what normalizing keeps:    *)
(* the words of a text, the groups of digits of a code or a phone number;  *)
(* and how it is typed (case, accents, blanks, signs), which normalizing   *)
(* drops.  No field is Absent.  Amounts are hundredths of a dong.          *)
(***************************************************************************)
EXTENDS Integers, Sequences, FiniteSets

CONSTANTS Buyers,        \* bound: the billing data clients send
          Amounts,       \* bound: topup amounts without VAT, in dong
          VatRates,      \* bound: the VAT rates of topups, in percent
          Words,         \* bound: the words and the groups of digits in them
          MaxMissed      \* bound: how many fields Gemini fails to read

ASSUME ComparisonBounds == Amounts \subseteq Nat /\ VatRates \subseteq Nat /\ MaxMissed \in Nat

VARIABLES profile,     \* the WorkspaceBillingProfile
          posted,      \* the invoice and its order
          comparison   \* the last PDF that was compared, and the outcome

comparisonVars == <<profile, posted, comparison>>

Absent  == [content |-> <<>>, typed |-> "not"]
Missing == -1
BillingFields == {"companyName", "representativeName", "fullName", "address", "invoiceEmail",
                  "citizenId", "taxCode", "phone"}

ASSUME BuyersAreTyped ==
  /\ "0" \in Words
  /\ \A b \in Buyers : /\ b.type \in {"ORGANIZATION", "INDIVIDUAL"}
                       /\ \A f \in BillingFields : b[f].content \in Seq(Words)

-----------------------------------------------------------------------------
(* invoice-pdf-verification.util.ts                                        *)

NormalizeText(text) == text.content
NormalizeTaxCode(code) == code.content

(* Fault: the country code is kept.                                        *)
DigitsOnly(phone) == NormalizeTaxCode(phone)

Local(digits) == IF digits # <<>> /\ Head(digits) = "84" THEN <<"0">> \o Tail(digits) ELSE digits
NormalizePhone(phone) == Local(NormalizeTaxCode(phone))

Includes(long, short) ==
  \E i \in 0..(Len(long) - Len(short)) : SubSeq(long, i + 1, i + Len(short)) = short

TextMatches(expected, found) ==
  LET a == NormalizeText(expected)
      b == NormalizeText(found)
  IN  a # <<>> /\ b # <<>> /\ (Includes(b, a) \/ Includes(a, b))

(* Math.round of hundredths.                                               *)
Rounded(amount) == (amount + 50) \div 100

(* Fault: the difference is not taken absolutely.                          *)
AmountSuffices(expected, found) ==
  found # Missing /\ Rounded(expected) - Rounded(found) <= 1

(* At most one dong apart.                                                 *)
AmountMatches(expected, found) ==
  found # Missing /\ Rounded(expected) - Rounded(found) \in -1..1

LineItems == {"phi dich vu", "nap tien", "topup", "zalo zns"}
LineItemNameMatches(found) == \E i \in DOMAIN found.content : found.content[i] \in LineItems

AmountFields == {"amountExclVat", "vatAmount", "amountInclVat"}

CommercialFields == AmountFields \cup {"vatRate", "lineItemName", "invoiceNumber", "issueDate"}

(* An INDIVIDUAL, also the one of an invoice without a billing profile,    *)
(* is compared by name and citizen id, an ORGANIZATION by company; another *)
(* representative is a warning, which is not reported.                     *)
BillingMismatches(invoice, found) ==
  LET expected == invoice.billing
      named    == IF invoice.type = "ORGANIZATION" THEN "companyName" ELSE "fullName"
  IN  {f \in {named, "address", "invoiceEmail"} : ~TextMatches(expected[f], found[f])} \cup
      {f \in {"taxCode", "citizenId"} :
         /\ f = "citizenId" => invoice.type # "ORGANIZATION" /\ expected[f] # Absent
         /\ NormalizeTaxCode(expected[f]) # NormalizeTaxCode(found[f])} \cup
      {f \in {"phone"} : /\ expected[f] # Absent
                        /\ NormalizePhone(expected[f]) # NormalizePhone(found[f])}

(* A rate that was not read is not compared.  A number that staff enter    *)
(* must be the one read; that the PDF shows none is no mismatch, since     *)
(* the number expected then is the one read.  Dates are compared if both   *)
(* are there.                                                              *)
CommercialMismatches(invoice, r, entered) ==
  {f \in AmountFields : ~AmountMatches(invoice[f], r.amounts[f])} \cup
  {f \in {"vatRate"} : r.vatRate # Missing /\ r.vatRate # invoice.vatRate} \cup
  {f \in {"lineItemName"} : ~LineItemNameMatches(r.lineItemName)} \cup
  {f \in {"invoiceNumber"} : entered # Missing /\ entered # r.invoiceNumber} \cup
  {f \in {"issueDate"} : entered # Missing /\ r.issueDate # Missing /\ entered # r.issueDate}

BuildInvoicePdfMismatches(invoice, r, entered) ==
  BillingMismatches(invoice, r.billing) \cup CommercialMismatches(invoice, r, entered)

-----------------------------------------------------------------------------
(* The billing profile and its snapshot                                    *)

(* validateBillingOrThrow                                                  *)
Required(type) ==
  {"taxCode", "address", "invoiceEmail"} \cup
  (IF type = "ORGANIZATION" THEN {"companyName"} ELSE {"fullName", "citizenId", "phone"})

Valid(buyer) == \A f \in Required(buyer.type) : buyer[f] # Absent

NoProfile == [f \in BillingFields \cup {"type"} |-> IF f = "type" THEN "none" ELSE Absent]

NoInvoice == [type |-> "none", billing |-> NoProfile, vatRate |-> 0, topupRate |-> 0,
              amountExclVat |-> 0, vatAmount |-> 0, amountInclVat |-> 0]

NotCompared == [made |-> FALSE, buyer |-> NoProfile, paid |-> 0, missed |-> {},
                entered |-> Missing, passed |-> FALSE]

ComparisonInit == profile = NoProfile /\ posted = NoInvoice /\ comparison = NotCompared

(* create and updateOwner: what is not sent stays as it is.                *)
SaveProfile ==
  /\ posted = NoInvoice
  /\ \E buyer \in Buyers :
       /\ Valid(buyer)
       /\ profile' = [f \in DOMAIN profile |->
                        IF f \in BillingFields /\ buyer[f] = Absent THEN profile[f]
                        ELSE buyer[f]]
  /\ UNCHANGED <<posted, comparison>>

(* The amounts of a topup.                                                 *)
Sums(excl, rate) == [amountExclVat |-> 100 * excl, vatAmount |-> rate * excl,
                     amountInclVat |-> (100 + rate) * excl]

(* The end of the Pay2S webhook: the rate of the topup is in its amounts;  *)
(* the invoice's item takes the default of its column.                     *)
PostInvoice ==
  /\ posted = NoInvoice
  /\ \E excl \in Amounts, rate \in VatRates :
       LET sums == Sums(excl, rate)
       IN  posted' = [type |-> IF profile = NoProfile THEN "INDIVIDUAL" ELSE profile.type,
                      billing |-> profile, vatRate |-> 10, topupRate |-> rate,
                      amountExclVat |-> sums.amountExclVat, vatAmount |-> sums.vatAmount,
                      amountInclVat |-> sums.amountInclVat]
  /\ UNCHANGED <<profile, comparison>>

-----------------------------------------------------------------------------
(* External: a PDF for the topup, made out to some buyer, and Gemini.      *)

Printed(f, value) ==
  IF value = Absent THEN Absent
  ELSE [content |-> IF f = "phone" THEN Local(value.content) ELSE value.content,
        typed |-> "as printed"]

(* Sums are printed in whole dong, rounded up or down.                     *)
Down(amount) == 100 * (amount \div 100)
Up(amount)   == 100 * ((amount + 99) \div 100)
Prints(sums) == {[f \in AmountFields |-> IF f \in up THEN Up(sums[f]) ELSE Down(sums[f])] :
                   up \in SUBSET AmountFields}

Read(buyer, missed, amounts) ==
  LET read(f, value) == IF f \in missed THEN Missing ELSE value
  IN  [billing |-> [f \in BillingFields |-> IF f \in missed THEN Absent ELSE Printed(f, buyer[f])],
       amounts |-> [f \in AmountFields |-> read(f, amounts[f])],
       vatRate |-> read("vatRate", posted.topupRate),
       lineItemName |-> IF "lineItemName" \in missed THEN Absent
                        ELSE [content |-> <<"topup">>, typed |-> "as printed"],
       invoiceNumber |-> read("invoiceNumber", 1),
       issueDate |-> read("issueDate", 1)]

(* The PDF may be that of another topup.  Its number and its date are 1;   *)
(* staff enter them, others or none.                                       *)
Compare ==
  /\ posted # NoInvoice /\ ~comparison.made
  /\ \E buyer \in Buyers \cup {posted.billing}, paid \in Amounts, number \in {Missing, 1, 2},
        missed \in SUBSET (BillingFields \cup CommercialFields) :
       /\ Cardinality(missed) <= MaxMissed
       /\ \E amounts \in Prints(Sums(paid, posted.topupRate)) :
            LET mismatches == BuildInvoicePdfMismatches(posted, Read(buyer, missed, amounts), number)
            IN  comparison' = [made |-> TRUE, buyer |-> buyer, paid |-> paid, missed |-> missed,
                               entered |-> number, passed |-> mismatches = {}]
  /\ UNCHANGED <<profile, posted>>

ComparisonNext == SaveProfile \/ PostInvoice \/ Compare

ComparisonSpec == ComparisonInit /\ [][ComparisonNext]_comparisonVars

-----------------------------------------------------------------------------
(* Properties                                                              *)

ComparisonTypeOK ==
  /\ profile = NoProfile \/ profile.type \in {"ORGANIZATION", "INDIVIDUAL"}
  /\ posted.type \in {"none", "ORGANIZATION", "INDIVIDUAL"}
  /\ posted.amountInclVat \in Nat
  /\ comparison.missed \subseteq BillingFields \cup CommercialFields
  /\ comparison.passed \in BOOLEAN

(* What the comparison cannot do without.                                  *)
Needed ==
  Required(posted.type) \cup AmountFields \cup {"lineItemName"} \cup
  {f \in {"phone"} : posted.billing[f].content # <<>>} \cup
  {f \in {"invoiceNumber"} : comparison.entered # Missing}

(* No required text is blank and no required code without a digit: a       *)
(* profile with blanks passes the validation.                              *)
Legible == \A f \in Required(posted.type) : posted.billing[f].content # <<>>

(* Whatever a profile went through before it was copied, the PDF made out  *)
(* to it for the topup passes if Gemini reads all that is needed, however  *)
(* it is typed and its sums are rounded: as long as the VAT rate is the    *)
(* invoice's.  It does not pass if something needed is missing, and never  *)
(* for an invoice without a billing profile.                               *)
OwnPdfPasses ==
  comparison.made /\ comparison.buyer = posted.billing
  /\ 100 * comparison.paid = posted.amountExclVat =>
    /\ posted.billing = NoProfile => ~comparison.passed
    /\ posted.billing # NoProfile /\ Legible =>
         (comparison.passed <=>
            /\ comparison.missed \cap Needed = {}
            /\ comparison.entered \in {Missing, 1}
            /\ posted.topupRate = posted.vatRate \/ "vatRate" \in comparison.missed)

(* The PDF of a topup whose amount differs by more than a dong, or made    *)
(* out to somebody with other digits in the tax code, does not pass.       *)
OthersPdfFails ==
  comparison.made /\ Legible /\
  (\/ NormalizeTaxCode(comparison.buyer.taxCode) # NormalizeTaxCode(posted.billing.taxCode)
   \/ 100 * comparison.paid - posted.amountExclVat \notin -100..100) => ~comparison.passed
=============================================================================
