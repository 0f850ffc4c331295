---------------------------- MODULE PaymentCredit ----------------------------
(***************************************************************************)
(* What the topup component promises about money: every payment the        *)
(* customer made is met by one credit, for an amount that was announced    *)
(* for it.  Without announcements other than the payment's own (strays)    *)
(* that is the amount paid; with them the first one to be served decides.  *)
(***************************************************************************)
EXTENDS Integers

CONSTANTS Payments,   \* the payments a customer may make
          Amount,     \* Amount[p] \in Nat: the credits bought by payment p
          Others      \* the amounts announced without the payment

VARIABLES paid,       \* payments the customer made
          strays,     \* <<payment, amount>> announced without the payment
          credited,   \* <<payment, amount>> the wallet was credited with
          total       \* credits received so far, also for payments made before

vars == <<paid, strays, credited, total>>

Init == /\ paid = {}
        /\ strays = {}
        /\ credited = {}
        /\ total \in Nat

Pay(p) == /\ p \in Payments \ paid
          /\ paid' = paid \cup {p}
          /\ UNCHANGED <<strays, credited, total>>

Stray(p, a) == /\ strays' = strays \cup {<<p, a>>}
               /\ UNCHANGED <<paid, credited, total>>

Announced(p, a) == (p \in paid /\ a = Amount[p]) \/ <<p, a>> \in strays

Credit(p, a) == /\ Announced(p, a)
                /\ \A c \in credited : c[1] # p
                /\ credited' = credited \cup {<<p, a>>}
                /\ total' = total + a
                /\ UNCHANGED <<paid, strays>>

Next == \E p \in Payments : \/ Pay(p)
                            \/ \E a \in Others : Stray(p, a)
                            \/ \E a \in Others \cup {Amount[p]} : Credit(p, a)

Spec == Init /\ [][Next]_vars

(* What was paid is credited, with its amount unless a stray came first.   *)
CreditPayment(p) == p \in paid /\ Credit(p, Amount[p])

FairSpec == Spec /\ \A p \in Payments : WF_vars(CreditPayment(p))
=============================================================================
