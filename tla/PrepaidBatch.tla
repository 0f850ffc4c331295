---------------------------- MODULE PrepaidBatch ----------------------------
(***************************************************************************)
(* What a run of a campaign promises about money: the whole batch is paid  *)
(* for before anything is sent, each message paid for is tried at most     *)
(* once, and when all have been tried the price of each that failed, and   *)
(* of no other, is given back, once.  A run may stop at any point.         *)
(***************************************************************************)
EXTENDS Integers, FiniteSets

CONSTANTS Runs,        \* the runs of the campaign
          Recipients,  \* whom a message may be sent to
          Prices       \* prices per message

VARIABLES price,       \* price[q]: what a message of run q costs
          held,        \* held[q]: paid in advance, NotYet before
          tried,       \* tried[q]: recipients whose message was tried
          failed,      \* failed[q]: those it was recorded as failed for
          refunded,    \* refunded[q]: given back, NotYet before
          delivered    \* delivered[r]: messages recipient r got

vars == <<price, held, tried, failed, refunded, delivered>>

NotYet == -1

Init == /\ price = [q \in Runs |-> 0]
        /\ held = [q \in Runs |-> NotYet]
        /\ tried = [q \in Runs |-> {}]
        /\ failed = [q \in Runs |-> {}]
        /\ refunded = [q \in Runs |-> NotYet]
        /\ delivered = [r \in Recipients |-> 0]

Hold(q) ==
  /\ held[q] = NotYet
  /\ \E p \in Prices, n \in 1..Cardinality(Recipients) :
       /\ price' = [price EXCEPT ![q] = p]
       /\ held' = [held EXCEPT ![q] = p * n]
  /\ UNCHANGED <<tried, failed, refunded, delivered>>

Paid(q) == held[q] # NotYet /\ refunded[q] = NotYet
Covers(q, n) == price[q] * n <= held[q]

Deliver(q) ==
  /\ Paid(q)
  /\ Covers(q, Cardinality(tried[q]) + 1)
  /\ \E r \in Recipients \ tried[q] : delivered' = [delivered EXCEPT ![r] = @ + 1]
  /\ UNCHANGED <<price, held, tried, failed, refunded>>

Record(q) ==
  /\ Paid(q)
  /\ Covers(q, Cardinality(tried[q]) + 1)
  /\ \E r \in Recipients \ tried[q] :
       /\ tried' = [tried EXCEPT ![q] = @ \cup {r}]
       /\ failed' \in {failed, [failed EXCEPT ![q] = @ \cup {r}]}
  /\ UNCHANGED <<price, held, refunded, delivered>>

Refund(q) ==
  /\ Paid(q)
  /\ held[q] = price[q] * Cardinality(tried[q])
  /\ refunded' = [refunded EXCEPT ![q] = price[q] * Cardinality(failed[q])]
  /\ UNCHANGED <<price, held, tried, failed, delivered>>

Next == \E q \in Runs : Hold(q) \/ Deliver(q) \/ Record(q) \/ Refund(q)

Spec == Init /\ [][Next]_vars
=============================================================================
