------------------------------- MODULE MCBilling -------------------------------
(* One topup, one single message and one campaign run of one row at the    *)
(* same time.                                                              *)
EXTENDS Billing

MCAmount == [t \in TopupIds |-> 3]
================================================================================
