------------------------------- MODULE MCTopups -------------------------------
(* Two topups of different amounts and two or three webhook requests at a  *)
(* time.                                                                   *)
EXTENDS Topups

MCTopupIds == {"t1", "t2"}
MCAmount   == [t \in MCTopupIds |-> IF t = "t1" THEN 1 ELSE 2]
=============================================================================
