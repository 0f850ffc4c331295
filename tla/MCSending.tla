------------------------------ MODULE MCSending ------------------------------
(* Four requests, three of them in flight at a time; a wallet that covers  *)
(* two of the cheaper messages, one of the dearer, or none.                *)
EXTENDS Sending, TLC

SendSymmetry == Permutations(SendIds)
=============================================================================
