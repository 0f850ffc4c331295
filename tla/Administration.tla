--------------------------- MODULE Administration ---------------------------
(***************************************************************************)
(* AuthModule, the modules of a workspace, the issue of invoices and the   *)
(* comparison it rests on, and the recipients of a campaign, side by side. *)
(* None of them reads a variable of another: what they share is the token, *)
(* whose user JwtStrategy looks up without reading its status.  So         *)
(* interleaving them shows of none more than it shows alone, and a         *)
(* behaviour takes steps of one of them only.                              *)
(***************************************************************************)
EXTENDS Otp, Workspaces, InvoiceIssue, InvoiceComparison, CampaignFile

adminVars == <<authVars, wsVars, uploadVars, comparisonVars, fileVars>>

AdminInit == AuthInit /\ WsInit /\ InvoiceInit /\ ComparisonInit /\ FileInit

AdminNext ==
  \/ /\ AuthNext /\ WsInit /\ InvoiceInit /\ ComparisonInit /\ FileInit
     /\ UNCHANGED <<wsVars, uploadVars, comparisonVars, fileVars>>
  \/ /\ WsNext /\ AuthInit /\ InvoiceInit /\ ComparisonInit /\ FileInit
     /\ UNCHANGED <<authVars, uploadVars, comparisonVars, fileVars>>
  \/ /\ InvoiceNext /\ AuthInit /\ WsInit /\ ComparisonInit /\ FileInit
     /\ UNCHANGED <<authVars, wsVars, comparisonVars, fileVars>>
  \/ /\ ComparisonNext /\ AuthInit /\ WsInit /\ InvoiceInit /\ FileInit
     /\ UNCHANGED <<authVars, wsVars, uploadVars, fileVars>>
  \/ /\ FileNext /\ AuthInit /\ WsInit /\ InvoiceInit /\ ComparisonInit
     /\ UNCHANGED <<authVars, wsVars, uploadVars, comparisonVars>>

AdminSpec == AdminInit /\ [][AdminNext]_adminVars

(* The types of all five: no two of them share a variable.                 *)
AdminTypeOK ==
  AuthTypeOK /\ WsTypeOK /\ InvoiceTypeOK /\ ComparisonTypeOK /\ FileTypeOK
=============================================================================
