----------------------------- MODULE MCQuickChat -----------------------------
(* A tool that reads, one that sends a message, one that changes the       *)
(* workspace and one the executor does not know; the default agent's tools *)
(* and those of another.                                                   *)
EXTENDS QuickChat, TLC

ChatSymmetry == Permutations(Requests) \cup Permutations(Actions)
Reading    == Tool("wallet", "getBalance")
Sending    == Tool("messaging", "sendSingle")
Renaming   == Tool("Workspace", "update")
MCTools    == {Reading, Sending, Renaming, Tool("topups", "createQr")}
MCPolicies == {MCTools, {Reading, Renaming}}
MCMentions == {{}, {"GET_WALLET_BALANCE", "SEND_SINGLE_MESSAGE"}, {"CREATE_TOPUP_QR"},
               {"SEND_SINGLE_MESSAGE"}}
OneTool     == {Sending}
OnePolicy   == {OneTool}
OneMention  == {{"SEND_SINGLE_MESSAGE"}}
=============================================================================
