------------------------------ MODULE ChatTools ------------------------------
(***************************************************************************)
(* The tools of the quick chat: which tool a message asks for              *)
(* (QuickChatOrchestratorService), which entities have tools and who may   *)
(* run them (QuickChatToolRegistryService), and what the executor knows    *)
(* (QuickChatToolExecutorService).                                         *)
(*                                                                         *)
(* A tool's name "entity.op" is split at its dot.  That a tool for a table *)
(* of one workspace sees the rows of that workspace only (workspaceScoped) *)
(* is left out: rows are not told apart here.                              *)
(***************************************************************************)
EXTENDS Integers, FiniteSetsExt

Tool(entity, op) == [entity |-> entity, op |-> op]

Platform == {"ADMIN", "STAFF"}
Owners   == {"OWNER", "ADMIN"}
Managers == {"OWNER", "ADMIN", "STAFF"}
Everyone == {"OWNER", "MEMBER", "ADMIN", "STAFF"}

(* Members of a workspace.  ADMIN and STAFF chat through internal          *)
(* endpoints, which look for a session without a workspace but create      *)
(* every session with one: their messages reach no session, and no tool.   *)
Roles == {"OWNER", "MEMBER"}

Operations == {"queryAll", "queryBy", "findBy", "create", "update"}
Changes    == {"create", "update"}

Access(readRoles, writeRoles) == [readRoles |-> readRoles, writeRoles |-> writeRoles]

Entities ==
  [User                    |-> Access(Platform, {"ADMIN"}),
   UserCredential          |-> Access({"ADMIN"}, {"ADMIN"}),
   OtpRequest              |-> Access(Platform, {"ADMIN"}),
   Workspace               |-> Access(Everyone, Owners),
   WorkspaceMember         |-> Access(Everyone, Managers),
   WorkspaceBillingProfile |-> Access(Everyone, Owners),
   WorkspaceInvitation     |-> Access(Everyone, Managers),
   WalletAccount           |-> Access(Everyone, Owners),
   WalletTransaction       |-> Access(Everyone, Owners),
   TopupRequest            |-> Access(Everyone, Managers),
   PaymentWebhookLog       |-> Access(Platform, Platform),
   Order                   |-> Access(Everyone, Platform),
   OrderItem               |-> Access(Platform, Platform),
   Invoice                 |-> Access(Everyone, Platform),
   InvoiceItem             |-> Access(Platform, Platform),
   WorkspaceOaConnection   |-> Access(Everyone, Managers),
   Template                |-> Access(Everyone, Everyone),
   TemplateSubmissionLog   |-> Access(Everyone, Platform),
   MessageLog              |-> Access(Everyone, Everyone),
   Campaign                |-> Access(Everyone, Everyone),
   CampaignRow             |-> Access(Everyone, Everyone),
   ApiKey                  |-> Access(Managers, Owners),
   ApiRequestLog           |-> Access(Platform, Platform),
   AuditLog                |-> Access(Managers, Platform),
   NotificationLog         |-> Access(Platform, Platform),
   BackgroundJobLog        |-> Access(Platform, Platform)]

Resolves(tool) == tool.entity \in DOMAIN Entities /\ tool.op \in Operations

(* The tools the executor serves itself, for every role.                   *)
ReadTools  == {Tool("wallet", "getBalance"), Tool("templates", "list"), Tool("members", "list")}
WriteTools == {Tool("templates", "create"), Tool("messaging", "sendSingle")}

Writes(tool) == tool \in WriteTools \/ (Resolves(tool) /\ tool.op \in Changes)

(* Any other tool is refused: "Unknown tool", "Role ... is not allowed".   *)
MayRun(role, tool) ==
  \/ tool \in ReadTools \cup WriteTools
  \/ /\ Resolves(tool)
     /\ role \in IF tool.op \in Changes THEN Entities[tool.entity].writeRoles
                                        ELSE Entities[tool.entity].readRoles

-----------------------------------------------------------------------------
(* A message in words mentions intents; the first of this list is meant.   *)
Intents == <<"GET_WALLET_BALANCE", "LIST_TEMPLATES", "LIST_MEMBERS",
             "CREATE_TOPUP_QR", "CREATE_TEMPLATE", "SEND_SINGLE_MESSAGE">>

DetectIntent(mentions) ==
  IF mentions = {} THEN "UNKNOWN"
  ELSE Intents[Min({i \in 1..6 : Intents[i] \in mentions})]

ToolOf ==
  [GET_WALLET_BALANCE  |-> Tool("wallet", "getBalance"),
   LIST_TEMPLATES      |-> Tool("templates", "list"),
   LIST_MEMBERS        |-> Tool("members", "list"),
   CREATE_TOPUP_QR     |-> Tool("topups", "createQr"),
   CREATE_TEMPLATE     |-> Tool("templates", "create"),
   SEND_SINGLE_MESSAGE |-> Tool("messaging", "sendSingle")]

Plan(tool, atOnce) == [tool |-> tool, atOnce |-> atOnce]

(* The plans for a message in words that mentions these intents and has    *)
(* all the fields they need, or not: none, or one.                         *)
PlansInWords(role, mentions, complete) ==
  LET intent == DetectIntent(mentions)
  IN  CASE intent = "UNKNOWN" -> {}
        [] intent \in {"GET_WALLET_BALANCE", "LIST_TEMPLATES", "LIST_MEMBERS"} ->
             {Plan(ToolOf[intent], TRUE)}
        [] intent = "CREATE_TOPUP_QR" ->
             IF role = "OWNER" /\ complete THEN {Plan(ToolOf[intent], FALSE)} ELSE {}
        [] OTHER ->
             IF complete THEN {Plan(ToolOf[intent], FALSE)} ELSE {}

(* The plan for a message that names a tool: to be confirmed, unless it    *)
(* says that no confirmation is required.                                  *)
PlansByName(tools) == {Plan(tool, atOnce) : tool \in tools, atOnce \in BOOLEAN}
=============================================================================
