------------------------------ MODULE QuickChat ------------------------------
(***************************************************************************)
(* QuickChatService: one chat session of a workspace and the agent it was  *)
(* opened with.  A message is turned into a plan (ChatTools): a tool that  *)
(* runs at once, or an action that waits for the user's confirmation.  The *)
(* tools are the other components' operations; here they take effect or    *)
(* not and return or throw, which is independent: a message may be sent    *)
(* although its bookkeeping fails.                                         *)
(*                                                                         *)
(* Every execution is written to a log under an idempotency key, which is  *)
(* unique: the action's id for a confirmed action, session and millisecond *)
(* for a tool that runs at once.  Requests stop at every await.            *)
(*                                                                         *)
(* The transcript is left out but for the announcement of an executed      *)
(* action; a message from which no plan with a tool results changes        *)
(* nothing else and is a request that is never made.                       *)
(***************************************************************************)
EXTENDS ChatTools

CONSTANTS Requests,      \* sendMessage and confirmAction requests
          Tools,         \* bound: the tools messages ask for
          Mentions,      \* bound: the intents messages in words mention
          Actions,       \* ids of QuickChatAction rows
          Policies,      \* bound: values allowedTools may be given
          Milliseconds,  \* bound: the times at which tools are started at once
          MaxInFlight,   \* bound: requests being served at a time
          MaxFaults,     \* bound: crashes and failed or unanswered writes
          NoKey          \* "no idempotency key"

ASSUME ChatBounds == MaxInFlight \in Nat /\ MaxFaults \in Nat
ASSUME ChatTime == Milliseconds \subseteq Nat
ASSUME ChatKeys == /\ Actions \cap Milliseconds = {}
                   /\ NoKey \notin Actions \cup Milliseconds

Keys == Actions \cup Milliseconds

SomeTool == CHOOSE tool \in Tools : TRUE

ASSUME ChatPolicies == Tools # {} /\ Policies \subseteq SUBSET Tools

VARIABLES agent,       \* the agent profile: active, allowedTools
          open,        \* the session exists
          permitted,   \* tools the agent has been allowed since then
          action,      \* QuickChatAction rows: status and tool
          log,         \* QuickChatExecutionLog: outcome under each key
          announced,   \* how often the session was told an action was executed
          req,         \* progress of each request
          clock,       \* the last millisecond a tool was started at once
          effects,     \* external: how often the tool of a request took effect
          faults       \* number of faults so far

agentVars == <<agent, open, permitted>>
vars == <<agentVars, action, log, announced, req, clock, effects, faults>>

ActionStatus == {"none", "PENDING_CONFIRMATION", "EXECUTED"}
Action  == [status : ActionStatus, tool : Tools]
Outcome == {"none", "ok", "error"}
ChatSteps == {"idle", "planning", "executing", "returned", "thrown",
              "done", "rejected", "failed", "lost"}
Request == [step : ChatSteps, tool : Tools, role : Roles, named : BOOLEAN,
            key : Keys \cup {NoKey}]

Ended == {"done", "rejected", "failed", "lost"}
Asked(step, tool, role, named, key) ==
  [step |-> step, tool |-> tool, role |-> role, named |-> named, key |-> key]
AtRest(step, key) == Asked(step, SomeTool, "MEMBER", FALSE, key)

InFlight == {q \in Requests : req[q].step \notin {"idle"} \cup Ended}

ChatTypeOK ==
  /\ agent \in [active : BOOLEAN, allowed : SUBSET Tools]
  /\ open \in BOOLEAN
  /\ permitted \in SUBSET Tools
  /\ action \in [Actions -> Action]
  /\ log \in [Keys -> Outcome]
  /\ announced \in [Actions -> Nat]
  /\ req \in [Requests -> Request]
  /\ clock \in Nat
  /\ effects \in [Actions -> Nat]
  /\ faults \in 0..MaxFaults

(* The session's agent is the default agent, which may use every tool.     *)
ChatInit ==
  /\ agent = [active |-> TRUE, allowed |-> Tools]
  /\ open = FALSE
  /\ permitted = {}
  /\ action = [a \in Actions |-> [status |-> "none", tool |-> SomeTool]]
  /\ log = [k \in Keys |-> "none"]
  /\ announced = [a \in Actions |-> 0]
  /\ req = [q \in Requests |-> AtRest("idle", NoKey)]
  /\ clock = 0
  /\ effects = [a \in Actions |-> 0]
  /\ faults = 0

Fault == /\ faults < MaxFaults
         /\ faults' = faults + 1

Arrives(q) == /\ open
              /\ req[q].step = "idle"
              /\ Cardinality(InFlight) < MaxInFlight

(* A request that ended is forgotten, but for the key it died with.        *)
Stepped(r, to) == IF to \in Ended THEN AtRest(to, IF to = "lost" THEN r.key ELSE NoKey)
                  ELSE [r EXCEPT !.step = to]
Becomes(q, r) == req' = [req EXCEPT ![q] = r]
Goes(q, from, to) == req[q].step = from /\ Becomes(q, Stepped(req[q], to))

-----------------------------------------------------------------------------
(* upsertAgent, by the admin: at any time, other tools and active or not.  *)
UpsertAgent ==
  /\ \E allowed \in Policies, active \in BOOLEAN :
       /\ agent' = [active |-> active, allowed |-> allowed]
       /\ permitted' = IF open THEN permitted \cup allowed ELSE {}
  /\ UNCHANGED <<open, action, log, announced, req, clock, effects, faults>>

(* createSession: an agent that is active.  The session is stored one      *)
(* await after the agent was read; nothing reads in between what either    *)
(* writes, so one step stands for both.                                    *)
CreateSession ==
  /\ ~open
  /\ agent.active
  /\ open' = TRUE
  /\ permitted' = agent.allowed
  /\ UNCHANGED <<agent, action, log, announced, req, clock, effects, faults>>

(* The plans that a message may lead to: one in words, or one that names a *)
(* tool.                                                                   *)
Plans(role, named) ==
  IF named THEN PlansByName(Tools)
  ELSE {plan \in UNION {PlansInWords(role, mentions, complete) :
                          mentions \in Mentions, complete \in BOOLEAN} :
          plan.tool \in Tools}

(* Fault: the policy is not read; an active agent may use every tool.      *)
AllowedIfActive(tool) == agent.active /\ tool \in Tools

(* ensureToolAllowed                                                       *)
Allowed(tool) == tool \in agent.allowed

(* sendMessage, up to ensureToolAllowed.                                   *)
Ask(q) ==
  /\ Arrives(q)
  /\ \E role \in Roles, named \in BOOLEAN : \E plan \in Plans(role, named) :
       \/ /\ ~Allowed(plan.tool)
          /\ Becomes(q, AtRest("rejected", NoKey))
          /\ UNCHANGED clock
       \/ /\ Allowed(plan.tool) /\ ~plan.atOnce
          /\ Becomes(q, Asked("planning", plan.tool, role, named, NoKey))
          /\ UNCHANGED clock
       \/ /\ Allowed(plan.tool) /\ plan.atOnce
          /\ \E ms \in Milliseconds :
               /\ ms >= clock
               /\ clock' = ms
               /\ Becomes(q, Asked("executing", plan.tool, role, named, ms))
  /\ UNCHANGED <<agentVars, action, log, announced, effects, faults>>

(* The action is stored; its summary asks the user to confirm.             *)
PlanAction(q) ==
  /\ Goes(q, "planning", "done")
  /\ \E a \in Actions :
       /\ action[a].status = "none"
       /\ action' = [action EXCEPT ![a] = [status |-> "PENDING_CONFIRMATION",
                                           tool   |-> req[q].tool]]
  /\ UNCHANGED <<agentVars, log, announced, clock, effects, faults>>

(* Fault: an action that was executed may be confirmed again.              *)
ConfirmableOnceStored(a) == action[a].status # "none"

Confirmable(a) == action[a].status = "PENDING_CONFIRMATION"

(* confirmAction, up to the status check.  The role is the one the member  *)
(* has now; the agent's policy is not asked again.                         *)
Confirm(q) ==
  /\ Arrives(q)
  /\ \E a \in Actions, role \in Roles :
       /\ action[a].status # "none"
       /\ Becomes(q, IF Confirmable(a) THEN Asked("executing", action[a].tool, role, FALSE, a)
                     ELSE AtRest("rejected", NoKey))
  /\ UNCHANGED <<agentVars, action, log, announced, clock, effects, faults>>

-----------------------------------------------------------------------------
(* toolExecutor.execute                                                    *)

(* The effect of a confirmed action is counted with the action.            *)
TakesEffect(q) ==
  effects' = IF Writes(req[q].tool) /\ req[q].key \in Actions
             THEN [effects EXCEPT ![req[q].key] = @ + 1]
             ELSE effects

ToolReturns(q) ==
  /\ MayRun(req[q].role, req[q].tool)
  /\ Goes(q, "executing", "returned")
  /\ TakesEffect(q)
  /\ UNCHANGED <<agentVars, action, log, announced, clock, faults>>

(* It refuses, or fails after it took effect (MessagingService: Zalo has   *)
(* accepted the message, the charge throws).                               *)
ToolThrows(q) ==
  /\ Goes(q, "executing", "thrown")
  /\ \/ UNCHANGED <<effects, faults>>
     \/ MayRun(req[q].role, req[q].tool) /\ Fault /\ TakesEffect(q)
  /\ UNCHANGED <<agentVars, action, log, announced, clock>>

-----------------------------------------------------------------------------
(* The log                                                                 *)

KeyFree(q) == log[req[q].key] = "none"

(* Fault: the log row of an earlier attempt is replaced.                   *)
WritesOverLog(q) ==
  /\ log' = [log EXCEPT ![req[q].key] = "ok"]
  /\ IF req[q].key \in Actions
     THEN /\ action' = [action EXCEPT ![req[q].key].status = "EXECUTED"]
          /\ announced' = [announced EXCEPT ![req[q].key] = @ + 1]
     ELSE UNCHANGED <<action, announced>>

(* Success: for a confirmed action one transaction with the new status and *)
(* the announcement.                                                       *)
WriteSuccess(q) ==
  /\ KeyFree(q)
  /\ log' = [log EXCEPT ![req[q].key] = "ok"]
  /\ IF req[q].key \in Actions
     THEN /\ action' = [action EXCEPT ![req[q].key].status = "EXECUTED"]
          /\ announced' = [announced EXCEPT ![req[q].key] = @ + 1]
     ELSE UNCHANGED <<action, announced>>

LogSuccess(q) ==
  /\ Goes(q, "returned", "done")
  /\ WriteSuccess(q)
  /\ UNCHANGED <<agentVars, clock, effects, faults>>

(* The key is taken or the write fails: it is rolled back, and the catch   *)
(* block follows.  It also follows a commit whose reply was lost.          *)
LogSuccessThrows(q) ==
  /\ Goes(q, "returned", "thrown")
  /\ \/ ~KeyFree(q) /\ UNCHANGED <<log, action, announced, faults>>
     \/ Fault /\ UNCHANGED <<log, action, announced>>
     \/ Fault /\ WriteSuccess(q)
  /\ UNCHANGED <<agentVars, clock, effects>>

(* Fault: the outcome is named like a message status.                      *)
LogFailed(q) ==
  /\ Goes(q, "thrown", "failed")
  /\ log' = IF KeyFree(q) THEN [log EXCEPT ![req[q].key] = "FAILED"] ELSE log
  /\ UNCHANGED <<agentVars, action, announced, clock, effects, faults>>

(* Fault: the catch block does not log.                                    *)
SkipsErrorLog(q) ==
  /\ Goes(q, "thrown", "failed")
  /\ UNCHANGED <<agentVars, action, log, announced, clock, effects, faults>>

(* The catch block logs the error, unless the key is taken.                *)
LogError(q) ==
  /\ Goes(q, "thrown", "failed")
  /\ log' = IF KeyFree(q) THEN [log EXCEPT ![req[q].key] = "error"] ELSE log
  /\ UNCHANGED <<agentVars, action, announced, clock, effects, faults>>

(* The server dies, or a write that no catch block guards fails.           *)
CrashChat(q) ==
  /\ q \in InFlight
  /\ Fault
  /\ Becomes(q, Stepped(req[q], "lost"))
  /\ UNCHANGED <<agentVars, action, log, announced, clock, effects>>

ChatStep(q) ==
  \/ Ask(q) \/ PlanAction(q) \/ Confirm(q)
  \/ ToolReturns(q) \/ ToolThrows(q)
  \/ LogSuccess(q) \/ LogSuccessThrows(q) \/ LogError(q)
  \/ CrashChat(q)

ChatNext == UpsertAgent \/ CreateSession \/ \E q \in Requests : ChatStep(q)

ChatSpec == ChatInit /\ [][ChatNext]_vars

-----------------------------------------------------------------------------
(* Properties                                                              *)

(* Status, log and announcement of a confirmed action tell the same story, *)
(* however confirmations overlap and whatever fails: it is announced once  *)
(* and only if it is EXECUTED and was logged as a success; and a writing   *)
(* tool then took effect.                                                  *)
ExecutedIsLogged ==
  \A a \in Actions :
    /\ action[a].status = "EXECUTED" <=> log[a] = "ok"
    /\ announced[a] = IF log[a] = "ok" THEN 1 ELSE 0
    /\ log[a] = "ok" /\ Writes(action[a].tool) => effects[a] > 0

(* No effect without a trace: once nobody works on an action any more, one *)
(* that took effect has a log row, unless the server died on it.           *)
WorksOn(q, a) == q \in InFlight /\ req[q].key = a
EffectsTraced ==
  \A a \in Actions :
    effects[a] > 0 =>
      \/ log[a] # "none"
      \/ \E q \in Requests : WorksOn(q, a) \/ (req[q].key = a /\ req[q].step = "lost")

(* An action that never failed takes effect more than once only through    *)
(* confirmations that overlapped or were cut off.                          *)
RepeatsBounded ==
  \A a \in Actions : log[a] # "error" => effects[a] <= MaxInFlight + faults

(* "Tool is not allowed by current agent policy", "Role ... is not allowed *)
(* to run", "never bypass confirmation for write actions": a tool returns  *)
(* only if the agent's policy has allowed it (an action may be confirmed   *)
(* after the policy withdrew its tool), a change to an entity only for one *)
(* of its writers, and a change is made at once only by naming its tool.   *)
ToolsWereSanctioned ==
  \A q \in Requests :
    req[q].step = "returned" =>
      LET tool == req[q].tool
      IN  /\ tool \in permitted
          /\ tool.op \in Changes /\ tool.entity \in DOMAIN Entities =>
               req[q].role \in Entities[tool.entity].writeRoles
          /\ Writes(tool) => req[q].named \/ req[q].key \in Actions

(* confirmAction, "Action is already processed": a confirmed action takes  *)
(* effect once.                                                            *)
ActionRunsOnce == \A a \in Actions : effects[a] <= 1
=============================================================================
