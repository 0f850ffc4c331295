--------------------------- MODULE QuickChat_proofs ---------------------------
(***************************************************************************)
(* Theorems about QuickChat, for every number of requests, actions and     *)
(* faults.                                                                 *)
(***************************************************************************)
EXTENDS QuickChat, FiniteSetTheorems, TLAPS

(* The type invariant, and what a request that runs a tool holds: a key,   *)
(* and the tool of the action if the key is an action's.                   *)
HoldsKey ==
  \A q \in Requests :
    req[q].step \in {"executing", "returned", "thrown"} =>
      /\ req[q].key \in Keys
      /\ req[q].key \in Actions =>
           /\ action[req[q].key].status # "none"
           /\ action[req[q].key].tool = req[q].tool

TypeInv == ChatTypeOK /\ HoldsKey

-----------------------------------------------------------------------------
(* The executor's reading tools change nothing.                            *)
LEMMA ReadersOnly == \A tool \in ReadTools : ~Writes(tool)
<1>1. \A tool \in ReadTools : tool \notin WriteTools
  BY DEF ReadTools, WriteTools, Tool
<1>2. \A tool \in ReadTools : tool.op \notin Changes
  BY DEF ReadTools, Changes, Tool
<1> QED  BY <1>1, <1>2 DEF Writes

LEMMA RestTyped ==
  ASSUME NEW step \in ChatSteps, NEW key \in Keys \cup {NoKey}
  PROVE  /\ AtRest(step, key) \in Request
         /\ AtRest(step, key).step = step
         /\ AtRest(step, key).key = key
<1>1. SomeTool \in Tools
  BY ChatPolicies DEF SomeTool
<1> QED  BY <1>1 DEF AtRest, Asked, Request, Roles

LEMMA SteppedTyped ==
  ASSUME NEW r \in Request, NEW to \in ChatSteps
  PROVE  /\ Stepped(r, to) \in Request
         /\ Stepped(r, to).step = to
         /\ to = "lost" => Stepped(r, to).key = r.key
         /\ to \notin Ended => Stepped(r, to) = [r EXCEPT !.step = to]
<1>1. CASE to \in Ended
  <2> DEFINE k == IF to = "lost" THEN r.key ELSE NoKey
  <2>1. Stepped(r, to) = AtRest(to, k) /\ k \in Keys \cup {NoKey}
    BY <1>1 DEF Stepped, Request
  <2>2. AtRest(to, k) \in Request /\ AtRest(to, k).step = to /\ AtRest(to, k).key = k
    BY <2>1, RestTyped
  <2> QED  BY <1>1, <2>1, <2>2
<1>2. CASE to \notin Ended
  <2>1. Stepped(r, to) = [r EXCEPT !.step = to]
    BY <1>2 DEF Stepped
  <2>2. [r EXCEPT !.step = to] \in Request /\ [r EXCEPT !.step = to].step = to
    BY DEF Request
  <2> QED  BY <1>2, <2>1, <2>2 DEF Ended
<1> QED  BY <1>1, <1>2

(* A step that only moves request q on.                                    *)
LEMMA Moved ==
  ASSUME TypeInv, NEW q \in Requests, NEW from \in ChatSteps, NEW to \in ChatSteps,
         Goes(q, from, to)
  PROVE  /\ req' \in [Requests -> Request]
         /\ req[q].step = from
         /\ req'[q].step = to
         /\ to = "lost" => req'[q].key = req[q].key
         /\ to \notin Ended =>
              /\ req'[q].key = req[q].key
              /\ req'[q].tool = req[q].tool
              /\ req'[q].role = req[q].role
              /\ req'[q].named = req[q].named
         /\ \A p \in Requests : p # q => req'[p] = req[p]
<1>1. req \in [Requests -> Request] /\ req[q] \in Request
  BY DEF TypeInv, ChatTypeOK
<1>2. req' = [req EXCEPT ![q] = Stepped(req[q], to)] /\ req[q].step = from
  BY DEF Goes, Becomes
<1>3. /\ Stepped(req[q], to) \in Request
      /\ Stepped(req[q], to).step = to
      /\ to = "lost" => Stepped(req[q], to).key = req[q].key
      /\ to \notin Ended => Stepped(req[q], to) = [req[q] EXCEPT !.step = to]
  BY <1>1, SteppedTyped
<1>4. req'[q] = Stepped(req[q], to) /\ \A p \in Requests : p # q => req'[p] = req[p]
  BY <1>1, <1>2
<1>5. req' \in [Requests -> Request]
  BY <1>1, <1>2, <1>3
<1>6. to \notin Ended => /\ req'[q].key = req[q].key /\ req'[q].tool = req[q].tool
                         /\ req'[q].role = req[q].role /\ req'[q].named = req[q].named
  BY <1>1, <1>3, <1>4 DEF Request
<1> QED  BY <1>2, <1>3, <1>4, <1>5, <1>6

(* A step that starts request q.                                           *)
LEMMA Started ==
  ASSUME TypeInv, NEW q \in Requests, NEW r \in Request, Becomes(q, r)
  PROVE  /\ req' \in [Requests -> Request]
         /\ req'[q] = r
         /\ \A p \in Requests : p # q => req'[p] = req[p]
BY DEF Becomes, TypeInv, ChatTypeOK

LEMMA AskedTyped ==
  ASSUME NEW step \in ChatSteps, NEW tool \in Tools, NEW role \in Roles,
         NEW named \in BOOLEAN, NEW key \in Keys \cup {NoKey}
  PROVE  /\ Asked(step, tool, role, named, key) \in Request
         /\ Asked(step, tool, role, named, key) =
              [step |-> step, tool |-> tool, role |-> role, named |-> named, key |-> key]
BY DEF Asked, Request

(* What a message asks for: nothing, an action or a tool that runs at once.*)
LEMMA AskedPlan ==
  ASSUME TypeInv, NEW q \in Requests, Ask(q)
  PROVE  \/ Becomes(q, AtRest("rejected", NoKey))
         \/ \E tool \in Tools, role \in Roles, named \in BOOLEAN :
              /\ Allowed(tool)
              /\ \/ Becomes(q, Asked("planning", tool, role, named, NoKey))
                 \/ /\ Writes(tool) => named
                    /\ \E ms \in Milliseconds :
                         Becomes(q, Asked("executing", tool, role, named, ms))
<1>1. PICK role \in Roles, named \in BOOLEAN : \E plan \in Plans(role, named) :
       \/ Becomes(q, AtRest("rejected", NoKey))
       \/ /\ Allowed(plan.tool) /\ ~plan.atOnce
          /\ Becomes(q, Asked("planning", plan.tool, role, named, NoKey))
       \/ /\ Allowed(plan.tool) /\ plan.atOnce
          /\ \E ms \in Milliseconds :
               Becomes(q, Asked("executing", plan.tool, role, named, ms))
  BY DEF Ask
<1>2. PICK plan \in Plans(role, named) :
       \/ Becomes(q, AtRest("rejected", NoKey))
       \/ /\ Allowed(plan.tool) /\ ~plan.atOnce
          /\ Becomes(q, Asked("planning", plan.tool, role, named, NoKey))
       \/ /\ Allowed(plan.tool) /\ plan.atOnce
          /\ \E ms \in Milliseconds :
               Becomes(q, Asked("executing", plan.tool, role, named, ms))
  BY <1>1
<1>3. plan.tool \in Tools
  BY DEF Plans, PlansByName, Plan
<1>4. ~named /\ plan.atOnce => ~Writes(plan.tool)
  <2> SUFFICES ASSUME ~named, plan.atOnce PROVE ~Writes(plan.tool)
    OBVIOUS
  <2>1. PICK mentions \in Mentions, complete \in BOOLEAN :
          plan \in PlansInWords(role, mentions, complete)
    BY DEF Plans
  <2>2. plan.tool \in ReadTools
    BY <2>1 DEF PlansInWords, Plan, ToolOf, ReadTools, Tool
  <2> QED  BY <2>2, ReadersOnly
<1> QED  BY <1>2, <1>3, <1>4

(* Request q starts: it is refused, stores an action or runs a tool.        *)
StartsWell(q) ==
  /\ req' \in [Requests -> Request]
  /\ req'[q].step \in {"rejected", "planning", "executing"}
  /\ req'[q].step = "planning" => req'[q].key = NoKey
  /\ \A p \in Requests : p # q => req'[p] = req[p]

LEMMA RequestStarts ==
  ASSUME TypeInv, NEW q \in Requests, Ask(q) \/ Confirm(q)
  PROVE  StartsWell(q)
<1>1. /\ "rejected" \in ChatSteps /\ "planning" \in ChatSteps /\ "executing" \in ChatSteps
      /\ NoKey \in Keys \cup {NoKey} /\ Actions \subseteq Keys /\ Milliseconds \subseteq Keys
  BY DEF ChatSteps, Keys
<1>2. CASE Becomes(q, AtRest("rejected", NoKey))
  <2>1. AtRest("rejected", NoKey) \in Request /\ AtRest("rejected", NoKey).step = "rejected"
    BY <1>1, RestTyped
  <2> QED  BY <1>2, <2>1, Started DEF StartsWell
<1>3. ASSUME NEW step \in {"planning", "executing"}, NEW tool \in Tools, NEW role \in Roles,
             NEW named \in BOOLEAN, NEW key \in Keys \cup {NoKey},
             step = "planning" => key = NoKey,
             Becomes(q, Asked(step, tool, role, named, key))
      PROVE  StartsWell(q)
  <2> DEFINE r == Asked(step, tool, role, named, key)
  <2>0. step \in ChatSteps
    BY <1>1
  <2>1. r \in Request /\ r.step = step /\ r.key = key
    BY <2>0, AskedTyped
  <2>2. Becomes(q, r)
    BY <1>3
  <2> HIDE DEF r
  <2>3. /\ req' \in [Requests -> Request] /\ req'[q] = r
        /\ \A p \in Requests : p # q => req'[p] = req[p]
    BY <2>1, <2>2, Started
  <2> QED  BY <1>3, <2>1, <2>3 DEF StartsWell
<1>4. CASE Ask(q)
  <2>2. ASSUME NEW tool \in Tools, NEW role \in Roles, NEW named \in BOOLEAN,
               Becomes(q, Asked("planning", tool, role, named, NoKey))
        PROVE  StartsWell(q)
    BY <1>1, <1>3, <2>2
  <2>3. ASSUME NEW tool \in Tools, NEW role \in Roles, NEW named \in BOOLEAN,
               NEW ms \in Milliseconds, Becomes(q, Asked("executing", tool, role, named, ms))
        PROVE  StartsWell(q)
    <3>1. ms \in Keys \cup {NoKey}
      BY <1>1
    <3> QED  BY <1>3, <2>3, <3>1
  <2> QED  BY <1>2, <1>4, <2>2, <2>3, AskedPlan
<1>5. CASE Confirm(q)
  <2>1. PICK a \in Actions, role \in Roles :
          \/ Becomes(q, Asked("executing", action[a].tool, role, FALSE, a))
          \/ Becomes(q, AtRest("rejected", NoKey))
    BY <1>5 DEF Confirm
  <2>2. action[a].tool \in Tools /\ a \in Keys \cup {NoKey} /\ FALSE \in BOOLEAN
    BY <1>1 DEF TypeInv, ChatTypeOK, Action
  <2> QED  BY <1>2, <1>3, <2>1, <2>2
<1> QED  BY <1>4, <1>5

LEMMA Crashed ==
  ASSUME TypeInv, NEW q \in Requests, CrashChat(q)
  PROVE  /\ req' \in [Requests -> Request]
         /\ req'[q].step = "lost" /\ req'[q].key = req[q].key
         /\ \A p \in Requests : p # q => req'[p] = req[p]
<1>1. req \in [Requests -> Request] /\ req[q] \in Request /\ "lost" \in ChatSteps
  BY DEF TypeInv, ChatTypeOK, ChatSteps
<1>2. /\ Stepped(req[q], "lost") \in Request
      /\ Stepped(req[q], "lost").step = "lost"
      /\ Stepped(req[q], "lost").key = req[q].key
  BY <1>1, SteppedTyped
<1> QED  BY <1>1, <1>2 DEF CrashChat, Becomes

(* What writing the success under the key of q does.                       *)
LEMMA SuccessWritten ==
  ASSUME TypeInv, NEW q \in Requests, req[q].step = "returned", WriteSuccess(q)
  PROVE  /\ log' \in [Keys -> Outcome]
         /\ action' \in [Actions -> Action]
         /\ announced' \in [Actions -> Nat]
         /\ log[req[q].key] = "none"
         /\ log'[req[q].key] = "ok"
         /\ \A k \in Keys : k # req[q].key => log'[k] = log[k]
         /\ \A a \in Actions :
              /\ action'[a].tool = action[a].tool
              /\ action'[a].status = IF a = req[q].key THEN "EXECUTED" ELSE action[a].status
              /\ announced'[a] = IF a = req[q].key THEN announced[a] + 1 ELSE announced[a]
<1> DEFINE k == req[q].key
<1>1. k \in Keys
  BY DEF TypeInv, HoldsKey
<1>2. log \in [Keys -> Outcome] /\ action \in [Actions -> Action] /\ announced \in [Actions -> Nat]
  BY DEF TypeInv, ChatTypeOK
<1>3. log' = [log EXCEPT ![k] = "ok"] /\ log[k] = "none"
  BY DEF WriteSuccess, KeyFree
<1>4. log' \in [Keys -> Outcome]
  BY <1>1, <1>2, <1>3 DEF Outcome
<1>5. CASE k \in Actions
  <2>1. action' = [action EXCEPT ![k].status = "EXECUTED"]
        /\ announced' = [announced EXCEPT ![k] = announced[k] + 1]
    BY <1>5 DEF WriteSuccess
  <2>2. action[k] \in Action
    BY <1>2, <1>5
  <2>3. [action[k] EXCEPT !.status = "EXECUTED"] \in Action
    BY <2>2 DEF Action, ActionStatus
  <2>4. action' \in [Actions -> Action]
    BY <1>2, <2>1, <2>3
  <2>5. \A a \in Actions :
          /\ action'[a].tool = action[a].tool
          /\ action'[a].status = IF a = k THEN "EXECUTED" ELSE action[a].status
    BY <1>2, <1>5, <2>1 DEF Action
  <2> QED  BY <1>1, <1>2, <1>3, <1>4, <1>5, <2>1, <2>4, <2>5
<1>6. CASE k \notin Actions
  <2>1. UNCHANGED <<action, announced>>
    BY <1>6 DEF WriteSuccess
  <2> QED  BY <1>1, <1>2, <1>3, <1>4, <1>6, <2>1
<1> QED  BY <1>5, <1>6

-----------------------------------------------------------------------------
LEMMA AllIdle == ChatInit => \A q \in Requests : req[q].step = "idle"
<1>1. "idle" \in ChatSteps /\ NoKey \in Keys \cup {NoKey}
  BY DEF ChatSteps
<1>2. AtRest("idle", NoKey).step = "idle"
  BY <1>1, RestTyped
<1> QED  BY <1>2 DEF ChatInit

LEMMA TypeInit == ChatInit => TypeInv
<1> SUFFICES ASSUME ChatInit PROVE TypeInv
  OBVIOUS
<1>1. SomeTool \in Tools /\ "idle" \in ChatSteps /\ NoKey \in Keys \cup {NoKey}
  BY ChatPolicies DEF SomeTool, ChatSteps
<1>2. AtRest("idle", NoKey) \in Request /\ AtRest("idle", NoKey).step = "idle"
  BY <1>1, RestTyped
<1>3. \A q \in Requests : req[q] = AtRest("idle", NoKey)
  BY DEF ChatInit
<1>4. req \in [Requests -> Request] /\ HoldsKey
  BY <1>2, <1>3 DEF ChatInit, HoldsKey
<1>5. agent \in [active : BOOLEAN, allowed : SUBSET Tools]
  BY DEF ChatInit
<1>6. action \in [Actions -> Action]
  BY <1>1 DEF ChatInit, Action, ActionStatus
<1>7. /\ log \in [Keys -> Outcome] /\ announced \in [Actions -> Nat]
      /\ effects \in [Actions -> Nat] /\ clock \in Nat /\ faults \in 0..MaxFaults
  BY ChatBounds DEF ChatInit, Outcome
<1> QED
  BY <1>4, <1>5, <1>6, <1>7 DEF ChatInit, TypeInv, ChatTypeOK

LEMMA TypeStep == TypeInv /\ [ChatNext]_vars => TypeInv'
<1> SUFFICES ASSUME TypeInv, [ChatNext]_vars PROVE TypeInv'
  OBVIOUS
<1> USE ChatBounds
<1>0. /\ agent \in [active : BOOLEAN, allowed : SUBSET Tools]
      /\ open \in BOOLEAN /\ permitted \in SUBSET Tools
      /\ action \in [Actions -> Action]
      /\ log \in [Keys -> Outcome] /\ announced \in [Actions -> Nat]
      /\ req \in [Requests -> Request] /\ clock \in Nat
      /\ effects \in [Actions -> Nat] /\ faults \in 0..MaxFaults
  BY DEF TypeInv, ChatTypeOK
<1>f. Fault => faults' \in 0..MaxFaults
  BY <1>0 DEF Fault
<1>e. ASSUME NEW q \in Requests, TakesEffect(q) PROVE effects' \in [Actions -> Nat]
  BY <1>0, <1>e DEF TakesEffect
<1>1. CASE UpsertAgent \/ CreateSession
  <2>1. agent' \in [active : BOOLEAN, allowed : SUBSET Tools] /\ open' \in BOOLEAN
    <3>1. CASE UpsertAgent
      <4>1. PICK allowed \in Policies, active \in BOOLEAN :
              agent' = [active |-> active, allowed |-> allowed]
        BY <3>1 DEF UpsertAgent
      <4>2. allowed \in SUBSET Tools
        BY ChatPolicies
      <4> QED  BY <1>0, <3>1, <4>1, <4>2 DEF UpsertAgent
    <3>2. CASE CreateSession
      BY <1>0, <3>2 DEF CreateSession
    <3> QED  BY <1>1, <3>1, <3>2
  <2>2. permitted' \in SUBSET Tools
    BY <1>0, <1>1, ChatPolicies DEF UpsertAgent, CreateSession
  <2>3. UNCHANGED <<action, log, announced, req, clock, effects, faults>>
    BY <1>1 DEF UpsertAgent, CreateSession
  <2> QED  BY <1>0, <2>1, <2>2, <2>3 DEF TypeInv, ChatTypeOK, HoldsKey, agentVars
(* A step that starts a request.                                           *)
<1>s. ASSUME NEW q \in Requests, NEW r \in Request, Becomes(q, r),
             UNCHANGED <<agentVars, action, log, announced, effects, faults>>, clock' \in Nat,
             r.step = "executing" =>
               /\ r.key \in Keys
               /\ r.key \in Actions => /\ action[r.key].status # "none"
                                       /\ action[r.key].tool = r.tool,
             r.step \notin {"returned", "thrown"}
      PROVE  TypeInv'
  <2>1. /\ req' \in [Requests -> Request] /\ req'[q] = r
        /\ \A p \in Requests : p # q => req'[p] = req[p]
    BY <1>s, Started
  <2>2. HoldsKey'
    BY <1>s, <2>1 DEF TypeInv, HoldsKey
  <2> QED  BY <1>0, <1>s, <2>1, <2>2 DEF agentVars, TypeInv, ChatTypeOK
<1>r. AtRest("rejected", NoKey) \in Request /\ AtRest("rejected", NoKey).step = "rejected"
  BY RestTyped DEF ChatSteps
<1>2. ASSUME NEW q \in Requests, Ask(q) PROVE TypeInv'
  <2>1. /\ UNCHANGED <<agentVars, action, log, announced, effects, faults>>
        /\ clock' \in Nat
    BY <1>0, <1>2, ChatTime DEF Ask
  <2>2. CASE Becomes(q, AtRest("rejected", NoKey))
    BY <1>s, <1>r, <2>1, <2>2
  <2>3. ASSUME NEW tool \in Tools, NEW role \in Roles, NEW named \in BOOLEAN,
               Becomes(q, Asked("planning", tool, role, named, NoKey))
        PROVE  TypeInv'
    <3>1. "planning" \in ChatSteps /\ NoKey \in Keys \cup {NoKey}
      BY DEF ChatSteps
    <3> DEFINE r == Asked("planning", tool, role, named, NoKey)
    <3>2. r \in Request /\ r.step = "planning"
      BY <3>1, AskedTyped
    <3> HIDE DEF r
    <3> QED  BY <1>s, <2>1, <2>3, <3>2 DEF r
  <2>4. ASSUME NEW tool \in Tools, NEW role \in Roles, NEW named \in BOOLEAN,
               NEW ms \in Milliseconds,
               Becomes(q, Asked("executing", tool, role, named, ms))
        PROVE  TypeInv'
    <3>1. "executing" \in ChatSteps /\ ms \in Keys \cup {NoKey}
          /\ ms \in Keys /\ ms \notin Actions
      BY ChatKeys DEF ChatSteps, Keys
    <3> DEFINE r == Asked("executing", tool, role, named, ms)
    <3>2. r \in Request /\ r.step = "executing" /\ r.key = ms
      BY <3>1, AskedTyped
    <3> HIDE DEF r
    <3> QED  BY <1>s, <2>1, <2>4, <3>1, <3>2 DEF r
  <2> QED  BY <1>2, <2>2, <2>3, <2>4, AskedPlan
<1>3. ASSUME NEW q \in Requests, PlanAction(q) PROVE TypeInv'
  <2>1. PICK a \in Actions :
          /\ action[a].status = "none"
          /\ action' = [action EXCEPT ![a] = [status |-> "PENDING_CONFIRMATION",
                                              tool   |-> req[q].tool]]
    BY <1>3 DEF PlanAction
  <2>2. [status |-> "PENDING_CONFIRMATION", tool |-> req[q].tool] \in Action
    BY <1>0 DEF Action, ActionStatus, Request
  <2>3. action' \in [Actions -> Action] /\ \A b \in Actions : b # a => action'[b] = action[b]
    BY <1>0, <2>1, <2>2
  <2>4. /\ req' \in [Requests -> Request] /\ req'[q].step = "done"
        /\ \A p \in Requests : p # q => req'[p] = req[p]
    BY <1>3, Moved DEF PlanAction, ChatSteps
  <2>5. HoldsKey'
    BY <1>0, <2>1, <2>3, <2>4 DEF TypeInv, HoldsKey
  <2> QED  BY <1>0, <1>3, <2>3, <2>4, <2>5 DEF PlanAction, TypeInv, ChatTypeOK, agentVars
<1>4. ASSUME NEW q \in Requests, Confirm(q) PROVE TypeInv'
  <2>1. PICK a \in Actions, role \in Roles :
          /\ action[a].status # "none"
          /\ \/ Becomes(q, Asked("executing", action[a].tool, role, FALSE, a))
             \/ Becomes(q, AtRest("rejected", NoKey))
    BY <1>4 DEF Confirm
  <2>2. /\ UNCHANGED <<agentVars, action, log, announced, effects, faults>>
        /\ clock' \in Nat
    BY <1>0, <1>4 DEF Confirm
  <2>3. CASE Becomes(q, AtRest("rejected", NoKey))
    BY <1>s, <1>r, <2>2, <2>3
  <2>4. CASE Becomes(q, Asked("executing", action[a].tool, role, FALSE, a))
    <3>1. /\ "executing" \in ChatSteps /\ a \in Keys /\ a \in Keys \cup {NoKey}
          /\ action[a].tool \in Tools /\ FALSE \in BOOLEAN
      BY <1>0 DEF ChatSteps, Keys, Action
    <3>2. ASSUME NEW tool \in Tools, NEW named \in BOOLEAN
          PROVE  /\ Asked("executing", tool, role, named, a) \in Request
                 /\ Asked("executing", tool, role, named, a).step = "executing"
                 /\ Asked("executing", tool, role, named, a).key = a
                 /\ Asked("executing", tool, role, named, a).tool = tool
      BY <3>1, AskedTyped
    <3> DEFINE r == Asked("executing", action[a].tool, role, FALSE, a)
    <3>3. r \in Request /\ r.step = "executing" /\ r.key = a /\ r.tool = action[a].tool
      BY <3>1, <3>2
    <3>4. Becomes(q, r)
      BY <2>4
    <3> HIDE DEF r
    <3> QED  BY <1>s, <2>1, <2>2, <3>1, <3>3, <3>4
  <2> QED  BY <2>1, <2>3, <2>4
<1>5. ASSUME NEW q \in Requests, ToolReturns(q) \/ ToolThrows(q) PROVE TypeInv'
  <2>1. PICK to \in {"returned", "thrown"} : Goes(q, "executing", to)
    BY <1>5 DEF ToolReturns, ToolThrows
  <2>2. /\ req' \in [Requests -> Request] /\ req[q].step = "executing"
        /\ \A p \in Requests : /\ req'[p].key = req[p].key
                               /\ req'[p].tool = req[p].tool
                               /\ p # q => req'[p] = req[p]
    BY <2>1, Moved DEF ChatSteps, Ended
  <2>3. effects' \in [Actions -> Nat] /\ faults' \in 0..MaxFaults
    BY <1>0, <1>5, <1>e, <1>f DEF ToolReturns, ToolThrows
  <2>4. UNCHANGED <<agentVars, action, log, announced, clock>>
    BY <1>5 DEF ToolReturns, ToolThrows
  <2> QED  BY <1>0, <2>2, <2>3, <2>4 DEF TypeInv, ChatTypeOK, HoldsKey, agentVars
<1>6. ASSUME NEW q \in Requests, LogSuccess(q) \/ LogSuccessThrows(q) PROVE TypeInv'
  <2>1. PICK to \in {"done", "thrown"} : Goes(q, "returned", to)
    BY <1>6 DEF LogSuccess, LogSuccessThrows
  <2>2. /\ req' \in [Requests -> Request] /\ req[q].step = "returned" /\ req'[q].step = to
        /\ to = "thrown" => req'[q].key = req[q].key /\ req'[q].tool = req[q].tool
        /\ \A p \in Requests : p # q => req'[p] = req[p]
    BY <2>1, Moved DEF ChatSteps, Ended
  <2>3. faults' \in 0..MaxFaults /\ UNCHANGED <<agentVars, clock, effects>>
    BY <1>0, <1>6, <1>f DEF LogSuccess, LogSuccessThrows
  <2>4. CASE UNCHANGED <<log, action, announced>>
    BY <1>0, <2>2, <2>3, <2>4 DEF TypeInv, ChatTypeOK, HoldsKey, agentVars
  <2>5. CASE WriteSuccess(q)
    <3>1. /\ log' \in [Keys -> Outcome] /\ action' \in [Actions -> Action]
          /\ announced' \in [Actions -> Nat]
          /\ \A a \in Actions : /\ action'[a].tool = action[a].tool
                                /\ action[a].status # "none" => action'[a].status # "none"
      BY <2>2, <2>5, SuccessWritten
    <3> QED  BY <1>0, <2>2, <2>3, <3>1 DEF TypeInv, ChatTypeOK, HoldsKey, agentVars
  <2> QED  BY <1>6, <2>4, <2>5 DEF LogSuccess, LogSuccessThrows
<1>7. ASSUME NEW q \in Requests, LogError(q) PROVE TypeInv'
  <2>1. /\ req' \in [Requests -> Request] /\ req'[q].step = "failed"
        /\ \A p \in Requests : p # q => req'[p] = req[p]
    BY <1>7, Moved DEF LogError, ChatSteps
  <2>2. log' \in [Keys -> Outcome]
    BY <1>0, <1>7 DEF LogError, Outcome
  <2> QED  BY <1>0, <1>7, <2>1, <2>2 DEF LogError, TypeInv, ChatTypeOK, HoldsKey, agentVars
<1>8. ASSUME NEW q \in Requests, CrashChat(q) PROVE TypeInv'
  <2>1. /\ req' \in [Requests -> Request] /\ req'[q].step = "lost"
        /\ \A p \in Requests : p # q => req'[p] = req[p]
    BY <1>8, Crashed
  <2> QED  BY <1>0, <1>8, <1>f, <2>1 DEF CrashChat, agentVars, TypeInv, ChatTypeOK, HoldsKey
<1>9. CASE UNCHANGED vars
  BY <1>0, <1>9 DEF vars, TypeInv, ChatTypeOK, HoldsKey, agentVars
<1> QED
  BY <1>1, <1>2, <1>3, <1>4, <1>5, <1>6, <1>7, <1>8, <1>9 DEF ChatNext, ChatStep

(* Every variable keeps its type, and a request that runs a tool holds the *)
(* key its outcome is logged under.                                        *)
THEOREM TypeCorrect == ChatSpec => [](ChatTypeOK /\ HoldsKey)
<1>1. ChatSpec => []TypeInv
  BY TypeInit, TypeStep, PTL DEF ChatSpec
<1> QED  BY <1>1, PTL DEF TypeInv
-----------------------------------------------------------------------------
(* What ExecutedIsLogged rests on: a writing tool that returned for an     *)
(* action took effect.                                                     *)
ReturnedTookEffect ==
  \A q \in Requests :
    req[q].step = "returned" /\ Writes(req[q].tool) /\ req[q].key \in Actions =>
      effects[req[q].key] > 0

LoggedInv == TypeInv /\ ExecutedIsLogged /\ ReturnedTookEffect

LEMMA EffectsGrow ==
  ASSUME TypeInv, NEW q \in Requests, TakesEffect(q)
  PROVE  /\ \A a \in Actions : effects'[a] >= effects[a]
         /\ \A a \in Actions : a # req[q].key => effects'[a] = effects[a]
         /\ Writes(req[q].tool) /\ req[q].key \in Actions => effects'[req[q].key] > 0
<1>1. effects \in [Actions -> Nat]
  BY DEF TypeInv, ChatTypeOK
<1> QED  BY <1>1 DEF TakesEffect

LEMMA LoggedInit == ChatInit => LoggedInv
<1> SUFFICES ASSUME ChatInit PROVE LoggedInv
  OBVIOUS
<1>1. TypeInv /\ \A q \in Requests : req[q].step = "idle"
  BY TypeInit, AllIdle
<1> QED  BY <1>1 DEF ChatInit, LoggedInv, ExecutedIsLogged, ReturnedTookEffect, Keys

LEMMA LoggedStep == LoggedInv /\ [ChatNext]_vars => LoggedInv'
<1> SUFFICES ASSUME LoggedInv, [ChatNext]_vars PROVE LoggedInv'
  OBVIOUS
<1>0. TypeInv /\ TypeInv' /\ ExecutedIsLogged /\ ReturnedTookEffect
  BY TypeStep DEF LoggedInv
<1>t. /\ action \in [Actions -> Action] /\ effects \in [Actions -> Nat]
      /\ req \in [Requests -> Request] /\ \A a \in Actions : a \in Keys
  BY <1>0 DEF TypeInv, ChatTypeOK, Keys
(* A step that starts a request leaves it before its tool has returned.    *)
<1>s. ASSUME NEW q \in Requests, Ask(q) \/ Confirm(q) PROVE LoggedInv'
  <2>1. StartsWell(q)
    BY <1>0, <1>s, RequestStarts
  <2>2. /\ req'[q].step \in {"rejected", "planning", "executing"}
        /\ \A p \in Requests : p # q => req'[p] = req[p]
    BY <2>1 DEF StartsWell
  <2>3. UNCHANGED <<action, log, announced, effects>>
    BY <1>s DEF Ask, Confirm
  <2>4. ReturnedTookEffect'
    BY <1>0, <2>1, <2>2, <2>3 DEF ReturnedTookEffect
  <2> QED  BY <1>0, <2>3, <2>4 DEF LoggedInv, ExecutedIsLogged
<1>1. CASE UpsertAgent \/ CreateSession \/ UNCHANGED vars
  BY <1>0, <1>1 DEF UpsertAgent, CreateSession, vars, LoggedInv, ExecutedIsLogged,
     ReturnedTookEffect
<1>3. ASSUME NEW q \in Requests, PlanAction(q) PROVE LoggedInv'
  <2>1. PICK a \in Actions :
          /\ action[a].status = "none"
          /\ action' = [action EXCEPT ![a] = [status |-> "PENDING_CONFIRMATION",
                                              tool   |-> req[q].tool]]
    BY <1>3 DEF PlanAction
  <2>2. UNCHANGED <<log, announced, effects>>
    BY <1>3 DEF PlanAction
  <2>3. /\ action'[a].status = "PENDING_CONFIRMATION"
        /\ \A b \in Actions : b # a => action'[b] = action[b]
    BY <1>t, <2>1
  <2>4. ExecutedIsLogged'
    BY <1>0, <2>1, <2>2, <2>3 DEF ExecutedIsLogged
  <2>5. req'[q].step = "done" /\ \A p \in Requests : p # q => req'[p] = req[p]
    BY <1>0, <1>3, Moved DEF PlanAction, ChatSteps
  <2>6. ReturnedTookEffect'
    BY <1>0, <2>2, <2>5 DEF ReturnedTookEffect
  <2> QED  BY <1>0, <2>4, <2>6 DEF LoggedInv
<1>5. ASSUME NEW q \in Requests, ToolReturns(q) \/ ToolThrows(q) PROVE LoggedInv'
  <2>1. PICK to \in {"returned", "thrown"} : Goes(q, "executing", to)
    BY <1>5 DEF ToolReturns, ToolThrows
  <2>2. /\ req'[q].step = to
        /\ \A p \in Requests : /\ req'[p].key = req[p].key
                               /\ req'[p].tool = req[p].tool
                               /\ p # q => req'[p] = req[p]
    BY <1>0, <2>1, Moved DEF ChatSteps, Ended
  <2>3. UNCHANGED <<action, log, announced>>
    BY <1>5 DEF ToolReturns, ToolThrows
  <2>4. UNCHANGED effects \/ TakesEffect(q)
    BY <1>5 DEF ToolReturns, ToolThrows
  <2>5. \A a \in Actions : effects'[a] >= effects[a] /\ effects'[a] \in Nat /\ effects[a] \in Nat
    BY <1>0, <1>t, <2>4, EffectsGrow DEF TypeInv, ChatTypeOK
  <2>6. ExecutedIsLogged'
    BY <1>0, <2>3, <2>5 DEF ExecutedIsLogged
  <2>7. to = "returned" => TakesEffect(q)
    <3>1. ToolThrows(q) => req'[q].step = "thrown"
      BY <1>0, Moved DEF ToolThrows, ChatSteps
    <3> QED  BY <1>5, <2>2, <3>1 DEF ToolReturns
  <2>8. to = "returned" /\ Writes(req[q].tool) /\ req[q].key \in Actions =>
          effects'[req[q].key] > 0
    BY <1>0, <2>7, EffectsGrow
  <2>9. ReturnedTookEffect'
    BY <1>0, <2>2, <2>5, <2>8 DEF ReturnedTookEffect
  <2> QED  BY <1>0, <2>6, <2>9 DEF LoggedInv
<1>6. ASSUME NEW q \in Requests, LogSuccess(q) \/ LogSuccessThrows(q) PROVE LoggedInv'
  <2>1. PICK to \in {"done", "thrown"} : Goes(q, "returned", to)
    BY <1>6 DEF LogSuccess, LogSuccessThrows
  <2>2. /\ req[q].step = "returned" /\ req'[q].step = to
        /\ \A p \in Requests : p # q => req'[p] = req[p]
    BY <1>0, <2>1, Moved DEF ChatSteps
  <2>3. UNCHANGED effects
    BY <1>6 DEF LogSuccess, LogSuccessThrows
  <2>4. ReturnedTookEffect'
    BY <1>0, <2>2, <2>3 DEF ReturnedTookEffect
  <2>5. CASE UNCHANGED <<log, action, announced>>
    BY <1>0, <2>3, <2>4, <2>5 DEF LoggedInv, ExecutedIsLogged
  <2>6. CASE WriteSuccess(q)
    <3> DEFINE k == req[q].key
    <3>1. /\ log[k] = "none" /\ log'[k] = "ok"
          /\ \A a \in Keys : a # k => log'[a] = log[a]
          /\ \A a \in Actions :
               /\ action'[a].tool = action[a].tool
               /\ action'[a].status = IF a = k THEN "EXECUTED" ELSE action[a].status
               /\ announced'[a] = IF a = k THEN announced[a] + 1 ELSE announced[a]
      BY <1>0, <2>2, <2>6, SuccessWritten
    <3>2. k \in Actions => action[k].tool = req[q].tool
      BY <1>0, <2>2 DEF TypeInv, HoldsKey
    <3>3. k \in Actions /\ Writes(action[k].tool) => effects[k] > 0
      BY <1>0, <2>2, <3>2 DEF ReturnedTookEffect
    <3>4. ASSUME NEW a \in Actions
          PROVE  /\ action'[a].status = "EXECUTED" <=> log'[a] = "ok"
                 /\ announced'[a] = IF log'[a] = "ok" THEN 1 ELSE 0
                 /\ log'[a] = "ok" /\ Writes(action'[a].tool) => effects'[a] > 0
      <4>1. CASE a = k
        <5>1. announced[a] = 0
          BY <1>0, <3>1, <4>1 DEF ExecutedIsLogged
        <5> QED  BY <2>3, <3>1, <3>3, <4>1, <5>1
      <4>2. CASE a # k
        <5>1. /\ log'[a] = log[a] /\ announced'[a] = announced[a]
              /\ action'[a].status = action[a].status /\ action'[a].tool = action[a].tool
          BY <1>t, <3>1, <4>2
        <5> QED  BY <1>0, <2>3, <5>1 DEF ExecutedIsLogged
      <4> QED  BY <4>1, <4>2
    <3>5. ExecutedIsLogged'
      BY <3>4 DEF ExecutedIsLogged
    <3> QED  BY <1>0, <2>4, <3>5 DEF LoggedInv
  <2> QED  BY <1>6, <2>5, <2>6 DEF LogSuccess, LogSuccessThrows
<1>7. ASSUME NEW q \in Requests, LogError(q) PROVE LoggedInv'
  <2>1. req'[q].step = "failed" /\ \A p \in Requests : p # q => req'[p] = req[p]
    BY <1>0, <1>7, Moved DEF LogError, ChatSteps
  <2>2. UNCHANGED <<action, announced, effects>>
    BY <1>7 DEF LogError
  <2>3. \A a \in Actions : log'[a] = "ok" <=> log[a] = "ok"
    BY <1>0, <1>t, <1>7 DEF LogError, KeyFree, TypeInv, ChatTypeOK
  <2>4. ExecutedIsLogged'
    BY <1>0, <2>2, <2>3 DEF ExecutedIsLogged
  <2>5. ReturnedTookEffect'
    BY <1>0, <2>1, <2>2 DEF ReturnedTookEffect
  <2> QED  BY <1>0, <2>4, <2>5 DEF LoggedInv
<1>8. ASSUME NEW q \in Requests, CrashChat(q) PROVE LoggedInv'
  <2>1. req'[q].step = "lost" /\ \A p \in Requests : p # q => req'[p] = req[p]
    BY <1>0, <1>8, Crashed
  <2>2. UNCHANGED <<action, log, announced, effects>>
    BY <1>8 DEF CrashChat
  <2> QED  BY <1>0, <2>1, <2>2 DEF LoggedInv, ExecutedIsLogged, ReturnedTookEffect
<1> QED
  BY <1>1, <1>s, <1>3, <1>5, <1>6, <1>7, <1>8 DEF ChatNext, ChatStep

(* Status, log and announcement of a confirmed action agree, however many  *)
(* confirmations overlap and whatever fails.                               *)
THEOREM ExecutionIsLogged == ChatSpec => []ExecutedIsLogged
<1>1. ChatSpec => []LoggedInv
  BY LoggedInit, LoggedStep, PTL DEF ChatSpec
<1> QED  BY <1>1, PTL DEF LoggedInv

-----------------------------------------------------------------------------
(* What EffectsTraced rests on: a request that stores an action does not   *)
(* work on one.                                                            *)
PlannersHoldNoKey ==
  \A q \in Requests : req[q].step = "planning" => req[q].key = NoKey

TracedInv == TypeInv /\ EffectsTraced /\ PlannersHoldNoKey

(* Request q is in flight for action a, or died on it.                     *)
Holds(q, a) == req[q].key = a /\ (q \in InFlight \/ req[q].step = "lost")

LEMMA TracedInit == ChatInit => TracedInv
<1> SUFFICES ASSUME ChatInit PROVE TracedInv
  OBVIOUS
<1>1. TypeInv /\ \A q \in Requests : req[q].step = "idle"
  BY TypeInit, AllIdle
<1> QED  BY <1>1 DEF ChatInit, TracedInv, EffectsTraced, PlannersHoldNoKey

LEMMA TracedStep == TracedInv /\ [ChatNext]_vars => TracedInv'
<1> SUFFICES ASSUME TracedInv, [ChatNext]_vars PROVE TracedInv'
  OBVIOUS
<1>0. TypeInv /\ TypeInv' /\ EffectsTraced /\ PlannersHoldNoKey
  BY TypeStep DEF TracedInv
<1>t. /\ log \in [Keys -> Outcome] /\ effects \in [Actions -> Nat]
      /\ req \in [Requests -> Request] /\ Actions \subseteq Keys /\ NoKey \notin Actions
  BY <1>0, ChatKeys DEF TypeInv, ChatTypeOK, Keys
<1>d. \A a \in Actions : effects[a] > 0 => log[a] # "none" \/ \E p \in Requests : Holds(p, a)
  BY <1>0 DEF EffectsTraced, WorksOn, Holds
(* Enough to show of a step of request q that changes only its record.     *)
<1>q. ASSUME NEW q \in Requests,
             \A p \in Requests : p # q => req'[p] = req[p],
             \A a \in Actions : log[a] # "none" => log'[a] # "none",
             \A a \in Actions : a # req[q].key => effects'[a] = effects[a],
             \A a \in Actions : Holds(q, a) => Holds(q, a)' \/ log'[a] # "none",
             \A a \in Actions : effects'[a] > effects[a] => Holds(q, a)',
             \A a \in Actions : effects'[a] >= effects[a],
             req'[q].step = "planning" => req'[q].key = NoKey
      PROVE  TracedInv'
  <2>1. ASSUME NEW a \in Actions, effects'[a] > 0
        PROVE  log'[a] # "none" \/ \E p \in Requests : Holds(p, a)'
    <3>0. effects[a] \in Nat /\ effects'[a] \in Nat
      BY <1>0, <1>t DEF TypeInv, ChatTypeOK
    <3>1. CASE effects'[a] > effects[a]
      BY <1>q, <3>1
    <3>2. CASE effects[a] > 0
      <4>1. CASE log[a] # "none"
        BY <1>q, <4>1
      <4>2. ASSUME NEW p \in Requests, Holds(p, a)
            PROVE  log'[a] # "none" \/ \E r \in Requests : Holds(r, a)'
        <5>1. CASE p = q
          BY <1>q, <4>2, <5>1
        <5>2. CASE p # q
          <6>1. Holds(p, a)'
            BY <1>q, <4>2, <5>2 DEF Holds, InFlight
          <6> QED  BY <6>1
        <5> QED  BY <5>1, <5>2
      <4> QED  BY <1>d, <3>2, <4>1, <4>2
    <3> QED  BY <1>q, <2>1, <3>0, <3>1, <3>2
  <2>2. EffectsTraced'
    BY <2>1 DEF EffectsTraced, WorksOn, Holds
  <2>3. PlannersHoldNoKey'
    BY <1>0, <1>q DEF PlannersHoldNoKey
  <2> QED  BY <1>0, <2>2, <2>3 DEF TracedInv
<1>s. ASSUME NEW q \in Requests, Ask(q) \/ Confirm(q) PROVE TracedInv'
  <2>1. StartsWell(q)
    BY <1>0, <1>s, RequestStarts
  <2>2. /\ req'[q].step = "planning" => req'[q].key = NoKey
        /\ \A p \in Requests : p # q => req'[p] = req[p]
    BY <2>1 DEF StartsWell
  <2>3. UNCHANGED <<log, effects>> /\ Arrives(q)
    BY <1>s DEF Ask, Confirm
  <2>4. \A a \in Actions : ~Holds(q, a)
    BY <2>3 DEF Arrives, Holds, InFlight
  <2>5. \A a \in Actions : effects'[a] = effects[a] /\ effects[a] \in Nat
    BY <2>3, <1>t
  <2> QED  BY <1>q, <2>1, <2>2, <2>3, <2>4, <2>5
<1>1. CASE UpsertAgent \/ CreateSession \/ UNCHANGED vars
  BY <1>0, <1>1 DEF UpsertAgent, CreateSession, vars, TracedInv, EffectsTraced, WorksOn,
     InFlight, PlannersHoldNoKey
<1>3. ASSUME NEW q \in Requests, PlanAction(q) PROVE TracedInv'
  <2>1. /\ req[q].step = "planning" /\ req'[q].step = "done"
        /\ \A p \in Requests : p # q => req'[p] = req[p]
    BY <1>0, <1>3, Moved DEF PlanAction, ChatSteps
  <2>2. UNCHANGED <<log, effects>>
    BY <1>3 DEF PlanAction
  <2>3. \A a \in Actions : ~Holds(q, a)
    BY <1>0, <1>t, <2>1 DEF PlannersHoldNoKey, Holds
  <2>4. \A a \in Actions : effects'[a] = effects[a] /\ effects[a] \in Nat
    BY <1>t, <2>2
  <2> QED  BY <1>q, <2>1, <2>2, <2>3, <2>4
<1>5. ASSUME NEW q \in Requests, ToolReturns(q) \/ ToolThrows(q) PROVE TracedInv'
  <2>1. PICK to \in {"returned", "thrown"} : Goes(q, "executing", to)
    BY <1>5 DEF ToolReturns, ToolThrows
  <2>2. /\ req'[q].step = to /\ req'[q].key = req[q].key
        /\ \A p \in Requests : p # q => req'[p] = req[p]
    BY <1>0, <2>1, Moved DEF ChatSteps, Ended
  <2>3. UNCHANGED log /\ (UNCHANGED effects \/ TakesEffect(q))
    BY <1>5 DEF ToolReturns, ToolThrows
  <2>4. /\ \A a \in Actions : effects'[a] >= effects[a]
        /\ \A a \in Actions : a # req[q].key => effects'[a] = effects[a]
    BY <1>0, <1>t, <2>3, EffectsGrow
  <2>5. q \in InFlight'
    BY <2>2 DEF InFlight, Ended
  <2>6. \A a \in Actions : req[q].key = a => Holds(q, a)'
    BY <2>2, <2>5 DEF Holds
  <2>7. \A a \in Actions : effects[a] \in Nat /\ (effects'[a] > effects[a] => a = req[q].key)
    BY <1>t, <2>4
  <2>8. \A a \in Actions : Holds(q, a) => Holds(q, a)'
    BY <2>6 DEF Holds
  <2>9. req'[q].step # "planning"
    BY <2>2
  <2> QED  BY <1>q, <2>2, <2>3, <2>4, <2>6, <2>7, <2>8, <2>9
<1>6. ASSUME NEW q \in Requests, LogSuccess(q) \/ LogSuccessThrows(q) PROVE TracedInv'
  <2>1. PICK to \in {"done", "thrown"} : Goes(q, "returned", to)
    BY <1>6 DEF LogSuccess, LogSuccessThrows
  <2>2. /\ req[q].step = "returned" /\ req'[q].step = to
        /\ to = "thrown" => req'[q].key = req[q].key
        /\ \A p \in Requests : p # q => req'[p] = req[p]
    BY <1>0, <2>1, Moved DEF ChatSteps, Ended
  <2>3. \A a \in Actions : effects'[a] = effects[a] /\ effects[a] \in Nat
    BY <1>6, <1>t DEF LogSuccess, LogSuccessThrows
  <2>4. \A a \in Actions : log[a] # "none" => log'[a] # "none"
    <3>1. CASE UNCHANGED log
      BY <3>1
    <3>2. CASE WriteSuccess(q)
      BY <1>0, <1>t, <2>2, <3>2, SuccessWritten
    <3> QED  BY <1>6, <3>1, <3>2 DEF LogSuccess, LogSuccessThrows
  <2>5. CASE to = "thrown"
    <3>1. \A a \in Actions : Holds(q, a) => Holds(q, a)'
      BY <2>2, <2>5 DEF Holds, InFlight, Ended
    <3> QED  BY <1>q, <2>2, <2>3, <2>4, <2>5, <3>1
  <2>6. CASE to = "done"
    <3>0. LogSuccessThrows(q) => req'[q].step = "thrown"
      BY <1>0, Moved DEF LogSuccessThrows, ChatSteps
    <3>1. WriteSuccess(q)
      BY <1>6, <2>2, <2>6, <3>0 DEF LogSuccess
    <3>2. log'[req[q].key] = "ok"
      BY <1>0, <2>2, <3>1, SuccessWritten
    <3>3. \A a \in Actions : Holds(q, a) => log'[a] # "none"
      BY <3>2 DEF Holds
    <3> QED  BY <1>q, <2>2, <2>3, <2>4, <2>6, <3>3
  <2> QED  BY <2>5, <2>6
<1>7. ASSUME NEW q \in Requests, LogError(q) PROVE TracedInv'
  <2>1. /\ req[q].step = "thrown" /\ req'[q].step = "failed"
        /\ \A p \in Requests : p # q => req'[p] = req[p]
    BY <1>0, <1>7, Moved DEF LogError, ChatSteps
  <2>2. \A a \in Actions : effects'[a] = effects[a] /\ effects[a] \in Nat
    BY <1>7, <1>t DEF LogError
  <2>3. req[q].key \in Keys
    BY <1>0, <2>1 DEF TypeInv, HoldsKey
  <2>4. /\ log'[req[q].key] # "none"
        /\ \A a \in Actions : log[a] # "none" => log'[a] # "none"
    BY <1>7, <1>t, <2>3 DEF LogError, KeyFree
  <2>5. \A a \in Actions : Holds(q, a) => log'[a] # "none"
    BY <2>4 DEF Holds
  <2> QED  BY <1>q, <2>1, <2>2, <2>4, <2>5
<1>8. ASSUME NEW q \in Requests, CrashChat(q) PROVE TracedInv'
  <2>1. /\ req'[q].step = "lost" /\ req'[q].key = req[q].key
        /\ \A p \in Requests : p # q => req'[p] = req[p]
    BY <1>0, <1>8, Crashed
  <2>2. UNCHANGED log /\ \A a \in Actions : effects'[a] = effects[a] /\ effects[a] \in Nat
    BY <1>8, <1>t DEF CrashChat
  <2>3. \A a \in Actions : Holds(q, a) => Holds(q, a)'
    BY <2>1 DEF Holds
  <2> QED  BY <1>q, <2>1, <2>2, <2>3
<1> QED
  BY <1>1, <1>s, <1>3, <1>5, <1>6, <1>7, <1>8 DEF ChatNext, ChatStep

(* A tool that took effect for an action leaves a log row once nobody      *)
(* works on the action, unless the server died on it.                      *)
THEOREM EffectsAreTraced == ChatSpec => []EffectsTraced
<1>1. ChatSpec => []TracedInv
  BY TracedInit, TracedStep, PTL DEF ChatSpec
<1> QED  BY <1>1, PTL DEF TracedInv

-----------------------------------------------------------------------------
(* What ToolsWereSanctioned rests on: what the agent may use it was once   *)
(* permitted to use, a request has had its tool sanctioned since it was    *)
(* planned, and an action was planned for a tool that was permitted.       *)
Sanctioned(q) ==
  /\ req[q].step \in {"planning", "executing", "returned"} => req[q].tool \in permitted
  /\ req[q].step \in {"executing", "returned"} /\ Writes(req[q].tool) =>
       req[q].named \/ req[q].key \in Actions
  /\ req[q].step = "returned" => MayRun(req[q].role, req[q].tool)

SanctionedInv ==
  /\ TypeInv
  /\ ~open => permitted = {}
  /\ open => agent.allowed \subseteq permitted
  /\ \A a \in Actions : action[a].status # "none" => action[a].tool \in permitted
  /\ \A q \in Requests : Sanctioned(q)

(* Who may run a change to an entity is one of its writers.                *)
LEMMA WritersRun ==
  ASSUME NEW role, NEW tool, MayRun(role, tool),
         tool.op \in Changes, tool.entity \in DOMAIN Entities
  PROVE  role \in Entities[tool.entity].writeRoles
<1>1. tool \notin ReadTools
  BY DEF ReadTools, Changes, Tool
<1>2. "templates" \notin DOMAIN Entities /\ "messaging" \notin DOMAIN Entities
  BY DEF Entities
<1>3. tool \notin WriteTools
  BY <1>2 DEF WriteTools, Tool
<1> QED  BY <1>1, <1>3 DEF MayRun

LEMMA SanctionedInit == ChatInit => SanctionedInv
<1> SUFFICES ASSUME ChatInit PROVE SanctionedInv
  OBVIOUS
<1>1. TypeInv /\ \A q \in Requests : req[q].step = "idle"
  BY TypeInit, AllIdle
<1>2. \A q \in Requests : Sanctioned(q)
  BY <1>1 DEF Sanctioned
<1>3. \A a \in Actions : action[a].status = "none"
  BY DEF ChatInit
<1> QED  BY <1>1, <1>2, <1>3 DEF ChatInit, SanctionedInv

(* A request that starts has had its tool sanctioned.                      *)
LEMMA StartsSanctioned ==
  ASSUME SanctionedInv, NEW q \in Requests, Ask(q) \/ Confirm(q), UNCHANGED permitted
  PROVE  Sanctioned(q)'
<1>0. TypeInv /\ open /\ agent.allowed \subseteq permitted
  BY DEF SanctionedInv, Ask, Confirm, Arrives
<1>1. /\ "rejected" \in ChatSteps /\ "planning" \in ChatSteps /\ "executing" \in ChatSteps
      /\ NoKey \in Keys \cup {NoKey} /\ Actions \subseteq Keys /\ Milliseconds \subseteq Keys
  BY DEF ChatSteps, Keys
<1>2. CASE Becomes(q, AtRest("rejected", NoKey))
  <2>1. req'[q].step = "rejected"
    BY <1>0, <1>1, <1>2, RestTyped, Started
  <2> QED  BY <2>1 DEF Sanctioned
<1>3. ASSUME NEW step \in {"planning", "executing"}, NEW tool \in permitted, tool \in Tools,
             NEW role \in Roles, NEW named \in BOOLEAN, NEW key \in Keys \cup {NoKey},
             step = "executing" /\ Writes(tool) => named \/ key \in Actions,
             Becomes(q, Asked(step, tool, role, named, key))
      PROVE  Sanctioned(q)'
  <2> DEFINE r == Asked(step, tool, role, named, key)
  <2>1. step \in ChatSteps
    BY <1>1
  <2>2. /\ r \in Request /\ r.step = step /\ r.tool = tool
        /\ r.named = named /\ r.key = key
    BY <1>3, <2>1, AskedTyped
  <2>3. Becomes(q, r)
    BY <1>3
  <2> HIDE DEF r
  <2>4. req'[q] = r
    BY <1>0, <2>2, <2>3, Started
  <2> QED  BY <1>3, <2>2, <2>4 DEF Sanctioned
<1>4. CASE Ask(q)
  <2>1. ASSUME NEW tool \in Tools, NEW role \in Roles, NEW named \in BOOLEAN, Allowed(tool),
               Becomes(q, Asked("planning", tool, role, named, NoKey))
        PROVE  Sanctioned(q)'
    <3>1. tool \in permitted
      BY <1>0, <2>1 DEF Allowed
    <3> QED  BY <1>1, <1>3, <2>1, <3>1
  <2>2. ASSUME NEW tool \in Tools, NEW role \in Roles, NEW named \in BOOLEAN, Allowed(tool),
               Writes(tool) => named, NEW ms \in Milliseconds,
               Becomes(q, Asked("executing", tool, role, named, ms))
        PROVE  Sanctioned(q)'
    <3>1. tool \in permitted /\ ms \in Keys \cup {NoKey}
      BY <1>0, <1>1, <2>2 DEF Allowed
    <3> QED  BY <1>3, <2>2, <3>1
  <2> QED  BY <1>0, <1>2, <1>4, <2>1, <2>2, AskedPlan
<1>5. CASE Confirm(q)
  <2>1. PICK a \in Actions, role \in Roles :
          /\ action[a].status # "none"
          /\ \/ Becomes(q, Asked("executing", action[a].tool, role, FALSE, a))
             \/ Becomes(q, AtRest("rejected", NoKey))
    BY <1>5 DEF Confirm
  <2>2. /\ action[a].tool \in Tools /\ action[a].tool \in permitted
        /\ a \in Keys \cup {NoKey} /\ FALSE \in BOOLEAN
    BY <1>1, <2>1 DEF SanctionedInv, TypeInv, ChatTypeOK, Action
  <2> QED  BY <1>2, <1>3, <2>1, <2>2
<1> QED  BY <1>4, <1>5

LEMMA SanctionedStep == SanctionedInv /\ [ChatNext]_vars => SanctionedInv'
<1> SUFFICES ASSUME SanctionedInv, [ChatNext]_vars PROVE SanctionedInv'
  OBVIOUS
<1>0. /\ TypeInv /\ TypeInv'
      /\ \A a \in Actions : action[a].status # "none" => action[a].tool \in permitted
      /\ \A q \in Requests : Sanctioned(q)
  BY TypeStep DEF SanctionedInv
(* A step of request q that leaves the agent, and the actions' tools, as   *)
(* they are.                                                               *)
<1>q. ASSUME NEW q \in Requests,
             UNCHANGED agentVars,
             \A p \in Requests : p # q => req'[p] = req[p],
             \A a \in Actions : action'[a].status # "none" => action'[a].tool \in permitted,
             Sanctioned(q)'
      PROVE  SanctionedInv'
  <2>1. \A p \in Requests : Sanctioned(p)'
    BY <1>0, <1>q DEF Sanctioned, agentVars
  <2> QED  BY <1>0, <1>q, <2>1 DEF SanctionedInv, agentVars
<1>s. ASSUME NEW q \in Requests, Ask(q) \/ Confirm(q) PROVE SanctionedInv'
  <2>1. UNCHANGED agentVars /\ UNCHANGED action
    BY <1>s DEF Ask, Confirm
  <2>2. StartsWell(q)
    BY <1>0, <1>s, RequestStarts
  <2>3. Sanctioned(q)'
    BY <1>s, <2>1, StartsSanctioned DEF agentVars
  <2> QED  BY <1>0, <1>q, <2>1, <2>2, <2>3 DEF StartsWell
<1>1. CASE UpsertAgent \/ CreateSession
  <2>1. UNCHANGED <<action, req>>
    BY <1>1 DEF UpsertAgent, CreateSession
  <2>2. permitted \subseteq permitted' /\ (~open' => permitted' = {})
    BY <1>1 DEF UpsertAgent, CreateSession, SanctionedInv
  <2>3. open' => agent'.allowed \subseteq permitted'
    <3>1. CASE UpsertAgent
      <4>1. PICK allowed \in Policies, active \in BOOLEAN :
              /\ agent' = [active |-> active, allowed |-> allowed]
              /\ permitted' = IF open THEN permitted \cup allowed ELSE {}
        BY <3>1 DEF UpsertAgent
      <4>2. agent'.allowed = allowed /\ open' = open
        BY <3>1, <4>1 DEF UpsertAgent
      <4> QED  BY <4>1, <4>2
    <3>2. CASE CreateSession
      BY <3>2 DEF CreateSession
    <3> QED  BY <1>1, <3>1, <3>2
  <2>4. \A p \in Requests : Sanctioned(p)'
    BY <1>0, <2>1, <2>2 DEF Sanctioned
  <2> QED  BY <1>0, <2>1, <2>2, <2>3, <2>4 DEF SanctionedInv
<1>2. CASE UNCHANGED vars
  BY <1>0, <1>2 DEF vars, agentVars, SanctionedInv, Sanctioned
<1>3. ASSUME NEW q \in Requests, PlanAction(q) PROVE SanctionedInv'
  <2>1. PICK a \in Actions :
          action' = [action EXCEPT ![a] = [status |-> "PENDING_CONFIRMATION",
                                           tool   |-> req[q].tool]]
    BY <1>3 DEF PlanAction
  <2>2. /\ req[q].step = "planning" /\ req'[q].step = "done"
        /\ \A p \in Requests : p # q => req'[p] = req[p]
    BY <1>0, <1>3, Moved DEF PlanAction, ChatSteps
  <2>3. req[q].tool \in permitted
    BY <1>0, <2>2 DEF Sanctioned
  <2>4. \A b \in Actions : action'[b].status # "none" => action'[b].tool \in permitted
    BY <1>0, <2>1, <2>3 DEF TypeInv, ChatTypeOK
  <2>5. Sanctioned(q)' /\ UNCHANGED agentVars
    BY <1>3, <2>2 DEF Sanctioned, PlanAction
  <2> QED  BY <1>q, <2>2, <2>4, <2>5
<1>5. ASSUME NEW q \in Requests, ToolReturns(q) \/ ToolThrows(q) PROVE SanctionedInv'
  <2>1. PICK to \in {"returned", "thrown"} :
          Goes(q, "executing", to) /\ (to = "returned" => MayRun(req[q].role, req[q].tool))
    BY <1>5 DEF ToolReturns, ToolThrows
  <2>2. /\ req[q].step = "executing" /\ req'[q].step = to /\ req'[q].key = req[q].key
        /\ req'[q].tool = req[q].tool /\ req'[q].role = req[q].role
        /\ req'[q].named = req[q].named
        /\ \A p \in Requests : p # q => req'[p] = req[p]
    BY <1>0, <2>1, Moved DEF ChatSteps, Ended
  <2>3. UNCHANGED agentVars /\ UNCHANGED action
    BY <1>5 DEF ToolReturns, ToolThrows
  <2>4. Sanctioned(q)'
    BY <1>0, <2>1, <2>2, <2>3 DEF Sanctioned, agentVars
  <2> QED  BY <1>0, <1>q, <2>2, <2>3, <2>4
<1>6. ASSUME NEW q \in Requests, LogSuccess(q) \/ LogSuccessThrows(q) PROVE SanctionedInv'
  <2>1. PICK to \in {"done", "thrown"} : Goes(q, "returned", to)
    BY <1>6 DEF LogSuccess, LogSuccessThrows
  <2>2. /\ req[q].step = "returned" /\ req'[q].step = to
        /\ \A p \in Requests : p # q => req'[p] = req[p]
    BY <1>0, <2>1, Moved DEF ChatSteps
  <2>3. UNCHANGED agentVars
    BY <1>6 DEF LogSuccess, LogSuccessThrows
  <2>4. req[q].tool \in permitted
    BY <1>0, <2>2 DEF Sanctioned
  <2>5. \A a \in Actions : action'[a].status # "none" => action'[a].tool \in permitted
    <3>1. CASE UNCHANGED action
      BY <1>0, <3>1
    <3>2. CASE WriteSuccess(q)
      <4>1. \A a \in Actions :
              /\ action'[a].tool = action[a].tool
              /\ action'[a].status = IF a = req[q].key THEN "EXECUTED" ELSE action[a].status
        BY <1>0, <2>2, <3>2, SuccessWritten
      <4>2. req[q].key \in Actions => action[req[q].key].tool = req[q].tool
        BY <1>0, <2>2 DEF TypeInv, HoldsKey
      <4> QED  BY <1>0, <2>4, <4>1, <4>2
    <3> QED  BY <1>6, <3>1, <3>2 DEF LogSuccess, LogSuccessThrows
  <2>6. Sanctioned(q)'
    BY <2>2 DEF Sanctioned
  <2> QED  BY <1>q, <2>2, <2>3, <2>5, <2>6
<1>7. ASSUME NEW q \in Requests, LogError(q) PROVE SanctionedInv'
  <2>1. req'[q].step = "failed" /\ \A p \in Requests : p # q => req'[p] = req[p]
    BY <1>0, <1>7, Moved DEF LogError, ChatSteps
  <2>2. UNCHANGED agentVars /\ UNCHANGED action /\ Sanctioned(q)'
    BY <1>7, <2>1 DEF LogError, Sanctioned
  <2> QED  BY <1>0, <1>q, <2>1, <2>2
<1>8. ASSUME NEW q \in Requests, CrashChat(q) PROVE SanctionedInv'
  <2>1. req'[q].step = "lost" /\ \A p \in Requests : p # q => req'[p] = req[p]
    BY <1>0, <1>8, Crashed
  <2>2. UNCHANGED agentVars /\ UNCHANGED action /\ Sanctioned(q)'
    BY <1>8, <2>1 DEF CrashChat, Sanctioned
  <2> QED  BY <1>0, <1>q, <2>1, <2>2
<1> QED
  BY <1>1, <1>2, <1>s, <1>3, <1>5, <1>6, <1>7, <1>8 DEF ChatNext, ChatStep

(* A tool returns only if the agent has been allowed it, a change to an    *)
(* entity only for one of its writers, and an unconfirmed change only if   *)
(* the message named its tool, however requests, confirmations and changes *)
(* of the policy overlap.                                                  *)
THEOREM ToolsAreSanctioned == ChatSpec => []ToolsWereSanctioned
<1>1. ChatSpec => []SanctionedInv
  BY SanctionedInit, SanctionedStep, PTL DEF ChatSpec
<1>2. SanctionedInv => ToolsWereSanctioned
  BY WritersRun DEF SanctionedInv, Sanctioned, ToolsWereSanctioned
<1> QED  BY <1>1, <1>2, PTL

-----------------------------------------------------------------------------
(* What RepeatsBounded rests on.  While an action has no log row, each of  *)
(* its effects is of a request that still works on it, or was paid for     *)
(* with a fault; once its success is logged nobody can confirm it again,   *)
(* and only the requests that were executing it may add to them.           *)
Executing(a) == {q \in Requests : req[q].key = a /\ req[q].step = "executing"}
Executed(a)  == {q \in Requests : req[q].key = a /\ req[q].step \in {"returned", "thrown"}}

RepeatsCounted(a) ==
  /\ log[a] = "none" => effects[a] <= Cardinality(Executed(a)) + faults
  /\ log[a] = "ok" => effects[a] + Cardinality(Executing(a)) <= MaxInFlight + faults

BoundedInv ==
  /\ LoggedInv
  /\ IsFiniteSet(InFlight)
  /\ Cardinality(InFlight) <= MaxInFlight
  /\ \A a \in Actions : RepeatsCounted(a)

(* Two sets that differ in one element at most.                            *)
LEMMA OneApart ==
  ASSUME NEW S, NEW T, NEW q, IsFiniteSet(S), T \ {q} = S \ {q}
  PROVE  /\ IsFiniteSet(T) /\ Cardinality(S) \in Nat /\ Cardinality(T) \in Nat
         /\ (q \in S <=> q \in T) => Cardinality(T) = Cardinality(S)
         /\ q \in S /\ q \notin T => Cardinality(T) = Cardinality(S) - 1
         /\ q \notin S /\ q \in T => Cardinality(T) = Cardinality(S) + 1
<1>0. Cardinality(S) \in Nat
  BY FS_CardinalityType
<1>1. CASE q \in S <=> q \in T
  <2>1. S = T
    BY <1>1
  <2> QED  BY <1>0, <1>1, <2>1
<1>2. CASE q \in S /\ q \notin T
  <2>1. T = S \ {q}
    BY <1>2
  <2> QED  BY <1>0, <1>2, <2>1, FS_RemoveElement, FS_CardinalityType
<1>3. CASE q \notin S /\ q \in T
  <2>1. T = S \cup {q}
    BY <1>3
  <2> QED  BY <1>0, <1>3, <2>1, FS_AddElement, FS_CardinalityType
<1> QED  BY <1>1, <1>2, <1>3

(* Who works on an action is in flight.                                    *)
LEMMA Workers ==
  ASSUME IsFiniteSet(InFlight), NEW a \in Actions
  PROVE  /\ IsFiniteSet(Executing(a)) /\ IsFiniteSet(Executed(a))
         /\ Cardinality(Executing(a)) \in Nat /\ Cardinality(Executed(a)) \in Nat
         /\ Cardinality(InFlight) \in Nat
         /\ Cardinality(Executing(a)) + Cardinality(Executed(a)) <= Cardinality(InFlight)
<1> DEFINE E == Executing(a)
           D == Executed(a)
<1>1. E \subseteq InFlight /\ D \subseteq InFlight /\ E \cap D = {}
  BY DEF Executing, Executed, InFlight, Ended
<1> HIDE DEF E, D
<1>2. IsFiniteSet(E) /\ IsFiniteSet(D) /\ IsFiniteSet(E \cup D)
  BY <1>1, FS_Subset, FS_Union
<1>3. Cardinality(E) \in Nat /\ Cardinality(D) \in Nat /\ Cardinality(InFlight) \in Nat
  BY <1>2, FS_CardinalityType
<1>4. Cardinality(E \cup D) <= Cardinality(InFlight)
  <2>1. E \cup D \subseteq InFlight
    BY <1>1
  <2> QED  BY <2>1, FS_Subset
<1>5. Cardinality(E \cup D) = Cardinality(E) + Cardinality(D)
  <2>1. Cardinality(E \cup D) = Cardinality(E) + Cardinality(D) - Cardinality(E \cap D)
    BY <1>2, FS_Union
  <2>2. Cardinality(E \cap D) = 0
    BY <1>1, FS_EmptySet
  <2> QED  BY <1>3, <2>1, <2>2
<1>6. Cardinality(E) + Cardinality(D) <= Cardinality(InFlight)
  BY <1>3, <1>4, <1>5
<1> QED  BY <1>2, <1>3, <1>6 DEF E, D

(* The counts before and after a step of request q.                        *)
Recount(S, T, q) ==
  /\ IsFiniteSet(T) /\ Cardinality(S) \in Nat /\ Cardinality(T) \in Nat
  /\ (q \in S <=> q \in T) => Cardinality(T) = Cardinality(S)
  /\ q \in S /\ q \notin T => Cardinality(T) = Cardinality(S) - 1
  /\ q \notin S /\ q \in T => Cardinality(T) = Cardinality(S) + 1

LEMMA Recounted ==
  ASSUME BoundedInv, NEW q \in Requests,
         \A p \in Requests : p # q => req'[p] = req[p]
  PROVE  /\ Recount(InFlight, InFlight', q)
         /\ \A a \in Actions : /\ Recount(Executing(a), Executing(a)', q)
                               /\ Recount(Executed(a), Executed(a)', q)
<1>1. InFlight' \ {q} = InFlight \ {q}
  BY DEF InFlight
<1>2. ASSUME NEW a \in Actions
      PROVE  /\ Executing(a)' \ {q} = Executing(a) \ {q}
             /\ Executed(a)' \ {q} = Executed(a) \ {q}
             /\ IsFiniteSet(Executing(a)) /\ IsFiniteSet(Executed(a))
  BY Workers DEF Executing, Executed, BoundedInv
<1>3. ASSUME NEW S, NEW T, IsFiniteSet(S), T \ {q} = S \ {q}
      PROVE  Recount(S, T, q)
  BY <1>3, OneApart DEF Recount
<1>4. Recount(InFlight, InFlight', q)
  BY <1>1, <1>3 DEF BoundedInv
<1>5. ASSUME NEW a \in Actions
      PROVE  Recount(Executing(a), Executing(a)', q) /\ Recount(Executed(a), Executed(a)', q)
  BY <1>2, <1>3
<1> QED  BY <1>4, <1>5

(* An action that a request starts to execute has no success logged.       *)
LEMMA StartsUnexecuted ==
  ASSUME LoggedInv, NEW q \in Requests, Ask(q) \/ Confirm(q),
         NEW a \in Actions, req'[q].step = "executing", req'[q].key = a
  PROVE  log[a] # "ok"
<1>0. TypeInv /\ ExecutedIsLogged
  BY DEF LoggedInv
<1>1. /\ "rejected" \in ChatSteps /\ "planning" \in ChatSteps /\ "executing" \in ChatSteps
      /\ NoKey \in Keys \cup {NoKey} /\ Actions \subseteq Keys /\ Milliseconds \subseteq Keys
  BY DEF ChatSteps, Keys
<1>2. ~Becomes(q, AtRest("rejected", NoKey))
  <2>1. AtRest("rejected", NoKey) \in Request /\ AtRest("rejected", NoKey).step = "rejected"
    BY <1>1, RestTyped
  <2> QED  BY <1>0, <2>1, Started
<1>3. ASSUME NEW step \in {"planning", "executing"}, NEW tool \in Tools, NEW role \in Roles,
             NEW named \in BOOLEAN, NEW key \in Keys \cup {NoKey},
             Becomes(q, Asked(step, tool, role, named, key))
      PROVE  req'[q].step = step /\ req'[q].key = key
  <2> DEFINE r == Asked(step, tool, role, named, key)
  <2>1. step \in ChatSteps
    BY <1>1
  <2>2. r \in Request /\ r.step = step /\ r.key = key
    BY <2>1, AskedTyped
  <2>3. Becomes(q, r)
    BY <1>3
  <2> HIDE DEF r
  <2> QED  BY <1>0, <2>2, <2>3, Started
<1>4. ~Ask(q)
  <2> SUFFICES ASSUME Ask(q) PROVE FALSE
    OBVIOUS
  <2>1. PICK tool \in Tools, role \in Roles, named \in BOOLEAN :
          \/ Becomes(q, Asked("planning", tool, role, named, NoKey))
          \/ \E ms \in Milliseconds : Becomes(q, Asked("executing", tool, role, named, ms))
    BY <1>0, <1>2, AskedPlan
  <2>2. ~Becomes(q, Asked("planning", tool, role, named, NoKey))
    BY <1>1, <1>3
  <2>3. PICK ms \in Milliseconds : Becomes(q, Asked("executing", tool, role, named, ms))
    BY <2>1, <2>2
  <2>4. a = ms
    BY <1>1, <1>3, <2>3
  <2> QED  BY <2>4, ChatKeys
<1>5. PICK b \in Actions, role \in Roles :
        /\ Confirmable(b)
        /\ Becomes(q, Asked("executing", action[b].tool, role, FALSE, b))
  BY <1>2, <1>4 DEF Confirm
<1>6. action[b].tool \in Tools /\ b \in Keys \cup {NoKey} /\ FALSE \in BOOLEAN
  BY <1>0, <1>1 DEF TypeInv, ChatTypeOK, Action
<1>7. a = b
  BY <1>3, <1>5, <1>6
<1> QED  BY <1>0, <1>5, <1>7 DEF Confirmable, ExecutedIsLogged

LEMMA BoundedInit == ChatInit => BoundedInv
<1> SUFFICES ASSUME ChatInit PROVE BoundedInv
  OBVIOUS
<1>1. LoggedInv /\ \A q \in Requests : req[q].step = "idle"
  BY LoggedInit, AllIdle
<1>2. InFlight = {} /\ \A a \in Actions : Executed(a) = {}
  BY <1>1 DEF InFlight, Executed
<1>3. IsFiniteSet(InFlight) /\ Cardinality(InFlight) = 0
      /\ \A a \in Actions : Cardinality(Executed(a)) = 0
  BY <1>2, FS_EmptySet
<1>4. \A a \in Actions : log[a] = "none" /\ effects[a] = 0 /\ faults = 0
  BY DEF ChatInit, Keys
<1> QED  BY <1>1, <1>3, <1>4, ChatBounds DEF BoundedInv, RepeatsCounted

LEMMA BoundedStep == BoundedInv /\ [ChatNext]_vars => BoundedInv'
<1> SUFFICES ASSUME BoundedInv, [ChatNext]_vars PROVE BoundedInv'
  OBVIOUS
<1>0. LoggedInv /\ LoggedInv' /\ TypeInv /\ IsFiniteSet(InFlight)
  BY LoggedStep DEF BoundedInv, LoggedInv
<1>t. /\ log \in [Keys -> Outcome] /\ effects \in [Actions -> Nat] /\ faults \in Nat
      /\ req \in [Requests -> Request] /\ \A a \in Actions : a \in Keys
      /\ MaxInFlight \in Nat
  BY <1>0, ChatBounds DEF TypeInv, ChatTypeOK, Keys
(* Enough to show of a step of request q.                                  *)
<1>q. ASSUME NEW q \in Requests,
             \A p \in Requests : p # q => req'[p] = req[p],
             q \in InFlight' => q \in InFlight \/ Cardinality(InFlight) < MaxInFlight,
             \A a \in Actions : RepeatsCounted(a)'
      PROVE  BoundedInv'
  <2>1. Recount(InFlight, InFlight', q)
    BY <1>q, Recounted
  <2> QED  BY <1>0, <1>t, <1>q, <2>1 DEF Recount, BoundedInv
(* The counts of action a, if q did not work on it and does not now.       *)
<1>u. ASSUME NEW q \in Requests, NEW a \in Actions,
             \A p \in Requests : p # q => req'[p] = req[p],
             q \in Executing(a) <=> q \in Executing(a)',
             q \in Executed(a) <=> q \in Executed(a)',
             log'[a] = log[a], effects'[a] = effects[a], faults' \in Nat, faults' >= faults
      PROVE  RepeatsCounted(a)'
  <2>1. Recount(Executing(a), Executing(a)', q) /\ Recount(Executed(a), Executed(a)', q)
    BY <1>u, Recounted
  <2>2. RepeatsCounted(a) /\ effects[a] \in Nat
    BY <1>t DEF BoundedInv
  <2> QED  BY <1>t, <1>u, <2>1, <2>2 DEF Recount, RepeatsCounted
<1>1. CASE UpsertAgent \/ CreateSession \/ UNCHANGED vars
  <2>1. UNCHANGED <<req, log, effects, faults>>
    BY <1>1 DEF UpsertAgent, CreateSession, vars
  <2> QED  BY <1>0, <2>1 DEF BoundedInv, InFlight, RepeatsCounted, Executing, Executed
<1>2. ASSUME NEW q \in Requests, Ask(q) \/ Confirm(q) PROVE BoundedInv'
  <2>1. /\ req'[q].step \in {"rejected", "planning", "executing"}
        /\ \A p \in Requests : p # q => req'[p] = req[p]
    BY <1>0, <1>2, RequestStarts DEF StartsWell
  <2>2. /\ UNCHANGED <<log, effects, faults>> /\ req[q].step = "idle"
        /\ Cardinality(InFlight) < MaxInFlight
    BY <1>2 DEF Ask, Confirm, Arrives
  <2>3. ASSUME NEW a \in Actions PROVE RepeatsCounted(a)'
    <3>1. Recount(Executed(a), Executed(a)', q) /\ q \notin Executed(a) /\ q \notin Executed(a)'
      BY <2>1, <2>2, Recounted DEF Executed
    <3>2. RepeatsCounted(a) /\ effects[a] \in Nat
      BY <1>t DEF BoundedInv
    <3>3. CASE q \in Executing(a)'
      <4>1. log[a] # "ok"
        BY <1>0, <1>2, <3>3, StartsUnexecuted DEF Executing
      <4> QED  BY <1>t, <2>2, <3>1, <3>2, <4>1 DEF Recount, RepeatsCounted
    <3>4. CASE q \notin Executing(a)'
      <4>1. q \notin Executing(a)
        BY <2>2 DEF Executing
      <4> QED  BY <1>t, <1>u, <2>1, <2>2, <3>1, <3>4, <4>1
    <3> QED  BY <3>3, <3>4
  <2> QED  BY <1>q, <2>1, <2>2, <2>3
<1>3. ASSUME NEW q \in Requests, PlanAction(q) PROVE BoundedInv'
  <2>1. /\ req[q].step = "planning" /\ req'[q].step = "done"
        /\ \A p \in Requests : p # q => req'[p] = req[p]
    BY <1>0, <1>3, Moved DEF PlanAction, ChatSteps
  <2>2. UNCHANGED <<log, effects, faults>>
    BY <1>3 DEF PlanAction
  <2>3. q \in InFlight
    BY <2>1 DEF InFlight, Ended
  <2>4. ASSUME NEW a \in Actions PROVE RepeatsCounted(a)'
    <3>1. /\ q \notin Executing(a) /\ q \notin Executing(a)'
          /\ q \notin Executed(a) /\ q \notin Executed(a)'
      BY <2>1 DEF Executing, Executed
    <3> QED  BY <1>t, <1>u, <2>1, <2>2, <3>1
  <2> QED  BY <1>q, <2>1, <2>3, <2>4
<1>4. ASSUME NEW q \in Requests, ToolReturns(q) \/ ToolThrows(q) PROVE BoundedInv'
  <2>1. PICK to \in {"returned", "thrown"} : Goes(q, "executing", to)
    BY <1>4 DEF ToolReturns, ToolThrows
  <2>2. /\ req[q].step = "executing" /\ req'[q].step = to /\ req'[q].key = req[q].key
        /\ \A p \in Requests : p # q => req'[p] = req[p]
    BY <1>0, <2>1, Moved DEF ChatSteps, Ended
  <2>3. /\ UNCHANGED log /\ faults' \in Nat /\ faults' >= faults
        /\ UNCHANGED effects \/ TakesEffect(q)
    BY <1>t, <1>4 DEF ToolReturns, ToolThrows, Fault
  <2>4. q \in InFlight
    BY <2>2 DEF InFlight, Ended
  <2>5. ASSUME NEW a \in Actions PROVE RepeatsCounted(a)'
    <3>1. CASE a = req[q].key
      <4>1. /\ q \in Executing(a) /\ q \notin Executing(a)'
            /\ q \notin Executed(a) /\ q \in Executed(a)'
        BY <2>2, <3>1 DEF Executing, Executed
      <4>2. Recount(Executing(a), Executing(a)', q) /\ Recount(Executed(a), Executed(a)', q)
        BY <2>2, Recounted
      <4>3. /\ Cardinality(Executing(a)) \in Nat /\ Cardinality(Executed(a)) \in Nat
            /\ Cardinality(Executing(a)') = Cardinality(Executing(a)) - 1
            /\ Cardinality(Executed(a)') = Cardinality(Executed(a)) + 1
        BY <4>1, <4>2 DEF Recount
      <4>4. effects[a] \in Nat /\ effects'[a] \in Nat /\ effects'[a] <= effects[a] + 1
        BY <1>t, <2>3 DEF TakesEffect
      <4>5. RepeatsCounted(a)
        BY DEF BoundedInv
      <4> QED  BY <1>t, <2>3, <4>3, <4>4, <4>5 DEF RepeatsCounted
    <3>2. CASE a # req[q].key
      <4>1. effects'[a] = effects[a]
        BY <1>0, <2>3, <3>2, EffectsGrow
      <4>2. /\ q \notin Executing(a) /\ q \notin Executing(a)'
            /\ q \notin Executed(a) /\ q \notin Executed(a)'
        BY <2>2, <3>2 DEF Executing, Executed
      <4> QED  BY <1>u, <2>2, <2>3, <4>1, <4>2
    <3> QED  BY <3>1, <3>2
  <2> QED  BY <1>q, <2>2, <2>4, <2>5
<1>5. ASSUME NEW q \in Requests, LogSuccess(q) \/ LogSuccessThrows(q) PROVE BoundedInv'
  <2>1. PICK to \in {"done", "thrown"} : Goes(q, "returned", to)
    BY <1>5 DEF LogSuccess, LogSuccessThrows
  <2>2. /\ req[q].step = "returned" /\ req'[q].step = to
        /\ to = "thrown" => req'[q].key = req[q].key
        /\ \A p \in Requests : p # q => req'[p] = req[p]
    BY <1>0, <2>1, Moved DEF ChatSteps, Ended
  <2>3. UNCHANGED effects /\ faults' \in Nat /\ faults' >= faults
    BY <1>t, <1>5 DEF LogSuccess, LogSuccessThrows, Fault
  <2>4. q \in InFlight
    BY <2>2 DEF InFlight, Ended
  <2>5. (UNCHANGED log /\ to = "thrown") \/ WriteSuccess(q)
    <3>1. LogSuccessThrows(q) => req'[q].step = "thrown"
      BY <1>0, Moved DEF LogSuccessThrows, ChatSteps
    <3> QED  BY <1>5, <2>2, <3>1 DEF LogSuccess, LogSuccessThrows
  <2>6. ASSUME NEW a \in Actions PROVE RepeatsCounted(a)'
    <3>1. q \notin Executing(a) /\ q \notin Executing(a)'
      BY <2>2 DEF Executing
    <3>2. CASE UNCHANGED log /\ to = "thrown"
      <4>1. q \in Executed(a) <=> q \in Executed(a)'
        BY <2>2, <3>2 DEF Executed
      <4> QED  BY <1>u, <2>2, <2>3, <3>1, <3>2, <4>1
    <3>3. CASE WriteSuccess(q)
      <4>1. /\ log[req[q].key] = "none" /\ log'[req[q].key] = "ok"
            /\ \A k \in Keys : k # req[q].key => log'[k] = log[k]
        BY <1>0, <2>2, <3>3, SuccessWritten
      <4>2. CASE a = req[q].key
        <5>1. /\ Cardinality(Executing(a)) + Cardinality(Executed(a)) <= Cardinality(InFlight)
              /\ Cardinality(Executing(a)) \in Nat /\ Cardinality(Executed(a)) \in Nat
              /\ Cardinality(InFlight) \in Nat
          BY <1>0, Workers
        <5>2. Cardinality(Executing(a)') = Cardinality(Executing(a))
          BY <2>2, <3>1, Recounted DEF Recount
        <5>3. effects[a] <= Cardinality(Executed(a)) + faults /\ effects[a] \in Nat
          BY <1>t, <4>1, <4>2 DEF BoundedInv, RepeatsCounted
        <5>4. Cardinality(InFlight) <= MaxInFlight
          BY DEF BoundedInv
        <5>5. effects'[a] + Cardinality(Executing(a)') <= MaxInFlight + faults'
          BY <1>t, <2>3, <5>1, <5>2, <5>3, <5>4
        <5> QED  BY <4>1, <4>2, <5>5 DEF RepeatsCounted
      <4>3. CASE a # req[q].key
        <5>1. CASE to = "thrown"
          BY <1>t, <1>u, <2>2, <2>3, <3>1, <4>1, <4>3, <5>1 DEF Executed
        <5>2. CASE to = "done"
          BY <1>t, <1>u, <2>2, <2>3, <3>1, <4>1, <4>3, <5>2 DEF Executed
        <5> QED  BY <5>1, <5>2
      <4> QED  BY <4>2, <4>3
    <3> QED  BY <2>5, <3>2, <3>3
  <2> QED  BY <1>q, <2>2, <2>4, <2>6
<1>6. ASSUME NEW q \in Requests, LogError(q) PROVE BoundedInv'
  <2>1. /\ req[q].step = "thrown" /\ req'[q].step = "failed"
        /\ \A p \in Requests : p # q => req'[p] = req[p]
    BY <1>0, <1>6, Moved DEF LogError, ChatSteps
  <2>2. UNCHANGED <<effects, faults>>
    BY <1>6 DEF LogError
  <2>3. q \in InFlight
    BY <2>1 DEF InFlight, Ended
  <2>4. ASSUME NEW a \in Actions PROVE RepeatsCounted(a)'
    <3>1. q \notin Executing(a) /\ q \notin Executing(a)' /\ q \notin Executed(a)'
      BY <2>1 DEF Executing, Executed
    <3>2. CASE a = req[q].key
      <4>1. log'[a] = IF log[a] = "none" THEN "error" ELSE log[a]
        BY <1>t, <1>6, <3>2 DEF LogError, KeyFree
      <4>2. Recount(Executing(a), Executing(a)', q) /\ RepeatsCounted(a) /\ effects[a] \in Nat
        BY <1>t, <2>1, Recounted DEF BoundedInv
      <4> QED  BY <1>t, <2>2, <3>1, <4>1, <4>2 DEF Recount, RepeatsCounted
    <3>3. CASE a # req[q].key
      <4>1. log'[a] = log[a] /\ q \notin Executed(a)
        BY <1>t, <1>6, <3>3 DEF LogError, KeyFree, Executed
      <4> QED  BY <1>t, <1>u, <2>1, <2>2, <3>1, <4>1
    <3> QED  BY <3>2, <3>3
  <2> QED  BY <1>q, <2>1, <2>3, <2>4
<1>7. ASSUME NEW q \in Requests, CrashChat(q) PROVE BoundedInv'
  <2>1. /\ req'[q].step = "lost" /\ \A p \in Requests : p # q => req'[p] = req[p]
    BY <1>0, <1>7, Crashed
  <2>2. UNCHANGED <<log, effects>> /\ faults' = faults + 1 /\ q \in InFlight
    BY <1>7 DEF CrashChat, Fault
  <2>3. ASSUME NEW a \in Actions PROVE RepeatsCounted(a)'
    <3>1. q \notin Executing(a)' /\ q \notin Executed(a)'
      BY <2>1 DEF Executing, Executed
    <3>2. Recount(Executing(a), Executing(a)', q) /\ Recount(Executed(a), Executed(a)', q)
      BY <2>1, Recounted
    <3>3. RepeatsCounted(a) /\ effects[a] \in Nat
      BY <1>t DEF BoundedInv
    <3>4. /\ Cardinality(Executing(a)) \in Nat /\ Cardinality(Executing(a)') \in Nat
          /\ Cardinality(Executed(a)) \in Nat /\ Cardinality(Executed(a)') \in Nat
          /\ Cardinality(Executing(a)') <= Cardinality(Executing(a))
          /\ Cardinality(Executed(a)') >= Cardinality(Executed(a)) - 1
      BY <3>1, <3>2 DEF Recount
    <3> QED  BY <1>t, <2>2, <3>3, <3>4 DEF RepeatsCounted
  <2> QED  BY <1>q, <2>1, <2>2, <2>3
<1> QED
  BY <1>1, <1>2, <1>3, <1>4, <1>5, <1>6, <1>7 DEF ChatNext, ChatStep

(* confirmAction: however confirmations of an action overlap, it takes     *)
(* effect at most once for each request that can be in flight and for each *)
(* crash or failed write, as long as none of them logged an error.         *)
THEOREM RepeatsAreBounded == ChatSpec => []RepeatsBounded
<1>1. ChatSpec => []BoundedInv
  BY BoundedInit, BoundedStep, PTL DEF ChatSpec
<1>2. BoundedInv => RepeatsBounded
  <2> SUFFICES ASSUME BoundedInv, NEW a \in Actions, log[a] # "error"
               PROVE  effects[a] <= MaxInFlight + faults
    BY DEF RepeatsBounded
  <2>1. /\ log[a] \in Outcome /\ effects[a] \in Nat /\ faults \in Nat /\ MaxInFlight \in Nat
        /\ RepeatsCounted(a) /\ IsFiniteSet(InFlight) /\ Cardinality(InFlight) <= MaxInFlight
    BY ChatBounds DEF BoundedInv, LoggedInv, TypeInv, ChatTypeOK, Keys
  <2>2. /\ Cardinality(Executing(a)) + Cardinality(Executed(a)) <= Cardinality(InFlight)
        /\ Cardinality(Executing(a)) \in Nat /\ Cardinality(Executed(a)) \in Nat
        /\ Cardinality(InFlight) \in Nat
    BY <2>1, Workers
  <2> QED  BY <2>1, <2>2 DEF Outcome, RepeatsCounted
<1> QED  BY <1>1, <1>2, PTL
=============================================================================
