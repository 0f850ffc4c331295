----------------------------- MODULE Workspaces -----------------------------
(***************************************************************************)
(* One workspace: WorkspacesService, MembersService, ApiKeysService and    *)
(* AdminService.disableWorkspace.  A request of a member first passes      *)
(* WorkspaceContextGuard and WorkspaceRolesGuard, then reads what it works *)
(* on, then writes; acceptInvitation passes no guard.  A request with an   *)
(* API key passes ApiKeyGuard.  Requests stop at every await.              *)
(*                                                                         *)
(* Of names and billing profile only whether they were changed is kept;    *)
(* InvoiceComparison has the profile.  Audit rows are left out.  The       *)
(* secrets of an API key are numbered.                                     *)
(***************************************************************************)
EXTENDS Integers, FiniteSets

CONSTANTS Users, Invitations, ApiKeys,  \* ids of rows
          WsRequests,                   \* requests of users
          MaxWsInFlight,                \* bound: requests being served at a time
          MaxWsFaults,                  \* bound: crashes and failed statements
          Nobody                        \* no user

ASSUME WsBounds == MaxWsInFlight \in Nat /\ MaxWsFaults \in Nat
ASSUME NobodyIsNoUser == Nobody \notin Users

VARIABLES workspace,     \* the Workspace row
          member,        \* WorkspaceMember rows: the role of each user
          invitation,    \* WorkspaceInvitation rows
          joined,        \* the users who accepted each invitation
          apiKey,        \* ApiKey rows: status, present secret, lastUsedAt set?
          handedOut,     \* the secrets of each key that were returned
          access,        \* progress of each request
          wsOverlapped,  \* a request met another one, or the admin
          wsFaults       \* number of faults so far

wsVars == <<workspace, member, invitation, joined, apiKey, handedOut, access,
            wsOverlapped, wsFaults>>

WorkspaceStatus  == {"none", "ACTIVE", "DISABLED", "DELETED"}
Roles            == {"none", "OWNER", "MEMBER"}
Invitation       == [status : {"none", "PENDING", "ACCEPTED"}, role : Roles, lapsed : BOOLEAN]
ApiKey           == [status : {"none", "ACTIVE", "DISABLED"}, secret : Nat, used : BOOLEAN]
Targets          == Users \cup Invitations \cup ApiKeys \cup {Nobody}

OwnerOps == {"update", "delete", "invite", "remove", "createKey", "disableKey", "regenerateKey"}
Access == [step : {"idle", "guarded", "writing", "answering", "ended"},
           op : OwnerOps \cup {"create", "accept", "call"},
           user : Users \cup {Nobody}, target : Targets, secret : Nat]

WsResting(step) ==
  [step |-> step, op |-> "create", user |-> Nobody, target |-> Nobody, secret |-> 0]
WsInFlight == {q \in WsRequests : access[q].step \notin {"idle", "ended"}}

WsTypeOK ==
  /\ workspace \in [status : WorkspaceStatus, owner : Users \cup {Nobody}, edited : BOOLEAN]
  /\ member \in [Users -> Roles]
  /\ invitation \in [Invitations -> Invitation]
  /\ joined \in [Invitations -> SUBSET Users]
  /\ apiKey \in [ApiKeys -> ApiKey]
  /\ \A k \in ApiKeys : handedOut[k] \subseteq 1..apiKey[k].secret
  /\ access \in [WsRequests -> Access]
  /\ wsOverlapped \in BOOLEAN
  /\ wsFaults \in 0..MaxWsFaults

WsInit ==
  /\ workspace = [status |-> "none", owner |-> Nobody, edited |-> FALSE]
  /\ member = [u \in Users |-> "none"]
  /\ invitation = [i \in Invitations |-> [status |-> "none", role |-> "none", lapsed |-> FALSE]]
  /\ joined = [i \in Invitations |-> {}]
  /\ apiKey = [k \in ApiKeys |-> [status |-> "none", secret |-> 0, used |-> FALSE]]
  /\ handedOut = [k \in ApiKeys |-> {}]
  /\ access = [q \in WsRequests |-> WsResting("idle")]
  /\ wsOverlapped = FALSE
  /\ wsFaults = 0

WsFault == wsFaults < MaxWsFaults /\ wsFaults' = wsFaults + 1

WsArrives(q) ==
  /\ access[q].step = "idle"
  /\ Cardinality(WsInFlight) < MaxWsInFlight
  /\ wsOverlapped' = (wsOverlapped \/ WsInFlight # {})
Begins(q, u, op, step, target) ==
  access' = [access EXCEPT ![q] = [step |-> step, op |-> op, user |-> u, target |-> target,
                                   secret |-> 0]]
WsAt(q, step, ops) == access[q].step = step /\ access[q].op \in ops /\ UNCHANGED wsOverlapped
WsGoes(q, step)    == access' = [access EXCEPT ![q].step = step]
WsEnds(q)          == access' = [access EXCEPT ![q] = WsResting("ended")]
Target(q)          == access[q].target

-----------------------------------------------------------------------------
(* create: workspace, billing profile and owner in one statement.          *)
CreateWorkspace(q, u) ==
  /\ WsArrives(q)
  /\ workspace.status = "none"
  /\ workspace' = [status |-> "ACTIVE", owner |-> u, edited |-> FALSE]
  /\ member' = [member EXCEPT ![u] = "OWNER"]
  /\ WsEnds(q)
  /\ UNCHANGED <<invitation, joined, apiKey, handedOut, wsFaults>>

-----------------------------------------------------------------------------
(* The guards read the membership and the workspace at once.               *)

(* Fault: the guard looks at the membership only.                          *)
OwnerMayPass(u) == member[u] = "OWNER" /\ workspace.status # "none"

MayPass(u) == member[u] = "OWNER" /\ workspace.status = "ACTIVE"

(* What makes a row reads nothing more before it writes.                   *)
PassGuards(q, u) ==
  /\ WsArrives(q)
  /\ MayPass(u)
  /\ \/ \E op \in {"invite", "createKey"} : Begins(q, u, op, "writing", Nobody)
     \/ \E op \in {"update", "delete"} : Begins(q, u, op, "guarded", Nobody)
     \/ \E v \in Users : Begins(q, u, "remove", "guarded", v)
     \/ \E op \in {"disableKey", "regenerateKey"}, k \in ApiKeys : Begins(q, u, op, "guarded", k)
  /\ UNCHANGED <<workspace, member, invitation, joined, apiKey, handedOut, wsFaults>>

(* What the other handlers read and require before they write: updating    *)
(* and deleting need the owner of the workspace, not of the membership.    *)
Found(q) ==
  CASE access[q].op \in {"update", "delete"} -> workspace.owner = access[q].user
    [] access[q].op = "remove" -> member[Target(q)] # "none"
    [] access[q].op \in {"disableKey", "regenerateKey"} -> apiKey[Target(q)].status # "none"

ReadTarget(q) ==
  /\ WsAt(q, "guarded", OwnerOps \ {"invite", "createKey"})
  /\ IF Found(q) THEN WsGoes(q, "writing") ELSE WsEnds(q)
  /\ UNCHANGED <<workspace, member, invitation, joined, apiKey, handedOut, wsFaults>>

(* updateOwner: name and billing profile in one statement.                 *)
UpdateOwner(q) ==
  /\ WsAt(q, "writing", {"update"})
  /\ workspace' = [workspace EXCEPT !.edited = TRUE]
  /\ WsEnds(q)
  /\ UNCHANGED <<member, invitation, joined, apiKey, handedOut, wsFaults>>

SoftDelete(q) ==
  /\ WsAt(q, "writing", {"delete"})
  /\ workspace' = [workspace EXCEPT !.status = "DELETED"]
  /\ WsEnds(q)
  /\ UNCHANGED <<member, invitation, joined, apiKey, handedOut, wsFaults>>

(* disableWorkspace, by the admin: whatever the status is.                 *)
DisableWorkspace ==
  /\ workspace.status # "none"
  /\ workspace' = [workspace EXCEPT !.status = "DISABLED"]
  /\ wsOverlapped' = (wsOverlapped \/ WsInFlight # {})
  /\ UNCHANGED <<member, invitation, joined, apiKey, handedOut, access, wsFaults>>

-----------------------------------------------------------------------------
(* Members                                                                 *)

Invite(q) ==
  /\ WsAt(q, "writing", {"invite"})
  /\ \E i \in Invitations, role \in {"OWNER", "MEMBER"} :
       /\ invitation[i].status = "none"
       /\ invitation' = [invitation EXCEPT ![i] = [status |-> "PENDING", role |-> role,
                                                   lapsed |-> FALSE]]
  /\ WsEnds(q)
  /\ UNCHANGED <<workspace, member, joined, apiKey, handedOut, wsFaults>>

(* Deleting a row that is gone throws.                                     *)
RemoveMember(q) ==
  /\ WsAt(q, "writing", {"remove"})
  /\ member' = [member EXCEPT ![Target(q)] = "none"]
  /\ WsEnds(q)
  /\ UNCHANGED <<workspace, invitation, joined, apiKey, handedOut, wsFaults>>

(* acceptInvitation, up to its transaction.                                *)
FindInvitation(q, u) ==
  /\ WsArrives(q)
  /\ \E i \in Invitations : /\ invitation[i].status = "PENDING" /\ ~invitation[i].lapsed
                            /\ Begins(q, u, "accept", "writing", i)
  /\ UNCHANGED <<workspace, member, invitation, joined, apiKey, handedOut, wsFaults>>

Join(q) ==
  LET i == Target(q)
      u == access[q].user
  IN  /\ member' = [member EXCEPT ![u] = invitation[i].role]
      /\ joined' = [joined EXCEPT ![i] = @ \cup {u}]

(* Fault: the invitation stays open.                                       *)
AcceptKeepsOpen(q) ==
  /\ WsAt(q, "writing", {"accept"})
  /\ Join(q)
  /\ WsEnds(q)
  /\ UNCHANGED <<workspace, invitation, apiKey, handedOut, wsFaults>>

(* Membership (made or overwritten) and invitation in one transaction.     *)
AcceptInvitation(q) ==
  /\ WsAt(q, "writing", {"accept"})
  /\ Join(q)
  /\ invitation' = [invitation EXCEPT ![Target(q)].status = "ACCEPTED"]
  /\ WsEnds(q)
  /\ UNCHANGED <<workspace, apiKey, handedOut, wsFaults>>

Lapses ==
  /\ \E i \in Invitations : /\ invitation[i].status = "PENDING" /\ ~invitation[i].lapsed
                            /\ invitation' = [invitation EXCEPT ![i].lapsed = TRUE]
  /\ UNCHANGED <<workspace, member, joined, apiKey, handedOut, access, wsOverlapped, wsFaults>>

-----------------------------------------------------------------------------
(* API keys: the row keeps a hash of the secret, which is returned once,   *)
(* after the audit row is written.                                         *)

(* The row a key is stored in: a new one, or the one that was read.        *)
RowFor(q, k) ==
  IF access[q].op = "createKey" THEN apiKey[k].status = "none" ELSE k = Target(q)
Stores(q, k, stored, returned) ==
  /\ RowFor(q, k)
  /\ apiKey' = [apiKey EXCEPT ![k] = [status |-> "ACTIVE", secret |-> stored, used |-> FALSE]]
  /\ access' = [access EXCEPT ![q].step = "answering", ![q].target = k,
                              ![q].secret = returned]
  /\ UNCHANGED <<workspace, member, invitation, joined, handedOut, wsFaults>>

(* Fault: the secret that is stored and the one returned are generated     *)
(* separately.                                                             *)
StoresAnotherSecret(q) ==
  /\ WsAt(q, "writing", {"createKey", "regenerateKey"})
  /\ \E k \in ApiKeys : Stores(q, k, apiKey[k].secret + 2, apiKey[k].secret + 1)

(* Fault: only the status is written, not the new hash.                    *)
KeepsOldSecret(q) ==
  /\ WsAt(q, "writing", {"createKey", "regenerateKey"})
  /\ \E k \in ApiKeys : Stores(q, k, apiKey[k].secret, apiKey[k].secret + 1)

StoreSecret(q) ==
  /\ WsAt(q, "writing", {"createKey", "regenerateKey"})
  /\ \E k \in ApiKeys : Stores(q, k, apiKey[k].secret + 1, apiKey[k].secret + 1)

ReturnSecret(q) ==
  /\ WsAt(q, "answering", {"createKey", "regenerateKey"})
  /\ handedOut' = [handedOut EXCEPT ![Target(q)] = @ \cup {access[q].secret}]
  /\ WsEnds(q)
  /\ UNCHANGED <<workspace, member, invitation, joined, apiKey, wsFaults>>

DisableKey(q) ==
  /\ WsAt(q, "writing", {"disableKey"})
  /\ apiKey' = [apiKey EXCEPT ![Target(q)].status = "DISABLED"]
  /\ WsEnds(q)
  /\ UNCHANGED <<workspace, member, invitation, joined, handedOut, wsFaults>>

-----------------------------------------------------------------------------
(* ApiKeyGuard: a holder of a secret calls the public API.  A key is found *)
(* by its secret, and lastUsedAt written by the key's id.  The status of   *)
(* the workspace is not read.                                              *)
KeyOpens(k, secret) == apiKey[k].status = "ACTIVE" /\ apiKey[k].secret = secret

PassKeyGuard(q) ==
  /\ WsArrives(q)
  /\ \E k \in ApiKeys : \E secret \in handedOut[k] :
       KeyOpens(k, secret) /\ Begins(q, Nobody, "call", "writing", k)
  /\ UNCHANGED <<workspace, member, invitation, joined, apiKey, handedOut, wsFaults>>

MarkUsed(q) ==
  /\ WsAt(q, "writing", {"call"})
  /\ apiKey' = [apiKey EXCEPT ![Target(q)].used = TRUE]
  /\ WsEnds(q)
  /\ UNCHANGED <<workspace, member, invitation, joined, handedOut, wsFaults>>

-----------------------------------------------------------------------------
(* The server dies, or a statement fails.                                  *)
CrashAccess(q) ==
  /\ q \in WsInFlight
  /\ WsFault
  /\ WsEnds(q)
  /\ UNCHANGED <<workspace, member, invitation, joined, apiKey, handedOut, wsOverlapped>>

WsStep(q, u) == CreateWorkspace(q, u) \/ PassGuards(q, u) \/ FindInvitation(q, u)

WsGoesOn(q) ==
  \/ ReadTarget(q) \/ UpdateOwner(q) \/ SoftDelete(q)
  \/ Invite(q) \/ RemoveMember(q) \/ AcceptInvitation(q)
  \/ StoreSecret(q) \/ ReturnSecret(q) \/ DisableKey(q)
  \/ PassKeyGuard(q) \/ MarkUsed(q) \/ CrashAccess(q)

WsProgress == DisableWorkspace \/ Lapses \/ \E q \in WsRequests : WsGoesOn(q)

WsNext == WsProgress \/ \E q \in WsRequests, u \in Users : WsStep(q, u)

WsSpec == WsInit /\ [][WsNext]_wsVars

-----------------------------------------------------------------------------
(* Properties                                                              *)

(* A member is the creator or accepted an invitation to the present role;  *)
(* an invitation was accepted by somebody exactly if it says so, and as    *)
(* long as requests do not overlap by one user at most.                    *)
MembersWereInvited ==
  /\ \A u \in Users : member[u] # "none" =>
       \/ u = workspace.owner /\ member[u] = "OWNER"
       \/ \E i \in Invitations : u \in joined[i] /\ invitation[i].role = member[u]
  /\ \A i \in Invitations :
       /\ invitation[i].status = "ACCEPTED" <=> joined[i] # {}
       /\ ~wsOverlapped => Cardinality(joined[i]) <= 1

(* The secret an API key has now was returned to somebody, unless it is    *)
(* being returned or the request was cut off: regenerations that overlap   *)
(* do not leave a key that nobody has.  If no requests have overlapped, a  *)
(* key whose lastUsedAt is set has a secret that somebody had to use.      *)
SecretsAreHandedOut ==
  \A k \in ApiKeys :
    /\ apiKey[k].secret # 0 =>
         \/ apiKey[k].secret \in handedOut[k] \/ wsFaults > 0
         \/ \E q \in WsRequests : /\ access[q].step = "answering" /\ Target(q) = k
                                  /\ access[q].secret = apiKey[k].secret
    /\ apiKey[k].used /\ ~wsOverlapped => apiKey[k].secret \in handedOut[k]

(* "Workspace is not active": unless a request was already past the guards *)
(* a workspace that is not ACTIVE keeps its name and billing profile, its  *)
(* keys and their secrets (a key may still be used), its invitations       *)
(* (except for their acceptance) and its members.                          *)
InactiveIsFrozen ==
  [][workspace.status \in {"DISABLED", "DELETED"} /\ ~wsOverlapped =>
       /\ workspace'.edited = workspace.edited
       /\ \A k \in ApiKeys : /\ apiKey'[k].status = apiKey[k].status
                             /\ apiKey'[k].secret = apiKey[k].secret
       /\ \A i \in Invitations : invitation[i].status = "none" => invitation'[i].status = "none"
       /\ \A u \in Users : member[u] # "none" => member'[u] # "none"]_wsVars
=============================================================================
