------------------------- MODULE Administration_proofs -------------------------
(***************************************************************************)
(* Theorems about Workspaces, for any users, invitations, keys, requests   *)
(* and number of faults; about InvoiceIssue, for any number of uploads;    *)
(* and about Administration, which behaves as each of its parts.           *)
(***************************************************************************)
EXTENDS Otp_proofs, Administration, FiniteSetTheorems

-----------------------------------------------------------------------------
(* Workspaces: types                                                       *)

InFlight(q) == access[q].step \notin {"idle", "ended"}

(* A request that is being served has the target its operation works on,   *)
(* an invitation that was sent for one that accepts; one that answers has  *)
(* a secret the key has or had.                                            *)
TargetFits(q) ==
  InFlight(q) =>
    /\ access[q].op = "remove" => Target(q) \in Users
    /\ access[q].op \in {"disableKey", "regenerateKey", "call"} => Target(q) \in ApiKeys
    /\ access[q].op = "accept" => /\ Target(q) \in Invitations /\ access[q].user \in Users
                                  /\ invitation[Target(q)].status # "none"
    /\ access[q].step = "answering" =>
         Target(q) \in ApiKeys /\ access[q].secret \in 1..apiKey[Target(q)].secret

WsTypeInv == /\ WsTypeOK
             /\ handedOut \in [ApiKeys -> SUBSET Nat]
             /\ \A q \in WsRequests : TargetFits(q)

LEMMA Typed ==
  ASSUME WsTypeInv
  PROVE  /\ workspace \in [status : WorkspaceStatus, owner : Users \cup {Nobody},
                           edited : BOOLEAN]
         /\ member \in [Users -> Roles]
         /\ invitation \in [Invitations -> Invitation]
         /\ joined \in [Invitations -> SUBSET Users]
         /\ apiKey \in [ApiKeys -> ApiKey]
         /\ handedOut \in [ApiKeys -> SUBSET Nat]
         /\ access \in [WsRequests -> Access]
         /\ wsOverlapped \in BOOLEAN
         /\ wsFaults \in 0..MaxWsFaults
BY DEF WsTypeInv, WsTypeOK

(* Only q moves.                                                           *)
Moves(q) == /\ access' \in [WsRequests -> Access]
            /\ \A p \in WsRequests : p # q => access'[p] = access[p]

LEMMA EndsMoves ==
  ASSUME WsTypeInv, NEW q \in WsRequests, WsEnds(q)
  PROVE  Moves(q) /\ access'[q].step = "ended" /\ ~InFlight(q)'
<1>1. WsResting("ended") \in Access /\ WsResting("ended").step = "ended"
  BY DEF WsResting, Access, Targets
<1> QED  BY <1>1, Typed DEF WsEnds, Moves, InFlight

LEMMA GoesMoves ==
  ASSUME WsTypeInv, NEW q \in WsRequests, WsGoes(q, "writing")
  PROVE  /\ Moves(q) /\ access'[q].step = "writing"
         /\ access'[q].op = access[q].op /\ access'[q].user = access[q].user
         /\ access'[q].target = access[q].target
<1>1. [access[q] EXCEPT !.step = "writing"] \in Access
  BY Typed DEF Access
<1> QED  BY <1>1, Typed DEF WsGoes, Moves, Access

LEMMA StoreMoves ==
  ASSUME WsTypeInv, NEW q \in WsRequests, NEW k \in ApiKeys, NEW s \in Nat,
         access' = [access EXCEPT ![q].step = "answering", ![q].target = k, ![q].secret = s]
  PROVE  /\ Moves(q) /\ access'[q].step = "answering" /\ access'[q].op = access[q].op
         /\ access'[q].target = k /\ access'[q].secret = s
<1>1. [access[q] EXCEPT !.step = "answering", !.target = k, !.secret = s] \in Access
  BY Typed DEF Access, Targets
<1> QED  BY <1>1, Typed DEF Moves, Access

-----------------------------------------------------------------------------
(* Types                                                                   *)

(* No key loses a secret it had and no invitation becomes unsent: the      *)
(* other requests keep what they work with.                                *)
LEMMA OthersFit ==
  ASSUME WsTypeInv, NEW q \in WsRequests, Moves(q), TargetFits(q)',
         apiKey' \in [ApiKeys -> ApiKey],
         \A k \in ApiKeys : apiKey'[k].secret >= apiKey[k].secret,
         \A i \in Invitations : invitation[i].status # "none" => invitation'[i].status # "none"
  PROVE  \A p \in WsRequests : TargetFits(p)'
<1> SUFFICES ASSUME NEW p \in WsRequests, p # q PROVE TargetFits(p)'
  OBVIOUS
<1>1. access'[p] = access[p] /\ TargetFits(p)
  BY DEF Moves, WsTypeInv
<1>2. access[p].secret \in Nat /\ \A k \in ApiKeys : apiKey[k].secret \in Nat /\ apiKey'[k].secret \in Nat
  BY Typed DEF Access, ApiKey
<1> QED  BY <1>1, <1>2 DEF TargetFits, InFlight, Target

LEMMA WsTypeInit == WsInit => WsTypeInv
<1> SUFFICES ASSUME WsInit PROVE WsTypeInv
  OBVIOUS
<1>1. access \in [WsRequests -> Access] /\ \A q \in WsRequests : ~InFlight(q)
  BY DEF WsInit, WsResting, Access, Targets, InFlight
<1>2. /\ workspace \in [status : WorkspaceStatus, owner : Users \cup {Nobody}, edited : BOOLEAN]
      /\ member \in [Users -> Roles] /\ invitation \in [Invitations -> Invitation]
      /\ joined \in [Invitations -> SUBSET Users]
  BY DEF WsInit, WorkspaceStatus, Roles, Invitation
<1>3. /\ apiKey \in [ApiKeys -> ApiKey] /\ handedOut \in [ApiKeys -> SUBSET Nat]
      /\ \A k \in ApiKeys : handedOut[k] \subseteq 1..apiKey[k].secret
  BY DEF WsInit, ApiKey
<1>4. wsOverlapped \in BOOLEAN
  BY DEF WsInit
<1>5. wsFaults \in 0..MaxWsFaults
  BY WsBounds DEF WsInit
<1> QED  BY <1>1, <1>2, <1>3, <1>4, <1>5 DEF WsTypeInv, WsTypeOK, TargetFits

LEMMA WsTypeStep == WsTypeInv /\ [WsNext]_wsVars => WsTypeInv'
<1> SUFFICES ASSUME WsTypeInv, [WsNext]_wsVars PROVE WsTypeInv'
  OBVIOUS
<1> USE Typed
<1>b. (wsOverlapped \/ WsInFlight # {}) \in BOOLEAN
  OBVIOUS
(* A step that leaves the keys alone.                                      *)
<1>k. ASSUME NEW q \in WsRequests, Moves(q), TargetFits(q)', UNCHANGED <<apiKey, handedOut>>,
             workspace' \in [status : WorkspaceStatus, owner : Users \cup {Nobody},
                             edited : BOOLEAN],
             member' \in [Users -> Roles], invitation' \in [Invitations -> Invitation],
             \A i \in Invitations :
               invitation[i].status # "none" => invitation'[i].status # "none",
             joined' \in [Invitations -> SUBSET Users], wsOverlapped' \in BOOLEAN,
             wsFaults' \in 0..MaxWsFaults
      PROVE  WsTypeInv'
  <2>1. \A k \in ApiKeys : apiKey[k].secret \in Nat
    BY DEF ApiKey
  <2>2. \A p \in WsRequests : TargetFits(p)'
    BY <1>k, <2>1, OthersFit
  <2> QED  BY <1>k, <2>2 DEF WsTypeInv, WsTypeOK, Moves
(* What ends fits, whatever it was.                                        *)
<1>e. ASSUME NEW q \in WsRequests, WsEnds(q) PROVE Moves(q) /\ TargetFits(q)'
  BY <1>e, EndsMoves DEF TargetFits
<1>g. ASSUME NEW q \in WsRequests, NEW u \in Users \cup {Nobody},
             NEW op \in OwnerOps \cup {"accept", "call"}, NEW step \in {"guarded", "writing"},
             NEW target \in Targets, Begins(q, u, op, step, target),
             op = "remove" => target \in Users,
             op \in {"disableKey", "regenerateKey", "call"} => target \in ApiKeys,
             op = "accept" => /\ target \in Invitations /\ u \in Users
                              /\ invitation'[target].status # "none"
      PROVE  Moves(q) /\ TargetFits(q)'
  <2>1. /\ Moves(q) /\ access'[q].step = step
        /\ access'[q].op = op /\ access'[q].user = u /\ access'[q].target = target
    <3>1. [step |-> step, op |-> op, user |-> u, target |-> target, secret |-> 0] \in Access
      BY <1>g DEF Access
    <3> QED  BY <1>g, <3>1 DEF Begins, Moves
  <2> QED  BY <1>g, <2>1 DEF TargetFits, Target
<1>1. CASE UNCHANGED wsVars
  BY <1>1 DEF wsVars, WsTypeInv, WsTypeOK, TargetFits, InFlight, Target
<1>2. ASSUME NEW q \in WsRequests, NEW u \in Users, CreateWorkspace(q, u) PROVE WsTypeInv'
  <2>1. /\ workspace' \in [status : WorkspaceStatus, owner : Users \cup {Nobody}, edited : BOOLEAN]
        /\ member' \in [Users -> Roles]
    BY <1>2 DEF CreateWorkspace, WorkspaceStatus, Roles
  <2> QED  BY <1>2, <1>b, <1>e, <1>k, <2>1 DEF CreateWorkspace, WsArrives
<1>3. ASSUME NEW q \in WsRequests, NEW u \in Users, PassGuards(q, u) PROVE WsTypeInv'
  <2>1. Moves(q) /\ TargetFits(q)'
    <3>1. CASE \E op \in {"invite", "createKey"} : Begins(q, u, op, "writing", Nobody)
      BY <1>g, <3>1 DEF OwnerOps, Targets
    <3>2. CASE \E op \in {"update", "delete"} : Begins(q, u, op, "guarded", Nobody)
      BY <1>g, <3>2 DEF OwnerOps, Targets
    <3>3. CASE \E v \in Users : Begins(q, u, "remove", "guarded", v)
      BY <1>g, <3>3 DEF OwnerOps, Targets
    <3>4. CASE \E op \in {"disableKey", "regenerateKey"}, k \in ApiKeys :
                 Begins(q, u, op, "guarded", k)
      BY <1>g, <3>4 DEF OwnerOps, Targets
    <3> QED  BY <1>3, <3>1, <3>2, <3>3, <3>4 DEF PassGuards
  <2> QED  BY <1>3, <1>b, <1>k, <2>1 DEF PassGuards, WsArrives
<1>4. ASSUME NEW q \in WsRequests, NEW u \in Users, FindInvitation(q, u) PROVE WsTypeInv'
  <2>1. Moves(q) /\ TargetFits(q)'
    BY <1>4, <1>g DEF FindInvitation, Targets
  <2> QED  BY <1>4, <1>b, <1>k, <2>1 DEF FindInvitation, WsArrives
<1>5. ASSUME NEW q \in WsRequests, ReadTarget(q) PROVE WsTypeInv'
  <2>1. CASE WsGoes(q, "writing")
    <3>1. TargetFits(q) /\ InFlight(q) /\ UNCHANGED <<invitation, apiKey>>
      BY <1>5 DEF ReadTarget, WsAt, WsTypeInv, InFlight
    <3>2. Moves(q) /\ TargetFits(q)'
      BY <2>1, <3>1, GoesMoves DEF TargetFits, InFlight, Target
    <3> QED  BY <1>5, <1>k, <3>2 DEF ReadTarget, WsAt
  <2>2. CASE WsEnds(q)
    BY <1>5, <1>e, <1>k, <2>2 DEF ReadTarget, WsAt
  <2> QED  BY <1>5, <2>1, <2>2 DEF ReadTarget
<1>6. ASSUME NEW q \in WsRequests, UpdateOwner(q) \/ SoftDelete(q) PROVE WsTypeInv'
  <2>1. workspace' \in [status : WorkspaceStatus, owner : Users \cup {Nobody}, edited : BOOLEAN]
    BY <1>6 DEF UpdateOwner, SoftDelete, WorkspaceStatus
  <2> QED  BY <1>6, <1>e, <1>k, <2>1 DEF UpdateOwner, SoftDelete, WsAt
<1>7. CASE DisableWorkspace
  <2>1. workspace' \in [status : WorkspaceStatus, owner : Users \cup {Nobody}, edited : BOOLEAN]
    BY <1>7 DEF DisableWorkspace, WorkspaceStatus
  <2> QED  BY <1>7, <1>b, <2>1
           DEF DisableWorkspace, WsTypeInv, WsTypeOK, TargetFits, InFlight, Target
<1>8. ASSUME NEW q \in WsRequests, Invite(q) PROVE WsTypeInv'
  <2>1. /\ invitation' \in [Invitations -> Invitation]
        /\ \A i \in Invitations : invitation[i].status # "none" => invitation'[i].status # "none"
    BY <1>8 DEF Invite, Invitation, Roles
  <2> QED  BY <1>8, <1>e, <1>k, <2>1 DEF Invite, WsAt
<1>9. ASSUME NEW q \in WsRequests, RemoveMember(q) PROVE WsTypeInv'
  <2>1. member' \in [Users -> Roles]
    BY <1>9 DEF RemoveMember, Roles
  <2> QED  BY <1>9, <1>e, <1>k, <2>1 DEF RemoveMember, WsAt
<1>10. ASSUME NEW q \in WsRequests, AcceptInvitation(q) PROVE WsTypeInv'
  <2>1. Target(q) \in Invitations /\ access[q].user \in Users
    BY <1>10 DEF AcceptInvitation, WsAt, WsTypeInv, TargetFits, InFlight
  <2>2. invitation[Target(q)].role \in Roles
    BY <2>1 DEF Invitation
  <2>3. /\ member' \in [Users -> Roles] /\ joined' \in [Invitations -> SUBSET Users]
    BY <1>10, <2>1, <2>2 DEF AcceptInvitation, Join
  <2>4. /\ invitation' \in [Invitations -> Invitation]
        /\ \A i \in Invitations : invitation[i].status # "none" => invitation'[i].status # "none"
    BY <1>10, <2>1 DEF AcceptInvitation, Invitation
  <2> QED  BY <1>10, <1>e, <1>k, <2>3, <2>4 DEF AcceptInvitation, WsAt
<1>11. CASE Lapses
  <2>1. /\ invitation' \in [Invitations -> Invitation]
        /\ \A i \in Invitations : invitation'[i].status = invitation[i].status
    <3>1. PICK i \in Invitations : invitation' = [invitation EXCEPT ![i].lapsed = TRUE]
      BY <1>11 DEF Lapses
    <3> QED  BY <3>1 DEF Invitation
  <2> QED  BY <1>11, <2>1 DEF Lapses, WsTypeInv, WsTypeOK, TargetFits, InFlight, Target
<1>12. ASSUME NEW q \in WsRequests, StoreSecret(q) PROVE WsTypeInv'
  <2>1. PICK k \in ApiKeys : Stores(q, k, apiKey[k].secret + 1, apiKey[k].secret + 1)
    BY <1>12 DEF StoreSecret
  <2> DEFINE s == apiKey[k].secret + 1
  <2>2. s \in Nat /\ s >= 1 /\ s >= apiKey[k].secret
    BY DEF ApiKey
  <2>3. apiKey' = [apiKey EXCEPT ![k] = [status |-> "ACTIVE", secret |-> s, used |-> FALSE]]
    BY <2>1 DEF Stores
  <2>4. /\ apiKey' \in [ApiKeys -> ApiKey] /\ apiKey'[k].secret = s
        /\ \A j \in ApiKeys : j # k => apiKey'[j] = apiKey[j]
    BY <2>2, <2>3 DEF ApiKey
  <2>5. \A j \in ApiKeys : apiKey'[j].secret >= apiKey[j].secret /\ apiKey[j].secret \in Nat
    BY <2>2, <2>4 DEF ApiKey
  <2>6. /\ Moves(q) /\ access'[q].step = "answering" /\ access'[q].op = access[q].op
        /\ access'[q].target = k /\ access'[q].secret = s
    BY <2>1, <2>2, StoreMoves DEF Stores
  <2> HIDE DEF s
  <2>7. TargetFits(q)'
    BY <1>12, <2>2, <2>4, <2>6 DEF TargetFits, Target, StoreSecret, WsAt
  <2>i. UNCHANGED invitation
    BY <2>1 DEF Stores
  <2>8. \A p \in WsRequests : TargetFits(p)'
    BY <2>i, <2>4, <2>5, <2>6, <2>7, OthersFit
  <2>9. \A j \in ApiKeys : handedOut'[j] \subseteq 1..apiKey'[j].secret
    <3> SUFFICES ASSUME NEW j \in ApiKeys, NEW x \in handedOut[j] PROVE x \in 1..apiKey'[j].secret
      BY <2>1 DEF Stores
    <3>1. x \in 1..apiKey[j].secret
      BY DEF WsTypeInv, WsTypeOK
    <3>2. apiKey'[j].secret \in Nat
      BY <2>4 DEF ApiKey
    <3> QED  BY <2>5, <3>1, <3>2
  <2> QED  BY <1>12, <2>1, <2>4, <2>6, <2>8, <2>9
           DEF WsTypeInv, WsTypeOK, Stores, Moves, StoreSecret, WsAt
<1>13. ASSUME NEW q \in WsRequests, ReturnSecret(q) PROVE WsTypeInv'
  <2>1. Target(q) \in ApiKeys /\ access[q].secret \in 1..apiKey[Target(q)].secret
    BY <1>13 DEF ReturnSecret, WsAt, WsTypeInv, TargetFits, InFlight
  <2>2. access[q].secret \in Nat
    BY DEF Access
  <2>3. /\ handedOut' \in [ApiKeys -> SUBSET Nat] /\ UNCHANGED apiKey
        /\ \A j \in ApiKeys : handedOut'[j] \subseteq 1..apiKey[j].secret
    BY <1>13, <2>1, <2>2 DEF ReturnSecret, WsTypeInv, WsTypeOK
  <2>4. Moves(q) /\ TargetFits(q)'
    BY <1>13, <1>e DEF ReturnSecret
  <2>5. \A j \in ApiKeys : apiKey[j].secret \in Nat
    BY DEF ApiKey
  <2>i. UNCHANGED invitation
    BY <1>13 DEF ReturnSecret
  <2>6. \A p \in WsRequests : TargetFits(p)'
    BY <2>i, <2>3, <2>4, <2>5, OthersFit
  <2> QED  BY <1>13, <2>3, <2>4, <2>6 DEF WsTypeInv, WsTypeOK, ReturnSecret, WsAt, Moves
<1>14. ASSUME NEW q \in WsRequests, DisableKey(q) \/ MarkUsed(q) PROVE WsTypeInv'
  <2>1. Target(q) \in ApiKeys
    BY <1>14 DEF DisableKey, MarkUsed, WsAt, WsTypeInv, TargetFits, InFlight
  <2>2. /\ apiKey' \in [ApiKeys -> ApiKey] /\ UNCHANGED handedOut
        /\ \A j \in ApiKeys : apiKey'[j].secret = apiKey[j].secret /\ apiKey[j].secret \in Nat
    <3>1. CASE DisableKey(q)
      BY <3>1, <2>1 DEF DisableKey, ApiKey
    <3>2. CASE MarkUsed(q)
      BY <3>2, <2>1 DEF MarkUsed, ApiKey
    <3> QED  BY <1>14, <3>1, <3>2
  <2>3. Moves(q) /\ TargetFits(q)'
    BY <1>14, <1>e DEF DisableKey, MarkUsed
  <2>i. UNCHANGED invitation
    BY <1>14 DEF DisableKey, MarkUsed
  <2>4. \A p \in WsRequests : TargetFits(p)'
    BY <2>i, <2>2, <2>3, OthersFit
  <2>5. \A j \in ApiKeys : handedOut'[j] \subseteq 1..apiKey'[j].secret
    BY <2>2 DEF WsTypeInv, WsTypeOK
  <2> QED  BY <1>14, <2>2, <2>3, <2>4, <2>5
           DEF WsTypeInv, WsTypeOK, DisableKey, MarkUsed, WsAt, Moves
<1>15. ASSUME NEW q \in WsRequests, PassKeyGuard(q) PROVE WsTypeInv'
  <2>1. Moves(q) /\ TargetFits(q)'
    BY <1>15, <1>g DEF PassKeyGuard, Targets
  <2> QED  BY <1>15, <1>b, <1>k, <2>1 DEF PassKeyGuard, WsArrives
<1>16. ASSUME NEW q \in WsRequests, CrashAccess(q) PROVE WsTypeInv'
  <2>1. wsFaults' \in 0..MaxWsFaults
    BY <1>16, WsBounds DEF CrashAccess, WsFault
  <2> QED  BY <1>16, <1>e, <1>k, <2>1 DEF CrashAccess
<1> QED
  BY <1>1, <1>2, <1>3, <1>4, <1>5, <1>6, <1>7, <1>8, <1>9, <1>10, <1>11, <1>12, <1>13, <1>14,
     <1>15, <1>16
  DEF WsNext, WsProgress, WsStep, WsGoesOn

-----------------------------------------------------------------------------
(* Requests that do not overlap                                            *)

(* What a request that meets no other knows of the rows it works on.       *)
WsKnows(q) ==
  InFlight(q) =>
    /\ access[q].op = "accept" => invitation[Target(q)].status = "PENDING"
    /\ access[q].op = "call" => apiKey[Target(q)].secret \in handedOut[Target(q)]
    /\ access[q].op \in OwnerOps => workspace.status = "ACTIVE"

Alone ==
  ~wsOverlapped => \A q \in WsRequests :
                     WsKnows(q) /\ \A p \in WsRequests : InFlight(p) /\ InFlight(q) => p = q

(* A step of one request, which starts or goes on.                         *)
LEMMA AloneMoves ==
  ASSUME WsTypeInv, Alone, NEW q \in WsRequests, Moves(q),
         WsArrives(q) \/ (InFlight(q) /\ UNCHANGED wsOverlapped),
         ~wsOverlapped /\ WsKnows(q) => WsKnows(q)'
  PROVE  Alone'
<1> SUFFICES ASSUME ~wsOverlapped' PROVE Alone'
  BY DEF Alone
<1>1. ~wsOverlapped /\ \A p \in WsRequests : p # q => ~InFlight(p)
  <2>1. CASE WsArrives(q)
    <3>1. ~wsOverlapped /\ WsInFlight = {}
      BY <2>1, Zenon DEF WsArrives
    <3> QED  BY <3>1 DEF WsInFlight, InFlight
  <2>2. CASE InFlight(q) /\ UNCHANGED wsOverlapped
    BY <2>2 DEF Alone
  <2> QED  BY <2>1, <2>2
<1>2. \A p \in WsRequests : p # q => ~InFlight(p)'
  BY <1>1 DEF Moves, InFlight
<1>3. WsKnows(q)'
  BY <1>1 DEF Alone
<1> QED
  <2> SUFFICES ASSUME NEW r \in WsRequests
               PROVE  WsKnows(r)' /\ \A p \in WsRequests : InFlight(p)' /\ InFlight(r)' => p = r
    BY DEF Alone
  <2>1. CASE r = q
    BY <1>2, <1>3, <2>1
  <2>2. CASE r # q
    BY <1>2, <2>2 DEF WsKnows
  <2> QED  BY <2>1, <2>2

LEMMA AloneEnds ==
  ASSUME WsTypeInv, Alone, NEW q \in WsRequests, WsEnds(q),
         WsArrives(q) \/ (InFlight(q) /\ UNCHANGED wsOverlapped)
  PROVE  Alone'
BY EndsMoves, AloneMoves DEF WsKnows

LEMMA AloneInit == WsInit => Alone
BY DEF WsInit, WsResting, Alone, WsKnows, InFlight

LEMMA AloneStep == WsTypeInv /\ Alone /\ [WsNext]_wsVars => Alone'
<1> SUFFICES ASSUME WsTypeInv, Alone, [WsNext]_wsVars PROVE Alone'
  OBVIOUS
<1> USE Typed
<1>i. ASSUME NEW q \in WsRequests, access[q].step \in {"guarded", "writing", "answering"}
      PROVE  InFlight(q)
  BY <1>i DEF InFlight
<1>g. ASSUME NEW q \in WsRequests, NEW u, NEW op, NEW step, NEW target,
             Begins(q, u, op, step, target), Moves(q), WsArrives(q),
             op = "accept" => invitation'[target].status = "PENDING",
             op = "call" => apiKey'[target].secret \in handedOut'[target],
             op \in OwnerOps => workspace'.status = "ACTIVE"
      PROVE  Alone'
  <2>1. access'[q].op = op /\ access'[q].target = target
    BY <1>g DEF Begins
  <2> QED  BY <1>g, <2>1, AloneMoves DEF WsKnows, Target
<1>m. ASSUME NEW q \in WsRequests, NEW u \in Users \cup {Nobody},
             NEW op \in OwnerOps \cup {"accept", "call"}, NEW step \in {"guarded", "writing"},
             NEW target \in Targets, Begins(q, u, op, step, target)
      PROVE  Moves(q)
  <2>1. [step |-> step, op |-> op, user |-> u, target |-> target, secret |-> 0] \in Access
    BY <1>m DEF Access
  <2> QED  BY <1>m, <2>1 DEF Begins, Moves
<1>1. CASE UNCHANGED wsVars
  BY <1>1 DEF wsVars, Alone, WsKnows, InFlight, Target
<1>2. ASSUME NEW q \in WsRequests, NEW u \in Users, CreateWorkspace(q, u) PROVE Alone'
  BY <1>2, AloneEnds DEF CreateWorkspace
<1>3. ASSUME NEW q \in WsRequests, NEW u \in Users, PassGuards(q, u) PROVE Alone'
  <2>1. WsArrives(q) /\ workspace'.status = "ACTIVE"
    BY <1>3 DEF PassGuards, MayPass
  <2>2. PICK op \in OwnerOps, step \in {"guarded", "writing"}, target \in Targets :
          Begins(q, u, op, step, target)
    BY <1>3 DEF PassGuards, OwnerOps, Targets
  <2>3. op # "accept" /\ op # "call"
    BY DEF OwnerOps
  <2>4. Moves(q)
    BY <1>m, <2>2
  <2> QED  BY <1>g, <2>1, <2>2, <2>3, <2>4
<1>4. ASSUME NEW q \in WsRequests, NEW u \in Users, FindInvitation(q, u) PROVE Alone'
  <2>1. PICK i \in Invitations : /\ invitation[i].status = "PENDING"
                                 /\ Begins(q, u, "accept", "writing", i)
    BY <1>4 DEF FindInvitation
  <2>2. Moves(q)
    BY <1>m, <2>1 DEF Targets
  <2>3. "accept" \notin OwnerOps
    BY DEF OwnerOps
  <2> QED  BY <1>4, <1>g, <2>1, <2>2, <2>3 DEF FindInvitation
<1>5. ASSUME NEW q \in WsRequests, ReadTarget(q) PROVE Alone'
  <2>1. CASE WsGoes(q, "writing")
    BY <1>5, <1>i, <2>1, GoesMoves, AloneMoves DEF ReadTarget, WsAt, WsKnows, Target
  <2>2. CASE WsEnds(q)
    BY <1>5, <1>i, <2>2, AloneEnds DEF ReadTarget, WsAt
  <2> QED  BY <1>5, <2>1, <2>2 DEF ReadTarget
<1>6. ASSUME NEW q \in WsRequests,
             \/ UpdateOwner(q) \/ SoftDelete(q) \/ Invite(q) \/ RemoveMember(q)
             \/ AcceptInvitation(q) \/ ReturnSecret(q) \/ DisableKey(q) \/ MarkUsed(q)
      PROVE  Alone'
  <2>1. InFlight(q) /\ UNCHANGED wsOverlapped /\ WsEnds(q)
    BY <1>6, <1>i DEF UpdateOwner, SoftDelete, Invite, RemoveMember, AcceptInvitation,
                      ReturnSecret, DisableKey, MarkUsed, WsAt
  <2> QED  BY <2>1, AloneEnds
<1>7. CASE DisableWorkspace
  <2> SUFFICES ASSUME ~wsOverlapped' PROVE Alone'
    BY DEF Alone
  <2>1. \A q \in WsRequests : ~InFlight(q)
    BY <1>7 DEF DisableWorkspace, WsInFlight, InFlight
  <2>2. \A q \in WsRequests : ~InFlight(q)'
    BY <1>7, <2>1 DEF DisableWorkspace, InFlight
  <2> QED  BY <2>2 DEF Alone, WsKnows
<1>8. CASE Lapses
  <2>1. \A i \in Invitations : invitation'[i].status = invitation[i].status
    BY <1>8 DEF Lapses, Invitation
  <2>2. \A q \in WsRequests : TargetFits(q)
    BY DEF WsTypeInv
  <2> QED  BY <1>8, <2>1, <2>2 DEF Lapses, Alone, WsKnows, InFlight, Target, TargetFits
<1>9. ASSUME NEW q \in WsRequests, StoreSecret(q) PROVE Alone'
  <2>1. PICK k \in ApiKeys : Stores(q, k, apiKey[k].secret + 1, apiKey[k].secret + 1)
    BY <1>9 DEF StoreSecret
  <2>2. apiKey[k].secret + 1 \in Nat
    BY DEF ApiKey
  <2>3. Moves(q) /\ access'[q].op = access[q].op
    BY <2>1, <2>2, StoreMoves DEF Stores
  <2>4. access[q].op \notin {"accept", "call"} /\ InFlight(q) /\ UNCHANGED <<wsOverlapped, workspace>>
    BY <1>9, <1>i, <2>1 DEF StoreSecret, WsAt, Stores
  <2> QED  BY <2>3, <2>4, AloneMoves DEF WsKnows
<1>10. ASSUME NEW q \in WsRequests, PassKeyGuard(q) PROVE Alone'
  <2>1. PICK k \in ApiKeys : /\ apiKey[k].secret \in handedOut[k]
                             /\ Begins(q, Nobody, "call", "writing", k)
    BY <1>10 DEF PassKeyGuard, KeyOpens
  <2>2. Moves(q)
    BY <1>m, <2>1 DEF Targets
  <2>3. "call" \notin OwnerOps
    BY DEF OwnerOps
  <2> QED  BY <1>10, <1>g, <2>1, <2>2, <2>3 DEF PassKeyGuard
<1>11. ASSUME NEW q \in WsRequests, CrashAccess(q) PROVE Alone'
  BY <1>11, AloneEnds DEF CrashAccess, WsInFlight, InFlight
<1> QED
  BY <1>1, <1>2, <1>3, <1>4, <1>5, <1>6, <1>7, <1>8, <1>9, <1>10, <1>11
  DEF WsNext, WsProgress, WsStep, WsGoesOn

-----------------------------------------------------------------------------
(* Members                                                                 *)

(* There is no owner before there is a workspace, an invitation that was   *)
(* sent has a role, and the users who accepted one are as MembersWereInvited *)
(* says.                                                                   *)
Invited ==
  /\ workspace.status = "none" => workspace.owner = Nobody
  /\ \A u \in Users : member[u] # "none" =>
       \/ u = workspace.owner /\ member[u] = "OWNER"
       \/ \E i \in Invitations : u \in joined[i] /\ invitation[i].role = member[u]
  /\ \A i \in Invitations :
       /\ invitation[i].status # "none" => invitation[i].role # "none"
       /\ invitation[i].status = "ACCEPTED" <=> joined[i] # {}
       /\ ~wsOverlapped => \A u, v \in joined[i] : u = v

LEMMA InvitedInit == WsInit => Invited
BY DEF WsInit, Invited

(* A request does not forget that others met.                              *)
LEMMA OverlapStays == [WsNext]_wsVars /\ wsOverlapped => wsOverlapped'
<1> SUFFICES ASSUME [WsNext]_wsVars, wsOverlapped PROVE wsOverlapped'
  OBVIOUS
<1>1. ASSUME NEW q \in WsRequests, WsArrives(q) PROVE wsOverlapped'
  BY <1>1, Zenon DEF WsArrives
<1>2. ASSUME UNCHANGED wsOverlapped PROVE wsOverlapped'
  BY <1>2
<1>3. CASE DisableWorkspace
  BY <1>3, Zenon DEF DisableWorkspace
<1>4. CASE WsNext
  BY <1>1, <1>2, <1>3, <1>4
  DEF WsNext, WsProgress, WsStep, WsGoesOn, CreateWorkspace, PassGuards, FindInvitation,
      ReadTarget, UpdateOwner, SoftDelete, Invite, RemoveMember, AcceptInvitation, Lapses,
      StoreSecret, ReturnSecret, DisableKey, PassKeyGuard, MarkUsed, CrashAccess, WsAt, Stores
<1> QED  BY <1>2, <1>4 DEF wsVars

LEMMA InvitedStep == WsTypeInv /\ Alone /\ Invited /\ [WsNext]_wsVars => Invited'
<1> SUFFICES ASSUME WsTypeInv, Alone, Invited, [WsNext]_wsVars PROVE Invited'
  OBVIOUS
<1> USE Typed
<1>o. ~wsOverlapped' => ~wsOverlapped
  BY OverlapStays
<1>1. CASE UNCHANGED <<workspace, member, invitation, joined>>
  BY <1>1, <1>o DEF Invited
<1>2. ASSUME NEW q \in WsRequests, NEW u \in Users, CreateWorkspace(q, u) PROVE Invited'
  <2>1. /\ workspace.owner = Nobody /\ workspace'.owner = u /\ workspace'.status = "ACTIVE"
        /\ UNCHANGED <<invitation, joined>>
        /\ member' = [member EXCEPT ![u] = "OWNER"]
    BY <1>2 DEF CreateWorkspace, Invited
  <2>2. \A v \in Users : v # Nobody
    BY NobodyIsNoUser
  <2> QED  BY <1>o, <2>1, <2>2 DEF Invited
<1>3. ASSUME UNCHANGED <<member, invitation, joined>>, workspace'.owner = workspace.owner,
             workspace'.status # "none"
      PROVE  Invited'
  BY <1>3, <1>o DEF Invited
<1>4. ASSUME NEW q \in WsRequests, UpdateOwner(q) PROVE Invited'
  <2>1. /\ UNCHANGED <<member, invitation, joined>> /\ workspace'.owner = workspace.owner
        /\ workspace'.status = workspace.status
    BY <1>4 DEF UpdateOwner
  <2> QED  BY <1>o, <2>1 DEF Invited
<1>5. ASSUME NEW q \in WsRequests, SoftDelete(q) PROVE Invited'
  BY <1>3, <1>5 DEF SoftDelete
<1>6. CASE DisableWorkspace
  BY <1>3, <1>6 DEF DisableWorkspace
<1>7. ASSUME NEW q \in WsRequests, Invite(q) PROVE Invited'
  <2>1. PICK i \in Invitations, role \in {"OWNER", "MEMBER"} :
          /\ invitation[i].status = "none"
          /\ invitation' = [invitation EXCEPT ![i] = [status |-> "PENDING", role |-> role,
                                                      lapsed |-> FALSE]]
    BY <1>7 DEF Invite
  <2>2. joined[i] = {}
    BY <2>1 DEF Invited
  <2>3. /\ invitation'[i].status = "PENDING" /\ invitation'[i].role # "none"
        /\ \A j \in Invitations : j # i => invitation'[j] = invitation[j]
    BY <2>1
  <2>4. UNCHANGED <<workspace, member, joined>>
    BY <1>7 DEF Invite
  <2>5. \A u \in Users : member'[u] # "none" =>
          \/ u = workspace'.owner /\ member'[u] = "OWNER"
          \/ \E j \in Invitations : u \in joined'[j] /\ invitation'[j].role = member'[u]
    BY <2>2, <2>3, <2>4 DEF Invited
  <2> QED  BY <1>o, <2>2, <2>3, <2>4, <2>5 DEF Invited
<1>8. ASSUME NEW q \in WsRequests, RemoveMember(q) PROVE Invited'
  <2>1. UNCHANGED <<workspace, invitation, joined>>
    BY <1>8 DEF RemoveMember
  <2>2. \A u \in Users : member'[u] # "none" => member'[u] = member[u]
    BY <1>8 DEF RemoveMember
  <2> QED  BY <1>o, <2>1, <2>2 DEF Invited
<1>9. ASSUME NEW q \in WsRequests, AcceptInvitation(q) PROVE Invited'
  <2> DEFINE i == Target(q)
             u == access[q].user
  <2>1. /\ i \in Invitations /\ u \in Users /\ InFlight(q) /\ access[q].op = "accept"
        /\ invitation[i].status # "none"
    BY <1>9 DEF AcceptInvitation, WsAt, WsTypeInv, TargetFits, InFlight
  <2>2. ~wsOverlapped => joined[i] = {}
    BY <2>1 DEF Alone, WsKnows, Invited
  <2>3. /\ member' = [member EXCEPT ![u] = invitation[i].role]
        /\ joined' = [joined EXCEPT ![i] = @ \cup {u}]
        /\ invitation' = [invitation EXCEPT ![i].status = "ACCEPTED"]
        /\ UNCHANGED workspace
    BY <1>9 DEF AcceptInvitation, Join
  <2> HIDE DEF i, u
  <2>4. /\ \A j \in Invitations : invitation'[j].role = invitation[j].role
        /\ invitation'[i].status = "ACCEPTED"
        /\ \A j \in Invitations : j # i => invitation'[j].status = invitation[j].status
    BY <2>1, <2>3 DEF Invitation
  <2>5. /\ joined'[i] = joined[i] \cup {u}
        /\ \A j \in Invitations : j # i => joined'[j] = joined[j]
    BY <2>1, <2>3
  <2>6. \A v \in Users : member'[v] # "none" =>
          \/ v = workspace'.owner /\ member'[v] = "OWNER"
          \/ \E j \in Invitations : v \in joined'[j] /\ invitation'[j].role = member'[v]
    <3> SUFFICES ASSUME NEW v \in Users, member'[v] # "none"
                 PROVE  \/ v = workspace'.owner /\ member'[v] = "OWNER"
                        \/ \E j \in Invitations :
                             v \in joined'[j] /\ invitation'[j].role = member'[v]
      OBVIOUS
    <3>1. CASE v = u
      BY <2>1, <2>3, <2>4, <2>5, <3>1
    <3>2. CASE v # u
      <4>1. member'[v] = member[v]
        BY <2>3, <3>2
      <4>2. \A j \in Invitations : joined[j] \subseteq joined'[j]
        BY <2>5
      <4> QED  BY <2>3, <2>4, <4>1, <4>2 DEF Invited
    <3> QED  BY <3>1, <3>2
  <2>7. invitation[i].role # "none"
    BY <2>1 DEF Invited
  <2>8. \A j \in Invitations : ~wsOverlapped' => \A v, w \in joined'[j] : v = w
    BY <1>o, <2>2, <2>5 DEF Invited
  <2> QED  BY <2>1, <2>3, <2>4, <2>5, <2>6, <2>7, <2>8 DEF Invited
<1>10. CASE Lapses
  <2>1. UNCHANGED <<workspace, member, joined>>
    BY <1>10 DEF Lapses
  <2>2. \A i \in Invitations : /\ invitation'[i].status = invitation[i].status
                               /\ invitation'[i].role = invitation[i].role
    BY <1>10 DEF Lapses, Invitation
  <2> QED  BY <1>o, <2>1, <2>2 DEF Invited
<1>11. ASSUME NEW q \in WsRequests,
              \/ ReadTarget(q) \/ StoreSecret(q) \/ ReturnSecret(q) \/ DisableKey(q)
              \/ PassKeyGuard(q) \/ MarkUsed(q) \/ CrashAccess(q)
              \/ \E u \in Users : PassGuards(q, u) \/ FindInvitation(q, u)
       PROVE  Invited'
  BY <1>1, <1>11 DEF ReadTarget, StoreSecret, Stores, ReturnSecret, DisableKey, PassKeyGuard,
                     MarkUsed, CrashAccess, PassGuards, FindInvitation
<1> QED
  BY <1>1, <1>2, <1>4, <1>5, <1>6, <1>7, <1>8, <1>9, <1>10, <1>11
  DEF WsNext, WsProgress, WsStep, WsGoesOn, wsVars

-----------------------------------------------------------------------------
(* Secrets                                                                 *)

Answering(q, k) ==
  access[q].step = "answering" /\ Target(q) = k /\ access[q].secret = apiKey[k].secret

LEMMA SecretsInit == WsInit => SecretsAreHandedOut
BY DEF WsInit, SecretsAreHandedOut

LEMMA SecretsStep ==
  WsTypeInv /\ Alone /\ SecretsAreHandedOut /\ [WsNext]_wsVars => SecretsAreHandedOut'
<1> SUFFICES ASSUME WsTypeInv, Alone, SecretsAreHandedOut, [WsNext]_wsVars
             PROVE  SecretsAreHandedOut'
  OBVIOUS
<1> USE Typed
<1>o. ~wsOverlapped' => ~wsOverlapped
  BY OverlapStays
<1>p. \A k \in ApiKeys :
        /\ apiKey[k].secret # 0 =>
             \/ apiKey[k].secret \in handedOut[k] \/ wsFaults > 0
             \/ \E q \in WsRequests : Answering(q, k)
        /\ apiKey[k].used /\ ~wsOverlapped => apiKey[k].secret \in handedOut[k]
  BY DEF SecretsAreHandedOut, Answering
<1>q. ASSUME \A k \in ApiKeys :
               /\ apiKey'[k].secret # 0 =>
                    \/ apiKey'[k].secret \in handedOut'[k] \/ wsFaults' > 0
                    \/ \E q \in WsRequests : Answering(q, k)'
               /\ apiKey'[k].used /\ ~wsOverlapped' => apiKey'[k].secret \in handedOut'[k]
      PROVE  SecretsAreHandedOut'
  BY <1>q DEF SecretsAreHandedOut, Answering
(* No request that answers moves, and no key gets another secret.          *)
<1>k. ASSUME UNCHANGED <<handedOut, wsFaults>>,
             \A k \in ApiKeys : /\ apiKey'[k].secret = apiKey[k].secret
                                /\ apiKey'[k].used /\ ~wsOverlapped' =>
                                     apiKey[k].used \/ apiKey[k].secret \in handedOut[k],
             \A q \in WsRequests : access[q].step = "answering" => access'[q] = access[q]
      PROVE  SecretsAreHandedOut'
  <2>1. \A q \in WsRequests, k \in ApiKeys : Answering(q, k) => Answering(q, k)'
    BY <1>k DEF Answering, Target
  <2> QED  BY <1>k, <1>o, <1>p, <1>q, <2>1
(* Moves of requests that do not answer.                                   *)
<1>m. ASSUME NEW q \in WsRequests, Moves(q), access[q].step # "answering"
      PROVE  \A p \in WsRequests : access[p].step = "answering" => access'[p] = access[p]
  BY <1>m DEF Moves
<1>1. CASE UNCHANGED <<apiKey, handedOut, access, wsFaults>>
  BY <1>1, <1>k
<1>2. ASSUME NEW q \in WsRequests, NEW u \in Users, WsStep(q, u) PROVE SecretsAreHandedOut'
  <2>1. /\ UNCHANGED <<apiKey, handedOut, wsFaults>> /\ access[q].step # "answering"
        /\ \A p \in WsRequests : p # q => access'[p] = access[p]
    BY <1>2 DEF WsStep, CreateWorkspace, PassGuards, FindInvitation, WsArrives, WsEnds, Begins
  <2> QED  BY <1>k, <2>1
<1>3. ASSUME NEW q \in WsRequests,
             \/ ReadTarget(q) \/ UpdateOwner(q) \/ SoftDelete(q) \/ Invite(q)
             \/ RemoveMember(q) \/ AcceptInvitation(q) \/ PassKeyGuard(q)
      PROVE  SecretsAreHandedOut'
  <2>1. /\ UNCHANGED <<apiKey, handedOut, wsFaults>> /\ access[q].step # "answering"
        /\ \A p \in WsRequests : p # q => access'[p] = access[p]
    BY <1>3 DEF ReadTarget, UpdateOwner, SoftDelete, Invite, RemoveMember, AcceptInvitation,
                PassKeyGuard, WsAt, WsArrives, WsEnds, WsGoes, Begins
  <2> QED  BY <1>k, <2>1
<1>4. ASSUME NEW q \in WsRequests, StoreSecret(q) PROVE SecretsAreHandedOut'
  <2>1. PICK k \in ApiKeys : Stores(q, k, apiKey[k].secret + 1, apiKey[k].secret + 1)
    BY <1>4 DEF StoreSecret
  <2> DEFINE s == apiKey[k].secret + 1
  <2>2. s \in Nat
    BY DEF ApiKey
  <2>3. /\ apiKey'[k].secret = s /\ apiKey'[k].used = FALSE
        /\ \A j \in ApiKeys : j # k => apiKey'[j] = apiKey[j]
    BY <2>1 DEF Stores
  <2>4. /\ Moves(q) /\ access'[q].step = "answering"
        /\ access'[q].target = k /\ access'[q].secret = s
    BY <2>1, <2>2, StoreMoves DEF Stores
  <2> HIDE DEF s
  <2>5. UNCHANGED <<handedOut, wsFaults>> /\ access[q].step # "answering"
    BY <1>4, <2>1 DEF Stores, StoreSecret, WsAt
  <2>6. Answering(q, k)'
    BY <2>3, <2>4 DEF Answering, Target
  <2>7. \A p \in WsRequests, j \in ApiKeys : Answering(p, j) /\ j # k => Answering(p, j)'
    BY <1>m, <2>3, <2>4, <2>5 DEF Answering, Target
  <2> QED  BY <1>o, <1>p, <1>q, <2>3, <2>5, <2>6, <2>7
<1>5. ASSUME NEW q \in WsRequests, ReturnSecret(q) PROVE SecretsAreHandedOut'
  <2>1. Target(q) \in ApiKeys
    BY <1>5 DEF ReturnSecret, WsAt, WsTypeInv, TargetFits, InFlight
  <2>2. /\ access[q].secret \in handedOut'[Target(q)]
        /\ \A j \in ApiKeys : handedOut[j] \subseteq handedOut'[j]
        /\ UNCHANGED <<apiKey, wsFaults>>
    BY <1>5, <2>1 DEF ReturnSecret
  <2>3. \A p \in WsRequests : p # q => access'[p] = access[p]
    BY <1>5 DEF ReturnSecret, WsEnds
  <2>4. \A p \in WsRequests, j \in ApiKeys :
          Answering(p, j) => Answering(p, j)' \/ apiKey'[j].secret \in handedOut'[j]
    BY <2>2, <2>3 DEF Answering, Target
  <2> QED  BY <1>o, <1>p, <1>q, <2>2, <2>4
<1>6. ASSUME NEW q \in WsRequests, DisableKey(q) PROVE SecretsAreHandedOut'
  <2>1. Target(q) \in ApiKeys
    BY <1>6 DEF DisableKey, WsAt, WsTypeInv, TargetFits, InFlight
  <2>2. \A j \in ApiKeys : /\ apiKey'[j].secret = apiKey[j].secret
                           /\ apiKey'[j].used = apiKey[j].used
    BY <1>6, <2>1 DEF DisableKey, ApiKey
  <2>3. /\ UNCHANGED <<handedOut, wsFaults>> /\ access[q].step # "answering"
        /\ \A p \in WsRequests : p # q => access'[p] = access[p]
    BY <1>6 DEF DisableKey, WsAt, WsEnds
  <2> QED  BY <1>k, <2>2, <2>3
<1>7. ASSUME NEW q \in WsRequests, MarkUsed(q) PROVE SecretsAreHandedOut'
  <2>1. Target(q) \in ApiKeys /\ InFlight(q) /\ access[q].op = "call"
    BY <1>7 DEF MarkUsed, WsAt, WsTypeInv, TargetFits, InFlight
  <2>2. ~wsOverlapped => apiKey[Target(q)].secret \in handedOut[Target(q)]
    BY <2>1 DEF Alone, WsKnows
  <2>3. /\ \A j \in ApiKeys : apiKey'[j].secret = apiKey[j].secret
        /\ \A j \in ApiKeys : j # Target(q) => apiKey'[j] = apiKey[j]
    BY <1>7, <2>1 DEF MarkUsed, ApiKey
  <2>4. /\ UNCHANGED <<handedOut, wsFaults>> /\ access[q].step # "answering"
        /\ \A p \in WsRequests : p # q => access'[p] = access[p]
    BY <1>7 DEF MarkUsed, WsAt, WsEnds
  <2> QED  BY <1>k, <1>o, <2>2, <2>3, <2>4
<1>8. ASSUME NEW q \in WsRequests, CrashAccess(q) PROVE SecretsAreHandedOut'
  <2>1. wsFaults' > 0
    BY <1>8, WsBounds DEF CrashAccess, WsFault
  <2> QED  BY <1>8, <1>o, <1>p, <1>q, <2>1 DEF CrashAccess
<1>9. CASE DisableWorkspace \/ Lapses
  BY <1>9, <1>1 DEF DisableWorkspace, Lapses
<1> QED
  BY <1>1, <1>2, <1>3, <1>4, <1>5, <1>6, <1>7, <1>8, <1>9
  DEF WsNext, WsProgress, WsGoesOn, wsVars

-----------------------------------------------------------------------------
(* Theorems                                                                *)

WsInv == WsTypeInv /\ Alone /\ Invited /\ SecretsAreHandedOut

LEMMA WsInductive == WsSpec => []WsInv
<1>1. WsInit => WsInv
  BY WsTypeInit, AloneInit, InvitedInit, SecretsInit DEF WsInv
<1>2. WsInv /\ [WsNext]_wsVars => WsInv'
  BY WsTypeStep, AloneStep, InvitedStep, SecretsStep DEF WsInv
<1> QED  BY <1>1, <1>2, PTL DEF WsSpec

(* Workspace, members, invitations, keys and requests keep their types: a  *)
(* request of these services works on a row of the kind its route names.   *)
THEOREM WorkspaceTypeCorrect == WsSpec => []WsTypeOK
<1>1. WsInv => WsTypeOK
  BY DEF WsInv, WsTypeInv
<1> QED  BY <1>1, WsInductive, PTL

(* A member is the creator or accepted an invitation to the role he has,   *)
(* and only overlapping requests let two users accept one.                 *)
THEOREM MembersInvited == WsSpec => []MembersWereInvited
<1>1. WsInv => MembersWereInvited
  <2> SUFFICES ASSUME WsInv PROVE MembersWereInvited
    OBVIOUS
  <2>1. ASSUME NEW i \in Invitations, ~wsOverlapped PROVE Cardinality(joined[i]) <= 1
    <3>1. CASE joined[i] = {}
      BY <3>1, FS_EmptySet
    <3>2. CASE joined[i] # {}
      <4>1. PICK u : u \in joined[i]
        BY <3>2
      <4>2. joined[i] = {u}
        BY <2>1, <4>1 DEF WsInv, Invited
      <4>3. Cardinality(joined[i]) = 1
        BY <4>2, FS_Singleton, Zenon
      <4> QED  BY <4>3
    <3> QED  BY <3>1, <3>2
  <2> QED  BY <2>1 DEF WsInv, Invited, MembersWereInvited
<1> QED  BY <1>1, WsInductive, PTL

(* create and regenerate store the hash of a secret before they return it: *)
(* without faults nobody is left with a key whose secret was not returned. *)
THEOREM SecretsReturned == WsSpec => []SecretsAreHandedOut
<1>1. WsInv => SecretsAreHandedOut
  BY DEF WsInv
<1> QED  BY <1>1, WsInductive, PTL

-----------------------------------------------------------------------------
(* A workspace that is not active                                          *)

(* The step of InactiveIsFrozen.                                           *)
Frozen ==
  workspace.status \in {"DISABLED", "DELETED"} /\ ~wsOverlapped =>
    /\ workspace'.edited = workspace.edited
    /\ \A k \in ApiKeys : /\ apiKey'[k].status = apiKey[k].status
                          /\ apiKey'[k].secret = apiKey[k].secret
    /\ \A i \in Invitations : invitation[i].status = "none" => invitation'[i].status = "none"
    /\ \A u \in Users : member[u] # "none" => member'[u] # "none"

LEMMA FrozenStep == WsInv /\ [WsNext]_wsVars => [Frozen]_wsVars
<1> SUFFICES ASSUME WsInv, [WsNext]_wsVars,
                    workspace.status \in {"DISABLED", "DELETED"}, ~wsOverlapped
             PROVE  Frozen
  BY DEF Frozen
<1>t. WsTypeInv /\ Alone /\ Invited
  BY DEF WsInv
<1>p. /\ workspace \in [status : WorkspaceStatus, owner : Users \cup {Nobody}, edited : BOOLEAN]
      /\ member \in [Users -> Roles] /\ invitation \in [Invitations -> Invitation]
      /\ apiKey \in [ApiKeys -> ApiKey]
  BY <1>t, Typed
(* No request of an owner is past the guards.                              *)
<1>a. ASSUME NEW q \in WsRequests, access[q].step \in {"guarded", "writing", "answering"}
      PROVE  access[q].op \notin OwnerOps
  BY <1>a, <1>t DEF Alone, WsKnows, InFlight
<1>1. CASE UNCHANGED <<member, invitation, apiKey>> /\ workspace'.edited = workspace.edited
  BY <1>1 DEF Frozen
<1>2. ASSUME NEW q \in WsRequests, NEW u \in Users, CreateWorkspace(q, u) PROVE Frozen
  BY <1>2 DEF CreateWorkspace
<1>3. ASSUME NEW q \in WsRequests,
             \/ ReadTarget(q) \/ UpdateOwner(q) \/ SoftDelete(q) \/ Invite(q)
             \/ RemoveMember(q) \/ StoreSecret(q) \/ ReturnSecret(q) \/ DisableKey(q)
      PROVE  Frozen
  <2>1. access[q].step \in {"guarded", "writing", "answering"} /\ access[q].op \in OwnerOps
    BY <1>3 DEF ReadTarget, UpdateOwner, SoftDelete, Invite, RemoveMember, StoreSecret,
                ReturnSecret, DisableKey, WsAt, OwnerOps
  <2> QED  BY <1>a, <2>1
<1>4. ASSUME NEW q \in WsRequests, AcceptInvitation(q) PROVE Frozen
  <2>1. /\ Target(q) \in Invitations /\ access[q].user \in Users
        /\ invitation[Target(q)].status # "none"
    BY <1>4, <1>t DEF AcceptInvitation, WsAt, WsTypeInv, TargetFits, InFlight
  <2>2. invitation[Target(q)].role # "none"
    BY <1>t, <2>1 DEF Invited
  <2>3. UNCHANGED <<workspace, apiKey>>
    BY <1>4 DEF AcceptInvitation
  <2>4. \A u \in Users : member[u] # "none" => member'[u] # "none"
    BY <1>4, <1>p, <2>1, <2>2 DEF AcceptInvitation, Join
  <2>5. \A i \in Invitations : invitation[i].status = "none" => invitation'[i].status = "none"
    BY <1>4, <1>p, <2>1 DEF AcceptInvitation, Invitation
  <2> QED  BY <2>3, <2>4, <2>5 DEF Frozen
<1>5. CASE Lapses
  <2>1. PICK i \in Invitations : invitation' = [invitation EXCEPT ![i].lapsed = TRUE]
    BY <1>5 DEF Lapses
  <2>2. \A j \in Invitations : invitation'[j].status = invitation[j].status
    BY <1>p, <2>1 DEF Invitation
  <2> QED  BY <1>5, <2>2 DEF Lapses, Frozen
<1>6. ASSUME NEW q \in WsRequests, MarkUsed(q) PROVE Frozen
  <2>1. Target(q) \in ApiKeys
    BY <1>6, <1>t DEF MarkUsed, WsAt, WsTypeInv, TargetFits, InFlight
  <2>2. \A k \in ApiKeys : /\ apiKey'[k].status = apiKey[k].status
                           /\ apiKey'[k].secret = apiKey[k].secret
    BY <1>6, <1>p, <2>1 DEF MarkUsed, ApiKey
  <2> QED  BY <1>6, <2>2 DEF MarkUsed, Frozen
<1>7. ASSUME NEW q \in WsRequests,
             \/ PassKeyGuard(q) \/ CrashAccess(q)
             \/ \E u \in Users : PassGuards(q, u) \/ FindInvitation(q, u)
      PROVE  Frozen
  BY <1>1, <1>7 DEF PassKeyGuard, CrashAccess, PassGuards, FindInvitation
<1>8. CASE DisableWorkspace
  BY <1>1, <1>8, <1>p DEF DisableWorkspace
<1>9. CASE UNCHANGED wsVars
  BY <1>1, <1>9 DEF wsVars
<1> QED
  BY <1>2, <1>3, <1>4, <1>5, <1>6, <1>7, <1>8, <1>9 DEF WsNext, WsProgress, WsStep, WsGoesOn

(* Requests that arrive after a workspace was disabled or deleted change   *)
(* nothing of it.                                                          *)
THEOREM InactiveFrozen == WsSpec => InactiveIsFrozen
<1> QED  BY WsInductive, FrozenStep, PTL DEF WsSpec, InactiveIsFrozen, Frozen

-----------------------------------------------------------------------------
(* The issue of an invoice                                                 *)

Serving(q) == upload[q] \notin {"idle", "ended"}

(* What an upload past the comparison has behind it.                       *)
StepsBehind ==
  \A q \in Uploads :
    /\ upload[q] \in {"saving", "issuing"} => q \in agreed
    /\ upload[q] = "issuing" => q \in stored

(* As long as no two uploads overlapped, the one that is served was let in *)
(* while the invoice was POSTED, and nothing has issued it since.          *)
AloneOnPosted ==
  ~uploadsOverlapped =>
    /\ \A p, q \in Uploads : Serving(p) /\ Serving(q) => p = q
    /\ \A q \in Uploads : Serving(q) => invoice.status = "POSTED"

IssueInv == InvoiceTypeOK /\ StepsBehind /\ AloneOnPosted /\ IssuedAsVerified

LEMMA IssueInit == InvoiceInit => IssueInv
<1> SUFFICES ASSUME InvoiceInit PROVE IssueInv
  OBVIOUS
<1>1. uploadFaults \in 0..MaxUploadFaults /\ issuances \in Nat /\ upload \in [Uploads -> UploadSteps]
  BY UploadBounds DEF InvoiceInit, UploadSteps
<1>2. invoice \in Invoice
  BY DEF InvoiceInit, Invoice
<1>3. InvoiceTypeOK
  BY <1>1, <1>2 DEF InvoiceInit, InvoiceTypeOK
<1>4. \A q \in Uploads : upload[q] = "idle"
  BY DEF InvoiceInit
<1>5. StepsBehind /\ AloneOnPosted
  BY <1>4 DEF StepsBehind, AloneOnPosted, Serving
<1>6. IssuedAsVerified
  BY DEF InvoiceInit, IssuedAsVerified
<1> QED  BY <1>3, <1>5, <1>6 DEF IssueInv

(* An upload that goes on from a step at which it is served to another, or *)
(* ends, leaves the others alone.                                          *)
LEMMA GoesOn ==
  ASSUME InvoiceTypeOK, NEW q \in Uploads, NEW step \in UploadSteps, UploadGoes(q, step)
  PROVE  /\ upload' \in [Uploads -> UploadSteps]
         /\ upload'[q] = step
         /\ \A p \in Uploads : p # q => upload'[p] = upload[p]
BY DEF InvoiceTypeOK, UploadGoes

(* No overlap so far, and the upload that begins is the only one.          *)
LEMMA BeginsAlone ==
  ASSUME IssueInv, NEW q \in Uploads, BeginUpload(q), ~uploadsOverlapped'
  PROVE  /\ ~uploadsOverlapped
         /\ \A p \in Uploads : ~Serving(p)
BY DEF BeginUpload, UploadsInFlight, Serving, IssueInv, InvoiceTypeOK

LEMMA IssueStep == IssueInv /\ [InvoiceNext]_uploadVars => IssueInv'
<1> SUFFICES ASSUME IssueInv, [InvoiceNext]_uploadVars PROVE IssueInv'
  OBVIOUS
<1> USE DEF IssueInv
<1>1. ASSUME NEW q \in Uploads, BeginUpload(q) PROVE IssueInv'
  <2> DEFINE next == IF Issuable THEN "extracting" ELSE "ended"
  <2>1. next \in UploadSteps /\ UploadGoes(q, next)
    BY <1>1 DEF BeginUpload, UploadSteps
  <2>2. /\ upload' \in [Uploads -> UploadSteps]
        /\ upload'[q] = next
        /\ \A p \in Uploads : p # q => upload'[p] = upload[p]
    BY <2>1, GoesOn
  <2>3. InvoiceTypeOK'
    BY <1>1, <2>2 DEF BeginUpload, InvoiceTypeOK
  <2>4. StepsBehind'
    BY <1>1, <2>2 DEF BeginUpload, StepsBehind
  <2>5. AloneOnPosted'
    <3> SUFFICES ASSUME ~uploadsOverlapped'
                 PROVE  /\ \A p, r \in Uploads : Serving(p)' /\ Serving(r)' => p = r
                        /\ \A p \in Uploads : Serving(p)' => invoice'.status = "POSTED"
      BY DEF AloneOnPosted
    <3>1. \A p \in Uploads : Serving(p)' => p = q /\ Issuable
      BY <1>1, <2>2, BeginsAlone DEF Serving
    <3>2. invoice' = invoice
      BY <1>1 DEF BeginUpload
    <3> QED  BY <3>1, <3>2 DEF Issuable
  <2>6. IssuedAsVerified'
    BY <1>1, BeginsAlone DEF BeginUpload, IssuedAsVerified
  <2> QED  BY <2>3, <2>4, <2>5, <2>6
<1>2. ASSUME NEW q \in Uploads, Extract(q) PROVE IssueInv'
  <2>1. PICK step \in {"saving", "failing"} :
          /\ UploadGoes(q, step)
          /\ agreed' = IF step = "saving" THEN agreed \cup {q} ELSE agreed
    BY <1>2 DEF Extract
  <2>2. /\ upload' \in [Uploads -> UploadSteps]
        /\ upload'[q] = step
        /\ \A p \in Uploads : p # q => upload'[p] = upload[p]
    BY <2>1, GoesOn DEF UploadSteps
  <2>3. upload[q] = "extracting"
    BY <1>2 DEF Extract, UploadAt
  <2>4. UNCHANGED <<invoice, stored, issuances, uploadsOverlapped, uploadFaults>>
    BY <1>2 DEF Extract, UploadAt
  <2>5. InvoiceTypeOK'
    BY <2>1, <2>2, <2>4 DEF InvoiceTypeOK
  <2>6. StepsBehind'
    BY <2>1, <2>2, <2>4 DEF StepsBehind
  <2>7. AloneOnPosted'
    BY <2>2, <2>3, <2>4 DEF AloneOnPosted, Serving
  <2>8. IssuedAsVerified'
    BY <2>1, <2>4 DEF IssuedAsVerified
  <2> QED  BY <2>5, <2>6, <2>7, <2>8
<1>3. ASSUME NEW q \in Uploads, RecordMismatch(q) PROVE IssueInv'
  <2>1. /\ upload' \in [Uploads -> UploadSteps]
        /\ upload'[q] = "ended"
        /\ \A p \in Uploads : p # q => upload'[p] = upload[p]
    BY <1>3, GoesOn DEF RecordMismatch, UploadSteps
  <2>2. Serving(q)
    BY <1>3 DEF RecordMismatch, UploadAt, Serving
  <2>3. /\ invoice' \in Invoice
        /\ invoice'.status = invoice.status /\ invoice'.pdf = invoice.pdf
    BY <1>3 DEF RecordMismatch, InvoiceTypeOK, Invoice
  <2>4. UNCHANGED <<stored, agreed, issuances, uploadsOverlapped, uploadFaults>>
    BY <1>3 DEF RecordMismatch, UploadAt
  <2>5. InvoiceTypeOK'
    BY <2>1, <2>3, <2>4 DEF InvoiceTypeOK
  <2>6. StepsBehind'
    BY <2>1, <2>4 DEF StepsBehind
  <2>7. AloneOnPosted'
    BY <2>1, <2>3, <2>4 DEF AloneOnPosted, Serving
  <2>8. IssuedAsVerified'
    BY <2>2, <2>3, <2>4 DEF IssuedAsVerified, AloneOnPosted
  <2> QED  BY <2>5, <2>6, <2>7, <2>8
<1>4. ASSUME NEW q \in Uploads, SavePdf(q) PROVE IssueInv'
  <2>1. /\ upload' \in [Uploads -> UploadSteps]
        /\ upload'[q] = "issuing"
        /\ \A p \in Uploads : p # q => upload'[p] = upload[p]
    BY <1>4, GoesOn DEF SavePdf, UploadSteps
  <2>2. upload[q] = "saving"
    BY <1>4 DEF SavePdf, UploadAt
  <2>3. /\ stored' = stored \cup {q}
        /\ UNCHANGED <<invoice, agreed, issuances, uploadsOverlapped, uploadFaults>>
    BY <1>4 DEF SavePdf, UploadAt
  <2>4. InvoiceTypeOK'
    BY <2>1, <2>2, <2>3 DEF InvoiceTypeOK, StepsBehind
  <2>5. StepsBehind'
    BY <2>1, <2>2, <2>3 DEF StepsBehind
  <2>6. AloneOnPosted'
    BY <2>1, <2>2, <2>3 DEF AloneOnPosted, Serving
  <2>7. IssuedAsVerified'
    BY <2>3 DEF IssuedAsVerified
  <2> QED  BY <2>4, <2>5, <2>6, <2>7
<1>5. ASSUME NEW q \in Uploads, IssueInvoice(q) PROVE IssueInv'
  <2>1. /\ upload' \in [Uploads -> UploadSteps]
        /\ upload'[q] = "ended"
        /\ \A p \in Uploads : p # q => upload'[p] = upload[p]
    BY <1>5, GoesOn DEF IssueInvoice, UploadSteps
  <2>2. upload[q] = "issuing"
    BY <1>5 DEF IssueInvoice, UploadAt
  <2>3. /\ invoice' = [status |-> "ISSUED", pdf |-> q, result |-> "pass", verified |-> q]
        /\ issuances' = issuances + 1
        /\ UNCHANGED <<stored, agreed, uploadsOverlapped, uploadFaults>>
    BY <1>5 DEF IssueInvoice, UploadAt
  <2>4. InvoiceTypeOK'
    BY <2>1, <2>3 DEF InvoiceTypeOK, Invoice
  <2>5. StepsBehind'
    BY <2>1, <2>3 DEF StepsBehind
  <2>6. AloneOnPosted'
    BY <2>1, <2>2, <2>3 DEF AloneOnPosted, Serving
  <2>7. ~uploadsOverlapped => issuances = 0
    BY <2>2 DEF AloneOnPosted, Serving, IssuedAsVerified, InvoiceTypeOK
  <2>8. IssuedAsVerified'
    BY <2>2, <2>3, <2>7 DEF IssuedAsVerified, StepsBehind, InvoiceTypeOK
  <2> QED  BY <2>4, <2>5, <2>6, <2>8
<1>6. ASSUME NEW q \in Uploads, CrashUpload(q) PROVE IssueInv'
  <2>1. /\ upload' \in [Uploads -> UploadSteps]
        /\ upload'[q] = "ended"
        /\ \A p \in Uploads : p # q => upload'[p] = upload[p]
    BY <1>6, GoesOn DEF CrashUpload, UploadSteps
  <2>2. /\ uploadFaults' \in 0..MaxUploadFaults
        /\ UNCHANGED <<invoice, stored, agreed, issuances, uploadsOverlapped>>
    BY <1>6, UploadBounds DEF CrashUpload, UploadFault, InvoiceTypeOK
  <2>3. InvoiceTypeOK'
    BY <2>1, <2>2 DEF InvoiceTypeOK
  <2>4. StepsBehind' /\ AloneOnPosted'
    BY <2>1, <2>2 DEF StepsBehind, AloneOnPosted, Serving
  <2>5. IssuedAsVerified'
    BY <2>2 DEF IssuedAsVerified
  <2> QED  BY <2>3, <2>4, <2>5
<1>7. CASE UNCHANGED uploadVars
  BY <1>7 DEF uploadVars, InvoiceTypeOK, StepsBehind, AloneOnPosted, Serving, IssuedAsVerified
<1> QED  BY <1>1, <1>2, <1>3, <1>4, <1>5, <1>6, <1>7 DEF InvoiceNext, UploadStep

(* verifyAndIssueInvoicePdf: an issued invoice shows a stored PDF that     *)
(* agreed with the billing; unless uploads overlapped it was issued once   *)
(* and its verification is that of the PDF it shows, whatever crashes.     *)
THEOREM IssuesAreVerified == InvoiceSpec => [](InvoiceTypeOK /\ IssuedAsVerified)
<1>1. IssueInv => InvoiceTypeOK /\ IssuedAsVerified
  BY DEF IssueInv
<1> QED  BY <1>1, IssueInit, IssueStep, PTL DEF InvoiceSpec

-----------------------------------------------------------------------------
(* What an invoice is compared with                                        *)

(* A text includes itself.                                                 *)
LEMMA SameTextMatches ==
  ASSUME NEW v, NEW w, v.content \in Seq(Words), w.content = v.content
  PROVE  TextMatches(v, w) <=> v.content # <<>>
<1> DEFINE s == v.content
<1>1. s \in Seq(Words) /\ Len(s) \in Nat
  OBVIOUS
<1>2. SubSeq(s, 1, Len(s)) = s
  <2>1. \A t \in Seq(Words) : SubSeq(t, 1, Len(t)) = t
    OBVIOUS
  <2> QED  BY <1>1, <2>1
<1>3. Includes(s, s)
  <2>1. 0 \in 0..(Len(s) - Len(s))
    BY <1>1
  <2>2. SubSeq(s, 0 + 1, 0 + Len(s)) = s
    BY <1>1, <1>2
  <2> QED  BY <2>1, <2>2 DEF Includes
<1> QED  BY <1>3 DEF TextMatches, NormalizeText

LEMMA AbsentMatchesNone ==
  ASSUME NEW v
  PROVE  ~TextMatches(v, Absent) /\ ~TextMatches(Absent, v)
BY DEF TextMatches, NormalizeText, Absent

LEMMA LocalIsStable ==
  ASSUME NEW s \in Seq(Words)
  PROVE  /\ Local(s) \in Seq(Words)
         /\ Local(Local(s)) = Local(s)
         /\ Local(s) = <<>> <=> s = <<>>
<1>1. CASE s # <<>> /\ Head(s) = "84"
  <2>1. Tail(s) \in Seq(Words) /\ <<"0">> \in Seq(Words)
    BY <1>1, BuyersAreTyped
  <2>2. <<"0">> \o Tail(s) \in Seq(Words)
    BY <2>1
  <2>3. Len(<<"0">> \o Tail(s)) = 1 + Len(Tail(s)) /\ (<<"0">> \o Tail(s))[1] = "0"
    BY <2>1
  <2>4. <<"0">> \o Tail(s) # <<>> /\ Head(<<"0">> \o Tail(s)) # "84"
    BY <2>1, <2>2, <2>3
  <2>5. Local(s) = <<"0">> \o Tail(s)
    BY <1>1 DEF Local
  <2> QED  BY <1>1, <2>2, <2>4, <2>5 DEF Local
<1>2. CASE ~(s # <<>> /\ Head(s) = "84")
  BY <1>2 DEF Local
<1> QED  BY <1>1, <1>2

LEMMA PrintedKeeps ==
  ASSUME NEW v, v.content \in Seq(Words), NEW f \in BillingFields
  PROVE  /\ Printed(f, v).content \in Seq(Words)
         /\ f # "phone" => Printed(f, v).content = v.content
         /\ f = "phone" => NormalizePhone(Printed(f, v)) = NormalizePhone(v)
<1>1. Local(v.content) \in Seq(Words) /\ Local(Local(v.content)) = Local(v.content)
  BY LocalIsStable
<1>2. CASE v = Absent
  BY <1>2 DEF Printed
<1>3. CASE v # Absent
  <2>1. f = "phone" => Printed(f, v).content = Local(v.content)
    BY <1>3 DEF Printed
  <2>2. f = "phone" => NormalizePhone(Printed(f, v)) = NormalizePhone(v)
    BY <2>1, <1>1 DEF NormalizePhone, NormalizeTaxCode
  <2>3. f # "phone" => Printed(f, v).content = v.content
    BY <1>3 DEF Printed
  <2> QED  BY <1>1, <2>1, <2>2, <2>3
<1> QED  BY <1>2, <1>3

(* Rounding up or down moves a sum by less than a dong.                    *)
LEMMA PrintedSums ==
  ASSUME NEW v \in Nat
  PROVE  AmountMatches(v, Down(v)) /\ AmountMatches(v, Up(v))
<1>1. /\ Down(v) \in Nat /\ Up(v) \in Nat
      /\ Rounded(Down(v)) = v \div 100
      /\ Rounded(Up(v)) = (v + 99) \div 100
  BY DEF Down, Up, Rounded
<1>2. Rounded(v) - (v \div 100) \in -1..1
  BY DEF Rounded
<1>3. Rounded(v) - ((v + 99) \div 100) \in -1..1
  BY DEF Rounded
<1> QED  BY <1>1, <1>2, <1>3 DEF AmountMatches, Missing

LEMMA WholeSums ==
  ASSUME NEW a \in Nat, NEW b \in Nat, 100 * b - a * 100 \notin -100..100
  PROVE  ~AmountMatches(100 * a, Down(100 * b)) /\ ~AmountMatches(100 * a, Up(100 * b))
BY DEF AmountMatches, Down, Up, Rounded

HasWords(billing) == \A f \in BillingFields : billing[f].content \in Seq(Words)

PostedFits ==
  posted # NoInvoice =>
    /\ HasWords(posted.billing)
    /\ posted.topupRate \in Nat
    /\ \E excl \in Nat : /\ posted.amountExclVat = 100 * excl
                         /\ posted.vatAmount = posted.topupRate * excl
                         /\ posted.amountInclVat = (100 + posted.topupRate) * excl

NeededIf(number) ==
  Required(posted.type) \cup AmountFields \cup {"lineItemName"} \cup
  {f \in {"phone"} : posted.billing[f].content # <<>>} \cup
  {f \in {"invoiceNumber"} : number # Missing}

LEMMA PrintedAmount ==
  ASSUME NEW sums, NEW amounts \in Prints(sums), NEW f \in AmountFields
  PROVE  amounts[f] \in {Up(sums[f]), Down(sums[f])}
BY DEF Prints

(* The billing part of the PDF made out to the profile of the invoice.     *)
LEMMA OwnBilling ==
  ASSUME HasWords(posted.billing), Legible, NEW missed, NEW found,
         \A f \in BillingFields :
           found[f] = IF f \in missed THEN Absent ELSE Printed(f, posted.billing[f])
  PROVE  BillingMismatches(posted, found) = {} <=>
           /\ missed \cap Required(posted.type) = {}
           /\ posted.billing["phone"].content # <<>> => "phone" \notin missed
<1> DEFINE expected == posted.billing
           named == IF posted.type = "ORGANIZATION" THEN "companyName" ELSE "fullName"
           textsAgree == \A f \in {named, "address", "invoiceEmail"} :
                           TextMatches(expected[f], found[f])
           codesAgree == \A f \in {"taxCode", "citizenId"} :
             (f = "citizenId" => posted.type # "ORGANIZATION" /\ expected[f] # Absent)
               => NormalizeTaxCode(expected[f]) = NormalizeTaxCode(found[f])
           phoneAgrees == ~(/\ expected["phone"] # Absent
                            /\ NormalizePhone(expected["phone"]) # NormalizePhone(found["phone"]))
           textsRead == \A f \in {named, "address", "invoiceEmail"} : f \notin missed
           codesRead == /\ "taxCode" \notin missed
                        /\ posted.type # "ORGANIZATION" => "citizenId" \notin missed
           phoneRead == expected["phone"].content # <<>> => "phone" \notin missed
<1>1. \A f \in {named, "address", "invoiceEmail", "taxCode"} :
        f \in BillingFields /\ f \in Required(posted.type) /\ expected[f].content # <<>>
  BY DEF BillingFields, Required, Legible
<1>2. "phone" \in BillingFields /\ "citizenId" \in BillingFields
  BY DEF BillingFields
<1>3. posted.type # "ORGANIZATION" =>
        expected["citizenId"].content # <<>> /\ expected["phone"].content # <<>>
  BY DEF Required, Legible
<1>4. ASSUME NEW f \in {named, "address", "invoiceEmail"}
      PROVE  TextMatches(expected[f], found[f]) <=> f \notin missed
  <2>1. f \in BillingFields /\ expected[f].content \in Seq(Words) /\ expected[f].content # <<>>
    BY <1>1 DEF HasWords
  <2>2. CASE f \in missed
    BY <2>1, <2>2, AbsentMatchesNone
  <2>3. CASE f \notin missed
    <3>1. found[f].content = expected[f].content
      <4>1. f # "phone"
        OBVIOUS
      <4> QED  BY <2>1, <2>3, <4>1, PrintedKeeps
    <3> QED  BY <2>1, <2>3, <3>1, SameTextMatches
  <2> QED  BY <2>2, <2>3
<1>5. ASSUME NEW f \in {"taxCode", "citizenId"}, expected[f].content # <<>>
      PROVE  NormalizeTaxCode(expected[f]) = NormalizeTaxCode(found[f]) <=> f \notin missed
  <2>1. f \in BillingFields /\ expected[f].content \in Seq(Words)
    BY <1>1, <1>2 DEF HasWords
  <2>2. f \in missed => found[f].content = <<>>
    BY <2>1 DEF Absent
  <2>3. f \notin missed => found[f].content = expected[f].content
    BY <2>1, PrintedKeeps
  <2> QED  BY <1>5, <2>2, <2>3 DEF NormalizeTaxCode
<1>6. expected["citizenId"].content # <<>> => expected["citizenId"] # Absent
  BY DEF Absent
<1>7. phoneAgrees <=> phoneRead
  <2>1. expected["phone"].content \in Seq(Words)
    BY <1>2 DEF HasWords
  <2>2. "phone" \notin missed =>
          NormalizePhone(expected["phone"]) = NormalizePhone(found["phone"])
    BY <1>2, <2>1, PrintedKeeps
  <2>3. "phone" \in missed => NormalizePhone(found["phone"]) = <<>>
    BY <1>2 DEF Absent, NormalizePhone, NormalizeTaxCode, Local
  <2>4. NormalizePhone(expected["phone"]) = <<>> <=> expected["phone"].content = <<>>
    BY <2>1, LocalIsStable DEF NormalizePhone, NormalizeTaxCode
  <2>5. expected["phone"].content # <<>> => expected["phone"] # Absent
    BY DEF Absent
  <2> QED  BY <2>2, <2>3, <2>4, <2>5
<1>8. BillingMismatches(posted, found) = {} <=> textsAgree /\ codesAgree /\ phoneAgrees
  BY DEF BillingMismatches
<1>9. textsAgree <=> textsRead
  BY <1>4
<1>10. codesAgree <=> codesRead
  BY <1>1, <1>3, <1>5, <1>6
<1>11. /\ missed \cap Required(posted.type) = {} => textsRead /\ codesRead
       /\ textsRead /\ codesRead /\ phoneRead => missed \cap Required(posted.type) = {}
  BY <1>3 DEF Required
<1>12. phoneRead <=> (posted.billing["phone"].content # <<>> => "phone" \notin missed)
  OBVIOUS
<1> HIDE DEF expected, named, textsAgree, codesAgree, phoneAgrees, textsRead, codesRead, phoneRead
<1> QED  BY <1>7, <1>8, <1>9, <1>10, <1>11, <1>12

LEMMA MissingIsNoNumber ==
  (\A n \in Nat : Missing # n) /\ Missing # 1 /\ Missing # 2 /\ 1 # 2
BY DEF Missing

(* The item of the invoice, and no item.                                   *)
LEMMA TopupIsAnItem ==
  /\ LineItemNameMatches([content |-> <<"topup">>, typed |-> "as printed"])
  /\ ~LineItemNameMatches(Absent)
<1> DEFINE topup == [content |-> <<"topup">>, typed |-> "as printed"]
<1>1. topup.content = <<"topup">>
  OBVIOUS
<1>2. 1 \in DOMAIN topup.content /\ topup.content[1] \in LineItems
  BY <1>1 DEF LineItems
<1>3. Absent.content = <<>>
  BY DEF Absent
<1>4. DOMAIN Absent.content = {}
  BY <1>3
<1> HIDE DEF topup
<1>5. LineItemNameMatches(topup) /\ ~LineItemNameMatches(Absent)
  BY <1>2, <1>4 DEF LineItemNameMatches
<1> QED  BY <1>5 DEF topup

SumsArePosted(sums) == \A f \in AmountFields : sums[f] = posted[f] /\ posted[f] \in Nat

CommercialIsRead(r, missed, amounts) ==
  /\ \A f \in AmountFields : r.amounts[f] = IF f \in missed THEN Missing ELSE amounts[f]
  /\ r.vatRate = IF "vatRate" \in missed THEN Missing ELSE posted.topupRate
  /\ r.lineItemName = IF "lineItemName" \in missed THEN Absent
                      ELSE [content |-> <<"topup">>, typed |-> "as printed"]
  /\ r.invoiceNumber = IF "invoiceNumber" \in missed THEN Missing ELSE 1
  /\ r.issueDate = IF "issueDate" \in missed THEN Missing ELSE 1

(* The sums of the invoice, printed, agree with it.                        *)
LEMMA OwnCommercial ==
  ASSUME NEW missed, NEW number \in {Missing, 1, 2}, NEW sums, NEW amounts \in Prints(sums), NEW r,
         posted.topupRate \in Nat, SumsArePosted(sums), CommercialIsRead(r, missed, amounts)
  PROVE  CommercialMismatches(posted, r, number) = {} <=>
           /\ missed \cap (AmountFields \cup {"lineItemName"}) = {}
           /\ number # Missing => "invoiceNumber" \notin missed
           /\ number \in {Missing, 1}
           /\ posted.topupRate = posted.vatRate \/ "vatRate" \in missed
<1>1. ASSUME NEW f \in AmountFields
      PROVE  AmountMatches(posted[f], r.amounts[f]) <=> f \notin missed
  <2>0. sums[f] = posted[f] /\ posted[f] \in Nat
    BY Zenon DEF SumsArePosted
  <2>1. amounts[f] \in {Up(posted[f]), Down(posted[f])}
    BY <2>0, PrintedAmount, Zenon
  <2>2. AmountMatches(posted[f], amounts[f])
    BY <2>0, <2>1, PrintedSums, Zenon
  <2>3. ~AmountMatches(posted[f], Missing)
    BY DEF AmountMatches
  <2>4. r.amounts[f] = IF f \in missed THEN Missing ELSE amounts[f]
    BY Zenon DEF CommercialIsRead
  <2> QED  BY <2>2, <2>3, <2>4, Zenon
<1>0. /\ Missing # posted.topupRate
      /\ Missing # 1 /\ Missing # 2 /\ 1 # 2
  BY MissingIsNoNumber, Zenon
<1>2. r.vatRate # Missing /\ r.vatRate # posted.vatRate <=>
        "vatRate" \notin missed /\ posted.topupRate # posted.vatRate
  BY <1>0, Zenon DEF CommercialIsRead
<1>3. LineItemNameMatches(r.lineItemName) <=> "lineItemName" \notin missed
  BY TopupIsAnItem, Zenon DEF CommercialIsRead
<1>4. (number # Missing /\ number # r.invoiceNumber) <=>
        number # Missing /\ ("invoiceNumber" \in missed \/ number = 2)
  BY <1>0, Zenon DEF CommercialIsRead
<1>5. number # Missing /\ r.issueDate # Missing /\ number # r.issueDate => number = 2
  BY Zenon DEF CommercialIsRead
<1>6. number \in {Missing, 1} <=> number # 2
  BY <1>0, Zenon DEF CommercialIsRead
<1>7. CommercialMismatches(posted, r, number) = {} <=>
        /\ \A f \in AmountFields : AmountMatches(posted[f], r.amounts[f])
        /\ ~(r.vatRate # Missing /\ r.vatRate # posted.vatRate)
        /\ LineItemNameMatches(r.lineItemName)
        /\ ~(number # Missing /\ number # r.invoiceNumber)
        /\ ~(number # Missing /\ r.issueDate # Missing /\ number # r.issueDate)
  BY DEF CommercialMismatches
<1>8. (\A f \in AmountFields : AmountMatches(posted[f], r.amounts[f]))
        <=> missed \cap AmountFields = {}
  BY <1>1
<1> QED  BY <1>2, <1>3, <1>4, <1>5, <1>6, <1>7, <1>8

(* What is read of the PDF made out to the profile, for the sums paid.     *)
LEMMA OwnMismatches ==
  ASSUME PostedFits, posted # NoInvoice, Legible, NEW missed, NEW number \in {Missing, 1, 2},
         NEW paid \in Nat, 100 * paid = posted.amountExclVat,
         NEW amounts \in Prints(Sums(paid, posted.topupRate))
  PROVE  BuildInvoicePdfMismatches(posted, Read(posted.billing, missed, amounts), number) = {} <=>
           /\ missed \cap NeededIf(number) = {}
           /\ number \in {Missing, 1}
           /\ posted.topupRate = posted.vatRate \/ "vatRate" \in missed
<1> DEFINE r == Read(posted.billing, missed, amounts)
           sums == Sums(paid, posted.topupRate)
<1>1. HasWords(posted.billing) /\ posted.topupRate \in Nat
  BY DEF PostedFits
<1>2. SumsArePosted(sums)
  <2>1. PICK excl \in Nat : /\ posted.amountExclVat = 100 * excl
                            /\ posted.vatAmount = posted.topupRate * excl
                            /\ posted.amountInclVat = (100 + posted.topupRate) * excl
    BY DEF PostedFits
  <2>2. paid = excl
    BY <2>1
  <2>3. \A a, b \in Nat : a * b \in Nat /\ (100 + a) * b \in Nat /\ 100 * b \in Nat
    OBVIOUS
  <2>4. /\ sums["amountExclVat"] = 100 * paid
        /\ sums["vatAmount"] = posted.topupRate * paid
        /\ sums["amountInclVat"] = (100 + posted.topupRate) * paid
    BY DEF Sums
  <2>5. \A f \in AmountFields : f = "amountExclVat" \/ f = "vatAmount" \/ f = "amountInclVat"
    BY DEF AmountFields
  <2> HIDE DEF sums
  <2>6. 100 * paid \in Nat /\ posted.topupRate * paid \in Nat /\ (100 + posted.topupRate) * paid \in Nat
    BY <1>1, <2>3, Zenon
  <2> QED  BY <2>1, <2>2, <2>4, <2>5, <2>6, Zenon DEF SumsArePosted
<1>3. \A f \in BillingFields :
        r.billing[f] = IF f \in missed THEN Absent ELSE Printed(f, posted.billing[f])
  BY DEF Read
<1>4. CommercialIsRead(r, missed, amounts)
  BY DEF Read, CommercialIsRead
<1>5. amounts \in Prints(sums)
  OBVIOUS
<1> HIDE DEF r, sums
<1>6. BillingMismatches(posted, r.billing) = {} <=>
        /\ missed \cap Required(posted.type) = {}
        /\ posted.billing["phone"].content # <<>> => "phone" \notin missed
  BY <1>1, <1>3, OwnBilling, Zenon
<1>7. CommercialMismatches(posted, r, number) = {} <=>
        /\ missed \cap (AmountFields \cup {"lineItemName"}) = {}
        /\ number # Missing => "invoiceNumber" \notin missed
        /\ number \in {Missing, 1}
        /\ posted.topupRate = posted.vatRate \/ "vatRate" \in missed
  BY <1>1, <1>2, <1>4, <1>5, OwnCommercial, Zenon
<1>8. BuildInvoicePdfMismatches(posted, r, number) = {} <=>
        BillingMismatches(posted, r.billing) = {} /\ CommercialMismatches(posted, r, number) = {}
  BY DEF BuildInvoicePdfMismatches
<1>9. missed \cap NeededIf(number) = {} <=>
        /\ missed \cap Required(posted.type) = {}
        /\ posted.billing["phone"].content # <<>> => "phone" \notin missed
        /\ missed \cap (AmountFields \cup {"lineItemName"}) = {}
        /\ number # Missing => "invoiceNumber" \notin missed
  BY Zenon DEF NeededIf
<1>10. BuildInvoicePdfMismatches(posted, r, number) = {} <=>
           /\ missed \cap NeededIf(number) = {}
           /\ number \in {Missing, 1}
           /\ posted.topupRate = posted.vatRate \/ "vatRate" \in missed
  BY <1>6, <1>7, <1>8, <1>9, Zenon
<1> QED  BY <1>10 DEF r

(* An invoice without a billing profile agrees with no PDF.                *)
LEMMA NoProfileMismatches ==
  ASSUME posted.billing = NoProfile, NEW r, NEW number
  PROVE  BuildInvoicePdfMismatches(posted, r, number) # {}
<1>1. NoProfile["address"] = Absent
  BY DEF NoProfile, BillingFields
<1>2. "address" \in BillingMismatches(posted, r.billing)
  BY <1>1, AbsentMatchesNone DEF BillingMismatches
<1> QED  BY <1>2 DEF BuildInvoicePdfMismatches

LEMMA OtherTaxCode ==
  ASSUME HasWords(posted.billing), Legible, NEW buyer, HasWords(buyer), NEW missed, NEW found,
         found["taxCode"] = IF "taxCode" \in missed THEN Absent ELSE Printed("taxCode", buyer["taxCode"]),
         NormalizeTaxCode(buyer.taxCode) # NormalizeTaxCode(posted.billing.taxCode)
  PROVE  "taxCode" \in BillingMismatches(posted, found)
<1>1. "taxCode" \in BillingFields /\ posted.billing["taxCode"].content # <<>>
  BY DEF BillingFields, Legible, Required
<1>2. buyer["taxCode"].content \in Seq(Words)
  BY <1>1 DEF HasWords
<1>3. Printed("taxCode", buyer["taxCode"]).content = buyer["taxCode"].content
  BY <1>1, <1>2, PrintedKeeps
<1>4. found["taxCode"].content # posted.billing["taxCode"].content
  BY <1>1, <1>3 DEF NormalizeTaxCode, Absent
<1> QED  BY <1>4 DEF BillingMismatches, NormalizeTaxCode

LEMMA OtherSum ==
  ASSUME PostedFits, posted # NoInvoice, NEW missed, NEW r, NEW paid \in Nat, NEW number,
         100 * paid - posted.amountExclVat \notin -100..100,
         NEW amounts \in Prints(Sums(paid, posted.topupRate)),
         r.amounts["amountExclVat"] =
           IF "amountExclVat" \in missed THEN Missing ELSE amounts["amountExclVat"]
  PROVE  "amountExclVat" \in CommercialMismatches(posted, r, number)
<1>1. "amountExclVat" \in AmountFields
  BY DEF AmountFields
<1>2. Sums(paid, posted.topupRate)["amountExclVat"] = 100 * paid
  BY DEF Sums
<1>3. amounts["amountExclVat"] \in {Up(100 * paid), Down(100 * paid)}
  BY <1>1, <1>2, PrintedAmount
<1>4. PICK excl \in Nat : posted["amountExclVat"] = 100 * excl
  BY DEF PostedFits
<1>5. 100 * paid - excl * 100 \notin -100..100
  BY <1>4
<1>6. ~AmountMatches(posted["amountExclVat"], amounts["amountExclVat"])
  BY <1>3, <1>4, <1>5, WholeSums
<1>7. ~AmountMatches(posted["amountExclVat"], Missing)
  BY DEF AmountMatches
<1> QED  BY <1>1, <1>6, <1>7 DEF CommercialMismatches

LEMMA OthersMismatches ==
  ASSUME PostedFits, posted # NoInvoice, Legible, NEW buyer, HasWords(buyer), NEW missed, NEW number,
         NEW paid \in Nat, NEW amounts \in Prints(Sums(paid, posted.topupRate)),
         \/ NormalizeTaxCode(buyer.taxCode) # NormalizeTaxCode(posted.billing.taxCode)
         \/ 100 * paid - posted.amountExclVat \notin -100..100
  PROVE  BuildInvoicePdfMismatches(posted, Read(buyer, missed, amounts), number) # {}
<1> DEFINE r == Read(buyer, missed, amounts)
<1>1. /\ r.billing["taxCode"] = IF "taxCode" \in missed THEN Absent ELSE Printed("taxCode", buyer["taxCode"])
      /\ r.amounts["amountExclVat"] =
           IF "amountExclVat" \in missed THEN Missing ELSE amounts["amountExclVat"]
  BY DEF Read, BillingFields, AmountFields
<1>2. HasWords(posted.billing)
  BY DEF PostedFits
<1> HIDE DEF r
<1>3. CASE NormalizeTaxCode(buyer.taxCode) # NormalizeTaxCode(posted.billing.taxCode)
  <2>1. "taxCode" \in BillingMismatches(posted, r.billing)
    BY <1>1, <1>2, <1>3, OtherTaxCode, Zenon
  <2>2. BuildInvoicePdfMismatches(posted, r, number) # {}
    BY <2>1 DEF BuildInvoicePdfMismatches
  <2> QED  BY <2>2 DEF r
<1>4. CASE 100 * paid - posted.amountExclVat \notin -100..100
  <2>1. "amountExclVat" \in CommercialMismatches(posted, r, number)
    BY <1>1, <1>4, OtherSum, Zenon
  <2>2. BuildInvoicePdfMismatches(posted, r, number) # {}
    BY <2>1 DEF BuildInvoicePdfMismatches
  <2> QED  BY <2>2 DEF r
<1> QED  BY <1>3, <1>4, Zenon

ComparisonInv ==
  /\ ComparisonTypeOK
  /\ DOMAIN profile = BillingFields \cup {"type"}
  /\ HasWords(profile)
  /\ PostedFits
  /\ comparison.made => posted # NoInvoice
  /\ OwnPdfPasses
  /\ OthersPdfFails

LEMMA ComparisonStarts == ComparisonInit => ComparisonInv
<1> SUFFICES ASSUME ComparisonInit PROVE ComparisonInv
  OBVIOUS
<1>1. ComparisonTypeOK /\ DOMAIN profile = BillingFields \cup {"type"}
  BY DEF ComparisonInit, ComparisonTypeOK, NoProfile, NoInvoice, NotCompared, BillingFields
<1>2. HasWords(profile)
  <2>1. <<>> \in Seq(Words) /\ Absent.content = <<>>
    BY DEF Absent
  <2>2. \A f \in BillingFields : profile[f] = Absent
    BY DEF ComparisonInit, NoProfile, BillingFields
  <2> QED  BY <2>1, <2>2 DEF HasWords
<1>3. posted = NoInvoice /\ ~comparison.made
  BY DEF ComparisonInit, NotCompared
<1> QED  BY <1>1, <1>2, <1>3 DEF ComparisonInv, PostedFits, OwnPdfPasses, OthersPdfFails

(* The properties of a comparison are about the invoice and the comparison. *)
LEMMA SameComparison ==
  ASSUME OwnPdfPasses, OthersPdfFails, UNCHANGED <<posted, comparison>>
  PROVE  OwnPdfPasses' /\ OthersPdfFails'
<1>1. posted' = posted /\ comparison' = comparison
  OBVIOUS
<1>2. Legible' <=> Legible
  BY <1>1 DEF Legible
<1>3. Needed' = Needed
  BY <1>1 DEF Needed
<1> QED  BY <1>1, <1>2, <1>3 DEF OwnPdfPasses, OthersPdfFails

(* Saving a profile gives it the type that was sent.                       *)
LEMMA ProfileStep ==
  ASSUME ComparisonInv, SaveProfile
  PROVE  ComparisonInv'
<1>1. PICK buyer \in Buyers :
        profile' = [f \in DOMAIN profile |->
                      IF f \in BillingFields /\ buyer[f] = Absent THEN profile[f] ELSE buyer[f]]
  BY DEF SaveProfile
<1>2. "type" \in DOMAIN profile /\ "type" \notin BillingFields
  BY DEF ComparisonInv, BillingFields
<1>3. profile'["type"] = buyer["type"]
  BY <1>1, <1>2
<1>4. profile'.type \in {"ORGANIZATION", "INDIVIDUAL"}
  BY <1>3, BuyersAreTyped
<1>5. DOMAIN profile' = BillingFields \cup {"type"}
  BY <1>1 DEF ComparisonInv
<1>6. HasWords(profile')
  <2> SUFFICES ASSUME NEW f \in BillingFields PROVE profile'[f].content \in Seq(Words)
    BY DEF HasWords
  <2>1. profile'[f] \in {profile[f], buyer[f]}
    BY <1>1 DEF ComparisonInv
  <2> QED  BY <2>1, BuyersAreTyped DEF ComparisonInv, HasWords
<1>7. UNCHANGED <<posted, comparison>>
  BY DEF SaveProfile
<1>8. OwnPdfPasses' /\ OthersPdfFails'
  BY <1>7, SameComparison DEF ComparisonInv
<1>9. PostedFits'
  BY <1>7 DEF ComparisonInv, PostedFits
<1>10. ComparisonTypeOK' /\ (comparison'.made => posted' # NoInvoice)
  BY <1>4, <1>7 DEF ComparisonInv, ComparisonTypeOK
<1> QED  BY <1>5, <1>6, <1>8, <1>9, <1>10 DEF ComparisonInv, HasWords

LEMMA PostStep ==
  ASSUME ComparisonInv, PostInvoice
  PROVE  ComparisonInv'
<1>1. PICK excl \in Amounts, rate \in VatRates :
        /\ posted'.type = IF profile = NoProfile THEN "INDIVIDUAL" ELSE profile.type
        /\ posted'.billing = profile
        /\ posted'.topupRate = rate
        /\ posted'.amountExclVat = 100 * excl
        /\ posted'.vatAmount = rate * excl
        /\ posted'.amountInclVat = (100 + rate) * excl
  BY DEF PostInvoice, Sums
<1>2. excl \in Nat /\ rate \in Nat /\ 100 + rate \in Nat
  BY ComparisonBounds
<1>3. (100 + rate) * excl \in Nat
  <2>1. \A a, b \in Nat : a * b \in Nat
    OBVIOUS
  <2> QED  BY <1>2, <2>1
<1>4. posted'.type \in {"ORGANIZATION", "INDIVIDUAL"}
  BY <1>1 DEF ComparisonInv, ComparisonTypeOK
<1>5. UNCHANGED <<profile, comparison>> /\ posted = NoInvoice
  BY DEF PostInvoice
<1>6. ComparisonTypeOK'
  BY <1>1, <1>3, <1>4, <1>5 DEF ComparisonInv, ComparisonTypeOK
<1>7. HasWords(profile)' /\ HasWords(posted'.billing)
  BY <1>1, <1>5 DEF ComparisonInv, HasWords
<1>8. PostedFits'
  BY <1>1, <1>2, <1>7, Zenon DEF PostedFits, HasWords
<1>9. ~comparison'.made
  BY <1>5 DEF ComparisonInv
<1> QED  BY <1>5, <1>6, <1>7, <1>8, <1>9 DEF ComparisonInv, OwnPdfPasses, OthersPdfFails

LEMMA CompareStep ==
  ASSUME ComparisonInv, Compare
  PROVE  ComparisonInv'
<1>0. PICK buyer \in Buyers \cup {posted.billing}, paid \in Amounts, number \in {Missing, 1, 2},
           missed \in SUBSET (BillingFields \cup CommercialFields) :
        \E amounts \in Prints(Sums(paid, posted.topupRate)) :
          LET mismatches == BuildInvoicePdfMismatches(posted, Read(buyer, missed, amounts), number)
          IN  comparison' = [made |-> TRUE, buyer |-> buyer, paid |-> paid, missed |-> missed,
                             entered |-> number, passed |-> mismatches = {}]
  BY Zenon DEF Compare
<1>1. PICK amounts \in Prints(Sums(paid, posted.topupRate)) :
        LET mismatches == BuildInvoicePdfMismatches(posted, Read(buyer, missed, amounts), number)
        IN  comparison' = [made |-> TRUE, buyer |-> buyer, paid |-> paid, missed |-> missed,
                           entered |-> number, passed |-> mismatches = {}]
  BY <1>0, Zenon
<1> DEFINE agrees == BuildInvoicePdfMismatches(posted, Read(buyer, missed, amounts), number) = {}
<1>2. /\ comparison' = [made |-> TRUE, buyer |-> buyer, paid |-> paid, missed |-> missed,
                        entered |-> number, passed |-> agrees]
      /\ agrees \in BOOLEAN
  BY <1>1
<1> HIDE DEF agrees
<1>3. /\ comparison'.buyer = buyer /\ comparison'.paid = paid /\ comparison'.missed = missed
      /\ comparison'.entered = number /\ comparison'.passed = agrees
  BY <1>2
<1>4. UNCHANGED <<profile, posted>> /\ posted # NoInvoice
  BY DEF Compare
<1>5. ComparisonTypeOK'
  BY <1>2, <1>3, <1>4 DEF ComparisonInv, ComparisonTypeOK
<1>6. HasWords(profile)' /\ PostedFits' /\ PostedFits
  BY <1>4 DEF ComparisonInv, HasWords, PostedFits
<1>7. HasWords(buyer) /\ paid \in Nat
  BY <1>4, BuyersAreTyped, ComparisonBounds DEF ComparisonInv, HasWords, PostedFits
<1>8. Legible' <=> Legible
  BY <1>4 DEF Legible
<1>9. Needed' = NeededIf(number)
  BY <1>3, <1>4 DEF Needed, NeededIf
<1>10. buyer = posted.billing /\ 100 * paid = posted.amountExclVat =>
         /\ posted.billing = NoProfile => ~agrees
         /\ Legible => (agrees <=> /\ missed \cap NeededIf(number) = {}
                                   /\ number \in {Missing, 1}
                                   /\ posted.topupRate = posted.vatRate \/ "vatRate" \in missed)
  <2>1. posted.billing = NoProfile => ~agrees
    BY NoProfileMismatches, Zenon DEF agrees
  <2>2. ASSUME buyer = posted.billing, 100 * paid = posted.amountExclVat, Legible
        PROVE  agrees <=> /\ missed \cap NeededIf(number) = {}
                          /\ number \in {Missing, 1}
                          /\ posted.topupRate = posted.vatRate \/ "vatRate" \in missed
    <3>1. /\ PostedFits /\ posted # NoInvoice /\ Legible /\ paid \in Nat
          /\ 100 * paid = posted.amountExclVat
      BY <1>4, <1>6, <1>7, <2>2
    <3>2. BuildInvoicePdfMismatches(posted, Read(posted.billing, missed, amounts), number) = {} <=>
            /\ missed \cap NeededIf(number) = {}
            /\ number \in {Missing, 1}
            /\ posted.topupRate = posted.vatRate \/ "vatRate" \in missed
      BY <3>1, OwnMismatches
    <3>3. agrees <=> BuildInvoicePdfMismatches(posted, Read(posted.billing, missed, amounts), number) = {}
      BY <2>2, Zenon DEF agrees
    <3> QED  BY <3>2, <3>3, Zenon
  <2> QED  BY <2>1, <2>2
<1>11. OwnPdfPasses'
  BY <1>3, <1>4, <1>8, <1>9, <1>10, Zenon DEF OwnPdfPasses
<1>12. ASSUME Legible, \/ NormalizeTaxCode(buyer.taxCode) # NormalizeTaxCode(posted.billing.taxCode)
                       \/ 100 * paid - posted.amountExclVat \notin -100..100
       PROVE  ~agrees
  BY <1>4, <1>6, <1>7, <1>12, OthersMismatches, Zenon DEF agrees
<1>13. OthersPdfFails'
  BY <1>3, <1>4, <1>8, <1>12, Zenon DEF OthersPdfFails, NormalizeTaxCode
<1> QED  BY <1>4, <1>5, <1>6, <1>11, <1>13 DEF ComparisonInv

LEMMA ComparisonStep == ComparisonInv /\ [ComparisonNext]_comparisonVars => ComparisonInv'
<1> SUFFICES ASSUME ComparisonInv, [ComparisonNext]_comparisonVars PROVE ComparisonInv'
  OBVIOUS
<1>1. CASE UNCHANGED comparisonVars
  <2>1. profile' = profile /\ posted' = posted /\ comparison' = comparison
    BY <1>1 DEF comparisonVars
  <2>2. OwnPdfPasses' /\ OthersPdfFails'
    BY <2>1, SameComparison DEF ComparisonInv
  <2> QED  BY <2>1, <2>2 DEF ComparisonInv, ComparisonTypeOK, HasWords, PostedFits
<1> QED  BY <1>1, ProfileStep, PostStep, CompareStep DEF ComparisonNext

(* The billing profile, its snapshot and the comparison keep their types.  *)
THEOREM ComparisonTypeCorrect == ComparisonSpec => []ComparisonTypeOK
<1>1. ComparisonInv => ComparisonTypeOK
  BY DEF ComparisonInv
<1> QED  BY <1>1, ComparisonStep, ComparisonStarts, PTL DEF ComparisonSpec

(* buildInvoicePdfMismatches: whatever the customer typed into the billing *)
(* profile, and in whatever steps, the right PDF passes exactly if Gemini  *)
(* reads all that is needed and the VAT rate is the invoice's.             *)
THEOREM OwnPdfIsAccepted == ComparisonSpec => []OwnPdfPasses
<1>1. ComparisonInv => OwnPdfPasses
  BY DEF ComparisonInv
<1> QED  BY <1>1, ComparisonStep, ComparisonStarts, PTL DEF ComparisonSpec

(* No PDF for another tax code, or for another amount by more than a dong, *)
(* is taken for the invoice's, whatever Gemini fails to read.              *)
THEOREM OthersPdfIsRefused == ComparisonSpec => []OthersPdfFails
<1>1. ComparisonInv => OthersPdfFails
  BY DEF ComparisonInv
<1> QED  BY <1>1, ComparisonStep, ComparisonStarts, PTL DEF ComparisonSpec

-----------------------------------------------------------------------------
(* The recipients of a campaign                                            *)

RowIsRecord(r)   == DOMAIN r = {"phone", "payload", "checked"}
RowIsComplete(r) == \A k \in r.checked : HasText(r.payload, k)

(* The rows that are there and those a request in flight will write: it    *)
(* checked them for the placeholders it read, so a revision that comes     *)
(* before the write does not matter.                                       *)
RowsFit(list) == \A i \in DOMAIN list : RowIsRecord(list[i]) /\ RowIsComplete(list[i])

RecipientsInv == RowsFit(rows) /\ RowsFit(pending.rows)

LEMMA NothingFits == RowsFit(<<>>)
BY DEF RowsFit

(* Its answer is a verdict, and what is accepted is not too long.          *)
LEMMA ParsedFits ==
  ASSUME NEW text, NEW ks
  PROVE  LET parsed == ParseCampaignCsv(text, ks)
         IN  parsed.accepted \in BOOLEAN /\ (parsed.accepted => Len(parsed.rows) <= MaxImportRows)
<1> DEFINE lines == Lines(text)
           header == ParseCsvLine(lines[1])
           all == [i \in 1..(Len(lines) - 1) |-> RowOf(ParseCsvLine(lines[i + 1]), header, ks)]
           fits == /\ Len(lines) >= 2
                   /\ HeaderFits(header, ks)
                   /\ Len(all) <= MaxImportRows
                   /\ \A i \in DOMAIN all : RowIsValid(all[i], ks)
<1>1. ParseCampaignCsv(text, ks) = IF fits THEN [rows |-> all, accepted |-> TRUE]
                                           ELSE [rows |-> <<>>, accepted |-> FALSE]
  BY DEF ParseCampaignCsv
<1>2. fits => Len(all) <= MaxImportRows
  OBVIOUS
<1> HIDE DEF all, fits
<1> QED  BY <1>1, <1>2

LEMMA ParsedRows ==
  ASSUME NEW text, NEW ks
  PROVE  LET parsed == ParseCampaignCsv(text, ks)
         IN  parsed.accepted \in BOOLEAN /\ (parsed.accepted => RowsFit(parsed.rows))
<1> DEFINE lines == Lines(text)
           header == ParseCsvLine(lines[1])
           all == [i \in 1..(Len(lines) - 1) |-> RowOf(ParseCsvLine(lines[i + 1]), header, ks)]
           fits == /\ Len(lines) >= 2
                   /\ HeaderFits(header, ks)
                   /\ Len(all) <= MaxImportRows
                   /\ \A i \in DOMAIN all : RowIsValid(all[i], ks)
<1>1. ParseCampaignCsv(text, ks) = IF fits THEN [rows |-> all, accepted |-> TRUE]
                                           ELSE [rows |-> <<>>, accepted |-> FALSE]
  BY DEF ParseCampaignCsv
<1>2. ASSUME NEW i \in DOMAIN all, RowIsValid(all[i], ks)
      PROVE  RowIsRecord(all[i]) /\ RowIsComplete(all[i])
  <2>1. PICK cells, head : all[i] = RowOf(cells, head, ks)
    OBVIOUS
  <2>2. RowIsRecord(all[i]) /\ all[i].checked = ToSet(ks)
    BY <2>1 DEF RowOf, RowIsRecord
  <2> HIDE DEF all
  <2> QED  BY <1>2, <2>2 DEF RowIsValid, PayloadIsComplete, RowIsComplete
<1>3. fits => RowsFit(all)
  <2> SUFFICES ASSUME fits PROVE RowsFit(all)
    OBVIOUS
  <2>1. \A i \in DOMAIN all : RowIsValid(all[i], ks)
    OBVIOUS
  <2> HIDE DEF all, fits
  <2> QED  BY <2>1, <1>2 DEF RowsFit
<1> HIDE DEF all, fits
<1> QED  BY <1>1, <1>3

LEMMA ImportStep ==
  ASSUME RecipientsInv, NEW table, NEW text, NEW exported, ReadImport(table, text, exported)
  PROVE  RecipientsInv'
<1> DEFINE parsed == ParseCampaignCsv(text, keys)
           read   == [table |-> table, exported |-> exported, keys |-> keys,
                      accepted |-> parsed.accepted]
<1>1. /\ rows' = rows
      /\ \/ parsed.accepted /\ pending' = [rows |-> parsed.rows, file |-> read]
         \/ pending' = pending
  BY DEF ReadImport
<1>2. parsed.accepted => RowsFit(parsed.rows)
  BY ParsedRows
<1> HIDE DEF parsed, read
<1>3. CASE parsed.accepted /\ pending' = [rows |-> parsed.rows, file |-> read]
  <2>1. pending'.rows = parsed.rows
    BY <1>3
  <2> QED  BY <1>1, <1>2, <1>3, <2>1 DEF RecipientsInv, RowsFit
<1>4. CASE pending' = pending
  BY <1>1, <1>4 DEF RecipientsInv, RowsFit
<1> QED  BY <1>1, <1>3, <1>4

(* An edit replaces one row by another that fits.                          *)
LEMMA ReplacedFits ==
  ASSUME NEW list, RowsFit(list), NEW i \in DOMAIN list, NEW r,
         RowIsRecord(r), RowIsComplete(r)
  PROVE  RowsFit([list EXCEPT ![i] = r])
BY DEF RowsFit

LEMMA EditedFits ==
  ASSUME NEW row, RowIsRecord(row), RowIsComplete(row), NEW r \in Edited(row)
  PROVE  RowIsRecord(r) /\ RowIsComplete(r)
<1>1. CASE \E phone : r = [row EXCEPT !.phone = phone]
  <2>1. PICK phone : r = [row EXCEPT !.phone = phone]
    BY <1>1
  <2>2. RowIsRecord(r) /\ r.payload = row.payload /\ r.checked = row.checked
    BY <2>1 DEF RowIsRecord
  <2> QED  BY <2>2 DEF RowIsComplete
<1>2. CASE \E phone, payload : /\ PayloadIsComplete(payload, keys)
                               /\ r = [phone |-> phone, payload |-> payload,
                                       checked |-> ToSet(keys)]
  BY <1>2 DEF RowIsRecord, RowIsComplete, PayloadIsComplete
<1> QED  BY <1>1, <1>2 DEF Edited

LEMMA EditStep ==
  ASSUME RecipientsInv, EditRow
  PROVE  RecipientsInv'
<1>1. PICK i \in DOMAIN rows : \E r \in Edited(rows[i]) :
        pending' = [rows |-> [rows EXCEPT ![i] = r], file |-> NoFile]
  BY DEF EditRow
<1>2. PICK r \in Edited(rows[i]) : pending' = [rows |-> [rows EXCEPT ![i] = r], file |-> NoFile]
  BY <1>1
<1>3. rows' = rows
  BY DEF EditRow
<1>4. RowIsRecord(rows[i]) /\ RowIsComplete(rows[i]) /\ RowsFit(rows)
  BY DEF RecipientsInv, RowsFit
<1>5. RowIsRecord(r) /\ RowIsComplete(r)
  BY <1>4, EditedFits
<1>6. RowsFit([rows EXCEPT ![i] = r])
  BY <1>4, <1>5, ReplacedFits
<1>7. pending'.rows = [rows EXCEPT ![i] = r]
  BY <1>2
<1> QED  BY <1>3, <1>4, <1>6, <1>7 DEF RecipientsInv, RowsFit

LEMMA RecipientsStep == RecipientsInv /\ [FileNext]_fileVars => RecipientsInv'
<1> SUFFICES ASSUME RecipientsInv, [FileNext]_fileVars PROVE RecipientsInv'
  OBVIOUS
<1>1. CASE UNCHANGED <<rows, pending>>
  BY <1>1 DEF RecipientsInv, RowsFit
<1>2. CASE WriteRows
  <2>1. rows' = pending.rows /\ pending'.rows = <<>>
    BY <1>2 DEF WriteRows, NoWrite
  <2> QED  BY <2>1, NothingFits DEF RecipientsInv, RowsFit
<1>3. CASE WriteFails
  <2>1. rows' = rows /\ pending'.rows = <<>>
    BY <1>3 DEF WriteFails, NoWrite
  <2> QED  BY <2>1, NothingFits DEF RecipientsInv, RowsFit
<1>4. CASE ImportTable \/ ImportTemplate
  BY <1>4, ImportStep DEF ImportTable, ImportTemplate
<1>5. CASE EditRow
  BY <1>5, EditStep
<1>6. NewCampaign \/ ReviseTemplate \/ UNCHANGED fileVars => UNCHANGED <<rows, pending>>
  BY DEF NewCampaign, ReviseTemplate, fileVars
<1> QED  BY <1>1, <1>2, <1>3, <1>4, <1>5, <1>6 DEF FileNext

(* importCsv and updateRow, "is required": however files are written and   *)
(* whatever further keys an edit brings, a row has a value for every       *)
(* placeholder it was checked for, also when the template was revised      *)
(* between the check and the write.                                        *)
THEOREM RecipientsAreComplete == FileSpec => []RowsAreComplete
<1>1. FileInit => RecipientsInv
  BY NothingFits DEF FileInit, NoWrite, RecipientsInv
<1>2. RecipientsInv => RowsAreComplete
  BY DEF RecipientsInv, RowsFit, RowIsComplete, RowsAreComplete
<1> QED  BY <1>1, <1>2, RecipientsStep, PTL DEF FileSpec

(* The rows never outgrow MAX_IMPORT_ROWS: an edit adds none.              *)
LEMMA FileTypeStep ==
  ASSUME ImportLimits, RecipientsInv, FileTypeOK, [FileNext]_fileVars
  PROVE  FileTypeOK'
<1> DEFINE Flags(f) == f.accepted \in BOOLEAN /\ f.exported \in BOOLEAN
           Shaped == /\ keys \in KeyLists \cup {NoKeys}
                     /\ Len(rows) <= MaxImportRows /\ Len(pending.rows) <= MaxImportRows
                     /\ Flags(file) /\ Flags(pending.file)
<1>1. SUFFICES Shaped'
  <2>1. RecipientsInv'
    BY RecipientsStep
  <2>2. (\A i \in DOMAIN rows : DOMAIN rows[i] = {"phone", "payload", "checked"})'
    BY <2>1 DEF RecipientsInv, RowsFit, RowIsRecord
  <2>3. (\A i \in DOMAIN pending.rows : DOMAIN pending.rows[i] = {"phone", "payload", "checked"})'
    BY <2>1 DEF RecipientsInv, RowsFit, RowIsRecord
  <2> QED  BY <2>2, <2>3 DEF FileTypeOK
<1>2. Shaped
  BY DEF FileTypeOK
<1>3. Flags(NoFile) /\ Len(<<>>) = 0 /\ 0 <= MaxImportRows
  BY DEF NoFile, ImportLimits
<1>4. ASSUME NEW table, NEW text, NEW exported, exported \in BOOLEAN,
             ReadImport(table, text, exported)
      PROVE  Shaped'
  <2> DEFINE parsed == ParseCampaignCsv(text, keys)
             read   == [table |-> table, exported |-> exported, keys |-> keys,
                        accepted |-> parsed.accepted]
  <2>1. /\ UNCHANGED <<keys, rows>>
        /\ \/ parsed.accepted /\ pending' = [rows |-> parsed.rows, file |-> read]
              /\ file' = file
           \/ file' = read /\ pending' = pending
    BY <1>4 DEF ReadImport
  <2>2. parsed.accepted \in BOOLEAN /\ (parsed.accepted => Len(parsed.rows) <= MaxImportRows)
    BY ParsedFits
  <2>3. Flags(read)
    BY <1>4, <2>2
  <2> HIDE DEF parsed, read
  <2> QED  BY <1>2, <2>1, <2>2, <2>3
<1>5. CASE NewCampaign
  BY <1>2, <1>5 DEF NewCampaign
<1>6. CASE ReviseTemplate
  BY <1>2, <1>3, <1>6 DEF ReviseTemplate
<1>7. CASE ImportTable \/ ImportTemplate
  BY <1>4, <1>7 DEF ImportTable, ImportTemplate
<1>8. CASE EditRow
  <2>1. file' = NoFile /\ UNCHANGED <<keys, rows>>
    BY <1>8 DEF EditRow
  <2>2. PICK i : \E r : pending' = [rows |-> [rows EXCEPT ![i] = r], file |-> NoFile]
    BY <1>8 DEF EditRow
  <2>3. PICK r : pending' = [rows |-> [rows EXCEPT ![i] = r], file |-> NoFile]
    BY <2>2
  <2>4. pending'.file = NoFile /\ Len(pending'.rows) = Len(rows)
    BY <2>3
  <2> QED  BY <1>2, <1>3, <2>1, <2>4
<1>9. CASE WriteRows \/ WriteFails
  BY <1>2, <1>3, <1>9 DEF WriteRows, WriteFails, NoWrite
<1>10. CASE UNCHANGED fileVars
  BY <1>2, <1>10 DEF fileVars
<1> QED  BY <1>5, <1>6, <1>7, <1>8, <1>9, <1>10 DEF FileNext

(* importCsv and updateRow: the rows are never more than MAX_IMPORT_ROWS,  *)
(* and each has a phone and a payload.                                     *)
THEOREM FileTypeCorrect == FileSpec => []FileTypeOK
<1> DEFINE Inv == ImportLimits /\ RecipientsInv /\ FileTypeOK
<1>1. FileInit => Inv
  <2> SUFFICES ASSUME FileInit PROVE Inv
    OBVIOUS
  <2>1. rows = <<>> /\ pending.rows = <<>> /\ keys = NoKeys /\ file = NoFile /\ pending.file = NoFile
    BY DEF FileInit, NoWrite
  <2>2. DOMAIN rows = {} /\ Len(rows) = 0
    BY <2>1
  <2>3. ImportLimits /\ Len(rows) <= MaxImportRows
    BY ImportLimits, <2>2 DEF ImportLimits
  <2>4. RecipientsInv
    BY <2>1, NothingFits DEF RecipientsInv
  <2>5. FileTypeOK
    BY <2>1, <2>2, <2>3 DEF FileTypeOK, NoFile
  <2> QED  BY <2>3, <2>4, <2>5
<1>2. Inv /\ [FileNext]_fileVars => Inv'
  <2> SUFFICES ASSUME Inv, [FileNext]_fileVars PROVE Inv'
    OBVIOUS
  <2>1. RecipientsInv'
    BY RecipientsStep
  <2>2. FileTypeOK'
    BY FileTypeStep
  <2> QED  BY <2>1, <2>2
<1> QED  BY <1>1, <1>2, PTL DEF FileSpec

-----------------------------------------------------------------------------
(* The parts side by side                                                  *)

(* None of the parts can tell that the others are there.                   *)
THEOREM PartsBehaveAlone ==
  AdminSpec => AuthSpec /\ WsSpec /\ InvoiceSpec /\ ComparisonSpec /\ FileSpec
<1>1. AdminInit => AuthInit /\ WsInit /\ InvoiceInit /\ ComparisonInit /\ FileInit
  BY DEF AdminInit
<1>2. [AdminNext]_adminVars => [AuthNext]_authVars
  BY DEF AdminNext, adminVars
<1>3. [AdminNext]_adminVars => [WsNext]_wsVars
  BY DEF AdminNext, adminVars
<1>4. [AdminNext]_adminVars => [InvoiceNext]_uploadVars
  BY DEF AdminNext, adminVars
<1>5. [AdminNext]_adminVars => [ComparisonNext]_comparisonVars
  BY DEF AdminNext, adminVars
<1>6. [AdminNext]_adminVars => [FileNext]_fileVars
  BY DEF AdminNext, adminVars
<1> QED
  BY <1>1, <1>2, <1>3, <1>4, <1>5, <1>6, PTL
  DEF AdminSpec, AuthSpec, WsSpec, InvoiceSpec, ComparisonSpec, FileSpec

(* AuthModule, the modules of a workspace, the issue of invoices, their    *)
(* comparison and the recipients of campaigns keep their types side by     *)
(* side, whatever each of them is asked to do.                             *)
THEOREM AdministrationTypeCorrect == AdminSpec => []AdminTypeOK
<1>1. AuthTypeOK /\ WsTypeOK /\ InvoiceTypeOK /\ ComparisonTypeOK /\ FileTypeOK => AdminTypeOK
  BY DEF AdminTypeOK
<1> QED
  BY <1>1, PartsBehaveAlone, TypeCorrect, WorkspaceTypeCorrect, IssuesAreVerified,
     ComparisonTypeCorrect, FileTypeCorrect, PTL

=============================================================================
