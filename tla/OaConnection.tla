----------------------------- MODULE OaConnection -----------------------------
(***************************************************************************)
(* OaConnectionsService and OaTokenService: the Zalo Official Account of   *)
(* one workspace.  An owner starts a connection and is sent to Zalo with a *)
(* state; Zalo calls back with the state and a code that is exchanged for  *)
(* a pair of tokens; whoever sends a message takes the access token, and   *)
(* refreshes the pair when it is about to expire.  Zalo accepts a refresh  *)
(* token once.  Requests stop at every await.                              *)
(*                                                                         *)
(* Token pairs and states are numbered in the order they are made; 0 is    *)
(* null.  The name and picture of the account are left out.                *)
(***************************************************************************)
EXTENDS Integers, FiniteSets

CONSTANTS OaRequests,     \* requests on the connection
          MaxOaInFlight,  \* bound: requests being served at a time
          MaxOaFaults     \* bound: crashes, lost replies, failed writes

ASSUME OaBounds == MaxOaInFlight \in Nat /\ MaxOaFaults \in Nat

VARIABLES conn,         \* the WorkspaceOaConnection row
          states,       \* number of OAuth states handed out
          exchanged,    \* external: states whose code Zalo has exchanged
          issued,       \* external: number of token pairs Zalo has issued
          live,         \* external: pairs whose refresh token is not yet used
          oaReq,        \* progress of each request
          disconnects,  \* number of disconnects (for StaysDisconnected)
          oaFaults      \* number of faults so far

oaVars == <<conn, states, exchanged, issued, live, oaReq, disconnects, oaFaults>>

OaConnectionStatus ==
  {"none", "NOT_CONNECTED", "CONNECTED", "TOKEN_EXPIRED", "DISCONNECTED"}

(* fresh: tokenExpiredAt is more than the refresh buffer away.             *)
Connection == [status : OaConnectionStatus, pair : Nat, fresh : BOOLEAN, state : Nat]

OaSteps == {"idle", "exchanging", "obtained", "disconnecting", "refreshing",
            "refreshed", "refreshFailed", "ended"}

(* What a request has read: a state or a pair, when (how many disconnects  *)
(* there had been); and the pair Zalo gave it.                             *)
OaRequest == [step : OaSteps, state : Nat, old : Nat, new : Nat, seen : Nat]

OaIdle == [step |-> "idle", state |-> 0, old |-> 0, new |-> 0, seen |-> 0]
OaInFlight == {q \in OaRequests : oaReq[q].step \notin {"idle", "ended"}}

OaTypeOK ==
  /\ conn \in Connection
  /\ states \in Nat /\ exchanged \subseteq 1..states
  /\ issued \in Nat /\ live \subseteq 1..issued
  /\ oaReq \in [OaRequests -> OaRequest]
  /\ disconnects \in Nat
  /\ oaFaults \in 0..MaxOaFaults

(* No row yet, or an account connected a while ago.                        *)
OaInit ==
  /\ \/ /\ conn = [status |-> "none", pair |-> 0, fresh |-> FALSE, state |-> 0]
        /\ states = 0 /\ exchanged = {} /\ issued = 0 /\ live = {}
     \/ /\ conn = [status |-> "CONNECTED", pair |-> 1, fresh |-> FALSE, state |-> 0]
        /\ states = 1 /\ exchanged = {1} /\ issued = 1 /\ live = {1}
  /\ oaReq = [q \in OaRequests |-> OaIdle]
  /\ disconnects = 0
  /\ oaFaults = 0

OaFault == oaFaults < MaxOaFaults /\ oaFaults' = oaFaults + 1

OaArrives(q) == oaReq[q].step = "idle" /\ Cardinality(OaInFlight) < MaxOaInFlight
OaAt(q, step) == oaReq[q].step = step
OaEnds(q) == oaReq' = [oaReq EXCEPT ![q] = [OaIdle EXCEPT !.step = "ended"]]
OaFails(q) == oaReq' = [oaReq EXCEPT ![q].step = "refreshFailed"]
OaReads(q, step, state, old) ==
  oaReq' = [oaReq EXCEPT ![q] = [step |-> step, state |-> state, old |-> old,
                                 new |-> 0, seen |-> disconnects]]

zaloVars == <<exchanged, issued, live>>

-----------------------------------------------------------------------------
(* External: Zalo                                                          *)

(* Zalo answers q with a new pair; used are the refresh tokens it took.    *)
IssuePair(q, used) ==
  /\ issued' = issued + 1
  /\ live' = (live \ used) \cup {issued'}
  /\ oaReq' = [oaReq EXCEPT ![q].new = issued', ![q].step =
                 IF oaReq[q].step = "exchanging" THEN "obtained" ELSE "refreshed"]

(* A new pair whose answer is lost.                                        *)
LosePair(used) ==
  /\ OaFault
  /\ issued' = issued + 1
  /\ live' = (live \ used) \cup {issued'}

-----------------------------------------------------------------------------
(* startConnect: one upsert; the tokens of an earlier connection stay.     *)
StartConnect(q) ==
  /\ OaArrives(q)
  /\ states' = states + 1
  /\ conn' = [conn EXCEPT !.status = "NOT_CONNECTED", !.state = states']
  /\ OaEnds(q)
  /\ UNCHANGED <<zaloVars, disconnects, oaFaults>>

(* handleOAuthCallback finds the row by the state Zalo sends back; any     *)
(* state that was handed out may come back, late and more than once.       *)
FindState(q) ==
  /\ OaArrives(q)
  /\ \E s \in 1..states :
       \/ s = conn.state /\ OaReads(q, "exchanging", s, 0)
       \/ OaEnds(q)     \* unknown, or older than an hour
  /\ UNCHANGED <<conn, states, zaloVars, disconnects, oaFaults>>

(* exchangeAuthorizationCode: a code is exchanged once.  No catch block:   *)
(* on failure the row stays as it is.                                      *)
ExchangeCode(q) ==
  /\ OaAt(q, "exchanging")
  /\ LET s == oaReq[q].state
     IN  \/ /\ s \notin exchanged
            /\ exchanged' = exchanged \cup {s}
            /\ \/ IssuePair(q, {}) /\ UNCHANGED oaFaults
               \/ LosePair({}) /\ OaEnds(q)
         \/ OaEnds(q) /\ UNCHANGED <<zaloVars, oaFaults>>
  /\ UNCHANGED <<conn, states, disconnects>>

Connected(q) == [conn EXCEPT !.status = "CONNECTED", !.pair = oaReq[q].new, !.fresh = TRUE]

(* The row is written by its id, whatever has become of it.                *)
SaveConnection(q) ==
  /\ OaAt(q, "obtained") /\ OaEnds(q)
  /\ conn' = [Connected(q) EXCEPT !.state = 0]
  /\ UNCHANGED <<states, zaloVars, disconnects, oaFaults>>

-----------------------------------------------------------------------------
(* disconnect, up to its transaction.                                      *)
BeginDisconnect(q) ==
  /\ OaArrives(q)
  /\ IF conn.status \in {"none", "DISCONNECTED"}
     THEN OaEnds(q) ELSE OaReads(q, "disconnecting", 0, 0)
  /\ UNCHANGED <<conn, states, zaloVars, disconnects, oaFaults>>

(* Fault: the pending OAuth state survives the disconnect.                 *)
DisconnectKeepsState(q) ==
  /\ OaAt(q, "disconnecting") /\ OaEnds(q)
  /\ conn' = [conn EXCEPT !.status = "DISCONNECTED", !.pair = 0, !.fresh = FALSE]
  /\ disconnects' = disconnects + 1
  /\ UNCHANGED <<states, zaloVars, oaFaults>>

CommitDisconnect(q) ==
  /\ OaAt(q, "disconnecting") /\ OaEnds(q)
  /\ conn' = [status |-> "DISCONNECTED", pair |-> 0, fresh |-> FALSE, state |-> 0]
  /\ disconnects' = disconnects + 1
  /\ UNCHANGED <<states, zaloVars, oaFaults>>

-----------------------------------------------------------------------------
(* getValidAccessToken                                                     *)

UseToken(q) ==
  /\ OaArrives(q)
  /\ IF conn.status # "CONNECTED" \/ conn.pair = 0
     THEN OaEnds(q)
     ELSE IF conn.fresh THEN OaEnds(q)
                        ELSE OaReads(q, "refreshing", 0, conn.pair)
  /\ UNCHANGED <<conn, states, zaloVars, disconnects, oaFaults>>

Refresh(q) ==
  /\ OaAt(q, "refreshing")
  /\ LET old == oaReq[q].old
     IN  \/ old \in live /\ IssuePair(q, {old}) /\ UNCHANGED oaFaults
         \/ old \in live /\ LosePair({old}) /\ OaFails(q)
         \/ /\ OaFails(q)
            /\ UNCHANGED <<issued, live>>
            /\ OaFault \/ (old \notin live /\ UNCHANGED oaFaults)
  /\ UNCHANGED <<conn, states, exchanged, disconnects>>

(* Fault: the row keeps the refresh token it had.                          *)
PersistsOldPair(q) ==
  /\ OaAt(q, "refreshed")
  /\ OaEnds(q)
  /\ conn' = [conn EXCEPT !.status = "CONNECTED", !.fresh = TRUE]
  /\ UNCHANGED <<states, zaloVars, disconnects, oaFaults>>

(* persistTokenResponse: by id again, and CONNECTED whatever the status.   *)
PersistPair(q) ==
  /\ OaAt(q, "refreshed")
  /\ \/ OaEnds(q) /\ conn' = Connected(q) /\ UNCHANGED oaFaults
     \/ OaFault /\ OaFails(q) /\ UNCHANGED conn
  /\ UNCHANGED <<states, zaloVars, disconnects>>

(* The catch block: TOKEN_EXPIRED, whatever the status.                    *)
MarkTokenExpired(q) ==
  /\ OaAt(q, "refreshFailed") /\ OaEnds(q)
  /\ conn' = [conn EXCEPT !.status = "TOKEN_EXPIRED"]
  /\ UNCHANGED <<states, zaloVars, disconnects, oaFaults>>

-----------------------------------------------------------------------------
(* The access token comes within the refresh buffer of its end.            *)
NearsExpiry ==
  /\ conn.fresh
  /\ conn' = [conn EXCEPT !.fresh = FALSE]
  /\ UNCHANGED <<states, zaloVars, oaReq, disconnects, oaFaults>>

(* The server dies, or a write without a catch block fails.                *)
CrashOa(q) ==
  /\ q \in OaInFlight
  /\ OaFault
  /\ OaEnds(q)
  /\ UNCHANGED <<conn, states, zaloVars, disconnects>>

OaStep(q) ==
  \/ StartConnect(q) \/ FindState(q) \/ ExchangeCode(q) \/ SaveConnection(q)
  \/ BeginDisconnect(q) \/ CommitDisconnect(q)
  \/ UseToken(q) \/ Refresh(q) \/ PersistPair(q) \/ MarkTokenExpired(q)
  \/ CrashOa(q)

OaNext == NearsExpiry \/ \E q \in OaRequests : OaStep(q)

OaSpec == OaInit /\ [][OaNext]_oaVars

-----------------------------------------------------------------------------
(* Properties                                                              *)

(* However refreshes, callbacks and disconnects overlap, a CONNECTED row   *)
(* has a pair, and one Zalo still accepts, unless the request that used it *)
(* up has its successor in hand; only faults lose the successor.           *)
Succeeds(q, pair) == oaReq[q].step = "refreshed" /\ oaReq[q].old = pair
ConnectedIsUsable ==
  conn.status = "CONNECTED" =>
    /\ conn.pair # 0
    /\ conn.pair \in live \/ oaFaults > 0 \/ \E q \in OaRequests : Succeeds(q, conn.pair)

(* A disconnected account is connected again only after a new startConnect *)
(* or by a request that read the row before it was disconnected.           *)
StaysDisconnected ==
  [][conn.status = "DISCONNECTED" /\ conn'.status = "CONNECTED" =>
       \E q \in OaRequests : /\ oaReq[q].step \in {"obtained", "refreshed"}
                             /\ oaReq'[q].step = "ended"
                             /\ oaReq[q].seen < disconnects]_oaVars
=============================================================================
