---------------------------- MODULE Channel_proofs ----------------------------
(***************************************************************************)
(* Theorems about OaConnection and Templates together, for any requests,   *)
(* templates, codes and number of faults.                                  *)
(***************************************************************************)
EXTENDS Templates, SequenceTheorems, TLAPS

-----------------------------------------------------------------------------
(* Types of the connection                                                 *)

(* Who exchanges a code has a state that was handed out.                   *)
OaInv ==
  /\ OaTypeOK
  /\ \A q \in OaRequests : oaReq[q].step = "exchanging" => oaReq[q].state \in 1..states

LEMMA OaTyped ==
  ASSUME OaInv
  PROVE  /\ conn \in Connection /\ states \in Nat /\ exchanged \subseteq 1..states
         /\ issued \in Nat /\ live \subseteq 1..issued
         /\ oaReq \in [OaRequests -> OaRequest] /\ disconnects \in Nat
         /\ oaFaults \in 0..MaxOaFaults
         /\ \A q \in OaRequests : /\ oaReq[q] \in OaRequest
                                  /\ oaReq[q].new \in Nat /\ oaReq[q].old \in Nat
                                  /\ oaReq[q].seen \in Nat /\ oaReq[q].state \in Nat
BY DEF OaInv, OaTypeOK, OaRequest

(* Only q moves.                                                           *)
Moves(q) == /\ oaReq' \in [OaRequests -> OaRequest]
            /\ \A p \in OaRequests : p # q => oaReq'[p] = oaReq[p]

LEMMA OaEndsMoves ==
  ASSUME OaInv, NEW q \in OaRequests, OaEnds(q)
  PROVE  Moves(q) /\ oaReq'[q].step = "ended"
<1>1. /\ [OaIdle EXCEPT !.step = "ended"] \in OaRequest
      /\ [OaIdle EXCEPT !.step = "ended"].step = "ended"
  BY DEF OaIdle, OaRequest, OaSteps
<1> QED  BY <1>1, OaTyped DEF OaEnds, Moves

LEMMA OaFailsMoves ==
  ASSUME OaInv, NEW q \in OaRequests, OaFails(q)
  PROVE  Moves(q) /\ oaReq'[q].step = "refreshFailed"
<1>1. [oaReq[q] EXCEPT !.step = "refreshFailed"] \in OaRequest
  BY OaTyped DEF OaRequest, OaSteps
<1> QED  BY <1>1, OaTyped DEF OaFails, Moves, OaRequest

LEMMA OaReadsMoves ==
  ASSUME OaInv, NEW q \in OaRequests, NEW step \in OaSteps, NEW state \in Nat, NEW old \in Nat,
         OaReads(q, step, state, old)
  PROVE  /\ Moves(q) /\ oaReq'[q].step = step /\ oaReq'[q].state = state
         /\ oaReq'[q].old = old /\ oaReq'[q].seen = disconnects
<1>1. [step |-> step, state |-> state, old |-> old, new |-> 0, seen |-> disconnects] \in OaRequest
  BY OaTyped DEF OaRequest
<1> QED  BY <1>1, OaTyped DEF OaReads, Moves

LEMMA IssueMoves ==
  ASSUME OaInv, NEW q \in OaRequests, NEW used, IssuePair(q, used)
  PROVE  /\ Moves(q) /\ issued' = issued + 1 /\ live' = (live \ used) \cup {issued'}
         /\ oaReq'[q].step = IF oaReq[q].step = "exchanging" THEN "obtained" ELSE "refreshed"
         /\ oaReq'[q].new = issued' /\ oaReq'[q].old = oaReq[q].old
         /\ oaReq'[q].seen = oaReq[q].seen /\ oaReq'[q].state = oaReq[q].state
<1> DEFINE step == IF oaReq[q].step = "exchanging" THEN "obtained" ELSE "refreshed"
<1>1. /\ issued' = issued + 1 /\ live' = (live \ used) \cup {issued'}
      /\ oaReq' = [oaReq EXCEPT ![q].new = issued', ![q].step = step]
  BY DEF IssuePair
<1>s. issued' \in Nat /\ step \in OaSteps
  BY <1>1, OaTyped DEF OaSteps
<1> HIDE DEF step
<1> DEFINE row == [oaReq[q] EXCEPT !.new = issued', !.step = step]
<1>2. /\ row \in OaRequest /\ row.step = step /\ row.new = issued' /\ row.old = oaReq[q].old
      /\ row.seen = oaReq[q].seen /\ row.state = oaReq[q].state
  BY <1>s, OaTyped DEF OaRequest
<1>3. oaReq' = [oaReq EXCEPT ![q] = row]
  BY <1>1, OaTyped
<1> HIDE DEF row
<1>4. Moves(q) /\ oaReq'[q] = row
  BY <1>2, <1>3, OaTyped DEF Moves
<1> QED  BY <1>1, <1>2, <1>4 DEF step

LEMMA OaTypeInit == OaInit => OaInv
<1> SUFFICES ASSUME OaInit PROVE OaInv
  OBVIOUS
<1>1. oaReq \in [OaRequests -> OaRequest] /\ \A q \in OaRequests : oaReq[q].step = "idle"
  BY DEF OaInit, OaIdle, OaRequest, OaSteps
<1>2. conn \in Connection /\ states \in Nat /\ issued \in Nat /\ disconnects \in Nat
  <2>1. CASE conn = [status |-> "none", pair |-> 0, fresh |-> FALSE, state |-> 0]
    BY <2>1 DEF OaInit, Connection, OaConnectionStatus
  <2>2. CASE conn = [status |-> "CONNECTED", pair |-> 1, fresh |-> FALSE, state |-> 0]
    BY <2>2 DEF OaInit, Connection, OaConnectionStatus
  <2> QED  BY <2>1, <2>2 DEF OaInit
<1>3. exchanged \subseteq 1..states /\ live \subseteq 1..issued
  BY DEF OaInit
<1>4. oaFaults \in 0..MaxOaFaults
  BY OaBounds DEF OaInit
<1> QED  BY <1>1, <1>2, <1>3, <1>4 DEF OaInv, OaTypeOK

LEMMA OaTypeStep == OaInv /\ [OaNext]_oaVars => OaInv'
<1> SUFFICES ASSUME OaInv, [OaNext]_oaVars PROVE OaInv'
  OBVIOUS
<1> USE OaTyped
<1>f. OaFault => oaFaults' \in 0..MaxOaFaults
  BY OaBounds DEF OaFault
<1>i. ASSUME NEW used, issued' = issued + 1, live' = (live \ used) \cup {issued'}
      PROVE  issued' \in Nat /\ live' \subseteq 1..issued'
  BY <1>i
<1>k. ASSUME NEW q \in OaRequests, Moves(q), conn' \in Connection, states' \in Nat,
             states' >= states, exchanged' \subseteq 1..states', issued' \in Nat,
             live' \subseteq 1..issued', disconnects' \in Nat, oaFaults' \in 0..MaxOaFaults,
             oaReq'[q].step = "exchanging" => oaReq'[q].state \in 1..states'
      PROVE  OaInv'
  <2>1. \A p \in OaRequests : oaReq'[p].step = "exchanging" => oaReq'[p].state \in 1..states'
    BY <1>k DEF OaInv, Moves
  <2> QED  BY <1>k, <2>1 DEF OaInv, OaTypeOK, Moves
<1>e. ASSUME NEW q \in OaRequests, OaEnds(q) \/ OaFails(q)
      PROVE  Moves(q) /\ oaReq'[q].step # "exchanging"
  BY <1>e, OaEndsMoves, OaFailsMoves
<1>c. conn.pair \in Nat /\ conn.state \in Nat
  BY DEF Connection
<1>1. ASSUME NEW q \in OaRequests, StartConnect(q) PROVE OaInv'
  <2>1. /\ conn' \in Connection /\ states' \in Nat /\ states' >= states
        /\ exchanged' \subseteq 1..states'
    <3>1. states' = states + 1 /\ conn' = [conn EXCEPT !.status = "NOT_CONNECTED", !.state = states']
      BY <1>1 DEF StartConnect
    <3>2. states' \in Nat /\ states' >= states /\ 1..states \subseteq 1..states'
      BY <3>1
    <3>3. conn' \in Connection
      BY <3>1, <3>2 DEF Connection, OaConnectionStatus
    <3> QED  BY <1>1, <3>2, <3>3 DEF StartConnect, zaloVars
  <2> QED  BY <1>1, <1>e, <1>k, <2>1 DEF StartConnect, zaloVars
<1>2. ASSUME NEW q \in OaRequests, FindState(q) PROVE OaInv'
  <2>1. CASE OaEnds(q)
    BY <1>2, <1>e, <1>k, <2>1 DEF FindState, zaloVars
  <2>2. ASSUME NEW s \in 1..states, OaReads(q, "exchanging", s, 0) PROVE OaInv'
    <3>1. s \in Nat
      OBVIOUS
    <3>2. Moves(q) /\ oaReq'[q].state = s
      BY <2>2, <3>1, OaReadsMoves DEF OaSteps
    <3> QED  BY <3>2, <1>2, <1>k, <2>2, <3>1 DEF FindState, zaloVars
  <2> QED  BY <1>2, <2>1, <2>2 DEF FindState
<1>3. ASSUME NEW q \in OaRequests, ExchangeCode(q) PROVE OaInv'
  <2>1. UNCHANGED <<conn, states, disconnects>> /\ oaReq[q].state \in 1..states
    BY <1>3 DEF ExchangeCode, OaAt, OaInv
  <2>2. ASSUME exchanged' = exchanged \cup {oaReq[q].state}, IssuePair(q, {}), UNCHANGED oaFaults
        PROVE  OaInv'
    <3>1. /\ Moves(q) /\ oaReq'[q].step # "exchanging"
          /\ issued' \in Nat /\ live' \subseteq 1..issued'
      BY <1>i, <2>2, IssueMoves
    <3> QED  BY <1>k, <2>1, <2>2, <3>1
  <2>3. ASSUME exchanged' = exchanged \cup {oaReq[q].state}, LosePair({}), OaEnds(q)
        PROVE  OaInv'
    <3>1. issued' \in Nat /\ live' \subseteq 1..issued' /\ oaFaults' \in 0..MaxOaFaults
      BY <1>f, <1>i, <2>3 DEF LosePair
    <3> QED  BY <1>e, <1>k, <2>1, <2>3, <3>1
  <2>4. ASSUME OaEnds(q), UNCHANGED <<zaloVars, oaFaults>> PROVE OaInv'
    BY <1>e, <1>k, <2>1, <2>4 DEF zaloVars
  <2> QED  BY <1>3, <2>2, <2>3, <2>4 DEF ExchangeCode
<1>4. ASSUME NEW q \in OaRequests, SaveConnection(q) PROVE OaInv'
  <2>1. conn' \in Connection
    BY <1>4 DEF SaveConnection, Connected, Connection, OaConnectionStatus
  <2> QED  BY <1>4, <1>e, <1>k, <2>1 DEF SaveConnection, zaloVars
<1>5. ASSUME NEW q \in OaRequests, BeginDisconnect(q) PROVE OaInv'
  <2>1. Moves(q) /\ oaReq'[q].step # "exchanging"
    <3>1. CASE OaReads(q, "disconnecting", 0, 0)
      BY <3>1, OaReadsMoves DEF OaSteps
    <3> QED  BY <1>5, <1>e, <3>1 DEF BeginDisconnect
  <2> QED  BY <1>5, <1>k, <2>1 DEF BeginDisconnect, zaloVars
<1>6. ASSUME NEW q \in OaRequests, CommitDisconnect(q) PROVE OaInv'
  <2>1. conn' \in Connection /\ disconnects' \in Nat
    BY <1>6 DEF CommitDisconnect, Connection, OaConnectionStatus
  <2> QED  BY <1>6, <1>e, <1>k, <2>1 DEF CommitDisconnect, zaloVars
<1>7. ASSUME NEW q \in OaRequests, UseToken(q) PROVE OaInv'
  <2>1. Moves(q) /\ oaReq'[q].step # "exchanging"
    <3>1. CASE OaReads(q, "refreshing", 0, conn.pair)
      BY <1>c, <3>1, OaReadsMoves DEF OaSteps
    <3> QED  BY <1>7, <1>e, <3>1 DEF UseToken
  <2> QED  BY <1>7, <1>k, <2>1 DEF UseToken, zaloVars
<1>8. ASSUME NEW q \in OaRequests, Refresh(q) PROVE OaInv'
  <2>1. UNCHANGED <<conn, states, exchanged, disconnects>> /\ oaReq[q].step = "refreshing"
    BY <1>8 DEF Refresh, OaAt
  <2>2. ASSUME IssuePair(q, {oaReq[q].old}), UNCHANGED oaFaults PROVE OaInv'
    <3>1. /\ Moves(q) /\ oaReq'[q].step # "exchanging"
          /\ issued' \in Nat /\ live' \subseteq 1..issued'
      BY <1>i, <2>1, <2>2, IssueMoves
    <3> QED  BY <1>k, <2>1, <2>2, <3>1
  <2>3. ASSUME LosePair({oaReq[q].old}), OaFails(q) PROVE OaInv'
    <3>1. issued' \in Nat /\ live' \subseteq 1..issued' /\ oaFaults' \in 0..MaxOaFaults
      BY <1>f, <1>i, <2>3 DEF LosePair
    <3> QED  BY <1>e, <1>k, <2>1, <2>3, <3>1
  <2>4. ASSUME OaFails(q), UNCHANGED <<issued, live>>, OaFault \/ UNCHANGED oaFaults PROVE OaInv'
    BY <1>e, <1>f, <1>k, <2>1, <2>4
  <2> QED  BY <1>8, <2>2, <2>3, <2>4 DEF Refresh
<1>9. ASSUME NEW q \in OaRequests, PersistPair(q) PROVE OaInv'
  <2>1. conn' \in Connection /\ oaFaults' \in 0..MaxOaFaults
    BY <1>9, <1>f DEF PersistPair, Connected, Connection, OaConnectionStatus
  <2> QED  BY <1>9, <1>e, <1>k, <2>1 DEF PersistPair, zaloVars
<1>10. ASSUME NEW q \in OaRequests, MarkTokenExpired(q) PROVE OaInv'
  <2>1. conn' \in Connection
    BY <1>10 DEF MarkTokenExpired, Connection, OaConnectionStatus
  <2> QED  BY <1>10, <1>e, <1>k, <2>1 DEF MarkTokenExpired, zaloVars
<1>11. ASSUME NEW q \in OaRequests, CrashOa(q) PROVE OaInv'
  BY <1>11, <1>e, <1>f, <1>k DEF CrashOa, zaloVars
<1>12. CASE NearsExpiry
  <2>1. conn' \in Connection
    BY <1>12 DEF NearsExpiry, Connection
  <2> QED  BY <1>12, <2>1 DEF NearsExpiry, OaInv, OaTypeOK, zaloVars
<1>13. CASE UNCHANGED oaVars
  BY <1>13 DEF oaVars, OaInv, OaTypeOK
<1> QED
  BY <1>1, <1>2, <1>3, <1>4, <1>5, <1>6, <1>7, <1>8, <1>9, <1>10, <1>11, <1>12, <1>13
  DEF OaNext, OaStep

-----------------------------------------------------------------------------
(* Token pairs                                                             *)

Has(q) == oaReq[q].step \in {"obtained", "refreshed"}

(* A pair that a request has in hand is in nobody else's: Zalo accepts it, *)
(* it is not in the row, and nobody is refreshing it.                      *)
InHand(q) ==
  Has(q) => /\ oaReq[q].new \in live /\ oaReq[q].new # conn.pair
            /\ \A p \in OaRequests :
                 /\ oaReq[p].step = "refreshing" => oaReq[p].old # oaReq[q].new
                 /\ Has(p) /\ p # q => oaReq[p].new # oaReq[q].new

Pairs ==
  /\ conn.pair <= issued
  /\ \A q \in OaRequests : oaReq[q].step = "refreshing" => oaReq[q].old <= issued
  /\ \A q \in OaRequests : InHand(q)

LEMMA PairTypes ==
  ASSUME OaInv
  PROVE  /\ conn.pair \in Nat /\ issued \in Nat
         /\ \A q \in OaRequests : oaReq[q].new \in Nat /\ oaReq[q].old \in Nat
         /\ \A x \in live : x \in Nat /\ x > 0 /\ x <= issued
BY OaTyped DEF Connection

(* No new pair; q may put into the row the one it has.                     *)
LEMMA PairsStay ==
  ASSUME OaInv, Pairs, NEW q \in OaRequests, Moves(q), UNCHANGED <<issued, live>>, ~Has(q)',
         conn'.pair \in {conn.pair, 0} \/ (Has(q) /\ conn'.pair = oaReq[q].new),
         oaReq'[q].step = "refreshing" => oaReq'[q].old = conn.pair
  PROVE  Pairs'
<1>1. conn'.pair <= issued'
  BY PairTypes DEF Pairs, InHand
<1>2. ASSUME NEW p \in OaRequests, oaReq'[p].step = "refreshing" PROVE oaReq'[p].old <= issued'
  BY <1>2, PairTypes DEF Pairs, Moves
<1>3. ASSUME NEW p \in OaRequests, Has(p)' PROVE InHand(p)'
  <2>1. p # q /\ Has(p) /\ oaReq'[p] = oaReq[p]
    BY <1>3 DEF Moves, Has
  <2>2. oaReq[p].new \in live /\ oaReq[p].new # conn.pair /\ oaReq[p].new # 0
    BY <2>1, PairTypes DEF Pairs, InHand
  <2>3. oaReq[p].new # conn'.pair
    BY <2>1, <2>2 DEF Pairs, InHand
  <2>4. ASSUME NEW r \in OaRequests
        PROVE  /\ oaReq'[r].step = "refreshing" => oaReq'[r].old # oaReq[p].new
               /\ Has(r)' /\ r # p => oaReq'[r].new # oaReq[p].new
    <3>1. CASE r = q
      BY <2>2, <3>1
    <3>2. CASE r # q
      BY <2>1, <3>2 DEF Pairs, InHand, Moves, Has
    <3> QED  BY <3>1, <3>2
  <2> QED  BY <2>1, <2>2, <2>3, <2>4 DEF InHand
<1>4. \A p \in OaRequests : InHand(p)'
  BY <1>3 DEF InHand
<1> QED  BY <1>1, <1>2, <1>4 DEF Pairs

(* A new pair, which q has in hand or nobody; only a refresh token that q  *)
(* alone could use is used up.                                             *)
LEMMA PairsIssued ==
  ASSUME OaInv, Pairs, NEW q \in OaRequests, Moves(q), UNCHANGED conn, NEW used,
         issued' = issued + 1, live' = (live \ used) \cup {issued'},
         used \subseteq {oaReq[q].old}, used # {} => oaReq[q].step = "refreshing",
         ~Has(q), Has(q)' => oaReq'[q].new = issued', oaReq'[q].step # "refreshing"
  PROVE  Pairs'
<1>t. /\ conn.pair \in Nat /\ issued \in Nat /\ \A x \in live : x \in Nat /\ x > 0 /\ x <= issued
      /\ \A p \in OaRequests : oaReq[p].new \in Nat /\ oaReq[p].old \in Nat
  BY PairTypes
<1>1. conn'.pair <= issued' /\ conn'.pair # issued'
  BY <1>t DEF Pairs
<1>2. ASSUME NEW p \in OaRequests, oaReq'[p].step = "refreshing"
      PROVE  p # q /\ oaReq'[p] = oaReq[p] /\ oaReq'[p].old <= issued' /\ oaReq'[p].old # issued'
  <2>1. p # q /\ oaReq'[p] = oaReq[p]
    BY <1>2 DEF Moves
  <2>2. oaReq[p].old <= issued /\ oaReq[p].old \in Nat
    BY <1>2, <1>t, <2>1 DEF Pairs
  <2> QED  BY <1>t, <2>1, <2>2
<1>3. ASSUME NEW p \in OaRequests, p # q, Has(p)'
      PROVE  /\ Has(p) /\ oaReq'[p] = oaReq[p] /\ oaReq[p].new \in live'
             /\ oaReq[p].new \in live /\ oaReq[p].new # issued'
  <2>1. Has(p) /\ oaReq'[p] = oaReq[p]
    BY <1>3 DEF Moves, Has
  <2>2. oaReq[p].new \in live /\ oaReq[p].new \notin used
    BY <2>1 DEF Pairs, InHand
  <2> QED  BY <1>t, <2>1, <2>2
<1>4. ASSUME NEW p \in OaRequests, Has(p)' PROVE InHand(p)'
  <2>1. CASE p = q
    <3>1. oaReq'[p].new = issued' /\ issued' \in live'
      BY <1>4, <2>1
    <3> QED  BY <1>1, <1>2, <1>3, <2>1, <3>1 DEF InHand
  <2>2. CASE p # q
    <3>1. /\ Has(p) /\ oaReq'[p] = oaReq[p] /\ oaReq[p].new \in live' /\ oaReq[p].new # issued'
      BY <1>3, <1>4, <2>2
    <3>2. /\ oaReq[p].new # conn.pair
          /\ \A r \in OaRequests : /\ oaReq[r].step = "refreshing" => oaReq[r].old # oaReq[p].new
                                   /\ Has(r) /\ r # p => oaReq[r].new # oaReq[p].new
      BY <3>1 DEF Pairs, InHand
    <3>3. ASSUME NEW r \in OaRequests
          PROVE  /\ oaReq'[r].step = "refreshing" => oaReq'[r].old # oaReq'[p].new
                 /\ Has(r)' /\ r # p => oaReq'[r].new # oaReq'[p].new
      <4>1. CASE r = q
        BY <3>1, <4>1
      <4>2. CASE r # q
        BY <3>1, <3>2, <4>2 DEF Moves, Has
      <4> QED  BY <4>1, <4>2
    <3> QED  BY <3>1, <3>2, <3>3 DEF InHand
  <2> QED  BY <2>1, <2>2
<1>5. \A p \in OaRequests : InHand(p)'
  BY <1>4 DEF InHand
<1> QED  BY <1>1, <1>2, <1>5 DEF Pairs

LEMMA PairsInit == OaInit => Pairs /\ ConnectedIsUsable
<1> SUFFICES ASSUME OaInit PROVE Pairs /\ ConnectedIsUsable
  OBVIOUS
<1>1. \A q \in OaRequests : oaReq[q].step = "idle"
  BY DEF OaInit, OaIdle
<1>2. conn.pair <= issued /\ ConnectedIsUsable
  BY DEF OaInit, ConnectedIsUsable
<1> QED  BY <1>1, <1>2 DEF Pairs, InHand, Has

LEMMA PairsStep ==
  OaInv /\ Pairs /\ ConnectedIsUsable /\ [OaNext]_oaVars => Pairs' /\ ConnectedIsUsable'
<1> SUFFICES ASSUME OaInv, Pairs, ConnectedIsUsable, [OaNext]_oaVars
             PROVE  Pairs' /\ ConnectedIsUsable'
  OBVIOUS
<1>t. oaFaults \in Nat /\ conn \in Connection
  BY OaTyped, OaBounds
<1>f. OaFault => oaFaults' > 0
  BY <1>t DEF OaFault
<1>e. ASSUME NEW q \in OaRequests, OaEnds(q) \/ OaFails(q)
      PROVE  Moves(q) /\ oaReq'[q].step \in {"ended", "refreshFailed"} /\ ~Has(q)'
  BY <1>e, OaEndsMoves, OaFailsMoves DEF Has
(* Who puts no pair into the row, and has none it lets go of.              *)
<1>k. ASSUME NEW q \in OaRequests, Moves(q), UNCHANGED <<issued, live>>, ~Has(q)',
             oaReq[q].step # "refreshed" \/ oaFaults' > 0,
             \/ UNCHANGED conn
             \/ conn'.status # "CONNECTED" /\ conn'.pair \in {conn.pair, 0},
             oaReq'[q].step = "refreshing" => oaReq'[q].old = conn.pair,
             UNCHANGED oaFaults \/ oaFaults' > 0
      PROVE  Pairs' /\ ConnectedIsUsable'
  <2>1. Pairs'
    BY <1>k, PairsStay
  <2>2. CASE conn'.status # "CONNECTED"
    BY <2>1, <2>2 DEF ConnectedIsUsable
  <2>3. CASE UNCHANGED conn
    <3>1. CASE oaFaults' > 0
      BY <2>1, <2>3, <3>1 DEF ConnectedIsUsable
    <3>2. CASE UNCHANGED oaFaults /\ oaReq[q].step # "refreshed"
      BY <1>k, <2>1, <2>3, <3>2 DEF ConnectedIsUsable, Succeeds, Moves
    <3> QED  BY <1>k, <3>1, <3>2
  <2> QED  BY <1>k, <2>1, <2>2, <2>3
(* Who connects with the pair it has.                                      *)
<1>p. ASSUME NEW q \in OaRequests, Moves(q), UNCHANGED <<issued, live>>, ~Has(q)', Has(q),
             oaReq'[q].step = "ended", conn'.pair = oaReq[q].new
      PROVE  Pairs' /\ ConnectedIsUsable'
  <2>1. Pairs'
    BY <1>p, PairsStay
  <2>2. conn'.pair \in live /\ conn'.pair # 0
    BY <1>p, PairTypes DEF Pairs, InHand
  <2> QED  BY <1>p, <2>1, <2>2 DEF ConnectedIsUsable
(* A pair whose answer is lost.                                            *)
<1>l. ASSUME NEW q \in OaRequests, NEW used, LosePair(used), OaEnds(q) \/ OaFails(q),
             UNCHANGED conn, used \subseteq {oaReq[q].old},
             used # {} => oaReq[q].step = "refreshing", ~Has(q)
      PROVE  Pairs' /\ ConnectedIsUsable'
  <2>1. Moves(q) /\ ~Has(q)' /\ oaReq'[q].step # "refreshing"
    BY <1>e, <1>l
  <2>2. Pairs' /\ oaFaults' > 0
    BY <1>f, <1>l, <2>1, PairsIssued DEF LosePair
  <2> QED  BY <1>l, <2>2 DEF ConnectedIsUsable
<1>1. ASSUME NEW q \in OaRequests, StartConnect(q) PROVE Pairs' /\ ConnectedIsUsable'
  <2>1. conn'.status # "CONNECTED" /\ conn'.pair = conn.pair
    BY <1>1, <1>t DEF StartConnect, Connection
  <2> QED  BY <1>1, <1>e, <1>k, <2>1 DEF StartConnect, OaArrives, zaloVars
<1>2. ASSUME NEW q \in OaRequests, FindState(q) PROVE Pairs' /\ ConnectedIsUsable'
  <2>1. CASE OaEnds(q)
    BY <1>2, <1>e, <1>k, <2>1 DEF FindState, OaArrives, zaloVars
  <2>2. ASSUME NEW s \in 1..states, OaReads(q, "exchanging", s, 0)
        PROVE  Pairs' /\ ConnectedIsUsable'
    <3>1. s \in Nat
      BY OaTyped
    <3>2. Moves(q) /\ oaReq'[q].step = "exchanging" /\ ~Has(q)'
      BY <2>2, <3>1, OaReadsMoves DEF OaSteps, Has
    <3> QED  BY <1>2, <1>k, <3>2 DEF FindState, OaArrives, zaloVars
  <2> QED  BY <1>2, <2>1, <2>2 DEF FindState
<1>3. ASSUME NEW q \in OaRequests, ExchangeCode(q) PROVE Pairs' /\ ConnectedIsUsable'
  <2>1. UNCHANGED conn /\ oaReq[q].step = "exchanging" /\ ~Has(q)
    BY <1>3 DEF ExchangeCode, OaAt, Has
  <2>2. ASSUME IssuePair(q, {}), UNCHANGED oaFaults PROVE Pairs' /\ ConnectedIsUsable'
    <3>1. /\ Moves(q) /\ issued' = issued + 1 /\ live' = (live \ {}) \cup {issued'}
          /\ oaReq'[q].step = "obtained" /\ oaReq'[q].new = issued'
      BY <2>1, <2>2, IssueMoves
    <3>2. Pairs'
      BY <2>1, <3>1, PairsIssued
    <3>3. ConnectedIsUsable'
      BY <2>1, <2>2, <3>1 DEF ConnectedIsUsable, Succeeds, Moves
    <3> QED  BY <3>2, <3>3
  <2>3. ASSUME LosePair({}), OaEnds(q) PROVE Pairs' /\ ConnectedIsUsable'
    BY <1>l, <2>1, <2>3
  <2>4. ASSUME OaEnds(q), UNCHANGED <<zaloVars, oaFaults>> PROVE Pairs' /\ ConnectedIsUsable'
    BY <1>e, <1>k, <2>1, <2>4 DEF zaloVars
  <2> QED  BY <1>3, <2>2, <2>3, <2>4 DEF ExchangeCode
<1>4. ASSUME NEW q \in OaRequests, SaveConnection(q) PROVE Pairs' /\ ConnectedIsUsable'
  <2>1. conn'.pair = oaReq[q].new /\ Has(q)
    BY <1>4, <1>t DEF SaveConnection, Connected, Connection, OaAt, Has
  <2>2. Moves(q) /\ ~Has(q)' /\ oaReq'[q].step = "ended"
    BY <1>4, OaEndsMoves DEF SaveConnection, Has
  <2> QED  BY <1>4, <1>p, <2>1, <2>2 DEF SaveConnection, zaloVars
<1>5. ASSUME NEW q \in OaRequests, BeginDisconnect(q) PROVE Pairs' /\ ConnectedIsUsable'
  <2>1. Moves(q) /\ oaReq'[q].step # "refreshing" /\ ~Has(q)'
    <3>1. CASE OaReads(q, "disconnecting", 0, 0)
      BY <3>1, OaReadsMoves DEF OaSteps, Has
    <3> QED  BY <1>5, <1>e, <3>1 DEF BeginDisconnect
  <2> QED  BY <1>5, <1>k, <2>1 DEF BeginDisconnect, OaArrives, zaloVars
<1>6. ASSUME NEW q \in OaRequests, CommitDisconnect(q) PROVE Pairs' /\ ConnectedIsUsable'
  <2>1. conn'.status # "CONNECTED" /\ conn'.pair = 0
    BY <1>6 DEF CommitDisconnect
  <2> QED  BY <1>6, <1>e, <1>k, <2>1 DEF CommitDisconnect, OaAt, zaloVars
<1>7. ASSUME NEW q \in OaRequests, UseToken(q) PROVE Pairs' /\ ConnectedIsUsable'
  <2>1. Moves(q) /\ ~Has(q)' /\ (oaReq'[q].step = "refreshing" => oaReq'[q].old = conn.pair)
    <3>1. CASE OaReads(q, "refreshing", 0, conn.pair)
      BY <3>1, PairTypes, OaReadsMoves DEF OaSteps, Has
    <3> QED  BY <1>7, <1>e, <3>1 DEF UseToken
  <2> QED  BY <1>7, <1>k, <2>1 DEF UseToken, OaArrives, zaloVars
<1>8. ASSUME NEW q \in OaRequests, Refresh(q) PROVE Pairs' /\ ConnectedIsUsable'
  <2>1. UNCHANGED conn /\ oaReq[q].step = "refreshing" /\ ~Has(q)
    BY <1>8 DEF Refresh, OaAt, Has
  <2>2. ASSUME IssuePair(q, {oaReq[q].old}), UNCHANGED oaFaults PROVE Pairs' /\ ConnectedIsUsable'
    <3>1. /\ Moves(q) /\ issued' = issued + 1 /\ live' = (live \ {oaReq[q].old}) \cup {issued'}
          /\ oaReq'[q].step = "refreshed" /\ oaReq'[q].new = issued'
          /\ oaReq'[q].old = oaReq[q].old
      BY <2>1, <2>2, IssueMoves
    <3>2. Pairs'
      BY <2>1, <3>1, PairsIssued
    <3>3. \A p \in OaRequests : Succeeds(p, conn.pair) => Succeeds(p, conn.pair)'
      BY <2>1, <3>1 DEF Succeeds, Moves
    <3>4. conn.pair \in live => conn.pair \in live' \/ Succeeds(q, conn.pair)'
      BY <2>1, <3>1 DEF Succeeds
    <3>5. ConnectedIsUsable'
      BY <2>1, <2>2, <3>3, <3>4 DEF ConnectedIsUsable
    <3> QED  BY <3>2, <3>5
  <2>3. ASSUME LosePair({oaReq[q].old}), OaFails(q) PROVE Pairs' /\ ConnectedIsUsable'
    BY <1>l, <2>1, <2>3
  <2>4. ASSUME OaFails(q), UNCHANGED <<issued, live>>, OaFault \/ UNCHANGED oaFaults
        PROVE  Pairs' /\ ConnectedIsUsable'
    BY <1>e, <1>f, <1>k, <2>1, <2>4
  <2> QED  BY <1>8, <2>2, <2>3, <2>4 DEF Refresh
<1>9. ASSUME NEW q \in OaRequests, PersistPair(q) PROVE Pairs' /\ ConnectedIsUsable'
  <2>1. CASE OaEnds(q) /\ conn' = Connected(q)
    <3>1. conn'.pair = oaReq[q].new /\ Has(q)
      BY <1>9, <1>t, <2>1 DEF PersistPair, Connected, Connection, OaAt, Has
    <3>2. Moves(q) /\ ~Has(q)' /\ oaReq'[q].step = "ended"
      BY <2>1, OaEndsMoves DEF Has
    <3> QED  BY <1>9, <1>p, <3>1, <3>2 DEF PersistPair, zaloVars
  <2>2. CASE OaFault /\ OaFails(q) /\ UNCHANGED conn
    BY <1>9, <1>e, <1>f, <1>k, <2>2 DEF PersistPair, zaloVars
  <2> QED  BY <1>9, <2>1, <2>2 DEF PersistPair
<1>10. ASSUME NEW q \in OaRequests, MarkTokenExpired(q) PROVE Pairs' /\ ConnectedIsUsable'
  <2>1. conn'.status # "CONNECTED" /\ conn'.pair = conn.pair
    BY <1>10, <1>t DEF MarkTokenExpired, Connection
  <2> QED  BY <1>10, <1>e, <1>k, <2>1 DEF MarkTokenExpired, OaAt, zaloVars
<1>11. ASSUME NEW q \in OaRequests, CrashOa(q) PROVE Pairs' /\ ConnectedIsUsable'
  BY <1>11, <1>e, <1>f, <1>k DEF CrashOa, zaloVars
<1>12. CASE NearsExpiry
  <2>1. /\ conn'.status = conn.status /\ conn'.pair = conn.pair
        /\ UNCHANGED <<issued, live, oaReq, oaFaults>>
    BY <1>12, <1>t DEF NearsExpiry, Connection, zaloVars
  <2> QED  BY <2>1 DEF Pairs, InHand, Has, ConnectedIsUsable, Succeeds
<1>13. CASE UNCHANGED oaVars
  BY <1>13 DEF oaVars, Pairs, InHand, Has, ConnectedIsUsable, Succeeds
<1> QED
  BY <1>1, <1>2, <1>3, <1>4, <1>5, <1>6, <1>7, <1>8, <1>9, <1>10, <1>11, <1>12, <1>13
  DEF OaNext, OaStep

-----------------------------------------------------------------------------
(* Disconnects                                                             *)

(* A request that may connect the row has read it while it was not         *)
(* disconnected: before the last disconnect, if it is now.                 *)
MayConnect(q) == oaReq[q].step \in {"exchanging", "obtained", "refreshing", "refreshed"}
Seen ==
  /\ conn.status = "DISCONNECTED" => conn.state = 0
  /\ \A q \in OaRequests : MayConnect(q) =>
       /\ oaReq[q].seen <= disconnects
       /\ conn.status = "DISCONNECTED" => oaReq[q].seen < disconnects

LEMMA SeenInit == OaInit => Seen
BY DEF OaInit, OaIdle, Seen, MayConnect

LEMMA SeenStep == OaInv /\ Seen /\ [OaNext]_oaVars => Seen'
<1> SUFFICES ASSUME OaInv, Seen, [OaNext]_oaVars PROVE Seen'
  OBVIOUS
<1>t. conn \in Connection /\ disconnects \in Nat /\ \A q \in OaRequests : oaReq[q].seen \in Nat
  BY OaTyped
<1>e. ASSUME NEW q \in OaRequests, OaEnds(q) \/ OaFails(q) PROVE Moves(q) /\ ~MayConnect(q)'
  BY <1>e, OaEndsMoves, OaFailsMoves DEF MayConnect
<1>k. ASSUME NEW q \in OaRequests, Moves(q), UNCHANGED disconnects,
             UNCHANGED conn \/ conn'.status # "DISCONNECTED",
             MayConnect(q)' => \/ MayConnect(q) /\ oaReq'[q].seen = oaReq[q].seen
                               \/ oaReq'[q].seen = disconnects /\ conn.status # "DISCONNECTED"
      PROVE  Seen'
  <2>1. conn'.status = "DISCONNECTED" => conn'.state = 0
    BY <1>k DEF Seen
  <2>2. ASSUME NEW p \in OaRequests, MayConnect(p)'
        PROVE  /\ oaReq'[p].seen <= disconnects'
               /\ conn'.status = "DISCONNECTED" => oaReq'[p].seen < disconnects'
    <3>1. CASE p = q /\ ~(MayConnect(q) /\ oaReq'[q].seen = oaReq[q].seen)
      BY <1>k, <1>t, <2>2, <3>1
    <3>2. CASE MayConnect(p) /\ oaReq'[p].seen = oaReq[p].seen
      BY <1>k, <3>2 DEF Seen
    <3>3. CASE p # q
      BY <1>k, <2>2, <3>2, <3>3 DEF Moves, MayConnect
    <3> QED  BY <3>1, <3>2, <3>3
  <2> QED  BY <2>1, <2>2 DEF Seen
<1>1. ASSUME NEW q \in OaRequests, StartConnect(q) PROVE Seen'
  <2>1. conn'.status # "DISCONNECTED"
    BY <1>1, <1>t DEF StartConnect, Connection
  <2> QED  BY <1>1, <1>e, <1>k, <2>1 DEF StartConnect
<1>2. ASSUME NEW q \in OaRequests, FindState(q) PROVE Seen'
  <2>1. CASE OaEnds(q)
    BY <1>2, <1>e, <1>k, <2>1 DEF FindState
  <2>2. ASSUME NEW s \in 1..states, s = conn.state, OaReads(q, "exchanging", s, 0) PROVE Seen'
    <3>1. s \in Nat /\ s # 0
      BY OaTyped
    <3>2. Moves(q) /\ oaReq'[q].seen = disconnects /\ conn.status # "DISCONNECTED"
      BY <2>2, <3>1, OaReadsMoves DEF OaSteps, Seen
    <3> QED  BY <1>2, <1>k, <3>2 DEF FindState
  <2> QED  BY <1>2, <2>1, <2>2 DEF FindState
<1>3. ASSUME NEW q \in OaRequests, ExchangeCode(q) \/ Refresh(q) PROVE Seen'
  <2>1. UNCHANGED <<conn, disconnects>> /\ MayConnect(q)
    BY <1>3 DEF ExchangeCode, Refresh, OaAt, MayConnect
  <2>2. ASSUME NEW used, IssuePair(q, used) PROVE Seen'
    <3>1. Moves(q) /\ oaReq'[q].seen = oaReq[q].seen
      BY <2>2, IssueMoves
    <3> QED  BY <1>k, <2>1, <3>1
  <2>3. CASE OaEnds(q) \/ OaFails(q)
    BY <1>e, <1>k, <2>1, <2>3
  <2> QED  BY <1>3, <2>2, <2>3 DEF ExchangeCode, Refresh
<1>4. ASSUME NEW q \in OaRequests, SaveConnection(q) \/ PersistPair(q) PROVE Seen'
  <2>1. UNCHANGED conn \/ conn' = Connected(q) \/ conn' = [Connected(q) EXCEPT !.state = 0]
    BY <1>4 DEF SaveConnection, PersistPair
  <2>2. UNCHANGED conn \/ conn'.status # "DISCONNECTED"
    BY <1>t, <2>1 DEF Connected, Connection
  <2> QED  BY <1>4, <1>e, <1>k, <2>2 DEF SaveConnection, PersistPair
<1>5. ASSUME NEW q \in OaRequests, BeginDisconnect(q) PROVE Seen'
  <2>1. Moves(q) /\ ~MayConnect(q)'
    <3>1. CASE OaReads(q, "disconnecting", 0, 0)
      BY <3>1, OaReadsMoves DEF OaSteps, MayConnect
    <3> QED  BY <1>5, <1>e, <3>1 DEF BeginDisconnect
  <2> QED  BY <1>5, <1>k, <2>1 DEF BeginDisconnect
<1>6. ASSUME NEW q \in OaRequests, CommitDisconnect(q) PROVE Seen'
  <2>1. /\ Moves(q) /\ ~MayConnect(q)' /\ conn'.state = 0 /\ disconnects' = disconnects + 1
    BY <1>6, <1>e DEF CommitDisconnect
  <2>2. ASSUME NEW p \in OaRequests, MayConnect(p)' PROVE oaReq'[p].seen < disconnects'
    <3>1. MayConnect(p) /\ oaReq'[p] = oaReq[p]
      BY <2>1, <2>2 DEF Moves, MayConnect
    <3>2. oaReq[p].seen <= disconnects /\ oaReq[p].seen \in Nat
      BY <1>t, <3>1 DEF Seen
    <3> QED  BY <1>t, <2>1, <3>1, <3>2
  <2>3. \A p \in OaRequests : MayConnect(p)' => oaReq'[p].seen <= disconnects'
    <3>1. ASSUME NEW p \in OaRequests, MayConnect(p)' PROVE oaReq'[p].seen <= disconnects'
      <4>1. oaReq'[p] = oaReq[p]
        BY <2>1, <3>1 DEF Moves, MayConnect
      <4> QED  BY <1>t, <2>1, <2>2, <3>1, <4>1
    <3> QED  BY <3>1
  <2> QED  BY <2>1, <2>2, <2>3 DEF Seen
<1>7. ASSUME NEW q \in OaRequests, UseToken(q) PROVE Seen'
  <2>1. CASE OaEnds(q)
    BY <1>7, <1>e, <1>k, <2>1 DEF UseToken
  <2>2. CASE conn.status = "CONNECTED" /\ OaReads(q, "refreshing", 0, conn.pair)
    <3>1. Moves(q) /\ oaReq'[q].seen = disconnects
      BY <2>2, PairTypes, OaReadsMoves DEF OaSteps
    <3> QED  BY <1>7, <1>k, <2>2, <3>1 DEF UseToken
  <2> QED  BY <1>7, <2>1, <2>2 DEF UseToken
<1>8. ASSUME NEW q \in OaRequests, MarkTokenExpired(q) PROVE Seen'
  <2>1. conn'.status # "DISCONNECTED"
    BY <1>8, <1>t DEF MarkTokenExpired, Connection
  <2> QED  BY <1>8, <1>e, <1>k, <2>1 DEF MarkTokenExpired
<1>9. ASSUME NEW q \in OaRequests, CrashOa(q) PROVE Seen'
  BY <1>9, <1>e, <1>k DEF CrashOa
<1>10. CASE NearsExpiry
  <2>1. /\ conn'.status = conn.status /\ conn'.state = conn.state
        /\ UNCHANGED <<oaReq, disconnects>>
    BY <1>10, <1>t DEF NearsExpiry, Connection
  <2> QED  BY <2>1 DEF Seen, MayConnect
<1>11. CASE UNCHANGED oaVars
  BY <1>11 DEF oaVars, Seen, MayConnect
<1> QED
  BY <1>1, <1>2, <1>3, <1>4, <1>5, <1>6, <1>7, <1>8, <1>9, <1>10, <1>11 DEF OaNext, OaStep

(* The step of StaysDisconnected.                                          *)
Reconnects ==
  conn.status = "DISCONNECTED" /\ conn'.status = "CONNECTED" =>
    \E q \in OaRequests : /\ oaReq[q].step \in {"obtained", "refreshed"}
                          /\ oaReq'[q].step = "ended"
                          /\ oaReq[q].seen < disconnects

LEMMA ReconnectStep == OaInv /\ Seen /\ [OaNext]_oaVars => [Reconnects]_oaVars
<1> SUFFICES ASSUME OaInv, Seen, [OaNext]_oaVars,
                    conn.status = "DISCONNECTED", conn'.status = "CONNECTED"
             PROVE  Reconnects
  BY DEF Reconnects
<1>t. conn \in Connection
  BY OaTyped
<1>1. ASSUME NEW q \in OaRequests, SaveConnection(q) \/ PersistPair(q) PROVE Reconnects
  <2>1. oaReq[q].step \in {"obtained", "refreshed"} /\ oaReq[q].seen < disconnects
    BY <1>1 DEF SaveConnection, PersistPair, OaAt, Seen, MayConnect
  <2>2. OaEnds(q)
    BY <1>1 DEF SaveConnection, PersistPair
  <2>3. oaReq'[q].step = "ended"
    BY <2>2, OaEndsMoves
  <2> QED  BY <2>1, <2>3 DEF Reconnects
<1>2. ASSUME NEW q \in OaRequests, StartConnect(q) \/ CommitDisconnect(q) \/ MarkTokenExpired(q)
      PROVE  FALSE
  <2>1. CASE StartConnect(q)
    BY <1>t, <2>1 DEF StartConnect, Connection
  <2>2. CASE CommitDisconnect(q)
    BY <2>2 DEF CommitDisconnect
  <2>3. CASE MarkTokenExpired(q)
    BY <1>t, <2>3 DEF MarkTokenExpired, Connection
  <2> QED  BY <1>2, <2>1, <2>2, <2>3
<1>3. CASE NearsExpiry
  BY <1>3, <1>t DEF NearsExpiry, Connection
<1>4. ASSUME NEW q \in OaRequests,
             \/ FindState(q) \/ ExchangeCode(q) \/ BeginDisconnect(q) \/ UseToken(q)
             \/ Refresh(q) \/ CrashOa(q)
      PROVE  FALSE
  BY <1>4 DEF FindState, ExchangeCode, BeginDisconnect, UseToken, Refresh, CrashOa
<1>5. CASE UNCHANGED oaVars
  BY <1>5 DEF oaVars
<1> QED  BY <1>1, <1>2, <1>3, <1>4, <1>5 DEF OaNext, OaStep

-----------------------------------------------------------------------------
(* Types of templates                                                      *)

(* What a request writes is the template it read.                          *)
Knows(r) ==
  review[r].step = "writing" =>
    /\ review[r].op # "create" => review[r].template \in Templates
    /\ review[r].op = "create" => review[r].attempts < CodeAttempts

TemplateInv ==
  /\ template \in [Templates -> Template]
  /\ submission \in [Templates -> Seq(SubmissionRow)]
  /\ approved \in [Templates -> Nat]
  /\ review \in [Reviewers -> Review]
  /\ overlapped \in BOOLEAN
  /\ \A t, u \in Templates : template[t].code = template[u].code /\ t # u
                             => template[t].code = "none"
  /\ \A r \in Reviewers : Knows(r)

Turns(r) == /\ review' \in [Reviewers -> Review]
            /\ \A s \in Reviewers : s # r => review'[s] = review[s]

LEMMA EndTurns ==
  ASSUME TemplateInv, NEW r \in Reviewers, EndReview(r)
  PROVE  Turns(r) /\ review'[r].step = "ended"
<1>1. Resting("ended") \in Review /\ Resting("ended").step = "ended"
  BY TemplateBounds DEF Resting, Review, Operations
<1> QED  BY <1>1 DEF EndReview, Turns, TemplateInv

LEMMA BeginTurns ==
  ASSUME TemplateInv, NEW r \in Reviewers, NEW op \in Operations,
         NEW t \in Templates \cup {"none"},
         review' = [review EXCEPT ![r] = [step |-> "writing", op |-> op, template |-> t,
                                          attempts |-> 0]]
  PROVE  /\ Turns(r) /\ review'[r].step = "writing" /\ review'[r].op = op
         /\ review'[r].template = t /\ review'[r].attempts = 0
<1>1. [step |-> "writing", op |-> op, template |-> t, attempts |-> 0] \in Review
  BY TemplateBounds DEF Review
<1> QED  BY <1>1 DEF Turns, TemplateInv

LEMMA LogRow ==
  ASSUME TemplateInv, NEW t \in Templates, NEW status \in StaffStatus, NEW given \in BOOLEAN,
         Logs(t, status, given)
  PROVE  /\ submission' \in [Templates -> Seq(SubmissionRow)]
         /\ submission'[t] # <<>> /\ Last(submission'[t]).status = status
         /\ Last(submission'[t]).provider = given
         /\ \A u \in Templates : u # t => submission'[u] = submission[u]
<1> DEFINE row == [status |-> status, provider |-> given]
           log == Append(submission[t], row)
<1>1. row \in SubmissionRow
  BY DEF SubmissionRow
<1>2. submission[t] \in Seq(SubmissionRow)
  BY DEF TemplateInv
<1>3. submission' = [submission EXCEPT ![t] = log]
  BY DEF Logs
<1> HIDE DEF row
<1>4. log \in Seq(SubmissionRow) /\ Len(log) = Len(submission[t]) + 1 /\ log[Len(log)] = row
      /\ log # <<>>
  BY <1>1, <1>2
<1> HIDE DEF log
<1>5. Last(log).status = status /\ Last(log).provider = given
  BY <1>4 DEF Last, row
<1> QED  BY <1>3, <1>4, <1>5 DEF TemplateInv

LEMMA TemplateTypeInit == TemplateInit => TemplateInv
<1> SUFFICES ASSUME TemplateInit PROVE TemplateInv
  OBVIOUS
<1>1. NoTemplate \in Template /\ NoTemplate.code = "none"
  BY DEF NoTemplate, Template, TemplateStatus
<1>2. \A c \in Codes : Draft(c) \in Template /\ Draft(c).code = c
  BY <1>1 DEF Draft, NoTemplate, Template, TemplateStatus
<1>3. /\ template \in [Templates -> Template]
      /\ \A t, u \in Templates : template[t].code = template[u].code /\ t # u
                                 => template[t].code = "none"
  <2>1. CASE template = [t \in Templates |-> NoTemplate]
    BY <1>1, <2>1
  <2>2. ASSUME NEW u \in Templates, NEW c \in Codes,
               template = [t \in Templates |-> IF t = u THEN Draft(c) ELSE NoTemplate]
        PROVE  /\ template \in [Templates -> Template]
               /\ \A t, v \in Templates : template[t].code = template[v].code /\ t # v
                                          => template[t].code = "none"
    BY <1>1, <1>2, <2>2
  <2> QED  BY <2>1, <2>2 DEF TemplateInit
<1>4. submission \in [Templates -> Seq(SubmissionRow)]
  BY DEF TemplateInit
<1>5. review \in [Reviewers -> Review] /\ \A r \in Reviewers : Knows(r)
  BY TemplateBounds DEF TemplateInit, Resting, Review, Operations, Knows
<1>6. approved \in [Templates -> Nat] /\ overlapped \in BOOLEAN
  BY DEF TemplateInit
<1> QED  BY <1>3, <1>4, <1>5, <1>6 DEF TemplateInv

LEMMA TemplateTypeStep == TemplateInv /\ [TemplateNext]_templateVars => TemplateInv'
<1> SUFFICES ASSUME TemplateInv, [TemplateNext]_templateVars PROVE TemplateInv'
  OBVIOUS
<1>t. /\ template \in [Templates -> Template] /\ approved \in [Templates -> Nat]
      /\ \A t \in Templates : template[t] \in Template /\ template[t].version \in Nat
  BY DEF TemplateInv, Template
(* The template that is written has a code of its own or the one it had.   *)
<1>k. ASSUME NEW r \in Reviewers, EndReview(r), NEW t \in Templates, NEW row \in Template,
             template' = [template EXCEPT ![t] = row],
             row.code = template[t].code \/ CodeFree(row.code, t),
             submission' \in [Templates -> Seq(SubmissionRow)],
             approved' \in [Templates -> Nat], UNCHANGED overlapped
      PROVE  TemplateInv'
  <2>1. Turns(r) /\ review'[r].step = "ended"
    BY <1>k, EndTurns
  <2>2. template' \in [Templates -> Template] /\ template'[t] = row
        /\ \A u \in Templates : u # t => template'[u] = template[u]
    BY <1>k, <1>t
  <2>3. \A u \in Templates : u # t /\ template[u].code = row.code => row.code = "none"
    BY <1>k DEF CodeFree, TemplateInv
  <2>4. \A u, v \in Templates : template'[u].code = template'[v].code /\ u # v
                                => template'[u].code = "none"
    BY <2>2, <2>3 DEF TemplateInv
  <2> QED  BY <1>k, <2>1, <2>2, <2>4 DEF TemplateInv, Turns, Knows
<1>s. ASSUME NEW r \in Reviewers, UNCHANGED <<template, submission, approved>>, Turns(r),
             overlapped' \in BOOLEAN, Knows(r)'
      PROVE  TemplateInv'
  BY <1>s DEF TemplateInv, Turns, Knows
<1>w. ASSUME NEW r \in Reviewers, review[r].step = "writing", review[r].op # "create"
      PROVE  Subject(r) \in Templates
  BY <1>w DEF TemplateInv, Knows, Subject
<1>1. ASSUME NEW r \in Reviewers, BeginReview(r) PROVE TemplateInv'
  <2>1. PICK op \in Operations, t \in Templates \cup {"none"} :
          /\ Accepts(op, t)
          /\ review' = [review EXCEPT ![r] = [step |-> "writing", op |-> op, template |-> t,
                                              attempts |-> 0]]
    BY <1>1 DEF BeginReview
  <2>2. op # "create" => t \in Templates
    BY <2>1 DEF Accepts, Operations
  <2>3. Turns(r) /\ Knows(r)'
    <3>1. /\ Turns(r) /\ review'[r].op = op /\ review'[r].template = t
          /\ review'[r].attempts = 0
      BY <2>1, BeginTurns
    <3> QED  BY <2>2, <3>1, TemplateBounds DEF Knows
  <2>4. overlapped' \in BOOLEAN
    BY <1>1, Zenon DEF BeginReview, TemplateInv
  <2> QED  BY <1>1, <1>s, <2>3, <2>4 DEF BeginReview
<1>2. ASSUME NEW r \in Reviewers, Insert(r) PROVE TemplateInv'
  <2>1. UNCHANGED <<submission, approved, overlapped>> /\ review[r].step = "writing"
        /\ review[r].op = "create"
    BY <1>2 DEF Insert, Writes
  <2>2. CASE EndReview(r) /\ UNCHANGED template
    BY <1>s, <2>1, <2>2, EndTurns DEF TemplateInv, Knows
  <2>3. ASSUME NEW t \in Templates, NEW c \in Codes, CodeFree(c, t),
               template' = [template EXCEPT ![t] = Draft(c)], EndReview(r)
        PROVE  TemplateInv'
    <3>1. Draft(c) \in Template /\ Draft(c).code = c
      BY DEF Draft, NoTemplate, Template, TemplateStatus
    <3> QED  BY <1>k, <2>1, <2>3, <3>1 DEF TemplateInv
  <2>4. CASE /\ review[r].attempts + 1 < CodeAttempts
             /\ review' = [review EXCEPT ![r].attempts = @ + 1] /\ UNCHANGED template
    <3>1. review[r] \in Review /\ review[r].attempts + 1 \in 0..CodeAttempts
      BY <2>4, TemplateBounds DEF TemplateInv, Review
    <3>2. [review[r] EXCEPT !.attempts = @ + 1] \in Review
      BY <3>1 DEF Review
    <3>3. Turns(r) /\ review'[r] = [review[r] EXCEPT !.attempts = @ + 1]
      BY <2>4, <3>2 DEF TemplateInv, Turns
    <3>4. Knows(r)'
      BY <2>1, <2>4, <3>1, <3>3 DEF Knows, Review
    <3> QED  BY <1>s, <2>1, <2>4, <3>3, <3>4 DEF TemplateInv
  <2> QED  BY <1>2, <2>2, <2>3, <2>4 DEF Insert
<1>3. ASSUME NEW r \in Reviewers, WriteUpdate(r) PROVE TemplateInv'
  <2>1. Subject(r) \in Templates /\ EndReview(r) /\ UNCHANGED <<submission, approved, overlapped>>
    BY <1>3, <1>w DEF WriteUpdate, Writes
  <2>2. CASE UNCHANGED template
    BY <1>s, <2>1, <2>2, EndTurns DEF TemplateInv, Knows
  <2>3. ASSUME NEW c \in Codes, CodeFree(c, Subject(r)),
               template' = [template EXCEPT ![Subject(r)].version = @ + 1,
                                            ![Subject(r)].code = c]
        PROVE  TemplateInv'
    <3>1. PICK t \in Templates : t = Subject(r)
      BY <2>1
    <3> DEFINE row == [template[t] EXCEPT !.version = @ + 1, !.code = c]
    <3>2. template[t] \in Template /\ template[t].version + 1 \in Nat
      BY <1>t
    <3>3. row \in Template /\ row.code = c
      BY <3>2 DEF Template
    <3>4. template' = [template EXCEPT ![t] = row]
      BY <1>t, <2>3, <3>1
    <3> HIDE DEF row
    <3> QED  BY <1>k, <2>1, <2>3, <3>1, <3>3, <3>4 DEF TemplateInv
  <2> QED  BY <1>3, <2>2, <2>3 DEF WriteUpdate
<1>4. ASSUME NEW r \in Reviewers, WritePrice(r) PROVE TemplateInv'
  <2>1. PICK t \in Templates : t = Subject(r)
    BY <1>4, <1>w DEF WritePrice, Writes
  <2> DEFINE row == [template[t] EXCEPT !.priced = TRUE]
  <2>2. row \in Template /\ row.code = template[t].code
    BY <1>t DEF Template
  <2>3. template' = [template EXCEPT ![t] = row]
    BY <1>4, <2>1 DEF WritePrice
  <2> HIDE DEF row
  <2> QED  BY <1>4, <1>k, <2>2, <2>3 DEF WritePrice, TemplateInv
<1>5. ASSUME NEW r \in Reviewers, WriteSubmit(r) \/ WriteDisable(r) PROVE TemplateInv'
  <2>1. PICK t \in Templates : t = Subject(r)
    BY <1>5, <1>w DEF WriteSubmit, WriteDisable, Writes
  <2>2. PICK status \in {"PENDING_ZALO_APPROVAL", "DISABLED"} :
          template' = [template EXCEPT ![t].status = status]
    BY <1>5, <2>1 DEF WriteSubmit, WriteDisable
  <2> DEFINE row == [template[t] EXCEPT !.status = status]
  <2>3. row \in Template /\ row.code = template[t].code
    BY <1>t DEF Template, TemplateStatus
  <2>4. template' = [template EXCEPT ![t] = row]
    BY <2>2
  <2> HIDE DEF row
  <2>5. submission' \in [Templates -> Seq(SubmissionRow)]
    <3>1. CASE Logs(t, "PENDING_ZALO_APPROVAL", FALSE)
      BY <3>1, LogRow DEF StaffStatus
    <3> QED  BY <1>5, <2>1, <3>1 DEF WriteSubmit, WriteDisable, TemplateInv
  <2>6. EndReview(r) /\ UNCHANGED <<approved, overlapped>>
    BY <1>5 DEF WriteSubmit, WriteDisable
  <2> QED  BY <1>k, <1>t, <2>3, <2>4, <2>5, <2>6
<1>6. ASSUME NEW r \in Reviewers, WriteStaff(r) PROVE TemplateInv'
  <2>1. PICK t \in Templates : t = Subject(r)
    BY <1>6, <1>w DEF WriteStaff, Writes
  <2>2. PICK status \in StaffStatus, given \in BOOLEAN :
          /\ Logs(t, status, given)
          /\ template' = [template EXCEPT ![t].status = status,
                            ![t].provider = IF status = "APPROVED" THEN given ELSE @]
          /\ approved' = IF status = "APPROVED"
                         THEN [approved EXCEPT ![t] = template[t].version] ELSE approved
    BY <1>6, <2>1 DEF WriteStaff
  <2> DEFINE row == [template[t] EXCEPT !.status = status,
                       !.provider = IF status = "APPROVED" THEN given ELSE @]
  <2>3. row \in Template /\ row.code = template[t].code
    BY <1>t DEF Template, TemplateStatus, StaffStatus
  <2>4. template' = [template EXCEPT ![t] = row]
    BY <1>t, <2>2
  <2> HIDE DEF row
  <2>5. submission' \in [Templates -> Seq(SubmissionRow)] /\ approved' \in [Templates -> Nat]
    BY <1>t, <2>2, LogRow
  <2>6. EndReview(r) /\ UNCHANGED overlapped
    BY <1>6 DEF WriteStaff
  <2> QED  BY <1>k, <2>3, <2>4, <2>5, <2>6
<1>7. CASE UNCHANGED templateVars
  BY <1>7 DEF templateVars, TemplateInv, Knows
<1> QED
  BY <1>1, <1>2, <1>3, <1>4, <1>5, <1>6, <1>7 DEF TemplateNext, ReviewStep

-----------------------------------------------------------------------------
(* What each operation does to status, version and providerTemplateId.     *)

Kept(t) == /\ template'[t].status = template[t].status
           /\ template'[t].version = template[t].version
           /\ template'[t].provider = template[t].provider

LEMMA SubjectIsTemplate ==
  ASSUME TemplateInv, NEW r \in Reviewers, review[r].step = "writing", review[r].op # "create"
  PROVE  Subject(r) \in Templates /\ template[Subject(r)] \in Template
BY DEF TemplateInv, Knows, Subject

LEMMA InsertDoes ==
  ASSUME TemplateInv, NEW r \in Reviewers, Insert(r)
  PROVE  /\ UNCHANGED <<submission, approved, overlapped>>
         /\ \A t \in Templates :
              \/ Kept(t)
              \/ template[t].status = "none" /\ template'[t].status = "DRAFT"
<1>1. CASE UNCHANGED template
  BY <1>1 DEF Insert, Kept
<1>2. ASSUME NEW t \in Templates, NEW c \in Codes, template[t].status = "none",
             template' = [template EXCEPT ![t] = Draft(c)]
      PROVE  \A u \in Templates : Kept(u) \/ (template[u].status = "none"
                                             /\ template'[u].status = "DRAFT")
  <2>1. Draft(c).status = "DRAFT"
    BY DEF Draft, NoTemplate
  <2> QED  BY <1>2, <2>1 DEF Kept, TemplateInv
<1> QED  BY <1>1, <1>2 DEF Insert

LEMMA UpdateDoes ==
  ASSUME TemplateInv, NEW r \in Reviewers, WriteUpdate(r)
  PROVE  /\ UNCHANGED <<submission, approved, overlapped>> /\ Subject(r) \in Templates
         /\ \A t \in Templates : /\ template'[t].status = template[t].status
                                 /\ template'[t].provider = template[t].provider
                                 /\ t # Subject(r) => Kept(t)
<1>1. Subject(r) \in Templates /\ template[Subject(r)] \in Template
  BY SubjectIsTemplate DEF WriteUpdate, Writes
<1>2. CASE UNCHANGED template
  BY <1>1, <1>2 DEF WriteUpdate, Kept
<1>3. ASSUME NEW c \in Codes, template' = [template EXCEPT ![Subject(r)].version = @ + 1,
                                                           ![Subject(r)].code = c]
      PROVE  \A t \in Templates : /\ template'[t].status = template[t].status
                                  /\ template'[t].provider = template[t].provider
                                  /\ t # Subject(r) => Kept(t)
  BY <1>1, <1>3 DEF Kept, TemplateInv, Template
<1> QED  BY <1>1, <1>2, <1>3 DEF WriteUpdate

LEMMA PriceDoes ==
  ASSUME TemplateInv, NEW r \in Reviewers, WritePrice(r)
  PROVE  /\ UNCHANGED <<submission, approved, overlapped>>
         /\ \A t \in Templates : Kept(t)
<1>1. Subject(r) \in Templates /\ template[Subject(r)] \in Template
  BY SubjectIsTemplate DEF WritePrice, Writes
<1> QED  BY <1>1 DEF WritePrice, Kept, TemplateInv, Template

(* submit, disable and the reviews set the status of the one template.     *)
SetsStatus(r, status) ==
  /\ Subject(r) \in Templates
  /\ template'[Subject(r)].status = status
  /\ template'[Subject(r)].version = template[Subject(r)].version
  /\ \A t \in Templates : t # Subject(r) => Kept(t)
  /\ UNCHANGED overlapped

LEMMA SubmitDoes ==
  ASSUME TemplateInv, NEW r \in Reviewers, WriteSubmit(r)
  PROVE  /\ SetsStatus(r, "PENDING_ZALO_APPROVAL") /\ UNCHANGED approved
         /\ submission'[Subject(r)] # <<>>
         /\ Last(submission'[Subject(r)]).status = "PENDING_ZALO_APPROVAL"
         /\ \A t \in Templates : t # Subject(r) => submission'[t] = submission[t]
<1>1. Subject(r) \in Templates /\ template[Subject(r)] \in Template
  BY SubjectIsTemplate DEF WriteSubmit, Writes
<1>2. SetsStatus(r, "PENDING_ZALO_APPROVAL") /\ UNCHANGED approved
  BY <1>1 DEF WriteSubmit, SetsStatus, Kept, TemplateInv, Template
<1>3. Logs(Subject(r), "PENDING_ZALO_APPROVAL", FALSE)
  BY DEF WriteSubmit
<1> QED  BY <1>1, <1>2, <1>3, LogRow DEF StaffStatus

LEMMA DisableDoes ==
  ASSUME TemplateInv, NEW r \in Reviewers, WriteDisable(r)
  PROVE  SetsStatus(r, "DISABLED") /\ UNCHANGED <<submission, approved>>
<1>1. Subject(r) \in Templates /\ template[Subject(r)] \in Template
  BY SubjectIsTemplate DEF WriteDisable, Writes
<1> QED  BY <1>1 DEF WriteDisable, SetsStatus, Kept, TemplateInv, Template

LEMMA StaffDoes ==
  ASSUME TemplateInv, NEW r \in Reviewers, WriteStaff(r)
  PROVE  \E status \in StaffStatus, given \in BOOLEAN :
           /\ SetsStatus(r, status)
           /\ status = "APPROVED" => template'[Subject(r)].provider = given
           /\ approved'[Subject(r)] = IF status = "APPROVED" THEN template[Subject(r)].version
                                                             ELSE approved[Subject(r)]
           /\ \A t \in Templates : t # Subject(r) => approved'[t] = approved[t]
           /\ submission'[Subject(r)] # <<>>
           /\ Last(submission'[Subject(r)]).status = status
           /\ Last(submission'[Subject(r)]).provider = given
           /\ \A t \in Templates : t # Subject(r) => submission'[t] = submission[t]
<1>1. Subject(r) \in Templates /\ template[Subject(r)] \in Template
  BY SubjectIsTemplate DEF WriteStaff, Writes
<1>2. PICK t \in Templates : t = Subject(r)
  BY <1>1
<1>3. PICK status \in StaffStatus, given \in BOOLEAN :
        /\ Logs(t, status, given)
        /\ template' = [template EXCEPT ![t].status = status,
                          ![t].provider = IF status = "APPROVED" THEN given ELSE @]
        /\ approved' = IF status = "APPROVED"
                       THEN [approved EXCEPT ![t] = template[t].version] ELSE approved
  BY <1>2 DEF WriteStaff
<1>4. /\ template'[t].status = status /\ template'[t].version = template[t].version
      /\ status = "APPROVED" => template'[t].provider = given
      /\ \A u \in Templates : u # t => template'[u] = template[u]
  BY <1>1, <1>2, <1>3 DEF TemplateInv, Template
<1>5. /\ submission'[t] # <<>> /\ Last(submission'[t]).status = status
      /\ Last(submission'[t]).provider = given
      /\ \A u \in Templates : u # t => submission'[u] = submission[u]
  BY <1>3, LogRow
<1>6. /\ approved'[t] = IF status = "APPROVED" THEN template[t].version ELSE approved[t]
      /\ \A u \in Templates : u # t => approved'[u] = approved[u]
  BY <1>3 DEF TemplateInv
<1>7. SetsStatus(r, status)
  <2>1. UNCHANGED overlapped
    BY DEF WriteStaff
  <2> QED  BY <1>2, <1>4, <2>1 DEF SetsStatus, Kept
<1> QED  BY <1>2, <1>4, <1>5, <1>6, <1>7

-----------------------------------------------------------------------------
(* Statuses are logged                                                     *)

Logged(t) ==
  template[t].status \notin {"none", "DRAFT", "DISABLED"} =>
    /\ submission[t] # <<>>
    /\ Last(submission[t]).status = template[t].status
    /\ template[t].status = "APPROVED" => Last(submission[t]).provider = template[t].provider

LEMMA Unreviewed ==
  ASSUME TemplateInit
  PROVE  \A t \in Templates : template[t].status \in {"none", "DRAFT"}
<1>1. NoTemplate.status = "none" /\ \A c \in Codes : Draft(c).status = "DRAFT"
  BY DEF NoTemplate, Draft
<1>2. CASE template = [t \in Templates |-> NoTemplate]
  BY <1>1, <1>2
<1>3. ASSUME NEW u \in Templates, NEW c \in Codes,
             template = [t \in Templates |-> IF t = u THEN Draft(c) ELSE NoTemplate]
      PROVE  \A t \in Templates : template[t].status \in {"none", "DRAFT"}
  BY <1>1, <1>3
<1> QED  BY <1>2, <1>3 DEF TemplateInit

LEMMA LoggedInit == TemplateInit => \A t \in Templates : Logged(t)
BY Unreviewed DEF Logged

LEMMA LoggedStep ==
  ASSUME TemplateInv, \A t \in Templates : Logged(t), [TemplateNext]_templateVars
  PROVE  \A t \in Templates : Logged(t)'
<1> SUFFICES ASSUME NEW t \in Templates PROVE Logged(t)'
  OBVIOUS
<1>k. ASSUME Kept(t), submission'[t] = submission[t] PROVE Logged(t)'
  BY <1>k DEF Logged, Kept
<1>1. ASSUME NEW r \in Reviewers, BeginReview(r) PROVE Logged(t)'
  BY <1>1, <1>k DEF BeginReview, Kept
<1>2. ASSUME NEW r \in Reviewers, Insert(r) PROVE Logged(t)'
  <2>1. CASE Kept(t)
    BY <1>2, <1>k, <2>1, InsertDoes
  <2>2. CASE template'[t].status = "DRAFT"
    BY <2>2 DEF Logged
  <2> QED  BY <1>2, <2>1, <2>2, InsertDoes
<1>3. ASSUME NEW r \in Reviewers, WriteUpdate(r) PROVE Logged(t)'
  <2>1. /\ template'[t].status = template[t].status /\ submission'[t] = submission[t]
        /\ template'[t].provider = template[t].provider
    BY <1>3, UpdateDoes
  <2> QED  BY <2>1 DEF Logged
<1>4. ASSUME NEW r \in Reviewers, WritePrice(r) PROVE Logged(t)'
  BY <1>4, <1>k, PriceDoes
<1>5. ASSUME NEW r \in Reviewers, WriteSubmit(r) PROVE Logged(t)'
  <2>1. CASE t = Subject(r)
    <3>1. /\ template'[t].status = "PENDING_ZALO_APPROVAL" /\ submission'[t] # <<>>
          /\ Last(submission'[t]).status = "PENDING_ZALO_APPROVAL"
      BY <1>5, <2>1, SubmitDoes DEF SetsStatus
    <3> QED  BY <3>1 DEF Logged
  <2>2. CASE t # Subject(r)
    BY <1>5, <1>k, <2>2, SubmitDoes DEF SetsStatus
  <2> QED  BY <2>1, <2>2
<1>6. ASSUME NEW r \in Reviewers, WriteDisable(r) PROVE Logged(t)'
  <2>1. CASE t = Subject(r)
    <3>1. template'[t].status = "DISABLED"
      BY <1>6, <2>1, DisableDoes DEF SetsStatus
    <3> QED  BY <3>1 DEF Logged
  <2>2. CASE t # Subject(r)
    BY <1>6, <1>k, <2>2, DisableDoes DEF SetsStatus
  <2> QED  BY <2>1, <2>2
<1>7. ASSUME NEW r \in Reviewers, WriteStaff(r) PROVE Logged(t)'
  <2>1. CASE t = Subject(r)
    <3>1. /\ submission'[t] # <<>> /\ Last(submission'[t]).status = template'[t].status
          /\ template'[t].status = "APPROVED" =>
               Last(submission'[t]).provider = template'[t].provider
      BY <1>7, <2>1, StaffDoes DEF SetsStatus
    <3> QED  BY <3>1 DEF Logged
  <2>2. CASE t # Subject(r)
    BY <1>7, <1>k, <2>2, StaffDoes DEF SetsStatus
  <2> QED  BY <2>1, <2>2
<1>8. CASE UNCHANGED templateVars
  BY <1>8, <1>k DEF templateVars, Kept
<1> QED
  BY <1>1, <1>2, <1>3, <1>4, <1>5, <1>6, <1>7, <1>8 DEF TemplateNext, ReviewStep

-----------------------------------------------------------------------------
(* Requests on templates that do not overlap                               *)

Serving(r) == review[r].step = "writing"

(* What a request that meets no other has read still holds.                *)
StillTrue(r) ==
  Serving(r) => /\ review[r].op = "update" => Editable(Subject(r))
                /\ review[r].op = "submit" => Submittable(Subject(r))

Serial ==
  ~overlapped =>
    /\ \A r, s \in Reviewers : Serving(r) /\ Serving(s) => r = s
    /\ \A r \in Reviewers : StillTrue(r)
    /\ \A t \in Templates : template[t].status = "APPROVED" => template[t].version = approved[t]

LEMMA SerialInit == TemplateInit => Serial
<1> SUFFICES ASSUME TemplateInit PROVE Serial
  OBVIOUS
<1>1. \A r \in Reviewers : ~Serving(r)
  BY DEF TemplateInit, Resting, Serving
<1> QED  BY <1>1, Unreviewed DEF Serial, StillTrue

LEMMA SerialStep == TemplateInv /\ Serial /\ [TemplateNext]_templateVars => Serial'
<1> SUFFICES ASSUME TemplateInv, Serial, [TemplateNext]_templateVars PROVE Serial'
  OBVIOUS
(* The request that was served alone ends.                                 *)
<1>e. ASSUME NEW r \in Reviewers, Serving(r), EndReview(r), UNCHANGED overlapped,
             ~overlapped => \A t \in Templates :
               template'[t].status = "APPROVED" => template'[t].version = approved'[t]
      PROVE  Serial'
  <2> SUFFICES ASSUME ~overlapped' PROVE Serial'
    BY DEF Serial
  <2>1. \A s \in Reviewers : ~Serving(s)'
    BY <1>e, EndTurns DEF Serial, Serving, Turns
  <2> QED  BY <1>e, <2>1 DEF Serial, StillTrue
<1>k. ASSUME ~overlapped, NEW t \in Templates, Kept(t), approved'[t] = approved[t],
             template'[t].status = "APPROVED"
      PROVE  template'[t].version = approved'[t]
  BY <1>k DEF Kept, Serial
<1>1. ASSUME NEW r \in Reviewers, BeginReview(r) PROVE Serial'
  <2> SUFFICES ASSUME ~overlapped' PROVE Serial'
    BY DEF Serial
  <2>1. ~overlapped /\ ReviewsInFlight = {}
    BY <1>1, Zenon DEF BeginReview
  <2>2. PICK op \in Operations, t \in Templates \cup {"none"} :
          /\ Accepts(op, t)
          /\ review' = [review EXCEPT ![r] = [step |-> "writing", op |-> op, template |-> t,
                                              attempts |-> 0]]
    BY <1>1 DEF BeginReview
  <2>3. Turns(r) /\ review'[r].op = op /\ review'[r].template = t
    BY <2>2, BeginTurns
  <2>4. \A s \in Reviewers : s # r => ~Serving(s)'
    BY <2>1, <2>3 DEF ReviewsInFlight, Serving, Turns
  <2>5. UNCHANGED <<template, approved>>
    BY <1>1 DEF BeginReview
  <2>6. (op = "update" => Editable(t)) /\ (op = "submit" => Submittable(t))
    BY <2>2 DEF Accepts
  <2>7. StillTrue(r)'
    BY <2>3, <2>5, <2>6 DEF StillTrue, Subject, Editable, Submittable
  <2>8. \A s \in Reviewers : StillTrue(s)'
    BY <2>4, <2>7 DEF StillTrue
  <2> QED  BY <2>1, <2>4, <2>5, <2>8 DEF Serial
<1>2. ASSUME NEW r \in Reviewers, Insert(r) PROVE Serial'
  <2>1. /\ UNCHANGED <<approved, overlapped>> /\ Serving(r) /\ review[r].op = "create"
        /\ \A t \in Templates : Kept(t) \/ template'[t].status = "DRAFT"
    BY <1>2, InsertDoes DEF Insert, Writes, Serving
  <2>2. ~overlapped => \A t \in Templates :
          template'[t].status = "APPROVED" => template'[t].version = approved'[t]
    BY <1>k, <2>1
  <2>3. CASE EndReview(r)
    BY <1>e, <2>1, <2>2, <2>3
  <2>4. CASE review' = [review EXCEPT ![r].attempts = @ + 1]
    <3> SUFFICES ASSUME ~overlapped' PROVE Serial'
      BY DEF Serial
    <3>1. /\ review'[r].op = "create"
          /\ \A s \in Reviewers : s # r => review'[s] = review[s]
      BY <2>1, <2>4 DEF TemplateInv, Review
    <3>2. \A s \in Reviewers : s # r => ~Serving(s)'
      BY <2>1, <3>1 DEF Serial, Serving
    <3>3. \A s \in Reviewers : StillTrue(s)'
      BY <3>1, <3>2 DEF StillTrue
    <3> QED  BY <2>1, <2>2, <3>2, <3>3 DEF Serial
  <2> QED  BY <1>2, <2>3, <2>4 DEF Insert
<1>3. ASSUME NEW r \in Reviewers, WriteUpdate(r) PROVE Serial'
  <2>1. EndReview(r) /\ Serving(r) /\ review[r].op = "update"
    BY <1>3 DEF WriteUpdate, Writes, Serving
  <2>2. ~overlapped => template[Subject(r)].status # "APPROVED"
    BY <2>1 DEF Serial, StillTrue, Editable
  <2>3. /\ UNCHANGED <<approved, overlapped>>
        /\ \A t \in Templates : /\ template'[t].status = template[t].status
                                /\ t # Subject(r) => Kept(t)
    BY <1>3, UpdateDoes
  <2>4. ~overlapped => \A t \in Templates :
          template'[t].status = "APPROVED" => template'[t].version = approved'[t]
    BY <1>k, <2>2, <2>3
  <2> QED  BY <1>e, <2>1, <2>3, <2>4
<1>4. ASSUME NEW r \in Reviewers, WritePrice(r) PROVE Serial'
  <2>1. EndReview(r) /\ Serving(r)
    BY <1>4 DEF WritePrice, Writes, Serving
  <2>2. UNCHANGED <<approved, overlapped>> /\ \A t \in Templates : Kept(t)
    BY <1>4, PriceDoes
  <2> QED  BY <1>e, <1>k, <2>1, <2>2
<1>5. ASSUME NEW r \in Reviewers, WriteSubmit(r) \/ WriteDisable(r) PROVE Serial'
  <2>1. EndReview(r) /\ Serving(r)
    BY <1>5 DEF WriteSubmit, WriteDisable, Writes, Serving
  <2>2. /\ UNCHANGED <<approved, overlapped>> /\ template'[Subject(r)].status # "APPROVED"
        /\ \A t \in Templates : t # Subject(r) => Kept(t)
    BY <1>5, SubmitDoes, DisableDoes DEF SetsStatus
  <2> QED  BY <1>e, <1>k, <2>1, <2>2
<1>6. ASSUME NEW r \in Reviewers, WriteStaff(r) PROVE Serial'
  <2>1. EndReview(r) /\ Serving(r)
    BY <1>6 DEF WriteStaff, Writes, Serving
  <2>2. /\ UNCHANGED overlapped
        /\ template'[Subject(r)].status = "APPROVED" =>
             template'[Subject(r)].version = approved'[Subject(r)]
        /\ \A t \in Templates : t # Subject(r) => Kept(t) /\ approved'[t] = approved[t]
    BY <1>6, StaffDoes DEF SetsStatus
  <2>3. ~overlapped => \A t \in Templates :
          template'[t].status = "APPROVED" => template'[t].version = approved'[t]
    BY <1>k, <2>2
  <2> QED  BY <1>e, <2>1, <2>2, <2>3
<1>7. CASE UNCHANGED templateVars
  BY <1>7 DEF templateVars, Serial, Serving, StillTrue, Subject, Editable, Submittable
<1> QED
  BY <1>1, <1>2, <1>3, <1>4, <1>5, <1>6, <1>7 DEF TemplateNext, ReviewStep

(* The step of DisabledUntilStaff.                                         *)
Revives(t) ==
  template[t].status = "DISABLED" /\ template'[t].status # "DISABLED" /\ ~overlapped =>
    \E r \in Reviewers : Writes(r, "staff") /\ review'[r].step = "ended"

LEMMA ReviveStep ==
  ASSUME TemplateInv, Serial, TemplateNext, NEW t \in Templates
  PROVE  Revives(t)
<1> SUFFICES ASSUME template[t].status = "DISABLED", template'[t].status # "DISABLED", ~overlapped
             PROVE  \E r \in Reviewers : Writes(r, "staff") /\ review'[r].step = "ended"
  BY DEF Revives
<1>1. ASSUME NEW r \in Reviewers, BeginReview(r) PROVE FALSE
  BY <1>1 DEF BeginReview
<1>2. ASSUME NEW r \in Reviewers, Insert(r) PROVE FALSE
  BY <1>2, InsertDoes DEF Kept
<1>3. ASSUME NEW r \in Reviewers, WriteUpdate(r) \/ WritePrice(r) PROVE FALSE
  BY <1>3, UpdateDoes, PriceDoes DEF Kept
<1>4. ASSUME NEW r \in Reviewers, WriteSubmit(r) PROVE FALSE
  <2>1. t = Subject(r)
    BY <1>4, SubmitDoes DEF SetsStatus, Kept
  <2>2. Serving(r) /\ review[r].op = "submit"
    BY <1>4 DEF WriteSubmit, Writes, Serving
  <2> QED  BY <2>1, <2>2 DEF Serial, StillTrue, Submittable
<1>5. ASSUME NEW r \in Reviewers, WriteDisable(r) PROVE FALSE
  BY <1>5, DisableDoes DEF SetsStatus, Kept
<1>6. ASSUME NEW r \in Reviewers, WriteStaff(r)
      PROVE  Writes(r, "staff") /\ review'[r].step = "ended"
  BY <1>6, EndTurns DEF WriteStaff
<1> QED
  BY <1>1, <1>2, <1>3, <1>4, <1>5, <1>6 DEF TemplateNext, ReviewStep

-----------------------------------------------------------------------------
(* The channel: the connection and its templates                           *)

ChannelInv ==
  /\ OaInv /\ Pairs /\ ConnectedIsUsable /\ Seen
  /\ TemplateInv /\ (\A t \in Templates : Logged(t)) /\ Serial

LEMMA PartsStep == [ChannelNext]_channelVars => [OaNext]_oaVars /\ [TemplateNext]_templateVars
<1>1. ASSUME NEW r \in Reviewers, ReviewStep(r) PROVE UNCHANGED oaVars
  BY <1>1 DEF ReviewStep, BeginReview, Insert, WriteUpdate, WritePrice, WriteSubmit,
              WriteDisable, WriteStaff
<1> QED  BY <1>1 DEF ChannelNext, channelVars, TemplateNext

LEMMA Inductive == ChannelSpec => []ChannelInv
<1>1. ChannelInit => ChannelInv
  BY OaTypeInit, PairsInit, SeenInit, TemplateTypeInit, LoggedInit, SerialInit
     DEF ChannelInit, ChannelInv
<1>2. ChannelInv /\ [ChannelNext]_channelVars => ChannelInv'
  <2> SUFFICES ASSUME ChannelInv, [OaNext]_oaVars, [TemplateNext]_templateVars
               PROVE  ChannelInv'
    BY PartsStep
  <2>1. OaInv' /\ Pairs' /\ ConnectedIsUsable' /\ Seen'
    BY OaTypeStep, PairsStep, SeenStep DEF ChannelInv
  <2>2. TemplateInv' /\ (\A t \in Templates : Logged(t))' /\ Serial'
    BY TemplateTypeStep, LoggedStep, SerialStep DEF ChannelInv
  <2> QED  BY <2>1, <2>2 DEF ChannelInv
<1> QED  BY <1>1, <1>2, PTL DEF ChannelSpec

(* The rows of connections, templates and their submission log, and every  *)
(* request in flight on them, keep their types, and no two templates have  *)
(* one code, whatever the order of the requests' reads and writes.         *)
THEOREM TypeCorrect == ChannelSpec => []ChannelTypeOK
<1>1. ChannelInv => ChannelTypeOK
  <2> SUFFICES ASSUME ChannelInv PROVE ChannelTypeOK
    OBVIOUS
  <2>1. \A t \in Templates : \A i \in DOMAIN submission[t] : submission[t][i] \in SubmissionRow
    <3> SUFFICES ASSUME NEW t \in Templates, NEW i \in DOMAIN submission[t]
                 PROVE  submission[t][i] \in SubmissionRow
      OBVIOUS
    <3>1. submission[t] \in Seq(SubmissionRow)
      BY DEF ChannelInv, TemplateInv
    <3> QED  BY <3>1, LenProperties, ElementOfSeq
  <2> QED  BY <2>1 DEF ChannelInv, OaInv, TemplateInv, ChannelTypeOK, TemplateTypeOK
<1> QED  BY <1>1, Inductive, PTL

(* A CONNECTED row has a pair of tokens that Zalo still accepts, or whose  *)
(* successor a request has in hand, unless a fault has lost it: refreshes, *)
(* callbacks and disconnects may overlap in any number.                    *)
THEOREM ConnectedUsable == ChannelSpec => []ConnectedIsUsable
<1>1. ChannelInv => ConnectedIsUsable
  BY DEF ChannelInv
<1> QED  BY <1>1, Inductive, PTL

(* A disconnected account is connected again only by a request that read   *)
(* the row before it was disconnected or after a new startConnect.         *)
THEOREM DisconnectedStays == ChannelSpec => StaysDisconnected
<1>1. ChannelInv /\ [ChannelNext]_channelVars => [Reconnects]_oaVars
  BY PartsStep, ReconnectStep DEF ChannelInv
<1> QED  BY <1>1, Inductive, PTL DEF ChannelSpec, StaysDisconnected, Reconnects

(* The status a template was given last by submit or by staff is the last  *)
(* one of its submission log, because both are written in one transaction. *)
THEOREM StatusesAreLogged == ChannelSpec => []StatusIsLogged
<1>1. ChannelInv => StatusIsLogged
  BY DEF ChannelInv, Logged, StatusIsLogged
<1> QED  BY <1>1, Inductive, PTL

(* Without requests that overlap, an approved template is the version that *)
(* staff approved: update looks at the status, though not when it writes.  *)
THEOREM ApprovedReadOnly == ChannelSpec => []ApprovedIsReadOnly
<1>1. ChannelInv => ApprovedIsReadOnly
  BY DEF ChannelInv, Serial, ApprovedIsReadOnly
<1> QED  BY <1>1, Inductive, PTL

(* Without requests that overlap, a disabled template is brought back only *)
(* by staff, submit having looked at the status.                           *)
THEOREM DisabledStays == ChannelSpec => DisabledUntilStaff
<1>1. ChannelInv /\ [ChannelNext]_channelVars => [\A t \in Templates : Revives(t)]_channelVars
  <2> SUFFICES ASSUME ChannelInv, ChannelNext, NEW t \in Templates PROVE Revives(t)
    OBVIOUS
  <2>1. CASE TemplateNext
    BY <2>1, ReviveStep DEF ChannelInv
  <2>2. CASE UNCHANGED templateVars
    BY <2>2 DEF templateVars, Revives
  <2> QED  BY <2>1, <2>2 DEF ChannelNext
<1> QED  BY <1>1, Inductive, PTL DEF ChannelSpec, DisabledUntilStaff, Revives
=============================================================================
