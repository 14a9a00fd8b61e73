--------------------------- MODULE IngressProofs ---------------------------
(***************************************************************************)
(* Proofs about Ingress, with Router and DBSC, for any tunnels, requests,  *)
(* sessions and device keys.                                               *)
(***************************************************************************)
EXTENDS Ingress, TLAPS

(* A request in proxyToTunnel: the values of req. *)
Proxied == [at : Stages, tunnel : Tunnels \cup {NoTunnel}]

(* A request that goes to another stage keeps its tunnel. *)
LEMMA GoesTyped ==
  ASSUME RouterTypeOK, NEW r \in Requests, NEW stage \in Stages, Goes(r, stage)
  PROVE  req' \in [Requests -> Proxied]
<1>1. [req[r] EXCEPT !.at = stage] \in Proxied
  BY DEF RouterTypeOK, Proxied
<1> QED BY <1>1 DEF Goes, RouterTypeOK, Proxied

(* One that proxyToTunnel is through with has none. *)
LEMMA LeavesTyped ==
  ASSUME RouterTypeOK, NEW r \in Requests, NEW stage \in Stages, Leaves(r, stage)
  PROVE  /\ req' \in [Requests -> Proxied]
         /\ client' \in [Requests -> {"open", "stalled", "closed"}]
<1>1. [at |-> stage, tunnel |-> NoTunnel] \in Proxied
  BY DEF Proxied
<1> QED BY <1>1 DEF Leaves, RouterTypeOK, Proxied

(* The steps of the request goroutines and of the listener keep the types.  *)
LEMMA RouterTypeInductive == RouterTypeOK /\ [RouterNext]_routerVars => RouterTypeOK'
<1> SUFFICES ASSUME RouterTypeOK, [RouterNext]_routerVars PROVE RouterTypeOK'
  OBVIOUS
<1> USE DEF RouterTypeOK, Stages, Elsewhere
<1>1. ASSUME NEW t \in Tunnels, Accept(t) PROVE RouterTypeOK'
  BY <1>1 DEF Accept
<1>2. ASSUME NEW t \in Tunnels, TunnelCloses(t) PROVE RouterTypeOK'
  BY <1>2 DEF TunnelCloses
<1>3. ASSUME NEW r \in Requests, Arrive(r) PROVE RouterTypeOK'
  <2>1. req' \in [Requests -> Proxied]
    BY <1>3, GoesTyped DEF Arrive
  <2> QED BY <1>3, <2>1 DEF Arrive, Proxied
<1>4. ASSUME NEW r \in Requests, Lookup(r) PROVE RouterTypeOK'
  <2> DEFINE q == [req[r] EXCEPT !.tunnel = activeTunnel,
                                 !.at = IF activeTunnel = NoTunnel THEN "mux" ELSE "found"]
  <2>1. q \in Proxied
    BY DEF Proxied
  <2>2. req' = [req EXCEPT ![r] = q]
    BY <1>4 DEF Lookup
  <2> QED BY <1>4, <2>1, <2>2 DEF Lookup, Proxied
<1>5. ASSUME NEW r \in Requests, OpenStream(r) PROVE RouterTypeOK'
  <2>1. /\ req' \in [Requests -> Proxied]
        /\ client' \in [Requests -> {"open", "stalled", "closed"}]
    BY <1>5, GoesTyped, LeavesTyped DEF OpenStream
  <2> QED BY <1>5, <2>1 DEF OpenStream, Proxied
<1>6. ASSUME NEW r \in Requests, WriteRequest(r) \/ WriteFails(r) PROVE RouterTypeOK'
  <2>1. /\ req' \in [Requests -> Proxied]
        /\ client' \in [Requests -> {"open", "stalled", "closed"}]
    BY <1>6, GoesTyped, LeavesTyped DEF WriteRequest, WriteFails
  <2> QED BY <1>6, <2>1 DEF WriteRequest, WriteFails, Proxied
<1>7. ASSUME NEW r \in Requests, ReadResponse(r) \/ ReadFails(r) \/ Respond(r) PROVE RouterTypeOK'
  <2>1. /\ req' \in [Requests -> Proxied]
        /\ client' \in [Requests -> {"open", "stalled", "closed"}]
    BY <1>7, GoesTyped, LeavesTyped DEF ReadResponse, ReadFails, Respond
  <2> QED BY <1>7, <2>1 DEF ReadResponse, ReadFails, Respond, Proxied
<1>8. ASSUME NEW r \in Requests, Upgrade(r) PROVE RouterTypeOK'
  <2>1. req' \in [Requests -> Proxied]
    BY <1>8, GoesTyped DEF Upgrade
  <2> QED BY <1>8, <2>1 DEF Upgrade, Proxied
<1>9. ASSUME NEW r \in Requests, ClientStalls(r) \/ ClientResumes(r) \/ ClientCloses(r)
      PROVE RouterTypeOK'
  BY <1>9 DEF ClientStalls, ClientResumes, ClientCloses, ClientChanges
<1>10. ASSUME NEW r \in Requests, NEW d \in {"up", "down"}, CopyEnds(r, d) PROVE RouterTypeOK'
  <2>1. /\ req' \in [Requests -> Proxied]
        /\ client' \in [Requests -> {"open", "stalled", "closed"}]
    BY <1>10, LeavesTyped DEF CopyEnds, Proxied
  <2> QED BY <1>10, <2>1 DEF CopyEnds, Proxied
<1>11. CASE UNCHANGED routerVars
  BY <1>11 DEF routerVars
<1> QED
  BY <1>1, <1>2, <1>3, <1>4, <1>5, <1>6, <1>7, <1>8, <1>9, <1>10, <1>11 DEF RouterNext, Proxy

(* A record that is replaced or expires keeps the types. *)
LEMMA BindTyped ==
  ASSUME D!DBSCTypeOK, NEW s \in Sessions, NEW k \in D!Registered \cup {"no record"}, D!Bind(s, k)
  PROVE  /\ record' \in [Sessions -> D!Registered \cup {"no record"}]
         /\ bound' \in [Requests -> SUBSET Keys]
<1>1. \A h \in Requests : bound[h] \cup ({k} \cap Keys) \in SUBSET Keys
  BY DEF D!DBSCTypeOK
<1> QED BY <1>1 DEF D!Bind, D!DBSCTypeOK

(* The steps of the mux and of the DBSC handlers keep the types. *)
LEMMA TypeInductive == TypeOK /\ [Next]_ingressVars => TypeOK'
<1> SUFFICES ASSUME TypeOK, [Next]_ingressVars PROVE TypeOK'
  OBVIOUS
<1> USE DEF TypeOK, D!DBSCTypeOK, D!Invocations, D!Stages, D!NotCalled, D!Registered
<1>1. CASE RouterNext /\ UNCHANGED dbscVars
  BY <1>1, RouterTypeInductive DEF dbscVars
<1>2. ASSUME NEW r \in Requests, Mux(r) PROVE TypeOK'
  <2>1. CASE Serve(r)
    <3>1. RouterTypeOK'
      BY <2>1, RouterTypeInductive DEF Serve
    <3>2. ASSUME NEW s \in Sessions, NEW k \in D!Registered, D!StartSession(r, s, k) PROVE TypeOK'
      BY <3>1, <3>2 DEF D!StartSession
    <3>3. ASSUME NEW s \in Sessions, D!Refresh(r, s) PROVE TypeOK'
      BY <3>1, <3>3 DEF D!Refresh
    <3> QED BY <2>1, <3>2, <3>3 DEF Serve
  <2>2. CASE ServePage(r)
    <3>1. req' \in [Requests -> Proxied]
      BY <2>2, GoesTyped DEF ServePage, Stages
    <3> QED BY <2>2, <3>1 DEF ServePage, RouterTypeOK, Proxied, Elsewhere, dbscVars
  <2>3. CASE ServeEnds(r)
    <3>1. req' \in [Requests -> Proxied]
      BY <2>3, GoesTyped DEF ServeEnds, Stages
    <3>2. D!DBSCTypeOK'
      BY <2>3 DEF ServeEnds, D!Return
    <3> QED BY <2>3, <3>1, <3>2 DEF ServeEnds, RouterTypeOK, Proxied, Elsewhere
  <2>4. CASE D!DBSCWork(r) /\ UNCHANGED routerVars
    <3>1. RouterTypeOK'
      BY <2>4, RouterTypeInductive
    <3>2. CASE D!SaveSession(r)
      <4>1. handler[r] \in D!Invocations
        BY <3>2 DEF D!SaveSession
      <4>2. [handler[r] EXCEPT !.at = "over"] \in D!Invocations
        BY <4>1
      <4>3. handler' \in [Requests -> D!Invocations \cup {D!NotCalled}]
        BY <3>2, <4>2 DEF D!SaveSession
      <4>4. handler[r].session \in Sessions /\ handler[r].key \in D!Registered
        BY <4>1
      <4>5. /\ record' \in [Sessions -> D!Registered \cup {"no record"}]
            /\ bound' \in [Requests -> SUBSET Keys]
        BY <3>2, <4>4, BindTyped DEF D!SaveSession
      <4> QED BY <3>1, <4>3, <4>5
    <3>3. CASE D!LoadSession(r)
      <4>1. handler[r] \in D!Invocations
        BY <3>3 DEF D!LoadSession
      <4>2. D!StoredKey(handler[r].session) \in D!Registered
        BY <4>1 DEF D!StoredKey
      <4>3. PICK at \in {"over", "checking"}, k \in D!Registered :
              handler' = [handler EXCEPT ![r].at = at, ![r].key = k]
        BY <3>3, <4>2 DEF D!LoadSession
      <4>4. [handler[r] EXCEPT !.at = at, !.key = k] \in D!Invocations
        BY <4>1, <4>3
      <4>5. handler' \in [Requests -> D!Invocations \cup {D!NotCalled}]
        BY <4>3, <4>4
      <4> QED BY <3>1, <3>3, <4>5 DEF D!LoadSession
    <3>4. ASSUME NEW signer \in D!Answers, D!CheckAnswer(r, signer) PROVE TypeOK'
      BY <3>1, <3>4 DEF D!CheckAnswer, D!Answers
    <3> QED BY <2>4, <3>2, <3>3, <3>4 DEF D!DBSCWork
  <2> QED BY <1>2, <2>1, <2>2, <2>3, <2>4 DEF Mux
<1>3. ASSUME NEW s \in Sessions, D!Expire(s) /\ UNCHANGED routerVars PROVE TypeOK'
  <2>1. RouterTypeOK'
    BY <1>3, RouterTypeInductive
  <2> QED BY <1>3, <2>1 DEF D!Expire, D!Bind
<1>4. CASE UNCHANGED ingressVars
  BY <1>4, RouterTypeInductive DEF ingressVars, dbscVars
<1> QED BY <1>1, <1>2, <1>3, <1>4 DEF Next

(* A Router that has booted: no tunnel, no request, no session record. *)
LEMMA InitTyped == Init => TypeOK
<1> SUFFICES ASSUME Init PROVE TypeOK
  OBVIOUS
<1>1. [at |-> "idle", tunnel |-> NoTunnel] \in Proxied
  BY DEF Proxied, Stages
<1>2. RouterTypeOK
  BY <1>1 DEF Init, RouterInit, RouterTypeOK, Proxied
<1>3. D!DBSCTypeOK
  BY DEF Init, D!DBSCInit, D!DBSCTypeOK
<1> QED BY <1>2, <1>3 DEF TypeOK

(* The state of the proxy, of its requests and of the DBSC handlers keeps   *)
(* its type.                                                                *)
THEOREM TypeCorrect == Spec => []TypeOK
<1>1. Init => TypeOK
  BY InitTyped
<1> QED BY <1>1, TypeInductive, PTL DEF Spec

-----------------------------------------------------------------------------
(* What the stage of a request says about who has got it: a request is      *)
(* forwarded when a write to its stream begins and served when it goes to   *)
(* the mux, and neither stage leads to the other before the slot is used    *)
(* for another request.                                                     *)
StageTells ==
    \A r \in Requests :
      /\ req[r].at \in {"arrived", "found", "opened", "mux"} => r \notin forwarded
      /\ req[r].at \in {"arrived", "found", "opened", "written", "responding", "copying"}
           => r \notin served

ProxyInv == TypeOK /\ StageTells /\ HandledOnce

(* Every step of a request keeps what its stage tells. *)
LEMMA StageInductive == ProxyInv /\ [Next]_ingressVars => StageTells' /\ HandledOnce'
<1> SUFFICES ASSUME ProxyInv, [Next]_ingressVars PROVE StageTells' /\ HandledOnce'
  OBVIOUS
<1> USE DEF ProxyInv, TypeOK, RouterTypeOK, StageTells, HandledOnce, At, Goes, Leaves, Elsewhere
<1>1. CASE UNCHANGED <<req, forwarded, served>>
  BY <1>1
<1>2. ASSUME NEW r \in Requests, Arrive(r)
      PROVE StageTells' /\ HandledOnce'
  BY <1>2 DEF Arrive
<1>3. ASSUME NEW r \in Requests, Lookup(r) PROVE StageTells' /\ HandledOnce'
  BY <1>3 DEF Lookup
<1>4. ASSUME NEW r \in Requests, OpenStream(r) PROVE StageTells' /\ HandledOnce'
  BY <1>4 DEF OpenStream
<1>5. ASSUME NEW r \in Requests, WriteRequest(r) \/ WriteFails(r)
      PROVE StageTells' /\ HandledOnce'
  BY <1>5 DEF WriteRequest, WriteFails
<1>6. ASSUME NEW r \in Requests, ReadResponse(r) \/ ReadFails(r) \/ Respond(r) \/ Upgrade(r)
      PROVE StageTells' /\ HandledOnce'
  BY <1>6 DEF ReadResponse, ReadFails, Respond, Upgrade
<1>7. ASSUME NEW r \in Requests, NEW d \in {"up", "down"}, CopyEnds(r, d)
      PROVE StageTells' /\ HandledOnce'
  BY <1>7 DEF CopyEnds
<1>8. ASSUME NEW r \in Requests, ServePage(r) \/ ServeEnds(r)
      PROVE StageTells' /\ HandledOnce'
  BY <1>8 DEF ServePage, ServeEnds
<1> QED
  BY <1>1, <1>2, <1>3, <1>4, <1>5, <1>6, <1>7, <1>8
     DEF Next, RouterNext, Proxy, Mux, Serve, Accept, TunnelCloses, ClientStalls,
         ClientResumes, ClientCloses, ClientChanges, ingressVars, routerVars

(* proxyToTunnel falls back to the mux only while nothing of the request    *)
(* has left, so no request is handled both by an agent and by the mux.      *)
THEOREM NeverHandledTwice == Spec => []HandledOnce
<1>1. Init => ProxyInv
  BY InitTyped DEF Init, RouterInit, ProxyInv, StageTells, HandledOnce
<1>2. ProxyInv /\ [Next]_ingressVars => ProxyInv'
  BY TypeInductive, StageInductive DEF ProxyInv
<1>3. ProxyInv => HandledOnce
  BY DEF ProxyInv
<1> QED BY <1>1, <1>2, <1>3, PTL DEF Spec

-----------------------------------------------------------------------------
(* A refresh at work has seen every key its session was bound to since it   *)
(* began: the current one, and the one it has loaded.                       *)
SeesBindings ==
    \A h \in Requests :
      handler[h] # D!NotCalled =>
        /\ handler[h].at \in {"loading", "checking"} =>
             {record[handler[h].session]} \cap Keys \subseteq bound[h]
        /\ handler[h].at = "checking" => {handler[h].key} \cap Keys \subseteq bound[h]

RefreshInv == TypeOK /\ SeesBindings /\ RefreshProvesBoundKey

(* No step of a handler, of another one or of the expiry of a record takes  *)
(* a binding away that a handler has seen.                                  *)
LEMMA RefreshInductive == RefreshInv /\ [Next]_ingressVars => SeesBindings' /\ RefreshProvesBoundKey'
<1> SUFFICES ASSUME RefreshInv, [Next]_ingressVars PROVE SeesBindings' /\ RefreshProvesBoundKey'
  OBVIOUS
<1> USE DEF RefreshInv, TypeOK, D!DBSCTypeOK, SeesBindings, RefreshProvesBoundKey,
            D!RefreshProvesBoundKey, D!Invocations, D!Stages, D!NotCalled
<1>1. CASE UNCHANGED dbscVars
  BY <1>1 DEF dbscVars
<1>2. ASSUME NEW r \in Requests, NEW s \in Sessions, NEW k \in D!Registered,
             D!StartSession(r, s, k) \/ D!Refresh(r, s)
      PROVE SeesBindings' /\ RefreshProvesBoundKey'
  <2>1. \A h \in Requests \ {r} : handler'[h] = handler[h] /\ bound'[h] = bound[h]
    BY <1>2 DEF D!StartSession, D!Refresh
  <2>2. record' = record
    BY <1>2 DEF D!StartSession, D!Refresh
  <2>3. \/ handler'[r].at = "saving"
        \/ /\ handler'[r].at = "loading" /\ handler'[r].session = s
           /\ bound'[r] = {record[s]} \cap Keys
    <3>1. CASE D!StartSession(r, s, k)
      <4>1. handler'[r] = [at |-> "saving", session |-> s, key |-> k]
        BY <3>1 DEF D!StartSession
      <4> QED BY ONLY <4>1
    <3>2. CASE D!Refresh(r, s)
      <4>1. PICK q : handler'[r] = [at |-> "loading", session |-> s, key |-> q]
        BY <3>2 DEF D!Refresh
      <4>2. bound'[r] = {record[s]} \cap Keys
        BY <3>2 DEF D!Refresh
      <4>3. handler'[r].at = "loading" /\ handler'[r].session = s
        BY ONLY <4>1
      <4> QED BY <4>2, <4>3
    <3> QED BY <1>2, <3>1, <3>2
  <2> QED BY <2>1, <2>2, <2>3
<1>3. ASSUME NEW r \in Requests, D!Return(r) PROVE SeesBindings' /\ RefreshProvesBoundKey'
  BY <1>3 DEF D!Return
<1>4. ASSUME NEW s \in Sessions, NEW k \in D!Registered \cup {"no record"}, D!Bind(s, k),
             NEW h \in Requests, handler[h] # D!NotCalled
      PROVE /\ handler[h].at \in {"loading", "checking"} =>
                 {record'[handler[h].session]} \cap Keys \subseteq bound'[h]
            /\ bound[h] \subseteq bound'[h]
  BY <1>4 DEF D!Bind, D!Refreshing
<1>5. ASSUME NEW s \in Sessions, D!Expire(s) PROVE SeesBindings' /\ RefreshProvesBoundKey'
  BY <1>4, <1>5 DEF D!Expire
<1>6. ASSUME NEW r \in Requests, D!SaveSession(r) PROVE SeesBindings' /\ RefreshProvesBoundKey'
  <2>1. handler[r] \in D!Invocations
    BY <1>6 DEF D!SaveSession
  <2>2. \A h \in Requests : handler[h] # D!NotCalled =>
          /\ handler[h].at \in {"loading", "checking"} =>
               {record'[handler[h].session]} \cap Keys \subseteq bound'[h]
          /\ bound[h] \subseteq bound'[h]
    BY <1>4, <1>6, <2>1 DEF D!SaveSession
  <2>3. handler'[r].at = "over" /\ handler'[r].session = handler[r].session
    BY <1>6, <2>1 DEF D!SaveSession
  <2>4. \A h \in Requests \ {r} : handler'[h] = handler[h]
    BY <1>6 DEF D!SaveSession
  <2> QED BY <1>6, <2>2, <2>3, <2>4 DEF D!SaveSession
<1>7. ASSUME NEW r \in Requests, D!LoadSession(r) PROVE SeesBindings' /\ RefreshProvesBoundKey'
  <2>1. handler[r] \in D!Invocations
    BY <1>7 DEF D!LoadSession
  <2>2. /\ handler'[r].session = handler[r].session
        /\ handler'[r].at \in {"over", "checking"}
        /\ handler'[r].at = "checking" => handler'[r].key = record[handler[r].session]
    BY <1>7, <2>1 DEF D!LoadSession, D!StoredKey
  <2>3. \A h \in Requests \ {r} : handler'[h] = handler[h]
    BY <1>7 DEF D!LoadSession
  <2> QED BY <1>7, <2>1, <2>2, <2>3 DEF D!LoadSession
<1>8. ASSUME NEW r \in Requests, NEW signer \in D!Answers, D!CheckAnswer(r, signer)
      PROVE SeesBindings' /\ RefreshProvesBoundKey'
  <2>1. handler[r] \in D!Invocations
    BY <1>8 DEF D!CheckAnswer
  <2>2. /\ handler'[r].session = handler[r].session
        /\ handler'[r].at \in {"over", "refreshed"}
        /\ handler'[r].at = "refreshed" => handler'[r].key = handler[r].key /\ handler[r].key \in Keys
    BY <1>8, <2>1 DEF D!CheckAnswer
  <2>3. \A h \in Requests \ {r} : handler'[h] = handler[h]
    BY <1>8 DEF D!CheckAnswer
  <2>4. handler[r] # D!NotCalled /\ handler[r].at = "checking"
    BY <1>8 DEF D!CheckAnswer
  <2> QED BY <1>8, <2>1, <2>2, <2>3, <2>4 DEF D!CheckAnswer
<1> QED
  BY <1>1, <1>2, <1>3, <1>5, <1>6, <1>7, <1>8
     DEF Next, Mux, Serve, ServePage, ServeEnds, D!DBSCWork, D!Registered, ingressVars, dbscVars

(* handleRefreshEndpoint renews the cookie only for a key its session was   *)
(* bound to at some moment of the refresh, although the record is loaded in *)
(* one transaction and the answer checked after it.                         *)
THEOREM RefreshSound == Spec => []RefreshProvesBoundKey
<1>1. Init => RefreshInv
  BY InitTyped DEF Init, D!DBSCInit, RefreshInv, SeesBindings, RefreshProvesBoundKey,
                   D!RefreshProvesBoundKey
<1>2. RefreshInv /\ [Next]_ingressVars => RefreshInv'
  BY TypeInductive, RefreshInductive DEF RefreshInv
<1>3. RefreshInv => RefreshProvesBoundKey
  BY DEF RefreshInv
<1> QED BY <1>1, <1>2, <1>3, PTL DEF Spec

=============================================================================
