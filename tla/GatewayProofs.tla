--------------------------- MODULE GatewayProofs ---------------------------
(***************************************************************************)
(* Proofs about Gateway for any sessions, keys and hosts, any grace period *)
(* and any capacity of the bus: types, and that no map entry outlives the  *)
(* session it stands for.                                                  *)
(*                                                                         *)
(* NothingOutlivesItsSession is not inductive: a session that is clearing  *)
(* may end although a host leads to it, unless its sweep is known to have  *)
(* that host still before it.                                              *)
(***************************************************************************)
EXTENDS Gateway, TLAPS

(* HandleSecureStream, its monitor, forwarding and the sweep keep the types. *)
LEMMA TypeInductive == TypeOK /\ [Next]_gatewayVars => TypeOK'
<1> SUFFICES ASSUME TypeOK, [Next]_gatewayVars PROVE TypeOK'
  OBVIOUS
<1> USE DEF TypeOK, States, Monitors, work
<1>1. CASE Tick
  BY <1>1, GatewayAssumptions DEF Tick, Times
<1>2. CASE BusReceive
  BY <1>2, GatewayAssumptions DEF BusReceive
<1>3. ASSUME NEW a \in Actions, RegisterProtocol(a) PROVE TypeOK'
  BY <1>3 DEF RegisterProtocol
<1>4. ASSUME NEW s \in Sessions, Establish(s) \/ Refuse(s) PROVE TypeOK'
  <2>1. session' \in [Sessions -> States] /\ finished' \subseteq Sessions
    BY <1>4 DEF Establish, Refuse
  <2>2. activeSessions' \in [Keys -> Times \cup {Absent}]
    BY <1>4 DEF Establish, Refuse
  <2>3. monitor' \in [Sessions -> Monitors]
    BY <1>4 DEF Establish, Refuse
  <2> QED BY <1>4, <2>1, <2>2, <2>3 DEF Establish, Refuse
<1>5. ASSUME NEW s \in Sessions, NEW h \in Hosts, MeshRegister(s, h) \/ ForwardLookup(s, h)
      PROVE TypeOK'
  BY <1>5 DEF MeshRegister, ForwardLookup
<1>6. ASSUME NEW s \in Sessions, HeartbeatResponse(s) \/ ForwardWrite(s) \/ RpcArrives(s)
      PROVE TypeOK'
  <2>1. CASE HeartbeatResponse(s)
    BY <2>1 DEF HeartbeatResponse
  <2>2. CASE ForwardWrite(s) \/ RpcArrives(s)
    BY <2>2 DEF ForwardWrite, RpcArrives
  <2> QED BY <1>6, <2>1, <2>2
<1>7. ASSUME NEW s \in Sessions, BusSend(s) PROVE TypeOK'
  BY <1>7, GatewayAssumptions DEF BusSend
<1>8. ASSUME NEW s \in Sessions, TunnelBind(s) \/ ReadFails(s) PROVE TypeOK'
  <2>1. session' \in [Sessions -> States] /\ finished' \subseteq Sessions
    BY <1>8 DEF TunnelBind, ReadFails
  <2>2. activeSessions' \in [Keys -> Times \cup {Absent}]
    BY <1>8 DEF TunnelBind, ReadFails
  <2>3. sweep' \in [Sessions -> [todo : SUBSET Hosts, hit : Hosts \cup {NoHost}]]
    BY <1>8 DEF TunnelBind, ReadFails
  <2> QED BY <1>8, <2>1, <2>2, <2>3 DEF TunnelBind, ReadFails
<1>9. ASSUME NEW s \in Sessions, ClearHostSessions(s) PROVE TypeOK'
  <2>1. ASSUME NEW h \in Hosts, ClearVisit(s, h) PROVE TypeOK'
    BY <2>1 DEF ClearVisit
  <2>2. CASE ClearDelete(s)
    <3>1. [sweep[s] EXCEPT !.hit = NoHost] \in [todo : SUBSET Hosts, hit : Hosts \cup {NoHost}]
      OBVIOUS
    <3> QED BY <2>2, <3>1 DEF ClearDelete
  <2>3. CASE ClearEnds(s)
    BY <2>3 DEF ClearEnds
  <2> QED BY <1>9, <2>1, <2>2, <2>3 DEF ClearHostSessions
<1>10. ASSUME NEW s \in Sessions, MonitorTick(s) \/ MonitorWritten(s) \/ MonitorFails(s) \/ MonitorStop(s)
       PROVE TypeOK'
  BY <1>10 DEF MonitorTick, MonitorWritten, MonitorFails, MonitorStop
<1>11. CASE UNCHANGED gatewayVars
  BY <1>11 DEF gatewayVars
<1> QED
  BY <1>1, <1>2, <1>3, <1>4, <1>5, <1>6, <1>7, <1>8, <1>9, <1>10, <1>11 DEF Next, SessionNext

(* A gateway without sessions. *)
LEMMA InitTyped == Init => TypeOK
BY GatewayAssumptions DEF Init, TypeOK, Times, States, Monitors, NoSweep

(* The maps, the sessions and their monitors and sweeps keep their types. *)
THEOREM TypeCorrect == Spec => []TypeOK
BY InitTyped, TypeInductive, PTL DEF Spec

-----------------------------------------------------------------------------
(* A host leads to a session that is live, was left by tunnel_bind, or is   *)
(* clearing with this host still to be visited or to be deleted.            *)
HostsReachable ==
    \A h \in Hosts :
      LET s == hostSessions[h] IN
        s # NoSession =>
          \/ Live(s)
          \/ session[s] = "tunnelled"
          \/ session[s] = "clearing" /\ (h \in sweep[s].todo \/ h = sweep[s].hit)

(* The second part of NothingOutlivesItsSession: a key with a heartbeat     *)
(* entry has a session.                                                     *)
KeysAlive ==
    \A k \in Keys :
      activeSessions[k] # Absent =>
        \E s \in Sessions : keyOf[s] = k /\ (Live(s) \/ session[s] = "tunnelled")

SessionInv == TypeOK /\ HostsReachable /\ KeysAlive

(* A step that leaves the host table and the sweeps alone, and no session   *)
(* that a host may lead to, keeps the hosts reachable.                      *)
LEMMA HostsStay ==
  ASSUME HostsReachable, UNCHANGED <<hostSessions, sweep>>, TypeOK,
         \A s \in Sessions : session[s] = "clearing" \/ session[s] = "tunnelled" => session'[s] = session[s],
         \A s \in Sessions : Live(s) => Live(s)' \/ session'[s] = "tunnelled"
  PROVE  HostsReachable'
BY DEF HostsReachable, TypeOK

(* Likewise for the heartbeat entries. *)
LEMMA KeysStay ==
  ASSUME KeysAlive, UNCHANGED keyOf,
         \A k \in Keys : activeSessions'[k] # Absent => activeSessions[k] # Absent,
         \A s \in Sessions : session[s] = "tunnelled" => session'[s] = "tunnelled",
         \A s \in Sessions : Live(s) => Live(s)' \/ session'[s] = "tunnelled"
  PROVE  KeysAlive'
BY DEF KeysAlive

(* Registrations, forwards, ends of sessions and the steps of a sweep keep  *)
(* the hosts reachable.                                                     *)
LEMMA HostsInductive == TypeOK /\ HostsReachable /\ [Next]_gatewayVars => HostsReachable'
<1> SUFFICES ASSUME TypeOK, HostsReachable, [Next]_gatewayVars PROVE HostsReachable'
  OBVIOUS
<1> USE DEF TypeOK, work
<1>1. CASE UNCHANGED <<hostSessions, sweep, session>>
  BY <1>1, HostsStay DEF Live
<1>2. ASSUME NEW s \in Sessions,
             \/ Establish(s) \/ Refuse(s) \/ ForwardWrite(s) \/ RpcArrives(s)
             \/ BusSend(s) \/ TunnelBind(s)
             \/ \E h \in Hosts : ForwardLookup(s, h)
      PROVE HostsReachable'
  <2>1. UNCHANGED <<hostSessions, sweep>>
    BY <1>2 DEF Establish, Refuse, ForwardWrite, RpcArrives, BusSend, TunnelBind, ForwardLookup
  <2>2. /\ session[s] \in {"none", "reading", "forwarding", "publishing"}
        /\ Live(s) => session'[s] \in {"reading", "forwarding", "publishing", "tunnelled"}
        /\ \A t \in Sessions \ {s} : session'[t] = session[t]
    BY <1>2 DEF Establish, Refuse, ForwardWrite, RpcArrives, BusSend, TunnelBind, ForwardLookup, Live
  <2> QED BY <2>1, <2>2, HostsStay DEF Live
<1>3. ASSUME NEW s \in Sessions, NEW g \in Hosts, MeshRegister(s, g) PROVE HostsReachable'
  BY <1>3 DEF MeshRegister, HostsReachable, Live
<1>4. ASSUME NEW s \in Sessions, ReadFails(s) PROVE HostsReachable'
  BY <1>4 DEF ReadFails, HostsReachable, Live
<1>5. ASSUME NEW s \in Sessions, NEW g \in Hosts, ClearVisit(s, g) PROVE HostsReachable'
  <2>1. /\ sweep'[s].todo = sweep[s].todo \ {g}
        /\ hostSessions[g] = s => sweep'[s].hit = g
        /\ \A t \in Sessions \ {s} : sweep'[t] = sweep[t]
    BY <1>5, GatewayAssumptions DEF ClearVisit
  <2>2. sweep[s].hit = NoHost
    BY <1>5 DEF ClearVisit
  <2> QED BY <1>5, <2>1, <2>2, GatewayAssumptions DEF ClearVisit, HostsReachable, Live
<1>6. ASSUME NEW s \in Sessions, ClearDelete(s) PROVE HostsReachable'
  <2>1. /\ sweep'[s].todo = sweep[s].todo
        /\ \A t \in Sessions \ {s} : sweep'[t] = sweep[t]
    BY <1>6 DEF ClearDelete
  <2>2. \A h \in Hosts : hostSessions'[h] = IF h = sweep[s].hit THEN NoSession ELSE hostSessions[h]
    BY <1>6 DEF ClearDelete
  <2> QED BY <1>6, <2>1, <2>2 DEF ClearDelete, HostsReachable, Live
<1>7. ASSUME NEW s \in Sessions, ClearEnds(s) PROVE HostsReachable'
  <2>1. \A h \in Hosts : h \notin sweep[s].todo /\ h # sweep[s].hit
    BY <1>7, GatewayAssumptions DEF ClearEnds, NoSweep
  <2>2. \A h \in Hosts : hostSessions[h] # s
    BY <1>7, <2>1, GatewayAssumptions DEF ClearEnds, HostsReachable, Live
  <2> QED BY <1>7, <2>2 DEF ClearEnds, HostsReachable, Live
<1> QED
  BY <1>1, <1>2, <1>3, <1>4, <1>5, <1>6, <1>7
     DEF Next, SessionNext, ClearHostSessions, Tick, BusReceive, RegisterProtocol,
         HeartbeatResponse, MonitorTick, MonitorWritten, MonitorFails, MonitorStop, gatewayVars

(* An entry is written by a session that is live, and deleted by the end of *)
(* any session of its key.                                                  *)
LEMMA KeysInductive == TypeOK /\ KeysAlive /\ [Next]_gatewayVars => KeysAlive'
<1> SUFFICES ASSUME TypeOK, KeysAlive, [Next]_gatewayVars PROVE KeysAlive'
  OBVIOUS
<1> USE DEF TypeOK, work
<1>1. CASE UNCHANGED <<activeSessions, session, keyOf>>
  BY <1>1, KeysStay DEF Live
<1>2. ASSUME NEW s \in Sessions,
             \/ Refuse(s) \/ ForwardWrite(s) \/ RpcArrives(s) \/ BusSend(s) \/ TunnelBind(s)
             \/ ClearEnds(s)
             \/ \E h \in Hosts : ForwardLookup(s, h)
      PROVE KeysAlive'
  <2>1. UNCHANGED <<activeSessions, keyOf>>
    BY <1>2 DEF Refuse, ForwardWrite, RpcArrives, BusSend, TunnelBind, ClearEnds, ForwardLookup
  <2>2. /\ session[s] # "tunnelled"
        /\ Live(s) => session'[s] \in {"reading", "forwarding", "publishing", "tunnelled"}
        /\ \A t \in Sessions \ {s} : session'[t] = session[t]
    BY <1>2 DEF Refuse, ForwardWrite, RpcArrives, BusSend, TunnelBind, ClearEnds, ForwardLookup, Live
  <2> QED BY <2>1, <2>2, KeysStay DEF Live
<1>3. ASSUME NEW s \in Sessions, Establish(s) \/ HeartbeatResponse(s) PROVE KeysAlive'
  <2>1. session'[s] = "reading" /\ UNCHANGED keyOf
    BY <1>3 DEF Establish, HeartbeatResponse
  <2>2. \A k \in Keys \ {keyOf[s]} : activeSessions'[k] = activeSessions[k]
    BY <1>3 DEF Establish, HeartbeatResponse
  <2>3. session[s] # "tunnelled" /\ \A t \in Sessions \ {s} : session'[t] = session[t]
    BY <1>3 DEF Establish, HeartbeatResponse
  <2> QED BY <2>1, <2>2, <2>3 DEF KeysAlive, Live
<1>4. ASSUME NEW s \in Sessions, ReadFails(s) PROVE KeysAlive'
  BY <1>4 DEF ReadFails, KeysAlive, Live
<1> QED
  BY <1>1, <1>2, <1>3, <1>4
     DEF Next, SessionNext, ClearHostSessions, ClearVisit, ClearDelete, Tick, BusReceive,
         RegisterProtocol, MeshRegister, MonitorTick, MonitorWritten, MonitorFails,
         MonitorStop, gatewayVars

(* A host leads to a session that is still in HandleSecureStream, and a key *)
(* with a heartbeat entry has one, except for what tunnel_bind leaves: for  *)
(* any number of sessions, whether or not they share keys and hosts, and    *)
(* although a sweep visits and deletes in separate steps.                   *)
THEOREM EntriesEnd == Spec => []NothingOutlivesItsSession
<1>1. Init => SessionInv
  BY InitTyped DEF Init, SessionInv, HostsReachable, KeysAlive
<1>2. SessionInv /\ [Next]_gatewayVars => SessionInv'
  BY TypeInductive, HostsInductive, KeysInductive DEF SessionInv
<1>3. SessionInv => NothingOutlivesItsSession
  BY DEF SessionInv, HostsReachable, KeysAlive, NothingOutlivesItsSession
<1> QED BY <1>1, <1>2, <1>3, PTL DEF Spec

=============================================================================
