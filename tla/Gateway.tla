------------------------------ MODULE Gateway ------------------------------
(***************************************************************************)
(* The sessions of a Gateway (gateway.go): one HandleSecureStream per      *)
(* overlay stream with the heartbeat monitor it starts, the two shared     *)
(* maps activeSessions and hostSessions, which are keyed by the node's     *)
(* public key and by host ID and not by session, and the bounded LocalBus. *)
(*                                                                         *)
(* A node may have several sessions under its one key, for instance while  *)
(* it reconnects and the gateway has not noticed the loss yet.  Frames are *)
(* what the session has decrypted; what the stream itself guarantees is    *)
(* the subject of SecureChannel.                                           *)
(***************************************************************************)
EXTENDS Integers

CONSTANTS
    Sessions,    \* invocations of HandleSecureStream
    Keys,        \* static public keys of nodes
    Hosts,       \* host IDs that nodes register
    NoSession,
    NoHost,
    Grace,       \* 180 seconds, in ticks
    MaxTime,     \* bound on the clock
    BusCapacity  \* 2048, the capacity of Router.LocalBus

ASSUME GatewayAssumptions ==
    /\ NoSession \notin Sessions
    /\ NoHost \notin Hosts
    /\ Grace \in Nat
    /\ MaxTime \in Nat
    /\ BusCapacity \in Nat \ {0}

Times == 0 .. MaxTime
Absent == -1

VARIABLES
    now,
    activeSessions, \* per key: when a heartbeat was last stored, or Absent
    hostSessions,   \* per host: the session it is reached through
    session,        \* per session: where HandleSecureStream is
    keyOf,          \* per session: the key of its handshake
    monitor,        \* per session: where its heartbeat monitor is
    finished,       \* sessions whose sending direction has been closed
    bus,            \* events queued on LocalBus
    forward,        \* per session: the host session it is forwarding to
    sweep,          \* per session: where its clearHostSessions is
    protocols       \* actions of frames that have a protocol handler

gatewayVars == <<now, activeSessions, hostSessions, session, keyOf, monitor,
                 finished, bus, forward, sweep, protocols>>
work == <<bus, forward, sweep, protocols>>

(* Actions that routeToAPI knows itself and a protocol handler may claim.   *)
Actions == {"dbsc_heartbeat_resp", "rpc"}

(* "reading": in the frame loop. "publishing": sending to LocalBus.         *)
(* "forwarding": between the host lookup and the write. "clearing": the     *)
(* loop is over and the key's heartbeat entry is deleted. "ended",          *)
(* "tunnelled": returned, after a read error or after a tunnel_bind.        *)
States == {"none", "reading", "publishing", "forwarding", "clearing", "ended", "tunnelled"}

(* "waiting": in the select. "writing": a challenge is on its way to the    *)
(* stream. "failed", "over": returned, after a write error or otherwise.    *)
Monitors == {"none", "waiting", "writing", "failed", "over"}

NoSweep == [todo |-> {}, hit |-> NoHost]
Live(s) == session[s] \in {"reading", "publishing", "forwarding"}

TypeOK ==
    /\ now \in Times
    /\ activeSessions \in [Keys -> Times \cup {Absent}]
    /\ hostSessions \in [Hosts -> Sessions \cup {NoSession}]
    /\ session \in [Sessions -> States]
    /\ keyOf \in [Sessions -> Keys]
    /\ monitor \in [Sessions -> Monitors]
    /\ finished \subseteq Sessions
    /\ bus \in 0 .. BusCapacity
    /\ forward \in [Sessions -> Sessions \cup {NoSession}]
    /\ protocols \subseteq Actions
    /\ sweep \in [Sessions -> [todo : SUBSET Hosts, hit : Hosts \cup {NoHost}]]

Init ==
    /\ now = 0
    /\ activeSessions = [k \in Keys |-> Absent]
    /\ hostSessions = [h \in Hosts |-> NoSession]
    /\ session = [s \in Sessions |-> "none"]
    /\ keyOf \in [Sessions -> Keys]
    /\ monitor = [s \in Sessions |-> "none"]
    /\ finished = {}
    /\ bus = 0
    /\ forward = [s \in Sessions |-> NoSession]
    /\ sweep = [s \in Sessions |-> NoSweep]
    /\ protocols = {}

Tick ==
    /\ now < MaxTime
    /\ now' = now + 1
    /\ UNCHANGED <<activeSessions, hostSessions, session, keyOf, monitor,
                   finished, work>>

-----------------------------------------------------------------------------
(* The handshake is complete, the key has the permission to connect, the    *)
(* dataframe engine agreed and the response was written: the session is     *)
(* entered in the map and its monitor started.                              *)
Establish(s) ==
    /\ session[s] = "none"
    /\ session' = [session EXCEPT ![s] = "reading"]
    /\ activeSessions' = [activeSessions EXCEPT ![keyOf[s]] = now]
    /\ monitor' = [monitor EXCEPT ![s] = "waiting"]
    /\ UNCHANGED <<now, hostSessions, keyOf, finished, work>>

(* The handshake failed or was refused: the deferred Close is all that runs. *)
Refuse(s) ==
    /\ session[s] = "none"
    /\ session' = [session EXCEPT ![s] = "ended"]
    /\ finished' = finished \cup {s}
    /\ UNCHANGED <<now, activeSessions, hostSessions, keyOf, monitor, work>>

(* Router.RegisterProtocol: from now on DispatchProtocol hands the frames   *)
(* of this action to the handler, and the switch of routeToAPI is not       *)
(* reached for them.                                                        *)
RegisterProtocol(a) ==
    /\ protocols' = protocols \cup {a}
    /\ UNCHANGED <<now, activeSessions, hostSessions, session, keyOf, monitor,
                   finished, bus, forward, sweep>>

(* routeToAPI, "mesh_register": the latest session to name a host gets it. *)
MeshRegister(s, h) ==
    /\ session[s] = "reading"
    /\ hostSessions' = [hostSessions EXCEPT ![h] = s]
    /\ UNCHANGED <<now, activeSessions, session, keyOf, monitor, finished,
                   work>>

(* routeToAPI, "dbsc_heartbeat_resp", when the policy allows it and no      *)
(* protocol handler has claimed it.                                         *)
HeartbeatResponse(s) ==
    /\ session[s] = "reading"
    /\ "dbsc_heartbeat_resp" \notin protocols
    /\ activeSessions' = [activeSessions EXCEPT ![keyOf[s]] = now]
    /\ UNCHANGED <<now, hostSessions, session, keyOf, monitor, finished, work>>

(* routeToAPI, a target "host:h" that the policy allows: forwardToHost      *)
(* loads the host's session ...                                             *)
ForwardLookup(s, h) ==
    /\ session[s] = "reading"
    /\ hostSessions[h] # NoSession
    /\ session' = [session EXCEPT ![s] = "forwarding"]
    /\ forward' = [forward EXCEPT ![s] = hostSessions[h]]
    /\ UNCHANGED <<now, activeSessions, hostSessions, keyOf, monitor,
                   finished, bus, sweep, protocols>>

(* ... and writes to its stream, which may block. If it fails, as it does   *)
(* on a closed stream, the frame goes on through routeToAPI like one that   *)
(* has just come.                                                           *)
ForwardWrite(s) ==
    /\ session[s] = "forwarding"
    /\ session' = [session EXCEPT ![s] = "reading"]
    /\ forward' = [forward EXCEPT ![s] = NoSession]
    /\ UNCHANGED <<now, activeSessions, hostSessions, keyOf, monitor,
                   finished, bus, sweep, protocols>>

(* routeToAPI, "rpc": the send to LocalBus blocks this session while the    *)
(* bus is full.                                                             *)
RpcArrives(s) ==
    /\ session[s] = "reading"
    /\ "rpc" \notin protocols
    /\ session' = [session EXCEPT ![s] = "publishing"]
    /\ UNCHANGED <<now, activeSessions, hostSessions, keyOf, monitor,
                   finished, work>>

(* Seeded fault: the bus takes events beyond its capacity. *)
BusSendUnbounded(s) ==
    /\ session[s] = "publishing"
    /\ bus' = bus + 1
    /\ session' = [session EXCEPT ![s] = "reading"]
    /\ UNCHANGED <<now, activeSessions, hostSessions, keyOf, monitor,
                   finished, forward, sweep, protocols>>

BusSend(s) ==
    /\ session[s] = "publishing"
    /\ bus < BusCapacity
    /\ bus' = bus + 1
    /\ session' = [session EXCEPT ![s] = "reading"]
    /\ UNCHANGED <<now, activeSessions, hostSessions, keyOf, monitor,
                   finished, forward, sweep, protocols>>

(* A program that embeds the router may read the exported LocalBus. Nothing *)
(* in the repository does, and nothing is assumed of it.                    *)
BusReceive ==
    /\ bus > 0
    /\ bus' = bus - 1
    /\ UNCHANGED <<now, activeSessions, hostSessions, session, keyOf, monitor,
                   finished, forward, sweep, protocols>>

-----------------------------------------------------------------------------
(* "tunnel_bind": the function returns at once, whatever RegisterTunnel     *)
(* said. Only the deferred calls run; both maps keep their entries.         *)
TunnelBind(s) ==
    /\ session[s] = "reading"
    /\ session' = [session EXCEPT ![s] = "tunnelled"]
    /\ finished' = finished \cup {s}
    /\ UNCHANGED <<now, activeSessions, hostSessions, keyOf, monitor, work>>

(* ReadFrame failed: the loop is left and the key's entry deleted, whether  *)
(* or not another session of the same key is open; then clearHostSessions   *)
(* starts to range over the hosts.                                          *)
ReadFails(s) ==
    /\ session[s] = "reading"
    /\ activeSessions' = [activeSessions EXCEPT ![keyOf[s]] = Absent]
    /\ session' = [session EXCEPT ![s] = "clearing"]
    /\ sweep' = [sweep EXCEPT ![s] = [todo |-> Hosts, hit |-> NoHost]]
    /\ UNCHANGED <<now, hostSessions, keyOf, monitor, finished, bus, forward,
                   protocols>>

(* Seeded fault: hosts are kept when the key has another session. *)
ClearVisitKeeps(s, h) ==
    /\ session[s] = "clearing"
    /\ sweep[s].hit = NoHost
    /\ h \in sweep[s].todo
    /\ sweep' = [sweep EXCEPT ![s] =
          [todo |-> @.todo \ {h},
           hit |-> IF hostSessions[h] = s /\ \A t \in Sessions \ {s} : keyOf[t] # keyOf[s]
                     THEN h ELSE NoHost]]
    /\ UNCHANGED <<now, activeSessions, hostSessions, session, keyOf, monitor,
                   finished, bus, forward, protocols>>

(* The callback of Range looks at one host, in any order and each once: an  *)
(* entry under the session's key, its own or a sibling's, is to go ...      *)
ClearVisit(s, h) ==
    /\ session[s] = "clearing"
    /\ sweep[s].hit = NoHost
    /\ h \in sweep[s].todo
    /\ sweep' = [sweep EXCEPT ![s] =
          [todo |-> @.todo \ {h},
           hit |-> IF hostSessions[h] # NoSession /\ keyOf[hostSessions[h]] = keyOf[s]
                     THEN h ELSE NoHost]]
    /\ UNCHANGED <<now, activeSessions, hostSessions, session, keyOf, monitor,
                   finished, bus, forward, protocols>>

(* ... and is deleted by its host ID, whoever has registered it since.      *)
ClearDelete(s) ==
    /\ sweep[s].hit # NoHost
    /\ hostSessions' = [hostSessions EXCEPT ![sweep[s].hit] = NoSession]
    /\ sweep' = [sweep EXCEPT ![s].hit = NoHost]
    /\ UNCHANGED <<now, activeSessions, session, keyOf, monitor, finished,
                   bus, forward, protocols>>

(* The range is over; the deferred Close runs and the monitor is told to    *)
(* stop.                                                                    *)
ClearEnds(s) ==
    /\ session[s] = "clearing"
    /\ sweep[s] = NoSweep
    /\ session' = [session EXCEPT ![s] = "ended"]
    /\ finished' = finished \cup {s}
    /\ UNCHANGED <<now, activeSessions, hostSessions, keyOf, monitor, work>>

-----------------------------------------------------------------------------
Stale(k) == activeSessions[k] = Absent \/ now - activeSessions[k] > Grace

(* Seeded fault: a key without an entry counts as recently heard. *)
MonitorTickMissing(s) ==
    /\ monitor[s] = "waiting"
    /\ \/ /\ activeSessions[keyOf[s]] # Absent /\ now - activeSessions[keyOf[s]] > Grace
          /\ finished' = finished \cup {s}
          /\ monitor' = [monitor EXCEPT ![s] = "over"]
       \/ /\ activeSessions[keyOf[s]] = Absent \/ now - activeSessions[keyOf[s]] <= Grace
          /\ monitor' = [monitor EXCEPT ![s] = "writing"]
          /\ UNCHANGED finished
    /\ UNCHANGED <<now, activeSessions, hostSessions, session, keyOf, work>>

(* A tick of monitorHeartbeat. A key without a recent heartbeat has its     *)
(* stream closed; otherwise a challenge is sealed and its write begins.     *)
MonitorTick(s) ==
    /\ monitor[s] = "waiting"
    /\ \/ /\ Stale(keyOf[s])
          /\ finished' = finished \cup {s}
          /\ monitor' = [monitor EXCEPT ![s] = "over"]
       \/ /\ ~Stale(keyOf[s])
          /\ monitor' = [monitor EXCEPT ![s] = "writing"]
          /\ UNCHANGED finished
    /\ UNCHANGED <<now, activeSessions, hostSessions, session, keyOf, work>>

(* WriteFrame returns, for a challenge on a stream that is not closed. Flow *)
(* control may hold it for any time.                                        *)
MonitorWritten(s) ==
    /\ monitor[s] = "writing"
    /\ s \notin finished
    /\ monitor' = [monitor EXCEPT ![s] = "waiting"]
    /\ UNCHANGED <<now, activeSessions, hostSessions, session, keyOf, finished, work>>

(* WriteFrame fails: the stream is closed, the peer has stopped reading it  *)
(* or the connection is lost. The monitor returns and closes nothing; the   *)
(* session's read loop may well go on.                                      *)
MonitorFails(s) ==
    /\ monitor[s] = "writing"
    /\ monitor' = [monitor EXCEPT ![s] = "failed"]
    /\ UNCHANGED <<now, activeSessions, hostSessions, session, keyOf, finished, work>>

(* The stop channel was closed by the deferred call of the session. *)
MonitorStop(s) ==
    /\ monitor[s] = "waiting"
    /\ session[s] \in {"ended", "tunnelled"}
    /\ monitor' = [monitor EXCEPT ![s] = "over"]
    /\ UNCHANGED <<now, activeSessions, hostSessions, session, keyOf,
                   finished, work>>

-----------------------------------------------------------------------------
ClearHostSessions(s) ==
    (\E h \in Hosts : ClearVisit(s, h)) \/ ClearDelete(s) \/ ClearEnds(s)

SessionNext(s) ==
    \/ Establish(s) \/ Refuse(s)
    \/ \E h \in Hosts : MeshRegister(s, h) \/ ForwardLookup(s, h)
    \/ HeartbeatResponse(s) \/ ForwardWrite(s) \/ RpcArrives(s) \/ BusSend(s)
    \/ TunnelBind(s) \/ ReadFails(s)
    \/ ClearHostSessions(s)
    \/ MonitorTick(s) \/ MonitorWritten(s) \/ MonitorFails(s) \/ MonitorStop(s)

Next ==
    \/ Tick \/ BusReceive
    \/ \E a \in Actions : RegisterProtocol(a)
    \/ \E s \in Sessions : SessionNext(s)

Spec == Init /\ [][Next]_gatewayVars

(* The monitor's ticker runs. Nothing else is promised: a write may block,  *)
(* the bus may stay full.                                                   *)
FairSpec == Spec /\ \A s \in Sessions : WF_gatewayVars(MonitorTick(s))

-----------------------------------------------------------------------------
(* The maps do not outlive the sessions: a host leads to a session that is  *)
(* still in HandleSecureStream, and a key with a heartbeat entry has one.   *)
(* The early return of tunnel_bind is the only way to leave an entry        *)
(* behind.                                                                  *)
NothingOutlivesItsSession ==
    /\ \A h \in Hosts :
         hostSessions[h] # NoSession =>
           Live(hostSessions[h]) \/ session[hostSessions[h]] \in {"clearing", "tunnelled"}
    /\ \A k \in Keys :
         activeSessions[k] # Absent =>
           \E s \in Sessions : keyOf[s] = k /\ (Live(s) \/ session[s] = "tunnelled")

(* A node that stops answering is given up: once its key has no heartbeat   *)
(* within the grace period, each of its sessions has its stream closed,     *)
(* unless a heartbeat arrives after all. A session can only stay open if    *)
(* the write of a challenge failed or never returns, for its monitor then   *)
(* looks no more.                                                           *)
SilentSessionsClosed ==
    \A s \in Sessions :
      Live(s) /\ Stale(keyOf[s]) ~>
        \/ s \in finished \/ ~Stale(keyOf[s])
        \/ [](monitor[s] \in {"writing", "failed"})

=============================================================================
