------------------------------- MODULE Router -------------------------------
(***************************************************************************)
(* The public ingress of the Router (router.go): the QUIC listener that    *)
(* hands ActiveTunnel to each connection it accepts, and the requests      *)
(* masterHandler proxies to the tunnel or, if that was not possible,       *)
(* serves from the mux.  What the mux does is in DBSC and Ingress.         *)
(*                                                                         *)
(* A client may stall: it neither sends the rest of its request nor reads. *)
(* No deadline ends that, and what waits for it then waits.  Requests are  *)
(* slots: one that is idle again is used for another request.              *)
(***************************************************************************)
CONSTANTS
    Tunnels,    \* QUIC connections of agents
    Requests,   \* slots for HTTP requests
    NoTunnel    \* a nil *quic.Conn

ASSUME RouterAssumptions == NoTunnel \notin Tunnels

VARIABLES
    activeTunnel,  \* the connection in the role, or NoTunnel
    accepted,      \* connections the listener has accepted
    closed,        \* connections that are over
    req,           \* per request: where it is, and the tunnel proxyToTunnel has for it
    copying,       \* per request: copy goroutines of a hijacked connection
    client,        \* per request: the client's side, "open", "stalled" or "closed"
    forwarded,     \* history: requests of which a tunnel got at least a part
    served         \* history: requests the mux got

routerVars == <<activeTunnel, accepted, closed, req, copying, client, forwarded, served>>

Stages == {"idle", "arrived", "found", "opened", "written", "responding", "copying",
           "mux"}

RouterTypeOK ==
    /\ activeTunnel \in Tunnels \cup {NoTunnel}
    /\ accepted \subseteq Tunnels
    /\ closed \subseteq Tunnels
    /\ req \in [Requests -> [at : Stages, tunnel : Tunnels \cup {NoTunnel}]]
    /\ copying \in [Requests -> SUBSET {"up", "down"}]
    /\ client \in [Requests -> {"open", "stalled", "closed"}]
    /\ forwarded \subseteq Requests
    /\ served \subseteq Requests

RouterInit ==
    /\ activeTunnel = NoTunnel
    /\ accepted = {}
    /\ closed = {}
    /\ req = [r \in Requests |-> [at |-> "idle", tunnel |-> NoTunnel]]
    /\ copying = [r \in Requests |-> {}]
    /\ client = [r \in Requests |-> "open"]
    /\ forwarded = {}
    /\ served = {}

-----------------------------------------------------------------------------
(* Seeded fault: the connection that loses the role is closed without       *)
(* asking whether there is one.                                             *)
AcceptClosesNil(t) ==
    /\ t \notin accepted
    /\ accepted' = accepted \cup {t}
    /\ closed' = closed \cup {activeTunnel}
    /\ activeTunnel' = t
    /\ UNCHANGED <<req, copying, client, forwarded, served>>

(* startQUICTunnel, one turn: under the lock the connection that has the    *)
(* role is closed and the new one gets it.                                  *)
Accept(t) ==
    /\ t \notin accepted
    /\ accepted' = accepted \cup {t}
    /\ closed' = closed \cup ({activeTunnel} \ {NoTunnel})
    /\ activeTunnel' = t
    /\ UNCHANGED <<req, copying, client, forwarded, served>>

(* The agent or the network ends a connection; ActiveTunnel is not told. *)
TunnelCloses(t) ==
    /\ t \in accepted \ closed
    /\ closed' = closed \cup {t}
    /\ UNCHANGED <<activeTunnel, accepted, req, copying, client, forwarded, served>>

(* A client stalls, goes on, or closes, while proxyToTunnel may wait for it. *)
ClientChanges(r, from, to) ==
    /\ req[r].at \in {"opened", "written", "responding", "copying"}
    /\ client[r] \in from
    /\ client' = [client EXCEPT ![r] = to]
    /\ UNCHANGED <<activeTunnel, accepted, closed, req, copying, forwarded, served>>

ClientStalls(r) == ClientChanges(r, {"open"}, "stalled")
ClientResumes(r) == ClientChanges(r, {"stalled"}, "open")
ClientCloses(r) == ClientChanges(r, {"open", "stalled"}, "closed")

-----------------------------------------------------------------------------
(* masterHandler and proxyToTunnel.                                        *)
At(r, stage) == req[r].at = stage
Goes(r, stage) == req' = [req EXCEPT ![r].at = stage]
Elsewhere == UNCHANGED <<activeTunnel, accepted, closed>>

(* proxyToTunnel is through with the request, and its tunnel forgotten. *)
Leaves(r, stage) ==
    /\ req' = [req EXCEPT ![r] = [at |-> stage, tunnel |-> NoTunnel]]
    /\ client' = [client EXCEPT ![r] = "open"]

Arrive(r) ==
    /\ At(r, "idle")
    /\ Goes(r, "arrived")
    /\ forwarded' = forwarded \ {r}
    /\ served' = served \ {r}
    /\ Elsewhere /\ UNCHANGED <<copying, client>>

(* proxyToTunnel copies the pointer under the lock. A nil one means the mux. *)
Lookup(r) ==
    /\ At(r, "arrived")
    /\ req' = [req EXCEPT ![r].tunnel = activeTunnel,
                          ![r].at = IF activeTunnel = NoTunnel THEN "mux" ELSE "found"]
    /\ served' = IF activeTunnel = NoTunnel THEN served \cup {r} ELSE served
    /\ Elsewhere /\ UNCHANGED <<copying, client, forwarded>>

(* OpenStreamSync, on a connection that may have lost the role. An error    *)
(* means the mux; nothing of the request has left yet.                      *)
OpenStream(r) ==
    /\ At(r, "found")
    /\ \/ req[r].tunnel \notin closed /\ Goes(r, "opened") /\ UNCHANGED <<client, served>>
       \/ req[r].tunnel \in closed /\ Leaves(r, "mux") /\ served' = served \cup {r}
    /\ Elsewhere /\ UNCHANGED <<copying, forwarded>>

(* Seeded fault: a failed write also falls back to the mux. *)
WriteFallsBack(r) ==
    /\ At(r, "opened")
    /\ forwarded' = forwarded \cup {r}
    /\ Leaves(r, "mux")
    /\ served' = served \cup {r}
    /\ Elsewhere /\ UNCHANGED copying

(* The write fails, after none or some of the request, on the way to the    *)
(* tunnel or in the client's body: 502.                                     *)
WriteFails(r) ==
    /\ At(r, "opened")
    /\ forwarded' = forwarded \cup {r}
    /\ Leaves(r, "idle")
    /\ Elsewhere /\ UNCHANGED <<copying, served>>

(* req.Write copies the request with its body, which the client may be slow *)
(* to send, to the stream.                                                  *)
WriteRequest(r) ==
    /\ At(r, "opened")
    /\ req[r].tunnel \notin closed
    /\ forwarded' = forwarded \cup {r}
    /\ Goes(r, "written")
    /\ Elsewhere /\ UNCHANGED <<copying, client, served>>

(* No response can be read: 502. *)
ReadFails(r) ==
    /\ At(r, "written")
    /\ Leaves(r, "idle")
    /\ Elsewhere /\ UNCHANGED <<copying, forwarded, served>>

(* The head of the agent's response is read. *)
ReadResponse(r) ==
    /\ At(r, "written")
    /\ req[r].tunnel \notin closed
    /\ Goes(r, "responding")
    /\ Elsewhere /\ UNCHANGED <<copying, client, forwarded, served>>

(* The copy of the response to the client is over: at its end, or because   *)
(* the stream or the client failed. An accepted upgrade ends here too if    *)
(* the client's connection cannot be hijacked.                              *)
Respond(r) ==
    /\ At(r, "responding")
    /\ Leaves(r, "idle")
    /\ Elsewhere /\ UNCHANGED <<copying, forwarded, served>>

(* The client asked for a websocket and the agent switches protocols: the   *)
(* client's connection is hijacked, the response has been written to it,    *)
(* and two goroutines copy, one in each direction.                          *)
Upgrade(r) ==
    /\ At(r, "responding")
    /\ Goes(r, "copying")
    /\ copying' = [copying EXCEPT ![r] = {"up", "down"}]
    /\ Elsewhere /\ UNCHANGED <<client, forwarded, served>>

(* Seeded fault: a copy goroutine closes only the stream when it ends. *)
CopyEndsKeepsClient(r, d) ==
    /\ d \in copying[r]
    /\ copying' = [copying EXCEPT ![r] = @ \ {d}]
    /\ IF copying[r] = {d} THEN Leaves(r, "idle") ELSE UNCHANGED <<req, client>>
    /\ Elsewhere /\ UNCHANGED <<forwarded, served>>

(* A copy goroutine ends: its source or its sink failed. It closes the      *)
(* client's connection, and of the stream the direction to the agent.       *)
CopyEnds(r, d) ==
    /\ d \in copying[r]
    /\ copying' = [copying EXCEPT ![r] = @ \ {d}]
    /\ IF copying[r] = {d}
         THEN Leaves(r, "idle")
         ELSE client' = [client EXCEPT ![r] = "closed"] /\ UNCHANGED req
    /\ Elsewhere /\ UNCHANGED <<forwarded, served>>

(* A goroutine waits in a read of its source or in a write to its sink.     *)
(* With the tunnel gone, the one that copies to the client is held at most  *)
(* by a stalled client, and the other at most by a client that is there.    *)
Released(r, d) ==
    /\ req[r].tunnel \in closed
    /\ IF d = "up" THEN client[r] = "closed" ELSE client[r] # "stalled"

-----------------------------------------------------------------------------
Proxy(r) ==
    \/ Lookup(r) \/ OpenStream(r) \/ WriteRequest(r) \/ WriteFails(r)
    \/ ReadResponse(r) \/ ReadFails(r) \/ Respond(r) \/ Upgrade(r)
    \/ \E d \in {"up", "down"} : CopyEnds(r, d)

(* The steps of a request that no agent and no client can hold up: what     *)
(* needs neither, and what fails on a closed connection while the client    *)
(* does not stall.                                                          *)
Bound(r) ==
    \/ Lookup(r)
    \/ req[r].tunnel \in closed /\ (OpenStream(r) \/ ReadFails(r))
    \/ /\ req[r].tunnel \in closed /\ client[r] # "stalled"
       /\ WriteFails(r) \/ Respond(r) \/ Upgrade(r)
    \/ \E d \in {"up", "down"} : Released(r, d) /\ CopyEnds(r, d)

RouterNext ==
    \/ \E t \in Tunnels : Accept(t) \/ TunnelCloses(t)
    \/ \E r \in Requests :
         \/ Arrive(r) \/ Proxy(r)
         \/ ClientStalls(r) \/ ClientResumes(r) \/ ClientCloses(r)

=============================================================================
