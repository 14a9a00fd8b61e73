# A TLA+ model of secure_network

`secure_network` is a Go library for a zero-trust overlay: nodes keep one
encrypted QUIC stream to a gateway and use it for RPC, gossip and forwarded
actions; the gateway also exposes tunnel agents to the public web. These
modules model the parts that keep state and run concurrently, check them with
TLC on small instances, and prove their safety properties with TLAPS for every
size. File and line references are to the repository.

## Inventory

| Part | State | Operations | Interacts with |
|---|---|---|---|
| RPCManager (`mesh_rpc.go`) | `handlers`, `pending` waiters with one-place channels | `Register`, `Call`, `Broadcast`, `Notify`, `NotifyPeer`, `handleIngress` | sends through PeerRoute; `handleIngress` runs on the listen loops |
| GossipManager (`gossip.go`) | `handlers`, `seen` IDs with times, `lamport` | `RegisterHandler`, `Publish`, `HandleIngress`, `CleanupSeenCache` on a ticker | broadcasts through PeerRoute; ingress is called by the embedding program |
| Overlay channel (`mesh.go` SendAction and listenLoop, `framing.go`) | cipher states, stream, `writeMu` | `SendAction`, `WriteFrame`, `ReadFrame`, `listenLoop` | carries everything else |
| Gateway (`gateway.go`) | `activeSessions`, `hostSessions`, per session a stream, cipher states and a heartbeat monitor | `HandleSecureStream`, `monitorHeartbeat`, `routeToAPI`, `forwardToHost`, `clearHostSessions` | writes `Router.LocalBus`, asks `Router.DispatchProtocol`, hands `tunnel_bind` to TunnelManager |
| TunnelManager (`tunnel.go`) | `tunnels`: subdomain to connection | `RegisterTunnel` and its watcher, `ListTunnels`, the proxy's `DialContext` | called by Gateway; serves public HTTP |
| Tunnel agent (`tunnel.go`) | the current connection | `RunMeshTunnelAgent`, `proxyStreamToLocal` | the far end of TunnelManager |
| MeshNode (`mesh.go`) | `conn`, `stream`, `csSend`, `csRecv`, context, identity keys | `Connect`, `Close`, `Connected`, `handleHeartbeat`, `loadOrGenerateKeys` | owns the overlay channel |
| PeerRoute (`peer_route.go`) | peers, access policies, handlers | `SendToPeer`, `Broadcast`, `Dispatch`, peer and policy table, `EvaluateSwarmHandshake` | between the managers and MeshNode |
| Router (`router.go`) | modules, `ActiveTunnel`, `LocalBus`, protocol handlers | `Attach`, `Boot`, QUIC accept loop, `proxyToTunnel` | owns the gateway's side |
| DBSC (`dbsc.go`) | one session record per token ID in the store | `handleStartSession`, `handleRefreshEndpoint` | HTTP, external store |
| TLS/ACME, SecureNode (`tls_acme.go`, `node.go`) | configuration, wiring | constructors and delegations | all of the above |

What is hard here: `Call`, its timer and the listen loops race for a waiter
that one of them uses after the lock is released; handlers run on the loop that
would have to receive their own responses; two goroutines stamp and broadcast
envelopes in any order while a janitor trims the table that protects against
replays; a Noise cipher counter and a stream are shared by writers, with a lock
on the node and without one on the gateway; watchers outlive the table entries
they were made for; session state is keyed by node key rather than by session,
so the end of one session touches its siblings; a bounded bus blocks the
readers that fill it; a reconnect replaces fields that loops and senders are
using; a start ignores failures of the store while it saves an identity; the
tunnel role is taken over while requests are on their way through the old
tunnel; a client, a peer or a gateway that stalls holds whatever waits for it,
since no write and hardly any read has a deadline; and a policy, a session record
or a connection is looked up under one lock and used after it. `PROJECT.json` lists
these hazards with their lines and the properties that cover them.

## Modules

**RPCContract** states what `Call` promises: a call is opened once and closed
once, with an answer a peer gave to that very call or with a failure.

**RPCManager** is one node's manager. A call moves through `idle`, `registered`
(waiter inserted), `sent` (request on the wire, `SendToPeer` not back yet),
`waiting` (in the `select`), `unwinding` (deferred delete to come) and
`returned`. A listen loop is `reading`, in `deliver` (waiter looked up, lock
released) or in `handler`. Calls are made by the application or by a handler
on its loop. Responses stay available once a peer produced them, so they can be
lost, late, duplicated and reordered. Packets are taken at the interface of
`handleIngress`, after `json.Unmarshal`; what the far end writes is external.

**GossipManager** is a set of nodes with several goroutines each. `Publish` is
two steps because the stamp is drawn under the lock and the envelope is built
and sent after it; `HandleIngress` is the locked part, which drops or admits,
and the rest. Envelopes stay deliverable for ever. Two history variables record
each node's causal past and the last admission of an ID; no guard reads them.

**FifoChannel** and **SecureChannel**: one direction of an established session.
A send is `Begin` (lock), `Encrypt`, `Count` (the counter's increment, separate
because it is a data race without a lock), `WriteHeader`, `WriteBody`, `End`.
`locked` says whether the writers are `SendAction` or the gateway's, which take no
lock. The receiver opens a frame whose counter it expects, drops another one and
goes on, loses the framing when a length is not followed by its payload, and ends
at a frame in `TooLarge`, which `WriteFrame` sends and `ReadFrame` refuses.
FifoChannel is the abstract specification of the locked case. Both cipher states
are assumed to be those of a completed handshake; MeshNode is about whether they
are.

**MeshNode**: the node's end of the overlay. A `Connect`, its QUIC connection, its
stream and its Noise session have one name. After `Dial` come the seven steps of the
handshake, from `OpenStream` to `ReadMessage`, each an action with its own error
return, then `Install`, one step for each of the four assignments that no lock
protects; the last one starts the listen loop. A loop looks at the context
(`LoopSelect`), then calls `ReadFrame` on the stream the field names by then
(`LoopRead`), and opens what it gets with whatever `csRecv` is at that moment.
`Crash` ends the process at any point, also when nil is used as a cipher state.
Whether the noise library returns cipher states with the first message is the
parameter `FirstMessage`. It does not: IK completes with its second, so `{FALSE}` is
the program, and a loop then ends in a panic at its first frame. `node` also allows
TRUE, the program without that defect, so that its properties are checked with loops
and senders that live on; none of its properties depends on the answer.

**PeerRoute** and **SecureNode**: the peer and policy tables, with
`EvaluateSwarmHandshake` in steps: the compilation without a lock, the policy's lookup
under it, and the verdict after it is released, by when the table may say otherwise;
and the process around them, with `loadOrGenerateKeys` (`LoadKeys`,
`SaveKeys`, `StartFails`) and crashes. Key material is named by the start that made
it, so that a mixed identity shows. The store's transactions are atomic, but its
Gets and Puts may fail; `ignored` counts the failures the code does not notice.

**TunnelManager**: `Admit` is `RegisterTunnel` up to the lock (`Authenticated`
is `authenticate`), `RegisterTunnel` the locked takeover, `Watch` the goroutine
it leaves behind, `DialLookup` and `DialOpen` the two halves of `DialContext`.

**TunnelAgent** extends TunnelManager by the agent at the other end:
`RunMeshTunnelAgent` with each error path (some pause, one does not, one leaves the
connection open), cancellation, and other agents that dial and bind freely. The one
path from a bind to `RegisterTunnel` is `HandleSecureStream` (gateway.go:164-175),
which opens the action from a Noise frame. This agent writes plain JSON
(tunnel.go:235), so its bind is refused (`BindRefused`), and only other programs,
which speak the gateway's protocol, register (`Request`).

**Router**, **DBSC** and **Ingress**: Router is the accept loop that hands
`ActiveTunnel` over and `proxyToTunnel` with its fallback to the mux and
hijacked connections, with clients that may stall, go on or leave at any stage;
DBSC is the session records with the two handlers, each a load or save in a
transaction of its own; Ingress composes them, a request that reaches the mux
being an invocation of a DBSC handler or of a page. Requests are slots: one that
is idle again is used for the next, so that a run holds any number of requests,
two at a time.

**Gateway**: per session the position in `HandleSecureStream`, the monitor, and
a forward or a sweep in progress. `clearHostSessions` visits hosts one by one
(`ClearVisit`) and deletes by host ID in a later step (`ClearDelete`), as
`sync.Map.Range` allows other goroutines in between. `finished` are streams
whose sending side was closed: `stream.Close` does not end the read loop. The
monitor's challenge is written after the tick (`MonitorWritten`); the write may also
block, or fail with the session alive (`MonitorFails`). Nothing in the repository
receives from `LocalBus`: `BusReceive` is what an embedding program may do.

**MC\*** modules give the constants; **\*Proofs** hold the theorems. Operators
introduced by "Seeded fault" are wrong variants of the action after them, used
to see that each property notices a plausible bug; no specification uses them.

## Runs

| Run | Specification and instance | Checks |
|---|---|---|
| `rpc` | 2 calls, 2 loops, 1 method, 1 reply body, fair | `PendingExact`, `RepliesCorrelated`, `ResponseFindsWaiter`, refinement of RPCContract, `IngressReturns`, `EveryCallReturns` |
| `gossip` | 2 nodes, 2 publishers, 1 ingress goroutine, window 1 of 3 clock values, stamps to 3, symmetry | `ClockCondition`, `StampsUnique`, `AdmitsOncePerWindow` |
| `channel` | 2 writers, 2 messages each, one of them too large, locked and not, fair | `NonceUsedOnce`, `NothingSkipped`, `OpenedOnceInOrder`, refinement of FifoChannel, `WrittenIsReceived` |
| `channel_unlocked` | the same, not locked | `EveryFrameOpens` fails: README.md:74 "Concurrent-safe internal structures" |
| `tunnel` | TunnelAgent: 3 registrations, 2 connections, 2 subdomains, 1 dial, fair | `EntriesAreWatched`, `DialsOnlyBound`, `ClosedEntriesGo`, `AgentLeaksNothing`, `AgentRedials` |
| `tunnel_cancel` | the same | `CancelStopsAgent` fails: README.md:77 "Context-aware cancellation" |
| `tunnel_stale_watcher` | TunnelManager alone, 3 registrations | `ActiveAgentListed` fails: tunnel.go:77 |
| `gateway` | 2 sessions, 2 keys, 1 host, 3 clock values, bus of 1, fair | `NothingOutlivesItsSession`, `SilentSessionsClosed` |
| `node` | 2 Connects, 1 sender, both answers of noise, fair | `FailedConnectLeavesNothing`, `CloseEndsLoop` |
| `node_connect` | the same, no states with the first message | `EstablishedCanSend` fails: README.md:26 "Bidirectional secure overlay communication" |
| `secure_node` | 3 starts, 1 node, 1 route, 1 evaluator | `IdentitySurvives` |
| `ingress` | 2 tunnels, 2 request slots, 1 session, 2 keys, fair | `HandledOnce`, `RefreshProvesBoundKey`, `LostTunnelRequestsEnd` |

Each passing run checks its module's `TypeOK` too.

Some of these say how far a guarantee goes rather than that it is complete.
`IdentitySurvives`: without ignored store failures the identity survives crashes;
after one the node may have a new identity, but its two Noise keys still match;
after two they need not. `AgentLeaksNothing`: cancellation leaves the one connection
it interrupts open, and nothing else does. `WrittenIsReceived`: a frame over the
limit is written without an error and takes itself and what follows it down, but
nothing before it. `OpenedOnceInOrder` holds without the lock too, by the order of
each writer and of the stream; it says nothing of the frames that are lost there.
`AgentRedials` is about an agent that was not cancelled. `CloseEndsLoop` is about the
session the node's fields name. `SilentSessionsClosed`: a silent session is closed
unless its monitor is held by a challenge it cannot write or has ended because that
write failed, after which nobody watches the session. `LostTunnelRequestsEnd`: only
a client that stalls can hold a request whose tunnel has gone. `EveryCallReturns` and
`IngressReturns` hold as long as stream writes return.

### What the disagreements show

- `channel_unlocked`: the heartbeat monitor and forwarding sessions share a
  cipher state and a stream without a lock; frames are sealed with one counter
  value, written out of order, or put inside one another.
- `tunnel_cancel`: `RunMeshTunnelAgent` never looks at its context. Once it is done
  each dial fails, and the agent sleeps and dials again for ever.
- `tunnel_stale_watcher`: a takeover closes the old connection, whose watcher
  then deletes the entry the takeover has just made. The new agent stays
  connected and is unreachable.
- `node_connect`: `Connect` keeps the cipher states returned with the first
  handshake message and not those of `hs.ReadMessage` (mesh.go:152, 182), which
  completes the pattern. It returns without an error, `SendAction` answers "mesh
  tunnel context unavailable", and the first frame that arrives is decrypted with
  nil.

Four more cases in which the code does less than a phrase of the README suggests are
in the models, at the lines given under "hazards", without a run of their own:

- `Call` sets its timer after `SendToPeer` has returned (mesh_rpc.go:92, 105), and
  `SendToPeer` looks at neither the timeout nor the context. A peer that keeps its
  connection and stops reading holds the call ("timeout enforcement").
- The agent's plain JSON is not the Noise frame the gateway reads first. The stream is
  closed, the agent does not read it, and waits on a tunnel that nobody has registered
  ("authenticated tunnel binding").
- A node that reconnects has two sessions under one key until the gateway notices the
  end of the first, which then deletes the heartbeat entry and the hosts of the second
  ("Automatic reconnect handling").
- `Close` closes the connection that `m.conn` names. A `Connect` under way installs its
  session afterwards, and a connection that a reconnect has replaced is known to nobody
  ("Graceful shutdown handling").

### Bounds

Two calls and two loops give a race, a mix-up and a nested call; a third adds
no new pair of actors, and the safety part is proved for any number. One reply
body is enough in the fair run because a mix-up shows in the ID. Stamps up to 3
allow publish, admit elsewhere and publish again, the shortest causal chain
between nodes. A window of one tick reaches "younger", "exactly" and "older".
Two writers with two messages can reorder within and between writers. Two
connections and three registrations allow a takeover, a takeover back and a
second bind of one connection; the agent's second connection is its next turn or
a rival's. Two Connects are a connect and a reconnect that may overlap, in a
process that may be restarted any number of times. Three starts are one that
generates, one that reads some rows and one that sees what the second left
(`MaxStarts` is a bound of the model). One node is enough in PeerRoute: no operation
relates the entries of two. Two tunnels are a takeover; two requests race on it. As
the two slots are used again and again, and with two keys, there is any sequence of
registrations, with either key or none, before, during and after a refresh. Two
sessions of the gateway, which may share a key, meet every
rule that is keyed by key or host; a grace of one tick out of three values makes
entries stale; a bus of one place is full after one event. `MaxTime`,
`MaxLamport` and `MaxSends` are bounds of the model; `Window`, `Grace`,
`ProofWindow`, `BusCapacity` and `LamportModulus` stand for one hour, 180 s,
60 s, 2048 and 2^64.

Deadlock is not checked where the instance runs out: `channel`, `channel_unlocked`
(every message sent), `gateway` (the bounded clock at its end and all sessions over)
and `secure_node` (no start left).

### Fairness

Weak fairness is assumed for what the Go runtime schedules once it can run: the
steps inside `Call`, `IngressDeliver`, writers inside a send, the receiving
loop, watchers, `RegisterTunnel`, the heartbeat monitor's ticker,
`Connect` while it installs, listen loops and their handlers, and the agent's loop;
the timer of a `select` fires. A read on a connection that is over returns, and the
gateway reads what arrives on a stream.

The program sets no deadline on a write, so whether a write returns is stated each
time. In RPCManager `WritesReturn` assumes it (the peer keeps reading, or its
connection ends), and its liveness properties hold no further than that.
In Gateway it is not assumed: of a session only the ticker is fair, and nothing
makes anyone read `LocalBus`. In Ingress the steps of a request are fair only where
neither agent nor client can hold them (`Bound`: no connection is needed, or the
tunnel is closed and the client does not stall), and nothing is assumed of the mux.

Peers and agents need never answer, clients need never leave, connections need never
end, and nothing has to begin.

## Proofs

Every safety property that a passing run checks is also a theorem, for every value
of the constants: any finite or infinite sets of calls, loops, nodes, writers,
sessions, hosts, connections, requests and keys, any windows and any number of
messages and starts. Each proof module has `TypeCorrect`; the rest, with the
inductive invariant each one needs:

**RPCManagerProofs**
- `TableExact`, `RepliesReachTheirCall`, `NoResponseWithoutWaiter`. `IInv` adds that
  every answer belongs to a request that was sent (`AnswersFollowRequests`) and that
  a call that is unwinding or has returned has its outcome (`OutcomeDecided`).
  `NoResponseWithoutWaiter` needs the first: a response exists only after the
  request, hence after the waiter.
- `Refinement`: RPCManager implements RPCContract. `CallRegister` maps to `Open`,
  `CallReturn` to `Close`, `PeerAnswers` for a call's ID to `Answer`, all else to
  stuttering; `Close` needs `RepliesCorrelated` and `OutcomeDecided`.

**GossipManagerProofs**
- `Causality`, `StampsDiffer`: each clock is at or beyond the node's causal past, a
  stamp held between the lock and the broadcast is reached by the clock and beyond
  its past, and held and sent stamps of a node all differ. The properties alone are
  not inductive because of the goroutines between the two halves of `Publish`.
- `OncePerWindow`: `SeenProtects` says that an admission younger than the window is
  still in the table: the janitor takes the time by itself and compares it in its own
  way, but deletes nothing that young. At the edge of the window neither comparison
  matters, since `HandleIngress` admits there anyway.

**SecureChannelProofs**
- `OpenedInOrder` holds with and without the mutex, so it cannot rest on the
  counters, which race. `HeadersInOrder` says that the lengths a writer puts on the
  wire are in the order of its messages and behind what it has begun; `OpenedIsPast`
  that whatever was opened precedes all that is still to be read.
- `NoncesUnique`, `NoneSkipped`: with the mutex, only its holder is inside a send
  (`OneSender`); the wire is whole frames, the counter of a frame giving its place
  (`WireFramed`); and until the stream breaks the counter is the number of frames
  written, one ahead while a counted frame is not complete (`CounterInStep`). After a
  break `CounterInStep` is lost (a failed write does not set the counter back), and
  nothing is written any more.
- `Refinement`: a session with the mutex implements FifoChannel. `WriteBody` maps to
  `Send`, `ReadAndOpen` to `Deliver`, all else to stuttering. The messages sent are
  those of every second piece on the wire; that these are the payloads is
  `WireFramed`. The gateway's streams, without a mutex, map to an idle channel:
  nothing is claimed of them, and `channel_unlocked` shows why.

**TunnelProofs**
- `Watched`, `DialsBound`: the types and `EntriesAreWatched` are inductive together;
  `DialsOnlyBound` needs `EntriesAreWatched` at the lookup and, until the stream is
  opened, that no step forgets a registration (`RecordsStay`).
- `AgentImplementsManager`: TunnelAgent implements TunnelManager, its own variables
  hidden, so that the two results above carry over (`AgentKeepsTable`). It needs that
  the agent has a connection exactly in the turn it dialed it for (`AgentTypeOK`).
- `AgentClean`: no connection of an earlier turn is open, or cancellation has left
  the last one (`OneLeft`); without the second case the invariant is false.

**GatewayProofs**
- `EntriesEnd`: `HostsReachable` says that a host still in the table leads to a live
  session, to one that `tunnel_bind` left, or to one whose sweep has it still to
  visit or to delete: without the last clause the end of a sweep could leave an entry
  behind. `KeysAlive` is the part about heartbeat entries.

**MeshNodeProofs**
- `FailuresAreClean`: `ConnectOwns` says that no field names a Connect before its
  handshake is complete, and that only a dialed one that has not failed has a
  connection. `HandshakeSteps` goes through the seven error returns.

**SecureNodeProofs**
- `IdentityKept`: `WholeIdentity` says that without an ignored failure the store
  holds the first identity or nothing, and keys are generated only for an empty
  store; `OneGeneration` that after at most one the rows present are of one start.

**IngressProofs**
- `NeverHandledTwice`: `StageTells` says which stages of a request exclude that
  something of it has left, and which that the mux has it, until its slot is used
  again.
- `RefreshSound`: `SeesBindings` says that a refresh at work has on record every key
  its session was bound to since it began, the one it has loaded included.

The assumptions are the named `ASSUME`s: distinguished constants differ, windows and
bounds are naturals, the keys of DBSC are none of the values that stand for a missing
or malformed one, and stamps stay below the counter's width (`MaxLamport <
LamportModulus`): a wrap of the 64-bit counter is outside the theorems.

Only model-checked: liveness, which is beyond this prover (`IngressReturns`,
`EveryCallReturns`, `WrittenIsReceived`, `ClosedEntriesGo`,
`AgentRedials`, `SilentSessionsClosed`, `CloseEndsLoop`, `LostTunnelRequestsEnd`), and
the violations.

## Not modelled, and why

- The wrapping of packets in `PeerMessage` by PeerRoute against the parsing in
  `handleIngress`: what unwraps it is outside the repository.
- The Noise handshake, QUIC, the policy and dataframe engines and the store are
  external; their outcomes appear as choices. `post` and `karma` only write rows
  of that store, and `VerifyMachineIdentity` is a check without state.
- Byte copying: `proxyStreamToLocal` of the agent shares no state with its loop,
  and the bodies that `proxyToTunnel` copies are not looked at.
- HTTP data that no modelled state depends on: cookie attributes, origin and scope
  of a DBSC session (`requestOrigin`, `dbscIncludeSiteAllowed`, `getDBSCDomain`) and
  the header `dbscInterceptor` adds.
- `Boot`, `Attach` and the listeners are wiring that runs once; TLS/ACME is
  configuration; SecureNode's other methods delegate after a nil check; the names of
  policies are a conversion without state.
- Of the hazards in `PROJECT.json`, those with a note and no property: the
  repository says nothing of the case that a property could hold it to, or the case
  is outside the state that is modelled. The collision of gossip IDs (a service and
  a nanosecond, without the origin) is one: it is in the model, and
  `AdmitsOncePerWindow` is about the ID.

- That the janitor removes what is too old: one step of a ticker, read off
  `CleanupSeenCache`. What it must not remove is `AdmitsOncePerWindow`.

## Plan

The safety properties of all runs are proved. What is left would say more about the
same modules:

1. Steps towards liveness that are safety facts: for `SilentSessionsClosed`, that a
   live session has its monitor until a challenge fails; for `ClosedEntriesGo`,
   that a closed connection in the table has a watcher that can run
   (`EntriesAreWatched` is that fact already).
2. SecureChannel without the mutex: what remains true of a frame that is opened (its
   counter is the number of frames opened before it).
3. Ingress implements DBSC: the composition's steps are DBSC's or invisible to it, as
   `AgentImplementsManager` does for the tunnel.
