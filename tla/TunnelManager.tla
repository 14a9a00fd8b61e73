--------------------------- MODULE TunnelManager ---------------------------
(***************************************************************************)
(* The TunnelManager of a gateway (tunnel.go): the table from subdomains   *)
(* to the QUIC connections of tunnel agents, the goroutines that run       *)
(* RegisterTunnel, the watcher each registration leaves behind, and the    *)
(* dials of the public HTTP proxy.                                         *)
(*                                                                         *)
(* A connection carries any number of streams, so it may be registered     *)
(* more than once.  It closes when the agent or the network ends it, or    *)
(* when a registration takes its subdomain over, and stays closed.         *)
(***************************************************************************)
EXTENDS Integers

CONSTANTS
    Conns,        \* QUIC connections of tunnel agents
    Subdomains,
    Binds,        \* invocations of RegisterTunnel
    Dials,        \* DialContext calls of the proxy
    Ages,         \* ages of a machine's nonce, negative for a clock ahead of ours
    ProofWindow,  \* 60 seconds
    NoConn,       \* "no connection": an absent key of the map
    NoBind

ASSUME TunnelAssumptions ==
    /\ NoConn \notin Conns
    /\ NoBind \notin Binds
    /\ Ages \subseteq Int
    /\ ProofWindow \in Nat

(* What authenticate looks at: the identity type, how old the nonce is, and *)
(* whether the cookie is valid or the credential decodes and is stored.     *)
Credentials == [type : {"human", "machine", "other"}, age : Ages, accepted : BOOLEAN]

VARIABLES
    tunnels,      \* per subdomain: the registered connection, or NoConn
    closed,       \* connections whose context is done
    bind,         \* per invocation of RegisterTunnel: what it binds, where it is
    dial,         \* per dial: what it looks for and what it has found
    latest        \* history, per subdomain: the last bind that was stored

tunnelVars == <<tunnels, closed, bind, dial, latest>>

Idle == [at |-> "idle"]
Bound == [at : {"admitted", "watching", "over"}, conn : Conns, sub : Subdomains]
Dialed == [at : {"found", "open", "failed"}, conn : Conns \cup {NoConn}, sub : Subdomains]

TypeOK ==
    /\ tunnels \in [Subdomains -> Conns \cup {NoConn}]
    /\ closed \subseteq Conns
    /\ bind \in [Binds -> Bound \cup {Idle}]
    /\ dial \in [Dials -> Dialed \cup {Idle}]
    /\ latest \in [Subdomains -> Binds \cup {NoBind}]

Init ==
    /\ tunnels = [s \in Subdomains |-> NoConn]
    /\ closed = {}
    /\ bind = [b \in Binds |-> Idle]
    /\ dial = [d \in Dials |-> Idle]
    /\ latest = [s \in Subdomains |-> NoBind]

-----------------------------------------------------------------------------
(* authenticate. The nonce of a human's session is not looked at. *)
Authenticated(cred) ==
    /\ cred.accepted
    /\ \/ cred.type = "human"
       \/ cred.type = "machine" /\ cred.age <= ProofWindow

(* RegisterTunnel up to the lock: the payload parsed, the credential was    *)
(* accepted and the policy allows the bind. A refused registration returns  *)
(* an error and changes nothing.                                            *)
Admit(b, c, s) ==
    /\ bind[b] = Idle
    /\ \E cred \in Credentials : Authenticated(cred)
    /\ bind' = [bind EXCEPT ![b] = [at |-> "admitted", conn |-> c, sub |-> s]]
    /\ UNCHANGED <<tunnels, closed, dial, latest>>

(* Seeded faults: a registration whose connection is already done leaves no *)
(* watcher; the existing connection is closed without asking if there is one. *)
RegisterTunnelUnwatched(b) ==
    /\ bind[b] # Idle /\ bind[b].at = "admitted"
    /\ closed' = closed \cup ({tunnels[bind[b].sub]} \ {NoConn})
    /\ tunnels' = [tunnels EXCEPT ![bind[b].sub] = bind[b].conn]
    /\ bind' = [bind EXCEPT ![b].at = IF bind[b].conn \in closed
                                       THEN "over" ELSE "watching"]
    /\ latest' = [latest EXCEPT ![bind[b].sub] = b]
    /\ UNCHANGED dial
RegisterTunnelClosesNil(b) ==
    /\ bind[b] # Idle /\ bind[b].at = "admitted"
    /\ closed' = closed \cup {tunnels[bind[b].sub]}
    /\ tunnels' = [tunnels EXCEPT ![bind[b].sub] = bind[b].conn]
    /\ bind' = [bind EXCEPT ![b].at = "watching"]
    /\ latest' = [latest EXCEPT ![bind[b].sub] = b]
    /\ UNCHANGED dial

(* Under the lock: close the connection that holds the subdomain, whichever *)
(* it is, and enter the new one; then leave a watcher behind.               *)
RegisterTunnel(b) ==
    /\ bind[b] # Idle /\ bind[b].at = "admitted"
    /\ closed' = closed \cup ({tunnels[bind[b].sub]} \ {NoConn})
    /\ tunnels' = [tunnels EXCEPT ![bind[b].sub] = bind[b].conn]
    /\ bind' = [bind EXCEPT ![b].at = "watching"]
    /\ latest' = [latest EXCEPT ![bind[b].sub] = b]
    /\ UNCHANGED dial

(* Seeded fault: the watcher's test for a takeover is inverted. *)
WatchKeeps(b) ==
    /\ bind[b] # Idle /\ bind[b].at = "watching"
    /\ bind[b].conn \in closed
    /\ tunnels' = [tunnels EXCEPT ![bind[b].sub] =
          IF latest[bind[b].sub] = b THEN @ ELSE NoConn]
    /\ bind' = [bind EXCEPT ![b].at = "over"]
    /\ UNCHANGED <<closed, dial, latest>>

(* The watcher: its connection is done, so the subdomain is deleted.        *)
Watch(b) ==
    /\ bind[b] # Idle /\ bind[b].at = "watching"
    /\ bind[b].conn \in closed
    /\ tunnels' = [tunnels EXCEPT ![bind[b].sub] = NoConn]
    /\ bind' = [bind EXCEPT ![b].at = "over"]
    /\ UNCHANGED <<closed, dial, latest>>

(* The agent, its network or the idle timeout ends a connection. *)
ConnCloses(c) ==
    /\ c \notin closed
    /\ closed' = closed \cup {c}
    /\ UNCHANGED <<tunnels, bind, dial, latest>>

-----------------------------------------------------------------------------
(* ListTunnels: the subdomains of the table, all of them reported online. *)
ListTunnels == {s \in Subdomains : tunnels[s] # NoConn}

(* Seeded fault: any registered connection serves any subdomain. *)
DialLookupAny(d, s) ==
    /\ dial[d] = Idle
    /\ \E t \in Subdomains :
         dial' = [dial EXCEPT ![d] =
           [at |-> IF tunnels[t] = NoConn THEN "failed" ELSE "found",
            conn |-> tunnels[t], sub |-> s]]
    /\ UNCHANGED <<tunnels, closed, bind, latest>>

(* DialContext: the lookup under the read lock ...                          *)
DialLookup(d, s) ==
    /\ dial[d] = Idle
    /\ dial' = [dial EXCEPT ![d] =
          [at |-> IF s \in ListTunnels THEN "found" ELSE "failed",
           conn |-> tunnels[s], sub |-> s]]
    /\ UNCHANGED <<tunnels, closed, bind, latest>>

(* ... and the stream opened on what it found, after the lock is released.  *)
DialOpen(d) ==
    /\ dial[d] # Idle /\ dial[d].at = "found"
    /\ dial' = [dial EXCEPT ![d].at = IF dial[d].conn \in closed THEN "failed" ELSE "open"]
    /\ UNCHANGED <<tunnels, closed, bind, latest>>

(* The proxied exchange is over, or was refused with "tunnel offline". *)
DialEnds(d) ==
    /\ dial[d] # Idle /\ dial[d].at \in {"open", "failed"}
    /\ dial' = [dial EXCEPT ![d] = Idle]
    /\ UNCHANGED <<tunnels, closed, bind, latest>>

-----------------------------------------------------------------------------
Next ==
    \/ \E b \in Binds, c \in Conns, s \in Subdomains : Admit(b, c, s)
    \/ \E b \in Binds : RegisterTunnel(b) \/ Watch(b)
    \/ \E c \in Conns : ConnCloses(c)
    \/ \E d \in Dials, s \in Subdomains : DialLookup(d, s)
    \/ \E d \in Dials : DialOpen(d) \/ DialEnds(d)

Spec == Init /\ [][Next]_tunnelVars

(* Watchers and the goroutines inside RegisterTunnel are scheduled. *)
FairSpec ==
    /\ Spec
    /\ \A b \in Binds : WF_tunnelVars(RegisterTunnel(b)) /\ WF_tunnelVars(Watch(b))

-----------------------------------------------------------------------------
Watching(b, c, s) == bind[b] = [at |-> "watching", conn |-> c, sub |-> s]

(* Every entry of the table has a watcher that will remove it: the entry's  *)
(* own registration is still waiting for the connection to end, whatever    *)
(* takeovers and closes happened before.                                    *)
EntriesAreWatched ==
    \A s \in Subdomains :
      tunnels[s] # NoConn => \E b \in Binds : Watching(b, tunnels[s], s)

(* A stream is opened for a subdomain only on a connection that was         *)
(* admitted for that very subdomain, even if the entry has been taken over  *)
(* or deleted since the lookup.                                             *)
DialsOnlyBound ==
    \A d \in Dials :
      dial[d] # Idle /\ dial[d].at \in {"found", "open"} =>
        \E b \in Binds : bind[b] # Idle /\ bind[b].at \in {"watching", "over"}
                         /\ bind[b].conn = dial[d].conn /\ bind[b].sub = dial[d].sub

(* A closed connection does not stay listed.                                *)
ClosedEntriesGo ==
    \A s \in Subdomains, c \in Conns :
      tunnels[s] = c /\ c \in closed ~> tunnels[s] # c

(* tunnel.go:77: "TunnelEntry describes an active WAN tunnel agent". The    *)
(* agent that claimed a subdomain last is listed as long as it is active.   *)
ActiveAgentListed ==
    \A s \in Subdomains :
      latest[s] # NoBind /\ bind[latest[s]].conn \notin closed =>
        tunnels[s] = bind[latest[s]].conn

=============================================================================
