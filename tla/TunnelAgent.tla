---------------------------- MODULE TunnelAgent ----------------------------
(***************************************************************************)
(* A tunnel agent (RunMeshTunnelAgent, tunnel.go) and the TunnelManager it *)
(* binds to.  The agent dials, opens a stream, signs and sends its bind,   *)
(* and accepts streams until its connection is over; then it pauses and    *)
(* begins again.  It looks at its context only through the calls it makes. *)
(*                                                                         *)
(* Other nodes dial as they like and bind through a session of the         *)
(* Gateway, the one caller RegisterTunnel has: HandleSecureStream reads    *)
(* Noise frames and hands the content of a tunnel_bind action on.  The     *)
(* agent writes its bind as plain JSON instead.                            *)
(***************************************************************************)
EXTENDS TunnelManager, FiniteSets

CONSTANT Subdomain   \* the subdomain of this agent

ASSUME AgentAssumption == Subdomain \in Subdomains

VARIABLES
    dialed,     \* connections that have been dialed, by anyone
    own,        \* those of this agent
    asked,      \* own connections whose bind is on its way to the gateway
    agent,      \* "dialing", "opening", "signing", "accepting" or "pausing"
    conn,       \* the connection of this turn, or NoConn
    cancelled   \* the context is done

agentVars == <<dialed, own, asked, agent, conn, cancelled>>
allVars == <<tunnelVars, agentVars>>

AgentInit ==
    /\ Init
    /\ dialed = {} /\ own = {} /\ asked = {}
    /\ agent = "dialing" /\ conn = NoConn
    /\ cancelled = FALSE

(* The context is cancelled. *)
Cancel ==
    /\ ~cancelled
    /\ cancelled' = TRUE
    /\ UNCHANGED <<tunnelVars, dialed, own, asked, agent, conn>>

AgentDials(c) ==
    /\ agent = "dialing"
    /\ ~cancelled
    /\ c \notin dialed
    /\ dialed' = dialed \cup {c}
    /\ own' = own \cup {c}
    /\ agent' = "opening" /\ conn' = c
    /\ UNCHANGED <<tunnelVars, asked, cancelled>>

(* No gateway, or a context that is done: sleep and begin again. *)
AgentDialFails ==
    /\ agent = "dialing"
    /\ agent' = "pausing"
    /\ UNCHANGED <<tunnelVars, dialed, own, asked, conn, cancelled>>

AgentOpens ==
    /\ agent = "opening"
    /\ conn \notin closed
    /\ ~cancelled
    /\ agent' = "signing"
    /\ UNCHANGED <<tunnelVars, dialed, own, asked, conn, cancelled>>

(* The turn is given up: the connection is closed. *)
GiveUp(next) ==
    /\ closed' = closed \cup {conn}
    /\ agent' = next
    /\ conn' = NoConn
    /\ UNCHANGED <<tunnels, bind, dial, latest, dialed, own, asked, cancelled>>

(* Seeded fault: the error path of OpenStreamSync does not close. *)
AgentOpenFailsLeaks ==
    /\ agent = "opening"
    /\ agent' = "pausing"
    /\ conn' = NoConn
    /\ UNCHANGED <<tunnelVars, dialed, own, asked, cancelled>>

AgentOpenFails == agent = "opening" /\ GiveUp("pausing")

(* The Signer failed: the next turn begins without a pause. *)
AgentSignFails == agent = "signing" /\ GiveUp("dialing")

(* The bind is written; whether the write failed is not looked at. *)
AgentBinds ==
    /\ agent = "signing"
    /\ agent' = "accepting"
    /\ asked' = asked \cup {conn}
    /\ UNCHANGED <<tunnelVars, dialed, own, conn, cancelled>>

(* Seeded fault: an error of AcceptStream does not end the inner loop. *)
AgentAcceptRetries ==
    /\ agent = "accepting"
    /\ conn \in closed \/ cancelled
    /\ UNCHANGED allVars

(* AcceptStream fails because the connection is over or the context is      *)
(* done. The connection is not closed here.                                 *)
AgentAcceptFails ==
    /\ agent = "accepting"
    /\ conn \in closed \/ cancelled
    /\ agent' = "pausing"
    /\ conn' = NoConn
    /\ UNCHANGED <<tunnelVars, dialed, own, asked, cancelled>>

(* time.Sleep returns. *)
AgentResumes ==
    /\ agent = "pausing"
    /\ agent' = "dialing"
    /\ UNCHANGED <<tunnelVars, dialed, own, asked, conn, cancelled>>

AgentStep ==
    \/ \E c \in Conns : AgentDials(c)
    \/ AgentDialFails \/ AgentOpens \/ AgentOpenFails \/ AgentSignFails
    \/ AgentBinds \/ AgentAcceptFails \/ AgentResumes

-----------------------------------------------------------------------------
OtherDials(c) ==
    /\ c \notin dialed
    /\ dialed' = dialed \cup {c}
    /\ UNCHANGED <<tunnelVars, own, asked, agent, conn, cancelled>>

(* A session on the connection of another node sends a tunnel_bind, for any *)
(* subdomain and repeatedly. Invocations differ only in their names, so the *)
(* next unused one is taken.                                                *)
Request(b, c, s) ==
    /\ bind[b] = Idle
    /\ b = CHOOSE unused \in Binds : bind[unused] = Idle
    /\ c \in dialed \ own
    /\ Admit(b, c, s)
    /\ UNCHANGED agentVars

(* HandleSecureStream meets the agent's JSON where it expects the first     *)
(* frame of a handshake: its first four bytes are a length beyond           *)
(* MaxFrameSize, ReadFrame fails, and the stream is closed without a word.  *)
(* The connection stays, and the agent does not read the stream.            *)
BindRefused(c) ==
    /\ c \in asked
    /\ asked' = asked \ {c}
    /\ UNCHANGED <<tunnelVars, dialed, own, agent, conn, cancelled>>

(* Of the proxy, the dials for the agent's subdomain. *)
ManagerStep ==
    \/ \E b \in Binds : RegisterTunnel(b) \/ Watch(b)
    \/ \E c \in dialed : ConnCloses(c)
    \/ \E d \in Dials : DialLookup(d, Subdomain) \/ DialOpen(d) \/ DialEnds(d)

AgentNext ==
    \/ AgentStep
    \/ Cancel
    \/ \E c \in Conns : OtherDials(c) \/ BindRefused(c)
    \/ \E b \in Binds, c \in Conns, s \in Subdomains : Request(b, c, s)
    \/ ManagerStep /\ UNCHANGED agentVars

AgentSpec == AgentInit /\ [][AgentNext]_allVars

(* As in TunnelManager; and the agent's loop runs: dials, the opening of a  *)
(* stream and the Signer come back, and AcceptStream does when it must. The *)
(* gateway reads what arrives on a stream.                                  *)
FairAgentSpec ==
    /\ AgentSpec
    /\ WF_allVars(AgentStep)
    /\ \A c \in Conns : WF_allVars(BindRefused(c))
    /\ \A b \in Binds :
         WF_allVars((RegisterTunnel(b) \/ Watch(b)) /\ UNCHANGED agentVars)

-----------------------------------------------------------------------------
(* RunMeshTunnelAgent leaves no connection open when it gives a turn up.    *)
(* The one exception is cancellation, which abandons the connection of the  *)
(* turn it interrupts: no other is ever left behind.                        *)
AgentLeaksNothing ==
    LET left == (own \ {conn}) \ closed IN
      /\ Cardinality(left) <= 1
      /\ left # {} => cancelled

(* Until it is cancelled, the agent comes back from whatever ends its       *)
(* turns: again and again it has a connection that is open, or dials.       *)
AgentRedials ==
    []<>(cancelled \/ agent = "dialing" \/ (agent = "accepting" /\ conn \notin closed))

(* src/README.md:77: "Context-aware cancellation". A cancelled agent stops  *)
(* dialing for good.                                                        *)
CancelStopsAgent == cancelled ~> [](agent # "dialing")

=============================================================================
