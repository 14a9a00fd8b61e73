---------------------------- MODULE TunnelProofs ----------------------------
(***************************************************************************)
(* Proofs about TunnelManager for any connections, subdomains, invocations *)
(* and dials: types, the watcher of every entry, and what a dial may use;  *)
(* and about TunnelAgent: that it is a TunnelManager to whoever looks at   *)
(* the table only, and what the agent leaves behind.                       *)
(*                                                                         *)
(* EntriesAreWatched is inductive with the types: a takeover brings the    *)
(* watcher of its own entry, and a watcher that ends deletes the one entry *)
(* it was for, whoever holds it.  DialsOnlyBound rests on it at the moment *)
(* of the lookup, and afterwards on registrations never being forgotten.   *)
(***************************************************************************)
EXTENDS TunnelAgent, FiniteSetTheorems, TLAPS

IInv == TypeOK /\ EntriesAreWatched /\ DialsOnlyBound

(* A new TunnelManager has an empty table and no dial. *)
LEMMA InitIInv == Init => IInv
BY DEF Init, IInv, TypeOK, EntriesAreWatched, DialsOnlyBound, Idle

(* RegisterTunnel, its watcher and DialContext preserve the types. *)
LEMMA TypeInductive == TypeOK /\ [Next]_tunnelVars => TypeOK'
<1> SUFFICES ASSUME TypeOK, [Next]_tunnelVars PROVE TypeOK'
  OBVIOUS
<1> USE DEF TypeOK, Bound, Dialed, Idle
<1>1. ASSUME NEW b \in Binds, NEW c \in Conns, NEW s \in Subdomains, Admit(b, c, s)
      PROVE TypeOK'
  BY <1>1 DEF Admit
<1>2. ASSUME NEW b \in Binds, RegisterTunnel(b) PROVE TypeOK'
  <2>1. bind[b] \in Bound
    BY <1>2 DEF RegisterTunnel
  <2>2. closed' \subseteq Conns
    BY <1>2, <2>1 DEF RegisterTunnel
  <2> QED BY <1>2, <2>1, <2>2 DEF RegisterTunnel
<1>3. ASSUME NEW b \in Binds, Watch(b) PROVE TypeOK'
  <2>1. bind[b] \in Bound
    BY <1>3 DEF Watch
  <2> QED BY <1>3, <2>1 DEF Watch
<1>4. ASSUME NEW c \in Conns, ConnCloses(c) PROVE TypeOK'
  BY <1>4 DEF ConnCloses
<1>5. ASSUME NEW d \in Dials, NEW s \in Subdomains, DialLookup(d, s) PROVE TypeOK'
  BY <1>5 DEF DialLookup
<1>6. ASSUME NEW d \in Dials, DialOpen(d) PROVE TypeOK'
  <2>1. dial[d] \in Dialed
    BY <1>6 DEF DialOpen
  <2> QED BY <1>6, <2>1 DEF DialOpen
<1>7. ASSUME NEW d \in Dials, DialEnds(d) PROVE TypeOK'
  BY <1>7 DEF DialEnds
<1>8. CASE UNCHANGED tunnelVars
  BY <1>8 DEF tunnelVars
<1> QED BY <1>1, <1>2, <1>3, <1>4, <1>5, <1>6, <1>7, <1>8 DEF Next

(* The state of the tunnel table, of RegisterTunnel and of DialContext      *)
(* keeps its type.                                                          *)
THEOREM TypeCorrect == Spec => []TypeOK
<1>1. Init => TypeOK
  BY InitIInv DEF IInv
<1> QED BY <1>1, TypeInductive, PTL DEF Spec

-----------------------------------------------------------------------------
(* Takeovers and watchers keep a watcher for every entry. *)
LEMMA WatchedInductive == TypeOK /\ EntriesAreWatched /\ [Next]_tunnelVars => EntriesAreWatched'
<1> SUFFICES ASSUME TypeOK, EntriesAreWatched, [Next]_tunnelVars,
                    NEW s \in Subdomains, tunnels'[s] # NoConn
             PROVE \E b \in Binds : Watching(b, tunnels[s], s)'
  BY DEF EntriesAreWatched
<1>1. CASE UNCHANGED <<tunnels, bind>>
  BY <1>1 DEF EntriesAreWatched, Watching
<1>2. ASSUME NEW b \in Binds, NEW c \in Conns, NEW t \in Subdomains, Admit(b, c, t)
      PROVE \E a \in Binds : Watching(a, tunnels[s], s)'
  <2>1. PICK a \in Binds : Watching(a, tunnels[s], s)
    BY <1>2 DEF Admit, EntriesAreWatched
  <2>2. a # b
    BY <1>2, <2>1 DEF Admit, Watching, Idle
  <2> QED BY <1>2, <2>1, <2>2 DEF Admit, Watching, TypeOK
<1>3. ASSUME NEW b \in Binds, RegisterTunnel(b)
      PROVE \E a \in Binds : Watching(a, tunnels[s], s)'
  <2>1. bind[b] \in Bound
    BY <1>3 DEF RegisterTunnel, TypeOK
  <2>2. CASE s = bind[b].sub
    <3>1. bind'[b] = [at |-> "watching", conn |-> bind[b].conn, sub |-> bind[b].sub]
      BY <1>3, <2>1 DEF RegisterTunnel, TypeOK, Bound
    <3> QED BY <1>3, <2>1, <2>2, <3>1 DEF RegisterTunnel, Watching, TypeOK, Bound
  <2>3. CASE s # bind[b].sub
    <3>1. tunnels'[s] = tunnels[s]
      BY <1>3, <2>3 DEF RegisterTunnel, TypeOK
    <3>2. PICK a \in Binds : Watching(a, tunnels[s], s)
      BY <3>1 DEF EntriesAreWatched
    <3>3. a # b
      BY <1>3, <3>2 DEF RegisterTunnel, Watching
    <3> QED BY <1>3, <3>1, <3>2, <3>3 DEF RegisterTunnel, Watching, TypeOK
  <2> QED BY <2>2, <2>3
<1>4. ASSUME NEW b \in Binds, Watch(b)
      PROVE \E a \in Binds : Watching(a, tunnels[s], s)'
  <2>1. bind[b] \in Bound
    BY <1>4 DEF Watch, TypeOK
  <2>2. s # bind[b].sub /\ tunnels'[s] = tunnels[s]
    BY <1>4, <2>1 DEF Watch, TypeOK, Bound
  <2>3. PICK a \in Binds : Watching(a, tunnels[s], s)
    BY <2>2 DEF EntriesAreWatched
  <2>4. a # b
    BY <2>2, <2>3 DEF Watching
  <2> QED BY <1>4, <2>2, <2>3, <2>4 DEF Watch, Watching, TypeOK
<1>5. QED
  BY <1>1, <1>2, <1>3, <1>4
     DEF Next, ConnCloses, DialLookup, DialOpen, DialEnds, tunnelVars

(* A registration on record: it has been in the table. *)
Recorded(c, s) ==
    \E b \in Binds : /\ bind[b] # Idle /\ bind[b].at \in {"watching", "over"}
                     /\ bind[b].conn = c /\ bind[b].sub = s

(* No step forgets that a connection was registered for a subdomain. *)
LEMMA RecordsStay ==
  ASSUME TypeOK, [Next]_tunnelVars, NEW c, NEW s, Recorded(c, s)
  PROVE  Recorded(c, s)'
<1>1. PICK b \in Binds : /\ bind[b] # Idle /\ bind[b].at \in {"watching", "over"}
                         /\ bind[b].conn = c /\ bind[b].sub = s
  BY DEF Recorded
<1>2. bind[b] \in Bound
  BY <1>1 DEF TypeOK
<1>3. SUFFICES bind'[b] # Idle /\ bind'[b].at \in {"watching", "over"}
               /\ bind'[b].conn = c /\ bind'[b].sub = s
  BY DEF Recorded
<1>4. CASE UNCHANGED bind
  BY <1>1, <1>4
<1>5. ASSUME NEW a \in Binds, NEW e \in Conns, NEW t \in Subdomains, Admit(a, e, t)
      PROVE bind'[b] = bind[b]
  BY <1>1, <1>5 DEF Admit, TypeOK
<1>6. ASSUME NEW a \in Binds, RegisterTunnel(a) PROVE bind'[b] = bind[b]
  BY <1>1, <1>6 DEF RegisterTunnel, TypeOK
<1>7. ASSUME NEW a \in Binds, Watch(a)
      PROVE bind'[b] = bind[b] \/ bind'[b] = [bind[b] EXCEPT !.at = "over"]
  BY <1>7 DEF Watch, TypeOK
<1>8. [bind[b] EXCEPT !.at = "over"] # Idle
      /\ [bind[b] EXCEPT !.at = "over"].at = "over"
      /\ [bind[b] EXCEPT !.at = "over"].conn = c
      /\ [bind[b] EXCEPT !.at = "over"].sub = s
  BY <1>1, <1>2 DEF Bound, Idle
<1>9. bind'[b] = bind[b] \/ bind'[b] = [bind[b] EXCEPT !.at = "over"]
  BY <1>4, <1>5, <1>6, <1>7
     DEF Next, ConnCloses, DialLookup, DialOpen, DialEnds, tunnelVars
<1> QED BY <1>1, <1>8, <1>9

(* The lookup finds a registration on record, and none is forgotten before  *)
(* the stream is opened.                                                    *)
LEMMA DialsInductive == IInv /\ [Next]_tunnelVars => DialsOnlyBound'
<1> SUFFICES ASSUME IInv, [Next]_tunnelVars, NEW d \in Dials,
                    dial'[d] # Idle, dial'[d].at \in {"found", "open"}
             PROVE Recorded(dial[d].conn, dial[d].sub)'
  BY DEF DialsOnlyBound, Recorded
<1> USE DEF IInv
<1>1. ASSUME dial[d] # Idle, dial[d].at \in {"found", "open"},
             dial'[d].conn = dial[d].conn, dial'[d].sub = dial[d].sub
      PROVE Recorded(dial[d].conn, dial[d].sub)'
  <2>1. PICK c, s : c = dial[d].conn /\ s = dial[d].sub
    OBVIOUS
  <2>2. Recorded(c, s)
    BY <1>1, <2>1 DEF DialsOnlyBound, Recorded
  <2>3. Recorded(c, s)'
    BY <2>2, RecordsStay
  <2> QED BY <1>1, <2>1, <2>3 DEF Recorded
<1>2. CASE UNCHANGED dial
  BY <1>1, <1>2
<1>3. ASSUME NEW e \in Dials, NEW t \in Subdomains, DialLookup(e, t)
      PROVE Recorded(dial[d].conn, dial[d].sub)'
  <2>1. CASE d # e
    BY <1>1, <1>3, <2>1 DEF DialLookup, TypeOK
  <2>2. CASE d = e
    <3>1. dial'[d].conn = tunnels[t] /\ dial'[d].sub = t /\ tunnels[t] # NoConn
      BY <1>3, <2>2 DEF DialLookup, ListTunnels, TypeOK
    <3>2. PICK b \in Binds : Watching(b, tunnels[t], t)
      BY <3>1 DEF EntriesAreWatched
    <3>3. bind'[b] = [at |-> "watching", conn |-> tunnels[t], sub |-> t]
      BY <1>3, <3>2 DEF DialLookup, Watching
    <3> QED BY <3>1, <3>3 DEF Recorded, Idle
  <2> QED BY <2>1, <2>2
<1>4. ASSUME NEW e \in Dials, DialOpen(e)
      PROVE Recorded(dial[d].conn, dial[d].sub)'
  <2>1. dial[e] \in Dialed /\ dial[e].at = "found"
    BY <1>4 DEF DialOpen, TypeOK
  <2>2. dial[d] # Idle /\ dial[d].at \in {"found", "open"}
    BY <1>4, <2>1 DEF DialOpen, TypeOK
  <2>3. dial'[d].conn = dial[d].conn /\ dial'[d].sub = dial[d].sub
    BY <1>4, <2>1 DEF DialOpen, TypeOK, Dialed
  <2> QED BY <1>1, <2>2, <2>3
<1>5. ASSUME NEW e \in Dials, DialEnds(e)
      PROVE Recorded(dial[d].conn, dial[d].sub)'
  BY <1>1, <1>5 DEF DialEnds, TypeOK
<1> QED
  BY <1>2, <1>3, <1>4, <1>5 DEF Next, Admit, RegisterTunnel, Watch, ConnCloses, tunnelVars

LEMMA Inductive == Spec => []IInv
<1>1. IInv /\ [Next]_tunnelVars => IInv'
  BY TypeInductive, WatchedInductive, DialsInductive DEF IInv
<1> QED BY <1>1, InitIInv, PTL DEF Spec

(* Every entry of the table has a watcher of its own that is still waiting, *)
(* however many registrations take over from each other.                    *)
THEOREM Watched == Spec => []EntriesAreWatched
<1>1. IInv => EntriesAreWatched
  BY DEF IInv
<1> QED BY <1>1, Inductive, PTL

(* DialContext opens a stream only on a connection that was registered for  *)
(* the subdomain it was asked for, although it releases the lock first.     *)
THEOREM DialsBound == Spec => []DialsOnlyBound
<1>1. IInv => DialsOnlyBound
  BY DEF IInv
<1> QED BY <1>1, Inductive, PTL

-----------------------------------------------------------------------------
(* TunnelAgent.                                                            *)

(* The agent has a connection, one of its own, exactly while it is in the   *)
(* turn it dialed it for.                                                   *)
AgentTypeOK ==
    /\ dialed \subseteq Conns
    /\ own \subseteq dialed
    /\ agent \in {"dialing", "opening", "signing", "accepting", "pausing"}
    /\ conn = NoConn <=> agent \in {"dialing", "pausing"}
    /\ conn # NoConn => conn \in own

(* Every path through the agent's loop keeps it so. *)
LEMMA AgentTypeInductive == AgentTypeOK /\ [AgentNext]_allVars => AgentTypeOK'
<1> SUFFICES ASSUME AgentTypeOK, [AgentNext]_allVars PROVE AgentTypeOK'
  OBVIOUS
<1> USE DEF AgentTypeOK
<1>1. ASSUME NEW c \in Conns, AgentDials(c) \/ OtherDials(c) \/ BindRefused(c) PROVE AgentTypeOK'
  BY <1>1, TunnelAssumptions DEF AgentDials, OtherDials, BindRefused
<1>2. CASE AgentDialFails \/ AgentOpens \/ AgentBinds \/ AgentAcceptFails \/ AgentResumes
  BY <1>2 DEF AgentDialFails, AgentOpens, AgentBinds, AgentAcceptFails, AgentResumes
<1>3. CASE AgentOpenFails \/ AgentSignFails
  BY <1>3 DEF AgentOpenFails, AgentSignFails, GiveUp
<1>4. CASE UNCHANGED <<dialed, own, agent, conn>>
  BY <1>4
<1> QED
  BY <1>1, <1>2, <1>3, <1>4 DEF AgentNext, AgentStep, Cancel, Request, agentVars, allVars

(* A step of the composition is a step of the TunnelManager or none: the    *)
(* agent acts on the manager by its requests and by closing connections.    *)
LEMMA AgentStepIsManagerStep == AgentTypeOK /\ [AgentNext]_allVars => [Next]_tunnelVars
<1> SUFFICES ASSUME AgentTypeOK, [AgentNext]_allVars PROVE [Next]_tunnelVars
  OBVIOUS
<1>1. ASSUME NEW b \in Binds, NEW c \in Conns, NEW s \in Subdomains, Request(b, c, s) PROVE Next
  BY <1>1 DEF Request, Next
<1>2. CASE ManagerStep
  BY <1>2, AgentAssumption DEF ManagerStep, AgentTypeOK, Next
<1>3. ASSUME NEW next, GiveUp(next), agent \in {"opening", "signing"} PROVE [Next]_tunnelVars
  <2>1. conn \in Conns
    BY <1>3 DEF AgentTypeOK
  <2>2. CASE conn \in closed
    BY <1>3, <2>2 DEF GiveUp, tunnelVars
  <2>3. CASE conn \notin closed
    <3>1. ConnCloses(conn)
      BY <1>3, <2>3 DEF GiveUp, ConnCloses
    <3> QED BY <2>1, <3>1 DEF Next
  <2> QED BY <2>2, <2>3
<1>4. CASE UNCHANGED tunnelVars
  BY <1>4
<1> QED
  BY <1>1, <1>2, <1>3, <1>4
     DEF AgentNext, AgentStep, AgentDials, AgentDialFails, AgentOpens, AgentOpenFails,
         AgentSignFails, AgentBinds, AgentAcceptFails, AgentResumes, Cancel, OtherDials,
         BindRefused, allVars

(* The agent has not started. *)
LEMMA AgentInitTyped == AgentInit => AgentTypeOK
BY DEF AgentInit, AgentTypeOK

(* The manager with its agent implements the manager: whatever was proved   *)
(* of TunnelManager holds with RunMeshTunnelAgent at the other end.         *)
THEOREM AgentImplementsManager == AgentSpec => Spec
<1>1. AgentInit => Init
  BY DEF AgentInit
<1> QED
  BY <1>1, AgentInitTyped, AgentTypeInductive, AgentStepIsManagerStep, PTL DEF AgentSpec, Spec

(* With the agent, too, every entry is watched and every dial is bound. *)
THEOREM AgentKeepsTable == AgentSpec => [](TypeOK /\ EntriesAreWatched /\ DialsOnlyBound)
BY AgentImplementsManager, TypeCorrect, Watched, DialsBound, PTL

-----------------------------------------------------------------------------
(* The connections of earlier turns that are still open. *)
Left == (own \ {conn}) \ closed

(* There is none, or cancellation has ended the agent's last turn and left  *)
(* the one it had.                                                          *)
OneLeft ==
    \/ Left = {}
    \/ cancelled /\ conn = NoConn /\ \E c \in Conns : Left \subseteq {c}

(* Only AcceptStream failing under a cancelled context leaves a connection, *)
(* and after that there is no turn.                                         *)
LEMMA LeftInductive == AgentTypeOK /\ OneLeft /\ [AgentNext]_allVars => OneLeft'
<1> SUFFICES ASSUME AgentTypeOK, OneLeft, [AgentNext]_allVars PROVE OneLeft'
  OBVIOUS
<1> USE DEF AgentTypeOK, OneLeft, Left
<1>1. ASSUME UNCHANGED <<own, conn>>, closed \subseteq closed', cancelled => cancelled' PROVE OneLeft'
  BY <1>1
<1>2. ASSUME NEW c \in Conns, AgentDials(c) PROVE OneLeft'
  BY <1>2, TunnelAssumptions DEF AgentDials, tunnelVars
<1>3. CASE AgentOpenFails \/ AgentSignFails
  BY <1>3 DEF AgentOpenFails, AgentSignFails, GiveUp
<1>4. CASE AgentAcceptFails
  <2>1. conn \in Conns /\ Left = {} /\ own' = own /\ closed' = closed /\ conn' = NoConn
    BY <1>4 DEF AgentAcceptFails, tunnelVars
  <2>2. CASE conn \in closed
    BY <2>1, <2>2
  <2>3. CASE cancelled
    BY <1>4, <2>1, <2>3 DEF AgentAcceptFails
  <2> QED BY <1>4, <2>2, <2>3 DEF AgentAcceptFails
<1>5. CASE ManagerStep /\ UNCHANGED agentVars
  BY <1>1, <1>5 DEF ManagerStep, RegisterTunnel, Watch, ConnCloses, DialLookup, DialOpen, DialEnds,
                    agentVars
<1>6. ASSUME UNCHANGED <<own, conn, closed>>, cancelled => cancelled' PROVE OneLeft'
  BY <1>1, <1>6
<1>7. CASE Cancel \/ AgentDialFails \/ AgentOpens \/ AgentBinds \/ AgentResumes
  BY <1>6, <1>7 DEF Cancel, AgentDialFails, AgentOpens, AgentBinds, AgentResumes, tunnelVars
<1>8. ASSUME NEW c \in Conns, OtherDials(c) \/ BindRefused(c) PROVE OneLeft'
  BY <1>6, <1>8 DEF OtherDials, BindRefused, tunnelVars
<1>9. ASSUME NEW b \in Binds, NEW c \in Conns, NEW s \in Subdomains, Request(b, c, s)
      PROVE OneLeft'
  BY <1>6, <1>9 DEF Request, Admit, agentVars
<1>10. CASE UNCHANGED allVars
  BY <1>6, <1>10 DEF allVars, tunnelVars, agentVars
<1> QED
  BY <1>2, <1>3, <1>4, <1>5, <1>7, <1>8, <1>9, <1>10 DEF AgentNext, AgentStep

(* RunMeshTunnelAgent leaves no connection open when it gives a turn up,    *)
(* except the one that cancellation interrupts: at most one, ever.          *)
THEOREM AgentClean == AgentSpec => []AgentLeaksNothing
<1>1. AgentInit => AgentTypeOK /\ OneLeft
  BY AgentInitTyped DEF AgentInit, OneLeft, Left
<1>2. AgentTypeOK /\ OneLeft /\ [AgentNext]_allVars => (AgentTypeOK /\ OneLeft)'
  BY AgentTypeInductive, LeftInductive
<1>3. OneLeft => AgentLeaksNothing
  <2> SUFFICES ASSUME OneLeft PROVE Cardinality(Left) <= 1 /\ (Left # {} => cancelled)
    BY DEF AgentLeaksNothing, Left
  <2>1. CASE Left = {}
    BY <2>1, FS_EmptySet
  <2>2. CASE Left # {}
    <3>1. PICK c : Left = {c}
      BY <2>2 DEF OneLeft
    <3>2. Cardinality(Left) = 1
      BY <3>1, FS_Singleton
    <3> QED BY <2>2, <3>2 DEF OneLeft
  <2> QED BY <2>1, <2>2
<1> QED BY <1>1, <1>2, <1>3, PTL DEF AgentSpec

=============================================================================
