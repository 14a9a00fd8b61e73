--------------------------- MODULE GossipManager ---------------------------
(***************************************************************************)
(* The GossipManagers of a set of nodes (gossip.go): Publish stamps an     *)
(* envelope with the node's Lamport clock and broadcasts it, HandleIngress *)
(* admits an envelope once per window of an hour, and the janitor trims    *)
(* the table of IDs that were seen.                                        *)
(*                                                                         *)
(* Several goroutines of a node may be inside Publish or HandleIngress.    *)
(* The network keeps every envelope that was broadcast and may deliver it  *)
(* to any node, its origin included, at any time, any number of times or   *)
(* never.  An envelope's ID is its service and the UnixNano reading of its *)
(* publisher.  The clock is a number of ticks, a fraction of the window; a *)
(* reading adds to the tick a detail the windows do not depend on.         *)
(***************************************************************************)
EXTENDS Integers

CONSTANTS
    Nodes,
    Services,
    Details,       \* what distinguishes two UnixNano readings of one tick
    Publishers,    \* goroutines that run Publish
    Workers,       \* goroutines that run HandleIngress
    Window,        \* time.Hour, in ticks
    MaxTime,       \* bound on the clock
    MaxLamport,    \* bound on the Lamport clocks
    LamportModulus \* 2^64, the width of the counter

ASSUME GossipAssumptions ==
    /\ Window \in Nat \ {0}
    /\ MaxTime \in Nat
    /\ MaxLamport \in Nat
    /\ LamportModulus \in Nat
    /\ MaxLamport < LamportModulus

Times == 0 .. MaxTime
Never == -1
IDs == Services \X Times \X Details

(* GossipEnvelope. `origin` and `past` are not in the packet (Publish does  *)
(* not fill Origin in): they record the publisher and the highest stamp     *)
(* that was in its causal past when it drew its own.                        *)
Envelopes == [id : IDs, service : Services, lamport : Nat, origin : Nodes, past : Nat]

VARIABLES
    now,        \* the clock
    lamport,    \* per node: the Lamport clock
    seen,       \* per node and ID: when it was last admitted, or Never
    handlers,   \* per node: services with a registered handler
    publisher,  \* per goroutine in Publish: the stamp drawn, not yet sent
    worker,     \* per goroutine in HandleIngress: what it is processing
    net,        \* every envelope that has been broadcast
    past,       \* history, per node: highest stamp in its causal past
    admittedAt  \* history, per node and ID: last admission, janitor or not

gossipVars == <<now, lamport, seen, handlers, publisher, worker, net,
                past, admittedAt>>

Idle == [at |-> "idle"]
Stamped == [at : {"stamped"}, node : Nodes, service : Services, stamp : Nat, past : Nat]
Processing == [at : {"dropped", "admitted"}, node : Nodes, env : Envelopes]

TypeOK ==
    /\ now \in Times
    /\ lamport \in [Nodes -> Nat]
    /\ seen \in [Nodes -> [IDs -> Times \cup {Never}]]
    /\ handlers \in [Nodes -> SUBSET Services]
    /\ publisher \in [Publishers -> Stamped \cup {Idle}]
    /\ worker \in [Workers -> Processing \cup {Idle}]
    /\ net \subseteq Envelopes
    /\ past \in [Nodes -> Nat]
    /\ admittedAt \in [Nodes -> [IDs -> Times \cup {Never}]]

Init ==
    /\ now = 0
    /\ lamport = [n \in Nodes |-> 0]
    /\ seen = [n \in Nodes |-> [i \in IDs |-> Never]]
    /\ handlers = [n \in Nodes |-> {}]
    /\ publisher = [p \in Publishers |-> Idle]
    /\ worker = [w \in Workers |-> Idle]
    /\ net = {}
    /\ past = [n \in Nodes |-> 0]
    /\ admittedAt = [n \in Nodes |-> [i \in IDs |-> Never]]

Larger(a, b) == IF a > b THEN a ELSE b
Increment(x) == (x + 1) % LamportModulus

-----------------------------------------------------------------------------
Tick ==
    /\ now < MaxTime
    /\ now' = now + 1
    /\ UNCHANGED <<lamport, seen, handlers, publisher, worker, net,
                   past, admittedAt>>

RegisterHandler(n, s) ==
    /\ handlers' = [handlers EXCEPT ![n] = @ \cup {s}]
    /\ UNCHANGED <<now, lamport, seen, publisher, worker, net,
                   past, admittedAt>>

(* Publish, under the lock: advance the clock and take its value. *)
PublishStamp(p, n, s) ==
    /\ publisher[p] = Idle
    /\ lamport[n] < MaxLamport
    /\ lamport' = [lamport EXCEPT ![n] = Increment(@)]
    /\ publisher' = [publisher EXCEPT ![p] =
          [at |-> "stamped", node |-> n, service |-> s,
           stamp |-> lamport'[n], past |-> past[n]]]
    /\ past' = [past EXCEPT ![n] = Larger(@, lamport'[n])]
    /\ UNCHANGED <<now, seen, handlers, worker, net, admittedAt>>

(* PeerRoute.Broadcast: the envelope is on the mesh, or the node is not     *)
(* connected and an error is returned.                                      *)
Broadcast(e) == net' = net \cup {e} \/ net' = net

(* Seeded fault: the stamp is read again after the lock was released. *)
PublishBroadcastRereads(p, d) ==
    /\ publisher[p] # Idle
    /\ LET e == [id |-> <<publisher[p].service, now, d>>,
                 service |-> publisher[p].service,
                 lamport |-> lamport[publisher[p].node],
                 origin |-> publisher[p].node,
                 past |-> publisher[p].past]
       IN Broadcast(e)
    /\ publisher' = [publisher EXCEPT ![p] = Idle]
    /\ UNCHANGED <<now, lamport, seen, handlers, worker, past, admittedAt>>

(* Publish, after the lock: read the clock for the ID and broadcast. The    *)
(* broadcast fails when the mesh is not connected. Neither outcome marks    *)
(* the ID as seen at the publisher.                                         *)
PublishBroadcast(p, d) ==
    /\ publisher[p] # Idle
    /\ LET e == [id |-> <<publisher[p].service, now, d>>,
                 service |-> publisher[p].service,
                 lamport |-> publisher[p].stamp,
                 origin |-> publisher[p].node,
                 past |-> publisher[p].past]
       IN Broadcast(e)
    /\ publisher' = [publisher EXCEPT ![p] = Idle]
    /\ UNCHANGED <<now, lamport, seen, handlers, worker, past, admittedAt>>

-----------------------------------------------------------------------------
(* The ID is in the table and its entry is younger than the window. *)
Replayed(n, i) == seen[n][i] # Never /\ now - seen[n][i] < Window

(* HandleIngress under the lock, when the ID was seen less than a window    *)
(* ago: the envelope is dropped and nil returned.                           *)
IngressDrop(w, n, e) ==
    /\ worker[w] = Idle
    /\ e \in net
    /\ Replayed(n, e.id)
    /\ worker' = [worker EXCEPT ![w] = [at |-> "dropped", node |-> n, env |-> e]]
    /\ UNCHANGED <<now, lamport, seen, handlers, publisher, net,
                   past, admittedAt>>

(* Seeded faults: the time of expiry is recorded instead of the time of     *)
(* arrival; the clock only counts the envelope and ignores its stamp.       *)
IngressAdmitExpiry(w, n, e) ==
    /\ worker[w] = Idle
    /\ e \in net
    /\ ~Replayed(n, e.id)
    /\ seen' = [seen EXCEPT ![n][e.id] = now + Window]
    /\ worker' = [worker EXCEPT ![w] = [at |-> "admitted", node |-> n, env |-> e]]
    /\ UNCHANGED <<now, lamport, handlers, publisher, net, past, admittedAt>>
IngressAdmitCounts(w, n, e) ==
    /\ worker[w] = Idle
    /\ e \in net
    /\ ~Replayed(n, e.id)
    /\ lamport[n] < MaxLamport
    /\ seen' = [seen EXCEPT ![n][e.id] = now]
    /\ lamport' = [lamport EXCEPT ![n] = Increment(@)]
    /\ worker' = [worker EXCEPT ![w] = [at |-> "admitted", node |-> n, env |-> e]]
    /\ past' = [past EXCEPT ![n] = Larger(@, Larger(e.lamport, e.past))]
    /\ UNCHANGED <<now, handlers, publisher, net, admittedAt>>

(* HandleIngress under the lock, otherwise: the ID is recorded and the      *)
(* clock moves past the envelope's stamp, before anything is validated.     *)
IngressAdmit(w, n, e) ==
    /\ worker[w] = Idle
    /\ e \in net
    /\ ~Replayed(n, e.id)
    /\ Larger(lamport[n], e.lamport) < MaxLamport
    /\ seen' = [seen EXCEPT ![n][e.id] = now]
    /\ lamport' = [lamport EXCEPT ![n] = Increment(Larger(@, e.lamport))]
    /\ worker' = [worker EXCEPT ![w] = [at |-> "admitted", node |-> n, env |-> e]]
    /\ past' = [past EXCEPT ![n] = Larger(@, Larger(e.lamport, e.past))]
    /\ admittedAt' = [admittedAt EXCEPT ![n][e.id] = now]
    /\ UNCHANGED <<now, handlers, publisher, net>>

(* The rest of HandleIngress: a dropped envelope returns; an admitted one   *)
(* is checked by the dataframe engine, and its handler, if one is           *)
(* registered by then, runs on this goroutine. No outcome of the check or   *)
(* of the handler changes the manager's state: a rejected envelope stays in *)
(* the table.                                                               *)
IngressReturn(w) ==
    /\ worker[w] # Idle
    /\ worker' = [worker EXCEPT ![w] = Idle]
    /\ UNCHANGED <<now, lamport, seen, handlers, publisher, net,
                   past, admittedAt>>

(* Seeded fault: the hour is not subtracted from the cutoff, so the entries *)
(* of the last hour go too.                                                 *)
CleanupWithoutCutoff(n) ==
    /\ seen' = [seen EXCEPT ![n] = [i \in IDs |-> IF @[i] <= now THEN Never ELSE @[i]]]
    /\ UNCHANGED <<now, lamport, handlers, publisher, worker, net,
                   past, admittedAt>>

(* The janitor's tick: entries strictly older than the window go. *)
CleanupSeenCache(n) ==
    /\ seen' = [seen EXCEPT ![n] = [i \in IDs |->
          IF @[i] # Never /\ @[i] < now - Window THEN Never ELSE @[i]]]
    /\ UNCHANGED <<now, lamport, handlers, publisher, worker, net,
                   past, admittedAt>>

-----------------------------------------------------------------------------
Next ==
    \/ Tick
    \/ \E n \in Nodes, s \in Services : RegisterHandler(n, s)
    \/ \E p \in Publishers, n \in Nodes, s \in Services : PublishStamp(p, n, s)
    \/ \E p \in Publishers, d \in Details : PublishBroadcast(p, d)
    \/ \E w \in Workers, n \in Nodes, e \in net :
          IngressDrop(w, n, e) \/ IngressAdmit(w, n, e)
    \/ \E w \in Workers : IngressReturn(w)
    \/ \E n \in Nodes : CleanupSeenCache(n)

Spec == Init /\ [][Next]_gossipVars

-----------------------------------------------------------------------------
(* Lamport's clock condition: an envelope's stamp is greater than the stamp *)
(* of every publication that happened before it, on its own node or through *)
(* any chain of admitted envelopes, however Publish and HandleIngress       *)
(* interleave.                                                              *)
ClockCondition == \A e \in net : e.past < e.lamport

(* No two publications of a node carry the same stamp, even when two        *)
(* goroutines are inside Publish, so stamp and origin order all envelopes.  *)
StampsUnique ==
    \A e, f \in net : e.origin = f.origin /\ e.lamport = f.lamport => e = f

(* Replay protection: a node admits an ID only if it has not admitted it    *)
(* less than a window ago. The janitor deletes entries by a comparison of   *)
(* its own, and must never delete one that still protects.                  *)
AdmitsOncePerWindow ==
    [][\A w \in Workers :
         worker[w] = Idle /\ worker'[w] # Idle /\ worker'[w].at = "admitted" =>
           LET last == admittedAt[worker'[w].node][worker'[w].env.id]
           IN last = Never \/ now - last >= Window]_gossipVars

=============================================================================
