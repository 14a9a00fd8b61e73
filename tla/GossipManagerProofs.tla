------------------------ MODULE GossipManagerProofs ------------------------
(***************************************************************************)
(* Proofs about GossipManager for any nodes, goroutines, window and        *)
(* bounds: types, the clock condition, the uniqueness of stamps and the    *)
(* spacing of admissions.                                                  *)
(*                                                                         *)
(* The clock condition needs the clock of every node to be at or beyond    *)
(* all stamps of its past; uniqueness needs the stamps that goroutines     *)
(* hold between the lock and the broadcast; the spacing of admissions      *)
(* needs that the janitor keeps every entry that is still young.           *)
(***************************************************************************)
EXTENDS GossipManager, TLAPS

(* The clock is never behind the node's causal past. *)
ClocksAhead == \A n \in Nodes : past[n] <= lamport[n]

(* What Publish holds after the lock: a stamp the clock has reached, beyond *)
(* the past it was drawn in.                                                *)
StampsDrawn ==
    \A p \in Publishers : publisher[p] # Idle =>
      /\ publisher[p].past < publisher[p].stamp
      /\ publisher[p].stamp <= lamport[publisher[p].node]

StampsSent == \A e \in net : e.past < e.lamport /\ e.lamport <= lamport[e.origin]

(* No two stamps of a node agree, held or sent. *)
HeldStampsDiffer ==
    /\ \A p, q \in Publishers :
         publisher[p] # Idle /\ publisher[q] # Idle /\ p # q
           /\ publisher[p].node = publisher[q].node
         => publisher[p].stamp # publisher[q].stamp
    /\ \A p \in Publishers, e \in net :
         publisher[p] # Idle /\ publisher[p].node = e.origin => publisher[p].stamp # e.lamport

(* The table still has every admission that is younger than the window. *)
SeenProtects ==
    \A n \in Nodes, i \in IDs :
      admittedAt[n][i] # Never =>
        /\ admittedAt[n][i] <= now
        /\ now - admittedAt[n][i] < Window => seen[n][i] = admittedAt[n][i]

-----------------------------------------------------------------------------
LEMMA IncrementExact == \A x \in Nat : x < MaxLamport => Increment(x) = x + 1
  BY GossipAssumptions DEF Increment

LEMMA LargerFacts ==
  \A a, b \in Nat : Larger(a, b) \in Nat /\ Larger(a, b) >= a /\ Larger(a, b) >= b
                    /\ (Larger(a, b) = a \/ Larger(a, b) = b)
  BY DEF Larger

LEMMA InitType == Init => TypeOK
  BY GossipAssumptions DEF Init, TypeOK, Times

(* Each action keeps every variable in its type. *)
LEMMA TypeInductive == TypeOK /\ [Next]_gossipVars => TypeOK'
<1> SUFFICES ASSUME TypeOK, [Next]_gossipVars PROVE TypeOK'
  OBVIOUS
<1> USE DEF TypeOK
<1>1. CASE Tick
  BY <1>1, GossipAssumptions DEF Tick, Times
<1>2. ASSUME NEW n \in Nodes, NEW s \in Services, RegisterHandler(n, s) PROVE TypeOK'
  BY <1>2 DEF RegisterHandler
<1>3. ASSUME NEW p \in Publishers, NEW n \in Nodes, NEW s \in Services, PublishStamp(p, n, s)
      PROVE TypeOK'
  <2>1. lamport' \in [Nodes -> Nat] /\ lamport'[n] \in Nat
    BY <1>3, IncrementExact DEF PublishStamp
  <2>2. publisher' \in [Publishers -> Stamped \cup {Idle}]
    BY <1>3, <2>1 DEF PublishStamp, Stamped
  <2>3. past' \in [Nodes -> Nat]
    BY <1>3, <2>1, LargerFacts DEF PublishStamp
  <2> QED BY <1>3, <2>1, <2>2, <2>3 DEF PublishStamp
<1>4. ASSUME NEW p \in Publishers, NEW d \in Details, PublishBroadcast(p, d) PROVE TypeOK'
  <2> DEFINE e == [id |-> <<publisher[p].service, now, d>>,
                   service |-> publisher[p].service,
                   lamport |-> publisher[p].stamp,
                   origin |-> publisher[p].node,
                   past |-> publisher[p].past]
  <2>1. publisher[p] \in Stamped
    BY <1>4 DEF PublishBroadcast, Broadcast
  <2>2. e \in Envelopes
    <3>1. /\ publisher[p].service \in Services
          /\ publisher[p].stamp \in Nat
          /\ publisher[p].node \in Nodes
          /\ publisher[p].past \in Nat
      BY <2>1 DEF Stamped
    <3>2. <<publisher[p].service, now, d>> \in IDs
      BY <3>1 DEF IDs
    <3> QED BY <3>1, <3>2 DEF Envelopes
  <2>3. net' \subseteq Envelopes
    BY <1>4, <2>2 DEF PublishBroadcast, Broadcast
  <2> QED BY <1>4, <2>3 DEF PublishBroadcast, Broadcast
<1>5. ASSUME NEW w \in Workers, NEW n \in Nodes, NEW e \in net, IngressDrop(w, n, e) PROVE TypeOK'
  <2>1. [at |-> "dropped", node |-> n, env |-> e] \in Processing
    BY DEF Processing
  <2> QED BY <1>5, <2>1 DEF IngressDrop
<1>6. ASSUME NEW w \in Workers, NEW n \in Nodes, NEW e \in net, IngressAdmit(w, n, e) PROVE TypeOK'
  <2>1. e \in Envelopes /\ e.id \in IDs /\ e.lamport \in Nat /\ e.past \in Nat
    BY DEF Envelopes
  <2>2. [at |-> "admitted", node |-> n, env |-> e] \in Processing
    BY <2>1 DEF Processing
  <2>3. lamport' \in [Nodes -> Nat] /\ past' \in [Nodes -> Nat]
    <3>1. Increment(Larger(lamport[n], e.lamport)) \in Nat
      <4>1. Larger(lamport[n], e.lamport) \in Nat
        BY <2>1, LargerFacts
      <4>2. Larger(lamport[n], e.lamport) < MaxLamport
        BY <1>6 DEF IngressAdmit
      <4> QED BY <4>1, <4>2, IncrementExact
    <3>2. Larger(past[n], Larger(e.lamport, e.past)) \in Nat
      BY <2>1, LargerFacts
    <3> QED BY <1>6, <3>1, <3>2 DEF IngressAdmit
  <2>4. seen' \in [Nodes -> [IDs -> Times \cup {Never}]]
    BY <1>6, <2>1 DEF IngressAdmit
  <2>5. admittedAt' \in [Nodes -> [IDs -> Times \cup {Never}]]
    BY <1>6, <2>1 DEF IngressAdmit
  <2> QED BY <1>6, <2>1, <2>2, <2>3, <2>4, <2>5 DEF IngressAdmit
<1>7. ASSUME NEW w \in Workers, IngressReturn(w) PROVE TypeOK'
  BY <1>7 DEF IngressReturn
<1>8. ASSUME NEW n \in Nodes, CleanupSeenCache(n) PROVE TypeOK'
  BY <1>8 DEF CleanupSeenCache
<1>9. CASE UNCHANGED gossipVars
  BY <1>9 DEF gossipVars
<1> QED
  BY <1>1, <1>2, <1>3, <1>4, <1>5, <1>6, <1>7, <1>8, <1>9 DEF Next

(* GossipManager keeps its variables in their types: the clocks stay within *)
(* the width of the counter and the table holds times that have been.       *)
THEOREM TypeCorrect == Spec => []TypeOK
  BY InitType, TypeInductive, PTL DEF Spec

-----------------------------------------------------------------------------
IInv ==
    /\ TypeOK
    /\ ClocksAhead
    /\ StampsDrawn
    /\ StampsSent
    /\ HeldStampsDiffer
    /\ StampsUnique
    /\ SeenProtects

Stamps == ClocksAhead /\ StampsDrawn /\ StampsSent /\ HeldStampsDiffer /\ StampsUnique

LEMMA InitIInv == Init => IInv
<1> SUFFICES ASSUME Init PROVE IInv
  OBVIOUS
<1>1. TypeOK
  BY InitType
<1>2. Stamps
  BY DEF Init, Stamps, ClocksAhead, StampsDrawn, StampsSent, HeldStampsDiffer, StampsUnique
<1>3. SeenProtects
  BY DEF Init, SeenProtects
<1> QED BY <1>1, <1>2, <1>3 DEF IInv, Stamps

(* The facts about stamps. Clocks only grow, so only a new stamp, a new     *)
(* envelope and an admission can disturb them.                              *)
LEMMA StampsInductive == TypeOK /\ Stamps /\ [Next]_gossipVars => Stamps'
<1> SUFFICES ASSUME TypeOK, Stamps, [Next]_gossipVars PROVE Stamps'
  OBVIOUS
<1>0. TypeOK'
  BY TypeInductive
<1> USE DEF Stamps, ClocksAhead, StampsDrawn, StampsSent, HeldStampsDiffer, StampsUnique
<1>1. ASSUME UNCHANGED <<lamport, publisher, net, past>> PROVE Stamps'
  BY <1>1
<1>2. ASSUME NEW p \in Publishers, NEW n \in Nodes, NEW s \in Services, PublishStamp(p, n, s)
      PROVE Stamps'
  <2>1. lamport' = [lamport EXCEPT ![n] = lamport[n] + 1]
    BY <1>2, IncrementExact DEF PublishStamp, TypeOK
  <2>2. past' = [past EXCEPT ![n] = lamport[n] + 1]
    <3>1. lamport'[n] = lamport[n] + 1 /\ past[n] <= lamport[n]
      BY <2>1 DEF TypeOK
    <3>2. Larger(past[n], lamport'[n]) = lamport[n] + 1
      BY <3>1 DEF TypeOK, Larger
    <3> QED BY <1>2, <3>2 DEF PublishStamp, TypeOK
  <2>3. /\ publisher'[p].stamp = lamport[n] + 1 /\ publisher'[p].node = n
        /\ publisher'[p].past = past[n] /\ publisher'[p] # Idle
        /\ \A q \in Publishers : q # p => publisher'[q] = publisher[q]
    BY <1>2, <2>1 DEF PublishStamp, TypeOK, Idle
  <2>4. net' = net
    BY <1>2 DEF PublishStamp
  <2>5. \A q \in Publishers : publisher[q] # Idle =>
          publisher[q].stamp \in Nat /\ publisher[q].past \in Nat /\ publisher[q].node \in Nodes
    BY DEF TypeOK, Stamped
  <2>6. \A e \in net : e.lamport \in Nat /\ e.past \in Nat /\ e.origin \in Nodes
    BY DEF TypeOK, Envelopes
  <2>7. ClocksAhead'
    BY <2>1, <2>2 DEF TypeOK
  <2>8. StampsDrawn'
    BY <2>1, <2>3, <2>5 DEF TypeOK
  <2>9. StampsSent'
    BY <2>1, <2>4, <2>6 DEF TypeOK
  <2>10. HeldStampsDiffer'
    <3>1. lamport[n] \in Nat
      BY DEF TypeOK
    <3>2. ASSUME NEW q \in Publishers, q # p, publisher'[q] # Idle, publisher'[q].node = n
          PROVE publisher'[q].stamp # lamport[n] + 1
      BY <2>3, <2>5, <3>1, <3>2
    <3>3. ASSUME NEW e \in net, e.origin = n PROVE e.lamport # lamport[n] + 1
      BY <2>6, <3>1, <3>3
    <3>4. ASSUME NEW q \in Publishers, NEW r \in Publishers, q # r,
                 publisher'[q] # Idle, publisher'[r] # Idle,
                 publisher'[q].node = publisher'[r].node
          PROVE publisher'[q].stamp # publisher'[r].stamp
      BY <2>3, <3>2, <3>4
    <3>5. ASSUME NEW q \in Publishers, NEW e \in net',
                 publisher'[q] # Idle, publisher'[q].node = e.origin
          PROVE publisher'[q].stamp # e.lamport
      BY <2>3, <2>4, <3>3, <3>5
    <3> QED BY <3>4, <3>5
  <2> QED BY <2>4, <2>7, <2>8, <2>9, <2>10
<1>3. ASSUME NEW p \in Publishers, NEW d \in Details, PublishBroadcast(p, d) PROVE Stamps'
  <2> DEFINE e == [id |-> <<publisher[p].service, now, d>>,
                   service |-> publisher[p].service,
                   lamport |-> publisher[p].stamp,
                   origin |-> publisher[p].node,
                   past |-> publisher[p].past]
  <2>1. publisher[p] # Idle
    BY <1>3 DEF PublishBroadcast, Broadcast
  <2>2. net' = net \cup {e} \/ net' = net
    BY <1>3 DEF PublishBroadcast, Broadcast
  <2>3. publisher'[p] = Idle /\ \A q \in Publishers : q # p => publisher'[q] = publisher[q]
    BY <1>3 DEF PublishBroadcast, Broadcast, TypeOK
  <2>4. lamport' = lamport /\ past' = past
    BY <1>3 DEF PublishBroadcast, Broadcast
  <2>5. e.lamport = publisher[p].stamp /\ e.origin = publisher[p].node
        /\ e.past = publisher[p].past
    OBVIOUS
  <2> HIDE DEF e
  <2>6. StampsSent'
    BY <2>1, <2>2, <2>4, <2>5
  <2>7. HeldStampsDiffer'
    BY <2>1, <2>2, <2>3, <2>5
  <2>8. StampsUnique'
    BY <2>1, <2>2, <2>5
  <2> QED BY <2>3, <2>4, <2>6, <2>7, <2>8
<1>4. ASSUME NEW w \in Workers, NEW n \in Nodes, NEW e \in net, IngressAdmit(w, n, e) PROVE Stamps'
  <2>1. e.lamport \in Nat /\ e.past \in Nat /\ e.past < e.lamport
    BY DEF TypeOK, Envelopes
  <2>2. lamport' = [lamport EXCEPT ![n] = Larger(lamport[n], e.lamport) + 1]
    BY <1>4, <2>1, LargerFacts, IncrementExact DEF IngressAdmit, TypeOK
  <2>3. past' = [past EXCEPT ![n] = Larger(past[n], Larger(e.lamport, e.past))]
    BY <1>4 DEF IngressAdmit
  <2>4. publisher' = publisher /\ net' = net
    BY <1>4 DEF IngressAdmit
  <2>5. lamport'[n] > lamport[n] /\ lamport'[n] > past'[n]
    BY <2>1, <2>2, <2>3 DEF TypeOK, Larger
  <2>6. \A m \in Nodes : m # n => lamport'[m] = lamport[m] /\ past'[m] = past[m]
    BY <2>2, <2>3 DEF TypeOK
  <2>7. \A q \in Publishers : publisher[q] # Idle =>
          publisher[q].stamp \in Nat /\ publisher[q].node \in Nodes
    BY DEF TypeOK, Stamped
  <2>8. \A f \in net : f.lamport \in Nat /\ f.origin \in Nodes
    BY DEF TypeOK, Envelopes
  <2>t. \A m \in Nodes : lamport[m] \in Nat /\ lamport'[m] \in Nat
                          /\ past[m] \in Nat /\ past'[m] \in Nat
    BY <1>0 DEF TypeOK
  <2>g. \A m \in Nodes : lamport[m] <= lamport'[m]
    BY <2>5, <2>6, <2>t
  <2>9. ClocksAhead'
    BY <2>5, <2>6, <2>t
  <2>10. StampsDrawn'
    BY <2>4, <2>7, <2>g, <2>t
  <2>11. StampsSent'
    BY <2>4, <2>8, <2>g, <2>t
  <2> QED BY <2>4, <2>9, <2>10, <2>11
<1>5. ASSUME NEW w \in Workers, NEW n \in Nodes, NEW e \in net, IngressDrop(w, n, e) PROVE Stamps'
  BY <1>1, <1>5 DEF IngressDrop
<1>6. CASE Tick
  BY <1>1, <1>6 DEF Tick
<1>7. ASSUME NEW n \in Nodes, NEW s \in Services, RegisterHandler(n, s) PROVE Stamps'
  BY <1>1, <1>7 DEF RegisterHandler
<1>8. ASSUME NEW w \in Workers, IngressReturn(w) PROVE Stamps'
  BY <1>1, <1>8 DEF IngressReturn
<1>9. ASSUME NEW n \in Nodes, CleanupSeenCache(n) PROVE Stamps'
  BY <1>1, <1>9 DEF CleanupSeenCache
<1>10. CASE UNCHANGED gossipVars
  BY <1>1, <1>10 DEF gossipVars
<1> HIDE DEF Stamps
<1> QED
  BY <1>2, <1>3, <1>4, <1>5, <1>6, <1>7, <1>8, <1>9, <1>10 DEF Next

(* The table and the history of admissions. Only time, an admission and the *)
(* janitor can disturb them.                                                *)
LEMMA SeenInductive == TypeOK /\ SeenProtects /\ [Next]_gossipVars => SeenProtects'
<1> SUFFICES ASSUME TypeOK, SeenProtects, [Next]_gossipVars PROVE SeenProtects'
  OBVIOUS
<1>t. now \in Nat /\ Window \in Nat
  BY GossipAssumptions DEF TypeOK, Times
<1>u. \A n \in Nodes, i \in IDs : seen[n][i] \in Int /\ admittedAt[n][i] \in Int
  BY DEF TypeOK, Times, Never
<1>1. ASSUME UNCHANGED <<now, seen, admittedAt>> PROVE SeenProtects'
  BY <1>1 DEF SeenProtects
<1>2. CASE Tick
  BY <1>2, <1>t, <1>u DEF Tick, SeenProtects
<1>3. ASSUME NEW w \in Workers, NEW n \in Nodes, NEW e \in net, IngressAdmit(w, n, e)
      PROVE SeenProtects'
  <2>1. e.id \in IDs
    BY DEF TypeOK, Envelopes
  <2>2. now' = now /\ seen'[n][e.id] = now /\ admittedAt'[n][e.id] = now
    BY <1>3, <2>1 DEF IngressAdmit, TypeOK
  <2>3. \A m \in Nodes, i \in IDs : m # n \/ i # e.id =>
          seen'[m][i] = seen[m][i] /\ admittedAt'[m][i] = admittedAt[m][i]
    BY <1>3, <2>1 DEF IngressAdmit, TypeOK
  <2> QED BY <1>t, <2>1, <2>2, <2>3 DEF SeenProtects
<1>4. ASSUME NEW n \in Nodes, CleanupSeenCache(n) PROVE SeenProtects'
  <2>1. now' = now /\ admittedAt' = admittedAt
    BY <1>4 DEF CleanupSeenCache
  <2>2. \A m \in Nodes, i \in IDs :
          seen'[m][i] = seen[m][i] \/ (seen[m][i] < now - Window)
    BY <1>4 DEF CleanupSeenCache, TypeOK
  <2> QED BY <1>t, <1>u, <2>1, <2>2 DEF SeenProtects
<1>5. ASSUME NEW w \in Workers, NEW n \in Nodes, NEW e \in net, IngressDrop(w, n, e)
      PROVE SeenProtects'
  BY <1>1, <1>5 DEF IngressDrop
<1>6. ASSUME NEW n \in Nodes, NEW s \in Services, RegisterHandler(n, s) PROVE SeenProtects'
  BY <1>1, <1>6 DEF RegisterHandler
<1>7. ASSUME NEW p \in Publishers, NEW n \in Nodes, NEW s \in Services, PublishStamp(p, n, s)
      PROVE SeenProtects'
  BY <1>1, <1>7 DEF PublishStamp
<1>8. ASSUME NEW p \in Publishers, NEW d \in Details, PublishBroadcast(p, d) PROVE SeenProtects'
  BY <1>1, <1>8 DEF PublishBroadcast, Broadcast
<1>9. ASSUME NEW w \in Workers, IngressReturn(w) PROVE SeenProtects'
  BY <1>1, <1>9 DEF IngressReturn
<1>10. CASE UNCHANGED gossipVars
  BY <1>1, <1>10 DEF gossipVars
<1> QED
  BY <1>2, <1>3, <1>4, <1>5, <1>6, <1>7, <1>8, <1>9, <1>10 DEF Next

LEMMA Inductive == Spec => []IInv
<1>1. IInv <=> TypeOK /\ Stamps /\ SeenProtects
  BY DEF IInv, Stamps
<1>2. IInv /\ [Next]_gossipVars => IInv'
  <2> SUFFICES ASSUME IInv, [Next]_gossipVars PROVE TypeOK' /\ Stamps' /\ SeenProtects'
    BY DEF IInv, Stamps
  <2> QED BY <1>1, TypeInductive, StampsInductive, SeenInductive
<1> QED BY <1>2, InitIInv, PTL DEF Spec

-----------------------------------------------------------------------------
(* A stamp is greater than all the stamps that happened before it. *)
THEOREM Causality == Spec => []ClockCondition
<1>1. IInv => ClockCondition
  BY DEF IInv, StampsSent, ClockCondition
<1> QED BY <1>1, Inductive, PTL

(* The stamps of a node are pairwise different, whatever the interleaving   *)
(* of the goroutines inside Publish.                                        *)
THEOREM StampsDiffer == Spec => []StampsUnique
<1>1. IInv => StampsUnique
  BY DEF IInv
<1> QED BY <1>1, Inductive, PTL

(* HandleIngress admits an ID at most once per window: what the janitor has *)
(* deleted was no longer protecting.                                        *)
THEOREM OncePerWindow == Spec => AdmitsOncePerWindow
<1> DEFINE Spaced ==
      \A w \in Workers :
        worker[w] = Idle /\ worker'[w] # Idle /\ worker'[w].at = "admitted" =>
          LET last == admittedAt[worker'[w].node][worker'[w].env.id]
          IN last = Never \/ now - last >= Window
<1>1. IInv /\ [Next]_gossipVars => [Spaced]_gossipVars
  <2> SUFFICES ASSUME IInv, Next, NEW w \in Workers,
                      worker[w] = Idle, worker'[w] # Idle, worker'[w].at = "admitted",
                      admittedAt[worker'[w].node][worker'[w].env.id] # Never
               PROVE now - admittedAt[worker'[w].node][worker'[w].env.id] >= Window
    OBVIOUS
  <2>1. PICK n \in Nodes, e \in net : IngressAdmit(w, n, e)
    <3>1. ASSUME NEW v \in Workers, NEW n \in Nodes, NEW e \in net, IngressAdmit(v, n, e)
          PROVE v = w
      BY <3>1 DEF IngressAdmit, IInv, TypeOK
    <3>2. ASSUME NEW v \in Workers, NEW n \in Nodes, NEW e \in net, IngressDrop(v, n, e)
          PROVE FALSE
      BY <3>2 DEF IngressDrop, IInv, TypeOK
    <3>3. ASSUME NEW v \in Workers, IngressReturn(v) PROVE FALSE
      BY <3>3 DEF IngressReturn, IInv, TypeOK
    <3>4. worker' # worker
      OBVIOUS
    <3> QED
      BY <3>1, <3>2, <3>3, <3>4
         DEF Next, Tick, RegisterHandler, PublishStamp, PublishBroadcast, Broadcast, CleanupSeenCache
  <2>2. worker'[w] = [at |-> "admitted", node |-> n, env |-> e]
    BY <2>1 DEF IngressAdmit, IInv, TypeOK
  <2>3. e.id \in IDs
    BY DEF IInv, TypeOK, Envelopes
  <2>4. seen[n][e.id] = Never \/ now - seen[n][e.id] >= Window
    <3>1. seen[n][e.id] \in Int /\ now \in Int /\ Window \in Int
      BY <2>3, GossipAssumptions DEF IInv, TypeOK, Times, Never
    <3> QED BY <2>1, <3>1 DEF IngressAdmit, Replayed
  <2>5. admittedAt[n][e.id] # Never
    BY <2>2
  <2>6. admittedAt[n][e.id] \in Int /\ now \in Int /\ Window \in Int
    BY <2>3, GossipAssumptions DEF IInv, TypeOK, Times, Never
  <2>7. now - admittedAt[n][e.id] >= Window
    BY <2>3, <2>4, <2>5, <2>6 DEF IInv, SeenProtects
  <2> QED BY <2>2, <2>7
<1> QED BY <1>1, Inductive, PTL DEF Spec, AdmitsOncePerWindow

=============================================================================
