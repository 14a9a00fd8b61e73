-------------------------- MODULE SecureNodeProofs --------------------------
(***************************************************************************)
(* Proofs about SecureNode, with PeerRoute, for any nodes, routes and      *)
(* evaluators and any number of starts: types, and what becomes of a       *)
(* node's identity.                                                        *)
(***************************************************************************)
EXTENDS SecureNode, TLAPS

(* The operations of PeerRoute keep its tables well formed. *)
LEMMA RouteTypeInductive == RouteTypeOK /\ PeerRouteNext => RouteTypeOK'
<1> SUFFICES ASSUME RouteTypeOK, PeerRouteNext PROVE RouteTypeOK'
  OBVIOUS
<1> USE DEF RouteTypeOK
<1>1. ASSUME NEW r \in Routes, RegisterHandler(r) PROVE RouteTypeOK'
  BY <1>1 DEF RegisterHandler
<1>2. ASSUME NEW n \in Nodes, AddPeer(n) \/ TouchPeer(n) \/ RemovePeer(n) PROVE RouteTypeOK'
  BY <1>2 DEF AddPeer, TouchPeer, RemovePeer
<1>3. ASSUME NEW n \in Nodes, NEW p \in Policies, SetAccessPolicy(n, p) PROVE RouteTypeOK'
  BY <1>3 DEF SetAccessPolicy
<1>4. ASSUME NEW n \in Nodes, NEW e \in Evaluators, NEW i \in Intents, EvaluateBegin(e, n, i)
      PROVE RouteTypeOK'
  BY <1>4 DEF EvaluateBegin, Evaluations
<1>5. ASSUME NEW e \in Evaluators, NEW from, NEW to \in {"looked", "allowed", "refused"},
             NEW p \in Policies \cup {"unset"}, Step(e, from, to, p)
      PROVE RouteTypeOK'
  <2>1. eval[e] \in Evaluations
    BY <1>5 DEF Step
  <2>2. [eval[e] EXCEPT !.at = to, !.policy = p] \in Evaluations
    BY <2>1 DEF Evaluations
  <2>3. eval' = [eval EXCEPT ![e] = [eval[e] EXCEPT !.at = to, !.policy = p]]
    BY <1>5, <2>1 DEF Step, Evaluations
  <2> QED BY <1>5, <2>2, <2>3 DEF Step
<1>6. ASSUME NEW e \in Evaluators, EvaluateReturn(e) PROVE RouteTypeOK'
  BY <1>6 DEF EvaluateReturn
<1>7. ASSUME NEW e \in Evaluators, EvaluateBlocked(e) \/ EvaluateLookup(e) \/ EvaluateDecide(e)
      PROVE RouteTypeOK'
  <2>1. eval[e] \in Evaluations
    BY <1>7 DEF EvaluateBlocked, EvaluateLookup, EvaluateDecide, Step
  <2>2. accessPolicies[eval[e].node] \in Policies \cup {"unset"}
        /\ eval[e].policy \in Policies \cup {"unset"}
    BY <2>1 DEF Evaluations
  <2> QED BY <1>5, <1>7, <2>2 DEF EvaluateBlocked, EvaluateLookup, EvaluateDecide
<1> QED
  BY <1>1, <1>2, <1>3, <1>4, <1>6, <1>7 DEF PeerRouteNext

(* Starts, failures, crashes and the node in service preserve the types. *)
LEMMA TypeInductive == TypeOK /\ [Next]_<<nodeVars, routeVars>> => TypeOK'
<1> SUFFICES ASSUME TypeOK, [Next]_<<nodeVars, routeVars>> PROVE TypeOK'
  OBVIOUS
<1> USE DEF TypeOK, Keys
<1>1. ASSUME UNCHANGED routeVars PROVE RouteTypeOK'
  BY <1>1 DEF routeVars, RouteTypeOK
<1>2. ASSUME NEW failed \in BOOLEAN, CountIgnored(failed) PROVE ignored' \in 0 .. 2
  BY <1>2 DEF CountIgnored
<1>3. ASSUME NEW rows \in SUBSET Rows, LoadKeys(rows) PROVE TypeOK'
  <2>1. ignored' \in 0 .. 2
    BY <1>2, <1>3 DEF LoadKeys
  <2>2. RouteTypeOK'
    BY <1>1, <1>3 DEF LoadKeys
  <2> QED BY <1>3, <2>1, <2>2, StartsAssumption DEF LoadKeys, Up
<1>4. ASSUME NEW rows \in SUBSET Rows, SaveKeys(rows) PROVE TypeOK'
  <2>1. ignored' \in 0 .. 2
    BY <1>2, <1>4 DEF SaveKeys
  <2>2. RouteTypeOK'
    BY <1>1, <1>4 DEF SaveKeys
  <2>3. All(starts) \in [Rows -> 0 .. MaxStarts]
    BY DEF All
  <2>4. store' \in [Rows -> 0 .. MaxStarts]
    BY <1>4 DEF SaveKeys
  <2> QED BY <1>4, <2>1, <2>2, <2>3, <2>4 DEF SaveKeys, Up
<1>5. CASE StartFails
  BY <1>1, <1>5 DEF StartFails
<1>6. CASE Crash
  <2>1. RouteTypeOK'
    BY <1>6 DEF Crash, PeerRouteLost, RouteTypeOK
  <2> QED BY <1>6, <2>1 DEF Crash
<1>7. CASE PeerRouteNext /\ UNCHANGED nodeVars
  BY <1>7, RouteTypeInductive DEF nodeVars
<1>8. CASE UNCHANGED <<nodeVars, routeVars>>
  BY <1>1, <1>8 DEF nodeVars
<1> QED BY <1>3, <1>4, <1>5, <1>6, <1>7, <1>8 DEF Next

(* No process and an empty store. *)
LEMMA InitTyped == Init => TypeOK
BY StartsAssumption DEF Init, NewPeerRoute, TypeOK, RouteTypeOK, All, Keys

(* The store, the identity and the tables of the node keep their types. *)
THEOREM TypeCorrect == Spec => []TypeOK
BY InitTyped, TypeInductive, PTL DEF Spec

-----------------------------------------------------------------------------
(* Without an ignored failure the store holds one whole identity, that of   *)
(* the first node, or nothing; keys are generated only for an empty store.  *)
WholeIdentity ==
    ignored = 0 =>
      /\ store = first
      /\ \E k \in Keys : store = All(k)
      /\ process = "generating" => store = All(0) /\ starts # 0
      /\ process = "up" => identity = first

(* After at most one, the rows that are there are of one generation. *)
OneGeneration ==
    ignored <= 1 =>
      /\ \A r, q \in Rows : store[r] # 0 /\ store[q] # 0 => store[r] = store[q]
      /\ process = "up" => identity["noise_priv"] = identity["noise_pub"]

IdentityInv == TypeOK /\ WholeIdentity /\ OneGeneration

(* A start that finds and reads all rows brings up what is in the store. *)
LEMMA LoadKeepsIdentity ==
  ASSUME IdentityInv, NEW unread \in SUBSET Rows, LoadKeys(unread)
  PROVE  WholeIdentity' /\ OneGeneration'
<1> USE DEF IdentityInv, TypeOK, Keys
<1>1. CASE unread = {} /\ \A r \in Rows : store[r] # 0
  <2>1. ignored' = ignored /\ process' = "up" /\ identity' = store /\ store' = store
    BY <1>1 DEF LoadKeys, Up, CountIgnored
  <2>2. ignored = 0 => first # All(0)
    BY <1>1 DEF WholeIdentity, All, Rows
  <2>3. ignored = 0 => first' = first
    BY <1>1, <2>2 DEF LoadKeys, Up
  <2>4. WholeIdentity'
    BY <2>1, <2>3 DEF WholeIdentity
  <2>5. OneGeneration'
    BY <1>1, <2>1 DEF OneGeneration, Rows
  <2> QED BY <2>4, <2>5
<1>2. CASE ~(unread = {} /\ \A r \in Rows : store[r] # 0)
  <2>1. process' = "generating" /\ UNCHANGED <<identity, first, store>> /\ starts' # 0
    BY <1>2 DEF LoadKeys
  <2>2. ignored' \in 0 .. 2 /\ ignored' >= ignored /\ (ignored' = 0 => \A r \in unread : store[r] = 0)
    BY DEF LoadKeys, CountIgnored
  <2>3. ignored' = 0 => store = All(0)
    <3> SUFFICES ASSUME ignored' = 0 PROVE store = All(0)
      OBVIOUS
    <3>1. PICK k \in Keys : store = All(k)
      BY <2>2 DEF WholeIdentity
    <3>2. \E r \in Rows : store[r] = 0
      BY <1>2, <2>2
    <3> QED BY <3>1, <3>2 DEF All
  <2>4. WholeIdentity'
    <3>1. ignored' = 0 => ignored = 0
      BY <2>2
    <3>2. process' # "up"
      BY <2>1
    <3> QED BY <2>1, <2>3, <3>1, <3>2 DEF WholeIdentity
  <2>5. OneGeneration'
    BY <2>1, <2>2 DEF OneGeneration
  <2> QED BY <2>4, <2>5
<1> QED BY <1>1, <1>2

(* Generated keys are saved whole, or a failure was ignored. *)
LEMMA SaveKeepsIdentity ==
  ASSUME IdentityInv, NEW put \in SUBSET Rows, SaveKeys(put)
  PROVE  WholeIdentity' /\ OneGeneration'
<1> USE DEF IdentityInv, TypeOK, Keys
<1>1. process' = "up" /\ identity' = All(starts)
  BY DEF SaveKeys, Up
<1>2. CASE put = Rows
  <2>1. store' = All(starts) /\ ignored' = ignored
    BY <1>2 DEF SaveKeys, All, CountIgnored
  <2>2. ignored = 0 => first' = All(starts)
    BY DEF SaveKeys, Up, WholeIdentity
  <2>3. WholeIdentity'
    BY <1>1, <2>1, <2>2 DEF WholeIdentity
  <2>4. OneGeneration'
    BY <1>1, <2>1 DEF OneGeneration, All, Rows
  <2> QED BY <2>3, <2>4
<1>3. CASE put # Rows
  <2>1. ignored' # 0 /\ (ignored' <= 1 => ignored = 0)
    BY <1>3 DEF SaveKeys, CountIgnored
  <2>2. ignored' <= 1 => store = All(0)
    BY <2>1 DEF SaveKeys, WholeIdentity
  <2>3. ignored' <= 1 => \A r \in Rows : store'[r] \in {0, starts}
    BY <2>2 DEF SaveKeys, All
  <2>4. WholeIdentity'
    BY <2>1 DEF WholeIdentity
  <2>5. OneGeneration'
    BY <1>1, <2>3 DEF OneGeneration, All, Rows
  <2> QED BY <2>4, <2>5
<1> QED BY <1>2, <1>3

(* Every start, failure and crash preserves the invariant of the identity. *)
LEMMA IdentityInductive == IdentityInv /\ [Next]_<<nodeVars, routeVars>> => IdentityInv'
<1> SUFFICES ASSUME IdentityInv, [Next]_<<nodeVars, routeVars>>
             PROVE WholeIdentity' /\ OneGeneration'
  BY TypeInductive DEF IdentityInv
<1>1. CASE StartFails \/ Crash
  BY <1>1 DEF StartFails, Crash, IdentityInv, WholeIdentity, OneGeneration
<1>2. CASE UNCHANGED nodeVars
  BY <1>2 DEF nodeVars, IdentityInv, WholeIdentity, OneGeneration
<1> QED BY <1>1, <1>2, LoadKeepsIdentity, SaveKeepsIdentity DEF Next

(* loadOrGenerateKeys: whatever crashes and failed starts there are, a node *)
(* keeps its identity if no failure of the store was ignored, and has       *)
(* matching Noise keys if at most one was.                                  *)
THEOREM IdentityKept == Spec => []IdentitySurvives
<1>1. Init => IdentityInv
  <2> SUFFICES ASSUME Init PROVE IdentityInv
    OBVIOUS
  <2>1. 0 \in Keys
    BY StartsAssumption DEF Keys
  <2>2. WholeIdentity
    BY <2>1 DEF Init, WholeIdentity
  <2>3. OneGeneration
    BY DEF Init, OneGeneration, All
  <2> QED BY <2>2, <2>3, InitTyped DEF IdentityInv
<1>2. IdentityInv => IdentitySurvives
  BY DEF IdentityInv, WholeIdentity, OneGeneration, IdentitySurvives
<1> QED BY <1>1, <1>2, IdentityInductive, PTL DEF Spec

=============================================================================
