----------------------------- MODULE PeerRoute -----------------------------
(***************************************************************************)
(* The peer registry of a node (peer_route.go): the peers, their access    *)
(* policies, the route handlers, and EvaluateSwarmHandshake, which reads   *)
(* the policies in the middle of its work while other goroutines add,      *)
(* remove and grant.  The tables live in memory and start empty.           *)
(***************************************************************************)
CONSTANTS
    Nodes,       \* NodeIDs
    Routes,      \* names a handler can be registered for
    Evaluators   \* goroutines in EvaluateSwarmHandshake

Policies == {"Deny", "ReadOnly", "See", "Write", "Admin"}
Intents == {"READ_INTENT", "S2P_PULL", "WRITE_INTENT", "another intent"}

VARIABLES
    peers,           \* per node: is it known, and has TouchPeer seen it?
    accessPolicies,  \* per node: its policy, or "unset"
    handlers,        \* routes with a handler
    eval             \* per evaluator: what it evaluates and where it is

routeVars == <<peers, accessPolicies, handlers, eval>>

Idle == [at |-> "idle"]
Evaluations == [at : {"compiling", "looked", "allowed", "refused"},
                node : Nodes, intent : Intents, policy : Policies \cup {"unset"}]

RouteTypeOK ==
    /\ peers \in [Nodes -> {"absent", "known", "touched"}]
    /\ accessPolicies \in [Nodes -> Policies \cup {"unset"}]
    /\ handlers \subseteq Routes
    /\ eval \in [Evaluators -> Evaluations \cup {Idle}]

NewPeerRoute ==
    /\ peers = [n \in Nodes |-> "absent"]
    /\ accessPolicies = [n \in Nodes |-> "unset"]
    /\ handlers = {}
    /\ eval = [e \in Evaluators |-> Idle]

(* The process has ended, and the tables with it. *)
PeerRouteLost ==
    /\ peers' = [n \in Nodes |-> "absent"]
    /\ accessPolicies' = [n \in Nodes |-> "unset"]
    /\ handlers' = {}
    /\ eval' = [e \in Evaluators |-> Idle]

-----------------------------------------------------------------------------
RegisterHandler(r) ==
    /\ handlers' = handlers \cup {r}
    /\ UNCHANGED <<peers, accessPolicies, eval>>

(* A new entry replaces one that TouchPeer has updated. *)
AddPeer(n) ==
    /\ peers' = [peers EXCEPT ![n] = "known"]
    /\ UNCHANGED <<accessPolicies, handlers, eval>>

TouchPeer(n) ==
    /\ peers[n] # "absent"
    /\ peers' = [peers EXCEPT ![n] = "touched"]
    /\ UNCHANGED <<accessPolicies, handlers, eval>>

(* Seeded fault: the entry is set to nil. *)
RemovePeerSetsNil(n) ==
    /\ peers' = [peers EXCEPT ![n] = "nil"]
    /\ accessPolicies' = [accessPolicies EXCEPT ![n] = "unset"]
    /\ UNCHANGED <<handlers, eval>>

RemovePeer(n) ==
    /\ peers' = [peers EXCEPT ![n] = "absent"]
    /\ accessPolicies' = [accessPolicies EXCEPT ![n] = "unset"]
    /\ UNCHANGED <<handlers, eval>>

(* A policy can be set for a node that is no peer, before or after it is one. *)
SetAccessPolicy(n, p) ==
    /\ accessPolicies' = [accessPolicies EXCEPT ![n] = p]
    /\ UNCHANGED <<peers, handlers, eval>>

-----------------------------------------------------------------------------
(* EvaluateSwarmHandshake.                                                 *)

(* The decision of its switch; "unset" and "Deny" have errors of their own. *)
Allows(p, intent) ==
    \/ p \in {"Admin", "See"}
    \/ p = "Write" /\ intent \in {"WRITE_INTENT", "READ_INTENT", "S2P_PULL"}
    \/ p = "ReadOnly" /\ intent \in {"READ_INTENT", "S2P_PULL"}

(* The key is long enough: the dataframe is compiled, with no lock held. *)
EvaluateBegin(e, n, intent) ==
    /\ eval[e] = Idle
    /\ eval' = [eval EXCEPT ![e] =
          [at |-> "compiling", node |-> n, intent |-> intent, policy |-> "unset"]]
    /\ UNCHANGED <<peers, accessPolicies, handlers>>

(* The evaluation goes from one place to another, with the policy it has. *)
Step(e, from, to, p) ==
    /\ eval[e] # Idle
    /\ eval[e].at = from
    /\ eval' = [eval EXCEPT ![e].at = to, ![e].policy = p]
    /\ UNCHANGED <<peers, accessPolicies, handlers>>

(* The dataframe engine refuses: the policies are not read. *)
EvaluateBlocked(e) == Step(e, "compiling", "refused", "unset")

(* The policy is read under the lock ... *)
EvaluateLookup(e) == Step(e, "compiling", "looked", accessPolicies[eval[e].node])

(* ... and decides, whatever the table holds by then. *)
EvaluateDecide(e) ==
    Step(e, "looked", IF Allows(eval[e].policy, eval[e].intent) THEN "allowed" ELSE "refused",
         eval[e].policy)

EvaluateReturn(e) ==
    /\ eval[e] # Idle
    /\ eval[e].at \in {"allowed", "refused"}
    /\ eval' = [eval EXCEPT ![e] = Idle]
    /\ UNCHANGED <<peers, accessPolicies, handlers>>

PeerRouteNext ==
    \/ \E r \in Routes : RegisterHandler(r)
    \/ \E n \in Nodes :
         \/ AddPeer(n) \/ TouchPeer(n) \/ RemovePeer(n)
         \/ \E p \in Policies : SetAccessPolicy(n, p)
         \/ \E e \in Evaluators, i \in Intents : EvaluateBegin(e, n, i)
    \/ \E e \in Evaluators :
         EvaluateBlocked(e) \/ EvaluateLookup(e) \/ EvaluateDecide(e) \/ EvaluateReturn(e)

=============================================================================
