----------------------------- MODULE SecureNode -----------------------------
(***************************************************************************)
(* The life of a node's process (node.go): NewSecureNode, which loads the  *)
(* mesh identity from the store or generates one (loadOrGenerateKeys,      *)
(* mesh.go), the node in service with its PeerRoute, and crashes at any    *)
(* point.  The store is external: a transaction commits all its Puts or    *)
(* fails, but single Gets and Puts may fail, and the code ignores the      *)
(* errors of its Puts and takes any failed Get for a missing row.          *)
(*                                                                         *)
(* Key material is named after the start that generated it.                *)
(***************************************************************************)
EXTENDS Naturals, PeerRoute

CONSTANT MaxStarts   \* bound: starts of the process

ASSUME StartsAssumption == MaxStarts \in Nat

Rows == {"noise_priv", "noise_pub", "dbsc_priv"}
Keys == 0 .. MaxStarts   \* 0: no row

VARIABLES
    process,    \* "down", "generating" (keys not committed yet) or "up"
    store,      \* per row: the key material it holds
    identity,   \* the keys of the node that is up
    starts,     \* starts so far
    first,      \* history: the identity of the first node that came up
    ignored     \* history: failures of Get or Put the code did not notice, to 2

nodeVars == <<process, store, identity, starts, first, ignored>>

All(k) == [r \in Rows |-> k]

TypeOK ==
    /\ process \in {"down", "generating", "up"}
    /\ store \in [Rows -> Keys]
    /\ identity \in [Rows -> Keys]
    /\ starts \in 0 .. MaxStarts
    /\ first \in [Rows -> Keys]
    /\ ignored \in 0 .. 2
    /\ RouteTypeOK

Init ==
    /\ process = "down"
    /\ store = All(0)
    /\ identity = All(0)
    /\ starts = 0
    /\ first = All(0)
    /\ ignored = 0
    /\ NewPeerRoute

CountIgnored(failed) == ignored' = IF failed /\ ignored < 2 THEN ignored + 1 ELSE ignored

(* The node is complete: its tables are new and its identity is k. *)
Up(k) ==
    /\ process' = "up"
    /\ identity' = k
    /\ first' = IF first = All(0) THEN k ELSE first

(* NewSecureNode up to the three Gets, those of the rows in unread failing. *)
(* With all three rows the node comes up; otherwise new keys are generated. *)
LoadKeys(unread) ==
    /\ process = "down"
    /\ starts < MaxStarts
    /\ starts' = starts + 1
    /\ CountIgnored(\E r \in unread : store[r] # 0)
    /\ IF unread = {} /\ \A r \in Rows : store[r] # 0
         THEN Up(store)
         ELSE process' = "generating" /\ UNCHANGED <<identity, first>>
    /\ UNCHANGED <<store, routeVars>>

(* Seeded fault: a transaction per row, so that a crash can come between. *)
SaveKeysByRow(put) ==
    /\ process = "generating"
    /\ \E written \in SUBSET Rows :
         /\ store' = [r \in Rows |-> IF r \in written THEN starts ELSE store[r]]
         /\ IF written = Rows THEN Up(All(starts))
            ELSE process' = "down" /\ UNCHANGED <<identity, first>>
    /\ UNCHANGED <<starts, ignored, routeVars>>

(* The transaction of the three Puts commits what was put, and the node     *)
(* runs with the generated keys whether or not all of them were.            *)
SaveKeys(put) ==
    /\ process = "generating"
    /\ store' = [r \in Rows |-> IF r \in put THEN starts ELSE store[r]]
    /\ CountIgnored(put # Rows)
    /\ Up(All(starts))
    /\ UNCHANGED <<starts, routeVars>>

(* Key generation or Commit fails: NewSecureNode returns the error. *)
StartFails ==
    /\ process = "generating"
    /\ process' = "down"
    /\ UNCHANGED <<store, identity, starts, first, ignored, routeVars>>

(* The process ends at any point after its start. *)
Crash ==
    /\ process # "down"
    /\ process' = "down"
    /\ PeerRouteLost
    /\ UNCHANGED <<store, identity, starts, first, ignored>>

Next ==
    \/ \E rows \in SUBSET Rows : LoadKeys(rows) \/ SaveKeys(rows)
    \/ StartFails
    \/ Crash
    \/ process = "up" /\ PeerRouteNext /\ UNCHANGED nodeVars

Spec == Init /\ [][Next]_<<nodeVars, routeVars>>

-----------------------------------------------------------------------------
(* loadOrGenerateKeys: a node keeps its identity across crashes at any      *)
(* point of its start, if the store fails in no way the code ignores. One   *)
(* ignored failure may cost the identity, but the private and the public    *)
(* Noise key still belong together; two may break the pair.                 *)
IdentitySurvives ==
    process = "up" =>
      /\ ignored = 0 => identity = first
      /\ ignored <= 1 => identity["noise_priv"] = identity["noise_pub"]

=============================================================================
