---------------------------- MODULE MCSecureNode ----------------------------
(* Three starts: one that generates, one that reads some of the rows, and   *)
(* one that sees what the second left in the store.                         *)
EXTENDS SecureNode

CONSTANTS n1, r1, e1

MCNodes == {n1}
MCRoutes == {r1}
MCEvaluators == {e1}

=============================================================================
