----------------------------- MODULE MCIngress -----------------------------
(* Two tunnels for a takeover; two request slots, used again and again, so  *)
(* that any number of registrations run, one after the other, before,       *)
(* during and after a refresh; and two device keys.                         *)
EXTENDS Ingress

CONSTANTS t1, t2, r1, r2, s1, none

MCTunnels == {t1, t2}
MCRequests == {r1, r2}
MCSessions == {s1}
MCKeys == {"jwk1", "jwk2"}

=============================================================================
