----------------------------- MODULE MCGateway -----------------------------
(* Two sessions, which may share a key or not, and one host they compete    *)
(* for.  A bus of one place is full after one event.                        *)
EXTENDS Gateway

CONSTANTS s1, s2, k1, k2, h1, noSession, noHost

MCSessions == {s1, s2}
MCKeys == {k1, k2}
MCHosts == {h1}

=============================================================================
