-------------------------- MODULE MCTunnelManager --------------------------
(* Three registrations of two connections: one to be taken over, one to     *)
(* take over, and one that comes after a watcher has run or binds one of    *)
(* the connections again. A nonce may be ahead of the clock, at the edge of *)
(* the window or beyond it.                                                 *)
EXTENDS TunnelManager

CONSTANTS c1, c2, s1, s2, b1, b2, b3, d1, noConn, noBind

MCConns == {c1, c2}
MCSubdomains == {s1, s2}
MCBinds == {b1, b2, b3}
MCDials == {d1}
MCAges == {-1, 60, 61}

=============================================================================
