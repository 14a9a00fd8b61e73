-------------------------- MODULE MCSecureChannel --------------------------
(* Two writers, two messages each: enough for one to start its next send    *)
(* while the other is anywhere inside its own.  One message is too large.   *)
EXTENDS SecureChannel, TLC

CONSTANTS w1, w2, none

MCWriters == {w1, w2}
MCTooLarge == {<<w2, 2>>}

=============================================================================
