---------------------------- MODULE MCRPCManager ----------------------------
(* Small instances of RPCManager: two calls, so that one can be nested in a *)
(* handler or two can race, and two different replies, so that a mix-up of  *)
(* responses is visible.                                                    *)
EXTENDS RPCManager, TLC

CONSTANTS c1, c2, m1, r1, r2, l1, l2, app, noID, noReply

MCCalls == {c1, c2}
MCMethods == {m1}
MCReply == {r1}
MCReplies == {r1, r2}
MCLoops == {l1, l2}

MCSymmetry ==
    Permutations(MCCalls) \cup Permutations(MCReplies) \cup Permutations(MCLoops)

=============================================================================
