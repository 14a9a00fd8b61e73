-------------------------- MODULE MCGossipManager --------------------------
(* Two nodes and one service.  With a window of one tick the clock reaches  *)
(* every case of both comparisons: younger than, exactly, and older than    *)
(* the window.                                                              *)
EXTENDS GossipManager, TLC

CONSTANTS n1, n2, s1, p1, p2, w1

MCNodes == {n1, n2}
MCServices == {s1}
MCDetails == {0}
MCPublishers == {p1, p2}
MCWorker == {w1}

MCSymmetry == Permutations(MCNodes) \cup Permutations(MCPublishers)

=============================================================================
