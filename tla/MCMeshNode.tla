---------------------------- MODULE MCMeshNode -----------------------------
(* Two Connects: a first and a reconnect, which may overlap.                *)
EXTENDS MeshNode

CONSTANTS c1, c2, s1, none

MCConnects == {c1, c2}
MCSenders == {s1}

=============================================================================
