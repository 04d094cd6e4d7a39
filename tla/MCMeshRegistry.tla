--------------------------- MODULE MCMeshRegistry ---------------------------
(* Instances of MeshRegistry for TLC. *)
EXTENDS MeshRegistry, TLC

CONSTANTS a, s, t

\* One instance with two channels.
Alone == a :> <<s, t>>
=============================================================================
