----------------------------- MODULE MCNcpDrive -----------------------------
(* Instances of NcpDrive for TLC. *)
EXTENDS NcpDrive, TLC

Symmetry == Permutations(Clients)
=============================================================================
