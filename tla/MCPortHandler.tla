--------------------------- MODULE MCPortHandler ---------------------------
(* Instances of PortHandler for TLC. *)
EXTENDS PortHandler
=============================================================================
