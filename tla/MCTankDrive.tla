---------------------------- MODULE MCTankDrive ----------------------------
(* Instances of TankDrive for TLC. *)
EXTENDS TankDrive

\* Full astern, inside the deadband, zero and full ahead.
FewIntents == {-Unit, 1, Unit}
FullAhead == {Unit}
=============================================================================
