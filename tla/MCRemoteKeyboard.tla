-------------------------- MODULE MCRemoteKeyboard --------------------------
(* Instance of RemoteKeyboard for TLC. *)
EXTENDS RemoteKeyboard
=============================================================================
