---------------------------- MODULE MCMeshWatcher ----------------------------
(* Instances of MeshWatcher for TLC. *)
EXTENDS MeshWatcher

CONSTANTS k, l

\* One entry in any state, and two that both wait for the watcher.
MCFound ==
  {b \in [Keys -> {"absent", "healthy", "degraded", "deleted", "expired"}] : b[l] = "absent"}
  \cup {[i \in Keys |-> "healthy"]}
=============================================================================
