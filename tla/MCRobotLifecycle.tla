-------------------------- MODULE MCRobotLifecycle --------------------------
(* Instances of RobotLifecycle for TLC. *)
EXTENDS RobotLifecycle, TLC

MCOrder == <<"a", "b", "c">>

Plain == [restart |-> [e \in Externals |-> "never"]]

\* Every dependency relation over the three components, and a dependency on a
\* service, with one component disabled or none; one internal service.
Graphs ==
  {[deps |-> d, disabled |-> off, services |-> <<"s">>, restart |-> Plain.restart] :
     d \in [Components -> SUBSET Components], off \in {{}} \cup {{c} : c \in Components}}
  \cup
  {[deps |-> [c \in Components |-> {"s"}], disabled |-> {}, services |-> <<"s">>,
    restart |-> Plain.restart]}

\* A chain of components, with services of both kinds under each policy, and
\* with two processes.
Fleet(sv, r) ==
  [deps |-> ("a" :> {"b"} @@ "b" :> {} @@ "c" :> {"a"}), disabled |-> {"c"},
   services |-> sv, restart |-> [e \in Externals |-> r]]

Fleets == {Fleet(<<"s", "e">>, r) : r \in Policies}

MCConfigs == Graphs \cup Fleets \cup {Fleet(<<"e", "f">>, "on-failure")}
=============================================================================
