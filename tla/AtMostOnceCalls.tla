-------------------------- MODULE AtMostOnceCalls --------------------------
(***************************************************************************)
(* What a remote component promises to those who call it: a call is        *)
(* executed at most once; a call that returns "ok" has been executed; the  *)
(* calls of one client are executed in the order in which it made them,    *)
(* also when it stopped waiting for some of them.  A call that fails or    *)
(* times out may have been executed, may still be, or never will.          *)
(***************************************************************************)
EXTENDS Naturals, Sequences

CONSTANT Clients

VARIABLES
  made,      \* [Clients -> number of calls made]
  executed,  \* the calls in the order of their execution, <<client, n>>
  returned   \* [Clients -> the calls that returned "ok"]

Init ==
  /\ made = [c \in Clients |-> 0]
  /\ executed = <<>>
  /\ returned = [c \in Clients |-> {}]

Make(c) ==
  /\ made' = [made EXCEPT ![c] = @ + 1]
  /\ UNCHANGED <<executed, returned>>

Execute(c, n) ==
  /\ \A i \in 1 .. Len(executed) : executed[i][1] = c => executed[i][2] < n
  /\ executed' = Append(executed, <<c, n>>)
  /\ UNCHANGED <<made, returned>>

Return(c, n) ==
  /\ \E i \in 1 .. Len(executed) : executed[i] = <<c, n>>
  /\ returned' = [returned EXCEPT ![c] = @ \cup {n}]
  /\ UNCHANGED <<made, executed>>

Next ==
  \E c \in Clients :
    Make(c) \/ \E n \in 1 .. made[c] : Execute(c, n) \/ Return(c, n)

Spec == Init /\ [][Next]_<<made, executed, returned>>
=============================================================================
