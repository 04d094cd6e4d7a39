---------------------------- MODULE MeshRegistry ----------------------------
(***************************************************************************)
(* The registry of the mesh: how services register, stay listed, and go    *)
(* (pkg/mesh/registration.go), over the buckets of pkg/mesh/kv.go, and how *)
(* discovery judges an entry by its age (pkg/mesh/discovery.go).           *)
(*                                                                         *)
(* Each instance of a service makes its requests one after the other over  *)
(* a NATS connection: Register in its caller's goroutine, heartbeats and   *)
(* deregistration in heartbeatLoop.  A request that is given up may still  *)
(* be on its way and be served late.  A connection keeps the order of what *)
(* is sent on it, and loses the end of it when it breaks.                  *)
(*                                                                         *)
(* Time is counted in heartbeat intervals.  A request is given up after    *)
(* half of one (the 5 s jetstream allows, and deregister), so the request  *)
(* that refreshes an entry is over within its interval.                    *)
(*                                                                         *)
(* Announcements and heartbeat messages change no registry: MeshWatcher.   *)
(***************************************************************************)
EXTENDS Naturals, Sequences

CONSTANTS
  Instances,   \* instances of services; a restarted service is a new one
  Subjects,    \* subjects of channels
  Owned,       \* the channels each instance registers
  Stale,       \* DefaultStaleThreshold, in heartbeat intervals
  TTL,         \* DefaultServiceTTL, in heartbeat intervals
  Faulty,      \* the instances that may crash, lose a connection, or wait too long
  MaxWire,     \* bound: requests of a connection not yet served
  None

ASSUME MeshAssumption ==
  /\ Owned \in [Instances -> Seq(Subjects)]
  /\ Stale \in Nat /\ TTL \in Nat /\ 1 < Stale /\ Stale < TTL
  /\ Faulty \subseteq Instances
  /\ MaxWire \in Nat \ {0}
  /\ None \notin Instances /\ None \notin Subjects
  /\ None \notin [stored : 0..(TTL - 1), seen : 0..TTL]

VARIABLES
  phase,       \* where the registration of an instance is
  todo,        \* the requests its procedure has yet to make
  answer,      \* to the first of these: none asked for, due, or lost on its way
  cancelled,   \* Deregister has cancelled the loop's context
  fired,       \* the loop has taken the tick of this interval
  wire,        \* its requests that have not been served
  services,    \* the services bucket: an entry's age, and the age it tells
  channels,    \* the channels bucket: who published the descriptor
  acked,       \* history: a Put was answered in this interval
  missed,      \* history: intervals in a row without an answered Put
  unclean      \* history: deregistration gave up a request

vars == <<phase, todo, answer, cancelled, fired, wire, services, channels, acked, missed, unclean>>

Phases == {"new", "joining", "refused", "running", "beating", "leaving", "gone", "crashed"}

Request == [op : {"put", "delete", "putChannel", "deleteChannel"},
            seen : 0..TTL, subject : Subjects \cup {None}]

\* stored: since the Put, by the server's clock, which expires the entry;
\* seen: since LastSeen, which is in the descriptor.
Entry == [stored : 0..(TTL - 1), seen : 0..TTL]

Put              == [op |-> "put", seen |-> 0, subject |-> None]
Delete           == [op |-> "delete", seen |-> 0, subject |-> None]
PutChannel(s)    == [op |-> "putChannel", seen |-> 0, subject |-> s]
DeleteChannel(s) == [op |-> "deleteChannel", seen |-> 0, subject |-> s]

ForEach(Make(_), ss) == [k \in DOMAIN ss |-> Make(ss[k])]

Init ==
  /\ phase = [i \in Instances |-> "new"]
  /\ todo = [i \in Instances |-> <<>>]
  /\ answer = [i \in Instances |-> "none"]
  /\ cancelled = [i \in Instances |-> FALSE]
  /\ fired = [i \in Instances |-> FALSE]
  /\ wire = [i \in Instances |-> <<>>]
  /\ services = [i \in Instances |-> None]
  /\ channels = [s \in Subjects |-> None]
  /\ acked = [i \in Instances |-> FALSE]
  /\ missed = [i \in Instances |-> 0]
  /\ unclean = [i \in Instances |-> FALSE]

-----------------------------------------------------------------------------
(* Requests.                                                               *)

Begin(i, where, requests) ==
  /\ phase' = [phase EXCEPT ![i] = where]
  /\ todo' = [todo EXCEPT ![i] = requests]

Send(i) ==
  /\ todo[i] # <<>> /\ answer[i] = "none"
  /\ ~(phase[i] = "beating" /\ cancelled[i])
  /\ Len(wire[i]) < MaxWire
  /\ wire' = [wire EXCEPT ![i] = Append(@, Head(todo[i]))]
  /\ answer' = [answer EXCEPT ![i] = "due"]
  /\ UNCHANGED <<phase, todo, cancelled, fired, services, channels, acked, missed, unclean>>

\* Only a failed Put of the service makes Register return an error; all other
\* failures are logged, and the procedure goes on.
Refused(i, ok) == phase[i] = "joining" /\ Head(todo[i]).op = "put" /\ ~ok

Remaining(i, ok) == IF Refused(i, ok) THEN <<>> ELSE Tail(todo[i])

After(i, ok) ==
  CASE Refused(i, ok)          -> "refused"
    [] Remaining(i, ok) # <<>> -> phase[i]
    [] Remaining(i, ok) = <<>> /\ phase[i] = "leaving" -> "gone"
    [] OTHER                   -> "running"

\* The request i waits for is over.  The ticker starts with the loop.
Over(i, ok) ==
  /\ Begin(i, After(i, ok), Remaining(i, ok))
  /\ answer' = [answer EXCEPT ![i] = "none"]
  /\ fired' = [fired EXCEPT ![i] = @ \/ After(i, ok) = "running"]
  /\ acked' = [acked EXCEPT ![i] = @ \/ (ok /\ Head(todo[i]).op = "put")]
  /\ unclean' = [unclean EXCEPT ![i] = @ \/ (phase[i] = "leaving" /\ ~ok)]

StoreStale(i, r) ==  \* mutant: a heartbeat leaves LastSeen as it was
  /\ services' = CASE r.op = "put"    -> [services EXCEPT ![i] =
                        [stored |-> 0, seen |-> IF @ = None THEN r.seen ELSE @.seen]]
                   [] r.op = "delete" -> [services EXCEPT ![i] = None]
                   [] OTHER           -> services
  /\ channels' = CASE r.op = "putChannel"    -> [channels EXCEPT ![r.subject] = i]
                   [] r.op = "deleteChannel" -> [channels EXCEPT ![r.subject] = None]
                   [] OTHER                  -> channels

\* The server serves a request.  If it is the last one sent and still waited
\* for, the answer arrives.
Store(i, r) ==
  /\ services' = CASE r.op = "put"    -> [services EXCEPT ![i] = [stored |-> 0, seen |-> r.seen]]
                   [] r.op = "delete" -> [services EXCEPT ![i] = None]
                   [] OTHER           -> services
  /\ channels' = CASE r.op = "putChannel"    -> [channels EXCEPT ![r.subject] = i]
                   [] r.op = "deleteChannel" -> [channels EXCEPT ![r.subject] = None]
                   [] OTHER                  -> channels

Serve(i) ==
  /\ wire[i] # <<>>
  /\ Store(i, Head(wire[i]))
  /\ wire' = [wire EXCEPT ![i] = Tail(@)]
  /\ IF answer[i] = "due" /\ Len(wire[i]) = 1
       THEN Over(i, TRUE)
       ELSE UNCHANGED <<phase, todo, answer, fired, acked, unclean>>
  /\ UNCHANGED <<cancelled, missed>>

GiveUpUnlessLost(i) ==  \* mutant: a request without a deadline
  /\ answer[i] = "due" /\ i \in Faulty
  /\ Over(i, FALSE)
  /\ UNCHANGED <<cancelled, wire, services, channels, missed>>

\* No answer came in time, or the context of the heartbeat is cancelled, before
\* the request is sent or after.
GiveUp(i) ==
  /\ \/ answer[i] # "none" /\ i \in Faulty
     \/ phase[i] = "beating" /\ cancelled[i]
  /\ Over(i, FALSE)
  /\ UNCHANGED <<cancelled, wire, services, channels, missed>>

\* The connection breaks: the server gets the beginning of what was sent.
Lose(i) ==
  /\ i \in Faulty
  /\ \E n \in 0..(Len(wire[i]) - 1) : wire' = [wire EXCEPT ![i] = SubSeq(@, 1, n)]
  /\ answer' = [answer EXCEPT ![i] = IF @ = "due" THEN "lost" ELSE @]
  /\ UNCHANGED <<phase, todo, cancelled, fired, services, channels, acked, missed, unclean>>

-----------------------------------------------------------------------------
(* An instance.                                                            *)

Register(i) ==
  /\ phase[i] = "new"
  /\ Begin(i, "joining", <<Put>> \o ForEach(PutChannel, Owned[i]))
  /\ UNCHANGED <<answer, cancelled, fired, wire, services, channels, acked, missed, unclean>>

\* The loop's select: a tick (LastSeen is now), or the end of the context.
Beat(i) ==
  /\ phase[i] = "running" /\ ~fired[i]
  /\ Begin(i, "beating", <<Put>>)
  /\ fired' = [fired EXCEPT ![i] = TRUE]
  /\ UNCHANGED <<answer, cancelled, wire, services, channels, acked, missed, unclean>>

Deregister(i) ==
  /\ phase[i] \in {"running", "beating"}
  /\ cancelled' = [cancelled EXCEPT ![i] = TRUE]
  /\ UNCHANGED <<phase, todo, answer, fired, wire, services, channels, acked, missed, unclean>>

LeaveUnjoined(i) ==  \* mutant: deregistering does not wait for a heartbeat
  /\ phase[i] \in {"running", "beating"} /\ cancelled[i] /\ answer[i] = "none"
  /\ Begin(i, "leaving", <<Delete>> \o ForEach(DeleteChannel, Owned[i]) \o todo[i])
  /\ UNCHANGED <<answer, cancelled, fired, wire, services, channels, acked, missed, unclean>>

Leave(i) ==
  /\ phase[i] = "running" /\ cancelled[i]
  /\ Begin(i, "leaving", <<Delete>> \o ForEach(DeleteChannel, Owned[i]))
  /\ UNCHANGED <<answer, cancelled, fired, wire, services, channels, acked, missed, unclean>>

Crash(i) ==
  /\ i \in Faulty /\ phase[i] \in {"joining", "running", "beating", "leaving"}
  /\ Begin(i, "crashed", <<>>)
  /\ answer' = [answer EXCEPT ![i] = "none"]
  /\ \E n \in 0..Len(wire[i]) : wire' = [wire EXCEPT ![i] = SubSeq(@, 1, n)]
  /\ UNCHANGED <<cancelled, fired, services, channels, acked, missed, unclean>>

-----------------------------------------------------------------------------
(* Time.  No interval ends while a loop has a tick or its cancellation to  *)
(* take, or a Put of the service is waited for.                            *)

Older(n) == IF n < TTL THEN n + 1 ELSE TTL

\* Only the descriptor of a service tells an age.
Grown(r) == IF r.op = "put" THEN [r EXCEPT !.seen = Older(@)] ELSE r

Aged(rs) == [k \in DOMAIN rs |-> Grown(rs[k])]

Punctual(i) ==
  /\ phase[i] = "running" => fired[i] /\ ~cancelled[i]
  /\ todo[i] # <<>> => Head(todo[i]).op # "put"

Registered(i) == phase[i] \in {"joining", "running", "beating"}

ExpireNever(e) ==  \* mutant: a bucket without a TTL
  IF e = None THEN None ELSE [stored |-> Older(e.stored), seen |-> Older(e.seen)]

\* The services bucket expires what is as old as its TTL, and tells no one.
Expire(e) ==
  IF e = None \/ e.stored + 1 = TTL THEN None
  ELSE [stored |-> e.stored + 1, seen |-> Older(e.seen)]

Tick ==
  /\ \A i \in Instances : Punctual(i)
  /\ services' = [i \in Instances |-> Expire(services[i])]
  /\ wire' = [i \in Instances |-> Aged(wire[i])]
  /\ fired' = [i \in Instances |-> FALSE]
  /\ missed' = [i \in Instances |-> IF acked[i] \/ ~Registered(i) THEN 0 ELSE Older(missed[i])]
  /\ acked' = [i \in Instances |-> FALSE]
  /\ UNCHANGED <<phase, todo, answer, cancelled, channels, unclean>>

Instance(i) ==
  \/ Register(i) \/ Send(i) \/ GiveUp(i) \/ Beat(i)
  \/ Deregister(i) \/ Leave(i) \/ Crash(i) \/ Lose(i) \/ Serve(i)

Next == (\E i \in Instances : Instance(i)) \/ Tick

Spec == Init /\ [][Next]_vars

\* A goroutine goes on, a request is served or given up, and time passes.  No
\* one has to register, deregister, crash or lose a connection.
FairSpec ==
  /\ Spec
  /\ \A i \in Instances :
       WF_vars(Send(i)) /\ WF_vars(Serve(i)) /\ WF_vars(GiveUp(i)) /\ WF_vars(Beat(i)) /\ WF_vars(Leave(i))
  /\ WF_vars(Tick)

-----------------------------------------------------------------------------
(* Properties.                                                             *)

TypeOK ==
  /\ phase \in [Instances -> Phases]
  /\ todo \in [Instances -> Seq(Request)]
  /\ answer \in [Instances -> {"none", "due", "lost"}]
  /\ cancelled \in [Instances -> BOOLEAN]
  /\ fired \in [Instances -> BOOLEAN]
  /\ wire \in [Instances -> Seq(Request)]
  /\ \A i \in Instances : Len(wire[i]) <= MaxWire
  /\ services \in [Instances -> Entry \cup {None}]
  /\ channels \in [Subjects -> Instances \cup {None}]
  /\ acked \in [Instances -> BOOLEAN]
  /\ missed \in [Instances -> 0..TTL]
  /\ unclean \in [Instances -> BOOLEAN]

Live(i) == phase[i] \in {"running", "beating"}

Status(i) ==
  IF services[i] = None THEN None
  ELSE IF services[i].seen < Stale THEN "healthy"
  ELSE IF services[i].seen < TTL THEN "stale" ELSE "unknown"

\* A service whose heartbeats are answered is healthy, and one that misses some
\* stays listed, no older than the heartbeats it missed, until it has missed as
\* many as the TTL allows.  Late requests of its own never make it older
\* (sendHeartbeat, ServiceTTL, computeStatus).
LiveIsListed ==
  \A i \in Instances : Live(i) =>
    /\ missed[i] + 1 < Stale => Status(i) = "healthy"
    /\ missed[i] + 1 < TTL   => services[i] # None /\ services[i].seen <= missed[i] + 1

\* A deregistration whose requests were all answered leaves nothing behind, and
\* nothing comes after it: no entry, no channel, no late heartbeat
\* (heartbeatLoop, deregister).
CleanLeave ==
  \A i \in Instances : phase[i] = "gone" /\ ~unclean[i] =>
    /\ services[i] = None
    /\ \A s \in Subjects : channels[s] # i
    /\ wire[i] = <<>>

\* Deregister returns, or the process crashes (Deregister waits for the loop).
DeregisterReturns ==
  \A i \in Instances : cancelled[i] ~> phase[i] \in {"gone", "crashed"}

\* However a service ends, its entry goes, and stays away: crashed in the middle
\* of a heartbeat, refused by a Put that was served late, or gone without an
\* answer to its Delete (ServiceTTL).
DepartedExpire ==
  \A i \in Instances :
    <>[](phase[i] \in {"refused", "gone", "crashed"} => services[i] = None)
=============================================================================
