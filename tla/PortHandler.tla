---------------------------- MODULE PortHandler ----------------------------
(***************************************************************************)
(* A serial port of the GSP gateway: services/gateway/port_handler.go, and *)
(* Gateway.Start and Gateway.Stop (gateway.go) around it.                  *)
(*                                                                         *)
(* Goroutines: the runner (Run and runLoop) connects, reads frames and     *)
(* handles them one by one; a pinger per connection; one callback per NATS *)
(* subscription, which writes to the device; and whoever stops the         *)
(* gateway.  They share port, subs and pongCh under the mutex h.mu, which  *)
(* is not reentrant.  Every critical section but that of Stop is one step  *)
(* here, with the guard mu = "free".                                       *)
(*                                                                         *)
(* The device subscribes under ids of its own choosing, and a NATS         *)
(* subscription lives until someone unsubscribes it, connection or not.    *)
(* The serial driver, NATS and the device are external.                    *)
(***************************************************************************)
EXTENDS Naturals, FiniteSets

CONSTANTS
  SubIds,       \* the ids the device uses in SUB
  MaxConns,     \* bound: connections
  MaxSubs,      \* bound: NATS subscriptions ever made
  Events        \* some of AllEvents

\* The gateway is stopped; its context is cancelled from outside; the device
\* subscribes again under an id it has in use (as it does after a reset);
\* Read fails.
AllEvents == {"stop", "cancel", "resubscribe", "unplug"}

ASSUME PortAssumption ==
  /\ MaxConns \in Nat /\ MaxSubs \in Nat
  /\ Events \subseteq AllEvents

Conns == 1 .. MaxConns
Sids  == 1 .. MaxSubs      \* NATS subscriptions, in the order they are made

VARIABLES
  mu,         \* who holds h.mu: "free" or "stopper"
  cancelled,  \* the handler's context is done
  runner,     \* where Run is
  conn,       \* number of the latest connection
  port,       \* h.port: 0 when nil, or its connection
  request,    \* the SUB being handled: <<>> or <<id, sid>>
  pinger,     \* [Conns -> where the ping goroutine of the connection is]
  pongs,      \* pongs in pongCh, whose capacity is 1
  subs,       \* h.subs: [SubIds -> sid, or 0]
  live,       \* [Sids -> the id a live NATS subscription serves, or None]
  made,       \* NATS subscriptions made so far
  sending,    \* the subscriptions with a callback running
  stopper,    \* where Gateway.Stop is
  held,       \* the ids for which the device has been told OK
  reused      \* history: the ids subscribed again while in h.subs

vars == <<mu, cancelled, runner, conn, port, request, pinger, pongs, subs, live,
          made, sending, stopper, held, reused>>

None == "none"

subscriptions == <<subs, live, made, sending>>
pinging == <<pinger, pongs>>

Init ==
  /\ mu = "free" /\ cancelled = FALSE
  /\ runner = "off" /\ conn = 0 /\ port = 0 /\ request = <<>>
  /\ pinger = [n \in Conns |-> "none"] /\ pongs = 0
  /\ subs = [i \in SubIds |-> 0]
  /\ live = [s \in Sids |-> None] /\ made = 0 /\ sending = {}
  /\ stopper = "idle"
  /\ held = {} /\ reused = {}
-----------------------------------------------------------------------------
(* Run *)

Start ==
  /\ runner = "off" /\ runner' = "begin"
  /\ UNCHANGED <<mu, cancelled, conn, port, request, pinging, subscriptions,
                 stopper, held, reused>>

\* Run takes the mutex first and last, to say whether it is running.
SetRunning ==
  /\ mu = "free"
  /\ \/ runner = "begin" /\ runner' = "top"
     \/ runner = "return" /\ runner' = "ended"
  /\ UNCHANGED <<mu, cancelled, conn, port, request, pinging, subscriptions,
                 stopper, held, reused>>

RunReturnsConnected ==  \* mutant: no look at the context without a port
  /\ runner = "top" /\ cancelled /\ port # 0
  /\ runner' = "return"
  /\ UNCHANGED <<mu, cancelled, conn, port, request, pinging, subscriptions,
                 stopper, held, reused>>

\* The top of the loop, when the context is done.
RunReturns ==
  /\ runner = "top" /\ cancelled
  /\ runner' = "return"
  /\ UNCHANGED <<mu, cancelled, conn, port, request, pinging, subscriptions,
                 stopper, held, reused>>

\* The top of the loop, when it is not: connect begins to open the port.
Open ==
  /\ runner = "top" /\ ~cancelled
  /\ conn < MaxConns
  /\ runner' = "open"
  /\ UNCHANGED <<mu, cancelled, conn, port, request, pinging, subscriptions,
                 stopper, held, reused>>

\* A port that cannot be opened is tried again after a pause.
OpenFails ==
  /\ runner = "open" /\ runner' = "top"
  /\ UNCHANGED <<mu, cancelled, conn, port, request, pinging, subscriptions,
                 stopper, held, reused>>

\* connect, once the port is open, and the start of runLoop.
Connect ==
  /\ runner = "open" /\ mu = "free"
  /\ conn' = conn + 1
  /\ port' = conn'
  /\ runner' = "loop"
  /\ pinger' = [pinger EXCEPT ![conn'] = "wait"]
  /\ held' = {} \/ UNCHANGED held  \* the device has been reset, or not
  /\ UNCHANGED <<mu, cancelled, request, pongs, subscriptions, stopper, reused>>

\* The loop looks at its context and at h.port and reads: what has come, or
\* nothing until the timeout.  All frames of one read are handled before the
\* context is looked at again.
Read ==
  /\ runner = "loop" /\ ~cancelled /\ mu = "free" /\ port # 0
  /\ runner' = "read"
  /\ UNCHANGED <<mu, cancelled, conn, port, request, pinging, subscriptions,
                 stopper, held, reused>>

ReadHandled ==
  /\ runner = "read" /\ runner' = "loop"
  /\ UNCHANGED <<mu, cancelled, conn, port, request, pinging, subscriptions,
                 stopper, held, reused>>

\* runLoop returns: the context is done, or Read fails, and with it the
\* context of the pinger is cancelled.
LeaveLoop ==
  /\ runner = "loop" /\ (cancelled \/ port = 0 \/ "unplug" \in Events)
  /\ runner' = "disconnect"
  /\ UNCHANGED <<mu, cancelled, conn, port, request, pinging, subscriptions,
                 stopper, held, reused>>

DisconnectUnsubscribes(p) ==  \* mutant: the subscriptions go with the port
  /\ IF p = "runner" THEN runner = "disconnect" ELSE stopper = "disconnect"
  /\ mu = "free"
  /\ port' = 0
  /\ runner' = IF p = "stopper" THEN runner ELSE IF cancelled THEN "return" ELSE "top"
  /\ stopper' = IF p = "stopper" THEN "stopped" ELSE stopper
  /\ live' = [s \in Sids |-> None] /\ subs' = [i \in SubIds |-> 0]
  /\ UNCHANGED <<mu, cancelled, conn, request, pinging, made, sending, held, reused>>

\* disconnect, called by the runner, which goes back to the top of its loop or
\* out of it, and by Stop, which calls it with h.mu held.
Disconnect(p) ==
  /\ IF p = "runner" THEN runner = "disconnect" ELSE stopper = "disconnect"
  /\ mu = "free"
  /\ port' = 0
  /\ runner' = IF p = "stopper" THEN runner ELSE IF cancelled THEN "return" ELSE "top"
  /\ stopper' = IF p = "stopper" THEN "stopped" ELSE stopper
  /\ UNCHANGED <<mu, cancelled, conn, request, pinging, subscriptions, held, reused>>
-----------------------------------------------------------------------------
(* handleFrame *)

\* There is a frame in what was read: it is counted under the mutex and handled.
FrameRead == runner = "read" /\ mu = "free"

\* SUB, up to the NATS subscription; a device that has the id in use asks for
\* it again only after a reset.
HandleSub(id) ==
  /\ FrameRead /\ made < MaxSubs
  /\ id \notin held /\ (subs[id] = 0 \/ "resubscribe" \in Events)
  /\ made' = made + 1
  /\ live' = [live EXCEPT ![made'] = id]
  /\ reused' = IF subs[id] = 0 THEN reused ELSE reused \cup {id}
  /\ request' = <<id, made'>>
  /\ runner' = "register"
  /\ UNCHANGED <<mu, cancelled, conn, port, pinging, subs, sending, stopper, held>>

\* SUB, the entry in h.subs and the OK, which is lost without a port.
HandleSubDone ==
  /\ runner = "register" /\ mu = "free"
  /\ subs' = [subs EXCEPT ![request[1]] = request[2]]
  /\ held' = IF port # 0 THEN held \cup {request[1]} ELSE held
  /\ request' = <<>>
  /\ runner' = "read"
  /\ UNCHANGED <<mu, cancelled, conn, port, pinging, live, made, sending,
                 stopper, reused>>

HandleUnsubForgets(id) ==  \* mutant: the entry goes, the subscription stays
  /\ FrameRead /\ id \in held
  /\ subs' = [subs EXCEPT ![id] = 0]
  /\ held' = held \ {id}
  /\ UNCHANGED <<mu, cancelled, runner, conn, port, request, pinging, live, made,
                 sending, stopper, reused>>

HandleUnsub(id) ==
  /\ FrameRead /\ id \in held
  /\ subs' = [subs EXCEPT ![id] = 0]
  /\ live' = IF subs[id] = 0 THEN live ELSE [live EXCEPT ![subs[id]] = None]
  /\ held' = held \ {id}
  /\ UNCHANGED <<mu, cancelled, runner, conn, port, request, pinging, made,
                 sending, stopper, reused>>

\* PONG: a send that does not block.
HandlePong ==
  /\ FrameRead
  /\ pongs' = 1
  /\ UNCHANGED <<mu, cancelled, runner, conn, port, request, pinger,
                 subscriptions, stopper, held, reused>>
-----------------------------------------------------------------------------
(* The pinger of a connection *)

PingOver(n) == cancelled \/ conn # n \/ runner \notin {"loop", "read", "register"}

Ping(n) ==
  /\ pinger[n] = "wait" /\ mu = "free"
  /\ pinger' = [pinger EXCEPT ![n] = IF port = 0 THEN "wait" ELSE "await"]
  /\ UNCHANGED <<mu, cancelled, runner, conn, port, request, pongs,
                 subscriptions, stopper, held, reused>>

\* A pong or the timeout ends the wait.
PingAnswered(n) ==
  /\ pinger[n] = "await"
  /\ pinger' = [pinger EXCEPT ![n] = "wait"]
  /\ pongs' = 0
  /\ UNCHANGED <<mu, cancelled, runner, conn, port, request, subscriptions,
                 stopper, held, reused>>

PingEnds(n) ==
  /\ pinger[n] \in {"wait", "await"} /\ PingOver(n)
  /\ pinger' = [pinger EXCEPT ![n] = "ended"]
  /\ UNCHANGED <<mu, cancelled, runner, conn, port, request, pongs,
                 subscriptions, stopper, held, reused>>
-----------------------------------------------------------------------------
(* NATS callbacks: sendToDevice *)

\* A message for a live subscription starts its callback.
MessageArrives(s) ==
  /\ live[s] # None /\ s \notin sending
  /\ sending' = sending \cup {s}
  /\ UNCHANGED <<mu, cancelled, runner, conn, port, request, pinging, subs, live,
                 made, stopper, held, reused>>

\* sendFrame reads h.port under the mutex and writes to it, if there is one.
SendToDevice(s) ==
  /\ s \in sending /\ mu = "free"
  /\ sending' = sending \ {s}
  /\ UNCHANGED <<mu, cancelled, runner, conn, port, request, pinging, subs, live,
                 made, stopper, held, reused>>
-----------------------------------------------------------------------------
(* Stopping *)

\* The context the gateway was started with is cancelled by its owner.
Cancel ==
  /\ "cancel" \in Events /\ runner # "off" /\ ~cancelled
  /\ cancelled' = TRUE
  /\ UNCHANGED <<mu, runner, conn, port, request, pinging, subscriptions,
                 stopper, held, reused>>

\* Gateway.stopLocked cancels the context and calls the handler's Stop, which
\* takes h.mu.
StopBegins ==
  /\ "stop" \in Events /\ runner # "off" /\ stopper = "idle"
  /\ cancelled' = TRUE
  /\ stopper' = "lock"
  /\ UNCHANGED <<mu, runner, conn, port, request, pinging, subscriptions, held, reused>>

\* Stop, with h.mu held: every subscription in h.subs goes.
StopUnsubscribes ==
  /\ stopper = "lock" /\ mu = "free"
  /\ mu' = "stopper"
  /\ live' = [s \in Sids |-> IF \E i \in SubIds : subs[i] = s THEN None ELSE live[s]]
  /\ subs' = [i \in SubIds |-> 0]
  /\ stopper' = "disconnect"
  /\ UNCHANGED <<cancelled, runner, conn, port, request, pinging, made, sending,
                 held, reused>>
-----------------------------------------------------------------------------
Runner ==
  \/ SetRunning \/ RunReturns \/ Open \/ OpenFails \/ Connect
  \/ Read \/ ReadHandled \/ LeaveLoop \/ HandleSubDone
Device ==
  HandlePong \/ \E id \in SubIds : HandleSub(id) \/ HandleUnsub(id)
Pinger(n)   == Ping(n) \/ PingAnswered(n) \/ PingEnds(n)
Callback(s) == MessageArrives(s) \/ SendToDevice(s)
Stopper     == StopBegins \/ StopUnsubscribes

Next ==
  \/ \E p \in {"runner", "stopper"} : Disconnect(p)
  \/ Start \/ Runner \/ Device \/ Cancel \/ Stopper
  \/ \E n \in Conns : Pinger(n)
  \/ \E s \in Sids : Callback(s)

Spec == Init /\ [][Next]_vars

\* Goroutines that can run do; opening a port ends, with a port or an error; a
\* read ends, and holds finitely many frames; the loop checks its context before
\* each read, and a pinger whose select keeps finding its context done takes that branch.
\* Nobody is obliged to cancel, stop, publish or send frames.
Fairness ==
  /\ WF_vars(SetRunning \/ RunReturns \/ OpenFails \/ Connect)
  /\ WF_vars(Disconnect("runner") \/ HandleSubDone)
  /\ WF_vars(ReadHandled)
  /\ WF_vars(LeaveLoop /\ cancelled)
  /\ \A n \in Conns : SF_vars(PingEnds(n))
  /\ WF_vars(StopUnsubscribes) /\ WF_vars(Disconnect("stopper"))

FairSpec == Spec /\ Fairness
-----------------------------------------------------------------------------
(* Properties *)

TypeOK ==
  /\ mu \in {"free", "stopper"} /\ cancelled \in BOOLEAN
  /\ runner \in {"off", "begin", "top", "open", "loop", "read", "register",
                "disconnect", "return", "ended"}
  /\ conn \in 0 .. MaxConns /\ port \in {0, conn}
  /\ request \in {<<>>} \cup (SubIds \X Sids)
  /\ pinger \in [Conns -> {"none", "wait", "await", "ended"}]
  /\ pongs \in {0, 1}
  /\ subs \in [SubIds -> 0 .. MaxSubs]
  /\ live \in [Sids -> SubIds \cup {None}]
  /\ made \in 0 .. MaxSubs
  /\ sending \subseteq Sids
  /\ stopper \in {"idle", "lock", "disconnect", "stopped"}
  /\ held \subseteq SubIds /\ reused \subseteq SubIds

\* What the device has been told OK for is served by the subscription in
\* h.subs, across disconnects, late callbacks and re-subscriptions.
AcknowledgedIsServed ==
  stopper \in {"idle", "lock"} =>
    \A id \in held : subs[id] # 0 /\ live[subs[id]] = id

\* Every live NATS subscription can be reached through h.subs, so that UNSUB
\* and Stop end it and the device gets each message once, unless the device
\* subscribed again under an id that was in use.
NoOrphans ==
  \A s \in Sids :
    live[s] \notin {None} \cup reused => subs[live[s]] = s \/ request = <<live[s], s>>

\* Once its context is cancelled the handler ends, with the port closed and
\* no pinger left, whatever it was doing.
CancelEnds ==
  cancelled ~> (stopper # "idle"
                  \/ /\ runner = "ended" /\ port = 0
                     /\ \A n \in Conns : pinger[n] \in {"none", "ended"})

\* gateway.go:145: "Stop halts all port handlers."
StopReturns == stopper = "lock" ~> stopper = "stopped"
=============================================================================
