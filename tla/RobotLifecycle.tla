--------------------------- MODULE RobotLifecycle ---------------------------
(***************************************************************************)
(* The life of a robot: Start and Stop of pkg/robot/robot.go, the order    *)
(* pkg/robot/topo.go gives the components, and the monitors that restart   *)
(* external services.                                                      *)
(*                                                                         *)
(* Start and Stop run in one goroutine; each call they make to a component *)
(* or a service is a step here, for it may take long.  A monitor goroutine *)
(* waits for each external process.  Monitors and Stop share the map       *)
(* externalServices under externalServicesMu, which Stop holds while it    *)
(* waits for the processes to exit.  Both call Wait on the same process:   *)
(* os/exec delivers the exit to one of them only.                          *)
(*                                                                         *)
(* Components are used from outside: by remote callers, in the handler of  *)
(* their subscription, and by requests to the dashboard.  The NCP server's *)
(* Close does not wait for a handler that runs, and the dashboard's Stop   *)
(* gives up after 5 s.                                                     *)
(*                                                                         *)
(* Components, services, processes and NATS are external: each is open or  *)
(* not.  Names are unique, as config.Validate (module Configuration)       *)
(* requires.                                                               *)
(***************************************************************************)
EXTENDS Naturals, Sequences, FiniteSets, SequencesExt, Configuration

CONSTANTS
  Order,        \* the components, as the configuration lists them
  Internals,    \* names of internal services
  Externals,    \* names of managed external services
  Configs,      \* the configurations considered
  MaxStarts,    \* bound: processes of an external service (and one more, behind Stop's back)
  MaxStops,     \* bound: calls of Stop
  MaxCalls,     \* bound: remote calls and requests to the dashboard at a time
  Events        \* some of AllEvents

\* What can go wrong or come from outside: NATS, a component or a service
\* fails to start; a process exits of itself; SIGTERM cancels the context Start
\* was given; Stop is called without that (cmd/gorai/commands/run.go never does).
AllEvents == {"natsFails", "componentFails", "serviceFails", "processExits",
              "signal", "stopUnsignalled"}

Components == ToSet(Order)
Services   == Internals \cup Externals
Policies   == {"always", "on-failure", "never"}

\* deps may name anything the configuration names: config.Validate allows a
\* component to depend on a service.
ConfigType ==
  [deps : [Components -> SUBSET (Components \cup Services)],
   disabled : SUBSET Components,
   services : Seq(Services),
   restart : [Externals -> Policies]]

ASSUME RobotAssumption ==
  /\ Order \in Seq(Components) /\ IsInjective(Order)
  /\ IsFiniteSet(Internals) /\ IsFiniteSet(Externals)
  /\ Components \cap Services = {} /\ Internals \cap Externals = {}
  /\ Configs \subseteq ConfigType
  /\ \A c \in Configs : IsInjective(c.services)
  /\ MaxStarts \in Nat \ {0} /\ MaxStops \in Nat /\ MaxCalls \in Nat
  /\ Events \subseteq AllEvents

VARIABLES
  config,
  main,        \* where the goroutine of Start and Stop is
  todo,        \* what Start has yet to start, or the services Stop has yet to stop
  nats,
  dashboard,   \* the dashboard takes requests
  gaveUp,      \* the dashboard's Stop gave up waiting for them
  order,       \* r.componentOrder
  tracked,     \* the components in r.components
  open,        \* components started and not closed
  closes,      \* [Components -> how often Close was called]
  exposed,     \* components whose commands the NCP server subscribes to
  services,    \* r.services: internal services started and not closed
  cancelled,   \* r.ctx is done
  mu,          \* r.externalServicesMu: "free" or "stop"
  waitingFor,  \* external services Stop has cancelled and waits for
  ext,         \* [Externals -> the service's process, monitor and map entry]
  stops,       \* calls of Stop
  remote,      \* components with a remote call in its handler; a subscription has one
  requests,    \* requests to the dashboard that have not looked up their component
  local        \* components such a request is in

vars == <<config, main, todo, nats, dashboard, gaveUp, order, tracked, open, closes, exposed,
          services, cancelled, mu, waitingFor, ext, stops, remote, requests, local>>

\* proc:    the latest process: none, running or exited (failed: badly)
\* doomed:  its own context is cancelled
\* waited:  its exit has been delivered to a Wait
\* running: ExternalService.Running of its entry; inMap: that entry is in the map
\* monitor: where the goroutine is that restarts the service
ExtType ==
  [starts : 0 .. MaxStarts + 1, proc : {"none", "running", "exited"}, failed : BOOLEAN,
   doomed : BOOLEAN, waited : BOOLEAN, running : BOOLEAN, inMap : BOOLEAN,
   monitor : {"none", "waiting", "exited", "sleeping", "restarting", "tracking", "ended"}]

Stopping == {"external", "dashboard", "services", "components", "nats"}

parts     == <<order, tracked, open, closes, exposed, services>>
platform  == <<nats, dashboard, gaveUp>>
processes == <<mu, waitingFor, ext>>
calls     == <<remote, requests, local>>

Init ==
  /\ config \in Configs
  /\ main = "new" /\ todo = <<>>
  /\ nats = FALSE /\ dashboard = FALSE /\ gaveUp = FALSE
  /\ order = <<>> /\ tracked = {} /\ open = {} /\ exposed = {} /\ services = {}
  /\ remote = {} /\ requests = 0 /\ local = {}
  /\ closes = [c \in Components |-> 0]
  /\ cancelled = FALSE /\ mu = "free" /\ waitingFor = {} /\ stops = 0
  /\ ext = [e \in Externals |->
              [starts |-> 0, proc |-> "none", failed |-> FALSE, doomed |-> FALSE,
               waited |-> FALSE, running |-> FALSE, inMap |-> FALSE, monitor |-> "none"]]
-----------------------------------------------------------------------------
(* topoSortComponents: Kahn's algorithm, one dequeue per step *)

\* The elements of s in S, in the order of s: SelectSeq, written as a recursive
\* function that proofs can expand.
Selected(s, S) ==
  LET selected[n \in 0 .. Len(s)] ==
        IF n = 0 THEN <<>>
        ELSE IF s[n] \in S THEN Append(selected[n - 1], s[n]) ELSE selected[n - 1]
  IN  selected[Len(s)]

DequeueLast(deps, s) ==   \* mutant: a component is ready when its first dependency is
  LET freed == Selected(Order, {c \in Components : /\ Head(s.queue) \in deps[c]
                                                   /\ s.inDegree[c] = Cardinality(deps[c])})
  IN  [queue    |-> Tail(s.queue) \o freed,
       sorted   |-> Append(s.sorted, Head(s.queue)),
       inDegree |-> [c \in Components |->
                       IF Head(s.queue) \in deps[c] THEN s.inDegree[c] - 1
                                                    ELSE s.inDegree[c]]]

Dequeue(deps, s) ==
  LET freed == Selected(Order, {c \in Components : Head(s.queue) \in deps[c] /\ s.inDegree[c] = 1})
  IN  [queue    |-> Tail(s.queue) \o freed,
       sorted   |-> Append(s.sorted, Head(s.queue)),
       inDegree |-> [c \in Components |->
                       IF Head(s.queue) \in deps[c] THEN s.inDegree[c] - 1
                                                    ELSE s.inDegree[c]]]

Kahn(deps) ==
  LET step[n \in 0 .. Len(Order)] ==
        IF n = 0
        THEN [queue    |-> Selected(Order, {c \in Components : deps[c] = {}}),
              sorted   |-> <<>>,
              inDegree |-> [c \in Components |-> Cardinality(deps[c])]]
        ELSE IF step[n - 1].queue = <<>> THEN step[n - 1] ELSE Dequeue(deps, step[n - 1])
  IN  step

Sorting(deps) == Kahn(deps)[Len(Order)].sorted

\* No error: no dependency is missing and none is left stuck on a cycle.
Sortable(deps) ==
  /\ \A c \in Components : deps[c] \subseteq Components
  /\ Len(Sorting(deps)) = Len(Order)
-----------------------------------------------------------------------------
(* Start *)

\* Everything up to the first component; the dashboard may fail to start.
Start ==
  /\ main = "new"
  /\ \E up \in {TRUE} \cup (IF "natsFails" \in Events THEN {FALSE} ELSE {}) :
       /\ nats' = up
       /\ dashboard' \in {FALSE, up}
       /\ IF up /\ Sortable(config.deps)
          THEN /\ main' = "starting"
               /\ todo' = Selected(Sorting(config.deps), Components \ config.disabled)
          ELSE main' = "failed" /\ UNCHANGED todo
  /\ UNCHANGED <<config, gaveUp, parts, processes, cancelled, stops, calls>>

\* startRegistryComponent: one that fails to start is not tracked, and ends Start.
StartComponent ==
  /\ main = "starting" /\ todo # <<>>
  /\ \/ /\ open' = open \cup {Head(todo)}
        /\ tracked' = tracked \cup {Head(todo)}
        /\ order' = Append(order, Head(todo))
        /\ todo' = Tail(todo)
        /\ UNCHANGED main
     \/ /\ "componentFails" \in Events
        /\ main' = "failed" /\ todo' = <<>>
        /\ UNCHANGED <<open, tracked, order>>
  /\ UNCHANGED <<config, platform, closes, exposed, services, processes, cancelled, stops, calls>>

ExposeCapabilities ==
  /\ main = "starting" /\ todo = <<>>
  /\ exposed' = tracked
  /\ main' = "serving" /\ todo' = config.services
  /\ UNCHANGED <<config, platform, order, tracked, open, closes, services, processes,
                 cancelled, stops, calls>>

\* startInternalService: a failure is logged.
StartService ==
  /\ main = "serving" /\ todo # <<>> /\ Head(todo) \in Internals
  /\ \/ services' = services \cup {Head(todo)}
     \/ "serviceFails" \in Events /\ UNCHANGED services
  /\ todo' = Tail(todo)
  /\ UNCHANGED <<config, main, platform, order, tracked, open, closes, exposed,
                 processes, cancelled, stops, calls>>

\* cmd.Start fails when the context is done; any other failure is an event.
Launched(e, by) ==
  [ext EXCEPT ![e] =
     [starts |-> @.starts + 1, proc |-> "running", failed |-> FALSE, doomed |-> FALSE,
      waited |-> FALSE, running |-> TRUE, inMap |-> by = "start",
      monitor |-> IF by = "start" THEN "waiting" ELSE "tracking"]]

StartExternal ==
  /\ main = "serving" /\ todo # <<>> /\ Head(todo) \in Externals
  /\ \/ ~cancelled /\ ext' = Launched(Head(todo), "start")
     \/ (cancelled \/ "serviceFails" \in Events) /\ UNCHANGED ext
  /\ todo' = Tail(todo)
  /\ UNCHANGED <<config, main, platform, parts, mu, waitingFor, cancelled, stops, calls>>

Started ==
  /\ main = "serving" /\ todo = <<>>
  /\ main' = "ready"
  /\ UNCHANGED <<config, todo, platform, parts, processes, cancelled, stops, calls>>
-----------------------------------------------------------------------------
(* External processes and their monitors *)

ProcessExits(e) ==
  /\ "processExits" \in Events
  /\ ext[e].proc = "running" /\ ext[e].starts < MaxStarts
  /\ \E bad \in BOOLEAN : ext' = [ext EXCEPT ![e].proc = "exited", ![e].failed = bad]
  /\ UNCHANGED <<config, main, todo, platform, parts, mu, waitingFor, cancelled, stops, calls>>

KilledIfDoomed(e) ==   \* mutant: the process's context is not derived from r.ctx
  /\ ext[e].proc = "running" /\ ext[e].doomed
  /\ ext' = [ext EXCEPT ![e].proc = "exited", ![e].failed = TRUE]
  /\ UNCHANGED <<config, main, todo, platform, parts, mu, waitingFor, cancelled, stops, calls>>

\* exec.CommandContext kills the process when its context is done, which is
\* derived from r.ctx.
Killed(e) ==
  /\ ext[e].proc = "running" /\ (cancelled \/ ext[e].doomed)
  /\ ext' = [ext EXCEPT ![e].proc = "exited", ![e].failed = TRUE]
  /\ UNCHANGED <<config, main, todo, platform, parts, mu, waitingFor, cancelled, stops, calls>>

MonitorWaits(e) ==
  /\ ext[e].monitor = "waiting" /\ ext[e].proc = "exited" /\ ~ext[e].waited
  /\ ext' = [ext EXCEPT ![e].waited = TRUE, ![e].monitor = "exited"]
  /\ UNCHANGED <<config, main, todo, platform, parts, mu, waitingFor, cancelled, stops, calls>>

RestartUnlessNever(e) ==   \* mutant: "on-failure" read as "always"
  config.restart[e] # "never"

ShouldRestart(e) ==
  \/ config.restart[e] = "always"
  \/ config.restart[e] = "on-failure" /\ ext[e].failed

MonitorDecides(e) ==
  /\ ext[e].monitor = "exited" /\ mu = "free"
  /\ ext' = [ext EXCEPT ![e].running = FALSE,
                        ![e].monitor = IF ~cancelled /\ ShouldRestart(e)
                                       THEN "sleeping" ELSE "ended"]
  /\ UNCHANGED <<config, main, todo, platform, parts, mu, waitingFor, cancelled, stops, calls>>

MonitorWakes(e) ==
  /\ ext[e].monitor = "sleeping"
  /\ ext' = [ext EXCEPT ![e].monitor = IF cancelled THEN "ended" ELSE "restarting"]
  /\ UNCHANGED <<config, main, todo, platform, parts, mu, waitingFor, cancelled, stops, calls>>

\* startExternalService again; the new entry is tracked once the lock is free.
MonitorRestarts(e) ==
  /\ ext[e].monitor = "restarting"
  /\ \/ ~cancelled /\ ext' = Launched(e, "monitor")
     \/ /\ cancelled \/ "serviceFails" \in Events
        /\ ext' = [ext EXCEPT ![e].monitor = "ended"]
  /\ UNCHANGED <<config, main, todo, platform, parts, mu, waitingFor, cancelled, stops, calls>>

MonitorTracks(e) ==
  /\ ext[e].monitor = "tracking" /\ mu = "free"
  /\ ext' = [ext EXCEPT ![e].inMap = TRUE, ![e].monitor = "waiting"]
  /\ UNCHANGED <<config, main, todo, platform, parts, mu, waitingFor, cancelled, stops, calls>>

Signal ==
  /\ "signal" \in Events /\ ~cancelled
  /\ cancelled' = TRUE
  /\ UNCHANGED <<config, main, todo, platform, parts, processes, stops, calls>>
-----------------------------------------------------------------------------
(* Those who use a component from outside *)

untouched == <<config, main, todo, platform, parts, processes, cancelled, stops>>

FewCalls == Cardinality(remote) + requests + Cardinality(local) < MaxCalls

\* The handler of a subscription begins, and from then on may be in the component,
\* as long as arming takes; it has the component at hand, tracked or not.
RemoteCall ==
  /\ FewCalls
  /\ \E c \in exposed \ remote : remote' = remote \cup {c}
  /\ UNCHANGED <<untouched, requests, local>>

RemoteReturns ==
  /\ \E c \in remote : remote' = remote \ {c}
  /\ UNCHANGED <<untouched, requests, local>>

Request ==
  /\ dashboard /\ FewCalls
  /\ requests' = requests + 1
  /\ UNCHANGED <<untouched, remote, local>>

\* lookupDrive, lookupPWM and lookupIMU ask the robot, whenever the request comes to that.
LookUp ==
  /\ requests > 0 /\ requests' = requests - 1
  /\ \/ \E c \in tracked : local' = local \cup {c}
     \/ UNCHANGED local
  /\ UNCHANGED <<untouched, remote>>

RequestReturns ==
  /\ \E c \in local : local' = local \ {c}
  /\ UNCHANGED <<untouched, remote, requests>>
-----------------------------------------------------------------------------
(* Stop *)

\* The shutdown event and ncp.Close, which unsubscribes and does not wait for a call in
\* its handler; then stopExternalServices takes the lock.
Stop ==
  /\ stops < MaxStops /\ mu = "free"
  /\ main \in {"ready", "failed", "stopped"}
  /\ "stopUnsignalled" \in Events \/ (cancelled /\ main = "ready")
  /\ stops' = stops + 1
  /\ exposed' = {}
  /\ mu' = "stop" /\ main' = "external" /\ todo' = SetToSeq({e \in Externals : ext[e].inMap})
  /\ UNCHANGED <<config, platform, order, tracked, open, closes, services, waitingFor, ext,
                 cancelled, calls>>

\* The map is ranged over in any order; the processes do not depend on it.  If the
\* monitor has meanwhile started another process, the entry is still the old one's:
\* cancelling that does nothing, and it is not running.
CancelExternal ==
  /\ main = "external" /\ todo # <<>> /\ waitingFor = {}
  /\ LET e == Head(todo) IN
       /\ ext' = [ext EXCEPT ![e].doomed = @ \/ ext[e].inMap]
       /\ waitingFor' = {x \in {e} : ext[x].running /\ ext[x].inMap}
  /\ todo' = Tail(todo)
  /\ UNCHANGED <<config, main, platform, parts, mu, cancelled, stops, calls>>

ExternalGoneIfWaited ==   \* mutant: no timeout when the monitor has the exit
  \E e \in waitingFor :
    /\ ext[e].proc = "exited" /\ ~ext[e].waited
    /\ ext' = [ext EXCEPT ![e].waited = TRUE]
    /\ waitingFor' = waitingFor \ {e}
    /\ UNCHANGED <<config, main, todo, platform, parts, mu, cancelled, stops, calls>>

\* Either this Wait is given the exit, and the monitor's never returns; or the
\* monitor has it, and this one fails at once or is given up after 5 s.
ExternalGone ==
  \E e \in waitingFor :
    /\ ext[e].proc = "exited"
    /\ ext' = [ext EXCEPT ![e].waited = TRUE]
    /\ waitingFor' = waitingFor \ {e}
    /\ UNCHANGED <<config, main, todo, platform, parts, mu, cancelled, stops, calls>>

ExternalsStoppedLocked ==   \* mutant: the lock is never released
  /\ main = "external" /\ todo = <<>> /\ waitingFor = {}
  /\ ext' = [e \in Externals |-> [ext[e] EXCEPT !.inMap = FALSE]]
  /\ main' = "dashboard"
  /\ UNCHANGED <<config, todo, platform, parts, mu, waitingFor, cancelled, stops, calls>>

ExternalsStopped ==
  /\ main = "external" /\ todo = <<>> /\ waitingFor = {}
  /\ ext' = [e \in Externals |-> [ext[e] EXCEPT !.inMap = FALSE]]
  /\ mu' = "free" /\ main' = "dashboard"
  /\ UNCHANGED <<config, todo, platform, parts, waitingFor, cancelled, stops, calls>>

StopDashboardAtOnce ==   \* mutant: http.Server.Close in place of Shutdown
  /\ main = "dashboard"
  /\ dashboard' = FALSE /\ main' = "services"
  /\ UNCHANGED <<config, todo, nats, gaveUp, parts, processes, cancelled, stops, calls>>

\* A dashboard that runs takes no more requests.  Shutdown waits for those it has, or
\* gives up after 5 s: the error is logged, the requests go on.
StopDashboard ==
  /\ main = "dashboard"
  /\ \/ (dashboard => requests = 0 /\ local = {}) /\ UNCHANGED gaveUp
     \/ dashboard /\ gaveUp' = TRUE
  /\ dashboard' = FALSE /\ main' = "services"
  /\ UNCHANGED <<config, todo, nats, parts, processes, cancelled, stops, calls>>

CloseService ==
  /\ main = "services"
  /\ \E s \in services : services' = services \ {s}
  /\ UNCHANGED <<config, main, todo, platform, order, tracked, open, closes, exposed,
                 processes, cancelled, stops, calls>>

CloseComponents ==
  /\ main = "services" /\ services = {}
  /\ main' = "components" /\ todo' = Reverse(order)
  /\ UNCHANGED <<config, platform, parts, processes, cancelled, stops, calls>>

CloseComponentAgain ==   \* mutant: no look at r.components
  /\ main = "components" /\ todo # <<>>
  /\ open' = open \ {Head(todo)}
  /\ closes' = [closes EXCEPT ![Head(todo)] = @ + 1]
  /\ todo' = Tail(todo)
  /\ UNCHANGED <<config, main, platform, order, tracked, exposed, services, processes,
                 cancelled, stops, calls>>

\* A second Stop finds the names in componentOrder still, but not in components.
CloseComponent ==
  /\ main = "components" /\ todo # <<>>
  /\ IF Head(todo) \in tracked
     THEN /\ open' = open \ {Head(todo)}
          /\ closes' = [closes EXCEPT ![Head(todo)] = @ + 1]
     ELSE UNCHANGED <<open, closes>>
  /\ todo' = Tail(todo)
  /\ UNCHANGED <<config, main, platform, order, tracked, exposed, services, processes,
                 cancelled, stops, calls>>

Cancel ==
  /\ main = "components" /\ todo = <<>>
  /\ tracked' = {} /\ cancelled' = TRUE /\ main' = "nats"
  /\ UNCHANGED <<config, todo, platform, order, open, closes, exposed, services, processes,
                 stops, calls>>

CloseNats ==
  /\ main = "nats"
  /\ nats' = FALSE /\ main' = "stopped"
  /\ UNCHANGED <<config, todo, dashboard, gaveUp, parts, processes, cancelled, stops, calls>>
-----------------------------------------------------------------------------
StartStep == \/ Start \/ StartComponent \/ ExposeCapabilities
             \/ StartService \/ StartExternal \/ Started
StopStep == \/ CancelExternal \/ ExternalGone \/ ExternalsStopped \/ StopDashboard
            \/ CloseService \/ CloseComponents \/ CloseComponent \/ Cancel \/ CloseNats
Call == RemoteCall \/ RemoteReturns \/ Request \/ LookUp \/ RequestReturns
Monitor(e) == \/ MonitorWaits(e) \/ MonitorDecides(e) \/ MonitorWakes(e)
              \/ MonitorRestarts(e) \/ MonitorTracks(e)

Next ==
  \/ StartStep \/ Signal \/ Stop \/ StopStep \/ Call
  \/ \E e \in Externals : ProcessExits(e) \/ Killed(e) \/ Monitor(e)

Spec == Init /\ [][Next]_vars

\* The goroutines run, and a kill takes effect.  Nothing is promised of the
\* processes, of a signal, of a call of Stop, or of those who use a component.
Fairness ==
  /\ WF_vars(StartStep) /\ WF_vars(StopStep)
  /\ \A e \in Externals : WF_vars(Killed(e)) /\ WF_vars(Monitor(e))

FairSpec == Spec /\ Fairness
-----------------------------------------------------------------------------
TypeOK ==
  /\ config \in Configs
  /\ main \in {"new", "failed", "starting", "serving", "ready", "stopped"} \cup Stopping
  /\ todo \in Seq(Components \cup Services)
  /\ nats \in BOOLEAN /\ dashboard \in BOOLEAN /\ gaveUp \in BOOLEAN /\ cancelled \in BOOLEAN
  /\ order \in Seq(Components) /\ IsInjective(order)
  /\ tracked \subseteq ToSet(order) /\ open \subseteq ToSet(order)
  /\ exposed \subseteq Components /\ services \subseteq Internals
  /\ closes \in [Components -> 0 .. MaxStops]
  /\ mu \in {"free", "stop"} /\ (mu = "stop" <=> main = "external")
  /\ waitingFor \subseteq Externals
  /\ ext \in [Externals -> ExtType]
  /\ stops \in 0 .. MaxStops
  /\ remote \subseteq Components /\ requests \in Nat /\ local \subseteq Components

\* The reference for the sort: no component depends on itself, even indirectly.
Acyclic(deps) ==
  \A S \in SUBSET Components : S # {} => \E c \in S : deps[c] \cap S = {}

\* The sort accepts a configuration exactly when every dependency is a component
\* and there is no cycle, and then each component comes once, after all those it
\* depends on (topo.go:10, "dependencies come before dependents").
SortsRight(deps) ==
  LET sorted == Sorting(deps) IN
  /\ Sortable(deps) <=> (\A c \in Components : deps[c] \subseteq Components) /\ Acyclic(deps)
  /\ Sortable(deps) =>
       /\ Len(sorted) = Len(Order) /\ ToSet(sorted) = Components
       /\ \A i, j \in DOMAIN sorted : sorted[i] \in deps[sorted[j]] => i < j

\* The sort is right, and what Validate accepts before the robot is built (run.go:71),
\* the sort accepts as well: a depth first search, wherever it begins, and a count of
\* in-degrees find the same cycles.  Validate alone lets a component depend on a
\* service, which the sort refuses.
SortIsRight ==
  LET onComponents == \A c \in Components : config.deps[c] \subseteq Components
      depends == [n \in Components \cup Services |->
                    IF n \in Components THEN SetToSeq(config.deps[n]) ELSE <<>>]
  IN
  main = "new" =>
    /\ SortsRight(config.deps)
    \* Nothing here makes a service depend on another part: starting at one changes nothing.
    /\ \A roots \in SetToSeqs(Components) :
         onComponents => (Valid(depends, roots) <=> Sortable(config.deps))

\* Whatever uses a part is gone before the part is, through Start, a Start that
\* fails half way, and any number of Stops: an open component has every enabled
\* component it depends on; a remote call, a request to the dashboard or a service
\* begins while the components are open; and no component, service or running
\* dashboard outlives the NATS connection.  Those already in a component when Stop
\* begins are another matter.  A request to the dashboard is out before the component
\* is closed unless Stop gave up on it.  A remote call may still be in a component that
\* is closed, as ncp.Close does not wait for it: only while the server still
\* subscribes is the component sure to be open.
UsersGoFirst ==
  /\ \A c \in open : config.deps[c] \ config.disabled \subseteq open
  /\ exposed \subseteq open /\ (services # {} \/ dashboard => tracked \subseteq open)
  /\ open # {} \/ services # {} \/ dashboard => nats
  /\ local \subseteq open \/ gaveUp
  /\ remote \subseteq open \/ exposed = {}

\* When Stop has returned, every component Start ever got running has been closed,
\* once, however often Stop is called.
ClosedOnce ==
  /\ \A c \in Components : closes[c] <= 1
  /\ main = "stopped" => open = {} /\ \A c \in ToSet(order) : closes[c] = 1

\* A process is started again only as the policy says, and never after r.ctx is done.
RestartsAsAsked ==
  [][\A e \in Externals : ext'[e].starts # ext[e].starts =>
       /\ ~cancelled
       /\ ext[e].starts > 0 => \/ config.restart[e] = "always"
                               \/ config.restart[e] = "on-failure" /\ ext[e].failed]_vars

\* Stop returns, whichever of the two Waits for a process is given its exit.
StopReturns == main \in Stopping ~> main = "stopped"

\* Once r.ctx is done, the external processes end and stay ended, the ones a
\* monitor started behind Stop's back too.
NoSurvivors == cancelled ~> [](\A e \in Externals : ext[e].proc # "running")
=============================================================================
