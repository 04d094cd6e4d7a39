# A verification development of GoRAI

TLA+ models of the parts of GoRAI in which goroutines, processes, messages and
hardware meet, TLC runs that check them on small instances, and TLAPS proofs for
every instance. GoRAI runs a robot as one Go program: components (drives, motors,
sensors) and services are started from a JSON description, talk over NATS, and
reach microcontrollers over serial lines.

Everything here is translated from the Go source. `PROJECT.json` maps each
definition to the lines it stands for and lists components, runs, mutants,
findings, hazards and theorems.

## The system

| part | state | operations | hard behaviours |
|---|---|---|---|
| tank drive (`components/drive/tankdrive`) | intent, its time, outputs, armed; a control loop | Start, SetIntent, Stop, Arm, Close, tick | writes outside the lock; arming and the loop share the channels; failsafe timeout; shutdown |
| remote PWM (`components/pwm/remote`) | last pulse | SetPulse, SetNormalized, Arm | publications that may fail |
| NCP (`pkg/ncp`, `components/drive/ncp`, `components/pwm/ncp`) | server: subscriptions; client: cached state | Expose, dispatch, publishState, Close; call, Start, Close | timeouts, lost messages, two paths into the cache, calls that fail half way, closing with requests queued |
| GSP framing (`pkg/gsp/frame.go`) | parser state, buffer | BuildFrame, Feed, Reset | garbage, resynchronization, lengths at the limit |
| serial gateway (`services/gateway`) | port, subscriptions by id, pong channel, mutex | Run, handleFrame, pingLoop, Stop | reconnection, callbacks against disconnection, lock order |
| robot (`pkg/robot`) | components, services, processes, contexts | Start, Stop, restart monitors | order, partial failure, processes that die during shutdown |
| mesh (`pkg/mesh`) | registry with TTL, channels, watchers' views | Register, heartbeat, deregister, watch | crashes, expiry without events, channels closed under a callback |
| telemetry (`services/telemetry`) | latest data and its age, service state, two loops | HandleSourceMessage, publish, heartbeat, Close | a loop nobody waits for; a frame and a health judged at different moments |
| remote keyboard (`components/input/remote`) | pressed keys, subscribers with bounded channels | messages, release_all, Events, Close | events sent after the unlock, overflow, channels closed while someone sends |
| dashboard (`pkg/dashboard`) | WebSocket clients, the hub's broadcast channel, a camera's status | upgrade, register, broadcast, frames, offline check, Stop | a limit checked before it is taken; browsers that stall; notifications out of order |
| configuration (`pkg/config`) | none | Validate, merge, resolve | two checks of the same graph |

The robot starts components in dependency order, hands each those it depends on
(function calls), exposes the ones it can over NCP (requests and state subjects
on NATS), starts services, and stops it all in reverse. A drive calls its two PWM
outputs; a remote PWM publishes to a device; the gateway turns publications into
frames on a serial line. A remote drive on another robot calls the drive through
NCP. Contexts carry cancellation downwards, mutexes guard each object's fields,
and writes, publications and callbacks run outside them: that is where most of
what is hard lies. `PROJECT.json` lists each such place under `hazards`.

## Modules

| module | models | its state and actions |
|---|---|---|
| `TankDrive` | one controller and its two actuators | `loop` is where the loop goroutine is, `pend` the outputs computed and not yet written, `closer` and `armPc` the goroutines of Close and Arm; an action per critical section and per write |
| `TankDriveProofs` | | theorems about `TankDrive` |
| `NcpDrive` | the NCP server of a drive or a PWM output, the component and several remotes | `capability` is which; `queue`, `serving`, `phase`: the subscription's goroutine; `drv` the state it publishes, which a drive's control loop (`Loop`) and local callers (`LocalCall`) change without it; per client its call, answer, state subscription and cache |
| `AtMostOnceCalls` | the promise of a call | made, executed at most once, returned only after it |
| `NcpDriveProofs` | | theorems about `NcpDrive` |
| `GspParser` | the parser | a step per byte; the buffer keeps old bytes, as in the code |
| `GspFraming` | the promise of a receiver of frames | only the bytes of the current frame |
| `PortHandler` | a gateway port | runner (opening, looping, handling the frames of one read), pinger per connection, callback per subscription, stopper, and the mutex where it is held across calls |
| `SerialGatewayProofs` | | theorems about `GspParser` and `PortHandler` |
| `MeshRegistry` | registrations, heartbeats and the buckets | per instance where its procedure is, the requests left, the answer it waits for and the requests on its connection; `Tick` ends an interval of heartbeats |
| `MeshWatcher` | one watcher of services | its three goroutines (callback, `watchKV`, cleanup), the buffered channel, what it knows and what its consumer has been told |
| `MeshProofs` | | theorems about `MeshRegistry` and `MeshWatcher` |
| `RobotLifecycle` | Start, Stop, topological sort, external services, and those who call components from outside | `main` is where the goroutine of Start and Stop is; `ext` holds each service's process, monitor and map entry; `remote`, `requests` and `local` are NCP handlers in a component and requests to the dashboard, before and after they have looked one up |
| `Configuration` | `Validate`: known names, and the search for cycles | functions: a record with the code's `path` and `color`, and where each name's loop is, goes one turn of a loop further per step; `RobotLifecycle` extends it and judges the same relations |
| `RobotLifecycleProofs` | | theorems about `RobotLifecycle` and `Configuration` |
| `RemoteKeyboard` | the keyboard, its callback, `release_all`, its closer, and subscribers | `callback`, `closer`, `loop`, `caller` are where each goroutine is; `mu` the mutex held while keys are released; `sending` one `sendEvent`, subscriber by subscriber; `queue` and `chan` a subscriber's channel |
| `RemoteKeyboardProofs` | | theorems about `RemoteKeyboard` |
| `Dashboard` | the hub, a handler per browser, a camera's monitor | `hub`, `left`, `late` are one broadcast, write by write; `handler` and `conn` a browser's connection; `notifying` and `offline` the notifications on their way |
| `DashboardProofs` | | theorems about `Dashboard` |
| `Telemetry` | sources, publish loop, heartbeat loop, Close | `publishing` is where the loop is between frame, health and state; `age` what it reads, at different moments |
| `TelemetryProofs` | | theorems about `Telemetry` |
| `MC...` | | instances for TLC |

`NcpDrive` implements `AtMostOnceCalls` and `GspParser` implements `GspFraming`
under refinement mappings; the abstract modules are checked as properties.
`TankDrive` stands below NCP and inside a robot: `NcpDrive` abstracts it to the state it
reports (intent, output, armed, active, at full scale or none), `RobotLifecycle` to open or closed.
`MeshRegistry` and `MeshWatcher` meet in the services bucket: `MeshWatcher` abstracts
a registration to puts, a deletion or an expiry, and announcements. `Configuration` and
`RobotLifecycle` meet in the dependency relation: what `Validate` admits is what the sort can order.

Grain. A critical section is one step, since it excludes the others; two
sections, or a section and a write, are two. Where a lock is held across calls
(`h.mu` in `PortHandler.Stop`, `externalServicesMu` in `stopExternalServices`) the
lock is a variable. Time is abstract: a timeout may fire at any moment it is armed,
except that the drive counts periods up to its timeout, which is all it compares,
and the mesh counts heartbeat intervals, of which a TTL is three and the stale
threshold two. No interval ends while a loop has a tick to take or a Put of the
service is waited for: requests are given up after 5 s of the interval's 10.
Telemetry's clock has two steps to a millisecond, so that an age cut to milliseconds
differs from an exact one. float64 values are integers in units of a fraction of full
scale, with NaN as a value of its own.

## Runs

| run | shows | bounds, and why they are enough |
|---|---|---|
| `TankDrive.cfg` | outputs coherent, slew-limited, neutral at the end, with every interleaving of the loop, commands, cancellation and Close | full scale is 4 units with a slew of 3 and a deadband of 2, so that clamping, a partial step and the deadband all occur; the timeout is one period |
| `TankDriveLive.cfg` | the failsafe stops the drive, the loop takes back what arming left, the loop ends; writes may fail | one intent at full ahead: the farthest way back to neutral |
| `NcpDrive.cfg` | calls are executed at most once; a cache is no older than the last call that succeeded; a closed server serves nothing more | a drive and a PWM output; two clients with two calls between them of `set_pulse`, `set_intent` and `arm` (arming may fail), one lost message, and one change of the component that nobody publishes (a tick of the loop, a local call): an answer can be overtaken by a state and by the other client's call, and an arming can stop half way |
| `PortHandler.cfg` | acknowledged subscriptions are served, none is orphaned, a cancelled port ends | two ids, two connections, three subscriptions: a resubscription across a reconnection |
| `GspParser.cfg` | the parser keeps its promise for every stream of bytes | bytes of two bits, payloads up to two, STX and ETX inside them; a parser is at most one frame deep, so two frames back to back is all the history there is |
| `MeshRegistry.cfg` | a service stays listed while its heartbeats are answered, leaves nothing when it deregisters, and its entry goes however it ends; Deregister returns | one instance with two channels, three requests on its way, TTL and threshold as in the code: a heartbeat given up can still be on its way when the next two are sent. One instance is enough for these: another touches only channels (`LeaveOthers`, proved) |
| `MeshWatcher.cfg` | what a watcher knows follows the bucket, its events tell what it knows, only an announcement callback can meet its closed channel, it stops, and a deletion is heard | two services, three changes, a buffer of two: an event dropped, a service deleted, expired or changed so that the query no longer matches, and both sources or one |
| `RobotLifecycle.cfg` | the sort is right and orders what `Validate` admits; what a component's users may still be doing when it is closed; components are closed once; restarts follow the policy; Stop returns; no process survives | every dependency relation over three components with none or one disabled (2048), and services of both kinds under each restart policy; two processes per service before Stop; Stop twice; one call from outside at a time, remote or through the dashboard, which may outlast the components: what the property says is said of each call by itself |
| `RemoteKeyboard.cfg` | what a subscriber makes of its events is what the keyboard says; no closed channel is sent on, none stays open; Close returns | two keys and a buffer of two: a full buffer, an eviction, and a release of two keys in between messages of both; one subscriber, since a second shares only the list |
| `Dashboard.cfg` | connections are accounted for, the limit is passed only by racing upgrades, handlers end, a browser that reads on is told of the camera | two upgrades for one place, room for one broadcast, one offline notification on its way: overtaking, dropping and a broadcast to two |
| `Telemetry.cfg` | the state is not better than its frame says of required sources and of those with data; only a late tick makes Close panic; Close returns and the loops end; the state follows the sources | a required and an optional source, a threshold of one millisecond in two steps, two callers of Close |

`PortHandlerStop.cfg` expects a violation: gateway.go:145 says "Stop halts all port
handlers", and Stop waits for the mutex it holds (port_handler.go:108).

## Further disagreements

Met while modelling. The models have these behaviours, some with other constants than the
runs', except where they concern what is left out (below); no property of a passing run
says otherwise.

- Close "stops the control loop and neutralizes output" (tankdrive.go:270), but an
  arming in progress, in another goroutine, writes after it.
- "Remove channels owned by this service" (mesh/registration.go:234): a channel's key is
  its subject, so an instance that goes deletes the descriptor which another, live
  instance of its service published after it.
- `stopExternalServices` "stops all managed external service processes" (robot.go:829): a
  monitor asleep for its two seconds restarts its service after that, because the
  context it looks at is cancelled last. `gorai run` cancels it first, by the
  signal; a program that calls Stop itself does not.
- An intent that is NaN passes clamp and slew and never ramps to neutral. The model
  carries it, the runs' intents are numbers, and `TypeCorrect` says so.
- Arming's pulse "held for one second" (pwm/remote/remote.go:386) is overwritten by the
  drive's next tick: `LoopReasserts` is the code's behaviour.
- A remote's cache is not the component. `driveState` publishes `left`, `right` and
  `active` (ncp/drive.go:49), but the server publishes only when it begins and after a
  call that succeeds (server.go:108). The control loop ramps the outputs, gives up on an
  old command and ends in neutral (tankdrive.go:141, :150, :177), the dashboard and a drive
  that owns an output call it directly, and an arming that is cut off, as one longer than
  the server's five seconds is, leaves it enabled at an arming pulse: no remote learns of
  any of this until the next successful call. `ListenersFollow` promises no more than the
  code: a state since that call (`since`), never one from before it.
- Stopping does not wait for everybody. `ncp.Server.Close` unsubscribes and leaves the
  handler it has (server.go:136), which an arming keeps in its component for seconds, and
  `Dashboard.Stop` gives up on `Shutdown` after 5 s (dashboard.go:215), which the robot logs:
  either may be in a component when that is closed. `UsersGoFirst` says exactly which.
- Telemetry's frame calls a source without data stale (aggregator.go:363), but health
  passes over an optional one (:580): the state may be running while the frame shows it
  stale. `StateNotBetterThanFrame` excepts these.
- Unsubscribing a watcher does not wait for an announcement callback, which may then send
  on the closed channel: `panicked = "callback"`. `WatcherTypeOK` says that
  `watchKV`, for which the code waits, never does.
- An entry that expires gives a watcher no event, though types.go:311 says of
  `EventServiceLeft` "deregistered or timed out".
- With the minimum capacity the GSP parser refuses the two longest payloads; the
  gateway asks for 64 bytes more.
- `Validate` admits a component that depends on a service; the sort, over components
  alone, refuses it when the robot starts. On components the two agree (`SortIsRight`).
- The keyboard never looks at `AutoReleaseOnDisconnect` (input/remote/config.go:21). Its
  "drop oldest" may drop the newest event if the reader drains the buffer between the
  two selects. A status message on its way can set a closed keyboard to connected
  again. A key recorded but not yet sent when `release_all` runs is pressed for the
  subscribers and released for the keyboard: the exception in `ViewAgrees`.
- All writes of one broadcast share a second, so that a stalled browser can get healthy
  ones dropped. `Dashboard.Stop` leaves the hub and upgraded connections alone.
- A late tick of telemetry's publish loop sets a stopped service running again; the next
  Close then closes a closed channel and panics. `SetFrameCallback` is not synchronized.

## Mutants

Each property of a passing run has a mutant in `PROJECT.json`: a definition of
the model with a plausible bug, in the module beside the definition it replaces
and marked `mutant`. TLC finds the property violated with it.

## Fairness

Weak fairness on what a goroutine does next, since Go's scheduler runs every
goroutine that can run, and on a kill once it is sent. Some cases need more.
`TankDrive`: a select with two ready branches picks one at random, so an exit that
is ready again and again is taken (strong fairness of that branch); and writes do
not fail for ever, for the failsafe is a promise about a drive that can be reached
(strong fairness of a successful write). `PortHandler`: the pinger's select, in the
same way; opening a port and a read end, with something or an error, and a read holds finitely
many frames. `RobotLifecycle`: nobody who is in a component has to leave it. `MeshRegistry`: each
goroutine, each request, which is served or given up, and time go on. `MeshWatcher`:
its own goroutines go on; the consumer is not the watcher's and owes nothing, so `WatcherStops`
holds of one that has stopped reading, and `LeftIsHeard` has as its hypothesis that it reads on
(`ReadsOn`). `RemoteKeyboard`: the closer waits
for mutexes that callbacks and commands take again and again; Go hands a mutex in the
end to whoever has waited for it (strong fairness of the closer's steps); no reader reads.
`Dashboard`: the hub's and the handlers' selects pick among ready branches at
random (strong fairness of the shutdown branch and of each handler), the hub's writes end,
at the latest when their second is over, and notifications are sent; nothing is assumed of
browsers and the camera, so `CameraIsFollowed` has the camera's frames as its
hypothesis. `Telemetry`: tickers tick, the publish loop's select takes an exit that is ready
each time (strong fairness), the heartbeat loop and each Close go on. No one is obliged to
send a command, publish, connect, signal, stop, crash or lose a message.

## Proofs

`TankDriveProofs` proves for every scale, gain, slew limit,
deadband, timeout, set of intents and of events:

- `TypeCorrect`: if every intent is a number, all values stay in range. The
  lemmas say that clamping, the slew limiter, the deadband and the mix keep the
  range; the invariant is inductive as it stands.
- `NeutralAfterLoop`, `CoherentOutputs`, `SlewIsLimited`: for a drive that is not
  being armed and whose writes succeed. `NeutralWhenDone` is not inductive: the
  loop may be between the two writes of its neutralize while Close does its own.
  `NeutralInv` adds what is at neutral at each position of the loop and that the
  closer only writes neutral. `CoherentInv` says likewise, for each position
  of the loop, which actuator has its new output, that the pending values are the
  directed current ones, and that each is within the slew limit of what it replaces;
  the action property follows from it.

For `TankDriveProofs` both hypotheses are needed: `TankDriveLive.cfg` allows arming and failing writes
and does not list these properties, and the runs on arming show why.

`MeshProofs` proves of `MeshRegistry`, for any instances, of which any may be
faulty, any channels, shared or not, any TTL and number of requests on their way:

- `TypeCorrect`: `Inv` adds to the types that a procedure has requests left exactly
  while it is busy, and waits only for one it has made.
- `DeregistrationIsClean`: `CleanLeave`. It says nothing of an instance on its way
  out, so `LeaveInv` adds, per instance, that it publishes no channel but its own
  (`Publishes`); that while it deregisters what is left begins with the entry's
  Delete, or has none, and the last request on its way is the one waited for
  (`DeletesAll`); and that once the entry is deleted, nothing else is on its way and
  the channels left in the bucket are those still to be deleted (`LeavesNothing`).
  What an instance does leaves the others' part alone (`LeaveOthers`), since it can
  only take a channel from them.
- `LiveStaysListed` (`LiveIsListed`). `Listed` follows one instance through registration and
  heartbeats: from the answer to its first put on, its entry is in the bucket and young, or a
  put on its way will renew it before it expires.

and of `MeshWatcher`, for any finite set of keys, any query and any buffer:

- `WatcherTyping`, and `WatcherKnows` (`KnownFollows`): with the changes still in the
  watcher's queue applied, what `watchKV` knows is the bucket: by induction with what
  `WatcherOrder` says of the goroutines' lives, as that a loop starts knowing nothing and only
  a loop that runs has changes waiting.
- `WatcherTells` (`EventsTell`): the same of the events, one queue further: the last event
  of a key in the channel, or else the last one taken, agrees with what is known.

`NcpDriveProofs` proves for any clients, methods, number of calls, and both capabilities,
with losses, timeouts and failed calls:

- `CallsAtMostOnce`: every step implements `AtMostOnceCalls`. The invariant says where a call
  can be: those executed, the one being served and those queued are, in this order
  and for each client, increasing and no more than it made; and an answer on its
  way, or a response about to be sent, belongs to a call that has been executed (`IInv`).
- `NoMoreService`: from the type invariant alone, since a closed server has no queue.
- `CachesFollow` (`ListenersFollow`), from `FollowInv`: the last state a client has yet
  to receive, or else its cache, is one the component has been in since the last call that
  succeeded, unless a publication is due (`NewestInv`); and so is an answer on its way to the
  only caller (`AnswerFresh`), which needs the order of calls in `IInv`. What the component
  does in between only adds to those states.

`SerialGatewayProofs` proves of `PortHandler`, for any ids, connections and subscriptions,
`Served` (`AcknowledgedIsServed`) and `NoneOrphaned` (`NoOrphans`). `IInv` relates the map of
subscriptions, the one the runner has made and not yet entered, those alive in NATS, and, until
`Stop` has unsubscribed, the ids the device was told OK for. Of `GspParser`, for every byte
width, payload limit and checksum:

- `Refinement`: with a buffer of at least `MaxPayload + 4` bytes the parser implements
  `GspFraming`. `BufInv` says, state by state, how much is in the buffer and what the length
  field read so far allows; `PartialInv` which bytes the history `Partial` of `GspFraming`
  has, position by position. Lemmas say which positions of a frame hold what. The hypothesis
  is what the gateway provides and `Capacity` alone does not.

`RobotLifecycleProofs` proves for any components, dependencies, services, restart policies
and number of stops:

- `SortCorrect`: the sort refuses exactly what it should, and puts each component after its
  dependencies. `Sound` is the loop invariant of Kahn's algorithm: each component is sorted
  or queued once, its in-degree counts its unsorted dependencies, those at zero are sorted
  or queued. A cycle never reaches zero; without one, a least unsorted component would have.
- `ValidSorts` and `SearchAndSortAgree` (`SortIsRight`): `Validate`'s search refuses the same
  configurations. `GoingOn` is the invariant of a depth first search: the gray names are those of
  the path, each of which depends on the next; what a black name depends on is black; and no
  cycle lies among the black. So a gray dependency closes a cycle (`LookGray`), and a name
  that returns closes none (`Returns`). The number of turns taken grows with each step
  (`Progress`), so that the search has ended when `Searched` stops.
- `UsersLeaveFirst` (`UsersGoFirst`), `EachClosedOnce` (`ClosedOnce`) and `RestartedAsAsked`
  (`RestartsAsAsked`), from `IInv`: what Start has yet to start goes on the order in which
  dependencies come first, and what Stop has yet to close goes back along it (`Todo`); the
  open components are the first of that order and each other one of it has been closed once
  (`Parts`); the services and the dashboard are there only while the components are
  (`Platform`); a call from outside began in a tracked component, and none through the
  dashboard is left once that has stopped without giving up (`Users`); and how often a process was started and why its monitor starts it
  again (`Process`).

The sort and the search are recursive functions of a number of steps. That such a function
exists and what holds of all its values is proved with sets of numbers in place
of formulas (`Induction`, `Recursion`), from the well-foundedness of the numbers: the
library's induction theorems, whose parameter is an operator, cannot be used.

`RemoteKeyboardProofs` proves for any keys, subscribers and buffer `NoPanic`
(`ChannelsClosedOnce`). `Typed` adds to the types that what is being sent is an event;
`ChannelInv` that the open channels are exactly those of the list, that whoever is being sent an
event is on it, and that the list stays empty once the keyboard is closed. And
`ViewsAgree` (`ViewAgrees`): `SendInv` says whose the event being sent is, `RecordInv` that what
the callback has recorded is still so, and `ViewInv` that a subscriber's view, with what waits
in its channel applied, agrees with the keyboard but for an event it has yet to be sent and
a key it was already told is released. `Reading` says of each key what the last event of it
in the channel says; the provers could not follow a fold over the channel.

`DashboardProofs` proves for any browsers, limit and capacity `NothingLeaks` (`NoneLeaks`), from
`ConnInv`, which says at each position of a handler whether its connection is open and with
the hub, and
`LimitKept` (`LimitHolds`): `LimitInv` counts the hub's clients and the upgrades in
progress together, which is what the limit forgets.

`TelemetryProofs` proves for any sources, threshold, unit of time and callers `NotBetter`
(`StateNotBetterThanFrame`): `FrameInv` says that what the frame shows as stale is, unless heard
from since, stale for the health too, by the arithmetic of cut milliseconds, or has no data still; and
`NoPanicUnlessRevived` (`OnlyRevivedPanics`): `OneCloses` says that, unless the state was revived, at
most one caller is between entering and closing `stopCh`, which is then still open.

Each of these modules proves type correctness (`Typing`, `TypeCorrect`) first; the runs list
`TypeOK` for the robot and `WatcherTypeOK` for the watcher, whose types say the most.

Liveness under fairness and ENABLED are beyond the prover: `FailsafeStops`, `LoopReasserts`,
`LoopEnds`, `CancelEnds`, `StopReturns`, `NoSurvivors`, `DeregisterReturns`, `DepartedExpire`,
`WatcherStops`, `LeftIsHeard`, `CloseReturns`, `HandlersEnd`, `CameraIsFollowed`, `ServiceEnds`
and `StateFollows` are model-checked only. Every safety property of a passing run is proved.

The theorems rest on the assumptions of the modules they are about, which TLC evaluates: a
configuration, and with it the components and services, is finite (`RobotAssumption`); a
watched set of keys is finite, and `Nil` and `None` are no key, entry or event (`WatcherAssumption`,
`MeshAssumption`); bounds are numbers.

## Plan

The components in the table above are modelled. What is left, should the project grow:

1. The key by key reads of discovery against registrations that come and go.
2. The service merger and the resolution of subjects; `node.Spin` against Shutdown.

## Not modelled

Most of the repository holds no protocol. Device drivers and sensors are I/O on a bus and a
publication. The HTTP handlers, the MJPEG streams, the command line and its templates are
formatting and I/O. Service interfaces and fakes set and get; registries and name building are
maps behind a mutex; nodes, publishers and subscribers wrap the NATS library. `archive/` is
not built, and `pkg/proxy`, with a fallback that may execute a request twice, is used from
there alone. The I2C bridge's registration is commented out.

In modelled components: the ahrs capability of NCP only reads; telemetry's commands,
rates and the fields of a frame, where several sources of one type overwrite one another; the
keyboard's modifiers and rates, and its stale detection, which logs and no more; the fields
`Validate` looks at one entry at a time; `SetStatus`, schemas and `FindServices` of the mesh;
`ChannelWatcher`, which is the watcher without announcements.

NATS, serial ports, processes and the operating system are external and modelled by what the
code relies on: NATS delivers each message at most once, in order per subscription, one
callback at a time; a killed process exits; `exec.Cmd.Wait` gives an exit to one caller.
