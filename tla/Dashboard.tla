------------------------------ MODULE Dashboard ------------------------------
(***************************************************************************)
(* The dashboard's WebSocket hub (pkg/dashboard/websocket.go) and the      *)
(* camera monitor that broadcasts on it (pkg/dashboard/cameras/monitor.go, *)
(* wired together in dashboard.go).                                        *)
(*                                                                         *)
(* Goroutines: the hub (Run), a handler per connection (HandleWebSocket),  *)
(* the NATS callback of a camera (handleFrame), the offline detection      *)
(* loop and a goroutine per notification it starts.  register and          *)
(* unregister are unbuffered: hub and handler take that step together.     *)
(* h.mu and m.mu guard single steps.  One second bounds the writes of a    *)
(* broadcast, all of them together.                                        *)
(*                                                                         *)
(* Browsers, the camera and the HTTP server are external.  A write to a    *)
(* browser that has stopped reading blocks until the second is over.       *)
(* One camera: they share nothing but the hub.                             *)
(***************************************************************************)
EXTENDS Naturals, Sequences, FiniteSets

CONSTANTS
  Clients,      \* upgrade requests
  MaxClients,   \* maxWebSocketClients
  Capacity,     \* of the channel broadcast
  MaxOffline    \* bound: offline notifications on their way

ASSUME DashboardAssumption ==
  /\ IsFiniteSet(Clients)
  /\ MaxClients \in Nat \ {0} /\ Capacity \in Nat \ {0} /\ MaxOffline \in Nat

VARIABLES
  running,     \* d.running: the server listens, the monitor is subscribed
  done,        \* the context given to Start is done
  hub,         \* where Run is: "select", "writing", "closed"
  message,     \* the status being written, or "none"
  left,        \* the clients it has still to be written to
  late,        \* the second for writing it is over
  broadcast,   \* h.broadcast
  clients,     \* h.clients
  handler,     \* [Clients -> where HandleWebSocket is]
  conn,        \* [Clients -> "none", "open", "closed" by this side]
  browser,     \* [Clients -> "reads", "stalled": does not read, "gone"]
  online,      \* state.info.Online
  notifying,   \* the NATS callback is about to notify
  offline,     \* goroutines about to notify that the camera is offline
  crowd        \* history: the most upgrades in progress at one time

hubState   == <<hub, message, left, late>>
clientList == <<clients, handler, conn>>
camera     == <<online, notifying, offline>>
vars == <<running, done, hubState, broadcast, clientList, browser, camera, crowd>>

Statuses == {"online", "offline"}

Init ==
  /\ running = TRUE /\ done = FALSE
  /\ hub = "select" /\ message = "none" /\ left = {} /\ late = FALSE
  /\ broadcast = <<>> /\ clients = {}
  /\ handler = [c \in Clients |-> "none"]
  /\ conn = [c \in Clients |-> "none"]
  /\ browser = [c \in Clients |-> "reads"]
  /\ online = FALSE /\ notifying = FALSE /\ offline = 0
  /\ crowd = 0
-----------------------------------------------------------------------------
(* HandleWebSocket *)

Upgrading == {c \in Clients : handler[c] = "upgrading"}

LetIn(c) ==
  /\ handler' = [handler EXCEPT ![c] = "upgrading"]
  /\ crowd' = IF Cardinality(Upgrading') > crowd THEN Cardinality(Upgrading') ELSE crowd

AdmitOneMore(c) ==  \* mutant: > for >=
  /\ running /\ handler[c] = "none"
  /\ IF Cardinality(clients) > MaxClients
     THEN handler' = [handler EXCEPT ![c] = "refused"] /\ UNCHANGED crowd
     ELSE LetIn(c)
  /\ UNCHANGED <<running, done, hubState, broadcast, clients, conn, browser, camera>>

\* The number of clients is looked at before the upgrade.
Admit(c) ==
  /\ running /\ handler[c] = "none"
  /\ IF Cardinality(clients) >= MaxClients
     THEN handler' = [handler EXCEPT ![c] = "refused"] /\ UNCHANGED crowd
     ELSE LetIn(c)
  /\ UNCHANGED <<running, done, hubState, broadcast, clients, conn, browser, camera>>

Accept(c) ==
  /\ handler[c] = "upgrading" /\ conn[c] = "none"
  /\ conn' = [conn EXCEPT ![c] = "open"]
  /\ UNCHANGED <<running, done, hubState, broadcast, clients, handler, browser, camera,
                 crowd>>

AcceptFails(c) ==
  /\ handler[c] = "upgrading" /\ conn[c] = "none"
  /\ handler' = [handler EXCEPT ![c] = "refused"]
  /\ UNCHANGED <<running, done, hubState, broadcast, clients, conn, browser, camera, crowd>>

Register(c) ==
  /\ handler[c] = "upgrading" /\ conn[c] = "open" /\ hub = "select"
  /\ handler' = [handler EXCEPT ![c] = "reading"]
  /\ clients' = clients \union {c}
  /\ UNCHANGED <<running, done, hubState, broadcast, conn, browser, camera, crowd>>

TurnedAwayOpen(c) ==  \* mutant: the connection is left open
  /\ handler[c] = "upgrading" /\ conn[c] = "open" /\ hub = "closed"
  /\ handler' = [handler EXCEPT ![c] = "ended"]
  /\ UNCHANGED <<running, done, hubState, broadcast, clients, conn, browser, camera, crowd>>

\* h.done is closed.
TurnedAway(c) ==
  /\ handler[c] = "upgrading" /\ conn[c] = "open" /\ hub = "closed"
  /\ handler' = [handler EXCEPT ![c] = "ended"]
  /\ conn' = [conn EXCEPT ![c] = "closed"]
  /\ UNCHANGED <<running, done, hubState, broadcast, clients, browser, camera,
                 crowd>>

ReadFails(c) ==
  /\ handler[c] = "reading" /\ (browser[c] = "gone" \/ conn[c] = "closed")
  /\ handler' = [handler EXCEPT ![c] = "leaving"]
  /\ UNCHANGED <<running, done, hubState, broadcast, clients, conn, browser, camera, crowd>>

\* The hub removes a client, if it has not done so yet.
Drop(c) ==
  IF c \in clients
  THEN clients' = clients \ {c} /\ conn' = [conn EXCEPT ![c] = "closed"]
  ELSE UNCHANGED <<clients, conn>>

Unregister(c) ==
  /\ handler[c] = "leaving" /\ hub = "select"
  /\ Drop(c)
  /\ handler' = [handler EXCEPT ![c] = "ended"]
  /\ UNCHANGED <<running, done, hubState, broadcast, browser, camera, crowd>>

HubIsDone(c) ==
  /\ handler[c] = "leaving" /\ hub = "closed"
  /\ handler' = [handler EXCEPT ![c] = "ended"]
  /\ UNCHANGED <<running, done, hubState, broadcast, clients, conn, browser, camera, crowd>>
-----------------------------------------------------------------------------
(* The hub's Run *)

Shutdown ==
  /\ hub = "select" /\ done
  /\ hub' = "closed" /\ clients' = {}
  /\ conn' = [c \in Clients |-> IF c \in clients THEN "closed" ELSE conn[c]]
  /\ UNCHANGED <<running, done, message, left, late, broadcast, handler, browser, camera,
                 crowd>>

BeginBroadcastOfNothing ==  \* mutant: the list of clients is copied to one of length 0
  /\ hub = "select" /\ broadcast # <<>>
  /\ hub' = "writing" /\ message' = Head(broadcast) /\ left' = {}
  /\ broadcast' = Tail(broadcast)
  /\ UNCHANGED <<running, done, late, clientList, browser, camera, crowd>>

BeginBroadcast ==
  /\ hub = "select" /\ broadcast # <<>>
  /\ hub' = "writing" /\ message' = Head(broadcast) /\ left' = clients
  /\ broadcast' = Tail(broadcast)
  /\ UNCHANGED <<running, done, late, clientList, browser, camera, crowd>>

Write(c) ==
  /\ hub = "writing" /\ c \in left
  /\ ~late /\ browser[c] = "reads"
  /\ left' = left \ {c}
  /\ UNCHANGED <<running, done, hub, message, late, broadcast, clientList, browser,
                 camera, crowd>>

WriteFailsAsking(c) ==  \* mutant: the hub sends to its own channel unregister
  /\ hub = "writing" /\ c \in left
  /\ late \/ browser[c] # "reads"
  /\ hub' = "unregistering"
  /\ UNCHANGED <<running, done, message, left, late, broadcast, clientList, browser,
                 camera, crowd>>

\* The browser has gone, or does not read until the second is over, or the second
\* was over before.
WriteFails(c) ==
  /\ hub = "writing" /\ c \in left
  /\ late \/ browser[c] # "reads"
  /\ Drop(c)
  /\ left' = left \ {c} /\ late' = (late \/ browser[c] = "stalled")
  /\ UNCHANGED <<running, done, hub, message, broadcast, handler, browser, camera, crowd>>

EndBroadcast ==
  /\ hub = "writing" /\ left = {}
  /\ hub' = "select" /\ message' = "none" /\ late' = FALSE
  /\ UNCHANGED <<running, done, left, broadcast, clientList, browser,
                 camera, crowd>>
-----------------------------------------------------------------------------
(* The camera monitor *)

\* Broadcast drops the message if the channel is full.
Broadcast(status) ==
  broadcast' = IF Len(broadcast) < Capacity THEN Append(broadcast, status) ELSE broadcast

\* handleFrame.  It notifies if the camera was offline, and once a second.
Frame(second) ==
  /\ running /\ ~notifying
  /\ online' = TRUE
  /\ notifying' = (~online \/ second)
  /\ UNCHANGED <<running, done, hubState, broadcast, clientList, browser, offline, crowd>>

Notify ==
  /\ notifying /\ notifying' = FALSE
  /\ Broadcast("online")
  /\ UNCHANGED <<running, done, hubState, clientList, browser, online, offline,
                 crowd>>

\* Frames have stayed away for the TTL, a time the model does not measure.
CheckOffline ==
  /\ running /\ ~done /\ online /\ offline < MaxOffline
  /\ online' = FALSE /\ offline' = offline + 1
  /\ UNCHANGED <<running, done, hubState, broadcast, clientList, browser, notifying,
                 crowd>>

NotifyOffline ==
  /\ offline > 0 /\ offline' = offline - 1
  /\ Broadcast("offline")
  /\ UNCHANGED <<running, done, hubState, clientList, browser, online, notifying,
                 crowd>>
-----------------------------------------------------------------------------
(* The robot and the world outside *)

\* Dashboard.Stop: the monitor is stopped and the server shut down, which leaves
\* upgraded connections, and the hub, alone.
Stop ==
  /\ running /\ running' = FALSE
  /\ UNCHANGED <<done, hubState, broadcast, clientList, browser, camera, crowd>>

Cancel ==
  /\ ~done /\ done' = TRUE
  /\ UNCHANGED <<running, hubState, broadcast, clientList, browser, camera, crowd>>

Turn(c, to) ==
  /\ conn[c] = "open" /\ browser[c] \notin {to, "gone"}
  /\ browser' = [browser EXCEPT ![c] = to]
  /\ UNCHANGED <<running, done, hubState, broadcast, clientList, camera, crowd>>

Leave(c) == Turn(c, "gone")
Stall(c) == Turn(c, "stalled")
-----------------------------------------------------------------------------
Handler(c) ==
  \/ Accept(c) \/ Register(c) \/ TurnedAway(c)
  \/ ReadFails(c) \/ Unregister(c) \/ HubIsDone(c)

Writing == BeginBroadcast \/ (\E c \in Clients : Write(c) \/ WriteFails(c)) \/ EndBroadcast

Next ==
  \/ \E c \in Clients : Admit(c) \/ AcceptFails(c) \/ Handler(c) \/ Leave(c) \/ Stall(c)
  \/ Shutdown \/ Writing
  \/ \E second \in BOOLEAN : Frame(second)
  \/ Notify \/ CheckOffline \/ NotifyOffline
  \/ Stop \/ Cancel

\* Goroutines go on.  A select with several ready branches picks one at random, so
\* that one which is ready again and again is taken.  Nothing is assumed of the
\* camera and the browsers.
Fairness ==
  /\ WF_vars(Writing) /\ SF_vars(Shutdown)
  /\ \A c \in Clients : SF_vars(Handler(c))
  /\ WF_vars(Notify) /\ WF_vars(NotifyOffline)

Spec == Init /\ [][Next]_vars /\ Fairness
-----------------------------------------------------------------------------
(* Properties *)

TypeOK ==
  /\ running \in BOOLEAN /\ done \in BOOLEAN
  /\ hub \in {"select", "writing", "closed"} /\ message \in Statuses \union {"none"}
  /\ left \subseteq Clients /\ late \in BOOLEAN
  /\ broadcast \in Seq(Statuses) /\ Len(broadcast) <= Capacity
  /\ clients \subseteq Clients
  /\ handler \in [Clients -> {"none", "refused", "upgrading", "reading", "leaving", "ended"}]
  /\ conn \in [Clients -> {"none", "open", "closed"}]
  /\ browser \in [Clients -> {"reads", "stalled", "gone"}]
  /\ online \in BOOLEAN /\ notifying \in BOOLEAN
  /\ offline \in 0 .. MaxOffline
  /\ crowd \in Nat

\* No connection is lost track of: when its handler has returned it is closed,
\* whoever was first, the hub that failed to write to it, the hub that shut down or
\* the handler whose read failed; and the hub keeps only open connections.
NoneLeaks ==
  \A c \in Clients : /\ handler[c] = "ended" => conn[c] = "closed"
                     /\ c \in clients => conn[c] = "open"

\* The limit on clients is exceeded only by upgrades in progress together
\* (websocket.go:112): by as many as there were besides the first.
LimitHolds == clients = {} \/ Cardinality(clients) + 1 <= MaxClients + crowd

\* A handler ends when its browser has gone or the robot's context is done, whatever
\* broadcasts fail and other browsers do: the hub never waits for a handler.
HandlersEnd ==
  \A c \in Clients : (handler[c] # "none" /\ (browser[c] = "gone" \/ done)) ~>
                       handler[c] \in {"refused", "ended"}

\* Messages are dropped when the hub is slow, and a notification that the camera is
\* offline may overtake the one that it is online again (monitor.go:281).  Still, a
\* browser that stays connected is told again and again that the camera is online
\* while its frames keep coming.
CameraIsFollowed ==
  \A c \in Clients :
    (<>[](online /\ c \in clients) /\ []<><<Frame(TRUE)>>_vars) =>
      []<><<Write(c) /\ message = "online">>_vars
=============================================================================
