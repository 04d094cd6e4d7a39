--------------------------- MODULE RemoteKeyboard ---------------------------
(***************************************************************************)
(* A keyboard published on NATS and read on the robot:                     *)
(* components/input/remote/remote.go.                                      *)
(*                                                                         *)
(* Goroutines: the NATS callback (handleMessage), whoever calls            *)
(* release_all, whoever closes the keyboard, the stale detection loop, and *)
(* per subscriber its caller of Events, the watcher of its context and its *)
(* reader.  r.mu guards the state and the pressed keys, r.subscribersMu    *)
(* the list of subscribers.  A release of all keys holds r.mu while it     *)
(* sends; a key event is sent after r.mu is free.  sendEvent holds         *)
(* subscribersMu from its first to its last subscriber, while the readers  *)
(* go on.  All other critical sections are one step.                       *)
(*                                                                         *)
(* The publisher is external and its messages may be lost, so any message  *)
(* may follow any other.  checkStale only logs.                            *)
(***************************************************************************)
EXTENDS Naturals, Sequences

CONSTANTS
  Keys,
  Subscribers,  \* the calls of Events
  BufferSize    \* config.BufferSize

ASSUME KeyboardAssumption == BufferSize \in Nat \ {0}

Event(k, down) == [type |-> "key", key |-> k, down |-> down]
Events == {Event(k, down) : k \in Keys, down \in BOOLEAN}
Statuses == {[type |-> "connected"], [type |-> "disconnected"]}
NoEvent == [type |-> "none"]

VARIABLES
  starter,     \* where New is: "new", "subscribed", "started"
  state,       \* r.state
  pressed,     \* r.pressedKeys
  mu,          \* who holds r.mu while it sends: an actor or "free"
  todo,        \* the keys its holder has still to release
  callback,    \* where handleMessage is, and its message
  sending,     \* the sendEvent in progress, whose actor holds subscribersMu
  subs,        \* r.subscribers
  closed,      \* r.closed
  chan,        \* [Subscribers -> its channel: "none", "open", "closed"]
  queue,       \* [Subscribers -> what its channel holds]
  caller,      \* [Subscribers -> where its call of Events is]
  done,        \* the subscribers whose context is done
  loop,        \* the stale detection loop: "off", "running", "ended"
  closer,      \* where Close is
  panicked,    \* a send on a closed channel, or a second close
  view,        \* history: [Subscribers -> the keys its reader believes pressed]
  told,        \* history: [Subscribers -> the keys whose last event it was given]
  raced        \* history: the keys released between Record and their sendEvent

keyboard == <<starter, state, pressed, loop>>
releases == <<mu, todo>>
channels == <<subs, closed, chan, panicked>>
readers  == <<queue, view, told>>
vars == <<keyboard, releases, callback, sending, channels, readers, caller, done,
          closer, raced>>

Idle  == [at |-> "idle", msg |-> NoEvent]
Quiet == [by |-> "nobody", event |-> NoEvent, left |-> {}, full |-> {}]

Init ==
  /\ starter = "new" /\ state = "starting" /\ pressed = {} /\ loop = "off"
  /\ mu = "free" /\ todo = {}
  /\ callback = Idle /\ sending = Quiet
  /\ subs = {} /\ closed = FALSE /\ panicked = FALSE
  /\ chan = [s \in Subscribers |-> "none"]
  /\ queue = [s \in Subscribers |-> <<>>]
  /\ caller = [s \in Subscribers |-> "idle"]
  /\ done = {} /\ closer = "idle"
  /\ view = [s \in Subscribers |-> {}]
  /\ told = [s \in Subscribers |-> {}]
  /\ raced = {}

\* What event e makes of a set of keys believed to be pressed.
Applied(keys, e) == IF e.down THEN keys \union {e.key} ELSE keys \ {e.key}

\* The keys believed pressed by a reader that believed those of v and reads q: of
\* each key, what the last event of it says.
Reading(v, q) ==
  LET about(k)   == {n \in DOMAIN q : q[n].key = k}
      last(k, n) == n \in about(k) /\ \A m \in about(k) : m <= n
  IN  {k \in Keys : IF about(k) = {} THEN k \in v
                   ELSE \E n \in DOMAIN q : last(k, n) /\ q[n].down}

\* The keys a reader of s will believe pressed when it has read what is queued.
Drained(s) == Reading(view[s], queue[s])

-----------------------------------------------------------------------------
(* Start *)

Subscribe ==
  /\ starter = "new" /\ starter' = "subscribed"
  /\ UNCHANGED <<state, pressed, loop, releases, callback, sending, channels, readers,
                 caller, done, closer, raced>>

\* A message may have been handled before the state is set.
Started ==
  /\ starter = "subscribed" /\ mu = "free"
  /\ starter' = "started" /\ state' = "connected" /\ loop' = "running"
  /\ UNCHANGED <<pressed, releases, callback, sending, channels, readers, caller, done,
                 closer, raced>>

-----------------------------------------------------------------------------
(* sendEvent: an actor with an event takes subscribersMu *)

\* The callback sends what it has recorded, the holder of r.mu releases.
ToSend(a, e) ==
  \/ a = "callback" /\ callback.at = "recorded" /\ e = callback.msg
  \/ a = mu /\ \E k \in todo : e = Event(k, FALSE)

\* A release overtakes the event the callback has recorded for the same key.
Overtakes(a, e) == a = mu /\ callback.at = "recorded" /\ callback.msg.key = e.key

BeginSend(a, e) ==
  /\ sending = Quiet /\ ToSend(a, e)
  /\ sending' = [by |-> a, event |-> e, left |-> IF closed THEN {} ELSE subs,
                 full |-> {}]
  /\ raced' = IF Overtakes(a, e) THEN raced \union {e.key} ELSE raced
  /\ UNCHANGED <<keyboard, releases, callback, channels, readers, caller, done, closer>>

Deliver(s, q, lost) ==
  /\ queue' = [queue EXCEPT ![s] = Append(q, sending.event)]
  /\ told' = [told EXCEPT ![s] = (@ \ lost) \union {sending.event.key}]
  /\ sending' = [sending EXCEPT !.left = @ \ {s}, !.full = {}]
  /\ panicked' = (panicked \/ chan[s] = "closed")

OfferBlocking(s) ==  \* mutant: the select has no default
  /\ s \in sending.left /\ sending.full = {}
  /\ Len(queue[s]) < BufferSize
  /\ Deliver(s, queue[s], {})
  /\ UNCHANGED <<keyboard, releases, callback, subs, closed, chan, view, caller, done,
                 closer, raced>>

\* The first select: s has room, or is found full.
Offer(s) ==
  /\ s \in sending.left /\ sending.full = {}
  /\ IF Len(queue[s]) < BufferSize
     THEN Deliver(s, queue[s], {})
     ELSE /\ sending' = [sending EXCEPT !.full = {s}]
          /\ UNCHANGED <<queue, told, panicked>>
  /\ UNCHANGED <<keyboard, releases, callback, subs, closed, chan, view, caller, done,
                 closer, raced>>

\* The keys whose last event is the oldest in the buffer.
Forgotten(s) ==
  {k \in Keys : /\ queue[s] # <<>> /\ queue[s][1].key = k
                /\ \A n \in 2 .. Len(queue[s]) : queue[s][n].key # k}

\* The buffer was full: drop the oldest, though the reader may have taken it and
\* others in the meantime, and send.
Evict(s) ==
  /\ sending.full = {s}
  /\ Deliver(s, IF queue[s] = <<>> THEN <<>> ELSE Tail(queue[s]), Forgotten(s))
  /\ UNCHANGED <<keyboard, releases, callback, subs, closed, chan, view, caller, done,
                 closer, raced>>

EndSend ==
  /\ sending.by # "nobody" /\ sending.left = {}
  /\ sending' = Quiet
  /\ IF sending.by = "callback" /\ callback.at = "recorded"
     THEN callback' = Idle /\ UNCHANGED todo
     ELSE todo' = todo \ {sending.event.key} /\ UNCHANGED callback
  /\ UNCHANGED <<keyboard, mu, channels, readers, caller, done, closer, raced>>

-----------------------------------------------------------------------------
(* releaseAllKeysLocked: r.mu is held until every key has been sent *)

ReleaseAll(a) ==
  /\ mu = "free" /\ mu' = a /\ todo' = pressed

Released(a, newState) ==
  /\ mu = a /\ todo = {} /\ sending.by # a
  /\ mu' = "free" /\ pressed' = {} /\ state' = newState

\* The command release_all.
CommandReleases ==
  /\ starter = "started" /\ ReleaseAll("command")
  /\ UNCHANGED <<keyboard, callback, sending, channels, readers, caller, done, closer,
                 raced>>

CommandReleased ==
  /\ Released("command", state)
  /\ UNCHANGED <<starter, loop, todo, callback, sending, channels, readers, caller,
                 done, closer, raced>>

-----------------------------------------------------------------------------
(* handleMessage *)

\* NATS runs one callback at a time, and starts none after Unsubscribe.
Arrives(m) ==
  /\ starter # "new" /\ closer \notin {"unsubscribed", "releasing", "released", "closed"}
  /\ callback = Idle
  /\ callback' = [at |-> "arrived", msg |-> m]
  /\ UNCHANGED <<keyboard, releases, sending, channels, readers, caller, done, closer,
                 raced>>

\* The first critical section for a key event.
NoteKey ==
  /\ callback.at = "arrived" /\ callback.msg.type = "key" /\ mu = "free"
  /\ state' = IF state \in {"stale", "error"} THEN "connected" ELSE state
  /\ callback' = [callback EXCEPT !.at = "noted"]
  /\ UNCHANGED <<starter, pressed, loop, releases, sending, channels, readers, caller,
                 done, closer, raced>>

RecordUnlocked ==  \* mutant: r.mu is not taken
  /\ callback.at = "noted"
  /\ pressed' = Applied(pressed, callback.msg)
  /\ raced' = raced \ {callback.msg.key}
  /\ callback' = [callback EXCEPT !.at = "recorded"]
  /\ UNCHANGED <<starter, state, loop, releases, sending, channels, readers, caller,
                 done, closer>>

\* The second.
Record ==
  /\ callback.at = "noted" /\ mu = "free"
  /\ pressed' = Applied(pressed, callback.msg)
  /\ raced' = raced \ {callback.msg.key}
  /\ callback' = [callback EXCEPT !.at = "recorded"]
  /\ UNCHANGED <<starter, state, loop, releases, sending, channels, readers, caller,
                 done, closer>>

\* handleStatusMessage.
KeyboardConnects ==
  /\ callback.at = "arrived" /\ callback.msg.type = "connected" /\ mu = "free"
  /\ state' = "connected" /\ callback' = Idle
  /\ UNCHANGED <<starter, pressed, loop, releases, sending, channels, readers, caller,
                 done, closer, raced>>

KeyboardDisconnects ==
  /\ callback.at = "arrived" /\ callback.msg.type = "disconnected"
  /\ ReleaseAll("callback") /\ state' = "stale"
  /\ callback' = [callback EXCEPT !.at = "releasing"]
  /\ UNCHANGED <<starter, pressed, loop, sending, channels, readers, caller, done,
                 closer, raced>>

DisconnectDone ==
  /\ Released("callback", state) /\ callback' = Idle
  /\ UNCHANGED <<starter, loop, todo, sending, channels, readers, caller, done, closer,
                 raced>>

-----------------------------------------------------------------------------
(* Close *)

Close ==
  /\ starter = "started" /\ closer = "idle"
  /\ closer' = "stopping"
  /\ UNCHANGED <<keyboard, releases, callback, sending, channels, readers, caller, done,
                 raced>>

StaleLoopEnds ==
  /\ closer = "stopping" /\ loop = "running"
  /\ loop' = "ended"
  /\ UNCHANGED <<starter, state, pressed, releases, callback, sending, channels, readers,
                 caller, done, closer, raced>>

\* The loop has ended.  A callback in progress is not waited for.
Unsubscribe ==
  /\ closer = "stopping" /\ loop = "ended"
  /\ closer' = "unsubscribed"
  /\ UNCHANGED <<keyboard, releases, callback, sending, channels, readers, caller, done,
                 raced>>

CloserReleases ==
  /\ closer = "unsubscribed" /\ ReleaseAll("closer")
  /\ closer' = "releasing"
  /\ UNCHANGED <<keyboard, callback, sending, channels, readers, caller, done, raced>>

CloserReleased ==
  /\ Released("closer", "closed") /\ closer' = "released"
  /\ UNCHANGED <<starter, loop, todo, callback, sending, channels, readers, caller, done,
                 raced>>

CloseChannels ==
  /\ closer = "released" /\ sending = Quiet
  /\ closer' = "closed" /\ closed' = TRUE
  /\ chan' = [s \in Subscribers |-> IF s \in subs THEN "closed" ELSE chan[s]]
  /\ panicked' = (panicked \/ \E s \in subs : chan[s] = "closed")
  /\ subs' = {}
  /\ UNCHANGED <<keyboard, releases, callback, sending, readers, caller, done, raced>>

-----------------------------------------------------------------------------
(* Subscribers *)

\* Events looks at the state first.
CallEvents(s) ==
  /\ starter = "started" /\ caller[s] = "idle" /\ mu = "free"
  /\ state \in {"connected", "stale"}
  /\ caller' = [caller EXCEPT ![s] = "checked"]
  /\ UNCHANGED <<keyboard, releases, callback, sending, channels, readers, done, closer,
                 raced>>

JoinUnchecked(s) ==  \* mutant: the state is all that is looked at
  /\ caller[s] = "checked" /\ sending = Quiet
  /\ subs' = subs \union {s}
  /\ chan' = [chan EXCEPT ![s] = "open"]
  /\ caller' = [caller EXCEPT ![s] = "joined"]
  /\ UNCHANGED <<keyboard, releases, callback, sending, closed, panicked, readers, done,
                 closer, raced>>

Join(s) ==
  /\ caller[s] = "checked" /\ sending = Quiet
  /\ IF closed
     THEN /\ caller' = [caller EXCEPT ![s] = "refused"]
          /\ UNCHANGED <<subs, chan>>
     ELSE /\ caller' = [caller EXCEPT ![s] = "joined"]
          /\ subs' = subs \union {s}
          /\ chan' = [chan EXCEPT ![s] = "open"]
  /\ UNCHANGED <<keyboard, releases, callback, sending, closed, panicked, readers, done,
                 closer, raced>>

ContextDone(s) ==
  /\ caller[s] = "joined" /\ s \notin done
  /\ done' = done \union {s}
  /\ UNCHANGED <<keyboard, releases, callback, sending, channels, readers, caller,
                 closer, raced>>

\* watchSubscriberContext, once.
Remove(s) ==
  /\ caller[s] = "joined" /\ s \in done /\ sending = Quiet
  /\ caller' = [caller EXCEPT ![s] = "removed"]
  /\ IF s \in subs
     THEN /\ subs' = subs \ {s}
          /\ panicked' = (panicked \/ chan[s] = "closed")
          /\ chan' = [chan EXCEPT ![s] = "closed"]
     ELSE UNCHANGED <<subs, panicked, chan>>
  /\ UNCHANGED <<keyboard, releases, callback, sending, closed, readers, done, closer,
                 raced>>

Read(s) ==
  /\ queue[s] # <<>>
  /\ view' = [view EXCEPT ![s] = Applied(@, Head(queue[s]))]
  /\ queue' = [queue EXCEPT ![s] = Tail(@)]
  /\ UNCHANGED <<keyboard, releases, callback, sending, channels, told, caller, done,
                 closer, raced>>

-----------------------------------------------------------------------------
Sending == \/ \E a \in {"callback", "command", "closer"}, e \in Events : BeginSend(a, e)
           \/ \E s \in Subscribers : Offer(s) \/ Evict(s)
           \/ EndSend
Callback == NoteKey \/ Record \/ KeyboardConnects \/ KeyboardDisconnects
Releasing == CommandReleased \/ DisconnectDone \/ CloserReleased
Closing == Unsubscribe \/ CloserReleases \/ CloseChannels

Next ==
  \/ Subscribe \/ Started
  \/ CommandReleases
  \/ \E m \in Events \union Statuses : Arrives(m)
  \/ Callback
  \/ Sending \/ Releasing
  \/ Close \/ StaleLoopEnds \/ Closing
  \/ \E s \in Subscribers :
       CallEvents(s) \/ Join(s) \/ ContextDone(s) \/ Remove(s) \/ Read(s)

\* Goroutines go on.  The mutexes are wanted by a stream of commands and messages:
\* Go hands one in the end to who has waited long enough, hence the strong
\* fairness of those who wait for one.
Fairness ==
  /\ WF_vars(Sending) /\ WF_vars(Releasing)
  /\ WF_vars(StaleLoopEnds) /\ SF_vars(Closing)

Spec == Init /\ [][Next]_vars /\ Fairness

-----------------------------------------------------------------------------
(* Properties *)

Actors == {"callback", "command", "closer"}

TypeOK ==
  /\ starter \in {"new", "subscribed", "started"}
  /\ state \in {"starting", "connected", "stale", "closed"}
  /\ pressed \subseteq Keys /\ todo \subseteq Keys
  /\ mu \in Actors \union {"free"}
  /\ callback \in [at : {"idle", "arrived", "noted", "recorded", "releasing"},
                   msg : Events \union Statuses \union {NoEvent}]
  /\ sending \in [by : Actors \union {"nobody"}, event : Events \union {NoEvent},
                  left : SUBSET Subscribers, full : SUBSET Subscribers]
  /\ subs \subseteq Subscribers /\ closed \in BOOLEAN /\ panicked \in BOOLEAN
  /\ chan \in [Subscribers -> {"none", "open", "closed"}]
  /\ queue \in [Subscribers -> Seq(Events)]
  /\ \A s \in Subscribers : Len(queue[s]) <= BufferSize
  /\ caller \in [Subscribers -> {"idle", "checked", "joined", "refused", "removed"}]
  /\ done \subseteq Subscribers
  /\ loop \in {"off", "running", "ended"}
  /\ closer \in {"idle", "stopping", "unsubscribed", "releasing", "released", "closed"}
  /\ view \in [Subscribers -> SUBSET Keys] /\ told \in [Subscribers -> SUBSET Keys]
  /\ raced \subseteq Keys

\* Nobody is about to change or to send anything.
Settled == mu = "free" /\ callback.at # "recorded"

\* Whatever was dropped, overtaken or sent while a subscriber came or went, what it
\* makes of its events is what the keyboard says (IsPressed), except for a key whose
\* last event was evicted from its buffer, and for one that release_all or Close
\* released after handleMessage had recorded an event of it and before it sent it
\* (remote.go:292-295).
ViewAgrees ==
  Settled => \A s \in subs : \A k \in told[s] \ raced :
               k \in Drained(s) <=> k \in pressed

\* No event is sent on a closed channel and none is closed twice, and once the
\* keyboard is closed every channel Events has handed out is closed, also that of a
\* caller who saw a state that a late status message had set to connected.
ChannelsClosedOnce ==
  /\ ~panicked
  /\ closed => \A s \in Subscribers : chan[s] # "open"

\* Close returns, with messages arriving, commands that release keys, and
\* subscribers that do not read.
CloseReturns == closer = "stopping" ~> closer = "closed"
=============================================================================
