------------------------ MODULE RemoteKeyboardProofs ------------------------
(***************************************************************************)
(* Proofs about the remote keyboard, for any keys, any subscribers and any *)
(* size of their buffers.                                                  *)
(***************************************************************************)
EXTENDS RemoteKeyboard, SequenceTheorems, TLAPS

\* What is being sent, or is going to be, is a key event.
EventInv ==
  /\ callback.at \in {"noted", "recorded"} => callback.msg \in Events
  /\ sending.by # "nobody" => sending.event \in Events
  /\ sending.by = "nobody" => sending.left = {} /\ sending.full = {}
  /\ sending.full \subseteq sending.left

\* An event has its key and is told from a status message by its type.
LEMMA EventFields ==
  /\ \A k \in Keys : \A down \in BOOLEAN : Event(k, down) \in Events
  /\ \A e \in Events : e.type = "key" /\ e.key \in Keys /\ e.down \in BOOLEAN
  /\ \A m \in Statuses \union {NoEvent} : m.type # "key"
BY DEF Event, Events, Statuses, NoEvent

\* Delivering an event keeps the queue of its subscriber in bounds.
LEMMA Delivery ==
  ASSUME TypeOK, EventInv, NEW s \in Subscribers, s \in sending.left,
         NEW q \in Seq(Events), Len(q) < BufferSize, NEW lost, Deliver(s, q, lost)
  PROVE  /\ queue' \in [Subscribers -> Seq(Events)]
         /\ \A x \in Subscribers : Len(queue'[x]) <= BufferSize
         /\ told' \in [Subscribers -> SUBSET Keys]
         /\ sending' = [by |-> sending.by, event |-> sending.event,
                        left |-> sending.left \ {s}, full |-> {}]
         /\ panicked' \in BOOLEAN
<1>1. sending.event \in Events
  BY DEF EventInv, TypeOK
<1>2. sending.event.key \in Keys
  BY <1>1, EventFields
<1>3. Append(q, sending.event) \in Seq(Events) /\ Len(Append(q, sending.event)) <= BufferSize
  <2>1. Append(q, sending.event) \in Seq(Events) /\ Len(Append(q, sending.event)) = Len(q) + 1
    BY <1>1
  <2>2. \A n \in Nat : n < BufferSize => n + 1 <= BufferSize
    BY KeyboardAssumption
  <2>3. QED
    BY <2>1, <2>2, Len(q) \in Nat, Zenon
<1> DEFINE r == Append(q, sending.event)
<1>4. queue' = [queue EXCEPT ![s] = r]
  BY DEF Deliver
<1>5. r \in Seq(Events) /\ Len(r) <= BufferSize
  BY <1>3
<1> HIDE DEF r
<1>6. queue' \in [Subscribers -> Seq(Events)]
  BY <1>4, <1>5 DEF TypeOK
<1>7. \A x \in Subscribers : Len(queue'[x]) <= BufferSize
  BY <1>4, <1>5 DEF TypeOK
<1>8. told' \in [Subscribers -> SUBSET Keys]
  BY <1>2 DEF Deliver, TypeOK
<1>9. panicked' \in BOOLEAN
  BY DEF Deliver, TypeOK
<1>10. sending' = [by |-> sending.by, event |-> sending.event,
                   left |-> sending.left \ {s}, full |-> {}]
  BY DEF Deliver, TypeOK
<1>11. QED
  BY <1>6, <1>7, <1>8, <1>9, <1>10

Typed == TypeOK /\ EventInv

\* Every variable keeps its type, and what is sent is an event.
LEMMA TypedInvariant == Spec => []Typed
<1>1. Init => Typed
  <2> SUFFICES ASSUME Init
               PROVE  Typed
    OBVIOUS
  <2>1. \A s \in Subscribers : queue[s] = <<>>
    BY DEF Init
  <2>2. queue \in [Subscribers -> Seq(Events)] /\ \A s \in Subscribers : Len(queue[s]) <= BufferSize
    BY <2>1, KeyboardAssumption DEF Init
  <2>3. EventInv
    BY DEF Init, EventInv, Idle, Quiet
  <2>4. QED
    BY <2>2, <2>3 DEF Init, TypeOK, Typed, Idle, Quiet, Actors
<1>2. Typed /\ [Next]_vars => Typed'
  <2> SUFFICES ASSUME Typed, [Next]_vars
               PROVE  Typed'
    OBVIOUS
  <2> USE DEF Typed
  <2>1. CASE Subscribe \/ Started \/ CommandReleases
    BY <2>1 DEF Subscribe, Started, CommandReleases, ReleaseAll, TypeOK, EventInv, keyboard,
                releases, channels, readers, Actors
  <2>2. ASSUME NEW m \in Events \union Statuses, Arrives(m)
        PROVE  Typed'
    BY <2>2 DEF Arrives, TypeOK, EventInv, keyboard, releases, channels, readers
  <2>3. CASE NoteKey
    <3>1. callback.msg \in Events
      BY <2>3, EventFields DEF NoteKey, TypeOK
    <3>2. /\ callback' \in [at : {"idle", "arrived", "noted", "recorded", "releasing"},
                           msg : Events \union Statuses \union {NoEvent}]
          /\ callback'.msg \in Events
      BY <2>3, <3>1 DEF NoteKey, TypeOK
    <3>3. state' \in {"starting", "connected", "stale", "closed"}
      BY <2>3 DEF NoteKey, TypeOK
    <3>4. QED
      BY <2>3, <3>2, <3>3 DEF NoteKey, TypeOK, EventInv, releases, channels, readers
  <2>4. CASE Record
    <3>1. callback.msg \in Events /\ callback.msg.key \in Keys
      BY <2>4, EventFields DEF Record, EventInv
    <3>2. /\ callback' \in [at : {"idle", "arrived", "noted", "recorded", "releasing"},
                           msg : Events \union Statuses \union {NoEvent}]
          /\ callback'.msg \in Events
      BY <2>4, <3>1 DEF Record, TypeOK
    <3>3. pressed' \subseteq Keys /\ raced' \subseteq Keys
      BY <2>4, <3>1 DEF Record, Applied, TypeOK
    <3>4. QED
      BY <2>4, <3>2, <3>3 DEF Record, TypeOK, EventInv, releases, channels, readers
  <2>5. CASE KeyboardConnects
    <3>1. callback' = Idle /\ state' = "connected"
      BY <2>5 DEF KeyboardConnects
    <3>2. callback' \in [at : {"idle", "arrived", "noted", "recorded", "releasing"},
                        msg : Events \union Statuses \union {NoEvent}]
      BY <3>1 DEF Idle
    <3>3. QED
      BY <2>5, <3>1, <3>2 DEF KeyboardConnects, Idle, TypeOK, EventInv, releases, channels, readers
  <2>6. CASE KeyboardDisconnects
    <3>1. callback' = [callback EXCEPT !.at = "releasing"]
      BY <2>6 DEF KeyboardDisconnects
    <3>2. /\ callback' \in [at : {"idle", "arrived", "noted", "recorded", "releasing"},
                           msg : Events \union Statuses \union {NoEvent}]
          /\ callback'.at = "releasing"
      BY <3>1 DEF TypeOK
    <3>3. QED
      BY <2>6, <3>2 DEF KeyboardDisconnects, ReleaseAll, Actors, TypeOK, EventInv, channels, readers
  <2>7. CASE Releasing
    BY <2>7 DEF Releasing, CommandReleased, DisconnectDone, CloserReleased, Released, Idle,
                TypeOK, EventInv, channels, readers
  <2>8. ASSUME NEW a \in {"callback", "command", "closer"}, NEW e \in Events, BeginSend(a, e)
        PROVE  Typed'
    BY <2>8, EventFields DEF BeginSend, TypeOK, EventInv, Actors, keyboard, releases, channels,
       readers
  <2>9. ASSUME NEW s \in Subscribers, Offer(s)
        PROVE  Typed'
    <3>1. CASE Len(queue[s]) < BufferSize
      <4>1. Deliver(s, queue[s], {}) /\ queue[s] \in Seq(Events) /\ s \in sending.left
        BY <2>9, <3>1 DEF Offer, TypeOK
      <4>2. QED
        BY <2>9, <3>1, <4>1, Delivery
        DEF Offer, TypeOK, EventInv, keyboard, releases
    <3>2. CASE ~(Len(queue[s]) < BufferSize)
      <4>1. sending' = [sending EXCEPT !.full = {s}] /\ s \in sending.left
        BY <2>9, <3>2 DEF Offer
      <4>2. /\ sending' \in [by : Actors \union {"nobody"}, event : Events \union {NoEvent},
                             left : SUBSET Subscribers, full : SUBSET Subscribers]
            /\ sending'.by = sending.by /\ sending'.event = sending.event
            /\ sending'.left = sending.left /\ sending'.full = {s}
        BY <4>1 DEF TypeOK
      <4>3. UNCHANGED <<keyboard, releases, callback, channels, readers, caller, done, closer,
                        raced>>
        BY <2>9, <3>2 DEF Offer, channels, readers
      <4>4. TypeOK'
        BY <4>2, <4>3 DEF TypeOK, keyboard, releases, channels, readers
      <4>5. EventInv'
        BY <4>1, <4>2, <4>3 DEF EventInv
      <4>6. QED
        BY <4>4, <4>5
    <3>3. QED
      BY <3>1, <3>2
  <2>10. ASSUME NEW s \in Subscribers, Evict(s)
         PROVE  Typed'
    <3> DEFINE q == IF queue[s] = <<>> THEN <<>> ELSE Tail(queue[s])
    <3>1. q \in Seq(Events) /\ Len(q) < BufferSize
      <4>1. CASE queue[s] = <<>>
        BY <4>1, KeyboardAssumption
      <4>2. CASE queue[s] # <<>>
        <5>1. Tail(queue[s]) \in Seq(Events) /\ Len(Tail(queue[s])) = Len(queue[s]) - 1
          BY <4>2 DEF TypeOK
        <5>2. Len(queue[s]) \in Nat /\ Len(queue[s]) <= BufferSize
          BY DEF TypeOK
        <5>3. QED
          BY <4>2, <5>1, <5>2, KeyboardAssumption
      <4>3. QED
        BY <4>1, <4>2
    <3>2. Deliver(s, q, Forgotten(s)) /\ s \in sending.left
      BY <2>10 DEF Evict, EventInv
    <3> HIDE DEF q
    <3>3. QED
      BY <2>10, <3>1, <3>2, Delivery DEF Evict, TypeOK, EventInv, keyboard, releases
  <2>11. CASE EndSend
    BY <2>11 DEF EndSend, Idle, Quiet, TypeOK, EventInv, keyboard, channels, readers
  <2>12. CASE Close \/ StaleLoopEnds \/ Unsubscribe
    BY <2>12 DEF Close, StaleLoopEnds, Unsubscribe, TypeOK, EventInv, keyboard, releases,
                 channels, readers
  <2>13. CASE CloserReleases
    BY <2>13 DEF CloserReleases, ReleaseAll, Actors, TypeOK, EventInv, keyboard, channels,
                 readers
  <2>14. CASE CloseChannels
    <3>1. chan' \in [Subscribers -> {"none", "open", "closed"}] /\ panicked' \in BOOLEAN
      BY <2>14 DEF CloseChannels, TypeOK
    <3>2. QED
      BY <2>14, <3>1 DEF CloseChannels, TypeOK, EventInv, keyboard, releases, readers
  <2>15. ASSUME NEW s \in Subscribers, CallEvents(s) \/ ContextDone(s)
         PROVE  Typed'
    <3>1. caller' \in [Subscribers -> {"idle", "checked", "joined", "refused", "removed"}]
          /\ done' \subseteq Subscribers
      BY <2>15 DEF CallEvents, ContextDone, TypeOK
    <3>2. UNCHANGED <<keyboard, releases, callback, sending, channels, readers, closer, raced>>
      BY <2>15 DEF CallEvents, ContextDone
    <3>3. QED
      BY <3>1, <3>2 DEF TypeOK, EventInv, keyboard, releases, channels, readers
  <2>16. ASSUME NEW s \in Subscribers, Join(s)
         PROVE  Typed'
    <3>1. /\ caller' \in [Subscribers -> {"idle", "checked", "joined", "refused", "removed"}]
          /\ chan' \in [Subscribers -> {"none", "open", "closed"}] /\ subs' \subseteq Subscribers
      <4>1. CASE closed
        <5>1. caller' = [caller EXCEPT ![s] = "refused"] /\ UNCHANGED <<subs, chan>>
          BY <2>16, <4>1 DEF Join
        <5>2. QED
          BY <5>1 DEF TypeOK
      <4>2. CASE ~closed
        <5>1. /\ caller' = [caller EXCEPT ![s] = "joined"]
              /\ subs' = subs \union {s} /\ chan' = [chan EXCEPT ![s] = "open"]
          BY <2>16, <4>2 DEF Join
        <5>2. QED
          BY <5>1 DEF TypeOK
      <4>3. QED
        BY <4>1, <4>2
    <3>2. UNCHANGED <<keyboard, releases, callback, sending, closed, panicked, readers, done,
                      closer, raced>>
      BY <2>16 DEF Join
    <3>3. QED
      BY <3>1, <3>2 DEF TypeOK, EventInv, keyboard, releases, readers
  <2>17. ASSUME NEW s \in Subscribers, Remove(s)
         PROVE  Typed'
    <3>1. caller' \in [Subscribers -> {"idle", "checked", "joined", "refused", "removed"}]
      BY <2>17 DEF Remove, TypeOK
    <3>2. /\ chan' \in [Subscribers -> {"none", "open", "closed"}] /\ panicked' \in BOOLEAN
          /\ subs' \subseteq Subscribers
      BY <2>17 DEF Remove, TypeOK
    <3>3. UNCHANGED <<keyboard, releases, callback, sending, closed, readers, done, closer, raced>>
      BY <2>17 DEF Remove
    <3>4. QED
      BY <3>1, <3>2, <3>3 DEF TypeOK, EventInv, keyboard, releases, readers
  <2>18. ASSUME NEW s \in Subscribers, Read(s)
         PROVE  Typed'
    <3> DEFINE e == Head(queue[s])  q == Tail(queue[s])
    <3>1. e \in Events /\ q \in Seq(Events) /\ Len(q) <= BufferSize
      <4>1. e \in Events /\ q \in Seq(Events) /\ Len(q) = Len(queue[s]) - 1
        BY <2>18 DEF Read, TypeOK
      <4>2. Len(queue[s]) \in Nat /\ Len(queue[s]) <= BufferSize
        BY DEF TypeOK
      <4>3. QED
        BY <4>1, <4>2, KeyboardAssumption
    <3>2. view' = [view EXCEPT ![s] = Applied(view[s], e)] /\ queue' = [queue EXCEPT ![s] = q]
      BY <2>18 DEF Read
    <3> HIDE DEF e, q
    <3>3. view' \in [Subscribers -> SUBSET Keys]
      BY <3>1, <3>2, EventFields DEF Applied, TypeOK
    <3>4. queue' \in [Subscribers -> Seq(Events)] /\ \A x \in Subscribers : Len(queue'[x]) <= BufferSize
      BY <3>1, <3>2 DEF TypeOK
    <3>5. QED
      BY <2>18, <3>3, <3>4 DEF Read, TypeOK, EventInv, keyboard, releases, channels
  <2>19. CASE UNCHANGED vars
    BY <2>19 DEF TypeOK, EventInv, vars, keyboard, releases, channels, readers
  <2>20. QED
    BY <2>1, <2>2, <2>3, <2>4, <2>5, <2>6, <2>7, <2>8, <2>9, <2>10, <2>11, <2>12, <2>13,
       <2>14, <2>15, <2>16, <2>17, <2>18, <2>19
    DEF Next, Callback, Sending, Closing
<1>3. QED
  BY <1>1, <1>2, PTL DEF Spec

\* Every variable keeps its type.
THEOREM Typing == Spec => []TypeOK
BY TypedInvariant, PTL DEF Typed
-----------------------------------------------------------------------------
\* The open channels are those of the list, which has the callers that joined and
\* have not left; who is being sent an event is on it; and it stays empty once closed.
ChannelInv ==
  /\ ~panicked
  /\ \A s \in Subscribers : s \in subs <=> chan[s] = "open"
  /\ \A s \in subs : caller[s] = "joined"
  /\ sending.left \subseteq subs
  /\ closed => subs = {}

LEMMA ChannelInvariant == Spec => [](Typed /\ ChannelInv)
<1>1. Init => ChannelInv
  BY DEF Init, ChannelInv, Quiet
<1>2. Typed /\ ChannelInv /\ [Next]_vars => ChannelInv'
  <2> SUFFICES ASSUME Typed, ChannelInv, [Next]_vars
               PROVE  ChannelInv'
    OBVIOUS
  <2>1. ASSUME NEW a, NEW e, BeginSend(a, e)
        PROVE  ChannelInv'
    BY <2>1 DEF BeginSend, ChannelInv, channels
  <2>2. ASSUME NEW s \in Subscribers, NEW q, NEW lost, Deliver(s, q, lost), s \in sending.left,
               UNCHANGED <<subs, closed, chan, caller>>
        PROVE  ChannelInv'
    BY <2>2 DEF Deliver, ChannelInv, Typed, TypeOK
  <2>3. ASSUME NEW s \in Subscribers, Offer(s)
        PROVE  ChannelInv'
    <3>1. CASE Len(queue[s]) < BufferSize
      BY <2>2, <2>3, <3>1 DEF Offer
    <3>2. CASE ~(Len(queue[s]) < BufferSize)
      BY <2>3, <3>2 DEF Offer, ChannelInv, Typed, TypeOK
    <3>3. QED
      BY <3>1, <3>2
  <2>4. ASSUME NEW s \in Subscribers, Evict(s)
        PROVE  ChannelInv'
    <3>1. s \in sending.left
      BY <2>4 DEF Evict, Typed, EventInv
    <3>2. QED
      BY <2>2, <2>4, <3>1 DEF Evict
  <2>5. CASE EndSend
    BY <2>5 DEF EndSend, ChannelInv, Quiet, channels
  <2>6. CASE CloseChannels
    BY <2>6 DEF CloseChannels, ChannelInv, Quiet, Typed, TypeOK
  <2>7. ASSUME NEW s \in Subscribers, CallEvents(s) \/ ContextDone(s)
        PROVE  ChannelInv'
    BY <2>7 DEF CallEvents, ContextDone, ChannelInv, Typed, TypeOK, channels
  <2>8. ASSUME NEW s \in Subscribers, Join(s)
        PROVE  ChannelInv'
    BY <2>8 DEF Join, ChannelInv, Quiet, Typed, TypeOK
  <2>9. ASSUME NEW s \in Subscribers, Remove(s)
        PROVE  ChannelInv'
    BY <2>9 DEF Remove, ChannelInv, Quiet, Typed, TypeOK
  <2>10. CASE UNCHANGED <<channels, sending, caller>>
    BY <2>10 DEF ChannelInv, channels
  <2>11. QED
    BY <2>1, <2>3, <2>4, <2>5, <2>6, <2>7, <2>8, <2>9, <2>10
    DEF Next, Subscribe, Started, CommandReleases, Arrives, Callback, NoteKey, Record,
        KeyboardConnects, KeyboardDisconnects, Sending, Releasing, CommandReleased,
        DisconnectDone, CloserReleased, Close, StaleLoopEnds, Closing, Unsubscribe,
        CloserReleases, Read, vars
<1>3. QED
  BY <1>1, <1>2, TypedInvariant, PTL DEF Spec

\* No send on a closed channel, no second close, and none left open, whatever the
\* order in which subscribers come and go and the keyboard is closed.
THEOREM NoPanic == Spec => []ChannelsClosedOnce
<1>1. Typed /\ ChannelInv => ChannelsClosedOnce
  BY DEF ChannelInv, ChannelsClosedOnce
<1>2. QED
  BY <1>1, ChannelInvariant, PTL

-----------------------------------------------------------------------------

\* A sendEvent is the callback's, of what it has recorded, or that of the holder of
\* r.mu, of a key it has still to release.
SendInv ==
  /\ mu = "free" => todo = {}
  /\ todo \subseteq pressed
  /\ mu = "callback" <=> callback.at = "releasing"
  /\ \/ sending.by = "nobody"
     \/ sending.by = "callback" /\ callback.at = "recorded" /\ sending.event = callback.msg
     \/ sending.by = mu /\ mu # "free" /\ \E k \in todo : sending.event = Event(k, FALSE)
  /\ \A s \in Subscribers : caller[s] \notin {"joined", "removed"} => told[s] = {}

\* The holder of r.mu releases k at this moment.
Freeing(k) == sending.by = mu /\ sending.event.key = k

\* What the callback has recorded of a key is what the keyboard says of it, and a
\* release of that key has yet to begin, unless one has overtaken its event.
RecordInv ==
  callback.at = "recorded" /\ callback.msg.key \notin raced =>
    /\ callback.msg.key \in pressed <=> callback.msg.down
    /\ mu # "free" /\ callback.msg.key \in pressed =>
         callback.msg.key \in todo /\ ~Freeing(callback.msg.key)

\* The callback has recorded an event of k that it has not yet sent to s.
Pending(s, k) ==
  /\ callback.at = "recorded" /\ callback.msg.key = k
  /\ ~(sending.by = "callback" /\ s \notin sending.left)

\* The holder of r.mu has sent s the release of k, and will mark k released.
Relieved(s, k) ==
  mu # "free" /\ (k \notin todo \/ (Freeing(k) /\ s \notin sending.left))

ViewInv ==
  \A s \in subs : \A k \in told[s] \ raced :
    \/ Pending(s, k)
    \/ k \in Drained(s) <=> k \in pressed /\ ~Relieved(s, k)

-----------------------------------------------------------------------------
\* One more event: of its key it is the last.
LEMMA ReadingAppend ==
  ASSUME NEW v, NEW q \in Seq(Events), NEW e \in Events, NEW k \in Keys
  PROVE  k \in Reading(v, Append(q, e)) <=> IF e.key = k THEN e.down ELSE k \in Reading(v, q)
<1> DEFINE n == Len(q)
           r == Append(q, e)
<1>1. /\ n \in Nat /\ DOMAIN q = 1..n /\ DOMAIN r = 1..(n + 1)
      /\ \A i \in 1..n : r[i] = q[i] /\ i \in 1..(n + 1)
      /\ r[n + 1] = e /\ n + 1 \in 1..(n + 1)
      /\ \A i \in 1..(n + 1) : i \in 1..n \/ i = n + 1
  OBVIOUS
<1> HIDE DEF r, n
<1>2. CASE e.key = k
  BY <1>1, <1>2 DEF Reading
<1>3. CASE e.key # k
  <2>1. {i \in DOMAIN r : r[i].key = k} = {i \in DOMAIN q : q[i].key = k}
    BY <1>1, <1>3
  <2> QED
    BY <1>1, <1>3, <2>1 DEF Reading
<1> QED
  BY <1>2, <1>3 DEF r

\* Without its first event: another of the same key says the same, and without
\* another it is the first that tells, or what was believed before.
LEMMA ReadingTail ==
  ASSUME NEW v, NEW w, NEW q \in Seq(Events), q # <<>>, NEW k \in Keys
  PROVE  IF \E n \in 2..Len(q) : q[n].key = k
         THEN k \in Reading(w, Tail(q)) <=> k \in Reading(v, q)
         ELSE /\ k \in Reading(w, Tail(q)) <=> k \in w
              /\ k \in Reading(v, q) <=> IF q[1].key = k THEN q[1].down ELSE k \in v
<1> DEFINE n == Len(q)
           r == Tail(q)
<1>1. /\ n \in Nat \ {0} /\ DOMAIN q = 1..n /\ DOMAIN r = 1..(n - 1)
      /\ \A i \in 1..(n - 1) : r[i] = q[i + 1] /\ i + 1 \in 2..n
      /\ \A i \in 2..n : i \in 1..n /\ i - 1 \in 1..(n - 1) /\ (i - 1) + 1 = i
      /\ \A i \in 1..n : i = 1 \/ i \in 2..n
      /\ 1 \in 1..n
  OBVIOUS
<1>2. \A i \in 2..n : r[i - 1] = q[i]
  BY <1>1
<1> HIDE DEF r, n
<1>3. CASE \E i \in 2..n : q[i].key = k
  <2>1. PICK i \in 2..n : q[i].key = k
    BY <1>3
  <2>2. {j \in DOMAIN q : q[j].key = k} # {} /\ {j \in DOMAIN r : r[j].key = k} # {}
    BY <1>1, <1>2, <2>1
  <2>3. k \in Reading(v, q) <=>
          \E j \in 2..n : q[j].key = k /\ q[j].down /\ \A m \in 2..n : q[m].key = k => m <= j
    <3>1. \A j \in 1..n : (\A m \in 1..n : q[m].key = k => m <= j)
                          <=> j \in 2..n /\ \A m \in 2..n : q[m].key = k => m <= j
      <4> TAKE j \in 1..n
      <4>1. i \in 1..n /\ i > 1 /\ i \in Nat
        BY <1>1, <2>1
      <4> QED
        BY <1>1, <2>1, <4>1
    <3> QED
      BY <1>1, <2>2, <3>1 DEF Reading
  <2>4. k \in Reading(w, r) <=>
          \E j \in 1..(n - 1) : q[j + 1].key = k /\ q[j + 1].down
                                /\ \A m \in 1..(n - 1) : q[m + 1].key = k => m <= j
    BY <1>1, <2>2 DEF Reading
  <2>5. (\E j \in 1..(n - 1) : q[j + 1].key = k /\ q[j + 1].down
                               /\ \A m \in 1..(n - 1) : q[m + 1].key = k => m <= j)
        <=> \E j \in 2..n : q[j].key = k /\ q[j].down /\ \A m \in 2..n : q[m].key = k => m <= j
    <3>1. ASSUME NEW j \in 1..(n - 1), q[j + 1].key = k, q[j + 1].down,
                 \A m \in 1..(n - 1) : q[m + 1].key = k => m <= j
          PROVE  \E l \in 2..n : q[l].key = k /\ q[l].down /\ \A m \in 2..n : q[m].key = k => m <= l
      <4>1. j + 1 \in 2..n
        BY <1>1
      <4>2. \A m \in 2..n : q[m].key = k => m <= j + 1
        <5> TAKE m \in 2..n
        <5>1. m - 1 \in 1..(n - 1) /\ (m - 1) + 1 = m
          BY <1>1
        <5>2. q[m].key = k => m - 1 <= j
          BY <3>1, <5>1
        <5> QED
          BY <1>1, <5>2
      <4> QED
        BY <3>1, <4>1, <4>2
    <3>2. ASSUME NEW j \in 2..n, q[j].key = k, q[j].down, \A m \in 2..n : q[m].key = k => m <= j
          PROVE  \E l \in 1..(n - 1) : q[l + 1].key = k /\ q[l + 1].down
                                       /\ \A m \in 1..(n - 1) : q[m + 1].key = k => m <= l
      <4>1. j - 1 \in 1..(n - 1) /\ (j - 1) + 1 = j
        BY <1>1
      <4>2. \A m \in 1..(n - 1) : q[m + 1].key = k => m <= j - 1
        <5> TAKE m \in 1..(n - 1)
        <5>1. m + 1 \in 2..n
          BY <1>1
        <5>2. q[m + 1].key = k => m + 1 <= j
          BY <3>2, <5>1
        <5> QED
          BY <1>1, <5>2
      <4> QED
        BY <3>2, <4>1, <4>2
    <3> QED
      BY <3>1, <3>2
  <2> QED
    BY <1>3, <2>3, <2>4, <2>5 DEF r, n
<1>4. CASE ~\E i \in 2..n : q[i].key = k
  <2>0. ~\E i \in 2..Len(q) : q[i].key = k
    BY <1>4 DEF n
  <2>1. {j \in DOMAIN r : r[j].key = k} = {}
    BY <1>1, <1>4
  <2>2. k \in Reading(w, r) <=> k \in w
    BY <2>1 DEF Reading
  <2>3. CASE q[1].key = k
    <3>1. \A j \in 1..n : q[j].key = k <=> j = 1
      BY <1>1, <1>4, <2>3
    <3>2. k \in Reading(v, q) <=> q[1].down
      <4>1. {j \in DOMAIN q : q[j].key = k} = {1}
        BY <1>1, <3>1
      <4>2. \A j \in 1..n : q[j].key = k => 1 >= j
        BY <3>1
      <4> QED
        BY <1>1, <3>1, <4>1, <4>2, SMTT(30) DEF Reading
    <3>3. k \in Reading(w, Tail(q)) <=> k \in w
      BY <2>2 DEF r
    <3>4. k \in Reading(v, q) <=> IF q[1].key = k THEN q[1].down ELSE k \in v
      BY <2>3, <3>2
    <3> QED
      BY <2>0, <3>3, <3>4
  <2>4. CASE q[1].key # k
    <3>1. {j \in DOMAIN q : q[j].key = k} = {}
      BY <1>1, <1>4, <2>4
    <3>2. k \in Reading(v, q) <=> k \in v
      BY <3>1 DEF Reading
    <3>3. k \in Reading(w, Tail(q)) <=> k \in w
      BY <2>2 DEF r
    <3>4. k \in Reading(v, q) <=> IF q[1].key = k THEN q[1].down ELSE k \in v
      BY <2>4, <3>2
    <3> QED
      BY <2>0, <3>3, <3>4
  <2> QED
    BY <2>3, <2>4
<1> QED
  BY <1>3, <1>4

-----------------------------------------------------------------------------
Sound == Typed /\ ChannelInv

\* An event reaches one more subscriber.
LEMMA ViewDeliver ==
  ASSUME Sound, SendInv, RecordInv, ViewInv, NEW s \in Subscribers, s \in sending.left,
         NEW q \in Seq(Events), NEW lost, Deliver(s, q, lost),
         \A k \in Keys \ lost : k \in Reading(view[s], q) <=> k \in Drained(s),
         UNCHANGED <<pressed, mu, todo, callback, subs, view, raced>>
  PROVE  ViewInv'
<1> DEFINE e == sending.event
<1>0. /\ TypeOK /\ EventInv /\ s \in subs /\ sending.by # "nobody" /\ e \in Events /\ e.key \in Keys
  BY EventFields DEF Sound, Typed, ChannelInv, EventInv
<1>1. /\ queue' = [queue EXCEPT ![s] = Append(q, e)]
      /\ told' = [told EXCEPT ![s] = (told[s] \ lost) \union {e.key}]
      /\ sending'.by = sending.by /\ sending'.event = e /\ sending'.left = sending.left \ {s}
  BY <1>0 DEF Deliver, TypeOK
<1>2. SUFFICES ASSUME NEW x \in subs, NEW k \in told'[x] \ raced
               PROVE  Pending(x, k)' \/ (k \in Drained(x)' <=> k \in pressed /\ ~Relieved(x, k)')
  BY DEF ViewInv
<1>3. x \in Subscribers
  BY <1>0 DEF TypeOK
<1>4. CASE x # s
  <2>1. queue'[x] = queue[x] /\ told'[x] = told[x]
    BY <1>0, <1>1, <1>3, <1>4 DEF TypeOK
  <2>2. Drained(x)' = Drained(x)
    BY <2>1 DEF Drained
  <2>3. (Pending(x, k)' <=> Pending(x, k)) /\ (Relieved(x, k)' <=> Relieved(x, k))
    BY <1>1, <1>4 DEF Pending, Relieved, Freeing
  <2> QED
    BY <2>1, <2>2, <2>3 DEF ViewInv
<1>5. CASE x = s
  <2>1. queue'[s] = Append(q, e) /\ told'[s] = (told[s] \ lost) \union {e.key}
    BY <1>0, <1>1 DEF TypeOK
  <2>2. k \in Keys /\ s \notin sending'.left
    BY <1>0, <1>1, <1>5, <2>1 DEF TypeOK
  <2>3. Drained(s)' = Reading(view[s], Append(q, e))
    BY <2>1 DEF Drained
  <2>4. k \in Drained(s)' <=> IF e.key = k THEN e.down ELSE k \in Reading(view[s], q)
    <3> HIDE DEF e
    <3>1. k \in Reading(view[s], Append(q, e)) <=> IF e.key = k THEN e.down ELSE k \in Reading(view[s], q)
      BY <1>0, <2>2, ReadingAppend
    <3> QED
      BY <2>3, <3>1
  <2>5. CASE k # e.key
    <3>1. k \in told[s] \ raced /\ k \notin lost
      BY <1>5, <2>1, <2>5
    <3>2. k \in Drained(s)' <=> k \in Drained(s)
      BY <2>2, <2>4, <2>5, <3>1
    <3>3. Pending(s, k) => Pending(s, k)'
      BY <1>0, <1>1, <2>5 DEF Pending, SendInv
    <3>4. Relieved(s, k)' <=> Relieved(s, k)
      BY <1>1, <2>5 DEF Relieved, Freeing
    <3> QED
      BY <1>5, <3>1, <3>2, <3>3, <3>4 DEF ViewInv
  <2>6. CASE k = e.key
    <3>1. CASE sending.by = "callback" /\ callback.at = "recorded" /\ e = callback.msg
      <4>1. k \in pressed <=> e.down
        BY <2>6, <3>1 DEF RecordInv
      <4>2. mu # "callback"
        BY <3>1 DEF SendInv
      <4>3. k \in pressed => ~Relieved(s, k)'
        BY <1>1, <2>6, <3>1, <4>2 DEF RecordInv, Relieved, Freeing
      <4> QED
        BY <1>5, <2>4, <2>6, <4>1, <4>3
    <3>2. CASE sending.by = mu /\ mu # "free" /\ \E j \in todo : e = Event(j, FALSE)
      <4>1. ~e.down
        BY <3>2 DEF Event
      <4>2. Relieved(s, k)'
        BY <1>1, <2>2, <2>6, <3>2 DEF Relieved, Freeing
      <4> QED
        BY <1>5, <2>4, <2>6, <4>1, <4>2
    <3> QED
      BY <1>0, <3>1, <3>2 DEF SendInv
  <2> QED
    BY <2>5, <2>6
<1> QED
  BY <1>4, <1>5

Agree == SendInv /\ RecordInv /\ ViewInv

\* What has to do with no key that is recorded, released or sent.
LEMMA ViewQuiet ==
  ASSUME Agree, UNCHANGED <<pressed, mu, todo, sending, subs, queue, view, told, raced>>,
         \/ callback' = callback
         \/ /\ callback.at \notin {"recorded", "releasing"}
            /\ callback'.at \notin {"recorded", "releasing"},
         \A s \in Subscribers : caller'[s] \notin {"joined", "removed"} => caller[s] \notin {"joined", "removed"}
  PROVE  Agree'
<1>1. SendInv'
  <2>1. CASE callback' = callback
    BY <2>1 DEF Agree, SendInv
  <2>2. CASE /\ callback.at \notin {"recorded", "releasing"}
             /\ callback'.at \notin {"recorded", "releasing"}
    BY <2>2 DEF Agree, SendInv
  <2> QED
    BY <2>1, <2>2
<1>2. RecordInv'
  BY DEF Agree, RecordInv, Freeing
<1>3. ViewInv'
  <2>1. \A s : Drained(s)' = Drained(s)
    BY DEF Drained
  <2>2. \A s, k : (Pending(s, k)' <=> Pending(s, k)) /\ (Relieved(s, k)' <=> Relieved(s, k))
    BY DEF Pending, Relieved, Freeing
  <2> QED
    BY <2>1, <2>2 DEF Agree, ViewInv
<1> QED
  BY <1>1, <1>2, <1>3 DEF Agree

\* sendEvent begins; a release that overtakes what the callback has recorded marks it.
LEMMA ViewBegin ==
  ASSUME Sound, Agree, NEW a \in {"callback", "command", "closer"}, NEW e \in Events, BeginSend(a, e)
  PROVE  Agree'
<1>0. /\ TypeOK /\ SendInv /\ RecordInv /\ ViewInv /\ sending.by = "nobody"
      /\ closed => subs = {}
  BY DEF Agree, Sound, Typed, ChannelInv, BeginSend, Quiet
<1>1. /\ sending'.by = a /\ sending'.event = e /\ subs \subseteq sending'.left
      /\ raced \subseteq raced' /\ ToSend(a, e)
      /\ Overtakes(a, e) => e.key \in raced'
      /\ UNCHANGED <<pressed, mu, todo, callback, subs, queue, view, told, caller>>
  BY <1>0 DEF BeginSend, keyboard, releases, channels, readers
<1>2. SendInv'
  BY <1>0, <1>1 DEF SendInv, ToSend
<1>3. RecordInv'
  BY <1>0, <1>1 DEF RecordInv, Freeing, Overtakes, SendInv
<1>4. ViewInv'
  <2> SUFFICES ASSUME NEW s \in subs, NEW k \in told[s] \ raced
               PROVE  Pending(s, k)' \/ (k \in Drained(s)' <=> k \in pressed /\ ~Relieved(s, k)')
    BY <1>1 DEF ViewInv
  <2>1. Pending(s, k) => Pending(s, k)'
    BY <1>1 DEF Pending
  <2>2. Drained(s)' = Drained(s)
    BY <1>1 DEF Drained
  <2>3. Relieved(s, k)' <=> Relieved(s, k)
    <3>1. mu # "free" => mu # "nobody"
      BY <1>0 DEF TypeOK, Actors
    <3> QED
      BY <1>0, <1>1, <3>1 DEF Relieved, Freeing
  <2> QED
    BY <1>0, <2>1, <2>2, <2>3 DEF ViewInv
<1> QED
  BY <1>2, <1>3, <1>4 DEF Agree

\* An event in the buffer of one subscriber more, or the buffer is found full.
LEMMA ViewSends ==
  ASSUME Sound, Agree, NEW s \in Subscribers, Offer(s) \/ Evict(s)
  PROVE  Agree'
<1>0. /\ TypeOK /\ EventInv /\ ChannelInv /\ SendInv /\ RecordInv /\ ViewInv /\ queue[s] \in Seq(Events)
      /\ sending.left \subseteq subs /\ sending.full \subseteq sending.left
      /\ s \in subs => caller[s] = "joined"
  BY DEF Agree, Sound, Typed, ChannelInv, EventInv, TypeOK
<1>1. ASSUME NEW q \in Seq(Events), NEW lost, Deliver(s, q, lost), s \in sending.left,
             \A k \in Keys \ lost : k \in Reading(view[s], q) <=> k \in Drained(s),
             UNCHANGED <<pressed, mu, todo, callback, subs, view, raced, caller>>
      PROVE  Agree'
  <2>1. ViewInv'
    BY <1>0, <1>1, ViewDeliver
  <2>2. /\ sending'.by = sending.by /\ sending'.event = sending.event
        /\ \A x \in Subscribers : x # s => told'[x] = told[x]
    BY <1>0, <1>1 DEF Deliver, TypeOK
  <2>3. caller[s] = "joined"
    BY <1>0, <1>1
  <2>4. \A x \in Subscribers : caller'[x] \notin {"joined", "removed"} => told'[x] = {}
    BY <1>0, <1>1, <2>2, <2>3 DEF SendInv
  <2>5. SendInv'
    BY <1>0, <1>1, <2>2, <2>4 DEF SendInv
  <2>6. RecordInv'
    BY <1>0, <1>1, <2>2 DEF RecordInv, Freeing
  <2> QED
    BY <2>1, <2>5, <2>6 DEF Agree
<1>2. UNCHANGED <<pressed, mu, todo, callback, subs, view, raced, caller>>
  BY DEF Offer, Evict, keyboard, releases
<1>3. CASE Offer(s) /\ Len(queue[s]) < BufferSize
  <2>1. Deliver(s, queue[s], {}) /\ s \in sending.left
    BY <1>3 DEF Offer
  <2> QED
    BY <1>0, <1>1, <1>2, <2>1 DEF Drained
<1>4. CASE Offer(s) /\ ~(Len(queue[s]) < BufferSize)
  <2>1. sending' = [sending EXCEPT !.full = {s}] /\ UNCHANGED <<queue, told>>
    BY <1>4 DEF Offer
  <2>2. sending'.by = sending.by /\ sending'.event = sending.event /\ sending'.left = sending.left
    BY <1>0, <2>1 DEF TypeOK
  <2>3. SendInv'
    BY <1>0, <1>2, <2>1, <2>2 DEF SendInv
  <2>4. RecordInv'
    BY <1>0, <1>2, <2>2 DEF RecordInv, Freeing
  <2>5. ViewInv'
    <3>1. \A x : Drained(x)' = Drained(x)
      BY <1>2, <2>1 DEF Drained
    <3>2. \A x, k : (Pending(x, k)' <=> Pending(x, k)) /\ (Relieved(x, k)' <=> Relieved(x, k))
      BY <1>2, <2>2 DEF Pending, Relieved, Freeing
    <3> QED
      BY <1>0, <1>2, <2>1, <3>1, <3>2 DEF ViewInv
  <2> QED
    BY <2>3, <2>4, <2>5 DEF Agree
<1>5. CASE Evict(s)
  <2> DEFINE q == IF queue[s] = <<>> THEN <<>> ELSE Tail(queue[s])
  <2>1. Deliver(s, q, Forgotten(s)) /\ s \in sending.left
    BY <1>0, <1>5 DEF Evict
  <2>2. q \in Seq(Events)
    <3>1. CASE queue[s] = <<>>
      BY <3>1, EmptySeq
    <3>2. CASE queue[s] # <<>>
      BY <1>0, <3>2, HeadTailProperties
    <3> QED
      BY <3>1, <3>2
  <2>3. ASSUME NEW k \in Keys \ Forgotten(s)
        PROVE  k \in Reading(view[s], q) <=> k \in Drained(s)
    <3>1. CASE queue[s] = <<>>
      BY <3>1 DEF Drained
    <3>2. CASE queue[s] # <<>>
      <4>1. (\E n \in 2..Len(queue[s]) : queue[s][n].key = k) \/ queue[s][1].key # k
        BY <3>2 DEF Forgotten
      <4>2. IF \E n \in 2..Len(queue[s]) : queue[s][n].key = k
            THEN k \in Reading(view[s], Tail(queue[s])) <=> k \in Reading(view[s], queue[s])
            ELSE /\ k \in Reading(view[s], Tail(queue[s])) <=> k \in view[s]
                 /\ k \in Reading(view[s], queue[s]) <=> IF queue[s][1].key = k THEN queue[s][1].down ELSE k \in view[s]
        BY <1>0, <3>2, ReadingTail
      <4> QED
        BY <3>2, <4>1, <4>2 DEF Drained
    <3> QED
      BY <3>1, <3>2
  <2> HIDE DEF q
  <2> QED
    BY <1>1, <1>2, <2>1, <2>2, <2>3
<1> QED
  BY <1>3, <1>4, <1>5

\* All have it: the callback is done with it, or the key is released.
LEMMA ViewEnd ==
  ASSUME Sound, Agree, EndSend
  PROVE  Agree'
<1>0. /\ TypeOK /\ SendInv /\ RecordInv /\ ViewInv /\ sending.left = {} /\ sending.by # "nobody"
      /\ sending'.by = "nobody" /\ mu # "nobody"
      /\ UNCHANGED <<pressed, mu, subs, queue, view, told, caller, raced>>
  BY DEF Agree, Sound, Typed, TypeOK, Actors, EndSend, Quiet, keyboard, channels, readers
<1>1. \A s : Drained(s)' = Drained(s)
  BY <1>0 DEF Drained
<1>2. CASE sending.by = "callback" /\ callback.at = "recorded"
  <2>1. callback'.at = "idle" /\ todo' = todo /\ mu # "callback"
    BY <1>0, <1>2 DEF EndSend, Idle, SendInv
  <2>2. SendInv' /\ RecordInv'
    BY <1>0, <1>2, <2>1 DEF SendInv, RecordInv
  <2>3. \A s \in subs : \A k : ~Pending(s, k) /\ (Relieved(s, k)' <=> Relieved(s, k))
    BY <1>0, <1>2, <2>1 DEF Pending, Relieved, Freeing
  <2>4. ViewInv'
    BY <1>0, <1>1, <2>3 DEF ViewInv
  <2> QED
    BY <2>2, <2>4 DEF Agree
<1>3. CASE ~(sending.by = "callback" /\ callback.at = "recorded")
  <2>1. /\ todo' = todo \ {sending.event.key} /\ callback' = callback
        /\ sending.by = mu /\ mu # "free"
    BY <1>0, <1>3 DEF EndSend, SendInv
  <2>2. SendInv'
    BY <1>0, <2>1 DEF SendInv
  <2>3. RecordInv'
    BY <1>0, <2>1 DEF RecordInv, Freeing
  <2>4. \A s \in subs : \A k : (Pending(s, k) => Pending(s, k)') /\ (Relieved(s, k)' <=> Relieved(s, k))
    BY <1>0, <2>1 DEF Pending, Relieved, Freeing
  <2>5. ViewInv'
    BY <1>0, <1>1, <2>4 DEF ViewInv
  <2> QED
    BY <2>2, <2>3, <2>5 DEF Agree
<1> QED
  BY <1>2, <1>3

\* A release of all keys begins, with all of them to do.
LEMMA ViewReleaseAll ==
  ASSUME Sound, Agree, NEW a \in Actors, ReleaseAll(a),
         UNCHANGED <<pressed, sending, subs, queue, view, told, caller, raced>>,
         IF a = "callback" THEN callback.at = "arrived" /\ callback'.at = "releasing"
                           ELSE callback' = callback
  PROVE  Agree'
<1>0. /\ TypeOK /\ SendInv /\ RecordInv /\ ViewInv
      /\ mu = "free" /\ mu' = a /\ todo' = pressed /\ a # "free" /\ a # "nobody"
  BY DEF Agree, Sound, Typed, Actors, ReleaseAll
<1>1. sending.by # a
  BY <1>0 DEF SendInv
<1>2. SendInv'
  BY <1>0, <1>1 DEF SendInv
<1>3. RecordInv'
  BY <1>0, <1>1 DEF RecordInv, Freeing
<1>4. \A s, k : /\ k \in pressed => ~Relieved(s, k)'
                /\ ~Relieved(s, k)
  BY <1>0, <1>1 DEF Relieved, Freeing
<1>5. \A s, k : Pending(s, k)' <=> Pending(s, k)
  BY DEF Pending
<1>6. \A s : Drained(s)' = Drained(s)
  BY DEF Drained
<1>7. ViewInv'
  BY <1>0, <1>4, <1>5, <1>6 DEF ViewInv
<1> QED
  BY <1>2, <1>3, <1>7 DEF Agree

\* It ends, and the keyboard says that no key is pressed.
LEMMA ViewReleased ==
  ASSUME Sound, Agree, NEW a \in Actors, NEW w, Released(a, w),
         UNCHANGED <<todo, sending, subs, queue, view, told, caller, raced>>,
         IF a = "callback" THEN callback'.at = "idle" ELSE callback' = callback
  PROVE  Agree'
<1>0. /\ TypeOK /\ SendInv /\ RecordInv /\ ViewInv
      /\ mu = a /\ todo = {} /\ sending.by # a /\ mu' = "free" /\ pressed' = {}
      /\ a # "free" /\ a # "nobody"
  BY DEF Agree, Sound, Typed, Actors, Released
<1>1. SendInv'
  BY <1>0 DEF SendInv
<1>2. RecordInv'
  BY <1>0 DEF RecordInv, SendInv
<1>3. \A s, k : Relieved(s, k) /\ ~Relieved(s, k)'
  BY <1>0 DEF Relieved
<1>4. \A s, k : Pending(s, k)' <=> Pending(s, k)
  BY <1>0 DEF Pending, SendInv
<1>5. \A s : Drained(s)' = Drained(s)
  BY DEF Drained
<1>6. ViewInv'
  BY <1>0, <1>3, <1>4, <1>5 DEF ViewInv
<1> QED
  BY <1>1, <1>2, <1>6 DEF Agree

\* handleMessage records a key.
LEMMA ViewRecord ==
  ASSUME Sound, Agree, Record
  PROVE  Agree'
<1>0. /\ TypeOK /\ SendInv /\ RecordInv /\ ViewInv
      /\ callback.at = "noted" /\ mu = "free" /\ callback'.at = "recorded" /\ callback'.msg = callback.msg
      /\ callback.msg \in Events
      /\ pressed' = Applied(pressed, callback.msg) /\ raced' = raced \ {callback.msg.key}
      /\ UNCHANGED <<mu, todo, sending, subs, queue, view, told, caller>>
  BY DEF Agree, Sound, Typed, EventInv, TypeOK, Record, releases, channels, readers
<1>1. sending.by = "nobody" /\ todo = {}
  <2>1. sending.by # "free"
    BY <1>0 DEF TypeOK, Actors
  <2> QED
    BY <1>0 DEF SendInv
<1>2. SendInv'
  BY <1>0, <1>1 DEF SendInv
<1>3. callback.msg.key \in pressed' <=> callback.msg.down
  BY <1>0 DEF Applied
<1>4. RecordInv'
  BY <1>0, <1>3 DEF RecordInv
<1>5. ViewInv'
  <2> SUFFICES ASSUME NEW s \in subs, NEW k \in told[s] \ raced'
               PROVE  Pending(s, k)' \/ (k \in Drained(s)' <=> k \in pressed' /\ ~Relieved(s, k)')
    BY <1>0 DEF ViewInv
  <2>1. CASE k = callback.msg.key
    BY <1>0, <1>1, <2>1 DEF Pending
  <2>2. CASE k # callback.msg.key
    <3>1. Drained(s)' = Drained(s) /\ ~Pending(s, k)
      BY <1>0 DEF Drained, Pending
    <3>2. ~Relieved(s, k)' /\ ~Relieved(s, k)
      BY <1>0 DEF Relieved
    <3>3. k \in pressed' <=> k \in pressed
      BY <1>0, <2>2 DEF Applied
    <3>4. k \in told[s] \ raced
      BY <1>0, <2>2
    <3> QED
      BY <1>0, <3>1, <3>2, <3>3, <3>4 DEF ViewInv
  <2> QED
    BY <2>1, <2>2
<1> QED
  BY <1>2, <1>4, <1>5 DEF Agree

\* Subscribers come and go between two sends, and one that comes has been told nothing.
LEMMA ViewMembers ==
  ASSUME Sound, Agree, CloseChannels \/ \E s \in Subscribers : Join(s) \/ Remove(s)
  PROVE  Agree'
<1>0. /\ TypeOK /\ SendInv /\ RecordInv /\ ViewInv
      /\ UNCHANGED <<pressed, mu, todo, callback, sending, queue, view, told, raced>>
  BY DEF Agree, Sound, Typed, CloseChannels, Join, Remove, keyboard, releases, readers
<1>1. /\ \A x \in subs' : x \in subs \/ told[x] = {}
      /\ \A x \in Subscribers : caller'[x] \notin {"joined", "removed"} => caller[x] \notin {"joined", "removed"}
  <2>1. CASE CloseChannels
    BY <2>1 DEF CloseChannels
  <2>2. ASSUME NEW s \in Subscribers, Join(s)
        PROVE  /\ \A x \in subs' : x \in subs \/ told[x] = {}
               /\ \A x \in Subscribers : caller'[x] \notin {"joined", "removed"} => caller[x] \notin {"joined", "removed"}
    <3>1. caller[s] = "checked" /\ told[s] = {} /\ subs' \subseteq subs \union {s}
      BY <1>0, <2>2 DEF Join, SendInv
    <3>2. \A x \in Subscribers : x # s => caller'[x] = caller[x]
      BY <1>0, <2>2 DEF Join, TypeOK
    <3> QED
      BY <3>1, <3>2
  <2>3. ASSUME NEW s \in Subscribers, Remove(s)
        PROVE  /\ \A x \in subs' : x \in subs \/ told[x] = {}
               /\ \A x \in Subscribers : caller'[x] \notin {"joined", "removed"} => caller[x] \notin {"joined", "removed"}
    <3>1. subs' \subseteq subs /\ caller' = [caller EXCEPT ![s] = "removed"]
      BY <2>3 DEF Remove
    <3> QED
      BY <1>0, <3>1 DEF TypeOK
  <2> QED
    BY <2>1, <2>2, <2>3
<1>2. SendInv'
  BY <1>0, <1>1 DEF SendInv
<1>3. RecordInv'
  BY <1>0 DEF RecordInv, Freeing
<1>4. ViewInv'
  <2>1. \A s : Drained(s)' = Drained(s)
    BY <1>0 DEF Drained
  <2>2. \A s, k : (Pending(s, k)' <=> Pending(s, k)) /\ (Relieved(s, k)' <=> Relieved(s, k))
    BY <1>0 DEF Pending, Relieved, Freeing
  <2> QED
    BY <1>0, <1>1, <2>1, <2>2 DEF ViewInv
<1> QED
  BY <1>2, <1>3, <1>4 DEF Agree

\* A reader takes an event, and believes it.
LEMMA ViewRead ==
  ASSUME Sound, Agree, NEW s \in Subscribers, Read(s)
  PROVE  Agree'
<1>0. /\ TypeOK /\ SendInv /\ RecordInv /\ ViewInv
      /\ queue[s] \in Seq(Events) /\ queue[s] # <<>>
      /\ UNCHANGED <<pressed, mu, todo, callback, sending, subs, told, caller, raced>>
  BY DEF Agree, Sound, Typed, TypeOK, Read, keyboard, releases, channels
<1>1. /\ view' = [view EXCEPT ![s] = Applied(view[s], Head(queue[s]))]
      /\ queue' = [queue EXCEPT ![s] = Tail(queue[s])]
  BY DEF Read
<1>2. SendInv'
  BY <1>0 DEF SendInv
<1>3. RecordInv'
  BY <1>0 DEF RecordInv, Freeing
<1>4. ASSUME NEW k \in Keys
      PROVE  k \in Drained(s)' <=> k \in Drained(s)
  <2> DEFINE q == queue[s]
             w == Applied(view[s], Head(q))
  <2>1. Drained(s)' = Reading(w, Tail(q)) /\ Drained(s) = Reading(view[s], q)
    BY <1>0, <1>1 DEF Drained, TypeOK
  <2>2. k \in w <=> IF q[1].key = k THEN q[1].down ELSE k \in view[s]
    BY <1>0, HeadTailProperties DEF Applied
  <2> HIDE DEF q, w
  <2>3. q \in Seq(Events) /\ q # <<>>
    BY <1>0 DEF q
  <2> QED
    BY <2>1, <2>2, <2>3, ReadingTail
<1>5. ASSUME NEW x \in subs, NEW k \in Keys
      PROVE  k \in Drained(x)' <=> k \in Drained(x)
  <2>1. CASE x = s
    BY <1>4, <2>1
  <2>2. CASE x # s
    <3>1. view'[x] = view[x] /\ queue'[x] = queue[x]
      BY <1>0, <1>1, <2>2 DEF TypeOK
    <3> QED
      BY <3>1 DEF Drained
  <2> QED
    BY <2>1, <2>2
<1>6. ViewInv'
  <2>1. \A x, k : (Pending(x, k)' <=> Pending(x, k)) /\ (Relieved(x, k)' <=> Relieved(x, k))
    BY <1>0 DEF Pending, Relieved, Freeing
  <2>2. \A x \in subs : told[x] \subseteq Keys
    BY <1>0 DEF TypeOK
  <2> QED
    BY <1>0, <1>5, <2>1, <2>2 DEF ViewInv
<1> QED
  BY <1>2, <1>3, <1>6 DEF Agree

LEMMA ViewNext == Sound /\ Agree /\ [Next]_vars => Agree'
<1> SUFFICES ASSUME Sound, Agree, [Next]_vars PROVE Agree'
  OBVIOUS
<1>0. TypeOK
  BY DEF Sound, Typed
<1>1. CASE Subscribe \/ Started \/ Close \/ StaleLoopEnds \/ Unsubscribe
  BY <1>1, ViewQuiet DEF Subscribe, Started, Close, StaleLoopEnds, Unsubscribe, keyboard, releases,
                         channels, readers
<1>2. CASE NoteKey \/ KeyboardConnects \/ \E m \in Events \union Statuses : Arrives(m)
  <2>1. /\ callback.at \notin {"recorded", "releasing"}
        /\ callback'.at \notin {"recorded", "releasing"}
    BY <1>0, <1>2 DEF NoteKey, KeyboardConnects, Arrives, Idle, TypeOK
  <2>2. UNCHANGED <<pressed, mu, todo, sending, subs, queue, view, told, raced, caller>>
    BY <1>2 DEF NoteKey, KeyboardConnects, Arrives, keyboard, releases, channels, readers
  <2> QED
    BY <2>1, <2>2, ViewQuiet
<1>3. ASSUME NEW s \in Subscribers, CallEvents(s) \/ ContextDone(s)
      PROVE  Agree'
  <2>1. \A x \in Subscribers : caller'[x] \notin {"joined", "removed"} => caller[x] \notin {"joined", "removed"}
    BY <1>0, <1>3 DEF CallEvents, ContextDone, TypeOK
  <2>2. UNCHANGED <<pressed, mu, todo, callback, sending, subs, queue, view, told, raced>>
    BY <1>3 DEF CallEvents, ContextDone, keyboard, releases, channels, readers
  <2> QED
    BY <2>1, <2>2, ViewQuiet
<1>4. CASE CommandReleases \/ KeyboardDisconnects \/ CloserReleases
  <2>1. UNCHANGED <<pressed, sending, subs, queue, view, told, caller, raced>>
    BY <1>4 DEF CommandReleases, KeyboardDisconnects, CloserReleases, keyboard, channels, readers
  <2>2. CASE CommandReleases
    BY <2>1, <2>2, ViewReleaseAll DEF CommandReleases, Actors
  <2>3. CASE KeyboardDisconnects
    <3>1. callback.at = "arrived" /\ callback'.at = "releasing" /\ ReleaseAll("callback")
      BY <1>0, <2>3 DEF KeyboardDisconnects, TypeOK
    <3> QED
      BY <2>1, <3>1, ViewReleaseAll DEF Actors
  <2>4. CASE CloserReleases
    BY <2>1, <2>4, ViewReleaseAll DEF CloserReleases, Actors
  <2> QED
    BY <1>4, <2>2, <2>3, <2>4
<1>5. CASE CommandReleased \/ DisconnectDone \/ CloserReleased
  <2>1. UNCHANGED <<todo, sending, subs, queue, view, told, caller, raced>>
    BY <1>5 DEF CommandReleased, DisconnectDone, CloserReleased, channels, readers
  <2>2. CASE CommandReleased
    BY <2>1, <2>2, ViewReleased DEF CommandReleased, Actors
  <2>3. CASE DisconnectDone
    BY <2>1, <2>3, ViewReleased DEF DisconnectDone, Actors, Idle
  <2>4. CASE CloserReleased
    BY <2>1, <2>4, ViewReleased DEF CloserReleased, Actors
  <2> QED
    BY <1>5, <2>2, <2>3, <2>4
<1>6. CASE UNCHANGED vars
  BY <1>6, ViewQuiet DEF vars, keyboard, releases, channels, readers
<1> QED
  BY <1>1, <1>2, <1>3, <1>4, <1>5, <1>6, ViewBegin, ViewSends, ViewEnd, ViewRecord, ViewMembers, ViewRead
  DEF Next, Callback, Sending, Releasing, Closing

\* Once nobody is about to change or to send anything, what a subscriber makes of its
\* events is what the keyboard says, but for the keys it was never told of, those whose
\* last event was evicted, and those a release overtook (handleMessage, sendEvent,
\* releaseAllKeysLocked).
THEOREM ViewsAgree == Spec => []ViewAgrees
<1>1. Init => Agree
  BY DEF Init, Agree, SendInv, RecordInv, ViewInv, Idle, Quiet
<1>2. Agree => ViewAgrees
  <2> SUFFICES ASSUME Agree, Settled, NEW s \in subs, NEW k \in told[s] \ raced
               PROVE  k \in Drained(s) <=> k \in pressed
    BY DEF ViewAgrees
  <2>1. ~Pending(s, k) /\ ~Relieved(s, k)
    BY DEF Settled, Pending, Relieved
  <2> QED
    BY <2>1 DEF Agree, ViewInv
<1>3. Spec => []Sound
  BY ChannelInvariant, PTL DEF Sound
<1>4. Spec => []Agree
  BY <1>1, <1>3, ViewNext, PTL DEF Spec
<1> QED
  BY <1>2, <1>4, PTL
=============================================================================
