----------------------------- MODULE MeshWatcher -----------------------------
(***************************************************************************)
(* A watcher of services (pkg/mesh/watcher.go): what a consumer of its     *)
(* events learns of the registry, and how it is stopped.                   *)
(*                                                                         *)
(* Two sources feed the buffered channel events, as the options say: the   *)
(* goroutine watchKV, which follows the services bucket and remembers what *)
(* it has seen in known, and the callback of the subscription to           *)
(* announcements.  Neither waits for room: a full buffer drops the event.  *)
(* A third goroutine closes the channel once the context is done.          *)
(*                                                                         *)
(* The bucket, which expires entries without telling its watchers, the     *)
(* services that announce themselves, and the consumer are external.       *)
(* WatchChannels is the same without announcements, over another bucket.   *)
(***************************************************************************)
EXTENDS Naturals, Sequences, FiniteSets, SequencesExt

CONSTANTS
  Keys,          \* of instances of services: each registers once
  Descriptors,   \* what a descriptor may say, as far as a query can tell
  Wanted,        \* the descriptors q.Matches
  Found,         \* the states of the bucket a watcher may find
  Buffer,        \* WithBufferSize
  MaxNews,       \* bound: changes of the bucket, and announcements
  Nil

ASSUME WatcherAssumption ==
  /\ Wanted \subseteq Descriptors
  /\ Found \subseteq [Keys -> Descriptors \cup {"absent", "deleted", "expired"}]
  /\ Buffer \in Nat /\ MaxNews \in Nat
  /\ IsFiniteSet(Keys)
  /\ Nil \notin Keys \cup Descriptors
  /\ Nil \notin [type : {"join", "update", "leave"}, key : Keys]
  /\ Descriptors \cap {"absent", "deleted", "expired"} = {}

VARIABLES
  options,     \* WithKVWatch, WithAnnounceWatch
  bucket,      \* the services bucket
  news,        \* how often it has changed, or a service announced itself
  said,        \* what each service has announced
  ctxDone,     \* watchCtx is done
  subscribed, heard, sending,  \* the subscription, what waits for its callback, and the callback
  loop, updates, known,        \* the goroutine watchKV, what waits for it, and its map
  events, closed,              \* w.events; closed with w.done
  panicked,    \* who sent on the closed channel
  view,        \* the services the consumer has been told of
  dropped      \* history: an event found the buffer full

contextVars == <<options, ctxDone>>
bucketVars  == <<bucket, news>>
annVars     == <<subscribed, heard, sending>>
kvVars      == <<loop, updates, known>>
chanVars    == <<events, closed, panicked, dropped>>
watcherVars == <<contextVars, bucketVars, said, annVars, kvVars, chanVars, view>>

\* Without either source there is nothing to watch.
Options == {o \in [kv : BOOLEAN, announce : BOOLEAN] : o.kv \/ o.announce}

Event(type, k)  == [type |-> type, key |-> k]
Update(k, d)    == [key |-> k, entry |-> d]

WatcherInit ==
  /\ options \in Options
  /\ bucket \in Found /\ news = 0
  /\ said = [k \in Keys |-> IF bucket[k] = "absent" THEN "nothing"
                            ELSE IF bucket[k] = "deleted" THEN "leave" ELSE "join"]
  /\ ctxDone = FALSE
  /\ subscribed = options.announce /\ heard = <<>> /\ sending = Nil
  /\ loop = (IF options.kv THEN "starting" ELSE "ended")
  /\ updates = <<>> /\ known = [k \in Keys |-> Nil]
  /\ events = <<>> /\ closed = FALSE /\ panicked = Nil /\ dropped = FALSE
  /\ view = {}

-----------------------------------------------------------------------------
(* The mesh around the watcher.                                            *)

\* watchKV's subscription to the bucket, while there is one.
Notify(u) == updates' = IF loop = "on" THEN Append(updates, u) ELSE updates

Revise(k, d) ==
  /\ news < MaxNews /\ news' = news + 1
  /\ bucket' = [bucket EXCEPT ![k] = d]
  /\ UNCHANGED <<contextVars, said, annVars, loop, known, chanVars, view>>

\* A registration or a heartbeat; the entry of a live service may have expired.
PutEntry(k, d) ==
  /\ bucket[k] # "deleted" /\ said[k] # "leave"
  /\ Revise(k, d) /\ Notify(Update(k, d))

DeleteEntry(k) ==
  /\ bucket[k] \notin {"absent", "deleted"}
  /\ Revise(k, "deleted") /\ Notify(Update(k, "deleted"))

ExpireEntry(k) ==
  /\ bucket[k] \in Descriptors
  /\ Revise(k, "expired") /\ UNCHANGED updates

\* After the Put, and after the Delete, or its failure.
Announce(k) ==
  /\ bucket[k] # "absent" /\ said[k] # "leave"
  /\ news < MaxNews /\ news' = news + 1
  /\ said' = [said EXCEPT ![k] = IF @ = "nothing" THEN "join" ELSE "leave"]
  /\ heard' = IF subscribed THEN Append(heard, Event(said'[k], k)) ELSE heard
  /\ UNCHANGED <<contextVars, bucket, subscribed, sending, kvVars, chanVars, view>>

-----------------------------------------------------------------------------
(* The channel of events.                                                  *)

\* A select with a default; on a closed channel a send panics.
Emit(who, e) ==
  /\ panicked' = IF closed THEN who ELSE panicked
  /\ events'   = IF ~closed /\ Len(events) < Buffer THEN Append(events, e) ELSE events
  /\ dropped'  = (dropped \/ Len(events) >= Buffer)
  /\ UNCHANGED closed

Told(v, e) == IF e.type = "leave" THEN v \ {e.key} ELSE v \cup {e.key}

\* The consumer takes an event.
Receive ==
  /\ events # <<>>
  /\ view' = Told(view, Head(events)) /\ events' = Tail(events)
  /\ UNCHANGED <<contextVars, bucketVars, said, annVars, kvVars, closed, panicked, dropped>>

-----------------------------------------------------------------------------
(* Announcements: the callback, before its send and at it.                 *)

CallbackBegins(d) ==
  /\ heard # <<>> /\ sending = Nil
  /\ heard' = Tail(heard)
  /\ sending' = IF d \in Wanted THEN Head(heard) ELSE Nil
  /\ UNCHANGED <<contextVars, bucketVars, said, subscribed, kvVars, chanVars, view>>

CallbackSends ==
  /\ sending # Nil
  /\ Emit("callback", sending)
  /\ sending' = Nil
  /\ UNCHANGED <<contextVars, bucketVars, said, subscribed, heard, kvVars, view>>

-----------------------------------------------------------------------------
(* watchKV.                                                                *)

\* WatchAll delivers the last revision of every key, markers of deletion
\* included, and then what changes; it may fail, and the loop then ends.
LoopStarts ==
  /\ loop = "starting"
  /\ \/ /\ loop' = "on"
        /\ updates' \in SetToSeqs({Update(k, bucket[k]) : k \in
                          {j \in Keys : bucket[j] \in Descriptors \cup {"deleted"}}})
     \/ loop' = "ended" /\ UNCHANGED updates
  /\ UNCHANGED <<contextVars, bucketVars, said, annVars, known, chanVars, view>>

LearnKeeps(kn, u) ==  \* mutant: a deleted service stays known
  IF u.entry \in Wanted THEN [kn EXCEPT ![u.key] = u.entry] ELSE kn

LearnForgets(kn, u) ==  \* mutant: what no longer matches is forgotten
  IF u.entry \in Wanted THEN [kn EXCEPT ![u.key] = u.entry] ELSE [kn EXCEPT ![u.key] = Nil]

\* known after an update, and the event it makes.
Learn(kn, u) ==
  IF u.entry = "deleted" THEN [kn EXCEPT ![u.key] = Nil]
  ELSE IF u.entry \in Wanted THEN [kn EXCEPT ![u.key] = u.entry]
  ELSE kn

NewsOfPuts(kn, u) ==  \* mutant: no event for a deletion
  IF u.entry \notin Wanted THEN Nil
  ELSE Event(IF kn[u.key] = Nil THEN "join" ELSE "update", u.key)

\* What is known matches the query, or it would not be known.
News(kn, u) ==
  IF u.entry = "deleted"
    THEN IF kn[u.key] # Nil THEN Event("leave", u.key) ELSE Nil
    ELSE IF u.entry \notin Wanted THEN Nil
    ELSE Event(IF kn[u.key] = Nil THEN "join" ELSE "update", u.key)

LoopUpdates ==
  /\ loop = "on" /\ updates # <<>>
  /\ updates' = Tail(updates)
  /\ known' = Learn(known, Head(updates))
  /\ LET e == News(known, Head(updates))
     IN  IF e = Nil THEN UNCHANGED chanVars ELSE Emit("watchKV", e)
  /\ UNCHANGED <<contextVars, bucketVars, said, annVars, loop, view>>

\* The select takes the end of the context, or goes on for now if it can.
LoopEnds ==
  /\ loop = "on" /\ ctxDone
  /\ loop' = "ended" /\ updates' = <<>>
  /\ UNCHANGED <<contextVars, bucketVars, said, annVars, known, chanVars, view>>

-----------------------------------------------------------------------------
(* Stop, or the end of the context given to WatchServices.                 *)

EndContext ==
  /\ ~ctxDone /\ ctxDone' = TRUE
  /\ UNCHANGED <<options, bucketVars, said, annVars, kvVars, chanVars, view>>

\* Unsubscribing drops what waits for the callback, not the callback itself.
Unsubscribe ==
  /\ ctxDone /\ subscribed
  /\ subscribed' = FALSE /\ heard' = <<>>
  /\ UNCHANGED <<contextVars, bucketVars, said, sending, kvVars, chanVars, view>>

CloseEventsAtOnce ==  \* mutant: no wg.Wait
  /\ ctxDone /\ ~subscribed /\ ~closed
  /\ closed' = TRUE
  /\ UNCHANGED <<contextVars, bucketVars, said, annVars, kvVars, events, panicked, dropped, view>>

\* After wg.Wait, which waits for watchKV.
CloseEvents ==
  /\ ctxDone /\ ~subscribed /\ loop = "ended" /\ ~closed
  /\ closed' = TRUE
  /\ UNCHANGED <<contextVars, bucketVars, said, annVars, kvVars, events, panicked, dropped, view>>

Mesh ==
  \E k \in Keys : (\E d \in Descriptors : PutEntry(k, d)) \/ DeleteEntry(k) \/ ExpireEntry(k) \/ Announce(k)

Callback == (\E d \in Descriptors : CallbackBegins(d)) \/ CallbackSends

WatchKVWaiting ==  \* mutant: no default, a send waits for room and holds the loop
  LET full == /\ loop = "on" /\ updates # <<>> /\ Len(events) >= Buffer
              /\ News(known, Head(updates)) # Nil
  IN  LoopStarts \/ (~full /\ (LoopUpdates \/ LoopEnds))

WatchKV  == LoopStarts \/ LoopUpdates \/ LoopEnds
Cleanup  == Unsubscribe \/ CloseEvents

WatcherNext == panicked = Nil /\ (Mesh \/ Receive \/ Callback \/ WatchKV \/ EndContext \/ Cleanup)

WatcherSpec == WatcherInit /\ [][WatcherNext]_watcherVars

\* The watcher's own goroutines go on.  A select with two ready branches takes
\* either: the end of the context is taken in the end, for the updates run out.
\* The consumer, who is external, owes nothing: it may stop reading at any time.
WatcherFairSpec ==
  WatcherSpec /\ WF_watcherVars(panicked = Nil /\ WatchKV) /\ WF_watcherVars(panicked = Nil /\ Cleanup)

-----------------------------------------------------------------------------
(* Properties.                                                             *)

\* Types, and two limits they have: the buffer's, and that watchKV never sends on the
\* closed channel (watcher.go:122, "wait for watchKV to exit before closing events
\* channel").  A callback in flight may.
WatcherTypeOK ==
  /\ options \in Options
  /\ bucket \in [Keys -> Descriptors \cup {"absent", "deleted", "expired"}]
  /\ news \in 0..MaxNews
  /\ said \in [Keys -> {"nothing", "join", "leave"}]
  /\ ctxDone \in BOOLEAN /\ subscribed \in BOOLEAN
  /\ heard \in Seq([type : {"join", "leave"}, key : Keys])
  /\ sending \in [type : {"join", "leave"}, key : Keys] \cup {Nil}
  /\ loop \in {"starting", "on", "ended"}
  /\ updates \in Seq([key : Keys, entry : Descriptors \cup {"deleted"}])
  /\ known \in [Keys -> Wanted \cup {Nil}]
  /\ events \in Seq([type : {"join", "update", "leave"}, key : Keys]) /\ Len(events) <= Buffer
  /\ closed \in BOOLEAN /\ dropped \in BOOLEAN
  /\ panicked \in {"callback", Nil}
  /\ view \subseteq Keys

\* What watchKV will know of k once it has seen what waits for it: what the last
\* update it acts on says.
Caught(k) ==
  LET about == {i \in DOMAIN updates : /\ updates[i].key = k
                                       /\ updates[i].entry \in Wanted \cup {"deleted"}}
      last  == updates[Max(about)].entry
  IN  IF about = {} THEN known[k] ELSE IF last = "deleted" THEN Nil ELSE last

\* Once watchKV has seen what waits for it, it knows every entry of the bucket
\* that its query matches, as it is, and none that was deleted.  Of one that
\* expired, or no longer matches, it may know the last that did.
KnownFollows ==
  loop = "on" =>
    \A k \in Keys : /\ bucket[k] \in Wanted => Caught(k) = bucket[k]
                    /\ bucket[k] \in {"absent", "deleted"} => Caught(k) = Nil

\* What a consumer that takes every event thinks of k: what the last event says.
Believed(k) ==
  LET about == {i \in DOMAIN events : events[i].key = k}
  IN  IF about = {} THEN k \in view ELSE events[Max(about)].type # "leave"

\* Without announcements, and as long as the buffer had room, the events tell a
\* consumer exactly which services watchKV knows.
EventsTell ==
  ~options.announce /\ ~dropped => \A k \in Keys : Believed(k) <=> known[k] # Nil

\* Stop returns: w.done is closed once the context is, whether the consumer
\* reads or not and however many updates wait: no send waits for room (watcher.go:101,
\* :170, :203).
WatcherStops == ctxDone ~> closed

ReadsOn == WF_watcherVars(panicked = Nil /\ Receive)

\* A consumer of a watcher without announcements that reads on learns of every
\* deletion, or the buffer was full, or the watcher was stopped, or could not start.
LeftIsHeard ==
  ReadsOn => \A k \in Keys :
    bucket[k] = "deleted" ~> k \notin view \/ dropped \/ options.announce \/ loop = "ended"
=============================================================================
