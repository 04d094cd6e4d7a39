------------------------------ MODULE Telemetry ------------------------------
(***************************************************************************)
(* The telemetry aggregator (services/telemetry/aggregator.go): sources    *)
(* hand in data, a publish loop builds frames from the latest of each and  *)
(* sets the service's state from their health, a heartbeat loop lives on   *)
(* as long as the service, and Close ends both.                            *)
(*                                                                         *)
(* dataMu and stateMu guard single steps; between building a frame, the    *)
(* health of the sources and setting the state the publish loop holds no   *)
(* lock.  Time passes in steps; Unit of them make a millisecond, which     *)
(* tells the age in milliseconds of a frame from the exact age that the    *)
(* health is made of.  Sources and the callers of Close are external.      *)
(* Of what a frame carries, whether each source is stale and available is  *)
(* kept; the rest, and the counters, are left out.                         *)
(***************************************************************************)
EXTENDS Integers

CONSTANTS
  Sources,           \* config.Sources, by name
  Required,          \* those with Required
  StaleThresholdMs,  \* of every source
  Unit,              \* steps of time in a millisecond
  Callers            \* callers of Close

ASSUME TelemetryAssumption ==
  /\ Required \subseteq Sources
  /\ StaleThresholdMs \in Nat \ {0} /\ Unit \in Nat \ {0}

VARIABLES
  age,        \* latestData: [Sources -> age of the data, or NoData]
  state,      \* a.state
  stopCh,     \* it is closed
  done,       \* the context given to New is done
  publishing, \* publishLoop: "waits", "built", "determined", "ended"
  beating,    \* heartbeatLoop runs; doneCh is closed when it does not
  frame,      \* the sources the frame just published shows as stale, and as available,
              \* of those not heard from since
  health,     \* what DetermineHealth has returned
  closing,    \* [Callers -> "none", "entered", "waits", "returned", "panicked"]
  revived     \* history: the publish loop has set the state of a stopped service

loops == <<publishing, beating, frame, health>>
vars == <<age, state, stopCh, done, loops, closing, revived>>

NoData == -1

NoFrame == [stale |-> {}, available |-> {}]

\* No age is told from a larger one once it is stale in milliseconds.
MaxAge == (StaleThresholdMs + 1) * Unit

Init ==
  /\ age = [s \in Sources |-> NoData]
  /\ state = "running"
  /\ stopCh = FALSE /\ done = FALSE
  /\ publishing = "waits" /\ beating = TRUE
  /\ frame = NoFrame /\ health = "ok"
  /\ closing = [c \in Callers |-> "none"]
  /\ revived = FALSE

\* A panic in Close takes the process with it.
Up == \A c \in Callers : closing[c] # "panicked"
-----------------------------------------------------------------------------
\* The message has data, or none (data.Data == nil).
HandleSourceMessage(s, hasData) ==
  /\ Up
  /\ age' = [age EXCEPT ![s] = IF hasData THEN 0 ELSE NoData]
  /\ frame' = [stale |-> frame.stale \ {s}, available |-> frame.available \ {s}]
  /\ UNCHANGED <<state, stopCh, done, publishing, beating, health, closing, revived>>

TimePasses ==
  /\ Up /\ \E s \in Sources : age[s] \in 0 .. MaxAge - 1
  /\ age' = [s \in Sources |-> IF age[s] \in 0 .. MaxAge - 1 THEN age[s] + 1 ELSE age[s]]
  /\ UNCHANGED <<state, stopCh, done, loops, closing, revived>>

StaleInFrameFrom(s) ==   \* mutant: >= for >
  age[s] = NoData \/ age[s] \div Unit >= StaleThresholdMs

\* In a frame the age is cut to milliseconds, and a source without data is stale, with
\* age -1 and not available.
StaleInFrame(s) == age[s] = NoData \/ age[s] \div Unit > StaleThresholdMs

BuildTelemetryFrame ==
  /\ Up /\ publishing = "waits" /\ publishing' = "built"
  /\ frame' = [stale     |-> {s \in Sources : StaleInFrame(s)},
               available |-> {s \in Sources : age[s] # NoData}]
  /\ UNCHANGED <<age, state, stopCh, done, beating, health, closing, revived>>

Stale(s) == age[s] > StaleThresholdMs * Unit

HealthOfHeard ==  \* mutant: a source never heard from is skipped though required
  IF \E s \in Required : Stale(s) THEN "error"
  ELSE IF \E s \in Sources : Stale(s) THEN "degraded"
  ELSE "ok"

Health ==
  IF \E s \in Required : age[s] = NoData \/ Stale(s) THEN "error"
  ELSE IF \E s \in Sources : Stale(s) THEN "degraded"
  ELSE "ok"

DetermineHealth ==
  /\ Up /\ publishing = "built" /\ publishing' = "determined"
  /\ health' = Health
  /\ UNCHANGED <<age, state, stopCh, done, beating, frame, closing, revived>>

StateOf == [ok |-> "running", degraded |-> "degraded", error |-> "error"]

UpdateState ==
  /\ Up /\ publishing = "determined" /\ publishing' = "waits"
  /\ state' = StateOf[health]
  /\ revived' = (revived \/ state = "stopped")
  /\ frame' = NoFrame /\ health' = "ok"
  /\ UNCHANGED <<age, stopCh, done, beating, closing>>

\* The select picks the end, or another tick, when both are ready.
EndPublish ==
  /\ Up /\ publishing = "waits" /\ (stopCh \/ done)
  /\ publishing' = "ended"
  /\ UNCHANGED <<age, state, stopCh, done, beating, frame, health, closing, revived>>

EndHeartbeatOnDone ==  \* mutant: the heartbeat looks at the context only
  /\ Up /\ beating /\ done
  /\ beating' = FALSE
  /\ UNCHANGED <<age, state, stopCh, done, publishing, frame, health, closing, revived>>

EndHeartbeat ==
  /\ Up /\ beating /\ (stopCh \/ done)
  /\ beating' = FALSE
  /\ UNCHANGED <<age, state, stopCh, done, publishing, frame, health, closing, revived>>

Cancel ==
  /\ Up /\ ~done /\ done' = TRUE
  /\ UNCHANGED <<age, state, stopCh, loops, closing, revived>>
-----------------------------------------------------------------------------
(* Close *)

EnterAnyway(c) ==  \* mutant: no look at the state
  /\ Up /\ closing[c] = "none"
  /\ closing' = [closing EXCEPT ![c] = "entered"] /\ state' = "stopped"
  /\ UNCHANGED <<age, stopCh, done, loops, revived>>

Enter(c) ==
  /\ Up /\ closing[c] = "none"
  /\ IF state = "stopped"
     THEN closing' = [closing EXCEPT ![c] = "returned"] /\ UNCHANGED state
     ELSE closing' = [closing EXCEPT ![c] = "entered"] /\ state' = "stopped"
  /\ UNCHANGED <<age, stopCh, done, loops, revived>>

\* Closing a closed channel panics.
CloseStopCh(c) ==
  /\ Up /\ closing[c] = "entered"
  /\ closing' = [closing EXCEPT ![c] = IF stopCh THEN "panicked" ELSE "waits"]
  /\ stopCh' = TRUE
  /\ UNCHANGED <<age, state, done, loops, revived>>

Return(c) ==
  /\ Up /\ closing[c] = "waits" /\ ~beating
  /\ closing' = [closing EXCEPT ![c] = "returned"]
  /\ UNCHANGED <<age, state, stopCh, done, loops, revived>>
-----------------------------------------------------------------------------
PublishLoop == BuildTelemetryFrame \/ DetermineHealth \/ UpdateState

Next ==
  \/ \E s \in Sources, hasData \in BOOLEAN : HandleSourceMessage(s, hasData)
  \/ TimePasses \/ PublishLoop \/ EndPublish \/ EndHeartbeat \/ Cancel
  \/ \E c \in Callers : Enter(c) \/ CloseStopCh(c) \/ Return(c)

\* Tickers tick and goroutines go on; a select takes a branch that is ready each time.
Fairness ==
  /\ WF_vars(PublishLoop) /\ SF_vars(EndPublish) /\ WF_vars(EndHeartbeat)
  /\ \A c \in Callers : WF_vars(CloseStopCh(c) \/ Return(c))

Spec == Init /\ [][Next]_vars /\ Fairness
-----------------------------------------------------------------------------
(* Properties *)

TypeOK ==
  /\ age \in [Sources -> NoData .. MaxAge]
  /\ state \in {"stopped", "running", "degraded", "error"}
  /\ stopCh \in BOOLEAN /\ done \in BOOLEAN
  /\ publishing \in {"waits", "built", "determined", "ended"} /\ beating \in BOOLEAN
  /\ frame \in [stale : SUBSET Sources, available : SUBSET Sources] /\ health \in {"ok", "degraded", "error"}
  /\ closing \in [Callers -> {"none", "entered", "waits", "returned", "panicked"}]
  /\ revived \in BOOLEAN

\* Frames and health measure age differently, milliseconds cut (aggregator.go:355)
\* and exact (:589).  Yet the state set after a frame is never better than what the
\* frame shows, except for sources heard from since: with a required source shown as
\* stale, available or not, it is error, and with any available one degraded at
\* least.  An optional source that is not available is the exception: the frame calls
\* it stale (:363), but health passes over it (:580-585), so the state may be running.
StateNotBetterThanFrame ==
  publishing = "determined" =>
    \A s \in frame.stale :
      /\ s \in Required => health = "error"
      /\ s \in frame.available => health # "ok"

\* Close panics only because the publish loop, which it does not wait for
\* (aggregator.go:800), has set the state of the stopped service in a late tick:
\* callers do not close stopCh twice by themselves.
OnlyRevivedPanics == ~Up => revived

\* Close returns and both loops end, with ticks that go on and callers that meet.
ServiceEnds ==
  /\ \A c \in Callers : closing[c] # "none" ~> (closing[c] = "returned" \/ ~Up)
  /\ (stopCh \/ done) ~> ((publishing = "ended" /\ ~beating) \/ ~Up)

\* As long as the service is neither closed nor cancelled, its state follows the
\* sources: a required source that stays away is an error, a required source never
\* heard from too, and when all come in again the state is running.
StateFollows ==
  [](~done /\ \A c \in Callers : closing[c] = "none") =>
    /\ \A s \in Required : <>[](age[s] = NoData \/ Stale(s)) => <>[](state = "error")
    /\ <>[](\A s \in Sources : age[s] # NoData /\ ~Stale(s)) => <>[](state = "running")
=============================================================================
