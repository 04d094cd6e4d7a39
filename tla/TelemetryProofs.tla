--------------------------- MODULE TelemetryProofs ---------------------------
(***************************************************************************)
(* Proofs about the telemetry aggregator, for any sources, required or     *)
(* not, any threshold, any resolution of time and any callers of Close.    *)
(***************************************************************************)
EXTENDS Telemetry, TLAPS

\* The largest age that is told apart is a natural number, and positive.
LEMMA MaxAgeNat == MaxAge \in Nat \ {0}
<1>1. \A t, u \in Nat \ {0} : (t + 1) * u \in Nat \ {0}
  OBVIOUS
<1>2. QED
  BY <1>1, TelemetryAssumption DEF MaxAge

\* An age over the threshold when cut to milliseconds is over it exactly.
LEMMA CutAge ==
  ASSUME NEW s \in Sources, age[s] \in Int, age[s] # NoData, StaleInFrame(s)
  PROVE  Stale(s)
<1>1. ASSUME NEW a \in Int, NEW t \in Int, NEW u \in Nat \ {0}, a \div u > t
      PROVE  a > t * u
  <2> DEFINE q == a \div u
  <2>1. q \in Int /\ q * u <= a /\ q > t
    BY <1>1
  <2> HIDE DEF q
  <2>2. q * u > t * u
    BY <2>1
  <2>3. q * u \in Int /\ t * u \in Int
    BY <2>1
  <2> DEFINE x == q * u  y == t * u
  <2>4. x \in Int /\ y \in Int /\ x <= a /\ x > y
    BY <2>1, <2>2, <2>3, Zenon
  <2> HIDE DEF x, y
  <2>5. a > y
    BY <2>4
  <2>6. QED
    BY <2>5 DEF y
<1>2. StaleThresholdMs \in Int /\ age[s] \div Unit > StaleThresholdMs
  BY TelemetryAssumption DEF StaleInFrame
<1>3. age[s] > StaleThresholdMs * Unit
  BY <1>1, <1>2, TelemetryAssumption, Zenon
<1>4. QED
  BY <1>3, Zenon DEF Stale

\* Every variable keeps its type.
THEOREM Typing == Spec => []TypeOK
<1>1. Init => TypeOK
  <2>1. NoData \in NoData .. MaxAge
    BY MaxAgeNat DEF NoData
  <2>2. NoFrame \in [stale : SUBSET Sources, available : SUBSET Sources]
    BY DEF NoFrame
  <2>3. QED
    BY <2>1, <2>2 DEF Init, TypeOK
<1>2. TypeOK /\ [Next]_vars => TypeOK'
  <2> SUFFICES ASSUME TypeOK, [Next]_vars
               PROVE  TypeOK'
    OBVIOUS
  <2> USE DEF TypeOK
  <2>1. ASSUME NEW s \in Sources, NEW hasData \in BOOLEAN, HandleSourceMessage(s, hasData)
        PROVE  TypeOK'
    BY <2>1, MaxAgeNat DEF HandleSourceMessage, loops, NoData
  <2>2. CASE TimePasses
    BY <2>2, MaxAgeNat DEF TimePasses, loops, NoData
  <2>3. CASE BuildTelemetryFrame
    BY <2>3 DEF BuildTelemetryFrame
  <2>4. CASE DetermineHealth
    BY <2>4 DEF DetermineHealth, Health
  <2>5. CASE UpdateState
    BY <2>5 DEF UpdateState, StateOf, NoFrame
  <2>6. CASE EndPublish
    BY <2>6 DEF EndPublish
  <2>7. CASE EndHeartbeat
    BY <2>7 DEF EndHeartbeat
  <2>8. CASE Cancel
    BY <2>8 DEF Cancel, loops
  <2>9. ASSUME NEW c \in Callers, Enter(c)
        PROVE  TypeOK'
    BY <2>9 DEF Enter, loops
  <2>10. ASSUME NEW c \in Callers, CloseStopCh(c)
         PROVE  TypeOK'
    BY <2>10 DEF CloseStopCh, loops
  <2>11. ASSUME NEW c \in Callers, Return(c)
         PROVE  TypeOK'
    BY <2>11 DEF Return, loops
  <2>12. CASE UNCHANGED vars
    BY <2>12 DEF vars, loops
  <2>13. QED
    BY <2>1, <2>2, <2>3, <2>4, <2>5, <2>6, <2>7, <2>8, <2>9, <2>10, <2>11, <2>12
    DEF Next, PublishLoop
<1>3. QED
  BY <1>1, <1>2, PTL DEF Spec
-----------------------------------------------------------------------------
\* A source that the last frame shows as stale is so, or has no data, until it is heard
\* from.
FrameInv ==
  publishing \in {"built", "determined"} =>
    \A s \in frame.stale : IF s \in frame.available THEN Stale(s) ELSE age[s] = NoData

\* The state a frame leads to is never better than what the frame shows, whatever comes
\* in between (BuildTelemetryFrame, DetermineHealth and updateState of aggregator.go),
\* but for optional sources it shows as not available.
THEOREM NotBetter == Spec => []StateNotBetterThanFrame
<1> DEFINE Inv == FrameInv /\ StateNotBetterThanFrame
<1>1. Init => Inv
  BY DEF Init, FrameInv, StateNotBetterThanFrame
<1>2. TypeOK /\ Inv /\ [Next]_vars => Inv'
  <2> SUFFICES ASSUME TypeOK, Inv, [Next]_vars
               PROVE  Inv'
    OBVIOUS
  <2> USE DEF FrameInv, StateNotBetterThanFrame
  <2>1. ASSUME NEW s \in Sources, NEW hasData \in BOOLEAN, HandleSourceMessage(s, hasData)
        PROVE  Inv'
    <3>1. \A x \in Sources : x # s => (Stale(x) <=> Stale(x)')
      BY <2>1 DEF TypeOK, HandleSourceMessage, Stale
    <3>2. QED
      BY <2>1, <3>1 DEF TypeOK, HandleSourceMessage, loops
  <2>2. CASE TimePasses
    <3>1. \A x \in Sources : age[x] \in Int /\ age'[x] \in Int /\ age'[x] >= age[x]
      BY <2>2, MaxAgeNat DEF TypeOK, TimePasses, NoData
    <3>2. StaleThresholdMs * Unit \in Int
      BY TelemetryAssumption
    <3>3. \A x \in Sources : Stale(x) => Stale(x)'
      BY <3>1, <3>2 DEF Stale
    <3>4. \A x \in Sources : age[x] = NoData => age'[x] = NoData
      BY <2>2, MaxAgeNat DEF TypeOK, TimePasses, NoData
    <3>5. QED
      BY <2>2, <3>3, <3>4 DEF TypeOK, TimePasses, loops
  <2>3. CASE BuildTelemetryFrame
    <3>1. ASSUME NEW s \in frame'.stale
          PROVE  s \in Sources /\ age[s] \in Int /\ StaleInFrame(s)
                 /\ (s \in frame'.available <=> age[s] # NoData)
      <4>1. /\ frame'.stale = {x \in Sources : StaleInFrame(x)}
            /\ frame'.available = {x \in Sources : age[x] # NoData}
        BY <2>3 DEF BuildTelemetryFrame
      <4>2. \A x \in Sources : age[x] \in Int
        BY MaxAgeNat DEF TypeOK, NoData
      <4>3. QED
        BY <4>1, <4>2
    <3>2. \A s \in frame'.stale : s \in frame'.available => Stale(s)
      BY <3>1, CutAge
    <3>3. \A s \in frame'.stale : s \in frame'.available => Stale(s)'
      BY <2>3, <3>2 DEF BuildTelemetryFrame, Stale
    <3>4. QED
      BY <2>3, <3>1, <3>3 DEF BuildTelemetryFrame
  <2>4. CASE DetermineHealth
    <3>1. \A s \in frame.stale :
            s \in Sources /\ (Stale(s) <=> Stale(s)')
            /\ (IF s \in frame.available THEN Stale(s) ELSE age[s] = NoData)
      BY <2>4 DEF DetermineHealth, TypeOK, Stale
    <3>2. QED
      BY <2>4, <3>1, TelemetryAssumption DEF DetermineHealth, Health
  <2>5. CASE UpdateState
    BY <2>5 DEF UpdateState
  <2>6. CASE EndPublish
    BY <2>6 DEF EndPublish
  <2>7. CASE UNCHANGED <<publishing, frame, health, age>>
    BY <2>7 DEF Stale
  <2>8. QED
    BY <2>1, <2>2, <2>3, <2>4, <2>5, <2>6, <2>7
    DEF Next, PublishLoop, EndHeartbeat, Cancel, Enter, CloseStopCh, Return, vars, loops
<1>3. QED
  BY <1>1, <1>2, Typing, PTL DEF Spec
-----------------------------------------------------------------------------
\* As long as the publish loop has not set the state of a stopped service, the state
\* is a lock: one caller at most is past it, and has not closed stopCh yet.
OneCloses ==
  ~revived =>
    /\ Up
    /\ stopCh => state = "stopped"
    /\ \A c \in Callers : closing[c] = "entered" => state = "stopped" /\ ~stopCh
    /\ \A c, d \in Callers : closing[c] = "entered" /\ closing[d] = "entered" => c = d

\* Callers of Close, however many, never make each other panic.
THEOREM NoPanicUnlessRevived == Spec => []OnlyRevivedPanics
<1>1. Init => OneCloses
  BY DEF Init, OneCloses, Up
<1>2. TypeOK /\ OneCloses /\ [Next]_vars => OneCloses'
  <2> SUFFICES ASSUME TypeOK, OneCloses, [Next]_vars
               PROVE  OneCloses'
    OBVIOUS
  <2> USE DEF OneCloses, TypeOK, Up
  <2>1. CASE UpdateState
    BY <2>1 DEF UpdateState, StateOf
  <2>2. ASSUME NEW c \in Callers, Enter(c)
        PROVE  OneCloses'
    BY <2>2 DEF Enter, loops
  <2>3. ASSUME NEW c \in Callers, CloseStopCh(c)
        PROVE  OneCloses'
    BY <2>3 DEF CloseStopCh, loops
  <2>4. ASSUME NEW c \in Callers, Return(c)
        PROVE  OneCloses'
    BY <2>4 DEF Return, loops
  <2>5. CASE UNCHANGED <<revived, state, stopCh, closing>>
    BY <2>5
  <2>6. QED
    BY <2>1, <2>2, <2>3, <2>4, <2>5
    DEF Next, PublishLoop, HandleSourceMessage, TimePasses, BuildTelemetryFrame,
        DetermineHealth, EndPublish, EndHeartbeat, Cancel, vars, loops
<1>3. OneCloses => OnlyRevivedPanics
  BY DEF OneCloses, OnlyRevivedPanics
<1>4. QED
  BY <1>1, <1>2, <1>3, Typing, PTL DEF Spec
=============================================================================
