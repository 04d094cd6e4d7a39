-------------------------- MODULE TankDriveProofs --------------------------
(***************************************************************************)
(* Proofs about the tank-drive controller, for every rate, gain, deadband, *)
(* slew limit, command timeout, mounting and set of finite intents.        *)
(***************************************************************************)
EXTENDS TankDrive, TLAPS

\* A clamped number lies between the bounds.
LEMMA ClampRange ==
  ASSUME NEW v \in Int, NEW lo \in Int, NEW hi \in Int, lo <= hi
  PROVE  Clamp(v, lo, hi) \in lo .. hi
BY ConfigAssumption DEF Clamp, Less

\* A number between the bounds is left alone.
LEMMA ClampIdentity ==
  ASSUME NEW lo \in Int, NEW hi \in Int, NEW v \in lo .. hi
  PROVE  Clamp(v, lo, hi) = v
BY ConfigAssumption DEF Clamp, Less

\* Turning an actuator round keeps the range of its values and the distance
\* between two of them.
LEMMA OrientedRange ==
  ASSUME NEW s \in Side, NEW v \in Value, NEW w \in Value
  PROVE  /\ Oriented(s, v) \in Value
         /\ Abs(Oriented(s, v) - Oriented(s, w)) = Abs(v - w)
BY ConfigAssumption DEF Oriented, Scale, Value, Abs

\* The slew limiter stays between where it is and where it goes, and moves by
\* the limit at most.
LEMMA SlewRange ==
  ASSUME NEW c \in Value, NEW t \in Value
  PROVE  /\ Slew(c, t) \in Value
         /\ MaxDelta > 0 => Abs(Slew(c, t) - c) <= MaxDelta
<1>1. Plus(t, Scale(-1, c)) = t - c
  BY ConfigAssumption DEF Plus, Scale, Value
<1>2. CASE MaxDelta = 0
  BY <1>2 DEF Slew
<1>3. CASE MaxDelta # 0
  <2> DEFINE d == Clamp(t - c, -MaxDelta, MaxDelta)
  <2>1. d \in -MaxDelta .. MaxDelta
    BY ConfigAssumption, ClampRange DEF Value
  <2>2. /\ t - c >= 0 => d \in 0 .. (t - c)
        /\ t - c <= 0 => d \in (t - c) .. 0
    BY ConfigAssumption DEF Clamp, Less, Value
  <2>3. Slew(c, t) = c + d
    BY <1>1, <1>3, <2>1, ConfigAssumption DEF Slew, Plus, Value
  <2> HIDE DEF d
  <2>4. QED
    BY <2>1, <2>2, <2>3, ConfigAssumption DEF Value, Abs
<1>4. QED
  BY <1>2, <1>3

\* What the deadband lets through is a normalised value.
LEMMA DeadbandRange ==
  ASSUME NEW v \in Value
  PROVE  ApplyDeadband(v) \in Value
BY ConfigAssumption DEF ApplyDeadband, Value

\* Every yaw gain mixes normalised values into a normalised target.
LEMMA TargetRange ==
  ASSUME NEW side \in Side, NEW s \in Value, NEW y \in Value
  PROVE  Target(side, s, y) \in Value
<1> DEFINE k == IF side = "left" THEN Gain ELSE -Gain
<1>1. k \in Int
  BY ConfigAssumption
<1>2. Scale(k, y) \in Int
  BY <1>1, ConfigAssumption DEF Scale, Value
<1> HIDE DEF k
<1>3. Plus(s, Scale(k, y)) \in Int
  BY <1>2, ConfigAssumption DEF Plus, Value
<1>4. -Unit \in Int /\ Unit \in Int /\ -Unit <= Unit
  BY ConfigAssumption
<1>5. Clamp(Plus(s, Scale(k, y)), -Unit, Unit) \in Value
  BY ONLY <1>3, <1>4, ClampRange DEF Value
<1>6. QED
  BY <1>5 DEF Target, k

\* A control step computes normalised outputs, each within the slew limit of
\* the one before.
LEMMA NextOutputsRange ==
  ASSUME TypeOK
  PROVE  /\ NextOutputs \in [Side -> Value]
         /\ MaxDelta > 0 =>
              \A s \in Side : Abs(NextOutputs[s] - cur[s]) <= MaxDelta
<1>1. 0 \in Value
  BY ConfigAssumption DEF Value
<1>2. Commanded(surge) \in Value /\ Commanded(yaw) \in Value
  BY <1>1, DeadbandRange DEF Commanded, TypeOK
<1>3. ASSUME NEW s \in Side
      PROVE  cur[s] \in Value /\ Target(s, Commanded(surge), Commanded(yaw)) \in Value
  BY <1>2, TargetRange DEF TypeOK
<1>4. QED
  BY <1>3, SlewRange DEF NextOutputs

LEMMA WriteRange ==
  ASSUME TypeOK, NEW s \in Side, NEW v \in Value, Write(s, v)
  PROVE  /\ out' \in [Side -> Value]
         /\ "writeError" \notin Events => out' = [out EXCEPT ![s] = v]
<1>1. Clamp(v, -Unit, Unit) = v
  BY ClampIdentity, ConfigAssumption DEF Value
<1>2. QED
  BY <1>1 DEF Write, WriteOk, WriteFails, TypeOK
-----------------------------------------------------------------------------
(* Type correctness *)

LEMMA TypeInit == Init => TypeOK
<1> SUFFICES ASSUME Init PROVE TypeOK
  OBVIOUS
<1>1. 0 \in Value /\ 0 \in 0 .. Timeout + 1
  BY ConfigAssumption DEF Value
<1>2. Neutral \in [Side -> Value]
  BY <1>1 DEF Neutral
<1>3. active \in BOOLEAN /\ armed \in BOOLEAN /\ tickDue \in BOOLEAN /\ cancelled \in BOOLEAN
  BY DEF Init
<1>4. armPc \in 0 .. 4
  BY DEF Init
<1>5. QED
  BY <1>1, <1>2, <1>3, <1>4 DEF Init, TypeOK

LEMMA TypeStep ==
  ASSUME Intents \subseteq Int
  PROVE  TypeOK /\ [Next]_vars => TypeOK'
<1> SUFFICES ASSUME TypeOK, [Next]_vars PROVE TypeOK'
  OBVIOUS
<1> USE DEF intent, process
<1>z. 0 \in Value /\ Unit \in Value
  BY ConfigAssumption DEF Value
<1>1. CASE Start
  BY <1>1, ConfigAssumption DEF Start, TypeOK
<1>2. CASE Elapse
  BY <1>2, ConfigAssumption DEF Elapse, TypeOK
<1>3. CASE CancelContext
  BY <1>3 DEF CancelContext, TypeOK
<1>4. CASE Command \/ Stop
  <2>1. PICK s \in Int, y \in Int : SetIntent(s, y)
    BY <1>4 DEF Command, Stop
  <2>2. Clamp(s, -Unit, Unit) \in Value /\ Clamp(y, -Unit, Unit) \in Value
    BY ClampRange, ConfigAssumption DEF Value
  <2>3. QED
    BY <2>1, <2>2, ConfigAssumption DEF SetIntent, TypeOK
<1>5. CASE Arming
  <2>1. CASE Arm
    BY <2>1, <1>z, WriteRange DEF Arm, Write, TypeOK, Side
  <2>2. CASE ArmStep
    <3>1. /\ ArmPlan[armPc + 1][1] \in Side
          /\ ArmPlan[armPc + 1][2] \in Value
      BY <2>2, <1>z DEF ArmStep, ArmPlan, Side
    <3>2. QED
      BY <2>2, <3>1, WriteRange DEF ArmStep, Write, TypeOK
  <2>3. CASE ArmDone
    <3>1. armed' \in BOOLEAN /\ age' \in 0 .. Timeout + 1 /\ armPc' \in 0 .. 4
      BY <2>3, ConfigAssumption DEF ArmDone
    <3>2. QED
      BY <2>3, <3>1 DEF ArmDone, TypeOK
  <2>4. CASE ArmInterrupted
    BY <2>4 DEF ArmInterrupted, TypeOK
  <2>5. QED
    BY <1>5, <2>1, <2>2, <2>3, <2>4 DEF Arming
<1>6. CASE Loop
  <2>1. CASE Tick
    <3>1. cur' \in [Side -> Value]
      BY <2>1, NextOutputsRange DEF Tick
    <3>2. pend' \in [Side -> Value]
      <4>1. \A s \in Side : Oriented(s, cur'[s]) \in Value
        BY <3>1, OrientedRange
      <4>2. QED
        BY <2>1, <4>1 DEF Tick, Directed
    <3>3. QED
      BY <2>1, <3>1, <3>2 DEF Tick, TypeOK
  <2>2. CASE TickLeft \/ TickRight
    BY <2>2, WriteRange DEF TickLeft, TickRight, TypeOK, Side
  <2>3. CASE LoopExit
    BY <2>3, <1>z DEF LoopExit, ZeroState, Neutral, TypeOK
  <2>4. CASE LoopZeroLeft \/ LoopZeroRight
    BY <2>4, <1>z, WriteRange DEF LoopZeroLeft, LoopZeroRight, TypeOK, Side
  <2>5. QED
    BY <1>6, <2>1, <2>2, <2>3, <2>4 DEF Loop
<1>7. CASE Closing
  <2>1. CASE Close \/ CloseJoined
    BY <2>1, <1>z DEF Close, CloseJoined, ZeroState, Neutral, TypeOK
  <2>2. CASE CloseZeroLeft \/ CloseZeroRight
    BY <2>2, <1>z, WriteRange DEF CloseZeroLeft, CloseZeroRight, TypeOK, Side
  <2>3. QED
    BY <1>7, <2>1, <2>2 DEF Closing
<1>8. CASE UNCHANGED vars
  BY <1>8 DEF vars, TypeOK
<1>9. QED
  BY <1>1, <1>2, <1>3, <1>4, <1>5, <1>6, <1>7, <1>8 DEF Next

\* Every value the controller holds or sends is a normalised one, whatever
\* finite intents arrive, whatever the configuration and whatever fails.
THEOREM TypeCorrect ==
  ASSUME Intents \subseteq Int
  PROVE  Spec => []TypeOK
BY TypeInit, TypeStep, PTL DEF Spec
-----------------------------------------------------------------------------
(* Nobody arms and no write fails *)

Reliable == "arm" \notin Events /\ "writeError" \notin Events

\* NeutralWhenDone is not inductive: the loop leaves its left actuator neutral
\* one write before the right one, and a Close that did not wait for the loop
\* may write in between.
NeutralInv ==
  /\ armPc = 0
  /\ loop = "zeroRight" => out["left"] = 0
  /\ NeutralWhenDone

LEMMA NeutralInit == Init => NeutralInv
BY DEF Init, NeutralInv, NeutralWhenDone

LEMMA NeutralStep ==
  ASSUME Reliable
  PROVE  TypeOK /\ NeutralInv /\ [Next]_vars => NeutralInv'
<1> SUFFICES ASSUME TypeOK, NeutralInv, [Next]_vars PROVE NeutralInv'
  OBVIOUS
<1> USE DEF NeutralInv, NeutralWhenDone, intent, process
<1>z. 0 \in Value
  BY ConfigAssumption DEF Value
<1>1. CASE Start \/ Elapse \/ CancelContext \/ Command \/ Stop \/ UNCHANGED vars
  BY <1>1 DEF Start, Elapse, CancelContext, Command, Stop, SetIntent, vars
<1>2. CASE Arming
  BY <1>2 DEF Arming, Arm, ArmStep, ArmDone, ArmInterrupted, Reliable
<1>3. CASE Loop
  <2>1. CASE Tick \/ TickLeft \/ TickRight \/ LoopExit
    BY <2>1 DEF Tick, TickLeft, TickRight, LoopExit
  <2>2. CASE LoopZeroLeft
    BY <2>2, <1>z, WriteRange DEF LoopZeroLeft, Reliable, TypeOK, Side
  <2>3. CASE LoopZeroRight
    <3>1. out' = [out EXCEPT !["right"] = 0] /\ out["left"] = 0
      BY <2>3, <1>z, WriteRange DEF LoopZeroRight, Reliable, Side
    <3>2. QED
      BY <2>3, <3>1 DEF LoopZeroRight, Neutral, TypeOK, Side
  <2>4. QED
    BY <1>3, <2>1, <2>2, <2>3 DEF Loop
<1>4. CASE Closing
  <2>1. CASE Close \/ CloseJoined
    BY <2>1 DEF Close, CloseJoined
  <2>2. CASE CloseZeroLeft \/ CloseZeroRight
    <3>1. \E s \in Side : out' = [out EXCEPT ![s] = 0]
      BY <2>2, <1>z, WriteRange DEF CloseZeroLeft, CloseZeroRight, Reliable, Side
    <3>2. QED
      BY <2>2, <3>1 DEF CloseZeroLeft, CloseZeroRight, Neutral, TypeOK, Side
  <2>3. QED
    BY <1>4, <2>1, <2>2 DEF Closing
<1>5. QED
  BY <1>1, <1>2, <1>3, <1>4 DEF Next

\* Whenever the loop has ended both actuators are neutral, for every
\* interleaving of its last writes with those of Close, when every write
\* succeeds and nobody arms the drive.
THEOREM NeutralAfterLoop ==
  ASSUME Intents \subseteq Int, Reliable
  PROVE  Spec => []NeutralWhenDone
<1>1. Spec => []TypeOK
  BY TypeCorrect
<1>2. TypeOK /\ NeutralInv /\ [Next]_vars => NeutralInv'
  BY NeutralStep
<1>3. NeutralInv => NeutralWhenDone
  BY DEF NeutralInv
<1>4. QED
  BY <1>1, <1>2, <1>3, NeutralInit, PTL DEF Spec
-----------------------------------------------------------------------------
(* The outputs of a running controller *)

Working == ~cancelled /\ closer = "idle"

Near(v, w) == MaxDelta > 0 => Abs(v - w) <= MaxDelta

\* Coherence and the slew limit hold between steps because of what holds
\* between the writes of one step: what is pending is what the state says,
\* it is near what the actuator last got, and once the left write is done
\* only the right actuator is behind.
CoherentInv ==
  /\ armPc = 0
  /\ Working =>
       /\ loop \in {"off", "wait", "writeLeft", "writeRight"}
       /\ loop = "off" => cur = Neutral /\ out = Neutral
       /\ loop = "wait" => \A s \in Side : out[s] = Oriented(s, cur[s])
       /\ loop \in {"writeLeft", "writeRight"} =>
            \A s \in Side : /\ pend[s] = Oriented(s, cur[s])
                           /\ Near(pend[s], out[s])
       /\ loop = "writeRight" => out["left"] = pend["left"]

LEMMA CoherentInit == Init => CoherentInv
BY DEF Init, CoherentInv

LEMMA CoherentStep ==
  ASSUME Reliable
  PROVE  TypeOK /\ CoherentInv /\ [Next]_vars => CoherentInv'
<1> SUFFICES ASSUME TypeOK, CoherentInv, [Next]_vars PROVE CoherentInv'
  OBVIOUS
<1> USE DEF CoherentInv, Working, intent, process
<1>1. CASE Start
  <2>1. \A s \in Side : Oriented(s, 0) = 0
    BY ConfigAssumption DEF Oriented, Scale
  <2>2. QED
    BY <1>1, <2>1 DEF Start, Neutral
<1>2. CASE Elapse \/ CancelContext \/ Command \/ Stop \/ UNCHANGED vars
  BY <1>2 DEF Elapse, CancelContext, Command, Stop, SetIntent, vars
<1>3. CASE Arming
  BY <1>3 DEF Arming, Arm, ArmStep, ArmDone, ArmInterrupted, Reliable
<1>4. CASE Tick
  <2>1. armPc' = 0
    BY <1>4 DEF Tick
  <2>2. ASSUME Working, NEW s \in Side
        PROVE  pend'[s] = Oriented(s, cur'[s]) /\ Near(pend'[s], out'[s])
    <3>1. /\ pend'[s] = Oriented(s, cur'[s])
          /\ cur' = NextOutputs
          /\ out'[s] = Oriented(s, cur[s])
      BY <1>4, <2>2 DEF Tick, Directed
    <3>2. /\ cur'[s] \in Value /\ cur[s] \in Value
          /\ MaxDelta > 0 => Abs(cur'[s] - cur[s]) <= MaxDelta
      BY <3>1, NextOutputsRange DEF TypeOK
    <3>3. Abs(Oriented(s, cur'[s]) - Oriented(s, cur[s])) = Abs(cur'[s] - cur[s])
      BY <3>2, OrientedRange
    <3>4. QED
      BY <3>1, <3>2, <3>3 DEF Near
  <2>3. QED
    BY <1>4, <2>1, <2>2 DEF Tick
<1>5. CASE TickLeft
  <2>1. out' = [out EXCEPT !["left"] = pend["left"]]
    BY <1>5, WriteRange DEF TickLeft, Reliable, TypeOK, Side
  <2>2. Near(pend["left"], pend["left"])
    BY ConfigAssumption DEF Near, Abs, TypeOK, Value, Side
  <2>3. QED
    BY <1>5, <2>1, <2>2 DEF TickLeft, TypeOK, Side
<1>6. CASE TickRight
  <2>1. out' = [out EXCEPT !["right"] = pend["right"]]
    BY <1>6, WriteRange DEF TickRight, Reliable, TypeOK, Side
  <2>2. QED
    BY <1>6, <2>1 DEF TickRight, TypeOK, Side
<1>7. CASE LoopExit \/ LoopZeroLeft \/ LoopZeroRight
  BY <1>7 DEF LoopExit, LoopZeroLeft, LoopZeroRight
<1>8. CASE Closing
  BY <1>8 DEF Closing, Close, CloseJoined, CloseZeroLeft, CloseZeroRight
<1>9. QED
  BY <1>1, <1>2, <1>3, <1>4, <1>5, <1>6, <1>7, <1>8 DEF Next, Loop

\* Between two control steps of a running controller the two actuators hold
\* the outputs of one and the same step.
THEOREM CoherentOutputs ==
  ASSUME Intents \subseteq Int, Reliable
  PROVE  Spec => []OutputsCoherent
<1>1. Spec => []TypeOK
  BY TypeCorrect
<1>2. TypeOK /\ CoherentInv /\ [Next]_vars => CoherentInv'
  BY CoherentStep
<1>3. CoherentInv => OutputsCoherent
  BY DEF CoherentInv, OutputsCoherent, Working
<1>4. QED
  BY <1>1, <1>2, <1>3, CoherentInit, PTL DEF Spec

SlewStep ==
  MaxDelta > 0 /\ ~cancelled' /\ closer' = "idle" =>
    \A s \in Side : Abs(out'[s] - out[s]) <= MaxDelta

LEMMA SlewStepHolds ==
  ASSUME Reliable
  PROVE  TypeOK /\ CoherentInv /\ [Next]_vars => [SlewStep]_vars
<1> SUFFICES ASSUME TypeOK, CoherentInv, [Next]_vars, MaxDelta > 0,
                    ~cancelled', closer' = "idle", NEW s \in Side
             PROVE  Abs(out'[s] - out[s]) <= MaxDelta
  BY DEF SlewStep
<1> USE DEF intent, process
<1>1. CASE out' = out
  BY <1>1, ConfigAssumption DEF Abs, TypeOK, Value
<1>2. CASE TickLeft \/ TickRight
  <2>1. Working /\ loop \in {"writeLeft", "writeRight"}
    BY <1>2 DEF TickLeft, TickRight, Working
  <2>2. out'[s] = out[s] \/ out'[s] = pend[s]
    BY <1>2, WriteRange DEF TickLeft, TickRight, Reliable, TypeOK, Side
  <2>3. Abs(pend[s] - out[s]) <= MaxDelta
    BY <2>1 DEF CoherentInv, Near
  <2>4. out[s] \in Value
    BY DEF TypeOK
  <2>5. QED
    BY <2>2, <2>3, <2>4, ConfigAssumption DEF Abs, Value
<1>3. CASE LoopZeroLeft \/ LoopZeroRight
  BY <1>3 DEF LoopZeroLeft, LoopZeroRight, CoherentInv, Working
<1>4. CASE CloseZeroLeft \/ CloseZeroRight
  BY <1>4 DEF CloseZeroLeft, CloseZeroRight
<1>5. CASE Arming
  BY <1>1, <1>5 DEF Arming, Arm, ArmStep, ArmDone, ArmInterrupted, CoherentInv, Reliable
<1>6. QED
  BY <1>1, <1>2, <1>3, <1>4, <1>5 DEF Next, Start, Elapse, CancelContext, Command,
     Stop, SetIntent, Loop, Tick, LoopExit, Closing, Close, CloseJoined, vars

\* No actuator of a running controller is told to move by more than the slew
\* limit in one step.
THEOREM SlewIsLimited ==
  ASSUME Intents \subseteq Int, Reliable
  PROVE  Spec => SlewLimited
<1>1. Spec => []TypeOK
  BY TypeCorrect
<1>2. TypeOK /\ CoherentInv /\ [Next]_vars => CoherentInv'
  BY CoherentStep
<1>3. TypeOK /\ CoherentInv /\ [Next]_vars => [SlewStep]_vars
  BY SlewStepHolds
<1>4. [][SlewStep]_vars => SlewLimited
  BY PTL DEF SlewLimited, SlewStep
<1>5. QED
  BY <1>1, <1>2, <1>3, <1>4, CoherentInit, PTL DEF Spec
=============================================================================
