----------------------------- MODULE TankDrive -----------------------------
(***************************************************************************)
(* The tank-drive controller of components/drive/tankdrive/tankdrive.go    *)
(* and the two PWM actuators it drives.                                    *)
(*                                                                         *)
(* Three kinds of goroutine touch the actuators: the fixed-rate control    *)
(* loop, the goroutine that calls Close, and a goroutine that runs the     *)
(* multi-second arming sequence.  A control step computes both outputs     *)
(* under the mutex but writes them after the unlock, one actuator after    *)
(* the other, so every write below is a step of its own.                   *)
(*                                                                         *)
(* Normalised values are integers, Unit standing for 1.0.  NaN is the      *)
(* IEEE value the code's float64 arithmetic can also carry: every          *)
(* comparison with it is false and every sum or product of it is NaN.      *)
(* Time is counted in periods of the loop's ticker.                        *)
(***************************************************************************)
EXTENDS Integers

CONSTANTS
  Unit,           \* 1.0
  MaxDelta,       \* slew_per_s * period; 0 disables the slew limit
  Gain,           \* yaw_gain
  Deadband,       \* deadband
  Timeout,        \* command_timeout_ms in periods; 0 disables the failsafe
  Intents,        \* the values callers pass as surge or yaw
  Inverted,       \* the sides with invert_left / invert_right set
  Events,         \* what happens to the controller: some of AllEvents
  NaN

Side == {"left", "right"}

\* Someone arms the drive, closes it, cancels the context it was started with;
\* SetNormalized or SetPulse returns an error.
AllEvents == {"arm", "close", "cancel", "writeError"}

\* What Config.Validate accepts (config.go:93), and what the scaling needs.
ASSUME ConfigAssumption ==
  /\ Unit \in Nat \ {0}
  /\ MaxDelta \in Nat
  /\ Gain \in Int
  /\ Deadband \in Nat /\ Deadband < Unit
  /\ Timeout \in Nat
  /\ Inverted \subseteq Side
  /\ Events \subseteq AllEvents
  /\ NaN \notin Int
  /\ Intents \subseteq Int \cup {NaN}

VARIABLES
  surge, yaw,  \* the commanded intent, clamped
  cur,         \* [Side -> value]: the slew-limited outputs (curLeft, curRight)
  active,      \* FALSE while the command-timeout failsafe holds
  armed,
  age,         \* periods since lastCmd, capped at Timeout + 1
  tickDue,     \* the ticker's channel (capacity 1) holds a tick
  cancelled,   \* the loop's context is done
  loop,        \* where the control-loop goroutine is
  pend,        \* outLeft, outRight of the step being written
  closer,      \* where the goroutine in Close is
  armPc,       \* 0, or the step of the arming sequence being held
  out          \* [Side -> value]: the last command each actuator received

vars == <<surge, yaw, cur, active, armed, age, tickDue, cancelled, loop, pend,
          closer, armPc, out>>

intent  == <<surge, yaw, active>>
process == <<loop, pend, closer, cancelled>>
-----------------------------------------------------------------------------
(* float64 arithmetic *)

Less(a, b)  == a # NaN /\ b # NaN /\ a < b
Plus(a, b)  == IF a = NaN \/ b = NaN THEN NaN ELSE a + b
Scale(k, a) == IF a = NaN THEN NaN ELSE k * a

Clamp(v, lo, hi) ==
  IF Less(v, lo) THEN lo ELSE IF Less(hi, v) THEN hi ELSE v

ApplyDeadband(v) == IF Less(v, Deadband) /\ Less(-Deadband, v) THEN 0 ELSE v

SlewUpOnly(c, target) ==  \* mutant: the lower bound is missing
  IF MaxDelta = 0 THEN target
  ELSE LET d == Plus(target, Scale(-1, c))
       IN  Plus(c, IF Less(MaxDelta, d) THEN MaxDelta ELSE d)

\* slew: move from c towards target by at most MaxDelta.
Slew(c, target) ==
  IF MaxDelta = 0
    THEN target
    ELSE Plus(c, Clamp(Plus(target, Scale(-1, c)), -MaxDelta, MaxDelta))

\* The mixed and clamped target of a side: surge + yaw on the left,
\* surge - yaw on the right.
Target(side, s, y) ==
  Clamp(Plus(s, Scale(IF side = "left" THEN Gain ELSE -Gain, y)), -Unit, Unit)

\* The mounting direction of an actuator.
Oriented(side, v) == IF side \in Inverted THEN Scale(-1, v) ELSE v

Neutral == [s \in Side |-> 0]
-----------------------------------------------------------------------------
(* The actuators: pwm.PWM.SetNormalized and SetPulse *)

WriteOk(side, v) == out' = [out EXCEPT ![side] = Clamp(v, -Unit, Unit)]

WriteFails == "writeError" \in Events /\ UNCHANGED out

\* The controller logs or ignores a failed write and carries on.
Write(side, v) == WriteOk(side, v) \/ WriteFails
-----------------------------------------------------------------------------
Init ==
  /\ surge = 0 /\ yaw = 0
  /\ cur = Neutral /\ out = Neutral /\ pend = Neutral
  /\ active = FALSE /\ armed = FALSE
  /\ age = 0 /\ tickDue = FALSE
  /\ cancelled = FALSE
  /\ loop = "off" /\ closer = "idle" /\ armPc = 0

(* Start: remember the time of the start, launch the loop. *)
Start ==
  /\ loop = "off" /\ closer = "idle"
  /\ loop' = "wait"
  /\ age' = 0
  /\ UNCHANGED <<intent, cur, armed, tickDue, cancelled, pend, closer, armPc, out>>

(* One period passes: lastCmd gets older and the ticker fires, a tick that *)
(* finds the channel full being dropped.                                   *)
Elapse ==
  /\ age' = IF age <= Timeout THEN age + 1 ELSE age
  /\ tickDue' = (loop \notin {"off", "done"})
  /\ UNCHANGED <<intent, cur, armed, process, armPc, out>>

(* The context the loop was started with is cancelled by its owner. *)
CancelContext ==
  /\ "cancel" \in Events
  /\ loop # "off" /\ ~cancelled
  /\ cancelled' = TRUE
  /\ UNCHANGED <<intent, cur, armed, age, tickDue, loop, pend, closer, armPc, out>>
-----------------------------------------------------------------------------
(* Commands *)

SetIntent(s, y) ==
  /\ loop # "off"
  /\ surge' = Clamp(s, -Unit, Unit)
  /\ yaw' = Clamp(y, -Unit, Unit)
  /\ age' = 0
  /\ UNCHANGED <<cur, active, armed, tickDue, process, armPc, out>>

Stop == SetIntent(0, 0)

\* Arm holds the maximum and then the centre pulse, first on the left
\* actuator and then on the right one.  Pulses bypass the mounting direction.
ArmPlan == << <<"left", Unit>>, <<"left", 0>>, <<"right", Unit>>, <<"right", 0>> >>

Arm ==
  /\ "arm" \in Events /\ closer = "idle" /\ armPc = 0
  /\ \/ WriteOk("left", Unit) /\ armPc' = 1
     \/ WriteFails /\ UNCHANGED armPc
  /\ UNCHANGED <<intent, cur, armed, age, tickDue, process>>

\* A hold is over: the next pulse, or an error that ends the sequence.
ArmStep ==
  /\ armPc \in 1 .. 3
  /\ LET step == ArmPlan[armPc + 1]
     IN  \/ WriteOk(step[1], step[2]) /\ armPc' = armPc + 1
         \/ WriteFails /\ armPc' = 0
  /\ UNCHANGED <<intent, cur, armed, age, tickDue, process>>

ArmDone ==
  /\ armPc = 4
  /\ armPc' = 0 /\ armed' = TRUE /\ age' = 0
  /\ UNCHANGED <<intent, cur, tickDue, process, out>>

\* The caller's context ends during a hold: Arm returns where it stands.
ArmInterrupted ==
  /\ armPc # 0
  /\ armPc' = 0
  /\ UNCHANGED <<intent, cur, armed, age, tickDue, process, out>>
-----------------------------------------------------------------------------
(* The control loop *)

Expired == Timeout > 0 /\ age > Timeout

CommandedAlways(v) == ApplyDeadband(v)  \* mutant: no command timeout

\* What a control step makes of a component of the intent.
Commanded(v) == ApplyDeadband(IF Expired THEN 0 ELSE v)

NextOutputs ==
  [side \in Side |->
     Slew(cur[side], Target(side, Commanded(surge), Commanded(yaw)))]

StaleDirected == [side \in Side |-> Oriented(side, cur[side])]  \* mutant

\* outLeft and outRight.
Directed == [side \in Side |-> Oriented(side, cur'[side])]

TickIfChanged ==  \* mutant: a step that changes nothing writes nothing
  /\ loop = "wait" /\ tickDue
  /\ cur' = NextOutputs
  /\ active' = ~Expired
  /\ pend' = Directed
  /\ tickDue' = FALSE
  /\ loop' = IF cur' = cur THEN "wait" ELSE "writeLeft"
  /\ UNCHANGED <<surge, yaw, armed, age, cancelled, closer, armPc, out>>

\* tick, up to the unlock.
Tick ==
  /\ loop = "wait" /\ tickDue
  /\ cur' = NextOutputs
  /\ active' = ~Expired
  /\ pend' = Directed
  /\ tickDue' = FALSE
  /\ loop' = "writeLeft"
  /\ UNCHANGED <<surge, yaw, armed, age, cancelled, closer, armPc, out>>

TickLeft ==
  /\ loop = "writeLeft" /\ loop' = "writeRight"
  /\ Write("left", pend["left"])
  /\ UNCHANGED <<intent, cur, armed, age, tickDue, pend, closer, cancelled, armPc>>

TickRight ==
  /\ loop = "writeRight" /\ loop' = "wait"
  /\ Write("right", pend["right"])
  /\ UNCHANGED <<intent, cur, armed, age, tickDue, pend, closer, cancelled, armPc>>

\* neutralize, up to the unlock.
ZeroState ==
  /\ surge' = 0 /\ yaw' = 0 /\ active' = FALSE
  /\ cur' = Neutral

LoopExitAtOnce ==  \* mutant: the loop returns without neutralizing
  /\ loop = "wait" /\ cancelled
  /\ ZeroState
  /\ loop' = "done"
  /\ UNCHANGED <<armed, age, tickDue, pend, closer, cancelled, armPc, out>>

LoopExitWhenIdle ==  \* mutant: pending ticks are served first
  /\ loop = "wait" /\ cancelled /\ ~tickDue
  /\ ZeroState
  /\ loop' = "zeroLeft"
  /\ UNCHANGED <<armed, age, tickDue, pend, closer, cancelled, armPc, out>>

LoopExit ==
  /\ loop = "wait" /\ cancelled
  /\ ZeroState
  /\ loop' = "zeroLeft"
  /\ UNCHANGED <<armed, age, tickDue, pend, closer, cancelled, armPc, out>>

LoopZeroLeft ==
  /\ loop = "zeroLeft" /\ loop' = "zeroRight"
  /\ Write("left", 0)
  /\ UNCHANGED <<intent, cur, armed, age, tickDue, pend, closer, cancelled, armPc>>

LoopZeroRight ==
  /\ loop = "zeroRight" /\ loop' = "done"
  /\ Write("right", 0)
  /\ UNCHANGED <<intent, cur, armed, age, tickDue, pend, closer, cancelled, armPc>>
-----------------------------------------------------------------------------
(* Close *)

Close ==
  /\ "close" \in Events
  /\ closer = "idle" /\ closer' = "join"
  /\ cancelled' = (loop # "off")  \* the cancel function is nil before Start
  /\ UNCHANGED <<intent, cur, armed, age, tickDue, loop, pend, armPc, out>>

\* The loop has ended, or the caller's context ends first: the code goes on
\* to neutralize either way.
CloseJoined ==
  /\ closer = "join" /\ closer' = "zeroLeft"
  /\ ZeroState
  /\ UNCHANGED <<armed, age, tickDue, loop, pend, cancelled, armPc, out>>

CloseZeroLeft ==
  /\ closer = "zeroLeft" /\ closer' = "zeroRight"
  /\ Write("left", 0)
  /\ UNCHANGED <<intent, cur, armed, age, tickDue, loop, pend, cancelled, armPc>>

CloseZeroRight ==
  /\ closer = "zeroRight" /\ closer' = "closed"
  /\ Write("right", 0)
  /\ UNCHANGED <<intent, cur, armed, age, tickDue, loop, pend, cancelled, armPc>>
-----------------------------------------------------------------------------
Command == \E s, y \in Intents : SetIntent(s, y)
Arming  == Arm \/ ArmStep \/ ArmDone \/ ArmInterrupted
Loop    == Tick \/ TickLeft \/ TickRight \/ LoopExit \/ LoopZeroLeft \/ LoopZeroRight
Closing == Close \/ CloseJoined \/ CloseZeroLeft \/ CloseZeroRight

Next == Start \/ Elapse \/ CancelContext \/ Command \/ Stop \/ Arming \/ Loop \/ Closing

Spec == Init /\ [][Next]_vars

\* Time passes and goroutines that can run do.  Go's select picks among ready
\* cases at random, so a loop that keeps finding its context done eventually
\* takes that branch although a tick is ready each time: strong fairness.
\* The same form says that writes may fail now and then but not every time.
\* Nobody is obliged to send a command, to arm or to close.
Fairness ==
  /\ WF_vars(Elapse)
  /\ WF_vars(Loop)
  /\ SF_vars(LoopExit)
  /\ SF_vars(TickLeft /\ WriteOk("left", pend["left"]))
  /\ SF_vars(TickRight /\ WriteOk("right", pend["right"]))
  /\ WF_vars(CloseJoined \/ CloseZeroLeft \/ CloseZeroRight)

FairSpec == Spec /\ Fairness
-----------------------------------------------------------------------------
(* Properties *)

Value == -Unit .. Unit

\* Types, and with them the range of every value on its way to an actuator:
\* the sum of two clamped intents, scaled by any yaw gain and moved by the
\* slew limiter, is a normalised value again (clamp, slew).
TypeOK ==
  /\ surge \in Value /\ yaw \in Value
  /\ cur \in [Side -> Value]
  /\ pend \in [Side -> Value]
  /\ out \in [Side -> Value]
  /\ active \in BOOLEAN /\ armed \in BOOLEAN
  /\ tickDue \in BOOLEAN /\ cancelled \in BOOLEAN
  /\ age \in 0 .. Timeout + 1
  /\ loop \in {"off", "wait", "writeLeft", "writeRight", "zeroLeft", "zeroRight", "done"}
  /\ closer \in {"idle", "join", "zeroLeft", "zeroRight", "closed"}
  /\ armPc \in 0 .. 4

Abs(n) == IF n < 0 THEN -n ELSE n

\* No actuator is ever told to jump by more than the slew limit allows in one
\* period, although the outputs are computed in one critical section and sent
\* later, one by one (SlewPerS, config.go:28).  Shutting down is exempt:
\* neutralize goes to the centre at once.
SlewLimited ==
  [][MaxDelta > 0 /\ ~cancelled' /\ closer' = "idle" =>
       \A s \in Side : Abs(out'[s] - out[s]) <= MaxDelta]_vars

\* Between two control steps of a running controller the pair of actuators
\* holds the two outputs of one and the same step: a command or a timeout
\* that arrives between the two writes never leaves the thrusters with a left
\* value and a right value of different steps.
OutputsCoherent ==
  loop = "wait" /\ ~cancelled /\ closer = "idle" =>
    \A s \in Side : out[s] = Oriented(s, cur[s])

\* Once the loop has ended its actuators are neutral, whatever step it was in
\* when its context was cancelled and however the writes of Close interleave
\* with its own.
NeutralWhenDone == loop = "done" => out = Neutral

\* A controller whose context is done, by Close or by its owner, does leave its
\* loop, even when the ticker is always ready and every write fails.
LoopEnds == cancelled ~> loop = "done"

Running == loop \notin {"off", "done"} /\ ~cancelled

\* Failsafe: when no intent arrives within the timeout the drive ramps to
\* neutral (CommandTimeoutMs, config.go:24), although single writes fail,
\* unless a command arrives, an arming sequence runs or the controller is
\* shut down before it gets there.
FailsafeStops ==
  (Expired /\ Running) ~> (out = Neutral \/ ~Expired \/ armPc # 0 \/ ~Running)

\* Whatever an arming sequence, interrupted or not, or a failed write left on
\* an actuator, a controller that keeps running takes it back: eventually it
\* holds the loop's own output again.
LoopReasserts ==
  \A s \in Side :
    armPc = 0 /\ loop = "wait" ~>
      out[s] = Oriented(s, cur[s]) \/ armPc # 0 \/ loop = "done"
=============================================================================
