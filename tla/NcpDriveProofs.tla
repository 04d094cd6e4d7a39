--------------------------- MODULE NcpDriveProofs ---------------------------
(***************************************************************************)
(* Proofs about a component exposed over NCP, for any clients, number of   *)
(* calls, and messages lost or not: the server and the remote drives keep  *)
(* the promise of AtMostOnceCalls.                                         *)
(***************************************************************************)
EXTENDS NcpDrive, SequenceTheorems, TLAPS

LEMMA RequestIsNotEmpty == \A r \in Requests : r # <<>>
<1>1. ASSUME NEW r \in Requests
      PROVE  "call" \in DOMAIN r
  BY DEF Requests
<1>2. DOMAIN <<>> = 1 .. 0
  OBVIOUS
<1>3. QED
  BY <1>1, <1>2

\* What PublishState may do: some subscribers get one more state.
LEMMA Published ==
  ASSUME stateQ \in [Clients -> Seq(State)], drv \in State, lost \in BOOLEAN, PublishState
  PROVE  stateQ' \in [Clients -> Seq(State)] /\ lost' \in BOOLEAN
<1> DEFINE To(receivers) == [c \in Clients |-> IF c \in receivers
                                             THEN Append(stateQ[c], drv) ELSE stateQ[c]]
<1>1. ASSUME NEW R
      PROVE  To(R) \in [Clients -> Seq(State)]
  OBVIOUS
<1>2. \E R : stateQ' = To(R)
  BY Zenon DEF PublishState
<1>3. lost' \in BOOLEAN
  BY DEF PublishState, Lose
<1> HIDE DEF To
<1>4. QED
  BY <1>1, <1>2, <1>3

LEMMA StateOfCapability == \A k \in Capabilities : StateOf[k] \subseteq State /\ Zero[k] \in StateOf[k]
<1>1. StateOf["drive"] \subseteq State /\ StateOf["pwm"] \subseteq State
  BY DEF State
<1>2. Zero["drive"] \in StateOf["drive"] /\ Zero["pwm"] \in StateOf["pwm"]
  BY DEF StateOf, Zero
<1>3. QED
  BY <1>1, <1>2, NcpAssumption

\* What dispatch makes of a component's state is a state of it, whether it fails or not.
LEMMA StateKept ==
  ASSUME capability \in Capabilities, drv \in StateOf[capability],
         NEW method \in AllMethods
  PROVE  /\ method \in MethodsOf[capability] => Executed(method) \in StateOf[capability]
         /\ Spoilt(method) \subseteq StateOf[capability]
<1>1. CASE capability = "drive"
  <2>1. drv \in [intent : {0, 1}, output : {0, 1}, armed : BOOLEAN, active : BOOLEAN]
    BY <1>1 DEF StateOf
  <2>2. method \in MethodsOf[capability] =>
          DriveExecuted(method) \in [intent : {0, 1}, output : {0, 1}, armed : BOOLEAN, active : BOOLEAN]
    BY <1>1, <2>1 DEF MethodsOf, DriveExecuted
  <2>3. Spoilt(method) \subseteq StateOf[capability]
    BY <1>1 DEF Spoilt
  <2>4. QED
    BY <1>1, <2>2, <2>3 DEF Executed, StateOf
<1>2. CASE capability = "pwm"
  <2>1. drv \in [pulse_us : {0, 1}, enabled : BOOLEAN]
    BY <1>2 DEF StateOf
  <2>2. method \in MethodsOf[capability] => PwmExecuted(method) \in [pulse_us : {0, 1}, enabled : BOOLEAN]
    BY <1>2, <2>1 DEF MethodsOf, PwmExecuted
  <2>3. Spoilt(method) \subseteq [pulse_us : {0, 1}, enabled : BOOLEAN]
    <3>1. \A u \in {0, 1} : [pulse_us |-> u, enabled |-> TRUE] \in [pulse_us : {0, 1}, enabled : BOOLEAN]
      OBVIOUS
    <3>2. \A x \in Spoilt(method) : x = drv \/ \E u \in {0, 1} : x = [pulse_us |-> u, enabled |-> TRUE]
      BY DEF Spoilt
    <3>3. QED
      BY <2>1, <3>1, <3>2
  <2>4. QED
    BY <1>2, <2>2, <2>3 DEF Executed, StateOf
<1>3. QED
  BY <1>1, <1>2, NcpAssumption

\* What the component does without the server: one more state, and nothing else.
LEMMA MovedAlone ==
  ASSUME TypeOK, Loop \/ LocalCall
  PROVE  /\ drv' \in StateOf[capability] /\ moved' \in Nat /\ since' = since \cup {drv'}
         /\ UNCHANGED <<capability, exposed, queue, serving, phase, failed, ran, client, stateQ, lost>>
<1>1. ASSUME NEW s, Changes(s)
      PROVE  /\ drv' = s /\ moved' \in Nat /\ since' = since \cup {drv'}
             /\ UNCHANGED <<capability, exposed, queue, serving, phase, failed, ran, client, stateQ, lost>>
  BY <1>1 DEF Changes, TypeOK
<1>2. CASE Loop
  <2>1. PICK s \in StateOf["drive"] : Changes(s)
    BY <1>2 DEF Loop
  <2> QED
    BY <1>1, <1>2, <2>1 DEF Loop
<1>3. CASE LocalCall
  <2>0. PICK method \in Methods \cap MethodsOf[capability] :
          \E s \in {Executed(method)} \cup Spoilt(method) : Changes(s)
    BY <1>3 DEF LocalCall
  <2>1. PICK s \in {Executed(method)} \cup Spoilt(method) : Changes(s)
    BY <2>0
  <2>2. s \in StateOf[capability]
    BY StateKept, NcpAssumption DEF TypeOK
  <2> QED
    BY <1>1, <2>1, <2>2
<1> QED
  BY <1>2, <1>3

\* Every variable keeps its type.
THEOREM Typing == Spec => []TypeOK
<1>1. Init => TypeOK
  <2> SUFFICES ASSUME Init
               PROVE  TypeOK
    OBVIOUS
  <2>1. Zero[capability] \in State
    BY StateOfCapability DEF Init
  <2>2. /\ made \in [Clients -> Nat]
        /\ status \in [Clients -> {"idle", "waiting", "ok", "error", "timeout"}]
        /\ answer \in [Clients -> {<<>>} \cup {<<r>> : r \in State \cup {Failed}}]
        /\ link \in [Clients -> {"new", "open", "closed"}]
    BY DEF Init
  <2>3. /\ stateQ \in [Clients -> Seq(State)]
        /\ cache \in [Clients -> State]
        /\ succeeded \in [Clients -> SUBSET Nat]
    BY <2>1 DEF Init
  <2>4. queue \in Seq(Requests) /\ ran \in Seq(Clients \X (Nat \ {0}))
    <3>1. \A S : <<>> \in Seq(S)
      OBVIOUS
    <3>2. QED
      BY <3>1, Zenon DEF Init
  <2>5. /\ capability \in Capabilities /\ drv \in StateOf[capability]
        /\ moved \in Nat /\ since \subseteq State /\ failed \in BOOLEAN /\ heard \subseteq Clients
    BY <2>1, StateOfCapability DEF Init
  <2>6. QED
    BY <2>2, <2>3, <2>4, <2>5 DEF Init, TypeOK
<1>2. TypeOK /\ [Next]_vars => TypeOK'
  <2> SUFFICES ASSUME TypeOK, [Next]_vars
               PROVE  TypeOK'
    OBVIOUS
  <2>0. drv \in State
    BY StateOfCapability DEF TypeOK
  <2>1. CASE Expose
    <3>1. stateQ' \in [Clients -> Seq(State)] /\ lost' \in BOOLEAN
      BY <2>0, <2>1, Published DEF Expose, TypeOK
    <3>2. exposed' = "open" /\ queue' = queue
      BY <2>1 DEF Expose
    <3>3. QED
      BY <2>1, <3>1, <3>2 DEF Expose, TypeOK, client, component
  <2>2. CASE Take
    <3>1. Head(queue) \in Requests /\ Tail(queue) \in Seq(Requests) /\ exposed = "open"
      BY <2>2 DEF Take, TypeOK
    <3>2. QED
      BY <2>2, <3>1 DEF Take, TypeOK, client, component
  <2>3. CASE Dispatch
    <3>1. serving \in Requests
      BY <2>3 DEF Dispatch, TypeOK
    <3>2. /\ capability' = capability /\ drv' \in StateOf[capability] /\ moved' = moved
          /\ since' \subseteq State /\ failed' \in BOOLEAN
      <4>1. serving.method \in AllMethods
        BY <3>1, NcpAssumption DEF Requests
      <4>2. /\ serving.method \in MethodsOf[capability] => Executed(serving.method) \in StateOf[capability]
            /\ Spoilt(serving.method) \subseteq StateOf[capability]
        BY <4>1, StateKept DEF TypeOK
      <4>3. StateOf[capability] \subseteq State
        BY StateOfCapability DEF TypeOK
      <4>4. QED
        BY <2>3, <4>2, <4>3 DEF Dispatch, TypeOK
    <3>3. ran' \in Seq(Clients \X (Nat \ {0}))
      <4>1. serving.call \in Clients \X (Nat \ {0})
        BY <3>1 DEF Requests
      <4>2. QED
        BY <2>3, <4>1 DEF Dispatch, TypeOK
    <3>4. QED
      BY <2>3, <3>1, <3>2, <3>3 DEF Dispatch, TypeOK, client
  <2>4. CASE Respond
    <3>1. serving \in Requests
      BY <2>4 DEF Respond, TypeOK
    <3>2. answer' \in [Clients -> {<<>>} \cup {<<r>> : r \in State \cup {Failed}}]
      <4> DEFINE result == IF failed THEN Failed ELSE drv
      <4>1. \/ answer' = answer
            \/ answer' = [answer EXCEPT ![serving.call[1]] = <<result>>]
        BY <2>4 DEF Respond
      <4>2. <<result>> \in {<<r>> : r \in State \cup {Failed}}
        BY <2>0
      <4> HIDE DEF result
      <4> DEFINE Answers == {<<>>} \cup {<<r>> : r \in State \cup {Failed}}
      <4>3. answer \in [Clients -> Answers] /\ <<result>> \in Answers
        BY <4>2 DEF TypeOK
      <4> HIDE DEF Answers
      <4>4. answer' \in [Clients -> Answers]
        BY <4>1, <4>3
      <4>5. QED
        BY <4>4 DEF Answers
    <3>3. lost' \in BOOLEAN
      BY <2>4 DEF Respond, Lose, TypeOK
    <3>4. /\ \/ phase' = "idle" /\ serving' = <<>>
             \/ phase' = "publish" /\ serving' = serving
          /\ failed' = FALSE
      BY <2>4 DEF Respond
    <3>5. QED
      BY <2>4, <3>1, <3>2, <3>3, <3>4 DEF Respond, TypeOK, component
  <2>5. CASE Publish
    <3>1. stateQ' \in [Clients -> Seq(State)] /\ lost' \in BOOLEAN
      BY <2>0, <2>5, Published DEF Publish, TypeOK
    <3>2. QED
      BY <2>5, <3>1 DEF Publish, TypeOK, client, component
  <2>6. CASE CloseServer
    BY <2>6 DEF CloseServer, TypeOK, client, component
  <2>7. ASSUME NEW c \in Clients, Subscribe(c)
        PROVE  TypeOK'
    BY <2>7 DEF Subscribe, TypeOK, server, component
  <2>8. ASSUME NEW c \in Clients, CloseClient(c)
        PROVE  TypeOK'
    <3>1. stateQ' \in [Clients -> Seq(State)]
      BY <2>8 DEF CloseClient, TypeOK
    <3>2. link' \in [Clients -> {"new", "open", "closed"}]
      BY <2>8 DEF CloseClient, TypeOK
    <3>3. QED
      BY <2>8, <3>1, <3>2 DEF CloseClient, TypeOK, server, component
  <2>9. ASSUME NEW c \in Clients, NEW method \in Callable, Call(c, method)
        PROVE  TypeOK'
    <3>0. method \in Methods
      BY DEF Callable
    <3>1. made' \in [Clients -> Nat] /\ made'[c] = made[c] + 1
      BY <2>9, SMTT(30) DEF Call, TypeOK
    <3>2. status' \in [Clients -> {"idle", "waiting", "ok", "error", "timeout"}]
      BY <2>9 DEF Call, TypeOK
    <3>3. lost' \in BOOLEAN
      BY <2>9 DEF Call, Lose, TypeOK
    <3>4. queue' \in Seq(Requests) /\ (exposed # "open" => queue' = <<>>)
      <4>1. [call |-> <<c, made'[c]>>, method |-> method] \in Requests
        BY <3>0, <3>1 DEF TypeOK, Requests
      <4>2. \/ queue' = queue
            \/ /\ exposed = "open"
               /\ queue' = Append(queue, [call |-> <<c, made'[c]>>, method |-> method])
        BY <2>9 DEF Call
      <4> DEFINE r == [call |-> <<c, made'[c]>>, method |-> method]
      <4>3. queue \in Seq(Requests) /\ r \in Requests
        BY <4>1 DEF TypeOK
      <4> HIDE DEF r
      <4>4. Append(queue, r) \in Seq(Requests)
        BY <4>3
      <4>5. QED
        BY <4>2, <4>4 DEF TypeOK, r
    <3>5. QED
      BY <2>9, <3>1, <3>2, <3>3, <3>4 DEF Call, TypeOK, component
  <2>10. ASSUME NEW c \in Clients, TimeOut(c)
         PROVE  TypeOK'
    BY <2>10 DEF TimeOut, TypeOK, server, component
  <2>11. ASSUME NEW c \in Clients, Answered(c)
         PROVE  TypeOK'
    <3>1. status' \in [Clients -> {"idle", "waiting", "ok", "error", "timeout"}]
      BY <2>11 DEF Answered, TypeOK
    <3>2. cache' \in [Clients -> State]
      <4>1. answer[c] # <<Failed>> => answer[c][1] \in State
        BY <2>11 DEF Answered, TypeOK
      <4>2. QED
        BY <2>11, <4>1 DEF Answered, TypeOK
    <3>3. succeeded' \in [Clients -> SUBSET Nat] /\ heard' \subseteq Clients
      <4>1. succeeded[c] \cup {made[c]} \in SUBSET Nat
        BY DEF TypeOK
      <4>2. \/ succeeded' = succeeded
            \/ succeeded' = [succeeded EXCEPT ![c] = succeeded[c] \cup {made[c]}]
        BY <2>11 DEF Answered
      <4>3. heard' \subseteq Clients
        BY <2>11 DEF Answered, TypeOK
      <4>4. QED
        BY <4>1, <4>2, <4>3 DEF TypeOK
    <3>4. answer' \in [Clients -> {<<>>} \cup {<<r>> : r \in State \cup {Failed}}]
      BY <2>11 DEF Answered, TypeOK
    <3>5. QED
      BY <2>11, <3>1, <3>2, <3>3, <3>4 DEF Answered, TypeOK, server, component
  <2>12. ASSUME NEW c \in Clients, StateArrives(c)
         PROVE  TypeOK'
    <3>1. Head(stateQ[c]) \in State /\ Tail(stateQ[c]) \in Seq(State)
      BY <2>12 DEF StateArrives, TypeOK
    <3>2. cache' \in [Clients -> State] /\ stateQ' \in [Clients -> Seq(State)]
      BY <2>12, <3>1 DEF StateArrives, TypeOK
    <3>3. QED
      BY <2>12, <3>2 DEF StateArrives, TypeOK, server, component
  <2>13. CASE Loop \/ LocalCall
    <3>1. /\ drv' \in StateOf[capability] /\ moved' \in Nat /\ since' = since \cup {drv'}
          /\ UNCHANGED <<capability, exposed, queue, serving, phase, failed, ran, client, stateQ, lost>>
      BY <2>13, MovedAlone
    <3>2. since' \subseteq State
      BY <3>1, StateOfCapability DEF TypeOK
    <3>3. QED
      BY <3>1, <3>2 DEF TypeOK, client
  <2>14. CASE UNCHANGED vars
    BY <2>14 DEF vars, server, component, client, TypeOK
  <2>15. QED
    BY <2>1, <2>2, <2>3, <2>4, <2>5, <2>6, <2>7, <2>8, <2>9, <2>10, <2>11, <2>12, <2>13, <2>14
    DEF Next, Server, Handler, Client
<1>3. QED
  BY <1>1, <1>2, PTL DEF Spec
-----------------------------------------------------------------------------
\* Two calls of one client, in the order it made them.
Before(a, b) == a[1] = b[1] => a[2] < b[2]

HasMade(call) == call[2] <= made[call[1]]

Ran(call) == \E i \in 1 .. Len(ran) : ran[i] = call

\* What has run, what is being handled and what waits are in the order of each client.
QueueInv ==
  /\ \A i \in 1 .. Len(queue) : HasMade(queue[i].call)
  /\ \A i, j \in 1 .. Len(queue) : i < j => Before(queue[i].call, queue[j].call)

RanInv ==
  \A i \in 1 .. Len(ran) :
    /\ HasMade(ran[i])
    /\ \A j \in 1 .. Len(queue) : Before(ran[i], queue[j].call)

ServingInv ==
  /\ phase = "dispatch" =>
       /\ HasMade(serving.call)
       /\ \A i \in 1 .. Len(ran) : Before(ran[i], serving.call)
       /\ \A j \in 1 .. Len(queue) : Before(serving.call, queue[j].call)
  /\ phase = "respond" => Ran(serving.call)

\* An answer is to the last call of its client, and that call has run.
AnswerInv == \A c \in Clients : answer[c] # <<>> => Ran(<<c, made[c]>>)

IInv == QueueInv /\ RanInv /\ ServingInv /\ AnswerInv

\* IInv holds in every reachable state.
LEMMA Inductive == Spec => []IInv
<1>1. Init => IInv
  <2> SUFFICES ASSUME Init
               PROVE  IInv
    OBVIOUS
  <2>1. Len(queue) = 0 /\ Len(ran) = 0 /\ phase = "idle" /\ \A c \in Clients : answer[c] = <<>>
    BY DEF Init
  <2>2. QED
    BY <2>1 DEF IInv, QueueInv, RanInv, ServingInv, AnswerInv
<1>2. TypeOK /\ IInv /\ [Next]_vars => IInv'
  <2> SUFFICES ASSUME TypeOK, IInv, [Next]_vars
               PROVE  IInv'
    OBVIOUS
  <2> USE DEF IInv
  <2>1. CASE UNCHANGED <<queue, serving, phase, ran, made, answer>>
    BY <2>1 DEF QueueInv, RanInv, ServingInv, AnswerInv, HasMade, Ran
  <2>2. CASE Take
    <3>1. /\ serving' = Head(queue) /\ queue' = Tail(queue) /\ queue # <<>>
          /\ phase' = "dispatch" /\ ran' = ran /\ made' = made /\ answer' = answer
      BY <2>2 DEF Take, client
    <3>2. /\ queue \in Seq(Requests) /\ Len(queue) \in Nat /\ Len(queue) > 0
          /\ Len(queue') = Len(queue) - 1
          /\ \A i \in 1 .. Len(queue') : queue'[i] = queue[i + 1] /\ i + 1 \in 1 .. Len(queue)
          /\ serving' = queue[1] /\ 1 \in 1 .. Len(queue)
      BY <3>1 DEF TypeOK
    <3>3. QueueInv'
      BY <3>1, <3>2 DEF QueueInv, HasMade
    <3>4. RanInv'
      BY <3>1, <3>2 DEF RanInv, HasMade
    <3>5. ServingInv'
      <4>1. HasMade(serving.call)'
        BY <3>1, <3>2 DEF QueueInv, HasMade
      <4>2. \A i \in 1 .. Len(ran') : Before(ran'[i], serving'.call)
        BY <3>1, <3>2 DEF RanInv
      <4>3. \A j \in 1 .. Len(queue') : Before(serving'.call, queue'[j].call)
        BY <3>1, <3>2 DEF QueueInv
      <4>4. QED
        BY <3>1, <4>1, <4>2, <4>3 DEF ServingInv, Before
    <3>6. AnswerInv'
      BY <3>1 DEF AnswerInv, Ran
    <3>7. QED
      BY <3>3, <3>4, <3>5, <3>6
  <2>3. CASE Dispatch
    <3>1. /\ phase = "dispatch" /\ phase' = "respond" /\ ran' = Append(ran, serving.call)
          /\ queue' = queue /\ serving' = serving /\ made' = made /\ answer' = answer
      BY <2>3 DEF Dispatch, client
    <3>2. /\ Len(ran') = Len(ran) + 1 /\ Len(ran) \in Nat
          /\ ran'[Len(ran) + 1] = serving.call
          /\ \A i \in 1 .. Len(ran) : ran'[i] = ran[i]
      BY <3>1 DEF TypeOK
    <3>3. \A call : Ran(call) => Ran(call)'
      BY <3>2 DEF Ran
    <3>4. QueueInv'
      BY <3>1 DEF QueueInv, HasMade
    <3>5. RanInv'
      BY <3>1, <3>2 DEF RanInv, ServingInv, HasMade
    <3>6. ServingInv'
      BY <3>1, <3>2 DEF ServingInv, Ran
    <3>7. AnswerInv'
      BY <3>1, <3>3 DEF AnswerInv
    <3>8. QED
      BY <3>4, <3>5, <3>6, <3>7
  <2>4. CASE Respond
    <3>1. /\ phase = "respond" /\ phase' # "dispatch" /\ phase' # "respond"
          /\ queue' = queue /\ ran' = ran /\ made' = made
      BY <2>4 DEF Respond
    <3>2. QueueInv' /\ RanInv' /\ ServingInv'
      BY <3>1 DEF QueueInv, RanInv, ServingInv, HasMade
    <3>3. AnswerInv'
      <4> DEFINE c == serving.call[1]
      <4>1. \/ answer' = answer
            \/ serving.call[2] = made[c] /\ \E r : answer' = [answer EXCEPT ![c] = <<r>>]
        BY <2>4 DEF Respond
      <4>2. serving.call = <<c, serving.call[2]>>
        BY <3>1 DEF TypeOK, Requests
      <4>3. Ran(serving.call)
        BY <3>1 DEF ServingInv
      <4>4. ASSUME NEW d \in Clients, answer'[d] # <<>>
            PROVE  Ran(<<d, made[d]>>)
        BY <4>1, <4>2, <4>3, <4>4 DEF AnswerInv, TypeOK
      <4>5. QED
        BY <3>1, <4>4 DEF AnswerInv, Ran
    <3>4. QED
      BY <3>2, <3>3
  <2>5. CASE Publish
    BY <2>5 DEF Publish, client, QueueInv, RanInv, ServingInv, AnswerInv, HasMade, Ran
  <2>6. CASE CloseServer
    <3>1. Len(queue') = 0 /\ UNCHANGED <<serving, phase, ran, made, answer>>
      BY <2>6 DEF CloseServer, client
    <3>2. QueueInv' /\ AnswerInv'
      <4>1. 1 .. Len(queue') = {}
        BY <3>1
      <4>2. QED
        BY <3>1, <4>1 DEF QueueInv, AnswerInv, Ran
    <3>3. RanInv' /\ ServingInv'
      BY <3>1 DEF RanInv, ServingInv, HasMade, Ran, Before
    <3>4. QED
      BY <3>2, <3>3
  <2>7. ASSUME NEW c \in Clients, NEW method \in Callable, Call(c, method)
        PROVE  IInv'
    <3>0. PICK n \in Nat \ {0} : n = made[c] + 1
      BY DEF TypeOK
    <3> DEFINE r == [call |-> <<c, n>>, method |-> method]
    <3>1. /\ made' = [made EXCEPT ![c] = n] /\ made[c] \in Nat /\ answer[c] = <<>>
          /\ \/ queue' = queue
             \/ queue' = Append(queue, r)
          /\ UNCHANGED <<serving, phase, ran, answer>>
      BY <2>7, <3>0 DEF Call, TypeOK
    <3>2. \A call \in Clients \X (Nat \ {0}) : HasMade(call) => HasMade(call)' /\ Before(call, <<c, n>>)
      BY <3>0, <3>1 DEF HasMade, Before, TypeOK
    <3>3. HasMade(<<c, n>>)'
      BY <3>1 DEF HasMade, TypeOK
    <3>4. \A i \in 1 .. Len(queue) : queue[i].call \in Clients \X (Nat \ {0})
      <4>1. \A i \in 1 .. Len(queue) : queue[i] \in Requests
        BY DEF TypeOK
      <4>2. QED
        BY <4>1 DEF Requests
    <3>5. \A i \in 1 .. Len(ran) : ran[i] \in Clients \X (Nat \ {0})
      BY DEF TypeOK
    <3>6. phase = "dispatch" => serving.call \in Clients \X (Nat \ {0})
      BY DEF TypeOK, Requests
    <3>7. r.call = <<c, n>>
      OBVIOUS
    <3> HIDE DEF r
    <3>8. \/ queue' = queue
          \/ /\ Len(queue') = Len(queue) + 1 /\ Len(queue) \in Nat
             /\ queue'[Len(queue) + 1] = r
             /\ \A i \in 1 .. Len(queue) : queue'[i] = queue[i]
      BY <3>1 DEF TypeOK
    <3>9. QueueInv'
      <4>1. CASE queue' = queue
        BY <3>2, <3>4, <4>1 DEF QueueInv
      <4>2. CASE queue' # queue
        <5>1. ASSUME NEW i \in 1 .. Len(queue')
              PROVE  HasMade(queue[i].call)'
          BY <3>2, <3>3, <3>4, <3>7, <3>8, <4>2, <5>1, SMTT(30) DEF QueueInv
        <5>2. ASSUME NEW i \in 1 .. Len(queue'), NEW j \in 1 .. Len(queue'), i < j
              PROVE  Before(queue'[i].call, queue'[j].call)
          <6>1. i \in 1 .. Len(queue) /\ queue'[i] = queue[i] /\ HasMade(queue[i].call)
            BY <3>8, <4>2, <5>2 DEF QueueInv
          <6>2. CASE j = Len(queue) + 1
            BY <3>2, <3>4, <3>7, <3>8, <4>2, <6>1, <6>2
          <6>3. CASE j # Len(queue) + 1
            BY <3>8, <4>2, <5>2, <6>1, <6>3 DEF QueueInv
          <6>4. QED
            BY <6>2, <6>3
        <5>3. QED
          BY <5>1, <5>2 DEF QueueInv, Before
      <4>3. QED
        BY <4>1, <4>2
    <3>10. RanInv'
      <4>1. ASSUME NEW i \in 1 .. Len(ran'), NEW j \in 1 .. Len(queue')
            PROVE  Before(ran'[i], queue'[j].call)
        <5>1. /\ i \in 1 .. Len(ran) /\ ran'[i] = ran[i] /\ HasMade(ran[i])
              /\ ran[i] \in Clients \X (Nat \ {0})
          BY <3>1, <3>5, <4>1 DEF RanInv
        <5>2. CASE j \in 1 .. Len(queue) /\ queue'[j] = queue[j]
          BY <5>1, <5>2 DEF RanInv
        <5>3. CASE j = Len(queue) + 1 /\ queue'[j] = r
          BY <3>2, <3>7, <5>1, <5>3
        <5>4. QED
          BY <3>8, <4>1, <5>2, <5>3
      <4>2. \A i \in 1 .. Len(ran') : HasMade(ran[i])'
        BY <3>1, <3>2, <3>5 DEF RanInv
      <4>3. QED
        BY <4>1, <4>2 DEF RanInv, Before
    <3>11. ServingInv'
      <4>1. ASSUME phase' = "dispatch", NEW j \in 1 .. Len(queue')
            PROVE  Before(serving'.call, queue'[j].call)
        <5>1. /\ serving' = serving /\ HasMade(serving.call)
              /\ serving.call \in Clients \X (Nat \ {0})
              /\ \A i \in 1 .. Len(queue) : Before(serving.call, queue[i].call)
          BY <3>1, <3>6, <4>1 DEF ServingInv
        <5>2. CASE queue' = queue
          BY <5>1, <5>2
        <5>3. CASE queue' # queue /\ j = Len(queue) + 1
          BY <3>2, <3>7, <3>8, <5>1, <5>3
        <5>4. CASE queue' # queue /\ j # Len(queue) + 1
          BY <3>8, <5>1, <5>4
        <5>5. QED
          BY <5>2, <5>3, <5>4
      <4>2. phase' = "dispatch" => HasMade(serving.call)'
        BY <3>1, <3>2, <3>6 DEF ServingInv
      <4>3. QED
        BY <3>1, <4>1, <4>2 DEF ServingInv, Before, Ran
    <3>12. AnswerInv'
      BY <3>1 DEF AnswerInv, Ran, TypeOK
    <3>13. QED
      BY <3>9, <3>10, <3>11, <3>12
  <2>8. ASSUME NEW c \in Clients, Answered(c)
        PROVE  IInv'
    <3>1. answer' = [answer EXCEPT ![c] = <<>>] /\ UNCHANGED <<queue, serving, phase, ran, made>>
      BY <2>8 DEF Answered, server
    <3>2. QED
      BY <3>1 DEF QueueInv, RanInv, ServingInv, AnswerInv, HasMade, Ran, TypeOK
  <2>9. CASE Expose \/ Loop \/ LocalCall \/ UNCHANGED vars
    BY <2>1, <2>9, MovedAlone DEF Expose, client, server, vars
  <2>10. ASSUME NEW c \in Clients, Subscribe(c) \/ CloseClient(c) \/ TimeOut(c) \/ StateArrives(c)
         PROVE  IInv'
    BY <2>1, <2>10 DEF Subscribe, CloseClient, TimeOut, StateArrives, server
  <2>11. QED
    BY <2>2, <2>3, <2>4, <2>5, <2>6, <2>7, <2>8, <2>9, <2>10 DEF Next, Server, Handler, Client
<1>3. QED
  BY <1>1, <1>2, Typing, PTL DEF Spec
-----------------------------------------------------------------------------
\* Every step of the server and its clients is one AtMostOnceCalls allows, or none of
\* what it speaks about: a call is executed at most once, in the order of its client,
\* and "ok" means that it was, whatever times out, is lost or comes late.
THEOREM CallsAtMostOnce == Spec => ImplementsCalls
<1>1. Init => Promise!Init
  BY DEF Init, Promise!Init
<1>2. TypeOK /\ IInv /\ [Next]_vars => [Promise!Next]_<<made, ran, succeeded>>
  <2> SUFFICES ASSUME TypeOK, IInv, [Next]_vars
               PROVE  [Promise!Next]_<<made, ran, succeeded>>
    OBVIOUS
  <2>1. ASSUME NEW c \in Clients, NEW method \in Callable, Call(c, method)
        PROVE  Promise!Next
    BY <2>1 DEF Call, Promise!Next, Promise!Make
  <2>2. CASE Dispatch
    <3>1. PICK c \in Clients, n \in Nat \ {0} : serving.call = <<c, n>>
      <4>1. serving \in Requests
        BY <2>2 DEF Dispatch, TypeOK
      <4>2. QED
        BY <4>1 DEF Requests
    <3>2. n \in 1 .. made[c]
      BY <2>2, <3>1 DEF Dispatch, IInv, ServingInv, HasMade, TypeOK
    <3>3. \A i \in 1 .. Len(ran) : ran[i][1] = c => ran[i][2] < n
      BY <2>2, <3>1 DEF Dispatch, IInv, ServingInv, Before
    <3>4. Promise!Execute(c, n)
      BY <2>2, <3>1, <3>3 DEF Dispatch, client, Promise!Execute
    <3>5. QED
      BY <3>2, <3>4 DEF Promise!Next
  <2>3. ASSUME NEW c \in Clients, Answered(c)
        PROVE  [Promise!Next]_<<made, ran, succeeded>>
    <3>1. PICK i \in 1 .. Len(ran) : ran[i] = <<c, made[c]>>
      BY <2>3 DEF Answered, IInv, AnswerInv, Ran
    <3>2. made[c] \in 1 .. made[c]
      <4>1. ran[i] \in Clients \X (Nat \ {0})
        BY DEF TypeOK
      <4>2. QED
        BY <3>1, <4>1
    <3>3. \/ UNCHANGED <<made, ran, succeeded>>
          \/ Promise!Return(c, made[c])
      BY <2>3, <3>1 DEF Answered, server, Promise!Return
    <3>4. QED
      BY <3>2, <3>3 DEF Promise!Next
  <2>4. CASE Expose \/ Take \/ Respond \/ Publish \/ CloseServer \/ Loop \/ LocalCall \/ UNCHANGED vars
    BY <2>4, MovedAlone DEF Expose, Take, Respond, Publish, CloseServer, client, server, vars
  <2>5. ASSUME NEW c \in Clients, Subscribe(c) \/ CloseClient(c) \/ TimeOut(c) \/ StateArrives(c)
        PROVE  UNCHANGED <<made, ran, succeeded>>
    BY <2>5 DEF Subscribe, CloseClient, TimeOut, StateArrives, server
  <2>6. QED
    BY <2>1, <2>2, <2>3, <2>4, <2>5 DEF Next, Server, Handler, Client
<1>3. QED
  BY <1>1, <1>2, Typing, Inductive, PTL DEF Spec, ImplementsCalls, Promise!Spec

\* A closed server takes up no further request.
THEOREM NoMoreService == Spec => ClosedServesNoMore
<1>1. TypeOK /\ [Next]_vars => [exposed # "open" /\ serving = <<>> => serving' = <<>> /\ ran' = ran]_vars
  <2> SUFFICES ASSUME TypeOK, Next, exposed # "open", serving = <<>>
               PROVE  serving' = <<>> /\ ran' = ran
    OBVIOUS
  <2>1. queue = <<>> /\ phase = "idle"
    BY RequestIsNotEmpty DEF TypeOK
  <2>2. CASE Server
    BY <2>1, <2>2 DEF Server, Handler, Expose, Take, Dispatch, Respond, Publish, CloseServer
  <2>3. ASSUME NEW c \in Clients, Client(c)
        PROVE  serving' = <<>> /\ ran' = ran
    BY <2>3 DEF Client, Subscribe, CloseClient, Call, TimeOut, Answered, StateArrives, server
  <2>4. CASE Loop \/ LocalCall
    BY <2>4, MovedAlone
  <2>5. QED
    BY <2>2, <2>3, <2>4 DEF Next
<1>2. QED
  BY <1>1, Typing, PTL DEF Spec, ClosedServesNoMore
-----------------------------------------------------------------------------
\* A client that makes no calls, or the only one that does.
Alone(c) == made[c] = 0 \/ \A d \in Clients \ {c} : made[d] = 0

\* The handler of a call that succeeded is on its way to publish.
Pending == phase = "publish" \/ (phase = "respond" /\ ~failed)

\* What the client will believe when it has read what it was sent.
Newest(c) == IF stateQ[c] = <<>> THEN cache[c] ELSE stateQ[c][Len(stateQ[c])]

NewInv == \A c \in Clients : link[c] = "new" => made[c] = 0 /\ c \notin heard /\ stateQ[c] = <<>>

\* An answer to the only caller is recent enough: nobody's call succeeds before it is read.
AnswerFresh ==
  \A c \in Clients :
    Alone(c) => answer[c] \in {<<>>, <<Failed>>} \cup {<<s>> : s \in since}

NewestInv ==
  ~lost =>
    \A c \in Subscribed :
      Alone(c) /\ (c \in heard \/ stateQ[c] # <<>>) => Pending \/ Newest(c) \in since

FollowInv == drv \in since /\ NewInv /\ AnswerFresh /\ NewestInv

\* While an answer waits for the only caller, or for a client without calls, which gets
\* none, the server has nothing to execute.
LEMMA AnswerIsLast ==
  ASSUME TypeOK, IInv, NEW c \in Clients, Alone(c), answer[c] # <<>>
  PROVE  made[c] # 0 /\ phase # "dispatch"
<1>1. PICK i \in 1 .. Len(ran) : ran[i] = <<c, made[c]>>
  BY DEF IInv, AnswerInv, Ran
<1>2. made[c] \in Nat \ {0}
  <2>1. ran[i] \in Clients \X (Nat \ {0})
    BY DEF TypeOK
  <2> QED
    BY <1>1, <2>1
<1>3. \A d \in Clients \ {c} : made[d] = 0
  BY <1>2 DEF Alone
<1>4. ASSUME phase = "dispatch"
      PROVE  FALSE
  <2>1. PICK d \in Clients, n \in Nat \ {0} : serving.call = <<d, n>>
    <3>1. serving \in Requests
      BY <1>4 DEF TypeOK
    <3> QED
      BY <3>1 DEF Requests
  <2>2. n <= made[d] /\ Before(ran[i], serving.call)
    BY <1>4, <2>1 DEF IInv, ServingInv, HasMade
  <2>3. d = c
    BY <1>3, <2>1, <2>2
  <2> QED
    BY <1>1, <1>2, <2>1, <2>2, <2>3 DEF Before
<1> QED
  BY <1>2, <1>4

\* A step that tells nobody anything, but may move the component.
LEMMA FollowQuiet ==
  ASSUME TypeOK, FollowInv, since \subseteq since', drv' \in since',
         UNCHANGED <<stateQ, cache, heard, answer>>,
         Pending' <=> Pending, lost => lost',
         \A c \in Clients : Alone(c)' => Alone(c),
         \A c \in Clients : link'[c] = link[c] \/ (link[c] = "new" /\ link'[c] = "open"),
         \A c \in Clients : link[c] = "new" => made'[c] = made[c]
  PROVE  FollowInv'
<1>2. NewInv'
  BY DEF FollowInv, NewInv
<1>3. AnswerFresh'
  BY DEF FollowInv, AnswerFresh
<1>4. NewestInv'
  <2> SUFFICES ASSUME ~lost', NEW c \in Clients, link'[c] = "open", Alone(c)',
                      c \in heard' \/ stateQ'[c] # <<>>, ~Pending'
               PROVE  Newest(c)' \in since'
    BY DEF NewestInv, Subscribed
  <2>1. c \in Subscribed
    BY DEF FollowInv, NewInv, Subscribed
  <2>2. Newest(c) \in since
    BY <2>1 DEF FollowInv, NewestInv
  <2> QED
    BY <2>2 DEF Newest
<1> QED
  BY <1>2, <1>3, <1>4 DEF FollowInv

\* After a publication every subscriber will believe what is so, unless it was lost.
LEMMA FollowPublish ==
  ASSUME TypeOK, FollowInv, drv \in State, PublishState,
         UNCHANGED <<drv, since, link, made, cache, heard, answer>>
  PROVE  FollowInv'
<1>1. \A c \in Clients : Alone(c)' <=> Alone(c)
  BY DEF Alone
<1>2. AnswerFresh'
  BY <1>1 DEF FollowInv, AnswerFresh
<1>3. PICK R \in SUBSET Subscribed :
        /\ stateQ' = [c \in Clients |-> IF c \in R THEN Append(stateQ[c], drv) ELSE stateQ[c]]
        /\ R = Subscribed \/ lost'
  BY DEF PublishState, Lose
<1>4. NewInv'
  BY <1>3 DEF FollowInv, NewInv, Subscribed
<1>5. NewestInv'
  <2> SUFFICES ASSUME ~lost', NEW c \in Clients, link'[c] = "open"
               PROVE  Newest(c)' = drv'
    BY DEF FollowInv, NewestInv, Subscribed
  <2>1. stateQ'[c] = Append(stateQ[c], drv) /\ stateQ[c] \in Seq(State)
    BY <1>3 DEF Subscribed, TypeOK
  <2> QED
    BY <2>1 DEF Newest
<1> QED
  BY <1>2, <1>4, <1>5 DEF FollowInv

LEMMA FollowDispatch ==
  ASSUME TypeOK, IInv, FollowInv, Dispatch
  PROVE  FollowInv'
<1>0. /\ phase = "dispatch" /\ phase' = "respond"
      /\ UNCHANGED <<made, answer, link, cache, heard, stateQ, lost>>
  BY DEF Dispatch, client
<1>1. \/ ~failed' /\ since' = {drv'}
      \/ failed' /\ since' = since \cup {drv'}
  BY DEF Dispatch
<1>3. \A c \in Clients : Alone(c)' <=> Alone(c)
  BY <1>0 DEF Alone
<1>5. NewInv'
  BY <1>0 DEF FollowInv, NewInv
<1>6. AnswerFresh'
  BY <1>0, <1>3, AnswerIsLast DEF AnswerFresh
<1>7. NewestInv'
  <2> SUFFICES ASSUME ~lost', NEW c \in Clients, link'[c] = "open", Alone(c)',
                      c \in heard' \/ stateQ'[c] # <<>>, ~Pending'
               PROVE  Newest(c)' \in since'
    BY DEF NewestInv, Subscribed
  <2>1. since \subseteq since'
    BY <1>0, <1>1 DEF Pending
  <2>2. Newest(c) \in since
    BY <1>0, <1>3 DEF FollowInv, NewestInv, Subscribed, Pending
  <2> QED
    BY <1>0, <2>1, <2>2 DEF Newest
<1> QED
  BY <1>1, <1>5, <1>6, <1>7 DEF FollowInv

LEMMA FollowRespond ==
  ASSUME TypeOK, FollowInv, Respond
  PROVE  FollowInv'
<1>0. /\ phase = "respond" /\ phase' = IF failed THEN "idle" ELSE "publish"
      /\ UNCHANGED <<drv, since, made, link, stateQ, cache, heard>>
      /\ lost => lost'
  BY DEF Respond, component, Lose
<1>1. Pending' <=> Pending
  BY <1>0 DEF Pending
<1>2. \A c \in Clients : Alone(c)' <=> Alone(c)
  BY <1>0 DEF Alone
<1>4. NewInv'
  BY <1>0 DEF FollowInv, NewInv
<1>5. AnswerFresh'
  <2>1. drv \in since
    BY DEF FollowInv
  <2>2. \A c \in Clients : answer'[c] \in {answer[c], <<Failed>>, <<drv>>}
    BY DEF Respond, TypeOK
  <2> QED
    BY <1>0, <1>2, <2>1, <2>2 DEF FollowInv, AnswerFresh
<1>6. NewestInv'
  <2>1. \A c \in Clients : Newest(c)' = Newest(c)
    BY <1>0 DEF Newest
  <2> QED
    BY <1>0, <1>1, <1>2, <2>1 DEF FollowInv, NewestInv, Subscribed
<1> QED
  BY <1>0, <1>4, <1>5, <1>6 DEF FollowInv

\* A client reads an answer or a state, or closes.
LEMMA FollowClient ==
  ASSUME TypeOK, IInv, FollowInv, NEW c \in Clients, Answered(c) \/ StateArrives(c) \/ CloseClient(c)
  PROVE  FollowInv'
<1>0. UNCHANGED <<drv, since, phase, failed, made, lost>>
  BY DEF Answered, StateArrives, CloseClient, server, component
<1>1. (Pending' <=> Pending) /\ \A d \in Clients : Alone(d)' <=> Alone(d)
  BY <1>0 DEF Pending, Alone
<1>2. drv' \in since'
  BY <1>0 DEF FollowInv
<1>3. CASE Answered(c)
  <2>1. /\ answer[c] # <<>> /\ answer' = [answer EXCEPT ![c] = <<>>] /\ UNCHANGED <<link, stateQ>>
        /\ \/ UNCHANGED <<cache, heard>>
           \/ /\ answer[c] # <<Failed>> /\ heard' = heard \cup {c}
              /\ cache' = [cache EXCEPT ![c] = answer[c][1]]
    BY <1>3 DEF Answered
  <2>2. AnswerFresh'
    BY <1>0, <1>1, <2>1 DEF FollowInv, AnswerFresh, TypeOK
  <2>3. link[c] # "new"
    <3>1. link[c] = "new" => Alone(c) /\ made[c] = 0
      BY DEF FollowInv, NewInv, Alone
    <3> QED
      BY <2>1, <3>1, AnswerIsLast
  <2>4. NewInv'
    BY <1>0, <2>1, <2>3 DEF FollowInv, NewInv
  <2>5. NewestInv'
    <3> SUFFICES ASSUME ~lost', NEW d \in Clients, link'[d] = "open", Alone(d)',
                        d \in heard' \/ stateQ'[d] # <<>>, ~Pending'
                 PROVE  Newest(d)' \in since'
      BY DEF NewestInv, Subscribed
    <3>1. CASE (d \in heard /\ cache'[d] = cache[d]) \/ stateQ[d] # <<>>
      <4>1. Newest(d) \in since
        BY <1>0, <1>1, <2>1, <3>1 DEF FollowInv, NewestInv, Subscribed
      <4> QED
        BY <1>0, <2>1, <3>1, <4>1 DEF Newest
    <3>2. CASE stateQ[d] = <<>> /\ ~(d \in heard /\ cache'[d] = cache[d])
      <4>1. d = c /\ answer[c] # <<Failed>> /\ cache'[c] = answer[c][1]
        BY <2>1, <3>2 DEF TypeOK
      <4>2. \E s \in since : answer[c] = <<s>>
        BY <1>1, <2>1, <4>1 DEF FollowInv, AnswerFresh
      <4> QED
        BY <1>0, <2>1, <3>2, <4>1, <4>2 DEF Newest
    <3> QED
      BY <3>1, <3>2
  <2> QED
    BY <1>2, <2>2, <2>4, <2>5 DEF FollowInv
<1>4. CASE StateArrives(c)
  <2>1. /\ stateQ[c] # <<>> /\ stateQ' = [stateQ EXCEPT ![c] = Tail(stateQ[c])]
        /\ cache' = [cache EXCEPT ![c] = Head(stateQ[c])] /\ heard' = heard \cup {c}
        /\ UNCHANGED <<answer, link>>
    BY <1>4 DEF StateArrives, server
  <2>2. AnswerFresh'
    BY <1>0, <1>1, <2>1 DEF FollowInv, AnswerFresh
  <2>3. NewInv'
    BY <1>0, <2>1 DEF FollowInv, NewInv, TypeOK
  <2>4. Newest(c)' = Newest(c)
    <3> DEFINE q == stateQ[c]
    <3>1. q \in Seq(State) /\ q # <<>> /\ stateQ'[c] = Tail(q) /\ cache'[c] = Head(q)
      BY <2>1 DEF TypeOK
    <3> HIDE DEF q
    <3>2. Newest(c) = q[Len(q)]
      BY <3>1 DEF Newest, q
    <3>3. Newest(c)' = IF Tail(q) = <<>> THEN Head(q) ELSE Tail(q)[Len(Tail(q))]
      BY <3>1 DEF Newest
    <3>4. CASE Len(q) = 1
      <4>1. Tail(q) = <<>> /\ Head(q) = q[1]
        BY <3>1, <3>4
      <4> QED
        BY <3>2, <3>3, <3>4, <4>1
    <3>5. CASE Len(q) # 1
      <4> DEFINE n == Len(q) - 1
      <4>1. /\ n \in Nat \ {0} /\ Len(q) = n + 1 /\ Len(Tail(q)) = n
            /\ \A i \in 1 .. n : Tail(q)[i] = q[i + 1]
        BY <3>1, <3>5
      <4> HIDE DEF n
      <4>2. Tail(q)[n] = q[n + 1]
        BY <4>1
      <4>3. Tail(q) # <<>>
        BY <4>1
      <4>4. Newest(c)' = Tail(q)[n]
        BY <3>3, <4>1, <4>3
      <4> QED
        BY <3>2, <4>1, <4>2, <4>4
    <3> QED
      BY <3>4, <3>5
  <2>5. \A d \in Clients \ {c} : Newest(d)' = Newest(d) /\ stateQ'[d] = stateQ[d]
    BY <2>1 DEF Newest, TypeOK
  <2>6. NewestInv'
    BY <1>0, <1>1, <2>1, <2>4, <2>5 DEF FollowInv, NewestInv, Subscribed
  <2> QED
    BY <1>2, <2>2, <2>3, <2>6 DEF FollowInv
<1>5. CASE CloseClient(c)
  <2>1. /\ link' = [link EXCEPT ![c] = "closed"] /\ stateQ' = [stateQ EXCEPT ![c] = <<>>]
        /\ UNCHANGED <<answer, cache, heard>>
    BY <1>5 DEF CloseClient
  <2>2. link'[c] = "closed" /\ \A d \in Clients \ {c} : link'[d] = link[d] /\ stateQ'[d] = stateQ[d]
    BY <2>1 DEF TypeOK
  <2>3. AnswerFresh'
    BY <1>0, <1>1, <2>1 DEF FollowInv, AnswerFresh
  <2>4. NewInv'
    BY <1>0, <2>1, <2>2 DEF FollowInv, NewInv
  <2>5. \A d \in Clients \ {c} : Newest(d)' = Newest(d)
    BY <2>1, <2>2 DEF Newest
  <2>6. NewestInv'
    BY <1>0, <1>1, <2>1, <2>2, <2>5 DEF FollowInv, NewestInv, Subscribed
  <2> QED
    BY <1>2, <2>3, <2>4, <2>6 DEF FollowInv
<1> QED
  BY <1>3, <1>4, <1>5

LEMMA FollowNext == TypeOK /\ IInv /\ FollowInv /\ [Next]_vars => FollowInv'
<1> SUFFICES ASSUME TypeOK, IInv, FollowInv, [Next]_vars
             PROVE  FollowInv'
  OBVIOUS
<1>0. drv \in State /\ drv \in since
  BY StateOfCapability DEF TypeOK, FollowInv
<1>1. ASSUME UNCHANGED <<stateQ, cache, heard, answer, made, link>>,
             since \subseteq since', drv' \in since',
             Pending' <=> Pending, lost => lost'
      PROVE  FollowInv'
  <2>1. \A c \in Clients : Alone(c)' => Alone(c)
    BY <1>1 DEF Alone
  <2> QED
    BY <1>1, <2>1, FollowQuiet
<1>2. CASE Expose
  <2>1. PublishState /\ UNCHANGED <<drv, since, link, made, cache, heard, answer>>
    BY <1>2 DEF Expose, client, component
  <2> QED
    BY <1>0, <2>1, FollowPublish
<1>3. CASE Publish
  <2>1. PublishState /\ UNCHANGED <<drv, since, link, made, cache, heard, answer>>
    BY <1>3 DEF Publish, client, component
  <2> QED
    BY <1>0, <2>1, FollowPublish
<1>4. CASE Take
  <2>1. phase = "idle" /\ phase' = "dispatch"
    BY <1>4, RequestIsNotEmpty DEF Take, TypeOK
  <2>2. ~Pending /\ ~Pending'
    BY <2>1 DEF Pending
  <2> QED
    BY <1>0, <1>1, <1>4, <2>2 DEF Take, client, component
<1>5. CASE CloseServer
  BY <1>0, <1>1, <1>5 DEF CloseServer, client, component, Pending
<1>6. ASSUME NEW c \in Clients, Subscribe(c)
      PROVE  FollowInv'
  <2>1. /\ link' = [link EXCEPT ![c] = "open"] /\ link[c] = "new"
        /\ UNCHANGED <<drv, since, stateQ, cache, heard, answer, failed, phase, made, lost>>
    BY <1>6 DEF Subscribe, server, component
  <2>2. \A d \in Clients : link'[d] = link[d] \/ (link[d] = "new" /\ link'[d] = "open")
    BY <2>1 DEF TypeOK
  <2>3. (Pending' <=> Pending) /\ \A d \in Clients : Alone(d)' => Alone(d)
    BY <2>1 DEF Pending, Alone
  <2> QED
    BY <1>0, <2>1, <2>2, <2>3, FollowQuiet
<1>7. ASSUME NEW c \in Clients, NEW method \in Callable, Call(c, method)
      PROVE  FollowInv'
  <2>0. PICK n \in Nat \ {0} : n = made[c] + 1
    BY DEF TypeOK
  <2>1. /\ link[c] # "new" /\ made' = [made EXCEPT ![c] = n]
        /\ lost => lost'
        /\ UNCHANGED <<drv, since, stateQ, cache, heard, answer, failed, phase, link>>
    BY <1>7, <2>0 DEF Call, component, Lose
  <2>2. \A d \in Clients : made'[d] = IF d = c THEN n ELSE made[d]
    BY <2>1 DEF TypeOK
  <2>3. \A d \in Clients : made'[d] = 0 => made[d] = 0
    BY <2>2
  <2>4. (Pending' <=> Pending) /\ \A d \in Clients : Alone(d)' => Alone(d)
    BY <2>1, <2>3 DEF Pending, Alone
  <2>5. \A d \in Clients : link[d] = "new" => made'[d] = made[d]
    BY <2>1, <2>2
  <2> QED
    BY <1>0, <2>1, <2>4, <2>5, FollowQuiet
<1>8. ASSUME NEW c \in Clients, TimeOut(c)
      PROVE  FollowInv'
  BY <1>0, <1>1, <1>8 DEF TimeOut, server, component, Pending
<1>9. CASE Loop \/ LocalCall
  BY <1>1, <1>9, MovedAlone DEF client, Pending
<1>10. CASE UNCHANGED vars
  BY <1>0, <1>1, <1>10 DEF vars, server, component, client, Pending
<1> QED
  BY <1>2, <1>3, <1>4, <1>5, <1>6, <1>7, <1>8, <1>9, <1>10, FollowDispatch, FollowRespond, FollowClient
  DEF Next, Server, Handler, Client

\* Once nothing is in flight, the cache of a client that has heard of the component, and
\* whose calls nobody else's interleave with, is a state the component has been in since
\* the last call that succeeded, whatever timed out, failed, came late or moved without
\* the server (updateFromResult, publishState), for any clients and calls.
THEOREM CachesFollow == Spec => []ListenersFollow
<1>1. Init => FollowInv
  <2> SUFFICES ASSUME Init
               PROVE  FollowInv
    OBVIOUS
  <2>1. /\ drv \in since /\ heard = {}
        /\ \A c \in Clients : made[c] = 0 /\ stateQ[c] = <<>> /\ answer[c] = <<>>
    BY DEF Init
  <2> QED
    BY <2>1 DEF FollowInv, NewInv, AnswerFresh, NewestInv, Subscribed
<1>2. FollowInv => ListenersFollow
  BY DEF FollowInv, NewestInv, ListenersFollow, Quiescent, Pending, Newest, Alone, Subscribed
<1>3. Spec => []FollowInv
  BY <1>1, FollowNext, Typing, Inductive, PTL DEF Spec
<1> QED
  BY <1>2, <1>3, PTL
=============================================================================
