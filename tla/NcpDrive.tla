------------------------------ MODULE NcpDrive ------------------------------
(***************************************************************************)
(* A drive or a PWM output exposed over NCP: the server of pkg/ncp         *)
(* (server.go, drive.go, pwm.go) and its clients, the remote drives and    *)
(* remote PWMs of components/drive/ncp and components/pwm/ncp, over a NATS *)
(* connection each.                                                        *)
(*                                                                         *)
(* The server handles the requests of a component one at a time, in the    *)
(* order they arrive, and an arming request keeps it busy for seconds.     *)
(* A client gives up on a request after its timeout; the request stays in  *)
(* the server's subscription and is executed later all the same.  A        *)
(* client learns the state in two ways: from the answer to a call          *)
(* of its own, in the goroutine that made the call, and from the state     *)
(* subject, in the goroutine of its subscription.                          *)
(*                                                                         *)
(* The component also changes without the server: a drive's control loop   *)
(* ramps its outputs, gives up on old commands and ends in neutral, and    *)
(* local callers, the dashboard's buttons and a tank drive that owns the   *)
(* output, use it directly.  Nothing of that is published.                 *)
(*                                                                         *)
(* NATS is external: a subscription delivers in order, a request without   *)
(* a subscriber fails at once, and a broken connection loses messages.     *)
(***************************************************************************)
EXTENDS Naturals, Sequences, Functions

CONSTANTS
  Clients,
  MaxCalls,   \* bound: calls made by all clients together
  Capabilities,  \* what the component may be: "drive", "pwm"
  Methods,    \* the methods clients call: some of AllMethods
  Events,     \* "lose": NATS loses a message; "close": server and clients close
  MaxMoves,   \* bound: changes of the component without the server
  Failed      \* the result of a call that fails

\* set_normalized and set_duty are ways to set a pulse.
MethodsOf ==
  [drive |-> {"set_intent", "stop", "arm", "get_state"},
   pwm   |-> {"set_pulse", "enable", "disable", "arm", "get_state"}]

AllMethods == MethodsOf.drive \cup MethodsOf.pwm \cup {"bad"}

\* Full scale is 1: the intent (surge and yaw), the output (left and right), and
\* the pulse, which is centred at 0.
StateOf ==
  [drive |-> [intent : {0, 1}, output : {0, 1}, armed : BOOLEAN, active : BOOLEAN],
   pwm   |-> [pulse_us : {0, 1}, enabled : BOOLEAN]]

State == StateOf.drive \cup StateOf.pwm

Zero ==
  [drive |-> [intent |-> 0, output |-> 0, armed |-> FALSE, active |-> FALSE],
   pwm   |-> [pulse_us |-> 0, enabled |-> FALSE]]

ASSUME NcpAssumption ==
  /\ MaxCalls \in Nat /\ MaxMoves \in Nat
  /\ Capabilities \subseteq {"drive", "pwm"}
  /\ Methods \subseteq AllMethods
  /\ Events \subseteq {"lose", "close"}
  /\ Failed \notin State

VARIABLES
  capability,  \* what the component is; it never changes
  drv,         \* the component's state
  moved,       \* how often it has changed without the server
  exposed,     \* "open" while the server subscribes to the command subject
  queue,       \* the requests waiting in that subscription
  serving,     \* <<>>, or the request being handled
  phase,       \* where its handler is
  failed,      \* its dispatch has returned an error
  made,        \* [Clients -> number of calls made]
  status,      \* [Clients -> what became of the last call]
  answer,      \* [Clients -> <<>> or the answer on its way or being decoded]
  link,        \* [Clients -> "new", "open" (subscribed to the state) or "closed"]
  stateQ,      \* [Clients -> states waiting in that subscription]
  cache,       \* [Clients -> the cached state]
  heard,       \* history: the clients that have stored a state
  lost,        \* history: a message was lost; the bound is one loss
  since,       \* history: the states the component has been in since the last call that
               \* succeeded had its effect, that one's included
  ran,         \* history: the calls in the order of their execution, <<client, n>>
  succeeded    \* history: [Clients -> the calls that returned without error]

component == <<capability, drv, moved, since>>
server == <<component, exposed, queue, serving, phase, failed, ran>>
client == <<made, status, answer, link, cache, heard, succeeded>>
vars == <<server, client, stateQ, lost>>

Init ==
  /\ capability \in Capabilities
  /\ drv = Zero[capability] /\ moved = 0 /\ since = {drv}
  /\ exposed = "before"
  /\ queue = <<>> /\ serving = <<>> /\ phase = "idle" /\ failed = FALSE
  /\ made = [c \in Clients |-> 0]
  /\ status = [c \in Clients |-> "idle"]
  /\ answer = [c \in Clients |-> <<>>]
  /\ link = [c \in Clients |-> "new"]
  /\ stateQ = [c \in Clients |-> <<>>]
  /\ cache = [c \in Clients |-> Zero[capability]] /\ heard = {}
  /\ lost = FALSE /\ ran = <<>>
  /\ succeeded = [c \in Clients |-> {}]
-----------------------------------------------------------------------------
(* The server *)

Subscribed == {c \in Clients : link[c] = "open"}

Lose == "lose" \in Events /\ ~lost /\ lost' = TRUE

\* publishState: the state at this moment, to whoever is subscribed; a client
\* whose connection is broken misses it.
PublishState ==
  LET to(receivers) ==
        stateQ' = [c \in Clients |-> IF c \in receivers
                                       THEN Append(stateQ[c], drv) ELSE stateQ[c]]
  IN  \/ to(Subscribed) /\ UNCHANGED lost
      \/ Lose /\ \E c \in Subscribed : to(Subscribed \ {c})

Expose ==
  /\ exposed = "before" /\ exposed' = "open"
  /\ PublishState
  /\ UNCHANGED <<component, queue, serving, phase, failed, ran, client>>

\* The subscription hands its next message to the handler.
Take ==
  /\ serving = <<>> /\ queue # <<>>
  /\ serving' = Head(queue) /\ queue' = Tail(queue)
  /\ phase' = "dispatch"
  /\ UNCHANGED <<component, exposed, failed, ran, client, stateQ, lost>>

\* What a call leaves at once: a new intent reaches the outputs with the ticks of
\* the control loop.
DriveExecuted(method) ==
  CASE method = "set_intent" -> [drv EXCEPT !.intent = 1]
    [] method = "stop"       -> [drv EXCEPT !.intent = 0]
    [] method = "arm"        -> [drv EXCEPT !.armed = TRUE]
    [] method = "get_state"  -> drv

\* Arming enables the output and ends at the centre.
PwmExecuted(method) ==
  CASE method = "set_pulse"  -> [drv EXCEPT !.pulse_us = 1]
    [] method = "enable"     -> [drv EXCEPT !.enabled = TRUE]
    [] method = "disable"    -> [drv EXCEPT !.enabled = FALSE]
    [] method = "arm"        -> [pulse_us |-> 0, enabled |-> TRUE]
    [] method = "get_state"  -> drv

Executed(method) ==
  IF capability = "drive" THEN DriveExecuted(method) ELSE PwmExecuted(method)

\* What a call that fails may leave: an output that is not armed may have been
\* enabled, and stay at any pulse of the sequence.
Spoilt(method) ==
  {drv} \cup IF capability = "pwm" /\ method = "arm"
               THEN {[pulse_us |-> u, enabled |-> TRUE] : u \in {0, 1}} ELSE {}

\* dispatch, up to the reading of the state: an unknown method fails; arming may,
\* since its context ends after commandTimeout, and so may whatever an output writes.
Dispatch ==
  /\ phase = "dispatch" /\ phase' = "respond"
  /\ \/ /\ serving.method \in MethodsOf[capability]
        /\ drv' = Executed(serving.method) /\ since' = {drv'}
        /\ failed' = FALSE
     \/ /\ serving.method # "get_state"
        /\ serving.method \in MethodsOf[capability] =>
             serving.method = "arm" \/ capability = "pwm"
        /\ drv' \in Spoilt(serving.method) /\ since' = since \cup {drv'}
        /\ failed' = TRUE
  /\ ran' = Append(ran, serving.call)
  /\ UNCHANGED <<capability, moved, exposed, queue, serving, client, stateQ, lost>>

\* The state is read and answered (msg.Respond): only the call that is still waiting
\* sees the answer.  After a failure that is all: nothing is published.
Respond ==
  /\ phase = "respond"
  /\ LET c == serving.call[1]
         waits == status[c] = "waiting" /\ serving.call[2] = made[c]
         result == IF failed THEN Failed ELSE drv
     IN  \/ /\ answer' = IF waits THEN [answer EXCEPT ![c] = <<result>>] ELSE answer
            /\ UNCHANGED lost
         \/ Lose /\ UNCHANGED answer
  /\ IF failed
       THEN phase' = "idle" /\ serving' = <<>>
       ELSE phase' = "publish" /\ UNCHANGED serving
  /\ failed' = FALSE
  /\ UNCHANGED <<component, exposed, queue, made, status, link, stateQ,
                 cache, heard, ran, succeeded>>

PublishToCaller ==  \* mutant: only the caller hears of the new state
  /\ phase = "publish"
  /\ stateQ' = [stateQ EXCEPT ![serving.call[1]] = Append(@, drv)]
  /\ phase' = "idle" /\ serving' = <<>>
  /\ UNCHANGED <<component, exposed, queue, failed, ran, client, lost>>

\* The state is read once more: it may not be the one answered.
Publish ==
  /\ phase = "publish"
  /\ PublishState
  /\ phase' = "idle" /\ serving' = <<>>
  /\ UNCHANGED <<component, exposed, queue, failed, ran, client>>

CloseDraining ==  \* mutant: what is queued is still served
  /\ "close" \in Events /\ exposed = "open"
  /\ exposed' = "closed"
  /\ UNCHANGED <<component, queue, serving, phase, failed, ran, client, stateQ, lost>>

\* Server.Close: Unsubscribe drops what is queued and does not wait for the
\* handler.
CloseServer ==
  /\ "close" \in Events /\ exposed = "open"
  /\ exposed' = "closed" /\ queue' = <<>>
  /\ UNCHANGED <<component, serving, phase, failed, ran, client, stateQ, lost>>
-----------------------------------------------------------------------------
(* The component without the server *)

Changes(s) ==
  /\ moved < MaxMoves /\ moved' = moved + 1
  /\ s # drv /\ drv' = s /\ since' = since \cup {s}
  /\ UNCHANGED <<capability, exposed, queue, serving, phase, failed, ran, client, stateQ, lost>>

\* A tick of the drive's control loop, with a command that is recent enough or not;
\* when its context is done the loop ends with neutralize.
Loop ==
  /\ capability = "drive"
  /\ \E s \in StateOf["drive"] :
       /\ s.armed = drv.armed
       /\ \/ s.intent = drv.intent /\ s.active /\ s.output \in {drv.output, drv.intent}
          \/ s.intent = drv.intent /\ ~s.active /\ s.output \in {drv.output, 0}
          \/ s.intent = 0 /\ ~s.active /\ s.output = 0
       /\ Changes(s)

\* The dashboard's handlers, and the drive of an output.
LocalCall ==
  \E method \in Methods \cap MethodsOf[capability] :
    \E s \in {Executed(method)} \cup Spoilt(method) : Changes(s)

-----------------------------------------------------------------------------
(* A client *)

\* Start and Close of RemoteDrive.
Subscribe(c) ==
  /\ link[c] = "new"
  /\ link' = [link EXCEPT ![c] = "open"]
  /\ UNCHANGED <<server, made, status, answer, cache, heard, succeeded, stateQ, lost>>

CloseClient(c) ==
  /\ "close" \in Events /\ link[c] = "open"
  /\ link' = [link EXCEPT ![c] = "closed"]
  /\ stateQ' = [stateQ EXCEPT ![c] = <<>>]
  /\ UNCHANGED <<server, made, status, answer, cache, heard, succeeded, lost>>

CallsMade == FoldFunction(+, 0, made)

\* The methods of its own kind of component, and with DoCommand any other.
Callable == Methods \cap (MethodsOf[capability] \cup {"bad"})

\* callTimeout, up to the wait for the answer.
Call(c, method) ==
  /\ link[c] # "new"
  /\ status[c] # "waiting" /\ answer[c] = <<>> /\ CallsMade < MaxCalls
  /\ made' = [made EXCEPT ![c] = @ + 1]
  /\ \/ /\ exposed = "open"
        /\ queue' = Append(queue, [call |-> <<c, made'[c]>>, method |-> method])
        /\ status' = [status EXCEPT ![c] = "waiting"]
        /\ UNCHANGED lost
     \/ /\ exposed # "open"  \* no responders
        /\ status' = [status EXCEPT ![c] = "error"]
        /\ UNCHANGED <<queue, lost>>
     \/ /\ Lose
        /\ status' = [status EXCEPT ![c] = "waiting"]
        /\ UNCHANGED queue
  /\ UNCHANGED <<component, exposed, serving, phase, failed, ran, answer, link,
                 stateQ, cache, heard, succeeded>>

RetryOnTimeout(c) ==  \* mutant: the request is sent again
  /\ status[c] = "waiting" /\ answer[c] = <<>> /\ Len(queue) < 2
  /\ queue' = Append(queue, [call |-> <<c, made[c]>>, method |-> "stop"])
  /\ UNCHANGED <<component, exposed, serving, phase, failed, ran, client, stateQ, lost>>

\* The timeout passes first.
TimeOut(c) ==
  /\ status[c] = "waiting" /\ answer[c] = <<>>
  /\ status' = [status EXCEPT ![c] = "timeout"]
  /\ UNCHANGED <<server, made, answer, link, stateQ, lost, cache, heard, succeeded>>

\* The caller decodes the answer and stores the state in it.
Answered(c) ==
  /\ status[c] = "waiting" /\ answer[c] # <<>>
  /\ IF answer[c] = <<Failed>>
       THEN /\ status' = [status EXCEPT ![c] = "error"]
            /\ UNCHANGED <<cache, heard, succeeded>>
       ELSE /\ status' = [status EXCEPT ![c] = "ok"]
            /\ cache' = [cache EXCEPT ![c] = answer[c][1]]
            /\ heard' = heard \cup {c}
            /\ succeeded' = [succeeded EXCEPT ![c] = @ \cup {made[c]}]
  /\ answer' = [answer EXCEPT ![c] = <<>>]
  /\ UNCHANGED <<server, made, link, stateQ, lost>>

\* The state subscription's callback: updateFromResult.
StateArrives(c) ==
  /\ stateQ[c] # <<>>
  /\ cache' = [cache EXCEPT ![c] = Head(stateQ[c])]
  /\ heard' = heard \cup {c}
  /\ stateQ' = [stateQ EXCEPT ![c] = Tail(@)]
  /\ UNCHANGED <<server, made, status, answer, link, succeeded, lost>>
-----------------------------------------------------------------------------
Handler == Take \/ Dispatch \/ Respond \/ Publish

Server == Expose \/ Handler \/ CloseServer

Client(c) ==
  \/ Subscribe(c) \/ CloseClient(c)
  \/ \E method \in Callable : Call(c, method)
  \/ TimeOut(c) \/ Answered(c) \/ StateArrives(c)

Next == Server \/ Loop \/ LocalCall \/ \E c \in Clients : Client(c)

Spec == Init /\ [][Next]_vars

-----------------------------------------------------------------------------
(* Properties *)

Requests == [call : Clients \X (Nat \ {0}), method : Methods]

TypeOK ==
  /\ capability \in Capabilities /\ drv \in StateOf[capability]
  /\ moved \in Nat /\ since \subseteq State
  /\ exposed \in {"before", "open", "closed"}
  /\ queue \in Seq(Requests) /\ (exposed # "open" => queue = <<>>)
  /\ phase \in {"idle", "dispatch", "respond", "publish"}
  /\ IF phase = "idle" THEN serving = <<>> ELSE serving \in Requests
  /\ failed \in BOOLEAN
  /\ made \in [Clients -> Nat]
  /\ status \in [Clients -> {"idle", "waiting", "ok", "error", "timeout"}]
  /\ answer \in [Clients -> {<<>>} \cup {<<r>> : r \in State \cup {Failed}}]
  /\ link \in [Clients -> {"new", "open", "closed"}]
  /\ stateQ \in [Clients -> Seq(State)]
  /\ cache \in [Clients -> State] /\ heard \subseteq Clients
  /\ lost \in BOOLEAN
  /\ ran \in Seq(Clients \X (Nat \ {0}))
  /\ succeeded \in [Clients -> SUBSET Nat]

\* The component executes a call at most once, in the order of its client,
\* and "ok" means that it did: a stop that follows a set_intent the client
\* gave up on is never undone by it (callTimeout, remote.go:106, makeHandler,
\* server.go:81).
Promise == INSTANCE AtMostOnceCalls
             WITH executed <- ran, returned <- succeeded
ImplementsCalls == Promise!Spec

Quiescent ==
  /\ queue = <<>> /\ phase = "idle"
  /\ \A c \in Clients : status[c] # "waiting" /\ stateQ[c] = <<>>

\* A client that has heard of the component since it subscribed, and has not made
\* calls while others did, follows it.  Once nothing is in flight, what it has cached
\* is a state the component has been in since the last call that succeeded, its own
\* or another's, with timeouts, failed calls and late states in between, as long as
\* no message is lost.  It is the component's state if nothing has happened since.
\* The server publishes after such calls only (server.go:108): the control loop, local
\* callers and an arming that fails half way leave the caches behind.
ListenersFollow ==
  Quiescent /\ ~lost =>
    \A c \in Subscribed \cap heard :
      made[c] = 0 \/ (\A d \in Clients \ {c} : made[d] = 0) => cache[c] \in since

\* Once the server is closed it starts no further request: only the one its
\* handler already has is still executed (Server.Close, server.go:135).
ClosedServesNoMore ==
  [][exposed # "open" /\ serving = <<>> => serving' = <<>> /\ ran' = ran]_vars
=============================================================================
