------------------------ MODULE SerialGatewayProofs ------------------------
(***************************************************************************)
(* Proofs about the serial gateway.                                        *)
(*                                                                         *)
(* The port (PortHandler), for any ids a device uses, any number of        *)
(* connections and of subscriptions, and any events: what the device has   *)
(* been told OK for is served, and no subscription is orphaned.            *)
(*                                                                         *)
(* The parser it reads frames with (GspParser), for bytes of any width,    *)
(* any checksum, any limit on payloads and any size of the buffer: its     *)
(* variables keep their types, so no index leaves the buffer; and a parser *)
(* with room for two bytes more than NewParser insists on keeps the        *)
(* promise of GspFraming.                                                  *)
(***************************************************************************)
EXTENDS PortHandler, GspParser, SequenceTheorems, TLAPS

-----------------------------------------------------------------------------
(* The port *)

\* The steps that only move the runner on.
Moves ==
  \/ Start \/ SetRunning \/ RunReturns \/ Open \/ OpenFails
  \/ Read \/ ReadHandled \/ LeaveLoop

\* Every variable keeps its type.
THEOREM PortTyping == Spec => []TypeOK
<1> DEFINE InHand == /\ runner = "register" => request # <<>>
                     /\ runner = "open" => conn < MaxConns
<1>1. Init => TypeOK /\ InHand
  <2> SUFFICES ASSUME Init
               PROVE  TypeOK /\ InHand
    OBVIOUS
  <2>1. pinger \in [Conns -> {"none", "wait", "await", "ended"}]
    BY DEF Init
  <2>2. subs \in [SubIds -> 0 .. MaxSubs] /\ made \in 0 .. MaxSubs /\ conn \in 0 .. MaxConns
    BY PortAssumption DEF Init
  <2>3. live \in [Sids -> SubIds \cup {None}]
    BY DEF Init
  <2>4. QED
    BY <2>1, <2>2, <2>3 DEF Init, TypeOK
<1>2. TypeOK /\ InHand /\ [Next]_vars => TypeOK'
  <2> SUFFICES ASSUME TypeOK, InHand, [Next]_vars
               PROVE  TypeOK'
    OBVIOUS
  <2> USE PortAssumption DEF TypeOK, Conns, Sids
  <2>1. ASSUME NEW p \in {"runner", "stopper"}, Disconnect(p)
        PROVE  TypeOK'
    BY <2>1 DEF Disconnect, pinging, subscriptions
  <2>2. CASE Moves
    BY <2>2 DEF Moves, Start, SetRunning, RunReturns, Open, OpenFails, Read, ReadHandled,
                LeaveLoop, pinging, subscriptions
  <2>3. CASE Connect
    <3>1. conn' \in 1 .. MaxConns /\ conn' = conn + 1 /\ port' = conn'
      BY <2>3 DEF Connect
    <3>2. pinger' \in [Conns -> {"none", "wait", "await", "ended"}] /\ held' \subseteq SubIds
      BY <2>3, <3>1 DEF Connect
    <3>3. QED
      BY <2>3, <3>1, <3>2 DEF Connect, subscriptions
  <2>4. CASE HandleSubDone
    <3>1. CASE request \in SubIds \X Sids
      <4>1. request[1] \in SubIds /\ request[2] \in Sids
        BY <3>1
      <4>2. subs' \in [SubIds -> 0 .. MaxSubs] /\ held' \subseteq SubIds
        BY <2>4, <4>1 DEF HandleSubDone
      <4>3. QED
        BY <2>4, <4>2 DEF HandleSubDone, pinging
    <3>2. CASE request = <<>>
      <4>1. FALSE
        BY <2>4, <3>2 DEF HandleSubDone
      <4>2. QED
        BY <4>1
    <3>3. QED
      BY <3>1, <3>2
  <2>5. ASSUME NEW id \in SubIds, HandleSub(id)
        PROVE  TypeOK'
    <3>1. made' \in Sids /\ made' = made + 1
      BY <2>5 DEF HandleSub
    <3>2. live' \in [Sids -> SubIds \cup {None}] /\ request' \in SubIds \X Sids
      BY <2>5, <3>1 DEF HandleSub
    <3>3. QED
      BY <2>5, <3>1, <3>2 DEF HandleSub, pinging
  <2>6. ASSUME NEW id \in SubIds, HandleUnsub(id)
        PROVE  TypeOK'
    <3>1. live' \in [Sids -> SubIds \cup {None}] /\ subs' \in [SubIds -> 0 .. MaxSubs]
      BY <2>6 DEF HandleUnsub
    <3>2. QED
      BY <2>6, <3>1 DEF HandleUnsub, pinging
  <2>7. CASE HandlePong
    BY <2>7 DEF HandlePong, subscriptions
  <2>8. ASSUME NEW n \in Conns, Pinger(n)
        PROVE  TypeOK'
    <3>1. /\ pinger' \in [Conns -> {"none", "wait", "await", "ended"}]
          /\ pongs' = pongs \/ pongs' = 0
      BY <2>8 DEF Pinger, Ping, PingAnswered, PingEnds
    <3>2. UNCHANGED <<mu, cancelled, runner, conn, port, request, subs, live, made, sending,
                      stopper, held, reused>>
      BY <2>8 DEF Pinger, Ping, PingAnswered, PingEnds, subscriptions
    <3> QED
      BY <3>1, <3>2
  <2>9. ASSUME NEW s \in Sids, Callback(s)
        PROVE  TypeOK'
    <3>1. sending' \in SUBSET Sids /\ UNCHANGED <<subs, live, made>>
      BY <2>9 DEF Callback, MessageArrives, SendToDevice, subscriptions, TypeOK
    <3>2. UNCHANGED <<mu, cancelled, runner, conn, port, request, pinger, pongs, stopper, held,
                      reused>>
      BY <2>9 DEF Callback, MessageArrives, SendToDevice, pinging
    <3>3. QED
      BY <3>1, <3>2
  <2>10. CASE Cancel \/ StopBegins
    BY <2>10 DEF Cancel, StopBegins, pinging, subscriptions
  <2>11. CASE StopUnsubscribes
    BY <2>11 DEF StopUnsubscribes, pinging
  <2>12. CASE UNCHANGED vars
    BY <2>12 DEF vars, pinging, subscriptions
  <2>13. QED
    BY <2>1, <2>2, <2>3, <2>4, <2>5, <2>6, <2>7, <2>8, <2>9, <2>10, <2>11, <2>12
    DEF Next, Runner, Moves, Device, Stopper
<1>3. TypeOK /\ InHand /\ [Next]_vars => InHand'
  <2> SUFFICES ASSUME TypeOK, InHand, [Next]_vars
               PROVE  InHand'
    OBVIOUS
  <2>1. ASSUME NEW id \in SubIds, HandleSub(id)
        PROVE  InHand'
    BY <2>1 DEF HandleSub
  <2>2. CASE /\ UNCHANGED <<request, conn>>
             /\ runner' = "register" => runner = "register"
             /\ runner' = "open" => runner = "open"
    BY <2>2
  <2>3. CASE HandleSubDone
    BY <2>3 DEF HandleSubDone
  <2>4. ASSUME NEW id \in SubIds, HandleUnsub(id)
        PROVE  InHand'
    BY <2>2, <2>4 DEF HandleUnsub
  <2>5. ASSUME NEW p \in {"runner", "stopper"}, Disconnect(p)
        PROVE  InHand'
    BY <2>2, <2>5 DEF Disconnect
  <2>6. CASE Moves \/ Connect
    BY <2>6 DEF Moves, Start, SetRunning, RunReturns, Open, OpenFails, Connect, Read,
                ReadHandled, LeaveLoop
  <2>7. CASE HandlePong \/ Cancel \/ StopBegins \/ StopUnsubscribes \/ UNCHANGED vars
    BY <2>2, <2>7 DEF HandlePong, Cancel, StopBegins, StopUnsubscribes, vars
  <2>8. ASSUME NEW n \in Conns, Pinger(n)
        PROVE  InHand'
    BY <2>2, <2>8 DEF Pinger, Ping, PingAnswered, PingEnds
  <2>9. ASSUME NEW s \in Sids, Callback(s)
        PROVE  InHand'
    BY <2>2, <2>9 DEF Callback, MessageArrives, SendToDevice
  <2>10. QED
    BY <2>1, <2>3, <2>4, <2>5, <2>6, <2>7, <2>8, <2>9
    DEF Next, Runner, Moves, Device, Stopper
<1>4. QED
  BY <1>1, <1>2, <1>3, PTL DEF Spec
-----------------------------------------------------------------------------
\* A SUB is in hand exactly between its two halves, for a subscription that is live and
\* not in h.subs, and anew only for an id that was not in h.subs, or is remembered.
RequestInv ==
  /\ runner = "register" <=> request # <<>>
  /\ \A id \in SubIds, s \in Sids : request = <<id, s>> =>
       /\ live[s] = id /\ s <= made
       /\ \A i \in SubIds : subs[i] # s
       /\ subs[id] # 0 => id \in reused

\* An entry of h.subs is a live subscription of that id; none is live before it is made.
SubsInv ==
  /\ \A id \in SubIds : subs[id] # 0 => subs[id] <= made /\ live[subs[id]] = id
  /\ \A s \in Sids : live[s] # None => s <= made

\* Until Stop has unsubscribed, the device is told OK only for ids in h.subs.
HeldInv == stopper \in {"idle", "lock"} => \A id \in held : subs[id] # 0

IInv == RequestInv /\ SubsInv /\ HeldInv /\ NoOrphans

\* IInv holds in every reachable state.
LEMMA Inductive == Spec => []IInv
<1>1. Init => IInv
  BY DEF Init, IInv, RequestInv, SubsInv, HeldInv, NoOrphans, None
<1>2. TypeOK /\ IInv /\ [Next]_vars => IInv'
  <2> SUFFICES ASSUME TypeOK, IInv, [Next]_vars
               PROVE  IInv'
    OBVIOUS
  <2> USE DEF IInv
  <2>1. CASE HandleSubDone
    <3>1. PICK id \in SubIds, s \in Sids : request = <<id, s>>
      BY <2>1 DEF HandleSubDone, RequestInv, TypeOK
    <3>2. subs' = [subs EXCEPT ![id] = s] /\ request' = <<>> /\ runner' = "read"
          /\ held' \subseteq held \cup {id} /\ UNCHANGED <<live, made, reused, stopper>>
      BY <2>1, <3>1 DEF HandleSubDone
    <3>3. /\ live[s] = id /\ s <= made /\ s # 0
          /\ \A i \in SubIds : subs[i] # s
          /\ subs[id] # 0 => id \in reused
      BY <3>1 DEF RequestInv, Sids
    <3>4. RequestInv'
      BY <3>2 DEF RequestInv
    <3>5. SubsInv' /\ HeldInv'
      BY <3>2, <3>3 DEF SubsInv, HeldInv, TypeOK
    <3>6. NoOrphans'
      BY <3>1, <3>2, <3>3 DEF NoOrphans, TypeOK, SubsInv, Sids
    <3>7. QED
      BY <3>4, <3>5, <3>6
  <2>2. ASSUME NEW id \in SubIds, HandleSub(id)
        PROVE  IInv'
    <3> DEFINE s == made + 1
    <3>1. s \in Sids /\ s > made /\ s # 0 /\ made' = s
      BY <2>2, PortAssumption DEF HandleSub, TypeOK, Sids
    <3>2. /\ live' = [live EXCEPT ![s] = id] /\ request' = <<id, s>> /\ runner' = "register"
          /\ runner = "read" /\ id \notin held
          /\ UNCHANGED <<subs, held, stopper>>
          /\ reused' = IF subs[id] = 0 THEN reused ELSE reused \cup {id}
      BY <2>2, <3>1 DEF HandleSub, FrameRead
    <3>3. \A i \in SubIds : subs[i] # s
      BY <3>1 DEF SubsInv, TypeOK
    <3>4. request = <<>>
      BY <3>2 DEF RequestInv
    <3> HIDE DEF s
    <3>5. RequestInv'
      <4>1. runner' = "register" /\ request' # <<>>
        BY <3>2
      <4>2. ASSUME NEW i \in SubIds, NEW t \in Sids, request' = <<i, t>>
            PROVE  i = id /\ t = s
        BY <3>2, <4>2
      <4>3. /\ live'[s] = id /\ s <= made'
            /\ \A i \in SubIds : subs'[i] # s
            /\ subs'[id] # 0 => id \in reused'
        BY <3>1, <3>2, <3>3 DEF TypeOK, Sids
      <4>4. QED
        BY <4>1, <4>2, <4>3 DEF RequestInv
    <3>6. SubsInv' /\ HeldInv'
      BY <3>1, <3>2, <3>3 DEF SubsInv, HeldInv, TypeOK, Sids
    <3>7. NoOrphans'
      BY <3>1, <3>2, <3>3, <3>4 DEF NoOrphans, TypeOK, SubsInv
    <3>8. QED
      BY <3>5, <3>6, <3>7
  <2>3. ASSUME NEW id \in SubIds, HandleUnsub(id)
        PROVE  IInv'
    <3>1. /\ runner = "read" /\ request = <<>>
          /\ subs' = [subs EXCEPT ![id] = 0] /\ held' = held \ {id}
          /\ live' = IF subs[id] = 0 THEN live ELSE [live EXCEPT ![subs[id]] = None]
          /\ UNCHANGED <<runner, request, made, reused, stopper>>
      BY <2>3 DEF HandleUnsub, FrameRead, RequestInv
    <3>2. RequestInv'
      <4>1. runner' # "register" /\ request' = <<>>
        BY <3>1
      <4>2. \A i \in SubIds, t \in Sids : request' # <<i, t>>
        BY <4>1
      <4>3. QED
        BY <4>1, <4>2 DEF RequestInv
    <3>3. SubsInv' /\ HeldInv'
      BY <3>1 DEF SubsInv, HeldInv, TypeOK, Sids
    <3>4. NoOrphans'
      BY <3>1 DEF NoOrphans, SubsInv, TypeOK, Sids
    <3>5. QED
      BY <3>2, <3>3, <3>4
  <2>4. CASE StopUnsubscribes
    <3>1. /\ live' = [s \in Sids |-> IF \E i \in SubIds : subs[i] = s THEN None ELSE live[s]]
          /\ subs' = [i \in SubIds |-> 0] /\ stopper' = "disconnect"
          /\ UNCHANGED <<runner, request, made, reused, held>>
      BY <2>4 DEF StopUnsubscribes
    <3>2. RequestInv'
      <4>1. \A i \in SubIds : subs'[i] = 0
        BY <3>1
      <4>2. ASSUME NEW i \in SubIds, NEW t \in Sids, request' = <<i, t>>
            PROVE  /\ live'[t] = i /\ t <= made'
                   /\ \A j \in SubIds : subs'[j] # t
        <5>1. live[t] = i /\ t <= made /\ \A j \in SubIds : subs[j] # t
          BY <3>1, <4>2 DEF RequestInv
        <5>2. t # 0
          BY DEF Sids
        <5>3. QED
          BY <3>1, <4>1, <5>1, <5>2
      <4>3. runner' = "register" <=> request' # <<>>
        BY <3>1 DEF RequestInv
      <4>4. QED
        BY <4>1, <4>2, <4>3 DEF RequestInv
    <3>3. SubsInv' /\ HeldInv'
      BY <3>1 DEF SubsInv, HeldInv, TypeOK
    <3>4. NoOrphans'
      BY <3>1 DEF NoOrphans, SubsInv, TypeOK
    <3>5. QED
      BY <3>2, <3>3, <3>4
  <2>5. CASE /\ UNCHANGED <<subs, live, made, request, reused>>
             /\ held' \subseteq held
             /\ runner' = "register" <=> runner = "register"
             /\ stopper' = stopper \/ stopper' \notin {"idle", "lock"} \/ stopper = "idle"
    BY <2>5 DEF RequestInv, SubsInv, HeldInv, NoOrphans
  <2>6. ASSUME NEW p \in {"runner", "stopper"}, Disconnect(p)
        PROVE  IInv'
    BY <2>5, <2>6 DEF Disconnect, subscriptions
  <2>7. CASE Moves \/ Connect
    BY <2>5, <2>7 DEF Moves, Start, SetRunning, RunReturns, Open, OpenFails, Connect, Read,
                      ReadHandled, LeaveLoop, subscriptions
  <2>8. CASE HandlePong \/ Cancel \/ StopBegins \/ UNCHANGED vars
    BY <2>5, <2>8 DEF HandlePong, Cancel, StopBegins, subscriptions, vars
  <2>9. ASSUME NEW n \in Conns, Pinger(n)
        PROVE  IInv'
    BY <2>5, <2>9 DEF Pinger, Ping, PingAnswered, PingEnds, subscriptions
  <2>10. ASSUME NEW s \in Sids, Callback(s)
         PROVE  IInv'
    BY <2>5, <2>10 DEF Callback, MessageArrives, SendToDevice
  <2>11. QED
    BY <2>1, <2>2, <2>3, <2>4, <2>6, <2>7, <2>8, <2>9, <2>10
    DEF Next, Runner, Moves, Device, Stopper
<1>3. QED
  BY <1>1, <1>2, PortTyping, PTL DEF Spec

\* What the device was told OK for is served, over any number of connections.
THEOREM Served == Spec => []AcknowledgedIsServed
<1>1. TypeOK /\ IInv => AcknowledgedIsServed
  BY DEF IInv, HeldInv, SubsInv, AcknowledgedIsServed, TypeOK
<1>2. QED
  BY <1>1, Inductive, PortTyping, PTL

\* No subscription is lost track of but one whose id was subscribed again.
THEOREM NoneOrphaned == Spec => []NoOrphans
BY Inductive, PTL DEF IInv

-----------------------------------------------------------------------------
(* The parser *)

(* Arithmetic of two bytes. *)

LEMMA Division ==
  ASSUME NEW n \in Nat
  PROVE  /\ n \div Radix \in Nat /\ n % Radix \in Byte
         /\ n = (n \div Radix) * Radix + (n % Radix)
<1>1. Radix \in Nat /\ Radix > 1
  BY ParserAssumption
<1>2. n % Radix \in Byte
  BY <1>1 DEF Byte
<1>3. n \div Radix \in Nat
  BY <1>1
<1>4. ASSUME NEW q, NEW r, q = n \div Radix, r = n % Radix
      PROVE  Radix * q + r = n
  BY <1>1, <1>4, Z3T(30)
<1>5. \A q \in Nat : Radix * q = q * Radix
  BY <1>1
<1>6. Radix * (n \div Radix) + (n % Radix) = n
  BY <1>4
<1>7. QED
  BY <1>2, <1>3, <1>5, <1>6

LEMMA TwoBytes ==
  ASSUME NEW h \in Byte, NEW l \in Byte
  PROVE  /\ h * Radix + l \in 0 .. Radix * Radix - 1
         /\ (h * Radix + l) \div Radix = h /\ (h * Radix + l) % Radix = l
<1>1. \A R \in Nat : R > 1 => \A x, y \in 0 .. R - 1 :
        /\ x * R + y \in 0 .. R * R - 1
        /\ (x * R + y) \div R = x /\ (x * R + y) % R = y
  OBVIOUS
<1>2. QED
  BY <1>1, ParserAssumption DEF Byte

LEMMA HighByte ==
  ASSUME NEW n \in 0 .. Radix * Radix - 1
  PROVE  n \div Radix \in Byte
<1>1. \A R \in Nat : R > 1 => \A m \in 0 .. R * R - 1 : m \div R \in 0 .. R - 1
  OBVIOUS
<1>2. QED
  BY <1>1, ParserAssumption, Zenon DEF Byte

(* Sequences, position by position. *)

LEMMA SameBytes ==
  \A s, t \in Seq(Byte) :
    Len(s) = Len(t) /\ (\A i \in 1 .. Len(s) : s[i] = t[i]) => s = t
OBVIOUS

LEMMA Concatenated ==
  ASSUME NEW S, NEW s \in Seq(S), NEW t \in Seq(S)
  PROVE  /\ s \o t \in Seq(S) /\ Len(s \o t) = Len(s) + Len(t)
         /\ \A i \in 1 .. Len(s) + Len(t) :
              (s \o t)[i] = IF i <= Len(s) THEN s[i] ELSE t[i - Len(s)]
OBVIOUS

LEMMA Slice ==
  ASSUME NEW S, NEW s \in Seq(S), NEW m \in 1 .. Len(s) + 1, NEW n \in m - 1 .. Len(s)
  PROVE  /\ SubSeq(s, m, n) \in Seq(S) /\ Len(SubSeq(s, m, n)) = n - m + 1
         /\ \A i \in 1 .. n - m + 1 : SubSeq(s, m, n)[i] = s[m + i - 1]
OBVIOUS
-----------------------------------------------------------------------------
\* What each state says of the buffer.
BufInv ==
  /\ state \in {"waitSTX", "lenHigh"} => bufLen = 0 /\ payLen = 0
  /\ state = "lenLow" => bufLen = 1 /\ payLen = buf[1] * Radix
  /\ state \in {"payload", "crcHigh", "crcLow", "etx"} =>
       payLen = buf[1] * Radix + buf[2] /\ payLen <= MaxPayload
  /\ state = "payload" => 2 <= bufLen /\ bufLen < payLen + 2
  /\ state = "crcHigh" => bufLen = payLen + 2
  /\ state \in {"crcLow", "etx"} => bufLen = payLen + 3
  /\ state = "etx" =>
       buf[payLen + 3] * Radix + (Crc(SubSeq(buf, 1, payLen + 2)) % Radix)
         = Crc(SubSeq(buf, 1, payLen + 2))

LEMMA Buffer ==
  /\ Capacity \in Nat /\ Capacity >= MaxPayload + 2 /\ Capacity >= BufSize
  /\ [1 .. Capacity -> Byte] \subseteq Seq(Byte)
  /\ \A s \in [1 .. Capacity -> Byte] : Len(s) = Capacity
BY ParserAssumption DEF Capacity, Byte

LEMMA Payload ==
  ASSUME NEW s \in [1 .. Capacity -> Byte], NEW n \in 0 .. MaxPayload
  PROVE  SubSeq(s, 3, n + 2) \in UNION {[1 .. k -> Byte] : k \in 0 .. MaxPayload}
<1>1. s \in Seq(Byte) /\ Len(s) >= MaxPayload + 2 /\ Len(s) \in Nat
  BY Buffer
<1>2. 3 \in 1 .. Len(s) + 1 /\ n + 2 \in 3 - 1 .. Len(s) /\ (n + 2) - 3 + 1 = n
  BY <1>1, ParserAssumption
<1> DEFINE t == SubSeq(s, 3, n + 2)
<1>3. t \in Seq(Byte) /\ Len(t) = n
  BY <1>1, <1>2, Slice
<1> HIDE DEF t
<1>4. t \in [1 .. n -> Byte]
  BY <1>3
<1>5. QED
  BY <1>4 DEF t

\* Every variable keeps its type and the buffer is what the state says: the parser
\* never writes or reads outside its buffer, whatever bytes come.
LEMMA Typed == ParserSpec => [](ParserTypeOK /\ BufInv)
<1> USE ParserAssumption, Buffer
<1>1. ParserInit => ParserTypeOK /\ BufInv
  <2> SUFFICES ASSUME ParserInit
               PROVE  ParserTypeOK /\ BufInv
    OBVIOUS
  <2>1. 0 \in Byte
    BY DEF Byte
  <2>2. buf \in [1 .. Capacity -> Byte]
    BY <2>1 DEF ParserInit
  <2>3. QED
    BY <2>2 DEF ParserInit, ParserTypeOK, BufInv, States
<1>2. ParserTypeOK /\ BufInv /\ [ParserNext]_parserVars => ParserTypeOK' /\ BufInv'
  <2> SUFFICES ASSUME ParserTypeOK, BufInv, [ParserNext]_parserVars
               PROVE  ParserTypeOK' /\ BufInv'
    OBVIOUS
  <2> DEFINE Results == {Nothing, Error} \cup
                 {Frame(p) : p \in UNION {[1 .. n -> Byte] : n \in 0 .. MaxPayload}}
             PayLens == 0 .. MaxPayload \cup {x * Radix : x \in Byte}
  <2>0. Nothing \in Results /\ Error \in Results /\ 0 \in PayLens
    OBVIOUS
  <2>1. CASE Reset
    BY <2>0, <2>1 DEF Reset, Cleared, ParserTypeOK, BufInv, States
  <2>2. ASSUME NEW b \in Byte, FeedByte(b)
        PROVE  ParserTypeOK' /\ BufInv'
    <3>1. fed' \in Byte \cup {-1} /\ b \in Nat
      BY <2>2 DEF FeedByte, Byte
    <3>2. CASE WaitSTX(b)
      BY <2>0, <3>1, <3>2 DEF WaitSTX, ParserTypeOK, BufInv, States
    <3>3. CASE ReadLenHigh(b)
      <4>1. bufLen' = 1 /\ buf' \in [1 .. Capacity -> Byte] /\ buf'[1] = b
        BY <3>3 DEF ReadLenHigh, Store, ParserTypeOK, BufInv
      <4>2. payLen' = b * Radix /\ payLen' \in PayLens /\ state' = "lenLow" /\ result' = Nothing
        BY <3>3 DEF ReadLenHigh
      <4>3. QED
        BY <2>0, <3>1, <4>1, <4>2 DEF ParserTypeOK, BufInv, States
    <3>4. CASE Fail /\ buf' \in [1 .. Capacity -> Byte]
      BY <2>0, <3>1, <3>4 DEF Fail, Cleared, ParserTypeOK, BufInv, States
    <3>5. CASE ReadLenLow(b)
      <4>1. /\ state = "lenLow" /\ payLen = buf[1] * Radix
            /\ buf' \in [1 .. Capacity -> Byte] /\ buf'[1] = buf[1] /\ buf'[2] = b
        BY <3>5 DEF ReadLenLow, ParserTypeOK, BufInv
      <4>2. payLen \in Nat
        BY <4>1, SMTT(30) DEF ParserTypeOK, Byte
      <4>3. CASE payLen + b > MaxPayload
        BY <3>4, <3>5, <4>1, <4>3 DEF ReadLenLow
      <4>4. CASE ~(payLen + b > MaxPayload)
        <5>1. /\ payLen' = payLen + b /\ bufLen' = 2 /\ result' = Nothing
              /\ state' = IF payLen + b = 0 THEN "crcHigh" ELSE "payload"
          BY <3>5, <4>4 DEF ReadLenLow
        <5>2. payLen' \in 0 .. MaxPayload /\ payLen' = buf'[1] * Radix + buf'[2]
          BY <3>1, <4>1, <4>2, <4>4, <5>1
        <5>3. ParserTypeOK'
          BY <2>0, <3>1, <4>1, <5>1, <5>2 DEF ParserTypeOK, States
        <5>4. BufInv'
          BY <5>1, <5>2 DEF BufInv
        <5>5. QED
          BY <5>3, <5>4
      <4>5. QED
        BY <4>3, <4>4
    <3>6. CASE ReadPayload(b)
      <4>1. /\ state = "payload" /\ bufLen < Capacity /\ bufLen \in Nat /\ payLen \in 0 .. MaxPayload
            /\ 2 <= bufLen /\ bufLen < payLen + 2 /\ payLen = buf[1] * Radix + buf[2]
        BY <3>6 DEF ReadPayload, ParserTypeOK, BufInv, Byte
      <4>2. /\ buf' = [buf EXCEPT ![bufLen + 1] = b] /\ bufLen' = bufLen + 1
            /\ state' = IF bufLen' >= payLen + 2 THEN "crcHigh" ELSE "payload"
            /\ result' = Nothing /\ payLen' = payLen
        BY <3>6, <4>1 DEF ReadPayload, Store
      <4>3. buf' \in [1 .. Capacity -> Byte] /\ buf'[1] = buf[1] /\ buf'[2] = buf[2]
        BY <4>1, <4>2 DEF ParserTypeOK
      <4>4. ParserTypeOK'
        BY <2>0, <3>1, <4>1, <4>2, <4>3 DEF ParserTypeOK, States
      <4>5. BufInv'
        BY <4>1, <4>2, <4>3 DEF BufInv
      <4>6. QED
        BY <4>4, <4>5
    <3>7. CASE ReadCRCHigh(b)
      <4>1. /\ state = "crcHigh" /\ bufLen = payLen + 2 /\ payLen \in 0 .. MaxPayload
            /\ payLen = buf[1] * Radix + buf[2]
        BY <3>7 DEF ReadCRCHigh, ParserTypeOK, BufInv, Byte
      <4>2. CASE bufLen >= Capacity - 1
        BY <3>4, <3>7, <4>2 DEF ReadCRCHigh, ParserTypeOK
      <4>3. CASE ~(bufLen >= Capacity - 1)
        <5>1. /\ buf' = [buf EXCEPT ![bufLen + 1] = b] /\ bufLen' = bufLen + 1
              /\ state' = "crcLow" /\ result' = Nothing /\ payLen' = payLen
          BY <3>7, <4>3 DEF ReadCRCHigh, Store
        <5>2. buf' \in [1 .. Capacity -> Byte] /\ buf'[1] = buf[1] /\ buf'[2] = buf[2]
          BY <4>1, <4>3, <5>1, SMTT(30) DEF ParserTypeOK
        <5>3. ParserTypeOK'
          <6>1. bufLen' \in 0 .. Capacity
            BY <4>3, <5>1 DEF ParserTypeOK
          <6>2. QED
            BY <2>0, <3>1, <5>1, <5>2, <6>1 DEF ParserTypeOK, States
        <5>4. BufInv'
          BY <4>1, <5>1, <5>2 DEF BufInv
        <5>5. QED
          BY <5>3, <5>4
      <4>4. QED
        BY <4>2, <4>3
    <3>8. CASE ReadCRCLow(b)
      <4> DEFINE crc == Crc(SubSeq(buf, 1, payLen + 2))
      <4>1. state = "crcLow" /\ buf' = buf
        BY <3>8 DEF ReadCRCLow
      <4>2. CASE crc = buf[payLen + 3] * Radix + b
        <5>1. state' = "etx" /\ result' = Nothing /\ UNCHANGED <<buf, bufLen, payLen>>
          BY <3>8, <4>2 DEF ReadCRCLow
        <5>2. ParserTypeOK'
          BY <2>0, <3>1, <5>1 DEF ParserTypeOK, States
        <5>3. buf[payLen + 3] \in Byte
          BY <4>1, SMTT(30) DEF ParserTypeOK, BufInv, Byte
        <5>4. crc % Radix = b
          BY <4>2, <5>3, TwoBytes, ZenonT(30)
        <5>5. BufInv'
          <6>1. buf[payLen + 3] * Radix + (crc % Radix) = crc
            BY <4>2, <5>4
          <6>2. QED
            BY <4>1, <5>1, <6>1 DEF BufInv
        <5>6. QED
          BY <5>2, <5>5
      <4>3. CASE crc # buf[payLen + 3] * Radix + b
        BY <3>4, <3>8, <4>1, <4>3 DEF ReadCRCLow, ParserTypeOK
      <4>4. QED
        BY <4>2, <4>3
    <3>9. CASE ReadETX(b)
      <4>1. state = "etx" /\ buf' = buf /\ payLen \in 0 .. MaxPayload
        BY <3>9 DEF ReadETX, ParserTypeOK, BufInv, Byte
      <4>2. CASE b = ETX
        <5>1. Cleared /\ result' = Frame(SubSeq(buf, 3, payLen + 2))
          BY <3>9, <4>2 DEF ReadETX
        <5>2. result' \in Results
          BY <4>1, <5>1, Payload DEF ParserTypeOK
        <5>3. bufLen' = 0 /\ state' = "waitSTX" /\ payLen' = 0
          BY <5>1 DEF Cleared
        <5>4. BufInv'
          BY <5>3 DEF BufInv
        <5>5. buf' \in [1 .. Capacity -> Byte] /\ bufLen' \in 0 .. Capacity /\ payLen' \in 0 .. MaxPayload
          BY <2>0, <3>1, <4>1, <5>3 DEF ParserTypeOK
        <5>6. ParserTypeOK'
          BY <3>1, <5>2, <5>3, <5>5 DEF ParserTypeOK, States
        <5>7. QED
          BY <5>4, <5>6
      <4>3. CASE b # ETX
        BY <3>4, <3>9, <4>1, <4>3 DEF ReadETX, ParserTypeOK
      <4>4. QED
        BY <4>2, <4>3
    <3>10. QED
      BY <2>2, <3>2, <3>3, <3>5, <3>6, <3>7, <3>8, <3>9 DEF FeedByte
  <2>3. CASE UNCHANGED parserVars
    BY <2>3 DEF parserVars, ParserTypeOK, BufInv
  <2>4. QED
    BY <2>1, <2>2, <2>3 DEF ParserNext
<1>3. QED
  BY <1>1, <1>2, PTL DEF ParserSpec

\* Type correctness, by the same induction.
THEOREM ParserTyping == ParserSpec => []ParserTypeOK
BY Typed, PTL
-----------------------------------------------------------------------------
(* Frames, position by position. *)

Bytes(p) == Framing!BuildFrame(p)
Cov(p)   == Framing!Covered(p)

LEMMA CoveredShape ==
  ASSUME NEW p \in Framing!Payloads
  PROVE  /\ p \in Seq(Byte) /\ Len(p) \in 0 .. MaxPayload
         /\ Cov(p) \in Seq(Byte) /\ Len(Cov(p)) = Len(p) + 2
         /\ Cov(p)[1] = Len(p) \div Radix /\ Cov(p)[2] = Len(p) % Radix
         /\ \A i \in 1 .. Len(p) : Cov(p)[i + 2] = p[i]
<1> USE ParserAssumption
<1>1. PICK n \in 0 .. MaxPayload : p \in [1 .. n -> Byte]
  BY DEF Framing!Payloads, Framing!Byte, Byte
<1>2. p \in Seq(Byte) /\ Len(p) = n
  BY <1>1
<1>3. n \in 0 .. Radix * Radix - 1
  BY ParserAssumption
<1> DEFINE head == Framing!BigEndian(Len(p))
<1>4. head \in Seq(Byte) /\ Len(head) = 2 /\ head[1] = Len(p) \div Radix /\ head[2] = Len(p) % Radix
  BY <1>2, <1>3, Division, HighByte DEF Framing!BigEndian
<1>5. Cov(p) = head \o p
  BY DEF Cov, Framing!Covered
<1> HIDE DEF head
<1>6. /\ Cov(p) \in Seq(Byte) /\ Len(Cov(p)) = 2 + Len(p)
      /\ \A i \in 1 .. 2 + Len(p) : Cov(p)[i] = IF i <= 2 THEN head[i] ELSE p[i - 2]
  <2>1. /\ head \o p \in Seq(Byte) /\ Len(head \o p) = Len(head) + Len(p)
        /\ \A i \in 1 .. Len(head) + Len(p) :
             (head \o p)[i] = IF i <= Len(head) THEN head[i] ELSE p[i - Len(head)]
    BY <1>2, <1>4, Concatenated
  <2>2. QED
    BY <1>4, <1>5, <2>1
<1>7. Cov(p)[1] = head[1] /\ Cov(p)[2] = head[2]
  BY <1>2, <1>6
<1>8. ASSUME NEW i \in 1 .. Len(p)
      PROVE  Cov(p)[i + 2] = p[i]
  <2>1. i + 2 \in 1 .. 2 + Len(p) /\ ~(i + 2 <= 2) /\ (i + 2) - 2 = i
    BY <1>2
  <2>2. QED
    BY <1>6, <2>1
<1>9. QED
  BY <1>2, <1>4, <1>6, <1>7, <1>8

LEMMA FrameShape ==
  ASSUME NEW p \in Framing!Payloads
  PROVE  /\ Bytes(p) \in Seq(Byte) /\ Len(Bytes(p)) = Len(p) + 6
         /\ Bytes(p)[1] = STX
         /\ \A i \in 1 .. Len(p) + 2 : Bytes(p)[i + 1] = Cov(p)[i]
         /\ Crc(Cov(p)) \in Nat
         /\ Bytes(p)[Len(p) + 4] = Crc(Cov(p)) \div Radix
         /\ Bytes(p)[Len(p) + 5] = Crc(Cov(p)) % Radix
         /\ Bytes(p)[Len(p) + 6] = ETX
<1> USE ParserAssumption
<1> DEFINE L == Len(p)
           crc == Crc(Cov(p))
           tail == Framing!BigEndian(crc)
<1>1. L \in 0 .. MaxPayload /\ Cov(p) \in Seq(Byte) /\ Len(Cov(p)) = L + 2
  BY CoveredShape
<1>2. Cov(p) \in [1 .. L + 2 -> Byte] /\ L + 2 \in 2 .. MaxPayload + 2
  BY <1>1
<1>3. crc \in 0 .. Radix * Radix - 1
  BY <1>2, ParserAssumption
<1> HIDE DEF crc, L
<1>. Radix * Radix \in Nat
  OBVIOUS
<1>. crc \in Nat
  BY <1>3
<1>4. crc \in Nat /\ crc \div Radix \in Byte /\ crc % Radix \in Byte
  BY <1>3, Division, HighByte
<1>5. tail \in Seq(Byte) /\ Len(tail) = 2 /\ tail[1] = crc \div Radix /\ tail[2] = crc % Radix
  BY <1>4 DEF Framing!BigEndian
<1>6. Bytes(p) = ((<<STX>> \o Cov(p)) \o tail) \o <<ETX>>
  BY DEF Bytes, Cov, Framing!BuildFrame, crc
<1>7. <<STX>> \in Seq(Byte) /\ <<ETX>> \in Seq(Byte) /\ Len(<<STX>>) = 1 /\ Len(<<ETX>>) = 1
      /\ <<STX>>[1] = STX /\ <<ETX>>[1] = ETX
  OBVIOUS
<1> HIDE DEF tail
<1>8. DEFINE one == <<STX>> \o Cov(p)
             two == one \o tail
<1>9. /\ one \in Seq(Byte) /\ Len(one) = L + 3 /\ one[1] = STX
      /\ \A i \in 1 .. L + 2 : one[i + 1] = Cov(p)[i]
  BY <1>1, <1>7, Concatenated
<1> HIDE DEF one
<1>10. /\ two \in Seq(Byte) /\ Len(two) = L + 5
       /\ \A i \in 1 .. L + 3 : two[i] = one[i]
       /\ two[L + 4] = tail[1] /\ two[L + 5] = tail[2]
  <2>1. /\ two \in Seq(Byte) /\ Len(two) = L + 3 + 2
        /\ \A i \in 1 .. L + 3 + 2 : two[i] = IF i <= L + 3 THEN one[i] ELSE tail[i - (L + 3)]
    <3>1. /\ one \o tail \in Seq(Byte) /\ Len(one \o tail) = Len(one) + Len(tail)
          /\ \A i \in 1 .. Len(one) + Len(tail) :
               (one \o tail)[i] = IF i <= Len(one) THEN one[i] ELSE tail[i - Len(one)]
      BY <1>5, <1>9, Concatenated
    <3>2. QED
      BY <1>5, <1>9, <3>1
  <2>2. (L + 4) - (L + 3) = 1 /\ (L + 5) - (L + 3) = 2 /\ L \in Nat
        /\ L + 4 \in 1 .. L + 3 + 2 /\ L + 5 \in 1 .. L + 3 + 2
        /\ ~(L + 4 <= L + 3) /\ ~(L + 5 <= L + 3)
    BY <1>1
  <2>3. two[L + 4] = tail[1] /\ two[L + 5] = tail[2]
    BY <2>1, <2>2
  <2>4. QED
    BY <2>1, <2>2, <2>3
<1> HIDE DEF two
<1>11. /\ Bytes(p) \in Seq(Byte) /\ Len(Bytes(p)) = L + 6
       /\ \A i \in 1 .. L + 5 : Bytes(p)[i] = two[i]
       /\ Bytes(p)[L + 6] = ETX
  BY <1>1, <1>6, <1>7, <1>10, Concatenated DEF one, two
<1>12. Bytes(p)[1] = STX /\ \A i \in 1 .. L + 2 : Bytes(p)[i + 1] = Cov(p)[i]
  BY <1>1, <1>9, <1>10, <1>11
<1>13. Bytes(p)[L + 4] = crc \div Radix /\ Bytes(p)[L + 5] = crc % Radix
  BY <1>1, <1>5, <1>10, <1>11
<1>14. QED
  BY <1>4, <1>11, <1>12, <1>13 DEF L, crc

\* s is the beginning of the frame of p, or all of it.
Begins(s, p) ==
  Len(s) <= Len(p) + 6 /\ \A i \in 1 .. Len(s) : Bytes(p)[i] = s[i]

\* The second and third byte tell the length of the payload.
LEMMA HeaderTells ==
  ASSUME NEW s \in Seq(Byte), NEW p \in Framing!Payloads, Begins(s, p), Len(s) >= 3
  PROVE  Len(p) = s[2] * Radix + s[3]
<1>1. Len(p) \in Nat /\ Cov(p)[1] = Len(p) \div Radix /\ Cov(p)[2] = Len(p) % Radix
  BY CoveredShape
<1>2. Bytes(p)[2] = Cov(p)[1] /\ Bytes(p)[3] = Cov(p)[2]
  BY <1>1, FrameShape
<1>3. s[2] = Len(p) \div Radix /\ s[3] = Len(p) % Radix
  BY <1>1, <1>2 DEF Begins
<1>4. QED
  BY <1>1, <1>3, Division

\* What begins no frame is refused rightly, and what begins one but is shorter is not a frame.
LEMMA Hopeless ==
  ASSUME NEW s \in Seq(Byte), \A p \in Framing!Payloads : ~Begins(s, p)
  PROVE  ~Framing!Possible(s) /\ \A p \in Framing!Payloads : s # Framing!BuildFrame(p)
<1>1. ASSUME NEW p \in Framing!Payloads, s = Bytes(p)
      PROVE  FALSE
  <2>1. Len(Bytes(p)) = Len(p) + 6 /\ Len(p) \in Nat
    BY FrameShape, CoveredShape
  <2>2. Begins(s, p)
    BY <1>1, <2>1 DEF Begins
  <2>3. QED
    BY <2>2
<1>2. ASSUME NEW p \in Framing!Payloads, Len(s) < Len(p) + 6, SubSeq(Bytes(p), 1, Len(s)) = s
      PROVE  FALSE
  <2>1. Bytes(p) \in Seq(Byte) /\ Len(Bytes(p)) = Len(p) + 6 /\ Len(p) \in Nat /\ Len(s) \in Nat
    BY FrameShape, CoveredShape
  <2>2. \A i \in 1 .. Len(s) : SubSeq(Bytes(p), 1, Len(s))[i] = Bytes(p)[i]
    BY <1>2, <2>1
  <2>3. QED
    BY <1>2, <2>1, <2>2 DEF Begins
<1>3. QED
  BY <1>1, <1>2 DEF Framing!Possible, Bytes
-----------------------------------------------------------------------------
(* The refinement. *)

Reading == state \notin {"waitSTX", "etx"}

\* Partial, position by position.
PartialInv ==
  /\ Partial \in Seq(Byte)
  /\ state = "waitSTX" => Partial = <<>>
  /\ Reading => Len(Partial) = bufLen + 1
  /\ state = "etx" =>
       /\ Len(Partial) = bufLen + 2
       /\ Partial[bufLen + 2] = Crc(SubSeq(buf, 1, payLen + 2)) % Radix
  /\ state # "waitSTX" =>
       Partial[1] = STX /\ \A i \in 1 .. bufLen : Partial[i + 1] = buf[i]

LEMMA PartialShape == ParserTypeOK /\ BufInv => PartialInv
<1> SUFFICES ASSUME ParserTypeOK, BufInv
             PROVE  PartialInv
  OBVIOUS
<1> USE ParserAssumption
<1> DEFINE kept == SubSeq(buf, 1, bufLen)
           one  == <<STX>> \o kept
           low  == Crc(SubSeq(buf, 1, payLen + 2)) % Radix
<1>1. buf \in Seq(Byte) /\ Len(buf) = Capacity /\ bufLen \in 0 .. Capacity /\ Capacity \in Nat
  BY Buffer DEF ParserTypeOK
<1>2. 1 \in 1 .. Len(buf) + 1 /\ bufLen \in 1 - 1 .. Len(buf) /\ bufLen \in Nat
  BY <1>1
<1>3. kept \in Seq(Byte) /\ Len(kept) = bufLen - 1 + 1 /\ \A i \in 1 .. bufLen - 1 + 1 : kept[i] = buf[1 + i - 1]
  BY <1>1, <1>2, Slice
<1>4. kept \in Seq(Byte) /\ Len(kept) = bufLen /\ \A i \in 1 .. bufLen : kept[i] = buf[i]
  <2>1. bufLen - 1 + 1 = bufLen /\ \A i \in 1 .. bufLen : 1 + i - 1 = i
    BY <1>2
  <2>2. QED
    BY <1>3, <2>1
<1>5. <<STX>> \in Seq(Byte) /\ Len(<<STX>>) = 1 /\ <<STX>>[1] = STX
  OBVIOUS
<1>6. one \in Seq(Byte) /\ Len(one) = bufLen + 1 /\ one[1] = STX /\ \A i \in 1 .. bufLen : one[i + 1] = buf[i]
  <2> HIDE DEF kept
  <2>1. /\ one \in Seq(Byte) /\ Len(one) = Len(<<STX>>) + Len(kept)
        /\ \A i \in 1 .. Len(<<STX>>) + Len(kept) :
             one[i] = IF i <= Len(<<STX>>) THEN <<STX>>[i] ELSE kept[i - Len(<<STX>>)]
    BY <1>4, <1>5, Concatenated
  <2> HIDE DEF one
  <2>2. \A i \in 1 .. bufLen : i + 1 \in 1 .. 1 + bufLen /\ ~(i + 1 <= 1) /\ (i + 1) - 1 = i
    BY <1>2
  <2>3. Len(one) = bufLen + 1 /\ one[1] = STX
    BY <1>2, <1>4, <1>5, <2>1
  <2>4. QED
    BY <1>4, <1>5, <2>1, <2>2, <2>3
<1>7. CASE state = "waitSTX"
  BY <1>7 DEF PartialInv, Partial, Reading
<1>8. CASE Reading
  <2>1. Partial = one
    BY <1>8 DEF Partial, Reading
  <2> HIDE DEF one
  <2>2. QED
    BY <1>6, <1>8, <2>1 DEF PartialInv, Reading
<1>9. CASE state = "etx"
  <2>1. Partial = one \o <<low>>
    BY <1>9 DEF Partial
  <2>2. low \in Byte
    <3>1. bufLen = payLen + 3 /\ payLen \in Nat /\ payLen <= MaxPayload
      BY <1>9 DEF BufInv, ParserTypeOK, Byte
    <3>2. payLen + 2 \in 1 - 1 .. Len(buf) /\ (payLen + 2) - 1 + 1 = payLen + 2
      BY <1>1, <3>1
    <3> DEFINE covered == SubSeq(buf, 1, payLen + 2)
    <3>3. covered \in Seq(Byte) /\ Len(covered) = payLen + 2
      BY <1>1, <1>2, <3>2, Slice
    <3> HIDE DEF covered
    <3>4. covered \in [1 .. payLen + 2 -> Byte] /\ payLen + 2 \in 2 .. MaxPayload + 2
      BY <3>1, <3>3
    <3>5. Crc(covered) \in 0 .. Radix * Radix - 1
      BY <3>4
    <3>6. Radix * Radix \in Nat
      OBVIOUS
    <3>7. Crc(covered) \in Nat
      BY <3>5, <3>6
    <3>8. QED
      BY <3>7, Division DEF covered
  <2> HIDE DEF one, low
  <2>3. <<low>> \in Seq(Byte) /\ Len(<<low>>) = 1 /\ <<low>>[1] = low
    BY <2>2
  <2>4. /\ one \o <<low>> \in Seq(Byte) /\ Len(one \o <<low>>) = Len(one) + Len(<<low>>)
        /\ \A i \in 1 .. Len(one) + Len(<<low>>) :
             (one \o <<low>>)[i] = IF i <= Len(one) THEN one[i] ELSE <<low>>[i - Len(one)]
    BY <1>6, <2>3, Concatenated
  <2>5. /\ Partial \in Seq(Byte) /\ Len(Partial) = bufLen + 2
        /\ Partial[bufLen + 2] = low
        /\ \A i \in 1 .. bufLen + 1 : Partial[i] = one[i]
    BY <1>2, <1>6, <2>1, <2>3, <2>4
  <2>6. QED
    BY <1>2, <1>6, <1>9, <2>5 DEF PartialInv, Reading, low
<1>10. QED
  BY <1>7, <1>8, <1>9 DEF Reading

LEMMA Appended ==
  ASSUME NEW S, NEW s \in Seq(S), NEW t \in Seq(S), NEW b \in S, Len(t) = Len(s) + 1,
         \A i \in 1 .. Len(s) : t[i] = s[i], t[Len(s) + 1] = b
  PROVE  t = Append(s, b)
OBVIOUS

LEMMA NoFrameYet ==
  ASSUME NEW s \in Seq(Byte), Len(s) < 6 \/ Len(s) # s[2] * Radix + s[3] + 6
  PROVE  \A p \in Framing!Payloads : s # Framing!BuildFrame(p)
<1> SUFFICES ASSUME NEW p \in Framing!Payloads, s = Bytes(p)
             PROVE  FALSE
  BY DEF Bytes
<1>1. Len(s) = Len(p) + 6 /\ Len(p) \in Nat
  BY FrameShape, CoveredShape
<1>2. Begins(s, p)
  BY <1>1 DEF Begins
<1>3. Len(p) = s[2] * Radix + s[3]
  BY <1>1, <1>2, HeaderTells
<1>4. QED
  BY <1>1, <1>3

\* A byte is kept when the parser has one more of the frame and the frame is not whole.
LEMMA Kept ==
  ASSUME PartialInv, PartialInv', NEW b \in Byte, result' = Nothing,
         state # "waitSTX" \/ b = STX, Len(Partial) < MaxPayload + 5,
         Len(Partial') = Len(Partial) + 1, Partial'[Len(Partial) + 1] = b,
         \A i \in 1 .. Len(Partial) : Partial'[i] = Partial[i],
         Len(Partial') < 6 \/ Len(Partial') # Partial'[2] * Radix + Partial'[3] + 6,
         state # "waitSTX" => Len(Partial) > 0
  PROVE  Framing!Keep(b)
<1>1. Partial \in Seq(Byte) /\ Partial' \in Seq(Byte)
  BY DEF PartialInv
<1>2. Partial' = Append(Partial, b)
  BY <1>1, Appended
<1>3. \A p \in Framing!Payloads : Partial' # Framing!BuildFrame(p)
  BY <1>1, NoFrameYet
<1>4. Partial # <<>> \/ b = STX
  OBVIOUS
<1>5. QED
  BY <1>2, <1>3, <1>4 DEF Framing!Keep, Nothing, Framing!Nothing

\* A failure is right when no frame begins with what has been read.
LEMMA Refused ==
  ASSUME PartialInv, NEW b \in Byte, Fail, PartialInv', state # "waitSTX", bufLen \in Nat,
         \A p \in Framing!Payloads : ~Begins(Append(Partial, b), p)
  PROVE  Framing!Refuse(b)
<1>1. Partial \in Seq(Byte) /\ Len(Partial) > 0
  BY DEF PartialInv, Reading
<1>2. Append(Partial, b) \in Seq(Byte)
  BY <1>1
<1>3. ~Framing!Possible(Append(Partial, b))
      /\ \A p \in Framing!Payloads : Append(Partial, b) # Framing!BuildFrame(p)
  BY <1>2, Hopeless
<1>4. Partial' = <<>> /\ result' = Error
  BY DEF Fail, Cleared, PartialInv
<1>5. QED
  BY <1>1, <1>3, <1>4 DEF Framing!Refuse, Error, Framing!Error

\* Each step of the parser is one GspFraming allows.
LEMMA Step ==
  ASSUME BufSize >= MaxPayload + 4, ParserTypeOK, BufInv, PartialInv,
         ParserTypeOK', BufInv', PartialInv', [ParserNext]_parserVars
  PROVE  [Framing!Next]_(Framing!vars)
<1> USE ParserAssumption, Buffer
<1>0. /\ bufLen \in Nat /\ MaxPayload \in Nat /\ Capacity >= MaxPayload + 4
      /\ Partial \in Seq(Byte) /\ Partial' \in Seq(Byte)
      /\ \A i \in 1 .. Capacity : buf[i] \in Byte
  BY DEF ParserTypeOK, PartialInv
<1>1. CASE Reset
  <2>1. fed' = -1 /\ Partial' = <<>> /\ result' = Nothing
    BY <1>1 DEF Reset, Cleared, PartialInv
  <2>2. QED
    BY <2>1 DEF Framing!Next, Framing!Forget, Framing!Nothing, Nothing
<1>2. ASSUME NEW b \in Byte, FeedByte(b)
      PROVE  Framing!Next
  <2> SUFFICES Framing!Skip(b) \/ Framing!Keep(b) \/ Framing!Deliver(b) \/ Framing!Refuse(b)
    BY <1>2 DEF FeedByte, Framing!Next, Framing!Byte, Byte
  <2>1. CASE WaitSTX(b) /\ b # STX
    <3>1. Partial = <<>> /\ Partial' = <<>> /\ result' = Nothing
      BY <2>1 DEF WaitSTX, PartialInv
    <3>2. QED
      BY <2>1, <3>1 DEF Framing!Skip, Framing!Nothing, Nothing
  <2>2. CASE WaitSTX(b) /\ b = STX
    <3>1. state = "waitSTX" /\ state' = "lenHigh" /\ result' = Nothing /\ bufLen' = 0
      BY <2>2 DEF WaitSTX
    <3>2. Partial = <<>> /\ Len(Partial') = 1 /\ Partial'[1] = STX
      BY <3>1 DEF PartialInv, Reading
    <3>3. QED
      BY <1>0, <2>2, <3>1, <3>2, Kept
  <2>3. CASE ReadLenHigh(b)
    <3>1. state = "lenHigh" /\ state' = "lenLow" /\ result' = Nothing /\ bufLen = 0 /\ bufLen' = 1
          /\ buf'[1] = b
      BY <2>3 DEF ReadLenHigh, Store, BufInv, ParserTypeOK
    <3>2. /\ Len(Partial) = 1 /\ Partial[1] = STX
          /\ Len(Partial') = 2 /\ Partial'[1] = STX /\ Partial'[1 + 1] = b
      BY <3>1 DEF PartialInv, Reading
    <3>3. QED
      BY <1>0, <3>1, <3>2, Kept
  <2>4. CASE ReadLenLow(b)
    <3>1. /\ state = "lenLow" /\ bufLen = 1 /\ payLen = buf[1] * Radix
          /\ buf' = [buf EXCEPT ![2] = b]
      BY <2>4 DEF ReadLenLow, BufInv
    <3>2. Len(Partial) = 2 /\ Partial[1] = STX /\ Partial[2] = buf[1]
      BY <3>1 DEF PartialInv, Reading
    <3>3. CASE payLen + b > MaxPayload
      <4>1. Fail
        BY <2>4, <3>3 DEF ReadLenLow
      <4> DEFINE seen == Append(Partial, b)
      <4>2. seen \in Seq(Byte) /\ Len(seen) = 3 /\ seen[2] = buf[1] /\ seen[3] = b
        <5>1. /\ seen \in Seq(Byte) /\ Len(seen) = Len(Partial) + 1 /\ seen[Len(Partial) + 1] = b
              /\ \A i \in 1 .. Len(Partial) : seen[i] = Partial[i]
          BY <1>0
        <5>2. QED
          BY <3>2, <5>1
      <4> HIDE DEF seen
      <4>3. ASSUME NEW p \in Framing!Payloads, Begins(seen, p)
            PROVE  FALSE
        <5>1. Len(p) = seen[2] * Radix + seen[3]
          <6>1. Len(seen) >= 3
            BY <4>2
          <6>2. QED
            BY <4>2, <4>3, <6>1, HeaderTells
        <5>2. Len(p) = payLen + b /\ Len(p) <= MaxPayload /\ Len(p) \in Nat
          BY <3>1, <4>2, <5>1, CoveredShape
        <5>3. QED
          BY <3>3, <5>2
      <4>4. \A p \in Framing!Payloads : ~Begins(Append(Partial, b), p)
        BY <4>3 DEF seen
      <4>5. QED
        BY <1>0, <3>1, <4>1, <4>4, Refused
    <3>4. CASE ~(payLen + b > MaxPayload)
      <4>1. /\ bufLen' = 2 /\ result' = Nothing /\ state' \in {"crcHigh", "payload"}
            /\ buf'[1] = buf[1] /\ buf'[2] = b
        BY <2>4, <3>1, <3>4 DEF ReadLenLow, ParserTypeOK
      <4>2. /\ Len(Partial') = 3 /\ Partial'[1] = STX
            /\ Partial'[1 + 1] = buf[1] /\ Partial'[2 + 1] = b
        BY <4>1 DEF PartialInv, Reading
      <4>3. \A i \in 1 .. Len(Partial) : Partial'[i] = Partial[i]
        BY <3>2, <4>2
      <4>4. QED
        BY <1>0, <3>1, <3>2, <4>1, <4>2, <4>3, Kept
    <3>5. QED
      BY <3>3, <3>4
  <2>5. CASE ReadPayload(b) \/ ReadCRCHigh(b)
    <3>1. /\ state \in {"payload", "crcHigh"} /\ payLen = buf[1] * Radix + buf[2]
          /\ payLen \in Nat /\ payLen <= MaxPayload /\ 2 <= bufLen /\ bufLen <= payLen + 2
      BY <2>5 DEF ReadPayload, ReadCRCHigh, BufInv, ParserTypeOK, Byte
    <3>2. ~(bufLen >= Capacity - 1) /\ ~(bufLen >= Capacity)
      BY <1>0, <3>1
    <3>3. /\ buf' = [buf EXCEPT ![bufLen + 1] = b] /\ bufLen' = bufLen + 1 /\ result' = Nothing
          /\ state' \in {"payload", "crcHigh", "crcLow"}
      BY <2>5, <3>2 DEF ReadPayload, ReadCRCHigh, Store
    <3>4. /\ buf'[bufLen + 1] = b /\ \A i \in 1 .. bufLen : buf'[i] = buf[i]
      BY <1>0, <3>1, <3>2, <3>3 DEF ParserTypeOK
    <3>5. /\ Len(Partial) = bufLen + 1 /\ Partial[1] = STX
          /\ \A i \in 1 .. bufLen : Partial[i + 1] = buf[i]
      BY <3>1 DEF PartialInv, Reading
    <3>6. /\ Len(Partial') = bufLen + 2 /\ Partial'[1] = STX
          /\ \A i \in 1 .. bufLen + 1 : Partial'[i + 1] = buf'[i]
      BY <1>0, <3>3 DEF PartialInv, Reading
    <3>7. \A i \in 1 .. Len(Partial) : Partial'[i] = Partial[i]
      <4>1. ASSUME NEW i \in 1 .. Len(Partial), i # 1
            PROVE  Partial'[i] = Partial[i]
        <5>1. i - 1 \in 1 .. bufLen /\ i - 1 \in 1 .. bufLen + 1 /\ (i - 1) + 1 = i
          BY <1>0, <3>5, <4>1
        <5>2. QED
          BY <3>4, <3>5, <3>6, <5>1
      <4>2. QED
        BY <3>5, <3>6, <4>1
    <3>8. Partial'[Len(Partial) + 1] = b
      BY <1>0, <3>4, <3>5, <3>6
    <3>9. Partial'[2] = buf[1] /\ Partial'[3] = buf[2]
      <4>1. 1 \in 1 .. bufLen + 1 /\ 2 \in 1 .. bufLen + 1 /\ 1 \in 1 .. bufLen /\ 2 \in 1 .. bufLen
            /\ 1 + 1 = 2 /\ 2 + 1 = 3
        BY <1>0, <3>1
      <4>2. QED
        BY <3>4, <3>6, <4>1
    <3>10. Len(Partial') # Partial'[2] * Radix + Partial'[3] + 6
      BY <1>0, <3>1, <3>6, <3>9
    <3>11. QED
      BY <1>0, <3>1, <3>3, <3>5, <3>6, <3>7, <3>8, <3>10, Kept
  <2>6. CASE ReadCRCLow(b)
    <3> DEFINE covered == SubSeq(buf, 1, payLen + 2)
               crc == Crc(covered)
    <3>1. /\ state = "crcLow" /\ bufLen = payLen + 3 /\ payLen = buf[1] * Radix + buf[2]
          /\ payLen \in Nat /\ payLen <= MaxPayload /\ buf' = buf
      BY <2>6 DEF ReadCRCLow, BufInv, ParserTypeOK, Byte
    <3>2. /\ Len(Partial) = payLen + 4 /\ Partial[1] = STX
          /\ \A i \in 1 .. payLen + 3 : Partial[i + 1] = buf[i]
      BY <3>1 DEF PartialInv, Reading
    <3>3. /\ covered \in Seq(Byte) /\ Len(covered) = payLen + 2
          /\ \A i \in 1 .. payLen + 2 : covered[i] = buf[i]
      <4>1. buf \in Seq(Byte) /\ Len(buf) = Capacity
        BY DEF ParserTypeOK
      <4>2. /\ 1 \in 1 .. Len(buf) + 1 /\ payLen + 2 \in 1 - 1 .. Len(buf)
            /\ (payLen + 2) - 1 + 1 = payLen + 2 /\ \A i \in 1 .. payLen + 2 : 1 + i - 1 = i
        BY <1>0, <3>1, <4>1
      <4>3. /\ covered \in Seq(Byte) /\ Len(covered) = (payLen + 2) - 1 + 1
            /\ \A i \in 1 .. (payLen + 2) - 1 + 1 : covered[i] = buf[1 + i - 1]
        BY <4>1, <4>2, Slice
      <4>4. QED
        BY <4>2, <4>3
    <3>4. buf[payLen + 3] \in Byte /\ buf[1] \in Byte /\ buf[2] \in Byte
      BY <1>0, <3>1
    <3>5. CASE crc = buf[payLen + 3] * Radix + b
      <4>1. state' = "etx" /\ result' = Nothing /\ UNCHANGED <<buf, bufLen, payLen>>
        BY <2>6, <3>5 DEF ReadCRCLow
      <4>2. crc % Radix = b
        <5>1. (buf[payLen + 3] * Radix + b) % Radix = b
          BY <3>4, TwoBytes
        <5>2. QED
          BY <3>5, <5>1
      <4>3. /\ Len(Partial') = payLen + 5 /\ Partial'[payLen + 5] = b /\ Partial'[1] = STX
            /\ \A i \in 1 .. payLen + 3 : Partial'[i + 1] = buf[i]
        <5>1. /\ Len(Partial') = bufLen' + 2
              /\ Partial'[bufLen' + 2] = Crc(SubSeq(buf', 1, payLen' + 2)) % Radix
              /\ Partial'[1] = STX /\ \A i \in 1 .. bufLen' : Partial'[i + 1] = buf'[i]
          BY <4>1 DEF PartialInv
        <5>2. bufLen' + 2 = payLen + 5 /\ bufLen' = payLen + 3
          BY <3>1, <4>1
        <5>3. Crc(SubSeq(buf', 1, payLen' + 2)) = crc
          BY <4>1
        <5>4. QED
          BY <4>1, <4>2, <5>1, <5>2, <5>3
      <4>4. \A i \in 1 .. Len(Partial) : Partial'[i] = Partial[i]
        <5>1. ASSUME NEW i \in 1 .. Len(Partial), i # 1
              PROVE  Partial'[i] = Partial[i]
          <6>1. i - 1 \in 1 .. payLen + 3 /\ (i - 1) + 1 = i
            BY <3>1, <3>2, <5>1
          <6>2. QED
            BY <3>2, <4>3, <6>1
        <5>2. QED
          BY <3>2, <4>3, <5>1
      <4>5. Partial'[2] = buf[1] /\ Partial'[3] = buf[2]
        <5>1. 1 \in 1 .. payLen + 3 /\ 2 \in 1 .. payLen + 3 /\ 1 + 1 = 2 /\ 2 + 1 = 3
          BY <3>1
        <5>2. QED
          BY <4>3, <5>1
      <4>6. Len(Partial') # Partial'[2] * Radix + Partial'[3] + 6
        BY <3>1, <4>3, <4>5
      <4>7. Partial'[Len(Partial) + 1] = b /\ Len(Partial') = Len(Partial) + 1
            /\ Len(Partial) < MaxPayload + 5 /\ Len(Partial) > 0
        BY <1>0, <3>1, <3>2, <4>3, SMTT(30)
      <4>8. QED
        BY <3>1, <4>1, <4>4, <4>6, <4>7, Kept
    <3>6. CASE crc # buf[payLen + 3] * Radix + b
      <4>1. Fail
        BY <2>6, <3>6 DEF ReadCRCLow
      <4> DEFINE seen == Append(Partial, b)
      <4>2. /\ seen \in Seq(Byte) /\ Len(seen) = payLen + 5 /\ seen[payLen + 5] = b
            /\ \A i \in 1 .. payLen + 4 : seen[i] = Partial[i]
        BY <1>0, <3>1, <3>2
      <4> HIDE DEF seen
      <4>3. \A i \in 1 .. payLen + 3 : seen[i + 1] = buf[i]
        <5>1. \A i \in 1 .. payLen + 3 : i + 1 \in 1 .. payLen + 4
          BY <3>1
        <5>2. QED
          BY <3>2, <4>2, <5>1
      <4>4. seen[2] = buf[1] /\ seen[3] = buf[2] /\ seen[payLen + 4] = buf[payLen + 3]
        <5>1. /\ 1 \in 1 .. payLen + 3 /\ 2 \in 1 .. payLen + 3 /\ payLen + 3 \in 1 .. payLen + 3
              /\ 1 + 1 = 2 /\ 2 + 1 = 3 /\ (payLen + 3) + 1 = payLen + 4
          BY <3>1
        <5>2. QED
          BY <4>3, <5>1
      <4>5. ASSUME NEW p \in Framing!Payloads, Begins(seen, p)
            PROVE  FALSE
        <5>1. Len(p) = payLen
          <6>1. Len(p) = seen[2] * Radix + seen[3]
            BY <3>1, <4>2, <4>5, HeaderTells
          <6>2. QED
            BY <3>1, <4>4, <6>1
        <5>2. Cov(p) = covered
          <6>1. ASSUME NEW i \in 1 .. payLen + 2
                PROVE  Cov(p)[i] = covered[i]
            <7>1. i + 1 \in 1 .. payLen + 5 /\ i \in 1 .. payLen + 3
              BY <3>1
            <7>2. Bytes(p)[i + 1] = seen[i + 1]
              BY <4>2, <4>5, <7>1 DEF Begins
            <7>3. Bytes(p)[i + 1] = Cov(p)[i]
              BY <5>1, FrameShape
            <7>4. QED
              BY <3>3, <4>3, <7>1, <7>2, <7>3
          <6>2. Cov(p) \in Seq(Byte) /\ Len(Cov(p)) = payLen + 2
            BY <5>1, CoveredShape
          <6> HIDE DEF covered
          <6>3. QED
            BY <3>3, <6>1, <6>2, SameBytes
        <5>3. Bytes(p)[payLen + 4] = seen[payLen + 4] /\ Bytes(p)[payLen + 5] = seen[payLen + 5]
          <6>1. payLen + 4 \in 1 .. payLen + 5 /\ payLen + 5 \in 1 .. payLen + 5
            BY <3>1
          <6>2. QED
            BY <4>2, <4>5, <6>1 DEF Begins
        <5>4. /\ crc \in Nat /\ Bytes(p)[payLen + 4] = crc \div Radix
              /\ Bytes(p)[payLen + 5] = crc % Radix
          BY <5>1, <5>2, FrameShape
        <5>5. crc \div Radix = buf[payLen + 3] /\ crc % Radix = b
          BY <4>2, <4>4, <5>3, <5>4
        <5> HIDE DEF crc
        <5>6. crc = (crc \div Radix) * Radix + (crc % Radix)
          BY <5>4, Division
        <5>7. QED
          BY <3>6, <5>5, <5>6
      <4>6. \A p \in Framing!Payloads : ~Begins(Append(Partial, b), p)
        BY <4>5 DEF seen
      <4>7. QED
        BY <1>0, <3>1, <4>1, <4>6, Refused
    <3>7. QED
      BY <3>5, <3>6
  <2>7. CASE ReadETX(b)
    <3> DEFINE covered == SubSeq(buf, 1, payLen + 2)
               crc == Crc(covered)
               payload == SubSeq(buf, 3, payLen + 2)
               seen == Append(Partial, b)
    <3>1. /\ state = "etx" /\ bufLen = payLen + 3 /\ payLen = buf[1] * Radix + buf[2]
          /\ payLen \in Nat /\ payLen <= MaxPayload /\ buf' = buf
          /\ crc = buf[payLen + 3] * Radix + (crc % Radix)
      <4>1. state = "etx" /\ buf' = buf
        BY <2>7 DEF ReadETX
      <4>2. /\ bufLen = payLen + 3 /\ payLen = buf[1] * Radix + buf[2] /\ payLen <= MaxPayload
            /\ buf[payLen + 3] * Radix + (crc % Radix) = crc
        BY <4>1 DEF BufInv
      <4>3. payLen \in Nat
        BY DEF ParserTypeOK, Byte
      <4>4. QED
        BY <4>1, <4>2, <4>3
    <3>2. /\ Len(Partial) = payLen + 5 /\ Partial[1] = STX /\ Partial[payLen + 5] = crc % Radix
          /\ \A i \in 1 .. payLen + 3 : Partial[i + 1] = buf[i]
      <4>1. bufLen + 2 = payLen + 5
        BY <3>1
      <4>2. QED
        BY <3>1, <4>1 DEF PartialInv
    <3>3. /\ seen \in Seq(Byte) /\ Len(seen) = payLen + 6 /\ seen[payLen + 6] = b
          /\ \A i \in 1 .. payLen + 5 : seen[i] = Partial[i]
      BY <1>0, <3>1, <3>2, SMTT(30)
    <3> HIDE DEF seen
    <3>4. seen[1] = STX /\ seen[payLen + 5] = crc % Radix /\ \A i \in 1 .. payLen + 3 : seen[i + 1] = buf[i]
      <4>1. /\ 1 \in 1 .. payLen + 5 /\ payLen + 5 \in 1 .. payLen + 5
            /\ \A i \in 1 .. payLen + 3 : i + 1 \in 1 .. payLen + 5
        BY <3>1
      <4>2. QED
        BY <3>2, <3>3, <4>1
    <3>5. seen[2] = buf[1] /\ seen[3] = buf[2] /\ seen[payLen + 4] = buf[payLen + 3]
      <4>1. /\ 1 \in 1 .. payLen + 3 /\ 2 \in 1 .. payLen + 3 /\ payLen + 3 \in 1 .. payLen + 3
            /\ 1 + 1 = 2 /\ 2 + 1 = 3 /\ (payLen + 3) + 1 = payLen + 4
        BY <3>1
      <4>2. QED
        BY <3>4, <4>1
    <3>6. buf[payLen + 3] \in Byte /\ buf[1] \in Byte /\ buf[2] \in Byte
      BY <1>0, <3>1
    <3>7. CASE b # ETX
      <4>1. Fail
        BY <2>7, <3>7 DEF ReadETX
      <4>2. ASSUME NEW p \in Framing!Payloads, Begins(seen, p)
            PROVE  FALSE
        <5>1. Len(p) = seen[2] * Radix + seen[3]
          <6>1. Len(seen) >= 3
            BY <3>1, <3>3
          <6>2. QED
            BY <3>3, <4>2, <6>1, HeaderTells
        <5>2. Len(p) = payLen
          BY <3>1, <3>5, <5>1
        <5>3. Bytes(p)[payLen + 6] = ETX
          BY <5>2, FrameShape
        <5>4. payLen + 6 \in 1 .. payLen + 6
          BY <3>1
        <5>5. Bytes(p)[payLen + 6] = seen[payLen + 6]
          BY <3>3, <4>2, <5>4 DEF Begins
        <5>6. QED
          BY <3>3, <3>7, <5>3, <5>5
      <4>3. \A p \in Framing!Payloads : ~Begins(Append(Partial, b), p)
        BY <4>2 DEF seen
      <4>4. QED
        BY <1>0, <3>1, <4>1, <4>3, Refused
    <3>8. CASE b = ETX
      <4>1. Cleared /\ result' = Frame(payload)
        BY <2>7, <3>8 DEF ReadETX
      <4>2. Partial' = <<>>
        BY <4>1 DEF Cleared, PartialInv
      <4>3. buf \in Seq(Byte) /\ Len(buf) = Capacity /\ Capacity \in Nat
        BY DEF ParserTypeOK
      <4>4. /\ payload \in Seq(Byte) /\ Len(payload) = payLen
            /\ \A i \in 1 .. payLen : payload[i] = buf[i + 2]
        <5>1. /\ 3 \in 1 .. Len(buf) + 1 /\ payLen + 2 \in 3 - 1 .. Len(buf)
              /\ (payLen + 2) - 3 + 1 = payLen /\ \A i \in 1 .. payLen : 3 + i - 1 = i + 2
          BY <1>0, <3>1, <4>3
        <5>2. /\ payload \in Seq(Byte) /\ Len(payload) = (payLen + 2) - 3 + 1
              /\ \A i \in 1 .. (payLen + 2) - 3 + 1 : payload[i] = buf[3 + i - 1]
          BY <4>3, <5>1, Slice
        <5>3. QED
          BY <5>1, <5>2
      <4>5. /\ covered \in Seq(Byte) /\ Len(covered) = payLen + 2
            /\ \A i \in 1 .. payLen + 2 : covered[i] = buf[i]
        <5>1. /\ 1 \in 1 .. Len(buf) + 1 /\ payLen + 2 \in 1 - 1 .. Len(buf)
              /\ (payLen + 2) - 1 + 1 = payLen + 2 /\ \A i \in 1 .. payLen + 2 : 1 + i - 1 = i
          BY <1>0, <3>1, <4>3
        <5>2. /\ covered \in Seq(Byte) /\ Len(covered) = (payLen + 2) - 1 + 1
              /\ \A i \in 1 .. (payLen + 2) - 1 + 1 : covered[i] = buf[1 + i - 1]
          BY <4>3, <5>1, Slice
        <5>3. QED
          BY <5>1, <5>2
      <4>6. payload \in Framing!Payloads
        <5>1. payload \in UNION {[1 .. k -> Byte] : k \in 0 .. MaxPayload}
          <6>1. payLen \in 0 .. MaxPayload
            BY <1>0, <3>1
          <6>2. QED
            BY <6>1, Payload DEF ParserTypeOK
        <5>2. QED
          BY <5>1 DEF Framing!Payloads, Framing!Byte, Byte
      <4> HIDE DEF payload, covered, crc
      <4>7. Cov(payload) = covered
        <5>1. /\ Cov(payload) \in Seq(Byte) /\ Len(Cov(payload)) = payLen + 2
              /\ Cov(payload)[1] = payLen \div Radix /\ Cov(payload)[2] = payLen % Radix
              /\ \A i \in 1 .. payLen : Cov(payload)[i + 2] = payload[i]
          BY <4>4, <4>6, CoveredShape
        <5>2. payLen \div Radix = buf[1] /\ payLen % Radix = buf[2]
          BY <3>1, <3>6, TwoBytes
        <5>3. ASSUME NEW i \in 1 .. payLen + 2
              PROVE  Cov(payload)[i] = covered[i]
          <6>1. CASE i \in {1, 2}
            BY <3>1, <4>5, <5>1, <5>2, <6>1
          <6>2. CASE i \notin {1, 2}
            <7>1. i - 2 \in 1 .. payLen /\ (i - 2) + 2 = i
              BY <3>1, <6>2
            <7>2. QED
              BY <4>4, <4>5, <5>1, <7>1
          <6>3. QED
            BY <6>1, <6>2
        <5>4. QED
          BY <4>5, <5>1, <5>3, SameBytes
      <4>8. /\ Bytes(payload) \in Seq(Byte) /\ Len(Bytes(payload)) = payLen + 6
            /\ Bytes(payload)[1] = STX
            /\ \A i \in 1 .. payLen + 2 : Bytes(payload)[i + 1] = covered[i]
            /\ Crc(covered) \in Nat
            /\ Bytes(payload)[payLen + 4] = Crc(covered) \div Radix
            /\ Bytes(payload)[payLen + 5] = Crc(covered) % Radix
            /\ Bytes(payload)[payLen + 6] = ETX
        BY <4>4, <4>6, <4>7, FrameShape
      <4>9. crc = Crc(covered)
        BY DEF crc
      <4>10. crc \div Radix = buf[payLen + 3]
        <5>1. crc % Radix \in Byte
          BY <4>8, <4>9, Division
        <5>2. QED
          BY <3>1, <3>6, <5>1, TwoBytes
      <4>11. ASSUME NEW i \in 1 .. payLen + 6
             PROVE  seen[i] = Bytes(payload)[i]
        <5>1. CASE i = 1
          BY <3>4, <4>8, <5>1
        <5>2. CASE i \in 2 .. payLen + 3
          <6>1. i - 1 \in 1 .. payLen + 2 /\ i - 1 \in 1 .. payLen + 3 /\ (i - 1) + 1 = i
            BY <3>1, <5>2
          <6>2. QED
            BY <3>4, <4>5, <4>8, <6>1
        <5>3. CASE i = payLen + 4
          BY <3>5, <4>8, <4>9, <4>10, <5>3
        <5>4. CASE i = payLen + 5
          BY <3>4, <4>8, <4>9, <5>4
        <5>5. CASE i = payLen + 6
          BY <3>3, <3>8, <4>8, <5>5
        <5>6. QED
          BY <3>1, <5>1, <5>2, <5>3, <5>4, <5>5, SMTT(30)
      <4>12. seen = Bytes(payload)
        BY <3>3, <4>8, <4>11, SameBytes
      <4>13. Append(Partial, b) = Framing!BuildFrame(payload)
        BY <4>12 DEF seen, Bytes
      <4>14. Framing!Deliver(b)
        BY <4>1, <4>2, <4>6, <4>13 DEF Framing!Deliver, Frame, Framing!Frame
      <4>15. QED
        BY <4>14
    <3>9. QED
      BY <3>7, <3>8
  <2>8. QED
    BY <1>2, <2>1, <2>2, <2>3, <2>4, <2>5, <2>6, <2>7 DEF FeedByte
<1>3. CASE UNCHANGED parserVars
  BY <1>3 DEF parserVars, Framing!vars, Partial
<1>4. QED
  BY <1>1, <1>2, <1>3 DEF ParserNext

\* A parser with room for two bytes more than NewParser insists on keeps the promise of
\* GspFraming for every stream of bytes: it delivers each frame BuildFrame makes, whole,
\* at its last byte, and nothing else, and refuses no byte that could belong to one.
THEOREM Refinement ==
  ASSUME BufSize >= MaxPayload + 4
  PROVE  ParserSpec => ImplementsFraming
<1>1. ParserInit => Framing!Init
  BY DEF ParserInit, Framing!Init, Partial, Nothing, Framing!Nothing
<1>2. ParserTypeOK /\ BufInv /\ PartialInv /\ ParserTypeOK' /\ BufInv' /\ PartialInv' /\ [ParserNext]_parserVars
        => [Framing!Next]_(Framing!vars)
  BY Step
<1>3. ParserSpec => [](ParserTypeOK /\ BufInv /\ PartialInv)
  BY Typed, PartialShape, PTL
<1>4. QED
  BY <1>1, <1>2, <1>3, PTL DEF ParserSpec, ImplementsFraming, Framing!Spec
=============================================================================
