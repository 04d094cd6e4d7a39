--------------------------- MODULE DashboardProofs ---------------------------
(***************************************************************************)
(* Proofs about the dashboard's hub and camera monitor, for any number of  *)
(* clients, any limit on them and any capacity of the broadcast channel.   *)
(***************************************************************************)
EXTENDS Dashboard, FiniteSetTheorems, TLAPS

\* The parts of the clients are finite and counted by a natural number, which is not
\* larger for a smaller part.
LEMMA Counting ==
  /\ \A S \in SUBSET Clients : IsFiniteSet(S) /\ Cardinality(S) \in Nat
  /\ \A S, T \in SUBSET Clients : S \subseteq T => Cardinality(S) <= Cardinality(T)
<1>1. \A S \in SUBSET Clients : IsFiniteSet(S) /\ Cardinality(S) \in Nat
  BY DashboardAssumption, FS_Subset, FS_CardinalityType
<1>2. QED
  BY <1>1, FS_Subset

\* Broadcast keeps the channel within its capacity.
LEMMA BroadcastBounded ==
  ASSUME NEW status \in Statuses, Broadcast(status),
         broadcast \in Seq(Statuses), Len(broadcast) <= Capacity
  PROVE  broadcast' \in Seq(Statuses) /\ Len(broadcast') <= Capacity
<1>1. CASE Len(broadcast) < Capacity
  <2>1. broadcast' = Append(broadcast, status)
    BY <1>1 DEF Broadcast
  <2>2. broadcast' \in Seq(Statuses) /\ Len(broadcast') = Len(broadcast) + 1
    BY <2>1
  <2>3. \A n \in Nat : n < Capacity => n + 1 <= Capacity
    BY DashboardAssumption
  <2>4. QED
    BY <1>1, <2>2, <2>3, Len(broadcast) \in Nat, Zenon
<1>2. CASE ~(Len(broadcast) < Capacity)
  BY <1>2 DEF Broadcast
<1>3. QED
  BY <1>1, <1>2

\* Every variable keeps its type.
THEOREM Typing == Spec => []TypeOK
<1>1. Init => TypeOK
  <2> SUFFICES ASSUME Init
               PROVE  TypeOK
    OBVIOUS
  <2>1. broadcast \in Seq(Statuses) /\ Len(broadcast) <= Capacity
    BY DashboardAssumption DEF Init
  <2>2. offline \in 0 .. MaxOffline /\ crowd \in Nat
    BY DashboardAssumption DEF Init
  <2>3. /\ running \in BOOLEAN /\ done \in BOOLEAN /\ late \in BOOLEAN
        /\ online \in BOOLEAN /\ notifying \in BOOLEAN
    BY DEF Init
  <2>4. /\ left \subseteq Clients /\ clients \subseteq Clients
        /\ hub = "select" /\ message = "none"
    BY DEF Init
  <2>5. /\ handler \in [Clients -> {"none", "refused", "upgrading", "reading", "leaving", "ended"}]
        /\ conn \in [Clients -> {"none", "open", "closed"}]
        /\ browser \in [Clients -> {"reads", "stalled", "gone"}]
    BY DEF Init
  <2>6. QED
    BY <2>1, <2>2, <2>3, <2>4, <2>5, Zenon DEF TypeOK
<1>2. TypeOK /\ [Next]_vars => TypeOK'
  <2> SUFFICES ASSUME TypeOK, [Next]_vars
               PROVE  TypeOK'
    OBVIOUS
  <2> USE DEF TypeOK
  <2>1. ASSUME NEW c \in Clients, Admit(c)
        PROVE  TypeOK'
    <3>1. handler' \in [Clients -> {"none", "refused", "upgrading", "reading", "leaving", "ended"}]
      BY <2>1 DEF Admit, LetIn
    <3>2. Upgrading' \in SUBSET Clients
      BY DEF Upgrading
    <3>3. Cardinality(Upgrading') \in Nat
      BY <3>2, Counting, Zenon
    <3>4. crowd' \in Nat
      BY <2>1, <3>3 DEF Admit, LetIn
    <3>5. QED
      BY <2>1, <3>1, <3>4 DEF Admit, hubState, camera
  <2>2. ASSUME NEW c \in Clients,
               Accept(c) \/ AcceptFails(c) \/ Register(c) \/ TurnedAway(c) \/ ReadFails(c)
        PROVE  TypeOK'
    BY <2>2 DEF Accept, AcceptFails, Register, TurnedAway, ReadFails, hubState, camera
  <2>3. ASSUME NEW c \in Clients, Unregister(c) \/ HubIsDone(c)
        PROVE  TypeOK'
    BY <2>3 DEF Unregister, HubIsDone, Drop, hubState, camera
  <2>4. ASSUME NEW c \in Clients, Leave(c) \/ Stall(c)
        PROVE  TypeOK'
    BY <2>4 DEF Leave, Stall, Turn, hubState, clientList, camera
  <2>5. CASE Shutdown
    BY <2>5 DEF Shutdown, camera
  <2>6. CASE BeginBroadcast
    <3>1. Head(broadcast) \in Statuses /\ Tail(broadcast) \in Seq(Statuses)
          /\ Len(Tail(broadcast)) = Len(broadcast) - 1
      BY <2>6 DEF BeginBroadcast
    <3>2. Len(Tail(broadcast)) <= Capacity
      BY <3>1, DashboardAssumption
    <3>3. QED
      BY <2>6, <3>1, <3>2 DEF BeginBroadcast, clientList, camera
  <2>7. ASSUME NEW c \in Clients, Write(c) \/ WriteFails(c)
        PROVE  TypeOK'
    BY <2>7 DEF Write, WriteFails, Drop, clientList, camera
  <2>8. CASE EndBroadcast
    BY <2>8 DEF EndBroadcast, clientList, camera
  <2>9. ASSUME NEW second \in BOOLEAN, Frame(second)
        PROVE  TypeOK'
    BY <2>9 DEF Frame, hubState, clientList
  <2>10. CASE Notify
    BY <2>10, BroadcastBounded DEF Notify, Statuses, hubState, clientList
  <2>11. CASE CheckOffline
    <3>1. offline' \in 0 .. MaxOffline
      BY <2>11, DashboardAssumption DEF CheckOffline
    <3>2. QED
      BY <2>11, <3>1 DEF CheckOffline, hubState, clientList
  <2>12. CASE NotifyOffline
    <3>1. broadcast' \in Seq(Statuses) /\ Len(broadcast') <= Capacity
      BY <2>12, BroadcastBounded DEF NotifyOffline, Statuses
    <3>2. offline' \in 0 .. MaxOffline
      BY <2>12, DashboardAssumption DEF NotifyOffline
    <3>3. QED
      BY <2>12, <3>1, <3>2 DEF NotifyOffline, hubState, clientList
  <2>13. CASE Stop \/ Cancel \/ UNCHANGED vars
    BY <2>13 DEF Stop, Cancel, vars, hubState, clientList, camera
  <2>14. QED
    BY <2>1, <2>2, <2>3, <2>4, <2>5, <2>6, <2>7, <2>8, <2>9, <2>10, <2>11, <2>12, <2>13
    DEF Next, Handler, Writing
<1>3. QED
  BY <1>1, <1>2, PTL DEF Spec
-----------------------------------------------------------------------------
\* How a connection, its handler and the hub's list belong together.
ConnInv ==
  /\ \A c \in Clients :
       /\ handler[c] \in {"none", "refused"} => conn[c] = "none"
       /\ handler[c] \in {"reading", "leaving"} => conn[c] \in {"open", "closed"}
       /\ handler[c] \in {"reading", "leaving"} /\ conn[c] = "open" => c \in clients
       /\ c \in clients => handler[c] \in {"reading", "leaving"} /\ conn[c] = "open"
       /\ handler[c] = "ended" => conn[c] = "closed"
  /\ hub = "closed" => clients = {}

\* ConnInv holds in every reachable state.
LEMMA ConnInvariant == Spec => []ConnInv
<1>1. Init => ConnInv
  BY DEF Init, ConnInv
<1>2. TypeOK /\ ConnInv /\ [Next]_vars => ConnInv'
  <2> SUFFICES ASSUME TypeOK, ConnInv, [Next]_vars
               PROVE  ConnInv'
    OBVIOUS
  <2> USE DEF TypeOK, ConnInv
  <2>1. ASSUME NEW c \in Clients, Admit(c) \/ Accept(c) \/ AcceptFails(c)
        PROVE  ConnInv'
    BY <2>1 DEF Admit, LetIn, Accept, AcceptFails, hubState
  <2>2. ASSUME NEW c \in Clients, Register(c) \/ TurnedAway(c) \/ ReadFails(c)
        PROVE  ConnInv'
    BY <2>2 DEF Register, TurnedAway, ReadFails, hubState
  <2>3. ASSUME NEW c \in Clients, Unregister(c) \/ HubIsDone(c)
        PROVE  ConnInv'
    BY <2>3 DEF Unregister, HubIsDone, Drop, hubState
  <2>4. CASE Shutdown
    BY <2>4 DEF Shutdown
  <2>5. ASSUME NEW c \in Clients, WriteFails(c)
        PROVE  ConnInv'
    BY <2>5 DEF WriteFails, Drop
  <2>6. CASE (hub' # "closed" \/ hub' = hub) /\ UNCHANGED clientList
    BY <2>6 DEF clientList
  <2>7. QED
    BY <2>1, <2>2, <2>3, <2>4, <2>5, <2>6
    DEF Next, Handler, Writing, BeginBroadcast, Write, EndBroadcast, Frame, Notify,
        CheckOffline, NotifyOffline, Stop, Cancel, Leave, Stall, Turn, vars, hubState
<1>3. QED
  BY <1>1, <1>2, Typing, PTL DEF Spec

\* Every connection that was accepted is closed by the time its handler returns.
THEOREM NothingLeaks == Spec => []NoneLeaks
<1>1. ConnInv => NoneLeaks
  BY DEF ConnInv, NoneLeaks
<1>2. QED
  BY <1>1, ConnInvariant, PTL
-----------------------------------------------------------------------------
\* The limit counts the clients and the upgrades that will add to them.
LimitInv ==
  \/ clients = {} /\ Upgrading = {}
  \/ Cardinality(clients) + Cardinality(Upgrading) + 1 <= MaxClients + crowd

\* The limit is exceeded by the upgrades that overlapped, and no more.
THEOREM LimitKept == Spec => []LimitHolds
<1>1. Init => LimitInv
  BY DEF Init, LimitInv, Upgrading
<1>2. TypeOK /\ ConnInv /\ LimitInv /\ [Next]_vars => LimitInv'
  <2> SUFFICES ASSUME TypeOK, ConnInv, LimitInv, [Next]_vars
               PROVE  LimitInv'
    OBVIOUS
  <2>0. /\ clients \in SUBSET Clients /\ clients' \in SUBSET Clients
        /\ Upgrading \in SUBSET Clients /\ Upgrading' \in SUBSET Clients
    <3>1. clients' \in SUBSET Clients
      BY DEF TypeOK, Next, Handler, Writing, Admit, Accept, AcceptFails, Register, TurnedAway,
             ReadFails, Unregister, HubIsDone, Drop, Shutdown, BeginBroadcast, Write,
             WriteFails, EndBroadcast, Frame, Notify, CheckOffline, NotifyOffline, Stop,
             Cancel, Leave, Stall, Turn, vars, clientList
    <3>2. QED
      BY <3>1 DEF TypeOK, Upgrading
  <2>1. ASSUME NEW c \in Clients, Admit(c), handler'[c] = "upgrading"
        PROVE  LimitInv'
    <3>1. clients' = clients /\ Cardinality(clients) < MaxClients
      <4>1. clients' = clients /\ ~(Cardinality(clients) >= MaxClients)
        BY <2>1 DEF Admit, TypeOK
      <4>2. \A n \in Nat : ~(n >= MaxClients) => n < MaxClients
        BY DashboardAssumption
      <4>3. QED
        BY <2>0, <4>1, <4>2, Counting, Zenon
    <3>2. Cardinality(Upgrading') <= crowd' /\ crowd' \in Nat
      <4>1. crowd' = IF Cardinality(Upgrading') > crowd THEN Cardinality(Upgrading') ELSE crowd
        BY <2>1 DEF Admit, LetIn, TypeOK
      <4>2. crowd \in Nat /\ Cardinality(Upgrading') \in Nat
        BY <2>0, Counting DEF TypeOK
      <4>3. QED
        BY <4>1, <4>2
    <3>3. \A m, n, k \in Nat : m < MaxClients /\ n <= k => m + n + 1 <= MaxClients + k
      BY DashboardAssumption
    <3>4. Cardinality(clients') \in Nat /\ Cardinality(Upgrading') \in Nat
      BY <2>0, Counting
    <3>5. QED
      BY <3>1, <3>2, <3>3, <3>4 DEF LimitInv
  <2>2. ASSUME NEW c \in Clients, Register(c)
        PROVE  LimitInv'
    <3>1. c \in Upgrading /\ c \notin clients
      BY <2>2 DEF Register, Upgrading, ConnInv
    <3>2. Upgrading' = Upgrading \ {c} /\ clients' = clients \union {c} /\ crowd' = crowd
      BY <2>2 DEF Register, Upgrading, TypeOK
    <3>3. /\ Cardinality(clients') = Cardinality(clients) + 1
          /\ Cardinality(Upgrading') = Cardinality(Upgrading) - 1
      BY <2>0, <3>1, <3>2, Counting, FS_AddElement, FS_RemoveElement
    <3>4. Cardinality(clients) \in Nat /\ Cardinality(Upgrading) \in Nat
      BY <2>0, Counting
    <3>5. Cardinality(clients) + Cardinality(Upgrading) + 1 <= MaxClients + crowd
      BY <3>1 DEF LimitInv
    <3>6. Cardinality(clients') + Cardinality(Upgrading') = Cardinality(clients) + Cardinality(Upgrading)
      BY <3>3, <3>4
    <3>7. QED
      BY <3>2, <3>5, <3>6 DEF LimitInv
  <2>3. CASE clients' \subseteq clients /\ Upgrading' \subseteq Upgrading /\ crowd' = crowd
    <3>1. /\ Cardinality(clients') \in Nat /\ Cardinality(clients) \in Nat
          /\ Cardinality(Upgrading') \in Nat /\ Cardinality(Upgrading) \in Nat
          /\ Cardinality(clients') <= Cardinality(clients)
          /\ Cardinality(Upgrading') <= Cardinality(Upgrading)
      BY <2>0, <2>3, Counting
    <3>2. \A m, n, p, q, k \in Nat : p <= m /\ q <= n /\ m + n + 1 <= k => p + q + 1 <= k
      OBVIOUS
    <3>3. MaxClients + crowd \in Nat
      BY DashboardAssumption DEF TypeOK
    <3>4. QED
      BY <2>3, <3>1, <3>2, <3>3 DEF LimitInv
  <2>4. ASSUME NEW c \in Clients, Admit(c), handler'[c] # "upgrading"
        PROVE  clients' \subseteq clients /\ Upgrading' \subseteq Upgrading /\ crowd' = crowd
    BY <2>4 DEF Admit, LetIn, Upgrading, TypeOK
  <2>5. ASSUME NEW c \in Clients,
               \/ Accept(c) \/ AcceptFails(c) \/ TurnedAway(c) \/ ReadFails(c)
               \/ Unregister(c) \/ HubIsDone(c)
        PROVE  clients' \subseteq clients /\ Upgrading' \subseteq Upgrading /\ crowd' = crowd
    BY <2>5 DEF Accept, AcceptFails, TurnedAway, ReadFails, Unregister, HubIsDone, Drop,
                Upgrading, TypeOK
  <2>6. CASE clients' \subseteq clients /\ UNCHANGED <<handler, crowd>>
    BY <2>3, <2>6 DEF Upgrading
  <2>7. QED
    BY <2>1, <2>2, <2>3, <2>4, <2>5, <2>6
    DEF Next, Handler, Writing, Shutdown, BeginBroadcast, Write, WriteFails, Drop,
        EndBroadcast, Frame, Notify, CheckOffline, NotifyOffline, Stop, Cancel, Leave, Stall,
        Turn, vars, clientList
<1>3. TypeOK /\ LimitInv => LimitHolds
  <2> SUFFICES ASSUME TypeOK, LimitInv, clients # {}
               PROVE  LimitHolds
    BY DEF LimitHolds
  <2>1. Cardinality(clients) \in Nat /\ Cardinality(Upgrading) \in Nat
    BY Counting DEF TypeOK, Upgrading
  <2>2. \A m, n, k \in Nat : m + n + 1 <= k => m + 1 <= k
    OBVIOUS
  <2>3. MaxClients + crowd \in Nat
    BY DashboardAssumption DEF TypeOK
  <2>4. QED
    BY <2>1, <2>2, <2>3 DEF LimitInv, LimitHolds
<1>4. QED
  BY <1>1, <1>2, <1>3, Typing, ConnInvariant, PTL DEF Spec
=============================================================================
