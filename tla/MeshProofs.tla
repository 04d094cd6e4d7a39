------------------------------ MODULE MeshProofs ------------------------------
(***************************************************************************)
(* Proofs about the mesh.  First the registry: for every set of instances, *)
(* faulty or not, whatever channels they own or share, every TTL and every *)
(* number of requests on their way.  Then a watcher of services: for every *)
(* finite set of keys, whatever the query wants, every buffer and every    *)
(* history of the bucket.                                                  *)
(***************************************************************************)
EXTENDS MeshRegistry, MeshWatcher, NaturalsInduction, WellFoundedInduction,
        SequenceTheorems, FiniteSetTheorems, TLAPS

Busy == {"joining", "beating", "leaving"}

\* A registration with something to do has requests to make, and the other way
\* round; an answer is only waited for with a request, and is due only while the
\* request is on its way.
Asking(i) ==
  /\ phase[i] \in Busy <=> todo[i] # <<>>
  /\ answer[i] # "none" => todo[i] # <<>>
  /\ answer[i] = "due" => wire[i] # <<>>

Inv == TypeOK /\ \A i \in Instances : Asking(i)

-----------------------------------------------------------------------------
(* Sequences.                                                              *)

\* The head and the tail of a sequence of requests, and what appending does.
LEMMA RequestSeq ==
  ASSUME NEW rs \in Seq(Request)
  PROVE  /\ Len(rs) \in Nat /\ DOMAIN rs = 1..Len(rs)
         /\ rs = <<>> <=> Len(rs) = 0
         /\ rs # <<>> => /\ Head(rs) = rs[1] /\ Head(rs) \in Request
                         /\ Tail(rs) \in Seq(Request) /\ Len(Tail(rs)) = Len(rs) - 1
                         /\ \A k \in 1..(Len(rs) - 1) : Tail(rs)[k] = rs[k + 1]
         /\ \A q \in Request :
              /\ Append(rs, q) \in Seq(Request) \ {<<>>}
              /\ Len(Append(rs, q)) = Len(rs) + 1
              /\ \A k \in 1..Len(rs) : Append(rs, q)[k] = rs[k]
              /\ Append(rs, q)[Len(rs) + 1] = q
              /\ <<q>> \o rs \in Seq(Request) \ {<<>>}
              /\ Len(<<q>> \o rs) = Len(rs) + 1
              /\ (<<q>> \o rs)[1] = q
              /\ \A k \in 1..Len(rs) : (<<q>> \o rs)[k + 1] = rs[k]
<1>1. /\ Len(rs) \in Nat /\ DOMAIN rs = 1..Len(rs)
      /\ rs = <<>> <=> Len(rs) = 0
  BY EmptySeq, LenProperties
<1>2. rs # <<>> => /\ Head(rs) = rs[1] /\ Head(rs) \in Request
                  /\ Tail(rs) \in Seq(Request) /\ Len(Tail(rs)) = Len(rs) - 1
                  /\ \A k \in 1..(Len(rs) - 1) : Tail(rs)[k] = rs[k + 1]
  BY <1>1, HeadTailProperties
<1>3. ASSUME NEW q \in Request
      PROVE  /\ Append(rs, q) \in Seq(Request) \ {<<>>}
             /\ Len(Append(rs, q)) = Len(rs) + 1
             /\ \A k \in 1..Len(rs) : Append(rs, q)[k] = rs[k]
             /\ Append(rs, q)[Len(rs) + 1] = q
  BY AppendProperties
<1>4. ASSUME NEW q \in Request
      PROVE  /\ <<q>> \o rs \in Seq(Request) \ {<<>>}
             /\ Len(<<q>> \o rs) = Len(rs) + 1
             /\ (<<q>> \o rs)[1] = q
             /\ \A k \in 1..Len(rs) : (<<q>> \o rs)[k + 1] = rs[k]
  <2>1. <<q>> \in Seq(Request) /\ Len(<<q>>) = 1 /\ <<q>>[1] = q
    OBVIOUS
  <2>2. /\ <<q>> \o rs \in Seq(Request)
        /\ Len(<<q>> \o rs) = Len(rs) + 1
        /\ \A k \in 1..(1 + Len(rs)) : (<<q>> \o rs)[k] = IF k <= 1 THEN <<q>>[k] ELSE rs[k - 1]
    BY <1>1, <2>1, ConcatProperties
  <2>3. <<q>> \o rs # <<>>
    BY <1>1, <2>2, EmptySeq
  <2> QED
    BY <1>1, <2>1, <2>2, <2>3
<1> QED
  BY <1>1, <1>2, <1>3, <1>4

\* A sequence of subjects makes a sequence of requests.
LEMMA ForEachType ==
  ASSUME NEW i \in Instances
  PROVE  /\ ForEach(PutChannel, Owned[i]) \in Seq(Request)
         /\ ForEach(DeleteChannel, Owned[i]) \in Seq(Request)
         /\ DOMAIN ForEach(DeleteChannel, Owned[i]) = 1..Len(Owned[i])
         /\ Len(ForEach(DeleteChannel, Owned[i])) = Len(Owned[i])
         /\ Len(ForEach(PutChannel, Owned[i])) = Len(Owned[i])
<1>1. Owned[i] \in Seq(Subjects)
  BY MeshAssumption
<1>2. \A k \in 1..Len(Owned[i]) : Owned[i][k] \in Subjects
  BY <1>1
<1>3. /\ DOMAIN Owned[i] = 1..Len(Owned[i])
      /\ Len(Owned[i]) \in Nat
  BY <1>1
<1>4. 0 \in 0..TTL
  BY MeshAssumption
<1>5. \A s \in Subjects : PutChannel(s) \in Request /\ DeleteChannel(s) \in Request
  BY <1>4 DEF PutChannel, DeleteChannel, Request
<1> QED
  BY <1>2, <1>3, <1>5 DEF ForEach

\* Growing older keeps the kind and the subject of a request, and any request but
\* a service's Put as it is.
LEMMA GrownType ==
  ASSUME NEW r \in Request
  PROVE  /\ Grown(r) \in Request
         /\ Grown(r).op = r.op /\ Grown(r).subject = r.subject
         /\ r.op # "put" => Grown(r) = r
<1>1. \A n \in 0..TTL : Older(n) \in 0..TTL
  BY MeshAssumption DEF Older
<1> QED
  BY <1>1 DEF Grown, Request

LEMMA AgedType ==
  ASSUME NEW rs \in Seq(Request)
  PROVE  /\ Aged(rs) \in Seq(Request)
         /\ Len(Aged(rs)) = Len(rs)
         /\ \A k \in 1..Len(rs) : Aged(rs)[k] = Grown(rs[k])
<1>1. /\ DOMAIN rs = 1..Len(rs) /\ Len(rs) \in Nat
      /\ \A k \in 1..Len(rs) : rs[k] \in Request
  OBVIOUS
<1>2. \A k \in 1..Len(rs) : Grown(rs[k]) \in Request
  BY <1>1, GrownType
<1> QED
  BY <1>1, <1>2 DEF Aged

\* The beginning of a sequence of requests is one.
LEMMA PrefixType ==
  ASSUME NEW rs \in Seq(Request), NEW n \in 0..Len(rs)
  PROVE  /\ SubSeq(rs, 1, n) \in Seq(Request)
         /\ Len(SubSeq(rs, 1, n)) = n
         /\ \A k \in 1..n : SubSeq(rs, 1, n)[k] = rs[k]
BY SubSeqProperties

-----------------------------------------------------------------------------
(* Type correctness.                                                       *)

LEMMA OverType ==
  ASSUME Inv, NEW i \in Instances, NEW ok \in BOOLEAN, todo[i] # <<>>, Over(i, ok)
  PROVE  /\ phase' \in [Instances -> Phases]
         /\ todo' \in [Instances -> Seq(Request)]
         /\ answer' \in [Instances -> {"none", "due", "lost"}]
         /\ fired' \in [Instances -> BOOLEAN]
         /\ acked' \in [Instances -> BOOLEAN]
         /\ unclean' \in [Instances -> BOOLEAN]
         /\ phase'[i] \in Busy <=> todo'[i] # <<>>
         /\ answer'[i] = "none"
<1>1. /\ todo[i] \in Seq(Request) /\ phase[i] \in Busy /\ TypeOK
  BY DEF Inv, Asking, TypeOK
<1>2. /\ Remaining(i, ok) \in Seq(Request)
      /\ Remaining(i, ok) # <<>> => ~Refused(i, ok)
  BY <1>1 DEF Remaining
<1>3. /\ After(i, ok) \in Phases
      /\ After(i, ok) \in Busy <=> Remaining(i, ok) # <<>>
  <2>1. Refused(i, ok) => Remaining(i, ok) = <<>>
    BY DEF Remaining
  <2>0. phase[i] \in Phases /\ phase[i] \in Busy
    BY <1>1 DEF TypeOK
  <2>2. CASE Refused(i, ok)
    BY <2>1, <2>2 DEF After, Phases, Busy
  <2>3. CASE ~Refused(i, ok) /\ Remaining(i, ok) # <<>>
    BY <2>0, <2>3 DEF After
  <2>4. CASE ~Refused(i, ok) /\ Remaining(i, ok) = <<>>
    BY <2>4 DEF After, Phases, Busy
  <2> QED
    BY <2>2, <2>3, <2>4
<1>4. /\ phase' = [phase EXCEPT ![i] = After(i, ok)]
      /\ todo' = [todo EXCEPT ![i] = Remaining(i, ok)]
      /\ answer' = [answer EXCEPT ![i] = "none"]
  BY DEF Over, Begin
<1>5. /\ fired' \in [Instances -> BOOLEAN]
      /\ acked' \in [Instances -> BOOLEAN]
      /\ unclean' \in [Instances -> BOOLEAN]
  BY <1>1 DEF Over, TypeOK
<1> QED
  BY <1>1, <1>2, <1>3, <1>4, <1>5 DEF TypeOK

LEMMA InvInit == Init => Inv
<1> SUFFICES ASSUME Init PROVE Inv
  OBVIOUS
<1>1. TypeOK
  BY MeshAssumption DEF Init, TypeOK, Phases
<1>2. \A i \in Instances : Asking(i)
  BY DEF Init, Asking, Busy
<1> QED
  BY <1>1, <1>2 DEF Inv

LEMMA InvInstance ==
  ASSUME Inv, NEW i \in Instances, Instance(i)
  PROVE  Inv'
<1>0. TypeOK /\ Asking(i) /\ 0 \in 0..TTL /\ None \notin Instances
  BY MeshAssumption DEF Inv
<1>1. CASE Register(i)
  <2>1. <<Put>> \o ForEach(PutChannel, Owned[i]) \in Seq(Request) \ {<<>>}
    <3>1. Put \in Request
      BY <1>0 DEF Put, Request
    <3> QED
      BY <3>1, ForEachType, RequestSeq
  <2>2. TypeOK'
    BY <1>0, <1>1, <2>1 DEF TypeOK, Register, Begin, Phases
  <2>3. \A j \in Instances : Asking(j)'
    BY <1>0, <1>1, <2>1 DEF Inv, TypeOK, Asking, Register, Begin, Busy
  <2> QED
    BY <2>2, <2>3 DEF Inv
<1>2. CASE Send(i)
  <2>1. /\ Append(wire[i], Head(todo[i])) \in Seq(Request) \ {<<>>}
        /\ Len(Append(wire[i], Head(todo[i]))) = Len(wire[i]) + 1
        /\ Len(wire[i]) \in Nat /\ MaxWire \in Nat
    BY <1>0, <1>2, RequestSeq, MeshAssumption DEF TypeOK, Send
  <2>2. TypeOK'
    BY <1>0, <1>2, <2>1 DEF TypeOK, Send
  <2>3. \A j \in Instances : Asking(j)'
    BY <1>0, <1>2, <2>1 DEF Inv, TypeOK, Asking, Send
  <2> QED
    BY <2>2, <2>3 DEF Inv
<1>3. CASE GiveUp(i)
  <2>1. todo[i] # <<>>
    BY <1>0, <1>3 DEF GiveUp, Asking, Busy
  <2>2. TypeOK'
    BY <1>0, <1>3, <2>1, OverType DEF TypeOK, GiveUp
  <2>3. Asking(i)'
    BY <1>0, <1>3, <2>1, OverType DEF Asking, GiveUp
  <2>4. \A j \in Instances \ {i} : Asking(j)'
    BY <1>0, <1>3 DEF Inv, TypeOK, Asking, GiveUp, Over, Begin
  <2> QED
    BY <2>2, <2>3, <2>4 DEF Inv
<1>4. CASE Beat(i)
  <2>1. <<Put>> \in Seq(Request) \ {<<>>}
    BY <1>0 DEF Put, Request
  <2>2. TypeOK'
    BY <1>0, <1>4, <2>1 DEF TypeOK, Beat, Begin, Phases
  <2>3. \A j \in Instances : Asking(j)'
    BY <1>0, <1>4, <2>1 DEF Inv, TypeOK, Asking, Beat, Begin, Busy
  <2> QED
    BY <2>2, <2>3 DEF Inv
<1>5. CASE Deregister(i)
  BY <1>5 DEF Inv, TypeOK, Asking, Deregister
<1>6. CASE Leave(i)
  <2>1. <<Delete>> \o ForEach(DeleteChannel, Owned[i]) \in Seq(Request) \ {<<>>}
    <3>1. Delete \in Request
      BY <1>0 DEF Delete, Request
    <3> QED
      BY <3>1, ForEachType, RequestSeq
  <2>2. TypeOK'
    BY <1>0, <1>6, <2>1 DEF TypeOK, Leave, Begin, Phases
  <2>3. \A j \in Instances : Asking(j)'
    BY <1>0, <1>6, <2>1 DEF Inv, TypeOK, Asking, Leave, Begin, Busy
  <2> QED
    BY <2>2, <2>3 DEF Inv
<1>7. CASE Crash(i)
  <2>1. PICK n \in 0..Len(wire[i]) : wire' = [wire EXCEPT ![i] = SubSeq(wire[i], 1, n)]
    BY <1>7 DEF Crash
  <2>2. /\ SubSeq(wire[i], 1, n) \in Seq(Request)
        /\ Len(SubSeq(wire[i], 1, n)) <= MaxWire
    BY <1>0, PrefixType, MeshAssumption DEF TypeOK
  <2>3. TypeOK'
    BY <1>0, <1>7, <2>1, <2>2 DEF TypeOK, Crash, Begin, Phases
  <2>4. \A j \in Instances : Asking(j)'
    BY <1>0, <1>7, <2>1 DEF Inv, TypeOK, Asking, Crash, Begin, Busy
  <2> QED
    BY <2>3, <2>4 DEF Inv
<1>8. CASE Lose(i)
  <2>0. wire[i] \in Seq(Request) /\ Len(wire[i]) \in Nat /\ Len(wire[i]) <= MaxWire
    BY <1>0 DEF TypeOK
  <2>1. PICK n \in 0..(Len(wire[i]) - 1) : wire' = [wire EXCEPT ![i] = SubSeq(wire[i], 1, n)]
    BY <1>8 DEF Lose
  <2>2. /\ SubSeq(wire[i], 1, n) \in Seq(Request)
        /\ Len(SubSeq(wire[i], 1, n)) <= MaxWire
    BY <2>0, PrefixType, MeshAssumption
  <2>3. TypeOK'
    BY <1>0, <1>8, <2>1, <2>2 DEF TypeOK, Lose
  <2>4. \A j \in Instances : Asking(j)'
    BY <1>0, <1>8, <2>1 DEF Inv, TypeOK, Asking, Lose
  <2> QED
    BY <2>3, <2>4 DEF Inv
<1>9. CASE Serve(i)
  <2>0. /\ wire[i] \in Seq(Request) /\ Len(wire[i]) \in Nat /\ Len(wire[i]) <= MaxWire
        /\ wire[i] # <<>> /\ Head(wire[i]) \in Request
        /\ Tail(wire[i]) \in Seq(Request) /\ Len(Tail(wire[i])) = Len(wire[i]) - 1
        /\ Tail(wire[i]) = <<>> => Len(wire[i]) = 1
    <3>1. wire[i] \in Seq(Request) /\ Len(wire[i]) <= MaxWire /\ wire[i] # <<>>
      BY <1>0, <1>9 DEF TypeOK, Serve
    <3>2. /\ Len(wire[i]) \in Nat /\ Head(wire[i]) \in Request
          /\ Tail(wire[i]) \in Seq(Request) /\ Len(Tail(wire[i])) = Len(wire[i]) - 1
      BY <3>1, RequestSeq
    <3>3. Tail(wire[i]) = <<>> => Len(Tail(wire[i])) = 0
      BY <3>2, RequestSeq
    <3> QED
      BY <3>1, <3>2, <3>3
  <2>1. wire' = [wire EXCEPT ![i] = Tail(wire[i])] /\ UNCHANGED <<cancelled, missed>>
    BY <1>9 DEF Serve
  <2>2. services' \in [Instances -> Entry \cup {None}] /\ channels' \in [Subjects -> Instances \cup {None}]
    <3>1. Store(i, Head(wire[i]))
      BY <1>9 DEF Serve
    <3>2. [stored |-> 0, seen |-> Head(wire[i]).seen] \in Entry
      BY <2>0, MeshAssumption DEF Request, Entry
    <3> QED
      BY <1>0, <3>1, <3>2 DEF TypeOK, Store
  <2>3. wire' \in [Instances -> Seq(Request)] /\ \A j \in Instances : Len(wire'[j]) <= MaxWire
    BY <1>0, <2>0, <2>1, MeshAssumption DEF TypeOK
  <2>4. CASE answer[i] = "due" /\ Len(wire[i]) = 1
    <3>1. Over(i, TRUE) /\ todo[i] # <<>>
      BY <1>0, <1>9, <2>4 DEF Serve, Asking
    <3>2. TypeOK'
      BY <1>0, <2>1, <2>2, <2>3, <3>1, OverType DEF TypeOK
    <3>3. Asking(i)'
      BY <3>1, OverType DEF Asking
    <3>4. \A j \in Instances \ {i} : Asking(j)'
      BY <1>0, <2>1, <3>1 DEF Inv, TypeOK, Asking, Over, Begin
    <3> QED
      BY <3>2, <3>3, <3>4 DEF Inv
  <2>5. CASE ~(answer[i] = "due" /\ Len(wire[i]) = 1)
    <3>1. UNCHANGED <<phase, todo, answer, fired, acked, unclean>>
      BY <1>9, <2>5 DEF Serve
    <3>2. TypeOK'
      BY <1>0, <2>1, <2>2, <2>3, <3>1 DEF TypeOK
    <3>3. \A j \in Instances : Asking(j)'
      BY <1>0, <2>0, <2>1, <2>5, <3>1 DEF Inv, TypeOK, Asking
    <3> QED
      BY <3>2, <3>3 DEF Inv
  <2> QED
    BY <2>4, <2>5
<1> QED
  BY <1>1, <1>2, <1>3, <1>4, <1>5, <1>6, <1>7, <1>8, <1>9 DEF Instance

LEMMA InvTick ==
  ASSUME Inv, Tick
  PROVE  Inv'
<1>0. TypeOK /\ TTL \in Nat /\ 1 < TTL /\ None \notin Instances
  BY MeshAssumption DEF Inv
<1>1. \A n \in 0..TTL : Older(n) \in 0..TTL
  BY <1>0 DEF Older
<1>2. services' \in [Instances -> Entry \cup {None}]
  <2>1. \A e \in Entry \cup {None} : Expire(e) \in Entry \cup {None}
    BY <1>0, <1>1 DEF Expire, Entry
  <2> QED
    BY <1>0, <2>1 DEF TypeOK, Tick
<1>3. /\ wire' \in [Instances -> Seq(Request)]
      /\ \A j \in Instances : Len(wire'[j]) <= MaxWire /\ (wire'[j] = <<>> => wire[j] = <<>>)
  BY <1>0, AgedType DEF TypeOK, Tick
<1>4. missed' \in [Instances -> 0..TTL]
  BY <1>0, <1>1 DEF TypeOK, Tick
<1>5. TypeOK'
  BY <1>0, <1>2, <1>3, <1>4 DEF TypeOK, Tick
<1>6. \A j \in Instances : Asking(j)'
  BY <1>3 DEF Inv, Asking, Tick
<1> QED
  BY <1>5, <1>6 DEF Inv

LEMMA InvNext == Inv /\ [Next]_vars => Inv'
<1> SUFFICES ASSUME Inv, [Next]_vars PROVE Inv'
  OBVIOUS
<1>1. CASE \E i \in Instances : Instance(i)
  BY <1>1, InvInstance
<1>2. CASE Tick
  BY <1>2, InvTick
<1>3. CASE UNCHANGED vars
  BY <1>3 DEF vars, Inv, TypeOK, Asking
<1> QED
  BY <1>1, <1>2, <1>3 DEF Next

\* Registrations, requests and the registry keep their types.
THEOREM TypeCorrect == Spec => []TypeOK
<1>1. Spec => []Inv
  BY InvInit, InvNext, PTL DEF Spec
<1> QED
  BY <1>1, PTL DEF Inv

-----------------------------------------------------------------------------
(* Deregistration.                                                         *)

Owns(i) == {Owned[i][k] : k \in DOMAIN Owned[i]}

Pending(i, s) == \E k \in 1..Len(todo[i]) : todo[i][k] = DeleteChannel(s)

Deleted(i) ==
  \/ phase[i] = "gone"
  \/ phase[i] = "leaving" /\ Head(todo[i]).op # "delete"

OwnOnly(i, rs) == \A k \in 1..Len(rs) : rs[k].op = "putChannel" => rs[k].subject \in Owns(i)

\* An instance publishes no channel but its own.
Publishes(i) ==
  /\ \A s \in Subjects : channels[s] = i => s \in Owns(i)
  /\ OwnOnly(i, todo[i]) /\ OwnOnly(i, wire[i])

\* Deregistering, it deletes its entry first and then each of its channels, and
\* waits for the last request on its way.
DeletesAll(i) ==
  phase[i] = "leaving" =>
    /\ \A k \in 1..Len(todo[i]) : /\ todo[i][k].op \in {"delete", "deleteChannel"}
                                  /\ k > 1 => todo[i][k].op # "delete"
    /\ answer[i] = "due" => wire[i][Len(wire[i])] = Head(todo[i])
    /\ Head(todo[i]).op = "delete" => \A s \in Owns(i) : Pending(i, s)

\* Once its entry is deleted, nothing is on its way but what it waits for, and
\* only the channels it has yet to delete are left.
LeavesNothing(i) ==
  Deleted(i) /\ ~unclean[i] =>
    /\ services[i] = None
    /\ Len(wire[i]) = IF answer[i] = "due" THEN 1 ELSE 0
    /\ \A s \in Subjects : channels[s] = i => Pending(i, s)

Orderly(i) == Publishes(i) /\ DeletesAll(i) /\ LeavesNothing(i)

LeaveInv == Inv /\ \A i \in Instances : Orderly(i)

\* What others do leaves an orderly instance so.
LEMMA Undisturbed ==
  ASSUME NEW j \in Instances, Orderly(j),
         phase'[j] = phase[j], todo'[j] = todo[j], answer'[j] = answer[j], wire'[j] = wire[j],
         services'[j] = services[j], unclean'[j] = unclean[j],
         \A s \in Subjects : channels'[s] = j => channels[s] = j
  PROVE  Orderly(j)'
<1>1. Publishes(j)'
  BY DEF Orderly, Publishes, OwnOnly
<1>2. DeletesAll(j)'
  BY DEF Orderly, DeletesAll, Pending
<1>3. LeavesNothing(j)'
  BY DEF Orderly, LeavesNothing, Deleted, Pending
<1> QED
  BY <1>1, <1>2, <1>3 DEF Orderly

\* What a registration sends, and what a deregistration.
LEMMA Requests ==
  ASSUME NEW i \in Instances
  PROVE  /\ OwnOnly(i, <<Put>> \o ForEach(PutChannel, Owned[i]))
         /\ LET rs == <<Delete>> \o ForEach(DeleteChannel, Owned[i])
            IN  /\ OwnOnly(i, rs)
                /\ Head(rs) = Delete
                /\ \A k \in 1..Len(rs) : /\ rs[k].op \in {"delete", "deleteChannel"}
                                         /\ k > 1 => rs[k].op # "delete"
                /\ \A s \in Owns(i) : \E k \in 1..Len(rs) : rs[k] = DeleteChannel(s)
<1> DEFINE ps == ForEach(PutChannel, Owned[i])
           ds == ForEach(DeleteChannel, Owned[i])
           n  == Len(Owned[i])
           P  == <<Put>> \o ps
           D  == <<Delete>> \o ds
<1>0. /\ n \in Nat /\ DOMAIN Owned[i] = 1..n /\ 0 \in 0..TTL
      /\ \A k \in 1..n : Owned[i][k] \in Subjects
  BY MeshAssumption
<1>1. /\ Put \in Request /\ Delete \in Request
      /\ ps \in Seq(Request) /\ ds \in Seq(Request) /\ Len(ps) = n /\ Len(ds) = n
  BY <1>0, ForEachType DEF Put, Delete, Request
<1>2. \A k \in 1..n : ps[k] = PutChannel(Owned[i][k]) /\ ds[k] = DeleteChannel(Owned[i][k])
  BY <1>0 DEF ForEach
<1> HIDE DEF ps, ds, n
<1>3. /\ Len(P) = n + 1 /\ Len(D) = n + 1
      /\ P[1] = Put /\ D[1] = Delete
      /\ \A k \in 1..n : P[k + 1] = ps[k] /\ D[k + 1] = ds[k]
      /\ Head(D) = Delete
  BY <1>1, RequestSeq DEF P, D
<1> HIDE DEF P, D
<1>4. ASSUME NEW k \in 1..(n + 1), k # 1
      PROVE  \E m \in 1..n : k = m + 1
  BY <1>0, <1>4, k - 1 \in 1..n, k = (k - 1) + 1
<1>5. \A k \in 1..n : Owned[i][k] \in Owns(i)
  BY <1>0 DEF Owns
<1>6. ASSUME NEW k \in 1..(n + 1)
      PROVE  P[k].op = "putChannel" => P[k].subject \in Owns(i)
  <2>1. CASE k = 1
    BY <1>3, <2>1 DEF Put
  <2>2. CASE k # 1
    <3>1. PICK m \in 1..n : k = m + 1
      BY <1>4, <2>2
    <3>2. P[k] = PutChannel(Owned[i][m])
      BY <1>2, <1>3, <3>1
    <3> QED
      BY <1>5, <3>2 DEF PutChannel
  <2> QED
    BY <2>1, <2>2
<1>7. ASSUME NEW k \in 1..(n + 1)
      PROVE  D[k].op \in {"delete", "deleteChannel"} /\ (k > 1 => D[k].op # "delete")
  <2>1. CASE k = 1
    BY <1>3, <2>1 DEF Delete
  <2>2. CASE k # 1
    <3>1. PICK m \in 1..n : k = m + 1
      BY <1>4, <2>2
    <3>2. D[k] = DeleteChannel(Owned[i][m])
      BY <1>2, <1>3, <3>1
    <3> QED
      BY <3>2 DEF DeleteChannel
  <2> QED
    BY <2>1, <2>2
<1>8. \A s \in Owns(i) : \E k \in 1..(n + 1) : D[k] = DeleteChannel(s)
  <2> SUFFICES ASSUME NEW s \in Owns(i)
               PROVE  \E k \in 1..(n + 1) : D[k] = DeleteChannel(s)
    OBVIOUS
  <2>1. PICK m \in 1..n : s = Owned[i][m]
    BY <1>0 DEF Owns
  <2>2. D[m + 1] = DeleteChannel(s) /\ m + 1 \in 1..(n + 1)
    BY <1>0, <1>2, <1>3, <2>1
  <2> QED
    BY <2>2
<1> QED
  BY <1>3, <1>6, <1>7, <1>8 DEF OwnOnly, ps, ds, P, D

LEMMA LeaveInit == Init => LeaveInv
<1> SUFFICES ASSUME Init PROVE LeaveInv
  OBVIOUS
<1>1. ASSUME NEW i \in Instances
      PROVE  Orderly(i)
  <2>1. todo[i] = <<>> /\ wire[i] = <<>> /\ phase[i] = "new" /\ \A s \in Subjects : channels[s] # i
    BY MeshAssumption DEF Init
  <2>2. Publishes(i)
    BY <2>1 DEF Publishes, OwnOnly
  <2> QED
    BY <2>1, <2>2 DEF Orderly, DeletesAll, LeavesNothing, Deleted
<1> QED
  BY <1>1, InvInit DEF LeaveInv

\* An instance only disturbs itself.
LEMMA LeaveOthers ==
  ASSUME LeaveInv, NEW i \in Instances, Instance(i), NEW j \in Instances \ {i}
  PROVE  Orderly(j)'
<1>0. TypeOK /\ None \notin Instances /\ Orderly(j)
  BY MeshAssumption DEF LeaveInv, Inv
<1>1. /\ phase'[j] = phase[j] /\ todo'[j] = todo[j] /\ answer'[j] = answer[j]
      /\ wire'[j] = wire[j] /\ unclean'[j] = unclean[j]
  <2>1. CASE Register(i) \/ Send(i) \/ Beat(i) \/ Deregister(i) \/ Leave(i)
    BY <1>0, <2>1 DEF TypeOK, Register, Send, Beat, Deregister, Leave, Begin
  <2>2. CASE Crash(i) \/ Lose(i)
    BY <1>0, <2>2 DEF TypeOK, Crash, Lose, Begin
  <2>3. CASE GiveUp(i)
    BY <1>0, <2>3 DEF TypeOK, GiveUp, Over, Begin
  <2>4. CASE Serve(i)
    <3>1. CASE Over(i, TRUE)
      BY <1>0, <2>4, <3>1 DEF TypeOK, Serve, Over, Begin
    <3>2. CASE UNCHANGED <<phase, todo, answer, fired, acked, unclean>>
      BY <1>0, <2>4, <3>2 DEF TypeOK, Serve
    <3> QED
      BY <2>4, <3>1, <3>2 DEF Serve
  <2> QED
    BY <2>1, <2>2, <2>3, <2>4 DEF Instance
<1>2. services'[j] = services[j] /\ \A s \in Subjects : channels'[s] = j => channels[s] = j
  <2>1. CASE UNCHANGED <<services, channels>>
    BY <2>1
  <2>2. CASE Serve(i)
    BY <1>0, <2>2 DEF TypeOK, Serve, Store
  <2> QED
    BY <2>1, <2>2 DEF Instance, Register, Send, GiveUp, Beat, Deregister, Leave, Crash, Lose
<1> QED
  BY <1>0, <1>1, <1>2, Undisturbed

\* The requests left when one is over, and where that leaves the procedure.
LEMMA OverOrder ==
  ASSUME LeaveInv, NEW i \in Instances, NEW ok \in BOOLEAN, todo[i] # <<>>, Over(i, ok)
  PROVE  /\ OwnOnly(i, todo'[i])
         /\ answer'[i] = "none"
         /\ phase'[i] = "leaving" => todo'[i] # <<>>
         /\ phase'[i] \in {"leaving", "gone"} =>
              /\ phase[i] = "leaving"
              /\ todo'[i] = Tail(todo[i])
              /\ unclean'[i] = (unclean[i] \/ ~ok)
<1>0. /\ TypeOK /\ todo[i] \in Seq(Request) /\ OwnOnly(i, todo[i]) /\ phase[i] \in Busy
      /\ Inv
  BY DEF LeaveInv, Inv, TypeOK, Orderly, Publishes, Asking
<1>1. /\ phase'[i] = After(i, ok) /\ todo'[i] = Remaining(i, ok) /\ answer'[i] = "none"
      /\ unclean'[i] = (unclean[i] \/ (phase[i] = "leaving" /\ ~ok))
  BY <1>0 DEF Over, Begin, TypeOK
<1>2. OwnOnly(i, Remaining(i, ok))
  <2>1. OwnOnly(i, <<>>)
    BY DEF OwnOnly
  <2>2. OwnOnly(i, Tail(todo[i]))
    <3>1. /\ Len(todo[i]) \in Nat /\ Len(Tail(todo[i])) = Len(todo[i]) - 1
          /\ \A k \in 1..(Len(todo[i]) - 1) : Tail(todo[i])[k] = todo[i][k + 1]
      BY <1>0, RequestSeq
    <3> QED
      BY <1>0, <3>1 DEF OwnOnly
  <2> QED
    BY <2>1, <2>2 DEF Remaining
<1>3. After(i, ok) = "leaving" => Remaining(i, ok) # <<>>
  BY <1>1, OverType, <1>0 DEF Busy
<1>4. After(i, ok) \in {"leaving", "gone"} => phase[i] = "leaving" /\ Remaining(i, ok) = Tail(todo[i])
  <2>1. CASE Refused(i, ok)
    BY <2>1 DEF After, Remaining, Refused
  <2>2. CASE ~Refused(i, ok) /\ Remaining(i, ok) # <<>>
    BY <1>0, <2>2 DEF After, Remaining, Busy
  <2>3. CASE ~Refused(i, ok) /\ Remaining(i, ok) = <<>>
    <3>1. CASE phase[i] = "leaving"
      BY <2>3, <3>1 DEF Remaining
    <3>2. CASE phase[i] # "leaving"
      BY <2>3, <3>2 DEF After
    <3> QED
      BY <3>1, <3>2
  <2> QED
    BY <2>1, <2>2, <2>3
<1> QED
  BY <1>1, <1>2, <1>3, <1>4

\* Serving a request publishes no channel that is not the instance's own, and
\* leaves the rest of its requests as they are.
LEMMA ServeOrder ==
  ASSUME LeaveInv, NEW i \in Instances, Serve(i)
  PROVE  /\ wire'[i] = Tail(wire[i]) /\ Len(wire'[i]) = Len(wire[i]) - 1
         /\ OwnOnly(i, wire'[i])
         /\ \A s \in Subjects : channels'[s] = i => s \in Owns(i)
<1>0. /\ TypeOK /\ Inv /\ Publishes(i) /\ wire[i] # <<>>
      /\ wire[i] \in Seq(Request)
  BY DEF LeaveInv, Inv, TypeOK, Orderly, Serve
<1>1. wire'[i] = Tail(wire[i])
  BY <1>0 DEF Serve, TypeOK
<1>2. /\ Len(wire[i]) \in Nat /\ Len(wire[i]) # 0 /\ Head(wire[i]) = wire[i][1]
      /\ Len(Tail(wire[i])) = Len(wire[i]) - 1
      /\ \A k \in 1..(Len(wire[i]) - 1) : Tail(wire[i])[k] = wire[i][k + 1]
  BY <1>0, RequestSeq
<1>3. OwnOnly(i, wire'[i])
  BY <1>0, <1>1, <1>2 DEF OwnOnly, Publishes
<1>4. Head(wire[i]).op = "putChannel" => Head(wire[i]).subject \in Owns(i)
  BY <1>0, <1>2 DEF OwnOnly, Publishes
<1>5. \A s \in Subjects : channels'[s] = i => s \in Owns(i)
  <2>1. Store(i, Head(wire[i]))
    BY DEF Serve
  <2>2. None # i
    BY MeshAssumption
  <2> QED
    BY <1>0, <1>4, <2>1, <2>2 DEF Store, Publishes, TypeOK
<1> QED
  BY <1>1, <1>2, <1>3, <1>5

\* The last request on its way, waited for while deregistering, is the first of
\* those left: the entry's Delete, or that of one of the channels left.
LEMMA ServeLast ==
  ASSUME LeaveInv, NEW i \in Instances, Serve(i), answer[i] = "due", Len(wire[i]) = 1
  PROVE  Orderly(i)'
<1>0. /\ TypeOK /\ Inv /\ Orderly(i) /\ wire[i] # <<>> /\ todo[i] # <<>>
      /\ wire[i] \in Seq(Request) /\ todo[i] \in Seq(Request) /\ Over(i, TRUE)
      /\ None # i
  BY MeshAssumption DEF LeaveInv, Inv, TypeOK, Asking, Serve
<1>1. /\ Len(wire'[i]) = 0 /\ OwnOnly(i, wire'[i])
      /\ \A s \in Subjects : channels'[s] = i => s \in Owns(i)
  <2>1. /\ Len(wire'[i]) = Len(wire[i]) - 1 /\ OwnOnly(i, wire'[i])
        /\ \A s \in Subjects : channels'[s] = i => s \in Owns(i)
    BY ServeOrder, Zenon
  <2>2. Len(wire'[i]) = 0
    BY <2>1
  <2> QED
    BY <2>1, <2>2
<1>2. /\ Len(todo[i]) \in Nat /\ Len(todo[i]) # 0 /\ Head(todo[i]) = todo[i][1]
      /\ Len(Tail(todo[i])) = Len(todo[i]) - 1
      /\ \A k \in 1..(Len(todo[i]) - 1) : Tail(todo[i])[k] = todo[i][k + 1]
      /\ Head(wire[i]) = wire[i][1]
  BY <1>0, RequestSeq
<1>3. /\ OwnOnly(i, todo'[i]) /\ answer'[i] = "none"
      /\ phase'[i] = "leaving" => todo'[i] # <<>>
      /\ phase'[i] \in {"leaving", "gone"} =>
           /\ phase[i] = "leaving"
           /\ todo'[i] = Tail(todo[i])
           /\ unclean'[i] = unclean[i]
  <2>1. unclean[i] \in BOOLEAN
    BY <1>0 DEF TypeOK
  <2> QED
    BY <1>0, <2>1, OverOrder, Zenon
<1>4. Publishes(i)'
  BY <1>1, <1>3 DEF Publishes, OwnOnly
<1>5. CASE ~(phase'[i] \in {"leaving", "gone"})
  BY <1>4, <1>5 DEF Orderly, DeletesAll, LeavesNothing, Deleted
<1>6. CASE phase'[i] \in {"leaving", "gone"}
  <2>1. /\ Head(wire[i]) = todo[i][1]
        /\ todo[i][1].op \in {"delete", "deleteChannel"}
        /\ \A k \in 1..Len(todo'[i]) : todo'[i][k].op = "deleteChannel"
    <3>1. /\ \A k \in 1..Len(todo[i]) : /\ todo[i][k].op \in {"delete", "deleteChannel"}
                                        /\ k > 1 => todo[i][k].op # "delete"
          /\ wire[i][Len(wire[i])] = Head(todo[i])
      BY <1>0, <1>3, <1>6 DEF Orderly, DeletesAll
    <3>2. \A k \in 1..(Len(todo[i]) - 1) : k + 1 \in 1..Len(todo[i]) /\ k + 1 > 1
      BY <1>2
    <3>3. \A k \in 1..(Len(todo[i]) - 1) : Tail(todo[i])[k].op = "deleteChannel"
      BY <1>2, <3>1, <3>2
    <3>4. todo'[i] = Tail(todo[i])
      BY <1>3, <1>6
    <3>5. Head(wire[i]) = todo[i][1]
      BY <1>2, <3>1
    <3> QED
      BY <1>2, <3>1, <3>3, <3>4, <3>5
  <2>2. DeletesAll(i)'
    <3>1. phase'[i] = "leaving" => Head(todo'[i]).op = "deleteChannel"
      <4>1. todo'[i] \in Seq(Request)
        BY <1>0, OverType
      <4>2. todo'[i] # <<>> => Head(todo'[i]) = todo'[i][1] /\ 1 \in 1..Len(todo'[i])
        BY <4>1, RequestSeq
      <4> QED
        BY <1>3, <2>1, <4>2
    <3> QED
      BY <1>3, <2>1, <3>1 DEF DeletesAll
  <2>3. Store(i, todo[i][1])
    BY <2>1 DEF Serve
  <2>4. \A s \in Subjects : Pending(i, s) /\ todo[i][1] # DeleteChannel(s) => Pending(i, s)'
    <3> SUFFICES ASSUME NEW s \in Subjects, Pending(i, s), todo[i][1] # DeleteChannel(s)
                 PROVE  \E k \in 1..Len(todo'[i]) : todo'[i][k] = DeleteChannel(s)
      BY DEF Pending, DeleteChannel
    <3>1. PICK k \in 1..Len(todo[i]) : todo[i][k] = DeleteChannel(s)
      BY DEF Pending
    <3>2. k # 1 /\ k - 1 \in 1..(Len(todo[i]) - 1) /\ (k - 1) + 1 = k
      BY <1>2, <3>1
    <3>3. todo'[i][k - 1] = DeleteChannel(s) /\ k - 1 \in 1..Len(todo'[i])
      BY <1>2, <1>3, <1>6, <3>1, <3>2
    <3> QED
      BY <3>3
  <2>5. LeavesNothing(i)'
    <3> SUFFICES ASSUME ~unclean[i]
                 PROVE  services'[i] = None /\ \A s \in Subjects : channels'[s] = i => Pending(i, s)'
      BY <1>1, <1>3, <1>6 DEF LeavesNothing, Deleted
    <3>1. CASE todo[i][1].op = "delete"
      <4>1. services'[i] = None /\ channels' = channels
        BY <1>0, <2>3, <3>1 DEF Store, TypeOK
      <4>2. \A s \in Subjects : channels[s] = i => Pending(i, s)
        BY <1>0, <1>2, <1>3, <1>6, <3>1 DEF Orderly, Publishes, DeletesAll
      <4>3. \A s \in Subjects : todo[i][1] # DeleteChannel(s)
        BY <3>1 DEF DeleteChannel
      <4> QED
        BY <2>4, <4>1, <4>2, <4>3
    <3>2. CASE todo[i][1].op = "deleteChannel"
      <4>1. /\ services[i] = None
            /\ \A s \in Subjects : channels[s] = i => Pending(i, s)
        BY <1>0, <1>2, <1>3, <1>6, <3>2 DEF Orderly, LeavesNothing, Deleted
      <4>2. services' = services /\ channels' = [channels EXCEPT ![todo[i][1].subject] = None]
        BY <2>3, <3>2 DEF Store
      <4>3. \A s \in Subjects : channels'[s] = i => channels[s] = i /\ todo[i][1] # DeleteChannel(s)
        BY <1>0, <4>2 DEF TypeOK, DeleteChannel
      <4> QED
        BY <2>4, <4>1, <4>2, <4>3
    <3> QED
      BY <2>1, <3>1, <3>2
  <2> QED
    BY <1>4, <2>2, <2>5 DEF Orderly
<1> QED
  BY <1>5, <1>6

\* An instance that is orderly stays so.
LEMMA LeaveOwn ==
  ASSUME LeaveInv, NEW i \in Instances, Instance(i)
  PROVE  Orderly(i)'
<1>0. /\ TypeOK /\ Inv /\ Asking(i) /\ Publishes(i) /\ DeletesAll(i) /\ LeavesNothing(i)
      /\ wire[i] \in Seq(Request) /\ todo[i] \in Seq(Request) /\ Len(wire[i]) \in Nat
  BY DEF LeaveInv, Inv, TypeOK, Orderly
<1>1. CASE Register(i)
  <2>1. /\ phase'[i] = "joining" /\ todo'[i] = <<Put>> \o ForEach(PutChannel, Owned[i])
        /\ UNCHANGED <<wire, channels>>
    BY <1>0, <1>1 DEF Register, Begin, TypeOK
  <2>2. Publishes(i)'
    BY <1>0, <2>1, Requests DEF Publishes, OwnOnly
  <2> QED
    BY <2>1, <2>2 DEF Orderly, DeletesAll, LeavesNothing, Deleted
<1>2. CASE Send(i)
  <2>1. /\ Len(wire'[i]) = Len(wire[i]) + 1
        /\ \A k \in 1..Len(wire[i]) : wire'[i][k] = wire[i][k]
        /\ wire'[i][Len(wire[i]) + 1] = Head(todo[i])
        /\ Head(todo[i]) = todo[i][1] /\ 1 \in 1..Len(todo[i])
    <3>1. wire'[i] = Append(wire[i], Head(todo[i])) /\ todo[i] # <<>>
      BY <1>0, <1>2 DEF Send, TypeOK
    <3> QED
      BY <1>0, <3>1, RequestSeq
  <2>2. /\ answer[i] = "none" /\ answer'[i] = "due"
        /\ UNCHANGED <<phase, todo, services, channels, unclean>>
    BY <1>0, <1>2 DEF Send, TypeOK
  <2>3. OwnOnly(i, wire'[i])
    <3>1. \A k \in 1..Len(wire'[i]) : k \in 1..Len(wire[i]) \/ k = Len(wire[i]) + 1
      BY <1>0, <2>1
    <3> QED
      BY <1>0, <2>1, <3>1 DEF Publishes, OwnOnly
  <2>4. Publishes(i)'
    BY <1>0, <2>2, <2>3 DEF Publishes, OwnOnly
  <2>5. DeletesAll(i)'
    BY <1>0, <2>1, <2>2 DEF DeletesAll, Pending
  <2>6. LeavesNothing(i)'
    BY <1>0, <2>1, <2>2 DEF LeavesNothing, Deleted, Pending
  <2> QED
    BY <2>4, <2>5, <2>6 DEF Orderly
<1>3. CASE GiveUp(i)
  <2>1. todo[i] # <<>> /\ Over(i, FALSE) /\ UNCHANGED <<wire, services, channels>>
    BY <1>0, <1>3 DEF GiveUp, Asking, Busy
  <2>2. /\ OwnOnly(i, todo'[i]) /\ answer'[i] = "none"
        /\ phase'[i] = "leaving" => todo'[i] # <<>> /\ todo'[i] = Tail(todo[i]) /\ phase[i] = "leaving"
        /\ phase'[i] \in {"leaving", "gone"} => unclean'[i]
    BY <1>0, <2>1, OverOrder, Zenon
  <2>3. Publishes(i)'
    BY <1>0, <2>1, <2>2 DEF Publishes, OwnOnly
  <2>4. DeletesAll(i)'
    <3> SUFFICES ASSUME phase'[i] = "leaving"
                 PROVE  /\ \A k \in 1..Len(todo'[i]) : todo'[i][k].op = "deleteChannel"
                        /\ Head(todo'[i]).op = "deleteChannel"
      BY <2>2 DEF DeletesAll
    <3>1. /\ Len(todo[i]) \in Nat /\ Len(Tail(todo[i])) = Len(todo[i]) - 1
          /\ \A k \in 1..(Len(todo[i]) - 1) : Tail(todo[i])[k] = todo[i][k + 1]
      BY <1>0, <2>1, RequestSeq
    <3>2. \A k \in 1..Len(todo[i]) : /\ todo[i][k].op \in {"delete", "deleteChannel"}
                                     /\ k > 1 => todo[i][k].op # "delete"
      BY <1>0, <2>2 DEF DeletesAll
    <3>3. \A k \in 1..(Len(todo[i]) - 1) : k + 1 \in 1..Len(todo[i]) /\ k + 1 > 1
      BY <3>1
    <3>4. \A k \in 1..(Len(todo[i]) - 1) : Tail(todo[i])[k].op = "deleteChannel"
      BY <3>1, <3>2, <3>3
    <3>5. todo'[i] = Tail(todo[i]) /\ todo'[i] # <<>> /\ todo'[i] \in Seq(Request)
      <4>1. Tail(todo[i]) \in Seq(Request)
        BY <1>0, <2>1, RequestSeq
      <4> QED
        BY <2>2, <4>1
    <3>6. Head(todo'[i]) = todo'[i][1] /\ 1 \in 1..Len(todo'[i])
      BY <3>5, RequestSeq
    <3> QED
      BY <3>1, <3>4, <3>5, <3>6
  <2>5. LeavesNothing(i)'
    BY <2>2 DEF LeavesNothing, Deleted
  <2> QED
    BY <2>3, <2>4, <2>5 DEF Orderly
<1>4. CASE Beat(i)
  <2>1. phase'[i] = "beating" /\ todo'[i] = <<Put>> /\ UNCHANGED <<wire, channels>>
    BY <1>0, <1>4 DEF Beat, Begin, TypeOK
  <2>2. OwnOnly(i, <<Put>>)
    BY DEF OwnOnly, Put
  <2>3. Publishes(i)'
    BY <1>0, <2>1, <2>2 DEF Publishes, OwnOnly
  <2> QED
    BY <2>1, <2>3 DEF Orderly, DeletesAll, LeavesNothing, Deleted
<1>5. CASE Deregister(i)
  BY <1>0, <1>5, Undisturbed DEF Deregister, Orderly
<1>6. CASE Leave(i)
  <2>1. /\ phase'[i] = "leaving" /\ todo'[i] = <<Delete>> \o ForEach(DeleteChannel, Owned[i])
        /\ answer[i] = "none" /\ UNCHANGED <<answer, wire, channels>>
    BY <1>0, <1>6 DEF Leave, Begin, TypeOK, Asking, Busy
  <2>2. Publishes(i)'
    BY <1>0, <2>1, Requests DEF Publishes, OwnOnly
  <2>3. DeletesAll(i)'
    BY <2>1, Requests DEF DeletesAll, Pending
  <2>4. LeavesNothing(i)'
    BY <2>1, Requests DEF LeavesNothing, Deleted, Delete
  <2> QED
    BY <2>2, <2>3, <2>4 DEF Orderly
<1>7. CASE Crash(i)
  <2>1. PICK n \in 0..Len(wire[i]) : wire' = [wire EXCEPT ![i] = SubSeq(wire[i], 1, n)]
    BY <1>7 DEF Crash
  <2>2. /\ Len(wire'[i]) = n
        /\ \A k \in 1..n : wire'[i][k] = wire[i][k] /\ k \in 1..Len(wire[i])
    BY <1>0, <2>1, PrefixType DEF TypeOK
  <2>3. phase'[i] = "crashed" /\ todo'[i] = <<>> /\ UNCHANGED channels
    BY <1>0, <1>7 DEF Crash, Begin, TypeOK
  <2>4. Publishes(i)'
    BY <1>0, <2>2, <2>3 DEF Publishes, OwnOnly
  <2> QED
    BY <2>3, <2>4 DEF Orderly, DeletesAll, LeavesNothing, Deleted
<1>8. CASE Lose(i)
  <2>1. PICK n \in 0..(Len(wire[i]) - 1) : wire' = [wire EXCEPT ![i] = SubSeq(wire[i], 1, n)]
    BY <1>8 DEF Lose
  <2>2. /\ Len(wire'[i]) = n
        /\ \A k \in 1..n : wire'[i][k] = wire[i][k] /\ k \in 1..Len(wire[i])
    <3>1. n \in 0..Len(wire[i])
      BY <1>0
    <3> QED
      BY <1>0, <2>1, <3>1, PrefixType DEF TypeOK
  <2>3. /\ answer'[i] = IF answer[i] = "due" THEN "lost" ELSE answer[i]
        /\ UNCHANGED <<phase, todo, services, channels, unclean>>
    BY <1>0, <1>8 DEF Lose, TypeOK
  <2>4. Publishes(i)'
    BY <1>0, <2>2, <2>3 DEF Publishes, OwnOnly
  <2>5. DeletesAll(i)'
    BY <1>0, <2>3 DEF DeletesAll, Pending
  <2>6. LeavesNothing(i)'
    BY <1>0, <2>2, <2>3 DEF LeavesNothing, Deleted, Pending
  <2> QED
    BY <2>4, <2>5, <2>6 DEF Orderly
<1>9. CASE Serve(i)
  <2>1. CASE answer[i] = "due" /\ Len(wire[i]) = 1
    BY <1>9, <2>1, ServeLast
  <2>2. CASE ~(answer[i] = "due" /\ Len(wire[i]) = 1)
    <3>1. UNCHANGED <<phase, todo, answer, unclean>>
      BY <1>9, <2>2 DEF Serve
    <3>2. /\ wire'[i] = Tail(wire[i]) /\ Len(wire'[i]) = Len(wire[i]) - 1
          /\ OwnOnly(i, wire'[i])
          /\ \A s \in Subjects : channels'[s] = i => s \in Owns(i)
      BY <1>9, ServeOrder, Zenon
    <3>3. Publishes(i)'
      BY <1>0, <3>1, <3>2 DEF Publishes, OwnOnly
    <3>4. wire[i] # <<>> /\ Len(wire[i]) # 0
      BY <1>0, <1>9, RequestSeq DEF Serve
    <3>5. answer[i] = "due" => wire'[i][Len(wire'[i])] = wire[i][Len(wire[i])]
      <4>1. answer[i] = "due" => Len(wire[i]) - 1 \in 1..(Len(wire[i]) - 1)
        <5>1. answer[i] = "due" => Len(wire[i]) # 1
          BY <2>2
        <5>2. Len(wire[i]) \in Nat /\ Len(wire[i]) # 0
          BY <1>0, <3>4
        <5>3. \A n \in Nat : n # 0 /\ n # 1 => n - 1 \in 1..(n - 1)
          OBVIOUS
        <5> QED
          BY <5>1, <5>2, <5>3, Zenon
      <4>2. \A k \in 1..(Len(wire[i]) - 1) : Tail(wire[i])[k] = wire[i][k + 1]
        BY <1>0, <3>4, RequestSeq
      <4>3. (Len(wire[i]) - 1) + 1 = Len(wire[i])
        BY <1>0
      <4> QED
        <5> SUFFICES ASSUME answer[i] = "due"
                     PROVE  wire'[i][Len(wire[i]) - 1] = wire[i][Len(wire[i])]
          BY <3>2
        <5>1. Tail(wire[i])[Len(wire[i]) - 1] = wire[i][(Len(wire[i]) - 1) + 1]
          BY <4>1, <4>2
        <5> QED
          BY <3>2, <4>3, <5>1
    <3>6. DeletesAll(i)'
      BY <1>0, <3>1, <3>5 DEF DeletesAll, Pending
    <3>7. LeavesNothing(i)'
      BY <1>0, <2>2, <3>1, <3>4 DEF LeavesNothing, Deleted
    <3> QED
      BY <3>3, <3>6, <3>7 DEF Orderly
  <2> QED
    BY <2>1, <2>2
<1> QED
  BY <1>1, <1>2, <1>3, <1>4, <1>5, <1>6, <1>7, <1>8, <1>9 DEF Instance

\* Time disturbs no one: what grows older is not what a deregistration sends.
LEMMA LeaveTick ==
  ASSUME LeaveInv, Tick, NEW i \in Instances
  PROVE  Orderly(i)'
<1>0. /\ TypeOK /\ Publishes(i) /\ DeletesAll(i) /\ LeavesNothing(i) /\ Asking(i)
      /\ wire[i] \in Seq(Request)
  BY DEF LeaveInv, Inv, TypeOK, Orderly
<1>1. UNCHANGED <<phase, todo, answer, channels, unclean>> /\ wire'[i] = Aged(wire[i])
  BY <1>0 DEF Tick
<1>2. /\ Len(wire'[i]) = Len(wire[i]) /\ Len(wire[i]) \in Nat
      /\ \A k \in 1..Len(wire[i]) : wire[i][k] \in Request /\ wire'[i][k] = Grown(wire[i][k])
  BY <1>0, <1>1, AgedType
<1>3. \A k \in 1..Len(wire[i]) : /\ wire'[i][k].op = wire[i][k].op
                                 /\ wire'[i][k].subject = wire[i][k].subject
                                 /\ wire[i][k].op # "put" => wire'[i][k] = wire[i][k]
  BY <1>2, GrownType
<1>4. Publishes(i)'
  BY <1>0, <1>1, <1>2, <1>3 DEF Publishes, OwnOnly
<1>5. DeletesAll(i)'
  <2> SUFFICES ASSUME phase[i] = "leaving", answer[i] = "due"
               PROVE  wire'[i][Len(wire[i])] = Head(todo[i])
    BY <1>0, <1>1, <1>2 DEF DeletesAll, Pending
  <2>1. Len(wire[i]) \in 1..Len(wire[i])
    BY <1>0, <1>2, RequestSeq DEF Asking
  <2>2. Head(todo[i]).op # "put" /\ wire[i][Len(wire[i])] = Head(todo[i])
    <3>1. Head(todo[i]) = todo[i][1] /\ 1 \in 1..Len(todo[i])
      BY <1>0, RequestSeq DEF Asking, TypeOK
    <3> QED
      BY <1>0, <3>1 DEF DeletesAll
  <2> QED
    BY <1>3, <2>1, <2>2
<1>6. LeavesNothing(i)'
  <2>1. services[i] = None => services'[i] = None
    BY DEF Tick, Expire
  <2> QED
    BY <1>0, <1>1, <1>2, <2>1 DEF LeavesNothing, Deleted, Pending
<1> QED
  BY <1>4, <1>5, <1>6 DEF Orderly

LEMMA LeaveNext == LeaveInv /\ [Next]_vars => LeaveInv'
<1> SUFFICES ASSUME LeaveInv, [Next]_vars PROVE LeaveInv'
  OBVIOUS
<1>1. Inv'
  BY InvNext DEF LeaveInv
<1>2. ASSUME NEW j \in Instances
      PROVE  Orderly(j)'
  <2>1. CASE \E i \in Instances : Instance(i)
    BY <2>1, LeaveOwn, LeaveOthers
  <2>2. CASE Tick
    BY <2>2, LeaveTick
  <2>3. CASE UNCHANGED vars
    BY <2>3, Undisturbed DEF vars, LeaveInv
  <2> QED
    BY <2>1, <2>2, <2>3 DEF Next
<1> QED
  BY <1>1, <1>2 DEF LeaveInv

\* A deregistration whose requests were all answered leaves no entry, no channel
\* and no request behind (heartbeatLoop, deregister).
THEOREM DeregistrationIsClean == Spec => []CleanLeave
<1>1. LeaveInv => CleanLeave
  <2> SUFFICES ASSUME LeaveInv, NEW i \in Instances, phase[i] = "gone", ~unclean[i]
               PROVE  services[i] = None /\ (\A s \in Subjects : channels[s] # i) /\ wire[i] = <<>>
    BY DEF CleanLeave
  <2>1. LeavesNothing(i) /\ Asking(i) /\ wire[i] \in Seq(Request) /\ todo[i] = <<>>
    BY DEF LeaveInv, Inv, TypeOK, Orderly, Asking, Busy
  <2>2. answer[i] # "due" /\ \A s \in Subjects : ~Pending(i, s)
    BY <2>1 DEF Asking, Pending
  <2> QED
    BY <2>1, <2>2, RequestSeq DEF LeavesNothing, Deleted
<1>2. Spec => []LeaveInv
  BY LeaveInit, LeaveNext, PTL DEF Spec
<1> QED
  BY <1>1, <1>2, PTL

-----------------------------------------------------------------------------
(* A live service.                                                         *)

\* How old the entry of i may tell it is, and anything of its own still on its way:
\* as many intervals as have ended since a Put of it was answered.
Bound(i) == IF acked[i] THEN 0 ELSE missed[i] + 1

\* Since the Put of its registration was answered.
Joined(i) == Live(i) \/ (phase[i] = "joining" /\ todo[i] # <<>> /\ Head(todo[i]).op # "put")

\* What a registered service makes, and has made, are Puts, at most one to go, and
\* as fresh as the last answer; the one it waits for is the last on its way.  Since
\* it joined, its entry is as fresh, and expires no earlier than that allows.
Listed(i) ==
  /\ phase[i] = "new" => wire[i] = <<>> /\ services[i] = None
  /\ Registered(i) =>
       /\ \A k \in 1..Len(todo[i]) : (k = 1 /\ todo[i][k] = Put) \/ todo[i][k].op = "putChannel"
       /\ \A k \in 1..Len(wire[i]) : \/ wire[i][k].op = "put" /\ wire[i][k].seen <= Bound(i)
                                     \/ wire[i][k].op = "putChannel"
       /\ answer[i] = "due" /\ todo[i] # <<>> /\ Head(todo[i]) = Put => wire[i][Len(wire[i])] = Put
       /\ services[i] # None => services[i].seen <= Bound(i)
  /\ Joined(i) /\ Bound(i) < TTL => services[i] # None /\ services[i].stored <= Bound(i)

ListedInv == Inv /\ \A i \in Instances : Listed(i)

\* The age of what a service has made is read off these alone.
LEMMA ListedKept ==
  ASSUME NEW j \in Instances, Listed(j),
         phase'[j] = phase[j], todo'[j] = todo[j], answer'[j] = answer[j], wire'[j] = wire[j],
         services'[j] = services[j], acked'[j] = acked[j], missed'[j] = missed[j]
  PROVE  Listed(j)'
BY DEF Listed, Joined, Live, Registered, Bound

LEMMA ListedOthers ==
  ASSUME ListedInv, NEW i \in Instances, Instance(i), NEW j \in Instances, j # i
  PROVE  Listed(j)'
<1>0. TypeOK /\ Listed(j)
  BY DEF ListedInv, Inv
<1>1. /\ phase'[j] = phase[j] /\ todo'[j] = todo[j] /\ answer'[j] = answer[j]
      /\ acked'[j] = acked[j] /\ missed'[j] = missed[j]
  <2>1. CASE \E ok \in BOOLEAN : Over(i, ok) /\ UNCHANGED missed
    BY <1>0, <2>1 DEF Over, Begin, TypeOK
  <2>2. CASE UNCHANGED <<phase, todo, answer, fired, acked, missed>>
    BY <2>2
  <2>3. CASE Register(i) \/ Beat(i) \/ Leave(i) \/ Crash(i)
    BY <1>0, <2>3 DEF Register, Beat, Leave, Crash, Begin, TypeOK
  <2>4. CASE Send(i) \/ Lose(i)
    BY <1>0, <2>4 DEF Send, Lose, TypeOK
  <2> QED
    BY <2>1, <2>2, <2>3, <2>4 DEF Instance, GiveUp, Serve, Deregister
<1>2. wire'[j] = wire[j] /\ services'[j] = services[j]
  <2>1. CASE Serve(i)
    BY <1>0, <2>1 DEF Serve, Store, TypeOK
  <2>2. CASE ~Serve(i)
    BY <1>0, <2>2 DEF Instance, Register, Send, GiveUp, Beat, Deregister, Leave, Crash, Lose, TypeOK
  <2> QED
    BY <2>1, <2>2
<1> QED
  BY <1>0, <1>1, <1>2, ListedKept

LEMMA ListedInit == Init => ListedInv
<1> SUFFICES ASSUME Init PROVE ListedInv
  OBVIOUS
<1>1. Inv
  BY InvInit
<1>2. \A i \in Instances : Listed(i)
  BY DEF Init, Listed, Joined, Live, Registered
<1> QED
  BY <1>1, <1>2 DEF ListedInv

\* The bound, as the answers and the intervals move it.
LEMMA BoundType ==
  ASSUME TypeOK, NEW i \in Instances
  PROVE  Bound(i) \in 0..(TTL + 1) /\ (~acked[i] => Bound(i) = missed[i] + 1)
BY MeshAssumption DEF TypeOK, Bound

\* The requests left when one of a registered service is over.
LEMMA OverListed ==
  ASSUME ListedInv, NEW i \in Instances, NEW ok \in BOOLEAN, todo[i] # <<>>, Over(i, ok)
  PROVE  /\ answer'[i] = "none"
         /\ acked'[i] = (acked[i] \/ (ok /\ Head(todo[i]).op = "put"))
         /\ phase'[i] # "new"
         /\ Registered(i)' =>
              /\ Registered(i)
              /\ \A k \in 1..Len(todo'[i]) : todo'[i][k].op = "putChannel"
              /\ Joined(i)' => Joined(i) \/ (ok /\ Head(todo[i]) = Put)
<1>0. /\ TypeOK /\ Listed(i) /\ phase[i] \in Busy
      /\ todo[i] \in Seq(Request)
  BY DEF ListedInv, Inv, TypeOK, Asking
<1>1. /\ phase'[i] = After(i, ok) /\ todo'[i] = Remaining(i, ok) /\ answer'[i] = "none"
      /\ acked'[i] = (acked[i] \/ (ok /\ Head(todo[i]).op = "put"))
  BY <1>0 DEF Over, Begin, TypeOK
<1>2. /\ Len(todo[i]) \in Nat /\ Len(todo[i]) # 0 /\ Head(todo[i]) = todo[i][1]
      /\ Len(Tail(todo[i])) = Len(todo[i]) - 1
      /\ \A k \in 1..(Len(todo[i]) - 1) : Tail(todo[i])[k] = todo[i][k + 1]
  BY <1>0, RequestSeq
<1>3. CASE Refused(i, ok)
  <2>1. phase'[i] = "refused"
    BY <1>1, <1>3 DEF After, Remaining, Refused
  <2> QED
    BY <1>1, <2>1 DEF Registered
<1>4. CASE ~Refused(i, ok)
  <2>1. todo'[i] = Tail(todo[i])
    BY <1>1, <1>4 DEF Remaining
  <2>2. phase'[i] = IF Tail(todo[i]) # <<>> THEN phase[i]
                    ELSE IF phase[i] = "leaving" THEN "gone" ELSE "running"
    BY <1>1, <1>4 DEF After, Remaining
  <2>3. Registered(i)' => phase[i] \in {"joining", "beating"}
    BY <1>0, <2>2 DEF Registered, Busy
  <2>4. Registered(i)' => \A k \in 1..Len(todo'[i]) : todo'[i][k].op = "putChannel"
    <3> SUFFICES ASSUME Registered(i)', NEW k \in 1..(Len(todo[i]) - 1)
                 PROVE  Tail(todo[i])[k].op = "putChannel"
      BY <1>2, <2>1
    <3>1. k + 1 \in 1..Len(todo[i]) /\ k + 1 # 1
      BY <1>2
    <3>2. todo[i][k + 1].op = "putChannel"
      BY <1>0, <2>3, <3>1 DEF Listed, Registered
    <3> QED
      BY <1>2, <3>2
  <2>5. phase[i] \in {"joining", "beating"} => Joined(i) \/ (ok /\ Head(todo[i]) = Put)
    <3>1. CASE phase[i] = "beating"
      BY <3>1 DEF Joined, Live
    <3>2. CASE phase[i] = "joining" /\ Head(todo[i]).op = "put"
      <4>1. ok
        BY <1>4, <3>2 DEF Refused
      <4>2. 1 \in 1..Len(todo[i]) /\ todo[i][1].op # "putChannel"
        BY <1>2, <3>2
      <4>3. todo[i][1] = Put
        BY <1>0, <3>2, <4>2 DEF Listed, Registered
      <4> QED
        BY <1>2, <4>1, <4>3
    <3>3. CASE phase[i] = "joining" /\ Head(todo[i]).op # "put"
      BY <3>3 DEF Joined
    <3> QED
      BY <3>1, <3>2, <3>3
  <2>6. Registered(i)' => Registered(i)
    BY <2>3 DEF Registered
  <2>7. phase'[i] # "new"
    BY <1>0, <2>2 DEF Busy
  <2> QED
    BY <1>1, <2>3, <2>4, <2>5, <2>6, <2>7
<1> QED
  BY <1>3, <1>4

LEMMA ListedServe ==
  ASSUME ListedInv, NEW i \in Instances, Serve(i)
  PROVE  Listed(i)'
<1> DEFINE r == Head(wire[i])
<1>0. /\ TypeOK /\ Inv /\ Listed(i) /\ Asking(i)
      /\ wire[i] \in Seq(Request) /\ wire[i] # <<>> /\ todo[i] \in Seq(Request)
  BY DEF ListedInv, Inv, TypeOK, Serve
<1>1. /\ Len(wire[i]) \in Nat /\ Len(wire[i]) # 0 /\ r = wire[i][1] /\ r \in Request
      /\ Len(Tail(wire[i])) = Len(wire[i]) - 1
      /\ \A k \in 1..(Len(wire[i]) - 1) : Tail(wire[i])[k] = wire[i][k + 1]
  BY <1>0, RequestSeq
<1>2. wire'[i] = Tail(wire[i]) /\ missed'[i] = missed[i] /\ Store(i, r)
  BY <1>0 DEF Serve, TypeOK
<1>3. services'[i] = IF r.op = "put" THEN [stored |-> 0, seen |-> r.seen]
                     ELSE IF r.op = "delete" THEN None ELSE services[i]
  BY <1>0, <1>2 DEF Store, TypeOK
<1>4. phase[i] # "new"
  BY <1>0 DEF Listed
<1>5. [stored |-> 0, seen |-> r.seen] # None
  BY <1>1, MeshAssumption DEF Request
<1>6. Registered(i) => (r.op = "put" /\ r.seen <= Bound(i)) \/ r.op = "putChannel"
  <2>1. 1 \in 1..Len(wire[i])
    BY <1>1
  <2> QED
    BY <1>0, <1>1, <2>1 DEF Listed
<1>7. Registered(i) => \A k \in 1..Len(wire'[i]) : \/ wire'[i][k].op = "put" /\ wire'[i][k].seen <= Bound(i)
                                                  \/ wire'[i][k].op = "putChannel"
  <2> SUFFICES ASSUME Registered(i), NEW k \in 1..(Len(wire[i]) - 1)
               PROVE  \/ wire'[i][k].op = "put" /\ wire'[i][k].seen <= Bound(i)
                      \/ wire'[i][k].op = "putChannel"
    BY <1>1, <1>2
  <2>1. k + 1 \in 1..Len(wire[i]) /\ wire'[i][k] = wire[i][k + 1]
    BY <1>1, <1>2
  <2> QED
    BY <1>0, <2>1 DEF Listed
<1>8. Registered(i) => (services'[i] # None => services'[i].seen <= Bound(i))
  BY <1>0, <1>3, <1>6 DEF Listed
<1>9. Joined(i) => Registered(i)
  BY DEF Joined, Live, Registered
<1>10. Joined(i) /\ Bound(i) < TTL => services'[i] # None /\ services'[i].stored <= Bound(i)
  <2> SUFFICES ASSUME Joined(i), Bound(i) < TTL
               PROVE  services'[i] # None /\ services'[i].stored <= Bound(i)
    OBVIOUS
  <2>1. services[i] # None /\ services[i].stored <= Bound(i) /\ 0 <= Bound(i)
    BY <1>0, BoundType DEF Listed
  <2> QED
    BY <1>3, <1>5, <1>6, <1>9, <2>1
<1>11. CASE ~(answer[i] = "due" /\ Len(wire[i]) = 1)
  <2>1. phase'[i] = phase[i] /\ todo'[i] = todo[i] /\ answer'[i] = answer[i] /\ acked'[i] = acked[i]
    BY <1>11 DEF Serve
  <2>2. Bound(i)' = Bound(i) /\ (Registered(i)' <=> Registered(i)) /\ (Joined(i)' <=> Joined(i))
    BY <1>2, <2>1 DEF Bound, Joined, Live, Registered
  <2>3. answer[i] = "due" => wire'[i][Len(wire'[i])] = wire[i][Len(wire[i])]
    <3> SUFFICES ASSUME answer[i] = "due" PROVE wire'[i][Len(wire'[i])] = wire[i][Len(wire[i])]
      OBVIOUS
    <3>1. Len(wire[i]) - 1 \in 1..(Len(wire[i]) - 1) /\ (Len(wire[i]) - 1) + 1 = Len(wire[i])
      <4>1. Len(wire[i]) \in Nat /\ Len(wire[i]) # 0 /\ Len(wire[i]) # 1
        BY <1>1, <1>11
      <4>2. \A n \in Nat : n # 0 /\ n # 1 => n - 1 \in 1..(n - 1) /\ (n - 1) + 1 = n
        OBVIOUS
      <4> QED
        BY <4>1, <4>2, Zenon
    <3>2. wire'[i][Len(wire[i]) - 1] = wire[i][(Len(wire[i]) - 1) + 1]
      BY <1>1, <1>2, <3>1
    <3> QED
      BY <1>1, <1>2, <3>1, <3>2
  <2>4. /\ \A k \in 1..Len(todo[i]) : (k = 1 /\ todo[i][k] = Put) \/ todo[i][k].op = "putChannel"
        /\ answer[i] = "due" /\ todo[i] # <<>> /\ Head(todo[i]) = Put => wire[i][Len(wire[i])] = Put
        \/ ~Registered(i)
    BY <1>0 DEF Listed
  <2>5. phase'[i] # "new"
    BY <1>4, <2>1
  <2> QED
    BY <1>7, <1>8, <1>10, <2>1, <2>2, <2>3, <2>4, <2>5 DEF Listed
<1>12. CASE answer[i] = "due" /\ Len(wire[i]) = 1
  <2>1. todo[i] # <<>> /\ Over(i, TRUE)
    BY <1>0, <1>12 DEF Serve, Asking
  <2>2. /\ answer'[i] = "none" /\ phase'[i] # "new"
        /\ acked'[i] = (acked[i] \/ Head(todo[i]).op = "put")
        /\ Registered(i)' =>
              /\ Registered(i)
              /\ \A k \in 1..Len(todo'[i]) : todo'[i][k].op = "putChannel"
              /\ Joined(i)' => Joined(i) \/ Head(todo[i]) = Put
    BY <2>1, OverListed
  <2>3. Len(wire'[i]) = 0
    BY <1>1, <1>2, <1>12
  <2>4. (Joined(i) => Registered(i)) /\ (Joined(i) => Registered(i))'
    BY DEF Joined, Live, Registered
  <2>5. CASE ~Registered(i)'
    BY <2>2, <2>4, <2>5 DEF Listed
  <2>6. CASE Registered(i)' /\ Head(todo[i]) = Put
    <3>1. r = Put
      BY <1>0, <1>1, <1>12, <2>1, <2>2, <2>6 DEF Listed
    <3>2. services'[i] = [stored |-> 0, seen |-> 0] /\ services'[i] # None
      BY <1>3, <1>5, <3>1 DEF Put
    <3>4. acked'[i]
      <4>1. Head(todo[i]).op = "put"
        BY <2>6 DEF Put
      <4> QED
        BY <2>2, <4>1, Zenon
    <3>3. Bound(i)' = 0
      BY <3>4 DEF Bound
    <3> QED
      BY <2>2, <2>3, <2>6, <3>2, <3>3 DEF Listed
  <2>7. CASE Registered(i)' /\ Head(todo[i]) # Put
    <3>1. Head(todo[i]).op # "put"
      <4>1. Head(todo[i]) = todo[i][1] /\ 1 \in 1..Len(todo[i])
        BY <1>0, <2>1, RequestSeq
      <4> QED
        BY <1>0, <2>2, <2>7, <4>1 DEF Listed
    <3>2. Bound(i)' = Bound(i)
      BY <1>2, <2>2, <3>1 DEF Bound
    <3> QED
      BY <1>8, <1>10, <2>2, <2>3, <2>7, <3>2 DEF Listed
  <2> QED
    BY <2>5, <2>6, <2>7
<1> QED
  BY <1>11, <1>12

\* An instance's own steps.
LEMMA ListedOwn ==
  ASSUME ListedInv, NEW i \in Instances, Instance(i)
  PROVE  Listed(i)'
<1>0. /\ TypeOK /\ Inv /\ Asking(i) /\ Listed(i)
      /\ wire[i] \in Seq(Request) /\ todo[i] \in Seq(Request) /\ Len(wire[i]) \in Nat
  BY DEF ListedInv, Inv, TypeOK
<1>1. (Joined(i) => Registered(i)) /\ (Joined(i) => Registered(i))'
  BY DEF Joined, Live, Registered
<1>2. CASE Register(i)
  <2>1. /\ phase[i] = "new" /\ phase'[i] = "joining"
        /\ todo'[i] = <<Put>> \o ForEach(PutChannel, Owned[i])
        /\ UNCHANGED <<answer, wire, services, acked, missed>>
    BY <1>0, <1>2 DEF Register, Begin, TypeOK
  <2>2. /\ \A k \in 1..Len(todo'[i]) : (k = 1 /\ todo'[i][k] = Put) \/ todo'[i][k].op = "putChannel"
        /\ Head(todo'[i]) = Put
    <3> DEFINE ps == ForEach(PutChannel, Owned[i])
    <3>1. ps \in Seq(Request) /\ Put \in Request /\ \A k \in 1..Len(ps) : ps[k].op = "putChannel"
      <4>1. Put \in Request
        BY MeshAssumption DEF Put, Request
      <4>2. DOMAIN Owned[i] = 1..Len(Owned[i]) /\ ps \in Seq(Request) /\ Len(ps) = Len(Owned[i])
        BY ForEachType, MeshAssumption
      <4> QED
        BY <4>1, <4>2 DEF ForEach, PutChannel
    <3> HIDE DEF ps
    <3>2. /\ Len(ps) \in Nat /\ Len(<<Put>> \o ps) = Len(ps) + 1 /\ (<<Put>> \o ps)[1] = Put
          /\ \A k \in 1..Len(ps) : (<<Put>> \o ps)[k + 1] = ps[k]
          /\ <<Put>> \o ps \in Seq(Request) \ {<<>>}
      BY <3>1, RequestSeq
    <3>3. Head(<<Put>> \o ps) = Put
      BY <3>2, RequestSeq
    <3>4. ASSUME NEW k \in 1..(Len(ps) + 1), k # 1 PROVE (<<Put>> \o ps)[k].op = "putChannel"
      <4>1. k - 1 \in 1..Len(ps) /\ (k - 1) + 1 = k
        BY <3>2, <3>4
      <4> QED
        BY <3>1, <3>2, <4>1
    <3> QED
      BY <2>1, <3>2, <3>3, <3>4 DEF ps
  <2>3. wire[i] = <<>> /\ services[i] = None
    BY <1>0, <2>1 DEF Listed
  <2>4. answer[i] = "none"
    BY <1>0, <2>1 DEF Asking, Busy, TypeOK
  <2>5. ~Joined(i)'
    BY <2>1, <2>2 DEF Joined, Live, Put
  <2> QED
    BY <2>1, <2>2, <2>3, <2>4, <2>5 DEF Listed
<1>3. CASE Send(i)
  <2>1. /\ todo[i] # <<>> /\ wire'[i] = Append(wire[i], Head(todo[i]))
        /\ UNCHANGED <<phase, todo, services, acked, missed>>
    BY <1>0, <1>3 DEF Send, TypeOK
  <2>2. /\ Len(wire'[i]) = Len(wire[i]) + 1
        /\ \A k \in 1..Len(wire[i]) : wire'[i][k] = wire[i][k]
        /\ wire'[i][Len(wire[i]) + 1] = Head(todo[i])
        /\ Head(todo[i]) = todo[i][1] /\ 1 \in 1..Len(todo[i])
    BY <1>0, <2>1, RequestSeq
  <2>3. /\ Bound(i)' = Bound(i) /\ (Registered(i)' <=> Registered(i)) /\ (Joined(i)' <=> Joined(i))
        /\ 0 <= Bound(i)
    BY <1>0, <2>1, BoundType DEF Bound, Joined, Live, Registered
  <2>4. Registered(i) => (Head(todo[i]).op = "put" /\ Head(todo[i]).seen <= Bound(i))
                         \/ Head(todo[i]).op = "putChannel"
    BY <1>0, <2>2, <2>3 DEF Listed, Put
  <2>5. \A k \in 1..Len(wire'[i]) : k \in 1..Len(wire[i]) \/ k = Len(wire[i]) + 1
    BY <1>0, <2>2
  <2>6. ASSUME Registered(i), NEW k \in 1..Len(wire'[i])
        PROVE  (wire'[i][k].op = "put" /\ wire'[i][k].seen <= Bound(i)) \/ wire'[i][k].op = "putChannel"
    <3>1. CASE k \in 1..Len(wire[i])
      <4>1. (wire[i][k].op = "put" /\ wire[i][k].seen <= Bound(i)) \/ wire[i][k].op = "putChannel"
        BY <1>0, <2>6, <3>1 DEF Listed
      <4> QED
        BY <2>2, <3>1, <4>1
    <3>2. CASE k = Len(wire[i]) + 1
      BY <2>2, <2>4, <2>6, <3>2
    <3> QED
      BY <2>5, <3>1, <3>2
  <2>7. phase[i] # "new"
    BY <1>0, <2>1 DEF Asking, Busy
  <2>8. Head(todo[i]) = Put => wire'[i][Len(wire'[i])] = Put
    BY <2>2
  <2> QED
    BY <1>0, <2>1, <2>3, <2>6, <2>7, <2>8 DEF Listed
<1>4. CASE GiveUp(i)
  <2>1. todo[i] # <<>> /\ Over(i, FALSE) /\ UNCHANGED <<wire, services, missed>>
    BY <1>0, <1>4 DEF GiveUp, Asking, Busy
  <2>2. /\ answer'[i] = "none" /\ phase'[i] # "new" /\ acked'[i] = acked[i]
        /\ Registered(i)' =>
              /\ Registered(i)
              /\ \A k \in 1..Len(todo'[i]) : todo'[i][k].op = "putChannel"
              /\ Joined(i)' => Joined(i)
    BY <1>0, <2>1, OverListed DEF TypeOK
  <2>3. Bound(i)' = Bound(i)
    BY <2>1, <2>2 DEF Bound
  <2> QED
    BY <1>0, <1>1, <2>1, <2>2, <2>3 DEF Listed
<1>5. CASE Beat(i)
  <2>1. /\ phase[i] = "running" /\ phase'[i] = "beating" /\ todo'[i] = <<Put>>
        /\ UNCHANGED <<answer, wire, services, acked, missed>>
    BY <1>0, <1>5 DEF Beat, Begin, TypeOK
  <2>2. answer[i] = "none"
    BY <1>0, <2>1 DEF Asking, Busy, TypeOK
  <2>3. Bound(i)' = Bound(i) /\ Registered(i) /\ Joined(i)
    BY <2>1 DEF Bound, Registered, Joined, Live
  <2>4. Len(<<Put>>) = 1 /\ <<Put>>[1] = Put
    OBVIOUS
  <2> QED
    BY <1>0, <2>1, <2>2, <2>3, <2>4 DEF Listed
<1>6. CASE Deregister(i)
  BY <1>0, <1>6, ListedKept DEF Deregister
<1>7. CASE Leave(i) \/ Crash(i)
  <2>1. phase'[i] \in {"leaving", "crashed"}
    BY <1>0, <1>7 DEF Leave, Crash, Begin, TypeOK
  <2> QED
    BY <1>1, <2>1 DEF Listed, Registered
<1>8. CASE Lose(i)
  <2>1. PICK n \in 0..(Len(wire[i]) - 1) : wire' = [wire EXCEPT ![i] = SubSeq(wire[i], 1, n)]
    BY <1>8 DEF Lose
  <2>2. /\ Len(wire'[i]) = n
        /\ \A k \in 1..n : wire'[i][k] = wire[i][k] /\ k \in 1..Len(wire[i])
    <3>1. n \in 0..Len(wire[i])
      BY <1>0
    <3> QED
      BY <1>0, <2>1, <3>1, PrefixType DEF TypeOK
  <2>3. /\ answer'[i] # "due" /\ UNCHANGED <<phase, todo, services, acked, missed>>
    BY <1>0, <1>8 DEF Lose, TypeOK
  <2>4. Bound(i)' = Bound(i) /\ (Registered(i)' <=> Registered(i)) /\ (Joined(i)' <=> Joined(i))
    BY <2>3 DEF Bound, Joined, Live, Registered
  <2>5. phase[i] # "new"
    <3>1. CASE phase[i] = "new"
      <4>1. Len(wire[i]) = 0
        BY <1>0, <3>1, RequestSeq DEF Listed
      <4> QED
        BY <2>1, <4>1
    <3> QED
      BY <3>1
  <2> QED
    BY <1>0, <2>2, <2>3, <2>4, <2>5 DEF Listed
<1>9. CASE Serve(i)
  BY <1>9, ListedServe
<1> QED
  BY <1>2, <1>3, <1>4, <1>5, <1>6, <1>7, <1>8, <1>9 DEF Instance

\* At the end of an interval everything is an interval older, and so is the bound.
LEMMA ListedTick ==
  ASSUME ListedInv, Tick, NEW i \in Instances
  PROVE  Listed(i)'
<1>0. /\ TypeOK /\ Asking(i) /\ Listed(i) /\ Punctual(i)
      /\ wire[i] \in Seq(Request) /\ todo[i] \in Seq(Request)
      /\ TTL \in Nat /\ 1 < TTL /\ missed[i] \in 0..TTL
      /\ services[i] \in Entry \cup {None}
  BY MeshAssumption DEF ListedInv, Inv, TypeOK, Tick
<1>1. /\ phase'[i] = phase[i] /\ todo'[i] = todo[i] /\ answer'[i] = answer[i]
      /\ services'[i] = Expire(services[i]) /\ wire'[i] = Aged(wire[i])
      /\ missed'[i] = (IF acked[i] \/ ~Registered(i) THEN 0 ELSE Older(missed[i]))
      /\ acked'[i] = FALSE
  BY <1>0 DEF Tick
<1>2. /\ (Registered(i)' <=> Registered(i)) /\ (Joined(i)' <=> Joined(i))
      /\ (Joined(i) => Registered(i))
  BY <1>1 DEF Joined, Live, Registered
<1>3. Bound(i) \in 0..(TTL + 1)
  BY <1>0, BoundType
<1>4. Registered(i) => /\ Bound(i)' \in 0..(TTL + 1)
                       /\ Bound(i)' = Bound(i) + 1 \/ (Bound(i) = TTL + 1 /\ Bound(i)' = TTL + 1)
  BY <1>0, <1>1 DEF Bound, Older
<1>5. Registered(i) => \A n \in 0..TTL : n <= Bound(i) => Older(n) <= Bound(i)'
  BY <1>0, <1>3, <1>4 DEF Older
<1>6. CASE ~Registered(i)
  <2>1. wire[i] = <<>> => wire'[i] = <<>>
    BY <1>1 DEF Aged
  <2>2. services[i] = None => services'[i] = None
    BY <1>1 DEF Expire
  <2> QED
    BY <1>0, <1>1, <1>2, <1>6, <2>1, <2>2 DEF Listed
<1>7. CASE Registered(i)
  <2>1. ~(todo[i] # <<>> /\ Head(todo[i]) = Put)
    BY <1>0 DEF Punctual, Put
  <2>2. ASSUME NEW k \in 1..Len(wire'[i])
        PROVE  (wire'[i][k].op = "put" /\ wire'[i][k].seen <= Bound(i)') \/ wire'[i][k].op = "putChannel"
    <3>1. k \in 1..Len(wire[i]) /\ wire'[i][k] = Grown(wire[i][k])
      BY <1>0, <1>1, AgedType
    <3>2. wire[i][k] \in Request
      BY <1>0, <3>1
    <3>3. CASE wire[i][k].op = "put" /\ wire[i][k].seen <= Bound(i)
      <4>1. wire[i][k].seen \in 0..TTL
        BY <3>2 DEF Request
      <4>2. Older(wire[i][k].seen) <= Bound(i)'
        BY <1>5, <1>7, <3>3, <4>1
      <4>3. Grown(wire[i][k]).seen = Older(wire[i][k].seen) /\ Grown(wire[i][k]).op = "put"
        BY <3>2, <3>3 DEF Grown, Request
      <4> QED
        BY <3>1, <4>2, <4>3
    <3>4. CASE wire[i][k].op = "putChannel"
      BY <3>1, <3>2, <3>4, GrownType
    <3> QED
      BY <1>0, <1>7, <3>1, <3>3, <3>4 DEF Listed
  <2>3. services'[i] # None => services'[i].seen <= Bound(i)'
    <3> SUFFICES ASSUME services'[i] # None PROVE services'[i].seen <= Bound(i)'
      OBVIOUS
    <3>1. services[i] # None /\ services'[i].seen = Older(services[i].seen)
      BY <1>1 DEF Expire
    <3>2. services[i].seen \in 0..TTL /\ services[i].seen <= Bound(i)
      BY <1>0, <1>7, <3>1 DEF Entry, Listed
    <3> QED
      BY <1>5, <1>7, <3>1, <3>2
  <2>4. ASSUME Joined(i), Bound(i)' < TTL
        PROVE  services'[i] # None /\ services'[i].stored <= Bound(i)'
    <3>1. Bound(i)' = Bound(i) + 1 /\ Bound(i) < TTL
      BY <1>0, <1>3, <1>4, <1>7, <2>4
    <3>2. services[i] # None /\ services[i].stored <= Bound(i) /\ services[i] \in Entry
      BY <1>0, <2>4, <3>1 DEF Listed
    <3>3. services[i].stored \in 0..(TTL - 1) /\ services[i].seen \in 0..TTL
      BY <3>2 DEF Entry
    <3>4. services[i].stored + 1 # TTL
      BY <1>0, <1>3, <2>4, <3>1, <3>2, <3>3
    <3>5. services'[i] = [stored |-> services[i].stored + 1, seen |-> Older(services[i].seen)]
      BY <1>1, <3>2, <3>4 DEF Expire
    <3>6. services[i].stored + 1 \in 0..(TTL - 1)
      <4>1. \A n \in 0..(TTL - 1) : n + 1 # TTL => n + 1 \in 0..(TTL - 1)
        BY <1>0
      <4> QED
        BY <3>3, <3>4, <4>1, Zenon
    <3>7. Older(services[i].seen) \in 0..TTL
      BY <1>0, <3>3 DEF Older
    <3>8. services'[i] # None
      BY <3>5, <3>6, <3>7, MeshAssumption
    <3>9. services'[i].stored <= Bound(i)'
      <4>1. services'[i].stored = services[i].stored + 1
        BY <3>5
      <4> QED
        BY <1>3, <3>1, <3>2, <3>3, <4>1
    <3> QED
      BY <3>8, <3>9
  <2>5. phase[i] # "new"
    BY <1>7 DEF Registered
  <2> QED
    BY <1>0, <1>1, <1>2, <1>7, <2>1, <2>2, <2>3, <2>4, <2>5 DEF Listed
<1> QED
  BY <1>6, <1>7

\* A service whose heartbeats are answered is healthy, and one that misses some stays
\* listed until it has missed as many as the TTL allows, whatever its late requests do
\* (sendHeartbeat, ServiceTTL, computeStatus).
THEOREM LiveStaysListed == Spec => []LiveIsListed
<1>1. ListedInv => LiveIsListed
  <2> SUFFICES ASSUME ListedInv, NEW i \in Instances, Live(i)
               PROVE  /\ missed[i] + 1 < Stale => Status(i) = "healthy"
                      /\ missed[i] + 1 < TTL   => services[i] # None /\ services[i].seen <= missed[i] + 1
    BY DEF LiveIsListed
  <2>1. /\ TypeOK /\ Listed(i) /\ Joined(i) /\ Registered(i)
        /\ missed[i] \in 0..TTL /\ services[i] \in Entry \cup {None}
        /\ Stale \in Nat /\ TTL \in Nat /\ Stale < TTL
    BY MeshAssumption DEF ListedInv, Inv, TypeOK, Joined, Live, Registered
  <2>2. Bound(i) <= missed[i] + 1 /\ Bound(i) \in Nat
    BY <2>1 DEF Bound
  <2>3. ASSUME missed[i] + 1 < TTL
        PROVE  services[i] # None /\ services[i].seen <= missed[i] + 1
    <3>1. Bound(i) < TTL
      BY <2>1, <2>2, <2>3
    <3>2. services[i] # None /\ services[i].seen <= Bound(i) /\ services[i].seen \in Nat
      BY <2>1, <3>1 DEF Listed, Entry
    <3> QED
      BY <2>1, <2>2, <3>2
  <2>4. ASSUME missed[i] + 1 < Stale
        PROVE  Status(i) = "healthy"
    <3>1. missed[i] + 1 < TTL
      BY <2>1, <2>4
    <3>2. services[i] # None /\ services[i].seen <= missed[i] + 1 /\ services[i].seen \in Nat
      BY <2>1, <2>3, <3>1 DEF Entry
    <3>3. services[i].seen < Stale
      BY <2>1, <2>4, <3>2
    <3> QED
      BY <3>2, <3>3 DEF Status
  <2> QED
    BY <2>3, <2>4
<1>2. ListedInv /\ [Next]_vars => ListedInv'
  <2> SUFFICES ASSUME ListedInv, [Next]_vars PROVE ListedInv'
    OBVIOUS
  <2>1. Inv'
    BY InvNext DEF ListedInv
  <2>2. ASSUME NEW j \in Instances
        PROVE  Listed(j)'
    <3>1. CASE \E i \in Instances : Instance(i)
      BY <3>1, ListedOwn, ListedOthers
    <3>2. CASE Tick
      BY <3>2, ListedTick
    <3>3. CASE UNCHANGED vars
      BY <3>3, ListedKept DEF vars, ListedInv
    <3> QED
      BY <3>1, <3>2, <3>3 DEF Next
  <2> QED
    BY <2>1, <2>2 DEF ListedInv
<1> QED
  BY <1>1, <1>2, ListedInit, PTL DEF Spec

-----------------------------------------------------------------------------
(* Watchers.                                                               *)

(* The last place of a sequence in a set of places. *)

LEMMA LeastOf ==
  ASSUME NEW T, T \subseteq Nat, T # {}
  PROVE  \E x \in T : \A y \in T : x <= y
<1>1. IsWellFoundedOn(OpToRel(<, Nat), Nat)
  BY NatLessThanWellFounded
<1>2. \E x \in T : \A y \in T : <<y, x>> \notin OpToRel(<, Nat)
  BY <1>1, WFMin
<1>3. PICK x \in T : \A y \in T : ~ (y < x)
  BY <1>2 DEF OpToRel
<1>4. \A y \in T : x <= y
  BY <1>3
<1> QED
  BY <1>4

LEMMA MaxIs ==
  ASSUME NEW n \in Nat, NEW S, \A i \in S : i \in 1..n, S # {}
  PROVE  Max(S) \in S /\ \A i \in S : i <= Max(S)
<1> DEFINE T == {n - i : i \in S}
<1>1. T \subseteq Nat /\ T # {}
  OBVIOUS
<1>2. PICK d \in T : \A e \in T : d <= e
  BY <1>1, LeastOf
<1>3. PICK m \in S : d = n - m
  BY <1>2
<1>4. \A i \in S : m >= i
  <2> TAKE i \in S
  <2>1. d <= n - i
    BY <1>2
  <2>2. m \in 1..n /\ i \in 1..n
    OBVIOUS
  <2> QED
    BY <1>3, <2>1, <2>2
<1>5. Max(S) \in S /\ \A i \in S : Max(S) >= i
  BY <1>3, <1>4 DEF Max
<1>6. \A i \in S : i \in Int
  OBVIOUS
<1> QED
  BY <1>5, <1>6

LEMMA MaxOnly ==
  ASSUME NEW n \in Nat, NEW S, \A i \in S : i \in 1..n, NEW m \in S, \A i \in S : i <= m
  PROVE  Max(S) = m
<1>1. Max(S) \in S /\ m <= Max(S) /\ Max(S) <= m
  <2>1. Max(S) \in S /\ \A i \in S : i <= Max(S)
    BY MaxIs
  <2> QED
    BY <2>1
<1> QED
  BY <1>1

\* What v says last, of the places in S: what it says at the last of them, or x if
\* there is none.
Final(v, S, x) == IF S = {} THEN x ELSE v[Max(S)]

\* One more place, at the end.
Grows(n, S, v, w) ==
  n \in Nat /\ (\A i \in S : i \in 1..n) /\ \A i \in 1..n : w[i] = v[i]

LEMMA FinalGrows ==
  ASSUME NEW n, NEW S, NEW v, NEW w, Grows(n, S, v, w), NEW x
  PROVE  /\ Final(w, S, x) = Final(v, S, x)
         /\ Final(w, S \cup {n + 1}, x) = w[n + 1]
<1>0. n \in Nat /\ (\A i \in S : i \in 1..n) /\ \A i \in 1..n : w[i] = v[i]
  BY DEF Grows
<1>1. S # {} => Max(S) \in 1..n
  BY <1>0, MaxIs
<1>2. Max(S \cup {n + 1}) = n + 1
  <2> DEFINE T == S \cup {n + 1}
  <2>1. /\ n + 1 \in Nat /\ (\A i \in T : i \in 1..n + 1) /\ n + 1 \in T
        /\ \A i \in T : i <= n + 1
    BY <1>0
  <2> HIDE DEF T
  <2>2. Max(T) = n + 1
    BY <2>1, MaxOnly
  <2> QED
    BY <2>2 DEF T
<1> QED
  BY <1>0, <1>1, <1>2 DEF Final

\* The first place goes: what it said is what there is without any other.
Drops(n, S, v, T, w) ==
  /\ n \in Nat \ {0} /\ (\A i \in S : i \in 1..n)
  /\ T = {i \in 1..n - 1 : i + 1 \in S} /\ \A i \in 1..n - 1 : w[i] = v[i + 1]

LEMMA FinalDrops ==
  ASSUME NEW n, NEW S, NEW v, NEW T, NEW w, Drops(n, S, v, T, w), NEW x
  PROVE  Final(v, S, x) = Final(w, T, IF 1 \in S THEN v[1] ELSE x)
<1>0. /\ n \in Nat \ {0} /\ (\A i \in S : i \in 1..n)
      /\ T = {i \in 1..n - 1 : i + 1 \in S} /\ \A i \in 1..n - 1 : w[i] = v[i + 1]
  BY DEF Drops
<1>1. n - 1 \in Nat /\ \A i \in T : i \in 1..n - 1 /\ i + 1 \in S
  BY <1>0
<1>2. CASE T = {}
  <2>1. S \subseteq {1}
    <3> SUFFICES ASSUME NEW i \in S, i # 1 PROVE FALSE
      OBVIOUS
    <3>1. i - 1 \in 1..n - 1 /\ (i - 1) + 1 = i
      BY <1>0, <1>1
    <3> QED
      BY <1>0, <1>2, <3>1
  <2>2. CASE S = {}
    BY <1>2, <2>2 DEF Final
  <2>3. CASE S = {1}
    <3>1. Max({1}) = 1
      <4>1. 1 \in Nat /\ (\A i \in {1} : i \in 1..1) /\ 1 \in {1} /\ \A i \in {1} : i <= 1
        OBVIOUS
      <4> QED
        BY <4>1, MaxOnly
    <3> QED
      BY <1>2, <2>3, <3>1 DEF Final
  <2> QED
    BY <1>0, <2>1, <2>2, <2>3
<1>3. CASE T # {}
  <2>1. Max(T) \in T /\ \A i \in T : i <= Max(T)
    BY <1>0, <1>1, <1>3, MaxIs
  <2>2. Max(T) + 1 \in S /\ Max(T) \in 1..n - 1
    BY <1>0, <1>1, <2>1
  <2>3. \A i \in S : i <= Max(T) + 1
    <3> TAKE i \in S
    <3>1. CASE i = 1
      BY <2>2, <3>1
    <3>2. CASE i # 1
      <4>1. i - 1 \in T
        BY <1>0, <1>1, <3>2
      <4>2. i - 1 <= Max(T) /\ i \in 1..n
        BY <1>0, <2>1, <4>1
      <4> QED
        BY <1>0, <1>1, <2>2, <4>2
    <3> QED
      BY <3>1, <3>2
  <2>4. Max(S) = Max(T) + 1
    BY <1>0, <1>1, <2>2, <2>3, MaxOnly
  <2>5. Max(T) \in 1..n - 1 /\ S # {}
    BY <1>0, <2>2
  <2> QED
    BY <1>0, <1>1, <1>3, <2>4, <2>5 DEF Final
<1> QED
  BY <1>2, <1>3

-----------------------------------------------------------------------------
(* What watchKV learns. *)

UpdateType == [key : Keys, entry : Descriptors \cup {"deleted"}]

\* The updates of s that watchKV acts on for k, and what each says.
Places(s, k) == {i \in DOMAIN s : /\ s[i].key = k
                                  /\ s[i].entry \in Wanted \cup {"deleted"}}
Says(u) == IF u.entry = "deleted" THEN Nil ELSE u.entry
Saying(s) == [i \in DOMAIN s |-> Says(s[i])]


LEMMA CaughtAppend ==
  ASSUME NEW s \in Seq(UpdateType), NEW u \in UpdateType, NEW k, NEW x
  PROVE  Final(Saying(Append(s, u)), Places(Append(s, u), k), x) =
           IF u.key = k /\ u.entry \in Wanted \cup {"deleted"}
           THEN Says(u) ELSE Final(Saying(s), Places(s, k), x)
<1> DEFINE n == Len(s)
           t == Append(s, u)
<1>1. /\ n \in Nat /\ DOMAIN s = 1..n /\ DOMAIN t = 1..n + 1
      /\ \A i \in 1..n : t[i] = s[i] /\ i \in 1..n + 1
      /\ t[n + 1] = u /\ n + 1 \in 1..n + 1
      /\ \A i \in 1..n + 1 : i \in 1..n \/ i = n + 1
  OBVIOUS
<1> HIDE DEF t, n
<1>2. \A i \in 1..n : Saying(t)[i] = Saying(s)[i]
  BY <1>1 DEF Saying
<1>3. Saying(t)[n + 1] = Says(u)
  BY <1>1 DEF Saying
<1>4. \A i \in Places(s, k) : i \in 1..n
  BY <1>1 DEF Places
<1>5. Places(t, k) = IF u.key = k /\ u.entry \in Wanted \cup {"deleted"}
                     THEN Places(s, k) \cup {n + 1} ELSE Places(s, k)
  BY <1>1 DEF Places
<1>6. /\ Final(Saying(t), Places(s, k), x) = Final(Saying(s), Places(s, k), x)
      /\ Final(Saying(t), Places(s, k) \cup {n + 1}, x) = Saying(t)[n + 1]
  <2> DEFINE S == Places(s, k)
             v == Saying(s)
             w == Saying(t)
  <2>1. n \in Nat /\ (\A i \in S : i \in 1..n) /\ \A i \in 1..n : w[i] = v[i]
    BY <1>1, <1>2, <1>4
  <2> HIDE DEF S, v, w
  <2>2. Grows(n, S, v, w)
    BY <2>1 DEF Grows
  <2>3. Final(w, S, x) = Final(v, S, x) /\ Final(w, S \cup {n + 1}, x) = w[n + 1]
    BY <2>2, FinalGrows
  <2> QED
    BY <2>3 DEF S, v, w
<1> QED
  BY <1>3, <1>5, <1>6 DEF t

LEMMA CaughtTail ==
  ASSUME NEW s \in Seq(UpdateType), s # <<>>, NEW k, NEW x
  PROVE  Final(Saying(s), Places(s, k), x) =
           Final(Saying(Tail(s)), Places(Tail(s), k),
                 IF Head(s).key = k /\ Head(s).entry \in Wanted \cup {"deleted"}
                 THEN Says(Head(s)) ELSE x)
<1> DEFINE n == Len(s)
           t == Tail(s)
<1>1. /\ n \in Nat \ {0} /\ DOMAIN s = 1..n /\ DOMAIN t = 1..n - 1
      /\ \A i \in 1..n - 1 : t[i] = s[i + 1] /\ i + 1 \in 1..n
      /\ Head(s) = s[1] /\ 1 \in 1..n
  OBVIOUS
<1> HIDE DEF t, n
<1>2. \A i \in 1..n - 1 : Saying(t)[i] = Saying(s)[i + 1]
  BY <1>1 DEF Saying
<1>3. Saying(s)[1] = Says(Head(s))
  BY <1>1 DEF Saying
<1>4. \A i \in Places(s, k) : i \in 1..n
  BY <1>1 DEF Places
<1>5. Places(t, k) = {i \in 1..n - 1 : i + 1 \in Places(s, k)}
  BY <1>1 DEF Places
<1>6. 1 \in Places(s, k) <=> Head(s).key = k /\ Head(s).entry \in Wanted \cup {"deleted"}
  BY <1>1 DEF Places
<1>7. Final(Saying(s), Places(s, k), x) =
        Final(Saying(t), Places(t, k), IF 1 \in Places(s, k) THEN Saying(s)[1] ELSE x)
  <2> DEFINE S == Places(s, k)
             T == Places(t, k)
             v == Saying(s)
             w == Saying(t)
  <2>1. /\ n \in Nat \ {0} /\ (\A i \in S : i \in 1..n) /\ \A i \in 1..n - 1 : w[i] = v[i + 1]
        /\ T = {i \in 1..n - 1 : i + 1 \in S}
    BY <1>1, <1>2, <1>4, <1>5
  <2> HIDE DEF S, T, v, w
  <2>2. Drops(n, S, v, T, w)
    BY <2>1 DEF Drops
  <2>3. Final(v, S, x) = Final(w, T, IF 1 \in S THEN v[1] ELSE x)
    BY <2>2, FinalDrops
  <2> QED
    BY <2>3 DEF S, T, v, w
<1> QED
  BY <1>3, <1>6, <1>7 DEF t

\* All that WatchAll delivers at first: one update for each entry of the bucket.
LEMMA CaughtFirst ==
  ASSUME NEW U \in SUBSET UpdateType, IsFiniteSet(U), NEW s \in SetToSeqs(U),
         \A u, v \in U : u.key = v.key => u = v,
         NEW k \in Keys
  PROVE  /\ s \in Seq(UpdateType)
         /\ \A u \in U : u.key = k /\ u.entry \in Wanted \cup {"deleted"}
              => Final(Saying(s), Places(s, k), Nil) = Says(u)
         /\ (\A u \in U : u.key # k) => Final(Saying(s), Places(s, k), Nil) = Nil
<1> DEFINE n == Cardinality(U)
<1>1. n \in Nat
  BY FS_CardinalityType
<1>2. s \in [1..n -> U] /\ \A i, j \in 1..n : s[i] = s[j] => i = j
  BY DEF SetToSeqs
<1>3. s \in Injection(1..n, U)
  BY <1>2 DEF Injection, IsInjective
<1>4. IsFiniteSet(1..n) /\ Cardinality(1..n) = n
  BY <1>1, FS_Interval
<1>5. s \in Surjection(1..n, U)
  BY <1>3, <1>4, FS_Injection
<1>6. \A u \in U : \E i \in 1..n : s[i] = u
  BY <1>5 DEF Surjection
<1>7. s \in Seq(UpdateType) /\ DOMAIN s = 1..n
  BY <1>1, <1>2
<1>8. ASSUME NEW u \in U, u.key = k, u.entry \in Wanted \cup {"deleted"}
      PROVE  Final(Saying(s), Places(s, k), Nil) = Says(u)
  <2>1. PICK i \in 1..n : s[i] = u
    BY <1>6
  <2>2. i \in Places(s, k)
    BY <1>7, <1>8, <2>1 DEF Places
  <2>3. \A j \in Places(s, k) : j = i
    <3> TAKE j \in Places(s, k)
    <3>1. j \in 1..n /\ s[j].key = k
      BY <1>7 DEF Places
    <3>2. s[j] \in U /\ s[j] = u
      BY <1>2, <1>8, <3>1
    <3> QED
      BY <1>2, <2>1, <3>1, <3>2
  <2>4. Places(s, k) = {i}
    BY <2>2, <2>3
  <2>5. Max({i}) = i
    <3>1. (\A j \in {i} : j \in 1..n) /\ i \in {i} /\ \A j \in {i} : j <= i
      BY <1>1
    <3> QED
      BY <1>1, <3>1, MaxOnly
  <2>6. Saying(s)[i] = Says(u)
    BY <1>7, <2>1 DEF Saying
  <2> QED
    BY <2>4, <2>5, <2>6 DEF Final
<1>9. ASSUME \A u \in U : u.key # k PROVE Final(Saying(s), Places(s, k), Nil) = Nil
  <2>1. Places(s, k) = {}
    BY <1>2, <1>7, <1>9 DEF Places
  <2> QED
    BY <2>1 DEF Final
<1> QED
  BY <1>7, <1>8, <1>9

-----------------------------------------------------------------------------
(* What the events tell. *)

EventType == [type : {"join", "update", "leave"}, key : Keys]

About(s, k)   == {i \in DOMAIN s : s[i].key = k}
Telling(s)    == [i \in DOMAIN s |-> s[i].type # "leave"]


LEMMA BelievedAppend ==
  ASSUME NEW s \in Seq(EventType), NEW e \in EventType, NEW k, NEW x
  PROVE  Final(Telling(Append(s, e)), About(Append(s, e), k), x) =
           IF e.key = k THEN e.type # "leave" ELSE Final(Telling(s), About(s, k), x)
<1> DEFINE n == Len(s)
           t == Append(s, e)
<1>1. /\ n \in Nat /\ DOMAIN s = 1..n /\ DOMAIN t = 1..n + 1
      /\ \A i \in 1..n : t[i] = s[i] /\ i \in 1..n + 1
      /\ t[n + 1] = e /\ n + 1 \in 1..n + 1
      /\ \A i \in 1..n + 1 : i \in 1..n \/ i = n + 1
  OBVIOUS
<1> DEFINE S == About(s, k)
           v == Telling(s)
           w == Telling(t)
<1> HIDE DEF t, n
<1>2. /\ \A i \in 1..n : w[i] = v[i]
      /\ w[n + 1] = (e.type # "leave")
      /\ \A i \in S : i \in 1..n
      /\ About(t, k) = IF e.key = k THEN S \cup {n + 1} ELSE S
  BY <1>1 DEF Telling, About
<1> HIDE DEF S, v, w
<1>3. Grows(n, S, v, w)
  BY <1>1, <1>2 DEF Grows
<1>4. Final(w, S, x) = Final(v, S, x) /\ Final(w, S \cup {n + 1}, x) = w[n + 1]
  BY <1>3, FinalGrows
<1> QED
  BY <1>2, <1>4 DEF t, S, v, w

LEMMA BelievedTail ==
  ASSUME NEW s \in Seq(EventType), s # <<>>, NEW k, NEW x
  PROVE  Final(Telling(s), About(s, k), x) =
           Final(Telling(Tail(s)), About(Tail(s), k),
                 IF Head(s).key = k THEN Head(s).type # "leave" ELSE x)
<1> DEFINE n == Len(s)
           t == Tail(s)
<1>1. /\ n \in Nat \ {0} /\ DOMAIN s = 1..n /\ DOMAIN t = 1..n - 1
      /\ \A i \in 1..n - 1 : t[i] = s[i + 1] /\ i + 1 \in 1..n
      /\ Head(s) = s[1] /\ 1 \in 1..n
  OBVIOUS
<1> DEFINE S == About(s, k)
           T == About(t, k)
           v == Telling(s)
           w == Telling(t)
<1> HIDE DEF t, n
<1>2. /\ \A i \in 1..n - 1 : w[i] = v[i + 1]
      /\ \A i \in S : i \in 1..n
      /\ T = {i \in 1..n - 1 : i + 1 \in S}
      /\ v[1] = (Head(s).type # "leave") /\ (1 \in S <=> Head(s).key = k)
  BY <1>1 DEF Telling, About
<1> HIDE DEF S, T, v, w
<1>3. Drops(n, S, v, T, w)
  BY <1>1, <1>2 DEF Drops
<1>4. Final(v, S, x) = Final(w, T, IF 1 \in S THEN v[1] ELSE x)
  BY <1>3, FinalDrops
<1> QED
  BY <1>2, <1>4 DEF t, S, T, v, w

-----------------------------------------------------------------------------
(* The watcher's invariant. *)

\* Only a loop that runs has updates waiting, it starts knowing nothing, and the
\* channel is closed behind the loop and the subscription.  Without announcements
\* watchKV is the only one to send.
WatcherOrder ==
  /\ closed => loop = "ended" /\ ~subscribed
  /\ loop # "on" => updates = <<>>
  /\ loop = "starting" => \A k \in Keys : known[k] = Nil
  /\ ~options.announce => ~subscribed /\ heard = <<>> /\ sending = Nil

WatcherInv == WatcherTypeOK /\ WatcherOrder /\ KnownFollows /\ EventsTell

\* Caught and Believed, in this state and in the next.
LEMMA CaughtNow ==
  ASSUME NEW k
  PROVE  /\ updates \in Seq(UpdateType) =>
              Caught(k) = Final(Saying(updates), Places(updates, k), known[k])
         /\ updates' \in Seq(UpdateType) =>
              Caught(k)' = Final(Saying(updates'), Places(updates', k), known'[k])
<1>1. ASSUME NEW s \in Seq(UpdateType), NEW x
      PROVE  LET about == {i \in DOMAIN s : s[i].key = k /\ s[i].entry \in Wanted \cup {"deleted"}}
                 last  == s[Max(about)].entry
             IN  (IF about = {} THEN x ELSE IF last = "deleted" THEN Nil ELSE last)
                   = Final(Saying(s), Places(s, k), x)
  <2> DEFINE S == Places(s, k)
  <2>1. CASE S = {}
    BY <2>1 DEF Final, Places
  <2>2. CASE S # {}
    <3>1. Max(S) \in DOMAIN s
      <4>1. Len(s) \in Nat /\ DOMAIN s = 1..Len(s)
        BY LenProperties
      <4>2. \A i \in S : i \in 1..Len(s)
        BY <4>1 DEF Places
      <4> HIDE DEF S
      <4>3. Max(S) \in S
        BY <2>2, <4>1, <4>2, MaxIs
      <4> QED
        BY <4>1, <4>2, <4>3
    <3> QED
      BY <2>2, <3>1 DEF Final, Places, Saying, Says
  <2> QED
    BY <2>1, <2>2
<1> QED
  BY <1>1 DEF Caught

LEMMA BelievedNow ==
  ASSUME NEW k
  PROVE  /\ events \in Seq(EventType) =>
              Believed(k) = Final(Telling(events), About(events, k), k \in view)
         /\ events' \in Seq(EventType) =>
              Believed(k)' = Final(Telling(events'), About(events', k), k \in view')
<1>1. ASSUME NEW s \in Seq(EventType), NEW x
      PROVE  LET about == {i \in DOMAIN s : s[i].key = k}
             IN  (IF about = {} THEN x ELSE s[Max(about)].type # "leave")
                   = Final(Telling(s), About(s, k), x)
  <2> DEFINE S == About(s, k)
  <2>1. CASE S = {}
    BY <2>1 DEF Final, About
  <2>2. CASE S # {}
    <3>1. Max(S) \in DOMAIN s
      <4>1. Len(s) \in Nat /\ DOMAIN s = 1..Len(s)
        BY LenProperties
      <4>2. \A i \in S : i \in 1..Len(s)
        BY <4>1 DEF About
      <4> HIDE DEF S
      <4>3. Max(S) \in S
        BY <2>2, <4>1, <4>2, MaxIs
      <4> QED
        BY <4>1, <4>2, <4>3
    <3> QED
      BY <2>2, <3>1 DEF Final, About, Telling
  <2> QED
    BY <2>1, <2>2
<1> QED
  BY <1>1 DEF Believed

\* The sizes of the queues, and the kinds of what is in them.
LEMMA WatcherConstants ==
  /\ Wanted \subseteq Descriptors /\ Buffer \in Nat /\ MaxNews \in Nat
  /\ "absent" \notin Descriptors /\ "deleted" \notin Descriptors /\ "expired" \notin Descriptors
  /\ Nil \notin Descriptors /\ IsFiniteSet(Keys)
  /\ \A e \in EventType : e # Nil
BY WatcherAssumption DEF EventType

LEMMA WatcherBegins == WatcherInit => WatcherInv
<1> SUFFICES ASSUME WatcherInit PROVE WatcherInv
  OBVIOUS
<1>1. WatcherTypeOK
  <2>1. bucket \in [Keys -> Descriptors \cup {"absent", "deleted", "expired"}]
    BY WatcherAssumption DEF WatcherInit
  <2>2. /\ said \in [Keys -> {"nothing", "join", "leave"}]
        /\ known \in [Keys -> Wanted \cup {Nil}]
    BY DEF WatcherInit
  <2>3. options \in Options /\ subscribed \in BOOLEAN /\ loop \in {"starting", "on", "ended"}
    BY DEF WatcherInit, Options
  <2>4. /\ heard = <<>> /\ updates = <<>> /\ events = <<>> /\ news = 0 /\ view = {}
        /\ panicked = Nil /\ sending = Nil
        /\ ctxDone = FALSE /\ closed = FALSE /\ dropped = FALSE
    BY DEF WatcherInit
  <2>5. news \in 0..MaxNews /\ Len(events) <= Buffer
    BY <2>4, WatcherConstants
  <2>6. /\ heard \in Seq([type : {"join", "leave"}, key : Keys])
        /\ updates \in Seq([key : Keys, entry : Descriptors \cup {"deleted"}])
        /\ events \in Seq([type : {"join", "update", "leave"}, key : Keys])
    BY <2>4, EmptySeq
  <2>7. /\ ctxDone \in BOOLEAN /\ closed \in BOOLEAN /\ dropped \in BOOLEAN
        /\ panicked \in {"callback", Nil} /\ view \subseteq Keys
        /\ sending \in [type : {"join", "leave"}, key : Keys] \cup {Nil}
    BY <2>4
  <2> QED
    BY <2>1, <2>2, <2>3, <2>5, <2>6, <2>7 DEF WatcherTypeOK
<1>2. WatcherOrder
  BY DEF WatcherInit, WatcherOrder, Options
<1>3. KnownFollows
  BY DEF WatcherInit, KnownFollows
<1>4. EventsTell
  <2> SUFFICES ASSUME NEW k \in Keys PROVE Believed(k) <=> known[k] # Nil
    BY DEF EventsTell
  <2>1. events = <<>> /\ view = {} /\ known[k] = Nil
    BY DEF WatcherInit
  <2>2. {i \in DOMAIN events : events[i].key = k} = {}
    BY <2>1
  <2> QED
    BY <2>1, <2>2 DEF Believed
<1> QED
  BY <1>1, <1>2, <1>3, <1>4 DEF WatcherInv

\* What is not touched stays right.
LEMMA KnownKept ==
  ASSUME KnownFollows, UNCHANGED <<bucket, loop, updates, known>>
  PROVE  KnownFollows'
BY DEF KnownFollows, Caught

LEMMA EventsKept ==
  ASSUME EventsTell, UNCHANGED <<options, events, view, known, dropped>>
  PROVE  EventsTell'
BY DEF EventsTell, Believed


\* An event goes into the channel while there is room, or is dropped.
LEMMA EmitType ==
  ASSUME WatcherTypeOK, NEW who, NEW e \in EventType, Emit(who, e)
  PROVE  /\ events' \in Seq(EventType) /\ Len(events') <= Buffer
         /\ dropped' \in BOOLEAN /\ closed' \in BOOLEAN
         /\ ~closed => panicked' = panicked
         /\ panicked' \in {who, panicked}
         /\ ~dropped' /\ ~closed => ~dropped /\ events' = Append(events, e)
<1>1. /\ events \in Seq(EventType) /\ Len(events) \in Nat /\ Len(events) <= Buffer /\ Buffer \in Nat
      /\ Append(events, e) \in Seq(EventType) /\ Len(Append(events, e)) = Len(events) + 1
  BY WatcherConstants, AppendProperties, LenProperties DEF WatcherTypeOK, EventType
<1>2. /\ events' = IF ~closed /\ Len(events) < Buffer THEN Append(events, e) ELSE events
      /\ dropped' = (dropped \/ Len(events) >= Buffer)
      /\ panicked' = IF closed THEN who ELSE panicked
      /\ closed' = closed
  BY DEF Emit
<1>3. events' \in Seq(EventType) /\ Len(events') <= Buffer
  BY <1>1, <1>2
<1>4. ~dropped' => Len(events) < Buffer /\ ~dropped
  <2>1. CASE Len(events) >= Buffer
    BY <1>2, <2>1, Zenon
  <2>2. CASE Len(events) < Buffer
    BY <1>2, <2>2
  <2> QED
    BY <1>1, <2>1, <2>2
<1>5. dropped' \in BOOLEAN /\ closed' \in BOOLEAN
  BY <1>2 DEF WatcherTypeOK
<1> QED
  BY <1>2, <1>3, <1>4, <1>5

-----------------------------------------------------------------------------
(* The steps of the mesh around the watcher. *)

\* The bucket changes, and watchKV is told of it.
LEMMA WatcherTold ==
  ASSUME WatcherInv, NEW k \in Keys, NEW d \in Descriptors \cup {"deleted"},
         Revise(k, d), Notify(Update(k, d))
  PROVE  WatcherInv'
<1>0. /\ WatcherTypeOK /\ WatcherOrder /\ KnownFollows /\ EventsTell
      /\ updates \in Seq(UpdateType) /\ Update(k, d) \in UpdateType
      /\ Update(k, d).key = k /\ Update(k, d).entry = d
  BY DEF WatcherInv, WatcherTypeOK, UpdateType, Update
<1>1. /\ bucket' = [bucket EXCEPT ![k] = d] /\ news < MaxNews /\ news' = news + 1
      /\ updates' = IF loop = "on" THEN Append(updates, Update(k, d)) ELSE updates
      /\ UNCHANGED <<options, ctxDone, said, subscribed, heard, sending, loop, known,
                     events, closed, panicked, dropped, view>>
  BY DEF Revise, Notify, contextVars, annVars, chanVars
<1>2. updates' \in Seq(UpdateType)
  BY <1>0, <1>1
<1>3. WatcherTypeOK'
  <2>1. bucket' \in [Keys -> Descriptors \cup {"absent", "deleted", "expired"}]
    BY <1>0, <1>1 DEF WatcherTypeOK
  <2>2. news' \in 0..MaxNews
    BY <1>0, <1>1, WatcherConstants DEF WatcherTypeOK
  <2> QED
    BY <1>0, <1>1, <1>2, <2>1, <2>2 DEF WatcherTypeOK, UpdateType
<1>4. WatcherOrder'
  BY <1>0, <1>1 DEF WatcherOrder
<1>5. KnownFollows'
  <2> SUFFICES ASSUME loop = "on", NEW j \in Keys
               PROVE  /\ bucket'[j] \in Wanted => Caught(j)' = bucket'[j]
                      /\ bucket'[j] \in {"absent", "deleted"} => Caught(j)' = Nil
    BY <1>1 DEF KnownFollows
  <2>1. updates' = Append(updates, Update(k, d))
    BY <1>1
  <2>2. Caught(j) = Final(Saying(updates), Places(updates, j), known[j])
    BY <1>0, CaughtNow
  <2>3. Caught(j)' = Final(Saying(updates'), Places(updates', j), known[j])
    BY <1>1, <1>2, CaughtNow
  <2>4. Caught(j)' = IF k = j /\ d \in Wanted \cup {"deleted"} THEN Says(Update(k, d)) ELSE Caught(j)
    BY <1>0, <2>1, <2>2, <2>3, CaughtAppend
  <2>5. Says(Update(k, d)) = IF d = "deleted" THEN Nil ELSE d
    BY <1>0 DEF Says
  <2>6. bucket'[j] = IF j = k THEN d ELSE bucket[j]
    BY <1>0, <1>1 DEF WatcherTypeOK
  <2>7. /\ bucket[j] \in Wanted => Caught(j) = bucket[j]
        /\ bucket[j] \in {"absent", "deleted"} => Caught(j) = Nil
    BY <1>0 DEF KnownFollows
  <2> QED
    BY <2>4, <2>5, <2>6, <2>7, WatcherConstants
<1>6. EventsTell'
  BY <1>0, <1>1, EventsKept
<1> QED
  BY <1>3, <1>4, <1>5, <1>6 DEF WatcherInv

LEMMA WatcherMesh ==
  ASSUME WatcherInv, Mesh
  PROVE  WatcherInv'
<1>0. WatcherTypeOK /\ WatcherOrder /\ KnownFollows /\ EventsTell
  BY DEF WatcherInv
<1> PICK k \in Keys : (\E d \in Descriptors : PutEntry(k, d)) \/ DeleteEntry(k) \/ ExpireEntry(k) \/ Announce(k)
  BY DEF Mesh
<1>1. CASE \E d \in Descriptors : PutEntry(k, d)
  BY <1>1, WatcherTold DEF PutEntry
<1>2. CASE DeleteEntry(k)
  BY <1>2, WatcherTold DEF DeleteEntry
<1>3. CASE ExpireEntry(k)
  <2>1. /\ bucket' = [bucket EXCEPT ![k] = "expired"] /\ news < MaxNews /\ news' = news + 1
        /\ UNCHANGED <<options, ctxDone, said, subscribed, heard, sending, loop, updates, known,
                       events, closed, panicked, dropped, view>>
    BY <1>3 DEF ExpireEntry, Revise, contextVars, annVars, chanVars
  <2>2. WatcherTypeOK'
    <3>1. bucket' \in [Keys -> Descriptors \cup {"absent", "deleted", "expired"}]
      BY <1>0, <2>1 DEF WatcherTypeOK
    <3>2. news' \in 0..MaxNews
      BY <1>0, <2>1, WatcherConstants DEF WatcherTypeOK
    <3> QED
      BY <1>0, <2>1, <3>1, <3>2 DEF WatcherTypeOK
  <2>3. KnownFollows'
    <3>1. \A j \in Keys : bucket'[j] = IF j = k THEN "expired" ELSE bucket[j]
      BY <1>0, <2>1 DEF WatcherTypeOK
    <3>2. \A j \in Keys : Caught(j)' = Caught(j)
      BY <2>1 DEF Caught
    <3> QED
      BY <1>0, <2>1, <3>1, <3>2, WatcherConstants DEF KnownFollows
  <2> QED
    BY <1>0, <2>1, <2>2, <2>3, EventsKept DEF WatcherInv, WatcherOrder
<1>4. CASE Announce(k)
  <2>1. /\ said' = [said EXCEPT ![k] = IF @ = "nothing" THEN "join" ELSE "leave"]
        /\ heard' = IF subscribed THEN Append(heard, Event(said'[k], k)) ELSE heard
        /\ news < MaxNews /\ news' = news + 1
        /\ UNCHANGED <<options, ctxDone, bucket, subscribed, sending, loop, updates, known,
                       events, closed, panicked, dropped, view>>
    BY <1>4 DEF Announce, contextVars, kvVars, chanVars
  <2>2. said' \in [Keys -> {"nothing", "join", "leave"}] /\ said'[k] \in {"join", "leave"}
    BY <1>0, <2>1 DEF WatcherTypeOK
  <2>3. heard' \in Seq([type : {"join", "leave"}, key : Keys])
    <3>1. Event(said'[k], k) \in [type : {"join", "leave"}, key : Keys]
      BY <2>2 DEF Event
    <3>2. heard \in Seq([type : {"join", "leave"}, key : Keys])
      BY <1>0 DEF WatcherTypeOK
    <3> QED
      BY <2>1, <3>1, <3>2, AppendProperties
  <2>4. news' \in 0..MaxNews
    BY <1>0, <2>1, WatcherConstants DEF WatcherTypeOK
  <2>5. WatcherTypeOK'
    BY <1>0, <2>1, <2>2, <2>3, <2>4 DEF WatcherTypeOK
  <2>6. WatcherOrder'
    BY <1>0, <2>1 DEF WatcherOrder
  <2> QED
    BY <1>0, <2>1, <2>5, <2>6, KnownKept, EventsKept DEF WatcherInv
<1> QED
  BY <1>1, <1>2, <1>3, <1>4


-----------------------------------------------------------------------------
(* The steps of the watcher and of its consumer. *)

LEMMA WatcherReceive ==
  ASSUME WatcherInv, Receive
  PROVE  WatcherInv'
<1>0. /\ WatcherTypeOK /\ WatcherOrder /\ KnownFollows /\ EventsTell
      /\ events \in Seq(EventType) /\ events # <<>>
  BY DEF WatcherInv, WatcherTypeOK, Receive, EventType
<1>1. /\ view' = Told(view, Head(events)) /\ events' = Tail(events)
      /\ UNCHANGED <<options, ctxDone, bucket, news, said, subscribed, heard, sending,
                     loop, updates, known, closed, panicked, dropped>>
  BY DEF Receive, contextVars, bucketVars, annVars, kvVars
<1>2. /\ Head(events) \in EventType /\ Tail(events) \in Seq(EventType)
      /\ Len(Tail(events)) = Len(events) - 1 /\ Len(events) \in Nat
  BY <1>0, HeadTailProperties, LenProperties
<1>3. WatcherTypeOK'
  <2>1. view' \subseteq Keys
    BY <1>0, <1>1, <1>2 DEF WatcherTypeOK, Told, EventType
  <2>2. events' \in Seq(EventType) /\ Len(events') <= Buffer
    BY <1>0, <1>1, <1>2, WatcherConstants DEF WatcherTypeOK
  <2> QED
    BY <1>0, <1>1, <2>1, <2>2 DEF WatcherTypeOK, EventType
<1>4. ASSUME NEW k \in Keys PROVE Believed(k)' <=> Believed(k)
  <2> DEFINE e == Head(events)
  <2>1. Believed(k) = Final(Telling(Tail(events)), About(Tail(events), k),
                            IF e.key = k THEN e.type # "leave" ELSE k \in view)
    <3>1. Believed(k) = Final(Telling(events), About(events, k), k \in view)
      BY <1>0, BelievedNow
    <3> QED
      BY <1>0, <3>1, BelievedTail
  <2>2. Believed(k)' = Final(Telling(Tail(events)), About(Tail(events), k), k \in view')
    BY <1>1, <1>2, BelievedNow
  <2>3. (k \in view') = (IF e.key = k THEN e.type # "leave" ELSE k \in view)
    <3>1. CASE e.key = k /\ e.type = "leave"
      BY <1>1, <3>1 DEF Told
    <3>2. CASE e.key = k /\ e.type # "leave"
      BY <1>1, <3>2 DEF Told
    <3>3. CASE e.key # k
      BY <1>1, <3>3 DEF Told
    <3> QED
      BY <3>1, <3>2, <3>3
  <2> HIDE DEF e
  <2> QED
    BY <2>1, <2>2, <2>3
<1>5. EventsTell'
  BY <1>0, <1>1, <1>4 DEF EventsTell
<1> QED
  BY <1>0, <1>1, <1>3, <1>5, KnownKept DEF WatcherInv, WatcherOrder

LEMMA WatcherCallback ==
  ASSUME WatcherInv, Callback
  PROVE  WatcherInv'
<1>0. WatcherTypeOK /\ WatcherOrder /\ KnownFollows /\ EventsTell
  BY DEF WatcherInv
<1>1. CASE \E d \in Descriptors : CallbackBegins(d)
  <2>1. /\ heard # <<>> /\ heard' = Tail(heard)
        /\ sending' \in {Head(heard), Nil}
        /\ UNCHANGED <<options, ctxDone, bucket, news, said, subscribed, loop, updates, known,
                       events, closed, panicked, dropped, view>>
    BY <1>1 DEF CallbackBegins, contextVars, bucketVars, kvVars, chanVars
  <2>2. /\ heard' \in Seq([type : {"join", "leave"}, key : Keys])
        /\ sending' \in [type : {"join", "leave"}, key : Keys] \cup {Nil}
    <3> DEFINE T == [type : {"join", "leave"}, key : Keys]
    <3>1. heard \in Seq(T) /\ heard # <<>>
      BY <1>0, <2>1 DEF WatcherTypeOK
    <3> HIDE DEF T
    <3>2. Head(heard) \in T /\ Tail(heard) \in Seq(T)
      BY <3>1, HeadTailProperties
    <3>3. heard' \in Seq(T) /\ sending' \in T \cup {Nil}
      BY <2>1, <3>2
    <3> QED
      BY <3>3 DEF T
  <2>3. WatcherTypeOK'
    BY <1>0, <2>1, <2>2 DEF WatcherTypeOK
  <2> QED
    BY <1>0, <2>1, <2>3, KnownKept, EventsKept DEF WatcherInv, WatcherOrder
<1>2. CASE CallbackSends
  <2>1. /\ Emit("callback", sending) /\ sending # Nil /\ sending' = Nil
        /\ UNCHANGED <<options, ctxDone, bucket, news, said, subscribed, heard,
                       loop, updates, known, view>>
    BY <1>2 DEF CallbackSends, contextVars, bucketVars, kvVars
  <2>2. sending \in EventType
    BY <1>0, <2>1 DEF WatcherTypeOK, EventType
  <2>3. WatcherTypeOK'
    <3>1. /\ events' \in Seq(EventType) /\ Len(events') <= Buffer
          /\ dropped' \in BOOLEAN /\ closed' \in BOOLEAN
          /\ panicked' \in {"callback", panicked}
      BY <1>0, <2>1, <2>2, EmitType
    <3>2. panicked' \in {"callback", Nil}
      BY <1>0, <3>1 DEF WatcherTypeOK
    <3> QED
      BY <1>0, <2>1, <3>1, <3>2 DEF WatcherTypeOK, EventType
  <2>4. WatcherOrder'
    BY <1>0, <2>1 DEF WatcherOrder, Emit
  <2>5. EventsTell'
    BY <1>0, <2>1 DEF WatcherOrder, EventsTell
  <2> QED
    BY <1>0, <2>1, <2>3, <2>4, <2>5, KnownKept DEF WatcherInv
<1> QED
  BY <1>1, <1>2 DEF Callback

\* The context ends, and what follows it.
LEMMA WatcherStopping ==
  ASSUME WatcherInv, EndContext \/ Cleanup \/ LoopEnds
  PROVE  WatcherInv'
<1>0. WatcherTypeOK /\ WatcherOrder /\ KnownFollows /\ EventsTell
  BY DEF WatcherInv
<1>1. CASE EndContext
  <2>1. /\ ctxDone' = TRUE
        /\ UNCHANGED <<options, bucket, news, said, subscribed, heard, sending, loop, updates, known,
                       events, closed, panicked, dropped, view>>
    BY <1>1 DEF EndContext, bucketVars, annVars, kvVars, chanVars
  <2>2. WatcherTypeOK'
    BY <1>0, <2>1 DEF WatcherTypeOK
  <2> QED
    BY <1>0, <2>1, <2>2, KnownKept, EventsKept DEF WatcherInv, WatcherOrder
<1>2. CASE Unsubscribe
  <2>1. /\ subscribed' = FALSE /\ heard' = <<>>
        /\ UNCHANGED <<options, ctxDone, bucket, news, said, sending, loop, updates, known,
                       events, closed, panicked, dropped, view>>
    BY <1>2 DEF Unsubscribe, contextVars, bucketVars, kvVars, chanVars
  <2>2. heard' \in Seq([type : {"join", "leave"}, key : Keys])
    BY <2>1, EmptySeq
  <2>3. WatcherTypeOK'
    BY <1>0, <2>1, <2>2 DEF WatcherTypeOK
  <2> QED
    BY <1>0, <2>1, <2>3, KnownKept, EventsKept DEF WatcherInv, WatcherOrder
<1>3. CASE CloseEvents
  <2>1. /\ ~subscribed /\ loop = "ended" /\ closed' = TRUE
        /\ UNCHANGED <<options, ctxDone, bucket, news, said, subscribed, heard, sending,
                       loop, updates, known, events, panicked, dropped, view>>
    BY <1>3 DEF CloseEvents, contextVars, bucketVars, annVars, kvVars
  <2>2. WatcherTypeOK'
    BY <1>0, <2>1 DEF WatcherTypeOK
  <2> QED
    BY <1>0, <2>1, <2>2, KnownKept, EventsKept DEF WatcherInv, WatcherOrder
<1>4. CASE LoopEnds
  <2>1. /\ loop' = "ended" /\ updates' = <<>> /\ loop = "on"
        /\ UNCHANGED <<options, ctxDone, bucket, news, said, subscribed, heard, sending, known,
                       events, closed, panicked, dropped, view>>
    BY <1>4 DEF LoopEnds, contextVars, bucketVars, annVars, chanVars
  <2>2. updates' \in Seq(UpdateType)
    BY <2>1, EmptySeq
  <2>3. WatcherTypeOK'
    BY <1>0, <2>1, <2>2 DEF WatcherTypeOK, UpdateType
  <2>4. KnownFollows'
    BY <2>1 DEF KnownFollows
  <2> QED
    BY <1>0, <2>1, <2>3, <2>4, EventsKept DEF WatcherInv, WatcherOrder
<1> QED
  BY <1>1, <1>2, <1>3, <1>4 DEF Cleanup

\* The loop starts with all that WatchAll delivers, or not at all.
LEMMA WatcherStarts ==
  ASSUME WatcherInv, LoopStarts
  PROVE  WatcherInv'
<1>0. WatcherTypeOK /\ WatcherOrder /\ KnownFollows /\ EventsTell
  BY DEF WatcherInv
<1>1. /\ loop = "starting" /\ updates = <<>> /\ \A k \in Keys : known[k] = Nil
      /\ UNCHANGED <<options, ctxDone, bucket, news, said, subscribed, heard, sending, known,
                     events, closed, panicked, dropped, view>>
  BY <1>0 DEF LoopStarts, WatcherOrder, contextVars, bucketVars, annVars, chanVars
<1>2. EventsTell'
  BY <1>0, <1>1, EventsKept
<1> DEFINE K == {j \in Keys : bucket[j] \in Descriptors \cup {"deleted"}}
           U == {Update(k, bucket[k]) : k \in K}
<1>3. CASE loop' = "on" /\ updates' \in SetToSeqs(U)
  <2>1. /\ U \in SUBSET UpdateType
        /\ \A u, v \in U : u.key = v.key => u = v
        /\ \A k \in K : Update(k, bucket[k]) \in U
        /\ \A u \in U : u.key \in K
    BY DEF Update, UpdateType
  <2>2. IsFiniteSet(U)
    <3>1. IsFiniteSet(K)
      BY WatcherConstants, FS_Subset
    <3> DEFINE f == [k \in K |-> Update(k, bucket[k])]
    <3>2. f \in Surjection(K, U)
      BY DEF Surjection
    <3> HIDE DEF f, K, U
    <3> QED
      BY <3>1, <3>2, FS_Surjection
  <2>3. ASSUME NEW k \in Keys
        PROVE  /\ updates' \in Seq(UpdateType)
               /\ \A u \in U : u.key = k /\ u.entry \in Wanted \cup {"deleted"}
                    => Final(Saying(updates'), Places(updates', k), Nil) = Says(u)
               /\ (\A u \in U : u.key # k) => Final(Saying(updates'), Places(updates', k), Nil) = Nil
    <3> HIDE DEF U
    <3> QED
      BY <1>3, <2>1, <2>2, CaughtFirst
  <2>4. updates' \in Seq(UpdateType)
    <3>1. CASE Keys = {}
      <4>1. U = {}
        BY <3>1
      <4>2. updates' \in SetToSeqs({})
        BY <1>3, <4>1
      <4>3. updates' \in [1..0 -> {}]
        BY <4>2, FS_EmptySet DEF SetToSeqs
      <4> QED
        BY <4>3
    <3>2. CASE Keys # {}
      BY <2>3, <3>2
    <3> QED
      BY <3>1, <3>2
  <2>5. ASSUME NEW k \in Keys
        PROVE  /\ bucket[k] \in Wanted => Caught(k)' = bucket[k]
               /\ bucket[k] \in {"absent", "deleted"} => Caught(k)' = Nil
    <3> DEFINE u == Update(k, bucket[k])
    <3>1. Caught(k)' = Final(Saying(updates'), Places(updates', k), Nil)
      BY <1>1, <2>4, CaughtNow
    <3>2. u.key = k /\ u.entry = bucket[k] /\ Says(u) = IF bucket[k] = "deleted" THEN Nil ELSE bucket[k]
      BY DEF Update, Says
    <3>3. bucket[k] \in Wanted \cup {"deleted"} => u \in U
      BY <2>1, WatcherConstants
    <3>4. bucket[k] = "absent" => \A v \in U : v.key # k
      BY <2>1, WatcherConstants
    <3> HIDE DEF u, U, K
    <3> QED
      BY <2>3, <3>1, <3>2, <3>3, <3>4, WatcherConstants
  <2>6. KnownFollows'
    BY <1>1, <2>5 DEF KnownFollows
  <2>7. WatcherTypeOK'
    BY <1>0, <1>1, <1>3, <2>4 DEF WatcherTypeOK, UpdateType
  <2>8. WatcherOrder'
    BY <1>0, <1>1, <1>3 DEF WatcherOrder
  <2> QED
    BY <1>2, <2>6, <2>7, <2>8 DEF WatcherInv
<1>4. CASE loop' = "ended" /\ updates' = updates
  <2>1. KnownFollows'
    BY <1>4 DEF KnownFollows
  <2>2. WatcherTypeOK'
    BY <1>0, <1>1, <1>4 DEF WatcherTypeOK
  <2>3. WatcherOrder'
    BY <1>0, <1>1, <1>4 DEF WatcherOrder
  <2> QED
    BY <1>2, <2>1, <2>2, <2>3 DEF WatcherInv
<1> QED
  BY <1>3, <1>4 DEF LoopStarts

\* What is known of each service after an update, and what its event says.
LEMMA LearnIs ==
  ASSUME WatcherTypeOK, NEW u \in UpdateType, NEW k \in Keys
  PROVE  /\ Learn(known, u) \in [Keys -> Wanted \cup {Nil}]
         /\ Learn(known, u)[k] = IF u.key = k /\ u.entry \in Wanted \cup {"deleted"}
                                 THEN Says(u) ELSE known[k]
         /\ News(known, u) \in EventType \cup {Nil}
         /\ News(known, u) = Nil => (Learn(known, u)[k] = Nil <=> known[k] = Nil)
         /\ News(known, u) # Nil =>
              /\ News(known, u).key = u.key
              /\ k # u.key => Learn(known, u)[k] = known[k]
              /\ News(known, u).type # "leave" <=> Learn(known, u)[u.key] # Nil
<1>1. /\ known \in [Keys -> Wanted \cup {Nil}] /\ u.key \in Keys
      /\ u.entry \in Descriptors \cup {"deleted"} /\ Nil \notin Wanted /\ "deleted" \notin Wanted
  BY WatcherConstants DEF WatcherTypeOK, UpdateType
<1>2. CASE u.entry = "deleted"
  <2>1. Learn(known, u) = [known EXCEPT ![u.key] = Nil] /\ Says(u) = Nil
    BY <1>2 DEF Learn, Says
  <2>2. News(known, u) = IF known[u.key] # Nil THEN Event("leave", u.key) ELSE Nil
    BY <1>2 DEF News
  <2>3. Event("leave", u.key) \in EventType /\ Event("leave", u.key) # Nil
        /\ Event("leave", u.key).key = u.key /\ Event("leave", u.key).type = "leave"
    BY <1>1, WatcherConstants DEF Event, EventType
  <2> QED
    BY <1>1, <1>2, <2>1, <2>2, <2>3
<1>3. CASE u.entry \in Wanted
  <2> DEFINE t == IF known[u.key] = Nil THEN "join" ELSE "update"
  <2>1. Learn(known, u) = [known EXCEPT ![u.key] = u.entry] /\ Says(u) = u.entry
    BY <1>1, <1>3 DEF Learn, Says
  <2>2. News(known, u) = Event(t, u.key)
    BY <1>1, <1>3 DEF News
  <2>3. Event(t, u.key) \in EventType /\ Event(t, u.key) # Nil
        /\ Event(t, u.key).key = u.key /\ Event(t, u.key).type # "leave"
    BY <1>1, WatcherConstants DEF Event, EventType
  <2> HIDE DEF t
  <2> QED
    BY <1>1, <1>3, <2>1, <2>2, <2>3
<1>4. CASE u.entry \notin Wanted \cup {"deleted"}
  <2>1. Learn(known, u) = known /\ News(known, u) = Nil
    BY <1>4 DEF Learn, News
  <2> QED
    BY <1>1, <1>4, <2>1
<1> QED
  BY <1>2, <1>3, <1>4

LEMMA WatcherUpdates ==
  ASSUME WatcherInv, LoopUpdates
  PROVE  WatcherInv'
<1> DEFINE u == Head(updates)
           e == News(known, u)
<1>0. /\ WatcherTypeOK /\ WatcherOrder /\ KnownFollows /\ EventsTell
      /\ updates \in Seq(UpdateType) /\ updates # <<>> /\ events \in Seq(EventType)
  BY DEF WatcherInv, WatcherTypeOK, LoopUpdates, UpdateType, EventType
<1>1. /\ loop = "on" /\ updates' = Tail(updates) /\ known' = Learn(known, u)
      /\ IF e = Nil THEN UNCHANGED <<events, closed, panicked, dropped>> ELSE Emit("watchKV", e)
      /\ UNCHANGED <<options, ctxDone, bucket, news, said, subscribed, heard, sending, loop, view>>
  BY DEF LoopUpdates, contextVars, bucketVars, annVars, chanVars
<1>2. u \in UpdateType /\ Tail(updates) \in Seq(UpdateType)
  BY <1>0, HeadTailProperties
<1>3. known' \in [Keys -> Wanted \cup {Nil}] /\ e \in EventType \cup {Nil}
  <2>1. CASE Keys = {}
    BY <1>2, <2>1 DEF UpdateType
  <2>2. CASE Keys # {}
    BY <1>0, <1>1, <1>2, <2>2, LearnIs
  <2> QED
    BY <2>1, <2>2
<1>4. ~closed
  BY <1>0, <1>1 DEF WatcherOrder
<1>5. /\ events' \in Seq(EventType) /\ Len(events') <= Buffer
      /\ dropped' \in BOOLEAN /\ closed' = closed /\ panicked' = panicked
      /\ e = Nil => events' = events /\ dropped' = dropped
      /\ e # Nil /\ ~dropped' => ~dropped /\ events' = Append(events, e)
  <2>1. CASE e = Nil
    BY <1>0, <1>1, <2>1 DEF WatcherTypeOK
  <2>2. CASE e # Nil
    <3>1. e \in EventType /\ Emit("watchKV", e)
      BY <1>1, <1>3, <2>2
    <3>2. closed' = closed
      BY <3>1 DEF Emit
    <3> HIDE DEF e
    <3> QED
      BY <1>0, <1>4, <2>2, <3>1, <3>2, EmitType
  <2> QED
    BY <2>1, <2>2
<1>6. WatcherTypeOK'
  BY <1>0, <1>1, <1>2, <1>3, <1>5 DEF WatcherTypeOK, UpdateType, EventType
<1>7. WatcherOrder'
  BY <1>0, <1>1, <1>4, <1>5 DEF WatcherOrder
<1>8. ASSUME NEW k \in Keys PROVE Caught(k)' = Caught(k)
  <2>1. Caught(k) = Final(Saying(updates), Places(updates, k), known[k])
    BY <1>0, CaughtNow
  <2>2. Caught(k)' = Final(Saying(Tail(updates)), Places(Tail(updates), k), known'[k])
    BY <1>1, <1>2, CaughtNow
  <2>3. known'[k] = IF u.key = k /\ u.entry \in Wanted \cup {"deleted"} THEN Says(u) ELSE known[k]
    BY <1>0, <1>1, <1>2, LearnIs
  <2> QED
    BY <1>0, <2>1, <2>2, <2>3, CaughtTail
<1>9. KnownFollows'
  BY <1>0, <1>1, <1>8 DEF KnownFollows
<1>10. EventsTell'
  <2> SUFFICES ASSUME ~options.announce, ~dropped', NEW k \in Keys
               PROVE  Believed(k)' <=> known'[k] # Nil
    BY <1>1 DEF EventsTell
  <2>1. ~dropped /\ (Believed(k) <=> known[k] # Nil)
    BY <1>0, <1>5 DEF EventsTell
  <2>2. CASE e = Nil
    <3>1. Believed(k)' = Believed(k)
      BY <1>1, <1>5, <2>2 DEF Believed
    <3>2. known'[k] = Nil <=> known[k] = Nil
      BY <1>0, <1>1, <1>2, <2>2, LearnIs
    <3> QED
      BY <2>1, <3>1, <3>2
  <2>3. CASE e # Nil
    <3>1. /\ e.key = u.key /\ (k # u.key => known'[k] = known[k])
          /\ e.type # "leave" <=> known'[u.key] # Nil
      BY <1>0, <1>1, <1>2, <2>3, LearnIs
    <3>2. events' = Append(events, e) /\ e \in EventType
      BY <1>3, <1>5, <2>3
    <3>3. Believed(k)' = IF e.key = k THEN e.type # "leave" ELSE Believed(k)
      <4> HIDE DEF e
      <4>1. Believed(k) = Final(Telling(events), About(events, k), k \in view)
        BY <1>0, BelievedNow
      <4>2. Believed(k)' = Final(Telling(events'), About(events', k), k \in view)
        BY <1>1, <1>5, BelievedNow
      <4> QED
        BY <1>0, <3>2, <4>1, <4>2, BelievedAppend
    <3> HIDE DEF e, u
    <3> QED
      BY <2>1, <3>1, <3>3
  <2> QED
    BY <2>2, <2>3
<1> HIDE DEF e, u
<1> QED
  BY <1>6, <1>7, <1>9, <1>10 DEF WatcherInv

LEMMA WatcherGoesOn == WatcherInv /\ [WatcherNext]_watcherVars => WatcherInv'
<1> SUFFICES ASSUME WatcherInv, [WatcherNext]_watcherVars PROVE WatcherInv'
  OBVIOUS
<1>1. CASE WatcherNext
  BY <1>1, WatcherMesh, WatcherReceive, WatcherCallback, WatcherStopping, WatcherStarts, WatcherUpdates
  DEF WatcherNext, WatchKV
<1>2. CASE UNCHANGED watcherVars
  <2>1. UNCHANGED <<options, ctxDone, bucket, news, said, subscribed, heard, sending, loop, updates, known,
                    events, closed, panicked, dropped, view>>
    BY <1>2 DEF watcherVars, contextVars, bucketVars, annVars, kvVars, chanVars
  <2>2. WatcherTypeOK' /\ WatcherOrder'
    BY <2>1 DEF WatcherInv, WatcherTypeOK, WatcherOrder
  <2> QED
    BY <2>1, <2>2, KnownKept, EventsKept DEF WatcherInv
<1> QED
  BY <1>1, <1>2

LEMMA WatcherAlways == WatcherSpec => []WatcherInv
BY WatcherBegins, WatcherGoesOn, PTL DEF WatcherSpec

\* The queues of a watcher keep their limits, and watchKV never sends on the closed
\* channel of events (WatchServices' cleanup waits for it).
THEOREM WatcherTyping == WatcherSpec => []WatcherTypeOK
BY WatcherAlways, PTL DEF WatcherInv

\* Once it has seen what waits for it, watchKV knows what its query matches in the
\* bucket, and nothing that was deleted.
THEOREM WatcherKnows == WatcherSpec => []KnownFollows
BY WatcherAlways, PTL DEF WatcherInv

\* The events of a watcher without announcements, as long as none was dropped, tell
\* its consumer exactly which services watchKV knows.
THEOREM WatcherTells == WatcherSpec => []EventsTell
BY WatcherAlways, PTL DEF WatcherInv
=============================================================================
