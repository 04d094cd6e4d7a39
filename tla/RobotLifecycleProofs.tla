------------------------ MODULE RobotLifecycleProofs ------------------------
(***************************************************************************)
(* Proofs about the life of a robot, for any components, dependencies,     *)
(* services and restart policies, and any number of stops: the sort gives  *)
(* a component after those it depends on, config.Validate's search finds   *)
(* the cycles the sort finds, an open component has those it depends on    *)
(* and nobody new comes to a closed one, every component started is closed *)
(* once, and a process is started again only as its policy says.           *)
(***************************************************************************)
EXTENDS RobotLifecycle, NaturalsInduction, WellFoundedInduction,
        SequenceTheorems, FiniteSetTheorems, TLAPS

-----------------------------------------------------------------------------
(* The inductive invariant. *)

\* Each component comes once, and after the enabled ones it depends on.
WellOrdered(s) ==
  /\ s \in Seq(Components)
  /\ \A i, j \in 1 .. Len(s) : s[i] = s[j] => i = j
  /\ \A i \in 1 .. Len(s) : \A d \in config.deps[s[i]] \ config.disabled :
       \E j \in 1 .. i - 1 : s[j] = d

\* The components Start has got running: the first k of order.
First(k) == {order[i] : i \in 1 .. k}

Types ==
  /\ config \in Configs
  /\ main \in {"new", "failed", "starting", "serving", "ready", "stopped"} \cup Stopping
  /\ nats \in BOOLEAN /\ dashboard \in BOOLEAN /\ cancelled \in BOOLEAN
  /\ services \subseteq Internals
  /\ mu \in {"free", "stop"} /\ (mu = "stop" <=> main = "external")
  /\ waitingFor \subseteq Externals
  /\ ext \in [Externals -> ExtType]
  /\ stops \in 0 .. MaxStops
  /\ gaveUp \in BOOLEAN
  /\ remote \subseteq Components /\ requests \in Nat /\ local \subseteq Components

\* What Start or Stop has yet to do, wherever it is.
Todo ==
  /\ main = "starting" => WellOrdered(order \o todo) /\ todo \in Seq(Components)
  /\ main = "serving" => /\ todo \in Seq(Services)
                         /\ \A i, j \in 1 .. Len(todo) : todo[i] = todo[j] => i = j
                         /\ \A i \in 1 .. Len(todo) :
                              todo[i] \in Externals => ext[todo[i]].starts = 0
  /\ main = "external" => todo \in Seq(Externals)
  /\ main = "components" => /\ todo \in Seq(Components) /\ Len(todo) <= Len(order)
                            /\ \A i \in 1 .. Len(todo) : todo[i] = order[Len(todo) + 1 - i]
  /\ main \notin {"starting", "serving", "external", "components"} => todo = <<>>

\* The components that are open and tracked, by the place Start or Stop is at.
Parts ==
  /\ WellOrdered(order)
  /\ tracked \in {{}, First(Len(order))}
  /\ open = IF tracked = {} THEN {} ELSE First(IF main = "components" THEN Len(todo) ELSE Len(order))
  /\ closes = [c \in Components |-> IF c \in First(Len(order)) \ open THEN 1 ELSE 0]
  /\ main \in {"new", "failed", "starting", "serving", "ready"} => tracked = First(Len(order))
  /\ main \in {"nats", "stopped"} => tracked = {}
  /\ exposed = IF main \in {"serving", "ready"} THEN tracked ELSE {}

\* The services, the dashboard and NATS, by the place Start or Stop is at.
Platform ==
  /\ main \in Stopping \cup {"stopped"} => stops > 0
  /\ main \in {"new", "failed", "starting", "components", "nats", "stopped"} => services = {}
  /\ main \in {"new", "services", "components", "nats", "stopped"} => ~dashboard
  /\ main = "new" => order = <<>>
  /\ main \in {"starting", "serving", "ready"} => nats
  /\ open # {} \/ services # {} \/ dashboard => nats
  /\ main \in {"nats", "stopped"} => cancelled

\* How often a process has been started, and why its monitor starts it again.
Process(e) ==
  LET x == ext[e]
      late == {"dashboard", "services", "components"} IN
  /\ main \in {"new", "starting"} => x.starts = 0
  /\ x.starts = 0 => x.monitor = "none"
  /\ x.monitor \in {"exited", "sleeping", "restarting"} => x.proc = "exited"
  /\ x.monitor \in {"sleeping", "restarting"} => ShouldRestart(e)
  /\ ~cancelled /\ x.doomed => main \in {"external"} \cup late
  /\ ~cancelled /\ main \notin late =>
       /\ x.starts <= MaxStarts
       /\ x.monitor \in {"sleeping", "restarting"} => x.starts < MaxStarts
       /\ main # "external" /\ x.proc = "exited" => x.starts < MaxStarts
  /\ ~cancelled /\ main \in late /\ x.starts > MaxStarts => x.proc = "running" /\ ~x.doomed

\* Those who use a component from outside: a call begins in one that is tracked, and
\* when the dashboard has stopped and did not give up no request is left.
Users ==
  /\ main \in {"new", "failed", "starting"} => remote = {}
  /\ main \in {"serving", "ready"} => remote \subseteq tracked
  /\ gaveUp \/ local \subseteq tracked
  /\ gaveUp \/ dashboard \/ (local = {} /\ requests = 0)

IInv == Types /\ Todo /\ Parts /\ Platform /\ Users /\ \A e \in Externals : Process(e)

-----------------------------------------------------------------------------
(* Sequences. *)

LEMMA HeadTail ==
  ASSUME NEW S, NEW s \in Seq(S), s # <<>>
  PROVE  /\ Head(s) \in S /\ Head(s) = s[1] /\ Tail(s) \in Seq(S)
         /\ Len(s) \in Nat \ {0} /\ Len(Tail(s)) = Len(s) - 1
         /\ \A i \in 1 .. Len(s) - 1 : Tail(s)[i] = s[i + 1]
  OBVIOUS

LEMMA AppendIs ==
  ASSUME NEW S, NEW s \in Seq(S), NEW x \in S
  PROVE  /\ Append(s, x) \in Seq(S) /\ Len(s) \in Nat /\ Len(Append(s, x)) = Len(s) + 1
         /\ \A i \in 1 .. Len(s) : Append(s, x)[i] = s[i]
         /\ Append(s, x)[Len(s) + 1] = x
  OBVIOUS

\* Moving the first of what is to come to the end of what was does not change the whole.
LEMMA MoveOne ==
  ASSUME NEW S, NEW s \in Seq(S), NEW t \in Seq(S), t # <<>>
  PROVE  Append(s, Head(t)) \o Tail(t) = s \o t
<1>1. /\ Head(t) \in S /\ Head(t) = t[1] /\ Tail(t) \in Seq(S)
      /\ Len(t) \in Nat \ {0} /\ Len(Tail(t)) = Len(t) - 1
      /\ \A i \in 1 .. Len(t) - 1 : Tail(t)[i] = t[i + 1]
  BY HeadTail
<1>2. /\ Append(s, Head(t)) \in Seq(S) /\ Len(s) \in Nat /\ Len(Append(s, Head(t))) = Len(s) + 1
      /\ \A i \in 1 .. Len(s) : Append(s, Head(t))[i] = s[i]
      /\ Append(s, Head(t))[Len(s) + 1] = Head(t)
  BY <1>1, AppendIs
<1> DEFINE a == Append(s, Head(t)) \o Tail(t)
           b == s \o t
<1>3. /\ a \in Seq(S) /\ Len(a) = Len(s) + Len(t)
      /\ \A i \in 1 .. Len(s) + Len(t) :
           a[i] = IF i <= Len(s) + 1 THEN Append(s, Head(t))[i] ELSE Tail(t)[i - (Len(s) + 1)]
  BY <1>1, <1>2, ConcatProperties
<1>4. /\ b \in Seq(S) /\ Len(b) = Len(s) + Len(t)
      /\ \A i \in 1 .. Len(s) + Len(t) : b[i] = IF i <= Len(s) THEN s[i] ELSE t[i - Len(s)]
  BY ConcatProperties
<1>5. \A i \in 1 .. Len(s) + Len(t) : a[i] = b[i]
  <2> HIDE DEF a, b
  <2> TAKE i \in 1 .. Len(s) + Len(t)
  <2>1. CASE i <= Len(s)
    BY <1>1, <1>2, <1>3, <1>4, <2>1
  <2>2. CASE i = Len(s) + 1
    BY <1>1, <1>2, <1>3, <1>4, <2>2
  <2>3. CASE i > Len(s) + 1
    <3>1. i - (Len(s) + 1) \in 1 .. Len(t) - 1 /\ (i - (Len(s) + 1)) + 1 = i - Len(s)
      BY <1>1, <1>2, <2>3
    <3> QED
      BY <1>1, <1>2, <1>3, <1>4, <2>3, <3>1
  <2> QED
    BY <1>1, <1>2, <2>1, <2>2, <2>3
<1> QED
  <2> HIDE DEF a, b
  <2>1. a = b
    BY <1>1, <1>2, <1>3, <1>4, <1>5, SeqEqual
  <2> QED
    BY <2>1 DEF a, b

\* A finite set is the range of a sequence.
LEMMA SetToSeqIs ==
  ASSUME NEW S, IsFiniteSet(S)
  PROVE  SetToSeq(S) \in Seq(S)
<1>1. Cardinality(S) \in Nat /\ \E f \in [1 .. Cardinality(S) -> S] : IsInjective(f)
  BY FS_CardinalityType DEF ExistsBijection, Bijection, Injection, IsInjective
<1>2. SetToSeq(S) \in [1 .. Cardinality(S) -> S]
  BY <1>1 DEF SetToSeq
<1> QED
  BY <1>1, <1>2

-----------------------------------------------------------------------------
(* Induction and recursion over numbers, by sets in place of formulas. *)

LEMMA Induction ==
  ASSUME NEW T, T \subseteq Nat, 0 \in T, \A n \in T : n + 1 \in T
  PROVE  T = Nat
<1> SUFFICES ASSUME Nat \ T # {} PROVE FALSE
  OBVIOUS
<1>1. Nat \ T \subseteq Nat /\ IsWellFoundedOn(OpToRel(<, Nat), Nat)
  BY NatLessThanWellFounded
<1>2. \E x \in Nat \ T : \A y \in Nat \ T : <<y, x>> \notin OpToRel(<, Nat)
  BY <1>1, WFMin
<1>3. PICK x \in Nat \ T : \A y \in Nat \ T : ~ (y < x)
  BY <1>2 DEF OpToRel
<1>4. x # 0 /\ x - 1 \in Nat /\ x - 1 < x /\ (x - 1) + 1 = x
  BY <1>3
<1> QED
  BY <1>3, <1>4

LEMMA LeastOf ==
  ASSUME NEW T, T \subseteq Nat, T # {}
  PROVE  \E x \in T : \A y \in T : x <= y
<1>1. IsWellFoundedOn(OpToRel(<, Nat), Nat)
  BY NatLessThanWellFounded
<1>2. \E x \in T : \A y \in T : <<y, x>> \notin OpToRel(<, Nat)
  BY <1>1, WFMin
<1>3. PICK x \in T : \A y \in T : ~ (y < x)
  BY <1>2 DEF OpToRel
<1>4. \A y \in T : x <= y
  BY <1>3
<1> QED
  BY <1>4

\* f starts at b and goes on, up to n, as g says: a function so defined exists.
Follows(f, n, S, b, g) ==
  /\ f \in [0 .. n -> S] /\ f[0] = b
  /\ \A i \in 1 .. n : f[i] = g[i][f[i - 1]]

LEMMA RecursionStep ==
  ASSUME NEW n \in Nat, NEW S, NEW b \in S, NEW g \in [1 .. n -> [S -> S]],
         NEW m \in Nat, m + 1 <= n, NEW f, Follows(f, m, S, b, g)
  PROVE  \E h : Follows(h, m + 1, S, b, g)
<1> DEFINE h == [i \in 0 .. m + 1 |-> IF i = m + 1 THEN g[m + 1][f[m]] ELSE f[i]]
<1>0. f \in [0 .. m -> S] /\ f[0] = b /\ \A i \in 1 .. m : f[i] = g[i][f[i - 1]]
  BY DEF Follows
<1>1. g[m + 1][f[m]] \in S
  <2>1. m + 1 \in 1 .. n /\ f[m] \in S
    BY <1>0
  <2> QED
    BY <2>1
<1>2. h \in [0 .. m + 1 -> S] /\ h[0] = b
  BY <1>0, <1>1
<1>3. ASSUME NEW i \in 1 .. m + 1 PROVE h[i] = g[i][h[i - 1]]
  <2>1. h[i - 1] = f[i - 1]
    OBVIOUS
  <2>2. CASE i = m + 1
    <3>1. h[i] = g[m + 1][f[m]] /\ i - 1 = m
      BY <2>2
    <3> QED
      BY <2>1, <2>2, <3>1
  <2>3. CASE i # m + 1
    BY <1>0, <2>1, <2>3
  <2> QED
    BY <2>2, <2>3
<1>4. Follows(h, m + 1, S, b, g)
  <2> HIDE DEF h
  <2> QED
    BY <1>2, <1>3 DEF Follows
<1> QED
  BY <1>4

LEMMA Recursion ==
  ASSUME NEW n \in Nat, NEW S, NEW b \in S, NEW g \in [1 .. n -> [S -> S]]
  PROVE  \E f : Follows(f, n, S, b, g)
<1> DEFINE T == {m \in Nat : m <= n => \E f : Follows(f, m, S, b, g)}
<1>1. Follows([i \in 0 .. 0 |-> b], 0, S, b, g)
  BY DEF Follows
<1>2. 0 \in T
  BY <1>1
<1>3. ASSUME NEW m \in T PROVE m + 1 \in T
  BY RecursionStep
<1>4. T = Nat
  <2> HIDE DEF T
  <2>1. T \subseteq Nat
    BY DEF T
  <2> QED
    BY <1>2, <1>3, <2>1, Induction
<1> QED
  BY <1>4

\* The steps of Selected.
Selects(f, A, s, S) ==
  /\ f \in [0 .. Len(s) -> Seq(A)] /\ f[0] = <<>>
  /\ \A i \in 1 .. Len(s) : f[i] = IF s[i] \in S THEN Append(f[i - 1], s[i]) ELSE f[i - 1]
  /\ Selected(s, S) = f[Len(s)]

LEMMA SelectedStep ==
  ASSUME NEW A, NEW s \in Seq(A), NEW S
  PROVE  \E f : Selects(f, A, s, S)
<1> DEFINE R(f) == f = [n \in 0 .. Len(s) |->
                          IF n = 0 THEN <<>>
                          ELSE IF s[n] \in S THEN Append(f[n - 1], s[n]) ELSE f[n - 1]]
           g == [i \in 1 .. Len(s) |->
                   [r \in Seq(A) |-> IF s[i] \in S THEN Append(r, s[i]) ELSE r]]
<1>0. Len(s) \in Nat /\ \A i \in 1 .. Len(s) : s[i] \in A
  OBVIOUS
<1>1. g \in [1 .. Len(s) -> [Seq(A) -> Seq(A)]]
  BY <1>0
<1>2. PICK f : Follows(f, Len(s), Seq(A), <<>>, g)
  <2> HIDE DEF g
  <2>1. <<>> \in Seq(A)
    OBVIOUS
  <2> QED
    BY <1>0, <1>1, <2>1, Recursion
<1>20. /\ f \in [0 .. Len(s) -> Seq(A)] /\ f[0] = <<>>
       /\ \A i \in 1 .. Len(s) : f[i] = g[i][f[i - 1]]
  <2> HIDE DEF g
  <2> QED
    BY <1>2 DEF Follows
<1>3. \A i \in 1 .. Len(s) : f[i] = IF s[i] \in S THEN Append(f[i - 1], s[i]) ELSE f[i - 1]
  <2> TAKE i \in 1 .. Len(s)
  <2>1. f[i - 1] \in Seq(A)
    BY <1>0, <1>20, SMTT(30)
  <2> QED
    BY <1>20, <2>1
<1>4. R(f)
  <2>1. f = [n \in 0 .. Len(s) |-> f[n]]
    BY <1>20
  <2>2. ASSUME NEW n \in 0 .. Len(s)
        PROVE  f[n] = IF n = 0 THEN <<>>
                      ELSE IF s[n] \in S THEN Append(f[n - 1], s[n]) ELSE f[n - 1]
    <3>1. CASE n = 0
      BY <1>20, <3>1
    <3>2. CASE n # 0
      <4>1. n \in 1 .. Len(s)
        BY <1>0, <3>2
      <4> QED
        BY <1>3, <3>2, <4>1
    <3> QED
      BY <3>1, <3>2
  <2> QED
    BY <2>1, <2>2
<1> DEFINE F == CHOOSE h : R(h)
<1>5. R(F)
  BY <1>4, Zenon
<1>6. Selected(s, S) = F[Len(s)]
  BY DEF Selected, Zenon
<1>7. /\ F[0] = <<>>
      /\ \A i \in 1 .. Len(s) : F[i] = IF s[i] \in S THEN Append(F[i - 1], s[i]) ELSE F[i - 1]
  <2> HIDE DEF F
  <2>1. \A n \in 0 .. Len(s) :
          F[n] = IF n = 0 THEN <<>>
                 ELSE IF s[n] \in S THEN Append(F[n - 1], s[n]) ELSE F[n - 1]
    BY <1>5
  <2>2. 0 \in 0 .. Len(s) /\ \A i \in 1 .. Len(s) : i \in 0 .. Len(s) /\ i # 0
    BY <1>0
  <2> QED
    BY <2>1, <2>2, Zenon
<1>8. F \in [0 .. Len(s) -> Seq(A)]
  <2> HIDE DEF F
  <2> DEFINE T == {n \in Nat : n <= Len(s) => F[n] \in Seq(A)}
  <2>1. 0 \in T
    BY <1>7, EmptySeq
  <2>2. ASSUME NEW n \in T PROVE n + 1 \in T
    <3> SUFFICES ASSUME n + 1 <= Len(s) PROVE F[n + 1] \in Seq(A)
      OBVIOUS
    <3>1. F[n] \in Seq(A) /\ n + 1 \in 1 .. Len(s) /\ (n + 1) - 1 = n
      BY <1>0
    <3>2. F[n + 1] = IF s[n + 1] \in S THEN Append(F[n], s[n + 1]) ELSE F[n]
      BY <1>7, <3>1
    <3>3. s[n + 1] \in A
      BY <1>0, <3>1
    <3> QED
      BY <3>1, <3>2, <3>3, AppendIs
  <2>3. T = Nat
    <3> HIDE DEF T
    <3>1. T \subseteq Nat
      BY DEF T
    <3> QED
      BY <2>1, <2>2, <3>1, Induction
  <2>4. \A n \in 0 .. Len(s) : F[n] \in Seq(A)
    BY <1>0, <2>3
  <2> QED
    BY <1>5, <2>4
<1> QED
  <2> HIDE DEF F
  <2> QED
    BY <1>6, <1>7, <1>8 DEF Selects

\* t holds, in their order, those of the first n elements of s that are in S: its i-th
\* is the at[i]-th of s.
Picks(t, at, n, s, S) ==
  /\ at \in [1 .. Len(t) -> 1 .. n]
  /\ \A i \in 1 .. Len(t) : t[i] = s[at[i]] /\ t[i] \in S
  /\ \A i, j \in 1 .. Len(t) : i < j => at[i] < at[j]
  /\ \A k \in 1 .. n : s[k] \in S => \E i \in 1 .. Len(t) : at[i] = k

LEMMA PicksStep ==
  ASSUME NEW A, NEW s \in Seq(A), NEW S, NEW n \in Nat, n + 1 <= Len(s),
         NEW t \in Seq(A), NEW at, Picks(t, at, n, s, S),
         NEW u, u = IF s[n + 1] \in S THEN Append(t, s[n + 1]) ELSE t
  PROVE  \E b : Picks(u, b, n + 1, s, S)
<1>0. /\ at \in [1 .. Len(t) -> 1 .. n] /\ Len(t) \in Nat
      /\ \A i \in 1 .. Len(t) : t[i] = s[at[i]] /\ t[i] \in S
      /\ \A i, j \in 1 .. Len(t) : i < j => at[i] < at[j]
      /\ \A k \in 1 .. n : s[k] \in S => \E i \in 1 .. Len(t) : at[i] = k
  BY DEF Picks
<1>1. CASE s[n + 1] \notin S
  <2>1. at \in [1 .. Len(t) -> 1 .. n + 1]
    BY <1>0
  <2>2. Picks(t, at, n + 1, s, S)
    <3>1. \A k \in 1 .. n + 1 : s[k] \in S => \E i \in 1 .. Len(t) : at[i] = k
      BY <1>0, <1>1
    <3> QED
      BY <1>0, <2>1, <3>1 DEF Picks
  <2> QED
    BY <1>1, <2>2
<1>2. CASE s[n + 1] \in S
  <2> DEFINE b == [i \in 1 .. Len(t) + 1 |-> IF i = Len(t) + 1 THEN n + 1 ELSE at[i]]
  <2>0. s[n + 1] \in A
    OBVIOUS
  <2>1. /\ u \in Seq(A) /\ Len(u) = Len(t) + 1 /\ u[Len(t) + 1] = s[n + 1]
        /\ \A i \in 1 .. Len(t) : u[i] = t[i]
    BY <1>2, <2>0, AppendIs
  <2>2. /\ b \in [1 .. Len(t) + 1 -> 1 .. n + 1] /\ b[Len(t) + 1] = n + 1
        /\ \A i \in 1 .. Len(t) : b[i] = at[i] /\ at[i] \in 1 .. n
    <3>1. \A i \in 1 .. Len(t) : at[i] \in 1 .. n
      BY <1>0
    <3>2. \A i \in 1 .. Len(t) + 1 : (i = Len(t) + 1 \/ i \in 1 .. Len(t)) /\ n + 1 \in 1 .. n + 1
      BY <1>0
    <3>3. \A i \in 1 .. n : i \in 1 .. n + 1
      OBVIOUS
    <3>4. b \in [1 .. Len(t) + 1 -> 1 .. n + 1]
      BY <3>1, <3>2, <3>3
    <3>5. Len(t) + 1 \in 1 .. Len(t) + 1 /\ \A i \in 1 .. Len(t) : i \in 1 .. Len(t) + 1 /\ i # Len(t) + 1
      BY <1>0
    <3> QED
      BY <3>1, <3>4, <3>5
  <2> HIDE DEF b
  <2>3. \A i \in 1 .. Len(u) : i \in 1 .. Len(t) \/ i = Len(t) + 1
    BY <1>0, <2>1
  <2>4. \A i \in 1 .. Len(u) : u[i] = s[b[i]] /\ u[i] \in S
    <3> TAKE i \in 1 .. Len(u)
    <3>1. CASE i \in 1 .. Len(t)
      BY <1>0, <2>1, <2>2, <3>1
    <3>2. CASE i = Len(t) + 1
      BY <1>2, <2>1, <2>2, <3>2
    <3> QED
      BY <2>3, <3>1, <3>2
  <2>5. \A i, j \in 1 .. Len(u) : i < j => b[i] < b[j]
    <3> SUFFICES ASSUME NEW i \in 1 .. Len(u), NEW j \in 1 .. Len(u), i < j
                 PROVE  b[i] < b[j]
      OBVIOUS
    <3>1. i \in 1 .. Len(t)
      BY <1>0, <2>1
    <3>2. CASE j = Len(t) + 1
      BY <2>2, <3>1, <3>2
    <3>3. CASE j \in 1 .. Len(t)
      BY <1>0, <2>2, <3>1, <3>3
    <3> QED
      BY <2>3, <3>2, <3>3
  <2>6. ASSUME NEW k \in 1 .. n + 1, s[k] \in S PROVE \E i \in 1 .. Len(u) : b[i] = k
    <3>1. CASE k = n + 1
      <4>1. Len(t) + 1 \in 1 .. Len(u)
        BY <1>0, <2>1
      <4> QED
        BY <2>2, <3>1, <4>1
    <3>2. CASE k \in 1 .. n
      <4>1. PICK i \in 1 .. Len(t) : at[i] = k
        BY <1>0, <2>6, <3>2
      <4>2. i \in 1 .. Len(u)
        BY <1>0, <2>1
      <4> QED
        BY <2>2, <4>1, <4>2
    <3> QED
      BY <3>1, <3>2
  <2>7. Picks(u, b, n + 1, s, S)
    BY <2>1, <2>2, <2>4, <2>5, <2>6 DEF Picks
  <2> QED
    BY <2>7
<1> QED
  BY <1>1, <1>2

LEMMA SelectedIs ==
  ASSUME NEW A, NEW s \in Seq(A), NEW S
  PROVE  /\ Selected(s, S) \in Seq(A)
         /\ \E at : Picks(Selected(s, S), at, Len(s), s, S)
<1>0. PICK f : Selects(f, A, s, S)
  BY SelectedStep
<1>1. /\ Selected(s, S) = f[Len(s)] /\ f[0] = <<>>
      /\ f \in [0 .. Len(s) -> Seq(A)]
      /\ \A i \in 1 .. Len(s) :
           f[i] = IF s[i] \in S THEN Append(f[i - 1], s[i]) ELSE f[i - 1]
  BY <1>0 DEF Selects
<1> DEFINE T == {n \in Nat : n <= Len(s) => \E at : Picks(f[n], at, n, s, S)}
<1>2. 0 \in T
  <2>1. Picks(<<>>, <<>>, 0, s, S)
    BY DEF Picks
  <2> QED
    BY <1>1, <2>1
<1>3. ASSUME NEW n \in T PROVE n + 1 \in T
  <2>0. n \in Nat /\ Len(s) \in Nat
    OBVIOUS
  <2>1. ASSUME n + 1 <= Len(s) PROVE \E at : Picks(f[n + 1], at, n + 1, s, S)
    <3>1. PICK at : Picks(f[n], at, n, s, S)
      BY <2>0, <2>1
    <3>2. n + 1 \in 1 .. Len(s) /\ (n + 1) - 1 = n /\ f[n] \in Seq(A)
      <4>1. n \in 0 .. Len(s) /\ n + 1 \in 1 .. Len(s) /\ (n + 1) - 1 = n
        BY <2>0, <2>1
      <4> QED
        BY <1>1, <4>1
    <3>3. f[n + 1] = IF s[n + 1] \in S THEN Append(f[n], s[n + 1]) ELSE f[n]
      BY <1>1, <3>2
    <3> QED
      BY <2>0, <2>1, <3>1, <3>2, <3>3, PicksStep
  <2> QED
    BY <2>0, <2>1
<1>4. T = Nat
  <2> HIDE DEF T
  <2>1. T \subseteq Nat
    BY DEF T
  <2> QED
    BY <1>2, <1>3, <2>1, Induction
<1>5. Len(s) \in Nat
  OBVIOUS
<1> QED
  BY <1>1, <1>4, <1>5

-----------------------------------------------------------------------------
(* Sequences as sets. *)

Distinct(s) == \A i, j \in 1 .. Len(s) : s[i] = s[j] => i = j

LEMMA ToSetIs ==
  ASSUME NEW A, NEW s \in Seq(A)
  PROVE  /\ ToSet(s) = {s[i] : i \in 1 .. Len(s)}
         /\ ToSet(s) \subseteq A
         /\ IsInjective(s) <=> Distinct(s)
         /\ s = <<>> <=> ToSet(s) = {}
<1>1. /\ Len(s) \in Nat /\ DOMAIN s = 1 .. Len(s)
      /\ \A i \in 1 .. Len(s) : s[i] \in A
      /\ s = <<>> <=> Len(s) = 0
  OBVIOUS
<1>2. ToSet(s) = {s[i] : i \in 1 .. Len(s)} /\ ToSet(s) \subseteq A
  BY <1>1 DEF ToSet
<1>3. IsInjective(s) <=> Distinct(s)
  BY <1>1 DEF IsInjective, Distinct
<1>4. ASSUME s # <<>> PROVE ToSet(s) # {}
  <2>1. 1 \in 1 .. Len(s)
    BY <1>1, <1>4
  <2> QED
    BY <1>2, <2>1
<1>5. s = <<>> => ToSet(s) = {}
  BY <1>1, <1>2
<1> QED
  BY <1>2, <1>3, <1>4, <1>5

LEMMA ToSetAppend ==
  ASSUME NEW A, NEW s \in Seq(A), NEW x \in A
  PROVE  /\ Append(s, x) \in Seq(A)
         /\ ToSet(Append(s, x)) = ToSet(s) \cup {x}
         /\ Distinct(s) /\ x \notin ToSet(s) => Distinct(Append(s, x))
<1>1. /\ Append(s, x) \in Seq(A) /\ Len(s) \in Nat /\ Len(Append(s, x)) = Len(s) + 1
      /\ \A i \in 1 .. Len(s) : Append(s, x)[i] = s[i]
      /\ Append(s, x)[Len(s) + 1] = x
      /\ \A i \in 1 .. Len(s) + 1 : i \in 1 .. Len(s) \/ i = Len(s) + 1
      /\ Len(s) + 1 \in 1 .. Len(s) + 1 /\ \A i \in 1 .. Len(s) : i \in 1 .. Len(s) + 1
  BY AppendIs
<1>2. /\ ToSet(s) = {s[i] : i \in 1 .. Len(s)}
      /\ ToSet(Append(s, x)) = {Append(s, x)[i] : i \in 1 .. Len(Append(s, x))}
  BY <1>1, ToSetIs
<1>3. ToSet(Append(s, x)) = ToSet(s) \cup {x}
  BY <1>1, <1>2
<1>4. ASSUME Distinct(s), x \notin ToSet(s),
             NEW i \in 1 .. Len(s) + 1, NEW j \in 1 .. Len(s) + 1, Append(s, x)[i] = Append(s, x)[j]
      PROVE  i = j
  BY <1>1, <1>2, <1>4 DEF Distinct
<1> QED
  BY <1>1, <1>3, <1>4 DEF Distinct

LEMMA ToSetTail ==
  ASSUME NEW A, NEW s \in Seq(A), s # <<>>, Distinct(s)
  PROVE  /\ Head(s) \in A /\ Tail(s) \in Seq(A)
         /\ Distinct(Tail(s))
         /\ ToSet(Tail(s)) = ToSet(s) \ {Head(s)}
         /\ Head(s) \in ToSet(s)
<1>1. /\ Head(s) \in A /\ Head(s) = s[1] /\ Tail(s) \in Seq(A)
      /\ Len(s) \in Nat \ {0} /\ Len(Tail(s)) = Len(s) - 1
      /\ \A i \in 1 .. Len(s) - 1 : Tail(s)[i] = s[i + 1]
  BY HeadTail
<1>2. /\ ToSet(s) = {s[i] : i \in 1 .. Len(s)}
      /\ ToSet(Tail(s)) = {Tail(s)[i] : i \in 1 .. Len(s) - 1}
  <2>1. ToSet(s) = {s[i] : i \in 1 .. Len(s)}
    BY ToSetIs
  <2>2. ToSet(Tail(s)) = {Tail(s)[i] : i \in 1 .. Len(Tail(s))}
    BY <1>1, ToSetIs
  <2> QED
    BY <1>1, <2>1, <2>2
<1>3. /\ 1 \in 1 .. Len(s)
      /\ \A i \in 1 .. Len(s) - 1 : i + 1 \in 1 .. Len(s) /\ i + 1 # 1
      /\ \A i \in 1 .. Len(s) : i # 1 => i - 1 \in 1 .. Len(s) - 1 /\ (i - 1) + 1 = i
      /\ \A i, j \in 1 .. Len(s) - 1 : i + 1 = j + 1 => i = j
  BY <1>1
<1>4. Distinct(Tail(s))
  BY <1>1, <1>3 DEF Distinct
<1>5. ASSUME NEW x \in ToSet(Tail(s)) PROVE x \in ToSet(s) \ {Head(s)}
  <2>1. PICK i \in 1 .. Len(s) - 1 : x = s[i + 1]
    BY <1>1, <1>2
  <2> QED
    BY <1>1, <1>2, <1>3, <2>1 DEF Distinct
<1>6. ASSUME NEW x \in ToSet(s) \ {Head(s)} PROVE x \in ToSet(Tail(s))
  <2>1. PICK i \in 1 .. Len(s) : x = s[i]
    BY <1>2
  <2>2. i - 1 \in 1 .. Len(s) - 1 /\ Tail(s)[i - 1] = x
    BY <1>1, <1>3, <1>6, <2>1
  <2> QED
    BY <1>2, <2>2
<1>7. Head(s) \in ToSet(s)
  BY <1>1, <1>2, <1>3
<1> QED
  BY <1>1, <1>4, <1>5, <1>6, <1>7

LEMMA ToSetConcat ==
  ASSUME NEW A, NEW s \in Seq(A), NEW t \in Seq(A)
  PROVE  /\ s \o t \in Seq(A)
         /\ ToSet(s \o t) = ToSet(s) \cup ToSet(t)
         /\ Distinct(s) /\ Distinct(t) /\ ToSet(s) \cap ToSet(t) = {} => Distinct(s \o t)
<1>1. /\ s \o t \in Seq(A) /\ Len(s) \in Nat /\ Len(t) \in Nat
      /\ Len(s \o t) = Len(s) + Len(t)
      /\ \A i \in 1 .. Len(s) + Len(t) :
           (s \o t)[i] = IF i <= Len(s) THEN s[i] ELSE t[i - Len(s)]
  BY ConcatProperties
<1>2. /\ ToSet(s) = {s[i] : i \in 1 .. Len(s)} /\ ToSet(t) = {t[i] : i \in 1 .. Len(t)}
      /\ ToSet(s \o t) = {(s \o t)[i] : i \in 1 .. Len(s) + Len(t)}
  <2>1. ToSet(s) = {s[i] : i \in 1 .. Len(s)} /\ ToSet(t) = {t[i] : i \in 1 .. Len(t)}
    BY ToSetIs
  <2>2. ToSet(s \o t) = {(s \o t)[i] : i \in 1 .. Len(s \o t)}
    BY <1>1, ToSetIs
  <2> QED
    BY <1>1, <2>1, <2>2
<1>3. \A i \in 1 .. Len(s) + Len(t) :
        \/ i \in 1 .. Len(s) /\ (s \o t)[i] = s[i]
        \/ i > Len(s) /\ i - Len(s) \in 1 .. Len(t) /\ (s \o t)[i] = t[i - Len(s)]
  BY <1>1
<1>4. ASSUME NEW x \in ToSet(s) PROVE x \in ToSet(s \o t)
  <2>1. PICK i \in 1 .. Len(s) : x = s[i]
    BY <1>2
  <2>2. i \in 1 .. Len(s) + Len(t) /\ (s \o t)[i] = s[i]
    BY <1>1
  <2> QED
    BY <1>2, <2>1, <2>2
<1>5. ASSUME NEW x \in ToSet(t) PROVE x \in ToSet(s \o t)
  <2>1. PICK i \in 1 .. Len(t) : x = t[i]
    BY <1>2
  <2>2. /\ Len(s) + i \in 1 .. Len(s) + Len(t) /\ ~ (Len(s) + i <= Len(s))
        /\ (Len(s) + i) - Len(s) = i
    BY <1>1
  <2>3. (s \o t)[Len(s) + i] = t[i]
    BY <1>1, <2>2
  <2> QED
    BY <1>2, <2>1, <2>2, <2>3
<1>6. ToSet(s \o t) \subseteq ToSet(s) \cup ToSet(t)
  BY <1>2, <1>3
<1>7. ASSUME Distinct(s), Distinct(t), ToSet(s) \cap ToSet(t) = {},
             NEW i \in 1 .. Len(s) + Len(t), NEW j \in 1 .. Len(s) + Len(t),
             (s \o t)[i] = (s \o t)[j]
      PROVE  i = j
  <2>1. CASE i \in 1 .. Len(s) /\ j \in 1 .. Len(s)
    BY <1>3, <1>7, <2>1 DEF Distinct
  <2>2. CASE i > Len(s) /\ j > Len(s)
    <3>0. /\ i - Len(s) \in 1 .. Len(t) /\ j - Len(s) \in 1 .. Len(t)
          /\ t[i - Len(s)] = t[j - Len(s)]
      <4>1. ~ (i \in 1 .. Len(s)) /\ ~ (j \in 1 .. Len(s))
        BY <1>1, <2>2
      <4> QED
        BY <1>3, <1>7, <4>1
    <3>1. i - Len(s) = j - Len(s)
      BY <1>7, <3>0 DEF Distinct
    <3> QED
      BY <1>1, <3>1
  <2>3. CASE i \in 1 .. Len(s) /\ j > Len(s)
    <3>1. (s \o t)[i] = s[i] /\ s[i] \in ToSet(s)
      BY <1>1, <1>2, <2>3
    <3>2. ~ (j \in 1 .. Len(s))
      BY <1>1, <2>3
    <3>3. j - Len(s) \in 1 .. Len(t) /\ (s \o t)[j] = t[j - Len(s)]
      BY <1>3, <3>2
    <3>4. (s \o t)[j] \in ToSet(t)
      BY <1>2, <3>3
    <3> QED
      BY <1>7, <3>1, <3>4
  <2>4. CASE i > Len(s) /\ j \in 1 .. Len(s)
    <3>1. (s \o t)[j] = s[j] /\ s[j] \in ToSet(s)
      BY <1>1, <1>2, <2>4
    <3>2. ~ (i \in 1 .. Len(s))
      BY <1>1, <2>4
    <3>3. i - Len(s) \in 1 .. Len(t) /\ (s \o t)[i] = t[i - Len(s)]
      BY <1>3, <3>2
    <3>4. (s \o t)[i] \in ToSet(t)
      BY <1>2, <3>3
    <3> QED
      BY <1>7, <3>1, <3>4
  <2> QED
    BY <1>3, <2>1, <2>2, <2>3, <2>4
<1> QED
  BY <1>1, <1>4, <1>5, <1>6, <1>7 DEF Distinct

\* What Selected gives, as a set.
LEMMA ToSetSelected ==
  ASSUME NEW A, NEW s \in Seq(A), NEW S
  PROVE  /\ Selected(s, S) \in Seq(A)
         /\ ToSet(Selected(s, S)) = ToSet(s) \cap S
         /\ Distinct(s) => Distinct(Selected(s, S))
<1> DEFINE t == Selected(s, S)
<1>1. t \in Seq(A) /\ \E at : Picks(t, at, Len(s), s, S)
  BY SelectedIs
<1> HIDE DEF t
<1>2. PICK at : Picks(t, at, Len(s), s, S)
  BY <1>1
<1>3. /\ at \in [1 .. Len(t) -> 1 .. Len(s)] /\ Len(t) \in Nat /\ Len(s) \in Nat
      /\ \A i \in 1 .. Len(t) : t[i] = s[at[i]] /\ t[i] \in S
      /\ \A i, j \in 1 .. Len(t) : i < j => at[i] < at[j]
      /\ \A k \in 1 .. Len(s) : s[k] \in S => \E i \in 1 .. Len(t) : at[i] = k
  BY <1>1, <1>2 DEF Picks
<1>4. /\ ToSet(s) = {s[i] : i \in 1 .. Len(s)} /\ ToSet(t) = {t[i] : i \in 1 .. Len(t)}
  BY <1>1, ToSetIs
<1>5. ToSet(t) = ToSet(s) \cap S
  <2>1. \A i \in 1 .. Len(t) : at[i] \in 1 .. Len(s)
    BY <1>3
  <2>2. ASSUME NEW x \in ToSet(s) \cap S PROVE x \in ToSet(t)
    <3>1. PICK k \in 1 .. Len(s) : x = s[k]
      BY <1>4
    <3>2. PICK i \in 1 .. Len(t) : at[i] = k
      BY <1>3, <2>2, <3>1
    <3> QED
      BY <1>3, <1>4, <3>1, <3>2
  <2>3. ASSUME NEW x \in ToSet(t) PROVE x \in ToSet(s) \cap S
    <3>1. PICK i \in 1 .. Len(t) : x = t[i]
      BY <1>4
    <3>2. x = s[at[i]] /\ x \in S /\ at[i] \in 1 .. Len(s)
      BY <1>3, <2>1, <3>1
    <3> QED
      BY <1>4, <3>2
  <2> QED
    BY <2>2, <2>3, Zenon
<1>6. ASSUME Distinct(s), NEW i \in 1 .. Len(t), NEW j \in 1 .. Len(t), t[i] = t[j]
      PROVE  i = j
  <2>1. at[i] = at[j]
    BY <1>3, <1>6, SMTT(30) DEF Distinct
  <2>2. ~ (i < j) /\ ~ (j < i)
    BY <1>3, <2>1
  <2> QED
    BY <1>3, <2>2
<1> QED
  BY <1>1, <1>5, <1>6 DEF Distinct, t

-----------------------------------------------------------------------------
(* Kahn's algorithm. *)

KahnState == [queue : Seq(Components), sorted : Seq(Components), inDegree : [Components -> Int]]

\* A step of the loop: nothing once the queue is empty.
Go(deps, s) == IF s.queue = <<>> THEN s ELSE Dequeue(deps, s)

AtFirst(deps) ==
  [queue    |-> Selected(Order, {c \in Components : deps[c] = {}}),
   sorted   |-> <<>>,
   inDegree |-> [c \in Components |-> Cardinality(deps[c])]]

\* The loop as it goes: step is what Kahn's states are.
Goes(step, deps) ==
  /\ step \in [0 .. Len(Order) -> KahnState] /\ step[0] = AtFirst(deps)
  /\ \A n \in 1 .. Len(Order) : step[n] = Go(deps, step[n - 1])
  /\ Sorting(deps) = step[Len(Order)].sorted

LEMMA ComponentsAre ==
  /\ Order \in Seq(Components) /\ Len(Order) \in Nat
  /\ Distinct(Order) /\ ToSet(Order) = Components
  /\ IsFiniteSet(Components) /\ Cardinality(Components) = Len(Order)
<1>1. Order \in Seq(Components) /\ IsInjective(Order) /\ ToSet(Order) = Components
  BY RobotAssumption DEF Components
<1>2. Len(Order) \in Nat /\ Distinct(Order) /\ ToSet(Order) = {Order[i] : i \in 1 .. Len(Order)}
  <2>1. /\ ToSet(Order) = {Order[i] : i \in 1 .. Len(Order)}
        /\ IsInjective(Order) <=> Distinct(Order)
    BY <1>1, ToSetIs
  <2>2. Len(Order) \in Nat
    BY <1>1, LenProperties
  <2> QED
    BY <1>1, <2>1, <2>2
<1>3. Order \in Bijection(1 .. Len(Order), Components)
  <2>1. /\ Order \in [1 .. Len(Order) -> Components]
        /\ \A i, j \in 1 .. Len(Order) : Order[i] = Order[j] => i = j
        /\ \A c \in Components : \E i \in 1 .. Len(Order) : Order[i] = c
    BY <1>1, <1>2 DEF Distinct
  <2>2. Order \in Injection(1 .. Len(Order), Components)
    BY <2>1 DEF Injection, IsInjective
  <2>3. Order \in Surjection(1 .. Len(Order), Components)
    BY <2>1 DEF Surjection
  <2> QED
    BY <2>2, <2>3 DEF Bijection
<1>4. ExistsBijection(1 .. Len(Order), Components)
  BY <1>3 DEF ExistsBijection
<1>5. IsFiniteSet(1 .. Len(Order)) /\ Cardinality(1 .. Len(Order)) = Len(Order)
  BY <1>2, FS_Interval, SMTT(30)
<1> QED
  BY <1>1, <1>2, <1>4, <1>5, FS_Bijection

\* As many distinct components as there are: all of them.
LEMMA AllSorted ==
  ASSUME NEW s \in Seq(Components), Distinct(s)
  PROVE  /\ Len(s) <= Len(Order)
         /\ Len(s) = Len(Order) <=> ToSet(s) = Components
<1>1. Len(s) \in Nat /\ ToSet(s) = {s[i] : i \in 1 .. Len(s)} /\ ToSet(s) \subseteq Components
  BY ToSetIs
<1>2. s \in Bijection(1 .. Len(s), ToSet(s))
  <2>1. /\ s \in [1 .. Len(s) -> ToSet(s)]
        /\ \A i, j \in 1 .. Len(s) : s[i] = s[j] => i = j
        /\ \A c \in ToSet(s) : \E i \in 1 .. Len(s) : s[i] = c
    BY <1>1 DEF Distinct
  <2>2. s \in Injection(1 .. Len(s), ToSet(s))
    BY <2>1 DEF Injection, IsInjective
  <2>3. s \in Surjection(1 .. Len(s), ToSet(s))
    BY <2>1 DEF Surjection
  <2> QED
    BY <2>2, <2>3 DEF Bijection
<1>3. ExistsBijection(1 .. Len(s), ToSet(s))
  BY <1>2 DEF ExistsBijection
<1>4. Cardinality(ToSet(s)) = Len(s)
  <2>1. IsFiniteSet(1 .. Len(s)) /\ Cardinality(1 .. Len(s)) = Len(s)
    BY <1>1, FS_Interval, SMTT(30)
  <2> QED
    BY <1>3, <2>1, FS_Bijection
<1>5. /\ Cardinality(ToSet(s)) <= Cardinality(Components)
      /\ Cardinality(Components) = Cardinality(ToSet(s)) => Components = ToSet(s)
  BY <1>1, ComponentsAre, FS_Subset
<1> QED
  BY <1>1, <1>4, <1>5, ComponentsAre

LEMMA FirstState ==
  ASSUME NEW deps \in [Components -> SUBSET Components]
  PROVE  /\ AtFirst(deps) \in KahnState
         /\ Distinct(AtFirst(deps).queue)
         /\ ToSet(AtFirst(deps).queue) = {c \in Components : deps[c] = {}}
<1>1. \A c \in Components : Cardinality(deps[c]) \in Int
  <2> TAKE c \in Components
  <2>1. IsFiniteSet(deps[c])
    BY ComponentsAre, FS_Subset
  <2> QED
    BY <2>1, FS_CardinalityType
<1>2. [c \in Components |-> Cardinality(deps[c])] \in [Components -> Int]
  BY <1>1
<1>3. <<>> \in Seq(Components)
  OBVIOUS
<1> DEFINE S == {c \in Components : deps[c] = {}}
<1>4. /\ Selected(Order, S) \in Seq(Components) /\ Distinct(Selected(Order, S))
      /\ ToSet(Selected(Order, S)) = Components \cap S
  <2> HIDE DEF S
  <2> QED
    BY ComponentsAre, ToSetSelected
<1>5. Components \cap S = S
  OBVIOUS
<1> QED
  BY <1>2, <1>3, <1>4, <1>5 DEF AtFirst, KahnState

\* What a Dequeue does, without the order of the queue.
LEMMA DequeueIs ==
  ASSUME NEW deps \in [Components -> SUBSET Components],
         NEW s \in KahnState, s.queue # <<>>
  PROVE  LET h == Head(s.queue)
             freed == {c \in Components : h \in deps[c] /\ s.inDegree[c] = 1}
             t == Dequeue(deps, s)
         IN  /\ t \in KahnState /\ h \in Components
             /\ t.sorted = Append(s.sorted, h)
             /\ t.inDegree = [c \in Components |-> IF h \in deps[c] THEN s.inDegree[c] - 1
                                                                   ELSE s.inDegree[c]]
             /\ Distinct(s.queue) => /\ h \in ToSet(s.queue)
                                     /\ ToSet(t.queue) = (ToSet(s.queue) \ {h}) \cup freed
             /\ Distinct(s.queue) /\ ToSet(s.queue) \cap freed = {} => Distinct(t.queue)
<1> DEFINE h == Head(s.queue)
           freed == {c \in Components : h \in deps[c] /\ s.inDegree[c] = 1}
           t == Dequeue(deps, s)
           down == [c \in Components |-> IF h \in deps[c] THEN s.inDegree[c] - 1
                                                         ELSE s.inDegree[c]]
<1>1. /\ s.queue \in Seq(Components) /\ s.sorted \in Seq(Components)
      /\ s.inDegree \in [Components -> Int]
  BY DEF KahnState
<1>2. h \in Components /\ Tail(s.queue) \in Seq(Components)
  BY <1>1, HeadTail
<1>3. down \in [Components -> Int]
  BY <1>1
<1>4. /\ Selected(Order, freed) \in Seq(Components) /\ Distinct(Selected(Order, freed))
      /\ ToSet(Selected(Order, freed)) = freed
  <2>1. /\ Selected(Order, freed) \in Seq(Components) /\ Distinct(Selected(Order, freed))
        /\ ToSet(Selected(Order, freed)) = Components \cap freed
    <3> HIDE DEF freed
    <3> QED
      BY ComponentsAre, ToSetSelected
  <2>2. Components \cap freed = freed
    OBVIOUS
  <2> QED
    BY <2>1, <2>2
<1>5. t = [queue |-> Tail(s.queue) \o Selected(Order, freed),
           sorted |-> Append(s.sorted, h), inDegree |-> down]
  BY DEF Dequeue
<1> HIDE DEF freed, down, h, t
<1>6. Append(s.sorted, h) \in Seq(Components)
  BY <1>1, <1>2, ToSetAppend
<1>7. /\ Tail(s.queue) \o Selected(Order, freed) \in Seq(Components)
      /\ ToSet(Tail(s.queue) \o Selected(Order, freed)) = ToSet(Tail(s.queue)) \cup freed
      /\ Distinct(Tail(s.queue)) /\ ToSet(Tail(s.queue)) \cap freed = {}
         => Distinct(Tail(s.queue) \o Selected(Order, freed))
  <2> DEFINE a == Tail(s.queue)
             b == Selected(Order, freed)
  <2> HIDE DEF a, b
  <2>1. a \in Seq(Components) /\ b \in Seq(Components) /\ Distinct(b) /\ ToSet(b) = freed
    BY <1>2, <1>4 DEF a, b
  <2>2. /\ a \o b \in Seq(Components) /\ ToSet(a \o b) = ToSet(a) \cup ToSet(b)
        /\ Distinct(a) /\ Distinct(b) /\ ToSet(a) \cap ToSet(b) = {} => Distinct(a \o b)
    BY <2>1, ToSetConcat
  <2> QED
    BY <2>1, <2>2 DEF a, b
<1>8. t \in KahnState /\ t.sorted = Append(s.sorted, h) /\ t.inDegree = down
  BY <1>3, <1>5, <1>6, <1>7 DEF KahnState
<1>9. ASSUME Distinct(s.queue)
      PROVE  /\ h \in ToSet(s.queue) /\ ToSet(Tail(s.queue)) = ToSet(s.queue) \ {h}
             /\ Distinct(Tail(s.queue))
  BY <1>1, <1>9, ToSetTail DEF h
<1>10. t.queue = Tail(s.queue) \o Selected(Order, freed)
  BY <1>5
<1>11. ASSUME Distinct(s.queue)
       PROVE  /\ h \in ToSet(s.queue) /\ ToSet(t.queue) = (ToSet(s.queue) \ {h}) \cup freed
              /\ ToSet(s.queue) \cap freed = {} => Distinct(t.queue)
  BY <1>7, <1>9, <1>10, <1>11
<1> QED
  BY <1>2, <1>8, <1>11 DEF h, freed, t, down

LEMMA GoIs ==
  ASSUME NEW deps \in [Components -> SUBSET Components], NEW s \in KahnState
  PROVE  Go(deps, s) \in KahnState
<1>1. CASE s.queue = <<>>
  BY <1>1 DEF Go
<1>2. CASE s.queue # <<>>
  BY <1>2, DequeueIs DEF Go
<1> QED
  BY <1>1, <1>2

LEMMA KahnGoes ==
  ASSUME NEW deps \in [Components -> SUBSET Components]
  PROVE  \E step : Goes(step, deps)
<1> DEFINE R(f) == f = [n \in 0 .. Len(Order) |->
                          IF n = 0 THEN AtFirst(deps)
                          ELSE IF f[n - 1].queue = <<>> THEN f[n - 1]
                                                        ELSE Dequeue(deps, f[n - 1])]
           go == [s \in KahnState |-> Go(deps, s)]
           g == [i \in 1 .. Len(Order) |-> go]
<1>0. Len(Order) \in Nat /\ AtFirst(deps) \in KahnState
  BY ComponentsAre, FirstState
<1>1. go \in [KahnState -> KahnState] /\ \A s \in KahnState : go[s] = Go(deps, s)
  BY GoIs
<1>2. g \in [1 .. Len(Order) -> [KahnState -> KahnState]] /\ \A i \in 1 .. Len(Order) : g[i] = go
  <2> HIDE DEF go
  <2> QED
    BY <1>1
<1> HIDE DEF go, g
<1>3. PICK f : Follows(f, Len(Order), KahnState, AtFirst(deps), g)
  BY <1>0, <1>2, Recursion
<1>4. /\ f \in [0 .. Len(Order) -> KahnState] /\ f[0] = AtFirst(deps)
      /\ \A n \in 1 .. Len(Order) : f[n] = g[n][f[n - 1]]
  BY <1>3 DEF Follows
<1>5. \A n \in 1 .. Len(Order) : f[n] = Go(deps, f[n - 1])
  <2> TAKE n \in 1 .. Len(Order)
  <2>1. f[n - 1] \in KahnState
    BY <1>0, <1>4
  <2> QED
    BY <1>1, <1>2, <1>4, <2>1
<1>6. R(f)
  <2>1. f = [n \in 0 .. Len(Order) |-> f[n]]
    BY <1>4
  <2>2. ASSUME NEW n \in 0 .. Len(Order)
        PROVE  f[n] = IF n = 0 THEN AtFirst(deps)
                      ELSE IF f[n - 1].queue = <<>> THEN f[n - 1]
                                                    ELSE Dequeue(deps, f[n - 1])
    <3>1. CASE n = 0
      BY <1>4, <3>1
    <3>2. CASE n # 0
      <4>1. n \in 1 .. Len(Order)
        BY <1>0, <3>2
      <4> QED
        BY <1>5, <3>2, <4>1 DEF Go
    <3> QED
      BY <3>1, <3>2
  <2> QED
    BY <2>1, <2>2
<1> DEFINE F == CHOOSE h : R(h)
<1>7. R(F)
  BY <1>6, Zenon
<1>8. Kahn(deps) = F
  BY DEF Kahn, AtFirst, Zenon
<1>9. F[0] = AtFirst(deps) /\ \A n \in 1 .. Len(Order) : F[n] = Go(deps, F[n - 1])
  <2> HIDE DEF F
  <2>1. \A n \in 0 .. Len(Order) :
          F[n] = IF n = 0 THEN AtFirst(deps)
                 ELSE IF F[n - 1].queue = <<>> THEN F[n - 1] ELSE Dequeue(deps, F[n - 1])
    BY <1>7
  <2>2. 0 \in 0 .. Len(Order) /\ \A n \in 1 .. Len(Order) : n \in 0 .. Len(Order) /\ n # 0
    BY <1>0
  <2> QED
    BY <2>1, <2>2, Zenon DEF Go
<1>10. F \in [0 .. Len(Order) -> KahnState]
  <2> HIDE DEF F
  <2> DEFINE T == {n \in Nat : n <= Len(Order) => F[n] \in KahnState}
  <2>1. 0 \in T
    BY <1>0, <1>9
  <2>2. ASSUME NEW n \in T PROVE n + 1 \in T
    <3> SUFFICES ASSUME n + 1 <= Len(Order) PROVE F[n + 1] \in KahnState
      OBVIOUS
    <3>1. F[n] \in KahnState /\ n + 1 \in 1 .. Len(Order) /\ (n + 1) - 1 = n
      BY <1>0
    <3>2. F[n + 1] = Go(deps, F[n])
      BY <1>9, <3>1
    <3> QED
      BY <3>1, <3>2, GoIs
  <2>3. T = Nat
    <3> HIDE DEF T
    <3>1. T \subseteq Nat
      BY DEF T
    <3> QED
      BY <2>1, <2>2, <3>1, Induction
  <2>4. \A n \in 0 .. Len(Order) : F[n] \in KahnState
    BY <1>0, <2>3
  <2> QED
    BY <1>7, <2>4
<1>11. Sorting(deps) = F[Len(Order)].sorted
  <2> HIDE DEF F
  <2> QED
    BY <1>8 DEF Sorting
<1> QED
  <2> HIDE DEF F
  <2> QED
    BY <1>9, <1>10, <1>11 DEF Goes

\* What holds of every state of the loop: each component is sorted or queued once; its
\* in-degree counts the dependencies not sorted yet; those at zero are sorted or queued;
\* and a sorted component comes after its dependencies.
Sound(deps, s) ==
  /\ Distinct(s.sorted) /\ Distinct(s.queue) /\ ToSet(s.sorted) \cap ToSet(s.queue) = {}
  /\ \A c \in Components : s.inDegree[c] = Cardinality(deps[c] \ ToSet(s.sorted))
  /\ \A c \in Components :
       c \in ToSet(s.sorted) \cup ToSet(s.queue) <=> deps[c] \subseteq ToSet(s.sorted)
  /\ \A i \in 1 .. Len(s.sorted) : \A d \in deps[s.sorted[i]] :
       \E j \in 1 .. i - 1 : s.sorted[j] = d

LEMMA SoundFirst ==
  ASSUME NEW deps \in [Components -> SUBSET Components]
  PROVE  Sound(deps, AtFirst(deps))
<1> DEFINE s == AtFirst(deps)
<1>1. s.sorted = <<>> /\ \A c \in Components : s.inDegree[c] = Cardinality(deps[c])
  BY DEF AtFirst
<1>2. s.queue \in Seq(Components) /\ ToSet(s.queue) = {c \in Components : deps[c] = {}}
      /\ Distinct(s.queue)
  BY FirstState DEF KahnState
<1>3. ToSet(<<>>) = {} /\ Distinct(<<>>) /\ Len(<<>>) = 0
  <2>1. <<>> \in Seq(Components)
    OBVIOUS
  <2>2. ToSet(<<>>) = {}
    BY <2>1, ToSetIs
  <2>3. Len(<<>>) = 0
    OBVIOUS
  <2> QED
    BY <2>2, <2>3 DEF Distinct
<1> HIDE DEF s
<1>4. \A c \in Components : deps[c] \ ToSet(s.sorted) = deps[c]
  BY <1>1, <1>3
<1>5. \A c \in Components :
       c \in ToSet(s.sorted) \cup ToSet(s.queue) <=> deps[c] \subseteq ToSet(s.sorted)
  BY <1>1, <1>2, <1>3
<1>6. \A i \in 1 .. Len(s.sorted) : FALSE
  BY <1>1, <1>3
<1>7. Sound(deps, s)
  BY <1>1, <1>2, <1>3, <1>4, <1>5, <1>6 DEF Sound
<1> QED
  BY <1>7 DEF s

LEMMA SoundNext ==
  ASSUME NEW deps \in [Components -> SUBSET Components],
         NEW s \in KahnState, s.queue # <<>>, Sound(deps, s)
  PROVE  Sound(deps, Dequeue(deps, s))
<1> DEFINE h == Head(s.queue)
           freed == {c \in Components : h \in deps[c] /\ s.inDegree[c] = 1}
           t == Dequeue(deps, s)
           done == ToSet(s.sorted)
<1>1. /\ s.queue \in Seq(Components) /\ s.sorted \in Seq(Components)
      /\ s.inDegree \in [Components -> Int]
  BY DEF KahnState
<1>2. /\ t \in KahnState /\ h \in Components
      /\ t.sorted = Append(s.sorted, h)
      /\ t.inDegree = [c \in Components |-> IF h \in deps[c] THEN s.inDegree[c] - 1
                                                            ELSE s.inDegree[c]]
      /\ h \in ToSet(s.queue) /\ ToSet(t.queue) = (ToSet(s.queue) \ {h}) \cup freed
      /\ ToSet(s.queue) \cap freed = {} => Distinct(t.queue)
  BY DequeueIs DEF Sound
<1> HIDE DEF h, t
<1>3. /\ done \subseteq Components /\ done \cap ToSet(s.queue) = {}
      /\ Distinct(s.sorted)
      /\ \A c \in Components : s.inDegree[c] = Cardinality(deps[c] \ done)
      /\ \A c \in Components : c \in done \cup ToSet(s.queue) <=> deps[c] \subseteq done
      /\ \A i \in 1 .. Len(s.sorted) : \A d \in deps[s.sorted[i]] :
           \E j \in 1 .. i - 1 : s.sorted[j] = d
  BY <1>1, ToSetIs DEF Sound
<1>4. ToSet(t.sorted) = done \cup {h} /\ h \notin done /\ Distinct(t.sorted)
  BY <1>1, <1>2, <1>3, ToSetAppend
<1>5. ASSUME NEW c \in Components
      PROVE  /\ IsFiniteSet(deps[c] \ done)
             /\ c \in freed <=> h \in deps[c] /\ deps[c] \ done = {h}
             /\ t.inDegree[c] = Cardinality(deps[c] \ (done \cup {h}))
  <2>1. IsFiniteSet(deps[c]) /\ IsFiniteSet(deps[c] \ done)
    BY ComponentsAre, FS_Subset
  <2>2. Cardinality(deps[c] \ done) = 1 <=> \E x : deps[c] \ done = {x}
    BY <2>1, FS_Singleton
  <2>3. c \in freed <=> h \in deps[c] /\ deps[c] \ done = {h}
    BY <1>3, <1>4, <2>2
  <2>4. (deps[c] \ done) \ {h} = deps[c] \ (done \cup {h})
    OBVIOUS
  <2>5. Cardinality((deps[c] \ done) \ {h}) =
          IF h \in deps[c] \ done THEN Cardinality(deps[c] \ done) - 1
                                  ELSE Cardinality(deps[c] \ done)
    BY <2>1, FS_RemoveElement
  <2>6. h \in deps[c] \ done <=> h \in deps[c]
    BY <1>4
  <2>7. t.inDegree[c] = Cardinality(deps[c] \ (done \cup {h}))
    <3>1. s.inDegree[c] = Cardinality(deps[c] \ done)
      BY <1>3
    <3>2. t.inDegree[c] = IF h \in deps[c] THEN s.inDegree[c] - 1 ELSE s.inDegree[c]
      BY <1>2
    <3> QED
      BY <2>4, <2>5, <2>6, <3>1, <3>2
  <2> QED
    BY <2>1, <2>3, <2>7
<1> HIDE DEF freed, done
<1>6. \A c \in freed : c \in Components /\ ~ (deps[c] \subseteq done)
  BY <1>4, <1>5 DEF freed
<1>7. freed \cap ToSet(s.queue) = {} /\ freed \cap done = {} /\ h \notin freed
  BY <1>2, <1>3, <1>6
<1>8. Distinct(t.queue) /\ ToSet(t.sorted) \cap ToSet(t.queue) = {}
  BY <1>2, <1>3, <1>4, <1>7
<1>9. ASSUME NEW c \in Components
      PROVE  c \in ToSet(t.sorted) \cup ToSet(t.queue) <=> deps[c] \subseteq ToSet(t.sorted)
  <2>1. c \in ToSet(t.sorted) \cup ToSet(t.queue)
          <=> c \in done \cup ToSet(s.queue) \/ c \in freed
    BY <1>2, <1>4
  <2>2. deps[c] \subseteq done \cup {h}
          <=> deps[c] \subseteq done \/ (h \in deps[c] /\ deps[c] \ done = {h})
    BY <1>4
  <2> QED
    BY <1>3, <1>4, <1>5, <2>1, <2>2
<1>10. ASSUME NEW i \in 1 .. Len(t.sorted), NEW d \in deps[t.sorted[i]]
       PROVE  \E j \in 1 .. i - 1 : t.sorted[j] = d
  <2>1. /\ Len(s.sorted) \in Nat /\ Len(t.sorted) = Len(s.sorted) + 1
        /\ \A k \in 1 .. Len(s.sorted) : t.sorted[k] = s.sorted[k]
        /\ t.sorted[Len(s.sorted) + 1] = h
    BY <1>1, <1>2, AppendIs
  <2>2. CASE i = Len(s.sorted) + 1
    <3>1. deps[h] \subseteq done
      BY <1>2, <1>3
    <3>2. d \in done
      BY <2>1, <2>2, <3>1
    <3>3. PICK j \in 1 .. Len(s.sorted) : s.sorted[j] = d
      <4>1. ToSet(s.sorted) = {s.sorted[j] : j \in 1 .. Len(s.sorted)}
        BY <1>1, ToSetIs
      <4> QED
        BY <3>2, <4>1 DEF done
    <3> QED
      BY <2>1, <2>2, <3>3
  <2>3. CASE i \in 1 .. Len(s.sorted)
    <3>1. PICK j \in 1 .. i - 1 : s.sorted[j] = d
      BY <1>3, <2>1, <2>3
    <3>2. j \in 1 .. Len(s.sorted)
      BY <2>1, <2>3
    <3> QED
      BY <2>1, <3>1, <3>2
  <2> QED
    BY <2>1, <2>2, <2>3
<1>11. Sound(deps, t)
  BY <1>4, <1>5, <1>8, <1>9, <1>10 DEF Sound
<1> QED
  BY <1>11 DEF t

LEMMA SoundAlways ==
  ASSUME NEW deps \in [Components -> SUBSET Components], NEW step, Goes(step, deps)
  PROVE  LET s == step[Len(Order)] IN
         /\ s \in KahnState /\ Sound(deps, s)
         /\ s.queue = <<>> \/ Len(s.sorted) = Len(Order)
         /\ Sorting(deps) = s.sorted
<1>0. /\ Len(Order) \in Nat
      /\ step \in [0 .. Len(Order) -> KahnState] /\ step[0] = AtFirst(deps)
      /\ \A n \in 1 .. Len(Order) : step[n] = Go(deps, step[n - 1])
      /\ Sorting(deps) = step[Len(Order)].sorted
  BY ComponentsAre DEF Goes
<1> DEFINE Fine(s, n) == Sound(deps, s) /\ (s.queue = <<>> \/ Len(s.sorted) = n)
           T == {n \in Nat : n <= Len(Order) => Fine(step[n], n)}
<1>1. 0 \in T
  <2>1. AtFirst(deps).sorted = <<>> /\ Len(<<>>) = 0
    BY DEF AtFirst
  <2> QED
    BY <1>0, <2>1, SoundFirst
<1>2. ASSUME NEW n \in T PROVE n + 1 \in T
  <2> SUFFICES ASSUME n + 1 <= Len(Order) PROVE Fine(step[n + 1], n + 1)
    OBVIOUS
  <2> DEFINE s == step[n]
             t == step[n + 1]
  <2>1. n \in 0 .. Len(Order) /\ n + 1 \in 1 .. Len(Order) /\ (n + 1) - 1 = n
    BY <1>0
  <2>2. s \in KahnState /\ Sound(deps, s) /\ (s.queue = <<>> \/ Len(s.sorted) = n)
    BY <1>0, <2>1
  <2>3. t = Go(deps, s)
    BY <1>0, <2>1
  <2> HIDE DEF s, t
  <2>4. CASE s.queue = <<>>
    BY <2>2, <2>3, <2>4 DEF Go, t
  <2>5. CASE s.queue # <<>>
    <3>1. t = Dequeue(deps, s)
      BY <2>3, <2>5 DEF Go
    <3>2. t.sorted = Append(s.sorted, Head(s.queue)) /\ Head(s.queue) \in Components
      BY <2>2, <2>5, <3>1, DequeueIs
    <3>3. s.sorted \in Seq(Components)
      BY <2>2 DEF KahnState
    <3>4. Len(t.sorted) = n + 1
      BY <2>2, <2>5, <3>2, <3>3, AppendIs
    <3>5. Sound(deps, t)
      BY <2>2, <2>5, <3>1, SoundNext
    <3> QED
      BY <3>4, <3>5 DEF t
  <2> QED
    BY <2>4, <2>5 DEF t
<1>3. T = Nat
  <2> HIDE DEF T
  <2>1. T \subseteq Nat
    BY DEF T
  <2> QED
    BY <1>1, <1>2, <2>1, Induction
<1>4. Fine(step[Len(Order)], Len(Order)) /\ step[Len(Order)] \in KahnState
  BY <1>0, <1>3
<1> QED
  BY <1>0, <1>4

\* For any dependencies among components, the sort comes to its end exactly when no
\* component depends on itself, even indirectly; it then gives every component once,
\* after all those it depends on.
LEMMA SortedRight ==
  ASSUME NEW deps \in [Components -> SUBSET Components]
  PROVE  LET s == Sorting(deps) IN
         /\ s \in Seq(Components) /\ Distinct(s)
         /\ Len(s) = Len(Order) <=> ToSet(s) = Components
         /\ Len(s) = Len(Order) <=> Acyclic(deps)
         /\ \A i \in 1 .. Len(s) : \A d \in deps[s[i]] : \E j \in 1 .. i - 1 : s[j] = d
<1>1. PICK step : Goes(step, deps)
  BY KahnGoes
<1> DEFINE k == step[Len(Order)]
           s == Sorting(deps)
<1>2. /\ k \in KahnState /\ Sound(deps, k) /\ s = k.sorted
      /\ k.queue = <<>> \/ Len(k.sorted) = Len(Order)
  BY <1>1, SoundAlways
<1> HIDE DEF k, s
<1>3. /\ s \in Seq(Components) /\ k.queue \in Seq(Components) /\ Distinct(s)
      /\ ToSet(s) \cap ToSet(k.queue) = {}
      /\ \A c \in Components : c \in ToSet(s) \cup ToSet(k.queue) <=> deps[c] \subseteq ToSet(s)
      /\ \A i \in 1 .. Len(s) : \A d \in deps[s[i]] : \E j \in 1 .. i - 1 : s[j] = d
  BY <1>2 DEF Sound, KahnState
<1>4. Len(s) = Len(Order) <=> ToSet(s) = Components
  BY <1>3, AllSorted
<1>5. ToSet(s) = {s[i] : i \in 1 .. Len(s)} /\ ToSet(s) \subseteq Components /\ Len(s) \in Nat
  BY <1>3, ToSetIs
<1>6. ASSUME ToSet(s) = Components, NEW S \in SUBSET Components, S # {}
      PROVE  \E c \in S : deps[c] \cap S = {}
  <2> DEFINE I == {i \in 1 .. Len(s) : s[i] \in S}
  <2>1. I # {} /\ I \subseteq Nat
    BY <1>5, <1>6
  <2>2. PICK i \in I : \A j \in I : i <= j
    BY <2>1, LeastOf
  <2>3. ASSUME NEW d \in deps[s[i]], d \in S PROVE FALSE
    <3>1. PICK j \in 1 .. i - 1 : s[j] = d
      BY <1>3, <2>3
    <3>2. j \in I /\ j < i
      BY <1>5, <2>3, <3>1
    <3> QED
      BY <2>2, <3>2
  <2> QED
    BY <2>3
<1>7. ASSUME Acyclic(deps), ToSet(s) # Components PROVE FALSE
  <2> DEFINE S == Components \ ToSet(s)
  <2>1. PICK c \in S : deps[c] \cap S = {}
    <3>1. S # {} /\ S \in SUBSET Components
      BY <1>5, <1>7
    <3> QED
      BY <1>7, <3>1 DEF Acyclic
  <2>2. deps[c] \subseteq ToSet(s)
    BY <2>1
  <2>3. k.queue = <<>>
    BY <1>2, <1>4, <1>7
  <2>4. ToSet(k.queue) = {}
    <3>1. k.queue = <<>> <=> ToSet(k.queue) = {}
      BY <1>3, ToSetIs
    <3> QED
      BY <2>3, <3>1
  <2> QED
    BY <1>3, <2>1, <2>2, <2>4
<1>8. Len(s) = Len(Order) <=> Acyclic(deps)
  BY <1>4, <1>6, <1>7 DEF Acyclic
<1> QED
  BY <1>3, <1>4, <1>8 DEF s

-----------------------------------------------------------------------------
(* The processes and their monitors. *)

World == <<config, main, todo, platform, parts, mu, waitingFor, stops, calls>>

\* What a call leaves alone is all that is not about calls.
Untouched ==
  UNCHANGED <<config, main, todo, nats, dashboard, gaveUp, order, tracked, open, closes, exposed,
              services, cancelled, mu, waitingFor, ext, stops>>

LEMMA TrackedAre ==
  ASSUME Parts
  PROVE  tracked \subseteq Components /\ exposed \subseteq tracked
<1>1. First(Len(order)) \subseteq Components
  BY LenProperties DEF Parts, WellOrdered, First
<1> QED
  BY <1>1 DEF Parts

LEMMA CallIs ==
  ASSUME Types, Call
  PROVE  /\ Untouched
         /\ remote' \subseteq remote \cup exposed /\ requests' \in Nat
         /\ local' \subseteq local \/ (requests > 0 /\ local' \subseteq local \cup tracked)
         /\ requests' <= requests \/ dashboard
  BY DEF Call, RemoteCall, RemoteReturns, Request, LookUp, RequestReturns, untouched, Untouched,
         Types, platform, parts, processes

LEMMA ConfigIs ==
  ASSUME Types
  PROVE  /\ config.deps \in [Components -> SUBSET (Components \cup Services)]
         /\ config.disabled \subseteq Components
         /\ config.services \in Seq(Services) /\ IsInjective(config.services)
         /\ config.restart \in [Externals -> Policies]
  BY RobotAssumption DEF Types, ConfigType

\* What starts a process, and what that gives.
LEMMA LaunchedIs ==
  ASSUME ext \in [Externals -> ExtType], NEW e \in Externals, NEW by \in {"start", "monitor"},
         ext[e].starts <= MaxStarts, ext' = Launched(e, by)
  PROVE  /\ ext' \in [Externals -> ExtType]
         /\ \A f \in Externals \ {e} : ext'[f] = ext[f]
         /\ ext'[e].starts = ext[e].starts + 1 /\ ext'[e].proc = "running" /\ ~ext'[e].doomed
         /\ ext'[e].monitor \in {"waiting", "tracking"}
<1>1. MaxStarts \in Nat
  BY RobotAssumption
<1> QED
  BY <1>1 DEF Launched, ExtType

\* The actions of one process and its monitor, and what they do to its record.
ProcessStep(e) == ProcessExits(e) \/ Killed(e) \/ Monitor(e)

LEMMA ProcessStepIs ==
  ASSUME Types, NEW e \in Externals, Process(e), ProcessStep(e)
  PROVE  /\ UNCHANGED <<World, cancelled>>
         /\ ext' \in [Externals -> ExtType]
         /\ \A f \in Externals \ {e} : ext'[f] = ext[f]
         /\ ext[e].starts = 0 => ext'[e].starts = 0
         /\ Process(e)'
<1>0. /\ ext \in [Externals -> ExtType] /\ MaxStarts \in Nat /\ ext[e] \in ExtType
      /\ cancelled \in BOOLEAN
  BY RobotAssumption DEF Types
<1>1. CASE ProcessExits(e)
  <2>1. PICK bad \in BOOLEAN : ext' = [ext EXCEPT ![e].proc = "exited", ![e].failed = bad]
    BY <1>1 DEF ProcessExits
  <2>2. ext'[e] = [ext[e] EXCEPT !.proc = "exited", !.failed = bad]
    BY <1>0, <2>1 DEF ExtType
  <2>3. /\ UNCHANGED <<World, cancelled>>
        /\ ext[e].proc = "running" /\ ext[e].starts < MaxStarts
    BY <1>1 DEF ProcessExits, World, platform, parts
  <2>4. /\ ext'[e] \in ExtType /\ ext'[e].proc = "exited"
        /\ UNCHANGED <<ext[e].starts, ext[e].monitor, ext[e].doomed>>
    BY <1>0, <2>2 DEF ExtType
  <2>5. ext' \in [Externals -> ExtType] /\ \A f \in Externals \ {e} : ext'[f] = ext[f]
    BY <1>0, <2>1, <2>4
  <2>6. UNCHANGED <<config, main, cancelled>>
    BY <2>3 DEF World
  <2>7. Process(e)'
    BY <1>0, <2>3, <2>4, <2>6 DEF Process, ExtType
  <2> QED
    BY <2>3, <2>4, <2>5, <2>7
<1>2. CASE Killed(e)
  BY <1>0, <1>2 DEF Killed, World, platform, parts, Process, ShouldRestart, ExtType
<1>3. CASE MonitorWaits(e)
  BY <1>0, <1>3 DEF MonitorWaits, World, platform, parts, Process, ShouldRestart, ExtType
<1>4. CASE MonitorDecides(e)
  BY <1>0, <1>4 DEF MonitorDecides, World, platform, parts, Process, ShouldRestart, ExtType, Types
<1>5. CASE MonitorWakes(e)
  BY <1>0, <1>5 DEF MonitorWakes, World, platform, parts, Process, ShouldRestart, ExtType
<1>6. CASE MonitorRestarts(e)
  BY <1>0, <1>6, LaunchedIs DEF MonitorRestarts, World, platform, parts, Process, ShouldRestart, ExtType
<1>7. CASE MonitorTracks(e)
  BY <1>0, <1>7 DEF MonitorTracks, World, platform, parts, Process, ShouldRestart, ExtType
<1> QED
  BY <1>1, <1>2, <1>3, <1>4, <1>5, <1>6, <1>7 DEF ProcessStep, Monitor

-----------------------------------------------------------------------------
(* Types. *)

LEMMA PlanOrdered ==
  ASSUME Types, Sortable(config.deps)
  PROVE  WellOrdered(Selected(Sorting(config.deps), Components \ config.disabled))
<1> DEFINE s == Sorting(config.deps)
           S == Components \ config.disabled
           t == Selected(s, S)
<1>1. config.deps \in [Components -> SUBSET Components]
  BY ConfigIs DEF Sortable
<1>2. /\ s \in Seq(Components) /\ Distinct(s)
      /\ \A i \in 1 .. Len(s) : \A d \in config.deps[s[i]] : \E j \in 1 .. i - 1 : s[j] = d
  BY <1>1, SortedRight
<1> HIDE DEF s
<1>3. t \in Seq(Components) /\ Distinct(t) /\ \E at : Picks(t, at, Len(s), s, S)
  <2> HIDE DEF S
  <2> QED
    BY <1>2, ToSetSelected, SelectedIs
<1>4. PICK at : Picks(t, at, Len(s), s, S)
  BY <1>3
<1> HIDE DEF t
<1>5. /\ at \in [1 .. Len(t) -> 1 .. Len(s)] /\ Len(t) \in Nat /\ Len(s) \in Nat
      /\ \A i \in 1 .. Len(t) : t[i] = s[at[i]]
      /\ \A i, j \in 1 .. Len(t) : i < j => at[i] < at[j]
      /\ \A k \in 1 .. Len(s) : s[k] \in S => \E i \in 1 .. Len(t) : at[i] = k
  BY <1>2, <1>3, <1>4 DEF Picks
<1>6. ASSUME NEW i \in 1 .. Len(t), NEW d \in config.deps[t[i]] \ config.disabled
      PROVE  \E j \in 1 .. i - 1 : t[j] = d
  <2>1. at[i] \in 1 .. Len(s) /\ t[i] = s[at[i]] /\ t[i] \in Components
    BY <1>3, <1>5
  <2>2. PICK k \in 1 .. at[i] - 1 : s[k] = d
    BY <1>2, <2>1
  <2>3. k \in 1 .. Len(s) /\ k < at[i] /\ d \in S
    BY <1>1, <2>1, <2>2
  <2>4. PICK j \in 1 .. Len(t) : at[j] = k
    BY <1>5, <2>2, <2>3
  <2>5. j # i /\ ~ (i < j)
    BY <1>5, <2>1, <2>3, <2>4
  <2>6. j \in 1 .. i - 1 /\ t[j] = s[k]
    BY <1>5, <2>4, <2>5
  <2> QED
    BY <2>2, <2>6
<1>7. WellOrdered(t)
  BY <1>3, <1>6 DEF WellOrdered, Distinct
<1> QED
  BY <1>7 DEF s, t

LEMMA TypesNext == IInv /\ [Next]_vars => Types'
<1> SUFFICES ASSUME IInv, [Next]_vars PROVE Types'
  OBVIOUS
<1>0. /\ Types /\ Todo /\ Parts /\ Platform /\ \A e \in Externals : Process(e)
      /\ MaxStarts \in Nat \ {0} /\ MaxStops \in Nat
  BY RobotAssumption DEF IInv
<1>1. CASE Start
  BY <1>0, <1>1 DEF Start, Types, Stopping, platform, parts, calls, processes
<1>2. CASE StartComponent
  BY <1>0, <1>2 DEF StartComponent, Types, Stopping, platform, parts, calls, processes
<1>3. CASE ExposeCapabilities
  BY <1>0, <1>3 DEF ExposeCapabilities, Types, Stopping, platform, parts, calls, processes
<1>4. CASE StartService
  BY <1>0, <1>4 DEF StartService, Types, Todo, Stopping, platform, parts, calls, processes
<1>5. CASE StartExternal
  BY <1>0, <1>5, LaunchedIs DEF StartExternal, Types, Todo, Todo, ExtType, Stopping, platform, parts, calls, processes
<1>6. CASE Started
  BY <1>0, <1>6 DEF Started, Types, Stopping, platform, parts, calls, processes
<1>7. CASE Signal
  BY <1>0, <1>7 DEF Signal, Types, Stopping, platform, parts, calls, processes
<1>8. CASE Stop
  BY <1>0, <1>8 DEF Stop, Types, Stopping, platform, parts, calls, processes
<1>9. CASE CancelExternal
  <2>1. Head(todo) \in Externals
    BY <1>0, <1>9, HeadTail DEF CancelExternal, Todo
  <2>2. ext' = [ext EXCEPT ![Head(todo)].doomed = @ \/ ext[Head(todo)].inMap]
    BY <1>9 DEF CancelExternal
  <2>3. ext' \in [Externals -> ExtType]
    BY <1>0, <2>1, <2>2 DEF Types, ExtType
  <2>4. waitingFor' \subseteq Externals
    BY <1>9, <2>1 DEF CancelExternal
  <2> QED
    BY <1>0, <1>9, <2>3, <2>4 DEF CancelExternal, Types, Stopping, platform, parts, calls
<1>10. CASE ExternalGone
  <2>1. PICK e \in waitingFor : ext' = [ext EXCEPT ![e].waited = TRUE]
    BY <1>10 DEF ExternalGone
  <2>2. ext' \in [Externals -> ExtType]
    <3>1. ext \in [Externals -> ExtType] /\ e \in Externals /\ ext[e] \in ExtType
      BY <1>0, <2>1 DEF Types
    <3>2. [ext[e] EXCEPT !.waited = TRUE] \in ExtType
      BY <3>1 DEF ExtType
    <3> QED
      BY <2>1, <3>1, <3>2
  <2> QED
    BY <1>0, <1>10, <2>2 DEF ExternalGone, Types, Stopping, platform, parts, calls
<1>11. CASE ExternalsStopped
  <2>1. ext' \in [Externals -> ExtType]
    <3>1. \A e \in Externals : [ext[e] EXCEPT !.inMap = FALSE] \in ExtType
      <4> TAKE e \in Externals
      <4>1. ext[e] \in ExtType
        BY <1>0 DEF Types
      <4> QED
        BY <4>1 DEF ExtType
    <3>2. ext' = [e \in Externals |-> [ext[e] EXCEPT !.inMap = FALSE]]
      BY <1>11 DEF ExternalsStopped
    <3> QED
      BY <3>1, <3>2
  <2> QED
    BY <1>0, <1>11, <2>1 DEF ExternalsStopped, Types, Stopping, platform, parts, calls
<1>12. CASE StopDashboard
  BY <1>0, <1>12 DEF StopDashboard, Types, Stopping, platform, parts, calls, processes
<1>13. CASE CloseService
  BY <1>0, <1>13 DEF CloseService, Types, Stopping, platform, parts, calls, processes
<1>14. CASE CloseComponents
  BY <1>0, <1>14 DEF CloseComponents, Types, Stopping, platform, parts, calls, processes
<1>15. CASE CloseComponent
  BY <1>0, <1>15 DEF CloseComponent, Types, Stopping, platform, parts, calls, processes
<1>16. CASE Cancel
  BY <1>0, <1>16 DEF Cancel, Types, Stopping, platform, parts, calls, processes
<1>17. CASE CloseNats
  BY <1>0, <1>17 DEF CloseNats, Types, Stopping, platform, parts, calls, processes
<1>18. CASE \E e \in Externals : ProcessStep(e)
  BY <1>0, <1>18, ProcessStepIs DEF Types, World, platform, Stopping, parts, calls
<1>20. CASE Call
  <2>1. tracked \subseteq Components /\ exposed \subseteq Components
    BY <1>0, TrackedAre
  <2> QED
    BY <1>0, <1>20, <2>1, CallIs DEF Untouched, Types
<1>19. CASE UNCHANGED vars
  BY <1>0, <1>19 DEF vars, Types
<1> QED
  BY <1>1, <1>2, <1>3, <1>4, <1>5, <1>6, <1>7, <1>8, <1>9, <1>10, <1>11, <1>12, <1>13, <1>14, <1>15, <1>16, <1>17, <1>18, <1>19, <1>20 DEF Next, StartStep, StopStep, ProcessStep
-----------------------------------------------------------------------------
(* What Start and Stop have yet to do. *)

\* The order does not depend on anything but the configuration.
LEMMA OrderedStays ==
  ASSUME NEW s, WellOrdered(s), UNCHANGED config
  PROVE  /\ s \in Seq(Components)
         /\ \A i, j \in 1 .. Len(s) : s[i] = s[j] => i = j
         /\ \A i \in 1 .. Len(s) : \A d \in config'.deps[s[i]] \ config'.disabled :
              \E j \in 1 .. i - 1 : s[j] = d
  BY DEF WellOrdered

LEMMA TodoStays ==
  ASSUME Todo, UNCHANGED <<config, main, todo, order>>,
         \A e \in Externals : ext[e].starts = 0 => ext'[e].starts = 0
  PROVE  Todo'
<1>1. main = "starting" => WellOrdered(order \o todo)'
  BY OrderedStays DEF Todo, WellOrdered
<1> QED
  BY <1>1 DEF Todo

LEMMA TodoNext == IInv /\ [Next]_vars => Todo'
<1> SUFFICES ASSUME IInv, [Next]_vars PROVE Todo'
  OBVIOUS
<1>0. /\ Types /\ Todo /\ Parts /\ Platform /\ \A e \in Externals : Process(e)
  BY DEF IInv
<1>1. CASE Start
  <2> DEFINE plan == Selected(Sorting(config.deps), Components \ config.disabled)
  <2>1. UNCHANGED <<config, order>> /\ order = <<>> /\ todo = <<>>
    BY <1>0, <1>1 DEF Start, Todo, Platform, parts
  <2>2. CASE Sortable(config.deps) /\ main' = "starting" /\ todo' = plan
    <3> HIDE DEF plan
    <3>1. WellOrdered(plan)
      BY <1>0, <2>2, PlanOrdered DEF plan
    <3>2. plan \in Seq(Components) /\ order' \o todo' = plan
      BY <2>1, <2>2, <3>1, ConcatEmptySeq DEF WellOrdered
    <3>3. WellOrdered(order \o todo)'
      BY <2>1, <3>1, <3>2, OrderedStays DEF WellOrdered
    <3> QED
      BY <2>2, <3>2, <3>3 DEF Todo
  <2>3. CASE main' = "failed" /\ todo' = todo
    BY <2>1, <2>3 DEF Todo
  <2> QED
    BY <1>1, <2>2, <2>3 DEF Start
<1>2. CASE StartComponent
  <2>1. /\ todo # <<>> /\ todo \in Seq(Components) /\ order \in Seq(Components)
        /\ main = "starting" /\ UNCHANGED config /\ WellOrdered(order \o todo)
    BY <1>0, <1>2 DEF StartComponent, Todo, Parts, WellOrdered
  <2>2. CASE order' = Append(order, Head(todo)) /\ todo' = Tail(todo) /\ main' = main
    <3>1. order' \o todo' = order \o todo /\ todo' \in Seq(Components)
      BY <2>1, <2>2, MoveOne, HeadTail
    <3>2. WellOrdered(order \o todo)'
      <4>1. PICK w : w = order \o todo
        OBVIOUS
      <4>2. WellOrdered(w) /\ order' \o todo' = w
        BY <2>1, <3>1, <4>1
      <4>3. /\ w \in Seq(Components)
            /\ \A i, j \in 1 .. Len(w) : w[i] = w[j] => i = j
            /\ \A i \in 1 .. Len(w) : \A d \in config'.deps[w[i]] \ config'.disabled :
                 \E j \in 1 .. i - 1 : w[j] = d
        BY <2>1, <4>2, OrderedStays DEF WellOrdered
      <4> QED
        BY <4>2, <4>3 DEF WellOrdered
    <3> QED
      BY <2>1, <2>2, <3>1, <3>2 DEF Todo
  <2>3. CASE main' = "failed" /\ todo' = <<>>
    BY <2>3 DEF Todo
  <2> QED
    BY <1>2, <2>2, <2>3 DEF StartComponent
<1>3. CASE ExposeCapabilities
  <2>1. /\ todo' \in Seq(Services) /\ IsInjective(todo') /\ main' = "serving"
    BY <1>0, <1>3, ConfigIs DEF ExposeCapabilities
  <2>2. \A i, j \in 1 .. Len(todo') : todo'[i] = todo'[j] => i = j
    BY <2>1, LenProperties DEF IsInjective
  <2>3. \A e \in Externals : ext'[e].starts = 0
    BY <1>0, <1>3 DEF ExposeCapabilities, Process, processes
  <2> QED
    BY <2>1, <2>2, <2>3 DEF Todo
<1>4. CASE StartService
  BY <1>0, <1>4 DEF StartService, Todo, WellOrdered, Stopping, parts, platform, processes
<1>5. CASE StartExternal
  <2>1. /\ main = "serving" /\ main' = main /\ todo # <<>> /\ todo \in Seq(Services)
        /\ todo' = Tail(todo) /\ Head(todo) \in Externals
        /\ \A i, j \in 1 .. Len(todo) : todo[i] = todo[j] => i = j
        /\ \A i \in 1 .. Len(todo) : todo[i] \in Externals => ext[todo[i]].starts = 0
    BY <1>0, <1>5 DEF StartExternal, Todo
  <2>2. /\ Tail(todo) \in Seq(Services) /\ Head(todo) = todo[1]
        /\ Len(todo) \in Nat \ {0} /\ Len(Tail(todo)) = Len(todo) - 1
        /\ \A i \in 1 .. Len(todo) - 1 : Tail(todo)[i] = todo[i + 1]
    BY <2>1, HeadTail
  <2>3. \A e \in Externals \ {Head(todo)} : ext'[e] = ext[e]
    BY <1>0, <1>5, <2>1 DEF StartExternal, Launched, Types
  <2>4. \A i \in 1 .. Len(todo') : /\ i + 1 \in 1 .. Len(todo) /\ todo'[i] = todo[i + 1]
                                   /\ todo'[i] # Head(todo)
    BY <2>1, <2>2
  <2>5. \A i, j \in 1 .. Len(todo') : todo'[i] = todo'[j] => i = j
    <3> SUFFICES ASSUME NEW i \in 1 .. Len(todo'), NEW j \in 1 .. Len(todo'), todo'[i] = todo'[j]
                 PROVE  i = j
      OBVIOUS
    <3>1. i + 1 = j + 1
      BY <2>1, <2>4
    <3> QED
      BY <3>1
  <2>6. \A i \in 1 .. Len(todo') : todo'[i] \in Externals => ext'[todo'[i]].starts = 0
    BY <2>1, <2>3, <2>4
  <2> QED
    BY <2>1, <2>2, <2>5, <2>6 DEF Todo
<1>6. CASE Started
  BY <1>0, <1>6 DEF Started, Todo, WellOrdered, Stopping, parts, platform, processes
<1>7. CASE Signal
  BY <1>0, <1>7, TodoStays DEF Signal, parts, processes
<1>8. CASE Stop
  <2>1. IsFiniteSet({e \in Externals : ext[e].inMap})
    BY RobotAssumption, FS_Subset
  <2>2. todo' \in Seq({e \in Externals : ext[e].inMap}) /\ main' = "external"
    BY <1>8, <2>1, SetToSeqIs DEF Stop
  <2>3. todo' \in Seq(Externals)
    BY <2>2, SeqMonotonic
  <2> QED
    BY <2>2, <2>3 DEF Todo
<1>9. CASE CancelExternal
  BY <1>0, <1>9 DEF CancelExternal, Todo, WellOrdered, Stopping, parts, platform, processes
<1>10. CASE ExternalGone
  BY <1>0, <1>10, SMTT(30) DEF ExternalGone, Todo, WellOrdered, Stopping, parts, platform, processes
<1>11. CASE ExternalsStopped
  BY <1>0, <1>11 DEF ExternalsStopped, Todo, WellOrdered, Stopping, parts, platform, processes
<1>12. CASE StopDashboard
  BY <1>0, <1>12 DEF StopDashboard, Todo, WellOrdered, Stopping, parts, platform, processes
<1>13. CASE CloseService
  BY <1>0, <1>13 DEF CloseService, Todo, WellOrdered, Stopping, parts, platform, processes
<1>14. CASE CloseComponents
  <2>1. /\ order \in Seq(Components) /\ Len(order) \in Nat
        /\ main' = "components" /\ todo' = Reverse(order) /\ order' = order
    BY <1>0, <1>14, LenProperties DEF CloseComponents, Parts, WellOrdered, parts
  <2>2. /\ todo' = [i \in 1 .. Len(order) |-> order[(Len(order) - i) + 1]]
        /\ \A i \in 1 .. Len(order) : /\ (Len(order) - i) + 1 \in 1 .. Len(order)
                                       /\ (Len(order) - i) + 1 = Len(order) + 1 - i
    BY <2>1 DEF Reverse
  <2>3. todo' \in Seq(Components) /\ Len(todo') = Len(order)
    BY <2>1, <2>2
  <2> QED
    BY <2>1, <2>2, <2>3 DEF Todo
<1>15. CASE CloseComponent
  BY <1>0, <1>15 DEF CloseComponent, Todo, WellOrdered, Stopping, parts, platform, processes
<1>16. CASE Cancel
  BY <1>0, <1>16 DEF Cancel, Todo, WellOrdered, Stopping, parts, platform, processes
<1>17. CASE CloseNats
  BY <1>0, <1>17 DEF CloseNats, Todo, WellOrdered, Stopping, parts, platform, processes
<1>18. CASE \E e \in Externals : ProcessStep(e)
  <2>1. PICK f \in Externals : ProcessStep(f)
    BY <1>18
  <2>2. UNCHANGED <<config, main, todo, order>>
    BY <1>0, <2>1, ProcessStepIs DEF World, parts
  <2>3. \A e \in Externals : ext[e].starts = 0 => ext'[e].starts = 0
    BY <1>0, <2>1, ProcessStepIs
  <2> QED
    BY <1>0, <2>2, <2>3, TodoStays
<1>20. CASE Call
  <2>1. UNCHANGED <<config, main, todo, order>> /\ UNCHANGED ext
    BY <1>0, <1>20, CallIs DEF Untouched
  <2> QED
    BY <1>0, <2>1, TodoStays
<1>19. CASE UNCHANGED vars
  <2>1. UNCHANGED <<config, main, todo, order>> /\ UNCHANGED ext
    BY <1>19 DEF vars
  <2> QED
    BY <1>0, <2>1, TodoStays
<1> QED
  BY <1>1, <1>2, <1>3, <1>4, <1>5, <1>6, <1>7, <1>8, <1>9, <1>10, <1>11, <1>12, <1>13, <1>14, <1>15, <1>16, <1>17, <1>18, <1>19, <1>20 DEF Next, StartStep, StopStep, ProcessStep
-----------------------------------------------------------------------------
(* The components that are open. *)

\* What is left out at the end changes nothing for what comes before.
LEMMA PrefixOrdered ==
  ASSUME NEW s \in Seq(Components), NEW t \in Seq(Components), WellOrdered(s \o t)
  PROVE  WellOrdered(s)
<1>1. /\ Len(s) \in Nat /\ Len(t) \in Nat /\ Len(s \o t) = Len(s) + Len(t)
      /\ \A i \in 1 .. Len(s) : (s \o t)[i] = s[i] /\ i \in 1 .. Len(s \o t)
  BY ConcatProperties
<1>2. \A i, j \in 1 .. Len(s) : s[i] = s[j] => i = j
  BY <1>1 DEF WellOrdered
<1>3. ASSUME NEW i \in 1 .. Len(s), NEW d \in config.deps[s[i]] \ config.disabled
      PROVE  \E j \in 1 .. i - 1 : s[j] = d
  <2>1. PICK j \in 1 .. i - 1 : (s \o t)[j] = d
    BY <1>1 DEF WellOrdered
  <2> QED
    BY <1>1, <2>1
<1> QED
  BY <1>2, <1>3 DEF WellOrdered

LEMMA PartsNext == IInv /\ [Next]_vars => Parts'
<1> SUFFICES ASSUME IInv, [Next]_vars PROVE Parts'
  OBVIOUS
<1>0. /\ Types /\ Todo /\ Parts /\ Platform /\ \A e \in Externals : Process(e)
  BY DEF IInv
<1>1. CASE Start
  <2>1. /\ UNCHANGED <<config, order, tracked, open, closes, exposed>>
        /\ main = "new" /\ main' \in {"starting", "failed"}
    BY <1>1 DEF Start, parts
  <2>2. WellOrdered(order)'
    BY <1>0, <2>1, OrderedStays DEF Parts, WellOrdered
  <2> QED
    BY <1>0, <2>1, <2>2 DEF Parts, First
<1>2. CASE StartComponent
  <2>1. /\ todo # <<>> /\ todo \in Seq(Components) /\ WellOrdered(order \o todo)
        /\ order \in Seq(Components) /\ main = "starting"
        /\ UNCHANGED <<config, closes, exposed>>
    BY <1>0, <1>2 DEF StartComponent, Todo, Parts, WellOrdered
  <2>2. CASE /\ order' = Append(order, Head(todo)) /\ tracked' = tracked \cup {Head(todo)}
             /\ open' = open \cup {Head(todo)} /\ main' = main
    <3>1. Head(todo) \in Components /\ Tail(todo) \in Seq(Components)
      BY <2>1, HeadTail
    <3>2. /\ Append(order, Head(todo)) \in Seq(Components) /\ Len(order) \in Nat
          /\ Len(Append(order, Head(todo))) = Len(order) + 1
          /\ \A i \in 1 .. Len(order) : Append(order, Head(todo))[i] = order[i]
          /\ Append(order, Head(todo))[Len(order) + 1] = Head(todo)
      BY <2>1, <3>1, AppendIs
    <3>3. WellOrdered(Append(order, Head(todo)))
      <4>1. Append(order, Head(todo)) \o Tail(todo) = order \o todo
        BY <2>1, MoveOne
      <4> QED
        BY <2>1, <3>1, <3>2, <4>1, PrefixOrdered
    <3>4. WellOrdered(order)'
      <4>1. PICK w : w = Append(order, Head(todo))
        OBVIOUS
      <4>2. WellOrdered(w) /\ order' = w
        BY <2>2, <3>3, <4>1
      <4> QED
        BY <2>1, <4>2, OrderedStays DEF WellOrdered
    <3>5. First(Len(order))' = First(Len(order)) \cup {Head(todo)}
      <4>1. 1 .. Len(order) + 1 = (1 .. Len(order)) \cup {Len(order) + 1}
        BY <3>2
      <4> QED
        BY <2>2, <3>2, <4>1 DEF First
    <3>6. open = First(Len(order)) /\ tracked = First(Len(order))
      BY <1>0, <2>1 DEF Parts
    <3> QED
      BY <1>0, <2>1, <2>2, <3>4, <3>5, <3>6 DEF Parts
  <2>3. CASE main' = "failed" /\ UNCHANGED <<open, tracked, order>>
    <3>1. WellOrdered(order)'
      BY <1>0, <2>1, <2>3, OrderedStays DEF Parts, WellOrdered
    <3> QED
      BY <1>0, <2>1, <2>3, <3>1 DEF Parts, First
  <2> QED
    BY <1>2, <2>2, <2>3 DEF StartComponent
<1>3. CASE ExposeCapabilities
  BY <1>0, <1>3 DEF ExposeCapabilities, Parts, Todo, WellOrdered, First, Stopping, parts, platform, processes
<1>4. CASE StartService
  BY <1>0, <1>4 DEF StartService, Parts, Todo, WellOrdered, First, Stopping, parts, platform, processes
<1>5. CASE StartExternal
  BY <1>0, <1>5 DEF StartExternal, Parts, Todo, WellOrdered, First, Stopping, parts, platform, processes
<1>6. CASE Started
  BY <1>0, <1>6 DEF Started, Parts, Todo, WellOrdered, First, Stopping, parts, platform, processes
<1>7. CASE Signal
  BY <1>0, <1>7 DEF Signal, Parts, Todo, WellOrdered, First, Stopping, parts, platform, processes
<1>8. CASE Stop
  <2>1. /\ UNCHANGED <<config, order, tracked, open, closes>> /\ exposed' = {}
        /\ main \in {"ready", "failed", "stopped"} /\ main' = "external"
    BY <1>8 DEF Stop
  <2>2. WellOrdered(order)'
    BY <1>0, <2>1, OrderedStays DEF Parts, WellOrdered
  <2> QED
    BY <1>0, <2>1, <2>2 DEF Parts, First
<1>9. CASE CancelExternal
  BY <1>0, <1>9 DEF CancelExternal, Parts, Todo, WellOrdered, First, Stopping, parts, platform, processes
<1>10. CASE ExternalGone
  BY <1>0, <1>10 DEF ExternalGone, Parts, Todo, WellOrdered, First, Stopping, parts, platform, processes
<1>11. CASE ExternalsStopped
  BY <1>0, <1>11 DEF ExternalsStopped, Parts, Todo, WellOrdered, First, Stopping, parts, platform, processes
<1>12. CASE StopDashboard
  BY <1>0, <1>12 DEF StopDashboard, Parts, Todo, WellOrdered, First, Stopping, parts, platform, processes
<1>13. CASE CloseService
  BY <1>0, <1>13 DEF CloseService, Parts, Todo, WellOrdered, First, Stopping, parts, platform, processes
<1>14. CASE CloseComponents
  <2>1. /\ UNCHANGED <<config, order, tracked, open, closes, exposed>>
        /\ main = "services" /\ main' = "components" /\ todo' = Reverse(order)
    BY <1>14 DEF CloseComponents, parts
  <2>2. WellOrdered(order)'
    <3>1. WellOrdered(order)
      BY <1>0 DEF Parts
    <3> QED
      BY <2>1, <3>1, OrderedStays DEF WellOrdered
  <2>3. Len(todo') = Len(order)
    BY <1>0, <2>1 DEF Reverse, Parts, WellOrdered
  <2> QED
    BY <1>0, <2>1, <2>2, <2>3 DEF Parts, First
<1>15. CASE CloseComponent
  <2>1. /\ UNCHANGED <<config, order, tracked, main, exposed>>
        /\ main = "components" /\ todo # <<>> /\ todo' = Tail(todo)
        /\ todo \in Seq(Components) /\ Len(todo) <= Len(order) /\ WellOrdered(order)
        /\ \A i \in 1 .. Len(todo) : todo[i] = order[Len(todo) + 1 - i]
    BY <1>0, <1>15 DEF CloseComponent, Todo, Parts
  <2>2. /\ Len(todo) \in Nat \ {0} /\ Len(order) \in Nat
        /\ Head(todo) = order[Len(todo)] /\ Len(todo') = Len(todo) - 1
        /\ Head(todo) \in First(Len(order)) /\ Head(todo) \in Components
    <3>1. /\ Len(todo) \in Nat \ {0} /\ Head(todo) = todo[1] /\ Len(todo') = Len(todo) - 1
          /\ Head(todo) \in Components
      BY <2>1, HeadTail
    <3>2. Len(order) \in Nat /\ 1 \in 1 .. Len(todo) /\ Len(todo) + 1 - 1 = Len(todo)
      BY <2>1, <3>1, LenProperties DEF WellOrdered
    <3> QED
      BY <2>1, <3>1, <3>2 DEF First
  <2>3. WellOrdered(order)'
    BY <2>1, OrderedStays DEF WellOrdered
  <2>4. CASE tracked = {}
    <3>1. UNCHANGED <<open, closes>> /\ open = {}
      BY <1>0, <1>15, <2>1, <2>4 DEF CloseComponent, Parts
    <3> QED
      BY <1>0, <2>1, <2>3, <2>4, <3>1 DEF Parts, First
  <2>5. CASE tracked # {}
    <3>1. /\ tracked = First(Len(order)) /\ open = First(Len(todo))
          /\ open' = open \ {Head(todo)}
          /\ closes' = [closes EXCEPT ![Head(todo)] = @ + 1]
      BY <1>0, <1>15, <2>1, <2>2, <2>5 DEF CloseComponent, Parts
    <3>2. open' = First(Len(todo) - 1)
      <4>0. Len(todo) \in Nat \ {0} /\ Len(order) \in Nat /\ Len(todo) <= Len(order)
        BY <2>1, <2>2
      <4>1. /\ 1 .. Len(todo) = (1 .. Len(todo) - 1) \cup {Len(todo)}
            /\ \A i \in 1 .. Len(todo) - 1 : i \in 1 .. Len(order) /\ i # Len(todo)
            /\ Len(todo) \in 1 .. Len(order)
        BY <4>0
      <4>2. \A i \in 1 .. Len(todo) - 1 : order[i] # order[Len(todo)]
        BY <2>1, <4>1 DEF WellOrdered
      <4> QED
        BY <2>2, <3>1, <4>1, <4>2 DEF First
    <3>3. Head(todo) \in open /\ open' = open \ {Head(todo)}
      BY <2>2, <3>1 DEF First
    <3>4. closes' = [c \in Components |-> IF c \in First(Len(order)) \ open' THEN 1 ELSE 0]
      <4>1. closes = [c \in Components |-> IF c \in First(Len(order)) \ open THEN 1 ELSE 0]
        BY <1>0 DEF Parts
      <4> QED
        BY <2>2, <3>1, <3>3, <4>1
    <3>5. First(Len(order))' = First(Len(order)) /\ First(Len(todo))' = First(Len(todo) - 1)
      BY <2>1, <2>2 DEF First
    <3> QED
      BY <1>0, <2>1, <2>3, <2>5, <3>1, <3>2, <3>4, <3>5 DEF Parts
  <2> QED
    BY <2>4, <2>5
<1>16. CASE Cancel
  BY <1>0, <1>16 DEF Cancel, Parts, Todo, WellOrdered, First, Stopping, parts, platform, processes
<1>17. CASE CloseNats
  BY <1>0, <1>17 DEF CloseNats, Parts, Todo, WellOrdered, First, Stopping, parts, platform, processes
<1>18. CASE \E e \in Externals : ProcessStep(e)
  <2>1. UNCHANGED <<config, main, todo, order, tracked, open, closes, exposed>>
    BY <1>0, <1>18, ProcessStepIs DEF World, parts
  <2>2. WellOrdered(order)'
    BY <1>0, <2>1, OrderedStays DEF Parts, WellOrdered
  <2> QED
    BY <1>0, <2>1, <2>2 DEF Parts, First
<1>20. CASE Call
  <2>1. UNCHANGED <<config, main, todo, order, tracked, open, closes, exposed>>
    BY <1>0, <1>20, CallIs DEF Untouched
  <2>2. WellOrdered(order)'
    BY <1>0, <2>1, OrderedStays DEF Parts, WellOrdered
  <2> QED
    BY <1>0, <2>1, <2>2 DEF Parts, First
<1>19. CASE UNCHANGED vars
  <2>1. UNCHANGED <<config, main, todo, order, tracked, open, closes, exposed>>
    BY <1>19 DEF vars
  <2>2. WellOrdered(order)'
    BY <1>0, <2>1, OrderedStays DEF Parts, WellOrdered
  <2> QED
    BY <1>0, <2>1, <2>2 DEF Parts, First
<1> QED
  BY <1>1, <1>2, <1>3, <1>4, <1>5, <1>6, <1>7, <1>8, <1>9, <1>10, <1>11, <1>12, <1>13, <1>14, <1>15, <1>16, <1>17, <1>18, <1>19, <1>20 DEF Next, StartStep, StopStep, ProcessStep
-----------------------------------------------------------------------------
(* Services, dashboard and NATS. *)

LEMMA PlatformNext == IInv /\ [Next]_vars => Platform'
<1> SUFFICES ASSUME IInv, [Next]_vars PROVE Platform'
  OBVIOUS
<1>0. /\ Types /\ Todo /\ Parts /\ Platform /\ \A e \in Externals : Process(e)
  BY DEF IInv
<1>1. CASE Start
  <2>1. /\ main = "new" /\ order = <<>> /\ services = {} /\ UNCHANGED <<open, services, cancelled>>
        /\ open = {}
    BY <1>0, <1>1 DEF Start, Platform, Parts, First, parts
  <2>2. /\ main' \in {"starting", "failed"} /\ (main' = "starting" => nats')
        /\ dashboard' => nats'
    <3>1. PICK up \in BOOLEAN :
            /\ nats' = up /\ dashboard' \in {FALSE, up}
            /\ IF up /\ Sortable(config.deps) THEN main' = "starting" ELSE main' = "failed"
      <4>1. PICK up \in {TRUE} \cup (IF "natsFails" \in Events THEN {FALSE} ELSE {}) :
              /\ nats' = up /\ dashboard' \in {FALSE, up}
              /\ IF up /\ Sortable(config.deps) THEN main' = "starting" ELSE main' = "failed"
        BY <1>1, Zenon DEF Start
      <4>2. up \in BOOLEAN
        OBVIOUS
      <4> QED
        BY <4>1, <4>2, Zenon
    <3>2. main' \in {"starting", "failed"} /\ (main' = "starting" => up)
      <4> HIDE DEF Sortable
      <4>1. CASE up /\ Sortable(config.deps)
        BY <3>1, <4>1
      <4>2. CASE ~(up /\ Sortable(config.deps))
        BY <3>1, <4>2
      <4> QED
        BY <4>1, <4>2
    <3>3. CASE up = TRUE
      BY <3>1, <3>2, <3>3
    <3>4. CASE up = FALSE
      BY <3>1, <3>2, <3>4
    <3> QED
      BY <3>3, <3>4
  <2>3. (open' # {} \/ services' # {} \/ dashboard') => nats'
    BY <2>1, <2>2
  <2>4. /\ main' \notin Stopping \cup {"stopped"} /\ main' \notin {"new", "serving", "ready"}
        /\ main' \notin {"services", "components", "nats", "stopped"}
    BY <2>2 DEF Stopping
  <2>5. services' = {}
    BY <2>1
  <2> QED
    BY <2>2, <2>3, <2>4, <2>5 DEF Platform
<1>2. CASE StartComponent
  BY <1>0, <1>2 DEF StartComponent, Platform, Parts, Types, Stopping, parts, platform, processes
<1>3. CASE ExposeCapabilities
  BY <1>0, <1>3 DEF ExposeCapabilities, Platform, Parts, Types, Stopping, parts, platform, processes
<1>4. CASE StartService
  BY <1>0, <1>4 DEF StartService, Platform, Parts, Types, Stopping, parts, platform, processes
<1>5. CASE StartExternal
  BY <1>0, <1>5 DEF StartExternal, Platform, Parts, Types, Stopping, parts, platform, processes
<1>6. CASE Started
  BY <1>0, <1>6 DEF Started, Platform, Parts, Types, Stopping, parts, platform, processes
<1>7. CASE Signal
  BY <1>0, <1>7 DEF Signal, Platform, Parts, Types, Stopping, parts, platform, processes
<1>8. CASE Stop
  BY <1>0, <1>8 DEF Stop, Platform, Parts, Types, Stopping, parts, platform, processes
<1>9. CASE CancelExternal
  BY <1>0, <1>9 DEF CancelExternal, Platform, Parts, Types, Stopping, parts, platform, processes
<1>10. CASE ExternalGone
  BY <1>0, <1>10 DEF ExternalGone, Platform, Parts, Types, Stopping, parts, platform, processes
<1>11. CASE ExternalsStopped
  BY <1>0, <1>11 DEF ExternalsStopped, Platform, Parts, Types, Stopping, parts, platform, processes
<1>12. CASE StopDashboard
  BY <1>0, <1>12 DEF StopDashboard, Platform, Parts, Types, Stopping, parts, platform, processes
<1>13. CASE CloseService
  BY <1>0, <1>13 DEF CloseService, Platform, Parts, Types, Stopping, parts, platform, processes
<1>14. CASE CloseComponents
  BY <1>0, <1>14 DEF CloseComponents, Platform, Parts, Types, Stopping, parts, platform, processes
<1>15. CASE CloseComponent
  BY <1>0, <1>15 DEF CloseComponent, Platform, Parts, Types, Stopping, parts, platform, processes
<1>16. CASE Cancel
  BY <1>0, <1>16 DEF Cancel, Platform, Parts, Types, Stopping, parts, platform, processes
<1>17. CASE CloseNats
  BY <1>0, <1>17 DEF CloseNats, Platform, Parts, Types, Stopping, parts, platform, processes
<1>18. CASE \E e \in Externals : ProcessStep(e)
  BY <1>0, <1>18, ProcessStepIs DEF Platform, World, platform, parts
<1>20. CASE Call
  BY <1>0, <1>20, CallIs DEF Untouched, Platform, WellOrdered, First
<1>19. CASE UNCHANGED vars
  BY <1>0, <1>19 DEF vars, Platform, WellOrdered, First
<1> QED
  BY <1>1, <1>2, <1>3, <1>4, <1>5, <1>6, <1>7, <1>8, <1>9, <1>10, <1>11, <1>12, <1>13, <1>14, <1>15, <1>16, <1>17, <1>18, <1>19, <1>20 DEF Next, StartStep, StopStep, ProcessStep
-----------------------------------------------------------------------------
(* What monitors may rely on. *)

LEMMA ProcessNext == IInv /\ [Next]_vars => \A e \in Externals : Process(e)'
<1> SUFFICES ASSUME IInv, [Next]_vars, NEW e \in Externals PROVE Process(e)'
  OBVIOUS
<1>0. /\ Types /\ Todo /\ Platform /\ Process(e) /\ cancelled \in BOOLEAN
      /\ ext \in [Externals -> ExtType] /\ MaxStarts \in Nat \ {0}
  BY RobotAssumption DEF IInv, Types
<1>1. CASE Start
  BY <1>0, <1>1 DEF Start, Process, ShouldRestart, ExtType, Platform, parts, platform, processes
<1>2. CASE StartComponent
  BY <1>0, <1>2 DEF StartComponent, Process, ShouldRestart, ExtType, Platform, parts, platform, processes
<1>3. CASE ExposeCapabilities
  BY <1>0, <1>3 DEF ExposeCapabilities, Process, ShouldRestart, ExtType, Platform, parts, platform, processes
<1>4. CASE StartService
  BY <1>0, <1>4 DEF StartService, Process, ShouldRestart, ExtType, Platform, parts, platform, processes
<1>5. CASE StartExternal
  <2>1. /\ UNCHANGED <<config, main, cancelled>> /\ main = "serving"
        /\ Head(todo) \in Externals /\ ext[Head(todo)].starts = 0
    BY <1>0, <1>5, HeadTail DEF StartExternal, Todo
  <2>2. CASE UNCHANGED ext
    BY <1>0, <2>1, <2>2 DEF Process, ShouldRestart
  <2>3. CASE ~cancelled /\ ext' = Launched(Head(todo), "start")
    <3>1. /\ \A f \in Externals \ {Head(todo)} : ext'[f] = ext[f]
          /\ ext'[Head(todo)].starts = 1 /\ ext'[Head(todo)].proc = "running"
          /\ ~ext'[Head(todo)].doomed /\ ext'[Head(todo)].monitor \in {"waiting", "tracking"}
      BY <1>0, <2>1, <2>3, LaunchedIs
    <3>2. CASE e # Head(todo)
      BY <1>0, <2>1, <3>1, <3>2 DEF Process, ShouldRestart
    <3>3. CASE e = Head(todo)
      BY <1>0, <2>1, <3>1, <3>3 DEF Process, ShouldRestart
    <3> QED
      BY <3>2, <3>3
  <2> QED
    BY <1>5, <2>2, <2>3 DEF StartExternal
<1>6. CASE Started
  BY <1>0, <1>6 DEF Started, Process, ShouldRestart, ExtType, Platform, parts, platform, processes
<1>7. CASE Signal
  BY <1>0, <1>7 DEF Signal, Process, ShouldRestart, ExtType, Platform, parts, platform, processes
<1>8. CASE Stop
  BY <1>0, <1>8 DEF Stop, Process, ShouldRestart, ExtType, Platform, parts, platform, processes
<1>9. CASE CancelExternal
  BY <1>0, <1>9 DEF CancelExternal, Process, ShouldRestart, ExtType, Platform, parts, platform, processes
<1>10. CASE ExternalGone
  BY <1>0, <1>10 DEF ExternalGone, Process, ShouldRestart, ExtType, Platform, parts, platform, processes
<1>11. CASE ExternalsStopped
  BY <1>0, <1>11 DEF ExternalsStopped, Process, ShouldRestart, ExtType, Platform, parts, platform, processes
<1>12. CASE StopDashboard
  BY <1>0, <1>12 DEF StopDashboard, Process, ShouldRestart, ExtType, Platform, parts, platform, processes
<1>13. CASE CloseService
  BY <1>0, <1>13 DEF CloseService, Process, ShouldRestart, ExtType, Platform, parts, platform, processes
<1>14. CASE CloseComponents
  BY <1>0, <1>14 DEF CloseComponents, Process, ShouldRestart, ExtType, Platform, parts, platform, processes
<1>15. CASE CloseComponent
  BY <1>0, <1>15 DEF CloseComponent, Process, ShouldRestart, ExtType, Platform, parts, platform, processes
<1>16. CASE Cancel
  BY <1>0, <1>16 DEF Cancel, Process, ShouldRestart, ExtType, Platform, parts, platform, processes
<1>17. CASE CloseNats
  BY <1>0, <1>17 DEF CloseNats, Process, ShouldRestart, ExtType, Platform, parts, platform, processes
<1>18. CASE \E f \in Externals : ProcessStep(f)
  <2>1. PICK f \in Externals : ProcessStep(f)
    BY <1>18
  <2>2. CASE f = e
    BY <1>0, <2>1, <2>2, ProcessStepIs
  <2>3. CASE f # e
    <3>1. UNCHANGED <<config, main, cancelled, ext[e]>>
      BY <1>0, <2>1, <2>3, ProcessStepIs DEF World, IInv
    <3> QED
      BY <1>0, <3>1 DEF Process, ShouldRestart
  <2> QED
    BY <2>2, <2>3
<1>20. CASE Call
  BY <1>0, <1>20, CallIs DEF Untouched, Process, ShouldRestart
<1>19. CASE UNCHANGED vars
  BY <1>0, <1>19 DEF vars, Process, ShouldRestart
<1> QED
  BY <1>1, <1>2, <1>3, <1>4, <1>5, <1>6, <1>7, <1>8, <1>9, <1>10, <1>11, <1>12, <1>13, <1>14, <1>15, <1>16, <1>17, <1>18, <1>19, <1>20 DEF Next, StartStep, StopStep, ProcessStep

-----------------------------------------------------------------------------
(* Those who use a component from outside. *)

LEMMA UsersNext == IInv /\ [Next]_vars => Users'
<1> SUFFICES ASSUME IInv, [Next]_vars PROVE Users'
  OBVIOUS
<1>0. /\ Types /\ Todo /\ Parts /\ Platform /\ Users /\ \A e \in Externals : Process(e)
      /\ exposed \subseteq tracked
  BY TrackedAre DEF IInv
<1>1. CASE Start
  BY <1>0, <1>1 DEF Start, Users, Platform, Parts, Types, Stopping, parts, platform, calls
<1>2. CASE StartComponent
  BY <1>0, <1>2 DEF StartComponent, Users, Platform, Parts, Types, Stopping, parts, platform, calls
<1>3. CASE ExposeCapabilities
  BY <1>0, <1>3 DEF ExposeCapabilities, Users, Platform, Parts, Types, Stopping, parts, platform, calls
<1>4. CASE StartService
  BY <1>0, <1>4 DEF StartService, Users, Platform, Parts, Types, Stopping, parts, platform, calls
<1>5. CASE StartExternal
  BY <1>0, <1>5 DEF StartExternal, Users, Platform, Parts, Types, Stopping, parts, platform, calls
<1>6. CASE Started
  BY <1>0, <1>6 DEF Started, Users, Platform, Parts, Types, Stopping, parts, platform, calls
<1>7. CASE Signal
  BY <1>0, <1>7 DEF Signal, Users, Platform, Parts, Types, Stopping, parts, platform, calls
<1>8. CASE Stop
  BY <1>0, <1>8 DEF Stop, Users, Platform, Parts, Types, Stopping, parts, platform, calls
<1>9. CASE CancelExternal
  BY <1>0, <1>9 DEF CancelExternal, Users, Platform, Parts, Types, Stopping, parts, platform, calls
<1>10. CASE ExternalGone
  BY <1>0, <1>10 DEF ExternalGone, Users, Platform, Parts, Types, Stopping, parts, platform, calls
<1>11. CASE ExternalsStopped
  BY <1>0, <1>11 DEF ExternalsStopped, Users, Platform, Parts, Types, Stopping, parts, platform, calls
<1>12. CASE StopDashboard
  BY <1>0, <1>12 DEF StopDashboard, Users, Platform, Parts, Types, Stopping, parts, platform, calls
<1>13. CASE CloseService
  BY <1>0, <1>13 DEF CloseService, Users, Platform, Parts, Types, Stopping, parts, platform, calls
<1>14. CASE CloseComponents
  BY <1>0, <1>14 DEF CloseComponents, Users, Platform, Parts, Types, Stopping, parts, platform, calls
<1>15. CASE CloseComponent
  BY <1>0, <1>15 DEF CloseComponent, Users, Platform, Parts, Types, Stopping, parts, platform, calls
<1>16. CASE Cancel
  BY <1>0, <1>16 DEF Cancel, Users, Platform, Parts, Types, Stopping, parts, platform, calls
<1>17. CASE CloseNats
  BY <1>0, <1>17 DEF CloseNats, Users, Platform, Parts, Types, Stopping, parts, platform, calls
<1>18. CASE \E e \in Externals : ProcessStep(e)
  BY <1>0, <1>18, ProcessStepIs DEF Users, World, platform, parts, calls
<1>20. CASE Call
  BY <1>0, <1>20, CallIs DEF Untouched, Users, Parts, Platform, Types
<1>19. CASE UNCHANGED vars
  BY <1>0, <1>19 DEF vars, Users
<1> QED
  BY <1>1, <1>2, <1>3, <1>4, <1>5, <1>6, <1>7, <1>8, <1>9, <1>10, <1>11, <1>12, <1>13, <1>14, <1>15, <1>16, <1>17, <1>18, <1>19, <1>20 DEF Next, StartStep, StopStep, ProcessStep

-----------------------------------------------------------------------------
(* The theorems. *)

LEMMA Initially == Init => IInv
<1> SUFFICES ASSUME Init PROVE IInv
  OBVIOUS
<1>1. Types /\ Platform /\ Users
  <2>1. ext \in [Externals -> ExtType]
    BY RobotAssumption DEF Init, ExtType
  <2>2. 0 \in 0 .. MaxStops
    BY RobotAssumption
  <2>3. Types
    BY <2>1, <2>2 DEF Init, Types
  <2>4. Platform
    BY DEF Init, Platform, Stopping
  <2>5. Users
    BY DEF Init, Users
  <2> QED
    BY <2>3, <2>4, <2>5
<1>2. WellOrdered(<<>>)
  BY DEF WellOrdered
<1>3. Todo /\ Parts
  BY <1>2 DEF Init, Todo, Parts, First
<1>4. ASSUME NEW e \in Externals PROVE Process(e)
  BY <1>1, RobotAssumption DEF Init, Process
<1> QED
  BY <1>1, <1>3, <1>4 DEF IInv

LEMMA Invariant == Spec => []IInv
<1>1. IInv /\ [Next]_vars => IInv'
  BY TypesNext, TodoNext, PartsNext, PlatformNext, UsersNext, ProcessNext DEF IInv
<1> QED
  BY <1>1, Initially, PTL DEF Spec

\* For any dependencies, the sort of topo.go refuses those on what is no component and
\* those with a cycle, and no others; it gives each component once, after all those it
\* depends on.
THEOREM SortCorrect ==
  ASSUME NEW deps \in [Components -> SUBSET (Components \cup Services)]
  PROVE  SortsRight(deps)
<1>1. CASE ~ (\A c \in Components : deps[c] \subseteq Components)
  BY <1>1 DEF SortsRight, Sortable
<1>2. CASE \A c \in Components : deps[c] \subseteq Components
  <2> DEFINE s == Sorting(deps)
  <2>1. deps \in [Components -> SUBSET Components]
    BY <1>2
  <2>2. /\ s \in Seq(Components) /\ Distinct(s)
        /\ Len(s) = Len(Order) <=> ToSet(s) = Components
        /\ Len(s) = Len(Order) <=> Acyclic(deps)
        /\ \A i \in 1 .. Len(s) : \A d \in deps[s[i]] : \E j \in 1 .. i - 1 : s[j] = d
    BY <2>1, SortedRight
  <2>3. Sortable(deps) <=> Len(s) = Len(Order)
    BY <1>2 DEF Sortable
  <2> HIDE DEF s
  <2>4. DOMAIN s = 1 .. Len(s) /\ Len(s) \in Nat
    BY <2>2
  <2>5. ASSUME NEW i \in 1 .. Len(s), NEW j \in 1 .. Len(s), s[i] \in deps[s[j]]
        PROVE  i < j
    <3>1. PICK k \in 1 .. j - 1 : s[k] = s[i]
      BY <2>2, <2>5
    <3>2. k \in 1 .. Len(s) /\ k < j
      BY <2>4, <3>1
    <3>3. k = i
      BY <2>2, <3>1, <3>2 DEF Distinct
    <3> QED
      BY <3>2, <3>3
  <2> QED
    BY <1>2, <2>2, <2>3, <2>4, <2>5 DEF SortsRight, s
<1> QED
  BY <1>1, <1>2

\* Everything keeps its type: what Start and Stop have yet to do are components and
\* services, no component is started twice, the lock is held in stopExternalServices
\* alone, and no process is started more often than the bound allows (robot.go).
THEOREM TypeCorrect == Spec => []TypeOK
<1>1. IInv => TypeOK
  <2> SUFFICES ASSUME IInv PROVE TypeOK
    OBVIOUS
  <2>1. Types /\ Todo /\ Parts /\ Platform
    BY DEF IInv
  <2>2. todo \in Seq(Components \cup Services)
    <3>1. \/ todo \in Seq(Components) \/ todo \in Seq(Services) \/ todo \in Seq(Externals)
          \/ todo = <<>>
      BY <2>1 DEF Todo
    <3>2. Services \subseteq Components \cup Services /\ Externals \subseteq Components \cup Services
      BY DEF Services
    <3> HIDE DEF Components, Services
    <3> QED
      BY <3>1, <3>2, SeqMonotonic, EmptySeq
  <2>3. /\ order \in Seq(Components) /\ IsInjective(order) /\ First(Len(order)) = ToSet(order)
        /\ First(Len(order)) \subseteq Components
    BY <2>1, LenProperties DEF Parts, WellOrdered, First, ToSet, IsInjective
  <2>4. tracked \subseteq First(Len(order)) /\ open \subseteq First(Len(order))
    BY <2>1 DEF Parts, Todo, First
  <2>5. exposed \subseteq Components
    BY <2>1, <2>3, <2>4 DEF Parts
  <2>6. closes \in [Components -> 0 .. MaxStops]
    <3>1. CASE stops = 0
      <4>1. open = First(Len(order))
        BY <2>1, <3>1 DEF Parts, Platform, Stopping, Types
      <4> QED
        BY <2>1, <4>1, RobotAssumption DEF Parts
    <3>2. CASE stops # 0
      BY <2>1, <3>2, RobotAssumption DEF Parts, Types
    <3> QED
      BY <3>1, <3>2
  <2> QED
    BY <2>1, <2>2, <2>3, <2>4, <2>5, <2>6 DEF TypeOK, Types
<1> QED
  BY <1>1, Invariant, PTL

\* An open component has the components it depends on, nobody new comes to a closed one,
\* and a request to the dashboard is out of it unless Stop gave up waiting (Start and Stop
\* of robot.go, topoSortComponents, Close of the NCP server and Stop of the dashboard).
THEOREM UsersLeaveFirst == Spec => []UsersGoFirst
<1>1. IInv => UsersGoFirst
  <2> SUFFICES ASSUME IInv PROVE UsersGoFirst
    OBVIOUS
  <2>1. Types /\ Todo /\ Parts /\ Platform /\ Users
    BY DEF IInv
  <2>2. ASSUME NEW c \in open, NEW d \in config.deps[c] \ config.disabled
        PROVE  d \in open
    <3>1. PICK k \in 0 .. Len(order) : open = First(k)
      BY <2>1, <2>2, LenProperties DEF Parts, Todo, WellOrdered
    <3>2. PICK i \in 1 .. k : order[i] = c
      BY <3>1 DEF First
    <3>3. PICK j \in 1 .. i - 1 : order[j] = d
      BY <2>1, <3>2 DEF Parts, WellOrdered
    <3> QED
      BY <3>1, <3>3 DEF First
  <2>3. exposed \subseteq open
    BY <2>1 DEF Parts
  <2>4. services # {} \/ dashboard => tracked \subseteq open
    BY <2>1 DEF Parts, Platform
  <2>5. open # {} \/ services # {} \/ dashboard => nats
    BY <2>1 DEF Platform
  <2>6. local \subseteq open \/ gaveUp
    BY <2>1, <2>4 DEF Users
  <2>7. remote \subseteq open \/ exposed = {}
    BY <2>1, <2>3 DEF Users, Parts
  <2> QED
    BY <2>2, <2>3, <2>4, <2>5, <2>6, <2>7 DEF UsersGoFirst
<1> QED
  BY <1>1, Invariant, PTL

\* Every component Start got running has been closed when Stop has returned, and no
\* component is closed twice, however often Stop is called (Stop of robot.go).
THEOREM EachClosedOnce == Spec => []ClosedOnce
<1>1. IInv => ClosedOnce
  <2> SUFFICES ASSUME IInv PROVE ClosedOnce
    OBVIOUS
  <2>1. Types /\ Parts
    BY DEF IInv
  <2>2. ToSet(order) = First(Len(order)) /\ First(Len(order)) \subseteq Components
    BY <2>1, LenProperties DEF Parts, WellOrdered, First, ToSet
  <2> QED
    BY <2>1, <2>2 DEF ClosedOnce, Parts
<1> QED
  BY <1>1, Invariant, PTL

\* A process is started again only as its policy says, and never after the robot's
\* context is done (monitorExternalService of robot.go).
THEOREM RestartedAsAsked == Spec => RestartsAsAsked
<1>1. IInv /\ [Next]_vars =>
        [\A e \in Externals : ext'[e].starts # ext[e].starts =>
           /\ ~cancelled
           /\ ext[e].starts > 0 => \/ config.restart[e] = "always"
                                   \/ config.restart[e] = "on-failure" /\ ext[e].failed]_vars
  <2> SUFFICES ASSUME IInv, Next, NEW e \in Externals, ext'[e].starts # ext[e].starts
               PROVE  /\ ~cancelled
                      /\ ext[e].starts > 0 => ShouldRestart(e)
    BY DEF ShouldRestart
  <2>1. Types /\ Todo /\ Process(e) /\ ext \in [Externals -> ExtType]
    BY DEF IInv, Types
  <2>2. CASE StartExternal
    <3>1. /\ ~cancelled /\ ext' = Launched(Head(todo), "start")
          /\ Head(todo) \in Externals /\ ext[Head(todo)].starts = 0
      BY <2>1, <2>2, HeadTail DEF StartExternal, Todo
    <3>2. e = Head(todo)
      BY <2>1, <3>1 DEF Launched
    <3> QED
      BY <3>1, <3>2
  <2>3. CASE \E f \in Externals : ProcessStep(f)
    <3>1. PICK f \in Externals : ProcessStep(f)
      BY <2>3
    <3>2. f = e
      BY <2>1, <3>1, ProcessStepIs DEF IInv
    <3>3. CASE MonitorRestarts(e)
      <4>1. CASE ext' = [ext EXCEPT ![e].monitor = "ended"]
        BY <2>1, <4>1 DEF ExtType
      <4>2. CASE ~cancelled
        BY <2>1, <3>3, <4>2 DEF MonitorRestarts, Process
      <4> QED
        BY <3>3, <4>1, <4>2 DEF MonitorRestarts
    <3>4. CASE ~MonitorRestarts(e)
      BY <2>1, <3>1, <3>2, <3>4 DEF ProcessStep, Monitor, ProcessExits, Killed, MonitorWaits,
           MonitorDecides, MonitorWakes, MonitorTracks, ExtType
    <3> QED
      BY <3>3, <3>4
  <2>4. CASE CancelExternal \/ ExternalGone \/ ExternalsStopped
    BY <2>1, <2>4 DEF CancelExternal, ExternalGone, ExternalsStopped, ExtType
  <2>5. CASE UNCHANGED ext
    BY <2>5
  <2>6. CASE Call
    BY <2>1, <2>6, CallIs DEF Untouched
  <2> QED
    BY <2>2, <2>3, <2>4, <2>5, <2>6 DEF Next, StartStep, StopStep, ProcessStep, Start, StartComponent,
         ExposeCapabilities, StartService, Started, Signal, Stop, StopDashboard, CloseService,
         CloseComponents, CloseComponent, Cancel, CloseNats, processes
<1> QED
  BY <1>1, Invariant, PTL DEF Spec, RestartsAsAsked
-----------------------------------------------------------------------------
(* The search of Configuration, for any names N, each with the list L[n] of those it *)
(* depends on: what holds while there is no error.  p is the path, c the colors, and *)
(* a how many of its dependencies each name has looked at.                           *)

Graph(N, L) == IsFiniteSet(N) /\ L \in [N -> Seq(N)]

Edge(L, n, m) == \E i \in 1 .. Len(L[n]) : L[n][i] = m

NoCycleIn(L, B) == \A S \in SUBSET B : S # {} => \E n \in S : \A m \in S : ~Edge(L, n, m)

Colors(N) == [N -> {"white", "gray", "black"}]

Black(N, c) == {n \in N : c[n] = "black"}

PathInv(N, L, p, c) ==
  /\ \A n \in N : c[n] = "gray" <=> \E k \in 1 .. Len(p) : p[k] = n
  /\ \A j, k \in 1 .. Len(p) : p[j] = p[k] => j = k
  /\ \A k \in 1 .. Len(p) - 1 : Edge(L, p[k], p[k + 1])

CountInv(N, L, c, a) ==
  \A n \in N : /\ a[n] <= Len(L[n])
               /\ c[n] = "white" => a[n] = 0
               /\ c[n] = "black" => a[n] = Len(L[n])

\* What has been looked at is black, or it is the next on the path.
SeenInv(N, L, p, c, a) ==
  \A n \in N : \A i \in 1 .. a[n] :
    c[L[n][i]] = "black" \/ \E k \in 1 .. Len(p) - 1 : p[k] = n /\ p[k + 1] = L[n][i]

\* No error so far.
GoingOn(N, L, p, c, a) ==
  /\ Graph(N, L) /\ p \in Seq(N) /\ c \in Colors(N) /\ a \in [N -> Nat]
  /\ PathInv(N, L, p, c) /\ CountInv(N, L, c, a) /\ SeenInv(N, L, p, c, a)
  /\ NoCycleIn(L, Black(N, c))

\* g is f, but for n, where it is v.
Changed(N, f, g, n, v) == g[n] = v /\ \A m \in N \ {n} : g[m] = f[m]

\* The visit of n looks at a dependency that is black already.
LEMMA LookBlack ==
  ASSUME NEW N, NEW L, NEW p, NEW c, NEW a, GoingOn(N, L, p, c, a),
         NEW n \in N, c[n] = "gray", a[n] + 1 <= Len(L[n]), NEW i, i = a[n] + 1,
         c[L[n][i]] = "black"
  PROVE  GoingOn(N, L, p, c, [a EXCEPT ![n] = i])
<1>t. L \in [N -> Seq(N)] /\ p \in Seq(N) /\ c \in Colors(N) /\ a \in [N -> Nat]
  BY DEF GoingOn, Graph
<1> USE <1>t
<1> DEFINE b == [a EXCEPT ![n] = i]
<1>1. i \in Nat /\ b[n] = i /\ \A m \in N \ {n} : b[m] = a[m]
  OBVIOUS
<1> HIDE DEF b
<1>2. CountInv(N, L, c, b)
  BY <1>1 DEF GoingOn, CountInv
<1>3. SeenInv(N, L, p, c, b)
  <2> SUFFICES ASSUME NEW m \in N, NEW j \in 1 .. b[m]
               PROVE  c[L[m][j]] = "black" \/ \E k \in 1 .. Len(p) - 1 : p[k] = m /\ p[k + 1] = L[m][j]
    BY DEF SeenInv
  <2>1. j \in 1 .. a[m] \/ (m = n /\ j = i)
    BY <1>1
  <2> QED
    BY <2>1 DEF GoingOn, SeenInv
<1>4. b \in [N -> Nat]
  BY <1>1 DEF b
<1> QED
  BY <1>2, <1>3, <1>4 DEF GoingOn, b

LEMMA OneMore ==
  ASSUME NEW l \in Nat \ {0}
  PROVE  /\ 1 .. (l + 1) - 1 = 1 .. l
         /\ \A k \in 1 .. l + 1 : k = l + 1 \/ k \in 1 .. l
         /\ \A k \in 1 .. l : k = l \/ k \in 1 .. l - 1
         /\ \A k \in 1 .. l - 1 : k \in 1 .. l /\ k + 1 \in 1 .. l
         /\ l + 1 \in 1 .. l + 1 /\ \A k \in 1 .. l : k \in 1 .. l + 1
OBVIOUS

\* It visits one that is white.
LEMMA LookWhite ==
  ASSUME NEW N, NEW L, NEW p, NEW c, NEW a, GoingOn(N, L, p, c, a),
         p # <<>>, NEW n, n = Last(p),
         NEW i, i = a[n] + 1, i \in 1 .. Len(L[n]), NEW m, m = L[n][i], c[m] = "white",
         NEW b, b \in [N -> Nat], Changed(N, a, b, n, i),
         NEW d, d \in Colors(N), Changed(N, c, d, m, "gray")
  PROVE  GoingOn(N, L, Append(p, m), d, b)
<1>t. L \in [N -> Seq(N)] /\ p \in Seq(N) /\ c \in Colors(N) /\ a \in [N -> Nat]
  BY DEF GoingOn, Graph
<1> USE <1>t
<1> DEFINE q == Append(p, m)
           l == Len(p)
<1>0. l \in Nat \ {0} /\ n \in N /\ p[l] = n /\ n = p[Len(p)] /\ l \in 1 .. l
  BY SMTT(30) DEF Last
<1>1. c[n] = "gray"
  <2>1. \E k \in 1 .. Len(p) : p[k] = n
    BY <1>0
  <2> HIDE DEF l
  <2> QED
    BY <1>0, <2>1 DEF GoingOn, PathInv
<1>2. /\ i \in 1 .. Len(L[n]) /\ m \in N /\ m # n
  <2>1. L[n] \in Seq(N) /\ a[n] \in Nat
    BY <1>0
  <2>2. m \in N
    BY <2>1
  <2> QED
    BY <1>1, <2>2
<1>3. /\ b[n] = i /\ \A x \in N \ {n} : b[x] = a[x]
  BY DEF Changed
<1>4. d[m] = "gray" /\ \A x \in N \ {m} : d[x] = c[x]
  BY DEF Changed
<1>5. /\ Len(q) = l + 1 /\ q[l + 1] = m
      /\ \A k \in 1 .. l : q[k] = p[k] /\ p[k] \in N
      /\ 1 .. Len(q) - 1 = 1 .. l
      /\ \A k \in 1 .. l + 1 : k = l + 1 \/ k \in 1 .. l
      /\ \A k \in 1 .. l : k = l \/ k \in 1 .. l - 1
      /\ \A k \in 1 .. l - 1 : k \in 1 .. l /\ k + 1 \in 1 .. l
      /\ l + 1 \in 1 .. l + 1 /\ \A k \in 1 .. l : k \in 1 .. l + 1
  <2>1. /\ Len(q) = l + 1 /\ q[l + 1] = m
        /\ \A k \in 1 .. l : q[k] = p[k]
    BY <1>2, AppendIs
  <2>2. \A k \in 1 .. l : p[k] \in N
    OBVIOUS
  <2>0. l \in Nat \ {0}
    BY <1>0
  <2> HIDE DEF q, l
  <2>3. /\ 1 .. (l + 1) - 1 = 1 .. l
        /\ \A k \in 1 .. l + 1 : k = l + 1 \/ k \in 1 .. l
        /\ \A k \in 1 .. l : k = l \/ k \in 1 .. l - 1
        /\ \A k \in 1 .. l - 1 : k \in 1 .. l /\ k + 1 \in 1 .. l
        /\ l + 1 \in 1 .. l + 1 /\ \A k \in 1 .. l : k \in 1 .. l + 1
    BY <2>0, OneMore
  <2> QED
    BY <2>1, <2>2, <2>3
<1>6. \A k \in 1 .. l : p[k] # m
  BY <1>2 DEF GoingOn, PathInv
<1>7. q \in Seq(N)
  BY <1>2
<1> HIDE DEF q, l
<1>8. PathInv(N, L, q, d)
  <2>1. \A x \in N : d[x] = "gray" <=> \E k \in 1 .. Len(q) : q[k] = x
    <3> TAKE x \in N
    <3>1. c[x] = "gray" <=> \E k \in 1 .. l : p[k] = x
      BY DEF GoingOn, PathInv, l
    <3>2. (\E k \in 1 .. Len(q) : q[k] = x) <=> x = m \/ \E k \in 1 .. l : p[k] = x
      BY <1>5, Zenon
    <3> QED
      BY <1>4, <1>6, <3>1, <3>2
  <2>2. \A j, k \in 1 .. Len(q) : q[j] = q[k] => j = k
    <3>1. \A j, k \in 1 .. l : p[j] = p[k] => j = k
      BY DEF GoingOn, PathInv, l
    <3> QED
      BY <1>5, <1>6, <3>1
  <2>3. \A k \in 1 .. Len(q) - 1 : Edge(L, q[k], q[k + 1])
    <3>1. \A k \in 1 .. l - 1 : Edge(L, p[k], p[k + 1])
      BY DEF GoingOn, PathInv, l
    <3>2. Edge(L, n, m)
      BY <1>2 DEF Edge
    <3> TAKE k \in 1 .. Len(q) - 1
    <3>3. CASE k = l
      BY <1>0, <1>5, <3>2, <3>3
    <3>4. CASE k \in 1 .. l - 1
      <4>1. q[k] = p[k] /\ q[k + 1] = p[k + 1]
        BY <1>5, <3>4
      <4> QED
        BY <3>1, <3>4, <4>1
    <3> QED
      BY <1>5, <3>3, <3>4
  <2> QED
    BY <2>1, <2>2, <2>3 DEF PathInv
<1>9. CountInv(N, L, d, b)
  <2>1. CountInv(N, L, c, a)
    BY DEF GoingOn
  <2>2. i <= Len(L[n])
    <3>1. Len(L[n]) \in Nat
      BY <1>0
    <3> QED
      BY <1>2, <3>1
  <2>5. d[n] = "gray"
    BY <1>0, <1>1, <1>2, <1>4
  <2> SUFFICES ASSUME NEW x \in N
               PROVE  /\ b[x] <= Len(L[x])
                      /\ d[x] = "white" => b[x] = 0
                      /\ d[x] = "black" => b[x] = Len(L[x])
    BY DEF CountInv
  <2>3. CASE x = n
    BY <1>3, <2>2, <2>3, <2>5
  <2>4. CASE x # n
    BY <1>3, <1>4, <2>1, <2>4 DEF CountInv
  <2> QED
    BY <2>3, <2>4
<1>10. SeenInv(N, L, q, d, b)
  <2> SUFFICES ASSUME NEW x \in N, NEW j \in 1 .. b[x]
               PROVE  d[L[x][j]] = "black" \/ \E k \in 1 .. Len(q) - 1 : q[k] = x /\ q[k + 1] = L[x][j]
    BY DEF SeenInv
  <2>1. CASE x = n /\ j = i
    <3>1. l \in 1 .. l
      BY <1>0
    <3>2. l \in 1 .. Len(q) - 1 /\ q[l] = n /\ q[l + 1] = L[x][j]
      BY <1>0, <1>5, <2>1, <3>1
    <3> QED
      BY <2>1, <3>2
  <2>2. CASE ~(x = n /\ j = i)
    <3>1. j \in 1 .. a[x]
      BY <1>0, <1>3, <2>2
    <3>2. \/ c[L[x][j]] = "black"
          \/ \E k \in 1 .. l - 1 : p[k] = x /\ p[k + 1] = L[x][j]
      <4>1. SeenInv(N, L, p, c, a)
        BY DEF GoingOn
      <4> QED
        BY <3>1, <4>1 DEF SeenInv, l
    <3>3. CASE c[L[x][j]] = "black"
      <4>1. L[x][j] \in N
        <5>1. a[x] <= Len(L[x])
          BY DEF GoingOn, CountInv
        <5> QED
          BY <3>1, <5>1
      <4> QED
        BY <1>4, <3>3, <4>1
    <3>4. CASE \E k \in 1 .. l - 1 : p[k] = x /\ p[k + 1] = L[x][j]
      BY <1>5, <3>4
    <3> QED
      BY <3>2, <3>3, <3>4
  <2> QED
    BY <2>1, <2>2
<1>11. NoCycleIn(L, Black(N, d))
  <2>1. Black(N, d) = Black(N, c)
    BY <1>2, <1>4 DEF Black
  <2> QED
    BY <2>1 DEF GoingOn
<1> QED
  BY <1>8, <1>9, <1>10, <1>11, <1>7 DEF GoingOn, q

LEMMA FrontIs ==
  ASSUME NEW S, NEW s \in Seq(S), s # <<>>
  PROVE  /\ Front(s) \in Seq(S) /\ Len(Front(s)) = Len(s) - 1
         /\ \A k \in 1 .. Len(s) - 1 : Front(s)[k] = s[k]
<1> DEFINE n == Len(s) - 1
<1>1. /\ n \in Nat /\ n - 1 + 1 = n /\ \A k \in 1 .. n : 1 + k - 1 = k
      /\ \A k \in 1 .. n : s[k] \in S
  OBVIOUS
<1> HIDE DEF n
<1>2. /\ SubSeq(s, 1, n) \in Seq(S) /\ Len(SubSeq(s, 1, n)) = IF 1 <= n THEN n - 1 + 1 ELSE 0
      /\ \A k \in 1 .. n - 1 + 1 : SubSeq(s, 1, n)[k] = s[1 + k - 1]
  BY <1>1, SubSeqProperties
<1>3. Len(SubSeq(s, 1, n)) = n
  BY <1>1, <1>2
<1> QED
  BY <1>1, <1>2, <1>3 DEF Front, n

\* It returns.
LEMMA Returns ==
  ASSUME NEW N, NEW L, NEW p, NEW c, NEW a, GoingOn(N, L, p, c, a),
         p # <<>>, NEW n, n = Last(p), ~(a[n] + 1 <= Len(L[n]))
  PROVE  GoingOn(N, L, Front(p), [c EXCEPT ![n] = "black"], a)
<1>t. L \in [N -> Seq(N)] /\ p \in Seq(N) /\ c \in Colors(N) /\ a \in [N -> Nat]
  BY DEF GoingOn, Graph
<1> USE <1>t
<1> DEFINE d == [c EXCEPT ![n] = "black"]
           q == Front(p)
           l == Len(p)
<1>0. l \in Nat \ {0} /\ n \in N /\ p[l] = n /\ n = p[Len(p)] /\ l \in 1 .. l
  BY DEF Last
<1>1. c[n] = "gray" /\ a[n] = Len(L[n])
  BY <1>0 DEF GoingOn, PathInv, CountInv
<1>2. d[n] = "black" /\ \A x \in N \ {n} : d[x] = c[x]
  BY <1>0 DEF Colors
<1>3. /\ Len(q) = l - 1
      /\ \A k \in 1 .. l - 1 : q[k] = p[k]
  BY FrontIs
<1>4. q \in Seq(N) /\ d \in Colors(N)
  BY <1>0, FrontIs DEF Colors
<1>5. /\ \A k \in 1 .. l : p[k] \in N /\ (k = l \/ k \in 1 .. l - 1)
      /\ \A k \in 1 .. l - 1 : k \in 1 .. l /\ k # l
      /\ \A k \in 1 .. (l - 1) - 1 : k \in 1 .. l - 1 /\ k + 1 \in 1 .. l - 1
      /\ \A k \in 1 .. l - 1 : k + 1 = l \/ k \in 1 .. (l - 1) - 1
  BY <1>0, SMTT(30)
<1>6. \A k \in 1 .. l - 1 : p[k] # n
  BY <1>0, <1>5 DEF GoingOn, PathInv
<1> HIDE DEF d, q, l
<1>7. PathInv(N, L, q, d)
  <2>1. \A x \in N : d[x] = "gray" <=> \E k \in 1 .. Len(q) : q[k] = x
    <3> TAKE x \in N
    <3>1. c[x] = "gray" <=> \E k \in 1 .. l : p[k] = x
      BY DEF GoingOn, PathInv, l
    <3>2. (\E k \in 1 .. Len(q) : q[k] = x) <=> \E k \in 1 .. l - 1 : p[k] = x
      BY <1>3
    <3>3. CASE x = n
      BY <1>2, <1>6, <3>2, <3>3
    <3>4. CASE x # n
      <4>1. (\E k \in 1 .. l : p[k] = x) <=> \E k \in 1 .. l - 1 : p[k] = x
        BY <1>0, <1>5, <3>4
      <4> QED
        BY <1>2, <3>1, <3>2, <3>4, <4>1
    <3> QED
      BY <3>3, <3>4
  <2>2. \A j, k \in 1 .. Len(q) : q[j] = q[k] => j = k
    <3>1. \A j, k \in 1 .. l : p[j] = p[k] => j = k
      BY DEF GoingOn, PathInv, l
    <3> QED
      BY <1>3, <1>5, <3>1
  <2>3. \A k \in 1 .. Len(q) - 1 : Edge(L, q[k], q[k + 1])
    <3>1. \A k \in 1 .. l - 1 : Edge(L, p[k], p[k + 1])
      BY DEF GoingOn, PathInv, l
    <3> TAKE k \in 1 .. Len(q) - 1
    <3>2. k \in 1 .. l - 1 /\ q[k] = p[k] /\ q[k + 1] = p[k + 1]
      BY <1>3, <1>5
    <3> QED
      BY <3>1, <3>2
  <2> QED
    BY <2>1, <2>2, <2>3 DEF PathInv
<1>8. CountInv(N, L, d, a)
  BY <1>1, <1>2 DEF GoingOn, CountInv
<1>9. ASSUME NEW x \in N, NEW j \in 1 .. a[x]
      PROVE  /\ L[x][j] \in N
             /\ \/ d[L[x][j]] = "black"
                \/ \E k \in 1 .. (l - 1) - 1 : p[k] = x /\ p[k + 1] = L[x][j]
  <2>1. L[x][j] \in N
    <3>1. a[x] <= Len(L[x])
      BY DEF GoingOn, CountInv
    <3> QED
      BY <3>1
  <2>2. CASE c[L[x][j]] = "black"
    BY <1>2, <2>1, <2>2
  <2>3. CASE \E k \in 1 .. l - 1 : p[k] = x /\ p[k + 1] = L[x][j]
    <3>1. PICK k \in 1 .. l - 1 : p[k] = x /\ p[k + 1] = L[x][j]
      BY <2>3
    <3>2. CASE k + 1 = l
      BY <1>0, <1>2, <2>1, <3>1, <3>2
    <3>3. CASE k \in 1 .. (l - 1) - 1
      BY <2>1, <3>1, <3>3
    <3> QED
      BY <1>5, <3>2, <3>3
  <2> QED
    BY <2>1, <2>2, <2>3 DEF GoingOn, SeenInv, l
<1>10. SeenInv(N, L, q, d, a)
  <2>1. ASSUME NEW x \in N, NEW j \in 1 .. a[x]
        PROVE  /\ L[x][j] \in N
               /\ \/ d[L[x][j]] = "black"
                  \/ \E k \in 1 .. Len(q) - 1 : q[k] = x /\ q[k + 1] = L[x][j]
    <3>1. CASE \E k \in 1 .. (l - 1) - 1 : p[k] = x /\ p[k + 1] = L[x][j]
      <4>1. PICK k \in 1 .. (l - 1) - 1 : p[k] = x /\ p[k + 1] = L[x][j]
        BY <3>1
      <4>2. k \in 1 .. Len(q) - 1 /\ q[k] = x /\ q[k + 1] = L[x][j]
        BY <1>3, <1>5, <4>1
      <4> QED
        BY <1>9, <4>2
    <3>2. CASE ~\E k \in 1 .. (l - 1) - 1 : p[k] = x /\ p[k + 1] = L[x][j]
      BY <1>9, <3>2
    <3> QED
      BY <3>1, <3>2
  <2> QED
    BY <2>1, Zenon DEF SeenInv
<1>11. NoCycleIn(L, Black(N, d))
  \* What a black name depends on is black.
  <2>1. ASSUME NEW x \in N, d[x] = "black", NEW m \in N, Edge(L, x, m)
        PROVE  c[m] = "black"
    <3>1. PICK j \in 1 .. Len(L[x]) : L[x][j] = m
      BY <2>1 DEF Edge
    <3>2. a[x] = Len(L[x])
      BY <1>8, <2>1 DEF CountInv
    <3>3. ~\E k \in 1 .. l - 1 : p[k] = x
      <4>1. CASE x = n
        BY <1>6, <4>1
      <4>2. CASE x # n
        BY <1>2, <1>5, <2>1, <4>2 DEF GoingOn, PathInv, l
      <4> QED
        BY <4>1, <4>2
    <3> QED
      BY <3>1, <3>2, <3>3 DEF GoingOn, SeenInv, l
  <2> SUFFICES ASSUME NEW S \in SUBSET Black(N, d), S # {}
               PROVE  \E x \in S : \A m \in S : ~Edge(L, x, m)
    BY DEF NoCycleIn
  <2>2. \A x \in S : x \in N /\ d[x] = "black"
    BY DEF Black
  <2>3. S \ {n} \in SUBSET Black(N, c)
    BY <1>2, <2>2 DEF Black
  <2>4. CASE S \ {n} = {}
    BY <1>1, <2>1, <2>2, <2>4
  <2>5. CASE S \ {n} # {}
    <3>1. PICK x \in S \ {n} : \A m \in S \ {n} : ~Edge(L, x, m)
      BY <2>3, <2>5 DEF GoingOn, NoCycleIn
    <3>2. ~Edge(L, x, n)
      BY <1>0, <1>1, <2>1, <2>2
    <3> QED
      BY <3>1, <3>2
  <2> QED
    BY <2>4, <2>5
<1> QED
  BY <1>7, <1>8, <1>10, <1>11, <1>4 DEF GoingOn, d, q

\* The last loop visits a white name.
LEMMA RootWhite ==
  ASSUME NEW N, NEW L, NEW c, NEW a, GoingOn(N, L, <<>>, c, a), NEW m \in N, c[m] = "white"
  PROVE  GoingOn(N, L, <<m>>, [c EXCEPT ![m] = "gray"], a)
<1>t. L \in [N -> Seq(N)] /\ c \in Colors(N) /\ a \in [N -> Nat]
  BY DEF GoingOn, Graph
<1> USE <1>t
<1> DEFINE d == [c EXCEPT ![m] = "gray"]
           q == <<m>>
<1>1. d[m] = "gray" /\ \A x \in N \ {m} : d[x] = c[x]
  BY DEF Colors
<1>2. Len(q) = 1 /\ q[1] = m /\ 1 .. 1 = {1} /\ 1 .. 1 - 1 = {} /\ 1 .. 0 = {} /\ 1 .. 0 - 1 = {}
  OBVIOUS
<1>3. \A x \in N : c[x] # "gray"
  BY <1>2 DEF GoingOn, PathInv
<1>4. q \in Seq(N) /\ d \in Colors(N)
  BY DEF Colors
<1> HIDE DEF d, q
<1>5. PathInv(N, L, q, d)
  <2>1. \A x \in N : d[x] = "gray" <=> \E k \in 1 .. Len(q) : q[k] = x
    BY <1>1, <1>2, <1>3
  <2>2. \A j, k \in 1 .. Len(q) : q[j] = q[k] => j = k
    BY <1>2
  <2>3. 1 .. Len(q) - 1 = {}
    BY <1>2
  <2> QED
    BY <2>1, <2>2, <2>3 DEF PathInv
<1>6. CountInv(N, L, d, a)
  BY <1>1 DEF GoingOn, CountInv
<1>7. SeenInv(N, L, q, d, a)
  <2> SUFFICES ASSUME NEW x \in N, NEW j \in 1 .. a[x]
               PROVE  d[L[x][j]] = "black"
    BY DEF SeenInv
  <2>1. L[x][j] \in N
    <3>1. a[x] <= Len(L[x])
      BY DEF GoingOn, CountInv
    <3> QED
      BY <3>1
  <2>2. c[L[x][j]] = "black"
    BY <1>2 DEF GoingOn, SeenInv
  <2> QED
    BY <1>1, <2>1, <2>2
<1>8. NoCycleIn(L, Black(N, d))
  <2>1. Black(N, d) = Black(N, c)
    BY <1>1 DEF Black
  <2> QED
    BY <2>1 DEF GoingOn
<1> QED
  BY <1>5, <1>6, <1>7, <1>8, <1>4 DEF GoingOn, d, q

\* A gray name found closes a cycle: that part of the path.
Cyclic(N, L) == \E S \in SUBSET N : S # {} /\ \A n \in S : \E m \in S : Edge(L, n, m)

LEMMA LookGray ==
  ASSUME NEW N, NEW L, NEW p, NEW c, NEW a, GoingOn(N, L, p, c, a),
         p # <<>>,
         NEW m, m \in N, Edge(L, Last(p), m), c[m] = "gray"
  PROVE  Cyclic(N, L)
<1>t. L \in [N -> Seq(N)] /\ p \in Seq(N) /\ c \in Colors(N) /\ a \in [N -> Nat]
  BY DEF GoingOn, Graph
<1> USE <1>t
<1> DEFINE l == Len(p)
<1>0. l \in Nat \ {0} /\ p[l] = Last(p)
  BY DEF Last
<1>1. PICK j \in 1 .. l : p[j] = m
  BY <1>0 DEF GoingOn, PathInv
<1> DEFINE S == {p[k] : k \in j .. l}
<1>2. S \in SUBSET N /\ m \in S
  <2>1. j \in j .. l /\ \A k \in j .. l : k \in 1 .. l
    BY <1>0, <1>1
  <2>2. \A k \in 1 .. l : p[k] \in N
    OBVIOUS
  <2> HIDE DEF l
  <2> QED
    BY <1>1, <2>1, <2>2
<1>3. ASSUME NEW x \in S
      PROVE  \E y \in S : Edge(L, x, y)
  <2>1. PICK k \in j .. l : p[k] = x
    OBVIOUS
  <2>2. CASE k = l
    <3>1. Edge(L, x, m)
      BY <1>0, <2>1, <2>2
    <3> QED
      BY <1>2, <3>1
  <2>3. CASE k # l
    <3>1. k \in 1 .. l - 1 /\ k + 1 \in j .. l
      BY <1>0, <2>3
    <3>2. Edge(L, p[k], p[k + 1]) /\ p[k + 1] \in S
      BY <3>1 DEF GoingOn, PathInv
    <3> QED
      BY <2>1, <3>2
  <2> QED
    BY <2>2, <2>3
<1> HIDE DEF S
<1> QED
  BY <1>2, <1>3 DEF Cyclic

-----------------------------------------------------------------------------
(* What holds of every state of the search, and how far it is. *)

SearchState(N, roots) ==
  [path : Seq(N), color : Colors(N), at : [N -> Nat], root : 0 .. Len(roots), cycle : BOOLEAN]

SearchInv(N, L, roots, s) ==
  /\ Graph(N, L) /\ roots \in Seq(N) /\ s \in SearchState(N, roots)
  /\ s.cycle => Cyclic(N, L)
  /\ ~s.cycle => /\ GoingOn(N, L, s.path, s.color, s.at)
                 /\ \A i \in 1 .. s.root : s.color[roots[i]] # "white"

Ended(roots, s) == s.cycle \/ (s.path = <<>> /\ s.root = Len(roots))

\* The turns taken: a name's returning is its turn 0.
Taken(L, s) == {t \in Turns(L) : IF t[2] = 0 THEN s.color[t[1]] = "black" ELSE t[2] <= s.at[t[1]]}

\* How many steps have been made, unless the search has ended.
Progress(L, s) == s.root + Cardinality(Taken(L, s))

\* When every name has a list of names.
LEMMA GraphIs ==
  ASSUME NEW N, NEW L, Graph(N, L)
  PROVE  /\ Known(L) /\ Names(L) = N
         /\ \A n \in N : DependenciesOf(L, n) = L[n]
         /\ \A t : t \in Turns(L) <=> \E n \in N : \E k \in 0 .. Len(L[n]) : t = <<n, k>>
         /\ IsFiniteSet(Turns(L))
<1>t. IsFiniteSet(N) /\ L \in [N -> Seq(N)]
  BY DEF Graph
<1> USE <1>t
<1>1. DOMAIN L = N /\ \A n \in N : L[n] \in Seq(N) /\ Len(L[n]) \in Nat
  OBVIOUS
<1>2. \A n \in N : ToSet(L[n]) \subseteq N
  BY <1>1, ToSetIs
<1>3. Known(L) /\ Names(L) = N
  BY <1>1, <1>2 DEF Known, Names
<1>4. \A n \in N : DependenciesOf(L, n) = L[n]
  BY <1>1 DEF DependenciesOf
<1> DEFINE Rows == {{n} \X (0 .. Len(L[n])) : n \in N}
<1>5. Turns(L) = UNION Rows
  BY <1>3, <1>4 DEF Turns
<1>6. IsFiniteSet(UNION Rows)
  <2>1. IsFiniteSet(Rows)
    <3> DEFINE f == [n \in N |-> {n} \X (0 .. Len(L[n]))]
    <3>1. f \in Surjection(N, Rows)
      BY DEF Surjection
    <3> HIDE DEF f, Rows
    <3> QED
      BY <3>1, FS_Surjection
  <2>2. ASSUME NEW n \in N PROVE IsFiniteSet({n} \X (0 .. Len(L[n])))
    <3> DEFINE l == Len(L[n])
    <3>0. l \in Int /\ 0 \in Int
      BY <1>1
    <3> HIDE DEF l
    <3>1. IsFiniteSet({n}) /\ IsFiniteSet(0 .. l)
      BY <3>0, FS_Singleton, FS_Interval
    <3> QED
      BY <3>1, FS_Product DEF l
  <2>3. \A R \in Rows : IsFiniteSet(R)
    BY <2>2
  <2> HIDE DEF Rows
  <2> QED
    BY <2>1, <2>3, FS_UNION
<1>7. \A t : t \in UNION Rows <=> \E n \in N : \E k \in 0 .. Len(L[n]) : t = <<n, k>>
  <2> TAKE t
  <2>1. t \in UNION Rows <=> \E n \in N : t \in {n} \X (0 .. Len(L[n]))
    OBVIOUS
  <2>2. \A n \in N : t \in {n} \X (0 .. Len(L[n])) <=> \E k \in 0 .. Len(L[n]) : t = <<n, k>>
    OBVIOUS
  <2> HIDE DEF Rows
  <2> QED
    BY <2>1, <2>2
<1> HIDE DEF Rows
<1> QED
  BY <1>3, <1>4, <1>5, <1>6, <1>7

\* A step takes one turn more.
LEMMA OneTaken ==
  ASSUME NEW N, NEW L, Graph(N, L), NEW s, NEW t, NEW x,
         x \in Turns(L) \ Taken(L, s), Taken(L, t) = Taken(L, s) \cup {x},
         t.root = s.root, s.root \in Nat
  PROVE  Progress(L, t) = Progress(L, s) + 1
<1>t. L \in [N -> Seq(N)]
  BY DEF Graph
<1> USE <1>t
<1>1. IsFiniteSet(Turns(L)) /\ Taken(L, s) \in SUBSET Turns(L)
  BY GraphIs DEF Taken
<1>2. IsFiniteSet(Taken(L, s))
  BY <1>1, FS_Subset
<1>3. Cardinality(Taken(L, t)) = Cardinality(Taken(L, s)) + 1 /\ Cardinality(Taken(L, s)) \in Nat
  BY <1>2, FS_AddElement, FS_CardinalityType
<1> DEFINE a == Cardinality(Taken(L, s))
           b == Cardinality(Taken(L, t))
           r == s.root
<1>4. b = a + 1 /\ a \in Nat /\ r \in Nat
  BY <1>3
<1> HIDE DEF a, b, r
<1>5. r + b = r + a + 1
  BY <1>4
<1> QED
  BY <1>5 DEF Progress, a, b, r

\* A name looks at one dependency more.
Looked(N, L, s, t, n) ==
  /\ n \in N /\ (\A m \in N : s.at[m] \in Nat) /\ s.at[n] + 1 \in 0 .. Len(L[n])
  /\ Changed(N, s.at, t.at, n, s.at[n] + 1)
  /\ \A m \in N : t.color[m] = "black" <=> s.color[m] = "black"
  /\ t.root = s.root /\ s.root \in Nat

LEMMA TakenLook ==
  ASSUME NEW N, NEW L, Graph(N, L), NEW s, NEW t, NEW n, Looked(N, L, s, t, n)
  PROVE  Progress(L, t) = Progress(L, s) + 1
<1> DEFINE i == s.at[n] + 1
<1>t. /\ L \in [N -> Seq(N)] /\ n \in N
      /\ (\A m \in N : s.at[m] \in Nat) /\ i = s.at[n] + 1 /\ i \in 0 .. Len(L[n])
      /\ t.at[n] = i /\ (\A m \in N \ {n} : t.at[m] = s.at[m])
      /\ (\A m \in N : t.color[m] = "black" <=> s.color[m] = "black")
      /\ t.root = s.root /\ s.root \in Nat
  BY DEF Graph, Looked, Changed
<1> HIDE DEF i
<1> USE <1>t
<1> DEFINE x == <<n, i>>
<1>0. i \in Nat /\ i # 0 /\ ~(i <= s.at[n]) /\ i \in 0 .. Len(L[n])
  OBVIOUS
<1>1. x \in Turns(L)
  BY <1>0, GraphIs
<1>2. x \notin Taken(L, s)
  BY <1>0 DEF Taken
<1>3. ASSUME NEW m \in N, NEW k \in 0 .. Len(L[m])
      PROVE  <<m, k>> \in Taken(L, t) <=> <<m, k>> \in Taken(L, s) \/ <<m, k>> = x
  <2>1. <<m, k>> \in Turns(L)
    BY GraphIs
  <2>2. t.at[m] = IF m = n THEN i ELSE s.at[m]
    OBVIOUS
  <2>3. k \in Nat /\ s.at[m] \in Nat
    OBVIOUS
  <2>4. CASE k = 0
    BY <1>0, <2>1, <2>4 DEF Taken
  <2>5. CASE k # 0
    <3>1. k <= t.at[m] <=> k <= s.at[m] \/ (m = n /\ k = i)
      BY <1>0, <2>2, <2>3
    <3> QED
      BY <2>1, <2>5, <3>1 DEF Taken
  <2> QED
    BY <2>4, <2>5
<1>4. Taken(L, t) = Taken(L, s) \cup {x}
  <2>1. Taken(L, t) \subseteq Turns(L) /\ Taken(L, s) \subseteq Turns(L)
    BY DEF Taken
  <2>2. \A y \in Turns(L) : y \in Taken(L, t) <=> y \in Taken(L, s) \/ y = x
    <3> TAKE y \in Turns(L)
    <3>1. \E m \in N : \E k \in 0 .. Len(L[m]) : y = <<m, k>>
      <4>1. \A z : z \in Turns(L) <=> \E m \in N : \E k \in 0 .. Len(L[m]) : z = <<m, k>>
        BY GraphIs
      <4> QED
        BY <4>1
    <3> HIDE DEF x
    <3> QED
      BY <1>3, <3>1
  <2> HIDE DEF x
  <2> QED
    BY <1>1, <2>1, <2>2
<1> HIDE DEF x
<1> QED
  BY <1>1, <1>2, <1>4, OneTaken

\* A name's visit returns.
Returned(N, s, t, n) ==
  /\ n \in N /\ s.color[n] = "gray" /\ Changed(N, s.color, t.color, n, "black")
  /\ t.at = s.at /\ t.root = s.root /\ s.root \in Nat

LEMMA TakenReturn ==
  ASSUME NEW N, NEW L, Graph(N, L), NEW s, NEW t, NEW n, Returned(N, s, t, n)
  PROVE  Progress(L, t) = Progress(L, s) + 1
<1>t. /\ L \in [N -> Seq(N)] /\ n \in N
      /\ s.color[n] = "gray" /\ t.color[n] = "black" /\ \A m \in N \ {n} : t.color[m] = s.color[m]
      /\ t.at = s.at /\ t.root = s.root /\ s.root \in Nat
  BY DEF Graph, Returned, Changed
<1> USE <1>t
<1> DEFINE x == <<n, 0>>
<1>0. 0 \in 0 .. Len(L[n])
  OBVIOUS
<1>1. x \in Turns(L)
  BY <1>0, GraphIs
<1>2. x \notin Taken(L, s)
  BY DEF Taken
<1>3. ASSUME NEW m \in N, NEW k \in 0 .. Len(L[m])
      PROVE  <<m, k>> \in Taken(L, t) <=> <<m, k>> \in Taken(L, s) \/ <<m, k>> = x
  <2>1. <<m, k>> \in Turns(L)
    BY GraphIs
  <2>2. t.color[m] = IF m = n THEN "black" ELSE s.color[m]
    OBVIOUS
  <2>3. CASE k = 0
    BY <2>1, <2>2, <2>3 DEF Taken
  <2>4. CASE k # 0
    BY <2>1, <2>4 DEF Taken
  <2> QED
    BY <2>3, <2>4
<1>4. Taken(L, t) = Taken(L, s) \cup {x}
  <2>1. Taken(L, t) \subseteq Turns(L) /\ Taken(L, s) \subseteq Turns(L)
    BY DEF Taken
  <2>2. \A y \in Turns(L) : y \in Taken(L, t) <=> y \in Taken(L, s) \/ y = x
    <3> TAKE y \in Turns(L)
    <3>1. \E m \in N : \E k \in 0 .. Len(L[m]) : y = <<m, k>>
      <4>1. \A z : z \in Turns(L) <=> \E m \in N : \E k \in 0 .. Len(L[m]) : z = <<m, k>>
        BY GraphIs
      <4> QED
        BY <4>1
    <3> HIDE DEF x
    <3> QED
      BY <1>3, <3>1
  <2> HIDE DEF x
  <2> QED
    BY <1>1, <2>1, <2>2
<1> HIDE DEF x
<1> QED
  BY <1>1, <1>2, <1>4, OneTaken

\* What a search that has not ended is like.
LEMMA Unended ==
  ASSUME NEW N, NEW L, NEW roots, NEW s, SearchInv(N, L, roots, s),
         ~Ended(roots, s)
  PROVE  /\ Graph(N, L) /\ L \in [N -> Seq(N)] /\ roots \in Seq(N)
         /\ ~s.cycle /\ GoingOn(N, L, s.path, s.color, s.at) /\ Len(roots) \in Nat
         /\ \A i \in 1 .. s.root : roots[i] \in N /\ s.color[roots[i]] # "white"
         /\ s.path \in Seq(N) /\ s.color \in Colors(N) /\ s.at \in [N -> Nat]
         /\ s.root \in 0 .. Len(roots) /\ s.root \in Nat
         /\ s.path = <<>> => /\ s.root + 1 \in 0 .. Len(roots) /\ roots[s.root + 1] \in N
                             /\ \A i \in 1 .. s.root + 1 : i = s.root + 1 \/ i \in 1 .. s.root
<1>t. Graph(N, L) /\ L \in [N -> Seq(N)] /\ roots \in Seq(N)
  BY DEF SearchInv, Graph
<1>1. /\ ~s.cycle /\ GoingOn(N, L, s.path, s.color, s.at) /\ Len(roots) \in Nat
      /\ \A i \in 1 .. s.root : s.color[roots[i]] # "white"
      /\ s.path \in Seq(N) /\ s.color \in Colors(N) /\ s.at \in [N -> Nat]
      /\ s.root \in 0 .. Len(roots)
      /\ s.path = <<>> => s.root # Len(roots)
  BY <1>t DEF SearchInv, SearchState, Ended
<1>2. s.root \in Nat /\ \A i \in 1 .. s.root : roots[i] \in N
  BY <1>1, <1>t
<1>3. ASSUME s.path = <<>>
      PROVE  /\ s.root + 1 \in 0 .. Len(roots) /\ roots[s.root + 1] \in N
             /\ \A i \in 1 .. s.root + 1 : i = s.root + 1 \/ i \in 1 .. s.root
  <2> DEFINE r == s.root
             l == Len(roots)
  <2>1. r \in 0 .. l /\ l \in Nat /\ r # l
    BY <1>1, <1>3
  <2>3. \A i \in 1 .. l : roots[i] \in N
    BY <1>t
  <2> HIDE DEF r, l
  <2>2. r + 1 \in 0 .. l /\ r + 1 \in 1 .. l /\ \A i \in 1 .. r + 1 : i = r + 1 \/ i \in 1 .. r
    BY <2>1
  <2> QED
    BY <2>2, <2>3 DEF r, l
<1> QED
  BY <1>1, <1>2, <1>3, <1>t

\* The last loop takes its next name.
LEMMA RootNext ==
  ASSUME NEW N, NEW L, NEW roots, NEW s, SearchInv(N, L, roots, s),
         ~Ended(roots, s), s.path = <<>>,
         NEW m, m = roots[s.root + 1], NEW t, t = Root(s, m)
  PROVE  SearchInv(N, L, roots, t) /\ Progress(L, t) = Progress(L, s) + 1
<1>t. Graph(N, L) /\ L \in [N -> Seq(N)] /\ roots \in Seq(N)
  BY Unended
<1> USE <1>t
<1> DEFINE r == s.root + 1
           white == s.color[m] = "white"
           P == IF white THEN <<m>> ELSE <<>>
           C == IF white THEN [s.color EXCEPT ![m] = "gray"] ELSE s.color
           a == s.at
<1>0. /\ ~s.cycle /\ GoingOn(N, L, <<>>, s.color, a) /\ s.color \in Colors(N) /\ a \in [N -> Nat]
      /\ \A i \in 1 .. s.root : roots[i] \in N /\ s.color[roots[i]] # "white"
      /\ r \in 0 .. Len(roots) /\ m \in N /\ \A i \in 1 .. r : i = r \/ i \in 1 .. s.root
  <2>1. /\ GoingOn(N, L, s.path, s.color, s.at) /\ s.color \in Colors(N) /\ s.at \in [N -> Nat]
        /\ \A i \in 1 .. s.root : roots[i] \in N /\ s.color[roots[i]] # "white"
        /\ ~s.cycle
    BY Unended
  <2>2. /\ s.root + 1 \in 0 .. Len(roots) /\ roots[s.root + 1] \in N
        /\ \A i \in 1 .. s.root + 1 : i = s.root + 1 \/ i \in 1 .. s.root
    BY Unended
  <2> QED
    BY <2>1, <2>2
<1>1. t = [path |-> P, color |-> C, at |-> a, root |-> r, cycle |-> FALSE]
  BY DEF Root
<1>2. /\ P \in Seq(N) /\ C \in Colors(N) /\ GoingOn(N, L, P, C, a)
      /\ \A n \in N : s.color[n] # "white" => C[n] # "white"
      /\ C[m] # "white"
      /\ \A n \in N : C[n] = "black" <=> s.color[n] = "black"
  <2>1. CASE white
    <3>1. P = <<m>> /\ C = [s.color EXCEPT ![m] = "gray"]
      BY <2>1
    <3> HIDE DEF r, P, C, a
    <3>2. P \in Seq(N) /\ C \in Colors(N)
      BY <1>0, <3>1 DEF Colors
    <3>3. C[m] = "gray" /\ \A n \in N \ {m} : C[n] = s.color[n]
      BY <1>0, <3>1 DEF Colors
    <3>4. GoingOn(N, L, P, C, a)
      BY <1>0, <2>1, <3>1, RootWhite
    <3> QED
      BY <2>1, <3>2, <3>3, <3>4
  <2>2. CASE ~white
    <3>1. P = <<>> /\ C = s.color
      BY <2>2
    <3> HIDE DEF r, P, C, a
    <3> QED
      BY <1>0, <2>2, <3>1
  <2> QED
    BY <2>1, <2>2
<1> HIDE DEF P, C, a, r
<1>3. t.path = P /\ t.color = C /\ t.at = a /\ t.root = r /\ t.cycle = FALSE
  BY <1>1
<1>4. SearchInv(N, L, roots, t)
  <2>1. t \in SearchState(N, roots)
    BY <1>0, <1>1, <1>2 DEF SearchState
  <2>2. \A i \in 1 .. t.root : t.color[roots[i]] # "white"
    <3>1. roots[r] = m
      BY DEF r
    <3> QED
      BY <1>0, <1>2, <1>3, <3>1
  <2> QED
    BY <1>2, <1>3, <2>1, <2>2 DEF SearchInv
<1>5. Progress(L, t) = Progress(L, s) + 1
  <2>1. \A x \in Turns(L) : x[1] \in N
    <3>1. \A x : x \in Turns(L) <=> \E n \in N : \E k \in 0 .. Len(L[n]) : x = <<n, k>>
      BY GraphIs
    <3> QED
      BY <3>1
  <2>2. Taken(L, t) = Taken(L, s)
    BY <1>2, <1>3, <2>1 DEF Taken, a
  <2>3. IsFiniteSet(Turns(L)) /\ Taken(L, s) \in SUBSET Turns(L)
    BY GraphIs DEF Taken
  <2> DEFINE c == Cardinality(Taken(L, s))
             o == s.root
  <2>4. c \in Nat /\ o \in Nat /\ r = o + 1
    BY <2>3, FS_Subset, FS_CardinalityType, Unended DEF r
  <2> HIDE DEF c, o
  <2>5. r + c = o + c + 1
    BY <2>4
  <2> QED
    BY <1>3, <2>2, <2>5 DEF Progress, c, o
<1> QED
  BY <1>4, <1>5

\* The last name of the path is being visited.
LEMMA LastIs ==
  ASSUME NEW N, NEW L, NEW p, NEW c, NEW a, GoingOn(N, L, p, c, a),
         p # <<>>, NEW n, n = Last(p)
  PROVE  n \in N /\ c[n] = "gray" /\ DependenciesOf(L, n) = L[n]
<1>t. L \in [N -> Seq(N)] /\ p \in Seq(N) /\ c \in Colors(N)
  BY DEF GoingOn, Graph
<1>1. Len(p) \in 1 .. Len(p) /\ n \in N /\ n = p[Len(p)]
  BY <1>t DEF Last
<1>2. \E k \in 1 .. Len(p) : p[k] = n
  BY <1>1
<1>3. c[n] = "gray"
  BY <1>1, <1>2 DEF GoingOn, PathInv
<1>4. DependenciesOf(L, n) = L[n]
  BY <1>1, <1>t DEF DependenciesOf
<1> QED
  BY <1>1, <1>3, <1>4

\* A visit returns.
LEMMA ReturnNext ==
  ASSUME NEW N, NEW L, NEW roots, NEW s, SearchInv(N, L, roots, s),
         ~Ended(roots, s), s.path # <<>>,
         NEW n, n = Last(s.path), ~(s.at[n] + 1 <= Len(L[n])), NEW t, t = Visit(L, s)
  PROVE  SearchInv(N, L, roots, t) /\ Progress(L, t) = Progress(L, s) + 1
<1>t. Graph(N, L) /\ L \in [N -> Seq(N)] /\ roots \in Seq(N)
  BY Unended
<1> USE <1>t
<1> DEFINE P == Front(s.path)
           C == [s.color EXCEPT ![n] = "black"]
           p == s.path
           c == s.color
           a == s.at
           r == s.root
<1>0. /\ GoingOn(N, L, p, c, a) /\ p \in Seq(N) /\ c \in Colors(N) /\ a \in [N -> Nat]
      /\ \A i \in 1 .. r : roots[i] \in N /\ c[roots[i]] # "white"
      /\ r \in 0 .. Len(roots) /\ r \in Nat
  BY Unended
<1>1. /\ n = p[Len(p)] /\ n \in N /\ c[n] = "gray" /\ DependenciesOf(L, n) = L[n]
      /\ a[n] + 1 \in Nat /\ Len(L[n]) \in Nat
  <2>1. n = Last(p) /\ p # <<>>
    OBVIOUS
  <2> HIDE DEF p, c, a, r
  <2>2. n \in N /\ c[n] = "gray" /\ DependenciesOf(L, n) = L[n]
    BY <1>0, <2>1, LastIs
  <2> QED
    BY <1>0, <2>1, <2>2, SMTT(30) DEF Last
<1>2. t = [path |-> P, color |-> C, at |-> a, root |-> r, cycle |-> FALSE]
  <2>1. s.at[n] + 1 > Len(DependenciesOf(L, n))
    BY <1>1
  <2> QED
    BY <2>1 DEF Visit
<1>3. /\ P \in Seq(N) /\ GoingOn(N, L, P, C, a)
  <2> HIDE DEF p, c, a
  <2>1. Front(p) \in Seq(N)
    BY <1>0, FrontIs DEF p
  <2>2. GoingOn(N, L, Front(p), [c EXCEPT ![n] = "black"], a)
    BY <1>0, <1>1, Returns DEF p, a
  <2> QED
    BY <2>1, <2>2 DEF p, c
<1> HIDE DEF p, c, a, r
<1>4. C \in Colors(N) /\ C[n] = "black" /\ \A m \in N \ {n} : C[m] = c[m]
  BY <1>0, <1>1 DEF Colors, c
<1>5. Progress(L, t) = Progress(L, s) + 1
  <2>1. t.color = C /\ t.at = s.at /\ t.root = s.root
    BY <1>2 DEF a, r
  <2>2. Returned(N, s, t, n)
    BY <1>0, <1>1, <1>4, <2>1 DEF c, r, Returned, Changed
  <2> HIDE DEF C
  <2> QED
    BY <2>2, TakenReturn
<1> HIDE DEF P, C
<1>6. t.path = P /\ t.color = C /\ t.at = a /\ t.root = r /\ t.cycle = FALSE
  BY <1>2
<1>7. SearchInv(N, L, roots, t)
  <2>1. t \in SearchState(N, roots)
    BY <1>0, <1>2, <1>3, <1>4 DEF SearchState
  <2>2. \A i \in 1 .. t.root : t.color[roots[i]] # "white"
    BY <1>0, <1>4, <1>6
  <2> QED
    BY <1>3, <1>6, <2>1, <2>2 DEF SearchInv
<1> QED
  BY <1>5, <1>7

\* A visit looks at one more dependency.
LEMMA LookNext ==
  ASSUME NEW N, NEW L, NEW roots, NEW s, SearchInv(N, L, roots, s),
         ~Ended(roots, s), s.path # <<>>,
         NEW n, n = Last(s.path), s.at[n] + 1 <= Len(L[n]), NEW t, t = Visit(L, s)
  PROVE  /\ SearchInv(N, L, roots, t)
         /\ Ended(roots, t) \/ Progress(L, t) = Progress(L, s) + 1
<1>t. Graph(N, L) /\ L \in [N -> Seq(N)] /\ roots \in Seq(N)
  BY Unended
<1> USE <1>t
<1> DEFINE i == s.at[n] + 1
           m == L[n][i]
           P == IF s.color[m] = "white" THEN Append(s.path, m) ELSE s.path
           C == IF s.color[m] = "white" THEN [s.color EXCEPT ![m] = "gray"] ELSE s.color
           A == [s.at EXCEPT ![n] = i]
           e == s.color[m] = "gray"
           p == s.path
           c == s.color
           a == s.at
           r == s.root
<1>0. /\ GoingOn(N, L, p, c, a) /\ p \in Seq(N) /\ c \in Colors(N) /\ a \in [N -> Nat]
      /\ \A j \in 1 .. r : roots[j] \in N /\ c[roots[j]] # "white"
      /\ r \in 0 .. Len(roots) /\ r \in Nat
  BY Unended, SMTT(30)
<1>1. /\ n = p[Len(p)] /\ n \in N /\ c[n] = "gray" /\ DependenciesOf(L, n) = L[n]
      /\ i \in Nat /\ i # 0 /\ Len(L[n]) \in Nat
  <2>1. /\ n = p[Len(p)] /\ n \in N /\ c[n] = "gray" /\ DependenciesOf(L, n) = L[n]
        /\ a[n] + 1 \in Nat /\ a[n] + 1 # 0 /\ Len(L[n]) \in Nat
    <3>1. n = Last(p) /\ p # <<>>
      OBVIOUS
    <3> HIDE DEF p, c, a, r, i
    <3>2. n \in N /\ c[n] = "gray" /\ DependenciesOf(L, n) = L[n]
      BY <1>0, <3>1, LastIs
    <3> QED
      BY <1>0, <3>1, <3>2, SMTT(30) DEF Last
  <2> QED
    BY <2>1
<1>2. t = [path |-> P, color |-> C, at |-> A, root |-> r, cycle |-> e]
  <2>1. ~(i > Len(DependenciesOf(L, n)))
    <3> HIDE DEF i
    <3> QED
      BY <1>1 DEF i
  <2> HIDE DEF i
  <2> QED
    BY <1>1, <2>1 DEF Visit, i
<1>3. m \in N /\ Append(p, m) \in Seq(N)
  BY <1>0, <1>1, SMTT(30)
<1>4. i = a[n] + 1 /\ i <= Len(L[n]) /\ m = L[n][i] /\ A = [a EXCEPT ![n] = i] /\ p # <<>>
      /\ n = Last(p)
  BY <1>1
<1>5. /\ e => P = p /\ C = c
      /\ c[m] = "white" => P = Append(p, m) /\ C = [c EXCEPT ![m] = "gray"] /\ ~e
      /\ c[m] = "black" => P = p /\ C = c /\ ~e
      /\ e <=> c[m] = "gray"
  OBVIOUS
<1>6. a = s.at /\ r = s.root /\ c = s.color
  OBVIOUS
<1> HIDE DEF P, C, A, e, p, c, a, r, m, i
<1>7. t.path = P /\ t.color = C /\ t.at = A /\ t.root = r /\ t.cycle = e /\ e \in BOOLEAN
  BY <1>2 DEF e
<1>8. A \in [N -> Nat]
  BY <1>0, <1>1, <1>4
<1>9. Changed(N, a, A, n, i)
  BY <1>0, <1>1, <1>4 DEF Changed
<1>10. CASE e
  <2>1. Cyclic(N, L)
    <3>1. Edge(L, Last(p), m) /\ c[m] = "gray"
      BY <1>1, <1>4, <1>5, <1>10 DEF Edge
    <3> QED
      BY <1>0, <1>3, <1>4, <3>1, LookGray
  <2>2. t \in SearchState(N, roots)
    BY <1>0, <1>2, <1>5, <1>7, <1>8, <1>10 DEF SearchState
  <2> QED
    BY <1>7, <1>10, <2>1, <2>2 DEF SearchInv, Ended
<1>11. ASSUME c[m] # "gray", C \in Colors(N), P \in Seq(N), GoingOn(N, L, P, C, A),
              \A x \in N : (C[x] = "black" <=> c[x] = "black") /\ (c[x] # "white" => C[x] # "white")
       PROVE  SearchInv(N, L, roots, t) /\ Progress(L, t) = Progress(L, s) + 1
  <2>1. t \in SearchState(N, roots)
    BY <1>0, <1>2, <1>7, <1>8, <1>11 DEF SearchState
  <2>2. \A j \in 1 .. t.root : t.color[roots[j]] # "white"
    BY <1>0, <1>7, <1>11
  <2>3. SearchInv(N, L, roots, t)
    BY <1>5, <1>7, <1>11, <2>1, <2>2 DEF SearchInv
  <2>4. Progress(L, t) = Progress(L, s) + 1
    <3>1. (\A x \in N : s.at[x] \in Nat) /\ s.at[n] + 1 \in 0 .. Len(L[n])
      BY <1>0, <1>1, <1>4, <1>6
    <3>2. Changed(N, s.at, t.at, n, i) /\ i = s.at[n] + 1
      BY <1>4, <1>6, <1>7, <1>9
    <3>3. \A x \in N : t.color[x] = "black" <=> s.color[x] = "black"
      BY <1>6, <1>7, <1>11
    <3>4. Looked(N, L, s, t, n)
      BY <1>0, <1>1, <1>6, <1>7, <3>1, <3>2, <3>3 DEF Looked
    <3> QED
      BY <3>4, TakenLook
  <2> QED
    BY <2>3, <2>4
<1>12. CASE c[m] = "white"
  <2>1. C \in Colors(N) /\ Changed(N, c, C, m, "gray")
    BY <1>0, <1>3, <1>5, <1>12 DEF Colors, Changed
  <2>2. GoingOn(N, L, Append(p, m), C, A)
    <3>1. i \in 1 .. Len(L[n])
      BY <1>1, <1>4
    <3> QED
      BY <1>0, <1>4, <1>8, <1>12, <1>9, <2>1, <3>1, LookWhite
  <2>3. P \in Seq(N) /\ GoingOn(N, L, P, C, A)
    BY <1>3, <1>5, <1>12, <2>2
  <2>4. \A x \in N : (C[x] = "black" <=> c[x] = "black") /\ (c[x] # "white" => C[x] # "white")
    BY <1>12, <2>1 DEF Changed
  <2> QED
    BY <1>11, <1>12, <2>1, <2>3, <2>4
<1>13. CASE c[m] = "black"
  <2>1. GoingOn(N, L, P, C, A)
    BY <1>0, <1>1, <1>4, <1>5, <1>13, LookBlack
  <2> QED
    BY <1>0, <1>5, <1>11, <1>13, <2>1
<1> QED
  BY <1>0, <1>3, <1>5, <1>10, <1>12, <1>13 DEF Colors

\* A step of a search that has not ended keeps the invariant, and ends it or counts.
LEMMA SearchNext ==
  ASSUME NEW N, NEW L, NEW roots, NEW s, SearchInv(N, L, roots, s),
         ~Ended(roots, s), NEW t, t = Search(L, roots, s)
  PROVE  /\ SearchInv(N, L, roots, t)
         /\ Ended(roots, t) \/ Progress(L, t) = Progress(L, s) + 1
<1>1. CASE s.path = <<>>
  <2> DEFINE m == roots[s.root + 1]
  <2>1. t = Root(s, m) /\ m = roots[s.root + 1]
    BY <1>1 DEF Search, Ended
  <2> HIDE DEF m
  <2> QED
    BY <1>1, <2>1, RootNext
<1>2. CASE s.path # <<>>
  <2> DEFINE n == Last(s.path)
  <2>1. t = Visit(L, s)
    BY <1>2 DEF Search, Ended
  <2> HIDE DEF n
  <2>2. CASE s.at[n] + 1 <= Len(L[n])
    BY <1>2, <2>1, <2>2, LookNext DEF n
  <2>3. CASE ~(s.at[n] + 1 <= Len(L[n]))
    BY <1>2, <2>1, <2>3, ReturnNext DEF n
  <2> QED
    BY <2>2, <2>3
<1> QED
  BY <1>1, <1>2

-----------------------------------------------------------------------------
(* Searched is defined by recursion: it makes a step at a time, from the beginning to *)
(* the end, and what it says then.                                                    *)

\* At first nothing has been visited, and no turn taken.
LEMMA SearchBegins ==
  ASSUME NEW N, NEW L, NEW roots \in Seq(N), Graph(N, L)
  PROVE  SearchInv(N, L, roots, Begin(L)) /\ Progress(L, Begin(L)) = 0
<1> DEFINE s == Begin(L)
           c == [n \in N |-> "white"]
           a == [n \in N |-> 0]
<1>t. L \in [N -> Seq(N)] /\ Len(roots) \in Nat
  BY DEF Graph
<1>1. Names(L) = N
  BY GraphIs
<1>2. s = [path |-> <<>>, color |-> c, at |-> a, root |-> 0, cycle |-> FALSE]
  BY <1>1 DEF Begin
<1>3. /\ c \in Colors(N) /\ a \in [N -> Nat] /\ <<>> \in Seq(N)
      /\ \A n \in N : c[n] = "white" /\ a[n] = 0 /\ Len(L[n]) \in Nat
  BY <1>t DEF Colors
<1> HIDE DEF c, a, s
<1>4. s.path = <<>> /\ s.color = c /\ s.at = a /\ s.root = 0 /\ s.cycle = FALSE
  BY <1>2
<1>5. GoingOn(N, L, <<>>, c, a)
  <2>1. Len(<<>>) = 0 /\ 1 .. 0 = {} /\ 1 .. 0 - 1 = {}
    OBVIOUS
  <2>2. PathInv(N, L, <<>>, c)
    BY <1>3, <2>1 DEF PathInv
  <2>3. CountInv(N, L, c, a)
    BY <1>3 DEF CountInv
  <2>4. SeenInv(N, L, <<>>, c, a)
    BY <1>3, <2>1 DEF SeenInv
  <2>5. NoCycleIn(L, Black(N, c))
    <3>1. Black(N, c) = {}
      BY <1>3 DEF Black
    <3> QED
      BY <3>1 DEF NoCycleIn
  <2> QED
    BY <1>3, <2>2, <2>3, <2>4, <2>5 DEF GoingOn
<1>6. SearchInv(N, L, roots, s)
  <2>1. s \in SearchState(N, roots)
    BY <1>t, <1>2, <1>3 DEF SearchState
  <2>2. \A i \in 1 .. s.root : s.color[roots[i]] # "white"
    BY <1>4
  <2> QED
    BY <1>4, <1>5, <2>1, <2>2 DEF SearchInv
<1>7. Progress(L, s) = 0
  <2>1. \A x : x \in Turns(L) <=> \E n \in N : \E k \in 0 .. Len(L[n]) : x = <<n, k>>
    BY GraphIs
  <2>2. ASSUME NEW n \in N, NEW k \in 0 .. Len(L[n])
        PROVE  <<n, k>> \notin Taken(L, s)
    BY <1>3, <1>4 DEF Taken
  <2>3. Taken(L, s) \subseteq Turns(L)
    BY DEF Taken
  <2>4. Taken(L, s) = {}
    BY <2>1, <2>2, <2>3
  <2> QED
    BY <1>4, <2>4, FS_EmptySet DEF Progress
<1> QED
  BY <1>6, <1>7 DEF s

\* What can be reached.
States(N, L, roots) == {s \in SearchState(N, roots) : SearchInv(N, L, roots, s)}

LEMMA SearchStays ==
  ASSUME NEW N, NEW L, NEW roots, NEW s, SearchInv(N, L, roots, s)
  PROVE  /\ SearchInv(N, L, roots, Search(L, roots, s))
         /\ Ended(roots, s) => Search(L, roots, s) = s
<1>1. CASE Ended(roots, s)
  BY <1>1 DEF Search, Ended
<1>2. CASE ~Ended(roots, s)
  BY <1>2, SearchNext
<1> QED
  BY <1>1, <1>2

Bound(L, roots) == Len(roots) + Cardinality(Turns(L))

Steps(f, L, roots) ==
  /\ f[0] = Begin(L)
  /\ \A n \in 1 .. Bound(L, roots) : f[n] = Search(L, roots, f[n - 1])

LEMMA BoundIs ==
  ASSUME NEW N, NEW L, NEW roots \in Seq(N), Graph(N, L)
  PROVE  Bound(L, roots) \in Nat /\ Cardinality(Turns(L)) \in Nat /\ Len(roots) \in Nat
<1>1. IsFiniteSet(Turns(L))
  BY GraphIs
<1> DEFINE c == Cardinality(Turns(L))
           l == Len(roots)
<1>2. c \in Nat /\ l \in Nat
  BY <1>1, FS_CardinalityType
<1> HIDE DEF c, l
<1>3. l + c \in Nat
  BY <1>2
<1> QED
  BY <1>2, <1>3 DEF Bound, c, l

\* Searched is the recursive function its definition says it is.
LEMMA SearchGoes ==
  ASSUME NEW N, NEW L, NEW roots \in Seq(N), Graph(N, L)
  PROVE  Steps(Searched(L, roots), L, roots)
<1> DEFINE B == Bound(L, roots)
           S == States(N, L, roots)
           R(f) == f = [n \in 0 .. Len(roots) + Cardinality(Turns(L)) |->
                          IF n = 0 THEN Begin(L) ELSE Search(L, roots, f[n - 1])]
           go == [s \in S |-> Search(L, roots, s)]
           g == [i \in 1 .. B |-> go]
<1>0. B \in Nat /\ Begin(L) \in S
  BY BoundIs, SearchBegins DEF States, SearchInv
<1>1. go \in [S -> S] /\ \A s \in S : go[s] = Search(L, roots, s)
  <2>1. \A s \in S : Search(L, roots, s) \in S
    BY SearchStays DEF States, SearchInv
  <2> QED
    BY <2>1
<1>2. g \in [1 .. B -> [S -> S]] /\ \A i \in 1 .. B : g[i] = go
  <2> HIDE DEF go, B, S
  <2> QED
    BY <1>1
<1> HIDE DEF go, g, S
<1>3. PICK f : Follows(f, B, S, Begin(L), g)
  <2> HIDE DEF B
  <2> QED
    BY <1>0, <1>2, Recursion
<1> HIDE DEF B
<1>4. /\ f \in [0 .. B -> S] /\ f[0] = Begin(L)
      /\ \A n \in 1 .. B : f[n] = g[n][f[n - 1]]
  BY <1>3 DEF Follows
<1>5. \A n \in 1 .. B : f[n] = Search(L, roots, f[n - 1])
  <2> TAKE n \in 1 .. B
  <2>1. f[n - 1] \in S
    BY <1>0, <1>4
  <2> QED
    BY <1>1, <1>2, <1>4, <2>1
<1>6. R(f)
  <2>0. B = Len(roots) + Cardinality(Turns(L))
    BY DEF B, Bound
  <2>1. f = [n \in 0 .. B |-> f[n]]
    BY <1>4
  <2>2. ASSUME NEW n \in 0 .. B
        PROVE  f[n] = IF n = 0 THEN Begin(L) ELSE Search(L, roots, f[n - 1])
    <3>1. CASE n = 0
      BY <1>4, <3>1
    <3>2. CASE n # 0
      <4>1. n \in 1 .. B
        BY <1>0, <3>2
      <4> QED
        BY <1>5, <3>2, <4>1
    <3> QED
      BY <3>1, <3>2
  <2> QED
    BY <2>0, <2>1, <2>2
<1> DEFINE F == CHOOSE h : R(h)
<1>7. R(F)
  BY <1>6, Zenon
<1>8. Searched(L, roots) = F
  BY DEF Searched, Zenon
<1>9. Steps(F, L, roots)
  <2> HIDE DEF F
  <2>0. B = Len(roots) + Cardinality(Turns(L)) /\ B = Bound(L, roots)
    BY DEF B, Bound
  <2>1. \A n \in 0 .. B : F[n] = IF n = 0 THEN Begin(L) ELSE Search(L, roots, F[n - 1])
    BY <1>7, <2>0
  <2>2. 0 \in 0 .. B /\ \A n \in 1 .. B : n \in 0 .. B /\ n # 0
    BY <1>0
  <2> QED
    BY <2>0, <2>1, <2>2, Zenon DEF Steps
<1> QED
  BY <1>8, <1>9

\* All the way, it has ended or made as many steps as it was given.
LEMMA SearchAlways ==
  ASSUME NEW N, NEW L, NEW roots \in Seq(N), Graph(N, L), NEW f, Steps(f, L, roots)
  PROVE  \A n \in 0 .. Bound(L, roots) :
           SearchInv(N, L, roots, f[n]) /\ (Ended(roots, f[n]) \/ Progress(L, f[n]) = n)
<1> DEFINE B == Bound(L, roots)
           Good(s, n) == SearchInv(N, L, roots, s) /\ (Ended(roots, s) \/ Progress(L, s) = n)
           T == {n \in Nat : n <= B => Good(f[n], n)}
<1>0. B \in Nat /\ f[0] = Begin(L) /\ \A n \in 1 .. B : f[n] = Search(L, roots, f[n - 1])
  BY BoundIs DEF Steps
<1>1. 0 \in T
  BY <1>0, SearchBegins
<1> HIDE DEF B
<1>2. ASSUME NEW n \in T PROVE n + 1 \in T
  <2> SUFFICES ASSUME n + 1 <= B PROVE Good(f[n + 1], n + 1)
    OBVIOUS
  <2>1. Good(f[n], n) /\ n + 1 \in 1 .. B /\ (n + 1) - 1 = n
    BY <1>0
  <2> DEFINE s == f[n]
             t == f[n + 1]
  <2>2. t = Search(L, roots, s) /\ Good(s, n)
    BY <1>0, <2>1
  <2> HIDE DEF s, t
  <2>3. CASE Ended(roots, s)
    <3>1. t = s
      BY <2>2, <2>3, SearchStays
    <3> QED
      BY <2>2, <2>3, <3>1 DEF s, t
  <2>4. CASE ~Ended(roots, s)
    <3>1. SearchInv(N, L, roots, t) /\ (Ended(roots, t) \/ Progress(L, t) = Progress(L, s) + 1)
      BY <2>2, <2>4, SearchNext
    <3> QED
      BY <2>2, <2>4, <3>1 DEF t
  <2> QED
    BY <2>3, <2>4
<1>3. T = Nat
  <2> HIDE DEF T
  <2>1. T \subseteq Nat
    BY DEF T
  <2> QED
    BY <1>1, <1>2, <2>1, Induction
<1> QED
  BY <1>0, <1>3 DEF B

\* When it has been given its steps, it has ended.
LEMMA SearchEnds ==
  ASSUME NEW N, NEW L, NEW roots \in Seq(N), Graph(N, L), NEW f, Steps(f, L, roots)
  PROVE  LET s == f[Bound(L, roots)] IN SearchInv(N, L, roots, s) /\ Ended(roots, s)
<1> DEFINE B == Bound(L, roots)
           s == f[B]
<1>1. SearchInv(N, L, roots, s) /\ (Ended(roots, s) \/ Progress(L, s) = B)
  <2>1. B \in 0 .. B
    BY BoundIs
  <2> QED
    BY <2>1, SearchAlways
<1> HIDE DEF s
<1>2. ASSUME ~Ended(roots, s) PROVE FALSE
  <2> DEFINE r == s.root
             l == Len(roots)
             k == Cardinality(Taken(L, s))
             m == Cardinality(Turns(L))
  <2>1. /\ ~s.cycle /\ GoingOn(N, L, s.path, s.color, s.at) /\ r \in 0 .. l
        /\ L \in [N -> Seq(N)] /\ s.path \in Seq(N)
    BY <1>1, <1>2, Unended
  <2>2. r + k = l + m
    BY <1>1, <1>2 DEF Progress, Bound
  <2>3. IsFiniteSet(Turns(L)) /\ Taken(L, s) \in SUBSET Turns(L)
    BY GraphIs DEF Taken
  <2>4. m \in Nat /\ l \in Nat /\ k \in Nat /\ k <= m /\ (m = k => Turns(L) = Taken(L, s))
    BY <2>3, BoundIs, FS_Subset, FS_CardinalityType
  <2> HIDE DEF r, l, k, m
  <2>5. r = l /\ m = k
    BY <2>1, <2>2, <2>4
  <2>6. \A n \in N : s.color[n] = "black"
    <3> TAKE n \in N
    <3>1. 0 \in 0 .. Len(L[n])
      BY <2>1
    <3>2. <<n, 0>> \in Turns(L)
      BY <3>1, GraphIs
    <3>3. <<n, 0>> \in Taken(L, s)
      BY <2>4, <2>5, <3>2
    <3> QED
      BY <3>3 DEF Taken
  <2>7. s.path = <<>>
    <3> SUFFICES ASSUME s.path # <<>> PROVE FALSE
      OBVIOUS
    <3> DEFINE p == s.path
               c == s.color
               a == s.at
               n == Last(p)
    <3>1. GoingOn(N, L, p, c, a) /\ p # <<>>
      BY <2>1
    <3> HIDE DEF p, c, a, n
    <3>2. n \in N /\ c[n] = "gray"
      BY <3>1, LastIs DEF n
    <3> QED
      BY <2>6, <3>2 DEF c
  <2> QED
    BY <1>2, <2>5, <2>7 DEF Ended, r, l
<1> QED
  BY <1>1, <1>2 DEF s

\* What an ended search without an error has seen has no cycle.
LEMMA NoneFound ==
  ASSUME NEW N, NEW L, NEW roots, NEW s, SearchInv(N, L, roots, s),
         Ended(roots, s), ~s.cycle,
         \A n \in N : L[n] # <<>> => \E i \in 1 .. Len(roots) : roots[i] = n
  PROVE  ~Cyclic(N, L)
<1> DEFINE c == s.color
<1>1. /\ GoingOn(N, L, <<>>, c, s.at) /\ \A i \in 1 .. Len(roots) : c[roots[i]] # "white"
      /\ c \in Colors(N) /\ L \in [N -> Seq(N)]
  BY DEF SearchInv, Ended, SearchState, Graph
<1>2. \A n \in N : c[n] # "gray"
  <2>1. 1 .. Len(<<>>) = {}
    OBVIOUS
  <2> QED
    BY <1>1, <2>1 DEF GoingOn, PathInv
<1> HIDE DEF c
<1>3. ASSUME NEW n \in N, L[n] # <<>> PROVE n \in Black(N, c)
  <2>1. PICK i \in 1 .. Len(roots) : roots[i] = n
    BY <1>3
  <2>2. c[n] # "white" /\ c[n] # "gray"
    BY <1>1, <1>2, <2>1
  <2>3. c[n] \in {"white", "gray", "black"}
    BY <1>1 DEF Colors
  <2> QED
    BY <2>2, <2>3 DEF Black
<1>4. ASSUME NEW S \in SUBSET N, S # {}, \A n \in S : \E m \in S : Edge(L, n, m)
      PROVE  FALSE
  <2>1. \A n \in S : L[n] # <<>>
    <3> TAKE n \in S
    <3>1. PICK i \in 1 .. Len(L[n]) : TRUE
      BY <1>4 DEF Edge
    <3> QED
      BY <3>1
  <2>2. S \in SUBSET Black(N, c)
    BY <1>3, <2>1
  <2> QED
    BY <1>1, <1>4, <2>2 DEF GoingOn, NoCycleIn
<1> QED
  BY <1>4 DEF Cyclic

\* Begun at every name that depends on something, it finds a cycle exactly when there is one.
LEMMA FindsCycles ==
  ASSUME NEW N, NEW L, NEW roots \in Seq(N), Graph(N, L),
         \A n \in N : L[n] # <<>> => \E i \in 1 .. Len(roots) : roots[i] = n
  PROVE  Valid(L, roots) <=> ~Cyclic(N, L)
<1> DEFINE f == Searched(L, roots)
           s == f[Bound(L, roots)]
<1>1. Steps(f, L, roots)
  BY SearchGoes
<1>2. SearchInv(N, L, roots, s) /\ Ended(roots, s)
  <2> HIDE DEF f
  <2> QED
    BY <1>1, SearchEnds
<1>3. Circular(L, roots) <=> s.cycle
  BY DEF Circular, Bound
<1>4. Known(L)
  BY GraphIs
<1> HIDE DEF s
<1>5. s.cycle => Cyclic(N, L)
  BY <1>2 DEF SearchInv
<1>6. ~s.cycle => ~Cyclic(N, L)
  BY <1>2, NoneFound
<1> QED
  BY <1>3, <1>4, <1>5, <1>6 DEF Valid
-----------------------------------------------------------------------------
\* A sequence of a finite set's elements, as many as there are and all different, has them all.
LEMMA HasAll ==
  ASSUME NEW S, IsFiniteSet(S), NEW s \in [1 .. Cardinality(S) -> S],
         \A i, j \in 1 .. Cardinality(S) : s[i] = s[j] => i = j
  PROVE  s \in Seq(S) /\ Len(s) = Cardinality(S) /\ \A x \in S : \E i \in 1 .. Len(s) : s[i] = x
<1> DEFINE n == Cardinality(S)
           T == {s[i] : i \in 1 .. n}
<1>1. n \in Nat
  BY FS_CardinalityType
<1>2. s \in Seq(S) /\ Len(s) = n
  BY <1>1
<1>3. s \in Bijection(1 .. n, T)
  <2>1. s \in [1 .. n -> T] /\ \A x \in T : \E i \in 1 .. n : s[i] = x
    OBVIOUS
  <2> HIDE DEF T, n
  <2>2. \A i, j \in 1 .. n : s[i] = s[j] => i = j
    BY DEF n
  <2>3. s \in Injection(1 .. n, T)
    BY <2>1, <2>2 DEF Injection, IsInjective
  <2>4. s \in Surjection(1 .. n, T)
    BY <2>1 DEF Surjection
  <2> QED
    BY <2>3, <2>4 DEF Bijection
<1>4. Cardinality(T) = n
  <2> HIDE DEF T, n
  <2>1. ExistsBijection(1 .. n, T)
    BY <1>3 DEF ExistsBijection
  <2>2. IsFiniteSet(1 .. n) /\ Cardinality(1 .. n) = n
    BY <1>1, FS_Interval, SMTT(30)
  <2> QED
    BY <2>1, <2>2, FS_Bijection
<1>5. T \in SUBSET S
  OBVIOUS
<1>6. T = S
  <2> HIDE DEF T
  <2> QED
    BY <1>4, <1>5, FS_Subset DEF n
<1> QED
  BY <1>2, <1>6

LEMMA SetToSeqAll ==
  ASSUME NEW S, IsFiniteSet(S)
  PROVE  /\ SetToSeq(S) \in Seq(S)
         /\ \A x : x \in S <=> \E i \in 1 .. Len(SetToSeq(S)) : SetToSeq(S)[i] = x
<1> DEFINE s == SetToSeq(S)
<1>1. Cardinality(S) \in Nat /\ \E f \in [1 .. Cardinality(S) -> S] : IsInjective(f)
  BY FS_CardinalityType DEF ExistsBijection, Bijection, Injection, IsInjective
<1>2. s \in [1 .. Cardinality(S) -> S] /\ IsInjective(s)
  BY <1>1 DEF SetToSeq
<1> HIDE DEF s
<1>3. \A i, j \in 1 .. Cardinality(S) : s[i] = s[j] => i = j
  BY <1>2 DEF IsInjective
<1>4. s \in Seq(S) /\ Len(s) = Cardinality(S) /\ \A x \in S : \E i \in 1 .. Len(s) : s[i] = x
  BY <1>2, <1>3, HasAll, Zenon
<1>5. \A i \in 1 .. Len(s) : s[i] \in S
  BY <1>4
<1> QED
  BY <1>4, <1>5 DEF s

LEMMA SetToSeqsAll ==
  ASSUME NEW S, IsFiniteSet(S), NEW s \in SetToSeqs(S)
  PROVE  s \in Seq(S) /\ \A x \in S : \E i \in 1 .. Len(s) : s[i] = x
<1>1. s \in [1 .. Cardinality(S) -> S] /\ \A i, j \in 1 .. Cardinality(S) : s[i] = s[j] => i = j
  BY DEF SetToSeqs
<1> QED
  BY <1>1, HasAll, Zenon

-----------------------------------------------------------------------------
(* The search against the sort. *)

\* Each name with the list of those it depends on, as SortIsRight gives it to Validate.
DependsOn(deps) ==
  [n \in Components \cup Services |-> IF n \in Components THEN SetToSeq(deps[n]) ELSE <<>>]

LEMMA DependsOnIs ==
  ASSUME NEW deps \in [Components -> SUBSET Components]
  PROVE  /\ Graph(Components \cup Services, DependsOn(deps))
         /\ \A n, m : n \in Components => (Edge(DependsOn(deps), n, m) <=> m \in deps[n])
         /\ \A n \in Services : DependsOn(deps)[n] = <<>>
<1> DEFINE N == Components \cup Services
           L == DependsOn(deps)
<1>1. IsFiniteSet(N)
  <2>1. IsFiniteSet(Components)
    BY ComponentsAre
  <2>2. IsFiniteSet(Services)
    BY RobotAssumption, FS_Union DEF Services
  <2> QED
    BY <2>1, <2>2, FS_Union
<1>2. ASSUME NEW n \in Components
      PROVE  /\ SetToSeq(deps[n]) \in Seq(N)
             /\ \A m : m \in deps[n] <=> \E i \in 1 .. Len(SetToSeq(deps[n])) : SetToSeq(deps[n])[i] = m
  <2> DEFINE S == deps[n]
  <2>1. S \in SUBSET Components /\ IsFiniteSet(S)
    BY ComponentsAre, FS_Subset
  <2> HIDE DEF S
  <2>2. /\ SetToSeq(S) \in Seq(S)
        /\ \A m : m \in S <=> \E i \in 1 .. Len(SetToSeq(S)) : SetToSeq(S)[i] = m
    BY <2>1, SetToSeqAll
  <2>3. SetToSeq(S) \in Seq(N)
    BY <2>1, <2>2
  <2> QED
    BY <2>2, <2>3 DEF S
<1>3. \A n \in Services : n \notin Components
  BY RobotAssumption
<1>4. /\ \A n \in Components : L[n] = SetToSeq(deps[n])
      /\ \A n \in Services : L[n] = <<>>
  BY <1>3 DEF DependsOn
<1>5. L \in [N -> Seq(N)]
  <2>1. \A n \in N : (IF n \in Components THEN SetToSeq(deps[n]) ELSE <<>>) \in Seq(N)
    BY <1>2
  <2> QED
    BY <2>1 DEF DependsOn
<1>6. \A n, m : n \in Components => (Edge(L, n, m) <=> m \in deps[n])
  <2> HIDE DEF L
  <2> QED
    BY <1>2, <1>4 DEF Edge
<1> QED
  BY <1>1, <1>4, <1>5, <1>6 DEF Graph

\* A cycle can only be among components.
LEMMA CyclicIs ==
  ASSUME NEW deps \in [Components -> SUBSET Components]
  PROVE  Cyclic(Components \cup Services, DependsOn(deps)) <=> ~Acyclic(deps)
<1> DEFINE L == DependsOn(deps)
<1>1. /\ \A n, m : n \in Components => (Edge(L, n, m) <=> m \in deps[n])
      /\ \A n, m : n \in Services => ~Edge(L, n, m)
  <2>1. /\ \A n, m : n \in Components => (Edge(L, n, m) <=> m \in deps[n])
        /\ \A n \in Services : L[n] = <<>>
    BY DependsOnIs
  <2>2. 1 .. Len(<<>>) = {}
    OBVIOUS
  <2> HIDE DEF L
  <2> QED
    BY <2>1, <2>2 DEF Edge
<1> HIDE DEF L
<1>2. ASSUME Cyclic(Components \cup Services, L) PROVE ~Acyclic(deps)
  <2>1. PICK S \in SUBSET (Components \cup Services) :
          S # {} /\ \A n \in S : \E m \in S : Edge(L, n, m)
    BY <1>2 DEF Cyclic
  <2>2. S \in SUBSET Components
    BY <1>1, <2>1
  <2>3. \A n \in S : deps[n] \cap S # {}
    BY <1>1, <2>1, <2>2
  <2> QED
    BY <2>1, <2>2, <2>3 DEF Acyclic
<1>3. ASSUME ~Acyclic(deps) PROVE Cyclic(Components \cup Services, L)
  <2>1. PICK S \in SUBSET Components : S # {} /\ \A c \in S : deps[c] \cap S # {}
    BY <1>3 DEF Acyclic
  <2>2. \A n \in S : \E m \in S : Edge(L, n, m)
    BY <1>1, <2>1
  <2>3. S \in SUBSET (Components \cup Services)
    OBVIOUS
  <2> QED
    BY <2>1, <2>2, <2>3 DEF Cyclic
<1> QED
  BY <1>2, <1>3 DEF L

\* What config.Validate accepts before a robot is built (run.go:71), the sort of topo.go
\* accepts: the depth first search of config.go, in whatever order the last loop ranges
\* over the components, and the sort's count of in-degrees refuse the same configurations.
THEOREM ValidSorts ==
  ASSUME NEW deps \in [Components -> SUBSET Components], NEW roots \in SetToSeqs(Components)
  PROVE  Valid(DependsOn(deps), roots) <=> Sortable(deps)
<1> DEFINE N == Components \cup Services
           L == DependsOn(deps)
<1>1. roots \in Seq(Components) /\ \A c \in Components : \E i \in 1 .. Len(roots) : roots[i] = c
  BY ComponentsAre, SetToSeqsAll
<1>2. Graph(N, L) /\ \A n \in Services : L[n] = <<>>
  BY DependsOnIs
<1>3. Cyclic(N, L) <=> ~Acyclic(deps)
  BY CyclicIs
<1>4. roots \in Seq(N)
  BY <1>1
<1> HIDE DEF L
<1>5. \A n \in N : L[n] # <<>> => \E i \in 1 .. Len(roots) : roots[i] = n
  BY <1>1, <1>2
<1> HIDE DEF N
<1>6. Valid(L, roots) <=> ~Cyclic(N, L)
  BY <1>2, <1>4, <1>5, FindsCycles
<1>7. Sortable(deps) <=> Acyclic(deps)
  BY SortCorrect DEF SortsRight
<1> QED
  BY <1>3, <1>6, <1>7 DEF L

\* Of every configuration: the sort is right, and Validate and the sort agree.
THEOREM SearchAndSortAgree == Spec => []SortIsRight
<1>1. IInv => SortIsRight
  <2> SUFFICES ASSUME IInv PROVE SortIsRight
    OBVIOUS
  <2> DEFINE deps == config.deps
  <2>1. deps \in [Components -> SUBSET (Components \cup Services)]
    BY RobotAssumption DEF IInv, Types, ConfigType
  <2> HIDE DEF deps
  <2>2. SortsRight(deps)
    BY <2>1, SortCorrect
  <2>3. ASSUME \A c \in Components : deps[c] \subseteq Components, NEW roots \in SetToSeqs(Components)
        PROVE  Valid(DependsOn(deps), roots) <=> Sortable(deps)
    <3>1. deps \in [Components -> SUBSET Components]
      BY <2>1, <2>3
    <3> QED
      BY <3>1, ValidSorts
  <2> QED
    BY <2>2, <2>3 DEF SortIsRight, DependsOn, deps
<1> QED
  BY <1>1, Invariant, PTL
=============================================================================
