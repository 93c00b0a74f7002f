---------------------------- MODULE ClientProofs ----------------------------
(***************************************************************************)
(* Theorems of Client for any number of transports, of queued frames and   *)
(* of kills.  A signal handler's stop() runs between any two steps of a    *)
(* handler, so what a step may rely on is what no step that can come       *)
(* before it disturbs.  Reaches(todo, step, others) says that step comes   *)
(* up before any of the others; the invariants of the host are of the form *)
(* "if the main thread reaches this step without having made that one,     *)
(* then ...", and Ordered says how steps can follow one another.           *)
(***************************************************************************)
EXTENDS Client, SequenceTheorems, FiniteSetTheorems, TLAPS

----------------------------------------------------------------------------
(* The inductive invariant.                                                *)

\* Some occurrence of step in q has none of the others before it.
Reaches(q, step, others) ==
    \E i \in DOMAIN q : q[i] = step /\ \A j \in 1 .. i - 1 : q[j] \notin others

Coming(step) == Reaches(todo, step, {})

\* Steps a handler ends with, and steps of a teardown, which end with the device's close.
LastSteps == {"onError", "reconnect", "tunOpen"}
UndoSteps == {"restoreResolv", "delLow", "delHigh", "delServer"}

Ordered(q) ==
    /\ \A i \in DOMAIN q : q[i] \in LastSteps => i = Len(q)
    /\ \A i, j \in DOMAIN q : i < j /\ q[i] \in SetupSteps => q[j] \in SetupSteps
    /\ \A i \in DOMAIN q : q[i] \in UndoSteps => \E j \in DOMAIN q : j > i /\ q[j] = "tunClose"
    /\ \A i, j \in DOMAIN q : i < j /\ q[i] = "writeResolv" => q[j] # "backupResolv"

\* Transports are made one after the other; one that has not opened has done nothing.
Transported ==
    /\ \A g \in Transports : g > current => stage[g] = "none"
    /\ \A g \in Transports : stage[g] \in {"none", "connecting"} =>
          ~reading[g] /\ writer[g] = "idle" /\ queued[g] = 0 /\ auth[g] = "none"
    /\ \A g \in Transports : stage[g] = "connecting" => g = current
    /\ \A g \in Transports : reading[g] /\ writer[g] # "stuck" => stage[g] = "up"
    /\ tunThreads["send"] > 0 => current \in Transports /\ stage[current] \in {"up", "failed"}
    /\ main \in {"starting", "resolving"} =>
          /\ current = 0 /\ timer = 0 /\ ~connected /\ tun = "null"
          /\ \A p \in ThreadPoints : tunThreads[p] = 0
    /\ main \in {"loop", "leaving"} => current \in Transports

\* While the client is connected, or has lost the connection and is still tearing down,
\* no attempt is under way, waited for or counted.
Attempts ==
    /\ connected \/ Coming("reconnect") =>
          attempt = 0 /\ timer = 0 /\ \A g \in Transports : stage[g] # "connecting"
    /\ connected => ~Coming("reconnect")
    /\ timer > 0 => timer = 1 /\ \A g \in Transports : stage[g] # "connecting"

\* Which steps can be ahead, and what stop() has begun it goes on with.
Flow ==
    /\ Ordered(todo)
    /\ \A x \in {"addServer", "addLow", "addHigh"} : Coming(x) => autoRoute /\ gateway
    /\ main \in {"resolving", "loop"} /\ ~running => iocStopped \/ Coming("iocStop")
    /\ main = "leaving" => ~running \/ Coming("stop")
    /\ main \in {"starting", "resolving"} => \A x \in SetupSteps \cup LastSteps : ~Coming(x)
    /\ main = "killed" => kills > 0

\* As long as no error has been taken for the wrong transport's: the transport that is
\* up is the current one, it has sent nothing but its AuthRequest until that is
\* answered, and only then is there a device.
Faithful ==
    ~stray =>
        /\ \A g \in Transports : stage[g] = "up" => g = current /\ connected
        /\ \A g \in Transports : auth[g] = "none" =>
              /\ writer[g] \in {"idle", "writing"} => queued[g] = 0
              /\ writer[g] = "posted" => queued[g] <= 1
        /\ \A g \in Transports : auth[g] = "sent" => writer[g] = "idle" /\ queued[g] = 0
        /\ tunThreads["send"] > 0 => auth[current] = "answered"
        /\ tun = "open" => current \in Transports /\ auth[current] = "answered"
                           /\ (connected \/ Coming("tunClose"))
        /\ \A x \in SetupSteps : Coming(x) =>
              current \in Transports /\ auth[current] = "answered" /\ connected
        /\ Coming("onError") /\ connected => current \in Transports /\ stage[current] = "failed"
        /\ Coming("tunOpen") => tun # "open"

\* Routes through the tunnel need the device, and the server's route outlives them.
Routed ==
    /\ routes \cap Host!HalfRoutes # {} => tun = "open" /\ autoRoute /\ gateway
    /\ ~Alive => routes \cap Host!HalfRoutes = {}
    /\ "server" \in routes => autoRoute
    /\ Reaches(todo, "delHigh", {"delLow", "tunClose"}) => "low" \notin routes
    /\ Reaches(todo, "delServer", {"delLow", "tunClose"}) => "low" \notin routes
    /\ Reaches(todo, "delServer", {"delHigh", "tunClose"}) => "high" \notin routes
    /\ \A x \in {"addLow", "addHigh"} :
          Reaches(todo, x, {"addServer", "tunClose"}) /\ tun = "open" /\ ~unexcluded =>
              "server" \in routes
    /\ Reaches(todo, "tunReset", {"tunClose"}) => tun # "open"
    /\ NoRoutingLoop
    /\ Alive /\ tun = "open" /\ autoRoute /\ gateway =>
          /\ "low" \in routes \/ Coming("addLow") \/ Coming("tunClose")
          /\ "high" \in routes \/ Coming("addHigh") \/ Coming("tunClose")

\* What an undisturbed process has changed it still knows how to undo.
Undone ==
    ~interrupted /\ ~stray =>
        /\ (\E x \in SetupSteps : Coming(x)) => Head(todo) \in SetupSteps /\ running
        /\ \A x \in SetupSteps \ {"tunOpen"} : Coming(x) => tun = "open"
        /\ main \in {"resolving", "loop", "leaving"} /\ ~running /\ "server" \in routes =>
              Coming("delServer")
        /\ (\E p \in ThreadPoints : tunThreads[p] > 0) /\ "server" \in routes => tun = "open"
        /\ Reaches(todo, "tunClose", {"delServer"}) => "server" \notin routes
        /\ kills = 0 =>
              /\ backup # "tunnel"
              /\ resolv = "tunnel" => backup = "original" /\ tun = "open"
              /\ main \in {"resolving", "loop", "leaving"} /\ ~running /\ resolv = "tunnel" =>
                    Coming("restoreResolv")
              /\ Reaches(todo, "tunClose", {"restoreResolv"}) => resolv = "original"
              /\ Coming("backupResolv") => resolv = "original"
              /\ Reaches(todo, "writeResolv", {"backupResolv"}) => backup = "original"
        /\ RestoredAtEnd

IInv == TypeOK /\ Transported /\ Attempts /\ Flow /\ Faithful /\ Routed /\ Undone

----------------------------------------------------------------------------
(* Sequences of steps.                                                     *)

\* Nothing comes up once nothing is left to do.
LEMMA ReachesEmpty == \A x, Y : ~Reaches(<<>>, x, Y)
BY DEF Reaches

\* One step left: it comes up, and nothing before it.
LEMMA ReachesOne == \A a, x, Y : Reaches(<<a>>, x, Y) <=> a = x
BY DEF Reaches

\* What comes first comes before all others; the rest is as it is in the tail.
LEMMA ReachesHead ==
    ASSUME NEW q \in Seq(Steps), q # <<>>, NEW x, NEW Y
    PROVE  Reaches(q, x, Y) <=> Head(q) = x \/ (Head(q) \notin Y /\ Reaches(Tail(q), x, Y))
<1>1. /\ Len(q) \in Nat /\ Len(q) >= 1 /\ Head(q) = q[1] /\ DOMAIN q = 1 .. Len(q)
      /\ DOMAIN Tail(q) = 1 .. Len(q) - 1
      /\ \A i \in 1 .. Len(q) - 1 : Tail(q)[i] = q[i + 1]
  BY HeadTailProperties, EmptySeq
<1>2. ASSUME Reaches(q, x, Y), Head(q) # x PROVE Head(q) \notin Y /\ Reaches(Tail(q), x, Y)
  <2>1. PICK i \in DOMAIN q : q[i] = x /\ \A j \in 1 .. i - 1 : q[j] \notin Y
    BY <1>2 DEF Reaches
  <2>2. i > 1 /\ i - 1 \in DOMAIN Tail(q) /\ Tail(q)[i - 1] = x
    BY <1>1, <1>2, <2>1
  <2>3. ASSUME NEW j \in 1 .. (i - 1) - 1 PROVE Tail(q)[j] \notin Y
    <3>1. j + 1 \in 1 .. i - 1 /\ Tail(q)[j] = q[j + 1]
      BY <1>1, <2>1, <2>2
    <3> QED
      BY <2>1, <3>1
  <2>4. Head(q) \notin Y
    BY <1>1, <2>1, <2>2
  <2> QED
    BY <2>2, <2>3, <2>4 DEF Reaches
<1>3. ASSUME Head(q) = x PROVE Reaches(q, x, Y)
  <2>1. 1 \in DOMAIN q /\ q[1] = x /\ \A j \in 1 .. 1 - 1 : q[j] \notin Y
    BY <1>1, <1>3
  <2> QED
    BY <2>1 DEF Reaches
<1>4. ASSUME Head(q) \notin Y, Reaches(Tail(q), x, Y) PROVE Reaches(q, x, Y)
  <2>1. PICK i \in DOMAIN Tail(q) : Tail(q)[i] = x /\ \A j \in 1 .. i - 1 : Tail(q)[j] \notin Y
    BY <1>4 DEF Reaches
  <2>2. i + 1 \in DOMAIN q /\ q[i + 1] = x
    BY <1>1, <2>1
  <2>3. ASSUME NEW j \in 1 .. (i + 1) - 1 PROVE q[j] \notin Y
    <3>1. CASE j = 1
      BY <1>1, <1>4, <3>1
    <3>2. CASE j # 1
      <4>1. j - 1 \in 1 .. i - 1 /\ Tail(q)[j - 1] = q[j]
        BY <1>1, <2>1, <2>3, <3>2
      <4> QED
        BY <2>1, <4>1
    <3> QED
      BY <3>1, <3>2
  <2> QED
    BY <2>2, <2>3 DEF Reaches
<1> QED
  BY <1>2, <1>3, <1>4

\* Steps put before others.
LEMMA ReachesConcat ==
    ASSUME NEW s \in Seq(Steps), NEW q \in Seq(Steps), NEW x, NEW Y
    PROVE  Reaches(s \o q, x, Y) <=>
               \/ Reaches(s, x, Y)
               \/ (\A y \in Y : ~Reaches(s, y, {})) /\ Reaches(q, x, Y)
<1> DEFINE u == s \o q
<1>1. /\ Len(s) \in Nat /\ Len(q) \in Nat /\ Len(u) = Len(s) + Len(q)
      /\ DOMAIN s = 1 .. Len(s) /\ DOMAIN q = 1 .. Len(q) /\ DOMAIN u = 1 .. Len(s) + Len(q)
      /\ \A i \in 1 .. Len(s) : u[i] = s[i]
      /\ \A i \in 1 .. Len(q) : u[Len(s) + i] = q[i]
  BY ConcatProperties
<1> HIDE DEF u
<1>2. (\A y \in Y : ~Reaches(s, y, {})) <=> \A j \in 1 .. Len(s) : s[j] \notin Y
  BY <1>1 DEF Reaches
<1>3. ASSUME Reaches(u, x, Y), ~Reaches(s, x, Y)
      PROVE  (\A j \in 1 .. Len(s) : s[j] \notin Y) /\ Reaches(q, x, Y)
  <2>1. PICK i \in 1 .. Len(s) + Len(q) : u[i] = x /\ \A j \in 1 .. i - 1 : u[j] \notin Y
    BY <1>1, <1>3 DEF Reaches
  <2>2. i > Len(s)
    <3> SUFFICES ASSUME i <= Len(s) PROVE FALSE
      BY <1>1, <2>1
    <3>1. i \in DOMAIN s /\ s[i] = x /\ \A j \in 1 .. i - 1 : s[j] \notin Y
      BY <1>1, <2>1
    <3> QED
      BY <1>3, <3>1 DEF Reaches
  <2>3. i - Len(s) \in DOMAIN q /\ q[i - Len(s)] = x
    BY <1>1, <2>1, <2>2
  <2>4. ASSUME NEW j \in 1 .. (i - Len(s)) - 1 PROVE q[j] \notin Y
    <3>1. Len(s) + j \in 1 .. i - 1 /\ u[Len(s) + j] = q[j]
      BY <1>1, <2>1, <2>2
    <3> QED
      BY <2>1, <3>1
  <2>5. ASSUME NEW j \in 1 .. Len(s) PROVE s[j] \notin Y
    <3>1. j \in 1 .. i - 1 /\ u[j] = s[j]
      BY <1>1, <2>1, <2>2
    <3> QED
      BY <2>1, <3>1
  <2> QED
    BY <2>3, <2>4, <2>5 DEF Reaches
<1>4. ASSUME Reaches(s, x, Y) PROVE Reaches(u, x, Y)
  <2>1. PICK i \in 1 .. Len(s) : s[i] = x /\ \A j \in 1 .. i - 1 : s[j] \notin Y
    BY <1>1, <1>4 DEF Reaches
  <2>2. i \in DOMAIN u /\ u[i] = x /\ \A j \in 1 .. i - 1 : u[j] \notin Y
    BY <1>1, <2>1
  <2> QED
    BY <2>2 DEF Reaches
<1>5. ASSUME \A j \in 1 .. Len(s) : s[j] \notin Y, Reaches(q, x, Y) PROVE Reaches(u, x, Y)
  <2>1. PICK i \in 1 .. Len(q) : q[i] = x /\ \A j \in 1 .. i - 1 : q[j] \notin Y
    BY <1>1, <1>5 DEF Reaches
  <2>2. Len(s) + i \in DOMAIN u /\ u[Len(s) + i] = x
    BY <1>1, <2>1
  <2>3. ASSUME NEW j \in 1 .. (Len(s) + i) - 1 PROVE u[j] \notin Y
    <3>1. CASE j <= Len(s)
      BY <1>1, <1>5, <2>1, <2>3, <3>1
    <3>2. CASE j > Len(s)
      <4>1. j - Len(s) \in 1 .. i - 1 /\ j = Len(s) + (j - Len(s)) /\ j - Len(s) \in 1 .. Len(q)
        BY <1>1, <2>1, <2>3, <3>2
      <4> QED
        BY <1>1, <2>1, <4>1
    <3> QED
      BY <1>1, <2>1, <2>3, <3>1, <3>2
  <2> QED
    BY <2>2, <2>3 DEF Reaches
<1>6. Reaches(u, x, Y) <=> \/ Reaches(s, x, Y)
                           \/ (\A y \in Y : ~Reaches(s, y, {})) /\ Reaches(q, x, Y)
  BY <1>2, <1>3, <1>4, <1>5
<1> QED
  BY <1>6 DEF u

\* What comes before many comes before fewer.
LEMMA ReachesMore ==
    ASSUME NEW q, NEW x, NEW Y, NEW Z, Y \subseteq Z, Reaches(q, x, Z)
    PROVE  Reaches(q, x, Y)
BY DEF Reaches

\* A main thread with nothing to do breaks no order.
LEMMA OrderedEmpty == Ordered(<<>>)
BY DEF Ordered

\* A single step is in order unless it needs the device's close after it.
LEMMA OrderedOne == \A x : x \notin UndoSteps => Ordered(<<x>>)
BY DEF Ordered

\* Making the first step keeps the rest in order.
LEMMA OrderedTail ==
    ASSUME NEW q \in Seq(Steps), q # <<>>, Ordered(q)
    PROVE  Ordered(Tail(q))
<1> DEFINE t == Tail(q)
<1>1. /\ Len(q) \in Nat /\ DOMAIN q = 1 .. Len(q) /\ Len(t) = Len(q) - 1
      /\ DOMAIN t = 1 .. Len(q) - 1
      /\ \A i \in DOMAIN t : i + 1 \in DOMAIN q /\ t[i] = q[i + 1]
  BY HeadTailProperties, EmptySeq
<1> HIDE DEF t
<1>2. \A i \in DOMAIN t : t[i] \in LastSteps => i = Len(t)
  BY <1>1 DEF Ordered
<1>3. \A i, j \in DOMAIN t : i < j /\ t[i] \in SetupSteps => t[j] \in SetupSteps
  BY <1>1 DEF Ordered
<1>4. ASSUME NEW i \in DOMAIN t, t[i] \in UndoSteps
      PROVE  \E j \in DOMAIN t : j > i /\ t[j] = "tunClose"
  <2>1. PICK j \in DOMAIN q : j > i + 1 /\ q[j] = "tunClose"
    BY <1>1, <1>4 DEF Ordered
  <2>2. j - 1 \in DOMAIN t /\ j - 1 > i /\ t[j - 1] = "tunClose"
    BY <1>1, <2>1
  <2> QED
    BY <2>2
<1>5. \A i, j \in DOMAIN t : i < j /\ t[i] = "writeResolv" => t[j] # "backupResolv"
  BY <1>1 DEF Ordered
<1> QED
  BY <1>2, <1>3, <1>4, <1>5 DEF Ordered, t

\* What the step at hand says of those that follow.
LEMMA OrderedHead ==
    ASSUME NEW q \in Seq(Steps), q # <<>>, Ordered(q)
    PROVE  /\ Head(q) \in LastSteps => Tail(q) = <<>>
           /\ Head(q) \in SetupSteps =>
                 \A x, Y : x \notin SetupSteps => ~Reaches(Tail(q), x, Y)
           /\ Head(q) \in UndoSteps =>
                 /\ Reaches(Tail(q), "tunClose", {})
                 /\ \A x, Y : x \in SetupSteps /\ "tunClose" \in Y => ~Reaches(Tail(q), x, Y)
           /\ Head(q) = "writeResolv" => ~Reaches(Tail(q), "backupResolv", {})
<1> DEFINE t == Tail(q)
<1>1. /\ Len(q) \in Nat /\ DOMAIN q = 1 .. Len(q) /\ 1 \in DOMAIN q /\ Head(q) = q[1]
      /\ t \in Seq(Steps) /\ Len(t) = Len(q) - 1 /\ DOMAIN t = 1 .. Len(q) - 1
      /\ \A i \in DOMAIN t : i + 1 \in DOMAIN q /\ t[i] = q[i + 1]
  BY HeadTailProperties, EmptySeq
<1>5. Len(t) = 0 => t = <<>>
  BY <1>1, EmptySeq
<1> HIDE DEF t
<1>2. ASSUME Head(q) \in LastSteps PROVE t = <<>>
  BY <1>1, <1>2, <1>5 DEF Ordered
<1>3. ASSUME Head(q) \in SetupSteps, NEW x, NEW Y, x \notin SetupSteps PROVE ~Reaches(t, x, Y)
  <2>1. \A i \in DOMAIN t : t[i] \in SetupSteps
    BY <1>1, <1>3 DEF Ordered
  <2> QED
    BY <1>3, <2>1 DEF Reaches
<1>4. ASSUME Head(q) \in UndoSteps
      PROVE  /\ Reaches(t, "tunClose", {})
             /\ \A x, Y : x \in SetupSteps /\ "tunClose" \in Y => ~Reaches(t, x, Y)
  <2>1. PICK j \in DOMAIN q : j > 1 /\ q[j] = "tunClose"
    BY <1>1, <1>4 DEF Ordered
  <2>2. j - 1 \in DOMAIN t /\ t[j - 1] = "tunClose"
    BY <1>1, <2>1
  <2>3. ASSUME NEW x, NEW Y, x \in SetupSteps, "tunClose" \in Y, Reaches(t, x, Y) PROVE FALSE
    <3>1. PICK i \in DOMAIN t : t[i] = x /\ \A k \in 1 .. i - 1 : t[k] \notin Y
      BY <2>3 DEF Reaches
    <3>2. ~(j - 1 < i)
      BY <1>1, <2>2, <2>3, <3>1
    <3>3. i + 1 \in DOMAIN q /\ q[i + 1] \in SetupSteps /\ "tunClose" \notin SetupSteps
      BY <1>1, <2>3, <3>1 DEF SetupSteps
    <3>4. i + 1 # j
      BY <2>1, <3>3
    <3>5. i + 1 < j
      BY <1>1, <2>1, <3>1, <3>2, <3>4
    <3> QED
      BY <2>1, <3>3, <3>5 DEF Ordered
  <2> QED
    BY <2>2, <2>3 DEF Reaches
<1>6. ASSUME Head(q) = "writeResolv" PROVE ~Reaches(t, "backupResolv", {})
  <2>1. \A i \in DOMAIN t : t[i] # "backupResolv"
    BY <1>1, <1>6 DEF Ordered
  <2> QED
    BY <2>1 DEF Reaches
<1> QED
  BY <1>2, <1>3, <1>4, <1>6 DEF t

\* A handler put on top of what is left is in order if it neither sets up nor ends
\* early, and whatever it undoes has the device's close after it.
LEMMA OrderedConcat ==
    ASSUME NEW s \in Seq(Steps), NEW q \in Seq(Steps), Ordered(q),
           Ordered(s) \/ Reaches(q, "tunClose", {}),
           \A i \in DOMAIN s : s[i] \notin LastSteps \cup SetupSteps
    PROVE  Ordered(s \o q)
<1> DEFINE u == s \o q
<1>1. /\ Len(s) \in Nat /\ Len(q) \in Nat /\ Len(u) = Len(s) + Len(q)
      /\ DOMAIN s = 1 .. Len(s) /\ DOMAIN q = 1 .. Len(q) /\ DOMAIN u = 1 .. Len(s) + Len(q)
      /\ \A i \in DOMAIN s : u[i] = s[i]
      /\ \A i \in DOMAIN q : u[Len(s) + i] = q[i]
  BY ConcatProperties
<1>6. \A i \in DOMAIN u : i \in DOMAIN s \/ (i - Len(s) \in DOMAIN q /\ u[i] = q[i - Len(s)] /\ i > Len(s))
  <2> TAKE i \in DOMAIN u
  <2>1. CASE i <= Len(s)
    BY <1>1, <2>1
  <2>2. CASE i > Len(s)
    <3>1. i - Len(s) \in DOMAIN q /\ i = Len(s) + (i - Len(s))
      BY <1>1, <2>2
    <3> QED
      BY <1>1, <2>2, <3>1
  <2> QED
    BY <1>1, <2>1, <2>2
<1> HIDE DEF u
<1>2. \A i \in DOMAIN u : u[i] \in LastSteps => i = Len(u)
  <2> SUFFICES ASSUME NEW i \in DOMAIN u, u[i] \in LastSteps PROVE i = Len(u)
    OBVIOUS
  <2>1. i - Len(s) \in DOMAIN q /\ q[i - Len(s)] \in LastSteps
    BY <1>1, <1>6
  <2>2. i - Len(s) = Len(q)
    BY <2>1 DEF Ordered
  <2> QED
    BY <1>1, <2>2
<1>3. \A i, j \in DOMAIN u : i < j /\ u[i] \in SetupSteps => u[j] \in SetupSteps
  <2> SUFFICES ASSUME NEW i \in DOMAIN u, NEW j \in DOMAIN u, i < j, u[i] \in SetupSteps
               PROVE  u[j] \in SetupSteps
    OBVIOUS
  <2>1. i - Len(s) \in DOMAIN q /\ q[i - Len(s)] \in SetupSteps /\ i > Len(s)
    BY <1>1, <1>6
  <2>2. j - Len(s) \in DOMAIN q /\ u[j] = q[j - Len(s)] /\ i - Len(s) < j - Len(s)
    BY <1>1, <1>6, <2>1
  <2> QED
    BY <2>1, <2>2 DEF Ordered
<1>5. \A i, j \in DOMAIN u : i < j /\ u[i] = "writeResolv" => u[j] # "backupResolv"
  <2> SUFFICES ASSUME NEW i \in DOMAIN u, NEW j \in DOMAIN u, i < j, u[i] = "writeResolv"
               PROVE  u[j] # "backupResolv"
    OBVIOUS
  <2>1. i - Len(s) \in DOMAIN q /\ q[i - Len(s)] = "writeResolv" /\ i > Len(s)
    BY <1>1, <1>6 DEF SetupSteps
  <2>2. j - Len(s) \in DOMAIN q /\ u[j] = q[j - Len(s)] /\ i - Len(s) < j - Len(s)
    BY <1>1, <1>6, <2>1
  <2> QED
    BY <2>1, <2>2 DEF Ordered
<1>4. ASSUME NEW i \in DOMAIN u, u[i] \in UndoSteps
      PROVE  \E j \in DOMAIN u : j > i /\ u[j] = "tunClose"
  <2>1. CASE i \in DOMAIN s /\ Ordered(s)
    <3>1. PICK j \in DOMAIN s : j > i /\ s[j] = "tunClose"
      BY <1>1, <1>4, <2>1 DEF Ordered
    <3> QED
      BY <1>1, <3>1
  <2>3. CASE i \in DOMAIN s /\ Reaches(q, "tunClose", {})
    <3>1. PICK j \in DOMAIN q : q[j] = "tunClose"
      BY <2>3 DEF Reaches
    <3>2. Len(s) + j \in DOMAIN u /\ Len(s) + j > i /\ u[Len(s) + j] = "tunClose"
      BY <1>1, <2>3, <3>1
    <3> QED
      BY <3>2
  <2>2. CASE i \notin DOMAIN s
    <3>1. i - Len(s) \in DOMAIN q /\ q[i - Len(s)] \in UndoSteps
      BY <1>4, <1>6, <2>2
    <3>2. PICK j \in DOMAIN q : j > i - Len(s) /\ q[j] = "tunClose"
      BY <3>1 DEF Ordered
    <3>3. Len(s) + j \in DOMAIN u /\ Len(s) + j > i /\ u[Len(s) + j] = "tunClose"
      BY <1>1, <3>1, <3>2
    <3> QED
      BY <3>3
  <2> QED
    BY <2>1, <2>2, <2>3
<1> QED
  BY <1>2, <1>3, <1>4, <1>5 DEF Ordered, u

\* Reaches on the two-element sequences the handlers are made of.
LEMMA ReachesTwo == \A a, b, x, Y : Reaches(<<a, b>>, x, Y) <=> a = x \/ (a \notin Y /\ b = x)
<1> SUFFICES ASSUME NEW a, NEW b, NEW x, NEW Y
             PROVE  Reaches(<<a, b>>, x, Y) <=> a = x \/ (a \notin Y /\ b = x)
  OBVIOUS
<1>1. DOMAIN <<a, b>> = {1, 2} /\ <<a, b>>[1] = a /\ <<a, b>>[2] = b
  OBVIOUS
<1>2. 1 .. 1 - 1 = {} /\ 1 .. 2 - 1 = {1}
  OBVIOUS
<1> QED
  BY <1>1, <1>2 DEF Reaches

\* The same for three, the teardown and the set-up of the routes.
LEMMA ReachesThree ==
    \A a, b, c, x, Y : Reaches(<<a, b, c>>, x, Y) <=>
        a = x \/ (a \notin Y /\ b = x) \/ (a \notin Y /\ b \notin Y /\ c = x)
<1> SUFFICES ASSUME NEW a, NEW b, NEW c, NEW x, NEW Y
             PROVE  Reaches(<<a, b, c>>, x, Y) <=>
                        a = x \/ (a \notin Y /\ b = x) \/ (a \notin Y /\ b \notin Y /\ c = x)
  OBVIOUS
<1>1. /\ DOMAIN <<a, b, c>> = {1, 2, 3}
      /\ <<a, b, c>>[1] = a /\ <<a, b, c>>[2] = b /\ <<a, b, c>>[3] = c
  OBVIOUS
<1>2. 1 .. 1 - 1 = {} /\ 1 .. 2 - 1 = {1} /\ 1 .. 3 - 1 = {1, 2}
  OBVIOUS
<1> QED
  BY <1>1, <1>2 DEF Reaches

\* The pieces of the handlers are sequences of steps.
LEMMA Pieces ==
    /\ RouteTeardown \in Seq(Steps) /\ StopSteps \in Seq(Steps) /\ ErrorSteps \in Seq(Steps)
    /\ RouteSetup \in Seq(Steps) /\ RouteSetup \o <<"startTun">> \in Seq(Steps)
    /\ \A x \in Steps : <<x>> \in Seq(Steps)
    /\ \A x, y \in Steps : <<x, y>> \in Seq(Steps)
    /\ \A x, y, z \in Steps : <<x, y, z>> \in Seq(Steps)
    /\ <<>> \in Seq(Steps)
<1>1. /\ \A x \in Steps : <<x>> \in Seq(Steps)
      /\ \A x, y \in Steps : <<x, y>> \in Seq(Steps)
      /\ \A x, y, z \in Steps : <<x, y, z>> \in Seq(Steps)
      /\ <<>> \in Seq(Steps)
  OBVIOUS
<1>2. {"restoreResolv", "delLow", "delHigh", "delServer", "tunClose", "tunReset", "reconnect",
       "wsClose", "iocStop", "addServer", "addLow", "addHigh", "backupResolv", "writeResolv",
       "startTun"} \subseteq Steps
  BY DEF Steps
<1>3. RouteTeardown \in Seq(Steps)
  BY <1>1, <1>2 DEF RouteTeardown
<1>4. StopSteps \in Seq(Steps)
  <2>1. (IF current = 0 THEN <<>> ELSE <<"wsClose">>) \in Seq(Steps)
    BY <1>1, <1>2
  <2> QED
    BY <1>1, <1>2, <1>3, <2>1, ConcatProperties DEF StopSteps
<1>5. ErrorSteps \in Seq(Steps)
  BY <1>1, <1>2, <1>3, ConcatProperties DEF ErrorSteps
<1>6. RouteSetup \in Seq(Steps) /\ RouteSetup \o <<"startTun">> \in Seq(Steps)
  <2>1. (IF gateway THEN <<"addServer", "addLow", "addHigh">> ELSE <<>>) \in Seq(Steps)
    BY <1>1, <1>2
  <2>2. RouteSetup \in Seq(Steps)
    BY <1>1, <1>2, <2>1, ConcatProperties DEF RouteSetup
  <2> QED
    BY <1>1, <1>2, <2>2, ConcatProperties
<1> QED
  BY <1>1, <1>3, <1>4, <1>5, <1>6

\* What comes up in the steps of a teardown.
LEMMA TeardownReaches ==
    \A x, Y : Reaches(RouteTeardown, x, Y) <=>
        /\ autoRoute
        /\ \/ x = "delLow"
           \/ x = "delHigh" /\ "delLow" \notin Y
           \/ x = "delServer" /\ "delLow" \notin Y /\ "delHigh" \notin Y
BY ReachesThree, ReachesEmpty DEF RouteTeardown

\* What stop() comes to, and before what: transport, loop, DNS, routes, device.
LEMMA StopReaches ==
    \A x, Y : Reaches(StopSteps, x, Y) <=>
        \/ x = "wsClose" /\ current # 0
        \/ /\ current = 0 \/ "wsClose" \notin Y
           /\ \/ x = "iocStop"
              \/ x = "restoreResolv" /\ "iocStop" \notin Y
              \/ /\ "iocStop" \notin Y /\ "restoreResolv" \notin Y
                 /\ \/ Reaches(RouteTeardown, x, Y)
                    \/ /\ autoRoute => Y \cap {"delLow", "delHigh", "delServer"} = {}
                       /\ x = "tunClose"
<1> DEFINE a == IF current = 0 THEN <<>> ELSE <<"wsClose">>
           b == <<"iocStop", "restoreResolv">>
           c == RouteTeardown
           d == <<"tunClose">>
<1>1. a \in Seq(Steps) /\ b \in Seq(Steps) /\ c \in Seq(Steps) /\ d \in Seq(Steps)
  <2>1. {"wsClose", "iocStop", "restoreResolv", "tunClose"} \subseteq Steps
    BY DEF Steps
  <2> QED
    BY Pieces, <2>1
<1>2. a \o b \in Seq(Steps) /\ (a \o b) \o c \in Seq(Steps)
  BY <1>1, ConcatProperties
<1>a. \A x, Y : Reaches(a, x, Y) <=> x = "wsClose" /\ current # 0
  BY ReachesOne, ReachesEmpty
<1>b. \A x, Y : Reaches(b, x, Y) <=> x = "iocStop" \/ (x = "restoreResolv" /\ "iocStop" \notin Y)
  BY ReachesTwo
<1>d. \A x, Y : Reaches(d, x, Y) <=> x = "tunClose"
  BY ReachesOne
<1>s. StopSteps = ((a \o b) \o c) \o d
  BY <1>1, ConcatAssociative DEF StopSteps
<1> HIDE DEF a, b, c, d
<1>3. \A x, Y : Reaches(a \o b, x, Y) <=>
          Reaches(a, x, Y) \/ ((\A y \in Y : ~Reaches(a, y, {})) /\ Reaches(b, x, Y))
  BY <1>1, ReachesConcat
<1>4. \A x, Y : Reaches((a \o b) \o c, x, Y) <=>
          Reaches(a \o b, x, Y) \/ ((\A y \in Y : ~Reaches(a \o b, y, {})) /\ Reaches(c, x, Y))
  BY <1>1, <1>2, ReachesConcat
<1>5. \A x, Y : Reaches(((a \o b) \o c) \o d, x, Y) <=>
          \/ Reaches((a \o b) \o c, x, Y)
          \/ (\A y \in Y : ~Reaches((a \o b) \o c, y, {})) /\ Reaches(d, x, Y)
  BY <1>1, <1>2, ReachesConcat
<1>6. \A Y : (\A y \in Y : ~Reaches(a, y, {})) <=> current = 0 \/ "wsClose" \notin Y
  BY <1>a
<1>7. \A Y : (\A y \in Y : ~Reaches(a \o b, y, {})) <=>
          (current = 0 \/ "wsClose" \notin Y) /\ "iocStop" \notin Y /\ "restoreResolv" \notin Y
  BY <1>3, <1>6, <1>a, <1>b
<1>c. \A Y : (\A y \in Y : ~Reaches(c, y, {})) <=>
          (autoRoute => Y \cap {"delLow", "delHigh", "delServer"} = {})
  BY TeardownReaches DEF c
<1>8. \A Y : (\A y \in Y : ~Reaches((a \o b) \o c, y, {})) <=>
          /\ current = 0 \/ "wsClose" \notin Y
          /\ "iocStop" \notin Y /\ "restoreResolv" \notin Y
          /\ autoRoute => Y \cap {"delLow", "delHigh", "delServer"} = {}
  BY <1>4, <1>7, <1>c
<1> QED
  BY <1>3, <1>4, <1>5, <1>6, <1>7, <1>8, <1>a, <1>b, <1>d, <1>s DEF c

\* The same for on_error: DNS, routes, device, reconnection.
LEMMA ErrorReaches ==
    \A x, Y : Reaches(ErrorSteps, x, Y) <=>
        \/ x = "restoreResolv"
        \/ /\ "restoreResolv" \notin Y
           /\ \/ Reaches(RouteTeardown, x, Y)
              \/ /\ autoRoute => Y \cap {"delLow", "delHigh", "delServer"} = {}
                 /\ \/ x = "tunClose"
                    \/ x = "tunReset" /\ "tunClose" \notin Y
                    \/ x = "reconnect" /\ "tunClose" \notin Y /\ "tunReset" \notin Y
<1> DEFINE a == <<"restoreResolv">>
           c == RouteTeardown
           d == <<"tunClose", "tunReset", "reconnect">>
<1>1. a \in Seq(Steps) /\ c \in Seq(Steps) /\ d \in Seq(Steps)
  <2>1. {"restoreResolv", "tunClose", "tunReset", "reconnect"} \subseteq Steps
    BY DEF Steps
  <2> QED
    BY Pieces, <2>1
<1>2. a \o c \in Seq(Steps)
  BY <1>1, ConcatProperties
<1>a. \A x, Y : Reaches(a, x, Y) <=> x = "restoreResolv"
  BY ReachesOne
<1>d. \A x, Y : Reaches(d, x, Y) <=>
          \/ x = "tunClose"
          \/ x = "tunReset" /\ "tunClose" \notin Y
          \/ x = "reconnect" /\ "tunClose" \notin Y /\ "tunReset" \notin Y
  BY ReachesThree
<1>s. ErrorSteps = (a \o c) \o d
  BY <1>1, ConcatAssociative DEF ErrorSteps
<1> HIDE DEF a, c, d
<1>3. \A x, Y : Reaches(a \o c, x, Y) <=>
          Reaches(a, x, Y) \/ ((\A y \in Y : ~Reaches(a, y, {})) /\ Reaches(c, x, Y))
  BY <1>1, ReachesConcat
<1>4. \A x, Y : Reaches((a \o c) \o d, x, Y) <=>
          Reaches(a \o c, x, Y) \/ ((\A y \in Y : ~Reaches(a \o c, y, {})) /\ Reaches(d, x, Y))
  BY <1>1, <1>2, ReachesConcat
<1>5. \A Y : (\A y \in Y : ~Reaches(a, y, {})) <=> "restoreResolv" \notin Y
  BY <1>a
<1>c. \A Y : (\A y \in Y : ~Reaches(c, y, {})) <=>
          (autoRoute => Y \cap {"delLow", "delHigh", "delServer"} = {})
  BY TeardownReaches DEF c
<1>6. \A Y : (\A y \in Y : ~Reaches(a \o c, y, {})) <=>
          "restoreResolv" \notin Y /\ (autoRoute => Y \cap {"delLow", "delHigh", "delServer"} = {})
  BY <1>3, <1>5, <1>a, <1>c
<1> QED
  BY <1>3, <1>4, <1>5, <1>6, <1>a, <1>d, <1>s DEF c

\* The set-up consists of set-up steps, the server's route before the halves.
LEMMA SetupReaches ==
    \A x, Y : Reaches(RouteSetup \o <<"startTun">>, x, Y) =>
        /\ x \in SetupSteps \ {"tunOpen"}
        /\ x \in {"addServer", "addLow", "addHigh"} => autoRoute /\ gateway
        /\ x \in {"addLow", "addHigh"} => "addServer" \notin Y
        /\ x = "writeResolv" => "backupResolv" \notin Y
<1> DEFINE a == IF gateway THEN <<"addServer", "addLow", "addHigh">> ELSE <<>>
           b == <<"backupResolv", "writeResolv">>
           d == <<"startTun">>
<1>1. a \in Seq(Steps) /\ b \in Seq(Steps) /\ d \in Seq(Steps) /\ RouteSetup \in Seq(Steps)
  <2>1. {"addServer", "addLow", "addHigh", "backupResolv", "writeResolv", "startTun"}
            \subseteq Steps
    BY DEF Steps
  <2> QED
    BY Pieces, <2>1
<1>a. \A x, Y : Reaches(a, x, Y) =>
          /\ x \in {"addServer", "addLow", "addHigh"} /\ gateway
          /\ x # "addServer" => "addServer" \notin Y
  BY ReachesThree, ReachesEmpty
<1>b. \A x, Y : Reaches(b, x, Y) => x \in {"backupResolv", "writeResolv"}
                                    /\ (x = "writeResolv" => "backupResolv" \notin Y)
  BY ReachesTwo
<1>d. \A x, Y : Reaches(d, x, Y) => x = "startTun"
  BY ReachesOne
<1>s. RouteSetup = IF ~autoRoute THEN <<>> ELSE a \o b
  BY DEF RouteSetup
<1> HIDE DEF a, b, d
<1>3. \A x, Y : Reaches(a \o b, x, Y) => Reaches(a, x, Y) \/ Reaches(b, x, Y)
  BY <1>1, ReachesConcat
<1>4. \A x, Y : Reaches(RouteSetup \o d, x, Y) => Reaches(RouteSetup, x, Y) \/ Reaches(d, x, Y)
  BY <1>1, ReachesConcat
<1>5. \A x, Y : Reaches(RouteSetup, x, Y) => autoRoute /\ (Reaches(a, x, Y) \/ Reaches(b, x, Y))
  BY <1>3, <1>s, ReachesEmpty
<1> QED
  BY <1>4, <1>5, <1>a, <1>b, <1>d DEF d, SetupSteps

\* A set-up with a gateway adds both halves of the address space.
LEMMA SetupAll ==
    autoRoute /\ gateway => /\ Reaches(RouteSetup \o <<"startTun">>, "addLow", {})
                            /\ Reaches(RouteSetup \o <<"startTun">>, "addHigh", {})
<1> DEFINE a == <<"addServer", "addLow", "addHigh">>
           b == <<"backupResolv", "writeResolv">>
           d == <<"startTun">>
<1> SUFFICES ASSUME autoRoute, gateway
             PROVE  \A x \in {"addLow", "addHigh"} : Reaches(RouteSetup \o d, x, {})
  OBVIOUS
<1>1. a \in Seq(Steps) /\ b \in Seq(Steps) /\ d \in Seq(Steps) /\ RouteSetup \in Seq(Steps)
  <2>1. {"addServer", "addLow", "addHigh", "backupResolv", "writeResolv", "startTun"}
            \subseteq Steps
    BY DEF Steps
  <2> QED
    BY Pieces, <2>1
<1>a. \A x \in {"addLow", "addHigh"} : Reaches(a, x, {})
  BY ReachesThree
<1>s. RouteSetup = a \o b
  BY DEF RouteSetup
<1> HIDE DEF a, b, d
<1> QED
  BY <1>1, <1>a, <1>s, ReachesConcat

----------------------------------------------------------------------------
(* Orders of steps.                                                        *)

\* stop() on top of any handler it interrupts is in order.
LEMMA OrderedStop ==
    ASSUME NEW q \in Seq(Steps), Ordered(q)
    PROVE  Ordered(StopSteps \o q)
<1> DEFINE a == IF current = 0 THEN <<>> ELSE <<"wsClose">>
           b == <<"iocStop", "restoreResolv">>
           c == RouteTeardown
           d == <<"tunClose">>
           s == (a \o b) \o c
<1>1. a \in Seq(Steps) /\ b \in Seq(Steps) /\ c \in Seq(Steps) /\ d \in Seq(Steps)
  <2>1. {"wsClose", "iocStop", "restoreResolv", "tunClose"} \subseteq Steps
    BY DEF Steps
  <2> QED
    BY Pieces, <2>1
<1>2. Ordered(d) /\ Reaches(d, "tunClose", {})
  BY OrderedOne, ReachesOne DEF UndoSteps
<1>s. StopSteps = s \o d /\ s \in Seq(Steps) /\ StopSteps \in Seq(Steps)
  BY <1>1, Pieces, ConcatProperties DEF StopSteps
<1> HIDE DEF a, b, c, d, s
<1>3. ASSUME NEW x, Reaches(StopSteps, x, {}) PROVE x \notin LastSteps \cup SetupSteps
  BY <1>3, StopReaches, TeardownReaches DEF LastSteps, SetupSteps
<1>4. \A i \in DOMAIN s : s[i] \notin LastSteps \cup SetupSteps
  <2> SUFFICES ASSUME NEW i \in DOMAIN s PROVE s[i] \notin LastSteps \cup SetupSteps
    OBVIOUS
  <2>1. Reaches(s, s[i], {})
    BY DEF Reaches
  <2>2. Reaches(s \o d, s[i], {})
    BY <1>1, <1>s, <2>1, ReachesConcat
  <2> QED
    BY <1>3, <1>s, <2>2
<1>5. Ordered(StopSteps)
  BY <1>1, <1>2, <1>4, <1>s, OrderedConcat
<1>6. \A i \in DOMAIN StopSteps : StopSteps[i] \notin LastSteps \cup SetupSteps
  BY <1>3 DEF Reaches
<1> QED
  BY <1>5, <1>6, <1>s, OrderedConcat

\* on_error's steps are in order.
LEMMA OrderedError == Ordered(ErrorSteps)
<1> DEFINE a == <<"restoreResolv">>
           c == RouteTeardown
           d == <<"tunClose", "tunReset", "reconnect">>
<1>1. a \in Seq(Steps) /\ c \in Seq(Steps) /\ d \in Seq(Steps)
  <2>1. {"restoreResolv", "tunClose", "tunReset", "reconnect"} \subseteq Steps
    BY DEF Steps
  <2> QED
    BY Pieces, <2>1
<1>2. \A i \in DOMAIN a : a[i] \notin LastSteps \cup SetupSteps
  BY DEF LastSteps, SetupSteps
<1>4. \A i \in DOMAIN c : c[i] \notin LastSteps \cup SetupSteps
  BY DEF RouteTeardown, LastSteps, SetupSteps
<1>5. Ordered(d)
  BY DEF Ordered, LastSteps, SetupSteps, UndoSteps
<1>7. Reaches(d, "tunClose", {})
  BY ReachesThree
<1>s. ErrorSteps = a \o (c \o d)
  BY <1>1, ConcatAssociative DEF ErrorSteps
<1> HIDE DEF a, c, d
<1>8. c \o d \in Seq(Steps) /\ Ordered(c \o d) /\ Reaches(c \o d, "tunClose", {})
  BY <1>1, <1>4, <1>5, <1>7, OrderedConcat, ReachesConcat, ConcatProperties
<1> QED
  BY <1>1, <1>2, <1>8, <1>s, OrderedConcat

\* So are those of the set-up.
LEMMA OrderedSetup == Ordered(RouteSetup \o <<"startTun">>)
<1>1. RouteSetup \o <<"startTun">> \in Seq(Steps)
  BY Pieces
<1> DEFINE u == RouteSetup \o <<"startTun">>
<1>2. \A i \in DOMAIN u : u[i] \in SetupSteps \ {"tunOpen"}
  <2> SUFFICES ASSUME NEW i \in DOMAIN u PROVE u[i] \in SetupSteps \ {"tunOpen"}
    OBVIOUS
  <2>1. Reaches(u, u[i], {})
    BY DEF Reaches
  <2> HIDE DEF u
  <2> QED
    BY <2>1, SetupReaches DEF u
<1>4. ASSUME NEW i \in DOMAIN u, NEW j \in DOMAIN u, i < j, u[i] = "writeResolv"
      PROVE  u[j] # "backupResolv"
  <2> DEFINE a == IF gateway THEN <<"addServer", "addLow", "addHigh">> ELSE <<>>
             b == <<"backupResolv", "writeResolv">>
             d == <<"startTun">>
  <2>1. a \in Seq(Steps) /\ b \in Seq(Steps) /\ d \in Seq(Steps)
    <3>1. {"addServer", "addLow", "addHigh", "backupResolv", "writeResolv", "startTun"}
              \subseteq Steps
      BY DEF Steps
    <3> QED
      BY Pieces, <3>1
  <2>2. Len(b) = 2 /\ Len(d) = 1 /\ DOMAIN b = {1, 2} /\ DOMAIN d = {1} /\ d[1] = "startTun"
        /\ b[1] = "backupResolv" /\ b[2] = "writeResolv"
    OBVIOUS
  <2>3. \A k \in DOMAIN a : a[k] \notin {"backupResolv", "writeResolv"}
    OBVIOUS
  <2>s. u = IF ~autoRoute THEN <<>> \o d ELSE (a \o b) \o d
    BY DEF RouteSetup
  <2> HIDE DEF a, b, d, u
  <2>4. CASE ~autoRoute
    <3>1. u = d
      BY <2>1, <2>4, <2>s, ConcatEmptySeq
    <3> QED
      BY <1>4, <2>2, <3>1
  <2>5. CASE autoRoute
    <3> DEFINE e == a \o b
    <3>1. /\ e \in Seq(Steps) /\ Len(a) \in Nat /\ Len(e) = Len(a) + 2
          /\ DOMAIN a = 1 .. Len(a) /\ DOMAIN e = 1 .. Len(a) + 2
          /\ \A k \in 1 .. Len(a) : e[k] = a[k]
          /\ \A k \in 1 .. 2 : e[Len(a) + k] = b[k]
      <4>1. /\ e \in Seq(Steps) /\ Len(e) = Len(a) + Len(b)
            /\ \A k \in 1 .. Len(a) : e[k] = a[k]
            /\ \A k \in 1 .. Len(b) : e[Len(a) + k] = b[k]
        BY <2>1, ConcatProperties
      <4>2. Len(a) \in Nat /\ DOMAIN a = 1 .. Len(a) /\ DOMAIN e = 1 .. Len(e)
        BY <2>1, <4>1
      <4> QED
        BY <2>2, <4>1, <4>2
    <3> HIDE DEF e
    <3>2. /\ DOMAIN u = 1 .. Len(a) + 3
          /\ \A k \in 1 .. Len(a) + 2 : u[k] = e[k]
          /\ \A k \in 1 .. 1 : u[(Len(a) + 2) + k] = d[k]
      <4>1. u = e \o d
        BY <2>5, <2>s DEF e
      <4>2. /\ Len(e \o d) = Len(e) + Len(d) /\ e \o d \in Seq(Steps)
            /\ \A k \in 1 .. Len(e) : (e \o d)[k] = e[k]
            /\ \A k \in 1 .. Len(d) : (e \o d)[Len(e) + k] = d[k]
        <5>1. e \in Seq(Steps) /\ d \in Seq(Steps)
          BY <2>1, <3>1
        <5> QED
          BY <5>1, ConcatProperties
      <4>3. Len(u) = Len(a) + 3 /\ DOMAIN u = 1 .. Len(u)
        BY <2>2, <3>1, <4>1, <4>2
      <4> QED
        BY <2>2, <3>1, <4>1, <4>2, <4>3
    <3>3. u[Len(a) + 1] = "backupResolv" /\ u[Len(a) + 3] = "startTun"
      BY <2>2, <3>1, <3>2
    <3>4. \A k \in 1 .. Len(a) : u[k] \notin {"backupResolv", "writeResolv"}
      BY <2>3, <3>1, <3>2
    <3>5. i \in Nat /\ j \in Nat /\ i <= Len(a) + 3 /\ j <= Len(a) + 3 /\ i > Len(a) /\ i # Len(a) + 1
      BY <1>4, <3>1, <3>2, <3>3, <3>4
    <3>6. j = Len(a) + 3
      BY <1>4, <3>1, <3>5
    <3> QED
      BY <3>3, <3>6
  <2> QED
    BY <2>4, <2>5
<1> HIDE DEF u
<1>3. Ordered(u)
  BY <1>2, <1>4 DEF Ordered, SetupSteps, LastSteps, UndoSteps
<1> QED
  BY <1>3 DEF u

\* What comes up once the step at hand is done.
LEMMA DoneReaches ==
    ASSUME TypeOK, todo # <<>>, Done
    PROVE  /\ todo' = Tail(todo) /\ todo' \in Seq(Steps)
           /\ \A x, Y : Reaches(todo, x, Y) <=>
                 Head(todo) = x \/ (Head(todo) \notin Y /\ Reaches(todo', x, Y))
           /\ Ordered(todo) => Ordered(todo')
<1>1. todo \in Seq(Steps)
  BY DEF TypeOK
<1>2. Tail(todo) \in Seq(Steps) /\ Head(todo) \in Steps
  BY <1>1, HeadTailProperties, EmptySeq
<1>3. todo' = Tail(todo)
  BY <1>2, ConcatEmptySeq DEF Done, Then
<1> QED
  BY <1>1, <1>2, <1>3, ReachesHead, OrderedTail

\* What comes up when steps are put before those that follow the step at hand.
LEMMA ThenReaches ==
    ASSUME TypeOK, todo # <<>>, NEW s \in Seq(Steps), Then(s)
    PROVE  /\ todo' \in Seq(Steps)
           /\ \A x, Y : Reaches(todo', x, Y) <=>
                 \/ Reaches(s, x, Y)
                 \/ (\A y \in Y : ~Reaches(s, y, {})) /\ Reaches(Tail(todo), x, Y)
           /\ Tail(todo) \in Seq(Steps)
           /\ \A x, Y : Reaches(todo, x, Y) <=>
                 Head(todo) = x \/ (Head(todo) \notin Y /\ Reaches(Tail(todo), x, Y))
           /\ Ordered(todo) => Ordered(Tail(todo))
<1>1. todo \in Seq(Steps)
  BY DEF TypeOK
<1>2. Tail(todo) \in Seq(Steps) /\ Head(todo) \in Steps
  BY <1>1, HeadTailProperties, EmptySeq
<1>3. todo' = s \o Tail(todo)
  BY DEF Then
<1> QED
  BY <1>1, <1>2, <1>3, ReachesHead, ReachesConcat, OrderedTail, ConcatProperties

\* What comes up when a signal arrives.
LEMMA SignalReaches ==
    ASSUME TypeOK, Signal
    PROVE  /\ todo' \in Seq(Steps)
           /\ main = "leaving" => todo' = todo
           /\ main # "leaving" =>
                 /\ todo' # <<>> /\ Head(todo') = "stop"
                 /\ \A x, Y : Reaches(todo', x, Y) <=>
                        x = "stop" \/ ("stop" \notin Y /\ Reaches(todo, x, Y))
           /\ Ordered(todo) => Ordered(todo')
<1>1. todo \in Seq(Steps) /\ <<"stop">> \in Seq(Steps)
  BY DEF TypeOK, Steps
<1>2. Ordered(<<"stop">>) /\ \A x, Y : Reaches(<<"stop">>, x, Y) <=> x = "stop"
  BY OrderedOne, ReachesOne DEF UndoSteps
<1>3. \A i \in DOMAIN <<"stop">> : <<"stop">>[i] \notin LastSteps \cup SetupSteps
  BY DEF LastSteps, SetupSteps
<1>4. CASE main = "leaving"
  BY <1>1, <1>4 DEF Signal
<1>5. CASE main # "leaving"
  <2>1. todo' = <<"stop">> \o todo
    BY <1>5 DEF Signal
  <2>2. todo' # <<>> /\ Head(todo') = "stop" /\ todo' \in Seq(Steps)
    BY <1>1, <2>1, ConcatProperties
  <2> DEFINE s == <<"stop">>
  <2>3. s \in Seq(Steps) /\ Ordered(s) /\ todo' = s \o todo
        /\ \A i \in DOMAIN s : s[i] \notin LastSteps \cup SetupSteps
    BY <1>1, <1>2, <1>3, <2>1
  <2>4. \A x, Y : Reaches(s, x, Y) <=> x = "stop"
    BY <1>2
  <2> HIDE DEF s
  <2>5. Ordered(todo) => Ordered(todo')
    BY <1>1, <2>3, OrderedConcat
  <2>6. \A x, Y : Reaches(todo', x, Y) <=> x = "stop" \/ ("stop" \notin Y /\ Reaches(todo, x, Y))
    BY <1>1, <2>3, <2>4, ReachesConcat
  <2> QED
    BY <1>5, <2>2, <2>5, <2>6
<1> QED
  BY <1>4, <1>5

\* stop() does nothing the second time; the first, its steps go before the interrupted
\* handler's.
LEMMA StopEffect ==
    ASSUME TypeOK, Stop
    PROVE  /\ todo' \in Seq(Steps)
           /\ Ordered(todo) => Ordered(todo')
           /\ \A x, Y : Reaches(todo, x, Y) <=>
                 x = "stop" \/ ("stop" \notin Y /\ Reaches(Tail(todo), x, Y))
           /\ ~running => todo' = Tail(todo)
           /\ running => \A x, Y : Reaches(todo', x, Y) <=>
                 \/ Reaches(StopSteps, x, Y)
                 \/ (\A y \in Y : ~Reaches(StopSteps, y, {})) /\ Reaches(Tail(todo), x, Y)
<1>1. todo # <<>> /\ Head(todo) = "stop"
  BY DEF Stop, Doing
<1>2. CASE ~running
  <2>1. Done
    BY <1>2 DEF Stop, Done
  <2>2. todo' = Tail(todo) /\ todo' \in Seq(Steps) /\ (Ordered(todo) => Ordered(todo'))
    BY <1>1, <2>1, DoneReaches
  <2>3. \A x, Y : Reaches(todo, x, Y) <=>
             x = "stop" \/ ("stop" \notin Y /\ Reaches(Tail(todo), x, Y))
    BY <1>1, ReachesHead DEF TypeOK
  <2> QED
    BY <1>2, <2>2, <2>3
<1>3. CASE running
  <2>1. Then(StopSteps)
    BY <1>3 DEF Stop
  <2>2. StopSteps \in Seq(Steps)
    BY Pieces
  <2>3. todo' = StopSteps \o Tail(todo)
    BY <2>1 DEF Then
  <2>4. Ordered(Tail(todo)) /\ Tail(todo) \in Seq(Steps) => Ordered(todo')
    BY <2>3, OrderedStop
  <2> HIDE DEF StopSteps
  <2> QED
    BY <1>1, <1>3, <2>1, <2>2, <2>4, ThenReaches
<1> QED
  BY <1>2, <1>3

\* So whatever was to come still comes, and what stop() brings does, too.
LEMMA StopComing ==
    ASSUME TypeOK, Stop, NEW x, x # "stop"
    PROVE  Coming(x)' <=> Coming(x) \/ (running /\ Reaches(StopSteps, x, {}))
<1>1. Reaches(todo, x, {}) <=> Reaches(Tail(todo), x, {})
  BY StopEffect
<1>2. CASE running
  <2>1. Reaches(todo', x, {}) <=>
             \/ Reaches(StopSteps, x, {})
             \/ (\A y \in {} : ~Reaches(StopSteps, y, {})) /\ Reaches(Tail(todo), x, {})
    BY <1>2, StopEffect
  <2> QED
    BY <1>1, <1>2, <2>1 DEF Coming
<1>3. CASE ~running
  <2>1. todo' = Tail(todo)
    BY <1>3, StopEffect
  <2> QED
    BY <1>1, <1>3, <2>1 DEF Coming
<1> QED
  BY <1>2, <1>3

\* Closing the transport changes nothing else of what comes up.
LEMMA WsCloseEffect ==
    ASSUME TypeOK, WsClose
    PROVE  /\ todo' \in Seq(Steps)
           /\ Ordered(todo) => Ordered(todo')
           /\ \A x, Y : x \notin {"wsClose", "wsClosing"} /\ "wsClose" \notin Y /\ "wsClosing" \notin Y =>
                 (Reaches(todo', x, Y) <=> Reaches(todo, x, Y))
<1>1. todo # <<>> /\ Head(todo) = "wsClose"
  BY DEF WsClose, Doing
<1> DEFINE s == IF stage[current] = "up" THEN <<"wsClosing">> ELSE <<>>
<1>2. Then(s)
  BY DEF WsClose
<1>3. s \in Seq(Steps)
  <2>1. <<"wsClosing">> \in Seq(Steps) /\ <<>> \in Seq(Steps)
    BY DEF Steps
  <2> QED
    BY <2>1
<1>4. \A x, Y : Reaches(s, x, Y) => x = "wsClosing"
  BY ReachesOne, ReachesEmpty
<1>5. Ordered(s) /\ \A i \in DOMAIN s : s[i] \notin LastSteps \cup SetupSteps
  <2>1. Ordered(<<"wsClosing">>)
    BY OrderedOne DEF UndoSteps
  <2> QED
    BY <2>1, OrderedEmpty DEF LastSteps, SetupSteps
<1> HIDE DEF s
<1>6. todo' = s \o Tail(todo)
  BY <1>2 DEF Then
<1>7. /\ todo' \in Seq(Steps) /\ Tail(todo) \in Seq(Steps)
      /\ Ordered(todo) => Ordered(Tail(todo))
  BY <1>1, <1>2, <1>3, ThenReaches
<1>8. Ordered(todo) => Ordered(todo')
  BY <1>3, <1>5, <1>6, <1>7, OrderedConcat
<1>9. ASSUME NEW x, NEW Y, x \notin {"wsClose", "wsClosing"}, "wsClose" \notin Y, "wsClosing" \notin Y
      PROVE  Reaches(todo', x, Y) <=> Reaches(todo, x, Y)
  <2>1. /\ Reaches(todo', x, Y) <=>
              \/ Reaches(s, x, Y)
              \/ (\A y \in Y : ~Reaches(s, y, {})) /\ Reaches(Tail(todo), x, Y)
        /\ Reaches(todo, x, Y) <=>
              Head(todo) = x \/ (Head(todo) \notin Y /\ Reaches(Tail(todo), x, Y))
    BY <1>1, <1>2, <1>3, ThenReaches
  <2>2. ~Reaches(s, x, Y) /\ \A y \in Y : ~Reaches(s, y, {})
    BY <1>4, <1>9
  <2> QED
    BY <1>1, <1>9, <2>1, <2>2
<1> QED
  BY <1>7, <1>8, <1>9

\* An error that is acted upon undoes the host's configuration; the handler ends with it.
LEMMA OnErrorEffect ==
    ASSUME TypeOK, Ordered(todo), OnError
    PROVE  /\ todo' \in Seq(Steps) /\ Ordered(todo')
           /\ Coming("onError")
           /\ Tail(todo) = <<>>
           /\ \A x, Y : Reaches(todo, x, Y) <=> x = "onError"
           /\ \A x, Y : Reaches(todo', x, Y) <=> connected /\ Reaches(ErrorSteps, x, Y)
<1>1. todo # <<>> /\ Head(todo) = "onError"
  BY DEF OnError, Doing
<1> DEFINE s == IF connected THEN ErrorSteps ELSE <<>>
<1>2. Then(s)
  BY DEF OnError
<1>3. s \in Seq(Steps) /\ Ordered(s)
  BY Pieces, OrderedError, OrderedEmpty
<1>4. \A x, Y : Reaches(s, x, Y) <=> connected /\ Reaches(ErrorSteps, x, Y)
  BY ReachesEmpty
<1>5. Tail(todo) = <<>>
  BY <1>1, OrderedHead DEF TypeOK, LastSteps
<1> HIDE DEF s
<1>6. todo' = s
  BY <1>2, <1>3, <1>5, ConcatEmptySeq DEF Then
<1>7. \A x, Y : Reaches(todo, x, Y) <=> Head(todo) = x \/ (Head(todo) \notin Y /\ Reaches(Tail(todo), x, Y))
  BY <1>1, ReachesHead DEF TypeOK
<1>8. \A x, Y : Reaches(todo, x, Y) <=> x = "onError"
  BY <1>1, <1>5, <1>7, ReachesEmpty
<1> QED
  BY <1>3, <1>4, <1>5, <1>6, <1>8 DEF Coming

\* Opening the device is the last step of the handler, which goes on with the set-up or
\* with stop().
LEMMA TunOpenEffect ==
    ASSUME TypeOK, Ordered(todo), TunOpen
    PROVE  /\ todo' \in Seq(Steps) /\ Ordered(todo')
           /\ \A x, Y : Reaches(todo, x, Y) <=> x = "tunOpen"
           /\ \/ /\ tun' = "open"
                 /\ todo' = RouteSetup \o <<"startTun">>
                 /\ Head(todo') \in SetupSteps
              \/ /\ tun' = "closed" /\ todo' = <<"stop">>
                 /\ \A x, Y : Reaches(todo', x, Y) <=> x = "stop"
<1>1. todo # <<>> /\ Head(todo) = "tunOpen"
  BY DEF TunOpen, Doing
<1>5. Tail(todo) = <<>>
  BY <1>1, OrderedHead DEF TypeOK, LastSteps
<1>7. \A x, Y : Reaches(todo, x, Y) <=> Head(todo) = x \/ (Head(todo) \notin Y /\ Reaches(Tail(todo), x, Y))
  BY <1>1, ReachesHead DEF TypeOK
<1>8. \A x, Y : Reaches(todo, x, Y) <=> x = "tunOpen"
  BY <1>1, <1>5, <1>7, ReachesEmpty
<1>2. ASSUME tun' = "open", Then(RouteSetup \o <<"startTun">>)
      PROVE  /\ todo' \in Seq(Steps) /\ Ordered(todo') /\ todo' = RouteSetup \o <<"startTun">>
             /\ Head(todo') \in SetupSteps
  <2> DEFINE s == RouteSetup \o <<"startTun">>
  <2>1. s \in Seq(Steps) /\ Ordered(s) /\ Then(s)
    BY <1>2, Pieces, OrderedSetup
  <2>4. s # <<>> /\ Head(s) \in SetupSteps
    <3>1. Len(s) >= 1 /\ 1 \in DOMAIN s
      <4>1. RouteSetup \in Seq(Steps) /\ <<"startTun">> \in Seq(Steps) /\ Len(<<"startTun">>) = 1
        BY Pieces DEF Steps
      <4>2. Len(s) = Len(RouteSetup) + 1 /\ Len(RouteSetup) \in Nat
        BY <4>1, ConcatProperties
      <4> QED
        BY <2>1, <4>2, ConcatProperties
    <3>2. Reaches(s, s[1], {})
      BY <3>1 DEF Reaches
    <3>3. \A x : Reaches(s, x, {}) => x \in SetupSteps
      BY SetupReaches
    <3> HIDE DEF s
    <3> QED
      BY <2>1, <3>1, <3>2, <3>3
  <2> HIDE DEF s
  <2>2. todo' = s
    BY <1>5, <2>1, ConcatEmptySeq DEF Then
  <2> QED
    BY <2>1, <2>2, <2>4 DEF s
<1>3. ASSUME tun' = "closed", todo' = <<"stop">>
      PROVE  /\ todo' \in Seq(Steps) /\ Ordered(todo')
             /\ \A x, Y : Reaches(todo', x, Y) <=> x = "stop"
  BY <1>3, OrderedOne, ReachesOne DEF Steps, UndoSteps
<1> QED
  BY <1>2, <1>3, <1>8 DEF TunOpen

\* Opening the device is followed by the set-up, or by stop() if it fails.
LEMMA TunOpenComing ==
    ASSUME TypeOK, Ordered(todo), TunOpen, NEW x, NEW Y, Reaches(todo', x, Y)
    PROVE  \/ /\ tun' = "open"
              /\ x \in SetupSteps \ {"tunOpen"}
              /\ x \in {"addServer", "addLow", "addHigh"} => autoRoute /\ gateway
              /\ x \in {"addLow", "addHigh"} => "addServer" \notin Y
              /\ x = "writeResolv" => "backupResolv" \notin Y
           \/ tun' = "closed" /\ x = "stop"
<1>1. CASE tun' = "open" /\ todo' = RouteSetup \o <<"startTun">>
  <2>1. Reaches(RouteSetup \o <<"startTun">>, x, Y)
    BY <1>1
  <2> QED
    BY <1>1, <2>1, SetupReaches
<1>2. CASE tun' = "closed" /\ todo' = <<"stop">>
  BY <1>2, ReachesOne
<1> QED
  BY <1>1, <1>2, TunOpenEffect

----------------------------------------------------------------------------
(* The invariant is preserved, conjunct by conjunct.                       *)

\* Steps of the main thread that only go on to the next one.
DoneStep ==
    \/ WsCloseReturns \/ IocStop \/ HostStep \/ TunClose
    \/ TunReset \/ Reconnect \/ AddServer \/ StartTun

\* A step that calls nothing is taken off, and the rest is left.
LEMMA DoneEffect ==
    ASSUME TypeOK, DoneStep
    PROVE  /\ todo # <<>> /\ todo' = Tail(todo) /\ todo' \in Seq(Steps)
           /\ \A x, Y : Reaches(todo, x, Y) <=>
                 Head(todo) = x \/ (Head(todo) \notin Y /\ Reaches(todo', x, Y))
           /\ Ordered(todo) => Ordered(todo')
<1>1. todo # <<>> /\ Done
  BY DEF DoneStep, WsCloseReturns, IocStop, HostStep, TunClose, TunReset, Reconnect, AddServer,
         StartTun, Doing
<1> QED
  BY <1>1, DoneReaches

\* Every step leaves the main thread's steps in order.
LEMMA TodoStep ==
    ASSUME TypeOK, Ordered(todo), [Next]_vars
    PROVE  todo' \in Seq(Steps) /\ Ordered(todo')
<1>a. \A x \in {"stop", "onError", "tunOpen"} : <<x>> \in Seq(Steps) /\ Ordered(<<x>>)
  <2>1. {"stop", "onError", "tunOpen"} \subseteq Steps
        /\ {"stop", "onError", "tunOpen"} \cap UndoSteps = {}
    BY DEF Steps, UndoSteps
  <2>2. \A x \in {"stop", "onError", "tunOpen"} : <<x>> \in Seq(Steps)
    BY <2>1, Pieces
  <2>3. \A x \in {"stop", "onError", "tunOpen"} : Ordered(<<x>>)
    BY <2>1, OrderedOne
  <2> QED
    BY <2>2, <2>3
<1>b. todo \in Seq(Steps) /\ <<>> \in Seq(Steps) /\ Ordered(<<>>)
  BY OrderedEmpty DEF TypeOK
<1>1. ASSUME RunBegins \/ RunConnects \/ Exit \/ TimerFires
             \/ (\E g \in Transports : Opens(g) \/ Writes(g))
             \/ TunCheck \/ TunUse \/ TunSend \/ TunCrash \/ Kill
      PROVE  todo' = todo
  BY <1>1 DEF RunBegins, RunConnects, Exit, TimerFires, Opens, Writes, TunCheck, TunUse, TunSend,
              TunCrash, Kill
<1>2. ASSUME LeavesLoop \/ (\E g \in Transports : Fails(g) \/ AuthResponse(g))
      PROVE  \E x \in {"stop", "onError", "tunOpen"} : todo' = <<x>>
  BY <1>2 DEF LeavesLoop, Fails, AuthResponse
<1>3. ASSUME Restart PROVE todo' = <<>>
  BY <1>3 DEF Restart
<1>4. ASSUME UNCHANGED vars PROVE todo' = todo
  BY <1>4 DEF vars
<1>5. CASE Stop
  BY <1>5, StopEffect
<1>6. CASE WsClose
  BY <1>6, WsCloseEffect
<1>7. CASE OnError
  BY <1>7, OnErrorEffect
<1>8. CASE TunOpen
  BY <1>8, TunOpenEffect
<1>9. CASE DoneStep
  BY <1>9, DoneEffect
<1>10. CASE Signal
  BY <1>10, SignalReaches
<1> QED
  BY <1>a, <1>b, <1>1, <1>2, <1>3, <1>4, <1>5, <1>6, <1>7, <1>8, <1>9, <1>10
     DEF Next, MainStep, DoneStep

\* Types hold in the beginning.
LEMMA TypeInit == Init => TypeOK
<1> SUFFICES ASSUME Init PROVE TypeOK
  OBVIOUS
<1>1. Ws!TransportTypeOK
  BY BoundAssumption DEF Init, Ws!TransportInit, Ws!TransportTypeOK, Transports
<1>2. Host!HostTypeOK
  BY DEF Init, Host!HostInit, Host!HostTypeOK
<1>3. todo \in Seq(Steps)
  BY DEF Init
<1>4. {running, connected, shutdown, iocStopped, closing} \subseteq BOOLEAN
      /\ {unexcluded, interrupted, stray} \subseteq BOOLEAN
  BY DEF Init
<1>5. current \in 0 .. MaxTransports /\ attempt \in Nat /\ timer \in 0 .. MaxDelay
      /\ tunThreads \in [ThreadPoints -> Nat] /\ kills \in 0 .. MaxKills
  BY BoundAssumption DEF Init, ThreadPoints, MaxDelay
<1> QED
  BY <1>1, <1>2, <1>3, <1>4, <1>5 DEF Init, TypeOK

\* The timer is set to a second, as the attempts have been counted from 0 again.
LEMMA DelayOne == Delay(0 + 1) = 1 /\ Delay(1) = 1
<1>1. 2 ^ 0 = 1
  OBVIOUS
<1>2. AtMost(1 - 1, 5) = 0 /\ AtMost((0 + 1) - 1, 5) = 0
  BY DEF AtMost
<1> QED
  BY <1>1, <1>2 DEF Delay, AtMost, MaxDelay

\* schedule_reconnect finds no attempt counted and starts at most one timer.
LEMMA ReconnectEffect ==
    ASSUME TypeOK, Attempts, Reconnect
    PROVE  /\ attempt = 0 /\ timer = 0
           /\ timer' \in {0, 1} /\ attempt' \in Nat
           /\ \A g \in Transports : stage[g] # "connecting"
<1>1. Coming("reconnect")
  BY ReachesHead DEF TypeOK, Reconnect, Doing, Coming
<1>2. attempt = 0 /\ timer = 0 /\ \A g \in Transports : stage[g] # "connecting"
  BY <1>1 DEF Attempts
<1> QED
  BY <1>2, DelayOne DEF Reconnect

\* Every step keeps the types of the transports; no frame is taken from an empty queue.
LEMMA TransportTypeStep ==
    ASSUME TypeOK, Transported, [Next]_vars
    PROVE  Ws!TransportTypeOK'
<1> USE BoundAssumption DEF Ws!TransportTypeOK, TypeOK
<1>1. ASSUME NEW g \in Transports, Ws!ConnectFails(g) \/ Ws!OnWriteError(g) \/ Ws!OnReadError(g)
                                      \/ Ws!OnAuthResponse(g)
      PROVE  Ws!TransportTypeOK'
  BY <1>1 DEF Ws!ConnectFails, Ws!OnWriteError, Ws!OnReadError, Ws!OnAuthResponse
<1>2. ASSUME NEW g \in Transports, Ws!Opens(g) PROVE Ws!TransportTypeOK'
  <2>1. queued[g] = 0
    BY <1>2 DEF Transported, Ws!Opens
  <2> QED
    BY <1>2, <2>1 DEF Ws!Opens
<1>3. ASSUME NEW g \in Transports, Ws!RunPosted(g) \/ Ws!OnWriteOk(g) PROVE Ws!TransportTypeOK'
  <2>1. Ws!DoWrite(g) => /\ queued' \in [Transports -> 0 .. MaxSends]
                         /\ writer' \in [Transports -> {"idle", "posted", "writing", "stuck"}]
    <3>1. queued \in [Transports -> 0 .. MaxSends] /\ queued[g] \in 0 .. MaxSends
          /\ writer \in [Transports -> {"idle", "posted", "writing", "stuck"}]
      OBVIOUS
    <3>2. CASE queued[g] = 0
      BY <3>1, <3>2 DEF Ws!DoWrite
    <3>3. CASE queued[g] # 0
      <4> HIDE DEF Ws!TransportTypeOK, TypeOK
      <4>1. queued[g] - 1 \in 0 .. MaxSends
        BY <3>1, <3>3
      <4>2. Ws!DoWrite(g) => /\ queued' = [queued EXCEPT ![g] = queued[g] - 1]
                             /\ writer' = [writer EXCEPT ![g] = "writing"]
        BY <3>3 DEF Ws!DoWrite
      <4> QED
        BY <3>1, <4>1, <4>2
    <3> QED
      BY <3>2, <3>3
  <2>2. auth' \in [Transports -> {"none", "sent", "answered"}]
    BY <1>3 DEF Ws!RunPosted, Ws!OnWriteOk
  <2> QED
    BY <1>3, <2>1, <2>2 DEF Ws!RunPosted, Ws!OnWriteOk
<1>4. ASSUME NEW g \in Transports, Ws!Push(g) PROVE Ws!TransportTypeOK'
  BY <1>4 DEF Ws!Push
<1>5. ASSUME NEW g, Ws!Connect(g) PROVE Ws!TransportTypeOK'
  BY <1>5 DEF Ws!Connect
<1>6. ASSUME TunSend PROVE Ws!TransportTypeOK'
  <2>1. current \in Transports
    BY <1>6 DEF TunSend, Transported
  <2> QED
    BY <1>4, <1>6, <2>1 DEF TunSend, transportVars
<1>7. ASSUME Restart PROVE Ws!TransportTypeOK'
  BY <1>7 DEF Restart
<1>8. ASSUME UNCHANGED transportVars PROVE Ws!TransportTypeOK'
  BY <1>8 DEF transportVars
<1>9. ASSUME RunBegins \/ LeavesLoop \/ Exit \/ Stop \/ WsClose \/ DoneStep \/ OnError
             \/ TunOpen \/ Signal \/ TunCheck \/ TunUse \/ TunCrash \/ Kill \/ UNCHANGED vars
      PROVE  UNCHANGED transportVars
  BY <1>9 DEF RunBegins, LeavesLoop, Exit, Stop, WsClose, DoneStep, OnError, TunOpen, Signal,
              TunCheck, TunUse, TunCrash, Kill, vars, WsCloseReturns, IocStop, HostStep,
              TunClose, TunReset, Reconnect, AddServer, StartTun
<1>10. CASE RunConnects \/ TimerFires
  BY <1>5, <1>10 DEF RunConnects, TimerFires
<1>11. CASE \E g \in Transports : Opens(g) \/ Writes(g) \/ Fails(g) \/ AuthResponse(g)
  BY <1>1, <1>2, <1>3, <1>11 DEF Opens, Writes, Fails, AuthResponse
<1> HIDE DEF Ws!TransportTypeOK, TypeOK
<1> QED
  BY <1>6, <1>7, <1>8, <1>9, <1>10, <1>11 DEF Next, MainStep, DoneStep

\* Every step keeps the types of the host.
LEMMA HostTypeStep ==
    ASSUME TypeOK, [Next]_vars
    PROVE  Host!HostTypeOK'
<1> USE DEF Host!HostTypeOK, Host!HalfRoutes, TypeOK
<1>1. ASSUME Host!DeviceGone PROVE Host!HostTypeOK'
  BY <1>1 DEF Host!DeviceGone
<1>2. ASSUME UNCHANGED hostVars PROVE Host!HostTypeOK'
  BY <1>2 DEF hostVars
<1>3. ASSUME HostStep PROVE Host!HostTypeOK'
  BY <1>2, <1>3 DEF HostStep, Host!RestoreResolv, Host!DeleteRoute, Host!AddRoute,
                    Host!BackupResolv, Host!WriteResolv
<1>4. ASSUME AddServer PROVE Host!HostTypeOK'
  BY <1>2, <1>4 DEF AddServer, Host!AddRoute
<1>5. ASSUME Exit \/ TunClose \/ TunOpen \/ TunCrash \/ Kill
      PROVE  Host!DeviceGone \/ UNCHANGED hostVars
  BY <1>5 DEF Exit, TunClose, TunOpen, TunCrash, Kill, hostVars
<1>6. ASSUME \/ RunBegins \/ RunConnects \/ LeavesLoop \/ Stop \/ WsClose \/ WsCloseReturns
             \/ IocStop \/ OnError \/ TunReset \/ Reconnect \/ StartTun \/ Signal \/ TimerFires
             \/ TunCheck \/ TunUse \/ TunSend \/ Restart \/ UNCHANGED vars
             \/ \E g \in Transports : Opens(g) \/ Writes(g) \/ Fails(g) \/ AuthResponse(g)
      PROVE  UNCHANGED hostVars
  BY <1>6 DEF RunBegins, RunConnects, LeavesLoop, Stop, WsClose, WsCloseReturns, IocStop,
              OnError, TunReset, Reconnect, StartTun, Signal, TimerFires, TunCheck, TunUse,
              TunSend, Restart, vars, Opens, Writes, Fails, AuthResponse
<1> HIDE DEF Host!HostTypeOK, Host!HalfRoutes, TypeOK
<1> QED
  BY <1>1, <1>2, <1>3, <1>4, <1>5, <1>6 DEF Next, MainStep

\* No TUN thread leaves a point it is not at.
LEMMA ThreadTypeStep ==
    ASSUME TypeOK, [Next]_vars
    PROVE  tunThreads' \in [ThreadPoints -> Nat]
<1>1. tunThreads \in [ThreadPoints -> Nat] /\ ThreadPoints = {"check", "use", "send"}
  BY DEF TypeOK, ThreadPoints
<1>2. ASSUME NEW p \in ThreadPoints, NEW q \in ThreadPoints, p # q, tunThreads[p] > 0, Move(p, q)
      PROVE  tunThreads' \in [ThreadPoints -> Nat]
  BY <1>1, <1>2 DEF Move
<1>3. CASE StartTun \/ TunCheck \/ TunUse \/ TunSend
  BY <1>1, <1>2, <1>3 DEF StartTun, TunCheck, TunUse, TunSend
<1>4. CASE Restart
  BY <1>4 DEF Restart
<1>5. ASSUME ~(StartTun \/ TunCheck \/ TunUse \/ TunSend \/ Restart)
      PROVE  UNCHANGED tunThreads
  BY <1>5 DEF Next, MainStep, vars, RunBegins, RunConnects, LeavesLoop, Exit, Stop, WsClose,
      IocStop, HostStep, TunClose, OnError, TunReset, Reconnect, TunOpen, AddServer,
      WsCloseReturns, Signal, TimerFires, Opens, Writes, Fails, AuthResponse, TunCrash, Kill
<1> QED
  BY <1>1, <1>3, <1>4, <1>5

\* Every step keeps the types.
LEMMA TypeStep ==
    ASSUME TypeOK, Transported, Attempts, Ordered(todo), [Next]_vars
    PROVE  TypeOK'
<1>1. Ws!TransportTypeOK' /\ Host!HostTypeOK' /\ todo' \in Seq(Steps)
      /\ tunThreads' \in [ThreadPoints -> Nat]
  BY TransportTypeStep, HostTypeStep, TodoStep, ThreadTypeStep
<1>2. autoRoute' \in BOOLEAN /\ gateway' \in BOOLEAN
  BY DEF TypeOK, Next, MainStep, vars, rigid, RunBegins, RunConnects, LeavesLoop, Exit, Stop,
      WsClose, IocStop, HostStep, TunClose, OnError, TunReset, Reconnect, TunOpen, AddServer,
      StartTun, WsCloseReturns, Signal, TimerFires, Opens, Writes, Fails, AuthResponse, TunCheck,
      TunUse, TunSend, TunCrash, Kill, Restart
<1>3. main' \in {"starting", "resolving", "loop", "leaving", "exited", "crashed", "killed"}
  BY DEF TypeOK, Next, MainStep, vars, RunBegins, RunConnects, LeavesLoop, Exit, Stop,
      WsClose, IocStop, HostStep, TunClose, OnError, TunReset, Reconnect, TunOpen, AddServer,
      StartTun, WsCloseReturns, Signal, TimerFires, Opens, Writes, Fails, AuthResponse, TunCheck,
      TunUse, TunSend, TunCrash, Kill, Restart
<1>4. {running', connected', shutdown', iocStopped', closing'} \subseteq BOOLEAN
  BY DEF TypeOK, Next, MainStep, vars, flags, RunBegins, RunConnects, LeavesLoop, Exit, Stop,
      WsClose, IocStop, HostStep, TunClose, OnError, TunReset, Reconnect, TunOpen, AddServer,
      StartTun, WsCloseReturns, Signal, TimerFires, Opens, Writes, Fails, AuthResponse, TunCheck,
      TunUse, TunSend, TunCrash, Kill, Restart
<1>5. current' \in 0 .. MaxTransports
  BY BoundAssumption
     DEF TypeOK, Next, MainStep, vars, reconnection, RunBegins, RunConnects, LeavesLoop, Exit,
      Stop, WsClose, IocStop, HostStep, TunClose, OnError, TunReset, Reconnect, TunOpen,
      AddServer, StartTun, WsCloseReturns, Signal, TimerFires, Opens, Writes, Fails,
      AuthResponse, TunCheck, TunUse, TunSend, TunCrash, Kill, Restart
<1>6. attempt' \in Nat /\ timer' \in 0 .. MaxDelay
  <2>1. ASSUME Reconnect PROVE attempt' \in Nat
    BY <2>1, ReconnectEffect
  <2>2. ASSUME ~Reconnect PROVE attempt' \in Nat
    BY <2>2 DEF TypeOK, MaxDelay, Next, MainStep, vars, reconnection, RunBegins, RunConnects,
      LeavesLoop, Exit, Stop, WsClose, IocStop, HostStep, TunClose, OnError, TunReset, TunOpen,
      AddServer, StartTun, WsCloseReturns, Signal, TimerFires, Opens, Writes, Fails,
      AuthResponse, TunCheck, TunUse, TunSend, TunCrash, Kill, Restart
  <2>3. ASSUME ~Reconnect PROVE timer' = timer \/ timer' = 0
    BY <2>3 DEF Next, MainStep, vars, reconnection, RunBegins, RunConnects,
      LeavesLoop, Exit, Stop, WsClose, IocStop, HostStep, TunClose, OnError, TunReset, TunOpen,
      AddServer, StartTun, WsCloseReturns, Signal, TimerFires, Opens, Writes, Fails,
      AuthResponse, TunCheck, TunUse, TunSend, TunCrash, Kill, Restart
  <2>4. timer \in 0 .. MaxDelay /\ MaxDelay = 60
    BY DEF TypeOK, MaxDelay
  <2>5. timer' \in 0 .. MaxDelay
    BY <2>3, <2>4, ReconnectEffect
  <2>6. attempt' \in Nat
    BY <2>1, <2>2
  <2> QED
    BY <2>5, <2>6
<1>7. tun' \in {"null", "open", "closed"}
  BY DEF TypeOK, Next, MainStep, vars, RunBegins, RunConnects, LeavesLoop, Exit, Stop,
      WsClose, IocStop, HostStep, TunClose, OnError, TunReset, Reconnect, TunOpen, AddServer,
      StartTun, WsCloseReturns, Signal, TimerFires, Opens, Writes, Fails, AuthResponse, TunCheck,
      TunUse, TunSend, TunCrash, Kill, Restart
<1>8. kills' \in 0 .. MaxKills
  BY BoundAssumption
     DEF TypeOK, Next, MainStep, vars, history, RunBegins, RunConnects, LeavesLoop, Exit, Stop,
      WsClose, IocStop, HostStep, TunClose, OnError, TunReset, Reconnect, TunOpen, AddServer,
      StartTun, WsCloseReturns, Signal, TimerFires, Opens, Writes, Fails, AuthResponse, TunCheck,
      TunUse, TunSend, TunCrash, Kill, Restart
<1>9. unexcluded' \in BOOLEAN
  BY DEF TypeOK, Next, MainStep, vars, history, RunBegins, RunConnects, LeavesLoop, Exit, Stop,
      WsClose, IocStop, HostStep, TunClose, OnError, TunReset, Reconnect, TunOpen, AddServer,
      StartTun, WsCloseReturns, Signal, TimerFires, Opens, Writes, Fails, AuthResponse, TunCheck,
      TunUse, TunSend, TunCrash, Kill, Restart
<1>10. interrupted' \in BOOLEAN
  BY DEF TypeOK, Next, MainStep, vars, history, RunBegins, RunConnects, LeavesLoop, Exit, Stop,
      WsClose, IocStop, HostStep, TunClose, OnError, TunReset, Reconnect, TunOpen, AddServer,
      StartTun, WsCloseReturns, Signal, TimerFires, Opens, Writes, Fails, AuthResponse, TunCheck,
      TunUse, TunSend, TunCrash, Kill, Restart
<1>11. stray' \in BOOLEAN
  BY DEF TypeOK, Next, MainStep, vars, history, RunBegins, RunConnects, LeavesLoop, Exit, Stop,
      WsClose, IocStop, HostStep, TunClose, OnError, TunReset, Reconnect, TunOpen, AddServer,
      StartTun, WsCloseReturns, Signal, TimerFires, Opens, Writes, Fails, AuthResponse, TunCheck,
      TunUse, TunSend, TunCrash, Kill, Restart
<1> QED
  BY <1>1, <1>2, <1>3, <1>4, <1>5, <1>6, <1>7, <1>8, <1>9, <1>10, <1>11 DEF TypeOK

\* The step at hand is ahead.
LEMMA DoingComes ==
    ASSUME TypeOK, NEW x, Doing(x)
    PROVE  Coming(x) /\ todo # <<>> /\ Head(todo) = x
BY ReachesHead DEF TypeOK, Doing, Coming

\* No transport has done anything in the beginning.
LEMMA TransportedInit == Init => Transported
BY DEF Init, Transported, Ws!TransportInit, ThreadPoints, Transports

\* Every step keeps transports one after the other.
LEMMA TransportedStep ==
    ASSUME TypeOK, Transported, Attempts, Flow, [Next]_vars
    PROVE  Transported'
<1> USE BoundAssumption
<1>t. /\ stage \in [Transports -> {"none", "connecting", "up", "failed"}]
      /\ reading \in [Transports -> BOOLEAN]
      /\ writer \in [Transports -> {"idle", "posted", "writing", "stuck"}]
      /\ queued \in [Transports -> 0 .. MaxSends]
      /\ auth \in [Transports -> {"none", "sent", "answered"}]
      /\ tunThreads \in [ThreadPoints -> Nat] /\ ThreadPoints = {"check", "use", "send"}
      /\ current \in 0 .. MaxTransports
      /\ Transports = 1 .. MaxTransports
  BY DEF TypeOK, Ws!TransportTypeOK, ThreadPoints, Transports
<1>1. CASE RunBegins
  BY <1>1 DEF RunBegins, Transported, transportVars, reconnection
<1>2. CASE RunConnects
  <2>1. current = 0 /\ tunThreads["send"] = 0 /\ \A g \in Transports : stage[g] = "none"
    BY <1>2, <1>t DEF RunConnects, Transported
  <2> QED
    BY <1>2, <1>t, <2>1 DEF RunConnects, Transported, Ws!Connect
<1>3. CASE \/ LeavesLoop \/ Exit \/ Stop \/ WsClose \/ WsCloseReturns \/ IocStop \/ HostStep
           \/ AddServer \/ Signal \/ TunCrash \/ Kill \/ UNCHANGED vars
  <2>1. UNCHANGED <<stage, reading, writer, queued, auth, current, timer, connected, tun, tunThreads>>
    BY <1>3 DEF LeavesLoop, Exit, Stop, WsClose, WsCloseReturns, IocStop, HostStep, AddServer,
                Signal, TunCrash, Kill, vars, transportVars, reconnection, flags
  <2>2. main' = main \/ main' \in {"exited", "crashed", "killed"} \/ (main = "loop" /\ main' = "leaving")
    BY <1>3 DEF LeavesLoop, Exit, Stop, WsClose, WsCloseReturns, IocStop, HostStep, AddServer,
                Signal, TunCrash, Kill, vars
  <2> QED
    BY <2>1, <2>2 DEF Transported
<1>4. CASE TunClose \/ TunReset
  BY <1>4 DEF TunClose, TunReset, Transported, transportVars, reconnection, flags
<1>5. CASE Reconnect \/ StartTun \/ TunOpen \/ OnError
  <2>1. main \notin {"starting", "resolving"}
    BY <1>5, DoingComes DEF Reconnect, StartTun, TunOpen, OnError, Flow, SetupSteps, LastSteps
  <2>2. UNCHANGED <<stage, reading, writer, queued, auth, current, main>>
        /\ tunThreads'["send"] = tunThreads["send"]
    BY <1>5, <1>t DEF Reconnect, StartTun, TunOpen, OnError, transportVars, reconnection
  <2> QED
    BY <2>1, <2>2 DEF Transported
<1>6. CASE TimerFires
  <2>1. main = "loop" /\ timer > 0 /\ tunThreads["send"] = 0 /\ current + 1 \in Transports
    BY <1>6, <1>t DEF TimerFires, TakesHandler
  <2>2. \A g \in Transports : stage[g] # "connecting"
    BY <2>1 DEF Attempts
  <2>3. stage' = [stage EXCEPT ![current + 1] = "connecting"] /\ current' = current + 1
        /\ UNCHANGED <<reading, writer, queued, auth, main, tunThreads>>
    BY <1>6 DEF TimerFires, Ws!Connect
  <2>4. stage[current + 1] = "none"
    BY <1>t, <2>1 DEF Transported
  <2> QED
    BY <1>t, <2>1, <2>2, <2>3, <2>4 DEF Transported
<1>7. ASSUME NEW g \in Transports, Opens(g) PROVE Transported'
  <2>1. main = "loop" /\ g = current /\ writer[g] = "idle"
    BY <1>7 DEF Opens, TakesHandler, Ws!Opens, Transported
  <2> QED
    BY <1>7, <1>t, <2>1 DEF Opens, Ws!Opens, Transported
<1>8. ASSUME NEW g \in Transports, Writes(g) PROVE Transported'
  <2>1. stage[g] \notin {"none", "connecting"} /\ main = "loop" /\ UNCHANGED <<stage, reading, current, tunThreads, main>>
    BY <1>8 DEF Writes, TakesHandler, Ws!RunPosted, Ws!OnWriteOk, Transported, reconnection
  <2>2. /\ writer[g] # "stuck" /\ writer' = [writer EXCEPT ![g] = writer'[g]]
        /\ \A h \in Transports \ {g} : queued'[h] = queued[h] /\ auth'[h] = auth[h]
    <3>1. Ws!DoWrite(g) /\ writer[g] \in {"posted", "writing"}
      BY <1>8 DEF Writes, Ws!RunPosted, Ws!OnWriteOk
    <3>2. writer' = [writer EXCEPT ![g] = writer'[g]]
          /\ \A h \in Transports \ {g} : queued'[h] = queued[h]
      BY <1>t, <3>1 DEF Ws!DoWrite
    <3>3. \A h \in Transports \ {g} : auth'[h] = auth[h]
      BY <1>8, <1>t DEF Writes, Ws!RunPosted, Ws!OnWriteOk
    <3> QED
      BY <3>1, <3>2, <3>3
  <2> QED
    BY <1>t, <2>1, <2>2 DEF Transported
<1>9. ASSUME NEW g \in Transports, Fails(g) PROVE Transported'
  <2>1. main = "loop" /\ UNCHANGED <<current, tunThreads, main>>
    BY <1>9 DEF Fails, TakesHandler, reconnection
  <2>2. CASE Ws!ConnectFails(g)
    BY <1>t, <2>1, <2>2 DEF Ws!ConnectFails, Transported
  <2>3. CASE Ws!OnWriteError(g)
    BY <1>t, <2>1, <2>3 DEF Ws!OnWriteError, Transported
  <2>4. CASE Ws!OnReadError(g)
    BY <1>t, <2>1, <2>4 DEF Ws!OnReadError, Transported
  <2> QED
    BY <1>9, <2>2, <2>3, <2>4 DEF Fails
<1>10. ASSUME NEW g \in Transports, AuthResponse(g) PROVE Transported'
  <2>1. main = "loop" /\ UNCHANGED <<current, tunThreads, main>>
    BY <1>10 DEF AuthResponse, TakesHandler, reconnection
  <2> QED
    BY <1>10, <1>t, <2>1 DEF AuthResponse, Ws!OnAuthResponse, Transported
<1>11. CASE TunCheck \/ TunUse
  <2>1. main \notin {"starting", "resolving"}
    BY <1>11, <1>t DEF TunCheck, TunUse, Transported
  <2>2. current \in Transports /\ UNCHANGED <<stage, reading, writer, queued, auth, current, main>>
    BY <1>11, <2>1 DEF TunCheck, TunUse, Alive, Transported, transportVars, reconnection
  <2>3. tunThreads'["send"] = tunThreads["send"] \/ stage[current] = "up"
    BY <1>11, <1>t DEF TunCheck, TunUse, Move
  <2> QED
    BY <1>t, <2>1, <2>2, <2>3 DEF Transported
<1>12. CASE TunSend
  <2>1. main \notin {"starting", "resolving"} /\ current \in Transports /\ stage[current] \in {"up", "failed"}
    BY <1>12, <1>t DEF TunSend, Transported
  <2>2. UNCHANGED <<stage, reading, auth, current, main>>
    BY <1>12 DEF TunSend, transportVars, reconnection, Ws!Push
  <2>3. \A g \in Transports : g # current => writer'[g] = writer[g] /\ queued'[g] = queued[g]
    BY <1>12, <1>t DEF TunSend, transportVars, Ws!Push
  <2>4. writer'[current] # "stuck" => writer[current] # "stuck"
    BY <1>12, <1>t, <2>1 DEF TunSend, transportVars, Ws!Push
  <2> QED
    BY <1>t, <2>1, <2>2, <2>3, <2>4 DEF Transported
<1>13. CASE Restart
  BY <1>13, <1>t DEF Restart, Transported
<1> QED
  BY <1>1, <1>2, <1>3, <1>4, <1>5, <1>6, <1>7, <1>8, <1>9, <1>10, <1>11, <1>12, <1>13
     DEF Next, MainStep

\* No attempt in the beginning.
LEMMA AttemptsInit == Init => Attempts
BY ReachesEmpty, BoundAssumption DEF Init, Attempts, Coming, Ws!TransportInit

\* Every step keeps it to one attempt: whatever starts one finds none.
LEMMA AttemptsStep ==
    ASSUME TypeOK, Transported, Attempts, Flow, [Next]_vars
    PROVE  Attempts'
<1>t. /\ stage \in [Transports -> {"none", "connecting", "up", "failed"}]
      /\ current \in 0 .. MaxTransports
      /\ timer \in 0 .. MaxDelay /\ MaxDelay = 60
      /\ Transports = 1 .. MaxTransports /\ MaxTransports \in Nat
  BY BoundAssumption DEF TypeOK, Ws!TransportTypeOK, Transports, MaxDelay
<1>o. Ordered(todo)
  BY DEF Flow
\* Steps that make no attempt, and after which "reconnect" comes up if it did before.
<1>q. ASSUME UNCHANGED <<stage, connected, attempt, timer>>, Coming("reconnect")' <=> Coming("reconnect")
      PROVE  Attempts'
  BY <1>q DEF Attempts
<1>1. CASE RunBegins \/ Exit \/ TunCheck \/ TunUse \/ TunSend \/ TunCrash \/ Kill \/ UNCHANGED vars
  <2>1. UNCHANGED <<stage, connected, attempt, timer, todo>>
    BY <1>1 DEF RunBegins, Exit, TunCheck, TunUse, TunSend, TunCrash, Kill, vars, Ws!Push,
                transportVars, reconnection, flags
  <2> QED
    BY <1>q, <2>1 DEF Coming
<1>2. CASE RunConnects
  <2>1. ~connected /\ timer = 0 /\ ~Coming("reconnect")
    BY <1>2, ReachesEmpty DEF RunConnects, Transported, Coming
  <2>2. UNCHANGED <<connected, timer, todo>>
    BY <1>2 DEF RunConnects, flags
  <2> QED
    BY <2>1, <2>2 DEF Attempts, Coming
<1>3. CASE \/ LeavesLoop
           \/ \E g \in Transports : AuthResponse(g)
  <2>1. UNCHANGED <<stage, connected, attempt, timer>>
    BY <1>3 DEF LeavesLoop, AuthResponse, Ws!OnAuthResponse, transportVars, reconnection, flags
  <2>2. todo = <<>> /\ \E x \in {"stop", "tunOpen"} : todo' = <<x>>
    BY <1>3 DEF LeavesLoop, AuthResponse, TakesHandler
  <2>3. ~Coming("reconnect") /\ ~Coming("reconnect")'
    BY <2>2, ReachesEmpty, ReachesOne DEF Coming
  <2> QED
    BY <1>q, <2>1, <2>3
<1>4. CASE Stop
  <2>1. UNCHANGED <<stage, connected, attempt, timer>>
    BY <1>4 DEF Stop, transportVars, reconnection
  <2>2. ~Reaches(StopSteps, "reconnect", {})
    BY StopReaches, TeardownReaches
  <2>3. Coming("reconnect")' <=> Coming("reconnect")
    BY <1>4, <2>2, StopComing
  <2> QED
    BY <1>q, <2>1, <2>3
<1>5. CASE WsClose
  <2>1. UNCHANGED <<stage, connected, attempt, timer>>
    BY <1>5 DEF WsClose, transportVars, reconnection
  <2>3. Coming("reconnect")' <=> Coming("reconnect")
    BY <1>5, WsCloseEffect DEF Coming
  <2> QED
    BY <1>q, <2>1, <2>3
<1>6. CASE DoneStep /\ ~Reconnect
  <2>1. UNCHANGED <<stage, connected, attempt, timer>>
    BY <1>6 DEF DoneStep, WsCloseReturns, IocStop, HostStep, TunClose, TunReset, AddServer,
                StartTun, transportVars, reconnection, flags
  <2>2. Head(todo) # "reconnect"
    BY <1>6 DEF DoneStep, WsCloseReturns, IocStop, HostStep, TunClose, TunReset, AddServer,
                StartTun, Doing
  <2>3. Coming("reconnect")' <=> Coming("reconnect")
    BY <1>6, <2>2, DoneEffect DEF Coming
  <2> QED
    BY <1>q, <2>1, <2>3
<1>7. CASE Reconnect
  <2>1. todo # <<>> /\ Head(todo) = "reconnect" /\ Coming("reconnect")
    BY <1>7, DoingComes DEF Reconnect
  <2>2. todo' = Tail(todo)
    BY <1>7, DoneEffect DEF DoneStep
  <2>3. Tail(todo) = <<>>
    BY <1>o, <2>1, OrderedHead DEF TypeOK, LastSteps
  <2>4. ~Coming("reconnect")'
    BY <2>2, <2>3, ReachesEmpty DEF Coming
  <2>5. ~connected /\ attempt = 0 /\ timer = 0
    BY <2>1 DEF Attempts
  <2>6. UNCHANGED <<stage, connected>>
    BY <1>7 DEF Reconnect, transportVars, flags
  <2>7. timer' \in {0, 1} /\ \A g \in Transports : stage[g] # "connecting"
    BY <1>7, ReconnectEffect
  <2> QED
    BY <2>4, <2>5, <2>6, <2>7 DEF Attempts
<1>8. CASE OnError
  <2>1. Coming("reconnect")' => connected
    BY <1>8, <1>o, OnErrorEffect DEF Coming
  <2>2. ~connected' /\ UNCHANGED <<stage, attempt, timer>>
    BY <1>8 DEF OnError, transportVars, reconnection
  <2> QED
    BY <2>1, <2>2 DEF Attempts
<1>9. CASE TunOpen
  <2>1. UNCHANGED <<stage, connected, attempt, timer>>
    BY <1>9 DEF TunOpen, transportVars, reconnection, flags
  <2>2. ~Coming("reconnect")
    BY <1>9, <1>o, TunOpenEffect DEF Coming
  <2>3. ~Coming("reconnect")'
    BY <1>9, <1>o, TunOpenComing DEF Coming, SetupSteps
  <2> QED
    BY <1>q, <2>1, <2>2, <2>3
<1>10. CASE Signal
  <2>1. UNCHANGED <<stage, connected, attempt, timer>>
    BY <1>10 DEF Signal, transportVars, reconnection
  <2>2. Coming("reconnect")' <=> Coming("reconnect")
    BY <1>10, SignalReaches DEF Coming
  <2> QED
    BY <1>q, <2>1, <2>2
<1>11. CASE TimerFires
  <2>1. ~connected /\ ~Coming("reconnect")
    BY <1>11 DEF TimerFires, Attempts
  <2>2. UNCHANGED <<connected, todo>> /\ timer' = 0
    BY <1>11 DEF TimerFires, flags
  <2> QED
    BY <2>1, <2>2 DEF Attempts, Coming
<1>12. ASSUME NEW g \in Transports, Opens(g) PROVE Attempts'
  <2>1. g = current /\ stage[g] = "connecting" /\ timer = 0
    BY <1>12, <1>t DEF Opens, Ws!Opens, Transported, Attempts
  <2>2. \A h \in Transports : stage'[h] # "connecting"
    BY <1>12, <1>t, <2>1 DEF Opens, Ws!Opens, Transported
  <2>3. ~Coming("reconnect") /\ UNCHANGED <<todo, timer>> /\ attempt' = 0
    BY <1>12, ReachesEmpty DEF Opens, TakesHandler, Coming
  <2> QED
    BY <2>1, <2>2, <2>3 DEF Attempts, Coming
<1>13. ASSUME NEW g \in Transports, Writes(g) PROVE Attempts'
  <2>1. UNCHANGED <<stage, connected, attempt, timer, todo>>
    BY <1>13 DEF Writes, Ws!RunPosted, Ws!OnWriteOk, reconnection, flags
  <2> QED
    BY <1>q, <2>1 DEF Coming
<1>14. ASSUME NEW g \in Transports, Fails(g) PROVE Attempts'
  <2>1. UNCHANGED <<connected, attempt, timer>>
    BY <1>14 DEF Fails, reconnection, flags
  <2>2. \A h \in Transports : stage'[h] = "connecting" => stage[h] = "connecting"
    BY <1>14, <1>t DEF Fails, Ws!ConnectFails, Ws!OnWriteError, Ws!OnReadError
  <2>3. ~Coming("reconnect")'
    BY <1>14, ReachesOne DEF Fails, Coming
  <2> QED
    BY <2>1, <2>2, <2>3 DEF Attempts
<1>15. CASE Restart
  <2>1. ~connected' /\ timer' = 0 /\ todo' = <<>>
    BY <1>15 DEF Restart
  <2> QED
    BY <2>1, ReachesEmpty DEF Attempts, Coming
<1> QED
  BY <1>1, <1>2, <1>3, <1>4, <1>5, <1>6, <1>7, <1>8, <1>9, <1>10, <1>11, <1>12, <1>13, <1>14, <1>15
     DEF Next, MainStep, DoneStep

\* Steps that leave what the main thread has to do alone.
LEMMA TodoKept ==
    ASSUME \/ RunBegins \/ RunConnects \/ Exit \/ TimerFires
           \/ (\E g \in Transports : Opens(g) \/ Writes(g))
           \/ TunCheck \/ TunUse \/ TunSend \/ TunCrash \/ Kill \/ UNCHANGED vars
    PROVE  todo' = todo
BY DEF RunBegins, RunConnects, Exit, TimerFires, Opens, Writes, TunCheck, TunUse, TunSend,
       TunCrash, Kill, vars

\* The main thread makes the step.
Makes(x) == Doing(x) /\ (Stop \/ WsClose \/ DoneStep \/ OnError \/ TunOpen)

\* A step that comes up still does, unless it is made.
LEMMA StillComing ==
    ASSUME TypeOK, Ordered(todo), [Next]_vars, ~Restart, NEW x, Coming(x)
    PROVE  Coming(x)' \/ Makes(x)
<1>1. CASE \/ RunBegins \/ RunConnects \/ Exit \/ TimerFires
           \/ (\E g \in Transports : Opens(g) \/ Writes(g))
           \/ TunCheck \/ TunUse \/ TunSend \/ TunCrash \/ Kill \/ UNCHANGED vars
  BY <1>1, TodoKept DEF Coming
<1>2. CASE LeavesLoop \/ (\E g \in Transports : Fails(g) \/ AuthResponse(g))
  BY <1>2, ReachesEmpty DEF LeavesLoop, Fails, AuthResponse, TakesHandler, Coming
<1>3. CASE Stop
  <2>1. Doing("stop")
    BY <1>3 DEF Stop
  <2> QED
    BY <1>3, <2>1, StopComing DEF Makes
<1>4. CASE WsClose
  <2>1. Doing("wsClose") /\ todo # <<>> /\ Head(todo) = "wsClose"
    BY <1>4 DEF WsClose, Doing
  <2>2. CASE x = "wsClose"
    BY <1>4, <2>1, <2>2 DEF Makes
  <2>3. CASE x \notin {"wsClose", "wsClosing"}
    BY <1>4, <2>3, WsCloseEffect DEF Coming
  <2>4. CASE x = "wsClosing"
    <3> DEFINE s == IF stage[current] = "up" THEN <<"wsClosing">> ELSE <<>>
    <3>1. Then(s)
      BY <1>4 DEF WsClose
    <3>2. s \in Seq(Steps)
      <4>1. <<"wsClosing">> \in Seq(Steps) /\ <<>> \in Seq(Steps)
        BY DEF Steps
      <4> QED
        BY <4>1
    <3> HIDE DEF s
    <3>3. Reaches(Tail(todo), x, {})
      BY <2>1, <2>4, ReachesHead DEF Coming, TypeOK
    <3>4. Reaches(todo', x, {}) <=>
             Reaches(s, x, {}) \/ ((\A y \in {} : ~Reaches(s, y, {})) /\ Reaches(Tail(todo), x, {}))
      BY <2>1, <3>1, <3>2, ThenReaches
    <3> QED
      BY <3>3, <3>4 DEF Coming
  <2> QED
    BY <2>2, <2>3, <2>4
<1>5. CASE DoneStep
  <2>1. Alive /\ todo # <<>>
    BY <1>5 DEF DoneStep, WsCloseReturns, IocStop, HostStep, TunClose, TunReset, Reconnect,
                AddServer, StartTun, Doing
  <2> QED
    BY <1>5, <2>1, DoneEffect DEF Coming, Doing, Makes
<1>6. CASE OnError
  BY <1>6, OnErrorEffect DEF Coming, OnError, Makes
<1>7. CASE TunOpen
  BY <1>7, TunOpenEffect DEF Coming, TunOpen, Makes
<1>8. CASE Signal
  BY <1>8, SignalReaches DEF Coming
<1> QED
  BY <1>1, <1>2, <1>3, <1>4, <1>5, <1>6, <1>7, <1>8 DEF Next, MainStep, DoneStep

\* Where a step that comes up comes from.
LEMMA NewComing ==
    ASSUME TypeOK, Ordered(todo), [Next]_vars, NEW x, Coming(x)'
    PROVE  \/ Coming(x)
           \/ x \in {"stop", "wsClosing"}
           \/ Stop /\ running /\ Reaches(StopSteps, x, {})
           \/ OnError /\ connected /\ Reaches(ErrorSteps, x, {})
           \/ x = "onError" /\ \E g \in Transports : Fails(g)
           \/ x = "tunOpen" /\ \E g \in Transports : AuthResponse(g)
           \/ /\ TunOpen /\ tun' = "open" /\ x \in SetupSteps \ {"tunOpen"}
              /\ x \in {"addServer", "addLow", "addHigh"} => autoRoute /\ gateway
<1>1. CASE \/ RunBegins \/ RunConnects \/ Exit \/ TimerFires
           \/ (\E g \in Transports : Opens(g) \/ Writes(g))
           \/ TunCheck \/ TunUse \/ TunSend \/ TunCrash \/ Kill \/ UNCHANGED vars
  BY <1>1, TodoKept DEF Coming
<1>2. CASE LeavesLoop
  BY <1>2, ReachesOne DEF LeavesLoop, Coming
<1>3. ASSUME NEW g \in Transports, Fails(g) PROVE x = "onError"
  BY <1>3, ReachesOne DEF Fails, Coming
<1>4. ASSUME NEW g \in Transports, AuthResponse(g) PROVE x \in {"tunOpen", "stop"}
  BY <1>4, ReachesOne DEF AuthResponse, Coming
<1>5. CASE Stop
  BY <1>5, StopComing
<1>6. CASE WsClose
  <2>1. x # "wsClosing" => Coming(x)
    <3>1. CASE x \notin {"wsClose", "wsClosing"}
      BY <1>6, <3>1, WsCloseEffect DEF Coming
    <3>2. CASE x = "wsClose"
      BY <1>6, <3>2, DoingComes DEF WsClose
    <3> QED
      BY <3>1, <3>2
  <2> QED
    BY <2>1
<1>7. CASE DoneStep
  BY <1>7, DoneEffect DEF Coming
<1>8. CASE OnError
  BY <1>8, OnErrorEffect DEF Coming
<1>9. CASE TunOpen
  BY <1>9, TunOpenComing DEF Coming
<1>10. CASE Signal
  BY <1>10, SignalReaches DEF Coming
<1>11. CASE Restart
  BY <1>11, ReachesEmpty DEF Restart, Coming
<1> QED
  BY <1>1, <1>2, <1>3, <1>4, <1>5, <1>6, <1>7, <1>8, <1>9, <1>10, <1>11
     DEF Next, MainStep, DoneStep

\* Nothing is ahead in the beginning.
LEMMA FlowInit == Init => Flow
BY ReachesEmpty, OrderedEmpty DEF Init, Flow, Coming

\* What the client was configured with never changes.
LEMMA Rigid ==
    ASSUME [Next]_vars
    PROVE  UNCHANGED rigid
BY DEF Next, MainStep, vars, rigid, RunBegins, RunConnects, LeavesLoop, Exit, Stop,
      WsClose, IocStop, HostStep, TunClose, OnError, TunReset, Reconnect, TunOpen, AddServer,
      StartTun, WsCloseReturns, Signal, TimerFires, Opens, Writes, Fails, AuthResponse, TunCheck,
      TunUse, TunSend, TunCrash, Kill, Restart

\* How main() moves.
LEMMA MainMoves ==
    ASSUME [Next]_vars
    PROVE  \/ main' = main
           \/ RunBegins /\ main = "starting" /\ main' = "resolving"
           \/ RunConnects /\ main = "resolving" /\ main' = "loop"
           \/ LeavesLoop /\ main = "loop" /\ main' = "leaving"
           \/ Exit /\ main = "leaving" /\ todo = <<>> /\ main' = "exited"
           \/ (TunCrash /\ main' = "crashed") \/ (Kill /\ main' = "killed")
           \/ Restart /\ main' = "starting"
BY DEF Next, MainStep, vars, RunBegins, RunConnects, LeavesLoop, Exit, Stop,
      WsClose, IocStop, HostStep, TunClose, OnError, TunReset, Reconnect, TunOpen, AddServer,
      StartTun, WsCloseReturns, Signal, TimerFires, Opens, Writes, Fails, AuthResponse, TunCheck,
      TunUse, TunSend, TunCrash, Kill, Restart

\* running_ is set by run() and cleared by stop() only.
LEMMA RunningMoves ==
    ASSUME [Next]_vars
    PROVE  \/ running' = running
           \/ RunBegins /\ running'
           \/ (Stop /\ ~running') \/ (Restart /\ ~running')
BY DEF Next, MainStep, vars, flags, RunBegins, RunConnects, LeavesLoop, Exit, Stop,
      WsClose, IocStop, HostStep, TunClose, OnError, TunReset, Reconnect, TunOpen, AddServer,
      StartTun, WsCloseReturns, Signal, TimerFires, Opens, Writes, Fails, AuthResponse, TunCheck,
      TunUse, TunSend, TunCrash, Kill, Restart

\* The io_context is stopped by stop(), and only a new process has another.
LEMMA StoppedStays ==
    ASSUME [Next]_vars
    PROVE  \/ iocStopped' = iocStopped
           \/ IocStop /\ iocStopped'
           \/ Restart
BY DEF Next, MainStep, vars, flags, RunBegins, RunConnects, LeavesLoop, Exit, Stop,
      WsClose, IocStop, HostStep, TunClose, OnError, TunReset, Reconnect, TunOpen, AddServer,
      StartTun, WsCloseReturns, Signal, TimerFires, Opens, Writes, Fails, AuthResponse, TunCheck,
      TunUse, TunSend, TunCrash, Kill, Restart

\* Every step keeps the order of what is ahead, and a stop() that has begun goes on.
LEMMA FlowStep ==
    ASSUME TypeOK, Flow, [Next]_vars
    PROVE  Flow'
<1>o. Ordered(todo) /\ Ordered(todo')
  BY TodoStep DEF Flow
<1>1. ASSUME NEW x \in {"addServer", "addLow", "addHigh"}, Coming(x)'
      PROVE  autoRoute' /\ gateway'
  <2>1. Coming(x) \/ (autoRoute /\ gateway)
    BY <1>1, <1>o, NewComing, StopReaches, ErrorReaches, TeardownReaches
  <2> QED
    BY <2>1, Rigid DEF Flow, rigid
<1>2. ASSUME main' \in {"resolving", "loop"}, ~running'
      PROVE  iocStopped' \/ Coming("iocStop")'
  <2>1. main \in {"resolving", "loop"} /\ ~Restart /\ ~RunBegins
    BY <1>2, MainMoves, RunningMoves DEF Restart, RunBegins
  <2>2. CASE Stop /\ running
    <3>1. Reaches(StopSteps, "iocStop", {})
      BY StopReaches
    <3> QED
      BY <2>2, <3>1, StopComing
  <2>3. CASE ~running
    <3>1. iocStopped \/ Coming("iocStop")
      BY <2>1, <2>3 DEF Flow
    <3>2. iocStopped => iocStopped'
      BY <2>1, StoppedStays
    <3>3. CASE Makes("iocStop")
      <4>1. IocStop
        BY <3>3 DEF Makes, Doing, Stop, WsClose, DoneStep, OnError, TunOpen, WsCloseReturns,
                    HostStep, TunClose, TunReset, Reconnect, AddServer, StartTun
      <4> QED
        BY <4>1 DEF IocStop
    <3> QED
      BY <1>o, <2>1, <3>1, <3>2, <3>3, StillComing
  <2> QED
    BY <1>2, <2>1, <2>2, <2>3, RunningMoves
<1>3. ASSUME main' = "leaving" PROVE ~running' \/ Coming("stop")'
  <2>1. CASE LeavesLoop
    BY <2>1, ReachesOne DEF LeavesLoop, Coming
  <2>2. CASE main = "leaving"
    <3>1. ~RunBegins /\ ~Restart
      BY <2>2 DEF RunBegins, Restart
    <3>2. ~running => ~running'
      BY <3>1, RunningMoves
    <3>3. CASE Makes("stop")
      <4>1. Stop
        BY <3>3 DEF Makes, Doing, IocStop, WsClose, DoneStep, OnError, TunOpen, WsCloseReturns,
                    HostStep, TunClose, TunReset, Reconnect, AddServer, StartTun
      <4> QED
        BY <4>1 DEF Stop
    <3> QED
      BY <1>o, <2>2, <3>1, <3>2, <3>3, StillComing DEF Flow
  <2> QED
    BY <1>3, <2>1, <2>2, MainMoves
<1>4. ASSUME main' \in {"starting", "resolving"}, NEW x \in SetupSteps \cup LastSteps, Coming(x)'
      PROVE  FALSE
  <2>1. CASE Restart
    BY <1>4, <2>1, ReachesEmpty DEF Restart, Coming
  <2>2. CASE ~Restart
    <3>1. main \in {"starting", "resolving"}
      BY <1>4, <2>2, MainMoves
    <3>2. \A y \in SetupSteps \cup LastSteps : ~Coming(y)
      BY <3>1 DEF Flow
    <3>3. ~OnError /\ ~TunOpen
      BY <3>2, DoingComes DEF OnError, TunOpen, LastSteps
    <3>4. \A g \in Transports : ~Fails(g) /\ ~AuthResponse(g)
      BY <3>1 DEF Fails, AuthResponse, TakesHandler
    <3>5. x \notin {"stop", "wsClosing"} /\ ~Reaches(StopSteps, x, {})
      BY StopReaches, TeardownReaches DEF SetupSteps, LastSteps
    <3> QED
      BY <1>o, <1>4, <3>2, <3>3, <3>4, <3>5, NewComing
  <2> QED
    BY <2>1, <2>2
<1>5. ASSUME main' = "killed" PROVE kills' > 0
  <2>1. Kill => kills' > 0
    BY DEF Kill, TypeOK
  <2>2. kills' = kills \/ Kill
    BY DEF Next, MainStep, vars, history, RunBegins, RunConnects, LeavesLoop, Exit, Stop,
      WsClose, IocStop, HostStep, TunClose, OnError, TunReset, Reconnect, TunOpen, AddServer,
      StartTun, WsCloseReturns, Signal, TimerFires, Opens, Writes, Fails, AuthResponse, TunCheck,
      TunUse, TunSend, TunCrash, Restart
  <2> QED
    BY <1>5, <2>1, <2>2, MainMoves DEF Flow
<1> QED
  BY <1>o, <1>1, <1>2, <1>3, <1>4, <1>5 DEF Flow

\* ws_ is replaced when run() or the timer connects.
LEMMA CurrentMoves ==
    ASSUME [Next]_vars
    PROVE  \/ current' = current
           \/ RunConnects \/ TimerFires
           \/ Restart
BY DEF Next, MainStep, vars, reconnection, RunBegins, LeavesLoop, Exit, Stop,
      WsClose, IocStop, HostStep, TunClose, OnError, TunReset, Reconnect, TunOpen, AddServer,
      StartTun, WsCloseReturns, Signal, Opens, Writes, Fails, AuthResponse, TunCheck,
      TunUse, TunSend, TunCrash, Kill

\* connected_ is set by on_connected and cleared by on_error.
LEMMA ConnectedMoves ==
    ASSUME [Next]_vars
    PROVE  \/ connected' = connected
           \/ \E g \in Transports : Opens(g)
           \/ OnError /\ ~connected'
           \/ Restart /\ ~connected'
BY DEF Next, MainStep, vars, flags, RunBegins, RunConnects, LeavesLoop, Exit, Stop,
      WsClose, IocStop, HostStep, TunClose, OnError, TunReset, Reconnect, TunOpen, AddServer,
      StartTun, WsCloseReturns, Signal, TimerFires, Writes, Fails, AuthResponse, TunCheck,
      TunUse, TunSend, TunCrash, Kill, Restart

\* Who opens, closes and destroys the device.
LEMMA TunMoves ==
    ASSUME [Next]_vars
    PROVE  \/ tun' = tun
           \/ (TunClose /\ tun' = "closed") \/ (TunReset /\ tun' = "null") \/ TunOpen
           \/ Restart /\ tun' = "null"
BY DEF Next, MainStep, vars, RunBegins, RunConnects, LeavesLoop, Exit, Stop,
      WsClose, IocStop, HostStep, TunClose, OnError, TunReset, Reconnect, AddServer,
      StartTun, WsCloseReturns, Signal, TimerFires, Opens, Writes, Fails, AuthResponse, TunCheck,
      TunUse, TunSend, TunCrash, Kill, Restart

\* Only an error makes an error stray.
LEMMA StrayStays ==
    ASSUME [Next]_vars, ~Restart
    PROVE  stray' = stray \/ \E g \in Transports : Fails(g)
BY DEF Next, MainStep, vars, history, RunBegins, RunConnects, LeavesLoop, Exit, Stop,
      WsClose, IocStop, HostStep, TunClose, OnError, TunReset, Reconnect, TunOpen, AddServer,
      StartTun, WsCloseReturns, Signal, TimerFires, Opens, Writes, AuthResponse, TunCheck,
      TunUse, TunSend, TunCrash, Kill

\* Which actions touch the transports.
LEMMA TransportMoves ==
    ASSUME [Next]_vars
    PROVE  \/ UNCHANGED transportVars
           \/ RunConnects \/ TimerFires \/ TunSend \/ Restart
           \/ \E g \in Transports : Opens(g) \/ Writes(g) \/ Fails(g) \/ AuthResponse(g)
BY DEF Next, MainStep, vars, RunBegins, LeavesLoop, Exit, Stop,
      WsClose, IocStop, HostStep, TunClose, OnError, TunReset, Reconnect, TunOpen, AddServer,
      StartTun, WsCloseReturns, Signal, TunCheck, TunUse, TunCrash, Kill

\* A TUN thread gets to send() only through an open device.
LEMMA SendMoves ==
    ASSUME [Next]_vars, TypeOK
    PROVE  \/ tunThreads'["send"] = tunThreads["send"]
           \/ TunUse /\ tun = "open"
           \/ TunSend \/ Restart
<1> tunThreads \in [ThreadPoints -> Nat] /\ ThreadPoints = {"check", "use", "send"}
  BY DEF TypeOK, ThreadPoints
<1>1. CASE StartTun \/ TunCheck \/ TunUse
  BY <1>1 DEF StartTun, TunCheck, TunUse, Move
<1>2. CASE ~(StartTun \/ TunCheck \/ TunUse)
  BY <1>2 DEF Next, MainStep, vars, RunBegins, RunConnects, LeavesLoop, Exit, Stop,
      WsClose, IocStop, HostStep, TunClose, OnError, TunReset, Reconnect, TunOpen, AddServer,
      WsCloseReturns, Signal, TimerFires, Opens, Writes, Fails, AuthResponse, TunCrash, Kill
<1> QED
  BY <1>1, <1>2

\* The server's answer comes on the current transport, and only while it is up.
LEMMA AnswerIsCurrents ==
    ASSUME TypeOK, Transported, Faithful, ~stray, NEW g \in Transports, AuthResponse(g)
    PROVE  g = current /\ connected /\ auth[g] = "sent" /\ auth'[g] = "answered"
<1>1. reading[g] /\ auth[g] = "sent" /\ auth' = [auth EXCEPT ![g] = "answered"]
  BY DEF AuthResponse, Ws!OnAuthResponse
<1>2. writer[g] = "idle"
  BY <1>1 DEF Faithful
<1>3. stage[g] = "up"
  BY <1>1, <1>2 DEF Transported
<1> QED
  BY <1>1, <1>3 DEF Faithful, TypeOK, Ws!TransportTypeOK

\* No transport is up in the beginning.
LEMMA FaithfulInit == Init => Faithful
BY ReachesEmpty DEF Init, Faithful, Coming, Ws!TransportInit, Transports, ThreadPoints

\* Without a stray error every step keeps the transport that is up the current one.
LEMMA FaithfulStep ==
    ASSUME TypeOK, Transported, Attempts, Flow, Faithful, [Next]_vars, TypeOK'
    PROVE  Faithful'
<1>t. /\ stage \in [Transports -> {"none", "connecting", "up", "failed"}]
      /\ reading \in [Transports -> BOOLEAN]
      /\ writer \in [Transports -> {"idle", "posted", "writing", "stuck"}]
      /\ queued \in [Transports -> 0 .. MaxSends]
      /\ auth \in [Transports -> {"none", "sent", "answered"}]
      /\ current \in 0 .. MaxTransports
      /\ Transports = 1 .. MaxTransports /\ MaxTransports \in Nat \ {0} /\ MaxSends \in Nat \ {0}
      /\ connected \in BOOLEAN
  BY BoundAssumption DEF TypeOK, Ws!TransportTypeOK, Transports
<1>o. Ordered(todo) /\ Ordered(todo')
  BY TodoStep DEF Flow
<1>r. CASE Restart
  <2>1. ~Coming("tunOpen")' /\ ~Coming("onError")' /\ \A x : ~Coming(x)'
    BY <1>r, ReachesEmpty DEF Restart, Coming
  <2> QED
    BY <1>r, <2>1 DEF Restart, Faithful, ThreadPoints
<1> SUFFICES ASSUME ~Restart, ~stray' PROVE Faithful'
  BY <1>r DEF Faithful
<1>s. ~stray
  BY StrayStays DEF Fails
<1>e. TakesHandler \/ RunConnects => \A x : ~Coming(x)
  BY ReachesEmpty DEF TakesHandler, RunConnects, Coming
\* Connection attempts begin while nothing is up or set up.
<1>n. ASSUME RunConnects \/ TimerFires
      PROVE  /\ ~connected /\ ~connected' /\ todo' = todo /\ tun # "open" /\ tun' = tun
             /\ \A x : ~Coming(x) /\ ~Coming(x)'
             /\ tunThreads["send"] = 0 /\ tunThreads' = tunThreads
             /\ current' \in Transports /\ stage[current'] = "none"
             /\ stage' = [stage EXCEPT ![current'] = "connecting"]
             /\ UNCHANGED <<reading, writer, queued, auth>>
  <2>1. ~connected /\ tunThreads["send"] = 0
    BY <1>n DEF RunConnects, TimerFires, Transported, Attempts, ThreadPoints
  <2>2. UNCHANGED <<connected, todo, tun, tunThreads, reading, writer, queued, auth>>
    BY <1>n DEF RunConnects, TimerFires, flags, Ws!Connect
  <2>3. \A x : ~Coming(x)
    BY <1>n, <1>e DEF TimerFires
  <2>4. tun # "open"
    BY <1>s, <2>1, <2>3 DEF Faithful
  <2>5. current' \in Transports /\ current' > current
    BY <1>n, <1>t DEF RunConnects, TimerFires, Transported
  <2>6. stage[current'] = "none"
    BY <2>5 DEF Transported
  <2>7. stage' = [stage EXCEPT ![current'] = "connecting"]
    BY <1>n DEF RunConnects, TimerFires, Ws!Connect
  <2> QED
    BY <2>1, <2>2, <2>3, <2>4, <2>5, <2>6, <2>7 DEF Coming
<1>m. current' = current \/ RunConnects \/ TimerFires
  BY CurrentMoves
<1>1. ASSUME NEW g \in Transports, stage'[g] = "up" PROVE g = current' /\ connected'
  <2>1. CASE RunConnects \/ TimerFires
    <3>1. stage[g] = "up"
      BY <1>1, <1>n, <1>t, <2>1
    <3> QED
      BY <1>n, <1>s, <2>1, <3>1 DEF Faithful
  <2>2. ASSUME NEW h \in Transports, Opens(h) PROVE g = current' /\ connected'
    <3>1. h = current /\ stage[h] = "connecting"
      BY <2>2 DEF Opens, Ws!Opens, Transported
    <3>2. connected' /\ current' = current
      BY <2>2 DEF Opens
    <3>3. g # h => stage[g] = "up"
      BY <1>1, <1>t, <2>2 DEF Opens, Ws!Opens
    <3> QED
      BY <1>s, <3>1, <3>2, <3>3 DEF Faithful
  <2>3. CASE OnError
    <3>1. stage[g] = "up" /\ Coming("onError") /\ current' = current
      BY <1>1, <2>3, DoingComes DEF OnError, transportVars, reconnection
    <3> QED
      BY <1>s, <3>1 DEF Faithful
  <2>4. CASE ~(RunConnects \/ TimerFires \/ OnError \/ \E h \in Transports : Opens(h))
    <3>1. stage[g] = "up"
      BY <1>1, <1>t, <2>4, TransportMoves
         DEF TunSend, Writes, Fails, AuthResponse, Ws!Push, Ws!RunPosted, Ws!OnWriteOk,
             Ws!ConnectFails, Ws!OnWriteError, Ws!OnReadError, Ws!OnAuthResponse, transportVars
    <3>2. connected' = connected
      BY <2>4, ConnectedMoves
    <3> QED
      BY <1>m, <1>s, <2>4, <3>1, <3>2 DEF Faithful
  <2> QED
    BY <2>1, <2>2, <2>3, <2>4
\* What a transport has sent before it is answered.
<1>2. ASSUME NEW g \in Transports
      PROVE  /\ auth'[g] = "none" => /\ writer'[g] \in {"idle", "writing"} => queued'[g] = 0
                                     /\ writer'[g] = "posted" => queued'[g] <= 1
             /\ auth'[g] = "sent" => writer'[g] = "idle" /\ queued'[g] = 0
  <2>a. /\ auth[g] = "none" => /\ writer[g] \in {"idle", "writing"} => queued[g] = 0
                               /\ writer[g] = "posted" => queued[g] <= 1
        /\ auth[g] = "sent" => writer[g] = "idle" /\ queued[g] = 0
    BY <1>s DEF Faithful
  <2>1. CASE UNCHANGED <<writer, queued, auth>>
    BY <2>1, <2>a
  <2>2. CASE RunConnects \/ TimerFires
    BY <1>n, <2>1, <2>2
  <2>3. CASE TunSend
    <3>1. current \in Transports /\ auth[current] = "answered"
      BY <1>s, <2>3 DEF TunSend, Transported, Faithful
    <3>2. g # current => writer'[g] = writer[g] /\ queued'[g] = queued[g]
      BY <1>t, <2>3 DEF TunSend, Ws!Push, transportVars
    <3>3. auth' = auth
      BY <2>3 DEF TunSend, Ws!Push, transportVars
    <3> QED
      BY <2>a, <3>1, <3>2, <3>3
  <2>4. ASSUME NEW h \in Transports, Opens(h) PROVE \/ UNCHANGED <<writer[g], queued[g], auth[g]>>
                                                     \/ /\ auth'[g] = "none"
                                                        /\ writer'[g] = "posted" /\ queued'[g] = 1
    <3>1. auth[h] = "none" /\ writer[h] = "idle" /\ queued[h] = 0
      BY <2>4 DEF Opens, Ws!Opens, Transported
    <3>2. UNCHANGED auth /\ writer' = [writer EXCEPT ![h] = "posted"] /\ queued' = [queued EXCEPT ![h] = 1]
      BY <1>t, <2>4, <3>1 DEF Opens, Ws!Opens
    <3> QED
      BY <1>t, <3>1, <3>2
  <2>5. ASSUME NEW h \in Transports, Writes(h)
        PROVE  \/ UNCHANGED <<writer[g], queued[g], auth[g]>>
               \/ auth'[g] = "answered"
               \/ /\ queued'[g] = 0
                  /\ \/ auth'[g] = "none" /\ writer'[g] \in {"idle", "writing"}
                     \/ auth'[g] = "sent" /\ writer'[g] = "idle"
    <3>1. CASE g # h
      <4>1. Ws!DoWrite(h) /\ auth'[g] = auth[g]
        BY <1>t, <2>5, <3>1 DEF Writes, Ws!RunPosted, Ws!OnWriteOk
      <4>2. writer'[g] = writer[g] /\ queued'[g] = queued[g]
        BY <1>t, <3>1, <4>1 DEF Ws!DoWrite
      <4> QED
        BY <4>1, <4>2
    <3>2. CASE g = h /\ Ws!RunPosted(g)
      <4>1. writer[g] = "posted" /\ Ws!DoWrite(g) /\ auth' = auth /\ queued[g] \in Nat
        BY <1>t, <3>2 DEF Ws!RunPosted
      <4>2. CASE auth[g] = "none"
        <5>1. queued[g] \in {0, 1}
          BY <2>a, <4>1, <4>2
        <5>2. queued'[g] = 0 /\ writer'[g] \in {"idle", "writing"}
          BY <1>t, <4>1, <5>1 DEF Ws!DoWrite
        <5> QED
          BY <4>1, <4>2, <5>2
      <4> QED
        BY <1>t, <2>a, <4>1, <4>2
    <3>3. CASE g = h /\ Ws!OnWriteOk(g)
      <4>1. writer[g] = "writing" /\ Ws!DoWrite(g) /\ auth' = [auth EXCEPT ![g] = IF @ = "none" THEN "sent" ELSE @]
        BY <3>3 DEF Ws!OnWriteOk
      <4>2. CASE auth[g] = "none"
        <5>1. queued[g] = 0 /\ auth'[g] = "sent"
          BY <1>t, <2>a, <4>1, <4>2
        <5>2. queued'[g] = 0 /\ writer'[g] = "idle"
          BY <1>t, <4>1, <5>1 DEF Ws!DoWrite
        <5> QED
          BY <5>1, <5>2
      <4> QED
        BY <1>t, <2>a, <4>1, <4>2
    <3> QED
      BY <2>5, <3>1, <3>2, <3>3 DEF Writes
  <2>6. ASSUME NEW h \in Transports, Fails(h)
        PROVE  /\ UNCHANGED <<queued, auth>>
               /\ writer'[g] = writer[g] \/ (writer[g] = "writing" /\ writer'[g] = "stuck")
    BY <1>t, <2>6 DEF Fails, Ws!ConnectFails, Ws!OnWriteError, Ws!OnReadError
  <2>7. ASSUME NEW h \in Transports, AuthResponse(h)
        PROVE  UNCHANGED <<queued, writer>> /\ (auth'[g] = auth[g] \/ auth'[g] = "answered")
    BY <1>t, <2>7 DEF AuthResponse, Ws!OnAuthResponse
  <2>8. CASE \E h \in Transports : Opens(h) \/ Writes(h)
    BY <2>4, <2>5, <2>8, <2>a
  <2>9. CASE \E h \in Transports : Fails(h) \/ AuthResponse(h)
    BY <2>6, <2>7, <2>9, <2>a
  <2> QED
    BY <2>1, <2>2, <2>3, <2>8, <2>9, TransportMoves DEF transportVars
\* An answer once given stays.
<1>a. ASSUME NEW g \in Transports, auth[g] = "answered" PROVE auth'[g] = "answered"
  <2>1. CASE RunConnects \/ TimerFires
    BY <1>a, <1>n, <2>1
  <2>2. CASE TunSend \/ UNCHANGED transportVars
    BY <1>a, <2>2 DEF TunSend, Ws!Push, transportVars
  <2>3. CASE \E h \in Transports : Opens(h) \/ Fails(h)
    BY <1>a, <2>3 DEF Opens, Fails, Ws!Opens, Ws!ConnectFails, Ws!OnWriteError, Ws!OnReadError
  <2>4. CASE \E h \in Transports : Writes(h) \/ AuthResponse(h)
    BY <1>a, <1>t, <2>4 DEF Writes, AuthResponse, Ws!RunPosted, Ws!OnWriteOk, Ws!OnAuthResponse
  <2> QED
    BY <2>1, <2>2, <2>3, <2>4, TransportMoves
<1>3. ASSUME tunThreads'["send"] > 0 PROVE auth'[current'] = "answered"
  <2>1. CASE RunConnects \/ TimerFires
    BY <1>3, <1>n, <2>1
  <2>2. CASE TunUse /\ tun = "open"
    BY <1>a, <1>s, <2>2 DEF Faithful, TunUse, reconnection
  <2>3. CASE tunThreads["send"] > 0 /\ current' = current
    BY <1>a, <1>s, <2>3 DEF Faithful, Transported
  <2>4. TunSend => tunThreads["send"] > 0
    BY DEF TunSend
  <2> QED
    BY <1>3, <1>m, <2>1, <2>2, <2>3, <2>4, SendMoves
<1>4. ASSUME tun' = "open"
      PROVE  current' \in Transports /\ auth'[current'] = "answered"
             /\ (connected' \/ Coming("tunClose")')
  <2>1. ~(RunConnects \/ TimerFires)
    BY <1>4, <1>n
  <2>2. current' = current
    BY <1>m, <2>1
  <2>3. CASE TunOpen
    <3>1. Coming("tunOpen") /\ connected' = connected
      BY <2>3, DoingComes DEF TunOpen, flags
    <3>2. current \in Transports /\ auth[current] = "answered" /\ connected
      BY <1>s, <3>1 DEF Faithful, SetupSteps
    <3> QED
      BY <1>a, <2>2, <3>1, <3>2
  <2>4. CASE ~TunOpen
    <3>1. tun = "open"
      BY <1>4, <2>4, TunMoves
    <3>2. current \in Transports /\ auth[current] = "answered" /\ (connected \/ Coming("tunClose"))
      BY <1>s, <3>1 DEF Faithful
    <3>3. ~Makes("tunClose")
      <4> SUFFICES ASSUME Makes("tunClose") PROVE FALSE
        OBVIOUS
      <4>1. TunClose
        BY DEF Makes, Doing, Stop, WsClose, DoneStep, OnError, TunOpen, WsCloseReturns, IocStop,
               HostStep, TunReset, Reconnect, AddServer, StartTun
      <4> QED
        BY <1>4, <3>1, <4>1 DEF TunClose
    <3>4. Coming("tunClose") => Coming("tunClose")'
      BY <1>o, <3>3, StillComing
    <3>5. CASE OnError
      <4>1. connected
        BY <1>o, <3>2, <3>5, OnErrorEffect DEF Coming
      <4>2. Reaches(ErrorSteps, "tunClose", {})
        BY ErrorReaches
      <4> QED
        BY <1>a, <1>o, <2>2, <3>2, <3>5, <4>1, <4>2, OnErrorEffect DEF Coming
    <3>6. CASE ~OnError
      <4>1. connected => connected'
        BY <3>6, ConnectedMoves DEF Opens
      <4> QED
        BY <1>a, <2>2, <3>2, <3>4, <4>1
    <3> QED
      BY <3>5, <3>6
  <2> QED
    BY <2>3, <2>4
<1>5. ASSUME NEW x \in SetupSteps, Coming(x)'
      PROVE  current' \in Transports /\ auth'[current'] = "answered" /\ connected'
  <2>1. ~(RunConnects \/ TimerFires)
    BY <1>5, <1>n
  <2>2. current' = current
    BY <1>m, <2>1
  <2>3. ~OnError
    BY <1>5, <1>o, OnErrorEffect, ErrorReaches, TeardownReaches DEF Coming, SetupSteps
  <2>4. connected => connected'
    BY <2>3, ConnectedMoves DEF Opens
  <2>5. CASE \E y \in SetupSteps : Coming(y)
    BY <1>a, <1>s, <2>2, <2>4, <2>5 DEF Faithful
  <2>6. ASSUME NEW g \in Transports, AuthResponse(g)
        PROVE  current' \in Transports /\ auth'[current'] = "answered" /\ connected'
    BY <1>s, <2>2, <2>4, <2>6, AnswerIsCurrents
  <2>7. TunOpen => Coming("tunOpen") /\ "tunOpen" \in SetupSteps
    BY DoingComes DEF TunOpen, SetupSteps
  <2>8. x \notin {"stop", "wsClosing", "onError"} /\ ~Reaches(StopSteps, x, {})
    BY StopReaches, TeardownReaches DEF SetupSteps
  <2> QED
    BY <1>5, <1>o, <2>3, <2>5, <2>6, <2>7, <2>8, NewComing
<1>6. ASSUME Coming("onError")', connected' PROVE current' \in Transports /\ stage'[current'] = "failed"
  <2>1. ~(RunConnects \/ TimerFires)
    BY <1>6, <1>n
  <2>2. current' = current
    BY <1>m, <2>1
  <2>3. ASSUME NEW g \in Transports, Fails(g)
        PROVE  current' \in Transports /\ stage'[current'] = "failed"
    <3>1. connected /\ g = current
      BY <1>6, <2>3 DEF Fails, flags
    <3>2. stage'[g] = "failed"
      BY <1>t, <2>3 DEF Fails, Ws!ConnectFails, Ws!OnWriteError, Ws!OnReadError
    <3> QED
      BY <2>2, <3>1, <3>2
  <2>4. CASE Coming("onError")
    <3>1. ~TakesHandler
      BY <1>e, <2>4
    <3>2. connected
      BY <1>6, <3>1, ConnectedMoves DEF Opens
    <3>3. current \in Transports /\ stage[current] = "failed"
      BY <1>s, <2>4, <3>2 DEF Faithful
    <3>4. stage' = stage
      BY <2>1, <3>1, TransportMoves
         DEF TunSend, Opens, Writes, Fails, AuthResponse, Ws!Push, transportVars
    <3> QED
      BY <2>2, <3>3, <3>4
  <2>5. ~Reaches(StopSteps, "onError", {}) /\ ~Reaches(ErrorSteps, "onError", {})
    BY StopReaches, ErrorReaches, TeardownReaches
  <2> QED
    BY <1>6, <1>o, <2>3, <2>4, <2>5, NewComing DEF SetupSteps
<1>7. ASSUME Coming("tunOpen")' PROVE tun' # "open"
  <2>1. ~TunOpen
    BY <1>7, <1>o, TunOpenComing DEF Coming
  <2>2. tun' = "open" => tun = "open"
    BY <2>1, TunMoves
  <2>3. ASSUME NEW g \in Transports, AuthResponse(g) PROVE tun # "open"
    <3>1. auth[current] = "sent"
      BY <1>s, <2>3, AnswerIsCurrents
    <3> QED
      BY <1>s, <3>1 DEF Faithful
  <2>4. Coming("tunOpen") => tun # "open"
    BY <1>s DEF Faithful
  <2>5. ~Reaches(StopSteps, "tunOpen", {}) /\ ~Reaches(ErrorSteps, "tunOpen", {})
    BY StopReaches, ErrorReaches, TeardownReaches
  <2> QED
    BY <1>7, <1>o, <2>1, <2>2, <2>3, <2>4, <2>5, NewComing
<1> QED
  BY <1>1, <1>2, <1>3, <1>4, <1>5, <1>6, <1>7 DEF Faithful

\* Where what is reached comes from.
LEMMA NewReaches ==
    ASSUME TypeOK, Ordered(todo), [Next]_vars,
           NEW x, NEW Y, Reaches(todo', x, Y),
           x \notin {"stop", "wsClose", "wsClosing", "onError", "tunOpen"},
           Y \cap {"stop", "wsClose", "wsClosing", "onError", "tunOpen"} = {}
    PROVE  \/ Reaches(todo, x, Y)
           \/ \E y \in Y : Makes(y)
           \/ Stop /\ running /\ Reaches(StopSteps, x, Y)
           \/ OnError /\ connected /\ Reaches(ErrorSteps, x, Y)
           \/ /\ TunOpen /\ tun' = "open" /\ x \in SetupSteps \ {"tunOpen"}
              /\ x \in {"addLow", "addHigh"} => "addServer" \notin Y
              /\ x = "writeResolv" => "backupResolv" \notin Y
<1>1. CASE \/ RunBegins \/ RunConnects \/ Exit \/ TimerFires
           \/ (\E g \in Transports : Opens(g) \/ Writes(g))
           \/ TunCheck \/ TunUse \/ TunSend \/ TunCrash \/ Kill \/ UNCHANGED vars
  BY <1>1, TodoKept
<1>2. CASE LeavesLoop \/ \E g \in Transports : Fails(g) \/ AuthResponse(g)
  <2>1. PICK a \in {"stop", "onError", "tunOpen"} : todo' = <<a>>
    BY <1>2 DEF LeavesLoop, Fails, AuthResponse
  <2>2. Reaches(<<a>>, x, Y)
    BY <2>1
  <2>3. a = x
    BY <2>2, ReachesOne
  <2> QED
    BY <2>1, <2>3
<1>3. CASE Stop
  <2>1. CASE ~running
    <3>1. todo' = Tail(todo)
      BY <1>3, <2>1, StopEffect
    <3>2. Reaches(Tail(todo), x, Y)
      BY <3>1
    <3> QED
      BY <1>3, <3>2, StopEffect
  <2>2. CASE running
    <3>1. Reaches(StopSteps, x, Y) \/ Reaches(Tail(todo), x, Y)
      BY <1>3, <2>2, StopEffect
    <3> QED
      BY <1>3, <2>2, <3>1, StopEffect
  <2> QED
    BY <2>1, <2>2
<1>6. CASE WsClose
  BY <1>6, WsCloseEffect
<1>7. CASE DoneStep
  <2>1. Head(todo) \in Y => Makes(Head(todo))
    <3>1. Alive /\ todo # <<>>
      BY <1>7 DEF DoneStep, WsCloseReturns, IocStop, HostStep, TunClose, TunReset, Reconnect,
                  AddServer, StartTun, Doing
    <3> QED
      BY <1>7, <3>1 DEF Makes, Doing
  <2> QED
    BY <1>7, <2>1, DoneEffect
<1>8. CASE OnError
  BY <1>8, OnErrorEffect
<1>9. CASE TunOpen
  BY <1>9, TunOpenComing
<1>10. CASE Signal
  BY <1>10, SignalReaches
<1>11. CASE Restart
  BY <1>11, ReachesEmpty DEF Restart
<1> QED
  BY <1>1, <1>2, <1>3, <1>6, <1>7, <1>8, <1>9, <1>10, <1>11 DEF Next, MainStep, DoneStep

\* The device disappears when it is closed or replaced, or the process ends.
Unplugs == (TunClose /\ tun = "open") \/ TunOpen \/ Exit \/ TunCrash \/ Kill

\* Who changes the routes, and how.
LEMMA RoutesMove ==
    ASSUME [Next]_vars
    PROVE  \/ routes' = routes
           \/ Unplugs /\ routes' = routes \ Host!HalfRoutes
           \/ AddServer /\ routes' = routes \cup {"server"}
           \/ HostStep /\ Doing("delLow") /\ routes' = routes \ {"low"}
           \/ HostStep /\ Doing("delHigh") /\ routes' = routes \ {"high"}
           \/ HostStep /\ Doing("delServer") /\ routes' = routes \ {"server"}
           \/ HostStep /\ Doing("addLow") /\ tun = "open" /\ routes' = routes \cup {"low"}
           \/ HostStep /\ Doing("addHigh") /\ tun = "open" /\ routes' = routes \cup {"high"}
<1>1. CASE HostStep
  BY <1>1 DEF HostStep, Host!RestoreResolv, Host!DeleteRoute, Host!AddRoute, Host!BackupResolv,
              Host!WriteResolv, hostVars
<1>2. CASE AddServer
  BY <1>2 DEF AddServer, Host!AddRoute, hostVars
<1>3. CASE TunClose \/ TunOpen \/ Exit \/ TunCrash \/ Kill
  BY <1>3 DEF TunClose, TunOpen, Exit, TunCrash, Kill, Unplugs, Host!DeviceGone, hostVars
<1>4. CASE ~(HostStep \/ AddServer \/ TunClose \/ TunOpen \/ Exit \/ TunCrash \/ Kill)
  BY <1>4 DEF Next, MainStep, vars, hostVars, RunBegins, RunConnects, LeavesLoop, Stop, WsClose,
      IocStop, OnError, TunReset, Reconnect, StartTun, WsCloseReturns, Signal, TimerFires, Opens,
      Writes, Fails, AuthResponse, TunCheck, TunUse, TunSend, Restart
<1> QED
  BY <1>1, <1>2, <1>3, <1>4

\* Which action makes a step.
LEMMA MakesWhich ==
    /\ Makes("tunClose") => TunClose
    /\ Makes("addServer") => AddServer
    /\ \A x \in {"delLow", "delHigh", "delServer", "addLow", "addHigh", "restoreResolv",
                 "backupResolv", "writeResolv"} : Makes(x) => HostStep /\ Doing(x)
<1>1. Makes("tunClose") => TunClose
  BY DEF Makes, Doing, Stop, WsClose, DoneStep, OnError, TunOpen, WsCloseReturns, IocStop,
         HostStep, TunReset, Reconnect, AddServer, StartTun
<1>2. Makes("addServer") => AddServer
  BY DEF Makes, Doing, Stop, WsClose, DoneStep, OnError, TunOpen, WsCloseReturns, IocStop,
         HostStep, TunClose, TunReset, Reconnect, StartTun
<1>3. ASSUME NEW x \in {"delLow", "delHigh", "delServer", "addLow", "addHigh", "restoreResolv",
                        "backupResolv", "writeResolv"}, Makes(x)
      PROVE  HostStep /\ Doing(x)
  BY <1>3 DEF Makes, Doing, Stop, WsClose, DoneStep, OnError, TunOpen, WsCloseReturns, IocStop,
              TunClose, TunReset, Reconnect, AddServer, StartTun
<1> QED
  BY <1>1, <1>2, <1>3

\* What each command on the routes does.
LEMMA HostRoutes ==
    ASSUME HostStep
    PROVE  /\ Doing("delLow") => routes' = routes \ {"low"}
           /\ Doing("delHigh") => routes' = routes \ {"high"}
           /\ Doing("delServer") => routes' = routes \ {"server"}
           /\ Doing("addLow") /\ tun = "open" => routes' = routes \cup {"low"}
           /\ Doing("addHigh") /\ tun = "open" => routes' = routes \cup {"high"}
           /\ tun' = tun
BY DEF HostStep, Doing, Host!DeleteRoute, Host!AddRoute

\* unexcluded is set by a failed command for the server's route only.
LEMMA UnexcludedMoves ==
    ASSUME [Next]_vars
    PROVE  unexcluded' = unexcluded \/ (AddServer /\ unexcluded' = ("server" \notin routes'))
BY DEF Next, MainStep, vars, history, RunBegins, RunConnects, LeavesLoop, Exit, Stop,
      WsClose, IocStop, HostStep, TunClose, OnError, TunReset, Reconnect, TunOpen, AddServer,
      StartTun, WsCloseReturns, Signal, TimerFires, Opens, Writes, Fails, AuthResponse, TunCheck,
      TunUse, TunSend, TunCrash, Kill, Restart

\* No routes in the beginning.
LEMMA RoutedInit == Init => Routed
BY ReachesEmpty DEF Init, Routed, NoRoutingLoop, Host!HostInit, Host!HalfRoutes, Coming, Alive

\* The step at hand comes up, whatever is asked of those before it; after a step of the
\* set-up only such steps follow, and no other before the device's close after an undo.
LEMMA AtHand ==
    ASSUME TypeOK, Ordered(todo), NEW a, Doing(a)
    PROVE  /\ \A Y : Reaches(todo, a, Y)
           /\ a \in SetupSteps =>
                 \A x, Y : x \notin SetupSteps => ~Reaches(todo, x, Y)
           /\ a \in UndoSteps =>
                 /\ Reaches(Tail(todo), "tunClose", {})
                 /\ \A x, Y : x \in SetupSteps /\ "tunClose" \in Y => ~Reaches(todo, x, Y)
<1>1. todo # <<>> /\ Head(todo) = a /\ todo \in Seq(Steps)
  BY DEF Doing, TypeOK
<1>2. SetupSteps \cap UndoSteps = {}
  BY DEF SetupSteps, UndoSteps
<1>3. \A x, Y : Reaches(todo, x, Y) <=> a = x \/ (a \notin Y /\ Reaches(Tail(todo), x, Y))
  BY <1>1, ReachesHead
<1>4. \A Y : Reaches(todo, a, Y)
  BY <1>3
<1>5. ASSUME a \in SetupSteps, NEW x, NEW Y, x \notin SetupSteps PROVE ~Reaches(todo, x, Y)
  BY <1>1, <1>3, <1>5, OrderedHead
<1>6. ASSUME a \in UndoSteps
      PROVE  /\ Reaches(Tail(todo), "tunClose", {})
             /\ \A x, Y : x \in SetupSteps /\ "tunClose" \in Y => ~Reaches(todo, x, Y)
  BY <1>1, <1>2, <1>3, <1>6, OrderedHead
<1> QED
  BY <1>4, <1>5, <1>6

\* Every step keeps the routes' invariant: each route is added after what it needs and
\* deleted before.
LEMMA RoutedStep ==
    ASSUME TypeOK, Flow, Routed, [Next]_vars, TypeOK'
    PROVE  Routed'
<1>o. Ordered(todo) /\ Ordered(todo')
  BY TodoStep DEF Flow
<1>h. Host!HalfRoutes = {"low", "high"}
  BY DEF Host!HalfRoutes
<1>g. autoRoute' = autoRoute /\ gateway' = gateway
  BY Rigid DEF rigid
<1>s. {"addLow", "addHigh", "addServer"} \subseteq SetupSteps /\ "delServer" \in UndoSteps
      /\ {"delLow", "delHigh", "delServer", "tunReset", "tunClose"} \cap SetupSteps = {}
      /\ {"delLow", "delHigh"} \subseteq UndoSteps
  BY DEF SetupSteps, UndoSteps
\* Both routes into the tunnel are only there while the device is.
<1>c. ASSUME Makes("tunClose") PROVE tun' # "open" /\ routes' \cap Host!HalfRoutes = {}
  <2>1. TunClose
    BY <1>c, MakesWhich
  <2>2. CASE tun = "open"
    BY <2>1, <2>2 DEF TunClose, Host!DeviceGone
  <2>3. CASE tun # "open"
    BY <2>1, <2>3 DEF TunClose, Routed, hostVars
  <2> QED
    BY <2>2, <2>3
<1>n. /\ "low" \in routes' =>
             "low" \in routes \/ (HostStep /\ Doing("addLow") /\ tun = "open")
      /\ "high" \in routes' =>
             "high" \in routes \/ (HostStep /\ Doing("addHigh") /\ tun = "open")
      /\ "server" \in routes' => "server" \in routes \/ AddServer
  BY RoutesMove
<1>w. ASSUME NEW x \in {"delHigh", "delServer"}, NEW Y,
             Y \in {{"delLow", "tunClose"}, {"delHigh", "tunClose"}},
             x = "delHigh" => Y = {"delLow", "tunClose"},
             Reaches(todo', x, Y)
      PROVE  Reaches(todo, x, Y) \/ \E y \in Y : Makes(y)
  <2>1. x \notin SetupSteps
    BY <1>s
  <2>2. ~Reaches(StopSteps, x, Y) /\ ~Reaches(ErrorSteps, x, Y)
    BY <1>w, StopReaches, ErrorReaches, TeardownReaches
  <2> QED
    BY <1>o, <1>w, <2>1, <2>2, NewReaches
<1>1. ASSUME routes' \cap Host!HalfRoutes # {} PROVE tun' = "open" /\ autoRoute' /\ gateway'
  <2>1. CASE routes \cap Host!HalfRoutes # {}
    <3>1. tun = "open" /\ autoRoute /\ gateway /\ Alive
      BY <2>1 DEF Routed
    <3>2. ~TunClose /\ ~TunOpen
      BY <1>1, <3>1 DEF TunClose, TunOpen, Host!DeviceGone
    <3>3. ~TunReset
      <4>1. Doing("tunReset") => Reaches(todo, "tunReset", {"tunClose"})
        BY <1>o, AtHand
      <4> QED
        BY <3>1, <4>1 DEF TunReset, Routed
    <3>4. ~Restart
      BY <3>1 DEF Restart, Alive
    <3> QED
      BY <1>g, <3>1, <3>2, <3>3, <3>4, TunMoves
  <2>2. CASE routes \cap Host!HalfRoutes = {}
    <3>1. HostStep /\ tun = "open" /\ \E x \in {"addLow", "addHigh"} : Doing(x)
      BY <1>1, <1>h, <1>n, <2>2
    <3>2. autoRoute /\ gateway /\ tun' = tun
      BY <3>1, DoingComes, HostRoutes DEF Flow
    <3> QED
      BY <1>g, <3>1, <3>2
  <2> QED
    BY <2>1, <2>2
<1>2. ASSUME ~Alive' PROVE routes' \cap Host!HalfRoutes = {}
  <2>1. CASE Alive
    <3>1. Exit \/ TunCrash \/ Kill
      BY <1>2, <2>1, MainMoves DEF Alive
    <3> QED
      BY <3>1 DEF Exit, TunCrash, Kill, Host!DeviceGone
  <2>2. CASE ~Alive
    BY <1>h, <1>n, <2>2 DEF Routed, Doing
  <2> QED
    BY <2>1, <2>2
<1>3. ASSUME "server" \in routes' PROVE autoRoute'
  <2>1. AddServer => autoRoute
    BY DoingComes DEF AddServer, Flow
  <2> QED
    BY <1>3, <1>g, <1>n, <2>1 DEF Routed
<1>4. ASSUME Reaches(todo', "delHigh", {"delLow", "tunClose"}) PROVE "low" \notin routes'
  <2>1. CASE Reaches(todo, "delHigh", {"delLow", "tunClose"})
    <3>1. ~Doing("addLow")
      BY <1>o, <1>s, <2>1, AtHand
    <3> QED
      BY <1>n, <2>1, <3>1 DEF Routed
  <2>2. CASE Makes("delLow")
    BY <2>2, MakesWhich, HostRoutes
  <2> QED
    BY <1>4, <1>c, <1>h, <1>w, <2>1, <2>2
<1>5. ASSUME Reaches(todo', "delServer", {"delLow", "tunClose"}) PROVE "low" \notin routes'
  <2>1. CASE Reaches(todo, "delServer", {"delLow", "tunClose"})
    <3>1. ~Doing("addLow")
      BY <1>o, <1>s, <2>1, AtHand
    <3> QED
      BY <1>n, <2>1, <3>1 DEF Routed
  <2>2. CASE Makes("delLow")
    BY <2>2, MakesWhich, HostRoutes
  <2> QED
    BY <1>5, <1>c, <1>h, <1>w, <2>1, <2>2
<1>6. ASSUME Reaches(todo', "delServer", {"delHigh", "tunClose"}) PROVE "high" \notin routes'
  <2>1. CASE Reaches(todo, "delServer", {"delHigh", "tunClose"})
    <3>1. ~Doing("addHigh")
      BY <1>o, <1>s, <2>1, AtHand
    <3> QED
      BY <1>n, <2>1, <3>1 DEF Routed
  <2>2. CASE Makes("delHigh")
    BY <2>2, MakesWhich, HostRoutes
  <2> QED
    BY <1>6, <1>c, <1>h, <1>w, <2>1, <2>2
<1>7. ASSUME NEW x \in {"addLow", "addHigh"}, Reaches(todo', x, {"addServer", "tunClose"}),
             tun' = "open", ~unexcluded'
      PROVE  "server" \in routes'
  <2>1. CASE Makes("addServer")
    BY <1>7, <2>1, MakesWhich, UnexcludedMoves DEF AddServer
  <2>2. CASE Reaches(todo, x, {"addServer", "tunClose"})
    <3>1. ~TunOpen
      BY <1>o, <2>2, TunOpenEffect
    <3>2. tun = "open"
      BY <1>7, <3>1, TunMoves
    <3>3. CASE AddServer
      BY <1>7, <3>3 DEF AddServer
    <3>4. CASE ~AddServer
      <4>1. "server" \in routes
        BY <1>7, <2>2, <3>2, <3>4, UnexcludedMoves DEF Routed
      <4>2. ~Doing("delServer")
        BY <1>o, <1>s, <2>2, AtHand
      <4> QED
        BY <1>h, <4>1, <4>2, RoutesMove
    <3> QED
      BY <3>3, <3>4
  <2>3. ~Reaches(StopSteps, x, {"addServer", "tunClose"})
        /\ ~Reaches(ErrorSteps, x, {"addServer", "tunClose"})
    BY StopReaches, ErrorReaches, TeardownReaches
  <2> QED
    BY <1>7, <1>c, <1>o, <2>1, <2>2, <2>3, NewReaches
<1>8. ASSUME Reaches(todo', "tunReset", {"tunClose"}) PROVE tun' # "open"
  <2>1. CASE Reaches(todo, "tunReset", {"tunClose"})
    <3>1. ~TunOpen
      BY <1>o, <2>1, TunOpenEffect
    <3> QED
      BY <2>1, <3>1, TunMoves DEF Routed
  <2>2. ~Reaches(StopSteps, "tunReset", {"tunClose"})
        /\ ~Reaches(ErrorSteps, "tunReset", {"tunClose"})
    BY StopReaches, ErrorReaches, TeardownReaches
  <2> QED
    BY <1>8, <1>c, <1>o, <1>s, <2>1, <2>2, NewReaches
<1>9. ASSUME ~unexcluded', routes' \cap Host!HalfRoutes # {} PROVE "server" \in routes'
  <2>1. CASE AddServer
    BY <1>9, <2>1 DEF AddServer
  <2>2. CASE ~AddServer
    <3>1. ~unexcluded
      BY <1>9, <2>2, UnexcludedMoves
    <3>2. CASE routes \cap Host!HalfRoutes # {}
      <4>1. "server" \in routes
        BY <3>1, <3>2 DEF Routed, NoRoutingLoop
      <4>2. ~Doing("delServer")
        <5>1. Doing("delServer") => /\ Reaches(todo, "delServer", {"delLow", "tunClose"})
                                    /\ Reaches(todo, "delServer", {"delHigh", "tunClose"})
          BY <1>o, AtHand
        <5> QED
          BY <1>h, <3>2, <5>1 DEF Routed
      <4> QED
        BY <1>h, <4>1, <4>2, RoutesMove
    <3>3. CASE routes \cap Host!HalfRoutes = {}
      <4>1. PICK x \in {"addLow", "addHigh"} : HostStep /\ Doing(x) /\ tun = "open"
        BY <1>9, <1>h, <1>n, <3>3
      <4>2. Reaches(todo, x, {"addServer", "tunClose"})
        BY <1>o, <4>1, AtHand
      <4>3. "server" \in routes
        BY <3>1, <4>1, <4>2 DEF Routed
      <4>4. routes \subseteq routes'
        BY <4>1, HostRoutes
      <4> QED
        BY <4>3, <4>4
    <3> QED
      BY <3>2, <3>3
  <2> QED
    BY <2>1, <2>2
<1>10. ASSUME NEW r, NEW x, NEW d, <<r, x, d>> \in {<<"low", "addLow", "delLow">>, <<"high", "addHigh", "delHigh">>},
              Alive', tun' = "open", autoRoute', gateway'
       PROVE  r \in routes' \/ Coming(x)' \/ Coming("tunClose")'
  <2>1. CASE TunOpen
    <3>1. todo' = RouteSetup \o <<"startTun">>
      BY <1>10, <1>o, <2>1, TunOpenEffect
    <3> QED
      BY <1>10, <1>g, <3>1, SetupAll DEF Coming
  <2>2. CASE ~TunOpen
    <3>1. tun = "open" /\ ~Restart
      BY <1>10, <2>2, TunMoves DEF Restart
    <3>2. ~Exit /\ ~TunCrash /\ ~Kill
      BY <1>10 DEF Exit, TunCrash, Kill, Alive
    <3>3. Alive
      BY <1>10, <3>1, <3>2, MainMoves DEF Alive
    <3>4. r \in routes \/ Coming(x) \/ Coming("tunClose")
      BY <1>10, <1>g, <3>1, <3>3 DEF Routed
    <3>5. CASE Coming("tunClose")
      BY <1>10, <1>c, <1>o, <3>1, <3>5, StillComing
    <3>6. CASE Coming(x)
      <4>1. CASE Makes(x)
        BY <1>10, <3>1, <4>1, MakesWhich, HostRoutes
      <4> QED
        BY <1>o, <3>1, <3>6, <4>1, StillComing
    <3>7. CASE r \in routes
      <4>1. ~Unplugs
        BY <1>10, <2>2, <3>2 DEF Unplugs, TunClose
      <4>2. CASE Doing(d) /\ HostStep
        <5>1. Reaches(Tail(todo), "tunClose", {})
          BY <1>10, <1>o, <1>s, <4>2, AtHand
        <5>2. todo' = Tail(todo)
          BY <4>2, DoneEffect DEF DoneStep
        <5> QED
          BY <5>1, <5>2 DEF Coming
      <4>3. CASE ~(Doing(d) /\ HostStep)
        BY <1>10, <3>7, <4>1, <4>3, RoutesMove
      <4> QED
        BY <4>2, <4>3
    <3> QED
      BY <3>4, <3>5, <3>6, <3>7
  <2> QED
    BY <2>1, <2>2
<1>11. NoRoutingLoop'
  BY <1>9 DEF NoRoutingLoop, Host!HalfRoutes
<1>12. ASSUME Alive', tun' = "open", autoRoute', gateway'
       PROVE  /\ "low" \in routes' \/ Coming("addLow")' \/ Coming("tunClose")'
              /\ "high" \in routes' \/ Coming("addHigh")' \/ Coming("tunClose")'
  BY <1>10, <1>12
<1>13. (routes \cap Host!HalfRoutes)' = routes' \cap Host!HalfRoutes
  BY <1>h DEF Host!HalfRoutes
<1> QED
  BY <1>1, <1>2, <1>3, <1>4, <1>5, <1>6, <1>7, <1>8, <1>11, <1>12, <1>13 DEF Routed

\* Nothing to undo in the beginning.
LEMMA UndoneInit == Init => Undone
BY ReachesEmpty
   DEF Init, Undone, RestoredAtEnd, Host!HostInit, Coming, ThreadPoints

\* Who changes resolv.conf and its backup.
LEMMA SettingsMove ==
    ASSUME [Next]_vars
    PROVE  \/ UNCHANGED <<resolv, backup>>
           \/ /\ HostStep /\ Doing("restoreResolv")
              /\ resolv' = IF backup = "none" THEN resolv ELSE backup
              /\ backup' = "none"
           \/ HostStep /\ Doing("backupResolv") /\ backup' = resolv /\ resolv' = resolv
           \/ HostStep /\ Doing("writeResolv") /\ resolv' = "tunnel" /\ backup' = backup
<1>1. CASE HostStep
  BY <1>1 DEF HostStep, Host!RestoreResolv, Host!DeleteRoute, Host!AddRoute, Host!BackupResolv,
              Host!WriteResolv, hostVars
<1>2. CASE ~HostStep
  BY <1>2 DEF Next, MainStep, vars, hostVars, Host!DeviceGone, Host!AddRoute, RunBegins,
      RunConnects, LeavesLoop, Exit, Stop, WsClose, IocStop, TunClose, OnError, TunReset,
      Reconnect, TunOpen, AddServer, StartTun, WsCloseReturns, Signal, TimerFires, Opens,
      Writes, Fails, AuthResponse, TunCheck, TunUse, TunSend, TunCrash, Kill, Restart
<1> QED
  BY <1>1, <1>2

\* What each of these steps does.
LEMMA HostSettings ==
    ASSUME HostStep
    PROVE  /\ Doing("restoreResolv") => /\ resolv' = IF backup = "none" THEN resolv ELSE backup
                                        /\ backup' = "none"
           /\ Doing("backupResolv") => backup' = resolv /\ resolv' = resolv
BY DEF HostStep, Doing, Host!RestoreResolv, Host!BackupResolv

\* A signal interrupts if it falls on a set-up, and nothing else does.
LEMMA InterruptedStays ==
    ASSUME [Next]_vars
    PROVE  \/ interrupted' = interrupted
           \/ /\ Signal
              /\ interrupted' = (interrupted \/ \E i \in 1..Len(todo) : todo[i] \in SetupSteps)
BY DEF Next, MainStep, vars, history, RunBegins, RunConnects, LeavesLoop, Exit, Stop,
      WsClose, IocStop, HostStep, TunClose, OnError, TunReset, Reconnect, TunOpen, AddServer,
      StartTun, WsCloseReturns, Signal, TimerFires, Opens, Writes, Fails, AuthResponse, TunCheck,
      TunUse, TunSend, TunCrash, Kill, Restart

\* Kills are counted.
LEMMA KillsMove ==
    ASSUME [Next]_vars
    PROVE  kills' = kills \/ (Kill /\ kills' = kills + 1)
BY DEF Next, MainStep, vars, history, RunBegins, RunConnects, LeavesLoop, Exit, Stop,
      WsClose, IocStop, HostStep, TunClose, OnError, TunReset, Reconnect, TunOpen, AddServer,
      StartTun, WsCloseReturns, Signal, TimerFires, Opens, Writes, Fails, AuthResponse, TunCheck,
      TunUse, TunSend, TunCrash, Kill, Restart

\* Threads are started by the set-up; otherwise they only move.
LEMMA ThreadsMove ==
    ASSUME TypeOK, [Next]_vars, \E p \in ThreadPoints : tunThreads'[p] > 0
    PROVE  \/ \E p \in ThreadPoints : tunThreads[p] > 0
           \/ StartTun
<1>1. tunThreads \in [ThreadPoints -> Nat] /\ ThreadPoints = {"check", "use", "send"}
  BY DEF TypeOK, ThreadPoints
<1>2. CASE TunCheck \/ TunUse \/ TunSend
  BY <1>1, <1>2 DEF TunCheck, TunUse, TunSend
<1>3. CASE Restart
  BY <1>3 DEF Restart
<1>4. CASE ~(StartTun \/ TunCheck \/ TunUse \/ TunSend \/ Restart)
  <2>1. UNCHANGED tunThreads
    BY <1>4 DEF Next, MainStep, vars, RunBegins, RunConnects, LeavesLoop, Exit, Stop, WsClose,
      IocStop, HostStep, TunClose, OnError, TunReset, Reconnect, TunOpen, AddServer,
      WsCloseReturns, Signal, TimerFires, Opens, Writes, Fails, AuthResponse, TunCrash, Kill
  <2> QED
    BY <2>1
<1> QED
  BY <1>2, <1>3, <1>4

\* Nothing is done for a process that has ended.
LEMMA DeadStays ==
    ASSUME [Next]_vars, ~Alive, ~Restart
    PROVE  UNCHANGED <<main, routes, resolv, backup, kills>>
<1>1. ~TakesHandler /\ \A x : ~Doing(x)
  BY DEF Alive, TakesHandler, Doing
<1>2. UNCHANGED main
  BY MainMoves DEF Alive, RunBegins, RunConnects, LeavesLoop, Exit, TunCrash, Kill
<1>3. UNCHANGED routes
  BY <1>1, RoutesMove DEF Unplugs, TunClose, TunOpen, AddServer, Exit, TunCrash, Kill, Alive
<1>4. UNCHANGED <<resolv, backup>>
  BY <1>1, SettingsMove
<1>5. UNCHANGED kills
  BY KillsMove DEF Kill
<1> QED
  BY <1>2, <1>3, <1>4, <1>5

\* Every step of an undisturbed process keeps what it needs to undo its changes.
LEMMA UndoneStep ==
    ASSUME TypeOK, Flow, Faithful, Routed, Undone, [Next]_vars, TypeOK'
    PROVE  Undone'
<1>o. Ordered(todo) /\ Ordered(todo')
  BY TodoStep DEF Flow
<1>r. CASE Restart
  <2>1. /\ main' = "starting" /\ todo' = <<>> /\ \A p \in ThreadPoints : tunThreads'[p] = 0
        /\ kills' = kills /\ kills > 0 /\ kills \in Nat
    BY <1>r DEF Restart, Flow, TypeOK
  <2>2. \A x, Y : ~Reaches(todo', x, Y)
    BY <2>1, ReachesEmpty
  <2>3. kills' # 0
    BY <2>1
  <2>4. RestoredAtEnd'
    BY <2>1 DEF RestoredAtEnd
  <2> QED
    BY <2>1, <2>2, <2>3, <2>4 DEF Undone, Coming
<1> SUFFICES ASSUME ~Restart, ~interrupted', ~stray' PROVE Undone'
  BY <1>r DEF Undone
<1>s. ~stray /\ ~interrupted
  <2>1. ~stray
    BY StrayStays DEF Fails
  <2>2. ~interrupted
    BY InterruptedStays, Zenon
  <2> QED
    BY <2>1, <2>2
<1>k. kills' = 0 => kills = 0
  BY KillsMove DEF TypeOK
<1>g. autoRoute' = autoRoute /\ gateway' = gateway
  BY Rigid DEF rigid
<1>t. /\ running \in BOOLEAN /\ resolv \in {"original", "tunnel"}
      /\ backup \in {"original", "tunnel", "none"}
  BY DEF TypeOK, Host!HostTypeOK
<1>p. /\ {"addServer", "backupResolv", "writeResolv", "startTun", "tunOpen"} \subseteq SetupSteps
      /\ {"stop", "wsClosing", "onError", "tunClose", "delServer", "restoreResolv", "tunReset",
          "reconnect", "wsClose", "iocStop", "delLow", "delHigh"} \cap SetupSteps = {}
  BY DEF SetupSteps
\* While the set-up is being made the next step is one of its.
<1>h. ASSUME NEW x, Doing(x), NEW y \in SetupSteps, Coming(y) PROVE x \in SetupSteps /\ running
  BY <1>h, <1>s DEF Undone, Doing
<1>a. ASSUME NEW x \in SetupSteps, Doing(x) PROVE running /\ running' /\ (x # "tunOpen" => tun = "open")
  <2>1. Coming(x)
    BY <1>a, DoingComes
  <2>2. running /\ (x # "tunOpen" => tun = "open")
    BY <1>s, <2>1 DEF Undone
  <2>3. ~Stop
    BY <1>a, <1>p DEF Stop, Doing
  <2> QED
    BY <2>2, <2>3, RunningMoves
\* No new step of the set-up but the first, and those it puts ahead.
<1>n. ASSUME NEW x \in SetupSteps, Coming(x)'
      PROVE  \/ Coming(x)
             \/ x = "tunOpen" /\ todo' = <<"tunOpen">> /\ \E g \in Transports : AuthResponse(g)
             \/ TunOpen /\ tun' = "open" /\ x # "tunOpen"
  <2>1. ~Reaches(StopSteps, x, {}) /\ ~Reaches(ErrorSteps, x, {})
    BY StopReaches, ErrorReaches, TeardownReaches DEF SetupSteps
  <2>2. ASSUME NEW g \in Transports, AuthResponse(g), x = "tunOpen" PROVE todo' = <<"tunOpen">>
    <3>1. PICK a \in {"tunOpen", "stop"} : todo' = <<a>>
      BY <2>2 DEF AuthResponse
    <3>2. Reaches(<<a>>, x, {})
      BY <1>n, <3>1 DEF Coming
    <3> QED
      BY <2>2, <3>1, <3>2, ReachesOne
  <2> QED
    BY <1>n, <1>o, <1>p, <2>1, <2>2, NewComing
<1>1. ASSUME NEW x \in SetupSteps, Coming(x)'
      PROVE  Head(todo') \in SetupSteps /\ running'
  <2>1. ASSUME NEW g \in Transports, AuthResponse(g), todo' = <<"tunOpen">>
        PROVE  Head(todo') \in SetupSteps /\ running'
    <3>1. main = "loop" /\ ~iocStopped /\ ~Coming("iocStop") /\ running' = running
      BY <2>1, ReachesEmpty DEF AuthResponse, TakesHandler, Coming, flags
    <3>2. running'
      BY <1>t, <3>1 DEF Flow
    <3>3. Head(<<"tunOpen">>) = "tunOpen"
      OBVIOUS
    <3> QED
      BY <1>p, <2>1, <3>2, <3>3
  <2>2. CASE TunOpen
    <3>1. tun' = "open"
      BY <1>1, <1>o, <1>p, <2>2, TunOpenComing DEF Coming
    <3>2. Head(todo') \in SetupSteps
      BY <1>o, <2>2, <3>1, TunOpenEffect
    <3>3. running'
      BY <1>a, <1>p, <2>2 DEF TunOpen
    <3> QED
      BY <3>2, <3>3
  <2>3. CASE Coming(x) /\ ~TunOpen
    <3>1. Head(todo) \in SetupSteps /\ running
      BY <1>s, <2>3 DEF Undone
    <3>2. ~Stop
      BY <1>p, <3>1 DEF Stop, Doing
    <3>3. running'
      BY <3>1, <3>2, RunningMoves
    <3>4. CASE DoneStep
      <4>1. todo' = Tail(todo) /\ todo # <<>> /\ todo \in Seq(Steps) /\ todo' \in Seq(Steps)
        BY <3>4, DoneEffect DEF TypeOK
      <4>2. todo' # <<>>
        BY <1>1, ReachesEmpty DEF Coming
      <4>3. Reaches(todo', Head(todo'), {})
        BY <4>1, <4>2, ReachesHead
      <4>4. Head(todo') \in SetupSteps
        BY <1>o, <3>1, <4>1, <4>3, OrderedHead
      <4> QED
        BY <3>3, <4>4
    <3>5. CASE todo' = todo
      BY <3>1, <3>3, <3>5
    <3>6. CASE Signal /\ main # "leaving"
      <4>1. \E i \in 1 .. Len(todo) : todo[i] \in SetupSteps
        <5>1. PICK i \in DOMAIN todo : todo[i] = x
          BY <2>3 DEF Coming, Reaches
        <5>2. DOMAIN todo = 1 .. Len(todo)
          BY DEF TypeOK
        <5> QED
          BY <5>1, <5>2
      <4> QED
        BY <3>6, <4>1 DEF Signal
    <3>7. ~WsClose /\ ~OnError /\ ~TakesHandler /\ ~LeavesLoop
      <4>1. todo # <<>>
        BY <2>3, ReachesEmpty DEF Coming
      <4> QED
        BY <1>p, <3>1, <4>1 DEF WsClose, OnError, Doing, TakesHandler, LeavesLoop
    <3>8. Signal => main # "leaving" \/ todo' = todo
      BY DEF Signal
    <3>9. CASE \/ RunBegins \/ RunConnects \/ Exit \/ TimerFires
               \/ (\E g \in Transports : Opens(g) \/ Writes(g))
               \/ TunCheck \/ TunUse \/ TunSend \/ TunCrash \/ Kill \/ UNCHANGED vars
      BY <3>5, <3>9, TodoKept
    <3>10. \A g \in Transports : ~Fails(g) /\ ~AuthResponse(g)
      BY <3>7 DEF Fails, AuthResponse
    <3> QED
      BY <2>3, <3>2, <3>4, <3>5, <3>6, <3>7, <3>8, <3>9, <3>10 DEF Next, MainStep, DoneStep
  <2> QED
    BY <1>1, <1>n, <2>1, <2>2, <2>3
<1>2. ASSUME NEW x \in SetupSteps \ {"tunOpen"}, Coming(x)' PROVE tun' = "open"
  <2>1. CASE Coming(x)
    <3>1. tun = "open"
      BY <1>s, <2>1 DEF Undone
    <3>2. ~TunClose /\ ~TunReset
      BY <1>h, <1>p, <2>1 DEF TunClose, TunReset
    <3>3. ~TunOpen
      BY <1>o, <2>1, TunOpenEffect DEF Coming
    <3> QED
      BY <3>1, <3>2, <3>3, TunMoves
  <2> QED
    BY <1>2, <1>n, <2>1
\* What stop() has still to undo.
<1>b. ASSUME main' \in {"resolving", "loop", "leaving"}, ~running'
      PROVE  \/ Stop /\ running /\ routes' = routes /\ resolv' = resolv
             \/ main \in {"resolving", "loop", "leaving"} /\ ~running
  <2>1. main \in {"resolving", "loop", "leaving"}
    BY <1>b, MainMoves DEF RunBegins
  <2> QED
    BY <1>b, <2>1, RunningMoves DEF Stop, hostVars, RunBegins
<1>3. ASSUME main' \in {"resolving", "loop", "leaving"}, ~running', "server" \in routes'
      PROVE  Coming("delServer")'
  <2>1. CASE Stop /\ running /\ routes' = routes
    <3>1. autoRoute
      BY <1>3, <2>1 DEF Routed
    <3>2. Reaches(StopSteps, "delServer", {})
      BY <3>1, StopReaches, TeardownReaches
    <3> QED
      BY <2>1, <3>2, StopComing
  <2>2. CASE main \in {"resolving", "loop", "leaving"} /\ ~running
    <3>1. ~AddServer
      BY <1>a, <1>p, <2>2 DEF AddServer
    <3>2. "server" \in routes
      BY <1>3, <3>1, RoutesMove
    <3>3. Coming("delServer")
      BY <1>s, <2>2, <3>2 DEF Undone
    <3>4. ~Makes("delServer")
      BY <1>3, MakesWhich, HostRoutes
    <3> QED
      BY <1>o, <3>3, <3>4, StillComing
  <2> QED
    BY <1>3, <1>b, <2>1, <2>2
<1>4. ASSUME \E p \in ThreadPoints : tunThreads'[p] > 0, "server" \in routes' PROVE tun' = "open"
  <2>1. CASE StartTun
    BY <1>a, <1>p, <2>1 DEF StartTun
  <2>2. CASE AddServer
    BY <1>a, <1>p, <2>2 DEF AddServer
  <2>3. CASE ~StartTun /\ ~AddServer
    <3>1. "server" \in routes
      BY <1>4, <2>3, RoutesMove
    <3>2. tun = "open"
      BY <1>4, <1>s, <2>3, <3>1, ThreadsMove DEF Undone
    <3>3. ~TunClose
      <4>1. Doing("tunClose") => Reaches(todo, "tunClose", {"delServer"})
        BY <1>o, AtHand
      <4> QED
        BY <1>s, <3>1, <4>1 DEF TunClose, Undone
    <3>4. ~TunReset
      <4>1. Doing("tunReset") => Reaches(todo, "tunReset", {"tunClose"})
        BY <1>o, AtHand
      <4> QED
        BY <3>2, <4>1 DEF TunReset, Routed
    <3>5. ~TunOpen
      BY <1>s, <3>2, DoingComes DEF TunOpen, Faithful
    <3> QED
      BY <3>2, <3>3, <3>4, <3>5, TunMoves
  <2> QED
    BY <2>1, <2>2, <2>3
<1>5. ASSUME Reaches(todo', "tunClose", {"delServer"}) PROVE "server" \notin routes'
  <2>1. CASE Reaches(todo, "tunClose", {"delServer"})
    <3>1. ~AddServer
      BY <1>o, <1>p, <2>1, AtHand DEF AddServer
    <3> QED
      BY <1>s, <2>1, <3>1, RoutesMove DEF Undone
  <2>2. CASE Makes("delServer")
    BY <2>2, MakesWhich, HostRoutes
  <2>3. CASE (Stop /\ Reaches(StopSteps, "tunClose", {"delServer"}))
             \/ (OnError /\ Reaches(ErrorSteps, "tunClose", {"delServer"}))
    <3>1. ~autoRoute
      BY <2>3, StopReaches, ErrorReaches, TeardownReaches
    <3>2. routes' = routes
      BY <2>3 DEF Stop, OnError, hostVars
    <3> QED
      BY <3>1, <3>2 DEF Routed
  <2> QED
    BY <1>5, <1>o, <1>p, <2>1, <2>2, <2>3, NewReaches
<1>6. ASSUME kills' = 0
      PROVE  /\ backup' # "tunnel"
             /\ resolv' = "tunnel" => backup' = "original" /\ tun' = "open"
             /\ main' \in {"resolving", "loop", "leaving"} /\ ~running' /\ resolv' = "tunnel" =>
                   Coming("restoreResolv")'
             /\ Reaches(todo', "tunClose", {"restoreResolv"}) => resolv' = "original"
             /\ Coming("backupResolv")' => resolv' = "original"
             /\ Reaches(todo', "writeResolv", {"backupResolv"}) => backup' = "original"
  <2>u. /\ backup # "tunnel"
        /\ resolv = "tunnel" => backup = "original" /\ tun = "open"
        /\ main \in {"resolving", "loop", "leaving"} /\ ~running /\ resolv = "tunnel" =>
              Coming("restoreResolv")
        /\ Reaches(todo, "tunClose", {"restoreResolv"}) => resolv = "original"
        /\ Coming("backupResolv") => resolv = "original"
        /\ Reaches(todo, "writeResolv", {"backupResolv"}) => backup = "original"
    BY <1>6, <1>k, <1>s DEF Undone
  <2>b. Doing("backupResolv") => resolv = "original"
    BY <2>u, DoingComes
  <2>w. Doing("writeResolv") => backup = "original" /\ tun = "open"
    <3>1. Doing("writeResolv") => Reaches(todo, "writeResolv", {"backupResolv"})
      BY <1>o, AtHand
    <3> QED
      BY <1>a, <1>p, <2>u, <3>1
  <2>r. HostStep /\ Doing("restoreResolv") => resolv' = "original"
    BY <1>t, <2>u, HostSettings
  <2>1. backup' # "tunnel"
    BY <2>u, <2>b, SettingsMove
  \* Only "writeResolv" makes the settings the tunnel's.
  <2>2. ASSUME resolv' = "tunnel" PROVE resolv = "tunnel" \/ (HostStep /\ Doing("writeResolv"))
    BY <2>2, <2>r, SettingsMove
  <2>3. ASSUME resolv' = "tunnel" PROVE backup' = "original" /\ tun' = "open"
    <3>1. CASE HostStep /\ Doing("writeResolv")
      <4>1. ~Doing("restoreResolv") /\ ~Doing("backupResolv")
        BY <3>1 DEF Doing
      <4> QED
        BY <2>w, <3>1, <4>1, SettingsMove, HostRoutes
    <3>2. CASE resolv = "tunnel" /\ ~(HostStep /\ Doing("writeResolv"))
      <4>1. backup = "original" /\ tun = "open"
        BY <2>u, <3>2
      <4>2. backup' = "original"
        BY <2>3, <2>b, <2>r, <3>2, <4>1, SettingsMove
      <4>3. ~TunClose
        <5>1. Doing("tunClose") => Reaches(todo, "tunClose", {"restoreResolv"})
          BY <1>o, AtHand
        <5> QED
          BY <2>u, <3>2, <5>1 DEF TunClose
      <4>4. ~TunReset
        <5>1. Doing("tunReset") => Reaches(todo, "tunReset", {"tunClose"})
          BY <1>o, AtHand
        <5> QED
          BY <4>1, <5>1 DEF TunReset, Routed
      <4>5. ~TunOpen
        BY <1>s, <4>1, DoingComes DEF TunOpen, Faithful
      <4> QED
        BY <4>1, <4>2, <4>3, <4>4, <4>5, TunMoves
    <3> QED
      BY <2>2, <2>3, <3>1, <3>2
  <2>4. ASSUME main' \in {"resolving", "loop", "leaving"}, ~running', resolv' = "tunnel"
        PROVE  Coming("restoreResolv")'
    <3>1. CASE Stop /\ running
      <4>1. Reaches(StopSteps, "restoreResolv", {})
        BY StopReaches
      <4> QED
        BY <3>1, <4>1, StopComing
    <3>2. CASE main \in {"resolving", "loop", "leaving"} /\ ~running
      <4>1. resolv = "tunnel"
        BY <1>a, <1>p, <2>2, <2>4, <3>2
      <4>2. ~Makes("restoreResolv")
        BY <2>4, <2>r, MakesWhich
      <4> QED
        BY <1>o, <2>u, <3>2, <4>1, <4>2, StillComing
    <3> QED
      BY <1>b, <2>4, <3>1, <3>2
  <2>5. ASSUME Reaches(todo', "tunClose", {"restoreResolv"}) PROVE resolv' = "original"
    <3>1. CASE Reaches(todo, "tunClose", {"restoreResolv"})
      <4>1. resolv = "original" /\ ~Doing("writeResolv")
        BY <1>o, <1>p, <2>u, <3>1, AtHand
      <4> QED
        BY <2>r, <4>1, SettingsMove
    <3>2. CASE Makes("restoreResolv")
      BY <2>r, <3>2, MakesWhich
    <3>3. ~Reaches(StopSteps, "tunClose", {"restoreResolv"})
          /\ ~Reaches(ErrorSteps, "tunClose", {"restoreResolv"})
      BY StopReaches, ErrorReaches, TeardownReaches
    <3> QED
      BY <1>o, <1>p, <2>5, <3>1, <3>2, <3>3, NewReaches
  <2>6. ASSUME Coming("backupResolv")' PROVE resolv' = "original"
    <3>1. CASE TunOpen
      <4>1. tun # "open" /\ ~HostStep
        BY <1>s, <3>1, DoingComes DEF TunOpen, Faithful, HostStep, Doing
      <4> QED
        BY <1>t, <2>u, <4>1, SettingsMove
    <3>2. CASE Coming("backupResolv")
      <4>1. resolv = "original"
        BY <2>u, <3>2
      <4>2. ~(HostStep /\ Doing("writeResolv"))
        <5> SUFFICES ASSUME HostStep, Doing("writeResolv") PROVE FALSE
          OBVIOUS
        <5>1. todo # <<>> /\ Head(todo) = "writeResolv" /\ todo \in Seq(Steps)
          BY DEF Doing, TypeOK
        <5>2. todo' = Tail(todo)
          BY DoneEffect DEF DoneStep
        <5> QED
          BY <1>o, <2>6, <5>1, <5>2, OrderedHead DEF Coming
      <4> QED
        BY <2>r, <4>1, <4>2, SettingsMove
    <3> QED
      BY <1>n, <1>p, <2>6, <3>1, <3>2
  <2>7. ASSUME Reaches(todo', "writeResolv", {"backupResolv"}) PROVE backup' = "original"
    <3>1. CASE Reaches(todo, "writeResolv", {"backupResolv"})
      <4>1. backup = "original"
        BY <2>u, <3>1
      <4>2. ~Doing("restoreResolv")
        <5>1. Coming("writeResolv")
          BY <3>1, ReachesMore DEF Coming
        <5> QED
          BY <1>h, <1>p, <5>1
      <4> QED
        BY <2>b, <4>1, <4>2, SettingsMove
    <3>2. CASE Makes("backupResolv")
      BY <2>b, <3>2, MakesWhich, HostSettings
    <3>3. ~Reaches(StopSteps, "writeResolv", {"backupResolv"})
          /\ ~Reaches(ErrorSteps, "writeResolv", {"backupResolv"})
      BY StopReaches, ErrorReaches, TeardownReaches
    <3> QED
      BY <1>o, <1>p, <2>7, <3>1, <3>2, <3>3, NewReaches
  <2> QED
    BY <2>1, <2>3, <2>4, <2>5, <2>6, <2>7
<1>7. ASSUME main' \in {"exited", "crashed"} PROVE routes' = {} /\ (kills' = 0 => resolv' = "original")
  <2>r. routes \subseteq {"server"} \cup Host!HalfRoutes
    BY DEF TypeOK, Host!HostTypeOK
  <2>1. CASE Exit
    <3>1. main = "leaving" /\ todo = <<>> /\ routes' = routes \ Host!HalfRoutes /\ resolv' = resolv
      BY <2>1 DEF Exit, Host!DeviceGone
    <3>2. \A x : ~Coming(x)
      BY <3>1, ReachesEmpty DEF Coming
    <3>3. ~running
      BY <3>1, <3>2 DEF Flow
    <3>4. "server" \notin routes /\ (kills = 0 => resolv # "tunnel")
      BY <1>s, <3>1, <3>2, <3>3 DEF Undone
    <3> QED
      BY <1>k, <1>t, <2>r, <3>1, <3>4
  <2>2. CASE TunCrash
    <3>1. tunThreads["use"] > 0 /\ "use" \in ThreadPoints /\ tun = "null"
          /\ routes' = routes \ Host!HalfRoutes /\ resolv' = resolv
      BY <2>2 DEF TunCrash, Host!DeviceGone, ThreadPoints
    <3>4. "server" \notin routes /\ (kills = 0 => resolv # "tunnel")
      BY <1>s, <3>1 DEF Undone
    <3> QED
      BY <1>k, <1>t, <2>r, <3>1, <3>4
  <2>3. CASE main \in {"exited", "crashed"}
    <3>1. ~Alive
      BY <2>3 DEF Alive
    <3> QED
      BY <1>s, <2>3, <3>1, DeadStays DEF Undone, RestoredAtEnd
  <2> QED
    BY <1>7, <2>1, <2>2, <2>3, MainMoves
<1>8. RestoredAtEnd'
  BY <1>7 DEF RestoredAtEnd
<1> QED
  BY <1>1, <1>2, <1>3, <1>4, <1>5, <1>6, <1>8 DEF Undone

----------------------------------------------------------------------------
(* The theorems.                                                           *)

\* For any number of transports, frames and kills, every state the client reaches satisfies
\* the inductive invariant: what the main thread has still to do (run, stop, on_error,
\* setup_routes, ...), the transports, the tunnel, the routes and the DNS settings fit
\* together, wherever a signal or a kill falls.
THEOREM Invariant == Spec => []IInv
<1>1. Init => IInv
  BY TypeInit, TransportedInit, AttemptsInit, FlowInit, FaithfulInit, RoutedInit, UndoneInit
     DEF IInv
<1>2. IInv /\ [Next]_vars => IInv'
  <2> SUFFICES ASSUME IInv, [Next]_vars PROVE IInv'
    OBVIOUS
  <2>1. TypeOK /\ Transported /\ Attempts /\ Flow /\ Faithful /\ Routed /\ Undone /\ Ordered(todo)
    BY DEF IInv, Flow
  <2>2. TypeOK'
    BY <2>1, TypeStep
  <2>3. Transported' /\ Attempts' /\ Flow'
    BY <2>1, TransportedStep, AttemptsStep, FlowStep
  <2>4. Faithful' /\ Routed' /\ Undone'
    BY <2>1, <2>2, FaithfulStep, RoutedStep, UndoneStep
  <2> QED
    BY <2>2, <2>3, <2>4 DEF IInv
<1> QED
  BY <1>1, <1>2, PTL DEF Spec

\* The client's state keeps its type: the counters of frames and threads never go below
\* zero, and the delay schedule_reconnect computes is always within its maximum.
THEOREM TypeCorrect == Spec => []TypeOK
<1>1. IInv => TypeOK
  BY DEF IInv
<1> QED
  BY <1>1, Invariant, PTL

\* The address space is never routed into the tunnel without the server's own route outside
\* it (setup_routes, teardown_routes and stop() in any interleaving with signals and kills),
\* unless the command that adds that route failed.
THEOREM NoRoutingLoopHolds == Spec => []NoRoutingLoop
<1>1. IInv => NoRoutingLoop
  BY DEF IInv, Routed
<1> QED
  BY <1>1, Invariant, PTL

\* However many operations of however many transports fail and call on_error, at most one
\* attempt to connect is under way or waited for, and always for one second.
THEOREM OneAttemptHolds == Spec => []OneAttempt
<1>1. IInv => OneAttempt
  <2> SUFFICES ASSUME IInv PROVE OneAttempt
    OBVIOUS
  <2> DEFINE C == {g \in Transports : stage[g] = "connecting"}
  <2>1. timer \in 0 .. 60
    BY DEF IInv, TypeOK, MaxDelay
  <2>2. timer > 0 => timer = 1 /\ C = {}
    BY DEF IInv, Attempts
  <2>3. C \subseteq {current}
    BY DEF IInv, Transported
  <2>4. Cardinality({}) = 0 /\ Cardinality({current}) = 1
    BY FS_EmptySet, FS_Singleton
  <2>5. C = {} \/ C = {current}
    BY <2>3
  <2> HIDE DEF C
  <2>6. Cardinality(C) \in {0, 1} /\ (C = {} => Cardinality(C) = 0)
    BY <2>4, <2>5
  <2>7. Cardinality(C) + (IF timer > 0 THEN 1 ELSE 0) <= 1
    BY <2>2, <2>6
  <2> QED
    BY <2>2, <2>7, DelayOne DEF OneAttempt, C
<1> QED
  BY <1>1, Invariant, PTL

\* When the process has ended by itself, by main()'s return or by a crash of a TUN thread
\* that used a destroyed device, routes and DNS are as it found them, unless a signal came
\* in the middle of set-up, an old transport's error was taken for the current one's, or
\* (for the DNS) an earlier process was killed.
THEOREM RestoredAtEndHolds == Spec => []RestoredAtEnd
<1>1. IInv => RestoredAtEnd
  BY DEF IInv, Undone, RestoredAtEnd
<1> QED
  BY <1>1, Invariant, PTL

\* Between two handlers an open tunnel belongs to a connected client and carries its routes,
\* unless an old transport's error has hit the newer connection: on_error and stop() take it
\* down before the io_context goes on.
THEOREM TunnelOwnedHolds == Spec => []TunnelOwned
<1>1. IInv => TunnelOwned
  <2> SUFFICES ASSUME IInv, main = "loop", todo = <<>>, tun = "open", ~stray
               PROVE  connected /\ (autoRoute /\ gateway => Host!HalfRoutes \subseteq routes)
    BY DEF TunnelOwned
  <2>1. \A x : ~Coming(x)
    BY ReachesEmpty DEF Coming
  <2>2. connected
    BY <2>1 DEF IInv, Faithful
  <2>3. autoRoute /\ gateway => "low" \in routes /\ "high" \in routes
    BY <2>1 DEF IInv, Routed, Alive
  <2> QED
    BY <2>2, <2>3 DEF Host!HalfRoutes
<1> QED
  BY <1>1, Invariant, PTL
=============================================================================
