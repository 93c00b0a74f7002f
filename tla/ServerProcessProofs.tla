------------------------ MODULE ServerProcessProofs -------------------------
(***************************************************************************)
(* Theorems of ServerProcess for any number of rules, of connections and   *)
(* of faults and any width of the counters: what a host that runs, kills   *)
(* and restarts the server keeps.  The invariants of Acceptor are those of *)
(* the process that listens (AcceptorPart).  The others rest on which      *)
(* process holds the interface, and on what it had done when it got it:    *)
(* Started is that, process by process, and Exclusive what it does for the *)
(* rules.                                                                  *)
(***************************************************************************)
EXTENDS ServerProcess, AcceptorProofs

----------------------------------------------------------------------------
(* The inductive invariant.                                                *)

\* The memory of the process that listens, or that of none.
AcceptorPart ==
    /\ IInv /\ Counted /\ Reached
    /\ listener = Dev!Nobody => NotListening

\* Calls of open() that are made with the interface attached.
Attached == DOMAIN Dev!NextIoctl \cup {"socket", "opened"}

\* What process p has done by the point its main thread is at.
Started(p) ==
    /\ pc[p] \in Down \cup {"main", "setupTls"} => opening[p] = "idle"
    /\ pc[p] \in {"forward", "check", "add", "listen", "serving"} => opening[p] = "opened"
    /\ opening[p] \in {"idle", "node"} => ~fd[p]
    /\ pc[p] = "add" => rule[p] \in Filter!Rules
    /\ pc[p] \in {"listen", "serving"} => rule[p] \notin Filter!Rules
    /\ pc[p] \in {"check", "add", "listen", "serving"} => forwarding \/ 0 \in refused
    /\ \A r \in Filter!Rules : r < rule[p] => Filter!Present(r) \/ r \in refused

\* A process that has attached the interface holds it until it is told to stop, and
\* throughout its start unless a signal closed its device in the middle.
Holds(p) ==
    /\ opening[p] \in Attached =>
          \/ holder = p
          \/ stopped[p] /\ (cutShort \/ pc[p] \notin {"open", "forward", "check", "add"})
    /\ opening[p] = "opened" => configured \/ stopped[p]

\* No two processes are between a check and its addition, so what is added is absent.
Exclusive ==
    ~cutShort /\ ~misled =>
        /\ \A r \in Filter!Rules : copies[r] <= 1
        /\ \A p \in Procs : pc[p] = "add" => copies[rule[p]] = 0

ProcessInv ==
    /\ ProcessTypeOK
    /\ AcceptorPart
    /\ DescriptorsOwned
    /\ \A p \in Procs : Started(p) /\ Holds(p)
    /\ Exclusive

----------------------------------------------------------------------------
(* The memory of the process that listens.                                 *)

\* A process that does not listen yet satisfies Acceptor's invariants.
LEMMA NotListeningSafe == NotListening /\ tls \in BOOLEAN => IInv /\ Counted /\ Reached
<1> SUFFICES ASSUME NotListening, tls \in BOOLEAN PROVE IInv /\ Counted /\ Reached
  OBVIOUS
<1>1. TypeOK
  <2>1. arrived \in 0 .. MaxConns /\ nextSessionId \in Words /\ nextOffset \in Words
    BY SpanAssumption, BoundAssumption DEF NotListening, Words
  <2>2. /\ phase \in [Conns -> Phases]
        /\ sid \in [Conns -> Words] /\ vip \in [Conns -> Words]
    BY SpanAssumption DEF NotListening, Phases, Words
  <2>3. /\ sessions \in [Words -> Conns \cup {NoConn}]
        /\ ipToSession \in [Words -> Words \cup {NoSession}]
    BY DEF NotListening
  <2> QED
    BY <2>1, <2>2, <2>3 DEF NotListening, TypeOK
<1>2. Arrivals /\ OneAtATime /\ Paired /\ SessionsInv /\ RouteTableConsistent
  BY DEF NotListening, Arrivals, OneAtATime, InOnAccept, Paired, Addressed, SessionsInv,
         RouteTableConsistent
<1>3. InStep
  BY SpanAssumption DEF NotListening, InStep, Increment
<1>4. Counted /\ Reached
  BY CountedFirst DEF NotListening, Counted, InOnAccept, Reached, Entered
<1> QED
  BY <1>1, <1>2, <1>3, <1>4 DEF IInv

\* What a step of the host is to Acceptor: a step of the listening process, or none;
\* its end; or the start of another.
LEMMA MemoryStep ==
    ASSUME ProcessTypeOK, [ProcessNext]_processVars
    PROVE  \/ UNCHANGED <<vars, listener>>
           \/ Next /\ up /\ UNCHANGED listener
           \/ ForgetConnections /\ listener' = Dev!Nobody
           \/ /\ listener = Dev!Nobody /\ listener' # Dev!Nobody
              /\ UNCHANGED <<tls, arrived, counters, phase, sid, vip, tables>>
              /\ up' /\ accepting'
<1> DEFINE Goal == \/ UNCHANGED <<vars, listener>>
                   \/ Next /\ up /\ UNCHANGED listener
                   \/ ForgetConnections /\ listener' = Dev!Nobody
                   \/ /\ listener = Dev!Nobody /\ listener' # Dev!Nobody
                      /\ UNCHANGED <<tls, arrived, counters, phase, sid, vip, tables>>
                      /\ up' /\ accepting'
<1>1. ASSUME NEW p \in Procs, Dies(p) PROVE Goal
  BY <1>1 DEF Dies
<1>2. ASSUME NEW p \in Procs, Listen(p) PROVE Goal
  <2>1. p # Dev!Nobody
    BY DEF Procs, Dev!Nobody
  <2> QED
    BY <1>2, <2>1 DEF Listen
<1>3. ASSUME NEW p \in Procs,
             \/ Start(p) \/ Construct(p) \/ SetupTls(p) \/ OpenDevice(p) \/ OpenReturns(p)
             \/ EnableForwarding(p) \/ RulePresent(p) \/ RuleAbsent(p) \/ AddRule(p)
             \/ RulesDone(p) \/ RunReturns(p) \/ OpenDeviceFault(p) \/ EnableForwardingFails(p)
             \/ CheckFails(p) \/ AddRuleFails(p) \/ HandlerBlocks(p) \/ Signal(p)
             \/ SignalInLogger(p)
      PROVE  UNCHANGED <<vars, listener>>
  BY <1>3 DEF Start, Construct, SetupTls, OpenDevice, OpenReturns, EnableForwarding,
              RulePresent, RuleAbsent, AddRule, RulesDone, RunReturns, OpenDeviceFault,
              EnableForwardingFails, CheckFails, AddRuleFails, HandlerBlocks, Signal,
              SignalInLogger, SameControl, control
<1>4. ASSUME NEW p \in Procs,
             SetupTlsThrows(p) \/ ListenThrows(p) \/ Exit(p) \/ Aborts(p) \/ Kill(p)
      PROVE  Dies(p)
  BY <1>4 DEF SetupTlsThrows, ListenThrows, Exit, Aborts, Kill
<1>5. ASSUME (\E c \in Conns : AcceptorStep(c)) \/ AcceptorHandler \/ AcceptorCrash PROVE Goal
  <2>1. UNCHANGED listener
    BY <1>5 DEF AcceptorStep, AcceptorHandler, AcceptorCrash, ProcessSame, control
  <2>2. \/ AcceptError \/ OnAccept
        \/ \E c \in Conns : \/ OnAcceptStep(c) \/ HandshakeFails(c) \/ SslHandshakeDone(c)
                            \/ RegisterSession(c) \/ SessionEnds(c)
    BY <1>5, Zenon DEF AcceptorStep, AcceptorHandler, AcceptorCrash, OnAcceptStep
  <2>3. up
    BY <2>2 DEF AcceptError, OnAccept, OnAcceptStep, HandshakeFails, SslHandshakeDone,
                RegisterSession, SessionEnds, TakeSessionId, AllocateClientIp, StartHandshake,
                RemoteEndpointThrows
  <2> QED
    BY <2>1, <2>2, <2>3 DEF Next
<1>6. ASSUME UNCHANGED processVars PROVE UNCHANGED <<vars, listener>>
  BY <1>6 DEF processVars, control
<1>7. Goal
  <2> HIDE DEF Goal
  <2>1. ASSUME NEW p \in Procs, MainStep(p) \/ MainFault(p) \/ Kill(p) PROVE Goal
    BY <1>1, <1>2, <1>3, <1>4, <2>1 DEF MainStep, MainFault, Goal
  <2>2. ASSUME NEW p \in Procs, Start(p) \/ HandlerBlocks(p) \/ Signal(p) \/ SignalInLogger(p)
        PROVE  Goal
    BY <1>3, <2>2 DEF Goal
  <2>3. ASSUME UNCHANGED processVars PROVE Goal
    BY <1>6, <2>3 DEF Goal
  <2> QED
    BY <1>5, <2>1, <2>2, <2>3 DEF ProcessNext
<1> QED
  BY <1>7

\* Acceptor's invariants outlive the process they were established in.
LEMMA AcceptorPartStep ==
    ASSUME ProcessTypeOK, AcceptorPart, [ProcessNext]_processVars
    PROVE  AcceptorPart'
<1> USE DEF AcceptorPart
<1>t. tls \in BOOLEAN
  BY DEF IInv, TypeOK
<1>1. CASE UNCHANGED <<vars, listener>>
  <2>1. IInv' /\ Counted' /\ Reached'
    BY <1>1, TypeStep, InvStep, CountedStep, ReachedStep DEF IInv
  <2> QED
    BY <1>1, <2>1 DEF vars, counters, tables, NotListening, Dev!Nobody
<1>2. CASE Next /\ up /\ UNCHANGED listener
  <2>1. IInv' /\ Counted' /\ Reached'
    BY <1>2, TypeStep, InvStep, CountedStep, ReachedStep DEF IInv
  <2>2. listener # Dev!Nobody
    BY <1>2 DEF NotListening
  <2> QED
    BY <1>2, <2>1, <2>2 DEF Dev!Nobody
<1>3. CASE ForgetConnections /\ listener' = Dev!Nobody
  <2>1. NotListening' /\ tls' \in BOOLEAN
    BY <1>3, <1>t DEF ForgetConnections, NotListening
  <2>2. IInv' /\ Counted' /\ Reached'
    <3>1. (NotListening /\ tls \in BOOLEAN => IInv /\ Counted /\ Reached)'
      BY NotListeningSafe, PTL
    <3> QED
      BY <2>1, <3>1
  <2> QED
    BY <2>1, <2>2
<1>4. CASE /\ listener = Dev!Nobody /\ listener' # Dev!Nobody
           /\ UNCHANGED <<tls, arrived, counters, phase, sid, vip, tables>>
           /\ up' /\ accepting'
  <2> USE DEF counters, tables
  <2>0. NotListening
    BY <1>4
  <2>1. TypeOK'
    BY <1>4, <1>t DEF IInv, TypeOK
  <2>2. OneAtATime'
    BY <1>4, <2>0 DEF NotListening, OneAtATime, InOnAccept
  <2>3. Arrivals' /\ InStep' /\ Paired' /\ SessionsInv' /\ RouteTableConsistent'
    BY <1>4 DEF IInv, Arrivals, InStep, Paired, SessionsInv, RouteTableConsistent, Increment,
                AddressAt
  <2>4. Counted' /\ Reached'
    BY <1>4 DEF Counted, Reached
  <2> QED
    BY <1>4, <2>1, <2>2, <2>3, <2>4 DEF IInv, Dev!Nobody
<1> QED
  BY <1>1, <1>2, <1>3, <1>4, MemoryStep

----------------------------------------------------------------------------
(* The device.                                                             *)

\* What the calls of open() and close() rely on: a process that has not opened the
\* node has no descriptor.
DeviceOK ==
    /\ Dev!DeviceTypeOK
    /\ DescriptorsOwned
    /\ \A p \in Procs : opening[p] \in {"idle", "node"} => ~fd[p]

\* A step of the device that process p makes.
DeviceStep(p) ==
    \/ opening[p] = "idle" /\ Dev!BeginOpen(p)
    \/ Dev!OpenStep(p) \/ Dev!OpenFault(p)
    \/ Dev!CloseDevice(p)
    \/ Dev!DeviceDies(p)

\* The ioctls of configure_address, one after the other, end in an open device.
LEMMA Ioctls ==
    /\ DOMAIN Dev!NextIoctl = {"addr", "netmask", "mtu", "getflags", "setflags"}
    /\ Dev!NextIoctl["setflags"] = "opened"
    /\ \A x \in DOMAIN Dev!NextIoctl \ {"setflags"} :
           Dev!NextIoctl[x] \in DOMAIN Dev!NextIoctl
BY DEF Dev!NextIoctl

\* close() of a descriptor, wherever it is called.
LEMMA CloseFdEffect ==
    ASSUME DeviceOK, NEW p \in Procs, Dev!CloseFd(p)
    PROVE  /\ fd' = [fd EXCEPT ![p] = FALSE]
           /\ descriptors' = [descriptors EXCEPT ![p] = @ \ {"tun"}]
           /\ holder' = IF holder = p THEN Dev!Nobody ELSE holder
           /\ configured' = (configured /\ holder # p)
<1> USE DEF DeviceOK, Dev!DeviceTypeOK, DescriptorsOwned, Dev!CloseFd
<1>1. CASE fd[p]
  BY <1>1 DEF Dev!Released
<1>2. CASE ~fd[p]
  <2>1. "tun" \notin descriptors[p] /\ holder # p
    BY <1>2
  <2>2. descriptors = [descriptors EXCEPT ![p] = @ \ {"tun"}]
    BY <2>1
  <2> QED
    BY <1>2, <2>1, <2>2
<1> QED
  BY <1>1, <1>2

\* The descriptors stay owned whatever a process does with its device.
LEMMA DeviceKept ==
    ASSUME DeviceOK, NEW p \in Procs, DeviceStep(p)
    PROVE  DeviceOK'
<1> USE DEF DeviceOK, Dev!DeviceTypeOK, DescriptorsOwned
<1>n. p # Dev!Nobody /\ \A q \in Procs : q # Dev!Nobody
  BY DEF Procs, Dev!Nobody
<1>o. DOMAIN Dev!NextIoctl \subseteq Dev!OpenCalls /\ {"idle", "node", "setiff", "socket", "undo",
          "opened", "failed"} \subseteq Dev!OpenCalls
  BY Ioctls DEF Dev!OpenCalls
<1>c. ASSUME Dev!CloseFd(p),
             \/ opening' = opening
             \/ /\ opening[p] \in {"setiff", "undo"}
                /\ opening' = [opening EXCEPT ![p] = "failed"]
      PROVE  DeviceOK'
  <2>1. /\ fd' = [fd EXCEPT ![p] = FALSE]
        /\ descriptors' = [descriptors EXCEPT ![p] = @ \ {"tun"}]
        /\ holder' = IF holder = p THEN Dev!Nobody ELSE holder
        /\ configured' = (configured /\ holder # p)
    BY <1>c, CloseFdEffect
  <2>2. "socket" \in descriptors'[p] => opening'[p] = opening[p]
    BY <1>c, <2>1, Ioctls
  <2>3. \A q \in Procs : q # p =>
            opening'[q] = opening[q] /\ fd'[q] = fd[q] /\ descriptors'[q] = descriptors[q]
    BY <1>c, <2>1
  <2>4. Dev!DeviceTypeOK'
    BY <1>o, <1>c, <2>1
  <2>5. DescriptorsOwned'
    BY <1>n, <2>1, <2>2, <2>3
  <2>6. \A q \in Procs : opening'[q] \in {"idle", "node"} => ~fd'[q]
    BY <1>c, <2>1, <2>3
  <2> QED
    BY <2>4, <2>5, <2>6
<1>1. CASE opening[p] = "idle" /\ Dev!BeginOpen(p)
  BY <1>1, <1>o, Ioctls DEF Dev!BeginOpen, Dev!Goes
<1>2. CASE Dev!OpenNode(p)
  BY <1>2, <1>o, Ioctls DEF Dev!OpenNode, Dev!Goes
<1>3. CASE Dev!OpenNodeFails(p)
  BY <1>3, <1>o, Ioctls DEF Dev!OpenNodeFails, Dev!Goes
<1>4. CASE Dev!SetIff(p)
  BY <1>4, <1>o, Ioctls DEF Dev!SetIff, Dev!Goes
<1>5. CASE Dev!SetIffFails(p) \/ Dev!Undo(p)
  BY <1>5, <1>c DEF Dev!SetIffFails, Dev!Undo, Dev!Goes
<1>6. CASE Dev!ConfigSocket(p)
  BY <1>6, <1>o, Ioctls DEF Dev!ConfigSocket, Dev!Goes
<1>7. CASE Dev!ConfigSocketFails(p)
  BY <1>7, <1>o, Ioctls DEF Dev!ConfigSocketFails, Dev!Goes
<1>8. CASE Dev!Ioctl(p)
  <2>1. Dev!NextIoctl[opening[p]] \in Dev!OpenCalls \ {"idle", "node"}
    BY <1>8, <1>o, Ioctls DEF Dev!Ioctl
  <2>2. CASE opening[p] = "setflags"
    BY <1>8, <2>1, <2>2, Ioctls DEF Dev!Ioctl, Dev!Goes
  <2>3. CASE opening[p] # "setflags"
    BY <1>8, <2>1, <2>3, Ioctls DEF Dev!Ioctl, Dev!Goes
  <2> QED
    BY <2>2, <2>3
<1>9. CASE Dev!IoctlFails(p)
  BY <1>9, <1>o, Ioctls DEF Dev!IoctlFails, Dev!Goes
<1>10. CASE Dev!CloseDevice(p)
  BY <1>10, <1>c DEF Dev!CloseDevice
<1>11. CASE Dev!DeviceDies(p)
  <2>1. \A q \in Procs : holder' = q => q # p /\ holder = q
    BY <1>11, <1>n DEF Dev!DeviceDies, Dev!Released
  <2> QED
    BY <1>11, <1>n, <1>o, <2>1 DEF Dev!DeviceDies, Dev!Released
<1> QED
  BY <1>1, <1>2, <1>3, <1>4, <1>5, <1>6, <1>7, <1>8, <1>9, <1>10, <1>11
     DEF DeviceStep, Dev!OpenStep, Dev!OpenFault

\* A process's step is no other process's: it neither takes the interface from its
\* holder nor undoes the holder's configuration.
LEMMA OthersDevice ==
    ASSUME DeviceOK, NEW p \in Procs, DeviceStep(p), NEW q \in Procs \ {p}
    PROVE  /\ opening'[q] = opening[q] /\ fd'[q] = fd[q]
           /\ holder = q => holder' = q /\ (configured => configured')
<1> USE DEF DeviceOK, Dev!DeviceTypeOK
<1>c. ASSUME Dev!CloseFd(p) PROVE fd'[q] = fd[q] /\ (holder = q => holder' = q /\ (configured => configured'))
  BY <1>c, CloseFdEffect
<1>n. q # Dev!Nobody
  BY DEF Procs, Dev!Nobody
<1> QED
  BY <1>c, <1>n DEF DeviceStep, Dev!BeginOpen, Dev!OpenStep, Dev!OpenFault, Dev!OpenNode, Dev!OpenNodeFails,
       Dev!SetIff, Dev!SetIffFails, Dev!Undo, Dev!ConfigSocket, Dev!ConfigSocketFails,
       Dev!Ioctl, Dev!IoctlFails, Dev!CloseDevice, Dev!DeviceDies, Dev!Released, Dev!Goes

\* A call of open() that goes on holds the interface if the one before did, and the
\* last of them configures it.
LEMMA OpenHolds ==
    ASSUME DeviceOK, NEW p \in Procs, Dev!OpenStep(p) \/ Dev!OpenFault(p),
           opening'[p] \in Attached
    PROVE  /\ holder' = p \/ (opening[p] \in Attached /\ holder' = holder)
           /\ opening'[p] = "opened" => configured'
           /\ opening[p] # "opened"
<1> USE DEF DeviceOK, Dev!DeviceTypeOK, Attached
<1>1. "failed" \notin Attached /\ "undo" \notin Attached /\ "setiff" \notin Attached
  BY Ioctls
<1>2. CASE Dev!SetIff(p)
  BY <1>2, Ioctls DEF Dev!SetIff, Dev!Goes
<1>3. CASE Dev!ConfigSocket(p)
  BY <1>3, Ioctls DEF Dev!ConfigSocket, Dev!Goes
<1>4. CASE Dev!Ioctl(p)
  BY <1>4, Ioctls DEF Dev!Ioctl, Dev!Goes
<1> QED
  BY <1>1, <1>2, <1>3, <1>4
     DEF Dev!OpenStep, Dev!OpenFault, Dev!OpenNode, Dev!OpenNodeFails, Dev!SetIffFails, Dev!Undo,
         Dev!ConfigSocketFails, Dev!IoctlFails, Dev!Goes

----------------------------------------------------------------------------
(* The steps of a process.                                                 *)

\* A step of process p, and one of the acceptor of the process that listens.
ProcessStep(p) == Start(p) \/ MainStep(p) \/ MainFault(p) \/ HandlerBlocks(p) \/ Signal(p)
                  \/ SignalInLogger(p) \/ Kill(p)
AcceptStep     == (\E c \in Conns : AcceptorStep(c)) \/ AcceptorHandler \/ AcceptorCrash

\* The types of what is neither Acceptor's nor the device's.
ControlOK ==
    /\ Filter!FilterTypeOK
    /\ pc \in [Procs -> Alive \cup Down]
    /\ rule \in [Procs -> 1 .. NumRules + 1]
    /\ listener \in Procs \cup {Dev!Nobody}
    /\ stopped \in [Procs -> BOOLEAN]
    /\ lockedOut \in [Procs -> BOOLEAN]
    /\ blocked \in [Procs -> BOOLEAN]
    /\ faults \in 0 .. MaxFaults
    /\ cutShort \in BOOLEAN /\ misled \in BOOLEAN
    /\ refused \subseteq Filter!Rules \cup {0}

\* The type invariant, part by part: accept pipeline, device, and the rest.
LEMMA TypesSplit == ProcessTypeOK <=> TypeOK /\ Dev!DeviceTypeOK /\ ControlOK
BY DEF ProcessTypeOK, ControlOK

\* The rule at hand, and its successor.
LEMMA RuleNumbers ==
    ASSUME ControlOK, NEW p \in Procs
    PROVE  /\ rule[p] \in Nat
           /\ rule[p] \in Filter!Rules => rule[p] + 1 \in 1 .. NumRules + 1
           /\ 1 \in 1 .. NumRules + 1
BY FaultAssumption DEF ControlOK, Filter!Rules

\* The main thread stays where it can be, in every step of a process.
LEMMA ControlStep ==
    ASSUME ControlOK, \A q \in Procs : Started(q), NEW p \in Procs, ProcessStep(p)
    PROVE  ControlOK'
<1> USE DEF ControlOK
<1>f. faults < MaxFaults => faults + 1 \in 0 .. MaxFaults
  BY FaultAssumption
<1>p. /\ Alive \cup Down = {"main", "setupTls", "open", "forward", "check", "add", "listen",
                            "serving", "leaving", "off", "ended"}
      /\ Filter!FilterTypeOK => copies \in [Filter!Rules -> 0 .. MaxCopies] /\ forwarding \in BOOLEAN
  BY DEF Alive, Down, Starting, Filter!FilterTypeOK
<1>1. CASE Start(p) \/ Construct(p) \/ SetupTls(p) \/ OpenDevice(p) \/ OpenReturns(p)
           \/ RuleAbsent(p) \/ RulesDone(p) \/ RunReturns(p)
  BY <1>1, <1>p DEF Start, Construct, SetupTls, OpenDevice, OpenReturns, RuleAbsent, RulesDone,
                    RunReturns, Goes, hostVars, control, historyVars, Filter!FilterTypeOK
<1>2. CASE Listen(p)
  BY <1>2, <1>p DEF Listen, Goes, hostVars, historyVars, Filter!FilterTypeOK
<1>3. CASE OpenDeviceFault(p) \/ HandlerBlocks(p) \/ Signal(p) \/ SignalInLogger(p)
  BY <1>3, <1>f, <1>p DEF OpenDeviceFault, HandlerBlocks, Signal, SignalInLogger, Fault,
                    OtherHistory, hostVars, control, Filter!FilterTypeOK
<1>4. CASE CheckFails(p)
  BY <1>4, <1>f, <1>p DEF CheckFails, Goes, Fault, hostVars, control, Filter!FilterTypeOK
<1>5. CASE EnableForwarding(p) \/ EnableForwardingFails(p)
  BY <1>5, <1>f, <1>p DEF EnableForwarding, EnableForwardingFails, Goes, Fault, hostVars, control,
                    Filter!FilterTypeOK, Filter!EnableForwarding
<1>6. CASE RulePresent(p)
  BY <1>6, RuleNumbers DEF RulePresent, NextRule, SameControl, hostVars, historyVars,
                           Filter!FilterTypeOK
<1>7. CASE AddRule(p)
  <2>1. rule[p] \in Filter!Rules
    BY <1>7 DEF AddRule, At, Started
  <2>2. copies' \in [Filter!Rules -> 0 .. MaxCopies]
    BY <1>7, <1>p, <2>1, FaultAssumption DEF AddRule, Filter!AppendRule
  <2> QED
    BY <1>7, <1>p, <2>1, <2>2, RuleNumbers DEF AddRule, Goes, NextRule, SameControl,
                              Filter!FilterTypeOK, Filter!AppendRule
<1>8. CASE AddRuleFails(p)
  <2>1. rule[p] \in Filter!Rules
    BY <1>8 DEF AddRuleFails, At, Started
  <2> QED
    BY <1>8, <1>f, <1>p, <2>1, RuleNumbers DEF AddRuleFails, Goes, NextRule, SameControl, Fault,
                              hostVars, Filter!FilterTypeOK
<1>9. CASE Dies(p) /\ (UNCHANGED historyVars \/ (Fault /\ OtherHistory))
  BY <1>9, <1>f, <1>p, RuleNumbers DEF Dies, Goes, historyVars, hostVars, Fault, OtherHistory,
                                       Filter!FilterTypeOK
<1>10. SetupTlsThrows(p) \/ ListenThrows(p) \/ Exit(p) \/ Aborts(p) \/ Kill(p) =>
           Dies(p) /\ (UNCHANGED historyVars \/ (Fault /\ OtherHistory))
  BY DEF SetupTlsThrows, ListenThrows, Exit, Aborts, Kill
<1> QED
  BY <1>1, <1>2, <1>3, <1>4, <1>5, <1>6, <1>7, <1>8, <1>9, <1>10
     DEF ProcessStep, MainStep, MainFault

\* What a process does to the device, it does by a step of its own device.
LEMMA DeviceOfStep ==
    ASSUME ControlOK, \A q \in Procs : Started(q), NEW p \in Procs, ProcessStep(p)
    PROVE  UNCHANGED deviceState \/ DeviceStep(p)
<1>1. SetupTls(p) => DeviceStep(p)
  BY DEF SetupTls, At, Started, DeviceStep
<1>2. OpenDevice(p) \/ OpenDeviceFault(p) \/ Signal(p) => DeviceStep(p)
  BY DEF OpenDevice, OpenDeviceFault, Signal, DeviceStep
<1>3. SetupTlsThrows(p) \/ ListenThrows(p) \/ Exit(p) \/ Aborts(p) \/ Kill(p) => DeviceStep(p)
  BY DEF SetupTlsThrows, ListenThrows, Exit, Aborts, Kill, Dies, DeviceStep
<1>4. \/ Start(p) \/ Construct(p) \/ OpenReturns(p) \/ EnableForwarding(p) \/ RulePresent(p)
      \/ RuleAbsent(p) \/ AddRule(p) \/ RulesDone(p) \/ Listen(p) \/ RunReturns(p)
      \/ EnableForwardingFails(p) \/ CheckFails(p) \/ AddRuleFails(p) \/ HandlerBlocks(p)
      \/ SignalInLogger(p)
      => UNCHANGED deviceState
  BY DEF Start, Construct, OpenReturns, EnableForwarding, RulePresent, RuleAbsent, AddRule,
         RulesDone, Listen, RunReturns, EnableForwardingFails, CheckFails, AddRuleFails,
         HandlerBlocks, SignalInLogger
<1> QED
  BY <1>1, <1>2, <1>3, <1>4 DEF ProcessStep, MainStep, MainFault

\* What the host has been given stays, or its loss is recorded.
LEMMA HostGrows ==
    ASSUME ControlOK, \A q \in Procs : Started(q), NEW p \in Procs, ProcessStep(p)
    PROVE  /\ forwarding \/ 0 \in refused => forwarding' \/ 0 \in refused'
           /\ \A r \in Filter!Rules :
                 Filter!Present(r) \/ r \in refused => Filter!Present(r)' \/ r \in refused'
<1> DEFINE Goal == /\ forwarding \/ 0 \in refused => forwarding' \/ 0 \in refused'
                   /\ \A r \in Filter!Rules :
                         Filter!Present(r) \/ r \in refused => Filter!Present(r)' \/ r \in refused'
<1>1. ASSUME UNCHANGED hostVars, refused \subseteq refused' PROVE Goal
  BY <1>1 DEF hostVars, Filter!Present
<1>2. ASSUME EnableForwarding(p) PROVE Goal
  BY <1>2 DEF EnableForwarding, Filter!EnableForwarding, Filter!Present, Filter!Rules
<1>3. ASSUME AddRule(p) PROVE Goal
  <2>1. rule[p] \in Filter!Rules
    BY <1>3 DEF AddRule, At, Started
  <2>2. /\ copies' = [copies EXCEPT ![rule[p]] = IF @ < MaxCopies THEN @ + 1 ELSE @]
        /\ refused' = refused \ {rule[p]} /\ forwarding' = forwarding
    BY <1>3 DEF AddRule, Filter!AppendRule
  <2>3. copies \in [Filter!Rules -> 0 .. MaxCopies] /\ MaxCopies \in Nat /\ MaxCopies > 0
    BY FaultAssumption DEF ControlOK, Filter!FilterTypeOK
  <2>4. copies'[rule[p]] > 0
    BY <2>1, <2>2, <2>3
  <2>5. \A r \in Filter!Rules : r # rule[p] => (Filter!Present(r)' <=> Filter!Present(r))
    BY <2>1, <2>2, <2>3 DEF Filter!Present
  <2>6. rule[p] # 0
    BY <2>1 DEF Filter!Rules
  <2> QED
    BY <2>2, <2>4, <2>5, <2>6 DEF Filter!Present
<1>4. \/ Start(p) \/ Construct(p) \/ SetupTls(p) \/ OpenDevice(p) \/ OpenReturns(p)
      \/ RulePresent(p) \/ RuleAbsent(p) \/ RulesDone(p) \/ Listen(p) \/ RunReturns(p)
      \/ OpenDeviceFault(p) \/ CheckFails(p) \/ HandlerBlocks(p) \/ Signal(p) \/ SignalInLogger(p)
      \/ EnableForwardingFails(p) \/ AddRuleFails(p)
      => UNCHANGED hostVars /\ refused \subseteq refused'
  BY DEF Start, Construct, SetupTls, OpenDevice, OpenReturns, RulePresent, RuleAbsent, RulesDone,
         Listen, RunReturns, OpenDeviceFault, CheckFails, HandlerBlocks, Signal, SignalInLogger,
         EnableForwardingFails, AddRuleFails, OtherHistory, historyVars
<1>5. SetupTlsThrows(p) \/ ListenThrows(p) \/ Exit(p) \/ Aborts(p) \/ Kill(p)
      => UNCHANGED hostVars /\ refused \subseteq refused'
  BY DEF SetupTlsThrows, ListenThrows, Exit, Aborts, Kill, Dies, OtherHistory, historyVars
<1>6. Goal
  <2> HIDE DEF Goal
  <2> QED
    BY <1>1, <1>2, <1>3, <1>4, <1>5 DEF ProcessStep, MainStep, MainFault
<1> QED
  BY <1>6

\* A step of one process leaves the others where they are.
LEMMA OthersControl ==
    ASSUME ControlOK, NEW p \in Procs, ProcessStep(p), NEW q \in Procs \ {p}
    PROVE  pc'[q] = pc[q] /\ rule'[q] = rule[q] /\ stopped'[q] = stopped[q]
<1> USE DEF ControlOK, Goes
<1>1. CASE Start(p) \/ Construct(p) \/ SetupTls(p) \/ OpenDevice(p) \/ OpenReturns(p)
           \/ EnableForwarding(p) \/ RuleAbsent(p) \/ RulesDone(p) \/ Listen(p) \/ RunReturns(p)
  BY <1>1 DEF Start, Construct, SetupTls, OpenDevice, OpenReturns, EnableForwarding, RuleAbsent,
              RulesDone, Listen, RunReturns, control
<1>2. CASE RulePresent(p) \/ AddRule(p) \/ AddRuleFails(p)
  BY <1>2 DEF RulePresent, AddRule, AddRuleFails, NextRule, SameControl
<1>3. CASE OpenDeviceFault(p) \/ EnableForwardingFails(p) \/ CheckFails(p) \/ HandlerBlocks(p)
           \/ Signal(p) \/ SignalInLogger(p)
  BY <1>3 DEF OpenDeviceFault, EnableForwardingFails, CheckFails, HandlerBlocks, Signal,
              SignalInLogger, control
<1>4. CASE SetupTlsThrows(p) \/ ListenThrows(p) \/ Exit(p) \/ Aborts(p) \/ Kill(p)
  BY <1>4 DEF SetupTlsThrows, ListenThrows, Exit, Aborts, Kill, Dies
<1> QED
  BY <1>1, <1>2, <1>3, <1>4 DEF ProcessStep, MainStep, MainFault

\* History variables only grow.
LEMMA HistoryGrows ==
    ASSUME NEW p \in Procs, ProcessStep(p)
    PROVE  (cutShort => cutShort') /\ (misled => misled')
<1>1. Start(p) \/ MainStep(p) => (cutShort => cutShort') /\ (misled => misled')
  BY DEF MainStep, Start, Construct, SetupTls, OpenDevice, OpenReturns, EnableForwarding,
         RulePresent, RuleAbsent, AddRule, RulesDone, Listen, ListenThrows, RunReturns, Exit,
         Aborts, historyVars
<1>2. MainFault(p) \/ HandlerBlocks(p) \/ SignalInLogger(p) \/ Kill(p) =>
          (cutShort => cutShort') /\ (misled => misled')
  BY DEF MainFault, SetupTlsThrows, OpenDeviceFault, EnableForwardingFails, CheckFails,
         AddRuleFails, HandlerBlocks, SignalInLogger, Kill, OtherHistory
<1>3. Signal(p) => (cutShort => cutShort') /\ (misled => misled')
  <2>1. Signal(p) => misled' = misled
    BY DEF Signal
  <2>2. ASSUME Signal(p), cutShort PROVE cutShort'
    BY <2>2, Zenon DEF Signal
  <2> QED
    BY <2>1, <2>2
<1> QED
  BY <1>1, <1>2, <1>3 DEF ProcessStep

\* The other processes keep what they had.
LEMMA OthersKept ==
    ASSUME ControlOK, DeviceOK, \A q \in Procs : Started(q) /\ Holds(q),
           NEW p \in Procs, ProcessStep(p), NEW q \in Procs \ {p}
    PROVE  Started(q)' /\ Holds(q)'
<1>1. pc'[q] = pc[q] /\ rule'[q] = rule[q] /\ stopped'[q] = stopped[q] /\ (cutShort => cutShort')
  BY OthersControl, HistoryGrows
<1>2. /\ opening'[q] = opening[q] /\ fd'[q] = fd[q]
      /\ holder = q => holder' = q /\ (configured => configured')
  <2>1. CASE UNCHANGED deviceState
    BY <2>1 DEF deviceState
  <2>2. CASE DeviceStep(p)
    BY <2>2, OthersDevice
  <2> QED
    BY <2>1, <2>2, DeviceOfStep
<1>3. Started(q)'
  <2>1. /\ forwarding \/ 0 \in refused => forwarding' \/ 0 \in refused'
        /\ \A r \in Filter!Rules :
              Filter!Present(r) \/ r \in refused => Filter!Present(r)' \/ r \in refused'
    BY HostGrows
  <2>2. Filter!Rules' = Filter!Rules
    BY DEF Filter!Rules
  <2> QED
    BY <1>1, <1>2, <2>1, <2>2 DEF Started
<1>4. "opened" \in Attached
  BY DEF Attached
<1>5. Holds(q)'
  BY <1>1, <1>2, <1>4 DEF Holds, Attached
<1> QED
  BY <1>3, <1>5

\* What a process has done by a point, it has done when its step leads there.
LEMMA OwnStarted ==
    ASSUME ControlOK, DeviceOK, \A q \in Procs : Started(q), NEW p \in Procs, ProcessStep(p)
    PROVE  Started(p)'
<1> USE DEF ControlOK
<1>h. /\ forwarding \/ 0 \in refused => forwarding' \/ 0 \in refused'
      /\ \A r \in Filter!Rules :
            Filter!Present(r) \/ r \in refused => Filter!Present(r)' \/ r \in refused'
  BY HostGrows
<1>s. Started(p)
  OBVIOUS
<1>r. Filter!Rules' = Filter!Rules /\ Filter!Rules \subseteq Nat /\ rule[p] \in Nat
      /\ \A r \in Filter!Rules : r >= 1
  BY FaultAssumption DEF Filter!Rules
<1>d. /\ opening \in [Procs -> Dev!OpenCalls] /\ fd \in [Procs -> BOOLEAN]
      /\ descriptors \in [Procs -> SUBSET {"tun", "socket"}]
  BY DEF DeviceOK, Dev!DeviceTypeOK
\* Steps that leave the device and the rule as they are.
<1>1. ASSUME NEW point \in Alive \cup Down, pc'[p] = point,
             opening'[p] = opening[p], fd'[p] = fd[p], rule'[p] = rule[p],
             point \in Down \cup {"main", "setupTls"} => opening[p] = "idle",
             point \in {"forward", "check", "add", "listen", "serving"} => opening[p] = "opened",
             point = "add" => rule[p] \in Filter!Rules,
             point \in {"listen", "serving"} => rule[p] \notin Filter!Rules,
             point \in {"check", "add", "listen", "serving"} => forwarding' \/ 0 \in refused'
      PROVE  Started(p)'
  BY <1>1, <1>h, <1>s, <1>r DEF Started
<1>2. ASSUME NEW point \in Alive \cup Down, Goes(p, point) PROVE pc'[p] = point
  BY <1>2 DEF Goes
<1>3. CASE Start(p) \/ Construct(p) \/ OpenReturns(p) \/ RunReturns(p)
  BY <1>1, <1>2, <1>3, <1>s DEF Start, Construct, OpenReturns, RunReturns, At, Started, Goes, deviceState,
                  control, Alive, Down, Starting
<1>4. CASE EnableForwarding(p) \/ EnableForwardingFails(p)
  BY <1>1, <1>2, <1>4, <1>s DEF EnableForwarding, EnableForwardingFails, At, Started, Goes, deviceState, control,
                  Alive, Down, Starting, Filter!EnableForwarding
<1>5. CASE RuleAbsent(p) \/ CheckFails(p) \/ RulesDone(p) \/ Listen(p)
  BY <1>1, <1>2, <1>5, <1>s, <1>h DEF RuleAbsent, CheckFails, RulesDone, Listen, At, Started, Goes, deviceState,
                  control, Alive, Down, Starting
<1>6. CASE HandlerBlocks(p) \/ SignalInLogger(p)
  BY <1>h, <1>6, <1>s, <1>r DEF HandlerBlocks, SignalInLogger, Started, deviceState
<1>7. CASE SetupTls(p)
  BY <1>7, <1>s, <1>h, <1>r, <1>d DEF SetupTls, At, Goes, Started, Dev!BeginOpen, Dev!Goes, control, Down
<1>8. CASE OpenDevice(p) \/ OpenDeviceFault(p)
  <2>1. /\ pc[p] = "open" /\ pc' = pc /\ rule' = rule
        /\ Dev!OpenStep(p) \/ Dev!OpenFault(p)
    BY <1>8 DEF OpenDevice, OpenDeviceFault, At, control
  <2>2. opening'[p] \in {"idle", "node"} => ~fd'[p]
    <3>1. DeviceStep(p)
      BY <2>1 DEF DeviceStep
    <3>2. DeviceOK'
      BY <3>1, DeviceKept
    <3> QED
      BY <3>2 DEF DeviceOK
  <2> QED
    BY <2>1, <2>2, <1>h, <1>r, <1>s DEF Started, Down
<1>9. CASE RulePresent(p) \/ AddRule(p) \/ AddRuleFails(p)
  <2>1. /\ pc[p] \in {"check", "add"} /\ rule[p] \in Filter!Rules /\ pc'[p] = "check"
        /\ rule'[p] = rule[p] + 1 /\ UNCHANGED deviceState
    BY <1>9, <1>s DEF RulePresent, AddRule, AddRuleFails, At, NextRule, Goes, Started
  <2>2. copies'[rule[p]] > 0 \/ rule[p] \in refused'
    <3>1. CASE RulePresent(p)
      BY <3>1 DEF RulePresent, hostVars, Filter!Present
    <3>2. CASE AddRule(p)
      <4>1. copies \in [Filter!Rules -> 0 .. MaxCopies] /\ MaxCopies \in Nat /\ MaxCopies > 0
        BY FaultAssumption DEF Filter!FilterTypeOK
      <4> QED
        BY <2>1, <3>2, <4>1 DEF AddRule, Filter!AppendRule
    <3>3. CASE AddRuleFails(p)
      BY <3>3 DEF AddRuleFails, hostVars, Filter!Present
    <3> QED
      BY <1>9, <3>1, <3>2, <3>3
  <2>3. ASSUME NEW r \in Filter!Rules, r < rule'[p] PROVE Filter!Present(r)' \/ r \in refused'
    <3>1. CASE r = rule[p]
      BY <2>2, <3>1 DEF Filter!Present
    <3>2. CASE r # rule[p]
      BY <1>r, <1>s, <1>h, <2>1, <2>3, <3>2 DEF Started
    <3> QED
      BY <3>1, <3>2
  <2> QED
    BY <2>1, <2>3, <1>h, <1>r, <1>s DEF Started, deviceState, Down
<1>10. CASE Signal(p)
  BY <1>10, <1>s, <1>h, <1>r, <1>d DEF Signal, Started, Dev!CloseDevice, Dev!CloseFd
<1>11. CASE Dies(p)
  BY <1>11, <1>h, <1>r, <1>d DEF Dies, Goes, Dev!DeviceDies, Started, Down
<1>12. SetupTlsThrows(p) \/ ListenThrows(p) \/ Exit(p) \/ Aborts(p) \/ Kill(p) => Dies(p)
  BY DEF SetupTlsThrows, ListenThrows, Exit, Aborts, Kill
<1> QED
  BY <1>3, <1>4, <1>5, <1>6, <1>7, <1>8, <1>9, <1>10, <1>11, <1>12
     DEF ProcessStep, MainStep, MainFault

\* A process keeps the interface it has attached, until its death, a signal or the end
\* of run() lets go of it.
LEMMA OwnHolds ==
    ASSUME ControlOK, DeviceOK, \A q \in Procs : Started(q) /\ Holds(q), NEW p \in Procs,
           ProcessStep(p)
    PROVE  Holds(p)'
<1> USE DEF ControlOK
<1>s. Started(p) /\ Holds(p)
  OBVIOUS
<1>a. /\ "opened" \in Attached /\ "idle" \notin Attached /\ "node" \notin Attached
      /\ Attached' = Attached
  BY Ioctls DEF Attached, Dev!NextIoctl
<1>d. /\ opening \in [Procs -> Dev!OpenCalls] /\ fd \in [Procs -> BOOLEAN]
      /\ holder = p => fd[p]
  BY DEF DeviceOK, Dev!DeviceTypeOK, DescriptorsOwned
<1>c. cutShort => cutShort'
  BY HistoryGrows
\* Steps that leave the device as it is and do not reset the flag.
<1>1. ASSUME UNCHANGED deviceState, stopped[p] => stopped'[p],
             pc'[p] \in {"open", "forward", "check", "add"} =>
                 pc[p] \in {"open", "forward", "check", "add"}
      PROVE  Holds(p)'
  BY <1>1, <1>s, <1>a, <1>c DEF Holds, deviceState
<1>2. CASE Start(p) \/ Construct(p) \/ OpenReturns(p) \/ EnableForwarding(p) \/ RulePresent(p)
           \/ RuleAbsent(p) \/ AddRule(p) \/ RulesDone(p) \/ RunReturns(p)
  <2>1. /\ UNCHANGED <<deviceState, stopped>>
        /\ pc'[p] \in {"open", "forward", "check", "add"} =>
               pc[p] \in {"open", "forward", "check", "add"}
    BY <1>2 DEF Start, Construct, OpenReturns, EnableForwarding, RulePresent, RuleAbsent,
                AddRule, RulesDone, RunReturns, At, Goes, control, SameControl
  <2> QED
    BY <1>1, <2>1
<1>3. CASE Listen(p) \/ EnableForwardingFails(p) \/ CheckFails(p) \/ AddRuleFails(p)
           \/ HandlerBlocks(p) \/ SignalInLogger(p)
  <2>1. /\ UNCHANGED <<deviceState, stopped>>
        /\ pc'[p] \in {"open", "forward", "check", "add"} =>
               pc[p] \in {"open", "forward", "check", "add"}
    BY <1>3 DEF Listen, EnableForwardingFails, CheckFails, AddRuleFails, HandlerBlocks,
                SignalInLogger, At, Goes, control, SameControl
  <2> QED
    BY <1>1, <2>1
<1>4. CASE SetupTls(p)
  <2>1. opening'[p] = "node"
    BY <1>4, <1>d DEF SetupTls, Dev!BeginOpen, Dev!Goes
  <2> QED
    BY <2>1, <1>a DEF Holds
<1>5. CASE OpenDevice(p) \/ OpenDeviceFault(p)
  <2>1. /\ pc[p] = "open" /\ UNCHANGED <<pc, stopped, cutShort>>
        /\ Dev!OpenStep(p) \/ Dev!OpenFault(p)
    BY <1>5 DEF OpenDevice, OpenDeviceFault, At, control, historyVars, OtherHistory
  <2>2. CASE opening'[p] \in Attached
    <3>1. /\ holder' = p \/ (opening[p] \in Attached /\ holder' = holder)
          /\ opening'[p] = "opened" => configured'
      BY <2>1, <2>2, OpenHolds
    <3> QED
      BY <2>1, <3>1, <1>s DEF Holds
  <2>3. CASE opening'[p] \notin Attached
    BY <2>3, <1>a DEF Holds
  <2> QED
    BY <2>2, <2>3
<1>6. CASE Signal(p)
  <2>1. /\ stopped'[p] /\ opening' = opening /\ pc' = pc
        /\ cutShort' = (cutShort \/ (fd[p] /\ pc[p] \in {"open", "forward", "check", "add"}))
        /\ fd[p] \/ UNCHANGED <<holder, configured>>
    BY <1>6 DEF Signal, Dev!CloseDevice, Dev!CloseFd
  <2>2. CASE fd[p]
    BY <2>1, <2>2, <1>s DEF Holds
  <2>3. CASE ~fd[p]
    BY <2>1, <2>3, <1>s, <1>d, <1>a, <1>c DEF Holds
  <2> QED
    BY <2>2, <2>3
<1>7. CASE Dies(p)
  <2>1. opening'[p] = "idle"
    BY <1>7, <1>d DEF Dies, Dev!DeviceDies
  <2> QED
    BY <2>1, <1>a DEF Holds
<1>8. SetupTlsThrows(p) \/ ListenThrows(p) \/ Exit(p) \/ Aborts(p) \/ Kill(p) => Dies(p)
  BY DEF SetupTlsThrows, ListenThrows, Exit, Aborts, Kill
<1> QED
  BY <1>2, <1>3, <1>4, <1>5, <1>6, <1>7, <1>8 DEF ProcessStep, MainStep, MainFault

\* While a process adds a rule no other process is beyond the opening of its device.
LEMMA ExclusiveStep ==
    ASSUME ControlOK, DeviceOK, \A q \in Procs : Started(q) /\ Holds(q), Exclusive,
           NEW p \in Procs, ProcessStep(p)
    PROVE  Exclusive'
<1> USE DEF ControlOK
<1>c. (cutShort => cutShort') /\ (misled => misled')
  BY HistoryGrows
<1> SUFFICES ASSUME ~cutShort', ~misled', ~cutShort, ~misled
             PROVE  /\ \A r \in Filter!Rules : copies'[r] <= 1
                    /\ \A q \in Procs : pc'[q] = "add" => copies'[rule'[q]] = 0
  BY <1>c DEF Exclusive, Filter!Rules
<1>e. /\ \A r \in Filter!Rules : copies[r] <= 1
      /\ \A q \in Procs : pc[q] = "add" => copies[rule[q]] = 0
  BY DEF Exclusive
<1>t. /\ copies \in [Filter!Rules -> 0 .. MaxCopies] /\ MaxCopies \in Nat
      /\ \A q \in Procs : rule[q] \in Nat
  BY FaultAssumption DEF Filter!FilterTypeOK
<1>o. \A q \in Procs \ {p} : pc'[q] = pc[q] /\ rule'[q] = rule[q]
  BY OthersControl
<1>1. ASSUME copies' = copies, rule'[p] = rule[p], pc'[p] = "add" => pc[p] = "add"
      PROVE  /\ \A r \in Filter!Rules : copies'[r] <= 1
             /\ \A q \in Procs : pc'[q] = "add" => copies'[rule'[q]] = 0
  BY <1>1, <1>e, <1>o
<1>2. CASE Start(p) \/ Construct(p) \/ SetupTls(p) \/ OpenDevice(p) \/ OpenReturns(p)
           \/ RulesDone(p) \/ Listen(p) \/ RunReturns(p)
  BY <1>1, <1>2 DEF Start, Construct, SetupTls, OpenDevice, OpenReturns, RulesDone, Listen,
                    RunReturns, Goes, control, hostVars
<1>3. CASE OpenDeviceFault(p) \/ EnableForwarding(p) \/ EnableForwardingFails(p)
           \/ HandlerBlocks(p) \/ Signal(p) \/ SignalInLogger(p)
  BY <1>1, <1>3 DEF OpenDeviceFault, EnableForwarding, EnableForwardingFails, HandlerBlocks,
                    Signal, SignalInLogger, Goes, control, hostVars, Filter!EnableForwarding
<1>4. CASE RulePresent(p) \/ AddRuleFails(p)
  <2>1. pc'[p] = "check" /\ copies' = copies
    BY <1>4 DEF RulePresent, AddRuleFails, At, Goes, hostVars
  <2> QED
    BY <2>1, <1>e, <1>o
<1>5. CASE RuleAbsent(p)
  <2>1. copies' = copies /\ rule' = rule /\ rule[p] \in Filter!Rules /\ ~(copies[rule[p]] > 0)
    BY <1>5 DEF RuleAbsent, hostVars, control, Filter!Present
  <2>2. copies[rule[p]] = 0
    BY <2>1, <1>t
  <2> QED
    BY <2>1, <2>2, <1>e, <1>o
<1>6. CASE CheckFails(p)
  BY <1>6 DEF CheckFails
<1>7. CASE AddRule(p)
  <2>1. /\ pc[p] = "add" /\ pc'[p] = "check" /\ rule[p] \in Filter!Rules
        /\ copies' = [copies EXCEPT ![rule[p]] = IF @ < MaxCopies THEN @ + 1 ELSE @]
    BY <1>7 DEF AddRule, At, Goes, Started, Filter!AppendRule
  <2>2. ASSUME NEW q \in Procs, pc[q] = "add" PROVE holder = q
    BY <2>2 DEF Started, Holds, Attached
  <2>3. \A q \in Procs \ {p} : pc[q] # "add"
    BY <2>1, <2>2
  <2>4. copies[rule[p]] = 0
    BY <2>1, <1>e
  <2>5. \A r \in Filter!Rules : copies'[r] <= 1
    BY <2>1, <2>4, <1>e, <1>t
  <2> QED
    BY <2>1, <2>3, <2>5, <1>o
<1>8. CASE Dies(p)
  <2>1. pc'[p] = "ended" /\ copies' = copies
    BY <1>8 DEF Dies, Goes, hostVars
  <2> QED
    BY <2>1, <1>e, <1>o
<1>9. SetupTlsThrows(p) \/ ListenThrows(p) \/ Exit(p) \/ Aborts(p) \/ Kill(p) => Dies(p)
  BY DEF SetupTlsThrows, ListenThrows, Exit, Aborts, Kill
<1> QED
  BY <1>2, <1>3, <1>4, <1>5, <1>6, <1>7, <1>8, <1>9 DEF ProcessStep, MainStep, MainFault

----------------------------------------------------------------------------
(* The theorems.                                                           *)

\* The accept pipeline touches neither the device nor the host.
LEMMA AcceptStepSame ==
    ASSUME ControlOK, AcceptStep \/ UNCHANGED processVars
    PROVE  /\ UNCHANGED <<deviceState, hostVars, pc, control, cutShort, misled, refused>>
           /\ faults' \in 0 .. MaxFaults
<1>1. faults < MaxFaults => faults + 1 \in 0 .. MaxFaults
  BY FaultAssumption DEF ControlOK
<1>2. CASE (\E c \in Conns : AcceptorStep(c)) \/ AcceptorHandler \/ UNCHANGED processVars
  BY <1>2 DEF AcceptorStep, AcceptorHandler, ProcessSame, historyVars, processVars, ControlOK
<1>3. CASE AcceptorCrash
  BY <1>1, <1>3 DEF AcceptorCrash, ProcessSame, Fault, OtherHistory
<1> QED
  BY <1>2, <1>3 DEF AcceptStep

\* The invariant holds before any process has started.
LEMMA ProcessInvFirst == ProcessInit => ProcessInv
<1> SUFFICES ASSUME ProcessInit PROVE ProcessInv
  OBVIOUS
<1> USE DEF ProcessInit
<1>1. AcceptorPart
  BY NotListeningSafe DEF AcceptorPart
<1>2. ProcessTypeOK
  <2>1. TypeOK
    BY <1>1 DEF AcceptorPart, IInv
  <2>2. Dev!DeviceTypeOK
    BY DEF Dev!DeviceInit, Dev!DeviceTypeOK, Dev!OpenCalls
  <2>3. Filter!FilterTypeOK
    BY FaultAssumption DEF Filter!FilterInit, Filter!FilterTypeOK
  <2>4. 1 \in 1 .. NumRules + 1 /\ 0 \in 0 .. MaxFaults
    BY FaultAssumption
  <2>5. ControlOK
    BY <2>3, <2>4 DEF ControlOK, Down
  <2> QED
    BY <2>1, <2>2, <2>5, TypesSplit
<1>3. DescriptorsOwned
  BY DEF Dev!DeviceInit, DescriptorsOwned, Procs, Dev!Nobody
<1>4. ASSUME NEW p \in Procs PROVE Started(p) /\ Holds(p)
  <2>1. pc[p] = "off" /\ rule[p] = 1 /\ opening[p] = "idle" /\ ~fd[p]
    BY DEF Dev!DeviceInit
  <2>2. \A r \in Filter!Rules : ~(r < rule[p])
    BY <2>1 DEF Filter!Rules
  <2>3. "idle" \notin Attached
    BY Ioctls DEF Attached
  <2> QED
    BY <2>1, <2>2, <2>3 DEF Started, Holds
<1>5. Exclusive
  BY DEF Exclusive, Filter!FilterInit
<1> QED
  BY <1>1, <1>2, <1>3, <1>4, <1>5 DEF ProcessInv

\* Every step keeps it: those of Acceptor by its own invariant, the others by the lemmas
\* above.
LEMMA ProcessInvStep == ProcessInv /\ [ProcessNext]_processVars => ProcessInv'
<1> SUFFICES ASSUME ProcessInv, [ProcessNext]_processVars PROVE ProcessInv'
  OBVIOUS
<1> USE DEF ProcessInv
<1>c. ControlOK /\ \A q \in Procs : Started(q)
  BY TypesSplit
<1>d. DeviceOK
  BY TypesSplit DEF DeviceOK, Started
<1>1. AcceptorPart'
  BY AcceptorPartStep
<1>t. TypeOK'
  BY <1>1 DEF AcceptorPart, IInv
<1>s. (TypeOK /\ Dev!DeviceTypeOK /\ ControlOK => ProcessTypeOK)'
  BY TypesSplit, PTL
<1>2. ASSUME NEW p \in Procs, ProcessStep(p) PROVE ProcessInv'
  <2>1. ControlOK'
    BY <1>2, <1>c, ControlStep
  <2>2. DeviceOK'
    <3>1. CASE UNCHANGED deviceState
      BY <3>1, <1>d DEF deviceState, DeviceOK, Dev!DeviceTypeOK, DescriptorsOwned
    <3>2. CASE DeviceStep(p)
      BY <1>d, <3>2, DeviceKept
    <3> QED
      BY <1>2, <1>c, <3>1, <3>2, DeviceOfStep
  <2>3. ASSUME NEW q \in Procs PROVE Started(q)' /\ Holds(q)'
    <3>1. CASE q = p
      BY <1>2, <1>c, <1>d, <3>1, OwnStarted, OwnHolds
    <3>2. CASE q # p
      BY <1>2, <1>c, <1>d, <3>2, OthersKept
    <3> QED
      BY <3>1, <3>2
  <2>4. Exclusive'
    BY <1>2, <1>c, <1>d, ExclusiveStep
  <2>5. ProcessTypeOK' /\ DescriptorsOwned'
    BY <1>t, <1>s, <2>1, <2>2 DEF DeviceOK
  <2> QED
    BY <1>1, <2>3, <2>4, <2>5
<1>3. CASE AcceptStep \/ UNCHANGED processVars
  <2>1. /\ UNCHANGED <<deviceState, hostVars, pc, control, cutShort, misled, refused>>
        /\ faults' \in 0 .. MaxFaults
    BY <1>3, <1>c, AcceptStepSame
  <2> USE <2>1 DEF deviceState, hostVars, control
  <2>2. ControlOK'
    BY <1>c DEF ControlOK, Filter!FilterTypeOK
  <2>3. Dev!DeviceTypeOK' /\ DescriptorsOwned'
    BY <1>d DEF DeviceOK, Dev!DeviceTypeOK, DescriptorsOwned
  <2>4. \A q \in Procs : Started(q)' /\ Holds(q)'
    BY DEF Started, Holds, Filter!Present, Filter!Rules
  <2>5. Exclusive'
    BY DEF Exclusive, Filter!Rules
  <2> QED
    BY <1>1, <1>t, <1>s, <2>2, <2>3, <2>4, <2>5
<1> QED
  BY <1>2, <1>3 DEF ProcessNext, ProcessStep, AcceptStep

\* The invariant holds of every state of a host that runs the server, however its
\* processes are started, signalled and killed.
THEOREM ProcessInvariant == ProcessSpec => []ProcessInv
BY ProcessInvFirst, ProcessInvStep, PTL DEF ProcessSpec

\* What main(), run() and the device record of themselves stays of its kind.
THEOREM ProcessTypeCorrect == ProcessSpec => []ProcessTypeOK
<1>1. ProcessInv => ProcessTypeOK
  BY DEF ProcessInv
<1> QED
  BY <1>1, ProcessInvariant, PTL

\* LinuxTunDevice::open and close leave no descriptor behind and fd_ says whether there
\* is one, at whatever call a signal's close() or a failure comes in between.
THEOREM DescriptorsOwnedHolds == ProcessSpec => []DescriptorsOwned
<1>1. ProcessInv => DescriptorsOwned
  BY DEF ProcessInv
<1> QED
  BY <1>1, ProcessInvariant, PTL

\* ensure_system_config adds no rule of any number of rules twice, although nothing but
\* the interface's name keeps two servers from running it at once.
THEOREM RulesOnceHolds == ProcessSpec => []RulesOnce
<1>1. ProcessInv => RulesOnce
  BY DEF ProcessInv, Exclusive, RulesOnce
<1> QED
  BY <1>1, ProcessInvariant, PTL

\* run() reaches the listener only with its interface and the host's rules in place, and
\* no other process takes them away from it.
THEOREM ServesOnlyConfiguredHolds == ProcessSpec => []ServesOnlyConfigured
<1>1. ProcessInv => ServesOnlyConfigured
  <2> SUFFICES ASSUME ProcessInv, NEW p \in Procs, pc[p] = "serving", ~stopped[p]
               PROVE  /\ holder = p /\ configured /\ fd[p]
                      /\ forwarding \/ 0 \in refused
                      /\ \A r \in Filter!Rules : Filter!Present(r) \/ r \in refused
    BY DEF ServesOnlyConfigured
  <2>1. Started(p) /\ Holds(p)
    BY DEF ProcessInv
  <2>2. holder = p /\ configured /\ fd[p]
    BY <2>1 DEF Started, Holds, Attached, ProcessInv, DescriptorsOwned
  <2>3. \A r \in Filter!Rules : r < rule[p]
    <3>1. rule[p] \in 1 .. NumRules + 1 /\ rule[p] \notin Filter!Rules
      BY <2>1 DEF Started, ProcessInv, ProcessTypeOK
    <3> QED
      BY <3>1, FaultAssumption DEF Filter!Rules
  <2> QED
    BY <2>1, <2>2, <2>3 DEF Started
<1> QED
  BY <1>1, ProcessInvariant, PTL

\* The routing tables of whichever process listens are as AcceptorProofs says, in every
\* life of the server: a restart begins them anew and a signal cuts none of their
\* steps in two.
THEOREM ProcessRoutes ==
    ProcessSpec => [](RouteTableConsistent /\ OwnRoute /\ ServerAddressSpared)
<1>1. ProcessInv => RouteTableConsistent /\ OwnRoute /\ ServerAddressSpared
  <2>1. IInv /\ Counted /\ Reached => RouteTableConsistent /\ OwnRoute /\ ServerAddressSpared
    BY OwnEntry, SparedAddress DEF IInv
  <2> QED
    BY <2>1 DEF ProcessInv, AcceptorPart
<1> QED
  BY <1>1, ProcessInvariant, PTL
=============================================================================
