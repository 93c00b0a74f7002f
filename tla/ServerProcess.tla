--------------------------- MODULE ServerProcess ----------------------------
(***************************************************************************)
(* The life of a server process: main(), Server::run() from setup_tls() to *)
(* the join of its threads, stop() from a signal handler at any point, and *)
(* death and restart on a host that remembers (src/server/main.cpp,        *)
(* src/server/server.cpp).  Composes TunDevice and HostFilter with         *)
(* Acceptor, whose variables are the memory of the process that listens.   *)
(*                                                                         *)
(* "service" is the process systemd keeps (src/install.sh: Restart=always, *)
(* external); "manual" one that somebody starts beside it, once.  Signals  *)
(* are handled on the main thread, between any two of its steps; one that  *)
(* comes before main() has assigned g_server does nothing and is not       *)
(* shown.  What may go wrong by chance is a fault; faults are counted.     *)
(***************************************************************************)
EXTENDS Acceptor, FiniteSets

CONSTANTS
    NumRules, MaxCopies,      \* see HostFilter
    MaxBeside,       \* bound: connections, once "manual" has been started
    MaxFaults        \* bound: faults, signals and kills

ASSUME BesideAssumption == MaxBeside \in Nat
ASSUME FaultAssumption == MaxFaults \in Nat /\ MaxCopies \in Nat \ {0} /\ NumRules \in Nat

Procs == {"service", "manual"}

VARIABLES
    opening, fd, descriptors, holder, configured,      \* see TunDevice
    forwarding, copies,                                \* see HostFilter
    pc,              \* where each process's main thread is
    rule,            \* the rule ensure_rule is at
    stopped,         \* ioc_.stop() has been called
    listener,        \* the process bound to the port
    blocked,         \* an I/O thread is inside ws_.close(), see TunnelServer
    lockedOut,       \* the main thread waits for the logger's mutex, which it holds
    faults,          \* bound: faults so far
    cutShort,        \* history: a signal has closed a device before the rules were done
    misled,          \* history: "iptables -C" failed although the rule is there
    refused          \* history: rules and settings whose command has failed

hostVars    == <<forwarding, copies>>
deviceState == <<opening, fd, descriptors, holder, configured>>
control     == <<rule, listener, stopped, lockedOut, blocked>>
historyVars == <<faults, cutShort, misled, refused>>
processVars == <<vars, deviceState, hostVars, pc, control, historyVars>>

Dev    == INSTANCE TunDevice
Filter == INSTANCE HostFilter

Starting == {"main", "setupTls", "open", "forward", "check", "add", "listen"}
Alive    == Starting \cup {"serving", "leaving"}
Down     == {"off", "ended"}

ProcessTypeOK ==
    /\ TypeOK
    /\ Dev!DeviceTypeOK
    /\ Filter!FilterTypeOK
    /\ pc \in [Procs -> Alive \cup Down]
    /\ rule \in [Procs -> 1 .. NumRules + 1]
    /\ listener \in Procs \cup {Dev!Nobody}
    /\ {stopped, lockedOut, blocked} \subseteq [Procs -> BOOLEAN]
    /\ faults \in 0 .. MaxFaults
    /\ {cutShort, misled} \subseteq BOOLEAN
    /\ refused \subseteq Filter!Rules \cup {0}

\* No process listens: Acceptor's variables as the next one will construct them.
NotListening ==
    /\ up = FALSE /\ accepting = FALSE /\ arrived = 0
    /\ nextSessionId = 1 /\ nextOffset = 2
    /\ phase = [c \in Conns |-> "none"]
    /\ sid = [c \in Conns |-> 0] /\ vip = [c \in Conns |-> 0]
    /\ sessions = [i \in Words |-> NoConn]
    /\ ipToSession = [a \in Words |-> NoSession]

\* Its memory goes with the process that listened.
ForgetConnections ==
    /\ up' = FALSE /\ accepting' = FALSE /\ arrived' = 0
    /\ nextSessionId' = 1 /\ nextOffset' = 2
    /\ phase' = [c \in Conns |-> "none"]
    /\ sid' = [c \in Conns |-> 0] /\ vip' = [c \in Conns |-> 0]
    /\ sessions' = [i \in Words |-> NoConn]
    /\ ipToSession' = [a \in Words |-> NoSession]
    /\ UNCHANGED tls

ProcessInit ==
    /\ tls \in BOOLEAN
    /\ NotListening
    /\ Dev!DeviceInit
    /\ Filter!FilterInit
    /\ pc = [p \in Procs |-> "off"]
    /\ rule = [p \in Procs |-> 1]
    /\ listener = Dev!Nobody
    /\ stopped = [p \in Procs |-> FALSE]
    /\ lockedOut = [p \in Procs |-> FALSE]
    /\ blocked = [p \in Procs |-> FALSE]
    /\ faults = 0
    /\ cutShort = FALSE /\ misled = FALSE /\ refused = {}

At(p, point) == pc[p] = point /\ ~lockedOut[p]
Goes(p, point) == pc' = [pc EXCEPT ![p] = point]

\* One more fault, while the bound allows it.
Fault == faults < MaxFaults /\ faults' = faults + 1
OtherHistory == UNCHANGED <<cutShort, misled, refused>>

\* p ends, and what it held with it.
Dies(p) ==
    /\ Goes(p, "ended")
    /\ Dev!DeviceDies(p)
    /\ IF listener = p THEN ForgetConnections ELSE UNCHANGED vars
    /\ listener' = IF listener = p THEN Dev!Nobody ELSE listener
    /\ rule' = [rule EXCEPT ![p] = 1]
    /\ stopped' = [stopped EXCEPT ![p] = FALSE]
    /\ lockedOut' = [lockedOut EXCEPT ![p] = FALSE]
    /\ blocked' = [blocked EXCEPT ![p] = FALSE]
    /\ UNCHANGED hostVars

----------------------------------------------------------------------------
(* main() and the start of run().                                          *)

Start(p) ==
    /\ p = "manual" => arrived <= MaxBeside
    /\ pc[p] = "off" \/ (pc[p] = "ended" /\ p = "service")
    /\ Goes(p, "main")
    /\ UNCHANGED <<vars, deviceState, hostVars, control, faults, cutShort, misled, refused>>

\* g_server is assigned: from here on a signal finds it.
Construct(p) ==
    /\ At(p, "main") /\ Goes(p, "setupTls")
    /\ UNCHANGED <<vars, deviceState, hostVars, control, historyVars>>

SetupTls(p) ==
    /\ At(p, "setupTls") /\ Goes(p, "open")
    /\ Dev!BeginOpen(p)
    /\ UNCHANGED <<vars, hostVars, control, historyVars>>

\* A certificate or key cannot be read: the exception leaves main().
SetupTlsThrows(p) ==
    /\ At(p, "setupTls") /\ tls
    /\ Dies(p)
    /\ Fault /\ OtherHistory

OpenDevice(p) ==
    /\ At(p, "open")
    /\ Dev!OpenStep(p)
    /\ UNCHANGED <<vars, hostVars, pc, control, historyVars>>

OpenDeviceFault(p) ==
    /\ At(p, "open")
    /\ Dev!OpenFault(p)
    /\ Fault /\ OtherHistory
    /\ UNCHANGED <<vars, hostVars, pc, control>>

\* Broken variant: the result of open() is not looked at.
OpenReturns_IgnoresError(p) ==
    /\ At(p, "open") /\ opening[p] \in {"opened", "failed"}
    /\ Goes(p, "forward")
    /\ UNCHANGED <<vars, deviceState, hostVars, control, historyVars>>

\* open() returns; on an error run() does, too.
OpenReturns(p) ==
    /\ At(p, "open")
    /\ \/ opening[p] = "opened" /\ Goes(p, "forward")
       \/ opening[p] = "failed" /\ Goes(p, "leaving")
    /\ UNCHANGED <<vars, deviceState, hostVars, control, historyVars>>

----------------------------------------------------------------------------
(* ensure_system_config.                                                   *)

EnableForwarding(p) ==
    /\ At(p, "forward") /\ Goes(p, "check")
    /\ Filter!EnableForwarding
    /\ refused' = refused \ {0}
    /\ UNCHANGED <<vars, deviceState, control, faults, cutShort, misled>>

\* sysctl fails, and its result is not looked at.
EnableForwardingFails(p) ==
    /\ At(p, "forward") /\ Goes(p, "check")
    /\ ~forwarding
    /\ refused' = refused \cup {0}
    /\ Fault
    /\ UNCHANGED <<vars, deviceState, hostVars, control, cutShort, misled>>

NextRule(p) == rule' = [rule EXCEPT ![p] = @ + 1]
SameControl == UNCHANGED <<listener, stopped, lockedOut, blocked>>

\* "iptables -C" has the rule: on to the next one.
RulePresent(p) ==
    /\ At(p, "check") /\ rule[p] \in Filter!Rules
    /\ Filter!Present(rule[p])
    /\ NextRule(p)
    /\ SameControl
    /\ UNCHANGED <<vars, deviceState, hostVars, pc, historyVars>>

\* Broken variant: the check is left out.
RuleAbsent_NoCheck(p) ==
    /\ At(p, "check") /\ rule[p] \in Filter!Rules
    /\ Goes(p, "add")
    /\ UNCHANGED <<vars, deviceState, hostVars, control, historyVars>>

RuleAbsent(p) ==
    /\ At(p, "check") /\ rule[p] \in Filter!Rules
    /\ ~Filter!Present(rule[p])
    /\ Goes(p, "add")
    /\ UNCHANGED <<vars, deviceState, hostVars, control, historyVars>>

\* The command fails though the rule is there; any non-zero status means "absent".
CheckFails(p) ==
    /\ At(p, "check") /\ rule[p] \in Filter!Rules
    /\ Filter!Present(rule[p])
    /\ Goes(p, "add")
    /\ misled' = TRUE
    /\ Fault
    /\ UNCHANGED <<vars, deviceState, hostVars, control, cutShort, refused>>

AddRule(p) ==
    /\ At(p, "add") /\ Goes(p, "check")
    /\ Filter!AppendRule(rule[p])
    /\ NextRule(p)
    /\ refused' = refused \ {rule[p]}
    /\ SameControl
    /\ UNCHANGED <<vars, deviceState, faults, cutShort, misled>>

\* A warning, and on to the next one.
AddRuleFails(p) ==
    /\ At(p, "add") /\ Goes(p, "check")
    /\ NextRule(p)
    /\ refused' = IF Filter!Present(rule[p]) THEN refused ELSE refused \cup {rule[p]}
    /\ Fault
    /\ SameControl
    /\ UNCHANGED <<vars, deviceState, hostVars, cutShort, misled>>

RulesDone(p) ==
    /\ At(p, "check") /\ rule[p] \notin Filter!Rules
    /\ Goes(p, "listen")
    /\ UNCHANGED <<vars, deviceState, hostVars, control, historyVars>>

----------------------------------------------------------------------------
(* The rest of run().                                                      *)

\* Broken variant: the io_context is restarted before it is run.
Listen_ResetsContext(p) ==
    /\ At(p, "listen") /\ listener = Dev!Nobody
    /\ Goes(p, "serving")
    /\ listener' = p
    /\ stopped' = [stopped EXCEPT ![p] = FALSE]
    /\ up' = TRUE /\ accepting' = TRUE
    /\ UNCHANGED <<tls, arrived, counters, phase, sid, vip, tables, deviceState, hostVars, rule,
                   lockedOut, blocked, historyVars>>

\* The port is free: bind, listen, do_accept, and the threads run the io_context.
Listen(p) ==
    /\ At(p, "listen") /\ listener = Dev!Nobody
    /\ Goes(p, "serving")
    /\ listener' = p
    /\ up' = TRUE /\ accepting' = TRUE
    /\ UNCHANGED <<tls, arrived, counters, phase, sid, vip, tables, deviceState, hostVars, rule,
                   stopped, lockedOut, blocked, historyVars>>

\* bind() throws; nothing catches the exception.
ListenThrows(p) ==
    /\ At(p, "listen") /\ listener # Dev!Nobody
    /\ Dies(p)
    /\ UNCHANGED historyVars

\* ioc_.run() returns in every thread: stopped, and no handler is still running.
RunReturns(p) ==
    /\ At(p, "serving") /\ stopped[p] /\ up /\ ~blocked[p]
    /\ \A c \in Conns : phase[c] \notin InOnAccept
    /\ Goes(p, "leaving")
    /\ UNCHANGED <<vars, deviceState, hostVars, control, historyVars>>

\* main() returns and g_server is destroyed: ~Server closes the device.  However the
\* detached TUN thread takes that, the process ends here.
Exit(p) ==
    /\ At(p, "leaving")
    /\ Dies(p)
    /\ UNCHANGED historyVars

----------------------------------------------------------------------------
(* Acceptor's steps, in the process that listens.                          *)

ProcessSame == UNCHANGED <<deviceState, hostVars, pc, control>>

\* A handler that runs already goes on after ioc_.stop(); no new one is taken up.
AcceptorStep(c) ==
    /\ TakeSessionId(c) \/ AllocateClientIp(c) \/ StartHandshake(c)
    /\ ProcessSame /\ UNCHANGED historyVars

AcceptorHandler ==
    /\ listener # Dev!Nobody /\ ~stopped[listener]
    /\ \/ AcceptError
       \/ OnAccept /\ (pc["manual"] # "off" => arrived < MaxBeside)
       \/ \E c \in Conns : HandshakeFails(c) \/ RegisterSession(c) \/ SessionEnds(c)
    /\ ProcessSame /\ UNCHANGED historyVars

\* An exception on an I/O thread, or a call on a moved-from stream.
AcceptorCrash ==
    /\ \E c \in Conns :
          \/ RemoteEndpointThrows(c)
          \/ SslHandshakeDone(c) /\ ~stopped[listener]
    /\ Fault /\ OtherHistory
    /\ ProcessSame

\* Broken variant: what an I/O thread throws is caught, and the process stays.
Aborts_Caught(p) ==
    /\ listener = p /\ ~up
    /\ UNCHANGED processVars

Aborts(p) ==
    /\ listener = p /\ ~up
    /\ Dies(p)
    /\ UNCHANGED historyVars

\* A session's ws_.close() waits for a peer that does not answer.
HandlerBlocks(p) ==
    /\ At(p, "serving") /\ ~stopped[p] /\ ~blocked[p]
    /\ \E c \in Conns : phase[c] = "registered"
    /\ blocked' = [blocked EXCEPT ![p] = TRUE]
    /\ Fault /\ OtherHistory
    /\ UNCHANGED <<vars, deviceState, hostVars, pc, rule, listener, stopped,
                   lockedOut>>

----------------------------------------------------------------------------
(* Signals and death.                                                      *)

\* stop(): the io_context is stopped for good, even if it does not run yet, and the
\* device is closed if it is open by now.
Signal(p) ==
    /\ pc[p] \in Alive \ {"main"} /\ ~lockedOut[p]
    /\ stopped' = [stopped EXCEPT ![p] = TRUE]
    /\ Dev!CloseDevice(p)
    /\ cutShort' = (cutShort \/ (fd[p] /\ pc[p] \in {"open", "forward", "check", "add"}))
    /\ Fault
    /\ UNCHANGED <<vars, hostVars, pc, rule, listener, lockedOut, blocked,
                   misled, refused>>

\* The signal finds the main thread inside log(): the handler's first log() waits for
\* the mutex its own thread holds.
SignalInLogger(p) ==
    /\ pc[p] \in Alive /\ ~lockedOut[p]
    /\ lockedOut' = [lockedOut EXCEPT ![p] = TRUE]
    /\ Fault /\ OtherHistory
    /\ UNCHANGED <<vars, deviceState, hostVars, pc, rule, listener, stopped, blocked>>

Kill(p) ==
    /\ pc[p] \in Alive
    /\ Dies(p)
    /\ Fault /\ OtherHistory

----------------------------------------------------------------------------
MainStep(p) ==
    \/ Construct(p)
    \/ SetupTls(p)
    \/ OpenDevice(p)
    \/ OpenReturns(p)
    \/ EnableForwarding(p)
    \/ RulePresent(p)
    \/ RuleAbsent(p)
    \/ AddRule(p)
    \/ RulesDone(p)
    \/ Listen(p)
    \/ ListenThrows(p)
    \/ RunReturns(p)
    \/ Exit(p)
    \/ Aborts(p)

MainFault(p) ==
    \/ SetupTlsThrows(p)
    \/ OpenDeviceFault(p)
    \/ EnableForwardingFails(p)
    \/ CheckFails(p)
    \/ AddRuleFails(p)

ProcessNext ==
    \/ \E p \in Procs :
          \/ Start(p)
          \/ MainStep(p)
          \/ MainFault(p)
          \/ HandlerBlocks(p)
          \/ Signal(p)
          \/ SignalInLogger(p)
          \/ Kill(p)
    \/ \E c \in Conns : AcceptorStep(c)
    \/ AcceptorHandler
    \/ AcceptorCrash

ProcessSpec == ProcessInit /\ [][ProcessNext]_processVars

(***************************************************************************)
(* Fairness: threads are scheduled, and systemd starts the service again   *)
(* whenever it has ended.                                                  *)
(***************************************************************************)
ProcessFairness ==
    /\ WF_processVars(Start("service"))
    /\ \A p \in Procs : WF_processVars(MainStep(p))
    /\ \A c \in Conns : WF_processVars(AcceptorStep(c))

FairProcessSpec == ProcessSpec /\ ProcessFairness

----------------------------------------------------------------------------
(* Properties.                                                             *)

\* No iptables rule gets into its chain twice, whatever kills and restarts come between
\* a check and its addition, and although two processes check and add without a lock:
\* holding kirdi0 keeps the second one out of ensure_system_config.  It does so no longer
\* once a signal has closed the device of a process that goes on with its rules, and a
\* check that fails is taken for an absent rule.
RulesOnce == ~cutShort /\ ~misled => \A r \in Filter!Rules : copies[r] <= 1

\* A process takes connections only with the interface its own and configured, and
\* with forwarding and every rule in place, unless the very command that should have
\* put it there failed.
ServesOnlyConfigured ==
    \A p \in Procs :
        pc[p] = "serving" /\ ~stopped[p] =>
            /\ holder = p /\ configured /\ fd[p]
            /\ forwarding \/ 0 \in refused
            /\ \A r \in Filter!Rules : Filter!Present(r) \/ r \in refused

\* open() and close() keep fd_ and the kernel's table in step, whichever call failed and
\* whenever a signal closed the device in between: no descriptor is left behind, and
\* the interface goes with it.
DescriptorsOwned ==
    \A p \in Procs :
        /\ "tun" \in descriptors[p] <=> fd[p]
        /\ "socket" \in descriptors[p] => opening[p] \in DOMAIN Dev!NextIoctl
        /\ holder = p => fd[p]

\* A signal ends the process, even one that comes before the io_context runs; what can
\* keep it is a main thread caught inside the logger or a handler stuck in ws_.close().
SignalEnds ==
    \A p \in Procs : stopped[p] \/ lockedOut[p] ~> pc[p] = "ended" \/ lockedOut[p] \/ blocked[p]

\* systemd brings the service back after every crash, refusal of the interface or
\* signal: some process serves again and again, or one is stuck, holding the interface
\* or keeping systemd waiting.
ServiceRecovers ==
    []<>(\E p \in Procs : (pc[p] = "serving" /\ up /\ ~stopped[p]) \/ lockedOut[p] \/ blocked[p])
=============================================================================
