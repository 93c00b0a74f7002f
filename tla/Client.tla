------------------------------- MODULE Client -------------------------------
(***************************************************************************)
(* The client: connection, tunnel setup and teardown, reconnection, the    *)
(* TUN threads, signals and process death.  src/client/client.cpp and      *)
(* src/client/main.cpp, over ClientTransport and HostNetwork.              *)
(*                                                                         *)
(* The main thread runs the io_context, so transport handlers and the      *)
(* reconnect timer run one at a time on it.  "todo" is what it has still   *)
(* to do of the handler it is in, step by step, one command or call each:  *)
(* a signal handler runs stop() on top of whatever the main thread is      *)
(* doing, between any two steps.  TUN threads run beside it.               *)
(***************************************************************************)
EXTENDS Naturals, Sequences, FiniteSets

CONSTANTS
    MaxTransports,   \* bound: transports a process makes
    MaxSends,        \* bound: frames of one transport's queue that are counted
    MaxKills         \* bound: times the process is killed

ASSUME BoundAssumption == MaxTransports \in Nat \ {0} /\ MaxSends \in Nat \ {0}
                          /\ MaxKills \in Nat

Transports == 1 .. MaxTransports
MaxDelay == 60                          \* MAX_RECONNECT_DELAY_SEC

VARIABLES
    stage, reading, writer, queued, auth,          \* see ClientTransport
    routes, resolv, backup,                        \* see HostNetwork
    autoRoute,       \* config_.auto_route
    gateway,         \* original_gateway_ is known
    main,            \* where main() is
    todo,            \* steps the main thread has still to make before its next handler
    running,         \* running_
    connected,       \* connected_
    shutdown,        \* g_shutdown: a signal has been taken
    iocStopped,      \* ioc_.stop() has been called
    closing,         \* closing_ of the current transport
    current,         \* the transport ws_ points to, 0 for none
    attempt,         \* reconnect_attempt_
    timer,           \* the pending reconnect timer's delay, 0 for none
    tun,             \* tun_: "null", or a device that is "open" or "closed"
    tunThreads,      \* TUN threads at each point of their loop
    kills,           \* bound: times killed so far
    unexcluded,      \* history: the last "ip route add" of the server's route failed
    interrupted,     \* history: a signal arrived in the middle of a handler
    stray            \* history: an old transport's error has been taken for the current's

transportVars == <<stage, reading, writer, queued, auth>>
hostVars      == <<routes, resolv, backup>>
flags         == <<running, connected, shutdown, iocStopped, closing>>
reconnection  == <<current, attempt, timer>>
history       == <<kills, unexcluded, interrupted, stray>>
rigid         == <<autoRoute, gateway>>
vars == <<transportVars, hostVars, rigid, main, todo, flags, reconnection, tun, tunThreads,
          history>>

Ws   == INSTANCE ClientTransport
Host == INSTANCE HostNetwork

ThreadPoints == {"check", "use", "send"}

Steps == {"stop", "wsClose", "wsClosing", "iocStop", "restoreResolv", "delLow", "delHigh",
          "delServer", "tunClose", "tunReset", "tunOpen", "addServer", "addLow", "addHigh",
          "backupResolv", "writeResolv", "startTun", "onError", "reconnect"}

TypeOK ==
    /\ Ws!TransportTypeOK
    /\ Host!HostTypeOK
    /\ autoRoute \in BOOLEAN
    /\ gateway \in BOOLEAN
    /\ main \in {"starting", "resolving", "loop", "leaving", "exited", "crashed", "killed"}
    /\ todo \in Seq(Steps)
    /\ {running, connected, shutdown, iocStopped, closing} \subseteq BOOLEAN
    /\ current \in 0 .. MaxTransports
    /\ attempt \in Nat
    /\ timer \in 0 .. MaxDelay
    /\ tun \in {"null", "open", "closed"}
    /\ tunThreads \in [ThreadPoints -> Nat]
    /\ kills \in 0 .. MaxKills
    /\ {unexcluded, interrupted, stray} \subseteq BOOLEAN

Init ==
    /\ Ws!TransportInit
    /\ Host!HostInit
    /\ autoRoute \in BOOLEAN
    /\ gateway \in BOOLEAN
    /\ main = "starting" /\ todo = <<>>
    /\ running = FALSE /\ connected = FALSE /\ shutdown = FALSE
    /\ iocStopped = FALSE /\ closing = FALSE
    /\ current = 0 /\ attempt = 0 /\ timer = 0
    /\ tun = "null" /\ tunThreads = [p \in ThreadPoints |-> 0]
    /\ kills = 0
    /\ unexcluded = FALSE /\ interrupted = FALSE /\ stray = FALSE

Alive == main \in {"starting", "resolving", "loop", "leaving"}

\* The main thread takes up a handler only when it is done with the one before.
TakesHandler == main = "loop" /\ todo = <<>> /\ ~iocStopped

\* The main thread's next step, and how it goes on from there.
Doing(step)    == Alive /\ todo # <<>> /\ Head(todo) = step
Then(steps)    == todo' = steps \o Tail(todo)
Done           == Then(<<>>)

----------------------------------------------------------------------------
(* main() and run().                                                       *)

RunBegins ==
    /\ main = "starting" /\ todo = <<>>
    /\ main' = "resolving"
    /\ running' = TRUE
    /\ UNCHANGED <<transportVars, hostVars, rigid, todo, connected, shutdown, iocStopped,
                   closing, reconnection, tun, tunThreads, history>>

\* The server's address and the gateway are looked up; the first transport connects.
RunConnects ==
    /\ main = "resolving" /\ todo = <<>>
    /\ main' = "loop"
    /\ current' = 1
    /\ Ws!Connect(1)
    /\ UNCHANGED <<hostVars, rigid, todo, flags, attempt, timer, tun, tunThreads, history>>

\* ioc_.run() returns: stopped, or out of work.  main() destroys the client, whose
\* destructor calls stop().
LeavesLoop ==
    /\ main = "loop" /\ todo = <<>>
    /\ iocStopped \/ (timer = 0 /\ \A g \in Transports : ~Ws!HasWork(g))
    /\ main' = "leaving"
    /\ todo' = <<"stop">>
    /\ UNCHANGED <<transportVars, hostVars, rigid, flags, reconnection, tun, tunThreads,
                   history>>

\* The process ends, its threads and its TUN device with it.
Exit ==
    /\ main = "leaving" /\ todo = <<>>
    /\ main' = "exited"
    /\ Host!DeviceGone
    /\ UNCHANGED <<transportVars, rigid, todo, flags, reconnection, tun, tunThreads, history>>

SetupSteps == {"tunOpen", "addServer", "addLow", "addHigh", "backupResolv", "writeResolv",
               "startTun"}

\* The first SIGINT or SIGTERM runs stop() on the main thread, on top of what it is
\* doing; g_client is null once main() has begun to destroy it.
Signal ==
    /\ Alive /\ ~shutdown
    /\ shutdown' = TRUE
    /\ todo' = IF main = "leaving" THEN todo ELSE <<"stop">> \o todo
    /\ interrupted' = (interrupted \/ \E i \in 1..Len(todo) : todo[i] \in SetupSteps)
    /\ UNCHANGED <<transportVars, hostVars, rigid, main, running, connected, iocStopped,
                   closing, reconnection, tun, tunThreads, kills, unexcluded, stray>>

----------------------------------------------------------------------------
(* stop().                                                                 *)

\* Broken variant: the server's route is deleted while the others are still there.
RouteTeardown_ServerFirst ==
    IF autoRoute THEN <<"delServer", "delLow", "delHigh">> ELSE <<>>

RouteTeardown == IF autoRoute THEN <<"delLow", "delHigh", "delServer">> ELSE <<>>

\* Broken variant: stop() leaves the io_context running.
StopSteps_KeepsRunning ==
    (IF current = 0 THEN <<>> ELSE <<"wsClose">>)
       \o <<"restoreResolv">> \o RouteTeardown \o <<"tunClose">>

StopSteps ==
    (IF current = 0 THEN <<>> ELSE <<"wsClose">>)
       \o <<"iocStop", "restoreResolv">> \o RouteTeardown \o <<"tunClose">>

Stop ==
    /\ Doing("stop")
    /\ running' = FALSE
    /\ Then(IF running THEN StopSteps ELSE <<>>)
    /\ UNCHANGED <<transportVars, hostVars, rigid, main, connected, shutdown, iocStopped,
                   closing, reconnection, tun, tunThreads, history>>

\* close() of the current transport; ws_->close() blocks if the stream is open.
WsClose ==
    /\ Doing("wsClose")
    /\ closing' = TRUE
    /\ Then(IF stage[current] = "up" THEN <<"wsClosing">> ELSE <<>>)
    /\ UNCHANGED <<transportVars, hostVars, rigid, main, running, connected, shutdown,
                   iocStopped, reconnection, tun, tunThreads, history>>

WsCloseReturns ==
    /\ Doing("wsClosing") /\ Done
    /\ UNCHANGED <<transportVars, hostVars, rigid, main, flags, reconnection, tun,
                   tunThreads, history>>

IocStop ==
    /\ Doing("iocStop") /\ Done
    /\ iocStopped' = TRUE
    /\ UNCHANGED <<transportVars, hostVars, rigid, main, running, connected, shutdown,
                   closing, reconnection, tun, tunThreads, history>>

\* A command on the host's routes or resolv.conf.
HostStep ==
    /\ \/ Doing("restoreResolv") /\ Host!RestoreResolv
       \/ Doing("delLow") /\ Host!DeleteRoute("low")
       \/ Doing("delHigh") /\ Host!DeleteRoute("high")
       \/ Doing("delServer") /\ Host!DeleteRoute("server")
       \/ Doing("backupResolv") /\ Host!BackupResolv
       \/ Doing("writeResolv") /\ Host!WriteResolv
       \/ Doing("addLow") /\ tun = "open" /\ Host!AddRoute("low")
       \/ Doing("addHigh") /\ tun = "open" /\ Host!AddRoute("high")
       \/ (Doing("addLow") \/ Doing("addHigh")) /\ tun # "open" /\ UNCHANGED hostVars
    /\ Done
    /\ UNCHANGED <<transportVars, rigid, main, flags, reconnection, tun, tunThreads, history>>

\* tun_->close(), if there is a device and it is open.
TunClose ==
    /\ Doing("tunClose") /\ Done
    /\ IF tun = "open" THEN tun' = "closed" /\ Host!DeviceGone ELSE UNCHANGED <<tun, hostVars>>
    /\ UNCHANGED <<transportVars, rigid, main, flags, reconnection, tunThreads, history>>

----------------------------------------------------------------------------
(* on_error() and schedule_reconnect().                                    *)

\* Broken variant: the device is destroyed before the routes and DNS are undone.
ErrorSteps_DeviceFirst ==
    <<"tunClose", "tunReset", "restoreResolv">> \o RouteTeardown \o <<"reconnect">>

\* Broken variant: the device stays open while the client reconnects.
ErrorSteps_KeepsDevice == <<"restoreResolv">> \o RouteTeardown \o <<"reconnect">>

ErrorSteps ==
    <<"restoreResolv">> \o RouteTeardown \o <<"tunClose", "tunReset", "reconnect">>

\* Broken variant: connected_ is not tested, so each failing operation reconnects.
OnError_EveryError ==
    /\ Doing("onError")
    /\ connected' = FALSE
    /\ Then(ErrorSteps)
    /\ UNCHANGED <<transportVars, hostVars, rigid, main, running, shutdown, iocStopped,
                   closing, reconnection, tun, tunThreads, history>>

\* Only the error that clears connected_ is acted upon.
OnError ==
    /\ Doing("onError")
    /\ connected' = FALSE
    /\ Then(IF connected THEN ErrorSteps ELSE <<>>)
    /\ UNCHANGED <<transportVars, hostVars, rigid, main, running, shutdown, iocStopped,
                   closing, reconnection, tun, tunThreads, history>>

TunReset ==
    /\ Doing("tunReset") /\ Done
    /\ tun' = "null"
    /\ UNCHANGED <<transportVars, hostVars, rigid, main, flags, reconnection, tunThreads,
                   history>>

AtMost(n, limit) == IF n < limit THEN n ELSE limit

\* Seconds to wait before the n-th attempt in a row.
Delay(n) == AtMost(2 ^ AtMost(n - 1, 5), MaxDelay)

\* Broken variant: the timer is not started.
Reconnect_NoTimer ==
    /\ Doing("reconnect") /\ Done
    /\ attempt' = IF running THEN attempt + 1 ELSE attempt
    /\ UNCHANGED <<transportVars, hostVars, rigid, main, flags, current, timer, tun,
                   tunThreads, history>>

Reconnect ==
    /\ Doing("reconnect") /\ Done
    /\ IF running
       THEN attempt' = attempt + 1 /\ timer' = Delay(attempt + 1)
       ELSE UNCHANGED <<attempt, timer>>
    /\ UNCHANGED <<transportVars, hostVars, rigid, main, flags, current, tun, tunThreads,
                   history>>

\* A new transport takes the place of the failed one, which is not closed.  A second at
\* least has passed: a TUN thread that found the old one connected is past its send().
TimerFires ==
    /\ TakesHandler /\ running
    /\ timer > 0 /\ current < MaxTransports
    /\ tunThreads["send"] = 0
    /\ timer' = 0
    /\ current' = current + 1
    /\ Ws!Connect(current + 1)
    /\ UNCHANGED <<hostVars, rigid, main, todo, flags, attempt, tun, tunThreads, history>>

----------------------------------------------------------------------------
(* Handlers of the transports.                                             *)

\* on_ws_handshake and the on_connected it calls.
Opens(g) ==
    /\ TakesHandler /\ Ws!Opens(g)
    /\ connected' = TRUE
    /\ attempt' = 0
    /\ UNCHANGED <<hostVars, rigid, main, todo, running, shutdown, iocStopped, closing,
                   current, timer, tun, tunThreads, history>>

Writes(g) ==
    /\ TakesHandler
    /\ Ws!RunPosted(g) \/ Ws!OnWriteOk(g)
    /\ UNCHANGED <<hostVars, rigid, main, todo, flags, reconnection, tun, tunThreads, history>>

\* Every operation that fails ends in fail(), which calls on_error.
Fails(g) ==
    /\ TakesHandler
    /\ Ws!ConnectFails(g) \/ Ws!OnWriteError(g) \/ Ws!OnReadError(g)
    /\ todo' = <<"onError">>
    /\ stray' = (stray \/ (connected /\ g # current))
    /\ UNCHANGED <<hostVars, rigid, main, flags, reconnection, tun, tunThreads, kills,
                   unexcluded, interrupted>>

\* on_packet with an AuthResponse: set up the tunnel, or stop.
AuthResponse(g) ==
    /\ TakesHandler /\ Ws!OnAuthResponse(g)
    /\ \E step \in {"tunOpen", "stop"} : todo' = <<step>>
    /\ UNCHANGED <<hostVars, rigid, main, flags, reconnection, tun, tunThreads, history>>

----------------------------------------------------------------------------
(* Setting up the tunnel.                                                  *)

\* setup_routes does nothing without a gateway; then setup_dns.
RouteSetup ==
    IF ~autoRoute THEN <<>>
    ELSE (IF gateway THEN <<"addServer", "addLow", "addHigh">> ELSE <<>>)
            \o <<"backupResolv", "writeResolv">>

\* A new device takes the place of the old one, if any, and is opened; if that fails
\* the handler calls stop() and returns.
TunOpen ==
    /\ Doing("tunOpen")
    /\ Host!DeviceGone
    /\ \/ tun' = "open" /\ Then(RouteSetup \o <<"startTun">>)
       \/ tun' = "closed" /\ todo' = <<"stop">>
    /\ UNCHANGED <<transportVars, rigid, main, flags, reconnection, tunThreads, history>>

\* "ip route add" of the server's route; if it fails, it is tried with a metric, and
\* set-up goes on whether that fails or not.
AddServer ==
    /\ Doing("addServer") /\ Done
    /\ Host!AddRoute("server") \/ UNCHANGED hostVars
    /\ unexcluded' = ("server" \notin routes')
    /\ UNCHANGED <<transportVars, rigid, main, flags, reconnection, tun, tunThreads, kills,
                   interrupted, stray>>

StartTun ==
    /\ Doing("startTun") /\ Done
    /\ tunThreads' = [tunThreads EXCEPT !["check"] = @ + 1]
    /\ UNCHANGED <<transportVars, hostVars, rigid, main, flags, reconnection, tun, history>>

----------------------------------------------------------------------------
(* The TUN threads.  Each reads running_, tun_ and ws_ without a lock.     *)

Move(p, q) == tunThreads' = [tunThreads EXCEPT ![p] = @ - 1, ![q] = @ + 1]

\* The loop's condition.
TunCheck ==
    /\ Alive /\ tunThreads["check"] > 0
    /\ IF running /\ tun = "open" THEN Move("check", "use")
       ELSE tunThreads' = [tunThreads EXCEPT !["check"] = @ - 1]
    /\ UNCHANGED <<transportVars, hostVars, rigid, main, todo, flags, reconnection, tun, history>>

\* Poll and read the device: a packet for a connected transport, or none.
TunUse ==
    /\ Alive /\ tunThreads["use"] > 0
    /\ tun # "null"
    /\ \/ Move("use", "check")
       \/ tun = "open" /\ stage[current] = "up" /\ ~closing /\ Move("use", "send")
    /\ UNCHANGED <<transportVars, hostVars, rigid, main, todo, flags, reconnection, tun, history>>

TunSend ==
    /\ Alive /\ tunThreads["send"] > 0
    /\ Move("send", "check")
    /\ IF closing THEN UNCHANGED transportVars ELSE Ws!Push(current)
    /\ UNCHANGED <<hostVars, rigid, main, todo, flags, reconnection, tun, history>>

\* The process dies: the device was destroyed while a thread was using it.
TunCrash ==
    /\ Alive
    /\ tunThreads["use"] > 0 /\ tun = "null"
    /\ main' = "crashed"
    /\ Host!DeviceGone
    /\ UNCHANGED <<transportVars, rigid, todo, flags, reconnection, tun, tunThreads, history>>

----------------------------------------------------------------------------
(* The process is killed, and started again later.                         *)

Kill ==
    /\ Alive /\ kills < MaxKills
    /\ main' = "killed"
    /\ kills' = kills + 1
    /\ Host!DeviceGone
    /\ UNCHANGED <<transportVars, rigid, todo, flags, reconnection, tun, tunThreads,
                   unexcluded, interrupted, stray>>

Restart ==
    /\ main = "killed"
    /\ main' = "starting" /\ todo' = <<>>
    /\ running' = FALSE /\ connected' = FALSE /\ shutdown' = FALSE
    /\ iocStopped' = FALSE /\ closing' = FALSE
    /\ current' = 0 /\ attempt' = 0 /\ timer' = 0
    /\ tun' = "null" /\ tunThreads' = [p \in ThreadPoints |-> 0]
    /\ stage' = [g \in Transports |-> "none"]
    /\ reading' = [g \in Transports |-> FALSE]
    /\ writer' = [g \in Transports |-> "idle"]
    /\ queued' = [g \in Transports |-> 0]
    /\ auth' = [g \in Transports |-> "none"]
    /\ stray' = FALSE
    /\ UNCHANGED <<hostVars, rigid, kills, unexcluded, interrupted>>

----------------------------------------------------------------------------
MainStep ==
    \/ RunBegins \/ RunConnects \/ LeavesLoop \/ Exit
    \/ Stop \/ WsClose \/ IocStop \/ HostStep \/ TunClose
    \/ OnError \/ TunReset \/ Reconnect
    \/ TunOpen \/ AddServer \/ StartTun

Next ==
    \/ MainStep
    \/ WsCloseReturns
    \/ Signal
    \/ TimerFires
    \/ \E g \in Transports :
          Opens(g) \/ Writes(g) \/ Fails(g) \/ AuthResponse(g)
    \/ TunCheck \/ TunUse \/ TunSend \/ TunCrash
    \/ Kill \/ Restart

Spec == Init /\ [][Next]_vars

\* The main thread goes on with what it is doing, a TUN thread that is about to send()
\* does, and the timer is served.  Nothing makes ws_->close() return.
FairSpec == Spec /\ WF_vars(MainStep) /\ WF_vars(TunSend) /\ SF_vars(TimerFires)

----------------------------------------------------------------------------
(* Properties.                                                             *)

\* However many operations of however many transports fail, at most one attempt to
\* connect is under way or waited for (on_error acts only on the error that clears
\* connected_), and it is always awaited for one second: the exponential part of
\* schedule_reconnect is never reached.
OneAttempt ==
    /\ timer > 0 => timer = Delay(1)
    /\ Cardinality({g \in Transports : stage[g] = "connecting"})
          + (IF timer > 0 THEN 1 ELSE 0) <= 1

\* The address space is not routed into the tunnel without the server's own route
\* outside it, whatever order set-up, tear-down, signals and kills come in, as long as
\* the command that adds that route did not fail.
NoRoutingLoop == ~unexcluded /\ routes \cap Host!HalfRoutes # {} => "server" \in routes

\* Routes and DNS are as they were when the process ends by itself, even by a crash of a
\* TUN thread that used a device destroyed under it: teardown comes before that.  A kill
\* costs the DNS settings (its backup is overwritten by the next process), but not the
\* routes, and a signal in the middle of set-up may cost both.
RestoredAtEnd ==
    main \in {"exited", "crashed"} /\ ~interrupted /\ ~stray =>
        /\ routes = {}
        /\ kills = 0 => resolv = "original"

\* Between handlers an open tunnel belongs to a connected client and carries its routes,
\* although transports that failed earlier still have operations outstanding (unless one
\* of those has hit the newer connection).
TunnelOwned ==
    main = "loop" /\ todo = <<>> /\ tun = "open" /\ ~stray =>
        /\ connected
        /\ autoRoute /\ gateway => Host!HalfRoutes \subseteq routes

\* Once stop() has begun the process ends, unless the server keeps ws_->close() waiting.
StopEnds ==
    main = "loop" /\ ~running ~>
        main \in {"exited", "crashed", "killed"} \/ Doing("wsClosing")

\* The loss of a connection is followed by another attempt, unless stop() is called (not
\* by the destructor, when the io_context has run out of work) or the process dies.
Reconnects ==
    \A n \in 1 .. MaxTransports - 1 :
        Doing("onError") /\ connected /\ current = n
           ~> \/ current > n
              \/ main = "loop" /\ ~running
              \/ main \in {"crashed", "killed"}

\* "Clean up TUN and routes but keep running for reconnect" (client.cpp): once a connection
\* has been lost the process does not end without having been stopped.
KeepsReconnecting == current > 1 /\ running => main # "leaving"

\* The server's route "MUST succeed before adding catch-all" routes (client.cpp).
ServerRouteFirst == routes \cap Host!HalfRoutes # {} => "server" \in routes

\* stop() cleans the routes (and the DNS settings) up.
StopRestores == main = "exited" /\ kills = 0 => Host!Restored
=============================================================================
