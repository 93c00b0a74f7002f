---------------------------- MODULE HostNetwork ----------------------------
(***************************************************************************)
(* What the client changes on its host (Linux): the kernel's routes and    *)
(* /etc/resolv.conf, one command of setup_routes, setup_dns,               *)
(* teardown_dns and teardown_routes of src/client/client.cpp per operator. *)
(* Files outlive the process; a route through the TUN device lives no      *)
(* longer than the device.                                                 *)
(***************************************************************************)
VARIABLES
    routes,          \* subset of {"server", "low", "high"}: the server's host route,
                     \* and the two halves of the address space through the tunnel
    resolv,          \* resolv.conf: "original" or "tunnel"
    backup           \* resolv.conf.kirdi-backup: its content, or "none"

hostVars == <<routes, resolv, backup>>

HalfRoutes == {"low", "high"}

HostTypeOK ==
    /\ routes \subseteq {"server"} \cup HalfRoutes
    /\ resolv \in {"original", "tunnel"}
    /\ backup \in {"original", "tunnel", "none"}

HostInit ==
    /\ routes = {}
    /\ resolv = "original"
    /\ backup = "none"

AddRoute(r)    == routes' = routes \cup {r} /\ UNCHANGED <<resolv, backup>>
DeleteRoute(r) == routes' = routes \ {r} /\ UNCHANGED <<resolv, backup>>

\* cp resolv.conf resolv.conf.kirdi-backup
BackupResolv == backup' = resolv /\ UNCHANGED <<routes, resolv>>

\* echo nameserver > resolv.conf
WriteResolv == resolv' = "tunnel" /\ UNCHANGED <<routes, backup>>

\* [ -f resolv.conf.kirdi-backup ] && mv resolv.conf.kirdi-backup resolv.conf
RestoreResolv ==
    /\ resolv' = IF backup = "none" THEN resolv ELSE backup
    /\ backup' = "none"
    /\ UNCHANGED routes

\* The TUN device disappears, and with it the routes through it.
DeviceGone == routes' = routes \ HalfRoutes /\ UNCHANGED <<resolv, backup>>

Restored == routes = {} /\ resolv = "original"
=============================================================================
