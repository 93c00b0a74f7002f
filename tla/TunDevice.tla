----------------------------- MODULE TunDevice ------------------------------
(***************************************************************************)
(* Opening and closing the TUN device on Linux: LinuxTunDevice::open,      *)
(* configure_address and close (src/tun/tun_linux.cpp), system call by     *)
(* system call, for processes of one host that all ask for the interface   *)
(* "kirdi0".  The kernel's side is external: an interface exists while a   *)
(* process holds the queue, a second TUNSETIFF of its name is refused, and *)
(* it goes with the last descriptor.                                       *)
(*                                                                         *)
(* close() may run between any two calls of open(): stop(), in a signal    *)
(* handler, makes it on the thread that is opening.  To close a descriptor *)
(* and to set fd_ to -1 is one step here.                                  *)
(***************************************************************************)
CONSTANTS
    Procs            \* processes that open the device

VARIABLES
    opening,         \* the call open() makes next
    fd,              \* fd_ >= 0
    descriptors,     \* descriptors the kernel holds open for each process
    holder,          \* the process attached to the interface
    configured       \* the interface has its address and is up

deviceVars == <<opening, fd, descriptors, holder, configured>>

Nobody == "nobody"

\* The calls of open() in order; configure_address makes all but the first two.
OpenCalls == {"idle", "node", "setiff", "socket", "addr", "netmask", "mtu", "getflags",
              "setflags", "undo", "opened", "failed"}

\* The ioctls of configure_address, each with the one that follows it.
NextIoctl == [addr |-> "netmask", netmask |-> "mtu", mtu |-> "getflags",
              getflags |-> "setflags", setflags |-> "opened"]

DeviceTypeOK ==
    /\ opening \in [Procs -> OpenCalls]
    /\ fd \in [Procs -> BOOLEAN]
    /\ descriptors \in [Procs -> SUBSET {"tun", "socket"}]
    /\ holder \in Procs \cup {Nobody}
    /\ configured \in BOOLEAN

DeviceInit ==
    /\ opening = [p \in Procs |-> "idle"]
    /\ fd = [p \in Procs |-> FALSE]
    /\ descriptors = [p \in Procs |-> {}]
    /\ holder = Nobody
    /\ configured = FALSE

Goes(p, call) == opening' = [opening EXCEPT ![p] = call]

\* The kernel lets go of the interface with the descriptor that holds it.
Released(p) ==
    /\ holder' = IF holder = p THEN Nobody ELSE holder
    /\ configured' = (configured /\ holder # p)

\* Broken variant: the descriptor stays open.
CloseFd_Leaks(p) ==
    /\ fd' = [fd EXCEPT ![p] = FALSE]
    /\ UNCHANGED <<descriptors, holder, configured>>

\* ::close(fd_) and fd_ = -1; nothing to close if it is -1 already.
CloseFd(p) ==
    /\ fd' = [fd EXCEPT ![p] = FALSE]
    /\ IF fd[p]
       THEN descriptors' = [descriptors EXCEPT ![p] = @ \ {"tun"}] /\ Released(p)
       ELSE UNCHANGED <<descriptors, holder, configured>>

----------------------------------------------------------------------------
(* open().                                                                 *)

BeginOpen(p) ==
    /\ Goes(p, "node")
    /\ UNCHANGED <<fd, descriptors, holder, configured>>

OpenNode(p) ==
    /\ opening[p] = "node"
    /\ fd' = [fd EXCEPT ![p] = TRUE]
    /\ descriptors' = [descriptors EXCEPT ![p] = @ \cup {"tun"}]
    /\ Goes(p, "setiff")
    /\ UNCHANGED <<holder, configured>>

OpenNodeFails(p) ==
    /\ opening[p] = "node"
    /\ fd' = [fd EXCEPT ![p] = FALSE]
    /\ Goes(p, "failed")
    /\ UNCHANGED <<descriptors, holder, configured>>

\* TUNSETIFF on a descriptor that is still open, for a name nobody holds; the device
\* is made non-blocking.
SetIff(p) ==
    /\ opening[p] = "setiff" /\ fd[p] /\ holder = Nobody
    /\ holder' = p
    /\ Goes(p, "socket")
    /\ UNCHANGED <<fd, descriptors, configured>>

SetIffFails(p) ==
    /\ opening[p] = "setiff"
    /\ CloseFd(p)
    /\ Goes(p, "failed")

ConfigSocket(p) ==
    /\ opening[p] = "socket"
    /\ descriptors' = [descriptors EXCEPT ![p] = @ \cup {"socket"}]
    /\ Goes(p, "addr")
    /\ UNCHANGED <<fd, holder, configured>>

ConfigSocketFails(p) ==
    /\ opening[p] = "socket"
    /\ Goes(p, "undo")
    /\ UNCHANGED <<fd, descriptors, holder, configured>>

\* The ioctls name the interface, not the descriptor: they succeed while one of that
\* name exists, be it another process's.  After the last one the socket is closed.
Ioctl(p) ==
    /\ opening[p] \in DOMAIN NextIoctl /\ holder # Nobody
    /\ Goes(p, NextIoctl[opening[p]])
    /\ IF opening[p] = "setflags"
       THEN configured' = TRUE /\ descriptors' = [descriptors EXCEPT ![p] = @ \ {"socket"}]
       ELSE UNCHANGED <<configured, descriptors>>
    /\ UNCHANGED <<fd, holder>>

IoctlFails(p) ==
    /\ opening[p] \in DOMAIN NextIoctl
    /\ descriptors' = [descriptors EXCEPT ![p] = @ \ {"socket"}]
    /\ Goes(p, "undo")
    /\ UNCHANGED <<fd, holder, configured>>

\* configure_address has failed: open() closes the device again.
Undo(p) ==
    /\ opening[p] = "undo"
    /\ CloseFd(p)
    /\ Goes(p, "failed")

\* What open() does when the kernel refuses nothing but what it must.
OpenStep(p) ==
    \/ OpenNode(p)
    \/ SetIff(p)
    \/ (~fd[p] \/ holder # Nobody) /\ SetIffFails(p)
    \/ ConfigSocket(p)
    \/ Ioctl(p)
    \/ holder = Nobody /\ IoctlFails(p)
    \/ Undo(p)

\* A call that fails for a reason of its own.
OpenFault(p) ==
    \/ OpenNodeFails(p)
    \/ fd[p] /\ holder = Nobody /\ SetIffFails(p)
    \/ ConfigSocketFails(p)
    \/ holder # Nobody /\ IoctlFails(p)

----------------------------------------------------------------------------
\* close(), between any two calls of open() or later.
CloseDevice(p) == CloseFd(p) /\ UNCHANGED opening

\* The process ends, and the kernel closes what it left open.
DeviceDies(p) ==
    /\ opening' = [opening EXCEPT ![p] = "idle"]
    /\ fd' = [fd EXCEPT ![p] = FALSE]
    /\ descriptors' = [descriptors EXCEPT ![p] = {}]
    /\ Released(p)
=============================================================================
