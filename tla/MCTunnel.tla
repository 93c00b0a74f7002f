------------------------------ MODULE MCTunnel ------------------------------
(***************************************************************************)
(* A small instance of Tunnel: times of 10 values and a window of 2, so    *)
(* that the clock 1 is within the window of zero, 2 and 6 are plausible    *)
(* and further apart than the window, and the search from 7 ends at the    *)
(* last time there is.  A packet of 19 bytes is shorter than an IPv4       *)
(* header, one of 65535 is the largest there is.                           *)
(***************************************************************************)
EXTENDS Tunnel

\* The secrets and clocks in all combinations, without a packet; with plausible clocks
\* and the same secret, one packet on Linux and all of them on macOS.
MCInit ==
    /\ Init
    /\ \/ emitted = MaxPackets /\ platform = "linux"
       \/ /\ clientClock = 2 /\ serverClock = 2
          /\ clientSecret = serverSecret /\ serverSecret # NoSecret
          /\ emitted = IF platform = "macos" THEN 0 ELSE MaxPackets - 1

MCSpec == MCInit /\ [][Next]_vars /\ Fairness
=============================================================================
