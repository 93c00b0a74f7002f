----------------------------- MODULE HostFilter -----------------------------
(***************************************************************************)
(* What the server changes on its host and leaves behind: ip_forward and   *)
(* the iptables rules of Server::ensure_system_config                      *)
(* (src/server/server.cpp).  No process takes them away again, so they     *)
(* outlive every server.  "iptables -A" appends whether or not the rule is *)
(* there; only the "-C" before it keeps a rule from being added again.     *)
(***************************************************************************)
EXTENDS Naturals

CONSTANTS
    NumRules,        \* rules ensure_system_config asks for: 4 in the program
    MaxCopies        \* bound: copies of one rule that are counted

VARIABLES
    forwarding,      \* net.ipv4.ip_forward
    copies           \* how often each rule is in its chain

filterVars == <<forwarding, copies>>

Rules == 1 .. NumRules

FilterTypeOK ==
    /\ forwarding \in BOOLEAN
    /\ copies \in [Rules -> 0 .. MaxCopies]

\* A host on which an administrator, or install.sh, has prepared all, or nothing.
FilterInit ==
    \E ready \in BOOLEAN :
        /\ forwarding = ready
        /\ copies = [r \in Rules |-> IF ready THEN 1 ELSE 0]

\* iptables -C
Present(r) == copies[r] > 0

EnableForwarding == forwarding' = TRUE /\ UNCHANGED copies

\* iptables -A
AppendRule(r) ==
    /\ copies' = [copies EXCEPT ![r] = IF @ < MaxCopies THEN @ + 1 ELSE @]
    /\ UNCHANGED forwarding
=============================================================================
