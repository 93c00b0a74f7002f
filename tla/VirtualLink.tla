---------------------------- MODULE VirtualLink -----------------------------
(***************************************************************************)
(* What kirdi promises the two hosts it connects: a link that may lose     *)
(* packets but neither changes, duplicates nor reorders them, carries none *)
(* of a client that was not let in, and brings a client only packets for   *)
(* the address it was given.                                               *)
(***************************************************************************)
EXTENDS Naturals, Sequences

CONSTANTS
    Links,           \* the connections of clients
    Packets,         \* packets, each with a word that stands for its destination
    VipOf(_)         \* the address each connection is given

Directions == {"up", "down"}       \* client to server, server to client

VARIABLES
    admitted,        \* connections let in
    offered,         \* packets handed to each connection, in order
    taken,           \* how many of them the other side has seen
    arrived          \* packets the other host got

linkVars == <<admitted, offered, taken, arrived>>

LinkInit ==
    /\ admitted = {}
    /\ offered = [d \in Directions |-> [l \in Links |-> <<>>]]
    /\ taken   = [d \in Directions |-> [l \in Links |-> 0]]
    /\ arrived = [d \in Directions |-> [l \in Links |-> <<>>]]

Admit(l) ==
    /\ admitted' = admitted \cup {l}
    /\ UNCHANGED <<offered, taken, arrived>>

Offer(d, l, p) ==
    /\ d = "down" => l \in admitted /\ p.word = VipOf(l)
    /\ offered' = [offered EXCEPT ![d][l] = Append(@, p)]
    /\ UNCHANGED <<admitted, taken, arrived>>

Take(d, l) ==
    /\ taken[d][l] < Len(offered[d][l])
    /\ taken' = [taken EXCEPT ![d][l] = @ + 1]
    /\ UNCHANGED <<admitted, offered>>

Lose(d, l) == Take(d, l) /\ UNCHANGED arrived

Pass(d, l) ==
    /\ Take(d, l)
    /\ l \in admitted
    /\ arrived' = [arrived EXCEPT ![d][l] = Append(@, offered[d][l][taken[d][l] + 1])]

LinkNext ==
    \E l \in Links :
        \/ Admit(l)
        \/ \E d \in Directions :
              \/ \E p \in Packets : Offer(d, l, p)
              \/ Lose(d, l)
              \/ Pass(d, l)

LinkSpec == LinkInit /\ [][LinkNext]_linkVars

----------------------------------------------------------------------------
(* What a host may rely on.                                                *)

\* "got" is the first n of "given" with some left out: the i-th got is the one given at
\* place[i].
LossyPrefix(got, given, n) ==
    /\ n <= Len(given)
    /\ \E place \in [1 .. Len(got) -> 1 .. n] :
          /\ \A i, j \in 1 .. Len(got) : i < j => place[i] < place[j]
          /\ \A i \in 1 .. Len(got) : got[i] = given[place[i]]

\* What has arrived at a host is what was handed over for it, in order and none twice,
\* but for packets lost; what arrives at the server is from clients let in, and a client
\* gets only what is for its own address.  (The TUN loops and handle_packet of both ends,
\* with the connection between them.)
DeliveredInOrder ==
    \A l \in Links :
        /\ \A d \in Directions : LossyPrefix(arrived[d][l], offered[d][l], taken[d][l])
        /\ l \notin admitted => arrived["up"][l] = <<>> /\ offered["down"][l] = <<>>
        /\ \A i \in 1 .. Len(arrived["down"][l]) : arrived["down"][l][i].word = VipOf(l)
=============================================================================
