------------------------------ MODULE FifoLink ------------------------------
(***************************************************************************)
(* What kirdi's WebSocket sessions promise the code that calls send() on   *)
(* them: the frames of a session leave in the order they were accepted,    *)
(* none twice and none skipped, for as long as it is connected; once it is *)
(* not, at most the one frame already handed to the socket may still       *)
(* leave.  WsSession implements this specification.                        *)
(***************************************************************************)
EXTENDS Naturals, Sequences

CONSTANTS
    Links,           \* the sessions
    Msgs             \* the frames callers may pass to send()

VARIABLES
    sent,            \* the frames each link has accepted so far, in order
    delivered,       \* the frames that have left, in order
    status           \* "new", "up", "draining" (down, one frame in flight) or "down"

vars == <<sent, delivered, status>>

Statuses == {"new", "up", "draining", "down"}

Init ==
    /\ sent = [l \in Links |-> <<>>]
    /\ delivered = [l \in Links |-> <<>>]
    /\ status = [l \in Links |-> "new"]

Open(l) ==
    /\ status[l] = "new"
    /\ status' = [status EXCEPT ![l] = "up"]
    /\ UNCHANGED <<sent, delivered>>

\* A caller that saw the link up may complete its send() after the link has
\* failed, so a frame can be accepted in every state but "new".
Send(l, m) ==
    /\ status[l] # "new"
    /\ sent' = [sent EXCEPT ![l] = Append(@, m)]
    /\ UNCHANGED <<delivered, status>>

\* The next frame leaves; a link that is going down has then nothing in flight.
Deliver(l) ==
    /\ status[l] \in {"up", "draining"}
    /\ Len(delivered[l]) < Len(sent[l])
    /\ delivered' = [delivered EXCEPT ![l] = Append(@, sent[l][Len(@) + 1])]
    /\ status' = [status EXCEPT ![l] = IF @ = "draining" THEN "down" ELSE "up"]
    /\ UNCHANGED sent

Fail(l) ==
    /\ status[l] = "up"
    /\ \E down \in {"draining", "down"} : status' = [status EXCEPT ![l] = down]
    /\ UNCHANGED <<sent, delivered>>

\* The write that was in flight when the link went down fails as well.
Drop(l) ==
    /\ status[l] = "draining"
    /\ status' = [status EXCEPT ![l] = "down"]
    /\ UNCHANGED <<sent, delivered>>

Next ==
    \E l \in Links :
        \/ Open(l)
        \/ \E m \in Msgs : Send(l, m)
        \/ Deliver(l)
        \/ Fail(l)
        \/ Drop(l)

\* A link that stays up keeps delivering what it accepted.
DeliverWhileUp(l) == status[l] = "up" /\ Deliver(l)

Safety == Init /\ [][Next]_vars
Spec   == Safety /\ \A l \in Links : WF_vars(DeliverWhileUp(l))
=============================================================================
