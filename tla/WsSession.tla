----------------------------- MODULE WsSession -----------------------------
(***************************************************************************)
(* The write path, read loop and shutdown of a server-side WebSocket       *)
(* session (WsPlainServerSession; WsServerSession is the same code over    *)
(* TLS): src/transport/ws_transport.cpp.                                   *)
(*                                                                         *)
(* Every completion handler and posted function of a session runs on its   *)
(* strand, one at a time; send() is also called by threads that are not on *)
(* the strand (the server's TUN thread).  What can interleave is therefore *)
(*   - handlers of one strand, in any order their operations complete;     *)
(*   - an off-strand send(), which tests connected_ BEFORE it takes        *)
(*     write_mutex_ and so may enqueue on a session that has failed since. *)
(* The socket and the peer are the environment: a write or read may        *)
(* complete or fail at any time, and the blocking ws_.close() returns when *)
(* the peer answers, or never.                                             *)
(*                                                                         *)
(* connected_ is cleared only on the strand, so a handler's own send(),    *)
(* which finds it set and then enqueues, is one step; only an off-strand   *)
(* send() is two.                                                          *)
(***************************************************************************)
EXTENDS Naturals, Sequences

CONSTANTS
    Sessions,        \* the sessions
    Senders,         \* threads off the strands that call send()
    Msgs,            \* frames
    MaxSends         \* bound: frames accepted by one session

ASSUME MaxSendsAssumption == MaxSends \in Nat

VARIABLES
    started,         \* start() has run
    connected,       \* connected_
    writeQueue,      \* write_queue_
    writing,         \* writing_
    writePending,    \* write_pending_, while it holds a frame not known to be written
    posted,          \* do_write calls posted to the strand and not yet run
    writes,          \* async_write operations outstanding
    reading,         \* an async_read is outstanding
    strand,          \* what the strand is executing
    holding,         \* an off-strand send() between its test and its enqueue
    accepted,        \* history: frames pushed on write_queue_
    wire             \* history: frames whose async_write succeeded

writeVars  == <<writeQueue, writing, writePending, posted, writes, accepted, wire>>
strandVars == <<started, connected, reading, strand>>
vars       == <<writeVars, strandVars, holding>>

StrandStates == {"idle", "handler", "closing"}
NotSending   == <<>>

TypeOK ==
    /\ started \in [Sessions -> BOOLEAN]
    /\ connected \in [Sessions -> BOOLEAN]
    /\ writeQueue \in [Sessions -> Seq(Msgs)]
    /\ writing \in [Sessions -> BOOLEAN]
    /\ writePending \in [Sessions -> Seq(Msgs)]
    /\ posted \in [Sessions -> Nat]
    /\ writes \in [Sessions -> Nat]
    /\ reading \in [Sessions -> BOOLEAN]
    /\ strand \in [Sessions -> StrandStates]
    /\ holding \in [Senders -> {NotSending} \cup (Sessions \X Msgs)]
    /\ accepted \in [Sessions -> Seq(Msgs)]
    /\ wire \in [Sessions -> Seq(Msgs)]

Init ==
    /\ started = [s \in Sessions |-> FALSE]
    /\ connected = [s \in Sessions |-> FALSE]
    /\ writeQueue = [s \in Sessions |-> <<>>]
    /\ writing = [s \in Sessions |-> FALSE]
    /\ writePending = [s \in Sessions |-> <<>>]
    /\ posted = [s \in Sessions |-> 0]
    /\ writes = [s \in Sessions |-> 0]
    /\ reading = [s \in Sessions |-> FALSE]
    /\ strand = [s \in Sessions |-> "idle"]
    /\ holding = [t \in Senders |-> NotSending]
    /\ accepted = [s \in Sessions |-> <<>>]
    /\ wire = [s \in Sessions |-> <<>>]

----------------------------------------------------------------------------
(* start(): mark the session connected and issue the first read.           *)

Start(s) ==
    /\ ~started[s]
    /\ started' = [started EXCEPT ![s] = TRUE]
    /\ connected' = [connected EXCEPT ![s] = TRUE]
    /\ reading' = [reading EXCEPT ![s] = TRUE]
    /\ UNCHANGED <<strand, holding, writeVars>>

----------------------------------------------------------------------------
(* send().                                                                 *)

\* Broken variant: do_write is posted without testing writing_.
Enqueue_AlwaysPosts(s, m) ==
    /\ writeQueue' = [writeQueue EXCEPT ![s] = Append(@, m)]
    /\ accepted' = [accepted EXCEPT ![s] = Append(@, m)]
    /\ writing' = [writing EXCEPT ![s] = TRUE]
    /\ posted' = [posted EXCEPT ![s] = @ + 1]
    /\ UNCHANGED <<writePending, writes, wire>>

\* The part under write_mutex_: push, and post do_write when no writer is active.
Enqueue(s, m) ==
    /\ writeQueue' = [writeQueue EXCEPT ![s] = Append(@, m)]
    /\ accepted' = [accepted EXCEPT ![s] = Append(@, m)]
    /\ writing' = [writing EXCEPT ![s] = TRUE]
    /\ posted' = [posted EXCEPT ![s] = IF writing[s] THEN @ ELSE @ + 1]
    /\ UNCHANGED <<writePending, writes, wire>>

\* Broken variant: send() does not test connected_.
SendCheck_NoTest(t, s, m) ==
    /\ holding[t] = NotSending
    /\ holding' = [holding EXCEPT ![t] = <<s, m>>]
    /\ UNCHANGED <<strandVars, writeVars>>

\* An off-strand send() finds connected_ set.
SendCheck(t, s, m) ==
    /\ holding[t] = NotSending
    /\ connected[s]
    /\ holding' = [holding EXCEPT ![t] = <<s, m>>]
    /\ UNCHANGED <<strandVars, writeVars>>

\* ... and then takes the lock and enqueues, whatever connected_ is by now.
SendEnqueue(t) ==
    /\ holding[t] # NotSending
    /\ Len(accepted[holding[t][1]]) < MaxSends
    /\ Enqueue(holding[t][1], holding[t][2])
    /\ holding' = [holding EXCEPT ![t] = NotSending]
    /\ UNCHANGED strandVars

----------------------------------------------------------------------------
(* do_write() and its callers.                                             *)

\* do_write() in its three outcomes.  "left" async_writes stay outstanding besides
\* the one it may start; "buffer" is what write_pending_ still holds.

\* connected_ is clear: return, leaving writing_ and the queue as they are.
SkipWrite(s, left, buffer) ==
    /\ ~connected[s]
    /\ writes' = [writes EXCEPT ![s] = left]
    /\ writePending' = [writePending EXCEPT ![s] = buffer]
    /\ UNCHANGED <<writeQueue, writing>>

\* Broken variant: writing_ is not reset when the queue runs empty.
GoIdle_KeepsWriting(s, left, buffer) ==
    /\ connected[s]
    /\ writeQueue[s] = <<>>
    /\ writes' = [writes EXCEPT ![s] = left]
    /\ writePending' = [writePending EXCEPT ![s] = buffer]
    /\ UNCHANGED <<writeQueue, writing>>

\* The queue is empty: the writer goes idle.
GoIdle(s, left, buffer) ==
    /\ connected[s]
    /\ writeQueue[s] = <<>>
    /\ writing' = [writing EXCEPT ![s] = FALSE]
    /\ writes' = [writes EXCEPT ![s] = left]
    /\ writePending' = [writePending EXCEPT ![s] = buffer]
    /\ UNCHANGED writeQueue

\* Broken variant: the front is written but not popped.
WriteFront_NoPop(s, left) ==
    /\ connected[s]
    /\ writeQueue[s] # <<>>
    /\ writePending' = [writePending EXCEPT ![s] = <<Head(writeQueue[s])>>]
    /\ writes' = [writes EXCEPT ![s] = left + 1]
    /\ UNCHANGED <<writing, writeQueue>>

\* Broken variant: connected_ is not tested before the front is written.
WriteFront_NoTest(s, left) ==
    /\ writeQueue[s] # <<>>
    /\ writePending' = [writePending EXCEPT ![s] = <<Head(writeQueue[s])>>]
    /\ writeQueue' = [writeQueue EXCEPT ![s] = Tail(@)]
    /\ writes' = [writes EXCEPT ![s] = left + 1]
    /\ UNCHANGED writing

\* Move the front to write_pending_ and start an async_write on it.
WriteFront(s, left) ==
    /\ connected[s]
    /\ writeQueue[s] # <<>>
    /\ writePending' = [writePending EXCEPT ![s] = <<Head(writeQueue[s])>>]
    /\ writeQueue' = [writeQueue EXCEPT ![s] = Tail(@)]
    /\ writes' = [writes EXCEPT ![s] = left + 1]
    /\ UNCHANGED writing

DoWrite(s, left, buffer) ==
    \/ SkipWrite(s, left, buffer)
    \/ GoIdle(s, left, buffer)
    \/ WriteFront(s, left)

\* Broken variant: do_write runs without having been posted.
RunPosted_Unposted(s) ==
    /\ strand[s] = "idle"
    /\ posted' = [posted EXCEPT ![s] = @ - 1]
    /\ DoWrite(s, writes[s], writePending[s])
    /\ UNCHANGED <<strandVars, holding, accepted, wire>>

\* The strand runs the do_write that send() posted.
RunPosted(s) ==
    /\ strand[s] = "idle"
    /\ posted[s] > 0
    /\ posted' = [posted EXCEPT ![s] = @ - 1]
    /\ DoWrite(s, writes[s], writePending[s])
    /\ UNCHANGED <<strandVars, holding, accepted, wire>>

\* Broken variant: on_write declares the writer idle instead of going on.
OnWriteOk_Stops(s) ==
    /\ strand[s] = "idle"
    /\ writes[s] > 0
    /\ wire' = [wire EXCEPT ![s] = @ \o writePending[s]]
    /\ writes' = [writes EXCEPT ![s] = @ - 1]
    /\ writePending' = [writePending EXCEPT ![s] = <<>>]
    /\ writing' = [writing EXCEPT ![s] = FALSE]
    /\ UNCHANGED <<strandVars, holding, accepted, posted, writeQueue>>

\* on_write without error: what write_pending_ held is out, go on with do_write.
OnWriteOk(s) ==
    /\ strand[s] = "idle"
    /\ writes[s] > 0
    /\ wire' = [wire EXCEPT ![s] = @ \o writePending[s]]
    /\ DoWrite(s, writes[s] - 1, <<>>)
    /\ UNCHANGED <<strandVars, holding, accepted, posted>>

\* on_write with an error: the session is disconnected; the writer is not
\* restarted (writing_ stays set) and the queue keeps what it holds.
OnWriteError(s) ==
    /\ strand[s] = "idle"
    /\ writes[s] > 0
    /\ writes' = [writes EXCEPT ![s] = @ - 1]
    /\ connected' = [connected EXCEPT ![s] = FALSE]
    /\ UNCHANGED <<started, reading, strand, holding, writeQueue, writing,
                   writePending, posted, accepted, wire>>

----------------------------------------------------------------------------
(* on_read(), the packet handler it calls, and close().                    *)

\* on_read without error: dispatch_packet calls on_packet_.
OnRead(s) ==
    /\ strand[s] = "idle"
    /\ reading[s]
    /\ reading' = [reading EXCEPT ![s] = FALSE]
    /\ strand' = [strand EXCEPT ![s] = "handler"]
    /\ UNCHANGED <<started, connected, holding, writeVars>>

\* The packet handler calls send(): dropped if the session is disconnected.
HandlerSend(s, m) ==
    /\ strand[s] = "handler"
    /\ Len(accepted[s]) < MaxSends
    /\ IF connected[s] THEN Enqueue(s, m) ELSE UNCHANGED writeVars
    /\ UNCHANGED <<strandVars, holding>>

\* The packet handler calls close(): only the call that clears connected_ goes
\* on to the synchronous ws_.close(), which holds the strand.
HandlerClose(s) ==
    /\ strand[s] = "handler"
    /\ connected' = [connected EXCEPT ![s] = FALSE]
    /\ strand' = [strand EXCEPT ![s] = IF connected[s] THEN "closing" ELSE @]
    /\ UNCHANGED <<started, reading, holding, writeVars>>

\* ws_.close() returns: the closing handshake is done, or has failed.
CloseReturns(s) ==
    /\ strand[s] = "closing"
    /\ strand' = [strand EXCEPT ![s] = "handler"]
    /\ UNCHANGED <<started, connected, reading, holding, writeVars>>

\* The packet handler returns and on_read issues the next read.
HandlerReturn(s) ==
    /\ strand[s] = "handler"
    /\ strand' = [strand EXCEPT ![s] = "idle"]
    /\ reading' = [reading EXCEPT ![s] = TRUE]
    /\ UNCHANGED <<started, connected, holding, writeVars>>

\* on_read with an error (peer gone, idle timeout): disconnected, no further read.
OnReadError(s) ==
    /\ strand[s] = "idle"
    /\ reading[s]
    /\ reading' = [reading EXCEPT ![s] = FALSE]
    /\ connected' = [connected EXCEPT ![s] = FALSE]
    /\ UNCHANGED <<started, strand, holding, writeVars>>

----------------------------------------------------------------------------
Next ==
    \/ \E s \in Sessions :
          \/ Start(s)
          \/ RunPosted(s)
          \/ OnWriteOk(s)
          \/ OnWriteError(s)
          \/ OnRead(s)
          \/ \E m \in Msgs : HandlerSend(s, m)
          \/ HandlerClose(s)
          \/ CloseReturns(s)
          \/ HandlerReturn(s)
          \/ OnReadError(s)
    \/ \E t \in Senders, s \in Sessions, m \in Msgs : SendCheck(t, s, m)
    \/ \E t \in Senders : SendEnqueue(t)

(***************************************************************************)
(* Fairness.  A strand runs its ready handlers in FIFO order and a packet  *)
(* handler is finite, so a handler that is ready again and again is run:   *)
(* strong fairness, since reads may occupy the strand in between.  An      *)
(* outstanding write completes one way or the other.  Nothing is assumed   *)
(* of ws_.close(), of reads or of the senders.                             *)
(***************************************************************************)
WriteCompletes(s) == OnWriteOk(s) \/ OnWriteError(s)

Fairness ==
    \A s \in Sessions :
        /\ SF_vars(RunPosted(s))
        /\ SF_vars(WriteCompletes(s))
        /\ WF_vars(HandlerReturn(s))

Spec == Init /\ [][Next]_vars
FairSpec == Spec /\ Fairness

----------------------------------------------------------------------------
(* Properties.                                                             *)

\* At most one writer exists per session: a posted do_write, or one outstanding
\* async_write, never both and never two.  Beast allows one async_write at a time
\* and write_pending_ "must outlive the op" (ws_transport.hpp): a second do_write
\* would overwrite it under the running write.  What could break it is an
\* off-strand send() that posts while a completion is about to continue the chain.
SingleWriter ==
    \A s \in Sessions :
        /\ posted[s] + writes[s] <= 1
        /\ writes[s] = 1 => Len(writePending[s]) = 1

\* No frame is lost, duplicated or reordered between send() and the socket:
\* what was accepted is what is on the wire, then in write_pending_, then queued,
\* whatever order sends, completions and errors come in.
Conserved ==
    \A s \in Sessions : accepted[s] = wire[s] \o writePending[s] \o writeQueue[s]

\* No lost wake-up: while the session is connected a non-empty queue always has a
\* writer that will look at it again, although writing_ is reset in do_write and
\* tested in send() by different threads.
NoLostWakeup ==
    \A s \in Sessions :
        connected[s] /\ writeQueue[s] # <<>> => posted[s] + writes[s] = 1

\* Once a session is disconnected no further async_write is started on it, by any
\* handler that was already queued on the strand, and it never connects again.
NoWriteAfterDisconnect ==
    [][\A s \in Sessions :
          started[s] /\ ~connected[s] => ~connected'[s] /\ writes'[s] <= writes[s]]_vars

\* Every accepted frame leaves, unless the session is disconnected first: the n-th
\* frame pushed by send() is eventually written or connected_ is cleared.
EveryFrameLeaves ==
    \A s \in Sessions : \A n \in 1..MaxSends :
        connected[s] /\ Len(accepted[s]) >= n ~> Len(wire[s]) >= n \/ ~connected[s]

----------------------------------------------------------------------------
(* Refinement: each session is a FifoLink.                                 *)

LinkStatus(s) ==
    CASE ~started[s] -> "new"
      [] started[s] /\ connected[s] -> "up"
      [] started[s] /\ ~connected[s] /\ writes[s] > 0 -> "draining"
      [] OTHER -> "down"

Link == INSTANCE FifoLink WITH
            Links <- Sessions, sent <- accepted, delivered <- wire,
            status <- [s \in Sessions |-> LinkStatus(s)]

\* The sessions behave as abstract FIFO links, liveness included: what send()
\* accepted leaves in order, and after connected_ is cleared only the frame of the
\* async_write that was already running may follow.
ImplementsFifoLink == Link!Spec
=============================================================================
