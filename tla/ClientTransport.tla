-------------------------- MODULE ClientTransport --------------------------
(***************************************************************************)
(* WsClientTransport of src/transport/ws_transport.cpp: the connection     *)
(* stages, the read loop and the write path of the client's transports.    *)
(* The client makes one after the other and never closes one that failed,  *)
(* so operations of several may be outstanding together.  All handlers run *)
(* on the client's only I/O thread; send() is also called by TUN threads.  *)
(*                                                                         *)
(* Frames are counted, not named: the first frame of a transport is the    *)
(* AuthRequest.                                                            *)
(***************************************************************************)
EXTENDS Naturals

CONSTANTS
    Transports,      \* the transports, in the order they are made
    MaxSends         \* bound: frames of one transport's queue that are counted

VARIABLES
    stage,           \* "connecting" (resolve, TCP, SSL and WebSocket handshakes, one
                     \* after the other), "up", or "failed" once fail() has been called
    reading,         \* an async_read is outstanding
    writer,          \* "posted"/"writing": do_write posted/async_write outstanding;
                     \* "idle": writing_ is clear; "stuck": set, with nothing to clear it
    queued,          \* length of write_queue_
    auth             \* "none", "sent" (the AuthRequest is written) or "answered"

transportVars == <<stage, reading, writer, queued, auth>>

TransportTypeOK ==
    /\ stage \in [Transports -> {"none", "connecting", "up", "failed"}]
    /\ reading \in [Transports -> BOOLEAN]
    /\ writer \in [Transports -> {"idle", "posted", "writing", "stuck"}]
    /\ queued \in [Transports -> 0 .. MaxSends]
    /\ auth \in [Transports -> {"none", "sent", "answered"}]

TransportInit ==
    /\ stage = [g \in Transports |-> "none"]
    /\ reading = [g \in Transports |-> FALSE]
    /\ writer = [g \in Transports |-> "idle"]
    /\ queued = [g \in Transports |-> 0]
    /\ auth = [g \in Transports |-> "none"]

\* connect()
Connect(g) ==
    /\ stage' = [stage EXCEPT ![g] = "connecting"]
    /\ UNCHANGED <<reading, writer, queued, auth>>

\* One of the stages fails, or times out.
ConnectFails(g) ==
    /\ stage[g] = "connecting"
    /\ stage' = [stage EXCEPT ![g] = "failed"]
    /\ UNCHANGED <<reading, writer, queued, auth>>

\* The last stage, on_ws_handshake: on_connect_ sends the AuthRequest, then the read loop starts.
Opens(g) ==
    /\ stage[g] = "connecting"
    /\ stage' = [stage EXCEPT ![g] = "up"]
    /\ queued' = [queued EXCEPT ![g] = @ + 1]
    /\ writer' = [writer EXCEPT ![g] = IF @ = "idle" THEN "posted" ELSE @]
    /\ reading' = [reading EXCEPT ![g] = TRUE]
    /\ UNCHANGED auth

\* send(), past its test of closing_.  It does not test connected_.
Push(g) ==
    /\ queued' = [queued EXCEPT ![g] = IF @ < MaxSends THEN @ + 1 ELSE @]
    /\ writer' = [writer EXCEPT ![g] = IF @ = "idle" THEN "posted" ELSE @]
    /\ UNCHANGED <<stage, reading, auth>>

\* Broken variant: the front is taken without looking whether the queue is empty.
DoWrite_NoTest(g) ==
    /\ writer' = [writer EXCEPT ![g] = "writing"]
    /\ queued' = [queued EXCEPT ![g] = @ - 1]

\* do_write, also on a transport that has failed: nothing there tests it.
DoWrite(g) ==
    IF queued[g] = 0
    THEN /\ writer' = [writer EXCEPT ![g] = "idle"]
         /\ UNCHANGED queued
    ELSE /\ writer' = [writer EXCEPT ![g] = "writing"]
         /\ queued' = [queued EXCEPT ![g] = @ - 1]

RunPosted(g) ==
    /\ writer[g] = "posted"
    /\ DoWrite(g)
    /\ UNCHANGED <<stage, reading, auth>>

OnWriteOk(g) ==
    /\ writer[g] = "writing"
    /\ DoWrite(g)
    /\ auth' = [auth EXCEPT ![g] = IF @ = "none" THEN "sent" ELSE @]
    /\ UNCHANGED <<stage, reading>>

\* on_write with an error: fail().  writing_ stays set; the read loop goes on.
OnWriteError(g) ==
    /\ writer[g] = "writing"
    /\ writer' = [writer EXCEPT ![g] = "stuck"]
    /\ stage' = [stage EXCEPT ![g] = "failed"]
    /\ UNCHANGED <<reading, queued, auth>>

\* on_read with an error: fail().  The write path goes on.
OnReadError(g) ==
    /\ reading[g]
    /\ reading' = [reading EXCEPT ![g] = FALSE]
    /\ stage' = [stage EXCEPT ![g] = "failed"]
    /\ UNCHANGED <<writer, queued, auth>>

\* on_read with the server's answer to the AuthRequest, which it sends once.
OnAuthResponse(g) ==
    /\ reading[g]
    /\ auth[g] = "sent"
    /\ auth' = [auth EXCEPT ![g] = "answered"]
    /\ UNCHANGED <<stage, reading, writer, queued>>

\* Operations of the transport keep the io_context busy.
HasWork(g) == stage[g] = "connecting" \/ reading[g] \/ writer[g] \in {"posted", "writing"}
=============================================================================
