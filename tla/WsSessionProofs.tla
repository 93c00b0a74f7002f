-------------------------- MODULE WsSessionProofs --------------------------
(***************************************************************************)
(* Theorems of WsSession for any set of sessions, senders and frames and   *)
(* any bound.  SingleWriter and NoLostWakeup are not inductive: that a     *)
(* second do_write is never posted depends on writing_ agreeing with the   *)
(* writer that exists, and that agreement on what a session looks like     *)
(* before start() and after connected_ is cleared.  Chain is that          *)
(* agreement, session by session.                                          *)
(***************************************************************************)
EXTENDS WsSession, SequenceTheorems, TLAPS

----------------------------------------------------------------------------
(* Facts about sequences.                                                  *)

\* Three parts may be joined from either end.
LEMMA ConcatRegroups ==
    ASSUME NEW a \in Seq(Msgs), NEW b \in Seq(Msgs), NEW c \in Seq(Msgs)
    PROVE  (a \o b) \o c = a \o (b \o c)
BY ConcatAssociative

\* A frame added to the last part is added to the whole.
LEMMA ConcatFrame ==
    ASSUME NEW m \in Msgs, NEW a \in Seq(Msgs), NEW b \in Seq(Msgs)
    PROVE  (a \o b) \o <<m>> = a \o (b \o <<m>>)
<1>1. <<m>> \in Seq(Msgs)
  OBVIOUS
<1> QED
  BY <1>1, ConcatRegroups

\* A non-empty last part may be split after its head.
LEMMA ConcatHeadTail ==
    ASSUME NEW a \in Seq(Msgs), NEW c \in Seq(Msgs), c # <<>>
    PROVE  a \o c = a \o <<Head(c)>> \o Tail(c)
<1>1. Head(c) \in Msgs /\ Tail(c) \in Seq(Msgs) /\ <<Head(c)>> \in Seq(Msgs)
  BY HeadTailProperties
<1>2. c = <<Head(c)>> \o Tail(c)
  OBVIOUS
<1>3. a \o (<<Head(c)>> \o Tail(c)) = (a \o <<Head(c)>>) \o Tail(c)
  BY <1>1, ConcatRegroups
<1> QED
  BY <1>2, <1>3

----------------------------------------------------------------------------
(* The inductive invariant.                                                *)

Chain(s) ==
    /\ posted[s] + writes[s] <= 1
    /\ writes[s] = 1 => Len(writePending[s]) = 1
    /\ connected[s] /\ writes[s] = 0 => writePending[s] = <<>>
    /\ ~writing[s] => posted[s] + writes[s] = 0
    /\ connected[s] /\ writing[s] => posted[s] + writes[s] = 1
    /\ connected[s] /\ ~writing[s] => writeQueue[s] = <<>>
    /\ connected[s] => started[s]
    /\ ~started[s] => ~writing[s] /\ writeQueue[s] = <<>> /\ writePending[s] = <<>>

ChainInv   == \A s \in Sessions : Chain(s)
HoldingInv == \A t \in Senders : holding[t] # NotSending => started[holding[t][1]]

IInv == TypeOK /\ ChainInv /\ HoldingInv

----------------------------------------------------------------------------
(* Type correctness.                                                       *)

\* The locked part of send() keeps the types and touches one session.
LEMMA EnqueueType ==
    ASSUME NEW s \in Sessions, NEW m \in Msgs, TypeOK, Enqueue(s, m)
    PROVE  /\ writeQueue' \in [Sessions -> Seq(Msgs)]
           /\ accepted' \in [Sessions -> Seq(Msgs)]
           /\ writing' \in [Sessions -> BOOLEAN]
           /\ posted' \in [Sessions -> Nat]
           /\ writePending' \in [Sessions -> Seq(Msgs)]
           /\ writes' \in [Sessions -> Nat]
           /\ wire' \in [Sessions -> Seq(Msgs)]
BY AppendProperties DEF TypeOK, Enqueue

\* So does do_write, in each of its outcomes.
LEMMA DoWriteType ==
    ASSUME NEW s \in Sessions, NEW left \in Nat, NEW buffer \in Seq(Msgs),
           TypeOK, DoWrite(s, left, buffer)
    PROVE  /\ writeQueue' \in [Sessions -> Seq(Msgs)]
           /\ writing' \in [Sessions -> BOOLEAN]
           /\ writePending' \in [Sessions -> Seq(Msgs)]
           /\ writes' \in [Sessions -> Nat]
<1>1. CASE SkipWrite(s, left, buffer)
  BY <1>1 DEF TypeOK, SkipWrite
<1>2. CASE GoIdle(s, left, buffer)
  BY <1>2 DEF TypeOK, GoIdle
<1>3. CASE WriteFront(s, left)
  <2>1. Head(writeQueue[s]) \in Msgs /\ Tail(writeQueue[s]) \in Seq(Msgs)
    BY <1>3, HeadTailProperties DEF TypeOK, WriteFront
  <2>2. <<Head(writeQueue[s])>> \in Seq(Msgs)
    BY <2>1
  <2> QED
    BY <1>3, <2>1, <2>2 DEF TypeOK, WriteFront
<1> QED
  BY <1>1, <1>2, <1>3 DEF DoWrite

\* Every step keeps the types.
LEMMA TypeStep == TypeOK /\ [Next]_vars => TypeOK'
<1> SUFFICES ASSUME TypeOK, [Next]_vars PROVE TypeOK'
  OBVIOUS
<1>1. ASSUME NEW s \in Sessions, Start(s) PROVE TypeOK'
  BY <1>1 DEF TypeOK, Start, writeVars
<1>2. ASSUME NEW s \in Sessions, RunPosted(s) PROVE TypeOK'
  <2>1. writes[s] \in Nat /\ writePending[s] \in Seq(Msgs) /\ posted[s] - 1 \in Nat
    BY <1>2 DEF TypeOK, RunPosted
  <2> QED
    BY <1>2, <2>1, DoWriteType DEF TypeOK, RunPosted, strandVars
<1>3. ASSUME NEW s \in Sessions, OnWriteOk(s) PROVE TypeOK'
  <2>1. writes[s] - 1 \in Nat /\ <<>> \in Seq(Msgs)
    BY <1>3 DEF TypeOK, OnWriteOk
  <2>2. wire[s] \o writePending[s] \in Seq(Msgs)
    BY ConcatProperties DEF TypeOK
  <2>3. wire' \in [Sessions -> Seq(Msgs)]
    BY <1>3, <2>2 DEF TypeOK, OnWriteOk
  <2> QED
    BY <1>3, <2>1, <2>3, DoWriteType DEF TypeOK, OnWriteOk, strandVars
<1>4. ASSUME NEW s \in Sessions, OnWriteError(s) PROVE TypeOK'
  <2>1. writes[s] - 1 \in Nat
    BY <1>4 DEF TypeOK, OnWriteError
  <2>2. writes' \in [Sessions -> Nat] /\ connected' \in [Sessions -> BOOLEAN]
    BY <1>4, <2>1 DEF TypeOK, OnWriteError
  <2> QED
    BY <1>4, <2>2 DEF TypeOK, OnWriteError
<1>5. ASSUME NEW s \in Sessions, OnRead(s) PROVE TypeOK'
  BY <1>5 DEF TypeOK, OnRead, writeVars, StrandStates
<1>6. ASSUME NEW s \in Sessions, NEW m \in Msgs, HandlerSend(s, m) PROVE TypeOK'
  <2>1. CASE connected[s]
    BY <1>6, <2>1, EnqueueType DEF TypeOK, HandlerSend, strandVars
  <2>2. CASE ~connected[s]
    BY <1>6, <2>2 DEF TypeOK, HandlerSend, strandVars, writeVars
  <2> QED
    BY <2>1, <2>2
<1>7. ASSUME NEW s \in Sessions, HandlerClose(s) PROVE TypeOK'
  BY <1>7 DEF TypeOK, HandlerClose, writeVars, StrandStates
<1>8. ASSUME NEW s \in Sessions, CloseReturns(s) PROVE TypeOK'
  BY <1>8 DEF TypeOK, CloseReturns, writeVars, StrandStates
<1>9. ASSUME NEW s \in Sessions, HandlerReturn(s) PROVE TypeOK'
  BY <1>9 DEF TypeOK, HandlerReturn, writeVars, StrandStates
<1>10. ASSUME NEW s \in Sessions, OnReadError(s) PROVE TypeOK'
  BY <1>10 DEF TypeOK, OnReadError, writeVars
<1>11. ASSUME NEW t \in Senders, NEW s \in Sessions, NEW m \in Msgs, SendCheck(t, s, m)
       PROVE TypeOK'
  BY <1>11 DEF TypeOK, SendCheck, strandVars, writeVars
<1>12. ASSUME NEW t \in Senders, SendEnqueue(t) PROVE TypeOK'
  <2>1. holding[t][1] \in Sessions /\ holding[t][2] \in Msgs
    BY <1>12 DEF TypeOK, SendEnqueue
  <2> QED
    BY <1>12, <2>1, EnqueueType DEF TypeOK, SendEnqueue, strandVars
<1>13. CASE UNCHANGED vars
  BY <1>13 DEF TypeOK, vars, writeVars, strandVars
<1> QED
  BY <1>1, <1>2, <1>3, <1>4, <1>5, <1>6, <1>7, <1>8, <1>9, <1>10, <1>11, <1>12, <1>13
     DEF Next

\* Every variable of a session keeps the type its C++ member has, queues holding
\* frames only and the counts of posted and outstanding operations never negative.
THEOREM TypeCorrect == Spec => []TypeOK
<1>1. Init => TypeOK
  BY EmptySeq DEF Init, TypeOK, StrandStates
<1> QED
  BY <1>1, TypeStep, PTL DEF Spec
----------------------------------------------------------------------------
(* The write chain.  A step touches one session; the lemmas say what it    *)
(* does to Chain there, and ChainStep that it leaves the others alone.     *)

\* What the two sections of code that change the chain keep of it.
LEMMA EnqueueChain ==
    ASSUME NEW s \in Sessions, NEW m \in Msgs, TypeOK, ChainInv, Enqueue(s, m),
           started[s], UNCHANGED <<started, connected>>
    PROVE  ChainInv'
<1> SUFFICES ASSUME NEW x \in Sessions PROVE Chain(x)'
  BY DEF ChainInv
<1>1. CASE x = s
  BY <1>1 DEF TypeOK, ChainInv, Chain, Enqueue
<1>2. CASE x # s
  BY <1>2 DEF TypeOK, ChainInv, Chain, Enqueue
<1> QED
  BY <1>1, <1>2

\* do_write run by a posted call, when it is the writer of its session.
LEMMA RunPostedChain ==
    ASSUME NEW s \in Sessions, TypeOK, ChainInv, RunPosted(s)
    PROVE  ChainInv'
<1> SUFFICES ASSUME NEW x \in Sessions PROVE Chain(x)'
  BY DEF ChainInv
<1>t. /\ posted \in [Sessions -> Nat] /\ writes \in [Sessions -> Nat]
      /\ writing \in [Sessions -> BOOLEAN] /\ connected \in [Sessions -> BOOLEAN]
      /\ writeQueue \in [Sessions -> Seq(Msgs)] /\ writePending \in [Sessions -> Seq(Msgs)]
  BY DEF TypeOK
<1>c. Chain(s) /\ Chain(x)
  BY DEF ChainInv
<1>1. /\ posted' = [posted EXCEPT ![s] = @ - 1]
      /\ UNCHANGED <<started, connected>>
      /\ posted[s] = 1 /\ writes[s] = 0 /\ writing[s] /\ started[s]
  BY <1>t, <1>c DEF Chain, RunPosted, strandVars
<1>2. CASE SkipWrite(s, writes[s], writePending[s])
  <2>1. /\ ~connected[s] /\ UNCHANGED <<writeQueue, writing>>
        /\ writes' = [writes EXCEPT ![s] = writes[s]] /\ writePending' = [writePending EXCEPT ![s] = writePending[s]]
    BY <1>2 DEF SkipWrite
  <2>2. CASE x = s
    BY <1>t, <1>c, <1>1, <2>1, <2>2 DEF Chain
  <2>3. CASE x # s
    BY <1>t, <1>c, <1>1, <2>1, <2>3 DEF Chain
  <2> QED
    BY <2>2, <2>3
<1>3. CASE GoIdle(s, writes[s], writePending[s])
  <2>1. /\ connected[s] /\ writeQueue[s] = <<>> /\ UNCHANGED writeQueue
        /\ writing' = [writing EXCEPT ![s] = FALSE]
        /\ writes' = [writes EXCEPT ![s] = writes[s]] /\ writePending' = [writePending EXCEPT ![s] = writePending[s]]
    BY <1>3 DEF GoIdle
  <2>2. CASE x = s
    BY <1>t, <1>c, <1>1, <2>1, <2>2 DEF Chain
  <2>3. CASE x # s
    BY <1>t, <1>c, <1>1, <2>1, <2>3 DEF Chain
  <2> QED
    BY <2>2, <2>3
<1>4. CASE WriteFront(s, writes[s])
  <2>1. /\ connected[s] /\ UNCHANGED writing
        /\ writeQueue' = [writeQueue EXCEPT ![s] = Tail(@)]
        /\ writes' = [writes EXCEPT ![s] = writes[s] + 1]
        /\ writePending' = [writePending EXCEPT ![s] = <<Head(writeQueue[s])>>]
    BY <1>4 DEF WriteFront
  <2>2. CASE x = s
    BY <1>t, <1>c, <1>1, <2>1, <2>2 DEF Chain
  <2>3. CASE x # s
    BY <1>t, <1>c, <1>1, <2>1, <2>3 DEF Chain
  <2> QED
    BY <2>2, <2>3
<1> QED
  BY <1>2, <1>3, <1>4 DEF RunPosted, DoWrite

\* do_write run by on_write, likewise.
LEMMA OnWriteOkChain ==
    ASSUME NEW s \in Sessions, TypeOK, ChainInv, OnWriteOk(s)
    PROVE  ChainInv'
<1> SUFFICES ASSUME NEW x \in Sessions PROVE Chain(x)'
  BY DEF ChainInv
<1>t. /\ posted \in [Sessions -> Nat] /\ writes \in [Sessions -> Nat]
      /\ writing \in [Sessions -> BOOLEAN] /\ connected \in [Sessions -> BOOLEAN]
      /\ writeQueue \in [Sessions -> Seq(Msgs)] /\ writePending \in [Sessions -> Seq(Msgs)]
  BY DEF TypeOK
<1>c. Chain(s) /\ Chain(x)
  BY DEF ChainInv
<1>1. /\ UNCHANGED <<posted, started, connected>>
      /\ posted[s] = 0 /\ writes[s] = 1 /\ writing[s] /\ started[s]
  BY <1>t, <1>c DEF Chain, OnWriteOk, strandVars
<1>2. CASE SkipWrite(s, writes[s] - 1, <<>>)
  <2>1. /\ ~connected[s] /\ UNCHANGED <<writeQueue, writing>>
        /\ writes' = [writes EXCEPT ![s] = writes[s] - 1] /\ writePending' = [writePending EXCEPT ![s] = <<>>]
    BY <1>2 DEF SkipWrite
  <2>2. CASE x = s
    BY <1>t, <1>c, <1>1, <2>1, <2>2 DEF Chain
  <2>3. CASE x # s
    BY <1>t, <1>c, <1>1, <2>1, <2>3 DEF Chain
  <2> QED
    BY <2>2, <2>3
<1>3. CASE GoIdle(s, writes[s] - 1, <<>>)
  <2>1. /\ connected[s] /\ writeQueue[s] = <<>> /\ UNCHANGED writeQueue
        /\ writing' = [writing EXCEPT ![s] = FALSE]
        /\ writes' = [writes EXCEPT ![s] = writes[s] - 1] /\ writePending' = [writePending EXCEPT ![s] = <<>>]
    BY <1>3 DEF GoIdle
  <2>2. CASE x = s
    BY <1>t, <1>c, <1>1, <2>1, <2>2 DEF Chain
  <2>3. CASE x # s
    BY <1>t, <1>c, <1>1, <2>1, <2>3 DEF Chain
  <2> QED
    BY <2>2, <2>3
<1>4. CASE WriteFront(s, writes[s] - 1)
  <2>1. /\ connected[s] /\ UNCHANGED writing
        /\ writeQueue' = [writeQueue EXCEPT ![s] = Tail(@)]
        /\ writes' = [writes EXCEPT ![s] = writes[s] - 1 + 1]
        /\ writePending' = [writePending EXCEPT ![s] = <<Head(writeQueue[s])>>]
    BY <1>4 DEF WriteFront
  <2>2. CASE x = s
    BY <1>t, <1>c, <1>1, <2>1, <2>2 DEF Chain
  <2>3. CASE x # s
    BY <1>t, <1>c, <1>1, <2>1, <2>3 DEF Chain
  <2> QED
    BY <2>2, <2>3
<1> QED
  BY <1>2, <1>3, <1>4 DEF OnWriteOk, DoWrite

\* IInv is preserved by every step.
LEMMA ChainStep == IInv /\ [Next]_vars => ChainInv' /\ HoldingInv'
<1> SUFFICES ASSUME IInv, [Next]_vars PROVE ChainInv' /\ HoldingInv'
  OBVIOUS
<1> USE DEF IInv
<1>1. ASSUME NEW s \in Sessions, Start(s) PROVE ChainInv' /\ HoldingInv'
  BY <1>1 DEF TypeOK, ChainInv, Chain, HoldingInv, Start, writeVars
<1>2. ASSUME NEW s \in Sessions, RunPosted(s) PROVE ChainInv' /\ HoldingInv'
  <2>1. ChainInv'
    BY <1>2, RunPostedChain
  <2> QED
    BY <1>2, <2>1 DEF HoldingInv, RunPosted, strandVars
<1>3. ASSUME NEW s \in Sessions, OnWriteOk(s) PROVE ChainInv' /\ HoldingInv'
  <2>1. ChainInv'
    BY <1>3, OnWriteOkChain
  <2> QED
    BY <1>3, <2>1 DEF HoldingInv, OnWriteOk, strandVars
<1>4. ASSUME NEW s \in Sessions, OnWriteError(s) PROVE ChainInv' /\ HoldingInv'
  <2>t. /\ posted \in [Sessions -> Nat] /\ writes \in [Sessions -> Nat]
        /\ connected \in [Sessions -> BOOLEAN]
    BY DEF TypeOK
  <2>c. \A x \in Sessions : Chain(x)
    BY DEF ChainInv
  <2>1. /\ UNCHANGED <<started, writeQueue, writing, writePending, posted, holding>>
        /\ writes' = [writes EXCEPT ![s] = @ - 1]
        /\ connected' = [connected EXCEPT ![s] = FALSE]
        /\ writes[s] > 0
    BY <1>4 DEF OnWriteError
  <2>2. posted[s] = 0 /\ writes[s] = 1 /\ writing[s] /\ started[s]
    BY <2>t, <2>c, <2>1 DEF Chain
  <2> HIDE DEF IInv
  <2>3. ASSUME NEW x \in Sessions PROVE Chain(x)'
    <3>1. Chain(x)
      BY <2>c
    <3>2. CASE x = s
      BY <2>t, <2>1, <2>2, <3>2 DEF Chain
    <3>3. CASE x # s
      BY <2>t, <2>1, <3>1, <3>3 DEF Chain
    <3> QED
      BY <3>2, <3>3
  <2>4. HoldingInv'
    BY <2>1 DEF IInv, HoldingInv
  <2> QED
    BY <2>3, <2>4 DEF ChainInv
<1>5. ASSUME NEW s \in Sessions, OnRead(s) PROVE ChainInv' /\ HoldingInv'
  BY <1>5 DEF ChainInv, Chain, HoldingInv, OnRead, writeVars
<1>6. ASSUME NEW s \in Sessions, NEW m \in Msgs, HandlerSend(s, m)
      PROVE ChainInv' /\ HoldingInv'
  <2>1. CASE connected[s]
    <3>1. started[s]
      BY <2>1 DEF ChainInv, Chain
    <3>2. ChainInv'
      BY <1>6, <2>1, <3>1, EnqueueChain DEF HandlerSend, strandVars
    <3> QED
      BY <1>6, <3>2 DEF HoldingInv, HandlerSend, strandVars
  <2>2. CASE ~connected[s]
    BY <1>6, <2>2 DEF ChainInv, Chain, HoldingInv, HandlerSend, strandVars, writeVars
  <2> QED
    BY <2>1, <2>2
<1>7. ASSUME NEW s \in Sessions, HandlerClose(s) PROVE ChainInv' /\ HoldingInv'
  BY <1>7 DEF TypeOK, ChainInv, Chain, HoldingInv, HandlerClose, writeVars
<1>8. ASSUME NEW s \in Sessions, CloseReturns(s) PROVE ChainInv' /\ HoldingInv'
  BY <1>8 DEF ChainInv, Chain, HoldingInv, CloseReturns, writeVars
<1>9. ASSUME NEW s \in Sessions, HandlerReturn(s) PROVE ChainInv' /\ HoldingInv'
  BY <1>9 DEF ChainInv, Chain, HoldingInv, HandlerReturn, writeVars
<1>10. ASSUME NEW s \in Sessions, OnReadError(s) PROVE ChainInv' /\ HoldingInv'
  BY <1>10 DEF TypeOK, ChainInv, Chain, HoldingInv, OnReadError, writeVars
<1>11. ASSUME NEW t \in Senders, NEW s \in Sessions, NEW m \in Msgs, SendCheck(t, s, m)
       PROVE ChainInv' /\ HoldingInv'
  <2>1. started[s]
    BY <1>11 DEF ChainInv, Chain, SendCheck
  <2>2. ChainInv'
    BY <1>11 DEF ChainInv, Chain, SendCheck, strandVars, writeVars
  <2>3. HoldingInv'
    BY <1>11, <2>1 DEF TypeOK, HoldingInv, SendCheck, strandVars
  <2> QED
    BY <2>2, <2>3
<1>12. ASSUME NEW t \in Senders, SendEnqueue(t) PROVE ChainInv' /\ HoldingInv'
  <2>1. holding[t][1] \in Sessions /\ holding[t][2] \in Msgs
    BY <1>12 DEF TypeOK, SendEnqueue
  <2>2. started[holding[t][1]]
    BY <1>12 DEF HoldingInv, SendEnqueue
  <2>3. ChainInv'
    BY <1>12, <2>1, <2>2, EnqueueChain DEF SendEnqueue, strandVars
  <2>4. HoldingInv'
    BY <1>12 DEF TypeOK, HoldingInv, SendEnqueue, strandVars
  <2> QED
    BY <2>3, <2>4
<1>13. CASE UNCHANGED vars
  BY <1>13 DEF ChainInv, Chain, HoldingInv, vars, writeVars, strandVars
<1> QED
  BY <1>1, <1>2, <1>3, <1>4, <1>5, <1>6, <1>7, <1>8, <1>9, <1>10, <1>11, <1>12, <1>13
     DEF Next

\* IInv holds initially and is inductive.
THEOREM Invariant == Spec => []IInv
<1>1. Init => IInv
  BY EmptySeq DEF Init, IInv, TypeOK, StrandStates, ChainInv, Chain, HoldingInv
<1>2. IInv /\ [Next]_vars => IInv'
  BY TypeStep, ChainStep DEF IInv
<1> QED
  BY <1>1, <1>2, PTL DEF Spec

\* write_pending_ is never overwritten under a running async_write, and there are
\* never two: for any number of sessions and of threads calling send().
THEOREM SingleWriterHolds == Spec => []SingleWriter
<1>1. IInv => SingleWriter
  BY DEF IInv, ChainInv, Chain, SingleWriter
<1> QED
  BY <1>1, Invariant, PTL

\* send() never leaves a frame on a connected session's queue with no writer.
THEOREM NoLostWakeupHolds == Spec => []NoLostWakeup
<1>1. IInv => NoLostWakeup
  BY DEF IInv, ChainInv, Chain, NoLostWakeup
<1> QED
  BY <1>1, Invariant, PTL
----------------------------------------------------------------------------
(* What travels.                                                           *)

\* No step loses, repeats or reorders what send() accepted.
LEMMA ConservedStep == IInv /\ Conserved /\ [Next]_vars => Conserved'
<1> SUFFICES ASSUME IInv, Conserved, [Next]_vars, NEW x \in Sessions
             PROVE  (accepted[x] = wire[x] \o writePending[x] \o writeQueue[x])'
  BY DEF Conserved
<1> DEFINE Goal == accepted'[x] = wire'[x] \o writePending'[x] \o writeQueue'[x]
<1>0. accepted[x] = wire[x] \o writePending[x] \o writeQueue[x]
  BY DEF Conserved
<1>t. TypeOK /\ ChainInv
  BY DEF IInv
<1>e. ASSUME NEW s \in Sessions, NEW m \in Msgs, Enqueue(s, m) PROVE Goal
  <2>1. CASE x = s
    <3>1. /\ wire'[x] = wire[x]
          /\ writePending'[x] = writePending[x]
          /\ writeQueue'[x] = Append(writeQueue[x], m)
          /\ accepted'[x] = Append(accepted[x], m)
      BY <1>e, <1>t, <2>1 DEF TypeOK, Enqueue
    <3>2. /\ wire[x] \in Seq(Msgs) /\ writePending[x] \in Seq(Msgs)
          /\ writeQueue[x] \in Seq(Msgs) /\ accepted[x] \in Seq(Msgs)
          /\ <<m>> \in Seq(Msgs)
      BY <1>t DEF TypeOK
    <3>3. /\ Append(writeQueue[x], m) = writeQueue[x] \o <<m>>
          /\ Append(accepted[x], m) = accepted[x] \o <<m>>
      BY <3>2, AppendIsConcat
    <3>4. wire[x] \o writePending[x] \in Seq(Msgs)
      BY <3>2, ConcatProperties
    <3>5. (wire[x] \o writePending[x] \o writeQueue[x]) \o <<m>>
            = wire[x] \o writePending[x] \o (writeQueue[x] \o <<m>>)
      BY <3>2, <3>4, ConcatFrame
    <3> QED
      BY <1>0, <3>1, <3>3, <3>5
  <2>2. CASE x # s
    BY <1>0, <1>e, <1>t, <2>2 DEF TypeOK, Enqueue
  <2> QED
    BY <2>1, <2>2
<1>f. ASSUME NEW s \in Sessions, WriteFront(s, 0), UNCHANGED accepted,
             writes[s] <= 1, wire' = [wire EXCEPT ![s] = @ \o writePending[s]]
      PROVE  Goal
  <2>1. CASE x = s
    <3>1. /\ wire'[x] = wire[x] \o writePending[x]
          /\ writePending'[x] = <<Head(writeQueue[x])>>
          /\ writeQueue'[x] = Tail(writeQueue[x])
          /\ accepted'[x] = accepted[x]
          /\ writeQueue[x] # <<>>
      BY <1>f, <1>t, <2>1 DEF TypeOK, WriteFront
    <3>2. wire[x] \o writePending[x] \o writeQueue[x]
            = (wire[x] \o writePending[x]) \o <<Head(writeQueue[x])>> \o Tail(writeQueue[x])
      <4>1. wire[x] \in Seq(Msgs) /\ writePending[x] \in Seq(Msgs)
        BY <1>t DEF TypeOK
      <4>2. wire[x] \o writePending[x] \in Seq(Msgs) /\ writeQueue[x] \in Seq(Msgs)
        BY <1>t, <4>1, ConcatProperties DEF TypeOK
      <4> QED
        BY <3>1, <4>2, ConcatHeadTail
    <3> QED
      BY <1>0, <3>1, <3>2
  <2>2. CASE x # s
    BY <1>0, <1>f, <1>t, <2>2 DEF TypeOK, WriteFront
  <2> QED
    BY <2>1, <2>2
<1> HIDE DEF Goal
<1>1. ASSUME NEW s \in Sessions, RunPosted(s) PROVE Goal
  <2>1. writes[s] = 0 /\ connected[s] => writePending[s] = <<>>
    BY <1>t DEF ChainInv, Chain
  <2>2. writes[s] = 0
    <3>1. posted[s] \in Nat /\ writes[s] \in Nat /\ posted[s] + writes[s] <= 1
      BY <1>t DEF TypeOK, ChainInv, Chain
    <3> QED
      BY <1>1, <3>1 DEF RunPosted
  <2>3. CASE WriteFront(s, writes[s])
    <3>1. wire' = [wire EXCEPT ![s] = @ \o writePending[s]]
      <4>1. wire[s] \o writePending[s] = wire[s]
        <5>1. connected[s]
          BY <2>3 DEF WriteFront
        <5>2. writePending[s] = <<>> /\ wire[s] \in Seq(Msgs)
          BY <2>1, <2>2, <5>1, <1>t DEF TypeOK
        <5> QED
          BY <5>2, ConcatEmptySeq
      <4>2. wire' = wire
        BY <1>1 DEF RunPosted
      <4>3. wire \in [Sessions -> Seq(Msgs)]
        BY <1>t DEF TypeOK
      <4> QED
        BY <4>1, <4>2, <4>3
    <3> QED
      <4>1. WriteFront(s, 0) /\ writes[s] <= 1
        BY <2>2, <2>3
      <4> QED
        BY <1>f, <1>1, <3>1, <4>1 DEF RunPosted
  <2>4. CASE SkipWrite(s, writes[s], writePending[s])
    BY <1>0, <1>1, <1>t, <2>4 DEF TypeOK, RunPosted, SkipWrite, Goal
  <2>5. CASE GoIdle(s, writes[s], writePending[s])
    BY <1>0, <1>1, <1>t, <2>5 DEF TypeOK, RunPosted, GoIdle, Goal
  <2> QED
    BY <1>1, <2>3, <2>4, <2>5 DEF RunPosted, DoWrite
<1>2. ASSUME NEW s \in Sessions, OnWriteOk(s) PROVE Goal
  <2>1. writes[s] = 1
    <3>1. posted[s] \in Nat /\ writes[s] \in Nat /\ posted[s] + writes[s] <= 1
      BY <1>t DEF TypeOK, ChainInv, Chain
    <3> QED
      BY <1>2, <3>1 DEF OnWriteOk
  <2>2. CASE WriteFront(s, writes[s] - 1)
    <3>1. writes[s] - 1 = 0 /\ writes[s] <= 1
      BY <2>1
    <3>2. WriteFront(s, 0)
      BY <2>2, <3>1
    <3> QED
      BY <1>f, <1>2, <3>1, <3>2 DEF OnWriteOk
  <2>3. CASE SkipWrite(s, writes[s] - 1, <<>>) \/ GoIdle(s, writes[s] - 1, <<>>)
    <3>1. /\ wire' = [wire EXCEPT ![s] = @ \o writePending[s]]
          /\ writePending' = [writePending EXCEPT ![s] = <<>>]
          /\ UNCHANGED <<writeQueue, accepted>>
      BY <1>2, <2>3 DEF OnWriteOk, SkipWrite, GoIdle
    <3>2. wire[x] \o writePending[x] \in Seq(Msgs)
      BY <1>t, ConcatProperties DEF TypeOK
    <3>3. (wire[x] \o writePending[x]) \o <<>> = wire[x] \o writePending[x]
      BY <3>2, ConcatEmptySeq
    <3> QED
      BY <1>0, <1>t, <3>1, <3>3 DEF TypeOK, Goal
  <2> QED
    BY <1>2, <2>2, <2>3 DEF OnWriteOk, DoWrite
<1>3. ASSUME UNCHANGED <<accepted, wire, writePending, writeQueue>> PROVE Goal
  BY <1>0, <1>3 DEF Goal
<1>4. ASSUME NEW s \in Sessions, NEW m \in Msgs, HandlerSend(s, m) PROVE Goal
  <2>1. CASE connected[s]
    BY <1>4, <1>e, <2>1 DEF HandlerSend
  <2>2. CASE ~connected[s]
    BY <1>3, <1>4, <2>2 DEF HandlerSend, writeVars
  <2> QED
    BY <2>1, <2>2
<1>5. ASSUME NEW t \in Senders, SendEnqueue(t) PROVE Goal
  <2>1. holding[t][1] \in Sessions /\ holding[t][2] \in Msgs
    BY <1>5, <1>t DEF TypeOK, SendEnqueue
  <2> QED
    BY <1>5, <1>e, <2>1 DEF SendEnqueue
<1>6. Goal
  <2>1. CASE UNCHANGED vars
    BY <2>1, <1>3 DEF vars, writeVars
  <2>2. ASSUME NEW s \in Sessions,
               \/ Start(s) \/ OnWriteError(s) \/ OnRead(s) \/ HandlerClose(s)
               \/ CloseReturns(s) \/ HandlerReturn(s) \/ OnReadError(s)
        PROVE  Goal
    BY <2>2, <1>3 DEF Start, OnWriteError, OnRead, HandlerClose, CloseReturns,
                      HandlerReturn, OnReadError, writeVars
  <2>3. ASSUME NEW t \in Senders, NEW s \in Sessions, NEW m \in Msgs, SendCheck(t, s, m)
        PROVE  Goal
    BY <2>3, <1>3 DEF SendCheck, writeVars
  <2> QED
    BY <1>1, <1>2, <1>4, <1>5, <2>1, <2>2, <2>3 DEF Next
<1> QED
  BY <1>6 DEF Goal

\* Between send() and the socket no frame is lost, repeated or overtaken, for any
\* sessions, callers and frames, and whatever fails in between.
THEOREM ConservedHolds == Spec => []Conserved
<1>1. Init => Conserved
  BY ConcatEmptySeq, EmptySeq DEF Init, Conserved
<1> QED
  BY <1>1, Invariant, ConservedStep, PTL DEF Spec
----------------------------------------------------------------------------
(* After a disconnection.                                                  *)

\* connected_, once cleared, is never set again, and no handler still queued on
\* the strand starts another async_write: for every session, at every step.
THEOREM NoWriteAfterDisconnectHolds == Spec => NoWriteAfterDisconnect
<1> DEFINE A == \A s \in Sessions :
        started[s] /\ ~connected[s] => ~connected'[s] /\ writes'[s] <= writes[s]
<1>1. IInv /\ [Next]_vars => [A]_vars
  <2> SUFFICES ASSUME IInv, Next, NEW x \in Sessions, started[x], ~connected[x]
               PROVE  ~connected'[x] /\ writes'[x] <= writes[x]
    OBVIOUS
  <2>t. TypeOK
    BY DEF IInv
  <2>u. ASSUME UNCHANGED <<connected, writes>> PROVE ~connected'[x] /\ writes'[x] <= writes[x]
    BY <2>t, <2>u DEF TypeOK
  <2>1. ASSUME NEW s \in Sessions, RunPosted(s) \/ OnWriteOk(s)
        PROVE  ~connected'[x] /\ writes'[x] <= writes[x]
    <3>1. UNCHANGED connected
      BY <2>1 DEF RunPosted, OnWriteOk, strandVars
    <3>2. CASE x = s
      <4>1. \/ SkipWrite(s, writes[s], writePending[s])
            \/ SkipWrite(s, writes[s] - 1, <<>>)
        BY <2>1, <3>2 DEF RunPosted, OnWriteOk, DoWrite, GoIdle, WriteFront
      <4>2. writes[s] \in Nat /\ (writes'[s] = writes[s] \/ writes'[s] = writes[s] - 1)
        BY <2>t, <4>1 DEF TypeOK, SkipWrite
      <4> QED
        BY <3>1, <3>2, <4>2
    <3>3. CASE x # s
      <4>1. \E n : writes' = [writes EXCEPT ![s] = n]
        BY <2>1 DEF RunPosted, OnWriteOk, DoWrite, SkipWrite, GoIdle, WriteFront
      <4>2. writes \in [Sessions -> Nat]
        BY <2>t DEF TypeOK
      <4>3. writes'[x] = writes[x] /\ writes[x] \in Nat
        BY <3>3, <4>1, <4>2
      <4> QED
        BY <3>1, <4>3
    <3> QED
      BY <3>2, <3>3
  <2>2. ASSUME NEW s \in Sessions, OnWriteError(s) \/ HandlerClose(s) \/ OnReadError(s)
        PROVE  ~connected'[x] /\ writes'[x] <= writes[x]
    <3>1. connected' = [connected EXCEPT ![s] = FALSE]
      BY <2>2 DEF OnWriteError, HandlerClose, OnReadError
    <3>2. writes' = writes \/ writes' = [writes EXCEPT ![s] = @ - 1]
      BY <2>2 DEF OnWriteError, HandlerClose, OnReadError, writeVars
    <3>3. ~connected'[x]
      BY <2>t, <3>1 DEF TypeOK
    <3>4. writes[x] \in Nat /\ (writes'[x] = writes[x] \/ writes'[x] = writes[x] - 1)
      BY <2>t, <3>2 DEF TypeOK
    <3> QED
      BY <3>3, <3>4
  <2>3. ASSUME NEW s \in Sessions, Start(s)
        PROVE  ~connected'[x] /\ writes'[x] <= writes[x]
    BY <2>3, <2>t DEF TypeOK, Start, writeVars
  <2>4. ASSUME NEW s \in Sessions, OnRead(s) \/ CloseReturns(s) \/ HandlerReturn(s)
        PROVE  ~connected'[x] /\ writes'[x] <= writes[x]
    BY <2>4, <2>u DEF OnRead, CloseReturns, HandlerReturn, writeVars
  <2>5. ASSUME NEW s \in Sessions, NEW m \in Msgs, HandlerSend(s, m)
        PROVE  ~connected'[x] /\ writes'[x] <= writes[x]
    BY <2>5, <2>u DEF HandlerSend, Enqueue, strandVars, writeVars
  <2>6. ASSUME NEW t \in Senders, SendEnqueue(t)
        PROVE  ~connected'[x] /\ writes'[x] <= writes[x]
    BY <2>6, <2>u DEF SendEnqueue, Enqueue, strandVars
  <2>7. ASSUME NEW t \in Senders, NEW s \in Sessions, NEW m \in Msgs, SendCheck(t, s, m)
        PROVE  ~connected'[x] /\ writes'[x] <= writes[x]
    BY <2>7, <2>u DEF SendCheck, strandVars, writeVars
  <2> QED
    BY <2>1, <2>2, <2>3, <2>4, <2>5, <2>6, <2>7 DEF Next
<1> QED
  BY <1>1, Invariant, PTL DEF Spec, NoWriteAfterDisconnect
----------------------------------------------------------------------------
(* Refinement of FifoLink.                                                 *)

\* "ab" is "a" and the element of "whole" after it.
NextOf(a, ab, whole) == Len(a) < Len(whole) /\ ab = Append(a, whole[Len(a) + 1])

\* The element that follows the first part of three, when the second is a single one.
LEMMA MiddleElement ==
    ASSUME NEW a \in Seq(Msgs), NEW b \in Seq(Msgs), NEW c \in Seq(Msgs), Len(b) = 1,
           NEW ab \in Seq(Msgs), ab = a \o b, NEW whole \in Seq(Msgs), whole = ab \o c
    PROVE  NextOf(a, ab, whole)
<1>1. Len(a) \in Nat /\ Len(c) \in Nat
  BY LenProperties
<1>2. Len(ab) = Len(a) + 1 /\ \A i \in 1 .. Len(a) + 1 : ab[i] = IF i <= Len(a) THEN a[i] ELSE b[i - Len(a)]
  <2>1. /\ Len(ab) = Len(a) + Len(b)
        /\ \A i \in 1 .. Len(a) + Len(b) : ab[i] = IF i <= Len(a) THEN a[i] ELSE b[i - Len(a)]
    BY ConcatProperties
  <2> QED
    BY <2>1
<1>3. /\ Len(whole) = Len(ab) + Len(c)
      /\ \A i \in 1 .. Len(ab) + Len(c) : whole[i] = IF i <= Len(ab) THEN ab[i] ELSE c[i - Len(ab)]
  BY ConcatProperties
<1>4. Len(a) < Len(whole) /\ whole[Len(a) + 1] = ab[Len(a) + 1]
  BY <1>1, <1>2, <1>3
<1>5. ab[Len(a) + 1] \in Msgs
  BY <1>1, <1>2, ElementOfSeq
<1> DEFINE e == ab[Len(a) + 1]
<1>6. e \in Msgs
  BY <1>5
<1> HIDE DEF e
<1>7. /\ Append(a, e) \in Seq(Msgs)
      /\ Len(Append(a, e)) = Len(a) + 1
      /\ \A i \in 1 .. Len(a) : Append(a, e)[i] = a[i]
      /\ Append(a, e)[Len(a) + 1] = e
  BY <1>6, AppendProperties
<1>8. \A i \in 1 .. Len(ab) : ab[i] = Append(a, e)[i]
  BY <1>1, <1>2, <1>7 DEF e
<1>9. ab = Append(a, e)
  BY <1>2, <1>7, <1>8, SeqEqual
<1> QED
  BY <1>4, <1>9 DEF NextOf, e

\* A successful write delivers the frame after the last one delivered.
LEMMA NextFrame ==
    ASSUME NEW s \in Sessions, IInv, Conserved, OnWriteOk(s)
    PROVE  /\ Len(wire[s]) < Len(accepted[s])
           /\ wire' = [wire EXCEPT ![s] = Append(wire[s], accepted[s][Len(wire[s]) + 1])]
<1>1. /\ wire[s] \in Seq(Msgs) /\ writePending[s] \in Seq(Msgs)
      /\ writeQueue[s] \in Seq(Msgs) /\ accepted[s] \in Seq(Msgs)
      /\ Len(writePending[s]) = 1
  BY DEF IInv, TypeOK, ChainInv, Chain, OnWriteOk
<1> DEFINE ab == wire[s] \o writePending[s]
<1>2. ab \in Seq(Msgs)
  BY <1>1, ConcatProperties
<1>3. ab = wire[s] \o writePending[s] /\ accepted[s] = ab \o writeQueue[s]
  BY DEF Conserved
<1>4. wire' = [wire EXCEPT ![s] = ab]
  BY DEF OnWriteOk
<1> HIDE DEF ab
<1>5. NextOf(wire[s], ab, accepted[s])
  BY <1>1, <1>2, <1>3, MiddleElement
<1> QED
  BY <1>4, <1>5, Zenon DEF NextOf
linkStatus == [s \in Sessions |-> LinkStatus(s)]

\* A step that leaves every session's flags alone leaves every link's status alone.
LEMMA StatusSame ==
    ASSUME UNCHANGED <<started, connected, writes>>
    PROVE  linkStatus' = linkStatus
BY DEF linkStatus, LinkStatus

\* A step of one session changes the status of its link only.
LEMMA StatusOne ==
    ASSUME NEW s \in Sessions, TypeOK, TypeOK', started' = started,
           \A x \in Sessions \ {s} : connected'[x] = connected[x] /\ writes'[x] = writes[x]
    PROVE  linkStatus' = [linkStatus EXCEPT ![s] = LinkStatus(s)']
<1>1. \A x \in Sessions \ {s} : LinkStatus(x)' = LinkStatus(x)
  BY DEF LinkStatus
<1> QED
  BY <1>1 DEF linkStatus

\* Every step of a session is a step of its link, or none.
LEMMA LinkStep ==
    IInv /\ TypeOK' /\ Conserved /\ [Next]_vars => [Link!Next]_(Link!vars)
<1> SUFFICES ASSUME IInv, TypeOK', Conserved, [Next]_vars PROVE [Link!Next]_(Link!vars)
  OBVIOUS
<1>t. TypeOK /\ ChainInv /\ HoldingInv
  BY DEF IInv
<1>s. ASSUME UNCHANGED <<started, connected, writes, accepted, wire>>
      PROVE  UNCHANGED Link!vars
  BY <1>s, StatusSame DEF Link!vars, linkStatus
<1>e. ASSUME NEW s \in Sessions, NEW m \in Msgs, Enqueue(s, m), started[s],
             UNCHANGED <<started, connected>>
      PROVE  Link!Next
  <2>1. LinkStatus(s) # "new"
    BY <1>e DEF LinkStatus
  <2>2. linkStatus' = linkStatus
    BY <1>e, StatusSame DEF Enqueue
  <2>3. Link!Send(s, m)
    BY <1>e, <2>1, <2>2 DEF Link!Send, Enqueue, linkStatus
  <2> QED
    BY <2>3 DEF Link!Next
<1>f. ASSUME NEW s \in Sessions, UNCHANGED <<started, accepted, wire>>,
             \A x \in Sessions \ {s} : connected'[x] = connected[x] /\ writes'[x] = writes[x],
             connected[s], ~connected'[s]
      PROVE  Link!Next
  <2>1. started[s]
    BY <1>f, <1>t DEF ChainInv, Chain
  <2>2. LinkStatus(s) = "up" /\ LinkStatus(s)' \in {"draining", "down"}
    BY <1>f, <2>1 DEF LinkStatus
  <2>3. linkStatus' = [linkStatus EXCEPT ![s] = LinkStatus(s)']
    BY <1>f, <1>t, StatusOne
  <2>4. Link!Fail(s)
    BY <1>f, <2>2, <2>3 DEF Link!Fail, linkStatus
  <2> QED
    BY <2>4 DEF Link!Next
<1>1. ASSUME NEW s \in Sessions, Start(s) PROVE Link!Next
  <2>1. \A x \in Sessions \ {s} : LinkStatus(x)' = LinkStatus(x)
    BY <1>1, <1>t DEF TypeOK, LinkStatus, Start, writeVars
  <2>2. LinkStatus(s) = "new" /\ LinkStatus(s)' = "up"
    BY <1>1, <1>t DEF TypeOK, LinkStatus, Start
  <2>3. linkStatus' = [linkStatus EXCEPT ![s] = "up"]
    BY <2>1, <2>2 DEF linkStatus
  <2>4. Link!Open(s)
    BY <1>1, <2>2, <2>3 DEF Link!Open, linkStatus, Start, writeVars
  <2> QED
    BY <2>4 DEF Link!Next
<1>2. ASSUME NEW s \in Sessions, RunPosted(s) PROVE UNCHANGED Link!vars
  <2>1. UNCHANGED <<started, connected, accepted, wire>>
    BY <1>2 DEF RunPosted, strandVars
  <2>2. \A x \in Sessions \ {s} : writes'[x] = writes[x]
    <3>1. \E n : writes' = [writes EXCEPT ![s] = n]
      BY <1>2 DEF RunPosted, DoWrite, SkipWrite, GoIdle, WriteFront
    <3> QED
      BY <1>t, <3>1 DEF TypeOK
  <2>3. LinkStatus(s)' = LinkStatus(s)
    <3>1. posted[s] > 0 /\ DoWrite(s, writes[s], writePending[s])
      BY <1>2 DEF RunPosted
    <3>2. CASE SkipWrite(s, writes[s], writePending[s]) \/ GoIdle(s, writes[s], writePending[s])
      <4>1. writes' = [writes EXCEPT ![s] = writes[s]]
        BY <3>2 DEF SkipWrite, GoIdle
      <4> QED
        BY <1>t, <2>1, <4>1 DEF TypeOK, LinkStatus
    <3>3. CASE WriteFront(s, writes[s])
      <4>1. connected[s]
        BY <3>3 DEF WriteFront
      <4> QED
        BY <2>1, <4>1 DEF LinkStatus
    <3> QED
      BY <3>1, <3>2, <3>3 DEF DoWrite
  <2>4. \A x \in Sessions : LinkStatus(x)' = LinkStatus(x)
    BY <2>1, <2>2, <2>3 DEF LinkStatus
  <2> QED
    BY <2>1, <2>4 DEF Link!vars
<1>3. ASSUME NEW s \in Sessions, OnWriteOk(s) PROVE Link!Next
  <2>1. UNCHANGED <<started, connected, accepted>> /\ writes[s] = 1 /\ started[s]
    BY <1>3, <1>t DEF TypeOK, ChainInv, Chain, OnWriteOk, strandVars
  <2>2. \A x \in Sessions \ {s} : writes'[x] = writes[x]
    BY <1>3, <1>t DEF TypeOK, OnWriteOk, DoWrite, SkipWrite, GoIdle, WriteFront
  <2>3. ~connected[s] => writes'[s] = 0
    BY <1>3, <1>t, <2>1 DEF TypeOK, OnWriteOk, DoWrite, SkipWrite, GoIdle, WriteFront
  <2>4. /\ LinkStatus(s) = IF connected[s] THEN "up" ELSE "draining"
        /\ LinkStatus(s)' = IF connected[s] THEN "up" ELSE "down"
    BY <2>1, <2>3 DEF LinkStatus
  <2>5. linkStatus' = [linkStatus EXCEPT ![s] = LinkStatus(s)']
    BY <1>t, <2>1, <2>2, StatusOne
  <2>6. /\ LinkStatus(s) \in {"up", "draining"}
        /\ linkStatus' = [linkStatus EXCEPT ![s] =
                            IF linkStatus[s] = "draining" THEN "down" ELSE "up"]
    BY <2>4, <2>5 DEF linkStatus
  <2>7. /\ Len(wire[s]) < Len(accepted[s])
        /\ wire' = [wire EXCEPT ![s] = Append(wire[s], accepted[s][Len(wire[s]) + 1])]
    BY <1>3, NextFrame
  <2>8. Link!Deliver(s)
    BY <2>1, <2>6, <2>7, Zenon DEF Link!Deliver, linkStatus
  <2> QED
    BY <2>8 DEF Link!Next
<1>4. ASSUME NEW s \in Sessions, OnWriteError(s) PROVE Link!Next
  <2>1. /\ UNCHANGED <<started, accepted, wire>> /\ writes[s] = 1 /\ started[s]
        /\ writes'[s] = 0 /\ ~connected'[s]
        /\ \A x \in Sessions \ {s} : connected'[x] = connected[x] /\ writes'[x] = writes[x]
    BY <1>4, <1>t DEF TypeOK, ChainInv, Chain, OnWriteError
  <2>2. CASE connected[s]
    BY <1>f, <2>1, <2>2
  <2>3. CASE ~connected[s]
    <3>1. LinkStatus(s) = "draining" /\ LinkStatus(s)' = "down"
      BY <2>1, <2>3 DEF LinkStatus
    <3>2. linkStatus' = [linkStatus EXCEPT ![s] = LinkStatus(s)']
      BY <1>t, <2>1, StatusOne
    <3>3. Link!Drop(s)
      BY <2>1, <3>1, <3>2 DEF Link!Drop, linkStatus
    <3> QED
      BY <3>3 DEF Link!Next
  <2> QED
    BY <2>2, <2>3
<1>5. ASSUME NEW s \in Sessions, HandlerClose(s) \/ OnReadError(s)
      PROVE  [Link!Next]_(Link!vars)
  <2>1. /\ UNCHANGED <<started, writes, accepted, wire>>
        /\ connected' = [connected EXCEPT ![s] = FALSE]
    BY <1>5 DEF HandlerClose, OnReadError, writeVars
  <2>2. CASE connected[s]
    <3>1. ~connected'[s] /\ \A x \in Sessions \ {s} : connected'[x] = connected[x]
      BY <1>t, <2>1 DEF TypeOK
    <3> QED
      BY <1>f, <2>1, <2>2, <3>1
  <2>3. CASE ~connected[s]
    <3>1. connected' = connected
      BY <1>t, <2>1, <2>3 DEF TypeOK
    <3> QED
      BY <1>s, <2>1, <3>1
  <2> QED
    BY <2>2, <2>3
<1>6. ASSUME NEW s \in Sessions, NEW m \in Msgs, HandlerSend(s, m)
      PROVE  [Link!Next]_(Link!vars)
  <2>1. CASE connected[s]
    BY <1>e, <1>6, <1>t, <2>1 DEF HandlerSend, strandVars, ChainInv, Chain
  <2>2. CASE ~connected[s]
    BY <1>s, <1>6, <2>2 DEF HandlerSend, strandVars, writeVars
  <2> QED
    BY <2>1, <2>2
<1>7. ASSUME NEW t \in Senders, SendEnqueue(t) PROVE Link!Next
  <2>1. holding[t][1] \in Sessions /\ holding[t][2] \in Msgs /\ started[holding[t][1]]
    BY <1>7, <1>t DEF TypeOK, HoldingInv, SendEnqueue
  <2> QED
    BY <1>e, <1>7, <2>1 DEF SendEnqueue, strandVars
<1>8. ASSUME NEW s \in Sessions, OnRead(s) \/ CloseReturns(s) \/ HandlerReturn(s)
      PROVE  UNCHANGED Link!vars
  BY <1>s, <1>8 DEF OnRead, CloseReturns, HandlerReturn, writeVars
<1>9. ASSUME NEW t \in Senders, NEW s \in Sessions, NEW m \in Msgs, SendCheck(t, s, m)
      PROVE  UNCHANGED Link!vars
  BY <1>s, <1>9 DEF SendCheck, strandVars, writeVars
<1>10. CASE UNCHANGED vars
  BY <1>s, <1>10 DEF vars, strandVars, writeVars
<1> QED
  BY <1>1, <1>2, <1>3, <1>4, <1>5, <1>6, <1>7, <1>8, <1>9, <1>10 DEF Next

\* The write path refines the abstract FIFO link, for any sessions, callers and
\* frames: a client of send() may reason with FifoLink alone.
THEOREM Refinement == Spec => Link!Safety
<1>1. Init => Link!Init
  BY DEF Init, Link!Init, LinkStatus
<1>2. IInv /\ IInv' /\ Conserved /\ [Next]_vars => [Link!Next]_(Link!vars)
  BY LinkStep DEF IInv
<1> QED
  BY <1>1, <1>2, Invariant, ConservedHolds, PTL DEF Spec, Link!Safety
=============================================================================
