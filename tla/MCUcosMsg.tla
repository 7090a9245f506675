----------------------------- MODULE MCUcosMsg ------------------------------
(* Constants of UcosMsg for TLC: two tasks above the idle task, a queue que  *)
(* and a mailbox mbox, one message besides NULL.                               *)
EXTENDS UcosMsg, TLC

CONSTANTS hi, lo, idle, que, mbox, qb1, qb2, msg

Tasks == {hi, lo, idle}
Prios == (hi :> 0) @@ (lo :> 1) @@ (idle :> 3)
TaskList == <<lo, hi>>
QueueAndMailbox == {que, mbox}
NoEvents == <<>>
OneQ == que :> qb1
OneBlock == <<qb1>>
TwoBlocks == <<qb1, qb2>>
Message1 == {msg}
BothArrays == {<<que, mbox>>}
NoArrays == {}

CallsOf(H, L) == (hi :> H) @@ (lo :> L) @@ (idle :> {})

\* Tasks pend on both objects, at once or one after the other, while tasks and
\* interrupts post.
PendServices == {"OSMboxPend", "OSEventPendMulti"}
PostServices == {"OSQPend", "OSEventPendMulti", "OSQPost", "OSTaskChangePrio"}
ServiceCalls == CallsOf(PendServices, PostServices)
SuspendCalls ==
  CallsOf(PendServices, PostServices \cup {"OSTaskSuspend", "OSTaskResume"})
IsrPosts == {"OSQPost", "OSMboxPost"}

\* lo fills, empties, deletes and creates what hi waits for, with the scheduler
\* locked or not.
RingServices ==
  {"OSQPostFront", "OSQPostOpt", "OSQAccept", "OSQFlush", "OSQDel", "OSQCreate",
   "OSMboxAccept", "OSMboxPostOpt", "OSMboxPendAbort", "OSMboxDel", "OSMboxCreate",
   "OSSchedLock", "OSTimeDlyResume"}
RingCalls == CallsOf({"OSTimeDly", "OSQPend", "OSEventPendMulti"}, RingServices)
NoIsrCalls == {}

QChannel ==
  INSTANCE MessageChannel
    WITH Proc <- Task,
         None <- Null,
         Cap <- InitSize,
         content <- Content(que),
         status <- [t \in Task |-> ChannelStatus(t, que)],
         prio <- OSTCBPrio

\* The queue behaves as a message channel: messages keep their order, none is lost
\* or handed out twice, and none is kept while a task waits.
IsQChannel == QChannel!Spec

MboxChannel ==
  INSTANCE MessageChannel
    WITH Proc <- Task,
         None <- Null,
         Cap <- 1,
         content <- Content(mbox),
         status <- [t \in Task |-> ChannelStatus(t, mbox)],
         prio <- OSTCBPrio

\* So does the mailbox, as a channel of one message, though tasks wait for it and
\* the queue together.
IsMboxChannel == MboxChannel!Spec
=============================================================================
