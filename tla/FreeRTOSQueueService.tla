------------------------ MODULE FreeRTOSQueueService ------------------------
(***************************************************************************)
(* What the queue of FreeRTOSQueue promises to those who call it: the       *)
(* mapping of its ring, of the tick count and of the locals of the calls to  *)
(* BoundedQueue.                                                            *)
(***************************************************************************)
EXTENDS FreeRTOSQueue

\* The messages in the ring, the next one to be taken first.
ContentOf(Q) ==
  [i \in 1..Q.uxMessagesWaiting |-> Q.storage[(Q.pcReadFrom + i) % Q.uxLength]]

Phase(c) == IF ~c.xEntryTimeSet THEN "new"
            ELSE IF c.xTicksToWait = 0 THEN "expired"
            ELSE IF c.xTicksToWait = portMAX_DELAY THEN "forever" ELSE "waiting"

\* When xTaskCheckForTimeOut last looked at the clock.
Entered(c) == c.xTimeOut.xOverflowCount * TickRange + c.xTimeOut.xTimeOnEntering

\* The deadline of a waiting call does not change when xTaskCheckForTimeOut moves
\* both ends of it.
Deadline(c) == IF Phase(c) = "waiting" THEN Entered(c) + c.xTicksToWait ELSE c.xTicksToWait

CallOf(c) ==
  IF c.op = "none" THEN [op |-> "none"]
  ELSE [op |-> c.op, msg |-> c.item, phase |-> Phase(c), wait |-> Deadline(c)]

TheCalls == [t \in Tasks |-> CallOf(call[t])]

Queue ==
  INSTANCE BoundedQueue
    WITH Proc <- Tasks,
         Handler <- Isr,
         Message <- Items \cup {NoItem},
         Forever <- portMAX_DELAY,
         content <- ContentOf(queue),
         len <- queue.uxLength,
         time <- Now(kernel),
         calls <- TheCalls,
         answer <- returned

\* Whoever calls in whatever order, messages keep their order, none is lost or
\* handed out twice, and a call fails only when its time has passed.
IsBoundedQueue == Queue!Spec

\* A task that waits with a timeout looks at the clock again within one turn of the
\* tick count: xTaskCheckForTimeOut compares two tick counts.
LooksInTime(t) ==
  pc[t] = "check" /\ Phase(call[t]) = "waiting" =>
    Now(kernel) - Entered(call[t]) <= TickRange
Prompt == \A t \in Tasks : LooksInTime(t)
=============================================================================
