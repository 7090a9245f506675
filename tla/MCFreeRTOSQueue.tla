-------------------------- MODULE MCFreeRTOSQueue --------------------------
(* Constants of FreeRTOSQueue for TLC: two tasks above the idle task.       *)
EXTENDS FreeRTOSQueueService, TLC

CONSTANTS high, low, tskIDLE, m1, m2

TaskSet == {high, low, tskIDLE}
PriorityOf == (high :> 2) @@ (low :> 1) @@ (tskIDLE :> 0)
Messages == {m1, m2}

C(op, item, ticks) == [op |-> op, item |-> item, xTicksToWait |-> ticks]

\* Both tasks send and receive, and either waits for messages and for places, with
\* and without timeouts.
ServiceCalls ==
  (high :> {C("peek", NoItem, 2), C("send", m1, 3)}) @@
  (low :> {C("receive", NoItem, 3), C("receive", NoItem, 0), C("sendToFront", m2, 2),
           C("overwrite", m2, 0)}) @@
  (tskIDLE :> {})

HandlerCalls == {C("send", m1, 0), C("receive", NoItem, 0)}

LowControls == (high :> {}) @@ (low :> {high}) @@ (tskIDLE :> {})
LengthsUsed == {1, 2}
Mailboxes == {1}
OneTick == {1}
HighDelays == {high}
HighResumed == {high}

\* Both wait for messages that nobody sends, while the tick count goes round.
WaitingCalls ==
  (high :> {C("receive", NoItem, 2)}) @@ (low :> {C("receive", NoItem, 2)}) @@ (tskIDLE :> {})
NoControls == (high :> {}) @@ (low :> {}) @@ (tskIDLE :> {})
Nothing == {}
=============================================================================
