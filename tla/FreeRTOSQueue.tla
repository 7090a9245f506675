--------------------------- MODULE FreeRTOSQueue ---------------------------
(***************************************************************************)
(* A queue of FreeRTOS (src/FreeRTOS-Kernel/queue.c), used by tasks and    *)
(* interrupt handlers.                                                     *)
(*                                                                         *)
(* A call that may block tries in one critical section; if it cannot go on *)
(* it suspends the scheduler and locks the queue, which keeps handlers off *)
(* the event lists but not off the messages, asks for the timeout and for  *)
(* the messages again, puts the task on an event list, and unlocks the     *)
(* queue: the lock counts then tell how many tasks the handlers would have *)
(* unblocked.  Between any two of these steps handlers and ticks may come. *)
(***************************************************************************)
EXTENDS FreeRTOSTasks, Sequences

CONSTANTS
  Items,         \* the messages
  NoItem,        \* what an unused place of the storage holds
  Lengths,       \* the lengths the queue may be created with
  Calls,         \* per task: the calls it makes
  IsrCalls,      \* the calls handlers make
  ResetLengths   \* the lengths for which tasks reset the queue

VARIABLES
  queue,     \* Queue_t: storage, indices, count and locks
  call,      \* per task: arguments and locals of its call
  returned   \* the call that has just ended: who made it and what it got

vars == <<kernel, pc, queue, call, returned>>

queueUNLOCKED == -1
queueLOCKED_UNMODIFIED == 0

Isr == "isr"
Ops == {"send", "sendToFront", "overwrite", "receive", "peek"}
Sends == {"send", "sendToFront", "overwrite"}
NoCall == [op |-> "none", item |-> NoItem, xTicksToWait |-> 0, xEntryTimeSet |-> FALSE,
           xTimeOut |-> [xOverflowCount |-> 0, xTimeOnEntering |-> 0], way |-> "none"]

\* The idle task must not wait (include/task.h:1962).
ASSUME QueueAssumption ==
  /\ Lengths \subseteq Nat \ {0}
  /\ \A t \in Tasks : Calls[t] \subseteq [op : Ops, item : Items \cup {NoItem}, xTicksToWait : Ticks]
  /\ \A c \in Calls[IdleTask] : c.xTicksToWait = 0
  /\ IsrCalls \subseteq [op : Ops, item : Items \cup {NoItem}, xTicksToWait : Ticks]

\* Overwriting is for queues of one message.
Allowed(op) == op = "overwrite" => queue.uxLength = 1

ListOf(op) == IF op \in Sends THEN "send" ELSE "receive"

----------------------------------------------------------------------------
(* The ring.                                                               *)

NextPlace(Q, i) == (i + 1) % Q.uxLength
PrevPlace(Q, i) == (i + Q.uxLength - 1) % Q.uxLength

\* Mutant: pcReadFrom moves before the copy.
prvCopyDataToQueue_MovedFirst(Q, op, item) ==
  IF op = "send"
  THEN [Q EXCEPT !.storage[Q.pcWriteTo] = item,
                 !.pcWriteTo = NextPlace(Q, @),
                 !.uxMessagesWaiting = @ + 1]
  ELSE [Q EXCEPT !.storage[PrevPlace(Q, Q.pcReadFrom)] = item,
                 !.pcReadFrom = PrevPlace(Q, @),
                 !.uxMessagesWaiting = IF op = "overwrite" /\ @ > 0 THEN @ ELSE @ + 1]

prvCopyDataToQueue(Q, op, item) ==
  IF op = "send"
  THEN [Q EXCEPT !.storage[Q.pcWriteTo] = item,
                 !.pcWriteTo = NextPlace(Q, @),
                 !.uxMessagesWaiting = @ + 1]
  ELSE [Q EXCEPT !.storage[Q.pcReadFrom] = item,
                 !.pcReadFrom = PrevPlace(Q, @),
                 !.uxMessagesWaiting = IF op = "overwrite" /\ @ > 0 THEN @ ELSE @ + 1]

\* The message prvCopyDataFromQueue copies, and the queue without it: what its
\* place holds then does not matter.
prvCopyDataFromQueue(Q) == Q.storage[NextPlace(Q, Q.pcReadFrom)]
Removed(Q) == [Q EXCEPT !.storage[NextPlace(Q, Q.pcReadFrom)] = NoItem,
                        !.pcReadFrom = NextPlace(Q, @),
                        !.uxMessagesWaiting = @ - 1]

prvIsQueueEmpty(Q) == Q.uxMessagesWaiting = 0
prvIsQueueFull(Q) == Q.uxMessagesWaiting = Q.uxLength
CannotGoOn(Q, op) == IF op \in Sends THEN prvIsQueueFull(Q) /\ op # "overwrite"
                                     ELSE prvIsQueueEmpty(Q)

\* The effect of a call that can go on, and what its caller gets.
Done(Q, op, item) ==
  CASE op \in Sends -> prvCopyDataToQueue(Q, op, item)
    [] op = "receive" -> Removed(Q)
    [] op = "peek" -> Q
Result(Q, op) == IF op \in Sends THEN "pdPASS" ELSE prvCopyDataFromQueue(Q)

\* The event list a call that went on serves: xQueuePeek leaves the message to others.
Serves(op) == IF op = "receive" THEN "send" ELSE "receive"

\* Mutant: a handler that finds the queue locked leaves no trace.
Incremented_Never(lock) == lock

\* The lock counts are capped at the number of tasks.
Incremented(lock) == IF lock < Cardinality(Tasks) THEN lock + 1 ELSE lock

Empty(n) == [storage |-> [i \in 0..(n - 1) |-> NoItem], uxLength |-> n, pcWriteTo |-> 0,
             pcReadFrom |-> n - 1, uxMessagesWaiting |-> 0,
             cRxLock |-> queueUNLOCKED, cTxLock |-> queueUNLOCKED]

----------------------------------------------------------------------------
QueueInit ==
  /\ TasksInit
  /\ \E n \in Lengths : queue = Empty(n)
  /\ call = [t \in Tasks |-> NoCall]
  /\ returned = <<>>

\* No call ends.
NoReturn == returned' = <<>>

\* The call of t ends with result r.
Return(t, r) ==
  /\ returned' = <<t, r>>
  /\ call' = [call EXCEPT ![t] = NoCall]
  /\ Goto(t, "app")

\* vTaskInternalSetTimeOutState; a call that waits for ever does not look at it.
TimeOutSet(c) ==
  IF c.xTicksToWait = portMAX_DELAY THEN c
  ELSE [c EXCEPT !.xTimeOut = [xOverflowCount |-> kernel.xNumOfOverflows,
                               xTimeOnEntering |-> kernel.xTickCount]]

Call(t) ==
  /\ At(t, "app")
  /\ \E c \in Calls[t] :
       /\ Allowed(c.op)
       /\ call' = [call EXCEPT ![t] =
            [NoCall EXCEPT !.op = c.op, !.item = c.item, !.xTicksToWait = c.xTicksToWait]]
  /\ Goto(t, "try")
  /\ UNCHANGED <<kernel, queue>> /\ NoReturn

\* The first critical section of xQueueGenericSend, xQueueReceive and xQueuePeek.
Try(t) ==
  LET op == call[t].op IN
  /\ At(t, "try")
  /\ \/ /\ ~CannotGoOn(queue, op)
        /\ queue' = Done(queue, op, call[t].item)
        /\ kernel' = Unblock(kernel, Serves(op))
        /\ Return(t, Result(queue, op))
     \/ /\ CannotGoOn(queue, op)
        /\ call[t].xTicksToWait = 0
        /\ Return(t, "fail")
        /\ UNCHANGED <<kernel, queue>>
     \/ /\ CannotGoOn(queue, op)
        /\ call[t].xTicksToWait # 0
        /\ call' = IF call[t].xEntryTimeSet THEN call
                   ELSE [call EXCEPT ![t] = TimeOutSet([@ EXCEPT !.xEntryTimeSet = TRUE])]
        /\ Goto(t, "suspendAll")
        /\ UNCHANGED <<kernel, queue>> /\ NoReturn

SuspendAll(t) ==
  /\ At(t, "suspendAll")
  /\ vTaskSuspendAll(t, "lock")
  /\ UNCHANGED <<queue, call>> /\ NoReturn

prvLockQueue(t) ==
  /\ At(t, "lock")
  /\ queue' = [queue EXCEPT
       !.cRxLock = IF @ = queueUNLOCKED THEN queueLOCKED_UNMODIFIED ELSE @,
       !.cTxLock = IF @ = queueUNLOCKED THEN queueLOCKED_UNMODIFIED ELSE @]
  /\ Goto(t, "check")
  /\ UNCHANGED <<kernel, call>> /\ NoReturn

xTaskCheckForTimeOut(t) ==
  LET c == call[t]
      elapsed == (kernel.xTickCount - c.xTimeOut.xTimeOnEntering) % TickRange
      wrapped == /\ kernel.xNumOfOverflows # c.xTimeOut.xOverflowCount
                 /\ kernel.xTickCount >= c.xTimeOut.xTimeOnEntering
      forever == c.xTicksToWait = portMAX_DELAY
      expired == ~forever /\ (wrapped \/ elapsed >= c.xTicksToWait)
  IN
  /\ At(t, "check")
  /\ call' = [call EXCEPT ![t] =
       IF expired THEN [c EXCEPT !.xTicksToWait = 0, !.way = "expired"]
       ELSE IF forever THEN c
       ELSE TimeOutSet([c EXCEPT !.xTicksToWait = @ - elapsed])]
  /\ Goto(t, IF expired THEN "unlockTx" ELSE "ask")
  /\ UNCHANGED <<kernel, queue>> /\ NoReturn

\* prvIsQueueFull for a sender, prvIsQueueEmpty for a receiver.
Ask(t) ==
  /\ At(t, "ask")
  /\ IF IF call[t].op \in Sends THEN prvIsQueueFull(queue) ELSE prvIsQueueEmpty(queue)
     THEN Goto(t, "place") /\ UNCHANGED call
     ELSE Goto(t, "unlockTx") /\ call' = [call EXCEPT ![t].way = "again"]
  /\ UNCHANGED <<kernel, queue>> /\ NoReturn

vTaskPlaceOnEventList(t) ==
  /\ At(t, "place")
  /\ kernel' = prvAddCurrentTaskToDelayedList(kernel, call[t].xTicksToWait, TRUE,
                                              ListOf(call[t].op))
  /\ call' = [call EXCEPT ![t].way = "block"]
  /\ Goto(t, "unlockTx")
  /\ UNCHANGED queue /\ NoReturn

\* One waiter is unblocked for every count of the lock, as long as there are any.
Unlocked(K, list, lock) ==
  LET after[n \in 0..lock] ==
        IF n = 0 THEN K
        ELSE IF Waiting(after[n - 1], list) = {} THEN after[n - 1]
        ELSE xTaskRemoveFromEventList(after[n - 1], list)
  IN  after[lock]

\* prvUnlockQueue, in two critical sections.
prvUnlockQueue_Tx(t) ==
  /\ At(t, "unlockTx")
  /\ kernel' = Unlocked(kernel, "receive", queue.cTxLock)
  /\ queue' = [queue EXCEPT !.cTxLock = queueUNLOCKED]
  /\ Goto(t, "unlockRx")
  /\ UNCHANGED call /\ NoReturn

prvUnlockQueue_Rx(t) ==
  /\ At(t, "unlockRx")
  /\ kernel' = Unlocked(kernel, "send", queue.cRxLock)
  /\ queue' = [queue EXCEPT !.cRxLock = queueUNLOCKED]
  /\ Goto(t, "resumeAll")
  /\ UNCHANGED call /\ NoReturn

ResumeAll(t) ==
  /\ At(t, "resumeAll")
  /\ kernel' = xTaskResumeAll(kernel)
  /\ Goto(t, CASE call[t].way = "expired" -> "expired"
               [] call[t].way = "block" /\ ~xAlreadyYielded(kernel) -> "yieldTry"
               [] OTHER -> "try")
  /\ UNCHANGED <<queue, call>> /\ NoReturn

Queue_Yield(t) ==
  /\ At(t, "yieldTry")
  /\ kernel' = taskYIELD(kernel)
  /\ Goto(t, "try")
  /\ UNCHANGED <<queue, call>> /\ NoReturn

\* A sender that has timed out gives up; a receiver first asks once more.
Expired(t) ==
  /\ At(t, "expired")
  /\ IF call[t].op \in Sends \/ prvIsQueueEmpty(queue)
     THEN Return(t, "fail")
     ELSE Goto(t, "try") /\ UNCHANGED call /\ NoReturn
  /\ UNCHANGED <<kernel, queue>>

xQueueGenericReset(t) ==
  /\ At(t, "app")
  /\ queue.uxLength \in ResetLengths
  /\ queue' = Empty(queue.uxLength)
  /\ kernel' = Unblock(kernel, "send")
  /\ UNCHANGED <<pc, call>> /\ NoReturn

\* Handlers pass pxHigherPriorityTaskWoken on to portYIELD_FROM_ISR.
xQueueGenericSendFromISR ==
  \E c \in IsrCalls :
    /\ c.op \in Sends /\ Allowed(c.op) /\ ~CannotGoOn(queue, c.op)
    /\ IF queue.cTxLock = queueUNLOCKED
       THEN /\ kernel' = Unblock(kernel, "receive")
            /\ queue' = prvCopyDataToQueue(queue, c.op, c.item)
       ELSE /\ UNCHANGED kernel
            /\ queue' = [prvCopyDataToQueue(queue, c.op, c.item) EXCEPT
                           !.cTxLock = Incremented(@)]
    /\ returned' = <<Isr, "pdPASS">>
    /\ UNCHANGED <<pc, call>>

xQueueReceiveFromISR ==
  /\ \E c \in IsrCalls : c.op = "receive"
  /\ ~prvIsQueueEmpty(queue)
  /\ IF queue.cRxLock = queueUNLOCKED
     THEN kernel' = Unblock(kernel, "send") /\ queue' = Removed(queue)
     ELSE UNCHANGED kernel /\ queue' = [Removed(queue) EXCEPT !.cRxLock = Incremented(@)]
  /\ returned' = <<Isr, prvCopyDataFromQueue(queue)>>
  /\ UNCHANGED <<pc, call>>

Next ==
  \/ TasksNext /\ UNCHANGED <<queue, call>> /\ NoReturn
  \/ xQueueGenericSendFromISR
  \/ xQueueReceiveFromISR
  \/ \E t \in Tasks :
       \/ Call(t) \/ Try(t) \/ SuspendAll(t) \/ prvLockQueue(t)
       \/ xTaskCheckForTimeOut(t) \/ Ask(t) \/ vTaskPlaceOnEventList(t)
       \/ prvUnlockQueue_Tx(t) \/ prvUnlockQueue_Rx(t) \/ ResumeAll(t)
       \/ Queue_Yield(t) \/ Expired(t) \/ xQueueGenericReset(t)

Spec == QueueInit /\ [][Next]_vars

----------------------------------------------------------------------------
TypeOK ==
  /\ kernel \in KernelType
  /\ queue.uxLength \in Lengths
  /\ queue.storage \in [0..(queue.uxLength - 1) -> Items \cup {NoItem}]
  /\ {queue.pcWriteTo, queue.pcReadFrom} \subseteq 0..(queue.uxLength - 1)
  /\ queue.uxMessagesWaiting \in 0..queue.uxLength
  /\ {queue.cRxLock, queue.cTxLock} \subseteq queueUNLOCKED..Cardinality(Tasks)

\* The queue is locked only while the scheduler is suspended.
LockedIsSuspended ==
  kernel.uxSchedulerSuspended = 0 =>
    queue.cRxLock = queueUNLOCKED /\ queue.cTxLock = queueUNLOCKED

\* Task lists, event lists, locks and the next unblock time agree.
ListsSound == TypeOK /\ NoTaskOverdue /\ PendingIsMoved /\ LockedIsSuspended

\* Tasks that will look at the queue again, for one direction: among them those
\* that have been taken off its event list.
Retrying(list) ==
  {t \in Tasks :
     /\ ListOf(call[t].op) = list /\ kernel.xEventListItem[t] # list
     /\ \/ pc[t] \in {"try", "yieldTry"}
        \/ pc[t] \in {"unlockTx", "unlockRx", "resumeAll"} /\ call[t].way = "block"}

\* What a waiter on that list waits for, and how often prvUnlockQueue will unblock one.
Supply(list) == IF list = "receive" THEN queue.uxMessagesWaiting
                                    ELSE queue.uxLength - queue.uxMessagesWaiting
LockOf(list) == IF list = "receive" THEN queue.cTxLock ELSE queue.cRxLock

\* "The lock counts contain the number of extra data items placed or removed from
\* the queue while the queue was locked" (prvUnlockQueue): while a task waits for
\* messages, each message is one for which a task was unblocked that has not tried
\* yet, or for which prvUnlockQueue will unblock one; likewise for free places.  A
\* count that has reached the number of tasks unblocks all of them.
NobodyStranded ==
  \A list \in {"send", "receive"} :
    Waiting(kernel, list) # {} =>
      \/ Supply(list) <= Cardinality(Retrying(list)) + Max({0, LockOf(list)})
      \/ LockOf(list) = Cardinality(Tasks)
=============================================================================
