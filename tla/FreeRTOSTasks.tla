--------------------------- MODULE FreeRTOSTasks ---------------------------
(***************************************************************************)
(* The scheduler of FreeRTOS (src/FreeRTOS-Kernel/tasks.c) for one core with*)
(* preemption: task lists, tick, suspension of the scheduler, event lists  *)
(* and the deferred context switch of the Cortex-M port.                   *)
(*                                                                         *)
(* The kernel's own variables are the record kernel, and the functions of  *)
(* tasks.c that run inside a critical section are operators from one such  *)
(* record to the next, so that a caller composes them as the code does.    *)
(* An action is a critical section, or a piece of code that the suspended  *)
(* scheduler protects.  An interrupt handler is one action: handlers mask   *)
(* the kernel's interrupts for the whole of a call, and PendSV, the lowest  *)
(* exception, follows them all.                                            *)
(***************************************************************************)
EXTENDS Integers, FiniteSets, FiniteSetsExt

CONSTANTS
  Tasks,          \* the tasks
  IdleTask,       \* the one the scheduler creates, always ready
  uxPriority,     \* per task: its priority, 0 the lowest
  portMAX_DELAY,  \* the largest TickType_t
  InitialTick,    \* configINITIAL_TICK_COUNT
  MaxTicks,       \* bound on the ticks of a behaviour
  DelayTicks,     \* the delays tasks ask vTaskDelay for
  Delayers,       \* the tasks that call vTaskDelay
  Controls,       \* per task: those it suspends and resumes
  IsrResumed      \* the tasks an interrupt handler resumes

Ticks == 0..portMAX_DELAY
TickRange == portMAX_DELAY + 1

\* Tasks have different priorities, so that time slicing never applies.
ASSUME TasksAssumption ==
  /\ IsFiniteSet(Tasks) /\ IdleTask \in Tasks
  /\ uxPriority \in [Tasks -> Nat]
  /\ \A t, u \in Tasks : t # u => uxPriority[t] # uxPriority[u]
  /\ \A t \in Tasks : uxPriority[IdleTask] <= uxPriority[t]
  /\ portMAX_DELAY \in Nat \ {0} /\ InitialTick \in Ticks /\ MaxTicks \in Nat
  /\ DelayTicks \subseteq Ticks \ {0}
  /\ Delayers \subseteq Tasks \ {IdleTask}
  /\ Controls \in [Tasks -> SUBSET (Tasks \ {IdleTask})]
  /\ IsrResumed \subseteq Tasks

VARIABLES
  kernel,  \* the variables of tasks.c and the pending PendSV
  pc       \* per task: the next critical section of the call it is in

Ready(K) == {t \in Tasks : K.xStateListItem[t] = "ready"}
Delayed(K) == {t \in Tasks : K.xStateListItem[t] = "delayed"}
Waiting(K, list) == {t \in Tasks : K.xEventListItem[t] = list}

Highest(S) == CHOOSE t \in S : \A u \in S : uxPriority[u] <= uxPriority[t]
AboveCurrent(K, S) == \E t \in S : uxPriority[t] > uxPriority[K.pxCurrentTCB]

\* Kernel time without its wrap.
Now(K) == K.xNumOfOverflows * TickRange + K.xTickCount

----------------------------------------------------------------------------
(* The functions of tasks.c that run in a critical section or with the      *)
(* scheduler suspended.                                                    *)

\* The tasks of S change lists; the time a task wakes at counts only in a list of
\* delayed tasks.
Moved(K, S, state, event) ==
  [K EXCEPT !.xStateListItem = [t \in Tasks |-> IF t \in S THEN state ELSE @[t]],
            !.xEventListItem = [t \in Tasks |-> IF t \in S THEN event ELSE @[t]],
            !.xTimeToWake = [t \in Tasks |-> IF t \in S /\ state \in {"ready", "suspended"}
                                               THEN 0 ELSE @[t]]]

taskYIELD(K) == [K EXCEPT !.xPendSV = TRUE]

prvResetNextTaskUnblockTime(K) ==
  [K EXCEPT !.xNextTaskUnblockTime =
     IF Delayed(K) = {} THEN portMAX_DELAY ELSE Min({K.xTimeToWake[t] : t \in Delayed(K)})]

taskSWITCH_DELAYED_LISTS(K) ==
  prvResetNextTaskUnblockTime(
    [K EXCEPT !.xStateListItem = [t \in Tasks |-> CASE @[t] = "delayed" -> "overflow"
                                                    [] @[t] = "overflow" -> "delayed"
                                                    [] OTHER -> @[t]],
              !.xNumOfOverflows = @ + 1])

\* The tick with the scheduler running; Required says whether it asks for a switch.
Ticked(K) ==
  LET now == (K.xTickCount + 1) % TickRange
      K1 == IF now = 0 THEN taskSWITCH_DELAYED_LISTS([K EXCEPT !.xTickCount = now])
                       ELSE [K EXCEPT !.xTickCount = now]
      due == {t \in Delayed(K1) : K1.xTimeToWake[t] <= now}
  IN  IF now < K1.xNextTaskUnblockTime
      THEN [k |-> K1, Required |-> K1.xYieldPending]
      ELSE [k |-> prvResetNextTaskUnblockTime(Moved(K1, due, "ready", "none")),
            Required |-> AboveCurrent(K1, due) \/ K1.xYieldPending]

\* n pended ticks one after the other.
TicksMadeUp(K, n) ==
  LET after[i \in 0..n] ==
        IF i = 0 THEN K
        ELSE LET T == Ticked(after[i - 1])
             IN  [T.k EXCEPT !.xYieldPending = @ \/ T.Required]
  IN  after[n]

\* Mutant: the tasks moved are not compared with the current one.
xTaskResumeAll_NoCompare(K) ==
  LET pending == Waiting(K, "pending")
      K1 == [Moved(K, pending, "ready", "none") EXCEPT
               !.uxSchedulerSuspended = @ - 1]
      K2 == IF pending = {} THEN K1 ELSE prvResetNextTaskUnblockTime(K1)
      K3 == [TicksMadeUp(K2, K.xPendedTicks) EXCEPT !.xPendedTicks = 0]
  IN  IF K3.xYieldPending THEN taskYIELD(K3) ELSE K3

xTaskResumeAll(K) ==
  LET pending == Waiting(K, "pending")
      K1 == [Moved(K, pending, "ready", "none") EXCEPT
               !.uxSchedulerSuspended = @ - 1,
               !.xYieldPending = @ \/ AboveCurrent(K, pending)]
      K2 == IF pending = {} THEN K1 ELSE prvResetNextTaskUnblockTime(K1)
      K3 == [TicksMadeUp(K2, K.xPendedTicks) EXCEPT !.xPendedTicks = 0]
  IN  IF K3.xYieldPending THEN taskYIELD(K3) ELSE K3

\* Whether that call has yielded already.
xAlreadyYielded(K) == xTaskResumeAll(K).xYieldPending

\* Mutant: xNextTaskUnblockTime is left alone.
prvAddCurrentTaskToDelayedList_NextKept(K, ticks, indefinitely, event) ==
  LET t == K.pxCurrentTCB
      wake == (K.xTickCount + ticks) % TickRange
      K1 == [K EXCEPT !.xTimeToWake[t] = wake]
  IN  IF ticks = portMAX_DELAY /\ indefinitely THEN Moved(K, {t}, "suspended", event)
      ELSE IF wake < K.xTickCount THEN Moved(K1, {t}, "overflow", event)
      ELSE Moved(K1, {t}, "delayed", event)

prvAddCurrentTaskToDelayedList(K, ticks, indefinitely, event) ==
  LET t == K.pxCurrentTCB
      wake == (K.xTickCount + ticks) % TickRange
      K1 == [K EXCEPT !.xTimeToWake[t] = wake]
  IN  IF ticks = portMAX_DELAY /\ indefinitely THEN Moved(K, {t}, "suspended", event)
      ELSE IF wake < K.xTickCount THEN Moved(K1, {t}, "overflow", event)
      ELSE [Moved(K1, {t}, "delayed", event) EXCEPT
              !.xNextTaskUnblockTime = Min({@, wake})]

\* Takes the first task off an event list that is not empty.
xTaskRemoveFromEventList(K, list) ==
  LET t == Highest(Waiting(K, list))
      K1 == [K EXCEPT !.xYieldPending = @ \/ AboveCurrent(K, {t})]
  IN  IF K.uxSchedulerSuspended = 0
      THEN Moved(K1, {t}, "ready", "none")
      ELSE Moved(K1, {t}, K.xStateListItem[t], "pending")

\* The same for a list that may be empty, with the yield of its callers.
Unblock(K, list) ==
  IF Waiting(K, list) = {} THEN K
  ELSE LET K1 == xTaskRemoveFromEventList(K, list)
       IN  IF AboveCurrent(K, {Highest(Waiting(K, list))}) THEN taskYIELD(K1) ELSE K1

prvTaskIsTaskSuspended(K, t) ==
  K.xStateListItem[t] = "suspended" /\ K.xEventListItem[t] = "none"

----------------------------------------------------------------------------
TasksInit ==
  /\ pc = [t \in Tasks |-> "app"]
  /\ kernel =
       [pxCurrentTCB |-> Highest(Tasks),
        xStateListItem |-> [t \in Tasks |-> "ready"],
        xEventListItem |-> [t \in Tasks |-> "none"],
        xTimeToWake |-> [t \in Tasks |-> 0],
        xTickCount |-> InitialTick,
        xNumOfOverflows |-> 0,
        xNextTaskUnblockTime |-> portMAX_DELAY,
        xPendedTicks |-> 0,
        uxSchedulerSuspended |-> 0,
        xYieldPending |-> FALSE,
        xPendSV |-> FALSE]

\* Task t executes the code at pc[t].
At(t, s) == kernel.pxCurrentTCB = t /\ ~kernel.xPendSV /\ pc[t] = s
Goto(t, s) == pc' = [pc EXCEPT ![t] = s]

\* xPortPendSVHandler: the context switch.
vTaskSwitchContext ==
  /\ kernel.xPendSV
  /\ kernel' = IF kernel.uxSchedulerSuspended # 0
               THEN [kernel EXCEPT !.xPendSV = FALSE, !.xYieldPending = TRUE]
               ELSE [kernel EXCEPT !.xPendSV = FALSE, !.xYieldPending = FALSE,
                                   !.pxCurrentTCB = Highest(Ready(kernel))]
  /\ UNCHANGED pc

xPortSysTickHandler ==
  /\ Now(kernel) - InitialTick + kernel.xPendedTicks < MaxTicks
  /\ IF kernel.uxSchedulerSuspended # 0
     THEN kernel' = [kernel EXCEPT !.xPendedTicks = @ + 1]
     ELSE LET T == Ticked(kernel)
          IN  kernel' = IF T.Required THEN taskYIELD(T.k) ELSE T.k
  /\ UNCHANGED pc

vTaskSuspendAll(t, next) ==
  /\ kernel' = [kernel EXCEPT !.uxSchedulerSuspended = @ + 1]
  /\ Goto(t, next)

vTaskDelay(t) == t \in Delayers /\ At(t, "app") /\ vTaskSuspendAll(t, "delay")

vTaskDelay_Block(t) ==
  /\ At(t, "delay")
  /\ \E ticks \in DelayTicks :
       kernel' = prvAddCurrentTaskToDelayedList(kernel, ticks, FALSE, "none")
  /\ Goto(t, "resume")

vTaskDelay_ResumeAll(t) ==
  /\ At(t, "resume")
  /\ kernel' = xTaskResumeAll(kernel)
  /\ Goto(t, IF xAlreadyYielded(kernel) THEN "app" ELSE "yield")

vTaskSuspend(t) ==
  /\ At(t, "app")
  /\ \E u \in Controls[t] :
       /\ kernel' = Moved(kernel, {u}, "suspended", "none")
       /\ Goto(t, IF u = t THEN "resetSelf" ELSE "reset")

vTaskSuspend_Reset(t) ==
  \E s \in {"reset", "resetSelf"} :
    /\ At(t, s)
    /\ kernel' = prvResetNextTaskUnblockTime(kernel)
    /\ Goto(t, IF s = "resetSelf" THEN "yield" ELSE "app")

\* The yield at the end of vTaskDelay and vTaskSuspend.
Task_Yield(t) == At(t, "yield") /\ kernel' = taskYIELD(kernel) /\ Goto(t, "app")

vTaskResume(t) ==
  /\ At(t, "app")
  /\ \E u \in Controls[t] \ {t} :
       /\ prvTaskIsTaskSuspended(kernel, u)
       /\ kernel' = LET K == Moved(kernel, {u}, "ready", "none")
                    IN  IF AboveCurrent(kernel, {u}) THEN taskYIELD(K) ELSE K
  /\ UNCHANGED pc

\* The handler passes the result on to portYIELD_FROM_ISR.
xTaskResumeFromISR ==
  /\ \E u \in IsrResumed :
       /\ prvTaskIsTaskSuspended(kernel, u)
       /\ kernel' =
            IF kernel.uxSchedulerSuspended # 0
            THEN [kernel EXCEPT !.xEventListItem[u] = "pending"]
            ELSE LET K == Moved(kernel, {u}, "ready", "none")
                 IN  IF AboveCurrent(kernel, {u})
                     THEN taskYIELD([K EXCEPT !.xYieldPending = TRUE]) ELSE K
  /\ UNCHANGED pc

TasksNext ==
  \/ vTaskSwitchContext
  \/ xPortSysTickHandler
  \/ xTaskResumeFromISR
  \/ \E t \in Tasks :
       \/ vTaskDelay(t) \/ vTaskDelay_Block(t) \/ vTaskDelay_ResumeAll(t)
       \/ vTaskSuspend(t) \/ vTaskSuspend_Reset(t) \/ vTaskResume(t)
       \/ Task_Yield(t)

----------------------------------------------------------------------------
KernelType ==
  [pxCurrentTCB : Tasks,
   xStateListItem : [Tasks -> {"ready", "delayed", "overflow", "suspended"}],
   xEventListItem : [Tasks -> {"none", "send", "receive", "pending"}],
   xTimeToWake : [Tasks -> Ticks],
   xTickCount : Ticks,
   xNumOfOverflows : Nat,
   xNextTaskUnblockTime : Ticks,
   xPendedTicks : Nat,
   uxSchedulerSuspended : 0..1,
   xYieldPending : BOOLEAN,
   xPendSV : BOOLEAN]

\* "The delayed tasks list should be empty when the lists are switched"
\* (taskSWITCH_DELAYED_LISTS): no delayed task is overdue, whatever became of
\* xNextTaskUnblockTime and whenever the tick count wrapped.
NoTaskOverdue ==
  \A t \in Tasks :
    /\ kernel.xStateListItem[t] = "delayed" =>
         /\ kernel.xTickCount < kernel.xTimeToWake[t]
         /\ kernel.xNextTaskUnblockTime <= kernel.xTimeToWake[t]
    /\ kernel.xStateListItem[t] = "overflow" => kernel.xTimeToWake[t] <= kernel.xTickCount

\* Nothing is left pending once the scheduler runs again, and no ready task is on
\* an event list.
PendingIsMoved ==
  /\ kernel.uxSchedulerSuspended = 0 =>
       Waiting(kernel, "pending") = {} /\ kernel.xPendedTicks = 0
  /\ \A t \in Ready(kernel) : kernel.xEventListItem[t] = "none"

\* Application code, and a call of the kernel that has not begun to suspend the
\* scheduler, executes in the ready task of highest priority (the yields that
\* xTaskRemoveFromEventList, xTaskResumeAll and the tick ask for are not lost).
HighestRuns ==
  ~kernel.xPendSV /\ pc[kernel.pxCurrentTCB] \in {"app", "try"} =>
    kernel.pxCurrentTCB = Highest(Ready(kernel))
=============================================================================
