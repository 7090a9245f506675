# A verification development for the kernels of 3rd_party

The repository collects the third-party code on which examples of the QP
frameworks are built: real-time kernels, a TCP/IP stack, CMSIS, and support
files for some twenty boards. Its logic is in the kernels. This development
models two of them in TLA+, checks the models with TLC and proves theorems
about them with TLAPS:

- **uC/OS-II** (`uC-OS2`, version 2.93.01), a preemptive fixed-priority kernel
  that is complete in source and small enough to be modelled nearly whole. It
  masks interrupts for every critical section; what is hard is what happens
  between them: nested ISRs, a deferred context switch, timeouts that race with
  posts, priorities that change, objects that are deleted.
- **FreeRTOS** (`FreeRTOS-Kernel`), whose scheduler and queues do the same job
  by other means: the scheduler is suspended and queues are locked while
  handlers go on using them, and what they did is made up for afterwards.

All paths below are relative to `src/`; `os_*.c` is in `uC-OS2/Source/`,
`queue.c` and `tasks.c` are in `FreeRTOS-Kernel/`.

## Inventory

| part | state | operations | interacts through |
|---|---|---|---|
| kernel core, `os_core.c` | `OSRdyGrp`/`OSRdyTbl`, `OSTCBPrioTbl`, task and event control blocks, `OSEventFreeList`, `OSPrioCur`, `OSPrioHighRdy`, `OSTCBCur`, `OSIntNesting`, `OSLockNesting` | `OS_Sched`, `OSIntEnter`, `OSIntExit`, `OSSchedLock`, `OSSchedUnlock`, `OSTimeTick`, `OS_EventTaskRdy`/`Wait`/`Remove`, `OSEventPendMulti`, `OS_TCBInit` | everything calls it; shared state under masked interrupts |
| Cortex-M port, `uC-OS2/Ports/ARM-Cortex-M` | PendSV pending | `OSCtxSw`, `OSIntCtxSw`, `PendSV_Handler`, `SysTick_Handler` | sets `OSTCBCur` and `OSPrioCur` |
| delays, `os_time.c` | `OSTCBDly`, `OSTime` | `OSTimeDly`, `OSTimeDlyHMSM`, `OSTimeDlyResume` | ready list, tick |
| tasks, `os_task.c` | control blocks, their chains, priorities | create, delete, suspend, resume, change of priority | ready list, wait lists, chain the tick walks |
| semaphores, `os_sem.c` | count, wait list | create, delete, pend, post, accept, set, abort | core |
| mutexes, `os_mutex.c` | owner, its priority, ceiling | create, delete, pend, post, accept | core, priority of the owner |
| mailboxes and queues, `os_mbox.c`, `os_q.c` | message, ring, `OSQFreeList` | create, delete, pend, post, post to the front, broadcast, flush, accept, abort | core |
| event flags, `os_flag.c` | flags, list of nodes on the stacks of waiters, `OSFlagFreeList` | create, delete, pend, accept, post | core, deletion of tasks |
| software timers, `os_tmr.c` | timer wheel, pool, signal count | create, delete, start, stop, remain, signal, timer task and callbacks | scheduler lock, callbacks |
| memory partitions, `os_mem.c` | free list of blocks | create, get, put | none |
| FreeRTOS scheduler, `tasks.c`, `list.c` | ready, delayed, overflow, suspended and pending lists, tick count, next unblock time, suspension | delay, suspend, resume, tick, suspension of the scheduler, event lists, timeouts | critical sections, PendSV |
| FreeRTOS queues, `queue.c` | storage, indices, count, two locks, two event lists | send, overwrite, receive, peek, from tasks and handlers, reset | scheduler, queue locks |
| other parts of FreeRTOS | timers, event groups, stream buffers, co-routines, heaps | | queues, notifications |
| ThreadX, `threadx/common/src` | thread lists, timers, objects | as above | interrupt lock-out, preemption disabling |
| embOS, VxWorks | binary libraries or headers only | | |
| lwIP, `lwip/src` | TCP control blocks, pbufs | | |
| CMSIS, board directories, `cmake` | vendor code | | |

`PROJECT.json` lists every part with its state in this development, and every
hazard with its line.

What makes each part hard, and what makes it correct:

- **Core.** Interrupts come between any two critical sections and nest; the
  switch is only made pending and is taken after the last ISR; the tick visits
  the tasks one critical section at a time. Correct: the ready list holds
  exactly the runnable tasks, and the highest of them runs.
- **Wait lists.** A task that timed out stays on its wait list until it runs,
  so a post may still find it; priorities change while tasks wait. Correct: wait
  lists and control blocks agree in both directions.
- **Semaphores, mailboxes, queues.** Correct: a token or message is taken once,
  never lost, goes to the highest-priority waiter, and none is kept while a task
  waits for it; a wait ends once, also for a task that waits for several
  objects.
- **Creation and deletion.** The type of a control block is checked outside
  the critical section; creation takes several of them. Correct: nobody waits on
  an unused block, no block is lost or in two places.
- **Mutexes.** The owner's priority is changed while it is ready, delayed or
  waiting, and it has two entries in the priority table. Correct: it runs at
  least at the priority of its waiters, and returns to its own.
- **Flags.** The list of waiters runs through their stacks; several waiters are
  released by one walk that unlinks what it stands on. Correct: nobody waits for
  what is the case, and no node outlives its task's call.
- **Timers.** The clock wraps, spokes are shared, callbacks call the services
  that the walk over the spoke is in the middle of. Correct: every timer
  expires in its tick.
- **FreeRTOS.** A handler may send between the moment a task found the queue
  empty and the moment it is on the event list; ticks are counted while the
  scheduler is suspended; wake times wrap. Correct: no task waits for a message
  that is there, none sleeps past its time, the highest ready task runs.

## Modules

| module | models |
|---|---|
| `UcosCore` | `os_core.c` and the Cortex-M port: state, scheduler, context switch, interrupts, tick |
| `UcosTask` | `os_time.c`, `os_task.c`: delay, suspension, resumption, change of priority |
| `UcosSem` | `os_sem.c`, and the complete system of core, tasks and semaphores |
| `UcosMutex` | `os_mutex.c`, and the complete system of core, tasks and mutexes |
| `UcosMsg` | `os_q.c`, `os_mbox.c`, `OSEventPendMulti`, and the complete system with them |
| `UcosTaskLife` | `OSTaskCreate`, `OSTaskDel`, `OS_TCBInit`, the chains of control blocks and the tick on them |
| `UcosFlag` | `os_flag.c`, and the complete system with tasks that are created and deleted |
| `UcosTmr` | `os_tmr.c`: wheel, pool, timer task, callbacks |
| `FreeRTOSTasks` | `tasks.c` and the Cortex-M4F port: lists, tick, suspension, delays, context switch |
| `FreeRTOSQueue` | `queue.c`, and the complete system of scheduler and one queue |
| `CountingSemaphore`, `OwnedMutex`, `MessageChannel`, `EventFlags`, `TimerService`, `BoundedQueue` | what these objects promise, without any kernel |
| `MCUcosSem`, `MCUcosMutex`, `MCUcosMsg`, `MCUcosFlag`, `MCUcosTmr`, `MCFreeRTOSQueue` | constants for TLC, and the refinement mappings to the abstract modules |
| `UcosSemService` | one semaphore of `UcosSem`, `TheSem`, mapped to `CountingSemaphore` |
| `UcosSemProofs` | inductive invariant and theorems about the system of `UcosSem` |
| `UcosSemRefinement` | theorems about its waiters, its tokens and its free list, and that it implements `CountingSemaphore` |
| `UcosMutexService` | one mutex of `UcosMutex`, `TheMutex`, mapped to `OwnedMutex` |
| `UcosMutexProofs`, `UcosMutexRefinement` | inductive invariant and theorems about the system of `UcosMutex`, and that it implements `OwnedMutex` |
| `UcosTmrService` | the timers of `UcosTmr` mapped to `TimerService` |
| `UcosMsgProofs` | inductive invariant and theorems about the system of `UcosMsg` |
| `UcosTmrProofs` | inductive invariant and theorems about `UcosTmr`, and that it implements `TimerService` |
| `FreeRTOSQueueService` | the queue of `FreeRTOSQueue` mapped to `BoundedQueue` |
| `FreeRTOSProofs`, `FreeRTOSRefinement` | inductive invariant and theorems about the system of `FreeRTOSQueue`, and that it implements `BoundedQueue` |

`UcosCore` <- `UcosTask` <- `UcosSem`, `UcosMutex`, `UcosMsg`, `UcosTaskLife`;
`UcosTaskLife` <- `UcosFlag`; `FreeRTOSTasks` <- `FreeRTOSQueue`. `UcosTmr` stands
alone: its services run under the scheduler lock.

### How the uC/OS-II model corresponds to the code

- **Steps.** What is between `OS_ENTER_CRITICAL` and `OS_EXIT_CRITICAL` is one
  action, because interrupts are masked there. A service with one section and
  a call of `OS_Sched` is two actions, with the place between them recorded in
  `pc`: an interrupt or a pending switch may come there. `OSSemPend` is five
  places: type check, section, `OS_Sched`, tail, return.
- **Processor.** `OSIntNesting > 0` means that an ISR executes; then no task
  and no PendSV does. `PendSV` pending with no ISR active means that the
  switch is the next thing the processor does. Otherwise the task `OSTCBCur`
  executes at its place `pc`. Instructions of the hardware ISR before
  `OSIntEnter` and after `OSIntExit` touch no kernel state.
- **Lists.** The ready list and the wait lists are sets of priorities, as the
  bit maps are; `OSUnMapTbl` finds the least element, `IsHighest`.
  `OSTCBStat` is a set of bits. Linked lists whose links can go wrong (control
  blocks, flag nodes, timers, free lists) are modelled by their links.
- **Applications.** `TaskCalls` and `IsrCalls` say which services the tasks and
  the ISRs call. They call them in any order, with any arguments. ISRs use
  only services that the code does not refuse in an ISR. Refused calls (errors
  that change nothing) are not actions.
- **Grain.** Called from a task, a service of semaphores, queues and mailboxes
  is checked in one step and executed in another. In an ISR they are one step:
  no task runs in between and no ISR may delete. `OSSemCreate` is three steps:
  taking the control block, the three fields, the wait list. The fields are
  one step: the type is the only one other services test. `OSQCreate`
  takes its event and its queue control block in two sections and gives the
  first back in a third.
- **Mutexes.** `OSMutexPCP` and `OSOwnerPrio` are the two bytes of
  `OSEventCnt`; the owner is `OSEventPtr`, as in the code. An action states
  the value after the last of several updates of one section. A call is one
  action with its type check: a mutex is deleted only while no call stands
  between the two, because otherwise `OSMutexPend` would use the link of a free
  control block as the owner's control block. The race itself is in `UcosSem`.
  `OSMutexCreate` is one action: until it returns, no task knows the mutex. The
  header of `OSMutexPend` forbids an owner to pend on another event (`MayPend`);
  whether owners delay is the constant `OwnersDelay`.
- **Messages.** `OSEventPtr` has one meaning per type of event, as in the code:
  the `OS_Q`, the message, the next free block. Messages are model values and
  `Null`, which a queue may hold and a mailbox may not. The ring is a function
  on its places with `OSQIn`, `OSQOut` and `OSQEntries`. A multi-pend waits on
  an array of events; the tail of `OSEventPendMulti` is an action of its own.
- **Flags.** A waiting task has an `OS_FLAG_NODE` on its stack, named by the
  task. `OS_FlagUnlink` leaves the links of the node it takes out, as the code
  does, and while a group is unused its `OSFlagWaitList` is the link of the free
  list: one field with two meanings, which is what the finding below is about.
  `OSTCBFlagsRdy` counts only during `OSFlagPend`.
- **Task life.** `Task` is the set of `OS_TCB`s, all in use at the start; a task
  is created in one that a deleted task has left. `OSTaskCreate` is five
  actions (reserve the priority, take the block, enter it in the table, link
  it, schedule, or give the priority back), `OSTaskDel` three, and between
  them come interrupts and other tasks. The tick walks the chain by its links.
- **Timers.** The signal semaphore is a counter, which `UcosSem` shows it to be.
  A turn of `OSTmr_Task` is an action per visited timer; callbacks run between
  them, with the scheduler locked, and call the services. `OSTmrTime` counts
  modulo `TimeRange`, for 2^32.
- **Names.** Variables and actions carry the names of the code. New are
  `OSRdy` and `OSEventWait` (group and table as one set), `PendSV`, `ptcb` and
  `tickNest` (the progress of `OSTimeTick`), `pc` and `pevent` (the places of
  the tasks).

### How the FreeRTOS model corresponds to the code

- **State.** The variables of `tasks.c` are one record `kernel`, and its
  functions that run inside a critical section are operators on that record, so
  that `xQueueGenericSend` composes them as the code does. Each task has the
  list its state item and the list its event item is in. Lists are sets: the
  order in the delayed lists is that of `xTimeToWake`, in the event lists that
  of the priorities, which are distinct, so that time slicing never applies.
- **Steps.** A critical section is an action; so is each piece of a call that
  the suspended scheduler protects, because handlers run between any two of
  them: `vTaskSuspendAll`, `prvLockQueue`, `xTaskCheckForTimeOut`, the question
  whether the queue is still full, `vTaskPlaceOnEventList`, each half of
  `prvUnlockQueue`, `xTaskResumeAll`. `vTaskSuspend` has two sections, and
  between them `xNextTaskUnblockTime` is out of date. A handler is one action:
  it masks the kernel's interrupts for the whole of a call, and always passes
  `pxHigherPriorityTaskWoken` on to `portYIELD_FROM_ISR`. Handlers do not nest.
- **Ring.** `pcWriteTo` and `pcReadFrom` are places of the storage. A place whose
  message was taken is set to `NoItem`, and `xTimeToWake` to 0 when a task
  leaves the delayed lists: neither is read again before it is written.
  `xTimeOut` is not recorded for calls that wait for ever, which do not read it.

## Runs

Twelve runs, one for each question. In the uC/OS-II runs tasks `hi`, `mid`,
`lo` are above the idle task.

| run | asks | bounds |
|---|---|---|
| `SemServices` | does the kernel implement `CountingSemaphore`; are exactly the runnable tasks ready, does the highest run; do lists and table agree while priorities change | 2 tasks, 1 semaphore, counts to 2, timeouts to 2 ticks, 1 ISR level, 1 lock level |
| `SemLifetime` | is the free list sound, and nobody waiting on an unused block, while control blocks change hands; does a timed pend end; does the highest task return from it | 3 tasks, 2 control blocks, fairness |
| `MutexServices` | does the kernel implement `OwnedMutex`; does an owner inherit, and lose what it inherited | 3 tasks, 1 mutex, timeouts of 1 tick, ISRs suspend and resume |
| `MutexDelete` | what becomes of ceilings, owners and waiters when mutexes are deleted and created anew; does the highest task run in spite of the changing priorities | 3 tasks, 2 control blocks, ISRs nested twice, 1 lock level |
| `MutexLiveness` | does the highest task get the mutex past a task that computes for ever | 3 tasks, 1 mutex, fairness |
| `MsgServices` | does a wait for several objects end once, by one message, timeout or abort; are queue and mailbox abstract channels | 2 tasks, a queue of 1 and a mailbox, ISRs post |
| `MsgRing` | does the queue keep order through the wrap, both ends, flush and broadcast; is no control block lost | 2 tasks, a queue of 2, or of 0 when created anew, 1 lock level |
| `TmrWheel` | do lists and pool stay sound while callbacks use the services; does a timer expire in its tick; does a one-shot timer end | 3 timers, 2 spokes, a clock of 5 ticks, callbacks |
| `FlagServices` | does the group implement `EventFlags`; does nobody wait for what is the case; are the lists sound | 3 tasks, 1 group of 2 flags, timeouts, consumption, ISRs post |
| `TaskLife` | are control blocks, priorities and lists sound while tasks are created and deleted | 3 tasks, 4 priorities above idle, ISRs, ticks, 1 lock level |
| `QueueServices` | FreeRTOS: does the queue implement `BoundedQueue`; does the locking leave nobody behind; do lists and next unblock time agree; does the highest task run | 2 tasks, queues of 1 and 2, clock of 4 values that wraps, 2 ticks, handlers |
| `FlagDel` | expected violation, see Findings | 3 tasks, 2 groups |

Why the bounds are enough to be interesting. A race over an object needs a
task that waits, one that posts and an ISR that comes between: two tasks, both
of which do everything, and one ISR level. Nesting matters to the tick, which
a nested ISR may interrupt: two levels. A timeout of two ticks has a tick that
counts and one that ends it. A count of two distinguishes "one more" from "at
the limit", which the code has at 65535. The lock is counted to one; deeper
nesting repeats the same branch. An inversion has three parts, a waiter, an
owner below it and a task between them, which can also be a second waiter. Two
waiters are readied by one deletion. A ring of two wraps at both ends, and a
queue of none is never to be written. A wheel of two spokes under a clock of
five has timers of different turns on one spoke and wraps at an odd count. A
FreeRTOS queue of one is full after one send, a queue of two can be neither
full nor empty; the clock starts one tick before its last value, so that the
second tick wraps it and a timeout of 2 or 3 has its end on the other side.
The bounds are the constants `MaxDly`, `MaxNest`, `MaxLock`, `MaxCnt`,
`MaxSignals`, `MaxCallbacks`, `MaxTicks`; every other set is the application's
own. The theorems below hold for all their values.

### Properties

Scheduler and lists:

- `ReadyIffRunnable`, `ReadyIffDone`, `ReadyExist`: the ready list is exactly the
  set of tasks that are neither suspended, delayed nor pending, in whatever
  order these reasons end; with several events waited for at once; and with
  tasks that come and go.
- `HighestRuns` (both kernels): thread code executed with the scheduler running,
  and not on its way into it, belongs to the highest-priority ready task.
- `WaitListSound`, `WaiterReachable`, `OnAwaitedLists`: wait lists and control
  blocks agree, for one event and for an array of them.
- `PrioTblSound`: so do the priority table and the control blocks.
- `ListsSound` (FreeRTOS): no delayed task is overdue and
  `xNextTaskUnblockTime` is never later than the first wake time, through wraps,
  suspensions and pended ticks; nothing is left on the pending ready list, and
  no queue locked, once the scheduler runs.
- `NobodyStranded` (FreeRTOS): while a task waits for messages, every message in
  the queue is accounted for by a task that was unblocked and has not tried
  yet, or by a lock count for which `prvUnlockQueue` will unblock one; the same
  for free places. A count that has reached the number of tasks is not increased
  further (`queue.c:277`) and unblocks all that wait.

Control blocks:

- `FreeListSound` (with no waiter on an unused block), `QBlocksPartitioned`,
  `PoolSound`, `TcbsPartitioned`, `PrioritiesSound`: blocks and priorities are
  neither lost, nor in two places, nor handed out twice.
- `FlagListSound`, `WheelSound`, `RingSound`, `VisitedIsRunning`: the linked lists
  of flags and timers, and the ring of a queue.
- `CeilingTblSound`, `NoPrioLost`: the priority table with the second entry of a
  raised owner.

Promises, by refinement:

- `IsCountingSemaphore`, `IsOwnedMutex`, `IsQChannel`, `IsMboxChannel`,
  `IsEventFlags`, `IsTimerService`, `IsBoundedQueue`: the detailed system
  implements the abstract module. The status of a task is read from its place
  and its control block; a task that was granted, timed out or aborted keeps
  that outcome until it returns. The abstract modules state the rules that are
  easily overlooked: a waiter that timed out but has not run may still be
  granted; tokens or messages are not kept while a task waits; flags are
  consumed when the waiter runs; a FreeRTOS call with a timeout fails only
  when its time has passed since it found the queue full, or empty.

Inheritance: `Inherits`, no task waits for an owner of lower priority;
`RaisedOnlyAsOwner`, nobody keeps a raised priority without the mutex.
`NoSatisfiedWaiter`: nobody waits for flags that are as he wants them.

Liveness: `TimedPendEnds`, `TopReturns`, `TopGetsMutex` (bounded inversion),
`OneShotEnds`.

### Mutants

Each property of each passing run is shown to be able to fail: the definition
of a service is replaced by one with a plausible bug, and TLC finds the
property violated. The mutated definitions stand before the ones they replace
and say what the bug is. No action uses them.

### Fairness

`FairSpec` of `UcosSem` and `UcosMutex` assumes that interrupts keep coming
(weak fairness of `OSIntEnter`), that the tick is among them and gets through
its list, that every ISR ends, that a pending PendSV is taken, and that a task
that is about to call `OS_Sched` or to leave a pend does so. The last
assumptions are strong because an interrupt disables them again and again: they
say that interrupts leave the processor some time, which SysTick at a fixed
rate and ISRs of bounded length do. Nothing is assumed about the application: no
task has to post, and tasks may be suspended. `MutexLiveness` adds one
assumption about the application, that an owner which gets the processor again
and again posts; without it no lock is ever given back. Nothing is assumed of the
task `mid`, which may compute for ever.

`FairSpec` of `UcosTmr` assumes that the tick signals, that callbacks return,
that a turn goes on, and that the timer task takes its signals (strong, as
services under the scheduler lock keep it waiting again and again): it has the
highest priority an application gives it, and ticks are signalled by an ISR.

### Finding

`FlagDel`, a bug of the code: `OSFlagFreeList` is the "Pointer to free list of
event flag groups" (`ucos_ii.h:700`). `OSFlagDel` with `OS_DEL_ALWAYS` unlinks the
nodes of all waiters and links the group into that list by `OSFlagWaitList`
(`os_flag.c:391-401`). When a waiter runs, its aborted `OSFlagPend` calls
`OS_FlagUnlink` once more (`os_flag.c:757-760`). For the first node of the
list this writes the node that once followed it, or null, to `OSFlagWaitList`
of the unused group: the rest of the free list is lost, or leads into a stack
frame. The passing runs delete groups without waiters.

### What the applications of the passing runs do not do

The services a run lets tasks and ISRs call are part of what it shows. These
restrictions are needed: without them TLC finds the property violated. For
eight of them the directory has a configuration that reproduces it.

| configuration, module | property | what happens |
|---|---|---|
| `ChangePrioInIsr`, `MCUcosSem` | `HighestRuns` | `OSIntExit` (`os_core.c:710`) and `OS_Sched` (`os_core.c:1715`) compare `OSPrioHighRdy` with `OSPrioCur`, which `OSTaskChangePrio` does not update. Called from an ISR or under the scheduler lock, a task can take the old priority of the running one, which has a lower one by now: the numbers are equal and the switch is not made |
| `PostWithoutWaiter`, `MCUcosMutex` | `HighestRuns` | `OSMutexPost` lowers the caller's priority but calls `OS_Sched` only if a task waits (`os_mutex.c:681`). If the waiter that raised the owner gave up while the owner was delayed, the lower-priority owner runs on. `MutexDelete` has owners that do not delay |
| `SuspendRaised`, `MCUcosMutex` | `HighestRuns` | `OSTaskSuspend` compares the given priority with the current one (`os_task.c:1027`): a raised owner that names itself by its own priority is suspended and goes on running |
| `DeleteRaised`, `MCUcosMutex` | `PrioFindsTask` | `OSMutexDel` with `OS_DEL_NO_PEND` clears the entry of the ceiling (`os_mutex.c:363`) and leaves a delayed, raised owner at that priority: when its delay ends the scheduler finds a null pointer |
| `ResumeMulti`, `MCUcosMsg` | `ReadyIffDone` | `OS_EventTaskRdy` clears the status bit of the posted event only (`os_core.c:1118`), a multi-pend has set those of all its events: a task suspended meanwhile keeps the others, and a later `OSTaskResume` does not ready it |
| `CallbackStops`, `MCUcosTmr` | `VisitedIsRunning` | `OSTmr_Task` has read the next timer of the spoke before it calls the callback (`os_tmr.c:1119`). If the callback stops or deletes that timer, the walk comes to a timer off the wheel, whose match may still be equal, and unlinks it again through a null pointer. `CallbacksSpareNext` excludes this |
| `ResetSenders`, `MCFreeRTOSQueue` | `NobodyStranded` | `xQueueGenericReset` unblocks one sender (`queue.c:333-343`) although a queue of two has two free places: a second one goes on waiting with room in the queue. `QueueServices` resets queues of one |
| `LateLook`, `MCFreeRTOSQueue` | `IsBoundedQueue` | `xTaskCheckForTimeOut` computes the time elapsed from two tick counts, and recognises a full turn only when the present count is not below the old one (`tasks.c:5601-5639`). A task that comes to it more than a turn after it began to wait is taken for one that has just begun, and waits again. `Prompt` excludes this; `QueueServices` has fewer ticks than a turn |

Others, without a configuration:

- A semaphore is deleted by a task of lower priority than those that pend on
  it. A deletion between the type check of `OSSemPend` (`os_sem.c:346`) and
  its critical section leaves the task waiting on a deleted semaphore; the
  header of `OSSemDel` asks to use it "with care". It is created by a task of
  higher priority than the others: `OSSemCreate` writes the type
  (`os_sem.c:127`) before it initialises the wait list, and a task that kept
  the pointer could pend in between and be erased from the list. One task
  deletes: two that passed the check of `OSSemDel` link the block twice.
- No ISR suspends an owner that holds the scheduler lock: `OSMutex_RdyAtPrio`
  makes the owner ready without looking at its status. No task above the
  ceiling deletes a mutex: `OSMutexDel` writes the owner's priority to
  `OSPrioCur` although another task runs (`os_mutex.c:800`). No owner takes a
  second mutex with `OSMutexAccept`: it records the ceiling as its own priority,
  and its waiters do not raise it any more. Priorities of tasks that use a mutex
  are not changed: the mutex would not be told (`os_task.c:162`).
- An event of a multi-pend is not deleted while the task it was posted to has
  not run: the tail of `OSEventPendMulti` reads its type after the wait
  (`os_core.c:514`), returns `OS_ERR_EVENT_TYPE`, and the message is lost.
- Tasks that wait for flags to be clear do not share them with tasks that
  consume them: consumption (`os_flag.c:782`) releases nobody.
- Nobody names a task whose creation has not ended, or deletes a task that is
  creating another (`WholeTasks`): between `OS_TCBInit_Table` and
  `OS_TCBInit_Link` (`os_core.c:2121-2143`) a suspension by an ISR is undone, a
  deletion corrupts the chain of tasks, and the priority reserved by a deleted
  creator is never given back. Nor does a task delete itself with the scheduler
  locked, which would go on running, nor an ISR suspend and resume a task in the
  window of `OSTaskDel` (`os_task.c:524-529`), which would ready it again.
- `OSTmrSignal` with a full semaphore loses a tick for all timers, and the code
  does not look at the error: `TmrWheel` lets it happen, and `IsTimerService`
  counts turns of the timer task, not wall-clock time.
- A FreeRTOS task that was unblocked, and then suspended with `vTaskSuspend`
  before it tried again, holds the wake-up it got: other waiters go on waiting
  for the message. `NobodyStranded` counts it among the tasks that will try.

## Proofs

The theorems hold for every set of tasks, events and timers, all priorities,
queue lengths and ranges of the clock, and all values of the bounds, under the
assumptions that the modules of the model make about their constants
(`CoreAssumption`, `SemAssumption`, `FreeListAssumption`, `MutexAssumption`,
`MsgAssumption`, `CreatedAssumption`, `ServiceAssumption`, `TmrAssumption`,
`TasksAssumption`, `QueueAssumption`: types, distinct initial priorities, the
chains in which `OS_InitEventList` and `OS_QInit` link the blocks, what the
headers forbid) and the hypotheses about the application in the last column:

| theorem | statement | module | application |
|---|---|---|---|
| `Invariance` | `Spec => []IInv` | `UcosSemProofs` | `PrioDiscipline` |
| `TypeCorrect` | `Spec => []TypeOK` | `UcosSemProofs` | `PrioDiscipline` |
| `ReadyListCorrect` | `Spec => []ReadyIffRunnable` | `UcosSemProofs` | `PrioDiscipline` |
| `PrioTblCorrect` | `Spec => []PrioTblSound` | `UcosSemProofs` | `PrioDiscipline` |
| `WaitListCorrect` | `Spec => []WaitListSound` | `UcosSemProofs` | `PrioDiscipline` |
| `SchedulerCorrect` | `Spec => []HighestRuns` | `UcosSemProofs` | `PrioDiscipline` |
| `WaitersReachable` | `Spec => []WaiterReachable` | `UcosSemRefinement` | and `NoCreation` |
| `TokensNotIdle` | `Spec => []NoIdleToken` | `UcosSemRefinement` | and `NoCreation` |
| `SemImplementsService` | `Spec => IsCountingSemaphore` | `UcosSemRefinement` | and `NoDeletion` |
| `FreeListCorrect` | `Spec /\ [][Careful]_vars => []FreeListSound` | `UcosSemRefinement` | `PrioDiscipline`, `Careful` |
| `CreationKeepsWaiters` | `Spec /\ [][Careful]_vars => []WaiterReachable` | `UcosSemRefinement` | the same |
| `InheritanceCorrect` | `Spec /\ [][Disciplined]_vars => []Inherits` | `UcosMutexProofs` | `NoChangePrio`, `Disciplined` |
| `RaisesAreUndone` | `Spec /\ [][Disciplined]_vars => []RaisedOnlyAsOwner` | `UcosMutexProofs` | the same |
| `CeilingsAreSound` | `Spec /\ [][Disciplined]_vars => []NoPrioLost` | `UcosMutexProofs` | the same |
| `CeilingTblCorrect` | `Spec /\ [][Disciplined]_vars => []CeilingTblSound` | `UcosMutexProofs` | the same |
| `MutexImplementsService` | `Spec /\ [][Disciplined]_vars /\ [][KeepsMutex]_vars => IsOwnedMutex` | `UcosMutexRefinement` | the same, and `KeepsMutex` |
| `WaitListsAreExact` | `Spec /\ [][Disciplined]_vars => []OnAwaitedLists` | `UcosMsgProofs` | `PrioDiscipline`, `Disciplined` |
| `ReadyWhenDone` | `Spec /\ [][Disciplined]_vars => []ReadyIffDone` | `UcosMsgProofs` | the same, and `NoSuspension \/ NoMulti` |
| `RingsAreSound` | `Spec /\ [][Disciplined]_vars => []RingSound` | `UcosMsgProofs` | `PrioDiscipline`, `Disciplined` |
| `BlocksArePartitioned` | `Spec /\ [][Disciplined]_vars => []QBlocksPartitioned` | `UcosMsgProofs` | the same |
| `WheelIsSound` | `Spec => []WheelSound` | `UcosTmrProofs` | `CallbacksSpareNext` |
| `PoolIsSound` | `Spec => []PoolSound` | `UcosTmrProofs` | `CallbacksSpareNext` |
| `VisitsRunning` | `Spec => []VisitedIsRunning` | `UcosTmrProofs` | `CallbacksSpareNext` |
| `TimersImplementService` | `Spec => IsTimerService` | `UcosTmrProofs` | `CallbacksSpareNext` |
| `ListsAreSound` | `Spec => []ListsSound` | `FreeRTOSProofs` | any |
| `HighestTaskRuns` | `Spec => []HighestRuns` | `FreeRTOSProofs` | any |
| `NobodyIsStranded` | `Spec => []NobodyStranded` | `FreeRTOSProofs` | `ResetLengths \subseteq {1}` |
| `RingIsSound` | `Spec => []Kept` | `FreeRTOSRefinement` | any |
| `QueueImplementsService` | `Spec /\ []Prompt => IsBoundedQueue` | `FreeRTOSRefinement` | `[]Prompt` |

### Semaphores

`PrioDiscipline` says that the application calls `OSTaskChangePrio` neither
from an ISR nor from a task that also locks the scheduler. `ChangePrioInIsr`
shows that it is needed. `NoCreation` and `NoDeletion` say that no task calls
`OSSemCreate` or `OSSemDel` after `OSStart`. The first is needed because
`OSSemCreate` initialises the wait list after it has published the control
block, outside any critical section, and so may erase a waiter
(`os_sem.c:127`). The second because `CountingSemaphore` speaks of the life of
one semaphore. The application of `SemServices` satisfies all three.

The inductive invariant `IInv` is in `UcosSemProofs`. `HighestRuns` is not
inductive: it speaks of moments when nothing is in flight. What has to be
added is what is true in between:

- `SwitchSound`: when no ISR is active, a pending switch leads to the highest
  ready task. An ISR may change the ready list; `OSIntExit` then computes the
  target again.
- `CurSound`: `OSPrioCur` is the priority of the running task, or belongs to no
  task and a switch is pending or about to be computed. This is where
  `PrioDiscipline` is used (`CurStep`), and why the comparison in
  `OS_SchedNew` is right (`SchedNewRight`).
- `LockSound`: under the lock no switch is pending and no task pends.
- `PendSound`: a task that refers to an event is inside `OSSemPend` on it. It
  makes `WaitListSound` inductive, and shows that clearing `OSTCBStat` at the
  end of `OSSemPend` loses no suspension (`TailIsReady`).
- `TickSound`: a tick in progress has tasks left.

The argument has three layers. `TypeStep` proves the types, action by action.
`Effects` reduces every action to one of eight effects on task state, and
`ReadyStep`, `WaitStep`, `PrioTblStep` treat these effects; `Flow` reduces
every action to what it does to the processor, and `SwitchStep`, `LockStep`,
`CurStep`, `HighestStep`, `PendStep` treat those. `Inductive` puts them
together.

`WaiterReachable` is the converse of `WaitListSound`, which alone does not give
it. `WInv` adds `Listed`, that every task that points to an event is on its list
under its present priority, which carries it through timeouts (the status bit
is cleared, the task stays listed) and changes of priority (`ListedStep`), and
`NoIdleToken`: a count becomes positive only while nobody waits (`CntStep`), a
task joins a list only at count 0 (`WaiterStep`).

For the refinement, `RInv` adds `Outcomes`: while a task waits, `OSTCBStatPend`
is "OK"; once it has been posted to or aborted its timer is off, so that no
timeout overwrites the outcome before the task has run. `WaitersMeaning` shows
that the abstract waiters are the tasks on the list, and that the priority
`OSUnMapTbl` finds is that of the abstract first. `StatusKept` says when a task
keeps its abstract status; each action is then shown to move at most the caller
and those it wakes, as `Take`, `Wait`, `Post`, ... of `CountingSemaphore`, or
to be a stutter (`CoreSim`, `TaskSim`, `EnterSim` to `AbortSim`, `StepSim`).

`FreeListCorrect` and `CreationKeepsWaiters` speak of applications that create
and delete semaphores all the time. They need `Careful`, a condition on the
steps of the application. `OSSemDel` "must be used with care" (`os_sem.c:170`):
a semaphore is deleted while no other task is between the type check of a call
on it and its critical section, or is still creating it. And nobody calls a
service on a control block before the `OSSemCreate` that takes it has returned.
Two tasks that both passed the type check of `OSSemDel` link the block into the
free list twice, and a task that pends while the block is being created is
erased from its wait list. The invariant is `FInv`: `IInv`, `Listed`, and

- `CallsFit`: a task at the critical section of a call finds a semaphore, and a
  creator an unused block. The code checks the type before the section and not
  in it.
- `NoneWaitsEarly`: nobody waits for a block, or is about to, whose wait list is
  not yet initialised. It takes the place of `NoCreation` in `ListedStep`.
- `OneCreator`, `FreeChain`, `ChainEnds`: a block that was taken from the list
  belongs to one creator; of the unused others each has at most one predecessor,
  the head has none, all can be reached from it, and there is a last one.

`Blocks` reduces every action to four kinds of step: it keeps the blocks, frees
one, takes one (`OSSemCreate`), or makes a semaphore of one. What can be reached
is the least set closed under the links (`FreeIsClosed`), so that taking the head
(`ChainPop`) and putting a block in front (`ChainPush`) are compared set by set,
without induction along the list. `InitChain` does the same for the chain of
`OS_InitEventList`, with the least index outside a closed set. TLC finds `FInv`
and `[][Careful]_vars` to hold with the constants of `SemLifetime`, so its
behaviours are among those the theorems speak of.

### Mutexes

`NoChangePrio`: nobody calls `OSTaskChangePrio`, which knows nothing of the two
priorities of an owner. `Disciplined` is a condition on the steps of the
application, each part of it what `os_mutex.c` asks for:

- the ceiling of a mutex is above every task that takes it or waits for it;
- a task takes no mutex with `OSMutexAccept` while it owns one (`OSMutexPend`
  has this as `MayPend` in the model);
- a mutex whose owner is raised is deleted by that owner, with
  `OS_DEL_ALWAYS`. `DeleteRaised` shows what happens otherwise.

TLC finds `IInv` and `[][Disciplined]_vars` to hold in `MutexServices`,
`MutexDelete` and `MutexLiveness`: what the theorems say of `Disciplined`
behaviours covers those runs. ISRs may suspend, resume and end delays of any
task, owners may delay, and deletions and creations of other mutexes come at
any moment. `OSSchedLock` is not restricted.

None of the four properties is inductive alone: which priority a post gives back
depends on what was recorded when the mutex was taken, and whom it goes to on the
priority table. `IInv` has the parts

- `PrioSound`: a task has an entry at its own priority and at the one it runs at,
  and no other; it runs at another than its own only as an owner;
- `CeilingSound`: a ceiling belongs to one mutex and to no task, its entry is
  the owner if that one is raised, and reserved otherwise;
- `OwnerSound`: an owner took the mutex at its own priority, refers to no event
  and owns nothing else. So it is on no wait list, and restoring it moves at
  most its ready bit;
- `PendSound` and `WaitSound`: the tasks that refer to a mutex are in
  `OSMutexPend` on it, and its wait list names exactly them, under the
  priorities they have. A mutex with waiters has an owner;
- `RdySound`, `SwitchSound`: the ready list names tasks at the priorities they
  run at; a pending switch leads to one of them; `OSPrioCur` is the priority of
  the running task. From this follows that a task that returns from
  `OSMutexPend` pends no more, and that the caller of a service is ready;
- `FreeChain`: no two control blocks precede the same one in the free list, so
  that creation never takes a mutex that is in use.

`Inherits` itself is kept because a new waiter raises the owner or is not above
it (`InheritsStep`), and the new owner after a post was the highest of the
waiters. `Kinds` and `Cases` reduce every step to one of seven: a mutex is taken,
the caller blocks, comes back, posts, deletes, creates, or a step of the kernel
changes no priority, list or mutex (`ControlStep`). `TakeEffect` to `CreateEffect`
say what each does to task state and tables, and one lemma per part of `IInv` and
kind of step keeps that part.

`UcosMutexRefinement` shows that one mutex, `TheMutex`, implements `OwnedMutex`.
`KeepsMutex` says that the application does not delete this one; others it may
create, use and delete. `Outcomes` is what the invariant needs beyond `IInv`:
`OSTCBStatPend` is "OK" while a task waits; once the task is off the list its
timer is off too, so that no tick overwrites the outcome; and a pend on
`TheMutex` that ended with success has made the task its owner, which it stays
until it returns. `WaitersMeaning` relates the wait list, a set of priorities, to
the abstract waiters: a task that timed out but has not run is still among them,
and a post can still choose it. Then each of the kinds of step above has one
lemma (`TakeSim`, `BlockSim`, `BackSim`, ...) that names its abstract step.

A step on another mutex is a stutter, unless it raises or restores the owner
of that mutex: then it is `Reprioritise`, which demands that this task neither
owns `TheMutex` nor waits for it (`OtherSim`). This is why `Disciplined` has
the tasks take one mutex at a time: an owner that waited for a second mutex
could be raised while it stands on that wait list under its old priority.
`MutexServices` has one mutex, so that `Reprioritise` is covered by the
theorem and not by that run.

### Messages

`PrioDiscipline` is that of the semaphores. `Disciplined` is a condition on
deletions, what the header of `OSQDel` means by "must be used with care": an
object is deleted while no other task has passed the type check of a call on
it and not yet come to its critical section. Tasks may wait for it, also with
several events at once, and others may be deleted and created at any moment.
Without it a task could be put on the wait list of a control block that is
free or belongs to another object by then. `ReadyWhenDone` also asks for
`NoSuspension \/ NoMulti`, that the application does not both suspend tasks
and pend on several events: `ResumeMulti` shows the status bits that stay. TLC
finds `IInv` and `[][Disciplined]_vars` to hold in `MsgServices`, `MsgRing`
and, although `ReadyIffDone` fails there, `ResumeMulti`: the theorems cover
what those runs let tasks and ISRs do.

`OnAwaitedLists` goes both ways, for a set of lists: a wake-up by one event has
to take the task off the lists of all the others in the same section, a
deletion of one off the rest, while a timeout leaves it on all until the task
itself has run. That each of these finds exactly the right lists depends on
where the tasks are in their calls, on who owns the control blocks and on whom
a priority names, and so `IInv` has the parts

- `PendSound`: a task that waits is in the wait of a pend and for the events it
  passed to it; its status has a bit of them until it is posted, aborted or out
  of time, and it does not refer to one event and to several;
- `ListsNamed`, `RdySound`, `WakeSound`: the lists name tasks; the ready ones are
  neither suspended nor delayed nor waiting, and without leftover bits all such
  tasks are ready;
- `CurSound`, `SwitchSound`, `LockSound`: as for the semaphores, without which a
  task could come back from a wait that is not over;
- `CallSound`: a task between type check and critical section refers to an
  object of that type. This is where `Disciplined` is used;
- `EventSound`, `EventChain`: an unused control block has no waiters, a creator
  holds its block alone, and the links of the unused ones are injective, so that
  creation never takes an object that is in use;
- `Rings`, without division: `OSQOut` plus `OSQEntries` is `OSQIn` or one ring
  more. `RingIndices` derives the statement with `%`;
- `QChain`: an `OS_Q` has one owner, a queue or a task that creates one, and all
  without owner are reachable from `OSQFreeList`.

`Effects` reduces a step to one of the kernel, a change of priority, or one of
six that services have: nothing moves, an object is created, the caller waits,
comes back, some waiters are woken, all of an object that is deleted.
`TaskCases` then says what a step does to one task: it stays, begins or ends a
wait, or is readied. `Objects` says what it does to the blocks: they are kept,
one is created, or one deleted. Each part of the invariant is kept case by
case.

The free list of `OS_Q` blocks is the least set that contains the head and is
closed under the links (`FreeIsClosed`). That every element is unused
(`FreeIsUnused`) holds because the unused blocks are such a set. That nothing
is lost when the head is taken or a block put in front (`QLinksPop`,
`QLinksPush`) takes a closed set of the new state and extends it to one of the
old. No induction over the list is needed, except at the start (`Init`), where
it is the order of the table.

### Timers

`CallbacksSpareNext`: a callback does not use the timer that follows on the
spoke. `CallbackStops` shows that it is needed.

The wheel and the pool are linked lists, and `Linked` says of a first timer and
a set that some numbering of the set follows the links from that timer to null.
An insertion in front and a removal keep it, and with it the links backwards
(`LinkedFront`, `LinkedRemove`, the two `BackLinked` lemmas). `LinkedChains`
leads back to `Chains`, which TLC evaluates. `IInv` consists of

- `GoodWheel`: each spoke's list holds exactly the running timers whose match
  belongs to it, linked both ways, and `OSTmrEntries` is their number;
- `GoodPool`: the free list holds exactly the unused timers, and the counters
  add up;
- `ValidTimers`: a timer in use is never started for no tick, so that none is
  due in the turn that starts it;
- `Ahead`: what the present turn has still to visit is the end of the spoke's
  list, and contains every timer that is due now. Callbacks may put timers in
  front of it and take any out of it but the next, which is where
  `CallbacksSpareNext` is used (`MayUseSpares`).

`VisitedIsRunning` follows from `Ahead`. For the refinement, a timer is due in
the abstract service when its match is the time and the turn is still to visit
it (`DueMeaning`), and nothing is due once the turn is over (`NoneDue`), so that
no tick can be signalled past a timer that has not expired. `LeftAtStart` and
`LeftAtTick` are the arithmetic modulo the range of the clock: what
`OSTmrRemainGet` says is the delay at the start and decreases by one per turn,
through the wrap. Each service and each visit is then a step of `TimerService`
or a stutter (`StartSim` to `ExpireSim`, `StepSim`).

### FreeRTOS

`IInv` of `FreeRTOSProofs`, with `Calling` (a task inside the queue's code has
said which call it makes), has the parts

- `KernelSound`: the lists as in `ListsSound`, nothing left on the pending ready
  list while the scheduler runs, and `Served`: the current task has the highest
  priority among the ready ones, or a switch is pending, or will be when the
  scheduler is resumed;
- `FlowSound`: the scheduler is suspended exactly while the current task is at a
  place where it has suspended it;
- `QueueSound`: the types, and each lock is held exactly between `prvLockQueue`
  and the part of `prvUnlockQueue` that gives it up;
- `RunnerReady`: the executing task is on a ready list unless it has just put
  itself on another one;
- `WaitersSound`: who is on an event list is in that call, and past the step that
  put it there;
- `AskedSound`: a task about to block saw nothing, and whatever came since is in
  the lock count. This is why `prvLockQueue` comes before the second look;
- `NobodyLeft`: `NobodyStranded` as an inequality, for one list and its supply
  (`Enough`), which is where one removal unblocks one waiter, and where the
  hypothesis about resets is used. `ResetSenders` shows that it is needed.

What the parts of the kernel have in common is stated once: `Advances` (a
function changes lists without losing what `ListsKept` says), `Eases` (unblocked
tasks will look again), `Blocks`, `Unblocks` and `Resumes`. The ticks made up by
`xTaskResumeAll` and the rounds of `prvUnlockQueue` are inductions over their
number (`TicksMadeUpFacts`, `RoundFacts`). The `Enough...` lemmas are the
counting: a waiter added, taken, served or passed on, a count incremented, a
queue unlocked. Then comes one lemma per action (`StepSwitch` to `StepTry`), with
`StepKeeps`, `Undisturbed` and `GivenKeeps` for what many of them share.

The idle task never waits, which `include/task.h:1962` asks for and
`QueueAssumption` states, is the only thing assumed of an application in
`ListsAreSound`, `HighestTaskRuns` and `RingIsSound`.

`QueueImplementsService` rests on `Kept`, which has two parts:

- `RingOf`: the writing place is the one behind the last message, counted from
  the reading place. That is an equation with two wraps, because a full ring of
  messages sent to the front has gone round. The `...Content` lemmas derive from
  it what each copy does to the content: append, put in front, replace, remove,
  leave. The content itself is no state of the code; `ContentFacts` and
  `ContentIs` say which sequence the places of the ring stand for.
- `CallsSound`: a call that has begun to wait knows when it began, and the clock
  has not gone back since. The `...Time` lemmas show of each function of
  the kernel that it leaves the clock alone or moves it forward. The clock
  `Now` is the tick count with its overflows: pended ticks count from the
  moment `xTaskResumeAll` makes up for them, as they do for the code.

A call takes effect in the critical section in which it goes on (`SucceedSim`),
begins to wait in the one that first finds it cannot (`WaitSim`), expires when
`xTaskCheckForTimeOut` says so (`CheckSim`) and fails in a last look
(`ExpiredSim`). Everything else it does, locking and unlocking, its place on the
event list, switches, is a stutter (`Unseen` and the lemmas after it).
The deadline in the abstract call is `xTimeOut` plus `xTicksToWait`:
`xTaskCheckForTimeOut` moves both, and `Elapsed` shows that their sum stays,
through a wrap of the tick count.

`Prompt`, that a task which waits with a timeout looks at the clock at most one
turn of the tick count after it last did, is a hypothesis about behaviours,
not about constants: nothing in the kernel makes a ready task of low priority
run. With 32-bit ticks of a millisecond a turn lasts seven weeks. It restricts
only the moment of that look, and calls with a timeout. `LateLook` shows that
it is needed.

### Only model-checked

What there is about semaphores that are created and deleted beyond the theorems
above, such as their tokens; `HighestRuns` of mutexes; that queues and mailboxes
implement `MessageChannel` (`IsQChannel`, `IsMboxChannel`), which needs the
contents of the rings beside what is proved of their indices; flags
with `IsEventFlags`, and task life; and the liveness properties, which are
beyond the proof system, as is what depends on fairness.

The invariants of flags and task life (`FlagListSound`, `NoSatisfiedWaiter`,
`TcbsPartitioned`, `PrioritiesSound`, `ReadyExist`) speak of linked lists that
the code walks and relinks node by node (`OSTCBFreeList`, `OSTCBList`, a
group's `OSFlagWaitList`). The model follows the links with recursive functions
and folds; what those compute for a list of any length is an induction over
data, and a proof would have to replace the walks by explicit sequences
throughout. That is work left to do, not a fact the prover has refuted.

## Not modelled

- uC/OS-II: semaphores among the events of `OSEventPendMulti`; the queries,
  names, statistics, stack checks, hooks, trace and debug data, which do not
  act on the state modelled here; `OSTaskDelReq`, a flag the target polls;
  memory partitions, a list with one critical section per operation;
  `OSTimeDlyHMSM`, arithmetic in front of `OSTimeDly`; `OSTickStepState`, which
  withholds ticks for a debugger; the initialisation before `OSStart`, in whose
  result the model starts; register contexts and stacks in the port; 255 as the
  limit of `OSIntNesting` and `OSLockNesting`.
- FreeRTOS: semaphores and mutexes, which are queues without storage, and
  priority inheritance; queue sets; creation and deletion of tasks and queues;
  notifications and stream buffers; software timers, event groups, co-routines;
  several cores, tickless idle; the heaps.
- ThreadX: a third kernel of the same kind, which shares no code with the two.
- lwIP: a protocol stack, unrelated to the kernels and of a size of its own.
- embOS and VxWorks: no source. CMSIS, boards, build scripts: vendor code
  without logic that a state machine would show. These are most of the
  repository's lines.
