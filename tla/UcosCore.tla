------------------------------ MODULE UcosCore ------------------------------
(***************************************************************************)
(* The core of uC/OS-II (uC-OS2/Source/os_core.c) on ARM Cortex-M           *)
(* (uC-OS2/Ports/ARM-Cortex-M/ARMv7-M): task control blocks, the ready      *)
(* list, the wait lists of the event control blocks, the scheduler, the     *)
(* deferred context switch, nested interrupts and the system tick.          *)
(*                                                                         *)
(* One processor runs either an interrupt service routine (OSIntNesting >   *)
(* 0) or the task OSTCBCur.  A section between OS_ENTER_CRITICAL and        *)
(* OS_EXIT_CRITICAL is one step, because interrupts are masked in it;       *)
(* between two such sections an interrupt may arrive, and PendSV may        *)
(* replace the running task.  pc says at which section a task stands.       *)
(*                                                                         *)
(* The service modules add their own variables and actions to these.        *)
(*                                                                         *)
(* A definition whose comment begins "Mutant" is the one that follows it    *)
(* with a bug; no action uses it, see "Mutants" in README.md.               *)
(***************************************************************************)
EXTENDS Integers, Sequences, FiniteSets

CONSTANTS
  Task,          \* the tasks; each has one OS_TCB
  Idle,          \* the idle task OS_TaskIdle
  Event,         \* the event control blocks of OSEventTbl
  Null,          \* the null pointer
  OS_LOWEST_PRIO,\* the numerically largest priority, that of the idle task
  InitPrio,      \* the priority each task was created with
  InitFreeList,  \* the events no object has been created in, in OSEventTbl order
  OSTCBList,     \* the non-idle tasks in the order OSTimeTick visits them
  TaskCalls,     \* per task: the services its application code calls
  IsrCalls,      \* the services the application calls from ISRs
  MaxDly,        \* bound: the longest timeout or delay, in ticks
  MaxNest,       \* bound: the deepest nesting of interrupts
  MaxLock        \* bound: the deepest nesting of OSSchedLock

Prio == 0 .. OS_LOWEST_PRIO

ASSUME CoreAssumption ==
  /\ OS_LOWEST_PRIO \in Nat
  /\ Idle \in Task
  /\ Null \notin Task /\ Null \notin Event
  /\ InitPrio \in [Task -> Prio]
  /\ \A s, t \in Task : InitPrio[s] = InitPrio[t] => s = t
  /\ InitPrio[Idle] = OS_LOWEST_PRIO
  /\ OSTCBList \in Seq(Task \ {Idle})
  /\ InitFreeList \in Seq(Event)
  /\ TaskCalls[Idle] = {}
  /\ MaxDly \in Nat /\ MaxNest \in Nat /\ MaxLock \in Nat

VARIABLES
  OSRdy,         \* the priorities whose bit is set in OSRdyGrp / OSRdyTbl
  OSTCBPrioTbl,  \* the task that owns each priority, or Null
  OSTCBPrio,     \* per task: its priority
  OSTCBStat,     \* per task: the set of OS_STAT_ bits; {} is OS_STAT_RDY
  OSTCBStatPend, \* per task: how its last pend ended
  OSTCBDly,      \* per task: ticks left of its delay or timeout, 0 if none
  OSTCBEventPtr, \* per task: the event it waits for, or Null
  OSEventType,   \* per event: the kind of object it holds, or "UNUSED"
  OSEventWait,   \* per event: priorities set in OSEventGrp / OSEventTbl
  OSEventPtr,    \* per event: while it is unused, the next unused one
  OSEventFreeList,\* the first unused event, or Null
  OSTCBCur,      \* the task on the processor
  OSPrioCur,     \* its priority, as the context switch recorded it
  OSPrioHighRdy, \* the priority OS_SchedNew found last
  OSTCBHighRdy,  \* the task with that priority
  PendSV,        \* TRUE while a context switch is pending
  OSIntNesting,  \* the number of active ISRs
  OSLockNesting, \* the number of OSSchedLock calls not undone
  ptcb,          \* the tasks the tick in progress has still to visit
  tickNest,      \* the nesting level that tick runs at, 0 if none
  pc,            \* per task: where it stands
  pevent         \* per task: the argument of the service it is executing

tcbVars   == <<OSTCBPrio, OSTCBStat, OSTCBStatPend, OSTCBDly, OSTCBEventPtr>>
eventVars == <<OSEventType, OSEventWait, OSEventPtr, OSEventFreeList>>
readyVars == <<OSRdy, OSTCBPrioTbl>>
switchVars == <<OSTCBCur, OSPrioCur, OSPrioHighRdy, OSTCBHighRdy, PendSV>>
nestVars  == <<OSIntNesting, OSLockNesting>>
tickVars  == <<ptcb, tickNest>>
flowVars  == <<pc, pevent>>
coreVars  == <<tcbVars, eventVars, readyVars, switchVars, nestVars, tickVars,
               flowVars>>

-----------------------------------------------------------------------------
(* Status bits and priorities.                                             *)

OS_STAT_PEND_ANY == {"SEM", "MBOX", "Q", "MUTEX", "FLAG"}

OS_STAT == OS_STAT_PEND_ANY \cup {"SUSPEND", "MULTI"}

\* The lowest number is the highest priority: what OSUnMapTbl computes.
IsHighest(p, S) == p \in S /\ \A q \in S : p <= q

\* A task that nothing keeps off the ready list.
IsReady(t) ==
  OSTCBStat[t] \cap (OS_STAT_PEND_ANY \cup {"SUSPEND"}) = {} /\ OSTCBDly[t] = 0

-----------------------------------------------------------------------------
(* Who executes, and how a service returns.                                *)

\* Places from which a task calls OS_Sched, and where it goes on after it.
AfterSched == [OS_Sched |-> "app", OSPend_Sched |-> "OSPend_Tail"]

\* Thread code executes only when no ISR is active and no switch is pending.
Runs == OSIntNesting = 0 /\ ~PendSV

InTask(place) == Runs /\ pc[OSTCBCur] = place

\* The running task is in application code and calls the service.
TaskCall(service) ==
  InTask("app") /\ service \in TaskCalls[OSTCBCur]

\* The innermost ISR calls the service; a tick it runs must be over.
InIsr == OSIntNesting > 0 /\ tickNest < OSIntNesting

IsrCall(service) == InIsr /\ service \in IsrCalls

GoTo(place, e) ==
  /\ pc' = [pc EXCEPT ![OSTCBCur] = place]
  /\ pevent' = [pevent EXCEPT ![OSTCBCur] = e]

\* The rest of a service after its critical section: OS_Sched if it made a
\* task ready, then back to the caller.  In an ISR OS_Sched does nothing.
Returns(callsSched) ==
  IF OSIntNesting > 0
    THEN UNCHANGED flowVars
    ELSE GoTo(IF callsSched THEN "OS_Sched" ELSE "app", Null)

-----------------------------------------------------------------------------
(* Wait lists and the end of a delay.                                      *)

\* Mutant: a suspended task is made ready.
MakeReady_Suspended(T) == OSRdy' = OSRdy \cup {OSTCBPrio[t] : t \in T}

\* Mutant: the status is tested before the pend bit is cleared.
MakeReady_Early(T) ==
  OSRdy' = OSRdy \cup {OSTCBPrio[t] : t \in {u \in T : OSTCBStat[u] = {}}}

\* The priorities of the tasks in T that are not suspended.
ReadyPrios(T) == {OSTCBPrio[t] : t \in {u \in T : "SUSPEND" \notin OSTCBStat[u]}}

\* Ready exactly those.
MakeReady(T) == OSRdy' = OSRdy \cup ReadyPrios(T)

\* The tasks of T stop waiting for e: what OS_EventTaskRdy does apart from the
\* ready list.
WaitEnds(e, T, msk, pendStat) ==
  /\ OSTCBDly' = [t \in Task |-> IF t \in T THEN 0 ELSE OSTCBDly[t]]
  /\ OSTCBStat' = [t \in Task |->
                     IF t \in T THEN OSTCBStat[t] \ {msk} ELSE OSTCBStat[t]]
  /\ OSTCBStatPend' = [t \in Task |->
                         IF t \in T THEN pendStat ELSE OSTCBStatPend[t]]
  /\ OSEventWait' = [OSEventWait EXCEPT ![e] = @ \ {OSTCBPrio[t] : t \in T}]
  /\ OSTCBEventPtr' = [t \in Task |-> IF t \in T THEN Null ELSE OSTCBEventPtr[t]]

\* OS_EventTaskRdy for each waiter of e in W: the highest one for a post, all
\* of them in turn for a broadcast or a deletion.
OS_EventTaskRdy(e, W, msk, pendStat) ==
  LET T == {OSTCBPrioTbl[p] : p \in W}
  IN  /\ WaitEnds(e, T, msk, pendStat)
      /\ MakeReady(T)
      /\ UNCHANGED OSTCBPrio

\* The running task leaves the ready list and joins the wait list of e.
OS_EventTaskWait(e) ==
  /\ OSTCBEventPtr' = [OSTCBEventPtr EXCEPT ![OSTCBCur] = e]
  /\ OSEventWait' = [OSEventWait EXCEPT ![e] = @ \cup {OSTCBPrio[OSTCBCur]}]
  /\ OSRdy' = OSRdy \ {OSTCBPrio[OSTCBCur]}

\* Mutant: a task that timed out is left on the wait list.
OS_EventTaskRemove_Kept(t, e) == OSEventWait

\* The wait lists without t on the list of e.
OS_EventTaskRemove(t, e) ==
  [OSEventWait EXCEPT ![e] = @ \ {OSTCBPrio[t]}]

\* Mutant: the pend bit stays set.
DlyEnds_StillPending(t) ==
  LET pending == OSTCBStat[t] \cap OS_STAT_PEND_ANY # {}
  IN  /\ OSTCBDly' = [OSTCBDly EXCEPT ![t] = 0]
      /\ OSTCBStatPend' = [OSTCBStatPend EXCEPT ![t] = IF pending THEN "TO" ELSE "OK"]
      /\ MakeReady({t})
      /\ UNCHANGED <<OSTCBStat, OSTCBPrio, OSTCBEventPtr>>

\* The delay or timeout of t is over: a pend ends with OS_STAT_PEND_TO, the
\* task stays on the wait list until it runs again.
DlyEnds(t) ==
  LET pending == OSTCBStat[t] \cap OS_STAT_PEND_ANY # {}
  IN  /\ OSTCBDly' = [OSTCBDly EXCEPT ![t] = 0]
      /\ OSTCBStat' = [OSTCBStat EXCEPT ![t] = @ \ OS_STAT_PEND_ANY]
      /\ OSTCBStatPend' = [OSTCBStatPend EXCEPT ![t] = IF pending THEN "TO" ELSE "OK"]
      /\ MakeReady({t})
      /\ UNCHANGED <<OSTCBPrio, OSTCBEventPtr>>

\* What a service leaves alone that does not touch task state.
KernelUnchanged == UNCHANGED <<tcbVars, readyVars, switchVars, nestVars, tickVars>>

\* What a service leaves alone that readies tasks.
SwitchUnchanged ==
  UNCHANGED <<OSTCBPrioTbl, OSEventPtr, switchVars, nestVars, tickVars>>

\* The end of every pend that had to wait: OSTCBStatPend tells the caller the
\* outcome.
OSPend_Tail ==
  LET t == OSTCBCur
  IN  /\ InTask("OSPend_Tail")
      /\ OSEventWait' = IF OSTCBStatPend[t] = "TO"
                          THEN OS_EventTaskRemove(t, pevent[t])
                          ELSE OSEventWait
      /\ OSTCBStat' = [OSTCBStat EXCEPT ![t] = {}]
      /\ OSTCBStatPend' = [OSTCBStatPend EXCEPT ![t] = "OK"]
      /\ OSTCBEventPtr' = [OSTCBEventPtr EXCEPT ![t] = Null]
      /\ Returns(FALSE)
      /\ SwitchUnchanged
      /\ UNCHANGED <<OSTCBPrio, OSTCBDly, OSRdy, OSEventType, OSEventFreeList>>

-----------------------------------------------------------------------------
(* The scheduler and the context switch.                                   *)

\* Find the highest-priority ready task; switch unless it runs already.
OS_SchedNew ==
  \E p \in OSRdy :
    /\ IsHighest(p, OSRdy)
    /\ OSPrioHighRdy' = p
    /\ OSTCBHighRdy' = OSTCBPrioTbl[p]
    /\ PendSV' = (PendSV \/ p # OSPrioCur)
    /\ UNCHANGED <<OSTCBCur, OSPrioCur>>

\* OS_Sched: nothing happens while the scheduler is locked.
OS_Sched ==
  /\ Runs
  /\ pc[OSTCBCur] \in DOMAIN AfterSched
  /\ IF OSLockNesting = 0 THEN OS_SchedNew ELSE UNCHANGED switchVars
  /\ GoTo(AfterSched[pc[OSTCBCur]], pevent[OSTCBCur])
  /\ UNCHANGED <<tcbVars, eventVars, readyVars, nestVars, tickVars>>

\* The PendSV exception has the lowest priority: it waits for every ISR.
PendSV_Handler ==
  /\ PendSV
  /\ OSIntNesting = 0
  /\ OSPrioCur' = OSPrioHighRdy
  /\ OSTCBCur' = OSTCBHighRdy
  /\ PendSV' = FALSE
  /\ UNCHANGED <<OSPrioHighRdy, OSTCBHighRdy, tcbVars, eventVars, readyVars,
                 nestVars, tickVars, flowVars>>

\* OSSchedLock and OSSchedUnlock have no effect in an ISR.
OSSchedLock ==
  /\ TaskCall("OSSchedLock")
  /\ OSLockNesting < MaxLock
  /\ OSLockNesting' = OSLockNesting + 1
  /\ UNCHANGED <<tcbVars, eventVars, readyVars, switchVars, OSIntNesting,
                 tickVars, flowVars>>

\* Mutant: the nesting is compared before it is decremented.
OSSchedUnlock_NoSched ==
  /\ TaskCall("OSSchedLock")
  /\ OSLockNesting > 0
  /\ OSLockNesting' = OSLockNesting - 1
  /\ Returns(OSLockNesting = 0)
  /\ UNCHANGED <<tcbVars, eventVars, readyVars, switchVars, OSIntNesting, tickVars>>

OSSchedUnlock ==
  /\ TaskCall("OSSchedLock")
  /\ OSLockNesting > 0
  /\ OSLockNesting' = OSLockNesting - 1
  /\ Returns(OSLockNesting = 1)
  /\ UNCHANGED <<tcbVars, eventVars, readyVars, switchVars, OSIntNesting, tickVars>>

-----------------------------------------------------------------------------
(* Interrupts and the tick.                                                *)

\* An interrupt arrives outside a critical section.
OSIntEnter ==
  /\ OSIntNesting < MaxNest
  /\ OSIntNesting' = OSIntNesting + 1
  /\ UNCHANGED <<tcbVars, eventVars, readyVars, switchVars, OSLockNesting,
                 tickVars, flowVars>>

\* Mutant: the nesting is compared before it is decremented.
OSIntExit_NoSched ==
  /\ InIsr
  /\ OSIntNesting' = OSIntNesting - 1
  /\ IF OSIntNesting = 0 /\ OSLockNesting = 0
       THEN OS_SchedNew
       ELSE UNCHANGED switchVars
  /\ UNCHANGED <<tcbVars, eventVars, readyVars, OSLockNesting, tickVars, flowVars>>

\* The outermost ISR schedules as it leaves, unless the scheduler is locked.
OSIntExit ==
  /\ InIsr
  /\ OSIntNesting' = OSIntNesting - 1
  /\ IF OSIntNesting = 1 /\ OSLockNesting = 0
       THEN OS_SchedNew
       ELSE UNCHANGED switchVars
  /\ UNCHANGED <<tcbVars, eventVars, readyVars, OSLockNesting, tickVars, flowVars>>

\* The tick ISR starts on the task list; the tick does not interrupt itself.
OSTimeTick ==
  /\ OSIntNesting > 0
  /\ tickNest = 0
  /\ OSTCBList # <<>>
  /\ ptcb' = OSTCBList
  /\ tickNest' = OSIntNesting
  /\ UNCHANGED <<tcbVars, eventVars, readyVars, switchVars, nestVars, flowVars>>

\* One task of the list: each has a critical section of its own, between two
\* of them a nested interrupt may come.
OSTimeTick_Step ==
  LET t == Head(ptcb)
  IN  /\ tickNest > 0
      /\ OSIntNesting = tickNest
      /\ ptcb' = Tail(ptcb)
      /\ tickNest' = IF ptcb' = <<>> THEN 0 ELSE tickNest
      /\ IF OSTCBDly[t] = 1
           THEN DlyEnds(t)
           ELSE /\ OSTCBDly' = [OSTCBDly EXCEPT ![t] = IF @ = 0 THEN 0 ELSE @ - 1]
                /\ UNCHANGED <<OSTCBPrio, OSTCBStat, OSTCBStatPend, OSTCBEventPtr,
                               OSRdy>>
      /\ UNCHANGED <<eventVars, OSTCBPrioTbl, switchVars, nestVars, flowVars>>

-----------------------------------------------------------------------------

\* The control block after e in the chain of unused ones.
NextUnused(e) ==
  IF \E i \in 1 .. Len(InitFreeList) - 1 : InitFreeList[i] = e
    THEN InitFreeList[1 + CHOOSE i \in 1 .. Len(InitFreeList) - 1 : InitFreeList[i] = e]
    ELSE Null

\* The chain of unused control blocks.
OS_InitEventList ==
  /\ OSEventFreeList = IF InitFreeList = <<>> THEN Null ELSE Head(InitFreeList)
  /\ OSEventPtr = [e \in Event |-> NextUnused(e)]

\* OSTCBPrioTbl when the tasks have been created.
CreatedTasks ==
  [p \in Prio |-> IF \E t \in Task : InitPrio[t] = p
                    THEN CHOOSE t \in Task : InitPrio[t] = p
                    ELSE Null]

\* The tasks and the processor after OSStart: every task ready, the highest one
\* running.
TasksStarted ==
  /\ OSRdy = {InitPrio[t] : t \in Task}
  /\ OSTCBPrio = InitPrio
  /\ OSTCBStat = [t \in Task |-> {}]
  /\ OSTCBStatPend = [t \in Task |-> "OK"]
  /\ OSTCBDly = [t \in Task |-> 0]
  /\ OSTCBEventPtr = [t \in Task |-> Null]
  /\ OSEventWait = [e \in Event |-> {}]
  /\ OSPrioHighRdy \in OSRdy /\ IsHighest(OSPrioHighRdy, OSRdy)
  /\ OSTCBHighRdy = CreatedTasks[OSPrioHighRdy]
  /\ OSPrioCur = OSPrioHighRdy
  /\ OSTCBCur = OSTCBHighRdy
  /\ PendSV = FALSE
  /\ OSIntNesting = 0
  /\ OSLockNesting = 0
  /\ ptcb = <<>>
  /\ tickNest = 0
  /\ pc = [t \in Task |-> "app"]
  /\ pevent = [t \in Task |-> Null]

StartedInit == TasksStarted /\ OS_InitEventList

CoreInit == OSTCBPrioTbl = CreatedTasks /\ StartedInit

CoreNext ==
  \/ OS_Sched
  \/ PendSV_Handler
  \/ OSSchedLock
  \/ OSSchedUnlock
  \/ OSIntEnter
  \/ OSIntExit
  \/ OSTimeTick
  \/ OSTimeTick_Step

-----------------------------------------------------------------------------
(* Properties.                                                             *)

\* What a pend of t that had to wait has come to: OSTCBStatPend tells the
\* outcome; without one, the task waits until its pointer to the event is gone.
PendOutcome(t) ==
  IF OSTCBStatPend[t] = "ABORT" THEN "aborted"
  ELSE IF OSTCBStatPend[t] = "TO" THEN "timedout"
  ELSE IF OSTCBEventPtr[t] = Null THEN "granted"
  ELSE "waiting"

Places == {"app", "OS_Sched", "OSPend_Sched", "OSPend_Tail", "OSSemPend",
           "OSSemPost", "OSSemAccept", "OSSemPendAbort", "OSSemSet", "OSSemDel",
           "OSSemCreate", "OS_EventWaitListInit"}

TcbTypeOK ==
  /\ OSTCBPrio \in [Task -> Prio]
  /\ OSTCBStat \in [Task -> SUBSET OS_STAT]
  /\ OSTCBStatPend \in [Task -> {"OK", "TO", "ABORT"}]
  /\ OSTCBDly \in [Task -> 0 .. MaxDly]
  /\ OSTCBEventPtr \in [Task -> Event \cup {Null}]

EventTypeOK ==
  /\ OSEventType \in [Event -> {"UNUSED", "SEM"}]
  /\ OSEventWait \in [Event -> SUBSET Prio]
  /\ OSEventPtr \in [Event -> Event \cup {Null}]
  /\ OSEventFreeList \in Event \cup {Null}

ReadyTypeOK ==
  /\ OSRdy \subseteq Prio
  /\ OSTCBPrioTbl \in [Prio -> Task \cup {Null}]

SwitchTypeOK ==
  /\ OSTCBCur \in Task /\ OSTCBHighRdy \in Task
  /\ OSPrioCur \in Prio /\ OSPrioHighRdy \in Prio
  /\ PendSV \in BOOLEAN

NestTypeOK == OSIntNesting \in 0 .. MaxNest /\ OSLockNesting \in 0 .. MaxLock

TickTypeOK == ptcb \in Seq(Task \ {Idle}) /\ tickNest \in 0 .. MaxNest

FlowTypeOK == pc \in [Task -> Places] /\ pevent \in [Task -> Event \cup {Null}]

\* Every variable of the kernel core has its type.
CoreTypeOK ==
  /\ TcbTypeOK
  /\ EventTypeOK
  /\ ReadyTypeOK
  /\ SwitchTypeOK
  /\ NestTypeOK
  /\ TickTypeOK
  /\ FlowTypeOK

\* The priority table and the control blocks agree: the table names a task
\* at the priority its control block holds, and nowhere else.
PrioTblSound ==
  /\ \A t \in Task : OSTCBPrioTbl[OSTCBPrio[t]] = t
  /\ \A p \in Prio : OSTCBPrioTbl[p] # Null => OSTCBPrio[OSTCBPrioTbl[p]] = p

\* The ready list holds exactly the tasks that nothing keeps off it: none that
\* is suspended, delayed or pending runs, and none is forgotten when the last
\* of its reasons to wait ends, in whichever order suspension, timeout, post,
\* abort and resumption come.
ReadyIffRunnable ==
  OSRdy = {OSTCBPrio[t] : t \in {u \in Task : IsReady(u)}}

\* "List of tasks waiting for event to occur" (ucos_ii.h, OS_EVENT): a priority
\* on a wait list belongs to a task that waits for this very event, so a post
\* never gives its token to a task that has stopped waiting.
WaitListSound ==
  \A e \in Event : \A p \in OSEventWait[e] :
    /\ OSTCBPrioTbl[p] # Null
    /\ OSTCBEventPtr[OSTCBPrioTbl[p]] = e

\* "This function deletes a semaphore and readies all tasks pending on the
\* semaphore" (OSSemDel, and OSMutexDel likewise): a control block that holds
\* no object has no task waiting on it.
UnusedHasNoWaiter ==
  \A e \in Event : OSEventType[e] = "UNUSED" =>
    \A t \in Task : OSTCBEventPtr[t] # e

\* Whenever thread code executes with the scheduler unlocked, and is not about
\* to call OS_Sched, it is the code of the highest-priority ready task.
HighestRuns ==
  Runs /\ OSLockNesting = 0 /\ pc[OSTCBCur] \notin DOMAIN AfterSched
    => IsHighest(OSTCBPrio[OSTCBCur], OSRdy)
=============================================================================
