------------------------------ MODULE UcosSem -------------------------------
(***************************************************************************)
(* Counting semaphores (uC-OS2/Source/os_sem.c) on the kernel of UcosCore,   *)
(* together with the task services of UcosTask.                             *)
(*                                                                         *)
(* Every service first reads pevent->OSEventType with interrupts enabled    *)
(* and enters its critical section afterwards.  Called from a task the two  *)
(* are separate steps, because the semaphore may be deleted in between; an  *)
(* ISR cannot be overtaken by a task and no ISR deletes, so there they are  *)
(* one step.  OSSemQuery copies the state out and changes nothing.          *)
(***************************************************************************)
EXTENDS UcosTask

CONSTANTS
  InitCnt,       \* the initial counts of the semaphores created before OSStart
  MaxCnt         \* bound: the largest count, 65535 in the code

ASSUME SemAssumption ==
  /\ MaxCnt \in Nat
  /\ InitCnt \in [Event -> 0 .. MaxCnt]

\* OS_InitEventList links each block into the free list once.
ASSUME FreeListAssumption ==
  \A i, j \in 1 .. Len(InitFreeList) : InitFreeList[i] = InitFreeList[j] => i = j

VARIABLE OSEventCnt  \* per event: the semaphore count

vars == <<coreVars, OSEventCnt>>

-----------------------------------------------------------------------------

\* A task passes the type check of the service and has not yet masked the
\* interrupts.  OSSemPend also checks that the scheduler is not locked,
\* and only a task may call OSSemPend and OSSemDel.
OSSem_Enter(service, e) ==
  /\ TaskCall(service)
  /\ OSEventType[e] = "SEM"
  /\ service = "OSSemPend" => OSLockNesting = 0
  /\ GoTo(service, e)
  /\ UNCHANGED <<tcbVars, eventVars, readyVars, switchVars, nestVars, tickVars,
                 OSEventCnt>>

\* The critical section of the service.
AtSection(service, e) ==
  \/ InTask(service) /\ pevent[OSTCBCur] = e
  \/ IsrCall(service) /\ OSEventType[e] = "SEM"

\* Mutant: the count is not checked.
OSSemAccept_Unchecked(e) ==
  /\ AtSection("OSSemAccept", e)
  /\ OSEventCnt' = [OSEventCnt EXCEPT ![e] = @ - 1]
  /\ Returns(FALSE)
  /\ KernelUnchanged
  /\ UNCHANGED eventVars

OSSemAccept(e) ==
  /\ AtSection("OSSemAccept", e)
  /\ OSEventCnt' = [OSEventCnt EXCEPT ![e] = IF @ > 0 THEN @ - 1 ELSE @]
  /\ Returns(FALSE)
  /\ KernelUnchanged
  /\ UNCHANGED eventVars

\* A token is there: take it.
OSSemPend_Take(e) ==
  /\ InTask("OSSemPend") /\ pevent[OSTCBCur] = e
  /\ OSEventCnt[e] > 0
  /\ OSEventCnt' = [OSEventCnt EXCEPT ![e] = @ - 1]
  /\ Returns(FALSE)
  /\ KernelUnchanged
  /\ UNCHANGED eventVars

\* No token: wait for one, at most timeout ticks unless timeout is 0.
OSSemPend_Block(e, timeout) ==
  /\ InTask("OSSemPend") /\ pevent[OSTCBCur] = e
  /\ OSEventCnt[e] = 0
  /\ OSTCBStat' = [OSTCBStat EXCEPT ![OSTCBCur] = @ \cup {"SEM"}]
  /\ OSTCBStatPend' = [OSTCBStatPend EXCEPT ![OSTCBCur] = "OK"]
  /\ OSTCBDly' = [OSTCBDly EXCEPT ![OSTCBCur] = timeout]
  /\ OS_EventTaskWait(e)
  /\ GoTo("OSPend_Sched", e)
  /\ SwitchUnchanged
  /\ UNCHANGED <<OSTCBPrio, OSEventType, OSEventFreeList, OSEventCnt>>

\* The task runs again: OSTCBStatPend tells the caller the outcome.
OSSemPend_Tail == OSPend_Tail /\ UNCHANGED OSEventCnt

\* Mutant: any waiter is served.
Readied_Any(e, all) == {{p} : p \in OSEventWait[e]}

\* The waiters a call readies: the highest-priority one, or all of them.
Readied(e, all) ==
  IF all
    THEN {OSEventWait[e]}
    ELSE {{p} : p \in {q \in OSEventWait[e] : IsHighest(q, OSEventWait[e])}}

\* With a waiter the token goes to it and the count stays 0.
OSSemPost(e) ==
  /\ AtSection("OSSemPost", e)
  /\ IF OSEventWait[e] # {}
       THEN /\ \E W \in Readied(e, FALSE) : OS_EventTaskRdy(e, W, "SEM", "OK")
            /\ Returns(TRUE)
            /\ UNCHANGED OSEventCnt
       ELSE /\ OSEventCnt' = [OSEventCnt EXCEPT ![e] = IF @ < MaxCnt THEN @ + 1 ELSE @]
            /\ Returns(FALSE)
            /\ UNCHANGED <<tcbVars, OSEventWait, OSRdy>>
  /\ SwitchUnchanged
  /\ UNCHANGED <<OSEventType, OSEventFreeList>>

\* all is OS_PEND_OPT_BROADCAST.
OSSemPendAbort(e, all) ==
  /\ AtSection("OSSemPendAbort", e)
  /\ IF OSEventWait[e] # {}
       THEN /\ \E W \in Readied(e, all) : OS_EventTaskRdy(e, W, "SEM", "ABORT")
            /\ Returns(TRUE)
       ELSE /\ Returns(FALSE)
            /\ UNCHANGED <<tcbVars, OSEventWait, OSRdy>>
  /\ SwitchUnchanged
  /\ UNCHANGED <<OSEventType, OSEventFreeList, OSEventCnt>>

OSSemSet(e, cnt) ==
  /\ AtSection("OSSemSet", e)
  /\ OSEventCnt' = [OSEventCnt EXCEPT
                      ![e] = IF @ > 0 \/ OSEventWait[e] = {} THEN cnt ELSE @]
  /\ Returns(FALSE)
  /\ KernelUnchanged
  /\ UNCHANGED eventVars

\* always is OS_DEL_ALWAYS; OS_DEL_NO_PEND refuses if a task is waiting.
OSSemDel(e, always) ==
  /\ InTask("OSSemDel") /\ pevent[OSTCBCur] = e
  /\ IF OSEventWait[e] = {} \/ always
       THEN /\ OS_EventTaskRdy(e, OSEventWait[e], "SEM", "ABORT")
            /\ OSEventType' = [OSEventType EXCEPT ![e] = "UNUSED"]
            /\ OSEventPtr' = [OSEventPtr EXCEPT ![e] = OSEventFreeList]
            /\ OSEventFreeList' = e
            /\ OSEventCnt' = [OSEventCnt EXCEPT ![e] = 0]
            /\ Returns(OSEventWait[e] # {})
       ELSE /\ Returns(FALSE)
            /\ UNCHANGED <<tcbVars, eventVars, OSRdy, OSEventCnt>>
  /\ UNCHANGED <<OSTCBPrioTbl, switchVars, nestVars, tickVars>>

\* Mutant: the control block stays on the free list.
OSSemCreate_Kept ==
  /\ TaskCall("OSSemCreate")
  /\ OSEventFreeList # Null
  /\ GoTo("OSSemCreate", OSEventFreeList)
  /\ KernelUnchanged
  /\ UNCHANGED <<eventVars, OSEventCnt>>

\* Take a control block off the free list; what follows is outside the
\* critical section: the fields, then the wait list.
OSSemCreate ==
  /\ TaskCall("OSSemCreate")
  /\ OSEventFreeList # Null
  /\ OSEventFreeList' = OSEventPtr[OSEventFreeList]
  /\ GoTo("OSSemCreate", OSEventFreeList)
  /\ KernelUnchanged
  /\ UNCHANGED <<OSEventType, OSEventWait, OSEventPtr, OSEventCnt>>

OSSemCreate_Fields(cnt) ==
  LET e == pevent[OSTCBCur]
  IN  /\ InTask("OSSemCreate")
      /\ OSEventType' = [OSEventType EXCEPT ![e] = "SEM"]
      /\ OSEventCnt' = [OSEventCnt EXCEPT ![e] = cnt]
      /\ OSEventPtr' = [OSEventPtr EXCEPT ![e] = Null]
      /\ GoTo("OS_EventWaitListInit", e)
      /\ KernelUnchanged
      /\ UNCHANGED <<OSEventWait, OSEventFreeList>>

OS_EventWaitListInit ==
  /\ InTask("OS_EventWaitListInit")
  /\ OSEventWait' = [OSEventWait EXCEPT ![pevent[OSTCBCur]] = {}]
  /\ Returns(FALSE)
  /\ KernelUnchanged
  /\ UNCHANGED <<OSEventType, OSEventPtr, OSEventFreeList, OSEventCnt>>

-----------------------------------------------------------------------------

SemServices ==
  {"OSSemPend", "OSSemPost", "OSSemAccept", "OSSemPendAbort", "OSSemSet", "OSSemDel"}

SemNext ==
  \/ \E service \in SemServices, e \in Event : OSSem_Enter(service, e)
  \/ \E e \in Event : OSSemAccept(e)
  \/ \E e \in Event : OSSemPend_Take(e)
  \/ \E e \in Event, timeout \in 0 .. MaxDly : OSSemPend_Block(e, timeout)
  \/ OSSemPend_Tail
  \/ \E e \in Event : OSSemPost(e)
  \/ \E e \in Event, all \in BOOLEAN : OSSemPendAbort(e, all)
  \/ \E e \in Event, cnt \in 0 .. MaxCnt : OSSemSet(e, cnt)
  \/ \E e \in Event, always \in BOOLEAN : OSSemDel(e, always)
  \/ OSSemCreate
  \/ \E cnt \in 0 .. MaxCnt : OSSemCreate_Fields(cnt)
  \/ OS_EventWaitListInit

\* The events that are semaphores when the system starts.
InitSem == {e \in Event : \A i \in 1 .. Len(InitFreeList) : InitFreeList[i] # e}

Init ==
  /\ CoreInit
  /\ OSEventType = [e \in Event |-> IF e \in InitSem THEN "SEM" ELSE "UNUSED"]
  /\ OSEventCnt = [e \in Event |-> IF e \in InitSem THEN InitCnt[e] ELSE 0]

Next ==
  \/ CoreNext /\ UNCHANGED OSEventCnt
  \/ TaskNext /\ UNCHANGED OSEventCnt
  \/ SemNext

Spec == Init /\ [][Next]_vars

-----------------------------------------------------------------------------
(* Properties.                                                             *)

\* Every variable has its type.
TypeOK == CoreTypeOK /\ OSEventCnt \in [Event -> 0 .. MaxCnt]

\* A task that pends on a semaphore is on the wait list of the event it waits
\* for: a post, an abort or a deletion can find it.
WaiterReachable ==
  \A t \in Task : "SEM" \in OSTCBStat[t] =>
    /\ OSTCBEventPtr[t] # Null
    /\ OSTCBPrio[t] \in OSEventWait[OSTCBEventPtr[t]]

\* Where task t stands with semaphore e, as the caller sees it: the mapping
\* of the state to the status of CountingSemaphore.
SemStatus(t, e) ==
  IF pevent[t] # e
    THEN "idle"
    ELSE CASE pc[t] = "OSSemPend" -> "asking"
           [] pc[t] = "OSSemPost" -> "posting"
           [] pc[t] \in {"OSPend_Sched", "OSPend_Tail"} -> PendOutcome(t)
           [] OTHER -> "idle"

\* The unused control blocks: what OSEventFreeList leads to.
FreeEvents ==
  {e \in Event : \A S \in SUBSET Event :
     /\ OSEventFreeList # Null => OSEventFreeList \in S
     /\ \A f \in S : OSEventPtr[f] # Null => OSEventPtr[f] \in S
     => e \in S}

\* If one task at a time deletes a semaphore, the free list is a chain that
\* ends, and holds no control block that is in use, being initialised or waited for.
FreeListSound ==
  /\ UnusedHasNoWaiter
  /\ FreeEvents # {} => \E e \in FreeEvents : OSEventPtr[e] = Null
  /\ \A e \in FreeEvents :
       /\ OSEventType[e] = "UNUSED"
       /\ \A t \in Task :
            pevent[t] = e => pc[t] \notin {"OSSemCreate", "OS_EventWaitListInit"}

-----------------------------------------------------------------------------
(* Liveness.                                                               *)

\* Interrupts leave time to the tasks: ticks keep coming, every ISR ends, a
\* pending context switch is made and the running task moves on.
Fairness ==
  /\ WF_vars(OSIntEnter /\ UNCHANGED OSEventCnt)
  /\ SF_vars(OSIntExit /\ UNCHANGED OSEventCnt)
  /\ SF_vars(OSTimeTick /\ UNCHANGED OSEventCnt)
  /\ SF_vars(OSTimeTick_Step /\ UNCHANGED OSEventCnt)
  /\ SF_vars(PendSV_Handler /\ UNCHANGED OSEventCnt)
  /\ SF_vars(OS_Sched /\ UNCHANGED OSEventCnt)
  /\ SF_vars(OSSemPend_Tail)

FairSpec == Spec /\ Fairness

\* A pend with a timeout becomes ready again, whatever becomes of the
\* semaphore; only a suspension can keep it waiting.
TimedPendEnds ==
  \A t \in Task :
    OSTCBDly[t] > 0 ~> OSTCBPrio[t] \in OSRdy \/ "SUSPEND" \in OSTCBStat[t]

\* The highest-priority task returns from a pend with a timeout, unless it is
\* suspended.
TopReturns ==
  \A t \in Task :
    (\A u \in Task : InitPrio[t] <= InitPrio[u]) =>
      (pc[t] = "OSPend_Sched" /\ OSTCBDly[t] > 0
         ~> pc[t] = "app" \/ "SUSPEND" \in OSTCBStat[t])
=============================================================================
