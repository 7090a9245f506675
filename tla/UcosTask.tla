------------------------------ MODULE UcosTask ------------------------------
(***************************************************************************)
(* The services that act on tasks: delays (uC-OS2/Source/os_time.c) and     *)
(* suspension, resumption and change of priority (os_task.c).               *)
(*                                                                         *)
(* Each of them is one critical section followed, where the code does so,   *)
(* by OS_Sched.  They name a task by its priority.  A call that the code    *)
(* refuses changes nothing and is not an action.                            *)
(*                                                                         *)
(* As in UcosCore, a mutant is the definition that follows it with a bug.   *)
(***************************************************************************)
EXTENDS UcosCore

\* A service that an ISR may call as well as a task.
Call(service) == TaskCall(service) \/ IsrCall(service)

\* The priorities a service accepts that excludes the idle task, and for
\* which OSTCBPrioTbl has a task.
NamesTask(prio) == prio \in 0 .. OS_LOWEST_PRIO - 1 /\ OSTCBPrioTbl[prio] \in Task

\* Mutant: a priority in use is accepted.
FreePrio_Unchecked(prio) == prio \in 0 .. OS_LOWEST_PRIO - 1

\* A new priority must not belong to any task.
FreePrio(prio) == prio \in 0 .. OS_LOWEST_PRIO - 1 /\ OSTCBPrioTbl[prio] = Null

\* Tasks only: refused in an ISR and while the scheduler is locked.
OSTimeDly(ticks) ==
  /\ TaskCall("OSTimeDly")
  /\ OSLockNesting = 0
  /\ ticks > 0
  /\ OSRdy' = OSRdy \ {OSTCBPrio[OSTCBCur]}
  /\ OSTCBDly' = [OSTCBDly EXCEPT ![OSTCBCur] = ticks]
  /\ Returns(TRUE)
  /\ UNCHANGED <<OSTCBPrio, OSTCBStat, OSTCBStatPend, OSTCBEventPtr, OSTCBPrioTbl,
                 eventVars, switchVars, nestVars, tickVars>>

\* End the delay of a task, or the timeout of the pend it is in.
OSTimeDlyResume(prio) ==
  /\ Call("OSTimeDlyResume")
  /\ NamesTask(prio)
  /\ LET t == OSTCBPrioTbl[prio]
     IN  /\ OSTCBDly[t] # 0
         /\ DlyEnds(t)
         /\ Returns("SUSPEND" \notin OSTCBStat[t])
  /\ UNCHANGED <<OSTCBPrioTbl, eventVars, switchVars, nestVars, tickVars>>

\* Suspension is added to whatever the task waits for.  Only a task that
\* suspends itself calls OS_Sched.
OSTaskSuspend(prio) ==
  /\ Call("OSTaskSuspend")
  /\ NamesTask(prio)
  /\ LET t == OSTCBPrioTbl[prio]
     IN  /\ OSRdy' = OSRdy \ {OSTCBPrio[t]}
         /\ OSTCBStat' = [OSTCBStat EXCEPT ![t] = @ \cup {"SUSPEND"}]
  /\ Returns(prio = OSTCBPrio[OSTCBCur])
  /\ UNCHANGED <<OSTCBPrio, OSTCBStatPend, OSTCBDly, OSTCBEventPtr, OSTCBPrioTbl,
                 eventVars, switchVars, nestVars, tickVars>>

\* A resumed task becomes ready if it neither pends nor delays.
OSTaskResume(prio) ==
  /\ Call("OSTaskResume")
  /\ NamesTask(prio)
  /\ LET t == OSTCBPrioTbl[prio]
         freed == OSTCBStat[t] \cap OS_STAT_PEND_ANY = {} /\ OSTCBDly[t] = 0
     IN  /\ "SUSPEND" \in OSTCBStat[t]
         /\ OSTCBStat' = [OSTCBStat EXCEPT ![t] = @ \ {"SUSPEND"}]
         /\ OSRdy' = IF freed THEN OSRdy \cup {OSTCBPrio[t]} ELSE OSRdy
         /\ Returns(freed)
  /\ UNCHANGED <<OSTCBPrio, OSTCBStatPend, OSTCBDly, OSTCBEventPtr, OSTCBPrioTbl,
                 eventVars, switchVars, nestVars, tickVars>>

\* Mutant: the task is taken off the wait list and not put back.
WaitListMoved_Lost(t, newprio) ==
  LET e == OSTCBEventPtr[t]
  IN  IF e = Null
        THEN OSEventWait
        ELSE [OSEventWait EXCEPT ![e] = @ \ {OSTCBPrio[t]}]

\* The wait lists when t takes a new priority: it stays on the list of the
\* event it waits for.
WaitListMoved(t, newprio) ==
  LET e == OSTCBEventPtr[t]
  IN  IF e = Null
        THEN OSEventWait
        ELSE [OSEventWait EXCEPT ![e] = (@ \ {OSTCBPrio[t]}) \cup {newprio}]

\* The task moves to a free priority, in the ready list and in the wait list
\* of the event it waits for.  OSPrioCur is left to the next context switch.
OSTaskChangePrio(oldprio, newprio) ==
  /\ Call("OSTaskChangePrio")
  /\ NamesTask(oldprio)
  /\ FreePrio(newprio)
  /\ LET t == OSTCBPrioTbl[oldprio]
         old == OSTCBPrio[t]
     IN  /\ OSTCBPrioTbl' = [OSTCBPrioTbl EXCEPT ![oldprio] = Null, ![newprio] = t]
         /\ OSRdy' = IF old \in OSRdy THEN (OSRdy \ {old}) \cup {newprio} ELSE OSRdy
         /\ OSEventWait' = WaitListMoved(t, newprio)
         /\ OSTCBPrio' = [OSTCBPrio EXCEPT ![t] = newprio]
  /\ Returns(TRUE)
  /\ UNCHANGED <<OSTCBStat, OSTCBStatPend, OSTCBDly, OSTCBEventPtr, OSEventType,
                 OSEventPtr, OSEventFreeList, switchVars, nestVars, tickVars>>

\* The services that name another task.
TaskControl ==
  \/ \E prio \in Prio : OSTimeDlyResume(prio)
  \/ \E prio \in Prio : OSTaskSuspend(prio)
  \/ \E prio \in Prio : OSTaskResume(prio)
  \/ \E oldprio, newprio \in Prio : OSTaskChangePrio(oldprio, newprio)

TaskNext ==
  \/ \E ticks \in 1 .. MaxDly : OSTimeDly(ticks)
  \/ TaskControl
=============================================================================
