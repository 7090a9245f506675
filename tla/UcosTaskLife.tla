---------------------------- MODULE UcosTaskLife ----------------------------
(***************************************************************************)
(* Creation and deletion of tasks (OSTaskCreate and OSTaskDel of            *)
(* uC-OS2/Source/os_task.c, OS_TCBInit of os_core.c), with the chain of      *)
(* OS_TCBs that OSTimeTick walks and the chain of free ones.                 *)
(*                                                                         *)
(* Task is the set of OS_TCBs.  All of them are in use at the start, so that *)
(* a task is created in an OS_TCB that a deleted one has left.  Both calls   *)
(* are several critical sections, between which interrupts arrive and, in    *)
(* OSTaskCreate, tasks of higher priority run.  OSTaskCreateExt differs in   *)
(* the stack options only.                                                  *)
(*                                                                         *)
(* The module that adds the objects tasks wait for completes OSTaskDel with  *)
(* the wait the deleted task is taken from.                                  *)
(*                                                                         *)
(* As in UcosCore, a mutant is the definition that follows it with a bug.   *)
(***************************************************************************)
EXTENDS UcosTask

CONSTANTS
  OS_TCB_RESERVED, \* in OSTCBPrioTbl: taken, but not by a task
  WholeTasks       \* no call names a task whose creation has not ended, and
                   \* none deletes a task that is creating another

ASSUME LifeAssumption == OS_TCB_RESERVED \notin Task \cup {Null} /\ WholeTasks \in BOOLEAN

VARIABLES
  OSTCBNext,     \* per OS_TCB: the next one of its chain, or Null
  OSTCBPrev,     \* per OS_TCB: the one before it in the chain of tasks
  OSTCBFirst,    \* the variable OSTCBList: the first of that chain
  OSTCBFreeList, \* the first free OS_TCB, or Null
  OSTaskCtr      \* the number of tasks

chainVars == <<OSTCBNext, OSTCBPrev, OSTCBFirst, OSTCBFreeList, OSTaskCtr>>

-----------------------------------------------------------------------------
(* Creation.                                                               *)

CreatePlaces == {"OS_TCBInit", "OS_TCBInit_Table", "OS_TCBInit_Link", "OSTaskCreate_Fail"}

\* The tasks that are being created but not yet in the chain.
Unlinked == {pevent[t] : t \in {u \in Task : pc[u] \in {"OS_TCBInit_Table", "OS_TCBInit_Link"}}}

\* Mutant: the priority is not reserved.
OSTaskCreate_Unreserved(prio) ==
  /\ TaskCall("OSTaskCreate")
  /\ OSTCBPrioTbl[prio] = Null
  /\ GoTo("OS_TCBInit", prio)
  /\ UNCHANGED <<tcbVars, eventVars, readyVars, switchVars, nestVars, tickVars, chainVars>>

\* Reserve the priority; the stack is initialised with interrupts enabled.
OSTaskCreate(prio) ==
  /\ TaskCall("OSTaskCreate")
  /\ OSTCBPrioTbl[prio] = Null
  /\ OSTCBPrioTbl' = [OSTCBPrioTbl EXCEPT ![prio] = OS_TCB_RESERVED]
  /\ GoTo("OS_TCBInit", prio)
  /\ UNCHANGED <<tcbVars, eventVars, OSRdy, switchVars, nestVars, tickVars, chainVars>>

\* Take an OS_TCB and fill it.  Only the caller knows it, so that the interrupts
\* between the assignments make no difference.
OS_TCBInit ==
  LET prio == pevent[OSTCBCur]
      t == OSTCBFreeList
  IN  /\ InTask("OS_TCBInit")
      /\ IF t = Null
           THEN GoTo("OSTaskCreate_Fail", prio) /\ UNCHANGED <<tcbVars, OSTCBFreeList>>
           ELSE /\ GoTo("OS_TCBInit_Table", t)
                /\ OSTCBFreeList' = OSTCBNext[t]
                /\ OSTCBPrio' = [OSTCBPrio EXCEPT ![t] = prio]
                /\ OSTCBStat' = [OSTCBStat EXCEPT ![t] = {}]
                /\ OSTCBStatPend' = [OSTCBStatPend EXCEPT ![t] = "OK"]
                /\ OSTCBDly' = [OSTCBDly EXCEPT ![t] = 0]
                /\ OSTCBEventPtr' = [OSTCBEventPtr EXCEPT ![t] = Null]
      /\ UNCHANGED <<eventVars, readyVars, switchVars, nestVars, tickVars, OSTCBNext,
                     OSTCBPrev, OSTCBFirst, OSTaskCtr>>

\* OSTCBPrioTbl names the new task before it is in the chain.
OS_TCBInit_Table ==
  LET t == pevent[OSTCBCur]
  IN  /\ InTask("OS_TCBInit_Table")
      /\ OSTCBPrioTbl' = [OSTCBPrioTbl EXCEPT ![OSTCBPrio[t]] = t]
      /\ GoTo("OS_TCBInit_Link", t)
      /\ UNCHANGED <<tcbVars, eventVars, OSRdy, switchVars, nestVars, tickVars, chainVars>>

\* Mutant: the task that was first keeps its OSTCBPrev.
OS_TCBInit_Link_NoPrev ==
  LET t == pevent[OSTCBCur]
  IN  /\ InTask("OS_TCBInit_Link")
      /\ OSTCBNext' = [OSTCBNext EXCEPT ![t] = OSTCBFirst]
      /\ OSTCBPrev' = [OSTCBPrev EXCEPT ![t] = Null]
      /\ OSTCBFirst' = t
      /\ OSRdy' = OSRdy \cup {OSTCBPrio[t]}
      /\ OSTaskCtr' = OSTaskCtr + 1
      /\ Returns(TRUE)
      /\ UNCHANGED <<tcbVars, eventVars, OSTCBPrioTbl, switchVars, nestVars, tickVars,
                     OSTCBFreeList>>

\* Link it in front of the chain and make it ready.
OS_TCBInit_Link ==
  LET t == pevent[OSTCBCur]
  IN  /\ InTask("OS_TCBInit_Link")
      /\ OSTCBNext' = [OSTCBNext EXCEPT ![t] = OSTCBFirst]
      /\ OSTCBPrev' = [OSTCBPrev EXCEPT ![t] = Null, ![OSTCBFirst] = t]
      /\ OSTCBFirst' = t
      /\ OSRdy' = OSRdy \cup {OSTCBPrio[t]}
      /\ OSTaskCtr' = OSTaskCtr + 1
      /\ Returns(TRUE)
      /\ UNCHANGED <<tcbVars, eventVars, OSTCBPrioTbl, switchVars, nestVars, tickVars,
                     OSTCBFreeList>>

\* There was no OS_TCB: the priority is given back.
OSTaskCreate_Fail ==
  /\ InTask("OSTaskCreate_Fail")
  /\ OSTCBPrioTbl' = [OSTCBPrioTbl EXCEPT ![pevent[OSTCBCur]] = Null]
  /\ Returns(FALSE)
  /\ UNCHANGED <<tcbVars, eventVars, OSRdy, switchVars, nestVars, tickVars, chainVars>>

-----------------------------------------------------------------------------
(* Deletion.                                                               *)

\* The calls applications make with this priority.
NamesWhole(prio) == WholeTasks => OSTCBPrioTbl[prio] \notin Unlinked

\* Mutant: a ready task stays on the ready list.
OSTaskDel_Begin_ReadyKept(prio) ==
  LET t == OSTCBPrioTbl[prio]
  IN  /\ TaskCall("OSTaskDel")
      /\ NamesTask(prio) /\ NamesWhole(prio) /\ (WholeTasks => pc[t] \notin CreatePlaces)
      /\ OSTCBDly' = [OSTCBDly EXCEPT ![t] = 0]
      /\ OSTCBStat' = [OSTCBStat EXCEPT ![t] = {}]
      /\ OSTCBStatPend' = [OSTCBStatPend EXCEPT ![t] = "OK"]
      /\ OSLockNesting' = OSLockNesting + 1
      /\ GoTo("OSTaskDel_End", <<prio, t>>)
      /\ UNCHANGED <<OSTCBPrio, OSTCBEventPtr, readyVars, eventVars, switchVars, OSIntNesting,
                     tickVars, chainVars>>

\* The first half: the task waits for nothing any more and is not ready, and
\* the scheduler is locked.  Its wait list is for the caller to update.
OSTaskDel_Begin(prio) ==
  LET t == OSTCBPrioTbl[prio]
  IN  /\ TaskCall("OSTaskDel")
      /\ NamesTask(prio) /\ NamesWhole(prio) /\ (WholeTasks => pc[t] \notin CreatePlaces)
      /\ OSRdy' = OSRdy \ {OSTCBPrio[t]}
      /\ OSTCBDly' = [OSTCBDly EXCEPT ![t] = 0]
      /\ OSTCBStat' = [OSTCBStat EXCEPT ![t] = {}]
      /\ OSTCBStatPend' = [OSTCBStatPend EXCEPT ![t] = "OK"]
      /\ OSLockNesting' = OSLockNesting + 1
      /\ GoTo("OSTaskDel_End", <<prio, t>>)
      /\ UNCHANGED <<OSTCBPrio, OSTCBEventPtr, OSTCBPrioTbl, eventVars, switchVars,
                     OSIntNesting, tickVars, chainVars>>

\* OSTCBNext and OSTCBPrev without t.  The idle task is always behind t.
TcbUnlinked(t) ==
  LET next == OSTCBNext[t]
      prev == OSTCBPrev[t]
  IN  IF prev = Null
        THEN /\ OSTCBPrev' = [u \in Task |-> IF u = next THEN Null ELSE OSTCBPrev[u]]
             /\ OSTCBFirst' = next
             /\ OSTCBNext' = [OSTCBNext EXCEPT ![t] = OSTCBFreeList]
        ELSE /\ OSTCBNext' = [OSTCBNext EXCEPT ![prev] = next, ![t] = OSTCBFreeList]
             /\ OSTCBPrev' = [u \in Task |-> IF u = next THEN prev ELSE OSTCBPrev[u]]
             /\ UNCHANGED OSTCBFirst

\* The second half, when interrupts have been enabled for an instant: the OS_TCB
\* leaves the chain and is free.  What the task was doing is abandoned.
OSTaskDel_End ==
  LET prio == pevent[OSTCBCur][1]
      t == pevent[OSTCBCur][2]
  IN  /\ InTask("OSTaskDel_End")
      /\ OSLockNesting' = OSLockNesting - 1
      /\ OSTaskCtr' = OSTaskCtr - 1
      /\ OSTCBPrioTbl' = [OSTCBPrioTbl EXCEPT ![prio] = Null]
      /\ TcbUnlinked(t)
      /\ OSTCBFreeList' = t
      /\ pc' = [pc EXCEPT ![t] = "app", ![OSTCBCur] = "OS_Sched"]
      /\ pevent' = [pevent EXCEPT ![t] = Null, ![OSTCBCur] = Null]
      /\ UNCHANGED <<tcbVars, eventVars, OSRdy, switchVars, OSIntNesting, tickVars>>

-----------------------------------------------------------------------------
(* The tick, on the chain.                                                 *)

OSTimeTick_Chain ==
  /\ OSIntNesting > 0
  /\ tickNest = 0
  /\ OSTCBFirst # Idle
  /\ ptcb' = OSTCBFirst
  /\ tickNest' = OSIntNesting
  /\ UNCHANGED <<tcbVars, eventVars, readyVars, switchVars, nestVars, flowVars, chainVars>>

\* One task; the walk ends at the idle task.
OSTimeTick_ChainStep ==
  LET t == ptcb
  IN  /\ tickNest > 0
      /\ OSIntNesting = tickNest
      /\ ptcb' = OSTCBNext[t]
      /\ tickNest' = IF ptcb' = Idle THEN 0 ELSE tickNest
      /\ IF OSTCBDly[t] = 1
           THEN DlyEnds(t)
           ELSE /\ OSTCBDly' = [OSTCBDly EXCEPT ![t] = IF @ = 0 THEN 0 ELSE @ - 1]
                /\ UNCHANGED <<OSTCBPrio, OSTCBStat, OSTCBStatPend, OSTCBEventPtr, OSRdy>>
      /\ UNCHANGED <<eventVars, OSTCBPrioTbl, switchVars, nestVars, flowVars, chainVars>>

-----------------------------------------------------------------------------

\* The tasks that main created, the idle task first, and with it last in the chain.
LifeInit ==
  LET chain == Append(OSTCBList, Idle)
  IN  /\ OSTCBPrioTbl = CreatedTasks
      /\ StartedInit
      /\ OSTCBNext = [t \in Task |->
           IF t = Idle THEN Null
           ELSE chain[1 + CHOOSE i \in 1 .. Len(OSTCBList) : chain[i] = t]]
      /\ OSTCBPrev = [t \in Task |->
           IF t = chain[1] THEN Null
           ELSE chain[CHOOSE i \in 1 .. Len(OSTCBList) : chain[i + 1] = t]]
      /\ OSTCBFirst = chain[1]
      /\ OSTCBFreeList = Null
      /\ OSTaskCtr = Len(chain)

\* The kernel and the services of UcosTask, but for changes of priority.
LifeCoreNext ==
  \/ /\ \/ OS_Sched \/ PendSV_Handler \/ OSSchedLock \/ OSSchedUnlock
        \/ OSIntEnter \/ OSIntExit
        \/ \E ticks \in 1 .. MaxDly : OSTimeDly(ticks)
        \/ \E prio \in Prio :
             /\ NamesWhole(prio)
             /\ OSTimeDlyResume(prio) \/ OSTaskSuspend(prio) \/ OSTaskResume(prio)
     /\ UNCHANGED chainVars
  \/ OSTimeTick_Chain
  \/ OSTimeTick_ChainStep

-----------------------------------------------------------------------------
(* Properties.                                                             *)

\* The OS_TCBs that OSTCBNext leads to from first, also if it leads in a circle.
Chain(first) ==
  LET from[t \in Task \cup {Null}, n \in 0 .. Cardinality(Task)] ==
        IF t = Null \/ n = 0 THEN {} ELSE {t} \cup from[OSTCBNext[t], n - 1]
  IN  from[first, Cardinality(Task)]

\* The two chains never run into each other, no OS_TCB is in both or, but while
\* it is being created, in neither; the chain of tasks can be walked both ways,
\* ends at the idle task, and OSTaskCtr counts it: OSTaskCreate and OSTaskDel of
\* several tasks in any order, creations interrupted by others, keep them so.
TcbsPartitioned ==
  LET tasks == Chain(OSTCBFirst)
      free  == Chain(OSTCBFreeList)
  IN  /\ tasks \cap free = {} /\ tasks \cap Unlinked = {} /\ free \cap Unlinked = {}
      /\ tasks \cup free \cup Unlinked = Task
      /\ Idle \in tasks /\ OSTCBNext[Idle] = Null /\ OSTCBPrev[OSTCBFirst] = Null
      /\ \A t, u \in tasks : OSTCBNext[t] = u <=> OSTCBPrev[u] = t
      /\ OSTaskCtr = Cardinality(tasks)

\* The deletion in progress, if any, of a task off the ready list.
BeingDeleted == {pevent[t][2] : t \in {u \in Task : pc[u] = "OSTaskDel_End"}}

\* Every task has the entry of its priority, no free OS_TCB has one, and every
\* reserved priority is some task's that is still creating: priorities are neither
\* lost nor shared, although OSTaskCreate fails or is interrupted half way.
PrioritiesSound ==
  LET free == Chain(OSTCBFreeList)
  IN  /\ \A t \in Chain(OSTCBFirst) : OSTCBPrioTbl[OSTCBPrio[t]] = t
      /\ \A p \in Prio :
           /\ OSTCBPrioTbl[p] \in Task =>
                OSTCBPrio[OSTCBPrioTbl[p]] = p /\ OSTCBPrioTbl[p] \notin free
           /\ OSTCBPrioTbl[p] = OS_TCB_RESERVED =>
                \E t \in Task :
                  \/ pc[t] \in {"OS_TCBInit", "OSTaskCreate_Fail"} /\ pevent[t] = p
                  \/ pc[t] = "OS_TCBInit_Table" /\ OSTCBPrio[pevent[t]] = p

\* The ready list holds exactly the tasks in the chain that nothing keeps off it:
\* no task is ready that does not exist yet or any more, and the scheduler never
\* finds an empty entry of OSTCBPrioTbl.
ReadyExist ==
  OSRdy = {OSTCBPrio[t] : t \in {u \in Chain(OSTCBFirst) \ BeingDeleted : IsReady(u)}}
=============================================================================
