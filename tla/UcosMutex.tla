----------------------------- MODULE UcosMutex ------------------------------
(***************************************************************************)
(* Mutual exclusion semaphores (uC-OS2/Source/os_mutex.c) on the kernel of   *)
(* UcosCore: while a task of higher priority waits for a mutex, its owner   *)
(* runs at the ceiling priority of the mutex.  That priority belongs to no  *)
(* task; its entry of OSTCBPrioTbl is OS_TCB_RESERVED, or the raised owner, *)
(* which then has two entries.                                              *)
(*                                                                         *)
(* Only tasks call these services.  Each reads OSEventType with interrupts  *)
(* enabled and then enters its critical section; the two are one step here, *)
(* because a mutex is taken to be deleted only while no call stands between *)
(* them (UcosSem has that race).  In the same way OSMutexCreate initialises *)
(* a control block no other task can name yet, and is one step.  A call     *)
(* that the code refuses changes nothing and is not an action.              *)
(*                                                                         *)
(* As in UcosCore, a mutant is the definition that follows it with a bug.   *)
(***************************************************************************)
EXTENDS UcosTask

CONSTANTS
  OS_TCB_RESERVED,        \* the entry of OSTCBPrioTbl of a ceiling priority
  OS_PRIO_MUTEX_CEIL_DIS, \* the ceiling of a mutex without one
  OS_MUTEX_AVAILABLE,     \* the owner priority of a mutex that is free
  InitPCP,       \* the ceilings of the mutexes created before OSStart
  NewPCP,        \* the ceilings the application gives to new mutexes
  OwnersDelay    \* whether an owner may call OSTimeDly

ASSUME MutexAssumption ==
  /\ OS_TCB_RESERVED \notin Task \cup {Null}
  /\ OS_PRIO_MUTEX_CEIL_DIS \notin Prio
  /\ OS_MUTEX_AVAILABLE \notin Prio
  /\ InitPCP \in [Event -> Prio \cup {OS_PRIO_MUTEX_CEIL_DIS}]
  /\ NewPCP \subseteq Prio \cup {OS_PRIO_MUTEX_CEIL_DIS}
  /\ OwnersDelay \in BOOLEAN

VARIABLES
  OSMutexPCP,    \* per event: the upper 8 bits of OSEventCnt
  OSOwnerPrio    \* per event: the lower 8, the priority its owner took it at

mutexVars == <<OSMutexPCP, OSOwnerPrio>>
vars == <<coreVars, mutexVars>>

-----------------------------------------------------------------------------

\* The running task calls the service for a mutex.
MutexCall(service, e) == TaskCall(service) /\ OSEventType[e] = "MUTEX"

\* OSEventPtr points to the owner of a mutex.
Owns(t, e) == OSEventType[e] = "MUTEX" /\ OSEventPtr[e] = t

\* "The task that owns the Mutex MUST NOT pend on any other event while it
\* owns the mutex" (OSMutexPend): what the application must see to.
MayPend == \A e \in Event : ~Owns(OSTCBCur, e)

\* The running task becomes the owner of a free mutex.
OSMutex_Take(e) ==
  /\ OSOwnerPrio[e] = OS_MUTEX_AVAILABLE
  /\ OSOwnerPrio' = [OSOwnerPrio EXCEPT ![e] = OSTCBPrio[OSTCBCur]]
  /\ OSEventPtr' = [OSEventPtr EXCEPT ![e] = OSTCBCur]
  /\ Returns(FALSE)
  /\ UNCHANGED <<tcbVars, readyVars, switchVars, nestVars, tickVars, OSEventType,
                 OSEventWait, OSEventFreeList, OSMutexPCP>>

OSMutexAccept(e) == MutexCall("OSMutexAccept", e) /\ OSMutex_Take(e)

OSMutexPend_Take(e) ==
  /\ MutexCall("OSMutexPend", e)
  /\ OSLockNesting = 0
  /\ MayPend
  /\ OSMutex_Take(e)

\* Mutant: the owner keeps its priority.
Promotes_Never(e) == FALSE

\* Mutant: the priorities are compared the wrong way round.
Promotes_Lower(e) ==
  /\ OSMutexPCP[e] # OS_PRIO_MUTEX_CEIL_DIS
  /\ OSTCBPrio[OSEventPtr[e]] > OSMutexPCP[e]
  /\ OSOwnerPrio[e] < OSTCBPrio[OSTCBCur]

\* The owner has to be raised to the ceiling for the running task to wait.
Promotes(e) ==
  /\ OSMutexPCP[e] # OS_PRIO_MUTEX_CEIL_DIS
  /\ OSTCBPrio[OSEventPtr[e]] > OSMutexPCP[e]
  /\ OSOwnerPrio[e] > OSTCBPrio[OSTCBCur]

\* Mutant: the ready list keeps the old priority.
PromotedRdy_Stale(o, pcp) == OSRdy

\* The ready list when the owner o is raised to pcp.
PromotedRdy(o, pcp) ==
  IF OSTCBPrio[o] \in OSRdy THEN (OSRdy \ {OSTCBPrio[o]}) \cup {pcp} ELSE OSRdy

\* The wait lists then: only an owner that is not ready is looked for there.
PromotedWait(o, pcp) ==
  IF OSTCBPrio[o] \in OSRdy THEN OSEventWait ELSE WaitListMoved(o, pcp)

\* The mutex has an owner: raise it if need be and wait.
OSMutexPend_Block(e, timeout) ==
  LET t == OSTCBCur
      o == OSEventPtr[e]
      pcp == OSMutexPCP[e]
  IN  /\ MutexCall("OSMutexPend", e)
      /\ OSLockNesting = 0
      /\ MayPend
      /\ OSOwnerPrio[e] # OS_MUTEX_AVAILABLE
      /\ \/ /\ Promotes(e)
            /\ OSRdy' = PromotedRdy(o, pcp) \ {OSTCBPrio[t]}
            /\ OSEventWait' = [PromotedWait(o, pcp) EXCEPT ![e] = @ \cup {OSTCBPrio[t]}]
            /\ OSTCBPrio' = [OSTCBPrio EXCEPT ![o] = pcp]
            /\ OSTCBPrioTbl' = [OSTCBPrioTbl EXCEPT ![pcp] = o]
         \/ /\ ~Promotes(e)
            /\ OSRdy' = OSRdy \ {OSTCBPrio[t]}
            /\ OSEventWait' = [OSEventWait EXCEPT ![e] = @ \cup {OSTCBPrio[t]}]
            /\ UNCHANGED <<OSTCBPrio, OSTCBPrioTbl>>
      /\ OSTCBStat' = [OSTCBStat EXCEPT ![t] = @ \cup {"MUTEX"}]
      /\ OSTCBStatPend' = [OSTCBStatPend EXCEPT ![t] = "OK"]
      /\ OSTCBDly' = [OSTCBDly EXCEPT ![t] = timeout]
      /\ OSTCBEventPtr' = [OSTCBEventPtr EXCEPT ![t] = e]
      /\ GoTo("OSPend_Sched", e)
      /\ UNCHANGED <<OSEventType, OSEventPtr, OSEventFreeList, switchVars, nestVars,
                     tickVars, mutexVars>>

OSMutexPend_Tail == OSPend_Tail /\ UNCHANGED mutexVars

\* Mutant: the priority is not restored.
Raised_Never(e) == FALSE

\* The owner runs at the ceiling: its own priority has to be restored.
Raised(e) == OSTCBPrio[OSEventPtr[e]] = OSMutexPCP[e]

\* Mutant: the ceiling's entry stays as it is.
CeilingTbl_Kept(e, restore, entry) ==
  [p \in Prio |-> IF restore /\ p = OSOwnerPrio[e] THEN OSEventPtr[e] ELSE OSTCBPrioTbl[p]]

\* Mutant: a deletion leaves the ceiling reserved.
CeilingTbl_Reserved(e, restore, entry) ==
  [p \in Prio |-> IF p = OSMutexPCP[e] THEN OS_TCB_RESERVED ELSE OSTCBPrioTbl[p]]

\* The priority table when the owner of e is restored, if it has to be, and the
\* ceiling of e gets another entry.
CeilingTbl(e, restore, entry) ==
  [p \in Prio |-> IF p = OSMutexPCP[e] THEN entry
                  ELSE IF restore /\ p = OSOwnerPrio[e] THEN OSEventPtr[e]
                  ELSE OSTCBPrioTbl[p]]

\* The owner of e, if restore, is made ready at the priority it took e at; the
\* tasks of T become ready as well.
OSMutex_RdyAtPrio(e, restore, T) ==
  LET o == OSEventPtr[e]
      prio == OSOwnerPrio[e]
  IN  /\ OSRdy' = (IF restore THEN (OSRdy \ {OSTCBPrio[o]}) \cup {prio} ELSE OSRdy)
                    \cup ReadyPrios(T)
      /\ OSTCBPrio' = IF restore THEN [OSTCBPrio EXCEPT ![o] = prio] ELSE OSTCBPrio
      /\ OSPrioCur' = IF restore THEN prio ELSE OSPrioCur
      /\ UNCHANGED <<OSTCBCur, OSPrioHighRdy, OSTCBHighRdy, PendSV>>

\* Mutant: anybody may post.
MayPost_Anyone(e) == OSEventPtr[e] # Null

\* Only the owner may post.
MayPost(e) == Owns(OSTCBCur, e)

\* The waiter with that priority becomes the owner.
HandOver(e, prio) ==
  /\ OSOwnerPrio' = [OSOwnerPrio EXCEPT ![e] = prio]
  /\ OSEventPtr' = [OSEventPtr EXCEPT ![e] = OSTCBPrioTbl[prio]]

\* The mutex goes to the waiter of highest priority; without a waiter it is
\* free, and OS_Sched is not called.
OSMutexPost(e) ==
  LET W == {p \in OSEventWait[e] : IsHighest(p, OSEventWait[e])}
      T == {OSTCBPrioTbl[p] : p \in W}
  IN  /\ MutexCall("OSMutexPost", e)
      /\ MayPost(e)
      /\ OSTCBPrioTbl' = CeilingTbl(e, Raised(e), OS_TCB_RESERVED)
      /\ OSMutex_RdyAtPrio(e, Raised(e), T)
      /\ WaitEnds(e, T, "MUTEX", "OK")
      /\ \/ \E p \in W : HandOver(e, p)
         \/ /\ W = {}
            /\ OSOwnerPrio' = [OSOwnerPrio EXCEPT ![e] = OS_MUTEX_AVAILABLE]
            /\ OSEventPtr' = [OSEventPtr EXCEPT ![e] = Null]
      /\ Returns(W # {})
      /\ UNCHANGED <<OSEventType, OSEventFreeList, nestVars, tickVars, OSMutexPCP>>

\* The tasks on the wait list of e.
Waiters(e) == {OSTCBPrioTbl[p] : p \in OSEventWait[e]}

\* OS_DEL_NO_PEND refuses if a task is waiting, and leaves the owner as it is;
\* OS_DEL_ALWAYS (always) restores the owner and readies every waiter.
OSMutexDel(e, always) ==
  LET restore == always /\ OSEventPtr[e] # Null /\ Raised(e)
  IN  /\ MutexCall("OSMutexDel", e)
      /\ always \/ OSEventWait[e] = {}
      /\ OSTCBPrioTbl' = CeilingTbl(e, restore, Null)
      /\ OSMutex_RdyAtPrio(e, restore, Waiters(e))
      /\ WaitEnds(e, Waiters(e), "MUTEX", "ABORT")
      /\ OSEventType' = [OSEventType EXCEPT ![e] = "UNUSED"]
      /\ OSEventPtr' = [OSEventPtr EXCEPT ![e] = OSEventFreeList]
      /\ OSEventFreeList' = e
      /\ OSMutexPCP' = [OSMutexPCP EXCEPT ![e] = 0]
      /\ OSOwnerPrio' = [OSOwnerPrio EXCEPT ![e] = 0]
      /\ Returns(OSEventWait[e] # {})
      /\ UNCHANGED <<nestVars, tickVars>>

\* The ceiling must be free; it is reserved.
OSMutexCreate(prio) ==
  LET e == OSEventFreeList
  IN  /\ TaskCall("OSMutexCreate")
      /\ prio # OS_PRIO_MUTEX_CEIL_DIS => FreePrio(prio)
      /\ e # Null
      /\ OSTCBPrioTbl' = [p \in Prio |-> IF p = prio THEN OS_TCB_RESERVED
                                                     ELSE OSTCBPrioTbl[p]]
      /\ OSEventFreeList' = OSEventPtr[e]
      /\ OSEventType' = [OSEventType EXCEPT ![e] = "MUTEX"]
      /\ OSMutexPCP' = [OSMutexPCP EXCEPT ![e] = prio]
      /\ OSOwnerPrio' = [OSOwnerPrio EXCEPT ![e] = OS_MUTEX_AVAILABLE]
      /\ OSEventPtr' = [OSEventPtr EXCEPT ![e] = Null]
      /\ OSEventWait' = [OSEventWait EXCEPT ![e] = {}]
      /\ Returns(FALSE)
      /\ UNCHANGED <<tcbVars, OSRdy, switchVars, nestVars, tickVars>>

-----------------------------------------------------------------------------

MutexNext ==
  \/ \E e \in Event : OSMutexAccept(e)
  \/ \E e \in Event : OSMutexPend_Take(e)
  \/ \E e \in Event, timeout \in 0 .. MaxDly : OSMutexPend_Block(e, timeout)
  \/ OSMutexPend_Tail
  \/ \E e \in Event : OSMutexPost(e)
  \/ \E e \in Event, always \in BOOLEAN : OSMutexDel(e, always)
  \/ \E prio \in NewPCP : OSMutexCreate(prio)

\* The events that are mutexes when the system starts.
InitMutex == {e \in Event : \A i \in 1 .. Len(InitFreeList) : InitFreeList[i] # e}

\* OSMutexCreate refuses a ceiling that belongs to a task or to another mutex,
\* and OS_InitEventList links every unused event once.
ASSUME CreatedAssumption ==
  /\ \A i, j \in 1 .. Len(InitFreeList) : InitFreeList[i] = InitFreeList[j] => i = j
  /\ \A e \in InitMutex : InitPCP[e] \in Prio =>
       /\ \A t \in Task : InitPrio[t] # InitPCP[e]
       /\ \A f \in InitMutex : InitPCP[f] = InitPCP[e] => f = e

Init ==
  /\ StartedInit
  /\ OSTCBPrioTbl = [p \in Prio |-> IF \E e \in InitMutex : InitPCP[e] = p
                                     THEN OS_TCB_RESERVED
                                     ELSE CreatedTasks[p]]
  /\ OSEventType = [e \in Event |-> IF e \in InitMutex THEN "MUTEX" ELSE "UNUSED"]
  /\ OSMutexPCP = [e \in Event |-> IF e \in InitMutex THEN InitPCP[e] ELSE 0]
  /\ OSOwnerPrio = [e \in Event |-> IF e \in InitMutex THEN OS_MUTEX_AVAILABLE ELSE 0]

\* An owner delays only if the application allows it.
Next ==
  \/ CoreNext /\ UNCHANGED mutexVars
  \/ \E ticks \in 1 .. MaxDly :
       (OwnersDelay \/ MayPend) /\ OSTimeDly(ticks) /\ UNCHANGED mutexVars
  \/ TaskControl /\ UNCHANGED mutexVars
  \/ MutexNext

Spec == Init /\ [][Next]_vars

-----------------------------------------------------------------------------
(* Properties.                                                             *)

\* Every variable has its type.
TypeOK ==
  /\ TcbTypeOK /\ SwitchTypeOK /\ NestTypeOK /\ TickTypeOK /\ FlowTypeOK
  /\ OSRdy \subseteq Prio
  /\ OSTCBPrioTbl \in [Prio -> Task \cup {Null, OS_TCB_RESERVED}]
  /\ OSEventType \in [Event -> {"UNUSED", "MUTEX"}]
  /\ OSEventWait \in [Event -> SUBSET Prio]
  /\ OSEventPtr \in [Event -> Event \cup Task \cup {Null}]
  /\ OSEventFreeList \in Event \cup {Null}
  /\ OSMutexPCP \in [Event -> Prio \cup {OS_PRIO_MUTEX_CEIL_DIS}]
  /\ OSOwnerPrio \in [Event -> Prio \cup {OS_MUTEX_AVAILABLE}]

\* "Table of pointers to created TCBs" (ucos_ii.h, OSTCBPrioTbl): whatever the
\* priority of a task is at the moment, the scheduler finds the task under it.
PrioFindsTask == \A t \in Task : OSTCBPrioTbl[OSTCBPrio[t]] = t

\* Beside that entry a task has one only at the priority an owner took its mutex
\* at; the entry of a ceiling is reserved while no owner is raised to it.
CeilingTblSound ==
  /\ TypeOK
  /\ \A p \in Prio : LET t == OSTCBPrioTbl[p]
                     IN  t \in Task /\ OSTCBPrio[t] # p =>
                           \E e \in Event : Owns(t, e) /\ OSOwnerPrio[e] = p
  /\ \A e \in Event :
       OSEventType[e] = "MUTEX" /\ OSMutexPCP[e] \in Prio =>
         OSTCBPrioTbl[OSMutexPCP[e]] =
           IF OSEventPtr[e] # Null /\ OSTCBPrio[OSEventPtr[e]] = OSMutexPCP[e]
             THEN OSEventPtr[e]
             ELSE OS_TCB_RESERVED

\* OSMutexDel and OSMutexCreate neither lose nor share ceilings: a reserved
\* entry is the ceiling of a mutex.
ReservedIsCeiling ==
  \A p \in Prio : OSTCBPrioTbl[p] = OS_TCB_RESERVED =>
    \E e \in Event : OSEventType[e] = "MUTEX" /\ OSMutexPCP[e] = p

\* Creation, deletion, raising and restoring lose neither tasks nor ceilings.
NoPrioLost == PrioFindsTask /\ ReservedIsCeiling

\* A task runs at another priority than its own only while it owns a mutex
\* with that ceiling: a post, a deletion, a timeout of the waiter that raised
\* it never leave it there.
RaisedOnlyAsOwner ==
  \A t \in Task : OSTCBPrio[t] # InitPrio[t] =>
    \E e \in Event : Owns(t, e) /\ OSTCBPrio[t] = OSMutexPCP[e]

\* "If the semaphore is acquired and a higher priority task attempts to obtain
\* the semaphore then the priority of the task owning the semaphore is raised"
\* (OSMutexCreate): no task waits for an owner of lower priority.
Inherits ==
  \A e \in Event : OSEventType[e] = "MUTEX" /\ OSMutexPCP[e] \in Prio =>
    \A p \in OSEventWait[e] : OSTCBPrio[OSEventPtr[e]] < p

\* Where task t stands with mutex e, as the caller sees it: the mapping of the
\* state to the status of OwnedMutex.
MutexStatus(t, e) ==
  IF pevent[t] = e /\ pc[t] \in {"OSPend_Sched", "OSPend_Tail"}
    THEN PendOutcome(t)
    ELSE "idle"

-----------------------------------------------------------------------------
(* Liveness.                                                               *)

\* Ticks keep coming, every ISR ends, a pending context switch is made, the
\* running task moves on, and an owner that keeps getting the processor posts.
Fairness ==
  /\ WF_vars(OSIntEnter /\ UNCHANGED mutexVars)
  /\ SF_vars(OSIntExit /\ UNCHANGED mutexVars)
  /\ SF_vars(OSTimeTick /\ UNCHANGED mutexVars)
  /\ SF_vars(OSTimeTick_Step /\ UNCHANGED mutexVars)
  /\ SF_vars(PendSV_Handler /\ UNCHANGED mutexVars)
  /\ SF_vars(OS_Sched /\ UNCHANGED mutexVars)
  /\ SF_vars(OSMutexPend_Tail)
  /\ SF_vars(\E e \in Event : OSMutexPost(e))

FairSpec == Spec /\ Fairness

\* The highest-priority task gets the mutex it waits for, however long tasks
\* of medium priority compute: no priority inversion lasts for ever.
TopGetsMutex ==
  \A t \in Task :
    (\A u \in Task : InitPrio[t] <= InitPrio[u]) =>
      (pc[t] = "OSPend_Sched" ~> pc[t] = "app")
=============================================================================
