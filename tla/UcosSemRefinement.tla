------------------------- MODULE UcosSemRefinement --------------------------
(***************************************************************************)
(* Proofs about the waiters and tokens of UcosSem: no call loses a waiter,  *)
(* no token lies idle while a task waits for it, and a semaphore of UcosSem *)
(* implements CountingSemaphore, for every number of tasks, priorities,     *)
(* events and nested interrupts: a critical section that touches TheSem is  *)
(* one step of the abstract semaphore, every other step of the kernel is a  *)
(* stutter.                                                                 *)
(*                                                                         *)
(* OSSemCreate initialises the wait list of a control block after it has    *)
(* left its critical section, when a task that still holds a pointer to the *)
(* block may already wait on it.  The theorems hold for applications that   *)
(* follow NoCreation: they create their semaphores before OSStart.  The     *)
(* refinement also needs NoDeletion: CountingSemaphore does not speak of    *)
(* a semaphore that is deleted.                                             *)
(*                                                                         *)
(* The free list, and that waiters stay reachable, are then proved for      *)
(* applications that create and delete semaphores and are Careful with it.  *)
(***************************************************************************)
EXTENDS UcosSemProofs, UcosSemService, WellFoundedInduction

NoCreation == \A t \in Task : "OSSemCreate" \notin TaskCalls[t]

\* "Signalling an event" (OSSemPost): a semaphore with a token has no waiter,
\* so a post that found nobody waiting is never missed by a task that waits.
NoIdleToken == \A e \in Event : OSEventCnt[e] > 0 => OSEventWait[e] = {}

-----------------------------------------------------------------------------
(* The inductive invariant.                                                *)

\* No task is in OSSemCreate.
NoneCreates == \A t \in Task : pc[t] \notin {"OSSemCreate", "OS_EventWaitListInit"}

\* A task with the pend bit refers to an event, and one that refers to an event
\* is on its wait list; when its timeout is over it still is.
ListedAt(t) ==
  /\ "SEM" \in OSTCBStat[t] => OSTCBEventPtr[t] # Null
  /\ OSTCBEventPtr[t] # Null => OSTCBPrio[t] \in OSEventWait[OSTCBEventPtr[t]]

Listed == \A t \in Task : ListedAt(t)

WInv == IInv /\ NoneCreates /\ Listed /\ NoIdleToken

-----------------------------------------------------------------------------

\* How the place of the running task can change.
LEMMA Moves ==
  ASSUME IInv, [Next]_vars
  PROVE  \/ UNCHANGED flowVars
         \/ OS_Sched
         \/ \E b \in BOOLEAN : Returns(b)
         \/ \E service \in SemServices, e \in Event : OSSem_Enter(service, e)
         \/ \E e \in Event, timeout \in 0 .. MaxDly : OSSemPend_Block(e, timeout)
         \/ OSSemCreate \/ \E cnt \in 0 .. MaxCnt : OSSemCreate_Fields(cnt)
<1>1. CASE CoreNext
  BY <1>1
  DEF CoreNext, PendSV_Handler, OSSchedLock, OSSchedUnlock, OSIntEnter, OSIntExit,
      OSTimeTick, OSTimeTick_Step
<1>2. CASE TaskNext
  BY <1>2
  DEF TaskNext, TaskControl, OSTimeDly, OSTimeDlyResume, OSTaskSuspend, OSTaskResume,
      OSTaskChangePrio
<1>3. CASE SemNext
  <2>1. ASSUME NEW e \in Event,
               \/ OSSemAccept(e) \/ OSSemPend_Take(e) \/ OSSemPost(e)
               \/ \E all \in BOOLEAN : OSSemPendAbort(e, all)
               \/ \E cnt \in 0 .. MaxCnt : OSSemSet(e, cnt)
               \/ \E always \in BOOLEAN : OSSemDel(e, always)
        PROVE  \E b \in BOOLEAN : Returns(b)
    BY <2>1
    DEF OSSemAccept, OSSemPend_Take, OSSemPost, OSSemPendAbort, OSSemSet, OSSemDel
  <2>2. ASSUME OSSemPend_Tail \/ OS_EventWaitListInit
        PROVE  \E b \in BOOLEAN : Returns(b)
    BY <2>2 DEF OSSemPend_Tail, OSPend_Tail, OS_EventWaitListInit
  <2> QED BY <1>3, <2>1, <2>2 DEF SemNext
<1>4. CASE UNCHANGED vars
  BY <1>4 DEF vars, coreVars
<1> QED BY <1>1, <1>2, <1>3, <1>4 DEF Next

\* No task gets to OSSemCreate.
LEMMA NoneCreatesStep ==
  ASSUME NoCreation, IInv, NoneCreates, [Next]_vars
  PROVE  NoneCreates'
<1>1. /\ OSTCBCur \in Task /\ pc \in [Task -> Places]
  BY DEF IInv, TypeOK, CoreTypeOK, SwitchTypeOK, FlowTypeOK
<1>2. ASSUME UNCHANGED pc PROVE NoneCreates'
  BY <1>2 DEF NoneCreates
<1>3. ASSUME NEW place, NEW e, GoTo(place, e),
             place \notin {"OSSemCreate", "OS_EventWaitListInit"}
      PROVE  NoneCreates'
  BY <1>1, <1>3 DEF NoneCreates, GoTo
<1>4. ASSUME NEW b \in BOOLEAN, Returns(b) PROVE NoneCreates'
  BY <1>2, <1>3, <1>4 DEF Returns, flowVars
<1>5. ~OSSemCreate /\ \A cnt : ~OSSemCreate_Fields(cnt)
  BY <1>1 DEF NoCreation, NoneCreates, OSSemCreate, OSSemCreate_Fields, TaskCall, InTask
<1>6. ASSUME OS_Sched PROVE NoneCreates'
  <2>1. GoTo(AfterSched[pc[OSTCBCur]], pevent[OSTCBCur]) /\ pc[OSTCBCur] \in SchedPlaces
    BY <1>6, SchedPlacesFacts DEF OS_Sched
  <2> QED BY <1>3, <2>1, SchedPlacesFacts DEF SchedPlaces
<1>7. ASSUME NEW service \in SemServices, NEW e \in Event, OSSem_Enter(service, e)
      PROVE  NoneCreates'
  BY <1>3, <1>7 DEF OSSem_Enter, SemServices
<1>8. ASSUME NEW e \in Event, NEW timeout \in 0 .. MaxDly, OSSemPend_Block(e, timeout)
      PROVE  NoneCreates'
  BY <1>3, <1>8 DEF OSSemPend_Block
<1> QED BY <1>2, <1>4, <1>5, <1>6, <1>7, <1>8, Moves DEF flowVars

\* Without creation no wait list is initialised while tasks run.
LEMMA ListsNotInitialised ==
  ASSUME IInv, NoneCreates
  PROVE  ~OS_EventWaitListInit
BY DEF IInv, TypeOK, CoreTypeOK, SwitchTypeOK, NoneCreates, OS_EventWaitListInit, InTask

\* A post, an abort, a deletion or a timeout takes a task off the list of its
\* event only together with its pointer to the event.  Initialising the list
\* does as well, as long as nobody waits yet.
LEMMA ListedStep ==
  ASSUME IInv, Listed, [Next]_vars,
         OS_EventWaitListInit => \A t \in Task : OSTCBEventPtr[t] # pevent[OSTCBCur]
  PROVE  Listed'
<1> USE DEF ListedAt, OS_STAT_PEND_ANY
<1>1. /\ CoreTypeOK /\ TcbTypeOK /\ EventTypeOK /\ ReadyTypeOK /\ SwitchTypeOK
      /\ PrioTblSound /\ PendSound /\ WaitListSound
      /\ \A t \in Task : ListedAt(t)
      /\ Null \notin Event
  BY CoreAssumption DEF IInv, TypeOK, CoreTypeOK, Listed, CoreAssumption
<1>2. /\ \A s, t \in Task : OSTCBPrio[s] = OSTCBPrio[t] => s = t
      /\ \A e \in Event : \A p \in OSEventWait[e] :
           /\ OSTCBPrioTbl[p] \in Task /\ OSTCBEventPtr[OSTCBPrioTbl[p]] = e
           /\ OSTCBPrio[OSTCBPrioTbl[p]] = p
  BY <1>1 DEF PrioTblSound, WaitListSound, EventTypeOK, ReadyTypeOK
<1>3. ASSUME UNCHANGED <<OSTCBPrio, OSTCBEventPtr, OSEventWait>>,
             \A t \in Task : "SEM" \in OSTCBStat'[t] => "SEM" \in OSTCBStat[t]
      PROVE  Listed'
  BY <1>1, <1>3 DEF Listed
<1>4. ASSUME TasksKept PROVE Listed'
  <2>1. UNCHANGED <<OSTCBPrio, OSTCBEventPtr, OSTCBStat>>
    BY <1>4 DEF TasksKept, tcbVars
  <2>2. CASE UNCHANGED OSEventWait
    BY <1>3, <2>1, <2>2
  <2>3. CASE OS_EventWaitListInit
    <3>1. /\ \A t \in Task : OSTCBEventPtr[t] # pevent[OSTCBCur]
          /\ OSEventWait' = [OSEventWait EXCEPT ![pevent[OSTCBCur]] = {}]
      BY <2>3 DEF OS_EventWaitListInit
    <3>2. \A t \in Task : OSTCBEventPtr[t] # Null =>
            OSEventWait'[OSTCBEventPtr[t]] = OSEventWait[OSTCBEventPtr[t]]
      BY <1>1, <3>1 DEF EventTypeOK, TcbTypeOK
    <3> QED BY <1>1, <2>1, <3>2 DEF Listed
  <2> QED BY <1>4, <2>2, <2>3 DEF TasksKept
<1>5. ASSUME NEW e \in Event, NEW W, NEW ps, Wakes(e, W, ps)
      PROVE  Listed'
  <2> DEFINE T == {OSTCBPrioTbl[p] : p \in W}
  <2>1. \A t \in T : t \in Task /\ OSTCBEventPtr[t] = e
    BY <1>2, <1>5 DEF Wakes
  <2>2. /\ OSTCBPrio' = OSTCBPrio
        /\ OSEventWait' = [OSEventWait EXCEPT ![e] = @ \ {OSTCBPrio[t] : t \in T}]
        /\ OSTCBEventPtr' = [t \in Task |-> IF t \in T THEN Null ELSE OSTCBEventPtr[t]]
        /\ OSTCBStat' = [t \in Task |->
                           IF t \in T THEN OSTCBStat[t] \ {"SEM"} ELSE OSTCBStat[t]]
    BY <1>5 DEF Wakes, OS_EventTaskRdy, WaitEnds
  <2>3. ASSUME NEW t \in Task PROVE ListedAt(t)'
    <3>1. CASE t \in T
      BY <2>2, <3>1
    <3>2. CASE t \notin T
      <4>1. OSTCBPrio[t] \notin {OSTCBPrio[u] : u \in T}
        BY <1>2, <2>1, <3>2
      <4> QED BY <1>1, <2>2, <3>2, <4>1 DEF EventTypeOK, TcbTypeOK
    <3> QED BY <3>1, <3>2
  <2> QED BY <2>3 DEF Listed
<1>6. ASSUME NEW t \in Task, EndsDelay(t) \/ CountsDown(t) PROVE Listed'
  BY <1>1, <1>3, <1>6 DEF EndsDelay, DlyEnds, CountsDown, TcbTypeOK
<1>7. ASSUME NEW ticks \in 1 .. MaxDly, OSTimeDly(ticks) PROVE Listed'
  BY <1>3, <1>7 DEF OSTimeDly, eventVars
<1>8. ASSUME NEW prio \in Prio, OSTaskSuspend(prio) \/ OSTaskResume(prio) PROVE Listed'
  BY <1>1, <1>3, <1>8 DEF OSTaskSuspend, OSTaskResume, NamesTask, eventVars, TcbTypeOK
<1>9. ASSUME NEW old \in Prio, NEW new \in Prio, OSTaskChangePrio(old, new)
      PROVE  Listed'
  <2> DEFINE t == OSTCBPrioTbl[old]
             e == OSTCBEventPtr[t]
  <2>1. /\ t \in Task /\ OSTCBPrio[t] = old
        /\ OSTCBPrio' = [OSTCBPrio EXCEPT ![t] = new]
        /\ OSEventWait' = IF e = Null
                            THEN OSEventWait
                            ELSE [OSEventWait EXCEPT ![e] = (@ \ {old}) \cup {new}]
        /\ UNCHANGED <<OSTCBEventPtr, OSTCBStat>>
    BY <1>1, <1>9, CoreAssumption
    DEF OSTaskChangePrio, NamesTask, WaitListMoved, PrioTblSound, CoreAssumption
  <2>2. ASSUME NEW u \in Task PROVE ListedAt(u)'
    <3>1. CASE u = t
      BY <1>1, <2>1, <3>1 DEF EventTypeOK, TcbTypeOK
    <3>2. CASE u # t
      <4>1. OSTCBPrio'[u] = OSTCBPrio[u] /\ OSTCBPrio[u] # old
        BY <1>1, <1>2, <2>1, <3>2 DEF TcbTypeOK
      <4> QED BY <1>1, <2>1, <4>1 DEF EventTypeOK, TcbTypeOK
    <3> QED BY <3>1, <3>2
  <2> QED BY <2>2 DEF Listed
<1>10. ASSUME NEW e \in Event, NEW timeout \in 0 .. MaxDly, OSSemPend_Block(e, timeout)
       PROVE  Listed'
  <2>1. /\ OSTCBEventPtr' = [OSTCBEventPtr EXCEPT ![OSTCBCur] = e]
        /\ OSEventWait' = [OSEventWait EXCEPT ![e] = @ \cup {OSTCBPrio[OSTCBCur]}]
        /\ OSTCBStat' = [OSTCBStat EXCEPT ![OSTCBCur] = @ \cup {"SEM"}]
        /\ OSTCBPrio' = OSTCBPrio
    BY <1>10 DEF OSSemPend_Block, OS_EventTaskWait
  <2>2. ASSUME NEW u \in Task PROVE ListedAt(u)'
    <3>1. CASE u = OSTCBCur
      BY <1>1, <2>1, <3>1 DEF EventTypeOK, TcbTypeOK
    <3>2. CASE u # OSTCBCur
      BY <1>1, <2>1, <3>2 DEF EventTypeOK, TcbTypeOK
    <3> QED BY <3>1, <3>2
  <2> QED BY <2>2 DEF Listed
<1>11. CASE OSSemPend_Tail
  <2> DEFINE t == OSTCBCur
  <2>1. /\ OSEventWait' = IF OSTCBStatPend[t] = "TO"
                            THEN OS_EventTaskRemove(t, pevent[t])
                            ELSE OSEventWait
        /\ OSTCBEventPtr' = [OSTCBEventPtr EXCEPT ![t] = Null]
        /\ OSTCBStat' = [OSTCBStat EXCEPT ![t] = {}]
        /\ OSTCBPrio' = OSTCBPrio
    BY <1>11 DEF OSSemPend_Tail, OSPend_Tail
  <2>2. ASSUME NEW u \in Task PROVE ListedAt(u)'
    <3>1. CASE u = t
      BY <1>1, <2>1, <3>1 DEF TcbTypeOK
    <3>2. CASE u # t
      <4>1. OSTCBPrio[u] # OSTCBPrio[t]
        BY <1>1, <1>2, <3>2 DEF SwitchTypeOK
      <4>2. \A f \in Event : OSTCBPrio[u] \in OSEventWait[f] => OSTCBPrio[u] \in OSEventWait'[f]
        BY <1>1, <2>1, <4>1 DEF OS_EventTaskRemove, EventTypeOK
      <4> QED BY <1>1, <2>1, <3>2, <4>2 DEF TcbTypeOK
    <3> QED BY <3>1, <3>2
  <2> QED BY <2>2 DEF Listed
<1> QED BY <1>4, <1>5, <1>6, <1>7, <1>8, <1>9, <1>10, <1>11, Effects

\* The count of a semaphore becomes positive only while nobody waits for it.
LEMMA CntStep ==
  ASSUME IInv, NoneCreates, [Next]_vars, NEW e \in Event, OSEventCnt'[e] > 0
  PROVE  \/ OSEventCnt[e] > 0
         \/ OSEventWait[e] = {} /\ OSEventWait' = OSEventWait
<1>1. /\ OSTCBCur \in Task /\ OSEventCnt \in [Event -> 0 .. MaxCnt]
  BY DEF IInv, TypeOK, CoreTypeOK, SwitchTypeOK
<1>2. ASSUME UNCHANGED OSEventCnt PROVE OSEventCnt[e] > 0
  BY <1>2
<1>3. ASSUME NEW f \in Event, NEW cnt,
             OSEventCnt' = [OSEventCnt EXCEPT ![f] = cnt],
             f = e /\ cnt > 0 => \/ OSEventCnt[e] > 0
                                 \/ OSEventWait[e] = {} /\ OSEventWait' = OSEventWait
      PROVE  \/ OSEventCnt[e] > 0
             \/ OSEventWait[e] = {} /\ OSEventWait' = OSEventWait
  BY <1>1, <1>3
<1>4. ASSUME NEW f \in Event,
             \/ OSSemAccept(f) \/ OSSemPend_Take(f) \/ OSSemPost(f)
             \/ \E cnt \in 0 .. MaxCnt : OSSemSet(f, cnt)
             \/ \E always \in BOOLEAN : OSSemDel(f, always)
      PROVE  \/ OSEventCnt[e] > 0
             \/ OSEventWait[e] = {} /\ OSEventWait' = OSEventWait
  <2>1. CASE OSSemAccept(f) \/ OSSemPend_Take(f)
    BY <1>1, <2>1 DEF OSSemAccept, OSSemPend_Take
  <2>2. CASE OSSemPost(f)
    BY <1>1, <1>2, <1>3, <2>2 DEF OSSemPost
  <2>3. ASSUME NEW cnt \in 0 .. MaxCnt, OSSemSet(f, cnt)
        PROVE  \/ OSEventCnt[e] > 0
               \/ OSEventWait[e] = {} /\ OSEventWait' = OSEventWait
    BY <1>1, <2>3 DEF OSSemSet, eventVars
  <2>4. ASSUME NEW always \in BOOLEAN, OSSemDel(f, always)
        PROVE  OSEventCnt[e] > 0
    <3>1. \/ OSEventCnt' = [OSEventCnt EXCEPT ![f] = 0]
          \/ OSEventCnt' = OSEventCnt
      BY <2>4 DEF OSSemDel
    <3> QED BY <1>1, <3>1
  <2> QED BY <1>4, <2>1, <2>2, <2>3, <2>4
<1>5. CASE SemNext
  <2>1. \A cnt : ~OSSemCreate_Fields(cnt)
    BY <1>1 DEF NoneCreates, OSSemCreate_Fields, InTask
  <2>2. \/ UNCHANGED OSEventCnt
        \/ \E f \in Event : \/ OSSemAccept(f) \/ OSSemPend_Take(f) \/ OSSemPost(f)
                            \/ \E cnt \in 0 .. MaxCnt : OSSemSet(f, cnt)
                            \/ \E always \in BOOLEAN : OSSemDel(f, always)
    BY <1>5, <2>1
    DEF SemNext, OSSem_Enter, OSSemPend_Block, OSSemPend_Tail, OSSemPendAbort, OSSemCreate,
        OS_EventWaitListInit
  <2> QED BY <1>2, <1>4, <2>2
<1> QED BY <1>2, <1>5 DEF Next, vars

\* A task joins a wait list only when the count is 0.
LEMMA WaiterStep ==
  ASSUME IInv, Listed, [Next]_vars, NEW e \in Event, OSEventWait'[e] # {}
  PROVE  \/ OSEventWait[e] # {}
         \/ \E timeout \in 0 .. MaxDly : OSSemPend_Block(e, timeout)
<1>1. /\ EventTypeOK /\ TcbTypeOK /\ PrioTblSound /\ Null \notin Event
  BY CoreAssumption DEF IInv, TypeOK, CoreTypeOK, CoreAssumption
<1>2. ASSUME OSEventWait'[e] \subseteq OSEventWait[e] PROVE OSEventWait[e] # {}
  BY <1>2
<1>3. ASSUME NEW f \in Event, NEW W, NEW ps, Wakes(f, W, ps)
      PROVE  OSEventWait'[e] \subseteq OSEventWait[e]
  BY <1>1, <1>3 DEF Wakes, OS_EventTaskRdy, WaitEnds, EventTypeOK
<1>4. ASSUME NEW old \in Prio, NEW new \in Prio, OSTaskChangePrio(old, new)
      PROVE  OSEventWait[e] # {}
  <2> DEFINE t == OSTCBPrioTbl[old]
  <2>1. /\ t \in Task
        /\ OSEventWait' = WaitListMoved(t, new)
    BY <1>4 DEF OSTaskChangePrio, NamesTask
  <2>2. OSTCBEventPtr[t] = e => OSEventWait[e] # {}
    BY <1>1, <2>1 DEF Listed, ListedAt
  <2>3. OSTCBEventPtr[t] # e => OSEventWait'[e] = OSEventWait[e]
    BY <1>1, <2>1 DEF WaitListMoved, EventTypeOK
  <2> QED BY <2>2, <2>3
<1>5. ASSUME NEW f \in Event, NEW timeout \in 0 .. MaxDly, OSSemPend_Block(f, timeout), f # e
      PROVE  OSEventWait[e] # {}
  BY <1>1, <1>5 DEF OSSemPend_Block, OS_EventTaskWait, EventTypeOK
<1>6. ASSUME OSSemPend_Tail PROVE OSEventWait'[e] \subseteq OSEventWait[e]
  BY <1>1, <1>6 DEF OSSemPend_Tail, OSPend_Tail, OS_EventTaskRemove, EventTypeOK
<1>7. ASSUME TasksKept PROVE OSEventWait'[e] \subseteq OSEventWait[e]
  BY <1>7 DEF TasksKept
<1>8. ASSUME \/ \E t \in Task : EndsDelay(t) \/ CountsDown(t)
             \/ \E ticks \in 1 .. MaxDly : OSTimeDly(ticks)
             \/ \E prio \in Prio : OSTaskSuspend(prio) \/ OSTaskResume(prio)
      PROVE  OSEventWait' = OSEventWait
  BY <1>8
  DEF EndsDelay, CountsDown, OSTimeDly, OSTaskSuspend, OSTaskResume, eventVars
<1> QED BY <1>2, <1>3, <1>4, <1>5, <1>6, <1>7, <1>8, Effects

\* Neither can a token come to a list with waiters nor a waiter to a count.
LEMMA NoIdleStep ==
  ASSUME IInv, NoneCreates, Listed, NoIdleToken, [Next]_vars
  PROVE  NoIdleToken'
<1>1. OSEventCnt \in [Event -> 0 .. MaxCnt]
  BY DEF IInv, TypeOK
<1>2. SUFFICES ASSUME NEW e \in Event, OSEventCnt'[e] > 0, OSEventWait'[e] # {}
               PROVE  FALSE
  BY DEF NoIdleToken
<1>3. OSEventWait[e] = {} /\ OSEventCnt[e] > 0
  BY <1>2, CntStep DEF NoIdleToken
<1>4. PICK timeout \in 0 .. MaxDly : OSSemPend_Block(e, timeout)
  BY <1>2, <1>3, WaiterStep
<1> QED BY <1>1, <1>3, <1>4 DEF OSSemPend_Block

-----------------------------------------------------------------------------
(* The theorems.                                                           *)

\* When the system starts nobody waits and nobody is in a service.
LEMMA InitWInv ==
  Init => WInv
<1> SUFFICES ASSUME Init PROVE WInv
  OBVIOUS
<1>1. TasksStarted
  BY DEF Init, CoreInit, StartedInit
<1>2. NoneCreates /\ Listed /\ NoIdleToken
  BY <1>1 DEF TasksStarted, NoneCreates, Listed, ListedAt, NoIdleToken
<1> QED BY <1>2, InitInv DEF WInv

\* Every reachable state satisfies the strengthened invariant.
LEMMA WInvariance ==
  ASSUME PrioDiscipline, NoCreation
  PROVE  Spec => []WInv
<1>1. WInv /\ [Next]_vars => WInv'
  BY Inductive, NoneCreatesStep, ListsNotInitialised, ListedStep, NoIdleStep DEF WInv
<1> QED BY InitWInv, <1>1, PTL DEF Spec

\* A task that pends is on the wait list of the event it waits for, through
\* every change of priority, suspension, timeout and wake-up of others: a post,
\* an abort or a deletion can find it.
THEOREM WaitersReachable ==
  ASSUME PrioDiscipline, NoCreation
  PROVE  Spec => []WaiterReachable
<1>1. WInv => WaiterReachable
  BY DEF WInv, Listed, ListedAt, WaiterReachable
<1> QED BY WInvariance, <1>1, PTL

\* No wake-up is lost: a token and a task waiting for it never coexist, in
\* whatever order posts, pends, timeouts, deletions and OSSemSet come.
THEOREM TokensNotIdle ==
  ASSUME PrioDiscipline, NoCreation
  PROVE  Spec => []NoIdleToken
<1>1. WInv => NoIdleToken
  BY DEF WInv
<1> QED BY WInvariance, <1>1, PTL

NoDeletion == \A t \in Task : "OSSemDel" \notin TaskCalls[t]

-----------------------------------------------------------------------------
(* The inductive invariant.                                                *)

\* No task is in OSSemDel.
NoneDeletes == \A t \in Task : pc[t] # "OSSemDel"

\* OSTCBStatPend tells the outcome of a pend: "OK" while the task waits; after
\* a post or an abort its timer is off, so no timeout can overwrite it.
OutcomeAt(t) ==
  /\ OSTCBEventPtr[t] # Null /\ "SEM" \in OSTCBStat[t] => OSTCBStatPend[t] = "OK"
  /\ pc[t] \in PendPlaces /\ OSTCBEventPtr[t] = Null =>
       OSTCBDly[t] = 0 /\ OSTCBStatPend[t] # "TO"

Outcomes == \A t \in Task : OutcomeAt(t)

RInv == WInv /\ NoneDeletes /\ Outcomes

\* No task gets to OSSemDel.
LEMMA NoneDeletesStep ==
  ASSUME NoDeletion, RInv, [Next]_vars
  PROVE  NoneDeletes'
<1>1. /\ OSTCBCur \in Task /\ pc \in [Task -> Places] /\ IInv /\ NoneDeletes
  BY DEF RInv, WInv, IInv, TypeOK, CoreTypeOK, SwitchTypeOK, FlowTypeOK
<1>2. ASSUME UNCHANGED pc PROVE NoneDeletes'
  BY <1>1, <1>2 DEF NoneDeletes
<1>3. ASSUME NEW place, NEW e, GoTo(place, e), place # "OSSemDel"
      PROVE  NoneDeletes'
  BY <1>1, <1>3 DEF NoneDeletes, GoTo
<1>4. ASSUME NEW b \in BOOLEAN, Returns(b) PROVE NoneDeletes'
  BY <1>2, <1>3, <1>4 DEF Returns, flowVars
<1>5. ASSUME OSSemCreate \/ \E cnt \in 0 .. MaxCnt : OSSemCreate_Fields(cnt)
      PROVE  NoneDeletes'
  BY <1>3, <1>5 DEF OSSemCreate, OSSemCreate_Fields
<1>6. ASSUME OS_Sched PROVE NoneDeletes'
  <2>1. GoTo(AfterSched[pc[OSTCBCur]], pevent[OSTCBCur]) /\ pc[OSTCBCur] \in SchedPlaces
    BY <1>6, SchedPlacesFacts DEF OS_Sched
  <2> QED BY <1>3, <2>1, SchedPlacesFacts DEF SchedPlaces
<1>7. ASSUME NEW service \in SemServices, NEW e \in Event, OSSem_Enter(service, e)
      PROVE  NoneDeletes'
  BY <1>1, <1>3, <1>7 DEF OSSem_Enter, TaskCall, NoDeletion
<1>8. ASSUME NEW e \in Event, NEW timeout \in 0 .. MaxDly, OSSemPend_Block(e, timeout)
      PROVE  NoneDeletes'
  BY <1>3, <1>8 DEF OSSemPend_Block
<1> QED BY <1>1, <1>2, <1>4, <1>5, <1>6, <1>7, <1>8, Moves DEF flowVars

\* A task comes to a place of a pend only by waiting.
LEMMA EntersPend ==
  ASSUME IInv, [Next]_vars, NEW t \in Task, pc'[t] \in PendPlaces, pc[t] \notin PendPlaces
  PROVE  t = OSTCBCur /\ \E e \in Event, timeout \in 0 .. MaxDly : OSSemPend_Block(e, timeout)
<1> USE DEF PendPlaces
<1>1. /\ OSTCBCur \in Task /\ pc \in [Task -> Places]
  BY DEF IInv, TypeOK, CoreTypeOK, SwitchTypeOK, FlowTypeOK
<1>2. ASSUME NEW place, NEW e, GoTo(place, e), t # OSTCBCur \/ place \notin PendPlaces
      PROVE  FALSE
  BY <1>1, <1>2 DEF GoTo
<1>3. ASSUME UNCHANGED flowVars PROVE FALSE
  BY <1>3 DEF flowVars
<1>4. ASSUME NEW b \in BOOLEAN, Returns(b) PROVE FALSE
  BY <1>2, <1>3, <1>4 DEF Returns
<1>5. ASSUME OSSemCreate \/ \E cnt \in 0 .. MaxCnt : OSSemCreate_Fields(cnt)
      PROVE  FALSE
  BY <1>2, <1>5 DEF OSSemCreate, OSSemCreate_Fields
<1>6. ASSUME OS_Sched PROVE FALSE
  <2>1. GoTo(AfterSched[pc[OSTCBCur]], pevent[OSTCBCur]) /\ pc[OSTCBCur] \in SchedPlaces
    BY <1>6, SchedPlacesFacts DEF OS_Sched
  <2> QED BY <1>2, <2>1, SchedPlacesFacts DEF SchedPlaces
<1>7. ASSUME NEW service \in SemServices, NEW e \in Event, OSSem_Enter(service, e)
      PROVE  FALSE
  BY <1>2, <1>7 DEF OSSem_Enter, SemServices
<1>8. ASSUME NEW e \in Event, NEW timeout \in 0 .. MaxDly, OSSemPend_Block(e, timeout)
      PROVE  t = OSTCBCur
  BY <1>2, <1>8 DEF OSSemPend_Block
<1> QED BY <1>3, <1>4, <1>5, <1>6, <1>7, <1>8, Moves

\* The outcome of a pend, once decided, stays until the task has returned.
LEMMA OutcomesStep ==
  ASSUME RInv, [Next]_vars
  PROVE  Outcomes'
<1> USE DEF OS_STAT_PEND_ANY
<1>1. /\ TcbTypeOK /\ SwitchTypeOK /\ FlowTypeOK /\ PendSound /\ Listed /\ IInv
      /\ \A t \in Task : OutcomeAt(t)
      /\ Null \notin Event
  BY CoreAssumption
  DEF RInv, WInv, IInv, TypeOK, CoreTypeOK, Outcomes, CoreAssumption
<1>2. ASSUME NEW t \in Task PROVE OutcomeAt(t)'
  <2>1. ASSUME NEW e \in Event, NEW timeout \in 0 .. MaxDly, OSSemPend_Block(e, timeout)
        PROVE  OutcomeAt(t)'
    <3>1. /\ OSTCBStat' = [OSTCBStat EXCEPT ![OSTCBCur] = @ \cup {"SEM"}]
          /\ OSTCBStatPend' = [OSTCBStatPend EXCEPT ![OSTCBCur] = "OK"]
          /\ OSTCBDly' = [OSTCBDly EXCEPT ![OSTCBCur] = timeout]
          /\ OSTCBEventPtr' = [OSTCBEventPtr EXCEPT ![OSTCBCur] = e]
          /\ pc' = [pc EXCEPT ![OSTCBCur] = "OSPend_Sched"]
      BY <2>1 DEF OSSemPend_Block, OS_EventTaskWait, GoTo
    <3>2. CASE t = OSTCBCur
      BY <1>1, <3>1, <3>2 DEF OutcomeAt, TcbTypeOK
    <3>3. CASE t # OSTCBCur
      BY <1>1, <3>1, <3>3 DEF OutcomeAt, TcbTypeOK, FlowTypeOK
    <3> QED BY <3>2, <3>3
  <2>2. CASE ~ \E e \in Event, timeout \in 0 .. MaxDly : OSSemPend_Block(e, timeout)
    <3>1. pc'[t] \in PendPlaces => pc[t] \in PendPlaces
      BY <1>1, <2>2, EntersPend
    <3>2. ASSUME UNCHANGED <<OSTCBStatPend, OSTCBEventPtr, OSTCBDly>>,
                 "SEM" \in OSTCBStat'[t] => "SEM" \in OSTCBStat[t]
          PROVE  OutcomeAt(t)'
      BY <1>1, <3>1, <3>2 DEF OutcomeAt
    <3>3. ASSUME TasksKept PROVE OutcomeAt(t)'
      BY <3>2, <3>3 DEF TasksKept, tcbVars
    <3>4. ASSUME NEW e \in Event, NEW W, NEW ps, Wakes(e, W, ps) PROVE OutcomeAt(t)'
      <4> DEFINE T == {OSTCBPrioTbl[p] : p \in W}
      <4>1. /\ OSTCBDly'[t] = IF t \in T THEN 0 ELSE OSTCBDly[t]
            /\ OSTCBStat'[t] = IF t \in T THEN OSTCBStat[t] \ {"SEM"} ELSE OSTCBStat[t]
            /\ OSTCBStatPend'[t] = IF t \in T THEN ps ELSE OSTCBStatPend[t]
            /\ OSTCBEventPtr'[t] = IF t \in T THEN Null ELSE OSTCBEventPtr[t]
            /\ ps # "TO"
        BY <3>4 DEF Wakes, OS_EventTaskRdy, WaitEnds
      <4> QED BY <1>1, <3>1, <4>1 DEF OutcomeAt
    <3>5. ASSUME NEW u \in Task, EndsDelay(u) \/ CountsDown(u) PROVE OutcomeAt(t)'
      <4>1. /\ OSTCBDly[u] # 0 /\ OSTCBEventPtr' = OSTCBEventPtr
            /\ t # u => /\ OSTCBStat'[t] = OSTCBStat[t] /\ OSTCBDly'[t] = OSTCBDly[t]
                        /\ OSTCBStatPend'[t] = OSTCBStatPend[t]
            /\ t = u => "SEM" \notin OSTCBStat'[t] \/ (UNCHANGED <<OSTCBStat, OSTCBStatPend>>)
        BY <1>1, <3>5 DEF EndsDelay, DlyEnds, CountsDown, TcbTypeOK
      <4> QED BY <1>1, <3>1, <4>1 DEF OutcomeAt
    <3>6. ASSUME NEW ticks \in 1 .. MaxDly, OSTimeDly(ticks) PROVE OutcomeAt(t)'
      <4>1. /\ pc[OSTCBCur] = "app" /\ OSTCBDly' = [OSTCBDly EXCEPT ![OSTCBCur] = ticks]
            /\ UNCHANGED <<OSTCBStat, OSTCBStatPend, OSTCBEventPtr>>
        BY <3>6 DEF OSTimeDly, TaskCall, InTask
      <4> QED BY <1>1, <3>1, <4>1 DEF OutcomeAt, PendPlaces, TcbTypeOK
    <3>7. ASSUME NEW prio \in Prio, OSTaskSuspend(prio) \/ OSTaskResume(prio)
          PROVE  OutcomeAt(t)'
      <4>1. /\ UNCHANGED <<OSTCBStatPend, OSTCBDly, OSTCBEventPtr>>
            /\ "SEM" \in OSTCBStat'[t] => "SEM" \in OSTCBStat[t]
        BY <1>1, <3>7 DEF OSTaskSuspend, OSTaskResume, NamesTask, TcbTypeOK
      <4> QED BY <3>2, <4>1
    <3>8. ASSUME NEW old \in Prio, NEW new \in Prio, OSTaskChangePrio(old, new)
          PROVE  OutcomeAt(t)'
      BY <3>2, <3>8 DEF OSTaskChangePrio
    <3>9. ASSUME OSSemPend_Tail PROVE OutcomeAt(t)'
      <4>1. /\ OSTCBStat' = [OSTCBStat EXCEPT ![OSTCBCur] = {}]
            /\ OSTCBStatPend' = [OSTCBStatPend EXCEPT ![OSTCBCur] = "OK"]
            /\ OSTCBEventPtr' = [OSTCBEventPtr EXCEPT ![OSTCBCur] = Null]
            /\ OSTCBDly' = OSTCBDly
            /\ Runs /\ Returns(FALSE) /\ pc[OSTCBCur] = "OSPend_Tail"
        BY <3>9 DEF OSSemPend_Tail, OSPend_Tail, InTask
      <4>2. pc' = [pc EXCEPT ![OSTCBCur] = "app"]
        BY <4>1, ReturnsGoes DEF GoTo
      <4> QED BY <1>1, <3>1, <4>1, <4>2 DEF OutcomeAt, PendPlaces, TcbTypeOK, FlowTypeOK
    <3> QED
      BY <1>1, <2>2, <3>3, <3>4, <3>5, <3>6, <3>7, <3>8, <3>9, Effects
  <2> QED BY <2>1, <2>2
<1> QED BY <1>2 DEF Outcomes

-----------------------------------------------------------------------------
(* The status of a task, read off its place and its control block.         *)

\* The task has nothing to do with TheSem.
Idling(t) ==
  pevent[t] # TheSem \/ pc[t] \notin {"OSSemPend", "OSSemPost"} \cup PendPlaces

StatusFits(t) ==
  /\ Idling(t) => TheStatus[t] = "idle"
  /\ ~Idling(t) /\ pc[t] = "OSSemPend" => TheStatus[t] = "asking"
  /\ ~Idling(t) /\ pc[t] = "OSSemPost" => TheStatus[t] = "posting"
  /\ ~Idling(t) /\ pc[t] \in PendPlaces => TheStatus[t] = PendOutcome(t)

\* The status in this state and in the next.
LEMMA StatusMeaning ==
  ASSUME NEW t \in Task
  PROVE  StatusFits(t) /\ StatusFits(t)'
<1> USE DEF StatusFits, Idling, PendOutcome, TheStatus, SemStatus, PendPlaces
<1>1. StatusFits(t)
  OBVIOUS
<1>2. StatusFits(t)'
  OBVIOUS
<1> QED BY <1>1, <1>2

\* A task whose pend goes on unchanged, or that stays idle, keeps its status.
StaysPut(t) ==
  \/ Idling(t) /\ Idling(t)'
  \/ /\ pevent'[t] = pevent[t] /\ pc'[t] = pc[t]
     /\ pc[t] \notin PendPlaces
  \/ /\ pevent'[t] = pevent[t] /\ {pc[t], pc'[t]} \subseteq PendPlaces
     /\ OSTCBStatPend'[t] = OSTCBStatPend[t]
     /\ OSTCBEventPtr'[t] = OSTCBEventPtr[t]

\* Its status does not depend on where it is in the code.
LEMMA StatusKept ==
  ASSUME NEW t \in Task, StaysPut(t)
  PROVE  TheStatus'[t] = TheStatus[t]
BY DEF StaysPut, TheStatus, SemStatus, PendOutcome, Idling, PendPlaces

\* If all tasks stay put, so does the status as a whole.
LEMMA AllStayPut ==
  ASSUME \A t \in Task : StaysPut(t)
  PROVE  TheStatus' = TheStatus
<1>1. \A t \in Task : TheStatus'[t] = TheStatus[t]
  BY StatusKept
<1> QED BY <1>1 DEF TheStatus

\* If all but u do, only the status of u changes.
LEMMA OneMoves ==
  ASSUME NEW u \in Task, \A t \in Task \ {u} : StaysPut(t)
  PROVE  TheStatus' = [TheStatus EXCEPT ![u] = TheStatus'[u]]
<1>1. \A t \in Task \ {u} : TheStatus'[t] = TheStatus[t]
  BY StatusKept
<1> QED BY <1>1 DEF TheStatus

\* The abstract waiters are the tasks on the wait list of TheSem, and the first
\* of them is the one with the highest priority.
LEMMA WaitersMeaning ==
  ASSUME RInv
  PROVE  /\ \A t \in Task : /\ t \in TheSemaphore!Waiters <=> OSTCBEventPtr[t] = TheSem
                            /\ OSTCBEventPtr[t] = TheSem => ~Idling(t) /\ pc[t] \in PendPlaces
         /\ TheSemaphore!Waiters = {OSTCBPrioTbl[p] : p \in OSEventWait[TheSem]}
         /\ \A p \in OSEventWait[TheSem] :
              /\ OSTCBPrioTbl[p] \in Task
              /\ IsHighest(p, OSEventWait[TheSem]) => TheSemaphore!First(OSTCBPrioTbl[p])
<1>1. /\ PendSound /\ PrioTblSound /\ WaitListSound /\ EventTypeOK /\ ReadyTypeOK /\ TcbTypeOK
      /\ \A t \in Task : ListedAt(t) /\ OutcomeAt(t)
      /\ Null # TheSem
  BY CoreAssumption, ServiceAssumption
  DEF RInv, WInv, IInv, TypeOK, CoreTypeOK, Listed, Outcomes, CoreAssumption
<1>2. \A t \in Task : OSTCBEventPtr[t] = TheSem => ~Idling(t) /\ pc[t] \in PendPlaces
  BY <1>1 DEF PendSound, Idling
<1>3. ASSUME NEW t \in Task
      PROVE  TheStatus[t] \in {"waiting", "timedout"} <=> OSTCBEventPtr[t] = TheSem
  <2>1. ASSUME OSTCBEventPtr[t] = TheSem PROVE TheStatus[t] \in {"waiting", "timedout"}
    <3>1. OSTCBStatPend[t] \in {"OK", "TO"}
      BY <1>1, <2>1 DEF PendSound, OutcomeAt
    <3> QED BY <1>1, <1>2, <2>1, <3>1, StatusMeaning DEF StatusFits, PendOutcome
  <2>2. ASSUME TheStatus[t] \in {"waiting", "timedout"} PROVE OSTCBEventPtr[t] = TheSem
    <3>1. ~Idling(t) /\ pc[t] \in PendPlaces
      BY <2>2, StatusMeaning DEF StatusFits, Idling
    <3>2. OSTCBEventPtr[t] # Null
      BY <1>1, <2>2, <3>1, StatusMeaning DEF StatusFits, PendOutcome, OutcomeAt
    <3> QED BY <1>1, <3>1, <3>2 DEF PendSound, Idling
  <2> QED BY <2>1, <2>2
<1>4. \A t \in Task : t \in TheSemaphore!Waiters <=> OSTCBEventPtr[t] = TheSem
  BY <1>3 DEF TheSemaphore!Waiters
<1>5. \A p \in OSEventWait[TheSem] :
        /\ p \in Prio
        /\ OSTCBPrioTbl[p] \in Task /\ OSTCBEventPtr[OSTCBPrioTbl[p]] = TheSem
        /\ OSTCBPrio[OSTCBPrioTbl[p]] = p
  BY <1>1, ServiceAssumption
  DEF WaitListSound, PrioTblSound, EventTypeOK, ReadyTypeOK, ServiceAssumption
<1>6. \A t \in Task : OSTCBEventPtr[t] = TheSem =>
        OSTCBPrio[t] \in OSEventWait[TheSem] /\ OSTCBPrioTbl[OSTCBPrio[t]] = t
  BY <1>1 DEF ListedAt, PrioTblSound
<1>7. TheSemaphore!Waiters = {OSTCBPrioTbl[p] : p \in OSEventWait[TheSem]}
  <2>1. TheSemaphore!Waiters \subseteq Task
    BY DEF TheSemaphore!Waiters
  <2> QED BY <1>4, <1>5, <1>6, <2>1
<1>8. ASSUME NEW p \in OSEventWait[TheSem], IsHighest(p, OSEventWait[TheSem])
      PROVE  TheSemaphore!First(OSTCBPrioTbl[p])
  <2>1. ASSUME NEW q \in TheSemaphore!Waiters
        PROVE  OSTCBPrio[OSTCBPrioTbl[p]] <= OSTCBPrio[q]
    <3>1. q \in Task /\ OSTCBPrio[q] \in OSEventWait[TheSem]
      BY <1>4, <1>6, <2>1 DEF TheSemaphore!Waiters
    <3> QED BY <1>5, <1>8, <3>1 DEF IsHighest
  <2>2. OSTCBPrioTbl[p] \in TheSemaphore!Waiters
    BY <1>4, <1>5
  <2> QED BY <2>1, <2>2 DEF TheSemaphore!First
<1> QED BY <1>2, <1>4, <1>5, <1>7, <1>8

-----------------------------------------------------------------------------
(* Every step is a step of the abstract semaphore or a stutter.            *)

Stutters == UNCHANGED <<OSEventCnt[TheSem], TheStatus, OSTCBPrio>>

FlowKept(t) == pc'[t] = pc[t] /\ pevent'[t] = pevent[t]

\* The tasks stay where they are, or come and go without touching TheSem.
FlowAside(t) == FlowKept(t) \/ (Idling(t) /\ Idling(t)')

\* The types of what a step reads.
LEMMA Types ==
  ASSUME RInv
  PROVE  /\ TcbTypeOK /\ EventTypeOK /\ ReadyTypeOK /\ SwitchTypeOK /\ FlowTypeOK
         /\ OSTCBCur \in Task /\ TheSem \in Event /\ Null \notin Event /\ MaxCnt \in Nat
         /\ OSEventCnt \in [Event -> 0 .. MaxCnt]
BY CoreAssumption, ServiceAssumption, SemAssumption
DEF RInv, WInv, IInv, TypeOK, CoreTypeOK, SwitchTypeOK, CoreAssumption, ServiceAssumption,
    SemAssumption

\* A task that returns from a service is done with the semaphore.
LEMMA ReturnsFlow ==
  ASSUME RInv, NEW b \in BOOLEAN, Returns(b), NEW t \in Task
  PROVE  \/ FlowKept(t)
         \/ t = OSTCBCur /\ OSIntNesting = 0 /\ Idling(t)'
<1>1. OSTCBCur \in Task /\ FlowTypeOK /\ OSIntNesting \in Nat
  BY Types, CoreAssumption
  DEF RInv, WInv, IInv, TypeOK, CoreTypeOK, NestTypeOK, CoreAssumption
<1>2. CASE OSIntNesting > 0
  BY <1>2 DEF Returns, flowVars, FlowKept
<1>3. CASE OSIntNesting = 0
  <2>1. PICK place \in {"app", "OS_Sched"} : GoTo(place, Null)
    BY <1>3 DEF Returns
  <2>2. t # OSTCBCur => FlowKept(t)
    BY <1>1, <2>1 DEF GoTo, FlowTypeOK, FlowKept
  <2>3. pc'[OSTCBCur] = place
    BY <1>1, <2>1 DEF GoTo, FlowTypeOK
  <2> QED BY <1>3, <2>2, <2>3 DEF Idling, PendPlaces
<1> QED BY <1>1, <1>2, <1>3

\* The caller of a service of os_time.c or os_task.c is in application code.
LEMMA CallAside ==
  ASSUME RInv, NEW service, Call(service), NEW b \in BOOLEAN, Returns(b)
  PROVE  \A t \in Task : FlowAside(t)
<1>1. OSIntNesting > 0 \/ pc[OSTCBCur] = "app"
  BY CallFlow
<1>2. OSIntNesting = 0 => Idling(OSTCBCur)
  BY <1>1 DEF Idling, PendPlaces
<1> QED BY <1>2, ReturnsFlow DEF FlowAside

\* After its critical section a service called from a task leaves it, one called
\* from an ISR moves no task.
LEMMA SectionFlow ==
  ASSUME RInv, NEW service, NEW e, AtSection(service, e),
         NEW b \in BOOLEAN, Returns(b), NEW t \in Task
  PROVE  \/ FlowKept(t) /\ (OSIntNesting > 0 \/ t # OSTCBCur)
         \/ /\ t = OSTCBCur /\ OSIntNesting = 0
            /\ pc[t] = service /\ pevent[t] = e /\ Idling(t)'
<1>1. OSTCBCur \in Task /\ FlowTypeOK
  BY Types
<1>2. CASE OSIntNesting > 0
  BY <1>2, ReturnsFromIsr DEF flowVars, FlowKept
<1>3. CASE ~(OSIntNesting > 0)
  <2>1. Runs /\ pc[OSTCBCur] = service /\ pevent[OSTCBCur] = e
    BY <1>3 DEF AtSection, InTask, IsrCall, InIsr
  <2>2. PICK place \in {"app", "OS_Sched"} : GoTo(place, Null)
    BY <2>1, ReturnsGoes
  <2>3. t # OSTCBCur => FlowKept(t)
    BY <1>1, <2>2 DEF GoTo, FlowTypeOK, FlowKept
  <2>4. pc'[OSTCBCur] = place
    BY <1>1, <2>2 DEF GoTo, FlowTypeOK
  <2> QED BY <2>1, <2>3, <2>4 DEF Runs, Idling, PendPlaces
<1> QED BY <1>2, <1>3

\* If no task's outcome changes either, no status does.
LEMMA Undisturbed ==
  ASSUME UNCHANGED <<OSTCBStatPend, OSTCBEventPtr>>, \A t \in Task : FlowAside(t)
  PROVE  TheStatus' = TheStatus
<1>1. \A t \in Task : StaysPut(t)
  BY DEF FlowAside, FlowKept, StaysPut
<1> QED BY <1>1, AllStayPut

\* The end of a timeout is TimeOut, the end of a delay a stutter.
LEMMA EndsDelaySim ==
  ASSUME RInv, NEW u \in Task, EndsDelay(u), UNCHANGED OSEventCnt,
         \A t \in Task : FlowAside(t)
  PROVE  TheSemaphore!Next \/ Stutters
<1> USE DEF OS_STAT_PEND_ANY
<1>1. /\ TcbTypeOK /\ PendSound /\ Null # TheSem
      /\ \A t \in Task : ListedAt(t) /\ OutcomeAt(t)
  BY Types DEF RInv, WInv, IInv, Outcomes, Listed
<1>2. /\ OSTCBDly[u] # 0 /\ UNCHANGED <<OSTCBEventPtr, OSTCBPrio>>
      /\ OSTCBStatPend' = [OSTCBStatPend EXCEPT
           ![u] = IF OSTCBStat[u] \cap OS_STAT_PEND_ANY # {} THEN "TO" ELSE "OK"]
  BY DEF EndsDelay, DlyEnds
<1>3. \A t \in Task \ {u} : StaysPut(t)
  BY <1>1, <1>2 DEF FlowAside, FlowKept, StaysPut, TcbTypeOK
<1>4. CASE OSTCBEventPtr[u] = TheSem
  <2>1. ~Idling(u) /\ pc[u] \in PendPlaces
    BY <1>4, WaitersMeaning
  <2>2. FlowKept(u) /\ ~Idling(u)' /\ pc'[u] \in PendPlaces
    BY <2>1 DEF FlowAside, FlowKept, Idling
  <2>3. OSTCBStatPend[u] = "OK" /\ "SEM" \in OSTCBStat[u]
    BY <1>1, <1>2, <1>4 DEF PendSound, OutcomeAt
  <2>4. TheStatus[u] = "waiting"
    BY <1>1, <1>4, <2>1, <2>3, StatusMeaning DEF StatusFits, PendOutcome
  <2>5. OSTCBStatPend'[u] = "TO"
    BY <1>1, <1>2, <2>3 DEF TcbTypeOK
  <2>6. TheStatus'[u] = "timedout"
    BY <2>2, <2>5, StatusMeaning DEF StatusFits, PendOutcome
  <2>7. TheStatus' = [TheStatus EXCEPT ![u] = "timedout"]
    BY <1>3, <2>6, OneMoves
  <2>8. TheSemaphore!TimeOut(u)
    BY <1>2, <2>4, <2>7 DEF TheSemaphore!TimeOut, TheSemaphore!Moves
  <2> QED BY <2>8 DEF TheSemaphore!Next
<1>5. CASE OSTCBEventPtr[u] # TheSem
  <2>1. Idling(u) \/ pc[u] \notin PendPlaces
    BY <1>1, <1>2, <1>5 DEF PendSound, OutcomeAt, Idling
  <2>2. StaysPut(u)
    BY <2>1 DEF FlowAside, FlowKept, StaysPut, Idling
  <2> QED BY <1>2, <1>3, <2>2, AllStayPut DEF Stutters
<1> QED BY <1>4, <1>5

\* The scheduler, the context switch, interrupts and the tick.
LEMMA CoreSim ==
  ASSUME RInv, CoreNext, UNCHANGED OSEventCnt
  PROVE  TheSemaphore!Next \/ Stutters
<1>1. FlowTypeOK /\ OSTCBCur \in Task /\ TcbTypeOK
  BY Types
<1>2. ASSUME UNCHANGED flowVars PROVE \A t \in Task : FlowAside(t)
  BY <1>2 DEF flowVars, FlowAside, FlowKept
<1>3. ASSUME UNCHANGED <<tcbVars, flowVars>> PROVE Stutters
  BY <1>2, <1>3, Undisturbed DEF tcbVars, Stutters
<1>4. CASE OSSchedUnlock
  <2>1. /\ Returns(OSLockNesting = 1) /\ UNCHANGED tcbVars
        /\ Call("OSSchedLock")
    BY <1>4 DEF OSSchedUnlock, Call
  <2>2. \A t \in Task : FlowAside(t)
    BY <2>1, CallAside
  <2> QED BY <2>1, <2>2, Undisturbed DEF tcbVars, Stutters
<1>5. CASE OS_Sched
  <2>1. /\ pc[OSTCBCur] \in {"OS_Sched", "OSPend_Sched"} /\ UNCHANGED tcbVars
        /\ GoTo(AfterSched[pc[OSTCBCur]], pevent[OSTCBCur])
    BY <1>5, SchedPlacesFacts DEF OS_Sched, SchedPlaces
  <2>2. ASSUME NEW t \in Task PROVE StaysPut(t)
    <3>1. CASE t # OSTCBCur
      BY <1>1, <2>1, <3>1 DEF GoTo, FlowTypeOK, StaysPut, tcbVars
    <3>2. CASE t = OSTCBCur
      <4>1. pevent'[t] = pevent[t] /\ pc'[t] = AfterSched[pc[t]]
        BY <1>1, <2>1, <3>2 DEF GoTo, FlowTypeOK
      <4>2. CASE pc[t] = "OS_Sched"
        BY <4>1, <4>2, SchedPlacesFacts DEF StaysPut, Idling, PendPlaces
      <4>3. CASE pc[t] = "OSPend_Sched"
        <5>1. {pc[t], pc'[t]} \subseteq PendPlaces
          BY <4>1, <4>3, SchedPlacesFacts DEF PendPlaces
        <5> QED BY <2>1, <4>1, <5>1 DEF StaysPut, tcbVars
      <4> QED BY <2>1, <3>2, <4>2, <4>3
    <3> QED BY <3>1, <3>2
  <2> QED BY <2>1, <2>2, AllStayPut DEF tcbVars, Stutters
<1>6. CASE OSTimeTick_Step
  <2> DEFINE t == Head(ptcb)
  <2>1. UNCHANGED flowVars /\ t \in Task /\ UNCHANGED <<OSTCBPrioTbl, OSEventWait>>
    BY <1>6, HeadTailProperties
    DEF OSTimeTick_Step, RInv, WInv, IInv, TypeOK, CoreTypeOK, TickTypeOK, TickSound, eventVars
  <2>2. CASE OSTCBDly[t] = 1
    <3>1. EndsDelay(t)
      BY <1>6, <2>1, <2>2 DEF OSTimeTick_Step, EndsDelay
    <3> QED BY <1>2, <2>1, <3>1, EndsDelaySim
  <2>3. CASE OSTCBDly[t] # 1
    <3>1. UNCHANGED <<OSTCBStatPend, OSTCBEventPtr, OSTCBPrio>>
      BY <1>6, <2>3 DEF OSTimeTick_Step
    <3> QED BY <1>2, <2>1, <3>1, Undisturbed DEF Stutters
  <2> QED BY <2>2, <2>3
<1> QED
  BY <1>3, <1>4, <1>5, <1>6
  DEF CoreNext, PendSV_Handler, OSSchedLock, OSIntEnter, OSIntExit, OSTimeTick

\* Delays, suspensions and changes of priority.
LEMMA TaskSim ==
  ASSUME RInv, TaskNext, UNCHANGED OSEventCnt
  PROVE  TheSemaphore!Next \/ Stutters
<1>1. FlowTypeOK /\ TcbTypeOK
  BY Types
<1>2. ASSUME NEW ticks \in 1 .. MaxDly, OSTimeDly(ticks) PROVE Stutters
  <2>1. /\ Call("OSTimeDly") /\ Returns(TRUE)
        /\ UNCHANGED <<OSTCBStatPend, OSTCBEventPtr, OSTCBPrio>>
    BY <1>2 DEF OSTimeDly, Call
  <2> QED BY <2>1, CallAside, Undisturbed DEF Stutters
<1>3. ASSUME NEW prio \in Prio, OSTimeDlyResume(prio)
      PROVE  TheSemaphore!Next \/ Stutters
  <2> DEFINE t == OSTCBPrioTbl[prio]
  <2>1. /\ Call("OSTimeDlyResume") /\ Returns("SUSPEND" \notin OSTCBStat[t])
        /\ t \in Task /\ EndsDelay(t)
    BY <1>3 DEF OSTimeDlyResume, NamesTask, EndsDelay, eventVars
  <2>2. \A u \in Task : FlowAside(u)
    BY <2>1, CallAside
  <2> QED BY <2>1, <2>2, EndsDelaySim
<1>4. ASSUME NEW prio \in Prio, OSTaskSuspend(prio) \/ OSTaskResume(prio)
      PROVE  Stutters
  <2>1. /\ \E service : Call(service) /\ \E b \in BOOLEAN : Returns(b)
        /\ UNCHANGED <<OSTCBStatPend, OSTCBEventPtr, OSTCBPrio>>
    BY <1>4 DEF OSTaskSuspend, OSTaskResume
  <2>2. \A u \in Task : FlowAside(u)
    BY <2>1, CallAside
  <2> QED BY <2>1, <2>2, Undisturbed DEF Stutters
<1>5. ASSUME NEW old \in Prio, NEW new \in Prio, OSTaskChangePrio(old, new)
      PROVE  TheSemaphore!Next
  <2>1. /\ Call("OSTaskChangePrio") /\ Returns(TRUE)
        /\ UNCHANGED <<OSTCBStatPend, OSTCBEventPtr>>
        /\ \E t : OSTCBPrio' = [OSTCBPrio EXCEPT ![t] = new]
    BY <1>5 DEF OSTaskChangePrio
  <2>2. TheStatus' = TheStatus
    BY <2>1, CallAside, Undisturbed
  <2>3. \A p \in Prio : p \in Nat
    BY CoreAssumption DEF CoreAssumption, Prio
  <2>4. OSTCBPrio' \in [Task -> Nat]
    BY <1>1, <2>1, <2>3 DEF TcbTypeOK
  <2> QED BY <2>1, <2>2, <2>4 DEF TheSemaphore!Next, TheSemaphore!Reprioritise
<1> QED BY <1>2, <1>3, <1>4, <1>5 DEF TaskNext, TaskControl

-----------------------------------------------------------------------------
(* The services of os_sem.c.                                               *)

\* A task passes the type check: Ask or StartPost, or nothing to TheSem.
LEMMA EnterSim ==
  ASSUME RInv, NEW service \in SemServices, NEW e \in Event, OSSem_Enter(service, e)
  PROVE  TheSemaphore!Next \/ Stutters
<1>1. FlowTypeOK /\ OSTCBCur \in Task
  BY Types
<1>2. PICK u \in Task : u = OSTCBCur
  BY <1>1
<1>3. /\ pc[u] = "app" /\ GoTo(service, e)
      /\ UNCHANGED <<OSTCBStatPend, OSTCBEventPtr, OSTCBPrio, OSEventCnt>>
  BY <1>2 DEF OSSem_Enter, TaskCall, InTask, tcbVars
<1>4. pc'[u] = service /\ pevent'[u] = e
  BY <1>1, <1>2, <1>3 DEF GoTo, FlowTypeOK
<1>5. \A t \in Task \ {u} : FlowKept(t)
  BY <1>1, <1>2, <1>3 DEF GoTo, FlowTypeOK, FlowKept
<1>6. \A t \in Task \ {u} : StaysPut(t)
  BY <1>3, <1>5 DEF FlowKept, StaysPut
<1>7. Idling(u) /\ TheStatus[u] = "idle"
  BY <1>3, StatusMeaning DEF Idling, PendPlaces, StatusFits
<1>8. CASE e = TheSem /\ service = "OSSemPend"
  <2>1. TheStatus'[u] = "asking"
    BY <1>4, <1>8, StatusMeaning DEF StatusFits, Idling
  <2>2. TheSemaphore!Ask(u)
    BY <1>3, <1>6, <1>7, <2>1, OneMoves DEF TheSemaphore!Ask, TheSemaphore!Moves
  <2> QED BY <2>2 DEF TheSemaphore!Next
<1>9. CASE e = TheSem /\ service = "OSSemPost"
  <2>1. TheStatus'[u] = "posting"
    BY <1>4, <1>9, StatusMeaning DEF StatusFits, Idling
  <2>2. TheSemaphore!StartPost(u)
    BY <1>3, <1>6, <1>7, <2>1, OneMoves DEF TheSemaphore!StartPost, TheSemaphore!Moves
  <2> QED BY <2>2 DEF TheSemaphore!Next
<1>10. CASE e # TheSem \/ service \notin {"OSSemPend", "OSSemPost"}
  <2>1. Idling(u)'
    BY <1>4, <1>10 DEF Idling, PendPlaces, SemServices
  <2>2. \A t \in Task : FlowAside(t)
    BY <1>5, <1>7, <2>1 DEF FlowAside
  <2> QED BY <1>3, <2>2, Undisturbed DEF Stutters
<1> QED BY <1>8, <1>9, <1>10

\* A service other than OSSemPend and OSSemPost that touches no task: in its
\* critical section and after it the caller is idle.
LEMMA AsideSim ==
  ASSUME RInv, NEW service, NEW e, AtSection(service, e),
         service \notin {"OSSemPend", "OSSemPost"} \cup PendPlaces,
         NEW b \in BOOLEAN, Returns(b)
  PROVE  \A t \in Task : FlowAside(t)
BY SectionFlow DEF FlowAside, Idling

\* OSSemAccept is Accept or finds no token.
LEMMA AcceptSim ==
  ASSUME RInv, NEW e \in Event, OSSemAccept(e)
  PROVE  TheSemaphore!Next \/ Stutters
<1>1. OSEventCnt \in [Event -> 0 .. MaxCnt] /\ TheSem \in Event
  BY Types
<1>2. /\ AtSection("OSSemAccept", e) /\ Returns(FALSE) /\ UNCHANGED tcbVars
      /\ OSEventCnt' = [OSEventCnt EXCEPT
                          ![e] = IF OSEventCnt[e] > 0 THEN OSEventCnt[e] - 1 ELSE OSEventCnt[e]]
  BY DEF OSSemAccept, KernelUnchanged
<1>3. \A t \in Task : FlowAside(t)
  BY <1>2, AsideSim DEF PendPlaces
<1>4. TheStatus' = TheStatus /\ UNCHANGED OSTCBPrio
  BY <1>2, <1>3, Undisturbed DEF tcbVars
<1>5. CASE e = TheSem /\ OSEventCnt[e] > 0
  <2>1. TheSemaphore!Accept
    BY <1>1, <1>2, <1>4, <1>5 DEF TheSemaphore!Accept
  <2> QED BY <2>1 DEF TheSemaphore!Next
<1>6. CASE ~(e = TheSem /\ OSEventCnt[e] > 0)
  BY <1>1, <1>2, <1>4, <1>6 DEF Stutters
<1> QED BY <1>5, <1>6

\* OSSemSet is Set or refuses.
LEMMA SetSim ==
  ASSUME RInv, NEW e \in Event, NEW cnt \in 0 .. MaxCnt, OSSemSet(e, cnt)
  PROVE  TheSemaphore!Next \/ Stutters
<1>1. OSEventCnt \in [Event -> 0 .. MaxCnt] /\ TheSem \in Event
  BY Types
<1>2. /\ AtSection("OSSemSet", e) /\ Returns(FALSE) /\ UNCHANGED tcbVars
      /\ OSEventCnt' = [OSEventCnt EXCEPT
                          ![e] = IF OSEventCnt[e] > 0 \/ OSEventWait[e] = {}
                                   THEN cnt ELSE OSEventCnt[e]]
  BY DEF OSSemSet, KernelUnchanged
<1>3. \A t \in Task : FlowAside(t)
  BY <1>2, AsideSim DEF PendPlaces
<1>4. TheStatus' = TheStatus /\ UNCHANGED OSTCBPrio
  BY <1>2, <1>3, Undisturbed DEF tcbVars
<1>5. CASE e = TheSem /\ (OSEventCnt[e] > 0 \/ OSEventWait[e] = {})
  <2>1. OSEventCnt[TheSem] > 0 \/ TheSemaphore!Waiters = {}
    BY <1>5, WaitersMeaning
  <2>2. TheSemaphore!Set(cnt)
    BY <1>1, <1>2, <1>4, <1>5, <2>1 DEF TheSemaphore!Set
  <2> QED BY <2>2 DEF TheSemaphore!Next
<1>6. CASE ~(e = TheSem /\ (OSEventCnt[e] > 0 \/ OSEventWait[e] = {}))
  BY <1>1, <1>2, <1>4, <1>6 DEF Stutters
<1> QED BY <1>5, <1>6

\* OSSemPend that finds a token is Take.
LEMMA TakeSim ==
  ASSUME RInv, NEW e \in Event, OSSemPend_Take(e)
  PROVE  TheSemaphore!Next \/ Stutters
<1>1. OSEventCnt \in [Event -> 0 .. MaxCnt] /\ TheSem \in Event /\ OSTCBCur \in Task
  BY Types
<1>2. PICK u \in Task : u = OSTCBCur
  BY <1>1
<1>3. /\ AtSection("OSSemPend", e) /\ Returns(FALSE) /\ OSIntNesting = 0
      /\ pc[u] = "OSSemPend" /\ pevent[u] = e
      /\ UNCHANGED <<OSTCBStatPend, OSTCBEventPtr, OSTCBPrio>>
      /\ OSEventCnt[e] > 0 /\ OSEventCnt' = [OSEventCnt EXCEPT ![e] = OSEventCnt[e] - 1]
  BY <1>2 DEF OSSemPend_Take, KernelUnchanged, AtSection, InTask, Runs, tcbVars
<1>4. \A t \in Task \ {u} : FlowKept(t)
  BY <1>2, <1>3, SectionFlow
<1>5. Idling(u)'
  <2>1. ~(OSIntNesting > 0)
    BY <1>3
  <2> QED BY <1>2, <1>3, <2>1, SectionFlow, Zenon
<1>6. CASE e = TheSem
  <2>1. TheStatus[u] = "asking" /\ TheStatus'[u] = "idle"
    BY <1>3, <1>5, <1>6, StatusMeaning DEF StatusFits, Idling
  <2>2. \A t \in Task \ {u} : StaysPut(t)
    BY <1>3, <1>4 DEF FlowKept, StaysPut
  <2>3. TheSemaphore!Take(u)
    BY <1>1, <1>3, <1>6, <2>1, <2>2, OneMoves DEF TheSemaphore!Take, TheSemaphore!Moves
  <2> QED BY <2>3 DEF TheSemaphore!Next
<1>7. CASE e # TheSem
  <2>1. \A t \in Task : FlowAside(t)
    BY <1>3, <1>4, <1>5, <1>7 DEF FlowAside, Idling
  <2> QED BY <1>1, <1>3, <1>7, <2>1, Undisturbed DEF Stutters
<1> QED BY <1>6, <1>7

\* OSSemPend that finds none is Wait.
LEMMA BlockSim ==
  ASSUME RInv, NEW e \in Event, NEW timeout \in 0 .. MaxDly, OSSemPend_Block(e, timeout)
  PROVE  TheSemaphore!Next \/ Stutters
<1>1. FlowTypeOK /\ TcbTypeOK /\ OSTCBCur \in Task /\ Null # e
  BY Types
<1>2. PICK u \in Task : u = OSTCBCur
  BY <1>1
<1>3. /\ pc[u] = "OSSemPend" /\ pevent[u] = e /\ OSEventCnt[e] = 0
      /\ OSTCBStatPend' = [OSTCBStatPend EXCEPT ![u] = "OK"]
      /\ OSTCBEventPtr' = [OSTCBEventPtr EXCEPT ![u] = e]
      /\ pc' = [pc EXCEPT ![u] = "OSPend_Sched"]
      /\ pevent' = [pevent EXCEPT ![u] = e]
      /\ UNCHANGED <<OSTCBPrio, OSEventCnt>>
  BY <1>2 DEF OSSemPend_Block, OS_EventTaskWait, GoTo, InTask
<1>4. \A t \in Task \ {u} : StaysPut(t)
  BY <1>1, <1>3 DEF FlowTypeOK, TcbTypeOK, StaysPut
<1>5. /\ pc'[u] = "OSPend_Sched" /\ pevent'[u] = e
      /\ OSTCBStatPend'[u] = "OK" /\ OSTCBEventPtr'[u] = e
  BY <1>1, <1>3 DEF FlowTypeOK, TcbTypeOK
<1>6. CASE e = TheSem
  <2>1. TheStatus[u] = "asking"
    BY <1>3, <1>6, StatusMeaning DEF StatusFits, Idling
  <2>2. TheStatus'[u] = "waiting"
    BY <1>1, <1>5, <1>6, StatusMeaning DEF StatusFits, Idling, PendOutcome, PendPlaces
  <2>3. TheSemaphore!Wait(u)
    BY <1>3, <1>4, <1>6, <2>1, <2>2, OneMoves DEF TheSemaphore!Wait, TheSemaphore!Moves
  <2> QED BY <2>3 DEF TheSemaphore!Next
<1>7. CASE e # TheSem
  <2>1. StaysPut(u)
    BY <1>3, <1>5, <1>7 DEF StaysPut, Idling
  <2> QED BY <1>3, <1>4, <2>1, AllStayPut DEF Stutters
<1> QED BY <1>6, <1>7

\* The end of a pend that had to wait is Return.
LEMMA TailSim ==
  ASSUME RInv, OSSemPend_Tail
  PROVE  TheSemaphore!Next \/ Stutters
<1>1. /\ TcbTypeOK /\ OSTCBCur \in Task /\ Null # TheSem
      /\ PendSound /\ IInv /\ \A t \in Task : OutcomeAt(t)
  BY Types DEF RInv, WInv, IInv, Outcomes
<1>2. PICK u \in Task : u = OSTCBCur
  BY <1>1
<1>3. /\ pc[u] = "OSPend_Tail" /\ OSIntNesting = 0
      /\ AtSection("OSPend_Tail", pevent[u]) /\ Returns(FALSE)
      /\ OSTCBStatPend' = [OSTCBStatPend EXCEPT ![u] = "OK"]
      /\ OSTCBEventPtr' = [OSTCBEventPtr EXCEPT ![u] = Null]
      /\ UNCHANGED <<OSTCBPrio, OSEventCnt>>
  BY <1>2 DEF OSSemPend_Tail, OSPend_Tail, InTask, Runs, AtSection
<1>4. \A t \in Task \ {u} : StaysPut(t)
  <2>1. \A t \in Task \ {u} : FlowKept(t)
    BY <1>2, <1>3, SectionFlow
  <2> QED BY <1>1, <1>3, <2>1 DEF TcbTypeOK, FlowKept, StaysPut
<1>5. Idling(u)'
  <2>1. ~(OSIntNesting > 0)
    BY <1>3
  <2> QED BY <1>2, <1>3, <2>1, SectionFlow, Zenon
<1>6. CASE pevent[u] = TheSem
  <2>1. ~Idling(u) /\ pc[u] \in PendPlaces
    BY <1>3, <1>6 DEF Idling, PendPlaces
  <2>2. "SEM" \notin OSTCBStat[u]
    BY <1>2, TailIsReady, <1>1 DEF IsReady, OS_STAT_PEND_ANY
  <2>3. TheStatus[u] # "waiting"
    BY <1>1, <2>1, <2>2, StatusMeaning DEF StatusFits, PendOutcome, PendSound
  <2>4. TheStatus[u] \in {"granted", "timedout", "aborted"} /\ TheStatus'[u] = "idle"
    BY <1>5, <2>1, <2>3, StatusMeaning DEF StatusFits, PendOutcome
  <2>5. TheSemaphore!Return(u)
    BY <1>3, <1>4, <2>4, OneMoves DEF TheSemaphore!Return, TheSemaphore!Moves
  <2> QED BY <2>5 DEF TheSemaphore!Next
<1>7. CASE pevent[u] # TheSem
  <2>1. StaysPut(u)
    BY <1>5, <1>7 DEF StaysPut, Idling
  <2> QED BY <1>3, <1>4, <2>1, AllStayPut DEF Stutters
<1> QED BY <1>6, <1>7

\* A waiter that a post or an abort readies has its outcome with TheSem; the
\* status of every other task is as before.
LEMMA WokenStatus ==
  ASSUME RInv, NEW e \in Event, NEW W, NEW ps, Wakes(e, W, ps),
         NEW t \in Task, FlowKept(t)
  PROVE  IF e = TheSem /\ t \in {OSTCBPrioTbl[p] : p \in W}
           THEN TheStatus'[t] = IF ps = "OK" THEN "granted" ELSE "aborted"
           ELSE TheStatus'[t] = TheStatus[t]
<1> DEFINE T == {OSTCBPrioTbl[p] : p \in W}
<1>1. /\ WaitListSound /\ PendSound /\ FlowTypeOK
  BY DEF RInv, WInv, IInv, TypeOK, CoreTypeOK
<1>2. /\ ps \in {"OK", "ABORT"}
      /\ OSTCBStatPend'[t] = IF t \in T THEN ps ELSE OSTCBStatPend[t]
      /\ OSTCBEventPtr'[t] = IF t \in T THEN Null ELSE OSTCBEventPtr[t]
  BY DEF Wakes, OS_EventTaskRdy, WaitEnds
<1>3. t \in T => OSTCBEventPtr[t] = e
  BY <1>1 DEF Wakes, WaitListSound
<1>4. t \in T => pevent[t] = e /\ pc[t] \in PendPlaces
  BY <1>1, <1>3, CoreAssumption DEF PendSound, CoreAssumption
<1>5. CASE t \notin T
  BY <1>2, <1>5, StatusKept DEF FlowKept, StaysPut
<1>6. CASE t \in T /\ e # TheSem
  <2>1. StaysPut(t)
    BY <1>4, <1>6 DEF FlowKept, StaysPut, Idling
  <2> QED BY <1>6, <2>1, StatusKept
<1>7. CASE t \in T /\ e = TheSem
  <2>1. ~Idling(t)' /\ pc'[t] \in PendPlaces
    BY <1>4, <1>7 DEF FlowKept, Idling
  <2> QED BY <1>2, <1>7, <2>1, StatusMeaning DEF StatusFits, PendOutcome
<1> QED BY <1>5, <1>6, <1>7

\* What OSSemPost does to the poster.
LEMMA PosterFlow ==
  ASSUME RInv, NEW e \in Event, OSSemPost(e), NEW t \in Task
  PROVE  \/ FlowKept(t) /\ (OSIntNesting > 0 \/ t # OSTCBCur)
         \/ /\ t = OSTCBCur /\ OSIntNesting = 0
            /\ pc[t] = "OSSemPost" /\ pevent[t] = e /\ Idling(t)'
<1>1. AtSection("OSSemPost", e) /\ \E b \in BOOLEAN : Returns(b)
  BY DEF OSSemPost
<1> QED BY <1>1, SectionFlow

\* OSSemPost with a waiter wakes the first one.
LEMMA PostWakes ==
  ASSUME RInv, NEW e \in Event, OSSemPost(e), OSEventWait[e] # {}
  PROVE  \E p \in OSEventWait[e] : IsHighest(p, OSEventWait[e]) /\ Wakes(e, {p}, "OK")
<1>1. PICK W \in Readied(e, FALSE) : OS_EventTaskRdy(e, W, "SEM", "OK")
  BY DEF OSSemPost
<1>2. PICK p \in OSEventWait[e] : IsHighest(p, OSEventWait[e]) /\ W = {p}
  BY <1>1 DEF Readied
<1>3. Wakes(e, {p}, "OK")
  BY <1>1, <1>2 DEF OSSemPost, SwitchUnchanged, Wakes
<1> QED BY <1>2, <1>3

\* OSSemPost to another semaphore is a stutter.
LEMMA PostElsewhere ==
  ASSUME RInv, NEW e \in Event \ {TheSem}, OSSemPost(e)
  PROVE  Stutters
<1>1. OSEventCnt \in [Event -> 0 .. MaxCnt] /\ TheSem \in Event
  BY Types
<1>2. OSEventCnt'[TheSem] = OSEventCnt[TheSem]
  BY <1>1 DEF OSSemPost
<1>3. CASE OSEventWait[e] = {}
  <2>1. UNCHANGED tcbVars
    BY <1>3 DEF OSSemPost
  <2>2. \A t \in Task : FlowAside(t)
    BY PosterFlow DEF FlowAside, Idling
  <2> QED BY <1>2, <2>1, <2>2, Undisturbed DEF tcbVars, Stutters
<1>4. CASE OSEventWait[e] # {}
  <2>1. PICK p \in OSEventWait[e] : Wakes(e, {p}, "OK")
    BY <1>4, PostWakes
  <2>2. ASSUME NEW t \in Task PROVE TheStatus'[t] = TheStatus[t]
    <3>1. CASE FlowKept(t)
      BY <2>1, <3>1, WokenStatus
    <3>2. CASE ~FlowKept(t)
      <4>1. pevent[t] = e /\ Idling(t)'
        BY <3>2, PosterFlow
      <4>2. StaysPut(t)
        BY <4>1 DEF StaysPut, Idling
      <4> QED BY <4>2, StatusKept
    <3> QED BY <3>1, <3>2
  <2>3. TheStatus' = TheStatus
    BY <2>2 DEF TheStatus
  <2> QED BY <1>2, <2>1, <2>3 DEF Wakes, OS_EventTaskRdy, Stutters
<1> QED BY <1>3, <1>4

\* The status of all after the poster has left.
AfterPost ==
  IF OSIntNesting > 0 THEN TheStatus ELSE [TheStatus EXCEPT ![OSTCBCur] = "idle"]

\* OSSemPost leaves those it does not wake as AfterPost says.
LEMMA PosterLeaves ==
  ASSUME RInv, OSSemPost(TheSem)
  PROVE  /\ OSIntNesting = 0 => OSTCBCur \in Task /\ TheStatus[OSTCBCur] = "posting"
         /\ \A t \in Task :
              \/ FlowKept(t) /\ AfterPost[t] = TheStatus[t]
              \/ /\ OSTCBEventPtr[t] # TheSem
                 /\ TheStatus'[t] = AfterPost[t]
<1>1. OSTCBCur \in Task /\ TheSem \in Event /\ OSIntNesting \in Nat
  BY Types, CoreAssumption
  DEF RInv, WInv, IInv, TypeOK, CoreTypeOK, NestTypeOK, CoreAssumption
<1>2. TheStatus \in [Task -> {TheStatus[t] : t \in Task}] /\ DOMAIN TheStatus = Task
  BY DEF TheStatus
<1>3. ASSUME NEW t \in Task, FlowKept(t), OSIntNesting > 0 \/ t # OSTCBCur
      PROVE  AfterPost[t] = TheStatus[t]
  BY <1>1, <1>2, <1>3 DEF AfterPost
<1>4. ASSUME NEW t \in Task, t = OSTCBCur, OSIntNesting = 0,
             pc[t] = "OSSemPost", pevent[t] = TheSem, Idling(t)'
      PROVE  /\ TheStatus[t] = "posting" /\ AfterPost[t] = "idle" /\ TheStatus'[t] = "idle"
             /\ OSTCBEventPtr[t] # TheSem
  <2>1. TheStatus[t] = "posting" /\ TheStatus'[t] = "idle"
    BY <1>4, StatusMeaning DEF StatusFits, Idling
  <2>2. AfterPost[t] = "idle"
    BY <1>2, <1>4 DEF AfterPost
  <2>3. OSTCBEventPtr[t] # TheSem
    BY <1>4, WaitersMeaning DEF PendPlaces
  <2> QED BY <2>1, <2>2, <2>3
<1>5. ASSUME OSIntNesting = 0 PROVE TheStatus[OSTCBCur] = "posting"
  <2>1. PICK u \in Task : u = OSTCBCur
    BY <1>1
  <2>2. ~(OSIntNesting > 0)
    BY <1>5
  <2>3. /\ u = OSTCBCur /\ OSIntNesting = 0
        /\ pc[u] = "OSSemPost" /\ pevent[u] = TheSem /\ Idling(u)'
    BY <1>1, <2>1, <2>2, PosterFlow
  <2> QED BY <1>4, <2>1, <2>3
<1>6. ASSUME NEW t \in Task
      PROVE  \/ FlowKept(t) /\ AfterPost[t] = TheStatus[t]
             \/ /\ OSTCBEventPtr[t] # TheSem
                /\ TheStatus'[t] = AfterPost[t]
  <2>1. CASE FlowKept(t) /\ (OSIntNesting > 0 \/ t # OSTCBCur)
    BY <1>3, <2>1
  <2>2. CASE /\ t = OSTCBCur /\ OSIntNesting = 0
             /\ pc[t] = "OSSemPost" /\ pevent[t] = TheSem /\ Idling(t)'
    BY <1>4, <2>2
  <2> QED BY <1>1, <2>1, <2>2, PosterFlow
<1> QED BY <1>1, <1>5, <1>6

\* The effect of OSSemPost is that of the abstract post.
LEMMA PostDelivers ==
  ASSUME RInv, OSSemPost(TheSem)
  PROVE  TheSemaphore!Deliver(AfterPost)
<1>1. OSEventCnt \in [Event -> 0 .. MaxCnt] /\ TheSem \in Event /\ MaxCnt \in Nat
  BY Types
<1>2. DOMAIN AfterPost = Task /\ AfterPost = [t \in Task |-> AfterPost[t]]
  BY DEF AfterPost, TheStatus
<1>3. CASE OSEventWait[TheSem] = {}
  <2>1. /\ UNCHANGED tcbVars
        /\ OSEventCnt' = [OSEventCnt EXCEPT ![TheSem] =
                            IF OSEventCnt[TheSem] < MaxCnt THEN OSEventCnt[TheSem] + 1
                                                          ELSE OSEventCnt[TheSem]]
    BY <1>3 DEF OSSemPost
  <2>2. ASSUME NEW t \in Task PROVE TheStatus'[t] = AfterPost[t]
    <3>1. FlowKept(t) => StaysPut(t)
      BY <2>1 DEF FlowKept, StaysPut, tcbVars
    <3> QED BY <3>1, PosterLeaves, StatusKept
  <2>3. TheStatus' = AfterPost
    BY <1>2, <2>2 DEF TheStatus
  <2>4. TheSemaphore!Waiters = {}
    BY <1>3, WaitersMeaning
  <2>5. OSEventCnt'[TheSem] = IF OSEventCnt[TheSem] < MaxCnt THEN OSEventCnt[TheSem] + 1
                                                          ELSE OSEventCnt[TheSem]
    BY <1>1, <2>1
  <2> QED BY <2>1, <2>3, <2>4, <2>5 DEF TheSemaphore!Deliver, tcbVars
<1>4. CASE OSEventWait[TheSem] # {}
  <2>1. PICK p \in OSEventWait[TheSem] :
          IsHighest(p, OSEventWait[TheSem]) /\ Wakes(TheSem, {p}, "OK")
    BY <1>1, <1>4, PostWakes
  <2>2. PICK w \in Task : w = OSTCBPrioTbl[p]
    BY <2>1, WaitersMeaning
  <2>3. TheSemaphore!First(w) /\ OSTCBEventPtr[w] = TheSem
    BY <2>1, <2>2, WaitersMeaning
  <2>4. {OSTCBPrioTbl[q] : q \in {p}} = {w}
    BY <2>2
  <2>5. ASSUME NEW t \in Task
        PROVE  TheStatus'[t] = IF t = w THEN "granted" ELSE AfterPost[t]
    <3>1. CASE FlowKept(t) /\ AfterPost[t] = TheStatus[t]
      BY <1>1, <2>1, <2>4, <3>1, WokenStatus
    <3>2. CASE OSTCBEventPtr[t] # TheSem /\ TheStatus'[t] = AfterPost[t]
      BY <2>3, <3>2
    <3> QED BY <3>1, <3>2, PosterLeaves
  <2>6. TheStatus' = [AfterPost EXCEPT ![w] = "granted"]
    BY <1>2, <2>5 DEF TheStatus
  <2>7. UNCHANGED <<OSEventCnt, OSTCBPrio>>
    BY <1>4, <2>1 DEF OSSemPost, Wakes, OS_EventTaskRdy
  <2> QED BY <2>3, <2>6, <2>7 DEF TheSemaphore!Deliver
<1> QED BY <1>3, <1>4

\* OSSemPost is Post or PostFromIsr.
LEMMA PostSim ==
  ASSUME RInv, NEW e \in Event, OSSemPost(e)
  PROVE  TheSemaphore!Next \/ Stutters
<1>1. CASE e # TheSem
  BY <1>1, PostElsewhere
<1>2. CASE e = TheSem
  <2>1. TheSemaphore!Deliver(AfterPost)
    BY <1>2, PostDelivers
  <2>2. CASE OSIntNesting > 0
    <3>1. TheSemaphore!PostFromIsr
      BY <2>1, <2>2 DEF AfterPost, TheSemaphore!PostFromIsr
    <3> QED BY <3>1 DEF TheSemaphore!Next
  <2>3. CASE OSIntNesting = 0
    <3>1. OSTCBCur \in Task /\ TheStatus[OSTCBCur] = "posting"
      BY <1>2, <2>3, PosterLeaves
    <3>2. TheSemaphore!Post(OSTCBCur)
      BY <2>1, <2>3, <3>1 DEF AfterPost, TheSemaphore!Post
    <3> QED BY <3>1, <3>2 DEF TheSemaphore!Next
  <2>4. OSIntNesting \in Nat
    BY CoreAssumption DEF RInv, WInv, IInv, TypeOK, CoreTypeOK, NestTypeOK, CoreAssumption
  <2> QED BY <2>2, <2>3, <2>4
<1> QED BY <1>1, <1>2

\* OSSemPendAbort is Abort or finds nobody waiting.
LEMMA AbortSim ==
  ASSUME RInv, NEW e \in Event, NEW all \in BOOLEAN, OSSemPendAbort(e, all)
  PROVE  TheSemaphore!Next \/ Stutters
<1>1. /\ AtSection("OSSemPendAbort", e) /\ \E b \in BOOLEAN : Returns(b)
      /\ UNCHANGED OSEventCnt
  BY DEF OSSemPendAbort
<1>2. \A t \in Task : FlowAside(t)
  BY <1>1, AsideSim DEF PendPlaces
<1>3. CASE OSEventWait[e] = {}
  BY <1>1, <1>2, <1>3, Undisturbed DEF OSSemPendAbort, tcbVars, Stutters
<1>4. CASE OSEventWait[e] # {}
  <2>1. PICK W \in Readied(e, all) : OS_EventTaskRdy(e, W, "SEM", "ABORT")
    BY <1>4 DEF OSSemPendAbort
  <2>2. /\ \/ W = OSEventWait[e]
           \/ \E p \in OSEventWait[e] : IsHighest(p, OSEventWait[e]) /\ W = {p}
        /\ Wakes(e, W, "ABORT")
    BY <2>1 DEF Readied, OSSemPendAbort, SwitchUnchanged, Wakes
  <2> DEFINE S == {OSTCBPrioTbl[p] : p \in W}
  <2>3. e = TheSem => S \subseteq TheSemaphore!Waiters
    BY <2>2, WaitersMeaning
  <2>4. ASSUME NEW t \in Task
        PROVE  TheStatus'[t] = IF e = TheSem /\ t \in S THEN "aborted" ELSE TheStatus[t]
    <3>1. CASE FlowKept(t)
      BY <2>2, <3>1, WokenStatus
    <3>2. CASE ~FlowKept(t)
      <4>1. Idling(t) /\ Idling(t)'
        BY <1>2, <3>2 DEF FlowAside
      <4>2. TheStatus'[t] = TheStatus[t]
        BY <4>1, StatusKept DEF StaysPut
      <4>3. ~(e = TheSem /\ t \in S)
        BY <2>3, <4>1, WaitersMeaning
      <4> QED BY <4>2, <4>3
    <3> QED BY <3>1, <3>2
  <2>5. UNCHANGED <<OSEventCnt, OSTCBPrio>>
    BY <1>1, <2>2 DEF Wakes, OS_EventTaskRdy
  <2>6. CASE e # TheSem
    <3>1. TheStatus' = TheStatus
      BY <2>4, <2>6 DEF TheStatus
    <3> QED BY <2>5, <3>1 DEF Stutters
  <2>7. CASE e = TheSem
    <3>1. TheStatus' = [t \in Task |-> IF t \in S THEN "aborted" ELSE TheStatus[t]]
      BY <2>4, <2>7 DEF TheStatus
    <3>2. S = TheSemaphore!Waiters \/ \E w \in Task : TheSemaphore!First(w) /\ S = {w}
      <4>1. CASE W = OSEventWait[e]
        BY <2>7, <4>1, WaitersMeaning
      <4>2. CASE \E p \in OSEventWait[e] : IsHighest(p, OSEventWait[e]) /\ W = {p}
        <5>1. PICK p \in OSEventWait[e] : IsHighest(p, OSEventWait[e]) /\ W = {p}
          BY <4>2
        <5>2. /\ OSTCBPrioTbl[p] \in Task /\ TheSemaphore!First(OSTCBPrioTbl[p])
              /\ S = {OSTCBPrioTbl[p]}
          BY <2>7, <5>1, WaitersMeaning
        <5> QED BY <5>2
      <4> QED BY <2>2, <4>1, <4>2
    <3>3. TheSemaphore!Abort(S)
      BY <2>5, <3>1, <3>2 DEF TheSemaphore!Abort
    <3> QED BY <2>3, <2>7, <3>3 DEF TheSemaphore!Next
  <2> QED BY <2>6, <2>7
<1> QED BY <1>3, <1>4

\* Every service of os_sem.c.
LEMMA SemSim ==
  ASSUME RInv, SemNext
  PROVE  TheSemaphore!Next \/ Stutters
<1>1. NoneDeletes /\ NoneCreates /\ OSTCBCur \in Task
  BY Types DEF RInv, WInv
<1>2. /\ \A e, always : ~OSSemDel(e, always)
      /\ \A cnt : ~OSSemCreate_Fields(cnt)
      /\ ~OS_EventWaitListInit
  BY <1>1
  DEF NoneDeletes, NoneCreates, OSSemDel, OSSemCreate_Fields, OS_EventWaitListInit, InTask
<1>3. ASSUME OSSemCreate PROVE Stutters
  <2>1. PICK u \in Task : u = OSTCBCur
    BY <1>1
  <2>2. /\ pc[u] = "app" /\ GoTo("OSSemCreate", OSEventFreeList)
        /\ UNCHANGED <<OSTCBStatPend, OSTCBEventPtr, OSTCBPrio, OSEventCnt>>
    BY <1>3, <2>1 DEF OSSemCreate, TaskCall, InTask, KernelUnchanged, tcbVars
  <2>3. pc'[u] = "OSSemCreate" /\ \A t \in Task \ {u} : FlowKept(t)
    BY <2>1, <2>2, Types DEF GoTo, FlowTypeOK, FlowKept
  <2>4. Idling(u) /\ Idling(u)'
    BY <2>2, <2>3 DEF Idling, PendPlaces
  <2>5. \A t \in Task : FlowAside(t)
    BY <2>3, <2>4 DEF FlowAside
  <2> QED BY <2>2, <2>5, Undisturbed DEF Stutters
<1> QED
  BY <1>2, <1>3, EnterSim, AcceptSim, TakeSim, BlockSim, TailSim, PostSim, AbortSim, SetSim
  DEF SemNext

-----------------------------------------------------------------------------
(* The theorem.                                                            *)

\* Every step of the kernel is a step of the abstract semaphore or a stutter.
LEMMA StepSim ==
  ASSUME RInv, [Next]_vars
  PROVE  [TheSemaphore!Next]_<<OSEventCnt[TheSem], TheStatus, OSTCBPrio>>
<1>1. CASE UNCHANGED vars
  <2>1. /\ UNCHANGED <<OSTCBStatPend, OSTCBEventPtr, OSTCBPrio, OSEventCnt>>
        /\ \A t \in Task : FlowAside(t)
    BY <1>1 DEF vars, coreVars, tcbVars, flowVars, FlowAside, FlowKept
  <2> QED BY <2>1, Undisturbed
<1>2. CASE Next
  <2>1. TheSemaphore!Next \/ Stutters
    BY <1>2, CoreSim, TaskSim, SemSim DEF Next
  <2> QED BY <2>1 DEF Stutters
<1> QED BY <1>1, <1>2

\* When the system starts, the invariant holds and the semaphore is as the
\* abstract one starts: its initial count, nobody asking or waiting.
LEMMA InitSim ==
  ASSUME Init
  PROVE  RInv /\ TheSemaphore!Init
<1>1. TasksStarted
  BY DEF Init, CoreInit, StartedInit
<1>2. RInv
  BY <1>1, InitWInv DEF TasksStarted, RInv, NoneDeletes, Outcomes, OutcomeAt, OS_STAT_PEND_ANY
<1>3. OSEventCnt[TheSem] \in 0 .. MaxCnt /\ OSTCBPrio \in [Task -> Prio]
  BY <1>2, Types DEF TcbTypeOK
<1>4. OSTCBPrio \in [Task -> Nat]
  BY <1>3, CoreAssumption DEF Prio, CoreAssumption
<1>5. TheStatus = [t \in Task |-> "idle"]
  BY <1>1, CoreAssumption, ServiceAssumption
  DEF TasksStarted, TheStatus, SemStatus, CoreAssumption, ServiceAssumption
<1> QED BY <1>2, <1>3, <1>4, <1>5 DEF TheSemaphore!Init

\* A semaphore that the application neither deletes nor creates anew is a
\* counting semaphore for its callers: through every interleaving of the tick,
\* nested interrupts, context switches, suspensions and changes of priority no
\* token is lost or made up, each goes to the first waiter, and a wait ends once.
THEOREM SemImplementsService ==
  ASSUME PrioDiscipline, NoCreation, NoDeletion
  PROVE  Spec => IsCountingSemaphore
<1>1. Init => RInv /\ TheSemaphore!Init
  BY InitSim
<1>2. RInv /\ [Next]_vars => RInv'
  BY Inductive, NoneCreatesStep, ListsNotInitialised, ListedStep, NoIdleStep,
     NoneDeletesStep, OutcomesStep
  DEF RInv, WInv
<1>3. RInv /\ [Next]_vars => [TheSemaphore!Next]_<<OSEventCnt[TheSem], TheStatus, OSTCBPrio>>
  BY StepSim
<1> QED BY <1>1, <1>2, <1>3, PTL DEF Spec, IsCountingSemaphore, TheSemaphore!Spec

-----------------------------------------------------------------------------
(* The free list of control blocks, when the application also creates and   *)
(* deletes semaphores.                                                      *)

\* A semaphore is deleted while no other task is between the type check of a
\* call on it and its critical section, or creates it: "This function must be
\* used with care" (OSSemDel).  And nobody calls a service on a control block
\* before the OSSemCreate that takes it has returned: its caller has not got the
\* pointer yet.
Careful ==
  /\ \A e \in Event, always \in BOOLEAN : OSSemDel(e, always) =>
       \A t \in Task \ {OSTCBCur} :
         pevent[t] = e => pc[t] \notin SemServices \cup {"OS_EventWaitListInit"}
  /\ \A service \in SemServices, e \in Event : OSSem_Enter(service, e) =>
       \A t \in Task : pc[t] = "OS_EventWaitListInit" => pevent[t] # e

\* A task in the critical section of a call on a semaphore finds one; one that
\* has taken a control block to create a semaphore finds it unused.
CallsFit ==
  \A t \in Task :
    /\ pc[t] \in SemServices \cup {"OS_EventWaitListInit"} => OSEventType[pevent[t]] = "SEM"
    /\ pc[t] = "OSSemCreate" => OSEventType[pevent[t]] = "UNUSED"

\* Nobody waits for a semaphore, or is about to, before its wait list has been
\* initialised.
NoneWaitsEarly ==
  \A t \in Task : pc[t] = "OS_EventWaitListInit" =>
    \A u \in Task :
      /\ OSTCBEventPtr[u] # pevent[t]
      /\ pc[u] = "OSSemPend" => pevent[u] # pevent[t]

\* t has taken e off the free list and not yet made a semaphore of it.
Holds(t, e) == pc[t] = "OSSemCreate" /\ pevent[t] = e

Spare(e) == OSEventType[e] = "UNUSED" /\ \A t \in Task : ~Holds(t, e)

\* The links of the unused control blocks: each has at most one predecessor,
\* the head none, and all of them can be reached.
FreeChain ==
  /\ OSEventFreeList # Null => Spare(OSEventFreeList)
  /\ \A e \in Event : Spare(e) /\ OSEventPtr[e] # Null =>
       Spare(OSEventPtr[e]) /\ OSEventPtr[e] # OSEventFreeList
  /\ \A e, f \in Event :
       Spare(e) /\ Spare(f) /\ OSEventPtr[e] # Null /\ OSEventPtr[e] = OSEventPtr[f] => e = f
  /\ \A e \in Event : Spare(e) => e \in FreeEvents

OneCreator == \A e \in Event : \A s, t \in Task : Holds(s, e) /\ Holds(t, e) => s = t

\* The chain ends.
ChainEnds ==
  (\E e \in Event : Spare(e)) => \E e \in Event : Spare(e) /\ OSEventPtr[e] = Null

FInv ==
  /\ IInv
  /\ Listed
  /\ UnusedHasNoWaiter
  /\ CallsFit
  /\ NoneWaitsEarly
  /\ OneCreator
  /\ FreeChain
  /\ ChainEnds

-----------------------------------------------------------------------------
(* What a step does to the control blocks and to the calls on them.         *)

\* The types the proofs below need.
LEMMA FreeTypes ==
  ASSUME IInv
  PROVE  /\ OSTCBCur \in Task /\ Null \notin Event
         /\ pc \in [Task -> Places] /\ pevent \in [Task -> Event \cup {Null}]
         /\ EventTypeOK /\ TcbTypeOK /\ PrioTblSound
         /\ \A t \in Task : pc[t] \notin {"app", "OS_Sched"} => pevent[t] \in Event
BY CoreAssumption
DEF IInv, TypeOK, CoreTypeOK, SwitchTypeOK, FlowTypeOK, PendSound, CoreAssumption

\* The running task goes on, neither into OSSemCreate nor out of its first half.
Goes(place, arg) ==
  /\ GoTo(place, arg)
  /\ pc[OSTCBCur] # "OSSemCreate"
  /\ place \notin {"OSSemCreate", "OS_EventWaitListInit"}
  /\ place \in SemServices => arg \in Event /\ OSSem_Enter(place, arg)

\* No control block changes hands.
Keeps ==
  /\ UNCHANGED <<OSEventType, OSEventPtr, OSEventFreeList>>
  /\ UNCHANGED flowVars \/ \E place, arg : Goes(place, arg)

\* The running task deletes e.
Frees(e) ==
  /\ pc[OSTCBCur] = "OSSemDel" /\ pevent[OSTCBCur] = e
  /\ OSEventType' = [OSEventType EXCEPT ![e] = "UNUSED"]
  /\ OSEventPtr' = [OSEventPtr EXCEPT ![e] = OSEventFreeList]
  /\ OSEventFreeList' = e
  /\ Wakes(e, OSEventWait[e], "ABORT")
  /\ \E always \in BOOLEAN : OSSemDel(e, always)
  /\ \E place \in {"app", "OS_Sched"} : GoTo(place, Null)

\* A service that returns goes on in the application.
LEMMA ReturnsKeeps ==
  ASSUME NEW b, Returns(b), OSIntNesting > 0 \/ pc[OSTCBCur] # "OSSemCreate"
  PROVE  UNCHANGED flowVars \/ \E place, arg : Goes(place, arg)
<1>1. CASE OSIntNesting > 0
  BY <1>1 DEF Returns
<1>2. CASE ~(OSIntNesting > 0)
  <2>1. Goes(IF b THEN "OS_Sched" ELSE "app", Null)
    BY <1>2 DEF Returns, Goes, SemServices
  <2> QED BY <2>1
<1> QED BY <1>1, <1>2

\* Where a service is called from.
LEMMA CallKeeps ==
  ASSUME NEW service, Call(service) \/ TaskCall(service), NEW b, Returns(b)
  PROVE  UNCHANGED flowVars \/ \E place, arg : Goes(place, arg)
<1>1. OSIntNesting > 0 \/ pc[OSTCBCur] # "OSSemCreate"
  BY DEF Call, TaskCall, InTask, IsrCall, InIsr
<1> QED BY <1>1, ReturnsKeeps

LEMMA SectionKeeps ==
  ASSUME NEW service \in SemServices, NEW e, AtSection(service, e) \/ InTask(service),
         NEW b, Returns(b)
  PROVE  UNCHANGED flowVars \/ \E place, arg : Goes(place, arg)
<1>1. OSIntNesting > 0 \/ pc[OSTCBCur] # "OSSemCreate"
  BY DEF AtSection, InTask, IsrCall, InIsr, SemServices
<1> QED BY <1>1, ReturnsKeeps

\* A control block changes hands only in a deletion and in a creation.
LEMMA Blocks ==
  ASSUME IInv, [Next]_vars
  PROVE  \/ Keeps
         \/ \E e \in Event : Frees(e)
         \/ OSSemCreate
         \/ \E cnt \in 0 .. MaxCnt : OSSemCreate_Fields(cnt)
<1>1. CASE UNCHANGED vars
  BY <1>1 DEF vars, coreVars, eventVars, Keeps
<1>2. CASE CoreNext
  <2>1. UNCHANGED <<OSEventType, OSEventPtr, OSEventFreeList>>
    BY <1>2
    DEF CoreNext, OS_Sched, PendSV_Handler, OSSchedLock, OSSchedUnlock, OSIntEnter, OSIntExit,
        OSTimeTick, OSTimeTick_Step, eventVars
  <2>2. ASSUME OS_Sched PROVE \E place, arg : Goes(place, arg)
    <3>1. /\ GoTo(AfterSched[pc[OSTCBCur]], pevent[OSTCBCur])
          /\ pc[OSTCBCur] \in {"OS_Sched", "OSPend_Sched"}
      BY <2>2, SchedPlacesFacts DEF OS_Sched, SchedPlaces
    <3>2. Goes(AfterSched[pc[OSTCBCur]], pevent[OSTCBCur])
      BY <3>1, SchedPlacesFacts DEF Goes, SemServices
    <3> QED BY <3>2
  <2>3. ASSUME OSSchedUnlock PROVE UNCHANGED flowVars \/ \E place, arg : Goes(place, arg)
    BY <2>3, CallKeeps DEF OSSchedUnlock
  <2>4. ASSUME ~OS_Sched, ~OSSchedUnlock PROVE UNCHANGED flowVars
    BY <1>2, <2>4
    DEF CoreNext, PendSV_Handler, OSSchedLock, OSIntEnter, OSIntExit, OSTimeTick,
        OSTimeTick_Step
  <2> QED BY <2>1, <2>2, <2>3, <2>4 DEF Keeps
<1>3. CASE TaskNext
  <2>1. UNCHANGED <<OSEventType, OSEventPtr, OSEventFreeList>>
    BY <1>3
    DEF TaskNext, TaskControl, OSTimeDly, OSTimeDlyResume, OSTaskSuspend, OSTaskResume,
        OSTaskChangePrio, eventVars
  <2>2. ASSUME NEW ticks \in 1 .. MaxDly, OSTimeDly(ticks)
        PROVE  UNCHANGED flowVars \/ \E place, arg : Goes(place, arg)
    BY <2>2, CallKeeps DEF OSTimeDly
  <2>3. ASSUME NEW prio \in Prio,
               \/ OSTimeDlyResume(prio) \/ OSTaskSuspend(prio) \/ OSTaskResume(prio)
               \/ \E new \in Prio : OSTaskChangePrio(prio, new)
        PROVE  UNCHANGED flowVars \/ \E place, arg : Goes(place, arg)
    <3>1. \E service, b : Call(service) /\ Returns(b)
      BY <2>3 DEF OSTimeDlyResume, OSTaskSuspend, OSTaskResume, OSTaskChangePrio
    <3> QED BY <3>1, CallKeeps
  <2> QED BY <1>3, <2>1, <2>2, <2>3 DEF Keeps, TaskNext, TaskControl
<1>4. CASE SemNext
  <2>1. ASSUME NEW service \in SemServices, NEW e \in Event, OSSem_Enter(service, e)
        PROVE  Keeps
    <3>1. Goes(service, e)
      BY <2>1 DEF Goes, OSSem_Enter, TaskCall, InTask, SemServices
    <3> QED BY <2>1, <3>1 DEF Keeps, OSSem_Enter, eventVars
  <2>2. ASSUME NEW e \in Event,
               \/ OSSemAccept(e) \/ OSSemPend_Take(e) \/ OSSemPost(e)
               \/ \E all \in BOOLEAN : OSSemPendAbort(e, all)
               \/ \E cnt \in 0 .. MaxCnt : OSSemSet(e, cnt)
        PROVE  Keeps
    <3>1. UNCHANGED <<OSEventType, OSEventPtr, OSEventFreeList>>
      BY <2>2
      DEF OSSemAccept, OSSemPend_Take, OSSemPost, OSSemPendAbort, OSSemSet, SwitchUnchanged,
          eventVars
    <3>2. \E service \in SemServices, b \in BOOLEAN :
            (AtSection(service, e) \/ InTask(service)) /\ Returns(b)
      BY <2>2
      DEF OSSemAccept, OSSemPend_Take, OSSemPost, OSSemPendAbort, OSSemSet, SemServices
    <3> QED BY <3>1, <3>2, SectionKeeps DEF Keeps
  <2>3. ASSUME NEW e \in Event, NEW timeout \in 0 .. MaxDly, OSSemPend_Block(e, timeout)
        PROVE  Keeps
    <3>1. Goes("OSPend_Sched", e)
      BY <2>3 DEF OSSemPend_Block, Goes, InTask, SemServices
    <3> QED BY <2>3, <3>1 DEF OSSemPend_Block, SwitchUnchanged, Keeps
  <2>4. ASSUME OSSemPend_Tail PROVE Keeps
    <3>1. OSIntNesting > 0 \/ pc[OSTCBCur] # "OSSemCreate"
      BY <2>4 DEF OSSemPend_Tail, OSPend_Tail, InTask
    <3>2. Returns(FALSE) /\ UNCHANGED <<OSEventType, OSEventPtr, OSEventFreeList>>
      BY <2>4 DEF OSSemPend_Tail, OSPend_Tail, SwitchUnchanged
    <3> QED BY <3>1, <3>2, ReturnsKeeps DEF Keeps
  <2>5. ASSUME OS_EventWaitListInit PROVE Keeps
    <3>1. OSIntNesting > 0 \/ pc[OSTCBCur] # "OSSemCreate"
      BY <2>5 DEF OS_EventWaitListInit, InTask
    <3>2. Returns(FALSE) /\ UNCHANGED <<OSEventType, OSEventPtr, OSEventFreeList>>
      BY <2>5 DEF OS_EventWaitListInit
    <3> QED BY <3>1, <3>2, ReturnsKeeps DEF Keeps
  <2>6. ASSUME NEW e \in Event, NEW always \in BOOLEAN, OSSemDel(e, always)
        PROVE  Keeps \/ Frees(e)
    <3>1. InTask("OSSemDel") /\ pevent[OSTCBCur] = e
      BY <2>6 DEF OSSemDel
    <3>2. CASE ~(OSEventWait[e] = {} \/ always)
      <4>1. Returns(FALSE) /\ UNCHANGED <<OSEventType, OSEventPtr, OSEventFreeList>>
        BY <2>6, <3>2 DEF OSSemDel, eventVars
      <4>2. pc[OSTCBCur] # "OSSemCreate"
        BY <3>1 DEF InTask
      <4> QED BY <4>1, <4>2, ReturnsKeeps DEF Keeps
    <3>3. CASE OSEventWait[e] = {} \/ always
      <4>1. /\ OS_EventTaskRdy(e, OSEventWait[e], "SEM", "ABORT")
            /\ OSEventType' = [OSEventType EXCEPT ![e] = "UNUSED"]
            /\ OSEventPtr' = [OSEventPtr EXCEPT ![e] = OSEventFreeList]
            /\ OSEventFreeList' = e
            /\ Returns(OSEventWait[e] # {})
            /\ UNCHANGED OSTCBPrioTbl
        BY <2>6, <3>3 DEF OSSemDel
      <4>2. Wakes(e, OSEventWait[e], "ABORT")
        BY <4>1 DEF Wakes
      <4>3. \E place \in {"app", "OS_Sched"} : GoTo(place, Null)
        BY <3>1, <4>1 DEF InTask, Runs, Returns
      <4> QED BY <2>6, <3>1, <4>1, <4>2, <4>3 DEF Frees, InTask
    <3> QED BY <3>2, <3>3
  <2> QED BY <1>4, <2>1, <2>2, <2>3, <2>4, <2>5, <2>6 DEF SemNext
<1> QED BY <1>1, <1>2, <1>3, <1>4 DEF Next

\* Tasks come to wait only for what they have asked for in OSSemPend.
LEMMA Pointers ==
  ASSUME IInv, [Next]_vars, NEW t \in Task
  PROVE  \/ OSTCBEventPtr'[t] \in {OSTCBEventPtr[t], Null}
         \/ /\ t = OSTCBCur /\ pc[t] = "OSSemPend"
            /\ OSTCBEventPtr'[t] = pevent[t]
<1>1. TcbTypeOK /\ OSTCBCur \in Task
  BY FreeTypes
<1>2. ASSUME UNCHANGED OSTCBEventPtr PROVE OSTCBEventPtr'[t] = OSTCBEventPtr[t]
  BY <1>2
<1>3. ASSUME TasksKept PROVE UNCHANGED OSTCBEventPtr
  BY <1>3 DEF TasksKept, tcbVars
<1>4. ASSUME NEW e \in Event, NEW W, NEW ps, Wakes(e, W, ps)
      PROVE  OSTCBEventPtr'[t] \in {OSTCBEventPtr[t], Null}
  BY <1>1, <1>4 DEF Wakes, OS_EventTaskRdy, WaitEnds, TcbTypeOK
<1>5. ASSUME \/ \E u \in Task : EndsDelay(u) \/ CountsDown(u)
             \/ \E ticks \in 1 .. MaxDly : OSTimeDly(ticks)
             \/ \E prio \in Prio : OSTaskSuspend(prio) \/ OSTaskResume(prio)
             \/ \E old, new \in Prio : OSTaskChangePrio(old, new)
      PROVE  UNCHANGED OSTCBEventPtr
  BY <1>5
  DEF EndsDelay, DlyEnds, CountsDown, OSTimeDly, OSTaskSuspend, OSTaskResume, OSTaskChangePrio
<1>6. ASSUME NEW e \in Event, NEW timeout \in 0 .. MaxDly, OSSemPend_Block(e, timeout)
      PROVE  \/ OSTCBEventPtr'[t] = OSTCBEventPtr[t]
             \/ /\ t = OSTCBCur /\ pc[t] = "OSSemPend"
                /\ OSTCBEventPtr'[t] = pevent[t]
  BY <1>1, <1>6 DEF OSSemPend_Block, OS_EventTaskWait, InTask, TcbTypeOK
<1>7. ASSUME OSSemPend_Tail PROVE OSTCBEventPtr'[t] \in {OSTCBEventPtr[t], Null}
  BY <1>1, <1>7 DEF OSSemPend_Tail, OSPend_Tail, TcbTypeOK
<1> QED BY <1>2, <1>3, <1>4, <1>5, <1>6, <1>7, Effects

\* A deletion leaves nobody that waits for what was deleted.
LEMMA DeletedHasNoWaiter ==
  ASSUME IInv, Listed, NEW e \in Event, Frees(e), NEW t \in Task
  PROVE  OSTCBEventPtr'[t] # e /\ OSTCBEventPtr'[t] \in {OSTCBEventPtr[t], Null}
<1> DEFINE T == {OSTCBPrioTbl[p] : p \in OSEventWait[e]}
<1>1. OSTCBEventPtr' = [u \in Task |-> IF u \in T THEN Null ELSE OSTCBEventPtr[u]]
  BY DEF Frees, Wakes, OS_EventTaskRdy, WaitEnds
<1>2. Null \notin Event /\ PrioTblSound
  BY FreeTypes
<1>3. OSTCBEventPtr[t] = e => t \in T
  BY <1>2 DEF Listed, ListedAt, PrioTblSound
<1> HIDE DEF T
<1> QED BY <1>1, <1>2, <1>3

-----------------------------------------------------------------------------
(* The parts of the invariant, step by step.                                *)

\* What the invariant says of one task, for the cases below.
LEMMA FreeFacts ==
  ASSUME FInv
  PROVE  /\ OSTCBCur \in Task /\ Null \notin Event
         /\ pc \in [Task -> Places] /\ pevent \in [Task -> Event \cup {Null}]
         /\ EventTypeOK
         /\ \A t \in Task :
              /\ pc[t] \in SemServices \cup {"OSSemCreate", "OS_EventWaitListInit"} =>
                   pevent[t] \in Event
              /\ pc[t] \in SemServices \cup {"OS_EventWaitListInit"} =>
                   OSEventType[pevent[t]] = "SEM"
              /\ pc[t] = "OSSemCreate" => OSEventType[pevent[t]] = "UNUSED"
BY FreeTypes DEF FInv, CallsFit, SemServices

\* What GoTo does, task by task.
LEMMA GoToFacts ==
  ASSUME FInv, NEW place, NEW arg, GoTo(place, arg)
  PROVE  /\ pc'[OSTCBCur] = place /\ pevent'[OSTCBCur] = arg
         /\ \A t \in Task \ {OSTCBCur} : pc'[t] = pc[t] /\ pevent'[t] = pevent[t]
BY FreeFacts DEF GoTo

\* Creation takes the head of the free list.
LEMMA CreateFacts ==
  ASSUME FInv, OSSemCreate
  PROVE  /\ OSEventFreeList \in Event /\ Spare(OSEventFreeList)
         /\ OSEventFreeList' = OSEventPtr[OSEventFreeList]
         /\ pc[OSTCBCur] = "app" /\ GoTo("OSSemCreate", OSEventFreeList)
         /\ UNCHANGED <<OSEventType, OSEventPtr, OSTCBEventPtr>>
BY FreeFacts
DEF OSSemCreate, TaskCall, InTask, KernelUnchanged, tcbVars, FInv, FreeChain, EventTypeOK

\* Its second step makes a semaphore of it.
LEMMA FieldsFacts ==
  ASSUME FInv, NEW cnt, OSSemCreate_Fields(cnt), NEW e, e = pevent[OSTCBCur]
  PROVE  /\ e \in Event /\ OSEventType[e] = "UNUSED" /\ pc[OSTCBCur] = "OSSemCreate"
         /\ OSEventType' = [OSEventType EXCEPT ![e] = "SEM"]
         /\ OSEventPtr' = [OSEventPtr EXCEPT ![e] = Null]
         /\ GoTo("OS_EventWaitListInit", e)
         /\ UNCHANGED <<OSEventFreeList, OSTCBEventPtr>>
<1>1. InTask("OSSemCreate")
  BY DEF OSSemCreate_Fields
<1> QED
  BY <1>1, FreeFacts DEF OSSemCreate_Fields, InTask, KernelUnchanged, tcbVars

\* A deletion finds a semaphore that no other task is at.
LEMMA DeleteFacts ==
  ASSUME FInv, Careful, NEW e \in Event, Frees(e)
  PROVE  /\ OSEventType[e] = "SEM"
         /\ \A t \in Task \ {OSTCBCur} :
              pevent[t] = e => pc[t] \notin SemServices \cup {"OS_EventWaitListInit"}
         /\ \A t \in Task : ~Holds(t, e)
         /\ pc[OSTCBCur] = "OSSemDel"
         /\ \E place \in {"app", "OS_Sched"} : GoTo(place, Null)
BY FreeFacts DEF Frees, Careful, Holds, SemServices

LEMMA CallsFitStep ==
  ASSUME FInv, Careful, [Next]_vars
  PROVE  CallsFit'
<1>1. ASSUME Keeps, NEW place, NEW arg, Goes(place, arg) PROVE CallsFit'
  <2>1. place \in SemServices => OSEventType[arg] = "SEM"
    BY <1>1 DEF Goes, OSSem_Enter
  <2> QED BY <1>1, <2>1, FreeFacts, GoToFacts DEF Keeps, Goes, CallsFit
<1>2. ASSUME Keeps, UNCHANGED flowVars PROVE CallsFit'
  BY <1>2 DEF Keeps, flowVars, CallsFit, FInv
<1>3. ASSUME NEW e \in Event, Frees(e) PROVE CallsFit'
  <2>1. PICK place \in {"app", "OS_Sched"} : GoTo(place, Null)
    BY <1>3, DeleteFacts
  <2>2. \A f \in Event : OSEventType'[f] = IF f = e THEN "UNUSED" ELSE OSEventType[f]
    BY <1>3, FreeFacts DEF Frees, EventTypeOK
  <2>3. pc'[OSTCBCur] = place
    BY <2>1, GoToFacts
  <2>4. ASSUME NEW t \in Task, t # OSTCBCur
        PROVE  /\ pc'[t] = pc[t] /\ pevent'[t] = pevent[t]
               /\ pc[t] \in SemServices \cup {"OS_EventWaitListInit"} => pevent[t] # e
    BY <1>3, <2>1, <2>4, GoToFacts, DeleteFacts
  <2> QED BY <2>2, <2>3, <2>4, FreeFacts DEF CallsFit, SemServices
<1>4. ASSUME OSSemCreate PROVE CallsFit'
  BY <1>4, CreateFacts, GoToFacts, FreeFacts DEF CallsFit, SemServices, Spare
<1>5. ASSUME NEW cnt \in 0 .. MaxCnt, OSSemCreate_Fields(cnt) PROVE CallsFit'
  <2> DEFINE e == pevent[OSTCBCur]
  <2>1. \A f \in Event : OSEventType'[f] = IF f = e THEN "SEM" ELSE OSEventType[f]
    BY <1>5, FieldsFacts, FreeFacts DEF EventTypeOK
  <2>2. pc'[OSTCBCur] = "OS_EventWaitListInit" /\ pevent'[OSTCBCur] = e /\ e \in Event
    BY <1>5, FieldsFacts, GoToFacts
  <2>3. ASSUME NEW t \in Task, t # OSTCBCur
        PROVE  /\ pc'[t] = pc[t] /\ pevent'[t] = pevent[t]
               /\ pc[t] = "OSSemCreate" => pevent[t] # e
    <3>1. Holds(OSTCBCur, e)
      BY <1>5, FieldsFacts DEF Holds
    <3>2. ~Holds(t, e)
      BY <2>2, <2>3, <3>1, FreeFacts DEF FInv, OneCreator
    <3> QED BY <1>5, <2>3, <3>2, FieldsFacts, GoToFacts DEF Holds
  <2> QED BY <2>1, <2>2, <2>3, FreeFacts DEF CallsFit
<1> QED BY <1>1, <1>2, <1>3, <1>4, <1>5, Blocks DEF Keeps, FInv

LEMMA UnusedStep ==
  ASSUME FInv, Careful, [Next]_vars
  PROVE  UnusedHasNoWaiter'
<1> SUFFICES ASSUME NEW e \in Event, OSEventType'[e] = "UNUSED", NEW t \in Task
             PROVE  OSTCBEventPtr'[t] # e
  BY DEF UnusedHasNoWaiter
<1>1. OSEventType[e] = "UNUSED" => OSTCBEventPtr[t] # e
  BY DEF FInv, UnusedHasNoWaiter
<1>2. CASE Keeps
  <2>1. pc[t] = "OSSemPend" => pevent[t] # e
    BY <1>2, FreeFacts DEF Keeps, SemServices
  <2> QED BY <1>1, <1>2, <2>1, FreeFacts, Pointers DEF Keeps, FInv
<1>3. ASSUME NEW f \in Event, Frees(f) PROVE OSTCBEventPtr'[t] # e
  <2>1. e = f \/ OSEventType[e] = "UNUSED"
    BY <1>3, FreeFacts DEF Frees, EventTypeOK
  <2> QED BY <1>1, <1>3, <2>1, FreeFacts, DeletedHasNoWaiter DEF FInv
<1>4. CASE OSSemCreate
  BY <1>1, <1>4, CreateFacts
<1>5. ASSUME NEW cnt \in 0 .. MaxCnt, OSSemCreate_Fields(cnt) PROVE OSTCBEventPtr'[t] # e
  <2>1. OSEventType[e] = "UNUSED"
    BY <1>5, FieldsFacts, FreeFacts DEF EventTypeOK
  <2> QED BY <1>1, <1>5, <2>1, FieldsFacts
<1> QED BY <1>2, <1>3, <1>4, <1>5, Blocks DEF FInv

LEMMA EarlyStep ==
  ASSUME FInv, Careful, [Next]_vars
  PROVE  NoneWaitsEarly'
<1> SUFFICES ASSUME NEW t \in Task, pc'[t] = "OS_EventWaitListInit", NEW u \in Task
             PROVE  OSTCBEventPtr'[u] # pevent'[t] /\ (pc'[u] = "OSSemPend" => pevent'[u] # pevent'[t])
  BY DEF NoneWaitsEarly
<1>1. pc[t] = "OS_EventWaitListInit" =>
        /\ OSTCBEventPtr[u] # pevent[t] /\ pevent[t] \in Event
        /\ pc[u] = "OSSemPend" => pevent[u] # pevent[t]
  BY FreeFacts DEF FInv, NoneWaitsEarly
<1>2. ASSUME pc[t] = "OS_EventWaitListInit"
      PROVE  OSTCBEventPtr'[u] # pevent[t]
  BY <1>1, <1>2, Pointers, FreeFacts DEF FInv
<1>3. ASSUME Keeps, UNCHANGED flowVars
      PROVE  pc[t] = "OS_EventWaitListInit" /\ pevent'[t] = pevent[t]
             /\ (pc'[u] = "OSSemPend" => pevent'[u] # pevent[t])
  BY <1>1, <1>3 DEF flowVars
<1>4. ASSUME Keeps, NEW place, NEW arg, Goes(place, arg)
      PROVE  pc[t] = "OS_EventWaitListInit" /\ pevent'[t] = pevent[t]
             /\ (pc'[u] = "OSSemPend" => pevent'[u] # pevent[t])
  <2>1. t # OSTCBCur
    BY <1>4, GoToFacts DEF Goes
  <2>2. pc[t] = "OS_EventWaitListInit" /\ pevent'[t] = pevent[t]
    BY <1>4, <2>1, GoToFacts DEF Goes
  <2>3. CASE u = OSTCBCur
    <3>1. place = "OSSemPend" => arg # pevent[t]
      BY <1>4, <2>2 DEF Goes, Careful, SemServices
    <3> QED BY <1>4, <2>2, <2>3, <3>1, GoToFacts DEF Goes
  <2>4. CASE u # OSTCBCur
    BY <1>1, <1>4, <2>2, <2>4, GoToFacts DEF Goes
  <2> QED BY <2>2, <2>3, <2>4
<1>5. ASSUME NEW place \in {"app", "OS_Sched", "OSSemCreate"}, NEW arg, GoTo(place, arg)
      PROVE  pc[t] = "OS_EventWaitListInit" /\ pevent'[t] = pevent[t]
             /\ (pc'[u] = "OSSemPend" => pevent'[u] # pevent[t])
  <2>1. t # OSTCBCur
    BY <1>5, GoToFacts
  <2>2. pc[t] = "OS_EventWaitListInit" /\ pevent'[t] = pevent[t]
    BY <1>5, <2>1, GoToFacts
  <2>3. pc'[u] = "OSSemPend" => u # OSTCBCur
    BY <1>5, GoToFacts
  <2> QED BY <1>1, <1>5, <2>2, <2>3, GoToFacts
<1>6. ASSUME NEW e \in Event, Frees(e)
      PROVE  pc[t] = "OS_EventWaitListInit" /\ pevent'[t] = pevent[t]
             /\ (pc'[u] = "OSSemPend" => pevent'[u] # pevent[t])
  BY <1>5, <1>6 DEF Frees
<1>7. ASSUME OSSemCreate
      PROVE  pc[t] = "OS_EventWaitListInit" /\ pevent'[t] = pevent[t]
             /\ (pc'[u] = "OSSemPend" => pevent'[u] # pevent[t])
  BY <1>5, <1>7, CreateFacts
<1>8. ASSUME NEW cnt \in 0 .. MaxCnt, OSSemCreate_Fields(cnt)
      PROVE  OSTCBEventPtr'[u] # pevent'[t] /\ (pc'[u] = "OSSemPend" => pevent'[u] # pevent'[t])
  <2> DEFINE e == pevent[OSTCBCur]
  <2>1. /\ e \in Event /\ OSEventType[e] = "UNUSED" /\ UNCHANGED OSTCBEventPtr
        /\ pc'[OSTCBCur] = "OS_EventWaitListInit" /\ pevent'[OSTCBCur] = e
        /\ \A v \in Task \ {OSTCBCur} : pc'[v] = pc[v] /\ pevent'[v] = pevent[v]
    BY <1>8, FieldsFacts, GoToFacts
  <2>2. OSTCBEventPtr[u] # e
    BY <2>1 DEF FInv, UnusedHasNoWaiter
  <2>3. pc[u] = "OSSemPend" => pevent[u] # e
    BY <2>1, FreeFacts DEF SemServices
  <2>4. pc'[u] = "OSSemPend" => pc[u] = "OSSemPend" /\ pevent'[u] = pevent[u]
    BY <2>1
  <2> QED BY <1>1, <2>1, <2>2, <2>3, <2>4
<1> QED BY <1>2, <1>3, <1>4, <1>6, <1>7, <1>8, Blocks DEF FInv, Keeps

LEMMA OneCreatorStep ==
  ASSUME FInv, Careful, [Next]_vars
  PROVE  OneCreator'
<1> SUFFICES ASSUME NEW e \in Event, NEW s \in Task, NEW t \in Task, Holds(s, e)', Holds(t, e)'
             PROVE  s = t
  BY DEF OneCreator
<1>1. Holds(s, e) /\ Holds(t, e) => s = t
  BY DEF FInv, OneCreator
<1>2. ASSUME UNCHANGED flowVars PROVE s = t
  BY <1>1, <1>2 DEF flowVars, Holds
<1>3. ASSUME NEW place, NEW arg, GoTo(place, arg), place # "OSSemCreate" PROVE s = t
  BY <1>1, <1>3, GoToFacts DEF Holds
<1>4. ASSUME OSSemCreate PROVE s = t
  <2>1. \A u \in Task : ~Holds(u, OSEventFreeList)
    BY <1>4, CreateFacts DEF Spare
  <2> QED BY <1>1, <1>4, <2>1, CreateFacts, GoToFacts DEF Holds
<1>5. ASSUME Keeps PROVE s = t
  BY <1>2, <1>3, <1>5 DEF Keeps, Goes
<1>6. ASSUME NEW f \in Event, Frees(f) PROVE s = t
  BY <1>3, <1>6 DEF Frees
<1>7. ASSUME NEW cnt \in 0 .. MaxCnt, OSSemCreate_Fields(cnt) PROVE s = t
  BY <1>3, <1>7, FieldsFacts
<1> QED BY <1>4, <1>5, <1>6, <1>7, Blocks DEF FInv

\* A set of control blocks that the free list does not lead out of.
Closed(S) ==
  /\ OSEventFreeList # Null => OSEventFreeList \in S
  /\ \A f \in S : OSEventPtr[f] # Null => OSEventPtr[f] \in S

LEMMA FreeIsClosed ==
  \A e \in Event : e \in FreeEvents <=> \A S \in SUBSET Event : Closed(S) => e \in S
BY DEF FreeEvents, Closed

LEMMA FreeIsClosedPrime ==
  ASSUME NEW e \in Event, \A S \in SUBSET Event : Closed(S)' => e \in S
  PROVE  e \in FreeEvents'
BY DEF FreeEvents, Closed

\* The free list leads to unused control blocks only.
LEMMA FreeIsSpare ==
  ASSUME FInv, NEW e \in FreeEvents
  PROVE  e \in Event /\ Spare(e)
<1> DEFINE U == {f \in Event : Spare(f)}
<1>1. e \in Event
  BY DEF FreeEvents
<1>2. Closed(U)
  BY FreeFacts DEF Closed, FInv, FreeChain, EventTypeOK
<1>3. U \in SUBSET Event
  OBVIOUS
<1>4. e \in U
  BY <1>1, <1>2, <1>3, FreeIsClosed
<1> QED BY <1>4

\* Nothing changes for the unused control blocks.
LEMMA ChainKept ==
  ASSUME FInv, OSEventFreeList' = OSEventFreeList, \A e \in Event : Spare(e)' <=> Spare(e),
         \A e \in Event : Spare(e) => OSEventPtr'[e] = OSEventPtr[e]
  PROVE  FreeChain' /\ ChainEnds'
<1>1. FreeChain /\ ChainEnds /\ EventTypeOK /\ Null \notin Event
  BY FreeFacts DEF FInv
<1>2. OSEventFreeList' # Null => \A e \in Event : e = OSEventFreeList' => Spare(e)'
  BY <1>1 DEF FreeChain
<1>3. \A e \in Event : Spare(e)' /\ OSEventPtr'[e] # Null =>
        /\ OSEventPtr'[e] \in Event /\ OSEventPtr'[e] # OSEventFreeList'
        /\ \A f \in Event : f = OSEventPtr'[e] => Spare(f)'
  BY <1>1 DEF FreeChain, EventTypeOK
<1>4. \A e, f \in Event :
        Spare(e)' /\ Spare(f)' /\ OSEventPtr'[e] # Null /\ OSEventPtr'[e] = OSEventPtr'[f]
          => e = f
  BY <1>1 DEF FreeChain
<1>5. ASSUME NEW e \in Event, Spare(e)' PROVE e \in FreeEvents'
  <2>1. e \in FreeEvents
    BY <1>1, <1>5 DEF FreeChain
  <2>2. ASSUME NEW S \in SUBSET Event, Closed(S)' PROVE e \in S
    <3> DEFINE U == {f \in S : Spare(f)}
    <3>1. Closed(U)
      BY <1>1, <2>2 DEF Closed, FreeChain, EventTypeOK
    <3>2. U \in SUBSET Event
      OBVIOUS
    <3>3. e \in U
      BY <2>1, <3>1, <3>2, FreeIsClosed
    <3> QED BY <3>3
  <2> QED BY <2>2, FreeIsClosedPrime
<1>6. OSEventFreeList' \in Event \cup {Null}
  BY <1>1 DEF EventTypeOK
<1>7. FreeChain'
  BY <1>2, <1>3, <1>4, <1>5, <1>6 DEF FreeChain, Spare, Holds
<1>8. (\E e \in Event : Spare(e)') => \E e \in Event : Spare(e)' /\ OSEventPtr'[e] = Null
  BY <1>1 DEF ChainEnds
<1> QED BY <1>7, <1>8 DEF ChainEnds, Spare, Holds

\* The head q is taken: a closed set of the new list is one of the old with q.
LEMMA ChainPop ==
  ASSUME FInv, NEW q \in Event, q = OSEventFreeList, OSEventFreeList' = OSEventPtr[q],
         \A e \in Event : Spare(e)' <=> Spare(e) /\ e # q, OSEventPtr' = OSEventPtr
  PROVE  FreeChain' /\ ChainEnds'
<1>1. FreeChain /\ ChainEnds /\ EventTypeOK /\ Null \notin Event /\ Spare(q)
  BY FreeFacts DEF FInv, FreeChain
<1>2. OSEventFreeList' # Null => \A e \in Event : e = OSEventFreeList' => Spare(e)'
  BY <1>1 DEF FreeChain
<1>3. \A e \in Event : Spare(e)' /\ OSEventPtr'[e] # Null =>
        /\ OSEventPtr'[e] \in Event /\ OSEventPtr'[e] # OSEventFreeList'
        /\ \A f \in Event : f = OSEventPtr'[e] => Spare(f)'
  BY <1>1 DEF FreeChain, EventTypeOK
<1>4. \A e, f \in Event :
        Spare(e)' /\ Spare(f)' /\ OSEventPtr'[e] # Null /\ OSEventPtr'[e] = OSEventPtr'[f]
          => e = f
  BY <1>1 DEF FreeChain
<1>5. ASSUME NEW e \in Event, Spare(e)' PROVE e \in FreeEvents'
  <2>1. e \in FreeEvents /\ e # q
    BY <1>1, <1>5 DEF FreeChain
  <2>2. ASSUME NEW S \in SUBSET Event, Closed(S)' PROVE e \in S
    <3>1. Closed(S \cup {q})
      BY <2>2 DEF Closed
    <3>2. S \cup {q} \in SUBSET Event
      OBVIOUS
    <3>3. e \in S \cup {q}
      BY <2>1, <3>1, <3>2, FreeIsClosed
    <3> QED BY <2>1, <3>3
  <2> QED BY <2>2, FreeIsClosedPrime
<1>6. OSEventFreeList' \in Event \cup {Null}
  BY <1>1 DEF EventTypeOK
<1>7. FreeChain'
  BY <1>2, <1>3, <1>4, <1>5, <1>6 DEF FreeChain, Spare, Holds
<1>8. ASSUME NEW e \in Event, Spare(e)' PROVE \E f \in Event : Spare(f)' /\ OSEventPtr'[f] = Null
  <2>1. CASE OSEventPtr[q] = Null
    <3>1. Closed({})' /\ {} \in SUBSET Event
      BY <2>1 DEF Closed
    <3>2. e \in {}
      BY <1>5, <1>8, <3>1 DEF FreeEvents, Closed
    <3> QED BY <3>2
  <2>2. CASE OSEventPtr[q] # Null
    BY <1>1, <1>8, <2>2 DEF ChainEnds
  <2> QED BY <2>1, <2>2
<1> QED BY <1>7, <1>8 DEF ChainEnds, Spare, Holds

\* A control block q is put in front: the unused ones of a closed set of the new
\* list are a closed set of the old.
LEMMA ChainPush ==
  ASSUME FInv, NEW q \in Event, ~Spare(q), OSEventFreeList' = q,
         OSEventPtr' = [OSEventPtr EXCEPT ![q] = OSEventFreeList],
         \A e \in Event : Spare(e)' <=> Spare(e) \/ e = q
  PROVE  FreeChain' /\ ChainEnds'
<1>1. FreeChain /\ ChainEnds /\ EventTypeOK /\ Null \notin Event
  BY FreeFacts DEF FInv
<1>2. /\ OSEventPtr'[q] = OSEventFreeList
      /\ \A e \in Event \ {q} : OSEventPtr'[e] = OSEventPtr[e]
      /\ OSEventFreeList \in Event \cup {Null}
      /\ \A e \in Event : OSEventPtr[e] \in Event \cup {Null}
      /\ OSEventFreeList # Null => Spare(OSEventFreeList)
  BY <1>1 DEF EventTypeOK, FreeChain
<1>3. \A e \in Event : Spare(e)' /\ OSEventPtr'[e] # Null =>
        /\ OSEventPtr'[e] \in Event /\ OSEventPtr'[e] # q
        /\ \A f \in Event : f = OSEventPtr'[e] => Spare(f)'
  BY <1>1, <1>2 DEF FreeChain
<1>4. \A e, f \in Event :
        Spare(e)' /\ Spare(f)' /\ OSEventPtr'[e] # Null /\ OSEventPtr'[e] = OSEventPtr'[f]
          => e = f
  BY <1>1, <1>2 DEF FreeChain
<1>5. ASSUME NEW e \in Event, Spare(e)' PROVE e \in FreeEvents'
  <2>1. ASSUME NEW S \in SUBSET Event, Closed(S)' PROVE e \in S
    <3> DEFINE U == {f \in S : Spare(f)}
    <3>1. q \in S
      BY <1>1, <2>1 DEF Closed
    <3>2. OSEventFreeList # Null => OSEventFreeList \in U
      BY <1>2, <2>1, <3>1 DEF Closed
    <3>3. ASSUME NEW f \in U, OSEventPtr[f] # Null PROVE OSEventPtr[f] \in U
      <4>1. f \in S /\ f \in Event /\ f # q /\ Spare(f)
        OBVIOUS
      <4>2. OSEventPtr'[f] = OSEventPtr[f]
        BY <1>2, <4>1
      <4>3. OSEventPtr[f] \in S
        BY <2>1, <3>3, <4>1, <4>2 DEF Closed
      <4>4. Spare(OSEventPtr[f])
        BY <1>1, <3>3, <4>1 DEF FreeChain
      <4> QED BY <4>3, <4>4
    <3>4. Closed(U) /\ U \in SUBSET Event
      BY <3>2, <3>3 DEF Closed
    <3>5. CASE e = q
      BY <3>1, <3>5
    <3>6. CASE e # q
      <4>1. e \in FreeEvents
        BY <1>1, <1>5, <3>6 DEF FreeChain
      <4>2. e \in U
        BY <3>4, <4>1, FreeIsClosed
      <4> QED BY <4>2
    <3> QED BY <3>5, <3>6
  <2> QED BY <2>1, FreeIsClosedPrime
<1>6. FreeChain'
  BY <1>1, <1>3, <1>4, <1>5 DEF FreeChain, Spare, Holds
<1>7. \E f \in Event : Spare(f)' /\ OSEventPtr'[f] = Null
  <2>1. CASE OSEventFreeList = Null
    BY <1>2, <2>1
  <2>2. CASE OSEventFreeList # Null
    <3>1. PICK f \in Event : Spare(f) /\ OSEventPtr[f] = Null
      BY <1>1, <1>2, <2>2 DEF ChainEnds
    <3>2. f # q
      BY <3>1
    <3> QED BY <1>2, <3>1, <3>2
  <2> QED BY <2>1, <2>2
<1> QED BY <1>6, <1>7 DEF ChainEnds, Spare, Holds

LEMMA ChainStep ==
  ASSUME FInv, Careful, [Next]_vars
  PROVE  FreeChain' /\ ChainEnds'
<1>1. ASSUME Keeps PROVE FreeChain' /\ ChainEnds'
  <2>1. ASSUME NEW t \in Task, NEW e \in Event PROVE Holds(t, e)' <=> Holds(t, e)
    BY <1>1, GoToFacts DEF Keeps, Goes, flowVars, Holds
  <2>2. \A e \in Event : Spare(e)' <=> Spare(e)
    BY <1>1, <2>1 DEF Keeps, Spare
  <2> QED BY <1>1, <2>2, ChainKept DEF Keeps
<1>2. ASSUME NEW q \in Event, Frees(q) PROVE FreeChain' /\ ChainEnds'
  <2>1. ASSUME NEW t \in Task, NEW e \in Event PROVE Holds(t, e)' <=> Holds(t, e)
    BY <1>2, GoToFacts, DeleteFacts DEF Holds
  <2>2. ~Spare(q) /\ \A t \in Task : ~Holds(t, q)
    BY <1>2, DeleteFacts DEF Spare
  <2>3. \A e \in Event : OSEventType'[e] = IF e = q THEN "UNUSED" ELSE OSEventType[e]
    BY <1>2, FreeFacts DEF Frees, EventTypeOK
  <2>4. \A e \in Event : Spare(e)' <=> Spare(e) \/ e = q
    BY <2>1, <2>2, <2>3 DEF Spare
  <2> QED BY <1>2, <2>2, <2>4, ChainPush DEF Frees
<1>3. ASSUME OSSemCreate PROVE FreeChain' /\ ChainEnds'
  <2> DEFINE q == OSEventFreeList
  <2>1. ASSUME NEW t \in Task, NEW e \in Event
        PROVE  Holds(t, e)' <=> Holds(t, e) \/ (t = OSTCBCur /\ e = q)
    BY <1>3, GoToFacts, CreateFacts DEF Holds
  <2>2. \A e \in Event : Spare(e)' <=> Spare(e) /\ e # q
    BY <1>3, <2>1, CreateFacts, FreeFacts DEF Spare
  <2> QED BY <1>3, <2>2, CreateFacts, ChainPop
<1>4. ASSUME NEW cnt \in 0 .. MaxCnt, OSSemCreate_Fields(cnt) PROVE FreeChain' /\ ChainEnds'
  <2> DEFINE q == pevent[OSTCBCur]
  <2>1. q \in Event /\ Holds(OSTCBCur, q) /\ ~Spare(q)
    BY <1>4, FieldsFacts, FreeFacts DEF Holds, Spare
  <2>2. ASSUME NEW t \in Task, NEW e \in Event, e # q
        PROVE  Holds(t, e)' <=> Holds(t, e)
    BY <1>4, <2>2, GoToFacts, FieldsFacts DEF Holds
  <2>3. \A e \in Event :
          /\ OSEventType'[e] = IF e = q THEN "SEM" ELSE OSEventType[e]
          /\ e # q => OSEventPtr'[e] = OSEventPtr[e]
    BY <1>4, FieldsFacts, FreeFacts DEF EventTypeOK
  <2>4. \A e \in Event : Spare(e)' <=> Spare(e)
    BY <2>1, <2>2, <2>3 DEF Spare
  <2> QED BY <1>4, <2>1, <2>3, <2>4, FieldsFacts, ChainKept
<1> QED BY <1>1, <1>2, <1>3, <1>4, Blocks DEF FInv

LEMMA FreeInductive ==
  ASSUME PrioDiscipline, FInv, [Next]_vars, [Careful]_vars
  PROVE  FInv'
<1>1. OS_EventWaitListInit => \A t \in Task : OSTCBEventPtr[t] # pevent[OSTCBCur]
  BY FreeFacts DEF FInv, NoneWaitsEarly, OS_EventWaitListInit, InTask
<1>2. IInv' /\ Listed'
  BY <1>1, Inductive, ListedStep DEF FInv
<1>3. CASE Careful
  BY <1>2, <1>3, UnusedStep, CallsFitStep, EarlyStep, OneCreatorStep, ChainStep DEF FInv
<1>4. CASE UNCHANGED vars
  <2>1. UNCHANGED <<OSEventType, OSEventPtr, OSEventFreeList, OSTCBEventPtr, pc, pevent>>
    BY <1>4 DEF vars, coreVars, tcbVars, eventVars, flowVars
  <2>2. (UnusedHasNoWaiter /\ CallsFit /\ NoneWaitsEarly /\ OneCreator)'
    BY <2>1 DEF FInv, UnusedHasNoWaiter, CallsFit, NoneWaitsEarly, OneCreator, Holds
  <2>3. \A e \in Event : Spare(e)' <=> Spare(e)
    BY <2>1 DEF Spare, Holds
  <2> QED BY <1>2, <2>1, <2>2, <2>3, ChainKept DEF FInv
<1> QED BY <1>3, <1>4

-----------------------------------------------------------------------------
(* The state in which the system starts.                                   *)

\* A set of numbers that is not empty has a least element.
LEMMA Least ==
  ASSUME NEW S \in SUBSET Nat, S # {}
  PROVE  \E x \in S : \A y \in S : x <= y
<1>1. IsWellFoundedOn(OpToRel(<, Nat), Nat)
  BY NatLessThanWellFounded
<1>2. PICK x \in S : \A y \in S : ~ (<<y, x>> \in OpToRel(<, Nat))
  BY <1>1, WFMin, Zenon
<1>3. \A y \in S : ~ (y < x)
  BY <1>2 DEF OpToRel
<1> QED
  BY <1>3

\* The chain of unused control blocks, in the order of the table.
LEMMA TableFacts ==
  /\ Len(InitFreeList) \in Nat
  /\ \A i \in 1 .. Len(InitFreeList) : InitFreeList[i] \in Event
  /\ \A i, j \in 1 .. Len(InitFreeList) : InitFreeList[i] = InitFreeList[j] => i = j
BY CoreAssumption, FreeListAssumption, LenProperties, ElementOfSeq
DEF CoreAssumption, FreeListAssumption

\* The control block after an unused one is the next of the table.
LEMMA NextUnusedFacts ==
  /\ \A e \in Event : NextUnused(e) # Null => \E i \in 1 .. Len(InitFreeList) - 1 :
       /\ InitFreeList[i] = e
       /\ i + 1 \in 1 .. Len(InitFreeList) /\ i \in 1 .. Len(InitFreeList)
       /\ NextUnused(e) = InitFreeList[i + 1]
  /\ \A i \in 1 .. Len(InitFreeList) - 1 : NextUnused(InitFreeList[i]) = InitFreeList[i + 1]
<1> DEFINE I == 1 .. Len(InitFreeList) - 1
<1>1. \A i \in I : /\ i \in Int /\ 1 + i = i + 1 /\ i + 1 \in 1 .. Len(InitFreeList)
                   /\ i \in 1 .. Len(InitFreeList)
  BY TableFacts
<1>2. \A e : NextUnused(e) =
        IF \E i \in I : InitFreeList[i] = e
          THEN InitFreeList[1 + CHOOSE i \in I : InitFreeList[i] = e] ELSE Null
  BY DEF NextUnused
<1> HIDE DEF I
<1>3. ASSUME NEW e, \E i \in I : InitFreeList[i] = e
      PROVE  \E i \in I : InitFreeList[i] = e /\ NextUnused(e) = InitFreeList[i + 1]
  <2>1. PICK i \in I : InitFreeList[i] = e /\ NextUnused(e) = InitFreeList[1 + i]
    BY <1>2, <1>3
  <2> QED BY <1>1, <2>1
<1>4. \A e \in Event : NextUnused(e) # Null => \E i \in I :
        /\ InitFreeList[i] = e
        /\ i + 1 \in 1 .. Len(InitFreeList) /\ i \in 1 .. Len(InitFreeList)
        /\ NextUnused(e) = InitFreeList[i + 1]
  <2> SUFFICES ASSUME NEW e \in Event, NextUnused(e) # Null
               PROVE  \E i \in I :
                        /\ InitFreeList[i] = e
                        /\ i + 1 \in 1 .. Len(InitFreeList) /\ i \in 1 .. Len(InitFreeList)
                        /\ NextUnused(e) = InitFreeList[i + 1]
    OBVIOUS
  <2>1. \E i \in I : InitFreeList[i] = e
    BY <1>2
  <2>2. PICK i \in I : InitFreeList[i] = e /\ NextUnused(e) = InitFreeList[i + 1]
    BY <1>3, <2>1
  <2> QED BY <1>1, <2>2
<1>5. ASSUME NEW i \in I PROVE NextUnused(InitFreeList[i]) = InitFreeList[i + 1]
  <2>1. PICK j \in I : InitFreeList[j] = InitFreeList[i]
                       /\ NextUnused(InitFreeList[i]) = InitFreeList[j + 1]
    BY <1>3
  <2>2. j = i
    BY <1>1, <2>1, TableFacts
  <2> QED BY <2>1, <2>2
<1> QED BY <1>4, <1>5 DEF I

LEMMA InitChain ==
  ASSUME Init
  PROVE  FreeChain /\ ChainEnds
<1> DEFINE n == Len(InitFreeList)
<1>1. /\ n \in Nat /\ Null \notin Event
      /\ \A i \in 1 .. n : InitFreeList[i] \in Event
      /\ \A i, j \in 1 .. n : InitFreeList[i] = InitFreeList[j] => i = j
  BY TableFacts, CoreAssumption DEF CoreAssumption
<1>2. /\ OSEventFreeList = IF InitFreeList = <<>> THEN Null ELSE Head(InitFreeList)
      /\ \A e \in Event : OSEventPtr[e] = NextUnused(e)
      /\ \A e \in Event : OSEventType[e] = "UNUSED" <=> e \notin InitSem
      /\ \A t \in Task : pc[t] = "app"
  BY DEF Init, CoreInit, StartedInit, TasksStarted, OS_InitEventList
<1>3. \A e \in Event : Spare(e) <=> \E i \in 1 .. n : InitFreeList[i] = e
  BY <1>2 DEF Spare, Holds, InitSem
<1>4. \/ n = 0 /\ OSEventFreeList = Null
      \/ 1 \in 1 .. n /\ n \in 1 .. n /\ OSEventFreeList = InitFreeList[1]
  <2>1. InitFreeList = <<>> => n = 0
    BY EmptySeq
  <2>2. InitFreeList # <<>> => n # 0 /\ Head(InitFreeList) = InitFreeList[1]
    BY CoreAssumption, EmptySeq, LenProperties, HeadTailProperties DEF CoreAssumption
  <2> QED BY <1>1, <1>2, <2>1, <2>2
<1> HIDE DEF n
<1>5. OSEventFreeList # Null => OSEventFreeList \in Event /\ Spare(OSEventFreeList)
  BY <1>1, <1>3, <1>4
<1>6. ASSUME NEW e \in Event, OSEventPtr[e] # Null
      PROVE  /\ Spare(OSEventPtr[e]) /\ OSEventPtr[e] # OSEventFreeList
             /\ \A f \in Event : OSEventPtr[f] = OSEventPtr[e] => e = f
  <2>1. PICK i \in 1 .. n - 1 :
           /\ InitFreeList[i] = e /\ i + 1 \in 1 .. n /\ i \in 1 .. n
           /\ OSEventPtr[e] = InitFreeList[i + 1]
    BY <1>2, <1>6, NextUnusedFacts DEF n
  <2>2. Spare(OSEventPtr[e])
    BY <1>1, <1>3, <2>1
  <2>3. OSEventPtr[e] # OSEventFreeList
    <3>1. i + 1 # 1
      BY <1>1
    <3> QED BY <1>1, <1>4, <1>6, <2>1, <3>1
  <2>4. ASSUME NEW f \in Event, OSEventPtr[f] = OSEventPtr[e] PROVE e = f
    <3>1. PICK j \in 1 .. n - 1 :
             /\ InitFreeList[j] = f /\ j + 1 \in 1 .. n
             /\ OSEventPtr[f] = InitFreeList[j + 1]
      BY <1>2, <1>6, <2>4, NextUnusedFacts DEF n
    <3>2. j + 1 = i + 1
      BY <1>1, <2>1, <2>4, <3>1
    <3>3. i = j
      BY <1>1, <3>2
    <3> QED BY <2>1, <3>1, <3>3
  <2> QED BY <2>2, <2>3, <2>4
<1>7. ASSUME NEW e \in Event, Spare(e) PROVE e \in FreeEvents
  <2> SUFFICES ASSUME NEW S \in SUBSET Event, Closed(S), e \notin S PROVE FALSE
    BY FreeIsClosed
  <2> DEFINE Out == {i \in Nat : i \in 1 .. n /\ InitFreeList[i] \notin S}
  <2>1. PICK k \in 1 .. n : InitFreeList[k] = e
    BY <1>3, <1>7
  <2>2. k \in Out
    BY <1>1, <2>1
  <2>3. PICK i \in Out : \A j \in Out : i <= j
    <3>1. Out \in SUBSET Nat
      OBVIOUS
    <3> HIDE DEF Out
    <3> QED BY <2>2, <3>1, Least
  <2>4. i \in Nat /\ i \in 1 .. n /\ InitFreeList[i] \notin S
    OBVIOUS
  <2>5. CASE i = 1
    BY <1>1, <1>4, <2>4, <2>5 DEF Closed
  <2>6. CASE i # 1
    <3>1. /\ i - 1 \in Nat /\ i - 1 \in 1 .. n /\ ~ (i <= i - 1)
          /\ i - 1 \in 1 .. n - 1 /\ (i - 1) + 1 = i
      BY <1>1, <2>4, <2>6
    <3>2. InitFreeList[i - 1] \in S
      BY <2>3, <3>1
    <3>3. OSEventPtr[InitFreeList[i - 1]] = InitFreeList[i]
      BY <1>1, <1>2, <3>1, NextUnusedFacts DEF n
    <3>4. InitFreeList[i] # Null
      BY <1>1, <2>4
    <3> QED BY <2>4, <3>2, <3>3, <3>4 DEF Closed
  <2> QED BY <2>5, <2>6
<1>8. ASSUME NEW e \in Event, Spare(e) PROVE \E f \in Event : Spare(f) /\ OSEventPtr[f] = Null
  <2>1. n \in 1 .. n /\ InitFreeList[n] \in Event
    BY <1>1, <1>3, <1>8
  <2>2. ASSUME OSEventPtr[InitFreeList[n]] # Null PROVE FALSE
    <3>1. PICK i \in 1 .. n - 1 : InitFreeList[i] = InitFreeList[n] /\ i \in 1 .. n
      BY <1>2, <2>1, <2>2, NextUnusedFacts DEF n
    <3>2. i = n
      BY <1>1, <2>1, <3>1
    <3> QED BY <1>1, <3>2
  <2> QED BY <1>3, <2>1, <2>2
<1> QED BY <1>5, <1>6, <1>7, <1>8 DEF FreeChain, ChainEnds

LEMMA InitFInv ==
  Init => FInv
<1> SUFFICES ASSUME Init PROVE FInv
  OBVIOUS
<1>1. TasksStarted /\ Null \notin Event
  BY CoreAssumption DEF Init, CoreInit, StartedInit, CoreAssumption
<1>2. IInv /\ Listed
  BY InitWInv DEF WInv
<1>3. UnusedHasNoWaiter /\ CallsFit /\ NoneWaitsEarly /\ OneCreator
  BY <1>1
  DEF TasksStarted, UnusedHasNoWaiter, CallsFit, NoneWaitsEarly, OneCreator, Holds, SemServices
<1> QED BY <1>2, <1>3, InitChain DEF FInv

-----------------------------------------------------------------------------
(* The theorems.                                                           *)

\* Every state that a careful application reaches satisfies the invariant.
LEMMA FreeInvariance ==
  ASSUME PrioDiscipline
  PROVE  Spec /\ [][Careful]_vars => []FInv
<1>1. FInv /\ [Next]_vars /\ [Careful]_vars => FInv'
  BY FreeInductive
<1> QED BY InitFInv, <1>1, PTL DEF Spec

\* The free list of control blocks is a chain that ends; no block on it is a
\* semaphore, is being made one or is waited for: OSSemDel never links a block
\* twice, and OSSemCreate never takes one that is in use, however creations,
\* deletions and waits interleave.
THEOREM FreeListCorrect ==
  ASSUME PrioDiscipline
  PROVE  Spec /\ [][Careful]_vars => []FreeListSound
<1>1. ASSUME FInv PROVE FreeListSound
  <2>1. ASSUME NEW e \in FreeEvents
        PROVE  /\ OSEventType[e] = "UNUSED"
               /\ \A t \in Task :
                    pevent[t] = e => pc[t] \notin {"OSSemCreate", "OS_EventWaitListInit"}
    BY <1>1, FreeIsSpare, FreeFacts DEF Spare, Holds
  <2>2. FreeEvents # {} => \E e \in FreeEvents : OSEventPtr[e] = Null
    <3> SUFFICES ASSUME NEW e \in FreeEvents PROVE \E f \in FreeEvents : OSEventPtr[f] = Null
      OBVIOUS
    <3>1. e \in Event /\ Spare(e)
      BY <1>1, FreeIsSpare
    <3>2. PICK f \in Event : Spare(f) /\ OSEventPtr[f] = Null
      BY <1>1, <3>1 DEF FInv, ChainEnds
    <3> QED BY <1>1, <3>2 DEF FInv, FreeChain
  <2> QED BY <1>1, <2>1, <2>2 DEF FreeListSound, FInv
<1> QED BY FreeInvariance, <1>1, PTL

\* A task that pends is on the wait list of the event it waits for also where
\* semaphores are created and deleted while others wait: the wait list that
\* OSSemCreate initialises outside its critical section is not that of a waiter.
THEOREM CreationKeepsWaiters ==
  ASSUME PrioDiscipline
  PROVE  Spec /\ [][Careful]_vars => []WaiterReachable
<1>1. FInv => WaiterReachable
  BY DEF FInv, Listed, ListedAt, WaiterReachable
<1> QED BY FreeInvariance, <1>1, PTL
=============================================================================
