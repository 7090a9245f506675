--------------------------- MODULE UcosSemProofs ----------------------------
(***************************************************************************)
(* Proofs about UcosSem for every number of tasks, priorities, events and   *)
(* nesting levels: the invariant IInv is inductive, and with it the safety  *)
(* properties of the kernel hold in every state.                            *)
(*                                                                         *)
(* The proofs hold for applications that follow PrioDiscipline: they call  *)
(* OSTaskChangePrio neither from an ISR nor from a task that also locks     *)
(* the scheduler.  Without it HighestRuns is false: see                     *)
(* ChangePrioInIsr.cfg.                                                     *)
(***************************************************************************)
EXTENDS UcosSem, SequenceTheorems, TLAPS

PrioDiscipline ==
  /\ "OSTaskChangePrio" \notin IsrCalls
  /\ \A t \in Task :
       ~ ("OSTaskChangePrio" \in TaskCalls[t] /\ "OSSchedLock" \in TaskCalls[t])

-----------------------------------------------------------------------------
(* The inductive invariant.                                                *)

SchedPlaces == {"OS_Sched", "OSPend_Sched"}
PendPlaces == {"OSPend_Sched", "OSPend_Tail"}

\* A task in a service has an event as the argument of the service; one that
\* refers to an event in its control block is in OSSemPend on that event, and
\* pends on it unless its timeout is over.
PendSound ==
  \A t \in Task :
    /\ pc[t] \notin {"app", "OS_Sched"} => pevent[t] \in Event
    /\ OSTCBStat[t] \subseteq {"SEM", "SUSPEND"}
    /\ OSTCBEventPtr[t] # Null =>
         /\ pc[t] \in PendPlaces
         /\ pevent[t] = OSTCBEventPtr[t]
         /\ "SEM" \notin OSTCBStat[t] => OSTCBStatPend[t] = "TO" /\ OSTCBDly[t] = 0

\* OSPrioCur is the priority of the running task, or one that no task has
\* after a change of priority and before the switch that follows it.
CurSound ==
  \/ OSTCBPrioTbl[OSPrioCur] = OSTCBCur
  \/ /\ OSTCBPrioTbl[OSPrioCur] = Null
     /\ PendSV \/ pc[OSTCBCur] \in SchedPlaces
     /\ OSLockNesting = 0

\* A pending switch leads to the highest-priority ready task.
SwitchSound ==
  PendSV /\ OSIntNesting = 0 =>
    /\ IsHighest(OSPrioHighRdy, OSRdy)
    /\ OSTCBHighRdy = OSTCBPrioTbl[OSPrioHighRdy]

\* While the scheduler is locked there is no switch and no pend.
LockSound ==
  OSLockNesting > 0 =>
    /\ ~PendSV
    /\ "OSSchedLock" \in TaskCalls[OSTCBCur]
    /\ pc[OSTCBCur] \notin PendPlaces \cup {"OSSemPend"}

\* A tick is in progress while there are tasks left for it to visit.
TickSound == tickNest > 0 <=> ptcb # <<>>

IInv ==
  /\ TypeOK
  /\ TickSound
  /\ PrioTblSound
  /\ ReadyIffRunnable
  /\ WaitListSound
  /\ HighestRuns
  /\ PendSound
  /\ CurSound
  /\ SwitchSound
  /\ LockSound

-----------------------------------------------------------------------------
(* Lemmas about the operators of the kernel.                               *)

\* Where OS_Sched is called from and where it returns to.
LEMMA SchedPlacesFacts ==
  /\ DOMAIN AfterSched = SchedPlaces
  /\ AfterSched["OS_Sched"] = "app"
  /\ AfterSched["OSPend_Sched"] = "OSPend_Tail"
BY DEF AfterSched, SchedPlaces

\* The ready list, task by task.
ReadyAt ==
  /\ \A t \in Task : OSTCBPrio[t] \in OSRdy <=> IsReady(t)
  /\ \A p \in OSRdy : p \in Prio /\ OSTCBPrioTbl[p] # Null

\* With a sound priority table the ready list can be read task by task.
LEMMA ReadyPointwise ==
  ASSUME CoreTypeOK, PrioTblSound
  PROVE  ReadyIffRunnable <=> ReadyAt
<1>1. /\ \A t \in Task : OSTCBPrio[t] \in Prio /\ OSTCBPrioTbl[OSTCBPrio[t]] = t
      /\ OSRdy \subseteq Prio
      /\ \A p \in Prio : OSTCBPrioTbl[p] \in Task \cup {Null}
      /\ \A p \in Prio : OSTCBPrioTbl[p] # Null => OSTCBPrio[OSTCBPrioTbl[p]] = p
  BY DEF CoreTypeOK, TcbTypeOK, ReadyTypeOK, PrioTblSound
<1>2. ASSUME ReadyIffRunnable PROVE ReadyAt
  <2>1. \A p : p \in OSRdy <=> \E t \in Task : IsReady(t) /\ p = OSTCBPrio[t]
    BY <1>2 DEF ReadyIffRunnable
  <2>2. \A t \in Task : OSTCBPrio[t] \in OSRdy <=> IsReady(t)
    BY <1>1, <2>1
  <2> QED BY <1>1, <2>1, <2>2, CoreAssumption DEF CoreAssumption, ReadyAt
<1>3. ASSUME ReadyAt PROVE ReadyIffRunnable
  <2>1. \A p : p \in OSRdy <=> \E t \in Task : IsReady(t) /\ p = OSTCBPrio[t]
    BY <1>1, <1>3 DEF ReadyAt
  <2> QED BY <2>1 DEF ReadyIffRunnable
<1> QED BY <1>2, <1>3

\* The same in the next state.
LEMMA ReadyPointwiseNext ==
  ASSUME CoreTypeOK', PrioTblSound'
  PROVE  ReadyIffRunnable' <=> ReadyAt'
<1>1. /\ \A t \in Task : OSTCBPrio'[t] \in Prio /\ OSTCBPrioTbl'[OSTCBPrio'[t]] = t
      /\ OSRdy' \subseteq Prio
      /\ \A p \in Prio : OSTCBPrioTbl'[p] \in Task \cup {Null}
      /\ \A p \in Prio : OSTCBPrioTbl'[p] # Null => OSTCBPrio'[OSTCBPrioTbl'[p]] = p
  BY DEF CoreTypeOK, TcbTypeOK, ReadyTypeOK, PrioTblSound
<1>2. ASSUME ReadyIffRunnable' PROVE ReadyAt'
  <2>1. \A p : p \in OSRdy' <=> \E t \in Task : IsReady(t)' /\ p = OSTCBPrio'[t]
    BY <1>2 DEF ReadyIffRunnable
  <2>2. \A t \in Task : OSTCBPrio'[t] \in OSRdy' <=> IsReady(t)'
    BY <1>1, <2>1
  <2> QED BY <1>1, <2>1, <2>2, CoreAssumption DEF CoreAssumption, ReadyAt
<1>3. ASSUME ReadyAt' PROVE ReadyIffRunnable'
  <2>1. \A p : p \in OSRdy' <=> \E t \in Task : IsReady(t)' /\ p = OSTCBPrio'[t]
    BY <1>1, <1>3 DEF ReadyAt
  <2> QED BY <2>1 DEF ReadyIffRunnable
<1> QED BY <1>2, <1>3

-----------------------------------------------------------------------------
(* Steps keep the types.                                                   *)

\* A step that leaves a group of variables alone keeps its types.
LEMMA FrameTypes ==
  /\ TcbTypeOK /\ UNCHANGED tcbVars => TcbTypeOK'
  /\ EventTypeOK /\ UNCHANGED eventVars => EventTypeOK'
  /\ ReadyTypeOK /\ UNCHANGED readyVars => ReadyTypeOK'
  /\ SwitchTypeOK /\ UNCHANGED switchVars => SwitchTypeOK'
  /\ NestTypeOK /\ UNCHANGED nestVars => NestTypeOK'
  /\ TickTypeOK /\ UNCHANGED tickVars => TickTypeOK'
  /\ FlowTypeOK /\ UNCHANGED flowVars => FlowTypeOK'
BY DEF TcbTypeOK, tcbVars, EventTypeOK, eventVars, ReadyTypeOK, readyVars,
       SwitchTypeOK, switchVars, NestTypeOK, nestVars, TickTypeOK, tickVars,
       FlowTypeOK, flowVars

\* OS_SchedNew finds a task, because a priority on the ready list has one.
LEMMA SchedNewType ==
  ASSUME CoreTypeOK, ReadyAt, OS_SchedNew
  PROVE  SwitchTypeOK'
BY DEF CoreTypeOK, ReadyAt, OS_SchedNew, ReadyTypeOK, SwitchTypeOK

\* The running task goes to one of the places of the services.
LEMMA GoToType ==
  ASSUME NEW place \in Places, NEW e \in Event \cup {Null}, FlowTypeOK, GoTo(place, e)
  PROVE  FlowTypeOK'
BY DEF FlowTypeOK, GoTo

\* So it does when a service returns; in an ISR no task moves.
LEMMA ReturnsType ==
  ASSUME NEW b \in BOOLEAN, FlowTypeOK, Returns(b)
  PROVE  FlowTypeOK'
<1>1. CASE OSIntNesting > 0
  BY <1>1, FrameTypes DEF Returns
<1>2. CASE ~(OSIntNesting > 0)
  <2>1. (IF b THEN "OS_Sched" ELSE "app") \in Places
    BY DEF Places
  <2>2. GoTo(IF b THEN "OS_Sched" ELSE "app", Null)
    BY <1>2 DEF Returns
  <2> QED BY <2>1, <2>2, GoToType
<1> QED BY <1>1, <1>2

\* OS_EventTaskRdy keeps the types, whoever it readies.
LEMMA EventTaskRdyType ==
  ASSUME CoreTypeOK, PrioTblSound, WaitListSound, NEW e \in Event,
         NEW W \in SUBSET OSEventWait[e],
         NEW msk, NEW ps \in {"OK", "TO", "ABORT"},
         OS_EventTaskRdy(e, W, msk, ps)
  PROVE  /\ TcbTypeOK'
         /\ OSRdy' \subseteq Prio
         /\ OSEventWait' \in [Event -> SUBSET Prio]
<1> USE DEF OS_EventTaskRdy, WaitEnds, MakeReady, ReadyPrios
<1>1. TcbTypeOK /\ EventTypeOK /\ ReadyTypeOK
  BY DEF CoreTypeOK
<1>2. TcbTypeOK'
  BY <1>1, CoreAssumption DEF CoreAssumption, TcbTypeOK
<1>3. \A p \in W : OSTCBPrioTbl[p] \in Task
  BY <1>1 DEF WaitListSound, EventTypeOK, ReadyTypeOK
<1>4. OSRdy' \subseteq Prio
  BY <1>1, <1>3 DEF ReadyTypeOK, TcbTypeOK
<1>5. OSEventWait' \in [Event -> SUBSET Prio]
  BY <1>1 DEF EventTypeOK
<1> QED BY <1>2, <1>4, <1>5

\* The end of a delay or timeout keeps the types.
LEMMA DlyEndsType ==
  ASSUME CoreTypeOK, NEW t \in Task, DlyEnds(t)
  PROVE  TcbTypeOK' /\ OSRdy' \subseteq Prio
<1>1. TcbTypeOK /\ ReadyTypeOK
  BY DEF CoreTypeOK
<1>2. TcbTypeOK'
  BY <1>1, CoreAssumption DEF CoreAssumption, DlyEnds, TcbTypeOK
<1>3. OSRdy' \subseteq Prio
  BY <1>1 DEF DlyEnds, MakeReady, ReadyPrios, ReadyTypeOK, TcbTypeOK
<1> QED BY <1>2, <1>3

\* The scheduler, the context switch, interrupts and the tick keep the types.
LEMMA CoreNextType ==
  ASSUME IInv, CoreNext
  PROVE  CoreTypeOK'
<1>1. /\ CoreTypeOK /\ ReadyAt /\ TickSound
      /\ TcbTypeOK /\ EventTypeOK /\ ReadyTypeOK /\ SwitchTypeOK /\ NestTypeOK
      /\ TickTypeOK /\ FlowTypeOK
  BY ReadyPointwise DEF IInv, TypeOK, CoreTypeOK
<1>2. CASE OS_Sched
  <2>1. UNCHANGED <<tcbVars, eventVars, readyVars, nestVars, tickVars>>
    BY <1>2 DEF OS_Sched
  <2>2. SwitchTypeOK'
    BY <1>1, <1>2, SchedNewType, FrameTypes DEF OS_Sched
  <2>3. AfterSched[pc[OSTCBCur]] \in Places /\ pevent[OSTCBCur] \in Event \cup {Null}
    BY <1>1, <1>2, SchedPlacesFacts
    DEF OS_Sched, SchedPlaces, Places, SwitchTypeOK, FlowTypeOK
  <2>4. FlowTypeOK'
    BY <1>1, <1>2, <2>3, GoToType DEF OS_Sched
  <2> QED BY <1>1, <2>1, <2>2, <2>4, FrameTypes DEF CoreTypeOK
<1>3. CASE PendSV_Handler
  <2>1. UNCHANGED <<tcbVars, eventVars, readyVars, nestVars, tickVars, flowVars>>
    BY <1>3 DEF PendSV_Handler
  <2>2. SwitchTypeOK'
    BY <1>1, <1>3 DEF PendSV_Handler, SwitchTypeOK
  <2> QED BY <1>1, <2>1, <2>2, FrameTypes DEF CoreTypeOK
<1>4. CASE OSSchedLock
  <2>1. UNCHANGED <<tcbVars, eventVars, readyVars, switchVars, tickVars, flowVars>>
    BY <1>4 DEF OSSchedLock
  <2>2. NestTypeOK'
    BY <1>1, <1>4, CoreAssumption DEF CoreAssumption, OSSchedLock, NestTypeOK
  <2> QED BY <1>1, <2>1, <2>2, FrameTypes DEF CoreTypeOK
<1>5. CASE OSSchedUnlock
  <2>1. UNCHANGED <<tcbVars, eventVars, readyVars, switchVars, tickVars>>
    BY <1>5 DEF OSSchedUnlock
  <2>2. NestTypeOK'
    BY <1>1, <1>5, CoreAssumption DEF CoreAssumption, OSSchedUnlock, NestTypeOK
  <2>3. FlowTypeOK'
    BY <1>1, <1>5, ReturnsType DEF OSSchedUnlock
  <2> QED BY <1>1, <2>1, <2>2, <2>3, FrameTypes DEF CoreTypeOK
<1>6. CASE OSIntEnter
  <2>1. UNCHANGED <<tcbVars, eventVars, readyVars, switchVars, tickVars, flowVars>>
    BY <1>6 DEF OSIntEnter
  <2>2. NestTypeOK'
    BY <1>1, <1>6, CoreAssumption DEF CoreAssumption, OSIntEnter, NestTypeOK
  <2> QED BY <1>1, <2>1, <2>2, FrameTypes DEF CoreTypeOK
<1>7. CASE OSIntExit
  <2>1. UNCHANGED <<tcbVars, eventVars, readyVars, tickVars, flowVars>>
    BY <1>7 DEF OSIntExit
  <2>2. NestTypeOK'
    BY <1>1, <1>7, CoreAssumption DEF CoreAssumption, OSIntExit, InIsr, NestTypeOK
  <2>3. SwitchTypeOK'
    BY <1>1, <1>7, SchedNewType, FrameTypes DEF OSIntExit
  <2> QED BY <1>1, <2>1, <2>2, <2>3, FrameTypes DEF CoreTypeOK
<1>8. CASE OSTimeTick
  <2>1. UNCHANGED <<tcbVars, eventVars, readyVars, switchVars, nestVars, flowVars>>
    BY <1>8 DEF OSTimeTick
  <2>2. TickTypeOK'
    BY <1>1, <1>8, CoreAssumption DEF CoreAssumption, OSTimeTick, TickTypeOK, NestTypeOK
  <2> QED BY <1>1, <2>1, <2>2, FrameTypes DEF CoreTypeOK
<1>9. CASE OSTimeTick_Step
  <2>1. UNCHANGED <<eventVars, OSTCBPrioTbl, switchVars, nestVars, flowVars>>
    BY <1>9 DEF OSTimeTick_Step
  <2>2. Head(ptcb) \in Task /\ Tail(ptcb) \in Seq(Task \ {Idle})
    BY <1>1, <1>9, HeadTailProperties DEF OSTimeTick_Step, TickTypeOK, TickSound
  <2>3. TickTypeOK'
    BY <1>1, <1>9, <2>2, CoreAssumption DEF CoreAssumption, OSTimeTick_Step, TickTypeOK
  <2>4. TcbTypeOK' /\ OSRdy' \subseteq Prio
    <3>1. CASE OSTCBDly[Head(ptcb)] = 1
      BY <1>1, <1>9, <2>2, <3>1, DlyEndsType DEF OSTimeTick_Step
    <3>2. CASE OSTCBDly[Head(ptcb)] # 1
      <4>1. OSTCBDly' \in [Task -> 0 .. MaxDly]
        <5>1. OSTCBDly[Head(ptcb)] - 1 \in 0 .. MaxDly \/ OSTCBDly[Head(ptcb)] = 0
          BY <1>1, <2>2, CoreAssumption DEF CoreAssumption, TcbTypeOK
        <5> QED BY <1>1, <1>9, <2>2, <3>2, <5>1 DEF OSTimeTick_Step, TcbTypeOK
      <4> QED BY <1>1, <1>9, <2>2, <3>2, <4>1 DEF OSTimeTick_Step, TcbTypeOK, ReadyTypeOK
    <3> QED BY <3>1, <3>2
  <2>5. ReadyTypeOK'
    BY <1>1, <2>1, <2>4 DEF ReadyTypeOK
  <2> QED BY <1>1, <2>1, <2>3, <2>4, <2>5, FrameTypes DEF CoreTypeOK
<1> QED
  BY <1>2, <1>3, <1>4, <1>5, <1>6, <1>7, <1>8, <1>9 DEF CoreNext

\* The services of os_time.c and os_task.c keep the types.
LEMMA TaskNextType ==
  ASSUME IInv, TaskNext
  PROVE  CoreTypeOK'
<1>1. /\ CoreTypeOK
      /\ TcbTypeOK /\ EventTypeOK /\ ReadyTypeOK /\ SwitchTypeOK /\ FlowTypeOK
      /\ NestTypeOK /\ TickTypeOK
  BY DEF IInv, TypeOK, CoreTypeOK
<1>2. ASSUME NEW ticks \in 1 .. MaxDly, OSTimeDly(ticks)
      PROVE  CoreTypeOK'
  <2>1. UNCHANGED <<OSTCBPrioTbl, eventVars, switchVars, nestVars, tickVars>>
    BY <1>2 DEF OSTimeDly
  <2>2. OSTCBDly' \in [Task -> 0 .. MaxDly]
    <3>1. ticks \in 0 .. MaxDly
      BY CoreAssumption DEF CoreAssumption
    <3> QED BY <1>1, <1>2, <3>1 DEF OSTimeDly, TcbTypeOK
  <2>3. TcbTypeOK'
    BY <1>1, <1>2, <2>2 DEF OSTimeDly, TcbTypeOK
  <2>4. ReadyTypeOK'
    BY <1>1, <1>2 DEF OSTimeDly, ReadyTypeOK
  <2>5. FlowTypeOK'
    BY <1>1, <1>2, ReturnsType DEF OSTimeDly
  <2> QED BY <1>1, <2>1, <2>3, <2>4, <2>5, FrameTypes DEF CoreTypeOK
<1>3. ASSUME NEW prio \in Prio, OSTimeDlyResume(prio)
      PROVE  CoreTypeOK'
  <2>1. UNCHANGED <<OSTCBPrioTbl, eventVars, switchVars, nestVars, tickVars>>
    BY <1>3 DEF OSTimeDlyResume
  <2>2. TcbTypeOK' /\ OSRdy' \subseteq Prio
    BY <1>1, <1>3, DlyEndsType DEF OSTimeDlyResume, NamesTask
  <2>3. ReadyTypeOK'
    BY <1>1, <2>1, <2>2 DEF ReadyTypeOK
  <2>4. FlowTypeOK'
    BY <1>1, <1>3, ReturnsType DEF OSTimeDlyResume
  <2> QED BY <1>1, <2>1, <2>2, <2>3, <2>4, FrameTypes DEF CoreTypeOK
<1>4. ASSUME NEW prio \in Prio, OSTaskSuspend(prio)
      PROVE  CoreTypeOK'
  <2>1. UNCHANGED <<OSTCBPrioTbl, eventVars, switchVars, nestVars, tickVars>>
    BY <1>4 DEF OSTaskSuspend
  <2>2. TcbTypeOK'
    BY <1>1, <1>4 DEF OSTaskSuspend, NamesTask, TcbTypeOK, OS_STAT
  <2>3. ReadyTypeOK'
    BY <1>1, <1>4 DEF OSTaskSuspend, ReadyTypeOK
  <2>4. FlowTypeOK'
    BY <1>1, <1>4, ReturnsType DEF OSTaskSuspend
  <2> QED BY <1>1, <2>1, <2>2, <2>3, <2>4, FrameTypes DEF CoreTypeOK
<1>5. ASSUME NEW prio \in Prio, OSTaskResume(prio)
      PROVE  CoreTypeOK'
  <2>1. UNCHANGED <<OSTCBPrioTbl, eventVars, switchVars, nestVars, tickVars>>
    BY <1>5 DEF OSTaskResume
  <2>2. TcbTypeOK'
    BY <1>1, <1>5 DEF OSTaskResume, NamesTask, TcbTypeOK
  <2>3. ReadyTypeOK'
    BY <1>1, <1>5 DEF OSTaskResume, NamesTask, ReadyTypeOK, TcbTypeOK
  <2>4. FlowTypeOK'
    BY <1>1, <1>5, ReturnsType DEF OSTaskResume
  <2> QED BY <1>1, <2>1, <2>2, <2>3, <2>4, FrameTypes DEF CoreTypeOK
<1>6. ASSUME NEW old \in Prio, NEW new \in Prio, OSTaskChangePrio(old, new)
      PROVE  CoreTypeOK'
  <2>1. UNCHANGED <<switchVars, nestVars, tickVars>>
    BY <1>6 DEF OSTaskChangePrio
  <2>2. TcbTypeOK'
    BY <1>1, <1>6 DEF OSTaskChangePrio, NamesTask, TcbTypeOK
  <2>3. ReadyTypeOK'
    BY <1>1, <1>6 DEF OSTaskChangePrio, NamesTask, FreePrio, ReadyTypeOK
  <2>4. EventTypeOK'
    BY <1>1, <1>6 DEF OSTaskChangePrio, FreePrio, WaitListMoved, EventTypeOK
  <2>5. FlowTypeOK'
    BY <1>1, <1>6, ReturnsType DEF OSTaskChangePrio
  <2> QED BY <1>1, <2>1, <2>2, <2>3, <2>4, <2>5, FrameTypes DEF CoreTypeOK
<1> QED
  BY <1>2, <1>3, <1>4, <1>5, <1>6 DEF TaskNext, TaskControl

\* The semaphore services keep the types.
LEMMA SemNextType ==
  ASSUME IInv, SemNext
  PROVE  TypeOK'
<1>1. /\ CoreTypeOK /\ OSEventCnt \in [Event -> 0 .. MaxCnt]
      /\ TcbTypeOK /\ EventTypeOK /\ ReadyTypeOK /\ SwitchTypeOK /\ FlowTypeOK
      /\ PrioTblSound /\ WaitListSound /\ PendSound
  BY DEF IInv, TypeOK, CoreTypeOK
<1> USE CoreAssumption, SemAssumption DEF KernelUnchanged, SwitchUnchanged
<1>2. ASSUME NEW service \in SemServices, NEW e \in Event, OSSem_Enter(service, e)
      PROVE  TypeOK'
  <2>1. UNCHANGED <<tcbVars, eventVars, readyVars, switchVars, nestVars, tickVars,
                    OSEventCnt>>
    BY <1>2 DEF OSSem_Enter
  <2>2. FlowTypeOK'
    BY <1>1, <1>2, GoToType DEF OSSem_Enter, SemServices, Places
  <2> QED BY <1>1, <2>1, <2>2, FrameTypes DEF TypeOK, CoreTypeOK
<1>3. ASSUME NEW e \in Event,
             \/ OSSemAccept(e)
             \/ OSSemPend_Take(e)
             \/ \E cnt \in 0 .. MaxCnt : OSSemSet(e, cnt)
      PROVE  TypeOK'
  <2>1. UNCHANGED <<tcbVars, eventVars, readyVars, switchVars, nestVars, tickVars>>
    BY <1>3 DEF OSSemAccept, OSSemPend_Take, OSSemSet
  <2>2. FlowTypeOK'
    BY <1>1, <1>3, ReturnsType DEF OSSemAccept, OSSemPend_Take, OSSemSet
  <2>3. OSEventCnt' \in [Event -> 0 .. MaxCnt]
    <3>1. OSEventCnt[e] > 0 => OSEventCnt[e] - 1 \in 0 .. MaxCnt
      BY <1>1 DEF SemAssumption
    <3> QED BY <1>1, <1>3, <3>1 DEF OSSemAccept, OSSemPend_Take, OSSemSet
  <2> QED BY <1>1, <2>1, <2>2, <2>3, FrameTypes DEF TypeOK, CoreTypeOK
<1>4. ASSUME NEW e \in Event, NEW timeout \in 0 .. MaxDly, OSSemPend_Block(e, timeout)
      PROVE  TypeOK'
  <2>1. UNCHANGED <<OSTCBPrioTbl, OSEventPtr, OSEventType, OSEventFreeList, switchVars,
                    nestVars, tickVars, OSEventCnt>>
    BY <1>4 DEF OSSemPend_Block
  <2>2. TcbTypeOK'
    BY <1>1, <1>4 DEF OSSemPend_Block, OS_EventTaskWait, TcbTypeOK, OS_STAT, OS_STAT_PEND_ANY
  <2>3. EventTypeOK'
    BY <1>1, <1>4, <2>1
    DEF OSSemPend_Block, OS_EventTaskWait, EventTypeOK, TcbTypeOK, SwitchTypeOK
  <2>4. ReadyTypeOK'
    BY <1>1, <1>4 DEF OSSemPend_Block, OS_EventTaskWait, ReadyTypeOK
  <2>5. FlowTypeOK'
    BY <1>1, <1>4, GoToType DEF OSSemPend_Block, Places
  <2> QED BY <1>1, <2>1, <2>2, <2>3, <2>4, <2>5, FrameTypes DEF TypeOK, CoreTypeOK
<1>5. CASE OSSemPend_Tail
  <2>1. UNCHANGED <<readyVars, OSEventPtr, OSEventType, OSEventFreeList, switchVars,
                    nestVars, tickVars, OSEventCnt>>
    BY <1>5 DEF OSSemPend_Tail, OSPend_Tail, readyVars
  <2>2. TcbTypeOK'
    BY <1>1, <1>5 DEF OSSemPend_Tail, OSPend_Tail, TcbTypeOK
  <2>3. EventTypeOK'
    BY <1>1, <1>5, <2>1 DEF OSSemPend_Tail, OSPend_Tail, OS_EventTaskRemove, EventTypeOK
  <2>4. FlowTypeOK'
    BY <1>1, <1>5, ReturnsType DEF OSSemPend_Tail, OSPend_Tail
  <2> QED BY <1>1, <2>1, <2>2, <2>3, <2>4, FrameTypes DEF TypeOK, CoreTypeOK
<1>6. ASSUME NEW e \in Event, OSSemPost(e)
      PROVE  TypeOK'
  <2>1. UNCHANGED <<OSTCBPrioTbl, OSEventPtr, OSEventType, OSEventFreeList, switchVars,
                    nestVars, tickVars>>
    BY <1>6 DEF OSSemPost
  <2>2. /\ TcbTypeOK' /\ ReadyTypeOK' /\ EventTypeOK' /\ FlowTypeOK'
        /\ OSEventCnt' \in [Event -> 0 .. MaxCnt]
    <3>1. CASE OSEventWait[e] # {}
      <4>1. PICK W \in Readied(e, FALSE) : OS_EventTaskRdy(e, W, "SEM", "OK")
        BY <1>6, <3>1 DEF OSSemPost
      <4>2. W \in SUBSET OSEventWait[e]
        BY DEF Readied
      <4>3. /\ TcbTypeOK' /\ OSRdy' \subseteq Prio
            /\ OSEventWait' \in [Event -> SUBSET Prio]
        BY <1>1, <4>1, <4>2, EventTaskRdyType
      <4>4. FlowTypeOK' /\ OSEventCnt' = OSEventCnt
        <5>1. Returns(TRUE) /\ UNCHANGED OSEventCnt
          BY <1>6, <3>1 DEF OSSemPost
        <5> QED BY <1>1, <5>1, ReturnsType
      <4> QED BY <1>1, <2>1, <4>3, <4>4 DEF ReadyTypeOK, EventTypeOK
    <3>2. CASE OSEventWait[e] = {}
      <4>1. UNCHANGED <<tcbVars, readyVars, eventVars>>
        BY <1>6, <2>1, <3>2 DEF OSSemPost, readyVars, eventVars
      <4>2. FlowTypeOK'
        BY <1>1, <1>6, <3>2, ReturnsType DEF OSSemPost
      <4>3. OSEventCnt' \in [Event -> 0 .. MaxCnt]
        <5>1. OSEventCnt[e] < MaxCnt => OSEventCnt[e] + 1 \in 0 .. MaxCnt
          BY <1>1 DEF SemAssumption
        <5> QED BY <1>1, <1>6, <3>2, <5>1 DEF OSSemPost
      <4> QED BY <1>1, <4>1, <4>2, <4>3, FrameTypes
    <3> QED BY <3>1, <3>2
  <2> QED BY <1>1, <2>1, <2>2, FrameTypes DEF TypeOK, CoreTypeOK
<1>7. ASSUME NEW e \in Event, NEW all \in BOOLEAN, OSSemPendAbort(e, all)
      PROVE  TypeOK'
  <2>1. UNCHANGED <<OSTCBPrioTbl, OSEventPtr, OSEventType, OSEventFreeList, switchVars,
                    nestVars, tickVars, OSEventCnt>>
    BY <1>7 DEF OSSemPendAbort
  <2>2. TcbTypeOK' /\ ReadyTypeOK' /\ EventTypeOK' /\ FlowTypeOK'
    <3>1. CASE OSEventWait[e] # {}
      <4>1. PICK W \in Readied(e, all) : OS_EventTaskRdy(e, W, "SEM", "ABORT")
        BY <1>7, <3>1 DEF OSSemPendAbort
      <4>2. W \in SUBSET OSEventWait[e]
        BY DEF Readied
      <4>3. /\ TcbTypeOK' /\ OSRdy' \subseteq Prio
            /\ OSEventWait' \in [Event -> SUBSET Prio]
        BY <1>1, <4>1, <4>2, EventTaskRdyType
      <4>4. FlowTypeOK'
        BY <1>1, <1>7, <3>1, ReturnsType DEF OSSemPendAbort
      <4> QED BY <1>1, <2>1, <4>3, <4>4 DEF ReadyTypeOK, EventTypeOK
    <3>2. CASE OSEventWait[e] = {}
      <4>1. UNCHANGED <<tcbVars, readyVars, eventVars>>
        BY <1>7, <2>1, <3>2 DEF OSSemPendAbort, readyVars, eventVars
      <4>2. FlowTypeOK'
        BY <1>1, <1>7, <3>2, ReturnsType DEF OSSemPendAbort
      <4> QED BY <1>1, <4>1, <4>2, FrameTypes
    <3> QED BY <3>1, <3>2
  <2> QED BY <1>1, <2>1, <2>2, FrameTypes DEF TypeOK, CoreTypeOK
<1>8. ASSUME NEW e \in Event, NEW always \in BOOLEAN, OSSemDel(e, always)
      PROVE  TypeOK'
  <2>1. UNCHANGED <<OSTCBPrioTbl, switchVars, nestVars, tickVars>>
    BY <1>8 DEF OSSemDel
  <2>2. /\ TcbTypeOK' /\ ReadyTypeOK' /\ EventTypeOK' /\ FlowTypeOK'
        /\ OSEventCnt' \in [Event -> 0 .. MaxCnt]
    <3>1. CASE OSEventWait[e] = {} \/ always
      <4>1. /\ TcbTypeOK' /\ OSRdy' \subseteq Prio
            /\ OSEventWait' \in [Event -> SUBSET Prio]
        BY <1>1, <1>8, <3>1, EventTaskRdyType DEF OSSemDel
      <4>2. FlowTypeOK'
        BY <1>1, <1>8, <3>1, ReturnsType DEF OSSemDel
      <4>3. /\ OSEventType' = [OSEventType EXCEPT ![e] = "UNUSED"]
            /\ OSEventPtr' = [OSEventPtr EXCEPT ![e] = OSEventFreeList]
            /\ OSEventFreeList' = e
            /\ OSEventCnt' = [OSEventCnt EXCEPT ![e] = 0]
        BY <1>8, <3>1 DEF OSSemDel
      <4>4. /\ OSEventType' \in [Event -> {"UNUSED", "SEM"}]
            /\ OSEventPtr' \in [Event -> Event \cup {Null}]
            /\ OSEventFreeList' \in Event \cup {Null}
        BY <1>1, <4>3 DEF EventTypeOK
      <4>5. OSEventCnt' \in [Event -> 0 .. MaxCnt]
        BY <1>1, <4>3 DEF SemAssumption
      <4> QED BY <1>1, <2>1, <4>1, <4>2, <4>4, <4>5 DEF ReadyTypeOK, EventTypeOK
    <3>2. CASE ~(OSEventWait[e] = {} \/ always)
      <4>1. UNCHANGED <<tcbVars, readyVars, eventVars, OSEventCnt>>
        BY <1>8, <2>1, <3>2 DEF OSSemDel, readyVars
      <4>2. FlowTypeOK'
        BY <1>1, <1>8, <3>2, ReturnsType DEF OSSemDel
      <4> QED BY <1>1, <4>1, <4>2, FrameTypes
    <3> QED BY <3>1, <3>2
  <2> QED BY <1>1, <2>1, <2>2, FrameTypes DEF TypeOK, CoreTypeOK
<1>9. CASE OSSemCreate
  <2>1. UNCHANGED <<tcbVars, readyVars, switchVars, nestVars, tickVars, OSEventCnt>>
    BY <1>9 DEF OSSemCreate
  <2>2. EventTypeOK'
    BY <1>1, <1>9 DEF OSSemCreate, EventTypeOK
  <2>3. FlowTypeOK'
    BY <1>1, <1>9, GoToType DEF OSSemCreate, EventTypeOK, Places
  <2> QED BY <1>1, <2>1, <2>2, <2>3, FrameTypes DEF TypeOK, CoreTypeOK
<1>10. ASSUME NEW cnt \in 0 .. MaxCnt, OSSemCreate_Fields(cnt)
       PROVE  TypeOK'
  <2>1. UNCHANGED <<tcbVars, readyVars, switchVars, nestVars, tickVars>>
    BY <1>10 DEF OSSemCreate_Fields
  <2>2. EventTypeOK' /\ OSEventCnt' \in [Event -> 0 .. MaxCnt]
    BY <1>1, <1>10 DEF OSSemCreate_Fields, EventTypeOK
  <2>3. FlowTypeOK'
    BY <1>1, <1>10, GoToType DEF OSSemCreate_Fields, FlowTypeOK, SwitchTypeOK, Places
  <2> QED BY <1>1, <2>1, <2>2, <2>3, FrameTypes DEF TypeOK, CoreTypeOK
<1>11. CASE OS_EventWaitListInit
  <2>1. UNCHANGED <<tcbVars, readyVars, switchVars, nestVars, tickVars, OSEventCnt>>
    BY <1>11 DEF OS_EventWaitListInit
  <2>2. EventTypeOK'
    BY <1>1, <1>11 DEF OS_EventWaitListInit, EventTypeOK
  <2>3. FlowTypeOK'
    BY <1>1, <1>11, ReturnsType DEF OS_EventWaitListInit
  <2> QED BY <1>1, <2>1, <2>2, <2>3, FrameTypes DEF TypeOK, CoreTypeOK
<1> QED
  BY <1>2, <1>3, <1>4, <1>5, <1>6, <1>7, <1>8, <1>9, <1>10, <1>11 DEF SemNext

\* Every step keeps the types.
LEMMA TypeStep ==
  ASSUME IInv, [Next]_vars
  PROVE  TypeOK'
<1>1. CASE UNCHANGED vars
  BY <1>1, FrameTypes DEF vars, coreVars, IInv, TypeOK, CoreTypeOK
<1>2. CASE Next
  BY <1>2, CoreNextType, TaskNextType, SemNextType DEF Next, IInv, TypeOK
<1> QED BY <1>1, <1>2

-----------------------------------------------------------------------------
(* What a step does to the tasks, the ready list and the wait lists.       *)

\* Nothing, except that creation initialises a wait list.
TasksKept ==
  /\ UNCHANGED <<tcbVars, readyVars>>
  /\ \A e \in Event : OSEventWait'[e] \subseteq OSEventWait[e]
  /\ OS_EventWaitListInit \/ UNCHANGED OSEventWait

\* A post, an abort or a deletion readies waiters of e.
Wakes(e, W, ps) ==
  /\ ps \in {"OK", "ABORT"}
  /\ W \in SUBSET OSEventWait[e]
  /\ OS_EventTaskRdy(e, W, "SEM", ps)
  /\ UNCHANGED OSTCBPrioTbl

\* The tick or OSTimeDlyResume ends a delay.
EndsDelay(t) ==
  /\ OSTCBDly[t] # 0
  /\ DlyEnds(t)
  /\ UNCHANGED <<OSTCBPrioTbl, OSEventWait>>

\* The tick counts a delay down.
CountsDown(t) ==
  /\ OSTCBDly[t] # 0 /\ OSTCBDly[t] # 1
  /\ OSTCBDly' = [OSTCBDly EXCEPT ![t] = OSTCBDly[t] - 1]
  /\ UNCHANGED <<OSTCBPrio, OSTCBStat, OSTCBStatPend, OSTCBEventPtr, readyVars, OSEventWait>>

\* What a step can do to task state, whichever service takes it.
LEMMA Effects ==
  ASSUME IInv, [Next]_vars
  PROVE  \/ TasksKept
         \/ \E e \in Event : \E W, ps : Wakes(e, W, ps)
         \/ \E t \in Task : EndsDelay(t) \/ CountsDown(t)
         \/ \E ticks \in 1 .. MaxDly : OSTimeDly(ticks)
         \/ \E prio \in Prio : OSTaskSuspend(prio) \/ OSTaskResume(prio)
         \/ \E old, new \in Prio : OSTaskChangePrio(old, new)
         \/ \E e \in Event, timeout \in 0 .. MaxDly : OSSemPend_Block(e, timeout)
         \/ OSSemPend_Tail
<1> USE DEF TasksKept
<1>1. /\ CoreTypeOK /\ TickSound
      /\ TcbTypeOK /\ EventTypeOK /\ TickTypeOK /\ SwitchTypeOK /\ FlowTypeOK /\ PendSound
  BY DEF IInv, TypeOK, CoreTypeOK
<1>2. CASE UNCHANGED vars
  BY <1>2 DEF vars, coreVars, eventVars
<1>3. CASE CoreNext
  <2>1. CASE OSTimeTick_Step
    <3> DEFINE t == Head(ptcb)
    <3>1. t \in Task
      BY <1>1, <2>1, HeadTailProperties DEF OSTimeTick_Step, TickTypeOK, TickSound
    <3>2. UNCHANGED <<OSTCBPrioTbl, OSEventWait>>
      BY <2>1 DEF OSTimeTick_Step, eventVars
    <3>3. CASE OSTCBDly[t] = 1
      <4>1. EndsDelay(t)
        BY <2>1, <3>2, <3>3 DEF OSTimeTick_Step, EndsDelay
      <4> QED BY <3>1, <4>1
    <3>4. CASE OSTCBDly[t] = 0
      <4>1. OSTCBDly' = OSTCBDly
        BY <1>1, <2>1, <3>1, <3>4 DEF OSTimeTick_Step, TcbTypeOK
      <4> QED BY <2>1, <3>2, <3>4, <4>1 DEF OSTimeTick_Step, tcbVars, readyVars
    <3>5. CASE OSTCBDly[t] # 0 /\ OSTCBDly[t] # 1
      <4>1. CountsDown(t)
        BY <1>1, <2>1, <3>1, <3>2, <3>5 DEF OSTimeTick_Step, CountsDown, TcbTypeOK, readyVars
      <4> QED BY <3>1, <4>1
    <3> QED BY <3>3, <3>4, <3>5
  <2>2. CASE ~OSTimeTick_Step
    BY <1>3, <2>2 DEF CoreNext, OS_Sched, PendSV_Handler, OSSchedLock, OSSchedUnlock,
       OSIntEnter, OSIntExit, OSTimeTick, eventVars
  <2> QED BY <2>1, <2>2
<1>4. CASE TaskNext
  <2>1. ASSUME NEW prio \in Prio, OSTimeDlyResume(prio)
        PROVE  \E t \in Task : EndsDelay(t)
    <3>1. OSTCBPrioTbl[prio] \in Task /\ EndsDelay(OSTCBPrioTbl[prio])
      BY <2>1 DEF OSTimeDlyResume, NamesTask, EndsDelay, eventVars
    <3> QED BY <3>1
  <2> QED BY <1>4, <2>1 DEF TaskNext, TaskControl
<1>5. CASE SemNext
  <2>1. ASSUME NEW e \in Event, OSSemPost(e)
        PROVE  TasksKept \/ \E W, ps : Wakes(e, W, ps)
    <3>1. CASE OSEventWait[e] # {}
      <4>1. PICK W \in Readied(e, FALSE) : OS_EventTaskRdy(e, W, "SEM", "OK")
        BY <2>1, <3>1 DEF OSSemPost
      <4>2. Wakes(e, W, "OK")
        BY <2>1, <4>1 DEF OSSemPost, SwitchUnchanged, Readied, Wakes
      <4> QED BY <4>2
    <3>2. CASE OSEventWait[e] = {}
      BY <2>1, <3>2 DEF OSSemPost, SwitchUnchanged, readyVars
    <3> QED BY <3>1, <3>2
  <2>2. ASSUME NEW e \in Event, NEW all \in BOOLEAN, OSSemPendAbort(e, all)
        PROVE  TasksKept \/ \E W, ps : Wakes(e, W, ps)
    <3>1. CASE OSEventWait[e] # {}
      <4>1. PICK W \in Readied(e, all) : OS_EventTaskRdy(e, W, "SEM", "ABORT")
        BY <2>2, <3>1 DEF OSSemPendAbort
      <4>2. Wakes(e, W, "ABORT")
        BY <2>2, <4>1 DEF OSSemPendAbort, SwitchUnchanged, Readied, Wakes
      <4> QED BY <4>2
    <3>2. CASE OSEventWait[e] = {}
      BY <2>2, <3>2 DEF OSSemPendAbort, SwitchUnchanged, readyVars
    <3> QED BY <3>1, <3>2
  <2>3. ASSUME NEW e \in Event, NEW always \in BOOLEAN, OSSemDel(e, always)
        PROVE  TasksKept \/ \E W, ps : Wakes(e, W, ps)
    <3>1. CASE OSEventWait[e] = {} \/ always
      <4>1. Wakes(e, OSEventWait[e], "ABORT")
        BY <2>3, <3>1 DEF OSSemDel, Wakes
      <4> QED BY <4>1
    <3>2. CASE ~(OSEventWait[e] = {} \/ always)
      BY <2>3, <3>2 DEF OSSemDel, readyVars, eventVars
    <3> QED BY <3>1, <3>2
  <2>4. ASSUME OS_EventWaitListInit
        PROVE  TasksKept
    BY <1>1, <2>4 DEF OS_EventWaitListInit, KernelUnchanged, EventTypeOK
  <2>5. ASSUME \/ \E service \in SemServices, e \in Event : OSSem_Enter(service, e)
               \/ \E e \in Event : OSSemAccept(e) \/ OSSemPend_Take(e)
               \/ \E e \in Event, cnt \in 0 .. MaxCnt : OSSemSet(e, cnt)
               \/ OSSemCreate
               \/ \E cnt \in 0 .. MaxCnt : OSSemCreate_Fields(cnt)
        PROVE  TasksKept
    BY <2>5 DEF OSSem_Enter, OSSemAccept, OSSemPend_Take, OSSemSet, OSSemCreate,
       OSSemCreate_Fields, KernelUnchanged, eventVars
  <2> QED BY <1>5, <2>1, <2>2, <2>3, <2>4, <2>5 DEF SemNext
<1> QED BY <1>2, <1>3, <1>4, <1>5 DEF Next

-----------------------------------------------------------------------------
(* The priority table, the ready list and the wait lists.                  *)

\* Only OSTaskChangePrio touches the priority table.
LEMMA PrioTblKept ==
  ASSUME IInv, [Next]_vars
  PROVE  \/ \E old, new \in Prio : OSTaskChangePrio(old, new)
         \/ UNCHANGED <<OSTCBPrio, OSTCBPrioTbl>>
BY Effects
DEF TasksKept, Wakes, OS_EventTaskRdy, WaitEnds, EndsDelay, DlyEnds, CountsDown, OSTimeDly,
    OSTaskSuspend, OSTaskResume, OSSemPend_Block, SwitchUnchanged, OSSemPend_Tail, OSPend_Tail,
    tcbVars, readyVars

\* It moves one task to a priority nobody has.
LEMMA PrioTblStep ==
  ASSUME IInv, [Next]_vars
  PROVE  PrioTblSound'
<1>1. /\ TcbTypeOK /\ ReadyTypeOK /\ SwitchTypeOK /\ PrioTblSound
  BY DEF IInv, TypeOK, CoreTypeOK
<1>2. ASSUME NEW old \in Prio, NEW new \in Prio, OSTaskChangePrio(old, new)
      PROVE  PrioTblSound'
  <2> DEFINE t == OSTCBPrioTbl[old]
  <2>1. /\ t \in Task /\ OSTCBPrioTbl[new] = Null
        /\ OSTCBPrioTbl' = [OSTCBPrioTbl EXCEPT ![old] = Null, ![new] = t]
        /\ OSTCBPrio' = [OSTCBPrio EXCEPT ![t] = new]
    BY <1>2 DEF OSTaskChangePrio, NamesTask, FreePrio
  <2>2. old # new /\ OSTCBPrio[t] = old
    BY <1>1, <2>1, CoreAssumption DEF CoreAssumption, PrioTblSound
  <2>3. \A u \in Task \ {t} : OSTCBPrio[u] # old /\ OSTCBPrio[u] # new
    BY <1>1, <2>1, <2>2, CoreAssumption DEF CoreAssumption, PrioTblSound
  <2>4. \A u \in Task : OSTCBPrioTbl'[OSTCBPrio'[u]] = u
    BY <1>1, <2>1, <2>2, <2>3 DEF PrioTblSound, TcbTypeOK, ReadyTypeOK
  <2>5. \A p \in Prio : OSTCBPrioTbl'[p] # Null => OSTCBPrio'[OSTCBPrioTbl'[p]] = p
    <3>1. \A p \in Prio \ {old, new} :
            OSTCBPrioTbl'[p] = OSTCBPrioTbl[p] /\ OSTCBPrioTbl[p] # t
      BY <1>1, <2>1, <2>2, CoreAssumption DEF CoreAssumption, PrioTblSound, ReadyTypeOK
    <3>2. OSTCBPrioTbl'[old] = Null /\ OSTCBPrioTbl'[new] = t
      BY <1>1, <2>1, <2>2 DEF ReadyTypeOK
    <3> QED BY <1>1, <2>1, <3>1, <3>2 DEF PrioTblSound, TcbTypeOK, ReadyTypeOK
  <2> QED BY <2>4, <2>5 DEF PrioTblSound
<1>3. ASSUME UNCHANGED <<OSTCBPrio, OSTCBPrioTbl>>
      PROVE  PrioTblSound'
  BY <1>1, <1>3 DEF PrioTblSound
<1> QED BY <1>2, <1>3, PrioTblKept

\* A task that runs in the tail of OSSemPend is ready, and pends no more.
LEMMA TailIsReady ==
  ASSUME IInv, OSSemPend_Tail
  PROVE  IsReady(OSTCBCur)
<1>1. OSTCBCur \in Task /\ ReadyAt
  BY ReadyPointwise DEF IInv, TypeOK, CoreTypeOK, SwitchTypeOK
<1>2. /\ Runs /\ pc[OSTCBCur] = "OSPend_Tail"
      /\ pc[OSTCBCur] \notin DOMAIN AfterSched
  BY SchedPlacesFacts DEF OSSemPend_Tail, OSPend_Tail, InTask, SchedPlaces
<1>3. OSLockNesting = 0
  BY <1>2 DEF IInv, LockSound, PendPlaces, TypeOK, CoreTypeOK, NestTypeOK
<1> QED BY <1>1, <1>2, <1>3 DEF IInv, HighestRuns, IsHighest, ReadyAt

\* Whatever the step does to tasks, the ready list follows.
LEMMA ReadyStep ==
  ASSUME IInv, [Next]_vars
  PROVE  ReadyIffRunnable'
<1> USE DEF IsReady, OS_STAT_PEND_ANY
<1>1. /\ CoreTypeOK /\ TcbTypeOK /\ EventTypeOK /\ ReadyTypeOK /\ SwitchTypeOK
      /\ PrioTblSound /\ PendSound /\ WaitListSound /\ ReadyAt
      /\ \A t \in Task : OSTCBStat[t] \subseteq {"SEM", "SUSPEND"}
  BY ReadyPointwise DEF IInv, TypeOK, CoreTypeOK, PendSound
<1>2. \A s, t \in Task : OSTCBPrio[s] = OSTCBPrio[t] => s = t
  BY <1>1 DEF PrioTblSound
<1>3. ASSUME TasksKept PROVE ReadyAt'
  BY <1>1, <1>3 DEF TasksKept, ReadyAt, tcbVars, readyVars
<1>4. ASSUME NEW e \in Event, NEW W, NEW ps, Wakes(e, W, ps)
      PROVE  ReadyAt'
  <2> DEFINE T == {OSTCBPrioTbl[p] : p \in W}
  <2>1. T \subseteq Task
    BY <1>1, <1>4 DEF Wakes, WaitListSound, EventTypeOK, ReadyTypeOK
  <2>2. /\ OSTCBDly' = [t \in Task |-> IF t \in T THEN 0 ELSE OSTCBDly[t]]
        /\ OSTCBStat' = [t \in Task |->
                           IF t \in T THEN OSTCBStat[t] \ {"SEM"} ELSE OSTCBStat[t]]
        /\ OSRdy' = OSRdy \cup {OSTCBPrio[t] : t \in {u \in T : "SUSPEND" \notin OSTCBStat[u]}}
        /\ UNCHANGED <<OSTCBPrio, OSTCBPrioTbl>>
    BY <1>4 DEF Wakes, OS_EventTaskRdy, WaitEnds, MakeReady, ReadyPrios
  <2>3. \A t \in Task \ T : OSTCBPrio'[t] \in OSRdy' <=> IsReady(t)'
    BY <1>1, <1>2, <2>1, <2>2 DEF ReadyAt
  <2>4. \A t \in T : OSTCBPrio'[t] \in OSRdy' <=> "SUSPEND" \notin OSTCBStat[t]
    BY <1>1, <1>2, <2>1, <2>2 DEF ReadyAt
  <2>5. \A t \in T : IsReady(t)' <=> "SUSPEND" \notin OSTCBStat[t]
    BY <1>1, <2>1, <2>2
  <2>6. \A p \in OSRdy' : p \in Prio /\ OSTCBPrioTbl'[p] # Null
    BY <1>1, <2>1, <2>2, CoreAssumption
    DEF ReadyAt, PrioTblSound, TcbTypeOK, CoreAssumption
  <2> QED BY <2>3, <2>4, <2>5, <2>6 DEF ReadyAt
<1>5. ASSUME NEW t \in Task, EndsDelay(t) PROVE ReadyAt'
  <2>1. /\ OSTCBDly' = [OSTCBDly EXCEPT ![t] = 0]
        /\ OSTCBStat' = [OSTCBStat EXCEPT ![t] = @ \ OS_STAT_PEND_ANY]
        /\ OSRdy' = OSRdy \cup {OSTCBPrio[u] : u \in {v \in {t} : "SUSPEND" \notin OSTCBStat[v]}}
        /\ UNCHANGED <<OSTCBPrio, OSTCBPrioTbl>>
    BY <1>5 DEF EndsDelay, DlyEnds, MakeReady, ReadyPrios
  <2>2. \A u \in Task \ {t} : OSTCBPrio'[u] \in OSRdy' <=> IsReady(u)'
    BY <1>1, <1>2, <2>1 DEF ReadyAt, TcbTypeOK
  <2>3. OSTCBPrio'[t] \in OSRdy' <=> "SUSPEND" \notin OSTCBStat[t]
    BY <1>1, <2>1 DEF ReadyAt
  <2>4. IsReady(t)' <=> "SUSPEND" \notin OSTCBStat[t]
    BY <1>1, <2>1 DEF TcbTypeOK
  <2>5. \A p \in OSRdy' : p \in Prio /\ OSTCBPrioTbl'[p] # Null
    BY <1>1, <2>1, CoreAssumption DEF ReadyAt, PrioTblSound, TcbTypeOK, CoreAssumption
  <2> QED BY <2>2, <2>3, <2>4, <2>5 DEF ReadyAt
<1>6. ASSUME NEW t \in Task, CountsDown(t) PROVE ReadyAt'
  <2>1. OSTCBDly[t] \in Nat /\ OSTCBDly'[t] # 0
    BY <1>1, <1>6, CoreAssumption DEF CountsDown, TcbTypeOK, CoreAssumption
  <2> QED BY <1>1, <1>6, <2>1 DEF CountsDown, ReadyAt, readyVars, TcbTypeOK
<1>7. ASSUME NEW ticks \in 1 .. MaxDly, OSTimeDly(ticks) PROVE ReadyAt'
  <2>1. /\ ticks # 0
        /\ OSRdy' = OSRdy \ {OSTCBPrio[OSTCBCur]}
        /\ OSTCBDly' = [OSTCBDly EXCEPT ![OSTCBCur] = ticks]
        /\ UNCHANGED <<OSTCBPrio, OSTCBStat, OSTCBPrioTbl>>
    BY <1>7 DEF OSTimeDly
  <2> QED BY <1>1, <1>2, <2>1 DEF ReadyAt, TcbTypeOK, SwitchTypeOK
<1>8. ASSUME NEW prio \in Prio, OSTaskSuspend(prio) PROVE ReadyAt'
  BY <1>1, <1>2, <1>8 DEF OSTaskSuspend, NamesTask, ReadyAt, TcbTypeOK
<1>9. ASSUME NEW prio \in Prio, OSTaskResume(prio) PROVE ReadyAt'
  BY <1>1, <1>2, <1>9, CoreAssumption
  DEF OSTaskResume, NamesTask, ReadyAt, TcbTypeOK, PrioTblSound, CoreAssumption
<1>10. ASSUME NEW old \in Prio, NEW new \in Prio, OSTaskChangePrio(old, new)
       PROVE  ReadyAt'
  <2> DEFINE t == OSTCBPrioTbl[old]
  <2>1. /\ t \in Task /\ OSTCBPrioTbl[new] = Null /\ OSTCBPrio[t] = old /\ old # new
        /\ OSTCBPrioTbl' = [OSTCBPrioTbl EXCEPT ![old] = Null, ![new] = t]
        /\ OSTCBPrio' = [OSTCBPrio EXCEPT ![t] = new]
        /\ OSRdy' = IF old \in OSRdy THEN (OSRdy \ {old}) \cup {new} ELSE OSRdy
        /\ UNCHANGED <<OSTCBStat, OSTCBDly>>
    BY <1>1, <1>10, CoreAssumption
    DEF OSTaskChangePrio, NamesTask, FreePrio, PrioTblSound, CoreAssumption
  <2>2. new \notin OSRdy
    BY <1>1, <2>1 DEF ReadyAt
  <2>3. \A u \in Task : u # t => OSTCBPrio[u] # old /\ OSTCBPrio[u] # new
    BY <1>1, <1>2, <2>1, CoreAssumption DEF PrioTblSound, CoreAssumption
  <2>4. \A u \in Task : OSTCBPrio'[u] \in OSRdy' <=> IsReady(u)'
    BY <1>1, <2>1, <2>2, <2>3 DEF ReadyAt, TcbTypeOK
  <2>5. \A p \in OSRdy' : p \in Prio /\ OSTCBPrioTbl'[p] # Null
    BY <1>1, <2>1, <2>2, CoreAssumption DEF ReadyAt, ReadyTypeOK, CoreAssumption
  <2> QED BY <2>4, <2>5 DEF ReadyAt
<1>11. ASSUME NEW e \in Event, NEW timeout \in 0 .. MaxDly, OSSemPend_Block(e, timeout)
       PROVE  ReadyAt'
  BY <1>1, <1>2, <1>11
  DEF OSSemPend_Block, OS_EventTaskWait, SwitchUnchanged, ReadyAt, TcbTypeOK, SwitchTypeOK
<1>12. ASSUME OSSemPend_Tail PROVE ReadyAt'
  <2>1. /\ OSTCBStat' = [OSTCBStat EXCEPT ![OSTCBCur] = {}]
        /\ UNCHANGED <<OSTCBPrio, OSTCBDly, OSRdy, OSTCBPrioTbl>>
    BY <1>12 DEF OSSemPend_Tail, OSPend_Tail, SwitchUnchanged
  <2>2. IsReady(OSTCBCur)
    BY <1>12, TailIsReady
  <2> QED BY <1>1, <2>1, <2>2 DEF ReadyAt, TcbTypeOK, SwitchTypeOK
<1>13. ReadyAt'
  BY <1>3, <1>4, <1>5, <1>6, <1>7, <1>8, <1>9, <1>10, <1>11, <1>12, Effects
<1> QED BY <1>13, TypeStep, PrioTblStep, ReadyPointwiseNext DEF TypeOK

\* Every task whose priority a step leaves on a wait list still waits there.
LEMMA WaitStep ==
  ASSUME IInv, [Next]_vars
  PROVE  WaitListSound'
<1>1. /\ CoreTypeOK /\ TcbTypeOK /\ EventTypeOK /\ ReadyTypeOK /\ SwitchTypeOK
      /\ PrioTblSound /\ PendSound /\ WaitListSound
      /\ \A e \in Event : OSEventWait[e] \subseteq Prio
      /\ \A p \in Prio : OSTCBPrioTbl[p] # Null =>
           OSTCBPrioTbl[p] \in Task /\ OSTCBPrio[OSTCBPrioTbl[p]] = p
  BY DEF IInv, TypeOK, CoreTypeOK, EventTypeOK, ReadyTypeOK, PrioTblSound
<1>2. ASSUME /\ UNCHANGED <<OSTCBPrioTbl, OSTCBEventPtr>>
             /\ \A e \in Event : OSEventWait'[e] \subseteq OSEventWait[e]
      PROVE  WaitListSound'
  BY <1>1, <1>2 DEF WaitListSound
<1>3. ASSUME NEW e \in Event, NEW W, NEW ps, Wakes(e, W, ps)
      PROVE  WaitListSound'
  <2> DEFINE T == {OSTCBPrioTbl[p] : p \in W}
  <2>1. \A t \in T : t \in Task /\ OSTCBEventPtr[t] = e
    BY <1>1, <1>3 DEF Wakes, WaitListSound
  <2>2. /\ OSEventWait' = [OSEventWait EXCEPT ![e] = @ \ {OSTCBPrio[t] : t \in T}]
        /\ OSTCBEventPtr' = [t \in Task |-> IF t \in T THEN Null ELSE OSTCBEventPtr[t]]
        /\ OSTCBPrioTbl' = OSTCBPrioTbl
    BY <1>3 DEF Wakes, OS_EventTaskRdy, WaitEnds
  <2>3. ASSUME NEW f \in Event, NEW p \in OSEventWait'[f]
        PROVE  OSTCBPrioTbl'[p] # Null /\ OSTCBEventPtr'[OSTCBPrioTbl'[p]] = f
    <3>1. p \in OSEventWait[f]
      BY <1>1, <2>2, <2>3 DEF EventTypeOK
    <3>2. /\ OSTCBPrioTbl[p] \in Task /\ OSTCBEventPtr[OSTCBPrioTbl[p]] = f
          /\ OSTCBPrio[OSTCBPrioTbl[p]] = p /\ OSTCBPrioTbl[p] # Null
      BY <1>1, <3>1 DEF WaitListSound
    <3>3. OSTCBPrioTbl[p] \notin T
      BY <1>1, <2>1, <2>2, <2>3, <3>2 DEF EventTypeOK
    <3> QED BY <2>2, <3>2, <3>3
  <2> QED BY <2>3 DEF WaitListSound
<1>4. ASSUME NEW old \in Prio, NEW new \in Prio, OSTaskChangePrio(old, new)
      PROVE  WaitListSound'
  <2> DEFINE t == OSTCBPrioTbl[old]
             e == OSTCBEventPtr[t]
  <2>1. /\ t \in Task /\ OSTCBPrioTbl[new] = Null /\ OSTCBPrio[t] = old /\ old # new
        /\ t # Null
        /\ OSTCBPrioTbl' = [OSTCBPrioTbl EXCEPT ![old] = Null, ![new] = t]
        /\ OSEventWait' = IF e = Null
                            THEN OSEventWait
                            ELSE [OSEventWait EXCEPT ![e] = (@ \ {old}) \cup {new}]
        /\ UNCHANGED OSTCBEventPtr
    BY <1>1, <1>4, CoreAssumption
    DEF OSTaskChangePrio, NamesTask, FreePrio, WaitListMoved, PrioTblSound, CoreAssumption
  <2>2. ASSUME NEW f \in Event, NEW p \in OSEventWait'[f]
        PROVE  OSTCBPrioTbl'[p] # Null /\ OSTCBEventPtr'[OSTCBPrioTbl'[p]] = f
    <3>1. CASE p \in OSEventWait[f]
      <4>1. p # new /\ OSTCBPrioTbl[p] # Null /\ OSTCBEventPtr[OSTCBPrioTbl[p]] = f
        BY <1>1, <2>1, <3>1 DEF WaitListSound
      <4>2. p # old
        BY <1>1, <2>1, <2>2, <3>1, <4>1, CoreAssumption DEF EventTypeOK, CoreAssumption
      <4> QED BY <1>1, <2>1, <3>1, <4>1, <4>2 DEF ReadyTypeOK
    <3>2. CASE p \notin OSEventWait[f]
      <4>1. e # Null /\ f = e /\ p = new
        BY <1>1, <2>1, <2>2, <3>2 DEF EventTypeOK
      <4> QED BY <1>1, <2>1, <4>1 DEF ReadyTypeOK
    <3> QED BY <3>1, <3>2
  <2> QED BY <2>2 DEF WaitListSound
<1>5. ASSUME NEW e \in Event, NEW timeout \in 0 .. MaxDly, OSSemPend_Block(e, timeout)
      PROVE  WaitListSound'
  <2>1. /\ pc[OSTCBCur] = "OSSemPend"
        /\ OSTCBEventPtr' = [OSTCBEventPtr EXCEPT ![OSTCBCur] = e]
        /\ OSEventWait' = [OSEventWait EXCEPT ![e] = @ \cup {OSTCBPrio[OSTCBCur]}]
        /\ OSTCBPrioTbl' = OSTCBPrioTbl
    BY <1>5 DEF OSSemPend_Block, InTask, OS_EventTaskWait, SwitchUnchanged
  <2>2. OSTCBEventPtr[OSTCBCur] = Null
    BY <1>1, <2>1 DEF PendSound, PendPlaces, SwitchTypeOK
  <2>3. OSTCBPrioTbl[OSTCBPrio[OSTCBCur]] = OSTCBCur
    BY <1>1 DEF PrioTblSound, SwitchTypeOK
  <2> QED
    BY <1>1, <2>1, <2>2, <2>3, CoreAssumption
    DEF WaitListSound, EventTypeOK, TcbTypeOK, SwitchTypeOK, CoreAssumption
<1>6. CASE OSSemPend_Tail
  <2> DEFINE t == OSTCBCur
  <2>1. /\ OSEventWait' = IF OSTCBStatPend[t] = "TO"
                            THEN OS_EventTaskRemove(t, pevent[t])
                            ELSE OSEventWait
        /\ OSTCBEventPtr' = [OSTCBEventPtr EXCEPT ![t] = Null]
        /\ OSTCBPrioTbl' = OSTCBPrioTbl
    BY <1>6 DEF OSSemPend_Tail, OSPend_Tail, SwitchUnchanged
  <2>2. "SEM" \notin OSTCBStat[t]
    BY <1>6, TailIsReady DEF IsReady, OS_STAT_PEND_ANY
  <2>3. ASSUME NEW f \in Event, NEW p \in OSEventWait'[f]
        PROVE  OSTCBPrioTbl'[p] # Null /\ OSTCBEventPtr'[OSTCBPrioTbl'[p]] = f
    <3>1. p \in OSEventWait[f]
      BY <1>1, <2>1, <2>3 DEF EventTypeOK, OS_EventTaskRemove
    <3>2. /\ OSTCBPrioTbl[p] \in Task /\ OSTCBEventPtr[OSTCBPrioTbl[p]] = f
          /\ OSTCBPrio[OSTCBPrioTbl[p]] = p /\ OSTCBPrioTbl[p] # Null
      BY <1>1, <3>1 DEF WaitListSound
    <3>3. CASE OSTCBPrioTbl[p] = t
      <4>1. pevent[t] = f /\ OSTCBStatPend[t] = "TO"
        BY <1>1, <2>2, <3>2, <3>3, CoreAssumption DEF PendSound, CoreAssumption
      <4>2. p \notin OSEventWait'[f]
        BY <1>1, <2>1, <3>2, <3>3, <4>1 DEF EventTypeOK, OS_EventTaskRemove
      <4> QED BY <2>3, <4>2
    <3>4. CASE OSTCBPrioTbl[p] # t
      BY <1>1, <2>1, <3>2, <3>4 DEF TcbTypeOK
    <3> QED BY <3>3, <3>4
  <2> QED BY <2>3 DEF WaitListSound
<1>7. ASSUME NEW t \in Task, EndsDelay(t) \/ CountsDown(t) PROVE WaitListSound'
  BY <1>2, <1>7 DEF EndsDelay, DlyEnds, CountsDown, readyVars
<1>8. ASSUME TasksKept PROVE WaitListSound'
  BY <1>2, <1>8 DEF TasksKept, tcbVars, readyVars
<1>9. ASSUME NEW ticks \in 1 .. MaxDly, OSTimeDly(ticks) PROVE WaitListSound'
  BY <1>2, <1>9 DEF OSTimeDly, eventVars
<1>10. ASSUME NEW prio \in Prio, OSTaskSuspend(prio) \/ OSTaskResume(prio)
       PROVE  WaitListSound'
  BY <1>2, <1>10 DEF OSTaskSuspend, OSTaskResume, eventVars
<1> QED
  BY <1>3, <1>4, <1>5, <1>6, <1>7, <1>8, <1>9, <1>10, Effects

-----------------------------------------------------------------------------
(* The tick, the lock and the services in progress.                        *)

\* A tick starts with tasks to visit and ends with the last of them.
LEMMA TickStep ==
  ASSUME IInv, [Next]_vars
  PROVE  TickSound'
<1>1. TickSound /\ OSIntNesting \in Nat
  BY CoreAssumption DEF IInv, TypeOK, CoreTypeOK, NestTypeOK, CoreAssumption
<1>2. ASSUME OSTimeTick PROVE TickSound'
  BY <1>1, <1>2 DEF OSTimeTick, TickSound
<1>3. ASSUME OSTimeTick_Step PROVE TickSound'
  BY <1>1, <1>3 DEF OSTimeTick_Step, TickSound
<1>4. ASSUME UNCHANGED tickVars PROVE TickSound'
  BY <1>1, <1>4 DEF TickSound, tickVars
<1>5. CASE CoreNext /\ ~OSTimeTick /\ ~OSTimeTick_Step
  BY <1>4, <1>5
  DEF CoreNext, OS_Sched, PendSV_Handler, OSSchedLock, OSSchedUnlock, OSIntEnter, OSIntExit
<1>6. CASE TaskNext
  BY <1>4, <1>6
  DEF TaskNext, TaskControl, OSTimeDly, OSTimeDlyResume, OSTaskSuspend, OSTaskResume, OSTaskChangePrio
<1>7. CASE SemNext
  BY <1>4, <1>7
  DEF SemNext, OSSem_Enter, OSSemAccept, OSSemPend_Take, OSSemPend_Block,
      OSSemPend_Tail, OSPend_Tail,
      OSSemPost, OSSemPendAbort, OSSemSet, OSSemDel, OSSemCreate, OSSemCreate_Fields,
      OS_EventWaitListInit, KernelUnchanged, SwitchUnchanged
<1>8. CASE UNCHANGED vars
  BY <1>4, <1>8 DEF vars, coreVars
<1> QED BY <1>2, <1>3, <1>5, <1>6, <1>7, <1>8 DEF Next

\* A service called by an ISR, or a tick, moves no task and switches none.
IsrStep == OSIntNesting > 0 /\ UNCHANGED <<switchVars, nestVars, flowVars>>

\* What a step of a service may leave when its task goes on at place: OS_Sched
\* is called whenever another task may have become the one to run.
Leaves(place, e) ==
  /\ place \notin {"app", "OS_Sched"} => e \in Event
  /\ place # "OSPend_Tail"
  /\ place \in {"OSSemPend", "OSPend_Sched"} => OSLockNesting = 0
  /\ place \notin SchedPlaces =>
       /\ OSTCBPrio' = OSTCBPrio
       /\ OSRdy' \subseteq OSRdy
       /\ OSTCBPrio[OSTCBCur] \in OSRdy => OSTCBPrio[OSTCBCur] \in OSRdy'

\* A step of a service that the running task executes.
TaskStep ==
  /\ Runs
  /\ pc[OSTCBCur] \notin SchedPlaces
  /\ UNCHANGED <<switchVars, nestVars>>
  /\ \E place, e : GoTo(place, e) /\ Leaves(place, e)

\* Where the running task is after a service called from a task.
LEMMA ReturnsGoes ==
  ASSUME NEW b \in BOOLEAN, Runs, Returns(b)
  PROVE  GoTo(IF b THEN "OS_Sched" ELSE "app", Null)
BY DEF Runs, Returns

\* A service called from an ISR moves no task.
LEMMA ReturnsFromIsr ==
  ASSUME NEW b \in BOOLEAN, OSIntNesting > 0, Returns(b)
  PROVE  UNCHANGED flowVars
BY DEF Returns

\* A service that returns has done nothing that needs OS_Sched, or calls it.
LEMMA ReturnStep ==
  ASSUME NEW b \in BOOLEAN, Returns(b), UNCHANGED <<switchVars, nestVars>>,
         OSIntNesting > 0 \/ (Runs /\ pc[OSTCBCur] \notin SchedPlaces),
         ~b => /\ OSTCBPrio' = OSTCBPrio
               /\ OSRdy' \subseteq OSRdy
               /\ OSTCBPrio[OSTCBCur] \in OSRdy => OSTCBPrio[OSTCBCur] \in OSRdy'
  PROVE  IsrStep \/ TaskStep
<1>1. CASE OSIntNesting > 0
  BY <1>1, ReturnsFromIsr DEF IsrStep
<1>2. CASE ~(OSIntNesting > 0)
  <2>1. Runs /\ pc[OSTCBCur] \notin SchedPlaces
    BY <1>2
  <2>2. GoTo(IF b THEN "OS_Sched" ELSE "app", Null)
    BY <2>1, ReturnsGoes
  <2>3. Leaves(IF b THEN "OS_Sched" ELSE "app", Null)
    BY DEF Leaves, SchedPlaces
  <2> QED BY <2>1, <2>2, <2>3 DEF TaskStep
<1> QED BY <1>1, <1>2

\* What the caller of a service is, task or ISR.
LEMMA CallFlow ==
  ASSUME NEW service, Call(service)
  PROVE  OSIntNesting > 0 \/ (Runs /\ pc[OSTCBCur] = "app")
BY DEF Call, TaskCall, InTask, IsrCall, InIsr

\* How the running task, the nesting counters and the switch move in a step.
LEMMA Flow ==
  ASSUME IInv, [Next]_vars
  PROVE  \/ UNCHANGED vars
         \/ OS_Sched \/ PendSV_Handler \/ OSSchedLock \/ OSSchedUnlock
         \/ OSIntEnter \/ OSIntExit
         \/ IsrStep \/ TaskStep
<1>1. /\ CoreTypeOK /\ TcbTypeOK /\ ReadyTypeOK /\ SwitchTypeOK /\ NestTypeOK /\ FlowTypeOK
      /\ TickSound /\ PendSound /\ LockSound /\ ReadyAt /\ PrioTblSound
      /\ OSIntNesting \in Nat /\ tickNest \in Nat /\ OSLockNesting \in Nat
  BY ReadyPointwise, CoreAssumption
  DEF IInv, TypeOK, CoreTypeOK, NestTypeOK, TickTypeOK, CoreAssumption
<1>2. ASSUME OSTimeTick \/ OSTimeTick_Step PROVE IsrStep
  BY <1>1, <1>2 DEF OSTimeTick, OSTimeTick_Step, IsrStep
<1>3. ASSUME NEW service, Call(service)
      PROVE  OSIntNesting > 0 \/ (Runs /\ pc[OSTCBCur] \notin SchedPlaces)
  BY <1>3, CallFlow DEF SchedPlaces
<1>4. ASSUME NEW ticks \in 1 .. MaxDly, OSTimeDly(ticks)
      PROVE  IsrStep \/ TaskStep
  <2>1. Runs /\ pc[OSTCBCur] \notin SchedPlaces
    BY <1>4 DEF OSTimeDly, TaskCall, InTask, SchedPlaces
  <2>2. Returns(TRUE) /\ UNCHANGED <<switchVars, nestVars>>
    BY <1>4 DEF OSTimeDly
  <2> QED BY <2>1, <2>2, ReturnStep
<1>5. ASSUME NEW prio \in Prio, OSTimeDlyResume(prio)
      PROVE  IsrStep \/ TaskStep
  <2> DEFINE t == OSTCBPrioTbl[prio]
  <2>1. /\ Call("OSTimeDlyResume") /\ UNCHANGED <<switchVars, nestVars>>
        /\ DlyEnds(t) /\ Returns("SUSPEND" \notin OSTCBStat[t])
    BY <1>5 DEF OSTimeDlyResume
  <2>2. "SUSPEND" \in OSTCBStat[t] => OSTCBPrio' = OSTCBPrio /\ OSRdy' = OSRdy
    BY <2>1 DEF DlyEnds, MakeReady, ReadyPrios
  <2> QED BY <1>3, <2>1, <2>2, ReturnStep
<1>6. ASSUME NEW prio \in Prio, OSTaskSuspend(prio)
      PROVE  IsrStep \/ TaskStep
  <2> DEFINE t == OSTCBPrioTbl[prio]
  <2>1. /\ Call("OSTaskSuspend") /\ UNCHANGED <<switchVars, nestVars>>
        /\ t \in Task /\ OSRdy' = OSRdy \ {OSTCBPrio[t]}
        /\ OSTCBPrio' = OSTCBPrio
        /\ Returns(prio = OSTCBPrio[OSTCBCur])
    BY <1>6 DEF OSTaskSuspend, NamesTask
  <2>2. OSTCBPrio[t] = prio
    BY <1>1, <2>1, CoreAssumption DEF PrioTblSound, CoreAssumption
  <2> QED BY <1>3, <2>1, <2>2, ReturnStep
<1>7. ASSUME NEW prio \in Prio, OSTaskResume(prio)
      PROVE  IsrStep \/ TaskStep
  <2> DEFINE t == OSTCBPrioTbl[prio]
             freed == OSTCBStat[t] \cap OS_STAT_PEND_ANY = {} /\ OSTCBDly[t] = 0
  <2>1. /\ Call("OSTaskResume") /\ UNCHANGED <<switchVars, nestVars>>
        /\ OSTCBPrio' = OSTCBPrio
        /\ Returns(freed) /\ (~freed => OSRdy' = OSRdy)
    BY <1>7 DEF OSTaskResume
  <2> HIDE DEF freed
  <2>2. freed \in BOOLEAN
    BY DEF freed
  <2> QED BY <1>3, <2>1, <2>2, ReturnStep
<1>8. ASSUME NEW old \in Prio, NEW new \in Prio, OSTaskChangePrio(old, new)
      PROVE  IsrStep \/ TaskStep
  <2>1. /\ Call("OSTaskChangePrio") /\ UNCHANGED <<switchVars, nestVars>>
        /\ Returns(TRUE)
    BY <1>8 DEF OSTaskChangePrio
  <2> QED BY <1>3, <2>1, ReturnStep
<1>9. CASE TaskNext
  BY <1>4, <1>5, <1>6, <1>7, <1>8, <1>9 DEF TaskNext, TaskControl
<1>10. CASE SemNext
  <2>1. ASSUME NEW service, NEW e, AtSection(service, e),
               service \notin SchedPlaces
        PROVE  OSIntNesting > 0 \/ (Runs /\ pc[OSTCBCur] \notin SchedPlaces)
    BY <2>1 DEF AtSection, InTask, IsrCall, InIsr
  <2>2. ASSUME NEW e \in Event,
               OSSemAccept(e) \/ OSSemPend_Take(e) \/ \E cnt \in 0 .. MaxCnt : OSSemSet(e, cnt)
        PROVE  IsrStep \/ TaskStep
    <3>1. /\ \/ AtSection("OSSemAccept", e) \/ AtSection("OSSemSet", e)
             \/ AtSection("OSSemPend", e)
          /\ Returns(FALSE) /\ UNCHANGED <<tcbVars, readyVars, switchVars, nestVars>>
      BY <2>2 DEF OSSemAccept, OSSemPend_Take, OSSemSet, KernelUnchanged, AtSection
    <3>2. OSIntNesting > 0 \/ (Runs /\ pc[OSTCBCur] \notin SchedPlaces)
      BY <2>1, <3>1 DEF SchedPlaces
    <3>3. OSTCBPrio' = OSTCBPrio /\ OSRdy' = OSRdy
      BY <3>1 DEF tcbVars, readyVars
    <3> QED BY <3>1, <3>2, <3>3, ReturnStep
  <2>3. ASSUME NEW e \in Event, OSSemPost(e)
        PROVE  IsrStep \/ TaskStep
    <3>1. /\ AtSection("OSSemPost", e) /\ UNCHANGED <<switchVars, nestVars>>
      BY <2>3 DEF OSSemPost, SwitchUnchanged
    <3>2. OSIntNesting > 0 \/ (Runs /\ pc[OSTCBCur] \notin SchedPlaces)
      BY <2>1, <3>1 DEF SchedPlaces
    <3>3. \/ Returns(TRUE)
          \/ Returns(FALSE) /\ OSTCBPrio' = OSTCBPrio /\ OSRdy' = OSRdy
      BY <2>3 DEF OSSemPost, tcbVars
    <3> QED BY <3>1, <3>2, <3>3, ReturnStep
  <2>4. ASSUME NEW e \in Event, NEW all \in BOOLEAN, OSSemPendAbort(e, all)
        PROVE  IsrStep \/ TaskStep
    <3>1. /\ AtSection("OSSemPendAbort", e) /\ UNCHANGED <<switchVars, nestVars>>
      BY <2>4 DEF OSSemPendAbort, SwitchUnchanged
    <3>2. OSIntNesting > 0 \/ (Runs /\ pc[OSTCBCur] \notin SchedPlaces)
      BY <2>1, <3>1 DEF SchedPlaces
    <3>3. \/ Returns(TRUE)
          \/ Returns(FALSE) /\ OSTCBPrio' = OSTCBPrio /\ OSRdy' = OSRdy
      BY <2>4 DEF OSSemPendAbort, tcbVars
    <3> QED BY <3>1, <3>2, <3>3, ReturnStep
  <2>5. ASSUME NEW e \in Event, NEW always \in BOOLEAN, OSSemDel(e, always)
        PROVE  IsrStep \/ TaskStep
    <3>1. /\ AtSection("OSSemDel", e) /\ UNCHANGED <<switchVars, nestVars>>
      BY <2>5 DEF OSSemDel, AtSection
    <3>2. OSIntNesting > 0 \/ (Runs /\ pc[OSTCBCur] \notin SchedPlaces)
      BY <2>1, <3>1 DEF SchedPlaces
    <3>3. CASE OSEventWait[e] = {} \/ always
      <4>1. /\ OS_EventTaskRdy(e, OSEventWait[e], "SEM", "ABORT")
            /\ Returns(OSEventWait[e] # {})
        BY <2>5, <3>3 DEF OSSemDel
      <4>2. OSEventWait[e] = {} => OSTCBPrio' = OSTCBPrio /\ OSRdy' = OSRdy
        BY <4>1 DEF OS_EventTaskRdy, WaitEnds, MakeReady, ReadyPrios
      <4> QED BY <3>1, <3>2, <4>1, <4>2, ReturnStep
    <3>4. CASE ~(OSEventWait[e] = {} \/ always)
      <4>1. Returns(FALSE) /\ OSTCBPrio' = OSTCBPrio /\ OSRdy' = OSRdy
        BY <2>5, <3>4 DEF OSSemDel, tcbVars
      <4> QED BY <3>1, <3>2, <4>1, ReturnStep
    <3> QED BY <3>3, <3>4
  <2>6. ASSUME NEW service \in SemServices, NEW e \in Event, OSSem_Enter(service, e)
        PROVE  TaskStep
    <3>1. /\ Runs /\ pc[OSTCBCur] \notin SchedPlaces
          /\ GoTo(service, e) /\ UNCHANGED <<tcbVars, readyVars, switchVars, nestVars>>
      BY <2>6 DEF OSSem_Enter, TaskCall, InTask, SchedPlaces
    <3>2. Leaves(service, e)
      BY <2>6, <3>1 DEF OSSem_Enter, Leaves, SemServices, SchedPlaces, tcbVars, readyVars
    <3> QED BY <3>1, <3>2 DEF TaskStep
  <2>7. ASSUME NEW e \in Event, NEW timeout \in 0 .. MaxDly, OSSemPend_Block(e, timeout)
        PROVE  TaskStep
    <3>1. /\ Runs /\ pc[OSTCBCur] = "OSSemPend" /\ pc[OSTCBCur] \notin SchedPlaces
          /\ GoTo("OSPend_Sched", e) /\ UNCHANGED <<switchVars, nestVars>>
      BY <2>7 DEF OSSemPend_Block, InTask, SchedPlaces, SwitchUnchanged
    <3>2. OSLockNesting = 0
      BY <1>1, <3>1 DEF LockSound
    <3>3. Leaves("OSPend_Sched", e)
      BY <3>2 DEF Leaves, SchedPlaces
    <3> QED BY <3>1, <3>3 DEF TaskStep
  <2>8. ASSUME OSSemPend_Tail
        PROVE  IsrStep \/ TaskStep
    <3>1. /\ Runs /\ pc[OSTCBCur] \notin SchedPlaces
          /\ Returns(FALSE) /\ UNCHANGED <<OSTCBPrio, OSRdy, switchVars, nestVars>>
      BY <2>8 DEF OSSemPend_Tail, OSPend_Tail, InTask, SchedPlaces, SwitchUnchanged
    <3> QED BY <3>1, ReturnStep
  <2>9. ASSUME OSSemCreate
        PROVE  TaskStep
    <3>1. /\ Runs /\ pc[OSTCBCur] \notin SchedPlaces
          /\ GoTo("OSSemCreate", OSEventFreeList) /\ OSEventFreeList # Null
          /\ UNCHANGED <<tcbVars, readyVars, switchVars, nestVars>>
      BY <2>9 DEF OSSemCreate, TaskCall, InTask, SchedPlaces, KernelUnchanged
    <3>2. OSEventFreeList \in Event
      BY <1>1, <3>1 DEF CoreTypeOK, EventTypeOK
    <3>3. Leaves("OSSemCreate", OSEventFreeList)
      BY <3>1, <3>2 DEF Leaves, SchedPlaces, tcbVars, readyVars
    <3> QED BY <3>1, <3>3 DEF TaskStep
  <2>10. ASSUME NEW cnt \in 0 .. MaxCnt, OSSemCreate_Fields(cnt)
         PROVE  TaskStep
    <3>1. /\ Runs /\ pc[OSTCBCur] = "OSSemCreate" /\ pc[OSTCBCur] \notin SchedPlaces
          /\ GoTo("OS_EventWaitListInit", pevent[OSTCBCur])
          /\ UNCHANGED <<tcbVars, readyVars, switchVars, nestVars>>
      BY <2>10 DEF OSSemCreate_Fields, InTask, SchedPlaces, KernelUnchanged
    <3>2. pevent[OSTCBCur] \in Event
      BY <1>1, <3>1 DEF PendSound, SwitchTypeOK
    <3>3. Leaves("OS_EventWaitListInit", pevent[OSTCBCur])
      BY <3>1, <3>2 DEF Leaves, SchedPlaces, tcbVars, readyVars
    <3> QED BY <3>1, <3>3 DEF TaskStep
  <2>11. ASSUME OS_EventWaitListInit
         PROVE  IsrStep \/ TaskStep
    <3>1. /\ Runs /\ pc[OSTCBCur] \notin SchedPlaces
          /\ Returns(FALSE) /\ UNCHANGED <<tcbVars, readyVars, switchVars, nestVars>>
      BY <2>11 DEF OS_EventWaitListInit, InTask, SchedPlaces, KernelUnchanged
    <3>2. OSTCBPrio' = OSTCBPrio /\ OSRdy' = OSRdy
      BY <3>1 DEF tcbVars, readyVars
    <3> QED BY <3>1, <3>2, ReturnStep
  <2> QED
    BY <1>10, <2>2, <2>3, <2>4, <2>5, <2>6, <2>7, <2>8, <2>9, <2>10, <2>11 DEF SemNext
<1> QED BY <1>2, <1>9, <1>10 DEF Next, CoreNext

-----------------------------------------------------------------------------
(* The scheduler.                                                          *)

\* What the scheduler relies on, and what its step has done.
LEMMA SchedNewFacts ==
  ASSUME IInv, OS_SchedNew
  PROVE  /\ OSPrioHighRdy' \in OSRdy /\ IsHighest(OSPrioHighRdy', OSRdy)
         /\ OSTCBHighRdy' = OSTCBPrioTbl[OSPrioHighRdy']
         /\ PendSV' = (PendSV \/ OSPrioHighRdy' # OSPrioCur)
         /\ UNCHANGED <<OSTCBCur, OSPrioCur>>
         /\ OSTCBPrioTbl[OSPrioHighRdy'] \in Task
         /\ OSTCBPrio[OSTCBPrioTbl[OSPrioHighRdy']] = OSPrioHighRdy'
<1>1. /\ OSPrioHighRdy' \in OSRdy /\ IsHighest(OSPrioHighRdy', OSRdy)
      /\ OSTCBHighRdy' = OSTCBPrioTbl[OSPrioHighRdy']
      /\ PendSV' = (PendSV \/ OSPrioHighRdy' # OSPrioCur)
      /\ UNCHANGED <<OSTCBCur, OSPrioCur>>
  BY DEF OS_SchedNew
<1>2. ReadyAt
  BY ReadyPointwise DEF IInv, TypeOK
<1> QED
  BY <1>1, <1>2 DEF ReadyAt, IInv, PrioTblSound, TypeOK, CoreTypeOK, ReadyTypeOK

\* If the scheduler finds that no switch is needed, the task that runs is the
\* highest-priority ready one: OSPrioCur, on which it decides, is then its
\* priority.
LEMMA SchedNewRight ==
  ASSUME IInv, OS_SchedNew, ~PendSV'
  PROVE  IsHighest(OSTCBPrio[OSTCBCur], OSRdy)
<1>1. OSPrioHighRdy' = OSPrioCur
  BY SchedNewFacts
<1>2. OSTCBPrioTbl[OSPrioCur] \in Task
  BY <1>1, SchedNewFacts
<1>3. OSTCBPrioTbl[OSPrioCur] = OSTCBCur
  BY <1>2, CoreAssumption DEF IInv, CurSound, CoreAssumption
<1> QED BY <1>1, <1>3, SchedNewFacts

\* A pending switch leads to the highest-priority ready task, after every step.
LEMMA SwitchStep ==
  ASSUME IInv, [Next]_vars
  PROVE  SwitchSound'
<1>1. SwitchSound /\ LockSound /\ OSIntNesting \in Nat /\ OSLockNesting \in Nat
  BY CoreAssumption DEF IInv, TypeOK, CoreTypeOK, NestTypeOK, CoreAssumption
<1>2. ASSUME OS_SchedNew, UNCHANGED readyVars PROVE SwitchSound'
  BY <1>2, SchedNewFacts DEF SwitchSound, readyVars, IsHighest
<1>3. CASE OS_Sched
  BY <1>2, <1>3 DEF OS_Sched, Runs, SwitchSound, switchVars
<1>4. CASE OSIntExit
  <2>1. CASE OSIntNesting = 1 /\ OSLockNesting = 0
    <3>1. OS_SchedNew /\ UNCHANGED readyVars
      BY <1>4, <2>1 DEF OSIntExit
    <3> QED BY <1>2, <3>1
  <2>2. CASE OSLockNesting > 0
    <3>1. ~PendSV
      BY <1>1, <2>2 DEF LockSound
    <3>2. PendSV' = PendSV
      BY <1>4, <2>2 DEF OSIntExit, switchVars
    <3> QED BY <3>1, <3>2 DEF SwitchSound
  <2>3. CASE OSIntNesting # 1
    BY <1>1, <1>4, <2>3 DEF OSIntExit, SwitchSound
  <2> QED BY <1>1, <2>1, <2>2, <2>3
<1>5. CASE IsrStep \/ OSIntEnter
  BY <1>1, <1>5 DEF IsrStep, OSIntEnter, SwitchSound, nestVars
<1>6. CASE TaskStep \/ OSSchedLock \/ OSSchedUnlock
  BY <1>6 DEF TaskStep, OSSchedLock, OSSchedUnlock, TaskCall, InTask, Runs, SwitchSound, switchVars
<1>7. CASE PendSV_Handler
  BY <1>7 DEF PendSV_Handler, SwitchSound
<1>8. CASE UNCHANGED vars
  BY <1>1, <1>8 DEF vars, coreVars, readyVars, switchVars, nestVars, SwitchSound, IsHighest
<1> QED BY <1>3, <1>4, <1>5, <1>6, <1>7, <1>8, Flow

\* While the scheduler is locked, no step makes a switch pending or pends.
LEMMA LockStep ==
  ASSUME IInv, [Next]_vars
  PROVE  LockSound'
<1> USE DEF PendPlaces
<1>1. /\ LockSound /\ OSLockNesting \in Nat /\ OSTCBCur \in Task
      /\ pc \in [Task -> Places]
  BY CoreAssumption
  DEF IInv, TypeOK, CoreTypeOK, NestTypeOK, SwitchTypeOK, FlowTypeOK, CoreAssumption
<1>2. CASE OS_Sched
  <2>1. CASE OSLockNesting = 0
    BY <1>2, <2>1 DEF OS_Sched, nestVars, LockSound
  <2>2. CASE OSLockNesting > 0
    <3>1. pc[OSTCBCur] = "OS_Sched"
      BY <1>1, <1>2, <2>2, SchedPlacesFacts DEF OS_Sched, LockSound, SchedPlaces
    <3>2. UNCHANGED <<switchVars, nestVars>> /\ pc' = [pc EXCEPT ![OSTCBCur] = "app"]
      BY <1>2, <2>2, <3>1, SchedPlacesFacts DEF OS_Sched, GoTo
    <3> QED BY <1>1, <2>2, <3>2 DEF LockSound, switchVars, nestVars
  <2> QED BY <1>1, <2>1, <2>2
<1>3. CASE PendSV_Handler
  BY <1>1, <1>3 DEF PendSV_Handler, LockSound, nestVars
<1>4. CASE OSSchedLock
  BY <1>1, <1>4 DEF OSSchedLock, TaskCall, InTask, Runs, LockSound, switchVars, flowVars
<1>5. CASE OSSchedUnlock
  <2>1. /\ Runs /\ UNCHANGED switchVars /\ OSLockNesting > 0
        /\ pc[OSTCBCur] = "app" /\ Returns(OSLockNesting = 1)
    BY <1>5 DEF OSSchedUnlock, TaskCall, InTask
  <2>2. pc'[OSTCBCur] \in {"app", "OS_Sched"}
    BY <1>1, <2>1, ReturnsGoes DEF GoTo
  <2> QED BY <1>1, <2>1, <2>2 DEF LockSound, switchVars
<1>6. CASE OSIntEnter
  BY <1>1, <1>6 DEF OSIntEnter, LockSound, switchVars, flowVars
<1>7. CASE OSIntExit
  BY <1>1, <1>7 DEF OSIntExit, LockSound, switchVars, flowVars
<1>8. CASE IsrStep
  BY <1>1, <1>8 DEF IsrStep, LockSound, switchVars, nestVars, flowVars
<1>9. CASE TaskStep
  <2>1. PICK place, e : GoTo(place, e) /\ Leaves(place, e)
    BY <1>9 DEF TaskStep
  <2>2. pc'[OSTCBCur] = place
    BY <1>1, <2>1 DEF GoTo
  <2> QED BY <1>1, <1>9, <2>1, <2>2 DEF TaskStep, Leaves, LockSound, switchVars, nestVars
<1>10. CASE UNCHANGED vars
  BY <1>1, <1>10 DEF vars, coreVars, LockSound, switchVars, nestVars, flowVars
<1> QED BY <1>2, <1>3, <1>4, <1>5, <1>6, <1>7, <1>8, <1>9, <1>10, Flow

\* This is where the discipline of OSTaskChangePrio is needed: the change is
\* made by a task that goes on to an OS_Sched which does switch.
LEMMA CurStep ==
  ASSUME PrioDiscipline, IInv, [Next]_vars
  PROVE  CurSound'
<1>1. /\ CurSound /\ LockSound /\ PrioTblSound /\ ReadyTypeOK /\ SwitchTypeOK
      /\ OSLockNesting \in Nat /\ OSTCBCur \in Task /\ OSPrioCur \in Prio
      /\ pc \in [Task -> Places]
  BY CoreAssumption
  DEF IInv, TypeOK, CoreTypeOK, NestTypeOK, SwitchTypeOK, FlowTypeOK, CoreAssumption
<1>2. ASSUME NEW old \in Prio, NEW new \in Prio, OSTaskChangePrio(old, new)
      PROVE  CurSound'
  <2> DEFINE t == OSTCBPrioTbl[old]
  <2>1. /\ Runs /\ pc[OSTCBCur] = "app" /\ "OSTaskChangePrio" \in TaskCalls[OSTCBCur]
        /\ t \in Task /\ OSTCBPrioTbl[new] = Null
        /\ OSTCBPrioTbl' = [OSTCBPrioTbl EXCEPT ![old] = Null, ![new] = t]
        /\ Returns(TRUE) /\ UNCHANGED <<switchVars, nestVars>>
    BY <1>2
    DEF OSTaskChangePrio, PrioDiscipline, Call, IsrCall, TaskCall, InTask, NamesTask,
        FreePrio
  <2>2. OSLockNesting = 0
    BY <1>1, <2>1 DEF LockSound, PrioDiscipline
  <2>3. OSTCBPrioTbl[OSPrioCur] = OSTCBCur
    BY <1>1, <2>1 DEF CurSound, Runs, SchedPlaces
  <2>4. pc'[OSTCBCur] = "OS_Sched"
    BY <1>1, <2>1, ReturnsGoes DEF GoTo
  <2>5. OSPrioCur # new
    BY <1>1, <2>1, <2>3, CoreAssumption DEF CoreAssumption
  <2>6. OSTCBPrioTbl'[OSPrioCur] \in {OSTCBCur, Null}
    BY <1>1, <2>1, <2>3, <2>5 DEF ReadyTypeOK
  <2> QED BY <2>1, <2>2, <2>4, <2>6 DEF CurSound, SchedPlaces, switchVars, nestVars
<1>3. ASSUME OSTCBPrioTbl' = OSTCBPrioTbl
      PROVE  CurSound'
  <2>1. CASE OS_Sched
    <3>1. CASE OSLockNesting = 0
      BY <1>1, <1>3, <2>1, <3>1, SchedNewFacts, CoreAssumption
      DEF OS_Sched, CurSound, nestVars, CoreAssumption
    <3>2. CASE OSLockNesting # 0
      BY <1>1, <1>3, <2>1, <3>2 DEF OS_Sched, CurSound, switchVars
    <3> QED BY <3>1, <3>2
  <2>2. CASE PendSV_Handler
    BY <1>3, <2>2 DEF IInv, PendSV_Handler, SwitchSound, CurSound
  <2>3. CASE OSIntExit
    <3>1. /\ UNCHANGED <<OSTCBCur, OSPrioCur, OSLockNesting, flowVars>>
          /\ PendSV => PendSV'
      BY <2>3, SchedNewFacts DEF OSIntExit, switchVars
    <3> QED BY <1>1, <1>3, <3>1 DEF CurSound, flowVars
  <2>4. CASE OSIntEnter \/ IsrStep
    BY <1>1, <1>3, <2>4 DEF OSIntEnter, IsrStep, CurSound, switchVars, nestVars, flowVars
  <2>5. CASE TaskStep \/ OSSchedLock \/ OSSchedUnlock
    <3>1. /\ Runs /\ pc[OSTCBCur] \notin SchedPlaces /\ UNCHANGED switchVars
      BY <2>5 DEF TaskStep, OSSchedLock, OSSchedUnlock, TaskCall, InTask, SchedPlaces
    <3> QED BY <1>1, <1>3, <3>1 DEF CurSound, Runs, switchVars
  <2>6. CASE UNCHANGED vars
    BY <1>1, <1>3, <2>6 DEF vars, coreVars, CurSound, switchVars, nestVars, flowVars
  <2> QED BY <2>1, <2>2, <2>3, <2>4, <2>5, <2>6, Flow
<1> QED BY <1>2, <1>3, PrioTblKept

\* Thread code that executes after a step is that of the highest ready task.
LEMMA HighestStep ==
  ASSUME IInv, [Next]_vars
  PROVE  HighestRuns'
<1> USE SchedPlacesFacts
<1>1. /\ HighestRuns /\ LockSound /\ PrioTblSound /\ ReadyTypeOK /\ SwitchTypeOK
      /\ OSLockNesting \in Nat /\ OSIntNesting \in Nat /\ OSTCBCur \in Task
      /\ pc \in [Task -> Places]
  BY CoreAssumption
  DEF IInv, TypeOK, CoreTypeOK, NestTypeOK, SwitchTypeOK, FlowTypeOK, CoreAssumption
<1>2. ASSUME OS_SchedNew, UNCHANGED <<tcbVars, readyVars>>
      PROVE  HighestRuns'
  BY <1>2, SchedNewRight, SchedNewFacts
  DEF HighestRuns, Runs, IsHighest, tcbVars, readyVars
<1>3. CASE OS_Sched
  BY <1>2, <1>3 DEF OS_Sched, HighestRuns, nestVars
<1>4. CASE OSIntExit
  BY <1>1, <1>2, <1>4 DEF OSIntExit, InIsr, HighestRuns, Runs
<1>5. CASE PendSV_Handler
  <2>1. IsHighest(OSPrioHighRdy, OSRdy) /\ OSTCBHighRdy = OSTCBPrioTbl[OSPrioHighRdy]
    BY <1>5 DEF IInv, PendSV_Handler, SwitchSound
  <2>2. OSTCBPrio[OSTCBHighRdy] = OSPrioHighRdy
    BY <1>1, <2>1, CoreAssumption DEF PrioTblSound, SwitchTypeOK, CoreAssumption
  <2> QED BY <1>5, <2>1, <2>2 DEF PendSV_Handler, HighestRuns, IsHighest, tcbVars, readyVars
<1>6. CASE OSIntEnter \/ IsrStep
  BY <1>1, <1>6 DEF OSIntEnter, IsrStep, HighestRuns, Runs, nestVars
<1>7. CASE OSSchedLock
  BY <1>1, <1>7 DEF OSSchedLock, HighestRuns
<1>8. CASE OSSchedUnlock
  <2>1. /\ Runs /\ Returns(OSLockNesting = 1) /\ OSLockNesting' = OSLockNesting - 1
        /\ UNCHANGED switchVars
    BY <1>8 DEF OSSchedUnlock, TaskCall, InTask
  <2>2. OSLockNesting = 1 => pc'[OSTCBCur] = "OS_Sched"
    BY <1>1, <2>1, ReturnsGoes DEF GoTo
  <2> QED BY <1>1, <2>1, <2>2 DEF HighestRuns, SchedPlaces, switchVars
<1>9. CASE TaskStep
  <2>1. PICK place, e : GoTo(place, e) /\ Leaves(place, e)
    BY <1>9 DEF TaskStep
  <2>2. /\ pc'[OSTCBCur] = place /\ Runs /\ pc[OSTCBCur] \notin SchedPlaces
        /\ UNCHANGED <<switchVars, nestVars>>
    BY <1>1, <1>9, <2>1 DEF GoTo, TaskStep
  <2>3. ASSUME OSLockNesting = 0, place \notin SchedPlaces
        PROVE  IsHighest(OSTCBPrio'[OSTCBCur], OSRdy')
    BY <1>1, <2>1, <2>2, <2>3 DEF HighestRuns, Leaves, IsHighest
  <2> QED BY <2>2, <2>3 DEF HighestRuns, IsHighest, switchVars, nestVars
<1>10. CASE UNCHANGED vars
  BY <1>1, <1>10
  DEF vars, coreVars, tcbVars, readyVars, switchVars, nestVars, flowVars, HighestRuns, Runs,
      IsHighest
<1> QED BY <1>3, <1>4, <1>5, <1>6, <1>7, <1>8, <1>9, <1>10, Flow

-----------------------------------------------------------------------------
(* Tasks in the course of a pend.                                          *)

\* PendSound for one task.
PendAt(t) ==
  /\ pc[t] \notin {"app", "OS_Sched"} => pevent[t] \in Event
  /\ OSTCBStat[t] \subseteq {"SEM", "SUSPEND"}
  /\ OSTCBEventPtr[t] # Null =>
       /\ pc[t] \in PendPlaces
       /\ pevent[t] = OSTCBEventPtr[t]
       /\ "SEM" \notin OSTCBStat[t] => OSTCBStatPend[t] = "TO" /\ OSTCBDly[t] = 0

\* A task leaves the tail of OSSemPend only by executing it.
LEMMA TailOnly ==
  ASSUME [Next]_vars, Runs, pc[OSTCBCur] = "OSPend_Tail", ~UNCHANGED flowVars
  PROVE  OSSemPend_Tail
<1>1. ~UNCHANGED vars
  BY DEF vars, coreVars, flowVars
<1>2. CASE CoreNext
  BY <1>2, SchedPlacesFacts
  DEF CoreNext, OS_Sched, SchedPlaces, PendSV_Handler, OSSchedLock, OSSchedUnlock, TaskCall,
      InTask, OSIntEnter, OSIntExit, OSTimeTick, OSTimeTick_Step
<1>3. \A service : ~Call(service)
  BY DEF Call, TaskCall, InTask, IsrCall, InIsr, Runs
<1>4. CASE TaskNext
  BY <1>3, <1>4
  DEF TaskNext, TaskControl, OSTimeDly, OSTimeDlyResume, OSTaskSuspend, OSTaskResume, OSTaskChangePrio, Call
<1>5. \A service, e : service # "OSPend_Tail" => ~InTask(service) /\ ~AtSection(service, e)
  BY DEF AtSection, InTask, IsrCall, InIsr, Runs
<1>6. CASE SemNext /\ ~OSSemPend_Tail
  BY <1>3, <1>5, <1>6
  DEF SemNext, OSSem_Enter, OSSemAccept, OSSemPend_Take, OSSemPend_Block, OSSemPost,
      OSSemPendAbort, OSSemSet, OSSemDel, OSSemCreate, OSSemCreate_Fields,
      OS_EventWaitListInit, Call
<1> QED BY <1>1, <1>2, <1>4, <1>6 DEF Next

\* The task that runs goes to a place with an event it may have there.
LEMMA FlowPend ==
  ASSUME IInv, [Next]_vars, NEW t \in Task
  PROVE  /\ pc'[t] \notin {"app", "OS_Sched"} => pevent'[t] \in Event
         /\ pc[t] \in PendPlaces =>
              \/ pc'[t] \in PendPlaces /\ pevent'[t] = pevent[t]
              \/ OSSemPend_Tail /\ t = OSTCBCur
<1>1. /\ OSTCBCur \in Task /\ pc \in [Task -> Places]
      /\ pevent \in [Task -> Event \cup {Null}]
      /\ PendSound
  BY DEF IInv, TypeOK, CoreTypeOK, SwitchTypeOK, FlowTypeOK
<1>2. CASE UNCHANGED flowVars
  BY <1>1, <1>2 DEF flowVars, PendSound
<1>3. CASE OS_Sched
  <2>1. /\ pc[OSTCBCur] \in {"OS_Sched", "OSPend_Sched"}
        /\ GoTo(AfterSched[pc[OSTCBCur]], pevent[OSTCBCur])
    BY <1>3, SchedPlacesFacts DEF OS_Sched, SchedPlaces
  <2>2. CASE t = OSTCBCur
    BY <1>1, <2>1, <2>2, SchedPlacesFacts DEF GoTo, PendSound, PendPlaces
  <2>3. CASE t # OSTCBCur
    BY <1>1, <2>1, <2>3 DEF GoTo, PendSound
  <2> QED BY <2>2, <2>3
<1>4. CASE OSSchedUnlock
  <2>1. /\ Returns(OSLockNesting = 1) /\ Runs /\ pc[OSTCBCur] = "app"
    BY <1>4 DEF OSSchedUnlock, TaskCall, InTask
  <2>2. GoTo(IF OSLockNesting = 1 THEN "OS_Sched" ELSE "app", Null)
    BY <2>1, ReturnsGoes
  <2> QED BY <1>1, <2>1, <2>2 DEF GoTo, PendSound, PendPlaces
<1>5. CASE TaskStep
  <2>1. PICK place, e : GoTo(place, e) /\ Leaves(place, e)
    BY <1>5 DEF TaskStep
  <2>2. CASE t = OSTCBCur
    <3>1. pc'[t] = place /\ pevent'[t] = e /\ place # "OSPend_Tail"
      BY <1>1, <2>1, <2>2 DEF GoTo, Leaves
    <3>2. Runs /\ pc[t] \notin SchedPlaces
      BY <1>5, <2>2 DEF TaskStep
    <3>3. pc[t] = "OSPend_Tail" => OSSemPend_Tail
      <4>1. pc[t] = "OSPend_Tail" => ~UNCHANGED flowVars
        BY <3>1 DEF flowVars
      <4> QED BY <2>2, <3>2, <4>1, TailOnly
    <3>4. pc'[t] \notin {"app", "OS_Sched"} => pevent'[t] \in Event
      BY <2>1, <3>1 DEF Leaves
    <3>5. pc[t] \in PendPlaces => pc[t] = "OSPend_Tail"
      BY <3>2 DEF PendPlaces, SchedPlaces
    <3> QED BY <2>2, <3>3, <3>4, <3>5
  <2>3. CASE t # OSTCBCur
    BY <1>1, <2>1, <2>3 DEF GoTo, PendSound
  <2> QED BY <2>2, <2>3
<1> QED
  BY <1>2, <1>3, <1>4, <1>5, Flow
  DEF vars, coreVars, IsrStep, PendSV_Handler, OSSchedLock, OSIntEnter, OSIntExit

\* Tasks, their places and the events they wait for keep fitting together.
LEMMA PendStep ==
  ASSUME IInv, [Next]_vars
  PROVE  PendSound'
<1> USE DEF OS_STAT_PEND_ANY
<1>1. /\ TcbTypeOK /\ SwitchTypeOK /\ FlowTypeOK /\ WaitListSound
      /\ \A t \in Task : PendAt(t)
      /\ \A e \in Event : OSEventWait[e] \subseteq Prio
      /\ \A p \in Prio : OSTCBPrioTbl[p] # Null => OSTCBPrioTbl[p] \in Task
  BY DEF IInv, TypeOK, CoreTypeOK, PendSound, PendAt, EventTypeOK, ReadyTypeOK
<1>2. ASSUME NEW t \in Task PROVE PendAt(t)'
  <2> DEFINE FlowOK ==
               /\ pc'[t] \notin {"app", "OS_Sched"} => pevent'[t] \in Event
               /\ pc[t] \in PendPlaces =>
                    \/ pc'[t] \in PendPlaces /\ pevent'[t] = pevent[t]
                    \/ OSSemPend_Tail /\ t = OSTCBCur
  <2>1. FlowOK
    BY FlowPend
  \* A task whose bits and timeout change as they may under PendAt.
  <2>2. ASSUME /\ OSTCBStat'[t] \subseteq {"SEM", "SUSPEND"}
               /\ \/ OSTCBEventPtr'[t] = Null
                  \/ /\ OSTCBEventPtr'[t] = OSTCBEventPtr[t]
                     /\ ~OSSemPend_Tail
                     /\ "SEM" \in OSTCBStat'[t]
                          \/ (OSTCBStatPend'[t] = "TO" /\ OSTCBDly'[t] = 0)
        PROVE  PendAt(t)'
    BY <1>1, <2>1, <2>2 DEF PendAt
  <2>3. ASSUME TasksKept PROVE PendAt(t)'
    <3>1. CASE OSSemPend_Tail /\ t = OSTCBCur
      <4>1. /\ OSTCBStat'[t] = {} /\ OSTCBEventPtr'[t] = Null
        BY <1>1, <3>1 DEF OSSemPend_Tail, OSPend_Tail, TcbTypeOK, SwitchTypeOK
      <4> QED BY <2>2, <4>1
    <3>2. CASE ~(OSSemPend_Tail /\ t = OSTCBCur)
      BY <1>1, <2>1, <2>3, <3>2 DEF TasksKept, PendAt, tcbVars
    <3> QED BY <3>1, <3>2
  <2>4. ASSUME NEW e \in Event, NEW W, NEW ps, Wakes(e, W, ps) PROVE PendAt(t)'
    <3> DEFINE T == {OSTCBPrioTbl[p] : p \in W}
    <3>1. /\ OSTCBDly'[t] = IF t \in T THEN 0 ELSE OSTCBDly[t]
          /\ OSTCBStat'[t] = IF t \in T THEN OSTCBStat[t] \ {"SEM"} ELSE OSTCBStat[t]
          /\ OSTCBStatPend'[t] = IF t \in T THEN ps ELSE OSTCBStatPend[t]
          /\ OSTCBEventPtr'[t] = IF t \in T THEN Null ELSE OSTCBEventPtr[t]
      BY <2>4 DEF Wakes, OS_EventTaskRdy, WaitEnds
    <3>2. CASE OSSemPend_Tail /\ t = OSTCBCur
      <4>1. /\ OSTCBStat'[t] = {} /\ OSTCBEventPtr'[t] = Null
        BY <1>1, <3>2 DEF OSSemPend_Tail, OSPend_Tail, TcbTypeOK, SwitchTypeOK
      <4> QED BY <2>2, <4>1
    <3>3. CASE t \in T
      <4>1. OSTCBStat'[t] \subseteq {"SEM", "SUSPEND"} /\ OSTCBEventPtr'[t] = Null
        BY <1>1, <3>1, <3>3 DEF PendAt
      <4> QED BY <2>2, <4>1
    <3>4. CASE t \notin T /\ ~(OSSemPend_Tail /\ t = OSTCBCur)
      BY <1>1, <2>1, <3>1, <3>4 DEF PendAt
    <3> QED BY <3>2, <3>3, <3>4
  <2>5. ASSUME NEW u \in Task, EndsDelay(u) \/ CountsDown(u) PROVE PendAt(t)'
    <3>1. CASE OSSemPend_Tail /\ t = OSTCBCur
      <4>1. /\ OSTCBStat'[t] = {} /\ OSTCBEventPtr'[t] = Null
        BY <1>1, <3>1 DEF OSSemPend_Tail, OSPend_Tail, TcbTypeOK, SwitchTypeOK
      <4> QED BY <2>2, <4>1
    <3>2. CASE EndsDelay(u) /\ ~(OSSemPend_Tail /\ t = OSTCBCur)
      <4>1. /\ OSTCBDly' = [OSTCBDly EXCEPT ![u] = 0] /\ OSTCBDly[u] # 0
            /\ OSTCBStat' = [OSTCBStat EXCEPT ![u] = @ \ OS_STAT_PEND_ANY]
            /\ OSTCBStatPend' = [OSTCBStatPend EXCEPT
                 ![u] = IF OSTCBStat[u] \cap OS_STAT_PEND_ANY # {} THEN "TO" ELSE "OK"]
            /\ OSTCBEventPtr' = OSTCBEventPtr
        BY <3>2 DEF EndsDelay, DlyEnds
      <4>2. CASE t = u
        <5>1. OSTCBEventPtr[t] # Null => "SEM" \in OSTCBStat[t]
          BY <1>1, <4>1, <4>2 DEF PendAt
        <5>2. "SEM" \in OSTCBStat[t] => OSTCBStatPend'[t] = "TO" /\ OSTCBDly'[t] = 0
          BY <1>1, <4>1, <4>2 DEF TcbTypeOK
        <5>3. OSTCBStat'[t] \subseteq {"SEM", "SUSPEND"}
          BY <1>1, <4>1, <4>2 DEF TcbTypeOK, PendAt
        <5> QED BY <1>1, <2>1, <3>2, <4>1, <5>1, <5>2, <5>3 DEF PendAt
      <4>3. CASE t # u
        <5>1. /\ OSTCBDly'[t] = OSTCBDly[t] /\ OSTCBStat'[t] = OSTCBStat[t]
              /\ OSTCBStatPend'[t] = OSTCBStatPend[t]
          BY <1>1, <4>1, <4>3 DEF TcbTypeOK
        <5> QED BY <1>1, <2>1, <3>2, <4>1, <5>1 DEF PendAt
      <4> QED BY <4>2, <4>3
    <3>3. CASE CountsDown(u) /\ ~(OSSemPend_Tail /\ t = OSTCBCur)
      <4>1. /\ OSTCBDly[u] # 0 /\ OSTCBDly' = [OSTCBDly EXCEPT ![u] = OSTCBDly[u] - 1]
            /\ UNCHANGED <<OSTCBStat, OSTCBStatPend, OSTCBEventPtr>>
        BY <3>3 DEF CountsDown
      <4>2. OSTCBDly[t] = 0 => OSTCBDly'[t] = 0
        BY <1>1, <4>1 DEF TcbTypeOK
      <4> QED BY <1>1, <2>1, <3>3, <4>1, <4>2 DEF PendAt
    <3> QED BY <2>5, <3>1, <3>2, <3>3
  <2>6. ASSUME NEW ticks \in 1 .. MaxDly, OSTimeDly(ticks) PROVE PendAt(t)'
    <3>1. /\ OSTCBDly' = [OSTCBDly EXCEPT ![OSTCBCur] = ticks] /\ pc[OSTCBCur] = "app"
          /\ UNCHANGED <<OSTCBStat, OSTCBStatPend, OSTCBEventPtr>>
      BY <2>6 DEF OSTimeDly, TaskCall, InTask
    <3>2. CASE t = OSTCBCur
      BY <1>1, <2>2, <3>1, <3>2 DEF PendAt, PendPlaces
    <3>3. CASE t # OSTCBCur
      <4>1. OSTCBDly'[t] = OSTCBDly[t]
        BY <1>1, <3>1, <3>3 DEF TcbTypeOK
      <4> QED BY <1>1, <2>1, <3>1, <3>3, <4>1 DEF PendAt
    <3> QED BY <3>2, <3>3
  <2>7. ASSUME NEW prio \in Prio, OSTaskSuspend(prio) \/ OSTaskResume(prio)
        PROVE  PendAt(t)'
    <3>1. /\ UNCHANGED <<OSTCBStatPend, OSTCBDly, OSTCBEventPtr>>
          /\ \E u \in Task : \/ OSTCBStat' = [OSTCBStat EXCEPT ![u] = @ \cup {"SUSPEND"}]
                            \/ OSTCBStat' = [OSTCBStat EXCEPT ![u] = @ \ {"SUSPEND"}]
      BY <2>7 DEF OSTaskSuspend, OSTaskResume, NamesTask
    <3>2. /\ OSTCBStat'[t] \subseteq {"SEM", "SUSPEND"}
          /\ "SEM" \in OSTCBStat[t] <=> "SEM" \in OSTCBStat'[t]
      BY <1>1, <3>1 DEF TcbTypeOK, PendAt
    <3>3. CASE OSSemPend_Tail /\ t = OSTCBCur
      <4>1. OSTCBEventPtr'[t] = Null
        BY <1>1, <3>3 DEF OSSemPend_Tail, OSPend_Tail, TcbTypeOK, SwitchTypeOK
      <4> QED BY <2>2, <3>2, <4>1
    <3>4. CASE ~(OSSemPend_Tail /\ t = OSTCBCur)
      BY <1>1, <2>1, <3>1, <3>2, <3>4 DEF PendAt
    <3> QED BY <3>3, <3>4
  <2>8. ASSUME NEW old \in Prio, NEW new \in Prio, OSTaskChangePrio(old, new)
        PROVE  PendAt(t)'
    <3>1. UNCHANGED <<OSTCBStat, OSTCBStatPend, OSTCBDly, OSTCBEventPtr>>
      BY <2>8 DEF OSTaskChangePrio
    <3>2. CASE OSSemPend_Tail /\ t = OSTCBCur
      <4>1. OSTCBStat'[t] = {} /\ OSTCBEventPtr'[t] = Null
        BY <1>1, <3>2 DEF OSSemPend_Tail, OSPend_Tail, TcbTypeOK, SwitchTypeOK
      <4> QED BY <2>2, <4>1
    <3>3. CASE ~(OSSemPend_Tail /\ t = OSTCBCur)
      BY <1>1, <2>1, <3>1, <3>3 DEF PendAt
    <3> QED BY <3>2, <3>3
  <2>9. ASSUME NEW e \in Event, NEW timeout \in 0 .. MaxDly, OSSemPend_Block(e, timeout)
        PROVE  PendAt(t)'
    <3>1. /\ pc[OSTCBCur] = "OSSemPend" /\ GoTo("OSPend_Sched", e)
          /\ OSTCBStat' = [OSTCBStat EXCEPT ![OSTCBCur] = @ \cup {"SEM"}]
          /\ OSTCBStatPend' = [OSTCBStatPend EXCEPT ![OSTCBCur] = "OK"]
          /\ OSTCBDly' = [OSTCBDly EXCEPT ![OSTCBCur] = timeout]
          /\ OSTCBEventPtr' = [OSTCBEventPtr EXCEPT ![OSTCBCur] = e]
      BY <2>9 DEF OSSemPend_Block, InTask, OS_EventTaskWait
    <3>2. CASE t = OSTCBCur
      <4>1. pc'[t] = "OSPend_Sched" /\ pevent'[t] = e
        BY <1>1, <3>1, <3>2 DEF GoTo, FlowTypeOK
      <4>2. OSTCBEventPtr'[t] = e /\ OSTCBStat'[t] = OSTCBStat[t] \cup {"SEM"}
        BY <1>1, <3>1, <3>2 DEF TcbTypeOK
      <4>3. /\ "SEM" \in OSTCBStat'[t] /\ OSTCBStat'[t] \subseteq {"SEM", "SUSPEND"}
        BY <1>1, <4>2 DEF PendAt
      <4> QED BY <4>1, <4>2, <4>3 DEF PendAt, PendPlaces
    <3>3. CASE t # OSTCBCur
      <4>1. /\ OSTCBDly'[t] = OSTCBDly[t] /\ OSTCBStat'[t] = OSTCBStat[t]
            /\ OSTCBStatPend'[t] = OSTCBStatPend[t] /\ OSTCBEventPtr'[t] = OSTCBEventPtr[t]
        BY <1>1, <3>1, <3>3 DEF TcbTypeOK
      <4> QED BY <1>1, <2>1, <3>3, <4>1 DEF PendAt
    <3> QED BY <3>2, <3>3
  <2>10. ASSUME OSSemPend_Tail PROVE PendAt(t)'
    <3>1. /\ OSTCBStat' = [OSTCBStat EXCEPT ![OSTCBCur] = {}]
          /\ OSTCBStatPend' = [OSTCBStatPend EXCEPT ![OSTCBCur] = "OK"]
          /\ OSTCBEventPtr' = [OSTCBEventPtr EXCEPT ![OSTCBCur] = Null]
          /\ OSTCBDly' = OSTCBDly
      BY <2>10 DEF OSSemPend_Tail, OSPend_Tail
    <3>2. CASE t = OSTCBCur
      <4>1. OSTCBStat'[t] = {} /\ OSTCBEventPtr'[t] = Null
        BY <1>1, <3>1, <3>2 DEF TcbTypeOK
      <4> QED BY <2>2, <4>1
    <3>3. CASE t # OSTCBCur
      <4>1. /\ OSTCBDly'[t] = OSTCBDly[t] /\ OSTCBStat'[t] = OSTCBStat[t]
            /\ OSTCBStatPend'[t] = OSTCBStatPend[t] /\ OSTCBEventPtr'[t] = OSTCBEventPtr[t]
        BY <1>1, <3>1, <3>3 DEF TcbTypeOK
      <4> QED BY <1>1, <2>1, <3>3, <4>1 DEF PendAt
    <3> QED BY <3>2, <3>3
  <2> HIDE DEF FlowOK
  <2> QED BY <2>3, <2>4, <2>5, <2>6, <2>7, <2>8, <2>9, <2>10, Effects
<1> QED BY <1>2 DEF PendSound, PendAt

-----------------------------------------------------------------------------
(* The initial state, and the theorems.                                    *)

\* The state after OSStart satisfies the inductive invariant.
LEMMA InitInv ==
  Init => IInv
<1> SUFFICES ASSUME Init PROVE IInv
  OBVIOUS
<1>1. CoreInit
  BY DEF Init
<1>2. \E t \in Task : OSPrioHighRdy = InitPrio[t]
  BY <1>1 DEF CoreInit, StartedInit, TasksStarted, CreatedTasks
<1>3. \A t \in Task : InitPrio[t] \in Prio /\ OSTCBPrioTbl[InitPrio[t]] = t
  BY <1>1, CoreAssumption DEF CoreInit, StartedInit, TasksStarted, CreatedTasks, CoreAssumption
<1>4. \A p \in Prio : OSTCBPrioTbl[p] # Null =>
        OSTCBPrioTbl[p] \in Task /\ InitPrio[OSTCBPrioTbl[p]] = p
  BY <1>1 DEF CoreInit, StartedInit, TasksStarted, CreatedTasks
<1>5. PrioTblSound
  BY <1>1, <1>3, <1>4 DEF CoreInit, StartedInit, TasksStarted, CreatedTasks, PrioTblSound
<1>6. TypeOK
  <2>1. TcbTypeOK
    BY <1>1, CoreAssumption
    DEF CoreInit, StartedInit, TasksStarted, TcbTypeOK, CoreAssumption
  <2>2. EventTypeOK
    <3>1. OSEventType \in [Event -> {"UNUSED", "SEM"}] /\ OSEventWait \in [Event -> SUBSET Prio]
      BY <1>1 DEF Init, CoreInit, StartedInit, TasksStarted, CreatedTasks
    <3>2. OSEventFreeList \in Event \cup {Null}
      <4>1. CASE InitFreeList = <<>>
        BY <1>1, <4>1 DEF CoreInit, StartedInit, TasksStarted, CreatedTasks, OS_InitEventList, NextUnused
      <4>2. CASE InitFreeList # <<>>
        <5>1. Head(InitFreeList) \in Event
          BY <4>2, CoreAssumption, HeadTailProperties DEF CoreAssumption
        <5> QED BY <1>1, <4>2, <5>1 DEF CoreInit, StartedInit, TasksStarted, OS_InitEventList, NextUnused
      <4> QED BY <4>1, <4>2
    <3>3. OSEventPtr \in [Event -> Event \cup {Null}]
      <4> DEFINE I == 1 .. Len(InitFreeList) - 1
      <4>1. Len(InitFreeList) \in Nat /\ \A i \in 1 .. Len(InitFreeList) : InitFreeList[i] \in Event
        BY CoreAssumption, ElementOfSeq, LenProperties DEF CoreAssumption
      <4>2. \A i \in I : 1 + i \in 1 .. Len(InitFreeList)
        BY <4>1
      <4>3. \A i \in I : InitFreeList[1 + i] \in Event
        BY <4>1, <4>2
      <4>4. OSEventPtr = [e \in Event |->
                            IF \E i \in I : InitFreeList[i] = e
                              THEN InitFreeList[1 + CHOOSE i \in I : InitFreeList[i] = e]
                              ELSE Null]
        BY <1>1 DEF CoreInit, StartedInit, TasksStarted, CreatedTasks, OS_InitEventList, NextUnused
      <4> HIDE DEF I
      <4>5. ASSUME NEW e \in Event, \E i \in I : InitFreeList[i] = e
            PROVE  InitFreeList[1 + CHOOSE i \in I : InitFreeList[i] = e] \in Event
        <5>1. (CHOOSE i \in I : InitFreeList[i] = e) \in I
          BY <4>5
        <5> QED BY <4>3, <5>1
      <4> QED BY <4>4, <4>5
    <3> QED BY <3>1, <3>2, <3>3 DEF EventTypeOK
  <2>3. ReadyTypeOK
    <3>1. OSRdy \subseteq Prio
      BY <1>1, <1>3 DEF CoreInit, StartedInit, TasksStarted, CreatedTasks
    <3>2. OSTCBPrioTbl \in [Prio -> Task \cup {Null}]
      BY <1>1 DEF CoreInit, StartedInit, TasksStarted, CreatedTasks
    <3> QED BY <3>1, <3>2 DEF ReadyTypeOK
  <2>4. SwitchTypeOK
    <3>1. OSTCBCur \in Task /\ OSTCBHighRdy \in Task
      <4>1. OSTCBCur = OSTCBHighRdy /\ OSTCBHighRdy = OSTCBPrioTbl[OSPrioHighRdy]
        BY <1>1 DEF CoreInit, StartedInit, TasksStarted
      <4> QED BY <4>1, <1>2, <1>3
    <3>2. OSPrioCur \in Prio /\ OSPrioHighRdy \in Prio
      <4>1. OSPrioCur = OSPrioHighRdy
        BY <1>1 DEF CoreInit, StartedInit, TasksStarted
      <4> QED BY <4>1, <1>2, <1>3
    <3>3. PendSV \in BOOLEAN
      BY <1>1 DEF CoreInit, StartedInit, TasksStarted
    <3> QED BY <3>1, <3>2, <3>3 DEF SwitchTypeOK
  <2>5. NestTypeOK
    BY <1>1, CoreAssumption
    DEF CoreInit, StartedInit, TasksStarted, NestTypeOK, CoreAssumption
  <2>6. TickTypeOK
    <3>1. <<>> \in Seq(Task \ {Idle})
      OBVIOUS
    <3> QED BY <1>1, <3>1, CoreAssumption
      DEF CoreInit, StartedInit, TasksStarted, TickTypeOK, CoreAssumption
  <2>7. FlowTypeOK
    BY <1>1 DEF CoreInit, StartedInit, TasksStarted, CreatedTasks, FlowTypeOK, Places
  <2>8. OSEventCnt \in [Event -> 0 .. MaxCnt]
    BY SemAssumption DEF Init, SemAssumption
  <2> QED BY <2>1, <2>2, <2>3, <2>4, <2>5, <2>6, <2>7, <2>8 DEF TypeOK, CoreTypeOK
<1>7. TickSound
  BY <1>1 DEF CoreInit, StartedInit, TasksStarted, CreatedTasks, TickSound
<1>8. ReadyIffRunnable
  BY <1>1 DEF CoreInit, StartedInit, TasksStarted, CreatedTasks, ReadyIffRunnable, IsReady
<1>9. WaitListSound
  BY <1>1 DEF CoreInit, StartedInit, TasksStarted, CreatedTasks, WaitListSound
<1>10. HighestRuns /\ CurSound /\ SwitchSound /\ LockSound
  BY <1>1, <1>2, <1>3
  DEF CoreInit, StartedInit, TasksStarted, CreatedTasks, HighestRuns, CurSound, SwitchSound, LockSound
<1>11. PendSound
  BY <1>1 DEF CoreInit, StartedInit, TasksStarted, CreatedTasks, PendSound
<1> QED BY <1>5, <1>6, <1>7, <1>8, <1>9, <1>10, <1>11 DEF IInv

\* The invariant is inductive for applications that follow PrioDiscipline.
LEMMA Inductive ==
  ASSUME PrioDiscipline, IInv, [Next]_vars
  PROVE  IInv'
BY TypeStep, TickStep, PrioTblStep, ReadyStep, WaitStep, HighestStep, PendStep, CurStep,
   SwitchStep, LockStep
DEF IInv

\* Every reachable state satisfies the inductive invariant.
THEOREM Invariance ==
  ASSUME PrioDiscipline
  PROVE  Spec => []IInv
<1>1. IInv /\ [Next]_vars => IInv'
  BY Inductive
<1> QED BY InitInv, <1>1, PTL DEF Spec

\* The kernel's variables keep their types: in particular OS_SchedNew always
\* finds a task for the priority it takes from the ready list.
THEOREM TypeCorrect ==
  ASSUME PrioDiscipline
  PROVE  Spec => []TypeOK
<1>1. IInv => TypeOK
  BY DEF IInv
<1> QED BY Invariance, <1>1, PTL

\* The ready list never holds a task that is suspended, delayed or pending and
\* never misses one that is not.
THEOREM ReadyListCorrect ==
  ASSUME PrioDiscipline
  PROVE  Spec => []ReadyIffRunnable
<1>1. IInv => ReadyIffRunnable
  BY DEF IInv
<1> QED BY Invariance, <1>1, PTL

\* The priority table and the control blocks always agree, whatever changes of
\* priority are made.
THEOREM PrioTblCorrect ==
  ASSUME PrioDiscipline
  PROVE  Spec => []PrioTblSound
<1>1. IInv => PrioTblSound
  BY DEF IInv
<1> QED BY Invariance, <1>1, PTL

\* A wait list names only tasks that wait for the event, also between a timeout
\* and the moment the task runs again.
THEOREM WaitListCorrect ==
  ASSUME PrioDiscipline
  PROVE  Spec => []WaitListSound
<1>1. IInv => WaitListSound
  BY DEF IInv
<1> QED BY Invariance, <1>1, PTL

\* The code that runs is that of the highest-priority ready task, whatever
\* interrupts, nested ISRs and pending switches come in between.
THEOREM SchedulerCorrect ==
  ASSUME PrioDiscipline
  PROVE  Spec => []HighestRuns
<1>1. IInv => HighestRuns
  BY DEF IInv
<1> QED BY Invariance, <1>1, PTL

=============================================================================
