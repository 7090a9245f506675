-------------------------- MODULE UcosMutexProofs ---------------------------
(***************************************************************************)
(* Proofs about UcosMutex for every number of tasks, priorities, mutexes,   *)
(* ceilings and nesting levels: priority inheritance, and what it does to   *)
(* the priority table.                                                     *)
(*                                                                         *)
(* They hold for applications that use mutexes as os_mutex.c demands: see   *)
(* NoChangePrio and Disciplined.                                            *)
(***************************************************************************)
EXTENDS UcosMutex, WellFoundedInduction, SequenceTheorems, TLAPS

\* No OSTaskChangePrio: it knows nothing of an owner's two priorities.
NoChangePrio ==
  /\ "OSTaskChangePrio" \notin IsrCalls
  /\ \A t \in Task : "OSTaskChangePrio" \notin TaskCalls[t]

\* "It is assumed that you will specify a priority that is LOWER in value than
\* ANY of the tasks competing for the mutex" (OSMutexCreate).
BelowCeiling(e) ==
  OSMutexPCP[e] \in Prio => OSMutexPCP[e] < OSTCBPrio[OSTCBCur]

\* The owner of e runs at the ceiling of e.
OwnerIsRaised(e) == OSEventPtr[e] \in Task /\ Raised(e)

\* What the application sees to: the ceiling is above every task that takes or
\* waits for the mutex, no task takes a second one, and a mutex whose owner is
\* raised is deleted by that owner, with OS_DEL_ALWAYS.  See DeleteRaised.cfg.
Disciplined ==
  \A e \in Event :
    /\ OSMutexAccept(e) => MayPend /\ BelowCeiling(e)
    /\ OSMutexPend_Take(e) => BelowCeiling(e)
    /\ \A timeout \in 0 .. MaxDly : OSMutexPend_Block(e, timeout) => BelowCeiling(e)
    /\ \A always \in BOOLEAN :
         OSMutexDel(e, always) /\ OwnerIsRaised(e) => always /\ Owns(OSTCBCur, e)

-----------------------------------------------------------------------------
(* The inductive invariant.                                                *)

PendPlaces == {"OSPend_Sched", "OSPend_Tail"}

IsMutex(e) == OSEventType[e] = "MUTEX"

\* A tick is in progress while there are tasks left for it to visit.
TickSound == tickNest > 0 <=> ptcb # <<>>

\* A task has an entry at its own priority and at the one it runs at, which is
\* its own unless it owns the mutex with that ceiling.
PrioSound ==
  /\ \A t \in Task : OSTCBPrioTbl[InitPrio[t]] = t
  /\ \A t \in Task : OSTCBPrioTbl[OSTCBPrio[t]] = t
  /\ RaisedOnlyAsOwner
  /\ \A p \in Prio : OSTCBPrioTbl[p] \in Task =>
       InitPrio[OSTCBPrioTbl[p]] = p \/ OSTCBPrio[OSTCBPrioTbl[p]] = p

\* A ceiling belongs to one mutex and to no task.
CeilingSound ==
  /\ \A e \in Event : IsMutex(e) /\ OSMutexPCP[e] \in Prio =>
       /\ \A t \in Task : InitPrio[t] # OSMutexPCP[e]
       /\ OSTCBPrioTbl[OSMutexPCP[e]] =
            IF OwnerIsRaised(e) THEN OSEventPtr[e] ELSE OS_TCB_RESERVED
       /\ \A f \in Event : IsMutex(f) /\ OSMutexPCP[f] = OSMutexPCP[e] => f = e
  /\ ReservedIsCeiling

\* A mutex is free or has an owner that took it at its own priority and waits
\* for nothing; a task owns one mutex at most.
OwnerSound ==
  /\ \A e \in Event : IsMutex(e) =>
       \/ OSEventPtr[e] = Null /\ OSOwnerPrio[e] = OS_MUTEX_AVAILABLE
       \/ /\ OSEventPtr[e] \in Task
          /\ OSOwnerPrio[e] = InitPrio[OSEventPtr[e]]
          /\ OSTCBEventPtr[OSEventPtr[e]] = Null
  /\ \A t \in Task : \A e, f \in Event : Owns(t, e) /\ Owns(t, f) => e = f

\* A task that refers to a mutex in its control block is in OSMutexPend on that
\* mutex, and pends on it unless its timeout is over.
PendAt(t) ==
  /\ OSTCBStat[t] \subseteq {"MUTEX", "SUSPEND"}
  /\ "MUTEX" \in OSTCBStat[t] => OSTCBEventPtr[t] # Null
  /\ OSTCBEventPtr[t] # Null =>
       /\ pc[t] \in PendPlaces
       /\ pevent[t] = OSTCBEventPtr[t]
       /\ "MUTEX" \notin OSTCBStat[t] => OSTCBStatPend[t] = "TO" /\ OSTCBDly[t] = 0
  /\ pc[t] \in PendPlaces => pevent[t] \in Event

PendSound == \A t \in Task : PendAt(t)

\* The wait list of a mutex holds the priorities of the tasks that refer to it;
\* a mutex with a waiter has an owner.
WaitSound ==
  /\ \A t \in Task : OSTCBEventPtr[t] # Null =>
       OSTCBPrio[t] \in OSEventWait[OSTCBEventPtr[t]]
  /\ \A e \in Event : \A p \in OSEventWait[e] :
       /\ IsMutex(e) /\ OSEventPtr[e] \in Task
       /\ OSTCBPrioTbl[p] \in Task
       /\ OSTCBPrio[OSTCBPrioTbl[p]] = p
       /\ OSTCBEventPtr[OSTCBPrioTbl[p]] = e

\* The ready list names tasks at the priorities they run at, and none that
\* pends.
RdySound ==
  /\ \A p \in OSRdy : OSTCBPrioTbl[p] \in Task /\ OSTCBPrio[OSTCBPrioTbl[p]] = p
  /\ \A t \in Task : "MUTEX" \in OSTCBStat[t] => OSTCBPrio[t] \notin OSRdy

\* OSPrioCur follows the running task when a mutex restores its priority; a
\* pending switch leads to a ready task; a task comes back from the wait of
\* OSMutexPend only when it pends no more.
SwitchSound ==
  /\ OSPrioCur = OSTCBPrio[OSTCBCur]
  /\ PendSV => OSTCBPrio[OSTCBHighRdy] = OSPrioHighRdy
  /\ PendSV /\ OSIntNesting = 0 => OSPrioHighRdy \in OSRdy
  /\ OSLockNesting > 0 => ~PendSV /\ pc[OSTCBCur] \notin PendPlaces
  /\ ~PendSV /\ pc[OSTCBCur] = "OSPend_Tail" => "MUTEX" \notin OSTCBStat[OSTCBCur]

\* The chain of unused control blocks: every one has at most one predecessor,
\* the head has none.
FreeChain ==
  /\ OSEventFreeList # Null => ~IsMutex(OSEventFreeList)
  /\ \A e \in Event : ~IsMutex(e) /\ OSEventPtr[e] # Null =>
       /\ OSEventPtr[e] \in Event
       /\ ~IsMutex(OSEventPtr[e])
       /\ OSEventPtr[e] # OSEventFreeList
  /\ \A e, f \in Event :
       ~IsMutex(e) /\ ~IsMutex(f) /\ OSEventPtr[e] # Null /\ OSEventPtr[e] = OSEventPtr[f]
         => e = f

IInv ==
  /\ TypeOK
  /\ TickSound
  /\ PrioSound
  /\ CeilingSound
  /\ OwnerSound
  /\ PendSound
  /\ WaitSound
  /\ Inherits
  /\ RdySound
  /\ SwitchSound
  /\ FreeChain

-----------------------------------------------------------------------------
(* What a step may do.                                                     *)

\* The priorities, wait lists and mutexes stay as they are.
ControlStep ==
  UNCHANGED <<OSTCBPrio, OSTCBEventPtr, OSTCBPrioTbl, eventVars, mutexVars>>

\* Only the services of os_mutex.c change them.
LEMMA Kinds ==
  ASSUME NoChangePrio, IInv, Next
  PROVE  MutexNext \/ ControlStep
<1>1. OSTCBCur \in Task
  BY DEF IInv, TypeOK, SwitchTypeOK
<1>2. ASSUME NEW old \in Prio, NEW new \in Prio, OSTaskChangePrio(old, new)
      PROVE  FALSE
  BY <1>1, <1>2 DEF OSTaskChangePrio, Call, TaskCall, IsrCall, NoChangePrio
<1>3. CASE CoreNext /\ UNCHANGED mutexVars
  BY <1>3
  DEF CoreNext, OS_Sched, PendSV_Handler, OSSchedLock, OSSchedUnlock, OSIntEnter, OSIntExit,
      OSTimeTick, OSTimeTick_Step, DlyEnds, ControlStep, tcbVars, readyVars
<1>4. CASE \E ticks \in 1 .. MaxDly : OSTimeDly(ticks) /\ UNCHANGED mutexVars
  BY <1>4 DEF OSTimeDly, ControlStep
<1>5. CASE TaskControl /\ UNCHANGED mutexVars
  BY <1>2, <1>5
  DEF TaskControl, OSTimeDlyResume, DlyEnds, OSTaskSuspend, OSTaskResume, ControlStep
<1> QED BY <1>3, <1>4, <1>5 DEF Next

-----------------------------------------------------------------------------
(* What the invariant says of one task, one mutex or one waiter.           *)

\* Two tasks never run at one priority, nor one at the priority of another.
LEMMA PriosDistinct ==
  ASSUME IInv
  PROVE  \A s, t \in Task :
           OSTCBPrio[s] \in {OSTCBPrio[t], InitPrio[t]} \/ InitPrio[s] = InitPrio[t] => s = t
BY DEF IInv, PrioSound

\* What is known of an owner.
LEMMA OwnerFacts ==
  ASSUME IInv, NEW e \in Event, IsMutex(e), OSEventPtr[e] # Null
  PROVE  /\ OSEventPtr[e] \in Task /\ Owns(OSEventPtr[e], e)
         /\ OSOwnerPrio[e] = InitPrio[OSEventPtr[e]]
         /\ OSTCBEventPtr[OSEventPtr[e]] = Null
         /\ OSTCBPrio[OSEventPtr[e]] \in {InitPrio[OSEventPtr[e]], OSMutexPCP[e]}
         /\ Raised(e) => OSMutexPCP[e] \in Prio
<1>1. /\ OSEventPtr[e] \in Task /\ Owns(OSEventPtr[e], e)
      /\ OSOwnerPrio[e] = InitPrio[OSEventPtr[e]]
      /\ OSTCBEventPtr[OSEventPtr[e]] = Null
  BY DEF IInv, OwnerSound, IsMutex, Owns
<1>2. OSTCBPrio[OSEventPtr[e]] \in Prio
  BY <1>1 DEF IInv, TypeOK, TcbTypeOK
<1> QED BY <1>1, <1>2 DEF IInv, OwnerSound, PrioSound, RaisedOnlyAsOwner, Raised

\* A task that owns no mutex runs at its own priority.
LEMMA NoOwnerFacts ==
  ASSUME IInv, NEW t \in Task, \A e \in Event : ~Owns(t, e)
  PROVE  OSTCBPrio[t] = InitPrio[t]
BY DEF IInv, PrioSound, RaisedOnlyAsOwner

\* What is known of a waiter.
LEMMA WaiterFacts ==
  ASSUME IInv, NEW e \in Event, NEW p \in OSEventWait[e]
  PROVE  /\ IsMutex(e) /\ OSEventPtr[e] \in Task
         /\ p \in Prio /\ OSTCBPrioTbl[p] \in Task
         /\ OSTCBPrio[OSTCBPrioTbl[p]] = p /\ InitPrio[OSTCBPrioTbl[p]] = p
         /\ OSTCBEventPtr[OSTCBPrioTbl[p]] = e
         /\ pc[OSTCBPrioTbl[p]] \in PendPlaces
         /\ \A f \in Event : ~Owns(OSTCBPrioTbl[p], f)
<1> DEFINE t == OSTCBPrioTbl[p]
<1>1. /\ IsMutex(e) /\ OSEventPtr[e] \in Task
      /\ p \in Prio /\ t \in Task /\ OSTCBPrio[t] = p /\ OSTCBEventPtr[t] = e
  BY DEF IInv, WaitSound, TypeOK
<1>2. e # Null
  BY CoreAssumption DEF CoreAssumption
<1>3. pc[t] \in PendPlaces
  BY <1>1, <1>2 DEF IInv, PendSound, PendAt
<1>4. \A f \in Event : ~Owns(t, f)
  BY <1>1, <1>2, CoreAssumption DEF IInv, OwnerSound, Owns, IsMutex, CoreAssumption
<1> QED BY <1>1, <1>3, <1>4, NoOwnerFacts

\* What is known of the running task when it is in application code.
LEMMA CallerFacts ==
  ASSUME IInv, NEW service, TaskCall(service)
  PROVE  /\ OSTCBCur \in Task /\ Runs /\ ~PendSV /\ OSIntNesting = 0
         /\ pc[OSTCBCur] = "app"
         /\ OSTCBEventPtr[OSTCBCur] = Null
         /\ "MUTEX" \notin OSTCBStat[OSTCBCur]
         /\ OSPrioCur = OSTCBPrio[OSTCBCur]
BY DEF IInv, TypeOK, SwitchTypeOK, SwitchSound, PendSound, PendAt, PendPlaces, TaskCall,
       InTask, Runs

\* What is known of the ceiling of a mutex.
LEMMA CeilingFacts ==
  ASSUME IInv, NEW e \in Event, IsMutex(e), OSMutexPCP[e] \in Prio
  PROVE  /\ \A t \in Task : InitPrio[t] # OSMutexPCP[e]
         /\ \A t \in Task : OSTCBPrio[t] = OSMutexPCP[e] => Owns(t, e) /\ OwnerIsRaised(e)
         /\ \A f \in Event : IsMutex(f) /\ OSMutexPCP[f] = OSMutexPCP[e] => f = e
<1>1. /\ \A t \in Task : InitPrio[t] # OSMutexPCP[e]
      /\ \A f \in Event : IsMutex(f) /\ OSMutexPCP[f] = OSMutexPCP[e] => f = e
      /\ OSTCBPrioTbl[OSMutexPCP[e]] =
            IF OwnerIsRaised(e) THEN OSEventPtr[e] ELSE OS_TCB_RESERVED
  BY DEF IInv, CeilingSound
<1>2. ASSUME NEW t \in Task, OSTCBPrio[t] = OSMutexPCP[e]
      PROVE  Owns(t, e) /\ OwnerIsRaised(e)
  <2>1. OSTCBPrioTbl[OSMutexPCP[e]] = t
    BY <1>2 DEF IInv, PrioSound
  <2> QED BY <1>1, <2>1, MutexAssumption DEF MutexAssumption, Owns, IsMutex
<1> QED BY <1>1, <1>2

-----------------------------------------------------------------------------
(* Steps keep the types.                                                   *)

\* The types of the variables this module adds to UcosCore or uses otherwise.
MutexTypeOK ==
  /\ OSRdy \subseteq Prio
  /\ OSTCBPrioTbl \in [Prio -> Task \cup {Null, OS_TCB_RESERVED}]
  /\ OSEventType \in [Event -> {"UNUSED", "MUTEX"}]
  /\ OSEventWait \in [Event -> SUBSET Prio]
  /\ OSEventPtr \in [Event -> Event \cup Task \cup {Null}]
  /\ OSEventFreeList \in Event \cup {Null}
  /\ OSMutexPCP \in [Event -> Prio \cup {OS_PRIO_MUTEX_CEIL_DIS}]
  /\ OSOwnerPrio \in [Event -> Prio \cup {OS_MUTEX_AVAILABLE}]

\* TypeOK, group by group.
LEMMA TypeGroups ==
  /\ TypeOK <=> /\ TcbTypeOK /\ SwitchTypeOK /\ NestTypeOK /\ TickTypeOK /\ FlowTypeOK
                /\ MutexTypeOK
  /\ TypeOK' <=> /\ TcbTypeOK' /\ SwitchTypeOK' /\ NestTypeOK' /\ TickTypeOK' /\ FlowTypeOK'
                 /\ MutexTypeOK'
BY DEF TypeOK, MutexTypeOK

\* A step that leaves a group of variables alone keeps its types.
LEMMA FrameTypes ==
  /\ TcbTypeOK /\ UNCHANGED tcbVars => TcbTypeOK'
  /\ SwitchTypeOK /\ UNCHANGED switchVars => SwitchTypeOK'
  /\ NestTypeOK /\ UNCHANGED nestVars => NestTypeOK'
  /\ TickTypeOK /\ UNCHANGED tickVars => TickTypeOK'
  /\ FlowTypeOK /\ UNCHANGED flowVars => FlowTypeOK'
  /\ MutexTypeOK /\ UNCHANGED <<eventVars, readyVars, mutexVars>> => MutexTypeOK'
  /\ MutexTypeOK /\ UNCHANGED <<eventVars, OSTCBPrioTbl, mutexVars>> /\ OSRdy' \subseteq Prio
       => MutexTypeOK'
BY DEF TcbTypeOK, tcbVars, eventVars, readyVars, SwitchTypeOK, switchVars, NestTypeOK, nestVars,
       TickTypeOK, tickVars, FlowTypeOK, flowVars, MutexTypeOK, mutexVars

\* The running task goes to one of the places of the services.
LEMMA GoToType ==
  ASSUME NEW place \in Places, NEW e \in Event \cup {Null}, FlowTypeOK, GoTo(place, e)
  PROVE  FlowTypeOK'
BY DEF FlowTypeOK, GoTo

\* So it does when a service returns; in an ISR no task moves.
LEMMA ReturnsType ==
  ASSUME NEW b \in BOOLEAN, FlowTypeOK, Returns(b)
  PROVE  FlowTypeOK'
<1>1. CASE OSIntNesting > 0
  BY <1>1, FrameTypes DEF Returns
<1>2. CASE ~(OSIntNesting > 0)
  <2>1. (IF b THEN "OS_Sched" ELSE "app") \in Places
    BY DEF Places
  <2>2. GoTo(IF b THEN "OS_Sched" ELSE "app", Null)
    BY <1>2 DEF Returns
  <2> QED BY <2>1, <2>2, GoToType
<1> QED BY <1>1, <1>2

\* OS_SchedNew finds a task, because a priority on the ready list has one.
LEMMA SchedNewType ==
  ASSUME IInv, OS_SchedNew
  PROVE  SwitchTypeOK'
BY DEF IInv, TypeOK, RdySound, OS_SchedNew, SwitchTypeOK

\* The end of a delay or timeout keeps the types.
LEMMA DlyEndsType ==
  ASSUME TypeOK, NEW t \in Task, DlyEnds(t)
  PROVE  TcbTypeOK' /\ OSRdy' \subseteq Prio
<1>1. TcbTypeOK'
  BY CoreAssumption DEF TypeOK, CoreAssumption, DlyEnds, TcbTypeOK
<1>2. OSRdy' \subseteq Prio
  BY DEF TypeOK, DlyEnds, MakeReady, ReadyPrios, TcbTypeOK
<1> QED BY <1>1, <1>2

\* So do the ends of waits for a mutex.
LEMMA WaitEndsType ==
  ASSUME TypeOK, NEW e \in Event, NEW T \in SUBSET Task,
         NEW ps \in {"OK", "TO", "ABORT"}, WaitEnds(e, T, "MUTEX", ps)
  PROVE  /\ OSTCBDly' \in [Task -> 0 .. MaxDly]
         /\ OSTCBStat' \in [Task -> SUBSET OS_STAT]
         /\ OSTCBStatPend' \in [Task -> {"OK", "TO", "ABORT"}]
         /\ OSTCBEventPtr' \in [Task -> Event \cup {Null}]
         /\ OSEventWait' \in [Event -> SUBSET Prio]
         /\ ReadyPrios(T) \subseteq Prio
<1> USE DEF WaitEnds, TypeOK, TcbTypeOK
<1>1. OSTCBDly' \in [Task -> 0 .. MaxDly]
  BY CoreAssumption DEF CoreAssumption
<1>2. /\ OSTCBStat' \in [Task -> SUBSET OS_STAT]
      /\ OSTCBStatPend' \in [Task -> {"OK", "TO", "ABORT"}]
      /\ OSTCBEventPtr' \in [Task -> Event \cup {Null}]
  OBVIOUS
<1>3. OSEventWait' \in [Event -> SUBSET Prio]
  OBVIOUS
<1>4. ReadyPrios(T) \subseteq Prio
  BY DEF ReadyPrios
<1> QED BY <1>1, <1>2, <1>3, <1>4

\* The scheduler, the context switch, interrupts and the tick keep the types.
LEMMA CoreNextType ==
  ASSUME IInv, CoreNext, UNCHANGED mutexVars
  PROVE  TypeOK'
<1>1. /\ TypeOK /\ TcbTypeOK /\ SwitchTypeOK /\ NestTypeOK /\ TickTypeOK /\ FlowTypeOK
      /\ MutexTypeOK /\ TickSound /\ OSRdy \subseteq Prio
  BY DEF IInv, TypeOK, MutexTypeOK
<1>2. CASE OS_Sched
  <2>1. UNCHANGED <<tcbVars, eventVars, readyVars, nestVars, tickVars>>
    BY <1>2 DEF OS_Sched
  <2>2. SwitchTypeOK'
    BY <1>1, <1>2, SchedNewType, FrameTypes DEF OS_Sched
  <2>3. AfterSched[pc[OSTCBCur]] \in Places /\ pevent[OSTCBCur] \in Event \cup {Null}
    BY <1>1, <1>2 DEF OS_Sched, AfterSched, Places, SwitchTypeOK, FlowTypeOK
  <2>4. FlowTypeOK'
    BY <1>1, <1>2, <2>3, GoToType DEF OS_Sched
  <2> QED BY <1>1, <2>1, <2>2, <2>4, FrameTypes, TypeGroups
<1>3. CASE PendSV_Handler
  <2>1. UNCHANGED <<tcbVars, eventVars, readyVars, nestVars, tickVars, flowVars>>
    BY <1>3 DEF PendSV_Handler
  <2>2. SwitchTypeOK'
    BY <1>1, <1>3 DEF PendSV_Handler, SwitchTypeOK
  <2> QED BY <1>1, <2>1, <2>2, FrameTypes, TypeGroups
<1>4. CASE OSSchedLock
  <2>1. UNCHANGED <<tcbVars, eventVars, readyVars, switchVars, tickVars, flowVars>>
    BY <1>4 DEF OSSchedLock
  <2>2. NestTypeOK'
    BY <1>1, <1>4, CoreAssumption DEF CoreAssumption, OSSchedLock, NestTypeOK
  <2> QED BY <1>1, <2>1, <2>2, FrameTypes, TypeGroups
<1>5. CASE OSSchedUnlock
  <2>1. UNCHANGED <<tcbVars, eventVars, readyVars, switchVars, tickVars>>
    BY <1>5 DEF OSSchedUnlock
  <2>2. NestTypeOK'
    BY <1>1, <1>5, CoreAssumption DEF CoreAssumption, OSSchedUnlock, NestTypeOK
  <2>3. FlowTypeOK'
    BY <1>1, <1>5, ReturnsType DEF OSSchedUnlock
  <2> QED BY <1>1, <2>1, <2>2, <2>3, FrameTypes, TypeGroups
<1>6. CASE OSIntEnter
  <2>1. UNCHANGED <<tcbVars, eventVars, readyVars, switchVars, tickVars, flowVars>>
    BY <1>6 DEF OSIntEnter
  <2>2. NestTypeOK'
    BY <1>1, <1>6, CoreAssumption DEF CoreAssumption, OSIntEnter, NestTypeOK
  <2> QED BY <1>1, <2>1, <2>2, FrameTypes, TypeGroups
<1>7. CASE OSIntExit
  <2>1. UNCHANGED <<tcbVars, eventVars, readyVars, tickVars, flowVars>>
    BY <1>7 DEF OSIntExit
  <2>2. NestTypeOK'
    BY <1>1, <1>7, CoreAssumption DEF CoreAssumption, OSIntExit, InIsr, NestTypeOK
  <2>3. SwitchTypeOK'
    BY <1>1, <1>7, SchedNewType, FrameTypes DEF OSIntExit
  <2> QED BY <1>1, <2>1, <2>2, <2>3, FrameTypes, TypeGroups
<1>8. CASE OSTimeTick
  <2>1. UNCHANGED <<tcbVars, eventVars, readyVars, switchVars, nestVars, flowVars>>
    BY <1>8 DEF OSTimeTick
  <2>2. TickTypeOK'
    BY <1>1, <1>8, CoreAssumption DEF CoreAssumption, OSTimeTick, TickTypeOK, NestTypeOK
  <2> QED BY <1>1, <2>1, <2>2, FrameTypes, TypeGroups
<1>9. CASE OSTimeTick_Step
  <2>1. UNCHANGED <<eventVars, OSTCBPrioTbl, switchVars, nestVars, flowVars>>
    BY <1>9 DEF OSTimeTick_Step
  <2>2. Head(ptcb) \in Task /\ Tail(ptcb) \in Seq(Task \ {Idle})
    BY <1>1, <1>9, HeadTailProperties DEF OSTimeTick_Step, TickTypeOK, TickSound
  <2>3. TickTypeOK'
    BY <1>1, <1>9, <2>2, CoreAssumption DEF CoreAssumption, OSTimeTick_Step, TickTypeOK
  <2>4. TcbTypeOK' /\ OSRdy' \subseteq Prio
    <3>1. CASE OSTCBDly[Head(ptcb)] = 1
      BY <1>1, <1>9, <2>2, <3>1, DlyEndsType DEF OSTimeTick_Step
    <3>2. CASE OSTCBDly[Head(ptcb)] # 1
      <4>1. OSTCBDly[Head(ptcb)] - 1 \in 0 .. MaxDly \/ OSTCBDly[Head(ptcb)] = 0
        BY <1>1, <2>2, CoreAssumption DEF CoreAssumption, TcbTypeOK
      <4>2. OSTCBDly' \in [Task -> 0 .. MaxDly]
        BY <1>1, <1>9, <2>2, <3>2, <4>1 DEF OSTimeTick_Step, TcbTypeOK
      <4> QED BY <1>1, <1>9, <2>2, <3>2, <4>2 DEF OSTimeTick_Step, TcbTypeOK
    <3> QED BY <3>1, <3>2
  <2> QED BY <1>1, <2>1, <2>3, <2>4, FrameTypes, TypeGroups
<1> QED
  BY <1>2, <1>3, <1>4, <1>5, <1>6, <1>7, <1>8, <1>9 DEF CoreNext

\* The services of os_time.c and os_task.c keep the types.
LEMMA TaskControlType ==
  ASSUME NoChangePrio, IInv, UNCHANGED mutexVars,
         TaskControl \/ \E ticks \in 1 .. MaxDly : OSTimeDly(ticks)
  PROVE  TypeOK'
<1>1. /\ TypeOK /\ TcbTypeOK /\ SwitchTypeOK /\ NestTypeOK /\ TickTypeOK /\ FlowTypeOK
      /\ MutexTypeOK /\ OSRdy \subseteq Prio
  BY DEF IInv, TypeOK, MutexTypeOK
<1>2. ASSUME NEW ticks \in 1 .. MaxDly, OSTimeDly(ticks)
      PROVE  TypeOK'
  <2>1. UNCHANGED <<OSTCBPrioTbl, eventVars, switchVars, nestVars, tickVars>>
    BY <1>2 DEF OSTimeDly
  <2>2. OSTCBDly' \in [Task -> 0 .. MaxDly]
    <3>1. ticks \in 0 .. MaxDly
      BY CoreAssumption DEF CoreAssumption
    <3> QED BY <1>1, <1>2, <3>1 DEF OSTimeDly, TcbTypeOK
  <2>3. TcbTypeOK' /\ OSRdy' \subseteq Prio
    BY <1>1, <1>2, <2>2 DEF OSTimeDly, TcbTypeOK
  <2>4. FlowTypeOK'
    BY <1>1, <1>2, ReturnsType DEF OSTimeDly
  <2> QED BY <1>1, <2>1, <2>3, <2>4, FrameTypes, TypeGroups
<1>3. ASSUME NEW prio \in Prio, OSTimeDlyResume(prio)
      PROVE  TypeOK'
  <2>1. UNCHANGED <<OSTCBPrioTbl, eventVars, switchVars, nestVars, tickVars>>
    BY <1>3 DEF OSTimeDlyResume
  <2>2. TcbTypeOK' /\ OSRdy' \subseteq Prio
    BY <1>1, <1>3, DlyEndsType DEF OSTimeDlyResume, NamesTask
  <2>3. FlowTypeOK'
    BY <1>1, <1>3, ReturnsType DEF OSTimeDlyResume
  <2> QED BY <1>1, <2>1, <2>2, <2>3, FrameTypes, TypeGroups
<1>4. ASSUME NEW prio \in Prio, OSTaskSuspend(prio)
      PROVE  TypeOK'
  <2>1. UNCHANGED <<OSTCBPrioTbl, eventVars, switchVars, nestVars, tickVars>>
    BY <1>4 DEF OSTaskSuspend
  <2>2. TcbTypeOK' /\ OSRdy' \subseteq Prio
    BY <1>1, <1>4 DEF OSTaskSuspend, NamesTask, TcbTypeOK, OS_STAT
  <2>3. FlowTypeOK'
    BY <1>1, <1>4, ReturnsType DEF OSTaskSuspend
  <2> QED BY <1>1, <2>1, <2>2, <2>3, FrameTypes, TypeGroups
<1>5. ASSUME NEW prio \in Prio, OSTaskResume(prio)
      PROVE  TypeOK'
  <2>1. UNCHANGED <<OSTCBPrioTbl, eventVars, switchVars, nestVars, tickVars>>
    BY <1>5 DEF OSTaskResume
  <2>2. TcbTypeOK' /\ OSRdy' \subseteq Prio
    BY <1>1, <1>5 DEF OSTaskResume, NamesTask, TcbTypeOK
  <2>3. FlowTypeOK'
    BY <1>1, <1>5, ReturnsType DEF OSTaskResume
  <2> QED BY <1>1, <2>1, <2>2, <2>3, FrameTypes, TypeGroups
<1>6. ASSUME NEW old \in Prio, NEW new \in Prio, OSTaskChangePrio(old, new)
      PROVE  FALSE
  BY <1>1, <1>6 DEF OSTaskChangePrio, Call, TaskCall, IsrCall, NoChangePrio, SwitchTypeOK
<1> QED
  BY <1>2, <1>3, <1>4, <1>5, <1>6 DEF TaskControl

\* The mutex services keep the types.
LEMMA MutexNextType ==
  ASSUME IInv, MutexNext
  PROVE  TypeOK'
<1>1. /\ TypeOK /\ TcbTypeOK /\ SwitchTypeOK /\ NestTypeOK /\ TickTypeOK /\ FlowTypeOK
      /\ MutexTypeOK /\ OSRdy \subseteq Prio
      /\ \A t \in Task : OSTCBPrio[t] \in Prio
  BY DEF IInv, TypeOK, MutexTypeOK, TcbTypeOK
<1>2. ASSUME NEW e \in Event, OSMutex_Take(e) PROVE TypeOK'
  <2>1. UNCHANGED <<tcbVars, readyVars, switchVars, nestVars, tickVars, OSEventType,
                    OSEventWait, OSEventFreeList, OSMutexPCP>>
    BY <1>2 DEF OSMutex_Take
  <2>2. MutexTypeOK'
    BY <1>1, <1>2, <2>1 DEF OSMutex_Take, MutexTypeOK, SwitchTypeOK, readyVars
  <2>3. FlowTypeOK'
    BY <1>1, <1>2, ReturnsType DEF OSMutex_Take
  <2> QED BY <1>1, <2>1, <2>2, <2>3, FrameTypes, TypeGroups
<1>3. ASSUME NEW e \in Event, NEW timeout \in 0 .. MaxDly, OSMutexPend_Block(e, timeout)
      PROVE  TypeOK'
  <2> DEFINE t == OSTCBCur
             o == OSEventPtr[e]
             pcp == OSMutexPCP[e]
  <2>0. /\ t \in Task /\ IsMutex(e) /\ OSOwnerPrio[e] # OS_MUTEX_AVAILABLE
        /\ UNCHANGED <<OSEventType, OSEventPtr, OSEventFreeList, switchVars, nestVars,
                       tickVars, mutexVars>>
    BY <1>1, <1>3 DEF OSMutexPend_Block, MutexCall, IsMutex, SwitchTypeOK
  <2>1. o \in Task
    BY <2>0 DEF IInv, OwnerSound
  <2>2. OSTCBEventPtr[o] = Null
    BY <2>0, <2>1, OwnerFacts, CoreAssumption DEF CoreAssumption
  <2>3. Promotes(e) => pcp \in Prio
    BY <1>1 DEF Promotes, MutexTypeOK
  <2>4. /\ OSTCBPrio' \in [Task -> Prio] /\ OSRdy' \subseteq Prio
        /\ OSTCBPrioTbl' \in [Prio -> Task \cup {Null, OS_TCB_RESERVED}]
        /\ OSEventWait' \in [Event -> SUBSET Prio]
    <3>1. CASE Promotes(e)
      <4>1. /\ OSRdy' = PromotedRdy(o, pcp) \ {OSTCBPrio[t]}
            /\ OSEventWait' = [PromotedWait(o, pcp) EXCEPT ![e] = @ \cup {OSTCBPrio[t]}]
            /\ OSTCBPrio' = [OSTCBPrio EXCEPT ![o] = pcp]
            /\ OSTCBPrioTbl' = [OSTCBPrioTbl EXCEPT ![pcp] = o]
        BY <1>3, <3>1 DEF OSMutexPend_Block
      <4>2. PromotedWait(o, pcp) = OSEventWait
        BY <2>2 DEF PromotedWait, WaitListMoved
      <4>3. PromotedRdy(o, pcp) \subseteq Prio
        BY <1>1, <2>3, <3>1 DEF PromotedRdy
      <4> QED BY <1>1, <2>0, <2>1, <2>3, <3>1, <4>1, <4>2, <4>3 DEF TcbTypeOK, MutexTypeOK
    <3>2. CASE ~Promotes(e)
      <4>1. /\ OSRdy' = OSRdy \ {OSTCBPrio[t]}
            /\ OSEventWait' = [OSEventWait EXCEPT ![e] = @ \cup {OSTCBPrio[t]}]
            /\ UNCHANGED <<OSTCBPrio, OSTCBPrioTbl>>
        BY <1>3, <3>2 DEF OSMutexPend_Block
      <4> QED BY <1>1, <2>0, <4>1 DEF TcbTypeOK, MutexTypeOK
    <3> QED BY <3>1, <3>2
  <2>5. TcbTypeOK'
    BY <1>1, <1>3, <2>4 DEF OSMutexPend_Block, TcbTypeOK, OS_STAT, OS_STAT_PEND_ANY
  <2>6. MutexTypeOK'
    BY <1>1, <2>0, <2>4 DEF MutexTypeOK, mutexVars
  <2>7. FlowTypeOK'
    BY <1>1, <1>3, GoToType DEF OSMutexPend_Block, Places
  <2> QED BY <1>1, <2>0, <2>5, <2>6, <2>7, FrameTypes, TypeGroups
<1>4. CASE OSMutexPend_Tail
  <2>1. /\ OSPend_Tail
        /\ UNCHANGED <<readyVars, OSEventPtr, OSEventType, OSEventFreeList, switchVars,
                       nestVars, tickVars, mutexVars>>
    BY <1>4 DEF OSMutexPend_Tail, OSPend_Tail, SwitchUnchanged, readyVars
  <2>2. TcbTypeOK'
    BY <1>1, <2>1 DEF OSPend_Tail, TcbTypeOK
  <2>3. MutexTypeOK'
    BY <1>1, <2>1 DEF OSPend_Tail, OS_EventTaskRemove, MutexTypeOK, readyVars, mutexVars
  <2>4. FlowTypeOK'
    BY <1>1, <2>1, ReturnsType DEF OSPend_Tail
  <2> QED BY <1>1, <2>1, <2>2, <2>3, <2>4, FrameTypes, TypeGroups
<1>5. ASSUME NEW e \in Event, IsMutex(e), NEW restore \in BOOLEAN,
             NEW entry \in {Null, OS_TCB_RESERVED}, NEW T \in SUBSET Task,
             restore => OSEventPtr[e] # Null,
             OSTCBPrioTbl' = CeilingTbl(e, restore, entry),
             OSMutex_RdyAtPrio(e, restore, T), ReadyPrios(T) \subseteq Prio
      PROVE  /\ OSTCBPrioTbl' \in [Prio -> Task \cup {Null, OS_TCB_RESERVED}]
             /\ OSTCBPrio' \in [Task -> Prio]
             /\ OSRdy' \subseteq Prio
             /\ SwitchTypeOK'
  <2>1. restore => OSEventPtr[e] \in Task /\ OSOwnerPrio[e] \in Prio
    <3>1. restore => OSEventPtr[e] \in Task /\ OSOwnerPrio[e] = InitPrio[OSEventPtr[e]]
      BY <1>5, OwnerFacts
    <3> QED BY <3>1, CoreAssumption DEF CoreAssumption
  <2>2. OSTCBPrioTbl' \in [Prio -> Task \cup {Null, OS_TCB_RESERVED}]
    BY <1>1, <1>5, <2>1 DEF CeilingTbl, MutexTypeOK
  <2>3. OSTCBPrio' \in [Task -> Prio]
    BY <1>1, <1>5, <2>1 DEF OSMutex_RdyAtPrio, TcbTypeOK
  <2>4. OSRdy' \subseteq Prio
    BY <1>1, <1>5, <2>1 DEF OSMutex_RdyAtPrio
  <2>5. SwitchTypeOK'
    BY <1>1, <1>5, <2>1 DEF OSMutex_RdyAtPrio, SwitchTypeOK
  <2> QED BY <2>2, <2>3, <2>4, <2>5
<1>6. ASSUME NEW e \in Event, OSMutexPost(e) PROVE TypeOK'
  <2> DEFINE W == {p \in OSEventWait[e] : IsHighest(p, OSEventWait[e])}
             T == {OSTCBPrioTbl[p] : p \in W}
  <2>1. /\ IsMutex(e) /\ OSEventPtr[e] = OSTCBCur /\ OSTCBCur \in Task
        /\ OSTCBPrioTbl' = CeilingTbl(e, Raised(e), OS_TCB_RESERVED)
        /\ OSMutex_RdyAtPrio(e, Raised(e), T)
        /\ WaitEnds(e, T, "MUTEX", "OK")
        /\ Returns(W # {})
        /\ UNCHANGED <<OSEventType, OSEventFreeList, nestVars, tickVars, OSMutexPCP>>
    BY <1>1, <1>6 DEF OSMutexPost, MutexCall, IsMutex, MayPost, Owns, SwitchTypeOK
  <2>2. /\ T \in SUBSET Task /\ W \subseteq Prio /\ \A p \in W : OSTCBPrioTbl[p] \in Task
        /\ Raised(e) \in BOOLEAN /\ OSEventPtr[e] # Null
    BY <2>1, WaiterFacts, CoreAssumption DEF Raised, CoreAssumption
  <2>3. \/ \E p \in W : HandOver(e, p)
        \/ /\ OSOwnerPrio' = [OSOwnerPrio EXCEPT ![e] = OS_MUTEX_AVAILABLE]
           /\ OSEventPtr' = [OSEventPtr EXCEPT ![e] = Null]
    BY <1>6 DEF OSMutexPost
  <2> HIDE DEF W, T
  <2>4. /\ OSTCBDly' \in [Task -> 0 .. MaxDly]
        /\ OSTCBStat' \in [Task -> SUBSET OS_STAT]
        /\ OSTCBStatPend' \in [Task -> {"OK", "TO", "ABORT"}]
        /\ OSTCBEventPtr' \in [Task -> Event \cup {Null}]
        /\ OSEventWait' \in [Event -> SUBSET Prio]
        /\ ReadyPrios(T) \subseteq Prio
    BY <1>1, <2>1, <2>2, WaitEndsType
  <2>5. /\ OSTCBPrioTbl' \in [Prio -> Task \cup {Null, OS_TCB_RESERVED}]
        /\ OSTCBPrio' \in [Task -> Prio]
        /\ OSRdy' \subseteq Prio
        /\ SwitchTypeOK'
    BY <1>5, <2>1, <2>2, <2>4
  <2>6. /\ OSOwnerPrio' \in [Event -> Prio \cup {OS_MUTEX_AVAILABLE}]
        /\ OSEventPtr' \in [Event -> Event \cup Task \cup {Null}]
    BY <1>1, <2>2, <2>3 DEF HandOver, MutexTypeOK
  <2>7. FlowTypeOK'
    BY <1>1, <2>1, ReturnsType
  <2>8. MutexTypeOK' /\ TcbTypeOK'
    BY <1>1, <2>1, <2>4, <2>5, <2>6 DEF MutexTypeOK, TcbTypeOK
  <2> QED BY <1>1, <2>1, <2>5, <2>7, <2>8, FrameTypes, TypeGroups
<1>7. ASSUME NEW e \in Event, NEW always \in BOOLEAN, OSMutexDel(e, always) PROVE TypeOK'
  <2> DEFINE restore == always /\ OSEventPtr[e] # Null /\ Raised(e)
  <2>1. /\ IsMutex(e)
        /\ OSTCBPrioTbl' = CeilingTbl(e, restore, Null)
        /\ OSMutex_RdyAtPrio(e, restore, Waiters(e))
        /\ WaitEnds(e, Waiters(e), "MUTEX", "ABORT")
        /\ Returns(OSEventWait[e] # {})
        /\ UNCHANGED <<nestVars, tickVars>>
    BY <1>7 DEF OSMutexDel, MutexCall, IsMutex
  <2>2. /\ OSEventType' = [OSEventType EXCEPT ![e] = "UNUSED"]
        /\ OSEventPtr' = [OSEventPtr EXCEPT ![e] = OSEventFreeList]
        /\ OSEventFreeList' = e
        /\ OSMutexPCP' = [OSMutexPCP EXCEPT ![e] = 0]
        /\ OSOwnerPrio' = [OSOwnerPrio EXCEPT ![e] = 0]
    BY <1>7 DEF OSMutexDel
  <2>3. Waiters(e) \in SUBSET Task /\ restore \in BOOLEAN /\ (restore => OSEventPtr[e] # Null)
    BY WaiterFacts DEF Waiters, Raised
  <2> HIDE DEF restore
  <2>4. /\ OSTCBDly' \in [Task -> 0 .. MaxDly]
        /\ OSTCBStat' \in [Task -> SUBSET OS_STAT]
        /\ OSTCBStatPend' \in [Task -> {"OK", "TO", "ABORT"}]
        /\ OSTCBEventPtr' \in [Task -> Event \cup {Null}]
        /\ OSEventWait' \in [Event -> SUBSET Prio]
        /\ ReadyPrios(Waiters(e)) \subseteq Prio
    BY <1>1, <2>1, <2>3, WaitEndsType
  <2>5. /\ OSTCBPrioTbl' \in [Prio -> Task \cup {Null, OS_TCB_RESERVED}]
        /\ OSTCBPrio' \in [Task -> Prio]
        /\ OSRdy' \subseteq Prio
        /\ SwitchTypeOK'
    BY <1>5, <2>1, <2>3, <2>4
  <2>6. 0 \in Prio
    BY CoreAssumption DEF CoreAssumption, Prio
  <2>7. /\ OSEventType' \in [Event -> {"UNUSED", "MUTEX"}]
        /\ OSEventPtr' \in [Event -> Event \cup Task \cup {Null}]
        /\ OSEventFreeList' \in Event \cup {Null}
        /\ OSMutexPCP' \in [Event -> Prio \cup {OS_PRIO_MUTEX_CEIL_DIS}]
        /\ OSOwnerPrio' \in [Event -> Prio \cup {OS_MUTEX_AVAILABLE}]
    BY <1>1, <2>2, <2>6 DEF MutexTypeOK
  <2>8. FlowTypeOK'
    BY <1>1, <2>1, ReturnsType
  <2>9. MutexTypeOK' /\ TcbTypeOK'
    BY <2>4, <2>5, <2>7 DEF MutexTypeOK, TcbTypeOK
  <2> QED BY <1>1, <2>1, <2>5, <2>8, <2>9, FrameTypes, TypeGroups
<1>8. ASSUME NEW prio \in NewPCP, OSMutexCreate(prio) PROVE TypeOK'
  <2> DEFINE e == OSEventFreeList
  <2>1. /\ e \in Event
        /\ UNCHANGED <<tcbVars, OSRdy, switchVars, nestVars, tickVars>>
        /\ Returns(FALSE)
    BY <1>1, <1>8 DEF OSMutexCreate, MutexTypeOK
  <2>2. ~IsMutex(e)
    BY <2>1, CoreAssumption DEF IInv, FreeChain, CoreAssumption
  <2>3. prio \in Prio \cup {OS_PRIO_MUTEX_CEIL_DIS}
    BY MutexAssumption DEF MutexAssumption
  <2>4. OSEventPtr[e] \in Event \cup {Null}
    BY <1>1, <2>1, <2>2 DEF IInv, FreeChain
  <2>5. MutexTypeOK'
    BY <1>1, <1>8, <2>1, <2>3, <2>4 DEF OSMutexCreate, MutexTypeOK
  <2>6. FlowTypeOK'
    BY <1>1, <2>1, ReturnsType
  <2> QED BY <1>1, <2>1, <2>5, <2>6, FrameTypes, TypeGroups
<1> QED
  BY <1>2, <1>3, <1>4, <1>6, <1>7, <1>8 DEF MutexNext, OSMutexAccept, OSMutexPend_Take

\* Every step keeps the types.
LEMMA TypeStep ==
  ASSUME NoChangePrio, IInv, Next
  PROVE  TypeOK'
BY CoreNextType, TaskControlType, MutexNextType DEF Next

\* A tick starts with tasks to visit and ends with the last of them.
LEMMA TickStep ==
  ASSUME IInv, Next
  PROVE  TickSound'
<1>1. TickSound /\ OSIntNesting \in Nat
  BY CoreAssumption DEF IInv, TypeOK, NestTypeOK, CoreAssumption
<1>2. ASSUME OSTimeTick PROVE TickSound'
  BY <1>1, <1>2 DEF OSTimeTick, TickSound
<1>3. ASSUME OSTimeTick_Step PROVE TickSound'
  BY <1>1, <1>3 DEF OSTimeTick_Step, TickSound
<1>4. ASSUME UNCHANGED tickVars PROVE TickSound'
  BY <1>1, <1>4 DEF TickSound, tickVars
<1>5. CASE CoreNext /\ ~OSTimeTick /\ ~OSTimeTick_Step
  BY <1>4, <1>5
  DEF CoreNext, OS_Sched, PendSV_Handler, OSSchedLock, OSSchedUnlock, OSIntEnter, OSIntExit
<1>6. CASE TaskControl \/ \E ticks \in 1 .. MaxDly : OSTimeDly(ticks)
  BY <1>4, <1>6
  DEF TaskControl, OSTimeDly, OSTimeDlyResume, OSTaskSuspend, OSTaskResume, OSTaskChangePrio
<1>7. CASE MutexNext
  BY <1>4, <1>7
  DEF MutexNext, OSMutexAccept, OSMutexPend_Take, OSMutex_Take, OSMutexPend_Block,
      OSMutexPend_Tail, OSPend_Tail, OSMutexPost, OSMutexDel, OSMutexCreate, SwitchUnchanged
<1> QED BY <1>2, <1>3, <1>5, <1>6, <1>7 DEF Next

-----------------------------------------------------------------------------
(* What the mutex services do to priorities, wait lists and owners.        *)

\* Every set of natural numbers has a least element.
LEMMA Least ==
  ASSUME NEW S \in SUBSET Nat, S # {}
  PROVE  \E x \in S : \A y \in S : x <= y
<1>1. IsWellFoundedOn(OpToRel(<, Nat), Nat)
  BY NatLessThanWellFounded
<1>2. PICK x \in S : \A y \in S : ~ (<<y, x>> \in OpToRel(<, Nat))
  BY <1>1, WFMin, Zenon
<1>3. \A y \in S : ~ (y < x)
  BY <1>2 DEF OpToRel
<1> QED
  BY <1>3

\* Some waiter has the highest priority.
LEMMA HighestExists ==
  ASSUME NEW S \in SUBSET Prio, S # {}
  PROVE  \E p \in S : IsHighest(p, S)
<1>1. S \in SUBSET Nat
  BY CoreAssumption DEF CoreAssumption, Prio
<1> QED BY <1>1, Least DEF IsHighest

\* The running task takes a free mutex.
Taken(e) ==
  /\ IsMutex(e) /\ OSEventPtr[e] = Null
  /\ OSTCBCur \in Task /\ OSTCBEventPtr[OSTCBCur] = Null
  /\ OSTCBPrio[OSTCBCur] = InitPrio[OSTCBCur]
  /\ \A f \in Event : ~Owns(OSTCBCur, f)
  /\ OSOwnerPrio' = [OSOwnerPrio EXCEPT ![e] = InitPrio[OSTCBCur]]
  /\ OSEventPtr' = [OSEventPtr EXCEPT ![e] = OSTCBCur]
  /\ UNCHANGED <<tcbVars, readyVars, OSEventType, OSEventWait, OSEventFreeList, OSMutexPCP>>

LEMMA TakeEffect ==
  ASSUME IInv, Disciplined, NEW e \in Event, OSMutexAccept(e) \/ OSMutexPend_Take(e)
  PROVE  Taken(e)
<1>1. /\ \E service : TaskCall(service)
      /\ IsMutex(e) /\ OSMutex_Take(e) /\ MayPend
  BY DEF OSMutexAccept, OSMutexPend_Take, MutexCall, IsMutex, Disciplined
<1>2. OSTCBCur \in Task /\ OSTCBEventPtr[OSTCBCur] = Null
  BY <1>1, CallerFacts
<1>3. /\ \A f \in Event : ~Owns(OSTCBCur, f)
      /\ OSTCBPrio[OSTCBCur] = InitPrio[OSTCBCur]
  BY <1>1, <1>2, NoOwnerFacts DEF MayPend
<1>4. OSEventPtr[e] = Null
  <2>1. OSOwnerPrio[e] = OS_MUTEX_AVAILABLE
    BY <1>1 DEF OSMutex_Take
  <2>2. \A t \in Task : InitPrio[t] # OS_MUTEX_AVAILABLE
    BY CoreAssumption, MutexAssumption DEF CoreAssumption, MutexAssumption
  <2> QED BY <1>1, <2>1, <2>2 DEF IInv, OwnerSound
<1> QED BY <1>1, <1>2, <1>3, <1>4 DEF Taken, OSMutex_Take

\* The running task waits for the owner of e; raised says that it raises it.
Blocked(e, raised) ==
  /\ IsMutex(e) /\ OSTCBCur \in Task /\ OSTCBEventPtr[OSTCBCur] = Null
  /\ OSTCBPrio[OSTCBCur] = InitPrio[OSTCBCur]
  /\ \A f \in Event : ~Owns(OSTCBCur, f)
  /\ OSEventPtr[e] \in Task /\ OSEventPtr[e] # OSTCBCur
  /\ BelowCeiling(e)
  /\ OSTCBEventPtr' = [OSTCBEventPtr EXCEPT ![OSTCBCur] = e]
  /\ OSEventWait' = [OSEventWait EXCEPT ![e] = @ \cup {OSTCBPrio[OSTCBCur]}]
  /\ IF raised
       THEN /\ Promotes(e) /\ OSMutexPCP[e] \in Prio
            /\ OSRdy' = PromotedRdy(OSEventPtr[e], OSMutexPCP[e]) \ {OSTCBPrio[OSTCBCur]}
            /\ OSTCBPrio' = [OSTCBPrio EXCEPT ![OSEventPtr[e]] = OSMutexPCP[e]]
            /\ OSTCBPrioTbl' = [OSTCBPrioTbl EXCEPT ![OSMutexPCP[e]] = OSEventPtr[e]]
       ELSE /\ ~Promotes(e)
            /\ OSRdy' = OSRdy \ {OSTCBPrio[OSTCBCur]}
            /\ UNCHANGED <<OSTCBPrio, OSTCBPrioTbl>>
  /\ UNCHANGED <<OSEventType, OSEventPtr, OSEventFreeList, mutexVars>>

\* The owner waits for nothing, so that it is never looked for on a wait list.
LEMMA BlockEffect ==
  ASSUME IInv, Disciplined, NEW e \in Event, NEW timeout \in 0 .. MaxDly,
         OSMutexPend_Block(e, timeout)
  PROVE  \E raised \in BOOLEAN : Blocked(e, raised)
<1>1. /\ TaskCall("OSMutexPend") /\ IsMutex(e) /\ MayPend /\ BelowCeiling(e)
      /\ OSOwnerPrio[e] # OS_MUTEX_AVAILABLE
      /\ OSTCBEventPtr' = [OSTCBEventPtr EXCEPT ![OSTCBCur] = e]
      /\ UNCHANGED <<OSEventType, OSEventPtr, OSEventFreeList, mutexVars>>
  BY DEF OSMutexPend_Block, MutexCall, IsMutex, Disciplined
<1>2. OSTCBCur \in Task /\ OSTCBEventPtr[OSTCBCur] = Null
  BY <1>1, CallerFacts
<1>3. /\ \A f \in Event : ~Owns(OSTCBCur, f)
      /\ OSTCBPrio[OSTCBCur] = InitPrio[OSTCBCur]
  BY <1>1, <1>2, NoOwnerFacts DEF MayPend
<1>4. OSEventPtr[e] \in Task
  BY <1>1 DEF IInv, OwnerSound
<1>5. OSEventPtr[e] # OSTCBCur
  BY <1>1, <1>3 DEF Owns, IsMutex
<1>6. CASE Promotes(e)
  <2>1. OSMutexPCP[e] \in Prio
    BY <1>6 DEF Promotes, IInv, TypeOK
  <2>2. PromotedWait(OSEventPtr[e], OSMutexPCP[e]) = OSEventWait
    BY <1>1, <1>4, OwnerFacts, CoreAssumption
    DEF PromotedWait, WaitListMoved, CoreAssumption
  <2>3. Blocked(e, TRUE)
    BY <1>1, <1>2, <1>3, <1>4, <1>5, <1>6, <2>1, <2>2 DEF Blocked, OSMutexPend_Block
  <2> QED BY <2>3
<1>7. CASE ~Promotes(e)
  <2>1. Blocked(e, FALSE)
    BY <1>1, <1>2, <1>3, <1>4, <1>5, <1>7 DEF Blocked, OSMutexPend_Block
  <2> QED BY <2>1
<1> QED BY <1>6, <1>7

\* The owner of e is back at its own priority, the ceiling has another entry.
Lowered(e, entry) ==
  /\ OSTCBPrioTbl' = [p \in Prio |-> IF p = OSMutexPCP[e] THEN entry ELSE OSTCBPrioTbl[p]]
  /\ OSTCBPrio' = [t \in Task |-> IF Owns(t, e) THEN InitPrio[t] ELSE OSTCBPrio[t]]
  /\ \A t \in Task : OSTCBPrio'[t] # OSMutexPCP[e]

\* So it is when the code restores it exactly if it was raised.
LEMMA LowerEffect ==
  ASSUME IInv, NEW e \in Event, IsMutex(e), NEW restore \in BOOLEAN,
         NEW entry \in {Null, OS_TCB_RESERVED}, NEW T,
         restore <=> OwnerIsRaised(e),
         OSTCBPrioTbl' = CeilingTbl(e, restore, entry),
         OSMutex_RdyAtPrio(e, restore, T)
  PROVE  Lowered(e, entry)
<1> DEFINE o == OSEventPtr[e]
<1>1. /\ OSTCBPrio \in [Task -> Prio] /\ \A t \in Task : OSTCBPrioTbl[InitPrio[t]] = t
      /\ \A t \in Task : InitPrio[t] \in Prio
      /\ OS_PRIO_MUTEX_CEIL_DIS \notin Prio
      /\ OSMutexPCP[e] \in Prio \cup {OS_PRIO_MUTEX_CEIL_DIS}
  BY CoreAssumption, MutexAssumption
  DEF IInv, TypeOK, TcbTypeOK, PrioSound, CoreAssumption, MutexAssumption
<1>2. OSTCBPrioTbl' = [p \in Prio |-> IF p = OSMutexPCP[e] THEN entry ELSE OSTCBPrioTbl[p]]
  <2>1. restore => OSTCBPrioTbl[OSOwnerPrio[e]] = o
    <3>1. restore => o \in Task /\ OSOwnerPrio[e] = InitPrio[o]
      BY OwnerFacts, CoreAssumption DEF OwnerIsRaised, CoreAssumption
    <3> QED BY <1>1, <3>1
  <2> QED BY <2>1 DEF CeilingTbl
<1>3. \A t \in Task : ~Owns(t, e) => OSTCBPrio[t] # OSMutexPCP[e]
  BY <1>1, CeilingFacts
<1>4. \A t \in Task : InitPrio[t] # OSMutexPCP[e]
  BY <1>1, CeilingFacts
<1>5. OSTCBPrio' = [t \in Task |-> IF Owns(t, e) THEN InitPrio[t] ELSE OSTCBPrio[t]]
  <2>1. CASE restore
    <3>1. o \in Task /\ OSOwnerPrio[e] = InitPrio[o]
      BY <2>1, OwnerFacts, CoreAssumption DEF OwnerIsRaised, CoreAssumption
    <3>2. \A t \in Task : Owns(t, e) <=> t = o
      BY DEF Owns, IsMutex
    <3> QED BY <1>1, <2>1, <3>1, <3>2 DEF OSMutex_RdyAtPrio
  <2>2. CASE ~restore
    <3>1. \A t \in Task : Owns(t, e) => OSTCBPrio[t] = InitPrio[t]
      BY <2>2, OwnerFacts, CoreAssumption DEF OwnerIsRaised, Raised, Owns, CoreAssumption
    <3> QED BY <1>1, <2>2, <3>1 DEF OSMutex_RdyAtPrio
  <2> QED BY <2>1, <2>2
<1> QED BY <1>2, <1>3, <1>4, <1>5 DEF Lowered

\* The tasks with the priorities W stop waiting for e.
Ended(e, W) ==
  /\ OSEventWait' = [OSEventWait EXCEPT ![e] = @ \ W]
  /\ OSTCBEventPtr' = [t \in Task |-> IF OSTCBEventPtr[t] = e /\ OSTCBPrio[t] \in W
                                       THEN Null ELSE OSTCBEventPtr[t]]

LEMMA EndEffect ==
  ASSUME IInv, NEW e \in Event, NEW W \in SUBSET OSEventWait[e], NEW ps,
         WaitEnds(e, {OSTCBPrioTbl[p] : p \in W}, "MUTEX", ps)
  PROVE  /\ Ended(e, W)
         /\ \A t \in Task : t \in {OSTCBPrioTbl[p] : p \in W} <=>
                              OSTCBEventPtr[t] = e /\ OSTCBPrio[t] \in W
<1> DEFINE T == {OSTCBPrioTbl[p] : p \in W}
<1>1. \A p \in W : /\ OSTCBPrioTbl[p] \in Task /\ OSTCBPrio[OSTCBPrioTbl[p]] = p
                   /\ OSTCBEventPtr[OSTCBPrioTbl[p]] = e
  BY WaiterFacts
<1>2. {OSTCBPrio[t] : t \in T} = W
  BY <1>1
<1>3. \A t \in Task : t \in T <=> OSTCBEventPtr[t] = e /\ OSTCBPrio[t] \in W
  BY <1>1 DEF IInv, PrioSound
<1>4. OSEventWait' = [OSEventWait EXCEPT ![e] = @ \ W]
  BY <1>2 DEF WaitEnds
<1>5. OSTCBEventPtr' = [t \in Task |-> IF t \in T THEN Null ELSE OSTCBEventPtr[t]]
  BY DEF WaitEnds
<1> HIDE DEF T
<1>6. Ended(e, W)
  BY <1>3, <1>4, <1>5 DEF Ended
<1> QED BY <1>3, <1>6 DEF T

\* The owner gives e up; W is the priority of the next owner, or empty.
Posted(e, W) ==
  /\ IsMutex(e) /\ OSTCBCur \in Task /\ Owns(OSTCBCur, e)
  /\ W \in SUBSET OSEventWait[e]
  /\ Lowered(e, OS_TCB_RESERVED)
  /\ Ended(e, W)
  /\ \/ \E p \in W : W = {p} /\ IsHighest(p, OSEventWait[e]) /\ HandOver(e, p)
     \/ /\ W = {} /\ OSEventWait[e] = {}
        /\ OSOwnerPrio' = [OSOwnerPrio EXCEPT ![e] = OS_MUTEX_AVAILABLE]
        /\ OSEventPtr' = [OSEventPtr EXCEPT ![e] = Null]
  /\ UNCHANGED <<OSEventType, OSEventFreeList, OSMutexPCP>>

LEMMA PostEffect ==
  ASSUME IInv, NEW e \in Event, OSMutexPost(e)
  PROVE  Posted(e, {p \in OSEventWait[e] : IsHighest(p, OSEventWait[e])})
<1> DEFINE W == {p \in OSEventWait[e] : IsHighest(p, OSEventWait[e])}
           T == {OSTCBPrioTbl[p] : p \in W}
<1>1. /\ IsMutex(e) /\ Owns(OSTCBCur, e) /\ OSTCBCur \in Task
      /\ OSTCBPrioTbl' = CeilingTbl(e, Raised(e), OS_TCB_RESERVED)
      /\ OSMutex_RdyAtPrio(e, Raised(e), T)
      /\ WaitEnds(e, T, "MUTEX", "OK")
      /\ UNCHANGED <<OSEventType, OSEventFreeList, OSMutexPCP>>
  BY DEF OSMutexPost, MutexCall, IsMutex, MayPost, IInv, TypeOK, SwitchTypeOK
<1>2. \/ \E p \in W : HandOver(e, p)
      \/ /\ W = {}
         /\ OSOwnerPrio' = [OSOwnerPrio EXCEPT ![e] = OS_MUTEX_AVAILABLE]
         /\ OSEventPtr' = [OSEventPtr EXCEPT ![e] = Null]
  BY DEF OSMutexPost
<1>3. OSEventWait[e] \in SUBSET Prio
  BY DEF IInv, TypeOK
<1>4. W = {} => OSEventWait[e] = {}
  BY <1>3, HighestExists
<1>5. \A p, q \in W : p = q
  BY <1>3, CoreAssumption DEF IsHighest, Prio, CoreAssumption
<1>6. \A p \in W : W = {p} /\ IsHighest(p, OSEventWait[e])
  BY <1>5
<1>7. Lowered(e, OS_TCB_RESERVED)
  <2>1. Raised(e) \in BOOLEAN /\ (Raised(e) <=> OwnerIsRaised(e))
    BY <1>1 DEF Raised, OwnerIsRaised, Owns
  <2> QED BY <1>1, <2>1, LowerEffect
<1>8. Ended(e, W)
  BY <1>1, EndEffect
<1> QED BY <1>1, <1>2, <1>4, <1>6, <1>7, <1>8 DEF Posted

\* e is deleted and everybody who waits for it with it.
Deleted(e) ==
  /\ IsMutex(e)
  /\ Lowered(e, Null)
  /\ Ended(e, OSEventWait[e])
  /\ OSEventType' = [OSEventType EXCEPT ![e] = "UNUSED"]
  /\ OSEventPtr' = [OSEventPtr EXCEPT ![e] = OSEventFreeList]
  /\ OSEventFreeList' = e
  /\ OSMutexPCP' = [OSMutexPCP EXCEPT ![e] = 0]
  /\ OSOwnerPrio' = [OSOwnerPrio EXCEPT ![e] = 0]

LEMMA DelEffect ==
  ASSUME IInv, Disciplined, NEW e \in Event, NEW always \in BOOLEAN, OSMutexDel(e, always)
  PROVE  Deleted(e) /\ (OwnerIsRaised(e) => always /\ Owns(OSTCBCur, e))
<1> DEFINE restore == always /\ OSEventPtr[e] # Null /\ Raised(e)
<1>1. /\ IsMutex(e)
      /\ OSTCBPrioTbl' = CeilingTbl(e, restore, Null)
      /\ OSMutex_RdyAtPrio(e, restore, Waiters(e))
      /\ WaitEnds(e, Waiters(e), "MUTEX", "ABORT")
      /\ OSEventType' = [OSEventType EXCEPT ![e] = "UNUSED"]
      /\ OSEventPtr' = [OSEventPtr EXCEPT ![e] = OSEventFreeList]
      /\ OSEventFreeList' = e
      /\ OSMutexPCP' = [OSMutexPCP EXCEPT ![e] = 0]
      /\ OSOwnerPrio' = [OSOwnerPrio EXCEPT ![e] = 0]
  BY DEF OSMutexDel, MutexCall, IsMutex
<1>2. OwnerIsRaised(e) => always /\ Owns(OSTCBCur, e)
  BY DEF Disciplined
<1>3. restore \in BOOLEAN /\ (restore <=> OwnerIsRaised(e))
  BY <1>1, <1>2, OwnerFacts, CoreAssumption DEF OwnerIsRaised, Raised, CoreAssumption
<1> HIDE DEF restore
<1>4. Lowered(e, Null)
  BY <1>1, <1>3, LowerEffect
<1>5. Ended(e, OSEventWait[e])
  BY <1>1, EndEffect DEF Waiters
<1> QED BY <1>1, <1>2, <1>4, <1>5 DEF Deleted

\* A mutex is created in the first unused control block.
Created(e, prio) ==
  /\ e \in Event /\ e = OSEventFreeList /\ ~IsMutex(e)
  /\ OSEventPtr[e] \in Event \cup {Null}
  /\ prio \in Prio \cup {OS_PRIO_MUTEX_CEIL_DIS}
  /\ prio \in Prio => OSTCBPrioTbl[prio] = Null
  /\ OSTCBPrioTbl' = [p \in Prio |-> IF p = prio THEN OS_TCB_RESERVED ELSE OSTCBPrioTbl[p]]
  /\ OSEventFreeList' = OSEventPtr[e]
  /\ OSEventType' = [OSEventType EXCEPT ![e] = "MUTEX"]
  /\ OSMutexPCP' = [OSMutexPCP EXCEPT ![e] = prio]
  /\ OSOwnerPrio' = [OSOwnerPrio EXCEPT ![e] = OS_MUTEX_AVAILABLE]
  /\ OSEventPtr' = [OSEventPtr EXCEPT ![e] = Null]
  /\ OSEventWait' = [OSEventWait EXCEPT ![e] = {}]
  /\ UNCHANGED <<tcbVars, OSRdy>>

LEMMA CreateEffect ==
  ASSUME IInv, NEW prio \in NewPCP, OSMutexCreate(prio)
  PROVE  Created(OSEventFreeList, prio)
<1>1. OSEventFreeList \in Event
  BY DEF OSMutexCreate, IInv, TypeOK
<1>2. ~IsMutex(OSEventFreeList)
  BY <1>1, CoreAssumption DEF IInv, FreeChain, CoreAssumption
<1>3. OSEventPtr[OSEventFreeList] \in Event \cup {Null}
  BY <1>1, <1>2 DEF IInv, FreeChain
<1>4. /\ prio \in Prio \cup {OS_PRIO_MUTEX_CEIL_DIS}
      /\ prio \in Prio => OSTCBPrioTbl[prio] = Null
  BY MutexAssumption DEF MutexAssumption, OSMutexCreate, FreePrio
<1> QED BY <1>1, <1>2, <1>3, <1>4 DEF OSMutexCreate, Created

-----------------------------------------------------------------------------
(* Priorities and ceilings.                                                *)

\* A task that owns no other mutex than e when a step has changed only e.
OthersKept(e) ==
  \A f \in Event \ {e} :
    /\ OSEventType'[f] = OSEventType[f] /\ OSEventPtr'[f] = OSEventPtr[f]
    /\ OSMutexPCP'[f] = OSMutexPCP[f] /\ OSOwnerPrio'[f] = OSOwnerPrio[f]

\* The services change one event control block.
LEMMA OneEvent ==
  ASSUME IInv, NEW e \in Event
  PROVE  /\ Taken(e) => OthersKept(e)
         /\ \A W : Posted(e, W) => OthersKept(e)
         /\ Deleted(e) => OthersKept(e)
         /\ \A prio : Created(e, prio) => OthersKept(e)
<1>1. /\ DOMAIN OSEventType = Event /\ DOMAIN OSEventPtr = Event
      /\ DOMAIN OSMutexPCP = Event /\ DOMAIN OSOwnerPrio = Event
      /\ OSEventType = [f \in Event |-> OSEventType[f]]
      /\ OSEventPtr = [f \in Event |-> OSEventPtr[f]]
      /\ OSMutexPCP = [f \in Event |-> OSMutexPCP[f]]
      /\ OSOwnerPrio = [f \in Event |-> OSOwnerPrio[f]]
  BY DEF IInv, TypeOK
<1>2. Taken(e) => OthersKept(e)
  BY <1>1 DEF Taken, OthersKept
<1>3. ASSUME NEW W, Posted(e, W) PROVE OthersKept(e)
  BY <1>1, <1>3 DEF Posted, HandOver, OthersKept
<1>4. Deleted(e) => OthersKept(e)
  BY <1>1 DEF Deleted, OthersKept
<1>5. ASSUME NEW prio, Created(e, prio) PROVE OthersKept(e)
  BY <1>1, <1>5 DEF Created, OthersKept
<1> QED BY <1>2, <1>3, <1>4, <1>5

\* Lowering an owner keeps the priority table sound.
LEMMA LoweredPrio ==
  ASSUME IInv, NEW e \in Event, IsMutex(e), NEW entry \in {Null, OS_TCB_RESERVED},
         Lowered(e, entry), OthersKept(e)
  PROVE  PrioSound'
<1>1. /\ OSTCBPrioTbl' = [p \in Prio |-> IF p = OSMutexPCP[e] THEN entry ELSE OSTCBPrioTbl[p]]
      /\ OSTCBPrio' = [t \in Task |-> IF Owns(t, e) THEN InitPrio[t] ELSE OSTCBPrio[t]]
      /\ \A t \in Task : OSTCBPrio'[t] # OSMutexPCP[e]
  BY DEF Lowered
<1>2. /\ PrioSound /\ InitPrio \in [Task -> Prio] /\ OSTCBPrio \in [Task -> Prio]
      /\ entry \notin Task
      /\ OS_PRIO_MUTEX_CEIL_DIS \notin Prio
      /\ OSMutexPCP[e] \in Prio \cup {OS_PRIO_MUTEX_CEIL_DIS}
  BY CoreAssumption, MutexAssumption
  DEF IInv, TypeOK, TcbTypeOK, CoreAssumption, MutexAssumption
<1>3. \A t \in Task : InitPrio[t] # OSMutexPCP[e]
  BY <1>2, CeilingFacts
<1>4. \A t \in Task : OSTCBPrioTbl'[InitPrio[t]] = t
  BY <1>1, <1>2, <1>3 DEF PrioSound
<1>5. \A t \in Task : OSTCBPrioTbl'[OSTCBPrio'[t]] = t
  <2> TAKE t \in Task
  <2>1. OSTCBPrio'[t] \in Prio /\ OSTCBPrioTbl[OSTCBPrio'[t]] = t
    BY <1>1, <1>2 DEF PrioSound
  <2> QED BY <1>1, <2>1
<1>6. RaisedOnlyAsOwner'
  <2> SUFFICES ASSUME NEW t \in Task, OSTCBPrio'[t] # InitPrio[t]
               PROVE  \E f \in Event : Owns(t, f)' /\ OSTCBPrio'[t] = OSMutexPCP'[f]
    BY DEF RaisedOnlyAsOwner
  <2>1. ~Owns(t, e) /\ OSTCBPrio'[t] = OSTCBPrio[t]
    BY <1>1
  <2>2. PICK f \in Event : Owns(t, f) /\ OSTCBPrio[t] = OSMutexPCP[f]
    BY <1>2, <2>1 DEF PrioSound, RaisedOnlyAsOwner
  <2> QED BY <2>1, <2>2 DEF OthersKept, Owns
<1>7. \A p \in Prio : OSTCBPrioTbl'[p] \in Task =>
        InitPrio[OSTCBPrioTbl'[p]] = p \/ OSTCBPrio'[OSTCBPrioTbl'[p]] = p
  <2> SUFFICES ASSUME NEW p \in Prio, OSTCBPrioTbl'[p] \in Task
               PROVE  InitPrio[OSTCBPrioTbl'[p]] = p \/ OSTCBPrio'[OSTCBPrioTbl'[p]] = p
    OBVIOUS
  <2>1. p # OSMutexPCP[e] /\ OSTCBPrioTbl'[p] = OSTCBPrioTbl[p]
    BY <1>1, <1>2
  <2>2. InitPrio[OSTCBPrioTbl[p]] = p \/ OSTCBPrio[OSTCBPrioTbl[p]] = p
    BY <1>2, <2>1 DEF PrioSound
  <2>3. Owns(OSTCBPrioTbl[p], e) => OSTCBPrio[OSTCBPrioTbl[p]] \in {InitPrio[OSTCBPrioTbl[p]], OSMutexPCP[e]}
    BY <2>1, OwnerFacts, CoreAssumption DEF Owns, IsMutex, CoreAssumption
  <2> QED BY <1>1, <2>1, <2>2, <2>3
<1> QED BY <1>4, <1>5, <1>6, <1>7 DEF PrioSound

\* A step keeps the entries of the tasks, and raises owners only.
LEMMA PrioStep ==
  ASSUME NoChangePrio, IInv, Next, Disciplined
  PROVE  PrioSound'
<1>1. /\ PrioSound /\ InitPrio \in [Task -> Prio] /\ OSTCBPrio \in [Task -> Prio]
      /\ OSTCBPrioTbl \in [Prio -> Task \cup {Null, OS_TCB_RESERVED}]
      /\ OSEventPtr \in [Event -> Event \cup Task \cup {Null}]
      /\ Null \notin Task /\ OS_TCB_RESERVED \notin Task
  BY CoreAssumption, MutexAssumption
  DEF IInv, TypeOK, TcbTypeOK, CoreAssumption, MutexAssumption
<1>2. ASSUME UNCHANGED <<OSTCBPrio, OSTCBPrioTbl, OSEventType, OSEventPtr, OSMutexPCP>>
      PROVE  PrioSound'
  BY <1>1, <1>2 DEF PrioSound, RaisedOnlyAsOwner, Owns
<1>3. CASE ControlStep
  BY <1>2, <1>3 DEF ControlStep, eventVars, mutexVars
<1>4. ASSUME NEW e \in Event, OSMutexAccept(e) \/ OSMutexPend_Take(e) PROVE PrioSound'
  <2>1. Taken(e) /\ OthersKept(e)
    BY <1>4, TakeEffect, OneEvent
  <2>2. OSEventPtr[e] = Null /\ UNCHANGED <<OSTCBPrio, OSTCBPrioTbl>>
    BY <2>1 DEF Taken, tcbVars, readyVars
  <2>3. \A t \in Task, f \in Event : Owns(t, f) => Owns(t, f)' /\ OSMutexPCP'[f] = OSMutexPCP[f]
    BY <1>1, <2>1, <2>2 DEF OthersKept, Owns
  <2>4. RaisedOnlyAsOwner'
    BY <1>1, <2>2, <2>3 DEF PrioSound, RaisedOnlyAsOwner
  <2> QED BY <1>1, <2>2, <2>4 DEF PrioSound
<1>5. ASSUME NEW e \in Event, NEW timeout \in 0 .. MaxDly, OSMutexPend_Block(e, timeout)
      PROVE  PrioSound'
  <2>1. PICK raised \in BOOLEAN : Blocked(e, raised)
    BY <1>5, BlockEffect
  <2>2. CASE raised = FALSE
    BY <1>2, <2>1, <2>2 DEF Blocked, mutexVars
  <2>3. CASE raised = TRUE
    <3> DEFINE o == OSEventPtr[e]
               pcp == OSMutexPCP[e]
    <3>1. /\ o \in Task /\ pcp \in Prio /\ IsMutex(e)
          /\ OSTCBPrio' = [OSTCBPrio EXCEPT ![o] = pcp]
          /\ OSTCBPrioTbl' = [OSTCBPrioTbl EXCEPT ![pcp] = o]
          /\ UNCHANGED <<OSEventType, OSEventPtr, OSMutexPCP>>
      BY <2>1, <2>3 DEF Blocked, mutexVars
    <3>2. /\ \A t \in Task : InitPrio[t] # pcp
          /\ \A t \in Task : OSTCBPrio[t] = pcp => t = o
          /\ OSTCBPrio[o] \in {InitPrio[o], pcp}
      BY <3>1, CeilingFacts, OwnerFacts, CoreAssumption DEF Owns, IsMutex, CoreAssumption
    <3>3. \A t \in Task : OSTCBPrioTbl'[InitPrio[t]] = t
      BY <1>1, <3>1, <3>2 DEF PrioSound
    <3>4. \A t \in Task : OSTCBPrioTbl'[OSTCBPrio'[t]] = t
      BY <1>1, <3>1, <3>2 DEF PrioSound
    <3>5. RaisedOnlyAsOwner'
      <4>1. Owns(o, e)' /\ OSTCBPrio'[o] = OSMutexPCP'[e]
        BY <1>1, <3>1 DEF Owns, IsMutex
      <4> QED BY <1>1, <3>1, <4>1 DEF PrioSound, RaisedOnlyAsOwner, Owns
    <3>6. \A p \in Prio : OSTCBPrioTbl'[p] \in Task =>
            InitPrio[OSTCBPrioTbl'[p]] = p \/ OSTCBPrio'[OSTCBPrioTbl'[p]] = p
      BY <1>1, <3>1, <3>2 DEF PrioSound
    <3> QED BY <3>3, <3>4, <3>5, <3>6 DEF PrioSound
  <2> QED BY <2>2, <2>3
<1>6. CASE OSMutexPend_Tail
  BY <1>2, <1>6 DEF OSMutexPend_Tail, OSPend_Tail, SwitchUnchanged, mutexVars
<1>7. ASSUME NEW e \in Event, OSMutexPost(e) PROVE PrioSound'
  <2>1. PICK W : Posted(e, W)
    BY <1>7, PostEffect
  <2> QED BY <2>1, OneEvent, LoweredPrio DEF Posted
<1>8. ASSUME NEW e \in Event, NEW always \in BOOLEAN, OSMutexDel(e, always) PROVE PrioSound'
  <2>1. Deleted(e)
    BY <1>8, DelEffect
  <2> QED BY <2>1, OneEvent, LoweredPrio DEF Deleted
<1>9. ASSUME NEW prio \in NewPCP, OSMutexCreate(prio) PROVE PrioSound'
  <2> DEFINE e == OSEventFreeList
  <2>1. /\ e \in Event /\ ~IsMutex(e) /\ Created(e, prio)
    BY <1>9, CreateEffect DEF Created
  <2>2. OthersKept(e)
    BY <2>1, OneEvent
  <2>3. /\ OSTCBPrioTbl' = [p \in Prio |-> IF p = prio THEN OS_TCB_RESERVED ELSE OSTCBPrioTbl[p]]
        /\ prio \in Prio => OSTCBPrioTbl[prio] = Null
        /\ OSTCBPrio' = OSTCBPrio
    BY <2>1 DEF Created, tcbVars
  <2>4. RaisedOnlyAsOwner'
    <3>1. \A t \in Task, f \in Event : Owns(t, f) => Owns(t, f)' /\ OSMutexPCP'[f] = OSMutexPCP[f]
      BY <2>1, <2>2 DEF OthersKept, Owns, IsMutex
    <3> QED BY <1>1, <2>3, <3>1 DEF PrioSound, RaisedOnlyAsOwner
  <2>5. \A t \in Task : InitPrio[t] # prio /\ OSTCBPrio[t] # prio
    BY <1>1, <2>3 DEF PrioSound
  <2> QED BY <1>1, <2>3, <2>4, <2>5 DEF PrioSound
<1> QED
  BY <1>3, <1>4, <1>5, <1>6, <1>7, <1>8, <1>9, Kinds DEF MutexNext

\* A step keeps the ceilings: one mutex each, and no task.
LEMMA CeilingStep ==
  ASSUME NoChangePrio, IInv, Next, Disciplined
  PROVE  CeilingSound'
<1>1. /\ CeilingSound /\ OSTCBPrio \in [Task -> Prio] /\ InitPrio \in [Task -> Prio]
      /\ OSTCBPrioTbl \in [Prio -> Task \cup {Null, OS_TCB_RESERVED}]
      /\ OSEventPtr \in [Event -> Event \cup Task \cup {Null}]
      /\ OSEventType \in [Event -> {"UNUSED", "MUTEX"}]
      /\ OSMutexPCP \in [Event -> Prio \cup {OS_PRIO_MUTEX_CEIL_DIS}]
      /\ Null \notin Task /\ OS_TCB_RESERVED \notin Task /\ OS_TCB_RESERVED # Null
      /\ OS_PRIO_MUTEX_CEIL_DIS \notin Prio
  BY CoreAssumption, MutexAssumption
  DEF IInv, TypeOK, TcbTypeOK, CoreAssumption, MutexAssumption
<1>2. ASSUME UNCHANGED <<OSTCBPrio, OSTCBPrioTbl, OSEventType, OSEventPtr, OSMutexPCP>>
      PROVE  CeilingSound'
  BY <1>1, <1>2 DEF CeilingSound, ReservedIsCeiling, OwnerIsRaised, Raised, IsMutex
<1>3. CASE ControlStep
  BY <1>2, <1>3 DEF ControlStep, eventVars, mutexVars
<1>4. ASSUME NEW e \in Event, OSMutexAccept(e) \/ OSMutexPend_Take(e) PROVE CeilingSound'
  <2>1. Taken(e) /\ OthersKept(e)
    BY <1>4, TakeEffect, OneEvent
  <2>2. /\ OSEventPtr[e] = Null /\ IsMutex(e) /\ OSTCBCur \in Task
        /\ OSTCBPrio[OSTCBCur] = InitPrio[OSTCBCur]
        /\ OSEventPtr' = [OSEventPtr EXCEPT ![e] = OSTCBCur]
        /\ UNCHANGED <<OSTCBPrio, OSTCBPrioTbl, OSEventType, OSMutexPCP>>
    BY <2>1 DEF Taken, tcbVars, readyVars
  <2>3. \A f \in Event : IsMutex(f) /\ OSMutexPCP[f] \in Prio =>
          (OwnerIsRaised(f)' <=> OwnerIsRaised(f)) /\ (OwnerIsRaised(f) => OSEventPtr'[f] = OSEventPtr[f])
    <3> TAKE f \in Event
    <3>1. CASE f = e
      BY <1>1, <2>2, <3>1, CeilingFacts DEF OwnerIsRaised, Raised
    <3>2. CASE f # e
      BY <1>1, <2>2, <3>2 DEF OwnerIsRaised, Raised
    <3> QED BY <3>1, <3>2
  <2> QED BY <1>1, <2>2, <2>3 DEF CeilingSound, ReservedIsCeiling, IsMutex
<1>5. ASSUME NEW e \in Event, NEW timeout \in 0 .. MaxDly, OSMutexPend_Block(e, timeout)
      PROVE  CeilingSound'
  <2>1. PICK raised \in BOOLEAN : Blocked(e, raised)
    BY <1>5, BlockEffect
  <2>2. CASE raised = FALSE
    BY <1>2, <2>1, <2>2 DEF Blocked, mutexVars
  <2>3. CASE raised = TRUE
    <3> DEFINE o == OSEventPtr[e]
               pcp == OSMutexPCP[e]
    <3>1. /\ o \in Task /\ pcp \in Prio /\ IsMutex(e)
          /\ OSTCBPrio' = [OSTCBPrio EXCEPT ![o] = pcp]
          /\ OSTCBPrioTbl' = [OSTCBPrioTbl EXCEPT ![pcp] = o]
          /\ UNCHANGED <<OSEventType, OSEventPtr, OSMutexPCP>>
      BY <2>1, <2>3 DEF Blocked, mutexVars
    <3>2. \A f \in Event : IsMutex(f) /\ f # e => OSEventPtr[f] # o /\ OSMutexPCP[f] # pcp
      BY <3>1, CeilingFacts DEF IInv, OwnerSound, Owns, IsMutex
    <3>3. \A f \in Event : IsMutex(f) /\ f # e => (OwnerIsRaised(f)' <=> OwnerIsRaised(f))
      BY <1>1, <3>1, <3>2 DEF OwnerIsRaised, Raised
    <3>4. OwnerIsRaised(e)'
      BY <1>1, <3>1 DEF OwnerIsRaised, Raised
    <3> QED BY <1>1, <3>1, <3>2, <3>3, <3>4 DEF CeilingSound, ReservedIsCeiling, IsMutex
  <2> QED BY <2>2, <2>3
<1>6. CASE OSMutexPend_Tail
  BY <1>2, <1>6 DEF OSMutexPend_Tail, OSPend_Tail, SwitchUnchanged, mutexVars
<1>7. ASSUME NEW e \in Event, NEW entry, IsMutex(e), Lowered(e, entry), OthersKept(e)
      PROVE  \A f \in Event \ {e} : IsMutex(f) /\ OSMutexPCP[f] \in Prio =>
               /\ OSTCBPrioTbl'[OSMutexPCP'[f]] = OSTCBPrioTbl[OSMutexPCP[f]]
               /\ OwnerIsRaised(f)' <=> OwnerIsRaised(f)
  <2> TAKE f \in Event \ {e}
  <2> HAVE IsMutex(f) /\ OSMutexPCP[f] \in Prio
  <2>1. OSMutexPCP[f] # OSMutexPCP[e]
    BY CeilingFacts, <1>7
  <2>2. OSTCBPrioTbl'[OSMutexPCP'[f]] = OSTCBPrioTbl[OSMutexPCP[f]]
    BY <1>7, <2>1 DEF Lowered, OthersKept
  <2>3. OSEventPtr[f] \in Task => ~Owns(OSEventPtr[f], e)
    BY <1>7 DEF IInv, OwnerSound, Owns, IsMutex
  <2>4. OSEventPtr[f] \in Task => OSTCBPrio'[OSEventPtr[f]] = OSTCBPrio[OSEventPtr[f]]
    BY <1>7, <2>3 DEF Lowered
  <2> QED BY <1>7, <2>2, <2>4 DEF OwnerIsRaised, Raised, OthersKept
<1>8. ASSUME NEW e \in Event, OSMutexPost(e) PROVE CeilingSound'
  <2>1. PICK W : Posted(e, W)
    BY <1>8, PostEffect
  <2>2. /\ IsMutex(e) /\ Lowered(e, OS_TCB_RESERVED) /\ OthersKept(e)
        /\ UNCHANGED <<OSEventType, OSMutexPCP>>
    BY <2>1, OneEvent DEF Posted
  <2>3. /\ OSTCBPrioTbl' = [p \in Prio |->
             IF p = OSMutexPCP[e] THEN OS_TCB_RESERVED ELSE OSTCBPrioTbl[p]]
        /\ \A t \in Task : OSTCBPrio'[t] # OSMutexPCP[e]
    BY <2>2 DEF Lowered
  <2>4. ~OwnerIsRaised(e)'
    BY <2>2, <2>3 DEF OwnerIsRaised, Raised
  <2>5. \A f \in Event : IsMutex(f) /\ OSMutexPCP[f] \in Prio =>
          OSTCBPrioTbl'[OSMutexPCP[f]] = IF OwnerIsRaised(f)' THEN OSEventPtr'[f] ELSE OS_TCB_RESERVED
    BY <1>1, <1>7, <2>2, <2>3, <2>4 DEF CeilingSound, OthersKept
  <2>6. ReservedIsCeiling'
    BY <1>1, <2>2, <2>3 DEF CeilingSound, ReservedIsCeiling, IsMutex
  <2> QED BY <1>1, <2>2, <2>5, <2>6 DEF CeilingSound, IsMutex
<1>9. ASSUME NEW e \in Event, NEW always \in BOOLEAN, OSMutexDel(e, always) PROVE CeilingSound'
  <2>1. Deleted(e) /\ OthersKept(e)
    BY <1>9, DelEffect, OneEvent
  <2>2. /\ IsMutex(e) /\ Lowered(e, Null) /\ OSEventType' = [OSEventType EXCEPT ![e] = "UNUSED"]
        /\ OSTCBPrioTbl' = [p \in Prio |-> IF p = OSMutexPCP[e] THEN Null ELSE OSTCBPrioTbl[p]]
    BY <2>1 DEF Deleted, Lowered
  <2>3. ~IsMutex(e)' /\ \A f \in Event \ {e} : IsMutex(f)' <=> IsMutex(f)
    BY <1>1, <2>2 DEF IsMutex
  <2>4. \A f \in Event \ {e} : IsMutex(f) /\ OSMutexPCP[f] \in Prio =>
          OSTCBPrioTbl'[OSMutexPCP'[f]] = IF OwnerIsRaised(f)' THEN OSEventPtr'[f] ELSE OS_TCB_RESERVED
    BY <1>1, <1>7, <2>1, <2>2 DEF CeilingSound, OthersKept
  <2>5. ReservedIsCeiling'
    <3> SUFFICES ASSUME NEW p \in Prio, OSTCBPrioTbl'[p] = OS_TCB_RESERVED
                 PROVE  \E f \in Event : IsMutex(f)' /\ OSMutexPCP'[f] = p
      BY DEF ReservedIsCeiling, IsMutex
    <3>1. p # OSMutexPCP[e] /\ OSTCBPrioTbl[p] = OS_TCB_RESERVED
      BY <1>1, <2>2
    <3>2. PICK f \in Event : IsMutex(f) /\ OSMutexPCP[f] = p
      BY <1>1, <3>1 DEF CeilingSound, ReservedIsCeiling, IsMutex
    <3> QED BY <2>1, <2>3, <3>1, <3>2 DEF OthersKept
  <2>6. \A f \in Event \ {e} : OSMutexPCP'[f] = OSMutexPCP[f]
    BY <2>1 DEF OthersKept
  <2> QED BY <1>1, <2>3, <2>4, <2>5, <2>6 DEF CeilingSound
<1>10. ASSUME NEW prio \in NewPCP, OSMutexCreate(prio) PROVE CeilingSound'
  <2>1. PICK e \in Event : ~IsMutex(e) /\ Created(e, prio)
    BY <1>10, CreateEffect DEF Created
  <2>2. OthersKept(e)
    BY <2>1, OneEvent
  <2>3. /\ OSTCBPrioTbl' = [p \in Prio |-> IF p = prio THEN OS_TCB_RESERVED ELSE OSTCBPrioTbl[p]]
        /\ prio \in Prio => OSTCBPrioTbl[prio] = Null
        /\ OSTCBPrio' = OSTCBPrio
        /\ OSEventPtr'[e] = Null /\ OSMutexPCP'[e] = prio
        /\ IsMutex(e)'
    BY <1>1, <2>1 DEF Created, tcbVars, IsMutex
  <2>4. \A f \in Event \ {e} : /\ IsMutex(f)' <=> IsMutex(f)
                               /\ OSMutexPCP'[f] = OSMutexPCP[f]
                               /\ OSEventPtr'[f] = OSEventPtr[f]
    BY <2>2 DEF OthersKept, IsMutex
  <2>5. \A f \in Event : IsMutex(f) /\ OSMutexPCP[f] \in Prio => OSMutexPCP[f] # prio
    BY <1>1, <2>3 DEF CeilingSound, OwnerIsRaised
  <2>6. \A t \in Task : InitPrio[t] # prio
    BY <1>1, <2>3 DEF IInv, PrioSound
  <2>7. ASSUME NEW f \in Event, IsMutex(f)', OSMutexPCP'[f] \in Prio
        PROVE  /\ \A t \in Task : InitPrio[t] # OSMutexPCP'[f]
               /\ OSTCBPrioTbl'[OSMutexPCP'[f]] =
                    IF OwnerIsRaised(f)' THEN OSEventPtr'[f] ELSE OS_TCB_RESERVED
               /\ \A g \in Event : IsMutex(g)' /\ OSMutexPCP'[g] = OSMutexPCP'[f] => g = f
    <3>1. CASE f = e
      <4>1. ~OwnerIsRaised(f)'
        BY <1>1, <2>3, <3>1 DEF OwnerIsRaised
      <4> QED BY <2>3, <2>4, <2>5, <2>6, <2>7, <3>1, <4>1
    <3>2. CASE f # e
      <4>1. IsMutex(f) /\ OSMutexPCP[f] \in Prio /\ OSMutexPCP[f] # prio
        BY <2>4, <2>5, <2>7, <3>2
      <4>2. OwnerIsRaised(f)' <=> OwnerIsRaised(f)
        BY <2>3, <2>4, <3>2 DEF OwnerIsRaised, Raised
      <4> QED BY <1>1, <2>3, <2>4, <3>2, <4>1, <4>2 DEF CeilingSound
    <3> QED BY <3>1, <3>2
  <2>8. ReservedIsCeiling'
    BY <1>1, <2>1, <2>3, <2>4 DEF CeilingSound, ReservedIsCeiling, IsMutex
  <2> QED BY <2>7, <2>8 DEF CeilingSound
<1> QED
  BY <1>3, <1>4, <1>5, <1>6, <1>8, <1>9, <1>10, Kinds DEF MutexNext


\* A task comes back from OSMutexPend: it is taken off the list it is on.
Tailed ==
  /\ OSTCBCur \in Task
  /\ OSTCBEventPtr' = [OSTCBEventPtr EXCEPT ![OSTCBCur] = Null]
  /\ \A e \in Event : OSEventWait'[e] = IF OSTCBEventPtr[OSTCBCur] = e
                                          THEN OSEventWait[e] \ {OSTCBPrio[OSTCBCur]}
                                          ELSE OSEventWait[e]
  /\ UNCHANGED <<OSTCBPrio, readyVars, OSEventType, OSEventPtr, OSEventFreeList, mutexVars>>

\* OSTCBStatPend says so: a task that refers to a mutex here has timed out.
LEMMA TailEffect ==
  ASSUME IInv, OSMutexPend_Tail
  PROVE  Tailed
<1> DEFINE t == OSTCBCur
<1>1. /\ t \in Task /\ ~PendSV /\ pc[t] = "OSPend_Tail"
      /\ OSTCBEventPtr' = [OSTCBEventPtr EXCEPT ![t] = Null]
      /\ OSEventWait' = IF OSTCBStatPend[t] = "TO"
                          THEN [OSEventWait EXCEPT ![pevent[t]] = @ \ {OSTCBPrio[t]}]
                          ELSE OSEventWait
      /\ UNCHANGED <<OSTCBPrio, readyVars, OSEventType, OSEventPtr, OSEventFreeList, mutexVars>>
  BY DEF OSMutexPend_Tail, OSPend_Tail, OS_EventTaskRemove, InTask, Runs, SwitchUnchanged,
         readyVars, IInv, TypeOK, SwitchTypeOK
<1>2. OSTCBEventPtr[t] # Null => OSTCBStatPend[t] = "TO" /\ pevent[t] = OSTCBEventPtr[t]
  BY <1>1 DEF IInv, SwitchSound, PendSound, PendAt
<1>3. pevent[t] \in Event /\ OSEventWait \in [Event -> SUBSET Prio]
  BY <1>1 DEF IInv, PendSound, PendAt, PendPlaces, TypeOK
<1>4. \A e \in Event : OSTCBEventPtr[t] # e => OSTCBPrio[t] \notin OSEventWait[e]
  BY <1>1 DEF IInv, WaitSound, PrioSound
<1>5. ASSUME NEW e \in Event
      PROVE  OSEventWait'[e] = IF OSTCBEventPtr[t] = e THEN OSEventWait[e] \ {OSTCBPrio[t]}
                                                      ELSE OSEventWait[e]
  <2>1. CASE OSTCBEventPtr[t] = e
    <3>1. OSTCBEventPtr[t] # Null
      BY <2>1, CoreAssumption DEF CoreAssumption
    <3> QED BY <1>1, <1>2, <1>3, <2>1, <3>1
  <2>2. CASE OSTCBEventPtr[t] # e
    <3>1. OSEventWait[e] \ {OSTCBPrio[t]} = OSEventWait[e]
      BY <1>4, <2>2
    <3> QED BY <1>1, <1>3, <2>2, <3>1
  <2> QED BY <2>1, <2>2
<1> QED BY <1>1, <1>5 DEF Tailed

\* The steps, as the rest of the invariant sees them.
LEMMA Cases ==
  ASSUME NoChangePrio, IInv, Next, Disciplined
  PROVE  \/ ControlStep
         \/ \E e \in Event : Taken(e) /\ OthersKept(e)
         \/ \E e \in Event : \E raised \in BOOLEAN : Blocked(e, raised)
         \/ Tailed
         \/ \E e \in Event : \E W \in SUBSET OSEventWait[e] : Posted(e, W) /\ OthersKept(e)
         \/ \E e \in Event : Deleted(e) /\ OthersKept(e)
         \/ \E e \in Event : \E prio \in NewPCP : Created(e, prio) /\ OthersKept(e)
<1>1. ASSUME NEW e \in Event, OSMutexAccept(e) \/ OSMutexPend_Take(e)
      PROVE  Taken(e) /\ OthersKept(e)
  BY <1>1, TakeEffect, OneEvent
<1>2. ASSUME NEW e \in Event, NEW timeout \in 0 .. MaxDly, OSMutexPend_Block(e, timeout)
      PROVE  \E raised \in BOOLEAN : Blocked(e, raised)
  BY <1>2, BlockEffect
<1>3. OSMutexPend_Tail => Tailed
  BY TailEffect
<1>4. ASSUME NEW e \in Event, OSMutexPost(e)
      PROVE  \E W \in SUBSET OSEventWait[e] : Posted(e, W) /\ OthersKept(e)
  <2>1. PICK W \in SUBSET OSEventWait[e] : Posted(e, W)
    BY <1>4, PostEffect
  <2> QED BY <2>1, OneEvent
<1>5. ASSUME NEW e \in Event, NEW always \in BOOLEAN, OSMutexDel(e, always)
      PROVE  Deleted(e) /\ OthersKept(e)
  BY <1>5, DelEffect, OneEvent
<1>6. ASSUME NEW prio \in NewPCP, OSMutexCreate(prio)
      PROVE  \E e \in Event : Created(e, prio) /\ OthersKept(e)
  <2>1. OSEventFreeList \in Event /\ Created(OSEventFreeList, prio)
    BY <1>6, CreateEffect DEF Created
  <2> QED BY <2>1, OneEvent
<1> QED BY <1>1, <1>2, <1>3, <1>4, <1>5, <1>6, Kinds DEF MutexNext

-----------------------------------------------------------------------------
(* Owners and unused control blocks.                                       *)

\* A step keeps what is known of the mutex f that it leaves alone.
LEMMA OtherOwners ==
  ASSUME IInv, NEW e \in Event, OthersKept(e),
         \A t \in Task : OSTCBEventPtr[t] = Null => OSTCBEventPtr'[t] = Null
  PROVE  \A f \in Event \ {e} : IsMutex(f)' =>
           \/ OSEventPtr'[f] = Null /\ OSOwnerPrio'[f] = OS_MUTEX_AVAILABLE
           \/ /\ OSEventPtr'[f] \in Task
              /\ OSOwnerPrio'[f] = InitPrio[OSEventPtr'[f]]
              /\ OSTCBEventPtr'[OSEventPtr'[f]] = Null
BY DEF IInv, OwnerSound, OthersKept, IsMutex

\* Owners stay owners of one mutex, and wait for nothing.
LEMMA OwnerStep ==
  ASSUME NoChangePrio, IInv, Next, Disciplined
  PROVE  OwnerSound'
<1>1. /\ OwnerSound
      /\ OSTCBEventPtr \in [Task -> Event \cup {Null}]
      /\ OSEventType \in [Event -> {"UNUSED", "MUTEX"}]
      /\ OSEventPtr \in [Event -> Event \cup Task \cup {Null}]
      /\ OSOwnerPrio \in [Event -> Prio \cup {OS_MUTEX_AVAILABLE}]
      /\ Null \notin Task /\ Null \notin Event
  BY CoreAssumption DEF IInv, TypeOK, TcbTypeOK, CoreAssumption
<1>2. CASE ControlStep
  BY <1>1, <1>2 DEF ControlStep, eventVars, mutexVars, OwnerSound, Owns, IsMutex
<1>3. ASSUME NEW e \in Event, Taken(e), OthersKept(e) PROVE OwnerSound'
  <2>1. /\ UNCHANGED OSTCBEventPtr /\ UNCHANGED OSEventType
        /\ OSEventPtr'[e] = OSTCBCur /\ OSTCBCur \in Task
        /\ OSOwnerPrio'[e] = InitPrio[OSTCBCur]
        /\ OSTCBEventPtr[OSTCBCur] = Null
        /\ \A f \in Event : ~Owns(OSTCBCur, f)
    BY <1>1, <1>3 DEF Taken, tcbVars
  <2>2. \A t \in Task : \A f \in Event \ {e} : Owns(t, f)' <=> Owns(t, f)
    BY <1>3 DEF OthersKept, Owns
  <2>3. \A t \in Task : Owns(t, e)' => t = OSTCBCur
    BY <2>1 DEF Owns
  <2>4. \A t \in Task : \A f, g \in Event : Owns(t, f)' /\ Owns(t, g)' => f = g
    BY <1>1, <2>1, <2>2, <2>3 DEF OwnerSound
  <2>5. \A f \in Event \ {e} : IsMutex(f)' =>
           \/ OSEventPtr'[f] = Null /\ OSOwnerPrio'[f] = OS_MUTEX_AVAILABLE
           \/ /\ OSEventPtr'[f] \in Task
              /\ OSOwnerPrio'[f] = InitPrio[OSEventPtr'[f]]
              /\ OSTCBEventPtr'[OSEventPtr'[f]] = Null
    BY <1>3, <2>1, OtherOwners
  <2> QED BY <2>1, <2>4, <2>5 DEF OwnerSound
<1>4. ASSUME NEW e \in Event, NEW raised \in BOOLEAN, Blocked(e, raised) PROVE OwnerSound'
  <2>1. /\ \A f \in Event : ~Owns(OSTCBCur, f)
        /\ OSTCBEventPtr' = [OSTCBEventPtr EXCEPT ![OSTCBCur] = e]
        /\ UNCHANGED <<OSEventType, OSEventPtr, OSOwnerPrio>>
    BY <1>4 DEF Blocked, mutexVars
  <2> QED BY <1>1, <2>1 DEF OwnerSound, Owns, IsMutex
<1>5. CASE Tailed
  BY <1>1, <1>5 DEF Tailed, mutexVars, OwnerSound, Owns, IsMutex
<1>6. ASSUME NEW e \in Event, NEW W \in SUBSET OSEventWait[e], Posted(e, W), OthersKept(e)
      PROVE  OwnerSound'
  <2>1. /\ IsMutex(e) /\ Ended(e, W) /\ UNCHANGED OSEventType
        /\ \/ \E p \in W : HandOver(e, p)
           \/ /\ OSOwnerPrio'[e] = OS_MUTEX_AVAILABLE
              /\ OSEventPtr'[e] = Null
    BY <1>1, <1>6 DEF Posted
  <2>2. \A t \in Task : OSTCBEventPtr'[t] \in {Null, OSTCBEventPtr[t]}
    BY <2>1 DEF Ended
  <2>3. \/ /\ OSEventPtr'[e] = Null /\ OSOwnerPrio'[e] = OS_MUTEX_AVAILABLE
        \/ /\ OSEventPtr'[e] \in Task
           /\ OSOwnerPrio'[e] = InitPrio[OSEventPtr'[e]]
           /\ OSTCBEventPtr'[OSEventPtr'[e]] = Null
           /\ \A f \in Event : ~Owns(OSEventPtr'[e], f)
    <3> SUFFICES ASSUME NEW p \in W, HandOver(e, p)
                 PROVE  /\ OSEventPtr'[e] \in Task
                        /\ OSOwnerPrio'[e] = InitPrio[OSEventPtr'[e]]
                        /\ OSTCBEventPtr'[OSEventPtr'[e]] = Null
                        /\ \A f \in Event : ~Owns(OSEventPtr'[e], f)
      BY <2>1
    <3>1. OSEventPtr'[e] = OSTCBPrioTbl[p] /\ OSOwnerPrio'[e] = p
      BY <1>1 DEF HandOver
    <3> QED BY <2>1, <3>1, WaiterFacts DEF Ended
  <2>4. \A t \in Task : \A f \in Event \ {e} : Owns(t, f)' <=> Owns(t, f)
    BY <1>6 DEF OthersKept, Owns
  <2>5. \A t \in Task : \A f, g \in Event : Owns(t, f)' /\ Owns(t, g)' => f = g
    <3>1. \A t \in Task : \A f \in Event \ {e} : ~(Owns(t, e)' /\ Owns(t, f)')
      BY <1>1, <2>3, <2>4 DEF Owns
    <3> QED BY <1>1, <2>4, <3>1 DEF OwnerSound
  <2> QED BY <1>6, <2>2, <2>3, <2>5, OtherOwners DEF OwnerSound
<1>7. ASSUME NEW e \in Event, Deleted(e), OthersKept(e) PROVE OwnerSound'
  <2>1. ~IsMutex(e)' /\ Ended(e, OSEventWait[e])
    BY <1>1, <1>7 DEF Deleted, IsMutex
  <2>2. \A t \in Task : OSTCBEventPtr'[t] \in {Null, OSTCBEventPtr[t]}
    BY <2>1 DEF Ended
  <2>3. \A t \in Task : \A f, g \in Event : Owns(t, f)' /\ Owns(t, g)' => f = g
    BY <1>1, <1>7, <2>1 DEF OwnerSound, OthersKept, Owns, IsMutex
  <2> QED BY <1>7, <2>1, <2>2, <2>3, OtherOwners DEF OwnerSound
<1>8. ASSUME NEW e \in Event, NEW prio \in NewPCP, Created(e, prio), OthersKept(e)
      PROVE  OwnerSound'
  <2>1. /\ OSEventPtr'[e] = Null /\ OSOwnerPrio'[e] = OS_MUTEX_AVAILABLE
        /\ UNCHANGED OSTCBEventPtr
    BY <1>1, <1>8 DEF Created, tcbVars
  <2>2. \A t \in Task : \A f, g \in Event : Owns(t, f)' /\ Owns(t, g)' => f = g
    BY <1>1, <1>8, <2>1 DEF OwnerSound, OthersKept, Owns
  <2> QED BY <1>8, <2>1, <2>2, OtherOwners DEF OwnerSound
<1> QED BY <1>2, <1>3, <1>4, <1>5, <1>6, <1>7, <1>8, Cases

\* The chain of unused control blocks stays one, at both ends of which mutexes
\* come and go.
LEMMA FreeChainStep ==
  ASSUME NoChangePrio, IInv, Next, Disciplined
  PROVE  FreeChain'
<1>1. /\ FreeChain
      /\ OSEventFreeList \in Event \cup {Null}
      /\ OSEventType \in [Event -> {"UNUSED", "MUTEX"}]
      /\ OSEventPtr \in [Event -> Event \cup Task \cup {Null}]
      /\ Null \notin Event
  BY CoreAssumption DEF IInv, TypeOK, CoreAssumption
<1>2. CASE ControlStep \/ Tailed \/ \E e \in Event : \E raised \in BOOLEAN : Blocked(e, raised)
  <2>1. UNCHANGED <<OSEventType, OSEventPtr, OSEventFreeList>>
    BY <1>2 DEF ControlStep, eventVars, Tailed, Blocked
  <2> QED BY <1>1, <2>1 DEF FreeChain, IsMutex
<1>3. ASSUME NEW e \in Event, IsMutex(e), OthersKept(e), UNCHANGED <<OSEventType, OSEventFreeList>>
      PROVE  FreeChain'
  BY <1>1, <1>3 DEF FreeChain, OthersKept, IsMutex
<1>4. ASSUME NEW e \in Event, Deleted(e), OthersKept(e) PROVE FreeChain'
  <2>1. /\ IsMutex(e) /\ ~IsMutex(e)' /\ OSEventFreeList' = e /\ OSEventPtr'[e] = OSEventFreeList
        /\ \A f \in Event \ {e} : (IsMutex(f)' <=> IsMutex(f)) /\ OSEventPtr'[f] = OSEventPtr[f]
    BY <1>1, <1>4 DEF Deleted, OthersKept, IsMutex
  <2>2. \A f \in Event : ~IsMutex(f)' /\ OSEventPtr'[f] # Null =>
          /\ OSEventPtr'[f] \in Event
          /\ OSEventPtr'[f] # e
          /\ ~IsMutex(OSEventPtr'[f])
    BY <1>1, <2>1 DEF FreeChain
  <2>3. \A f \in Event : ~IsMutex(f)' /\ OSEventPtr'[f] # Null =>
          \A g \in Event : g = OSEventPtr'[f] => ~IsMutex(g)'
    BY <2>1, <2>2
  <2>4. \A f, g \in Event :
          ~IsMutex(f)' /\ ~IsMutex(g)' /\ OSEventPtr'[f] # Null /\ OSEventPtr'[f] = OSEventPtr'[g]
            => f = g
    BY <1>1, <2>1 DEF FreeChain
  <2> QED BY <2>1, <2>2, <2>3, <2>4 DEF FreeChain, IsMutex
<1>5. ASSUME NEW e \in Event, NEW prio \in NewPCP, Created(e, prio), OthersKept(e)
      PROVE  FreeChain'
  <2>1. /\ ~IsMutex(e) /\ IsMutex(e)' /\ OSEventFreeList = e /\ OSEventFreeList' = OSEventPtr[e]
        /\ OSEventPtr[e] \in Event \cup {Null}
        /\ \A f \in Event \ {e} : (IsMutex(f)' <=> IsMutex(f)) /\ OSEventPtr'[f] = OSEventPtr[f]
    BY <1>1, <1>5 DEF Created, OthersKept, IsMutex
  <2>2. OSEventFreeList' # Null =>
          \A g \in Event : g = OSEventFreeList' => ~IsMutex(g)'
    BY <1>1, <2>1 DEF FreeChain
  <2>3. \A f \in Event : ~IsMutex(f)' /\ OSEventPtr'[f] # Null =>
          /\ OSEventPtr'[f] \in Event
          /\ OSEventPtr'[f] # OSEventFreeList'
          /\ \A g \in Event : g = OSEventPtr'[f] => ~IsMutex(g)'
    BY <1>1, <2>1 DEF FreeChain
  <2>4. \A f, g \in Event :
          ~IsMutex(f)' /\ ~IsMutex(g)' /\ OSEventPtr'[f] # Null /\ OSEventPtr'[f] = OSEventPtr'[g]
            => f = g
    BY <1>1, <2>1 DEF FreeChain
  <2> QED BY <2>1, <2>2, <2>3, <2>4 DEF FreeChain, IsMutex
<1>6. ASSUME NEW e \in Event, Taken(e), OthersKept(e) PROVE FreeChain'
  BY <1>3, <1>6 DEF Taken
<1>7. ASSUME NEW e \in Event, NEW W \in SUBSET OSEventWait[e], Posted(e, W), OthersKept(e)
      PROVE  FreeChain'
  BY <1>3, <1>7 DEF Posted
<1> QED BY <1>2, <1>4, <1>5, <1>6, <1>7, Cases

-----------------------------------------------------------------------------
(* Waiters.                                                                *)

\* A free mutex has no waiter, nor has an unused control block.
LEMMA NoWaiters ==
  ASSUME IInv, NEW e \in Event, ~IsMutex(e) \/ OSEventPtr[e] = Null
  PROVE  OSEventWait[e] = {} /\ \A t \in Task : OSTCBEventPtr[t] # e
BY CoreAssumption DEF IInv, WaitSound, CoreAssumption

\* The entry and the priority of a waiter stay as they are when an owner is
\* lowered.
LEMMA LoweredWaiters ==
  ASSUME IInv, NEW e \in Event, IsMutex(e), NEW entry, Lowered(e, entry)
  PROVE  /\ \A t \in Task : OSTCBEventPtr[t] # Null => OSTCBPrio'[t] = OSTCBPrio[t]
         /\ \A f \in Event : \A p \in OSEventWait[f] :
              /\ OSTCBPrioTbl'[p] = OSTCBPrioTbl[p]
              /\ OSTCBPrio'[OSTCBPrioTbl[p]] = p
<1>1. \A t \in Task : OSTCBEventPtr[t] # Null => OSTCBPrio'[t] = OSTCBPrio[t]
  BY OwnerFacts, CoreAssumption DEF Lowered, Owns, IsMutex, CoreAssumption
<1>2. ASSUME NEW f \in Event, NEW p \in OSEventWait[f]
      PROVE  OSTCBPrioTbl'[p] = OSTCBPrioTbl[p] /\ OSTCBPrio'[OSTCBPrioTbl[p]] = p
  <2>1. /\ p \in Prio /\ OSTCBPrioTbl[p] \in Task /\ OSTCBPrio[OSTCBPrioTbl[p]] = p
        /\ OSTCBEventPtr[OSTCBPrioTbl[p]] = f
        /\ \A g \in Event : ~Owns(OSTCBPrioTbl[p], g)
    BY WaiterFacts
  <2>2. OSTCBPrio'[OSTCBPrioTbl[p]] = p
    BY <1>1, <2>1, CoreAssumption DEF CoreAssumption
  <2>3. p # OSMutexPCP[e]
    BY <2>1, <2>2 DEF Lowered
  <2> QED BY <2>1, <2>2, <2>3 DEF Lowered
<1> QED BY <1>1, <1>2

\* When the tasks with the priorities W stop waiting for e, the others go on.
LEMMA EndedWaiters ==
  ASSUME IInv, NEW e \in Event, IsMutex(e), NEW entry, Lowered(e, entry),
         NEW W \in SUBSET OSEventWait[e], Ended(e, W), OthersKept(e),
         OSEventWait[e] # W => IsMutex(e)' /\ OSEventPtr'[e] \in Task
  PROVE  WaitSound'
<1>1. /\ OSEventWait' = [OSEventWait EXCEPT ![e] = @ \ W]
      /\ OSTCBEventPtr' = [t \in Task |-> IF OSTCBEventPtr[t] = e /\ OSTCBPrio[t] \in W
                                           THEN Null ELSE OSTCBEventPtr[t]]
      /\ OSEventWait \in [Event -> SUBSET Prio]
      /\ OSTCBEventPtr \in [Task -> Event \cup {Null}]
      /\ WaitSound
  BY DEF Ended, IInv, TypeOK, TcbTypeOK
<1>2. ASSUME NEW t \in Task, OSTCBEventPtr'[t] # Null
      PROVE  OSTCBPrio'[t] \in OSEventWait'[OSTCBEventPtr'[t]]
  <2>1. /\ OSTCBEventPtr'[t] = OSTCBEventPtr[t] /\ OSTCBEventPtr[t] \in Event
        /\ OSTCBEventPtr[t] = e => OSTCBPrio[t] \notin W
    BY <1>1, <1>2
  <2>2. OSTCBPrio'[t] = OSTCBPrio[t] /\ OSTCBPrio[t] \in OSEventWait[OSTCBEventPtr[t]]
    BY <1>1, <1>2, <2>1, LoweredWaiters DEF WaitSound
  <2> QED BY <1>1, <2>1, <2>2
<1>3. ASSUME NEW f \in Event, NEW p \in OSEventWait'[f]
      PROVE  /\ IsMutex(f)' /\ OSEventPtr'[f] \in Task
             /\ OSTCBPrioTbl'[p] \in Task
             /\ OSTCBPrio'[OSTCBPrioTbl'[p]] = p
             /\ OSTCBEventPtr'[OSTCBPrioTbl'[p]] = f
  <2>1. p \in OSEventWait[f] /\ (f = e => p \notin W)
    BY <1>1, <1>3
  <2>2. /\ IsMutex(f) /\ OSEventPtr[f] \in Task /\ OSTCBPrioTbl[p] \in Task
        /\ OSTCBPrio[OSTCBPrioTbl[p]] = p /\ OSTCBEventPtr[OSTCBPrioTbl[p]] = f
    BY <2>1, WaiterFacts
  <2>3. OSTCBPrioTbl'[p] = OSTCBPrioTbl[p] /\ OSTCBPrio'[OSTCBPrioTbl[p]] = p
    BY <2>1, LoweredWaiters
  <2>4. IsMutex(f)' /\ OSEventPtr'[f] \in Task
    BY <2>1, <2>2 DEF OthersKept, IsMutex
  <2>5. OSTCBEventPtr'[OSTCBPrioTbl[p]] = f
    BY <1>1, <2>1, <2>2
  <2> QED BY <2>2, <2>3, <2>4, <2>5
<1> QED BY <1>2, <1>3 DEF WaitSound

\* A step keeps wait lists and control blocks in agreement.
LEMMA WaitStep ==
  ASSUME NoChangePrio, IInv, Next, Disciplined
  PROVE  WaitSound'
<1>1. /\ WaitSound
      /\ OSEventWait \in [Event -> SUBSET Prio]
      /\ OSTCBEventPtr \in [Task -> Event \cup {Null}]
      /\ OSTCBPrio \in [Task -> Prio]
      /\ OSTCBPrioTbl \in [Prio -> Task \cup {Null, OS_TCB_RESERVED}]
      /\ OSEventType \in [Event -> {"UNUSED", "MUTEX"}]
      /\ OSEventPtr \in [Event -> Event \cup Task \cup {Null}]
      /\ Null \notin Task /\ Null \notin Event
      /\ \A t \in Task : OSTCBPrioTbl[OSTCBPrio[t]] = t
  BY CoreAssumption DEF IInv, TypeOK, TcbTypeOK, PrioSound, CoreAssumption
<1>2. CASE ControlStep
  BY <1>1, <1>2 DEF ControlStep, eventVars, mutexVars, WaitSound, IsMutex
<1>3. ASSUME NEW e \in Event, Taken(e), OthersKept(e) PROVE WaitSound'
  <2>1. /\ OSEventPtr'[e] = OSTCBCur /\ OSTCBCur \in Task
        /\ UNCHANGED <<OSTCBPrio, OSTCBEventPtr, OSTCBPrioTbl, OSEventType, OSEventWait>>
    BY <1>1, <1>3 DEF Taken, tcbVars, readyVars
  <2>2. \A f \in Event : OSEventPtr[f] \in Task => OSEventPtr'[f] \in Task
    BY <1>3, <2>1 DEF OthersKept
  <2> QED BY <1>1, <2>1, <2>2 DEF WaitSound, IsMutex
<1>4. ASSUME NEW e \in Event, NEW raised \in BOOLEAN, Blocked(e, raised) PROVE WaitSound'
  <2> DEFINE c == OSTCBCur
             o == OSEventPtr[e]
  <2>1. /\ IsMutex(e) /\ c \in Task /\ OSTCBEventPtr[c] = Null
        /\ o \in Task /\ o # c
        /\ OSTCBEventPtr' = [OSTCBEventPtr EXCEPT ![c] = e]
        /\ OSEventWait' = [OSEventWait EXCEPT ![e] = @ \cup {OSTCBPrio[c]}]
        /\ UNCHANGED <<OSEventType, OSEventPtr>>
    BY <1>4 DEF Blocked
  <2>2. \A t \in Task : OSTCBEventPtr[t] # Null \/ t = c =>
          OSTCBPrio'[t] = OSTCBPrio[t] /\ OSTCBPrioTbl'[OSTCBPrio[t]] = t
    <3>1. CASE raised = FALSE
      BY <1>1, <1>4, <3>1 DEF Blocked
    <3>2. CASE raised = TRUE
      <4>1. /\ OSMutexPCP[e] \in Prio
            /\ OSTCBPrio' = [OSTCBPrio EXCEPT ![o] = OSMutexPCP[e]]
            /\ OSTCBPrioTbl' = [OSTCBPrioTbl EXCEPT ![OSMutexPCP[e]] = o]
        BY <1>4, <3>2 DEF Blocked
      <4>2. OSTCBEventPtr[o] = Null
        BY <1>1, <2>1, OwnerFacts
      <4>3. \A t \in Task : OSTCBPrio[t] = OSMutexPCP[e] => t = o
        BY <2>1, <4>1, CeilingFacts DEF Owns
      <4> QED BY <1>1, <2>1, <4>1, <4>2, <4>3
    <3> QED BY <3>1, <3>2
  <2> HIDE DEF c, o
  <2>3. \A t \in Task : OSTCBEventPtr'[t] # Null =>
          OSTCBPrio'[t] \in OSEventWait'[OSTCBEventPtr'[t]]
    BY <1>1, <2>1, <2>2 DEF WaitSound
  <2>4. ASSUME NEW f \in Event, NEW p \in OSEventWait'[f]
        PROVE  /\ IsMutex(f)' /\ OSEventPtr'[f] \in Task
               /\ OSTCBPrioTbl'[p] \in Task
               /\ OSTCBPrio'[OSTCBPrioTbl'[p]] = p
               /\ OSTCBEventPtr'[OSTCBPrioTbl'[p]] = f
    <3>1. CASE p \in OSEventWait[f]
      <4>1. /\ IsMutex(f) /\ OSEventPtr[f] \in Task
            /\ OSTCBPrioTbl[p] \in Task /\ OSTCBPrio[OSTCBPrioTbl[p]] = p
            /\ OSTCBEventPtr[OSTCBPrioTbl[p]] = f
        BY <1>1, <3>1 DEF WaitSound
      <4>2. OSTCBPrio'[OSTCBPrioTbl[p]] = p /\ OSTCBPrioTbl'[p] = OSTCBPrioTbl[p]
        BY <1>1, <2>2, <4>1
      <4>3. OSTCBEventPtr'[OSTCBPrioTbl[p]] = f
        BY <1>1, <2>1, <4>1
      <4> QED BY <2>1, <4>1, <4>2, <4>3 DEF IsMutex
    <3>2. CASE p \notin OSEventWait[f]
      <4>1. f = e /\ p = OSTCBPrio[c]
        BY <1>1, <2>1, <2>4, <3>2
      <4>2. OSTCBPrioTbl'[p] = c /\ OSTCBPrio'[c] = p
        BY <2>1, <2>2, <4>1
      <4>3. OSTCBEventPtr'[c] = f
        BY <1>1, <2>1, <4>1
      <4>4. IsMutex(f)' /\ OSEventPtr'[f] \in Task
        BY <2>1, <4>1 DEF IsMutex, o
      <4> QED BY <2>1, <4>2, <4>3, <4>4
    <3> QED BY <3>1, <3>2
  <2> QED BY <2>3, <2>4 DEF WaitSound
<1>5. CASE Tailed
  <2> DEFINE c == OSTCBCur
  <2>1. /\ c \in Task
        /\ OSTCBEventPtr' = [OSTCBEventPtr EXCEPT ![c] = Null]
        /\ \A e \in Event : OSEventWait'[e] = IF OSTCBEventPtr[c] = e
                                                THEN OSEventWait[e] \ {OSTCBPrio[c]}
                                                ELSE OSEventWait[e]
        /\ UNCHANGED <<OSTCBPrio, OSTCBPrioTbl, OSEventType, OSEventPtr>>
    BY <1>5 DEF Tailed, readyVars
  <2> HIDE DEF c
  <2>2. ASSUME NEW t \in Task, OSTCBEventPtr'[t] # Null
        PROVE  OSTCBPrio'[t] \in OSEventWait'[OSTCBEventPtr'[t]]
    <3>1. t # c /\ OSTCBEventPtr'[t] = OSTCBEventPtr[t] /\ OSTCBEventPtr[t] \in Event
      BY <1>1, <2>1, <2>2
    <3>2. OSTCBPrio[t] # OSTCBPrio[c]
      BY <1>1, <2>1, <3>1
    <3>3. OSTCBPrio[t] \in OSEventWait[OSTCBEventPtr[t]]
      BY <1>1, <2>2, <3>1 DEF WaitSound
    <3> QED BY <2>1, <3>1, <3>2, <3>3
  <2>3. ASSUME NEW f \in Event, NEW p \in OSEventWait'[f]
        PROVE  /\ IsMutex(f)' /\ OSEventPtr'[f] \in Task
               /\ OSTCBPrioTbl'[p] \in Task
               /\ OSTCBPrio'[OSTCBPrioTbl'[p]] = p
               /\ OSTCBEventPtr'[OSTCBPrioTbl'[p]] = f
    <3>1. p \in OSEventWait[f] /\ (OSTCBEventPtr[c] = f => p # OSTCBPrio[c])
      BY <2>1, <2>3
    <3>2. OSTCBPrioTbl[p] # c
      BY <1>1, <3>1 DEF WaitSound
    <3> QED BY <1>1, <2>1, <3>1, <3>2 DEF WaitSound, IsMutex
  <2> QED BY <2>2, <2>3 DEF WaitSound
<1>6. ASSUME NEW e \in Event, NEW W \in SUBSET OSEventWait[e], Posted(e, W), OthersKept(e)
      PROVE  WaitSound'
  <2>1. /\ IsMutex(e) /\ Lowered(e, OS_TCB_RESERVED) /\ Ended(e, W) /\ UNCHANGED OSEventType
        /\ (\E p \in W : HandOver(e, p)) \/ OSEventWait[e] = W
    BY <1>6 DEF Posted
  <2>2. IsMutex(e)'
    BY <2>1 DEF IsMutex
  <2>3. OSEventWait[e] # W => OSEventPtr'[e] \in Task
    BY <1>1, <2>1, WaiterFacts DEF HandOver
  <2> QED BY <1>6, <2>1, <2>2, <2>3, EndedWaiters
<1>7. ASSUME NEW e \in Event, Deleted(e), OthersKept(e) PROVE WaitSound'
  BY <1>7, EndedWaiters DEF Deleted
<1>8. ASSUME NEW e \in Event, NEW prio \in NewPCP, Created(e, prio), OthersKept(e)
      PROVE  WaitSound'
  <2>1. /\ OSEventWait[e] = {} /\ \A t \in Task : OSTCBEventPtr[t] # e
        /\ OSEventWait' = [OSEventWait EXCEPT ![e] = {}]
        /\ UNCHANGED <<OSTCBPrio, OSTCBEventPtr>>
        /\ OSTCBPrioTbl' = [p \in Prio |-> IF p = prio THEN OS_TCB_RESERVED ELSE OSTCBPrioTbl[p]]
        /\ prio \in Prio => OSTCBPrioTbl[prio] = Null
    BY <1>8, NoWaiters DEF Created, tcbVars
  <2>2. OSEventWait' = OSEventWait
    BY <1>1, <2>1
  <2>3. \A f \in Event : \A p \in OSEventWait[f] : OSTCBPrioTbl'[p] = OSTCBPrioTbl[p]
    BY <1>1, <2>1 DEF WaitSound
  <2>4. \A f \in Event \ {e} : IsMutex(f) /\ OSEventPtr[f] \in Task =>
                                IsMutex(f)' /\ OSEventPtr'[f] \in Task
    BY <1>8 DEF OthersKept, IsMutex
  <2> QED BY <1>1, <2>1, <2>2, <2>3, <2>4 DEF WaitSound
<1> QED BY <1>2, <1>3, <1>4, <1>5, <1>6, <1>7, <1>8, Cases

\* Priority inheritance: when a task starts to wait its owner is raised above
\* it, and the next owner was the highest waiter.
LEMMA InheritsStep ==
  ASSUME NoChangePrio, IInv, Next, Disciplined
  PROVE  Inherits'
<1>1. /\ Inherits
      /\ OSEventWait \in [Event -> SUBSET Prio]
      /\ OSEventType \in [Event -> {"UNUSED", "MUTEX"}]
      /\ OSEventPtr \in [Event -> Event \cup Task \cup {Null}]
      /\ OSMutexPCP \in [Event -> Prio \cup {OS_PRIO_MUTEX_CEIL_DIS}]
      /\ OSTCBPrio \in [Task -> Prio]
      /\ InitPrio \in [Task -> Prio]
      /\ Null \notin Task /\ Null \notin Event
      /\ OS_PRIO_MUTEX_CEIL_DIS \notin Prio
      /\ Prio \subseteq Nat
  BY CoreAssumption, MutexAssumption
  DEF IInv, TypeOK, TcbTypeOK, CoreAssumption, MutexAssumption, Prio
<1>2. CASE ControlStep
  BY <1>1, <1>2 DEF ControlStep, eventVars, mutexVars, Inherits
\* The mutexes f that a step leaves alone, when it lowers the owner of e.
<1>3. ASSUME NEW e \in Event, OthersKept(e),
             \A f \in Event \ {e} : OSEventWait'[f] \subseteq OSEventWait[f],
             \A t \in Task : ~Owns(t, e) => OSTCBPrio'[t] = OSTCBPrio[t]
      PROVE  \A f \in Event \ {e} : OSEventType'[f] = "MUTEX" /\ OSMutexPCP'[f] \in Prio =>
               \A p \in OSEventWait'[f] : OSTCBPrio'[OSEventPtr'[f]] < p
  <2> SUFFICES ASSUME NEW f \in Event \ {e}, OSEventType'[f] = "MUTEX", OSMutexPCP'[f] \in Prio,
                      NEW p \in OSEventWait'[f]
               PROVE  OSTCBPrio'[OSEventPtr'[f]] < p
    OBVIOUS
  <2>1. /\ OSEventType[f] = "MUTEX" /\ OSMutexPCP[f] \in Prio /\ p \in OSEventWait[f]
        /\ OSEventPtr'[f] = OSEventPtr[f]
    BY <1>3 DEF OthersKept
  <2>2. OSTCBPrio[OSEventPtr[f]] < p
    BY <1>1, <2>1 DEF Inherits
  <2>3. OSEventPtr[f] \in Task
    BY <2>1, WaiterFacts
  <2>4. ~Owns(OSEventPtr[f], e)
    BY <2>1, <2>3 DEF IInv, OwnerSound, Owns
  <2> QED BY <1>3, <2>1, <2>2, <2>3, <2>4
<1>4. ASSUME NEW e \in Event, Taken(e), OthersKept(e) PROVE Inherits'
  <2>1. UNCHANGED <<OSTCBPrio, OSEventWait>> /\ OSEventWait[e] = {}
    BY <1>4, NoWaiters DEF Taken, tcbVars
  <2> QED BY <1>3, <1>4, <2>1 DEF Inherits
<1>5. ASSUME NEW e \in Event, NEW raised \in BOOLEAN, Blocked(e, raised) PROVE Inherits'
  <2> DEFINE c == OSTCBCur
             o == OSEventPtr[e]
  <2>1. /\ IsMutex(e) /\ c \in Task /\ OSTCBPrio[c] = InitPrio[c]
        /\ o \in Task /\ o # c /\ BelowCeiling(e)
        /\ OSEventWait' = [OSEventWait EXCEPT ![e] = @ \cup {OSTCBPrio[c]}]
        /\ UNCHANGED <<OSEventType, OSEventPtr, OSMutexPCP, OSOwnerPrio>>
    BY <1>5 DEF Blocked, mutexVars
  <2>2. OthersKept(e)
    BY <2>1 DEF OthersKept
  <2>3. \A t \in Task : ~Owns(t, e) => OSTCBPrio'[t] = OSTCBPrio[t]
    <3>1. CASE raised = FALSE
      BY <1>5, <3>1 DEF Blocked
    <3>2. CASE raised = TRUE
      BY <1>1, <1>5, <2>1, <3>2 DEF Blocked, Owns, IsMutex
    <3> QED BY <3>1, <3>2
  <2>4. ASSUME OSMutexPCP[e] \in Prio, NEW p \in OSEventWait'[e]
        PROVE  OSTCBPrio'[o] < p
    <3>1. OSMutexPCP[e] < OSTCBPrio[c]
      BY <2>1, <2>4 DEF BelowCeiling
    <3>2. p \in OSEventWait[e] => OSTCBPrio[o] < p
      BY <1>1, <2>1, <2>4 DEF Inherits, IsMutex
    <3>3. p \in OSEventWait[e] \/ p = OSTCBPrio[c]
      BY <1>1, <2>1, <2>4
    <3>4. /\ OSTCBPrio[o] \in Nat /\ OSTCBPrio[c] \in Nat /\ OSMutexPCP[e] \in Nat
          /\ p \in Nat /\ InitPrio[o] \in Nat
      BY <1>1, <2>1, <2>4, <3>3
    <3>5. CASE raised = TRUE
      <4>1. OSTCBPrio'[o] = OSMutexPCP[e]
        BY <1>1, <1>5, <2>1, <3>5 DEF Blocked
      <4>2. OSMutexPCP[e] < OSTCBPrio[o]
        BY <1>5, <3>4, <3>5 DEF Blocked, Promotes
      <4> QED BY <3>1, <3>2, <3>3, <3>4, <4>1, <4>2
    <3>6. CASE raised = FALSE
      <4>1. OSTCBPrio'[o] = OSTCBPrio[o] /\ ~Promotes(e)
        BY <1>5, <3>6 DEF Blocked
      <4>2. /\ OSOwnerPrio[e] = InitPrio[o]
            /\ OSTCBPrio[o] \in {InitPrio[o], OSMutexPCP[e]}
        BY <1>1, <2>1, OwnerFacts
      <4>3. InitPrio[o] # OSTCBPrio[c]
        BY <2>1, CoreAssumption DEF CoreAssumption
      <4>4. OSTCBPrio[o] < OSTCBPrio[c]
        <5>1. ~(OSTCBPrio[o] > OSMutexPCP[e]) \/ ~(InitPrio[o] > OSTCBPrio[c])
          BY <1>1, <2>4, <4>1, <4>2 DEF Promotes
        <5> QED BY <3>1, <3>4, <4>2, <4>3, <5>1
      <4> QED BY <3>2, <3>3, <4>1, <4>4
    <3> QED BY <3>5, <3>6
  <2>5. \A f \in Event \ {e} : OSEventWait'[f] \subseteq OSEventWait[f]
    BY <1>1, <2>1
  <2>6. OSMutexPCP[e] \in Prio => \A p \in OSEventWait'[e] : OSTCBPrio'[OSEventPtr'[e]] < p
    BY <2>1, <2>4
  <2> HIDE DEF o, c
  <2> QED BY <1>3, <2>1, <2>2, <2>3, <2>5, <2>6 DEF Inherits
<1>6. CASE Tailed
  <2>1. UNCHANGED <<OSTCBPrio, OSEventType, OSEventPtr, OSMutexPCP>>
    BY <1>6 DEF Tailed, mutexVars
  <2>2. \A e \in Event : OSEventWait'[e] \subseteq OSEventWait[e]
    BY <1>6 DEF Tailed
  <2> QED BY <1>1, <2>1, <2>2 DEF Inherits
<1>7. ASSUME NEW e \in Event, NEW W \in SUBSET OSEventWait[e], Posted(e, W), OthersKept(e)
      PROVE  Inherits'
  <2>1. /\ Lowered(e, OS_TCB_RESERVED) /\ Ended(e, W)
        /\ \/ \E p \in W : W = {p} /\ IsHighest(p, OSEventWait[e]) /\ HandOver(e, p)
           \/ W = {} /\ OSEventWait[e] = {}
    BY <1>7 DEF Posted
  <2>2. \A t \in Task : ~Owns(t, e) => OSTCBPrio'[t] = OSTCBPrio[t]
    BY <2>1 DEF Lowered
  <2>3. \A f \in Event \ {e} : OSEventWait'[f] \subseteq OSEventWait[f]
    BY <1>1, <2>1 DEF Ended
  <2>4. OSEventWait'[e] = OSEventWait[e] \ W
    BY <1>1, <2>1 DEF Ended
  <2>5. \A q \in OSEventWait'[e] : OSTCBPrio'[OSEventPtr'[e]] < q
    <3>1. CASE OSEventWait[e] = {}
      BY <2>4, <3>1
    <3>2. ASSUME NEW p \in W, W = {p}, IsHighest(p, OSEventWait[e]), HandOver(e, p)
          PROVE  \A q \in OSEventWait'[e] : OSTCBPrio'[OSEventPtr'[e]] < q
      <4>1. OSEventPtr'[e] = OSTCBPrioTbl[p]
        BY <1>1, <3>2 DEF HandOver
      <4>2. OSTCBPrio'[OSTCBPrioTbl[p]] = p
        BY <2>2, WaiterFacts
      <4>3. \A q \in OSEventWait'[e] : q \in OSEventWait[e] /\ q # p
        BY <2>4, <3>2
      <4>4. \A q \in OSEventWait'[e] : p <= q /\ q # p /\ q \in Nat /\ p \in Nat
        BY <1>1, <3>2, <4>3 DEF IsHighest
      <4>5. \A q \in OSEventWait'[e] : p < q
        BY <4>4
      <4> QED BY <4>1, <4>2, <4>5
    <3> QED BY <2>1, <3>1, <3>2
  <2> QED BY <1>3, <1>7, <2>2, <2>3, <2>5 DEF Inherits
<1>8. ASSUME NEW e \in Event, Deleted(e), OthersKept(e) PROVE Inherits'
  <2>1. Lowered(e, Null) /\ Ended(e, OSEventWait[e]) /\ OSEventType'[e] # "MUTEX"
    BY <1>1, <1>8 DEF Deleted
  <2>2. \A t \in Task : ~Owns(t, e) => OSTCBPrio'[t] = OSTCBPrio[t]
    BY <2>1 DEF Lowered
  <2>3. \A f \in Event \ {e} : OSEventWait'[f] \subseteq OSEventWait[f]
    BY <1>1, <2>1 DEF Ended
  <2> QED BY <1>3, <1>8, <2>1, <2>2, <2>3 DEF Inherits
<1>9. ASSUME NEW e \in Event, NEW prio \in NewPCP, Created(e, prio), OthersKept(e)
      PROVE  Inherits'
  <2>1. OSEventWait' = [OSEventWait EXCEPT ![e] = {}] /\ UNCHANGED OSTCBPrio
    BY <1>9 DEF Created, tcbVars
  <2>2. OSEventWait'[e] = {} /\ \A f \in Event \ {e} : OSEventWait'[f] = OSEventWait[f]
    BY <1>1, <2>1
  <2> QED BY <1>3, <1>9, <2>1, <2>2 DEF Inherits
<1> QED BY <1>2, <1>4, <1>5, <1>6, <1>7, <1>8, <1>9, Cases

-----------------------------------------------------------------------------
(* The ready list.                                                         *)

\* The ready list stays sound when tasks join it that do not pend, at the
\* priorities they have then.
LEMMA RdyGrows ==
  ASSUME PrioSound',
         \A p \in OSRdy' : \E t \in Task : OSTCBPrio'[t] = p /\ "MUTEX" \notin OSTCBStat'[t]
  PROVE  RdySound'
<1>1. \A t \in Task : OSTCBPrioTbl'[OSTCBPrio'[t]] = t
  BY DEF PrioSound
<1>2. \A p \in OSRdy' : OSTCBPrioTbl'[p] \in Task /\ OSTCBPrio'[OSTCBPrioTbl'[p]] = p
  BY <1>1
<1>3. \A t \in Task : "MUTEX" \in OSTCBStat'[t] => OSTCBPrio'[t] \notin OSRdy'
  <2> SUFFICES ASSUME NEW t \in Task, OSTCBPrio'[t] \in OSRdy' PROVE "MUTEX" \notin OSTCBStat'[t]
    OBVIOUS
  <2>1. PICK u \in Task : OSTCBPrio'[u] = OSTCBPrio'[t] /\ "MUTEX" \notin OSTCBStat'[u]
    OBVIOUS
  <2>2. u = t
    BY <1>1, <2>1
  <2> QED BY <2>1, <2>2
<1> QED BY <1>2, <1>3 DEF RdySound

\* A priority on the ready list is that of a task that does not pend.
LEMMA RdyTasks ==
  ASSUME IInv
  PROVE  \A p \in OSRdy : \E t \in Task : /\ OSTCBPrio[t] = p /\ "MUTEX" \notin OSTCBStat[t]
                                          /\ t = OSTCBPrioTbl[p]
BY DEF IInv, RdySound

\* The pend bits after a step that leaves the tasks at their priorities.
LEMMA SamePrioRdy ==
  ASSUME IInv, PrioSound', OSTCBPrio' = OSTCBPrio,
         \A t \in Task : "MUTEX" \in OSTCBStat'[t] => "MUTEX" \in OSTCBStat[t],
         \A p \in OSRdy' \ OSRdy : \E t \in Task : OSTCBPrio[t] = p /\ "MUTEX" \notin OSTCBStat'[t]
  PROVE  RdySound'
BY RdyTasks, RdyGrows

\* The scheduler, the tick and the services on tasks keep the ready list sound.
LEMMA ControlRdy ==
  ASSUME NoChangePrio, IInv, PrioSound', Next, ~MutexNext
  PROVE  RdySound'
<1>1. /\ OSTCBPrio \in [Task -> Prio] /\ OSTCBCur \in Task
      /\ OSTCBStat \in [Task -> SUBSET OS_STAT]
      /\ ptcb \in Seq(Task \ {Idle}) /\ tickNest \in Nat
      /\ TickSound
  BY CoreAssumption DEF IInv, TypeOK, TcbTypeOK, SwitchTypeOK, TickTypeOK, CoreAssumption
<1>2. ASSUME UNCHANGED <<OSTCBPrio, OSTCBStat>>, OSRdy' \subseteq OSRdy
      PROVE  RdySound'
  BY <1>2, SamePrioRdy
<1>3. ASSUME NEW t \in Task, DlyEnds(t) PROVE RdySound'
  <2>1. /\ OSTCBPrio' = OSTCBPrio
        /\ OSTCBStat' = [OSTCBStat EXCEPT ![t] = @ \ OS_STAT_PEND_ANY]
        /\ OSRdy' = OSRdy \cup ReadyPrios({t})
    BY <1>3 DEF DlyEnds, MakeReady
  <2>2. "MUTEX" \notin OSTCBStat'[t]
    BY <1>1, <2>1 DEF OS_STAT_PEND_ANY
  <2>3. ReadyPrios({t}) \subseteq {OSTCBPrio[t]}
    BY DEF ReadyPrios
  <2>4. \A u \in Task : "MUTEX" \in OSTCBStat'[u] => "MUTEX" \in OSTCBStat[u]
    BY <1>1, <2>1
  <2> QED BY <2>1, <2>2, <2>3, <2>4, SamePrioRdy
<1>4. CASE CoreNext
  <2>1. CASE OSTimeTick_Step
    <3>1. tickNest > 0
      BY <2>1 DEF OSTimeTick_Step
    <3>2. Head(ptcb) \in Task
      BY <1>1, <3>1, HeadTailProperties DEF TickSound
    <3>3. CASE DlyEnds(Head(ptcb))
      BY <1>3, <3>2, <3>3
    <3>4. CASE UNCHANGED <<OSTCBPrio, OSTCBStat, OSRdy>>
      BY <1>2, <3>4
    <3> QED BY <2>1, <3>3, <3>4 DEF OSTimeTick_Step
  <2>2. CASE ~OSTimeTick_Step
    BY <1>2, <1>4, <2>2
    DEF CoreNext, OS_Sched, PendSV_Handler, OSSchedLock, OSSchedUnlock, OSIntEnter, OSIntExit,
        OSTimeTick, tcbVars, readyVars
  <2> QED BY <2>1, <2>2
<1>5. CASE \E ticks \in 1 .. MaxDly : OSTimeDly(ticks)
  BY <1>2, <1>5 DEF OSTimeDly
<1>6. CASE TaskControl
  <2>1. ASSUME NEW prio \in Prio, OSTimeDlyResume(prio) PROVE RdySound'
    BY <1>3, <2>1 DEF OSTimeDlyResume, NamesTask
  <2>2. ASSUME NEW prio \in Prio, OSTaskSuspend(prio) PROVE RdySound'
    <3> DEFINE t == OSTCBPrioTbl[prio]
    <3>1. /\ OSTCBPrio' = OSTCBPrio /\ OSRdy' \subseteq OSRdy
          /\ OSTCBStat' = [OSTCBStat EXCEPT ![t] = @ \cup {"SUSPEND"}]
      BY <2>2 DEF OSTaskSuspend
    <3>2. \A u \in Task : "MUTEX" \in OSTCBStat'[u] => "MUTEX" \in OSTCBStat[u]
      BY <1>1, <3>1
    <3> QED BY <3>1, <3>2, SamePrioRdy
  <2>3. ASSUME NEW prio \in Prio, OSTaskResume(prio) PROVE RdySound'
    <3> DEFINE t == OSTCBPrioTbl[prio]
               freed == OSTCBStat[t] \cap OS_STAT_PEND_ANY = {} /\ OSTCBDly[t] = 0
    <3>1. /\ OSTCBPrio' = OSTCBPrio /\ t \in Task
          /\ OSTCBStat' = [OSTCBStat EXCEPT ![t] = @ \ {"SUSPEND"}]
          /\ OSRdy' = IF freed THEN OSRdy \cup {OSTCBPrio[t]} ELSE OSRdy
      BY <2>3 DEF OSTaskResume, NamesTask
    <3>2. \A u \in Task : "MUTEX" \in OSTCBStat'[u] => "MUTEX" \in OSTCBStat[u]
      BY <1>1, <3>1
    <3>3. freed => "MUTEX" \notin OSTCBStat'[t]
      BY <1>1, <3>1 DEF OS_STAT_PEND_ANY
    <3> QED BY <3>1, <3>2, <3>3, SamePrioRdy
  <2>4. ASSUME NEW old \in Prio, NEW new \in Prio, OSTaskChangePrio(old, new)
        PROVE  FALSE
    BY <1>1, <2>4 DEF OSTaskChangePrio, Call, TaskCall, IsrCall, NoChangePrio
  <2> QED BY <1>6, <2>1, <2>2, <2>3, <2>4 DEF TaskControl
<1> QED BY <1>4, <1>5, <1>6 DEF Next

\* A post and a deletion ready the owner at its own priority, and the tasks
\* that stop to wait.
LEMMA RestoredRdy ==
  ASSUME IInv, PrioSound', NEW e \in Event, IsMutex(e),
         NEW entry, Lowered(e, entry),
         NEW restore \in BOOLEAN, restore => OSEventPtr[e] \in Task,
         NEW W \in SUBSET OSEventWait[e], NEW ps,
         OSMutex_RdyAtPrio(e, restore, {OSTCBPrioTbl[p] : p \in W}),
         WaitEnds(e, {OSTCBPrioTbl[p] : p \in W}, "MUTEX", ps)
  PROVE  RdySound'
<1> DEFINE T == {OSTCBPrioTbl[p] : p \in W}
           o == OSEventPtr[e]
<1>1. /\ OSTCBPrio \in [Task -> Prio]
      /\ OSTCBStat \in [Task -> SUBSET OS_STAT]
      /\ Null \notin Task
      /\ T \subseteq Task
  BY CoreAssumption, WaiterFacts DEF IInv, TypeOK, TcbTypeOK, CoreAssumption
<1>2. /\ OSRdy' = (IF restore THEN (OSRdy \ {OSTCBPrio[o]}) \cup {OSOwnerPrio[e]} ELSE OSRdy)
                    \cup ReadyPrios(T)
      /\ OSTCBStat' = [t \in Task |-> IF t \in T THEN OSTCBStat[t] \ {"MUTEX"} ELSE OSTCBStat[t]]
      /\ OSTCBPrio' = [t \in Task |-> IF Owns(t, e) THEN InitPrio[t] ELSE OSTCBPrio[t]]
  BY DEF OSMutex_RdyAtPrio, WaitEnds, Lowered
<1>3. OSTCBPrio' = IF restore THEN [OSTCBPrio EXCEPT ![o] = OSOwnerPrio[e]] ELSE OSTCBPrio
  BY DEF OSMutex_RdyAtPrio
<1>4. \A t \in T : ~Owns(t, e)
  BY WaiterFacts
<1> HIDE DEF T
<1>5. ASSUME NEW p \in OSRdy'
      PROVE  \E t \in Task : OSTCBPrio'[t] = p /\ "MUTEX" \notin OSTCBStat'[t]
  <2>1. CASE p \in OSRdy /\ (restore => p # OSTCBPrio[o])
    <3>1. PICK t \in Task : OSTCBPrio[t] = p /\ "MUTEX" \notin OSTCBStat[t]
      BY <2>1, RdyTasks
    <3>2. OSTCBPrio'[t] = p
      BY <1>1, <1>3, <2>1, <3>1
    <3>3. "MUTEX" \notin OSTCBStat'[t]
      BY <1>2, <3>1
    <3> QED BY <3>2, <3>3
  <2>2. CASE restore /\ p = OSOwnerPrio[e]
    <3>1. /\ o \in Task /\ OSTCBPrio'[o] = p
          /\ OSTCBEventPtr[o] = Null
      BY <1>1, <1>3, <2>2, OwnerFacts
    <3>2. "MUTEX" \notin OSTCBStat[o]
      BY <3>1 DEF IInv, PendSound, PendAt
    <3>3. "MUTEX" \notin OSTCBStat'[o]
      BY <1>2, <3>1, <3>2
    <3> QED BY <3>1, <3>3
  <2>3. CASE p \in ReadyPrios(T)
    <3>1. PICK t \in T : OSTCBPrio[t] = p
      BY <2>3 DEF ReadyPrios
    <3> QED BY <1>1, <1>2, <1>4, <3>1
  <2> QED BY <1>2, <1>5, <2>1, <2>2, <2>3
<1> QED BY <1>5, RdyGrows

\* A step keeps the ready list: it names no task that pends.
LEMMA RdyStep ==
  ASSUME NoChangePrio, IInv, Next, Disciplined
  PROVE  RdySound'
<1>1. /\ PrioSound'
      /\ OSTCBPrio \in [Task -> Prio] /\ OSTCBCur \in Task
      /\ OSTCBStat \in [Task -> SUBSET OS_STAT]
      /\ Null \notin Task /\ Null \notin Event
  BY PrioStep, CoreAssumption DEF IInv, TypeOK, TcbTypeOK, SwitchTypeOK, CoreAssumption
<1>2. CASE ~MutexNext
  BY <1>1, <1>2, ControlRdy
<1>3. ASSUME NEW e \in Event, OSMutexAccept(e) \/ OSMutexPend_Take(e) PROVE RdySound'
  <2>1. UNCHANGED <<OSTCBPrio, OSTCBStat, OSRdy>>
    BY <1>3, TakeEffect DEF Taken, tcbVars, readyVars
  <2> QED BY <1>1, <2>1, SamePrioRdy
<1>4. ASSUME NEW e \in Event, NEW timeout \in 0 .. MaxDly, OSMutexPend_Block(e, timeout)
      PROVE  RdySound'
  <2> DEFINE c == OSTCBCur
             o == OSEventPtr[e]
  <2>1. PICK raised \in BOOLEAN : Blocked(e, raised)
    BY <1>4, BlockEffect
  <2>2. /\ IsMutex(e) /\ o \in Task /\ o # c
        /\ OSTCBStat' = [OSTCBStat EXCEPT ![c] = @ \cup {"MUTEX"}]
        /\ OSTCBPrio[c] \notin OSRdy'
    BY <1>4, <2>1 DEF Blocked, OSMutexPend_Block
  <2>3. OSTCBPrio'[c] = OSTCBPrio[c]
    BY <1>1, <2>1, <2>2 DEF Blocked
  <2>4. "MUTEX" \notin OSTCBStat[o]
    BY <1>1, <2>2, OwnerFacts DEF IInv, PendSound, PendAt
  <2>5. \A p \in OSRdy' : p \in OSRdy \/ (raised /\ p = OSMutexPCP[e])
    BY <2>1 DEF Blocked, PromotedRdy
  <2>6. raised => OSTCBPrio[o] \notin OSRdy' \/ OSTCBPrio[o] = OSMutexPCP[e]
    BY <2>1 DEF Blocked, PromotedRdy
  <2>7. raised => OSTCBPrio' = [OSTCBPrio EXCEPT ![o] = OSMutexPCP[e]]
    BY <2>1 DEF Blocked
  <2>8. ~raised => OSTCBPrio' = OSTCBPrio
    BY <2>1 DEF Blocked
  <2> HIDE DEF c, o
  <2>9. ASSUME NEW p \in OSRdy'
        PROVE  \E t \in Task : OSTCBPrio'[t] = p /\ "MUTEX" \notin OSTCBStat'[t]
    <3>1. CASE raised /\ p = OSMutexPCP[e]
      BY <1>1, <2>2, <2>4, <2>7, <3>1
    <3>2. CASE p \in OSRdy /\ ~(raised /\ p = OSMutexPCP[e])
      <4>1. PICK t \in Task : OSTCBPrio[t] = p /\ "MUTEX" \notin OSTCBStat[t]
        BY <3>2, RdyTasks
      <4>2. t # c
        BY <2>2, <2>9, <4>1
      <4>3. raised => t # o
        BY <2>6, <2>9, <3>2, <4>1
      <4>4. OSTCBPrio'[t] = p
        BY <1>1, <2>7, <2>8, <4>1, <4>3
      <4>5. "MUTEX" \notin OSTCBStat'[t]
        BY <1>1, <2>2, <4>1, <4>2
      <4> QED BY <4>4, <4>5
    <3> QED BY <2>5, <3>1, <3>2
  <2> QED BY <1>1, <2>9, RdyGrows
<1>5. CASE OSMutexPend_Tail
  <2>1. /\ UNCHANGED <<OSTCBPrio, OSRdy>>
        /\ OSTCBStat' = [OSTCBStat EXCEPT ![OSTCBCur] = {}]
    BY <1>5 DEF OSMutexPend_Tail, OSPend_Tail
  <2>2. \A t \in Task : "MUTEX" \in OSTCBStat'[t] => "MUTEX" \in OSTCBStat[t]
    BY <1>1, <2>1
  <2> QED BY <1>1, <2>1, <2>2, SamePrioRdy
<1>6. ASSUME NEW e \in Event, OSMutexPost(e) PROVE RdySound'
  <2> DEFINE W == {p \in OSEventWait[e] : IsHighest(p, OSEventWait[e])}
  <2>1. /\ OSMutex_RdyAtPrio(e, Raised(e), {OSTCBPrioTbl[p] : p \in W})
        /\ WaitEnds(e, {OSTCBPrioTbl[p] : p \in W}, "MUTEX", "OK")
    BY <1>6 DEF OSMutexPost
  <2>2. IsMutex(e) /\ OSEventPtr[e] \in Task /\ Lowered(e, OS_TCB_RESERVED)
    BY <1>6, PostEffect DEF Posted, Owns
  <2>3. Raised(e) \in BOOLEAN
    BY DEF Raised
  <2> HIDE DEF W
  <2>4. W \in SUBSET OSEventWait[e]
    BY DEF W
  <2> QED BY <1>1, <2>1, <2>2, <2>3, <2>4, RestoredRdy
<1>7. ASSUME NEW e \in Event, NEW always \in BOOLEAN, OSMutexDel(e, always) PROVE RdySound'
  <2> DEFINE restore == always /\ OSEventPtr[e] # Null /\ Raised(e)
  <2>1. /\ OSMutex_RdyAtPrio(e, restore, {OSTCBPrioTbl[p] : p \in OSEventWait[e]})
        /\ WaitEnds(e, {OSTCBPrioTbl[p] : p \in OSEventWait[e]}, "MUTEX", "ABORT")
    BY <1>7 DEF OSMutexDel, Waiters
  <2>2. IsMutex(e) /\ Lowered(e, Null)
    BY <1>7, DelEffect DEF Deleted
  <2>3. restore \in BOOLEAN /\ (restore => OSEventPtr[e] \in Task)
    BY <2>2, OwnerFacts
  <2> HIDE DEF restore
  <2> QED BY <1>1, <2>1, <2>2, <2>3, RestoredRdy
<1>8. ASSUME NEW prio \in NewPCP, OSMutexCreate(prio) PROVE RdySound'
  <2>1. UNCHANGED <<OSTCBPrio, OSTCBStat, OSRdy>>
    BY <1>8, CreateEffect DEF Created, tcbVars
  <2> QED BY <1>1, <2>1, SamePrioRdy
<1> QED BY <1>2, <1>3, <1>4, <1>5, <1>6, <1>7, <1>8 DEF MutexNext

-----------------------------------------------------------------------------
(* Control blocks and places.                                              *)

\* A task stays where it is, or was waiting for nothing and returns.
Moves(t) ==
  \/ pc'[t] = pc[t] /\ pevent'[t] = pevent[t]
  \/ OSTCBEventPtr[t] = Null /\ pc'[t] \notin PendPlaces

\* So it does when a service returns.
LEMMA ReturnsMoves ==
  ASSUME IInv, NEW b \in BOOLEAN, Returns(b), OSIntNesting > 0 \/ InTask("app")
  PROVE  \A t \in Task : Moves(t)
<1>1. /\ pc \in [Task -> Places] /\ pevent \in [Task -> Event \cup {Null}]
      /\ OSTCBCur \in Task
  BY DEF IInv, TypeOK, FlowTypeOK, SwitchTypeOK
<1>2. CASE OSIntNesting > 0
  BY <1>2 DEF Returns, flowVars, Moves
<1>3. CASE ~(OSIntNesting > 0)
  <2>1. /\ pc' = [pc EXCEPT ![OSTCBCur] = IF b THEN "OS_Sched" ELSE "app"]
        /\ pevent' = [pevent EXCEPT ![OSTCBCur] = Null]
        /\ pc[OSTCBCur] = "app"
    BY <1>3 DEF Returns, GoTo, InTask
  <2>2. OSTCBEventPtr[OSTCBCur] = Null
    BY <1>1, <2>1 DEF IInv, PendSound, PendAt, PendPlaces
  <2> QED BY <1>1, <2>1, <2>2 DEF Moves, PendPlaces
<1> QED BY <1>2, <1>3

\* A task that refers to the mutex it referred to before goes on waiting for it.
LEMMA SamePend ==
  ASSUME IInv, NEW t \in Task, Moves(t),
         OSTCBEventPtr'[t] = OSTCBEventPtr[t],
         OSTCBStat'[t] \subseteq {"MUTEX", "SUSPEND"},
         "MUTEX" \in OSTCBStat'[t] => "MUTEX" \in OSTCBStat[t],
         "MUTEX" \notin OSTCBStat'[t] /\ OSTCBEventPtr[t] # Null =>
           OSTCBStatPend'[t] = "TO" /\ OSTCBDly'[t] = 0
  PROVE  PendAt(t)'
BY DEF IInv, PendSound, PendAt, Moves

\* A task that refers to no mutex may be anywhere.
LEMMA NoPend ==
  ASSUME IInv, NEW t \in Task, Moves(t),
         OSTCBEventPtr'[t] = Null,
         OSTCBStat'[t] \subseteq {"MUTEX", "SUSPEND"},
         "MUTEX" \notin OSTCBStat'[t]
  PROVE  PendAt(t)'
BY DEF IInv, PendSound, PendAt, Moves

\* Nothing happens to the task's status.
LEMMA FramePend ==
  ASSUME IInv, NEW t \in Task, Moves(t),
         OSTCBEventPtr'[t] = OSTCBEventPtr[t], OSTCBStat'[t] = OSTCBStat[t],
         OSTCBStatPend'[t] = OSTCBStatPend[t],
         OSTCBDly'[t] = OSTCBDly[t] \/ OSTCBEventPtr[t] = Null \/ (OSTCBDly[t] = 0 => OSTCBDly'[t] = 0)
  PROVE  PendAt(t)'
<1>1. /\ OSTCBStat[t] \subseteq {"MUTEX", "SUSPEND"}
      /\ OSTCBEventPtr[t] # Null /\ "MUTEX" \notin OSTCBStat[t]
           => OSTCBStatPend[t] = "TO" /\ OSTCBDly[t] = 0
  BY DEF IInv, PendSound, PendAt
<1> QED BY <1>1, SamePend

\* The end of a timeout.
LEMMA DlyPend ==
  ASSUME IInv, NEW u \in Task, DlyEnds(u), OSTCBDly[u] # 0, NEW t \in Task, Moves(t)
  PROVE  PendAt(t)'
<1>1. /\ OSTCBDly' = [OSTCBDly EXCEPT ![u] = 0]
      /\ OSTCBStat' = [OSTCBStat EXCEPT ![u] = @ \ OS_STAT_PEND_ANY]
      /\ OSTCBStatPend' = [OSTCBStatPend EXCEPT ![u] =
                             IF OSTCBStat[u] \cap OS_STAT_PEND_ANY # {} THEN "TO" ELSE "OK"]
      /\ OSTCBEventPtr' = OSTCBEventPtr
  BY DEF DlyEnds
<1>2. /\ OSTCBDly \in [Task -> 0 .. MaxDly] /\ OSTCBStat \in [Task -> SUBSET OS_STAT]
      /\ OSTCBStatPend \in [Task -> {"OK", "TO", "ABORT"}]
      /\ OSTCBStat[u] \subseteq {"MUTEX", "SUSPEND"}
      /\ "MUTEX" \notin OSTCBStat[u] => OSTCBEventPtr[u] = Null
  BY DEF IInv, TypeOK, TcbTypeOK, PendSound, PendAt
<1>3. CASE t = u
  <2>1. OSTCBStat'[u] \subseteq {"SUSPEND"}
    BY <1>1, <1>2 DEF OS_STAT_PEND_ANY
  <2>2. CASE "MUTEX" \in OSTCBStat[u]
    <3>1. OSTCBStat[u] \cap OS_STAT_PEND_ANY # {}
      BY <2>2 DEF OS_STAT_PEND_ANY
    <3> QED BY <1>1, <1>2, <1>3, <2>1, <3>1, SamePend
  <2>3. CASE "MUTEX" \notin OSTCBStat[u]
    BY <1>1, <1>2, <1>3, <2>1, <2>3, NoPend
  <2> QED BY <2>2, <2>3
<1>4. CASE t # u
  BY <1>1, <1>2, <1>4, FramePend
<1> QED BY <1>3, <1>4

\* The tasks of T stop waiting for e.
LEMMA EndsPend ==
  ASSUME IInv, NEW e, NEW T, NEW ps, WaitEnds(e, T, "MUTEX", ps), NEW t \in Task, Moves(t)
  PROVE  PendAt(t)'
<1>1. /\ OSTCBStat'[t] = IF t \in T THEN OSTCBStat[t] \ {"MUTEX"} ELSE OSTCBStat[t]
      /\ OSTCBStatPend'[t] = IF t \in T THEN ps ELSE OSTCBStatPend[t]
      /\ OSTCBDly'[t] = IF t \in T THEN 0 ELSE OSTCBDly[t]
      /\ OSTCBEventPtr'[t] = IF t \in T THEN Null ELSE OSTCBEventPtr[t]
  BY DEF WaitEnds
<1>2. OSTCBStat[t] \subseteq {"MUTEX", "SUSPEND"}
  BY DEF IInv, PendSound, PendAt
<1>3. CASE t \in T
  BY <1>1, <1>2, <1>3, NoPend
<1>4. CASE t \notin T
  BY <1>1, <1>4, FramePend
<1> QED BY <1>3, <1>4

\* The scheduler, the tick and the services on tasks.
LEMMA ControlPend ==
  ASSUME NoChangePrio, IInv, Next, ~MutexNext
  PROVE  PendSound'
<1>1. /\ OSTCBCur \in Task
      /\ OSTCBStat \in [Task -> SUBSET OS_STAT]
      /\ OSTCBDly \in [Task -> 0 .. MaxDly]
      /\ pc \in [Task -> Places] /\ pevent \in [Task -> Event \cup {Null}]
      /\ ptcb \in Seq(Task \ {Idle}) /\ tickNest \in Nat /\ OSIntNesting \in Nat
      /\ TickSound
      /\ PendSound
  BY CoreAssumption
  DEF IInv, TypeOK, TcbTypeOK, SwitchTypeOK, TickTypeOK, FlowTypeOK, NestTypeOK, CoreAssumption
<1> SUFFICES ASSUME NEW t \in Task PROVE PendAt(t)'
  BY DEF PendSound
<1>2. ASSUME UNCHANGED tcbVars, Moves(t) PROVE PendAt(t)'
  BY <1>2, FramePend DEF tcbVars
<1>3. UNCHANGED flowVars => Moves(t)
  BY DEF flowVars, Moves
<1>4. CASE CoreNext
  <2>1. CASE OS_Sched
    <3>1. /\ pc' = [pc EXCEPT ![OSTCBCur] = AfterSched[pc[OSTCBCur]]]
          /\ pevent' = [pevent EXCEPT ![OSTCBCur] = pevent[OSTCBCur]]
          /\ pc[OSTCBCur] \in {"OS_Sched", "OSPend_Sched"}
          /\ UNCHANGED tcbVars
      BY <2>1 DEF OS_Sched, GoTo, AfterSched
    <3>2. pevent' = pevent
      BY <1>1, <3>1
    <3>3. PendAt(t)
      BY <1>1 DEF PendSound
    <3>4. CASE pc[OSTCBCur] = "OS_Sched"
      <4>1. pc' = [pc EXCEPT ![OSTCBCur] = "app"]
        BY <3>1, <3>4 DEF AfterSched
      <4>2. Moves(t)
        BY <1>1, <3>2, <3>3, <3>4, <4>1 DEF Moves, PendAt, PendPlaces
      <4> QED BY <1>2, <3>1, <4>2
    <3>5. CASE pc[OSTCBCur] = "OSPend_Sched"
      <4>1. pc' = [pc EXCEPT ![OSTCBCur] = "OSPend_Tail"]
        BY <3>1, <3>5 DEF AfterSched
      <4>2. pc'[t] \in PendPlaces <=> pc[t] \in PendPlaces
        BY <1>1, <3>5, <4>1 DEF PendPlaces
      <4> QED BY <3>1, <3>2, <3>3, <4>2 DEF PendAt, tcbVars
    <3> QED BY <3>1, <3>4, <3>5
  <2>2. CASE OSSchedUnlock
    <3>1. /\ UNCHANGED tcbVars /\ InTask("app") /\ Returns(OSLockNesting = 1)
          /\ (OSLockNesting = 1) \in BOOLEAN
      BY <2>2 DEF OSSchedUnlock, TaskCall
    <3> QED BY <1>2, <3>1, ReturnsMoves
  <2>3. CASE OSTimeTick_Step
    <3>1. tickNest > 0 /\ UNCHANGED flowVars
      BY <2>3 DEF OSTimeTick_Step
    <3>2. Head(ptcb) \in Task
      BY <1>1, <3>1, HeadTailProperties DEF TickSound
    <3>3. CASE OSTCBDly[Head(ptcb)] = 1
      <4>1. DlyEnds(Head(ptcb)) /\ OSTCBDly[Head(ptcb)] # 0
        BY <2>3, <3>3 DEF OSTimeTick_Step
      <4> QED BY <1>3, <3>1, <3>2, <4>1, DlyPend
    <3>4. CASE OSTCBDly[Head(ptcb)] # 1
      <4>1. /\ OSTCBDly' = [OSTCBDly EXCEPT ![Head(ptcb)] = IF @ = 0 THEN 0 ELSE @ - 1]
            /\ UNCHANGED <<OSTCBStat, OSTCBStatPend, OSTCBEventPtr>>
        BY <2>3, <3>4 DEF OSTimeTick_Step
      <4>2. OSTCBDly[t] = 0 => OSTCBDly'[t] = 0
        BY <1>1, <4>1
      <4> QED BY <1>3, <3>1, <4>1, <4>2, FramePend
    <3> QED BY <3>3, <3>4
  <2>4. CASE PendSV_Handler \/ OSSchedLock \/ OSIntEnter \/ OSIntExit \/ OSTimeTick
    BY <1>2, <1>3, <2>4 DEF PendSV_Handler, OSSchedLock, OSIntEnter, OSIntExit, OSTimeTick
  <2> QED BY <1>4, <2>1, <2>2, <2>3, <2>4 DEF CoreNext
<1>5. ASSUME NEW ticks \in 1 .. MaxDly, OSTimeDly(ticks) PROVE PendAt(t)'
  <2>1. /\ InTask("app") /\ Returns(TRUE)
        /\ OSTCBDly' = [OSTCBDly EXCEPT ![OSTCBCur] = ticks]
        /\ UNCHANGED <<OSTCBStat, OSTCBStatPend, OSTCBEventPtr>>
    BY <1>5 DEF OSTimeDly, TaskCall
  <2>2. OSTCBEventPtr[OSTCBCur] = Null
    BY <1>1, <2>1 DEF InTask, PendSound, PendAt, PendPlaces
  <2>3. OSTCBDly'[t] = OSTCBDly[t] \/ OSTCBEventPtr[t] = Null
    BY <1>1, <2>1, <2>2
  <2> QED BY <2>1, <2>3, ReturnsMoves, FramePend
<1>6. CASE TaskControl
  <2>1. ASSUME NEW service, Call(service) PROVE OSIntNesting > 0 \/ InTask("app")
    BY <2>1 DEF Call, TaskCall, IsrCall, InIsr
  <2>2. ASSUME NEW prio \in Prio, OSTimeDlyResume(prio) PROVE PendAt(t)'
    <3> DEFINE u == OSTCBPrioTbl[prio]
    <3>1. /\ u \in Task /\ OSTCBDly[u] # 0 /\ DlyEnds(u)
          /\ Returns("SUSPEND" \notin OSTCBStat[u]) /\ Call("OSTimeDlyResume")
      BY <2>2 DEF OSTimeDlyResume, NamesTask
    <3>2. Moves(t)
      BY <2>1, <3>1, ReturnsMoves
    <3> QED BY <3>1, <3>2, DlyPend
  <2>3. ASSUME NEW prio \in Prio, OSTaskSuspend(prio) PROVE PendAt(t)'
    <3> DEFINE u == OSTCBPrioTbl[prio]
    <3>1. /\ u \in Task /\ Returns(prio = OSTCBPrio[OSTCBCur]) /\ Call("OSTaskSuspend")
          /\ OSTCBStat' = [OSTCBStat EXCEPT ![u] = @ \cup {"SUSPEND"}]
          /\ UNCHANGED <<OSTCBStatPend, OSTCBDly, OSTCBEventPtr>>
          /\ (prio = OSTCBPrio[OSTCBCur]) \in BOOLEAN
      BY <2>3 DEF OSTaskSuspend, NamesTask
    <3>2. Moves(t)
      BY <2>1, <3>1, ReturnsMoves
    <3>3. PendAt(t)
      BY <1>1 DEF PendSound
    <3>4. /\ OSTCBStat'[t] \subseteq {"MUTEX", "SUSPEND"}
          /\ "MUTEX" \in OSTCBStat'[t] <=> "MUTEX" \in OSTCBStat[t]
      BY <1>1, <3>1, <3>3 DEF PendAt
    <3> QED BY <3>1, <3>2, <3>3, <3>4, SamePend DEF PendAt
  <2>4. ASSUME NEW prio \in Prio, OSTaskResume(prio) PROVE PendAt(t)'
    <3> DEFINE u == OSTCBPrioTbl[prio]
    <3>1. /\ u \in Task /\ Call("OSTaskResume")
          /\ \E b \in BOOLEAN : Returns(b)
          /\ OSTCBStat' = [OSTCBStat EXCEPT ![u] = @ \ {"SUSPEND"}]
          /\ UNCHANGED <<OSTCBStatPend, OSTCBDly, OSTCBEventPtr>>
      BY <2>4 DEF OSTaskResume, NamesTask
    <3>2. Moves(t)
      BY <2>1, <3>1, ReturnsMoves
    <3>3. PendAt(t)
      BY <1>1 DEF PendSound
    <3>4. /\ OSTCBStat'[t] \subseteq {"MUTEX", "SUSPEND"}
          /\ "MUTEX" \in OSTCBStat'[t] <=> "MUTEX" \in OSTCBStat[t]
      BY <1>1, <3>1, <3>3 DEF PendAt
    <3> QED BY <3>1, <3>2, <3>3, <3>4, SamePend DEF PendAt
  <2>5. ASSUME NEW old \in Prio, NEW new \in Prio, OSTaskChangePrio(old, new)
        PROVE  FALSE
    BY <1>1, <2>5 DEF OSTaskChangePrio, Call, TaskCall, IsrCall, NoChangePrio
  <2> QED BY <1>6, <2>2, <2>3, <2>4, <2>5 DEF TaskControl
<1> QED BY <1>4, <1>5, <1>6 DEF Next

\* A step keeps the control blocks of the tasks in agreement with where they
\* stand.
LEMMA PendStep ==
  ASSUME NoChangePrio, IInv, Next, Disciplined
  PROVE  PendSound'
<1>1. /\ OSTCBCur \in Task
      /\ OSTCBStat \in [Task -> SUBSET OS_STAT]
      /\ OSTCBStatPend \in [Task -> {"OK", "TO", "ABORT"}]
      /\ OSTCBDly \in [Task -> 0 .. MaxDly]
      /\ OSTCBEventPtr \in [Task -> Event \cup {Null}]
      /\ pc \in [Task -> Places] /\ pevent \in [Task -> Event \cup {Null}]
      /\ Null \notin Event
      /\ PendSound
  BY CoreAssumption
  DEF IInv, TypeOK, TcbTypeOK, SwitchTypeOK, FlowTypeOK, CoreAssumption
<1>2. CASE ~MutexNext
  BY <1>2, ControlPend
<1> SUFFICES ASSUME NEW t \in Task, MutexNext PROVE PendAt(t)'
  BY <1>2 DEF PendSound
<1>3. ASSUME NEW e \in Event, OSMutexAccept(e) \/ OSMutexPend_Take(e) PROVE PendAt(t)'
  <2>1. InTask("app") /\ Returns(FALSE) /\ UNCHANGED tcbVars
    BY <1>3 DEF OSMutexAccept, OSMutexPend_Take, MutexCall, TaskCall, OSMutex_Take
  <2> QED BY <2>1, ReturnsMoves, FramePend DEF tcbVars
<1>4. ASSUME NEW e \in Event, NEW timeout \in 0 .. MaxDly, OSMutexPend_Block(e, timeout)
      PROVE  PendAt(t)'
  <2> DEFINE c == OSTCBCur
  <2>1. /\ OSTCBStat' = [OSTCBStat EXCEPT ![c] = @ \cup {"MUTEX"}]
        /\ OSTCBStatPend' = [OSTCBStatPend EXCEPT ![c] = "OK"]
        /\ OSTCBDly' = [OSTCBDly EXCEPT ![c] = timeout]
        /\ OSTCBEventPtr' = [OSTCBEventPtr EXCEPT ![c] = e]
        /\ pc' = [pc EXCEPT ![c] = "OSPend_Sched"]
        /\ pevent' = [pevent EXCEPT ![c] = e]
    BY <1>4 DEF OSMutexPend_Block, GoTo
  <2>2. PendAt(t)
    BY <1>1 DEF PendSound
  <2>3. CASE t = c
    <3>1. OSTCBStat'[t] \subseteq {"MUTEX", "SUSPEND"} /\ "MUTEX" \in OSTCBStat'[t]
      BY <1>1, <2>1, <2>2, <2>3 DEF PendAt
    <3>2. OSTCBEventPtr'[t] = e /\ pc'[t] = "OSPend_Sched" /\ pevent'[t] = e
      BY <1>1, <2>1, <2>3
    <3> QED BY <1>1, <3>1, <3>2 DEF PendAt, PendPlaces
  <2>4. CASE t # c
    <3>1. Moves(t)
      BY <1>1, <2>1, <2>4 DEF Moves
    <3> QED BY <1>1, <2>1, <2>4, <3>1, FramePend
  <2> QED BY <2>3, <2>4
<1>5. CASE OSMutexPend_Tail
  <2> DEFINE c == OSTCBCur
  <2>1. /\ OSTCBStat' = [OSTCBStat EXCEPT ![c] = {}]
        /\ OSTCBStatPend' = [OSTCBStatPend EXCEPT ![c] = "OK"]
        /\ OSTCBDly' = OSTCBDly
        /\ OSTCBEventPtr' = [OSTCBEventPtr EXCEPT ![c] = Null]
        /\ Returns(FALSE) /\ InTask("OSPend_Tail")
    BY <1>5 DEF OSMutexPend_Tail, OSPend_Tail
  <2>2. pc' = [pc EXCEPT ![c] = "app"] /\ pevent' = [pevent EXCEPT ![c] = Null]
    BY <2>1 DEF Returns, GoTo, InTask, Runs
  <2>3. CASE t = c
    BY <1>1, <2>1, <2>2, <2>3 DEF PendAt, PendPlaces
  <2>4. CASE t # c
    <3>1. Moves(t)
      BY <1>1, <2>2, <2>4 DEF Moves
    <3> QED BY <1>1, <2>1, <2>4, <3>1, FramePend
  <2> QED BY <2>3, <2>4
<1>6. ASSUME NEW e \in Event, OSMutexPost(e) PROVE PendAt(t)'
  <2>1. /\ InTask("app")
        /\ \E b \in BOOLEAN : Returns(b)
        /\ \E T : WaitEnds(e, T, "MUTEX", "OK")
    BY <1>6 DEF OSMutexPost, MutexCall, TaskCall
  <2> QED BY <2>1, ReturnsMoves, EndsPend
<1>7. ASSUME NEW e \in Event, NEW always \in BOOLEAN, OSMutexDel(e, always) PROVE PendAt(t)'
  <2>1. /\ InTask("app")
        /\ \E b \in BOOLEAN : Returns(b)
        /\ \E T : WaitEnds(e, T, "MUTEX", "ABORT")
    BY <1>7 DEF OSMutexDel, MutexCall, TaskCall
  <2> QED BY <2>1, ReturnsMoves, EndsPend
<1>8. ASSUME NEW prio \in NewPCP, OSMutexCreate(prio) PROVE PendAt(t)'
  <2>1. InTask("app") /\ Returns(FALSE) /\ UNCHANGED tcbVars
    BY <1>8 DEF OSMutexCreate, TaskCall
  <2> QED BY <2>1, ReturnsMoves, FramePend DEF tcbVars
<1> QED BY <1>3, <1>4, <1>5, <1>6, <1>7, <1>8 DEF MutexNext

-----------------------------------------------------------------------------
(* The scheduler and the context switch.                                   *)

\* What a thread's service does to the scheduler's variables.
ThreadStep ==
  /\ Runs
  /\ OSPrioCur' = OSTCBPrio'[OSTCBCur]
  /\ pc'[OSTCBCur] # "OSPend_Tail"
  /\ OSLockNesting > 0 => pc'[OSTCBCur] \notin PendPlaces
  /\ UNCHANGED <<OSTCBCur, PendSV, nestVars>>

LEMMA ThreadSwitch ==
  ASSUME IInv, ThreadStep
  PROVE  SwitchSound'
BY DEF IInv, SwitchSound, ThreadStep, Runs, nestVars

\* What an ISR's service or its tick does to them.
IsrStep ==
  /\ OSIntNesting > 0
  /\ \A t \in Task : "MUTEX" \in OSTCBStat'[t] => "MUTEX" \in OSTCBStat[t]
  /\ UNCHANGED <<OSTCBPrio, switchVars, nestVars, flowVars>>

LEMMA IsrSwitch ==
  ASSUME IInv, IsrStep
  PROVE  SwitchSound'
BY DEF IInv, SwitchSound, IsrStep, TypeOK, SwitchTypeOK, switchVars, nestVars, flowVars

\* A service of the running task that returns leaves it at its place.
LEMMA ReturnsSwitch ==
  ASSUME IInv, InTask("app"), NEW b \in BOOLEAN, Returns(b),
         UNCHANGED <<OSTCBCur, PendSV, nestVars>>, OSPrioCur' = OSTCBPrio'[OSTCBCur]
  PROVE  SwitchSound'
<1>1. pc'[OSTCBCur] \in {"app", "OS_Sched"}
  BY DEF Returns, GoTo, InTask, Runs, IInv, TypeOK, SwitchTypeOK, FlowTypeOK
<1> QED BY <1>1, ThreadSwitch DEF ThreadStep, InTask, PendPlaces

\* OS_SchedNew leads to a ready task, and lets a task go on only if it is ready.
LEMMA SchedNewSwitch ==
  ASSUME IInv, OS_SchedNew
  PROVE  /\ OSTCBPrio[OSTCBHighRdy'] = OSPrioHighRdy'
         /\ OSPrioHighRdy' \in OSRdy
         /\ ~PendSV' => OSTCBPrio[OSTCBCur] \in OSRdy /\ ~PendSV
         /\ UNCHANGED <<OSTCBCur, OSPrioCur>>
BY DEF IInv, TypeOK, SwitchTypeOK, RdySound, SwitchSound, OS_SchedNew

\* The kernel core.
LEMMA CoreSwitch ==
  ASSUME IInv, CoreNext
  PROVE  SwitchSound'
<1>1. /\ OSTCBCur \in Task /\ OSTCBHighRdy \in Task
      /\ pc \in [Task -> Places]
      /\ OSIntNesting \in Nat /\ OSLockNesting \in Nat /\ tickNest \in Nat
      /\ OSTCBStat \in [Task -> SUBSET OS_STAT]
      /\ ptcb \in Seq(Task \ {Idle}) /\ TickSound
      /\ SwitchSound
      /\ \A t \in Task : "MUTEX" \in OSTCBStat[t] => OSTCBPrio[t] \notin OSRdy
  BY CoreAssumption
  DEF IInv, TypeOK, TcbTypeOK, SwitchTypeOK, FlowTypeOK, NestTypeOK, TickTypeOK, RdySound,
      CoreAssumption
<1>2. CASE OS_Sched
  <2>1. /\ Runs /\ pc[OSTCBCur] \in {"OS_Sched", "OSPend_Sched"}
        /\ pc' = [pc EXCEPT ![OSTCBCur] = AfterSched[pc[OSTCBCur]]]
        /\ IF OSLockNesting = 0 THEN OS_SchedNew ELSE UNCHANGED switchVars
        /\ UNCHANGED <<OSTCBPrio, OSTCBStat, OSRdy, nestVars>>
    BY <1>2 DEF OS_Sched, AfterSched, GoTo, tcbVars, readyVars
  <2>2. CASE OSLockNesting = 0
    BY <1>1, <2>1, <2>2, SchedNewSwitch DEF SwitchSound, nestVars
  <2>3. CASE OSLockNesting # 0
    <3>1. pc[OSTCBCur] = "OS_Sched" /\ UNCHANGED switchVars
      BY <1>1, <2>1, <2>3 DEF SwitchSound, PendPlaces
    <3>2. pc'[OSTCBCur] = "app"
      BY <1>1, <2>1, <3>1 DEF AfterSched
    <3>3. OSPrioCur' = OSTCBPrio'[OSTCBCur]
      BY <1>1, <2>1, <3>1 DEF SwitchSound, switchVars
    <3> QED BY <2>1, <3>1, <3>2, <3>3, ThreadSwitch DEF ThreadStep, switchVars, PendPlaces
  <2> QED BY <2>2, <2>3
<1>3. CASE PendSV_Handler
  <2>1. /\ PendSV /\ OSIntNesting = 0 /\ ~PendSV'
        /\ OSPrioCur' = OSPrioHighRdy /\ OSTCBCur' = OSTCBHighRdy
        /\ UNCHANGED <<OSTCBPrio, OSTCBStat, OSRdy, OSIntNesting, OSLockNesting>>
    BY <1>3 DEF PendSV_Handler, tcbVars, readyVars, nestVars
  <2>2. OSTCBPrio[OSTCBHighRdy] = OSPrioHighRdy /\ OSPrioHighRdy \in OSRdy
    BY <1>1, <2>1 DEF SwitchSound
  <2>3. "MUTEX" \notin OSTCBStat[OSTCBHighRdy]
    BY <1>1, <2>2
  <2>4. ~(OSLockNesting > 0)
    BY <1>1, <2>1 DEF SwitchSound
  <2> QED BY <2>1, <2>2, <2>3, <2>4 DEF SwitchSound
<1>4. CASE OSSchedLock
  <2>1. /\ Runs /\ pc[OSTCBCur] = "app"
        /\ UNCHANGED <<OSTCBPrio, OSTCBCur, OSPrioCur, OSPrioHighRdy, OSTCBHighRdy, PendSV, pc>>
    BY <1>4 DEF OSSchedLock, TaskCall, InTask, tcbVars, switchVars, flowVars
  <2>2. OSPrioCur = OSTCBPrio[OSTCBCur] /\ ~PendSV
    BY <1>1, <2>1 DEF SwitchSound, Runs
  <2> QED BY <2>1, <2>2 DEF SwitchSound, PendPlaces
<1>5. CASE OSSchedUnlock
  <2>1. /\ Runs /\ pc[OSTCBCur] = "app" /\ OSIntNesting' = OSIntNesting
        /\ Returns(OSLockNesting = 1)
        /\ UNCHANGED <<OSTCBPrio, OSTCBCur, OSPrioCur, OSPrioHighRdy, OSTCBHighRdy, PendSV>>
    BY <1>5 DEF OSSchedUnlock, TaskCall, InTask, tcbVars, switchVars
  <2>2. pc'[OSTCBCur] \in {"app", "OS_Sched"}
    BY <1>1, <2>1 DEF Returns, GoTo, Runs
  <2>3. OSPrioCur = OSTCBPrio[OSTCBCur] /\ ~PendSV
    BY <1>1, <2>1 DEF SwitchSound, Runs
  <2> QED BY <2>1, <2>2, <2>3 DEF SwitchSound, PendPlaces
<1>6. CASE OSIntEnter
  <2>1. /\ OSIntNesting' # 0
        /\ UNCHANGED <<OSTCBPrio, OSTCBStat, OSTCBCur, OSPrioCur, OSPrioHighRdy, OSTCBHighRdy,
                       PendSV, OSLockNesting, pc>>
    BY <1>1, <1>6 DEF OSIntEnter, tcbVars, switchVars, flowVars
  <2> QED BY <1>1, <2>1 DEF SwitchSound
<1>7. CASE OSIntExit
  <2>1. /\ OSIntNesting' = OSIntNesting - 1
        /\ UNCHANGED <<OSTCBPrio, OSTCBStat, OSRdy, OSLockNesting, pc>>
    BY <1>7 DEF OSIntExit, tcbVars, readyVars, flowVars
  <2>2. CASE OSIntNesting = 1 /\ OSLockNesting = 0
    <3>1. OS_SchedNew
      BY <1>7, <2>2 DEF OSIntExit
    <3> QED BY <1>1, <2>1, <2>2, <3>1, SchedNewSwitch DEF SwitchSound
  <2>3. CASE ~(OSIntNesting = 1 /\ OSLockNesting = 0)
    <3>1. UNCHANGED <<OSTCBCur, OSPrioCur, OSPrioHighRdy, OSTCBHighRdy, PendSV>>
      BY <1>7, <2>3 DEF OSIntExit, switchVars
    <3>2. OSIntNesting' = 0 => ~PendSV
      BY <1>1, <2>1, <2>3 DEF SwitchSound
    <3> QED BY <1>1, <2>1, <3>1, <3>2 DEF SwitchSound
  <2> QED BY <2>2, <2>3
<1>8. CASE OSTimeTick
  BY <1>1, <1>8 DEF OSTimeTick, SwitchSound, tcbVars, readyVars, switchVars, nestVars, flowVars
<1>9. CASE OSTimeTick_Step
  <2>1. /\ OSIntNesting > 0 /\ tickNest > 0
        /\ UNCHANGED <<OSTCBPrio, switchVars, nestVars, flowVars>>
    BY <1>1, <1>9 DEF OSTimeTick_Step, DlyEnds
  <2>2. Head(ptcb) \in Task
    BY <1>1, <2>1, HeadTailProperties DEF TickSound
  <2>3. OSTCBStat' \in {OSTCBStat, [OSTCBStat EXCEPT ![Head(ptcb)] = @ \ OS_STAT_PEND_ANY]}
    BY <1>9 DEF OSTimeTick_Step, DlyEnds
  <2>4. \A t \in Task : "MUTEX" \in OSTCBStat'[t] => "MUTEX" \in OSTCBStat[t]
    BY <1>1, <2>2, <2>3
  <2> QED BY <2>1, <2>4, IsrSwitch DEF IsrStep
<1> QED BY <1>2, <1>3, <1>4, <1>5, <1>6, <1>7, <1>8, <1>9 DEF CoreNext

\* The services on tasks, called by a task or by an ISR.
LEMMA TaskSwitch ==
  ASSUME NoChangePrio, IInv,
         (\E ticks \in 1 .. MaxDly : OSTimeDly(ticks)) \/ TaskControl
  PROVE  SwitchSound'
<1>1. /\ OSTCBCur \in Task
      /\ OSTCBStat \in [Task -> SUBSET OS_STAT]
      /\ OSPrioCur = OSTCBPrio[OSTCBCur]
  BY DEF IInv, TypeOK, TcbTypeOK, SwitchTypeOK, SwitchSound
<1>2. ASSUME NEW service, Call(service), NEW b \in BOOLEAN, Returns(b),
             UNCHANGED <<OSTCBPrio, switchVars, nestVars>>,
             \A t \in Task : "MUTEX" \in OSTCBStat'[t] => "MUTEX" \in OSTCBStat[t]
      PROVE  SwitchSound'
  <2>1. CASE OSIntNesting > 0
    BY <1>2, <2>1, IsrSwitch DEF IsrStep, Returns
  <2>2. CASE ~(OSIntNesting > 0)
    <3>1. InTask("app")
      BY <1>2, <2>2 DEF Call, TaskCall, IsrCall, InIsr
    <3>2. UNCHANGED <<OSTCBCur, PendSV, nestVars>> /\ OSPrioCur' = OSTCBPrio'[OSTCBCur]
      BY <1>1, <1>2 DEF switchVars
    <3> QED BY <1>2, <3>1, <3>2, ReturnsSwitch
  <2> QED BY <2>1, <2>2
<1>3. ASSUME NEW ticks \in 1 .. MaxDly, OSTimeDly(ticks) PROVE SwitchSound'
  <2>1. /\ Call("OSTimeDly") /\ Returns(TRUE)
        /\ UNCHANGED <<OSTCBPrio, OSTCBStat, switchVars, nestVars>>
    BY <1>3 DEF OSTimeDly, Call
  <2> QED BY <1>2, <2>1
<1>4. ASSUME NEW prio \in Prio, OSTimeDlyResume(prio) PROVE SwitchSound'
  <2>1. /\ Call("OSTimeDlyResume") /\ \E b \in BOOLEAN : Returns(b)
        /\ UNCHANGED <<OSTCBPrio, switchVars, nestVars>>
        /\ OSTCBStat' = [OSTCBStat EXCEPT ![OSTCBPrioTbl[prio]] = @ \ OS_STAT_PEND_ANY]
    BY <1>4 DEF OSTimeDlyResume, DlyEnds
  <2>2. \A t \in Task : "MUTEX" \in OSTCBStat'[t] => "MUTEX" \in OSTCBStat[t]
    BY <1>1, <2>1
  <2> QED BY <1>2, <2>1, <2>2
<1>5. ASSUME NEW prio \in Prio, OSTaskSuspend(prio) PROVE SwitchSound'
  <2>1. /\ Call("OSTaskSuspend") /\ \E b \in BOOLEAN : Returns(b)
        /\ UNCHANGED <<OSTCBPrio, switchVars, nestVars>>
        /\ OSTCBStat' = [OSTCBStat EXCEPT ![OSTCBPrioTbl[prio]] = @ \cup {"SUSPEND"}]
    BY <1>5 DEF OSTaskSuspend
  <2>2. \A t \in Task : "MUTEX" \in OSTCBStat'[t] => "MUTEX" \in OSTCBStat[t]
    BY <1>1, <2>1
  <2> QED BY <1>2, <2>1, <2>2
<1>6. ASSUME NEW prio \in Prio, OSTaskResume(prio) PROVE SwitchSound'
  <2>1. /\ Call("OSTaskResume") /\ \E b \in BOOLEAN : Returns(b)
        /\ UNCHANGED <<OSTCBPrio, switchVars, nestVars>>
        /\ OSTCBStat' = [OSTCBStat EXCEPT ![OSTCBPrioTbl[prio]] = @ \ {"SUSPEND"}]
    BY <1>6 DEF OSTaskResume
  <2>2. \A t \in Task : "MUTEX" \in OSTCBStat'[t] => "MUTEX" \in OSTCBStat[t]
    BY <1>1, <2>1
  <2> QED BY <1>2, <2>1, <2>2
<1>7. ASSUME NEW old \in Prio, NEW new \in Prio, OSTaskChangePrio(old, new)
      PROVE  FALSE
  BY <1>1, <1>7 DEF OSTaskChangePrio, Call, TaskCall, IsrCall, NoChangePrio
<1> QED BY <1>3, <1>4, <1>5, <1>6, <1>7 DEF TaskControl

\* OSPrioCur follows the running task when its priority is restored, because
\* only the owner itself restores it.
LEMMA RestoredSwitch ==
  ASSUME IInv, NEW e \in Event, InTask("app"), NEW b \in BOOLEAN, Returns(b),
         NEW restore \in BOOLEAN, restore => Owns(OSTCBCur, e),
         NEW T, OSMutex_RdyAtPrio(e, restore, T), UNCHANGED nestVars
  PROVE  SwitchSound'
<1>1. /\ OSTCBCur \in Task /\ OSTCBPrio \in [Task -> Prio]
      /\ OSPrioCur = OSTCBPrio[OSTCBCur]
  BY DEF IInv, TypeOK, TcbTypeOK, SwitchTypeOK, SwitchSound
<1>2. OSPrioCur' = OSTCBPrio'[OSTCBCur]
  BY <1>1 DEF OSMutex_RdyAtPrio, Owns
<1> QED BY <1>2, ReturnsSwitch DEF OSMutex_RdyAtPrio

LEMMA SwitchStep ==
  ASSUME NoChangePrio, IInv, Next, Disciplined
  PROVE  SwitchSound'
<1>1. /\ OSTCBCur \in Task /\ OSTCBPrio \in [Task -> Prio]
      /\ OSPrioCur = OSTCBPrio[OSTCBCur]
      /\ pc \in [Task -> Places]
  BY DEF IInv, TypeOK, TcbTypeOK, SwitchTypeOK, FlowTypeOK, SwitchSound
<1>2. CASE ~MutexNext
  BY <1>2, CoreSwitch, TaskSwitch DEF Next
<1>3. ASSUME NEW e \in Event, OSMutexAccept(e) \/ OSMutexPend_Take(e) PROVE SwitchSound'
  <2>1. InTask("app") /\ Returns(FALSE) /\ UNCHANGED <<OSTCBPrio, switchVars, nestVars>>
    BY <1>3 DEF OSMutexAccept, OSMutexPend_Take, MutexCall, TaskCall, OSMutex_Take, tcbVars
  <2> QED BY <1>1, <2>1, ReturnsSwitch DEF switchVars
<1>4. ASSUME NEW e \in Event, NEW timeout \in 0 .. MaxDly, OSMutexPend_Block(e, timeout)
      PROVE  SwitchSound'
  <2>1. /\ Runs /\ OSLockNesting = 0
        /\ pc' = [pc EXCEPT ![OSTCBCur] = "OSPend_Sched"]
        /\ UNCHANGED <<switchVars, nestVars>>
    BY <1>4 DEF OSMutexPend_Block, MutexCall, TaskCall, InTask, GoTo
  <2>2. pc'[OSTCBCur] = "OSPend_Sched"
    BY <1>1, <2>1
  <2>3. OSTCBPrio'[OSTCBCur] = OSTCBPrio[OSTCBCur]
    BY <1>1, <1>4, BlockEffect DEF Blocked
  <2> QED BY <1>1, <2>1, <2>2, <2>3, ThreadSwitch DEF ThreadStep, switchVars
<1>5. CASE OSMutexPend_Tail
  <2>1. Runs /\ Returns(FALSE) /\ UNCHANGED <<OSTCBPrio, switchVars, nestVars>>
    BY <1>5 DEF OSMutexPend_Tail, OSPend_Tail, InTask, SwitchUnchanged
  <2>2. pc'[OSTCBCur] = "app"
    BY <1>1, <2>1 DEF Returns, GoTo, Runs
  <2> QED BY <1>1, <2>1, <2>2, ThreadSwitch DEF ThreadStep, switchVars, PendPlaces
<1>6. ASSUME NEW e \in Event, OSMutexPost(e) PROVE SwitchSound'
  <2>1. /\ InTask("app") /\ Owns(OSTCBCur, e) /\ UNCHANGED nestVars
        /\ \E b \in BOOLEAN : Returns(b)
        /\ \E T : OSMutex_RdyAtPrio(e, Raised(e), T)
        /\ Raised(e) \in BOOLEAN
    BY <1>6 DEF OSMutexPost, MutexCall, TaskCall, MayPost, Raised
  <2> QED BY <2>1, RestoredSwitch
<1>7. ASSUME NEW e \in Event, NEW always \in BOOLEAN, OSMutexDel(e, always) PROVE SwitchSound'
  <2> DEFINE restore == always /\ OSEventPtr[e] # Null /\ Raised(e)
  <2>1. /\ InTask("app") /\ UNCHANGED nestVars /\ IsMutex(e)
        /\ \E b \in BOOLEAN : Returns(b)
        /\ \E T : OSMutex_RdyAtPrio(e, restore, T)
        /\ restore \in BOOLEAN
    BY <1>7 DEF OSMutexDel, MutexCall, TaskCall, IsMutex
  <2>2. restore => OwnerIsRaised(e)
    BY <2>1, OwnerFacts DEF OwnerIsRaised
  <2>3. restore => Owns(OSTCBCur, e)
    BY <1>7, <2>2, DelEffect
  <2> HIDE DEF restore
  <2> QED BY <2>1, <2>3, RestoredSwitch
<1>8. ASSUME NEW prio \in NewPCP, OSMutexCreate(prio) PROVE SwitchSound'
  <2>1. InTask("app") /\ Returns(FALSE) /\ UNCHANGED <<OSTCBPrio, switchVars, nestVars>>
    BY <1>8 DEF OSMutexCreate, TaskCall, tcbVars
  <2> QED BY <1>1, <2>1, ReturnsSwitch DEF switchVars
<1> QED BY <1>2, <1>3, <1>4, <1>5, <1>6, <1>7, <1>8 DEF MutexNext

-----------------------------------------------------------------------------
(* The initial states.                                                     *)

\* The table entry of a task that has been created.
LEMMA CreatedFacts ==
  /\ \A t \in Task : CreatedTasks[InitPrio[t]] = t
  /\ \A p \in Prio : CreatedTasks[p] \in Task \cup {Null}
  /\ \A p \in Prio : CreatedTasks[p] \in Task => InitPrio[CreatedTasks[p]] = p
  /\ OS_TCB_RESERVED \notin Task /\ OS_TCB_RESERVED # Null /\ Null \notin Task
BY CoreAssumption, MutexAssumption DEF CreatedTasks, CoreAssumption, MutexAssumption

\* The control block after an unused one is the next of the list.
LEMMA NextUnusedFacts ==
  ASSUME NEW e \in Event, NextUnused(e) # Null
  PROVE  \E i \in 1 .. Len(InitFreeList) - 1 :
           /\ InitFreeList[i] = e
           /\ i + 1 \in 1 .. Len(InitFreeList) /\ i \in 1 .. Len(InitFreeList)
           /\ InitFreeList[i + 1] \in Event
           /\ NextUnused(e) = InitFreeList[i + 1]
<1> DEFINE I == 1 .. Len(InitFreeList) - 1
<1>1. Len(InitFreeList) \in Nat /\ \A i \in 1 .. Len(InitFreeList) : InitFreeList[i] \in Event
  BY CoreAssumption, ElementOfSeq, LenProperties DEF CoreAssumption
<1>2. \A i \in I : i \in Int /\ 1 + i = i + 1 /\ i + 1 \in 1 .. Len(InitFreeList)
                   /\ i \in 1 .. Len(InitFreeList)
  BY <1>1
<1>3. /\ \E i \in I : InitFreeList[i] = e
      /\ NextUnused(e) = InitFreeList[1 + CHOOSE i \in I : InitFreeList[i] = e]
  BY DEF NextUnused
<1> HIDE DEF I
<1>4. PICK i \in I : InitFreeList[i] = e /\ NextUnused(e) = InitFreeList[1 + i]
  BY <1>3
<1>5. /\ i + 1 \in 1 .. Len(InitFreeList) /\ i \in 1 .. Len(InitFreeList)
      /\ NextUnused(e) = InitFreeList[i + 1]
  BY <1>2, <1>4
<1>6. InitFreeList[i + 1] \in Event
  BY <1>1, <1>5
<1> QED BY <1>4, <1>5, <1>6 DEF I

\* OS_InitEventList makes one chain of the unused control blocks.
LEMMA InitChain ==
  ASSUME Init
  PROVE  /\ FreeChain
         /\ OSEventFreeList \in Event \cup {Null}
         /\ OSEventPtr \in [Event -> Event \cup {Null}]
         /\ \A e \in Event : IsMutex(e) => OSEventPtr[e] = Null
<1>1. /\ OSEventType = [e \in Event |-> IF e \in InitMutex THEN "MUTEX" ELSE "UNUSED"]
      /\ OSEventFreeList = IF InitFreeList = <<>> THEN Null ELSE Head(InitFreeList)
      /\ OSEventPtr = [e \in Event |-> NextUnused(e)]
  BY DEF Init, StartedInit, OS_InitEventList
<1>2. /\ Len(InitFreeList) \in Nat /\ Null \notin Event
      /\ \A i \in 1 .. Len(InitFreeList) : InitFreeList[i] \in Event
      /\ \A i, j \in 1 .. Len(InitFreeList) : InitFreeList[i] = InitFreeList[j] => i = j
  BY CoreAssumption, CreatedAssumption, ElementOfSeq, LenProperties
  DEF CoreAssumption, CreatedAssumption
<1>3. \A e \in Event : ~IsMutex(e) <=> \E i \in 1 .. Len(InitFreeList) : InitFreeList[i] = e
  BY <1>1 DEF IsMutex, InitMutex
<1>4. OSEventFreeList # Null =>
        /\ 1 \in 1 .. Len(InitFreeList)
        /\ OSEventFreeList = InitFreeList[1]
  <2>1. ASSUME InitFreeList # <<>>
        PROVE  1 \in 1 .. Len(InitFreeList) /\ Head(InitFreeList) = InitFreeList[1]
    BY <2>1, CoreAssumption, EmptySeq, LenProperties, HeadTailProperties DEF CoreAssumption
  <2> QED BY <1>1, <2>1
<1>5. OSEventFreeList \in Event \cup {Null}
  BY <1>2, <1>4
<1>6. OSEventFreeList # Null => ~IsMutex(OSEventFreeList)
  BY <1>2, <1>3, <1>4
<1>7. ASSUME NEW e \in Event, OSEventPtr[e] # Null
      PROVE  /\ OSEventPtr[e] \in Event
             /\ ~IsMutex(e) /\ ~IsMutex(OSEventPtr[e])
             /\ OSEventPtr[e] # OSEventFreeList
             /\ \A f \in Event : OSEventPtr[f] = OSEventPtr[e] => e = f
  <2>1. PICK i \in 1 .. Len(InitFreeList) - 1 :
           /\ InitFreeList[i] = e
           /\ i + 1 \in 1 .. Len(InitFreeList) /\ i \in 1 .. Len(InitFreeList)
           /\ InitFreeList[i + 1] \in Event
           /\ NextUnused(e) = InitFreeList[i + 1]
    BY <1>1, <1>7, NextUnusedFacts
  <2>2. OSEventPtr[e] = InitFreeList[i + 1]
    BY <1>1, <2>1
  <2>3. ~IsMutex(e) /\ ~IsMutex(OSEventPtr[e])
    BY <1>3, <2>1, <2>2
  <2>4. OSEventPtr[e] # OSEventFreeList
    <3>1. i + 1 # 1
      BY <1>2
    <3> QED BY <1>2, <1>4, <1>7, <2>1, <2>2, <3>1
  <2>5. ASSUME NEW f \in Event, OSEventPtr[f] = OSEventPtr[e] PROVE e = f
    <3>1. NextUnused(f) # Null
      BY <1>1, <1>7, <2>5
    <3>2. PICK j \in 1 .. Len(InitFreeList) - 1 :
             /\ InitFreeList[j] = f
             /\ j + 1 \in 1 .. Len(InitFreeList)
             /\ NextUnused(f) = InitFreeList[j + 1]
      BY <3>1, NextUnusedFacts
    <3>3. InitFreeList[j + 1] = InitFreeList[i + 1]
      BY <1>1, <2>2, <2>5, <3>2
    <3>4. j + 1 = i + 1
      BY <1>2, <2>1, <3>2, <3>3
    <3>5. i = j
      BY <1>2, <3>4
    <3> QED BY <2>1, <3>2, <3>5
  <2> QED BY <2>1, <2>2, <2>3, <2>4, <2>5
<1>8. FreeChain
  BY <1>6, <1>7 DEF FreeChain
<1>9. OSEventPtr \in [Event -> Event \cup {Null}]
  BY <1>1, <1>7
<1> QED BY <1>5, <1>7, <1>8, <1>9

\* The types hold when the system starts.
LEMMA InitTypes ==
  ASSUME Init
  PROVE  TypeOK
<1>1. /\ TasksStarted
      /\ OSTCBPrioTbl = [p \in Prio |-> IF \E e \in InitMutex : InitPCP[e] = p
                                         THEN OS_TCB_RESERVED ELSE CreatedTasks[p]]
      /\ OSEventType = [e \in Event |-> IF e \in InitMutex THEN "MUTEX" ELSE "UNUSED"]
      /\ OSMutexPCP = [e \in Event |-> IF e \in InitMutex THEN InitPCP[e] ELSE 0]
      /\ OSOwnerPrio = [e \in Event |-> IF e \in InitMutex THEN OS_MUTEX_AVAILABLE ELSE 0]
  BY DEF Init, StartedInit
<1>2. \A t \in Task : InitPrio[t] \in Prio
  BY CoreAssumption DEF CoreAssumption
<1>3. 0 \in Prio /\ InitPCP \in [Event -> Prio \cup {OS_PRIO_MUTEX_CEIL_DIS}]
  BY CoreAssumption, MutexAssumption DEF CoreAssumption, MutexAssumption, Prio
<1>4. OSPrioHighRdy \in Prio /\ OSTCBHighRdy \in Task
  <2>1. PICK t \in Task : OSPrioHighRdy = InitPrio[t]
    BY <1>1 DEF TasksStarted
  <2> QED BY <1>1, <1>2, <2>1, CreatedFacts DEF TasksStarted
<1>5. TcbTypeOK
  BY <1>1, CoreAssumption DEF TasksStarted, TcbTypeOK, CoreAssumption
<1>6. SwitchTypeOK
  BY <1>1, <1>4 DEF TasksStarted, SwitchTypeOK
<1>7. NestTypeOK
  BY <1>1, CoreAssumption DEF TasksStarted, NestTypeOK, CoreAssumption
<1>8. TickTypeOK
  <2>1. <<>> \in Seq(Task \ {Idle})
    OBVIOUS
  <2> QED BY <1>1, <2>1, CoreAssumption DEF TasksStarted, TickTypeOK, CoreAssumption
<1>9. FlowTypeOK
  BY <1>1 DEF TasksStarted, FlowTypeOK, Places
<1>10. MutexTypeOK
  <2>1. OSRdy \subseteq Prio
    BY <1>1, <1>2 DEF TasksStarted
  <2>2. OSTCBPrioTbl \in [Prio -> Task \cup {Null, OS_TCB_RESERVED}]
    BY <1>1, CreatedFacts
  <2>3. OSEventWait \in [Event -> SUBSET Prio]
    BY <1>1 DEF TasksStarted
  <2>4. OSMutexPCP \in [Event -> Prio \cup {OS_PRIO_MUTEX_CEIL_DIS}]
    BY <1>1, <1>3
  <2>5. OSOwnerPrio \in [Event -> Prio \cup {OS_MUTEX_AVAILABLE}]
    BY <1>1, <1>3
  <2>6. OSEventType \in [Event -> {"UNUSED", "MUTEX"}]
    BY <1>1
  <2>7. OSEventPtr \in [Event -> Event \cup Task \cup {Null}] /\ OSEventFreeList \in Event \cup {Null}
    BY InitChain
  <2> QED BY <2>1, <2>2, <2>3, <2>4, <2>5, <2>6, <2>7 DEF MutexTypeOK
<1> QED BY <1>5, <1>6, <1>7, <1>8, <1>9, <1>10, TypeGroups

\* The invariant holds when the system starts: every task is ready at its own
\* priority, every mutex is free.
LEMMA InitInv ==
  Init => IInv
<1> SUFFICES ASSUME Init PROVE IInv
  OBVIOUS
<1>1. /\ TasksStarted
      /\ OSTCBPrioTbl = [p \in Prio |-> IF \E e \in InitMutex : InitPCP[e] = p
                                         THEN OS_TCB_RESERVED ELSE CreatedTasks[p]]
      /\ OSEventType = [e \in Event |-> IF e \in InitMutex THEN "MUTEX" ELSE "UNUSED"]
      /\ OSMutexPCP = [e \in Event |-> IF e \in InitMutex THEN InitPCP[e] ELSE 0]
      /\ OSOwnerPrio = [e \in Event |-> IF e \in InitMutex THEN OS_MUTEX_AVAILABLE ELSE 0]
  BY DEF Init, StartedInit
<1>2. /\ OSTCBPrio = InitPrio /\ OSEventWait = [e \in Event |-> {}]
      /\ OSTCBEventPtr = [t \in Task |-> Null]
      /\ OSTCBStat = [t \in Task |-> {}]
      /\ pc = [t \in Task |-> "app"] /\ pevent = [t \in Task |-> Null]
      /\ PendSV = FALSE /\ OSLockNesting = 0 /\ OSIntNesting = 0
      /\ OSRdy = {InitPrio[t] : t \in Task}
      /\ ptcb = <<>> /\ tickNest = 0
  BY <1>1 DEF TasksStarted
<1>3. /\ \A t \in Task : InitPrio[t] \in Prio
      /\ Null \notin Event
      /\ InitMutex \subseteq Event
      /\ \A e \in Event : IsMutex(e) <=> e \in InitMutex
  BY <1>1, CoreAssumption DEF CoreAssumption, InitMutex, IsMutex
<1>4. \A e \in InitMutex : InitPCP[e] \in Prio =>
         /\ \A t \in Task : InitPrio[t] # InitPCP[e]
         /\ \A f \in InitMutex : InitPCP[f] = InitPCP[e] => f = e
  BY CreatedAssumption DEF CreatedAssumption
<1>5. \A t \in Task : OSTCBPrioTbl[InitPrio[t]] = t
  BY <1>1, <1>3, <1>4, CreatedFacts
<1>6. TickSound
  BY <1>2 DEF TickSound
<1>7. PrioSound
  BY <1>1, <1>2, <1>5, CreatedFacts DEF PrioSound, RaisedOnlyAsOwner
<1>8. \A e \in Event : IsMutex(e) =>
         OSEventPtr[e] = Null /\ OSOwnerPrio[e] = OS_MUTEX_AVAILABLE
  BY <1>1, <1>3, InitChain
<1>9. CeilingSound
  <2>1. ReservedIsCeiling
    <3> SUFFICES ASSUME NEW p \in Prio, OSTCBPrioTbl[p] = OS_TCB_RESERVED
                 PROVE  \E e \in Event : OSEventType[e] = "MUTEX" /\ OSMutexPCP[e] = p
      BY DEF ReservedIsCeiling
    <3>1. \E e \in InitMutex : InitPCP[e] = p
      BY <1>1, CreatedFacts
    <3> QED BY <1>1, <1>3, <3>1
  <2>2. \A e \in Event : IsMutex(e) => ~OwnerIsRaised(e) /\ OSMutexPCP[e] = InitPCP[e]
    BY <1>1, <1>3, <1>8, CreatedFacts DEF OwnerIsRaised
  <2> QED BY <1>1, <1>3, <1>4, <2>1, <2>2 DEF CeilingSound
<1>10. OwnerSound
  BY <1>3, <1>8, CreatedFacts DEF OwnerSound, Owns, IsMutex
<1>11. PendSound
  BY <1>2 DEF PendSound, PendAt, PendPlaces
<1>12. WaitSound /\ Inherits
  BY <1>2 DEF WaitSound, Inherits
<1>13. RdySound
  BY <1>2, <1>5 DEF RdySound
<1>14. SwitchSound
  <2>1. OSPrioCur = InitPrio[OSTCBCur]
    <3>1. PICK t \in Task : OSPrioHighRdy = InitPrio[t]
      BY <1>1 DEF TasksStarted
    <3> QED BY <1>1, <3>1, CreatedFacts DEF TasksStarted
  <2>2. OSTCBCur \in Task
    BY InitTypes DEF TypeOK, SwitchTypeOK
  <2> QED BY <1>2, <2>1, <2>2 DEF SwitchSound
<1> QED
  BY InitTypes, InitChain, <1>6, <1>7, <1>9, <1>10, <1>11, <1>12, <1>13, <1>14 DEF IInv

-----------------------------------------------------------------------------
(* The theorems.                                                           *)

\* The invariant is inductive for applications that keep to the rules.
LEMMA Inductive ==
  ASSUME NoChangePrio, IInv, [Next]_vars, [Disciplined]_vars
  PROVE  IInv'
<1>1. CASE Next /\ Disciplined
  BY <1>1, TypeStep, TickStep, PrioStep, CeilingStep, OwnerStep, PendStep, WaitStep, InheritsStep,
     RdyStep, SwitchStep, FreeChainStep
  DEF IInv
<1>2. CASE UNCHANGED vars
  BY <1>2
  DEF vars, coreVars, mutexVars, tcbVars, eventVars, readyVars, switchVars, nestVars, tickVars,
      flowVars, IInv, TypeOK, TcbTypeOK, SwitchTypeOK, NestTypeOK, TickTypeOK, FlowTypeOK,
      TickSound, PrioSound, RaisedOnlyAsOwner, Owns, CeilingSound, ReservedIsCeiling,
      OwnerIsRaised, Raised, IsMutex, OwnerSound, PendSound, PendAt, WaitSound, Inherits,
      RdySound, SwitchSound, FreeChain
<1> QED BY <1>1, <1>2

\* Every state that such an application reaches satisfies it.
THEOREM Invariance ==
  ASSUME NoChangePrio
  PROVE  Spec /\ [][Disciplined]_vars => []IInv
<1>1. IInv /\ [Next]_vars /\ [Disciplined]_vars => IInv'
  BY Inductive
<1> QED BY InitInv, <1>1, PTL DEF Spec

\* The kernel's variables keep their types.
THEOREM TypeCorrect ==
  ASSUME NoChangePrio
  PROVE  Spec /\ [][Disciplined]_vars => []TypeOK
<1>1. IInv => TypeOK
  BY DEF IInv
<1> QED BY Invariance, <1>1, PTL

\* No task waits for a mutex whose owner runs at a lower priority: neither the
\* timeout nor the deletion of another waiter, nor a post that hands the mutex
\* to one of several waiters undoes the inheritance.
THEOREM InheritanceCorrect ==
  ASSUME NoChangePrio
  PROVE  Spec /\ [][Disciplined]_vars => []Inherits
<1>1. IInv => Inherits
  BY DEF IInv
<1> QED BY Invariance, <1>1, PTL

\* Every raise of a priority is undone with the ownership that was its reason.
THEOREM RaisesAreUndone ==
  ASSUME NoChangePrio
  PROVE  Spec /\ [][Disciplined]_vars => []RaisedOnlyAsOwner
<1>1. IInv => RaisedOnlyAsOwner
  BY DEF IInv, PrioSound
<1> QED BY Invariance, <1>1, PTL

\* OSTCBPrioTbl names every task at the priority it runs at, and reserves
\* exactly the ceilings of mutexes.
THEOREM CeilingsAreSound ==
  ASSUME NoChangePrio
  PROVE  Spec /\ [][Disciplined]_vars => []NoPrioLost
<1>1. IInv => NoPrioLost
  BY DEF IInv, PrioSound, CeilingSound, NoPrioLost, PrioFindsTask
<1> QED BY Invariance, <1>1, PTL

\* A second entry of a task is the one it comes back to as an owner, and a
\* ceiling is reserved unless its owner is raised to it.
THEOREM CeilingTblCorrect ==
  ASSUME NoChangePrio
  PROVE  Spec /\ [][Disciplined]_vars => []CeilingTblSound
<1>1. ASSUME IInv PROVE CeilingTblSound
  <2>1. ASSUME NEW p \in Prio, OSTCBPrioTbl[p] \in Task, OSTCBPrio[OSTCBPrioTbl[p]] # p
        PROVE  \E e \in Event : Owns(OSTCBPrioTbl[p], e) /\ OSOwnerPrio[e] = p
    <3> DEFINE t == OSTCBPrioTbl[p]
    <3>1. InitPrio[t] = p
      BY <1>1, <2>1 DEF IInv, PrioSound
    <3>2. PICK e \in Event : Owns(t, e)
      BY <1>1, <2>1, <3>1 DEF IInv, PrioSound, RaisedOnlyAsOwner
    <3>3. IsMutex(e) /\ OSEventPtr[e] = t /\ t # Null
      BY <2>1, <3>2, CoreAssumption DEF Owns, IsMutex, CoreAssumption
    <3> QED BY <1>1, <3>1, <3>2, <3>3, OwnerFacts
  <2>2. \A e \in Event : IsMutex(e) /\ OSMutexPCP[e] \in Prio =>
          OSTCBPrioTbl[OSMutexPCP[e]] =
            IF OSEventPtr[e] # Null /\ Raised(e) THEN OSEventPtr[e] ELSE OS_TCB_RESERVED
    <3> TAKE e \in Event
    <3> HAVE IsMutex(e) /\ OSMutexPCP[e] \in Prio
    <3>1. OSEventPtr[e] # Null <=> OSEventPtr[e] \in Task
      BY <1>1, CoreAssumption DEF IInv, OwnerSound, CoreAssumption
    <3> QED BY <1>1, <3>1 DEF IInv, CeilingSound, OwnerIsRaised
  <2> QED BY <1>1, <2>1, <2>2 DEF CeilingTblSound, IInv, IsMutex, Raised
<1> QED BY Invariance, <1>1, PTL
=============================================================================
