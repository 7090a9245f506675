------------------------ MODULE UcosMutexRefinement -------------------------
(***************************************************************************)
(* The proof that a mutex of UcosMutex implements OwnedMutex, for every     *)
(* number of tasks, priorities, mutexes, ceilings and nested interrupts: a  *)
(* critical section that touches TheMutex is one step of the abstract       *)
(* mutex, one that raises or restores the owner of another mutex gives a    *)
(* caller another priority, every other step of the kernel is a stutter.    *)
(*                                                                         *)
(* It holds for applications that use mutexes as UcosMutexProofs says and   *)
(* do not delete this one: OwnedMutex does not speak of deletion.           *)
(***************************************************************************)
EXTENDS UcosMutexProofs, UcosMutexService

\* The application does not delete the mutex observed.
KeepsMutex == \A always \in BOOLEAN : ~OSMutexDel(TheMutex, always)

-----------------------------------------------------------------------------
(* The inductive invariant.                                                *)

Pending(t) == pc[t] \in PendPlaces

\* OSTCBStatPend tells the outcome of a pend: "OK" while the task waits; once it
\* refers to no mutex its timer is off, so that no timeout can overwrite it.  A
\* pend on TheMutex that has ended with success has made the task the owner.
OutcomeAt(t) ==
  /\ "MUTEX" \in OSTCBStat[t] => OSTCBStatPend[t] = "OK"
  /\ Pending(t) /\ OSTCBEventPtr[t] = Null =>
       OSTCBDly[t] = 0 /\ OSTCBStatPend[t] # "TO"
  /\ Pending(t) /\ pevent[t] = TheMutex =>
       /\ OSTCBStatPend[t] # "ABORT"
       /\ OSTCBEventPtr[t] = Null => OSEventPtr[TheMutex] = t

Outcomes == \A t \in Task : OutcomeAt(t)

MInv == IInv /\ IsMutex(TheMutex) /\ Outcomes

\* The types of what a step reads.
LEMMA Types ==
  ASSUME MInv
  PROVE  /\ IInv /\ TcbTypeOK /\ FlowTypeOK /\ TheMutex \in Event /\ IsMutex(TheMutex)
         /\ OSTCBCur \in Task /\ Null \notin Event /\ Null \notin Task
         /\ OSEventPtr \in [Event -> Event \cup Task \cup {Null}]
         /\ \A t \in Task : PendAt(t) /\ OutcomeAt(t)
BY CoreAssumption, ServiceAssumption
DEF MInv, IInv, TypeOK, SwitchTypeOK, CoreAssumption, ServiceAssumption, InitMutex, PendSound,
    Outcomes

-----------------------------------------------------------------------------
(* What a step does to the pends in progress.                              *)

\* A pend of t goes on, or t has nothing to do with pends.
FlowAside(t) ==
  /\ Pending(t)' <=> Pending(t)
  /\ Pending(t) => pevent'[t] = pevent[t]

\* No outcome changes, and no timer starts.
QuietTasks ==
  /\ \A t \in Task :
       /\ FlowAside(t)
       /\ "MUTEX" \in OSTCBStat'[t] => "MUTEX" \in OSTCBStat[t]
       /\ Pending(t) /\ OSTCBDly[t] = 0 => OSTCBDly'[t] = 0
  /\ UNCHANGED <<OSTCBStatPend, OSTCBEventPtr>>

\* The delay or the timeout of u ends.
DelayEnds(u) ==
  /\ OSTCBDly[u] # 0
  /\ DlyEnds(u)
  /\ \A t \in Task : FlowAside(t)

\* The waiters T of e stop waiting.
Wakes(e, T, ps) ==
  /\ WaitEnds(e, T, "MUTEX", ps)
  /\ \A t \in Task : FlowAside(t)
  /\ \A t \in T : t \in Task /\ OSTCBEventPtr[t] = e

\* The running task begins to wait.
Waits(e, timeout) ==
  /\ ~Pending(OSTCBCur)
  /\ OSTCBStat' = [OSTCBStat EXCEPT ![OSTCBCur] = @ \cup {"MUTEX"}]
  /\ OSTCBStatPend' = [OSTCBStatPend EXCEPT ![OSTCBCur] = "OK"]
  /\ OSTCBDly' = [OSTCBDly EXCEPT ![OSTCBCur] = timeout]
  /\ OSTCBEventPtr' = [OSTCBEventPtr EXCEPT ![OSTCBCur] = e]
  /\ pc' = [pc EXCEPT ![OSTCBCur] = "OSPend_Sched"]
  /\ pevent' = [pevent EXCEPT ![OSTCBCur] = e]

\* The running task comes back from its pend.
ComesBack ==
  /\ Pending(OSTCBCur)
  /\ "MUTEX" \notin OSTCBStat[OSTCBCur]
  /\ OSTCBStat' = [OSTCBStat EXCEPT ![OSTCBCur] = {}]
  /\ OSTCBStatPend' = [OSTCBStatPend EXCEPT ![OSTCBCur] = "OK"]
  /\ OSTCBEventPtr' = [OSTCBEventPtr EXCEPT ![OSTCBCur] = Null]
  /\ OSTCBDly' = OSTCBDly
  /\ pc' = [pc EXCEPT ![OSTCBCur] = "app"]
  /\ pevent' = [pevent EXCEPT ![OSTCBCur] = Null]

\* A service called from application code or an ISR leaves the pends alone.
LEMMA CallAside ==
  ASSUME IInv, NEW b \in BOOLEAN, Returns(b), OSIntNesting > 0 \/ InTask("app"),
         NEW t \in Task
  PROVE  FlowAside(t) /\ (Pending(t) => OSIntNesting > 0 \/ t # OSTCBCur)
<1>1. OSTCBCur \in Task /\ pc \in [Task -> Places] /\ pevent \in [Task -> Event \cup {Null}]
  BY DEF IInv, TypeOK, SwitchTypeOK, FlowTypeOK
<1>2. CASE OSIntNesting > 0
  BY <1>2 DEF Returns, flowVars, FlowAside, Pending
<1>3. CASE ~(OSIntNesting > 0)
  <2>1. /\ pc' = [pc EXCEPT ![OSTCBCur] = IF b THEN "OS_Sched" ELSE "app"]
        /\ pevent' = [pevent EXCEPT ![OSTCBCur] = Null]
        /\ pc[OSTCBCur] = "app"
    BY <1>3 DEF Returns, GoTo, InTask
  <2> QED BY <1>1, <2>1 DEF FlowAside, Pending, PendPlaces
<1> QED BY <1>2, <1>3

\* So does the scheduler, which moves a task from one place of its pend to the
\* next.
LEMMA SchedAside ==
  ASSUME IInv, OS_Sched, NEW t \in Task
  PROVE  FlowAside(t)
<1>1. OSTCBCur \in Task /\ pc \in [Task -> Places] /\ pevent \in [Task -> Event \cup {Null}]
  BY DEF IInv, TypeOK, SwitchTypeOK, FlowTypeOK
<1>2. /\ pc' = [pc EXCEPT ![OSTCBCur] = AfterSched[pc[OSTCBCur]]]
      /\ pevent' = [pevent EXCEPT ![OSTCBCur] = pevent[OSTCBCur]]
      /\ pc[OSTCBCur] \in {"OS_Sched", "OSPend_Sched"}
  BY DEF OS_Sched, GoTo, AfterSched
<1>3. pevent' = pevent
  BY <1>1, <1>2
<1>4. CASE pc[OSTCBCur] = "OS_Sched"
  <2>1. pc' = [pc EXCEPT ![OSTCBCur] = "app"]
    BY <1>2, <1>4 DEF AfterSched
  <2> QED BY <1>1, <1>3, <1>4, <2>1 DEF FlowAside, Pending, PendPlaces
<1>5. CASE pc[OSTCBCur] = "OSPend_Sched"
  <2>1. pc' = [pc EXCEPT ![OSTCBCur] = "OSPend_Tail"]
    BY <1>2, <1>5 DEF AfterSched
  <2> QED BY <1>1, <1>3, <1>5, <2>1 DEF FlowAside, Pending, PendPlaces
<1> QED BY <1>2, <1>4, <1>5

\* The scheduler, interrupts and the tick.
LEMMA CoreEffect ==
  ASSUME IInv, CoreNext
  PROVE  QuietTasks \/ \E u \in Task : DelayEnds(u)
<1>1. /\ OSTCBDly \in [Task -> 0 .. MaxDly]
      /\ ptcb \in Seq(Task \ {Idle}) /\ TickSound
  BY DEF IInv, TypeOK, TcbTypeOK, TickTypeOK
<1>2. ASSUME UNCHANGED flowVars PROVE \A t \in Task : FlowAside(t)
  BY <1>2 DEF flowVars, FlowAside, Pending
<1>3. ASSUME UNCHANGED tcbVars, \A t \in Task : FlowAside(t) PROVE QuietTasks
  BY <1>3 DEF tcbVars, QuietTasks
<1>4. CASE OSSchedUnlock
  <2>1. /\ UNCHANGED tcbVars /\ InTask("app") /\ Returns(OSLockNesting = 1)
        /\ (OSLockNesting = 1) \in BOOLEAN
    BY <1>4 DEF OSSchedUnlock, TaskCall
  <2> QED BY <1>3, <2>1, CallAside
<1>5. CASE OS_Sched
  BY <1>3, <1>5, SchedAside DEF OS_Sched
<1>6. CASE OSTimeTick_Step
  <2> DEFINE u == Head(ptcb)
  <2>1. tickNest > 0 /\ UNCHANGED flowVars
    BY <1>6 DEF OSTimeTick_Step
  <2>2. u \in Task
    BY <1>1, <2>1, HeadTailProperties DEF TickSound
  <2>3. CASE OSTCBDly[u] = 1
    <3>1. DelayEnds(u)
      BY <1>2, <1>6, <2>1, <2>3 DEF OSTimeTick_Step, DelayEnds
    <3> QED BY <2>2, <3>1
  <2>4. CASE OSTCBDly[u] # 1
    <3>1. /\ OSTCBDly' = [OSTCBDly EXCEPT ![u] = IF @ = 0 THEN 0 ELSE @ - 1]
          /\ UNCHANGED <<OSTCBStat, OSTCBStatPend, OSTCBEventPtr>>
      BY <1>6, <2>4 DEF OSTimeTick_Step
    <3>2. \A t \in Task : OSTCBDly[t] = 0 => OSTCBDly'[t] = 0
      BY <1>1, <3>1
    <3> QED BY <1>2, <2>1, <3>1, <3>2 DEF QuietTasks
  <2> QED BY <2>3, <2>4
<1> QED
  BY <1>2, <1>3, <1>4, <1>5, <1>6
  DEF CoreNext, PendSV_Handler, OSSchedLock, OSIntEnter, OSIntExit, OSTimeTick

\* Delays, suspensions and resumptions.
LEMMA TaskEffect ==
  ASSUME NoChangePrio, IInv,
         TaskControl \/ \E ticks \in 1 .. MaxDly : OSTimeDly(ticks)
  PROVE  QuietTasks \/ \E u \in Task : DelayEnds(u)
<1>1. /\ OSTCBDly \in [Task -> 0 .. MaxDly] /\ OSTCBStat \in [Task -> SUBSET OS_STAT]
      /\ OSTCBCur \in Task
  BY DEF IInv, TypeOK, TcbTypeOK, SwitchTypeOK
<1>2. ASSUME NEW service, Call(service) PROVE OSIntNesting > 0 \/ InTask("app")
  BY <1>2 DEF Call, TaskCall, IsrCall, InIsr
<1>3. ASSUME NEW ticks \in 1 .. MaxDly, OSTimeDly(ticks) PROVE QuietTasks
  <2>1. /\ InTask("app") /\ Returns(TRUE)
        /\ OSTCBDly' = [OSTCBDly EXCEPT ![OSTCBCur] = ticks]
        /\ UNCHANGED <<OSTCBStat, OSTCBStatPend, OSTCBEventPtr>>
    BY <1>3 DEF OSTimeDly, TaskCall
  <2>2. \A t \in Task : FlowAside(t)
    BY <2>1, CallAside
  <2>3. ~Pending(OSTCBCur)
    BY <2>1 DEF InTask, Pending, PendPlaces
  <2>4. \A t \in Task : Pending(t) /\ OSTCBDly[t] = 0 => OSTCBDly'[t] = 0
    BY <1>1, <2>1, <2>3
  <2> QED BY <2>1, <2>2, <2>4 DEF QuietTasks
<1>4. ASSUME NEW prio \in Prio, OSTimeDlyResume(prio) PROVE \E u \in Task : DelayEnds(u)
  <2> DEFINE u == OSTCBPrioTbl[prio]
  <2>1. /\ u \in Task /\ OSTCBDly[u] # 0 /\ DlyEnds(u)
        /\ Returns("SUSPEND" \notin OSTCBStat[u]) /\ Call("OSTimeDlyResume")
    BY <1>4 DEF OSTimeDlyResume, NamesTask
  <2>2. \A t \in Task : FlowAside(t)
    BY <1>2, <2>1, CallAside
  <2>3. DelayEnds(u)
    BY <2>1, <2>2 DEF DelayEnds
  <2> QED BY <2>1, <2>3
<1>5. ASSUME NEW prio \in Prio, OSTaskSuspend(prio) \/ OSTaskResume(prio) PROVE QuietTasks
  <2> DEFINE u == OSTCBPrioTbl[prio]
  <2>1. /\ \E service : Call(service) /\ \E b \in BOOLEAN : Returns(b)
        /\ \/ OSTCBStat' = [OSTCBStat EXCEPT ![u] = @ \cup {"SUSPEND"}]
           \/ OSTCBStat' = [OSTCBStat EXCEPT ![u] = @ \ {"SUSPEND"}]
        /\ UNCHANGED <<OSTCBStatPend, OSTCBDly, OSTCBEventPtr>>
    BY <1>5 DEF OSTaskSuspend, OSTaskResume
  <2>2. \A t \in Task : FlowAside(t)
    BY <1>2, <2>1, CallAside
  <2>3. \A t \in Task : "MUTEX" \in OSTCBStat'[t] => "MUTEX" \in OSTCBStat[t]
    BY <1>1, <2>1
  <2> QED BY <2>1, <2>2, <2>3 DEF QuietTasks
<1>6. ASSUME NEW old \in Prio, NEW new \in Prio, OSTaskChangePrio(old, new) PROVE FALSE
  BY <1>1, <1>6 DEF OSTaskChangePrio, Call, TaskCall, IsrCall, NoChangePrio
<1> QED BY <1>3, <1>4, <1>5, <1>6 DEF TaskControl

\* A post or a deletion of e.
LEMMA WakeEffect ==
  ASSUME IInv, NEW e \in Event, NEW W \in SUBSET OSEventWait[e], NEW ps,
         WaitEnds(e, {OSTCBPrioTbl[p] : p \in W}, "MUTEX", ps),
         NEW b \in BOOLEAN, Returns(b), InTask("app")
  PROVE  Wakes(e, {OSTCBPrioTbl[p] : p \in W}, ps)
<1>1. \A p \in W : OSTCBPrioTbl[p] \in Task /\ OSTCBEventPtr[OSTCBPrioTbl[p]] = e
  BY WaiterFacts
<1>2. \A t \in Task : FlowAside(t)
  BY CallAside
<1> QED BY <1>1, <1>2 DEF Wakes

\* OSMutexPend that finds an owner.
LEMMA WaitEffect ==
  ASSUME IInv, NEW e \in Event, NEW timeout \in 0 .. MaxDly, OSMutexPend_Block(e, timeout)
  PROVE  Waits(e, timeout)
BY DEF OSMutexPend_Block, MutexCall, TaskCall, InTask, GoTo, Waits, Pending, PendPlaces

\* The end of OSMutexPend.
LEMMA BackEffect ==
  ASSUME IInv, OSMutexPend_Tail
  PROVE  ComesBack
<1>1. /\ InTask("OSPend_Tail") /\ Returns(FALSE)
      /\ OSTCBStat' = [OSTCBStat EXCEPT ![OSTCBCur] = {}]
      /\ OSTCBStatPend' = [OSTCBStatPend EXCEPT ![OSTCBCur] = "OK"]
      /\ OSTCBEventPtr' = [OSTCBEventPtr EXCEPT ![OSTCBCur] = Null]
      /\ OSTCBDly' = OSTCBDly
  BY DEF OSMutexPend_Tail, OSPend_Tail
<1>2. /\ pc' = [pc EXCEPT ![OSTCBCur] = "app"]
      /\ pevent' = [pevent EXCEPT ![OSTCBCur] = Null]
      /\ ~PendSV /\ pc[OSTCBCur] = "OSPend_Tail"
  BY <1>1 DEF Returns, GoTo, InTask, Runs
<1>3. "MUTEX" \notin OSTCBStat[OSTCBCur]
  BY <1>2 DEF IInv, SwitchSound
<1> QED BY <1>1, <1>2, <1>3 DEF ComesBack, Pending, PendPlaces

-----------------------------------------------------------------------------
(* The invariant is kept.                                                  *)

\* The owner of TheMutex stays the owner for those whose pend has succeeded.
OwnersKept(t) ==
  Pending(t) /\ pevent[t] = TheMutex /\ OSTCBEventPtr[t] = Null =>
    OSEventPtr'[TheMutex] = OSEventPtr[TheMutex]

\* A step that ends no pend keeps its outcome.
LEMMA QuietOutcome ==
  ASSUME MInv, QuietTasks, NEW t \in Task, OwnersKept(t)
  PROVE  OutcomeAt(t)'
<1>1. OutcomeAt(t)
  BY Types
<1>2. /\ Pending(t)' <=> Pending(t)
      /\ Pending(t) => pevent'[t] = pevent[t]
      /\ "MUTEX" \in OSTCBStat'[t] => "MUTEX" \in OSTCBStat[t]
      /\ Pending(t) /\ OSTCBDly[t] = 0 => OSTCBDly'[t] = 0
      /\ OSTCBStatPend' = OSTCBStatPend /\ OSTCBEventPtr' = OSTCBEventPtr
  BY DEF QuietTasks, FlowAside
<1> QED BY <1>1, <1>2 DEF OutcomeAt, OwnersKept

\* A timeout ends the pend of a task that still waits.
LEMMA DelayOutcome ==
  ASSUME MInv, NEW u \in Task, DelayEnds(u), NEW t \in Task, OwnersKept(t)
  PROVE  OutcomeAt(t)'
<1>1. TcbTypeOK /\ OutcomeAt(t) /\ OutcomeAt(u) /\ PendAt(t) /\ PendAt(u)
  BY Types
<1>2. /\ OSTCBDly[u] # 0
      /\ OSTCBDly' = [OSTCBDly EXCEPT ![u] = 0]
      /\ OSTCBStat' = [OSTCBStat EXCEPT ![u] = @ \ OS_STAT_PEND_ANY]
      /\ OSTCBStatPend' = [OSTCBStatPend EXCEPT ![u] =
                             IF OSTCBStat[u] \cap OS_STAT_PEND_ANY # {} THEN "TO" ELSE "OK"]
      /\ OSTCBEventPtr' = OSTCBEventPtr
      /\ Pending(t)' <=> Pending(t)
      /\ Pending(t) => pevent'[t] = pevent[t]
  BY DEF DelayEnds, DlyEnds, FlowAside
<1>3. CASE t = u
  <2>1. /\ "MUTEX" \notin OSTCBStat'[t] /\ OSTCBStatPend'[t] \in {"TO", "OK"}
        /\ OSTCBDly'[t] = 0
    BY <1>1, <1>2, <1>3 DEF TcbTypeOK, OS_STAT_PEND_ANY
  <2>2. Pending(t) => OSTCBEventPtr[t] # Null
    BY <1>1, <1>2, <1>3 DEF OutcomeAt
  <2> QED BY <1>2, <2>1, <2>2 DEF OutcomeAt
<1>4. CASE t # u
  <2>1. /\ OSTCBDly'[t] = OSTCBDly[t] /\ OSTCBStat'[t] = OSTCBStat[t]
        /\ OSTCBStatPend'[t] = OSTCBStatPend[t]
    BY <1>1, <1>2, <1>4 DEF TcbTypeOK
  <2> QED BY <1>1, <1>2, <2>1 DEF OutcomeAt, OwnersKept
<1> QED BY <1>3, <1>4

\* A waiter that is woken has its outcome; one that gets TheMutex is its owner.
LEMMA WakeOutcome ==
  ASSUME MInv, NEW e \in Event, NEW T, NEW ps \in {"OK", "ABORT"}, Wakes(e, T, ps),
         e = TheMutex => ps = "OK" /\ \A t \in T : OSEventPtr'[TheMutex] = t,
         NEW t \in Task, OwnersKept(t)
  PROVE  OutcomeAt(t)'
<1>1. OutcomeAt(t) /\ PendAt(t) /\ Null # e
  BY Types
<1>2. /\ OSTCBStat'[t] = IF t \in T THEN OSTCBStat[t] \ {"MUTEX"} ELSE OSTCBStat[t]
      /\ OSTCBStatPend'[t] = IF t \in T THEN ps ELSE OSTCBStatPend[t]
      /\ OSTCBDly'[t] = IF t \in T THEN 0 ELSE OSTCBDly[t]
      /\ OSTCBEventPtr'[t] = IF t \in T THEN Null ELSE OSTCBEventPtr[t]
      /\ Pending(t)' <=> Pending(t)
      /\ Pending(t) => pevent'[t] = pevent[t]
      /\ t \in T => OSTCBEventPtr[t] = e
  BY DEF Wakes, WaitEnds, FlowAside
<1>3. CASE t \in T
  <2>1. pevent[t] = e
    BY <1>1, <1>2, <1>3 DEF PendAt
  <2> QED BY <1>2, <1>3, <2>1 DEF OutcomeAt
<1>4. CASE t \notin T
  BY <1>1, <1>2, <1>4 DEF OutcomeAt, OwnersKept
<1> QED BY <1>3, <1>4

\* A task that begins to wait has no outcome yet.
LEMMA WaitOutcome ==
  ASSUME MInv, NEW e \in Event, NEW timeout, Waits(e, timeout), NEW t \in Task, OwnersKept(t)
  PROVE  OutcomeAt(t)'
<1>1. TcbTypeOK /\ FlowTypeOK /\ OutcomeAt(t) /\ OSTCBCur \in Task /\ Null # e
  BY Types
<1>2. CASE t = OSTCBCur
  <2>1. OSTCBStatPend'[t] = "OK" /\ OSTCBEventPtr'[t] = e
    BY <1>1, <1>2 DEF Waits, TcbTypeOK
  <2> QED BY <1>1, <2>1 DEF OutcomeAt
<1>3. CASE t # OSTCBCur
  <2>1. /\ OSTCBDly'[t] = OSTCBDly[t] /\ OSTCBStat'[t] = OSTCBStat[t]
        /\ OSTCBStatPend'[t] = OSTCBStatPend[t] /\ OSTCBEventPtr'[t] = OSTCBEventPtr[t]
        /\ pc'[t] = pc[t] /\ pevent'[t] = pevent[t]
    BY <1>1, <1>3 DEF Waits, TcbTypeOK, FlowTypeOK
  <2> QED BY <1>1, <2>1 DEF OutcomeAt, OwnersKept, Pending
<1> QED BY <1>2, <1>3

\* One that has come back is in no pend.
LEMMA BackOutcome ==
  ASSUME MInv, ComesBack, NEW t \in Task, OwnersKept(t)
  PROVE  OutcomeAt(t)'
<1>1. TcbTypeOK /\ FlowTypeOK /\ OutcomeAt(t) /\ OSTCBCur \in Task
  BY Types
<1>2. CASE t = OSTCBCur
  <2>1. "MUTEX" \notin OSTCBStat'[t] /\ pc'[t] = "app"
    BY <1>1, <1>2 DEF ComesBack, TcbTypeOK, FlowTypeOK
  <2> QED BY <2>1 DEF OutcomeAt, Pending, PendPlaces
<1>3. CASE t # OSTCBCur
  <2>1. /\ OSTCBDly'[t] = OSTCBDly[t] /\ OSTCBStat'[t] = OSTCBStat[t]
        /\ OSTCBStatPend'[t] = OSTCBStatPend[t] /\ OSTCBEventPtr'[t] = OSTCBEventPtr[t]
        /\ pc'[t] = pc[t] /\ pevent'[t] = pevent[t]
    BY <1>1, <1>3 DEF ComesBack, TcbTypeOK, FlowTypeOK
  <2> QED BY <1>1, <2>1 DEF OutcomeAt, OwnersKept, Pending
<1> QED BY <1>2, <1>3

\* Posting hands the mutex to a waiter and leaves the other pends alone.
LEMMA PostOutcome ==
  ASSUME MInv, NEW e \in Event, OSMutexPost(e)
  PROVE  \E W \in SUBSET OSEventWait[e] :
           /\ Posted(e, W) /\ OthersKept(e)
           /\ Wakes(e, {OSTCBPrioTbl[p] : p \in W}, "OK")
           /\ \A p \in W : OSEventPtr'[e] = OSTCBPrioTbl[p]
           /\ ~Pending(OSTCBCur)
<1> DEFINE W == {p \in OSEventWait[e] : IsHighest(p, OSEventWait[e])}
<1>1. IInv /\ OSEventPtr \in [Event -> Event \cup Task \cup {Null}]
  BY Types
<1>2. Posted(e, W) /\ OthersKept(e)
  BY <1>1, PostEffect, OneEvent
<1>3. /\ WaitEnds(e, {OSTCBPrioTbl[p] : p \in W}, "MUTEX", "OK")
      /\ Returns(W # {}) /\ InTask("app")
  BY DEF OSMutexPost, MutexCall, TaskCall
<1> HIDE DEF W
<1>4. Wakes(e, {OSTCBPrioTbl[p] : p \in W}, "OK")
  <2>1. W \in SUBSET OSEventWait[e] /\ (W # {}) \in BOOLEAN
    BY <1>2 DEF Posted
  <2> QED BY <1>1, <1>3, <2>1, WakeEffect
<1>5. ASSUME NEW p \in W PROVE OSEventPtr'[e] = OSTCBPrioTbl[p]
  BY <1>1, <1>2, <1>5 DEF Posted, HandOver
<1>6. ~Pending(OSTCBCur)
  BY <1>3 DEF InTask, Pending, PendPlaces
<1> QED BY <1>2, <1>4, <1>5, <1>6 DEF Posted

\* A deletion aborts the pends on the mutex deleted.
LEMMA DelOutcome ==
  ASSUME MInv, Disciplined, KeepsMutex, NEW e \in Event, NEW always \in BOOLEAN,
         OSMutexDel(e, always)
  PROVE  /\ e # TheMutex
         /\ Deleted(e) /\ OthersKept(e)
         /\ Wakes(e, {OSTCBPrioTbl[p] : p \in OSEventWait[e]}, "ABORT")
<1>1. IInv
  BY Types
<1>2. e # TheMutex
  BY DEF KeepsMutex
<1>3. Deleted(e) /\ OthersKept(e)
  BY <1>1, DelEffect, OneEvent
<1>4. /\ WaitEnds(e, {OSTCBPrioTbl[p] : p \in OSEventWait[e]}, "MUTEX", "ABORT")
      /\ Returns(OSEventWait[e] # {}) /\ InTask("app")
  BY DEF OSMutexDel, MutexCall, TaskCall, Waiters
<1>5. (OSEventWait[e] # {}) \in BOOLEAN
  OBVIOUS
<1>6. Wakes(e, {OSTCBPrioTbl[p] : p \in OSEventWait[e]}, "ABORT")
  BY <1>1, <1>4, <1>5, WakeEffect
<1> QED BY <1>2, <1>3, <1>6

\* The steps, with what they do to the mutex and to the pends.
Controls == ControlStep /\ (QuietTasks \/ \E u \in Task : DelayEnds(u))

Takes(e) == Taken(e) /\ OthersKept(e) /\ QuietTasks /\ ~Pending(OSTCBCur)

Blocks(e) ==
  \E raised \in BOOLEAN, timeout \in 0 .. MaxDly : Blocked(e, raised) /\ Waits(e, timeout)

Posts(e, W) ==
  /\ Posted(e, W) /\ OthersKept(e)
  /\ Wakes(e, {OSTCBPrioTbl[p] : p \in W}, "OK")
  /\ \A p \in W : OSEventPtr'[e] = OSTCBPrioTbl[p]
  /\ ~Pending(OSTCBCur)

Deletes(e) ==
  /\ e # TheMutex
  /\ Deleted(e) /\ OthersKept(e)
  /\ Wakes(e, {OSTCBPrioTbl[p] : p \in OSEventWait[e]}, "ABORT")

Creates(e) == \E prio \in NewPCP : Created(e, prio) /\ OthersKept(e) /\ QuietTasks

\* Whichever service takes a step, it is one of these.
LEMMA Effects ==
  ASSUME NoChangePrio, MInv, Next, Disciplined, KeepsMutex
  PROVE  \/ Controls
         \/ \E e \in Event : Takes(e)
         \/ \E e \in Event : Blocks(e)
         \/ Tailed /\ ComesBack
         \/ \E e \in Event : \E W \in SUBSET OSEventWait[e] : Posts(e, W)
         \/ \E e \in Event : Deletes(e)
         \/ \E e \in Event : Creates(e)
<1>1. IInv
  BY Types
<1>2. CASE CoreNext /\ UNCHANGED mutexVars
  <2>1. ControlStep
    BY <1>2
    DEF CoreNext, OS_Sched, PendSV_Handler, OSSchedLock, OSSchedUnlock, OSIntEnter, OSIntExit,
        OSTimeTick, OSTimeTick_Step, DlyEnds, ControlStep, tcbVars, readyVars
  <2> QED BY <1>1, <1>2, <2>1, CoreEffect DEF Controls
<1>3. CASE /\ TaskControl \/ \E ticks \in 1 .. MaxDly : OSTimeDly(ticks)
           /\ UNCHANGED mutexVars
  <2>1. ASSUME NEW old \in Prio, NEW new \in Prio, OSTaskChangePrio(old, new) PROVE FALSE
    BY <2>1, Types DEF OSTaskChangePrio, Call, TaskCall, IsrCall, NoChangePrio
  <2>2. ControlStep
    BY <1>3, <2>1
    DEF TaskControl, OSTimeDly, OSTimeDlyResume, DlyEnds, OSTaskSuspend, OSTaskResume, ControlStep
  <2> QED BY <1>1, <1>3, <2>2, TaskEffect DEF Controls
<1>4. ASSUME InTask("app"), Returns(FALSE), UNCHANGED tcbVars
      PROVE  QuietTasks /\ ~Pending(OSTCBCur)
  BY <1>1, <1>4, CallAside DEF QuietTasks, tcbVars, InTask, Pending, PendPlaces
<1>5. ASSUME NEW e \in Event, OSMutexAccept(e) \/ OSMutexPend_Take(e)
      PROVE  Takes(e)
  <2>1. InTask("app") /\ Returns(FALSE) /\ UNCHANGED tcbVars
    BY <1>5 DEF OSMutexAccept, OSMutexPend_Take, MutexCall, TaskCall, OSMutex_Take
  <2> QED BY <1>1, <1>4, <1>5, <2>1, TakeEffect, OneEvent DEF Takes
<1>6. ASSUME NEW e \in Event, NEW timeout \in 0 .. MaxDly, OSMutexPend_Block(e, timeout)
      PROVE  Blocks(e)
  BY <1>1, <1>6, BlockEffect, WaitEffect DEF Blocks
<1>7. OSMutexPend_Tail => Tailed /\ ComesBack
  BY <1>1, TailEffect, BackEffect
<1>8. ASSUME NEW prio \in NewPCP, OSMutexCreate(prio)
      PROVE  \E e \in Event : Creates(e)
  <2>1. OSEventFreeList \in Event /\ Created(OSEventFreeList, prio)
    BY <1>1, <1>8, CreateEffect DEF Created
  <2>2. InTask("app") /\ Returns(FALSE) /\ UNCHANGED tcbVars
    BY <1>8 DEF OSMutexCreate, TaskCall
  <2> QED BY <1>1, <1>4, <2>1, <2>2, OneEvent DEF Creates
<1>9. ASSUME NEW e \in Event, OSMutexPost(e)
      PROVE  \E W \in SUBSET OSEventWait[e] : Posts(e, W)
  BY <1>9, PostOutcome DEF Posts
<1>10. ASSUME NEW e \in Event, NEW always \in BOOLEAN, OSMutexDel(e, always)
       PROVE  Deletes(e)
  BY <1>10, DelOutcome DEF Deletes
<1> QED BY <1>2, <1>3, <1>5, <1>6, <1>7, <1>8, <1>9, <1>10 DEF Next, MutexNext

\* Both parts of the invariant beyond IInv are kept.
LEMMA OutcomesStep ==
  ASSUME NoChangePrio, MInv, Next, Disciplined, KeepsMutex
  PROVE  IsMutex(TheMutex)' /\ Outcomes'
<1>1. /\ IInv /\ TheMutex \in Event /\ IsMutex(TheMutex) /\ Null \notin Task
      /\ OSEventPtr \in [Event -> Event \cup Task \cup {Null}]
      /\ \A t \in Task : OutcomeAt(t)
      /\ OSEventType \in [Event -> {"UNUSED", "MUTEX"}]
  BY Types DEF IInv, TypeOK
<1>2. ASSUME OSEventPtr'[TheMutex] = OSEventPtr[TheMutex]
      PROVE  \A t \in Task : OwnersKept(t)
  BY <1>2 DEF OwnersKept
<1>3. ASSUME Controls
      PROVE  IsMutex(TheMutex)' /\ Outcomes'
  <2>1. UNCHANGED <<OSEventType, OSEventPtr>>
    BY <1>3 DEF Controls, ControlStep, eventVars
  <2> QED BY <1>1, <1>2, <1>3, <2>1, QuietOutcome, DelayOutcome DEF Controls, Outcomes, IsMutex
<1>4. ASSUME NEW e \in Event, Takes(e)
      PROVE  IsMutex(TheMutex)' /\ Outcomes'
  <2>1. UNCHANGED OSEventType
    BY <1>4 DEF Takes, Taken
  <2>2. ASSUME NEW t \in Task PROVE OwnersKept(t)
    <3>1. CASE e = TheMutex
      BY <1>1, <1>4, <3>1 DEF Takes, Taken, OutcomeAt, OwnersKept
    <3>2. CASE e # TheMutex
      BY <1>1, <1>2, <1>4, <3>2 DEF Takes, OthersKept
    <3> QED BY <3>1, <3>2
  <2> QED BY <1>1, <1>4, <2>1, <2>2, QuietOutcome DEF Takes, Outcomes, IsMutex
<1>5. ASSUME NEW e \in Event, Blocks(e)
      PROVE  IsMutex(TheMutex)' /\ Outcomes'
  <2>1. UNCHANGED <<OSEventType, OSEventPtr>>
    BY <1>5 DEF Blocks, Blocked
  <2> QED BY <1>1, <1>2, <1>5, <2>1, WaitOutcome DEF Blocks, Outcomes, IsMutex
<1>6. ASSUME Tailed, ComesBack PROVE IsMutex(TheMutex)' /\ Outcomes'
  <2>1. UNCHANGED <<OSEventType, OSEventPtr>>
    BY <1>6 DEF Tailed
  <2> QED BY <1>1, <1>2, <1>6, <2>1, BackOutcome DEF Outcomes, IsMutex
<1>7. ASSUME NEW e \in Event, NEW W \in SUBSET OSEventWait[e], Posts(e, W)
      PROVE  IsMutex(TheMutex)' /\ Outcomes'
  <2>1. UNCHANGED OSEventType /\ OSEventPtr[e] = OSTCBCur
    BY <1>7 DEF Posts, Posted, Owns
  <2>2. ASSUME NEW t \in Task PROVE OwnersKept(t)
    <3>1. CASE e = TheMutex
      BY <1>1, <1>7, <2>1, <3>1 DEF Posts, OutcomeAt, OwnersKept
    <3>2. CASE e # TheMutex
      BY <1>1, <1>2, <1>7, <3>2 DEF Posts, OthersKept
    <3> QED BY <3>1, <3>2
  <2>3. e = TheMutex =>
          \A t \in {OSTCBPrioTbl[p] : p \in W} : OSEventPtr'[TheMutex] = t
    BY <1>7 DEF Posts
  <2>4. \A t \in Task : OutcomeAt(t)'
    BY <1>7, <2>2, <2>3, WakeOutcome DEF Posts
  <2> QED BY <1>1, <2>1, <2>4 DEF Outcomes, IsMutex
<1>8. ASSUME NEW e \in Event, Deletes(e)
      PROVE  IsMutex(TheMutex)' /\ Outcomes'
  <2>1. /\ OSEventType'[TheMutex] = OSEventType[TheMutex]
        /\ OSEventPtr'[TheMutex] = OSEventPtr[TheMutex]
    BY <1>1, <1>8 DEF Deletes, OthersKept
  <2> QED BY <1>1, <1>2, <1>8, <2>1, WakeOutcome DEF Deletes, Outcomes, IsMutex
<1>9. ASSUME NEW e \in Event, Creates(e)
      PROVE  IsMutex(TheMutex)' /\ Outcomes'
  <2>1. e # TheMutex
    BY <1>1, <1>9 DEF Creates, Created
  <2>2. /\ OSEventType'[TheMutex] = OSEventType[TheMutex]
        /\ OSEventPtr'[TheMutex] = OSEventPtr[TheMutex]
    BY <1>1, <1>9, <2>1 DEF Creates, OthersKept
  <2> QED BY <1>1, <1>2, <1>9, <2>2, QuietOutcome DEF Creates, Outcomes, IsMutex
<1> QED BY <1>3, <1>4, <1>5, <1>6, <1>7, <1>8, <1>9, Effects

-----------------------------------------------------------------------------
(* The status of a task, read off its place and its control block.         *)

\* The task is not in a pend on TheMutex.
Idling(t) == pevent[t] # TheMutex \/ ~Pending(t)

\* The status in this state and in the next.
LEMMA StatusMeaning ==
  ASSUME NEW t \in Task
  PROVE  /\ TheStatus[t] = IF Idling(t) THEN "idle" ELSE PendOutcome(t)
         /\ TheStatus'[t] = IF Idling(t)' THEN "idle" ELSE PendOutcome(t)'
<1> USE DEF TheStatus, MutexStatus, Idling, Pending, PendPlaces
<1>1. TheStatus[t] = IF Idling(t) THEN "idle" ELSE PendOutcome(t)
  OBVIOUS
<1>2. TheStatus'[t] = IF Idling(t)' THEN "idle" ELSE PendOutcome(t)'
  OBVIOUS
<1> QED BY <1>1, <1>2

\* A task whose pend goes on unchanged, or that stays idle, keeps its status.
StaysPut(t) ==
  \/ Idling(t) /\ Idling(t)'
  \/ /\ FlowAside(t) /\ Pending(t)
     /\ OSTCBStatPend'[t] = OSTCBStatPend[t]
     /\ OSTCBEventPtr'[t] = OSTCBEventPtr[t]

\* Its status does not depend on anything else.
LEMMA StatusKept ==
  ASSUME NEW t \in Task, StaysPut(t)
  PROVE  TheStatus'[t] = TheStatus[t]
<1>1. CASE Idling(t) /\ Idling(t)'
  BY <1>1, StatusMeaning
<1>2. CASE /\ FlowAside(t) /\ Pending(t)
           /\ OSTCBStatPend'[t] = OSTCBStatPend[t]
           /\ OSTCBEventPtr'[t] = OSTCBEventPtr[t]
  <2>1. Idling(t)' <=> Idling(t)
    BY <1>2 DEF FlowAside, Idling
  <2>2. PendOutcome(t)' = PendOutcome(t)
    BY <1>2 DEF PendOutcome
  <2> QED BY <2>1, <2>2, StatusMeaning
<1> QED BY <1>1, <1>2 DEF StaysPut

\* A task that is in no pend and comes into none stays idle.
LEMMA AsideIdle ==
  ASSUME NEW t \in Task, FlowAside(t)
  PROVE  /\ Idling(t) => Idling(t)' /\ StaysPut(t)
         /\ Idling(t)' => Idling(t)
BY DEF FlowAside, StaysPut, Idling

\* If all tasks stay put, so does the status as a whole.
LEMMA AllStayPut ==
  ASSUME \A t \in Task : StaysPut(t)
  PROVE  TheStatus' = TheStatus
<1>1. \A t \in Task : TheStatus'[t] = TheStatus[t]
  BY StatusKept
<1> QED BY <1>1 DEF TheStatus

\* If all but u do, only the status of u changes.
LEMMA OneMoves ==
  ASSUME NEW u \in Task, \A t \in Task \ {u} : StaysPut(t)
  PROVE  TheStatus' = [TheStatus EXCEPT ![u] = TheStatus'[u]]
<1>1. \A t \in Task \ {u} : TheStatus'[t] = TheStatus[t]
  BY StatusKept
<1> QED BY <1>1 DEF TheStatus

\* The abstract waiters are the tasks that refer to TheMutex, under their
\* priorities on its wait list.
LEMMA WaitersMeaning ==
  ASSUME MInv
  PROVE  /\ \A t \in Task : t \in TheOwnedMutex!Waiters <=> OSTCBEventPtr[t] = TheMutex
         /\ \A t \in Task : OSTCBEventPtr[t] = TheMutex =>
              ~Idling(t) /\ OSTCBPrio[t] \in OSEventWait[TheMutex]
         /\ \A p \in OSEventWait[TheMutex] :
              /\ OSTCBPrioTbl[p] \in Task
              /\ OSTCBEventPtr[OSTCBPrioTbl[p]] = TheMutex
              /\ OSTCBPrio[OSTCBPrioTbl[p]] = p
              /\ \A t \in Task : OSTCBPrio[t] = p => t = OSTCBPrioTbl[p]
<1>1. /\ IInv /\ TheMutex \in Event /\ Null # TheMutex
      /\ \A t \in Task : PendAt(t) /\ OutcomeAt(t)
      /\ TcbTypeOK
  BY Types
<1>2. \A t \in Task : OSTCBEventPtr[t] = TheMutex =>
        ~Idling(t) /\ OSTCBPrio[t] \in OSEventWait[TheMutex]
  BY <1>1 DEF PendAt, Idling, Pending, IInv, WaitSound
<1>3. \A p \in OSEventWait[TheMutex] :
        /\ OSTCBPrioTbl[p] \in Task
        /\ OSTCBEventPtr[OSTCBPrioTbl[p]] = TheMutex
        /\ OSTCBPrio[OSTCBPrioTbl[p]] = p
        /\ \A t \in Task : OSTCBPrio[t] = p => t = OSTCBPrioTbl[p]
  BY <1>1, WaiterFacts DEF IInv, PrioSound
<1>4. ASSUME NEW t \in Task
      PROVE  TheStatus[t] \in {"waiting", "timedout"} <=> OSTCBEventPtr[t] = TheMutex
  <2>1. ASSUME OSTCBEventPtr[t] = TheMutex PROVE TheStatus[t] \in {"waiting", "timedout"}
    <3>1. OSTCBStatPend[t] \in {"OK", "TO"}
      BY <1>1, <2>1 DEF PendAt, OutcomeAt
    <3> QED BY <1>1, <1>2, <2>1, <3>1, StatusMeaning DEF PendOutcome
  <2>2. ASSUME TheStatus[t] \in {"waiting", "timedout"} PROVE OSTCBEventPtr[t] = TheMutex
    <3>1. ~Idling(t)
      BY <2>2, StatusMeaning
    <3>2. OSTCBEventPtr[t] # Null
      BY <1>1, <2>2, <3>1, StatusMeaning DEF PendOutcome, OutcomeAt, Idling
    <3> QED BY <1>1, <3>1, <3>2 DEF PendAt, Idling
  <2> QED BY <2>1, <2>2
<1>5. \A t \in Task : t \in TheOwnedMutex!Waiters <=> OSTCBEventPtr[t] = TheMutex
  BY <1>4 DEF TheOwnedMutex!Waiters
<1> QED BY <1>2, <1>3, <1>5

\* The owner of another mutex has nothing to do with this one.
LEMMA OtherOwner ==
  ASSUME MInv, NEW e \in Event, e # TheMutex, NEW u \in Task, Owns(u, e)
  PROVE  OSEventPtr[TheMutex] # u /\ TheStatus[u] = "idle"
<1>1. /\ IInv /\ TheMutex \in Event /\ IsMutex(TheMutex) /\ Null \notin Task
      /\ PendAt(u) /\ OutcomeAt(u)
  BY Types
<1>2. OSEventPtr[TheMutex] # u
  BY <1>1 DEF IInv, OwnerSound, Owns, IsMutex
<1>3. OSTCBEventPtr[u] = Null
  BY <1>1 DEF IInv, OwnerSound, Owns, IsMutex
<1>4. Idling(u)
  BY <1>1, <1>2, <1>3 DEF OutcomeAt, Idling
<1> QED BY <1>2, <1>4, StatusMeaning

-----------------------------------------------------------------------------
(* Every step is a step of the abstract mutex or a stutter.                *)

Stutters == UNCHANGED <<OSEventPtr[TheMutex], TheStatus, OSTCBPrio>>

\* A service for another mutex leaves the priorities as they are, or changes
\* that of its owner.
LEMMA OtherSim ==
  ASSUME MInv, NEW e \in Event, e # TheMutex,
         OSEventPtr'[TheMutex] = OSEventPtr[TheMutex],
         TheStatus' = TheStatus,
         OSTCBPrio \in [Task -> Nat], OSTCBPrio' \in [Task -> Nat],
         \A t \in Task : ~Owns(t, e) => OSTCBPrio'[t] = OSTCBPrio[t]
  PROVE  TheOwnedMutex!Next \/ Stutters
<1>1. CASE \E u \in Task : Owns(u, e)
  <2>1. PICK u \in Task : Owns(u, e)
    BY <1>1
  <2>2. \A t \in Task \ {u} : OSTCBPrio'[t] = OSTCBPrio[t]
    BY <2>1 DEF Owns
  <2>3. TheOwnedMutex!Reprioritise(u)
    BY <2>1, <2>2, OtherOwner DEF TheOwnedMutex!Reprioritise, TheOwnedMutex!OthersKeepPrio
  <2> QED BY <2>3 DEF TheOwnedMutex!Next
<1>2. CASE ~ \E u \in Task : Owns(u, e)
  <2>1. OSTCBPrio' = OSTCBPrio
    BY <1>2
  <2> QED BY <2>1 DEF Stutters
<1> QED BY <1>1, <1>2

\* Nobody is disturbed by a step that changes no outcome.
LEMMA QuietStatus ==
  ASSUME QuietTasks
  PROVE  TheStatus' = TheStatus
<1>1. \A t \in Task : StaysPut(t)
  BY DEF QuietTasks, FlowAside, StaysPut, Idling
<1> QED BY <1>1, AllStayPut

\* The end of a timeout is TimeOut, the end of a delay a stutter.
LEMMA DelaySim ==
  ASSUME MInv, ControlStep, NEW u \in Task, DelayEnds(u)
  PROVE  TheOwnedMutex!Next \/ Stutters
<1>1. /\ TcbTypeOK /\ PendAt(u) /\ OutcomeAt(u) /\ Null # TheMutex
  BY Types
<1>2. /\ OSTCBDly[u] # 0
      /\ OSTCBStatPend' = [OSTCBStatPend EXCEPT ![u] =
                             IF OSTCBStat[u] \cap OS_STAT_PEND_ANY # {} THEN "TO" ELSE "OK"]
      /\ OSTCBEventPtr' = OSTCBEventPtr
      /\ \A t \in Task : FlowAside(t)
      /\ UNCHANGED <<OSTCBPrio, OSEventPtr[TheMutex]>>
  BY DEF DelayEnds, DlyEnds, ControlStep, eventVars
<1>3. \A t \in Task \ {u} : StaysPut(t)
  BY <1>1, <1>2 DEF FlowAside, StaysPut, Idling, TcbTypeOK
<1>4. CASE ~Idling(u)
  <2>1. OSTCBEventPtr[u] # Null
    BY <1>1, <1>2, <1>4 DEF OutcomeAt, Idling
  <2>2. "MUTEX" \in OSTCBStat[u] /\ OSTCBStatPend[u] = "OK"
    BY <1>1, <1>2, <2>1 DEF PendAt, OutcomeAt
  <2>3. OSTCBStat[u] \cap OS_STAT_PEND_ANY # {}
    BY <2>2 DEF OS_STAT_PEND_ANY
  <2>4. TheStatus[u] = "waiting"
    BY <1>4, <2>1, <2>2, StatusMeaning DEF PendOutcome
  <2>5. ~Idling(u)'
    BY <1>2, <1>4, AsideIdle
  <2>6. OSTCBStatPend'[u] = "TO"
    BY <1>1, <1>2, <2>3 DEF TcbTypeOK
  <2>7. TheStatus'[u] = "timedout"
    BY <2>5, <2>6, StatusMeaning DEF PendOutcome
  <2>8. TheOwnedMutex!TimeOut(u)
    BY <1>2, <1>3, <2>4, <2>7, OneMoves DEF TheOwnedMutex!TimeOut, TheOwnedMutex!Moves
  <2> QED BY <2>8 DEF TheOwnedMutex!Next
<1>5. CASE Idling(u)
  <2>1. StaysPut(u)
    BY <1>2, <1>5, AsideIdle
  <2> QED BY <1>2, <1>3, <2>1, AllStayPut DEF Stutters
<1> QED BY <1>4, <1>5

\* Taking the free mutex is Acquire.
LEMMA TakeSim ==
  ASSUME MInv, NEW e \in Event, Takes(e)
  PROVE  TheOwnedMutex!Next \/ Stutters
<1>1. TheMutex \in Event /\ OSEventPtr \in [Event -> Event \cup Task \cup {Null}]
  BY Types
<1>2. /\ TheStatus' = TheStatus /\ UNCHANGED OSTCBPrio
      /\ OSTCBCur \in Task /\ ~Pending(OSTCBCur)
      /\ OSEventPtr[e] = Null
      /\ OSEventPtr' = [OSEventPtr EXCEPT ![e] = OSTCBCur]
  BY QuietStatus DEF Takes, Taken, tcbVars
<1>3. CASE e = TheMutex
  <2>1. TheStatus[OSTCBCur] = "idle"
    BY <1>2, StatusMeaning DEF Idling
  <2>2. TheOwnedMutex!Acquire(OSTCBCur)
    BY <1>1, <1>2, <1>3, <2>1 DEF TheOwnedMutex!Acquire
  <2> QED BY <1>2, <2>2 DEF TheOwnedMutex!Next
<1>4. CASE e # TheMutex
  BY <1>1, <1>2, <1>4 DEF Stutters
<1> QED BY <1>3, <1>4

\* Blocking raises at most the owner.
LEMMA BlockPrio ==
  ASSUME NEW e \in Event, NEW raised \in BOOLEAN, Blocked(e, raised),
         OSTCBPrio \in [Task -> Nat]
  PROVE  \A t \in Task : ~Owns(t, e) => OSTCBPrio'[t] = OSTCBPrio[t]
<1>1. OSTCBPrio' = OSTCBPrio \/ OSTCBPrio' = [OSTCBPrio EXCEPT ![OSEventPtr[e]] = OSMutexPCP[e]]
  BY DEF Blocked
<1> QED BY <1>1 DEF Owns, Blocked, IsMutex

\* Blocking on the mutex of another owner is Wait.
LEMMA BlockSim ==
  ASSUME MInv, NEW e \in Event, Blocks(e),
         OSTCBPrio \in [Task -> Nat], OSTCBPrio' \in [Task -> Nat]
  PROVE  TheOwnedMutex!Next \/ Stutters
<1>1. /\ TcbTypeOK /\ FlowTypeOK /\ TheMutex \in Event /\ Null \notin Event
      /\ Null \notin Task
  BY Types
<1>2. PICK raised \in BOOLEAN, timeout \in 0 .. MaxDly : Blocked(e, raised) /\ Waits(e, timeout)
  BY DEF Blocks
<1>3. PICK u \in Task : u = OSTCBCur
  BY <1>2 DEF Blocked
<1>4. /\ OSEventPtr[e] \in Task /\ OSEventPtr[e] # u /\ OSEventPtr' = OSEventPtr
      /\ ~Pending(u)
      /\ OSTCBStatPend' = [OSTCBStatPend EXCEPT ![u] = "OK"]
      /\ OSTCBEventPtr' = [OSTCBEventPtr EXCEPT ![u] = e]
      /\ pc' = [pc EXCEPT ![u] = "OSPend_Sched"]
      /\ pevent' = [pevent EXCEPT ![u] = e]
  BY <1>2, <1>3 DEF Blocked, Waits
<1>5. \A t \in Task \ {u} : StaysPut(t)
  BY <1>1, <1>4 DEF FlowTypeOK, TcbTypeOK, StaysPut, FlowAside, Idling, Pending
<1>6. /\ pc'[u] = "OSPend_Sched" /\ pevent'[u] = e
      /\ OSTCBStatPend'[u] = "OK" /\ OSTCBEventPtr'[u] = e
  BY <1>1, <1>4 DEF FlowTypeOK, TcbTypeOK
<1>7. Idling(u)
  BY <1>4 DEF Idling
<1>8. CASE e = TheMutex
  <2>1. TheStatus[u] = "idle"
    BY <1>7, StatusMeaning
  <2>2. ~Idling(u)'
    BY <1>6, <1>8 DEF Idling, Pending, PendPlaces
  <2>3. TheStatus'[u] = "waiting"
    BY <1>1, <1>6, <2>2, StatusMeaning DEF PendOutcome
  <2>4. \A t \in Task \ {OSEventPtr[e]} : OSTCBPrio'[t] = OSTCBPrio[t]
    BY <1>2, BlockPrio DEF Owns
  <2>5. TheOwnedMutex!Wait(u)
    BY <1>1, <1>4, <1>5, <1>8, <2>1, <2>3, <2>4, OneMoves
    DEF TheOwnedMutex!Wait, TheOwnedMutex!Moves, TheOwnedMutex!OthersKeepPrio
  <2> QED BY <2>5 DEF TheOwnedMutex!Next
<1>9. CASE e # TheMutex
  <2>1. StaysPut(u)
    BY <1>6, <1>7, <1>9 DEF StaysPut, Idling
  <2>2. TheStatus' = TheStatus
    BY <1>5, <2>1, AllStayPut
  <2>3. OSEventPtr'[TheMutex] = OSEventPtr[TheMutex]
    BY <1>4
  <2>4. \A t \in Task : ~Owns(t, e) => OSTCBPrio'[t] = OSTCBPrio[t]
    BY <1>2, BlockPrio
  <2> QED BY <1>9, <2>2, <2>3, <2>4, OtherSim
<1> QED BY <1>8, <1>9

\* The end of a pend that had to wait is Return.
LEMMA BackSim ==
  ASSUME MInv, Tailed, ComesBack
  PROVE  TheOwnedMutex!Next \/ Stutters
<1>1. /\ TcbTypeOK /\ FlowTypeOK /\ OSTCBCur \in Task /\ Null # TheMutex
      /\ PendAt(OSTCBCur) /\ OutcomeAt(OSTCBCur)
  BY Types
<1>2. PICK u \in Task : u = OSTCBCur
  BY <1>1
<1>3. /\ Pending(u) /\ "MUTEX" \notin OSTCBStat[u]
      /\ OSTCBStatPend' = [OSTCBStatPend EXCEPT ![u] = "OK"]
      /\ OSTCBEventPtr' = [OSTCBEventPtr EXCEPT ![u] = Null]
      /\ pc' = [pc EXCEPT ![u] = "app"]
      /\ pevent' = [pevent EXCEPT ![u] = Null]
      /\ UNCHANGED <<OSTCBPrio, OSEventPtr>>
  BY <1>2 DEF ComesBack, Tailed
<1>4. \A t \in Task \ {u} : StaysPut(t)
  BY <1>1, <1>3 DEF FlowTypeOK, TcbTypeOK, StaysPut, FlowAside, Idling, Pending
<1>5. Idling(u)'
  BY <1>1, <1>3 DEF FlowTypeOK, Idling, Pending, PendPlaces
<1>6. CASE ~Idling(u)
  <2>1. /\ OSTCBStatPend[u] # "ABORT"
        /\ OSTCBEventPtr[u] = Null => OSEventPtr[TheMutex] = u /\ OSTCBStatPend[u] # "TO"
        /\ OSTCBEventPtr[u] # Null => OSTCBStatPend[u] = "TO"
    BY <1>1, <1>2, <1>3, <1>6 DEF Idling, OutcomeAt, PendAt
  <2>2. /\ TheStatus[u] \in {"granted", "timedout"}
        /\ TheStatus[u] = "granted" => OSEventPtr[TheMutex] = u
    BY <1>6, <2>1, StatusMeaning DEF PendOutcome
  <2>3. TheStatus'[u] = "idle"
    BY <1>5, StatusMeaning
  <2>4. TheOwnedMutex!Return(u)
    BY <1>3, <1>4, <2>2, <2>3, OneMoves DEF TheOwnedMutex!Return, TheOwnedMutex!Moves
  <2> QED BY <2>4 DEF TheOwnedMutex!Next
<1>7. CASE Idling(u)
  <2>1. StaysPut(u)
    BY <1>5, <1>7 DEF StaysPut
  <2> QED BY <1>3, <1>4, <2>1, AllStayPut DEF Stutters
<1> QED BY <1>6, <1>7

\* A waiter of TheMutex that a post wakes has it; the status of every other
\* task is as before.
LEMMA WokenStatus ==
  ASSUME MInv, NEW e \in Event, NEW T, NEW ps, Wakes(e, T, ps), NEW t \in Task
  PROVE  /\ e # TheMutex \/ t \notin T => TheStatus'[t] = TheStatus[t]
         /\ e = TheMutex /\ t \in T /\ ps = "OK" => TheStatus'[t] = "granted"
<1>1. PendAt(t) /\ Null # e
  BY Types
<1>2. /\ OSTCBStatPend'[t] = IF t \in T THEN ps ELSE OSTCBStatPend[t]
      /\ OSTCBEventPtr'[t] = IF t \in T THEN Null ELSE OSTCBEventPtr[t]
      /\ FlowAside(t)
      /\ t \in T => OSTCBEventPtr[t] = e
  BY DEF Wakes, WaitEnds
<1>3. t \in T => pevent[t] = e /\ Pending(t)
  BY <1>1, <1>2 DEF PendAt, Pending
<1>4. CASE t \notin T
  <2>1. StaysPut(t)
    BY <1>2, <1>4, AsideIdle DEF StaysPut, Idling
  <2> QED BY <1>4, <2>1, StatusKept
<1>5. CASE t \in T /\ e # TheMutex
  <2>1. Idling(t)
    BY <1>3, <1>5 DEF Idling
  <2> QED BY <1>2, <1>5, <2>1, AsideIdle, StatusKept
<1>6. CASE t \in T /\ e = TheMutex
  <2>1. ~Idling(t)'
    BY <1>2, <1>3, <1>6, AsideIdle DEF Idling
  <2> QED BY <1>2, <1>6, <2>1, StatusMeaning DEF PendOutcome
<1> QED BY <1>4, <1>5, <1>6

\* Waking the waiters of another mutex disturbs nobody.
LEMMA WokenElsewhere ==
  ASSUME MInv, NEW e \in Event, e # TheMutex, NEW T, NEW ps, Wakes(e, T, ps)
  PROVE  TheStatus' = TheStatus
<1>1. \A t \in Task : TheStatus'[t] = TheStatus[t]
  BY WokenStatus
<1> QED BY <1>1 DEF TheStatus

\* OSMutexPost is Release.
LEMMA PostSim ==
  ASSUME MInv, NEW e \in Event, NEW W \in SUBSET OSEventWait[e], Posts(e, W),
         OSTCBPrio \in [Task -> Nat], OSTCBPrio' \in [Task -> Nat]
  PROVE  TheOwnedMutex!Next \/ Stutters
<1>1. TheMutex \in Event /\ OSEventPtr \in [Event -> Event \cup Task \cup {Null}]
  BY Types
<1>2. /\ OSTCBCur \in Task /\ Owns(OSTCBCur, e) /\ ~Pending(OSTCBCur)
      /\ Wakes(e, {OSTCBPrioTbl[p] : p \in W}, "OK")
      /\ OthersKept(e)
      /\ \A p \in W : OSEventPtr'[e] = OSTCBPrioTbl[p]
      /\ \/ \E p \in W : W = {p} /\ IsHighest(p, OSEventWait[e])
         \/ /\ W = {} /\ OSEventWait[e] = {}
            /\ OSEventPtr' = [OSEventPtr EXCEPT ![e] = Null]
  BY DEF Posts, Posted
<1>3. \A t \in Task : ~Owns(t, e) => OSTCBPrio'[t] = OSTCBPrio[t]
  BY DEF Posts, Posted, Lowered
<1>4. CASE e # TheMutex
  BY <1>1, <1>2, <1>3, <1>4, WokenElsewhere, OtherSim DEF OthersKept
<1>5. CASE e = TheMutex
  <2>1. OSEventPtr[TheMutex] = OSTCBCur /\ TheStatus[OSTCBCur] = "idle"
    BY <1>2, <1>5, StatusMeaning DEF Owns, Idling
  <2>2. TheOwnedMutex!OthersKeepPrio(OSEventPtr[TheMutex])
    BY <1>3, <1>5 DEF TheOwnedMutex!OthersKeepPrio, Owns
  <2>3. CASE \E p \in W : W = {p} /\ IsHighest(p, OSEventWait[e])
    <3>1. PICK p \in W : W = {p} /\ IsHighest(p, OSEventWait[e])
      BY <2>3
    <3>2. PICK w \in Task : w = OSTCBPrioTbl[p]
      BY <1>5, <3>1, WaitersMeaning
    <3>3. {OSTCBPrioTbl[q] : q \in W} = {w}
      BY <3>1, <3>2
    <3>4. \A t \in Task : TheStatus'[t] = IF t = w THEN "granted" ELSE TheStatus[t]
      BY <1>2, <1>5, <3>3, WokenStatus
    <3>5. TheStatus' = [TheStatus EXCEPT ![w] = "granted"]
      BY <3>4 DEF TheStatus
    <3>6. TheOwnedMutex!First(w)
      <4>1. w \in TheOwnedMutex!Waiters /\ OSTCBPrio[w] = p
        BY <1>5, <3>2, WaitersMeaning
      <4>2. ASSUME NEW q \in TheOwnedMutex!Waiters PROVE OSTCBPrio[w] <= OSTCBPrio[q]
        <5>1. q \in Task /\ OSTCBPrio[q] \in OSEventWait[TheMutex]
          BY WaitersMeaning DEF TheOwnedMutex!Waiters
        <5> QED BY <1>5, <3>1, <4>1, <5>1 DEF IsHighest
      <4> QED BY <4>1, <4>2 DEF TheOwnedMutex!First
    <3>7. OSEventPtr'[TheMutex] = w
      BY <1>2, <1>5, <3>2
    <3>8. TheOwnedMutex!Release(OSTCBCur)
      BY <2>1, <2>2, <3>5, <3>6, <3>7 DEF TheOwnedMutex!Release
    <3> QED BY <1>2, <3>8 DEF TheOwnedMutex!Next
  <2>4. CASE /\ W = {} /\ OSEventWait[e] = {}
             /\ OSEventPtr' = [OSEventPtr EXCEPT ![e] = Null]
    <3>1. TheOwnedMutex!Waiters = {}
      <4>1. TheOwnedMutex!Waiters \subseteq Task
        BY DEF TheOwnedMutex!Waiters
      <4> QED BY <1>5, <2>4, <4>1, WaitersMeaning
    <3>2. \A t \in Task : TheStatus'[t] = TheStatus[t]
      BY <1>2, <2>4, WokenStatus
    <3>3. TheStatus' = TheStatus
      BY <3>2 DEF TheStatus
    <3>4. OSEventPtr'[TheMutex] = Null
      BY <1>1, <1>5, <2>4
    <3>5. TheOwnedMutex!Release(OSTCBCur)
      BY <2>1, <2>2, <3>1, <3>3, <3>4 DEF TheOwnedMutex!Release
    <3> QED BY <1>2, <3>5 DEF TheOwnedMutex!Next
  <2> QED BY <1>2, <2>3, <2>4
<1> QED BY <1>4, <1>5

\* Deleting another mutex may restore its owner.
LEMMA DelSim ==
  ASSUME MInv, NEW e \in Event, Deletes(e),
         OSTCBPrio \in [Task -> Nat], OSTCBPrio' \in [Task -> Nat]
  PROVE  TheOwnedMutex!Next \/ Stutters
<1>1. TheMutex \in Event
  BY Types
<1>2. e # TheMutex /\ TheStatus' = TheStatus
  BY WokenElsewhere DEF Deletes
<1>3. OSEventPtr'[TheMutex] = OSEventPtr[TheMutex]
  BY <1>1, <1>2 DEF Deletes, OthersKept
<1>4. \A t \in Task : ~Owns(t, e) => OSTCBPrio'[t] = OSTCBPrio[t]
  BY DEF Deletes, Deleted, Lowered
<1> QED BY <1>2, <1>3, <1>4, OtherSim

\* Creating one is a stutter.
LEMMA CreateSim ==
  ASSUME MInv, NEW e \in Event, Creates(e)
  PROVE  Stutters
<1>1. TheMutex \in Event /\ IsMutex(TheMutex)
  BY Types
<1>2. TheStatus' = TheStatus /\ UNCHANGED OSTCBPrio
  BY QuietStatus DEF Creates, Created, tcbVars
<1>3. OSEventPtr'[TheMutex] = OSEventPtr[TheMutex]
  BY <1>1 DEF Creates, Created, OthersKept
<1> QED BY <1>2, <1>3 DEF Stutters

\* Every step of the kernel is a step of the abstract mutex or a stutter.
LEMMA StepSim ==
  ASSUME NoChangePrio, MInv, [Next]_vars, [Disciplined]_vars, [KeepsMutex]_vars
  PROVE  [TheOwnedMutex!Next]_<<OSEventPtr[TheMutex], TheStatus, OSTCBPrio>>
<1>1. CASE UNCHANGED vars
  <2>1. UNCHANGED <<pc, pevent, OSTCBStatPend, OSTCBEventPtr, OSTCBPrio, OSEventPtr>>
    BY <1>1 DEF vars, coreVars, tcbVars, eventVars, flowVars
  <2>2. \A t \in Task : StaysPut(t)
    BY <2>1 DEF StaysPut, FlowAside, Idling, Pending
  <2> QED BY <2>1, <2>2, AllStayPut
<1>2. CASE Next /\ Disciplined /\ KeepsMutex
  <2>1. OSTCBPrio \in [Task -> Nat] /\ OSTCBPrio' \in [Task -> Nat]
    <3>1. TypeOK /\ TypeOK'
      BY <1>2, TypeStep, Types DEF IInv
    <3>2. Prio \subseteq Nat
      BY CoreAssumption DEF CoreAssumption, Prio
    <3> QED BY <3>1, <3>2 DEF TypeOK, TcbTypeOK
  <2>2. Controls => TheOwnedMutex!Next \/ Stutters
    <3>1. ControlStep => UNCHANGED <<OSTCBPrio, OSEventPtr>>
      BY DEF ControlStep, eventVars
    <3> QED BY <3>1, QuietStatus, DelaySim DEF Controls, Stutters
  <2>3. TheOwnedMutex!Next \/ Stutters
    BY <1>2, <2>1, <2>2, Effects, TakeSim, BlockSim, BackSim, PostSim, DelSim, CreateSim
  <2> QED BY <2>3 DEF Stutters
<1> QED BY <1>1, <1>2

-----------------------------------------------------------------------------
(* The theorem.                                                            *)

\* The invariant is inductive.
LEMMA MutexInductive ==
  ASSUME NoChangePrio, MInv, [Next]_vars, [Disciplined]_vars, [KeepsMutex]_vars
  PROVE  MInv'
<1>1. IInv'
  BY Inductive, Types
<1>2. CASE UNCHANGED vars
  <2>1. IsMutex(TheMutex)'
    BY <1>2 DEF MInv, vars, coreVars, eventVars, IsMutex
  <2>2. Outcomes'
    BY <1>2 DEF MInv, vars, coreVars, tcbVars, eventVars, flowVars, Outcomes, OutcomeAt, Pending
  <2> QED BY <1>1, <2>1, <2>2 DEF MInv
<1>3. CASE Next /\ Disciplined /\ KeepsMutex
  BY <1>1, <1>3, OutcomesStep DEF MInv
<1> QED BY <1>2, <1>3

\* When the system starts, the invariant holds and the mutex is as the abstract
\* one starts: free, nobody waiting.
LEMMA InitSim ==
  ASSUME Init
  PROVE  MInv /\ TheOwnedMutex!Init
<1>1. IInv
  BY InitInv
<1>2. IsMutex(TheMutex) /\ TheMutex \in Event /\ TheMutex \in InitMutex
  BY ServiceAssumption DEF ServiceAssumption, InitMutex, IsMutex, Init
<1>3. TasksStarted /\ Null \notin Event
  BY CoreAssumption DEF Init, StartedInit, CoreAssumption
<1>4. Outcomes
  BY <1>3 DEF TasksStarted, Outcomes, OutcomeAt, Pending, PendPlaces
<1>5. MInv
  BY <1>1, <1>2, <1>4 DEF MInv
<1>6. OSEventPtr[TheMutex] = Null
  BY <1>2, InitChain
<1>7. OSTCBPrio \in [Task -> Nat]
  <2>1. Prio \subseteq Nat
    BY CoreAssumption DEF CoreAssumption, Prio
  <2> QED BY <1>5, <2>1, Types DEF TcbTypeOK
<1>8. TheStatus = [t \in Task |-> "idle"]
  BY <1>2, <1>3 DEF TasksStarted, TheStatus, MutexStatus
<1> QED BY <1>5, <1>6, <1>7, <1>8 DEF TheOwnedMutex!Init

\* A mutex that the application does not delete is an owned mutex for its
\* callers: it has one owner at a time, a post hands it to the first waiter even
\* if that one has just timed out, a pend that returns with success returns to
\* the owner, and only owners run at another priority, whatever ticks, nested
\* interrupts, suspensions and other mutexes come in between.
THEOREM MutexImplementsService ==
  ASSUME NoChangePrio
  PROVE  Spec /\ [][Disciplined]_vars /\ [][KeepsMutex]_vars => IsOwnedMutex
<1>1. Init => MInv /\ TheOwnedMutex!Init
  BY InitSim
<1>2. MInv /\ [Next]_vars /\ [Disciplined]_vars /\ [KeepsMutex]_vars => MInv'
  BY MutexInductive
<1>3. MInv /\ [Next]_vars /\ [Disciplined]_vars /\ [KeepsMutex]_vars
        => [TheOwnedMutex!Next]_<<OSEventPtr[TheMutex], TheStatus, OSTCBPrio>>
  BY StepSim
<1> QED BY <1>1, <1>2, <1>3, PTL DEF Spec, IsOwnedMutex, TheOwnedMutex!Spec

=============================================================================
