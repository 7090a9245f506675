---------------------------- MODULE UcosMsgProofs -----------------------------
(***************************************************************************)
(* Proofs about UcosMsg for every number of tasks, priorities, events and   *)
(* OS_Q blocks, all sizes of queues and all arrays of events: the wait      *)
(* lists of tasks that wait for several events at once, the ready list, the *)
(* rings of the queues and the free list of OS_Q blocks.                    *)
(*                                                                         *)
(* They hold for applications that keep to PrioDiscipline, as in            *)
(* UcosSemProofs, and to Disciplined.                                       *)
(***************************************************************************)
EXTENDS UcosMsg, WellFoundedInduction, FiniteSetTheorems, SequenceTheorems, TLAPS

\* OSTaskChangePrio is called neither from an ISR nor from a task that also
\* locks the scheduler.
PrioDiscipline ==
  /\ "OSTaskChangePrio" \notin IsrCalls
  /\ \A t \in Task :
       ~ ("OSTaskChangePrio" \in TaskCalls[t] /\ "OSSchedLock" \in TaskCalls[t])

\* "This function must be used with care. Tasks that would normally expect the
\* presence of the queue MUST check the return code of OSQPend()" (OSQDel): an
\* object is deleted while no other task has passed the type check of a call on
\* it and not yet come to its critical section.  Tasks may wait for it.
Disciplined ==
  \A service \in {"OSQDel", "OSMboxDel"}, e \in Event, always \in BOOLEAN :
    Delete(service, e, always) =>
      \A t \in Task \ {OSTCBCur} : pc[t] \in DOMAIN ServiceType => pevent[t] # e

\* Nobody suspends tasks, or nobody pends on several events: see
\* ResumeMulti.cfg for what becomes of a task to which both happens.
NoSuspension ==
  "OSTaskSuspend" \notin IsrCalls /\ \A t \in Task : "OSTaskSuspend" \notin TaskCalls[t]

NoMulti == \A t \in Task : "OSEventPendMulti" \notin TaskCalls[t]

-----------------------------------------------------------------------------
(* The inductive invariant.                                                *)

SchedPlaces == {"OS_Sched", "OSPend_Sched"}

PendPlaces == {"OSPend_Sched", "OSPend_Tail"}

Sections == DOMAIN ServiceType

CreateSections == {"OSQCreate", "OSMboxCreate"}

MsgPlaces ==
  {"app", "OSEventPendMulti"} \cup SchedPlaces \cup PendPlaces \cup Sections
    \cup CreateSections

Args == Event \cup {Null} \cup PendArrays \cup Event \X QBlock

OS_Q ==
  [OSQPtr: QBlock \cup {Null}, OSQIn: Nat, OSQOut: Nat, OSQSize: QSizes, OSQEntries: Nat,
   buf: [0 .. MaxSize - 1 -> Message]]

\* The types of the variables that TypeOK leaves open.
WideTypeOK ==
  /\ pc \in [Task -> MsgPlaces]
  /\ pevent \in [Task -> Args]
  /\ OSQTbl \in [QBlock -> OS_Q]

\* A tick is in progress while there are tasks left for it to visit.
TickSound == tickNest > 0 <=> ptcb # <<>>

\* What t waits for has happened, or its timeout is over.
Done(t) == Awaited(t) = {} \/ OSTCBStatPend[t] = "TO"

\* A task that waits is in OSQPend, OSMboxPend or OSEventPendMulti for these
\* events, and pends unless its timeout is over.
PendAt(t) ==
  /\ Awaited(t) # {} =>
       /\ pc[t] \in PendPlaces
       /\ OSTCBStatPend[t] # "ABORT"
       /\ OSTCBStatPend[t] = "OK" => OSTCBStat[t] \cap {"Q", "MBOX"} # {}
       /\ OSTCBStatPend[t] = "TO" => OSTCBDly[t] = 0
  /\ OSTCBEventPtr[t] # Null => pevent[t] = OSTCBEventPtr[t] /\ OSTCBEventMultiPtr[t] = <<>>
  /\ OSTCBEventMultiPtr[t] # <<>> =>
       pevent[t] = OSTCBEventMultiPtr[t] /\ OSTCBEventMultiRdy[t] = Null

PendSound == \A t \in Task : PendAt(t)

\* The wait lists name tasks.
ListsNamed == \A e \in Event : \A p \in OSEventWait[e] : OSTCBPrioTbl[p] \in Task

\* The ready list names tasks, and none that is suspended, delayed or waiting.
RdySound ==
  /\ \A p \in OSRdy : OSTCBPrioTbl[p] \in Task
  /\ \A t \in Task : OSTCBPrio[t] \in OSRdy =>
       "SUSPEND" \notin OSTCBStat[t] /\ OSTCBDly[t] = 0 /\ Done(t)

\* Without suspensions or without multi-pends it names all the others: then no
\* status bit is left that would keep a resumed task off it.
WakeSound ==
  /\ NoSuspension => \A t \in Task : "SUSPEND" \notin OSTCBStat[t]
  /\ NoMulti => \A t \in Task :
       /\ pc[t] # "OSEventPendMulti" /\ OSTCBEventMultiPtr[t] = <<>>
       /\ OSTCBStat[t] \cap OS_STAT_PEND_ANY \subseteq
            IF Done(t) THEN {} ELSE {OSEventType[OSTCBEventPtr[t]]}
  /\ NoSuspension \/ NoMulti => \A t \in Task :
       "SUSPEND" \notin OSTCBStat[t] /\ OSTCBDly[t] = 0 /\ Done(t) => OSTCBPrio[t] \in OSRdy

\* OSPrioCur is the priority of the running task, or one that no task has
\* after a change of priority and before the switch that follows it.
CurSound ==
  \/ OSTCBPrioTbl[OSPrioCur] = OSTCBCur
  \/ /\ OSTCBPrioTbl[OSPrioCur] = Null
     /\ PendSV \/ pc[OSTCBCur] \in SchedPlaces
     /\ OSLockNesting = 0

\* A pending switch leads to a ready task; only a ready task comes back from
\* the wait of a pend.
SwitchSound ==
  /\ PendSV /\ OSIntNesting = 0 =>
       OSPrioHighRdy \in OSRdy /\ OSTCBHighRdy = OSTCBPrioTbl[OSPrioHighRdy]
  /\ Runs /\ pc[OSTCBCur] = "OSPend_Tail" => OSTCBPrio[OSTCBCur] \in OSRdy

\* While the scheduler is locked there is no switch and no pend.
LockSound ==
  OSLockNesting > 0 =>
    /\ ~PendSV
    /\ "OSSchedLock" \in TaskCalls[OSTCBCur]
    /\ pc[OSTCBCur] \notin PendPlaces \cup {"OSQPend", "OSMboxPend", "OSEventPendMulti"}

\* A task that has passed the type check of a service finds an object of that
\* type in its critical section.
CallAt(t) ==
  /\ pc[t] \in Sections => pevent[t] \in Event /\ OSEventType[pevent[t]] = ServiceType[pc[t]]
  /\ pc[t] \in PendPlaces => pevent[t] \in Event \cup PendArrays
  /\ pc[t] = "OSEventPendMulti" => pevent[t] \in PendArrays
  /\ pc[t] = "OSMboxCreate" => pevent[t] \in Event
  /\ pc[t] = "OSQCreate" => pevent[t] \in Event \cup Event \X QBlock

CallSound == \A t \in Task : CallAt(t)

\* What OSEventPtr is, by type.
EventSound ==
  \A e \in Event :
    /\ OSEventType[e] = "Q" => OSEventPtr[e] \in QBlock
    /\ OSEventType[e] = "MBOX" => OSEventPtr[e] \in Message
    /\ OSEventType[e] = "UNUSED" => OSEventWait[e] = {}

\* t has taken e off the free list to create an object in it.
Holds(t, e) ==
  /\ pc[t] \in CreateSections
  /\ e = IF pevent[t] \in Event THEN pevent[t] ELSE pevent[t][1]

Spare(e) == OSEventType[e] = "UNUSED" /\ \A t \in Task : ~Holds(t, e)

\* The chain of unused event control blocks: every one has at most one
\* predecessor, the head has none.
EventChain ==
  /\ \A t \in Task : \A e \in Event : Holds(t, e) =>
       OSEventType[e] = "UNUSED" /\ \A s \in Task : Holds(s, e) => s = t
  /\ OSEventFreeList # Null => Spare(OSEventFreeList)
  /\ \A e \in Event : Spare(e) /\ OSEventPtr[e] # Null =>
       OSEventPtr[e] \in Event /\ Spare(OSEventPtr[e]) /\ OSEventPtr[e] # OSEventFreeList
  /\ \A e, f \in Event :
       Spare(e) /\ Spare(f) /\ OSEventPtr[e] # Null /\ OSEventPtr[e] = OSEventPtr[f] => e = f

\* Where the fields of an OS_Q point fits the number of messages.
RingAt(q) ==
  /\ q.OSQEntries <= q.OSQSize
  /\ q.OSQSize > 0 =>
       /\ q.OSQIn < q.OSQSize /\ q.OSQOut < q.OSQSize
       /\ q.OSQOut + q.OSQEntries \in {q.OSQIn, q.OSQIn + q.OSQSize}

Rings == \A b \in QBlock : RingAt(OSQTbl[b])

\* The queue e has the OS_Q b; t has taken b to create a queue.
HasQ(e, b) == OSEventType[e] = "Q" /\ OSEventPtr[e] = b

TakesQ(t, b) == pc[t] = "OSQCreate" /\ pevent[t] \notin Event /\ pevent[t][2] = b

Unused(b) == (\A e \in Event : ~HasQ(e, b)) /\ (\A t \in Task : ~TakesQ(t, b))

\* The chain of unused OS_Q blocks likewise; all of them are in it.
QChain ==
  /\ \A b \in QBlock :
       /\ \A e, f \in Event : HasQ(e, b) /\ HasQ(f, b) => e = f
       /\ \A s, t \in Task : TakesQ(s, b) /\ TakesQ(t, b) => s = t
       /\ \A e \in Event, t \in Task : ~ (HasQ(e, b) /\ TakesQ(t, b))
  /\ OSQFreeList # Null => Unused(OSQFreeList)
  /\ \A b \in QBlock : Unused(b) /\ OSQTbl[b].OSQPtr # Null =>
       Unused(OSQTbl[b].OSQPtr) /\ OSQTbl[b].OSQPtr # OSQFreeList
  /\ \A b, c \in QBlock :
       Unused(b) /\ Unused(c) /\ OSQTbl[b].OSQPtr # Null /\ OSQTbl[b].OSQPtr = OSQTbl[c].OSQPtr
         => b = c
  /\ \A b \in QBlock : Unused(b) => b \in FreeQs

\* The state between any two steps, whatever is in flight.
IInv ==
  /\ TypeOK
  /\ WideTypeOK
  /\ TickSound
  /\ PrioTblSound
  /\ OnAwaitedLists
  /\ ListsNamed
  /\ PendSound
  /\ RdySound
  /\ WakeSound
  /\ CurSound
  /\ SwitchSound
  /\ LockSound
  /\ CallSound
  /\ EventSound
  /\ EventChain
  /\ Rings
  /\ QChain

-----------------------------------------------------------------------------
(* What the invariant says of one task or one event.                        *)

\* Distinct tasks have distinct priorities.
LEMMA PriosDistinct ==
  ASSUME PrioTblSound
  PROVE  \A s, t \in Task : OSTCBPrio[s] = OSTCBPrio[t] => s = t
BY DEF PrioTblSound

\* The types of the parts of the state.
LEMMA Types ==
  ASSUME IInv
  PROVE  /\ TcbTypeOK /\ ReadyTypeOK /\ SwitchTypeOK /\ NestTypeOK /\ TickTypeOK
         /\ OSTCBCur \in Task
         /\ OSEventType \in [Event -> {"UNUSED", "Q", "MBOX"}]
         /\ OSEventWait \in [Event -> SUBSET Prio]
         /\ OSEventPtr \in [Event -> Event \cup QBlock \cup Message]
         /\ OSTCBEventMultiPtr \in [Task -> PendArrays \cup {<<>>}]
         /\ OSTCBEventMultiRdy \in [Task -> Event \cup {Null}]
         /\ pc \in [Task -> MsgPlaces] /\ pevent \in [Task -> Args]
         /\ OSQTbl \in [QBlock -> OS_Q]
         /\ OSEventFreeList \in Event \cup {Null} /\ OSQFreeList \in QBlock \cup {Null}
         /\ PrioTblSound
         /\ Null \notin Event /\ Null \notin Task /\ Null \notin QBlock
BY CoreAssumption, MsgAssumption
DEF IInv, TypeOK, WideTypeOK, SwitchTypeOK, CoreAssumption, MsgAssumption

\* The services, and the types of the objects they are for.
LEMMA ServiceFacts ==
  /\ Sections = {"OSQPend", "OSQPost", "OSQPostFront", "OSQPostOpt", "OSQAccept", "OSQFlush",
                 "OSQPendAbort", "OSQDel", "OSMboxPend", "OSMboxPost", "OSMboxPostOpt",
                 "OSMboxAccept", "OSMboxPendAbort", "OSMboxDel"}
  /\ \A service \in Sections : ServiceType[service] \in {"Q", "MBOX"}
  /\ \A service \in Sections :
       service \notin {"app", "OSEventPendMulti"} \cup SchedPlaces \cup PendPlaces \cup CreateSections
  /\ \A service \in QPosts \cup {"OSQPend", "OSQDel", "OSQFlush", "OSQAccept", "OSQPendAbort"} :
       service \in Sections /\ ServiceType[service] = "Q"
  /\ \A service \in MboxPosts \cup {"OSMboxPend", "OSMboxDel", "OSMboxAccept", "OSMboxPendAbort"} :
       service \in Sections /\ ServiceType[service] = "MBOX"
BY DEF Sections, ServiceType, SchedPlaces, PendPlaces, CreateSections, QPosts, MboxPosts

\* An array names at least one event, and only events.
LEMMA ArrayFacts ==
  ASSUME NEW a \in PendArrays
  PROVE  /\ a # <<>> /\ a \notin Event /\ Range(a) \subseteq Event /\ Range(a) # {}
         /\ a # Null
<1>1. a \in Seq(Event) /\ a # <<>> /\ a \notin Event /\ a # Null
  BY MsgAssumption DEF MsgAssumption
<1>2. Range(a) \subseteq Event
  BY <1>1 DEF Range
<1>3. 1 \in DOMAIN a
  BY <1>1
<1> QED BY <1>1, <1>2, <1>3 DEF Range

\* The events a task waits for.
LEMMA AwaitedFacts ==
  ASSUME IInv, NEW t \in Task
  PROVE  /\ Awaited(t) \subseteq Event
         /\ Awaited(t) = {} <=> OSTCBEventPtr[t] = Null /\ OSTCBEventMultiPtr[t] = <<>>
         /\ OSTCBEventPtr[t] # Null => Awaited(t) = {OSTCBEventPtr[t]} /\ pevent[t] \in Event
                                       /\ pevent[t] = OSTCBEventPtr[t]
         /\ OSTCBEventMultiPtr[t] # <<>> =>
              /\ Awaited(t) = Range(OSTCBEventMultiPtr[t])
              /\ pevent[t] = OSTCBEventMultiPtr[t] /\ pevent[t] \notin Event
              /\ OSTCBEventPtr[t] = Null
<1>1. /\ OSTCBEventPtr[t] \in Event \cup {Null}
      /\ OSTCBEventMultiPtr[t] \in PendArrays \cup {<<>>}
      /\ Null \notin Event
  BY Types DEF TcbTypeOK
<1>2. Range(<<>>) = {}
  BY DEF Range
<1>3. PendAt(t)
  BY DEF IInv, PendSound
<1>4. CASE OSTCBEventMultiPtr[t] = <<>>
  BY <1>1, <1>2, <1>3, <1>4 DEF Awaited, PendAt
<1>5. CASE OSTCBEventMultiPtr[t] # <<>>
  <2>1. OSTCBEventPtr[t] = Null
    BY <1>3, <1>5 DEF PendAt
  <2>2. OSTCBEventMultiPtr[t] \in PendArrays
    BY <1>1, <1>5
  <2> QED BY <1>3, <1>5, <2>1, <2>2, ArrayFacts DEF Awaited, PendAt
<1> QED BY <1>4, <1>5

\* A task outside a pend waits for nothing.
LEMMA OutsidePend ==
  ASSUME IInv, NEW t \in Task, pc[t] \notin PendPlaces
  PROVE  /\ Awaited(t) = {} /\ OSTCBEventPtr[t] = Null /\ OSTCBEventMultiPtr[t] = <<>>
         /\ Done(t)
BY AwaitedFacts DEF IInv, PendSound, PendAt, Done

\* The tasks on the wait list of e.
LEMMA WaiterFacts ==
  ASSUME IInv, NEW e \in Event, NEW p \in OSEventWait[e]
  PROVE  /\ p \in Prio /\ OSTCBPrioTbl[p] \in Task
         /\ OSTCBPrio[OSTCBPrioTbl[p]] = p
         /\ e \in Awaited(OSTCBPrioTbl[p])
<1>1. p \in Prio /\ PrioTblSound /\ Null \notin Task /\ OSTCBPrioTbl[p] \in Task
  BY Types DEF IInv, ListsNamed
<1> QED BY <1>1 DEF PrioTblSound, IInv, OnAwaitedLists

\* The running task is in one of its services; it is not about to call
\* OS_Sched and waits for nothing.
LEMMA InService ==
  ASSUME IInv, NEW service, service \notin SchedPlaces \cup PendPlaces,
         InTask(service) \/ (service = "app" /\ \E s : TaskCall(s))
  PROVE  /\ Runs /\ ~PendSV /\ OSIntNesting = 0
         /\ pc[OSTCBCur] = service /\ pc[OSTCBCur] \notin SchedPlaces \cup PendPlaces
         /\ Awaited(OSTCBCur) = {} /\ Done(OSTCBCur)
         /\ OSTCBEventPtr[OSTCBCur] = Null /\ OSTCBEventMultiPtr[OSTCBCur] = <<>>
<1>1. InTask(service)
  BY DEF TaskCall
<1> QED BY <1>1, OutsidePend, Types DEF InTask, Runs

-----------------------------------------------------------------------------
(* What a step may do to the tasks.                                        *)

PendSections == {"OSQPend", "OSMboxPend", "OSEventPendMulti"}

\* The arguments of the services, by place.
Fits(place, arg) ==
  /\ place \in MsgPlaces \ PendPlaces
  /\ arg \in Args
  /\ place \in Sections => arg \in Event /\ OSEventType[arg] = ServiceType[place]
  /\ place = "OSEventPendMulti" =>
       arg \in PendArrays /\ "OSEventPendMulti" \in TaskCalls[OSTCBCur]
  /\ place = "OSMboxCreate" => arg \in Event
  /\ place = "OSQCreate" => arg \in Event \cup Event \X QBlock

\* The running task goes on in a service or leaves it, without a wait.
Moves(place, arg) ==
  /\ Runs /\ pc[OSTCBCur] \notin SchedPlaces /\ Awaited(OSTCBCur) = {}
  /\ place \in PendSections => OSLockNesting = 0
  /\ Fits(place, arg)
  /\ GoTo(place, arg)

\* No task stops or begins to create an object.
KeepsHolds ==
  \A t \in Task :
    \/ pc'[t] = pc[t] /\ pevent'[t] = pevent[t]
    \/ pc[t] \notin CreateSections /\ pc'[t] \notin CreateSections

\* At most the running task moves.
FlowQuiet == UNCHANGED flowVars \/ \E place \in MsgPlaces, arg \in Args : Moves(place, arg)

TasksSame ==
  UNCHANGED <<tcbVars, OSEventWait, readyVars, switchVars, nestVars, tickVars, OSTCBMsg,
              multiVars>>

Quiet == TasksSame /\ FlowQuiet

\* The running task waits for the events of S.
Waits(S) ==
  /\ Runs /\ pc[OSTCBCur] \in PendSections
  /\ S # {} /\ \A e \in S : e \in Event /\ OSEventType[e] \in {"Q", "MBOX"}
  /\ \E bits \in SUBSET {"Q", "MBOX", "MULTI"} :
       /\ bits \cap {"Q", "MBOX"} # {}
       /\ OSTCBStat' = [OSTCBStat EXCEPT ![OSTCBCur] = @ \cup bits]
       /\ pevent[OSTCBCur] \in Event =>
            pevent[OSTCBCur] \in S /\ bits = {OSEventType[pevent[OSTCBCur]]}
  /\ OSTCBStatPend' = [OSTCBStatPend EXCEPT ![OSTCBCur] = "OK"]
  /\ \E timeout \in 0 .. MaxDly : OSTCBDly' = [OSTCBDly EXCEPT ![OSTCBCur] = timeout]
  /\ OSEventWait' = [e \in Event |-> IF e \in S THEN OSEventWait[e] \cup {OSTCBPrio[OSTCBCur]}
                                                ELSE OSEventWait[e]]
  /\ OSRdy' = OSRdy \ {OSTCBPrio[OSTCBCur]}
  /\ pevent[OSTCBCur] \in Event \cup PendArrays
  /\ GoTo("OSPend_Sched", pevent[OSTCBCur])
  /\ \/ /\ pevent[OSTCBCur] \in Event /\ S = {pevent[OSTCBCur]}
        /\ OSTCBEventPtr' = [OSTCBEventPtr EXCEPT ![OSTCBCur] = pevent[OSTCBCur]]
        /\ UNCHANGED multiVars
     \/ /\ pevent[OSTCBCur] \in PendArrays /\ S = Range(pevent[OSTCBCur])
        /\ OSTCBEventMultiPtr' = [OSTCBEventMultiPtr EXCEPT ![OSTCBCur] = pevent[OSTCBCur]]
        /\ OSTCBEventMultiRdy' = [OSTCBEventMultiRdy EXCEPT ![OSTCBCur] = Null]
        /\ UNCHANGED OSTCBEventPtr
  /\ UNCHANGED <<OSTCBPrio, OSTCBPrioTbl, switchVars, nestVars, tickVars, OSTCBMsg>>

\* The running task comes back from a wait and is on no list any more.
ComesBack ==
  /\ InTask("OSPend_Tail") /\ OSTCBPrio[OSTCBCur] \in OSRdy
  /\ OSEventWait' \in [Event -> SUBSET Prio]
  /\ \A e \in Event : /\ OSTCBPrio[OSTCBCur] \notin OSEventWait'[e]
                      /\ OSEventWait'[e] \subseteq OSEventWait[e]
                      /\ OSEventWait[e] \subseteq OSEventWait'[e] \cup {OSTCBPrio[OSTCBCur]}
  /\ OSTCBStat' = [OSTCBStat EXCEPT ![OSTCBCur] = {}]
  /\ OSTCBStatPend' = [OSTCBStatPend EXCEPT ![OSTCBCur] = "OK"]
  /\ OSTCBEventPtr' = [OSTCBEventPtr EXCEPT ![OSTCBCur] = Null]
  /\ OSTCBMsg' = [OSTCBMsg EXCEPT ![OSTCBCur] = Null]
  /\ OSTCBEventMultiPtr' = [OSTCBEventMultiPtr EXCEPT ![OSTCBCur] = <<>>]
  /\ OSTCBEventMultiRdy' = [OSTCBEventMultiRdy EXCEPT ![OSTCBCur] = Null]
  /\ GoTo("app", Null)
  /\ UNCHANGED <<OSTCBPrio, OSTCBDly, readyVars, switchVars, nestVars, tickVars>>

\* The tasks of T, which wait for e, stop waiting; all of them if the list of e
\* is emptied.
Woken(e, T) ==
  /\ T \subseteq Task /\ \A t \in T : e \in Awaited(t)
  /\ OSTCBDly' = [t \in Task |-> IF t \in T THEN 0 ELSE OSTCBDly[t]]
  /\ \E pmsg \in Message : OSTCBMsg' = [t \in Task |-> IF t \in T THEN pmsg ELSE OSTCBMsg[t]]
  /\ OSTCBStat' = [t \in Task |-> IF t \in T THEN OSTCBStat[t] \ {OSEventType[e]}
                                             ELSE OSTCBStat[t]]
  /\ \E ps \in {"OK", "ABORT"} :
       OSTCBStatPend' = [t \in Task |-> IF t \in T THEN ps ELSE OSTCBStatPend[t]]
  /\ OSTCBEventPtr' = [t \in Task |-> IF t \in T THEN Null ELSE OSTCBEventPtr[t]]
  /\ OSEventWait' = [f \in Event |->
                       OSEventWait[f] \ {OSTCBPrio[t] : t \in {u \in T : f \in Awaited(u)}}]
  /\ OSTCBEventMultiPtr' = [t \in Task |-> IF t \in T THEN <<>> ELSE OSTCBEventMultiPtr[t]]
  /\ OSTCBEventMultiRdy' = [t \in Task |-> IF t \in T /\ OSTCBEventMultiPtr[t] # <<>>
                                             THEN e ELSE OSTCBEventMultiRdy[t]]
  /\ OSRdy' = OSRdy \cup ReadyPrios(T)
  /\ UNCHANGED <<OSTCBPrio, OSTCBPrioTbl, switchVars, nestVars, tickVars>>

Wakes(e, T) == Woken(e, T) /\ FlowQuiet

-----------------------------------------------------------------------------
(* What a step may do to the objects.                                      *)

SameObjects == UNCHANGED <<OSEventType, OSEventPtr, OSEventFreeList, qVars>>

\* Messages come and go.
Traffic ==
  /\ UNCHANGED <<OSEventType, OSEventFreeList, OSQFreeList>>
  /\ OSEventPtr' \in [Event -> Event \cup QBlock \cup Message]
  /\ \A e \in Event : \/ OSEventPtr'[e] = OSEventPtr[e]
                      \/ OSEventType[e] = "MBOX" /\ OSEventPtr'[e] \in Message
  /\ OSQTbl' \in [QBlock -> OS_Q]
  /\ \A b \in QBlock : OSQTbl'[b].OSQPtr = OSQTbl[b].OSQPtr /\ RingAt(OSQTbl'[b])

\* No object is created or deleted, nor begins to be.
Kept == Traffic /\ KeepsHolds

\* The running task takes the first unused event control block.
TakesEvent(place, e) ==
  /\ place \in CreateSections
  /\ pc[OSTCBCur] = "app"
  /\ e \in Event /\ e = OSEventFreeList
  /\ OSEventFreeList' = OSEventPtr[e]
  /\ GoTo(place, e)
  /\ UNCHANGED <<OSEventType, OSEventPtr, qVars>>

\* It puts the block back.
ReturnsEvent(e) ==
  /\ pc[OSTCBCur] = "OSQCreate" /\ pevent[OSTCBCur] = e /\ e \in Event
  /\ OSEventPtr' = [OSEventPtr EXCEPT ![e] = OSEventFreeList]
  /\ OSEventFreeList' = e
  /\ GoTo("app", Null)
  /\ UNCHANGED <<OSEventType, qVars>>

\* It takes the first unused OS_Q as well.
TakesBlock(e, b) ==
  /\ pc[OSTCBCur] = "OSQCreate" /\ pevent[OSTCBCur] = e /\ e \in Event
  /\ b \in QBlock /\ b = OSQFreeList
  /\ OSQFreeList' = OSQTbl[b].OSQPtr
  /\ GoTo("OSQCreate", <<e, b>>)
  /\ UNCHANGED <<OSEventType, OSEventPtr, OSEventFreeList, OSQTbl>>

\* It makes the block a queue or a mailbox.
MakesQueue(e, b) ==
  /\ pc[OSTCBCur] = "OSQCreate" /\ pevent[OSTCBCur] = <<e, b>> /\ e \in Event /\ b \in QBlock
  /\ \E size \in QSizes : OSQTbl' = [OSQTbl EXCEPT ![b] = Ring(size, OSQTbl[b].OSQPtr)]
  /\ OSEventType' = [OSEventType EXCEPT ![e] = "Q"]
  /\ OSEventPtr' = [OSEventPtr EXCEPT ![e] = b]
  /\ GoTo("app", Null)
  /\ UNCHANGED <<OSEventFreeList, OSQFreeList>>

MakesMbox(e) ==
  /\ pc[OSTCBCur] = "OSMboxCreate" /\ pevent[OSTCBCur] = e /\ e \in Event
  /\ OSEventType' = [OSEventType EXCEPT ![e] = "MBOX"]
  /\ \E pmsg \in Message : OSEventPtr' = [OSEventPtr EXCEPT ![e] = pmsg]
  /\ GoTo("app", Null)
  /\ UNCHANGED <<OSEventFreeList, qVars>>

Creates ==
  \/ \E place \in CreateSections, e \in Event : TakesEvent(place, e)
  \/ \E e \in Event : ReturnsEvent(e) \/ MakesMbox(e)
  \/ \E e \in Event, b \in QBlock : TakesBlock(e, b) \/ MakesQueue(e, b)

\* The running task deletes the object in e while nobody else is in a call on
\* it, and its blocks go to the free lists.
Deletes(e) ==
  /\ e \in Event /\ OSEventType[e] \in {"Q", "MBOX"}
  /\ pc[OSTCBCur] \in Sections
  /\ \E place \in {"app", "OS_Sched"} : GoTo(place, Null)
  /\ \A t \in Task \ {OSTCBCur} : pc[t] \in Sections => pevent[t] # e
  /\ OSEventType' = [OSEventType EXCEPT ![e] = "UNUSED"]
  /\ OSEventPtr' = [OSEventPtr EXCEPT ![e] = OSEventFreeList]
  /\ OSEventFreeList' = e
  /\ IF OSEventType[e] = "Q"
       THEN /\ OSQTbl' = [OSQTbl EXCEPT ![OSEventPtr[e]].OSQPtr = OSQFreeList]
            /\ OSQFreeList' = OSEventPtr[e]
       ELSE UNCHANGED qVars

\* All tasks that wait for e stop.
TakesAll(e, T) == \A t \in Task : e \in Awaited(t) => t \in T

\* The steps of the kernel and of the services for tasks other than
\* OSTaskChangePrio.
TickOrSwitch ==
  \/ CoreNext
  \/ \E ticks \in 1 .. MaxDly : OSTimeDly(ticks)
  \/ \E prio \in Prio : OSTimeDlyResume(prio) \/ OSTaskSuspend(prio) \/ OSTaskResume(prio)

Control == TickOrSwitch /\ UNCHANGED msgVars

StillStep == Quiet /\ Kept

CreateStep == Quiet /\ Creates

WaitStep == \E S \in SUBSET Event : Waits(S) /\ SameObjects

BackStep == ComesBack /\ SameObjects

WakeStep == \E e \in Event, T \in SUBSET Task : Wakes(e, T) /\ Kept

DeleteStep ==
  \E e \in Event, T \in SUBSET Task : Wakes(e, T) /\ Deletes(e) /\ TakesAll(e, T)

ServiceStep ==
  StillStep \/ CreateStep \/ WaitStep \/ BackStep \/ WakeStep \/ DeleteStep

-----------------------------------------------------------------------------
(* Each service has one of these effects.                                  *)

\* Only the running task moves.
LEMMA GoToFacts ==
  ASSUME IInv, NEW place, NEW arg, GoTo(place, arg)
  PROVE  /\ pc'[OSTCBCur] = place /\ pevent'[OSTCBCur] = arg
         /\ \A t \in Task \ {OSTCBCur} : pc'[t] = pc[t] /\ pevent'[t] = pevent[t]
BY Types DEF GoTo

\* The objects as they are are a case of Traffic.
LEMMA SameIsTraffic ==
  ASSUME IInv, SameObjects
  PROVE  Traffic
BY Types DEF SameObjects, Traffic, qVars, IInv, Rings

\* A caller that is in no pend and creates nothing.
Free ==
  \/ OSIntNesting > 0
  \/ /\ Runs /\ pc[OSTCBCur] \notin SchedPlaces \cup CreateSections
     /\ Awaited(OSTCBCur) = {}

\* The way back from a service.
LEMMA ReturnFlow ==
  ASSUME IInv, NEW b \in BOOLEAN, Returns(b), Free
  PROVE  FlowQuiet /\ KeepsHolds
<1>1. CASE OSIntNesting > 0
  <2>1. UNCHANGED flowVars
    BY <1>1 DEF Returns
  <2> QED BY <2>1 DEF FlowQuiet, KeepsHolds, flowVars
<1>2. CASE ~(OSIntNesting > 0)
  <2>1. PICK place \in {"app", "OS_Sched"} : GoTo(place, Null)
    BY <1>2 DEF Returns
  <2>2. Fits(place, Null)
    BY <2>1, ServiceFacts
    DEF Fits, MsgPlaces, SchedPlaces, PendPlaces, CreateSections, Args
  <2>3. place \in MsgPlaces /\ Null \in Args /\ place \notin PendSections
        /\ place \notin CreateSections
    BY <2>1 DEF MsgPlaces, SchedPlaces, Args, PendSections, CreateSections
  <2>4. Moves(place, Null)
    BY <1>2, <2>1, <2>2, <2>3 DEF Moves, Free
  <2>5. KeepsHolds
    BY <1>2, <2>1, <2>3, GoToFacts DEF KeepsHolds, Free
  <2> QED BY <2>3, <2>4, <2>5 DEF FlowQuiet
<1> QED BY <1>1, <1>2

\* A caller of a service has an object of the type the service is for.
LEMMA SectionFacts ==
  ASSUME IInv, NEW service \in Sections, NEW e \in Event, AtSection(service, e)
  PROVE  /\ Free
         /\ OSEventType[e] = ServiceType[service]
         /\ ServiceType[service] = "Q" => OSEventPtr[e] \in QBlock
         /\ ServiceType[service] = "MBOX" => OSEventPtr[e] \in Message
<1>1. service \notin SchedPlaces \cup PendPlaces \cup CreateSections
  BY ServiceFacts
<1>2. CASE InTask(service) /\ pevent[OSTCBCur] = e
  <2>1. CallAt(OSTCBCur)
    BY Types DEF IInv, CallSound
  <2>2. pc[OSTCBCur] = service
    BY <1>2 DEF InTask
  <2>3. OSEventType[e] = ServiceType[service]
    BY <1>2, <2>1, <2>2 DEF CallAt
  <2> QED BY <1>1, <1>2, <2>3, InService DEF Free, IInv, EventSound
<1>3. CASE IsrCall(service) /\ OSEventType[e] = ServiceType[service]
  BY <1>3 DEF IsrCall, InIsr, Free, IInv, EventSound
<1> QED BY <1>2, <1>3 DEF AtSection

\* A task that calls a service.
LEMMA CallFacts ==
  ASSUME IInv, NEW service, TaskCall(service)
  PROVE  /\ Runs /\ pc[OSTCBCur] = "app" /\ service \in TaskCalls[OSTCBCur]
         /\ Awaited(OSTCBCur) = {} /\ Free
<1>1. "app" \notin SchedPlaces \cup PendPlaces \cup CreateSections
  BY DEF SchedPlaces, PendPlaces, CreateSections
<1>2. InTask("app") /\ service \in TaskCalls[OSTCBCur]
  BY DEF TaskCall
<1> QED BY <1>1, <1>2, InService DEF Free

\* The type check of a service.
LEMMA EnterEffect ==
  ASSUME IInv, NEW service \in DOMAIN ServiceType, NEW e \in Event, OSMsg_Enter(service, e)
  PROVE  ServiceStep
<1>1. /\ TaskCall(service) /\ OSEventType[e] = ServiceType[service]
      /\ service \in {"OSQPend", "OSMboxPend"} => OSLockNesting = 0
      /\ GoTo(service, e) /\ KernelUnchanged /\ UNCHANGED <<eventVars, msgVars>>
  BY DEF OSMsg_Enter
<1>2. service \in Sections /\ service \notin CreateSections \cup PendPlaces /\ service # "OSEventPendMulti"
  BY ServiceFacts DEF Sections
<1>3. service \in MsgPlaces /\ e \in Args
  BY <1>2 DEF MsgPlaces, Args
<1>4. Fits(service, e)
  BY <1>1, <1>2, <1>3 DEF Fits, CreateSections
<1>5. pc[OSTCBCur] = "app" /\ Runs /\ Awaited(OSTCBCur) = {}
  BY <1>1, CallFacts
<1>6. service \in PendSections => OSLockNesting = 0
  BY <1>1, <1>2 DEF PendSections
<1>7. Moves(service, e)
  BY <1>1, <1>4, <1>5, <1>6 DEF Moves, SchedPlaces
<1>8. KeepsHolds
  BY <1>1, <1>2, <1>5, GoToFacts DEF KeepsHolds, CreateSections
<1>9. TasksSame /\ SameObjects
  BY <1>1 DEF KernelUnchanged, TasksSame, SameObjects, eventVars, msgVars
<1> QED BY <1>3, <1>7, <1>8, <1>9, SameIsTraffic DEF FlowQuiet, Quiet, Kept, StillStep, ServiceStep

\* A service that returns without touching tasks or objects.
LEMMA QuietReturn ==
  ASSUME IInv, NEW b \in BOOLEAN, Returns(b), Free, TasksSame, SameObjects \/ Traffic
  PROVE  StillStep
BY ReturnFlow, SameIsTraffic DEF StillStep, Quiet, Kept

-----------------------------------------------------------------------------
(* The ring buffers.                                                       *)

\* Sizes are natural numbers.
LEMMA OS_QFacts ==
  ASSUME NEW q \in OS_Q
  PROVE  /\ q.OSQSize \in Nat /\ q.OSQIn \in Nat /\ q.OSQOut \in Nat /\ q.OSQEntries \in Nat
         /\ q.OSQPtr \in QBlock \cup {Null}
BY MsgAssumption DEF OS_Q, MsgAssumption

\* How the two indices of a ring of s slots that holds n messages move.
LEMMA OutForward ==
  ASSUME NEW s \in Nat, NEW n \in Nat, NEW in \in Nat, NEW out \in Nat,
         in < s, out < s, n <= s, out + n = in \/ out + n = in + s, n > 0
  PROVE  /\ Wrap(out + 1, s) < s
         /\ Wrap(out + 1, s) + (n - 1) = in \/ Wrap(out + 1, s) + (n - 1) = in + s
<1>1. CASE out + 1 = s
  BY <1>1 DEF Wrap
<1>2. CASE out + 1 # s
  BY <1>2 DEF Wrap
<1> QED BY <1>1, <1>2

LEMMA InForward ==
  ASSUME NEW s \in Nat, NEW n \in Nat, NEW in \in Nat, NEW out \in Nat,
         in < s, out < s, out + n = in \/ out + n = in + s, n < s
  PROVE  /\ Wrap(in + 1, s) < s
         /\ out + (n + 1) = Wrap(in + 1, s) \/ out + (n + 1) = Wrap(in + 1, s) + s
<1>1. CASE in + 1 = s
  BY <1>1 DEF Wrap
<1>2. CASE in + 1 # s
  BY <1>2 DEF Wrap
<1> QED BY <1>1, <1>2

\* One slot back.
Back(i, size) == (IF i = 0 THEN size ELSE i) - 1

LEMMA OutBack ==
  ASSUME NEW s \in Nat, NEW n \in Nat, NEW in \in Nat, NEW out \in Nat,
         in < s, out < s, out + n = in \/ out + n = in + s, n < s
  PROVE  /\ Back(out, s) \in Nat /\ Back(out, s) < s
         /\ Back(out, s) + (n + 1) = in \/ Back(out, s) + (n + 1) = in + s
<1>1. CASE out = 0
  BY <1>1 DEF Back
<1>2. CASE out # 0
  BY <1>2 DEF Back
<1> QED BY <1>1, <1>2

\* Taking the first message.
LEMMA ExtractedFacts ==
  ASSUME NEW q \in OS_Q, RingAt(q), q.OSQEntries > 0
  PROVE  /\ Extracted(q) \in OS_Q /\ Extracted(q).OSQPtr = q.OSQPtr
         /\ RingAt(Extracted(q))
<1>1. /\ q.OSQSize \in Nat /\ q.OSQIn \in Nat /\ q.OSQOut \in Nat /\ q.OSQEntries \in Nat
  BY OS_QFacts
<1>2. q.OSQEntries <= q.OSQSize /\ q.OSQSize > 0 /\ q.OSQIn < q.OSQSize /\ q.OSQOut < q.OSQSize
      /\ q.OSQOut + q.OSQEntries \in {q.OSQIn, q.OSQIn + q.OSQSize}
  BY <1>1 DEF RingAt
<1>3. PICK out \in Nat : out = Wrap(q.OSQOut + 1, q.OSQSize)
  BY <1>1 DEF Wrap
<1>8. PICK n \in Nat : n = q.OSQEntries - 1
  BY <1>1
<1>4. Extracted(q) = [q EXCEPT !.OSQOut = out, !.OSQEntries = n]
  BY <1>3, <1>8 DEF Extracted
<1>5. Extracted(q) \in OS_Q
  BY <1>4 DEF OS_Q
<1>6. /\ Extracted(q).OSQOut = out /\ Extracted(q).OSQEntries = n
      /\ Extracted(q).OSQIn = q.OSQIn /\ Extracted(q).OSQSize = q.OSQSize
      /\ Extracted(q).OSQPtr = q.OSQPtr
  BY <1>4 DEF OS_Q
<1>7. out < q.OSQSize /\ (out + n = q.OSQIn \/ out + n = q.OSQIn + q.OSQSize)
  BY <1>1, <1>2, <1>3, <1>8, OutForward
<1>9. n <= q.OSQSize
  BY <1>1, <1>2, <1>8
<1> QED BY <1>2, <1>5, <1>6, <1>7, <1>9 DEF RingAt

\* Adding a message at the end.
LEMMA PutBackFacts ==
  ASSUME NEW q \in OS_Q, RingAt(q), ~Full(q), NEW pmsg \in Message
  PROVE  /\ PutBack(q, pmsg) \in OS_Q /\ PutBack(q, pmsg).OSQPtr = q.OSQPtr
         /\ RingAt(PutBack(q, pmsg))
<1>1. /\ q.OSQSize \in Nat /\ q.OSQIn \in Nat /\ q.OSQOut \in Nat /\ q.OSQEntries \in Nat
  BY OS_QFacts
<1>2. q.OSQEntries < q.OSQSize /\ q.OSQEntries <= q.OSQSize /\ q.OSQSize > 0
      /\ q.OSQIn < q.OSQSize /\ q.OSQOut < q.OSQSize
      /\ \/ q.OSQOut + q.OSQEntries = q.OSQIn
         \/ q.OSQOut + q.OSQEntries = q.OSQIn + q.OSQSize
  BY <1>1 DEF RingAt, Full
<1>3. PICK in \in Nat : in = Wrap(q.OSQIn + 1, q.OSQSize)
  BY <1>1 DEF Wrap
<1>4. PICK buf \in [0 .. MaxSize - 1 -> Message] : buf = [q.buf EXCEPT ![q.OSQIn] = pmsg]
  BY DEF OS_Q
<1>9. PICK n \in Nat : n = q.OSQEntries + 1
  BY <1>1
<1>5. PutBack(q, pmsg)
        = [q EXCEPT !.buf = buf, !.OSQIn = in, !.OSQEntries = n]
  BY <1>3, <1>4, <1>9 DEF PutBack
<1>6. PutBack(q, pmsg) \in OS_Q
  BY <1>5 DEF OS_Q
<1>7. /\ PutBack(q, pmsg).OSQIn = in /\ PutBack(q, pmsg).OSQEntries = n
      /\ PutBack(q, pmsg).OSQOut = q.OSQOut /\ PutBack(q, pmsg).OSQSize = q.OSQSize
      /\ PutBack(q, pmsg).OSQPtr = q.OSQPtr
  BY <1>5 DEF OS_Q
<1>11. /\ Wrap(q.OSQIn + 1, q.OSQSize) < q.OSQSize
       /\ \/ q.OSQOut + (q.OSQEntries + 1) = Wrap(q.OSQIn + 1, q.OSQSize)
          \/ q.OSQOut + (q.OSQEntries + 1) = Wrap(q.OSQIn + 1, q.OSQSize) + q.OSQSize
  <2>1. PICK s \in Nat : s = q.OSQSize
    BY <1>1
  <2>2. PICK e \in Nat : e = q.OSQEntries
    BY <1>1
  <2>3. PICK i \in Nat : i = q.OSQIn
    BY <1>1
  <2>4. PICK o \in Nat : o = q.OSQOut
    BY <1>1
  <2>5. i < s /\ o < s /\ e < s /\ (o + e = i \/ o + e = i + s)
    BY <1>2, <2>1, <2>2, <2>3, <2>4
  <2>6. Wrap(i + 1, s) < s /\ (o + (e + 1) = Wrap(i + 1, s) \/ o + (e + 1) = Wrap(i + 1, s) + s)
    BY <2>5, InForward
  <2> QED BY <2>1, <2>2, <2>3, <2>4, <2>6
<1>8. in < q.OSQSize /\ (q.OSQOut + n = in \/ q.OSQOut + n = in + q.OSQSize)
  BY <1>3, <1>9, <1>11
<1>10. n <= q.OSQSize
  BY <1>1, <1>2, <1>9
<1> QED BY <1>2, <1>6, <1>7, <1>8, <1>10 DEF RingAt

\* Adding a message in front.
LEMMA PutFrontFacts ==
  ASSUME NEW q \in OS_Q, RingAt(q), ~Full(q), NEW pmsg \in Message
  PROVE  /\ PutFront(q, pmsg) \in OS_Q /\ PutFront(q, pmsg).OSQPtr = q.OSQPtr
         /\ RingAt(PutFront(q, pmsg))
<1>1. /\ q.OSQSize \in Nat /\ q.OSQIn \in Nat /\ q.OSQOut \in Nat /\ q.OSQEntries \in Nat
  BY OS_QFacts
<1>2. q.OSQEntries < q.OSQSize /\ q.OSQEntries <= q.OSQSize /\ q.OSQSize > 0
      /\ q.OSQIn < q.OSQSize /\ q.OSQOut < q.OSQSize
      /\ \/ q.OSQOut + q.OSQEntries = q.OSQIn
         \/ q.OSQOut + q.OSQEntries = q.OSQIn + q.OSQSize
  BY <1>1 DEF RingAt, Full
<1>3. PICK out \in Nat : out = Back(q.OSQOut, q.OSQSize)
  BY <1>1, <1>2 DEF Back
<1>4. PICK buf \in [0 .. MaxSize - 1 -> Message] : buf = [q.buf EXCEPT ![out] = pmsg]
  BY DEF OS_Q
<1>9. PICK n \in Nat : n = q.OSQEntries + 1
  BY <1>1
<1>5. PutFront(q, pmsg)
        = [q EXCEPT !.buf = buf, !.OSQOut = out, !.OSQEntries = n]
  BY <1>3, <1>4, <1>9 DEF PutFront, Back
<1>6. PutFront(q, pmsg) \in OS_Q
  BY <1>5 DEF OS_Q
<1>7. /\ PutFront(q, pmsg).OSQOut = out /\ PutFront(q, pmsg).OSQEntries = n
      /\ PutFront(q, pmsg).OSQIn = q.OSQIn /\ PutFront(q, pmsg).OSQSize = q.OSQSize
      /\ PutFront(q, pmsg).OSQPtr = q.OSQPtr
  BY <1>5 DEF OS_Q
<1>11. /\ Back(q.OSQOut, q.OSQSize) < q.OSQSize
       /\ \/ Back(q.OSQOut, q.OSQSize) + (q.OSQEntries + 1) = q.OSQIn
          \/ Back(q.OSQOut, q.OSQSize) + (q.OSQEntries + 1) = q.OSQIn + q.OSQSize
  <2>1. PICK s \in Nat : s = q.OSQSize
    BY <1>1
  <2>2. PICK e \in Nat : e = q.OSQEntries
    BY <1>1
  <2>3. PICK i \in Nat : i = q.OSQIn
    BY <1>1
  <2>4. PICK o \in Nat : o = q.OSQOut
    BY <1>1
  <2>5. i < s /\ o < s /\ e < s /\ (o + e = i \/ o + e = i + s)
    BY <1>2, <2>1, <2>2, <2>3, <2>4
  <2>6. Back(o, s) < s /\ (Back(o, s) + (e + 1) = i \/ Back(o, s) + (e + 1) = i + s)
    BY <2>5, OutBack
  <2> QED BY <2>1, <2>2, <2>3, <2>4, <2>6
<1>8. out < q.OSQSize /\ (out + n = q.OSQIn \/ out + n = q.OSQIn + q.OSQSize)
  BY <1>3, <1>9, <1>11
<1>10. n <= q.OSQSize
  BY <1>1, <1>2, <1>9
<1> QED BY <1>2, <1>6, <1>7, <1>8, <1>10 DEF RingAt

\* An empty queue.
LEMMA EmptyFacts ==
  /\ \A q \in OS_Q : Flushed(q) \in OS_Q /\ Flushed(q).OSQPtr = q.OSQPtr /\ RingAt(Flushed(q))
  /\ \A size \in QSizes, ptr \in QBlock \cup {Null} :
       /\ Ring(size, ptr) \in OS_Q /\ RingAt(Ring(size, ptr)) /\ Ring(size, ptr).OSQPtr = ptr
<1>1. ASSUME NEW q \in OS_Q
      PROVE  Flushed(q) \in OS_Q /\ Flushed(q).OSQPtr = q.OSQPtr /\ RingAt(Flushed(q))
  <2>1. Flushed(q) \in OS_Q
    BY DEF Flushed, OS_Q
  <2>2. /\ Flushed(q).OSQPtr = q.OSQPtr /\ Flushed(q).OSQSize = q.OSQSize
        /\ Flushed(q).OSQIn = 0 /\ Flushed(q).OSQOut = 0 /\ Flushed(q).OSQEntries = 0
    BY DEF Flushed, OS_Q
  <2> QED BY <2>1, <2>2, OS_QFacts DEF RingAt
<1>2. ASSUME NEW size \in QSizes, NEW ptr \in QBlock \cup {Null}
      PROVE  Ring(size, ptr) \in OS_Q /\ RingAt(Ring(size, ptr)) /\ Ring(size, ptr).OSQPtr = ptr
  <2>1. size \in Nat
    BY MsgAssumption DEF MsgAssumption
  <2>2. [i \in 0 .. MaxSize - 1 |-> Null] \in [0 .. MaxSize - 1 -> Message]
    BY DEF Message
  <2>3. Ring(size, ptr) \in OS_Q
    BY <2>2 DEF Ring, OS_Q
  <2> QED BY <2>1, <2>3 DEF Ring, RingAt
<1> QED BY <1>1, <1>2

\* One OS_Q changes, and its ring stays sound.
LEMMA OneRing ==
  ASSUME IInv, NEW b \in QBlock, NEW q \in OS_Q, q.OSQPtr = OSQTbl[b].OSQPtr, RingAt(q),
         OSQTbl' = [OSQTbl EXCEPT ![b] = q],
         UNCHANGED <<OSEventType, OSEventPtr, OSEventFreeList, OSQFreeList>>
  PROVE  Traffic
BY Types DEF Traffic, IInv, Rings

\* A mailbox changes.
LEMMA OneMbox ==
  ASSUME IInv, NEW e \in Event, OSEventType[e] = "MBOX", NEW v \in Message,
         OSEventPtr' = [OSEventPtr EXCEPT ![e] = v],
         UNCHANGED <<OSEventType, OSEventFreeList, qVars>>
  PROVE  Traffic
BY Types DEF Traffic, IInv, Rings, qVars

\* Messages are taken from events that have one.
LEMMA TakeTraffic ==
  ASSUME IInv, NEW S \in SUBSET Event, \A e \in S : IsMsgEvent(e) /\ Available(e),
         TakeFrom(S), UNCHANGED <<OSEventType, OSEventFreeList, OSQFreeList>>
  PROVE  Traffic
<1> DEFINE Qs == {OSEventPtr[e] : e \in {f \in S : OSEventType[f] = "Q"}}
<1>1. /\ OSQTbl' = [b \in QBlock |-> IF b \in Qs THEN Extracted(OSQTbl[b]) ELSE OSQTbl[b]]
      /\ OSEventPtr' = [e \in Event |-> IF e \in S /\ OSEventType[e] = "MBOX"
                                          THEN Null ELSE OSEventPtr[e]]
  BY DEF TakeFrom
<1>2. \A b \in Qs : OSQTbl[b].OSQEntries > 0
  BY DEF Available
<1> HIDE DEF Qs
<1>3. ASSUME NEW b \in QBlock
      PROVE  OSQTbl'[b] \in OS_Q /\ OSQTbl'[b].OSQPtr = OSQTbl[b].OSQPtr /\ RingAt(OSQTbl'[b])
  <2>1. OSQTbl[b] \in OS_Q /\ RingAt(OSQTbl[b])
    BY Types DEF IInv, Rings
  <2> QED BY <1>1, <1>2, <2>1, ExtractedFacts
<1>4. OSQTbl' \in [QBlock -> OS_Q]
  BY <1>1, <1>3
<1>5. OSEventPtr' \in [Event -> Event \cup QBlock \cup Message]
  BY <1>1, Types DEF Message
<1>6. \A e \in Event : \/ OSEventPtr'[e] = OSEventPtr[e]
                       \/ OSEventType[e] = "MBOX" /\ OSEventPtr'[e] \in Message
  BY <1>1 DEF Message
<1> QED BY <1>3, <1>4, <1>5, <1>6 DEF Traffic

-----------------------------------------------------------------------------
(* Services that touch no task but their caller.                           *)

\* OSQPend and OSMboxPend with a message, OSQAccept and OSMboxAccept.
LEMMA TakeEffect ==
  ASSUME IInv, NEW service \in Sections, NEW e \in Event, Take(service, e)
  PROVE  ServiceStep
<1>1. /\ AtSection(service, e) /\ Available(e) /\ TakeFrom({e})
      /\ Returns(FALSE) /\ KernelUnchanged
      /\ UNCHANGED <<OSEventType, OSEventWait, OSEventFreeList, OSTCBMsg, multiVars, OSQFreeList>>
  BY DEF Take
<1>2. Free /\ IsMsgEvent(e)
  BY <1>1, SectionFacts, ServiceFacts DEF IsMsgEvent
<1>3. Traffic
  BY <1>1, <1>2, TakeTraffic
<1>4. TasksSame
  BY <1>1 DEF KernelUnchanged, TasksSame
<1> QED BY <1>1, <1>2, <1>3, <1>4, QuietReturn DEF ServiceStep

\* The empty queue or mailbox.
LEMMA AcceptEffect ==
  ASSUME IInv, NEW service \in Sections, NEW e \in Event, Accept(service, e)
  PROVE  ServiceStep
<1>1. CASE Take(service, e)
  BY <1>1, TakeEffect
<1>2. CASE ~Take(service, e)
  <2>1. AtSection(service, e) /\ Returns(FALSE) /\ TasksSame /\ SameObjects
    BY <1>2 DEF Accept, KernelUnchanged, TasksSame, SameObjects, eventVars, msgVars
  <2> QED BY <2>1, SectionFacts, QuietReturn DEF ServiceStep
<1> QED BY <1>1, <1>2

\* OSQFlush.
LEMMA FlushEffect ==
  ASSUME IInv, NEW e \in Event, OSQFlush(e)
  PROVE  ServiceStep
<1>1. /\ AtSection("OSQFlush", e) /\ Returns(FALSE) /\ TasksSame
      /\ OSQTbl' = [OSQTbl EXCEPT ![OSEventPtr[e]] = Flushed(OSQTbl[OSEventPtr[e]])]
      /\ UNCHANGED <<OSEventType, OSEventPtr, OSEventFreeList, OSQFreeList>>
  BY DEF OSQFlush, KernelUnchanged, TasksSame, eventVars
<1>2. Free /\ OSEventPtr[e] \in QBlock
  BY <1>1, SectionFacts, ServiceFacts
<1>3. OSQTbl[OSEventPtr[e]] \in OS_Q
  BY <1>2, Types
<1>4. Traffic
  BY <1>1, <1>2, <1>3, OneRing, EmptyFacts
<1> QED BY <1>1, <1>2, <1>4, QuietReturn DEF ServiceStep

\* A post to a queue that nobody waits for.
LEMMA QStoreEffect ==
  ASSUME IInv, NEW service \in QPosts, NEW e \in Event, NEW pmsg \in Message, NEW opt,
         OSQPost_Store(service, e, pmsg, opt)
  PROVE  ServiceStep
<1> DEFINE b == OSEventPtr[e]
           q == OSQTbl[b]
<1>1. PICK r : /\ OSQTbl' = [OSQTbl EXCEPT ![b] = r]
               /\ r = CASE Full(q) -> q
                        [] ~Full(q) /\ "FRONT" \in opt -> PutFront(q, pmsg)
                        [] OTHER -> PutBack(q, pmsg)
  BY DEF OSQPost_Store
<1>2. /\ AtSection(service, e) /\ Returns(FALSE) /\ TasksSame
      /\ UNCHANGED <<OSEventType, OSEventPtr, OSEventFreeList, OSQFreeList>>
  BY DEF OSQPost_Store, KernelUnchanged, TasksSame, eventVars
<1>3. Free /\ b \in QBlock
  BY <1>2, SectionFacts, ServiceFacts
<1>4. q \in OS_Q /\ RingAt(q)
  BY <1>3, Types DEF IInv, Rings
<1>5. r \in OS_Q /\ r.OSQPtr = q.OSQPtr /\ RingAt(r)
  BY <1>1, <1>4, PutFrontFacts, PutBackFacts
<1>6. Traffic
  BY <1>1, <1>2, <1>3, <1>5, OneRing
<1> QED BY <1>2, <1>3, <1>6, QuietReturn DEF ServiceStep

\* A post to a mailbox that nobody waits for.
LEMMA MboxStoreEffect ==
  ASSUME IInv, NEW service \in MboxPosts, NEW e \in Event, NEW pmsg \in Msg,
         OSMboxPost_Store(service, e, pmsg)
  PROVE  ServiceStep
<1>1. /\ AtSection(service, e) /\ Returns(FALSE) /\ TasksSame
      /\ OSEventPtr' = [OSEventPtr EXCEPT ![e] = IF OSEventPtr[e] = Null THEN pmsg ELSE OSEventPtr[e]]
      /\ UNCHANGED <<OSEventType, OSEventFreeList, qVars>>
  BY DEF OSMboxPost_Store, KernelUnchanged, TasksSame, msgVars
<1>2. Free /\ OSEventType[e] = "MBOX" /\ OSEventPtr[e] \in Message
  BY <1>1, SectionFacts, ServiceFacts
<1>3. (IF OSEventPtr[e] = Null THEN pmsg ELSE OSEventPtr[e]) \in Message
  BY <1>2 DEF Message
<1>4. Traffic
  BY <1>1, <1>2, <1>3, OneMbox
<1> QED BY <1>1, <1>2, <1>4, QuietReturn DEF ServiceStep

-----------------------------------------------------------------------------
(* Services that wait and services that wake.                              *)

\* What the running task waits with: the critical section of OSQPend and
\* OSMboxPend.
LEMMA BlockEffect ==
  ASSUME IInv, NEW service \in {"OSQPend", "OSMboxPend"}, NEW e \in Event,
         NEW timeout \in 0 .. MaxDly, Block(service, e, timeout)
  PROVE  ServiceStep
<1>1. /\ InTask(service) /\ pevent[OSTCBCur] = e
      /\ OSTCBStat' = [OSTCBStat EXCEPT ![OSTCBCur] = OSTCBStat[OSTCBCur] \cup {ServiceType[service]}]
      /\ OSTCBStatPend' = [OSTCBStatPend EXCEPT ![OSTCBCur] = "OK"]
      /\ OSTCBDly' = [OSTCBDly EXCEPT ![OSTCBCur] = timeout]
      /\ OSTCBEventPtr' = [OSTCBEventPtr EXCEPT ![OSTCBCur] = e]
      /\ OSEventWait' = [OSEventWait EXCEPT ![e] = OSEventWait[e] \cup {OSTCBPrio[OSTCBCur]}]
      /\ OSRdy' = OSRdy \ {OSTCBPrio[OSTCBCur]}
      /\ GoTo("OSPend_Sched", e)
      /\ UNCHANGED <<OSTCBPrioTbl, OSEventPtr, switchVars, nestVars, tickVars>>
      /\ UNCHANGED <<OSTCBPrio, OSEventType, OSEventFreeList, msgVars>>
  BY DEF Block, OS_EventTaskWait, SwitchUnchanged
<1>2. service \in Sections /\ ServiceType[service] \in {"Q", "MBOX"} /\ service \in PendSections
  BY ServiceFacts DEF PendSections
<1>3. AtSection(service, e)
  BY <1>1 DEF AtSection
<1>4. OSEventType[e] = ServiceType[service]
  BY <1>2, <1>3, SectionFacts
<1>5. Runs /\ pc[OSTCBCur] = service
  BY <1>1 DEF InTask
<1>6. OSEventWait' = [f \in Event |-> IF f \in {e} THEN OSEventWait[f] \cup {OSTCBPrio[OSTCBCur]}
                                                   ELSE OSEventWait[f]]
  BY <1>1, Types
<1>7. PICK bits \in SUBSET {"Q", "MBOX", "MULTI"} : bits = {ServiceType[service]}
  BY <1>2
<1>8. UNCHANGED <<multiVars, OSTCBMsg, qVars>>
  BY <1>1 DEF msgVars
<1>9. \E b \in SUBSET {"Q", "MBOX", "MULTI"} :
        /\ b \cap {"Q", "MBOX"} # {}
        /\ OSTCBStat' = [OSTCBStat EXCEPT ![OSTCBCur] = OSTCBStat[OSTCBCur] \cup b]
        /\ pevent[OSTCBCur] \in Event =>
             pevent[OSTCBCur] \in {e} /\ b = {OSEventType[pevent[OSTCBCur]]}
  BY <1>1, <1>2, <1>4, <1>7
<1>10. Waits({e})
  BY <1>1, <1>2, <1>4, <1>5, <1>6, <1>8, <1>9 DEF Waits
<1>11. SameObjects
  BY <1>1, <1>8 DEF SameObjects
<1> QED BY <1>10, <1>11 DEF WaitStep, ServiceStep

\* The critical section of OSEventPendMulti without a message.
LEMMA BlockMultiEffect ==
  ASSUME IInv, NEW timeout \in 0 .. MaxDly, OSEventPendMulti_Block(timeout)
  PROVE  ServiceStep
<1> DEFINE a == pevent[OSTCBCur]
           S == Range(a)
           all == {OSEventType[e] : e \in S} \cup {"MULTI"}
<1>1. /\ InTask("OSEventPendMulti") /\ Runs /\ pc[OSTCBCur] = "OSEventPendMulti"
      /\ \A e \in S : IsMsgEvent(e)
      /\ OSTCBStat' = [OSTCBStat EXCEPT ![OSTCBCur] = OSTCBStat[OSTCBCur] \cup all]
      /\ OSTCBStatPend' = [OSTCBStatPend EXCEPT ![OSTCBCur] = "OK"]
      /\ OSTCBDly' = [OSTCBDly EXCEPT ![OSTCBCur] = timeout]
      /\ GoTo("OSPend_Sched", a)
      /\ OSTCBEventMultiPtr' = [OSTCBEventMultiPtr EXCEPT ![OSTCBCur] = a]
      /\ OSTCBEventMultiRdy' = [OSTCBEventMultiRdy EXCEPT ![OSTCBCur] = Null]
      /\ OSEventWait' = [e \in Event |-> IF e \in S
                                           THEN OSEventWait[e] \cup {OSTCBPrio[OSTCBCur]}
                                           ELSE OSEventWait[e]]
      /\ OSRdy' = OSRdy \ {OSTCBPrio[OSTCBCur]}
      /\ UNCHANGED <<OSTCBPrioTbl, OSEventPtr, switchVars, nestVars, tickVars>>
      /\ UNCHANGED <<OSTCBPrio, OSTCBEventPtr, OSEventType, OSEventFreeList, OSTCBMsg, qVars>>
  BY DEF OSEventPendMulti_Block, OS_EventTaskWaitMulti, SwitchUnchanged, InTask
<1>2. a \in PendArrays
  BY <1>1, Types DEF IInv, CallSound, CallAt
<1>3. S \subseteq Event /\ S # {} /\ a \notin Event
  BY <1>2, ArrayFacts
<1>4. \A e \in S : e \in Event /\ OSEventType[e] \in {"Q", "MBOX"}
  BY <1>1, <1>3 DEF IsMsgEvent
<1>5. PICK bits \in SUBSET {"Q", "MBOX", "MULTI"} :
        bits = all /\ bits \cap {"Q", "MBOX"} # {}
  <2>1. PICK e \in S : TRUE
    BY <1>3
  <2>2. OSEventType[e] \in all \cap {"Q", "MBOX"}
    BY <1>4, <2>1
  <2>3. all \in SUBSET {"Q", "MBOX", "MULTI"}
    BY <1>4
  <2> QED BY <2>2, <2>3
<1> HIDE DEF S, all
<1>6. \E b \in SUBSET {"Q", "MBOX", "MULTI"} :
        /\ b \cap {"Q", "MBOX"} # {}
        /\ OSTCBStat' = [OSTCBStat EXCEPT ![OSTCBCur] = OSTCBStat[OSTCBCur] \cup b]
        /\ a \in Event => a \in S /\ b = {OSEventType[a]}
  BY <1>1, <1>3, <1>5
<1>7. S = Range(a)
  BY DEF S
<1>8. Waits(S)
  BY <1>1, <1>2, <1>3, <1>4, <1>6, <1>7 DEF Waits, PendSections
<1>9. SameObjects
  BY <1>1 DEF SameObjects
<1> QED BY <1>3, <1>8, <1>9 DEF WaitStep, ServiceStep

\* The end of a wait in OSQPend and OSMboxPend.
LEMMA TailEffect ==
  ASSUME IInv, OSMsgPend_Tail
  PROVE  ServiceStep
<1> DEFINE t == OSTCBCur
<1>1. /\ InTask("OSPend_Tail") /\ pevent[t] \in Event /\ Runs /\ pc[t] = "OSPend_Tail"
      /\ OSEventWait' = IF OSTCBStatPend[t] = "TO" THEN OS_EventTaskRemove(t, pevent[t])
                                                   ELSE OSEventWait
      /\ OSTCBStat' = [OSTCBStat EXCEPT ![t] = {}]
      /\ OSTCBStatPend' = [OSTCBStatPend EXCEPT ![t] = "OK"]
      /\ OSTCBEventPtr' = [OSTCBEventPtr EXCEPT ![t] = Null]
      /\ OSTCBMsg' = [OSTCBMsg EXCEPT ![t] = Null]
      /\ OSTCBEventMultiPtr' = [OSTCBEventMultiPtr EXCEPT ![t] = <<>>]
      /\ OSTCBEventMultiRdy' = [OSTCBEventMultiRdy EXCEPT ![t] = Null]
      /\ Returns(FALSE)
      /\ UNCHANGED <<OSTCBPrioTbl, OSEventPtr, switchVars, nestVars, tickVars>>
      /\ UNCHANGED <<OSTCBPrio, OSTCBDly, OSRdy, OSEventType, OSEventFreeList, qVars>>
  BY DEF OSMsgPend_Tail, OSPend_Tail, InTask, SwitchUnchanged
<1>2. t \in Task /\ OSTCBPrio[t] \in OSRdy
  BY <1>1, Types DEF IInv, SwitchSound
<1>3. Done(t)
  BY <1>2 DEF IInv, RdySound
<1>4. Awaited(t) \subseteq {pevent[t]}
  BY <1>1, <1>2, AwaitedFacts
<1>5. \A e \in Event : OSTCBPrio[t] \in OSEventWait[e] <=> e \in Awaited(t)
  BY <1>2 DEF IInv, OnAwaitedLists
<1>6. OSEventWait \in [Event -> SUBSET Prio]
  BY Types
<1>7. /\ OSEventWait' \in [Event -> SUBSET Prio]
      /\ \A e \in Event : /\ OSTCBPrio[t] \notin OSEventWait'[e]
                          /\ OSEventWait'[e] \subseteq OSEventWait[e]
                          /\ OSEventWait[e] \subseteq OSEventWait'[e] \cup {OSTCBPrio[t]}
  <2>1. CASE OSTCBStatPend[t] = "TO"
    <3>1. OSEventWait' = [OSEventWait EXCEPT ![pevent[t]] = OSEventWait[pevent[t]] \ {OSTCBPrio[t]}]
      BY <1>1, <2>1 DEF OS_EventTaskRemove
    <3> QED BY <1>1, <1>4, <1>5, <1>6, <3>1
  <2>2. CASE OSTCBStatPend[t] # "TO"
    <3>1. Awaited(t) = {}
      BY <1>3, <2>2 DEF Done
    <3> QED BY <1>1, <1>5, <1>6, <2>2, <3>1
  <2> QED BY <2>1, <2>2
<1>8. GoTo("app", Null)
  BY <1>1 DEF Returns, Runs
<1>9. ComesBack
  BY <1>1, <1>2, <1>7, <1>8 DEF ComesBack, readyVars
<1>10. SameObjects
  BY <1>1 DEF SameObjects
<1> QED BY <1>9, <1>10 DEF BackStep, ServiceStep

\* The end of a wait in OSEventPendMulti.
LEMMA TailMultiEffect ==
  ASSUME IInv, OSEventPendMulti_Tail
  PROVE  ServiceStep
<1> DEFINE t == OSTCBCur
           timedOut == OSTCBStatPend[t] = "TO" \/ OSTCBEventMultiRdy[t] = Null
<1>1. /\ InTask("OSPend_Tail") /\ pevent[t] \notin Event /\ Runs /\ pc[t] = "OSPend_Tail"
      /\ OSEventWait' = IF timedOut THEN OS_EventTaskRemoveMulti(t, pevent[t]) ELSE OSEventWait
      /\ OSTCBStat' = [OSTCBStat EXCEPT ![t] = {}]
      /\ OSTCBStatPend' = [OSTCBStatPend EXCEPT ![t] = "OK"]
      /\ OSTCBMsg' = [OSTCBMsg EXCEPT ![t] = Null]
      /\ OSTCBEventMultiPtr' = [OSTCBEventMultiPtr EXCEPT ![t] = <<>>]
      /\ OSTCBEventMultiRdy' = [OSTCBEventMultiRdy EXCEPT ![t] = Null]
      /\ Returns(FALSE)
      /\ UNCHANGED <<OSTCBPrioTbl, OSEventPtr, switchVars, nestVars, tickVars>>
      /\ UNCHANGED <<OSTCBPrio, OSTCBDly, OSTCBEventPtr, OSRdy, OSEventType, OSEventFreeList,
                     qVars>>
  BY DEF OSEventPendMulti_Tail, InTask, SwitchUnchanged
<1>2. t \in Task /\ OSTCBPrio[t] \in OSRdy
  BY <1>1, Types DEF IInv, SwitchSound
<1>3. Done(t) /\ OSTCBEventPtr \in [Task -> Event \cup {Null}]
  BY <1>2, Types DEF IInv, RdySound, TcbTypeOK
<1>4. /\ OSTCBEventPtr[t] = Null
      /\ Awaited(t) # {} => Awaited(t) = Range(pevent[t]) /\ OSTCBEventMultiRdy[t] = Null
  BY <1>1, <1>2, AwaitedFacts DEF IInv, PendSound, PendAt
<1>5. \A e \in Event : OSTCBPrio[t] \in OSEventWait[e] <=> e \in Awaited(t)
  BY <1>2 DEF IInv, OnAwaitedLists
<1>6. OSEventWait \in [Event -> SUBSET Prio]
  BY Types
<1>7. /\ OSEventWait' \in [Event -> SUBSET Prio]
      /\ \A e \in Event : /\ OSTCBPrio[t] \notin OSEventWait'[e]
                          /\ OSEventWait'[e] \subseteq OSEventWait[e]
                          /\ OSEventWait[e] \subseteq OSEventWait'[e] \cup {OSTCBPrio[t]}
  <2>1. CASE timedOut
    <3>1. OSEventWait' = [e \in Event |-> IF e \in Range(pevent[t])
                                            THEN OSEventWait[e] \ {OSTCBPrio[t]}
                                            ELSE OSEventWait[e]]
      BY <1>1, <2>1 DEF OS_EventTaskRemoveMulti
    <3> QED BY <1>4, <1>5, <1>6, <3>1
  <2>2. CASE ~timedOut
    <3>1. Awaited(t) = {}
      BY <1>4, <2>2
    <3> QED BY <1>1, <1>5, <1>6, <2>2, <3>1
  <2> QED BY <2>1, <2>2
<1>8. GoTo("app", Null)
  BY <1>1 DEF Returns, Runs
<1>9. OSTCBEventPtr' = [OSTCBEventPtr EXCEPT ![t] = Null]
  BY <1>1, <1>2, <1>3, <1>4
<1>10. ComesBack
  BY <1>1, <1>2, <1>7, <1>8, <1>9 DEF ComesBack, readyVars
<1>11. SameObjects
  BY <1>1 DEF SameObjects
<1> QED BY <1>10, <1>11 DEF BackStep, ServiceStep

\* The posted event has been deleted: OSEventPendMulti returns.
LEMMA DeletedEffect ==
  ASSUME IInv, OSEventPendMulti_Deleted
  PROVE  ServiceStep
<1>1. /\ Runs /\ pc[OSTCBCur] = "OSPend_Tail" /\ pevent[OSTCBCur] \notin Event
      /\ OSTCBEventMultiRdy[OSTCBCur] # Null /\ Returns(FALSE)
      /\ TasksSame /\ SameObjects
  BY DEF OSEventPendMulti_Deleted, InTask, KernelUnchanged, TasksSame, SameObjects, eventVars,
         msgVars
<1>2. Awaited(OSTCBCur) = {}
  BY <1>1, Types, AwaitedFacts DEF IInv, PendSound, PendAt
<1>3. Free
  BY <1>1, <1>2 DEF Free, SchedPlaces, CreateSections
<1> QED BY <1>1, <1>3, QuietReturn DEF ServiceStep

\* The critical section of OSEventPendMulti with messages.
LEMMA TakeMultiEffect ==
  ASSUME IInv, OSEventPendMulti_Take
  PROVE  ServiceStep
<1> DEFINE a == pevent[OSTCBCur]
           rdy == {e \in Checked(a) : Available(e)}
<1>1. /\ InTask("OSEventPendMulti") /\ TakeFrom(rdy) /\ Returns(FALSE) /\ KernelUnchanged
      /\ UNCHANGED <<OSEventType, OSEventWait, OSEventFreeList, OSTCBMsg, multiVars, OSQFreeList>>
  BY DEF OSEventPendMulti_Take
<1>2. "OSEventPendMulti" \notin SchedPlaces \cup PendPlaces \cup CreateSections
  BY DEF SchedPlaces, PendPlaces, CreateSections
<1>3. pc[OSTCBCur] = "OSEventPendMulti" /\ Free
  BY <1>1, <1>2, InService DEF Free
<1>4. a \in Seq(Event)
  BY <1>3, Types, MsgAssumption DEF IInv, CallSound, CallAt, MsgAssumption
<1>5. \A e \in Checked(a) : e \in Event /\ IsMsgEvent(e)
  <2>1. \A j \in DOMAIN a : j \in 1 .. j /\ a[j] \in Event
    BY <1>4
  <2> QED BY <2>1 DEF Checked
<1>6. rdy \in SUBSET Event /\ \A e \in rdy : IsMsgEvent(e) /\ Available(e)
  BY <1>5
<1>7. Traffic
  BY <1>1, <1>6, TakeTraffic
<1>8. TasksSame
  BY <1>1 DEF KernelUnchanged, TasksSame
<1> QED BY <1>1, <1>3, <1>7, <1>8, QuietReturn DEF ServiceStep

\* The type checks of OSEventPendMulti.
LEMMA EnterMultiEffect ==
  ASSUME IInv, NEW a \in PendArrays, OSEventPendMulti_Enter(a)
  PROVE  ServiceStep
<1>1. /\ TaskCall("OSEventPendMulti") /\ OSLockNesting = 0
      /\ GoTo("OSEventPendMulti", a) /\ TasksSame /\ SameObjects
  BY DEF OSEventPendMulti_Enter, KernelUnchanged, TasksSame, SameObjects, eventVars, msgVars
<1>2. /\ Runs /\ pc[OSTCBCur] = "app" /\ "OSEventPendMulti" \in TaskCalls[OSTCBCur]
      /\ Awaited(OSTCBCur) = {}
  BY <1>1, CallFacts
<1>3. "OSEventPendMulti" \in MsgPlaces \ PendPlaces /\ a \in Args
      /\ "OSEventPendMulti" \notin Sections
  BY ServiceFacts DEF MsgPlaces, PendPlaces, Args
<1>4. Fits("OSEventPendMulti", a)
  BY <1>2, <1>3 DEF Fits
<1>5. Moves("OSEventPendMulti", a)
  BY <1>1, <1>2, <1>4 DEF Moves, SchedPlaces
<1>6. KeepsHolds
  BY <1>1, <1>2, GoToFacts DEF KeepsHolds, CreateSections
<1> QED BY <1>1, <1>3, <1>5, <1>6, SameIsTraffic
  DEF FlowQuiet, Quiet, Kept, StillStep, ServiceStep

-----------------------------------------------------------------------------
(* Posts to waiting tasks, aborts, deletions and creations.                 *)

\* OS_EventTaskRdy takes a task off all the lists it is on.
LEMMA ReadyMsgEffect ==
  ASSUME IInv, NEW e \in Event, NEW W \in SUBSET OSEventWait[e], NEW pmsg \in Message,
         NEW ps \in {"OK", "ABORT"},
         OS_EventTaskRdyMsg(e, W, pmsg, OSEventType[e], ps),
         UNCHANGED <<OSTCBPrioTbl, switchVars, nestVars, tickVars>>
  PROVE  \E T \in SUBSET Task :
           /\ Woken(e, T)
           /\ T = {OSTCBPrioTbl[p] : p \in W}
<1>1. PICK T \in SUBSET Task : T = {OSTCBPrioTbl[p] : p \in W}
  <2>1. \A p \in W : OSTCBPrioTbl[p] \in Task
    BY WaiterFacts
  <2> QED BY <2>1
<1>2. \A t \in T : e \in Awaited(t)
  BY <1>1, WaiterFacts
<1>3. \A t \in T : Lists(t, e) = Awaited(t)
  <2> SUFFICES ASSUME NEW t \in T PROVE Lists(t, e) = Awaited(t)
    OBVIOUS
  <2>1. e \in Awaited(t)
    BY <1>2
  <2>2. Range(<<>>) = {}
    BY DEF Range
  <2> QED BY <1>1, <2>1, <2>2, AwaitedFacts DEF Lists
<1>4. /\ OSTCBDly' = [t \in Task |-> IF t \in T THEN 0 ELSE OSTCBDly[t]]
      /\ OSTCBMsg' = [t \in Task |-> IF t \in T THEN pmsg ELSE OSTCBMsg[t]]
      /\ OSTCBStat' = [t \in Task |-> IF t \in T THEN OSTCBStat[t] \ {OSEventType[e]}
                                                 ELSE OSTCBStat[t]]
      /\ OSTCBStatPend' = [t \in Task |-> IF t \in T THEN ps ELSE OSTCBStatPend[t]]
      /\ OSTCBEventPtr' = [t \in Task |-> IF t \in T THEN Null ELSE OSTCBEventPtr[t]]
      /\ OSEventWait' = [f \in Event |->
           OSEventWait[f] \ {OSTCBPrio[t] : t \in {u \in T : f \in Lists(u, e)}}]
      /\ OSTCBEventMultiPtr' = [t \in Task |-> IF t \in T THEN <<>> ELSE OSTCBEventMultiPtr[t]]
      /\ OSTCBEventMultiRdy' = [t \in Task |-> IF t \in T /\ OSTCBEventMultiPtr[t] # <<>>
                                                 THEN e ELSE OSTCBEventMultiRdy[t]]
      /\ OSRdy' = OSRdy \cup ReadyPrios(T)
      /\ UNCHANGED <<OSTCBPrio, OSTCBPrioTbl, switchVars, nestVars, tickVars>>
  BY <1>1 DEF OS_EventTaskRdyMsg, MakeReady
<1>5. \A f \in Event : {u \in T : f \in Lists(u, e)} = {u \in T : f \in Awaited(u)}
  BY <1>3
<1>6. OSEventWait' = [f \in Event |->
           OSEventWait[f] \ {OSTCBPrio[t] : t \in {u \in T : f \in Awaited(u)}}]
  BY <1>4, <1>5
<1>7. \E m \in Message : OSTCBMsg' = [t \in Task |-> IF t \in T THEN m ELSE OSTCBMsg[t]]
  BY <1>4
<1>8. \E s \in {"OK", "ABORT"} :
        OSTCBStatPend' = [t \in Task |-> IF t \in T THEN s ELSE OSTCBStatPend[t]]
  BY <1>4
<1>9. Woken(e, T)
  BY <1>1, <1>2, <1>4, <1>6, <1>7, <1>8 DEF Woken
<1> QED BY <1>1, <1>9

\* The waiters of e that ReadyWaiters chooses.
LEMMA ReadyWaitersEffect ==
  ASSUME IInv, NEW e \in Event, NEW all \in BOOLEAN, NEW pmsg \in Message,
         NEW ps \in {"OK", "ABORT"},
         ReadyWaiters(e, all, pmsg, OSEventType[e], ps),
         UNCHANGED <<OSTCBPrioTbl, switchVars, nestVars, tickVars>>
  PROVE  \E T \in SUBSET Task : Woken(e, T) /\ (all => TakesAll(e, T))
<1>1. PICK W \in SUBSET OSEventWait[e] :
        /\ OS_EventTaskRdyMsg(e, W, pmsg, OSEventType[e], ps)
        /\ all => W = OSEventWait[e]
  BY DEF ReadyWaiters
<1>2. PICK T \in SUBSET Task : Woken(e, T) /\ T = {OSTCBPrioTbl[p] : p \in W}
  BY <1>1, ReadyMsgEffect
<1>3. all => TakesAll(e, T)
  BY <1>1, <1>2, Types DEF TakesAll, IInv, OnAwaitedLists, PrioTblSound
<1> QED BY <1>2, <1>3

\* A service that wakes tasks and touches no object.
LEMMA WakeEffect ==
  ASSUME IInv, NEW service \in Sections, NEW e \in Event, NEW all \in BOOLEAN,
         NEW pmsg \in Message, NEW ps \in {"OK", "ABORT"}, NEW b \in BOOLEAN,
         AtSection(service, e),
         ReadyWaiters(e, all, pmsg, ServiceType[service], ps),
         Returns(b), SwitchUnchanged, UNCHANGED <<OSEventType, OSEventFreeList, qVars>>
  PROVE  ServiceStep
<1>1. Free /\ OSEventType[e] = ServiceType[service]
  BY SectionFacts
<1>2. UNCHANGED <<OSTCBPrioTbl, switchVars, nestVars, tickVars>> /\ SameObjects
  BY DEF SwitchUnchanged, SameObjects
<1>3. ReadyWaiters(e, all, pmsg, OSEventType[e], ps)
  BY <1>1
<1>4. PICK T \in SUBSET Task : Woken(e, T)
  BY <1>2, <1>3, ReadyWaitersEffect
<1>5. FlowQuiet /\ Kept
  BY <1>1, <1>2, ReturnFlow, SameIsTraffic DEF Kept
<1> QED BY <1>4, <1>5 DEF Wakes, WakeStep, ServiceStep

\* A post while tasks wait.
LEMMA HandOverEffect ==
  ASSUME IInv, NEW service \in QPosts \cup MboxPosts, NEW e \in Event, NEW pmsg \in Message,
         NEW opt, HandOver(service, e, pmsg, opt)
  PROVE  ServiceStep
<1>1. service \in Sections
  BY ServiceFacts
<1>2. /\ AtSection(service, e)
      /\ ReadyWaiters(e, "BROADCAST" \in opt, pmsg, ServiceType[service], "OK")
      /\ Returns("NO_SCHED" \notin opt) /\ SwitchUnchanged
      /\ UNCHANGED <<OSEventType, OSEventFreeList, qVars>>
  BY DEF HandOver
<1>3. PICK all \in BOOLEAN : all = ("BROADCAST" \in opt)
  <2>1. ("BROADCAST" \in opt) \in BOOLEAN
    OBVIOUS
  <2> QED BY <2>1
<1>4. PICK b \in BOOLEAN : b = ("NO_SCHED" \notin opt)
  OBVIOUS
<1>5. ReadyWaiters(e, all, pmsg, ServiceType[service], "OK") /\ Returns(b)
  BY <1>2, <1>3, <1>4
<1> QED BY <1>1, <1>2, <1>5, WakeEffect

\* OSQPendAbort and OSMboxPendAbort.
LEMMA AbortEffect ==
  ASSUME IInv, NEW service \in {"OSQPendAbort", "OSMboxPendAbort"}, NEW e \in Event,
         NEW all \in BOOLEAN, PendAbort(service, e, all)
  PROVE  ServiceStep
<1>1. service \in Sections
  BY ServiceFacts
<1>2. /\ AtSection(service, e) /\ SwitchUnchanged
      /\ UNCHANGED <<OSEventType, OSEventFreeList, qVars>>
  BY DEF PendAbort
<1>3. CASE OSEventWait[e] # {}
  <2>1. ReadyWaiters(e, all, Null, ServiceType[service], "ABORT") /\ Returns(TRUE)
    BY <1>3 DEF PendAbort
  <2>2. Null \in Message
    BY DEF Message
  <2> QED BY <1>1, <1>2, <2>1, <2>2, WakeEffect
<1>4. CASE OSEventWait[e] = {}
  <2>1. NoneReadied /\ Returns(FALSE)
    BY <1>4 DEF PendAbort
  <2>2. TasksSame /\ SameObjects
    BY <1>2, <2>1 DEF NoneReadied, SwitchUnchanged, TasksSame, SameObjects, readyVars
  <2> QED BY <1>1, <1>2, <2>1, <2>2, SectionFacts, QuietReturn DEF ServiceStep
<1> QED BY <1>3, <1>4

\* OSQDel and OSMboxDel: all waiting tasks are readied first.
LEMMA DeleteEffect ==
  ASSUME IInv, Disciplined, NEW service \in {"OSQDel", "OSMboxDel"}, NEW e \in Event,
         NEW always \in BOOLEAN, Delete(service, e, always)
  PROVE  ServiceStep
<1>1. service \in Sections
  BY ServiceFacts
<1>2. /\ InTask(service) /\ pevent[OSTCBCur] = e /\ Runs /\ pc[OSTCBCur] = service
      /\ UNCHANGED <<OSTCBPrioTbl, switchVars, nestVars, tickVars>>
  BY DEF Delete, InTask
<1>3. AtSection(service, e)
  BY <1>2 DEF AtSection
<1>4. Free /\ OSEventType[e] = ServiceType[service] /\ OSEventType[e] \in {"Q", "MBOX"}
  BY <1>1, <1>3, SectionFacts, ServiceFacts
<1>5. CASE OSEventWait[e] = {} \/ always
  <2>1. /\ ReadyWaiters(e, TRUE, Null, ServiceType[service], "ABORT")
        /\ GivesBackQ(e)
        /\ OSEventType' = [OSEventType EXCEPT ![e] = "UNUSED"]
        /\ OSEventPtr' = [OSEventPtr EXCEPT ![e] = OSEventFreeList]
        /\ OSEventFreeList' = e
        /\ Returns(OSEventWait[e] # {})
    BY <1>5 DEF Delete
  <2>2. ReadyWaiters(e, TRUE, Null, OSEventType[e], "ABORT") /\ Null \in Message
    BY <1>4, <2>1 DEF Message
  <2>3. PICK T \in SUBSET Task : Woken(e, T) /\ TakesAll(e, T)
    BY <1>2, <2>2, ReadyWaitersEffect
  <2>4. FlowQuiet
    BY <1>4, <2>1, ReturnFlow
  <2>5. \A t \in Task \ {OSTCBCur} : pc[t] \in Sections => pevent[t] # e
    BY DEF Disciplined, Sections
  <2>6. \E place \in {"app", "OS_Sched"} : GoTo(place, Null)
    BY <1>2, <2>1 DEF Returns, Runs
  <2>7. Deletes(e)
    BY <1>1, <1>2, <1>4, <2>1, <2>5, <2>6 DEF Deletes, GivesBackQ
  <2> QED BY <2>3, <2>4, <2>7 DEF Wakes, DeleteStep, ServiceStep
<1>6. CASE ~(OSEventWait[e] = {} \/ always)
  <2>1. /\ NoneReadied /\ Returns(FALSE)
        /\ UNCHANGED <<OSEventType, OSEventPtr, OSEventFreeList, qVars>>
    BY <1>6 DEF Delete
  <2>2. TasksSame /\ SameObjects
    BY <1>2, <2>1 DEF NoneReadied, TasksSame, SameObjects, readyVars
  <2> QED BY <1>4, <2>1, <2>2, QuietReturn DEF ServiceStep
<1> QED BY <1>5, <1>6

\* The first step of a creation.
LEMMA CreateEffect ==
  ASSUME IInv, NEW service \in CreateSections, Create(service)
  PROVE  ServiceStep
<1> DEFINE e == OSEventFreeList
<1>1. /\ TaskCall(service) /\ e # Null /\ OSEventFreeList' = OSEventPtr[e]
      /\ GoTo(service, e) /\ TasksSame /\ UNCHANGED <<OSEventType, OSEventPtr, qVars>>
  BY DEF Create, KernelUnchanged, TasksSame, msgVars
<1>2. e \in Event
  BY <1>1, Types
<1>3. pc[OSTCBCur] = "app" /\ Runs /\ Awaited(OSTCBCur) = {}
  BY <1>1, CallFacts
<1>4. service \in MsgPlaces \ PendPlaces /\ service \notin Sections \cup PendSections
      /\ service # "OSEventPendMulti" /\ e \in Args
  BY <1>2, ServiceFacts DEF MsgPlaces, CreateSections, PendPlaces, PendSections, Args
<1>5. Fits(service, e)
  BY <1>2, <1>4 DEF Fits
<1>6. Moves(service, e)
  BY <1>1, <1>3, <1>4, <1>5 DEF Moves, SchedPlaces
<1>7. TakesEvent(service, e)
  BY <1>1, <1>2, <1>3 DEF TakesEvent
<1> QED BY <1>1, <1>2, <1>4, <1>6, <1>7 DEF FlowQuiet, Quiet, Creates, CreateStep, ServiceStep

\* A task in the course of a creation may go on to place.
LEMMA CreatingMoves ==
  ASSUME IInv, Runs, pc[OSTCBCur] \in CreateSections,
         NEW place \in {"app", "OSQCreate"},
         NEW arg \in {Null} \cup Event \X QBlock,
         place = "OSQCreate" => arg \in Event \X QBlock,
         GoTo(place, arg), TasksSame
  PROVE  Quiet
<1>1. Awaited(OSTCBCur) = {} /\ pc[OSTCBCur] \notin SchedPlaces
  BY Types, OutsidePend DEF CreateSections, PendPlaces, SchedPlaces
<1>2. /\ place \in MsgPlaces \ PendPlaces /\ place \notin Sections \cup PendSections
      /\ place \notin {"OSEventPendMulti", "OSMboxCreate"} /\ arg \in Args
  BY ServiceFacts DEF MsgPlaces, CreateSections, PendPlaces, PendSections, Args
<1>3. Fits(place, arg)
  BY <1>2 DEF Fits
<1>4. Moves(place, arg)
  BY <1>1, <1>2, <1>3 DEF Moves
<1> QED BY <1>2, <1>4 DEF FlowQuiet, Quiet

\* What the wait list of a control block is that nobody uses yet.
LEMMA InitialiseEffect ==
  ASSUME IInv, NEW e \in Event, OSEventType[e] = "UNUSED", NEW type, NEW ptr,
         Initialise(e, type, ptr), Runs
  PROVE  /\ TasksSame /\ GoTo("app", Null)
         /\ OSEventType' = [OSEventType EXCEPT ![e] = type]
         /\ OSEventPtr' = [OSEventPtr EXCEPT ![e] = ptr]
         /\ UNCHANGED OSEventFreeList
<1>1. OSEventWait[e] = {}
  BY DEF IInv, EventSound
<1>2. /\ OSEventType' = [OSEventType EXCEPT ![e] = type]
      /\ OSEventPtr' = [OSEventPtr EXCEPT ![e] = ptr]
      /\ OSEventWait' = [OSEventWait EXCEPT ![e] = {}]
      /\ Returns(FALSE) /\ KernelUnchanged
      /\ UNCHANGED <<OSEventFreeList, OSTCBMsg, multiVars>>
  BY DEF Initialise
<1>3. OSEventWait' = OSEventWait
  BY <1>1, <1>2, Types
<1>4. TasksSame
  BY <1>2, <1>3 DEF KernelUnchanged, TasksSame
<1>5. GoTo("app", Null)
  BY <1>2 DEF Returns, Runs
<1> QED BY <1>2, <1>4, <1>5

\* The fields of a new mailbox.
LEMMA MboxFieldsEffect ==
  ASSUME IInv, NEW pmsg \in Message, OSMboxCreate_Fields(pmsg)
  PROVE  ServiceStep
<1> DEFINE e == pevent[OSTCBCur]
<1>1. /\ Runs /\ pc[OSTCBCur] = "OSMboxCreate" /\ Initialise(e, "MBOX", pmsg) /\ UNCHANGED qVars
  BY DEF OSMboxCreate_Fields, InTask
<1>2. e \in Event
  BY <1>1, Types DEF IInv, CallSound, CallAt
<1>3. OSEventType[e] = "UNUSED"
  <2>1. Holds(OSTCBCur, e)
    BY <1>1, <1>2 DEF Holds, CreateSections
  <2> QED BY <1>2, <2>1, Types DEF IInv, EventChain
<1>4. /\ TasksSame /\ GoTo("app", Null)
      /\ OSEventType' = [OSEventType EXCEPT ![e] = "MBOX"]
      /\ OSEventPtr' = [OSEventPtr EXCEPT ![e] = pmsg]
      /\ UNCHANGED OSEventFreeList
  BY <1>1, <1>2, <1>3, InitialiseEffect
<1>5. pc[OSTCBCur] \in CreateSections
  BY <1>1 DEF CreateSections
<1>6. Quiet
  BY <1>1, <1>4, <1>5, CreatingMoves
<1>7. MakesMbox(e)
  BY <1>1, <1>2, <1>4 DEF MakesMbox
<1> QED BY <1>2, <1>6, <1>7 DEF Creates, CreateStep, ServiceStep

\* No OS_Q is left for a new queue.
LEMMA NoQEffect ==
  ASSUME IInv, OSQCreate_NoQ
  PROVE  ServiceStep
<1> DEFINE e == pevent[OSTCBCur]
<1>1. /\ Runs /\ pc[OSTCBCur] = "OSQCreate" /\ e \in Event
      /\ OSEventPtr' = [OSEventPtr EXCEPT ![e] = OSEventFreeList] /\ OSEventFreeList' = e
      /\ Returns(FALSE) /\ TasksSame /\ UNCHANGED <<OSEventType, qVars>>
  BY DEF OSQCreate_NoQ, InTask, KernelUnchanged, TasksSame, msgVars
<1>2. GoTo("app", Null) /\ pc[OSTCBCur] \in CreateSections
  BY <1>1 DEF Returns, Runs, CreateSections
<1>3. Quiet
  BY <1>1, <1>2, CreatingMoves
<1>4. ReturnsEvent(e)
  BY <1>1, <1>2 DEF ReturnsEvent
<1> QED BY <1>1, <1>3, <1>4 DEF Creates, CreateStep, ServiceStep

\* The OS_Q of a new queue is taken.
LEMMA TakeQEffect ==
  ASSUME IInv, OSQCreate_TakeQ
  PROVE  ServiceStep
<1> DEFINE e == pevent[OSTCBCur]
           b == OSQFreeList
<1>1. /\ Runs /\ pc[OSTCBCur] = "OSQCreate" /\ e \in Event /\ b # Null
      /\ OSQFreeList' = OSQTbl[b].OSQPtr
      /\ GoTo("OSQCreate", <<e, b>>) /\ TasksSame
      /\ UNCHANGED <<OSEventType, OSEventPtr, OSEventFreeList, OSQTbl>>
  BY DEF OSQCreate_TakeQ, InTask, KernelUnchanged, TasksSame, eventVars
<1>2. b \in QBlock /\ pc[OSTCBCur] \in CreateSections
  BY <1>1, Types DEF CreateSections
<1>3. <<e, b>> \in Event \X QBlock
  BY <1>1, <1>2
<1>4. Quiet
  BY <1>1, <1>2, <1>3, CreatingMoves
<1>5. TakesBlock(e, b)
  BY <1>1, <1>2 DEF TakesBlock
<1> QED BY <1>1, <1>2, <1>4, <1>5 DEF Creates, CreateStep, ServiceStep

\* The fields of a new queue.
LEMMA QFieldsEffect ==
  ASSUME IInv, NEW size \in QSizes, OSQCreate_Fields(size)
  PROVE  ServiceStep
<1> DEFINE arg == pevent[OSTCBCur]
<1>1. /\ Runs /\ pc[OSTCBCur] = "OSQCreate" /\ arg \notin Event
      /\ OSQTbl' = [OSQTbl EXCEPT ![arg[2]] = Ring(size, OSQTbl[arg[2]].OSQPtr)]
      /\ Initialise(arg[1], "Q", arg[2]) /\ UNCHANGED OSQFreeList
  BY DEF OSQCreate_Fields, InTask
<1>2. arg \in Event \X QBlock
  BY <1>1, Types DEF IInv, CallSound, CallAt
<1>3. PICK e \in Event : arg[1] = e
  BY <1>2
<1>4. PICK b \in QBlock : arg = <<e, b>> /\ arg[2] = b
  BY <1>2, <1>3
<1>5. OSEventType[e] = "UNUSED"
  <2>1. Holds(OSTCBCur, e)
    BY <1>1, <1>3 DEF Holds, CreateSections
  <2> QED BY <2>1, Types DEF IInv, EventChain
<1>6. /\ TasksSame /\ GoTo("app", Null)
      /\ OSEventType' = [OSEventType EXCEPT ![e] = "Q"]
      /\ OSEventPtr' = [OSEventPtr EXCEPT ![e] = b]
      /\ UNCHANGED OSEventFreeList
  BY <1>1, <1>3, <1>4, <1>5, InitialiseEffect
<1>7. Quiet
  BY <1>1, <1>6, CreatingMoves DEF CreateSections
<1>8. MakesQueue(e, b)
  BY <1>1, <1>4, <1>6 DEF MakesQueue
<1> QED BY <1>7, <1>8 DEF Creates, CreateStep, ServiceStep

\* Every step is one of the kernel, a change of priority or one of the above.
LEMMA Effects ==
  ASSUME IInv, Disciplined, [Next]_vars
  PROVE  \/ UNCHANGED vars
         \/ Control
         \/ \E oldprio, newprio \in Prio : OSTaskChangePrio_Multi(oldprio, newprio)
         \/ ServiceStep
<1>1. CASE Receive
  <2>1. PICK e \in Event :
          \/ \E service \in {"OSQPend", "OSMboxPend"} :
               \/ InTask(service) /\ Take(service, e)
               \/ \E timeout \in 0 .. MaxDly : Block(service, e, timeout)
          \/ \E service \in {"OSQAccept", "OSMboxAccept"} : Accept(service, e)
          \/ \E service \in {"OSQPendAbort", "OSMboxPendAbort"}, all \in BOOLEAN :
               PendAbort(service, e, all)
          \/ OSQFlush(e)
    BY <1>1 DEF Receive
  <2>2. \A service \in {"OSQPend", "OSMboxPend", "OSQAccept", "OSMboxAccept"} : service \in Sections
    BY ServiceFacts
  <2> QED BY <2>1, <2>2, TakeEffect, BlockEffect, AcceptEffect, AbortEffect, FlushEffect
<1>2. CASE Send
  <2>1. Msg \subseteq Message
    BY DEF Message
  <2>2. PICK e \in Event :
          \/ \E service \in QPosts : \E opt \in PostOpts[service], pmsg \in Message :
               HandOver(service, e, pmsg, opt) \/ OSQPost_Store(service, e, pmsg, opt)
          \/ \E service \in MboxPosts : \E opt \in PostOpts[service], pmsg \in Msg :
               HandOver(service, e, pmsg, opt) \/ OSMboxPost_Store(service, e, pmsg)
    BY <1>2 DEF Send
  <2> QED BY <2>1, <2>2, HandOverEffect, QStoreEffect, MboxStoreEffect
<1>3. CASE CreateAndDelete
  BY <1>3, DeleteEffect, CreateEffect, MboxFieldsEffect, NoQEffect, TakeQEffect, QFieldsEffect
  DEF CreateAndDelete, CreateSections
<1>4. CASE PendMulti
  BY <1>4, EnterMultiEffect, TakeMultiEffect, BlockMultiEffect, DeletedEffect, TailMultiEffect
  DEF PendMulti
<1>5. CASE \E service \in DOMAIN ServiceType, e \in Event : OSMsg_Enter(service, e)
  BY <1>5, EnterEffect
<1>6. CASE OSMsgPend_Tail
  BY <1>6, TailEffect
<1> QED BY <1>1, <1>2, <1>3, <1>4, <1>5, <1>6 DEF Next, Control, TickOrSwitch

-----------------------------------------------------------------------------
(* The tick, the priority table and the scheduler.                         *)

\* What no service of this module touches.
LEMMA ServiceFrame ==
  ASSUME ServiceStep
  PROVE  UNCHANGED <<OSTCBPrio, OSTCBPrioTbl, switchVars, nestVars, tickVars>>
BY DEF ServiceStep, StillStep, CreateStep, WaitStep, BackStep, WakeStep, DeleteStep, Quiet,
       TasksSame, Waits, ComesBack, Wakes, Woken, tcbVars, readyVars

\* A tick starts with tasks to visit and ends with the last of them.
LEMMA TickStep ==
  ASSUME IInv, Disciplined, [Next]_vars
  PROVE  TickSound'
<1>1. TickSound /\ OSIntNesting \in Nat
  BY Types, CoreAssumption DEF IInv, NestTypeOK, CoreAssumption
<1>2. ASSUME OSTimeTick PROVE TickSound'
  BY <1>1, <1>2 DEF OSTimeTick, TickSound
<1>3. ASSUME OSTimeTick_Step PROVE TickSound'
  BY <1>1, <1>3 DEF OSTimeTick_Step, TickSound
<1>4. ASSUME UNCHANGED tickVars PROVE TickSound'
  BY <1>1, <1>4 DEF TickSound, tickVars
<1>5. CASE Control
  BY <1>2, <1>3, <1>4, <1>5
  DEF Control, TickOrSwitch, CoreNext, OS_Sched, PendSV_Handler, OSSchedLock, OSSchedUnlock,
      OSIntEnter, OSIntExit, OSTimeDly, OSTimeDlyResume, OSTaskSuspend, OSTaskResume
<1>6. CASE \E oldprio, newprio \in Prio : OSTaskChangePrio_Multi(oldprio, newprio)
  BY <1>4, <1>6 DEF OSTaskChangePrio_Multi
<1>7. CASE ServiceStep
  BY <1>4, <1>7, ServiceFrame
<1>8. CASE UNCHANGED vars
  BY <1>4, <1>8 DEF vars, coreVars
<1> QED BY <1>5, <1>6, <1>7, <1>8, Effects

\* Only OSTaskChangePrio touches the priority table.
LEMMA PrioTblKept ==
  ASSUME IInv, Disciplined, [Next]_vars
  PROVE  \/ \E oldprio, newprio \in Prio : OSTaskChangePrio_Multi(oldprio, newprio)
         \/ UNCHANGED <<OSTCBPrio, OSTCBPrioTbl>>
<1>1. CASE Control
  BY <1>1
  DEF Control, TickOrSwitch, CoreNext, OS_Sched, PendSV_Handler, OSSchedLock, OSSchedUnlock,
      OSIntEnter, OSIntExit, OSTimeTick, OSTimeTick_Step, OSTimeDly, OSTimeDlyResume, DlyEnds,
      OSTaskSuspend, OSTaskResume, tcbVars, readyVars
<1>2. CASE UNCHANGED vars
  BY <1>2 DEF vars, coreVars, tcbVars, readyVars
<1> QED BY <1>1, <1>2, ServiceFrame, Effects

\* What OSTaskChangePrio does: t takes the priority new instead of old.
Reprio(t, old, new) ==
  /\ t = OSTCBPrioTbl[old] /\ OSTCBPrioTbl[new] = Null /\ OSTCBPrio[t] = old
  /\ old # new
  /\ OSTCBPrioTbl' = [OSTCBPrioTbl EXCEPT ![old] = Null, ![new] = t]
  /\ OSTCBPrio' = [OSTCBPrio EXCEPT ![t] = new]
  /\ OSRdy' = IF old \in OSRdy THEN (OSRdy \ {old}) \cup {new} ELSE OSRdy
  /\ OSEventWait' = ListsMoved(t, new)
  /\ \A u \in Task \ {t} : OSTCBPrio[u] # old /\ OSTCBPrio[u] # new
  /\ UNCHANGED <<OSTCBStat, OSTCBStatPend, OSTCBDly, OSTCBEventPtr, OSEventType, OSEventPtr,
                 OSEventFreeList, switchVars, nestVars, tickVars, msgVars>>
  /\ Call("OSTaskChangePrio") /\ Returns(TRUE)

LEMMA ChangeFacts ==
  ASSUME IInv, NEW old \in Prio, NEW new \in Prio, OSTaskChangePrio_Multi(old, new)
  PROVE  \E t \in Task : Reprio(t, old, new)
<1>1. PICK t \in Task : t = OSTCBPrioTbl[old]
  BY DEF OSTaskChangePrio_Multi, NamesTask
<1>2. PrioTblSound /\ Null \notin Task
  BY Types
<1>3. OSTCBPrioTbl[new] = Null
  BY DEF OSTaskChangePrio_Multi, FreePrio
<1>4. OSTCBPrio[t] = old /\ old # new
  BY <1>1, <1>2, <1>3 DEF PrioTblSound
<1>5. \A u \in Task \ {t} : OSTCBPrio[u] # old /\ OSTCBPrio[u] # new
  BY <1>1, <1>2, <1>3 DEF PrioTblSound
<1>6. Reprio(t, old, new)
  BY <1>1, <1>3, <1>4, <1>5 DEF OSTaskChangePrio_Multi, Reprio
<1> QED BY <1>6

\* It moves one task to a priority nobody has.
LEMMA PrioTblStep ==
  ASSUME IInv, Disciplined, [Next]_vars
  PROVE  PrioTblSound'
<1>1. TcbTypeOK /\ ReadyTypeOK /\ PrioTblSound /\ Null \notin Task
  BY Types
<1>2. ASSUME NEW old \in Prio, NEW new \in Prio, OSTaskChangePrio_Multi(old, new)
      PROVE  PrioTblSound'
  <2>1. PICK t \in Task : Reprio(t, old, new)
    BY <1>2, ChangeFacts
  <2>2. \A u \in Task : OSTCBPrioTbl'[OSTCBPrio'[u]] = u
    BY <1>1, <2>1 DEF Reprio, PrioTblSound, TcbTypeOK, ReadyTypeOK
  <2>3. \A p \in Prio : OSTCBPrioTbl'[p] # Null => OSTCBPrio'[OSTCBPrioTbl'[p]] = p
    <3>1. \A p \in Prio \ {old, new} :
            OSTCBPrioTbl'[p] = OSTCBPrioTbl[p] /\ OSTCBPrioTbl[p] # t
      BY <1>1, <2>1 DEF Reprio, PrioTblSound, ReadyTypeOK
    <3>2. OSTCBPrioTbl'[old] = Null /\ OSTCBPrioTbl'[new] = t
      BY <1>1, <2>1 DEF Reprio, ReadyTypeOK
    <3> QED BY <1>1, <2>1, <3>1, <3>2 DEF Reprio, PrioTblSound, TcbTypeOK, ReadyTypeOK
  <2> QED BY <2>2, <2>3 DEF PrioTblSound
<1>3. ASSUME UNCHANGED <<OSTCBPrio, OSTCBPrioTbl>>
      PROVE  PrioTblSound'
  BY <1>1, <1>3 DEF PrioTblSound
<1> QED BY <1>2, <1>3, PrioTblKept

\* A step that moves no task and switches none, of an ISR or one that takes
\* nobody off the ready list.
Inert ==
  /\ UNCHANGED <<switchVars, nestVars, flowVars>>
  /\ OSIntNesting > 0 \/ (OSRdy \subseteq OSRdy' /\ UNCHANGED <<OSTCBPrio, OSTCBPrioTbl>>)

\* A step of a service that the running task executes.
TaskMove ==
  /\ Runs /\ pc[OSTCBCur] \notin SchedPlaces
  /\ UNCHANGED <<switchVars, nestVars>>
  /\ \E place \in MsgPlaces \ {"OSPend_Tail"}, arg \in Args :
       /\ GoTo(place, arg)
       /\ place \in PendSections \cup PendPlaces => OSLockNesting = 0

\* A service called from application code that returns.
LEMMA CallMoves ==
  ASSUME IInv, NEW service, Call(service), NEW b \in BOOLEAN, Returns(b),
         UNCHANGED <<switchVars, nestVars>>
  PROVE  Inert \/ TaskMove
<1>1. CASE OSIntNesting > 0
  BY <1>1 DEF Returns, Inert
<1>2. CASE ~(OSIntNesting > 0)
  <2>1. Runs /\ pc[OSTCBCur] = "app"
    BY <1>2 DEF Call, TaskCall, InTask, IsrCall, InIsr
  <2>2. PICK place \in {"app", "OS_Sched"} : GoTo(place, Null)
    BY <1>2 DEF Returns
  <2>3. place \in MsgPlaces \ {"OSPend_Tail"} /\ Null \in Args
        /\ place \notin PendSections \cup PendPlaces
    BY DEF MsgPlaces, SchedPlaces, Args, PendSections, PendPlaces
  <2> QED BY <2>1, <2>2, <2>3 DEF TaskMove, SchedPlaces
<1> QED BY <1>1, <1>2

\* The services of this module.
LEMMA ServiceMoves ==
  ASSUME IInv, ServiceStep
  PROVE  Inert \/ TaskMove
<1>1. UNCHANGED <<OSTCBPrio, OSTCBPrioTbl, switchVars, nestVars, tickVars>>
  BY ServiceFrame
<1>2. ASSUME FlowQuiet, OSRdy \subseteq OSRdy' PROVE Inert \/ TaskMove
  <2>1. CASE UNCHANGED flowVars
    BY <1>1, <1>2, <2>1 DEF Inert
  <2>2. ASSUME NEW place \in MsgPlaces, NEW arg \in Args, Moves(place, arg)
        PROVE  Inert \/ TaskMove
    <3>1. /\ Runs /\ pc[OSTCBCur] \notin SchedPlaces /\ GoTo(place, arg)
          /\ place \in PendSections => OSLockNesting = 0
          /\ place \notin PendPlaces
      BY <2>2 DEF Moves, Fits
    <3> QED BY <1>1, <3>1 DEF TaskMove, PendPlaces
  <2> QED BY <1>2, <2>1, <2>2 DEF FlowQuiet
<1>3. CASE WaitStep
  <2>1. PICK S \in SUBSET Event : Waits(S)
    BY <1>3 DEF WaitStep
  <2>2. /\ Runs /\ pc[OSTCBCur] \in PendSections /\ GoTo("OSPend_Sched", pevent[OSTCBCur])
        /\ pevent[OSTCBCur] \in Args
    BY <2>1 DEF Waits, Args
  <2>3. OSLockNesting = 0
    BY <2>2, Types, CoreAssumption DEF IInv, LockSound, PendSections, NestTypeOK, CoreAssumption
  <2>4. pc[OSTCBCur] \notin SchedPlaces \cup PendPlaces
        /\ "OSPend_Sched" \in MsgPlaces \ {"OSPend_Tail"}
    BY <2>2 DEF PendSections, SchedPlaces, PendPlaces, MsgPlaces
  <2> QED BY <1>1, <2>2, <2>3, <2>4 DEF TaskMove, PendPlaces
<1>4. CASE BackStep
  <2>1. Runs /\ pc[OSTCBCur] = "OSPend_Tail" /\ GoTo("app", Null)
    BY <1>4 DEF BackStep, ComesBack, InTask
  <2>2. "app" \in MsgPlaces \ {"OSPend_Tail"} /\ Null \in Args
        /\ "app" \notin PendSections \cup PendPlaces
    BY DEF MsgPlaces, Args, PendSections, PendPlaces
  <2> QED BY <1>1, <2>1, <2>2 DEF TaskMove, SchedPlaces
<1>5. CASE StillStep \/ CreateStep
  BY <1>2, <1>5 DEF StillStep, CreateStep, Quiet, TasksSame, readyVars
<1>6. CASE WakeStep \/ DeleteStep
  BY <1>2, <1>6 DEF WakeStep, DeleteStep, Wakes, Woken
<1> QED BY <1>3, <1>4, <1>5, <1>6 DEF ServiceStep

\* How the running task, the nesting counters and the switch move in a step.
LEMMA Flow ==
  ASSUME IInv, Disciplined, [Next]_vars
  PROVE  \/ UNCHANGED vars
         \/ OS_Sched \/ PendSV_Handler \/ OSSchedLock \/ OSSchedUnlock
         \/ OSIntEnter \/ OSIntExit
         \/ Inert \/ TaskMove
<1>1. /\ PrioTblSound /\ TickSound /\ OSIntNesting \in Nat /\ tickNest \in Nat
      /\ Null \notin Task
  BY Types, CoreAssumption DEF IInv, NestTypeOK, TickTypeOK, CoreAssumption
<1>2. ASSUME OSTimeTick \/ OSTimeTick_Step PROVE Inert
  BY <1>1, <1>2 DEF OSTimeTick, OSTimeTick_Step, Inert
<1>3. ASSUME NEW ticks \in 1 .. MaxDly, OSTimeDly(ticks) PROVE Inert \/ TaskMove
  BY <1>3, CallMoves DEF OSTimeDly, Call
<1>4. ASSUME NEW prio \in Prio, OSTimeDlyResume(prio) PROVE Inert \/ TaskMove
  BY <1>4, CallMoves DEF OSTimeDlyResume
<1>5. ASSUME NEW prio \in Prio, OSTaskSuspend(prio) PROVE Inert \/ TaskMove
  BY <1>5, CallMoves DEF OSTaskSuspend
<1>6. ASSUME NEW prio \in Prio, OSTaskResume(prio) PROVE Inert \/ TaskMove
  <2> DEFINE freed == /\ OSTCBStat[OSTCBPrioTbl[prio]] \cap OS_STAT_PEND_ANY = {}
                      /\ OSTCBDly[OSTCBPrioTbl[prio]] = 0
  <2>1. Call("OSTaskResume") /\ Returns(freed) /\ UNCHANGED <<switchVars, nestVars>>
    BY <1>6 DEF OSTaskResume
  <2>2. freed \in BOOLEAN
    OBVIOUS
  <2> HIDE DEF freed
  <2> QED BY <2>1, <2>2, CallMoves
<1>7. ASSUME NEW old \in Prio, NEW new \in Prio, OSTaskChangePrio_Multi(old, new)
      PROVE  Inert \/ TaskMove
  BY <1>7, CallMoves DEF OSTaskChangePrio_Multi
<1>8. CASE Control
  BY <1>2, <1>3, <1>4, <1>5, <1>6, <1>8 DEF Control, TickOrSwitch, CoreNext
<1> QED BY <1>7, <1>8, ServiceMoves, Effects

\* What the scheduler relies on, and what its step has done.
LEMMA SchedNewFacts ==
  ASSUME IInv, OS_SchedNew
  PROVE  /\ OSPrioHighRdy' \in OSRdy
         /\ OSTCBHighRdy' = OSTCBPrioTbl[OSPrioHighRdy']
         /\ PendSV' = (PendSV \/ OSPrioHighRdy' # OSPrioCur)
         /\ UNCHANGED <<OSTCBCur, OSPrioCur>>
         /\ OSTCBPrioTbl[OSPrioHighRdy'] \in Task
         /\ OSTCBPrio[OSTCBPrioTbl[OSPrioHighRdy']] = OSPrioHighRdy'
         /\ ~PendSV' => OSTCBPrio[OSTCBCur] \in OSRdy
<1>1. /\ OSPrioHighRdy' \in OSRdy
      /\ OSTCBHighRdy' = OSTCBPrioTbl[OSPrioHighRdy']
      /\ PendSV' = (PendSV \/ OSPrioHighRdy' # OSPrioCur)
      /\ UNCHANGED <<OSTCBCur, OSPrioCur>>
  BY DEF OS_SchedNew
<1>2. PrioTblSound /\ ReadyTypeOK /\ Null \notin Task
  BY Types
<1>3. OSTCBPrioTbl[OSPrioHighRdy'] \in Task
  BY <1>1 DEF IInv, RdySound
<1>4. OSTCBPrio[OSTCBPrioTbl[OSPrioHighRdy']] = OSPrioHighRdy'
  BY <1>1, <1>2, <1>3 DEF PrioTblSound, ReadyTypeOK
<1>5. ~PendSV' => OSTCBPrio[OSTCBCur] \in OSRdy
  BY <1>1, <1>2, <1>3, <1>4 DEF IInv, CurSound
<1> QED BY <1>1, <1>3, <1>4, <1>5

\* The types the scheduler lemmas need.
LEMMA SchedTypes ==
  ASSUME IInv
  PROVE  /\ SwitchSound /\ LockSound /\ CurSound /\ PrioTblSound /\ ReadyTypeOK
         /\ OSIntNesting \in Nat /\ OSLockNesting \in Nat
         /\ OSTCBCur \in Task /\ OSPrioCur \in Prio /\ Null \notin Task
         /\ pc \in [Task -> MsgPlaces]
BY Types, CoreAssumption DEF IInv, NestTypeOK, SwitchTypeOK, CoreAssumption

\* Where OS_Sched leads, and OSSchedUnlock.
LEMMA SchedGoes ==
  ASSUME IInv, OS_Sched
  PROVE  /\ Runs
         /\ pc[OSTCBCur] = "OS_Sched" => GoTo("app", pevent[OSTCBCur])
         /\ pc[OSTCBCur] = "OSPend_Sched" => GoTo("OSPend_Tail", pevent[OSTCBCur])
         /\ pc[OSTCBCur] \in SchedPlaces
         /\ OSLockNesting > 0 => pc[OSTCBCur] = "OS_Sched"
BY SchedTypes DEF OS_Sched, AfterSched, SchedPlaces, LockSound, PendPlaces

LEMMA UnlockGoes ==
  ASSUME IInv, OSSchedUnlock
  PROVE  /\ Runs /\ pc[OSTCBCur] = "app" /\ "OSSchedLock" \in TaskCalls[OSTCBCur]
         /\ UNCHANGED switchVars /\ OSLockNesting > 0
         /\ \E place \in {"app", "OS_Sched"} : GoTo(place, Null)
BY DEF OSSchedUnlock, TaskCall, InTask, Returns, Runs

\* A pending switch leads to a ready task, and only a ready task comes back
\* from a wait.
LEMMA SwitchStep ==
  ASSUME IInv, Disciplined, [Next]_vars
  PROVE  SwitchSound'
<1>1. /\ SwitchSound /\ LockSound /\ CurSound /\ PrioTblSound /\ ReadyTypeOK
      /\ OSIntNesting \in Nat /\ OSLockNesting \in Nat
      /\ OSTCBCur \in Task /\ Null \notin Task
  BY SchedTypes
<1>2. ASSUME OS_SchedNew, UNCHANGED <<readyVars, OSTCBPrio>> PROVE SwitchSound'
  BY <1>2, SchedNewFacts DEF SwitchSound, readyVars, Runs
<1>3. CASE OS_Sched
  <2>1. CASE OSLockNesting = 0
    BY <1>2, <1>3, <2>1 DEF OS_Sched, tcbVars
  <2>2. CASE OSLockNesting > 0
    <3>1. pc'[OSTCBCur] = "app"
      BY <1>3, <2>2, SchedGoes, GoToFacts
    <3>2. UNCHANGED switchVars /\ Runs
      BY <1>3, <2>2 DEF OS_Sched
    <3> QED BY <3>1, <3>2 DEF SwitchSound, switchVars, Runs
  <2> QED BY <1>1, <2>1, <2>2
<1>4. CASE OSIntExit
  <2>1. CASE OSIntNesting = 1 /\ OSLockNesting = 0
    BY <1>2, <1>4, <2>1 DEF OSIntExit, tcbVars
  <2>2. CASE OSLockNesting > 0
    <3>1. UNCHANGED <<switchVars, flowVars>> /\ ~PendSV
      BY <1>1, <1>4, <2>2 DEF OSIntExit, LockSound
    <3>2. pc'[OSTCBCur'] # "OSPend_Tail"
      BY <1>1, <2>2, <3>1 DEF LockSound, PendPlaces, switchVars, flowVars
    <3> QED BY <3>1, <3>2 DEF SwitchSound, switchVars, Runs
  <2>3. CASE OSIntNesting # 1
    BY <1>1, <1>4, <2>3 DEF OSIntExit, SwitchSound, Runs
  <2> QED BY <1>1, <2>1, <2>2, <2>3
<1>5. CASE OSIntEnter
  BY <1>1, <1>5 DEF OSIntEnter, SwitchSound, Runs
<1>6. CASE Inert
  BY <1>1, <1>6 DEF Inert, SwitchSound, Runs, switchVars, nestVars, flowVars
<1>7. CASE TaskMove
  <2>1. PICK place \in MsgPlaces \ {"OSPend_Tail"} : \E arg \in Args : GoTo(place, arg)
    BY <1>7 DEF TaskMove
  <2>2. pc'[OSTCBCur] # "OSPend_Tail"
    BY <2>1, GoToFacts
  <2> QED BY <1>7, <2>2 DEF TaskMove, Runs, SwitchSound, switchVars
<1>8. CASE OSSchedLock
  BY <1>8 DEF OSSchedLock, TaskCall, InTask, Runs, SwitchSound, switchVars, flowVars
<1>9. CASE OSSchedUnlock
  <2>1. pc'[OSTCBCur] # "OSPend_Tail"
    BY <1>9, UnlockGoes, GoToFacts
  <2> QED BY <1>9, <2>1, UnlockGoes DEF Runs, SwitchSound, switchVars
<1>10. CASE PendSV_Handler
  <2>1. OSPrioHighRdy \in OSRdy /\ OSTCBHighRdy = OSTCBPrioTbl[OSPrioHighRdy]
    BY <1>1, <1>10 DEF PendSV_Handler, SwitchSound
  <2>2. OSTCBHighRdy \in Task /\ OSTCBPrio[OSTCBHighRdy] = OSPrioHighRdy
    BY <1>1, <2>1 DEF IInv, RdySound, PrioTblSound, ReadyTypeOK
  <2> QED BY <1>10, <2>1, <2>2 DEF PendSV_Handler, SwitchSound, tcbVars, readyVars
<1>11. CASE UNCHANGED vars
  BY <1>1, <1>11
  DEF vars, coreVars, tcbVars, readyVars, switchVars, nestVars, flowVars, SwitchSound, Runs
<1> QED BY <1>3, <1>4, <1>5, <1>6, <1>7, <1>8, <1>9, <1>10, <1>11, Flow

\* While the scheduler is locked, no step makes a switch pending or pends.
LEMMA LockStep ==
  ASSUME IInv, Disciplined, [Next]_vars
  PROVE  LockSound'
<1>1. /\ LockSound /\ OSLockNesting \in Nat /\ OSTCBCur \in Task /\ pc \in [Task -> MsgPlaces]
  BY SchedTypes
<1>2. CASE OS_Sched
  <2>1. CASE OSLockNesting = 0
    BY <1>2, <2>1 DEF OS_Sched, nestVars, LockSound
  <2>2. CASE OSLockNesting > 0
    <3>1. pc'[OSTCBCur] = "app"
      BY <1>2, <2>2, SchedGoes, GoToFacts
    <3>2. UNCHANGED <<switchVars, nestVars>>
      BY <1>2, <2>2 DEF OS_Sched
    <3> QED BY <1>1, <2>2, <3>1, <3>2 DEF LockSound, PendPlaces, switchVars, nestVars
  <2> QED BY <1>1, <2>1, <2>2
<1>3. CASE PendSV_Handler
  BY <1>1, <1>3 DEF PendSV_Handler, LockSound, nestVars
<1>4. CASE OSSchedLock
  BY <1>1, <1>4
  DEF OSSchedLock, TaskCall, InTask, Runs, LockSound, PendPlaces, switchVars, flowVars
<1>5. CASE OSSchedUnlock
  <2>1. pc'[OSTCBCur] \in {"app", "OS_Sched"}
    BY <1>5, UnlockGoes, GoToFacts
  <2> QED BY <1>1, <1>5, <2>1, UnlockGoes DEF LockSound, PendPlaces, switchVars
<1>6. CASE OSIntEnter
  BY <1>1, <1>6 DEF OSIntEnter, LockSound, switchVars, flowVars
<1>7. CASE OSIntExit
  BY <1>1, <1>7 DEF OSIntExit, LockSound, switchVars, flowVars
<1>8. CASE Inert
  BY <1>1, <1>8 DEF Inert, LockSound, switchVars, nestVars, flowVars
<1>9. CASE TaskMove
  <2>1. PICK place \in MsgPlaces \ {"OSPend_Tail"} :
          \E arg \in Args : GoTo(place, arg)
                            /\ (place \in PendSections \cup PendPlaces => OSLockNesting = 0)
    BY <1>9 DEF TaskMove
  <2>2. pc'[OSTCBCur] = place
    BY <2>1, GoToFacts
  <2> QED
    BY <1>1, <1>9, <2>1, <2>2 DEF TaskMove, PendSections, LockSound, switchVars, nestVars
<1>10. CASE UNCHANGED vars
  BY <1>1, <1>10 DEF vars, coreVars, LockSound, switchVars, nestVars, flowVars
<1> QED BY <1>2, <1>3, <1>4, <1>5, <1>6, <1>7, <1>8, <1>9, <1>10, Flow

\* This is where the discipline of OSTaskChangePrio is needed: the change is
\* made by a task that goes on to an OS_Sched which does switch.
LEMMA CurStep ==
  ASSUME PrioDiscipline, IInv, Disciplined, [Next]_vars
  PROVE  CurSound'
<1>1. /\ CurSound /\ LockSound /\ PrioTblSound /\ ReadyTypeOK
      /\ OSLockNesting \in Nat /\ OSTCBCur \in Task /\ OSPrioCur \in Prio /\ Null \notin Task
      /\ pc \in [Task -> MsgPlaces]
  BY SchedTypes
<1>2. ASSUME NEW old \in Prio, NEW new \in Prio, NEW t \in Task, Reprio(t, old, new)
      PROVE  CurSound'
  <2>1. /\ t = OSTCBPrioTbl[old] /\ OSTCBPrioTbl[new] = Null
        /\ OSTCBPrioTbl' = [OSTCBPrioTbl EXCEPT ![old] = Null, ![new] = t]
        /\ Call("OSTaskChangePrio") /\ Returns(TRUE) /\ UNCHANGED <<switchVars, nestVars>>
    BY <1>2 DEF Reprio
  <2>2. Runs /\ pc[OSTCBCur] = "app" /\ "OSTaskChangePrio" \in TaskCalls[OSTCBCur]
    BY <2>1 DEF PrioDiscipline, Call, IsrCall, TaskCall, InTask
  <2>3. OSLockNesting = 0
    BY <1>1, <2>2 DEF LockSound, PrioDiscipline
  <2>4. OSTCBPrioTbl[OSPrioCur] = OSTCBCur
    BY <1>1, <2>2 DEF CurSound, Runs, SchedPlaces
  <2>5. pc'[OSTCBCur] = "OS_Sched"
    BY <2>1, <2>2, GoToFacts DEF Returns, Runs
  <2>6. OSPrioCur # new
    BY <1>1, <2>1, <2>4
  <2>7. OSTCBPrioTbl'[OSPrioCur] \in {OSTCBCur, Null}
    BY <1>1, <2>1, <2>4, <2>6 DEF ReadyTypeOK
  <2> QED BY <2>1, <2>3, <2>5, <2>7 DEF CurSound, SchedPlaces, switchVars, nestVars
<1>3. ASSUME OSTCBPrioTbl' = OSTCBPrioTbl
      PROVE  CurSound'
  <2>1. CASE OS_Sched
    <3>1. CASE OSLockNesting = 0
      BY <1>1, <1>3, <2>1, <3>1, SchedNewFacts DEF OS_Sched, CurSound, nestVars
    <3>2. CASE OSLockNesting # 0
      BY <1>1, <1>3, <2>1, <3>2 DEF OS_Sched, CurSound, switchVars
    <3> QED BY <3>1, <3>2
  <2>2. CASE PendSV_Handler
    BY <1>3, <2>2 DEF IInv, PendSV_Handler, SwitchSound, CurSound
  <2>3. CASE OSIntExit
    <3>1. /\ UNCHANGED <<OSTCBCur, OSPrioCur, OSLockNesting, flowVars>>
          /\ PendSV => PendSV'
      BY <2>3, SchedNewFacts DEF OSIntExit, switchVars
    <3> QED BY <1>1, <1>3, <3>1 DEF CurSound, flowVars
  <2>4. CASE OSIntEnter \/ Inert
    BY <1>1, <1>3, <2>4 DEF OSIntEnter, Inert, CurSound, switchVars, nestVars, flowVars
  <2>5. CASE TaskMove \/ OSSchedLock \/ OSSchedUnlock
    <3>1. /\ Runs /\ pc[OSTCBCur] \notin SchedPlaces /\ UNCHANGED switchVars
      BY <2>5 DEF TaskMove, OSSchedLock, OSSchedUnlock, TaskCall, InTask, SchedPlaces
    <3> QED BY <1>1, <1>3, <3>1 DEF CurSound, Runs, switchVars
  <2>6. CASE UNCHANGED vars
    BY <1>1, <1>3, <2>6 DEF vars, coreVars, CurSound, switchVars, nestVars, flowVars
  <2> QED BY <2>1, <2>2, <2>3, <2>4, <2>5, <2>6, Flow
<1> QED BY <1>2, <1>3, ChangeFacts, PrioTblKept

-----------------------------------------------------------------------------
(* What a step does to one task.                                           *)

Listed(t, e) == OSTCBPrio[t] \in OSEventWait[e]

Ready(t) == OSTCBPrio[t] \in OSRdy

\* It waits for what it waited for.
WaitKept(t) ==
  /\ OSTCBEventPtr'[t] = OSTCBEventPtr[t]
  /\ OSTCBEventMultiPtr'[t] = OSTCBEventMultiPtr[t]
  /\ OSTCBEventMultiRdy'[t] = OSTCBEventMultiRdy[t]
  /\ \A e \in Event : Listed(t, e)' <=> Listed(t, e)

\* It stays where it is, or returns to its caller by way of OS_Sched.
CtlKept(t) ==
  \/ pc'[t] = pc[t] /\ pevent'[t] = pevent[t]
  \/ pc[t] = "OSPend_Sched" /\ pc'[t] = "OSPend_Tail" /\ pevent'[t] = pevent[t]
  \/ pc[t] \in {"app", "OS_Sched"} /\ pc'[t] \in {"app", "OS_Sched"}

\* It stays in its pend, or out of one.
FlowKept(t) ==
  CtlKept(t) \/ (t = OSTCBCur /\ Awaited(t) = {} /\ Fits(pc'[t], pevent'[t]))

Unmoved(t) ==
  /\ OSTCBStat'[t] = OSTCBStat[t] /\ OSTCBStatPend'[t] = OSTCBStatPend[t]
  /\ OSTCBDly'[t] = OSTCBDly[t]
  /\ Ready(t)' <=> Ready(t)

Expires(t) ==
  /\ OSTCBDly[t] # 0 /\ OSTCBDly'[t] = 0
  /\ OSTCBStat'[t] = OSTCBStat[t] \ OS_STAT_PEND_ANY
  /\ OSTCBStatPend'[t] = IF OSTCBStat[t] \cap OS_STAT_PEND_ANY # {} THEN "TO" ELSE "OK"
  /\ Ready(t)' <=> Ready(t) \/ "SUSPEND" \notin OSTCBStat[t]

CountsDown(t) ==
  /\ OSTCBDly[t] # 0 /\ OSTCBDly'[t] # 0 /\ OSTCBDly'[t] \in 0 .. MaxDly
  /\ OSTCBStat'[t] = OSTCBStat[t] /\ OSTCBStatPend'[t] = OSTCBStatPend[t]
  /\ Ready(t)' <=> Ready(t)

Delays(t) ==
  /\ Awaited(t) = {}
  /\ OSTCBDly'[t] # 0 /\ OSTCBDly'[t] \in 0 .. MaxDly
  /\ OSTCBStat'[t] = OSTCBStat[t] /\ OSTCBStatPend'[t] = OSTCBStatPend[t]
  /\ ~Ready(t)'

Suspends(t) ==
  /\ ~NoSuspension
  /\ OSTCBStat'[t] = OSTCBStat[t] \cup {"SUSPEND"}
  /\ OSTCBDly'[t] = OSTCBDly[t] /\ OSTCBStatPend'[t] = OSTCBStatPend[t]
  /\ ~Ready(t)'

Resumes(t) ==
  /\ "SUSPEND" \in OSTCBStat[t]
  /\ OSTCBStat'[t] = OSTCBStat[t] \ {"SUSPEND"}
  /\ OSTCBDly'[t] = OSTCBDly[t] /\ OSTCBStatPend'[t] = OSTCBStatPend[t]
  /\ Ready(t)' <=>
       Ready(t) \/ (OSTCBStat[t] \cap OS_STAT_PEND_ANY = {} /\ OSTCBDly[t] = 0)

\* It begins to wait for the events of S.
BeginsFor(t, S) ==
  /\ Awaited(t) = {} /\ pc[t] \in PendSections
  /\ S # {} /\ \A e \in S : e \in Event /\ OSEventType[e] \in {"Q", "MBOX"}
  /\ \E bits \in SUBSET {"Q", "MBOX", "MULTI"} :
       /\ bits \cap {"Q", "MBOX"} # {}
       /\ OSTCBStat'[t] = OSTCBStat[t] \cup bits
       /\ pevent[t] \in Event => pevent[t] \in S /\ bits = {OSEventType[pevent[t]]}
  /\ OSTCBStatPend'[t] = "OK"
  /\ OSTCBDly'[t] \in 0 .. MaxDly
  /\ \A e \in Event : Listed(t, e)' <=> e \in S
  /\ ~Ready(t)'
  /\ pc'[t] = "OSPend_Sched" /\ pevent'[t] = pevent[t]
  /\ \/ /\ pevent[t] \in Event /\ S = {pevent[t]}
        /\ OSTCBEventPtr'[t] = pevent[t] /\ OSTCBEventMultiPtr'[t] = <<>>
     \/ /\ pevent[t] \in PendArrays /\ S = Range(pevent[t])
        /\ OSTCBEventPtr'[t] = Null /\ OSTCBEventMultiPtr'[t] = pevent[t]
        /\ OSTCBEventMultiRdy'[t] = Null

Begins(t) == \E S \in SUBSET Event : BeginsFor(t, S)

\* It comes back from a wait.
Ends(t) ==
  /\ Ready(t) /\ Ready(t)'
  /\ OSTCBStat'[t] = {} /\ OSTCBStatPend'[t] = "OK" /\ OSTCBDly'[t] = OSTCBDly[t]
  /\ OSTCBEventPtr'[t] = Null /\ OSTCBEventMultiPtr'[t] = <<>>
  /\ OSTCBEventMultiRdy'[t] = Null
  /\ \A e \in Event : ~Listed(t, e)'
  /\ pc'[t] = "app" /\ pevent'[t] = Null

\* A post, an abort or a deletion of e ends its wait.
ReadiedBy(t, e) ==
  /\ e \in Event /\ e \in Awaited(t)
  /\ OSTCBDly'[t] = 0 /\ OSTCBStat'[t] = OSTCBStat[t] \ {OSEventType[e]}
  /\ OSTCBStatPend'[t] \in {"OK", "ABORT"}
  /\ OSTCBEventPtr'[t] = Null /\ OSTCBEventMultiPtr'[t] = <<>>
  /\ \A f \in Event : ~Listed(t, f)'
  /\ Ready(t)' <=> Ready(t) \/ "SUSPEND" \notin OSTCBStat[t]
  /\ FlowKept(t)

Readied(t) == \E e \in Event : ReadiedBy(t, e)

\* The changes that leave what the task waits for.
Stays(t) ==
  /\ WaitKept(t) /\ FlowKept(t)
  /\ \/ Unmoved(t) \/ Expires(t) \/ CountsDown(t) \/ Delays(t) \/ Suspends(t)
     \/ Resumes(t)

TaskCase(t) == Stays(t) \/ Begins(t) \/ Ends(t) \/ Readied(t)

\* The steps of Control change at most one task.
OneChanges(u) ==
  /\ Expires(u) \/ CountsDown(u) \/ Delays(u) \/ Suspends(u) \/ Resumes(u)
  /\ \A t \in Task \ {u} : Unmoved(t)
  /\ OSRdy' \subseteq OSRdy \cup {OSTCBPrio[u]}

ListsKept ==
  UNCHANGED <<OSTCBPrio, OSTCBEventPtr, OSTCBPrioTbl, OSEventWait, multiVars, OSEventType>>

LEMMA ControlTasks ==
  ASSUME IInv, Control
  PROVE  /\ ListsKept
         /\ UNCHANGED <<tcbVars, OSRdy>> \/ \E u \in Task : OneChanges(u)
<1>1. /\ TcbTypeOK /\ ReadyTypeOK /\ TickTypeOK /\ TickSound /\ PrioTblSound
      /\ OSTCBCur \in Task /\ MaxDly \in Nat
  BY Types, CoreAssumption DEF IInv, CoreAssumption
<1>2. UNCHANGED msgVars /\ TickOrSwitch
  BY DEF Control
<1>3. \A s, t \in Task : OSTCBPrio[s] = OSTCBPrio[t] => s = t
  BY <1>1, PriosDistinct
<1>4. UNCHANGED <<OSTCBPrio, OSTCBEventPtr, OSTCBPrioTbl, eventVars>>
  BY <1>2
  DEF TickOrSwitch, CoreNext, OS_Sched, PendSV_Handler, OSSchedLock, OSSchedUnlock,
      OSIntEnter, OSIntExit, OSTimeTick, OSTimeTick_Step, OSTimeDly, OSTimeDlyResume, DlyEnds,
      OSTaskSuspend, OSTaskResume, tcbVars, readyVars
<1>5. ListsKept
  BY <1>2, <1>4 DEF ListsKept, eventVars, msgVars
<1>6. ASSUME NEW u \in Task, OSTCBDly[u] # 0, DlyEnds(u)
      PROVE  OneChanges(u)
  <2>1. /\ OSTCBDly' = [OSTCBDly EXCEPT ![u] = 0]
        /\ OSTCBStat' = [OSTCBStat EXCEPT ![u] = @ \ OS_STAT_PEND_ANY]
        /\ OSTCBStatPend' = [OSTCBStatPend EXCEPT
             ![u] = IF OSTCBStat[u] \cap OS_STAT_PEND_ANY # {} THEN "TO" ELSE "OK"]
        /\ OSRdy' = OSRdy \cup ReadyPrios({u}) /\ OSTCBPrio' = OSTCBPrio
    BY <1>6 DEF DlyEnds, MakeReady
  <2>2. ReadyPrios({u}) = IF "SUSPEND" \notin OSTCBStat[u] THEN {OSTCBPrio[u]} ELSE {}
    BY DEF ReadyPrios
  <2>3. Expires(u)
    BY <1>1, <1>6, <2>1, <2>2 DEF Expires, Ready, TcbTypeOK
  <2>4. \A t \in Task \ {u} : Unmoved(t)
    BY <1>1, <1>3, <2>1, <2>2 DEF Unmoved, Ready, TcbTypeOK
  <2> QED BY <2>1, <2>2, <2>3, <2>4 DEF OneChanges
<1>7. ASSUME OSTimeTick_Step
      PROVE  UNCHANGED <<tcbVars, OSRdy>> \/ \E u \in Task : OneChanges(u)
  <2>1. PICK u \in Task : u = Head(ptcb)
    BY <1>1, <1>7, HeadTailProperties DEF OSTimeTick_Step, TickTypeOK, TickSound
  <2>2. CASE OSTCBDly[u] = 1
    BY <1>6, <1>7, <2>1, <2>2 DEF OSTimeTick_Step
  <2>3. CASE OSTCBDly[u] = 0
    <3>1. OSTCBDly' = OSTCBDly
      BY <1>1, <1>7, <2>1, <2>3 DEF OSTimeTick_Step, TcbTypeOK
    <3> QED BY <1>7, <2>1, <2>3, <3>1 DEF OSTimeTick_Step, tcbVars
  <2>4. CASE OSTCBDly[u] # 0 /\ OSTCBDly[u] # 1
    <3>1. /\ OSTCBDly' = [OSTCBDly EXCEPT ![u] = OSTCBDly[u] - 1]
          /\ UNCHANGED <<OSTCBPrio, OSTCBStat, OSTCBStatPend, OSRdy>>
      BY <1>1, <1>7, <2>1, <2>4 DEF OSTimeTick_Step, TcbTypeOK
    <3>2. OSTCBDly[u] \in 0 .. MaxDly
      BY <1>1 DEF TcbTypeOK
    <3>3. OSTCBDly'[u] = OSTCBDly[u] - 1
      BY <1>1, <3>1 DEF TcbTypeOK
    <3>4. OSTCBDly'[u] # 0 /\ OSTCBDly'[u] \in 0 .. MaxDly
      BY <1>1, <2>4, <3>2, <3>3
    <3>5. CountsDown(u)
      BY <2>4, <3>1, <3>4 DEF CountsDown, Ready
    <3>6. \A t \in Task \ {u} : Unmoved(t)
      BY <1>1, <3>1 DEF Unmoved, Ready, TcbTypeOK
    <3> QED BY <3>1, <3>5, <3>6 DEF OneChanges
  <2> QED BY <2>2, <2>3, <2>4
<1>8. ASSUME NEW ticks \in 1 .. MaxDly, OSTimeDly(ticks)
      PROVE  \E u \in Task : OneChanges(u)
  <2>1. PICK u \in Task : u = OSTCBCur
    BY <1>1
  <2>2. /\ OSTCBDly' = [OSTCBDly EXCEPT ![u] = ticks]
        /\ OSRdy' = OSRdy \ {OSTCBPrio[u]}
        /\ UNCHANGED <<OSTCBPrio, OSTCBStat, OSTCBStatPend>>
    BY <1>8, <2>1 DEF OSTimeDly
  <2>3. Awaited(u) = {}
    BY <1>8, <2>1, CallFacts DEF OSTimeDly
  <2>4. ticks # 0 /\ ticks \in 0 .. MaxDly
    BY <1>1, <1>8
  <2>5. Delays(u)
    BY <1>1, <2>2, <2>3, <2>4 DEF Delays, Ready, TcbTypeOK
  <2>6. \A t \in Task \ {u} : Unmoved(t)
    BY <1>1, <1>3, <2>2 DEF Unmoved, Ready, TcbTypeOK
  <2> QED BY <2>2, <2>5, <2>6 DEF OneChanges
<1>9. ASSUME NEW prio \in Prio, OSTimeDlyResume(prio)
      PROVE  \E u \in Task : OneChanges(u)
  BY <1>6, <1>9 DEF OSTimeDlyResume, NamesTask
<1>10. ASSUME NEW prio \in Prio, OSTaskSuspend(prio)
       PROVE  \E u \in Task : OneChanges(u)
  <2>1. PICK u \in Task : u = OSTCBPrioTbl[prio]
    BY <1>10 DEF OSTaskSuspend, NamesTask
  <2>2. /\ OSTCBStat' = [OSTCBStat EXCEPT ![u] = @ \cup {"SUSPEND"}]
        /\ OSRdy' = OSRdy \ {OSTCBPrio[u]}
        /\ UNCHANGED <<OSTCBPrio, OSTCBStatPend, OSTCBDly>>
        /\ Call("OSTaskSuspend")
    BY <1>10, <2>1 DEF OSTaskSuspend
  <2>3. ~NoSuspension
    BY <1>1, <2>2 DEF NoSuspension, Call, TaskCall, IsrCall
  <2>4. Suspends(u)
    BY <1>1, <2>2, <2>3 DEF Suspends, Ready, TcbTypeOK
  <2>5. \A t \in Task \ {u} : Unmoved(t)
    BY <1>1, <1>3, <2>2 DEF Unmoved, Ready, TcbTypeOK
  <2> QED BY <2>2, <2>4, <2>5 DEF OneChanges
<1>11. ASSUME NEW prio \in Prio, OSTaskResume(prio)
       PROVE  \E u \in Task : OneChanges(u)
  <2>1. PICK u \in Task : u = OSTCBPrioTbl[prio]
    BY <1>11 DEF OSTaskResume, NamesTask
  <2>2. /\ OSTCBStat' = [OSTCBStat EXCEPT ![u] = @ \ {"SUSPEND"}] /\ "SUSPEND" \in OSTCBStat[u]
        /\ OSRdy' = IF OSTCBStat[u] \cap OS_STAT_PEND_ANY = {} /\ OSTCBDly[u] = 0
                      THEN OSRdy \cup {OSTCBPrio[u]} ELSE OSRdy
        /\ UNCHANGED <<OSTCBPrio, OSTCBStatPend, OSTCBDly>>
    BY <1>11, <2>1 DEF OSTaskResume
  <2>3. Resumes(u)
    BY <1>1, <2>2 DEF Resumes, Ready, TcbTypeOK
  <2>4. \A t \in Task \ {u} : Unmoved(t)
    BY <1>1, <1>3, <2>2 DEF Unmoved, Ready, TcbTypeOK
  <2> QED BY <2>2, <2>3, <2>4 DEF OneChanges
<1>12. CASE \/ OS_Sched \/ PendSV_Handler \/ OSSchedLock \/ OSSchedUnlock \/ OSIntEnter
            \/ OSIntExit \/ OSTimeTick
  BY <1>5, <1>12
  DEF OS_Sched, PendSV_Handler, OSSchedLock, OSSchedUnlock, OSIntEnter, OSIntExit, OSTimeTick,
      tcbVars, readyVars
<1> QED
  BY <1>1, <1>2, <1>5, <1>7, <1>8, <1>9, <1>10, <1>11, <1>12 DEF TickOrSwitch, CoreNext

LEMMA CallKeepsFlow ==
  ASSUME IInv, NEW service, Call(service), NEW b \in BOOLEAN, Returns(b)
  PROVE  \A t \in Task : CtlKept(t)
<1>1. CASE OSIntNesting > 0
  BY <1>1 DEF Returns, flowVars, CtlKept
<1>2. CASE ~(OSIntNesting > 0)
  <2>1. PICK place \in {"app", "OS_Sched"} : GoTo(place, Null)
    BY <1>2 DEF Returns
  <2>2. pc[OSTCBCur] = "app"
    BY <1>2, CallFacts DEF Call, IsrCall, InIsr
  <2> QED BY <2>1, <2>2, GoToFacts DEF CtlKept
<1> QED BY <1>1, <1>2

LEMMA ControlKeepsFlow ==
  ASSUME IInv, Control
  PROVE  \A t \in Task : CtlKept(t)
<1>1. TickOrSwitch
  BY DEF Control
<1>2. CASE OS_Sched
  <2>1. CASE pc[OSTCBCur] = "OS_Sched"
    BY <1>2, <2>1, SchedGoes, GoToFacts DEF CtlKept
  <2>2. CASE pc[OSTCBCur] = "OSPend_Sched"
    BY <1>2, <2>2, SchedGoes, GoToFacts DEF CtlKept
  <2> QED BY <1>2, <2>1, <2>2, SchedGoes DEF SchedPlaces
<1>3. CASE OSSchedUnlock
  BY <1>3, UnlockGoes, GoToFacts DEF CtlKept
<1>4. CASE \/ PendSV_Handler \/ OSSchedLock \/ OSIntEnter \/ OSIntExit \/ OSTimeTick
           \/ OSTimeTick_Step
  BY <1>4
  DEF PendSV_Handler, OSSchedLock, OSIntEnter, OSIntExit, OSTimeTick, OSTimeTick_Step,
      flowVars, CtlKept
<1>5. ASSUME NEW ticks \in 1 .. MaxDly, OSTimeDly(ticks)
      PROVE  \A t \in Task : CtlKept(t)
  BY <1>5, CallKeepsFlow DEF OSTimeDly, Call
<1>6. ASSUME NEW prio \in Prio, OSTimeDlyResume(prio)
      PROVE  \A t \in Task : CtlKept(t)
  BY <1>6, CallKeepsFlow DEF OSTimeDlyResume
<1>7. ASSUME NEW prio \in Prio, OSTaskSuspend(prio)
      PROVE  \A t \in Task : CtlKept(t)
  BY <1>7, CallKeepsFlow DEF OSTaskSuspend
<1>8. ASSUME NEW prio \in Prio, OSTaskResume(prio)
      PROVE  \A t \in Task : CtlKept(t)
  <2> DEFINE freed == /\ OSTCBStat[OSTCBPrioTbl[prio]] \cap OS_STAT_PEND_ANY = {}
                      /\ OSTCBDly[OSTCBPrioTbl[prio]] = 0
  <2>1. Call("OSTaskResume") /\ Returns(freed)
    BY <1>8 DEF OSTaskResume
  <2>2. freed \in BOOLEAN
    OBVIOUS
  <2> HIDE DEF freed
  <2> QED BY <2>1, <2>2, CallKeepsFlow
<1> QED BY <1>1, <1>2, <1>3, <1>4, <1>5, <1>6, <1>7, <1>8 DEF TickOrSwitch, CoreNext

LEMMA QuietKeepsFlow ==
  ASSUME IInv, FlowQuiet
  PROVE  \A t \in Task : FlowKept(t)
<1>1. CASE UNCHANGED flowVars
  BY <1>1 DEF flowVars, CtlKept, FlowKept
<1>2. ASSUME NEW place \in MsgPlaces, NEW arg \in Args, Moves(place, arg)
      PROVE  \A t \in Task : FlowKept(t)
  BY <1>2, GoToFacts DEF Moves, CtlKept, FlowKept
<1> QED BY <1>1, <1>2 DEF FlowQuiet

\* A task that takes a new priority keeps its places on the lists.
LEMMA ReprioTasks ==
  ASSUME IInv, NEW old \in Prio, NEW new \in Prio, NEW s \in Task, Reprio(s, old, new)
  PROVE  \A t \in Task : Stays(t)
<1>1. /\ TcbTypeOK /\ ReadyTypeOK /\ Null \notin Task
      /\ OSEventWait \in [Event -> SUBSET Prio]
  BY Types
<1>2. /\ OSTCBPrioTbl[new] = Null /\ OSTCBPrio[s] = old /\ old # new
      /\ OSTCBPrio' = [OSTCBPrio EXCEPT ![s] = new]
      /\ OSRdy' = IF old \in OSRdy THEN (OSRdy \ {old}) \cup {new} ELSE OSRdy
      /\ OSEventWait' = ListsMoved(s, new)
      /\ \A u \in Task \ {s} : OSTCBPrio[u] # old /\ OSTCBPrio[u] # new
      /\ UNCHANGED <<OSTCBStat, OSTCBStatPend, OSTCBDly, OSTCBEventPtr, msgVars>>
      /\ Call("OSTaskChangePrio") /\ Returns(TRUE)
  BY DEF Reprio
<1>3. \A e \in Event : OSEventWait'[e] = IF e \in Awaited(s)
                                           THEN (OSEventWait[e] \ {old}) \cup {new}
                                           ELSE OSEventWait[e]
  BY <1>2 DEF ListsMoved, Awaited
<1>4. new \notin OSRdy /\ \A e \in Event : new \notin OSEventWait[e]
  BY <1>1, <1>2 DEF IInv, RdySound, ListsNamed
<1>5. \A t \in Task : OSTCBPrio'[t] = IF t = s THEN new ELSE OSTCBPrio[t]
  BY <1>1, <1>2 DEF TcbTypeOK
<1>6. ASSUME NEW t \in Task, NEW e \in Event
      PROVE  Listed(t, e)' <=> Listed(t, e)
  <2>1. OSTCBPrio[t] \in OSEventWait[e] <=> e \in Awaited(t)
    BY DEF IInv, OnAwaitedLists
  <2>2. CASE t = s
    BY <1>2, <1>3, <1>4, <1>5, <2>1, <2>2 DEF Listed
  <2>3. CASE t # s
    <3>1. OSTCBPrio'[t] = OSTCBPrio[t] /\ OSTCBPrio[t] # old /\ OSTCBPrio[t] # new
      BY <1>2, <1>5, <2>3
    <3>2. OSTCBPrio[t] \in OSEventWait'[e] <=> OSTCBPrio[t] \in OSEventWait[e]
      BY <1>3, <3>1
    <3> QED BY <3>1, <3>2 DEF Listed
  <2> QED BY <2>2, <2>3
<1>7. \A t \in Task : WaitKept(t)
  BY <1>2, <1>6 DEF WaitKept, msgVars, multiVars
<1>8. \A t \in Task : Ready(t)' <=> Ready(t)
  BY <1>2, <1>4, <1>5 DEF Ready
<1>9. \A t \in Task : Unmoved(t)
  BY <1>2, <1>8 DEF Unmoved
<1>10. \A t \in Task : FlowKept(t)
  BY <1>2, CallKeepsFlow DEF FlowKept
<1> QED BY <1>7, <1>9, <1>10 DEF Stays

LEMMA WaitTasks ==
  ASSUME IInv, NEW S \in SUBSET Event, Waits(S)
  PROVE  \A t \in Task : TaskCase(t)
<1>1. /\ TcbTypeOK /\ ReadyTypeOK /\ PrioTblSound /\ OSTCBCur \in Task
      /\ OSEventWait \in [Event -> SUBSET Prio]
      /\ OSTCBEventMultiPtr \in [Task -> PendArrays \cup {<<>>}]
      /\ OSTCBEventMultiRdy \in [Task -> Event \cup {Null}]
  BY Types
<1>2. \A s, t \in Task : OSTCBPrio[s] = OSTCBPrio[t] => s = t
  BY <1>1, PriosDistinct
<1>3. PICK u \in Task : u = OSTCBCur
  BY <1>1
<1>4. PICK timeout \in 0 .. MaxDly : OSTCBDly' = [OSTCBDly EXCEPT ![u] = timeout]
  BY <1>3 DEF Waits
<1>5. PICK bits \in SUBSET {"Q", "MBOX", "MULTI"} :
        /\ bits \cap {"Q", "MBOX"} # {}
        /\ OSTCBStat' = [OSTCBStat EXCEPT ![u] = @ \cup bits]
        /\ pevent[u] \in Event => pevent[u] \in S /\ bits = {OSEventType[pevent[u]]}
  BY <1>3 DEF Waits
<1>6. /\ pc[u] \in PendSections /\ S # {}
      /\ \A e \in S : e \in Event /\ OSEventType[e] \in {"Q", "MBOX"}
      /\ OSTCBStatPend' = [OSTCBStatPend EXCEPT ![u] = "OK"]
      /\ OSEventWait' = [e \in Event |-> IF e \in S THEN OSEventWait[e] \cup {OSTCBPrio[u]}
                                                    ELSE OSEventWait[e]]
      /\ OSRdy' = OSRdy \ {OSTCBPrio[u]} /\ OSTCBPrio' = OSTCBPrio
      /\ GoTo("OSPend_Sched", pevent[OSTCBCur])
  BY <1>3 DEF Waits
<1>7. \/ /\ pevent[u] \in Event /\ S = {pevent[u]}
         /\ OSTCBEventPtr' = [OSTCBEventPtr EXCEPT ![u] = pevent[u]]
         /\ OSTCBEventMultiPtr' = OSTCBEventMultiPtr
         /\ OSTCBEventMultiRdy' = OSTCBEventMultiRdy
      \/ /\ pevent[u] \in PendArrays /\ S = Range(pevent[u])
         /\ OSTCBEventMultiPtr' = [OSTCBEventMultiPtr EXCEPT ![u] = pevent[u]]
         /\ OSTCBEventMultiRdy' = [OSTCBEventMultiRdy EXCEPT ![u] = Null]
         /\ OSTCBEventPtr' = OSTCBEventPtr
  BY <1>3 DEF Waits, multiVars
<1>8. Awaited(u) = {} /\ OSTCBEventPtr[u] = Null /\ OSTCBEventMultiPtr[u] = <<>>
  BY <1>6, OutsidePend DEF PendSections, PendPlaces
<1>9. \A e \in Event : ~Listed(u, e)
  BY <1>8 DEF IInv, OnAwaitedLists, Listed
<1>10. Begins(u)
  <2>1. OSTCBDly'[u] \in 0 .. MaxDly /\ OSTCBStatPend'[u] = "OK"
        /\ OSTCBStat'[u] = OSTCBStat[u] \cup bits
    BY <1>1, <1>4, <1>5, <1>6 DEF TcbTypeOK
  <2>2. \A e \in Event : Listed(u, e)' <=> e \in S
    BY <1>1, <1>6, <1>9 DEF Listed
  <2>3. ~Ready(u)'
    BY <1>6 DEF Ready
  <2>4. pc'[u] = "OSPend_Sched" /\ pevent'[u] = pevent[u]
    BY <1>3, <1>6, GoToFacts
  <2>5. \/ /\ pevent[u] \in Event /\ S = {pevent[u]}
           /\ OSTCBEventPtr'[u] = pevent[u] /\ OSTCBEventMultiPtr'[u] = <<>>
        \/ /\ pevent[u] \in PendArrays /\ S = Range(pevent[u])
           /\ OSTCBEventPtr'[u] = Null /\ OSTCBEventMultiPtr'[u] = pevent[u]
           /\ OSTCBEventMultiRdy'[u] = Null
    BY <1>1, <1>7, <1>8 DEF TcbTypeOK
  <2>6. BeginsFor(u, S)
    BY <1>5, <1>6, <1>8, <2>1, <2>2, <2>3, <2>4, <2>5 DEF BeginsFor
  <2> QED BY <2>6 DEF Begins
<1>11. ASSUME NEW t \in Task \ {u} PROVE Stays(t)
  <2>1. OSTCBPrio[t] # OSTCBPrio[u]
    BY <1>2
  <2>2. Unmoved(t)
    BY <1>1, <1>4, <1>5, <1>6, <2>1 DEF Unmoved, Ready, TcbTypeOK
  <2>3. \A e \in Event : Listed(t, e)' <=> Listed(t, e)
    BY <1>1, <1>6, <2>1 DEF Listed
  <2>4. /\ OSTCBEventPtr'[t] = OSTCBEventPtr[t]
        /\ OSTCBEventMultiPtr'[t] = OSTCBEventMultiPtr[t]
        /\ OSTCBEventMultiRdy'[t] = OSTCBEventMultiRdy[t]
    BY <1>1, <1>7 DEF TcbTypeOK
  <2>5. FlowKept(t)
    BY <1>3, <1>6, GoToFacts DEF CtlKept, FlowKept
  <2> QED BY <2>2, <2>3, <2>4, <2>5 DEF Stays, WaitKept
<1> QED BY <1>10, <1>11 DEF TaskCase

LEMMA BackTasks ==
  ASSUME IInv, ComesBack
  PROVE  \A t \in Task : TaskCase(t)
<1>1. /\ TcbTypeOK /\ ReadyTypeOK /\ PrioTblSound /\ OSTCBCur \in Task
      /\ OSTCBEventMultiPtr \in [Task -> PendArrays \cup {<<>>}]
      /\ OSTCBEventMultiRdy \in [Task -> Event \cup {Null}]
  BY Types
<1>2. \A s, t \in Task : OSTCBPrio[s] = OSTCBPrio[t] => s = t
  BY <1>1, PriosDistinct
<1>3. PICK u \in Task : u = OSTCBCur
  BY <1>1
<1>4. /\ OSTCBPrio[u] \in OSRdy
      /\ \A e \in Event : /\ OSTCBPrio[u] \notin OSEventWait'[e]
                          /\ OSEventWait'[e] \subseteq OSEventWait[e]
                          /\ OSEventWait[e] \subseteq OSEventWait'[e] \cup {OSTCBPrio[u]}
      /\ OSTCBStat' = [OSTCBStat EXCEPT ![u] = {}]
      /\ OSTCBStatPend' = [OSTCBStatPend EXCEPT ![u] = "OK"]
      /\ OSTCBEventPtr' = [OSTCBEventPtr EXCEPT ![u] = Null]
      /\ OSTCBEventMultiPtr' = [OSTCBEventMultiPtr EXCEPT ![u] = <<>>]
      /\ OSTCBEventMultiRdy' = [OSTCBEventMultiRdy EXCEPT ![u] = Null]
      /\ GoTo("app", Null)
      /\ OSTCBPrio' = OSTCBPrio /\ OSTCBDly' = OSTCBDly /\ OSRdy' = OSRdy
  BY <1>3 DEF ComesBack, readyVars
<1>5. Ends(u)
  BY <1>1, <1>3, <1>4, GoToFacts DEF Ends, Ready, Listed, TcbTypeOK
<1>6. ASSUME NEW t \in Task \ {u} PROVE Stays(t)
  <2>1. OSTCBPrio[t] # OSTCBPrio[u]
    BY <1>2
  <2>2. Unmoved(t)
    BY <1>1, <1>4 DEF Unmoved, Ready, TcbTypeOK
  <2>3. \A e \in Event : Listed(t, e)' <=> Listed(t, e)
    BY <1>4, <2>1 DEF Listed
  <2>4. WaitKept(t)
    BY <1>1, <1>4, <2>3 DEF TcbTypeOK, WaitKept
  <2>5. FlowKept(t)
    BY <1>3, <1>4, GoToFacts DEF CtlKept, FlowKept
  <2> QED BY <2>2, <2>4, <2>5 DEF Stays
<1> QED BY <1>5, <1>6 DEF TaskCase

LEMMA WakeTasks ==
  ASSUME IInv, NEW e \in Event, NEW T \in SUBSET Task, Wakes(e, T)
  PROVE  \A t \in Task : TaskCase(t) /\ (t \in T => Readied(t)) /\ (t \notin T => Stays(t))
<1>1. /\ TcbTypeOK /\ ReadyTypeOK /\ PrioTblSound
      /\ OSTCBEventMultiPtr \in [Task -> PendArrays \cup {<<>>}]
      /\ OSTCBEventMultiRdy \in [Task -> Event \cup {Null}]
  BY Types
<1>2. \A s, t \in Task : OSTCBPrio[s] = OSTCBPrio[t] => s = t
  BY <1>1, PriosDistinct
<1>3. \A t \in Task : FlowKept(t)
  BY QuietKeepsFlow DEF Wakes
<1>4. PICK ps \in {"OK", "ABORT"} :
        OSTCBStatPend' = [t \in Task |-> IF t \in T THEN ps ELSE OSTCBStatPend[t]]
  BY DEF Wakes, Woken
<1>5. /\ \A t \in T : e \in Awaited(t)
      /\ OSTCBDly' = [t \in Task |-> IF t \in T THEN 0 ELSE OSTCBDly[t]]
      /\ OSTCBStat' = [t \in Task |-> IF t \in T THEN OSTCBStat[t] \ {OSEventType[e]}
                                                 ELSE OSTCBStat[t]]
      /\ OSTCBEventPtr' = [t \in Task |-> IF t \in T THEN Null ELSE OSTCBEventPtr[t]]
      /\ OSEventWait' = [f \in Event |->
                           OSEventWait[f] \ {OSTCBPrio[t] : t \in {u \in T : f \in Awaited(u)}}]
      /\ OSTCBEventMultiPtr' = [t \in Task |-> IF t \in T THEN <<>> ELSE OSTCBEventMultiPtr[t]]
      /\ OSTCBEventMultiRdy' = [t \in Task |-> IF t \in T /\ OSTCBEventMultiPtr[t] # <<>>
                                                 THEN e ELSE OSTCBEventMultiRdy[t]]
      /\ OSRdy' = OSRdy \cup ReadyPrios(T)
      /\ OSTCBPrio' = OSTCBPrio
  BY DEF Wakes, Woken
<1>6. ASSUME NEW t \in Task
      PROVE  OSTCBPrio[t] \in ReadyPrios(T) <=> t \in T /\ "SUSPEND" \notin OSTCBStat[t]
  BY <1>2 DEF ReadyPrios
<1>7. ASSUME NEW t \in T PROVE Readied(t)
  <2>1. ASSUME NEW f \in Event PROVE ~Listed(t, f)'
    <3>1. OSTCBPrio[t] \in OSEventWait[f] <=> f \in Awaited(t)
      BY DEF IInv, OnAwaitedLists
    <3> QED BY <1>5, <3>1 DEF Listed
  <2>2. Ready(t)' <=> Ready(t) \/ "SUSPEND" \notin OSTCBStat[t]
    BY <1>5, <1>6 DEF Ready
  <2>3. ReadiedBy(t, e)
    BY <1>3, <1>4, <1>5, <2>1, <2>2 DEF ReadiedBy
  <2> QED BY <2>3 DEF Readied
<1>8. ASSUME NEW t \in Task \ T PROVE Stays(t)
  <2>1. Unmoved(t)
    BY <1>4, <1>5, <1>6 DEF Unmoved, Ready
  <2>2. \A f \in Event : Listed(t, f)' <=> Listed(t, f)
    BY <1>2, <1>5 DEF Listed
  <2> QED BY <1>3, <1>5, <2>1, <2>2 DEF Stays, WaitKept
<1> QED BY <1>7, <1>8 DEF TaskCase

\* Every step does one of these to each task.
LEMMA TaskCases ==
  ASSUME IInv, Disciplined, [Next]_vars
  PROVE  \A t \in Task : TaskCase(t)
<1>1. ASSUME UNCHANGED <<OSTCBPrio, OSTCBEventPtr, OSEventWait, multiVars>>
      PROVE  \A t \in Task : WaitKept(t)
  BY <1>1 DEF WaitKept, Listed, multiVars
<1>2. ASSUME UNCHANGED <<tcbVars, OSRdy>>
      PROVE  \A t \in Task : Unmoved(t)
  BY <1>2 DEF Unmoved, Ready, tcbVars
<1>3. CASE UNCHANGED vars
  <2>1. \A t \in Task : FlowKept(t)
    BY <1>3 DEF vars, coreVars, flowVars, CtlKept, FlowKept
  <2> QED BY <1>1, <1>2, <1>3, <2>1
      DEF vars, coreVars, tcbVars, eventVars, readyVars, msgVars, Stays, TaskCase
<1>4. CASE Control
  <2>1. \A t \in Task : WaitKept(t) /\ FlowKept(t)
    BY <1>1, <1>4, ControlTasks, ControlKeepsFlow DEF ListsKept, FlowKept
  <2>2. CASE UNCHANGED <<tcbVars, OSRdy>>
    BY <1>2, <2>1, <2>2 DEF Stays, TaskCase
  <2>3. ASSUME NEW u \in Task, OneChanges(u) PROVE \A t \in Task : TaskCase(t)
    BY <2>1, <2>3 DEF OneChanges, Stays, TaskCase
  <2> QED BY <1>4, <2>2, <2>3, ControlTasks
<1>5. CASE \E oldprio, newprio \in Prio : OSTaskChangePrio_Multi(oldprio, newprio)
  BY <1>5, ChangeFacts, ReprioTasks DEF TaskCase
<1>6. CASE StillStep \/ CreateStep
  <2>1. TasksSame /\ FlowQuiet
    BY <1>6 DEF StillStep, CreateStep, Quiet
  <2>2. \A t \in Task : FlowKept(t)
    BY <2>1, QuietKeepsFlow
  <2> QED BY <1>1, <1>2, <2>1, <2>2 DEF TasksSame, tcbVars, readyVars, Stays, TaskCase
<1>7. CASE WaitStep
  BY <1>7, WaitTasks DEF WaitStep
<1>8. CASE BackStep
  BY <1>8, BackTasks DEF BackStep
<1>9. CASE WakeStep \/ DeleteStep
  BY <1>9, WakeTasks DEF WakeStep, DeleteStep
<1> QED BY <1>3, <1>4, <1>5, <1>6, <1>7, <1>8, <1>9, Effects DEF ServiceStep

-----------------------------------------------------------------------------
(* The tasks after a step.                                                 *)

\* What t waits for afterwards.
LEMMA AwaitedStep ==
  ASSUME IInv, NEW t \in Task, TaskCase(t)
  PROVE  /\ WaitKept(t) => Awaited(t)' = Awaited(t)
         /\ Ends(t) \/ Readied(t) => Awaited(t)' = {}
         /\ \A S \in SUBSET Event : BeginsFor(t, S) => Awaited(t)' = S
<1>1. Range(<<>>) = {}
  BY DEF Range
<1>2. WaitKept(t) => Awaited(t)' = Awaited(t)
  BY DEF WaitKept, Awaited
<1>3. Ends(t) \/ Readied(t) => Awaited(t)' = {}
  BY <1>1 DEF Ends, Readied, ReadiedBy, Awaited
<1>4. \A S \in SUBSET Event : BeginsFor(t, S) => Awaited(t)' = S
  BY <1>1, Types DEF BeginsFor, Awaited
<1> QED BY <1>2, <1>3, <1>4

\* A task is on the lists of the events it waits for.
LEMMA ListsStep ==
  ASSUME IInv, Disciplined, [Next]_vars
  PROVE  OnAwaitedLists'
<1> SUFFICES ASSUME NEW t \in Task, NEW e \in Event
             PROVE  Listed(t, e)' <=> e \in Awaited(t)'
  BY DEF OnAwaitedLists, Listed
<1>1. Listed(t, e) <=> e \in Awaited(t)
  BY DEF IInv, OnAwaitedLists, Listed
<1>2. TaskCase(t)
  BY TaskCases
<1>3. CASE Stays(t)
  BY <1>1, <1>2, <1>3, AwaitedStep DEF Stays, WaitKept
<1>4. CASE Begins(t)
  BY <1>2, <1>4, AwaitedStep DEF Begins, BeginsFor
<1>5. CASE Ends(t) \/ Readied(t)
  BY <1>2, <1>5, AwaitedStep DEF Ends, Readied, ReadiedBy
<1> QED BY <1>2, <1>3, <1>4, <1>5 DEF TaskCase

\* What a task that waits has become.
LEMMA PendStep ==
  ASSUME IInv, Disciplined, [Next]_vars
  PROVE  PendSound'
<1> SUFFICES ASSUME NEW t \in Task PROVE PendAt(t)'
  BY DEF PendSound
<1>1. PendAt(t) /\ TaskCase(t)
  BY TaskCases DEF IInv, PendSound
<1>2. /\ OSTCBStat[t] \in SUBSET OS_STAT /\ OSTCBStatPend[t] \in {"OK", "TO", "ABORT"}
      /\ Null \notin Event
  BY Types DEF TcbTypeOK
<1>3. CASE Ends(t) \/ Readied(t)
  <2>1. Awaited(t)' = {} /\ OSTCBEventPtr'[t] = Null /\ OSTCBEventMultiPtr'[t] = <<>>
    BY <1>1, <1>3, AwaitedStep DEF Ends, Readied, ReadiedBy
  <2> QED BY <2>1 DEF PendAt
<1>4. CASE Begins(t)
  <2>1. PICK S \in SUBSET Event : BeginsFor(t, S)
    BY <1>4 DEF Begins
  <2>2. pc'[t] \in PendPlaces /\ OSTCBStatPend'[t] = "OK"
        /\ OSTCBStat'[t] \cap {"Q", "MBOX"} # {}
    BY <2>1 DEF BeginsFor, PendPlaces
  <2>3. \A a \in PendArrays : a # <<>>
    BY ArrayFacts
  <2> QED BY <1>2, <2>1, <2>2, <2>3 DEF BeginsFor, PendAt
<1>5. CASE Stays(t)
  <2>1. /\ Awaited(t)' = Awaited(t)
        /\ OSTCBEventPtr'[t] = OSTCBEventPtr[t]
        /\ OSTCBEventMultiPtr'[t] = OSTCBEventMultiPtr[t]
        /\ OSTCBEventMultiRdy'[t] = OSTCBEventMultiRdy[t]
        /\ FlowKept(t)
    BY <1>1, <1>5, AwaitedStep DEF Stays, WaitKept
  <2>2. CASE Awaited(t) = {}
    <3>1. OSTCBEventPtr[t] = Null /\ OSTCBEventMultiPtr[t] = <<>>
      BY <2>2, AwaitedFacts
    <3> QED BY <2>1, <2>2, <3>1 DEF PendAt
  <2>3. CASE Awaited(t) # {}
    <3>1. pc'[t] \in PendPlaces /\ pevent'[t] = pevent[t]
      BY <1>1, <2>1, <2>3 DEF CtlKept, FlowKept, PendAt, PendPlaces
    <3>2. /\ OSTCBStatPend'[t] # "ABORT"
          /\ OSTCBStatPend'[t] = "OK" => OSTCBStat'[t] \cap {"Q", "MBOX"} # {}
          /\ OSTCBStatPend'[t] = "TO" => OSTCBDly'[t] = 0
      <4>1. CASE Unmoved(t)
        BY <1>1, <2>3, <4>1 DEF PendAt, Unmoved
      <4>2. CASE Expires(t)
        BY <1>1, <1>2, <2>3, <4>2 DEF PendAt, Expires, OS_STAT_PEND_ANY
      <4>3. CASE CountsDown(t)
        BY <1>1, <2>3, <4>3 DEF PendAt, CountsDown
      <4>4. CASE Delays(t)
        BY <2>3, <4>4 DEF Delays
      <4>5. CASE Suspends(t) \/ Resumes(t)
        BY <1>1, <2>3, <4>5 DEF PendAt, Suspends, Resumes
      <4> QED BY <1>5, <4>1, <4>2, <4>3, <4>4, <4>5 DEF Stays
    <3> QED BY <1>1, <2>1, <2>3, <3>1, <3>2 DEF PendAt
  <2> QED BY <2>2, <2>3
<1> QED BY <1>1, <1>3, <1>4, <1>5 DEF TaskCase

\* The priorities on the ready list and on the wait lists are those of tasks.
LEMMA NamedStep ==
  ASSUME IInv, Disciplined, [Next]_vars
  PROVE  ListsNamed' /\ \A p \in OSRdy' : OSTCBPrioTbl'[p] \in Task
<1>1. /\ TcbTypeOK /\ ReadyTypeOK /\ PrioTblSound /\ OSTCBCur \in Task
      /\ OSEventWait \in [Event -> SUBSET Prio] /\ Null \notin Task
  BY Types
<1>2. /\ \A p \in OSRdy : OSTCBPrioTbl[p] \in Task
      /\ \A e \in Event : \A p \in OSEventWait[e] : OSTCBPrioTbl[p] \in Task
  BY DEF IInv, RdySound, ListsNamed
<1>3. ASSUME OSTCBPrioTbl' = OSTCBPrioTbl, NEW T \in SUBSET Task,
             OSRdy' \subseteq OSRdy \cup {OSTCBPrio[t] : t \in T},
             \A e \in Event : OSEventWait'[e] \subseteq OSEventWait[e] \cup {OSTCBPrio[OSTCBCur]}
      PROVE  ListsNamed' /\ \A p \in OSRdy' : OSTCBPrioTbl'[p] \in Task
  BY <1>1, <1>2, <1>3 DEF ListsNamed, PrioTblSound
<1>4. ASSUME OSTCBPrioTbl' = OSTCBPrioTbl, OSRdy' \subseteq OSRdy,
             \A e \in Event : OSEventWait'[e] \subseteq OSEventWait[e] \cup {OSTCBPrio[OSTCBCur]}
      PROVE  ListsNamed' /\ \A p \in OSRdy' : OSTCBPrioTbl'[p] \in Task
  BY <1>1, <1>2, <1>4 DEF ListsNamed, PrioTblSound
<1>5. CASE UNCHANGED vars
  BY <1>4, <1>5 DEF vars, coreVars, readyVars, eventVars
<1>6. CASE Control
  <2>1. OSTCBPrioTbl' = OSTCBPrioTbl /\ OSEventWait' = OSEventWait
    BY <1>6, ControlTasks DEF ListsKept
  <2>2. CASE UNCHANGED <<tcbVars, OSRdy>>
    BY <1>4, <2>1, <2>2
  <2>3. ASSUME NEW u \in Task, OneChanges(u)
        PROVE  ListsNamed' /\ \A p \in OSRdy' : OSTCBPrioTbl'[p] \in Task
    <3>1. OSRdy' \subseteq OSRdy \cup {OSTCBPrio[t] : t \in {u}}
      BY <2>3 DEF OneChanges
    <3> QED BY <1>3, <2>1, <3>1
  <2> QED BY <1>6, <2>2, <2>3, ControlTasks
<1>7. CASE \E old, new \in Prio : OSTaskChangePrio_Multi(old, new)
  <2>1. PICK old \in Prio, new \in Prio : OSTaskChangePrio_Multi(old, new)
    BY <1>7
  <2>2. PICK t \in Task : Reprio(t, old, new)
    BY <2>1, ChangeFacts
  <2>3. \A p \in Prio \ {old} : OSTCBPrioTbl'[p] = IF p = new THEN t ELSE OSTCBPrioTbl[p]
    BY <1>1, <2>2 DEF Reprio, ReadyTypeOK
  <2>4. \A p \in OSRdy' : p \in Prio \ {old} /\ (p = new \/ p \in OSRdy)
    BY <1>1, <2>2 DEF Reprio, ReadyTypeOK
  <2>5. ASSUME NEW e \in Event, NEW p \in OSEventWait'[e]
        PROVE  p \in Prio \ {old} /\ (p = new \/ p \in OSEventWait[e])
    <3>1. OSEventWait'[e] = IF e \in Awaited(t) THEN (OSEventWait[e] \ {old}) \cup {new}
                                                ELSE OSEventWait[e]
      BY <2>2 DEF Reprio, ListsMoved, Awaited
    <3>2. e \notin Awaited(t) => old \notin OSEventWait[e]
      BY <2>2 DEF Reprio, IInv, OnAwaitedLists
    <3>3. OSEventWait[e] \subseteq Prio /\ new # old
      BY <1>1, <2>2 DEF Reprio
    <3> QED BY <2>5, <3>1, <3>2, <3>3
  <2> QED BY <1>2, <2>3, <2>4, <2>5 DEF ListsNamed
<1>8. CASE ServiceStep
  <2>1. OSTCBPrioTbl' = OSTCBPrioTbl
    BY <1>8, ServiceFrame
  <2>2. CASE StillStep \/ CreateStep
    BY <1>4, <2>1, <2>2 DEF StillStep, CreateStep, Quiet, TasksSame, readyVars
  <2>3. CASE WaitStep
    BY <1>4, <2>1, <2>3 DEF WaitStep, Waits
  <2>4. CASE BackStep
    BY <1>4, <2>1, <2>4 DEF BackStep, ComesBack, readyVars
  <2>5. ASSUME NEW e \in Event, NEW T \in SUBSET Task, Woken(e, T)
        PROVE  ListsNamed' /\ \A p \in OSRdy' : OSTCBPrioTbl'[p] \in Task
    <3>1. OSRdy' \subseteq OSRdy \cup {OSTCBPrio[t] : t \in T}
      BY <2>5 DEF Woken, ReadyPrios
    <3>2. \A f \in Event : OSEventWait'[f] \subseteq OSEventWait[f]
      BY <2>5 DEF Woken
    <3> QED BY <1>3, <2>1, <3>1, <3>2
  <2>6. CASE WakeStep \/ DeleteStep
    BY <2>5, <2>6 DEF WakeStep, DeleteStep, Wakes
  <2> QED BY <1>8, <2>2, <2>3, <2>4, <2>6 DEF ServiceStep
<1> QED BY <1>5, <1>6, <1>7, <1>8, Effects

\* No task on the ready list is suspended, delayed or waiting.
LEMMA RdyStep ==
  ASSUME IInv, Disciplined, [Next]_vars
  PROVE  RdySound'
<1> SUFFICES ASSUME NEW t \in Task, Ready(t)'
             PROVE  "SUSPEND" \notin OSTCBStat'[t] /\ OSTCBDly'[t] = 0 /\ Done(t)'
  BY NamedStep DEF RdySound, Ready
<1>1. /\ Ready(t) => "SUSPEND" \notin OSTCBStat[t] /\ OSTCBDly[t] = 0 /\ Done(t)
      /\ PendAt(t) /\ TaskCase(t)
  BY TaskCases DEF IInv, RdySound, PendSound, Ready
<1>2. /\ OSTCBStat[t] \in SUBSET OS_STAT /\ OSTCBStatPend[t] \in {"OK", "TO", "ABORT"}
  BY Types DEF TcbTypeOK
<1>3. CASE Ends(t)
  BY <1>1, <1>3, AwaitedStep DEF Ends, Done
<1>4. CASE Readied(t)
  <2>1. Awaited(t)' = {}
    BY <1>1, <1>4, AwaitedStep
  <2> QED BY <1>1, <1>4, <2>1 DEF Readied, ReadiedBy, Done
<1>5. CASE Begins(t)
  BY <1>5 DEF Begins, BeginsFor
<1>6. CASE Stays(t)
  <2>1. Awaited(t)' = Awaited(t)
    BY <1>1, <1>6, AwaitedStep DEF Stays
  <2>2. CASE Unmoved(t)
    BY <1>1, <2>1, <2>2 DEF Unmoved, Done
  <2>3. CASE Expires(t)
    <3>1. ~Ready(t)
      BY <1>1, <2>3 DEF Expires
    <3>2. Awaited(t) # {} => OSTCBStatPend'[t] = "TO"
      BY <1>1, <1>2, <2>3 DEF Expires, PendAt, OS_STAT_PEND_ANY
    <3> QED BY <2>1, <2>3, <3>1, <3>2 DEF Expires, Done
  <2>4. CASE CountsDown(t)
    BY <1>1, <2>4 DEF CountsDown
  <2>5. CASE Delays(t) \/ Suspends(t)
    BY <2>5 DEF Delays, Suspends
  <2>6. CASE Resumes(t)
    <3>1. ~Ready(t)
      BY <1>1, <2>6 DEF Resumes
    <3>2. OSTCBStat[t] \cap OS_STAT_PEND_ANY = {} /\ OSTCBDly[t] = 0
      BY <2>6, <3>1 DEF Resumes
    <3>3. Done(t)
      BY <1>1, <1>2, <3>2 DEF PendAt, Done, OS_STAT_PEND_ANY
    <3> QED BY <2>1, <2>6, <3>2, <3>3 DEF Resumes, Done
  <2> QED BY <1>6, <2>2, <2>3, <2>4, <2>5, <2>6 DEF Stays
<1> QED BY <1>1, <1>3, <1>4, <1>5, <1>6 DEF TaskCase

\* An object that is being created is unused, and nobody waits for it.
LEMMA HeldIsUnused ==
  ASSUME IInv, NEW e \in Event,
         \/ pc[OSTCBCur] \in CreateSections /\ pevent[OSTCBCur] = e
         \/ \E b \in QBlock : pc[OSTCBCur] = "OSQCreate" /\ pevent[OSTCBCur] = <<e, b>>
  PROVE  /\ Holds(OSTCBCur, e) /\ OSEventType[e] = "UNUSED"
         /\ OSEventWait[e] = {} /\ \A t \in Task : e \notin Awaited(t)
<1>1. OSTCBCur \in Task
  BY Types
<1>2. \A b \in QBlock : <<e, b>> \notin Event /\ <<e, b>>[1] = e
  BY MsgAssumption DEF MsgAssumption
<1>3. Holds(OSTCBCur, e)
  BY <1>2 DEF Holds, CreateSections
<1>4. OSEventType[e] = "UNUSED"
  BY <1>1, <1>3 DEF IInv, EventChain
<1>5. OSEventWait[e] = {}
  BY <1>4 DEF IInv, EventSound
<1>6. \A t \in Task : e \notin Awaited(t)
  BY <1>5 DEF IInv, OnAwaitedLists
<1> QED BY <1>3, <1>4, <1>5, <1>6

\* What a task waits for after a step is what it was before.
LEMMA AwaitedTypes ==
  ASSUME IInv, Disciplined, [Next]_vars, NEW t \in Task, NEW f \in Event, f \in Awaited(t)'
  PROVE  OSEventType'[f] = OSEventType[f]
<1>1. OSEventType \in [Event -> {"UNUSED", "Q", "MBOX"}]
  BY Types
<1>2. CASE UNCHANGED vars
  BY <1>2 DEF vars, coreVars, eventVars
<1>3. CASE Control
  BY <1>3, ControlTasks DEF ListsKept
<1>4. CASE \E old, new \in Prio : OSTaskChangePrio_Multi(old, new)
  BY <1>4 DEF OSTaskChangePrio_Multi
<1>5. CASE StillStep \/ WakeStep
  BY <1>5 DEF StillStep, WakeStep, Kept, Traffic
<1>6. CASE WaitStep \/ BackStep
  BY <1>6 DEF WaitStep, BackStep, SameObjects
<1>7. CASE CreateStep
  <2>1. Awaited(t)' = Awaited(t)
    BY <1>7 DEF CreateStep, Quiet, TasksSame, Awaited, tcbVars, multiVars
  <2>2. ASSUME NEW e \in Event, NEW b \in QBlock, MakesQueue(e, b)
        PROVE  OSEventType'[f] = OSEventType[f]
    <3>1. f # e
      BY <2>1, <2>2, HeldIsUnused DEF MakesQueue
    <3> QED BY <1>1, <2>2, <3>1 DEF MakesQueue
  <2>3. ASSUME NEW e \in Event, MakesMbox(e)
        PROVE  OSEventType'[f] = OSEventType[f]
    <3>1. f # e
      BY <2>1, <2>3, HeldIsUnused DEF MakesMbox, CreateSections
    <3> QED BY <1>1, <2>3, <3>1 DEF MakesMbox
  <2> QED BY <1>7, <2>2, <2>3 DEF CreateStep, Creates, TakesEvent, ReturnsEvent, TakesBlock
<1>8. CASE DeleteStep
  <2>1. PICK e \in Event, T \in SUBSET Task : Wakes(e, T) /\ Deletes(e) /\ TakesAll(e, T)
    BY <1>8 DEF DeleteStep
  <2>2. TaskCase(t) /\ (t \in T => Readied(t)) /\ (t \notin T => Stays(t))
    BY <2>1, WakeTasks
  <2>3. t \notin T /\ Awaited(t)' = Awaited(t)
    BY <2>2, AwaitedStep DEF Stays
  <2>4. f # e
    BY <2>1, <2>3 DEF TakesAll
  <2> QED BY <1>1, <2>1, <2>4 DEF Deletes
<1> QED BY <1>2, <1>3, <1>4, <1>5, <1>6, <1>7, <1>8, Effects DEF ServiceStep

\* No suspension, no SUSPEND bit.
LEMMA NoSuspendStep ==
  ASSUME IInv, Disciplined, [Next]_vars, NoSuspension, NEW t \in Task
  PROVE  "SUSPEND" \notin OSTCBStat'[t]
<1>1. "SUSPEND" \notin OSTCBStat[t] /\ TaskCase(t)
  BY TaskCases DEF IInv, WakeSound
<1> QED
  BY <1>1
  DEF TaskCase, Stays, Unmoved, Expires, CountsDown, Delays, Suspends, Resumes, Begins,
      BeginsFor, Ends, Readied, ReadiedBy

\* Without multi-pends a task has the status bit of the event it waits for and
\* no other.
LEMMA NoMultiStep ==
  ASSUME IInv, Disciplined, [Next]_vars, NoMulti, NEW t \in Task
  PROVE  /\ pc'[t] # "OSEventPendMulti" /\ OSTCBEventMultiPtr'[t] = <<>>
         /\ OSTCBStat'[t] \cap OS_STAT_PEND_ANY \subseteq
              IF Done(t)' THEN {} ELSE {OSEventType'[OSTCBEventPtr'[t]]}
<1>1. /\ pc[t] # "OSEventPendMulti" /\ OSTCBEventMultiPtr[t] = <<>>
      /\ OSTCBStat[t] \cap OS_STAT_PEND_ANY \subseteq
            IF Done(t) THEN {} ELSE {OSEventType[OSTCBEventPtr[t]]}
      /\ PendAt(t) /\ CallAt(t) /\ TaskCase(t)
  BY TaskCases DEF IInv, WakeSound, PendSound, CallSound
<1>2. /\ OSTCBStat[t] \in SUBSET OS_STAT /\ OSTCBStatPend[t] \in {"OK", "TO", "ABORT"}
      /\ OSTCBEventPtr[t] \in Event \cup {Null} /\ Null \notin Event
  BY Types DEF TcbTypeOK
<1>3. "OSEventPendMulti" \notin TaskCalls[t] /\ "OSEventPendMulti" \notin PendPlaces
  BY DEF NoMulti, PendPlaces
<1>4. ASSUME FlowKept(t) PROVE pc'[t] # "OSEventPendMulti"
  BY <1>1, <1>3, <1>4 DEF CtlKept, FlowKept, Fits
<1>5. CASE Ends(t)
  BY <1>5 DEF Ends
<1>6. CASE Readied(t)
  <2>1. PICK e \in Event : ReadiedBy(t, e)
    BY <1>6 DEF Readied
  <2>2. OSTCBEventPtr[t] = e
    BY <1>1, <2>1, AwaitedFacts DEF ReadiedBy
  <2>3. OSTCBStat'[t] \cap OS_STAT_PEND_ANY = {}
    BY <1>1, <2>1, <2>2 DEF ReadiedBy
  <2> QED BY <1>4, <2>1, <2>3 DEF ReadiedBy
<1>7. CASE Begins(t)
  <2>1. PICK S \in SUBSET Event : BeginsFor(t, S)
    BY <1>7 DEF Begins
  <2>2. pc[t] \in Sections
    BY <1>1, <2>1, ServiceFacts DEF BeginsFor, PendSections
  <2>3. pevent[t] \in Event
    BY <1>1, <2>2 DEF CallAt
  <2>4. /\ OSTCBEventPtr'[t] = pevent[t] /\ OSTCBEventMultiPtr'[t] = <<>>
        /\ pc'[t] = "OSPend_Sched"
    BY <2>1, <2>3, ArrayFacts DEF BeginsFor
  <2>5. Awaited(t)' = S /\ S # {} /\ OSTCBStatPend'[t] = "OK" /\ pevent[t] \in S
    BY <1>1, <2>1, <2>3, AwaitedStep DEF BeginsFor
  <2>6. ~Done(t)'
    BY <2>5 DEF Done
  <2>7. OSEventType'[pevent[t]] = OSEventType[pevent[t]]
    BY <2>3, <2>5, AwaitedTypes
  <2>8. Done(t)
    BY <2>1 DEF BeginsFor, Done
  <2>9. OSTCBStat'[t] = OSTCBStat[t] \cup {OSEventType[pevent[t]]}
    BY <2>1, <2>3 DEF BeginsFor
  <2> QED BY <1>1, <2>4, <2>6, <2>7, <2>8, <2>9
<1>8. CASE Stays(t)
  <2>1. /\ Awaited(t)' = Awaited(t) /\ OSTCBEventPtr'[t] = OSTCBEventPtr[t]
        /\ OSTCBEventMultiPtr'[t] = <<>> /\ pc'[t] # "OSEventPendMulti"
    BY <1>1, <1>4, <1>8, AwaitedStep DEF Stays, WaitKept
  <2>2. ~Done(t) => OSTCBEventPtr[t] \in Event /\ OSTCBEventPtr[t] \in Awaited(t)
    BY <1>1, <1>2, AwaitedFacts DEF Done
  <2>3. ~Done(t) => OSEventType'[OSTCBEventPtr[t]] = OSEventType[OSTCBEventPtr[t]]
    BY <2>1, <2>2, AwaitedTypes
  <2>4. CASE Unmoved(t) \/ CountsDown(t) \/ Delays(t) \/ Suspends(t) \/ Resumes(t)
    <3>1. /\ OSTCBStat'[t] \cap OS_STAT_PEND_ANY = OSTCBStat[t] \cap OS_STAT_PEND_ANY
          /\ OSTCBStatPend'[t] = OSTCBStatPend[t]
      BY <2>4 DEF Unmoved, CountsDown, Delays, Suspends, Resumes, OS_STAT_PEND_ANY
    <3>2. Done(t)' <=> Done(t)
      BY <2>1, <3>1 DEF Done
    <3> QED BY <1>1, <2>1, <2>3, <3>1, <3>2
  <2>5. CASE Expires(t)
    BY <2>1, <2>5 DEF Expires
  <2> QED BY <1>8, <2>4, <2>5 DEF Stays
<1> QED BY <1>1, <1>5, <1>6, <1>7, <1>8 DEF TaskCase

\* And a task that nothing keeps off the ready list is on it.
LEMMA ReadyStep ==
  ASSUME IInv, Disciplined, [Next]_vars, NoSuspension \/ NoMulti, NEW t \in Task,
         "SUSPEND" \notin OSTCBStat'[t], OSTCBDly'[t] = 0, Done(t)'
  PROVE  Ready(t)'
<1>1. /\ "SUSPEND" \notin OSTCBStat[t] /\ OSTCBDly[t] = 0 /\ Done(t) => Ready(t)
      /\ TaskCase(t)
      /\ NoSuspension => "SUSPEND" \notin OSTCBStat[t]
      /\ NoMulti => OSTCBStat[t] \cap OS_STAT_PEND_ANY \subseteq
                      IF Done(t) THEN {} ELSE {OSEventType[OSTCBEventPtr[t]]}
  BY TaskCases DEF IInv, WakeSound, Ready
<1>2. CASE Ends(t)
  BY <1>2 DEF Ends
<1>3. CASE Readied(t)
  <2>1. PICK e \in Event : ReadiedBy(t, e)
    BY <1>3 DEF Readied
  <2>2. OSEventType[e] # "SUSPEND"
    BY Types
  <2> QED BY <2>1, <2>2 DEF ReadiedBy
<1>4. CASE Begins(t)
  <2>1. PICK S \in SUBSET Event : BeginsFor(t, S)
    BY <1>4 DEF Begins
  <2>2. Awaited(t)' # {} /\ OSTCBStatPend'[t] = "OK"
    BY <1>1, <2>1, AwaitedStep DEF BeginsFor
  <2> QED BY <2>2 DEF Done
<1>5. CASE Stays(t)
  <2>1. Awaited(t)' = Awaited(t)
    BY <1>1, <1>5, AwaitedStep DEF Stays
  <2>2. CASE Unmoved(t)
    BY <1>1, <2>1, <2>2 DEF Unmoved, Done
  <2>3. CASE Expires(t)
    BY <2>3 DEF Expires, OS_STAT_PEND_ANY
  <2>4. CASE CountsDown(t) \/ Delays(t) \/ Suspends(t)
    BY <2>4 DEF CountsDown, Delays, Suspends
  <2>5. CASE Resumes(t)
    <3>1. NoMulti /\ Done(t) /\ OSTCBDly[t] = 0
      BY <1>1, <2>1, <2>5 DEF Resumes, Done
    <3> QED BY <1>1, <2>5, <3>1 DEF Resumes
  <2> QED BY <1>5, <2>2, <2>3, <2>4, <2>5 DEF Stays
<1> QED BY <1>1, <1>2, <1>3, <1>4, <1>5 DEF TaskCase

LEMMA WakeSoundStep ==
  ASSUME IInv, Disciplined, [Next]_vars
  PROVE  WakeSound'
BY NoSuspendStep, NoMultiStep, ReadyStep DEF WakeSound, Ready

-----------------------------------------------------------------------------
(* The types after a step.                                                 *)

LEMMA FrameTypes ==
  /\ TcbTypeOK /\ UNCHANGED tcbVars => TcbTypeOK'
  /\ ReadyTypeOK /\ UNCHANGED readyVars => ReadyTypeOK'
  /\ SwitchTypeOK /\ UNCHANGED switchVars => SwitchTypeOK'
  /\ NestTypeOK /\ UNCHANGED nestVars => NestTypeOK'
  /\ TickTypeOK /\ UNCHANGED tickVars => TickTypeOK'
BY DEF TcbTypeOK, tcbVars, ReadyTypeOK, readyVars, SwitchTypeOK, switchVars, NestTypeOK,
       nestVars, TickTypeOK, tickVars

\* The processor.
LEMMA SwitchTypes ==
  ASSUME IInv, Disciplined, [Next]_vars
  PROVE  SwitchTypeOK' /\ NestTypeOK'
<1>1. SwitchTypeOK /\ NestTypeOK /\ ReadyTypeOK
  BY Types
<1>2. ASSUME OS_SchedNew PROVE SwitchTypeOK'
  BY <1>1, <1>2, SchedNewFacts DEF SwitchTypeOK, ReadyTypeOK
<1>3. CASE OS_Sched
  BY <1>1, <1>2, <1>3, FrameTypes DEF OS_Sched
<1>4. CASE PendSV_Handler
  BY <1>1, <1>4, FrameTypes DEF PendSV_Handler, SwitchTypeOK
<1>5. CASE OSSchedLock \/ OSSchedUnlock
  <2>1. NestTypeOK'
    BY <1>1, <1>5, CoreAssumption DEF OSSchedLock, OSSchedUnlock, NestTypeOK, CoreAssumption
  <2> QED BY <1>1, <1>5, <2>1, FrameTypes DEF OSSchedLock, OSSchedUnlock
<1>6. CASE OSIntEnter
  <2>1. NestTypeOK'
    BY <1>1, <1>6, CoreAssumption DEF OSIntEnter, NestTypeOK, CoreAssumption
  <2> QED BY <1>1, <1>6, <2>1, FrameTypes DEF OSIntEnter
<1>7. CASE OSIntExit
  <2>1. NestTypeOK'
    BY <1>1, <1>7, CoreAssumption DEF OSIntExit, InIsr, NestTypeOK, CoreAssumption
  <2> QED BY <1>1, <1>2, <1>7, <2>1, FrameTypes DEF OSIntExit
<1>8. CASE Inert \/ TaskMove
  BY <1>1, <1>8, FrameTypes DEF Inert, TaskMove
<1>9. CASE UNCHANGED vars
  BY <1>1, <1>9, FrameTypes DEF vars, coreVars
<1> QED BY <1>3, <1>4, <1>5, <1>6, <1>7, <1>8, <1>9, Flow

\* Where the tasks stand.
LEMMA FlowTypes ==
  ASSUME IInv, Disciplined, [Next]_vars
  PROVE  pc' \in [Task -> MsgPlaces] /\ pevent' \in [Task -> Args]
<1>1. OSTCBCur \in Task /\ pc \in [Task -> MsgPlaces] /\ pevent \in [Task -> Args]
  BY Types
<1>2. ASSUME NEW place \in MsgPlaces, NEW arg \in Args, GoTo(place, arg)
      PROVE  pc' \in [Task -> MsgPlaces] /\ pevent' \in [Task -> Args]
  BY <1>1, <1>2 DEF GoTo
<1>3. {"app", "OS_Sched", "OSPend_Tail"} \subseteq MsgPlaces /\ Null \in Args
  BY DEF MsgPlaces, SchedPlaces, PendPlaces, Args
<1>4. CASE OS_Sched
  <2>1. pevent[OSTCBCur] \in Args
    BY <1>1
  <2> QED BY <1>2, <1>3, <1>4, <2>1, SchedGoes DEF SchedPlaces
<1>5. CASE OSSchedUnlock
  BY <1>2, <1>3, <1>5, UnlockGoes
<1>6. CASE TaskMove
  BY <1>2, <1>6 DEF TaskMove
<1>7. ASSUME UNCHANGED flowVars
      PROVE  pc' \in [Task -> MsgPlaces] /\ pevent' \in [Task -> Args]
  BY <1>1, <1>7 DEF flowVars
<1> QED
  BY <1>4, <1>5, <1>6, <1>7, Flow
  DEF PendSV_Handler, OSSchedLock, OSIntEnter, OSIntExit, Inert, vars, coreVars

\* The control blocks of tasks and the ready list.
LEMMA DlyEndsTypes ==
  ASSUME IInv, NEW t \in Task, DlyEnds(t)
  PROVE  TcbTypeOK' /\ OSRdy' \subseteq Prio
<1>1. TcbTypeOK /\ ReadyTypeOK
  BY Types
<1>2. TcbTypeOK'
  BY <1>1, CoreAssumption DEF CoreAssumption, DlyEnds, TcbTypeOK
<1>3. OSRdy' \subseteq Prio
  BY <1>1 DEF DlyEnds, MakeReady, ReadyPrios, ReadyTypeOK, TcbTypeOK
<1> QED BY <1>2, <1>3

LEMMA ControlTypes ==
  ASSUME IInv, Control
  PROVE  TcbTypeOK' /\ OSRdy' \subseteq Prio /\ TickTypeOK'
<1>1. /\ TcbTypeOK /\ ReadyTypeOK /\ TickTypeOK /\ NestTypeOK /\ TickSound /\ MaxDly \in Nat
      /\ OSTCBCur \in Task
  BY Types, CoreAssumption DEF IInv, CoreAssumption
<1>2. CASE \/ OS_Sched \/ PendSV_Handler \/ OSSchedLock \/ OSSchedUnlock \/ OSIntEnter
           \/ OSIntExit
  BY <1>1, <1>2, FrameTypes
  DEF OS_Sched, PendSV_Handler, OSSchedLock, OSSchedUnlock, OSIntEnter, OSIntExit, readyVars,
      ReadyTypeOK
<1>3. CASE OSTimeTick
  <2>1. TickTypeOK'
    BY <1>1, <1>3, CoreAssumption DEF CoreAssumption, OSTimeTick, TickTypeOK, NestTypeOK
  <2> QED BY <1>1, <1>3, <2>1, FrameTypes DEF OSTimeTick, readyVars, ReadyTypeOK
<1>4. CASE OSTimeTick_Step
  <2>1. PICK t \in Task : t = Head(ptcb)
    BY <1>1, <1>4, HeadTailProperties DEF OSTimeTick_Step, TickTypeOK, TickSound
  <2>2. Tail(ptcb) \in Seq(Task \ {Idle})
    BY <1>1, <1>4, HeadTailProperties DEF OSTimeTick_Step, TickTypeOK, TickSound
  <2>3. TickTypeOK'
    BY <1>1, <1>4, <2>2, CoreAssumption DEF CoreAssumption, OSTimeTick_Step, TickTypeOK
  <2>4. CASE OSTCBDly[t] = 1
    BY <1>4, <2>1, <2>3, <2>4, DlyEndsTypes DEF OSTimeTick_Step
  <2>5. CASE OSTCBDly[t] # 1
    <3>1. OSTCBDly[t] \in 0 .. MaxDly
      BY <1>1 DEF TcbTypeOK
    <3>2. (IF OSTCBDly[t] = 0 THEN 0 ELSE OSTCBDly[t] - 1) \in 0 .. MaxDly
      BY <1>1, <3>1
    <3>3. OSTCBDly' \in [Task -> 0 .. MaxDly]
      BY <1>1, <1>4, <2>1, <2>5, <3>2 DEF OSTimeTick_Step, TcbTypeOK
    <3> QED BY <1>1, <1>4, <2>1, <2>3, <2>5, <3>3 DEF OSTimeTick_Step, TcbTypeOK, ReadyTypeOK
  <2> QED BY <2>4, <2>5
<1>5. ASSUME NEW ticks \in 1 .. MaxDly, OSTimeDly(ticks)
      PROVE  TcbTypeOK' /\ OSRdy' \subseteq Prio /\ TickTypeOK'
  <2>1. ticks \in 0 .. MaxDly
    BY <1>1
  <2>2. OSTCBDly' \in [Task -> 0 .. MaxDly]
    BY <1>1, <1>5, <2>1 DEF OSTimeDly, TcbTypeOK
  <2> QED BY <1>1, <1>5, <2>2, FrameTypes DEF OSTimeDly, TcbTypeOK, ReadyTypeOK
<1>6. ASSUME NEW prio \in Prio, OSTimeDlyResume(prio)
      PROVE  TcbTypeOK' /\ OSRdy' \subseteq Prio /\ TickTypeOK'
  BY <1>1, <1>6, DlyEndsTypes, FrameTypes DEF OSTimeDlyResume, NamesTask
<1>7. ASSUME NEW prio \in Prio, OSTaskSuspend(prio) \/ OSTaskResume(prio)
      PROVE  TcbTypeOK' /\ OSRdy' \subseteq Prio /\ TickTypeOK'
  <2>1. TcbTypeOK' /\ UNCHANGED tickVars
    BY <1>1, <1>7 DEF OSTaskSuspend, OSTaskResume, NamesTask, TcbTypeOK, OS_STAT
  <2>2. OSRdy' \subseteq Prio
    BY <1>1, <1>7 DEF OSTaskSuspend, OSTaskResume, NamesTask, TcbTypeOK, ReadyTypeOK
  <2> QED BY <1>1, <2>1, <2>2, FrameTypes
<1> QED
  BY <1>2, <1>3, <1>4, <1>5, <1>6, <1>7 DEF Control, TickOrSwitch, CoreNext

TaskTypes ==
  /\ TcbTypeOK /\ ReadyTypeOK /\ TickTypeOK
  /\ OSEventWait \in [Event -> SUBSET Prio]
  /\ OSTCBMsg \in [Task -> Message]
  /\ OSTCBEventMultiPtr \in [Task -> PendArrays \cup {<<>>}]
  /\ OSTCBEventMultiRdy \in [Task -> Event \cup {Null}]

LEMMA WaitTypes ==
  ASSUME IInv, NEW S \in SUBSET Event, Waits(S)
  PROVE  TaskTypes'
<1>1. TaskTypes /\ OSTCBCur \in Task /\ MaxDly \in Nat
  BY Types, CoreAssumption DEF IInv, TypeOK, TaskTypes, CoreAssumption
<1>2. PICK timeout \in 0 .. MaxDly : OSTCBDly' = [OSTCBDly EXCEPT ![OSTCBCur] = timeout]
  BY DEF Waits
<1>3. PICK bits \in SUBSET {"Q", "MBOX", "MULTI"} :
        OSTCBStat' = [OSTCBStat EXCEPT ![OSTCBCur] = @ \cup bits]
  BY DEF Waits
<1>4. OSTCBDly' \in [Task -> 0 .. MaxDly] /\ OSTCBStat' \in [Task -> SUBSET OS_STAT]
  BY <1>1, <1>2, <1>3 DEF TaskTypes, TcbTypeOK, OS_STAT, OS_STAT_PEND_ANY
<1>5. /\ OSTCBEventPtr' \in [Task -> Event \cup {Null}]
      /\ OSTCBEventMultiPtr' \in [Task -> PendArrays \cup {<<>>}]
      /\ OSTCBEventMultiRdy' \in [Task -> Event \cup {Null}]
  BY <1>1 DEF Waits, TaskTypes, TcbTypeOK, multiVars
<1>6. /\ OSTCBStatPend' \in [Task -> {"OK", "TO", "ABORT"}]
      /\ OSTCBPrio' = OSTCBPrio /\ OSTCBPrioTbl' = OSTCBPrioTbl /\ OSTCBMsg' = OSTCBMsg
      /\ UNCHANGED tickVars
  BY <1>1 DEF Waits, TaskTypes, TcbTypeOK
<1>7. OSRdy' \subseteq Prio
  BY <1>1 DEF Waits, TaskTypes, ReadyTypeOK
<1>8. OSTCBPrio[OSTCBCur] \in Prio
  BY <1>1 DEF TaskTypes, TcbTypeOK
<1>9. OSEventWait' \in [Event -> SUBSET Prio]
  BY <1>1, <1>8 DEF Waits, TaskTypes
<1> QED
  BY <1>1, <1>4, <1>5, <1>6, <1>7, <1>9, FrameTypes DEF TaskTypes, TcbTypeOK, ReadyTypeOK

LEMMA WokenTypes ==
  ASSUME IInv, NEW e \in Event, NEW T \in SUBSET Task, Woken(e, T)
  PROVE  TaskTypes'
<1>1. TaskTypes /\ MaxDly \in Nat
  BY Types, CoreAssumption DEF IInv, TypeOK, TaskTypes, CoreAssumption
<1>2. PICK ps \in {"OK", "ABORT"} :
        OSTCBStatPend' = [t \in Task |-> IF t \in T THEN ps ELSE OSTCBStatPend[t]]
  BY DEF Woken
<1>3. PICK pmsg \in Message : OSTCBMsg' = [t \in Task |-> IF t \in T THEN pmsg ELSE OSTCBMsg[t]]
  BY DEF Woken
<1>4. TcbTypeOK'
  BY <1>1, <1>2 DEF Woken, TaskTypes, TcbTypeOK
<1>5. ReadyTypeOK'
  BY <1>1 DEF Woken, TaskTypes, TcbTypeOK, ReadyTypeOK, ReadyPrios
<1>6. /\ OSTCBMsg' \in [Task -> Message]
      /\ OSTCBEventMultiPtr' \in [Task -> PendArrays \cup {<<>>}]
      /\ OSTCBEventMultiRdy' \in [Task -> Event \cup {Null}]
      /\ OSEventWait' \in [Event -> SUBSET Prio]
  BY <1>1, <1>3 DEF Woken, TaskTypes
<1>7. TickTypeOK'
  BY <1>1, FrameTypes DEF Woken, TaskTypes
<1> QED BY <1>4, <1>5, <1>6, <1>7 DEF TaskTypes

LEMMA TaskTypesStep ==
  ASSUME IInv, Disciplined, [Next]_vars
  PROVE  TaskTypes'
<1>1. TaskTypes /\ OSTCBCur \in Task /\ Null \in Message
  BY Types DEF IInv, TypeOK, TaskTypes, Message
<1>2. CASE UNCHANGED vars
  BY <1>1, <1>2, FrameTypes DEF vars, coreVars, eventVars, msgVars, multiVars, TaskTypes
<1>3. CASE Control
  <2>1. ListsKept /\ UNCHANGED msgVars
    BY <1>3, ControlTasks DEF Control
  <2> QED BY <1>1, <1>3, <2>1, ControlTypes
      DEF ListsKept, msgVars, multiVars, TaskTypes, ReadyTypeOK
<1>4. CASE \E old, new \in Prio : OSTaskChangePrio_Multi(old, new)
  <2>1. PICK old \in Prio, new \in Prio : OSTaskChangePrio_Multi(old, new)
    BY <1>4
  <2>2. PICK t \in Task : Reprio(t, old, new)
    BY <2>1, ChangeFacts
  <2>3. TcbTypeOK'
    BY <1>1, <2>2 DEF Reprio, TaskTypes, TcbTypeOK
  <2>4. ReadyTypeOK'
    BY <1>1, <2>2 DEF Reprio, TaskTypes, ReadyTypeOK
  <2>5. OSEventWait' \in [Event -> SUBSET Prio]
    BY <1>1, <2>2 DEF Reprio, ListsMoved, TaskTypes
  <2>6. UNCHANGED <<msgVars, tickVars>>
    BY <2>2 DEF Reprio
  <2> QED BY <1>1, <2>3, <2>4, <2>5, <2>6, FrameTypes DEF msgVars, multiVars, TaskTypes
<1>5. CASE StillStep \/ CreateStep
  BY <1>1, <1>5, FrameTypes DEF StillStep, CreateStep, Quiet, TasksSame, multiVars, TaskTypes
<1>6. CASE WaitStep
  BY <1>6, WaitTypes DEF WaitStep
<1>7. CASE BackStep
  <2>1. TcbTypeOK'
    BY <1>1, <1>7 DEF BackStep, ComesBack, TaskTypes, TcbTypeOK
  <2>2. /\ OSTCBMsg' \in [Task -> Message]
        /\ OSTCBEventMultiPtr' \in [Task -> PendArrays \cup {<<>>}]
        /\ OSTCBEventMultiRdy' \in [Task -> Event \cup {Null}]
        /\ OSEventWait' \in [Event -> SUBSET Prio]
    BY <1>1, <1>7 DEF BackStep, ComesBack, TaskTypes
  <2> QED BY <1>1, <1>7, <2>1, <2>2, FrameTypes DEF BackStep, ComesBack, TaskTypes
<1>8. CASE WakeStep \/ DeleteStep
  BY <1>8, WokenTypes DEF WakeStep, DeleteStep, Wakes
<1> QED BY <1>2, <1>3, <1>4, <1>5, <1>6, <1>7, <1>8, Effects DEF ServiceStep

-----------------------------------------------------------------------------
(* The objects after a step.                                               *)

\* Messages come and go, or an object is created or deleted.
LEMMA Objects ==
  ASSUME IInv, Disciplined, [Next]_vars
  PROVE  Kept \/ Creates \/ \E e \in Event : Deletes(e)
<1>1. ASSUME \A t \in Task : CtlKept(t) PROVE KeepsHolds
  BY <1>1 DEF CtlKept, KeepsHolds, CreateSections
<1>2. ASSUME NEW place, NEW arg, GoTo(place, arg), place \notin CreateSections,
             pc[OSTCBCur] \notin CreateSections
      PROVE  KeepsHolds
  BY <1>2, GoToFacts DEF KeepsHolds
<1>3. CASE UNCHANGED vars
  <2>1. SameObjects /\ KeepsHolds
    BY <1>3 DEF vars, coreVars, eventVars, msgVars, flowVars, SameObjects, KeepsHolds
  <2> QED BY <2>1, SameIsTraffic DEF Kept
<1>4. CASE Control
  <2>1. UNCHANGED msgVars /\ TickOrSwitch
    BY <1>4 DEF Control
  <2>2. UNCHANGED eventVars
    BY <2>1
    DEF TickOrSwitch, CoreNext, OS_Sched, PendSV_Handler, OSSchedLock, OSSchedUnlock,
        OSIntEnter, OSIntExit, OSTimeTick, OSTimeTick_Step, OSTimeDly, OSTimeDlyResume,
        OSTaskSuspend, OSTaskResume
  <2>3. SameObjects
    BY <2>1, <2>2 DEF SameObjects, msgVars, eventVars
  <2> QED BY <1>1, <1>4, <2>3, SameIsTraffic, ControlKeepsFlow DEF Kept
<1>5. CASE \E old, new \in Prio : OSTaskChangePrio_Multi(old, new)
  <2>1. SameObjects /\ Call("OSTaskChangePrio") /\ Returns(TRUE)
    BY <1>5 DEF OSTaskChangePrio_Multi, SameObjects, msgVars
  <2> QED BY <1>1, <2>1, SameIsTraffic, CallKeepsFlow DEF Kept
<1>6. CASE WaitStep
  <2>1. /\ SameObjects /\ pc[OSTCBCur] \in PendSections
        /\ GoTo("OSPend_Sched", pevent[OSTCBCur])
    BY <1>6 DEF WaitStep, Waits
  <2>2. KeepsHolds
    BY <1>2, <2>1 DEF PendSections, CreateSections
  <2> QED BY <2>1, <2>2, SameIsTraffic DEF Kept
<1>7. CASE BackStep
  <2>1. SameObjects /\ pc[OSTCBCur] = "OSPend_Tail" /\ GoTo("app", Null)
    BY <1>7 DEF BackStep, ComesBack, InTask
  <2>2. KeepsHolds
    BY <1>2, <2>1 DEF CreateSections
  <2> QED BY <2>1, <2>2, SameIsTraffic DEF Kept
<1>8. CASE StillStep \/ CreateStep \/ WakeStep \/ DeleteStep
  BY <1>8 DEF StillStep, CreateStep, WakeStep, DeleteStep
<1> QED BY <1>3, <1>4, <1>5, <1>6, <1>7, <1>8, Effects DEF ServiceStep

\* The types of the objects' variables.
ObjectTypes ==
  /\ OSEventType \in [Event -> {"UNUSED", "Q", "MBOX"}]
  /\ OSEventPtr \in [Event -> Event \cup QBlock \cup Message]
  /\ OSEventFreeList \in Event \cup {Null}
  /\ OSQTbl \in [QBlock -> OS_Q]
  /\ OSQFreeList \in QBlock \cup {Null}

LEMMA ChainTypes ==
  ASSUME IInv
  PROVE  /\ ObjectTypes
         /\ OSEventFreeList \in Event => OSEventPtr[OSEventFreeList] \in Event \cup {Null}
         /\ OSQFreeList \in QBlock => OSQTbl[OSQFreeList].OSQPtr \in QBlock \cup {Null}
<1>1. ObjectTypes /\ Null \notin Event
  BY Types DEF ObjectTypes
<1>2. OSEventFreeList \in Event => OSEventPtr[OSEventFreeList] \in Event \cup {Null}
  BY <1>1 DEF IInv, EventChain
<1>3. OSQFreeList \in QBlock => OSQTbl[OSQFreeList].OSQPtr \in QBlock \cup {Null}
  BY <1>1 DEF ObjectTypes, OS_Q
<1> QED BY <1>1, <1>2, <1>3

\* An empty ring.
LEMMA RingIsEmpty ==
  ASSUME NEW size \in QSizes, NEW ptr \in QBlock \cup {Null}
  PROVE  Ring(size, ptr) \in OS_Q /\ RingAt(Ring(size, ptr)) /\ Ring(size, ptr).OSQPtr = ptr
<1>1. size \in Nat /\ Null \in Message
  BY MsgAssumption DEF MsgAssumption, Message
<1>2. Ring(size, ptr) \in OS_Q /\ Ring(size, ptr).OSQPtr = ptr
  BY <1>1 DEF Ring, OS_Q
<1>3. RingAt(Ring(size, ptr))
  BY <1>1 DEF Ring, RingAt
<1> QED BY <1>2, <1>3

\* A block with another successor.
LEMMA Relinked ==
  ASSUME NEW q \in OS_Q, NEW ptr \in QBlock \cup {Null}, NEW r, r = [q EXCEPT !.OSQPtr = ptr]
  PROVE  r \in OS_Q /\ r.OSQPtr = ptr /\ (RingAt(q) => RingAt(r))
<1>1. r \in OS_Q
  BY DEF OS_Q
<1>2. /\ r.OSQPtr = ptr /\ r.OSQIn = q.OSQIn /\ r.OSQOut = q.OSQOut
      /\ r.OSQSize = q.OSQSize /\ r.OSQEntries = q.OSQEntries
  BY DEF OS_Q
<1> QED BY <1>1, <1>2 DEF RingAt

\* The ring of a queue that is made, and that of one that is deleted.
LEMMA MakesQueueTbl ==
  ASSUME IInv, NEW e \in Event, NEW b \in QBlock, MakesQueue(e, b)
  PROVE  /\ OSQTbl' \in [QBlock -> OS_Q] /\ RingAt(OSQTbl'[b])
         /\ \A c \in QBlock : OSQTbl'[c].OSQPtr = OSQTbl[c].OSQPtr
                              /\ (c # b => OSQTbl'[c] = OSQTbl[c])
<1>1. OSQTbl \in [QBlock -> OS_Q] /\ OSQTbl[b].OSQPtr \in QBlock \cup {Null}
  BY Types, OS_QFacts
<1>2. PICK size \in QSizes : OSQTbl' = [OSQTbl EXCEPT ![b] = Ring(size, OSQTbl[b].OSQPtr)]
  BY DEF MakesQueue
<1> QED BY <1>1, <1>2, RingIsEmpty

LEMMA DeletesTbl ==
  ASSUME IInv, NEW e \in Event, Deletes(e), OSEventType[e] = "Q",
         NEW b, b = OSEventPtr[e]
  PROVE  /\ b \in QBlock /\ OSQFreeList' = b
         /\ OSQTbl' \in [QBlock -> OS_Q] /\ OSQTbl'[b].OSQPtr = OSQFreeList
         /\ RingAt(OSQTbl'[b])
         /\ \A c \in QBlock \ {b} : OSQTbl'[c] = OSQTbl[c]
<1>1. OSQTbl \in [QBlock -> OS_Q] /\ OSQFreeList \in QBlock \cup {Null}
  BY Types
<1>2. b \in QBlock /\ RingAt(OSQTbl[b])
  BY DEF IInv, EventSound, Rings
<1>3. /\ OSQTbl' = [OSQTbl EXCEPT ![b] = [OSQTbl[b] EXCEPT !.OSQPtr = OSQFreeList]]
      /\ OSQFreeList' = b
  BY <1>1, <1>2 DEF Deletes
<1>4. PICK r : r = [OSQTbl[b] EXCEPT !.OSQPtr = OSQFreeList]
  OBVIOUS
<1>5. r \in OS_Q /\ r.OSQPtr = OSQFreeList /\ RingAt(r)
  BY <1>1, <1>2, <1>4, Relinked
<1> QED BY <1>1, <1>2, <1>3, <1>4, <1>5

LEMMA ObjectTypesStep ==
  ASSUME IInv, Disciplined, [Next]_vars
  PROVE  ObjectTypes' /\ Rings'
<1>1. /\ ObjectTypes /\ Rings
      /\ OSEventFreeList \in Event => OSEventPtr[OSEventFreeList] \in Event \cup {Null}
      /\ OSQFreeList \in QBlock => OSQTbl[OSQFreeList].OSQPtr \in QBlock \cup {Null}
  BY ChainTypes DEF IInv
<1>2. CASE Kept
  BY <1>1, <1>2 DEF Kept, Traffic, ObjectTypes, Rings
<1>3. ASSUME NEW place \in CreateSections, NEW e \in Event, TakesEvent(place, e)
      PROVE  ObjectTypes' /\ Rings'
  BY <1>1, <1>3 DEF TakesEvent, qVars, ObjectTypes, Rings
<1>4. ASSUME NEW e \in Event, ReturnsEvent(e)
      PROVE  ObjectTypes' /\ Rings'
  BY <1>1, <1>4 DEF ReturnsEvent, qVars, ObjectTypes, Rings, Message
<1>5. ASSUME NEW e \in Event, MakesMbox(e)
      PROVE  ObjectTypes' /\ Rings'
  BY <1>1, <1>5 DEF MakesMbox, qVars, ObjectTypes, Rings
<1>6. ASSUME NEW e \in Event, NEW b \in QBlock, TakesBlock(e, b)
      PROVE  ObjectTypes' /\ Rings'
  BY <1>1, <1>6 DEF TakesBlock, ObjectTypes, Rings
<1>7. ASSUME NEW e \in Event, NEW b \in QBlock, MakesQueue(e, b)
      PROVE  ObjectTypes' /\ Rings'
  <2>1. /\ OSEventType' = [OSEventType EXCEPT ![e] = "Q"]
        /\ OSEventPtr' = [OSEventPtr EXCEPT ![e] = b]
        /\ UNCHANGED <<OSEventFreeList, OSQFreeList>>
    BY <1>7 DEF MakesQueue
  <2>2. Rings'
    BY <1>1, <1>7, MakesQueueTbl DEF Rings
  <2> QED BY <1>1, <1>7, <2>1, <2>2, MakesQueueTbl DEF ObjectTypes
<1>8. ASSUME NEW e \in Event, Deletes(e)
      PROVE  ObjectTypes' /\ Rings'
  <2>1. /\ OSEventType' = [OSEventType EXCEPT ![e] = "UNUSED"]
        /\ OSEventPtr' = [OSEventPtr EXCEPT ![e] = OSEventFreeList]
        /\ OSEventFreeList' = e
    BY <1>8 DEF Deletes
  <2>2. CASE OSEventType[e] = "Q"
    <3>1. PICK b \in QBlock : b = OSEventPtr[e]
      BY <2>2 DEF IInv, EventSound
    <3>2. /\ OSQFreeList' = b /\ OSQTbl' \in [QBlock -> OS_Q] /\ RingAt(OSQTbl'[b])
          /\ \A c \in QBlock \ {b} : OSQTbl'[c] = OSQTbl[c]
      BY <1>8, <2>2, <3>1, DeletesTbl
    <3> QED BY <1>1, <2>1, <3>2 DEF ObjectTypes, Rings, Message
  <2>3. CASE OSEventType[e] # "Q"
    <3>1. UNCHANGED qVars
      BY <1>8, <2>3 DEF Deletes
    <3> QED BY <1>1, <2>1, <3>1 DEF qVars, ObjectTypes, Rings, Message
  <2> QED BY <2>2, <2>3
<1> QED BY <1>2, <1>3, <1>4, <1>5, <1>6, <1>7, <1>8, Objects DEF Creates

\* TypeOK and the wider types.
LEMMA TypeStep ==
  ASSUME IInv, Disciplined, [Next]_vars
  PROVE  TypeOK' /\ WideTypeOK'
<1>1. /\ TaskTypes' /\ ObjectTypes' /\ Rings' /\ SwitchTypeOK' /\ NestTypeOK'
      /\ pc' \in [Task -> MsgPlaces] /\ pevent' \in [Task -> Args]
  BY TaskTypesStep, ObjectTypesStep, SwitchTypes, FlowTypes
<1>2. ASSUME NEW q \in OS_Q, RingAt(q)
      PROVE  q.OSQSize \in QSizes /\ q.OSQEntries \in 0 .. q.OSQSize
  <2>1. q.OSQSize \in QSizes
    BY DEF OS_Q
  <2> QED BY <1>2, <2>1, OS_QFacts DEF RingAt
<1>3. \A b \in QBlock : OSQTbl'[b] \in OS_Q /\ RingAt(OSQTbl'[b])
  BY <1>1 DEF ObjectTypes, Rings
<1>4. \A b \in QBlock :
        OSQTbl'[b].OSQSize \in QSizes /\ OSQTbl'[b].OSQEntries \in 0 .. OSQTbl'[b].OSQSize
  BY <1>2, <1>3
<1>5. WideTypeOK'
  BY <1>1 DEF WideTypeOK, ObjectTypes
<1>6. TypeOK'
  BY <1>1, <1>4 DEF TypeOK, TaskTypes, ObjectTypes
<1> QED BY <1>5, <1>6

-----------------------------------------------------------------------------
(* Calls and wait lists after a step.                                      *)

\* Where a task stands in a step that creates or deletes no object.
LEMMA KeptCalls ==
  ASSUME IInv, NEW t \in Task, TaskCase(t), OSEventType' = OSEventType
  PROVE  CallAt(t)'
<1>1. CallAt(t)
  BY DEF IInv, CallSound
<1>2. ASSUME FlowKept(t) PROVE CallAt(t)'
  <2>1. CASE pc'[t] = pc[t] /\ pevent'[t] = pevent[t]
    BY <1>1, <2>1 DEF CallAt
  <2>2. CASE pc[t] = "OSPend_Sched" /\ pc'[t] = "OSPend_Tail" /\ pevent'[t] = pevent[t]
    BY <1>1, <2>2, ServiceFacts DEF CallAt, PendPlaces
  <2>3. CASE pc'[t] \in {"app", "OS_Sched"}
    BY <2>3, ServiceFacts DEF CallAt, PendPlaces, SchedPlaces
  <2>4. CASE Fits(pc'[t], pevent'[t])
    BY <2>4 DEF CallAt, Fits
  <2> QED BY <1>2, <2>1, <2>2, <2>3, <2>4 DEF FlowKept, CtlKept
<1>3. CASE Stays(t) \/ Readied(t)
  BY <1>2, <1>3 DEF Stays, Readied, ReadiedBy
<1>4. CASE Begins(t)
  <2>1. pc'[t] = "OSPend_Sched" /\ pevent'[t] \in Event \cup PendArrays
    BY <1>4 DEF Begins, BeginsFor
  <2> QED BY <2>1, ServiceFacts DEF CallAt, SchedPlaces, PendPlaces
<1>5. CASE Ends(t)
  BY <1>5, ServiceFacts DEF Ends, CallAt, PendPlaces
<1> QED BY <1>3, <1>4, <1>5 DEF TaskCase

\* Nobody else moves when the running task creates or deletes.
LEMMA OthersCalls ==
  ASSUME IInv, NEW place, NEW arg, GoTo(place, arg),
         \/ place \in {"app", "OS_Sched"}
         \/ place \in CreateSections /\ arg \in Event
         \/ place = "OSQCreate" /\ arg \in Event \X QBlock,
         \A t \in Task \ {OSTCBCur} : pc[t] \in Sections =>
           OSEventType'[pevent[t]] = OSEventType[pevent[t]]
  PROVE  CallSound'
<1>1. /\ pc'[OSTCBCur] = place /\ pevent'[OSTCBCur] = arg
      /\ \A t \in Task \ {OSTCBCur} : pc'[t] = pc[t] /\ pevent'[t] = pevent[t]
  BY GoToFacts
<1>2. ASSUME NEW t \in Task, t # OSTCBCur PROVE CallAt(t)'
  BY <1>1, <1>2 DEF CallAt, IInv, CallSound
<1>3. ASSUME NEW t \in Task, t = OSTCBCur PROVE CallAt(t)'
  <2>1. place \notin Sections \cup PendPlaces \cup {"OSEventPendMulti"}
    BY ServiceFacts DEF PendPlaces, CreateSections, SchedPlaces
  <2>2. pc'[t] = place /\ pevent'[t] = arg
    BY <1>1, <1>3
  <2> QED BY <2>1, <2>2 DEF CallAt, CreateSections
<1> QED BY <1>2, <1>3 DEF CallSound

\* A task finds in its critical section an object of the type it checked.
LEMMA CallStep ==
  ASSUME IInv, Disciplined, [Next]_vars
  PROVE  CallSound'
<1>1. OSEventType \in [Event -> {"UNUSED", "Q", "MBOX"}]
  BY Types
<1>2. \A t \in Task : pc[t] \in Sections =>
        pevent[t] \in Event /\ OSEventType[pevent[t]] # "UNUSED"
  BY ServiceFacts DEF IInv, CallSound, CallAt
<1>3. CASE Kept
  BY <1>3, KeptCalls, TaskCases DEF Kept, Traffic, CallSound
<1>4. ASSUME NEW place \in CreateSections, NEW e \in Event, TakesEvent(place, e)
      PROVE  CallSound'
  BY <1>4, OthersCalls DEF TakesEvent
<1>5. ASSUME NEW e \in Event, ReturnsEvent(e)
      PROVE  CallSound'
  BY <1>5, OthersCalls DEF ReturnsEvent
<1>6. ASSUME NEW e \in Event, NEW b \in QBlock, TakesBlock(e, b)
      PROVE  CallSound'
  BY <1>6, OthersCalls DEF TakesBlock
<1>7. ASSUME NEW e \in Event, MakesMbox(e)
      PROVE  CallSound'
  <2>1. OSEventType[e] = "UNUSED"
    BY <1>7, HeldIsUnused DEF MakesMbox, CreateSections
  <2> QED BY <1>1, <1>2, <1>7, <2>1, OthersCalls DEF MakesMbox
<1>8. ASSUME NEW e \in Event, NEW b \in QBlock, MakesQueue(e, b)
      PROVE  CallSound'
  <2>1. OSEventType[e] = "UNUSED"
    BY <1>8, HeldIsUnused DEF MakesQueue
  <2> QED BY <1>1, <1>2, <1>8, <2>1, OthersCalls DEF MakesQueue
<1>9. ASSUME NEW e \in Event, Deletes(e)
      PROVE  CallSound'
  BY <1>1, <1>2, <1>9, OthersCalls DEF Deletes
<1> QED BY <1>3, <1>4, <1>5, <1>6, <1>7, <1>8, <1>9, Objects DEF Creates

\* Nobody waits for an event that is unused.
LEMMA UnusedStep ==
  ASSUME IInv, Disciplined, [Next]_vars, NEW e \in Event, OSEventType'[e] = "UNUSED"
  PROVE  OSEventWait'[e] = {}
<1> SUFFICES ASSUME NEW p \in OSEventWait'[e] PROVE FALSE
  OBVIOUS
<1>1. /\ OSTCBPrioTbl'[p] \in Task /\ PrioTblSound' /\ OnAwaitedLists'
      /\ OSEventWait' \in [Event -> SUBSET Prio]
  BY NamedStep, PrioTblStep, ListsStep, TypeStep DEF ListsNamed, TypeOK
<1>2. PICK t \in Task : OSTCBPrio'[t] = p
  BY <1>1, Types DEF PrioTblSound
<1>3. e \in Awaited(t)'
  BY <1>1, <1>2 DEF OnAwaitedLists
<1>4. OSEventType[e] = "UNUSED"
  BY <1>3, AwaitedTypes
<1>5. e \notin Awaited(t)
  BY <1>4 DEF IInv, EventSound, OnAwaitedLists
<1>6. TaskCase(t)
  BY TaskCases
<1>7. CASE Begins(t)
  BY <1>3, <1>4, <1>6, <1>7, AwaitedStep DEF Begins, BeginsFor
<1>8. CASE Stays(t) \/ Ends(t) \/ Readied(t)
  BY <1>3, <1>5, <1>6, <1>8, AwaitedStep DEF Stays
<1> QED BY <1>6, <1>7, <1>8 DEF TaskCase

\* OSEventPtr is what the type of the event says.
LEMMA EventStep ==
  ASSUME IInv, Disciplined, [Next]_vars
  PROVE  EventSound'
<1>1. /\ OSEventType \in [Event -> {"UNUSED", "Q", "MBOX"}]
      /\ OSEventPtr \in [Event -> Event \cup QBlock \cup Message]
      /\ \A e \in Event : /\ OSEventType[e] = "Q" => OSEventPtr[e] \in QBlock
                          /\ OSEventType[e] = "MBOX" => OSEventPtr[e] \in Message
  BY Types DEF IInv, EventSound
<1> SUFFICES ASSUME NEW f \in Event
             PROVE  /\ OSEventType'[f] = "Q" => OSEventPtr'[f] \in QBlock
                    /\ OSEventType'[f] = "MBOX" => OSEventPtr'[f] \in Message
  BY UnusedStep DEF EventSound
<1>2. CASE Kept
  BY <1>1, <1>2 DEF Kept, Traffic
<1>3. CASE \/ \E place \in CreateSections, e \in Event : TakesEvent(place, e)
           \/ \E e \in Event, b \in QBlock : TakesBlock(e, b)
  BY <1>1, <1>3 DEF TakesEvent, TakesBlock
<1>4. ASSUME NEW e \in Event, ReturnsEvent(e)
      PROVE  /\ OSEventType'[f] = "Q" => OSEventPtr'[f] \in QBlock
             /\ OSEventType'[f] = "MBOX" => OSEventPtr'[f] \in Message
  <2>1. OSEventType[e] = "UNUSED"
    BY <1>4, HeldIsUnused DEF ReturnsEvent, CreateSections
  <2> QED BY <1>1, <1>4, <2>1 DEF ReturnsEvent
<1>5. ASSUME NEW e \in Event, MakesMbox(e)
      PROVE  /\ OSEventType'[f] = "Q" => OSEventPtr'[f] \in QBlock
             /\ OSEventType'[f] = "MBOX" => OSEventPtr'[f] \in Message
  BY <1>1, <1>5 DEF MakesMbox
<1>6. ASSUME NEW e \in Event, NEW b \in QBlock, MakesQueue(e, b)
      PROVE  /\ OSEventType'[f] = "Q" => OSEventPtr'[f] \in QBlock
             /\ OSEventType'[f] = "MBOX" => OSEventPtr'[f] \in Message
  BY <1>1, <1>6 DEF MakesQueue
<1>7. ASSUME NEW e \in Event, Deletes(e)
      PROVE  /\ OSEventType'[f] = "Q" => OSEventPtr'[f] \in QBlock
             /\ OSEventType'[f] = "MBOX" => OSEventPtr'[f] \in Message
  BY <1>1, <1>7 DEF Deletes
<1> QED BY <1>2, <1>3, <1>4, <1>5, <1>6, <1>7, Objects DEF Creates

-----------------------------------------------------------------------------
(* The chain of unused event control blocks.                               *)

\* Its links, apart from who holds the blocks that have been taken off it.
EventLinks ==
  /\ OSEventFreeList # Null => Spare(OSEventFreeList)
  /\ \A e \in Event : Spare(e) /\ OSEventPtr[e] # Null =>
       OSEventPtr[e] \in Event /\ Spare(OSEventPtr[e]) /\ OSEventPtr[e] # OSEventFreeList
  /\ \A e, f \in Event :
       Spare(e) /\ Spare(f) /\ OSEventPtr[e] # Null /\ OSEventPtr[e] = OSEventPtr[f] => e = f

LEMMA LinksKept ==
  ASSUME IInv, OSEventFreeList' = OSEventFreeList, \A f \in Event : Spare(f)' <=> Spare(f),
         \A f \in Event : Spare(f) => OSEventPtr'[f] = OSEventPtr[f]
  PROVE  EventLinks'
<1>1. EventLinks /\ OSEventFreeList \in Event \cup {Null}
  BY Types DEF IInv, EventChain, EventLinks
<1>2. OSEventFreeList' # Null => \A f \in Event : f = OSEventFreeList' => Spare(f)'
  BY <1>1 DEF EventLinks
<1>3. \A e \in Event : Spare(e)' /\ OSEventPtr'[e] # Null =>
        /\ OSEventPtr'[e] \in Event /\ OSEventPtr'[e] # OSEventFreeList'
        /\ \A f \in Event : f = OSEventPtr'[e] => Spare(f)'
  BY <1>1 DEF EventLinks
<1>4. \A e, f \in Event :
        Spare(e)' /\ Spare(f)' /\ OSEventPtr'[e] # Null /\ OSEventPtr'[e] = OSEventPtr'[f] => e = f
  BY <1>1 DEF EventLinks
<1>5. OSEventFreeList' \in Event \cup {Null}
  BY <1>1
<1> QED BY <1>2, <1>3, <1>4, <1>5 DEF EventLinks, Spare

LEMMA LinksPop ==
  ASSUME IInv, NEW e \in Event, e = OSEventFreeList, OSEventFreeList' = OSEventPtr[e],
         \A f \in Event : Spare(f)' <=> Spare(f) /\ f # e,
         \A f \in Event : OSEventPtr'[f] = OSEventPtr[f]
  PROVE  EventLinks'
<1>1. EventLinks /\ Null \notin Event /\ OSEventPtr[e] \in Event \cup {Null}
  BY Types, ChainTypes DEF IInv, EventChain, EventLinks
<1>2. Spare(e)
  BY <1>1 DEF EventLinks
<1>3. OSEventFreeList' # Null => \A f \in Event : f = OSEventFreeList' => Spare(f)'
  BY <1>1, <1>2 DEF EventLinks
<1>4. \A g \in Event : Spare(g)' /\ OSEventPtr'[g] # Null =>
        /\ OSEventPtr'[g] \in Event /\ OSEventPtr'[g] # OSEventFreeList'
        /\ \A f \in Event : f = OSEventPtr'[g] => Spare(f)'
  BY <1>1, <1>2 DEF EventLinks
<1>5. \A g, f \in Event :
        Spare(g)' /\ Spare(f)' /\ OSEventPtr'[g] # Null /\ OSEventPtr'[g] = OSEventPtr'[f] => g = f
  BY <1>1 DEF EventLinks
<1> QED BY <1>1, <1>3, <1>4, <1>5 DEF EventLinks, Spare

LEMMA LinksPush ==
  ASSUME IInv, NEW e \in Event, ~Spare(e), OSEventFreeList' = e,
         OSEventPtr' = [OSEventPtr EXCEPT ![e] = OSEventFreeList],
         \A f \in Event : Spare(f)' <=> Spare(f) \/ f = e
  PROVE  EventLinks'
<1>1. /\ EventLinks /\ Null \notin Event /\ OSEventFreeList \in Event \cup {Null}
      /\ \A f \in Event : OSEventPtr'[f] = IF f = e THEN OSEventFreeList ELSE OSEventPtr[f]
  BY Types DEF IInv, EventChain, EventLinks
<1>2. \A g \in Event : Spare(g)' /\ OSEventPtr'[g] # Null =>
        /\ OSEventPtr'[g] \in Event /\ OSEventPtr'[g] # e
        /\ \A f \in Event : f = OSEventPtr'[g] => Spare(f)'
  BY <1>1 DEF EventLinks
<1>3. \A g, f \in Event :
        Spare(g)' /\ Spare(f)' /\ OSEventPtr'[g] # Null /\ OSEventPtr'[g] = OSEventPtr'[f] => g = f
  BY <1>1 DEF EventLinks
<1>4. Spare(e)'
  OBVIOUS
<1> QED BY <1>2, <1>3, <1>4 DEF EventLinks, Spare

\* Who holds what.
HoldsSound ==
  \A t \in Task : \A e \in Event : Holds(t, e) =>
    OSEventType[e] = "UNUSED" /\ \A s \in Task : Holds(s, e) => s = t

LEMMA HoldsStay ==
  ASSUME IInv, KeepsHolds
  PROVE  /\ \A t \in Task : \A e \in Event : Holds(t, e)' <=> Holds(t, e)
         /\ \A t \in Task : \A b \in QBlock : TakesQ(t, b)' <=> TakesQ(t, b)
BY DEF KeepsHolds, Holds, TakesQ, CreateSections

\* What the running task holds after it has moved.
LEMMA HoldsMove ==
  ASSUME IInv, NEW place, NEW arg, GoTo(place, arg), NEW e \in Event,
         \/ place = "app"
         \/ place \in CreateSections /\ arg = e
         \/ \E b \in QBlock : place = "OSQCreate" /\ arg = <<e, b>>
  PROVE  \A t \in Task : \A f \in Event :
           Holds(t, f)' <=> IF t = OSTCBCur THEN place # "app" /\ f = e ELSE Holds(t, f)
<1>1. /\ pc'[OSTCBCur] = place /\ pevent'[OSTCBCur] = arg
      /\ \A t \in Task \ {OSTCBCur} : pc'[t] = pc[t] /\ pevent'[t] = pevent[t]
  BY GoToFacts
<1>2. \A b \in QBlock : <<e, b>> \notin Event /\ <<e, b>>[1] = e
  BY MsgAssumption DEF MsgAssumption
<1>3. ASSUME NEW t \in Task, NEW f \in Event, t = OSTCBCur
      PROVE  Holds(t, f)' <=> place # "app" /\ f = e
  BY <1>1, <1>2, <1>3 DEF Holds, CreateSections
<1>4. ASSUME NEW t \in Task, NEW f \in Event, t # OSTCBCur
      PROVE  Holds(t, f)' <=> Holds(t, f)
  BY <1>1, <1>4 DEF Holds
<1> QED BY <1>3, <1>4

LEMMA EventChainStep ==
  ASSUME IInv, Disciplined, [Next]_vars
  PROVE  EventChain'
<1>1. /\ OSEventType \in [Event -> {"UNUSED", "Q", "MBOX"}]
      /\ OSEventPtr \in [Event -> Event \cup QBlock \cup Message]
      /\ OSEventFreeList \in Event \cup {Null} /\ OSTCBCur \in Task /\ Null \notin Event
      /\ HoldsSound /\ EventLinks
  BY Types DEF IInv, EventChain, EventLinks, HoldsSound
<1> SUFFICES HoldsSound' /\ EventLinks'
  BY DEF EventChain, EventLinks, HoldsSound
<1>2. CASE Kept
  <2>1. \A t \in Task : \A e \in Event : Holds(t, e)' <=> Holds(t, e)
    BY <1>2, HoldsStay DEF Kept
  <2>2. \A f \in Event : (Spare(f)' <=> Spare(f)) /\ (Spare(f) => OSEventPtr'[f] = OSEventPtr[f])
    BY <1>2, <2>1 DEF Kept, Traffic, Spare
  <2>3. EventLinks'
    BY <1>2, <2>2, LinksKept DEF Kept, Traffic
  <2> QED BY <1>1, <1>2, <2>1, <2>3 DEF Kept, Traffic, HoldsSound
<1>3. ASSUME NEW place \in CreateSections, NEW e \in Event, TakesEvent(place, e)
      PROVE  HoldsSound' /\ EventLinks'
  <2>1. \A f \in Event : ~Holds(OSTCBCur, f)
    BY <1>3 DEF TakesEvent, Holds, CreateSections
  <2>2. \A t \in Task : \A f \in Event :
          Holds(t, f)' <=> Holds(t, f) \/ (t = OSTCBCur /\ f = e)
    BY <1>3, <2>1, HoldsMove DEF TakesEvent, CreateSections
  <2>3. Spare(e) /\ OSEventType' = OSEventType
    BY <1>1, <1>3 DEF TakesEvent, EventLinks
  <2>4. \A f \in Event : Spare(f)' <=> Spare(f) /\ f # e
    BY <1>1, <2>2, <2>3 DEF Spare
  <2>5. EventLinks'
    BY <1>3, <2>4, LinksPop DEF TakesEvent
  <2> QED BY <1>1, <2>2, <2>3, <2>5 DEF HoldsSound, Spare
<1>4. ASSUME NEW e \in Event, ReturnsEvent(e)
      PROVE  HoldsSound' /\ EventLinks'
  <2>1. Holds(OSTCBCur, e) /\ OSEventType[e] = "UNUSED"
    BY <1>4, HeldIsUnused DEF ReturnsEvent, CreateSections
  <2>2. \A t \in Task : \A f \in Event : Holds(t, f)' <=> Holds(t, f) /\ t # OSTCBCur
    BY <1>4, HoldsMove DEF ReturnsEvent
  <2>3. OSEventType' = OSEventType /\ ~Spare(e)
    BY <1>1, <1>4, <2>1 DEF ReturnsEvent, Spare
  <2>4. \A f \in Event : Holds(OSTCBCur, f) => f = e
    BY <1>4 DEF ReturnsEvent, Holds
  <2>5. \A f \in Event : Spare(f)' <=> Spare(f) \/ f = e
    BY <1>1, <2>1, <2>2, <2>3, <2>4 DEF Spare, HoldsSound
  <2>6. EventLinks'
    BY <1>4, <2>3, <2>5, LinksPush DEF ReturnsEvent
  <2> QED BY <1>1, <2>2, <2>3, <2>6 DEF HoldsSound
<1>5. ASSUME NEW e \in Event, NEW type \in {"Q", "MBOX"}, NEW ptr, Holds(OSTCBCur, e),
             \A f \in Event : Holds(OSTCBCur, f) => f = e,
             OSEventType' = [OSEventType EXCEPT ![e] = type],
             OSEventPtr' = [OSEventPtr EXCEPT ![e] = ptr], GoTo("app", Null),
             UNCHANGED OSEventFreeList
      PROVE  HoldsSound' /\ EventLinks'
  <2>1. \A t \in Task : \A f \in Event : Holds(t, f)' <=> Holds(t, f) /\ t # OSTCBCur
    BY <1>5, HoldsMove
  <2>2. \A f \in Event \ {e} :
          OSEventType'[f] = OSEventType[f] /\ OSEventPtr'[f] = OSEventPtr[f]
    BY <1>1, <1>5
  <2>3. OSEventType'[e] # "UNUSED" /\ ~Spare(e)
    BY <1>1, <1>5 DEF Spare
  <2>4. \A f \in Event : Spare(f)' <=> Spare(f)
    BY <1>5, <2>1, <2>2, <2>3 DEF Spare
  <2>5. \A f \in Event : Spare(f) => OSEventPtr'[f] = OSEventPtr[f]
    BY <2>2, <2>3
  <2>6. EventLinks'
    BY <1>5, <2>4, <2>5, LinksKept
  <2> QED BY <1>1, <1>5, <2>1, <2>2, <2>6 DEF HoldsSound
<1>6. ASSUME NEW e \in Event, MakesMbox(e)
      PROVE  HoldsSound' /\ EventLinks'
  <2>1. Holds(OSTCBCur, e) /\ \A f \in Event : Holds(OSTCBCur, f) => f = e
    BY <1>6 DEF MakesMbox, Holds, CreateSections
  <2> QED BY <1>5, <1>6, <2>1 DEF MakesMbox
<1>7. ASSUME NEW e \in Event, NEW b \in QBlock, MakesQueue(e, b)
      PROVE  HoldsSound' /\ EventLinks'
  <2>1. Holds(OSTCBCur, e) /\ \A f \in Event : Holds(OSTCBCur, f) => f = e
    BY <1>7, MsgAssumption DEF MakesQueue, Holds, CreateSections, MsgAssumption
  <2> QED BY <1>5, <1>7, <2>1 DEF MakesQueue
<1>8. ASSUME NEW e \in Event, NEW b \in QBlock, TakesBlock(e, b)
      PROVE  HoldsSound' /\ EventLinks'
  <2>1. Holds(OSTCBCur, e) /\ \A f \in Event : Holds(OSTCBCur, f) => f = e
    BY <1>8 DEF TakesBlock, Holds, CreateSections
  <2>2. \A t \in Task : \A f \in Event : Holds(t, f)' <=> Holds(t, f)
    BY <1>8, <2>1, HoldsMove DEF TakesBlock
  <2>3. \A f \in Event : Spare(f)' <=> Spare(f)
    BY <1>8, <2>2 DEF TakesBlock, Spare
  <2>4. EventLinks'
    BY <1>8, <2>3, LinksKept DEF TakesBlock
  <2> QED BY <1>1, <1>8, <2>2, <2>4 DEF TakesBlock, HoldsSound
<1>9. ASSUME NEW e \in Event, Deletes(e)
      PROVE  HoldsSound' /\ EventLinks'
  <2>1. KeepsHolds
    BY <1>9, GoToFacts, ServiceFacts DEF Deletes, KeepsHolds, CreateSections
  <2>2. \A t \in Task : \A f \in Event : Holds(t, f)' <=> Holds(t, f)
    BY <2>1, HoldsStay
  <2>3. \A t \in Task : ~Holds(t, e)
    BY <1>1, <1>9 DEF Deletes, HoldsSound
  <2>4. /\ OSEventType'[e] = "UNUSED" /\ ~Spare(e)
        /\ \A f \in Event \ {e} : OSEventType'[f] = OSEventType[f]
    BY <1>1, <1>9 DEF Deletes, Spare
  <2>5. \A f \in Event : Spare(f)' <=> Spare(f) \/ f = e
    BY <2>2, <2>3, <2>4 DEF Spare
  <2>6. EventLinks'
    BY <1>9, <2>4, <2>5, LinksPush DEF Deletes
  <2> QED BY <1>1, <2>2, <2>3, <2>4, <2>6 DEF HoldsSound
<1> QED BY <1>2, <1>3, <1>4, <1>6, <1>7, <1>8, <1>9, Objects DEF Creates

-----------------------------------------------------------------------------
(* The chain of unused OS_Q blocks.                                        *)

\* Its links, and that they lead to all unused blocks.
QLinks ==
  /\ OSQFreeList # Null => Unused(OSQFreeList)
  /\ \A b \in QBlock : Unused(b) /\ OSQTbl[b].OSQPtr # Null =>
       Unused(OSQTbl[b].OSQPtr) /\ OSQTbl[b].OSQPtr # OSQFreeList
  /\ \A b, c \in QBlock :
       Unused(b) /\ Unused(c) /\ OSQTbl[b].OSQPtr # Null /\ OSQTbl[b].OSQPtr = OSQTbl[c].OSQPtr
         => b = c
  /\ \A b \in QBlock : Unused(b) => b \in FreeQs

\* A block has one owner.
OneOwner ==
  \A b \in QBlock :
    /\ \A e, f \in Event : HasQ(e, b) /\ HasQ(f, b) => e = f
    /\ \A s, t \in Task : TakesQ(s, b) /\ TakesQ(t, b) => s = t
    /\ \A e \in Event, t \in Task : ~ (HasQ(e, b) /\ TakesQ(t, b))

LEMMA QChainParts ==
  QChain <=> OneOwner /\ QLinks
BY DEF QChain, OneOwner, QLinks

LEMMA QTypes ==
  ASSUME IInv
  PROVE  /\ OSQFreeList \in QBlock \cup {Null} /\ Null \notin QBlock
         /\ \A b \in QBlock : OSQTbl[b].OSQPtr \in QBlock \cup {Null}
         /\ OneOwner /\ QLinks
BY Types, OS_QFacts, QChainParts DEF IInv

\* A set of blocks that the free list does not lead out of.
Closed(S) ==
  /\ OSQFreeList # Null => OSQFreeList \in S
  /\ \A c \in S : OSQTbl[c].OSQPtr # Null => OSQTbl[c].OSQPtr \in S

LEMMA FreeIsClosed ==
  \A b \in QBlock : b \in FreeQs <=> \A S \in SUBSET QBlock : Closed(S) => b \in S
BY DEF FreeQs, Closed

LEMMA FreeIsClosedPrime ==
  ASSUME NEW b \in QBlock, \A S \in SUBSET QBlock : Closed(S)' => b \in S
  PROVE  b \in FreeQs'
BY DEF FreeQs, Closed

\* The free list leads to unused blocks only.
LEMMA FreeIsUnused ==
  ASSUME IInv, NEW b \in FreeQs
  PROVE  b \in QBlock /\ Unused(b)
<1> DEFINE U == {c \in QBlock : Unused(c)}
<1>1. b \in QBlock
  BY DEF FreeQs
<1>2. Closed(U)
  BY QTypes DEF Closed, QLinks
<1>3. U \in SUBSET QBlock
  OBVIOUS
<1>4. b \in U
  BY <1>1, <1>2, <1>3, FreeIsClosed
<1> QED BY <1>4

LEMMA QLinksKept ==
  ASSUME IInv, OSQFreeList' = OSQFreeList, \A b \in QBlock : Unused(b)' <=> Unused(b),
         \A b \in QBlock : OSQTbl'[b].OSQPtr = OSQTbl[b].OSQPtr
  PROVE  QLinks'
<1>1. /\ QLinks /\ OSQFreeList \in QBlock \cup {Null} /\ Null \notin QBlock
      /\ \A b \in QBlock : OSQTbl[b].OSQPtr \in QBlock \cup {Null}
  BY QTypes
<1>2. OSQFreeList' # Null => \A c \in QBlock : c = OSQFreeList' => Unused(c)'
  BY <1>1 DEF QLinks
<1>3. \A b \in QBlock : Unused(b)' /\ OSQTbl'[b].OSQPtr # Null =>
        /\ OSQTbl'[b].OSQPtr \in QBlock /\ OSQTbl'[b].OSQPtr # OSQFreeList'
        /\ \A c \in QBlock : c = OSQTbl'[b].OSQPtr => Unused(c)'
  BY <1>1 DEF QLinks
<1>4. \A b, c \in QBlock :
        Unused(b)' /\ Unused(c)' /\ OSQTbl'[b].OSQPtr # Null
          /\ OSQTbl'[b].OSQPtr = OSQTbl'[c].OSQPtr => b = c
  BY <1>1 DEF QLinks
<1>5. ASSUME NEW b \in QBlock, Unused(b)' PROVE b \in FreeQs'
  <2>1. b \in FreeQs
    BY <1>1, <1>5 DEF QLinks
  <2>2. ASSUME NEW S \in SUBSET QBlock, Closed(S)' PROVE b \in S
    <3>1. Closed(S)
      BY <2>2 DEF Closed
    <3> QED BY <2>1, <3>1, FreeIsClosed
  <2> QED BY <2>2, FreeIsClosedPrime
<1> QED BY <1>1, <1>2, <1>3, <1>4, <1>5 DEF QLinks, Unused, HasQ, TakesQ

LEMMA QLinksPop ==
  ASSUME IInv, NEW q \in QBlock, q = OSQFreeList, OSQFreeList' = OSQTbl[q].OSQPtr,
         \A b \in QBlock : Unused(b)' <=> Unused(b) /\ b # q, OSQTbl' = OSQTbl
  PROVE  QLinks'
<1>1. /\ QLinks /\ Null \notin QBlock /\ Unused(q)
      /\ \A b \in QBlock : OSQTbl[b].OSQPtr \in QBlock \cup {Null}
  BY QTypes DEF QLinks
<1>2. OSQFreeList' # Null => \A c \in QBlock : c = OSQFreeList' => Unused(c)'
  BY <1>1 DEF QLinks
<1>3. \A b \in QBlock : Unused(b)' /\ OSQTbl'[b].OSQPtr # Null =>
        /\ OSQTbl'[b].OSQPtr \in QBlock /\ OSQTbl'[b].OSQPtr # OSQFreeList'
        /\ \A c \in QBlock : c = OSQTbl'[b].OSQPtr => Unused(c)'
  BY <1>1 DEF QLinks
<1>4. \A b, c \in QBlock :
        Unused(b)' /\ Unused(c)' /\ OSQTbl'[b].OSQPtr # Null
          /\ OSQTbl'[b].OSQPtr = OSQTbl'[c].OSQPtr => b = c
  BY <1>1 DEF QLinks
<1>5. ASSUME NEW b \in QBlock, Unused(b)' PROVE b \in FreeQs'
  <2>1. b \in FreeQs /\ b # q
    BY <1>1, <1>5 DEF QLinks
  <2>2. ASSUME NEW S \in SUBSET QBlock, Closed(S)' PROVE b \in S
    <3>1. Closed(S \cup {q})
      BY <2>2 DEF Closed
    <3>2. S \cup {q} \in SUBSET QBlock
      OBVIOUS
    <3>3. b \in S \cup {q}
      BY <2>1, <3>1, <3>2, FreeIsClosed
    <3> QED BY <2>1, <3>3
  <2> QED BY <2>2, FreeIsClosedPrime
<1>6. OSQFreeList' \in QBlock \cup {Null}
  BY <1>1
<1> QED BY <1>2, <1>3, <1>4, <1>5, <1>6 DEF QLinks, Unused, HasQ, TakesQ

LEMMA QLinksPush ==
  ASSUME IInv, NEW q \in QBlock, ~Unused(q), OSQFreeList' = q,
         OSQTbl'[q].OSQPtr = OSQFreeList,
         \A b \in QBlock \ {q} : OSQTbl'[b].OSQPtr = OSQTbl[b].OSQPtr,
         \A b \in QBlock : Unused(b)' <=> Unused(b) \/ b = q
  PROVE  QLinks'
<1>1. /\ QLinks /\ OSQFreeList \in QBlock \cup {Null} /\ Null \notin QBlock
      /\ \A b \in QBlock : OSQTbl[b].OSQPtr \in QBlock \cup {Null}
  BY QTypes
<1>2. \A b \in QBlock : Unused(b)' /\ OSQTbl'[b].OSQPtr # Null =>
        /\ OSQTbl'[b].OSQPtr \in QBlock /\ OSQTbl'[b].OSQPtr # q
        /\ \A c \in QBlock : c = OSQTbl'[b].OSQPtr => Unused(c)'
  BY <1>1 DEF QLinks
<1>3. \A b, c \in QBlock :
        Unused(b)' /\ Unused(c)' /\ OSQTbl'[b].OSQPtr # Null
          /\ OSQTbl'[b].OSQPtr = OSQTbl'[c].OSQPtr => b = c
  BY <1>1 DEF QLinks
<1>4. ASSUME NEW b \in QBlock, Unused(b)' PROVE b \in FreeQs'
  <2>1. ASSUME NEW S \in SUBSET QBlock, Closed(S)' PROVE b \in S
    <3> DEFINE U == {c \in S : Unused(c)}
    <3>1. q \in S
      BY <1>1, <2>1 DEF Closed
    <3>2. OSQFreeList # Null => OSQFreeList \in U
      BY <1>1, <2>1, <3>1 DEF Closed, QLinks
    <3>3. ASSUME NEW c \in U, OSQTbl[c].OSQPtr # Null PROVE OSQTbl[c].OSQPtr \in U
      <4>1. c \in S /\ c \in QBlock /\ c # q /\ Unused(c)
        OBVIOUS
      <4>2. OSQTbl'[c].OSQPtr = OSQTbl[c].OSQPtr
        BY <4>1
      <4>3. OSQTbl[c].OSQPtr \in S
        BY <2>1, <3>3, <4>1, <4>2 DEF Closed
      <4>4. Unused(OSQTbl[c].OSQPtr)
        BY <1>1, <3>3, <4>1 DEF QLinks
      <4> QED BY <4>3, <4>4
    <3>4. Closed(U)
      BY <3>2, <3>3 DEF Closed
    <3>5. U \in SUBSET QBlock
      OBVIOUS
    <3>6. b \in FreeQs => b \in U
      BY <3>4, <3>5, FreeIsClosed
    <3>7. b = q \/ b \in FreeQs
      BY <1>1, <1>4 DEF QLinks
    <3> QED BY <3>1, <3>6, <3>7
  <2> QED BY <2>1, FreeIsClosedPrime
<1>5. Unused(q)'
  OBVIOUS
<1> QED BY <1>2, <1>3, <1>4, <1>5 DEF QLinks, Unused, HasQ, TakesQ

\* What the running task has taken after it has moved.
LEMMA TakesNone ==
  ASSUME IInv, NEW place, NEW arg, GoTo(place, arg), place = "app" \/ arg \in Event
  PROVE  \A t \in Task, c \in QBlock : TakesQ(t, c)' <=> TakesQ(t, c) /\ t # OSTCBCur
<1>1. /\ pc'[OSTCBCur] = place /\ pevent'[OSTCBCur] = arg
      /\ \A t \in Task \ {OSTCBCur} : pc'[t] = pc[t] /\ pevent'[t] = pevent[t]
  BY GoToFacts
<1>2. ASSUME NEW t \in Task, NEW c \in QBlock, t = OSTCBCur PROVE ~TakesQ(t, c)'
  BY <1>1, <1>2 DEF TakesQ
<1>3. ASSUME NEW t \in Task, NEW c \in QBlock, t # OSTCBCur
      PROVE  TakesQ(t, c)' <=> TakesQ(t, c)
  BY <1>1, <1>3 DEF TakesQ
<1> QED BY <1>2, <1>3

LEMMA TakesOne ==
  ASSUME IInv, NEW e \in Event, NEW q \in QBlock, GoTo("OSQCreate", <<e, q>>)
  PROVE  \A t \in Task, c \in QBlock :
           TakesQ(t, c)' <=> IF t = OSTCBCur THEN c = q ELSE TakesQ(t, c)
<1>1. /\ pc'[OSTCBCur] = "OSQCreate" /\ pevent'[OSTCBCur] = <<e, q>>
      /\ \A t \in Task \ {OSTCBCur} : pc'[t] = pc[t] /\ pevent'[t] = pevent[t]
  BY GoToFacts
<1>2. <<e, q>> \notin Event /\ <<e, q>>[2] = q
  BY MsgAssumption DEF MsgAssumption
<1>3. ASSUME NEW t \in Task, NEW c \in QBlock, t = OSTCBCur
      PROVE  TakesQ(t, c)' <=> c = q
  BY <1>1, <1>2, <1>3 DEF TakesQ
<1>4. ASSUME NEW t \in Task, NEW c \in QBlock, t # OSTCBCur
      PROVE  TakesQ(t, c)' <=> TakesQ(t, c)
  BY <1>1, <1>4 DEF TakesQ
<1> QED BY <1>3, <1>4

\* A step after which everybody owns what he owned.
LEMMA OwnersStay ==
  ASSUME IInv, OSQFreeList' = OSQFreeList,
         \A b \in QBlock : OSQTbl'[b].OSQPtr = OSQTbl[b].OSQPtr,
         \A e \in Event, b \in QBlock : HasQ(e, b)' <=> HasQ(e, b),
         \A t \in Task, b \in QBlock : TakesQ(t, b)' <=> TakesQ(t, b)
  PROVE  OneOwner' /\ QLinks'
<1>1. \A b \in QBlock : Unused(b)' <=> Unused(b)
  BY DEF Unused
<1>2. OneOwner'
  BY QTypes DEF OneOwner
<1> QED BY <1>1, <1>2, QLinksKept

LEMMA QChainStep ==
  ASSUME IInv, Disciplined, [Next]_vars
  PROVE  QChain'
<1>1. /\ OSEventType \in [Event -> {"UNUSED", "Q", "MBOX"}]
      /\ OSEventPtr \in [Event -> Event \cup QBlock \cup Message]
      /\ OSTCBCur \in Task /\ Null \notin QBlock /\ OneOwner /\ QLinks
  BY Types, QTypes
<1> SUFFICES OneOwner' /\ QLinks'
  BY DEF QChain, OneOwner, QLinks
<1>2. CASE Kept
  <2>1. \A t \in Task, b \in QBlock : TakesQ(t, b)' <=> TakesQ(t, b)
    BY <1>2, HoldsStay DEF Kept
  <2>2. \A e \in Event, b \in QBlock : HasQ(e, b)' <=> HasQ(e, b)
    BY <1>2 DEF Kept, Traffic, HasQ
  <2> QED BY <1>2, <2>1, <2>2, OwnersStay DEF Kept, Traffic
<1>3. ASSUME NEW place \in CreateSections, NEW e \in Event, TakesEvent(place, e)
      PROVE  OneOwner' /\ QLinks'
  <2>1. \A b \in QBlock : ~TakesQ(OSTCBCur, b)
    BY <1>3 DEF TakesEvent, TakesQ
  <2>2. \A t \in Task, b \in QBlock : TakesQ(t, b)' <=> TakesQ(t, b)
    BY <1>3, <2>1, TakesNone DEF TakesEvent
  <2>3. \A f \in Event, b \in QBlock : HasQ(f, b)' <=> HasQ(f, b)
    BY <1>3 DEF TakesEvent, HasQ
  <2> QED BY <1>3, <2>2, <2>3, OwnersStay DEF TakesEvent, qVars
<1>4. ASSUME NEW e \in Event, ReturnsEvent(e) \/ MakesMbox(e)
      PROVE  OneOwner' /\ QLinks'
  <2>1. \A b \in QBlock : ~TakesQ(OSTCBCur, b)
    BY <1>4 DEF ReturnsEvent, MakesMbox, TakesQ
  <2>2. \A t \in Task, b \in QBlock : TakesQ(t, b)' <=> TakesQ(t, b)
    BY <1>4, <2>1, TakesNone DEF ReturnsEvent, MakesMbox
  <2>3. OSEventType[e] = "UNUSED"
    BY <1>4, HeldIsUnused DEF ReturnsEvent, MakesMbox, CreateSections
  <2>4. \A f \in Event, b \in QBlock : HasQ(f, b)' <=> HasQ(f, b)
    BY <1>1, <1>4, <2>3 DEF ReturnsEvent, MakesMbox, HasQ
  <2> QED BY <1>4, <2>2, <2>4, OwnersStay DEF ReturnsEvent, MakesMbox, qVars
<1>5. ASSUME NEW e \in Event, NEW q \in QBlock, TakesBlock(e, q)
      PROVE  OneOwner' /\ QLinks'
  <2>1. \A b \in QBlock : ~TakesQ(OSTCBCur, b)
    BY <1>5 DEF TakesBlock, TakesQ
  <2>2. \A t \in Task, b \in QBlock :
          TakesQ(t, b)' <=> TakesQ(t, b) \/ (t = OSTCBCur /\ b = q)
    BY <1>5, <2>1, TakesOne DEF TakesBlock
  <2>3. \A f \in Event, b \in QBlock : HasQ(f, b)' <=> HasQ(f, b)
    BY <1>5 DEF TakesBlock, HasQ
  <2>4. Unused(q)
    BY <1>1, <1>5 DEF TakesBlock, QLinks
  <2>5. \A b \in QBlock : Unused(b)' <=> Unused(b) /\ b # q
    BY <1>1, <2>2, <2>3 DEF Unused
  <2>6. OneOwner'
    BY <1>1, <2>2, <2>3, <2>4 DEF OneOwner, Unused
  <2> QED BY <1>5, <2>5, <2>6, QLinksPop DEF TakesBlock
<1>6. ASSUME NEW e \in Event, NEW q \in QBlock, MakesQueue(e, q)
      PROVE  OneOwner' /\ QLinks'
  <2>1. TakesQ(OSTCBCur, q) /\ \A b \in QBlock : TakesQ(OSTCBCur, b) => b = q
    BY <1>6, MsgAssumption DEF MakesQueue, TakesQ, MsgAssumption
  <2>2. \A t \in Task, b \in QBlock : TakesQ(t, b)' <=> TakesQ(t, b) /\ t # OSTCBCur
    BY <1>6, TakesNone DEF MakesQueue
  <2>3. OSEventType[e] = "UNUSED"
    BY <1>6, HeldIsUnused DEF MakesQueue
  <2>4. \A f \in Event, b \in QBlock : HasQ(f, b)' <=> HasQ(f, b) \/ (f = e /\ b = q)
    BY <1>1, <1>6, <2>3 DEF MakesQueue, HasQ
  <2>5. \A b \in QBlock : Unused(b)' <=> Unused(b)
    BY <1>1, <2>1, <2>2, <2>4 DEF Unused, OneOwner
  <2>6. OneOwner'
    BY <1>1, <2>1, <2>2, <2>4 DEF OneOwner
  <2>7. OSQFreeList' = OSQFreeList /\ \A b \in QBlock : OSQTbl'[b].OSQPtr = OSQTbl[b].OSQPtr
    BY <1>6, MakesQueueTbl DEF MakesQueue
  <2> QED BY <2>5, <2>6, <2>7, QLinksKept
<1>7. ASSUME NEW e \in Event, Deletes(e)
      PROVE  OneOwner' /\ QLinks'
  <2>1. KeepsHolds
    BY <1>7, GoToFacts, ServiceFacts DEF Deletes, KeepsHolds, CreateSections
  <2>2. \A t \in Task, b \in QBlock : TakesQ(t, b)' <=> TakesQ(t, b)
    BY <2>1, HoldsStay
  <2>3. \A f \in Event, b \in QBlock : HasQ(f, b)' <=> HasQ(f, b) /\ f # e
    BY <1>1, <1>7 DEF Deletes, HasQ
  <2>4. CASE OSEventType[e] = "Q"
    <3>1. PICK q \in QBlock : q = OSEventPtr[e]
      BY <2>4 DEF IInv, EventSound
    <3>2. HasQ(e, q) /\ \A b \in QBlock : HasQ(e, b) => b = q
      BY <2>4, <3>1 DEF HasQ
    <3>3. \A b \in QBlock : Unused(b)' <=> Unused(b) \/ b = q
      BY <1>1, <2>2, <2>3, <3>2 DEF Unused, OneOwner
    <3>4. ~Unused(q)
      BY <3>2 DEF Unused
    <3>5. /\ OSQFreeList' = q /\ OSQTbl'[q].OSQPtr = OSQFreeList
          /\ \A b \in QBlock \ {q} : OSQTbl'[b].OSQPtr = OSQTbl[b].OSQPtr
      BY <1>7, <2>4, <3>1, DeletesTbl
    <3>6. OneOwner'
      BY <1>1, <2>2, <2>3 DEF OneOwner
    <3> QED BY <3>3, <3>4, <3>5, <3>6, QLinksPush
  <2>5. CASE OSEventType[e] # "Q"
    <3>1. UNCHANGED qVars
      BY <1>7, <2>5 DEF Deletes
    <3>2. \A f \in Event, b \in QBlock : HasQ(f, b)' <=> HasQ(f, b)
      BY <2>3, <2>5 DEF HasQ
    <3> QED BY <2>2, <3>1, <3>2, OwnersStay DEF qVars
  <2> QED BY <2>4, <2>5
<1> QED BY <1>2, <1>3, <1>4, <1>5, <1>6, <1>7, Objects DEF Creates

-----------------------------------------------------------------------------
(* The state in which the system starts.                                   *)

\* A set of numbers that is not empty has a least element.
LEMMA Least ==
  ASSUME NEW S \in SUBSET Nat, S # {}
  PROVE  \E x \in S : \A y \in S : x <= y
<1>1. IsWellFoundedOn(OpToRel(<, Nat), Nat)
  BY NatLessThanWellFounded
<1>2. PICK x \in S : \A y \in S : ~ (<<y, x>> \in OpToRel(<, Nat))
  BY <1>1, WFMin, Zenon
<1>3. \A y \in S : ~ (y < x)
  BY <1>2 DEF OpToRel
<1> QED
  BY <1>3

LEMMA CreatedFacts ==
  /\ CreatedTasks \in [Prio -> Task \cup {Null}]
  /\ \A t \in Task : InitPrio[t] \in Prio /\ CreatedTasks[InitPrio[t]] = t
  /\ \A p \in Prio : CreatedTasks[p] # Null => InitPrio[CreatedTasks[p]] = p
BY CoreAssumption DEF CreatedTasks, CoreAssumption

\* The lists of unused blocks, in the order of the tables.
LEMMA TableFacts ==
  /\ Len(InitFreeList) \in Nat /\ Len(OSQs) \in Nat /\ Taken \in 0 .. Len(OSQs)
  /\ \A i \in 1 .. Len(InitFreeList) : InitFreeList[i] \in Event
  /\ \A i, j \in 1 .. Len(InitFreeList) : InitFreeList[i] = InitFreeList[j] => i = j
  /\ \A i \in 1 .. Len(OSQs) : OSQs[i] \in QBlock
  /\ \A i, j \in 1 .. Len(OSQs) : OSQs[i] = OSQs[j] => i = j
  /\ \A b \in QBlock : \E i \in 1 .. Len(OSQs) : OSQs[i] = b
  /\ \A e \in Event : e \in Range(InitFreeList) <=>
       \E i \in 1 .. Len(InitFreeList) : InitFreeList[i] = e
<1>1. /\ InitFreeList \in Seq(Event) /\ OSQs \in Seq(QBlock)
      /\ IsInjective(InitFreeList) /\ IsInjective(OSQs) /\ Taken \in 0 .. Len(OSQs)
  BY CoreAssumption, CreatedAssumption DEF CoreAssumption, CreatedAssumption
<1>2. /\ Len(InitFreeList) \in Nat /\ DOMAIN InitFreeList = 1 .. Len(InitFreeList)
      /\ Len(OSQs) \in Nat /\ DOMAIN OSQs = 1 .. Len(OSQs)
  BY <1>1, LenProperties
<1>3. /\ \A i \in 1 .. Len(InitFreeList) : InitFreeList[i] \in Event
      /\ \A i \in 1 .. Len(OSQs) : OSQs[i] \in QBlock
  BY <1>1, ElementOfSeq
<1>4. /\ \A i, j \in 1 .. Len(InitFreeList) : InitFreeList[i] = InitFreeList[j] => i = j
      /\ \A i, j \in 1 .. Len(OSQs) : OSQs[i] = OSQs[j] => i = j
  BY <1>1, <1>2 DEF IsInjective
<1>5. \A b \in QBlock : \E i \in 1 .. Len(OSQs) : OSQs[i] = b
  BY <1>2 DEF QBlock, Range
<1>6. \A e \in Event : e \in Range(InitFreeList) <=>
        \E i \in 1 .. Len(InitFreeList) : InitFreeList[i] = e
  BY <1>2 DEF Range
<1> QED BY <1>1, <1>2, <1>3, <1>4, <1>5, <1>6

\* The queues that have been created have the first blocks of the table.
LEMMA QueueFacts ==
  /\ \A e \in DOMAIN QOfEvent : e \in Event /\ e \notin Range(InitFreeList)
  /\ \A e \in DOMAIN QOfEvent : \E i \in 1 .. Taken : QOfEvent[e] = OSQs[i]
  /\ \A i \in 1 .. Taken : \E e \in DOMAIN QOfEvent : QOfEvent[e] = OSQs[i]
  /\ \A e, f \in DOMAIN QOfEvent : QOfEvent[e] = QOfEvent[f] => e = f
<1>1. /\ DOMAIN QOfEvent \subseteq Event \ Range(InitFreeList) /\ IsInjective(QOfEvent)
      /\ Range(QOfEvent) = {OSQs[i] : i \in 1 .. Taken}
  BY CreatedAssumption DEF CreatedAssumption
<1>2. \A x : x \in Range(QOfEvent) <=> \E e \in DOMAIN QOfEvent : QOfEvent[e] = x
  BY DEF Range
<1>3. \A x : x \in Range(QOfEvent) <=> \E i \in 1 .. Taken : OSQs[i] = x
  BY <1>1
<1>4. \A e, f \in DOMAIN QOfEvent : QOfEvent[e] = QOfEvent[f] => e = f
  BY <1>1 DEF IsInjective
<1>5. \A e \in DOMAIN QOfEvent : QOfEvent[e] \in Range(QOfEvent)
  BY <1>2
<1>6. \A i \in 1 .. Taken : OSQs[i] \in Range(QOfEvent)
  BY <1>3
<1>7. \A e \in DOMAIN QOfEvent : \E i \in 1 .. Taken : QOfEvent[e] = OSQs[i]
  BY <1>3, <1>5
<1>8. \A i \in 1 .. Taken : \E e \in DOMAIN QOfEvent : QOfEvent[e] = OSQs[i]
  BY <1>2, <1>6
<1> QED BY <1>1, <1>4, <1>7, <1>8

\* The block after an unused one is the next of its table.
LEMMA NextUnusedFacts ==
  ASSUME NEW e \in Event, NextUnused(e) # Null
  PROVE  \E i \in 1 .. Len(InitFreeList) - 1 :
           /\ InitFreeList[i] = e
           /\ i + 1 \in 1 .. Len(InitFreeList) /\ i \in 1 .. Len(InitFreeList)
           /\ NextUnused(e) = InitFreeList[i + 1]
<1> DEFINE I == 1 .. Len(InitFreeList) - 1
<1>1. \A i \in I : i \in Int /\ 1 + i = i + 1 /\ i + 1 \in 1 .. Len(InitFreeList)
                   /\ i \in 1 .. Len(InitFreeList)
  BY TableFacts
<1>2. /\ \E i \in I : InitFreeList[i] = e
      /\ NextUnused(e) = InitFreeList[1 + CHOOSE i \in I : InitFreeList[i] = e]
  BY DEF NextUnused
<1> HIDE DEF I
<1>3. PICK i \in I : InitFreeList[i] = e /\ NextUnused(e) = InitFreeList[1 + i]
  BY <1>2
<1>4. /\ i + 1 \in 1 .. Len(InitFreeList) /\ i \in 1 .. Len(InitFreeList)
      /\ NextUnused(e) = InitFreeList[i + 1]
  BY <1>1, <1>3
<1> QED BY <1>3, <1>4 DEF I

LEMMA NextQFacts ==
  /\ \A b \in QBlock : NextQ(b) # Null => \E i \in 1 .. Len(OSQs) - 1 :
       /\ OSQs[i] = b
       /\ i + 1 \in 1 .. Len(OSQs) /\ i \in 1 .. Len(OSQs)
       /\ NextQ(b) = OSQs[i + 1]
  /\ \A i \in 1 .. Len(OSQs) - 1 : NextQ(OSQs[i]) = OSQs[i + 1]
<1> DEFINE I == 1 .. Len(OSQs) - 1
<1>1. \A i \in I : /\ i \in Int /\ 1 + i = i + 1 /\ i + 1 \in 1 .. Len(OSQs)
                   /\ i \in 1 .. Len(OSQs)
  BY TableFacts
<1>2. \A b : NextQ(b) = IF \E i \in I : OSQs[i] = b
                          THEN OSQs[1 + CHOOSE i \in I : OSQs[i] = b] ELSE Null
  BY DEF NextQ
<1> HIDE DEF I
<1>3. ASSUME NEW b, \E i \in I : OSQs[i] = b
      PROVE  \E i \in I : OSQs[i] = b /\ NextQ(b) = OSQs[i + 1]
  <2>1. PICK i \in I : OSQs[i] = b /\ NextQ(b) = OSQs[1 + i]
    BY <1>2, <1>3
  <2> QED BY <1>1, <2>1
<1>4. \A b \in QBlock : NextQ(b) # Null => \E i \in I :
        /\ OSQs[i] = b /\ i + 1 \in 1 .. Len(OSQs) /\ i \in 1 .. Len(OSQs)
        /\ NextQ(b) = OSQs[i + 1]
  <2> SUFFICES ASSUME NEW b \in QBlock, NextQ(b) # Null
               PROVE  \E i \in I :
                        /\ OSQs[i] = b /\ i + 1 \in 1 .. Len(OSQs) /\ i \in 1 .. Len(OSQs)
                        /\ NextQ(b) = OSQs[i + 1]
    OBVIOUS
  <2>1. \E i \in I : OSQs[i] = b
    BY <1>2
  <2>2. PICK i \in I : OSQs[i] = b /\ NextQ(b) = OSQs[i + 1]
    BY <1>3, <2>1
  <2> QED BY <1>1, <2>2
<1>5. ASSUME NEW i \in I PROVE NextQ(OSQs[i]) = OSQs[i + 1]
  <2>1. PICK j \in I : OSQs[j] = OSQs[i] /\ NextQ(OSQs[i]) = OSQs[j + 1]
    BY <1>3
  <2>2. j = i
    BY <1>1, <2>1, TableFacts
  <2> QED BY <2>1, <2>2
<1> QED BY <1>4, <1>5 DEF I

\* The events and their blocks.
LEMMA InitEvents ==
  ASSUME Init
  PROVE  /\ OSEventType \in [Event -> {"UNUSED", "Q", "MBOX"}]
         /\ OSEventPtr \in [Event -> Event \cup QBlock \cup Message]
         /\ OSEventFreeList \in Event \cup {Null}
         /\ EventSound /\ EventChain
<1>1. /\ OSEventType = [e \in Event |-> CASE e \in DOMAIN QOfEvent -> "Q"
                                          [] e \in Range(InitFreeList) -> "UNUSED"
                                          [] OTHER -> "MBOX"]
      /\ OSEventPtr = [e \in Event |-> IF e \in DOMAIN QOfEvent THEN QOfEvent[e]
                                                                ELSE NextUnused(e)]
      /\ OSEventFreeList = IF InitFreeList = <<>> THEN Null ELSE Head(InitFreeList)
      /\ OSEventWait = [e \in Event |-> {}]
      /\ pc = [t \in Task |-> "app"]
  BY DEF Init, TasksStarted
<1>2. Null \notin Event /\ Null \notin QBlock /\ Null \in Message
  BY CoreAssumption, MsgAssumption DEF CoreAssumption, MsgAssumption, Message
<1>3. \A e \in Event :
        /\ OSEventType[e] = "Q" <=> e \in DOMAIN QOfEvent
        /\ OSEventType[e] = "UNUSED" <=> e \in Range(InitFreeList)
        /\ OSEventType[e] \in {"UNUSED", "Q", "MBOX"}
        /\ e \in DOMAIN QOfEvent => OSEventPtr[e] = QOfEvent[e]
        /\ e \notin DOMAIN QOfEvent => OSEventPtr[e] = NextUnused(e)
  BY <1>1, QueueFacts
<1>4. \A t \in Task, e \in Event : ~Holds(t, e)
  BY <1>1 DEF Holds, CreateSections
<1>5. \A e \in Event : Spare(e) <=> \E i \in 1 .. Len(InitFreeList) : InitFreeList[i] = e
  BY <1>3, <1>4, TableFacts DEF Spare
<1>6. \A e \in DOMAIN QOfEvent : QOfEvent[e] \in QBlock
  <2>1. \A i \in 1 .. Taken : i \in 1 .. Len(OSQs)
    BY TableFacts
  <2>2. \A i \in 1 .. Taken : OSQs[i] \in QBlock
    BY <2>1, TableFacts
  <2> QED BY <2>2, QueueFacts
<1>7. OSEventFreeList # Null =>
        1 \in 1 .. Len(InitFreeList) /\ OSEventFreeList = InitFreeList[1]
  <2>1. ASSUME InitFreeList # <<>>
        PROVE  1 \in 1 .. Len(InitFreeList) /\ Head(InitFreeList) = InitFreeList[1]
    BY <2>1, CoreAssumption, EmptySeq, LenProperties, HeadTailProperties DEF CoreAssumption
  <2> QED BY <1>1, <2>1
<1>8. OSEventFreeList \in Event \cup {Null} /\ (OSEventFreeList # Null => Spare(OSEventFreeList))
  <2>1. OSEventFreeList # Null => OSEventFreeList \in Event
    BY <1>7, TableFacts
  <2> QED BY <1>5, <1>7, <2>1
<1>9. ASSUME NEW e \in Event, e \notin DOMAIN QOfEvent, OSEventPtr[e] # Null
      PROVE  /\ OSEventPtr[e] \in Event
             /\ Spare(e) /\ Spare(OSEventPtr[e])
             /\ OSEventPtr[e] # OSEventFreeList
             /\ \A f \in Event : f \notin DOMAIN QOfEvent /\ OSEventPtr[f] = OSEventPtr[e] => e = f
  <2>1. OSEventPtr[e] = NextUnused(e)
    BY <1>3, <1>9
  <2>2. PICK i \in 1 .. Len(InitFreeList) - 1 :
           /\ InitFreeList[i] = e
           /\ i + 1 \in 1 .. Len(InitFreeList) /\ i \in 1 .. Len(InitFreeList)
           /\ NextUnused(e) = InitFreeList[i + 1]
    BY <1>9, <2>1, NextUnusedFacts
  <2>3. OSEventPtr[e] = InitFreeList[i + 1] /\ OSEventPtr[e] \in Event
    BY <2>1, <2>2, TableFacts
  <2>4. Spare(e) /\ Spare(OSEventPtr[e])
    BY <1>5, <2>2, <2>3
  <2>5. OSEventPtr[e] # OSEventFreeList
    <3>1. i + 1 # 1
      BY TableFacts
    <3> QED BY <1>7, <1>9, <2>2, <2>3, <3>1, TableFacts
  <2>6. ASSUME NEW f \in Event, f \notin DOMAIN QOfEvent, OSEventPtr[f] = OSEventPtr[e]
        PROVE  e = f
    <3>1. NextUnused(f) # Null /\ NextUnused(f) = InitFreeList[i + 1]
      BY <1>3, <1>9, <2>3, <2>6
    <3>2. PICK j \in 1 .. Len(InitFreeList) - 1 :
             /\ InitFreeList[j] = f
             /\ j + 1 \in 1 .. Len(InitFreeList)
             /\ NextUnused(f) = InitFreeList[j + 1]
      BY <3>1, NextUnusedFacts
    <3>3. j + 1 = i + 1
      <4>1. \A k, l \in 1 .. Len(InitFreeList) : InitFreeList[k] = InitFreeList[l] => k = l
        BY TableFacts
      <4>2. InitFreeList[j + 1] = InitFreeList[i + 1]
        BY <3>1, <3>2
      <4> QED BY <2>2, <3>2, <4>1, <4>2
    <3>4. i = j
      BY <3>3, TableFacts
    <3> QED BY <2>2, <3>2, <3>4
  <2> QED BY <2>3, <2>4, <2>5, <2>6
<1>10. \A e \in Event : Spare(e) => e \notin DOMAIN QOfEvent
  BY <1>3 DEF Spare
<1>11. EventChain
  BY <1>4, <1>8, <1>9, <1>10 DEF EventChain
<1>12. ASSUME NEW e \in Event, OSEventType[e] = "MBOX" PROVE OSEventPtr[e] = Null
  BY <1>3, <1>9, <1>12 DEF Spare
<1>13. EventSound
  BY <1>1, <1>2, <1>3, <1>6, <1>12 DEF EventSound
<1>14. \A e \in Event : OSEventPtr[e] \in Event \cup QBlock \cup Message
  BY <1>2, <1>3, <1>6, <1>9
<1> QED BY <1>1, <1>3, <1>8, <1>11, <1>13, <1>14

\* The OS_Q blocks.
LEMMA InitBlocks ==
  ASSUME Init
  PROVE  /\ OSQTbl \in [QBlock -> OS_Q] /\ OSQFreeList \in QBlock \cup {Null}
         /\ Rings /\ QChain
         /\ \A b \in QBlock : OSQTbl[b].OSQSize \in QSizes
                              /\ OSQTbl[b].OSQEntries \in 0 .. OSQTbl[b].OSQSize
<1>1. /\ OSQFreeList = IF Taken = Len(OSQs) THEN Null ELSE OSQs[Taken + 1]
      /\ OSQTbl = [b \in QBlock |-> Ring(InitSize, NextQ(b))]
      /\ pc = [t \in Task |-> "app"]
  BY DEF Init, TasksStarted, OS_QInit
<1>2. /\ Taken \in Nat /\ Len(OSQs) \in Nat /\ Null \notin QBlock
      /\ InitSize \in QSizes /\ InitSize \in Nat
      /\ \A i \in 1 .. Taken : i \in 1 .. Len(OSQs)
  BY TableFacts, MsgAssumption DEF MsgAssumption
<1>3. \A b \in QBlock : NextQ(b) \in QBlock \cup {Null}
  BY NextQFacts, TableFacts
<1>4. \A b \in QBlock :
        /\ OSQTbl[b] \in OS_Q /\ RingAt(OSQTbl[b]) /\ OSQTbl[b].OSQPtr = NextQ(b)
        /\ OSQTbl[b].OSQSize = InitSize /\ OSQTbl[b].OSQEntries = 0
  <2> SUFFICES ASSUME NEW b \in QBlock
               PROVE  /\ OSQTbl[b] \in OS_Q /\ RingAt(OSQTbl[b]) /\ OSQTbl[b].OSQPtr = NextQ(b)
                      /\ OSQTbl[b].OSQSize = InitSize /\ OSQTbl[b].OSQEntries = 0
    OBVIOUS
  <2>1. OSQTbl[b] = Ring(InitSize, NextQ(b)) /\ NextQ(b) \in QBlock \cup {Null}
    BY <1>1, <1>3
  <2>2. OSQTbl[b].OSQSize = InitSize /\ OSQTbl[b].OSQEntries = 0
    BY <2>1 DEF Ring
  <2> QED BY <1>2, <2>1, <2>2, RingIsEmpty
<1>5. \A e \in Event : OSEventType[e] = "Q" <=> e \in DOMAIN QOfEvent
  BY QueueFacts DEF Init
<1>6. \A e \in DOMAIN QOfEvent : OSEventPtr[e] = QOfEvent[e]
  BY QueueFacts DEF Init
<1>7. \A e \in Event, b \in QBlock : HasQ(e, b) <=> e \in DOMAIN QOfEvent /\ QOfEvent[e] = b
  BY <1>5, <1>6 DEF HasQ
<1>8. \A t \in Task, b \in QBlock : ~TakesQ(t, b)
  BY <1>1 DEF TakesQ
<1>9. \A i \in 1 .. Len(OSQs) : Unused(OSQs[i]) <=> i > Taken
  <2> SUFFICES ASSUME NEW i \in 1 .. Len(OSQs) PROVE Unused(OSQs[i]) <=> i > Taken
    OBVIOUS
  <2>1. OSQs[i] \in QBlock
    BY TableFacts
  <2>2. ASSUME i > Taken, NEW e \in Event, HasQ(e, OSQs[i]) PROVE FALSE
    <3>1. PICK j \in 1 .. Taken : QOfEvent[e] = OSQs[j]
      BY <1>7, <2>1, <2>2, QueueFacts
    <3>2. QOfEvent[e] = OSQs[i]
      BY <1>7, <2>1, <2>2
    <3>3. i = j
      BY <1>2, <3>1, <3>2, TableFacts
    <3> QED BY <1>2, <2>2, <3>3
  <2>3. ASSUME ~ (i > Taken) PROVE \E e \in Event : HasQ(e, OSQs[i])
    <3>1. i \in 1 .. Taken
      BY <1>2, <2>3
    <3>2. PICK e \in DOMAIN QOfEvent : QOfEvent[e] = OSQs[i]
      BY <3>1, QueueFacts
    <3> QED BY <1>7, <2>1, <3>2, QueueFacts
  <2> QED BY <1>8, <2>1, <2>2, <2>3 DEF Unused
<1>10. OneOwner
  BY <1>7, <1>8, QueueFacts DEF OneOwner
<1>11. OSQFreeList # Null => Taken + 1 \in 1 .. Len(OSQs) /\ OSQFreeList = OSQs[Taken + 1]
  BY <1>1, <1>2, TableFacts
<1>12. OSQFreeList \in QBlock \cup {Null}
  BY <1>11, TableFacts
<1>13. OSQFreeList # Null => Unused(OSQFreeList)
  BY <1>2, <1>9, <1>11
<1>14. ASSUME NEW b \in QBlock, Unused(b), OSQTbl[b].OSQPtr # Null
       PROVE  /\ Unused(OSQTbl[b].OSQPtr) /\ OSQTbl[b].OSQPtr # OSQFreeList
              /\ \A c \in QBlock : OSQTbl[c].OSQPtr = OSQTbl[b].OSQPtr => b = c
  <2>1. OSQTbl[b].OSQPtr = NextQ(b) /\ NextQ(b) # Null
    BY <1>4, <1>14
  <2>2. PICK i \in 1 .. Len(OSQs) - 1 :
           /\ OSQs[i] = b /\ i + 1 \in 1 .. Len(OSQs) /\ i \in 1 .. Len(OSQs)
           /\ NextQ(b) = OSQs[i + 1]
    BY <2>1, NextQFacts
  <2>3. i > Taken
    BY <1>9, <1>14, <2>2
  <2>4. i + 1 > Taken /\ i + 1 # Taken + 1
    BY <1>2, <2>3
  <2>5. Unused(OSQs[i + 1])
    BY <1>9, <2>2, <2>4
  <2>6. OSQs[i + 1] # OSQFreeList
    <3>1. OSQFreeList # Null => OSQs[Taken + 1] # OSQs[i + 1]
      BY <1>11, <2>2, <2>4, TableFacts
    <3> QED BY <1>11, <2>1, <2>2, <3>1
  <2>7. ASSUME NEW c \in QBlock, OSQTbl[c].OSQPtr = OSQTbl[b].OSQPtr PROVE b = c
    <3>1. NextQ(c) = OSQs[i + 1] /\ NextQ(c) # Null
      BY <1>4, <2>1, <2>2, <2>7
    <3>2. PICK j \in 1 .. Len(OSQs) - 1 :
             OSQs[j] = c /\ j + 1 \in 1 .. Len(OSQs) /\ NextQ(c) = OSQs[j + 1]
      BY <3>1, NextQFacts
    <3>3. j + 1 = i + 1
      BY <2>2, <3>1, <3>2, TableFacts
    <3>4. i = j
      BY <1>2, <3>3
    <3> QED BY <2>2, <3>2, <3>4
  <2> QED BY <2>1, <2>2, <2>5, <2>6, <2>7
<1>15. ASSUME NEW b \in QBlock, Unused(b) PROVE b \in FreeQs
  <2> SUFFICES ASSUME NEW S \in SUBSET QBlock, Closed(S), b \notin S PROVE FALSE
    BY FreeIsClosed
  <2> DEFINE Out == {i \in Nat : i \in 1 .. Len(OSQs) /\ i > Taken /\ OSQs[i] \notin S}
  <2>1. PICK k \in 1 .. Len(OSQs) : OSQs[k] = b
    BY TableFacts
  <2>2. k \in Out
    BY <1>9, <1>15, <2>1
  <2>3. PICK i \in Out : \A j \in Out : i <= j
    <3>1. Out \in SUBSET Nat
      OBVIOUS
    <3> HIDE DEF Out
    <3> QED BY <2>2, <3>1, Least
  <2>4. i \in Nat /\ i \in 1 .. Len(OSQs) /\ i > Taken /\ OSQs[i] \notin S
    OBVIOUS
  <2>5. CASE i = Taken + 1
    <3>1. Taken # Len(OSQs)
      BY <1>2, <2>4, <2>5
    <3>2. OSQFreeList = OSQs[Taken + 1] /\ OSQs[Taken + 1] \in QBlock
      BY <1>1, <2>4, <2>5, <3>1, TableFacts
    <3> QED BY <1>2, <2>4, <2>5, <3>2 DEF Closed
  <2>6. CASE i # Taken + 1
    <3>1. /\ i - 1 \in Nat /\ i - 1 \in 1 .. Len(OSQs) /\ i - 1 > Taken /\ ~ (i <= i - 1)
          /\ i - 1 \in 1 .. Len(OSQs) - 1 /\ (i - 1) + 1 = i
      BY <1>2, <2>4, <2>6
    <3>2. i - 1 \notin Out
      BY <2>3, <3>1
    <3>3. OSQs[i - 1] \in S
      BY <3>1, <3>2
    <3>4. NextQ(OSQs[i - 1]) = OSQs[i]
      BY <3>1, NextQFacts
    <3>5. OSQs[i - 1] \in QBlock /\ OSQs[i] \in QBlock
      BY <2>4, <3>1, TableFacts
    <3>6. OSQTbl[OSQs[i - 1]].OSQPtr = OSQs[i]
      BY <1>4, <3>4, <3>5
    <3> QED BY <1>2, <2>4, <3>3, <3>5, <3>6 DEF Closed
  <2> QED BY <2>5, <2>6
<1>16. QLinks
  BY <1>13, <1>14, <1>15 DEF QLinks
<1>17. OSQTbl \in [QBlock -> OS_Q]
  BY <1>1, <1>4
<1> QED BY <1>2, <1>4, <1>10, <1>12, <1>16, <1>17, QChainParts DEF Rings

\* The invariant holds when the system starts.
LEMMA InitInv ==
  Init => IInv
<1> SUFFICES ASSUME Init PROVE IInv
  OBVIOUS
<1>1. /\ OSRdy = {InitPrio[t] : t \in Task} /\ OSTCBPrio = InitPrio
      /\ OSTCBStat = [t \in Task |-> {}] /\ OSTCBStatPend = [t \in Task |-> "OK"]
      /\ OSTCBDly = [t \in Task |-> 0] /\ OSTCBEventPtr = [t \in Task |-> Null]
      /\ OSEventWait = [e \in Event |-> {}]
      /\ OSPrioHighRdy \in OSRdy
      /\ OSTCBHighRdy = CreatedTasks[OSPrioHighRdy]
      /\ OSPrioCur = OSPrioHighRdy /\ OSTCBCur = OSTCBHighRdy
      /\ PendSV = FALSE /\ OSIntNesting = 0 /\ OSLockNesting = 0
      /\ ptcb = <<>> /\ tickNest = 0
      /\ pc = [t \in Task |-> "app"] /\ pevent = [t \in Task |-> Null]
      /\ OSTCBPrioTbl = CreatedTasks
      /\ OSTCBMsg = [t \in Task |-> Null] /\ OSTCBEventMultiPtr = [t \in Task |-> <<>>]
      /\ OSTCBEventMultiRdy = [t \in Task |-> Null]
  BY DEF Init, TasksStarted
<1>2. /\ \A t \in Task : InitPrio[t] \in Prio
      /\ MaxDly \in Nat /\ MaxNest \in Nat /\ MaxLock \in Nat
      /\ InitPrio \in [Task -> Prio] /\ OSTCBList \in Seq(Task \ {Idle})
      /\ Null \in Message /\ Null \notin Task
  BY CoreAssumption DEF CoreAssumption, Message
<1>3. PICK u \in Task : OSPrioHighRdy = InitPrio[u]
  BY <1>1
<1>4. OSTCBHighRdy = u /\ OSTCBCur = u /\ OSPrioCur = InitPrio[u] /\ InitPrio[u] \in Prio
  BY <1>1, <1>3, CreatedFacts
<1>5. TcbTypeOK /\ ReadyTypeOK /\ SwitchTypeOK /\ NestTypeOK
  <2>1. TcbTypeOK
    BY <1>1, <1>2 DEF TcbTypeOK
  <2>2. ReadyTypeOK
    BY <1>1, <1>2, CreatedFacts DEF ReadyTypeOK
  <2>3. SwitchTypeOK
    BY <1>1, <1>3, <1>4 DEF SwitchTypeOK
  <2>4. NestTypeOK
    BY <1>1, <1>2 DEF NestTypeOK
  <2> QED BY <2>1, <2>2, <2>3, <2>4
<1>6. TickTypeOK
  <2>1. <<>> \in Seq(Task \ {Idle})
    OBVIOUS
  <2> QED BY <1>1, <1>2, <2>1 DEF TickTypeOK
<1>7. TypeOK
  BY <1>1, <1>2, <1>5, <1>6, InitEvents, InitBlocks DEF TypeOK
<1>8. WideTypeOK
  BY <1>1, InitBlocks DEF WideTypeOK, MsgPlaces, Args
<1>9. TickSound
  BY <1>1 DEF TickSound
<1>10. PrioTblSound
  BY <1>1, CreatedFacts DEF PrioTblSound
<1>11. \A t \in Task : Awaited(t) = {} /\ Done(t)
  <2>1. Range(<<>>) = {}
    BY DEF Range
  <2> QED BY <1>1, <2>1 DEF Awaited, Done
<1>12. OnAwaitedLists /\ ListsNamed
  BY <1>1, <1>11 DEF OnAwaitedLists, ListsNamed
<1>13. PendSound
  BY <1>1, <1>11 DEF PendSound, PendAt
<1>14. RdySound
  BY <1>1, <1>11, CreatedFacts DEF RdySound
<1>15. WakeSound
  BY <1>1, <1>11 DEF WakeSound
<1>16. CurSound /\ SwitchSound /\ LockSound
  BY <1>1, <1>3, <1>4, CreatedFacts DEF CurSound, SwitchSound, LockSound
<1>17. CallSound
  BY <1>1, ServiceFacts DEF CallSound, CallAt, PendPlaces
<1> QED
  BY <1>7, <1>8, <1>9, <1>10, <1>12, <1>13, <1>14, <1>15, <1>16, <1>17, InitEvents, InitBlocks
  DEF IInv

-----------------------------------------------------------------------------
(* The theorems.                                                           *)

\* The invariant is inductive for applications that keep to the rules.
LEMMA Inductive ==
  ASSUME PrioDiscipline, IInv, [Next]_vars, [Disciplined]_vars
  PROVE  IInv'
<1>1. CASE Disciplined
  BY <1>1, TypeStep, TickStep, PrioTblStep, ListsStep, NamedStep, PendStep, RdyStep,
     WakeSoundStep, CurStep, SwitchStep, LockStep, CallStep, EventStep, EventChainStep,
     ObjectTypesStep, QChainStep
  DEF IInv
<1>2. CASE UNCHANGED vars
  <2>1. UNCHANGED <<tcbVars, eventVars, readyVars, switchVars, nestVars, tickVars, flowVars>>
    BY <1>2 DEF vars, coreVars
  <2>2. UNCHANGED <<OSTCBMsg, OSTCBEventMultiPtr, OSTCBEventMultiRdy, OSQTbl, OSQFreeList>>
    BY <1>2 DEF vars, msgVars, multiVars, qVars
  <2>3. TypeOK' /\ WideTypeOK'
    BY <2>1, <2>2, FrameTypes DEF IInv, TypeOK, WideTypeOK, eventVars, flowVars
  <2>4. \A t \in Task : (Awaited(t)' = Awaited(t)) /\ (Done(t)' <=> Done(t))
    BY <2>1, <2>2 DEF tcbVars, Awaited, Done
  <2>5. TickSound' /\ PrioTblSound' /\ ListsNamed'
    BY <2>1 DEF IInv, tcbVars, readyVars, tickVars, eventVars, TickSound, PrioTblSound,
                ListsNamed
  <2>6. OnAwaitedLists' /\ PendSound' /\ RdySound'
    BY <2>1, <2>2, <2>4
    DEF IInv, tcbVars, readyVars, eventVars, flowVars, OnAwaitedLists, PendSound, PendAt,
        RdySound
  <2>7. WakeSound'
    BY <2>1, <2>2, <2>4 DEF IInv, tcbVars, readyVars, eventVars, flowVars, WakeSound
  <2>8. CurSound' /\ SwitchSound' /\ LockSound'
    BY <2>1
    DEF IInv, tcbVars, readyVars, switchVars, nestVars, flowVars, CurSound, SwitchSound, Runs,
        LockSound
  <2>9. CallSound' /\ EventSound'
    BY <2>1 DEF IInv, eventVars, flowVars, CallSound, CallAt, EventSound
  <2>10. EventChain'
    BY <2>1 DEF IInv, eventVars, flowVars, EventChain, Holds, Spare
  <2>11. Rings'
    BY <2>2 DEF IInv, Rings
  <2>12. QChain'
    <3>1. /\ \A e \in Event, b \in QBlock : HasQ(e, b)' <=> HasQ(e, b)
          /\ \A t \in Task, b \in QBlock : TakesQ(t, b)' <=> TakesQ(t, b)
      BY <2>1 DEF eventVars, flowVars, HasQ, TakesQ
    <3>2. OneOwner' /\ QLinks'
      BY <2>2, <3>1, OwnersStay
    <3> QED BY <3>2 DEF QChain, OneOwner, QLinks
  <2> QED
    BY <2>3, <2>5, <2>6, <2>7, <2>8, <2>9, <2>10, <2>11, <2>12 DEF IInv
<1> QED BY <1>1, <1>2

\* Every state that such an application reaches satisfies it.
THEOREM Invariance ==
  ASSUME PrioDiscipline
  PROVE  Spec /\ [][Disciplined]_vars => []IInv
<1>1. IInv /\ [Next]_vars /\ [Disciplined]_vars => IInv'
  BY Inductive
<1> QED BY InitInv, <1>1, PTL DEF Spec

\* The kernel's variables keep their types.
THEOREM TypeCorrect ==
  ASSUME PrioDiscipline
  PROVE  Spec /\ [][Disciplined]_vars => []TypeOK
<1>1. IInv => TypeOK
  BY DEF IInv
<1> QED BY Invariance, <1>1, PTL

\* A task is on the wait lists of exactly the events it waits for: a post, an
\* abort or a deletion takes it off all of them at once, a timeout takes it off
\* when it runs again, and a change of priority moves it on all of them.
THEOREM WaitListsAreExact ==
  ASSUME PrioDiscipline
  PROVE  Spec /\ [][Disciplined]_vars => []OnAwaitedLists
<1>1. IInv => OnAwaitedLists
  BY DEF IInv
<1> QED BY Invariance, <1>1, PTL

\* A task is ready exactly if it is not suspended, delayed or waiting, unless
\* the application both suspends tasks and pends on several events.
THEOREM ReadyWhenDone ==
  ASSUME PrioDiscipline, NoSuspension \/ NoMulti
  PROVE  Spec /\ [][Disciplined]_vars => []ReadyIffDone
<1>1. IInv => ReadyIffDone
  BY DEF IInv, RdySound, WakeSound, Done, ReadyIffDone
<1> QED BY Invariance, <1>1, PTL

\* The indices of a queue fit the number of its messages, whichever end the
\* posts fill it from.
LEMMA RingIndices ==
  ASSUME NEW q \in OS_Q, RingAt(q), q.OSQSize > 0
  PROVE  /\ q.OSQIn \in 0 .. q.OSQSize - 1 /\ q.OSQOut \in 0 .. q.OSQSize - 1
         /\ (q.OSQOut + q.OSQEntries) % q.OSQSize = q.OSQIn
<1>1. PICK s \in Nat : s = q.OSQSize
  BY OS_QFacts
<1>2. PICK n \in Nat : n = q.OSQEntries
  BY OS_QFacts
<1>3. PICK in \in Nat : in = q.OSQIn
  BY OS_QFacts
<1>4. PICK out \in Nat : out = q.OSQOut
  BY OS_QFacts
<1>5. s > 0 /\ in < s /\ out < s /\ (out + n = in \/ out + n = in + s)
  BY <1>1, <1>2, <1>3, <1>4 DEF RingAt
<1>6. in % s = in /\ (in + s) % s = in
  BY <1>5
<1>7. in \in 0 .. s - 1 /\ out \in 0 .. s - 1 /\ (out + n) % s = in
  BY <1>5, <1>6
<1> QED BY <1>1, <1>2, <1>3, <1>4, <1>7

\* The indices of every queue are inside its ring and agree with the number of
\* its messages: posts to both ends, reads, flushes and creation in a block
\* used before keep OSQIn and OSQOut in step with OSQEntries.
THEOREM RingsAreSound ==
  ASSUME PrioDiscipline
  PROVE  Spec /\ [][Disciplined]_vars => []RingSound
<1>1. IInv => RingSound
  <2> SUFFICES ASSUME IInv, NEW e \in Event, OSEventType[e] = "Q",
                      OSQTbl[OSEventPtr[e]].OSQSize > 0
               PROVE  LET q == OSQTbl[OSEventPtr[e]]
                      IN  /\ q.OSQIn \in 0 .. q.OSQSize - 1 /\ q.OSQOut \in 0 .. q.OSQSize - 1
                          /\ (q.OSQOut + q.OSQEntries) % q.OSQSize = q.OSQIn
    BY DEF RingSound, IInv
  <2>1. OSQTbl[OSEventPtr[e]] \in OS_Q /\ RingAt(OSQTbl[OSEventPtr[e]])
    BY Types DEF IInv, EventSound, Rings
  <2> QED BY <2>1, RingIndices
<1> QED BY Invariance, <1>1, PTL

\* Every OS_Q is unused, or belongs to one queue or to one task that creates
\* one: none is lost and no two queues share one, however creations and
\* deletions interleave.
THEOREM BlocksArePartitioned ==
  ASSUME PrioDiscipline
  PROVE  Spec /\ [][Disciplined]_vars => []QBlocksPartitioned
<1>1. ASSUME IInv PROVE QBlocksPartitioned
  <2> SUFFICES ASSUME NEW b \in QBlock
               PROVE  LET owners == {e \in Event : OSEventType[e] = "Q" /\ OSEventPtr[e] = b}
                      IN  IF b \in FreeQs
                            THEN owners = {} /\ Creating(b) = {}
                            ELSE Cardinality(owners) + Cardinality(Creating(b)) = 1
    BY DEF QBlocksPartitioned
  <2> DEFINE owners == {e \in Event : OSEventType[e] = "Q" /\ OSEventPtr[e] = b}
  <2>1. /\ \A e \in Event : e \in owners <=> HasQ(e, b)
        /\ \A t \in Task : t \in Creating(b) <=> TakesQ(t, b)
        /\ owners \subseteq Event /\ Creating(b) \subseteq Task
    BY DEF HasQ, TakesQ, Creating
  <2>2. QLinks /\ OneOwner
    BY <1>1, QTypes
  <2> HIDE DEF owners
  <2>3. CASE b \in FreeQs
    <3>1. Unused(b)
      BY <1>1, <2>3, FreeIsUnused
    <3>2. owners = {} /\ Creating(b) = {}
      BY <2>1, <3>1 DEF Unused
    <3> QED BY <2>3, <3>2 DEF owners
  <2>4. CASE b \notin FreeQs
    <3>1. ~Unused(b)
      BY <2>2, <2>4 DEF QLinks
    <3>2. CASE \E e \in Event : HasQ(e, b)
      <4>1. PICK e \in Event : HasQ(e, b)
        BY <3>2
      <4>2. owners = {e} /\ Creating(b) = {}
        BY <2>1, <2>2, <4>1 DEF OneOwner
      <4>3. Cardinality(owners) = 1 /\ Cardinality(Creating(b)) = 0
        BY <4>2, FS_Singleton, FS_EmptySet
      <4> QED BY <2>4, <4>3 DEF owners
    <3>3. CASE \E t \in Task : TakesQ(t, b)
      <4>1. PICK t \in Task : TakesQ(t, b)
        BY <3>3
      <4>2. owners = {} /\ Creating(b) = {t}
        BY <2>1, <2>2, <4>1 DEF OneOwner
      <4>3. Cardinality(owners) = 0 /\ Cardinality(Creating(b)) = 1
        BY <4>2, FS_Singleton, FS_EmptySet
      <4> QED BY <2>4, <4>3 DEF owners
    <3> QED BY <3>1, <3>2, <3>3 DEF Unused
  <2> QED BY <2>3, <2>4 DEF owners
<1>2. IInv => QBlocksPartitioned
  BY <1>1
<1> QED BY Invariance, <1>2, PTL

=============================================================================
