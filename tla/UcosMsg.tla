------------------------------- MODULE UcosMsg -------------------------------
(***************************************************************************)
(* Message queues (uC-OS2/Source/os_q.c), mailboxes (os_mbox.c) and the      *)
(* pend on several of them at once (OSEventPendMulti, os_core.c), on the    *)
(* kernel of UcosCore with OS_EVENT_MULTI_EN.                               *)
(*                                                                         *)
(* OSEventPtr has one meaning for each type of event: the OS_Q of a queue,  *)
(* the message in a mailbox, the next control block while it is unused.     *)
(* A queue may hold the message NULL, a mailbox may not.                    *)
(*                                                                         *)
(* As in UcosSem the type of an event is checked with interrupts enabled,   *)
(* and the critical section is a later step, except in an ISR.  OSQQuery    *)
(* and OSMboxQuery copy the state out and change nothing.  Semaphores among *)
(* the events of a multi-pend are left out.                                 *)
(*                                                                         *)
(* As in UcosCore, a mutant is the definition that follows it with a bug.   *)
(***************************************************************************)
EXTENDS UcosTask, SequencesExt

CONSTANTS
  Msg,           \* the messages other than NULL
  OSQs,          \* the OS_Q control blocks, in the order of OSQTbl
  QOfEvent,      \* the OS_Q of each event that is a queue before OSStart
  QSizes,        \* the sizes a queue may be created with
  InitSize,      \* the size of the queues created before OSStart
  PendArrays     \* the arrays of events passed to OSEventPendMulti

MaxSize == CHOOSE n \in QSizes : \A m \in QSizes : m <= n

Message == Msg \cup {Null}

QBlock == Range(OSQs)

ASSUME MsgAssumption ==
  /\ QSizes \subseteq Nat /\ InitSize \in QSizes
  /\ Null \notin Msg /\ Msg \cap (Event \cup QBlock) = {}
  /\ Null \notin QBlock /\ Event \cap QBlock = {}
  /\ PendArrays \subseteq Seq(Event) \ {<<>>}
  /\ Event \cap (PendArrays \cup Event \X QBlock) = {} /\ Null \notin PendArrays

VARIABLES
  OSTCBMsg,          \* per task: the message handed to it
  OSTCBEventMultiPtr,\* per task: the array it pends on, <<>> if none
  OSTCBEventMultiRdy,\* per task: the event of that array that was posted
  OSQTbl,            \* per OS_Q: its fields
  OSQFreeList        \* the first unused OS_Q, or Null

multiVars == <<OSTCBEventMultiPtr, OSTCBEventMultiRdy>>
qVars == <<OSQTbl, OSQFreeList>>
msgVars == <<OSTCBMsg, multiVars, qVars>>
vars == <<coreVars, msgVars>>

-----------------------------------------------------------------------------
(* The ring buffer of an OS_Q: OSQIn and OSQOut count from OSQStart.        *)

\* An index that has reached OSQEnd goes back to OSQStart.
Wrap(i, size) == IF i = size THEN 0 ELSE i

Ring(size, ptr) ==
  [OSQPtr |-> ptr, OSQIn |-> 0, OSQOut |-> 0, OSQSize |-> size, OSQEntries |-> 0,
   buf |-> [i \in 0 .. MaxSize - 1 |-> Null]]

Full(q) == q.OSQEntries >= q.OSQSize

Extracted(q) == [q EXCEPT !.OSQOut = Wrap(@ + 1, q.OSQSize), !.OSQEntries = @ - 1]

PutBack(q, pmsg) ==
  [q EXCEPT !.buf[q.OSQIn] = pmsg, !.OSQIn = Wrap(@ + 1, q.OSQSize),
            !.OSQEntries = @ + 1]

\* Mutant: the slot is written before OSQOut is moved.
PutFront_Early(q, pmsg) ==
  [q EXCEPT !.buf[q.OSQOut] = pmsg,
            !.OSQOut = (IF @ = 0 THEN q.OSQSize ELSE @) - 1,
            !.OSQEntries = @ + 1]

PutFront(q, pmsg) ==
  LET out == (IF q.OSQOut = 0 THEN q.OSQSize ELSE q.OSQOut) - 1
  IN  [q EXCEPT !.buf[out] = pmsg, !.OSQOut = out, !.OSQEntries = @ + 1]

\* Mutant: OSQOut is left where it was.
Flushed_OutKept(q) == [q EXCEPT !.OSQIn = 0, !.OSQEntries = 0]

Flushed(q) == [q EXCEPT !.OSQIn = 0, !.OSQOut = 0, !.OSQEntries = 0]

-----------------------------------------------------------------------------
(* Wait lists, with messages and with tasks that are on several of them.    *)

\* Mutant: the task stays on the other lists of its array.
Lists_First(t, e) == {e}

\* The lists OS_EventTaskRdy takes t off when e is posted.
Lists(t, e) == {e} \cup Range(OSTCBEventMultiPtr[t])

\* OS_EventTaskRdy for the waiters W of e, with a message for each of them.
OS_EventTaskRdyMsg(e, W, pmsg, msk, pendStat) ==
  LET T == {OSTCBPrioTbl[p] : p \in W}
      multi(t) == t \in T /\ OSTCBEventMultiPtr[t] # <<>>
      set(f, v) == [t \in Task |-> IF t \in T THEN v ELSE f[t]]
  IN  /\ OSTCBDly' = set(OSTCBDly, 0)
      /\ OSTCBMsg' = set(OSTCBMsg, pmsg)
      /\ OSTCBStat' = [t \in Task |->
                         IF t \in T THEN OSTCBStat[t] \ {msk} ELSE OSTCBStat[t]]
      /\ OSTCBStatPend' = set(OSTCBStatPend, pendStat)
      /\ OSTCBEventPtr' = set(OSTCBEventPtr, Null)
      /\ OSEventWait' = [f \in Event |->
           OSEventWait[f] \ {OSTCBPrio[t] : t \in {u \in T : f \in Lists(u, e)}}]
      /\ OSTCBEventMultiPtr' = set(OSTCBEventMultiPtr, <<>>)
      /\ OSTCBEventMultiRdy' = [t \in Task |->
                                  IF multi(t) THEN e ELSE OSTCBEventMultiRdy[t]]
      /\ MakeReady(T)
      /\ UNCHANGED OSTCBPrio

\* Mutant: any waiter may be served.
ReadyWaiters_Any(e, all, pmsg, msk, pendStat) ==
  \E W \in SUBSET OSEventWait[e] :
    /\ W # {} /\ (all => W = OSEventWait[e])
    /\ OS_EventTaskRdyMsg(e, W, pmsg, msk, pendStat)

\* Ready the highest waiter of e, or all of them.
ReadyWaiters(e, all, pmsg, msk, pendStat) ==
  \E W \in SUBSET OSEventWait[e] :
    /\ \/ all /\ W = OSEventWait[e]
       \/ ~all /\ \E p \in OSEventWait[e] : IsHighest(p, OSEventWait[e]) /\ W = {p}
    /\ OS_EventTaskRdyMsg(e, W, pmsg, msk, pendStat)

\* What ReadyWaiters would change.
NoneReadied == UNCHANGED <<tcbVars, OSEventWait, OSRdy, OSTCBMsg, multiVars>>

-----------------------------------------------------------------------------
(* The services up to their critical sections.                             *)

\* The type each service demands, and the status bit it pends with.
ServiceType ==
  [OSQPend |-> "Q", OSQPost |-> "Q", OSQPostFront |-> "Q", OSQPostOpt |-> "Q",
   OSQAccept |-> "Q", OSQFlush |-> "Q", OSQPendAbort |-> "Q", OSQDel |-> "Q",
   OSMboxPend |-> "MBOX", OSMboxPost |-> "MBOX", OSMboxPostOpt |-> "MBOX",
   OSMboxAccept |-> "MBOX", OSMboxPendAbort |-> "MBOX", OSMboxDel |-> "MBOX"]

\* A task passes the type check of the service.
OSMsg_Enter(service, e) ==
  /\ TaskCall(service)
  /\ OSEventType[e] = ServiceType[service]
  /\ service \in {"OSQPend", "OSMboxPend"} => OSLockNesting = 0
  /\ GoTo(service, e)
  /\ KernelUnchanged
  /\ UNCHANGED <<eventVars, msgVars>>

AtSection(service, e) ==
  \/ InTask(service) /\ pevent[OSTCBCur] = e
  \/ IsrCall(service) /\ OSEventType[e] = ServiceType[service]

\* A message is there for the taking in e.
Available(e) ==
  IF OSEventType[e] = "Q" THEN OSQTbl[OSEventPtr[e]].OSQEntries > 0
                          ELSE OSEventPtr[e] # Null

\* The first message is taken out of each event of S.
TakeFrom(S) ==
  LET Qs == {OSEventPtr[e] : e \in {f \in S : OSEventType[f] = "Q"}}
  IN  /\ OSQTbl' = [b \in QBlock |-> IF b \in Qs THEN Extracted(OSQTbl[b]) ELSE OSQTbl[b]]
      /\ OSEventPtr' = [e \in Event |-> IF e \in S /\ OSEventType[e] = "MBOX"
                                          THEN Null ELSE OSEventPtr[e]]

Take(service, e) ==
  /\ AtSection(service, e)
  /\ Available(e)
  /\ TakeFrom({e})
  /\ Returns(FALSE)
  /\ KernelUnchanged
  /\ UNCHANGED <<OSEventType, OSEventWait, OSEventFreeList, OSTCBMsg, multiVars,
                 OSQFreeList>>

\* OSQAccept and OSMboxAccept, with or without a message.
Accept(service, e) ==
  \/ Take(service, e)
  \/ /\ AtSection(service, e)
     /\ ~Available(e)
     /\ Returns(FALSE)
     /\ KernelUnchanged
     /\ UNCHANGED <<eventVars, msgVars>>

\* No message: wait for one.
Block(service, e, timeout) ==
  /\ InTask(service) /\ pevent[OSTCBCur] = e
  /\ ~Available(e)
  /\ OSTCBStat' = [OSTCBStat EXCEPT ![OSTCBCur] = @ \cup {ServiceType[service]}]
  /\ OSTCBStatPend' = [OSTCBStatPend EXCEPT ![OSTCBCur] = "OK"]
  /\ OSTCBDly' = [OSTCBDly EXCEPT ![OSTCBCur] = timeout]
  /\ OS_EventTaskWait(e)
  /\ GoTo("OSPend_Sched", e)
  /\ SwitchUnchanged
  /\ UNCHANGED <<OSTCBPrio, OSEventType, OSEventFreeList, msgVars>>

\* The end of OSQPend and OSMboxPend after a wait.
OSMsgPend_Tail ==
  /\ pevent[OSTCBCur] \in Event
  /\ OSPend_Tail
  /\ OSTCBMsg' = [OSTCBMsg EXCEPT ![OSTCBCur] = Null]
  /\ OSTCBEventMultiPtr' = [OSTCBEventMultiPtr EXCEPT ![OSTCBCur] = <<>>]
  /\ OSTCBEventMultiRdy' = [OSTCBEventMultiRdy EXCEPT ![OSTCBCur] = Null]
  /\ UNCHANGED qVars

\* OSQPendAbort and OSMboxPendAbort; all is OS_PEND_OPT_BROADCAST.
PendAbort(service, e, all) ==
  /\ AtSection(service, e)
  /\ IF OSEventWait[e] # {}
       THEN ReadyWaiters(e, all, Null, ServiceType[service], "ABORT") /\ Returns(TRUE)
       ELSE NoneReadied /\ Returns(FALSE)
  /\ SwitchUnchanged
  /\ UNCHANGED <<OSEventType, OSEventFreeList, qVars>>

-----------------------------------------------------------------------------
(* Posts.                                                                  *)

\* What the options of the three posts may be, as sets of OS_POST_OPT_ bits.
PostOpts ==
  [OSQPost |-> {{}}, OSQPostFront |-> {{"FRONT"}},
   OSQPostOpt |-> SUBSET {"BROADCAST", "FRONT", "NO_SCHED"},
   OSMboxPost |-> {{}}, OSMboxPostOpt |-> SUBSET {"BROADCAST", "NO_SCHED"}]

\* A post while tasks wait: the message goes to the highest, or to all.
HandOver(service, e, pmsg, opt) ==
  /\ AtSection(service, e)
  /\ OSEventWait[e] # {}
  /\ opt \in PostOpts[service]
  /\ ReadyWaiters(e, "BROADCAST" \in opt, pmsg, ServiceType[service], "OK")
  /\ Returns("NO_SCHED" \notin opt)
  /\ SwitchUnchanged
  /\ UNCHANGED <<OSEventType, OSEventFreeList, qVars>>

\* OSQPost, OSQPostFront and OSQPostOpt without a waiter; a full queue
\* refuses the message.
OSQPost_Store(service, e, pmsg, opt) ==
  LET pq == OSEventPtr[e]
  IN  /\ AtSection(service, e)
      /\ OSEventWait[e] = {}
      /\ opt \in PostOpts[service]
      /\ OSQTbl' = [OSQTbl EXCEPT ![pq] =
                      CASE Full(@) -> @
                        [] ~Full(@) /\ "FRONT" \in opt -> PutFront(@, pmsg)
                        [] OTHER -> PutBack(@, pmsg)]
      /\ Returns(FALSE)
      /\ KernelUnchanged
      /\ UNCHANGED <<eventVars, OSTCBMsg, multiVars, OSQFreeList>>

\* OSMboxPost and OSMboxPostOpt without a waiter; a full mailbox refuses.
OSMboxPost_Store(service, e, pmsg) ==
  /\ AtSection(service, e)
  /\ OSEventWait[e] = {}
  /\ OSEventPtr' = [OSEventPtr EXCEPT ![e] = IF @ = Null THEN pmsg ELSE @]
  /\ Returns(FALSE)
  /\ KernelUnchanged
  /\ UNCHANGED <<OSEventType, OSEventWait, OSEventFreeList, msgVars>>

OSQFlush(e) ==
  /\ AtSection("OSQFlush", e)
  /\ OSQTbl' = [OSQTbl EXCEPT ![OSEventPtr[e]] = Flushed(@)]
  /\ Returns(FALSE)
  /\ KernelUnchanged
  /\ UNCHANGED <<eventVars, OSTCBMsg, multiVars, OSQFreeList>>

-----------------------------------------------------------------------------
(* Deletion and creation.                                                  *)

\* Mutant: the OS_Q is not given back.
GivesBackQ_Leaked(e) == UNCHANGED qVars

\* The OS_Q of a deleted queue goes to the head of the free list.
GivesBackQ(e) ==
  IF OSEventType[e] = "Q"
    THEN /\ OSQTbl' = [OSQTbl EXCEPT ![OSEventPtr[e]].OSQPtr = OSQFreeList]
         /\ OSQFreeList' = OSEventPtr[e]
    ELSE UNCHANGED qVars

\* OSQDel and OSMboxDel; always is OS_DEL_ALWAYS, OS_DEL_NO_PEND refuses if a
\* task is waiting.
Delete(service, e, always) ==
  /\ InTask(service) /\ pevent[OSTCBCur] = e
  /\ IF OSEventWait[e] = {} \/ always
       THEN /\ ReadyWaiters(e, TRUE, Null, ServiceType[service], "ABORT")
            /\ GivesBackQ(e)
            /\ OSEventType' = [OSEventType EXCEPT ![e] = "UNUSED"]
            /\ OSEventPtr' = [OSEventPtr EXCEPT ![e] = OSEventFreeList]
            /\ OSEventFreeList' = e
            /\ Returns(OSEventWait[e] # {})
       ELSE NoneReadied /\ Returns(FALSE)
            /\ UNCHANGED <<OSEventType, OSEventPtr, OSEventFreeList, qVars>>
  /\ UNCHANGED <<OSTCBPrioTbl, switchVars, nestVars, tickVars>>

\* OSQCreate and OSMboxCreate take a control block off the free list.
Create(service) ==
  /\ TaskCall(service)
  /\ OSEventFreeList # Null
  /\ OSEventFreeList' = OSEventPtr[OSEventFreeList]
  /\ GoTo(service, OSEventFreeList)
  /\ KernelUnchanged
  /\ UNCHANGED <<OSEventType, OSEventWait, OSEventPtr, msgVars>>

\* The fields are set outside the critical section: nobody else knows the
\* control block yet.
Initialise(e, type, ptr) ==
  /\ OSEventType' = [OSEventType EXCEPT ![e] = type]
  /\ OSEventPtr' = [OSEventPtr EXCEPT ![e] = ptr]
  /\ OSEventWait' = [OSEventWait EXCEPT ![e] = {}]
  /\ Returns(FALSE)
  /\ KernelUnchanged
  /\ UNCHANGED <<OSEventFreeList, OSTCBMsg, multiVars>>

OSMboxCreate_Fields(pmsg) ==
  /\ InTask("OSMboxCreate")
  /\ Initialise(pevent[OSTCBCur], "MBOX", pmsg)
  /\ UNCHANGED qVars

\* No OS_Q is left: the event control block goes back.
OSQCreate_NoQ ==
  LET e == pevent[OSTCBCur]
  IN  /\ InTask("OSQCreate") /\ e \in Event
      /\ OSQFreeList = Null
      /\ OSEventPtr' = [OSEventPtr EXCEPT ![e] = OSEventFreeList]
      /\ OSEventFreeList' = e
      /\ Returns(FALSE)
      /\ KernelUnchanged
      /\ UNCHANGED <<OSEventType, OSEventWait, msgVars>>

\* The second critical section takes an OS_Q.
OSQCreate_TakeQ ==
  LET e == pevent[OSTCBCur]
  IN  /\ InTask("OSQCreate") /\ e \in Event
      /\ OSQFreeList # Null
      /\ OSQFreeList' = OSQTbl[OSQFreeList].OSQPtr
      /\ GoTo("OSQCreate", <<e, OSQFreeList>>)
      /\ KernelUnchanged
      /\ UNCHANGED <<eventVars, OSTCBMsg, multiVars, OSQTbl>>

\* Then the fields of both; what the buffer holds does not matter yet.
OSQCreate_Fields(size) ==
  LET arg == pevent[OSTCBCur]
      pq == arg[2]
  IN  /\ InTask("OSQCreate") /\ arg \notin Event
      /\ OSQTbl' = [OSQTbl EXCEPT ![pq] = Ring(size, @.OSQPtr)]
      /\ Initialise(arg[1], "Q", pq)
      /\ UNCHANGED OSQFreeList

-----------------------------------------------------------------------------
(* OSEventPendMulti.                                                       *)

IsMsgEvent(e) == e \in Event /\ OSEventType[e] \in {"Q", "MBOX"}

\* Every event of the array passes the type check.
OSEventPendMulti_Enter(pevents) ==
  /\ TaskCall("OSEventPendMulti")
  /\ OSLockNesting = 0
  /\ \A e \in Range(pevents) : IsMsgEvent(e)
  /\ GoTo("OSEventPendMulti", pevents)
  /\ KernelUnchanged
  /\ UNCHANGED <<eventVars, msgVars>>

\* The events of the array up to the first whose type is wrong by now.
Checked(pevents) ==
  {pevents[i] : i \in {j \in DOMAIN pevents : \A k \in 1 .. j : IsMsgEvent(pevents[k])}}

\* Messages are taken from all events that have one; the call returns with
\* them, or with OS_ERR_EVENT_TYPE if an event was deleted meanwhile.
OSEventPendMulti_Take ==
  LET pevents == pevent[OSTCBCur]
      rdy == {e \in Checked(pevents) : Available(e)}
  IN  /\ InTask("OSEventPendMulti")
      /\ rdy # {} \/ Checked(pevents) # Range(pevents)
      /\ TakeFrom(rdy)
      /\ Returns(FALSE)
      /\ KernelUnchanged
      /\ UNCHANGED <<OSEventType, OSEventWait, OSEventFreeList, OSTCBMsg, multiVars,
                     OSQFreeList>>

\* OS_EventTaskWaitMulti: unlike OS_EventTaskWait it leaves OSTCBEventPtr.
OS_EventTaskWaitMulti(pevents) ==
  /\ OSTCBEventMultiPtr' = [OSTCBEventMultiPtr EXCEPT ![OSTCBCur] = pevents]
  /\ OSTCBEventMultiRdy' = [OSTCBEventMultiRdy EXCEPT ![OSTCBCur] = Null]
  /\ OSEventWait' = [e \in Event |-> IF e \in Range(pevents)
                                       THEN OSEventWait[e] \cup {OSTCBPrio[OSTCBCur]}
                                       ELSE OSEventWait[e]]
  /\ OSRdy' = OSRdy \ {OSTCBPrio[OSTCBCur]}

\* None has a message: wait for all of them, with the bits of all their types.
OSEventPendMulti_Block(timeout) ==
  LET pevents == pevent[OSTCBCur]
      bits == {OSEventType[e] : e \in Range(pevents)} \cup {"MULTI"}
  IN  /\ InTask("OSEventPendMulti")
      /\ \A e \in Range(pevents) : IsMsgEvent(e) /\ ~Available(e)
      /\ OSTCBStat' = [OSTCBStat EXCEPT ![OSTCBCur] = @ \cup bits]
      /\ OSTCBStatPend' = [OSTCBStatPend EXCEPT ![OSTCBCur] = "OK"]
      /\ OSTCBDly' = [OSTCBDly EXCEPT ![OSTCBCur] = timeout]
      /\ OS_EventTaskWaitMulti(pevents)
      /\ GoTo("OSPend_Sched", pevents)
      /\ SwitchUnchanged
      /\ UNCHANGED <<OSTCBPrio, OSTCBEventPtr, OSEventType, OSEventFreeList, OSTCBMsg,
                     qVars>>

OS_EventTaskRemoveMulti(t, pevents) ==
  [e \in Event |-> IF e \in Range(pevents) THEN OSEventWait[e] \ {OSTCBPrio[t]}
                                           ELSE OSEventWait[e]]

\* The event that was posted has been deleted before its waiter ran: the call
\* returns OS_ERR_EVENT_TYPE at once and leaves the control block as it is.
OSEventPendMulti_Deleted ==
  LET t == OSTCBCur
  IN  /\ InTask("OSPend_Tail") /\ pevent[t] \notin Event
      /\ OSTCBStatPend[t] = "OK"
      /\ OSTCBEventMultiRdy[t] # Null
      /\ ~IsMsgEvent(OSTCBEventMultiRdy[t])
      /\ Returns(FALSE)
      /\ KernelUnchanged
      /\ UNCHANGED <<eventVars, msgVars>>

\* Any other end of the wait; without a posted event it is a timeout.
OSEventPendMulti_Tail ==
  LET t == OSTCBCur
      rdy == OSTCBEventMultiRdy[t]
      timedOut == OSTCBStatPend[t] = "TO" \/ rdy = Null
  IN  /\ InTask("OSPend_Tail") /\ pevent[t] \notin Event
      /\ timedOut \/ OSTCBStatPend[t] = "ABORT" \/ IsMsgEvent(rdy)
      /\ OSEventWait' = IF timedOut THEN OS_EventTaskRemoveMulti(t, pevent[t])
                                    ELSE OSEventWait
      /\ OSTCBStat' = [OSTCBStat EXCEPT ![t] = {}]
      /\ OSTCBStatPend' = [OSTCBStatPend EXCEPT ![t] = "OK"]
      /\ OSTCBMsg' = [OSTCBMsg EXCEPT ![t] = Null]
      /\ OSTCBEventMultiPtr' = [OSTCBEventMultiPtr EXCEPT ![t] = <<>>]
      /\ OSTCBEventMultiRdy' = [OSTCBEventMultiRdy EXCEPT ![t] = Null]
      /\ Returns(FALSE)
      /\ SwitchUnchanged
      /\ UNCHANGED <<OSTCBPrio, OSTCBDly, OSTCBEventPtr, OSRdy, OSEventType,
                     OSEventFreeList, qVars>>

\* The wait lists when t takes a new priority: those of OSTCBEventPtr and of
\* OSTCBEventMultiPtr.
ListsMoved(t, newprio) ==
  LET lists == Range(OSTCBEventMultiPtr[t]) \cup ({OSTCBEventPtr[t]} \ {Null})
  IN  [e \in Event |-> IF e \in lists THEN (OSEventWait[e] \ {OSTCBPrio[t]}) \cup {newprio}
                                      ELSE OSEventWait[e]]

\* OSTaskChangePrio as it is compiled with OS_EVENT_MULTI_EN.
OSTaskChangePrio_Multi(oldprio, newprio) ==
  /\ Call("OSTaskChangePrio")
  /\ NamesTask(oldprio)
  /\ FreePrio(newprio)
  /\ LET t == OSTCBPrioTbl[oldprio]
         old == OSTCBPrio[t]
     IN  /\ OSTCBPrioTbl' = [OSTCBPrioTbl EXCEPT ![oldprio] = Null, ![newprio] = t]
         /\ OSRdy' = IF old \in OSRdy THEN (OSRdy \ {old}) \cup {newprio} ELSE OSRdy
         /\ OSEventWait' = ListsMoved(t, newprio)
         /\ OSTCBPrio' = [OSTCBPrio EXCEPT ![t] = newprio]
  /\ Returns(TRUE)
  /\ UNCHANGED <<OSTCBStat, OSTCBStatPend, OSTCBDly, OSTCBEventPtr, OSEventType,
                 OSEventPtr, OSEventFreeList, switchVars, nestVars, tickVars, msgVars>>

-----------------------------------------------------------------------------

\* How many queues have been created before OSStart.
Taken == Cardinality(DOMAIN QOfEvent)

\* Each of them took the first OS_Q that was left, and the lists are linked in
\* the order of the tables.
ASSUME CreatedAssumption ==
  /\ OSQs \in Seq(QBlock) /\ IsInjective(OSQs)
  /\ IsInjective(InitFreeList)
  /\ DOMAIN QOfEvent \subseteq Event \ Range(InitFreeList)
  /\ Taken \in 0 .. Len(OSQs)
  /\ IsInjective(QOfEvent) /\ Range(QOfEvent) = {OSQs[i] : i \in 1 .. Taken}

\* The OS_Q after b in the table.
NextQ(b) ==
  IF \E i \in 1 .. Len(OSQs) - 1 : OSQs[i] = b
    THEN OSQs[1 + CHOOSE i \in 1 .. Len(OSQs) - 1 : OSQs[i] = b]
    ELSE Null

\* All OS_Q blocks have been chained, and the queues have taken theirs.
OS_QInit ==
  /\ OSQFreeList = IF Taken = Len(OSQs) THEN Null ELSE OSQs[Taken + 1]
  /\ OSQTbl = [b \in QBlock |-> Ring(InitSize, NextQ(b))]

\* Queues and empty mailboxes have been created in all events but those of
\* InitFreeList.
Init ==
  /\ TasksStarted
  /\ OSTCBPrioTbl = CreatedTasks
  /\ OS_QInit
  /\ OSEventType = [e \in Event |-> CASE e \in DOMAIN QOfEvent -> "Q"
                                      [] e \in Range(InitFreeList) -> "UNUSED"
                                      [] OTHER -> "MBOX"]
  /\ OSEventPtr = [e \in Event |-> IF e \in DOMAIN QOfEvent THEN QOfEvent[e]
                                                            ELSE NextUnused(e)]
  /\ OSEventFreeList = IF InitFreeList = <<>> THEN Null ELSE Head(InitFreeList)
  /\ OSTCBMsg = [t \in Task |-> Null]
  /\ OSTCBEventMultiPtr = [t \in Task |-> <<>>]
  /\ OSTCBEventMultiRdy = [t \in Task |-> Null]

Receive ==
  \E e \in Event :
    \/ \E service \in {"OSQPend", "OSMboxPend"} :
         \/ InTask(service) /\ Take(service, e)
         \/ \E timeout \in 0 .. MaxDly : Block(service, e, timeout)
    \/ \E service \in {"OSQAccept", "OSMboxAccept"} : Accept(service, e)
    \/ \E service \in {"OSQPendAbort", "OSMboxPendAbort"}, all \in BOOLEAN :
         PendAbort(service, e, all)
    \/ OSQFlush(e)

QPosts == {"OSQPost", "OSQPostFront", "OSQPostOpt"}

MboxPosts == {"OSMboxPost", "OSMboxPostOpt"}

Send ==
  \E e \in Event :
    \/ \E service \in QPosts : \E opt \in PostOpts[service], pmsg \in Message :
         \/ HandOver(service, e, pmsg, opt)
         \/ OSQPost_Store(service, e, pmsg, opt)
    \/ \E service \in MboxPosts : \E opt \in PostOpts[service], pmsg \in Msg :
         \/ HandOver(service, e, pmsg, opt)
         \/ OSMboxPost_Store(service, e, pmsg)

CreateAndDelete ==
  \/ \E service \in {"OSQDel", "OSMboxDel"}, e \in Event, always \in BOOLEAN :
       Delete(service, e, always)
  \/ \E service \in {"OSQCreate", "OSMboxCreate"} : Create(service)
  \/ \E pmsg \in Message : OSMboxCreate_Fields(pmsg)
  \/ OSQCreate_NoQ
  \/ OSQCreate_TakeQ
  \/ \E size \in QSizes : OSQCreate_Fields(size)

PendMulti ==
  \/ \E pevents \in PendArrays : OSEventPendMulti_Enter(pevents)
  \/ OSEventPendMulti_Take
  \/ \E timeout \in 0 .. MaxDly : OSEventPendMulti_Block(timeout)
  \/ OSEventPendMulti_Deleted
  \/ OSEventPendMulti_Tail

Next ==
  \/ CoreNext /\ UNCHANGED msgVars
  \/ \E ticks \in 1 .. MaxDly : OSTimeDly(ticks) /\ UNCHANGED msgVars
  \/ \E prio \in Prio :
       /\ OSTimeDlyResume(prio) \/ OSTaskSuspend(prio) \/ OSTaskResume(prio)
       /\ UNCHANGED msgVars
  \/ \E oldprio, newprio \in Prio : OSTaskChangePrio_Multi(oldprio, newprio)
  \/ \E service \in DOMAIN ServiceType, e \in Event : OSMsg_Enter(service, e)
  \/ OSMsgPend_Tail
  \/ Receive
  \/ Send
  \/ CreateAndDelete
  \/ PendMulti

Spec == Init /\ [][Next]_vars

-----------------------------------------------------------------------------
(* Properties.                                                             *)

\* Every variable has its type.
TypeOK ==
  /\ TcbTypeOK /\ ReadyTypeOK /\ SwitchTypeOK /\ NestTypeOK /\ TickTypeOK
  /\ OSEventType \in [Event -> {"UNUSED", "Q", "MBOX"}]
  /\ OSEventWait \in [Event -> SUBSET Prio]
  /\ OSEventPtr \in [Event -> Event \cup QBlock \cup Message]
  /\ OSEventFreeList \in Event \cup {Null}
  /\ OSTCBMsg \in [Task -> Message]
  /\ OSTCBEventMultiPtr \in [Task -> PendArrays \cup {<<>>}]
  /\ OSTCBEventMultiRdy \in [Task -> Event \cup {Null}]
  /\ \A b \in QBlock :
       /\ OSQTbl[b].OSQSize \in QSizes
       /\ OSQTbl[b].OSQEntries \in 0 .. OSQTbl[b].OSQSize
  /\ OSQFreeList \in QBlock \cup {Null}

\* The events whose wait lists t is meant to be on.
Awaited(t) ==
  Range(OSTCBEventMultiPtr[t]) \cup ({OSTCBEventPtr[t]} \ {Null})

\* A task is on the wait list of exactly the events it waits for: a post to one
\* event of an array takes it off the lists of all, so that no second message
\* is handed to it, and a change of priority leaves no list behind.
OnAwaitedLists ==
  \A t \in Task : \A e \in Event :
    OSTCBPrio[t] \in OSEventWait[e] <=> e \in Awaited(t)

\* A task is ready exactly if it is not suspended, delayed or waiting: "If the
\* task must pend on the multiple events, then only the first posted or aborted
\* event is returned as ready" (OSEventPendMulti), and then the wait is over.
ReadyIffDone ==
  \A t \in Task :
    OSTCBPrio[t] \in OSRdy <=>
      /\ "SUSPEND" \notin OSTCBStat[t]
      /\ OSTCBDly[t] = 0
      /\ Awaited(t) = {} \/ OSTCBStatPend[t] = "TO"

\* The unused OS_Q blocks: what OSQFreeList leads to.
FreeQs ==
  {b \in QBlock : \A S \in SUBSET QBlock :
     /\ OSQFreeList # Null => OSQFreeList \in S
     /\ \A c \in S : OSQTbl[c].OSQPtr # Null => OSQTbl[c].OSQPtr \in S
     => b \in S}

\* The tasks that are creating a queue, with the OS_Q they have taken.
Creating(b) ==
  {t \in Task : pc[t] = "OSQCreate" /\ pevent[t] \notin Event /\ pevent[t][2] = b}

\* Every OS_Q is unused, or belongs to one queue, or to one task that creates
\* one: neither is one lost when a queue is deleted or an event control block
\* is short, nor do two queues share one.
QBlocksPartitioned ==
  \A b \in QBlock :
    LET owners == {e \in Event : OSEventType[e] = "Q" /\ OSEventPtr[e] = b}
    IN  IF b \in FreeQs
          THEN owners = {} /\ Creating(b) = {}
          ELSE Cardinality(owners) + Cardinality(Creating(b)) = 1

\* Where the fields of a queue point fits the number of its messages, whichever
\* end it is filled and emptied from.
RingSound ==
  /\ TypeOK
  /\ \A e \in Event : OSEventType[e] = "Q" =>
      LET q == OSQTbl[OSEventPtr[e]]
      IN  q.OSQSize > 0 =>
            /\ q.OSQIn \in 0 .. q.OSQSize - 1 /\ q.OSQOut \in 0 .. q.OSQSize - 1
            /\ (q.OSQOut + q.OSQEntries) % q.OSQSize = q.OSQIn

\* The messages of the queue or mailbox e, the next one to be taken first.
Content(e) ==
  CASE OSEventType[e] = "Q" ->
         LET q == OSQTbl[OSEventPtr[e]]
         IN  [i \in 1 .. q.OSQEntries |-> q.buf[(q.OSQOut + i - 1) % q.OSQSize]]
    [] OSEventType[e] = "MBOX" ->
         IF OSEventPtr[e] = Null THEN <<>> ELSE <<OSEventPtr[e]>>
    [] OTHER -> <<>>

\* Where task t stands with the event e, and the message it has been handed:
\* the mapping of the state to the status of MessageChannel.
ChannelStatus(t, e) ==
  LET served == IF pevent[t] \in Event THEN pevent[t] ELSE OSTCBEventMultiRdy[t]
      at == IF pc[t] \notin {"OSPend_Sched", "OSPend_Tail"} THEN "idle"
            ELSE IF e \in Awaited(t)
              THEN IF OSTCBStatPend[t] = "TO" THEN "timedout" ELSE "waiting"
            ELSE IF e # served THEN "idle"
            ELSE IF OSTCBStatPend[t] = "ABORT" THEN "aborted" ELSE "received"
  IN  [at |-> at, msg |-> IF at = "received" THEN OSTCBMsg[t] ELSE Null]
=============================================================================
