--------------------------- MODULE FreeRTOSProofs ---------------------------
(***************************************************************************)
(* Proofs about the scheduler and the queue of FreeRTOS, for every set of    *)
(* tasks and priorities, width of the tick count, length of the queue and    *)
(* choice of calls: lists and locks agree, the highest ready task runs, and  *)
(* nobody is left waiting for what is there.                                *)
(***************************************************************************)
EXTENDS FreeRTOSQueue, FiniteSetTheorems, WellFoundedInduction, TLAPS

-----------------------------------------------------------------------------
(* The inductive invariant.                                                 *)

\* No ready task has a higher priority than the current one.
Top(K) == \A u \in Ready(K) : uxPriority[u] <= uxPriority[K.pxCurrentTCB]

\* NoTaskOverdue, of a kernel.
TimesSound(K) ==
  \A t \in Tasks :
    /\ K.xStateListItem[t] = "delayed" =>
         K.xTickCount < K.xTimeToWake[t] /\ K.xNextTaskUnblockTime <= K.xTimeToWake[t]
    /\ K.xStateListItem[t] = "overflow" => K.xTimeToWake[t] <= K.xTickCount

\* What holds of the task lists in the middle of a critical section too.
ListsKept(K) ==
  /\ K \in KernelType /\ TimesSound(K)
  /\ \A t \in Ready(K) : K.xEventListItem[t] = "none"
  /\ K.xStateListItem[IdleTask] = "ready"

\* A switch to a task of higher priority is pending, or will be when the scheduler
\* is resumed.
Served(K) == K.xPendSV \/ (K.uxSchedulerSuspended = 1 /\ K.xYieldPending) \/ Top(K)

KernelSound(K) ==
  /\ ListsKept(K)
  /\ K.uxSchedulerSuspended = 0 => Waiting(K, "pending") = {} /\ K.xPendedTicks = 0
  /\ Served(K)

Unlocking == {"unlockTx", "unlockRx", "resumeAll"}
SuspendedPlaces == {"delay", "resume", "lock", "check", "ask", "place"} \cup Unlocking
Places == SuspendedPlaces \cup {"app", "yield", "reset", "resetSelf", "try", "suspendAll",
                                "yieldTry", "expired"}

CallType == [op : Ops \cup {"none"}, item : Items \cup {NoItem}, xTicksToWait : Ticks,
             xEntryTimeSet : BOOLEAN,
             xTimeOut : [xOverflowCount : Nat, xTimeOnEntering : Ticks],
             way : {"none", "expired", "again", "block"}]

\* The scheduler is suspended while the current task is where it has suspended it.
FlowSound ==
  /\ pc \in [Tasks -> Places] /\ call \in [Tasks -> CallType]
  /\ \A t \in Tasks : pc[t] \in SuspendedPlaces => t = kernel.pxCurrentTCB
  /\ kernel.uxSchedulerSuspended = IF pc[kernel.pxCurrentTCB] \in SuspendedPlaces THEN 1 ELSE 0
  /\ pc[IdleTask] \in {"app", "try", "reset"} /\ call[IdleTask].xTicksToWait = 0
  /\ \A t \in Tasks : pc[t] \in {"ask", "place"} => call[t].xTicksToWait # 0
  /\ \A t \in Tasks : call[t].op = "overwrite" => queue.uxLength = 1

QueueType(n) ==
  [storage : [0 .. n - 1 -> Items \cup {NoItem}], uxLength : {n},
   pcWriteTo : 0 .. n - 1, pcReadFrom : 0 .. n - 1, uxMessagesWaiting : 0 .. n,
   cRxLock : queueUNLOCKED .. Cardinality(Tasks),
   cTxLock : queueUNLOCKED .. Cardinality(Tasks)]

\* It is locked between prvLockQueue and prvUnlockQueue.
QueueSound ==
  /\ queue.uxLength \in Lengths /\ queue \in QueueType(queue.uxLength)
  /\ queue.cTxLock # queueUNLOCKED <=>
       pc[kernel.pxCurrentTCB] \in {"check", "ask", "place", "unlockTx"}
  /\ queue.cRxLock # queueUNLOCKED <=>
       pc[kernel.pxCurrentTCB] \in {"check", "ask", "place", "unlockTx", "unlockRx"}

\* Where a task is ready while it executes: it has not put itself on another list.
Runs(t) ==
  \/ pc[t] \in {"app", "try", "suspendAll", "expired", "reset", "delay", "lock", "check", "ask",
               "place"}
  \/ pc[t] \in Unlocking /\ call[t].way # "block"

RunnerReady ==
  (kernel.uxSchedulerSuspended = 1 \/ ~kernel.xPendSV) /\ Runs(kernel.pxCurrentTCB) =>
    kernel.xStateListItem[kernel.pxCurrentTCB] = "ready"

\* Where a task is that is on an event list, or has been taken off it.
WillTry(t) == \/ pc[t] \in {"try", "yieldTry"}
              \/ pc[t] \in Unlocking /\ call[t].way = "block"

WaitersSound ==
  \A t \in Tasks : kernel.xEventListItem[t] \in {"send", "receive"} =>
    kernel.xEventListItem[t] = ListOf(call[t].op) /\ WillTry(t)

\* A task about to wait has found nothing, and what came since is counted.
AskedSound ==
  \A t \in Tasks : pc[t] = "place" =>
    \/ Supply(ListOf(call[t].op)) <= LockOf(ListOf(call[t].op))
    \/ LockOf(ListOf(call[t].op)) = Cardinality(Tasks)

\* NobodyStranded for one list: W its waiters, R those that will look again, s what
\* there is for them, k the lock count.  A reset empties more than one place, and
\* unblocks one sender.
ResetsFit == ResetLengths \subseteq {1}
Enough(W, R, s, k) ==
  ResetsFit /\ W # {} => s <= Cardinality(R) + Max({0, k}) \/ k = Cardinality(Tasks)
Lists == {"send", "receive"}
NobodyLeft ==
  \A list \in Lists : Enough(Waiting(kernel, list), Retrying(list), Supply(list), LockOf(list))

IInv ==
  /\ KernelSound(kernel) /\ FlowSound /\ QueueSound /\ RunnerReady /\ WaitersSound
  /\ AskedSound /\ NobodyLeft

\* A task in a call of the queue has said which.
Free == {"app", "yield", "reset", "resetSelf", "delay", "resume"}
Calling == \A t \in Tasks : pc[t] \notin Free => call[t].op \in Ops

-----------------------------------------------------------------------------
(* Numbers and sets.                                                        *)

\* Every set of natural numbers has a least element.
LEMMA Least ==
  ASSUME NEW S \in SUBSET Nat, S # {}
  PROVE  \E x \in S : \A y \in S : x <= y
<1>1. IsWellFoundedOn(OpToRel(<, Nat), Nat)
  BY NatLessThanWellFounded
<1>2. PICK x \in S : \A y \in S : ~ (<<y, x>> \in OpToRel(<, Nat))
  BY <1>1, WFMin, Zenon
<1>3. \A y \in S : ~ (y < x)
  BY <1>2 DEF OpToRel
<1> QED
  BY <1>3

\* Induction, for a set.
LEMMA SetInduction ==
  ASSUME NEW S, 0 \in S, \A n \in Nat : n \in S => n + 1 \in S
  PROVE  Nat \subseteq S
<1> SUFFICES ASSUME Nat \ S # {} PROVE FALSE
  OBVIOUS
<1>1. PICK x \in Nat \ S : \A y \in Nat \ S : x <= y
  BY Least, Nat \ S \in SUBSET Nat
<1>2. x # 0 /\ x - 1 \in Nat /\ (x - 1) + 1 = x
  BY <1>1
<1>3. x - 1 \in S
  BY <1>1, <1>2
<1> QED
  BY <1>2, <1>3

\* Min of a set of natural numbers.
LEMMA MinFacts ==
  ASSUME NEW S \in SUBSET Nat, S # {}
  PROVE  Min(S) \in S /\ \A x \in S : Min(S) <= x
BY Least DEF Min

\* Max of 0 and a number.
LEMMA MaxZero ==
  ASSUME NEW n \in Int
  PROVE  Max({0, n}) = IF n <= 0 THEN 0 ELSE n
<1> DEFINE m == IF n <= 0 THEN 0 ELSE n
<1>1. m \in {0, n} /\ \A x \in {0, n} : x <= m
  OBVIOUS
<1>2. \A k \in {0, n} : (\A x \in {0, n} : x <= k) => k = m
  OBVIOUS
<1> HIDE DEF m
<1>3. Max({0, n}) = m
  BY <1>1, <1>2 DEF Max
<1> QED
  BY <1>3 DEF m

\* Some of any tasks has the highest priority of them.
LEMMA HighestExists ==
  ASSUME NEW S \in SUBSET Tasks, S # {}
  PROVE  \E t \in S : \A u \in S : uxPriority[u] <= uxPriority[t]
<1> DEFINE HasTop(T) == \E t \in T : \A u \in T : uxPriority[u] <= uxPriority[t]
           B == {T \in SUBSET Tasks : T # {} /\ ~HasTop(T)}
<1> SUFFICES ASSUME S \in B PROVE FALSE
  OBVIOUS
<1>1. IsWellFoundedOn(StrictSubsetOrdering(Tasks), SUBSET Tasks)
  <2>1. IsFiniteSet(Tasks)
    BY TasksAssumption DEF TasksAssumption
  <2> QED
    BY <2>1, FS_StrictSubsetOrderingWellFounded, FS_FiniteSubsetsOfFinite, Zenon
<1>2. PICK T \in B : \A U \in B : ~ (<<U, T>> \in StrictSubsetOrdering(Tasks))
  <2>1. B \subseteq SUBSET Tasks /\ B # {}
    OBVIOUS
  <2> HIDE DEF B
  <2> QED
    BY <1>1, <2>1, WFMin, Zenon
<1>3. T \in SUBSET Tasks /\ T # {} /\ ~HasTop(T)
  BY <1>2
<1>4. PICK t \in T : TRUE
  BY <1>3
<1>5. <<T \ {t}, T>> \in StrictSubsetOrdering(Tasks)
  BY <1>3, <1>4 DEF StrictSubsetOrdering
<1>6. T \ {t} = {} \/ HasTop(T \ {t})
  BY <1>2, <1>3, <1>5
<1>7. \A u \in Tasks : uxPriority[u] \in Nat
  BY TasksAssumption DEF TasksAssumption
<1>8. CASE T \ {t} = {}
  <2>1. \A u \in T : u = t
    BY <1>8
  <2> QED
    BY <1>3, <1>4, <1>7, <2>1
<1>9. CASE HasTop(T \ {t})
  <2>1. PICK v \in T \ {t} : \A u \in T \ {t} : uxPriority[u] <= uxPriority[v]
    BY <1>9
  <2>2. CASE uxPriority[v] <= uxPriority[t]
    <3>1. \A u \in T : uxPriority[u] <= uxPriority[t]
      BY <2>1, <2>2, <1>3, <1>7
    <3> QED
      BY <3>1, <1>3, <1>4
  <2>3. CASE uxPriority[t] <= uxPriority[v]
    <3>1. \A u \in T : uxPriority[u] <= uxPriority[v]
      BY <2>1, <2>3
    <3> QED
      BY <3>1, <2>1, <1>3
  <2> QED
    BY <2>2, <2>3, <1>3, <1>4, <1>7
<1> QED
  BY <1>6, <1>8, <1>9

\* It is Highest.
LEMMA HighestFacts ==
  ASSUME NEW S \in SUBSET Tasks, S # {}
  PROVE  Highest(S) \in S /\ \A u \in S : uxPriority[u] <= uxPriority[Highest(S)]
BY HighestExists DEF Highest

-----------------------------------------------------------------------------
(* The kernel.                                                              *)

ListStates == {"ready", "delayed", "overflow", "suspended"}
EventLists == {"none", "send", "receive", "pending"}

\* The types of the kernel's variables.
LEMMA KernelFields ==
  ASSUME NEW K \in KernelType
  PROVE  /\ K.pxCurrentTCB \in Tasks
         /\ K.xStateListItem \in [Tasks -> ListStates]
         /\ K.xEventListItem \in [Tasks -> EventLists]
         /\ K.xTimeToWake \in [Tasks -> Ticks]
         /\ K.xTickCount \in Ticks /\ K.xNextTaskUnblockTime \in Ticks
         /\ K.xNumOfOverflows \in Nat /\ K.xPendedTicks \in Nat
         /\ K.uxSchedulerSuspended \in 0 .. 1
         /\ K.xYieldPending \in BOOLEAN /\ K.xPendSV \in BOOLEAN
         /\ Ready(K) \in SUBSET Tasks /\ Delayed(K) \in SUBSET Tasks
         /\ \A list : Waiting(K, list) \in SUBSET Tasks
BY DEF KernelType, ListStates, EventLists, Ready, Delayed, Waiting

\* Ticks, and the time a delay ends.
LEMMA TickFacts ==
  /\ portMAX_DELAY \in Nat \ {0} /\ TickRange = portMAX_DELAY + 1
  /\ 0 \in Ticks /\ portMAX_DELAY \in Ticks
  /\ \A now \in Ticks : now \in Nat /\ now <= portMAX_DELAY
  /\ \A now \in Ticks : \A n \in Ticks : (now + n) % TickRange \in Ticks
  /\ \A now \in Ticks : \A n \in Ticks : n # 0 => (now + n) % TickRange # now
BY TasksAssumption DEF TasksAssumption, Ticks, TickRange

\* Counting up to the width of the tick count.
LEMMA WrapFacts ==
  ASSUME NEW now \in Ticks
  PROVE  (now + 1) % TickRange = IF now = portMAX_DELAY THEN 0 ELSE now + 1
<1>1. now \in Nat /\ portMAX_DELAY \in Nat /\ now <= portMAX_DELAY
  BY TickFacts
<1>2. CASE now = portMAX_DELAY
  <2>1. (portMAX_DELAY + 1) % (portMAX_DELAY + 1) = 0
    BY <1>1
  <2> QED
    BY <1>2, <2>1 DEF TickRange
<1>3. CASE now # portMAX_DELAY
  <2>1. now + 1 \in 0 .. portMAX_DELAY
    BY <1>1, <1>3
  <2>2. (now + 1) % (portMAX_DELAY + 1) = now + 1
    BY <1>1, <2>1
  <2> QED
    BY <1>3, <2>2 DEF TickRange
<1> QED
  BY <1>2, <1>3

\* All but the lists.
SameButLists(K, K2) ==
  /\ K2.pxCurrentTCB = K.pxCurrentTCB /\ K2.xTickCount = K.xTickCount
  /\ K2.xNumOfOverflows = K.xNumOfOverflows /\ K2.xPendedTicks = K.xPendedTicks
  /\ K2.uxSchedulerSuspended = K.uxSchedulerSuspended
  /\ K2.xYieldPending = K.xYieldPending /\ K2.xPendSV = K.xPendSV

\* The lists, the time and the current task.
SameLists(K, K2) ==
  /\ K2.pxCurrentTCB = K.pxCurrentTCB /\ K2.xTickCount = K.xTickCount
  /\ K2.xStateListItem = K.xStateListItem /\ K2.xEventListItem = K.xEventListItem
  /\ K2.xTimeToWake = K.xTimeToWake /\ K2.xNextTaskUnblockTime = K.xNextTaskUnblockTime
  /\ K2.xPendedTicks = K.xPendedTicks
  /\ K2.uxSchedulerSuspended = K.uxSchedulerSuspended

\* Where Moved leaves the tasks.
LEMMA MovedFacts ==
  ASSUME NEW K \in KernelType, NEW S \in SUBSET Tasks,
         NEW state \in ListStates, NEW event \in EventLists,
         NEW K2, K2 = Moved(K, S, state, event)
  PROVE  /\ K2 \in KernelType /\ SameButLists(K, K2)
         /\ K2.xNextTaskUnblockTime = K.xNextTaskUnblockTime
         /\ \A t \in Tasks :
              /\ K2.xStateListItem[t] = IF t \in S THEN state ELSE K.xStateListItem[t]
              /\ K2.xEventListItem[t] = IF t \in S THEN event ELSE K.xEventListItem[t]
              /\ t \notin S \/ state \notin {"ready", "suspended"} =>
                   K2.xTimeToWake[t] = K.xTimeToWake[t]
<1>1. 0 \in Ticks
  BY TickFacts
<1>2. /\ K2.xStateListItem = [t \in Tasks |-> IF t \in S THEN state ELSE K.xStateListItem[t]]
      /\ K2.xEventListItem = [t \in Tasks |-> IF t \in S THEN event ELSE K.xEventListItem[t]]
      /\ K2.xTimeToWake = [t \in Tasks |-> IF t \in S /\ state \in {"ready", "suspended"}
                                             THEN 0 ELSE K.xTimeToWake[t]]
      /\ K2.xNextTaskUnblockTime = K.xNextTaskUnblockTime
      /\ SameButLists(K, K2)
  BY DEF Moved, KernelType, SameButLists
<1>3. K2 \in KernelType
  <2>1. /\ K2.xStateListItem \in [Tasks -> ListStates]
        /\ K2.xEventListItem \in [Tasks -> EventLists]
        /\ K2.xTimeToWake \in [Tasks -> Ticks]
    BY <1>1, <1>2, KernelFields
  <2> QED
    BY <2>1 DEF Moved, KernelType, ListStates, EventLists
<1> QED
  BY <1>2, <1>3

\* The same for one task.
MovedOne(K, t, state, event, K2) ==
  /\ K2 \in KernelType /\ SameButLists(K, K2)
  /\ K2.xNextTaskUnblockTime = K.xNextTaskUnblockTime
  /\ \A u \in Tasks :
       /\ K2.xStateListItem[u] = IF u = t THEN state ELSE K.xStateListItem[u]
       /\ K2.xEventListItem[u] = IF u = t THEN event ELSE K.xEventListItem[u]
       /\ u # t \/ state \notin {"ready", "suspended"} =>
            K2.xTimeToWake[u] = K.xTimeToWake[u]

\* Moved, for one task.
LEMMA MovedOneFacts ==
  ASSUME NEW K \in KernelType, NEW t \in Tasks,
         NEW state \in ListStates, NEW event \in EventLists
  PROVE  MovedOne(K, t, state, event, Moved(K, {t}, state, event))
<1> DEFINE S == {t}
           K2 == Moved(K, S, state, event)
<1>1. S \in SUBSET Tasks /\ \A u : u \in S <=> u = t
  OBVIOUS
<1>2. K2 = Moved(K, S, state, event)
  OBVIOUS
<1> HIDE DEF K2, S
<1>3. /\ K2 \in KernelType /\ SameButLists(K, K2)
      /\ K2.xNextTaskUnblockTime = K.xNextTaskUnblockTime
      /\ \A u \in Tasks :
           /\ K2.xStateListItem[u] = IF u \in S THEN state ELSE K.xStateListItem[u]
           /\ K2.xEventListItem[u] = IF u \in S THEN event ELSE K.xEventListItem[u]
           /\ u \notin S \/ state \notin {"ready", "suspended"} =>
                K2.xTimeToWake[u] = K.xTimeToWake[u]
  BY <1>1, <1>2, MovedFacts
<1>4. MovedOne(K, t, state, event, K2)
  BY <1>1, <1>3 DEF MovedOne
<1> QED
  BY <1>2, <1>4 DEF S

\* prvResetNextTaskUnblockTime looks at the delayed tasks only.
LEMMA ResetFacts ==
  ASSUME NEW K \in KernelType, NEW K2, K2 = prvResetNextTaskUnblockTime(K)
  PROVE  /\ K2 \in KernelType /\ SameButLists(K, K2)
         /\ K2.xStateListItem = K.xStateListItem /\ K2.xEventListItem = K.xEventListItem
         /\ K2.xTimeToWake = K.xTimeToWake
         /\ \A t \in Delayed(K) : K2.xNextTaskUnblockTime <= K.xTimeToWake[t]
<1> DEFINE wakes == {K.xTimeToWake[t] : t \in Delayed(K)}
           next == IF Delayed(K) = {} THEN portMAX_DELAY ELSE Min(wakes)
<1>1. wakes \in SUBSET Ticks /\ wakes \in SUBSET Nat
  <2>1. \A t \in Delayed(K) : K.xTimeToWake[t] \in Ticks
    BY KernelFields
  <2> QED
    BY <2>1, TickFacts
<1>2. Delayed(K) # {} => Min(wakes) \in wakes /\ \A t \in Delayed(K) : Min(wakes) <= K.xTimeToWake[t]
  <2>1. Delayed(K) # {} => wakes # {}
    OBVIOUS
  <2>2. \A t \in Delayed(K) : K.xTimeToWake[t] \in wakes
    OBVIOUS
  <2> HIDE DEF wakes
  <2> QED
    BY <1>1, <2>1, <2>2, MinFacts
<1>3. next \in Ticks
  BY <1>1, <1>2, TickFacts
<1>4. K2 = [K EXCEPT !.xNextTaskUnblockTime = next]
  BY DEF prvResetNextTaskUnblockTime
<1>5. \A t \in Delayed(K) : next <= K.xTimeToWake[t]
  BY <1>2
<1> HIDE DEF next
<1> QED
  BY <1>3, <1>4, <1>5 DEF KernelType, SameButLists

\* What the kernel's functions keep while a task executes: no task leaves the ready
\* list, a task changes event lists only to leave them, no request to switch is lost.
Advances(K, K2) ==
  /\ ListsKept(K2)
  /\ K2.pxCurrentTCB = K.pxCurrentTCB
  /\ K2.uxSchedulerSuspended = K.uxSchedulerSuspended
  /\ K2.xPendedTicks = K.xPendedTicks \/ K.uxSchedulerSuspended = 1
  /\ K.xPendSV => K2.xPendSV
  /\ K.xYieldPending => K2.xYieldPending
  /\ \A t \in Tasks : K.xStateListItem[t] = "ready" => K2.xStateListItem[t] = "ready"
  /\ \A t \in Tasks :
       \/ K2.xEventListItem[t] \in {K.xEventListItem[t], "none"}
       \/ K2.xEventListItem[t] = "pending" /\ K.uxSchedulerSuspended = 1

\* They may follow each other.
LEMMA AdvancesOn ==
  ASSUME NEW K, NEW K1, NEW K2, Advances(K, K1), Advances(K1, K2)
  PROVE  Advances(K, K2)
BY DEF Advances

\* The current task stays on top, unless a task above it has become ready.
LEMMA TopKept ==
  ASSUME NEW K \in KernelType, NEW K2 \in KernelType, NEW S \in SUBSET Tasks,
         K2.pxCurrentTCB = K.pxCurrentTCB, Top(K), ~AboveCurrent(K, S),
         \A t \in Tasks : K2.xStateListItem[t] = "ready" =>
                            t \in S \/ K.xStateListItem[t] = "ready"
  PROVE  Top(K2)
<1>1. /\ \A t \in Tasks : uxPriority[t] \in Nat
      /\ K.pxCurrentTCB \in Tasks
  BY TasksAssumption, KernelFields DEF TasksAssumption
<1> QED
  BY <1>1 DEF Top, Ready, AboveCurrent

\* The first part of a tick: the lists change places when the count wraps.
Counted(K, now, K1) ==
  /\ K1 \in KernelType /\ K1.xTickCount = now
  /\ K1.pxCurrentTCB = K.pxCurrentTCB /\ K1.xPendedTicks = K.xPendedTicks
  /\ K1.uxSchedulerSuspended = K.uxSchedulerSuspended
  /\ K1.xYieldPending = K.xYieldPending /\ K1.xPendSV = K.xPendSV
  /\ K1.xEventListItem = K.xEventListItem
  /\ \A t \in Tasks : K1.xStateListItem[t] = "ready" <=> K.xStateListItem[t] = "ready"
  /\ \A t \in Tasks : K1.xStateListItem[t] = "delayed" =>
                        /\ now <= K1.xTimeToWake[t]
                        /\ K1.xNextTaskUnblockTime <= K1.xTimeToWake[t]
  /\ \A t \in Tasks : K1.xStateListItem[t] = "overflow" => K1.xTimeToWake[t] <= now

\* The tick count goes on, and the lists change roles when it wraps.
LEMMA TickCounted ==
  ASSUME NEW K, ListsKept(K), NEW now, now = (K.xTickCount + 1) % TickRange, NEW K1,
         K1 = IF now = 0 THEN taskSWITCH_DELAYED_LISTS([K EXCEPT !.xTickCount = now])
                         ELSE [K EXCEPT !.xTickCount = now]
  PROVE  Counted(K, now, K1)
<1>1. /\ K \in KernelType /\ TimesSound(K)
      /\ K.xTickCount \in Ticks /\ K.xTickCount \in Nat /\ K.xTickCount <= portMAX_DELAY
      /\ \A t \in Tasks : K.xTimeToWake[t] \in Nat /\ K.xTimeToWake[t] <= portMAX_DELAY
  BY KernelFields, TickFacts DEF ListsKept
<1>2. now \in Ticks /\ now \in Nat
  BY TickFacts, <1>1 DEF Ticks
<1> DEFINE C == [K EXCEPT !.xTickCount = now]
<1>3. /\ C \in KernelType /\ C.xTickCount = now
      /\ C.pxCurrentTCB = K.pxCurrentTCB /\ C.xPendedTicks = K.xPendedTicks
      /\ C.uxSchedulerSuspended = K.uxSchedulerSuspended
      /\ C.xYieldPending = K.xYieldPending /\ C.xPendSV = K.xPendSV
      /\ C.xEventListItem = K.xEventListItem /\ C.xStateListItem = K.xStateListItem
      /\ C.xTimeToWake = K.xTimeToWake /\ C.xNextTaskUnblockTime = K.xNextTaskUnblockTime
      /\ C.xNumOfOverflows = K.xNumOfOverflows
  BY <1>1, <1>2 DEF KernelType
<1>4. CASE now # 0
  <2>1. K1 = C
    BY <1>4
  <2>2. now = K.xTickCount + 1
    BY <1>1, <1>4, WrapFacts
  <2>3. \A t \in Tasks : K.xStateListItem[t] = "delayed" => now <= K.xTimeToWake[t]
    BY <1>1, <2>2 DEF TimesSound
  <2>4. \A t \in Tasks : K.xStateListItem[t] = "overflow" => K.xTimeToWake[t] <= now
    BY <1>1, <2>2 DEF TimesSound
  <2> HIDE DEF C
  <2> QED
    BY <1>1, <1>3, <2>1, <2>3, <2>4 DEF TimesSound, Counted
<1>5. CASE now = 0
  <2>1. K.xTickCount = portMAX_DELAY
    BY <1>1, <1>5, WrapFacts
  <2>2. \A t \in Tasks : K.xStateListItem[t] # "delayed"
    BY <1>1, <2>1 DEF TimesSound
  <2> DEFINE lists == [t \in Tasks |-> CASE C.xStateListItem[t] = "delayed" -> "overflow"
                                         [] C.xStateListItem[t] = "overflow" -> "delayed"
                                         [] OTHER -> C.xStateListItem[t]]
             D == [C EXCEPT !.xStateListItem = lists, !.xNumOfOverflows = C.xNumOfOverflows + 1]
  <2> HIDE DEF C
  <2>3. C.xStateListItem \in [Tasks -> ListStates]
    BY <1>3, KernelFields
  <2>4. lists \in [Tasks -> ListStates]
    BY <2>3 DEF ListStates
  <2>5. \A t \in Tasks : /\ lists[t] = "ready" <=> K.xStateListItem[t] = "ready"
                         /\ lists[t] # "overflow"
    BY <2>2, <2>3, <1>3 DEF ListStates
  <2> HIDE DEF lists
  <2>0. D \in KernelType
    <3>1. C \in KernelType
      BY <1>3
    <3>2. C.xNumOfOverflows + 1 \in Nat
      BY <3>1, KernelFields
    <3> QED
      BY <2>4, <3>1, <3>2 DEF KernelType, ListStates
  <2>6. /\ D.xStateListItem = lists /\ D.xTickCount = C.xTickCount
        /\ D.pxCurrentTCB = C.pxCurrentTCB /\ D.xPendedTicks = C.xPendedTicks
        /\ D.uxSchedulerSuspended = C.uxSchedulerSuspended
        /\ D.xYieldPending = C.xYieldPending /\ D.xPendSV = C.xPendSV
        /\ D.xEventListItem = C.xEventListItem /\ D.xTimeToWake = C.xTimeToWake
    BY <1>3 DEF KernelType
  <2>7. K1 = prvResetNextTaskUnblockTime(D)
    BY <1>5 DEF taskSWITCH_DELAYED_LISTS, lists, C
  <2> HIDE DEF D
  <2>8. /\ K1 \in KernelType /\ SameButLists(D, K1)
        /\ K1.xStateListItem = lists /\ K1.xEventListItem = D.xEventListItem
        /\ K1.xTimeToWake = K.xTimeToWake
        /\ \A t \in Delayed(D) : K1.xNextTaskUnblockTime <= D.xTimeToWake[t]
    BY <2>0, <2>6, <2>7, <1>3, ResetFacts
  <2>9. \A t \in Tasks : lists[t] = "delayed" =>
                           0 <= K1.xTimeToWake[t] /\ K1.xNextTaskUnblockTime <= K1.xTimeToWake[t]
    BY <1>1, <1>3, <2>6, <2>8 DEF Delayed
  <2> QED
    <3>1. /\ K1.xTickCount = now /\ K1.pxCurrentTCB = K.pxCurrentTCB
          /\ K1.xPendedTicks = K.xPendedTicks
          /\ K1.uxSchedulerSuspended = K.uxSchedulerSuspended
          /\ K1.xYieldPending = K.xYieldPending /\ K1.xPendSV = K.xPendSV
      BY <1>3, <2>6, <2>8 DEF SameButLists
    <3>2. K1.xEventListItem = K.xEventListItem
      BY <1>3, <2>6, <2>8
    <3>3. \A t \in Tasks : /\ K1.xStateListItem[t] = "ready" <=> K.xStateListItem[t] = "ready"
                           /\ K1.xStateListItem[t] # "overflow"
      BY <2>5, <2>8
    <3>4. \A t \in Tasks : K1.xStateListItem[t] = "delayed" =>
                           now <= K1.xTimeToWake[t] /\ K1.xNextTaskUnblockTime <= K1.xTimeToWake[t]
      BY <1>5, <2>8, <2>9
    <3> QED
      BY <2>8, <3>1, <3>2, <3>3, <3>4 DEF Counted
<1> QED
  BY <1>4, <1>5

\* A tick with the scheduler running.
LEMMA TickedFacts ==
  ASSUME NEW K, ListsKept(K), NEW T, T = Ticked(K)
  PROVE  /\ Advances(K, T.k)
         /\ Waiting(T.k, "pending") \subseteq Waiting(K, "pending")
         /\ T.Required \in BOOLEAN
         /\ K.xYieldPending => T.Required
         /\ Top(K) => T.Required \/ Top(T.k)
<1> DEFINE now == (K.xTickCount + 1) % TickRange
           K1 == IF now = 0 THEN taskSWITCH_DELAYED_LISTS([K EXCEPT !.xTickCount = now])
                            ELSE [K EXCEPT !.xTickCount = now]
           due == {t \in Delayed(K1) : K1.xTimeToWake[t] <= now}
           M == Moved(K1, due, "ready", "none")
           N == prvResetNextTaskUnblockTime(M)
<1>1. T = IF now < K1.xNextTaskUnblockTime
          THEN [k |-> K1, Required |-> K1.xYieldPending]
          ELSE [k |-> N, Required |-> AboveCurrent(K1, due) \/ K1.xYieldPending]
  BY DEF Ticked
<1>a. /\ now = (K.xTickCount + 1) % TickRange
      /\ K1 = IF now = 0 THEN taskSWITCH_DELAYED_LISTS([K EXCEPT !.xTickCount = now])
                         ELSE [K EXCEPT !.xTickCount = now]
  OBVIOUS
<1> HIDE DEF now, K1
<1>2. /\ K1 \in KernelType /\ K1.xTickCount = now
      /\ K1.pxCurrentTCB = K.pxCurrentTCB /\ K1.xPendedTicks = K.xPendedTicks
      /\ K1.uxSchedulerSuspended = K.uxSchedulerSuspended
      /\ K1.xYieldPending = K.xYieldPending /\ K1.xPendSV = K.xPendSV
      /\ K1.xEventListItem = K.xEventListItem
      /\ \A t \in Tasks : K1.xStateListItem[t] = "ready" <=> K.xStateListItem[t] = "ready"
      /\ \A t \in Tasks : K1.xStateListItem[t] = "delayed" =>
                            /\ now <= K1.xTimeToWake[t]
                            /\ K1.xNextTaskUnblockTime <= K1.xTimeToWake[t]
      /\ \A t \in Tasks : K1.xStateListItem[t] = "overflow" => K1.xTimeToWake[t] <= now
  <2>1. Counted(K, now, K1)
    BY <1>a, TickCounted
  <2> QED
    BY <2>1 DEF Counted
<1>3. /\ K \in KernelType /\ IdleTask \in Tasks
      /\ \A t \in Tasks : K.xStateListItem[t] = "ready" => K.xEventListItem[t] = "none"
      /\ K.xStateListItem[IdleTask] = "ready"
      /\ K.xTickCount \in Ticks
  BY KernelFields, TasksAssumption DEF ListsKept, Ready, TasksAssumption
<1>4. now \in Ticks /\ now \in Nat
  BY <1>2, KernelFields, TickFacts
<1>5. /\ \A t \in Tasks : K1.xTimeToWake[t] \in Nat
      /\ K1.xNextTaskUnblockTime \in Nat /\ K1.xYieldPending \in BOOLEAN
      /\ due \in SUBSET Tasks
  BY <1>2, KernelFields, TickFacts
<1>6. CASE now < K1.xNextTaskUnblockTime
  <2>1. T.k = K1 /\ T.Required = K1.xYieldPending
    BY <1>1, <1>6
  <2>2. TimesSound(K1)
    BY <1>2, <1>4, <1>5, <1>6 DEF TimesSound
  <2>3. ListsKept(K1)
    BY <1>2, <1>3, <2>2 DEF ListsKept, Ready
  <2>4. Top(K) => Top(K1)
    BY <1>2 DEF Top, Ready
  <2> QED
    BY <1>2, <1>5, <2>1, <2>3, <2>4 DEF Advances, Waiting
<1>7. CASE ~(now < K1.xNextTaskUnblockTime)
  <2>1. T.k = N /\ T.Required = (AboveCurrent(K1, due) \/ K1.xYieldPending)
    BY <1>1, <1>7
  <2>2. \A t \in Tasks : t \in due <=> K1.xStateListItem[t] = "delayed"
                                       /\ K1.xTimeToWake[t] <= now
    BY DEF Delayed
  <2> HIDE DEF due
  <2>3. /\ M \in KernelType /\ SameButLists(K1, M)
        /\ \A t \in Tasks :
             /\ M.xStateListItem[t] = IF t \in due THEN "ready" ELSE K1.xStateListItem[t]
             /\ M.xEventListItem[t] = IF t \in due THEN "none" ELSE K1.xEventListItem[t]
             /\ t \notin due => M.xTimeToWake[t] = K1.xTimeToWake[t]
    BY <1>2, <1>5, MovedFacts DEF ListStates, EventLists
  <2> HIDE DEF M
  <2>4. /\ N \in KernelType /\ SameButLists(M, N)
        /\ N.xStateListItem = M.xStateListItem /\ N.xEventListItem = M.xEventListItem
        /\ N.xTimeToWake = M.xTimeToWake
        /\ \A t \in Delayed(M) : N.xNextTaskUnblockTime <= M.xTimeToWake[t]
    BY <2>3, ResetFacts
  <2> HIDE DEF N
  <2>5. /\ N.pxCurrentTCB = K.pxCurrentTCB /\ N.xTickCount = now
        /\ N.uxSchedulerSuspended = K.uxSchedulerSuspended
        /\ N.xPendedTicks = K.xPendedTicks
        /\ N.xYieldPending = K.xYieldPending /\ N.xPendSV = K.xPendSV
    BY <1>2, <2>3, <2>4 DEF SameButLists
  <2>6. TimesSound(N)
    <3>1. ASSUME NEW t \in Tasks, N.xStateListItem[t] = "delayed"
          PROVE  now < N.xTimeToWake[t] /\ N.xNextTaskUnblockTime <= N.xTimeToWake[t]
      <4>1. t \notin due /\ K1.xStateListItem[t] = "delayed" /\ t \in Delayed(M)
        BY <3>1, <2>3, <2>4 DEF Delayed
      <4>2. N.xTimeToWake[t] = K1.xTimeToWake[t]
        BY <4>1, <2>3, <2>4
      <4>3. now < K1.xTimeToWake[t]
        BY <4>1, <2>2, <1>4, <1>5
      <4> QED
        BY <4>1, <4>2, <4>3, <2>4
    <3>2. ASSUME NEW t \in Tasks, N.xStateListItem[t] = "overflow"
          PROVE  N.xTimeToWake[t] <= now
      BY <3>2, <2>3, <2>4, <1>2
    <3> QED
      BY <2>5, <3>1, <3>2 DEF TimesSound
  <2>7. ListsKept(N)
    <3>1. \A t \in Tasks : N.xStateListItem[t] = "ready" => N.xEventListItem[t] = "none"
      BY <1>2, <1>3, <2>3, <2>4
    <3>2. N.xStateListItem[IdleTask] = "ready"
      BY <1>2, <1>3, <2>3, <2>4
    <3> QED
      BY <2>4, <2>6, <3>1, <3>2 DEF ListsKept, Ready
  <2>8. Advances(K, N)
    <3>1. \A t \in Tasks : K.xStateListItem[t] = "ready" => N.xStateListItem[t] = "ready"
      BY <1>2, <2>3, <2>4
    <3>2. \A t \in Tasks : N.xEventListItem[t] \in {K.xEventListItem[t], "none"}
      BY <1>2, <2>3, <2>4
    <3> QED
      BY <2>5, <2>7, <3>1, <3>2 DEF Advances
  <2>9. Waiting(N, "pending") \subseteq Waiting(K, "pending")
    BY <1>2, <2>3, <2>4 DEF Waiting
  <2>10. ASSUME Top(K), ~AboveCurrent(K1, due) PROVE Top(N)
    <3>1. ~AboveCurrent(K, due)
      BY <2>10, <1>2 DEF AboveCurrent
    <3>2. \A t \in Tasks : N.xStateListItem[t] = "ready" => t \in due \/ K.xStateListItem[t] = "ready"
      BY <1>2, <2>3, <2>4
    <3> QED
      BY <1>3, <1>5, <2>4, <2>5, <2>10, <3>1, <3>2, TopKept
  <2>11. AboveCurrent(K1, due) \in BOOLEAN
    BY DEF AboveCurrent
  <2> QED
    BY <1>2, <1>5, <2>1, <2>8, <2>9, <2>10, <2>11
<1> QED
  BY <1>6, <1>7

\* What pended ticks keep: a task above the current one that they make ready leaves
\* xYieldPending.
Passes(K, K2) ==
  /\ Advances(K, K2)
  /\ Waiting(K2, "pending") \subseteq Waiting(K, "pending")
  /\ Top(K) => K2.xYieldPending \/ Top(K2)

\* One of them.
MadeUp(K) == LET T == Ticked(K) IN [T.k EXCEPT !.xYieldPending = @ \/ T.Required]

\* One pended tick keeps the lists sound, and asks for the switch it needs.
LEMMA MadeUpFacts ==
  ASSUME NEW K, ListsKept(K)
  PROVE  Passes(K, MadeUp(K))
<1> DEFINE T == Ticked(K)
           k == T.k
           required == T.Required
           M == [k EXCEPT !.xYieldPending = k.xYieldPending \/ required]
<1>1. MadeUp(K) = M
  BY DEF MadeUp
<1>2. /\ Advances(K, k)
      /\ Waiting(k, "pending") \subseteq Waiting(K, "pending")
      /\ required \in BOOLEAN
      /\ K.xYieldPending => required
      /\ Top(K) => required \/ Top(k)
  <2> HIDE DEF T
  <2>1. T = Ticked(K)
    BY DEF T
  <2> QED
    BY <2>1, TickedFacts
<1> HIDE DEF k, required
<1>3. k \in KernelType /\ k.xYieldPending \in BOOLEAN
  BY <1>2, KernelFields DEF Advances, ListsKept
<1>4. M = [k EXCEPT !.xYieldPending = M.xYieldPending] /\ M.xYieldPending \in BOOLEAN
  BY <1>2, <1>3 DEF KernelType
<1>5. M.xYieldPending <=> k.xYieldPending \/ required
  BY <1>3, Zenon DEF KernelType
<1> HIDE DEF M
<1>6. /\ M \in KernelType /\ SameLists(k, M)
      /\ M.xPendSV = k.xPendSV
  BY <1>3, <1>4 DEF KernelType, SameLists
<1>7. ListsKept(M) /\ (Top(k) => Top(M))
  BY <1>2, <1>6 DEF Advances, ListsKept, SameLists, TimesSound, Ready, Top
<1>8. Advances(K, M)
  BY <1>2, <1>5, <1>6, <1>7 DEF Advances, SameLists
<1>9. Waiting(M, "pending") = Waiting(k, "pending")
  BY <1>6 DEF Waiting, SameLists
<1> QED
  BY <1>1, <1>2, <1>5, <1>7, <1>8, <1>9 DEF Passes

\* Pended ticks are made up for one by one.
LEMMA TicksOneByOne ==
  ASSUME NEW K, NEW n \in Nat
  PROVE  \E after : /\ after[0] = K /\ after[n] = TicksMadeUp(K, n)
                    /\ \A m \in 0 .. n - 1 : after[m + 1] = MadeUp(after[m])
<1> DEFINE after[i \in 0 .. n] == IF i = 0 THEN K ELSE MadeUp(after[i - 1])
           S == {m \in Nat : \E g : g = [i \in 0 .. m |-> IF i = 0 THEN K ELSE MadeUp(g[i - 1])]}
<1>1. TicksMadeUp(K, n) = after[n]
  BY DEF TicksMadeUp, MadeUp
<1>2. 0 \in S
  <2>1. [i \in 0 .. 0 |-> K]
          = [i \in 0 .. 0 |-> IF i = 0 THEN K ELSE MadeUp([j \in 0 .. 0 |-> K][i - 1])]
    OBVIOUS
  <2> QED
    BY <2>1
<1>3. ASSUME NEW m \in Nat, m \in S PROVE m + 1 \in S
  <2>1. PICK g : g = [i \in 0 .. m |-> IF i = 0 THEN K ELSE MadeUp(g[i - 1])]
    BY <1>3
  <2> DEFINE h == [i \in 0 .. m + 1 |-> IF i = m + 1 THEN MadeUp(g[m]) ELSE g[i]]
  <2>2. ASSUME NEW i \in 0 .. m + 1
        PROVE  h[i] = IF i = 0 THEN K ELSE MadeUp(h[i - 1])
    <3>1. CASE i = 0
      BY <2>1, <3>1
    <3>2. CASE i # 0 /\ i # m + 1
      <4>1. i \in 0 .. m /\ i - 1 \in 0 .. m + 1 /\ i - 1 # m + 1
        BY <3>2
      <4>2. h[i - 1] = g[i - 1]
        BY <4>1
      <4> QED
        BY <2>1, <3>2, <4>1, <4>2
    <3>3. CASE i = m + 1
      <4>1. i - 1 = m /\ m \in 0 .. m + 1 /\ m # m + 1 /\ i # 0
        BY <3>3
      <4>2. h[i - 1] = g[m]
        BY <4>1
      <4> QED
        BY <3>3, <4>1, <4>2
    <3> QED
      BY <3>1, <3>2, <3>3
  <2>3. h = [i \in 0 .. m + 1 |-> IF i = 0 THEN K ELSE MadeUp(h[i - 1])]
    BY <2>2
  <2> HIDE DEF h
  <2> QED
    BY <2>3
<1>4. n \in S
  <2> HIDE DEF S
  <2> QED
    BY <1>2, <1>3, SetInduction, Zenon
<1>5. after = [i \in 0 .. n |-> IF i = 0 THEN K ELSE MadeUp(after[i - 1])]
  BY <1>4
<1> HIDE DEF after, S
<1>6. after[0] = K /\ \A m \in 0 .. n - 1 : after[m + 1] = MadeUp(after[m])
  <2>1. after[0] = K
    BY <1>5
  <2>2. ASSUME NEW m \in 0 .. n - 1 PROVE after[m + 1] = MadeUp(after[m])
    <3>1. m + 1 \in 0 .. n /\ m + 1 # 0 /\ m + 1 - 1 = m
      OBVIOUS
    <3> QED
      BY <1>5, <3>1
  <2> QED
    BY <2>1, <2>2
<1> QED
  BY <1>1, <1>6

\* All of them.
LEMMA TicksMadeUpFacts ==
  ASSUME NEW K, ListsKept(K), NEW n \in Nat
  PROVE  Passes(K, TicksMadeUp(K, n))
<1>1. PICK after : /\ after[0] = K /\ after[n] = TicksMadeUp(K, n)
                   /\ \A m \in 0 .. n - 1 : after[m + 1] = MadeUp(after[m])
  BY TicksOneByOne
<1> DEFINE P == {m \in Nat : m <= n => Passes(K, after[m])}
<1>6. 0 \in P
  <2>1. after[0] = K
    BY <1>1
  <2>2. Passes(K, K)
    BY DEF Passes, Advances
  <2> QED
    BY <2>1, <2>2
<1>7. ASSUME NEW m \in Nat, m \in P PROVE m + 1 \in P
  <2> SUFFICES ASSUME m + 1 <= n PROVE Passes(K, after[m + 1])
    OBVIOUS
  <2>1. after[m + 1] = MadeUp(after[m])
    BY <1>1
  <2>2. Passes(K, after[m])
    BY <1>7
  <2>3. Passes(after[m], after[m + 1])
    BY <2>1, <2>2, MadeUpFacts DEF Passes, Advances
  <2> QED
    BY <2>2, <2>3, AdvancesOn DEF Passes, Advances
<1>8. n \in P
  <2> HIDE DEF P
  <2> QED
    BY <1>6, <1>7, SetInduction, Zenon
<1> QED
  BY <1>1, <1>8

\* The next unblock time recomputed.
LEMMA ResetKept ==
  ASSUME NEW K, ListsKept(K)
  PROVE  ListsKept(prvResetNextTaskUnblockTime(K))
<1> DEFINE K2 == prvResetNextTaskUnblockTime(K)
<1>1. K \in KernelType
  BY DEF ListsKept
<1>2. K2 = prvResetNextTaskUnblockTime(K)
  OBVIOUS
<1> HIDE DEF K2
<1>3. /\ K2 \in KernelType /\ SameButLists(K, K2)
      /\ K2.xStateListItem = K.xStateListItem /\ K2.xEventListItem = K.xEventListItem
      /\ K2.xTimeToWake = K.xTimeToWake
      /\ \A t \in Delayed(K) : K2.xNextTaskUnblockTime <= K.xTimeToWake[t]
  BY <1>1, <1>2, ResetFacts
<1>4. TimesSound(K2)
  BY <1>3 DEF TimesSound, ListsKept, Delayed, SameButLists
<1>5. ListsKept(K2)
  BY <1>3, <1>4 DEF ListsKept, Ready
<1> QED
  BY <1>2, <1>5

\* What xTaskResumeAll does: the tasks that became ready meanwhile are on the ready
\* list, and if one of them is above the current task the switch is pending.
Resumes(K, K2) ==
  /\ ListsKept(K2)
  /\ K2.pxCurrentTCB = K.pxCurrentTCB
  /\ K2.uxSchedulerSuspended = 0 /\ K2.xPendedTicks = 0 /\ Waiting(K2, "pending") = {}
  /\ K2.xYieldPending => K2.xPendSV
  /\ K.xPendSV \/ K.xYieldPending \/ Top(K) => K2.xPendSV \/ Top(K2)
  /\ \A t \in Tasks : K.xStateListItem[t] = "ready" => K2.xStateListItem[t] = "ready"
  /\ \A t \in Tasks : K2.xEventListItem[t] \in {K.xEventListItem[t], "none"}

\* The time comes from the pended ticks alone.
MakesUp(K, K2) ==
  \E L : /\ ListsKept(L)
         /\ L.xTickCount = K.xTickCount /\ L.xNumOfOverflows = K.xNumOfOverflows
         /\ K2.xTickCount = TicksMadeUp(L, K.xPendedTicks).xTickCount
         /\ K2.xNumOfOverflows = TicksMadeUp(L, K.xPendedTicks).xNumOfOverflows

\* xTaskResumeAll leaves nothing pending, and asks for the switch it needs.
LEMMA ResumeAllFacts ==
  ASSUME NEW K, ListsKept(K), K.uxSchedulerSuspended = 1
  PROVE  Resumes(K, xTaskResumeAll(K)) /\ MakesUp(K, xTaskResumeAll(K))
<1> DEFINE pending == Waiting(K, "pending")
           above == AboveCurrent(K, pending)
           M == Moved(K, pending, "ready", "none")
           K1 == [M EXCEPT !.uxSchedulerSuspended = M.uxSchedulerSuspended - 1,
                           !.xYieldPending = M.xYieldPending \/ above]
           K2 == IF pending = {} THEN K1 ELSE prvResetNextTaskUnblockTime(K1)
           L == TicksMadeUp(K2, K.xPendedTicks)
           K3 == [L EXCEPT !.xPendedTicks = 0]
           R == IF K3.xYieldPending THEN taskYIELD(K3) ELSE K3
<1>1. xTaskResumeAll(K) = R
  BY DEF xTaskResumeAll
<1>2. /\ K \in KernelType /\ IdleTask \in Tasks /\ TimesSound(K)
      /\ \A t \in Tasks : K.xStateListItem[t] = "ready" => K.xEventListItem[t] = "none"
      /\ K.xStateListItem[IdleTask] = "ready" /\ K.xPendedTicks \in Nat
      /\ pending \in SUBSET Tasks
      /\ \A t \in Tasks : t \in pending <=> K.xEventListItem[t] = "pending"
      /\ above \in BOOLEAN
  BY KernelFields, TasksAssumption DEF ListsKept, Ready, TasksAssumption, Waiting, AboveCurrent
<1>3. /\ M \in KernelType /\ SameButLists(K, M)
      /\ M.xNextTaskUnblockTime = K.xNextTaskUnblockTime
      /\ \A t \in Tasks :
           /\ M.xStateListItem[t] = IF t \in pending THEN "ready" ELSE K.xStateListItem[t]
           /\ M.xEventListItem[t] = IF t \in pending THEN "none" ELSE K.xEventListItem[t]
           /\ t \notin pending => M.xTimeToWake[t] = K.xTimeToWake[t]
  <2> HIDE DEF pending
  <2> QED
    BY <1>2, MovedFacts DEF ListStates, EventLists
<1>4. ~above /\ Top(K) => Top(M)
  <2>1. \A t \in Tasks : M.xStateListItem[t] = "ready" => t \in pending \/ K.xStateListItem[t] = "ready"
    BY <1>3
  <2> QED
    BY <1>2, <1>3, <2>1, TopKept DEF SameButLists
<1> HIDE DEF M
<1>5. ListsKept(M)
  <2>1. TimesSound(M)
    BY <1>2, <1>3 DEF TimesSound, SameButLists
  <2>2. \A t \in Tasks : M.xStateListItem[t] = "ready" => M.xEventListItem[t] = "none"
    BY <1>2, <1>3
  <2> QED
    BY <1>2, <1>3, <2>1, <2>2 DEF ListsKept, Ready
<1> HIDE DEF above
<1>6. /\ K1 \in KernelType /\ K1.uxSchedulerSuspended = 0
      /\ K1.pxCurrentTCB = K.pxCurrentTCB /\ K1.xPendSV = K.xPendSV
      /\ K1.xStateListItem = M.xStateListItem /\ K1.xEventListItem = M.xEventListItem
      /\ K1.xTickCount = M.xTickCount /\ K1.xTimeToWake = M.xTimeToWake
      /\ K1.xNextTaskUnblockTime = M.xNextTaskUnblockTime
      /\ K1.pxCurrentTCB = M.pxCurrentTCB /\ K1.xNumOfOverflows = M.xNumOfOverflows
  <2>1. M.uxSchedulerSuspended = 1 /\ M.pxCurrentTCB = K.pxCurrentTCB /\ M.xPendSV = K.xPendSV
    BY <1>3 DEF SameButLists
  <2>2. M.xYieldPending \in BOOLEAN
    BY <1>3, KernelFields
  <2>3. (M.xYieldPending \/ above) \in BOOLEAN
    OBVIOUS
  <2>4. M.uxSchedulerSuspended - 1 \in 0 .. 1 /\ M.uxSchedulerSuspended - 1 = 0
    BY <2>1
  <2>5. M \in KernelType
    BY <1>3
  <2>6. K1 \in KernelType
    BY <2>3, <2>4, <2>5 DEF KernelType
  <2>7. /\ K1.uxSchedulerSuspended = 0
        /\ K1.pxCurrentTCB = M.pxCurrentTCB /\ K1.xPendSV = M.xPendSV
        /\ K1.xStateListItem = M.xStateListItem /\ K1.xEventListItem = M.xEventListItem
        /\ K1.xTickCount = M.xTickCount /\ K1.xTimeToWake = M.xTimeToWake
        /\ K1.xNextTaskUnblockTime = M.xNextTaskUnblockTime
        /\ K1.xNumOfOverflows = M.xNumOfOverflows
    BY <2>4, <2>5 DEF KernelType
  <2> QED
    BY <2>1, <2>6, <2>7
<1>7. K1.xYieldPending <=> M.xYieldPending \/ above
  BY <1>3, Zenon DEF KernelType
<1> HIDE DEF K1
<1>8. ListsKept(K1) /\ (Top(M) => Top(K1))
  BY <1>5, <1>6 DEF ListsKept, TimesSound, Ready, Top
<1>9. (K.xYieldPending \/ Top(K)) => K1.xYieldPending \/ Top(K1)
  BY <1>3, <1>4, <1>7, <1>8 DEF SameButLists
<1>10. Waiting(K1, "pending") = {}
  BY <1>2, <1>3, <1>6 DEF Waiting
<1>11. Passes(K1, K2) /\ K2.xTickCount = K1.xTickCount /\ K2.xNumOfOverflows = K1.xNumOfOverflows
  <2>1. CASE pending = {}
    <3>1. K2 = K1
      BY <2>1
    <3> QED
      BY <1>8, <3>1 DEF Passes, Advances
  <2>2. CASE pending # {}
    <3>1. K2 = prvResetNextTaskUnblockTime(K1)
      BY <2>2
    <3> HIDE DEF K2
    <3>2. ListsKept(K2)
      BY <1>8, <3>1, ResetKept
    <3>3. /\ SameButLists(K1, K2)
          /\ K2.xStateListItem = K1.xStateListItem /\ K2.xEventListItem = K1.xEventListItem
      BY <1>6, <3>1, ResetFacts
    <3> QED
      BY <3>2, <3>3 DEF Passes, Advances, SameButLists, Waiting, Top, Ready
  <2> QED
    BY <2>1, <2>2
<1> HIDE DEF K2
<1>12. Passes(K2, L)
  BY <1>2, <1>11, TicksMadeUpFacts DEF Passes, Advances
<1> HIDE DEF L
<1>13. Passes(K1, L)
  BY <1>11, <1>12, AdvancesOn DEF Passes, Advances
<1>14. /\ K3 \in KernelType /\ K3.xPendedTicks = 0
       /\ K3.pxCurrentTCB = L.pxCurrentTCB /\ K3.xTickCount = L.xTickCount
       /\ K3.xStateListItem = L.xStateListItem /\ K3.xEventListItem = L.xEventListItem
       /\ K3.xTimeToWake = L.xTimeToWake /\ K3.xNextTaskUnblockTime = L.xNextTaskUnblockTime
       /\ K3.uxSchedulerSuspended = L.uxSchedulerSuspended
       /\ K3.xYieldPending = L.xYieldPending /\ K3.xPendSV = L.xPendSV
       /\ K3.xNumOfOverflows = L.xNumOfOverflows
  <2>1. L \in KernelType
    BY <1>13 DEF Passes, Advances, ListsKept
  <2> QED
    BY <2>1 DEF KernelType
<1> HIDE DEF K3
<1>15. /\ R \in KernelType /\ R.xPendedTicks = K3.xPendedTicks
       /\ R.pxCurrentTCB = K3.pxCurrentTCB /\ R.xTickCount = K3.xTickCount
       /\ R.xStateListItem = K3.xStateListItem /\ R.xEventListItem = K3.xEventListItem
       /\ R.xTimeToWake = K3.xTimeToWake /\ R.xNextTaskUnblockTime = K3.xNextTaskUnblockTime
       /\ R.uxSchedulerSuspended = K3.uxSchedulerSuspended
       /\ R.xYieldPending = K3.xYieldPending /\ R.xNumOfOverflows = K3.xNumOfOverflows
  BY <1>14 DEF KernelType, taskYIELD
<1>16. /\ R.xYieldPending => R.xPendSV
       /\ K3.xPendSV => R.xPendSV
  BY <1>14 DEF KernelType, taskYIELD
<1> HIDE DEF R
<1>17. ListsKept(R) /\ (Top(L) => Top(R))
  BY <1>13, <1>14, <1>15 DEF Passes, Advances, ListsKept, TimesSound, Ready, Top
<1>18. Waiting(R, "pending") = {}
  BY <1>10, <1>13, <1>14, <1>15 DEF Passes, Waiting
<1>19. \A t \in Tasks : K.xStateListItem[t] = "ready" => R.xStateListItem[t] = "ready"
  BY <1>3, <1>6, <1>13, <1>14, <1>15 DEF Passes, Advances
<1>20. \A t \in Tasks : R.xEventListItem[t] \in {K.xEventListItem[t], "none"}
  BY <1>3, <1>6, <1>13, <1>14, <1>15 DEF Passes, Advances
<1>21. K.xPendSV \/ K.xYieldPending \/ Top(K) => R.xPendSV \/ Top(R)
  BY <1>6, <1>9, <1>13, <1>14, <1>15, <1>16, <1>17 DEF Passes, Advances
<1>22. /\ R.pxCurrentTCB = K.pxCurrentTCB
       /\ R.uxSchedulerSuspended = 0 /\ R.xPendedTicks = 0
  BY <1>6, <1>13, <1>14, <1>15 DEF Passes, Advances
<1>23. MakesUp(K, R)
  <2>1. K2.xTickCount = K.xTickCount /\ K2.xNumOfOverflows = K.xNumOfOverflows /\ ListsKept(K2)
    BY <1>3, <1>6, <1>11 DEF SameButLists, Passes, Advances
  <2>2. /\ R.xTickCount = TicksMadeUp(K2, K.xPendedTicks).xTickCount
        /\ R.xNumOfOverflows = TicksMadeUp(K2, K.xPendedTicks).xNumOfOverflows
    BY <1>14, <1>15 DEF L
  <2> QED
    BY <2>1, <2>2 DEF MakesUp
<1>24. Resumes(K, R)
  BY <1>16, <1>17, <1>18, <1>19, <1>20, <1>21, <1>22 DEF Resumes
<1> QED
  BY <1>1, <1>23, <1>24

\* The current task has left the ready list, for an event list or for none.
Blocks(K, K2, event) ==
  /\ ListsKept(K2)
  /\ K2.pxCurrentTCB = K.pxCurrentTCB
  /\ K2.uxSchedulerSuspended = K.uxSchedulerSuspended
  /\ K2.xPendedTicks = K.xPendedTicks
  /\ K2.xPendSV = K.xPendSV /\ K2.xYieldPending = K.xYieldPending
  /\ Top(K) => Top(K2)
  /\ \A t \in Tasks :
       K2.xEventListItem[t] = IF t = K.pxCurrentTCB THEN event ELSE K.xEventListItem[t]

\* The current task puts itself on a list of delayed tasks, and on an event list.
LEMMA BlockFacts ==
  ASSUME NEW K, ListsKept(K), K.pxCurrentTCB # IdleTask,
         NEW ticks \in Ticks, ticks # 0, NEW indefinitely \in BOOLEAN,
         NEW event \in EventLists
  PROVE  Blocks(K, prvAddCurrentTaskToDelayedList(K, ticks, indefinitely, event), event)
<1> DEFINE t == K.pxCurrentTCB
           wake == (K.xTickCount + ticks) % TickRange
           K1 == [K EXCEPT !.xTimeToWake[t] = wake]
           K2 == prvAddCurrentTaskToDelayedList(K, ticks, indefinitely, event)
<1>1. /\ K \in KernelType /\ t \in Tasks /\ TimesSound(K)
      /\ \A u \in Tasks : K.xStateListItem[u] = "ready" => K.xEventListItem[u] = "none"
      /\ K.xStateListItem[IdleTask] = "ready" /\ IdleTask \in Tasks
      /\ K.xTickCount \in Ticks /\ {t} \in SUBSET Tasks
  BY KernelFields, TasksAssumption DEF ListsKept, Ready, TasksAssumption
<1>2. wake \in Ticks /\ wake # K.xTickCount /\ wake \in Nat /\ K.xTickCount \in Nat
  BY <1>1, TickFacts
<1> HIDE DEF wake
<1>3. /\ K1 \in KernelType /\ SameButLists(K, K1)
      /\ K1.xStateListItem = K.xStateListItem /\ K1.xEventListItem = K.xEventListItem
      /\ K1.xNextTaskUnblockTime = K.xNextTaskUnblockTime
      /\ \A u \in Tasks : K1.xTimeToWake[u] = IF u = t THEN wake ELSE K.xTimeToWake[u]
  <2>1. K.xTimeToWake \in [Tasks -> Ticks]
    BY <1>1, KernelFields
  <2>2. K1.xTimeToWake = [K.xTimeToWake EXCEPT ![t] = wake]
    BY <1>1 DEF KernelType
  <2>3. \A u \in Tasks : K1.xTimeToWake[u] = IF u = t THEN wake ELSE K.xTimeToWake[u]
    BY <2>1, <2>2
  <2>4. K1 \in KernelType
    BY <1>1, <1>2 DEF KernelType
  <2> QED
    BY <1>1, <2>3, <2>4 DEF KernelType, SameButLists
<1> HIDE DEF K1
<1> DEFINE Left(state) ==
             /\ K2 \in KernelType /\ SameButLists(K, K2)
             /\ \A u \in Tasks :
                  /\ K2.xStateListItem[u] = IF u = t THEN state ELSE K.xStateListItem[u]
                  /\ K2.xEventListItem[u] = IF u = t THEN event ELSE K.xEventListItem[u]
                  /\ u # t => K2.xTimeToWake[u] = K.xTimeToWake[u]
<1>4. ASSUME NEW state \in {"suspended", "delayed", "overflow"}, Left(state), TimesSound(K2)
      PROVE  Blocks(K, K2, event)
  <2>1. /\ \A u \in Tasks : K2.xStateListItem[u] = "ready" =>
                              K.xStateListItem[u] = "ready" /\ u # t
        /\ K2.pxCurrentTCB = t
    BY <1>4 DEF SameButLists
  <2>2. \A u \in Tasks : K2.xStateListItem[u] = "ready" => K2.xEventListItem[u] = "none"
    BY <1>1, <1>4, <2>1
  <2>3. K2.xStateListItem[IdleTask] = "ready"
    BY <1>1, <1>4
  <2>4. ListsKept(K2)
    BY <1>4, <2>2, <2>3 DEF ListsKept, Ready
  <2>5. Top(K) => Top(K2)
    BY <2>1 DEF Top, Ready
  <2> QED
    BY <1>4, <2>4, <2>5 DEF Blocks, SameButLists
<1>5. CASE ticks = portMAX_DELAY /\ indefinitely
  <2>1. K2 = Moved(K, {t}, "suspended", event)
    BY <1>5 DEF prvAddCurrentTaskToDelayedList
  <2> HIDE DEF K2, t
  <2>a. MovedOne(K, t, "suspended", event, K2)
    BY <1>1, <2>1, MovedOneFacts DEF ListStates
  <2>2. Left("suspended") /\ K2.xNextTaskUnblockTime = K.xNextTaskUnblockTime
    BY <2>a DEF MovedOne
  <2>3. TimesSound(K2)
    BY <1>1, <2>2 DEF TimesSound, SameButLists
  <2> QED
    BY <1>4, <2>2, <2>3 DEF t, K2
<1>6. CASE ~(ticks = portMAX_DELAY /\ indefinitely) /\ wake < K.xTickCount
  <2>1. K2 = Moved(K1, {t}, "overflow", event)
    BY <1>6 DEF prvAddCurrentTaskToDelayedList, wake, K1
  <2> HIDE DEF K2, t
  <2>2. /\ K2 \in KernelType /\ SameButLists(K1, K2)
        /\ K2.xNextTaskUnblockTime = K1.xNextTaskUnblockTime
        /\ \A u \in Tasks :
             /\ K2.xStateListItem[u] = IF u = t THEN "overflow" ELSE K1.xStateListItem[u]
             /\ K2.xEventListItem[u] = IF u = t THEN event ELSE K1.xEventListItem[u]
             /\ K2.xTimeToWake[u] = K1.xTimeToWake[u]
    <3>1. MovedOne(K1, t, "overflow", event, K2)
      BY <1>1, <1>3, <2>1, MovedOneFacts DEF ListStates
    <3> QED
      BY <3>1 DEF MovedOne
  <2>3. Left("overflow")
    BY <1>3, <2>2 DEF SameButLists
  <2>4. TimesSound(K2)
    <3>1. wake <= K.xTickCount
      BY <1>2, <1>6
    <3> QED
      BY <1>1, <1>3, <2>2, <3>1 DEF TimesSound, SameButLists
  <2> QED
    BY <1>4, <2>3, <2>4 DEF t, K2
<1>7. CASE ~(ticks = portMAX_DELAY /\ indefinitely) /\ ~(wake < K.xTickCount)
  <2> DEFINE M == Moved(K1, {t}, "delayed", event)
             next == Min({M.xNextTaskUnblockTime, wake})
  <2>1. K2 = [M EXCEPT !.xNextTaskUnblockTime = next]
    BY <1>7 DEF prvAddCurrentTaskToDelayedList, wake, K1
  <2> HIDE DEF K2, t
  <2>2. /\ M \in KernelType /\ SameButLists(K1, M)
        /\ M.xNextTaskUnblockTime = K1.xNextTaskUnblockTime
        /\ \A u \in Tasks :
             /\ M.xStateListItem[u] = IF u = t THEN "delayed" ELSE K1.xStateListItem[u]
             /\ M.xEventListItem[u] = IF u = t THEN event ELSE K1.xEventListItem[u]
             /\ M.xTimeToWake[u] = K1.xTimeToWake[u]
    <3>1. MovedOne(K1, t, "delayed", event, M)
      BY <1>1, <1>3, MovedOneFacts DEF ListStates
    <3> QED
      BY <3>1 DEF MovedOne
  <2> HIDE DEF M
  <2>3. next \in Ticks /\ next <= K.xNextTaskUnblockTime /\ next <= wake
    <3> DEFINE both == {M.xNextTaskUnblockTime, wake}
    <3>1. M.xNextTaskUnblockTime \in Ticks /\ M.xNextTaskUnblockTime = K.xNextTaskUnblockTime
      BY <1>1, <1>3, <2>2, KernelFields
    <3>2. both \in SUBSET Nat /\ both # {} /\ both \in SUBSET Ticks
      BY <1>2, <3>1, TickFacts
    <3>3. M.xNextTaskUnblockTime \in both /\ wake \in both
      OBVIOUS
    <3> HIDE DEF both
    <3>4. Min(both) \in both /\ \A x \in both : Min(both) <= x
      BY <3>2, MinFacts
    <3> QED
      BY <3>1, <3>2, <3>3, <3>4 DEF both
  <2> HIDE DEF next
  <2>4. /\ K2 \in KernelType /\ SameButLists(M, K2) /\ K2.xNextTaskUnblockTime = next
        /\ K2.xStateListItem = M.xStateListItem /\ K2.xEventListItem = M.xEventListItem
        /\ K2.xTimeToWake = M.xTimeToWake
    BY <2>1, <2>2, <2>3 DEF KernelType, SameButLists
  <2>5. Left("delayed")
    BY <1>3, <2>2, <2>4 DEF SameButLists
  <2>6. TimesSound(K2)
    <3>1. K.xTickCount < wake
      BY <1>2, <1>7
    <3>2. K2.xTickCount = K.xTickCount
      BY <1>3, <2>2, <2>4 DEF SameButLists
    <3>3. /\ \A u \in Tasks : K.xTimeToWake[u] \in Nat
          /\ K.xNextTaskUnblockTime \in Nat /\ next \in Nat
      BY <1>1, <2>3, KernelFields, TickFacts
    <3>4. ASSUME NEW u \in Tasks, K2.xStateListItem[u] = "delayed"
          PROVE  K2.xTickCount < K2.xTimeToWake[u] /\ K2.xNextTaskUnblockTime <= K2.xTimeToWake[u]
      <4>1. CASE u = t
        BY <1>3, <2>2, <2>3, <2>4, <3>1, <3>2, <4>1
      <4>2. CASE u # t
        <5>1. K.xStateListItem[u] = "delayed" /\ K2.xTimeToWake[u] = K.xTimeToWake[u]
          BY <1>3, <2>2, <2>4, <3>4, <4>2
        <5> QED
          BY <1>1, <2>3, <2>4, <3>2, <3>3, <5>1 DEF TimesSound
      <4> QED
        BY <4>1, <4>2
    <3>5. ASSUME NEW u \in Tasks, K2.xStateListItem[u] = "overflow"
          PROVE  K2.xTimeToWake[u] <= K2.xTickCount
      BY <1>1, <1>3, <2>2, <2>4, <3>2, <3>5 DEF TimesSound
    <3> QED
      BY <3>4, <3>5 DEF TimesSound
  <2> QED
    BY <1>4, <2>5, <2>6 DEF t, K2
<1> QED
  BY <1>5, <1>6, <1>7

\* A function that keeps the lists, and asks for a switch where one is due.
LEMMA SoundKept ==
  ASSUME NEW K, KernelSound(K), NEW K2, Advances(K, K2), Served(K2)
  PROVE  KernelSound(K2)
BY DEF KernelSound, Advances, Served, Waiting

\* taskYIELD only asks for the switch.
LEMMA YieldFacts ==
  ASSUME NEW K, ListsKept(K)
  PROVE  /\ ListsKept(taskYIELD(K)) /\ SameLists(K, taskYIELD(K))
         /\ taskYIELD(K).xPendSV /\ taskYIELD(K).xYieldPending = K.xYieldPending
<1> DEFINE K2 == taskYIELD(K)
<1>1. K \in KernelType
  BY DEF ListsKept
<1>2. K2 \in KernelType /\ SameLists(K, K2)
  BY <1>1 DEF KernelType, SameLists, taskYIELD
<1>3. K2.xPendSV /\ K2.xYieldPending = K.xYieldPending
  BY <1>1 DEF KernelType, taskYIELD
<1> HIDE DEF K2
<1>4. ListsKept(K2)
  BY <1>2 DEF ListsKept, TimesSound, SameLists, Ready
<1> QED
  BY <1>2, <1>3, <1>4 DEF K2

\* One task of the list, t, is unblocked.
Unblocks(K, K2, list, t) ==
  /\ Advances(K, K2)
  /\ t \in Waiting(K, list) /\ Waiting(K2, list) = Waiting(K, list) \ {t}
  /\ Top(K) => Top(K2) \/ (K.uxSchedulerSuspended = 0 /\ AboveCurrent(K, {t}))

\* xTaskRemoveFromEventList takes the waiter of highest priority off the list.
LEMMA RemoveFacts ==
  ASSUME NEW K, ListsKept(K), NEW list \in {"send", "receive"}, Waiting(K, list) # {}
  PROVE  Unblocks(K, xTaskRemoveFromEventList(K, list), list, Highest(Waiting(K, list)))
<1> DEFINE t == Highest(Waiting(K, list))
           above == AboveCurrent(K, {t})
           K1 == [K EXCEPT !.xYieldPending = K.xYieldPending \/ above]
           state == IF K.uxSchedulerSuspended = 0 THEN "ready" ELSE K.xStateListItem[t]
           event == IF K.uxSchedulerSuspended = 0 THEN "none" ELSE "pending"
           K2 == Moved(K1, {t}, state, event)
<1>1. xTaskRemoveFromEventList(K, list) = K2
  BY DEF xTaskRemoveFromEventList
<1>2. /\ K \in KernelType /\ IdleTask \in Tasks /\ TimesSound(K)
      /\ \A u \in Tasks : K.xStateListItem[u] = "ready" => K.xEventListItem[u] = "none"
      /\ K.xStateListItem[IdleTask] = "ready"
      /\ K.xStateListItem \in [Tasks -> ListStates]
      /\ K.uxSchedulerSuspended \in 0 .. 1
      /\ K.xYieldPending \in BOOLEAN /\ above \in BOOLEAN
  BY KernelFields, TasksAssumption DEF ListsKept, Ready, TasksAssumption, AboveCurrent
<1>3. t \in Waiting(K, list) /\ t \in Tasks /\ K.xEventListItem[t] = list
  <2>1. Waiting(K, list) \in SUBSET Tasks
    BY <1>2, KernelFields
  <2>2. t \in Waiting(K, list)
    BY <2>1, HighestFacts
  <2> QED
    BY <2>1, <2>2 DEF Waiting
<1> HIDE DEF t
<1>4. /\ state \in ListStates /\ event \in EventLists
      /\ K.xStateListItem[t] # "ready"
  BY <1>2, <1>3 DEF ListStates, EventLists
<1>5. /\ K1 \in KernelType /\ SameLists(K, K1) /\ K1.xPendSV = K.xPendSV
  BY <1>2 DEF KernelType, SameLists
<1>6. K1.xYieldPending <=> K.xYieldPending \/ above
  BY <1>2, Zenon DEF KernelType
<1> HIDE DEF K1
<1>7. MovedOne(K1, t, state, event, K2)
  BY <1>3, <1>4, <1>5, MovedOneFacts
<1> HIDE DEF K2
<1>8. /\ K2 \in KernelType
      /\ K2.pxCurrentTCB = K.pxCurrentTCB /\ K2.xTickCount = K.xTickCount
      /\ K2.uxSchedulerSuspended = K.uxSchedulerSuspended
      /\ K2.xPendedTicks = K.xPendedTicks /\ K2.xPendSV = K.xPendSV
      /\ K2.xNextTaskUnblockTime = K.xNextTaskUnblockTime
      /\ K.xYieldPending => K2.xYieldPending
      /\ \A u \in Tasks :
           /\ K2.xStateListItem[u] = IF u = t THEN state ELSE K.xStateListItem[u]
           /\ K2.xEventListItem[u] = IF u = t THEN event ELSE K.xEventListItem[u]
           /\ u # t \/ state \notin {"ready", "suspended"} => K2.xTimeToWake[u] = K.xTimeToWake[u]
  BY <1>5, <1>6, <1>7 DEF MovedOne, SameLists, SameButLists
<1>9. TimesSound(K2)
  BY <1>2, <1>8 DEF TimesSound
<1>10. ListsKept(K2)
  <2>1. \A u \in Tasks : K2.xStateListItem[u] = "ready" => K2.xEventListItem[u] = "none"
    BY <1>2, <1>3, <1>4, <1>8
  <2>2. K2.xStateListItem[IdleTask] = "ready"
    BY <1>2, <1>4, <1>8
  <2> QED
    BY <1>8, <1>9, <2>1, <2>2 DEF ListsKept, Ready
<1>11. Advances(K, K2)
  <2>1. \A u \in Tasks : K.xStateListItem[u] = "ready" => K2.xStateListItem[u] = "ready"
    BY <1>4, <1>8
  <2>2. \A u \in Tasks :
          \/ K2.xEventListItem[u] \in {K.xEventListItem[u], "none"}
          \/ K2.xEventListItem[u] = "pending" /\ K.uxSchedulerSuspended = 1
    BY <1>2, <1>8
  <2> QED
    BY <1>8, <1>10, <2>1, <2>2 DEF Advances
<1>12. Waiting(K2, list) = Waiting(K, list) \ {t}
  BY <1>3, <1>8 DEF Waiting
<1>13. Top(K) => Top(K2) \/ (K.uxSchedulerSuspended = 0 /\ above)
  <2>1. CASE K.uxSchedulerSuspended = 0
    <3>1. \A u \in Tasks : K2.xStateListItem[u] = "ready" =>
                             u \in {t} \/ K.xStateListItem[u] = "ready"
      BY <1>8
    <3>2. {t} \in SUBSET Tasks
      BY <1>3
    <3>3. ~above /\ Top(K) => Top(K2)
      BY <1>2, <1>8, <3>1, <3>2, TopKept
    <3> QED
      BY <2>1, <3>3
  <2>2. CASE K.uxSchedulerSuspended # 0
    <3>1. \A u \in Tasks : K2.xStateListItem[u] = K.xStateListItem[u]
      BY <1>8, <2>2
    <3> QED
      BY <1>8, <3>1 DEF Top, Ready
  <2> QED
    BY <2>1, <2>2
<1> QED
  BY <1>1, <1>3, <1>11, <1>12, <1>13 DEF Unblocks, t

\* The same for a list that may be empty, with the yield.
LEMMA UnblockFacts ==
  ASSUME NEW K, ListsKept(K), NEW list \in {"send", "receive"}, NEW K2, K2 = Unblock(K, list)
  PROVE  /\ Advances(K, K2)
         /\ Served(K) => Served(K2)
         /\ Waiting(K, list) # {} =>
              \E t \in Waiting(K, list) : Waiting(K2, list) = Waiting(K, list) \ {t}
<1>1. CASE Waiting(K, list) = {}
  <2>1. K2 = K
    BY <1>1 DEF Unblock
  <2> QED
    BY <1>1, <2>1 DEF Advances, Served
<1>2. CASE Waiting(K, list) # {}
  <2> DEFINE t == Highest(Waiting(K, list))
             K1 == xTaskRemoveFromEventList(K, list)
  <2>1. Unblocks(K, K1, list, t)
    BY <1>2, RemoveFacts
  <2>2. K2 = IF AboveCurrent(K, {t}) THEN taskYIELD(K1) ELSE K1
    BY <1>2 DEF Unblock
  <2> HIDE DEF K1, t
  <2>3. ListsKept(K1)
    BY <2>1 DEF Unblocks, Advances
  <2>4. CASE AboveCurrent(K, {t})
    <3>1. K2 = taskYIELD(K1)
      BY <2>2, <2>4
    <3>2. ListsKept(K2) /\ SameLists(K1, K2) /\ K2.xPendSV /\ K2.xYieldPending = K1.xYieldPending
      BY <2>3, <3>1, YieldFacts
    <3> QED
      BY <2>1, <3>2 DEF Unblocks, Advances, SameLists, Served, Waiting
  <2>5. CASE ~AboveCurrent(K, {t})
    <3>1. K2 = K1
      BY <2>2, <2>5
    <3> QED
      BY <2>1, <2>5, <3>1 DEF Unblocks, Advances, Served
  <2> QED
    BY <2>4, <2>5
<1> QED
  BY <1>1, <1>2

\* Sets of tasks.
LEMMA TaskSets ==
  ASSUME NEW W \in SUBSET Tasks
  PROVE  /\ Cardinality(W) \in Nat /\ Cardinality(Tasks) \in Nat
         /\ Cardinality(W) <= Cardinality(Tasks)
         /\ Cardinality(W) = 0 <=> W = {}
         /\ \A R \in SUBSET W : Cardinality(R) <= Cardinality(W)
         /\ \A t \in W : Cardinality(W \ {t}) = Cardinality(W) - 1
         /\ \A t : t \notin W => Cardinality(W \cup {t}) = Cardinality(W) + 1
<1>1. IsFiniteSet(Tasks)
  BY TasksAssumption DEF TasksAssumption
<1>2. IsFiniteSet(W) /\ Cardinality(W) <= Cardinality(Tasks)
  BY <1>1, FS_Subset
<1>3. Cardinality(W) \in Nat /\ Cardinality(Tasks) \in Nat
  BY <1>1, <1>2, FS_CardinalityType
<1>4. Cardinality(W) = 0 <=> W = {}
  BY <1>2, FS_EmptySet
<1>5. \A R \in SUBSET W : Cardinality(R) <= Cardinality(W)
  BY <1>2, FS_Subset
<1>6. \A t \in W : Cardinality(W \ {t}) = Cardinality(W) - 1
  BY <1>2, FS_RemoveElement
<1>7. \A t : t \notin W => Cardinality(W \cup {t}) = Cardinality(W) + 1
  BY <1>2, FS_AddElement
<1> QED
  BY <1>2, <1>3, <1>4, <1>5, <1>6, <1>7

\* One round of prvUnlockQueue.
Round(K, list) ==
  IF Waiting(K, list) = {} THEN K ELSE xTaskRemoveFromEventList(K, list)

\* n rounds unblock n tasks, or all there are.
Rounds(K, K2, list, n) ==
  /\ Advances(K, K2)
  /\ Top(K) => Top(K2)
  /\ \/ Waiting(K2, list) = {}
     \/ Cardinality(Waiting(K2, list)) + n <= Cardinality(Waiting(K, list))

\* One more count of the lock.
LEMMA RoundFacts ==
  ASSUME NEW K, ListsKept(K), K.uxSchedulerSuspended = 1, NEW list \in {"send", "receive"},
         NEW K1, NEW n \in Nat, Rounds(K, K1, list, n)
  PROVE  Rounds(K, Round(K1, list), list, n + 1)
<1> DEFINE K2 == Round(K1, list)
<1>1. K1.uxSchedulerSuspended = 1 /\ ListsKept(K1)
  BY DEF Rounds, Advances
<1>2. CASE Waiting(K1, list) = {}
  BY <1>2 DEF Rounds, Round
<1>3. CASE Waiting(K1, list) # {}
  <2> DEFINE t == Highest(Waiting(K1, list))
  <2>1. Unblocks(K1, K2, list, t)
    BY <1>1, <1>3, RemoveFacts DEF Round
  <2> HIDE DEF t, K2
  <2>2. Advances(K, K2)
    BY <2>1, AdvancesOn DEF Rounds, Unblocks
  <2>3. Top(K) => Top(K2)
    BY <1>1, <2>1 DEF Rounds, Unblocks
  <2>4. Waiting(K, list) \in SUBSET Tasks /\ Waiting(K1, list) \in SUBSET Tasks
    BY DEF Waiting
  <2>5. /\ Cardinality(Waiting(K1, list)) \in Nat /\ Cardinality(Waiting(K, list)) \in Nat
        /\ Cardinality(Waiting(K2, list)) = Cardinality(Waiting(K1, list)) - 1
    BY <2>1, <2>4, TaskSets DEF Unblocks
  <2>6. Cardinality(Waiting(K1, list)) + n <= Cardinality(Waiting(K, list))
    BY <1>3 DEF Rounds
  <2>7. Cardinality(Waiting(K2, list)) + (n + 1) <= Cardinality(Waiting(K, list))
    BY <2>5, <2>6
  <2> QED
    BY <2>2, <2>3, <2>7 DEF Rounds, K2
<1> QED
  BY <1>2, <1>3

\* The counts of a lock are worked off one by one.
LEMMA LocksOneByOne ==
  ASSUME NEW K, NEW list, NEW lock \in Nat
  PROVE  \E after : /\ after[0] = K /\ after[lock] = Unlocked(K, list, lock)
                    /\ \A m \in 0 .. lock - 1 : after[m + 1] = Round(after[m], list)
<1> DEFINE after[n \in 0 .. lock] == IF n = 0 THEN K ELSE Round(after[n - 1], list)
           S == {m \in Nat :
                   \E g : g = [n \in 0 .. m |-> IF n = 0 THEN K ELSE Round(g[n - 1], list)]}
<1>1. Unlocked(K, list, lock) = after[lock]
  BY DEF Unlocked, Round
<1>2. 0 \in S
  <2>1. [n \in 0 .. 0 |-> K]
          = [n \in 0 .. 0 |-> IF n = 0 THEN K ELSE Round([j \in 0 .. 0 |-> K][n - 1], list)]
    OBVIOUS
  <2> QED
    BY <2>1
<1>3. ASSUME NEW m \in Nat, m \in S PROVE m + 1 \in S
  <2>1. PICK g : g = [n \in 0 .. m |-> IF n = 0 THEN K ELSE Round(g[n - 1], list)]
    BY <1>3
  <2> DEFINE h == [n \in 0 .. m + 1 |-> IF n = m + 1 THEN Round(g[m], list) ELSE g[n]]
  <2>2. ASSUME NEW n \in 0 .. m + 1
        PROVE  h[n] = IF n = 0 THEN K ELSE Round(h[n - 1], list)
    <3>1. CASE n = 0
      BY <2>1, <3>1
    <3>2. CASE n # 0 /\ n # m + 1
      <4>1. n \in 0 .. m /\ n - 1 \in 0 .. m + 1 /\ n - 1 # m + 1
        BY <3>2
      <4>2. h[n - 1] = g[n - 1]
        BY <4>1
      <4> QED
        BY <2>1, <3>2, <4>1, <4>2
    <3>3. CASE n = m + 1
      <4>1. n - 1 = m /\ m \in 0 .. m + 1 /\ m # m + 1 /\ n # 0
        BY <3>3
      <4>2. h[n - 1] = g[m]
        BY <4>1
      <4> QED
        BY <3>3, <4>1, <4>2
    <3> QED
      BY <3>1, <3>2, <3>3
  <2>3. h = [n \in 0 .. m + 1 |-> IF n = 0 THEN K ELSE Round(h[n - 1], list)]
    BY <2>2
  <2> HIDE DEF h
  <2> QED
    BY <2>3
<1>4. lock \in S
  <2> HIDE DEF S
  <2> QED
    BY <1>2, <1>3, SetInduction, Zenon
<1>5. after = [n \in 0 .. lock |-> IF n = 0 THEN K ELSE Round(after[n - 1], list)]
  BY <1>4
<1> HIDE DEF after, S
<1>6. after[0] = K /\ \A m \in 0 .. lock - 1 : after[m + 1] = Round(after[m], list)
  <2>1. after[0] = K
    BY <1>5
  <2>2. ASSUME NEW m \in 0 .. lock - 1 PROVE after[m + 1] = Round(after[m], list)
    <3>1. m + 1 \in 0 .. lock /\ m + 1 # 0 /\ m + 1 - 1 = m
      OBVIOUS
    <3> QED
      BY <1>5, <3>1
  <2> QED
    BY <2>1, <2>2
<1> QED
  BY <1>1, <1>6

\* All of them: as many waiters are unblocked as the lock counts, or all there are.
LEMMA UnlockedFacts ==
  ASSUME NEW K, ListsKept(K), K.uxSchedulerSuspended = 1, NEW list \in {"send", "receive"},
         NEW lock \in Nat
  PROVE  Rounds(K, Unlocked(K, list, lock), list, lock)
<1>1. PICK after : /\ after[0] = K /\ after[lock] = Unlocked(K, list, lock)
                   /\ \A m \in 0 .. lock - 1 : after[m + 1] = Round(after[m], list)
  BY LocksOneByOne
<1> DEFINE P == {m \in Nat : m <= lock => Rounds(K, after[m], list, m)}
<1>6. 0 \in P
  <2>1. after[0] = K
    BY <1>1
  <2>2. Waiting(K, list) \in SUBSET Tasks
    BY DEF Waiting
  <2>3. Rounds(K, K, list, 0)
    BY <2>2, TaskSets DEF Rounds, Advances
  <2> QED
    BY <2>1, <2>3
<1>7. ASSUME NEW m \in Nat, m \in P PROVE m + 1 \in P
  <2> SUFFICES ASSUME m + 1 <= lock PROVE Rounds(K, after[m + 1], list, m + 1)
    OBVIOUS
  <2>1. after[m + 1] = Round(after[m], list)
    BY <1>1
  <2>2. Rounds(K, after[m], list, m)
    BY <1>7
  <2> QED
    BY <2>1, <2>2, RoundFacts
<1>8. lock \in P
  <2> HIDE DEF P
  <2> QED
    BY <1>6, <1>7, SetInduction, Zenon
<1> QED
  BY <1>1, <1>8

-----------------------------------------------------------------------------
(* Counting the tasks that will look at the queue again.                     *)

\* Fewer wait, more will look, and there is not more.
LEMMA EnoughKept ==
  ASSUME NEW W, NEW R \in SUBSET Tasks, NEW s \in Int, NEW k \in Int, Enough(W, R, s, k),
         NEW W2 \in SUBSET W, NEW R2 \in SUBSET Tasks, R \subseteq R2,
         NEW s2 \in Int, s2 <= s, NEW k2 \in Int, k2 = k \/ (k = -1 /\ k2 = 0)
  PROVE  Enough(W2, R2, s2, k2)
<1>1. /\ Cardinality(R) \in Nat /\ Cardinality(R2) \in Nat
      /\ Cardinality(R) <= Cardinality(R2) /\ Cardinality(Tasks) \in Nat
  BY TaskSets
<1>2. Max({0, k}) = Max({0, k2}) /\ Max({0, k}) \in Nat
  BY MaxZero
<1> QED
  BY <1>1, <1>2 DEF Enough

\* One more task, and one less.
LEMMA OneMore ==
  ASSUME NEW R \in SUBSET Tasks, NEW R2 \in SUBSET Tasks, R \subseteq R2,
         NEW t \in R2, t \notin R
  PROVE  /\ Cardinality(R) \in Nat /\ Cardinality(R2) \in Nat
         /\ Cardinality(R) + 1 <= Cardinality(R2)
<1> DEFINE S == R \cup {t}
<1>1. S \in SUBSET R2 /\ S \in SUBSET Tasks
  OBVIOUS
<1>2. Cardinality(S) = Cardinality(R) + 1
  BY TaskSets
<1> HIDE DEF S
<1>3. Cardinality(S) <= Cardinality(R2) /\ Cardinality(R) \in Nat /\ Cardinality(R2) \in Nat
  BY <1>1, TaskSets
<1> QED
  BY <1>2, <1>3

\* A set without one of its tasks.
LEMMA OneLess ==
  ASSUME NEW R \in SUBSET Tasks, NEW t
  PROVE  /\ Cardinality(R) \in Nat /\ Cardinality(R \ {t}) \in Nat
         /\ Cardinality(R) <= Cardinality(R \ {t}) + 1
<1>1. Cardinality(R) \in Nat
  BY TaskSets
<1>2. CASE t \in R
  <2>1. Cardinality(R \ {t}) = Cardinality(R) - 1
    BY <1>2, TaskSets
  <2>2. R \ {t} \in SUBSET Tasks
    OBVIOUS
  <2>3. Cardinality(R \ {t}) \in Nat
    BY <2>2, TaskSets
  <2> QED
    BY <1>1, <2>1, <2>3
<1>3. CASE t \notin R
  <2>1. R \ {t} = R
    BY <1>3
  <2> HIDE <1>3
  <2> QED
    BY <1>1, <2>1
<1> QED
  BY <1>2, <1>3

\* There is nothing.
LEMMA EnoughNone ==
  ASSUME NEW W, NEW R \in SUBSET Tasks, NEW s \in Int, s <= 0, NEW k \in Int
  PROVE  Enough(W, R, s, k)
<1>1. Cardinality(R) \in Nat /\ Max({0, k}) \in Nat
  BY TaskSets, MaxZero
<1> QED
  BY <1>1 DEF Enough

\* There is one more, and if anybody waits one more will look.
LEMMA EnoughServed ==
  ASSUME NEW W, NEW R \in SUBSET Tasks, NEW s \in Int, Enough(W, R, s, -1),
         NEW W2 \in SUBSET W, NEW R2 \in SUBSET Tasks, R \subseteq R2,
         W # {} => \E t \in W : t \notin R /\ t \in R2,
         NEW s2 \in Int, s2 <= s + 1
  PROVE  Enough(W2, R2, s2, -1)
<1> SUFFICES ASSUME W2 # {}, ResetsFit PROVE s2 <= Cardinality(R2) + Max({0, -1})
  BY DEF Enough
<1>1. PICK t \in W : t \notin R /\ t \in R2
  OBVIOUS
<1>3. Cardinality(R) \in Nat /\ Cardinality(R2) \in Nat /\ Cardinality(R) + 1 <= Cardinality(R2)
  BY <1>1, OneMore
<1>4. Max({0, -1}) = 0 /\ Cardinality(Tasks) \in Nat
  BY MaxZero, TaskSets
<1>5. s <= Cardinality(R)
  BY <1>3, <1>4 DEF Enough
<1> QED
  BY <1>3, <1>4, <1>5

\* There is one more, and the lock counts it.
LEMMA EnoughCounted ==
  ASSUME NEW W, NEW R \in SUBSET Tasks, NEW s \in Int, NEW k \in 0 .. Cardinality(Tasks),
         Enough(W, R, s, k), NEW s2 \in Int, s2 <= s + 1
  PROVE  Enough(W, R, s2, Incremented(k))
<1>1. Cardinality(R) \in Nat /\ Cardinality(Tasks) \in Nat
  BY TaskSets
<1>2. CASE k < Cardinality(Tasks)
  <2>1. Incremented(k) = k + 1 /\ k # Cardinality(Tasks)
    BY <1>1, <1>2 DEF Incremented
  <2>2. Max({0, k}) = k /\ Max({0, k + 1}) = k + 1
    BY <1>1, MaxZero
  <2> QED
    BY <1>1, <2>1, <2>2 DEF Enough
<1>3. CASE ~(k < Cardinality(Tasks))
  <2>1. Incremented(k) = Cardinality(Tasks)
    BY <1>1, <1>3 DEF Incremented
  <2> QED
    BY <2>1 DEF Enough
<1> QED
  BY <1>2, <1>3

\* A task that has looked took one.
LEMMA EnoughTaken ==
  ASSUME NEW W, NEW R \in SUBSET Tasks, NEW s \in Int, NEW k \in Int, Enough(W, R, s, k),
         NEW W2 \in SUBSET W, NEW R2 \in SUBSET Tasks, NEW t, R \ {t} \subseteq R2,
         NEW s2 \in Int, s2 <= s - 1
  PROVE  Enough(W2, R2, s2, k)
<1>1. R \ {t} \in SUBSET R2 /\ R \ {t} \in SUBSET Tasks
  OBVIOUS
<1>2. /\ Cardinality(R) \in Nat /\ Cardinality(R2) \in Nat
      /\ Cardinality(R \ {t}) \in Nat /\ Cardinality(R \ {t}) <= Cardinality(R2)
  BY <1>1, TaskSets
<1>3. Cardinality(R) <= Cardinality(R \ {t}) + 1
  BY OneLess
<1>4. Max({0, k}) \in Nat
  BY MaxZero
<1> QED
  BY <1>2, <1>3, <1>4 DEF Enough

\* A task that has looked has left what it found, and passed the word on.
LEMMA EnoughPassedOn ==
  ASSUME NEW W, NEW R \in SUBSET Tasks, NEW s \in Int, Enough(W, R, s, -1),
         NEW W2 \in SUBSET W, NEW R2 \in SUBSET Tasks, NEW t, R \ {t} \subseteq R2,
         W # {} => \E w \in W : w \notin R /\ w \in R2
  PROVE  Enough(W2, R2, s, -1)
<1> SUFFICES ASSUME W2 # {}, ResetsFit PROVE s <= Cardinality(R2) + Max({0, -1})
  BY DEF Enough
<1>1. PICK w \in W : w \notin R /\ w \in R2
  OBVIOUS
<1>2. R \ {t} \in SUBSET Tasks /\ w \notin R \ {t}
  BY <1>1
<1>3. /\ Cardinality(R2) \in Nat /\ Cardinality(R \ {t}) \in Nat
      /\ Cardinality(R \ {t}) + 1 <= Cardinality(R2)
  BY <1>1, <1>2, OneMore
<1>4. Cardinality(R) \in Nat /\ Cardinality(R) <= Cardinality(R \ {t}) + 1
  BY OneLess
<1>5. Max({0, -1}) = 0 /\ Cardinality(Tasks) \in Nat
  BY MaxZero, TaskSets
<1>6. s <= Cardinality(R)
  BY <1>4, <1>5 DEF Enough
<1> QED
  BY <1>3, <1>4, <1>5, <1>6

\* The lock is given up: k of the waiters, or all of them, will look.
LEMMA EnoughUnlocked ==
  ASSUME NEW W \in SUBSET Tasks, NEW R \in SUBSET Tasks, W \cap R = {},
         NEW s \in Int, NEW k \in Nat, Enough(W, R, s, k),
         NEW W2 \in SUBSET W, NEW R2 \in SUBSET Tasks, R \cup (W \ W2) \subseteq R2,
         W2 = {} \/ Cardinality(W2) + k <= Cardinality(W)
  PROVE  Enough(W2, R2, s, -1)
<1> SUFFICES ASSUME W2 # {}, ResetsFit PROVE s <= Cardinality(R2) + Max({0, -1})
  BY DEF Enough
<1>1. /\ Cardinality(W) \in Nat /\ Cardinality(R) \in Nat /\ Cardinality(Tasks) \in Nat
      /\ Cardinality(W) <= Cardinality(Tasks) /\ Cardinality(R2) \in Nat
  BY TaskSets
<1>2. Cardinality(W2) \in Nat /\ Cardinality(W2) # 0
  BY TaskSets
<1>3. k # Cardinality(Tasks)
  BY <1>1, <1>2
<1>4. s <= Cardinality(R) + k
  <2>1. Max({0, k}) = k
    BY MaxZero
  <2> QED
    BY <1>3, <2>1 DEF Enough
<1>5. IsFiniteSet(W) /\ IsFiniteSet(R) /\ IsFiniteSet(W \ W2) /\ IsFiniteSet(R2)
  <2>1. IsFiniteSet(Tasks)
    BY TasksAssumption DEF TasksAssumption
  <2> QED
    BY <2>1, FS_Subset
<1>6. Cardinality(W \ W2) = Cardinality(W) - Cardinality(W2)
  <2>1. W \cap W2 = W2
    OBVIOUS
  <2> QED
    BY <1>5, <2>1, FS_Difference
<1>7. Cardinality(R \cup (W \ W2)) = Cardinality(R) + Cardinality(W \ W2)
  <2>1. R \cap (W \ W2) = {}
    OBVIOUS
  <2>2. /\ Cardinality(R \cap (W \ W2)) = 0
        /\ Cardinality(R \cup (W \ W2))
             = Cardinality(R) + Cardinality(W \ W2) - Cardinality(R \cap (W \ W2))
    BY <1>5, <2>1, FS_Union, FS_EmptySet
  <2> QED
    BY <1>1, <1>2, <1>6, <2>2
<1>8. Cardinality(R \cup (W \ W2)) <= Cardinality(R2)
  BY <1>5, FS_Subset
<1>9. Max({0, -1}) = 0
  BY MaxZero
<1> QED
  BY <1>1, <1>2, <1>4, <1>6, <1>7, <1>8, <1>9

-----------------------------------------------------------------------------
(* What the steps have in common.                                           *)


\* No task is put on an event list, and the current one stays current.
Eases(K, K2) ==
  /\ K2.pxCurrentTCB = K.pxCurrentTCB
  /\ \A t \in Tasks : K2.xEventListItem[t] \in {K.xEventListItem[t], "none", "pending"}

\* Only the tasks of X end or begin a call, or give up trying.
Elsewhere(X) ==
  \A u \in Tasks \ X : call'[u].op = call[u].op /\ (WillTry(u) => WillTry(u)')

\* Supply and lock counts are numbers.
LEMMA QueueFacts ==
  ASSUME QueueSound
  PROVE  /\ queue.uxLength \in Nat \ {0} /\ queue.uxLength \in Lengths
         /\ queue \in QueueType(queue.uxLength)
         /\ queue.uxMessagesWaiting \in Nat /\ queue.uxMessagesWaiting <= queue.uxLength
         /\ queue.cTxLock \in queueUNLOCKED .. Cardinality(Tasks)
         /\ queue.cRxLock \in queueUNLOCKED .. Cardinality(Tasks)
         /\ Cardinality(Tasks) \in Nat
         /\ \A list : Supply(list) \in Nat
         /\ \A list : LockOf(list) \in queueUNLOCKED .. Cardinality(Tasks)
<1>1. Cardinality(Tasks) \in Nat
  BY TaskSets
<1>2. queue.uxLength \in Nat \ {0} /\ queue.uxLength \in Lengths
  BY QueueAssumption DEF QueueAssumption, QueueSound
<1>3. queue \in QueueType(queue.uxLength)
  BY DEF QueueSound
<1>4. /\ queue.uxMessagesWaiting \in 0 .. queue.uxLength
      /\ queue.cTxLock \in queueUNLOCKED .. Cardinality(Tasks)
      /\ queue.cRxLock \in queueUNLOCKED .. Cardinality(Tasks)
  BY <1>3 DEF QueueType
<1>5. queue.uxMessagesWaiting \in Nat /\ queue.uxMessagesWaiting <= queue.uxLength
  BY <1>2, <1>4
<1> QED
  BY <1>1, <1>2, <1>3, <1>4, <1>5 DEF Supply, LockOf

\* The waiting and the retrying tasks after a step in which only the tasks of X do
\* anything.
Followed(X, list) ==
  /\ Waiting(kernel, list) \in SUBSET Tasks /\ Retrying(list) \in SUBSET Tasks
  /\ Waiting(kernel', list) \in SUBSET Waiting(kernel, list)
  /\ Retrying(list)' \in SUBSET Tasks
  /\ Waiting(kernel, list) \cap Retrying(list) = {}
  /\ Retrying(list) \ X \subseteq Retrying(list)'
  /\ (Waiting(kernel, list) \ Waiting(kernel', list)) \ X \subseteq Retrying(list)'

\* A task that was trying still is, and one taken off its list has begun to.
LEMMA FollowedFacts ==
  ASSUME WaitersSound, Eases(kernel, kernel'), NEW X,
         Elsewhere(X),
         NEW list \in Lists
  PROVE  Followed(X, list)
<1>1. \A u \in Tasks : kernel'.xEventListItem[u] = list => kernel.xEventListItem[u] = list
  BY DEF Eases, Lists
<1>2. \A u : /\ u \in Waiting(kernel, list) <=> u \in Tasks /\ kernel.xEventListItem[u] = list
             /\ u \in Waiting(kernel', list) <=> u \in Tasks /\ kernel'.xEventListItem[u] = list
  BY DEF Waiting
<1>3. \A u : u \in Retrying(list) <=>
               /\ u \in Tasks /\ ListOf(call[u].op) = list
               /\ kernel.xEventListItem[u] # list /\ WillTry(u)
  BY DEF Retrying, WillTry, Unlocking
<1>4. \A u : u \in Retrying(list)' <=>
               /\ u \in Tasks /\ ListOf(call'[u].op) = list
               /\ kernel'.xEventListItem[u] # list /\ WillTry(u)'
  BY DEF Retrying, WillTry, Unlocking
<1>5. \A u \in Waiting(kernel, list) : ListOf(call[u].op) = list /\ WillTry(u)
  BY <1>2 DEF WaitersSound, Lists
<1>6. \A u \in Tasks \ X : WillTry(u) => WillTry(u)'
  BY DEF Elsewhere
<1>7. \A u \in Tasks \ X : ListOf(call'[u].op) = ListOf(call[u].op)
  BY DEF ListOf, Elsewhere
<1> HIDE DEF WillTry
<1>8. Retrying(list) \ X \subseteq Retrying(list)'
  BY <1>1, <1>3, <1>4, <1>6, <1>7
<1>9. (Waiting(kernel, list) \ Waiting(kernel', list)) \ X \subseteq Retrying(list)'
  BY <1>2, <1>4, <1>5, <1>6, <1>7
<1>10. /\ Waiting(kernel, list) \in SUBSET Tasks /\ Retrying(list) \in SUBSET Tasks
       /\ Waiting(kernel', list) \in SUBSET Waiting(kernel, list)
       /\ Retrying(list)' \in SUBSET Tasks
       /\ Waiting(kernel, list) \cap Retrying(list) = {}
  BY <1>1, <1>2, <1>3, <1>4
<1> QED
  BY <1>8, <1>9, <1>10 DEF Followed

\* What NobodyLeft says of one list.
LEMMA StrandedOfLists ==
  /\ NobodyLeft <=>
       \A list \in Lists : Enough(Waiting(kernel, list), Retrying(list), Supply(list), LockOf(list))
  /\ NobodyLeft' <=>
       \A list \in Lists : Enough(Waiting(kernel', list), Retrying(list)', Supply(list)', LockOf(list)')
BY DEF NobodyLeft, Waiting

\* The places of the tasks, when the current task t goes to s.
LEMMA FlowKept ==
  ASSUME FlowSound, NEW t \in Tasks, t = kernel.pxCurrentTCB, kernel'.pxCurrentTCB = t,
         NEW s \in Places, pc' = [pc EXCEPT ![t] = s],
         NEW c \in CallType, call' = [call EXCEPT ![t] = c],
         kernel'.uxSchedulerSuspended = IF s \in SuspendedPlaces THEN 1 ELSE 0,
         queue'.uxLength = queue.uxLength, c.op = "overwrite" => queue.uxLength = 1,
         t = IdleTask => s \in {"app", "try", "reset"} /\ c.xTicksToWait = 0,
         s \in {"ask", "place"} => c.xTicksToWait # 0
  PROVE  FlowSound'
<1>1. pc \in [Tasks -> Places] /\ call \in [Tasks -> CallType] /\ IdleTask \in Tasks
  BY TasksAssumption DEF FlowSound, TasksAssumption
<1>2. /\ pc' \in [Tasks -> Places] /\ call' \in [Tasks -> CallType]
      /\ pc'[t] = s /\ call'[t] = c
      /\ \A u \in Tasks : u # t => pc'[u] = pc[u] /\ call'[u] = call[u]
  BY <1>1
<1>3. \A u \in Tasks : pc'[u] \in SuspendedPlaces => u = kernel'.pxCurrentTCB
  BY <1>2 DEF FlowSound
<1>4. kernel'.uxSchedulerSuspended = IF pc'[kernel'.pxCurrentTCB] \in SuspendedPlaces THEN 1 ELSE 0
  BY <1>2
<1>5. pc'[IdleTask] \in {"app", "try", "reset"} /\ call'[IdleTask].xTicksToWait = 0
  BY <1>1, <1>2 DEF FlowSound
<1>6. \A u \in Tasks : pc'[u] \in {"ask", "place"} => call'[u].xTicksToWait # 0
  BY <1>2 DEF FlowSound
<1>7. \A u \in Tasks : call'[u].op = "overwrite" => queue'.uxLength = 1
  BY <1>2 DEF FlowSound
<1> QED
  BY <1>2, <1>3, <1>4, <1>5, <1>6, <1>7 DEF FlowSound

\* The event lists, when no task is put on one.
LEMMA WaitersKept ==
  ASSUME WaitersSound, Eases(kernel, kernel'), NEW X,
         Elsewhere(X),
         \A u \in X : kernel.xEventListItem[u] \notin Lists
  PROVE  WaitersSound'
<1> SUFFICES ASSUME NEW u \in Tasks, kernel'.xEventListItem[u] \in Lists
             PROVE  kernel'.xEventListItem[u] = ListOf(call'[u].op) /\ WillTry(u)'
  BY DEF WaitersSound, Lists
<1>1. kernel'.xEventListItem[u] = kernel.xEventListItem[u]
  BY DEF Eases, Lists
<1>2. kernel.xEventListItem[u] = ListOf(call[u].op) /\ WillTry(u)
  BY <1>1 DEF WaitersSound, Lists
<1>3. call'[u].op = call[u].op /\ WillTry(u)'
  BY <1>1, <1>2 DEF Elsewhere
<1> QED
  BY <1>1, <1>2, <1>3 DEF ListOf

\* A step of the current task t that leaves the queue alone.
LEMMA StepKeeps ==
  ASSUME IInv, NEW t \in Tasks, t = kernel.pxCurrentTCB, UNCHANGED queue,
         KernelSound(kernel'), Eases(kernel, kernel'),
         NEW s \in Places, pc' = [pc EXCEPT ![t] = s],
         NEW c \in CallType, call' = [call EXCEPT ![t] = c],
         kernel'.uxSchedulerSuspended = IF s \in SuspendedPlaces THEN 1 ELSE 0,
         c.op = "overwrite" => queue.uxLength = 1,
         t = IdleTask => s \in {"app", "try", "reset"} /\ c.xTicksToWait = 0,
         s \in {"ask", "place"} => c.xTicksToWait # 0,
         s = "place" => \/ Supply(ListOf(c.op)) <= LockOf(ListOf(c.op))
                        \/ LockOf(ListOf(c.op)) = Cardinality(Tasks),
         s \in {"check", "ask", "place", "unlockTx"} <=>
           pc[t] \in {"check", "ask", "place", "unlockTx"},
         s = "unlockRx" <=> pc[t] = "unlockRx",
         RunnerReady',
         \/ kernel.xEventListItem[t] \notin Lists
         \/ c.op = call[t].op /\ WillTry(t)',
         \A list \in Lists : t \in Retrying(list) => t \in Retrying(list)' \/ Supply(list) = 0
  PROVE  IInv'
<1>1. kernel'.pxCurrentTCB = t
  BY DEF Eases
<1>2. /\ pc \in [Tasks -> Places] /\ call \in [Tasks -> CallType]
      /\ FlowSound /\ QueueSound /\ WaitersSound /\ NobodyLeft
  BY DEF IInv, FlowSound
<1>3. /\ pc'[t] = s /\ call'[t] = c
      /\ \A u \in Tasks : u # t => pc'[u] = pc[u] /\ call'[u] = call[u]
  BY <1>2
<1>4. FlowSound'
  BY <1>1, <1>2, FlowKept
<1>5. QueueSound'
  BY <1>1, <1>2, <1>3 DEF QueueSound
<1>6. Elsewhere({t})
  BY <1>3 DEF WillTry, Elsewhere
<1>7. WaitersSound'
  <2>1. CASE kernel.xEventListItem[t] \notin Lists
    <3>1. \A u \in {t} : kernel.xEventListItem[u] \notin Lists
      BY <2>1
    <3> QED
      BY <1>2, <1>6, <3>1, WaitersKept
  <2>2. CASE c.op = call[t].op /\ WillTry(t)'
    <3>1. Elsewhere({})
      BY <1>3, <1>6, <2>2 DEF Elsewhere
    <3>2. \A u \in {} : kernel.xEventListItem[u] \notin Lists
      OBVIOUS
    <3> QED
      BY <1>2, <3>1, <3>2, WaitersKept
  <2> QED
    BY <2>1, <2>2
<1>8. AskedSound'
  <2> SUFFICES ASSUME NEW u \in Tasks, pc'[u] = "place"
               PROVE  \/ Supply(ListOf(call'[u].op)) <= LockOf(ListOf(call'[u].op))
                      \/ LockOf(ListOf(call'[u].op)) = Cardinality(Tasks)
    BY DEF AskedSound, Supply, LockOf
  <2>1. u = t
    BY <1>1, <1>4 DEF FlowSound, SuspendedPlaces
  <2> QED
    BY <1>3, <2>1
<1>9. NobodyLeft'
  <2>1. ASSUME NEW list \in Lists
        PROVE  Enough(Waiting(kernel', list), Retrying(list)', Supply(list)', LockOf(list)')
    <3>1. Enough(Waiting(kernel, list), Retrying(list), Supply(list), LockOf(list))
      BY <1>2, StrandedOfLists
    <3>2. Followed({t}, list)
      BY <1>2, <1>6, FollowedFacts
    <3>3. /\ Supply(list) \in Nat /\ LockOf(list) \in Int
          /\ Supply(list)' = Supply(list) /\ LockOf(list)' = LockOf(list)
      <4>1. LockOf(list) \in queueUNLOCKED .. Cardinality(Tasks) /\ Cardinality(Tasks) \in Nat
        BY <1>2, QueueFacts
      <4>2. LockOf(list) \in Int
        BY <4>1 DEF queueUNLOCKED
      <4> QED
        BY <1>2, <4>2, QueueFacts DEF Supply, LockOf
    <3>4. CASE t \in Retrying(list) /\ Supply(list) = 0
      BY <3>2, <3>3, <3>4, EnoughNone DEF Followed
    <3>5. CASE t \in Retrying(list) => t \in Retrying(list)'
      <4>1. Retrying(list) \subseteq Retrying(list)'
        BY <3>2, <3>5 DEF Followed
      <4> QED
        BY <3>1, <3>2, <3>3, <4>1, EnoughKept DEF Followed
    <3> QED
      BY <3>4, <3>5
  <2> QED
    BY <2>1, StrandedOfLists
<1> QED
  BY <1>4, <1>5, <1>7, <1>8, <1>9 DEF IInv

\* A step of a handler that leaves the calls and the queue alone.
LEMMA Undisturbed ==
  ASSUME IInv, Advances(kernel, kernel'), Served(kernel'), UNCHANGED <<pc, call, queue>>
  PROVE  IInv'
<1>1. /\ KernelSound(kernel) /\ FlowSound /\ QueueSound /\ RunnerReady /\ WaitersSound
      /\ AskedSound /\ NobodyLeft
  BY DEF IInv
<1>2. KernelSound(kernel')
  BY <1>1, SoundKept
<1>3. Eases(kernel, kernel') /\ Elsewhere({})
  BY DEF Advances, Eases, Elsewhere, WillTry
<1>4. FlowSound'
  BY <1>1 DEF Advances, FlowSound
<1>5. QueueSound'
  BY <1>1 DEF Advances, QueueSound
<1>6. RunnerReady'
  <2>1. kernel'.pxCurrentTCB \in Tasks /\ kernel'.pxCurrentTCB = kernel.pxCurrentTCB
    BY <1>2, KernelFields DEF Advances, KernelSound, ListsKept
  <2> QED
    BY <1>1, <2>1 DEF Advances, RunnerReady, Runs
<1>7. WaitersSound'
  <2>1. \A u \in {} : kernel.xEventListItem[u] \notin Lists
    OBVIOUS
  <2> QED
    BY <1>1, <1>3, <2>1, WaitersKept
<1>8. AskedSound'
  BY <1>1 DEF AskedSound, Supply, LockOf
<1>9. NobodyLeft'
  <2>1. ASSUME NEW list \in Lists
        PROVE  Enough(Waiting(kernel', list), Retrying(list)', Supply(list)', LockOf(list)')
    <3>1. Enough(Waiting(kernel, list), Retrying(list), Supply(list), LockOf(list))
      BY <1>1, StrandedOfLists
    <3>2. Followed({}, list)
      BY <1>1, <1>3, FollowedFacts
    <3>3. LockOf(list) \in Int
      <4>1. LockOf(list) \in queueUNLOCKED .. Cardinality(Tasks) /\ Cardinality(Tasks) \in Nat
        BY <1>1, QueueFacts
      <4> QED
        BY <4>1 DEF queueUNLOCKED
    <3>4. Supply(list) \in Nat /\ Supply(list)' = Supply(list) /\ LockOf(list)' = LockOf(list)
      BY <1>1, QueueFacts DEF Supply, LockOf
    <3>5. Retrying(list) \subseteq Retrying(list)'
      BY <3>2 DEF Followed
    <3> QED
      BY <3>1, <3>2, <3>3, <3>4, <3>5, EnoughKept DEF Followed
  <2> QED
    BY <2>1, StrandedOfLists
<1> QED
  BY <1>2, <1>4, <1>5, <1>6, <1>7, <1>8, <1>9 DEF IInv

\* What is known when the current task executes.
LEMMA Executes ==
  ASSUME IInv, NEW t \in Tasks, NEW s, At(t, s)
  PROVE  /\ t = kernel.pxCurrentTCB /\ pc[t] = s /\ ~kernel.xPendSV
         /\ KernelSound(kernel) /\ ListsKept(kernel) /\ kernel \in KernelType
         /\ Served(kernel)
         /\ kernel.uxSchedulerSuspended = IF s \in SuspendedPlaces THEN 1 ELSE 0
         /\ s \notin SuspendedPlaces => Top(kernel)
         /\ pc \in [Tasks -> Places] /\ call \in [Tasks -> CallType]
         /\ pc' = pc => pc' = [pc EXCEPT ![t] = s]
         /\ call' = call => call' = [call EXCEPT ![t] = call[t]]
         /\ call[t] \in CallType /\ (call[t].op = "overwrite" => queue.uxLength = 1)
         /\ t = IdleTask => s \in {"app", "try", "reset"} /\ call[t].xTicksToWait = 0
         /\ Runs(t) => /\ kernel.xStateListItem[t] = "ready"
                       /\ kernel.xEventListItem[t] = "none"
                       /\ kernel.xEventListItem[t] \notin Lists
<1>1. t = kernel.pxCurrentTCB /\ pc[t] = s /\ ~kernel.xPendSV
  BY DEF At
<1>2. KernelSound(kernel) /\ ListsKept(kernel) /\ kernel \in KernelType /\ Served(kernel)
  BY DEF IInv, KernelSound, ListsKept
<1>3. /\ pc \in [Tasks -> Places] /\ call \in [Tasks -> CallType]
      /\ kernel.uxSchedulerSuspended = IF s \in SuspendedPlaces THEN 1 ELSE 0
      /\ call[t].op = "overwrite" => queue.uxLength = 1
      /\ t = IdleTask => s \in {"app", "try", "reset"} /\ call[t].xTicksToWait = 0
  BY <1>1 DEF IInv, FlowSound
<1>4. s \notin SuspendedPlaces => Top(kernel)
  BY <1>1, <1>2, <1>3 DEF Served
<1>5. Runs(t) => kernel.xStateListItem[t] = "ready" /\ kernel.xEventListItem[t] = "none"
  BY <1>1, <1>2 DEF IInv, RunnerReady, ListsKept, Ready
<1>6. /\ pc' = pc => pc' = [pc EXCEPT ![t] = s]
      /\ call' = call => call' = [call EXCEPT ![t] = call[t]]
      /\ call[t] \in CallType
  BY <1>1, <1>3
<1> QED
  BY <1>1, <1>2, <1>3, <1>4, <1>5, <1>6 DEF Lists

\* The part of Executes that steps with the scheduler suspended need.
LEMMA Executing ==
  ASSUME IInv, NEW t \in Tasks, NEW s, At(t, s)
  PROVE  /\ pc[t] = s /\ KernelSound(kernel) /\ call[t] \in CallType
         /\ call[t].op = "overwrite" => queue.uxLength = 1
         /\ t = IdleTask => s \in {"app", "try", "reset"}
BY Executes

\* Task lists, event lists and times are as they were.
SameTasks(K, K2) ==
  /\ K2.xStateListItem = K.xStateListItem /\ K2.xEventListItem = K.xEventListItem
  /\ K2.xTimeToWake = K.xTimeToWake /\ K2.xTickCount = K.xTickCount
  /\ K2.xNextTaskUnblockTime = K.xNextTaskUnblockTime

\* The lists are sound if nothing about them has changed.
LEMMA SameTasksKept ==
  ASSUME NEW K, ListsKept(K), NEW K2 \in KernelType, SameTasks(K, K2)
  PROVE  /\ ListsKept(K2) /\ Ready(K2) = Ready(K)
         /\ \A list : Waiting(K2, list) = Waiting(K, list)
BY DEF ListsKept, TimesSound, SameTasks, Ready, Waiting

-----------------------------------------------------------------------------
(* The steps of tasks.c.                                                    *)

\* PendSV: the highest ready task becomes the current one, unless the scheduler is
\* suspended, and then the switch stays asked for.
LEMMA StepSwitch == IInv /\ vTaskSwitchContext /\ UNCHANGED <<queue, call>> => IInv'
<1> SUFFICES ASSUME IInv, vTaskSwitchContext, UNCHANGED <<queue, call>> PROVE IInv'
  OBVIOUS
<1>1. /\ KernelSound(kernel) /\ ListsKept(kernel) /\ kernel \in KernelType
      /\ FlowSound /\ QueueSound /\ RunnerReady /\ WaitersSound /\ AskedSound /\ NobodyLeft
      /\ UNCHANGED <<pc, call, queue>>
  BY DEF IInv, KernelSound, ListsKept, vTaskSwitchContext
<1>2. CASE kernel.uxSchedulerSuspended # 0
  <2>1. kernel' = [kernel EXCEPT !.xPendSV = FALSE, !.xYieldPending = TRUE]
    BY <1>2 DEF vTaskSwitchContext
  <2>2. /\ kernel' \in KernelType /\ SameTasks(kernel, kernel')
        /\ kernel'.pxCurrentTCB = kernel.pxCurrentTCB /\ kernel'.xYieldPending
        /\ kernel'.uxSchedulerSuspended = kernel.uxSchedulerSuspended
    BY <1>1, <2>1 DEF KernelType, SameTasks
  <2>3. kernel.uxSchedulerSuspended = 1
    BY <1>1, <1>2, KernelFields
  <2>4. ListsKept(kernel')
    BY <1>1, <2>2, SameTasksKept
  <2>5. KernelSound(kernel')
    BY <2>2, <2>3, <2>4 DEF KernelSound, Served
  <2>6. FlowSound' /\ QueueSound'
    BY <1>1, <2>2 DEF FlowSound, QueueSound
  <2>7. RunnerReady'
    <3>1. Runs(kernel.pxCurrentTCB) => kernel.xStateListItem[kernel.pxCurrentTCB] = "ready"
      BY <1>1, <2>3 DEF RunnerReady
    <3> QED
      BY <1>1, <2>2, <3>1 DEF RunnerReady, Runs, SameTasks
  <2>8. WaitersSound' /\ AskedSound' /\ NobodyLeft'
    BY <1>1, <2>2 DEF WaitersSound, AskedSound, NobodyLeft, Enough, WillTry, SameTasks, Waiting,
                      Retrying, Supply, LockOf
  <2> QED
    BY <2>5, <2>6, <2>7, <2>8 DEF IInv
<1>3. CASE kernel.uxSchedulerSuspended = 0
  <2> DEFINE next == Highest(Ready(kernel))
  <2>1. kernel' = [kernel EXCEPT !.xPendSV = FALSE, !.xYieldPending = FALSE,
                                 !.pxCurrentTCB = next]
    BY <1>3 DEF vTaskSwitchContext
  <2>2. /\ next \in Tasks /\ kernel.xStateListItem[next] = "ready"
        /\ \A u \in Ready(kernel) : uxPriority[u] <= uxPriority[next]
    <3>1. IdleTask \in Ready(kernel) /\ Ready(kernel) \in SUBSET Tasks
      BY <1>1, TasksAssumption DEF ListsKept, Ready, TasksAssumption
    <3>2. next \in Ready(kernel) /\ \A u \in Ready(kernel) : uxPriority[u] <= uxPriority[next]
      BY <3>1, HighestFacts
    <3> QED
      BY <3>2 DEF Ready
  <2> HIDE DEF next
  <2>3. /\ kernel' \in KernelType /\ SameTasks(kernel, kernel')
        /\ kernel'.pxCurrentTCB = next
        /\ kernel'.uxSchedulerSuspended = 0
        /\ kernel'.xPendedTicks = kernel.xPendedTicks
    BY <1>1, <1>3, <2>1, <2>2 DEF KernelType, SameTasks
  <2>4. ListsKept(kernel') /\ Top(kernel') /\ Waiting(kernel', "pending") = Waiting(kernel, "pending")
    BY <1>1, <2>2, <2>3, SameTasksKept DEF Top
  <2>5. KernelSound(kernel')
    BY <1>1, <1>3, <2>3, <2>4 DEF KernelSound, Served
  <2>6. \A t \in Tasks : pc[t] \notin SuspendedPlaces
    BY <1>1, <1>3 DEF FlowSound
  <2>7. FlowSound'
    BY <1>1, <2>2, <2>3, <2>6 DEF FlowSound
  <2>8. QueueSound'
    <3>1. kernel.pxCurrentTCB \in Tasks
      BY <1>1, KernelFields
    <3> QED
      BY <1>1, <2>2, <2>3, <2>6, <3>1 DEF QueueSound, SuspendedPlaces, Unlocking
  <2>9. RunnerReady'
    BY <2>2, <2>3 DEF RunnerReady, SameTasks
  <2>10. WaitersSound' /\ AskedSound' /\ NobodyLeft'
    BY <1>1, <2>3 DEF WaitersSound, AskedSound, NobodyLeft, Enough, WillTry, SameTasks, Waiting,
                      Retrying, Supply, LockOf
  <2> QED
    BY <2>5, <2>7, <2>8, <2>9, <2>10 DEF IInv
<1> QED
  BY <1>2, <1>3

\* A tick, counted or pended.
LEMMA StepTick == IInv /\ xPortSysTickHandler /\ UNCHANGED <<queue, call>> => IInv'
<1> SUFFICES ASSUME IInv, xPortSysTickHandler, UNCHANGED <<queue, call>> PROVE IInv'
  OBVIOUS
<1>1. /\ KernelSound(kernel) /\ ListsKept(kernel) /\ kernel \in KernelType /\ Served(kernel)
      /\ UNCHANGED <<pc, call, queue>>
  BY DEF IInv, KernelSound, ListsKept, xPortSysTickHandler
<1>2. CASE kernel.uxSchedulerSuspended # 0
  <2>1. kernel' = [kernel EXCEPT !.xPendedTicks = kernel.xPendedTicks + 1]
    BY <1>2 DEF xPortSysTickHandler
  <2>2. kernel.uxSchedulerSuspended = 1 /\ kernel.xPendedTicks + 1 \in Nat
    BY <1>1, <1>2, KernelFields
  <2>3. /\ kernel' \in KernelType /\ SameTasks(kernel, kernel')
        /\ kernel'.pxCurrentTCB = kernel.pxCurrentTCB
        /\ kernel'.xYieldPending = kernel.xYieldPending /\ kernel'.xPendSV = kernel.xPendSV
        /\ kernel'.uxSchedulerSuspended = kernel.uxSchedulerSuspended
    BY <1>1, <2>1, <2>2 DEF KernelType, SameTasks
  <2>4. ListsKept(kernel') /\ (Top(kernel) => Top(kernel'))
    BY <1>1, <2>3, SameTasksKept DEF Top
  <2>5. Advances(kernel, kernel') /\ Served(kernel')
    BY <1>1, <2>2, <2>3, <2>4 DEF Advances, Served, SameTasks
  <2> QED
    BY <1>1, <2>5, Undisturbed
<1>3. CASE kernel.uxSchedulerSuspended = 0
  <2> DEFINE T == Ticked(kernel)
  <2>1. kernel' = IF T.Required THEN taskYIELD(T.k) ELSE T.k
    BY <1>3 DEF xPortSysTickHandler
  <2>2. T = Ticked(kernel)
    OBVIOUS
  <2> HIDE DEF T
  <2>3. /\ Advances(kernel, T.k)
        /\ T.Required \in BOOLEAN
        /\ Top(kernel) => T.Required \/ Top(T.k)
    BY <1>1, <2>2, TickedFacts
  <2>4. CASE T.Required
    <3>1. kernel' = taskYIELD(T.k) /\ ListsKept(T.k)
      BY <2>1, <2>3, <2>4 DEF Advances
    <3>2. /\ ListsKept(kernel') /\ SameLists(T.k, kernel') /\ kernel'.xPendSV
          /\ kernel'.xYieldPending = T.k.xYieldPending
      BY <3>1, YieldFacts
    <3>3. Advances(kernel, kernel') /\ Served(kernel')
      BY <2>3, <3>2 DEF Advances, SameLists, Served
    <3> QED
      BY <1>1, <3>3, Undisturbed
  <2>5. CASE ~T.Required
    <3>1. kernel' = T.k
      BY <2>1, <2>5
    <3>2. Advances(kernel, kernel') /\ Served(kernel')
      BY <1>1, <1>3, <2>3, <2>5, <3>1 DEF Advances, Served
    <3> QED
      BY <1>1, <3>2, Undisturbed
  <2> QED
    BY <2>3, <2>4, <2>5
<1> QED
  BY <1>2, <1>3

\* A suspended task becomes ready.
LEMMA ResumeOne ==
  ASSUME NEW K, ListsKept(K), NEW u \in Tasks, prvTaskIsTaskSuspended(K, u)
  PROVE  /\ Advances(K, Moved(K, {u}, "ready", "none"))
         /\ Top(K) => AboveCurrent(K, {u}) \/ Top(Moved(K, {u}, "ready", "none"))
<1> DEFINE K2 == Moved(K, {u}, "ready", "none")
<1>1. K \in KernelType /\ {u} \in SUBSET Tasks
  BY DEF ListsKept
<1>2. MovedOne(K, u, "ready", "none", K2)
  BY <1>1, MovedOneFacts DEF ListStates, EventLists
<1> HIDE DEF K2
<1>3. TimesSound(K2)
  BY <1>2 DEF MovedOne, SameButLists, ListsKept, TimesSound
<1>4. ListsKept(K2)
  BY <1>2, <1>3, TasksAssumption DEF MovedOne, ListsKept, Ready, TasksAssumption
<1>5. Advances(K, K2)
  BY <1>2, <1>4 DEF MovedOne, Advances, SameButLists
<1>6. Top(K) /\ ~AboveCurrent(K, {u}) => Top(K2)
  <2>1. \A t \in Tasks : K2.xStateListItem[t] = "ready" => t \in {u} \/ K.xStateListItem[t] = "ready"
    BY <1>2 DEF MovedOne
  <2> QED
    BY <1>1, <1>2, <2>1, TopKept DEF MovedOne, SameButLists
<1> QED
  BY <1>5, <1>6 DEF K2

\* A handler resumes a task, or leaves it on the pending list.
LEMMA StepResumeFromISR == IInv /\ xTaskResumeFromISR /\ UNCHANGED <<queue, call>> => IInv'
<1> SUFFICES ASSUME IInv, xTaskResumeFromISR, UNCHANGED <<queue, call>> PROVE IInv'
  OBVIOUS
<1>1. /\ KernelSound(kernel) /\ ListsKept(kernel) /\ kernel \in KernelType /\ Served(kernel)
      /\ UNCHANGED <<pc, call, queue>>
  BY DEF IInv, KernelSound, ListsKept, xTaskResumeFromISR
<1>2. PICK u \in IsrResumed :
        /\ prvTaskIsTaskSuspended(kernel, u)
        /\ kernel' =
             IF kernel.uxSchedulerSuspended # 0
             THEN [kernel EXCEPT !.xEventListItem[u] = "pending"]
             ELSE LET K == Moved(kernel, {u}, "ready", "none")
                  IN  IF AboveCurrent(kernel, {u})
                      THEN taskYIELD([K EXCEPT !.xYieldPending = TRUE]) ELSE K
  BY DEF xTaskResumeFromISR
<1>3. u \in Tasks
  BY <1>2, TasksAssumption DEF TasksAssumption
<1>4. CASE kernel.uxSchedulerSuspended # 0
  <2>1. kernel' = [kernel EXCEPT !.xEventListItem[u] = "pending"]
    BY <1>2, <1>4
  <2>2. kernel.uxSchedulerSuspended = 1
    BY <1>1, <1>4, KernelFields
  <2>3. /\ kernel' \in KernelType /\ SameButLists(kernel, kernel')
        /\ kernel'.xStateListItem = kernel.xStateListItem
        /\ kernel'.xTimeToWake = kernel.xTimeToWake
        /\ kernel'.xNextTaskUnblockTime = kernel.xNextTaskUnblockTime
    BY <1>1, <1>3, <2>1 DEF KernelType, SameButLists
  <2>4. \A t \in Tasks :
          kernel'.xEventListItem[t] = IF t = u THEN "pending" ELSE kernel.xEventListItem[t]
    BY <1>1, <1>3, <2>1 DEF KernelType
  <2>5. kernel.xStateListItem[u] # "ready"
    BY <1>2 DEF prvTaskIsTaskSuspended
  <2>6. TimesSound(kernel')
    BY <1>1, <2>3 DEF TimesSound, ListsKept, SameButLists
  <2>7. ListsKept(kernel')
    BY <1>1, <2>3, <2>4, <2>5, <2>6 DEF ListsKept, Ready
  <2>8. Advances(kernel, kernel')
    BY <2>2, <2>3, <2>4, <2>7 DEF Advances, SameButLists
  <2>9. Served(kernel')
    BY <1>1, <2>3 DEF Served, Top, Ready, SameButLists
  <2> QED
    BY <1>1, <2>8, <2>9, Undisturbed
<1>5. CASE kernel.uxSchedulerSuspended = 0
  <2> DEFINE K == Moved(kernel, {u}, "ready", "none")
             Y == [K EXCEPT !.xYieldPending = TRUE]
  <2>1. kernel' = IF AboveCurrent(kernel, {u}) THEN taskYIELD(Y) ELSE K
    BY <1>2, <1>5
  <2>2. Advances(kernel, K) /\ (Top(kernel) => AboveCurrent(kernel, {u}) \/ Top(K))
    BY <1>1, <1>2, <1>3, ResumeOne
  <2> HIDE DEF K
  <2>3. CASE AboveCurrent(kernel, {u})
    <3>1. kernel' = taskYIELD(Y)
      BY <2>1, <2>3
    <3>2. K \in KernelType /\ ListsKept(K)
      BY <2>2 DEF Advances, ListsKept
    <3>3. /\ Y \in KernelType /\ SameTasks(K, Y) /\ SameLists(K, Y)
          /\ Y.xYieldPending
      BY <3>2 DEF KernelType, SameTasks, SameLists
    <3> HIDE DEF Y
    <3>4. ListsKept(Y)
      BY <3>2, <3>3, SameTasksKept
    <3>5. /\ ListsKept(kernel') /\ SameLists(Y, kernel') /\ kernel'.xPendSV
          /\ kernel'.xYieldPending = Y.xYieldPending
      BY <3>1, <3>4, YieldFacts
    <3>6. Advances(kernel, kernel') /\ Served(kernel')
      BY <2>2, <3>3, <3>5 DEF Advances, SameLists, Served
    <3> QED
      BY <1>1, <3>6, Undisturbed
  <2>4. CASE ~AboveCurrent(kernel, {u})
    <3>1. kernel' = K
      BY <2>1, <2>4
    <3>2. Advances(kernel, kernel') /\ Served(kernel')
      BY <1>1, <1>5, <2>2, <2>4, <3>1 DEF Advances, Served
    <3> QED
      BY <1>1, <3>2, Undisturbed
  <2> QED
    BY <2>3, <2>4
<1> QED
  BY <1>4, <1>5

\* A task resumes another.
LEMMA StepResume ==
  \A t \in Tasks : IInv /\ vTaskResume(t) /\ UNCHANGED <<queue, call>> => IInv'
<1> SUFFICES ASSUME NEW t \in Tasks, IInv, vTaskResume(t), UNCHANGED <<queue, call>> PROVE IInv'
  OBVIOUS
<1>1. At(t, "app") /\ UNCHANGED <<pc, call, queue>>
  BY DEF vTaskResume
<1>2. /\ ListsKept(kernel) /\ Top(kernel) /\ kernel.uxSchedulerSuspended = 0
  BY <1>1, Executes DEF SuspendedPlaces, Unlocking
<1>3. PICK u \in Controls[t] \ {t} :
        /\ prvTaskIsTaskSuspended(kernel, u)
        /\ kernel' = LET K == Moved(kernel, {u}, "ready", "none")
                     IN  IF AboveCurrent(kernel, {u}) THEN taskYIELD(K) ELSE K
  BY DEF vTaskResume
<1>4. u \in Tasks
  BY TasksAssumption DEF TasksAssumption
<1> DEFINE K == Moved(kernel, {u}, "ready", "none")
<1>5. kernel' = IF AboveCurrent(kernel, {u}) THEN taskYIELD(K) ELSE K
  BY <1>3
<1>6. Advances(kernel, K) /\ (AboveCurrent(kernel, {u}) \/ Top(K))
  BY <1>2, <1>3, <1>4, ResumeOne
<1> HIDE DEF K
<1>7. CASE AboveCurrent(kernel, {u})
  <2>1. kernel' = taskYIELD(K) /\ ListsKept(K)
    BY <1>5, <1>6, <1>7 DEF Advances
  <2>2. /\ ListsKept(kernel') /\ SameLists(K, kernel') /\ kernel'.xPendSV
        /\ kernel'.xYieldPending = K.xYieldPending
    BY <2>1, YieldFacts
  <2>3. Advances(kernel, kernel') /\ Served(kernel')
    BY <1>6, <2>2 DEF Advances, SameLists, Served
  <2> QED
    BY <1>1, <2>3, Undisturbed
<1>8. CASE ~AboveCurrent(kernel, {u})
  <2>1. kernel' = K
    BY <1>5, <1>8
  <2>2. Advances(kernel, kernel') /\ Served(kernel')
    BY <1>6, <1>8, <2>1 DEF Served
  <2> QED
    BY <1>1, <2>2, Undisturbed
<1> QED
  BY <1>7, <1>8

\* The current task suspends the scheduler.
LEMMA SuspendAllFacts ==
  ASSUME NEW K, KernelSound(K), K.uxSchedulerSuspended = 0, Top(K), NEW K2,
         K2 = [K EXCEPT !.uxSchedulerSuspended = @ + 1]
  PROVE  /\ KernelSound(K2) /\ Eases(K, K2) /\ SameTasks(K, K2)
         /\ K2.uxSchedulerSuspended = 1
<1>1. K \in KernelType /\ ListsKept(K)
  BY DEF KernelSound, ListsKept
<1>2. /\ K2 \in KernelType /\ SameTasks(K, K2) /\ K2.uxSchedulerSuspended = 1
      /\ K2.pxCurrentTCB = K.pxCurrentTCB
  BY <1>1 DEF KernelType, SameTasks
<1>3. ListsKept(K2) /\ Top(K2)
  BY <1>1, <1>2, SameTasksKept DEF Top
<1> QED
  BY <1>2, <1>3 DEF KernelSound, Served, Eases, SameTasks

\* vTaskDelay: the scheduler is suspended.
LEMMA StepDelay ==
  \A t \in Tasks : IInv /\ vTaskDelay(t) /\ UNCHANGED <<queue, call>> => IInv'
<1> SUFFICES ASSUME NEW t \in Tasks, IInv, vTaskDelay(t), UNCHANGED <<queue, call>> PROVE IInv'
  OBVIOUS
<1>1. /\ t \in Delayers /\ At(t, "app") /\ UNCHANGED <<queue, call>>
      /\ kernel' = [kernel EXCEPT !.uxSchedulerSuspended = @ + 1]
      /\ pc' = [pc EXCEPT ![t] = "delay"]
  BY DEF vTaskDelay, vTaskSuspendAll, Goto
<1>2. t # IdleTask
  BY <1>1, TasksAssumption DEF TasksAssumption
<1>3. /\ t = kernel.pxCurrentTCB /\ pc[t] = "app" /\ Runs(t)
      /\ KernelSound(kernel) /\ Top(kernel) /\ kernel.uxSchedulerSuspended = 0
      /\ call[t] \in CallType /\ call' = [call EXCEPT ![t] = call[t]]
      /\ call[t].op = "overwrite" => queue.uxLength = 1
      /\ pc \in [Tasks -> Places]
  <2>1. "app" \notin SuspendedPlaces
    BY DEF SuspendedPlaces, Unlocking
  <2>2. At(t, "app") /\ call' = call /\ pc[t] = "app" /\ Runs(t)
    BY <1>1 DEF Runs, At
  <2>3. /\ t = kernel.pxCurrentTCB /\ KernelSound(kernel) /\ pc \in [Tasks -> Places]
        /\ kernel.uxSchedulerSuspended = IF "app" \in SuspendedPlaces THEN 1 ELSE 0
        /\ "app" \notin SuspendedPlaces => Top(kernel)
    BY <1>1, Executes
  <2>4. /\ call[t] \in CallType /\ call' = [call EXCEPT ![t] = call[t]]
        /\ call[t].op = "overwrite" => queue.uxLength = 1
    BY <1>1, <2>2, Executes
  <2> QED
    BY <2>1, <2>2, <2>3, <2>4
<1>4. kernel.xStateListItem[t] = "ready" /\ kernel.xEventListItem[t] \notin Lists
  BY <1>1, <1>3, Executes
<1>5. /\ KernelSound(kernel') /\ Eases(kernel, kernel') /\ SameTasks(kernel, kernel')
      /\ kernel'.uxSchedulerSuspended = 1
  BY <1>1, <1>3, SuspendAllFacts
<1>6. RunnerReady'
  BY <1>3, <1>4, <1>5 DEF RunnerReady, Eases, SameTasks
<1>7. \A list \in Lists : t \notin Retrying(list)
  BY <1>3 DEF Retrying
<1> DEFINE s == "delay"
<1>8. /\ s \in Places /\ s \in SuspendedPlaces
       /\ s \notin {"check", "ask", "place", "unlockTx", "unlockRx"}
       /\ pc[t] \notin {"check", "ask", "place", "unlockTx", "unlockRx"}
       /\ pc' = [pc EXCEPT ![t] = s] /\ UNCHANGED queue
  BY <1>1, <1>3 DEF Places, SuspendedPlaces, Unlocking
<1> HIDE DEF s
<1> QED
  BY <1>2, <1>3, <1>4, <1>5, <1>6, <1>7, <1>8, StepKeeps

\* vTaskDelay: the task joins the delayed tasks.
LEMMA StepDelayBlock ==
  \A t \in Tasks : IInv /\ vTaskDelay_Block(t) /\ UNCHANGED <<queue, call>> => IInv'
<1> SUFFICES ASSUME NEW t \in Tasks, IInv, vTaskDelay_Block(t), UNCHANGED <<queue, call>>
             PROVE  IInv'
  OBVIOUS
<1>1. /\ At(t, "delay") /\ UNCHANGED <<queue, call>>
      /\ pc' = [pc EXCEPT ![t] = "resume"]
  BY DEF vTaskDelay_Block, Goto
<1>2. PICK ticks \in DelayTicks :
        kernel' = prvAddCurrentTaskToDelayedList(kernel, ticks, FALSE, "none")
  BY DEF vTaskDelay_Block
<1>3. ticks \in Ticks /\ ticks # 0
  BY TasksAssumption DEF TasksAssumption
<1>4. /\ t = kernel.pxCurrentTCB /\ pc[t] = "delay" /\ Runs(t) /\ t # IdleTask
      /\ KernelSound(kernel) /\ ListsKept(kernel) /\ kernel.uxSchedulerSuspended = 1
      /\ call[t] \in CallType /\ call' = [call EXCEPT ![t] = call[t]]
      /\ call[t].op = "overwrite" => queue.uxLength = 1
      /\ pc \in [Tasks -> Places] /\ Served(kernel)
  BY <1>1, Executes DEF SuspendedPlaces, Unlocking, Runs
<1>5. kernel.xEventListItem[t] \notin Lists
  BY <1>1, <1>4, Executes
<1>6. Blocks(kernel, kernel', "none")
  BY <1>2, <1>3, <1>4, BlockFacts DEF EventLists
<1>7. KernelSound(kernel') /\ Eases(kernel, kernel') /\ kernel'.uxSchedulerSuspended = 1
  BY <1>4, <1>6 DEF Blocks, KernelSound, Served, Eases
<1>8. pc'[t] = "resume"
  BY <1>1, <1>4
<1>9. RunnerReady'
  BY <1>4, <1>7, <1>8 DEF RunnerReady, Eases, Runs, Unlocking
<1>10. \A list \in Lists : t \notin Retrying(list)
  BY <1>4 DEF Retrying
<1> DEFINE s == "resume"
<1>11. /\ s \in Places /\ s \in SuspendedPlaces
       /\ s \notin {"check", "ask", "place", "unlockTx", "unlockRx"}
       /\ pc[t] \notin {"check", "ask", "place", "unlockTx", "unlockRx"}
       /\ pc' = [pc EXCEPT ![t] = s]
  BY <1>1, <1>4 DEF Places, SuspendedPlaces, Unlocking
<1> HIDE DEF s
<1> QED
  BY <1>1, <1>4, <1>5, <1>7, <1>9, <1>10, <1>11, StepKeeps


\* After the scheduler is resumed.
LEMMA ResumedSound ==
  ASSUME NEW K, KernelSound(K), K.uxSchedulerSuspended = 1, NEW K2, K2 = xTaskResumeAll(K)
  PROVE  /\ KernelSound(K2) /\ Eases(K, K2) /\ K2.uxSchedulerSuspended = 0
         /\ K2.xYieldPending => K2.xPendSV
         /\ \A t \in Tasks : K.xStateListItem[t] = "ready" => K2.xStateListItem[t] = "ready"
<1>1. ListsKept(K)
  BY DEF KernelSound
<1>2. Resumes(K, K2)
  BY <1>1, ResumeAllFacts
<1> QED
  BY <1>2 DEF Resumes, KernelSound, Served, Eases

\* vTaskDelay: the scheduler is resumed.
LEMMA StepDelayResumeAll ==
  \A t \in Tasks : IInv /\ vTaskDelay_ResumeAll(t) /\ UNCHANGED <<queue, call>> => IInv'
<1> SUFFICES ASSUME NEW t \in Tasks, IInv, vTaskDelay_ResumeAll(t), UNCHANGED <<queue, call>>
             PROVE  IInv'
  OBVIOUS
<1> DEFINE s == IF xAlreadyYielded(kernel) THEN "app" ELSE "yield"
<1>1. /\ At(t, "resume") /\ UNCHANGED <<queue, call>>
      /\ kernel' = xTaskResumeAll(kernel) /\ pc' = [pc EXCEPT ![t] = s]
  BY DEF vTaskDelay_ResumeAll, Goto
<1>2. /\ t = kernel.pxCurrentTCB /\ pc[t] = "resume" /\ t # IdleTask
      /\ KernelSound(kernel) /\ kernel.uxSchedulerSuspended = 1
      /\ call[t] \in CallType /\ call' = [call EXCEPT ![t] = call[t]]
      /\ call[t].op = "overwrite" => queue.uxLength = 1
      /\ pc \in [Tasks -> Places]
  BY <1>1, Executes DEF SuspendedPlaces, Unlocking
<1>3. /\ KernelSound(kernel') /\ Eases(kernel, kernel') /\ kernel'.uxSchedulerSuspended = 0
      /\ kernel'.xYieldPending => kernel'.xPendSV
  BY <1>1, <1>2, ResumedSound
<1>4. /\ s \in {"app", "yield"} /\ (s = "app" => kernel'.xYieldPending)
  BY <1>1 DEF xAlreadyYielded
<1> HIDE DEF s
<1>5. RunnerReady'
  <2>1. pc'[t] = s
    BY <1>1, <1>2
  <2> QED
    BY <1>2, <1>3, <1>4, <2>1 DEF RunnerReady, Eases, Runs, Unlocking
<1>6. /\ \A list \in Lists : t \notin Retrying(list)
      /\ kernel.xEventListItem[t] \notin Lists
  <2>1. ~WillTry(t)
    BY <1>2 DEF WillTry, Unlocking
  <2>2. kernel.xEventListItem[t] \notin Lists
    BY <2>1 DEF IInv, WaitersSound, Lists
  <2> QED
    BY <1>2, <2>2 DEF Retrying
<1>7. s \in Places /\ s \notin SuspendedPlaces /\ s \notin {"check", "ask", "place", "unlockTx", "unlockRx"}
  BY <1>4 DEF Places, SuspendedPlaces, Unlocking
<1> QED
  BY <1>1, <1>2, <1>3, <1>5, <1>6, <1>7, StepKeeps

\* vTaskSuspend: the task leaves its lists.
LEMMA StepSuspend ==
  \A t \in Tasks : IInv /\ vTaskSuspend(t) /\ UNCHANGED <<queue, call>> => IInv'
<1> SUFFICES ASSUME NEW t \in Tasks, IInv, vTaskSuspend(t), UNCHANGED <<queue, call>> PROVE IInv'
  OBVIOUS
<1>1. At(t, "app") /\ UNCHANGED <<queue, call>>
  BY DEF vTaskSuspend
<1>2. PICK u \in Controls[t] :
        /\ kernel' = Moved(kernel, {u}, "suspended", "none")
        /\ pc' = [pc EXCEPT ![t] = IF u = t THEN "resetSelf" ELSE "reset"]
  BY DEF vTaskSuspend, Goto
<1>3. u \in Tasks /\ u # IdleTask
  BY TasksAssumption DEF TasksAssumption
<1>4. /\ t = kernel.pxCurrentTCB /\ pc[t] = "app" /\ Runs(t) /\ kernel \in KernelType
      /\ KernelSound(kernel) /\ ListsKept(kernel) /\ Top(kernel)
      /\ kernel.uxSchedulerSuspended = 0
      /\ call[t] \in CallType /\ call' = [call EXCEPT ![t] = call[t]]
      /\ call[t].op = "overwrite" => queue.uxLength = 1
      /\ pc \in [Tasks -> Places]
      /\ t = IdleTask => call[t].xTicksToWait = 0
  BY <1>1, Executes DEF SuspendedPlaces, Unlocking, Runs
<1>5. kernel.xStateListItem[t] = "ready" /\ kernel.xEventListItem[t] \notin Lists
  BY <1>1, <1>4, Executes
<1>6. MovedOne(kernel, u, "suspended", "none", kernel')
  BY <1>2, <1>3, <1>4, MovedOneFacts DEF ListStates, EventLists
<1>7. ListsKept(kernel')
  <2>1. TimesSound(kernel')
    BY <1>4, <1>6 DEF MovedOne, SameButLists, ListsKept, TimesSound
  <2> QED
    BY <1>3, <1>4, <1>6, <2>1, TasksAssumption DEF MovedOne, ListsKept, Ready, TasksAssumption
<1>8. KernelSound(kernel') /\ Eases(kernel, kernel') /\ kernel'.uxSchedulerSuspended = 0
  <2>1. Top(kernel')
    BY <1>4, <1>6 DEF MovedOne, SameButLists, Top, Ready
  <2>2. /\ kernel'.uxSchedulerSuspended = 0 /\ kernel'.xPendedTicks = 0
        /\ Waiting(kernel', "pending") = {}
    BY <1>4, <1>6 DEF MovedOne, SameButLists, KernelSound, Waiting
  <2>3. Eases(kernel, kernel')
    BY <1>6 DEF MovedOne, SameButLists, Eases
  <2> QED
    BY <1>7, <2>1, <2>2, <2>3 DEF KernelSound, Served
<1> DEFINE s == IF u = t THEN "resetSelf" ELSE "reset"
<1>9. /\ s \in Places /\ s \notin SuspendedPlaces /\ (t = IdleTask => s = "reset")
      /\ s \notin {"check", "ask", "place", "unlockTx", "unlockRx"}
      /\ pc[t] \notin {"check", "ask", "place", "unlockTx", "unlockRx"}
      /\ pc' = [pc EXCEPT ![t] = s] /\ UNCHANGED queue
  BY <1>1, <1>2, <1>3, <1>4 DEF Places, SuspendedPlaces, Unlocking
<1>10. RunnerReady'
  <2>1. CASE u = t
    <3>1. pc'[t] = "resetSelf"
      BY <1>2, <1>4, <2>1
    <3> QED
      BY <1>4, <1>8, <3>1 DEF RunnerReady, Eases, Runs, Unlocking
  <2>2. CASE u # t
    BY <1>4, <1>5, <1>6, <1>8, <2>2 DEF RunnerReady, Eases, MovedOne
  <2> QED
    BY <2>1, <2>2
<1> HIDE DEF s
<1>11. \A list \in Lists : t \notin Retrying(list)
  BY <1>4 DEF Retrying
<1> QED
  BY <1>4, <1>5, <1>8, <1>9, <1>10, <1>11, StepKeeps

\* vTaskSuspend: the next unblock time is found again.
LEMMA StepSuspendReset ==
  \A t \in Tasks : IInv /\ vTaskSuspend_Reset(t) /\ UNCHANGED <<queue, call>> => IInv'
<1> SUFFICES ASSUME NEW t \in Tasks, IInv, vTaskSuspend_Reset(t), UNCHANGED <<queue, call>>
             PROVE  IInv'
  OBVIOUS
<1>1. PICK from \in {"reset", "resetSelf"} :
        /\ At(t, from)
        /\ kernel' = prvResetNextTaskUnblockTime(kernel)
        /\ pc' = [pc EXCEPT ![t] = IF from = "resetSelf" THEN "yield" ELSE "app"]
  BY DEF vTaskSuspend_Reset, Goto
<1> DEFINE s == IF from = "resetSelf" THEN "yield" ELSE "app"
<1>2. from \notin SuspendedPlaces
  BY DEF SuspendedPlaces, Unlocking
<1>3. /\ t = kernel.pxCurrentTCB /\ pc[t] = from /\ kernel \in KernelType
      /\ KernelSound(kernel) /\ ListsKept(kernel) /\ Top(kernel)
      /\ kernel.uxSchedulerSuspended = 0
      /\ call[t] \in CallType /\ call' = [call EXCEPT ![t] = call[t]]
      /\ call[t].op = "overwrite" => queue.uxLength = 1
      /\ pc \in [Tasks -> Places]
      /\ t = IdleTask => from = "reset" /\ call[t].xTicksToWait = 0
  BY <1>1, <1>2, Executes
<1>4. ListsKept(kernel')
  BY <1>1, <1>3, ResetKept
<1>5. /\ SameButLists(kernel, kernel')
      /\ kernel'.xStateListItem = kernel.xStateListItem
      /\ kernel'.xEventListItem = kernel.xEventListItem
  BY <1>1, <1>3, ResetFacts
<1>6. KernelSound(kernel') /\ Eases(kernel, kernel') /\ kernel'.uxSchedulerSuspended = 0
  BY <1>3, <1>4, <1>5 DEF KernelSound, SameButLists, Served, Top, Ready, Eases, Waiting
<1>7. /\ s \in Places /\ s \notin SuspendedPlaces /\ (t = IdleTask => s = "app")
      /\ s \notin {"check", "ask", "place", "unlockTx", "unlockRx"}
      /\ pc[t] \notin {"check", "ask", "place", "unlockTx", "unlockRx"}
      /\ pc' = [pc EXCEPT ![t] = s] /\ UNCHANGED queue
  BY <1>1, <1>3 DEF Places, SuspendedPlaces, Unlocking
<1>8. RunnerReady'
  <2>1. CASE from = "reset"
    <3>1. kernel.xStateListItem[t] = "ready"
      BY <1>1, <1>3, <2>1, Executes DEF Runs
    <3> QED
      BY <1>3, <1>5, <1>6, <3>1 DEF RunnerReady, Eases
  <2>2. CASE from = "resetSelf"
    <3>1. pc'[t] = "yield"
      BY <1>1, <1>3, <2>2
    <3> QED
      BY <1>3, <1>6, <3>1 DEF RunnerReady, Eases, Runs, Unlocking
  <2> QED
    BY <2>1, <2>2
<1>9. /\ \A list \in Lists : t \notin Retrying(list)
      /\ kernel.xEventListItem[t] \notin Lists
  <2>1. ~WillTry(t)
    BY <1>3 DEF WillTry, Unlocking
  <2>2. kernel.xEventListItem[t] \notin Lists
    BY <2>1 DEF IInv, WaitersSound, Lists
  <2> QED
    BY <1>3, <2>2 DEF Retrying
<1> HIDE DEF s
<1> QED
  BY <1>3, <1>6, <1>7, <1>8, <1>9, StepKeeps

\* The current task asks for a switch, and goes to s.
LEMMA StepYields ==
  ASSUME IInv, NEW t \in Tasks, NEW from \in {"yield", "yieldTry"}, At(t, from),
         NEW s \in {"app", "try"}, from = "yieldTry" => s = "try",
         kernel' = taskYIELD(kernel), pc' = [pc EXCEPT ![t] = s], UNCHANGED <<queue, call>>
  PROVE  IInv'
<1>1. from \notin SuspendedPlaces /\ from \notin {"app", "try", "reset"}
  BY DEF SuspendedPlaces, Unlocking
<1>2. /\ t = kernel.pxCurrentTCB /\ pc[t] = from /\ t # IdleTask
      /\ KernelSound(kernel) /\ ListsKept(kernel) /\ kernel.uxSchedulerSuspended = 0
      /\ call[t] \in CallType /\ call' = [call EXCEPT ![t] = call[t]]
      /\ call[t].op = "overwrite" => queue.uxLength = 1
      /\ pc \in [Tasks -> Places]
  BY <1>1, Executes
<1>3. ListsKept(kernel') /\ SameLists(kernel, kernel') /\ kernel'.xPendSV
  BY <1>2, YieldFacts
<1>4. KernelSound(kernel') /\ Eases(kernel, kernel') /\ kernel'.uxSchedulerSuspended = 0
  BY <1>2, <1>3 DEF KernelSound, SameLists, Served, Eases, Waiting
<1>5. /\ s \in Places /\ s \notin SuspendedPlaces /\ s # "place"
      /\ s \notin {"check", "ask", "place", "unlockTx", "unlockRx"}
      /\ pc[t] \notin {"check", "ask", "place", "unlockTx", "unlockRx"}
      /\ pc'[t] = s /\ UNCHANGED queue
  BY <1>1, <1>2 DEF Places, SuspendedPlaces, Unlocking
<1>6. RunnerReady'
  BY <1>3, <1>4 DEF RunnerReady
<1>7. WillTry(t) => WillTry(t)'
  BY <1>2, <1>5 DEF WillTry, Unlocking
<1>8. \/ kernel.xEventListItem[t] \notin Lists
      \/ call[t].op = call[t].op /\ WillTry(t)'
  BY <1>7 DEF IInv, WaitersSound, Lists
<1>9. \A list \in Lists : t \in Retrying(list) => t \in Retrying(list)' \/ Supply(list) = 0
  <2>1. ASSUME NEW list \in Lists, t \in Retrying(list) PROVE t \in Retrying(list)'
    <3>1. ListOf(call[t].op) = list /\ kernel.xEventListItem[t] # list /\ WillTry(t)
      BY <2>1 DEF Retrying, WillTry, Unlocking
    <3>2. pc'[t] \in {"try", "yieldTry"}
      BY <1>2, <1>5, <3>1 DEF WillTry, Unlocking
    <3>3. kernel'.xEventListItem[t] # list
      BY <1>3, <3>1 DEF SameLists
    <3> QED
      BY <3>1, <3>2, <3>3 DEF Retrying, ListOf
  <2> QED
    BY <2>1
<1> QED
  BY <1>2, <1>4, <1>5, <1>6, <1>8, <1>9, StepKeeps

\* The yield at the end of vTaskDelay and vTaskSuspend.
LEMMA StepTaskYield ==
  \A t \in Tasks : IInv /\ Task_Yield(t) /\ UNCHANGED <<queue, call>> => IInv'
BY StepYields DEF Task_Yield, Goto

\* The yield of a task that has put itself on an event list.
LEMMA StepQueueYield == \A t \in Tasks : IInv /\ Queue_Yield(t) => IInv'
BY StepYields DEF Queue_Yield, Goto

-----------------------------------------------------------------------------
(* The steps of queue.c that leave the queue alone.                         *)

\* The arguments of a task in no call.
LEMMA NoCallType == NoCall \in CallType /\ NoCall.op = "none" /\ NoCall.xTicksToWait = 0
BY TickFacts DEF NoCall, CallType, Ops

\* The fields of a call.
LEMMA CallFields ==
  ASSUME NEW c \in CallType
  PROVE  /\ c.op \in Ops \cup {"none"} /\ c.item \in Items \cup {NoItem}
         /\ c.xTicksToWait \in Ticks /\ c.xEntryTimeSet \in BOOLEAN
         /\ c.xTimeOut \in [xOverflowCount : Nat, xTimeOnEntering : Ticks]
         /\ c.xTimeOut.xOverflowCount \in Nat /\ c.xTimeOut.xTimeOnEntering \in Ticks
         /\ c.way \in {"none", "expired", "again", "block"}
BY DEF CallType

\* A step of the current task that leaves the kernel and the queue alone, and begins
\* where the task is not about to look at the queue, or finds nothing there.
LEMMA LocalStep ==
  ASSUME IInv, NEW t \in Tasks, NEW from, At(t, from), Runs(t), UNCHANGED <<kernel, queue>>,
         NEW s \in Places, pc' = [pc EXCEPT ![t] = s],
         NEW c \in CallType, call' = [call EXCEPT ![t] = c],
         s \in SuspendedPlaces <=> from \in SuspendedPlaces,
         c.op = "overwrite" => queue.uxLength = 1,
         t = IdleTask => s \in {"app", "try", "reset"} /\ c.xTicksToWait = 0,
         s \in {"ask", "place"} => c.xTicksToWait # 0,
         s = "place" => \/ Supply(ListOf(c.op)) <= LockOf(ListOf(c.op))
                        \/ LockOf(ListOf(c.op)) = Cardinality(Tasks),
         s \in {"check", "ask", "place", "unlockTx"} <=>
           from \in {"check", "ask", "place", "unlockTx"},
         s = "unlockRx" <=> from = "unlockRx",
         \A list \in Lists : t \in Retrying(list) => Supply(list) = 0
  PROVE  IInv'
<1>1. /\ t = kernel.pxCurrentTCB /\ pc[t] = from /\ KernelSound(kernel)
      /\ kernel.uxSchedulerSuspended = IF from \in SuspendedPlaces THEN 1 ELSE 0
      /\ pc \in [Tasks -> Places]
  BY Executes
<1>2. kernel.xStateListItem[t] = "ready" /\ kernel.xEventListItem[t] \notin Lists
  BY Executes
<1>3. KernelSound(kernel') /\ Eases(kernel, kernel')
  BY <1>1 DEF Eases
<1>4. RunnerReady'
  BY <1>1, <1>2 DEF RunnerReady
<1>5. kernel'.uxSchedulerSuspended = IF s \in SuspendedPlaces THEN 1 ELSE 0
  BY <1>1
<1>6. /\ s \in {"check", "ask", "place", "unlockTx"} <=>
           pc[t] \in {"check", "ask", "place", "unlockTx"}
      /\ s = "unlockRx" <=> pc[t] = "unlockRx"
  BY <1>1
<1>7. UNCHANGED queue
  OBVIOUS
<1> QED
  BY <1>1, <1>2, <1>3, <1>4, <1>5, <1>6, <1>7, StepKeeps

\* A task calls a service of the queue.
LEMMA StepCall == \A t \in Tasks : IInv /\ Call(t) => IInv'
<1> SUFFICES ASSUME NEW t \in Tasks, IInv, Call(t) PROVE IInv'
  OBVIOUS
<1>1. PICK k \in Calls[t] :
        /\ Allowed(k.op)
        /\ call' = [call EXCEPT ![t] =
             [NoCall EXCEPT !.op = k.op, !.item = k.item, !.xTicksToWait = k.xTicksToWait]]
  BY DEF Call
<1> DEFINE c == [NoCall EXCEPT !.op = k.op, !.item = k.item, !.xTicksToWait = k.xTicksToWait]
           s == "try"
           from == "app"
<1>2. /\ At(t, from) /\ UNCHANGED <<kernel, queue>> /\ pc' = [pc EXCEPT ![t] = s]
      /\ call' = [call EXCEPT ![t] = c]
  BY <1>1 DEF Call, Goto
<1>3. /\ k.op \in Ops /\ k.item \in Items \cup {NoItem} /\ k.xTicksToWait \in Ticks
      /\ t = IdleTask => k.xTicksToWait = 0
  BY QueueAssumption DEF QueueAssumption
<1>4. c \in CallType /\ c.op = k.op /\ c.xTicksToWait = k.xTicksToWait
  BY <1>3, NoCallType DEF CallType
<1>5. c.op = "overwrite" => queue.uxLength = 1
  BY <1>1, <1>4 DEF Allowed
<1>6. pc[t] = from /\ Runs(t)
  BY <1>2 DEF At, Runs
<1>7. \A list \in Lists : t \in Retrying(list) => Supply(list) = 0
  BY <1>6 DEF Retrying
<1>8. /\ s \in Places /\ s \notin SuspendedPlaces /\ from \notin SuspendedPlaces
      /\ s \in {"app", "try", "reset"}
      /\ s \notin {"check", "ask", "place", "unlockTx", "unlockRx"}
      /\ from \notin {"check", "ask", "place", "unlockTx", "unlockRx"}
  BY DEF Places, SuspendedPlaces, Unlocking
<1> HIDE DEF c, s, from
<1> QED
  BY <1>2, <1>3, <1>4, <1>5, <1>6, <1>7, <1>8, LocalStep

\* The task has found nothing, and suspends the scheduler.
LEMMA StepSuspendAll == \A t \in Tasks : IInv /\ SuspendAll(t) => IInv'
<1> SUFFICES ASSUME NEW t \in Tasks, IInv, SuspendAll(t) PROVE IInv'
  OBVIOUS
<1> DEFINE s == "lock"
<1>1. /\ At(t, "suspendAll") /\ UNCHANGED <<queue, call>>
      /\ kernel' = [kernel EXCEPT !.uxSchedulerSuspended = @ + 1]
      /\ pc' = [pc EXCEPT ![t] = s]
  BY DEF SuspendAll, vTaskSuspendAll, Goto
<1>2. /\ t = kernel.pxCurrentTCB /\ pc[t] = "suspendAll" /\ Runs(t) /\ t # IdleTask
      /\ KernelSound(kernel) /\ Top(kernel) /\ kernel.uxSchedulerSuspended = 0
      /\ call[t] \in CallType /\ call' = [call EXCEPT ![t] = call[t]]
      /\ call[t].op = "overwrite" => queue.uxLength = 1
      /\ pc \in [Tasks -> Places]
  <2>1. "suspendAll" \notin SuspendedPlaces
    BY DEF SuspendedPlaces, Unlocking
  <2>2. At(t, "suspendAll") /\ call' = call /\ pc[t] = "suspendAll" /\ Runs(t)
    BY <1>1 DEF Runs, At
  <2>3. /\ t = kernel.pxCurrentTCB /\ KernelSound(kernel) /\ pc \in [Tasks -> Places]
        /\ kernel.uxSchedulerSuspended = IF "suspendAll" \in SuspendedPlaces THEN 1 ELSE 0
        /\ "suspendAll" \notin SuspendedPlaces => Top(kernel)
    BY <1>1, Executes
  <2>4. /\ call[t] \in CallType /\ call' = [call EXCEPT ![t] = call[t]]
        /\ call[t].op = "overwrite" => queue.uxLength = 1
        /\ t # IdleTask
    BY <1>1, <2>2, Executes
  <2> QED
    BY <2>1, <2>2, <2>3, <2>4
<1>3. kernel.xStateListItem[t] = "ready" /\ kernel.xEventListItem[t] \notin Lists
  BY <1>1, <1>2, Executes
<1>4. /\ KernelSound(kernel') /\ Eases(kernel, kernel') /\ SameTasks(kernel, kernel')
      /\ kernel'.uxSchedulerSuspended = 1
  BY <1>1, <1>2, SuspendAllFacts
<1>5. RunnerReady'
  BY <1>2, <1>3, <1>4 DEF RunnerReady, Eases, SameTasks
<1>6. \A list \in Lists : t \notin Retrying(list)
  BY <1>2 DEF Retrying
<1>7. /\ s \in Places /\ s \in SuspendedPlaces /\ UNCHANGED queue
      /\ s \notin {"check", "ask", "place", "unlockTx", "unlockRx"}
      /\ pc[t] \notin {"check", "ask", "place", "unlockTx", "unlockRx"}
      /\ pc' = [pc EXCEPT ![t] = s]
  BY <1>1, <1>2 DEF Places, SuspendedPlaces, Unlocking
<1> HIDE DEF s
<1> QED
  BY <1>2, <1>3, <1>4, <1>5, <1>6, <1>7, StepKeeps

\* vTaskInternalSetTimeOutState.
LEMMA TimeOutSetFacts ==
  ASSUME KernelSound(kernel), NEW c \in CallType
  PROVE  /\ TimeOutSet(c) \in CallType /\ TimeOutSet(c).op = c.op
         /\ TimeOutSet(c).xTicksToWait = c.xTicksToWait /\ TimeOutSet(c).way = c.way
<1>1. kernel.xNumOfOverflows \in Nat /\ kernel.xTickCount \in Ticks
  BY KernelFields DEF KernelSound, ListsKept
<1> QED
  BY <1>1 DEF TimeOutSet, CallType

\* The time it may still wait is worked out.
LEMMA StepCheckForTimeOut == \A t \in Tasks : IInv /\ xTaskCheckForTimeOut(t) => IInv'
<1> SUFFICES ASSUME NEW t \in Tasks, IInv, xTaskCheckForTimeOut(t) PROVE IInv'
  OBVIOUS
<1> DEFINE k == call[t]
           elapsed == (kernel.xTickCount - k.xTimeOut.xTimeOnEntering) % TickRange
           wrapped == /\ kernel.xNumOfOverflows # k.xTimeOut.xOverflowCount
                      /\ kernel.xTickCount >= k.xTimeOut.xTimeOnEntering
           forever == k.xTicksToWait = portMAX_DELAY
           expired == ~forever /\ (wrapped \/ elapsed >= k.xTicksToWait)
           left == [k EXCEPT !.xTicksToWait = k.xTicksToWait - elapsed]
           gone == [k EXCEPT !.xTicksToWait = 0, !.way = "expired"]
           c == IF expired THEN gone ELSE IF forever THEN k ELSE TimeOutSet(left)
           s == IF expired THEN "unlockTx" ELSE "ask"
           from == "check"
<1>1. /\ At(t, from) /\ UNCHANGED <<kernel, queue>>
      /\ pc' = [pc EXCEPT ![t] = s] /\ call' = [call EXCEPT ![t] = c]
  BY DEF xTaskCheckForTimeOut, Goto
<1>2. /\ pc[t] = from /\ k \in CallType /\ KernelSound(kernel) /\ t # IdleTask
      /\ k.op = "overwrite" => queue.uxLength = 1
  BY <1>1, Executing
<1>3. k.xTicksToWait \in Nat /\ k.xTicksToWait <= portMAX_DELAY /\ portMAX_DELAY # 0
  <2>1. k.xTicksToWait \in Ticks
    BY <1>2, CallFields
  <2> QED
    BY <2>1, TickFacts
<1>4. elapsed \in Nat
  <2>1. kernel.xTickCount \in Nat /\ k.xTimeOut.xTimeOnEntering \in Nat
    BY <1>2, CallFields, KernelFields, TickFacts DEF KernelSound, ListsKept
  <2>2. TickRange \in Nat \ {0}
    BY TickFacts
  <2> HIDE DEF k
  <2>3. kernel.xTickCount - k.xTimeOut.xTimeOnEntering \in Int
    BY <2>1
  <2> QED
    BY <2>2, <2>3
<1>5. c \in CallType /\ c.op = k.op /\ (s = "ask" => c.xTicksToWait # 0)
  <2> HIDE DEF elapsed, wrapped
  <2>1. CASE expired
    <3>1. gone \in CallType /\ gone.op = k.op
      BY <1>2, TickFacts DEF CallType
    <3> QED
      BY <2>1, <3>1
  <2>2. CASE ~expired /\ forever
    BY <1>2, <1>3, <2>2
  <2>3. CASE ~expired /\ ~forever
    <3>1. elapsed < k.xTicksToWait
      BY <1>3, <1>4, <2>3
    <3>2. k.xTicksToWait - elapsed \in Ticks /\ k.xTicksToWait - elapsed # 0
      <4>1. portMAX_DELAY \in Nat
        BY TickFacts
      <4> QED
        BY <1>3, <1>4, <3>1, <4>1 DEF Ticks
    <3>3. left \in CallType /\ left.op = k.op /\ left.xTicksToWait = k.xTicksToWait - elapsed
      BY <1>2, <3>2 DEF CallType
    <3>4. c = TimeOutSet(left)
      BY <2>3
    <3> HIDE DEF left
    <3> QED
      BY <1>2, <3>2, <3>3, <3>4, TimeOutSetFacts
  <2> QED
    BY <2>1, <2>2, <2>3
<1>6. /\ s \in Places /\ s \in SuspendedPlaces /\ from \in SuspendedPlaces
      /\ s \in {"check", "ask", "place", "unlockTx"} /\ s # "unlockRx" /\ s # "place"
      /\ from \in {"check", "ask", "place", "unlockTx"} /\ from # "unlockRx"
  BY DEF Places, SuspendedPlaces, Unlocking
<1>7. Runs(t) /\ \A list \in Lists : t \in Retrying(list) => Supply(list) = 0
  BY <1>2 DEF Runs, Retrying
<1>8. c.op = "overwrite" => queue.uxLength = 1
  BY <1>2, <1>5
<1> HIDE DEF c, s, from, k
<1> QED
  BY <1>1, <1>2, <1>5, <1>6, <1>7, <1>8, LocalStep

\* The queue is locked while the task asks.
LEMMA LockedThere ==
  ASSUME IInv, NEW t \in Tasks, t = kernel.pxCurrentTCB,
         pc[t] \in {"check", "ask", "place", "unlockTx"}
  PROVE  \A list : LockOf(list) \in Nat
<1>1. queue.cTxLock # queueUNLOCKED /\ queue.cRxLock # queueUNLOCKED
  BY DEF IInv, QueueSound
<1>2. /\ queue.cTxLock \in queueUNLOCKED .. Cardinality(Tasks)
      /\ queue.cRxLock \in queueUNLOCKED .. Cardinality(Tasks)
      /\ Cardinality(Tasks) \in Nat
  BY QueueFacts DEF IInv
<1> QED
  BY <1>1, <1>2 DEF LockOf, queueUNLOCKED

\* A call that cannot go on has found nothing on its list.
LEMMA NothingThere ==
  ASSUME IInv, NEW op
  PROVE  /\ CannotGoOn(queue, op) => Supply(ListOf(op)) = 0
         /\ op \in Sends /\ prvIsQueueFull(queue) => Supply(ListOf(op)) = 0
         /\ op \notin Sends /\ prvIsQueueEmpty(queue) => Supply(ListOf(op)) = 0
<1>1. queue.uxLength \in Nat /\ queue.uxMessagesWaiting \in Nat
  BY QueueFacts DEF IInv
<1> QED
  BY <1>1 DEF CannotGoOn, prvIsQueueFull, prvIsQueueEmpty, Supply, ListOf

\* It asks for the messages again, now that the queue is locked.
LEMMA StepAsk == \A t \in Tasks : IInv /\ Ask(t) => IInv'
<1> SUFFICES ASSUME NEW t \in Tasks, IInv, Ask(t) PROVE IInv'
  OBVIOUS
<1> DEFINE from == "ask"
           op == call[t].op
           nothing == IF op \in Sends THEN prvIsQueueFull(queue) ELSE prvIsQueueEmpty(queue)
           s == IF nothing THEN "place" ELSE "unlockTx"
           c == IF nothing THEN call[t] ELSE [call[t] EXCEPT !.way = "again"]
<1>1. At(t, from) /\ UNCHANGED <<kernel, queue>>
  BY DEF Ask
<1>2. /\ t = kernel.pxCurrentTCB /\ pc[t] = from /\ t # IdleTask
      /\ call[t] \in CallType /\ call \in [Tasks -> CallType]
      /\ op = "overwrite" => queue.uxLength = 1
  BY <1>1, Executes
<1>3. call[t].xTicksToWait # 0
  BY <1>2 DEF IInv, FlowSound
<1>4. pc' = [pc EXCEPT ![t] = s] /\ call' = [call EXCEPT ![t] = c]
  BY <1>2 DEF Ask, Goto
<1>5. c \in CallType /\ c.op = op /\ c.xTicksToWait = call[t].xTicksToWait
  BY <1>2 DEF CallType
<1>6. s = "place" => Supply(ListOf(c.op)) <= LockOf(ListOf(c.op))
  <2> SUFFICES ASSUME nothing PROVE Supply(ListOf(op)) <= LockOf(ListOf(op))
    BY <1>5
  <2>1. Supply(ListOf(op)) = 0
    BY NothingThere
  <2>2. LockOf(ListOf(op)) \in Nat
    BY <1>2, LockedThere
  <2> QED
    BY <2>1, <2>2
<1>7. /\ s \in Places /\ s \in SuspendedPlaces /\ from \in SuspendedPlaces
      /\ s \in {"check", "ask", "place", "unlockTx"} /\ s # "unlockRx"
      /\ from \in {"check", "ask", "place", "unlockTx"} /\ from # "unlockRx"
  BY DEF Places, SuspendedPlaces, Unlocking
<1>8. Runs(t) /\ \A list \in Lists : t \in Retrying(list) => Supply(list) = 0
  BY <1>2 DEF Runs, Retrying
<1>9. c.op = "overwrite" => queue.uxLength = 1
  BY <1>2, <1>5
<1> HIDE DEF c, s, from
<1> QED
  BY <1>1, <1>2, <1>3, <1>4, <1>5, <1>6, <1>7, <1>8, <1>9, LocalStep

\* It has timed out, and gives up or, if a receiver finds a message, tries again.
LEMMA StepExpired == \A t \in Tasks : IInv /\ Expired(t) => IInv'
<1> SUFFICES ASSUME NEW t \in Tasks, IInv, Expired(t) PROVE IInv'
  OBVIOUS
<1> DEFINE from == "expired"
           fails == call[t].op \in Sends \/ prvIsQueueEmpty(queue)
           s == IF fails THEN "app" ELSE "try"
           c == IF fails THEN NoCall ELSE call[t]
<1>1. At(t, from) /\ UNCHANGED <<kernel, queue>>
  BY DEF Expired
<1>2. /\ pc[t] = from /\ t # IdleTask
      /\ call[t] \in CallType /\ call \in [Tasks -> CallType]
      /\ call[t].op = "overwrite" => queue.uxLength = 1
  BY <1>1, Executes
<1>3. pc' = [pc EXCEPT ![t] = s] /\ call' = [call EXCEPT ![t] = c]
  BY <1>2 DEF Expired, Goto, Return
<1>4. c \in CallType /\ (c.op = "overwrite" => queue.uxLength = 1)
  BY <1>2, NoCallType
<1>5. /\ s \in Places /\ s \notin SuspendedPlaces /\ from \notin SuspendedPlaces
      /\ s \notin {"check", "ask", "place", "unlockTx", "unlockRx"}
      /\ from \notin {"check", "ask", "place", "unlockTx", "unlockRx"}
  BY DEF Places, SuspendedPlaces, Unlocking
<1>6. Runs(t) /\ \A list \in Lists : t \in Retrying(list) => Supply(list) = 0
  BY <1>2 DEF Runs, Retrying
<1> HIDE DEF c, s, from
<1> QED
  BY <1>1, <1>2, <1>3, <1>4, <1>5, <1>6, LocalStep

\* The two ways a first critical section ends that finds nothing.
LEMMA StepTryFails ==
  ASSUME IInv, NEW t \in Tasks, At(t, "try"), CannotGoOn(queue, call[t].op),
         UNCHANGED <<kernel, queue>>,
         \/ Return(t, "fail")
         \/ /\ call[t].xTicksToWait # 0
            /\ call' = IF call[t].xEntryTimeSet THEN call
                       ELSE [call EXCEPT ![t] = TimeOutSet([@ EXCEPT !.xEntryTimeSet = TRUE])]
            /\ Goto(t, "suspendAll")
  PROVE  IInv'
<1> DEFINE from == "try"
<1>1. /\ pc[t] = from /\ Runs(t) /\ call[t] \in CallType /\ call \in [Tasks -> CallType]
      /\ call[t].op = "overwrite" => queue.uxLength = 1
      /\ t = IdleTask => call[t].xTicksToWait = 0
      /\ KernelSound(kernel)
  BY Executes DEF Runs
<1>2. \A list \in Lists : t \in Retrying(list) => Supply(list) = 0
  BY NothingThere DEF Retrying
<1>3. CASE Return(t, "fail")
  <2> DEFINE s == "app"
             c == NoCall
  <2>1. pc' = [pc EXCEPT ![t] = s] /\ call' = [call EXCEPT ![t] = c]
    BY <1>3 DEF Return, Goto
  <2>2. c \in CallType /\ c.op # "overwrite" /\ c.xTicksToWait = 0
    BY NoCallType
  <2>3. /\ s \in Places /\ s \notin SuspendedPlaces /\ from \notin SuspendedPlaces
        /\ s \in {"app", "try", "reset"}
        /\ s \notin {"check", "ask", "place", "unlockTx", "unlockRx"}
        /\ from \notin {"check", "ask", "place", "unlockTx", "unlockRx"}
    BY DEF Places, SuspendedPlaces, Unlocking
  <2>4. At(t, from)
    OBVIOUS
  <2> HIDE DEF s, c, from
  <2> QED
    BY <1>1, <1>2, <2>1, <2>2, <2>3, <2>4, LocalStep
<1>4. CASE ~Return(t, "fail")
  <2> DEFINE s == "suspendAll"
             e == [call[t] EXCEPT !.xEntryTimeSet = TRUE]
             c == IF call[t].xEntryTimeSet THEN call[t] ELSE TimeOutSet(e)
  <2>1. call[t].xTicksToWait # 0 /\ pc' = [pc EXCEPT ![t] = s]
    BY <1>4 DEF Goto
  <2>2. call' = [call EXCEPT ![t] = c]
    BY <1>1, <1>4
  <2>3. c \in CallType /\ c.op = call[t].op
    <3>1. e \in CallType /\ e.op = call[t].op
      BY <1>1 DEF CallType
    <3> HIDE DEF e
    <3> QED
      BY <1>1, <3>1, TimeOutSetFacts
  <2>4. /\ s \in Places /\ s \notin SuspendedPlaces /\ from \notin SuspendedPlaces
        /\ s \notin {"check", "ask", "place", "unlockTx", "unlockRx"}
        /\ from \notin {"check", "ask", "place", "unlockTx", "unlockRx"}
    BY DEF Places, SuspendedPlaces, Unlocking
  <2>5. At(t, from) /\ t # IdleTask /\ (c.op = "overwrite" => queue.uxLength = 1)
    BY <1>1, <2>1, <2>3
  <2> HIDE DEF s, c, from
  <2> QED
    BY <1>1, <1>2, <2>1, <2>2, <2>3, <2>4, <2>5, LocalStep
<1> QED
  BY <1>3, <1>4

\* The scheduler is resumed, and the task yields, tries again or has timed out.
LEMMA StepResumeAll == \A t \in Tasks : IInv /\ ResumeAll(t) => IInv'
<1> SUFFICES ASSUME NEW t \in Tasks, IInv, ResumeAll(t) PROVE IInv'
  OBVIOUS
<1> DEFINE s == CASE call[t].way = "expired" -> "expired"
                  [] call[t].way = "block" /\ ~xAlreadyYielded(kernel) -> "yieldTry"
                  [] OTHER -> "try"
<1>1. /\ At(t, "resumeAll") /\ UNCHANGED <<queue, call>>
      /\ kernel' = xTaskResumeAll(kernel) /\ pc' = [pc EXCEPT ![t] = s]
  BY DEF ResumeAll, Goto
<1>2. /\ t = kernel.pxCurrentTCB /\ pc[t] = "resumeAll" /\ t # IdleTask
      /\ KernelSound(kernel) /\ kernel.uxSchedulerSuspended = 1
      /\ call[t] \in CallType /\ call' = [call EXCEPT ![t] = call[t]]
      /\ call[t].op = "overwrite" => queue.uxLength = 1
      /\ pc \in [Tasks -> Places]
  BY <1>1, Executes DEF SuspendedPlaces, Unlocking
<1>3. /\ KernelSound(kernel') /\ Eases(kernel, kernel') /\ kernel'.uxSchedulerSuspended = 0
      /\ kernel'.xYieldPending => kernel'.xPendSV
      /\ kernel.xStateListItem[t] = "ready" => kernel'.xStateListItem[t] = "ready"
  BY <1>1, <1>2, ResumedSound
<1>4. /\ s \in {"expired", "yieldTry", "try"}
      /\ s = "expired" <=> call[t].way = "expired"
      /\ s = "try" /\ call[t].way = "block" => kernel'.xYieldPending
  BY <1>1 DEF xAlreadyYielded
<1> HIDE DEF s
<1>5. pc'[t] = s
  BY <1>1, <1>2
<1>6. RunnerReady'
  <2>1. CASE call[t].way = "block"
    BY <1>2, <1>3, <1>4, <1>5, <2>1 DEF RunnerReady, Eases, Runs, Unlocking
  <2>2. CASE call[t].way # "block"
    <3>1. Runs(t)
      BY <1>2, <2>2 DEF Runs, Unlocking
    <3>2. kernel.xStateListItem[t] = "ready"
      BY <1>1, <3>1, Executes
    <3> QED
      BY <1>2, <1>3, <3>2 DEF RunnerReady, Eases
  <2> QED
    BY <2>1, <2>2
<1>7. WillTry(t) => WillTry(t)'
  BY <1>2, <1>4, <1>5 DEF WillTry, Unlocking
<1>8. \/ kernel.xEventListItem[t] \notin Lists
      \/ call[t].op = call[t].op /\ WillTry(t)'
  BY <1>7 DEF IInv, WaitersSound, Lists
<1>9. \A list \in Lists : t \in Retrying(list) => t \in Retrying(list)' \/ Supply(list) = 0
  <2>1. ASSUME NEW list \in Lists, t \in Retrying(list) PROVE t \in Retrying(list)'
    <3>1. ListOf(call[t].op) = list /\ kernel.xEventListItem[t] # list /\ WillTry(t)
      BY <2>1 DEF Retrying, WillTry, Unlocking
    <3>2. pc'[t] \in {"try", "yieldTry"}
      BY <1>2, <1>4, <1>5, <3>1 DEF WillTry, Unlocking
    <3>3. kernel'.xEventListItem[t] # list
      BY <1>3, <3>1 DEF Eases, Lists
    <3> QED
      BY <1>1, <3>1, <3>2, <3>3 DEF Retrying, ListOf
  <2> QED
    BY <2>1
<1>10. /\ s \in Places /\ s \notin SuspendedPlaces /\ UNCHANGED queue
       /\ s \notin {"check", "ask", "place", "unlockTx", "unlockRx"}
       /\ pc[t] \notin {"check", "ask", "place", "unlockTx", "unlockRx"}
       /\ pc' = [pc EXCEPT ![t] = s]
  BY <1>1, <1>2, <1>4 DEF Places, SuspendedPlaces, Unlocking
<1> QED
  BY <1>2, <1>3, <1>6, <1>8, <1>9, <1>10, StepKeeps

-----------------------------------------------------------------------------
(* Locking, waiting and unlocking.                                          *)

\* No task is about to wait, when the current one is not.
LEMMA NobodyPlaces ==
  ASSUME FlowSound', pc'[kernel'.pxCurrentTCB] # "place"
  PROVE  AskedSound'
BY DEF FlowSound, AskedSound, SuspendedPlaces

\* NobodyLeft for a list about which nothing changes but that more will look.
LEMMA StrandedKept ==
  ASSUME IInv, NEW list \in Lists, NEW X, Followed(X, list),
         Retrying(list) \subseteq Retrying(list)',
         Supply(list)' = Supply(list),
         \/ LockOf(list)' = LockOf(list)
         \/ LockOf(list) = -1 /\ LockOf(list)' = 0
  PROVE  Enough(Waiting(kernel', list), Retrying(list)', Supply(list)', LockOf(list)')
<1>1. Enough(Waiting(kernel, list), Retrying(list), Supply(list), LockOf(list))
  BY StrandedOfLists DEF IInv
<1>2. LockOf(list) \in Int /\ LockOf(list)' \in Int /\ Supply(list) \in Nat
  <2>1. LockOf(list) \in queueUNLOCKED .. Cardinality(Tasks) /\ Cardinality(Tasks) \in Nat
    BY QueueFacts DEF IInv
  <2>2. LockOf(list) \in Int
    BY <2>1 DEF queueUNLOCKED
  <2> QED
    BY <2>2, QueueFacts DEF IInv
<1> QED
  BY <1>1, <1>2, EnoughKept DEF Followed

\* The queue is locked.
LEMMA StepLockQueue == \A t \in Tasks : IInv /\ prvLockQueue(t) => IInv'
<1> SUFFICES ASSUME NEW t \in Tasks, IInv, prvLockQueue(t) PROVE IInv'
  OBVIOUS
<1> DEFINE s == "check"
<1>1. /\ At(t, "lock") /\ UNCHANGED <<kernel, call>> /\ pc' = [pc EXCEPT ![t] = s]
      /\ queue' = [queue EXCEPT
           !.cRxLock = IF @ = queueUNLOCKED THEN queueLOCKED_UNMODIFIED ELSE @,
           !.cTxLock = IF @ = queueUNLOCKED THEN queueLOCKED_UNMODIFIED ELSE @]
  BY DEF prvLockQueue, Goto
<1>2. /\ t = kernel.pxCurrentTCB /\ pc[t] = "lock" /\ Runs(t) /\ t # IdleTask
      /\ KernelSound(kernel) /\ kernel.uxSchedulerSuspended = 1
      /\ call[t] \in CallType /\ call' = [call EXCEPT ![t] = call[t]]
      /\ call[t].op = "overwrite" => queue.uxLength = 1
      /\ pc \in [Tasks -> Places]
  BY <1>1, Executes DEF SuspendedPlaces, Unlocking, Runs
<1>3. kernel.xStateListItem[t] = "ready" /\ kernel.xEventListItem[t] \notin Lists
  BY <1>1, <1>2, Executes
<1>4. FlowSound /\ QueueSound /\ WaitersSound
  BY DEF IInv
<1>5. queue.cTxLock = -1 /\ queue.cRxLock = -1
  BY <1>2, <1>4 DEF QueueSound, queueUNLOCKED
<1>6. queue \in QueueType(queue.uxLength) /\ queue.uxLength \in Lengths /\ Cardinality(Tasks) \in Nat
  BY <1>4, QueueFacts
<1>7. /\ queue'.cTxLock = 0 /\ queue'.cRxLock = 0 /\ queue'.uxLength = queue.uxLength
      /\ queue'.uxMessagesWaiting = queue.uxMessagesWaiting
      /\ queue' \in QueueType(queue.uxLength)
  <2>1. queue' = [queue EXCEPT !.cRxLock = 0, !.cTxLock = 0]
    BY <1>1, <1>5, <1>6 DEF QueueType, queueUNLOCKED, queueLOCKED_UNMODIFIED
  <2>2. 0 \in queueUNLOCKED .. Cardinality(Tasks)
    BY <1>6 DEF queueUNLOCKED
  <2> QED
    BY <1>6, <2>1, <2>2 DEF QueueType
<1>8. pc'[t] = s /\ kernel'.pxCurrentTCB = t
  BY <1>1, <1>2
<1>9. QueueSound'
  BY <1>6, <1>7, <1>8 DEF QueueSound, queueUNLOCKED
<1>10. FlowSound'
  <2>1. s \in Places /\ s \in SuspendedPlaces /\ s \notin {"ask", "place"}
    BY DEF Places, SuspendedPlaces
  <2>2. kernel'.uxSchedulerSuspended = 1
    BY <1>1, <1>2
  <2>3. pc' = [pc EXCEPT ![t] = s]
    BY <1>1
  <2> HIDE DEF s
  <2> QED
    BY <1>2, <1>4, <1>7, <1>8, <2>1, <2>2, <2>3, FlowKept
<1>11. Eases(kernel, kernel') /\ Elsewhere({t})
  BY <1>1, <1>2 DEF Eases, Elsewhere, WillTry
<1>12. WaitersSound'
  BY <1>3, <1>4, <1>11, WaitersKept
<1>13. AskedSound'
  BY <1>8, <1>10, NobodyPlaces
<1>14. NobodyLeft'
  <2>1. ASSUME NEW list \in Lists
        PROVE  Enough(Waiting(kernel', list), Retrying(list)', Supply(list)', LockOf(list)')
    <3>1. Followed({t}, list)
      BY <1>4, <1>11, FollowedFacts
    <3>2. Retrying(list) \subseteq Retrying(list)'
      <4>1. t \notin Retrying(list)
        BY <1>2 DEF Retrying
      <4> QED
        BY <3>1, <4>1 DEF Followed
    <3>3. /\ Supply(list)' = Supply(list)
          /\ LockOf(list) = -1 /\ LockOf(list)' = 0
      BY <1>5, <1>7 DEF Supply, LockOf
    <3> QED
      BY <3>1, <3>2, <3>3, StrandedKept
  <2> QED
    BY <2>1, StrandedOfLists
<1>15. RunnerReady'
  BY <1>1, <1>2, <1>3 DEF RunnerReady
<1>16. KernelSound(kernel')
  BY <1>1, <1>2
<1> QED
  BY <1>9, <1>10, <1>12, <1>13, <1>14, <1>15, <1>16 DEF IInv

\* The task puts itself on the event list.
LEMMA StepPlace == \A t \in Tasks : IInv /\ vTaskPlaceOnEventList(t) => IInv'
<1> SUFFICES ASSUME NEW t \in Tasks, IInv, vTaskPlaceOnEventList(t) PROVE IInv'
  OBVIOUS
<1> DEFINE s == "unlockTx"
           own == ListOf(call[t].op)
           c == [call[t] EXCEPT !.way = "block"]
<1>1. /\ At(t, "place") /\ UNCHANGED queue /\ pc' = [pc EXCEPT ![t] = s]
      /\ kernel' = prvAddCurrentTaskToDelayedList(kernel, call[t].xTicksToWait, TRUE, own)
  BY DEF vTaskPlaceOnEventList, Goto
<1>2. /\ t = kernel.pxCurrentTCB /\ pc[t] = "place" /\ Runs(t) /\ t # IdleTask
      /\ KernelSound(kernel) /\ ListsKept(kernel) /\ Served(kernel)
      /\ kernel.uxSchedulerSuspended = 1
      /\ call[t] \in CallType /\ call \in [Tasks -> CallType]
      /\ call[t].op = "overwrite" => queue.uxLength = 1
      /\ pc \in [Tasks -> Places]
  BY <1>1, Executes DEF SuspendedPlaces, Unlocking, Runs
<1>3. kernel.xStateListItem[t] = "ready" /\ kernel.xEventListItem[t] = "none"
  BY <1>1, <1>2, Executes
<1>4. FlowSound /\ QueueSound /\ WaitersSound /\ NobodyLeft
  BY DEF IInv
<1>5. call[t].xTicksToWait \in Ticks /\ call[t].xTicksToWait # 0
  BY <1>2, <1>4, CallFields DEF FlowSound
<1>6. own \in Lists /\ own \in EventLists
  BY DEF ListOf, Lists, EventLists
<1>7. Blocks(kernel, kernel', own)
  BY <1>1, <1>2, <1>5, <1>6, BlockFacts
<1>8. KernelSound(kernel') /\ kernel'.uxSchedulerSuspended = 1 /\ kernel'.pxCurrentTCB = t
  BY <1>2, <1>7 DEF Blocks, KernelSound, Served
<1>9. \A u \in Tasks : kernel'.xEventListItem[u] = IF u = t THEN own ELSE kernel.xEventListItem[u]
  BY <1>2, <1>7 DEF Blocks
<1>10. /\ c \in CallType /\ c.op = call[t].op /\ c.way = "block"
       /\ call' = [call EXCEPT ![t] = c]
  BY <1>2 DEF CallType, vTaskPlaceOnEventList
<1> HIDE DEF c
<1>11. /\ pc'[t] = "unlockTx" /\ call'[t] = c
       /\ \A u \in Tasks : u # t => pc'[u] = pc[u] /\ call'[u] = call[u]
  BY <1>1, <1>2, <1>10
<1>12. FlowSound'
  <2>1. s \in Places /\ s \in SuspendedPlaces /\ s \notin {"ask", "place"}
    BY DEF Places, SuspendedPlaces, Unlocking
  <2>2. pc' = [pc EXCEPT ![t] = s] /\ queue'.uxLength = queue.uxLength
    BY <1>1
  <2> HIDE DEF s
  <2>3. c.op = "overwrite" => queue.uxLength = 1
    BY <1>2, <1>10
  <2> QED
    BY <1>2, <1>4, <1>8, <1>10, <2>1, <2>2, <2>3, FlowKept
<1>13. QueueSound'
  BY <1>1, <1>2, <1>4, <1>8, <1>11 DEF QueueSound
<1>14. RunnerReady'
  BY <1>8, <1>10, <1>11 DEF RunnerReady, Runs, Unlocking
<1>15. WaitersSound'
  <2> SUFFICES ASSUME NEW u \in Tasks, kernel'.xEventListItem[u] \in Lists
               PROVE  kernel'.xEventListItem[u] = ListOf(call'[u].op) /\ WillTry(u)'
    BY DEF WaitersSound, Lists
  <2>1. CASE u = t
    <3>1. WillTry(t)'
      BY <1>10, <1>11 DEF WillTry, Unlocking
    <3> QED
      BY <1>9, <1>10, <1>11, <2>1, <3>1 DEF ListOf
  <2>2. CASE u # t
    <3>1. kernel.xEventListItem[u] = ListOf(call[u].op) /\ WillTry(u)
      BY <1>4, <1>9, <2>2 DEF WaitersSound, Lists
    <3>2. WillTry(u)'
      BY <1>11, <2>2, <3>1 DEF WillTry
    <3> QED
      BY <1>9, <1>11, <2>2, <3>1, <3>2 DEF ListOf
  <2> QED
    BY <2>1, <2>2
<1>16. AskedSound'
  BY <1>8, <1>11, <1>12, NobodyPlaces
<1>17. NobodyLeft'
  <2>1. ASSUME NEW list \in Lists
        PROVE  Enough(Waiting(kernel', list), Retrying(list)', Supply(list)', LockOf(list)')
    <3>1. /\ Supply(list)' = Supply(list) /\ LockOf(list)' = LockOf(list)
          /\ Supply(list) \in Nat /\ LockOf(list) \in Nat
      BY <1>1, <1>2, <1>4, QueueFacts, LockedThere DEF Supply, LockOf
    <3>2. Retrying(list) \in SUBSET Tasks /\ Retrying(list)' \in SUBSET Tasks
      BY DEF Retrying
    <3>3. CASE list = own
      <4>1. Supply(list) <= LockOf(list) \/ LockOf(list) = Cardinality(Tasks)
        BY <1>2, <3>3 DEF IInv, AskedSound
      <4>2. Max({0, LockOf(list)}) = LockOf(list) /\ Cardinality(Retrying(list)') \in Nat
        BY <3>1, <3>2, MaxZero, TaskSets
      <4> QED
        BY <3>1, <4>1, <4>2 DEF Enough
    <3>4. CASE list # own
      <4>1. Waiting(kernel', list) = Waiting(kernel, list)
        BY <1>3, <1>9, <3>4 DEF Waiting, Lists
      <4>2. Retrying(list) \subseteq Retrying(list)'
        <5>1. ASSUME NEW u \in Retrying(list) PROVE u \in Retrying(list)'
          <6>1. /\ u \in Tasks /\ ListOf(call[u].op) = list
                /\ kernel.xEventListItem[u] # list /\ WillTry(u)
            BY <5>1 DEF Retrying, WillTry, Unlocking
          <6>2. u # t
            BY <3>4, <6>1
          <6>3. /\ pc'[u] = pc[u] /\ call'[u] = call[u]
                /\ kernel'.xEventListItem[u] = kernel.xEventListItem[u]
            BY <1>9, <1>11, <6>1, <6>2
          <6> QED
            BY <5>1, <6>1, <6>3 DEF Retrying, ListOf
        <5> QED
          BY <5>1
      <4>3. Enough(Waiting(kernel, list), Retrying(list), Supply(list), LockOf(list))
        BY <1>4, StrandedOfLists
      <4> QED
        BY <3>1, <3>2, <4>1, <4>2, <4>3, EnoughKept
    <3> QED
      BY <3>3, <3>4
  <2> QED
    BY <2>1, StrandedOfLists
<1> QED
  BY <1>8, <1>12, <1>13, <1>14, <1>15, <1>16, <1>17 DEF IInv

\* One half of prvUnlockQueue: the lock of list, at from.
LEMMA StepUnlock ==
  ASSUME IInv, NEW t \in Tasks, NEW list \in Lists, NEW from, NEW s, At(t, from),
         \/ /\ from = "unlockTx" /\ s = "unlockRx" /\ list = "receive"
            /\ queue' = [queue EXCEPT !.cTxLock = queueUNLOCKED]
         \/ /\ from = "unlockRx" /\ s = "resumeAll" /\ list = "send"
            /\ queue' = [queue EXCEPT !.cRxLock = queueUNLOCKED],
         kernel' = Unlocked(kernel, list, LockOf(list)),
         pc' = [pc EXCEPT ![t] = s], UNCHANGED call
  PROVE  IInv'
<1>1. from \in Unlocking /\ s \in Unlocking /\ from \in SuspendedPlaces /\ s \in SuspendedPlaces
  BY DEF Unlocking, SuspendedPlaces
<1>2. /\ t = kernel.pxCurrentTCB /\ pc[t] = from
      /\ KernelSound(kernel) /\ ListsKept(kernel) /\ Served(kernel)
      /\ kernel.uxSchedulerSuspended = 1
      /\ call[t] \in CallType /\ call' = [call EXCEPT ![t] = call[t]]
      /\ call[t].op = "overwrite" => queue.uxLength = 1
      /\ pc \in [Tasks -> Places]
  BY <1>1, Executes
<1>3. t # IdleTask
  BY <1>1, Executes DEF Unlocking
<1>4. FlowSound /\ QueueSound /\ WaitersSound /\ NobodyLeft
  BY DEF IInv
<1>5. /\ queue \in QueueType(queue.uxLength) /\ queue.uxLength \in Lengths
      /\ Cardinality(Tasks) \in Nat
      /\ queue.cTxLock \in queueUNLOCKED .. Cardinality(Tasks)
      /\ queue.cRxLock \in queueUNLOCKED .. Cardinality(Tasks)
  BY <1>4, QueueFacts
<1>6. LockOf(list) \in Nat
  <2>1. list = "receive" => queue.cTxLock # queueUNLOCKED
    BY <1>2, <1>4 DEF QueueSound
  <2>2. list = "send" => queue.cRxLock # queueUNLOCKED
    BY <1>2, <1>4 DEF QueueSound
  <2> QED
    BY <1>5, <2>1, <2>2 DEF LockOf, queueUNLOCKED, Lists
<1>7. Rounds(kernel, kernel', list, LockOf(list))
  BY <1>2, <1>6, UnlockedFacts DEF Lists
<1>8. /\ KernelSound(kernel') /\ Eases(kernel, kernel')
      /\ kernel'.uxSchedulerSuspended = 1 /\ kernel'.pxCurrentTCB = t
  <2>1. Advances(kernel, kernel')
    BY <1>7 DEF Rounds
  <2>2. Served(kernel')
    BY <1>2, <1>7, <2>1 DEF Rounds, Advances, Served
  <2>3. Eases(kernel, kernel')
    BY <2>1 DEF Advances, Eases
  <2> QED
    BY <1>2, <2>1, <2>2, <2>3, SoundKept DEF Advances
<1>9. /\ pc'[t] = s /\ \A u \in Tasks : u # t => pc'[u] = pc[u]
  BY <1>2
<1>10. /\ queue' \in QueueType(queue.uxLength) /\ queue'.uxLength = queue.uxLength
       /\ queue'.uxMessagesWaiting = queue.uxMessagesWaiting
       /\ queue'.cTxLock = IF list = "receive" THEN -1 ELSE queue.cTxLock
       /\ queue'.cRxLock = IF list = "receive" THEN queue.cRxLock ELSE -1
  <2>1. -1 \in queueUNLOCKED .. Cardinality(Tasks) /\ queueUNLOCKED = -1
    BY <1>5 DEF queueUNLOCKED
  <2>2. CASE list = "receive"
    <3>1. queue' = [queue EXCEPT !.cTxLock = -1]
      BY <2>1, <2>2
    <3> QED
      BY <1>5, <2>1, <2>2, <3>1 DEF QueueType
  <2>3. CASE list = "send"
    <3>1. queue' = [queue EXCEPT !.cRxLock = -1]
      BY <2>1, <2>3
    <3> QED
      BY <1>5, <2>1, <2>3, <3>1 DEF QueueType
  <2> QED
    BY <2>2, <2>3 DEF Lists
<1>11. QueueSound'
  <2>1. queue'.uxLength \in Lengths /\ queue' \in QueueType(queue'.uxLength)
    BY <1>5, <1>10
  <2>2. CASE list = "receive"
    BY <1>2, <1>4, <1>8, <1>9, <1>10, <2>1, <2>2 DEF QueueSound, queueUNLOCKED
  <2>3. CASE list = "send"
    BY <1>2, <1>4, <1>8, <1>9, <1>10, <2>1, <2>3 DEF QueueSound, queueUNLOCKED
  <2> QED
    BY <2>2, <2>3 DEF Lists
<1>12. FlowSound'
  <2>1. s \in Places /\ s \in SuspendedPlaces /\ s \notin {"ask", "place"}
    BY <1>1 DEF Places, Unlocking
  <2> QED
    BY <1>2, <1>3, <1>4, <1>8, <1>10, <2>1, FlowKept
<1>13. Elsewhere({})
  BY <1>1, <1>2, <1>9 DEF Elsewhere, WillTry
<1>14. WaitersSound'
  <2>1. \A u \in {} : kernel.xEventListItem[u] \notin Lists
    OBVIOUS
  <2> QED
    BY <1>4, <1>8, <1>13, <2>1, WaitersKept
<1>15. AskedSound'
  BY <1>1, <1>8, <1>9, <1>12, NobodyPlaces DEF Unlocking
<1>16. RunnerReady'
  <2>1. CASE call[t].way = "block"
    BY <1>1, <1>8, <1>9, <2>1 DEF RunnerReady, Runs, Unlocking
  <2>2. CASE call[t].way # "block"
    <3>1. Runs(t)
      BY <1>1, <1>2, <2>2 DEF Runs
    <3>2. kernel.xStateListItem[t] = "ready"
      BY <3>1, Executes
    <3>3. kernel'.xStateListItem[t] = "ready"
      BY <1>7, <3>2 DEF Rounds, Advances
    <3> QED
      BY <1>8, <3>3 DEF RunnerReady
  <2> QED
    BY <2>1, <2>2
<1>17. NobodyLeft'
  <2>1. ASSUME NEW other \in Lists
        PROVE  Enough(Waiting(kernel', other), Retrying(other)', Supply(other)', LockOf(other)')
    <3>1. Followed({}, other)
      BY <1>4, <1>8, <1>13, FollowedFacts
    <3>2. /\ Retrying(other) \subseteq Retrying(other)'
          /\ Waiting(kernel, other) \ Waiting(kernel', other) \subseteq Retrying(other)'
      BY <3>1 DEF Followed
    <3>3. Supply(other)' = Supply(other)
      BY <1>10 DEF Supply
    <3>4. CASE other = list
      <4>1. LockOf(other)' = -1
        BY <1>10, <3>4 DEF LockOf, Lists
      <4>2. Supply(other) \in Int
        BY <1>4, QueueFacts
      <4>3. Enough(Waiting(kernel, other), Retrying(other), Supply(other), LockOf(other))
        BY <1>4, StrandedOfLists
      <4>4. \/ Waiting(kernel', other) = {}
            \/ Cardinality(Waiting(kernel', other)) + LockOf(other)
                 <= Cardinality(Waiting(kernel, other))
        BY <1>7, <3>4 DEF Rounds
      <4>5. Enough(Waiting(kernel', other), Retrying(other)', Supply(other), -1)
        BY <1>6, <3>1, <3>2, <3>4, <4>2, <4>3, <4>4, EnoughUnlocked DEF Followed
      <4> QED
        BY <3>3, <4>1, <4>5
    <3>5. CASE other # list
      <4>1. LockOf(other)' = LockOf(other)
        BY <1>10, <3>5 DEF LockOf, Lists
      <4> QED
        BY <3>1, <3>2, <3>3, <4>1, StrandedKept
    <3> QED
      BY <3>4, <3>5
  <2> QED
    BY <2>1, StrandedOfLists
<1> QED
  BY <1>8, <1>11, <1>12, <1>14, <1>15, <1>16, <1>17 DEF IInv

\* prvUnlockQueue, for the receivers.
LEMMA StepUnlockTx == \A t \in Tasks : IInv /\ prvUnlockQueue_Tx(t) => IInv'
<1> SUFFICES ASSUME NEW t \in Tasks, IInv, prvUnlockQueue_Tx(t) PROVE IInv'
  OBVIOUS
<1>1. /\ At(t, "unlockTx") /\ queue' = [queue EXCEPT !.cTxLock = queueUNLOCKED]
      /\ kernel' = Unlocked(kernel, "receive", LockOf("receive"))
      /\ pc' = [pc EXCEPT ![t] = "unlockRx"] /\ UNCHANGED call
  BY DEF prvUnlockQueue_Tx, Goto, LockOf
<1> QED
  BY <1>1, StepUnlock DEF Lists

\* prvUnlockQueue, for the senders.
LEMMA StepUnlockRx == \A t \in Tasks : IInv /\ prvUnlockQueue_Rx(t) => IInv'
<1> SUFFICES ASSUME NEW t \in Tasks, IInv, prvUnlockQueue_Rx(t) PROVE IInv'
  OBVIOUS
<1>1. /\ At(t, "unlockRx") /\ queue' = [queue EXCEPT !.cRxLock = queueUNLOCKED]
      /\ kernel' = Unlocked(kernel, "send", LockOf("send"))
      /\ pc' = [pc EXCEPT ![t] = "resumeAll"] /\ UNCHANGED call
  BY DEF prvUnlockQueue_Rx, Goto, LockOf
<1> QED
  BY <1>1, StepUnlock DEF Lists

-----------------------------------------------------------------------------
(* Messages come and go.                                                    *)

\* A message is copied to the queue: there is one more, or, if it has overwritten
\* another, the queue stays full.
LEMMA CopyFacts ==
  ASSUME NEW n \in Nat \ {0}, NEW Q \in QueueType(n), NEW op \in Sends,
         NEW item \in Items \cup {NoItem}, ~CannotGoOn(Q, op), op = "overwrite" => n = 1,
         NEW Q2, Q2 = prvCopyDataToQueue(Q, op, item)
  PROVE  /\ Q2 \in QueueType(n) /\ Q2.cTxLock = Q.cTxLock /\ Q2.cRxLock = Q.cRxLock
         /\ \/ Q2.uxMessagesWaiting = Q.uxMessagesWaiting + 1
            \/ Q2.uxMessagesWaiting = n /\ Q.uxMessagesWaiting = n
<1>1. /\ Q.uxLength = n /\ Q.pcWriteTo \in 0 .. n - 1 /\ Q.pcReadFrom \in 0 .. n - 1
      /\ Q.uxMessagesWaiting \in 0 .. n /\ Q.storage \in [0 .. n - 1 -> Items \cup {NoItem}]
  BY DEF QueueType
<1>2. NextPlace(Q, Q.pcWriteTo) \in 0 .. n - 1 /\ PrevPlace(Q, Q.pcReadFrom) \in 0 .. n - 1
  BY <1>1 DEF NextPlace, PrevPlace
<1>3. op # "overwrite" => Q.uxMessagesWaiting # n
  BY <1>1 DEF CannotGoOn, prvIsQueueFull
<1>4. CASE op = "send"
  <2> DEFINE next == NextPlace(Q, Q.pcWriteTo)
             storage == [Q.storage EXCEPT ![Q.pcWriteTo] = item]
             count == Q.uxMessagesWaiting + 1
  <2>1. Q2 = [Q EXCEPT !.storage = storage, !.pcWriteTo = next, !.uxMessagesWaiting = count]
    BY <1>4 DEF prvCopyDataToQueue
  <2>2. /\ count \in 0 .. n /\ count = Q.uxMessagesWaiting + 1 /\ next \in 0 .. n - 1
        /\ storage \in [0 .. n - 1 -> Items \cup {NoItem}]
    BY <1>1, <1>2, <1>3, <1>4
  <2> HIDE DEF next, storage, count
  <2> QED
    BY <1>1, <2>1, <2>2 DEF QueueType
<1>5. CASE op # "send"
  <2> DEFINE prev == PrevPlace(Q, Q.pcReadFrom)
             storage == [Q.storage EXCEPT ![Q.pcReadFrom] = item]
             count == IF op = "overwrite" /\ Q.uxMessagesWaiting > 0
                      THEN Q.uxMessagesWaiting ELSE Q.uxMessagesWaiting + 1
  <2>1. Q2 = [Q EXCEPT !.storage = storage, !.pcReadFrom = prev, !.uxMessagesWaiting = count]
    BY <1>5 DEF prvCopyDataToQueue
  <2>2. /\ count \in 0 .. n /\ prev \in 0 .. n - 1
        /\ storage \in [0 .. n - 1 -> Items \cup {NoItem}]
        /\ \/ count = Q.uxMessagesWaiting + 1
           \/ count = n /\ Q.uxMessagesWaiting = n
    BY <1>1, <1>2, <1>3
  <2> HIDE DEF prev, storage, count
  <2> QED
    BY <1>1, <2>1, <2>2 DEF QueueType
<1> QED
  BY <1>4, <1>5

\* A message is removed.
LEMMA RemovedFacts ==
  ASSUME NEW n \in Nat \ {0}, NEW Q \in QueueType(n), ~prvIsQueueEmpty(Q),
         NEW Q2, Q2 = Removed(Q)
  PROVE  /\ Q2 \in QueueType(n) /\ Q2.cTxLock = Q.cTxLock /\ Q2.cRxLock = Q.cRxLock
         /\ Q2.uxMessagesWaiting = Q.uxMessagesWaiting - 1
<1> DEFINE next == NextPlace(Q, Q.pcReadFrom)
           storage == [Q.storage EXCEPT ![next] = NoItem]
           count == Q.uxMessagesWaiting - 1
<1>1. /\ Q.uxLength = n /\ Q.pcReadFrom \in 0 .. n - 1
      /\ Q.uxMessagesWaiting \in 0 .. n /\ Q.storage \in [0 .. n - 1 -> Items \cup {NoItem}]
  BY DEF QueueType
<1>2. /\ next \in 0 .. n - 1 /\ count \in 0 .. n /\ count = Q.uxMessagesWaiting - 1
      /\ storage \in [0 .. n - 1 -> Items \cup {NoItem}]
  <2>1. next \in 0 .. n - 1
    BY <1>1 DEF NextPlace
  <2>2. count \in 0 .. n
    BY <1>1 DEF prvIsQueueEmpty
  <2> HIDE DEF next
  <2> QED
    BY <1>1, <2>1, <2>2
<1>3. Q2 = [Q EXCEPT !.storage = storage, !.pcReadFrom = next, !.uxMessagesWaiting = count]
  BY DEF Removed
<1> HIDE DEF next, storage, count
<1> QED
  BY <1>1, <1>2, <1>3 DEF QueueType

\* The queue after prvInitialiseNewQueue and xQueueGenericReset.
LEMMA EmptyFacts ==
  ASSUME NEW n \in Nat \ {0}
  PROVE  /\ Empty(n) \in QueueType(n) /\ Empty(n).uxLength = n
         /\ Empty(n).uxMessagesWaiting = 0
         /\ Empty(n).cTxLock = -1 /\ Empty(n).cRxLock = -1
<1>1. Cardinality(Tasks) \in Nat
  BY TaskSets
<1> QED
  BY <1>1 DEF Empty, QueueType, queueUNLOCKED

\* One waiter of list is unblocked, and the tasks of X, who do not wait, act.
Hands(X, list) ==
  /\ Advances(kernel, kernel') /\ KernelSound(kernel') /\ Eases(kernel, kernel')
  /\ WaitersSound'
  /\ \A l \in Lists : Followed(X, l)
  /\ Waiting(kernel, list) # {} =>
       \E w \in Waiting(kernel, list) : w \notin Retrying(list) /\ w \in Retrying(list)'

\* Unblock, of a list of the queue.
LEMMA HandsFacts ==
  ASSUME IInv, NEW list \in Lists, kernel' = Unblock(kernel, list),
         NEW X, Elsewhere(X), \A u \in X : kernel.xEventListItem[u] \notin Lists
  PROVE  Hands(X, list)
<1>1. KernelSound(kernel) /\ ListsKept(kernel) /\ Served(kernel) /\ WaitersSound
  BY DEF IInv, KernelSound
<1>2. /\ Advances(kernel, kernel') /\ Served(kernel')
      /\ Waiting(kernel, list) # {} =>
           \E w \in Waiting(kernel, list) : Waiting(kernel', list) = Waiting(kernel, list) \ {w}
  BY <1>1, UnblockFacts DEF Lists
<1>3. KernelSound(kernel')
  BY <1>1, <1>2, SoundKept
<1>4. Eases(kernel, kernel')
  BY <1>2 DEF Advances, Eases
<1>5. WaitersSound'
  BY <1>1, <1>4, WaitersKept
<1>6. \A l \in Lists : Followed(X, l)
  BY <1>1, <1>4, FollowedFacts
<1>7. ASSUME Waiting(kernel, list) # {}
      PROVE  \E w \in Waiting(kernel, list) : w \notin Retrying(list) /\ w \in Retrying(list)'
  <2>1. PICK w \in Waiting(kernel, list) : Waiting(kernel', list) = Waiting(kernel, list) \ {w}
    BY <1>2, <1>7
  <2>2. w \notin X
    BY DEF Waiting
  <2>3. w \in Retrying(list)' /\ w \notin Retrying(list)
    BY <1>6, <2>1, <2>2 DEF Followed
  <2> QED
    BY <2>1, <2>3
<1> QED
  BY <1>2, <1>3, <1>4, <1>5, <1>6, <1>7 DEF Hands

Other(list) == IF list = "send" THEN "receive" ELSE "send"

\* What a step that is no task's own call does to the queue: for list there is one
\* more, which somebody is unblocked for or the lock counts.
Given(list) ==
  /\ queue' \in QueueType(queue.uxLength) /\ queue'.uxLength = queue.uxLength
  /\ Supply(Other(list))' <= Supply(Other(list))
  /\ LockOf(Other(list))' = LockOf(Other(list))
  /\ \/ /\ LockOf(list) = -1 /\ LockOf(list)' = -1
        /\ kernel' = Unblock(kernel, list)
        /\ ResetsFit => Supply(list)' <= Supply(list) + 1
     \/ /\ LockOf(list) # -1 /\ LockOf(list)' = Incremented(LockOf(list))
        /\ UNCHANGED kernel
        /\ Supply(list)' <= Supply(list) + 1

\* Such a step keeps the invariant: it is counted where nobody can be unblocked.
LEMMA GivenKeeps ==
  ASSUME IInv, UNCHANGED <<pc, call>>, NEW list \in Lists, Given(list)
  PROVE  IInv'
<1> DEFINE t == kernel.pxCurrentTCB
           other == Other(list)
<1>1. /\ KernelSound(kernel) /\ FlowSound /\ QueueSound /\ RunnerReady /\ WaitersSound
      /\ AskedSound /\ NobodyLeft
  BY DEF IInv
<1>2. /\ queue' \in QueueType(queue.uxLength) /\ queue'.uxLength = queue.uxLength
      /\ Supply(other)' <= Supply(other) /\ LockOf(other)' = LockOf(other)
      /\ LockOf(list) = -1 => (ResetsFit => Supply(list)' <= Supply(list) + 1)
      /\ LockOf(list) # -1 => Supply(list)' <= Supply(list) + 1
  BY DEF Given
<1>3. /\ queue.uxLength \in Lengths /\ Cardinality(Tasks) \in Nat
      /\ \A l : Supply(l) \in Nat /\ LockOf(l) \in queueUNLOCKED .. Cardinality(Tasks)
  BY <1>1, QueueFacts
<1>4. other \in Lists /\ other # list /\ \A l \in Lists : l = list \/ l = other
  BY DEF Other, Lists
<1> HIDE DEF other
<1>5. /\ LockOf(list) = -1 => LockOf(list)' = -1
      /\ LockOf(list) # -1 => LockOf(list)' = Incremented(LockOf(list)) /\ LockOf(list)' # -1
  BY <1>3 DEF Given, Incremented, queueUNLOCKED
<1>6. \A l \in Lists : LockOf(l)' = -1 <=> LockOf(l) = -1
  BY <1>2, <1>4, <1>5
<1>7. /\ KernelSound(kernel') /\ Advances(kernel, kernel') /\ WaitersSound'
      /\ \A l \in Lists : Followed({}, l)
  <2>1. Elsewhere({}) /\ \A u \in {} : kernel.xEventListItem[u] \notin Lists
    BY DEF Elsewhere, WillTry
  <2>2. CASE LockOf(list) = -1
    <3>1. kernel' = Unblock(kernel, list)
      BY <2>2 DEF Given
    <3>2. Hands({}, list)
      BY <2>1, <3>1, HandsFacts
    <3> QED
      BY <3>2 DEF Hands
  <2>3. CASE LockOf(list) # -1
    <3>1. UNCHANGED kernel
      BY <2>3 DEF Given
    <3>2. Eases(kernel, kernel') /\ Advances(kernel, kernel')
      BY <1>1, <3>1 DEF Eases, Advances, KernelSound
    <3> QED
      BY <1>1, <2>1, <3>1, <3>2, WaitersKept, FollowedFacts
  <2> QED
    BY <2>2, <2>3
<1>8. kernel'.pxCurrentTCB = t /\ t \in Tasks
  BY <1>7, KernelFields DEF Advances, KernelSound, ListsKept
<1> HIDE DEF t
<1>9. FlowSound'
  BY <1>1, <1>2, <1>7, <1>8 DEF FlowSound, Advances
<1>10. QueueSound'
  <2>1. /\ LockOf("receive")' = queue'.cTxLock /\ LockOf("receive") = queue.cTxLock
        /\ LockOf("send")' = queue'.cRxLock /\ LockOf("send") = queue.cRxLock
    BY DEF LockOf
  <2>2. /\ queue'.cTxLock = -1 <=> queue.cTxLock = -1
        /\ queue'.cRxLock = -1 <=> queue.cRxLock = -1
    BY <1>6, <2>1 DEF Lists
  <2> QED
    BY <1>1, <1>2, <1>3, <1>7, <1>8, <2>2 DEF QueueSound, queueUNLOCKED, Advances
<1>11. RunnerReady'
  BY <1>1, <1>7, <1>8 DEF Advances, RunnerReady, Runs
<1>12. AskedSound'
  <2>1. ASSUME NEW l \in Lists, NEW u \in Tasks, pc[u] = "place", ListOf(call[u].op) = l
        PROVE  Supply(l)' <= LockOf(l)' \/ LockOf(l)' = Cardinality(Tasks)
    <3>1. u = kernel.pxCurrentTCB
      BY <1>1, <2>1 DEF FlowSound, SuspendedPlaces
    <3>2. LockOf(l) \in Nat
      BY <2>1, <3>1, LockedThere
    <3>3. Supply(l) <= LockOf(l) \/ LockOf(l) = Cardinality(Tasks)
      BY <1>1, <2>1 DEF AskedSound
    <3>4. CASE l = list
      <4>1. /\ LockOf(l)' = Incremented(LockOf(l)) /\ Supply(l)' <= Supply(l) + 1
            /\ Supply(l) \in Nat /\ Supply(l)' \in Int
        <5>1. LockOf(l) # -1
          BY <3>2
        <5>2. queue'.uxMessagesWaiting \in Nat /\ queue'.uxLength \in Nat
          BY <1>1, <1>2, QueueFacts DEF QueueType
        <5> QED
          BY <1>2, <1>3, <1>5, <3>4, <5>1, <5>2 DEF Supply
      <4> QED
        BY <1>3, <3>2, <3>3, <4>1 DEF Incremented
    <3>5. CASE l = other
      <4>1. queue'.uxMessagesWaiting \in Nat /\ queue'.uxLength \in Nat
        BY <1>1, <1>2, QueueFacts DEF QueueType
      <4>2. Supply(l)' \in Int
        BY <4>1 DEF Supply
      <4> QED
        BY <1>2, <1>3, <3>2, <3>3, <3>5, <4>2
    <3> QED
      BY <1>4, <2>1, <3>4, <3>5
  <2>2. \A u \in Tasks : ListOf(call[u].op) \in Lists
    BY DEF ListOf, Lists
  <2>3. \A u \in Tasks : pc'[u] = pc[u] /\ ListOf(call[u].op)' = ListOf(call[u].op)
    BY DEF ListOf
  <2>4. \A u \in Tasks : pc[u] = "place" =>
          \/ Supply(ListOf(call[u].op))' <= LockOf(ListOf(call[u].op))'
          \/ LockOf(ListOf(call[u].op))' = Cardinality(Tasks)
    BY <2>1, <2>2, <2>3 DEF Supply, LockOf
  <2> QED
    BY <2>3, <2>4 DEF AskedSound
<1>13. NobodyLeft'
  <2>1. ASSUME NEW l \in Lists
        PROVE  Enough(Waiting(kernel', l), Retrying(l)', Supply(l)', LockOf(l)')
    <3>1. /\ Followed({}, l) /\ Retrying(l) \subseteq Retrying(l)'
          /\ Enough(Waiting(kernel, l), Retrying(l), Supply(l), LockOf(l))
      BY <1>1, <1>7, StrandedOfLists DEF Followed
    <3>2. /\ LockOf(l) \in Int /\ Supply(l) \in Nat /\ Supply(l)' \in Int
      <4>1. queue'.uxMessagesWaiting \in Nat /\ queue'.uxLength \in Nat
        BY <1>1, <1>2, QueueFacts DEF QueueType
      <4>2. LockOf(l) \in queueUNLOCKED .. Cardinality(Tasks)
        BY <1>3
      <4>3. LockOf(l) \in Int
        BY <1>3, <4>2 DEF queueUNLOCKED
      <4> QED
        BY <1>3, <4>1, <4>3 DEF Supply
    <3>3. CASE l = list /\ LockOf(list) = -1
      <4>1. CASE ResetsFit
        <5>1. kernel' = Unblock(kernel, list) /\ Elsewhere({})
          BY <3>3 DEF Given, Elsewhere, WillTry
        <5>2. \A u \in {} : kernel.xEventListItem[u] \notin Lists
          OBVIOUS
        <5>3. Hands({}, list)
          BY <5>1, <5>2, HandsFacts
        <5>4. Waiting(kernel, list) # {} =>
                \E w \in Waiting(kernel, list) : w \notin Retrying(list) /\ w \in Retrying(list)'
          BY <5>3 DEF Hands
        <5>5. Supply(list)' <= Supply(list) + 1 /\ LockOf(list)' = -1
          BY <1>2, <1>5, <3>3, <4>1
        <5>6. Enough(Waiting(kernel, l), Retrying(l), Supply(l), -1)
          BY <3>1, <3>3
        <5>7. Enough(Waiting(kernel', l), Retrying(l)', Supply(l)', -1)
          BY <3>1, <3>2, <3>3, <5>4, <5>5, <5>6, EnoughServed DEF Followed
        <5> QED
          BY <3>3, <5>5, <5>7
      <4>2. CASE ~ResetsFit
        BY <4>2 DEF Enough
      <4> QED
        BY <4>1, <4>2
    <3>4. CASE l = list /\ LockOf(list) # -1
      <4>1. UNCHANGED kernel
        BY <3>4 DEF Given
      <4>2. Waiting(kernel', l) = Waiting(kernel, l) /\ Retrying(l)' = Retrying(l)
        BY <4>1 DEF Retrying, ListOf
      <4>3. LockOf(l) \in 0 .. Cardinality(Tasks)
        BY <1>3, <3>4 DEF queueUNLOCKED
      <4>4. LockOf(l)' = Incremented(LockOf(l)) /\ Supply(l)' <= Supply(l) + 1
        BY <1>2, <1>5, <3>4
      <4>5. Enough(Waiting(kernel, l), Retrying(l), Supply(l)', Incremented(LockOf(l)))
        BY <3>1, <3>2, <4>3, <4>4, EnoughCounted DEF Followed
      <4> QED
        BY <4>2, <4>4, <4>5
    <3>5. CASE l = other
      <4>1. Supply(l)' <= Supply(l) /\ LockOf(l)' = LockOf(l)
        BY <1>2, <3>5
      <4> QED
        BY <3>1, <3>2, <4>1, EnoughKept DEF Followed
    <3> QED
      BY <1>4, <3>3, <3>4, <3>5
  <2> QED
    BY <2>1, StrandedOfLists
<1> QED
  BY <1>7, <1>9, <1>10, <1>11, <1>12, <1>13 DEF IInv

\* A handler sends: there is a message more, and no more room than there was.
LEMMA StepSendFromISR == IInv /\ xQueueGenericSendFromISR => IInv'
<1> SUFFICES ASSUME IInv, xQueueGenericSendFromISR PROVE IInv'
  OBVIOUS
<1>1. PICK c \in IsrCalls :
        /\ c.op \in Sends /\ Allowed(c.op) /\ ~CannotGoOn(queue, c.op)
        /\ IF queue.cTxLock = queueUNLOCKED
           THEN /\ kernel' = Unblock(kernel, "receive")
                /\ queue' = prvCopyDataToQueue(queue, c.op, c.item)
           ELSE /\ UNCHANGED kernel
                /\ queue' = [prvCopyDataToQueue(queue, c.op, c.item) EXCEPT
                               !.cTxLock = Incremented(@)]
        /\ UNCHANGED <<pc, call>>
  BY DEF xQueueGenericSendFromISR
<1> DEFINE n == queue.uxLength
           Q == prvCopyDataToQueue(queue, c.op, c.item)
<1>2. /\ n \in Nat \ {0} /\ queue \in QueueType(n) /\ Cardinality(Tasks) \in Nat
      /\ queue.uxMessagesWaiting \in Nat
      /\ queue.cTxLock \in queueUNLOCKED .. Cardinality(Tasks)
  BY QueueFacts DEF IInv
<1>3. c.item \in Items \cup {NoItem} /\ (c.op = "overwrite" => n = 1)
  BY <1>1, QueueAssumption DEF QueueAssumption, Allowed
<1>4. /\ Q \in QueueType(n) /\ Q.cTxLock = queue.cTxLock /\ Q.cRxLock = queue.cRxLock
      /\ \/ Q.uxMessagesWaiting = queue.uxMessagesWaiting + 1
         \/ Q.uxMessagesWaiting = n /\ queue.uxMessagesWaiting = n
  BY <1>1, <1>2, <1>3, CopyFacts
<1>5. queue.cTxLock = queueUNLOCKED => kernel' = Unblock(kernel, "receive") /\ queue' = Q
  BY <1>1
<1>6. queue.cTxLock # queueUNLOCKED =>
        UNCHANGED kernel /\ queue' = [Q EXCEPT !.cTxLock = Incremented(queue.cTxLock)]
  BY <1>1, <1>4
<1> HIDE DEF Q
<1>7. /\ queue' \in QueueType(n) /\ queue'.uxMessagesWaiting = Q.uxMessagesWaiting
      /\ queue'.cRxLock = queue.cRxLock
      /\ queue'.cTxLock = IF queue.cTxLock = -1 THEN -1 ELSE Incremented(queue.cTxLock)
  <2>1. CASE queue.cTxLock = -1
    BY <1>4, <1>5, <2>1 DEF queueUNLOCKED
  <2>2. CASE queue.cTxLock # -1
    <3>1. Incremented(queue.cTxLock) \in queueUNLOCKED .. Cardinality(Tasks)
      BY <1>2, <2>2 DEF queueUNLOCKED, Incremented
    <3>2. queue' = [Q EXCEPT !.cTxLock = Incremented(queue.cTxLock)]
      BY <1>6, <2>2 DEF queueUNLOCKED
    <3> QED
      BY <1>4, <2>2, <3>1, <3>2 DEF QueueType
  <2> QED
    BY <2>1, <2>2
<1>8. queue'.uxLength = n
  BY <1>7 DEF QueueType
<1>9. /\ Supply("receive") = queue.uxMessagesWaiting
      /\ Supply("receive")' = queue'.uxMessagesWaiting
      /\ Supply("send") = n - queue.uxMessagesWaiting
      /\ Supply("send")' = queue'.uxLength - queue'.uxMessagesWaiting
      /\ LockOf("receive") = queue.cTxLock /\ LockOf("receive")' = queue'.cTxLock
      /\ LockOf("send") = queue.cRxLock /\ LockOf("send")' = queue'.cRxLock
      /\ Other("receive") = "send"
  BY DEF Supply, LockOf, Other
<1>10. Supply("send")' <= Supply("send") /\ Supply("receive")' <= Supply("receive") + 1
  BY <1>2, <1>4, <1>7, <1>8, <1>9
<1>11. Given("receive")
  <2>1. CASE queue.cTxLock = -1
    BY <1>5, <1>7, <1>8, <1>9, <1>10, <2>1 DEF Given, queueUNLOCKED
  <2>2. CASE queue.cTxLock # -1
    BY <1>6, <1>7, <1>8, <1>9, <1>10, <2>2 DEF Given, queueUNLOCKED
  <2> QED
    BY <2>1, <2>2
<1> QED
  BY <1>1, <1>11, GivenKeeps DEF Lists

\* A handler receives: there is a place more, and a message less.
LEMMA StepReceiveFromISR == IInv /\ xQueueReceiveFromISR => IInv'
<1> SUFFICES ASSUME IInv, xQueueReceiveFromISR PROVE IInv'
  OBVIOUS
<1> DEFINE n == queue.uxLength
           Q == Removed(queue)
<1>1. /\ ~prvIsQueueEmpty(queue) /\ UNCHANGED <<pc, call>>
      /\ queue.cRxLock = queueUNLOCKED => kernel' = Unblock(kernel, "send") /\ queue' = Q
      /\ queue.cRxLock # queueUNLOCKED =>
           UNCHANGED kernel /\ queue' = [Q EXCEPT !.cRxLock = Incremented(@)]
  BY DEF xQueueReceiveFromISR
<1>2. /\ n \in Nat \ {0} /\ queue \in QueueType(n) /\ Cardinality(Tasks) \in Nat
      /\ queue.uxMessagesWaiting \in Nat
      /\ queue.cRxLock \in queueUNLOCKED .. Cardinality(Tasks)
  BY QueueFacts DEF IInv
<1>3. /\ Q \in QueueType(n) /\ Q.cTxLock = queue.cTxLock /\ Q.cRxLock = queue.cRxLock
      /\ Q.uxMessagesWaiting = queue.uxMessagesWaiting - 1
  BY <1>1, <1>2, RemovedFacts
<1>4. queue.cRxLock # queueUNLOCKED =>
        UNCHANGED kernel /\ queue' = [Q EXCEPT !.cRxLock = Incremented(queue.cRxLock)]
  BY <1>1, <1>3
<1> HIDE DEF Q
<1>5. /\ queue' \in QueueType(n) /\ queue'.uxMessagesWaiting = Q.uxMessagesWaiting
      /\ queue'.cTxLock = queue.cTxLock
      /\ queue'.cRxLock = IF queue.cRxLock = -1 THEN -1 ELSE Incremented(queue.cRxLock)
  <2>1. CASE queue.cRxLock = -1
    BY <1>1, <1>3, <2>1 DEF queueUNLOCKED
  <2>2. CASE queue.cRxLock # -1
    <3>1. Incremented(queue.cRxLock) \in queueUNLOCKED .. Cardinality(Tasks)
      BY <1>2, <2>2 DEF queueUNLOCKED, Incremented
    <3>2. queue' = [Q EXCEPT !.cRxLock = Incremented(queue.cRxLock)]
      BY <1>4, <2>2 DEF queueUNLOCKED
    <3> QED
      BY <1>3, <2>2, <3>1, <3>2 DEF QueueType
  <2> QED
    BY <2>1, <2>2
<1>6. queue'.uxLength = n
  BY <1>5 DEF QueueType
<1>7. /\ Supply("receive") = queue.uxMessagesWaiting
      /\ Supply("receive")' = queue'.uxMessagesWaiting
      /\ Supply("send") = n - queue.uxMessagesWaiting
      /\ Supply("send")' = queue'.uxLength - queue'.uxMessagesWaiting
      /\ LockOf("receive") = queue.cTxLock /\ LockOf("receive")' = queue'.cTxLock
      /\ LockOf("send") = queue.cRxLock /\ LockOf("send")' = queue'.cRxLock
      /\ Other("send") = "receive"
  BY DEF Supply, LockOf, Other
<1>8. Supply("receive")' <= Supply("receive") /\ Supply("send")' <= Supply("send") + 1
  BY <1>2, <1>3, <1>5, <1>6, <1>7
<1>9. Given("send")
  <2>1. CASE queue.cRxLock = -1
    BY <1>1, <1>5, <1>6, <1>7, <1>8, <2>1 DEF Given, queueUNLOCKED
  <2>2. CASE queue.cRxLock # -1
    BY <1>4, <1>5, <1>6, <1>7, <1>8, <2>2 DEF Given, queueUNLOCKED
  <2> QED
    BY <2>1, <2>2
<1> QED
  BY <1>1, <1>9, GivenKeeps DEF Lists

\* A reset leaves no message and as many places as the queue has.
LEMMA StepReset == \A t \in Tasks : IInv /\ xQueueGenericReset(t) => IInv'
<1> SUFFICES ASSUME NEW t \in Tasks, IInv, xQueueGenericReset(t) PROVE IInv'
  OBVIOUS
<1> DEFINE n == queue.uxLength
<1>1. /\ At(t, "app") /\ n \in ResetLengths /\ queue' = Empty(n)
      /\ kernel' = Unblock(kernel, "send") /\ UNCHANGED <<pc, call>>
  BY DEF xQueueGenericReset
<1>2. /\ n \in Nat \ {0} /\ queue.uxMessagesWaiting \in Nat /\ queue.uxMessagesWaiting <= n
  BY QueueFacts DEF IInv
<1>3. /\ queue' \in QueueType(n) /\ queue'.uxLength = n /\ queue'.uxMessagesWaiting = 0
      /\ queue'.cTxLock = -1 /\ queue'.cRxLock = -1
  BY <1>1, <1>2, EmptyFacts
<1>4. t = kernel.pxCurrentTCB /\ pc[t] = "app"
  BY <1>1, Executes
<1>5. queue.cTxLock = -1 /\ queue.cRxLock = -1
  BY <1>4 DEF IInv, QueueSound, queueUNLOCKED
<1>6. /\ Supply("receive") = queue.uxMessagesWaiting
      /\ Supply("receive")' = queue'.uxMessagesWaiting
      /\ Supply("send") = n - queue.uxMessagesWaiting
      /\ Supply("send")' = queue'.uxLength - queue'.uxMessagesWaiting
      /\ LockOf("receive") = queue.cTxLock /\ LockOf("receive")' = queue'.cTxLock
      /\ LockOf("send") = queue.cRxLock /\ LockOf("send")' = queue'.cRxLock
      /\ Other("send") = "receive"
  BY DEF Supply, LockOf, Other
<1>7. Supply("receive")' <= Supply("receive")
  BY <1>2, <1>3, <1>6
<1>8. ResetsFit => Supply("send")' <= Supply("send") + 1
  <2>1. ResetsFit => n = 1
    BY <1>1 DEF ResetsFit
  <2> QED
    BY <1>2, <1>3, <1>6, <2>1
<1>9. Given("send")
  BY <1>1, <1>3, <1>5, <1>6, <1>7, <1>8 DEF Given
<1> QED
  BY <1>1, <1>9, GivenKeeps DEF Lists

\* The first critical section ends with a message copied or removed.
LEMMA StepTryDone ==
  ASSUME IInv, Calling, NEW t \in Tasks, At(t, "try"), ~CannotGoOn(queue, call[t].op),
         queue' = Done(queue, call[t].op, call[t].item),
         kernel' = Unblock(kernel, Serves(call[t].op)),
         pc' = [pc EXCEPT ![t] = "app"], call' = [call EXCEPT ![t] = NoCall]
  PROVE  IInv'
<1> DEFINE n == queue.uxLength
           op == call[t].op
<1>1. /\ KernelSound(kernel) /\ FlowSound /\ QueueSound /\ NobodyLeft
  BY DEF IInv
<1>2. /\ t = kernel.pxCurrentTCB /\ pc[t] = "try" /\ Runs(t)
      /\ call[t] \in CallType /\ (op = "overwrite" => n = 1)
      /\ kernel.uxSchedulerSuspended = 0
      /\ pc \in [Tasks -> Places] /\ call \in [Tasks -> CallType]
  BY Executes DEF Runs, SuspendedPlaces, Unlocking
<1>3. kernel.xStateListItem[t] = "ready" /\ kernel.xEventListItem[t] \notin Lists
  BY <1>2, Executes
<1>4. op \in Ops /\ call[t].item \in Items \cup {NoItem}
  BY <1>2, CallFields DEF Calling, Free
<1>5. /\ n \in Nat \ {0} /\ n \in Lengths /\ queue \in QueueType(n)
      /\ queue.uxMessagesWaiting \in Nat /\ queue.uxMessagesWaiting <= n
      /\ \A l : Supply(l) \in Nat
  BY <1>1, QueueFacts
<1>6. queue.cTxLock = -1 /\ queue.cRxLock = -1
  BY <1>1, <1>2 DEF QueueSound, queueUNLOCKED
<1>7. /\ queue' \in QueueType(n) /\ queue'.cTxLock = -1 /\ queue'.cRxLock = -1
      /\ op \in Sends => \/ queue'.uxMessagesWaiting = queue.uxMessagesWaiting + 1
                         \/ queue'.uxMessagesWaiting = n /\ queue.uxMessagesWaiting = n
      /\ op = "receive" => queue'.uxMessagesWaiting = queue.uxMessagesWaiting - 1
      /\ op = "peek" => queue'.uxMessagesWaiting = queue.uxMessagesWaiting
  <2>1. CASE op \in Sends
    <3>1. queue' = prvCopyDataToQueue(queue, op, call[t].item)
      BY <2>1 DEF Done, Sends
    <3>2. op \notin {"receive", "peek"}
      BY <2>1 DEF Sends
    <3> QED
      BY <1>2, <1>4, <1>5, <1>6, <2>1, <3>1, <3>2, CopyFacts
  <2>2. CASE op = "receive"
    <3>1. queue' = Removed(queue) /\ op \notin Sends /\ op # "peek"
      BY <2>2 DEF Done, Sends
    <3>2. ~prvIsQueueEmpty(queue)
      BY <3>1 DEF CannotGoOn
    <3> QED
      BY <1>5, <1>6, <3>1, <3>2, RemovedFacts
  <2>3. CASE op = "peek"
    <3>1. queue' = queue /\ op \notin Sends /\ op # "receive"
      BY <2>3 DEF Done, Sends
    <3> QED
      BY <1>5, <1>6, <3>1
  <2> QED
    BY <1>4, <2>1, <2>2, <2>3 DEF Ops, Sends
<1>8. queue'.uxLength = n /\ queue'.uxMessagesWaiting \in Nat
  BY <1>5, <1>7 DEF QueueType
<1>9. /\ pc'[t] = "app" /\ call'[t] = NoCall
      /\ \A u \in Tasks : u # t => pc'[u] = pc[u] /\ call'[u] = call[u]
  BY <1>2
<1>10. Elsewhere({t})
  BY <1>9 DEF Elsewhere, WillTry
<1>11. PICK list \in Lists : list = Serves(op)
  BY DEF Serves, Lists
<1>12. Hands({t}, list)
  <2>1. kernel' = Unblock(kernel, list) /\ \A u \in {t} : kernel.xEventListItem[u] \notin Lists
    BY <1>3, <1>11
  <2> QED
    BY <1>10, <2>1, HandsFacts
<1>13. /\ KernelSound(kernel') /\ WaitersSound'
       /\ kernel'.pxCurrentTCB = t /\ kernel'.uxSchedulerSuspended = 0
       /\ kernel'.xStateListItem[t] = "ready"
  BY <1>2, <1>3, <1>12 DEF Hands, Advances
<1>14. FlowSound'
  <2> DEFINE s == "app"
             c == NoCall
  <2>1. /\ s \in Places /\ s \notin SuspendedPlaces /\ s \in {"app", "try", "reset"}
        /\ s \notin {"ask", "place"}
    BY DEF Places, SuspendedPlaces, Unlocking
  <2>2. c \in CallType /\ c.op # "overwrite" /\ c.xTicksToWait = 0
    BY NoCallType
  <2>3. pc' = [pc EXCEPT ![t] = s] /\ call' = [call EXCEPT ![t] = c]
    OBVIOUS
  <2>4. /\ FlowSound /\ t = kernel.pxCurrentTCB /\ kernel'.pxCurrentTCB = t
        /\ kernel'.uxSchedulerSuspended = 0 /\ queue'.uxLength = queue.uxLength
    BY <1>1, <1>2, <1>8, <1>13
  <2>5. /\ s \in Places /\ c \in CallType
        /\ kernel'.uxSchedulerSuspended = IF s \in SuspendedPlaces THEN 1 ELSE 0
        /\ c.op = "overwrite" => queue.uxLength = 1
        /\ t = IdleTask => s \in {"app", "try", "reset"} /\ c.xTicksToWait = 0
        /\ s \in {"ask", "place"} => c.xTicksToWait # 0
    BY <2>1, <2>2, <2>4
  <2> HIDE DEF s, c
  <2> QED
    BY <2>3, <2>4, <2>5, FlowKept
<1>15. QueueSound'
  BY <1>5, <1>7, <1>8, <1>9, <1>13 DEF QueueSound, queueUNLOCKED
<1>16. RunnerReady'
  BY <1>13 DEF RunnerReady
<1>17. AskedSound'
  BY <1>9, <1>13, <1>14, NobodyPlaces
<1>18. NobodyLeft'
  <2>1. ASSUME NEW l \in Lists
        PROVE  Enough(Waiting(kernel', l), Retrying(l)', Supply(l)', LockOf(l)')
    <3> DEFINE W == Waiting(kernel, l)
               R == Retrying(l)
               s1 == Supply(l)
               W2 == Waiting(kernel', l)
               R2 == Retrying(l)'
               s2 == Supply(l)'
    <3>1. /\ Followed({t}, l) /\ Retrying(l) \ {t} \subseteq Retrying(l)'
          /\ LockOf(l) = -1 /\ LockOf(l)' = -1
          /\ Enough(Waiting(kernel, l), Retrying(l), Supply(l), LockOf(l))
      BY <1>1, <1>6, <1>7, <1>12, StrandedOfLists DEF Hands, Followed, LockOf
    <3>2. /\ W2 \in SUBSET W /\ R \in SUBSET Tasks /\ R2 \in SUBSET Tasks /\ R \ {t} \subseteq R2
          /\ s1 \in Int /\ s2 \in Int /\ -1 \in Int
      BY <1>5, <1>8, <3>1 DEF Followed, Supply
    <3>3. Enough(W, R, s1, -1)
      BY <3>1
    <3>4. l = list => (W # {} => \E w \in W : w \notin R /\ w \in R2)
      BY <1>12 DEF Hands
    <3>5. Enough(W2, R2, s2, -1)
      <4>1. CASE l = list /\ op # "peek"
        <5>1. t \notin R
          BY <1>11, <1>4, <4>1 DEF Retrying, Serves, ListOf, Ops, Sends
        <5>2. s2 <= s1 + 1
          BY <1>4, <1>5, <1>7, <1>8, <1>11, <4>1 DEF Supply, Serves, Ops, Sends
        <5> HIDE DEF W, R, s1, W2, R2, s2
        <5>3. R \subseteq R2 /\ (W # {} => \E w \in W : w \notin R /\ w \in R2)
          BY <3>2, <3>4, <4>1, <5>1
        <5> QED
          BY <3>2, <3>3, <5>2, <5>3, EnoughServed
      <4>2. CASE l = list /\ op = "peek"
        <5>1. s2 = s1
          BY <1>7, <1>8, <4>2 DEF Supply
        <5> HIDE DEF W, R, s1, W2, R2, s2
        <5>2. W # {} => \E w \in W : w \notin R /\ w \in R2
          BY <3>4, <4>2
        <5>3. Enough(W2, R2, s1, -1)
          BY <3>2, <3>3, <5>2, EnoughPassedOn
        <5> QED
          BY <5>1, <5>3
      <4>3. CASE l # list /\ op # "peek"
        <5>1. s2 <= s1 - 1 \/ s2 <= 0
          BY <1>4, <1>5, <1>7, <1>8, <1>11, <4>3 DEF Supply, Serves, Ops, Sends, Lists
        <5> HIDE DEF W, R, s1, W2, R2, s2
        <5>2. CASE s2 <= s1 - 1
          BY <3>2, <3>3, <5>2, EnoughTaken
        <5>3. CASE s2 <= 0
          BY <3>2, <5>3, EnoughNone
        <5> QED
          BY <5>1, <5>2, <5>3
      <4>4. CASE l # list /\ op = "peek"
        <5>1. t \notin R
          BY <1>11, <4>4 DEF Retrying, Serves, ListOf, Sends, Lists
        <5>2. s2 = s1
          BY <1>7, <1>8, <4>4 DEF Supply
        <5> HIDE DEF W, R, s1, W2, R2, s2
        <5>3. R \subseteq R2 /\ s2 <= s1
          BY <3>2, <5>1, <5>2
        <5> QED
          BY <3>2, <3>3, <5>3, EnoughKept
      <4> QED
        BY <4>1, <4>2, <4>3, <4>4
    <3> QED
      BY <3>1, <3>5
  <2> QED
    BY <2>1, StrandedOfLists
<1> QED
  BY <1>13, <1>14, <1>15, <1>16, <1>17, <1>18 DEF IInv

\* The first critical section.
LEMMA StepTry == \A t \in Tasks : IInv /\ Calling /\ Try(t) => IInv'
<1> SUFFICES ASSUME NEW t \in Tasks, IInv, Calling, Try(t) PROVE IInv'
  OBVIOUS
<1>1. At(t, "try")
  BY DEF Try
<1>2. CASE ~CannotGoOn(queue, call[t].op)
  <2>1. /\ queue' = Done(queue, call[t].op, call[t].item)
        /\ kernel' = Unblock(kernel, Serves(call[t].op))
        /\ pc' = [pc EXCEPT ![t] = "app"] /\ call' = [call EXCEPT ![t] = NoCall]
    BY <1>2 DEF Try, Return, Goto
  <2> QED
    BY <1>1, <1>2, <2>1, StepTryDone
<1>3. CASE CannotGoOn(queue, call[t].op)
  <2>1. /\ UNCHANGED <<kernel, queue>>
        /\ \/ Return(t, "fail")
           \/ /\ call[t].xTicksToWait # 0
              /\ call' = IF call[t].xEntryTimeSet THEN call
                         ELSE [call EXCEPT ![t] = TimeOutSet([@ EXCEPT !.xEntryTimeSet = TRUE])]
              /\ Goto(t, "suspendAll")
    BY <1>3 DEF Try
  <2> QED
    BY <1>1, <1>3, <2>1, StepTryFails
<1> QED
  BY <1>2, <1>3

-----------------------------------------------------------------------------
(* Every step, and the first state.                                         *)

\* The task t goes to s, and its call becomes c.
LEMMA CallingMoved ==
  ASSUME IInv, Calling, NEW t \in Tasks, NEW s, NEW c,
         pc' = [pc EXCEPT ![t] = s], call' = [call EXCEPT ![t] = c],
         s \in Free \/ c.op \in Ops
  PROVE  Calling'
<1>1. pc \in [Tasks -> Places] /\ call \in [Tasks -> CallType]
  BY DEF IInv, FlowSound
<1>2. /\ pc'[t] = s /\ call'[t] = c
      /\ \A u \in Tasks : u # t => pc'[u] = pc[u] /\ call'[u] = call[u]
  BY <1>1
<1> QED
  BY <1>2 DEF Calling

\* The task t goes to s with the call it is in.
LEMMA CallingGoes ==
  ASSUME IInv, Calling, NEW t \in Tasks, NEW s, Goto(t, s), UNCHANGED call,
         s \in Free \/ pc[t] \notin Free
  PROVE  Calling'
<1>1. call' = [call EXCEPT ![t] = call[t]]
  BY DEF IInv, FlowSound
<1>2. pc' = [pc EXCEPT ![t] = s] /\ (s \in Free \/ call[t].op \in Ops)
  BY DEF Goto, Calling
<1> QED
  BY <1>1, <1>2, CallingMoved

\* The steps of the scheduler leave the calls alone.
LEMMA CallingTasks == IInv /\ Calling /\ TasksNext /\ UNCHANGED call => Calling'
<1> SUFFICES ASSUME IInv, Calling, TasksNext, UNCHANGED call PROVE Calling'
  OBVIOUS
<1>1. CASE UNCHANGED pc
  BY <1>1 DEF Calling
<1>2. ASSUME NEW t \in Tasks, NEW s \in Free, Goto(t, s) PROVE Calling'
  BY <1>2, CallingGoes
<1>3. CASE vTaskSwitchContext \/ xPortSysTickHandler \/ xTaskResumeFromISR
  BY <1>1, <1>3 DEF vTaskSwitchContext, xPortSysTickHandler, xTaskResumeFromISR
<1>4. ASSUME NEW t \in Tasks,
             \/ vTaskDelay(t) \/ vTaskDelay_Block(t) \/ vTaskDelay_ResumeAll(t)
             \/ vTaskSuspend(t) \/ vTaskSuspend_Reset(t) \/ vTaskResume(t) \/ Task_Yield(t)
      PROVE  UNCHANGED pc \/ \E s \in Free : Goto(t, s)
  <2>1. CASE vTaskDelay(t)
    BY <2>1 DEF vTaskDelay, vTaskSuspendAll, Free
  <2>2. CASE vTaskDelay_Block(t)
    BY <2>2 DEF vTaskDelay_Block, Free
  <2>3. CASE vTaskDelay_ResumeAll(t)
    BY <2>3 DEF vTaskDelay_ResumeAll, Free
  <2>4. CASE vTaskSuspend(t)
    BY <2>4 DEF vTaskSuspend, Free
  <2>5. CASE vTaskSuspend_Reset(t)
    BY <2>5 DEF vTaskSuspend_Reset, Free
  <2>6. CASE vTaskResume(t)
    BY <2>6 DEF vTaskResume
  <2>7. CASE Task_Yield(t)
    BY <2>7 DEF Task_Yield, Free
  <2> QED
    BY <1>4, <2>1, <2>2, <2>3, <2>4, <2>5, <2>6, <2>7
<1>5. CASE \E t \in Tasks :
             \/ vTaskDelay(t) \/ vTaskDelay_Block(t) \/ vTaskDelay_ResumeAll(t)
             \/ vTaskSuspend(t) \/ vTaskSuspend_Reset(t) \/ vTaskResume(t) \/ Task_Yield(t)
  BY <1>1, <1>2, <1>4, <1>5
<1> QED
  BY <1>3, <1>5 DEF TasksNext

\* The steps of queue.c keep what a task has said of its call.
LEMMA CallingQueue ==
  \A t \in Tasks :
    /\ IInv /\ Calling
    /\ \/ Call(t) \/ Try(t) \/ SuspendAll(t) \/ prvLockQueue(t)
       \/ xTaskCheckForTimeOut(t) \/ Ask(t) \/ vTaskPlaceOnEventList(t)
       \/ prvUnlockQueue_Tx(t) \/ prvUnlockQueue_Rx(t) \/ ResumeAll(t)
       \/ Queue_Yield(t) \/ Expired(t) \/ xQueueGenericReset(t)
    => Calling'
<1> SUFFICES ASSUME NEW t \in Tasks, IInv, Calling
             PROVE  \/ Call(t) \/ Try(t) \/ SuspendAll(t) \/ prvLockQueue(t)
                    \/ xTaskCheckForTimeOut(t) \/ Ask(t) \/ vTaskPlaceOnEventList(t)
                    \/ prvUnlockQueue_Tx(t) \/ prvUnlockQueue_Rx(t) \/ ResumeAll(t)
                    \/ Queue_Yield(t) \/ Expired(t) \/ xQueueGenericReset(t)
                    => Calling'
  OBVIOUS
<1>1. call \in [Tasks -> CallType] /\ call[t] \in CallType /\ KernelSound(kernel)
  BY DEF IInv, FlowSound
<1>2. pc[t] \notin Free => call[t].op \in Ops
  BY DEF Calling
<1>3. ASSUME NEW r, Return(t, r) PROVE Calling'
  <2>1. pc' = [pc EXCEPT ![t] = "app"] /\ call' = [call EXCEPT ![t] = NoCall] /\ "app" \in Free
    BY <1>3 DEF Return, Goto, Free
  <2> QED
    BY <2>1, CallingMoved
<1>4. ASSUME NEW s, Goto(t, s), UNCHANGED call, pc[t] \notin Free PROVE Calling'
  BY <1>4, CallingGoes
<1>5. ASSUME NEW s, Goto(t, s), NEW c, call' = [call EXCEPT ![t] = c], c.op \in Ops PROVE Calling'
  BY <1>5, CallingMoved DEF Goto
<1>6. ASSUME Call(t) PROVE Calling'
  <2>1. PICK k \in Calls[t] :
          call' = [call EXCEPT ![t] =
            [NoCall EXCEPT !.op = k.op, !.item = k.item, !.xTicksToWait = k.xTicksToWait]]
    BY <1>6 DEF Call
  <2> DEFINE c == [NoCall EXCEPT !.op = k.op, !.item = k.item, !.xTicksToWait = k.xTicksToWait]
  <2>2. c.op \in Ops
    BY QueueAssumption DEF QueueAssumption, NoCall
  <2>3. call' = [call EXCEPT ![t] = c] /\ Goto(t, "try")
    BY <1>6, <2>1 DEF Call
  <2> HIDE DEF c
  <2> QED
    BY <1>5, <2>2, <2>3
<1>7. ASSUME Try(t) PROVE Calling'
  <2>1. pc[t] \notin Free
    BY <1>7 DEF Try, At, Free
  <2>2. \/ \E r : Return(t, r)
        \/ /\ Goto(t, "suspendAll")
           /\ call' = IF call[t].xEntryTimeSet THEN call
                      ELSE [call EXCEPT ![t] = TimeOutSet([@ EXCEPT !.xEntryTimeSet = TRUE])]
    BY <1>7 DEF Try
  <2>3. CASE call[t].xEntryTimeSet
    BY <1>3, <1>4, <2>1, <2>2, <2>3
  <2>4. CASE ~call[t].xEntryTimeSet
    <3> DEFINE e == [call[t] EXCEPT !.xEntryTimeSet = TRUE]
    <3>1. e \in CallType /\ e.op = call[t].op
      BY <1>1 DEF CallType
    <3>2. call' = [call EXCEPT ![t] = TimeOutSet(e)] \/ \E r : Return(t, r)
      BY <1>1, <2>2, <2>4
    <3> HIDE DEF e
    <3>3. TimeOutSet(e).op \in Ops
      BY <1>1, <1>2, <2>1, <3>1, TimeOutSetFacts
    <3> QED
      BY <1>3, <1>5, <2>2, <3>2, <3>3
  <2> QED
    BY <2>3, <2>4
<1>8. ASSUME \/ SuspendAll(t) \/ prvLockQueue(t) \/ prvUnlockQueue_Tx(t)
             \/ prvUnlockQueue_Rx(t) \/ ResumeAll(t) \/ Queue_Yield(t)
      PROVE  Calling'
  <2>1. pc[t] \notin Free /\ UNCHANGED call
    BY <1>8 DEF SuspendAll, prvLockQueue, prvUnlockQueue_Tx, prvUnlockQueue_Rx, ResumeAll,
                Queue_Yield, At, Free
  <2>2. \E s : Goto(t, s)
    BY <1>8 DEF SuspendAll, prvLockQueue, prvUnlockQueue_Tx, prvUnlockQueue_Rx, ResumeAll,
                Queue_Yield, vTaskSuspendAll
  <2> QED
    BY <1>4, <2>1, <2>2
<1>9. ASSUME xTaskCheckForTimeOut(t) PROVE Calling'
  <2> DEFINE k == call[t]
             elapsed == (kernel.xTickCount - k.xTimeOut.xTimeOnEntering) % TickRange
             gone == [k EXCEPT !.xTicksToWait = 0, !.way = "expired"]
             left == [k EXCEPT !.xTicksToWait = k.xTicksToWait - elapsed]
  <2>1. pc[t] \notin Free
    BY <1>9 DEF xTaskCheckForTimeOut, At, Free
  <2>2. k.op \in Ops /\ k \in CallType
    BY <1>1, <1>2, <2>1
  <2>3. gone.op = k.op /\ left.op = k.op
    BY <2>2 DEF CallType
  <2>4. TimeOutSet(left).op = left.op
    BY <2>2 DEF TimeOutSet, CallType
  <2>5. PICK c \in {gone, k, TimeOutSet(left)} : call' = [call EXCEPT ![t] = c]
    BY <1>9 DEF xTaskCheckForTimeOut
  <2>6. \E s : Goto(t, s)
    BY <1>9 DEF xTaskCheckForTimeOut
  <2> HIDE DEF k, gone, left
  <2>7. c.op \in Ops
    BY <2>2, <2>3, <2>4, <2>5
  <2> QED
    BY <1>5, <2>5, <2>6, <2>7
<1>10. ASSUME Ask(t) PROVE Calling'
  <2>1. pc[t] \notin Free
    BY <1>10 DEF Ask, At, Free
  <2>2. CASE UNCHANGED call
    BY <1>4, <1>10, <2>1, <2>2 DEF Ask
  <2>3. CASE ~UNCHANGED call
    <3> DEFINE c == [call[t] EXCEPT !.way = "again"]
    <3>1. call' = [call EXCEPT ![t] = c] /\ Goto(t, "unlockTx")
      BY <1>1, <1>10, <2>3 DEF Ask
    <3>2. c.op \in Ops
      BY <1>1, <1>2, <2>1 DEF CallType
    <3> HIDE DEF c
    <3> QED
      BY <1>5, <3>1, <3>2
  <2> QED
    BY <2>2, <2>3
<1>11. ASSUME vTaskPlaceOnEventList(t) PROVE Calling'
  <2> DEFINE c == [call[t] EXCEPT !.way = "block"]
  <2>1. pc[t] \notin Free
    BY <1>11 DEF vTaskPlaceOnEventList, At, Free
  <2>2. call' = [call EXCEPT ![t] = c] /\ Goto(t, "unlockTx")
    BY <1>1, <1>11 DEF vTaskPlaceOnEventList
  <2>3. c.op \in Ops
    BY <1>1, <1>2, <2>1 DEF CallType
  <2> HIDE DEF c
  <2> QED
    BY <1>5, <2>2, <2>3
<1>12. ASSUME Expired(t) PROVE Calling'
  <2>1. pc[t] \notin Free
    BY <1>12 DEF Expired, At, Free
  <2> QED
    BY <1>3, <1>4, <1>12, <2>1 DEF Expired
<1>13. ASSUME xQueueGenericReset(t) PROVE Calling'
  BY <1>13 DEF xQueueGenericReset, Calling
<1> QED
  BY <1>6, <1>7, <1>8, <1>9, <1>10, <1>11, <1>12, <1>13

\* Every step of the scheduler, of the queue's services and of the handlers keeps
\* the invariant.
LEMMA NextKeeps == IInv /\ Calling /\ [Next]_vars => (IInv /\ Calling)'
<1> SUFFICES ASSUME IInv, Calling, [Next]_vars PROVE IInv' /\ Calling'
  OBVIOUS
<1>1. CASE TasksNext /\ UNCHANGED <<queue, call>>
  <2>1. Calling'
    BY <1>1, CallingTasks
  <2>2. CASE vTaskSwitchContext \/ xPortSysTickHandler \/ xTaskResumeFromISR
    BY <1>1, <2>1, <2>2, StepSwitch, StepTick, StepResumeFromISR
  <2>3. ASSUME NEW t \in Tasks,
               \/ vTaskDelay(t) \/ vTaskDelay_Block(t) \/ vTaskDelay_ResumeAll(t)
               \/ vTaskSuspend(t) \/ vTaskSuspend_Reset(t) \/ vTaskResume(t) \/ Task_Yield(t)
        PROVE  IInv'
    BY <1>1, <2>3, StepDelay, StepDelayBlock, StepDelayResumeAll, StepSuspend,
       StepSuspendReset, StepResume, StepTaskYield
  <2> QED
    BY <1>1, <2>1, <2>2, <2>3 DEF TasksNext
<1>2. CASE xQueueGenericSendFromISR
  BY <1>2, StepSendFromISR DEF xQueueGenericSendFromISR, Calling
<1>3. CASE xQueueReceiveFromISR
  BY <1>3, StepReceiveFromISR DEF xQueueReceiveFromISR, Calling
<1>4. ASSUME NEW t \in Tasks,
             \/ Call(t) \/ Try(t) \/ SuspendAll(t) \/ prvLockQueue(t)
             \/ xTaskCheckForTimeOut(t) \/ Ask(t) \/ vTaskPlaceOnEventList(t)
             \/ prvUnlockQueue_Tx(t) \/ prvUnlockQueue_Rx(t) \/ ResumeAll(t)
             \/ Queue_Yield(t) \/ Expired(t) \/ xQueueGenericReset(t)
      PROVE  IInv' /\ Calling'
  <2>1. Calling'
    BY <1>4, CallingQueue
  <2>2. IInv'
    BY <1>4, StepCall, StepTry, StepSuspendAll, StepLockQueue, StepCheckForTimeOut, StepAsk,
       StepPlace, StepUnlockTx, StepUnlockRx, StepResumeAll, StepQueueYield, StepExpired,
       StepReset
  <2> QED
    BY <2>1, <2>2
<1>5. CASE UNCHANGED vars
  <2>1. UNCHANGED <<kernel, pc, queue, call>>
    BY <1>5 DEF vars
  <2>2. Calling'
    BY <2>1 DEF Calling
  <2>3. Advances(kernel, kernel') /\ Served(kernel')
    BY <2>1 DEF IInv, KernelSound, Advances
  <2>4. IInv'
    BY <2>1, <2>3, Undisturbed
  <2> QED
    BY <2>2, <2>4
<1> QED
  BY <1>1, <1>2, <1>3, <1>4, <1>5 DEF Next

\* At the start all tasks are ready and nobody is in a call.
LEMMA InitSound == QueueInit => IInv /\ Calling
<1> SUFFICES ASSUME QueueInit PROVE IInv /\ Calling
  OBVIOUS
<1>1. PICK n \in Lengths : queue = Empty(n)
  BY DEF QueueInit
<1>2. n \in Nat \ {0}
  BY QueueAssumption DEF QueueAssumption
<1>3. /\ queue \in QueueType(n) /\ queue.uxLength = n
      /\ queue.cTxLock = queueUNLOCKED /\ queue.cRxLock = queueUNLOCKED
  BY <1>1, <1>2, EmptyFacts DEF queueUNLOCKED
<1>4. pc = [t \in Tasks |-> "app"] /\ call = [t \in Tasks |-> NoCall] /\ IdleTask \in Tasks
  BY TasksAssumption DEF QueueInit, TasksInit, TasksAssumption
<1>5. /\ Highest(Tasks) \in Tasks
      /\ \A u \in Tasks : uxPriority[u] <= uxPriority[Highest(Tasks)]
  BY <1>4, HighestFacts
<1>6. /\ kernel.pxCurrentTCB = Highest(Tasks)
      /\ kernel.xStateListItem = [t \in Tasks |-> "ready"]
      /\ kernel.xEventListItem = [t \in Tasks |-> "none"]
      /\ kernel.xPendedTicks = 0 /\ kernel.uxSchedulerSuspended = 0
      /\ kernel \in KernelType
  <2>1. InitialTick \in Ticks /\ 0 \in Ticks /\ portMAX_DELAY \in Ticks
    BY TickFacts, TasksAssumption DEF TasksAssumption
  <2> QED
    BY <1>5, <2>1 DEF QueueInit, TasksInit, KernelType
<1>7. \A t \in Tasks : kernel.xStateListItem[t] = "ready" /\ kernel.xEventListItem[t] = "none"
  BY <1>6
<1>8. KernelSound(kernel)
  <2>1. Top(kernel)
    BY <1>5, <1>6 DEF Top, Ready
  <2>2. TimesSound(kernel)
    BY <1>7 DEF TimesSound
  <2>3. Waiting(kernel, "pending") = {}
    BY <1>7 DEF Waiting
  <2> QED
    BY <1>4, <1>6, <1>7, <2>1, <2>2, <2>3 DEF KernelSound, ListsKept, Served, Ready
<1>9. \A t \in Tasks : pc[t] = "app" /\ call[t] = NoCall
  BY <1>4
<1>10. FlowSound
  <2>1. NoCall \in CallType /\ NoCall.op # "overwrite" /\ NoCall.xTicksToWait = 0
    BY NoCallType
  <2>2. pc \in [Tasks -> Places] /\ call \in [Tasks -> CallType]
    BY <1>4, <2>1 DEF Places
  <2> QED
    BY <1>4, <1>5, <1>6, <1>9, <2>1, <2>2 DEF FlowSound, SuspendedPlaces, Unlocking
<1>11. QueueSound
  BY <1>1, <1>3, <1>5, <1>6, <1>9 DEF QueueSound
<1>12. RunnerReady
  BY <1>5, <1>6, <1>7 DEF RunnerReady
<1>13. WaitersSound
  BY <1>7 DEF WaitersSound
<1>14. AskedSound
  BY <1>9 DEF AskedSound
<1>15. NobodyLeft
  <2>1. \A list \in Lists : Waiting(kernel, list) = {}
    BY <1>7 DEF Waiting, Lists
  <2> QED
    BY <2>1 DEF NobodyLeft, Enough
<1>16. Calling
  BY <1>9 DEF Calling, Free
<1> QED
  BY <1>8, <1>10, <1>11, <1>12, <1>13, <1>14, <1>15, <1>16 DEF IInv

-----------------------------------------------------------------------------
(* The theorems.                                                            *)

\* The inductive invariant: lists, locks and calls agree wherever a task is in a
\* call, and no task waits for more than those that will look again can take.
THEOREM Invariant == Spec => [](IInv /\ Calling)
<1>1. QueueInit => IInv /\ Calling
  BY InitSound
<1>2. (IInv /\ Calling) /\ [Next]_vars => (IInv /\ Calling)'
  BY NextKeeps
<1> QED
  BY <1>1, <1>2, PTL DEF Spec

\* Task lists, event lists, locks and the next unblock time agree.
THEOREM ListsAreSound == Spec => []ListsSound
<1>1. IInv => ListsSound
  <2> SUFFICES ASSUME IInv PROVE ListsSound
    OBVIOUS
  <2>1. KernelSound(kernel) /\ ListsKept(kernel) /\ kernel \in KernelType /\ FlowSound /\ QueueSound
    BY DEF IInv, KernelSound, ListsKept
  <2>2. TypeOK
    <3>1. queue \in QueueType(queue.uxLength) /\ queue.uxLength \in Lengths
      BY <2>1 DEF QueueSound
    <3> QED
      BY <2>1, <3>1 DEF TypeOK, QueueType
  <2>3. NoTaskOverdue
    BY <2>1 DEF ListsKept, TimesSound, NoTaskOverdue
  <2>4. PendingIsMoved
    BY <2>1 DEF KernelSound, ListsKept, PendingIsMoved
  <2>5. LockedIsSuspended
    BY <2>1 DEF FlowSound, QueueSound, LockedIsSuspended, SuspendedPlaces, Unlocking
  <2> QED
    BY <2>2, <2>3, <2>4, <2>5 DEF ListsSound
<1> QED
  BY <1>1, Invariant, PTL

\* Application code executes in the ready task of highest priority: no yield that
\* xTaskRemoveFromEventList, xTaskResumeAll or the tick asks for is lost.
THEOREM HighestTaskRuns == Spec => []HighestRuns
<1>1. IInv => HighestRuns
  <2> SUFFICES ASSUME IInv, ~kernel.xPendSV, pc[kernel.pxCurrentTCB] \in {"app", "try"}
               PROVE  kernel.pxCurrentTCB = Highest(Ready(kernel))
    BY DEF HighestRuns
  <2> DEFINE t == kernel.pxCurrentTCB
  <2>1. KernelSound(kernel) /\ kernel \in KernelType /\ FlowSound /\ RunnerReady
    BY DEF IInv, KernelSound, ListsKept
  <2>2. t \in Tasks /\ Ready(kernel) \in SUBSET Tasks
    BY <2>1, KernelFields
  <2>3. Top(kernel)
    BY <2>1 DEF KernelSound, Served, FlowSound, SuspendedPlaces, Unlocking
  <2>4. t \in Ready(kernel)
    BY <2>1, <2>2 DEF RunnerReady, Runs, Ready
  <2>5. /\ Highest(Ready(kernel)) \in Ready(kernel)
        /\ uxPriority[t] <= uxPriority[Highest(Ready(kernel))]
    BY <2>2, <2>4, HighestFacts
  <2>6. uxPriority[Highest(Ready(kernel))] <= uxPriority[t]
    BY <2>3, <2>5 DEF Top
  <2>7. Highest(Ready(kernel)) \in Tasks
    BY <2>2, <2>5
  <2>8. uxPriority[t] \in Nat /\ uxPriority[Highest(Ready(kernel))] \in Nat
    BY <2>2, <2>7, TasksAssumption DEF TasksAssumption
  <2>9. uxPriority[t] = uxPriority[Highest(Ready(kernel))]
    BY <2>5, <2>6, <2>8
  <2> QED
    BY <2>2, <2>7, <2>9, TasksAssumption DEF TasksAssumption
<1> QED
  BY <1>1, Invariant, PTL

\* Where only queues of one message are reset, no task is left waiting for what is
\* there: enough tasks will look again, or the lock counts will unblock them.
THEOREM NobodyIsStranded ==
  ASSUME ResetLengths \subseteq {1}
  PROVE  Spec => []NobodyStranded
<1>1. IInv => NobodyStranded
  BY DEF IInv, NobodyLeft, Enough, ResetsFit, Lists, NobodyStranded
<1> QED
  BY <1>1, Invariant, PTL
=============================================================================
