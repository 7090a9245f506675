------------------------------- MODULE UcosTmr -------------------------------
(***************************************************************************)
(* The software timers of uC/OS-II (uC-OS2/Source/os_tmr.c): the wheel of    *)
(* doubly linked lists, the pool of OS_TMRs, the timer task and its signal  *)
(* semaphore.                                                               *)
(*                                                                         *)
(* Every service and every turn of the timer task runs between OSSchedLock  *)
(* and OSSchedUnlock, so that only interrupts, and the callbacks the task    *)
(* or OSTmrStop calls in between, come between their steps.  An interrupt    *)
(* can do nothing but signal: the other services refuse it.                  *)
(*                                                                         *)
(* The signal semaphore is a counter, which UcosSem shows it to be; OSTmrSem *)
(* is created and never used.                                                *)
(*                                                                         *)
(* As in UcosCore, a mutant is the definition that follows it with a bug.   *)
(***************************************************************************)
EXTENDS Integers, SequencesExt

CONSTANTS
  OSTmrTbl,              \* the OS_TMRs, in the order of the table
  Null,
  OS_TMR_CFG_WHEEL_SIZE,
  TimeRange,             \* OSTmrTime counts modulo this: 2^32
  MaxSignals,            \* the largest count of a semaphore: 65535
  Setting,               \* the arguments applications pass to OSTmrCreate
  CallbacksSpareNext,    \* callbacks leave the next timer of the turn alone
  MaxCallbacks           \* bound on callbacks in progress

Timer == Range(OSTmrTbl)

Spoke == 0 .. OS_TMR_CFG_WHEEL_SIZE - 1

\* ucos_ii.h refuses a table of more than 65500 timers (line 1801).
ASSUME TmrAssumption ==
  /\ OSTmrTbl \in Seq(Timer) /\ IsInjective(OSTmrTbl)
  /\ Len(OSTmrTbl) > 0 /\ Len(OSTmrTbl) <= 65500
  /\ Null \notin Timer
  /\ OS_TMR_CFG_WHEEL_SIZE \in Nat \ {0} /\ TimeRange \in Nat \ {0}
  /\ MaxSignals \in Nat
  /\ Setting \subseteq [opt : {"ONE_SHOT", "PERIODIC"}, dly : 0 .. TimeRange - 1,
                        period : 0 .. TimeRange - 1, callback : BOOLEAN]

VARIABLES
  tmr,            \* per OS_TMR: its fields, OSTmrCallback by whether there is one
  OSTmrWheelTbl,  \* per spoke: OSTmrFirst and OSTmrEntries
  OSTmrFreeList,
  OSTmrUsed,
  OSTmrFree,
  OSTmrTime,
  OSTmrSemSignal, \* OSEventCnt of the semaphore
  ptmr,           \* the timer OSTmr_Task looks at next in its turn, or Null
  callbacks       \* the timers whose callbacks run, the innermost first

poolVars == <<OSTmrFreeList, OSTmrUsed, OSTmrFree>>
timeVars == <<OSTmrTime, OSTmrSemSignal>>
vars == <<tmr, OSTmrWheelTbl, poolVars, timeVars, ptmr, callbacks>>

-----------------------------------------------------------------------------
(* The wheel, as a pair [tmr, wheel].                                       *)

SpokeOf(time) == time % OS_TMR_CFG_WHEEL_SIZE

\* The ticks to the first expiration after OSTmrStart.
Delay(timer) == IF timer.OSTmrDly = 0 THEN timer.OSTmrPeriod ELSE timer.OSTmrDly

\* OSTmrMatch of a timer that expires in n ticks.
MatchIn(n) == (OSTmrTime + n) % TimeRange

\* Mutant: the timer that was first keeps its OSTmrPrev.
OSTmr_Link_NoPrev(w, t, n) ==
  LET match == MatchIn(n)
      spoke == SpokeOf(match)
      first == w.wheel[spoke].OSTmrFirst
  IN  [tmr |-> [w.tmr EXCEPT ![t].OSTmrState = "RUNNING", ![t].OSTmrMatch = match,
                             ![t].OSTmrNext = first, ![t].OSTmrPrev = Null],
       wheel |-> [w.wheel EXCEPT ![spoke].OSTmrFirst = t,
                                 ![spoke].OSTmrEntries = @ + 1]]

\* Link t in front of the spoke it expires at in n ticks.
OSTmr_Link(w, t, n) ==
  LET match == MatchIn(n)
      spoke == SpokeOf(match)
      first == w.wheel[spoke].OSTmrFirst
  IN  [tmr |-> [u \in Timer |->
         IF u = t THEN [w.tmr[t] EXCEPT !.OSTmrState = "RUNNING", !.OSTmrMatch = match,
                                        !.OSTmrNext = first, !.OSTmrPrev = Null]
         ELSE IF u = first THEN [w.tmr[u] EXCEPT !.OSTmrPrev = t]
         ELSE w.tmr[u]],
       wheel |-> [w.wheel EXCEPT
         ![spoke] = [OSTmrFirst |-> t,
                     OSTmrEntries |-> IF first = Null THEN 1 ELSE @.OSTmrEntries + 1]]]

\* Take t off its spoke.  The predecessor of a timer that is on none is NULL:
\* what is then written at that address is no OS_TMR.
OSTmr_Unlink(w, t) ==
  LET spoke == SpokeOf(w.tmr[t].OSTmrMatch)
      next  == w.tmr[t].OSTmrNext
      prev  == w.tmr[t].OSTmrPrev
      isFirst == w.wheel[spoke].OSTmrFirst = t
  IN  [tmr |-> [u \in Timer |->
         IF u = t THEN [w.tmr[t] EXCEPT !.OSTmrState = "STOPPED",
                                        !.OSTmrNext = Null, !.OSTmrPrev = Null]
         ELSE IF u = next THEN [w.tmr[u] EXCEPT !.OSTmrPrev = IF isFirst THEN Null ELSE prev]
         ELSE IF u = prev /\ ~isFirst THEN [w.tmr[u] EXCEPT !.OSTmrNext = next]
         ELSE w.tmr[u]],
       wheel |-> [w.wheel EXCEPT
         ![spoke] = [OSTmrFirst |-> IF isFirst THEN next ELSE @.OSTmrFirst,
                     OSTmrEntries |-> (@.OSTmrEntries - 1) % 2^16]]]

Wheel == [tmr |-> tmr, wheel |-> OSTmrWheelTbl]

WheelBecomes(w) == tmr' = w.tmr /\ OSTmrWheelTbl' = w.wheel

-----------------------------------------------------------------------------
(* The pool.                                                               *)

Unused ==
  [OSTmrState |-> "UNUSED", OSTmrOpt |-> "NONE", OSTmrDly |-> 0, OSTmrPeriod |-> 0,
   OSTmrMatch |-> 0, OSTmrCallback |-> FALSE, OSTmrNext |-> Null, OSTmrPrev |-> Null]

OSTmr_Alloc(t) ==
  /\ OSTmrFreeList = t /\ t # Null
  /\ OSTmrFreeList' = tmr[t].OSTmrNext
  /\ OSTmrUsed' = OSTmrUsed + 1
  /\ OSTmrFree' = OSTmrFree - 1

\* Mutant: OSTmrUsed is not brought up to date.
OSTmr_Free_Uncounted(w, t) ==
  /\ WheelBecomes([w EXCEPT !.tmr[t] = [Unused EXCEPT !.OSTmrDly = w.tmr[t].OSTmrDly,
                                                      !.OSTmrNext = OSTmrFreeList]])
  /\ OSTmrFreeList' = t
  /\ OSTmrFree' = OSTmrFree + 1
  /\ UNCHANGED OSTmrUsed

OSTmr_Free(w, t) ==
  /\ WheelBecomes([w EXCEPT !.tmr[t] = [Unused EXCEPT !.OSTmrDly = w.tmr[t].OSTmrDly,
                                                      !.OSTmrNext = OSTmrFreeList]])
  /\ OSTmrFreeList' = t
  /\ OSTmrUsed' = OSTmrUsed - 1
  /\ OSTmrFree' = OSTmrFree + 1

\* OSTmr_Init: all the timers are in the pool, in the order of the table.
Init ==
  /\ tmr = [t \in Timer |->
       LET ix == CHOOSE i \in DOMAIN OSTmrTbl : OSTmrTbl[i] = t
       IN  [Unused EXCEPT !.OSTmrNext =
              IF ix = Len(OSTmrTbl) THEN Null ELSE OSTmrTbl[ix + 1]]]
  /\ OSTmrWheelTbl = [s \in Spoke |-> [OSTmrFirst |-> Null, OSTmrEntries |-> 0]]
  /\ OSTmrFreeList = OSTmrTbl[1]
  /\ OSTmrUsed = 0
  /\ OSTmrFree = Len(OSTmrTbl)
  /\ OSTmrTime = 0
  /\ OSTmrSemSignal = 0
  /\ ptmr = Null
  /\ callbacks = <<>>

-----------------------------------------------------------------------------
(* The services.                                                           *)

\* Nobody holds the scheduler lock.
Unlocked == ptmr = Null /\ callbacks = <<>>

\* A task calls a service with t while no other holds the scheduler lock, or a
\* callback does.
MayUse(t) ==
  \/ Unlocked
  \/ callbacks # <<>> /\ (CallbacksSpareNext => t # ptmr)

Callback(t) == IF tmr[t].OSTmrCallback THEN <<t>> \o callbacks ELSE callbacks

Valid(s) == IF s.opt = "PERIODIC" THEN s.period # 0 ELSE s.dly # 0

OSTmrCreate(t, s) ==
  /\ MayUse(t)
  /\ Valid(s)
  /\ OSTmr_Alloc(t)
  /\ tmr' = [tmr EXCEPT ![t] =
       [@ EXCEPT !.OSTmrState = "STOPPED", !.OSTmrDly = s.dly, !.OSTmrPeriod = s.period,
                 !.OSTmrOpt = s.opt, !.OSTmrCallback = s.callback,
                 !.OSTmrNext = Null, !.OSTmrPrev = Null]]
  /\ UNCHANGED <<OSTmrWheelTbl, timeVars, ptmr, callbacks>>

OSTmrDel(t) ==
  /\ MayUse(t)
  /\ \/ tmr[t].OSTmrState = "RUNNING" /\ OSTmr_Free(OSTmr_Unlink(Wheel, t), t)
     \/ tmr[t].OSTmrState \in {"STOPPED", "COMPLETED"} /\ OSTmr_Free(Wheel, t)
  /\ UNCHANGED <<timeVars, ptmr, callbacks>>

OSTmrStart(t) ==
  /\ MayUse(t)
  /\ \/ /\ tmr[t].OSTmrState = "RUNNING"
        /\ WheelBecomes(OSTmr_Link(OSTmr_Unlink(Wheel, t), t, Delay(tmr[t])))
     \/ /\ tmr[t].OSTmrState \in {"STOPPED", "COMPLETED"}
        /\ WheelBecomes(OSTmr_Link(Wheel, t, Delay(tmr[t])))
  /\ UNCHANGED <<poolVars, timeVars, ptmr, callbacks>>

\* OSTmrStop, with an option to call the callback.
OSTmrStop(t) ==
  /\ MayUse(t)
  /\ tmr[t].OSTmrState = "RUNNING"
  /\ WheelBecomes(OSTmr_Unlink(Wheel, t))
  /\ \/ UNCHANGED callbacks
     \/ Len(callbacks) < MaxCallbacks /\ callbacks' = Callback(t)
  /\ UNCHANGED <<poolVars, timeVars, ptmr>>

\* The innermost callback returns, to OSTmr_Task or to OSTmrStop.
CallbackReturn ==
  /\ callbacks # <<>>
  /\ callbacks' = Tail(callbacks)
  /\ UNCHANGED <<tmr, OSTmrWheelTbl, poolVars, timeVars, ptmr>>

\* What OSTmrRemainGet returns for t.
OSTmrRemainGet(t) ==
  CASE tmr[t].OSTmrState = "RUNNING" -> (tmr[t].OSTmrMatch - OSTmrTime) % TimeRange
    [] tmr[t].OSTmrState = "STOPPED" -> IF tmr[t].OSTmrOpt = "PERIODIC" THEN Delay(tmr[t])
                                                                     ELSE tmr[t].OSTmrDly
    [] OTHER -> 0

-----------------------------------------------------------------------------
(* The timer task and the interrupts.                                       *)

\* A full semaphore refuses the signal, and the tick is lost to the timers.
OSTmrSignal ==
  /\ OSTmrSemSignal < MaxSignals
  /\ OSTmrSemSignal' = OSTmrSemSignal + 1
  /\ UNCHANGED <<tmr, OSTmrWheelTbl, poolVars, OSTmrTime, ptmr, callbacks>>

\* Mutant: OSTmrTime stops at its largest value.
OSTmr_Task_Tick_Saturates ==
  /\ Unlocked
  /\ OSTmrSemSignal > 0
  /\ OSTmrSemSignal' = OSTmrSemSignal - 1
  /\ OSTmrTime' = IF OSTmrTime = TimeRange - 1 THEN OSTmrTime ELSE OSTmrTime + 1
  /\ ptmr' = OSTmrWheelTbl[SpokeOf(OSTmrTime')].OSTmrFirst
  /\ UNCHANGED <<tmr, OSTmrWheelTbl, poolVars, callbacks>>

\* OSSemPend returns: the turn of the task for one tick begins.
OSTmr_Task_Tick ==
  /\ Unlocked
  /\ OSTmrSemSignal > 0
  /\ OSTmrSemSignal' = OSTmrSemSignal - 1
  /\ OSTmrTime' = (OSTmrTime + 1) % TimeRange
  /\ ptmr' = OSTmrWheelTbl[SpokeOf(OSTmrTime')].OSTmrFirst
  /\ UNCHANGED <<tmr, OSTmrWheelTbl, poolVars, callbacks>>

\* Mutant: a periodic timer starts over with its first delay.
Expired_FirstDelay(w, t) ==
  LET unlinked == OSTmr_Unlink(w, t)
  IN  IF w.tmr[t].OSTmrOpt = "PERIODIC" THEN OSTmr_Link(unlinked, t, Delay(w.tmr[t]))
                                        ELSE [unlinked EXCEPT !.tmr[t].OSTmrState = "COMPLETED"]

\* The wheel once t has expired.
Expired(w, t) ==
  LET unlinked == OSTmr_Unlink(w, t)
  IN  IF w.tmr[t].OSTmrOpt = "PERIODIC" THEN OSTmr_Link(unlinked, t, w.tmr[t].OSTmrPeriod)
                                        ELSE [unlinked EXCEPT !.tmr[t].OSTmrState = "COMPLETED"]

\* Mutant: the successor is read when the timer is already off the spoke.
OSTmr_Task_Visit_LateNext ==
  /\ ptmr # Null /\ callbacks = <<>>
  /\ \/ /\ tmr[ptmr].OSTmrMatch = OSTmrTime
        /\ WheelBecomes(Expired(Wheel, ptmr))
        /\ callbacks' = Callback(ptmr)
        /\ ptmr' = Expired(Wheel, ptmr).tmr[ptmr].OSTmrNext
     \/ /\ tmr[ptmr].OSTmrMatch # OSTmrTime
        /\ ptmr' = tmr[ptmr].OSTmrNext
        /\ UNCHANGED <<tmr, OSTmrWheelTbl, callbacks>>
  /\ UNCHANGED <<poolVars, timeVars>>

\* One round of the loop over the timers of the spoke.  The successor is read
\* before the timer is unlinked and its callback called.
OSTmr_Task_Visit ==
  /\ ptmr # Null /\ callbacks = <<>>
  /\ ptmr' = tmr[ptmr].OSTmrNext
  /\ \/ /\ tmr[ptmr].OSTmrMatch = OSTmrTime
        /\ WheelBecomes(Expired(Wheel, ptmr))
        /\ callbacks' = Callback(ptmr)
     \/ /\ tmr[ptmr].OSTmrMatch # OSTmrTime
        /\ UNCHANGED <<tmr, OSTmrWheelTbl, callbacks>>
  /\ UNCHANGED <<poolVars, timeVars>>

Next ==
  \/ \E t \in Timer :
       \/ \E s \in Setting : OSTmrCreate(t, s)
       \/ OSTmrDel(t)
       \/ OSTmrStart(t)
       \/ OSTmrStop(t)
  \/ CallbackReturn
  \/ OSTmrSignal
  \/ OSTmr_Task_Tick
  \/ OSTmr_Task_Visit

Spec == Init /\ [][Next]_vars

\* Ticks go on, callbacks return, and the timer task, which has a higher priority
\* than the users of timers, gets its turn when they release the scheduler.
Fairness ==
  /\ WF_vars(OSTmrSignal)
  /\ WF_vars(CallbackReturn)
  /\ WF_vars(OSTmr_Task_Visit)
  /\ SF_vars(OSTmr_Task_Tick)

FairSpec == Spec /\ Fairness

-----------------------------------------------------------------------------
(* Properties.                                                             *)

\* Every variable has its type.  Names the fields of OS_TMR and OS_TMR_WHEEL and
\* the counters of os_tmr.c.
TypeOK ==
  /\ tmr \in [Timer -> [OSTmrState : {"UNUSED", "STOPPED", "RUNNING", "COMPLETED"},
                        OSTmrOpt : {"NONE", "ONE_SHOT", "PERIODIC"},
                        OSTmrDly : 0 .. TimeRange - 1, OSTmrPeriod : 0 .. TimeRange - 1,
                        OSTmrMatch : 0 .. TimeRange - 1, OSTmrCallback : BOOLEAN,
                        OSTmrNext : Timer \cup {Null}, OSTmrPrev : Timer \cup {Null}]]
  /\ OSTmrWheelTbl \in [Spoke -> [OSTmrFirst : Timer \cup {Null}, OSTmrEntries : 0 .. 2^16 - 1]]
  /\ OSTmrFreeList \in Timer \cup {Null} /\ ptmr \in Timer \cup {Null}
  /\ OSTmrUsed \in Nat /\ OSTmrFree \in Nat
  /\ OSTmrTime \in 0 .. TimeRange - 1 /\ OSTmrSemSignal \in 0 .. MaxSignals
  /\ callbacks \in Seq(Timer)

\* The list that starts at first consists of the timers S, each once.
Chains(first, S) ==
  \E list \in SetToSeqs(S) :
    /\ first = IF S = {} THEN Null ELSE list[1]
    /\ \A i \in DOMAIN list :
         tmr[list[i]].OSTmrNext = IF i = Len(list) THEN Null ELSE list[i + 1]

\* Every spoke holds exactly the running timers that expire on it, linked in both
\* directions, and counts them: OSTmr_Link and OSTmr_Unlink, called by tasks,
\* callbacks and OSTmr_Task in any order, never lose a timer or link it twice.
WheelSound ==
  /\ TypeOK
  /\ \A s \in Spoke :
      LET on == {t \in Timer : tmr[t].OSTmrState = "RUNNING" /\ SpokeOf(tmr[t].OSTmrMatch) = s}
      IN  /\ Chains(OSTmrWheelTbl[s].OSTmrFirst, on)
          /\ OSTmrWheelTbl[s].OSTmrEntries = Cardinality(on)
          /\ \A t \in on : \A u \in on :
               tmr[t].OSTmrNext = u <=> tmr[u].OSTmrPrev = t
          /\ OSTmrWheelTbl[s].OSTmrFirst # Null =>
               tmr[OSTmrWheelTbl[s].OSTmrFirst].OSTmrPrev = Null

\* The pool holds exactly the timers not in use, whatever the order of OSTmrCreate
\* and OSTmrDel, and OSTmrUsed and OSTmrFree count both sides.
PoolSound ==
  LET unused == {t \in Timer : tmr[t].OSTmrState = "UNUSED"}
  IN  /\ Chains(OSTmrFreeList, unused)
      /\ OSTmrFree = Cardinality(unused)
      /\ OSTmrUsed = Cardinality(Timer) - OSTmrFree

\* The loop of OSTmr_Task never comes to a timer that is off the spoke it walks,
\* though callbacks have run since it read the link to that timer.
VisitedIsRunning ==
  ptmr # Null =>
    tmr[ptmr].OSTmrState = "RUNNING" /\ SpokeOf(tmr[ptmr].OSTmrMatch) = SpokeOf(OSTmrTime)

\* A one-shot timer does not run for ever, unless OSTmrStart restarts it again and
\* again: OSTmr_Task finds it although OSTmrTime wraps and the spokes are shared.
OneShotEnds ==
  \A t \in Timer :
    \/ []<>(tmr[t].OSTmrState # "RUNNING" \/ tmr[t].OSTmrOpt # "ONE_SHOT")
    \/ []<><<OSTmrStart(t)>>_vars
=============================================================================
