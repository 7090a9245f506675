---------------------------- MODULE MCUcosMutex -----------------------------
(* Constants of UcosMutex for TLC: two or three tasks above the idle task   *)
(* and a mutex whose ceiling is above every task that uses it.              *)
EXTENDS UcosMutexService, TLC

CONSTANTS hi, mid, lo, idle, m1, m2

TwoTasks == {hi, lo, idle}
TwoTaskList == <<lo, hi>>
ThreeTasks == {hi, mid, lo, idle}
ThreeTaskList == <<lo, mid, hi>>
TwoPrios == (hi :> 1) @@ (lo :> 2) @@ (idle :> 3)
ThreePrios == (hi :> 1) @@ (mid :> 2) @@ (lo :> 3) @@ (idle :> 4)

OneMutex == {m1}
NoEvents == <<>>
CeilingZero == (m1 :> 0)
NoCeilings == {}

TwoEvents == {m1, m2}
OneFree == <<m2>>
CeilingsZero == (m1 :> 0) @@ (m2 :> 0)
NewCeilings == {0, OS_PRIO_MUTEX_CEIL_DIS}

CallsOf(H, M, L) == (hi :> H) @@ (mid :> M) @@ (lo :> L) @@ (idle :> {})

\* Waits time out, owners delay, and ISRs suspend owners and waiters.
UserCalls == {"OSMutexPend", "OSMutexPost", "OSTimeDly"}
SharingCalls == CallsOf(UserCalls, UserCalls, UserCalls \cup {"OSMutexAccept"})
SuspendResume == {"OSTaskSuspend", "OSTaskResume"}

\* The same tasks lock the scheduler, and ISRs end delays.
LockCalls == UserCalls \cup {"OSSchedLock"}
ResumeDly == {"OSTimeDlyResume"}

\* hi creates and uses mutexes, mid and lo delete them and lock the scheduler.
LockDeleteCalls ==
  CallsOf(UserCalls \cup {"OSMutexCreate"}, UserCalls \cup {"OSMutexDel", "OSSchedLock"},
          LockCalls \cup {"OSMutexDel"})
NoCalls == {}

\* mid computes and never waits for anything but a delay.
InversionCalls == CallsOf(UserCalls, {"OSTimeDly"}, UserCalls)

\* lo suspends tasks by their priorities.
SuspendingCalls == CallsOf(UserCalls, {}, UserCalls \cup {"OSTaskSuspend"})

\* hi deletes a mutex it uses.
UserDeletesCalls == CallsOf(UserCalls \cup {"OSMutexDel"}, {}, UserCalls)
=============================================================================
