----------------------------- MODULE MCUcosSem ------------------------------
(* Constants of UcosSem for TLC: two or three tasks above the idle task, one *)
(* or two semaphores without a token.  With two tasks there is a priority   *)
(* that no task has at the start.                                           *)
EXTENDS UcosSemService, TLC

CONSTANTS hi, mid, lo, idle, e1, e2

TwoTasks == {hi, lo, idle}
TwoPrios == (hi :> 0) @@ (lo :> 1) @@ (idle :> 3)
TwoTaskList == <<lo, hi>>
ThreeTasks == {hi, mid, lo, idle}
ThreePrios == (hi :> 0) @@ (mid :> 1) @@ (lo :> 2) @@ (idle :> 3)
ThreeTaskList == <<lo, mid, hi>>
OneSem == {e1}
TwoEvents == {e1, e2}
NoEvents == <<>>
NoTokens == (e1 :> 0)
NoTokensTwice == (e1 :> 0) @@ (e2 :> 0)

\* hi calls the services H, lo the services L.
CallsOf(H, L) == (hi :> H) @@ (lo :> L) @@ (idle :> {})

\* Everything but creation and deletion; hi gives tasks other priorities as well.
FixedServices ==
  {"OSTimeDly", "OSTimeDlyResume", "OSTaskSuspend", "OSTaskResume", "OSSchedLock",
   "OSSemPend", "OSSemPost", "OSSemPendAbort", "OSSemAccept", "OSSemSet"}
AllCalls ==
  CallsOf((FixedServices \ {"OSSchedLock"}) \cup {"OSTaskChangePrio"}, FixedServices)
IsrServices ==
  {"OSTimeDlyResume", "OSTaskSuspend", "OSTaskResume", "OSSemPost", "OSSemPendAbort"}

\* hi and mid pend, with timeouts or without, on semaphores that lo deletes and
\* hi creates anew: the control blocks change hands.
LifeCalls ==
  (hi :> {"OSSemPend", "OSSemCreate"})
    @@ (mid :> {"OSSemPend"})
    @@ (lo :> {"OSSemPost", "OSSemDel"})
    @@ (idle :> {})
NoIsrCalls == {}

\* Changes of priority from an ISR.
IsrPrioCalls == CallsOf({"OSTimeDly"}, {"OSTimeDly"})
PrioOnly == {"OSTaskChangePrio"}
=============================================================================
