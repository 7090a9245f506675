--------------------------- MODULE UcosSemService ---------------------------
(***************************************************************************)
(* What one semaphore of UcosSem promises its users: the control block      *)
(* TheSem, used through the services of os_sem.c and neither deleted nor    *)
(* created anew, implements CountingSemaphore.                              *)
(***************************************************************************)
EXTENDS UcosSem

CONSTANT TheSem   \* the semaphore observed

ASSUME ServiceAssumption == TheSem \in Event

\* Where each task stands with it.
TheStatus == [t \in Task |-> SemStatus(t, TheSem)]

TheSemaphore ==
  INSTANCE CountingSemaphore
    WITH Proc <- Task,
         value <- OSEventCnt[TheSem],
         status <- TheStatus,
         prio <- OSTCBPrio

\* Whatever ticks, interrupts, switches and other services come between the
\* critical sections, the semaphore behaves as a counting semaphore.
IsCountingSemaphore == TheSemaphore!Spec
=============================================================================
