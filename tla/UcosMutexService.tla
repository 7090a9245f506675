-------------------------- MODULE UcosMutexService --------------------------
(***************************************************************************)
(* What one mutex of UcosMutex promises its users: the control block        *)
(* TheMutex, created before OSStart and not deleted, implements OwnedMutex, *)
(* whatever the tasks do with other mutexes.                                *)
(***************************************************************************)
EXTENDS UcosMutex

CONSTANT TheMutex   \* the mutex observed

ASSUME ServiceAssumption == TheMutex \in InitMutex

\* Where each task stands with it.
TheStatus == [t \in Task |-> MutexStatus(t, TheMutex)]

TheOwnedMutex ==
  INSTANCE OwnedMutex
    WITH Proc <- Task, NoOne <- Null,
         owner <- OSEventPtr[TheMutex],
         status <- TheStatus,
         prio <- OSTCBPrio

\* Whatever ticks, interrupts, switches and other mutexes come between the
\* critical sections, the control block behaves as an owned mutex.
IsOwnedMutex == TheOwnedMutex!Spec
=============================================================================
