----------------------------- MODULE MCUcosFlag -----------------------------
(* Constants of UcosFlag for TLC: three tasks above the idle task, which are *)
(* deleted and created anew, and a group of two flags.                      *)
EXTENDS UcosFlag, TLC

CONSTANTS hi, mid, lo, idle, g1, g2, a, b

Tasks == {hi, mid, lo, idle}
Prios == (hi :> 0) @@ (mid :> 1) @@ (lo :> 2) @@ (idle :> 3)
\* A priority to spare.
SparePrios == (hi :> 0) @@ (mid :> 1) @@ (lo :> 3) @@ (idle :> 4)
TaskList == <<lo, mid, hi>>
NoEvents == <<>>
OneGroup == <<g1>>
TwoGroups == <<g1, g2>>
NoGroups == {}
Created1 == {g1}
TwoFlags == {a, b}

Wants(flags, set, all, consume) ==
  [flags |-> flags, set |-> set, all |-> all, consume |-> consume]

\* Both flags, whichever comes last; b, consumed; a cleared.
Needs ==
  {Wants({a, b}, TRUE, TRUE, FALSE), Wants({b}, TRUE, FALSE, TRUE),
   Wants({a}, FALSE, TRUE, FALSE)}
OneNeed == {Wants({a}, TRUE, TRUE, FALSE)}

P(flags, set) == [flags |-> flags, set |-> set]
SetOrClear == {P({a}, TRUE), P({b}, TRUE), P({a}, FALSE)}
SetOne == {P({a}, TRUE)}

CallsOf(H, M, L) == (hi :> H) @@ (mid :> M) @@ (lo :> L) @@ (idle :> {})

\* hi and mid wait while lo posts, suspends them, and renews the group.
FlagCalls ==
  CallsOf({"OSFlagPend"}, {"OSFlagPend", "OSTimeDly"},
          {"OSFlagAccept", "OSFlagDel", "OSFlagCreate", "OSTaskSuspend", "OSTaskResume",
           "OSTimeDlyResume"})
IsrPosts == {"OSFlagPost"}

\* lo deletes tasks, and hi and lo create tasks in their place.
LifeCalls ==
  CallsOf({"OSFlagPend", "OSTaskCreate", "OSSchedLock", "OSSchedUnlock"},
          {"OSTimeDly"},
          {"OSTaskDel", "OSTaskCreate"})

NoPend == {"OS_DEL_NO_PEND"}
DelAlways == {"OS_DEL_ALWAYS"}

TheGroup ==
  INSTANCE EventFlags
    WITH Proc <- Task,
         None <- Null,
         flags <- OSFlagFlags[g1],
         status <- [t \in Task |-> FlagStatus(t, g1)]

\* The group g1 behaves as an event flag group.
IsEventFlags == TheGroup!Spec
=============================================================================
