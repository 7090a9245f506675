----------------------------- MODULE EventFlags -----------------------------
(***************************************************************************)
(* What an event flag group promises to the tasks that use it, without wait  *)
(* list, nodes, timers or context switches:                                 *)
(*   - a post changes the flags and releases, in one step, every waiter      *)
(*     whose condition they then meet, with the flags that met it, and no    *)
(*     other;                                                               *)
(*   - a wait ends by a post, by its timeout or by the end of the caller; a  *)
(*     waiter that timed out and has not returned yet may still be released; *)
(*   - a caller that was released consumes what it was released for when it  *)
(*     returns, not before.                                                 *)
(***************************************************************************)
EXTENDS Integers

CONSTANTS
  Proc,   \* the callers
  Flag,   \* the flags of the group
  Need,   \* the conditions callers wait for
  None    \* no condition

VARIABLES
  flags,  \* the flags that are set
  status  \* per caller: where it stands, its condition, and the flags it got

vars == <<flags, status>>

\* The flags among those a condition names that are as it wants them.
Met(need, set) == IF need.set THEN set \cap need.flags ELSE need.flags \ set

Satisfied(need, set) ==
  IF need.all THEN Met(need, set) = need.flags ELSE Met(need, set) # {}

\* The flags without those a caller consumes of the ones it got.
Consumed(need, set, got) ==
  IF ~need.consume THEN set ELSE IF need.set THEN set \ got ELSE set \cup got

NoCall == [at |-> "idle", need |-> None, got |-> {}]

Waiting(p) == status[p].at \in {"waiting", "timedout"}

Init == flags \in SUBSET Flag /\ status = [p \in Proc |-> NoCall]

Take(need) ==
  /\ Satisfied(need, flags)
  /\ flags' = Consumed(need, flags, Met(need, flags))
  /\ UNCHANGED status

Wait(p, need) ==
  /\ status[p] = NoCall
  /\ ~Satisfied(need, flags)
  /\ status' = [status EXCEPT ![p] = [at |-> "waiting", need |-> need, got |-> {}]]
  /\ UNCHANGED flags

Post ==
  \E S \in SUBSET Flag :
    /\ flags' \in {flags \cup S, flags \ S}
    /\ status' = [p \in Proc |->
         IF Waiting(p) /\ Satisfied(status[p].need, flags')
           THEN [status[p] EXCEPT !.at = "released", !.got = Met(status[p].need, flags')]
           ELSE status[p]]

TimeOut(p) ==
  /\ status[p].at = "waiting"
  /\ status' = [status EXCEPT ![p].at = "timedout"]
  /\ UNCHANGED flags

Return(p) ==
  /\ \/ /\ status[p].at = "released"
        /\ flags' = Consumed(status[p].need, flags, status[p].got)
     \/ status[p].at = "timedout" /\ UNCHANGED flags
  /\ status' = [status EXCEPT ![p] = NoCall]

End(p) == status' = [status EXCEPT ![p] = NoCall] /\ UNCHANGED flags

\* The group is deleted while nobody waits, or created.
Renew ==
  /\ \A p \in Proc : ~Waiting(p)
  /\ flags' \in SUBSET Flag
  /\ UNCHANGED status

Next ==
  \/ \E need \in Need : Take(need)
  \/ Post
  \/ Renew
  \/ \E p \in Proc :
       \/ \E need \in Need : Wait(p, need)
       \/ TimeOut(p) \/ Return(p) \/ End(p)

Spec == Init /\ [][Next]_vars
=============================================================================
