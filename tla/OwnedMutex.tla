----------------------------- MODULE OwnedMutex -----------------------------
(***************************************************************************)
(* What a mutex promises to the tasks that use it, without ready lists,     *)
(* ceilings, timers or context switches:                                    *)
(*   - it has at most one owner, and only the owner releases it;            *)
(*   - a release hands it to the waiter of highest priority, if there is    *)
(*     one, and is never lost to a waiter that timed out meanwhile;         *)
(*   - a pend that returns with success returns to the owner;               *)
(*   - nobody's priority is changed while he waits for it.                  *)
(***************************************************************************)
EXTENDS Integers

CONSTANTS
  Proc,     \* the callers
  NoOne     \* the owner of a free mutex

VARIABLES
  owner,
  status,   \* per caller: where it stands with this mutex
  prio      \* per caller: its priority, 0 the highest

Status == {"idle", "waiting", "granted", "timedout"}

Waiters == {p \in Proc : status[p] \in {"waiting", "timedout"}}

First(p) == p \in Waiters /\ \A q \in Waiters : prio[p] <= prio[q]

Moves(p, from, to) ==
  /\ status[p] \in from
  /\ status' = [status EXCEPT ![p] = to]

Init ==
  /\ owner = NoOne
  /\ status = [p \in Proc |-> "idle"]
  /\ prio \in [Proc -> Nat]

Acquire(p) ==
  /\ owner = NoOne
  /\ status[p] = "idle"
  /\ owner' = p
  /\ UNCHANGED <<status, prio>>

\* At most p is given another priority.
OthersKeepPrio(p) ==
  /\ prio' \in [Proc -> Nat]
  /\ \A q \in Proc \ {p} : prio'[q] = prio[q]

\* The owner may be raised, so that the waiter need not wait for tasks between
\* them.
Wait(p) ==
  /\ owner \notin {NoOne, p}
  /\ Moves(p, {"idle"}, "waiting")
  /\ OthersKeepPrio(owner)
  /\ UNCHANGED owner

Release(p) ==
  /\ owner = p
  /\ status[p] = "idle"
  /\ \/ \E w \in Proc : First(w) /\ owner' = w /\ status' = [status EXCEPT ![w] = "granted"]
     \/ Waiters = {} /\ owner' = NoOne /\ UNCHANGED status
  /\ OthersKeepPrio(owner)

TimeOut(p) == Moves(p, {"waiting"}, "timedout") /\ UNCHANGED <<owner, prio>>

Return(p) ==
  /\ Moves(p, {"granted", "timedout"}, "idle")
  /\ status[p] = "granted" => owner = p
  /\ UNCHANGED <<owner, prio>>

\* Another mutex may give its own owner another priority: a caller that has
\* nothing to do with this one.
Reprioritise(p) ==
  /\ owner # p
  /\ status[p] = "idle"
  /\ OthersKeepPrio(p)
  /\ UNCHANGED <<owner, status>>

Next ==
  \E p \in Proc :
    Acquire(p) \/ Wait(p) \/ Release(p) \/ TimeOut(p) \/ Return(p) \/ Reprioritise(p)

Spec == Init /\ [][Next]_<<owner, status, prio>>
=============================================================================
