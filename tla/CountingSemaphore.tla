------------------------- MODULE CountingSemaphore --------------------------
(***************************************************************************)
(* What a counting semaphore promises to the tasks that use it, without     *)
(* ready lists, wait lists, timers or context switches:                     *)
(*   - a pend that returns with success has taken one token, and a post is  *)
(*     never lost: it raises the count, or it gives its token to a waiter;  *)
(*   - the waiter served is the one of highest priority;                    *)
(*   - a wait ends by a grant, a timeout or an abort, once;                 *)
(*   - a waiter that timed out and has not returned yet may still be        *)
(*     granted a token, and then returns with success.                      *)
(***************************************************************************)
EXTENDS Integers

CONSTANTS
  Proc,     \* the callers
  MaxCnt    \* the largest count

VARIABLES
  value,    \* the number of tokens
  status,   \* per caller: where it stands with this semaphore
  prio      \* per caller: its priority, 0 the highest

Status == {"idle", "asking", "waiting", "granted", "timedout", "aborted", "posting"}

Waiters == {p \in Proc : status[p] \in {"waiting", "timedout"}}

First(p) == p \in Waiters /\ \A q \in Waiters : prio[p] <= prio[q]

Moves(p, from, to) ==
  /\ status[p] \in from
  /\ status' = [status EXCEPT ![p] = to]

Init ==
  /\ value \in 0 .. MaxCnt
  /\ status = [p \in Proc |-> "idle"]
  /\ prio \in [Proc -> Nat]

Ask(p) == Moves(p, {"idle"}, "asking") /\ UNCHANGED <<value, prio>>

Take(p) ==
  /\ Moves(p, {"asking"}, "idle")
  /\ value > 0
  /\ value' = value - 1
  /\ UNCHANGED prio

Wait(p) ==
  /\ Moves(p, {"asking"}, "waiting")
  /\ value = 0
  /\ UNCHANGED <<value, prio>>

\* Take a token without waiting.
Accept ==
  /\ value > 0
  /\ value' = value - 1
  /\ UNCHANGED <<status, prio>>

StartPost(p) == Moves(p, {"idle"}, "posting") /\ UNCHANGED <<value, prio>>

\* The effect of a post; poster is the status of all after the poster left.
Deliver(poster) ==
  /\ \/ /\ \E w \in Proc : First(w) /\ status' = [poster EXCEPT ![w] = "granted"]
        /\ UNCHANGED value
     \/ /\ Waiters = {}
        /\ status' = poster
        /\ value' = IF value < MaxCnt THEN value + 1 ELSE value
  /\ UNCHANGED prio

Post(p) == status[p] = "posting" /\ Deliver([status EXCEPT ![p] = "idle"])

PostFromIsr == Deliver(status)

TimeOut(p) == Moves(p, {"waiting"}, "timedout") /\ UNCHANGED <<value, prio>>

Abort(S) ==
  /\ S = Waiters \/ \E w \in Proc : First(w) /\ S = {w}
  /\ status' = [p \in Proc |-> IF p \in S THEN "aborted" ELSE status[p]]
  /\ UNCHANGED <<value, prio>>

Return(p) ==
  /\ Moves(p, {"granted", "timedout", "aborted"}, "idle")
  /\ UNCHANGED <<value, prio>>

Set(n) ==
  /\ value > 0 \/ Waiters = {}
  /\ value' = n
  /\ UNCHANGED <<status, prio>>

Reprioritise == prio' \in [Proc -> Nat] /\ UNCHANGED <<value, status>>

Next ==
  \/ \E p \in Proc :
       \/ Ask(p) \/ Take(p) \/ Wait(p) \/ StartPost(p) \/ Post(p)
       \/ TimeOut(p) \/ Return(p)
  \/ Accept
  \/ PostFromIsr
  \/ \E S \in SUBSET Waiters : Abort(S)
  \/ \E n \in 0 .. MaxCnt : Set(n)
  \/ Reprioritise

Spec == Init /\ [][Next]_<<value, status, prio>>
=============================================================================
