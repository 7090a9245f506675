--------------------------- MODULE MessageChannel ---------------------------
(***************************************************************************)
(* What a message queue or a mailbox promises to the tasks that use it,     *)
(* without ring buffers, ready lists, timers or context switches:           *)
(*   - messages leave in the order in which they came, those posted to the  *)
(*     front first, and none is lost, duplicated or changed but by a flush; *)
(*   - a message is kept only if nobody waits, and a post that finds the    *)
(*     channel full has no effect;                                          *)
(*   - a message for a waiter goes to the one of highest priority, or to    *)
(*     all of them, and is the one the caller gets;                         *)
(*   - a wait ends by one message, a timeout or an abort, or because the    *)
(*     caller waits for something else too and that came first; a waiter    *)
(*     that timed out and has not returned yet may still be served.         *)
(***************************************************************************)
EXTENDS Integers, Sequences

CONSTANTS
  Proc,     \* the callers
  Message,  \* the messages
  None,     \* no message
  Cap       \* how many messages the channel keeps

VARIABLES
  content,  \* the messages kept, the next one to be taken first
  status,   \* per caller: where it stands, and the message handed to it
  prio      \* per caller: its priority, 0 the highest

At(s) == {p \in Proc : status[p].at \in s}

Waiters == At({"waiting", "timedout"})

Becomes(S, s, m) ==
  /\ status' = [p \in Proc |-> IF p \in S THEN [at |-> s, msg |-> m] ELSE status[p]]
  /\ UNCHANGED <<content, prio>>

\* A call serves the waiter of highest priority, or all of them.
Served(S) ==
  S = Waiters \/ \E p \in Waiters : S = {p} /\ \A q \in Waiters : prio[p] <= prio[q]

Init ==
  /\ content = <<>>
  /\ status = [p \in Proc |-> [at |-> "idle", msg |-> None]]
  /\ prio \in [Proc -> Nat]

Take == content # <<>> /\ content' = Tail(content) /\ UNCHANGED <<status, prio>>

Keep(m) ==
  /\ Waiters = {}
  /\ Len(content) < Cap
  /\ content' \in {Append(content, m), <<m>> \o content}
  /\ UNCHANGED <<status, prio>>

Flush == content' = <<>> /\ UNCHANGED <<status, prio>>

\* The channel is deleted; a new one may take its place.
Close ==
  /\ content' = <<>>
  /\ status' = [p \in Proc |-> IF p \in Waiters THEN [at |-> "aborted", msg |-> None]
                                                ELSE status[p]]
  /\ UNCHANGED prio

Wait(p) == content = <<>> /\ p \in At({"idle"}) /\ Becomes({p}, "waiting", None)

Hand(S, m) == Served(S) /\ Becomes(S, "received", m)

Abort(S) == Served(S) /\ Becomes(S, "aborted", None)

TimeOut(p) == p \in At({"waiting"}) /\ Becomes({p}, "timedout", None)

ServedElsewhere(S) == Becomes(S, "idle", None)

Return(p) ==
  p \in At({"received", "timedout", "aborted"}) /\ Becomes({p}, "idle", None)

Reprioritise == prio' \in [Proc -> Nat] /\ UNCHANGED <<content, status>>

Next ==
  \/ Take
  \/ Flush
  \/ Close
  \/ \E m \in Message : Keep(m)
  \/ \E p \in Proc : Wait(p) \/ TimeOut(p) \/ Return(p)
  \/ \E S \in SUBSET Waiters \ {{}} :
       \/ \E m \in Message : Hand(S, m)
       \/ Abort(S)
       \/ ServedElsewhere(S)
  \/ Reprioritise

Spec == Init /\ [][Next]_<<content, status, prio>>
=============================================================================
