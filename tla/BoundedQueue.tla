---------------------------- MODULE BoundedQueue ----------------------------
(***************************************************************************)
(* What a queue of FreeRTOS promises to those who use it, without rings,   *)
(* locks, event lists, tick lists or context switches:                     *)
(*   - messages leave in the order in which they came, those sent to the   *)
(*     front first, and none is lost, duplicated or changed but by a reset *)
(*     or an overwriting call;                                             *)
(*   - a call takes effect once, when it succeeds, and gets the message    *)
(*     that stood first at that moment;                                    *)
(*   - a call that does not wait fails only if it finds the queue full, or *)
(*     empty; one that waits fails only when its time has passed since it  *)
(*     found it so; one that waits for ever does not fail.                 *)
(***************************************************************************)
EXTENDS Integers, Sequences

CONSTANTS
  Proc,     \* those who call
  Handler,  \* the interrupt handlers, which never wait
  Message,  \* the messages
  Forever   \* the time of a call that waits for ever

VARIABLES
  content,  \* the messages, the first to be taken first
  len,      \* how many the queue holds
  time,     \* the clock
  calls,    \* per caller: what it asks for, since when and for how long
  answer    \* the call that has just ended, and its result

Idle == [op |-> "none"]

Full == Len(content) = len

Possible(op) == CASE op \in {"send", "sendToFront"} -> ~Full
                  [] op = "overwrite" -> TRUE
                  [] op \in {"receive", "peek"} -> content # <<>>

After(op, m) == CASE op = "send" -> Append(content, m)
                  [] op = "sendToFront" -> <<m>> \o content
                  [] op = "overwrite" -> <<m>>
                  [] op = "receive" -> Tail(content)
                  [] op = "peek" -> content

Got(op) == IF op \in {"receive", "peek"} THEN Head(content) ELSE "pdPASS"

\* The call of p in a new phase.
Asks(p, phase, wait) ==
  [op |-> calls[p].op, msg |-> calls[p].msg, wait |-> wait, phase |-> phase]

Init ==
  /\ content = <<>>
  /\ len \in Nat \ {0}
  /\ time \in Nat
  /\ calls = [p \in Proc |-> Idle]
  /\ answer = <<>>

Begin(p) ==
  /\ calls[p] = Idle
  /\ \E op \in {"send", "sendToFront", "overwrite", "receive", "peek"},
        m \in Message, d \in 0..Forever :
       calls' = [calls EXCEPT ![p] = [op |-> op, msg |-> m, wait |-> d, phase |-> "new"]]
  /\ UNCHANGED <<content, len, time>> /\ answer' = <<>>

Succeed(p) ==
  /\ calls[p] # Idle
  /\ Possible(calls[p].op)
  /\ content' = After(calls[p].op, calls[p].msg)
  /\ answer' = <<p, Got(calls[p].op)>>
  /\ calls' = [calls EXCEPT ![p] = Idle]
  /\ UNCHANGED <<len, time>>

\* The call cannot go on: from now on its time runs, until the deadline.
Wait(p) ==
  /\ calls[p] # Idle
  /\ calls[p].phase = "new" /\ calls[p].wait # 0
  /\ ~Possible(calls[p].op)
  /\ \/ /\ calls[p].wait = Forever
        /\ calls' = [calls EXCEPT ![p] = Asks(p, "forever", Forever)]
     \/ /\ calls[p].wait # Forever
        /\ calls' = [calls EXCEPT ![p] = Asks(p, "waiting", time + calls[p].wait)]
  /\ UNCHANGED <<content, len, time>> /\ answer' = <<>>

Expire(p) ==
  /\ calls[p] # Idle
  /\ calls[p].phase = "waiting" /\ time >= calls[p].wait
  /\ calls' = [calls EXCEPT ![p] = Asks(p, "expired", 0)]
  /\ UNCHANGED <<content, len, time>> /\ answer' = <<>>

Fail(p) ==
  /\ calls[p] # Idle
  /\ \/ calls[p].phase = "expired"
     \/ calls[p].phase = "new" /\ calls[p].wait = 0 /\ ~Possible(calls[p].op)
  /\ answer' = <<p, "fail">>
  /\ calls' = [calls EXCEPT ![p] = Idle]
  /\ UNCHANGED <<content, len, time>>

Handle ==
  /\ \E op \in {"send", "sendToFront", "overwrite", "receive"}, m \in Message :
       /\ Possible(op)
       /\ content' = After(op, m)
       /\ answer' = <<Handler, Got(op)>>
  /\ UNCHANGED <<len, time, calls>>

Reset == content' = <<>> /\ UNCHANGED <<len, time, calls>> /\ answer' = <<>>

Tick == time' > time /\ UNCHANGED <<content, len, calls>> /\ answer' = <<>>

Forget == answer' = <<>> /\ UNCHANGED <<content, len, time, calls>>

Next ==
  \/ Handle \/ Reset \/ Tick \/ Forget
  \/ \E p \in Proc : Begin(p) \/ Succeed(p) \/ Wait(p) \/ Expire(p) \/ Fail(p)

Spec == Init /\ [][Next]_<<content, len, time, calls, answer>>
=============================================================================
