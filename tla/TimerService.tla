---------------------------- MODULE TimerService ----------------------------
(***************************************************************************)
(* What a timer service promises to the tasks that use it, without wheel,   *)
(* lists, clock arithmetic or daemon task:                                  *)
(*   - a running timer expires when as many ticks have passed as were left, *)
(*     never earlier, and no tick passes before every timer that has none   *)
(*     left has expired;                                                    *)
(*   - a timer that is stopped, deleted or completed does not expire;       *)
(*   - a tick and its expirations look like one step to the tasks: only     *)
(*     callbacks see some timers expired and others not yet.                *)
(***************************************************************************)
EXTENDS Naturals, Sequences

CONSTANTS
  Timer,     \* the timers
  Setting,   \* what a timer may be created with
  NoSetting  \* the setting of a timer that does not exist

VARIABLES
  state,    \* per timer: UNUSED, STOPPED, RUNNING or COMPLETED
  setting,  \* per timer: what it was created with
  left,     \* per timer: the ticks left to its next expiration
  calls     \* the timers whose callbacks are in progress, the innermost first

vars == <<state, setting, left, calls>>

FirstDelay(s) == IF s.dly = 0 THEN s.period ELSE s.dly

Running == {t \in Timer : state[t] = "RUNNING"}

Due == {t \in Running : left[t] = 0}

Init ==
  /\ state = [t \in Timer |-> "UNUSED"]
  /\ setting = [t \in Timer |-> NoSetting]
  /\ left = [t \in Timer |-> 0]
  /\ calls = <<>>

\* A task calls between ticks, a callback at any time.
MayCall == calls # <<>> \/ Due = {}

Become(t, s, n) == state' = [state EXCEPT ![t] = s] /\ left' = [left EXCEPT ![t] = n]

Create(t, s) ==
  /\ state[t] = "UNUSED"
  /\ Become(t, "STOPPED", FirstDelay(s))
  /\ setting' = [setting EXCEPT ![t] = s]
  /\ UNCHANGED calls

Delete(t) ==
  /\ state[t] # "UNUSED"
  /\ Become(t, "UNUSED", 0)
  /\ setting' = [setting EXCEPT ![t] = NoSetting]
  /\ UNCHANGED calls

Start(t) ==
  /\ state[t] # "UNUSED"
  /\ Become(t, "RUNNING", FirstDelay(setting[t]))
  /\ UNCHANGED <<setting, calls>>

Calling(t) == IF setting[t].callback THEN <<t>> \o calls ELSE calls

Stop(t) ==
  /\ t \in Running
  /\ Become(t, "STOPPED", FirstDelay(setting[t]))
  /\ calls' \in {calls, Calling(t)}
  /\ UNCHANGED setting

Return == calls # <<>> /\ calls' = Tail(calls) /\ UNCHANGED <<state, setting, left>>

Tick ==
  /\ calls = <<>> /\ Due = {}
  /\ left' = [t \in Timer |-> IF t \in Running THEN left[t] - 1 ELSE left[t]]
  /\ UNCHANGED <<state, setting, calls>>

Expire(t) ==
  /\ calls = <<>> /\ t \in Due
  /\ \/ setting[t].opt = "PERIODIC" /\ Become(t, "RUNNING", setting[t].period)
     \/ setting[t].opt = "ONE_SHOT" /\ Become(t, "COMPLETED", 0)
  /\ calls' = Calling(t)
  /\ UNCHANGED setting

Next ==
  \/ \E t \in Timer :
       \/ MayCall /\ (Delete(t) \/ Start(t) \/ Stop(t))
       \/ \E s \in Setting : MayCall /\ Create(t, s)
       \/ Expire(t)
  \/ Return
  \/ Tick

Spec == Init /\ [][Next]_vars
=============================================================================
