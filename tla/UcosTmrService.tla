--------------------------- MODULE UcosTmrService ---------------------------
(***************************************************************************)
(* What the timers of UcosTmr promise their users: through the services of  *)
(* os_tmr.c, OSTmrStateGet and OSTmrRemainGet they implement TimerService.   *)
(***************************************************************************)
EXTENDS UcosTmr

\* The arguments t was created with.
SettingOf(t) ==
  IF tmr[t].OSTmrState = "UNUSED" THEN Null
  ELSE [opt |-> tmr[t].OSTmrOpt, dly |-> tmr[t].OSTmrDly,
        period |-> tmr[t].OSTmrPeriod, callback |-> tmr[t].OSTmrCallback]

TheStates == [t \in Timer |-> tmr[t].OSTmrState]
TheSettings == [t \in Timer |-> SettingOf(t)]
TheLeft == [t \in Timer |-> OSTmrRemainGet(t)]

Service ==
  INSTANCE TimerService
    WITH NoSetting <- Null,
         state <- TheStates,
         setting <- TheSettings,
         left <- TheLeft,
         calls <- callbacks

\* The timers behave as the abstract service, by what OSTmrRemainGet says is left:
\* each expires in the turn of OSTmr_Task for its last tick, none is missed.
IsTimerService == Service!Spec
=============================================================================
