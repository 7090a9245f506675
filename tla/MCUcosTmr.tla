----------------------------- MODULE MCUcosTmr ------------------------------
(* Constants of UcosTmr for TLC: a clock of 5 values over a wheel of 2       *)
(* spokes, so that spokes are shared and the clock wraps at an odd count.    *)
EXTENDS UcosTmrService, TLC

CONSTANTS t1, t2, t3

TwoTimers == <<t1, t2>>
ThreeTimers == <<t1, t2, t3>>

A(opt, dly, period, callback) ==
  [opt |-> opt, dly |-> dly, period |-> period, callback |-> callback]

\* Later, at once after a period, a period of a whole turn of the wheel, and an
\* invalid one.
Settings ==
  {A("ONE_SHOT", 3, 0, TRUE), A("PERIODIC", 1, 2, TRUE), A("ONE_SHOT", 0, 0, TRUE)}
OneShot1 == {A("ONE_SHOT", 1, 0, TRUE)}
=============================================================================
