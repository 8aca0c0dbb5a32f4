CONSTANTS
  t1 = t1
  t2 = t2
  t3 = t3
  Timers = {t2, t3}
  RemoteTimers = {t2}
  interval <- OneShotAndRepeating
  Resolution = 2
  MinDelay = 2
  MaxWhen = 5
  MaxTime = 7
  MaxAdjustments = 1

SPECIFICATION Spec

INVARIANTS
  TypeOK
  NoTimerForgotten
  ArmedInTime
  OneShotOnce

PROPERTIES
  RepeatsSpaced
  TimersAreCalled
