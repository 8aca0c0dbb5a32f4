CONSTANTS
  t1 = t1
  t2 = t2
  t3 = t3
  Timers = {t1, t3}
  RemoteTimers = {t1}
  interval <- OneShotAndRepeating
  Resolution = 2
  MinDelay = 2
  MaxWhen = 4
  MaxTime = 5
  MaxAdjustments = 0

SPECIFICATION SafeSpec

INVARIANT TimerAliveWhenAdded
