CONSTANTS
  LoopThread = io
  OtherThreads = {t1, t2}
  Functors = {f1, f2, f3}
  EventfdMax = 2

SPECIFICATION Spec

INVARIANTS
  TypeOK
  FunctorWakesPoll
  QuitWakesPoll
  CallbackFunctorsPrecedePoll
  NoneLostNoneTwice

PROPERTIES
  DrainIsBounded
  QuitStopsLoop
  ImplementsTaskExecutor
