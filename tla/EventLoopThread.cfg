SPECIFICATION Spec

INVARIANTS
  TypeOK
  AssertionsHold
  LoopAliveWhenReturned

PROPERTIES
  StartLoopReturns
  EarlyFunctorRuns
  DestructorReturns

CHECK_DEADLOCK FALSE
