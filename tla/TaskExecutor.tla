---------------------------- MODULE TaskExecutor ----------------------------
(***************************************************************************)
(* What an EventLoop promises to those who hand it work, with neither      *)
(* threads nor descriptors: tasks handed over are run one at a time, in    *)
(* the order in which they were handed over, each of them once, and as     *)
(* long as the executor is running no task waits for ever.  Nothing is     *)
(* promised about the tasks that are waiting when the executor stops: they *)
(* are kept and run if it is started again.                                *)
(***************************************************************************)
EXTENDS Sequences

CONSTANT Tasks

VARIABLES
  running,     \* between the start and the end of a call of loop()
  submitted,   \* the tasks that were ever handed over
  waiting,     \* handed over, not run yet, in order
  done         \* run, in order; a task run on the spot never waits

vars == <<running, submitted, waiting, done>>

Init ==
  /\ running = FALSE
  /\ submitted = {}
  /\ waiting = <<>>
  /\ done = <<>>

Start ==
  /\ ~running
  /\ running' = TRUE
  /\ UNCHANGED <<submitted, waiting, done>>

Stop ==
  /\ running
  /\ running' = FALSE
  /\ UNCHANGED <<submitted, waiting, done>>

\* Hand over a task for later.
Submit(t) ==
  /\ t \notin submitted
  /\ submitted' = submitted \cup {t}
  /\ waiting' = Append(waiting, t)
  /\ UNCHANGED <<running, done>>

\* Run a task on the spot, before everything that waits.
RunNow(t) ==
  /\ t \notin submitted
  /\ submitted' = submitted \cup {t}
  /\ UNCHANGED <<running, waiting, done>>

RunNext ==
  /\ running
  /\ waiting # <<>>
  /\ done' = Append(done, Head(waiting))
  /\ waiting' = Tail(waiting)
  /\ UNCHANGED <<running, submitted>>

Next ==
  \/ Start
  \/ Stop
  \/ RunNext
  \/ \E t \in Tasks : Submit(t) \/ RunNow(t)

SafeSpec == Init /\ [][Next]_vars

Spec == SafeSpec /\ WF_vars(RunNext)
=============================================================================
