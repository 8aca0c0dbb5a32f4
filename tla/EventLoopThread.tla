-------------------------- MODULE EventLoopThread ---------------------------
(***************************************************************************)
(* EventLoopThread, Thread and CountDownLatch (EventLoopThread.cpp,        *)
(* thread/): an owner that starts a thread with a loop, waits for the      *)
(* loop, uses it and destroys the object, against the thread itself.       *)
(*                                                                         *)
(* Two handshakes follow each other.  Thread::start waits on a latch for   *)
(* the thread's id; startLoop waits on a condition for the address of the  *)
(* EventLoop, a local of threadFunc.  A wait is a test under the mutex and *)
(* a sleep, which ends when the condition is notified, or spuriously.  The *)
(* destructor calls quit() through loop_ and joins.  In between the owner  *)
(* hands functors to the loop.  The loop appears as far as the owner can   *)
(* meet it: its entry, which resets quit_, the test of quit_, poll and the *)
(* functors and handlers it calls (EventLoop has the rest).                *)
(*                                                                         *)
(* Dereferencing the address of a loop that is gone is undefined: the      *)
(* process ends ("crashed") or nothing that matters happens.  A failed     *)
(* assertion is "aborted".                                                 *)
(***************************************************************************)
EXTENDS Integers

VARIABLES
  started,    \* started of the Thread
  joined,     \* joined of the Thread
  tid,        \* tid of the Thread was set
  count,      \* count of the latch
  loop,       \* loop_ is not null
  quit,       \* quit_ of the EventLoop
  wakeupFd,   \* the eventfd of the EventLoop is readable
  pending,    \* functors wait in pendingFunctors of the EventLoop
  owner,      \* where the owner is
  thread      \* where the thread is

vars == <<started, joined, tid, count, loop, quit, wakeupFd, pending,
          owner, thread>>

threadObject == <<started, joined, tid, count>>
loopObject == <<quit, wakeupFd, pending>>

Starting == {"latch", "latchSleep", "cond", "condSleep"}
Destroying == {"quit", "wakeup", "join", "joining"}
Looping == {"check", "poll", "run"}

TypeOK ==
  /\ started \in BOOLEAN /\ joined \in BOOLEAN /\ tid \in BOOLEAN
  /\ count \in 0..1
  /\ loop \in BOOLEAN /\ quit \in BOOLEAN /\ wakeupFd \in BOOLEAN
  /\ pending \in BOOLEAN
  /\ owner \in {"new", "returned", "queued", "gone", "crashed", "aborted"}
                 \cup Starting \cup Destroying
  /\ thread \in {"none", "tid", "countDown", "publish", "enter", "leave",
                 "finished"} \cup Looping

Init ==
  /\ started = FALSE /\ joined = FALSE /\ tid = FALSE
  /\ count = 1
  /\ loop = FALSE /\ quit = FALSE /\ wakeupFd = FALSE /\ pending = FALSE
  /\ owner = "new"
  /\ thread = "none"

\* The process runs, and with it both threads.
Alive == owner \notin {"crashed", "aborted"}

\* The EventLoop exists from the start of threadFunc to its end.
LoopAlive == thread \in {"publish", "enter", "leave"} \cup Looping

-----------------------------------------------------------------------------
(* The owner.                                                              *)

\* Thread::start: pthread_create fails, or the thread exists.
start ==
  \/ /\ started' = TRUE
     /\ owner' = "latch"
     /\ thread' = "tid"
  \/ /\ started' = FALSE
     /\ owner' = "cond"
     /\ UNCHANGED thread

startLoop ==
  /\ owner = "new"
  /\ start
  /\ UNCHANGED <<joined, tid, count, loop, loopObject>>

\* CountDownLatch::wait, and start's assertion on tid after it.
latchWait ==
  /\ owner = "latch"
  /\ owner' = IF count > 0 THEN "latchSleep" ELSE IF tid THEN "cond" ELSE "aborted"
  /\ UNCHANGED <<threadObject, loop, loopObject, thread>>

LatchWaitWithIf ==  \* mutant
  /\ owner = "latchSleep"
  /\ owner' = IF tid THEN "cond" ELSE "aborted"
  /\ UNCHANGED <<threadObject, loop, loopObject, thread>>

latchWakesSpuriously ==
  /\ owner = "latchSleep"
  /\ owner' = "latch"
  /\ UNCHANGED <<threadObject, loop, loopObject, thread>>

\* startLoop's wait for loop_; it returns loop_.
condWait ==
  /\ owner = "cond"
  /\ owner' = IF loop THEN "returned" ELSE "condSleep"
  /\ UNCHANGED <<threadObject, loop, loopObject, thread>>

CondWaitWithIf ==  \* mutant
  /\ owner = "condSleep"
  /\ owner' = "returned"
  /\ UNCHANGED <<threadObject, loop, loopObject, thread>>

condWakesSpuriously ==
  /\ owner = "condSleep"
  /\ owner' = "cond"
  /\ UNCHANGED <<threadObject, loop, loopObject, thread>>

\* The owner uses the loop: queueInLoop pushes a functor ...
queueInLoop ==
  /\ owner = "returned"
  /\ \/ /\ LoopAlive
        /\ pending' = TRUE
        /\ owner' = "queued"
     \/ /\ ~LoopAlive
        /\ UNCHANGED pending
        /\ owner' \in {"queued", "crashed"}
  /\ UNCHANGED <<threadObject, loop, quit, wakeupFd, thread>>

\* wakeup() through a loop that exists or is gone.
wakeup(next) ==
  \/ /\ LoopAlive
     /\ wakeupFd' = TRUE
     /\ owner' = next
  \/ /\ ~LoopAlive
     /\ UNCHANGED wakeupFd
     /\ owner' \in {next, "crashed"}

\* ... and wakes the loop.
queueInLoopWakes ==
  /\ owner = "queued"
  /\ wakeup("returned")
  /\ UNCHANGED <<threadObject, loop, quit, pending, thread>>

\* ~EventLoopThread, also without startLoop, when loop_ is null ...
destroy ==
  /\ owner \in {"new", "returned"}
  /\ owner' = IF loop THEN "quit" ELSE "crashed"
  /\ UNCHANGED <<threadObject, loop, loopObject, thread>>

\* ... loop_->quit() ...
quitStores ==
  /\ owner = "quit"
  /\ \/ /\ LoopAlive
        /\ quit' = TRUE
        /\ owner' = "wakeup"
     \/ /\ ~LoopAlive
        /\ UNCHANGED quit
        /\ owner' \in {"wakeup", "crashed"}
  /\ UNCHANGED <<threadObject, loop, wakeupFd, pending, thread>>

QuitNoWakeup ==  \* mutant
  /\ owner = "wakeup"
  /\ owner' = "join"
  /\ UNCHANGED <<threadObject, loop, loopObject, thread>>

\* ... which reads threadId_ and wakeupFd_ after the store ...
quitWakes ==
  /\ owner = "wakeup"
  /\ wakeup("join")
  /\ UNCHANGED <<threadObject, loop, quit, pending, thread>>

\* ... and thread_.join() with its assertions, which blocks in pthread_join.
join ==
  /\ owner = "join"
  /\ joined' = TRUE
  /\ owner' = IF started /\ ~joined THEN "joining" ELSE "aborted"
  /\ UNCHANGED <<started, tid, count, loop, loopObject, thread>>

joinReturns ==
  /\ owner = "joining"
  /\ thread = "finished"
  /\ owner' = "gone"
  /\ UNCHANGED <<threadObject, loop, loopObject, thread>>

-----------------------------------------------------------------------------
(* The thread: ThreadData::runInThread and threadFunc.                     *)

setTid ==
  /\ thread = "tid"
  /\ tid' = TRUE
  /\ thread' = "countDown"
  /\ UNCHANGED <<started, joined, count, loop, loopObject, owner>>

\* notifyAll at zero; then func(), which constructs the EventLoop.
countDown ==
  /\ thread = "countDown"
  /\ count' = count - 1
  /\ owner' = IF owner = "latchSleep" /\ count' = 0 THEN "latch" ELSE owner
  /\ thread' = "publish"
  /\ UNCHANGED <<started, joined, tid, loop, loopObject>>

PublishNoNotify ==  \* mutant
  /\ thread = "publish"
  /\ loop' = TRUE
  /\ thread' = "enter"
  /\ UNCHANGED <<threadObject, loopObject, owner>>

\* loop_ is set and the condition notified under the mutex.
threadFunc ==
  /\ thread = "publish"
  /\ loop' = TRUE
  /\ owner' = IF owner = "condSleep" THEN "cond" ELSE owner
  /\ thread' = "enter"
  /\ UNCHANGED <<threadObject, loopObject>>

EnterLoopClearsWakeup ==  \* mutant
  /\ thread = "enter"
  /\ quit' = FALSE
  /\ wakeupFd' = FALSE
  /\ thread' = "check"
  /\ UNCHANGED <<threadObject, loop, pending, owner>>

EnterLoop ==
  /\ thread = "enter"
  /\ quit' = FALSE
  /\ thread' = "check"
  /\ UNCHANGED <<threadObject, loop, wakeupFd, pending, owner>>

TestQuit ==
  /\ thread = "check"
  /\ thread' = IF quit THEN "leave" ELSE "poll"
  /\ UNCHANGED <<threadObject, loop, loopObject, owner>>

\* poll returns at once when the eventfd is readable, which is then read ...
PollWoken ==
  /\ thread = "poll"
  /\ wakeupFd
  /\ wakeupFd' = FALSE
  /\ thread' = "run"
  /\ UNCHANGED <<threadObject, loop, quit, pending, owner>>

\* ... and otherwise when another descriptor is ready or the time is up.
PollReturns ==
  /\ thread = "poll"
  /\ ~wakeupFd
  /\ thread' = "run"
  /\ UNCHANGED <<threadObject, loop, loopObject, owner>>

\* Handlers and all functors.  What the users of the loop put there may call
\* quit() as soon as startLoop has given them the loop.
RunUserCode ==
  /\ thread = "run"
  /\ \/ UNCHANGED quit
     \/ /\ owner \in {"returned", "queued"} \cup Destroying
        /\ quit' = TRUE
  /\ pending' = FALSE
  /\ thread' = "check"
  /\ UNCHANGED <<threadObject, loop, wakeupFd, owner>>

CountDownAgain ==  \* mutant
  /\ thread = "leave"
  /\ count' = count - 1
  /\ thread' = "finished"
  /\ UNCHANGED <<started, joined, tid, loop, loopObject, owner>>

\* loop() returns, the EventLoop is destroyed and the thread ends.
threadFuncReturns ==
  /\ thread = "leave"
  /\ thread' = "finished"
  /\ UNCHANGED <<threadObject, loop, loopObject, owner>>

-----------------------------------------------------------------------------
\* What the owner does of itself once it has called something.
OwnerStep ==
  /\ Alive
  /\ \/ latchWait \/ condWait \/ queueInLoopWakes
     \/ quitStores \/ quitWakes \/ join \/ joinReturns

ThreadStep ==
  /\ Alive
  /\ \/ setTid \/ countDown \/ threadFunc \/ EnterLoop \/ TestQuit \/ PollWoken
     \/ RunUserCode \/ threadFuncReturns

Next ==
  \/ startLoop
  \/ queueInLoop
  \/ destroy
  \/ OwnerStep
  \/ ThreadStep
  \/ latchWakesSpuriously
  \/ condWakesSpuriously
  \/ Alive /\ PollReturns

SafeSpec == Init /\ [][Next]_vars

\* Both threads go on.  Neither spurious wakeups nor poll's timeout are relied
\* on.
Spec == SafeSpec /\ WF_vars(OwnerStep) /\ WF_vars(ThreadStep)

-----------------------------------------------------------------------------
(* Properties.                                                             *)

\* No assertion fails: when start returns the thread has stored its id, however
\* the wait is woken, and join finds a thread to join (Thread.cpp:110, 117-118).
AssertionsHold == owner # "aborted"

\* startLoop returns the address of a loop that exists, until somebody asks it
\* to quit (EventLoopThread.cpp:29-35).
LoopAliveWhenReturned ==
  owner \in {"returned", "queued"} => loop /\ (quit \/ LoopAlive)

\* startLoop returns if the thread could be created: no notification of the
\* latch or of the condition is missed (CountDownLatch.cpp:10-27,
\* EventLoopThread.cpp:27-46).
StartLoopReturns == owner = "latch" ~> owner = "returned"

\* A functor that the owner hands over when it has the loop, be it before the
\* thread has entered loop(), is called without waiting for poll's timeout,
\* unless the loop is told to quit (queueInLoop's wakeup stays in the eventfd;
\* EventLoop.cpp:65-75, 159).
EarlyFunctorRuns == pending ~> ~pending \/ quit \/ owner = "crashed"

\* The destructor of an object whose loop has been entered comes to an end and
\* with it the thread, without waiting for poll's timeout
\* (EventLoopThread.cpp:15-20).
DestructorReturns ==
  (owner = "quit" /\ thread \in Looping \cup {"leave", "finished"})
    ~> owner \in {"gone", "crashed"}
=============================================================================
