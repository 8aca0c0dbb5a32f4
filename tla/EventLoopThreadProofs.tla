----------------------- MODULE EventLoopThreadProofs ------------------------
(***************************************************************************)
(* Theorems about EventLoopThread: the handshakes of owner and thread.     *)
(***************************************************************************)
EXTENDS EventLoopThread, TLAPS

\* How far the thread has come shows in what it has stored for the owner.
ThreadInv ==
  /\ started <=> thread # "none"
  /\ tid <=> thread \notin {"none", "tid"}
  /\ count = 0 <=> thread \notin {"none", "tid", "countDown"}
  /\ loop <=> thread \notin {"none", "tid", "countDown", "publish"}
  /\ thread \in {"leave", "finished"} => quit

\* Where the owner is tells what it has waited for.
OwnerInv ==
  /\ owner = "new" => thread = "none"
  /\ owner \in {"latch", "latchSleep"} => started
  /\ owner \in {"returned", "queued", "gone"} \cup Destroying => loop
  /\ joined => owner \in {"joining", "gone", "crashed", "aborted"}

IndInv ==
  TypeOK /\ ThreadInv /\ OwnerInv /\ AssertionsHold

-----------------------------------------------------------------------------
\* Nothing has happened yet.
LEMMA InitIndInv == Init => IndInv
<1> SUFFICES ASSUME Init PROVE IndInv
  OBVIOUS
<1>1. TypeOK
  <2>1. /\ started \in BOOLEAN /\ joined \in BOOLEAN /\ tid \in BOOLEAN
        /\ loop \in BOOLEAN /\ quit \in BOOLEAN /\ wakeupFd \in BOOLEAN
        /\ pending \in BOOLEAN
    BY Zenon DEF Init
  <2>2. count \in 0..1 /\ owner = "new" /\ thread = "none"
    BY DEF Init
  <2>3. QED
    BY <2>1, <2>2 DEF TypeOK
<1>2. ThreadInv
  BY DEF Init, ThreadInv
<1>3. OwnerInv /\ AssertionsHold
  BY DEF Init, OwnerInv, AssertionsHold, Destroying
<1>4. QED
  BY <1>1, <1>2, <1>3 DEF IndInv

\* The start, up to the latch and the condition.
LEMMA StartStep ==
  IndInv /\ (startLoop \/ latchWait \/ latchWakesSpuriously \/ condWait
               \/ condWakesSpuriously) => IndInv'
<1> USE DEF IndInv, TypeOK, ThreadInv, OwnerInv, AssertionsHold,
            Starting, Destroying, Looping,
            threadObject, loopObject
<1>1. IndInv /\ startLoop => IndInv'
  <2> SUFFICES ASSUME IndInv, startLoop PROVE IndInv'
    OBVIOUS
  <2>1. TypeOK'
    BY DEF startLoop, start
  <2>2. ThreadInv'
    BY DEF startLoop, start
  <2>3. OwnerInv' /\ AssertionsHold'
    BY DEF startLoop, start
  <2>4. QED
    BY <2>1, <2>2, <2>3
<1>2. IndInv /\ latchWait => IndInv'
  BY DEF latchWait
<1>3. IndInv /\ latchWakesSpuriously => IndInv'
  BY DEF latchWakesSpuriously
<1>4. IndInv /\ condWait => IndInv'
  BY DEF condWait
<1>5. IndInv /\ condWakesSpuriously => IndInv'
  BY DEF condWakesSpuriously
<1>6. QED
  BY <1>1, <1>2, <1>3, <1>4, <1>5

\* The owner uses the loop and destroys the object.
LEMMA OwnerUseStep ==
  IndInv /\ (queueInLoop \/ queueInLoopWakes \/ destroy \/ quitStores
               \/ quitWakes \/ join \/ joinReturns) => IndInv'
<1> USE DEF IndInv, TypeOK, ThreadInv, OwnerInv, AssertionsHold,
            Starting, Destroying, Looping,
            threadObject, loopObject
<1>1. IndInv /\ queueInLoop => IndInv'
  <2> SUFFICES ASSUME IndInv, queueInLoop PROVE IndInv'
    OBVIOUS
  <2>1. TypeOK'
    BY DEF queueInLoop
  <2>2. ThreadInv'
    BY DEF queueInLoop
  <2>3. OwnerInv' /\ AssertionsHold'
    BY DEF queueInLoop
  <2>4. QED
    BY <2>1, <2>2, <2>3
<1>2. IndInv /\ queueInLoopWakes => IndInv'
  <2> SUFFICES ASSUME IndInv, queueInLoopWakes PROVE IndInv'
    OBVIOUS
  <2>1. TypeOK'
    BY DEF queueInLoopWakes, wakeup
  <2>2. ThreadInv'
    BY DEF queueInLoopWakes, wakeup
  <2>3. OwnerInv' /\ AssertionsHold'
    BY DEF queueInLoopWakes, wakeup
  <2>4. QED
    BY <2>1, <2>2, <2>3
<1>3. IndInv /\ destroy => IndInv'
  BY DEF destroy
<1>4. IndInv /\ quitStores => IndInv'
  <2> SUFFICES ASSUME IndInv, quitStores PROVE IndInv'
    OBVIOUS
  <2>1. TypeOK'
    BY DEF quitStores
  <2>2. ThreadInv'
    BY DEF quitStores
  <2>3. OwnerInv' /\ AssertionsHold'
    BY DEF quitStores
  <2>4. QED
    BY <2>1, <2>2, <2>3
<1>5. IndInv /\ quitWakes => IndInv'
  <2> SUFFICES ASSUME IndInv, quitWakes PROVE IndInv'
    OBVIOUS
  <2>1. TypeOK'
    BY DEF quitWakes, wakeup
  <2>2. ThreadInv'
    BY DEF quitWakes, wakeup
  <2>3. OwnerInv' /\ AssertionsHold'
    BY DEF quitWakes, wakeup
  <2>4. QED
    BY <2>1, <2>2, <2>3
<1>6. IndInv /\ join => IndInv'
  BY DEF join
<1>7. IndInv /\ joinReturns => IndInv'
  BY DEF joinReturns
<1>8. QED
  BY <1>1, <1>2, <1>3, <1>4, <1>5, <1>6, <1>7

\* The thread.
LEMMA ThreadUseStep == IndInv /\ (ThreadStep \/ (Alive /\ PollReturns)) => IndInv'
<1> USE DEF IndInv, TypeOK, ThreadInv, OwnerInv, AssertionsHold,
            Starting, Destroying, Looping,
            threadObject, loopObject
<1>1. IndInv /\ setTid => IndInv'
  BY DEF setTid
<1>2. IndInv /\ countDown => IndInv'
  BY DEF countDown
<1>3. IndInv /\ threadFunc => IndInv'
  BY DEF threadFunc
<1>4. IndInv /\ EnterLoop => IndInv'
  <2> SUFFICES ASSUME IndInv, EnterLoop PROVE IndInv'
    OBVIOUS
  <2>1. TypeOK'
    BY DEF EnterLoop
  <2>2. ThreadInv'
    BY DEF EnterLoop
  <2>3. OwnerInv' /\ AssertionsHold'
    BY DEF EnterLoop
  <2>4. QED
    BY <2>1, <2>2, <2>3
<1>5. IndInv /\ TestQuit => IndInv'
  BY DEF TestQuit
<1>6. IndInv /\ PollWoken => IndInv'
  <2> SUFFICES ASSUME IndInv, PollWoken PROVE IndInv'
    OBVIOUS
  <2>1. TypeOK'
    BY DEF PollWoken
  <2>2. ThreadInv'
    BY DEF PollWoken
  <2>3. OwnerInv' /\ AssertionsHold'
    BY DEF PollWoken
  <2>4. QED
    BY <2>1, <2>2, <2>3
<1>7. IndInv /\ PollReturns => IndInv'
  BY DEF PollReturns
<1>8. IndInv /\ RunUserCode => IndInv'
  <2> SUFFICES ASSUME IndInv, RunUserCode PROVE IndInv'
    OBVIOUS
  <2>1. TypeOK'
    BY DEF RunUserCode
  <2>2. ThreadInv'
    BY DEF RunUserCode
  <2>3. OwnerInv' /\ AssertionsHold'
    BY DEF RunUserCode
  <2>4. QED
    BY <2>1, <2>2, <2>3
<1>9. IndInv /\ threadFuncReturns => IndInv'
  BY DEF threadFuncReturns
<1>10. QED
  BY <1>1, <1>2, <1>3, <1>4, <1>5, <1>6, <1>7, <1>8, <1>9 DEF ThreadStep

\* The invariant holds in every state of owner and thread.
THEOREM Invariance == SafeSpec => []IndInv
<1>1. IndInv /\ [Next]_vars => IndInv'
  <2>1. IndInv /\ UNCHANGED vars => IndInv'
    BY DEF vars, IndInv, TypeOK, ThreadInv, OwnerInv, AssertionsHold
  <2>2. QED
    BY <2>1, StartStep, OwnerUseStep, ThreadUseStep DEF Next, OwnerStep
<1>2. QED
  BY <1>1, InitIndInv, PTL DEF SafeSpec

\* Type correctness: in particular the latch is never counted below zero.
THEOREM TypeCorrect == SafeSpec => []TypeOK
<1>1. IndInv => TypeOK
  BY DEF IndInv
<1>2. QED
  BY <1>1, Invariance, PTL

\* The assertions of Thread::start and Thread::join hold whatever wakeups the
\* waits see (Thread.cpp:110, 117-118).
THEOREM NoAssertionFails == SafeSpec => []AssertionsHold
<1>1. IndInv => AssertionsHold
  BY DEF IndInv
<1>2. QED
  BY <1>1, Invariance, PTL

\* startLoop returns a loop that exists as long as nobody asks it to quit
\* (EventLoopThread.cpp:29-35).
THEOREM ReturnsLiveLoop == SafeSpec => []LoopAliveWhenReturned
<1>1. IndInv => LoopAliveWhenReturned
  BY DEF IndInv, TypeOK, ThreadInv, OwnerInv, LoopAliveWhenReturned, LoopAlive
<1>2. QED
  BY <1>1, Invariance, PTL
=============================================================================
