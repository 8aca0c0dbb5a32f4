-------------------------- MODULE EventLoopProofs ---------------------------
(***************************************************************************)
(* Proofs about EventLoop for any set of threads and functors and any      *)
(* limit of the eventfd.                                                   *)
(***************************************************************************)
EXTENDS EventLoop, SequenceTheorems, TLAPS

\* FunctorWakesPoll made inductive: between the read of the eventfd and the
\* swap a functor may wait without a wakeup, everywhere else it may not.
WakeInv ==
  pc \notin {"dispatch", "callback", "pending"} =>
    \A i \in 1..Len(pendingFunctors) :
      origin[pendingFunctors[i]] \in {"other", "functor"} => WakeupComing

\* CallbackFunctorsPrecedePoll made inductive: after the swap no functor of a
\* callback is pending until the next callback.
CallbackInv ==
  pc \notin {"dispatch", "callback", "pending"} =>
    \A i \in 1..Len(pendingFunctors) : origin[pendingFunctors[i]] # "callback"

IndInv == Types /\ FlagsTellPlace /\ WakeInv /\ CallbackInv /\ QuitWakesPoll

-----------------------------------------------------------------------------
\* Every variable keeps its type in every step of the loop and its callers.
LEMMA TypeStep == Types /\ [Next]_vars => Types'
<1> SUFFICES ASSUME Types, [Next]_vars PROVE Types'
  OBVIOUS
<1> USE EventfdAssumption DEF Types, queueVars, loopVars, UserCode, PC,
        Channels, Origins, LoopThreadAt, MayCall, CallSite, isInLoopThread
<1>1. CASE EnterLoop
  BY <1>1 DEF EnterLoop
<1>2. CASE TestQuit
  BY <1>2 DEF TestQuit
<1>3. CASE Poll
  BY <1>3 DEF Poll
<1>4. CASE HandleRead
  BY <1>4 DEF HandleRead
<1>5. CASE HandleEvent
  BY <1>5 DEF HandleEvent
<1>6. CASE CallbackReturns
  BY <1>6 DEF CallbackReturns
<1>7. CASE AllHandled
  BY <1>7 DEF AllHandled
<1>8. CASE SwapFunctors
  BY <1>8 DEF SwapFunctors
<1>9. CASE CallFunctor
  BY <1>9 DEF CallFunctor
<1>10. CASE FunctorReturns
  BY <1>10 DEF FunctorReturns
<1>11. CASE EndPendingFunctors
  BY <1>11 DEF EndPendingFunctors
<1>12. ASSUME NEW th \in Threads, Wakeup(th) PROVE Types'
  BY <1>12 DEF Wakeup
<1>13. ASSUME NEW th \in Threads, Quit(th) PROVE Types'
  BY <1>13 DEF Quit
<1>14. ASSUME NEW th \in Threads, NEW f \in Functors, QueueInLoop(th, f)
       PROVE Types'
  BY <1>14 DEF QueueInLoop
<1>15. ASSUME NEW th \in Threads, NEW f \in Functors, RunInLoop(th, f)
       PROVE Types'
  BY <1>14, <1>15 DEF RunInLoop
<1>16. CASE UNCHANGED vars
  BY <1>16 DEF vars
<1>17. QED
  BY <1>1, <1>2, <1>3, <1>4, <1>5, <1>6, <1>7, <1>8, <1>9, <1>10, <1>11,
     <1>12, <1>13, <1>14, <1>15, <1>16 DEF Next, LoopStep

\* The flags follow the position of the loop thread in every step.
LEMMA FlagsStep == Types /\ FlagsTellPlace /\ [Next]_vars => FlagsTellPlace'
<1> SUFFICES ASSUME Types, FlagsTellPlace, [Next]_vars PROVE FlagsTellPlace'
  OBVIOUS
<1> USE DEF Types, FlagsTellPlace, queueVars, loopVars, LoopThreadAt
<1>1. CASE EnterLoop
  BY <1>1 DEF EnterLoop
<1>2. CASE TestQuit
  BY <1>2 DEF TestQuit
<1>3. CASE Poll
  BY <1>3 DEF Poll
<1>4. CASE HandleRead
  BY <1>4 DEF HandleRead
<1>5. CASE HandleEvent
  BY <1>5 DEF HandleEvent
<1>6. CASE CallbackReturns
  BY <1>6 DEF CallbackReturns
<1>7. CASE AllHandled
  BY <1>7 DEF AllHandled
<1>8. CASE SwapFunctors
  BY <1>8 DEF SwapFunctors
<1>9. CASE CallFunctor
  BY <1>9 DEF CallFunctor
<1>10. CASE FunctorReturns
  BY <1>10 DEF FunctorReturns
<1>11. CASE EndPendingFunctors
  BY <1>11 DEF EndPendingFunctors
<1>12. ASSUME NEW th \in Threads, Wakeup(th) \/ Quit(th) PROVE FlagsTellPlace'
  BY <1>12 DEF Wakeup, Quit
<1>13. ASSUME NEW th \in Threads, NEW f \in Functors,
              QueueInLoop(th, f) \/ RunInLoop(th, f)
       PROVE  FlagsTellPlace'
  BY <1>13 DEF QueueInLoop, RunInLoop
<1>14. CASE UNCHANGED vars
  BY <1>14 DEF vars
<1>15. QED
  BY <1>1, <1>2, <1>3, <1>4, <1>5, <1>6, <1>7, <1>8, <1>9, <1>10, <1>11,
     <1>12, <1>13, <1>14 DEF Next, LoopStep

\* A push leaves the functors in front of it where they were.
LEMMA PushKeepsQueue ==
  ASSUME NEW th \in Threads, NEW f \in Functors, Types, QueueInLoop(th, f)
  PROVE  /\ Len(pendingFunctors') = Len(pendingFunctors) + 1
         /\ \A i \in 1..Len(pendingFunctors) :
              /\ pendingFunctors'[i] = pendingFunctors[i]
              /\ pendingFunctors[i] \in Functors
         /\ pendingFunctors'[Len(pendingFunctors) + 1] = f
BY DEF QueueInLoop, Types

\* A functor queued by another thread or by a functor has a wakeup on its way.
LEMMA WakeStep == Types /\ FlagsTellPlace /\ WakeInv /\ [Next]_vars => WakeInv'
<1> SUFFICES ASSUME Types, FlagsTellPlace, WakeInv, [Next]_vars PROVE WakeInv'
  OBVIOUS
<1> USE DEF WakeInv, WakeupComing, queueVars, loopVars, LoopThreadAt
<1>1. CASE EnterLoop \/ TestQuit \/ Poll \/ HandleRead \/ HandleEvent
           \/ CallbackReturns \/ AllHandled \/ FunctorReturns
  BY <1>1 DEF EnterLoop, TestQuit, Poll, HandleRead, HandleEvent,
              CallbackReturns, AllHandled, FunctorReturns
<1>2. CASE SwapFunctors
  BY <1>2 DEF SwapFunctors
<1>3. CASE CallFunctor \/ EndPendingFunctors
  BY <1>3 DEF CallFunctor, EndPendingFunctors
<1>4. ASSUME NEW th \in Threads, Wakeup(th) PROVE WakeInv'
  <2>1. wakeupFd' > 0
    BY <1>4, EventfdAssumption DEF Wakeup, Types
  <2>2. QED
    BY <2>1
<1>5. ASSUME NEW th \in Threads, Quit(th) PROVE WakeInv'
  BY <1>5 DEF Quit
<1>6. ASSUME NEW th \in Threads, NEW f \in Functors, QueueInLoop(th, f)
      PROVE  WakeInv'
  <2>1. CASE ~isInLoopThread(th) \/ callingPendingFunctors
    BY <1>6, <2>1 DEF QueueInLoop
  <2>2. CASE isInLoopThread(th) /\ ~callingPendingFunctors
    <3>1. origin'[f] \notin {"other", "functor"}
      BY <1>6, <2>2
         DEF QueueInLoop, MayCall, CallSite, FlagsTellPlace, Types, UserCode
    <3>2. \A g \in Functors : g # f => origin'[g] = origin[g]
      BY <1>6 DEF QueueInLoop, Types
    <3>3. UNCHANGED <<pc, waking, wakeupFd>>
      BY <1>6, <2>2 DEF QueueInLoop
    <3>4. QED
      BY <1>6, <3>1, <3>2, <3>3, PushKeepsQueue, SMTT(30) DEF Types
  <2>3. QED
    BY <2>1, <2>2
<1>7. ASSUME NEW th \in Threads, NEW f \in Functors, RunInLoop(th, f)
      PROVE  WakeInv'
  <2>1. CASE isInLoopThread(th)
    <3>1. /\ origin'[f] = "now"
          /\ \A g \in Functors : g # f => origin'[g] = origin[g]
          /\ UNCHANGED <<pc, waking, wakeupFd, pendingFunctors>>
      BY <1>7, <2>1 DEF RunInLoop, Types
    <3>2. QED
      BY <3>1 DEF Types
  <2>2. CASE ~isInLoopThread(th)
    BY <1>6, <1>7, <2>2 DEF RunInLoop
  <2>3. QED
    BY <2>1, <2>2
<1>8. CASE UNCHANGED vars
  BY <1>8 DEF vars
<1>9. QED
  BY <1>1, <1>2, <1>3, <1>4, <1>5, <1>6, <1>7, <1>8 DEF Next, LoopStep

\* A callback's functor is only pending until the next swap.
LEMMA CallbackStep ==
  Types /\ FlagsTellPlace /\ CallbackInv /\ [Next]_vars => CallbackInv'
<1> SUFFICES ASSUME Types, FlagsTellPlace, CallbackInv, [Next]_vars
             PROVE  CallbackInv'
  OBVIOUS
<1> USE DEF CallbackInv, queueVars, loopVars, LoopThreadAt
<1>1. CASE EnterLoop \/ TestQuit \/ Poll \/ HandleRead \/ HandleEvent
           \/ CallbackReturns \/ AllHandled \/ FunctorReturns
  BY <1>1 DEF EnterLoop, TestQuit, Poll, HandleRead, HandleEvent,
              CallbackReturns, AllHandled, FunctorReturns
<1>2. CASE SwapFunctors
  BY <1>2 DEF SwapFunctors
<1>3. CASE CallFunctor \/ EndPendingFunctors
  BY <1>3 DEF CallFunctor, EndPendingFunctors
<1>4. ASSUME NEW th \in Threads, Wakeup(th) \/ Quit(th) PROVE CallbackInv'
  BY <1>4 DEF Wakeup, Quit
<1>5. ASSUME NEW th \in Threads, NEW f \in Functors, QueueInLoop(th, f),
             pc # "callback"
      PROVE  CallbackInv'
  <2>1. origin'[f] # "callback"
    BY <1>5 DEF QueueInLoop, MayCall, CallSite, Types
  <2>2. \A g \in Functors : g # f => origin'[g] = origin[g]
    BY <1>5 DEF QueueInLoop, Types
  <2>3. UNCHANGED pc
    BY <1>5 DEF QueueInLoop
  <2>4. QED
    BY <1>5, <2>1, <2>2, <2>3, PushKeepsQueue DEF Types
<1>6. ASSUME NEW th \in Threads, NEW f \in Functors, QueueInLoop(th, f)
      PROVE  CallbackInv'
  <2>1. CASE pc = "callback"
    BY <1>6, <2>1 DEF QueueInLoop
  <2>2. QED
    BY <1>5, <1>6, <2>1
<1>7. ASSUME NEW th \in Threads, NEW f \in Functors, RunInLoop(th, f)
      PROVE  CallbackInv'
  <2>1. CASE isInLoopThread(th)
    <3>1. /\ origin'[f] = "now"
          /\ \A g \in Functors : g # f => origin'[g] = origin[g]
          /\ UNCHANGED <<pc, pendingFunctors>>
      BY <1>7, <2>1 DEF RunInLoop, Types
    <3>2. QED
      BY <3>1 DEF Types
  <2>2. CASE ~isInLoopThread(th)
    BY <1>6, <1>7, <2>2 DEF RunInLoop
  <2>3. QED
    BY <2>1, <2>2
<1>8. CASE UNCHANGED vars
  BY <1>8 DEF vars
<1>9. QED
  BY <1>1, <1>2, <1>3, <1>4, <1>6, <1>7, <1>8 DEF Next, LoopStep

\* Another thread's quit() is followed by its wakeup().
LEMMA QuitStep == Types /\ QuitWakesPoll /\ [Next]_vars => QuitWakesPoll'
<1> SUFFICES ASSUME Types, QuitWakesPoll, [Next]_vars PROVE QuitWakesPoll'
  OBVIOUS
<1> USE DEF QuitWakesPoll, WakeupComing, queueVars, loopVars, LoopThreadAt
<1>1. CASE EnterLoop \/ LoopStep
  BY <1>1 DEF EnterLoop, LoopStep, TestQuit, Poll, HandleRead, HandleEvent,
              CallbackReturns, AllHandled, SwapFunctors, CallFunctor,
              FunctorReturns, EndPendingFunctors, Types
<1>2. ASSUME NEW th \in Threads, Wakeup(th) PROVE QuitWakesPoll'
  <2>1. wakeupFd' > 0
    BY <1>2, EventfdAssumption DEF Wakeup, Types
  <2>2. QED
    BY <2>1
<1>3. ASSUME NEW th \in Threads, Quit(th) PROVE QuitWakesPoll'
  BY <1>3 DEF Quit, MayCall, UserCode
<1>4. ASSUME NEW th \in Threads, NEW f \in Functors,
             QueueInLoop(th, f) \/ RunInLoop(th, f)
      PROVE  QuitWakesPoll'
  BY <1>4 DEF QueueInLoop, RunInLoop
<1>5. CASE UNCHANGED vars
  BY <1>5 DEF vars
<1>6. QED
  BY <1>1, <1>2, <1>3, <1>4, <1>5 DEF Next

\* The invariant holds before the first call.
LEMMA InitIndInv == Init => IndInv
<1> SUFFICES ASSUME Init PROVE IndInv
  OBVIOUS
<1> USE DEF Init
<1>1. Types
  <2>1. origin \in [Functors -> Origins]
    BY DEF Origins
  <2>2. looping \in BOOLEAN /\ quit \in BOOLEAN
    OBVIOUS
  <2>3. callingPendingFunctors \in BOOLEAN
    OBVIOUS
  <2>4. wakeupFd \in 0..EventfdMax
    BY EventfdAssumption
  <2>5. pc \in PC
    BY DEF PC, UserCode
  <2>6. activeChannels \in SUBSET Channels /\ waking \in SUBSET Threads
    OBVIOUS
  <2>7. QED
    BY <2>1, <2>2, <2>3, <2>4, <2>5, <2>6, EmptySeq DEF Types
<1>2. FlagsTellPlace
  BY DEF FlagsTellPlace
<1>3. WakeInv /\ CallbackInv
  BY DEF WakeInv, CallbackInv
<1>4. QuitWakesPoll
  BY DEF QuitWakesPoll
<1>5. QED
  BY <1>1, <1>2, <1>3, <1>4 DEF IndInv

\* The inductive invariant holds in every reachable state.
THEOREM Invariance == SafeSpec => []IndInv
<1>1. IndInv /\ [Next]_vars => IndInv'
  BY TypeStep, FlagsStep, WakeStep, CallbackStep, QuitStep DEF IndInv
<1>2. QED
  BY InitIndInv, <1>1, PTL DEF SafeSpec

\* Type correctness of the loop, and its flags agree with where its thread is
\* (EventLoop.h:61-86, EventLoop.cpp:67, 159).
THEOREM TypeCorrect == SafeSpec => []TypeOK
<1>1. IndInv => TypeOK
  BY DEF IndInv, TypeOK
<1>2. QED
  BY Invariance, <1>1, PTL

\* No lost wakeup, for any number of threads and functors: queueInLoop's
\* condition (EventLoop.cpp:159) wakes the loop whenever it must.
THEOREM NoLostWakeup == SafeSpec => []FunctorWakesPoll
<1>1. IndInv => FunctorWakesPoll
  BY DEF IndInv, FunctorWakesPoll, WakeInv
<1>2. QED
  BY Invariance, <1>1, PTL

\* quit() from another thread never leaves the loop asleep (EventLoop.cpp:97).
THEOREM QuitNeverSleeps == SafeSpec => []QuitWakesPoll
<1>1. IndInv => QuitWakesPoll
  BY DEF IndInv
<1>2. QED
  BY Invariance, <1>1, PTL

\* What a callback queues runs before the next poll (EventLoop.cpp:77-82).
THEOREM CallbackFunctorsFirst == SafeSpec => []CallbackFunctorsPrecedePoll
<1>1. IndInv => CallbackFunctorsPrecedePoll
  BY DEF IndInv, CallbackFunctorsPrecedePoll, CallbackInv
<1>2. QED
  BY Invariance, <1>1, PTL

-----------------------------------------------------------------------------
\* The tasks of the abstract executor behave like the functors of the loop:
\* what each step of the loop does to the mapped state.
LEMMA RefinementStep ==
  IndInv /\ [Next]_vars => [Executor!Next]_(Executor!vars)
<1> SUFFICES ASSUME IndInv, [Next]_vars
             PROVE  Executor!Next \/ UNCHANGED Executor!vars
  OBVIOUS
<1> DEFINE waiting == functors \o pendingFunctors
           submitted == {f \in Functors : origin[f] # "none"}
<1>t. Types /\ FlagsTellPlace
  BY DEF IndInv
<1> USE DEF queueVars, loopVars, LoopThreadAt
<1>1. CASE EnterLoop
  <2>1. Executor!Start
    BY <1>1, <1>t DEF EnterLoop, FlagsTellPlace, Executor!Start
  <2>2. QED
    BY <2>1 DEF Executor!Next
<1>2. CASE TestQuit
  <2>1. CASE quit
    <3>1. Executor!Stop
      BY <1>2, <1>t, <2>1 DEF TestQuit, FlagsTellPlace, Executor!Stop
    <3>2. QED
      BY <3>1 DEF Executor!Next
  <2>2. CASE ~quit
    BY <1>2, <1>t, <2>2 DEF TestQuit, FlagsTellPlace, Types, Executor!vars
  <2>3. QED
    BY <2>1, <2>2
<1>3. CASE Poll \/ HandleRead \/ HandleEvent \/ CallbackReturns \/ AllHandled
           \/ FunctorReturns \/ EndPendingFunctors
  BY <1>3 DEF Poll, HandleRead, HandleEvent, CallbackReturns, AllHandled,
              FunctorReturns, EndPendingFunctors, Executor!vars
<1>4. CASE SwapFunctors
  <2>1. waiting' = waiting
    <3>1. /\ functors = <<>>
          /\ functors' = pendingFunctors
          /\ pendingFunctors' = <<>>
      BY <1>4, <1>t DEF SwapFunctors, FlagsTellPlace
    <3>2. pendingFunctors \in Seq(Functors)
      BY <1>t DEF Types
    <3>3. QED
      BY <3>1, <3>2, ConcatEmptySeq
  <2>2. QED
    BY <1>4, <2>1 DEF SwapFunctors, Executor!vars
<1>5. CASE CallFunctor
  <2>1. /\ waiting # <<>>
        /\ Head(waiting) = Head(functors)
        /\ Tail(waiting) = Tail(functors) \o pendingFunctors
    BY <1>5, <1>t DEF CallFunctor, Types
  <2>2. Executor!RunNext
    BY <1>5, <1>t, <2>1 DEF CallFunctor, FlagsTellPlace, Executor!RunNext
  <2>3. QED
    BY <2>2 DEF Executor!Next
<1>6. ASSUME NEW th \in Threads, Wakeup(th) \/ Quit(th)
      PROVE  UNCHANGED Executor!vars
  BY <1>6 DEF Wakeup, Quit, Executor!vars
<1>7. ASSUME NEW th \in Threads, NEW f \in Functors, QueueInLoop(th, f)
      PROVE  Executor!Submit(f)
  <2>1. waiting' = Append(waiting, f)
    BY <1>7, <1>t DEF QueueInLoop, Types
  <2>2. f \notin submitted /\ submitted' = submitted \cup {f}
    <3>1. origin[f] = "none" /\ CallSite(th) # "none"
      BY <1>7, <1>t DEF QueueInLoop, CallSite, Types, PC, UserCode
    <3>2. QED
      BY <1>7, <1>t, <3>1 DEF QueueInLoop, Types
  <2>3. QED
    BY <1>7, <2>1, <2>2 DEF QueueInLoop, Executor!Submit
<1>8. ASSUME NEW th \in Threads, NEW f \in Functors, RunInLoop(th, f)
      PROVE  Executor!Submit(f) \/ Executor!RunNow(f)
  <2>1. CASE isInLoopThread(th)
    <3>1. f \notin submitted /\ submitted' = submitted \cup {f}
      BY <1>8, <1>t, <2>1 DEF RunInLoop, Types
    <3>2. QED
      BY <1>8, <2>1, <3>1 DEF RunInLoop, Executor!RunNow
  <2>2. CASE ~isInLoopThread(th)
    BY <1>7, <1>8, <2>2 DEF RunInLoop
  <2>3. QED
    BY <2>1, <2>2
<1>9. CASE UNCHANGED vars
  BY <1>9 DEF vars, Executor!vars
<1>10. QED
  BY <1>1, <1>2, <1>3, <1>4, <1>5, <1>6, <1>7, <1>8, <1>9
     DEF Next, LoopStep, Executor!Next

\* The loop implements the executor's safety part: functors are called one at
\* a time, in the order in which they were queued, and each of them once
\* (queueInLoop, runInLoop and doPendingFunctors, EventLoop.cpp:139-203).
THEOREM Refinement == SafeSpec => Executor!SafeSpec
<1>1. Init => Executor!Init
  BY DEF Init, Executor!Init
<1>2. QED
  BY <1>1, RefinementStep, Invariance, PTL DEF SafeSpec, Executor!SafeSpec

-----------------------------------------------------------------------------
(* Everything that was ever queued, in order.                              *)

Queued == {f \in Functors : origin[f] \notin {"none", "now"}}

\* Appending to a sequence adds its last element to the ones that it has, and
\* doubles none that it had not.
LEMMA AppendDistinct ==
  ASSUME NEW S, NEW s \in Seq(S), NEW e \in S,
         \A i, j \in 1..Len(s) : s[i] = s[j] => i = j,
         e \notin {s[i] : i \in 1..Len(s)}
  PROVE  LET t == Append(s, e)
         IN /\ \A i, j \in 1..Len(t) : t[i] = t[j] => i = j
            /\ {t[i] : i \in 1..Len(t)} = {s[i] : i \in 1..Len(s)} \cup {e}
<1> DEFINE t == Append(s, e)
<1>1. /\ Len(s) \in Nat /\ Len(t) = Len(s) + 1
      /\ t[Len(s) + 1] = e
      /\ \A i \in 1..Len(s) : t[i] = s[i]
  BY LenProperties, AppendProperties
<1>2. \A i \in 1..Len(t) : i \in 1..Len(s) \/ i = Len(s) + 1
  BY <1>1
<1>3. \A i \in 1..Len(s) : s[i] # e
  OBVIOUS
<1> HIDE DEF t
<1>4. \A i, j \in 1..Len(t) : t[i] = t[j] => i = j
  BY <1>1, <1>2, <1>3
<1>5. {t[i] : i \in 1..Len(t)} = {s[i] : i \in 1..Len(s)} \cup {e}
  BY <1>1, <1>2
<1>6. QED
  BY <1>4, <1>5 DEF t

\* A functor that is called leaves the batch for the ones that were called.
LEMMA MoveHead ==
  ASSUME NEW S, NEW r \in Seq(S), NEW b \in Seq(S), NEW p \in Seq(S), b # <<>>
  PROVE  Append(r, Head(b)) \o Tail(b) \o p = r \o b \o p
<1>1. /\ Head(b) \in S /\ Tail(b) \in Seq(S)
      /\ Len(b) \in Nat /\ Len(r) \in Nat /\ Len(Tail(b)) = Len(b) - 1
      /\ \A i \in 1..(Len(b) - 1) : Tail(b)[i] = b[i + 1]
      /\ Head(b) = b[1]
  BY HeadTailProperties, LenProperties
<1>2. Append(r, Head(b)) \o Tail(b) = r \o b
  <2> DEFINE u == Append(r, Head(b)) \o Tail(b)
             v == r \o b
  <2>1. u \in Seq(S) /\ v \in Seq(S)
    BY <1>1, AppendProperties, ConcatProperties
  <2>2. Len(u) = Len(v)
    BY <1>1
  <2>3. \A i \in 1..Len(u) : u[i] = v[i]
    BY <1>1
  <2>4. QED
    BY <2>1, <2>2, <2>3, SeqEqual
<1>3. QED
  BY <1>2

\* Only queueInLoop changes what was queued, and it puts a new functor at the
\* end.
LEMMA EverythingStep ==
  ASSUME Types, FlagsTellPlace, [Next]_vars
  PROVE  \/ Everything' = Everything /\ Queued' = Queued
         \/ \E f \in Functors \ Queued :
              Everything' = Append(Everything, f) /\ Queued' = Queued \cup {f}
<1> USE DEF Types, queueVars, loopVars, LoopThreadAt
<1>1. CASE EnterLoop \/ TestQuit \/ Poll \/ HandleRead \/ HandleEvent
           \/ CallbackReturns \/ AllHandled \/ FunctorReturns
           \/ EndPendingFunctors \/ \E th \in Threads : Wakeup(th) \/ Quit(th)
  BY <1>1 DEF EnterLoop, TestQuit, Poll, HandleRead, HandleEvent,
              CallbackReturns, AllHandled, FunctorReturns, EndPendingFunctors,
              Wakeup, Quit, Everything, Queued
<1>2. CASE SwapFunctors
  BY <1>2 DEF SwapFunctors, FlagsTellPlace, Everything, Queued
<1>3. CASE CallFunctor
  <2>1. UNCHANGED <<pendingFunctors, origin>>
    BY <1>3 DEF CallFunctor
  <2>2. functors # <<>> /\ ran' = Append(ran, Head(functors)) /\ functors' = Tail(functors)
    BY <1>3 DEF CallFunctor
  <2>3. Append(ran, Head(functors)) \o Tail(functors) \o pendingFunctors
          = ran \o functors \o pendingFunctors
    <3>1. /\ ran \in Seq(Functors) /\ functors \in Seq(Functors)
          /\ pendingFunctors \in Seq(Functors) /\ functors # <<>>
      BY <2>2
    <3>2. QED
      BY ONLY <3>1, MoveHead
  <2>4. Everything' = Everything
    BY <2>1, <2>2, <2>3 DEF Everything
  <2>5. QED
    BY <2>1, <2>4 DEF Queued
<1>4. ASSUME NEW th \in Threads, NEW f \in Functors, QueueInLoop(th, f)
      PROVE  /\ f \notin Queued /\ Queued' = Queued \cup {f}
             /\ Everything' = Append(Everything, f)
  <2>1. origin[f] = "none" /\ CallSite(th) \notin {"none", "now"}
    BY <1>4 DEF QueueInLoop, CallSite, MayCall, UserCode
  <2>2. f \notin Queued /\ Queued' = Queued \cup {f}
    BY <1>4, <2>1 DEF QueueInLoop, Queued
  <2>3. Everything' = Append(Everything, f)
    BY <1>4 DEF QueueInLoop, Everything
  <2>4. QED
    BY <2>2, <2>3
<1>5. ASSUME NEW th \in Threads, NEW f \in Functors, RunInLoop(th, f)
      PROVE  \/ Everything' = Everything /\ Queued' = Queued
             \/ /\ f \notin Queued /\ Queued' = Queued \cup {f}
                /\ Everything' = Append(Everything, f)
  <2>1. CASE isInLoopThread(th)
    BY <1>5, <2>1 DEF RunInLoop, Everything, Queued
  <2>2. CASE ~isInLoopThread(th)
    BY <1>4, <1>5, <2>2 DEF RunInLoop
  <2>3. QED
    BY <2>1, <2>2
<1>6. CASE UNCHANGED vars
  BY <1>6 DEF vars, Everything, Queued
<1>7. QED
  BY <1>1, <1>2, <1>3, <1>4, <1>5, <1>6 DEF Next, LoopStep

\* No functor is lost or called twice, for any number of threads and functors
\* (queueInLoop and doPendingFunctors, EventLoop.cpp:150-203).
THEOREM NoFunctorLost == SafeSpec => []NoneLostNoneTwice
<1>1. Init => NoneLostNoneTwice
  <2> SUFFICES ASSUME Init PROVE NoneLostNoneTwice
    OBVIOUS
  <2>1. Everything = <<>> /\ Queued = {}
    BY DEF Init, Everything, Queued
  <2>2. QED
    BY <2>1 DEF NoneLostNoneTwice, Queued
<1>2. IndInv /\ NoneLostNoneTwice /\ [Next]_vars => NoneLostNoneTwice'
  <2> SUFFICES ASSUME IndInv, NoneLostNoneTwice, [Next]_vars
               PROVE  NoneLostNoneTwice'
    OBVIOUS
  <2>1. Types /\ FlagsTellPlace
    BY DEF IndInv
  <2>2. CASE Everything' = Everything /\ Queued' = Queued
    BY <2>2 DEF NoneLostNoneTwice, Queued
  <2>3. ASSUME NEW f \in Functors \ Queued,
               Everything' = Append(Everything, f), Queued' = Queued \cup {f}
        PROVE  NoneLostNoneTwice'
    <3>1. Everything \in Seq(Functors)
      BY <2>1, ConcatProperties DEF Everything, Types
    <3>2. /\ \A i, j \in 1..Len(Everything) : Everything[i] = Everything[j] => i = j
          /\ {Everything[i] : i \in 1..Len(Everything)} = Queued
      BY DEF NoneLostNoneTwice, Queued
    <3> HIDE DEF Everything, Queued
    <3>3. LET t == Append(Everything, f)
          IN /\ \A i, j \in 1..Len(t) : t[i] = t[j] => i = j
             /\ {t[i] : i \in 1..Len(t)} = Queued \cup {f}
      BY <3>1, <3>2, AppendDistinct
    <3>4. QED
      BY <2>3, <3>3 DEF NoneLostNoneTwice, Queued
  <2>4. QED
    BY <2>1, <2>2, <2>3, EverythingStep
<1>3. QED
  BY <1>1, <1>2, Invariance, PTL DEF SafeSpec

\* The batch of doPendingFunctors is fixed while its functors run: what they
\* queue waits for the next iteration (EventLoop.cpp:184-203).
THEOREM BatchIsFixed == SafeSpec => DrainIsBounded
<1>1. [Next]_vars => [pc = "functor" => functors' = functors]_vars
  <2> SUFFICES ASSUME [Next]_vars, pc = "functor" PROVE functors' = functors
    OBVIOUS
  <2> USE DEF queueVars, loopVars, LoopThreadAt
  <2>1. CASE LoopStep
    BY <2>1 DEF LoopStep, TestQuit, Poll, HandleRead, HandleEvent,
                CallbackReturns, AllHandled, SwapFunctors, CallFunctor,
                FunctorReturns, EndPendingFunctors
  <2>2. CASE EnterLoop \/ \E th \in Threads : Wakeup(th) \/ Quit(th)
    BY <2>2 DEF EnterLoop, Wakeup, Quit
  <2>3. CASE \E th \in Threads, f \in Functors : QueueInLoop(th, f) \/ RunInLoop(th, f)
    BY <2>3 DEF QueueInLoop, RunInLoop
  <2>4. CASE UNCHANGED vars
    BY <2>4 DEF vars
  <2>5. QED
    BY <2>1, <2>2, <2>3, <2>4 DEF Next
<1>2. QED
  BY <1>1, PTL DEF SafeSpec, DrainIsBounded
=============================================================================
