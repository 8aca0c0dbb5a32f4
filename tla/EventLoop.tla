----------------------------- MODULE EventLoop ------------------------------
(***************************************************************************)
(* EventLoop (EventLoop.h, EventLoop.cpp): one loop, the thread it belongs *)
(* to and the other threads that hand it functors or ask it to quit.       *)
(*                                                                         *)
(* The loop thread goes round the while of loop(): test quit_, poll, the   *)
(* handlers of the active channels, doPendingFunctors.  The other threads  *)
(* interleave with it at every step.  A call of queueInLoop or quit is two *)
(* steps, because the store and the wakeup() that follows it are not       *)
(* atomic; the critical section of mutex_ is one step, since               *)
(* pendingFunctors is touched nowhere else.                                *)
(*                                                                         *)
(* User code runs on the loop thread in three places: outside loop(), in   *)
(* a channel's callback and in a functor.  There it may call queueInLoop,  *)
(* runInLoop and quit any number of times.  Every functor is handed over   *)
(* once, so a functor is the name of one call.  Accesses to quit_, which   *)
(* the header marks atomic, are single steps.                              *)
(***************************************************************************)
EXTENDS Integers, Sequences

CONSTANTS
  LoopThread,     \* the thread that constructed the loop (threadId_)
  OtherThreads,   \* the threads that call it from outside
  Functors,       \* the calls of queueInLoop and runInLoop
  EventfdMax      \* largest counter an eventfd holds (2^64 - 2 in Linux)

ASSUME ThreadsAssumption == LoopThread \notin OtherThreads
ASSUME EventfdAssumption == EventfdMax \in Nat \ {0}

Threads == OtherThreads \cup {LoopThread}

VARIABLES
  looping,                  \* looping_
  quit,                     \* quit_
  callingPendingFunctors,   \* callingPendingFunctors_
  pendingFunctors,          \* pendingFunctors
  functors,                 \* local of doPendingFunctors: not called yet
  activeChannels,           \* activeChannels_ not handled yet
  wakeupFd,                 \* counter of the eventfd wakeupFd_
  pc,                       \* where the loop thread is
  waking,                   \* threads between a store and their wakeup()
  origin,                   \* history: from where a functor was handed over
  ran                       \* history: the functors called off the queue

vars == <<looping, quit, callingPendingFunctors, pendingFunctors, functors,
          activeChannels, wakeupFd, pc, waking, origin, ran>>

queueVars == <<pendingFunctors, origin>>
loopVars == <<looping, callingPendingFunctors, functors, activeChannels, ran>>

\* "wakeup" is wakeupChannel_; "io" stands for the timer, listening and
\* connection channels, whose handlers are user code to the loop.
Channels == {"wakeup", "io"}

UserCode == {"outside", "callback", "functor"}
PC == UserCode \cup {"check", "poll", "dispatch", "pending", "run"}

\* "none": not handed over yet; "now": run on the spot by runInLoop; else the
\* place of the call of queueInLoop.
Origins == UserCode \cup {"none", "now", "other"}

Types ==
  /\ looping \in BOOLEAN
  /\ quit \in BOOLEAN
  /\ callingPendingFunctors \in BOOLEAN
  /\ pendingFunctors \in Seq(Functors)
  /\ functors \in Seq(Functors)
  /\ activeChannels \in SUBSET Channels
  /\ wakeupFd \in 0..EventfdMax
  /\ pc \in PC
  /\ waking \in SUBSET Threads
  /\ origin \in [Functors -> Origins]
  /\ ran \in Seq(Functors)

\* looping_ is what loop() asserts on entry (EventLoop.cpp:67), and
\* callingPendingFunctors_ what queueInLoop tests for the wakeup; the batch is a
\* local of doPendingFunctors.
FlagsTellPlace ==
  /\ looping <=> pc # "outside"
  /\ callingPendingFunctors <=> pc \in {"run", "functor"}
  /\ pc \notin {"run", "functor"} => functors = <<>>

\* Every variable has its type, and the flags agree with where the loop thread is,
\* in whatever order loop() is left and entered again.
TypeOK == Types /\ FlagsTellPlace

Init ==
  /\ looping = FALSE
  /\ quit = FALSE
  /\ callingPendingFunctors = FALSE
  /\ pendingFunctors = <<>>
  /\ functors = <<>>
  /\ activeChannels = {}
  /\ wakeupFd = 0
  /\ pc = "outside"
  /\ waking = {}
  /\ origin = [f \in Functors |-> "none"]
  /\ ran = <<>>

-----------------------------------------------------------------------------
(* Calls any thread may make.                                              *)

isInLoopThread(th) == th = LoopThread

\* A thread inside wakeup() is busy; the loop thread calls from user code only.
MayCall(th) ==
  /\ th \notin waking
  /\ isInLoopThread(th) => pc \in UserCode

CallSite(th) == IF isInLoopThread(th) THEN pc ELSE "other"

\* write(2) on the eventfd: at the limit it fails with EAGAIN, which
\* wakeup() only logs.
Wakeup(th) ==
  /\ th \in waking
  /\ wakeupFd' = IF wakeupFd < EventfdMax THEN wakeupFd + 1 ELSE wakeupFd
  /\ waking' = waking \ {th}
  /\ UNCHANGED <<quit, pc, queueVars, loopVars>>

QueueInLoopWakesOtherThreadsOnly(th, f) ==  \* mutant
  /\ MayCall(th)
  /\ origin[f] = "none"
  /\ origin' = [origin EXCEPT ![f] = CallSite(th)]
  /\ pendingFunctors' = Append(pendingFunctors, f)
  /\ waking' = IF ~isInLoopThread(th) THEN waking \cup {th} ELSE waking
  /\ UNCHANGED <<quit, pc, wakeupFd, loopVars>>

QueueInLoopIntoBatch(th, f) ==  \* mutant
  /\ MayCall(th)
  /\ origin[f] = "none"
  /\ origin' = [origin EXCEPT ![f] = CallSite(th)]
  /\ IF callingPendingFunctors /\ isInLoopThread(th)
     THEN functors' = Append(functors, f) /\ UNCHANGED pendingFunctors
     ELSE pendingFunctors' = Append(pendingFunctors, f) /\ UNCHANGED functors
  /\ waking' = IF ~isInLoopThread(th) \/ callingPendingFunctors
               THEN waking \cup {th}
               ELSE waking
  /\ UNCHANGED <<quit, pc, wakeupFd, looping, callingPendingFunctors,
                 activeChannels, ran>>

\* The functor is pushed under mutex_; then wakeup() unless the caller is the
\* loop thread and is not in doPendingFunctors.
QueueInLoop(th, f) ==
  /\ MayCall(th)
  /\ origin[f] = "none"
  /\ origin' = [origin EXCEPT ![f] = CallSite(th)]
  /\ pendingFunctors' = Append(pendingFunctors, f)
  /\ waking' = IF ~isInLoopThread(th) \/ callingPendingFunctors
               THEN waking \cup {th}
               ELSE waking
  /\ UNCHANGED <<quit, pc, wakeupFd, loopVars>>

\* On the loop thread cb() is called at once; what it does are further calls.
RunInLoop(th, f) ==
  \/ /\ isInLoopThread(th)
     /\ MayCall(th)
     /\ origin[f] = "none"
     /\ origin' = [origin EXCEPT ![f] = "now"]
     /\ UNCHANGED <<quit, pc, wakeupFd, waking, pendingFunctors, loopVars>>
  \/ /\ ~isInLoopThread(th)
     /\ QueueInLoop(th, f)

QuitNoWakeup(th) ==  \* mutant
  /\ MayCall(th)
  /\ quit' = TRUE
  /\ UNCHANGED <<pc, wakeupFd, waking, queueVars, loopVars>>

Quit(th) ==
  /\ MayCall(th)
  /\ quit' = TRUE
  /\ waking' = IF ~isInLoopThread(th) THEN waking \cup {th} ELSE waking
  /\ UNCHANGED <<pc, wakeupFd, queueVars, loopVars>>

-----------------------------------------------------------------------------
(* The steps of loop() on the loop thread.                                 *)

LoopThreadAt(where) == pc = where /\ LoopThread \notin waking

EnterLoop ==
  /\ LoopThreadAt("outside")
  /\ looping' = TRUE
  /\ quit' = FALSE
  /\ pc' = "check"
  /\ UNCHANGED <<callingPendingFunctors, functors, activeChannels, wakeupFd,
                 waking, ran, queueVars>>

\* while(!quit_): leave loop(), or clear activeChannels_ and go to poll.
TestQuit ==
  /\ LoopThreadAt("check")
  /\ pc' = IF quit THEN "outside" ELSE "poll"
  /\ looping' = ~quit
  /\ activeChannels' = {}
  /\ UNCHANGED <<quit, callingPendingFunctors, functors, wakeupFd, waking,
                 ran, queueVars>>

PollClearsQuit ==  \* mutant
  /\ LoopThreadAt("poll")
  /\ \E io \in SUBSET {"io"} :
       activeChannels' = io \cup {c \in {"wakeup"} : wakeupFd > 0}
  /\ pc' = "dispatch"
  /\ quit' = FALSE
  /\ UNCHANGED <<looping, callingPendingFunctors, functors, wakeupFd,
                 waking, ran, queueVars>>

\* Poller::poll returns: the wakeup channel is active iff its counter is not
\* zero; no active channel at all is a timeout (kPollTimeMs) or an error.
Poll ==
  /\ LoopThreadAt("poll")
  /\ \E io \in SUBSET {"io"} :
       activeChannels' = io \cup {c \in {"wakeup"} : wakeupFd > 0}
  /\ pc' = "dispatch"
  /\ UNCHANGED <<looping, quit, callingPendingFunctors, functors, wakeupFd,
                 waking, ran, queueVars>>

\* EventLoop::handleRead: the read resets the counter of the eventfd.
HandleRead ==
  /\ LoopThreadAt("dispatch")
  /\ "wakeup" \in activeChannels
  /\ activeChannels' = activeChannels \ {"wakeup"}
  /\ wakeupFd' = 0
  /\ UNCHANGED <<looping, quit, callingPendingFunctors, functors, pc, waking,
                 ran, queueVars>>

\* Channel::handleEvent of another channel calls into user code ...
HandleEvent ==
  /\ LoopThreadAt("dispatch")
  /\ "io" \in activeChannels
  /\ activeChannels' = activeChannels \ {"io"}
  /\ pc' = "callback"
  /\ UNCHANGED <<looping, quit, callingPendingFunctors, functors, wakeupFd,
                 waking, ran, queueVars>>

\* ... which returns.
CallbackReturns ==
  /\ LoopThreadAt("callback")
  /\ pc' = "dispatch"
  /\ UNCHANGED <<quit, wakeupFd, waking, queueVars, loopVars>>

AllHandledTestsQuit ==  \* mutant
  /\ LoopThreadAt("dispatch")
  /\ activeChannels = {}
  /\ pc' = IF quit THEN "check" ELSE "pending"
  /\ UNCHANGED <<quit, wakeupFd, waking, queueVars, loopVars>>

\* Every active channel is handled: doPendingFunctors is next.
AllHandled ==
  /\ LoopThreadAt("dispatch")
  /\ activeChannels = {}
  /\ pc' = "pending"
  /\ UNCHANGED <<quit, wakeupFd, waking, queueVars, loopVars>>

CopyFunctors ==  \* mutant
  /\ LoopThreadAt("pending")
  /\ callingPendingFunctors' = TRUE
  /\ functors' = pendingFunctors
  /\ pc' = "run"
  /\ UNCHANGED <<looping, quit, activeChannels, wakeupFd, waking, ran,
                 queueVars>>

\* doPendingFunctors takes the whole queue under mutex_.
SwapFunctors ==
  /\ LoopThreadAt("pending")
  /\ callingPendingFunctors' = TRUE
  /\ functors' = pendingFunctors
  /\ pendingFunctors' = <<>>
  /\ pc' = "run"
  /\ UNCHANGED <<looping, quit, activeChannels, wakeupFd, waking, origin, ran>>

CallLastFunctor ==  \* mutant
  /\ LoopThreadAt("run")
  /\ functors # <<>>
  /\ ran' = Append(ran, functors[Len(functors)])
  /\ functors' = SubSeq(functors, 1, Len(functors) - 1)
  /\ pc' = "functor"
  /\ UNCHANGED <<looping, quit, callingPendingFunctors, activeChannels,
                 wakeupFd, waking, queueVars>>

\* functors[i](): user code again, until it returns.
CallFunctor ==
  /\ LoopThreadAt("run")
  /\ functors # <<>>
  /\ ran' = Append(ran, Head(functors))
  /\ functors' = Tail(functors)
  /\ pc' = "functor"
  /\ UNCHANGED <<looping, quit, callingPendingFunctors, activeChannels,
                 wakeupFd, waking, queueVars>>

FunctorReturns ==
  /\ LoopThreadAt("functor")
  /\ pc' = "run"
  /\ UNCHANGED <<quit, wakeupFd, waking, queueVars, loopVars>>

EndPendingFunctorsKeepsFlag ==  \* mutant
  /\ LoopThreadAt("run")
  /\ functors = <<>>
  /\ pc' = "check"
  /\ UNCHANGED <<looping, quit, callingPendingFunctors, functors, activeChannels,
                 wakeupFd, waking, ran, queueVars>>

EndPendingFunctors ==
  /\ LoopThreadAt("run")
  /\ functors = <<>>
  /\ callingPendingFunctors' = FALSE
  /\ pc' = "check"
  /\ UNCHANGED <<looping, quit, functors, activeChannels, wakeupFd, waking,
                 ran, queueVars>>

\* One step of a call of loop() that has begun.
LoopStep ==
  \/ TestQuit
  \/ Poll
  \/ HandleRead
  \/ HandleEvent
  \/ CallbackReturns
  \/ AllHandled
  \/ SwapFunctors
  \/ CallFunctor
  \/ FunctorReturns
  \/ EndPendingFunctors

Next ==
  \/ EnterLoop
  \/ LoopStep
  \/ \E th \in Threads : Wakeup(th) \/ Quit(th)
  \/ \E th \in Threads, f \in Functors : QueueInLoop(th, f) \/ RunInLoop(th, f)

SafeSpec == Init /\ [][Next]_vars

\* Threads that have begun a call finish it, and callbacks and functors
\* return; nobody has to call anything.  poll returns after kPollTimeMs at
\* the latest.
Fairness ==
  /\ WF_vars(LoopStep)
  /\ \A th \in Threads : WF_vars(Wakeup(th))

Spec == SafeSpec /\ Fairness

-----------------------------------------------------------------------------
(* Properties.                                                             *)

\* wakeup() is under way or the eventfd makes poll return at once.
WakeupComing == waking # {} \/ wakeupFd > 0

\* The loop never blocks in poll for its ten seconds while a functor waits
\* that another thread or a running functor has queued (queueInLoop's
\* condition at EventLoop.cpp:159).  Only what the loop thread queued before
\* it called loop() waits for the first poll to end.
FunctorWakesPoll ==
  (pc = "poll" /\ \E i \in 1..Len(pendingFunctors) :
                     origin[pendingFunctors[i]] \in {"other", "functor"})
    => WakeupComing

\* The loop never blocks in poll after another thread asked it to quit.
QuitWakesPoll == (pc = "poll" /\ quit) => WakeupComing

\* A functor queued by a channel's callback is called before the next poll:
\* TcpServer::removeConnection relies on it to have connectDestroyed take a
\* closed connection out of the poller before it is polled again.
CallbackFunctorsPrecedePoll ==
  pc \in {"check", "poll"} =>
    \A i \in 1..Len(pendingFunctors) : origin[pendingFunctors[i]] # "callback"

\* No functor is lost or called twice, whatever the threads do between the
\* swap, the calls and the end of loop(): the ones queued are exactly the
\* ones called, in the batch or pending, each of them once.
Everything == ran \o functors \o pendingFunctors

NoneLostNoneTwice ==
  /\ \A i, j \in 1..Len(Everything) : Everything[i] = Everything[j] => i = j
  /\ {Everything[i] : i \in 1..Len(Everything)}
       = {f \in Functors : origin[f] \notin {"none", "now"}}

\* doPendingFunctors calls a fixed batch: functors queued meanwhile wait for
\* the next iteration, so functors that queue functors never keep the loop
\* from polling.
DrainIsBounded ==
  [][pc = "functor" => functors' = functors]_vars

\* A loop told to quit while it loops stops.
QuitStopsLoop == (looping /\ quit) ~> ~looping

\* The loop is a first-come first-served executor of the functors handed to
\* it, which calls every one of them eventually unless it stops.
Executor == INSTANCE TaskExecutor WITH
  Tasks <- Functors,
  running <- looping,
  submitted <- {f \in Functors : origin[f] # "none"},
  waiting <- functors \o pendingFunctors,
  done <- ran

ImplementsTaskExecutor == Executor!Spec
=============================================================================
