----------------------------- MODULE TimerQueue -----------------------------
(***************************************************************************)
(* TimerQueue, Timer and Timestamp (TimerQueue.cpp, time/): the timers of  *)
(* a loop, kept in order of expiration, behind one timerfd that is armed   *)
(* for the earliest.                                                       *)
(*                                                                         *)
(* Two clocks meet here.  Expirations are readings of the wall clock       *)
(* (gettimeofday); the timerfd counts down a delay on the monotonic clock. *)
(* Tick advances both; AdjustClock moves the wall clock alone, as an       *)
(* administrator or NTP does, at most MaxAdjustments times.  The unit of   *)
(* time is the microsecond; delays and intervals are doubles, finer than   *)
(* that, and count in fractions of Resolution to the microsecond.  The     *)
(* wall clock stops at MaxTime, later than any expiration that a caller    *)
(* asks for, while the timerfd counts on.                                  *)
(*                                                                         *)
(* Callers of runAt, runAfter and runEvery (EventLoop.cpp) add a timer     *)
(* from the loop thread: in a functor, a handler or a timer's own          *)
(* callback.  Those of RemoteTimers are added by another thread.           *)
(***************************************************************************)
EXTENDS Integers, FiniteSets

CONSTANTS
  Timers,          \* Timer objects, each added once
  RemoteTimers,    \* the ones added by another thread than the loop's
  interval,        \* interval_ of a timer, in fractions; 0: it does not repeat
  Resolution,      \* fractions of a microsecond that a double tells apart
  MinDelay,        \* least delay of the timerfd: 100 in the code
  MaxWhen,         \* bound: expirations that callers ask for
  MaxTime,         \* bound: readings of the wall clock
  MaxAdjustments   \* bound: jumps of the wall clock

ASSUME TimersAssumption == RemoteTimers \subseteq Timers
ASSUME IntervalAssumption == interval \in [Timers -> Nat]
ASSUME TimeAssumption ==
  /\ MinDelay \in Nat \ {0} /\ Resolution \in Nat \ {0} /\ MaxAdjustments \in Nat
  /\ MaxWhen \in Nat /\ MaxTime \in Nat /\ MaxWhen < MaxTime

VARIABLES
  timers,       \* timers_: the timers in the set
  expiration,   \* expiration_ of a timer, the key of its entry
  clock,        \* what Timestamp::now() reads
  timerfd,      \* delay until the timerfd expires; 0: disarmed
  readable,     \* the timerfd has expired and was not read
  reported,     \* poll has reported it, handleRead is to come
  pc,           \* "idle", or handleRead "runs" callbacks, or "aborted"
  now,          \* handleRead's local now
  expired,      \* handleRead's expired whose callbacks are still to be called
  called,       \* ... and those whose callbacks were called
  state,        \* of a timer: "new", "passed" in a functor, "added", or "lost"
  frames,       \* timers whose addTimer has not returned
  fired,        \* history: number of calls of a timer's callback, up to 2
  takenAt,      \* history: handleRead's now when a timer last expired
  adjustments   \* jumps of the wall clock so far

vars == <<timers, expiration, clock, timerfd, readable, reported, pc, now,
          expired, called, state, frames, fired, takenAt, adjustments>>

queueVars == <<timers, expiration>>
fdVars == <<timerfd, readable>>
handleReadVars == <<now, expired, called>>
callerVars == <<state, frames>>
historyVars == <<fired, takenAt>>

Repeats(t) == interval[t] > 0
valid(when) == when > 0

\* The cast to int64_t drops the fractions.
addTime(time, delay) == time + delay \div Resolution

TypeOK ==
  /\ timers \in SUBSET Timers
  /\ expiration \in [Timers -> Nat]
  /\ clock \in 1..MaxTime
  /\ timerfd \in Nat
  /\ readable \in BOOLEAN
  /\ reported \in BOOLEAN
  /\ pc \in {"idle", "runs", "aborted"}
  /\ now \in 0..MaxTime
  /\ expired \in SUBSET Timers
  /\ called \in SUBSET Timers
  /\ state \in [Timers -> {"new", "passed", "added", "lost"}]
  /\ frames \in SUBSET Timers
  /\ fired \in [Timers -> 0..2]
  /\ takenAt \in [Timers -> 0..MaxTime]
  /\ adjustments \in 0..MaxAdjustments

Init ==
  /\ timers = {}
  /\ expiration = [t \in Timers |-> 0]
  /\ clock = 1
  /\ timerfd = 0
  /\ readable = FALSE
  /\ reported = FALSE
  /\ pc = "idle"
  /\ now = 0
  /\ expired = {}
  /\ called = {}
  /\ state = [t \in Timers |-> "new"]
  /\ frames = {}
  /\ fired = [t \in Timers |-> 0]
  /\ takenAt = [t \in Timers |-> 0]
  /\ adjustments = 0

-----------------------------------------------------------------------------
(* The clocks and the timerfd.                                             *)

Tick ==
  /\ clock' = IF clock < MaxTime THEN clock + 1 ELSE clock
  /\ timerfd' = IF timerfd > 0 THEN timerfd - 1 ELSE 0
  /\ readable' = (readable \/ timerfd = 1)
  /\ UNCHANGED <<queueVars, reported, pc, handleReadVars, callerVars,
                 historyVars, adjustments>>

AdjustClock ==
  /\ adjustments < MaxAdjustments
  /\ clock' \in 1..MaxTime
  /\ adjustments' = adjustments + 1
  /\ UNCHANGED <<queueVars, fdVars, reported, pc, handleReadVars, callerVars,
                 historyVars>>

HowMuchTimeSigned(when) ==  \* mutant
  when - clock

HowMuchTimeUnclamped(when) ==  \* mutant
  IF when > clock THEN when - clock ELSE 0

howMuchTimeFromNow(when) ==
  IF when - clock < MinDelay THEN MinDelay ELSE when - clock

\* timerfd_settime: a new delay; an expiration that was not read is forgotten.
resetTimerfd(when) ==
  /\ timerfd' = howMuchTimeFromNow(when)
  /\ readable' = FALSE

Earliest(ts, exp) == CHOOSE t \in ts : \A u \in ts : exp[t] <= exp[u]

-----------------------------------------------------------------------------
(* Adding a timer.                                                         *)

\* Where user code runs on the loop thread.
LoopThreadMayCall == pc \in {"idle", "runs"}

InsertComparesWrongWay(t, when) ==  \* mutant
  timers = {} \/ expiration[Earliest(timers, expiration)] < when

\* insert's result: the timer is to expire before all others.
earliestChanged(t, when) ==
  timers = {} \/ when < expiration[Earliest(timers, expiration)]

addTimerInLoop(t, when) ==
  /\ timers' = timers \cup {t}
  /\ expiration' = [expiration EXCEPT ![t] = when]
  /\ IF earliestChanged(t, when) THEN resetTimerfd(when) ELSE UNCHANGED fdVars

\* runInLoop on the loop thread calls addTimerInLoop at once.
addTimer(t, when) ==
  /\ LoopThreadMayCall
  /\ when <= MaxWhen
  /\ t \notin RemoteTimers
  /\ state[t] = "new"
  /\ addTimerInLoop(t, when)
  /\ state' = [state EXCEPT ![t] = "added"]
  /\ UNCHANGED <<clock, reported, pc, handleReadVars, frames, historyVars,
                 adjustments>>

\* On another thread runInLoop queues the functor, which holds a reference to
\* addTimer's local ...
addTimerRemotely(t, when) ==
  /\ when <= MaxWhen
  /\ t \in RemoteTimers
  /\ state[t] = "new"
  /\ expiration' = [expiration EXCEPT ![t] = when]
  /\ state' = [state EXCEPT ![t] = "passed"]
  /\ frames' = frames \cup {t}
  /\ UNCHANGED <<timers, clock, fdVars, reported, pc, handleReadVars,
                 historyVars, adjustments>>

\* ... and addTimer returns, whether the functor has run or not.
addTimerReturns(t) ==
  /\ t \in frames
  /\ frames' = frames \ {t}
  /\ UNCHANGED <<queueVars, clock, fdVars, reported, pc, handleReadVars, state,
                 historyVars, adjustments>>

\* The functor.  Once the local is gone what it reads is undefined: the timer with
\* another expiration, or no timer of the queue's at all, and nothing is added or
\* the process ends.
runAddTimer(t) ==
  /\ pc = "idle"
  /\ state[t] = "passed"
  /\ \/ /\ t \in frames
        /\ addTimerInLoop(t, expiration[t])
        /\ state' = [state EXCEPT ![t] = "added"]
        /\ UNCHANGED pc
     \/ /\ t \notin frames
        /\ \E when \in 0..MaxWhen : addTimerInLoop(t, when)
        /\ state' = [state EXCEPT ![t] = "added"]
        /\ UNCHANGED pc
     \/ /\ t \notin frames
        /\ state' = [state EXCEPT ![t] = "lost"]
        /\ pc' \in {"idle", "aborted"}
        /\ UNCHANGED <<queueVars, fdVars>>
  /\ UNCHANGED <<clock, reported, handleReadVars, frames, historyVars,
                 adjustments>>

\* The calls of a loop's users, on either thread; a time to come is counted from
\* the caller's now.
Add(t, when) == addTimer(t, when) \/ addTimerRemotely(t, when)

runAt(t, when) == ~Repeats(t) /\ Add(t, when)
runAfter(t, delay) == ~Repeats(t) /\ Add(t, addTime(clock, delay))
runEvery(t) == Repeats(t) /\ Add(t, addTime(clock, interval[t]))

-----------------------------------------------------------------------------
(* The timerfd expires.                                                    *)

\* poll reports the timerfd; handlers of other channels may run before its own.
PollReports ==
  /\ pc = "idle"
  /\ readable
  /\ reported' = TRUE
  /\ UNCHANGED <<queueVars, clock, fdVars, pc, handleReadVars, callerVars,
                 historyVars, adjustments>>

EraseNothing(es) ==  \* mutant
  timers

EraseEntries(es) == timers \ es

\* getExpired looks the entries up with {now, null}, which precedes every
\* entry of the same time, and asserts that the next entry is later than now.
getExpired ==
  \/ /\ \E t \in timers : expiration[t] = clock
     /\ pc' = "aborted"
     /\ UNCHANGED <<timers, expired>>
  \/ /\ \A t \in timers : expiration[t] # clock
     /\ pc' = "runs"
     /\ expired' = {t \in timers : expiration[t] < clock}
     /\ timers' = EraseEntries(expired')

readTimerfd == readable' = FALSE

\* The read finds nothing when the timerfd was set anew after poll; that is
\* only logged.
handleRead ==
  /\ pc = "idle"
  /\ reported
  /\ reported' = FALSE
  /\ now' = clock
  /\ readTimerfd
  /\ getExpired
  /\ called' = {}
  /\ takenAt' = [t \in Timers |-> IF t \in expired' THEN clock ELSE takenAt[t]]
  /\ UNCHANGED <<expiration, clock, timerfd, callerVars, fired, adjustments>>

\* run() of the next expired timer; its callback may add timers.
run(t) ==
  /\ pc = "runs"
  /\ t \in expired
  /\ \A u \in expired : expiration[t] <= expiration[u]
  /\ expired' = expired \ {t}
  /\ called' = called \cup {t}
  /\ fired' = [fired EXCEPT ![t] = IF @ < 2 THEN @ + 1 ELSE @]
  /\ UNCHANGED <<queueVars, clock, fdVars, reported, pc, now, callerVars,
                 takenAt, adjustments>>

RestartFromExpiration(t) ==  \* mutant
  addTime(expiration[t], interval[t])

\* The next expiration of a repeating timer, counted from handleRead's now.
restart(t) == addTime(now, interval[t])

MustArmAfterRunsOnly(ts, exp) ==  \* mutant
  called # {} /\ ts # {} /\ valid(exp[Earliest(ts, exp)])

\* reset's nextExpire is set and valid.
MustArm(ts, exp) == ts # {} /\ valid(exp[Earliest(ts, exp)])

\* Repeating timers restart and the timerfd is armed for the earliest timer.
\* An expiration of 0 is not valid and arms nothing.
reset ==
  /\ pc = "runs"
  /\ expired = {}
  /\ LET again == {t \in called : Repeats(t)}
         ts == timers \cup again
         exp == [t \in Timers |-> IF t \in again THEN restart(t)
                                                 ELSE expiration[t]]
     IN /\ timers' = ts
        /\ expiration' = exp
        /\ IF MustArm(ts, exp)
           THEN resetTimerfd(exp[Earliest(ts, exp)])
           ELSE UNCHANGED fdVars
  /\ pc' = "idle"
  /\ called' = {}
  /\ UNCHANGED <<clock, reported, now, expired, callerVars, historyVars,
                 adjustments>>

LoopStep ==
  \/ PollReports
  \/ handleRead
  \/ \E t \in Timers : run(t) \/ runAddTimer(t)
  \/ reset

Next ==
  \/ Tick
  \/ AdjustClock
  \/ \E t \in Timers, when \in 0..MaxWhen : runAt(t, when)
  \/ \E t \in Timers, delay \in 0..(MaxWhen * Resolution) : runAfter(t, delay)
  \/ \E t \in Timers : runEvery(t) \/ addTimerReturns(t)
  \/ LoopStep

SafeSpec == Init /\ [][Next]_vars

\* Time passes, and the loop goes on with what it has to do.
Fairness == WF_vars(Tick) /\ WF_vars(LoopStep)

Spec == SafeSpec /\ Fairness

-----------------------------------------------------------------------------
(* Properties.                                                             *)

\* While a timer is in the set the timerfd is armed, or has expired and will
\* be handled: no timer is forgotten, although the timerfd is one-shot, is
\* set anew by every earlier timer, which drops an expiration not yet read,
\* and is not armed by reset for an invalid time (TimerQueue.cpp:191).
NoTimerForgotten ==
  pc = "idle" /\ timers # {} => timerfd > 0 \/ readable \/ reported

\* As long as nobody adjusts the wall clock the timerfd expires in time for
\* every timer, or as soon as the least delay allows.
ArmedInTime ==
  pc = "idle" /\ ~readable /\ ~reported /\ adjustments = 0 =>
    \A t \in timers : timerfd <= howMuchTimeFromNow(expiration[t])

\* A timer that does not repeat is called once at most.
OneShotOnce == \A t \in Timers : ~Repeats(t) => fired[t] <= 1

\* A repeating timer expires again only when more than its whole interval has
\* passed on the wall clock since the handleRead that took it last, however late
\* that was, whatever its callback did in between, and although addTime drops
\* fractions of a microsecond: delays never make the calls bunch up
\* (Timer.cpp:12-22, Timestamp.h:68-72).
RepeatsSpaced ==
  [][pc = "idle" /\ pc' = "runs" =>
       \A t \in expired' : fired[t] > 0 =>
         (now' - takenAt[t]) * Resolution > interval[t]]_vars

\* Every timer that is in the queue is called, or the process has aborted.  (That
\* every timer asked for gets there is TimerAliveWhenAdded.)
TimersAreCalled ==
  \A t \in Timers : state[t] = "added" ~> fired[t] > 0 \/ pc = "aborted"

\* The assertion of getExpired never fails ("assert(it == timers_.end() || now
\* < it->first)", TimerQueue.cpp:146).
AssertionHolds == pc # "aborted"

\* A functor that adds a timer finds the timer ("线程安全", TimerQueue.h:37).
TimerAliveWhenAdded ==
  \A t \in Timers : state[t] = "passed" => t \in frames
=============================================================================
