-------------------------- MODULE TimerQueueProofs --------------------------
(***************************************************************************)
(* Proofs about TimerQueue for any set of timers, finite or not, any       *)
(* intervals, resolution, least delay and bounds.                          *)
(***************************************************************************)
EXTENDS TimerQueue, WellFoundedInduction, TLAPS

\* A set of natural numbers has a least one.
LEMMA LeastNatural ==
  ASSUME NEW T \in SUBSET Nat, T # {}
  PROVE  \E x \in T : \A y \in T : x <= y
<1> DEFINE R == OpToRel(<, Nat)
<1>1. IsWellFoundedOn(R, Nat)
  BY NatLessThanWellFounded
<1>2. \A y, x \in Nat : y < x => <<y, x>> \in R
  BY DEF OpToRel
<1> HIDE DEF R
<1>3. PICK x \in T : \A y \in T : ~(<<y, x>> \in R)
  BY <1>1, WFMin
<1>4. ASSUME NEW y \in T PROVE x <= y
  <2>1. x \in Nat /\ y \in Nat /\ ~(y < x)
    BY <1>2, <1>3
  <2>2. QED
    BY <2>1
<1>5. QED
  BY <1>4

\* Earliest is a timer of the set that no other precedes, the begin() of timers_.
LEMMA EarliestProperties ==
  ASSUME NEW ts \in SUBSET Timers, ts # {}, NEW exp \in [Timers -> Nat]
  PROVE  /\ Earliest(ts, exp) \in ts
         /\ \A u \in ts : exp[Earliest(ts, exp)] <= exp[u]
<1> DEFINE T == {exp[t] : t \in ts}
<1>1. T \in SUBSET Nat /\ T # {}
  OBVIOUS
<1>2. PICK x \in T : \A y \in T : x <= y
  BY <1>1, LeastNatural
<1>3. \E t \in ts : \A u \in ts : exp[t] <= exp[u]
  BY <1>2
<1>4. QED
  BY <1>3 DEF Earliest

\* Intervals are whole microseconds and a rest that addTime drops.
LEMMA DropsLessThanOne ==
  ASSUME NEW i \in Nat, NEW r \in Nat \ {0}
  PROVE  i \div r \in Nat /\ ((i \div r) + 1) * r > i
OBVIOUS

-----------------------------------------------------------------------------
(* The inductive invariant.                                                *)

\* A timer is in timers_ or in one of handleRead's lists, if it is anywhere, and
\* outside handleRead there are no such lists.
Placed ==
  /\ timers \cap expired = {} /\ timers \cap called = {} /\ expired \cap called = {}
  /\ \A t \in timers \cup expired \cup called : state[t] = "added"
  /\ pc # "runs" => expired = {} /\ called = {}

\* A timer that can be called now or later and does not repeat was not called.
Once ==
  \A t \in Timers :
    /\ state[t] # "added" => fired[t] = 0
    /\ ~Repeats(t) => fired[t] <= 1 /\ (t \in timers \cup expired => fired[t] = 0)

\* While callbacks run nothing arms the timerfd but a timer that they add before
\* all others; for one added with the invalid time 0, which reset passes over,
\* that has happened already.
Armed ==
  /\ NoTimerForgotten
  /\ ArmedInTime
  /\ pc = "runs" =>
       /\ ~reported
       /\ now > 0
       /\ \A t \in timers : expiration[t] = 0 =>
            readable \/ (timerfd > 0 /\ timerfd <= MinDelay)

\* The expiration of a timer that was called is counted from the handleRead that
\* took it.
Spaced ==
  /\ pc = "runs" => \A t \in expired \cup called : takenAt[t] = now
  /\ \A t \in timers : fired[t] > 0 => expiration[t] = addTime(takenAt[t], interval[t])

Inv == TypeOK /\ Placed /\ Once /\ Armed /\ Spaced


\* At the start there is no timer and the timerfd is not armed.
LEMMA InvInit == Init => Inv
<1> SUFFICES ASSUME Init PROVE Inv
  OBVIOUS
<1>1. 0 \in 0..MaxTime /\ 1 \in 1..MaxTime /\ 0 \in 0..MaxAdjustments /\ 0 \in Nat
  BY TimeAssumption
<1>2. readable \in BOOLEAN /\ reported \in BOOLEAN
  BY DEF Init
<1>3. TypeOK
  BY <1>1, <1>2 DEF Init, TypeOK
<1>4. QED
  BY <1>3 DEF Inv, Init, Placed, Once, Armed, NoTimerForgotten, ArmedInTime, Spaced

\* The delay of the timerfd is positive, and not the shorter the later it is to
\* expire.
LEMMA HowMuchProperties ==
  ASSUME TypeOK, NEW when \in Int
  PROVE  /\ howMuchTimeFromNow(when) \in Nat
         /\ howMuchTimeFromNow(when) >= MinDelay
         /\ MinDelay > 0
         /\ when <= clock => howMuchTimeFromNow(when) = MinDelay
         /\ \A later \in Int : when <= later =>
              howMuchTimeFromNow(when) <= howMuchTimeFromNow(later)
BY TimeAssumption DEF TypeOK, howMuchTimeFromNow

\* Time passes.
LEMMA TickStep ==
  ASSUME Inv, Tick
  PROVE  Inv'
<1> USE TimeAssumption DEF Inv, Tick, queueVars, handleReadVars, callerVars, historyVars
<1>0. /\ readable' \in BOOLEAN
      /\ readable => readable'
      /\ timerfd = 1 => readable'
  BY Zenon DEF TypeOK
<1>1. TypeOK'
  BY <1>0 DEF TypeOK
<1>2. Placed' /\ Once' /\ Spaced'
  BY DEF Placed, Once, Spaced, Repeats, addTime
<1>3. NoTimerForgotten'
  BY <1>0 DEF TypeOK, Armed, NoTimerForgotten
<1>4. ArmedInTime'
  <2> SUFFICES ASSUME pc = "idle", ~readable', ~reported, adjustments = 0,
                      NEW t \in timers
               PROVE  timerfd' <= howMuchTimeFromNow(expiration[t])'
    BY DEF ArmedInTime
  <2>1. timerfd <= howMuchTimeFromNow(expiration[t])
    BY <1>0 DEF Armed, ArmedInTime
  <2>2. expiration[t] \in Nat
    BY DEF TypeOK
  <2>3. QED
    BY <2>1, <2>2 DEF TypeOK, howMuchTimeFromNow
<1>5. QED
  BY <1>0, <1>1, <1>2, <1>3, <1>4 DEF Armed, TypeOK

\* An adjustment of the wall clock leaves the timerfd alone.
LEMMA AdjustStep ==
  ASSUME Inv, AdjustClock
  PROVE  Inv'
<1> USE TimeAssumption
    DEF Inv, AdjustClock, queueVars, fdVars, handleReadVars, callerVars, historyVars
<1>1. TypeOK'
  BY DEF TypeOK
<1>2. Placed' /\ Once' /\ Spaced'
  BY DEF Placed, Once, Spaced, Repeats, addTime
<1>3. NoTimerForgotten' /\ ArmedInTime'
  BY DEF TypeOK, Armed, NoTimerForgotten, ArmedInTime
<1>4. QED
  BY <1>1, <1>2, <1>3 DEF Armed

\* addTimerInLoop, at once or as a functor, with whatever expiration.
LEMMA InsertStep ==
  ASSUME Inv, NEW t \in Timers, NEW when \in Nat, LoopThreadMayCall,
         state[t] # "added", addTimerInLoop(t, when),
         state' = [state EXCEPT ![t] = "added"],
         UNCHANGED <<clock, reported, pc, handleReadVars, frames, historyVars,
                     adjustments>>
  PROVE  Inv'
<1> USE TimeAssumption DEF Inv, addTimerInLoop, handleReadVars, historyVars
<1> DEFINE first == Earliest(timers, expiration)
<1>1. /\ t \notin timers \cup expired \cup called
      /\ fired[t] = 0
  BY DEF Placed, Once
<1>2. \/ /\ timers = {} \/ when < expiration[first]
         /\ timerfd' = howMuchTimeFromNow(when) /\ readable' = FALSE
      \/ /\ timers # {} /\ ~(when < expiration[first])
         /\ UNCHANGED <<timerfd, readable>>
  BY DEF earliestChanged, resetTimerfd, fdVars
<1>3. timers # {} => /\ first \in timers
                     /\ \A u \in timers : expiration[first] <= expiration[u]
  BY EarliestProperties DEF TypeOK
<1>4. \A u \in Timers : expiration[u] \in Nat
  BY DEF TypeOK
<1> HIDE DEF first
<1>5. /\ howMuchTimeFromNow(when) \in Nat
      /\ howMuchTimeFromNow(when) > 0
      /\ when = 0 => howMuchTimeFromNow(when) = MinDelay
  BY HowMuchProperties DEF TypeOK, howMuchTimeFromNow
<1>6. TypeOK'
  BY <1>2, <1>5 DEF TypeOK
<1>7. Placed'
  BY <1>1 DEF Placed, TypeOK
<1>8. Once'
  BY <1>1 DEF Once, TypeOK
<1>9. Spaced'
  BY <1>1 DEF Spaced, TypeOK, addTime
<1>10. \A u \in timers : u # t /\ expiration'[u] = expiration[u] /\ u \in Timers
  BY <1>1 DEF TypeOK
<1>11. expiration'[t] = when /\ timers' = timers \cup {t}
  BY DEF TypeOK
<1>12. NoTimerForgotten'
  BY <1>2, <1>5 DEF Armed, NoTimerForgotten
<1>13. ArmedInTime'
  <2> SUFFICES ASSUME pc = "idle", ~readable', ~reported, adjustments = 0,
                      NEW u \in timers'
               PROVE  timerfd' <= howMuchTimeFromNow(expiration'[u])
    BY DEF ArmedInTime, howMuchTimeFromNow
  <2>1. CASE timers = {} \/ when < expiration[first]
    <3>1. timerfd' = howMuchTimeFromNow(when)
      BY <1>2, <2>1
    <3>2. when <= expiration'[u] /\ expiration'[u] \in Int
      BY <2>1, <1>3, <1>4, <1>10, <1>11
    <3>3. QED
      BY <3>1, <3>2, HowMuchProperties
  <2>2. CASE ~(timers = {} \/ when < expiration[first])
    <3>1. timerfd <= howMuchTimeFromNow(expiration[first]) /\ timerfd' = timerfd
      BY <1>2, <1>3, <2>2 DEF Armed, ArmedInTime
    <3>2. expiration[first] <= expiration'[u]
      BY <2>2, <1>3, <1>4, <1>10, <1>11
    <3>3. expiration[first] \in Int /\ expiration'[u] \in Int
      BY <2>2, <1>3, <1>4, <1>10, <1>11
    <3>4. howMuchTimeFromNow(expiration[first]) <= howMuchTimeFromNow(expiration'[u])
      BY <3>2, <3>3, HowMuchProperties
    <3>5. timerfd \in Nat /\ howMuchTimeFromNow(expiration[first]) \in Nat
          /\ howMuchTimeFromNow(expiration'[u]) \in Nat
      BY <3>3, HowMuchProperties DEF TypeOK
    <3>6. QED
      BY <3>1, <3>4, <3>5
  <2>3. QED
    BY <2>1, <2>2
<1>14. ASSUME pc = "runs", NEW u \in timers', expiration'[u] = 0
       PROVE  readable' \/ (timerfd' > 0 /\ timerfd' <= MinDelay)
  <2>1. CASE timers = {} \/ when < expiration[first]
    <3>1. u = t
      BY <2>1, <1>14, <1>3, <1>4, <1>10, <1>11
    <3>2. QED
      BY <2>1, <3>1, <1>14, <1>2, <1>5, <1>11
  <2>2. CASE ~(timers = {} \/ when < expiration[first])
    <3>1. first \in timers /\ expiration[first] = 0
      BY <2>2, <1>14, <1>3, <1>4, <1>10, <1>11
    <3>2. readable \/ (timerfd > 0 /\ timerfd <= MinDelay)
      BY <3>1, <1>14 DEF Armed
    <3>3. QED
      BY <2>2, <3>2, <1>2
  <2>3. QED
    BY <2>1, <2>2
<1>15. Armed'
  BY <1>12, <1>13, <1>14 DEF Armed
<1>16. QED
  BY <1>6, <1>7, <1>8, <1>9, <1>15

\* runAt, runAfter and runEvery, on either thread.
LEMMA AddStep ==
  ASSUME Inv, NEW t \in Timers, NEW when \in Nat, Add(t, when)
  PROVE  Inv'
<1>1. CASE addTimer(t, when)
  BY <1>1, InsertStep DEF addTimer
<1>2. CASE addTimerRemotely(t, when)
  <2> USE <1>2 DEF Inv, addTimerRemotely, fdVars, handleReadVars, historyVars
  <2>1. t \notin timers \cup expired \cup called
    BY DEF Placed
  <2>2. TypeOK'
    BY DEF TypeOK
  <2>3. \A u \in timers : expiration'[u] = expiration[u]
    BY <2>1 DEF TypeOK
  <2>4. Placed' /\ Once'
    BY <2>1 DEF Placed, Once, TypeOK
  <2>5. Spaced'
    BY <2>1, <2>3 DEF Spaced, addTime
  <2>6. NoTimerForgotten'
    BY DEF Armed, NoTimerForgotten
  <2>7. ArmedInTime'
    BY <2>3 DEF Armed, ArmedInTime, howMuchTimeFromNow
  <2>8. QED
    BY <2>2, <2>3, <2>4, <2>5, <2>6, <2>7 DEF Armed
<1>3. QED
  BY <1>1, <1>2 DEF Add

\* What runAfter and restart add is a number of whole microseconds.
LEMMA AddTimeType ==
  ASSUME NEW time \in Nat, NEW delay \in Nat
  PROVE  addTime(time, delay) \in Nat /\ addTime(time, delay) >= time
<1>1. delay \div Resolution \in Nat
  BY TimeAssumption, DropsLessThanOne
<1>2. QED
  BY <1>1 DEF addTime

\* The functor of another thread's addTimer.
LEMMA RunAddStep ==
  ASSUME Inv, NEW t \in Timers, runAddTimer(t)
  PROVE  Inv'
<1> USE DEF runAddTimer
<1>1. state[t] = "passed" /\ pc = "idle"
  OBVIOUS
<1>2. CASE /\ \E when \in Nat : addTimerInLoop(t, when)
           /\ state' = [state EXCEPT ![t] = "added"]
           /\ UNCHANGED pc
  <2>1. PICK when \in Nat : addTimerInLoop(t, when)
    BY <1>2
  <2>2. QED
    BY <1>1, <1>2, <2>1, InsertStep DEF LoopThreadMayCall
<1>3. CASE /\ state' = [state EXCEPT ![t] = "lost"]
           /\ pc' \in {"idle", "aborted"}
           /\ UNCHANGED <<queueVars, fdVars>>
  <2> USE <1>1, <1>3 DEF Inv, queueVars, fdVars, handleReadVars, historyVars
  <2>1. TypeOK'
    BY DEF TypeOK
  <2>2. Placed' /\ Once'
    BY DEF TypeOK, Placed, Once
  <2>3. Spaced'
    BY DEF Spaced, addTime
  <2>4. NoTimerForgotten' /\ ArmedInTime'
    BY DEF Armed, NoTimerForgotten, ArmedInTime, howMuchTimeFromNow
  <2>5. Armed'
    BY <2>4 DEF Armed
  <2>6. QED
    BY <2>1, <2>2, <2>3, <2>5
<1>4. expiration[t] \in Nat /\ 0..MaxWhen \subseteq Nat
  BY TimeAssumption DEF Inv, TypeOK
<1>5. QED
  BY <1>2, <1>3, <1>4

\* handleRead takes the timers that have expired, or its assertion fails.
LEMMA HandleReadStep ==
  ASSUME Inv, handleRead
  PROVE  Inv'
<1> USE DEF Inv, handleRead, getExpired, EraseEntries, readTimerfd, callerVars
<1>1. expired = {} /\ called = {} /\ clock > 0
  BY TimeAssumption DEF Placed, TypeOK
<1>0. readable' \in BOOLEAN /\ reported' \in BOOLEAN
  OBVIOUS
<1>2. CASE pc' = "aborted" /\ UNCHANGED <<timers, expired>>
  <2>1. takenAt' = takenAt
    BY <1>1, <1>2 DEF TypeOK
  <2>2. TypeOK'
    BY <1>0, <1>1, <1>2, <2>1, TimeAssumption DEF TypeOK
  <2>3. Placed' /\ Once' /\ Spaced'
    BY <1>1, <1>2, <2>1 DEF TypeOK, Placed, Once, Spaced, addTime
  <2>4. Armed'
    BY <1>2 DEF Armed, NoTimerForgotten, ArmedInTime
  <2>5. QED
    BY <2>2, <2>3, <2>4
<1>3. CASE /\ \A t \in timers : expiration[t] # clock
           /\ pc' = "runs"
           /\ expired' = {t \in timers : expiration[t] < clock}
           /\ timers' = timers \ expired'
  <2>1. expired' \subseteq timers /\ timers' \subseteq timers
    BY <1>3
  <2>2. \A t \in Timers : takenAt'[t] = IF t \in expired' THEN clock ELSE takenAt[t]
    OBVIOUS
  <2>3. TypeOK'
    <3>1. now' \in 0..MaxTime /\ clock' \in 1..MaxTime
      BY TimeAssumption DEF TypeOK
    <3>2. takenAt' \in [Timers -> 0..MaxTime]
      BY TimeAssumption DEF TypeOK
    <3>3. QED
      BY <1>0, <1>3, <2>1, <3>1, <3>2 DEF TypeOK
  <2>4. Placed'
    BY <1>3, <2>1 DEF Placed, TypeOK
  <2>5. Once'
    BY <1>3, <2>1 DEF Once, TypeOK
  <2>6. Spaced'
    BY <1>3, <2>1, <2>2 DEF Spaced, TypeOK, addTime
  <2>7. \A t \in timers' : expiration'[t] # 0
    BY <1>1, <1>3, <2>1 DEF TypeOK
  <2>8. Armed'
    BY <1>1, <1>3, <2>7 DEF Armed, NoTimerForgotten, ArmedInTime
  <2>9. QED
    BY <2>3, <2>4, <2>5, <2>6, <2>8
<1>4. QED
  BY <1>2, <1>3

\* The callback of an expired timer.
LEMMA RunStep ==
  ASSUME Inv, NEW t \in Timers, run(t)
  PROVE  Inv'
<1> USE DEF Inv, run, queueVars, fdVars, callerVars
<1>1. /\ fired' \in [Timers -> 0..2]
      /\ \A u \in Timers : u # t => fired'[u] = fired[u]
      /\ fired[t] = 0 => fired'[t] = 1
  BY DEF TypeOK
<1>2. TypeOK'
  BY <1>1 DEF TypeOK
<1>3. state[t] = "added" /\ t \notin timers
  BY DEF Placed
<1>4. Placed'
  BY <1>3 DEF Placed, TypeOK
<1>5. Once'
  BY <1>1, <1>3 DEF Once, TypeOK
<1>6. Spaced'
  BY <1>1, <1>3 DEF Spaced, TypeOK, addTime
<1>7. Armed'
  BY DEF Armed, NoTimerForgotten, ArmedInTime
<1>8. QED
  BY <1>2, <1>4, <1>5, <1>6, <1>7

\* reset puts the repeating timers back and arms the timerfd, unless a timer
\* with the time 0 is the earliest.
LEMMA ResetStep ==
  ASSUME Inv, reset
  PROVE  Inv'
<1> DEFINE again == {t \in called : Repeats(t)}
           ts == timers \cup again
           exp == [t \in Timers |-> IF t \in again THEN restart(t) ELSE expiration[t]]
           first == Earliest(ts, exp)
<1> USE DEF Inv
<1>1. /\ pc = "runs" /\ expired = {} /\ timers' = ts /\ expiration' = exp
      /\ pc' = "idle" /\ called' = {}
      /\ UNCHANGED <<clock, reported, now, expired, state, frames, fired, takenAt,
                     adjustments>>
  BY DEF reset, callerVars, historyVars
<1>2. \/ /\ ts # {} /\ exp[first] > 0
         /\ timerfd' = howMuchTimeFromNow(exp[first]) /\ readable' = FALSE
      \/ /\ ts = {} \/ ~(exp[first] > 0)
         /\ UNCHANGED <<timerfd, readable>>
  BY DEF reset, MustArm, valid, resetTimerfd, fdVars
<1>3. /\ again \in SUBSET Timers /\ ts \in SUBSET Timers
      /\ timers \cap again = {}
      /\ \A t \in again : state[t] = "added" /\ Repeats(t) /\ takenAt[t] = now
  BY <1>1 DEF TypeOK, Placed, Spaced
<1>4. \A t \in Timers : interval[t] \in Nat
  BY IntervalAssumption
<1>5. now \in Nat /\ now > 0
  BY <1>1, TimeAssumption DEF TypeOK, Armed
<1>6. \A t \in Timers : /\ restart(t) = addTime(now, interval[t])
                        /\ restart(t) \in Nat /\ restart(t) > 0
  <2> TAKE t \in Timers
  <2>1. addTime(now, interval[t]) \in Nat /\ addTime(now, interval[t]) >= now
    BY <1>4, <1>5, AddTimeType
  <2>2. QED
    BY <1>5, <2>1 DEF restart
<1>7. exp \in [Timers -> Nat]
  BY <1>6 DEF TypeOK
<1>8. /\ \A t \in again : exp[t] = addTime(now, interval[t]) /\ exp[t] > 0
      /\ \A t \in timers : exp[t] = expiration[t]
  BY <1>3, <1>6
<1>9. ts # {} => /\ first \in ts
                 /\ \A u \in ts : exp[first] <= exp[u]
  BY <1>3, <1>7, EarliestProperties
<1> HIDE DEF again, exp, first
<1>10. exp[first] \in Nat => /\ howMuchTimeFromNow(exp[first]) \in Nat
                             /\ howMuchTimeFromNow(exp[first]) > 0
  <2>1. Nat \subseteq Int
    OBVIOUS
  <2>2. QED
    BY <2>1, HowMuchProperties, TimeAssumption
<1>11. TypeOK'
  <2>1. timerfd' \in Nat /\ readable' \in BOOLEAN
    BY <1>2, <1>3, <1>7, <1>9, <1>10 DEF TypeOK
  <2>2. QED
    BY <1>1, <1>3, <1>7, <2>1 DEF TypeOK
<1>12. Placed'
  BY <1>1, <1>3 DEF Placed
<1>13. Once'
  BY <1>1, <1>3 DEF Once, TypeOK
<1>14. Spaced'
  BY <1>1, <1>3, <1>8 DEF Spaced, addTime
<1>15. ASSUME ts # {}, ~(exp[first] > 0)
       PROVE  readable' \/ (timerfd' > 0 /\ timerfd' <= MinDelay)
  <2>1. first \in timers /\ expiration[first] = 0
    BY <1>3, <1>7, <1>8, <1>9, <1>15
  <2>2. readable \/ (timerfd > 0 /\ timerfd <= MinDelay)
    BY <1>1, <2>1 DEF Armed
  <2>3. QED
    BY <1>2, <1>15, <2>2
<1>16. NoTimerForgotten'
  BY <1>1, <1>2, <1>3, <1>7, <1>9, <1>10, <1>15 DEF NoTimerForgotten
<1>17. ArmedInTime'
  <2> SUFFICES ASSUME ~readable', NEW u \in ts
               PROVE  timerfd' <= howMuchTimeFromNow(exp[u])
    BY <1>1 DEF ArmedInTime, howMuchTimeFromNow
  <2>1. exp[u] \in Int /\ exp[first] \in Int /\ exp[first] <= exp[u]
    BY <1>3, <1>7, <1>9
  <2>2. CASE exp[first] > 0
    <3>1. timerfd' = howMuchTimeFromNow(exp[first])
      BY <1>2, <2>2
    <3>2. QED
      BY <2>1, <3>1, HowMuchProperties
  <2>3. CASE ~(exp[first] > 0)
    <3>1. timerfd' <= MinDelay /\ timerfd' \in Nat
      BY <1>11, <1>15, <2>3 DEF TypeOK
    <3>2. MinDelay <= howMuchTimeFromNow(exp[u]) /\ howMuchTimeFromNow(exp[u]) \in Nat
      BY <2>1, HowMuchProperties
    <3>3. QED
      BY <3>1, <3>2, TimeAssumption
  <2>4. QED
    BY <2>2, <2>3
<1>18. Armed'
  BY <1>1, <1>16, <1>17 DEF Armed
<1>19. QED
  BY <1>11, <1>12, <1>13, <1>14, <1>18

\* Every step preserves the invariant.
LEMMA InvStep == Inv /\ [Next]_vars => Inv'
<1> SUFFICES ASSUME Inv, [Next]_vars PROVE Inv'
  OBVIOUS
<1>0. clock \in Nat /\ 0..MaxWhen \subseteq Nat /\ 0..(MaxWhen * Resolution) \subseteq Nat
  BY TimeAssumption DEF Inv, TypeOK
<1>1. CASE Tick
  BY <1>1, TickStep
<1>2. CASE AdjustClock
  BY <1>2, AdjustStep
<1>3. ASSUME NEW t \in Timers, NEW when \in 0..MaxWhen, runAt(t, when)
      PROVE  Inv'
  BY <1>0, <1>3, AddStep DEF runAt
<1>4. ASSUME NEW t \in Timers, NEW delay \in 0..(MaxWhen * Resolution), runAfter(t, delay)
      PROVE  Inv'
  BY <1>0, <1>4, AddTimeType, AddStep DEF runAfter
<1>5. ASSUME NEW t \in Timers, runEvery(t)
      PROVE  Inv'
  <2>1. interval[t] \in Nat
    BY IntervalAssumption
  <2>2. QED
    BY <1>0, <1>5, <2>1, AddTimeType, AddStep DEF runEvery
<1>6. ASSUME NEW t \in Timers, addTimerReturns(t)
      PROVE  Inv'
  <2> USE <1>6 DEF Inv, addTimerReturns, queueVars, fdVars, handleReadVars, historyVars
  <2>1. TypeOK'
    BY DEF TypeOK
  <2>2. Placed' /\ Once' /\ Spaced'
    BY DEF Placed, Once, Spaced, addTime
  <2>3. Armed'
    BY DEF Armed, NoTimerForgotten, ArmedInTime, howMuchTimeFromNow
  <2>4. QED
    BY <2>1, <2>2, <2>3
<1>7. CASE PollReports
  <2> USE <1>7 DEF Inv, PollReports, queueVars, fdVars, handleReadVars, callerVars, historyVars
  <2>1. TypeOK'
    <3>1. reported' \in BOOLEAN
      OBVIOUS
    <3>2. QED
      BY <3>1 DEF TypeOK
  <2>2. Placed' /\ Once' /\ Spaced'
    BY DEF Placed, Once, Spaced, addTime
  <2>3. Armed'
    BY DEF Armed, NoTimerForgotten, ArmedInTime
  <2>4. QED
    BY <2>1, <2>2, <2>3
<1>8. CASE handleRead
  BY <1>8, HandleReadStep
<1>9. ASSUME NEW t \in Timers, run(t) \/ runAddTimer(t)
      PROVE  Inv'
  BY <1>9, RunStep, RunAddStep
<1>10. CASE reset
  BY <1>10, ResetStep
<1>11. CASE UNCHANGED vars
  <2> USE <1>11 DEF Inv, vars
  <2>1. TypeOK'
    BY DEF TypeOK
  <2>2. Placed' /\ Once' /\ Spaced'
    BY DEF Placed, Once, Spaced, addTime
  <2>3. Armed'
    BY DEF Armed, NoTimerForgotten, ArmedInTime, howMuchTimeFromNow
  <2>4. QED
    BY <2>1, <2>2, <2>3
<1>12. QED
  BY <1>1, <1>2, <1>3, <1>4, <1>5, <1>6, <1>7, <1>8, <1>9, <1>10, <1>11
     DEF Next, LoopStep

\* What every state of the timer queue has, from which the theorems follow.
THEOREM Invariance == SafeSpec => []Inv
BY InvInit, InvStep, PTL DEF SafeSpec

\* The variables keep their types: no delay of the timerfd, expiration or reading
\* of a clock is ever negative (howMuchTimeFromNow, Timestamp.h:68-72).
THEOREM TypeCorrect == SafeSpec => []TypeOK
<1>1. Inv => TypeOK
  BY DEF Inv
<1>2. QED
  BY <1>1, Invariance, PTL

\* Outside handleRead a timer in the set has an armed, an expired or a reported
\* timerfd (addTimerInLoop, handleRead, reset; TimerQueue.cpp:108-199).
THEOREM NoneForgotten == SafeSpec => []NoTimerForgotten
<1>1. Inv => NoTimerForgotten
  BY DEF Inv, Armed
<1>2. QED
  BY <1>1, Invariance, PTL

\* The timerfd expires in time for every timer while nobody adjusts the clock.
THEOREM InTime == SafeSpec => []ArmedInTime
<1>1. Inv => ArmedInTime
  BY DEF Inv, Armed
<1>2. QED
  BY <1>1, Invariance, PTL

\* A timer that does not repeat is called once at most.
THEOREM CalledOnce == SafeSpec => []OneShotOnce
<1>1. Inv => OneShotOnce
  BY DEF Inv, Once, OneShotOnce
<1>2. QED
  BY <1>1, Invariance, PTL

\* The part of RepeatsSpaced that is about one step.
LEMMA SpacedStep ==
  ASSUME Inv, [Next]_vars, pc = "idle", pc' = "runs",
         NEW t \in expired', fired[t] > 0
  PROVE  (now' - takenAt[t]) * Resolution > interval[t]
<1>1. handleRead
  BY DEF Next, LoopStep, vars, Tick, AdjustClock, runAt, runAfter, runEvery, Add,
         addTimer, addTimerRemotely, addTimerReturns, PollReports, run,
         runAddTimer, reset
<1>2. t \in timers /\ expiration[t] < clock /\ now' = clock
  BY <1>1 DEF handleRead, getExpired
<1>3. t \in Timers /\ expiration[t] = addTime(takenAt[t], interval[t])
  BY <1>2 DEF Inv, TypeOK, Spaced
<1> DEFINE q == interval[t] \div Resolution
<1>4. interval[t] \in Nat /\ Resolution \in Nat \ {0}
  BY <1>3, IntervalAssumption, TimeAssumption
<1>5. q \in Nat /\ (q + 1) * Resolution > interval[t]
  BY <1>4, DropsLessThanOne
<1>6. now' - takenAt[t] \in Int /\ now' - takenAt[t] >= q + 1
  <2>1. takenAt[t] \in Nat /\ clock \in Nat
    BY <1>3, TimeAssumption DEF Inv, TypeOK
  <2>2. takenAt[t] + q < clock
    BY <1>2, <1>3 DEF addTime
  <2>3. QED
    BY <1>2, <1>5, <2>1, <2>2
<1> HIDE DEF q
<1>7. \A n \in Int : n >= q + 1 => n * Resolution >= (q + 1) * Resolution
  BY <1>4, <1>5
<1>8. QED
  BY <1>4, <1>5, <1>6, <1>7

\* The calls of a repeating timer are more than its interval apart, counted from
\* the handleRead that took it, although addTime drops fractions (Timer.cpp:12-22).
THEOREM Spacing == SafeSpec => RepeatsSpaced
<1>1. Inv /\ [Next]_vars =>
        [pc = "idle" /\ pc' = "runs" =>
           \A t \in expired' : fired[t] > 0 =>
             (now' - takenAt[t]) * Resolution > interval[t]]_vars
  BY SpacedStep
<1>2. QED
  BY <1>1, Invariance, PTL DEF SafeSpec, RepeatsSpaced

=============================================================================
