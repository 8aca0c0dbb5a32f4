------------------------------- MODULE Poller -------------------------------
(***************************************************************************)
(* Poller and Channel (Poller.cpp, Channel.h, Channel.cpp): the registry   *)
(* of channels behind a loop, what poll(2) is asked about, and the         *)
(* dispatch of what it reports to the callbacks of the channels.           *)
(*                                                                         *)
(* Everything here runs on the loop thread.  The difficulty is the shared  *)
(* bookkeeping: a channel remembers its slot of pollfds_, removal moves    *)
(* another channel's slot, a slot is switched off by storing -fd-1, file   *)
(* descriptors are reused, and callbacks change the registry while events  *)
(* of the same poll are still to be handled.                               *)
(*                                                                         *)
(* Channels are objects; each keeps its descriptor for life.  What the     *)
(* callers in this repository respect is a guard here: a channel's first   *)
(* update enables something, a descriptor belongs to one registered        *)
(* channel at a time, and a removed channel is not used again.  That       *)
(* removal waits for the end of the dispatch is the rule of TcpServer      *)
(* (Registry, RemovalWaits); the Poller takes it from callbacks too.       *)
(* revents of a pollfd does not outlive poll() and is left out, and so is  *)
(* the order of activeChannels_: its channels are handled in any order.    *)
(* revents_ is read once, by the handleEvent that follows the poll, and is *)
(* forgotten then.  POLLERR and POLLNVAL are both "err".                   *)
(***************************************************************************)
EXTENDS Integers, Sequences, FiniteSets

CONSTANTS
  Channels,    \* channel objects
  fdOf,        \* fd_ of a channel
  NoChannel,   \* no entry in the map channels_
  MaxReported  \* bound: the conditions that one poll reports, of all slots

ASSUME FdAssumption == fdOf \in [Channels -> Nat]
ASSUME NoChannelAssumption == NoChannel \notin Channels

Fds == {fdOf[c] : c \in Channels}

kNoneEvent == {}
kReadEvent == {"in", "pri"}
kWriteEvent == {"out"}
Events == kReadEvent \cup kWriteEvent

\* Conditions poll reports whether they were asked for or not.
Unasked == {"hup", "err"}
Conditions == Events \cup Unasked

Callbacks == {"close", "error", "read", "write"}

\* The order of the calls in handleEvent.
Turn(cb) ==
  CASE cb = "close" -> 1
    [] cb = "error" -> 2
    [] cb = "read" -> 3
    [] cb = "write" -> 4

VARIABLES
  pollfds,          \* pollfds_: records [fd, events]
  channels,         \* channels_: fd to channel
  events,           \* events_ of a channel
  revents,          \* revents_ of a channel
  index,            \* index_ of a channel; slots count from 0
  removed,          \* history: channels that were removed
  activeChannels,   \* returned by the last poll, not handled yet
  callbacks,        \* the callbacks that handleEvent has still to call
  pc                \* "idle", "dispatch" or "callback"

vars == <<pollfds, channels, events, revents, index, removed, activeChannels,
          callbacks, pc>>

registryVars == <<pollfds, channels, events, index, removed>>
dispatchVars == <<revents, activeChannels, callbacks, pc>>

TypeOK ==
  /\ pollfds \in Seq([fd : Int, events : SUBSET Events])
  /\ channels \in [Fds -> Channels \cup {NoChannel}]
  /\ events \in [Channels -> SUBSET Events]
  /\ revents \in [Channels -> SUBSET Conditions]
  /\ index \in [Channels -> Int]
  /\ removed \in SUBSET Channels
  /\ activeChannels \in SUBSET Channels
  /\ callbacks \in SUBSET Callbacks
  /\ pc \in {"idle", "dispatch", "callback"}

Init ==
  /\ pollfds = <<>>
  /\ channels = [fd \in Fds |-> NoChannel]
  /\ events = [c \in Channels |-> kNoneEvent]
  /\ revents = [c \in Channels |-> {}]
  /\ index = [c \in Channels |-> -1]
  /\ removed = {}
  /\ activeChannels = {}
  /\ callbacks = {}
  /\ pc = "idle"

-----------------------------------------------------------------------------
(* Channel's setters and Poller::updateChannel, which they end in.         *)

Registered(c) == channels[fdOf[c]] = c

isNoneEvent(c) == events[c] = kNoneEvent

\* pfd.fd of a slot that poll ignores.
Ignored(fd) == -fd - 1

\* Outside the dispatch (functors, code before loop()) or in a callback.
UserCode == pc \in {"idle", "callback"}

MayUpdate(c) == UserCode /\ c \notin removed

\* A new channel gets the slot at the end.
AddChannel(c, ev) ==
  /\ index[c] < 0
  /\ channels[fdOf[c]] = NoChannel
  /\ pollfds' = Append(pollfds, [fd |-> fdOf[c], events |-> ev])
  /\ index' = [index EXCEPT ![c] = Len(pollfds)]
  /\ channels' = [channels EXCEPT ![fdOf[c]] = c]

ModifyChannelStoresRevents(c, ev) ==  \* mutant
  /\ index[c] >= 0
  /\ pollfds' = [pollfds EXCEPT ![index[c] + 1] =
                   [fd |-> IF ev = kNoneEvent THEN Ignored(fdOf[c]) ELSE @.fd,
                    events |-> revents[c]]]
  /\ UNCHANGED <<index, channels>>

ModifyChannelKeepsFd(c, ev) ==  \* mutant
  /\ index[c] >= 0
  /\ pollfds' = [pollfds EXCEPT ![index[c] + 1] = [@ EXCEPT !.events = ev]]
  /\ UNCHANGED <<index, channels>>

\* An existing one keeps its slot, which is switched off when it asks for
\* nothing.
ModifyChannel(c, ev) ==
  /\ index[c] >= 0
  /\ pollfds' = [pollfds EXCEPT ![index[c] + 1] =
                   [fd |-> IF ev = kNoneEvent THEN Ignored(fdOf[c]) ELSE @.fd,
                    events |-> ev]]
  /\ UNCHANGED <<index, channels>>

updateChannel(c, ev) ==
  /\ events' = [events EXCEPT ![c] = ev]
  /\ AddChannel(c, ev) \/ ModifyChannel(c, ev)
  /\ UNCHANGED removed

enableReading(c) ==
  /\ MayUpdate(c)
  /\ updateChannel(c, kReadEvent)
  /\ UNCHANGED dispatchVars

\* Assigns events_: what was enabled before is dropped.
enableWriting(c) ==
  /\ MayUpdate(c)
  /\ updateChannel(c, kWriteEvent)
  /\ UNCHANGED dispatchVars

disableWriting(c) ==
  /\ MayUpdate(c)
  /\ Registered(c)
  /\ updateChannel(c, events[c] \ kWriteEvent)
  /\ UNCHANGED dispatchVars

disableAll(c) ==
  /\ MayUpdate(c)
  /\ Registered(c)
  /\ updateChannel(c, kNoneEvent)
  /\ UNCHANGED dispatchVars

-----------------------------------------------------------------------------
(* Poller::removeChannel.                                                  *)

\* The descriptor a slot stands for.
FdOfSlot(fd) == IF fd < 0 THEN Ignored(fd) ELSE fd

PopBack(s) == SubSeq(s, 1, Len(s) - 1)

EraseSlotStaleIndex(idx) ==  \* mutant
  LET last == pollfds[Len(pollfds)]
  IN /\ pollfds' = PopBack([pollfds EXCEPT ![idx + 1] = last])
     /\ UNCHANGED index

EraseSlotIgnoredFd(idx) ==  \* mutant
  LET last == pollfds[Len(pollfds)]
  IN /\ pollfds' = PopBack([pollfds EXCEPT ![idx + 1] = last])
     /\ IF idx = Len(pollfds) - 1 \/ last.fd < 0
        THEN UNCHANGED index
        ELSE index' = [index EXCEPT ![channels[last.fd]] = idx]

\* The last slot takes the place of the freed one and its channel learns so.
EraseSlot(idx) ==
  LET last == pollfds[Len(pollfds)]
  IN \/ /\ idx = Len(pollfds) - 1
        /\ pollfds' = PopBack(pollfds)
        /\ UNCHANGED index
     \/ /\ idx # Len(pollfds) - 1
        /\ pollfds' = PopBack([pollfds EXCEPT ![idx + 1] = last])
        /\ index' = [index EXCEPT ![channels[FdOfSlot(last.fd)]] = idx]

removeChannel(c) ==
  /\ UserCode
  /\ Registered(c)
  /\ isNoneEvent(c)
  /\ channels' = [channels EXCEPT ![fdOf[c]] = NoChannel]
  /\ EraseSlot(index[c])
  /\ removed' = removed \cup {c}
  /\ UNCHANGED <<events, dispatchVars>>

-----------------------------------------------------------------------------
(* Poller::poll and the dispatch of what it found.                         *)

\* poll(2) ignores a negative descriptor, and reports of another what was
\* asked for, a hang-up and an error.
Pollable(i) == pollfds[i].fd >= 0
MayReport(i) == pollfds[i].events \cup Unasked

\* getActiveChannels looks the channel up by its descriptor.  A timeout and an
\* error of poll leave nothing ready.
ActiveChannel(i) == channels[pollfds[i].fd]

poll ==
  /\ pc = "idle"
  /\ \E ready \in SUBSET {i \in 1..Len(pollfds) : Pollable(i)} :
       /\ Cardinality(ready) <= MaxReported
       /\ \E rev \in [ready -> SUBSET Conditions] :
            /\ \A i \in ready : rev[i] # {} /\ rev[i] \subseteq MayReport(i)
            /\ Cardinality(UNION {{i} \X rev[i] : i \in ready}) <= MaxReported
            /\ activeChannels' = {ActiveChannel(i) : i \in ready}
            /\ revents' = [c \in Channels |->
                              UNION {rev[i] : i \in {j \in ready :
                                                       ActiveChannel(j) = c}}]
  /\ pc' = "dispatch"
  /\ UNCHANGED <<registryVars, callbacks>>

\* The callbacks that handleEvent calls for what was reported.
CallbacksFor(rev) ==
  {cb \in Callbacks :
     \/ cb = "close" /\ "hup" \in rev /\ "in" \notin rev
     \/ cb = "error" /\ "err" \in rev
     \/ cb = "read" /\ kReadEvent \cap rev # {}
     \/ cb = "write" /\ "out" \in rev}

handleEvent(c) ==
  /\ pc = "dispatch"
  /\ c \in activeChannels
  /\ activeChannels' = activeChannels \ {c}
  /\ callbacks' = CallbacksFor(revents[c])
  /\ revents' = [revents EXCEPT ![c] = {}]
  /\ pc' = "callback"
  /\ UNCHANGED registryVars

\* A callback that had its turn; channels may have been changed or removed in it.
CallbackReturns(cb) ==
  /\ pc = "callback"
  /\ cb \in callbacks
  /\ \A other \in callbacks : Turn(cb) <= Turn(other)
  /\ callbacks' = callbacks \ {cb}
  /\ UNCHANGED <<registryVars, revents, activeChannels, pc>>

handleEventReturns ==
  /\ pc = "callback"
  /\ callbacks = {}
  /\ pc' = "dispatch"
  /\ UNCHANGED <<registryVars, revents, activeChannels, callbacks>>

DispatchEnds ==
  /\ pc = "dispatch"
  /\ activeChannels = {}
  /\ pc' = "idle"
  /\ UNCHANGED <<registryVars, revents, activeChannels, callbacks>>

Next ==
  \/ \E c \in Channels : \/ enableReading(c) \/ enableWriting(c)
                         \/ disableWriting(c) \/ disableAll(c)
                         \/ removeChannel(c) \/ handleEvent(c)
  \/ poll
  \/ \E cb \in Callbacks : CallbackReturns(cb)
  \/ handleEventReturns
  \/ DispatchEnds

Spec == Init /\ [][Next]_vars

-----------------------------------------------------------------------------
(* Properties.                                                             *)

\* A registered channel finds its own slot, holding its own interest, through
\* index_, however often other slots were moved by removals: what the
\* assertions of updateChannel and removeChannel say (Poller.cpp:70-77,
\* 96-102).
SlotMatchesChannel(c) ==
  /\ index[c] \in 0..(Len(pollfds) - 1)
  /\ pollfds[index[c] + 1].events = events[c]
  /\ pollfds[index[c] + 1].fd \in {fdOf[c], Ignored(fdOf[c])}
  /\ isNoneEvent(c) => pollfds[index[c] + 1].fd = Ignored(fdOf[c])

SlotsMatchChannels == \A c \in Channels : Registered(c) => SlotMatchesChannel(c)

\* No slot outlives its channel: whatever poll reports, getActiveChannels
\* finds the channel (its assertion, Poller.cpp:38).
SlotsOwned ==
  \A i \in 1..Len(pollfds) :
    \E c \in Channels : Registered(c) /\ index[c] = i - 1

\* poll reports to a channel nothing but what it asked for, hang-ups and
\* errors, and to one that asked for nothing not even those.
ReportsAreAsked ==
  [][pc = "idle" /\ pc' = "dispatch" =>
       \A c \in activeChannels' :
         /\ ~isNoneEvent(c)
         /\ revents'[c] \ Unasked \subseteq events[c]]_vars

Slot(c) == pollfds[index[c] + 1]

Interface == INSTANCE Registry WITH
  owner <- channels,
  interest <- [c \in Channels |-> IF Registered(c) THEN Slot(c).events ELSE {}],
  off <- {c \in Channels : Registered(c) /\ Slot(c).fd < 0},
  active <- activeChannels

\* The slots that poll(2) is given show, through index_ and the map, a registry
\* as its users see it: each change of a channel changes what is asked for it
\* and nothing else, although a removal moves another channel's slot
\* (Poller.cpp:50-116).
ImplementsRegistry == Interface!Spec

\* A channel that has enabled something is polled: each change of events_
\* goes to the poller ("改变events时调用", Channel.h:56).
EnabledIsPolled ==
  \A c \in Channels :
    Registered(c) /\ ~isNoneEvent(c) => pollfds[index[c] + 1].fd = fdOf[c]
=============================================================================
