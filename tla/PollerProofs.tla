---------------------------- MODULE PollerProofs ----------------------------
(***************************************************************************)
(* Proofs about Poller for any set of channels and any descriptors.        *)
(***************************************************************************)
EXTENDS Poller, SequenceTheorems, TLAPS

Pollfd == [fd : Int, events : SUBSET Events]

\* index_ tells the channels that were ever registered from the others; after
\* a removal it is stale, and the channel is not used any more.
IndexInv ==
  \A c \in Channels :
    /\ index[c] >= 0 <=> Registered(c) \/ c \in removed
    /\ c \in removed => ~Registered(c)

\* Outside the dispatch nothing is active.
DispatchInv == pc = "idle" => activeChannels = {}

RegistryInv == SlotsMatchChannels /\ SlotsOwned /\ IndexInv

IndInv == TypeOK /\ RegistryInv /\ DispatchInv

-----------------------------------------------------------------------------
\* A switched-off slot is negative, also that of descriptor 0, and still
\* tells its descriptor.
LEMMA SlotEncoding ==
  \A fd \in Nat : /\ Ignored(fd) \in Int /\ Ignored(fd) < 0
                  /\ FdOfSlot(fd) = fd
                  /\ FdOfSlot(Ignored(fd)) = fd
BY DEF Ignored, FdOfSlot

\* Two registered channels never share a slot.
LEMMA OneOwner ==
  ASSUME TypeOK, SlotsMatchChannels,
         NEW c \in Channels, NEW d \in Channels,
         Registered(c), Registered(d), index[c] = index[d]
  PROVE  c = d
<1>1. fdOf[c] \in Nat /\ fdOf[d] \in Nat
  BY FdAssumption
<1>2. fdOf[c] = fdOf[d]
  BY <1>1, SlotEncoding DEF SlotsMatchChannels, SlotMatchesChannel
<1>3. QED
  BY <1>2 DEF Registered

\* The last pollfd leaves, the others stay.
LEMMA PopBackProperties ==
  ASSUME NEW s \in Seq(Pollfd), Len(s) > 0
  PROVE  /\ PopBack(s) \in Seq(Pollfd)
         /\ Len(PopBack(s)) = Len(s) - 1
         /\ \A i \in 1..(Len(s) - 1) : PopBack(s)[i] = s[i]
<1>1. Len(s) \in Nat /\ \A i \in 1..(Len(s) - 1) : s[i] \in Pollfd
  BY LenProperties, ElementOfSeq
<1> DEFINE n == Len(s) - 1
<1>2. n \in Nat /\ 1 \in Int
  BY <1>1
<1>3. \A i \in 1..n : s[i] \in Pollfd
  BY <1>1
<1> HIDE DEF n, Pollfd
<1>4. /\ SubSeq(s, 1, n) \in Seq(Pollfd)
      /\ Len(SubSeq(s, 1, n)) = IF 1 <= n THEN n - 1 + 1 ELSE 0
      /\ \A i \in 1..(n - 1 + 1) : SubSeq(s, 1, n)[i] = s[1 + i - 1]
  BY <1>2, <1>3, SubSeqProperties
<1>5. /\ SubSeq(s, 1, n) \in Seq(Pollfd)
      /\ Len(SubSeq(s, 1, n)) = n
      /\ \A i \in 1..n : SubSeq(s, 1, n)[i] = s[i]
  BY <1>2, <1>4
<1>6. QED
  BY <1>5 DEF PopBack, n

-----------------------------------------------------------------------------
\* updateChannel keeps the registry consistent, for a new channel and for an
\* existing one.
LEMMA UpdateStep ==
  ASSUME TypeOK, RegistryInv, NEW c \in Channels, NEW ev \in SUBSET Events,
         MayUpdate(c), ev # {} \/ Registered(c), updateChannel(c, ev)
  PROVE  /\ pollfds' \in Seq(Pollfd)
         /\ channels' \in [Fds -> Channels \cup {NoChannel}]
         /\ events' \in [Channels -> SUBSET Events]
         /\ index' \in [Channels -> Int]
         /\ removed' \in SUBSET Channels
         /\ RegistryInv'
         /\ \A d \in Channels : Registered(d) => Registered(d)'
         /\ \A d \in Channels \ {c} : Registered(d) => Slot(d)' = Slot(d)
         /\ Registered(c) =>
              /\ channels' = channels
              /\ Slot(c)'.fd = IF ev = {} THEN Ignored(fdOf[c]) ELSE Slot(c).fd
         /\ ~Registered(c) =>
              /\ channels[fdOf[c]] = NoChannel
              /\ channels' = [channels EXCEPT ![fdOf[c]] = c]
              /\ Slot(c)'.fd = fdOf[c]
<1> USE DEF TypeOK, Pollfd
<1>1. /\ c \notin removed /\ removed' = removed
      /\ events' = [events EXCEPT ![c] = ev]
  BY DEF MayUpdate, updateChannel
<1>2. fdOf[c] \in Nat /\ fdOf[c] \in Fds /\ \A d \in Channels : fdOf[d] \in Nat /\ fdOf[d] \in Fds
  BY FdAssumption DEF Fds
<1>3. Len(pollfds) \in Nat
  BY LenProperties
<1>4. CASE AddChannel(c, ev)
  <2>1. /\ index[c] < 0 /\ channels[fdOf[c]] = NoChannel
        /\ pollfds' = Append(pollfds, [fd |-> fdOf[c], events |-> ev])
        /\ index' = [index EXCEPT ![c] = Len(pollfds)]
        /\ channels' = [channels EXCEPT ![fdOf[c]] = c]
    BY <1>4 DEF AddChannel
  <2>2. /\ pollfds' \in Seq(Pollfd) /\ Len(pollfds') = Len(pollfds) + 1
        /\ pollfds'[Len(pollfds) + 1] = [fd |-> fdOf[c], events |-> ev]
        /\ \A i \in 1..Len(pollfds) : pollfds'[i] = pollfds[i]
    BY <2>1, <1>2, AppendProperties
  <2>3. ~Registered(c) /\ ev # {}
    BY <2>1, NoChannelAssumption DEF Registered
  <2>4. Registered(c)' /\ \A d \in Channels \ {c} : Registered(d)' <=> Registered(d)
    BY <2>1, <1>2, NoChannelAssumption DEF Registered
  <2>s. ASSUME NEW d \in Channels \ {c}, Registered(d)
        PROVE  /\ SlotMatchesChannel(d) /\ events'[d] = events[d]
               /\ index'[d] = index[d] /\ Slot(d)' = Slot(d)
    <3>1. SlotMatchesChannel(d) /\ events'[d] = events[d] /\ index'[d] = index[d]
      BY <2>s, <2>1, <1>1 DEF RegistryInv, SlotsMatchChannels
    <3>2. index[d] + 1 \in 1..Len(pollfds)
      BY <3>1, <1>3 DEF SlotMatchesChannel
    <3>3. QED
      BY <3>1, <3>2, <2>2 DEF Slot
  <2>c. Slot(c)' = [fd |-> fdOf[c], events |-> ev]
    BY <1>3, <2>1, <2>2 DEF Slot
  <2>5. SlotsMatchChannels'
    <3> SUFFICES ASSUME NEW d \in Channels, Registered(d)'
                 PROVE  SlotMatchesChannel(d)'
      BY DEF SlotsMatchChannels
    <3>1. CASE d = c
      BY <3>1, <1>1, <1>2, <1>3, <2>1, <2>2, <2>3 DEF SlotMatchesChannel, isNoneEvent, kNoneEvent
    <3>2. CASE d # c
      <4>1. /\ SlotMatchesChannel(d) /\ events'[d] = events[d]
            /\ index'[d] = index[d] /\ Slot(d)' = Slot(d)
        BY <3>2, <2>s, <2>4
      <4>2. QED
        BY <4>1, <2>2, <1>3 DEF SlotMatchesChannel, isNoneEvent, Slot
    <3>3. QED
      BY <3>1, <3>2
  <2>6. SlotsOwned'
    <3> SUFFICES ASSUME NEW i \in 1..Len(pollfds')
                 PROVE  \E d \in Channels : Registered(d)' /\ index'[d] = i - 1
      BY DEF SlotsOwned
    <3>1. CASE i = Len(pollfds) + 1
      BY <3>1, <2>1, <2>4, <1>3
    <3>2. CASE i \in 1..Len(pollfds)
      <4>1. PICK d \in Channels : Registered(d) /\ index[d] = i - 1
        BY <3>2 DEF RegistryInv, SlotsOwned
      <4>2. QED
        BY <4>1, <2>1, <2>3, <2>4
    <3>3. QED
      BY <3>1, <3>2, <2>2, <1>3
  <2>7. IndexInv'
    BY <1>1, <1>3, <2>1, <2>4 DEF RegistryInv, IndexInv
  <2>8. QED
    BY <1>1, <1>2, <1>3, <2>1, <2>2, <2>3, <2>4, <2>s, <2>c, <2>5, <2>6, <2>7
       DEF RegistryInv
<1>5. CASE ModifyChannel(c, ev)
  <2>1. /\ index[c] >= 0
        /\ index' = index /\ channels' = channels
    BY <1>5 DEF ModifyChannel
  <2>2. Registered(c) /\ SlotMatchesChannel(c)
    BY <2>1, <1>1 DEF RegistryInv, IndexInv, SlotsMatchChannels
  <2> DEFINE k == index[c] + 1
             pfd == [fd |-> IF ev = kNoneEvent THEN Ignored(fdOf[c])
                                               ELSE pollfds[k].fd,
                     events |-> ev]
  <2>3. k \in 1..Len(pollfds) /\ pollfds[k] \in Pollfd
    <3>1. k \in 1..Len(pollfds)
      BY <2>2, <1>3 DEF SlotMatchesChannel
    <3>2. QED
      BY <3>1, ElementOfSeq
  <2>4. pfd \in Pollfd
    BY <2>3, <1>2, SlotEncoding
  <2>5. pollfds' = [pollfds EXCEPT ![k] = pfd]
    BY <1>5 DEF ModifyChannel
  <2> HIDE DEF pfd
  <2>6. /\ pollfds' \in Seq(Pollfd) /\ Len(pollfds') = Len(pollfds)
        /\ \A j \in 1..Len(pollfds) :
             pollfds'[j] = IF j = k THEN pfd ELSE pollfds[j]
    <3> HIDE DEF k
    <3> QED
      BY <2>3, <2>4, <2>5, ExceptSeq
  <2>7. \A d \in Channels : Registered(d)' <=> Registered(d)
    BY <2>1 DEF Registered
  <2>s. ASSUME NEW d \in Channels \ {c}, Registered(d)
        PROVE  SlotMatchesChannel(d) /\ events'[d] = events[d] /\ Slot(d)' = Slot(d)
    <3>1. SlotMatchesChannel(d) /\ events'[d] = events[d]
      BY <2>s, <1>1 DEF RegistryInv, SlotsMatchChannels
    <3>2. index[d] # index[c]
      BY <2>s, <2>2, OneOwner DEF RegistryInv
    <3>3. index[d] + 1 \in 1..Len(pollfds)
      BY <3>1, <1>3 DEF SlotMatchesChannel
    <3>4. index[c] \in Int /\ index[d] \in Int
      BY DEF TypeOK
    <3>5. index[d] + 1 # k
      BY <3>2, <3>4
    <3>6. QED
      BY <3>1, <3>3, <3>5, <2>1, <2>6 DEF Slot
  <2>c. Slot(c)'.fd = IF ev = {} THEN Ignored(fdOf[c]) ELSE Slot(c).fd
    <3>1. Slot(c)' = pfd /\ Slot(c) = pollfds[k]
      BY <2>1, <2>3, <2>6 DEF Slot
    <3>2. QED
      BY <3>1 DEF pfd, kNoneEvent
  <2>8. SlotsMatchChannels'
    <3> SUFFICES ASSUME NEW d \in Channels, Registered(d)'
                 PROVE  SlotMatchesChannel(d)'
      BY DEF SlotsMatchChannels
    <3>1. CASE d = c
      BY <3>1, <1>1, <2>1, <2>2, <2>3, <2>6 DEF SlotMatchesChannel, isNoneEvent, pfd
    <3>2. CASE d # c
      BY <3>2, <2>s, <2>1, <2>6, <2>7 DEF SlotMatchesChannel, isNoneEvent, Slot
    <3>3. QED
      BY <3>1, <3>2
  <2>9. SlotsOwned'
    BY <2>1, <2>6, <2>7 DEF RegistryInv, SlotsOwned
  <2>10. IndexInv'
    BY <1>1, <2>1, <2>7 DEF RegistryInv, IndexInv
  <2>11. QED
    BY <1>1, <2>1, <2>2, <2>s, <2>c, <2>6, <2>7, <2>8, <2>9, <2>10 DEF RegistryInv
<1>6. QED
  BY <1>4, <1>5 DEF updateChannel

-----------------------------------------------------------------------------
\* removeChannel keeps the registry consistent: the channel whose slot moves
\* learns its new place, the others keep theirs.
LEMMA RemoveStep ==
  ASSUME TypeOK, RegistryInv, NEW c \in Channels, removeChannel(c)
  PROVE  /\ pollfds' \in Seq(Pollfd)
         /\ channels' \in [Fds -> Channels \cup {NoChannel}]
         /\ events' \in [Channels -> SUBSET Events]
         /\ index' \in [Channels -> Int]
         /\ removed' \in SUBSET Channels
         /\ RegistryInv'
         /\ \A d \in Channels \ {c} : Registered(d) => Slot(d)' = Slot(d)
<1> USE DEF TypeOK
<1> DEFINE idx == index[c]
           n == Len(pollfds)
           last == pollfds[n]
<1>1. /\ Registered(c)
      /\ channels' = [channels EXCEPT ![fdOf[c]] = NoChannel]
      /\ EraseSlot(idx)
      /\ removed' = removed \cup {c}
      /\ events' = events
  BY DEF removeChannel
<1>2. fdOf[c] \in Fds /\ \A d \in Channels : fdOf[d] \in Nat /\ fdOf[d] \in Fds
  BY FdAssumption DEF Fds
<1>3. n \in Nat /\ pollfds \in Seq(Pollfd)
  BY LenProperties DEF Pollfd
<1>4. idx \in 0..(n - 1) /\ n > 0
  BY <1>1, <1>3 DEF RegistryInv, SlotsMatchChannels, SlotMatchesChannel
<1>5. last \in Pollfd
  BY <1>3, <1>4, ElementOfSeq
<1>6. ~Registered(c)' /\ \A d \in Channels \ {c} : Registered(d)' <=> Registered(d)
  BY <1>1, <1>2, NoChannelAssumption DEF Registered
<1>7. \A d \in Channels \ {c} : Registered(d) =>
        /\ SlotMatchesChannel(d)
        /\ index[d] \in 0..(n - 1)
        /\ index[d] # idx
  BY <1>1, OneOwner DEF RegistryInv, SlotsMatchChannels, SlotMatchesChannel
<1>8. channels' \in [Fds -> Channels \cup {NoChannel}] /\ removed' \in SUBSET Channels
  BY <1>1
<1>9. CASE idx = n - 1
  <2>1. pollfds' = PopBack(pollfds) /\ index' = index
    BY <1>1, <1>9 DEF EraseSlot
  <2>2. /\ pollfds' \in Seq(Pollfd) /\ Len(pollfds') = n - 1
        /\ \A i \in 1..(n - 1) : pollfds'[i] = pollfds[i]
    BY <2>1, <1>3, <1>4, PopBackProperties
  <2>s. ASSUME NEW d \in Channels \ {c}, Registered(d)
        PROVE  /\ SlotMatchesChannel(d) /\ index[d] \in 0..(n - 2)
               /\ Slot(d)' = Slot(d)
    <3>1. SlotMatchesChannel(d) /\ index[d] \in 0..(n - 2)
      BY <2>s, <1>3, <1>7, <1>9
    <3>2. index[d] + 1 \in 1..(n - 1)
      BY <3>1, <1>3
    <3>3. QED
      BY <3>1, <3>2, <2>1, <2>2 DEF Slot
  <2>3. SlotsMatchChannels'
    <3> SUFFICES ASSUME NEW d \in Channels, Registered(d)'
                 PROVE  SlotMatchesChannel(d)'
      BY DEF SlotsMatchChannels
    <3>1. d \in Channels \ {c} /\ Registered(d)
      BY <1>6
    <3>2. /\ SlotMatchesChannel(d) /\ index[d] \in 0..(n - 2)
          /\ Slot(d)' = Slot(d)
      BY <3>1, <2>s
    <3>3. QED
      BY <3>2, <2>1, <2>2, <1>1, <1>3 DEF SlotMatchesChannel, isNoneEvent, Slot
  <2>4. SlotsOwned'
    <3> SUFFICES ASSUME NEW i \in 1..Len(pollfds')
                 PROVE  \E d \in Channels : Registered(d)' /\ index'[d] = i - 1
      BY DEF SlotsOwned
    <3>1. i \in 1..(n - 1) /\ i \in 1..n
      BY <2>2, <1>3
    <3>2. PICK d \in Channels : Registered(d) /\ index[d] = i - 1
      BY <3>1 DEF RegistryInv, SlotsOwned
    <3>3. QED
      BY <3>1, <3>2, <2>1, <1>3, <1>6, <1>9
  <2>5. IndexInv'
    BY <2>1, <1>1, <1>6 DEF RegistryInv, IndexInv
  <2>6. QED
    BY <2>1, <2>2, <2>s, <2>3, <2>4, <2>5, <1>1, <1>8 DEF RegistryInv
<1>10. CASE idx # n - 1
  <2>1. /\ pollfds' = PopBack([pollfds EXCEPT ![idx + 1] = last])
        /\ index' = [index EXCEPT ![channels[FdOfSlot(last.fd)]] = idx]
    BY <1>1, <1>10 DEF EraseSlot
  <2>2. PICK e \in Channels : Registered(e) /\ index[e] = n - 1
    BY <1>3, <1>4 DEF RegistryInv, SlotsOwned
  <2>3. e # c /\ SlotMatchesChannel(e)
    BY <2>2, <1>7, <1>10
  <2>4. last.fd \in {fdOf[e], Ignored(fdOf[e])} /\ index[e] + 1 = n
    BY <2>2, <2>3, <1>3 DEF SlotMatchesChannel
  <2>5. channels[FdOfSlot(last.fd)] = e
    BY <2>2, <2>4, <1>2, SlotEncoding DEF Registered
  <2>6. /\ index' \in [Channels -> Int] /\ index'[e] = idx
        /\ \A d \in Channels \ {e} : index'[d] = index[d]
    BY <2>1, <2>5, <1>4
  <2> DEFINE moved == [pollfds EXCEPT ![idx + 1] = last]
  <2>7. idx + 1 \in 1..n /\ idx + 1 \in 1..(n - 1)
    BY <1>3, <1>4, <1>10
  <2>8. /\ moved \in Seq(Pollfd) /\ Len(moved) = n
        /\ \A j \in 1..n : moved[j] = IF j = idx + 1 THEN last ELSE pollfds[j]
    <3> DEFINE k == idx + 1
    <3>1. k \in 1..n
      BY <2>7
    <3> HIDE DEF k
    <3>2. /\ [pollfds EXCEPT ![k] = last] \in Seq(Pollfd)
          /\ Len([pollfds EXCEPT ![k] = last]) = n
          /\ \A j \in 1..n : [pollfds EXCEPT ![k] = last][j]
                                = IF j = k THEN last ELSE pollfds[j]
      BY <3>1, <1>3, <1>5, ExceptSeq
    <3>3. QED
      BY <3>2 DEF k
  <2> HIDE DEF moved
  <2>9. /\ pollfds' \in Seq(Pollfd) /\ Len(pollfds') = n - 1
        /\ \A j \in 1..(n - 1) :
             pollfds'[j] = IF j = idx + 1 THEN last ELSE pollfds[j]
    <3>1. pollfds' = PopBack(moved)
      BY <2>1 DEF moved
    <3>2. /\ PopBack(moved) \in Seq(Pollfd)
          /\ Len(PopBack(moved)) = Len(moved) - 1
          /\ \A i \in 1..(Len(moved) - 1) : PopBack(moved)[i] = moved[i]
      BY <2>8, <1>4, PopBackProperties
    <3>3. \A j \in 1..(n - 1) : j \in 1..n
      BY <1>3
    <3>4. QED
      BY <3>1, <3>2, <3>3, <2>8
  <2>s. ASSUME NEW d \in Channels \ {c}, Registered(d)
        PROVE  /\ SlotMatchesChannel(d)
               /\ index'[d] \in 0..(Len(pollfds') - 1)
               /\ Slot(d)' = Slot(d)
    <3>1. CASE d = e
      <4>1. Slot(d)' = Slot(d)
        BY <3>1, <2>4, <2>6, <2>7, <2>9 DEF Slot
      <4>2. index'[d] \in 0..(Len(pollfds') - 1)
        BY <3>1, <2>6, <2>7, <2>9, <1>3
      <4>3. QED
        BY <3>1, <4>1, <4>2, <2>3
    <3>2. CASE d # e
      <4>1. index[d] # n - 1
        BY <2>s, <3>2, <2>2, OneOwner DEF RegistryInv
      <4>2. /\ SlotMatchesChannel(d) /\ index'[d] = index[d]
            /\ index[d] \in 0..(n - 2) /\ index[d] # idx
        BY <2>s, <3>2, <4>1, <1>3, <1>7, <2>6
      <4>3. index[d] + 1 \in 1..(n - 1) /\ index[d] + 1 # idx + 1
        BY <4>2, <1>3, <1>4, SMTT(30)
      <4>4. Slot(d)' = Slot(d)
        BY <4>2, <4>3, <2>9 DEF Slot
      <4>5. QED
        BY <4>2, <4>4, <2>9, <1>3
    <3>3. QED
      BY <3>1, <3>2
  <2>10. SlotsMatchChannels'
    <3> SUFFICES ASSUME NEW d \in Channels, Registered(d)'
                 PROVE  SlotMatchesChannel(d)'
      BY DEF SlotsMatchChannels
    <3>1. d \in Channels \ {c} /\ Registered(d)
      BY <1>6
    <3>2. QED
      BY <3>1, <2>s, <1>1 DEF SlotMatchesChannel, isNoneEvent, Slot
  <2>11. SlotsOwned'
    <3> SUFFICES ASSUME NEW i \in 1..Len(pollfds')
                 PROVE  \E d \in Channels : Registered(d)' /\ index'[d] = i - 1
      BY DEF SlotsOwned
    <3>1. i \in 1..(n - 1) /\ i \in 1..n
      BY <2>9, <1>3
    <3>2. CASE i = idx + 1
      BY <3>2, <2>2, <2>3, <2>6, <1>4, <1>6
    <3>3. CASE i # idx + 1
      <4>1. PICK d \in Channels : Registered(d) /\ index[d] = i - 1
        BY <3>1 DEF RegistryInv, SlotsOwned
      <4>2. d # c /\ d # e
        BY <4>1, <3>1, <3>3, <2>2, <1>3, <1>4, SMTT(30)
      <4>3. QED
        BY <4>1, <4>2, <2>6, <1>6
    <3>4. QED
      BY <3>2, <3>3
  <2>12. IndexInv'
    BY <2>2, <2>6, <1>1, <1>4, <1>6 DEF RegistryInv, IndexInv
  <2>13. QED
    BY <2>6, <2>9, <2>s, <2>10, <2>11, <2>12, <1>1, <1>8 DEF RegistryInv
<1>11. QED
  BY <1>9, <1>10

-----------------------------------------------------------------------------
\* Whatever slot poll reports, the channel looked up by its descriptor is the
\* registered one that owns the slot.
LEMMA ActiveChannelFound ==
  ASSUME TypeOK, RegistryInv, NEW i \in 1..Len(pollfds), Pollable(i)
  PROVE  /\ ActiveChannel(i) \in Channels
         /\ Registered(ActiveChannel(i))
         /\ ~isNoneEvent(ActiveChannel(i))
         /\ pollfds[i].events = events[ActiveChannel(i)]
         /\ Slot(ActiveChannel(i)).fd \in Nat
<1>1. PICK c \in Channels : Registered(c) /\ index[c] = i - 1
  BY DEF RegistryInv, SlotsOwned
<1>2. SlotMatchesChannel(c) /\ index[c] + 1 = i
  BY <1>1 DEF RegistryInv, SlotsMatchChannels
<1>3. fdOf[c] \in Nat
  BY FdAssumption
<1>4. pollfds[i].fd = fdOf[c] /\ ~isNoneEvent(c)
  BY <1>2, <1>3, SlotEncoding, SMTT(30) DEF SlotMatchesChannel, Pollable
<1>5. ActiveChannel(i) = c
  BY <1>1, <1>4 DEF ActiveChannel, Registered
<1>6. QED
  BY <1>1, <1>2, <1>3, <1>4, <1>5 DEF SlotMatchesChannel, Slot

\* What a poll makes active, and what it reports of it.
LEMMA PollStep ==
  ASSUME TypeOK, RegistryInv, poll
  PROVE  /\ activeChannels' \in SUBSET Channels
         /\ revents' \in [Channels -> SUBSET Conditions]
         /\ \A c \in activeChannels' :
              /\ Registered(c)
              /\ ~isNoneEvent(c)
              /\ Slot(c).fd \in Nat
              /\ revents'[c] \ Unasked \subseteq events[c]
<1>1. PICK ready \in SUBSET {i \in 1..Len(pollfds) : Pollable(i)} :
        \E rev \in [ready -> SUBSET Conditions] :
            /\ \A i \in ready : rev[i] # {} /\ rev[i] \subseteq MayReport(i)
            /\ activeChannels' = {ActiveChannel(i) : i \in ready}
            /\ revents' = [c \in Channels |->
                              UNION {rev[i] : i \in {j \in ready :
                                                       ActiveChannel(j) = c}}]
  BY DEF poll
<1>2. PICK rev \in [ready -> SUBSET Conditions] :
        /\ \A i \in ready : rev[i] # {} /\ rev[i] \subseteq MayReport(i)
        /\ activeChannels' = {ActiveChannel(i) : i \in ready}
        /\ revents' = [c \in Channels |->
                          UNION {rev[i] : i \in {j \in ready :
                                                   ActiveChannel(j) = c}}]
  BY <1>1
<1>3. \A i \in ready : /\ ActiveChannel(i) \in Channels
                       /\ Registered(ActiveChannel(i))
                       /\ ~isNoneEvent(ActiveChannel(i))
                       /\ pollfds[i].events = events[ActiveChannel(i)]
                       /\ Slot(ActiveChannel(i)).fd \in Nat
  BY <1>1, ActiveChannelFound
<1>4. revents' \in [Channels -> SUBSET Conditions]
  BY <1>2
<1>5. ASSUME NEW c \in activeChannels'
      PROVE  revents'[c] \ Unasked \subseteq events[c]
  <2>1. c \in Channels
    BY <1>2, <1>3
  <2>2. revents'[c] = UNION {rev[i] : i \in {j \in ready : ActiveChannel(j) = c}}
    BY <2>1, <1>2
  <2>3. \A i \in ready : ActiveChannel(i) = c => rev[i] \subseteq events[c] \cup Unasked
    BY <1>2, <1>3 DEF MayReport
  <2>4. QED
    BY <2>2, <2>3
<1>6. QED
  BY <1>2, <1>3, <1>4, <1>5

\* The invariant holds before the first channel is added.
LEMMA InitIndInv == Init => IndInv
<1> SUFFICES ASSUME Init PROVE IndInv
  OBVIOUS
<1> USE DEF Init
<1>1. pollfds \in Seq(Pollfd) /\ Len(pollfds) = 0
  BY EmptySeq
<1>2. channels \in [Fds -> Channels \cup {NoChannel}] /\ index \in [Channels -> Int]
  OBVIOUS
<1>3. events \in [Channels -> SUBSET Events] /\ revents \in [Channels -> SUBSET Conditions]
  BY DEF kNoneEvent
<1>4. TypeOK
  BY <1>1, <1>2, <1>3 DEF TypeOK, Pollfd
<1>5. \A c \in Channels : ~Registered(c)
  BY NoChannelAssumption DEF Registered, Fds
<1>6. SlotsMatchChannels /\ SlotsOwned /\ IndexInv
  BY <1>1, <1>5 DEF SlotsMatchChannels, SlotsOwned, IndexInv
<1>7. DispatchInv
  BY DEF DispatchInv
<1>8. QED
  BY <1>4, <1>6, <1>7 DEF IndInv, RegistryInv

\* A setter of Channel.
Setter(c) ==
  enableReading(c) \/ enableWriting(c) \/ disableWriting(c) \/ disableAll(c)

\* Every setter is a call of updateChannel, whose first one for a channel asks for
\* something.
LEMMA SetterUpdates ==
  ASSUME TypeOK, NEW c \in Channels, Setter(c)
  PROVE  /\ UNCHANGED dispatchVars
         /\ \E ev \in SUBSET Events :
              MayUpdate(c) /\ (ev # {} \/ Registered(c)) /\ updateChannel(c, ev)
<1>1. CASE enableReading(c)
  BY <1>1 DEF enableReading, kReadEvent, Events
<1>2. CASE enableWriting(c)
  BY <1>2 DEF enableWriting, kWriteEvent, Events
<1>3. CASE disableWriting(c)
  BY <1>3 DEF disableWriting, TypeOK
<1>4. CASE disableAll(c)
  BY <1>4 DEF disableAll, kNoneEvent
<1>5. QED
  BY <1>1, <1>2, <1>3, <1>4 DEF Setter

\* The setters of Channel keep the whole invariant.
LEMMA SetterStep ==
  ASSUME IndInv, NEW c \in Channels, Setter(c)
  PROVE  IndInv'
<1>1. PICK ev \in SUBSET Events :
        MayUpdate(c) /\ (ev # {} \/ Registered(c)) /\ updateChannel(c, ev)
  BY SetterUpdates DEF IndInv
<1>2. UNCHANGED dispatchVars
  BY SetterUpdates DEF IndInv
<1>3. /\ pollfds' \in Seq(Pollfd)
      /\ channels' \in [Fds -> Channels \cup {NoChannel}]
      /\ events' \in [Channels -> SUBSET Events]
      /\ index' \in [Channels -> Int]
      /\ removed' \in SUBSET Channels
      /\ RegistryInv'
      /\ \A d \in Channels : Registered(d) => Registered(d)'
  BY <1>1, UpdateStep DEF IndInv
<1>4. TypeOK'
  BY <1>2, <1>3 DEF IndInv, TypeOK, Pollfd, dispatchVars
<1>5. DispatchInv'
  BY <1>2 DEF IndInv, DispatchInv, dispatchVars
<1>6. QED
  BY <1>3, <1>4, <1>5 DEF IndInv

\* A step that leaves the registry alone keeps what is said of the registry.
LEMMA RegistryUnchanged ==
  ASSUME RegistryInv, UNCHANGED registryVars
  PROVE  RegistryInv' /\ \A c \in Channels : Registered(c)' <=> Registered(c)
BY DEF RegistryInv, registryVars, SlotsMatchChannels, SlotMatchesChannel,
       SlotsOwned, IndexInv, Registered, isNoneEvent

\* Every step keeps the invariant.
LEMMA IndStep == IndInv /\ [Next]_vars => IndInv'
<1> SUFFICES ASSUME IndInv, [Next]_vars PROVE IndInv'
  OBVIOUS
<1>1. ASSUME NEW c \in Channels, Setter(c) PROVE IndInv'
  BY <1>1, SetterStep
<1>2. ASSUME NEW c \in Channels, removeChannel(c) PROVE IndInv'
  <2>1. /\ pollfds' \in Seq(Pollfd)
        /\ channels' \in [Fds -> Channels \cup {NoChannel}]
        /\ events' \in [Channels -> SUBSET Events]
        /\ index' \in [Channels -> Int]
        /\ removed' \in SUBSET Channels
        /\ RegistryInv'
    BY <1>2, RemoveStep DEF IndInv
  <2>2. UNCHANGED dispatchVars
    BY <1>2 DEF removeChannel
  <2>3. TypeOK'
    BY <2>1, <2>2 DEF IndInv, TypeOK, Pollfd, dispatchVars
  <2>4. DispatchInv'
    BY <2>2 DEF IndInv, DispatchInv, dispatchVars
  <2>5. QED
    BY <2>1, <2>3, <2>4 DEF IndInv
<1>3. CASE poll
  <2>1. UNCHANGED registryVars /\ pc' = "dispatch" /\ UNCHANGED callbacks
        /\ pc = "idle"
    BY <1>3 DEF poll
  <2>2. /\ activeChannels' \in SUBSET Channels
        /\ revents' \in [Channels -> SUBSET Conditions]
        /\ \A c \in activeChannels' : Registered(c)
    BY <1>3, PollStep DEF IndInv
  <2>3. RegistryInv' /\ \A c \in Channels : Registered(c)' <=> Registered(c)
    BY <2>1, RegistryUnchanged DEF IndInv
  <2>4. TypeOK'
    BY <2>1, <2>2 DEF IndInv, TypeOK, registryVars
  <2>5. DispatchInv'
    BY <2>1, <2>2, <2>3 DEF IndInv, DispatchInv
  <2>6. QED
    BY <2>3, <2>4, <2>5 DEF IndInv
<1>4. ASSUME NEW c \in Channels, handleEvent(c) PROVE IndInv'
  <2>1. RegistryInv' /\ \A d \in Channels : Registered(d)' <=> Registered(d)
    BY <1>4, RegistryUnchanged DEF IndInv, handleEvent
  <2>2. TypeOK'
    BY <1>4 DEF IndInv, TypeOK, handleEvent, registryVars, CallbacksFor
  <2>3. DispatchInv'
    BY <1>4, <2>1 DEF IndInv, TypeOK, DispatchInv, handleEvent
  <2>4. QED
    BY <2>1, <2>2, <2>3 DEF IndInv
<1>5. ASSUME NEW cb \in Callbacks, CallbackReturns(cb) PROVE IndInv'
  <2>1. RegistryInv' /\ \A d \in Channels : Registered(d)' <=> Registered(d)
    BY <1>5, RegistryUnchanged DEF IndInv, CallbackReturns
  <2>2. QED
    BY <1>5, <2>1 DEF IndInv, TypeOK, DispatchInv,
       CallbackReturns, registryVars
<1>6. CASE handleEventReturns \/ DispatchEnds
  <2>1. RegistryInv' /\ \A d \in Channels : Registered(d)' <=> Registered(d)
    BY <1>6, RegistryUnchanged DEF IndInv, handleEventReturns, DispatchEnds
  <2>2. QED
    BY <1>6, <2>1 DEF IndInv, TypeOK, DispatchInv,
       handleEventReturns, DispatchEnds, registryVars
<1>7. CASE UNCHANGED vars
  <2>1. RegistryInv' /\ \A d \in Channels : Registered(d)' <=> Registered(d)
    BY <1>7, RegistryUnchanged DEF IndInv, vars, registryVars
  <2>2. QED
    BY <1>7, <2>1 DEF IndInv, TypeOK, DispatchInv, vars
<1>8. QED
  BY <1>1, <1>2, <1>3, <1>4, <1>5, <1>6, <1>7 DEF Next, Setter

-----------------------------------------------------------------------------
\* The inductive invariant holds in every reachable state.
THEOREM Invariance == Spec => []IndInv
BY InitIndInv, IndStep, PTL DEF Spec

\* Every variable of the poller and its channels keeps its type.
THEOREM TypeCorrect == Spec => []TypeOK
<1>1. IndInv => TypeOK
  BY DEF IndInv
<1>2. QED
  BY <1>1, Invariance, PTL

\* Every registered channel finds its own slot through index_, however many
\* channels with whatever descriptors are added and removed: the assertions
\* of updateChannel and removeChannel never fail.
THEOREM SlotsFollowChannels == Spec => []SlotsMatchChannels
<1>1. IndInv => SlotsMatchChannels
  BY DEF IndInv, RegistryInv
<1>2. QED
  BY <1>1, Invariance, PTL

\* Every slot belongs to a registered channel: getActiveChannels always finds
\* one.
THEOREM NoOrphanSlot == Spec => []SlotsOwned
<1>1. IndInv => SlotsOwned
  BY DEF IndInv, RegistryInv
<1>2. QED
  BY <1>1, Invariance, PTL

\* poll reports to a channel only what it asked for, hang-ups and errors, and
\* nothing at all to one that asked for nothing.
THEOREM OnlyAskedReported == Spec => ReportsAreAsked
<1>1. IndInv /\ [Next]_vars =>
        [pc = "idle" /\ pc' = "dispatch" =>
           \A c \in activeChannels' :
             /\ ~isNoneEvent(c)
             /\ revents'[c] \ Unasked \subseteq events[c]]_vars
  <2> SUFFICES ASSUME IndInv, Next, pc = "idle", pc' = "dispatch"
               PROVE  \A c \in activeChannels' :
                        /\ ~isNoneEvent(c)
                        /\ revents'[c] \ Unasked \subseteq events[c]
    OBVIOUS
  <2>1. poll
    BY DEF Next, enableReading, enableWriting, disableWriting, disableAll,
       removeChannel, handleEvent, CallbackReturns, handleEventReturns,
       DispatchEnds, dispatchVars
  <2>2. QED
    BY <2>1, PollStep DEF IndInv
<1>2. QED
  BY <1>1, Invariance, PTL DEF Spec, ReportsAreAsked

-----------------------------------------------------------------------------
(* The registry that the slots implement.                                  *)

\* A descriptor leads to a channel of its own.
MapInv == \A fd \in Fds : channels[fd] # NoChannel => fdOf[channels[fd]] = fd

\* Only updateChannel and removeChannel write to the map, under the descriptor of
\* their channel.
LEMMA MapStep == IndInv /\ MapInv /\ [Next]_vars => MapInv'
<1> SUFFICES ASSUME IndInv, MapInv, [Next]_vars PROVE MapInv'
  OBVIOUS
<1> USE DEF MapInv
<1>1. TypeOK /\ RegistryInv
  BY DEF IndInv
<1>2. \A d \in Channels : fdOf[d] \in Fds
  BY FdAssumption DEF Fds
<1>3. ASSUME NEW c \in Channels, Setter(c) PROVE MapInv'
  <2>1. PICK ev \in SUBSET Events :
          MayUpdate(c) /\ (ev # {} \/ Registered(c)) /\ updateChannel(c, ev)
    BY <1>1, <1>3, SetterUpdates
  <2>2. channels' = channels \/ channels' = [channels EXCEPT ![fdOf[c]] = c]
    BY <1>1, <2>1, UpdateStep
  <2>3. QED
    BY <1>1, <1>2, <2>2 DEF TypeOK
<1>4. ASSUME NEW c \in Channels, removeChannel(c) PROVE MapInv'
  BY <1>1, <1>2, <1>4 DEF removeChannel, TypeOK
<1>5. CASE poll \/ (\E c \in Channels : handleEvent(c)) \/ handleEventReturns
           \/ DispatchEnds \/ (\E cb \in Callbacks : CallbackReturns(cb))
  BY <1>5 DEF poll, handleEvent, handleEventReturns, DispatchEnds,
              CallbackReturns, registryVars
<1>6. CASE UNCHANGED vars
  BY <1>6 DEF vars
<1>7. QED
  BY <1>3, <1>4, <1>5, <1>6 DEF Next, Setter

\* What the abstract registry sees of a channel.
Interest == [c \in Channels |-> IF Registered(c) THEN Slot(c).events ELSE {}]
Off == {c \in Channels : Registered(c) /\ Slot(c).fd < 0}

\* The abstract registry knows the same channels, and the slots tell what they
\* asked for; one that asks for something is switched off only if it was before.
LEMMA RegistrySeen ==
  ASSUME TypeOK, RegistryInv, MapInv, NEW c \in Channels
  PROVE  /\ Interface!Registered(c) <=> Registered(c)
         /\ Registered(c) => Interest[c] = events[c]
         /\ Registered(c) /\ events[c] = {} => c \in Off
<1>1. fdOf[c] \in Nat /\ fdOf[c] \in Fds
  BY FdAssumption DEF Fds
<1>2. Interface!Registered(c) <=> Registered(c)
  BY <1>1, NoChannelAssumption DEF Interface!Registered, Registered, MapInv
<1>3. ASSUME Registered(c)
      PROVE  Interest[c] = events[c] /\ (events[c] = {} => c \in Off)
  <2>1. SlotMatchesChannel(c)
    BY <1>3 DEF RegistryInv, SlotsMatchChannels
  <2>2. QED
    BY <1>1, <1>3, <2>1, SlotEncoding
       DEF SlotMatchesChannel, isNoneEvent, kNoneEvent, Interest, Off, Slot
<1>4. QED
  BY <1>2, <1>3

\* A setter of a new channel registers it, one of a registered channel updates it.
LEMMA SetterChanges ==
  ASSUME IndInv, MapInv, NEW c \in Channels, Setter(c)
  PROVE  Interface!Change /\ UNCHANGED activeChannels
<1>1. TypeOK /\ RegistryInv /\ RegistryInv' /\ TypeOK'
  BY SetterStep DEF IndInv
<1>2. UNCHANGED dispatchVars
  BY <1>1, SetterUpdates
<1>3. PICK ev \in SUBSET Events :
        MayUpdate(c) /\ (ev # {} \/ Registered(c)) /\ updateChannel(c, ev)
  BY <1>1, SetterUpdates
<1>5. /\ RegistryInv'
      /\ \A d \in Channels \ {c} : Registered(d) => Slot(d)' = Slot(d)
      /\ Registered(c) =>
           /\ channels' = channels
           /\ Slot(c)'.fd = IF ev = {} THEN Ignored(fdOf[c]) ELSE Slot(c).fd
      /\ ~Registered(c) =>
           /\ channels[fdOf[c]] = NoChannel
           /\ channels' = [channels EXCEPT ![fdOf[c]] = c]
           /\ Slot(c)'.fd = fdOf[c]
  BY <1>1, <1>3, UpdateStep
<1>6. events' = [events EXCEPT ![c] = ev]
  BY <1>3 DEF updateChannel
<1>7. \A d \in Channels : fdOf[d] \in Nat /\ fdOf[d] \in Fds
  BY FdAssumption DEF Fds
<1>8. Registered(c)' /\ \A d \in Channels \ {c} : Registered(d)' <=> Registered(d)
  BY <1>1, <1>5, <1>7, NoChannelAssumption DEF Registered, TypeOK
<1>9. \A d \in Channels \ {c} : /\ Interest'[d] = Interest[d]
                                /\ d \in Off' <=> d \in Off
  BY <1>5, <1>8 DEF Interest, Off
<1>10. Interest'[c] = ev
  <2>1. SlotMatchesChannel(c)'
    BY <1>1, <1>8 DEF RegistryInv, SlotsMatchChannels
  <2>2. Slot(c)'.events = ev
    BY <1>1, <1>6, <2>1 DEF SlotMatchesChannel, Slot, TypeOK
  <2>3. QED
    BY <1>8, <2>2 DEF Interest
<1>11. Interest' = [Interest EXCEPT ![c] = Interest'[c]]
  BY <1>9 DEF Interest
<1>12. CASE Registered(c)
  <2>1. c \in Off' <=> c \in Off \/ ev = {}
    BY <1>5, <1>7, <1>8, <1>12, SlotEncoding DEF Off
  <2>2. Off' = IF Interest'[c] = {} THEN Off \cup {c} ELSE Off
    BY <1>9, <1>10, <2>1 DEF Off
  <2>3. Interface!Registered(c)
    BY <1>1, <1>12, RegistrySeen
  <2>4. Interface!Update(c)
    BY <1>5, <1>11, <1>12, <2>2, <2>3 DEF Interface!Update, Interest, Off
  <2>5. QED
    BY <1>2, <2>4 DEF Interface!Change, dispatchVars
<1>13. CASE ~Registered(c)
  <2>1. ev # {} /\ ~Interface!Registered(c)
    BY <1>1, <1>3, <1>13, RegistrySeen
  <2>2. c \notin Off' /\ c \notin Off
    BY <1>5, <1>7, <1>13 DEF Off
  <2>3. Off' = Off
    BY <1>9, <2>2 DEF Off
  <2>4. Interface!Register(c, fdOf[c])
    BY <1>5, <1>10, <1>11, <1>13, <2>1, <2>3 DEF Interface!Register, Interest, Off
  <2>5. QED
    BY <1>2, <1>7, <2>4 DEF Interface!Change, dispatchVars
<1>14. QED
  BY <1>12, <1>13

\* A removal takes one channel out of the registry and shows the others as before,
\* wherever their slots are now.
LEMMA RemoveUnregisters ==
  ASSUME IndInv, MapInv, NEW c \in Channels, removeChannel(c)
  PROVE  Interface!Change /\ UNCHANGED activeChannels
<1>1. /\ TypeOK /\ RegistryInv
      /\ \A d \in Channels \ {c} : Registered(d) => Slot(d)' = Slot(d)
  BY RemoveStep DEF IndInv
<1>2. /\ Registered(c) /\ events[c] = {}
      /\ channels' = [channels EXCEPT ![fdOf[c]] = NoChannel]
      /\ UNCHANGED <<events, dispatchVars>>
  BY DEF removeChannel, isNoneEvent, kNoneEvent
<1>3. \A d \in Channels : fdOf[d] \in Fds
  BY FdAssumption DEF Fds
<1>4. ~Registered(c)' /\ \A d \in Channels \ {c} : Registered(d)' <=> Registered(d)
  BY <1>1, <1>2, <1>3, NoChannelAssumption DEF Registered, TypeOK
<1>5. Interest[c] = {}
  BY <1>1, <1>2, RegistrySeen
<1>6. Interest' = Interest
  BY <1>1, <1>4, <1>5 DEF Interest
<1>7. Off' = Off \ {c}
  BY <1>1, <1>4 DEF Off
<1>8. Interface!Unregister(c, fdOf[c])
  BY <1>2, <1>5, <1>6, <1>7 DEF Interface!Unregister, Interest, Off, Registered
<1>9. QED
  BY <1>2, <1>3, <1>8 DEF Interface!Change, dispatchVars

\* Every step of the poller and the channels is a step of the registry, or none.
LEMMA RegistryStep ==
  IndInv /\ MapInv /\ [Next]_vars => [Interface!Next]_(Interface!vars)
<1> SUFFICES ASSUME IndInv, MapInv, [Next]_vars
             PROVE  Interface!Next \/ UNCHANGED Interface!vars
  OBVIOUS
<1>1. ASSUME NEW c \in Channels, Setter(c) PROVE Interface!Next
  BY <1>1, SetterChanges DEF Interface!Next
<1>2. ASSUME NEW c \in Channels, removeChannel(c) PROVE Interface!Next
  BY <1>2, RemoveUnregisters DEF Interface!Next
<1>3. ASSUME UNCHANGED registryVars
      PROVE  /\ channels' = channels /\ Interest' = Interest /\ Off' = Off
  BY <1>3 DEF registryVars, Interest, Off, Registered, Slot
<1>4. CASE poll
  <2>1. /\ pc = "idle" /\ UNCHANGED registryVars
        /\ activeChannels' \in SUBSET Channels
        /\ \A c \in activeChannels' :
             Registered(c) /\ ~isNoneEvent(c) /\ Slot(c).fd \in Nat
    BY <1>4, PollStep DEF poll, IndInv
  <2>2. activeChannels = {}
    BY <2>1 DEF IndInv, DispatchInv
  <2>3. ASSUME NEW c \in activeChannels'
        PROVE  Interface!Registered(c) /\ c \notin Off /\ Interest[c] # {}
    <3>1. c \in Channels /\ Registered(c) /\ events[c] # {}
      BY <2>1 DEF isNoneEvent, kNoneEvent
    <3>2. TypeOK /\ RegistryInv
      BY DEF IndInv
    <3>3. Interface!Registered(c) /\ Interest[c] # {}
      BY <3>1, <3>2, RegistrySeen
    <3>4. QED
      BY <2>1, <3>3 DEF Off
  <2>4. QED
    BY <1>3, <2>1, <2>2, <2>3 DEF Interface!Next, Interface!Report, Interest, Off
<1>5. ASSUME NEW c \in Channels, handleEvent(c) PROVE Interface!Next
  BY <1>3, <1>5 DEF handleEvent, Interface!Next, Interface!Handle, Interest, Off
<1>6. CASE \/ (\E cb \in Callbacks : CallbackReturns(cb))
           \/ handleEventReturns \/ DispatchEnds \/ UNCHANGED vars
  <2>1. UNCHANGED registryVars /\ UNCHANGED activeChannels
    BY <1>6 DEF CallbackReturns, handleEventReturns, DispatchEnds, vars, registryVars
  <2>2. QED
    BY <1>3, <2>1 DEF Interface!vars, Interest, Off
<1>7. QED
  BY <1>1, <1>2, <1>4, <1>5, <1>6 DEF Next, Setter

\* The slots, the indices and the map implement the registry that the users of
\* channels see, for any channels on any descriptors (Poller.cpp:50-116).
THEOREM RegistryRefinement == Spec => ImplementsRegistry
<1>1. Init => MapInv
  BY DEF Init, MapInv
<1>2. Init => Interface!Init
  <2> SUFFICES ASSUME Init PROVE Interface!Init
    OBVIOUS
  <2>1. \A c \in Channels : ~Registered(c)
    BY NoChannelAssumption DEF Init, Registered, Fds
  <2>2. QED
    BY <2>1 DEF Init, Interface!Init
<1>3. Spec => []MapInv
  BY <1>1, MapStep, Invariance, PTL DEF Spec
<1>4. QED
  BY <1>2, <1>3, RegistryStep, Invariance, PTL DEF Spec, ImplementsRegistry, Interface!Spec
=============================================================================
