--------------------------- MODULE TcpServerProofs --------------------------
(***************************************************************************)
(* Proofs about TcpServer for any connections, descriptors, messages and   *)
(* lengths.  What holds with calls of other threads and with an end of the *)
(* process or the server is proved for those too.                          *)
(***************************************************************************)
EXTENDS TcpServer, SequenceTheorems, TLAPS

-----------------------------------------------------------------------------
(* The inductive invariant.                                                *)

\* removeConnection's functor for c is in a queue, by its place.
Destroys(f, c) == f.op = "destroy" /\ f.conn = c
InPending(c) == \E i \in 1..Len(pending) : Destroys(pending[i], c)
InBatch(c) == \E i \in next..Len(functors) : Destroys(functors[i], c)
Due(c) == InPending(c) \/ InBatch(c)

\* There is a batch only while functors are called, and a connectDestroyed is
\* queued by a handler and taken before the next poll.
Batched ==
  /\ pc \notin {"functors", "destroying", "aborted"} => functors = <<>> /\ next = 1
  /\ pc = "destroying" => next <= Len(functors) /\ functors[next].op = "destroy"
  /\ pc \notin {"dispatch", "aborted"} =>
       \A i \in 1..Len(pending) : pending[i].op # "destroy"

\* No connection is destroyed twice.
DestroysOnce ==
  /\ \A i, j \in 1..Len(pending) :
       pending[i].op = "destroy" /\ Destroys(pending[j], pending[i].conn) => i = j
  /\ \A i, j \in next..Len(functors) :
       functors[i].op = "destroy" /\ Destroys(functors[j], functors[i].conn) => i = j

\* What a functor names was constructed.
Constructed(f) == f.op # "listen" => f.conn \in Conns /\ conn[f.conn].state # "new"

\* Other threads destroy no connection.
OfAnotherThread(f) == Constructed(f) /\ f.op # "destroy"

FunctorsConstructed ==
  /\ \A f \in calling : OfAnotherThread(f)
  /\ \A i \in 1..Len(pending) : Constructed(pending[i])
  /\ \A i \in 1..Len(functors) : Constructed(functors[i])

\* Without other threads the loop is given nothing but connectDestroyed.
NoOtherThreads ==
  ~RemoteCalls =>
    /\ calling = {}
    /\ \A i \in 1..Len(pending) : pending[i].op = "destroy"
    /\ \A i \in 1..Len(functors) : functors[i].op = "destroy"
    /\ ~MayStop => pc # "aborted"

\* The registry knows a descriptor by its owner.
FdOwned == \A fd \in Fds : channels[fd] # NoConn => conn[channels[fd]].fd = fd

\* A connection is in the map, or due to be destroyed, or out of the registry.
Life(c) ==
  /\ conn[c].state = "new" => conn[c] = NoConnection /\ c \notin connections \cup held
  /\ conn[c].state # "kConnecting"
  /\ conn[c].state = "kConnected" => Registered(c)
  /\ ~RemoteCalls /\ conn[c].state = "kDisconnecting" => Registered(c)
  /\ c \in connections => Registered(c) /\ ~Due(c) /\ conn[c].state \in Open
  /\ Due(c) => /\ Registered(c)
               /\ \/ conn[c].state \in Open
                  \/ pc \in {"destroying", "aborted"} /\ functors[next].conn = c
  /\ pc # "ended" /\ Registered(c) => c \in connections \/ Due(c)
  /\ revents[c] # {} => c \in connections /\ pc \in {"dispatch", "aborted"}

\* Between the two steps of connectDestroyed users can do nothing to the
\* connection that is destroyed.
BeingDestroyed ==
  pc = "destroying" =>
    LET k == conn[functors[next].conn]
    IN /\ k.events = {} /\ k.ignored
       /\ k.state = "kDisconnected" \/ (RemoteCalls /\ k.state = "kDisconnecting")

Inv ==
  /\ TypeOK
  /\ Batched /\ DestroysOnce /\ FunctorsConstructed /\ NoOtherThreads
  /\ FdOwned /\ BeingDestroyed
  /\ \A c \in Conns : Life(c)

-----------------------------------------------------------------------------
\* A server that was just constructed has no connection, no functor and no call.
LEMMA InvInit == Init => Inv
<1> SUFFICES ASSUME Init PROVE Inv
  OBVIOUS
<1> USE DEF Init
<1>1. NoConnection \in Connection
  <2>1. <<>> \in Seq(Messages) /\ FALSE \in BOOLEAN
    OBVIOUS
  <2>2. QED
    BY <2>1 DEF NoConnection, Connection
<1>2. TypeOK
  <2>1. listenning \in BOOLEAN /\ acceptReady \in BOOLEAN
    OBVIOUS
  <2>2. Len(functors) = 0 /\ functors \in Seq(Functors) /\ pending \in Seq(Functors)
    OBVIOUS
  <2>3. \A c \in Conns : conn[c].state = "new"
    BY DEF NoConnection
  <2>4. QED
    BY <1>1, <2>1, <2>2, <2>3 DEF TypeOK
<1>3. \A i \in 1..0 : FALSE
  OBVIOUS
<1>4. Len(pending) = 0 /\ Len(functors) = 0 /\ next..Len(functors) = 1..0
  OBVIOUS
<1>5. Batched /\ DestroysOnce /\ FunctorsConstructed /\ NoOtherThreads /\ FdOwned
      /\ BeingDestroyed
  BY <1>3, <1>4 DEF Batched, DestroysOnce, FunctorsConstructed, NoOtherThreads,
                    FdOwned, BeingDestroyed
<1>6. ASSUME NEW c \in Conns PROVE Life(c)
  <2>1. conn[c] = NoConnection /\ conn[c].fd = NoFd /\ conn[c].state = "new"
    BY DEF NoConnection
  <2>2. ~Registered(c)
    BY <2>1, ConstantsAssumption DEF Registered
  <2>3. ~Due(c)
    BY <1>3, <1>4 DEF Due, InPending, InBatch
  <2>4. QED
    BY <2>1, <2>2, <2>3 DEF Life
<1>7. QED
  BY <1>2, <1>5, <1>6 DEF Inv

-----------------------------------------------------------------------------
(* Steps that leave the map, the registry and the queues of functors.      *)

\* What users and functors do to a connection: write, buffer, ask for a writable
\* socket or shut down, but not while it is being destroyed, and never open it.
Touched(c) ==
  \/ conn'[c] = conn[c]
  \/ /\ conn[c].state # "new"
     /\ conn'[c].fd = conn[c].fd
     /\ \/ conn'[c].state = conn[c].state
        \/ /\ conn'[c].state = "kDisconnecting"
           /\ conn[c].state = "kConnected" \/ RemoteCalls
     /\ pc = "destroying" /\ functors[next].conn = c =>
          conn'[c].events = conn[c].events /\ conn'[c].ignored = conn[c].ignored

\* The moves of the loop in such steps.
Moves ==
  /\ \/ pc' = pc
     \/ pc' = "aborted" /\ pc # "ended" /\ (RemoteCalls \/ MayStop)
     \/ pc = "outside" /\ pc' = "poll"
     \/ pc = "poll" /\ pc' = "dispatch"
  /\ \/ next' = next
     \/ /\ next' = next + 1 /\ pc = "functors" /\ pc' \in {pc, "aborted"}
        /\ next <= Len(functors) /\ functors[next].op # "destroy"

\* Such a step preserves the invariant: no connection changes its place.
LEMMA OrdinaryStep ==
  ASSUME Inv, TypeOK', Moves, \A c \in Conns : Touched(c),
         UNCHANGED <<connections, channels, pending, functors>>,
         \A c \in Conns : revents'[c] = {} \/ revents'[c] = revents[c],
         \A f \in calling' : OfAnotherThread(f),
         ~RemoteCalls => calling' = {},
         \A c \in held' : conn[c].state # "new"
  PROVE  Inv'
<1> USE DEF Inv
<1>1. next \in Nat /\ Len(functors) \in Nat /\ Len(pending) \in Nat
  BY DEF TypeOK
<1>2. Batched'
  BY <1>1 DEF Batched, Moves
<1>3. next' \in Nat /\ \A i \in next'..Len(functors) : i \in next..Len(functors)
  BY <1>1 DEF Moves
<1>4. DestroysOnce'
  BY <1>3 DEF DestroysOnce, Destroys
<1>5. \A c \in Conns : conn[c].state # "new" => conn'[c].state # "new"
  BY DEF Touched
<1>6. FunctorsConstructed'
  BY <1>5 DEF FunctorsConstructed, Constructed, OfAnotherThread
<1>7. NoOtherThreads'
  BY DEF NoOtherThreads, Moves
<1>8. \A c \in Conns : conn'[c].fd = conn[c].fd /\ (Registered(c)' <=> Registered(c))
  BY DEF Touched, Registered
<1>9. FdOwned'
  BY <1>8 DEF FdOwned, TypeOK
<1>10. BeingDestroyed'
  <2> SUFFICES ASSUME pc' = "destroying"
               PROVE  /\ conn'[functors[next].conn].events = {}
                      /\ conn'[functors[next].conn].ignored
                      /\ \/ conn'[functors[next].conn].state = "kDisconnected"
                         \/ RemoteCalls /\ conn'[functors[next].conn].state = "kDisconnecting"
    BY DEF BeingDestroyed, Moves
  <2>1. pc = "destroying" /\ next <= Len(functors) /\ functors[next].op = "destroy"
    BY DEF Moves, Batched
  <2>2. functors[next].conn \in Conns
    <3>1. next \in 1..Len(functors)
      BY <1>1, <2>1 DEF TypeOK
    <3>2. QED
      BY <2>1, <3>1 DEF FunctorsConstructed, Constructed
  <2>3. QED
    BY <2>1, <2>2 DEF BeingDestroyed, Touched
<1>11. \A c \in Conns : Due(c)' <=> Due(c)
  <2> SUFFICES ASSUME NEW c \in Conns PROVE InBatch(c)' <=> InBatch(c)
    BY DEF Due, InPending, Destroys
  <2>1. CASE next' = next
    BY <2>1 DEF InBatch, Destroys
  <2>2. CASE next' = next + 1 /\ functors[next].op # "destroy"
    <3>1. \A i \in next..Len(functors) : i = next \/ i \in next'..Len(functors)
      BY <1>1, <2>2
    <3>2. QED
      BY <1>3, <2>2, <3>1 DEF InBatch, Destroys
  <2>3. QED
    BY <2>1, <2>2 DEF Moves
<1>12. ASSUME NEW c \in Conns PROVE Life(c)'
  <2>1. Life(c) /\ Touched(c)
    OBVIOUS
  <2>2. conn'[c].state = "new" => conn'[c] = NoConnection /\ c \notin connections' \cup held'
    BY <1>5, <2>1 DEF Life, Touched, NoConnection
  <2>3. /\ conn'[c].state # "kConnecting"
        /\ conn'[c].state = "kConnected" => Registered(c)'
        /\ ~RemoteCalls /\ conn'[c].state = "kDisconnecting" => Registered(c)'
        /\ c \in connections' => Registered(c)' /\ ~Due(c)' /\ conn'[c].state \in Open
    BY <1>8, <1>11, <2>1 DEF Life, Touched, Open
  <2>4. Due(c)' => /\ Registered(c)'
                   /\ \/ conn'[c].state \in Open
                      \/ pc' \in {"destroying", "aborted"} /\ functors'[next'].conn = c
    <3>1. CASE conn[c].state \in Open
      BY <1>8, <1>11, <2>1, <3>1 DEF Life, Touched, Open
    <3>2. CASE pc \in {"destroying", "aborted"}
      <4>1. pc' \in {"destroying", "aborted"} /\ next' = next
        BY <3>2 DEF Moves
      <4>2. QED
        BY <1>8, <1>11, <2>1, <3>2, <4>1 DEF Life, Touched, Open
    <3>3. QED
      BY <1>11, <2>1, <3>1, <3>2 DEF Life
  <2>5. pc' # "ended" /\ Registered(c)' => c \in connections' \/ Due(c)'
    BY <1>8, <1>11, <2>1 DEF Life, Moves
  <2>6. revents'[c] # {} => c \in connections' /\ pc' \in {"dispatch", "aborted"}
    BY <2>1 DEF Life, Moves
  <2>7. QED
    BY <2>2, <2>3, <2>4, <2>5, <2>6 DEF Life
<1>13. QED
  BY <1>2, <1>4, <1>6, <1>7, <1>9, <1>10, <1>12

\* updateChannel changes what is asked for, and whether the slot is off.
LEMMA UpdateChannelProperties ==
  ASSUME NEW k \in Connection, NEW ev \in SUBSET {"in", "out"}
  PROVE  /\ updateChannel(k, ev) \in Connection
         /\ updateChannel(k, ev).state = k.state
         /\ updateChannel(k, ev).fd = k.fd
         /\ updateChannel(k, ev).events = ev
         /\ updateChannel(k, ev).outputBuffer = k.outputBuffer
         /\ updateChannel(k, ev).wire = k.wire
         /\ updateChannel(k, ev).shut = k.shut
         /\ ev = {} => updateChannel(k, ev).ignored
         /\ ev # {} => updateChannel(k, ev).ignored = k.ignored
<1>1. /\ (k.ignored \/ ev = {}) \in BOOLEAN
      /\ ev = {} => (k.ignored \/ ev = {}) = TRUE
      /\ ev # {} => (k.ignored \/ ev = {}) = k.ignored
  BY DEF Connection
<1> DEFINE off == (k.ignored \/ ev = {})
<1>2. updateChannel(k, ev) = [k EXCEPT !.events = ev, !.ignored = off]
  BY DEF updateChannel
<1> HIDE DEF off
<1>3. off \in BOOLEAN /\ (ev = {} => off) /\ (ev # {} => off = k.ignored)
  BY <1>1 DEF off
<1>4. QED
  BY <1>2, <1>3 DEF Connection

\* The bytes of a message.
LEMMA BytesType ==
  ASSUME NEW m \in Messages, NEW n \in Nat
  PROVE  Bytes(m, n) \in Seq(Messages) /\ Len(Bytes(m, n)) = n
<1>1. QED
  BY DEF Bytes

\* What sendInLoop makes of a connection: bytes are written or kept.
Written(k, m, n) == [k EXCEPT !.wire = @ \o Bytes(m, n),
                              !.outputBuffer = @ \o Bytes(m, MsgLen - n)]

\* sendInLoop changes nothing of a connection but its bytes.
LEMMA WrittenType ==
  ASSUME NEW k \in Connection, NEW m \in Messages, NEW n \in 0..MsgLen
  PROVE  /\ Written(k, m, n) \in Connection
         /\ Written(k, m, n).state = k.state
         /\ Written(k, m, n).fd = k.fd
         /\ Written(k, m, n).events = k.events
         /\ Written(k, m, n).ignored = k.ignored
         /\ Written(k, m, n).shut = k.shut
         /\ Written(k, m, n).wire = k.wire \o Bytes(m, n)
         /\ Written(k, m, n).outputBuffer = k.outputBuffer \o Bytes(m, MsgLen - n)
<1>1. n \in Nat /\ MsgLen - n \in Nat
  BY ConstantsAssumption
<1>2. Bytes(m, n) \in Seq(Messages) /\ Bytes(m, MsgLen - n) \in Seq(Messages)
  BY <1>1, BytesType
<1>3. k.wire \in Seq(Messages) /\ k.outputBuffer \in Seq(Messages)
  BY DEF Connection
<1> DEFINE a == k.wire \o Bytes(m, n)
           b == k.outputBuffer \o Bytes(m, MsgLen - n)
<1>4. a \in Seq(Messages) /\ b \in Seq(Messages)
  BY <1>2, <1>3
<1> HIDE DEF a, b
<1>5. LET w == [k EXCEPT !.wire = a, !.outputBuffer = b]
      IN /\ w \in Connection
         /\ w.state = k.state /\ w.fd = k.fd /\ w.events = k.events
         /\ w.ignored = k.ignored /\ w.shut = k.shut
         /\ w.wire = a /\ w.outputBuffer = b
  BY <1>4 DEF Connection
<1>6. QED
  BY <1>5 DEF a, b, Written

\* sendInLoop, called by send or as a functor, on a constructed connection: it
\* writes and keeps, and asks for a writable socket if something is kept.
LEMMA SendInLoopProperties ==
  ASSUME TypeOK, NEW c \in Conns, NEW m \in Messages, sendInLoop(c, m)
  PROVE  /\ conn' \in [Conns -> Connection]
         /\ \A d \in Conns : d # c => conn'[d] = conn[d]
         /\ conn'[c].state = conn[c].state
         /\ conn'[c].fd = conn[c].fd
         /\ conn'[c].ignored = conn[c].ignored
         /\ conn'[c].shut = conn[c].shut
         /\ \/ conn'[c].events = conn[c].events
            \/ conn'[c].events = {"out"} /\ ~isWriting(c)
         /\ conn'[c].outputBuffer = conn[c].outputBuffer \/ isWriting(c)'
         /\ \E n \in 0..MsgLen :
              /\ n > 0 => conn[c].outputBuffer = <<>>
              /\ conn'[c].wire = conn[c].wire \o Bytes(m, n)
              /\ conn'[c].outputBuffer = conn[c].outputBuffer \o Bytes(m, MsgLen - n)
         /\ pc' = pc \/ (pc' = "aborted" /\ ~Registered(c))
<1> DEFINE w(n) == Written(conn[c], m, n)
           on(n) == n < MsgLen /\ ~isWriting(c)
<1>1. PICK n \in 0..MsgLen :
        /\ n > 0 => CanWriteDirectly(c) /\ ~conn[c].shut
        /\ conn' = [conn EXCEPT ![c] = IF on(n) THEN updateChannel(w(n), {"out"}) ELSE w(n)]
        /\ pc' = IF on(n) /\ ~Registered(c) THEN "aborted" ELSE pc
  BY DEF sendInLoop, Written
<1>2. conn[c] \in Connection
  BY DEF TypeOK
<1>3. /\ w(n) \in Connection
      /\ w(n).state = conn[c].state /\ w(n).fd = conn[c].fd /\ w(n).events = conn[c].events
      /\ w(n).ignored = conn[c].ignored /\ w(n).shut = conn[c].shut
      /\ w(n).wire = conn[c].wire \o Bytes(m, n)
      /\ w(n).outputBuffer = conn[c].outputBuffer \o Bytes(m, MsgLen - n)
  BY <1>2, WrittenType
<1>4. ~on(n) => w(n).outputBuffer = conn[c].outputBuffer \/ isWriting(c)
  <2>1. CASE n = MsgLen
    <3>1. Bytes(m, MsgLen - n) = <<>>
      BY <2>1, ConstantsAssumption DEF Bytes
    <3>2. conn[c].outputBuffer \o <<>> = conn[c].outputBuffer
      BY <1>2 DEF Connection
    <3>3. QED
      BY <1>3, <3>1, <3>2
  <2>2. CASE n < MsgLen
    BY <2>2
  <2>3. n = MsgLen \/ n < MsgLen
    BY ConstantsAssumption
  <2>4. QED
    BY <2>1, <2>2, <2>3
<1>5. n > 0 => conn[c].outputBuffer = <<>>
  BY <1>1 DEF CanWriteDirectly
<1> HIDE DEF w
<1>6. CASE on(n)
  <2>0. {"out"} \in SUBSET {"in", "out"} /\ {"out"} # {}
    OBVIOUS
  <2>1. /\ updateChannel(w(n), {"out"}) \in Connection
        /\ updateChannel(w(n), {"out"}).state = w(n).state
        /\ updateChannel(w(n), {"out"}).fd = w(n).fd
        /\ updateChannel(w(n), {"out"}).events = {"out"}
        /\ updateChannel(w(n), {"out"}).ignored = w(n).ignored
        /\ updateChannel(w(n), {"out"}).shut = w(n).shut
        /\ updateChannel(w(n), {"out"}).wire = w(n).wire
        /\ updateChannel(w(n), {"out"}).outputBuffer = w(n).outputBuffer
    BY <1>3, <2>0, UpdateChannelProperties
  <2>2. conn' = [conn EXCEPT ![c] = updateChannel(w(n), {"out"})]
    BY <1>1, <1>6
  <2>3. conn'[c] = updateChannel(w(n), {"out"})
    BY <2>2 DEF TypeOK
  <2>4. conn' \in [Conns -> Connection] /\ \A d \in Conns : d # c => conn'[d] = conn[d]
    BY <2>1, <2>2 DEF TypeOK
  <2>5. QED
    BY <1>1, <1>3, <1>5, <1>6, <2>1, <2>3, <2>4 DEF isWriting
<1>7. CASE ~on(n)
  <2>1. conn' = [conn EXCEPT ![c] = w(n)] /\ pc' = pc
    BY <1>1, <1>7
  <2>2. conn'[c] = w(n)
    BY <2>1 DEF TypeOK
  <2>3. conn' \in [Conns -> Connection] /\ \A d \in Conns : d # c => conn'[d] = conn[d]
    BY <1>3, <2>1 DEF TypeOK
  <2>4. QED
    BY <1>1, <1>3, <1>4, <1>5, <1>7, <2>1, <2>2, <2>3 DEF isWriting
<1>8. QED
  BY <1>6, <1>7

\* setState.
LEMMA StoreProperties ==
  ASSUME NEW k \in Connection, NEW st \in {"kDisconnecting", "kDisconnected"}
  PROVE  /\ [k EXCEPT !.state = st] \in Connection
         /\ [k EXCEPT !.state = st].state = st
         /\ [k EXCEPT !.state = st].fd = k.fd
         /\ [k EXCEPT !.state = st].events = k.events
         /\ [k EXCEPT !.state = st].ignored = k.ignored
         /\ [k EXCEPT !.state = st].outputBuffer = k.outputBuffer
         /\ [k EXCEPT !.state = st].wire = k.wire
         /\ [k EXCEPT !.state = st].shut = k.shut
BY DEF Connection

\* shutdownInLoop changes nothing of a connection but the end of the stream.
LEMMA ShutdownProperties ==
  ASSUME NEW c, NEW k \in Connection
  PROVE  /\ shutdownInLoop(c, k) \in Connection
         /\ shutdownInLoop(c, k).state = k.state
         /\ shutdownInLoop(c, k).fd = k.fd
         /\ shutdownInLoop(c, k).events = k.events
         /\ shutdownInLoop(c, k).ignored = k.ignored
         /\ shutdownInLoop(c, k).outputBuffer = k.outputBuffer
         /\ shutdownInLoop(c, k).wire = k.wire
         /\ k.shut => shutdownInLoop(c, k).shut
         /\ isWriting(c) => shutdownInLoop(c, k).shut = k.shut
<1> DEFINE e == (k.shut \/ ~isWriting(c))
<1>1. e \in BOOLEAN /\ (k.shut => e) /\ (isWriting(c) => e = k.shut)
  BY DEF Connection
<1>2. shutdownInLoop(c, k) = [k EXCEPT !.shut = e]
  BY DEF shutdownInLoop
<1> HIDE DEF e
<1>3. QED
  BY <1>1, <1>2 DEF Connection

\* send on the loop thread finds the connection registered.
LEMMA SendStep ==
  ASSUME Inv, NEW c \in Conns, NEW m \in Messages, send(c, m)
  PROVE  Inv' /\ pc' = pc
<1> USE DEF Inv, send, batchVars, pollVars, remoteVars
<1>1. conn[c].state = "kConnected" /\ sendInLoop(c, m)
  OBVIOUS
<1>2. Registered(c)
  BY <1>1 DEF Life
<1>3. /\ conn' \in [Conns -> Connection]
      /\ \A d \in Conns : d # c => conn'[d] = conn[d]
      /\ conn'[c].state = conn[c].state /\ conn'[c].fd = conn[c].fd
      /\ pc' = pc
  BY <1>1, <1>2, SendInLoopProperties
<1>4. TypeOK'
  BY <1>3 DEF TypeOK
<1>5. Moves
  BY <1>3 DEF Moves
<1>6. pc = "destroying" => functors[next].conn # c
  BY <1>1 DEF BeingDestroyed
<1>7. \A d \in Conns : Touched(d)
  BY <1>1, <1>3, <1>6 DEF Touched
<1>8. \A d \in held' : conn[d].state # "new"
  BY DEF Life, TypeOK
<1>9. /\ \A f \in calling' : OfAnotherThread(f)
      /\ ~RemoteCalls => calling' = {}
  BY DEF FunctorsConstructed, NoOtherThreads
<1>10. QED
  BY <1>3, <1>4, <1>5, <1>7, <1>8, <1>9, OrdinaryStep

\* shutdown on the loop thread, with its shutdownInLoop.
LEMMA ShutdownStep ==
  ASSUME Inv, NEW c \in Conns, shutdown(c)
  PROVE  Inv'
<1> USE DEF Inv, shutdown, batchVars, pollVars, remoteVars, userVars
<1> DEFINE k == [conn[c] EXCEPT !.state = Closing]
<1>1. conn[c].state = "kConnected" /\ conn' = [conn EXCEPT ![c] = shutdownInLoop(c, k)]
  OBVIOUS
<1>2. k \in Connection /\ k.state = "kDisconnecting" /\ k.fd = conn[c].fd
  <2>1. conn[c] \in Connection
    BY DEF TypeOK
  <2>2. QED
    BY <2>1, StoreProperties DEF Closing
<1> HIDE DEF k
<1>3. /\ conn' \in [Conns -> Connection]
      /\ \A d \in Conns : d # c => conn'[d] = conn[d]
      /\ conn'[c].state = "kDisconnecting" /\ conn'[c].fd = conn[c].fd
  BY <1>1, <1>2, ShutdownProperties DEF TypeOK
<1>4. TypeOK'
  BY <1>1, <1>3 DEF TypeOK
<1>5. Moves
  BY DEF Moves
<1>6. pc = "destroying" => functors[next].conn # c
  BY <1>1 DEF BeingDestroyed
<1>7. \A d \in Conns : Touched(d)
  BY <1>1, <1>3, <1>6 DEF Touched
<1>8. \A d \in held' : conn[d].state # "new"
  BY DEF Life, TypeOK
<1>9. /\ \A f \in calling' : OfAnotherThread(f)
      /\ ~RemoteCalls => calling' = {}
  BY DEF FunctorsConstructed, NoOtherThreads
<1>10. QED
  BY <1>4, <1>5, <1>7, <1>8, <1>9, OrdinaryStep

\* The steps of users and peers that change no connection.
LEMMA KeepDropStep ==
  ASSUME Inv, NEW c \in Conns, Keep(c) \/ Drop(c) \/ PeerStep(c)
  PROVE  Inv'
<1> USE DEF Inv, Keep, Drop, PeerStep, serverVars, batchVars, pollVars, remoteVars, userVars
<1>1. TypeOK'
  BY DEF TypeOK
<1>2. Moves
  BY DEF Moves
<1>3. \A d \in Conns : Touched(d)
  BY DEF Touched
<1>4. \A d \in connections \cup held : conn[d].state # "new"
  BY DEF Life, TypeOK
<1>5. pc = "destroying" => conn[functors[next].conn].state # "new"
  BY DEF BeingDestroyed
<1>6. \A d \in held' : conn[d].state # "new"
  BY <1>4, <1>5 DEF MayUse
<1>7. /\ \A f \in calling' : OfAnotherThread(f)
      /\ ~RemoteCalls => calling' = {}
  BY DEF FunctorsConstructed, NoOtherThreads
<1>8. QED
  BY <1>1, <1>2, <1>3, <1>6, <1>7, OrdinaryStep

\* A call that may end the process leaves the loop where it is or ends it.
LEMMA OrDieMoves ==
  ASSUME pc' \in OrDie
  PROVE  pc' = pc \/ (pc' = "aborted" /\ MayStop)
BY DEF OrDie

\* start, the entry of the loop, failing poll and accept, and handleEvent.
LEMMA PhaseStep ==
  ASSUME Inv,
         start \/ EnterLoop \/ PollFails \/ AcceptFails \/ \E c \in Conns : handleEvent(c)
  PROVE  Inv'
<1> USE DEF Inv, start, listen, EnterLoop, PollFails, AcceptFails, handleEvent, Handled,
            othersVars, serverVars, batchVars, pollVars, remoteVars, userVars
<1>1. \/ pc' = pc
      \/ pc' = "aborted" /\ pc # "ended" /\ MayStop
      \/ pc = "outside" /\ pc' = "poll"
      \/ pc = "poll" /\ pc' = "dispatch"
  BY OrDieMoves
<1>2. listenning' \in BOOLEAN /\ acceptReady' \in BOOLEAN
  BY DEF TypeOK
<1>3. TypeOK'
  BY <1>1, <1>2 DEF TypeOK
<1>4. Moves
  BY <1>1 DEF Moves
<1>5. \A d \in Conns : Touched(d)
  BY DEF Touched
<1>6. \A d \in Conns : revents'[d] = {} \/ revents'[d] = revents[d]
  BY DEF TypeOK
<1>7. \A d \in held' : conn[d].state # "new"
  BY DEF Life, TypeOK
<1>8. /\ \A f \in calling' : OfAnotherThread(f)
      /\ ~RemoteCalls => calling' = {}
  BY DEF FunctorsConstructed, NoOtherThreads
<1>9. UNCHANGED <<connections, channels, pending, functors>>
  OBVIOUS
<1>10. QED
  BY <1>3, <1>4, <1>5, <1>6, <1>7, <1>8, <1>9, OrdinaryStep

\* The calls of other threads before they reach a queue of the loop.
LEMMA RemoteCallStep ==
  ASSUME Inv,
         \/ \E c \in Conns : RemoteShutdown(c)
         \/ \E c \in Conns, m \in Messages : RemoteSend(c, m)
         \/ \E f \in calling : RemoteShutdownStores(f)
         \/ \E m \in Messages : RemoteReturns(m)
  PROVE  Inv'
<1> USE DEF Inv, MayCallRemotely, serverVars, batchVars, pollVars, remoteVars, userVars
<1>0. /\ RemoteCalls
      /\ UNCHANGED <<connections, channels, pending, functors, next, revents, pc, held,
                     peer, listenning, acceptReady>>
  BY DEF RemoteShutdown, RemoteSend, RemoteShutdownStores, RemoteReturns
<1>1. \A d \in connections \cup held : conn[d].state # "new"
  BY DEF Life, TypeOK
<1>2. Moves
  BY <1>0 DEF Moves
<1>3. \A f \in calling : OfAnotherThread(f)
  BY DEF FunctorsConstructed
<1>4. CASE \/ \E c \in Conns : RemoteShutdown(c)
           \/ \E c \in Conns, m \in Messages : RemoteSend(c, m)
           \/ \E m \in Messages : RemoteReturns(m)
  <2>1. UNCHANGED conn
    BY <1>4 DEF RemoteShutdown, RemoteSend, RemoteReturns
  <2>2. \A c \in Conns, m \in Messages : Functor("send", c, m) \in Functors
    BY DEF Functor, Functors
  <2>3. calling' \subseteq Functors /\ used' \subseteq Messages /\ frames' \subseteq Messages
    <3>1. ASSUME NEW c \in Conns, RemoteShutdown(c)
          PROVE  calling' \subseteq Functors /\ UNCHANGED <<used, frames>>
      <4>1. calling' = calling \cup {Functor("shutdownTest", c, NoMessage)}
            /\ UNCHANGED <<used, frames>>
        BY <3>1 DEF RemoteShutdown
      <4>2. Functor("shutdownTest", c, NoMessage) \in Functors
        BY DEF Functor, Functors
      <4>3. QED
        BY <4>1, <4>2 DEF TypeOK
    <3>2. ASSUME NEW c \in Conns, NEW m \in Messages, RemoteSend(c, m)
          PROVE  /\ calling' \subseteq Functors
                 /\ used' \subseteq Messages /\ frames' \subseteq Messages
      BY <2>2, <3>2 DEF TypeOK, RemoteSend
    <3>3. ASSUME NEW m \in Messages, RemoteReturns(m)
          PROVE  UNCHANGED <<calling, used>> /\ frames' \subseteq frames
      BY <3>3 DEF RemoteReturns
    <3>4. QED
      BY <1>4, <3>1, <3>2, <3>3 DEF TypeOK
  <2>4. TypeOK'
    BY <1>0, <2>1, <2>3 DEF TypeOK
  <2>5. \A f \in calling' : OfAnotherThread(f)
    BY <1>1, <1>3, <1>4 DEF Constructed, OfAnotherThread, Functor, RemoteShutdown, RemoteSend, RemoteReturns
  <2>6. \A d \in Conns : Touched(d)
    BY <2>1 DEF Touched
  <2>7. QED
    BY <1>0, <1>1, <1>2, <2>4, <2>5, <2>6, OrdinaryStep
<1>5. ASSUME NEW f \in calling, RemoteShutdownStores(f)
      PROVE  Inv'
  <2> USE <1>5 DEF RemoteShutdownStores
  <2>1. f.conn \in Conns /\ conn[f.conn].state # "new" /\ f \in Functors
    BY <1>3 DEF Constructed, OfAnotherThread, TypeOK
  <2>2. conn' = [conn EXCEPT ![f.conn] = [conn[f.conn] EXCEPT !.state = "kDisconnecting"]]
    BY <2>1 DEF Closing, TypeOK
  <2>3. /\ conn' \in [Conns -> Connection]
        /\ \A d \in Conns : d # f.conn => conn'[d] = conn[d]
        /\ conn'[f.conn].state = "kDisconnecting"
        /\ conn'[f.conn].fd = conn[f.conn].fd
        /\ conn'[f.conn].events = conn[f.conn].events
        /\ conn'[f.conn].ignored = conn[f.conn].ignored
    <3>1. conn[f.conn] \in Connection
      BY <2>1 DEF TypeOK
    <3> DEFINE k == [conn[f.conn] EXCEPT !.state = "kDisconnecting"]
    <3>2. /\ k \in Connection /\ k.state = "kDisconnecting" /\ k.fd = conn[f.conn].fd
          /\ k.events = conn[f.conn].events /\ k.ignored = conn[f.conn].ignored
      BY <3>1, StoreProperties
    <3> HIDE DEF k
    <3>3. conn' = [conn EXCEPT ![f.conn] = k]
      BY <2>2 DEF k
    <3>4. conn \in [Conns -> Connection]
      BY DEF TypeOK
    <3>5. /\ conn' \in [Conns -> Connection] /\ conn'[f.conn] = k
          /\ \A d \in Conns : d # f.conn => conn'[d] = conn[d]
      BY <2>1, <3>2, <3>3, <3>4, SMTT(30)
    <3>6. QED
      BY <3>2, <3>5
  <2>4. Functor("shutdown", f.conn, NoMessage) \in Functors
    BY <2>1 DEF Functor, Functors
  <2>5. TypeOK'
    BY <1>0, <2>1, <2>3, <2>4 DEF TypeOK
  <2>6. \A g \in calling' : OfAnotherThread(g)
    BY <1>3, <2>1 DEF Constructed, OfAnotherThread, Functor
  <2>7. \A d \in Conns : Touched(d)
    BY <1>0, <2>1, <2>3 DEF Touched
  <2>8. QED
    BY <1>0, <1>1, <1>2, <2>5, <2>6, <2>7, OrdinaryStep
<1>6. QED
  BY <1>4, <1>5

\* The functor that is called.
LEMMA CallsProperties ==
  ASSUME Inv, NEW op \in {"listen", "destroy", "send", "shutdown"}, Calls(op)
  PROVE  /\ pc = "functors" /\ functors[next].op = op
         /\ next \in 1..Len(functors) /\ next + 1 \in 1..(Len(functors) + 1)
         /\ functors[next] \in Functors
         /\ op # "listen" =>
              functors[next].conn \in Conns /\ conn[functors[next].conn].state # "new"
         /\ op # "destroy" => RemoteCalls
<1>1. pc = "functors" /\ functors[next].op = op /\ next <= Len(functors)
  BY DEF Calls
<1>2. functors \in Seq(Functors) /\ next \in 1..(Len(functors) + 1)
  BY DEF Inv, TypeOK
<1>3. next \in 1..Len(functors) /\ next + 1 \in 1..(Len(functors) + 1)
  BY <1>1, <1>2
<1>4. functors[next] \in Functors
  BY <1>2, <1>3
<1>5. Constructed(functors[next])
  BY <1>3 DEF Inv, FunctorsConstructed
<1>6. op # "destroy" => RemoteCalls
  BY <1>1, <1>3 DEF Inv, NoOtherThreads
<1>7. QED
  BY <1>1, <1>3, <1>4, <1>5, <1>6 DEF Constructed

\* A functor of another thread that leaves the map and the registry alone and
\* keeps the type of the connections.
LEMMA FunctorStep ==
  ASSUME Inv, NEW op \in {"listen", "send", "shutdown"}, Run(op),
         UNCHANGED <<connections, channels>>,
         listenning' \in BOOLEAN, pc' \in {pc, "aborted"},
         conn' \in [Conns -> Connection], \A c \in Conns : Touched(c)
  PROVE  Inv'
<1> USE DEF Inv, Run, othersVars, userVars, remoteVars, pollVars
<1>1. /\ pc = "functors" /\ functors[next].op = op
      /\ next \in 1..Len(functors) /\ next + 1 \in 1..(Len(functors) + 1)
      /\ RemoteCalls
  BY CallsProperties
<1>2. \A c \in Conns : conn'[c].state # "new" => conn'[c].fd \in Fds
  BY DEF Touched, TypeOK
<1>3. TypeOK'
  BY <1>1, <1>2 DEF TypeOK
<1>4. Moves
  BY <1>1 DEF Moves
<1>5. \A d \in held' : conn[d].state # "new"
  BY DEF Life, TypeOK
<1>6. \A f \in calling' : OfAnotherThread(f)
  BY DEF FunctorsConstructed
<1>7. QED
  BY <1>1, <1>3, <1>4, <1>5, <1>6, OrdinaryStep

\* The listen that start queued on another thread.
LEMMA RunListenStep ==
  ASSUME Inv, runListen
  PROVE  Inv'
<1> USE DEF runListen, listen
<1>1. \A c \in Conns : Touched(c)
  BY DEF Touched
<1>2. listenning' \in BOOLEAN
  OBVIOUS
<1>3. pc' \in {pc, "aborted"}
  BY OrDieMoves
<1>4. conn' \in [Conns -> Connection]
  BY DEF Inv, TypeOK
<1>5. QED
  BY <1>1, <1>2, <1>3, <1>4, FunctorStep

\* Whatever message a functor of send finds, and whether or not its connection
\* still exists.
LEMMA RunSendStep ==
  ASSUME Inv, runSend
  PROVE  Inv'
<1> USE DEF runSend
<1>0. Run("send") /\ UNCHANGED <<listenning, connections, channels>>
  OBVIOUS
<1> DEFINE c == functors[next].conn
<1>1. pc = "functors" /\ c \in Conns /\ conn[c].state # "new"
  BY <1>0, CallsProperties DEF Run
<1>2. listenning' \in BOOLEAN /\ frames \subseteq Messages /\ TypeOK
  BY <1>0 DEF Inv, TypeOK
<1>3. CASE UNCHANGED conn /\ pc' \in {pc, "aborted"}
  <2>1. \A d \in Conns : Touched(d)
    BY <1>3 DEF Touched
  <2>2. conn' \in [Conns -> Connection]
    BY <1>3 DEF Inv, TypeOK
  <2>3. QED
    BY <1>0, <1>2, <1>3, <2>1, <2>2, FunctorStep
<1>4. ASSUME NEW m \in Messages, sendInLoop(c, m)
      PROVE  Inv'
  <2>1. /\ conn' \in [Conns -> Connection]
        /\ \A d \in Conns : d # c => conn'[d] = conn[d]
        /\ conn'[c].state = conn[c].state /\ conn'[c].fd = conn[c].fd
        /\ pc' \in {pc, "aborted"}
    BY <1>1, <1>2, <1>4, SendInLoopProperties
  <2>2. \A d \in Conns : Touched(d)
    BY <1>1, <2>1 DEF Touched
  <2>3. QED
    BY <1>0, <1>2, <2>1, <2>2, FunctorStep
<1>5. QED
  BY <1>2, <1>3, <1>4

\* The shutdownInLoop that shutdown queued on another thread.
LEMMA RunShutdownStep ==
  ASSUME Inv, runShutdown
  PROVE  Inv'
<1> USE DEF runShutdown
<1>0. Run("shutdown") /\ UNCHANGED <<listenning, connections, channels>>
  OBVIOUS
<1> DEFINE c == functors[next].conn
<1>1. pc = "functors" /\ c \in Conns /\ conn[c].state # "new"
  BY <1>0, CallsProperties DEF Run
<1>2. listenning' \in BOOLEAN /\ conn \in [Conns -> Connection]
  BY <1>0 DEF Inv, TypeOK
<1>3. CASE UNCHANGED conn /\ pc' \in {pc, "aborted"}
  <2>1. \A d \in Conns : Touched(d)
    BY <1>3 DEF Touched
  <2>2. QED
    BY <1>0, <1>2, <1>3, <2>1, FunctorStep
<1>4. CASE conn' = [conn EXCEPT ![c] = shutdownInLoop(c, conn[c])] /\ UNCHANGED pc
  <2>1. /\ shutdownInLoop(c, conn[c]) \in Connection
        /\ shutdownInLoop(c, conn[c]).state = conn[c].state
        /\ shutdownInLoop(c, conn[c]).fd = conn[c].fd
    BY <1>1, <1>2, ShutdownProperties
  <2>2. /\ conn' \in [Conns -> Connection]
        /\ \A d \in Conns : d # c => conn'[d] = conn[d]
        /\ conn'[c].state = conn[c].state /\ conn'[c].fd = conn[c].fd
    BY <1>1, <1>2, <1>4, <2>1
  <2>3. \A d \in Conns : Touched(d)
    BY <1>1, <2>2 DEF Touched
  <2>4. QED
    BY <1>0, <1>2, <1>4, <2>2, <2>3, FunctorStep
<1>5. QED
  BY <1>3, <1>4

-----------------------------------------------------------------------------
(* The steps that change the map, the registry or the queues.              *)

\* The index of a functor that was appended is its own.
LEMMA AppendedFunctor ==
  ASSUME NEW s \in Seq(Functors), NEW f \in Functors
  PROVE  /\ Append(s, f) \in Seq(Functors)
         /\ Len(Append(s, f)) = Len(s) + 1 /\ Len(s) \in Nat
         /\ Append(s, f)[Len(s) + 1] = f
         /\ \A i \in 1..Len(s) : Append(s, f)[i] = s[i]
         /\ \A i \in 1..(Len(s) + 1) : i \in 1..Len(s) \/ i = Len(s) + 1
OBVIOUS

\* A functor of another thread joins the queue.
LEMMA QueueStep ==
  ASSUME Inv, RemoteStart \/ \E f \in calling : RemoteQueues(f)
  PROVE  Inv'
<1> USE DEF Inv, serverVars, batchVars, pollVars, userVars, remoteVars
<1>1. PICK f \in Functors :
        /\ pending' = Append(pending, f)
        /\ f.op # "destroy" /\ Constructed(f)
        /\ calling' \subseteq calling
  <2>1. CASE RemoteStart
    <3>1. Functor("listen", NoConn, NoMessage) \in Functors
      BY DEF Functor, Functors
    <3>2. QED
      BY <2>1, <3>1 DEF RemoteStart, Functor, Constructed
  <2>2. ASSUME NEW f \in calling, RemoteQueues(f)
        PROVE  \E g \in Functors : /\ pending' = Append(pending, g)
                                   /\ g.op # "destroy" /\ Constructed(g)
                                   /\ calling' \subseteq calling
    <3>1. f \in Functors /\ f.op # "destroy" /\ Constructed(f)
      BY DEF TypeOK, FunctorsConstructed, OfAnotherThread
    <3>2. QED
      BY <2>2, <3>1 DEF RemoteQueues
  <2>3. QED
    BY <2>1, <2>2
<1>2. /\ RemoteCalls /\ pc \notin {"aborted", "ended"}
      /\ UNCHANGED <<peer, listenning, connections, conn, channels, functors, next,
                     revents, acceptReady, pc, held, used, frames>>
  BY DEF RemoteStart, RemoteQueues, MayCallRemotely
<1>3. /\ pending' \in Seq(Functors)
      /\ Len(pending') = Len(pending) + 1 /\ Len(pending) \in Nat
      /\ pending'[Len(pending) + 1] = f
      /\ \A i \in 1..Len(pending) : pending'[i] = pending[i]
      /\ \A i \in 1..(Len(pending) + 1) : i \in 1..Len(pending) \/ i = Len(pending) + 1
  BY <1>1, AppendedFunctor DEF TypeOK
<1>4. TypeOK'
  BY <1>1, <1>2, <1>3 DEF TypeOK
<1>5. Batched'
  BY <1>1, <1>2, <1>3 DEF Batched
<1>6. DestroysOnce'
  BY <1>1, <1>2, <1>3 DEF DestroysOnce, Destroys
<1>7. FunctorsConstructed' /\ NoOtherThreads'
  BY <1>1, <1>2, <1>3 DEF FunctorsConstructed, NoOtherThreads, Constructed, OfAnotherThread
<1>8. FdOwned' /\ BeingDestroyed'
  BY <1>2 DEF FdOwned, BeingDestroyed
<1>9. ASSUME NEW c \in Conns PROVE Due(c)' <=> Due(c)
  <2>1. \A i \in 1..Len(pending) : i \in 1..Len(pending')
    BY <1>3
  <2>2. InPending(c)' <=> InPending(c)
    BY <1>1, <1>3, <2>1 DEF InPending, Destroys
  <2>3. InBatch(c)' <=> InBatch(c)
    BY <1>2 DEF InBatch, Destroys
  <2>4. QED
    BY <2>2, <2>3 DEF Due
<1>10. ASSUME NEW c \in Conns PROVE Life(c)'
  <2>1. Registered(c)' <=> Registered(c)
    BY <1>2 DEF Registered
  <2>2. Life(c) /\ (Due(c)' <=> Due(c))
    BY <1>9
  <2>3. QED
    BY <1>2, <2>1, <2>2 DEF Life
<1>11. QED
  BY <1>4, <1>5, <1>6, <1>7, <1>8, <1>10

\* A descriptor that accept returns has no owner in the registry: whoever is
\* registered is in the map or is kept by a functor.
LEMMA RegisteredAlive ==
  ASSUME Inv, pc # "ended", NEW fd \in Fds, channels[fd] # NoConn
  PROVE  /\ channels[fd] \in Conns /\ conn[channels[fd]].fd = fd
         /\ Registered(channels[fd])
         /\ Alive(channels[fd])
<1> DEFINE c == channels[fd]
<1>1. c \in Conns /\ conn[c].fd = fd
  BY DEF Inv, TypeOK, FdOwned
<1>2. Registered(c)
  BY <1>1 DEF Registered
<1>3. c \in connections \/ Due(c)
  BY <1>1, <1>2 DEF Inv, Life
<1>4. next \in 1..(Len(functors) + 1) /\ Len(functors) \in Nat /\ Len(pending) \in Nat
  BY DEF Inv, TypeOK
<1>5. InPending(c) => \E f \in Elements(pending) : c \in Keeps(f)
  BY DEF InPending, Destroys, Elements, Keeps
<1>6. InBatch(c) => \E f \in Elements(functors) : c \in Keeps(f)
  <2>1. \A i \in next..Len(functors) : i \in 1..Len(functors)
    BY <1>4
  <2>2. QED
    BY <2>1 DEF InBatch, Destroys, Elements, Keeps
<1>7. Alive(c)
  BY <1>3, <1>5, <1>6 DEF Alive, Due
<1>8. QED
  BY <1>1, <1>2, <1>7

\* The descriptor the kernel gives to a new connection is in no slot of the registry.
LEMMA FreeFdIsUnknown ==
  ASSUME Inv, pc # "ended", NEW fd \in FreeFds
  PROVE  fd \in Fds /\ channels[fd] = NoConn
<1>1. fd \in Fds /\ fd \notin OpenFds
  BY DEF FreeFds
<1>2. QED
  BY <1>1, RegisteredAlive DEF OpenFds

\* accept: the new connection is in the map and in the registry.
LEMMA AcceptStep ==
  ASSUME Inv, AcceptSucceeds
  PROVE  Inv'
<1> USE DEF Inv, AcceptSucceeds, othersVars, userVars, remoteVars, batchVars
<1>1. PICK c \in Conns, fd \in FreeFds : Waiting(c) /\ newConnection(c, fd)
  OBVIOUS
<1>2. /\ pc = "dispatch" /\ pc' \in {"dispatch", "aborted"}
      /\ pc' = "aborted" => MayStop
      /\ acceptReady' \in BOOLEAN
      /\ UNCHANGED <<peer, held, used, calling, frames, listenning, pending, functors,
                     next, revents>>
  BY <1>1, OrDieMoves DEF newConnection
<1>3. fd \in Fds /\ channels[fd] = NoConn
  BY <1>2, FreeFdIsUnknown
<1>4. conn[c].state = "new" /\ conn[c] = NoConnection /\ conn[c].fd = NoFd
      /\ c \notin connections \cup held
  <2>1. conn[c].state = "new" /\ Life(c)
    BY <1>1 DEF Waiting
  <2>2. conn[c] = NoConnection /\ c \notin connections \cup held
    BY <2>1 DEF Life
  <2>3. QED
    BY <2>1, <2>2 DEF NoConnection
<1> DEFINE k == [TcpConnection(fd) EXCEPT !.state = "kConnected", !.events = {"in"}]
<1>5. /\ k \in Connection /\ k.state = "kConnected" /\ k.fd = fd
  <2>1. FALSE \in BOOLEAN /\ <<>> \in Seq(Messages)
    OBVIOUS
  <2>2. QED
    BY <1>3, <2>1 DEF TcpConnection, NoConnection, Connection
<1>6. /\ connections' = connections \cup {c}
      /\ conn' = [conn EXCEPT ![c] = k]
      /\ channels' = [channels EXCEPT ![fd] = c]
  <2>1. TcpConnection(fd).fd = fd
    BY DEF TcpConnection, NoConnection
  <2>2. QED
    BY <1>1, <2>1 DEF newConnection, connectEstablished
<1> HIDE DEF k
<1>7. /\ conn' \in [Conns -> Connection] /\ conn'[c] = k
      /\ \A d \in Conns : d # c => conn'[d] = conn[d]
      /\ channels'[fd] = c
      /\ \A e \in Fds : e # fd => channels'[e] = channels[e]
  BY <1>3, <1>5, <1>6 DEF TypeOK
<1>8. TypeOK'
  BY <1>2, <1>3, <1>5, <1>6, <1>7 DEF TypeOK
<1>9. Batched' /\ DestroysOnce' /\ NoOtherThreads' /\ BeingDestroyed'
  BY <1>2 DEF Batched, DestroysOnce, Destroys, NoOtherThreads, BeingDestroyed
<1>10. FunctorsConstructed'
  BY <1>2, <1>4, <1>5, <1>7 DEF FunctorsConstructed, Constructed, OfAnotherThread
<1>11. \A e \in Fds : channels[e] # c
  BY <1>4, ConstantsAssumption DEF FdOwned
<1>12. FdOwned'
  <2> SUFFICES ASSUME NEW e \in Fds, channels'[e] # NoConn
               PROVE  conn'[channels'[e]].fd = e
    BY DEF FdOwned
  <2>1. CASE e = fd
    BY <1>5, <1>7, <2>1
  <2>2. CASE e # fd
    <3>1. channels'[e] = channels[e] /\ channels[e] \in Conns /\ channels[e] # c
      BY <1>7, <1>11, <2>2 DEF TypeOK
    <3>2. QED
      BY <1>7, <3>1 DEF FdOwned
  <2>3. QED
    BY <2>1, <2>2
<1>13. \A d \in Conns : Due(d)' <=> Due(d)
  BY <1>2 DEF Due, InPending, InBatch, Destroys
<1>14. ~Registered(c) /\ ~Due(c)
  <2>1. ~Registered(c)
    BY <1>4, ConstantsAssumption DEF Registered
  <2>2. QED
    BY <2>1 DEF Life
<1>15. Life(c)'
  <2>1. Registered(c)'
    BY <1>3, <1>5, <1>7 DEF Registered
  <2>2. ~Due(c)' /\ revents'[c] = {}
    BY <1>2, <1>4, <1>13, <1>14 DEF Life, TypeOK
  <2>3. QED
    BY <1>5, <1>6, <1>7, <2>1, <2>2 DEF Life, Open
<1>16. ASSUME NEW d \in Conns, d # c PROVE Life(d)'
  <2>1. Registered(d)' <=> Registered(d)
    <3>1. CASE conn[d].fd = fd
      <4>1. channels'[fd] # d /\ channels[fd] # d
        BY <1>3, <1>7, <1>16, ConstantsAssumption
      <4>2. QED
        BY <1>3, <1>7, <1>16, <3>1, <4>1 DEF Registered
    <3>2. CASE conn[d].fd # fd
      BY <1>7, <1>16, <3>2 DEF Registered
    <3>3. QED
      BY <3>1, <3>2
  <2>2. Life(d) /\ (Due(d)' <=> Due(d)) /\ conn'[d] = conn[d]
    BY <1>7, <1>13, <1>16
  <2>3. d \in connections' <=> d \in connections
    BY <1>6, <1>16
  <2>4. QED
    BY <1>2, <1>16, <2>1, <2>2, <2>3 DEF Life
<1>17. QED
  BY <1>8, <1>9, <1>10, <1>12, <1>15, <1>16

\* When the loop polls, nothing is due: the batch is empty and no handler has run
\* since it was taken.
LEMMA NothingDue ==
  ASSUME Inv, pc \in {"outside", "poll"}
  PROVE  \A c \in Conns : ~Due(c)
<1>1. functors = <<>> /\ next = 1 /\ \A i \in 1..Len(pending) : pending[i].op # "destroy"
  BY DEF Inv, Batched
<1>2. next..Len(functors) = 1..0 /\ \A i \in 1..0 : FALSE
  BY <1>1
<1>3. QED
  BY <1>1, <1>2 DEF Due, InPending, InBatch, Destroys

\* poll reports to connections that are in the map.
LEMMA PollStep ==
  ASSUME Inv, Poll
  PROVE  Inv'
<1> USE DEF Inv, Poll, othersVars, userVars, remoteVars, serverVars, batchVars
<1>1. acceptReady' \in BOOLEAN
  BY DEF AcceptorReadable, TypeOK
<1>2. TypeOK'
  BY <1>1 DEF TypeOK
<1>3. Batched' /\ DestroysOnce' /\ FunctorsConstructed' /\ NoOtherThreads' /\ FdOwned'
      /\ BeingDestroyed'
  BY DEF Batched, DestroysOnce, Destroys, FunctorsConstructed, Constructed,
         OfAnotherThread, NoOtherThreads, FdOwned, BeingDestroyed
<1>4. ASSUME NEW c \in Conns PROVE Life(c)'
  <2>1. /\ Due(c)' <=> Due(c)
        /\ Registered(c)' <=> Registered(c)
    BY DEF Due, InPending, InBatch, Destroys, Registered
  <2>2. Life(c) /\ ~Due(c)
    BY NothingDue
  <2>3. revents'[c] # {} => Registered(c)
    BY DEF Reports
  <2>4. QED
    BY <2>1, <2>2, <2>3 DEF Life
<1>5. QED
  BY <1>2, <1>3, <1>4

\* ~TcpServer empties the map and leaves the registry.
LEMMA DestroyServerStep ==
  ASSUME Inv, destroyServer
  PROVE  Inv'
<1> USE DEF Inv, destroyServer, userVars, remoteVars, batchVars, pollVars
<1>1. TypeOK'
  BY DEF TypeOK
<1>2. Batched' /\ DestroysOnce' /\ FunctorsConstructed' /\ NoOtherThreads' /\ FdOwned'
      /\ BeingDestroyed'
  BY DEF Batched, DestroysOnce, Destroys, FunctorsConstructed, Constructed,
         OfAnotherThread, NoOtherThreads, FdOwned, BeingDestroyed
<1>3. ASSUME NEW c \in Conns PROVE Life(c)'
  <2>1. /\ Due(c)' <=> Due(c)
        /\ Registered(c)' <=> Registered(c)
    BY DEF Due, InPending, InBatch, Destroys, Registered
  <2>2. Life(c) /\ ~Due(c)
    BY NothingDue
  <2>3. QED
    BY <2>1, <2>2 DEF Life
<1>4. QED
  BY <1>1, <1>2, <1>3

\* The assertions of handleClose and removeConnection hold.
LEMMA CloseIsExpected ==
  ASSUME Inv, NEW c \in Conns, handleClose(c)
  PROVE  /\ pc = "dispatch" /\ pc' = pc /\ c \in connections
         /\ conn[c].state \in Open /\ Registered(c) /\ ~Due(c)
<1>1. pc = "dispatch" /\ revents[c] # {}
  BY DEF handleClose, Handled
<1>2. c \in connections /\ conn[c].state \in Open /\ Registered(c) /\ ~Due(c)
  BY <1>1 DEF Inv, Life
<1>3. QED
  BY <1>1, <1>2 DEF handleClose

\* handleClose: the connection leaves the map, and its connectDestroyed is due.
LEMMA CloseStep ==
  ASSUME Inv, NEW c \in Conns, handleClose(c)
  PROVE  Inv'
<1> USE DEF Inv, handleClose, Handled, removeConnection, othersVars, userVars, remoteVars,
            batchVars
<1>1. /\ pc = "dispatch" /\ pc' = pc /\ c \in connections
      /\ conn[c].state \in Open /\ Registered(c) /\ ~Due(c)
  BY CloseIsExpected
<1>2. /\ UNCHANGED <<peer, held, used, calling, frames, listenning, functors, next,
                     acceptReady, channels>>
      /\ connections' = connections \ {c}
      /\ functors = <<>> /\ next = 1
  BY <1>1 DEF Batched
<1> DEFINE k == updateChannel(conn[c], {})
           f == Functor("destroy", c, NoMessage)
<1>3. k \in Connection /\ k.state = conn[c].state /\ k.fd = conn[c].fd
  BY UpdateChannelProperties DEF TypeOK
<1>4. f \in Functors /\ f.op = "destroy" /\ f.conn = c
  BY DEF Functor, Functors
<1>5. conn' = [conn EXCEPT ![c] = k] /\ pending' = Append(pending, f)
  OBVIOUS
<1> HIDE DEF k, f
<1>6. /\ pending' \in Seq(Functors)
      /\ Len(pending') = Len(pending) + 1 /\ Len(pending) \in Nat
      /\ pending'[Len(pending) + 1] = f
      /\ \A i \in 1..Len(pending) : pending'[i] = pending[i]
      /\ \A i \in 1..(Len(pending) + 1) : i \in 1..Len(pending) \/ i = Len(pending) + 1
  BY <1>4, <1>5, AppendedFunctor DEF TypeOK
<1>7. /\ conn' \in [Conns -> Connection] /\ conn'[c] = k
      /\ \A d \in Conns : d # c => conn'[d] = conn[d]
      /\ \A d \in Conns : conn'[d].state = conn[d].state /\ conn'[d].fd = conn[d].fd
  BY <1>3, <1>5 DEF TypeOK
<1>8. /\ revents' \in [Conns -> SUBSET {"in", "out"}] /\ revents'[c] = {}
      /\ \A d \in Conns : d # c => revents'[d] = revents[d]
  BY DEF TypeOK
<1>9. TypeOK'
  BY <1>1, <1>2, <1>6, <1>7, <1>8 DEF TypeOK
<1>10. Batched' /\ BeingDestroyed'
  BY <1>1, <1>2 DEF Batched, BeingDestroyed
<1>11. FunctorsConstructed' /\ NoOtherThreads'
  <2>1. conn[c].state # "new"
    BY <1>1 DEF Open
  <2>2. FunctorsConstructed'
    BY <1>2, <1>4, <1>6, <1>7, <2>1 DEF FunctorsConstructed, Constructed, OfAnotherThread
  <2>3. NoOtherThreads'
    BY <1>1, <1>2, <1>4, <1>6 DEF NoOtherThreads
  <2>4. QED
    BY <2>2, <2>3
<1>12. DestroysOnce'
  <2>1. \A i \in 1..Len(pending) : ~Destroys(pending[i], c)
    BY <1>1 DEF Due, InPending
  <2>2. QED
    BY <1>2, <1>4, <1>6, <2>1 DEF DestroysOnce, Destroys
<1>13. FdOwned'
  BY <1>2, <1>7 DEF FdOwned, TypeOK
<1>14. \A d \in Conns : Registered(d)' <=> Registered(d)
  BY <1>2, <1>7 DEF Registered
<1>15. ASSUME NEW d \in Conns PROVE Due(d)' <=> Due(d) \/ d = c
  <2>1. InBatch(d)' <=> InBatch(d)
    BY <1>2 DEF InBatch, Destroys
  <2>2. Len(pending) + 1 \in 1..Len(pending') /\ \A i \in 1..Len(pending) : i \in 1..Len(pending')
    BY <1>6
  <2>3. InPending(d)' <=> InPending(d) \/ d = c
    BY <1>4, <1>6, <2>2 DEF InPending, Destroys
  <2>4. QED
    BY <2>1, <2>3 DEF Due
<1>16. ASSUME NEW d \in Conns PROVE Life(d)'
  <2>1. Life(d) /\ (Registered(d)' <=> Registered(d)) /\ (Due(d)' <=> Due(d) \/ d = c)
        /\ conn'[d].state = conn[d].state
    BY <1>7, <1>14, <1>15
  <2>2. CASE d = c
    BY <1>1, <1>2, <1>8, <2>1, <2>2 DEF Life, Open
  <2>3. CASE d # c
    <3>1. conn'[d] = conn[d] /\ revents'[d] = revents[d] /\ (d \in connections' <=> d \in connections)
      BY <1>2, <1>7, <1>8, <2>3
    <3>2. QED
      BY <1>1, <1>2, <2>1, <2>3, <3>1 DEF Life
  <2>4. QED
    BY <2>2, <2>3
<1>17. QED
  BY <1>9, <1>10, <1>11, <1>12, <1>13, <1>16

\* doPendingFunctors takes the queue as its batch.
LEMMA TakeStep ==
  ASSUME Inv, AllHandled
  PROVE  Inv'
<1> USE DEF Inv, AllHandled, DispatchDone, TakeFunctors, othersVars, userVars, remoteVars,
            serverVars, pollVars
<1>1. functors = <<>> /\ next = 1 /\ next' = 1 /\ functors' = pending /\ pending' = <<>>
      /\ pc = "dispatch" /\ pc' = "functors"
  BY DEF Batched
<1>2. Len(pending') = 0 /\ pending' \in Seq(Functors) /\ Len(pending) \in Nat
      /\ 1 \in 1..(Len(pending) + 1) /\ \A i \in 1..0 : FALSE
  BY <1>1 DEF TypeOK
<1>3. TypeOK'
  BY <1>1, <1>2 DEF TypeOK
<1>4. Batched' /\ DestroysOnce' /\ NoOtherThreads' /\ FdOwned' /\ BeingDestroyed'
  BY <1>1, <1>2 DEF Batched, DestroysOnce, Destroys, NoOtherThreads, FdOwned, BeingDestroyed
<1>5. FunctorsConstructed'
  BY <1>1, <1>2 DEF FunctorsConstructed, Constructed, OfAnotherThread
<1>6. ASSUME NEW c \in Conns PROVE Life(c)'
  <2>1. next..Len(functors) = 1..0
    BY <1>1
  <2>2. Due(c)' <=> Due(c)
    BY <1>1, <1>2, <2>1 DEF Due, InPending, InBatch, Destroys
  <2>3. Registered(c)' <=> Registered(c)
    BY DEF Registered
  <2>4. Life(c) /\ revents[c] = {}
    OBVIOUS
  <2>5. QED
    BY <1>1, <2>2, <2>3, <2>4 DEF Life
<1>7. QED
  BY <1>3, <1>4, <1>5, <1>6

\* The batch ends.
LEMMA EndStep ==
  ASSUME Inv, EndFunctors
  PROVE  Inv'
<1> USE DEF Inv, EndFunctors, othersVars, userVars, remoteVars, serverVars, pollVars
<1>1. functors' = <<>> /\ next' = 1 /\ pc = "functors" /\ pc' \in {"poll", "outside"}
      /\ next > Len(functors) /\ pending' = pending
  OBVIOUS
<1>2. Len(functors') = 0 /\ functors' \in Seq(Functors) /\ Len(functors) \in Nat
      /\ next \in Nat /\ \A i \in 1..0 : FALSE
  BY <1>1 DEF TypeOK
<1>3. TypeOK'
  BY <1>1, <1>2 DEF TypeOK
<1>4. Batched' /\ DestroysOnce' /\ NoOtherThreads' /\ FdOwned' /\ BeingDestroyed'
  BY <1>1, <1>2 DEF Batched, DestroysOnce, Destroys, NoOtherThreads, FdOwned, BeingDestroyed
<1>5. FunctorsConstructed'
  BY <1>1, <1>2 DEF FunctorsConstructed, Constructed, OfAnotherThread
<1>6. ASSUME NEW c \in Conns PROVE Life(c)'
  <2>1. next..Len(functors) = {} /\ 1..0 = {}
    BY <1>1, <1>2
  <2>2. Due(c)' <=> Due(c)
    BY <1>1, <1>2, <2>1 DEF Due, InPending, InBatch, Destroys
  <2>3. Registered(c)' <=> Registered(c)
    BY DEF Registered
  <2>4. Life(c)
    OBVIOUS
  <2>5. QED
    BY <1>1, <2>2, <2>3, <2>4 DEF Life
<1>7. QED
  BY <1>3, <1>4, <1>5, <1>6

\* The assertions of connectDestroyed hold.
LEMMA DestroyIsExpected ==
  ASSUME Inv, connectDestroyed
  PROVE  /\ functors[next].conn \in Conns /\ next \in 1..Len(functors)
         /\ functors[next].op = "destroy"
         /\ pc = "functors" /\ pc' = "destroying"
         /\ conn[functors[next].conn].state \in Open /\ Registered(functors[next].conn)
         /\ Due(functors[next].conn)
<1>1. /\ pc = "functors" /\ functors[next].conn \in Conns /\ next \in 1..Len(functors)
      /\ functors[next].op = "destroy"
  BY CallsProperties DEF connectDestroyed
<1>2. Due(functors[next].conn)
  <2>1. next \in next..Len(functors)
    BY <1>1
  <2>2. QED
    BY <1>1, <2>1 DEF Due, InBatch, Destroys
<1>3. conn[functors[next].conn].state \in Open /\ Registered(functors[next].conn)
  BY <1>1, <1>2 DEF Inv, Life
<1>4. QED
  BY <1>1, <1>2, <1>3 DEF connectDestroyed

\* connectDestroyed up to the user's callback.
LEMMA DestroyStep ==
  ASSUME Inv, connectDestroyed
  PROVE  Inv'
<1> USE DEF Inv, connectDestroyed, othersVars, userVars, remoteVars, batchVars, pollVars
<1> DEFINE c == functors[next].conn
           k == updateChannel([conn[c] EXCEPT !.state = "kDisconnected"], {})
<1>1. /\ c \in Conns /\ next \in 1..Len(functors) /\ functors[next].op = "destroy"
      /\ pc = "functors" /\ pc' = "destroying"
      /\ conn[c].state \in Open /\ Registered(c) /\ Due(c)
  BY DestroyIsExpected
<1>2. /\ UNCHANGED <<peer, held, used, calling, frames, listenning, connections, channels,
                     pending, functors, next, revents, acceptReady>>
      /\ conn' = [conn EXCEPT ![c] = k]
  OBVIOUS
<1>3. /\ k \in Connection /\ k.state = "kDisconnected" /\ k.fd = conn[c].fd
      /\ k.events = {} /\ k.ignored
  <2>1. conn[c] \in Connection
    BY <1>1 DEF TypeOK
  <2>2. /\ [conn[c] EXCEPT !.state = "kDisconnected"] \in Connection
        /\ [conn[c] EXCEPT !.state = "kDisconnected"].state = "kDisconnected"
        /\ [conn[c] EXCEPT !.state = "kDisconnected"].fd = conn[c].fd
    BY <2>1, StoreProperties
  <2>3. QED
    BY <2>2, UpdateChannelProperties
<1> HIDE DEF k, c
<1>4. /\ conn' \in [Conns -> Connection] /\ conn'[c] = k
      /\ \A d \in Conns : d # c => conn'[d] = conn[d]
      /\ \A d \in Conns : conn'[d].fd = conn[d].fd
  <2>1. conn \in [Conns -> Connection]
    BY DEF TypeOK
  <2> HIDE DEF Inv, connectDestroyed
  <2>2. /\ conn' \in [Conns -> Connection] /\ conn'[c] = k
        /\ \A d \in Conns : d # c => conn'[d] = conn[d]
    BY <2>1, <1>1, <1>2, <1>3
  <2>3. QED
    BY <2>2, <1>3
<1>5. TypeOK'
  <2>1. \A d \in Conns : conn'[d].state # "new" => conn'[d].fd \in Fds
    BY <1>1, <1>4 DEF TypeOK, Open
  <2>2. QED
    BY <1>1, <1>2, <1>4, <2>1 DEF TypeOK
<1>6. functors'[next'].conn = c
  BY <1>2 DEF c
<1>7. Batched' /\ DestroysOnce' /\ NoOtherThreads'
  BY <1>1, <1>2 DEF Batched, DestroysOnce, Destroys, NoOtherThreads, TypeOK
<1>8. BeingDestroyed'
  BY <1>3, <1>4, <1>6 DEF BeingDestroyed
<1>9. FunctorsConstructed'
  BY <1>1, <1>2, <1>3, <1>4 DEF FunctorsConstructed, Constructed, OfAnotherThread
<1>10. FdOwned'
  <2>1. \A fd \in Fds : channels[fd] # NoConn => channels[fd] \in Conns
    BY DEF TypeOK
  <2>2. QED
    BY <1>2, <1>4, <2>1 DEF FdOwned
<1>11. \A d \in Conns : /\ Registered(d)' <=> Registered(d)
                        /\ Due(d)' <=> Due(d)
  BY <1>2, <1>4 DEF Registered, Due, InPending, InBatch, Destroys
<1>12. ASSUME NEW d \in Conns PROVE Life(d)'
  <2>1. Life(d) /\ (Registered(d)' <=> Registered(d)) /\ (Due(d)' <=> Due(d))
    BY <1>11
  <2>2. CASE d = c
    <3>1. conn'[d].state = "kDisconnected" /\ d \notin connections
      BY <1>1, <1>3, <1>4, <2>1, <2>2 DEF Life
    <3>2. revents[d] = {}
      BY <1>1, <2>1 DEF Life
    <3>3. QED
      BY <1>1, <1>2, <1>6, <2>1, <2>2, <3>1, <3>2 DEF Life
  <2>3. CASE d # c
    BY <1>1, <1>2, <1>4, <2>1, <2>3 DEF Life
  <2>4. QED
    BY <2>2, <2>3
<1>13. QED
  BY <1>5, <1>7, <1>8, <1>9, <1>10, <1>12

\* The assertions of Poller::removeChannel hold.
LEMMA RemovalIsExpected ==
  ASSUME Inv, removeChannel
  PROVE  /\ functors[next].conn \in Conns /\ next \in 1..Len(functors)
         /\ functors[next].op = "destroy"
         /\ pc = "destroying" /\ pc' = "functors"
         /\ Registered(functors[next].conn)
         /\ conn[functors[next].conn].events = {}
<1>1. pc = "destroying" /\ next <= Len(functors) /\ functors[next].op = "destroy"
  BY DEF Inv, Batched, removeChannel
<1>2. next \in 1..Len(functors)
  BY <1>1 DEF Inv, TypeOK
<1>3. functors[next].conn \in Conns
  BY <1>1, <1>2 DEF Inv, FunctorsConstructed, Constructed
<1>4. Due(functors[next].conn)
  <2>1. next \in next..Len(functors)
    BY <1>2
  <2>2. QED
    BY <1>1, <2>1 DEF Due, InBatch, Destroys
<1>5. Registered(functors[next].conn)
  BY <1>3, <1>4 DEF Inv, Life
<1>6. conn[functors[next].conn].events = {} /\ conn[functors[next].conn].ignored
  BY <1>1 DEF Inv, BeingDestroyed
<1>7. QED
  BY <1>1, <1>2, <1>3, <1>5, <1>6 DEF removeChannel

\* connectDestroyed after the callback: the channel leaves the registry and the
\* functor is done.
LEMMA RemovalStep ==
  ASSUME Inv, removeChannel
  PROVE  Inv'
<1> USE DEF Inv, removeChannel, othersVars, userVars, remoteVars, pollVars
<1>0. PICK c \in Conns : c = functors[next].conn
  BY RemovalIsExpected
<1>1. /\ c = functors[next].conn /\ next \in 1..Len(functors) /\ functors[next].op = "destroy"
      /\ pc = "destroying" /\ pc' = "functors" /\ Registered(c)
  BY <1>0, RemovalIsExpected
<1>2. /\ UNCHANGED <<peer, held, used, calling, frames, listenning, connections, conn,
                     pending, functors, revents, acceptReady>>
      /\ channels' = [channels EXCEPT ![conn[c].fd] = NoConn]
      /\ next' = next + 1
  BY <1>0
<1>3. conn[c].fd \in Fds /\ channels[conn[c].fd] = c
  BY <1>1 DEF Registered
<1>4. conn[c].state = "kDisconnected" \/ (RemoteCalls /\ conn[c].state = "kDisconnecting")
  BY <1>1 DEF BeingDestroyed
<1>5. \A i \in (next + 1)..Len(functors) : ~Destroys(functors[i], c)
  <2>1. \A i \in (next + 1)..Len(functors) :
          i \in next..Len(functors) /\ next \in next..Len(functors) /\ i # next
    BY <1>1
  <2>2. QED
    BY <1>1, <2>1 DEF DestroysOnce, Destroys
<1>6. \A i \in 1..Len(pending) : pending[i].op # "destroy"
  BY <1>1 DEF Batched
<1>7. TypeOK'
  <2>1. channels' \in [Fds -> Conns \cup {NoConn}]
    BY <1>2, <1>3 DEF TypeOK
  <2>2. next' \in 1..(Len(functors) + 1)
    BY <1>1, <1>2 DEF TypeOK
  <2>3. QED
    BY <1>1, <1>2, <2>1, <2>2 DEF TypeOK
<1>8. /\ next + 1 \in Nat /\ Len(functors) \in Nat
      /\ \A i \in (next + 1)..Len(functors) : i \in next..Len(functors)
      /\ \A i \in next..Len(functors) : i = next \/ i \in (next + 1)..Len(functors)
  BY <1>1 DEF TypeOK
<1>9. Batched' /\ DestroysOnce' /\ NoOtherThreads' /\ BeingDestroyed'
  BY <1>1, <1>2, <1>6, <1>8 DEF Batched, DestroysOnce, Destroys, NoOtherThreads, BeingDestroyed
<1>10. FunctorsConstructed'
  BY <1>2 DEF FunctorsConstructed, Constructed, OfAnotherThread
<1>11. FdOwned'
  BY <1>2, <1>3 DEF FdOwned, TypeOK
<1>12. ~Due(c)' /\ ~Registered(c)'
  <2>1. ~InPending(c)' /\ ~InBatch(c)'
    BY <1>2, <1>5, <1>6 DEF InPending, InBatch, Destroys
  <2>2. c # NoConn
    BY <1>1, ConstantsAssumption
  <2>3. ~Registered(c)'
    BY <1>2, <1>3, <2>2 DEF Registered, TypeOK
  <2>4. QED
    BY <2>1, <2>3 DEF Due
<1>13. ASSUME NEW d \in Conns, d # c
       PROVE  (Due(d)' <=> Due(d)) /\ (Registered(d)' <=> Registered(d))
  <2>1. InPending(d)' <=> InPending(d)
    BY <1>2 DEF InPending, Destroys
  <2>2. ~Destroys(functors[next], d)
    BY <1>1, <1>13 DEF Destroys
  <2>3. InBatch(d)' <=> InBatch(d)
    BY <1>2, <1>8, <2>2 DEF InBatch, Destroys
  <2>4. Registered(d)' <=> Registered(d)
    <3>1. d # NoConn
      BY ConstantsAssumption
    <3>2. QED
      BY <1>2, <1>3, <1>13, <3>1 DEF Registered, TypeOK
  <2>5. QED
    BY <2>1, <2>3, <2>4 DEF Due
<1>14. ASSUME NEW d \in Conns PROVE Life(d)'
  <2>1. CASE d = c
    <3>1. Life(d) /\ Due(c)
      <4>1. next \in next..Len(functors)
        BY <1>1
      <4>2. QED
        BY <1>1, <4>1 DEF Due, InBatch, Destroys
    <3>2. d \notin connections /\ revents[d] = {}
      BY <1>1, <2>1, <3>1 DEF Life
    <3>3. QED
      BY <1>1, <1>2, <1>4, <1>12, <2>1, <3>1, <3>2 DEF Life, Open
  <2>2. CASE d # c
    <3>1. Life(d) /\ (Due(d)' <=> Due(d)) /\ (Registered(d)' <=> Registered(d))
      BY <1>13, <2>2
    <3>2. Due(d) => conn[d].state \in Open
      BY <1>1, <2>2, <3>1 DEF Life
    <3>3. QED
      BY <1>1, <1>2, <3>1, <3>2 DEF Life
  <2>3. QED
    BY <2>1, <2>2
<1>15. QED
  BY <1>7, <1>9, <1>10, <1>11, <1>14

\* Every step preserves the invariant.
LEMMA InvStep == Inv /\ [Next]_vars => Inv'
<1> SUFFICES ASSUME Inv, [Next]_vars PROVE Inv'
  OBVIOUS
<1>1. CASE LoopStep
  <2>1. CASE Poll
    BY <2>1, PollStep
  <2>2. CASE PollFails \/ AcceptFails \/ \E c \in Conns : handleEvent(c)
    BY <2>2, PhaseStep
  <2>3. CASE AcceptSucceeds
    BY <2>3, AcceptStep
  <2>4. CASE \E c \in Conns : handleClose(c)
    BY <2>4, CloseStep
  <2>5. CASE AllHandled
    BY <2>5, TakeStep
  <2>6. CASE runListen
    BY <2>6, RunListenStep
  <2>7. CASE connectDestroyed
    BY <2>7, DestroyStep
  <2>8. CASE removeChannel
    BY <2>8, RemovalStep
  <2>9. CASE runSend
    BY <2>9, RunSendStep
  <2>10. CASE runShutdown
    BY <2>10, RunShutdownStep
  <2>11. CASE EndFunctors
    BY <2>11, EndStep
  <2>12. QED
    BY <1>1, <2>1, <2>2, <2>3, <2>4, <2>5, <2>6, <2>7, <2>8, <2>9, <2>10, <2>11
       DEF LoopStep
<1>2. CASE UserStep
  <2>1. CASE start \/ EnterLoop
    BY <2>1, PhaseStep
  <2>2. CASE destroyServer
    BY <2>2, DestroyServerStep
  <2>3. CASE \E c \in Conns : shutdown(c)
    BY <2>3, ShutdownStep
  <2>4. CASE \E c \in Conns : Keep(c) \/ Drop(c)
    BY <2>4, KeepDropStep
  <2>5. CASE \E c \in Conns, m \in Messages : send(c, m)
    BY <2>5, SendStep
  <2>6. QED
    BY <1>2, <2>1, <2>2, <2>3, <2>4, <2>5 DEF UserStep
<1>3. CASE RemoteStep
  <2>1. CASE RemoteStart \/ \E f \in calling : RemoteQueues(f)
    BY <2>1, QueueStep
  <2>2. CASE \/ \E c \in Conns : RemoteShutdown(c)
             \/ \E c \in Conns, m \in Messages : RemoteSend(c, m)
             \/ \E f \in calling : RemoteShutdownStores(f)
             \/ \E m \in Messages : RemoteReturns(m)
    BY <2>2, RemoteCallStep
  <2>3. QED
    BY <1>3, <2>1, <2>2 DEF RemoteStep
<1>4. CASE \E c \in Conns : PeerStep(c)
  BY <1>4, KeepDropStep
<1>5. CASE UNCHANGED vars
  <2> USE <1>5 DEF Inv, vars, serverVars, batchVars, pollVars, userVars, remoteVars
  <2>1. TypeOK'
    BY DEF TypeOK
  <2>2. Moves /\ \A c \in Conns : Touched(c)
    BY DEF Moves, Touched
  <2>3. \A d \in held' : conn[d].state # "new"
    BY DEF Life, TypeOK
  <2>4. /\ \A f \in calling' : OfAnotherThread(f)
        /\ ~RemoteCalls => calling' = {}
    BY DEF FunctorsConstructed, NoOtherThreads
  <2>5. QED
    BY <2>1, <2>2, <2>3, <2>4, OrdinaryStep
<1>6. QED
  BY <1>1, <1>2, <1>3, <1>4, <1>5 DEF Next

\* What every state of the server has, from which the theorems follow.
THEOREM Invariance == SafeSpec => []Inv
BY InvInit, InvStep, PTL DEF SafeSpec

-----------------------------------------------------------------------------
(* The safety properties.                                                  *)

\* The variables keep their types, whoever calls and whatever fails: in particular
\* a connection has a descriptor from its construction on.
THEOREM TypeCorrect == SafeSpec => []TypeOK
<1>1. Inv => TypeOK
  BY DEF Inv
<1>2. QED
  BY <1>1, Invariance, PTL

\* A registered channel has an open descriptor of its own, also with calls of
\* other threads and with system calls that end the process (removeConnection's
\* functor, TcpServer.cpp:110).
THEOREM RegistryIsOpen == SafeSpec => []RegisteredIsOpen
<1>1. Inv => RegisteredIsOpen
  BY RegisteredAlive DEF RegisteredIsOpen
<1>2. QED
  BY <1>1, Invariance, PTL

\* A closed connection is out of the registry before the next poll, also with
\* calls of other threads (TcpServer.cpp:115, EventLoop.cpp:82).
THEOREM NeverPollsClosed == SafeSpec => []ClosedNotPolled
<1>1. ASSUME Inv PROVE ClosedNotPolled
  <2> SUFFICES ASSUME pc = "poll", NEW fd \in Fds, channels[fd] # NoConn
               PROVE  channels[fd] \in connections
    BY DEF ClosedNotPolled
  <2>1. channels[fd] \in Conns /\ Registered(channels[fd])
    BY <1>1, RegisteredAlive
  <2>2. ~Due(channels[fd])
    BY <1>1, <2>1, NothingDue
  <2>3. QED
    BY <1>1, <2>1, <2>2 DEF Inv, Life
<1>2. QED
  BY <1>1, Invariance, PTL

\* The batch from the next functor on, as its places.
LEMMA DestroyingIsDue ==
  ASSUME TypeOK
  PROVE  \A c : c \in Destroying <=> Due(c)
<1> DEFINE rest == SubSeq(functors, next, Len(functors))
<1>1. functors \in Seq(Functors) /\ next \in 1..(Len(functors) + 1) /\ Len(functors) \in Nat
  BY DEF TypeOK
<1>2. /\ Len(rest) = Len(functors) - next + 1
      /\ \A i \in 1..Len(rest) : rest[i] = functors[next + i - 1]
  BY <1>1
<1>3. \A g : g \in Elements(rest) <=> \E i \in next..Len(functors) : g = functors[i]
  <2>1. ASSUME NEW i \in 1..Len(rest)
        PROVE  next + i - 1 \in next..Len(functors) /\ rest[i] = functors[next + i - 1]
    BY <1>1, <1>2
  <2>2. ASSUME NEW i \in next..Len(functors)
        PROVE  i - next + 1 \in 1..Len(rest) /\ rest[i - next + 1] = functors[i]
    <3>1. i - next + 1 \in 1..Len(rest) /\ next + (i - next + 1) - 1 = i
      BY <1>1, <1>2
    <3>2. QED
      BY <1>2, <3>1
  <2> HIDE DEF rest
  <2> TAKE g
  <2>3. ASSUME g \in Elements(rest) PROVE \E i \in next..Len(functors) : g = functors[i]
    <3>1. PICK i \in 1..Len(rest) : g = rest[i]
      BY <2>3 DEF Elements
    <3>2. next + i - 1 \in next..Len(functors) /\ g = functors[next + i - 1]
      BY <2>1, <3>1
    <3>3. QED
      BY <3>2
  <2>4. ASSUME NEW i \in next..Len(functors), g = functors[i] PROVE g \in Elements(rest)
    BY <2>2, <2>4 DEF Elements
  <2>5. QED
    BY <2>3, <2>4
<1> HIDE DEF rest
<1>4. Destroying = {f.conn : f \in {g \in Elements(pending) \cup Elements(rest) : g.op = "destroy"}}
  BY DEF Destroying, rest
<1>5. \A g : g \in Elements(pending) <=> \E i \in 1..Len(pending) : g = pending[i]
  BY DEF Elements
<1>6. QED
  BY <1>3, <1>4, <1>5 DEF Due, InPending, InBatch, Destroys

\* The registry, the map and state_ agree on the life of every connection when the
\* server is used as the program uses it, on one thread.
THEOREM LivesAgree == ASSUME ~RemoteCalls PROVE SafeSpec => []LifeCycle
<1>1. ASSUME Inv PROVE LifeCycle
  <2> SUFFICES ASSUME pc # "ended", NEW c \in Conns
               PROVE  /\ c \in connections =>
                           Registered(c) /\ c \notin Destroying /\ conn[c].state \in Open
                      /\ c \in Destroying => Registered(c)
                      /\ conn[c].state # "new" /\ c \notin connections \cup Destroying =>
                           conn[c].state = "kDisconnected" /\ ~Registered(c)
    BY DEF LifeCycle
  <2>1. c \in Destroying <=> Due(c)
    BY <1>1, DestroyingIsDue DEF Inv
  <2>2. conn[c].state \in {"new", "kConnecting", "kConnected", "kDisconnecting", "kDisconnected"}
    BY <1>1 DEF Inv, TypeOK, Connection
  <2>3. Life(c)
    BY <1>1 DEF Inv
  <2>4. QED
    BY <2>1, <2>2, <2>3 DEF Life
<1>2. QED
  BY <1>1, Invariance, PTL

\* No assertion of the life cycle fails on one thread, as long as no system call
\* ends the process: handleClose, removeConnection, connectDestroyed,
\* updateChannel and removeChannel find what they expect.
THEOREM NoAssertionFails ==
  ASSUME ~RemoteCalls, ~MayStop PROVE SafeSpec => []AssertionsHold
<1>1. Inv => AssertionsHold
  BY DEF Inv, NoOtherThreads, AssertionsHold
<1>2. QED
  BY <1>1, Invariance, PTL

-----------------------------------------------------------------------------
(* The refinements, on one thread.                                         *)

\* Without other threads the other steps change no connection, no registration
\* and no report.
LEMMA StepsOfOneThread ==
  ASSUME Inv, ~RemoteCalls, [Next]_vars
  PROVE  \/ UNCHANGED <<connections, conn, channels, revents>>
         \/ Poll \/ AcceptSucceeds \/ connectDestroyed \/ removeChannel \/ destroyServer
         \/ \E c \in Conns : handleEvent(c) \/ handleClose(c) \/ shutdown(c)
         \/ \E c \in Conns, m \in Messages : send(c, m)
<1>1. ~Calls("listen") /\ ~Calls("send") /\ ~Calls("shutdown")
  BY CallsProperties
<1>2. ~runListen /\ ~runSend /\ ~runShutdown
  BY <1>1 DEF runListen, runSend, runShutdown, Run
<1>3. ~RemoteStep
  BY DEF RemoteStep, RemoteStart, RemoteShutdown, RemoteSend, RemoteShutdownStores,
         RemoteQueues, RemoteReturns, MayCallRemotely
<1>4. CASE \/ PollFails \/ AcceptFails \/ AllHandled \/ EndFunctors
           \/ start \/ EnterLoop \/ UNCHANGED vars
           \/ \E c \in Conns : Keep(c) \/ Drop(c) \/ PeerStep(c)
  BY <1>4 DEF PollFails, AcceptFails, AllHandled, EndFunctors, start, listen, EnterLoop,
              Keep, Drop, PeerStep, vars, serverVars, pollVars
<1>5. QED
  BY <1>2, <1>3, <1>4 DEF Next, LoopStep, UserStep

\* The refinement mapping of Interface.
Interest == [c \in Conns |-> conn[c].events]
Off == {c \in Conns : Registered(c) /\ conn[c].ignored}
Reported == {c \in Conns : revents[c] # {}}

\* The registry of the abstract specification knows the same connections.
LEMMA RegistrySeen ==
  ASSUME Inv, NEW c \in Conns
  PROVE  Interface!Registered(c) <=> Registered(c)
<1>1. c # NoConn
  BY ConstantsAssumption
<1>2. QED
  BY <1>1 DEF Inv, FdOwned, Interface!Registered, Registered

\* What a change of one connection's interest is to the registry.
LEMMA UpdateSeen ==
  ASSUME Inv, NEW c \in Conns, Registered(c), conn' \in [Conns -> Connection],
         UNCHANGED channels,
         \A d \in Conns : d # c => conn'[d] = conn[d],
         conn'[c].fd = conn[c].fd,
         IF conn'[c].events = {} THEN conn'[c].ignored
                                 ELSE conn'[c].ignored = conn[c].ignored
  PROVE  Interface!Update(c)
<1>1. Interest' = [Interest EXCEPT ![c] = Interest'[c]]
  BY DEF Interest
<1>2. \A d \in Conns : Registered(d)' <=> Registered(d)
  BY DEF Registered
<1>3. Off' = IF Interest'[c] = {} THEN Off \cup {c} ELSE Off
  BY <1>2 DEF Off, Interest
<1>4. Interface!Registered(c)
  BY RegistrySeen
<1>5. QED
  BY <1>1, <1>3, <1>4 DEF Interface!Update, Interest, Off

\* Every step is one of Registry or leaves its variables alone.
LEMMA RegistryStep ==
  ASSUME Inv, ~RemoteCalls, [Next]_vars
  PROVE  Interface!Next \/ UNCHANGED Interface!vars
<1>1. CASE UNCHANGED <<connections, conn, channels, revents>> \/ destroyServer
  <2>1. UNCHANGED <<conn, channels, revents>>
    BY <1>1 DEF destroyServer, pollVars
  <2>2. UNCHANGED <<Interest, Off, Reported>>
    BY <2>1 DEF Interest, Off, Reported, Registered
  <2>3. QED
    BY <2>1, <2>2 DEF Interface!vars, Interest, Off, Reported
<1>2. CASE Poll
  <2>1. pc = "poll" /\ UNCHANGED <<conn, channels>>
    BY <1>2 DEF Poll, serverVars
  <2>2. Reported = {}
    BY <2>1 DEF Inv, Life, Reported
  <2>3. UNCHANGED <<Interest, Off>>
    BY <2>1 DEF Interest, Off, Registered
  <2>4. ASSUME NEW c \in Reported'
        PROVE  Interface!Registered(c) /\ c \notin Off /\ Interest[c] # {}
    <3>1. c \in Conns /\ revents'[c] \in Reports(c) /\ revents'[c] # {}
      BY <1>2 DEF Poll, Reported
    <3>2. Registered(c) /\ ~conn[c].ignored /\ revents'[c] \subseteq conn[c].events
      BY <3>1 DEF Reports
    <3>3. QED
      BY <3>1, <3>2, RegistrySeen DEF Off, Interest
  <2>5. Interface!Report
    BY <2>1, <2>2, <2>3, <2>4 DEF Interface!Report, Interest, Off, Reported
  <2>6. QED
    BY <2>5 DEF Interface!Next
<1>3. ASSUME NEW c \in Conns, handleEvent(c) PROVE Interface!Next
  <2>1. /\ UNCHANGED <<conn, channels>> /\ revents[c] # {}
        /\ revents' = [revents EXCEPT ![c] = {}]
    BY <1>3 DEF handleEvent, Handled
  <2>2. UNCHANGED <<Interest, Off>>
    BY <2>1 DEF Interest, Off, Registered
  <2>3. c \in Reported /\ Reported' = Reported \ {c}
    BY <2>1 DEF Reported, Inv, TypeOK
  <2>4. QED
    BY <2>1, <2>2, <2>3 DEF Interface!Next, Interface!Handle, Interest, Off, Reported
<1>4. ASSUME NEW c \in Conns, handleClose(c) PROVE Interface!Next
  <2>1. Registered(c) /\ conn[c] \in Connection
    BY <1>4, CloseIsExpected DEF Inv, TypeOK
  <2>2. /\ UNCHANGED channels /\ revents[c] # {}
        /\ revents' = [revents EXCEPT ![c] = {}]
        /\ conn' = [conn EXCEPT ![c] = updateChannel(conn[c], {})]
    BY <1>4 DEF handleClose, Handled
  <2>3. /\ conn' \in [Conns -> Connection]
        /\ \A d \in Conns : d # c => conn'[d] = conn[d]
        /\ conn'[c].fd = conn[c].fd /\ conn'[c].events = {} /\ conn'[c].ignored
    BY <2>1, <2>2, UpdateChannelProperties DEF Inv, TypeOK
  <2>4. Interface!Update(c)
    BY <2>1, <2>2, <2>3, UpdateSeen
  <2>5. c \in Reported /\ Reported' = Reported \ {c}
    BY <2>2 DEF Reported, Inv, TypeOK
  <2>6. QED
    BY <2>4, <2>5 DEF Interface!Next, Interface!Handle, Interface!Change, Reported
<1>5. CASE AcceptSucceeds
  <2>1. PICK c \in Conns, fd \in FreeFds : Waiting(c) /\ newConnection(c, fd)
    BY <1>5 DEF AcceptSucceeds
  <2>2. pc = "dispatch" /\ UNCHANGED revents
    BY <1>5 DEF AcceptSucceeds
  <2>3. fd \in Fds /\ channels[fd] = NoConn
    BY <2>2, FreeFdIsUnknown
  <2>4. conn[c].state = "new" /\ conn[c].fd = NoFd /\ ~Registered(c)
    <3>1. conn[c].state = "new" /\ Life(c)
      BY <2>1 DEF Waiting, Inv
    <3>2. conn[c].fd = NoFd
      BY <3>1 DEF Life, NoConnection
    <3>3. QED
      BY <3>1, <3>2, ConstantsAssumption DEF Registered
  <2> DEFINE k == [TcpConnection(fd) EXCEPT !.state = "kConnected", !.events = {"in"}]
  <2>5. k.events = {"in"} /\ ~k.ignored /\ k.fd = fd /\ TcpConnection(fd).fd = fd
    BY DEF TcpConnection, NoConnection
  <2>6. /\ conn' = [conn EXCEPT ![c] = k]
        /\ channels' = [channels EXCEPT ![fd] = c]
    BY <2>1, <2>5 DEF newConnection, connectEstablished
  <2> HIDE DEF k
  <2>7. /\ conn'[c] = k /\ \A d \in Conns : d # c => conn'[d] = conn[d]
        /\ channels'[fd] = c /\ \A e \in Fds : e # fd => channels'[e] = channels[e]
    BY <2>3, <2>6 DEF Inv, TypeOK
  <2>8. ASSUME NEW d \in Conns, d # c PROVE Registered(d)' <=> Registered(d)
    <3>1. d # NoConn
      BY ConstantsAssumption
    <3>2. QED
      BY <2>3, <2>7, <2>8, <3>1 DEF Registered
  <2>9. Off' = Off
    BY <2>4, <2>5, <2>7, <2>8 DEF Off
  <2>10. Interest' = [Interest EXCEPT ![c] = Interest'[c]] /\ Interest'[c] # {}
    BY <2>5, <2>7 DEF Interest
  <2>11. ~Interface!Registered(c)
    BY <2>4, RegistrySeen
  <2>12. Interface!Register(c, fd)
    BY <2>3, <2>6, <2>9, <2>10, <2>11 DEF Interface!Register, Interest, Off
  <2>13. QED
    BY <2>2, <2>3, <2>12 DEF Interface!Next, Interface!Change
<1>6. CASE connectDestroyed
  <2>1. PICK c \in Conns : c = functors[next].conn /\ Registered(c)
    BY <1>6, DestroyIsExpected
  <2>2. /\ UNCHANGED <<channels, revents>>
        /\ conn' = [conn EXCEPT ![c] =
                      updateChannel([conn[c] EXCEPT !.state = "kDisconnected"], {})]
    BY <1>6, <2>1 DEF connectDestroyed, pollVars
  <2> DEFINE s == [conn[c] EXCEPT !.state = "kDisconnected"]
  <2>3. s \in Connection /\ s.fd = conn[c].fd
    BY StoreProperties DEF Inv, TypeOK
  <2> HIDE DEF s
  <2>4. conn' = [conn EXCEPT ![c] = updateChannel(s, {})]
    BY <2>2 DEF s
  <2>5. /\ conn' \in [Conns -> Connection]
        /\ \A d \in Conns : d # c => conn'[d] = conn[d]
        /\ conn'[c].fd = conn[c].fd /\ conn'[c].events = {} /\ conn'[c].ignored
    BY <2>3, <2>4, UpdateChannelProperties DEF Inv, TypeOK
  <2>6. Interface!Update(c)
    BY <2>1, <2>2, <2>5, UpdateSeen
  <2>7. QED
    BY <2>2, <2>6 DEF Interface!Next, Interface!Change
<1>7. CASE removeChannel
  <2>1. PICK c \in Conns :
          c = functors[next].conn /\ pc = "destroying" /\ Registered(c) /\ conn[c].events = {}
    BY <1>7, RemovalIsExpected
  <2>2. /\ UNCHANGED <<conn, revents>>
        /\ channels' = [channels EXCEPT ![conn[c].fd] = NoConn]
    BY <1>7, <2>1 DEF removeChannel, pollVars
  <2>3. PICK fd \in Fds : fd = conn[c].fd /\ channels[fd] = c /\ c # NoConn
    BY <2>1, ConstantsAssumption DEF Registered
  <2>4. ~Registered(c)' /\ \A d \in Conns : d # c => (Registered(d)' <=> Registered(d))
    <3>1. \A d \in Conns : d # NoConn
      BY ConstantsAssumption
    <3>2. QED
      BY <2>2, <2>3, <3>1 DEF Registered, Inv, TypeOK
  <2>5. Off' = Off \ {c} /\ Interest' = Interest /\ Interest[c] = {}
    BY <2>1, <2>2, <2>4 DEF Off, Interest
  <2>6. Interface!Unregister(c, fd)
    BY <2>2, <2>3, <2>5 DEF Interface!Unregister, Interest, Off
  <2>7. QED
    BY <2>2, <2>3, <2>6 DEF Interface!Next, Interface!Change
<1>8. ASSUME NEW c \in Conns, shutdown(c) PROVE UNCHANGED Interface!vars
  <2> DEFINE k == [conn[c] EXCEPT !.state = Closing]
  <2>1. UNCHANGED <<channels, revents>> /\ conn' = [conn EXCEPT ![c] = shutdownInLoop(c, k)]
    BY <1>8 DEF shutdown, pollVars
  <2>2. /\ k \in Connection /\ k.fd = conn[c].fd
        /\ k.events = conn[c].events /\ k.ignored = conn[c].ignored
    BY StoreProperties DEF Closing, Inv, TypeOK
  <2> HIDE DEF k
  <2>3. \A d \in Conns : /\ conn'[d].fd = conn[d].fd /\ conn'[d].events = conn[d].events
                         /\ conn'[d].ignored = conn[d].ignored
    BY <2>1, <2>2, ShutdownProperties DEF Inv, TypeOK
  <2>4. UNCHANGED <<Interest, Off, Reported>>
    BY <2>1, <2>3 DEF Interest, Off, Reported, Registered
  <2>5. QED
    BY <2>1, <2>4 DEF Interface!vars, Interest, Off, Reported
<1>9. ASSUME NEW c \in Conns, NEW m \in Messages, send(c, m)
      PROVE  Interface!Next
  <2>1. UNCHANGED <<channels, revents>> /\ sendInLoop(c, m) /\ conn[c].state = "kConnected"
    BY <1>9 DEF send, pollVars
  <2>2. Registered(c) /\ TypeOK
    BY <2>1 DEF Inv, Life
  <2>3. /\ conn' \in [Conns -> Connection]
        /\ \A d \in Conns : d # c => conn'[d] = conn[d]
        /\ conn'[c].fd = conn[c].fd
        /\ conn'[c].ignored = conn[c].ignored
        /\ conn'[c].events = conn[c].events \/ conn'[c].events = {"out"}
    BY <2>1, <2>2, SendInLoopProperties
  <2>4. CASE conn'[c].events = conn[c].events
    <3>1. \A d \in Conns : /\ conn'[d].fd = conn[d].fd /\ conn'[d].events = conn[d].events
                           /\ conn'[d].ignored = conn[d].ignored
      BY <2>3, <2>4
    <3>2. UNCHANGED <<Interest, Off, Reported>>
      BY <2>1, <3>1 DEF Interest, Off, Reported, Registered
    <3>3. QED
      BY <2>1, <3>2 DEF Interface!Next, Interest, Off, Reported
  <2>5. CASE conn'[c].events = {"out"}
    <3>1. Interface!Update(c)
      BY <2>1, <2>2, <2>3, <2>5, UpdateSeen
    <3>2. QED
      BY <2>1, <3>1 DEF Interface!Next, Interface!Change
  <2>6. QED
    BY <2>3, <2>4, <2>5
<1>10. QED
  BY <1>1, <1>2, <1>3, <1>4, <1>5, <1>6, <1>7, <1>8, <1>9, StepsOfOneThread

\* A descriptor loses its owner in connectDestroyed alone, a functor, and no report
\* is left by the time that functors run.
LEMMA NothingReportedWhenRemoved ==
  ASSUME NEW fd \in Fds, Inv, ~RemoteCalls, [Next]_vars,
         channels[fd] # NoConn, channels'[fd] = NoConn
  PROVE  Reported = {}
<1>1. channels' # channels
  OBVIOUS
<1>2. CASE AcceptSucceeds
  <2>1. PICK c \in Conns, e \in FreeFds : newConnection(c, e)
    BY <1>2 DEF AcceptSucceeds
  <2>2. channels' = [channels EXCEPT ![TcpConnection(e).fd] = c] /\ c # NoConn
    BY <2>1, ConstantsAssumption DEF newConnection, connectEstablished
  <2>3. QED
    BY <2>2 DEF Inv, TypeOK
<1>3. CASE removeChannel
  <2>1. pc = "destroying"
    BY <1>3, RemovalIsExpected
  <2>2. QED
    BY <2>1 DEF Inv, Life, Reported
<1>4. CASE \/ Poll \/ connectDestroyed \/ destroyServer
           \/ \E c \in Conns : handleEvent(c) \/ handleClose(c) \/ shutdown(c)
           \/ \E c \in Conns, m \in Messages : send(c, m)
  BY <1>1, <1>4 DEF Poll, connectDestroyed, destroyServer, handleEvent, handleClose,
                    shutdown, send, serverVars, pollVars
<1>5. QED
  BY <1>1, <1>2, <1>3, <1>4, StepsOfOneThread

\* On one thread the server uses the registry as the Poller allows, and keeps the
\* rule that the Poller leaves to its users: a channel is registered on a
\* descriptor without an owner, and it leaves when it asks for nothing and every
\* report of the poll was handled (TcpServer.cpp:102-118).
THEOREM RegistryRefinement == ASSUME ~RemoteCalls PROVE SafeSpec => ImplementsRegistry
<1>1. Init => Interface!Init
  <2> SUFFICES ASSUME Init PROVE Interface!Init
    OBVIOUS
  <2>1. \A c \in Conns : ~Registered(c) /\ conn[c].events = {}
    BY ConstantsAssumption DEF Init, Registered, NoConnection
  <2>2. QED
    BY <2>1 DEF Init, Interface!Init
<1>2. Inv /\ [Next]_vars => [Interface!Next]_(Interface!vars)
  BY RegistryStep
<1>3. Inv /\ [Next]_vars =>
        [(\E fd \in Fds : channels[fd] # NoConn /\ channels'[fd] = NoConn)
           => {c \in Conns : revents[c] # {}} = {}]_(Interface!vars)
  <2> SUFFICES ASSUME Inv, [Next]_vars, NEW fd \in Fds,
                      channels[fd] # NoConn, channels'[fd] = NoConn
               PROVE  {c \in Conns : revents[c] # {}} = {}
    OBVIOUS
  <2>1. Reported = {}
    BY NothingReportedWhenRemoved
  <2>2. QED
    BY <2>1 DEF Reported
<1>4. QED
  BY <1>1, <1>2, <1>3, Invariance, PTL
  DEF SafeSpec, ImplementsRegistry, Interface!Spec, Interface!RemovalWaits

\* Output that waits has asked for a writable socket, until the connection is
\* lost.
Waits ==
  \A c \in Conns : c \in connections /\ conn[c].outputBuffer # <<>> => isWriting(c)

\* The part of a message that write took is a prefix of what there was to write,
\* and the rest is kept.
LEMMA SplitBytes ==
  ASSUME NEW b \in Seq(Messages), NEW m \in Messages, NEW n \in 0..MsgLen,
         n > 0 => b = <<>>
  PROVE  LET all == b \o Bytes(m, MsgLen)
         IN /\ n \in 0..Len(all)
            /\ SubSeq(all, 1, n) = Bytes(m, n)
            /\ SubSeq(all, n + 1, Len(all)) = b \o Bytes(m, MsgLen - n)
<1> DEFINE p == Bytes(m, MsgLen)
           all == b \o p
<1>1. /\ MsgLen \in Nat /\ n \in Nat /\ MsgLen - n \in Nat /\ Len(b) \in Nat
  BY ConstantsAssumption
<1>2. /\ p \in Seq(Messages) /\ Len(p) = MsgLen
      /\ Bytes(m, n) \in Seq(Messages) /\ Len(Bytes(m, n)) = n
      /\ Bytes(m, MsgLen - n) \in Seq(Messages) /\ Len(Bytes(m, MsgLen - n)) = MsgLen - n
  BY <1>1, BytesType
<1>3. CASE n = 0
  <2>1. Bytes(m, n) = <<>> /\ Bytes(m, MsgLen - n) = p
    <3>1. MsgLen - n = MsgLen
      BY <1>1, <1>3
    <3>2. Bytes(m, n) = <<>>
      BY <1>2, <1>3
    <3>3. QED
      BY <3>1, <3>2
  <2>2. all \in Seq(Messages) /\ Len(all) \in Nat
    BY <1>2
  <2> HIDE DEF all, p
  <2>3. SubSeq(all, 1, 0) = <<>> /\ SubSeq(all, 1, Len(all)) = all
    BY <2>2
  <2>4. n \in 0..Len(all) /\ n + 1 = 1
    BY <1>3, <2>2
  <2>5. SubSeq(all, 1, n) = Bytes(m, n) /\ SubSeq(all, n + 1, Len(all)) = all
    BY <1>3, <2>1, <2>3, <2>4
  <2>6. all = b \o Bytes(m, MsgLen - n)
    BY <2>1 DEF all
  <2>7. QED
    BY <2>4, <2>5, <2>6, Zenon DEF all, p
<1>4. CASE n > 0
  <2>1. all = p /\ b \o Bytes(m, MsgLen - n) = Bytes(m, MsgLen - n)
    BY <1>2, <1>4
  <2>2. \A i \in 1..MsgLen : p[i] = m
    BY DEF Bytes
  <2>3. (\A i \in 1..n : Bytes(m, n)[i] = m) /\ (\A i \in 1..(MsgLen - n) : Bytes(m, MsgLen - n)[i] = m)
    BY DEF Bytes
  <2> HIDE DEF p, all
  <2>4. SubSeq(p, 1, n) = Bytes(m, n)
    BY <1>1, <1>2, <2>2, <2>3
  <2>5. SubSeq(p, n + 1, MsgLen) = Bytes(m, MsgLen - n)
    BY <1>1, <1>2, <2>2, <2>3
  <2>6. QED
    BY <1>1, <1>2, <2>1, <2>4, <2>5 DEF p, all
<1>5. n = 0 \/ n > 0
  BY <1>1
<1>6. QED
  BY <1>3, <1>4, <1>5

\* What the steps that matter to users make of connections.
LEMMA AcceptEffect ==
  ASSUME Inv, AcceptSucceeds
  PROVE  \E c \in Conns :
           /\ conn[c] = NoConnection /\ c \notin connections
           /\ connections' = connections \cup {c}
           /\ \A d \in Conns : d # c => conn'[d] = conn[d]
           /\ conn'[c].state = "kConnected" /\ conn'[c].outputBuffer = <<>>
           /\ conn'[c].wire = <<>> /\ conn'[c].shut = FALSE
<1>1. PICK c \in Conns, fd \in FreeFds : Waiting(c) /\ newConnection(c, fd)
  BY DEF AcceptSucceeds
<1>2. conn[c] = NoConnection /\ c \notin connections
  BY <1>1 DEF Waiting, Inv, Life
<1> DEFINE k == [TcpConnection(fd) EXCEPT !.state = "kConnected", !.events = {"in"}]
<1>3. k.state = "kConnected" /\ k.outputBuffer = <<>> /\ k.wire = <<>> /\ k.shut = FALSE
  BY DEF TcpConnection, NoConnection
<1>4. conn' = [conn EXCEPT ![c] = k] /\ connections' = connections \cup {c}
  BY <1>1 DEF newConnection, connectEstablished
<1> HIDE DEF k
<1>5. conn'[c] = k /\ \A d \in Conns : d # c => conn'[d] = conn[d]
  BY <1>4 DEF Inv, TypeOK
<1>6. QED
  BY <1>2, <1>3, <1>4, <1>5

\* handleClose takes one connection from the map and leaves its bytes.
LEMMA CloseEffect ==
  ASSUME Inv, NEW c \in Conns, handleClose(c)
  PROVE  /\ c \in connections /\ conn[c].state \in Open
         /\ connections' = connections \ {c}
         /\ \A d \in Conns : d # c => conn'[d] = conn[d]
         /\ \A d \in Conns : /\ conn'[d].state = conn[d].state
                             /\ conn'[d].outputBuffer = conn[d].outputBuffer
                             /\ conn'[d].wire = conn[d].wire
                             /\ conn'[d].shut = conn[d].shut
<1>1. c \in connections /\ conn[c].state \in Open
  BY CloseIsExpected
<1>2. /\ connections' = connections \ {c}
      /\ conn' = [conn EXCEPT ![c] = updateChannel(conn[c], {})]
  BY DEF handleClose, removeConnection
<1>3. conn[c] \in Connection
  BY DEF Inv, TypeOK
<1>4. conn'[c] = updateChannel(conn[c], {}) /\ \A d \in Conns : d # c => conn'[d] = conn[d]
  BY <1>2 DEF Inv, TypeOK
<1>5. QED
  BY <1>1, <1>2, <1>3, <1>4, UpdateChannelProperties

\* connectDestroyed disconnects one connection and leaves its bytes.
LEMMA DestroyEffect ==
  ASSUME Inv, connectDestroyed
  PROVE  \E c \in Conns :
           /\ c \notin connections /\ conn[c].state \in Open
           /\ UNCHANGED connections
           /\ \A d \in Conns : d # c => conn'[d] = conn[d]
           /\ conn'[c].state = "kDisconnected"
           /\ \A d \in Conns : /\ conn'[d].outputBuffer = conn[d].outputBuffer
                               /\ conn'[d].wire = conn[d].wire
                               /\ conn'[d].shut = conn[d].shut
<1>1. PICK c \in Conns : /\ c = functors[next].conn /\ Due(c)
                         /\ conn[c].state \in Open
  BY DestroyIsExpected
<1>2. c \notin connections
  BY <1>1 DEF Inv, Life
<1> DEFINE s == [conn[c] EXCEPT !.state = "kDisconnected"]
<1>3. /\ s \in Connection /\ s.state = "kDisconnected"
      /\ s.outputBuffer = conn[c].outputBuffer /\ s.wire = conn[c].wire /\ s.shut = conn[c].shut
  BY StoreProperties DEF Inv, TypeOK
<1>4. conn' = [conn EXCEPT ![c] = updateChannel(s, {})] /\ UNCHANGED connections
  BY <1>1 DEF connectDestroyed
<1> HIDE DEF s
<1>5. conn'[c] = updateChannel(s, {}) /\ \A d \in Conns : d # c => conn'[d] = conn[d]
  BY <1>4 DEF Inv, TypeOK
<1>6. QED
  BY <1>1, <1>2, <1>3, <1>4, <1>5, UpdateChannelProperties

\* shutdown ends no stream whose output waits for a writable socket.
LEMMA ShutdownEffect ==
  ASSUME Inv, NEW c \in Conns, shutdown(c)
  PROVE  /\ conn[c].state = "kConnected" /\ conn'[c].state = "kDisconnecting"
         /\ UNCHANGED connections
         /\ \A d \in Conns : d # c => conn'[d] = conn[d]
         /\ \A d \in Conns : /\ conn'[d].outputBuffer = conn[d].outputBuffer
                             /\ conn'[d].wire = conn[d].wire
                             /\ conn'[d].events = conn[d].events
         /\ conn[c].shut => conn'[c].shut
         /\ isWriting(c) => conn'[c].shut = conn[c].shut
<1> DEFINE k == [conn[c] EXCEPT !.state = Closing]
<1>1. /\ conn[c].state = "kConnected" /\ UNCHANGED connections
      /\ conn' = [conn EXCEPT ![c] = shutdownInLoop(c, k)]
  BY DEF shutdown
<1>2. /\ k \in Connection /\ k.state = "kDisconnecting" /\ k.events = conn[c].events
      /\ k.outputBuffer = conn[c].outputBuffer /\ k.wire = conn[c].wire /\ k.shut = conn[c].shut
  BY StoreProperties DEF Closing, Inv, TypeOK
<1> HIDE DEF k
<1>3. conn'[c] = shutdownInLoop(c, k) /\ \A d \in Conns : d # c => conn'[d] = conn[d]
  BY <1>1 DEF Inv, TypeOK
<1>4. QED
  BY <1>1, <1>2, <1>3, ShutdownProperties

\* Output that waits goes on waiting for a writable socket: nothing switches a
\* connection's interest off before handleClose.
LEMMA WaitsStep ==
  ASSUME Inv, ~RemoteCalls, Waits, [Next]_vars
  PROVE  Waits'
<1>1. CASE UNCHANGED <<connections, conn, channels, revents>> \/ Poll \/ removeChannel
           \/ \E c \in Conns : handleEvent(c)
  <2>1. UNCHANGED <<connections, conn>>
    BY <1>1 DEF Poll, removeChannel, handleEvent, serverVars
  <2>2. QED
    BY <2>1 DEF Waits, isWriting
<1>2. CASE destroyServer
  BY <1>2 DEF destroyServer, Waits
<1>3. CASE AcceptSucceeds
  BY <1>3, AcceptEffect DEF Waits, isWriting
<1>4. ASSUME NEW c \in Conns, handleClose(c) PROVE Waits'
  BY <1>4, CloseEffect DEF Waits, isWriting
<1>5. CASE connectDestroyed
  BY <1>5, DestroyEffect DEF Waits, isWriting
<1>6. ASSUME NEW c \in Conns, shutdown(c) PROVE Waits'
  BY <1>6, ShutdownEffect DEF Waits, isWriting
<1>7. ASSUME NEW c \in Conns, NEW m \in Messages, send(c, m) PROVE Waits'
  <2>1. sendInLoop(c, m) /\ UNCHANGED connections /\ TypeOK
    BY <1>7 DEF send, Inv
  <2>2. /\ \A d \in Conns : d # c => conn'[d] = conn[d]
        /\ conn'[c].events = conn[c].events \/ conn'[c].events = {"out"}
        /\ conn'[c].outputBuffer = conn[c].outputBuffer \/ isWriting(c)'
    BY <2>1, SendInLoopProperties
  <2>3. QED
    BY <2>1, <2>2 DEF Waits, isWriting
<1>8. QED
  BY <1>1, <1>2, <1>3, <1>4, <1>5, <1>6, <1>7, StepsOfOneThread

\* The refinement mapping of Service.
Phases == [c \in Conns |-> Phase(c)]
ClosingOnes == {c \in Conns : conn[c].state \in {"kDisconnecting", "kDisconnected"}}
EndedOnes == {c \in Conns : conn[c].shut}
Kept == [c \in Conns |-> conn[c].outputBuffer]
Delivered == [c \in Conns |-> conn[c].wire]

\* Phase, and its value in the next state, spelt out for the provers.
LEMMA PhaseValue ==
  \A c : Phase(c) = IF conn[c].state = "new" THEN "new"
                    ELSE IF conn[c].state = "kDisconnected" THEN "down"
                    ELSE IF c \in connections THEN "up" ELSE "lost"
BY DEF Phase

LEMMA PhaseValueNext ==
  \A c : Phase(c)' = IF conn'[c].state = "new" THEN "new"
                     ELSE IF conn'[c].state = "kDisconnected" THEN "down"
                     ELSE IF c \in connections' THEN "up" ELSE "lost"
BY DEF Phase

\* Every step is one of ConnectionService or leaves its variables alone.
LEMMA ServiceStep ==
  ASSUME Inv, Waits, ~RemoteCalls, ~MayStop, [Next]_vars
  PROVE  Service!Next \/ UNCHANGED Service!vars
<1> USE PhaseValue, PhaseValueNext
<1>1. CASE UNCHANGED <<connections, conn, channels, revents>> \/ Poll \/ removeChannel
           \/ \E c \in Conns : handleEvent(c)
  <2>1. UNCHANGED <<connections, conn>>
    BY <1>1 DEF Poll, removeChannel, handleEvent, serverVars
  <2>2. UNCHANGED <<Phases, ClosingOnes, EndedOnes, Kept, Delivered>>
    BY <2>1 DEF Phases, ClosingOnes, EndedOnes, Kept, Delivered
  <2>3. QED
    BY <2>2 DEF Service!vars, Phases, ClosingOnes, EndedOnes, Kept, Delivered
<1>2. CASE AcceptSucceeds
  <2>1. PICK c \in Conns :
           /\ conn[c] = NoConnection /\ c \notin connections
           /\ connections' = connections \cup {c}
           /\ \A d \in Conns : d # c => conn'[d] = conn[d]
           /\ conn'[c].state = "kConnected" /\ conn'[c].outputBuffer = <<>>
           /\ conn'[c].wire = <<>> /\ conn'[c].shut = FALSE
    BY <1>2, AcceptEffect
  <2>2. /\ conn[c].state = "new" /\ conn[c].outputBuffer = <<>> /\ conn[c].wire = <<>>
        /\ conn[c].shut = FALSE
    BY <2>1 DEF NoConnection
  <2>3. Phases[c] = "new" /\ Phases' = [Phases EXCEPT ![c] = "up"]
    BY <2>1, <2>2 DEF Phases
  <2>4. UNCHANGED <<ClosingOnes, EndedOnes, Kept, Delivered>>
    BY <2>1, <2>2 DEF ClosingOnes, EndedOnes, Kept, Delivered
  <2>5. Service!Up(c)
    BY <2>3, <2>4 DEF Service!Up, Phases, ClosingOnes, EndedOnes, Kept, Delivered
  <2>6. QED
    BY <2>5 DEF Service!Next
<1>3. ASSUME NEW c \in Conns, handleClose(c) PROVE Service!Next
  <2>1. /\ c \in connections /\ conn[c].state \in Open
        /\ connections' = connections \ {c}
        /\ \A d \in Conns : /\ conn'[d].state = conn[d].state
                            /\ conn'[d].outputBuffer = conn[d].outputBuffer
                            /\ conn'[d].wire = conn[d].wire
                            /\ conn'[d].shut = conn[d].shut
    BY <1>3, CloseEffect
  <2>2. Phases[c] = "up" /\ Phases' = [Phases EXCEPT ![c] = "lost"]
    BY <2>1 DEF Phases, Open
  <2>3. UNCHANGED <<ClosingOnes, EndedOnes, Kept, Delivered>>
    BY <2>1 DEF ClosingOnes, EndedOnes, Kept, Delivered
  <2>4. Service!Lose(c)
    BY <2>2, <2>3 DEF Service!Lose, Phases, ClosingOnes, EndedOnes, Kept, Delivered
  <2>5. QED
    BY <2>4 DEF Service!Next
<1>4. CASE connectDestroyed
  <2>1. PICK c \in Conns :
           /\ c \notin connections /\ conn[c].state \in Open
           /\ UNCHANGED connections
           /\ \A d \in Conns : d # c => conn'[d] = conn[d]
           /\ conn'[c].state = "kDisconnected"
           /\ \A d \in Conns : /\ conn'[d].outputBuffer = conn[d].outputBuffer
                               /\ conn'[d].wire = conn[d].wire
                               /\ conn'[d].shut = conn[d].shut
    BY <1>4, DestroyEffect
  <2>2. Phases[c] = "lost" /\ Phases' = [Phases EXCEPT ![c] = "down"]
    BY <2>1 DEF Phases, Open
  <2>3. UNCHANGED <<EndedOnes, Kept, Delivered>> /\ ClosingOnes' = ClosingOnes \cup {c}
    BY <2>1 DEF ClosingOnes, EndedOnes, Kept, Delivered
  <2>4. Service!Down(c)
    BY <2>2, <2>3 DEF Service!Down, Phases, ClosingOnes, EndedOnes, Kept, Delivered
  <2>5. QED
    BY <2>4 DEF Service!Next
<1>5. ASSUME NEW c \in Conns, shutdown(c) PROVE Service!Next
  <2>1. /\ conn[c].state = "kConnected" /\ conn'[c].state = "kDisconnecting"
        /\ UNCHANGED connections
        /\ \A d \in Conns : d # c => conn'[d] = conn[d]
        /\ \A d \in Conns : /\ conn'[d].outputBuffer = conn[d].outputBuffer
                            /\ conn'[d].wire = conn[d].wire
        /\ conn[c].shut => conn'[c].shut
        /\ isWriting(c) => conn'[c].shut = conn[c].shut
    BY <1>5, ShutdownEffect
  <2>2. /\ Phases[c] \in {"up", "lost"} /\ Phases' = Phases
        /\ Phases[c] = "up" => c \in connections
    BY <2>1 DEF Phases
  <2>3. UNCHANGED <<Kept, Delivered>> /\ ClosingOnes' = ClosingOnes \cup {c}
        /\ c \notin ClosingOnes
    BY <2>1 DEF ClosingOnes, Kept, Delivered
  <2>4. \/ UNCHANGED EndedOnes
        \/ EndedOnes' = EndedOnes \cup {c} /\ ~isWriting(c)
    <3>1. CASE isWriting(c) \/ conn[c].shut
      BY <2>1, <3>1 DEF EndedOnes
    <3>2. CASE ~isWriting(c)
      BY <2>1, <3>2 DEF EndedOnes
    <3>3. QED
      BY <3>1, <3>2
  <2>5. ~isWriting(c) => Kept[c] = <<>> \/ Phases[c] = "lost"
    BY <2>2 DEF Waits, Kept
  <2>6. Service!Close(c)
    BY <2>2, <2>3, <2>4, <2>5
       DEF Service!Close, Phases, ClosingOnes, EndedOnes, Kept, Delivered
  <2>7. QED
    BY <2>6 DEF Service!Next
<1>6. ASSUME NEW c \in Conns, NEW m \in Messages, send(c, m)
      PROVE  Service!Next
  <2>1. /\ sendInLoop(c, m) /\ UNCHANGED connections
        /\ conn[c].state = "kConnected" /\ conn[c] \in Connection /\ TypeOK
    BY <1>6 DEF send, Inv, TypeOK
  <2>2. /\ conn' \in [Conns -> Connection]
        /\ \A d \in Conns : d # c => conn'[d] = conn[d]
        /\ conn'[c].state = conn[c].state
        /\ conn'[c].shut = conn[c].shut
    BY <2>1, SendInLoopProperties
  <2>3. PICK n \in 0..MsgLen :
           /\ n > 0 => conn[c].outputBuffer = <<>>
           /\ conn'[c].wire = conn[c].wire \o Bytes(m, n)
           /\ conn'[c].outputBuffer = conn[c].outputBuffer \o Bytes(m, MsgLen - n)
    BY <2>1, SendInLoopProperties
  <2>4. Phases[c] \in {"up", "lost"} /\ c \notin ClosingOnes
        /\ UNCHANGED <<Phases, ClosingOnes, EndedOnes>>
    BY <2>1, <2>2 DEF Phases, ClosingOnes, EndedOnes
  <2> DEFINE all == Kept[c] \o Bytes(m, MsgLen)
  <2>5. conn[c].outputBuffer \in Seq(Messages) /\ Kept[c] = conn[c].outputBuffer
    BY <2>1 DEF Kept, Connection
  <2>6. /\ n \in 0..Len(all)
        /\ SubSeq(all, 1, n) = Bytes(m, n)
        /\ SubSeq(all, n + 1, Len(all)) = conn[c].outputBuffer \o Bytes(m, MsgLen - n)
    BY <2>3, <2>5, SplitBytes
  <2>7. /\ Delivered' = [Delivered EXCEPT ![c] = @ \o SubSeq(all, 1, n)]
        /\ Kept' = [Kept EXCEPT ![c] = SubSeq(all, n + 1, Len(all))]
    <3> HIDE DEF all
    <3>1. Delivered' = [Delivered EXCEPT ![c] = Delivered[c] \o Bytes(m, n)]
      BY <2>2, <2>3 DEF Delivered
    <3>2. Kept' = [Kept EXCEPT ![c] = conn[c].outputBuffer \o Bytes(m, MsgLen - n)]
      BY <2>2, <2>3 DEF Kept
    <3>3. QED
      BY <2>6, <3>1, <3>2
  <2>8. PICK p \in {Bytes(x, MsgLen) : x \in Messages} : p = Bytes(m, MsgLen)
    OBVIOUS
  <2>9. Service!Accept(c, p)
    BY <2>4, <2>6, <2>7, <2>8, Zenon
       DEF Service!Accept, Phases, ClosingOnes, EndedOnes, Kept, Delivered
  <2>10. QED
    BY <2>9 DEF Service!Next
<1>7. ~destroyServer
  BY DEF destroyServer
<1>8. QED
  BY <1>1, <1>2, <1>3, <1>4, <1>5, <1>6, <1>7, StepsOfOneThread

\* On one thread, and as long as neither the server nor the process ends, users see
\* the service: a connection goes up and down once, what is sent is delivered whole
\* and in order whatever write took, and the end of the stream comes after it, for
\* messages of any length (TcpConnection.cpp:39-62, 116-204).
THEOREM ServiceRefinement ==
  ASSUME ~RemoteCalls, ~MayStop PROVE SafeSpec => ImplementsService
<1>1. Init => Service!Init /\ Waits
  <2> SUFFICES ASSUME Init PROVE Service!Init /\ Waits
    OBVIOUS
  <2>1. \A c \in Conns : /\ conn[c].state = "new" /\ conn[c].outputBuffer = <<>>
                         /\ conn[c].wire = <<>> /\ conn[c].shut = FALSE
    BY DEF Init, NoConnection
  <2>2. \A c \in Conns : Phase(c) = "new"
    BY <2>1, PhaseValue
  <2>3. QED
    BY <2>1, <2>2 DEF Init, Service!Init, Waits
<1>2. Inv /\ Waits /\ [Next]_vars => Waits'
  BY WaitsStep
<1>3. Inv /\ Waits /\ [Next]_vars => [Service!Next]_(Service!vars)
  BY ServiceStep
<1>4. QED
  BY <1>1, <1>2, <1>3, Invariance, PTL DEF SafeSpec, ImplementsService, Service!Spec

=============================================================================
