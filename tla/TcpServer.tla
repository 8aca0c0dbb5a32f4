----------------------------- MODULE TcpServer ------------------------------
(***************************************************************************)
(* TcpServer, Acceptor and TcpConnection: the life of the connections of a *)
(* server on one loop, from the peer's connect to the removal of their     *)
(* channels and the end of their objects, and what becomes of the bytes    *)
(* they send.                                                              *)
(*                                                                         *)
(* The loop appears as its phases (EventLoop): poll, the handlers of the   *)
(* active channels, the batch of functors.  Of the registry (Poller) it    *)
(* keeps what Registry has: who owns a descriptor, what is asked for and   *)
(* which slots are switched off.  User code on the loop thread may call    *)
(* between any two handlers or functors, because timers, other channels    *)
(* and functors of its own run there; every handler of a connection ends   *)
(* with its callback except connectDestroyed, which is two steps.  With    *)
(* RemoteCalls any number of other threads call send, shutdown and start;  *)
(* without, the server is used as the program uses it ("目前还没有用到其   *)
(* 他线程", EventLoop.h:79).                                               *)
(*                                                                         *)
(* An object lives while something refers to it, so its end, which closes  *)
(* the descriptor, is no step of its own: see Alive.  Each message is sent *)
(* once.  The bytes read go to the user and are left out (Buffer), and so  *)
(* are SIGPIPE and conditions that no callback is set for: a hang-up       *)
(* without data calls nothing.                                             *)
(***************************************************************************)
EXTENDS Integers, Sequences

CONSTANTS
  Conns,         \* TcpConnection objects with their channels
  Fds,           \* descriptors of connections
  Messages,      \* the arguments of calls of send
  MsgLen,        \* bytes of a message
  RemoteCalls,   \* whether threads other than the loop's use connections
  MayStop,       \* whether system calls may end the process, and the server its life
  MaxPending,    \* bound: functors queued or in the batch when start is called remotely
  NoConn, NoFd, NoMessage

ASSUME ConstantsAssumption ==
  /\ NoConn \notin Conns /\ NoFd \notin Fds /\ NoMessage \notin Messages
  /\ MsgLen \in Nat \ {0} /\ MaxPending \in Nat
  /\ RemoteCalls \in BOOLEAN /\ MayStop \in BOOLEAN

VARIABLES
  peer,           \* the other end of a connection: "none", "connected" or "closed"
  listenning,     \* listenning_ of the Acceptor
  connections,    \* connections_ of the TcpServer
  conn,           \* the TcpConnections, see Connection
  channels,       \* channels_ of the Poller
  pending,        \* pendingFunctors of the loop
  functors,       \* the batch of doPendingFunctors ...
  next,           \* ... and its functor to call next
  revents,        \* what poll reported to a connection, to be handled
  acceptReady,    \* ... and to the Acceptor
  pc,             \* phase of the loop
  held,           \* connections of which users keep a TcpConnectionPtr
  used,           \* messages sent so far
  calling,        \* calls under way on other threads: what they will queue
  frames          \* messages of other threads that still exist

serverVars == <<listenning, connections, conn, channels>>
batchVars == <<functors, next>>
pollVars == <<revents, acceptReady>>
userVars == <<held, used>>
remoteVars == <<calling, frames>>
vars == <<peer, serverVars, pending, batchVars, pollVars, pc, userVars, remoteVars>>

\* A connection with its channel and its socket; a byte is its message.
Connection ==
  [state : {"new", "kConnecting", "kConnected", "kDisconnecting", "kDisconnected"},
   fd : Fds \cup {NoFd},            \* of the socket and the channel
   events : SUBSET {"in", "out"},   \* events_ of the channel
   ignored : BOOLEAN,               \* the Poller has switched its slot off
   outputBuffer : Seq(Messages),
   wire : Seq(Messages),            \* what write(2) took
   shut : BOOLEAN]                  \* after shutdownWrite

\* "shutdownTest": a call of shutdown between its test and its store of state_.
Functors == [op : {"listen", "destroy", "send", "shutdown", "shutdownTest"},
             conn : Conns \cup {NoConn},
             msg : Messages \cup {NoMessage}]
Functor(op, c, m) == [op |-> op, conn |-> c, msg |-> m]

TypeOK ==
  /\ peer \in [Conns -> {"none", "connected", "closed"}]
  /\ listenning \in BOOLEAN
  /\ connections \in SUBSET Conns
  /\ conn \in [Conns -> Connection]
  /\ \A c \in Conns : conn[c].state # "new" => conn[c].fd \in Fds
  /\ channels \in [Fds -> Conns \cup {NoConn}]
  /\ pending \in Seq(Functors)
  /\ functors \in Seq(Functors)
  /\ next \in 1..(Len(functors) + 1)
  /\ revents \in [Conns -> SUBSET {"in", "out"}]
  /\ acceptReady \in BOOLEAN
  /\ pc \in {"outside", "poll", "dispatch", "functors", "destroying", "aborted", "ended"}
  /\ held \in SUBSET Conns
  /\ used \in SUBSET Messages
  /\ calling \in SUBSET Functors
  /\ frames \in SUBSET Messages

\* Memory in which no connection was constructed yet.
NoConnection == [state |-> "new", fd |-> NoFd, events |-> {}, ignored |-> FALSE,
                 outputBuffer |-> <<>>, wire |-> <<>>, shut |-> FALSE]

Init ==
  /\ peer = [c \in Conns |-> "none"]
  /\ listenning = FALSE
  /\ connections = {}
  /\ conn = [c \in Conns |-> NoConnection]
  /\ channels = [fd \in Fds |-> NoConn]
  /\ pending = <<>> /\ functors = <<>> /\ next = 1
  /\ revents = [c \in Conns |-> {}] /\ acceptReady = FALSE
  /\ pc = "outside"
  /\ held = {} /\ used = {} /\ calling = {} /\ frames = {}

\* What a system call that must not fail does to the process.
OrDie == IF MayStop THEN {pc, "aborted"} ELSE {pc}

-----------------------------------------------------------------------------
(* Lifetimes and the registry.                                             *)

Elements(s) == {s[i] : i \in 1..Len(s)}

KeepsNothing(f) ==  \* mutant
  {}

\* The connection that a functor keeps alive: removeConnection's holds a
\* TcpConnectionPtr, those of send and shutdown a bare this.
Keeps(f) == IF f.op = "destroy" THEN {f.conn} ELSE {}

\* A batch is destroyed as a whole when doPendingFunctors returns, and a
\* thread that calls a connection holds it.
Alive(c) ==
  \/ c \in connections \cup held
  \/ \E f \in Elements(pending) \cup Elements(functors) : c \in Keeps(f)
  \/ \E f \in calling : f.conn = c

\* Socket::~Socket closes the descriptor.
OpenFds == {conn[c].fd : c \in {d \in Conns : Alive(d)}}

Registered(c) == conn[c].fd \in Fds /\ channels[conn[c].fd] = c

isWriting(c) == "out" \in conn[c].events

\* A slot once switched off stays so (Poller, EnabledIsPolled).
updateChannel(k, ev) == [k EXCEPT !.events = ev, !.ignored = @ \/ ev = {}]

-----------------------------------------------------------------------------
(* The peers.  A connection waits in the backlog until it is accepted.     *)

Waiting(c) == peer[c] # "none" /\ conn[c].state = "new"

PeerStep(c) ==
  /\ pc \notin {"aborted", "ended"}
  /\ \/ listenning /\ peer[c] = "none" /\ peer' = [peer EXCEPT ![c] = "connected"]
     \/ peer[c] = "connected" /\ peer' = [peer EXCEPT ![c] = "closed"]
  /\ UNCHANGED <<serverVars, pending, batchVars, pollVars, pc, userVars, remoteVars>>

-----------------------------------------------------------------------------
(* send, shutdown and start on the loop thread.                            *)

Bytes(m, n) == [i \in 1..n |-> m]

CanWriteWhenNotWriting(c) ==  \* mutant
  ~isWriting(c)

\* Nothing is in the output queue.
CanWriteDirectly(c) == ~isWriting(c) /\ conn[c].outputBuffer = <<>>

\* write takes n bytes, none when it fails, as it does after shutdownWrite; the
\* rest is kept and the channel waits for the socket to be writable, which
\* asserts that it is registered.
sendInLoop(c, m) ==
  \E n \in 0..MsgLen :
    LET enablesWriting == n < MsgLen /\ ~isWriting(c)
        written == [conn[c] EXCEPT !.wire = @ \o Bytes(m, n),
                                   !.outputBuffer = @ \o Bytes(m, MsgLen - n)]
    IN /\ n > 0 => CanWriteDirectly(c) /\ ~conn[c].shut
       /\ conn' = [conn EXCEPT ![c] = IF enablesWriting
                                      THEN updateChannel(written, {"out"})
                                      ELSE written]
       /\ pc' = IF enablesWriting /\ ~Registered(c) THEN "aborted" ELSE pc

\* On the connection k that c has become.
shutdownInLoop(c, k) == [k EXCEPT !.shut = @ \/ ~isWriting(c)]

UserPhase == pc \in {"outside", "dispatch", "functors", "destroying", "ended"}

\* Users get a connection from its callbacks and may keep it.
MayUse(c) == UserPhase /\ c \in connections \cup held

send(c, m) ==
  /\ MayUse(c)
  /\ m \notin used
  /\ used' = used \cup {m}
  /\ conn[c].state = "kConnected"
  /\ sendInLoop(c, m)
  /\ UNCHANGED <<peer, listenning, connections, channels, pending, batchVars,
                 pollVars, held, remoteVars>>

ClosingIsDisconnected ==  \* mutant
  "kDisconnected"

\* The state that shutdown stores.
Closing == "kDisconnecting"

shutdown(c) ==
  /\ MayUse(c)
  /\ conn[c].state = "kConnected"
  /\ conn' = [conn EXCEPT ![c] = shutdownInLoop(c, [@ EXCEPT !.state = Closing])]
  /\ UNCHANGED <<peer, listenning, connections, channels, pending, batchVars,
                 pollVars, pc, userVars, remoteVars>>

\* The user stores or drops a TcpConnectionPtr, which every callback hands over,
\* the one of connectDestroyed too.
Keep(c) ==
  /\ \/ MayUse(c)
     \/ pc = "destroying" /\ functors[next].conn = c
  /\ c \notin held
  /\ held' = held \cup {c}
  /\ UNCHANGED <<peer, serverVars, pending, batchVars, pollVars, pc, used, remoteVars>>

Drop(c) ==
  /\ UserPhase
  /\ c \in held
  /\ held' = held \ {c}
  /\ UNCHANGED <<peer, serverVars, pending, batchVars, pollVars, pc, used, remoteVars>>

\* Acceptor::listen, which enables reading of the listening socket.
listen ==
  /\ listenning' = TRUE
  /\ pc' \in OrDie
  /\ UNCHANGED <<connections, conn, channels>>

\* TcpServer::start: on the loop thread listen is called at once.
start ==
  /\ UserPhase /\ pc # "ended"
  /\ ~listenning
  /\ listen
  /\ UNCHANGED <<peer, pending, batchVars, pollVars, userVars, remoteVars>>

\* ~TcpServer, when the loop has returned, lets its connections go; nobody
\* enters the loop again, whose registry may still have their channels.
destroyServer ==
  /\ MayStop
  /\ pc = "outside"
  /\ connections' = {}
  /\ pc' = "ended"
  /\ UNCHANGED <<peer, listenning, conn, channels, pending, batchVars, pollVars,
                 userVars, remoteVars>>

-----------------------------------------------------------------------------
(* The same calls on another thread: what they test and what they store,   *)
(* then queueInLoop, then the return of send, after which its argument may *)
(* go.                                                                     *)

\* An aborted process has no threads, and nothing runs what is queued after the
\* end of the server.
MayCallRemotely == RemoteCalls /\ pc \notin {"aborted", "ended"}

RemoteSend(c, m) ==
  /\ MayCallRemotely
  /\ c \in held
  /\ m \notin used
  /\ used' = used \cup {m}
  /\ conn[c].state = "kConnected"
  /\ calling' = calling \cup {Functor("send", c, m)}
  /\ frames' = frames \cup {m}
  /\ UNCHANGED <<peer, serverVars, pending, batchVars, pollVars, pc, held>>

RemoteShutdown(c) ==
  /\ MayCallRemotely
  /\ c \in held
  /\ conn[c].state = "kConnected"
  /\ calling' = calling \cup {Functor("shutdownTest", c, NoMessage)}
  /\ UNCHANGED <<peer, serverVars, pending, batchVars, pollVars, pc, userVars, frames>>

\* The store is no step with the test: the loop may have stored kDisconnected.
RemoteShutdownStores(f) ==
  /\ MayCallRemotely
  /\ f \in calling /\ f.op = "shutdownTest"
  /\ conn' = [conn EXCEPT ![f.conn].state = Closing]
  /\ calling' = (calling \ {f}) \cup {Functor("shutdown", f.conn, NoMessage)}
  /\ UNCHANGED <<peer, listenning, connections, channels, pending, batchVars,
                 pollVars, pc, userVars, frames>>

\* start's test and its queueInLoop are one step: a listen that comes late is
\* one more listen, as after two calls of start.
RemoteStart ==
  /\ MayCallRemotely
  /\ ~listenning
  /\ Len(pending) + Len(functors) < MaxPending
  /\ pending' = Append(pending, Functor("listen", NoConn, NoMessage))
  /\ UNCHANGED <<peer, serverVars, batchVars, pollVars, pc, userVars, remoteVars>>

RemoteQueues(f) ==
  /\ MayCallRemotely
  /\ f \in calling /\ f.op # "shutdownTest"
  /\ calling' = calling \ {f}
  /\ pending' = Append(pending, f)
  /\ UNCHANGED <<peer, serverVars, batchVars, pollVars, pc, userVars, frames>>

RemoteReturns(m) ==
  /\ MayCallRemotely
  /\ m \in frames
  /\ \A f \in calling : f.msg # m
  /\ frames' = frames \ {m}
  /\ UNCHANGED <<peer, serverVars, pending, batchVars, pollVars, pc, userVars, calling>>

-----------------------------------------------------------------------------
(* poll and the handlers of the active channels.                           *)

\* What the steps of the loop leave to others.
othersVars == <<peer, userVars, remoteVars>>

EnterLoop ==
  /\ pc = "outside"
  /\ pc' = "poll"
  /\ UNCHANGED <<othersVars, serverVars, pending, batchVars, pollVars>>

\* A registered channel may hear of anything it asked for, unless its slot is
\* switched off.  The end of a stream and a waiting connection are reported
\* until they are dealt with.
Reports(c) ==
  IF ~Registered(c) \/ conn[c].ignored THEN {{}}
  ELSE {r \in SUBSET conn[c].events :
          peer[c] = "closed" /\ "in" \in conn[c].events => "in" \in r}

AcceptorReadableUnlessLast ==  \* mutant
  listenning /\ connections # {} /\ \E c \in Conns : Waiting(c)

\* getActiveChannels hands out the accept channel: the listening socket is in the
\* pollfds and has a connection to accept.
AcceptorReadable == listenning /\ \E c \in Conns : Waiting(c)

Poll ==
  /\ pc = "poll"
  /\ revents' \in [Conns -> SUBSET {"in", "out"}]
  /\ \A c \in Conns : revents'[c] \in Reports(c)
  /\ acceptReady' = AcceptorReadable
  /\ pc' = "dispatch"
  /\ UNCHANGED <<othersVars, serverVars, pending, batchVars>>

\* poll returns an error, after a signal for one: nothing is reported.
PollFails ==
  /\ pc = "poll"
  /\ pc' = "dispatch"
  /\ UNCHANGED <<othersVars, serverVars, pending, batchVars, pollVars>>

\* The constructor of TcpConnection; of the channel's callbacks it sets the one
\* for reading alone.
TcpConnection(fd) == [NoConnection EXCEPT !.state = "kConnecting", !.fd = fd]

\* enableReading adds the new channel to the Poller's map.
connectEstablished(c, k) ==
  /\ k.state = "kConnecting"
  /\ conn' = [conn EXCEPT ![c] = [k EXCEPT !.state = "kConnected", !.events = {"in"}]]
  /\ channels' = [channels EXCEPT ![k.fd] = c]

\* getLocalAddr may end the process.
newConnection(c, fd) ==
  /\ pc' \in OrDie
  /\ connections' = connections \cup {c}
  /\ connectEstablished(c, TcpConnection(fd))

NoFdTest ==  \* mutant
  Fds \cup {NoFd}

\* The descriptors that accept may return: EMFILE if there are none.
FreeFds == Fds \ OpenFds

\* Acceptor::handleRead with an accepted connection ...
AcceptSucceeds ==
  /\ pc = "dispatch"
  /\ acceptReady
  /\ acceptReady' = FALSE
  /\ \E c \in Conns, fd \in FreeFds : Waiting(c) /\ newConnection(c, fd)
  /\ UNCHANGED <<othersVars, listenning, pending, batchVars, revents>>

\* ... and without: the errors that accept expects leave everything as it is,
\* EMFILE among them, and others end the process.
AcceptFails ==
  /\ pc = "dispatch"
  /\ acceptReady
  /\ acceptReady' = FALSE
  /\ pc' \in OrDie
  /\ UNCHANGED <<othersVars, serverVars, pending, batchVars, revents>>

RemoveConnectionKeepsEntry(c) ==  \* mutant
  /\ pending' = Append(pending, Functor("destroy", c, NoMessage))
  /\ UNCHANGED connections

RemoveConnectionOnly(c) ==  \* mutant
  /\ connections' = connections \ {c}
  /\ UNCHANGED pending

\* TcpServer::removeConnection.
removeConnection(c) ==
  /\ connections' = connections \ {c}
  /\ pending' = Append(pending, Functor("destroy", c, NoMessage))

Handled(c) ==
  /\ pc = "dispatch"
  /\ revents[c] # {}
  /\ revents' = [revents EXCEPT ![c] = {}]
  /\ UNCHANGED <<othersVars, listenning, batchVars, acceptReady>>

\* Channel::handleEvent of a connection, for which only the read callback is
\* set: a writable socket is ignored.  handleRead gets bytes, which go to the
\* user, or an error, which handleError logs ...
handleEvent(c) == Handled(c) /\ UNCHANGED <<connections, conn, channels, pending, pc>>

Open == {"kConnected", "kDisconnecting"}

\* ... or the end of the stream: handleClose.
handleClose(c) ==
  /\ Handled(c)
  /\ "in" \in revents[c] /\ peer[c] = "closed"
  /\ conn' = [conn EXCEPT ![c] = updateChannel(@, {})]
  /\ removeConnection(c)
  /\ UNCHANGED channels
  /\ pc' = IF conn[c].state \in Open /\ c \in connections THEN pc ELSE "aborted"

-----------------------------------------------------------------------------
(* doPendingFunctors.                                                      *)

TakeOneFunctor ==  \* mutant
  /\ functors' = IF pending = <<>> THEN <<>> ELSE <<Head(pending)>>
  /\ pending' = IF pending = <<>> THEN <<>> ELSE Tail(pending)

TakeFunctors == functors' = pending /\ pending' = <<>>

DispatchDoneAtOnce ==  \* mutant
  pc = "dispatch"

DispatchDone == pc = "dispatch" /\ ~acceptReady /\ \A c \in Conns : revents[c] = {}

AllHandled ==
  /\ DispatchDone
  /\ TakeFunctors
  /\ pc' = "functors"
  /\ UNCHANGED <<othersVars, serverVars, next, pollVars>>

Calls(op) == pc = "functors" /\ next <= Len(functors) /\ functors[next].op = op

\* A functor that is called and returns.
Run(op) ==
  /\ Calls(op)
  /\ next' = next + 1
  /\ UNCHANGED <<othersVars, pending, functors, pollVars>>

runListen == Run("listen") /\ listen

\* connectDestroyed up to the callback that tells the user ...
connectDestroyed ==
  /\ Calls("destroy")
  /\ LET c == functors[next].conn
     IN /\ pc' = IF conn[c].state \in Open /\ Registered(c)
                 THEN "destroying" ELSE "aborted"
        /\ conn' = [conn EXCEPT ![c] =
                      updateChannel([@ EXCEPT !.state = "kDisconnected"], {})]
  /\ UNCHANGED <<othersVars, listenning, connections, channels, pending,
                 batchVars, pollVars>>

\* ... and Poller::removeChannel after it, with its assertions.
removeChannel ==
  /\ pc = "destroying"
  /\ LET c == functors[next].conn
     IN /\ pc' = IF Registered(c) /\ conn[c].events = {} /\ conn[c].ignored
                 THEN "functors" ELSE "aborted"
        /\ channels' = [channels EXCEPT ![conn[c].fd] = NoConn]
  /\ next' = next + 1
  /\ UNCHANGED <<othersVars, listenning, connections, conn, pending, functors,
                 pollVars>>

\* A functor that another thread's send queued.  What a message or a connection
\* that is gone contains is undefined: the process ends, or other bytes go out,
\* or nothing that matters happens.
runSend ==
  /\ Run("send")
  /\ LET f == functors[next]
     IN \/ /\ Alive(f.conn)
           /\ \E m \in IF f.msg \in frames THEN {f.msg} ELSE Messages :
                sendInLoop(f.conn, m)
        \/ ~Alive(f.conn) /\ UNCHANGED <<conn, pc>>
        \/ /\ ~Alive(f.conn) \/ f.msg \notin frames
           /\ pc' = "aborted"
           /\ UNCHANGED conn
  /\ UNCHANGED <<listenning, connections, channels>>

runShutdown ==
  /\ Run("shutdown")
  /\ LET c == functors[next].conn
     IN \/ /\ Alive(c)
           /\ conn' = [conn EXCEPT ![c] = shutdownInLoop(c, @)]
           /\ UNCHANGED pc
        \/ ~Alive(c) /\ pc' \in {pc, "aborted"} /\ UNCHANGED conn
  /\ UNCHANGED <<listenning, connections, channels>>

\* The batch ends, and with it the loop if it was asked to quit.
EndFunctors ==
  /\ pc = "functors"
  /\ next > Len(functors)
  /\ functors' = <<>> /\ next' = 1
  /\ pc' \in {"poll", "outside"}
  /\ UNCHANGED <<othersVars, serverVars, pending, pollVars>>

LoopStep ==
  \/ Poll \/ PollFails
  \/ AcceptSucceeds \/ AcceptFails
  \/ \E c \in Conns : handleEvent(c) \/ handleClose(c)
  \/ AllHandled
  \/ runListen \/ connectDestroyed \/ removeChannel \/ runSend \/ runShutdown
  \/ EndFunctors

UserStep ==
  \/ start \/ EnterLoop \/ destroyServer
  \/ \E c \in Conns : shutdown(c) \/ Keep(c) \/ Drop(c)
  \/ \E c \in Conns, m \in Messages : send(c, m)

RemoteStep ==
  \/ RemoteStart
  \/ \E c \in Conns : RemoteShutdown(c)
  \/ \E c \in Conns, m \in Messages : RemoteSend(c, m)
  \/ \E f \in calling : RemoteShutdownStores(f) \/ RemoteQueues(f)
  \/ \E m \in Messages : RemoteReturns(m)

Next == LoopStep \/ UserStep \/ RemoteStep \/ \E c \in Conns : PeerStep(c)

SafeSpec == Init /\ [][Next]_vars

\* The loop goes on, poll and accept do not fail for ever, and after a finite
\* number of bytes and errors read sees the end of a stream that the peer ended.
Spec ==
  /\ SafeSpec
  /\ WF_vars(LoopStep)
  /\ SF_vars(Poll) /\ SF_vars(AcceptSucceeds)
  /\ \A c \in Conns : SF_vars(handleClose(c))

\* Also, a socket is writable again and again while its peer reads, which poll
\* reports if it is asked to.
DrainSpec == Spec /\ \A c \in Conns : SF_vars(Poll /\ "out" \in revents'[c])

-----------------------------------------------------------------------------
(* Properties.                                                             *)

\* The connections whose connectDestroyed is still to run or is running.
Destroying ==
  {f.conn : f \in {g \in Elements(pending) \cup
                         Elements(SubSeq(functors, next, Len(functors))) :
                     g.op = "destroy"}}

\* While the server exists an accepted connection is in its map, or has left it
\* and its connectDestroyed is due, or is gone from the registry; the registry,
\* the map and state_ agree on which, however closes, shutdowns and callbacks
\* interleave (TcpServer.cpp:102-118, TcpConnection.cpp:49-62).
LifeCycle ==
  pc # "ended" =>
    \A c \in Conns :
      /\ c \in connections =>
           Registered(c) /\ c \notin Destroying /\ conn[c].state \in Open
      /\ c \in Destroying => Registered(c)
      /\ conn[c].state # "new" /\ c \notin connections \cup Destroying =>
           conn[c].state = "kDisconnected" /\ ~Registered(c)

\* When the loop polls, every registered channel belongs to a connection of the
\* server's map: a connection closed by a handler is out of the registry before
\* the next poll, also when the loop is left and entered again in between
\* (queueInLoop at TcpServer.cpp:115, doPendingFunctors at EventLoop.cpp:82).
ClosedNotPolled ==
  pc = "poll" => \A fd \in Fds : channels[fd] # NoConn => channels[fd] \in connections

\* While the server exists a registered channel has an open descriptor of its
\* own: no object ends while poll would still be asked about its descriptor, so
\* accept never returns one that the registry still knows (removeConnection's
\* functor keeps the connection, TcpServer.cpp:110).
RegisteredIsOpen ==
  pc # "ended" =>
    \A fd \in Fds : channels[fd] # NoConn =>
      conn[channels[fd]].fd = fd /\ Alive(channels[fd])

\* No assertion of the life cycle fails: handleClose, connectDestroyed,
\* removeConnection, updateChannel, removeChannel (TcpConnection.cpp:53, 121,
\* TcpServer.cpp:108, Poller.cpp:70-77, 96-102).
AssertionsHold == pc # "aborted"

Phase(c) ==
  CASE conn[c].state = "new" -> "new"
    [] conn[c].state = "kDisconnected" -> "down"
    [] OTHER -> IF c \in connections THEN "up" ELSE "lost"

Service == INSTANCE ConnectionService WITH
  Payloads <- {Bytes(m, MsgLen) : m \in Messages},
  phase <- [c \in Conns |-> Phase(c)],
  closing <- {c \in Conns : conn[c].state \in {"kDisconnecting", "kDisconnected"}},
  ended <- {c \in Conns : conn[c].shut},
  kept <- [c \in Conns |-> conn[c].outputBuffer],
  delivered <- [c \in Conns |-> conn[c].wire]

\* Users on the loop thread see a service: up and down once each, messages taken
\* whole and delivered in order whatever write took, no end of the stream before
\* what is kept, nothing after it (send, sendInLoop, shutdown, shutdownInLoop,
\* handleClose, connectDestroyed; TcpConnection.cpp:39-62, 116-204).
ImplementsService == Service!Spec

Interface == INSTANCE Registry WITH
  Channels <- Conns, NoChannel <- NoConn,
  owner <- channels,
  interest <- [c \in Conns |-> conn[c].events],
  off <- {c \in Conns : Registered(c) /\ conn[c].ignored},
  active <- {c \in Conns : revents[c] # {}}

\* The server uses the registry as the Poller allows and sees it as the Poller
\* shows it: in particular a handler that closes its connection leaves it
\* registered until every report of the poll has been handled, which answers
\* the question at TcpServer.cpp:113-115.
ImplementsRegistry == Interface!Spec /\ Interface!RemovalWaits

\* The loop runs for ever from some time on.
LoopRuns == <>[](pc \notin {"outside", "aborted", "ended"})

\* When the peer has closed, the user is told, unless output is waiting, which
\* gives up the interest in reading, or the loop stops (handleRead to
\* connectDestroyed, TcpConnection.cpp:65-127, 49-62).
PeerCloseIsTold ==
  LoopRuns =>
    \A c \in Conns : c \in connections /\ peer[c] = "closed"
                       ~> conn[c].state = "kDisconnected" \/ isWriting(c)

CanAccept == listenning /\ FreeFds # {} /\ \E c \in Conns : Waiting(c)

\* The Acceptor does not stall: as long as peers wait and descriptors are free
\* they are accepted, also after accept failed for want of descriptors, unless
\* the loop stops (Acceptor.cpp:37-54, one accept for each report).
WaitingIsAccepted == LoopRuns => (CanAccept ~> ~CanAccept)

\* What is kept for the peer is written some time, unless the connection is
\* closed or the loop stops ("I am going to write more data",
\* TcpConnection.cpp:178).
OutputDrains ==
  LoopRuns =>
    \A c \in Conns : conn[c].outputBuffer # <<>>
                       ~> conn[c].outputBuffer = <<>> \/ c \notin connections

\* What another thread's send and shutdown queued finds the message and the
\* connection when it runs ("Thread safe.", TcpConnection.h:34 and 36).
RemoteCallsSafe ==
  /\ Calls("send") => functors[next].msg \in frames
  /\ Calls("send") \/ Calls("shutdown") => Alive(functors[next].conn)
=============================================================================
