------------------------------ MODULE TcpServer ------------------------------
(***************************************************************************)
(* A TcpServer with its Acceptor and its connections, run the way          *)
(* example/main.cpp runs the echo server: start() and then loop() in one   *)
(* thread; another thread may call start() again.  Clients connect, send,  *)
(* read the echo, and close in an orderly way or not; descriptors are few  *)
(* and used again.                                                         *)
(*                                                                         *)
(* Bytes are counted, not told apart: their order within one connection is *)
(* TcpConnection's subject.  The connection made for client c is c too.    *)
(***************************************************************************)
EXTENDS Naturals, Sequences

CONSTANTS
  Clients,      \* each connects at most once
  MaxFds,       \* how many descriptors are left for accepted connections
  NumThreads,   \* setThreadNum()
  Bytes,        \* how many bytes each client sends
  SendBuf,      \* how many bytes a socket takes before its client reads
  Stalled       \* the clients that may stop reading, sending and closing

Listener == "listener"      \* the Acceptor's channel

ASSUME ServerAssumption ==
  /\ Listener \notin Clients
  /\ MaxFds \in Nat \ {0}
  /\ NumThreads \in Nat
  /\ Bytes \in [Clients -> Nat] /\ SendBuf \in Nat \ {0}
  /\ Stalled \subseteq Clients

Fds == 1..MaxFds
NoFd == 0

VARIABLES
  started,      \* started_ of the server, and of its pool
  listenning,   \* listenning_; also: the listening socket is polled
  next_conn_id, \* next_conn_id_
  next_loop,    \* next_ of the pool
  connections,  \* connections_: from the number in the name to connection
  name,         \* that number, for each connection
  state,        \* state_ of each connection; "none" before it is made
  fd,           \* the descriptor of its Socket, NoFd when it is closed
  channel_map,  \* channel_map_ of the Poller: from descriptor to connection
  reading,      \* connections whose channel has the ReadEvent
  writing,      \* connections whose channel has the WriteEvent
  out,          \* bytes in output_buffer_
  phase,        \* "main", "starting", "started"; then the loop: "poll",
                \* "handle", "functors"
  active,       \* what poll() reported and is not handled yet
  queue,        \* pending_functors_
  batch,        \* functors of doPendingFunctors() not executed yet
  held,         \* connections its vector keeps a TcpConnectionPtr of
  backlog,      \* clients the kernel has connected and accept(2) has not
  client,       \* each client: "new", "open" or "closed"
  rst,          \* connections with a pending error: their client reset them
  sent,         \* bytes each client has sent
  up,           \* bytes on their way to read(2)
  down,         \* bytes on their way from write(2) to the client
  got,          \* bytes it has received
  crash         \* "no", or how the process came to its end

serverVars == <<started, next_conn_id, next_loop, connections, name>>
connVars == <<state, fd, channel_map, reading, writing>>
loopVars == <<phase, active, batch, held>>
clientVars == <<client, rst, sent, up, got>>
vars == <<serverVars, listenning, connVars, out, loopVars, queue, backlog, clientVars, down, crash>>

Events == {<<Listener, "read">>} \cup (Clients \X {"read", "write"})
Functors == {<<"listen", Listener>>} \cup ({"destroy"} \X Clients)

TypeOK ==
  /\ started \in BOOLEAN /\ listenning \in BOOLEAN
  /\ next_conn_id \in Nat \ {0} /\ next_loop \in Nat
  /\ DOMAIN connections \subseteq 1..(next_conn_id - 1)
  /\ connections \in [DOMAIN connections -> Clients]
  /\ name \in [Clients -> Nat]
  /\ state \in [Clients -> {"none", "Connected", "Disconnected"}]
  /\ fd \in [Clients -> Fds \cup {NoFd}]
  /\ DOMAIN channel_map \subseteq Fds
  /\ channel_map \in [DOMAIN channel_map -> Clients]
  /\ reading \subseteq Clients /\ writing \subseteq Clients
  /\ out \in [Clients -> Nat]
  /\ phase \in {"main", "starting", "started", "poll", "handle", "functors"}
  /\ active \subseteq Events
  /\ queue \in Seq(Functors) /\ batch \in Seq(Functors) /\ held \subseteq Clients
  /\ backlog \in Seq(Clients)
  /\ client \in [Clients -> {"new", "open", "closed"}]
  /\ rst \subseteq Clients
  /\ \A c \in Clients : {sent[c], up[c], got[c]} \subseteq 0..Bytes[c]
  /\ down \in [Clients -> 0..SendBuf]
  /\ crash \in {"no", "assert", "thread"}

Empty == [x \in {} |-> x]

Init ==
  /\ started = FALSE /\ listenning = FALSE
  /\ next_conn_id = 1 /\ next_loop = 0
  /\ connections = Empty /\ name = [c \in Clients |-> 0]
  /\ state = [c \in Clients |-> "none"] /\ fd = [c \in Clients |-> NoFd]
  /\ channel_map = Empty /\ reading = {} /\ writing = {}
  /\ out = [c \in Clients |-> 0]
  /\ phase = "main" /\ active = {} /\ queue = <<>> /\ batch = <<>> /\ held = {}
  /\ backlog = <<>> /\ client = [c \in Clients |-> "new"]
  /\ rst = {}
  /\ sent = [c \in Clients |-> 0] /\ up = [c \in Clients |-> 0]
  /\ down = [c \in Clients |-> 0] /\ got = [c \in Clients |-> 0]
  /\ crash = "no"

Running == crash = "no"

Put(f, k, v) == [x \in DOMAIN f \cup {k} |-> IF x = k THEN v ELSE f[x]]
Without(f, k) == [x \in DOMAIN f \ {k} |-> f[x]]
InMap(f, v) == \E x \in DOMAIN f : f[x] = v

(* The object exists while a TcpConnectionPtr does: in connections_, or in *)
(* a destroyConnection() functor.  When the last one goes, its Socket      *)
(* closes the descriptor, which the kernel may hand out again.             *)
Alive(c) ==
  \/ InMap(connections, c) \/ c \in held
  \/ \E i \in DOMAIN queue : queue[i] = <<"destroy", c>>

Release == fd' = [c \in Clients |-> IF Alive(c)' THEN fd[c] ELSE NoFd]

-----------------------------------------------------------------------------
(* start() in the thread of main(): the flag and the pool, whose threads   *)
(* have their loops when start() of the pool returns (EventLoopThreadPool, *)
(* StartReturns); then the Acceptor listens, at once.                      *)
start ==
  /\ Running /\ phase = "main"
  /\ started' = TRUE
  /\ phase' = "starting"
  /\ UNCHANGED <<next_conn_id, next_loop, connections, name, listenning, connVars, out, active,
                 batch, held, queue, backlog, clientVars, down, crash>>

(* Acceptor::listen(): enabling the channel that is polled already changes *)
(* nothing.                                                                *)
listen == listenning' = TRUE

startListens ==
  /\ Running /\ phase = "starting"
  /\ listen
  /\ phase' = "started"
  /\ UNCHANGED <<serverVars, connVars, out, active, batch, held, queue, backlog, clientVars, down,
                 crash>>

(* start() in another thread, after it was called in the loop's: only the  *)
(* second half has an effect, and what it saw of listenning_ may be        *)
(* outdated when listen() runs.  queueInLoop() needs the loop's mutex.     *)
(* Bound: one such call at a time.                                         *)
startAgain ==
  /\ Running /\ started /\ ~listenning /\ phase # "functors"
  /\ queue = <<>>
  /\ queue' = Append(queue, <<"listen", Listener>>)
  /\ UNCHANGED <<serverVars, listenning, connVars, out, loopVars, backlog, clientVars, down, crash>>

loop ==
  /\ Running /\ phase = "started"
  /\ phase' = "poll"
  /\ UNCHANGED <<serverVars, listenning, connVars, out, active, batch, held, queue, backlog,
                 clientVars, down, crash>>

-----------------------------------------------------------------------------
(* poll(2) reports what is ready among the channels that are enabled. *)
Readable(c) == c \in reading /\ (up[c] > 0 \/ client[c] = "closed")
Writable(c) == c \in writing /\ (down[c] < SendBuf \/ client[c] = "closed")

Ready ==
  (IF listenning /\ backlog # <<>> THEN {<<Listener, "read">>} ELSE {})
  \cup {<<c, "read">> : c \in {x \in Clients : Readable(x)}}
  \cup {<<c, "write">> : c \in {x \in Clients : Writable(x)}}

(* With functors in the queue the eventfd is readable. *)
Poll ==
  /\ Running /\ phase = "poll"
  /\ Ready # {} \/ queue # <<>>
  /\ active' = Ready
  /\ phase' = "handle"
  /\ UNCHANGED <<serverVars, listenning, connVars, out, batch, held, queue, backlog, clientVars,
                 down, crash>>

(* Channels are handled in any order; of one, the read before the write.   *)
Handling(c, cb) ==
  /\ Running /\ phase = "handle"
  /\ <<c, cb>> \in active
  /\ active' = active \ {<<c, cb>>}

-----------------------------------------------------------------------------
(* Acceptor::handleRead(), one accept(2) per event.  It fails without a    *)
(* descriptor, and may when the client has reset the connection meanwhile. *)
(* The kernel hands out the lowest descriptor that is free.                *)
IsFree(f) == f \in Fds /\ \A c \in Clients : fd[c] # f
IsLowestFree(f) == IsFree(f) /\ \A g \in Fds : IsFree(g) => f <= g

acceptFails ==
  /\ Handling(Listener, "read")
  /\ IF \A f \in Fds : ~IsFree(f)
     THEN UNCHANGED backlog
     ELSE Head(backlog) \in rst /\ backlog' = Tail(backlog)
  /\ UNCHANGED <<serverVars, listenning, connVars, out, phase, batch, held, queue, clientVars, down,
                 crash>>

(* getNextLoop(): 0 is the base loop, 1..NumThreads are those of the pool. *)
getNextLoop == IF NumThreads = 0 THEN 0 ELSE next_loop + 1

(* TcpServer::newConnection() and TcpConnection::establishConnection(),    *)
(* which asserts that it is in the thread of the connection's own loop.    *)
(* Registering the channel asserts that the descriptor is not in the map.  *)
SameId == next_conn_id                                        \* mutant
NextId == next_conn_id + 1

newConnection(c, f) ==
  /\ next_conn_id' = NextId
  /\ next_loop' = IF NumThreads = 0 THEN 0 ELSE (next_loop + 1) % NumThreads
  /\ name' = [name EXCEPT ![c] = next_conn_id]
  /\ connections' = Put(connections, next_conn_id, c)
  /\ IF getNextLoop # 0
     THEN crash' = "thread" /\ UNCHANGED <<state, channel_map, reading>>
     ELSE IF f \in DOMAIN channel_map
     THEN crash' = "assert" /\ UNCHANGED <<state, channel_map, reading>>
     ELSE /\ state' = [state EXCEPT ![c] = "Connected"]
          /\ channel_map' = Put(channel_map, f, c)
          /\ reading' = reading \cup {c}
          /\ UNCHANGED crash

handleAccept ==
  /\ Handling(Listener, "read")
  /\ UNCHANGED <<held, queue>>
  /\ \E f \in Fds :
       /\ IsLowestFree(f)
       /\ newConnection(Head(backlog), f)
       /\ fd' = [c \in Clients |-> IF c = Head(backlog) THEN f
                                   ELSE IF Alive(c)' THEN fd[c] ELSE NoFd]
  /\ backlog' = Tail(backlog)
  /\ UNCHANGED <<started, listenning, writing, out, phase, batch, clientVars, down>>

-----------------------------------------------------------------------------
(* What write(2) takes of n bytes: what the socket has room for; once the  *)
(* client has closed, that or nothing.                                     *)
Fits(c, n) == IF n < SendBuf - down[c] THEN n ELSE SendBuf - down[c]
Taken(c, n) == IF client[c] = "closed" THEN {0, Fits(c, n)} ELSE {Fits(c, n)}

(* EchoServer::onMessage() sends what was read; sendInLoop() writes what   *)
(* it can unless older output is waiting.                                  *)
KeepsAll(c, n, w) == out' = [out EXCEPT ![c] = @ + IF w < n THEN n ELSE 0]  \* mutant
KeepsRest(c, n, w) == out' = [out EXCEPT ![c] = @ + (n - w)]

NotWatched(c, n, w) == UNCHANGED writing                      \* mutant
WatchesRest(c, n, w) == writing' = IF w < n THEN writing \cup {c} ELSE writing

send(c, n) ==
  \E w \in (IF c \notin writing /\ out[c] = 0 THEN Taken(c, n) ELSE {0}) :
    /\ down' = [down EXCEPT ![c] = @ + w]
    /\ KeepsRest(c, n, w)
    /\ WatchesRest(c, n, w)

(* handleRead(): data.  readFd() takes what there is, or as much of it as  *)
(* its buffers hold.                                                       *)
ReadData(c) ==
  /\ Handling(c, "read") /\ up[c] > 0
  /\ \E n \in 1..up[c] :
       /\ up' = [up EXCEPT ![c] = @ - n]
       /\ send(c, n)
  /\ UNCHANGED <<serverVars, listenning, state, fd, channel_map, reading, phase, batch, held, queue,
                 backlog, client, rst, sent, got, crash>>

(* An error is only logged; the socket has lost it then. *)
ReadError(c) ==
  /\ Handling(c, "read") /\ c \in rst
  /\ rst' = rst \ {c}
  /\ UNCHANGED <<serverVars, listenning, connVars, out, phase, batch, held, queue, backlog, client,
                 sent, up, got, down, crash>>

(* The end of the stream: handleClose() and TcpServer::removeConnection(). *)
NotErased(c) == UNCHANGED connections                         \* mutant
EraseConnection(c) == connections' = Without(connections, name[c])

NoFunctor(c) == UNCHANGED queue                               \* mutant
QueueDestroy(c) == queue' = Append(queue, <<"destroy", c>>)

ReadEnd(c) ==
  /\ Handling(c, "read") /\ up[c] = 0 /\ client[c] = "closed"
  /\ IF state[c] = "Connected" /\ name[c] \in DOMAIN connections
     THEN /\ reading' = reading \ {c} /\ writing' = writing \ {c}
          /\ EraseConnection(c)
          /\ QueueDestroy(c)
          /\ UNCHANGED crash
     ELSE crash' = "assert" /\ UNCHANGED <<reading, writing, connections, queue>>
  /\ UNCHANGED held
  /\ Release
  /\ UNCHANGED <<started, next_conn_id, next_loop, name, listenning, state, channel_map, out, phase,
                 batch, backlog, clientVars, down>>

(* handleWrite(), which does nothing for a connection that was closed by   *)
(* the read before it.                                                     *)
DisableWhenDone(c, w) ==
  writing' = IF w > 0 /\ w = out[c] THEN writing \ {c} ELSE writing

handleWrite(c) ==
  /\ <<c, "read">> \notin active
  /\ Handling(c, "write")
  /\ IF c \in writing
     THEN \E w \in Taken(c, out[c]) :
            /\ out' = [out EXCEPT ![c] = @ - w]
            /\ down' = [down EXCEPT ![c] = @ + w]
            /\ DisableWhenDone(c, w)
     ELSE UNCHANGED <<out, down, writing>>
  /\ UNCHANGED <<serverVars, listenning, state, fd, channel_map, reading, phase, batch, held, queue,
                 backlog, clientVars, crash>>

-----------------------------------------------------------------------------
(* doPendingFunctors(): the vector it swapped the functors into keeps the  *)
(* connections until it returns.                                           *)
BeginFunctors ==
  /\ Running /\ phase = "handle" /\ active = {}
  /\ phase' = "functors"
  /\ batch' = queue /\ queue' = <<>>
  /\ held' = {c \in Clients : \E i \in DOMAIN queue : queue[i] = <<"destroy", c>>}
  /\ UNCHANGED <<serverVars, listenning, connVars, out, active, backlog, clientVars, down, crash>>

NextFunctor(kind) ==
  /\ Running /\ phase = "functors"
  /\ batch # <<>> /\ Head(batch)[1] = kind
  /\ batch' = Tail(batch)

ListenFunctor ==
  /\ NextFunctor("listen")
  /\ listen
  /\ UNCHANGED <<serverVars, connVars, out, phase, active, held, queue, backlog, clientVars, down,
                 crash>>

(* destroyConnection(): removeChannel() asserts that the map has this      *)
(* channel for the descriptor.                                             *)
LeaveChannel(c) == UNCHANGED channel_map                      \* mutant
removeChannel(c) == channel_map' = Without(channel_map, fd[c])

destroyConnection ==
  /\ NextFunctor("destroy")
  /\ LET c == Head(batch)[2] IN
     IF state[c] = "Connected" /\ fd[c] \in DOMAIN channel_map /\ channel_map[fd[c]] = c
     THEN /\ state' = [state EXCEPT ![c] = "Disconnected"]
          /\ reading' = reading \ {c} /\ writing' = writing \ {c}
          /\ removeChannel(c)
          /\ UNCHANGED crash
     ELSE crash' = "assert" /\ UNCHANGED <<state, reading, writing, channel_map>>
  /\ UNCHANGED <<serverVars, listenning, fd, out, phase, active, held, queue, backlog, clientVars,
                 down>>

EndFunctors ==
  /\ Running /\ phase = "functors" /\ batch = <<>>
  /\ phase' = "poll"
  /\ held' = {}
  /\ UNCHANGED <<serverVars, listenning, queue>>
  /\ Release
  /\ UNCHANGED <<state, channel_map, reading, writing, out, active, batch, backlog, clientVars, down,
                 crash>>

-----------------------------------------------------------------------------
(* The clients, and the kernel on their behalf: it completes connections   *)
(* as soon as the socket listens, and takes data for them.                 *)
Connect(c) ==
  /\ Running /\ listenning /\ client[c] = "new"
  /\ client' = [client EXCEPT ![c] = "open"]
  /\ backlog' = Append(backlog, c)
  /\ UNCHANGED <<serverVars, listenning, connVars, out, loopVars, queue, rst, sent, up,
                 down, got, crash>>

ClientSends(c) ==
  /\ Running /\ client[c] = "open" /\ sent[c] < Bytes[c]
  /\ sent' = [sent EXCEPT ![c] = Bytes[c]]
  /\ up' = [up EXCEPT ![c] = Bytes[c]]
  /\ UNCHANGED <<serverVars, listenning, connVars, out, loopVars, queue, backlog, client,
                 rst, down, got, crash>>

ClientReceives(c) ==
  /\ Running /\ client[c] = "open" /\ down[c] > 0
  /\ down' = [down EXCEPT ![c] = @ - 1]
  /\ got' = [got EXCEPT ![c] = @ + 1]
  /\ UNCHANGED <<serverVars, listenning, connVars, out, loopVars, queue, backlog, client,
                 rst, sent, up, crash>>

(* It has all its bytes back, and closes. *)
ClientCloses(c) ==
  /\ Running /\ client[c] = "open" /\ got[c] = Bytes[c]
  /\ client' = [client EXCEPT ![c] = "closed"]
  /\ UNCHANGED <<serverVars, listenning, connVars, out, loopVars, queue, backlog, rst, sent,
                 up, down, got, crash>>

(* It closes before that; with a reset, what the server did not read yet   *)
(* is lost.                                                                *)
ClientAborts(c) ==
  /\ Running /\ client[c] = "open" /\ got[c] < Bytes[c]
  /\ client' = [client EXCEPT ![c] = "closed"]
  /\ \/ UNCHANGED <<rst, up>>
     \/ rst' = rst \cup {c} /\ up' = [up EXCEPT ![c] = 0]
  /\ UNCHANGED <<serverVars, listenning, connVars, out, loopVars, queue, backlog, sent, down, got,
                 crash>>

-----------------------------------------------------------------------------
LoopStep ==
  \/ start \/ startListens \/ loop \/ Poll \/ acceptFails \/ handleAccept
  \/ \E c \in Clients : ReadData(c) \/ ReadError(c) \/ ReadEnd(c) \/ handleWrite(c)
  \/ BeginFunctors \/ ListenFunctor \/ destroyConnection \/ EndFunctors

ClientStep(c) == ClientSends(c) \/ ClientReceives(c) \/ ClientCloses(c)

Next ==
  \/ LoopStep \/ startAgain
  \/ \E c \in Clients : Connect(c) \/ ClientStep(c) \/ ClientAborts(c)

Spec == Init /\ [][Next]_vars

(* The loop's thread runs, and so do the clients that are not stalled.     *)
Fairness ==
  /\ WF_vars(LoopStep)
  /\ \A c \in Clients \ Stalled : WF_vars(ClientStep(c))

FairSpec == Spec /\ Fairness

-----------------------------------------------------------------------------
(***************************************************************************)
(* Properties                                                              *)
(***************************************************************************)

(* No assertion of the server, its connections or the poller fails, and    *)
(* all of them are called in their loop's thread - whatever setThreadNum() *)
(* was given.                                                              *)
NoCrash == crash = "no"

(* Descriptors and objects go together through accept, close, destruction  *)
(* and reuse: the Poller's Channel* belongs to a connection that exists    *)
(* and has that very descriptor open, no descriptor is used by two, and a  *)
(* connection that exists has one.                                         *)
DescriptorsApart ==
  /\ \A f \in DOMAIN channel_map : Alive(channel_map[f]) /\ fd[channel_map[f]] = f
  /\ \A c \in Clients : Alive(c) <=> fd[c] # NoFd
  /\ \A c, d \in Clients : fd[c] = fd[d] /\ fd[c] # NoFd => c = d

(* connections_ knows exactly the connections that are not closed: each    *)
(* under its own name, and each of them polled.                            *)
MapIsCurrent ==
  \A c \in Clients :
    /\ c \in reading <=> InMap(connections, c)
    /\ InMap(connections, c) => name[c] \in DOMAIN connections /\ connections[name[c]] = c

(* Not a byte is lost or made up: what an open client has sent is on its   *)
(* way in, in the output buffer, on its way out, or received.              *)
EchoConserved ==
  \A c \in Clients : client[c] = "open" => sent[c] = up[c] + out[c] + down[c] + got[c]

(* Every client that connects, sends and reads is served: in the end none  *)
(* of them is left open, and one that did not abort closes only when it    *)
(* has all its bytes back - even if it has to wait for a descriptor, and   *)
(* others have stalled or aborted.  There must be more descriptors than    *)
(* stalled clients.                                                        *)
ClientsServed == <>[](\A c \in Clients \ Stalled : client[c] # "open")

(* In the end the descriptors of all connections whose client has closed   *)
(* are given back, and connections_ has forgotten them.                    *)
DescriptorsReturn ==
  <>[](\A c \in Clients : client[c] = "closed" => fd[c] = NoFd /\ ~InMap(connections, c))
=============================================================================
