---------------------------- MODULE TcpConnection ----------------------------
(***************************************************************************)
(* One TcpConnection (src/src/tcp_connection.cpp) from                     *)
(* TcpServer::newConnection() to its destruction, in a server without I/O  *)
(* threads: its loop is the base loop.  The loop's thread handles events   *)
(* and executes queued functors; one more thread may use the connection    *)
(* through the interface that is documented as thread safe.                *)
(*                                                                         *)
(* doPendingFunctors() keeps the loop's mutex while functors run, so the   *)
(* other thread cannot queue anything meanwhile; a functor that queues     *)
(* something itself never returns.                                         *)
(***************************************************************************)
EXTENDS Naturals, Sequences

CONSTANTS
  Messages,       \* the messages user code sends, each at most once
  Setups          \* how the connection is used: the calls the other thread
                  \* makes, and whether write_cmpl_cb_ is set

ASSUME SetupAssumption ==
  Setups \subseteq [calls : SUBSET {"send", "shutdown"}, complete : BOOLEAN]

(* A message has two bytes, so that a write(2) can take half of it. *)
BytesOf(m) == <<<<m, 1>>, <<m, 2>>>>
Bytes == Messages \X {1, 2}

VARIABLES
  setup,        \* the one of Setups that holds for this behaviour
  state,        \* state_
  reading,      \* the channel's ReadEvent; FALSE again: no event is reported
  writing,      \* the channel's WriteEvent
  registered,   \* the channel is in the Poller
  out,          \* the content of output_buffer_
  wire,         \* what write(2) took
  accepted,     \* history: the bytes sendInLoop() was called with
  shut,         \* shutdownWrite() was called
  peerClosed,   \* the peer closed its side
  inMap,        \* TcpServer::connections_ has the connection
  userRef,      \* user code keeps a TcpConnectionPtr
  phase,        \* the loop: "poll", "handle", "functors"
  todo,         \* callbacks of handleEvents() still to be made
  queue,        \* pending_functors_
  batch,        \* functors being executed by doPendingFunctors()
  held,         \* the functors of the batch keep a TcpConnectionPtr
  thread,       \* the other thread: "idle" or inside a call
  tmsg,         \* the message of its send()
  unsent,       \* messages not sent yet
  crash         \* "no", or how the process came to its end

connVars == <<state, reading, writing, registered>>
dataVars == <<out, wire, accepted>>
netVars == <<shut, peerClosed>>
refVars == <<inMap, userRef>>
loopVars == <<phase, todo, batch, held>>
threadVars == <<thread, tmsg>>
moving == <<connVars, dataVars, netVars, refVars, loopVars, queue, threadVars, unsent, crash>>
vars == <<setup, moving>>

States == {"none", "Connecting", "Connected", "Disconnecting", "Disconnected"}
Callbacks == {"close", "read", "write", "user"}
Functors == [kind : {"send"}, m : Messages] \cup [kind : {"shutdown", "destroy", "complete"}]

TypeOK ==
  /\ setup \in Setups
  /\ state \in States
  /\ {reading, writing, registered, shut, peerClosed, inMap, userRef, held} \subseteq BOOLEAN
  /\ out \in Seq(Bytes) /\ wire \in Seq(Bytes) /\ accepted \in Seq(Bytes)
  /\ phase \in {"poll", "handle", "functors"}
  /\ todo \in Seq(Callbacks)
  /\ queue \in Seq(Functors) /\ batch \in Seq(Functors)
  /\ thread \in {"idle", "send", "shutdown", "shutdownQueue"}
  /\ tmsg \subseteq Messages /\ unsent \subseteq Messages
  /\ crash \in {"no", "assert", "freed", "deadlock"}

Init ==
  /\ setup \in Setups
  /\ state = "none" /\ reading = FALSE /\ writing = FALSE /\ registered = FALSE
  /\ out = <<>> /\ wire = <<>> /\ accepted = <<>>
  /\ shut = FALSE /\ peerClosed = FALSE
  /\ inMap = FALSE /\ userRef = FALSE
  /\ phase = "handle" /\ todo = <<>> /\ queue = <<>> /\ batch = <<>> /\ held = FALSE
  /\ thread = "idle" /\ tmsg = {} /\ unsent = Messages
  /\ crash = "no"

(* The object exists while some TcpConnectionPtr does: the server's, the   *)
(* user's, or that of a functor (destroy and complete have one; send and   *)
(* shutdown are bound to the bare "this").                                 *)
BareThis(f) == f.kind = "complete"                            \* mutant
KeepsRef(f) == f.kind \in {"destroy", "complete"}
Alive == inMap \/ userRef \/ held \/ \E i \in DOMAIN queue : KeepsRef(queue[i])

-----------------------------------------------------------------------------
(***************************************************************************)
(* What the member functions do to the connection.  Each is a conjunction  *)
(* over connVars, dataVars, shut, queue and crash; the actions below say   *)
(* who calls it.                                                           *)
(***************************************************************************)
Crash(how) == crash' = how /\ UNCHANGED <<connVars, dataVars, shut, queue>>

(* queueInLoop(f) in the loop's thread: a functor that calls it waits for  *)
(* the mutex its own caller holds.                                         *)
Queueing(f) ==
  IF phase = "functors" THEN crash' = "deadlock" /\ UNCHANGED queue
                        ELSE queue' = Append(queue, f) /\ UNCHANGED crash

WriteCompleted ==
  IF setup.complete THEN Queueing([kind |-> "complete"]) ELSE UNCHANGED <<queue, crash>>

(* What write(2) can take of n bytes; 0 stands for EWOULDBLOCK and for     *)
(* every error, EPIPE after shutdownWrite() among them (SIGPIPE is         *)
(* ignored).  sendInLoop() and handleWrite() treat them alike.             *)
Taken(n) == IF shut THEN {0} ELSE 0..n

(* sendInLoop(m).  enableWriting() on a channel that has been removed      *)
(* fails an assertion of Poller::updateChannel().                          *)
AlwaysDirect == TRUE                                          \* mutant
WritesDirectly == ~writing /\ out = <<>>

NeverWatched(rest) == writing                                 \* mutant
Watched(rest) == writing \/ rest # <<>>

sendInLoop(m) ==
  \E n \in (IF WritesDirectly THEN Taken(2) ELSE {0}) :
    LET rest == SubSeq(BytesOf(m), n + 1, 2) IN
    IF rest # <<>> /\ ~writing /\ ~registered
    THEN Crash("assert")
    ELSE /\ accepted' = accepted \o BytesOf(m)
         /\ wire' = wire \o SubSeq(BytesOf(m), 1, n)
         /\ out' = out \o rest
         /\ writing' = Watched(rest)
         /\ IF rest = <<>> THEN WriteCompleted ELSE UNCHANGED <<queue, crash>>
         /\ UNCHANGED <<state, reading, registered, shut>>

(* shutdownInLoop() does nothing while output is being written. *)
ShutAnyway == TRUE                                            \* mutant
MayShut == ~writing

shutdownInLoop == shut' = (shut \/ MayShut)

-----------------------------------------------------------------------------
(* User code in the loop's thread: in connection_cb_, message_cb_ or       *)
(* write_cmpl_cb_, or in a callback of something else that keeps the       *)
(* TcpConnectionPtr.                                                       *)
InUserCode == crash = "no" /\ todo # <<>> /\ Head(todo) = "user"

UserSend ==
  /\ InUserCode /\ state = "Connected"
  /\ \E m \in unsent : unsent' = unsent \ {m} /\ sendInLoop(m)
  /\ UNCHANGED <<peerClosed, refVars, loopVars, threadVars>>

UserShutdown ==
  /\ InUserCode /\ state = "Connected"
  /\ state' = "Disconnecting"
  /\ shutdownInLoop
  /\ UNCHANGED <<reading, writing, registered, dataVars, peerClosed, refVars, loopVars, queue,
                 threadVars, unsent, crash>>

UserReturn ==
  /\ InUserCode
  /\ todo' = Tail(todo)
  /\ UNCHANGED <<connVars, dataVars, netVars, refVars, phase, batch, held, queue, threadVars,
                 unsent, crash>>

-----------------------------------------------------------------------------
(* establishConnection(): the channel is registered, and connection_cb_    *)
(* hands user code a TcpConnectionPtr that it may keep.                    *)
establishConnection ==
  /\ state' = "Connected" /\ reading' = TRUE /\ registered' = TRUE
  /\ userRef' \in BOOLEAN
  /\ todo' = <<"user">>

(* TcpServer::newConnection(), in the accept callback. *)
newConnection ==
  /\ state = "none" /\ phase = "handle"
  /\ inMap' = TRUE
  /\ establishConnection
  /\ UNCHANGED <<writing, dataVars, netVars, phase, batch, held, queue, threadVars, unsent, crash>>

(* What poll() can report for the connection's channel, as the callbacks   *)
(* handleEvents() makes.  The error callback only logs and is left out;    *)
(* POLLHUP without POLLIN comes only when the peer is gone.                *)
Ready ==
  {<<>>} \cup
  (IF reading THEN {<<"read">>} ELSE {}) \cup
  (IF reading /\ peerClosed THEN {<<"close">>} ELSE {}) \cup
  (IF reading /\ writing THEN {<<"write">>, <<"read", "write">>} ELSE {}) \cup
  (IF reading /\ writing /\ peerClosed THEN {<<"close", "write">>} ELSE {})

(* Other channels are dispatched before or after it, and their callbacks   *)
(* may use the connection.                                                 *)
WithOthers(cbs) ==
  IF userRef THEN {cbs, <<"user">> \o cbs, cbs \o <<"user">>} ELSE {cbs}

Poll(own) ==
  /\ phase = "poll" /\ crash = "no"
  /\ own \in Ready
  /\ todo' \in WithOthers(own)
  /\ phase' = "handle"
  /\ UNCHANGED <<connVars, dataVars, netVars, refVars, batch, held, queue, threadVars, unsent, crash>>

Handling(cb) == crash = "no" /\ phase = "handle" /\ todo # <<>> /\ Head(todo) = cb

(* handleClose() and, as close_cb_, TcpServer::removeConnection().  The    *)
(* state stays what it was until destroyConnection() runs.                 *)
MayClose == state \in {"Connected", "Disconnecting"} /\ inMap

NotQueued == <<>>                                             \* mutant
WrongFunctor == <<[kind |-> "close"]>>                        \* mutant
QueuedOnRemoval == <<[kind |-> "destroy"]>>

handleClose ==
  /\ IF MayClose
     THEN /\ reading' = FALSE /\ writing' = FALSE
          /\ inMap' = FALSE
          /\ queue' = queue \o QueuedOnRemoval
          /\ UNCHANGED <<state, registered, dataVars, shut, crash>>
     ELSE Crash("assert") /\ UNCHANGED inMap
  /\ todo' = Tail(todo)

CloseCallback ==
  /\ Handling("close")
  /\ handleClose
  /\ UNCHANGED <<peerClosed, userRef, phase, batch, held, threadVars, unsent>>

(* handleRead(): data for message_cb_; the end of the stream; an error,    *)
(* which is only logged.                                                   *)
ReadData ==
  /\ Handling("read")
  /\ todo' = <<"user">> \o Tail(todo)
  /\ UNCHANGED <<connVars, dataVars, netVars, refVars, phase, batch, held, queue, threadVars,
                 unsent, crash>>

ReadEnd ==
  /\ Handling("read") /\ peerClosed
  /\ handleClose
  /\ UNCHANGED <<peerClosed, userRef, phase, batch, held, threadVars, unsent>>

ReadError ==
  /\ Handling("read")
  /\ todo' = Tail(todo)
  /\ UNCHANGED <<connVars, dataVars, netVars, refVars, phase, batch, held, queue, threadVars,
                 unsent, crash>>

(* handleWrite().  The output is drained: the WriteEvent is taken back,    *)
(* write_cmpl_cb_ queued, and a shutdown() that had to wait carried out.   *)
ForgetsShutdown == FALSE                                      \* mutant
ShutdownPending == state = "Disconnecting"

handleWrite(n) ==
  /\ Handling("write")
  /\ IF writing
     THEN /\ n \in Taken(Len(out))
          /\ wire' = wire \o SubSeq(out, 1, n)
          /\ out' = SubSeq(out, n + 1, Len(out))
          /\ IF n > 0 /\ out' = <<>>
             THEN /\ writing' = FALSE
                  /\ WriteCompleted
                  /\ shut' = (shut \/ ShutdownPending)
             ELSE UNCHANGED <<writing, queue, shut, crash>>
     ELSE n = 0 /\ UNCHANGED <<wire, out, writing, queue, shut, crash>>
  /\ todo' = Tail(todo)
  /\ UNCHANGED <<state, reading, registered, accepted, peerClosed, refVars, phase, batch, held,
                 threadVars, unsent>>

-----------------------------------------------------------------------------
(* doPendingFunctors().  The vector it swapped the functors into, and the  *)
(* TcpConnectionPtrs they hold, last until it returns.                     *)
BeginFunctors ==
  /\ crash = "no" /\ phase = "handle" /\ todo = <<>>
  /\ phase' = "functors"
  /\ batch' = queue /\ queue' = <<>>
  /\ held' = \E i \in DOMAIN queue : KeepsRef(queue[i])
  /\ UNCHANGED <<connVars, dataVars, netVars, refVars, todo, threadVars, unsent, crash>>

Running(kind) ==
  /\ crash = "no" /\ phase = "functors" /\ todo = <<>>
  /\ batch # <<>> /\ Head(batch).kind = kind
  /\ batch' = Tail(batch)

(* A send() or shutdown() of another thread.  The functor is bound to the  *)
(* bare "this", which may be gone by now.                                  *)
SendFunctor ==
  /\ Running("send")
  /\ IF Alive THEN sendInLoop(Head(batch).m) ELSE Crash("freed")
  /\ UNCHANGED <<peerClosed, refVars, phase, todo, held, threadVars, unsent>>

ShutdownFunctor ==
  /\ Running("shutdown")
  /\ IF Alive THEN shutdownInLoop /\ UNCHANGED <<connVars, dataVars, queue, crash>>
              ELSE Crash("freed")
  /\ UNCHANGED <<peerClosed, refVars, phase, todo, held, threadVars, unsent>>

(* destroyConnection().  Its disableAllEvents() is needed although         *)
(* handleClose() has just called it: user code may have sent in between.   *)
(* connection_cb_ gives user code control, with the mutex held and before  *)
(* removeChannel(): in the state Disconnected its send() and shutdown() do *)
(* nothing, but it may keep the TcpConnectionPtr it is given.              *)
(* removeChannel() asserts that no event is enabled.                       *)
StillWatched == writing                                       \* mutant
WatchedOnRemoval == FALSE

DestroyFunctor ==
  /\ Running("destroy")
  /\ IF state \in {"Connected", "Disconnecting"} /\ ~WatchedOnRemoval
     THEN /\ state' = "Disconnected"
          /\ reading' = FALSE /\ writing' = FALSE /\ registered' = FALSE
          /\ userRef' \in {userRef, TRUE}
          /\ UNCHANGED <<dataVars, shut, queue, crash>>
     ELSE Crash("assert") /\ UNCHANGED userRef
  /\ UNCHANGED <<peerClosed, inMap, phase, todo, held, threadVars, unsent>>

CompleteFunctor ==
  /\ Running("complete")
  /\ todo' = <<"user">>
  /\ UNCHANGED <<connVars, dataVars, netVars, refVars, phase, held, queue, threadVars, unsent, crash>>

EndFunctors ==
  /\ crash = "no" /\ phase = "functors" /\ todo = <<>> /\ batch = <<>>
  /\ phase' = "poll"
  /\ held' = FALSE
  /\ UNCHANGED <<connVars, dataVars, netVars, refVars, todo, batch, queue, threadVars, unsent, crash>>

-----------------------------------------------------------------------------
(* The other thread, while user code keeps a TcpConnectionPtr for it.      *)
(* Neither the check of state_, nor the assignment, nor queueInLoop() is   *)
(* atomic with the next; queueInLoop() needs the loop's mutex.             *)
ThreadAt(label) == crash = "no" /\ userRef /\ thread = label
MutexFree == phase # "functors"

ThreadSend ==
  /\ ThreadAt("idle") /\ "send" \in setup.calls /\ state = "Connected"
  /\ \E m \in unsent : tmsg' = {m} /\ unsent' = unsent \ {m}
  /\ thread' = "send"
  /\ UNCHANGED <<connVars, dataVars, netVars, refVars, loopVars, queue, crash>>

ThreadSendQueues ==
  /\ ThreadAt("send") /\ MutexFree
  /\ \E m \in tmsg : queue' = Append(queue, [kind |-> "send", m |-> m])
  /\ tmsg' = {} /\ thread' = "idle"
  /\ UNCHANGED <<connVars, dataVars, netVars, refVars, loopVars, unsent, crash>>

ThreadShutdown ==
  /\ ThreadAt("idle") /\ "shutdown" \in setup.calls /\ state = "Connected"
  /\ thread' = "shutdown"
  /\ UNCHANGED <<connVars, dataVars, netVars, refVars, loopVars, queue, tmsg, unsent, crash>>

ThreadShutdownSets ==
  /\ ThreadAt("shutdown")
  /\ state' = "Disconnecting"
  /\ thread' = "shutdownQueue"
  /\ UNCHANGED <<reading, writing, registered, dataVars, netVars, refVars, loopVars, queue, tmsg,
                 unsent, crash>>

ThreadShutdownQueues ==
  /\ ThreadAt("shutdownQueue") /\ MutexFree
  /\ queue' = Append(queue, [kind |-> "shutdown"])
  /\ thread' = "idle"
  /\ UNCHANGED <<connVars, dataVars, netVars, refVars, loopVars, tmsg, unsent, crash>>

(* User code lets go of its TcpConnectionPtr, when no callback needs it. *)
DropRef ==
  /\ ThreadAt("idle") /\ \A i \in DOMAIN todo : todo[i] # "user"
  /\ userRef' = FALSE
  /\ UNCHANGED <<connVars, dataVars, netVars, inMap, loopVars, queue, threadVars, unsent, crash>>

PeerCloses ==
  /\ crash = "no" /\ state # "none" /\ ~peerClosed
  /\ peerClosed' = TRUE
  /\ UNCHANGED <<connVars, dataVars, shut, refVars, loopVars, queue, threadVars, unsent, crash>>

-----------------------------------------------------------------------------
WriteSome == \E n \in 1..Len(out) : handleWrite(n)

LoopStep ==
  \/ newConnection
  \/ UserSend \/ UserShutdown \/ UserReturn
  \/ \E own \in Ready : Poll(own)
  \/ CloseCallback \/ ReadData \/ ReadEnd \/ ReadError \/ WriteSome \/ handleWrite(0)
  \/ BeginFunctors \/ SendFunctor \/ ShutdownFunctor \/ DestroyFunctor \/ CompleteFunctor
  \/ EndFunctors

ThreadStep ==
  \/ ThreadSend \/ ThreadSendQueues
  \/ ThreadShutdown \/ ThreadShutdownSets \/ ThreadShutdownQueues

Next == (LoopStep \/ ThreadStep \/ DropRef \/ PeerCloses) /\ UNCHANGED setup

Spec == Init /\ [][Next]_vars

(* The loop's thread runs.  The peer reads what it is sent: its channel    *)
(* becomes writable again and again, and then write(2) takes something.    *)
(* The end of the peer's stream is reported and, after finitely much data, *)
(* read.                                                                   *)
PollFor(cb) == \E own \in Ready : (\E i \in DOMAIN own : own[i] = cb) /\ Poll(own)

Fairness ==
  /\ WF_moving(LoopStep)
  /\ SF_moving(PollFor("write")) /\ SF_moving(WriteSome)
  /\ SF_moving(PollFor("read")) /\ SF_moving(ReadEnd)

FairSpec == Spec /\ Fairness

-----------------------------------------------------------------------------
(***************************************************************************)
(* Properties                                                              *)
(***************************************************************************)

(* The byte stream: what went to the socket followed by output_buffer_ is  *)
(* what sendInLoop() was given, in that order - whichever of the direct    *)
(* write(2), the buffer and handleWrite() a byte took.                     *)
BytesInOrder == wire \o out = accepted

(* While the connection is polled, its WriteEvent is on exactly when there *)
(* is output: neither is output left lying nor does a writable socket with *)
(* nothing to write keep the loop busy.                                    *)
OutputWatched == reading => (writing <=> out # <<>>)

(* The Poller's Channel* never dangles: the connection that owns the       *)
(* channel exists as long as the channel is registered, although handling  *)
(* its own close event takes it out of TcpServer::connections_.            *)
RegisteredAlive == registered => Alive

(* No assertion fails, no freed connection is used, and no functor waits   *)
(* for the mutex its own loop holds.  send() and shutdown() are documented *)
(* as thread safe, so this is promised to other threads too.               *)
NoCrash == crash = "no"

(* The connection is used by callbacks in its loop's thread only. *)
Alone == setup.calls = {} /\ ~setup.complete

(* Used that way it keeps the promise, whatever user code does between the *)
(* close of the peer and the end of the object.                            *)
AloneNoCrash == Alone => NoCrash

(* shutdown() is graceful: when the socket's write side is closed, all     *)
(* that send() took has been written, and nothing is taken afterwards.     *)
GracefulShutdown == Alone /\ shut /\ reading => wire = accepted

(* Disconnected is final: a shutdown(), which is documented as thread      *)
(* safe, does not bring a connection that destroyConnection() is done with *)
(* back to Disconnecting.                                                  *)
DisconnectedIsFinal ==
  [][state = "Disconnected" => state' = "Disconnected"]_vars

(* send(), documented as thread safe, does not leave the loop's thread     *)
(* waiting for a mutex it holds itself.                                    *)
NoSelfWait == crash # "deadlock"

(* shutdown() is carried out in the end, also when output was pending.     *)
ShutdownCompletes ==
  Alone /\ state = "Disconnecting" /\ reading ~> shut \/ ~reading

(* When the peer closes, the connection is destroyed in the end.           *)
ClosedIsDestroyed == Alone /\ peerClosed ~> state = "Disconnected"
=============================================================================
