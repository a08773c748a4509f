------------------------- MODULE TcpConnectionProofs -------------------------
(***************************************************************************)
(* Proofs about TcpConnection, for any messages and any way of using the   *)
(* connection.                                                             *)
(***************************************************************************)
EXTENDS TcpConnection, SequenceTheorems, TLAPS

-----------------------------------------------------------------------------
(* The invariants *)

Live == {"Connected", "Disconnecting"}

(* Before newConnection() nothing has happened to the connection: every    *)
(* member function needs a callback, a functor or a TcpConnectionPtr.      *)
Untouched ==
  state = "none" =>
    /\ ~reading /\ ~writing /\ ~registered /\ ~inMap /\ ~userRef /\ ~shut
    /\ out = <<>> /\ todo = <<>> /\ queue = <<>> /\ batch = <<>>
    /\ crash = "no"

HasDestroy(s) == \E i \in DOMAIN s : s[i].kind = "destroy"

(* A registered channel's connection is in the server's map, or the        *)
(* functor that will remove the channel is queued, or it runs, and then    *)
(* the batch holds the connection until every functor of it has run.       *)
Removal ==
  /\ phase # "functors" => batch = <<>>
  /\ registered =>
       \/ inMap
       \/ HasDestroy(queue)
       \/ held /\ (crash = "no" => HasDestroy(batch))

ConnInv == TypeOK /\ Untouched /\ BytesInOrder /\ OutputWatched /\ Removal

(* At most one callback of a round of events may close the connection, and *)
(* it was reported for a connection that is in the server's map.           *)
Closing == {"close", "read"}

ClosesOnce(s) ==
  \A i \in DOMAIN s : s[i] \in Closing =>
    /\ inMap
    /\ \A j \in DOMAIN s : s[j] \in Closing => j = i

(* A connection that only its loop's thread uses: the one functor there    *)
(* can be is destroyConnection(), and it is there from the removal from    *)
(* the map to the end.                                                     *)
LifeCycle ==
  /\ crash = "no" /\ thread = "idle"
  /\ \A i \in DOMAIN queue : queue[i].kind = "destroy"
  /\ \A i \in DOMAIN batch : batch[i].kind = "destroy"
  /\ Len(queue) + Len(batch) = IF state \in Live /\ ~inMap THEN 1 ELSE 0
  /\ reading <=> inMap
  /\ inMap => state \in Live
  /\ state \in Live <=> registered
  /\ ClosesOnce(todo)

(* The write side is closed after shutdown() only, when no output is left. *)
Shutdown ==
  shut => /\ state \in {"Disconnecting", "Disconnected"}
          /\ reading => out = <<>>

AloneInv == Alone => LifeCycle /\ Shutdown

-----------------------------------------------------------------------------
(* Sequences *)

LEMMA Associative == \A a, b, c \in Seq(Bytes) : (a \o b) \o c = a \o (b \o c)
<1> SUFFICES ASSUME NEW a \in Seq(Bytes), NEW b \in Seq(Bytes), NEW c \in Seq(Bytes)
             PROVE  (a \o b) \o c = a \o (b \o c)
  OBVIOUS
<1> QED
  BY ConcatAssociative

LEMMA Split ==
  ASSUME NEW S, NEW s \in Seq(S), NEW n \in 0..Len(s)
  PROVE  /\ SubSeq(s, 1, n) \in Seq(S) /\ SubSeq(s, n + 1, Len(s)) \in Seq(S)
         /\ SubSeq(s, 1, n) \o SubSeq(s, n + 1, Len(s)) = s
         /\ SubSeq(s, n + 1, Len(s)) = <<>> <=> n = Len(s)
         /\ n = 0 => SubSeq(s, 1, n) = <<>> /\ SubSeq(s, n + 1, Len(s)) = s
<1>0. Len(s) \in Nat /\ n \in Int /\ \A i \in 1..Len(s) : s[i] \in S
  OBVIOUS
<1>1. SubSeq(s, 1, n) \in Seq(S) /\ SubSeq(s, n + 1, Len(s)) \in Seq(S)
  BY <1>0
<1>2. SubSeq(s, 1, n) \o SubSeq(s, n + 1, Len(s)) = SubSeq(s, 1, Len(s))
  <2>1. 1 \in 1..Len(s) + 1 /\ n \in 1 - 1..Len(s) /\ Len(s) \in n..Len(s)
    BY <1>0
  <2> QED
    BY <2>1, ConcatAdjacentSubSeq, Zenon
<1>3. SubSeq(s, 1, Len(s)) = s
  BY SubSeqFull
<1>4. Len(SubSeq(s, n + 1, Len(s))) = Len(s) - n
  BY <1>0
<1>5. SubSeq(s, n + 1, Len(s)) = <<>> <=> n = Len(s)
  <2> DEFINE t == SubSeq(s, n + 1, Len(s))
  <2>1. t \in Seq(S) /\ Len(t) = Len(s) - n /\ n \in Nat
    BY <1>1, <1>4
  <2> HIDE DEF t
  <2>2. t = <<>> <=> Len(t) = 0
    BY <2>1
  <2>3. t = <<>> <=> n = Len(s)
    BY <1>0, <2>1, <2>2
  <2> QED
    BY <2>3 DEF t
<1>6. n = 0 => SubSeq(s, 1, n) = <<>> /\ SubSeq(s, n + 1, Len(s)) = s
  BY <1>0, <1>3, SubSeqEmpty
<1> QED
  BY <1>1, <1>2, <1>3, <1>5, <1>6

LEMMA AppendKeeps ==
  ASSUME NEW s \in Seq(Functors), NEW f \in Functors
  PROVE  /\ Append(s, f) \in Seq(Functors)
         /\ HasDestroy(s) => HasDestroy(Append(s, f))
         /\ f.kind = "destroy" => HasDestroy(Append(s, f))
         /\ s \o <<f>> = Append(s, f)
<1>1. /\ Append(s, f) \in Seq(Functors) /\ Len(Append(s, f)) = Len(s) + 1
      /\ \A i \in 1..Len(s) : Append(s, f)[i] = s[i]
      /\ Append(s, f)[Len(s) + 1] = f
      /\ Len(s) \in Nat
  BY AppendProperties
<1>2. DOMAIN Append(s, f) = 1..Len(s) + 1 /\ DOMAIN s = 1..Len(s)
  BY <1>1
<1>3. HasDestroy(s) => HasDestroy(Append(s, f))
  BY <1>1, <1>2 DEF HasDestroy
<1>4. f.kind = "destroy" => HasDestroy(Append(s, f))
  BY <1>1, <1>2 DEF HasDestroy
<1>5. s \o <<f>> = Append(s, f)
  BY AppendIsConcat
<1> QED
  BY <1>1, <1>3, <1>4, <1>5

LEMMA TailKeeps ==
  ASSUME NEW s \in Seq(Functors), s # <<>>
  PROVE  /\ Tail(s) \in Seq(Functors) /\ Head(s) \in Functors
         /\ HasDestroy(s) /\ Head(s).kind # "destroy" => HasDestroy(Tail(s))
<1>1. /\ Tail(s) \in Seq(Functors) /\ Head(s) \in Functors /\ Head(s) = s[1]
      /\ Len(s) \in Nat /\ Len(s) > 0 /\ Len(Tail(s)) = Len(s) - 1
      /\ \A i \in 1..Len(s) - 1 : Tail(s)[i] = s[i + 1]
  BY HeadTailProperties, EmptySeq
<1>2. ASSUME HasDestroy(s), Head(s).kind # "destroy"
      PROVE  HasDestroy(Tail(s))
  <2>1. PICK i \in 1..Len(s) : s[i].kind = "destroy"
    BY <1>2 DEF HasDestroy
  <2>2. i - 1 \in 1..Len(s) - 1 /\ Tail(s)[i - 1] = s[i]
    BY <1>1, <1>2, <2>1
  <2>3. DOMAIN Tail(s) = 1..Len(s) - 1
    BY <1>1
  <2> QED
    BY <2>1, <2>2, <2>3 DEF HasDestroy
<1> QED
  BY <1>1, <1>2

LEMMA FunctorTypes ==
  /\ [kind |-> "destroy"] \in Functors
  /\ [kind |-> "complete"] \in Functors
  /\ [kind |-> "shutdown"] \in Functors
  /\ \A m \in Messages : [kind |-> "send", m |-> m] \in Functors
  /\ \A f \in Functors : f.kind = "send" => f.m \in Messages
  BY DEF Functors

LEMMA MessageType ==
  ASSUME NEW m \in Messages
  PROVE  BytesOf(m) \in Seq(Bytes) /\ Len(BytesOf(m)) = 2 /\ BytesOf(m) # <<>>
<1>1. <<m, 1>> \in Bytes /\ <<m, 2>> \in Bytes
  BY DEF Bytes
<1> QED
  BY <1>1 DEF BytesOf

-----------------------------------------------------------------------------
(* What the member functions do *)

LEMMA WriteCompletedKeeps ==
  ASSUME TypeOK, WriteCompleted
  PROVE  /\ queue' \in Seq(Functors) /\ crash' \in {"no", "assert", "freed", "deadlock"}
         /\ HasDestroy(queue) => HasDestroy(queue')
         /\ ~setup.complete => UNCHANGED <<queue, crash>>
  BY FunctorTypes, AppendKeeps DEF WriteCompleted, Queueing, TypeOK

(* sendInLoop(): either an assertion fails and nothing changes, or the n   *)
(* bytes write(2) took went to the wire and the rest to the buffer.        *)
LEMMA SendCases ==
  ASSUME TypeOK, NEW m \in Messages, sendInLoop(m)
  PROVE  \/ Crash("assert") /\ ~registered
         \/ \E n \in 0..2 :
              /\ n > 0 => ~writing /\ out = <<>>
              /\ accepted' = accepted \o BytesOf(m)
              /\ wire' = wire \o SubSeq(BytesOf(m), 1, n)
              /\ out' = out \o SubSeq(BytesOf(m), n + 1, 2)
              /\ writing' = (writing \/ n < 2)
              /\ IF n = 2 THEN WriteCompleted ELSE UNCHANGED <<queue, crash>>
              /\ UNCHANGED <<state, reading, registered, shut>>
<1>1. PICK n \in (IF WritesDirectly THEN Taken(2) ELSE {0}) :
        LET rest == SubSeq(BytesOf(m), n + 1, 2) IN
        IF rest # <<>> /\ ~writing /\ ~registered
        THEN Crash("assert")
        ELSE /\ accepted' = accepted \o BytesOf(m)
             /\ wire' = wire \o SubSeq(BytesOf(m), 1, n)
             /\ out' = out \o rest
             /\ writing' = Watched(rest)
             /\ IF rest = <<>> THEN WriteCompleted ELSE UNCHANGED <<queue, crash>>
             /\ UNCHANGED <<state, reading, registered, shut>>
  BY DEF sendInLoop
<1>2. n \in 0..2 /\ (n > 0 => ~writing /\ out = <<>>)
  BY DEF WritesDirectly, Taken
<1>3. SubSeq(BytesOf(m), n + 1, 2) = <<>> <=> n = 2
  BY <1>2, MessageType, Split
<1>4. ~(n = 2) <=> n < 2
  BY <1>2
<1> QED
  BY <1>1, <1>2, <1>3, <1>4 DEF Watched

LEMMA SendKeeps ==
  ASSUME TypeOK, BytesInOrder, OutputWatched, NEW m \in Messages, sendInLoop(m)
  PROVE  /\ out' \in Seq(Bytes) /\ wire' \in Seq(Bytes) /\ accepted' \in Seq(Bytes)
         /\ writing' \in BOOLEAN /\ queue' \in Seq(Functors)
         /\ crash' \in {"no", "assert", "freed", "deadlock"}
         /\ UNCHANGED <<state, reading, registered, shut>>
         /\ BytesInOrder' /\ OutputWatched'
         /\ HasDestroy(queue) => HasDestroy(queue')
         /\ registered /\ ~setup.complete => UNCHANGED <<queue, crash>>
<1>1. CASE Crash("assert") /\ ~registered
  BY <1>1 DEF Crash, connVars, dataVars, TypeOK, BytesInOrder, OutputWatched
<1>2. ASSUME NEW n \in 0..2,
             n > 0 => ~writing /\ out = <<>>,
             accepted' = accepted \o BytesOf(m),
             wire' = wire \o SubSeq(BytesOf(m), 1, n),
             out' = out \o SubSeq(BytesOf(m), n + 1, 2),
             writing' = (writing \/ n < 2),
             IF n = 2 THEN WriteCompleted ELSE UNCHANGED <<queue, crash>>,
             UNCHANGED <<state, reading, registered, shut>>
      PROVE  /\ out' \in Seq(Bytes) /\ wire' \in Seq(Bytes) /\ accepted' \in Seq(Bytes)
             /\ writing' \in BOOLEAN /\ queue' \in Seq(Functors)
             /\ crash' \in {"no", "assert", "freed", "deadlock"}
             /\ BytesInOrder' /\ OutputWatched'
             /\ HasDestroy(queue) => HasDestroy(queue')
             /\ registered /\ ~setup.complete => UNCHANGED <<queue, crash>>
  <2> DEFINE b == BytesOf(m)
             head == SubSeq(b, 1, n)
             rest == SubSeq(b, n + 1, 2)
  <2>1. b \in Seq(Bytes) /\ Len(b) = 2 /\ b # <<>>
    BY MessageType
  <2>2. /\ head \in Seq(Bytes) /\ rest \in Seq(Bytes) /\ head \o rest = b
        /\ rest = <<>> <=> n = 2
        /\ n = 0 => head = <<>> /\ rest = b
    <3> HIDE DEF b
    <3>1. n \in 0..Len(b) /\ rest = SubSeq(b, n + 1, Len(b))
      BY <2>1
    <3>2. /\ head \in Seq(Bytes) /\ SubSeq(b, n + 1, Len(b)) \in Seq(Bytes)
          /\ head \o SubSeq(b, n + 1, Len(b)) = b
          /\ SubSeq(b, n + 1, Len(b)) = <<>> <=> n = Len(b)
          /\ n = 0 => head = <<>> /\ SubSeq(b, n + 1, Len(b)) = b
      BY <2>1, <3>1, Split, Zenon
    <3> QED
      BY <2>1, <3>1, <3>2
  <2>3. /\ out \in Seq(Bytes) /\ wire \in Seq(Bytes) /\ accepted \in Seq(Bytes)
        /\ writing \in BOOLEAN /\ queue \in Seq(Functors)
        /\ crash \in {"no", "assert", "freed", "deadlock"}
    BY DEF TypeOK
  <2>4. accepted' = accepted \o b /\ wire' = wire \o head /\ out' = out \o rest
    BY <1>2
  <2> HIDE DEF b, head, rest
  <2>5. out' \in Seq(Bytes) /\ wire' \in Seq(Bytes) /\ accepted' \in Seq(Bytes)
    BY <2>1, <2>2, <2>3, <2>4
  <2>6. wire' \o out' = accepted'
    <3>1. CASE n > 0
      <4>1. out = <<>> /\ out' = rest /\ accepted = wire
        BY <3>1, <1>2, <2>2, <2>3, <2>4, ConcatEmptySeq DEF BytesInOrder
      <4>2. wire' \o out' = (wire \o head) \o rest
        BY <4>1, <2>4
      <4>3. (wire \o head) \o rest = wire \o (head \o rest)
        BY <2>2, <2>3, Associative, Zenon
      <4> QED
        BY <4>1, <4>2, <4>3, <2>2, <2>4
    <3>2. CASE n = 0
      <4>1. wire' = wire /\ out' = out \o b
        BY <3>2, <2>2, <2>3, <2>4, ConcatEmptySeq
      <4>2. wire \o (out \o b) = (wire \o out) \o b
        BY <2>1, <2>3, Associative, Zenon
      <4> QED
        BY <4>1, <4>2, <2>4 DEF BytesInOrder
    <3> QED
      BY <3>1, <3>2
  <2>7. reading' => (writing' <=> out' # <<>>)
    <3>1. out' = <<>> <=> out = <<>> /\ rest = <<>>
      BY <2>2, <2>3, <2>4, ConcatEqualIffEmpty
    <3>2. n = 2 <=> ~(n < 2)
      OBVIOUS
    <3>3. n = 2 => ~writing
      BY <1>2
    <3> QED
      BY <1>2, <2>2, <3>1, <3>2, <3>3 DEF OutputWatched
  <2>8. /\ queue' \in Seq(Functors) /\ crash' \in {"no", "assert", "freed", "deadlock"}
        /\ HasDestroy(queue) => HasDestroy(queue')
        /\ ~setup.complete => UNCHANGED <<queue, crash>>
    BY <1>2, <2>3, WriteCompletedKeeps
  <2>9. writing' \in BOOLEAN
    BY <1>2
  <2> QED
    BY <2>5, <2>6, <2>7, <2>8, <2>9 DEF BytesInOrder, OutputWatched
<1> QED
  BY <1>1, <1>2, SendCases

LEMMA WriteKeeps ==
  ASSUME TypeOK, BytesInOrder, OutputWatched, NEW n \in 0..Len(out), handleWrite(n)
  PROVE  /\ out' \in Seq(Bytes) /\ wire' \in Seq(Bytes)
         /\ writing' \in BOOLEAN /\ shut' \in BOOLEAN /\ queue' \in Seq(Functors)
         /\ crash' \in {"no", "assert", "freed", "deadlock"}
         /\ UNCHANGED <<state, reading, registered, accepted>>
         /\ BytesInOrder' /\ OutputWatched'
         /\ HasDestroy(queue) => HasDestroy(queue')
         /\ ~setup.complete => UNCHANGED <<queue, crash>>
         /\ shut' # shut => state = "Disconnecting" /\ out' = <<>>
         /\ out = <<>> => out' = <<>>
<1>0. /\ out \in Seq(Bytes) /\ wire \in Seq(Bytes) /\ accepted \in Seq(Bytes)
      /\ {writing, shut} \subseteq BOOLEAN /\ queue \in Seq(Functors)
      /\ crash \in {"no", "assert", "freed", "deadlock"}
  BY DEF TypeOK
<1>1. CASE ~writing
  BY <1>0, <1>1 DEF handleWrite, BytesInOrder, OutputWatched
<1>2. CASE writing
  <2> DEFINE head == SubSeq(out, 1, n)
             rest == SubSeq(out, n + 1, Len(out))
  <2>1. /\ wire' = wire \o head /\ out' = rest
        /\ IF n > 0 /\ out' = <<>>
           THEN /\ writing' = FALSE
                /\ WriteCompleted
                /\ shut' = (shut \/ ShutdownPending)
           ELSE UNCHANGED <<writing, queue, shut, crash>>
        /\ UNCHANGED <<state, reading, registered, accepted>>
    BY <1>2 DEF handleWrite
  <2>2. /\ head \in Seq(Bytes) /\ rest \in Seq(Bytes) /\ head \o rest = out
        /\ n = 0 => rest = out
        /\ rest = <<>> <=> n = Len(out)
    BY <1>0, Split
  <2> HIDE DEF head, rest
  <2>3. out' \in Seq(Bytes) /\ wire' \in Seq(Bytes)
    BY <1>0, <2>1, <2>2
  <2>4. wire' \o out' = accepted'
    <3>1. (wire \o head) \o rest = wire \o (head \o rest)
      BY <1>0, <2>2, Associative, Zenon
    <3> QED
      BY <2>1, <2>2, <3>1 DEF BytesInOrder
  <2>5. /\ queue' \in Seq(Functors) /\ crash' \in {"no", "assert", "freed", "deadlock"}
        /\ HasDestroy(queue) => HasDestroy(queue')
        /\ ~setup.complete => UNCHANGED <<queue, crash>>
    BY <1>0, <2>1, WriteCompletedKeeps
  <2>6. OutputWatched'
    <3>1. n = 0 \/ n > 0
      BY <1>0
    <3> QED
      BY <1>2, <2>1, <2>2, <3>1 DEF OutputWatched
  <2>7. /\ writing' \in BOOLEAN /\ shut' \in BOOLEAN
        /\ shut' # shut => state = "Disconnecting" /\ out' = <<>>
    BY <1>0, <2>1, Zenon DEF ShutdownPending
  <2>8. out = <<>> => out' = <<>>
    <3>1. out = <<>> => n = Len(out)
      OBVIOUS
    <3> QED
      BY <2>1, <2>2, <3>1
  <2> QED
    BY <2>1, <2>3, <2>4, <2>5, <2>6, <2>7, <2>8 DEF BytesInOrder
<1> QED
  BY <1>0, <1>1, <1>2

LEMMA CloseKeeps ==
  ASSUME TypeOK, handleClose
  PROVE  /\ queue' \in Seq(Functors) /\ {reading', writing', inMap'} \subseteq BOOLEAN
         /\ crash' \in {"no", "assert", "freed", "deadlock"}
         /\ todo' = Tail(todo)
         /\ UNCHANGED <<state, registered, dataVars, shut>>
         /\ OutputWatched => OutputWatched'
         /\ HasDestroy(queue) => HasDestroy(queue')
         /\ inMap => inMap' \/ HasDestroy(queue')
         /\ MayClose => /\ ~reading' /\ ~inMap' /\ UNCHANGED crash
                        /\ queue' = Append(queue, [kind |-> "destroy"])
<1>1. queue \in Seq(Functors)
  BY DEF TypeOK
<1>2. /\ queue \o QueuedOnRemoval = Append(queue, [kind |-> "destroy"])
      /\ Append(queue, [kind |-> "destroy"]) \in Seq(Functors)
      /\ HasDestroy(Append(queue, [kind |-> "destroy"]))
  BY <1>1, FunctorTypes, AppendKeeps DEF QueuedOnRemoval
<1>3. CASE MayClose
  BY <1>2, <1>3 DEF handleClose, dataVars, OutputWatched, TypeOK
<1>4. CASE ~MayClose
  BY <1>1, <1>4 DEF handleClose, Crash, connVars, dataVars, OutputWatched, TypeOK
<1> QED
  BY <1>3, <1>4

-----------------------------------------------------------------------------
(* Callbacks still to be made *)

LEMMA CallbackTypes ==
  /\ <<>> \in Seq(Callbacks) /\ <<"user">> \in Seq(Callbacks) /\ <<"read">> \in Seq(Callbacks)
  /\ <<"close">> \in Seq(Callbacks) /\ <<"write">> \in Seq(Callbacks)
  /\ <<"read", "write">> \in Seq(Callbacks) /\ <<"close", "write">> \in Seq(Callbacks)
<1>1. {"close", "read", "write", "user"} = Callbacks
  BY DEF Callbacks
<1> QED
  BY <1>1

LEMMA ReadyTypes == Ready \subseteq Seq(Callbacks)
  BY CallbackTypes DEF Ready

LEMMA WithOthersTypes ==
  ASSUME NEW own \in Seq(Callbacks)
  PROVE  WithOthers(own) \subseteq Seq(Callbacks)
<1>1. <<"user">> \o own \in Seq(Callbacks) /\ own \o <<"user">> \in Seq(Callbacks)
  BY CallbackTypes
<1> QED
  BY <1>1 DEF WithOthers

(* Every loop and thread action leaves todo a sequence of callbacks. *)
LEMMA TodoType ==
  ASSUME TypeOK, Next
  PROVE  todo' \in Seq(Callbacks)
<1>0. todo \in Seq(Callbacks) /\ (todo # <<>> => Tail(todo) \in Seq(Callbacks))
  BY HeadTailProperties DEF TypeOK
<1>1. CASE newConnection \/ CompleteFunctor
  BY <1>1, CallbackTypes DEF newConnection, establishConnection, CompleteFunctor
<1>2. CASE UserReturn \/ CloseCallback \/ ReadEnd \/ ReadError
  BY <1>0, <1>2 DEF UserReturn, InUserCode, CloseCallback, ReadEnd, ReadError, Handling, handleClose
<1>3. CASE ReadData
  <2>1. Tail(todo) \in Seq(Callbacks)
    BY <1>0, <1>3 DEF ReadData, Handling
  <2>2. <<"user">> \o Tail(todo) \in Seq(Callbacks)
    BY <2>1, CallbackTypes
  <2> QED
    BY <1>3, <2>2 DEF ReadData
<1>4. CASE \E own \in Ready : Poll(own)
  BY <1>4, ReadyTypes, WithOthersTypes DEF Poll
<1>5. CASE WriteSome \/ handleWrite(0)
  BY <1>0, <1>5 DEF WriteSome, handleWrite, Handling
<1>6. CASE UserSend \/ UserShutdown \/ BeginFunctors \/ SendFunctor \/ ShutdownFunctor
             \/ DestroyFunctor \/ EndFunctors
  BY <1>0, <1>6 DEF UserSend, UserShutdown, BeginFunctors, SendFunctor, ShutdownFunctor,
       DestroyFunctor, EndFunctors, loopVars
<1>7. CASE ThreadStep \/ DropRef \/ PeerCloses
  BY <1>0, <1>7 DEF ThreadStep, ThreadSend, ThreadSendQueues, ThreadShutdown, ThreadShutdownSets,
       ThreadShutdownQueues, DropRef, PeerCloses, loopVars
<1> QED
  BY <1>1, <1>2, <1>3, <1>4, <1>5, <1>6, <1>7 DEF Next, LoopStep

-----------------------------------------------------------------------------
(* One step *)

LEMMA InitConn == Init => ConnInv
<1> SUFFICES ASSUME Init PROVE ConnInv
  OBVIOUS
<1>1. TypeOK
  <2>1. /\ out \in Seq(Bytes) /\ wire \in Seq(Bytes) /\ accepted \in Seq(Bytes)
        /\ todo \in Seq(Callbacks) /\ queue \in Seq(Functors) /\ batch \in Seq(Functors)
    BY EmptySeq DEF Init
  <2>2. {reading, writing, registered, shut, peerClosed, inMap, userRef, held} \subseteq BOOLEAN
    BY DEF Init
  <2> QED
    BY <2>1, <2>2 DEF Init, TypeOK, States
<1>2. Untouched /\ OutputWatched /\ Removal
  BY DEF Init, Untouched, OutputWatched, Removal
<1>3. BytesInOrder
  BY ConcatEmptySeq DEF Init, BytesInOrder
<1> QED
  BY <1>1, <1>2, <1>3 DEF ConnInv

(* The steps that leave the connection and its functors alone. *)
LEMMA CalmStep ==
  ASSUME ConnInv, todo' \in Seq(Callbacks),
         UserReturn \/ ReadData \/ ReadError \/ (\E own \in Ready : Poll(own))
           \/ ThreadSend \/ ThreadShutdown \/ DropRef \/ PeerCloses,
         UNCHANGED setup
  PROVE  ConnInv'
<1> USE DEF ConnInv
<1>0. UNCHANGED <<connVars, dataVars, shut, inMap, held, batch, queue, crash>>
  BY DEF UserReturn, ReadData, ReadError, Poll, ThreadSend, ThreadShutdown, DropRef, PeerCloses,
       netVars, refVars, loopVars
<1>1. TypeOK'
  <2>1. /\ {peerClosed', userRef'} \subseteq BOOLEAN /\ phase' \in {"poll", "handle", "functors"}
        /\ thread' \in {"idle", "send", "shutdown", "shutdownQueue"}
        /\ tmsg' \subseteq Messages /\ unsent' \subseteq Messages
    BY DEF UserReturn, ReadData, ReadError, Poll, ThreadSend, ThreadShutdown, DropRef, PeerCloses,
         netVars, refVars, loopVars, threadVars, TypeOK
  <2> QED
    BY <1>0, <2>1 DEF TypeOK, connVars, dataVars
<1>2. Untouched'
  <2>1. state = "none" => todo' = <<>> /\ ~userRef'
    BY DEF Untouched, UserReturn, InUserCode, ReadData, ReadError, Handling, Poll, Ready, WithOthers,
         ThreadSend, ThreadShutdown, DropRef, ThreadAt, PeerCloses, refVars, loopVars
  <2> QED
    BY <1>0, <2>1 DEF Untouched, connVars, dataVars
<1>3. BytesInOrder' /\ OutputWatched'
  BY <1>0 DEF BytesInOrder, OutputWatched, connVars, dataVars
<1>4. Removal'
  <2>1. phase' # "functors" => phase # "functors"
    BY DEF UserReturn, ReadData, ReadError, Poll, ThreadSend, ThreadShutdown, DropRef, PeerCloses,
         loopVars
  <2> QED
    BY <1>0, <2>1 DEF Removal, connVars
<1> QED
  BY <1>1, <1>2, <1>3, <1>4

LEMMA NewStep ==
  ASSUME ConnInv, todo' \in Seq(Callbacks), newConnection, UNCHANGED setup
  PROVE  ConnInv'
<1> USE DEF ConnInv
<1>1. TypeOK'
  BY DEF newConnection, establishConnection, TypeOK, States, dataVars, netVars, threadVars
<1>2. Untouched'
  BY DEF newConnection, establishConnection, Untouched
<1>3. BytesInOrder' /\ OutputWatched' /\ Removal'
  BY DEF newConnection, establishConnection, Untouched, BytesInOrder, OutputWatched, Removal, dataVars
<1> QED
  BY <1>1, <1>2, <1>3

LEMMA UserSendStep ==
  ASSUME ConnInv, todo' \in Seq(Callbacks), UserSend, UNCHANGED setup
  PROVE  ConnInv'
<1> USE DEF ConnInv
<1>0. PICK m \in unsent : unsent' = unsent \ {m} /\ sendInLoop(m)
  BY DEF UserSend
<1>1. m \in Messages
  BY DEF TypeOK
<1>2. /\ out' \in Seq(Bytes) /\ wire' \in Seq(Bytes) /\ accepted' \in Seq(Bytes)
      /\ writing' \in BOOLEAN /\ queue' \in Seq(Functors)
      /\ crash' \in {"no", "assert", "freed", "deadlock"}
      /\ UNCHANGED <<state, reading, registered, shut>>
      /\ BytesInOrder' /\ OutputWatched'
      /\ HasDestroy(queue) => HasDestroy(queue')
  BY <1>0, <1>1, SendKeeps
<1>3. /\ UNCHANGED <<peerClosed, refVars, loopVars, threadVars>>
      /\ state = "Connected" /\ crash = "no"
  BY DEF UserSend, InUserCode
<1>4. TypeOK'
  BY <1>0, <1>2, <1>3 DEF TypeOK, refVars, loopVars, threadVars
<1>5. Untouched'
  BY <1>2, <1>3 DEF Untouched
<1>6. Removal'
  BY <1>2, <1>3 DEF Removal, refVars, loopVars
<1> QED
  BY <1>2, <1>4, <1>5, <1>6

LEMMA UserShutdownStep ==
  ASSUME ConnInv, UserShutdown, UNCHANGED setup
  PROVE  ConnInv'
<1> USE DEF ConnInv
<1>1. shut' \in BOOLEAN
  BY Zenon DEF UserShutdown, shutdownInLoop
<1>2. TypeOK'
  BY <1>1 DEF UserShutdown, TypeOK, States, dataVars, refVars, loopVars, threadVars
<1>3. Untouched'
  BY DEF UserShutdown, Untouched
<1>4. BytesInOrder' /\ OutputWatched' /\ Removal'
  BY DEF UserShutdown, BytesInOrder, OutputWatched, Removal, dataVars, refVars, loopVars
<1> QED
  BY <1>2, <1>3, <1>4

LEMMA CloseStep ==
  ASSUME ConnInv, todo' \in Seq(Callbacks), CloseCallback \/ ReadEnd, UNCHANGED setup
  PROVE  ConnInv'
<1> USE DEF ConnInv
<1>1. /\ handleClose /\ crash = "no" /\ todo # <<>>
      /\ UNCHANGED <<peerClosed, userRef, phase, batch, held, threadVars, unsent>>
  BY DEF CloseCallback, ReadEnd, Handling
<1>2. /\ queue' \in Seq(Functors) /\ {reading', writing', inMap'} \subseteq BOOLEAN
      /\ crash' \in {"no", "assert", "freed", "deadlock"}
      /\ UNCHANGED <<state, registered, dataVars, shut>>
      /\ OutputWatched'
      /\ HasDestroy(queue) => HasDestroy(queue')
      /\ inMap => inMap' \/ HasDestroy(queue')
  BY <1>1, CloseKeeps
<1>3. TypeOK'
  BY <1>1, <1>2 DEF TypeOK, dataVars, threadVars
<1>4. Untouched'
  BY <1>1, <1>2 DEF Untouched
<1>5. BytesInOrder' /\ Removal'
  BY <1>1, <1>2 DEF BytesInOrder, Removal, dataVars
<1> QED
  BY <1>2, <1>3, <1>4, <1>5

LEMMA WriteStep ==
  ASSUME ConnInv, todo' \in Seq(Callbacks), WriteSome \/ handleWrite(0), UNCHANGED setup
  PROVE  ConnInv'
<1> USE DEF ConnInv
<1>0. PICK n \in 0..Len(out) : handleWrite(n)
  <2>1. Len(out) \in Nat
    BY DEF TypeOK
  <2> QED
    BY <2>1 DEF WriteSome
<1>1. /\ crash = "no" /\ todo # <<>>
      /\ UNCHANGED <<peerClosed, refVars, phase, batch, held, threadVars, unsent>>
  BY <1>0 DEF handleWrite, Handling
<1>2. /\ out' \in Seq(Bytes) /\ wire' \in Seq(Bytes)
      /\ writing' \in BOOLEAN /\ shut' \in BOOLEAN /\ queue' \in Seq(Functors)
      /\ crash' \in {"no", "assert", "freed", "deadlock"}
      /\ UNCHANGED <<state, reading, registered, accepted>>
      /\ BytesInOrder' /\ OutputWatched'
      /\ HasDestroy(queue) => HasDestroy(queue')
  BY <1>0, WriteKeeps
<1>3. TypeOK'
  BY <1>1, <1>2 DEF TypeOK, refVars, threadVars
<1>4. Untouched'
  BY <1>1, <1>2 DEF Untouched
<1>5. Removal'
  BY <1>1, <1>2 DEF Removal, refVars
<1> QED
  BY <1>2, <1>3, <1>4, <1>5

LEMMA BatchStep ==
  ASSUME ConnInv, BeginFunctors \/ EndFunctors, UNCHANGED setup
  PROVE  ConnInv'
<1> USE DEF ConnInv
<1>1. CASE BeginFunctors
  <2>1. TypeOK'
    BY <1>1, EmptySeq DEF BeginFunctors, TypeOK, connVars, dataVars, netVars, refVars, threadVars
  <2>2. Untouched' /\ BytesInOrder' /\ OutputWatched'
    BY <1>1 DEF BeginFunctors, Untouched, BytesInOrder, OutputWatched, connVars, dataVars, netVars,
         refVars
  <2>3. HasDestroy(queue) => held' /\ HasDestroy(batch')
    BY <1>1 DEF BeginFunctors, HasDestroy, KeepsRef
  <2>4. ~HasDestroy(batch)
    BY <1>1 DEF BeginFunctors, Removal, HasDestroy
  <2>5. Removal'
    BY <1>1, <2>3, <2>4 DEF BeginFunctors, Removal, connVars, refVars
  <2> QED
    BY <2>1, <2>2, <2>5
<1>2. CASE EndFunctors
  <2>1. TypeOK'
    BY <1>2 DEF EndFunctors, TypeOK, connVars, dataVars, netVars, refVars, threadVars
  <2>2. Untouched' /\ BytesInOrder' /\ OutputWatched'
    BY <1>2 DEF EndFunctors, Untouched, BytesInOrder, OutputWatched, connVars, dataVars, netVars,
         refVars
  <2>3. ~HasDestroy(batch)
    BY <1>2 DEF EndFunctors, HasDestroy
  <2>4. Removal'
    BY <1>2, <2>3 DEF EndFunctors, Removal, connVars, refVars
  <2> QED
    BY <2>1, <2>2, <2>4
<1> QED
  BY <1>1, <1>2

LEMMA FunctorStep ==
  ASSUME ConnInv, todo' \in Seq(Callbacks), UNCHANGED setup,
         SendFunctor \/ ShutdownFunctor \/ DestroyFunctor \/ CompleteFunctor
  PROVE  ConnInv'
<1> USE DEF ConnInv
<1>0. /\ crash = "no" /\ phase = "functors" /\ batch # <<>> /\ batch' = Tail(batch)
      /\ UNCHANGED <<peerClosed, inMap, phase, held, threadVars, unsent>>
      /\ userRef' \in BOOLEAN
  BY DEF SendFunctor, ShutdownFunctor, DestroyFunctor, CompleteFunctor, Running, netVars, refVars,
       TypeOK
<1>1. /\ batch' \in Seq(Functors) /\ Head(batch) \in Functors
      /\ HasDestroy(batch) /\ Head(batch).kind # "destroy" => HasDestroy(batch')
  BY <1>0, TailKeeps DEF TypeOK
<1>2. state # "none"
  BY <1>0 DEF Untouched
<1>3. CASE Crash("freed") \/ Crash("assert")
  <2>1. TypeOK'
    BY <1>0, <1>1, <1>3 DEF Crash, TypeOK, connVars, dataVars, refVars, threadVars
  <2> QED
    BY <1>0, <1>2, <1>3, <2>1 DEF Crash, Untouched, BytesInOrder, OutputWatched, Removal, connVars,
         dataVars, refVars
<1>4. CASE SendFunctor /\ Alive
  <2>1. Head(batch).m \in Messages /\ sendInLoop(Head(batch).m) /\ Head(batch).kind # "destroy"
    BY <1>1, <1>4, FunctorTypes DEF SendFunctor, Running
  <2>2. /\ out' \in Seq(Bytes) /\ wire' \in Seq(Bytes) /\ accepted' \in Seq(Bytes)
        /\ writing' \in BOOLEAN /\ queue' \in Seq(Functors)
        /\ crash' \in {"no", "assert", "freed", "deadlock"}
        /\ UNCHANGED <<state, reading, registered, shut>>
        /\ BytesInOrder' /\ OutputWatched'
        /\ HasDestroy(queue) => HasDestroy(queue')
    BY <2>1, SendKeeps
  <2>3. TypeOK'
    BY <1>0, <1>1, <2>2 DEF TypeOK, refVars, threadVars
  <2>4. Untouched' /\ Removal'
    BY <1>0, <1>1, <1>2, <2>1, <2>2 DEF Untouched, Removal, refVars
  <2> QED
    BY <2>2, <2>3, <2>4
<1>5. CASE ShutdownFunctor /\ Alive
  <2>1. /\ shut' = (shut \/ MayShut) /\ UNCHANGED <<connVars, dataVars, queue, crash>>
        /\ Head(batch).kind # "destroy"
    BY <1>5 DEF ShutdownFunctor, Running, shutdownInLoop
  <2>2. shut' \in BOOLEAN
    BY <2>1, Zenon
  <2>3. TypeOK'
    BY <1>0, <1>1, <2>1, <2>2 DEF TypeOK, connVars, dataVars, refVars, threadVars
  <2> QED
    BY <1>0, <1>1, <1>2, <2>1, <2>3 DEF Untouched, BytesInOrder, OutputWatched, Removal, connVars,
         dataVars, refVars
<1>6. CASE DestroyFunctor /\ ~Crash("assert")
  <2>1. /\ state' = "Disconnected"
        /\ reading' = FALSE /\ writing' = FALSE /\ registered' = FALSE
        /\ UNCHANGED <<dataVars, shut, queue, crash>>
    BY <1>6 DEF DestroyFunctor
  <2>2. TypeOK'
    BY <1>0, <1>1, <2>1 DEF TypeOK, States, dataVars, refVars, threadVars
  <2> QED
    BY <1>0, <2>1, <2>2 DEF Untouched, BytesInOrder, OutputWatched, Removal, dataVars
<1>7. CASE CompleteFunctor
  <2>1. /\ UNCHANGED <<connVars, dataVars, shut, queue, crash>>
        /\ Head(batch).kind # "destroy"
    BY <1>7 DEF CompleteFunctor, Running, netVars
  <2>2. TypeOK'
    BY <1>0, <1>1, <2>1 DEF TypeOK, connVars, dataVars, refVars, threadVars
  <2> QED
    BY <1>0, <1>1, <1>2, <2>1, <2>2 DEF Untouched, BytesInOrder, OutputWatched, Removal, connVars,
         dataVars, refVars
<1> QED
  BY <1>3, <1>4, <1>5, <1>6, <1>7 DEF SendFunctor, ShutdownFunctor

(* The other thread's calls: an assignment to state_, and queueInLoop(). *)
LEMMA ThreadCalls ==
  ASSUME ConnInv, ThreadSendQueues \/ ThreadShutdownSets \/ ThreadShutdownQueues, UNCHANGED setup
  PROVE  ConnInv'
<1> USE DEF ConnInv
<1>0. /\ crash = "no" /\ userRef /\ state # "none" /\ state' # "none"
      /\ UNCHANGED <<reading, writing, registered, dataVars, netVars, refVars, loopVars, unsent, crash>>
  BY DEF ThreadSendQueues, ThreadShutdownSets, ThreadShutdownQueues, ThreadAt, Untouched, connVars
<1>1. queue' \in Seq(Functors) /\ (HasDestroy(queue) => HasDestroy(queue'))
  <2>1. CASE ThreadSendQueues
    <3>1. PICK m \in tmsg : queue' = Append(queue, [kind |-> "send", m |-> m])
      BY <2>1 DEF ThreadSendQueues
    <3>2. [kind |-> "send", m |-> m] \in Functors /\ queue \in Seq(Functors)
      BY FunctorTypes DEF TypeOK
    <3> QED
      BY <3>1, <3>2, AppendKeeps
  <2>2. CASE ThreadShutdownQueues
    BY <2>2, FunctorTypes, AppendKeeps DEF ThreadShutdownQueues, TypeOK
  <2>3. CASE ThreadShutdownSets
    BY <2>3 DEF ThreadShutdownSets, TypeOK
  <2> QED
    BY <2>1, <2>2, <2>3
<1>2. /\ state' \in States /\ thread' \in {"idle", "send", "shutdown", "shutdownQueue"}
      /\ tmsg' \subseteq Messages
  BY DEF ThreadSendQueues, ThreadShutdownSets, ThreadShutdownQueues, TypeOK, States, connVars
<1>3. TypeOK'
  BY <1>0, <1>1, <1>2 DEF TypeOK, dataVars, netVars, refVars, loopVars
<1> QED
  BY <1>0, <1>1, <1>3 DEF Untouched, BytesInOrder, OutputWatched, Removal, dataVars, refVars, loopVars

LEMMA NextConn == ConnInv /\ [Next]_vars => ConnInv'
<1> SUFFICES ASSUME ConnInv, [Next]_vars PROVE ConnInv'
  OBVIOUS
<1>1. CASE Next
  <2>1. todo' \in Seq(Callbacks) /\ UNCHANGED setup
    BY <1>1, TodoType DEF ConnInv, Next
  <2> QED
    BY <1>1, <2>1, CalmStep, NewStep, UserSendStep, UserShutdownStep, CloseStep, WriteStep, BatchStep,
       FunctorStep, ThreadCalls DEF Next, LoopStep, ThreadStep
<1>2. CASE UNCHANGED vars
  BY <1>2 DEF ConnInv, TypeOK, Untouched, BytesInOrder, OutputWatched, Removal, HasDestroy, vars,
       moving, connVars, dataVars, netVars, refVars, loopVars, threadVars
<1> QED
  BY <1>1, <1>2

-----------------------------------------------------------------------------
(* A connection that only its loop's thread uses *)

LEMMA InitAlone == Init => AloneInv
<1>1. Len(<<>>) = 0 /\ DOMAIN <<>> = {}
  BY EmptySeq
<1> QED
  BY <1>1 DEF Init, AloneInv, LifeCycle, Shutdown, ClosesOnce, Live

LEMMA TailCloses ==
  ASSUME NEW s \in Seq(Callbacks), s # <<>>, ClosesOnce(s)
  PROVE  /\ ClosesOnce(Tail(s))
         /\ Head(s) \in Closing =>
              inMap /\ \A i \in DOMAIN Tail(s) : Tail(s)[i] \notin Closing
<1>1. /\ Tail(s) \in Seq(Callbacks) /\ Head(s) = s[1]
      /\ Len(s) \in Nat /\ Len(s) > 0 /\ Len(Tail(s)) = Len(s) - 1
      /\ \A i \in 1..Len(s) - 1 : Tail(s)[i] = s[i + 1]
  BY HeadTailProperties, EmptySeq
<1>2. DOMAIN s = 1..Len(s) /\ DOMAIN Tail(s) = 1..Len(s) - 1
  BY <1>1
<1>3. ClosesOnce(Tail(s))
  BY <1>1, <1>2 DEF ClosesOnce
<1>4. ASSUME Head(s) \in Closing
      PROVE  inMap /\ \A i \in DOMAIN Tail(s) : Tail(s)[i] \notin Closing
  <2>1. 1 \in DOMAIN s /\ s[1] \in Closing
    BY <1>1, <1>2, <1>4
  <2>2. \A i \in 1..Len(s) - 1 : i + 1 \in DOMAIN s /\ i + 1 # 1
    BY <1>1, <1>2
  <2> QED
    BY <1>1, <1>2, <2>1, <2>2 DEF ClosesOnce
<1> QED
  BY <1>3, <1>4

LEMMA UserBefore ==
  ASSUME NEW s \in Seq(Callbacks), ClosesOnce(s)
  PROVE  ClosesOnce(<<"user">> \o s) /\ ClosesOnce(s \o <<"user">>)
<1>1. Len(<<"user">>) = 1 /\ <<"user">>[1] = "user" /\ Len(s) \in Nat /\ DOMAIN s = 1..Len(s)
  OBVIOUS
<1>2. /\ <<"user">> \o s \in Seq(Callbacks) /\ s \o <<"user">> \in Seq(Callbacks)
      /\ Len(<<"user">> \o s) = Len(s) + 1 /\ Len(s \o <<"user">>) = Len(s) + 1
      /\ \A i \in 1..Len(s) + 1 : (<<"user">> \o s)[i] = IF i = 1 THEN "user" ELSE s[i - 1]
      /\ \A i \in 1..Len(s) + 1 : (s \o <<"user">>)[i] = IF i <= Len(s) THEN s[i] ELSE "user"
  BY CallbackTypes
<1>3. "user" \notin Closing
  BY DEF Closing
<1> DEFINE a == <<"user">> \o s
           b == s \o <<"user">>
<1>4. DOMAIN a = 1..Len(s) + 1 /\ DOMAIN b = 1..Len(s) + 1
  BY <1>2
<1>5. /\ \A i \in 1..Len(s) + 1 : a[i] = IF i = 1 THEN "user" ELSE s[i - 1]
      /\ \A i \in 1..Len(s) + 1 : b[i] = IF i <= Len(s) THEN s[i] ELSE "user"
  BY <1>2
<1> HIDE DEF a, b
<1>6. ClosesOnce(a)
  <2> SUFFICES ASSUME NEW i \in DOMAIN a, a[i] \in Closing
               PROVE  inMap /\ \A j \in DOMAIN a : a[j] \in Closing => j = i
    BY DEF ClosesOnce
  <2>1. i - 1 \in DOMAIN s /\ s[i - 1] \in Closing /\ i \in Int
    BY <1>1, <1>3, <1>4, <1>5
  <2>2. ASSUME NEW j \in DOMAIN a, a[j] \in Closing
        PROVE  j = i
    <3>1. j - 1 \in DOMAIN s /\ s[j - 1] \in Closing /\ j \in Int
      BY <1>1, <1>3, <1>4, <1>5, <2>2
    <3>2. j - 1 = i - 1
      BY <2>1, <3>1 DEF ClosesOnce
    <3> QED
      BY <2>1, <3>1, <3>2
  <2> QED
    BY <2>1, <2>2 DEF ClosesOnce
<1>7. ClosesOnce(b)
  <2> SUFFICES ASSUME NEW i \in DOMAIN b, b[i] \in Closing
               PROVE  inMap /\ \A j \in DOMAIN b : b[j] \in Closing => j = i
    BY DEF ClosesOnce
  <2>1. \A j \in DOMAIN b : b[j] \in Closing => j \in DOMAIN s /\ s[j] \in Closing
    BY <1>1, <1>3, <1>4, <1>5
  <2> QED
    BY <2>1 DEF ClosesOnce
<1> QED
  BY <1>6, <1>7 DEF a, b

LEMMA ReadyCloses ==
  ASSUME reading => inMap, NEW own \in Ready
  PROVE  ClosesOnce(own)
<1>1. \/ own = <<>>
      \/ own = <<"write">>
      \/ reading /\ (own = <<"read">> \/ own = <<"close">>)
      \/ reading /\ (own = <<"read", "write">> \/ own = <<"close", "write">>)
  BY DEF Ready
<1>2. CASE own = <<>> \/ own = <<"write">>
  BY <1>2 DEF ClosesOnce, Closing
<1>3. CASE reading /\ (own = <<"read">> \/ own = <<"close">>)
  BY <1>3 DEF ClosesOnce, Closing
<1>4. CASE reading /\ (own = <<"read", "write">> \/ own = <<"close", "write">>)
  <2>1. DOMAIN own = 1..2 /\ own[2] = "write"
    BY <1>4
  <2>2. \A i \in DOMAIN own : own[i] \in Closing => i = 1
    BY <2>1 DEF Closing
  <2> QED
    BY <1>4, <2>2 DEF ClosesOnce
<1> QED
  BY <1>1, <1>2, <1>3, <1>4

(* A callback that closes the connection finds it open. *)
LEMMA CloseIsOpen ==
  ASSUME ConnInv, LifeCycle, CloseCallback \/ ReadEnd
  PROVE  /\ MayClose /\ handleClose
         /\ todo' = Tail(todo) /\ \A i \in DOMAIN todo' : todo'[i] \notin Closing
<1>1. /\ todo \in Seq(Callbacks) /\ todo # <<>> /\ Head(todo) \in Closing
      /\ handleClose /\ todo' = Tail(todo)
  BY DEF CloseCallback, ReadEnd, Handling, handleClose, Closing, ConnInv, TypeOK
<1>2. inMap /\ \A i \in DOMAIN Tail(todo) : Tail(todo)[i] \notin Closing
  BY <1>1, TailCloses DEF LifeCycle
<1>3. MayClose
  BY <1>2 DEF MayClose, LifeCycle, Live
<1> QED
  BY <1>1, <1>2, <1>3

LEMMA TodoCloses ==
  ASSUME ConnInv, LifeCycle, Next, UNCHANGED inMap
  PROVE  ClosesOnce(todo')
<1>0. todo \in Seq(Callbacks) /\ ClosesOnce(todo)
  BY DEF ConnInv, TypeOK, LifeCycle
<1>1. CASE UserReturn \/ ReadError
  BY <1>0, <1>1, TailCloses DEF UserReturn, InUserCode, ReadError, Handling
<1>2. CASE ReadData
  <2>1. Tail(todo) \in Seq(Callbacks) /\ ClosesOnce(Tail(todo))
    BY <1>0, <1>2, TailCloses, HeadTailProperties DEF ReadData, Handling
  <2> QED
    BY <1>2, <2>1, UserBefore DEF ReadData
<1>3. CASE \E own \in Ready : Poll(own)
  <2>1. PICK own \in Ready : Poll(own)
    BY <1>3
  <2>2. own \in Seq(Callbacks) /\ ClosesOnce(own)
    BY ReadyTypes, ReadyCloses DEF LifeCycle
  <2> QED
    BY <2>1, <2>2, UserBefore DEF Poll, WithOthers
<1>4. CASE WriteSome \/ handleWrite(0)
  BY <1>0, <1>4, TailCloses DEF WriteSome, handleWrite, Handling
<1>5. CASE CompleteFunctor
  BY <1>5 DEF CompleteFunctor, ClosesOnce, Closing
<1>6. CASE UserSend \/ UserShutdown \/ BeginFunctors \/ SendFunctor \/ ShutdownFunctor
             \/ DestroyFunctor \/ EndFunctors
  BY <1>0, <1>6 DEF UserSend, UserShutdown, BeginFunctors, SendFunctor, ShutdownFunctor,
       DestroyFunctor, EndFunctors, loopVars
<1>7. CASE ThreadStep \/ DropRef \/ PeerCloses
  BY <1>0, <1>7 DEF ThreadStep, ThreadSend, ThreadSendQueues, ThreadShutdown, ThreadShutdownSets,
       ThreadShutdownQueues, DropRef, PeerCloses, loopVars
<1>8. ~newConnection
  BY DEF newConnection, ConnInv, Untouched
<1>9. ~(CloseCallback \/ ReadEnd)
  BY CloseIsOpen DEF handleClose, MayClose
<1> QED
  BY <1>1, <1>2, <1>3, <1>4, <1>5, <1>6, <1>7, <1>8, <1>9 DEF Next, LoopStep

(* The steps that change neither the functors nor the connection's place   *)
(* in its life cycle.                                                      *)
LEMMA SteadyAlone ==
  ASSUME ConnInv, LifeCycle, Next,
         UNCHANGED <<reading, registered, inMap, queue, batch, crash, thread>>,
         state' = state \/ (state \in Live /\ state' \in Live)
  PROVE  LifeCycle'
<1>1. ClosesOnce(todo')
  BY TodoCloses
<1>2. (ClosesOnce(todo))'
  BY <1>1 DEF ClosesOnce
<1> QED
  BY <1>2 DEF LifeCycle

LEMMA CalmAlone ==
  ASSUME ConnInv, LifeCycle, Shutdown, Next,
         UserReturn \/ ReadData \/ ReadError \/ (\E own \in Ready : Poll(own))
           \/ DropRef \/ PeerCloses
  PROVE  LifeCycle' /\ Shutdown'
<1>1. UNCHANGED <<connVars, dataVars, shut, inMap, batch, queue, crash, thread>>
  BY DEF UserReturn, ReadData, ReadError, Poll, DropRef, PeerCloses, netVars, refVars, loopVars, threadVars
<1>2. LifeCycle'
  BY <1>1, SteadyAlone DEF connVars
<1> QED
  BY <1>1, <1>2 DEF Shutdown, connVars, dataVars

LEMMA NewAlone ==
  ASSUME ConnInv, LifeCycle, newConnection
  PROVE  LifeCycle' /\ Shutdown'
<1>1. Untouched /\ state = "none"
  BY DEF ConnInv, newConnection
<1>2. /\ state' = "Connected" /\ reading' = TRUE /\ registered' = TRUE /\ inMap' = TRUE
      /\ todo' = <<"user">> /\ ~shut'
      /\ UNCHANGED <<batch, queue, thread, crash>>
  BY <1>1 DEF newConnection, establishConnection, netVars, threadVars, Untouched
<1>3. (ClosesOnce(todo))'
  BY <1>2 DEF ClosesOnce, Closing
<1>4. Len(queue) + Len(batch) = 0
  BY <1>1 DEF LifeCycle, Live
<1> QED
  BY <1>2, <1>3, <1>4 DEF LifeCycle, Shutdown, Live

(* Used this way, send() finds the channel registered and write_cmpl_cb_   *)
(* unset: nothing is asserted and nothing queued.                          *)
LEMMA UserSendAlone ==
  ASSUME ConnInv, Alone, LifeCycle, Shutdown, Next, UserSend
  PROVE  LifeCycle' /\ Shutdown'
<1>1. PICK m \in unsent : sendInLoop(m)
  BY DEF UserSend
<1>2. m \in Messages
  BY DEF ConnInv, TypeOK
<1>3. state = "Connected" /\ registered /\ UNCHANGED <<refVars, loopVars, threadVars>>
  BY DEF UserSend, LifeCycle, Live
<1>4. UNCHANGED <<state, reading, registered, shut, queue, crash>>
  BY <1>1, <1>2, <1>3, SendKeeps DEF ConnInv, Alone
<1>5. LifeCycle'
  BY <1>3, <1>4, SteadyAlone DEF refVars, loopVars, threadVars
<1> QED
  BY <1>3, <1>4, <1>5 DEF Shutdown

LEMMA UserShutdownAlone ==
  ASSUME ConnInv, LifeCycle, Shutdown, Next, UserShutdown
  PROVE  LifeCycle' /\ Shutdown'
<1>1. /\ state = "Connected" /\ state' = "Disconnecting"
      /\ UNCHANGED <<reading, writing, registered, dataVars, refVars, loopVars, queue, threadVars, crash>>
  BY DEF UserShutdown
<1>2. LifeCycle'
  BY <1>1, SteadyAlone DEF Live, refVars, loopVars, threadVars
<1>3. shut' => ~writing
  BY <1>1 DEF UserShutdown, shutdownInLoop, MayShut, Shutdown
<1> QED
  BY <1>1, <1>2, <1>3 DEF Shutdown, ConnInv, OutputWatched, dataVars

LEMMA CloseAlone ==
  ASSUME ConnInv, LifeCycle, Shutdown, CloseCallback \/ ReadEnd
  PROVE  LifeCycle' /\ Shutdown'
<1>1. /\ MayClose /\ handleClose
      /\ \A i \in DOMAIN todo' : todo'[i] \notin Closing
      /\ UNCHANGED <<batch, threadVars>>
  BY CloseIsOpen DEF CloseCallback, ReadEnd
<1>2. /\ ~reading' /\ ~inMap' /\ UNCHANGED <<state, registered, shut, crash>>
      /\ queue' = Append(queue, [kind |-> "destroy"])
  BY <1>1, CloseKeeps DEF ConnInv
<1>3. queue = <<>> /\ batch = <<>> /\ Len(queue) + Len(batch) = 0
  <2>1. /\ queue \in Seq(Functors) /\ batch \in Seq(Functors) /\ inMap
        /\ Len(queue) + Len(batch) = 0
    BY <1>1 DEF ConnInv, TypeOK, LifeCycle, MayClose
  <2> QED
    BY <2>1
<1>4. queue' = <<[kind |-> "destroy"]>>
  BY <1>2, <1>3
<1>5. /\ Len(queue') + Len(batch') = 1
      /\ \A i \in DOMAIN queue' : queue'[i].kind = "destroy"
      /\ \A i \in DOMAIN batch' : batch'[i].kind = "destroy"
  BY <1>1, <1>3, <1>4
<1>6. state \in Live
  BY <1>1 DEF MayClose, Live
<1>7. (ClosesOnce(todo))'
  BY <1>1 DEF ClosesOnce
<1> QED
  BY <1>1, <1>2, <1>5, <1>6, <1>7 DEF LifeCycle, Shutdown, threadVars

LEMMA WriteAlone ==
  ASSUME ConnInv, Alone, LifeCycle, Shutdown, Next, WriteSome \/ handleWrite(0)
  PROVE  LifeCycle' /\ Shutdown'
<1>0. PICK n \in 0..Len(out) : handleWrite(n)
  <2>1. Len(out) \in Nat
    BY DEF ConnInv, TypeOK
  <2> QED
    BY <2>1 DEF WriteSome
<1>1. /\ UNCHANGED <<state, reading, registered, queue, crash>>
      /\ shut' # shut => state = "Disconnecting" /\ out' = <<>>
      /\ out = <<>> => out' = <<>>
  BY <1>0, WriteKeeps DEF ConnInv, Alone
<1>2. UNCHANGED <<inMap, batch, thread>>
  BY <1>0 DEF handleWrite, refVars, threadVars
<1>3. LifeCycle'
  BY <1>1, <1>2, SteadyAlone
<1> QED
  BY <1>1, <1>3 DEF Shutdown

LEMMA FunctorAlone ==
  ASSUME ConnInv, LifeCycle, Shutdown, Next,
         BeginFunctors \/ SendFunctor \/ ShutdownFunctor \/ DestroyFunctor \/ CompleteFunctor
           \/ EndFunctors
  PROVE  LifeCycle' /\ Shutdown'
<1>0. queue \in Seq(Functors) /\ batch \in Seq(Functors)
  BY DEF ConnInv, TypeOK
<1>1. CASE BeginFunctors
  <2>1. /\ batch = <<>> /\ batch' = queue /\ queue' = <<>>
        /\ UNCHANGED <<connVars, dataVars, shut, inMap, todo, crash, thread>>
    BY <1>1 DEF BeginFunctors, ConnInv, Removal, netVars, refVars, threadVars
  <2>2. Len(queue') + Len(batch') = Len(queue) + Len(batch) /\ DOMAIN queue' = {}
    BY <1>0, <2>1
  <2>3. (ClosesOnce(todo))'
    BY <2>1 DEF LifeCycle, ClosesOnce
  <2> QED
    BY <2>1, <2>2, <2>3 DEF LifeCycle, Shutdown, connVars, dataVars
<1>2. CASE EndFunctors
  <2>1. UNCHANGED <<connVars, dataVars, shut, inMap, batch, queue, crash, thread>>
    BY <1>2 DEF EndFunctors, netVars, refVars, threadVars
  <2>2. LifeCycle'
    BY <2>1, SteadyAlone DEF connVars
  <2> QED
    BY <2>1, <2>2 DEF Shutdown, connVars, dataVars
<1>3. CASE SendFunctor \/ ShutdownFunctor \/ DestroyFunctor \/ CompleteFunctor
  <2>1. batch # <<>> /\ batch' = Tail(batch)
    BY <1>3 DEF SendFunctor, ShutdownFunctor, DestroyFunctor, CompleteFunctor, Running
  <2>2. Head(batch).kind = "destroy" /\ Len(batch) >= 1
    <3>1. Len(batch) >= 1 /\ 1 \in DOMAIN batch /\ Head(batch) = batch[1]
      BY <1>0, <2>1
    <3> QED
      BY <3>1 DEF LifeCycle
  <2>3. DestroyFunctor
    BY <1>3, <2>2 DEF SendFunctor, ShutdownFunctor, CompleteFunctor, Running
  <2>4. state \in Live /\ ~inMap /\ Len(queue) = 0 /\ Len(batch) = 1
    <3>1. Len(queue) + Len(batch) = IF state \in Live /\ ~inMap THEN 1 ELSE 0
      BY DEF LifeCycle
    <3>2. Len(queue) \in Nat /\ Len(batch) \in Nat
      BY <1>0
    <3>3. CASE state \in Live /\ ~inMap
      <4>1. Len(queue) + Len(batch) = 1
        BY <3>1, <3>3
      <4>2. Len(queue) = 0 /\ Len(batch) = 1
        <5> DEFINE q == Len(queue)
                   b == Len(batch)
        <5>1. q \in Nat /\ b \in Nat /\ q + b = 1 /\ b >= 1
          BY <2>2, <3>2, <4>1
        <5> HIDE DEF q, b
        <5>2. q = 0 /\ b = 1
          BY <5>1
        <5> QED
          BY <5>2 DEF q, b
      <4> QED
        BY <3>3, <4>2
    <3>4. CASE ~(state \in Live /\ ~inMap)
      <4>1. Len(queue) + Len(batch) = 0
        BY <3>1, <3>4
      <4> QED
        BY <2>2, <3>2, <4>1
    <3> QED
      BY <3>3, <3>4
  <2>5. /\ state' = "Disconnected"
        /\ reading' = FALSE /\ writing' = FALSE /\ registered' = FALSE
        /\ UNCHANGED <<queue, crash, inMap, todo, thread>>
    BY <2>3, <2>4 DEF DestroyFunctor, WatchedOnRemoval, Live, refVars, threadVars
  <2>6. batch' = <<>> /\ Len(queue') + Len(batch') = 0 /\ DOMAIN batch' = {}
    BY <1>0, <2>1, <2>4, <2>5
  <2>7. (ClosesOnce(todo))'
    BY <2>5 DEF LifeCycle, ClosesOnce
  <2> QED
    BY <2>4, <2>5, <2>6, <2>7 DEF LifeCycle, Shutdown, Live
<1> QED
  BY <1>1, <1>2, <1>3

LEMMA NextAlone == ConnInv /\ AloneInv /\ [Next]_vars => AloneInv'
<1> SUFFICES ASSUME ConnInv, AloneInv, [Next]_vars, Alone' PROVE LifeCycle' /\ Shutdown'
  BY DEF AloneInv
<1>1. CASE Next
  <2>1. Alone /\ LifeCycle /\ Shutdown
    BY <1>1 DEF Next, Alone, AloneInv
  <2>2. CASE ThreadStep
    BY <2>1, <2>2 DEF ThreadStep, ThreadSend, ThreadSendQueues, ThreadShutdown, ThreadShutdownSets,
         ThreadShutdownQueues, ThreadAt, Alone, LifeCycle
  <2> QED
    BY <1>1, <2>1, <2>2, CalmAlone, NewAlone, UserSendAlone, UserShutdownAlone, CloseAlone,
       WriteAlone, FunctorAlone DEF Next, LoopStep
<1>2. CASE UNCHANGED vars
  BY <1>2 DEF Alone, AloneInv, LifeCycle, ClosesOnce, Shutdown, vars, moving, connVars, dataVars,
       netVars, refVars, loopVars, threadVars
<1> QED
  BY <1>1, <1>2

-----------------------------------------------------------------------------
(* The theorems *)

LEMMA Inductive == Spec => [](ConnInv /\ AloneInv)
<1>1. Init => ConnInv /\ AloneInv
  BY InitConn, InitAlone
<1>2. ConnInv /\ AloneInv /\ [Next]_vars => (ConnInv /\ AloneInv)'
  BY NextConn, NextAlone
<1> QED
  BY <1>1, <1>2, PTL DEF Spec

(* Every variable of the connection keeps its type; of the functors in the *)
(* queue and in the batch each send has its message.                       *)
THEOREM TypeCorrect == Spec => []TypeOK
<1>1. ConnInv => TypeOK
  BY DEF ConnInv
<1> QED
  BY <1>1, Inductive, PTL

(* No byte of send() is lost, doubled or overtaken on its way through the  *)
(* direct write(2), output_buffer_ and handleWrite(), for any messages,    *)
(* any results of write(2) and any other thread that sends.                *)
THEOREM StreamInOrder == Spec => []BytesInOrder
<1>1. ConnInv => BytesInOrder
  BY DEF ConnInv
<1> QED
  BY <1>1, Inductive, PTL

(* While the connection is polled, its WriteEvent is enabled exactly when  *)
(* output_buffer_ is not empty, whoever uses the connection.               *)
THEOREM WatchesOutput == Spec => []OutputWatched
<1>1. ConnInv => OutputWatched
  BY DEF ConnInv
<1> QED
  BY <1>1, Inductive, PTL

(* The Poller never keeps the Channel* of a freed connection: from         *)
(* removeConnection() to removeChannel() the functor that was queued, and  *)
(* then the batch it is in, keep the connection alive.                     *)
THEOREM NoDanglingChannel == Spec => []RegisteredAlive
<1>1. ConnInv => RegisteredAlive
  BY DEF ConnInv, Removal, HasDestroy, RegisteredAlive, Alive, KeepsRef
<1> QED
  BY <1>1, Inductive, PTL

(* A connection that only callbacks in its loop's thread use fails no      *)
(* assertion, is not used after it was freed and does not block its loop.  *)
THEOREM SafeAlone == Spec => []AloneNoCrash
<1>1. AloneInv => AloneNoCrash
  BY DEF AloneInv, LifeCycle, AloneNoCrash, NoCrash
<1> QED
  BY <1>1, Inductive, PTL

(* Such a connection closes its write side only after all that send() took *)
(* has been written.                                                       *)
THEOREM ShutdownIsGraceful == Spec => []GracefulShutdown
<1>1. ConnInv /\ AloneInv => GracefulShutdown
  <2> SUFFICES ASSUME ConnInv, AloneInv, Alone, shut, reading PROVE wire = accepted
    BY DEF GracefulShutdown
  <2>1. out = <<>> /\ wire \in Seq(Bytes) /\ wire \o out = accepted
    BY DEF AloneInv, Shutdown, ConnInv, TypeOK, BytesInOrder
  <2> QED
    BY <2>1, ConcatEmptySeq
<1> QED
  BY <1>1, Inductive, PTL
=============================================================================
