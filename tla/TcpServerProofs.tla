--------------------------- MODULE TcpServerProofs ---------------------------
(***************************************************************************)
(* Proofs about TcpServer, for any clients, any number of descriptors and  *)
(* any setThreadNum().                                                     *)
(***************************************************************************)
EXTENDS TcpServer, SequenceTheorems, TLAPS

-----------------------------------------------------------------------------
(* The invariants *)

Counters ==
  sent \in [Clients -> Nat] /\ up \in [Clients -> Nat] /\ got \in [Clients -> Nat]

(* An accept event that is still to be handled has a connection to accept: *)
(* only its own handler takes one.                                         *)
AcceptReady == <<Listener, "read">> \in active => backlog # <<>>

(* A client sends once, and only after it has connected; until it closes,  *)
(* no byte of it disappears.                                               *)
EchoOK(c) ==
  /\ sent[c] \in {0, Bytes[c]}
  /\ client[c] = "new" => sent[c] = 0
  /\ client[c] # "closed" => sent[c] = up[c] + out[c] + down[c] + got[c]

EchoInv == TypeOK /\ Counters /\ AcceptReady /\ \A c \in Clients : EchoOK(c)

(* c is among the destroyConnection() functors, in the backlog. *)
Destroys(s, c) == \E i \in DOMAIN s : s[i] = <<"destroy", c>>
Holds(s, c) == \E i \in DOMAIN s : s[i] = c

DestroysOnce(s) ==
  \A i, j \in DOMAIN s : s[i] = s[j] /\ s[i][1] = "destroy" => i = j

(* The life of a connection: in the backlog, in connections_ and polled,   *)
(* in a queued functor, in a functor of the batch, in the vector of        *)
(* executed functors, gone.                                                *)
ConnOK(c) ==
  /\ c \in reading <=> InMap(connections, c)
  /\ state[c] = "Connected" <=>
       InMap(connections, c) \/ Destroys(queue, c) \/ Destroys(batch, c)
  /\ ~(InMap(connections, c) /\ (Destroys(queue, c) \/ Destroys(batch, c)))
  /\ ~(Destroys(queue, c) /\ Destroys(batch, c))
  /\ Destroys(batch, c) => c \in held
  /\ c \in held => Destroys(batch, c) \/ state[c] = "Disconnected"
  /\ fd[c] # NoFd <=> state[c] = "Connected" \/ c \in held
  /\ state[c] = "Connected" => fd[c] \in DOMAIN channel_map /\ channel_map[fd[c]] = c
  /\ Holds(backlog, c) => state[c] = "none"
  /\ client[c] = "new" => state[c] = "none" /\ ~Holds(backlog, c)
  /\ <<c, "read">> \in active => c \in reading

NamesOK == \A k \in DOMAIN connections : name[connections[k]] = k

ChannelsOK ==
  \A f \in DOMAIN channel_map :
    state[channel_map[f]] = "Connected" /\ fd[channel_map[f]] = f

FdsApart == \A c, d \in Clients : fd[c] = fd[d] /\ fd[c] # NoFd => c = d

QueuesOK ==
  /\ DestroysOnce(queue) /\ DestroysOnce(batch)
  /\ \A i, j \in DOMAIN backlog : backlog[i] = backlog[j] => i = j
  /\ phase # "functors" => batch = <<>> /\ held = {}

LifeInv ==
  /\ crash = "no"
  /\ \A c \in Clients : ConnOK(c)
  /\ NamesOK /\ ChannelsOK /\ FdsApart /\ QueuesOK

(* With I/O threads the first connection ends the process. *)
ServerInv ==
  \/ LifeInv
  \/ NumThreads # 0 /\ crash = "thread" /\ DescriptorsApart

-----------------------------------------------------------------------------
(* The model's operators *)

LEMMA Distinct ==
  /\ Listener \notin Clients
  /\ SendBuf \in Nat \ {0} /\ MaxFds \in Nat \ {0} /\ NumThreads \in Nat
  /\ Bytes \in [Clients -> Nat] /\ \A c \in Clients : Bytes[c] \in Nat
  /\ NoFd \notin Fds
  BY ServerAssumption DEF NoFd, Fds

LEMMA TakenBounds ==
  ASSUME TypeOK, NEW c \in Clients, NEW n \in Nat, NEW w \in Taken(c, n)
  PROVE  w \in Nat /\ w <= n /\ down[c] + w \in 0..SendBuf
<1>1. down[c] \in 0..SendBuf /\ SendBuf \in Nat
  BY ServerAssumption DEF TypeOK
<1>2. Fits(c, n) \in Nat /\ Fits(c, n) <= n /\ down[c] + Fits(c, n) \in 0..SendBuf
  BY <1>1 DEF Fits
<1>3. w = 0 \/ w = Fits(c, n)
  BY DEF Taken
<1> QED
  BY <1>1, <1>2, <1>3

LEMMA ZeroSum ==
  \A a, b, c, d \in Nat : 0 = a + b + c + d => a = 0 /\ b = 0 /\ c = 0 /\ d = 0
  OBVIOUS

LEMMA PutMap ==
  ASSUME NEW D, NEW f, NEW k, NEW v \in Clients,
         DOMAIN f \subseteq D, f \in [DOMAIN f -> Clients], k \in D
  PROVE  /\ DOMAIN Put(f, k, v) \subseteq D
         /\ Put(f, k, v) \in [DOMAIN Put(f, k, v) -> Clients]
         /\ DOMAIN Put(f, k, v) = DOMAIN f \cup {k}
         /\ Put(f, k, v)[k] = v
         /\ \A x \in DOMAIN f : x # k => Put(f, k, v)[x] = f[x]
  BY DEF Put

LEMMA WithoutMap ==
  ASSUME NEW D, NEW f, NEW k, DOMAIN f \subseteq D, f \in [DOMAIN f -> Clients]
  PROVE  /\ DOMAIN Without(f, k) \subseteq D
         /\ Without(f, k) \in [DOMAIN Without(f, k) -> Clients]
         /\ DOMAIN Without(f, k) = DOMAIN f \ {k}
         /\ \A x \in DOMAIN f \ {k} : Without(f, k)[x] = f[x]
  BY DEF Without

LEMMA FunctorTypes ==
  /\ <<"listen", Listener>> \in Functors
  /\ \A c \in Clients : <<"destroy", c>> \in Functors
  /\ \A f \in Functors : f[1] = "destroy" => f[2] \in Clients /\ f = <<"destroy", f[2]>>
  BY DEF Functors

LEMMA ReadyEvents ==
  /\ Ready \subseteq Events
  /\ <<Listener, "read">> \in Ready => backlog # <<>>
  /\ \A c \in Clients : <<c, "read">> \in Ready => c \in reading
<1>1. Ready \subseteq Events
  BY DEF Ready, Events
<1>2. <<Listener, "read">> \in Ready => backlog # <<>>
  BY Distinct DEF Ready
<1>3. \A c \in Clients : <<c, "read">> \in Ready => c \in reading
  BY Distinct DEF Ready, Readable
<1> QED
  BY <1>1, <1>2, <1>3

LEMMA Emptiness ==
  /\ DOMAIN Empty = {} /\ Empty \in [DOMAIN Empty -> Clients]
  BY DEF Empty

LEMMA InitEcho == Init => EchoInv
<1> SUFFICES ASSUME Init PROVE EchoInv
  OBVIOUS
<1>1. queue \in Seq(Functors) /\ batch \in Seq(Functors) /\ backlog \in Seq(Clients)
  BY EmptySeq DEF Init
<1>2. /\ DOMAIN connections \subseteq 1..(next_conn_id - 1)
      /\ connections \in [DOMAIN connections -> Clients]
      /\ DOMAIN channel_map \subseteq Fds
      /\ channel_map \in [DOMAIN channel_map -> Clients]
  BY Emptiness DEF Init
<1>3. \A c \in Clients : {sent[c], up[c], got[c]} \subseteq 0..Bytes[c]
  <2> SUFFICES ASSUME NEW c \in Clients PROVE {sent[c], up[c], got[c]} \subseteq 0..Bytes[c]
    OBVIOUS
  <2>1. sent[c] = 0 /\ up[c] = 0 /\ got[c] = 0
    BY DEF Init
  <2>2. 0 \in 0..Bytes[c]
    BY Distinct
  <2> QED
    BY <2>1, <2>2
<1>4. Counters /\ down \in [Clients -> 0..SendBuf]
  BY Distinct DEF Init, Counters
<1>5. TypeOK
  <2>1. started \in BOOLEAN /\ listenning \in BOOLEAN
    BY DEF Init
  <2>5. next_conn_id \in Nat \ {0} /\ next_loop \in Nat /\ name \in [Clients -> Nat]
    BY DEF Init
  <2>2. /\ state \in [Clients -> {"none", "Connected", "Disconnected"}]
        /\ fd \in [Clients -> Fds \cup {NoFd}]
        /\ client \in [Clients -> {"new", "open", "closed"}]
    BY Zenon DEF Init
  <2>4. reading \subseteq Clients /\ writing \subseteq Clients /\ out \in [Clients -> Nat]
    BY DEF Init
  <2>3. /\ phase \in {"main", "starting", "started", "poll", "handle", "functors"}
        /\ active \subseteq Events /\ held \subseteq Clients /\ rst \subseteq Clients
        /\ crash \in {"no", "assert", "thread"}
    BY DEF Init
  <2> QED
    BY <1>1, <1>2, <1>3, <1>4, <2>1, <2>2, <2>3, <2>4, <2>5 DEF TypeOK
<1>6. \A c \in Clients : EchoOK(c)
  <2> SUFFICES ASSUME NEW c \in Clients PROVE EchoOK(c)
    OBVIOUS
  <2>1. sent[c] = 0 /\ up[c] = 0 /\ got[c] = 0 /\ out[c] = 0 /\ down[c] = 0
    BY DEF Init
  <2> QED
    BY <2>1 DEF EchoOK
<1> QED
  BY <1>4, <1>5, <1>6 DEF EchoInv, AcceptReady, Init

-----------------------------------------------------------------------------
(* Types and bytes: one step *)

counts == <<out, client, sent, up, got, down>>

(* A step that moves no bytes. *)
LEMMA NoBytes ==
  ASSUME EchoInv, TypeOK', AcceptReady', UNCHANGED counts
  PROVE  EchoInv'
  BY DEF EchoInv, Counters, EchoOK, counts

LEMMA StartEcho ==
  ASSUME EchoInv, start \/ startListens \/ loop \/ startAgain
  PROVE  EchoInv'
<1>1. UNCHANGED <<counts, backlog, active>>
  BY DEF start, startListens, loop, startAgain, clientVars, counts, loopVars
<1>2. queue' \in Seq(Functors)
  <2>1. queue \in Seq(Functors) /\ Append(queue, <<"listen", Listener>>) \in Seq(Functors)
    BY FunctorTypes, AppendProperties DEF EchoInv, TypeOK
  <2> QED
    BY <2>1 DEF start, startListens, loop, startAgain
<1>3. TypeOK'
  BY <1>1, <1>2 DEF start, startListens, loop, startAgain, listen, EchoInv, TypeOK, counts, serverVars,
       connVars, loopVars, clientVars
<1>4. AcceptReady'
  BY <1>1 DEF EchoInv, AcceptReady
<1> QED
  BY <1>1, <1>3, <1>4, NoBytes

LEMMA PollEcho ==
  ASSUME EchoInv, Poll
  PROVE  EchoInv'
<1>1. UNCHANGED <<counts, backlog>> /\ active' = Ready
  BY DEF Poll, clientVars, counts
<1>2. TypeOK'
  BY <1>1, ReadyEvents DEF Poll, EchoInv, TypeOK, counts, serverVars, connVars, clientVars
<1>3. AcceptReady'
  BY <1>1, ReadyEvents DEF AcceptReady
<1> QED
  BY <1>1, <1>2, <1>3, NoBytes

(* What an accept event takes from the backlog. *)
LEMMA BacklogType ==
  ASSUME EchoInv, Handling(Listener, "read")
  PROVE  /\ backlog \in Seq(Clients) /\ backlog # <<>>
         /\ Head(backlog) \in Clients /\ Tail(backlog) \in Seq(Clients)
         /\ active' \subseteq Events /\ <<Listener, "read">> \notin active'
<1>1. backlog \in Seq(Clients) /\ backlog # <<>>
  BY DEF EchoInv, TypeOK, AcceptReady, Handling
<1>2. active' \subseteq Events /\ <<Listener, "read">> \notin active'
  BY DEF EchoInv, TypeOK, Handling
<1> QED
  BY <1>1, <1>2, HeadTailProperties

LEMMA AcceptFailsEcho ==
  ASSUME EchoInv, acceptFails
  PROVE  EchoInv'
<1>1. /\ backlog \in Seq(Clients) /\ Tail(backlog) \in Seq(Clients)
      /\ active' \subseteq Events /\ <<Listener, "read">> \notin active'
  BY BacklogType DEF acceptFails
<1>2. UNCHANGED counts /\ backlog' \in Seq(Clients)
  BY <1>1 DEF acceptFails, clientVars, counts
<1>3. TypeOK'
  BY <1>1, <1>2 DEF acceptFails, EchoInv, TypeOK, counts, serverVars, connVars, clientVars
<1>4. AcceptReady'
  BY <1>1 DEF AcceptReady
<1> QED
  BY <1>2, <1>3, <1>4, NoBytes

LEMMA AcceptEcho ==
  ASSUME EchoInv, handleAccept
  PROVE  EchoInv'
<1>0. PICK f \in Fds :
        /\ newConnection(Head(backlog), f)
        /\ fd' = [c \in Clients |-> IF c = Head(backlog) THEN f
                                    ELSE IF Alive(c)' THEN fd[c] ELSE NoFd]
  BY DEF handleAccept
<1>1. /\ backlog' \in Seq(Clients) /\ Head(backlog) \in Clients
      /\ active' \subseteq Events /\ <<Listener, "read">> \notin active'
      /\ UNCHANGED <<counts, started, listenning, writing, phase, batch, rst, held, queue>>
  BY BacklogType DEF handleAccept, clientVars, counts
<1> DEFINE c == Head(backlog)
<1>2. /\ next_conn_id \in Nat \ {0} /\ next_conn_id' = next_conn_id + 1
      /\ connections' = Put(connections, next_conn_id, c)
      /\ DOMAIN connections \subseteq 1..(next_conn_id - 1)
      /\ connections \in [DOMAIN connections -> Clients]
  BY <1>0 DEF newConnection, NextId, EchoInv, TypeOK
<1>3. /\ DOMAIN connections' \subseteq 1..(next_conn_id' - 1)
      /\ connections' \in [DOMAIN connections' -> Clients]
  <2>1. /\ DOMAIN connections \subseteq 1..(next_conn_id' - 1)
        /\ next_conn_id \in 1..(next_conn_id' - 1)
    BY <1>2
  <2>2. /\ DOMAIN Put(connections, next_conn_id, c) \subseteq 1..(next_conn_id' - 1)
        /\ Put(connections, next_conn_id, c)
             \in [DOMAIN Put(connections, next_conn_id, c) -> Clients]
    BY <1>1, <1>2, <2>1, PutMap, Zenon
  <2> QED
    BY <1>2, <2>2, Zenon
<1>4. /\ DOMAIN channel_map' \subseteq Fds
      /\ channel_map' \in [DOMAIN channel_map' -> Clients]
  <2>1. DOMAIN channel_map \subseteq Fds /\ channel_map \in [DOMAIN channel_map -> Clients]
    BY DEF EchoInv, TypeOK
  <2>2. channel_map' = channel_map \/ channel_map' = Put(channel_map, f, c)
    BY <1>0 DEF newConnection
  <2>3. /\ DOMAIN Put(channel_map, f, c) \subseteq Fds
        /\ Put(channel_map, f, c) \in [DOMAIN Put(channel_map, f, c) -> Clients]
    BY <1>1, <2>1, PutMap, Zenon
  <2> QED
    BY <2>1, <2>2, <2>3, Zenon
<1>5. next_loop' \in Nat
  <2>1. NumThreads = 0 => next_loop' = 0
    BY <1>0 DEF newConnection
  <2>2. NumThreads # 0 => next_loop' = (next_loop + 1) % NumThreads
    BY <1>0 DEF newConnection
  <2>3. next_loop \in Nat /\ NumThreads \in Nat
    BY Distinct DEF EchoInv, TypeOK
  <2>4. NumThreads # 0 => (next_loop + 1) % NumThreads \in Nat
    BY <2>3
  <2> QED
    BY <2>1, <2>2, <2>4
<1>6. /\ name' \in [Clients -> Nat] /\ fd' \in [Clients -> Fds \cup {NoFd}]
      /\ state' \in [Clients -> {"none", "Connected", "Disconnected"}]
      /\ reading' \subseteq Clients /\ crash' \in {"no", "assert", "thread"}
  <2>1. name' \in [Clients -> Nat]
    BY <1>0, <1>2 DEF newConnection, EchoInv, TypeOK
  <2>2. fd' \in [Clients -> Fds \cup {NoFd}]
    BY <1>0 DEF EchoInv, TypeOK
  <2>3. /\ state' \in [Clients -> {"none", "Connected", "Disconnected"}]
        /\ reading' \subseteq Clients /\ crash' \in {"no", "assert", "thread"}
    BY <1>0, <1>1 DEF newConnection, EchoInv, TypeOK
  <2> QED
    BY <2>1, <2>2, <2>3
<1>7. TypeOK'
  <2>1. next_conn_id' \in Nat \ {0}
    BY <1>2
  <2>2. /\ started' \in BOOLEAN /\ listenning' \in BOOLEAN /\ writing' \subseteq Clients
        /\ out' \in [Clients -> Nat]
        /\ phase' \in {"main", "starting", "started", "poll", "handle", "functors"}
        /\ queue' \in Seq(Functors) /\ batch' \in Seq(Functors) /\ held' \subseteq Clients
        /\ client' \in [Clients -> {"new", "open", "closed"}] /\ rst' \subseteq Clients
        /\ \A d \in Clients : {sent'[d], up'[d], got'[d]} \subseteq 0..Bytes[d]
        /\ down' \in [Clients -> 0..SendBuf]
    BY <1>1 DEF EchoInv, TypeOK, counts
  <2> QED
    BY <1>1, <1>3, <1>4, <1>5, <1>6, <2>1, <2>2 DEF TypeOK
<1>8. AcceptReady'
  BY <1>1 DEF AcceptReady
<1> QED
  BY <1>1, <1>7, <1>8, NoBytes

(* Handling an event of a connection leaves the accept event alone. *)
LEMMA HandlingActive ==
  ASSUME EchoInv, NEW c \in Clients, NEW cb, Handling(c, cb), UNCHANGED backlog
  PROVE  active' \subseteq Events /\ AcceptReady'
  BY DEF EchoInv, TypeOK, Handling, AcceptReady

LEMMA ReadDataEcho ==
  ASSUME EchoInv, NEW c \in Clients, ReadData(c)
  PROVE  EchoInv'
<1>0. PICK n \in 1..up[c] : up' = [up EXCEPT ![c] = @ - n] /\ send(c, n)
  BY DEF ReadData
<1>1. PICK w \in (IF c \notin writing /\ out[c] = 0 THEN Taken(c, n) ELSE {0}) :
        /\ down' = [down EXCEPT ![c] = @ + w]
        /\ KeepsRest(c, n, w) /\ WatchesRest(c, n, w)
  BY <1>0 DEF send
<1>2. /\ TypeOK /\ Counters /\ \A d \in Clients : EchoOK(d)
      /\ up \in [Clients -> Nat] /\ out \in [Clients -> Nat] /\ down \in [Clients -> 0..SendBuf]
      /\ got \in [Clients -> Nat] /\ sent \in [Clients -> Nat]
      /\ Bytes[c] \in Nat /\ SendBuf \in Nat
  BY Distinct DEF EchoInv, TypeOK, Counters
<1>3. n \in Nat /\ n <= up[c] /\ up[c] \in Nat /\ up[c] <= Bytes[c]
  <2>1. up[c] \in 0..Bytes[c]
    BY DEF EchoInv, TypeOK
  <2> QED
    BY <1>2, <2>1
<1>4. w \in Nat /\ w <= n /\ down[c] + w \in 0..SendBuf
  <2>1. CASE c \notin writing /\ out[c] = 0
    BY <1>1, <1>2, <1>3, <2>1, TakenBounds
  <2>2. CASE ~(c \notin writing /\ out[c] = 0)
    BY <1>1, <1>2, <1>3, <2>2
  <2> QED
    BY <2>1, <2>2
<1>5. /\ up' = [up EXCEPT ![c] = up[c] - n] /\ down' = [down EXCEPT ![c] = down[c] + w]
      /\ out' = [out EXCEPT ![c] = out[c] + (n - w)]
      /\ writing' \subseteq Clients
      /\ UNCHANGED <<serverVars, listenning, state, fd, channel_map, reading, phase, batch, held,
                     queue, backlog, client, rst, sent, got, crash>>
  BY <1>0, <1>1 DEF KeepsRest, WatchesRest, ReadData, EchoInv, TypeOK
<1>6. /\ up[c] - n \in 0..Bytes[c] /\ out[c] + (n - w) \in Nat
      /\ up' \in [Clients -> Nat] /\ out' \in [Clients -> Nat] /\ down' \in [Clients -> 0..SendBuf]
  BY <1>2, <1>3, <1>4, <1>5
<1>7. \A d \in Clients : {sent'[d], up'[d], got'[d]} \subseteq 0..Bytes[d]
  <2> SUFFICES ASSUME NEW d \in Clients PROVE {sent'[d], up'[d], got'[d]} \subseteq 0..Bytes[d]
    OBVIOUS
  <2>1. {sent[d], up[d], got[d]} \subseteq 0..Bytes[d]
    BY DEF EchoInv, TypeOK
  <2>2. sent'[d] = sent[d] /\ got'[d] = got[d] /\ up'[d] = IF d = c THEN up[c] - n ELSE up[d]
    BY <1>2, <1>5
  <2> QED
    BY <1>6, <2>1, <2>2
<1>8. active' \subseteq Events /\ AcceptReady'
  BY <1>5, HandlingActive DEF ReadData
<1>9. TypeOK'
  BY <1>5, <1>6, <1>7, <1>8 DEF EchoInv, TypeOK, serverVars
<1>10. \A d \in Clients : EchoOK(d)'
  <2>1. /\ EchoOK(c) /\ sent[c] \in Nat /\ out[c] \in Nat /\ down[c] \in Nat /\ got[c] \in Nat
        /\ up[c] + out[c] + down[c] + got[c] =
             (up[c] - n) + (out[c] + (n - w)) + (down[c] + w) + got[c]
    BY <1>2, <1>3, <1>4
  <2>2. EchoOK(c)'
    BY <1>2, <1>5, <2>1 DEF EchoOK
  <2>3. \A d \in Clients : d # c => EchoOK(d)'
    BY <1>2, <1>5 DEF EchoOK
  <2> QED
    BY <2>2, <2>3
<1>11. Counters'
  BY <1>2, <1>5, <1>6 DEF Counters
<1> QED
  BY <1>8, <1>9, <1>10, <1>11 DEF EchoInv

LEMMA WriteEcho ==
  ASSUME EchoInv, NEW c \in Clients, handleWrite(c)
  PROVE  EchoInv'
<1>1. active' \subseteq Events /\ AcceptReady'
  BY HandlingActive DEF handleWrite
<1>2. UNCHANGED <<serverVars, listenning, state, fd, channel_map, reading, phase, batch, held, queue,
                  backlog, clientVars, crash>>
  BY DEF handleWrite
<1>3. CASE c \notin writing
  <2>1. UNCHANGED <<out, down, writing>>
    BY <1>3 DEF handleWrite
  <2>2. TypeOK'
    BY <1>1, <1>2, <2>1 DEF EchoInv, TypeOK, serverVars, clientVars
  <2> QED
    BY <1>1, <1>2, <2>1, <2>2, NoBytes DEF counts, clientVars
<1>4. CASE c \in writing
  <2>0. PICK w \in Taken(c, out[c]) :
          /\ out' = [out EXCEPT ![c] = @ - w]
          /\ down' = [down EXCEPT ![c] = @ + w]
          /\ DisableWhenDone(c, w)
    BY <1>4 DEF handleWrite
  <2>1. /\ TypeOK /\ Counters /\ \A d \in Clients : EchoOK(d)
        /\ up \in [Clients -> Nat] /\ out \in [Clients -> Nat] /\ down \in [Clients -> 0..SendBuf]
        /\ got \in [Clients -> Nat] /\ sent \in [Clients -> Nat] /\ SendBuf \in Nat
    BY Distinct DEF EchoInv, TypeOK, Counters
  <2>2. w \in Nat /\ w <= out[c] /\ out[c] \in Nat /\ down[c] + w \in 0..SendBuf
    BY <2>0, <2>1, TakenBounds
  <2>3. /\ out' = [out EXCEPT ![c] = out[c] - w] /\ down' = [down EXCEPT ![c] = down[c] + w]
        /\ writing' \subseteq Clients
    BY <2>0, <2>1 DEF DisableWhenDone, TypeOK
  <2>4. out' \in [Clients -> Nat] /\ down' \in [Clients -> 0..SendBuf]
    BY <2>1, <2>2, <2>3
  <2>5. TypeOK'
    BY <1>1, <1>2, <2>3, <2>4 DEF EchoInv, TypeOK, serverVars, clientVars
  <2>6. \A d \in Clients : EchoOK(d)'
    <3>1. /\ EchoOK(c) /\ up[c] \in Nat /\ down[c] \in Nat /\ got[c] \in Nat
          /\ up[c] + out[c] + down[c] + got[c] = up[c] + (out[c] - w) + (down[c] + w) + got[c]
      BY <2>1, <2>2
    <3>2. EchoOK(c)'
      BY <1>2, <2>1, <2>3, <3>1 DEF EchoOK, clientVars
    <3>3. \A d \in Clients : d # c => EchoOK(d)'
      BY <1>2, <2>1, <2>3 DEF EchoOK, clientVars
    <3> QED
      BY <3>2, <3>3
  <2>7. Counters'
    BY <1>2, <2>1 DEF Counters, clientVars
  <2> QED
    BY <1>1, <2>5, <2>6, <2>7 DEF EchoInv
<1> QED
  BY <1>3, <1>4

LEMMA ReadEndEcho ==
  ASSUME EchoInv, NEW c \in Clients, ReadError(c) \/ ReadEnd(c)
  PROVE  EchoInv'
<1>1. active' \subseteq Events /\ AcceptReady'
  BY HandlingActive DEF ReadError, ReadEnd
<1>2. CASE ReadError(c)
  <2>1. TypeOK'
    BY <1>1, <1>2 DEF ReadError, EchoInv, TypeOK, serverVars, connVars
  <2> QED
    BY <1>1, <1>2, <2>1, NoBytes DEF ReadError, counts
<1>3. CASE ReadEnd(c)
  <2>1. UNCHANGED <<counts, rst, started, next_conn_id, next_loop, name, listenning, state,
                    channel_map, phase, batch, held, backlog>>
    BY <1>3 DEF ReadEnd, clientVars, counts
  <2>2. /\ DOMAIN connections' \subseteq 1..(next_conn_id' - 1)
        /\ connections' \in [DOMAIN connections' -> Clients]
    <3>1. /\ DOMAIN connections \subseteq 1..(next_conn_id' - 1)
          /\ connections \in [DOMAIN connections -> Clients]
      BY <2>1 DEF EchoInv, TypeOK
    <3>2. connections' = connections \/ connections' = Without(connections, name[c])
      BY <1>3 DEF ReadEnd, EraseConnection
    <3>3. /\ DOMAIN Without(connections, name[c]) \subseteq 1..(next_conn_id' - 1)
          /\ Without(connections, name[c]) \in [DOMAIN Without(connections, name[c]) -> Clients]
      BY <3>1, WithoutMap, Zenon
    <3> QED
      BY <3>1, <3>2, <3>3, Zenon
  <2>3. queue' \in Seq(Functors)
    <3>1. queue \in Seq(Functors) /\ Append(queue, <<"destroy", c>>) \in Seq(Functors)
      BY FunctorTypes, AppendProperties DEF EchoInv, TypeOK
    <3> QED
      BY <1>3, <3>1 DEF ReadEnd, QueueDestroy
  <2>4. fd' \in [Clients -> Fds \cup {NoFd}]
    <3>1. fd' = [d \in Clients |-> IF Alive(d)' THEN fd[d] ELSE NoFd] /\ fd \in [Clients -> Fds \cup {NoFd}]
      BY <1>3 DEF ReadEnd, Release, EchoInv, TypeOK
    <3> QED
      BY <3>1
  <2>5. /\ reading' \subseteq Clients /\ writing' \subseteq Clients
        /\ crash' \in {"no", "assert", "thread"}
    BY <1>3 DEF ReadEnd, EchoInv, TypeOK
  <2>6. TypeOK'
    BY <1>1, <2>1, <2>2, <2>3, <2>4, <2>5 DEF EchoInv, TypeOK, counts
  <2> QED
    BY <1>1, <2>1, <2>6, NoBytes
<1> QED
  BY <1>2, <1>3

LEMMA FunctorsEcho ==
  ASSUME EchoInv, BeginFunctors \/ ListenFunctor \/ destroyConnection \/ EndFunctors
  PROVE  EchoInv'
<1>0. queue \in Seq(Functors) /\ batch \in Seq(Functors)
  BY DEF EchoInv, TypeOK
<1>1. UNCHANGED <<counts, rst, serverVars, active, backlog>>
  BY DEF BeginFunctors, ListenFunctor, destroyConnection, EndFunctors, clientVars, counts
<1>2. AcceptReady'
  BY <1>1 DEF EchoInv, AcceptReady
<1>3. CASE BeginFunctors
  <2>1. /\ queue' = <<>> /\ batch' = queue /\ held' \subseteq Clients
        /\ phase' = "functors" /\ UNCHANGED <<listenning, connVars, crash>>
    BY <1>3 DEF BeginFunctors
  <2>2. queue' \in Seq(Functors) /\ batch' \in Seq(Functors)
    BY <1>0, <2>1, EmptySeq
  <2>3. TypeOK'
    BY <1>1, <2>1, <2>2 DEF EchoInv, TypeOK, counts, serverVars, connVars
  <2> QED
    BY <1>1, <1>2, <2>3, NoBytes
<1>4. CASE ListenFunctor
  <2>1. batch' \in Seq(Functors) /\ listenning' \in BOOLEAN
    BY <1>0, <1>4, HeadTailProperties DEF ListenFunctor, NextFunctor, listen
  <2>2. TypeOK'
    BY <1>1, <1>4, <2>1 DEF ListenFunctor, EchoInv, TypeOK, counts, serverVars, connVars
  <2> QED
    BY <1>1, <1>2, <2>2, NoBytes
<1>5. CASE destroyConnection
  <2>0. batch # <<>> /\ batch' = Tail(batch) /\ Head(batch)[1] = "destroy"
    BY <1>5 DEF destroyConnection, NextFunctor
  <2>1. batch' \in Seq(Functors) /\ Head(batch) \in Functors
    BY <1>0, <2>0, HeadTailProperties
  <2>2. Head(batch)[2] \in Clients
    BY <2>0, <2>1, FunctorTypes
  <2> DEFINE c == Head(batch)[2]
  <2>3. UNCHANGED <<listenning, fd, phase, held, queue>>
    BY <1>5 DEF destroyConnection
  <2>4. /\ state' = state \/ state' = [state EXCEPT ![c] = "Disconnected"]
        /\ channel_map' = channel_map \/ channel_map' = Without(channel_map, fd[c])
        /\ reading' \subseteq reading /\ writing' \subseteq writing
        /\ crash' = crash \/ crash' = "assert"
    BY <1>5 DEF destroyConnection, removeChannel
  <2>5. /\ DOMAIN channel_map' \subseteq Fds
        /\ channel_map' \in [DOMAIN channel_map' -> Clients]
    <3>1. DOMAIN channel_map \subseteq Fds /\ channel_map \in [DOMAIN channel_map -> Clients]
      BY DEF EchoInv, TypeOK
    <3> HIDE DEF c
    <3>2. /\ DOMAIN Without(channel_map, fd[c]) \subseteq Fds
          /\ Without(channel_map, fd[c]) \in [DOMAIN Without(channel_map, fd[c]) -> Clients]
      BY <3>1, WithoutMap, Zenon
    <3> QED
      BY <2>4, <3>1, <3>2, Zenon
  <2>6. state' \in [Clients -> {"none", "Connected", "Disconnected"}]
    BY <2>2, <2>4 DEF EchoInv, TypeOK
  <2>7. /\ reading' \subseteq Clients /\ writing' \subseteq Clients
        /\ crash' \in {"no", "assert", "thread"}
    BY <2>4 DEF EchoInv, TypeOK
  <2>8. TypeOK'
    BY <1>1, <2>1, <2>3, <2>5, <2>6, <2>7 DEF EchoInv, TypeOK, counts, serverVars
  <2> QED
    BY <1>1, <1>2, <2>8, NoBytes
<1>6. CASE EndFunctors
  <2>1. fd' \in [Clients -> Fds \cup {NoFd}]
    <3>1. fd' = [d \in Clients |-> IF Alive(d)' THEN fd[d] ELSE NoFd] /\ fd \in [Clients -> Fds \cup {NoFd}]
      BY <1>6 DEF EndFunctors, Release, EchoInv, TypeOK
    <3> QED
      BY <3>1
  <2>2. TypeOK'
    BY <1>1, <1>6, <2>1 DEF EndFunctors, EchoInv, TypeOK, counts, serverVars
  <2> QED
    BY <1>1, <1>2, <2>2, NoBytes
<1> QED
  BY <1>3, <1>4, <1>5, <1>6

LEMMA ClientEcho ==
  ASSUME EchoInv, NEW c \in Clients, Connect(c) \/ ClientStep(c) \/ ClientAborts(c)
  PROVE  EchoInv'
<1>0. /\ TypeOK /\ Counters /\ AcceptReady /\ \A d \in Clients : EchoOK(d)
      /\ up \in [Clients -> Nat] /\ out \in [Clients -> Nat] /\ down \in [Clients -> 0..SendBuf]
      /\ got \in [Clients -> Nat] /\ sent \in [Clients -> Nat]
      /\ client \in [Clients -> {"new", "open", "closed"}]
      /\ Bytes[c] \in Nat /\ SendBuf \in Nat
  BY Distinct DEF EchoInv, TypeOK, Counters
<1>1. \A d \in Clients : {sent[d], up[d], got[d]} \subseteq 0..Bytes[d]
  BY <1>0 DEF TypeOK
<1>2. UNCHANGED <<serverVars, listenning, connVars, out, loopVars, queue, crash>>
  BY DEF Connect, ClientStep, ClientSends, ClientReceives, ClientCloses, ClientAborts
<1>3. CASE Connect(c)
  <2>1. /\ client[c] = "new" /\ client' = [client EXCEPT ![c] = "open"]
        /\ backlog' = Append(backlog, c) /\ UNCHANGED <<rst, sent, up, down, got, out>>
    BY <1>2, <1>3 DEF Connect
  <2>2. backlog' \in Seq(Clients) /\ backlog' # <<>>
    <3>1. backlog \in Seq(Clients)
      BY <1>0 DEF TypeOK
    <3> QED
      BY <2>1, <3>1, AppendProperties
  <2>3. TypeOK'
    BY <1>0, <1>2, <2>1, <2>2 DEF TypeOK, serverVars, connVars, loopVars
  <2>4. \A d \in Clients : EchoOK(d)'
    BY <1>0, <2>1 DEF EchoOK
  <2> QED
    BY <1>0, <2>1, <2>2, <2>3, <2>4 DEF EchoInv, AcceptReady, Counters
<1>4. CASE ClientSends(c)
  <2>1. /\ client[c] = "open" /\ sent[c] < Bytes[c]
        /\ sent' = [sent EXCEPT ![c] = Bytes[c]] /\ up' = [up EXCEPT ![c] = Bytes[c]]
        /\ UNCHANGED <<backlog, client, rst, down, got, out>>
    BY <1>2, <1>4 DEF ClientSends
  <2>2. sent[c] = 0 /\ up[c] = 0 /\ out[c] = 0 /\ down[c] = 0 /\ got[c] = 0
    <3>1. sent[c] \in {0, Bytes[c]} /\ sent[c] = up[c] + out[c] + down[c] + got[c]
      BY <1>0, <2>1 DEF EchoOK
    <3>2. up[c] \in Nat /\ out[c] \in Nat /\ down[c] \in Nat /\ got[c] \in Nat /\ sent[c] \in Nat
      BY <1>0
    <3>3. sent[c] = 0
      BY <1>0, <2>1, <3>1, <3>2
    <3>4. 0 = up[c] + out[c] + down[c] + got[c]
      BY <3>1, <3>3
    <3>5. up[c] = 0 /\ out[c] = 0 /\ down[c] = 0 /\ got[c] = 0
      BY <3>2, <3>4, ZeroSum, Zenon
    <3> QED
      BY <3>3, <3>5
  <2>3. \A d \in Clients : {sent'[d], up'[d], got'[d]} \subseteq 0..Bytes[d]
    <3> SUFFICES ASSUME NEW d \in Clients PROVE {sent'[d], up'[d], got'[d]} \subseteq 0..Bytes[d]
      OBVIOUS
    <3>1. CASE d = c
      <4>1. sent'[d] = Bytes[c] /\ up'[d] = Bytes[c] /\ got'[d] = 0
        BY <1>0, <2>1, <2>2, <3>1
      <4> QED
        BY <1>0, <3>1, <4>1
    <3>2. CASE d # c
      <4>1. sent'[d] = sent[d] /\ up'[d] = up[d] /\ got'[d] = got[d]
        BY <1>0, <2>1, <3>2
      <4> QED
        BY <1>1, <4>1
    <3> QED
      BY <3>1, <3>2
  <2>4. TypeOK'
    BY <1>0, <1>2, <2>1, <2>3 DEF TypeOK, serverVars, connVars, loopVars
  <2>5. EchoOK(c)'
    BY <1>0, <2>1, <2>2 DEF EchoOK
  <2>6. \A d \in Clients : d # c => EchoOK(d)'
    BY <1>0, <2>1 DEF EchoOK
  <2> QED
    BY <1>0, <1>2, <2>1, <2>4, <2>5, <2>6 DEF EchoInv, AcceptReady, Counters, loopVars
<1>5. CASE ClientReceives(c)
  <2>1. /\ client[c] = "open" /\ down[c] > 0
        /\ down' = [down EXCEPT ![c] = down[c] - 1] /\ got' = [got EXCEPT ![c] = got[c] + 1]
        /\ UNCHANGED <<backlog, client, rst, sent, up, out>>
    BY <1>2, <1>5 DEF ClientReceives
  <2>2. /\ sent[c] = up[c] + out[c] + down[c] + got[c] /\ sent[c] <= Bytes[c]
        /\ up[c] \in Nat /\ out[c] \in Nat /\ down[c] \in 0..SendBuf /\ got[c] \in Nat /\ sent[c] \in Nat
    BY <1>0, <1>1, <2>1 DEF EchoOK
  <2>3. /\ got[c] + 1 \in 0..Bytes[c] /\ down[c] - 1 \in 0..SendBuf
        /\ sent[c] = up[c] + out[c] + (down[c] - 1) + (got[c] + 1)
    BY <1>0, <2>1, <2>2
  <2>4. \A d \in Clients : {sent'[d], up'[d], got'[d]} \subseteq 0..Bytes[d]
    <3> SUFFICES ASSUME NEW d \in Clients PROVE {sent'[d], up'[d], got'[d]} \subseteq 0..Bytes[d]
      OBVIOUS
    <3>1. sent'[d] = sent[d] /\ up'[d] = up[d] /\ got'[d] = IF d = c THEN got[c] + 1 ELSE got[d]
      BY <1>0, <2>1
    <3> QED
      BY <1>1, <2>3, <3>1
  <2>5. down' \in [Clients -> 0..SendBuf] /\ got' \in [Clients -> Nat]
    BY <1>0, <2>1, <2>3
  <2>6. TypeOK'
    BY <1>0, <1>2, <2>1, <2>4, <2>5 DEF TypeOK, serverVars, connVars, loopVars
  <2>7. EchoOK(c)'
    BY <1>0, <2>1, <2>3 DEF EchoOK
  <2>8. \A d \in Clients : d # c => EchoOK(d)'
    BY <1>0, <2>1 DEF EchoOK
  <2> QED
    BY <1>0, <1>2, <2>1, <2>5, <2>6, <2>7, <2>8 DEF EchoInv, AcceptReady, Counters, loopVars
<1>6. CASE ClientCloses(c) \/ ClientAborts(c)
  <2>1. /\ client' = [client EXCEPT ![c] = "closed"]
        /\ up' = up \/ up' = [up EXCEPT ![c] = 0]
        /\ rst' \subseteq rst \cup {c}
        /\ client[c] = "open"
        /\ UNCHANGED <<backlog, sent, down, got, out>>
    BY <1>2, <1>6 DEF ClientCloses, ClientAborts
  <2>2. \A d \in Clients : {sent'[d], up'[d], got'[d]} \subseteq 0..Bytes[d]
    <3> SUFFICES ASSUME NEW d \in Clients PROVE {sent'[d], up'[d], got'[d]} \subseteq 0..Bytes[d]
      OBVIOUS
    <3>1. sent'[d] = sent[d] /\ got'[d] = got[d] /\ (up'[d] = up[d] \/ up'[d] = 0)
      BY <1>0, <2>1
    <3>2. 0 \in 0..Bytes[d]
      BY Distinct
    <3> QED
      BY <1>1, <3>1, <3>2
  <2>3. TypeOK'
    BY <1>0, <1>2, <2>1, <2>2 DEF TypeOK, serverVars, connVars, loopVars
  <2>4. EchoOK(c)'
    BY <1>0, <2>1 DEF EchoOK
  <2>5. \A d \in Clients : d # c => EchoOK(d)'
    BY <1>0, <2>1 DEF EchoOK
  <2>6. Counters'
    BY <1>0, <2>1 DEF Counters
  <2> QED
    BY <1>0, <1>2, <2>1, <2>3, <2>4, <2>5, <2>6 DEF EchoInv, AcceptReady, loopVars
<1> QED
  BY <1>3, <1>4, <1>5, <1>6 DEF ClientStep

LEMMA NextEcho == EchoInv /\ [Next]_vars => EchoInv'
<1> SUFFICES ASSUME EchoInv, [Next]_vars PROVE EchoInv'
  OBVIOUS
<1>1. CASE Next
  BY <1>1, StartEcho, PollEcho, AcceptFailsEcho, AcceptEcho, ReadDataEcho, ReadEndEcho, WriteEcho,
     FunctorsEcho, ClientEcho DEF Next, LoopStep
<1>2. CASE UNCHANGED vars
  <2>1. TypeOK' /\ AcceptReady'
    BY <1>2 DEF EchoInv, TypeOK, AcceptReady, vars, serverVars, connVars, loopVars, clientVars
  <2> QED
    BY <1>2, <2>1, NoBytes DEF vars, counts, clientVars
<1> QED
  BY <1>1, <1>2

-----------------------------------------------------------------------------
(* Queued destructions and the backlog *)

LEMMA EmptyDestroys ==
  DestroysOnce(<<>>) /\ \A c : ~Destroys(<<>>, c)
  BY DEF DestroysOnce, Destroys

LEMMA AppendDestroys ==
  ASSUME NEW s \in Seq(Functors), NEW f \in Functors
  PROVE  /\ \A c \in Clients : Destroys(Append(s, f), c) <=> Destroys(s, c) \/ f = <<"destroy", c>>
         /\ DestroysOnce(s) /\ (f[1] = "destroy" => ~Destroys(s, f[2])) => DestroysOnce(Append(s, f))
<1> DEFINE t == Append(s, f)
<1>1. /\ Len(s) \in Nat /\ DOMAIN s = 1..Len(s) /\ DOMAIN t = 1..Len(s) + 1
      /\ \A i \in 1..Len(s) : t[i] = s[i]
      /\ t[Len(s) + 1] = f
  BY AppendProperties
<1> HIDE DEF t
<1>2. ASSUME NEW c \in Clients
      PROVE  Destroys(t, c) <=> Destroys(s, c) \/ f = <<"destroy", c>>
  <2>1. Destroys(s, c) => Destroys(t, c)
    BY <1>1 DEF Destroys
  <2>2. f = <<"destroy", c>> => Destroys(t, c)
    <3>1. Len(s) + 1 \in DOMAIN t
      BY <1>1
    <3> QED
      BY <1>1, <3>1 DEF Destroys
  <2>3. ASSUME NEW i \in DOMAIN t, t[i] = <<"destroy", c>>
        PROVE  Destroys(s, c) \/ f = <<"destroy", c>>
    <3>1. i \in DOMAIN s \/ i = Len(s) + 1
      BY <1>1
    <3> QED
      BY <1>1, <2>3, <3>1 DEF Destroys
  <2> QED
    BY <2>1, <2>2, <2>3 DEF Destroys
<1>3. ASSUME DestroysOnce(s), f[1] = "destroy" => ~Destroys(s, f[2])
      PROVE  DestroysOnce(t)
  <2> SUFFICES ASSUME NEW i \in DOMAIN t, NEW j \in DOMAIN t, t[i] = t[j], t[i][1] = "destroy"
               PROVE  i = j
    BY DEF DestroysOnce
  <2>1. f[1] = "destroy" => \A k \in DOMAIN s : s[k] # f
    <3> SUFFICES ASSUME f[1] = "destroy", NEW k \in DOMAIN s, s[k] = f PROVE FALSE
      OBVIOUS
    <3>1. f = <<"destroy", f[2]>>
      BY FunctorTypes
    <3>2. Destroys(s, f[2])
      BY <3>1 DEF Destroys
    <3> QED
      BY <1>3, <3>2
  <2>2. CASE i \in DOMAIN s /\ j \in DOMAIN s
    BY <1>1, <1>3, <2>2 DEF DestroysOnce
  <2>3. CASE i = Len(s) + 1 /\ j \in DOMAIN s
    BY <1>1, <2>1, <2>3
  <2>4. CASE j = Len(s) + 1 /\ i \in DOMAIN s
    BY <1>1, <2>1, <2>4
  <2> QED
    BY <1>1, <2>2, <2>3, <2>4
<1> QED
  BY <1>2, <1>3 DEF t

LEMMA TailDestroys ==
  ASSUME NEW s \in Seq(Functors), s # <<>>, DestroysOnce(s)
  PROVE  /\ DestroysOnce(Tail(s)) /\ Head(s) \in Functors
         /\ \A c \in Clients : Destroys(Tail(s), c) <=> Destroys(s, c) /\ Head(s) # <<"destroy", c>>
         /\ \A c \in Clients : Head(s) = <<"destroy", c>> => Destroys(s, c)
<1> DEFINE t == Tail(s)
<1>1. /\ Len(s) \in Nat /\ Len(s) >= 1 /\ DOMAIN s = 1..Len(s) /\ DOMAIN t = 1..Len(s) - 1
      /\ \A i \in 1..Len(s) - 1 : t[i] = s[i + 1]
      /\ Head(s) = s[1] /\ Head(s) \in Functors
  BY HeadTailProperties, EmptySeq
<1> HIDE DEF t
<1>2. DestroysOnce(t)
  <2> SUFFICES ASSUME NEW i \in DOMAIN t, NEW j \in DOMAIN t, t[i] = t[j], t[i][1] = "destroy"
               PROVE  i = j
    BY DEF DestroysOnce
  <2>1. i + 1 \in DOMAIN s /\ j + 1 \in DOMAIN s /\ s[i + 1] = s[j + 1] /\ s[i + 1][1] = "destroy"
    BY <1>1
  <2>2. i + 1 = j + 1
    BY <2>1 DEF DestroysOnce
  <2> QED
    BY <1>1, <2>2
<1>3. ASSUME NEW c \in Clients
      PROVE  Destroys(t, c) <=> Destroys(s, c) /\ Head(s) # <<"destroy", c>>
  <2>1. ASSUME Destroys(t, c)
        PROVE  Destroys(s, c) /\ Head(s) # <<"destroy", c>>
    <3>1. PICK i \in DOMAIN t : t[i] = <<"destroy", c>>
      BY <2>1 DEF Destroys
    <3>2. i + 1 \in DOMAIN s /\ i + 1 # 1 /\ 1 \in DOMAIN s /\ s[i + 1] = <<"destroy", c>>
      BY <1>1, <3>1
    <3>3. s[1] # s[i + 1]
      <4>1. s[i + 1][1] = "destroy"
        BY <3>2
      <4> QED
        BY <3>2, <4>1 DEF DestroysOnce
    <3> QED
      BY <1>1, <3>2, <3>3 DEF Destroys
  <2>2. ASSUME Destroys(s, c), Head(s) # <<"destroy", c>>
        PROVE  Destroys(t, c)
    <3>1. PICK i \in DOMAIN s : s[i] = <<"destroy", c>>
      BY <2>2 DEF Destroys
    <3>2. i - 1 \in DOMAIN t /\ t[i - 1] = s[i]
      <4>1. i # 1 /\ i \in 1..Len(s)
        BY <1>1, <2>2, <3>1
      <4>2. i - 1 \in 1..Len(s) - 1 /\ (i - 1) + 1 = i
        BY <1>1, <4>1
      <4> QED
        BY <1>1, <4>2
    <3> QED
      BY <3>1, <3>2 DEF Destroys
  <2> QED
    BY <2>1, <2>2
<1>4. \A c \in Clients : Head(s) = <<"destroy", c>> => Destroys(s, c)
  BY <1>1 DEF Destroys
<1> QED
  BY <1>1, <1>2, <1>3, <1>4 DEF t

LEMMA AppendHolds ==
  ASSUME NEW s \in Seq(Clients), NEW c \in Clients, ~Holds(s, c),
         \A i, j \in DOMAIN s : s[i] = s[j] => i = j
  PROVE  /\ \A d \in Clients : Holds(Append(s, c), d) <=> Holds(s, d) \/ d = c
         /\ \A i, j \in DOMAIN Append(s, c) : Append(s, c)[i] = Append(s, c)[j] => i = j
<1> DEFINE t == Append(s, c)
<1>1. /\ Len(s) \in Nat /\ DOMAIN s = 1..Len(s) /\ DOMAIN t = 1..Len(s) + 1
      /\ \A i \in 1..Len(s) : t[i] = s[i]
      /\ t[Len(s) + 1] = c
  BY AppendProperties
<1> HIDE DEF t
<1>2. \A d \in Clients : Holds(t, d) <=> Holds(s, d) \/ d = c
  <2> SUFFICES ASSUME NEW d \in Clients PROVE Holds(t, d) <=> Holds(s, d) \/ d = c
    OBVIOUS
  <2>1. Holds(s, d) => Holds(t, d)
    BY <1>1 DEF Holds
  <2>2. Holds(t, c)
    BY <1>1 DEF Holds
  <2>3. Holds(t, d) => Holds(s, d) \/ d = c
    BY <1>1 DEF Holds
  <2> QED
    BY <2>1, <2>2, <2>3
<1>3. \A i, j \in DOMAIN t : t[i] = t[j] => i = j
  BY <1>1 DEF Holds
<1> QED
  BY <1>2, <1>3 DEF t

LEMMA TailHolds ==
  ASSUME NEW s \in Seq(Clients), s # <<>>, \A i, j \in DOMAIN s : s[i] = s[j] => i = j
  PROVE  /\ Holds(s, Head(s)) /\ ~Holds(Tail(s), Head(s))
         /\ \A d \in Clients : Holds(Tail(s), d) => Holds(s, d)
         /\ \A i, j \in DOMAIN Tail(s) : Tail(s)[i] = Tail(s)[j] => i = j
<1> DEFINE t == Tail(s)
<1>1. /\ Len(s) \in Nat /\ Len(s) >= 1 /\ DOMAIN s = 1..Len(s) /\ DOMAIN t = 1..Len(s) - 1
      /\ \A i \in 1..Len(s) - 1 : t[i] = s[i + 1]
      /\ Head(s) = s[1]
  BY HeadTailProperties, EmptySeq
<1> HIDE DEF t
<1>2. Holds(s, Head(s))
  BY <1>1 DEF Holds
<1>3. ~Holds(t, Head(s))
  <2> SUFFICES ASSUME NEW i \in DOMAIN t, t[i] = Head(s) PROVE FALSE
    BY DEF Holds
  <2>1. i + 1 \in DOMAIN s /\ 1 \in DOMAIN s /\ s[i + 1] = s[1] /\ i + 1 # 1
    BY <1>1
  <2> QED
    BY <2>1
<1>4. \A d \in Clients : Holds(t, d) => Holds(s, d)
  <2> SUFFICES ASSUME NEW d \in Clients, NEW i \in DOMAIN t, t[i] = d PROVE Holds(s, d)
    BY DEF Holds
  <2>1. i + 1 \in DOMAIN s /\ s[i + 1] = d
    BY <1>1
  <2> QED
    BY <2>1 DEF Holds
<1>5. \A i, j \in DOMAIN t : t[i] = t[j] => i = j
  <2> SUFFICES ASSUME NEW i \in DOMAIN t, NEW j \in DOMAIN t, t[i] = t[j] PROVE i = j
    OBVIOUS
  <2>1. i + 1 \in DOMAIN s /\ j + 1 \in DOMAIN s /\ s[i + 1] = s[j + 1]
    BY <1>1
  <2>2. i + 1 = j + 1
    BY <2>1
  <2> QED
    BY <1>1, <2>2
<1> QED
  BY <1>2, <1>3, <1>4, <1>5 DEF t

-----------------------------------------------------------------------------
(* The life of the connections: one step *)

LEMMA InitLife == Init => LifeInv
<1> SUFFICES ASSUME Init PROVE LifeInv
  OBVIOUS
<1>1. /\ connections = Empty /\ channel_map = Empty /\ DOMAIN Empty = {}
      /\ queue = <<>> /\ batch = <<>> /\ backlog = <<>> /\ DOMAIN backlog = {}
  BY Emptiness DEF Init
<1>2. \A c \in Clients : ~InMap(connections, c) /\ ~Holds(backlog, c)
  BY <1>1 DEF InMap, Holds
<1>3. \A c \in Clients : ~Destroys(queue, c) /\ ~Destroys(batch, c)
  BY <1>1, EmptyDestroys
<1>4. \A c \in Clients : ConnOK(c)
  <2> SUFFICES ASSUME NEW c \in Clients PROVE ConnOK(c)
    OBVIOUS
  <2>1. state[c] = "none" /\ fd[c] = NoFd /\ reading = {} /\ active = {} /\ held = {}
    BY DEF Init
  <2> QED
    BY <1>2, <1>3, <2>1 DEF ConnOK
<1>5. NamesOK /\ ChannelsOK
  BY <1>1 DEF NamesOK, ChannelsOK
<1>6. FdsApart
  BY DEF Init, FdsApart
<1>7. QueuesOK
  BY <1>1, EmptyDestroys DEF Init, QueuesOK
<1> QED
  BY <1>4, <1>5, <1>6, <1>7 DEF LifeInv, Init

LEMMA AliveConnected ==
  ASSUME LifeInv, NEW c \in Clients
  PROVE  Alive(c) <=> fd[c] # NoFd
  BY DEF LifeInv, ConnOK, Alive, Destroys

LEMMA LifeApart == TypeOK /\ LifeInv => DescriptorsApart
<1> SUFFICES ASSUME TypeOK, LifeInv PROVE DescriptorsApart
  OBVIOUS
<1>1. \A c \in Clients : Alive(c) <=> fd[c] # NoFd
  BY AliveConnected
<1>2. \A f \in DOMAIN channel_map :
        /\ channel_map[f] \in Clients /\ fd[channel_map[f]] = f
        /\ state[channel_map[f]] = "Connected"
  BY DEF TypeOK, LifeInv, ChannelsOK
<1>3. \A f \in DOMAIN channel_map : Alive(channel_map[f])
  BY <1>1, <1>2 DEF LifeInv, ConnOK
<1> QED
  BY <1>1, <1>2, <1>3 DEF DescriptorsApart, LifeInv, FdsApart

(* The steps that move no connection from one place to another. *)
LEMMA SameLife ==
  ASSUME LifeInv,
         UNCHANGED <<connections, name, state, fd, channel_map, reading, held, crash>>,
         \A c \in Clients : Destroys(queue', c) <=> Destroys(queue, c),
         \A c \in Clients : Destroys(batch', c) <=> Destroys(batch, c),
         \A c \in Clients : Holds(backlog', c) => Holds(backlog, c),
         \A c \in Clients : <<c, "read">> \in active' => c \in reading,
         \A c \in Clients : client'[c] = "new" => client[c] = "new",
         QueuesOK'
  PROVE  LifeInv'
<1>1. \A c \in Clients : ConnOK(c)'
  BY DEF LifeInv, ConnOK
<1>2. NamesOK' /\ ChannelsOK' /\ FdsApart'
  BY DEF LifeInv, NamesOK, ChannelsOK, FdsApart
<1> QED
  BY <1>1, <1>2 DEF LifeInv

LEMMA CalmLife ==
  ASSUME EchoInv, LifeInv,
         \/ start \/ startListens \/ loop \/ startAgain \/ Poll
         \/ \E c \in Clients : ReadData(c) \/ ReadError(c) \/ handleWrite(c)
         \/ \E c \in Clients : ClientStep(c) \/ ClientAborts(c)
  PROVE  LifeInv'
<1>1. UNCHANGED <<connections, name, state, fd, channel_map, reading, held, batch, backlog, crash>>
  BY DEF start, startListens, loop, startAgain, Poll, ReadData, ReadError, handleWrite, ClientStep,
       ClientSends, ClientReceives, ClientCloses, ClientAborts, serverVars, connVars, loopVars
<1>2. /\ \A c \in Clients : Destroys(queue', c) <=> Destroys(queue, c)
      /\ DestroysOnce(queue')
  <2>1. CASE startAgain
    <3>1. /\ queue \in Seq(Functors) /\ <<"listen", Listener>> \in Functors
          /\ queue' = Append(queue, <<"listen", Listener>>)
      BY <2>1, FunctorTypes DEF startAgain, EchoInv, TypeOK
    <3>2. <<"listen", Listener>>[1] # "destroy" /\ \A c \in Clients : <<"listen", Listener>> # <<"destroy", c>>
      OBVIOUS
    <3> QED
      BY <3>1, <3>2, AppendDestroys DEF LifeInv, QueuesOK
  <2>2. CASE UNCHANGED queue
    BY <2>2 DEF LifeInv, QueuesOK
  <2> QED
    BY <2>1, <2>2 DEF start, startListens, loop, Poll, ReadData, ReadError, handleWrite, ClientStep,
         ClientSends, ClientReceives, ClientCloses, ClientAborts
<1>3. \A c \in Clients : <<c, "read">> \in active' => c \in reading
  <2>1. CASE Poll
    BY <2>1, ReadyEvents DEF Poll
  <2>2. CASE active' \subseteq active
    BY <2>2 DEF LifeInv, ConnOK
  <2> QED
    BY <2>1, <2>2 DEF start, startListens, loop, startAgain, ReadData, ReadError, handleWrite, Handling,
         ClientStep, ClientSends, ClientReceives, ClientCloses, ClientAborts, loopVars
<1>4. \A c \in Clients : client'[c] = "new" => client[c] = "new"
  <2>1. client \in [Clients -> {"new", "open", "closed"}]
    BY DEF EchoInv, TypeOK
  <2>2. client' = client \/ \E d \in Clients : client' = [client EXCEPT ![d] = "closed"]
    BY DEF start, startListens, loop, startAgain, Poll, ReadData, ReadError, handleWrite, ClientStep,
         ClientSends, ClientReceives, ClientCloses, ClientAborts, clientVars
  <2> QED
    BY <2>1, <2>2
<1>5. phase' # "functors" => phase # "functors"
  BY DEF start, startListens, loop, startAgain, Poll, ReadData, ReadError, handleWrite, ClientStep,
       ClientSends, ClientReceives, ClientCloses, ClientAborts, loopVars
<1>6. QueuesOK'
  BY <1>1, <1>2, <1>5 DEF LifeInv, QueuesOK
<1> QED
  BY <1>1, <1>2, <1>3, <1>4, <1>6, SameLife

LEMMA AcceptFailsLife ==
  ASSUME EchoInv, LifeInv, acceptFails
  PROVE  LifeInv'
<1>1. /\ backlog \in Seq(Clients) /\ backlog # <<>>
      /\ backlog' = backlog \/ backlog' = Tail(backlog)
  BY BacklogType DEF acceptFails
<1>2. \A i, j \in DOMAIN backlog : backlog[i] = backlog[j] => i = j
  BY DEF LifeInv, QueuesOK
<1>3. /\ \A c \in Clients : Holds(backlog', c) => Holds(backlog, c)
      /\ \A i, j \in DOMAIN backlog' : backlog'[i] = backlog'[j] => i = j
  <2>1. /\ \A c \in Clients : Holds(Tail(backlog), c) => Holds(backlog, c)
        /\ \A i, j \in DOMAIN Tail(backlog) : Tail(backlog)[i] = Tail(backlog)[j] => i = j
    BY <1>1, <1>2, TailHolds
  <2> QED
    BY <1>1, <1>2, <2>1, Zenon
<1>4. /\ UNCHANGED <<connections, name, state, fd, channel_map, reading, held, crash, queue, batch,
                     client, phase>>
      /\ active' \subseteq active
  BY DEF acceptFails, Handling, serverVars, connVars, clientVars
<1>5. QueuesOK'
  BY <1>3, <1>4 DEF LifeInv, QueuesOK
<1>6. \A c \in Clients : <<c, "read">> \in active' => c \in reading
  BY <1>4 DEF LifeInv, ConnOK
<1> QED
  BY <1>3, <1>4, <1>5, <1>6, SameLife

LEMMA ConnectLife ==
  ASSUME EchoInv, LifeInv, NEW c \in Clients, Connect(c)
  PROVE  LifeInv'
<1>1. /\ client[c] = "new" /\ client' = [client EXCEPT ![c] = "open"]
      /\ backlog' = Append(backlog, c)
      /\ UNCHANGED <<connections, name, state, fd, channel_map, reading, held, crash, queue, batch,
                     active, phase>>
  BY DEF Connect, serverVars, connVars, loopVars
<1>2. /\ backlog \in Seq(Clients) /\ state[c] = "none" /\ ~Holds(backlog, c)
      /\ client \in [Clients -> {"new", "open", "closed"}]
  BY <1>1 DEF EchoInv, TypeOK, LifeInv, ConnOK
<1>3. /\ \A d \in Clients : Holds(backlog', d) <=> Holds(backlog, d) \/ d = c
      /\ \A i, j \in DOMAIN backlog' : backlog'[i] = backlog'[j] => i = j
  BY <1>1, <1>2, AppendHolds DEF LifeInv, QueuesOK
<1>4. \A d \in Clients : d # c => client'[d] = client[d]
  BY <1>1, <1>2
<1>5. client'[c] = "open"
  BY <1>1, <1>2
<1>6. \A d \in Clients : ConnOK(d)'
  <2> SUFFICES ASSUME NEW d \in Clients PROVE ConnOK(d)'
    OBVIOUS
  <2>1. ConnOK(d)
    BY DEF LifeInv
  <2> QED
    BY <1>1, <1>2, <1>3, <1>4, <1>5, <2>1 DEF ConnOK
<1>7. NamesOK' /\ ChannelsOK' /\ FdsApart' /\ QueuesOK'
  BY <1>1, <1>3 DEF LifeInv, NamesOK, ChannelsOK, FdsApart, QueuesOK
<1> QED
  BY <1>1, <1>6, <1>7 DEF LifeInv

LEMMA ListenLife ==
  ASSUME EchoInv, LifeInv, ListenFunctor
  PROVE  LifeInv'
<1>1. /\ batch # <<>> /\ Head(batch)[1] = "listen" /\ batch' = Tail(batch) /\ phase = "functors"
      /\ UNCHANGED <<connections, name, state, fd, channel_map, reading, held, crash, queue, backlog,
                     client, active, phase>>
  BY DEF ListenFunctor, NextFunctor, serverVars, connVars, clientVars
<1>2. batch \in Seq(Functors) /\ DestroysOnce(batch)
  BY DEF EchoInv, TypeOK, LifeInv, QueuesOK
<1>3. \A c \in Clients : Head(batch) # <<"destroy", c>>
  BY <1>1
<1>4. DestroysOnce(batch') /\ \A c \in Clients : Destroys(batch', c) <=> Destroys(batch, c)
  BY <1>1, <1>2, <1>3, TailDestroys
<1>5. QueuesOK'
  BY <1>1, <1>4 DEF LifeInv, QueuesOK
<1>6. \A c \in Clients : <<c, "read">> \in active' => c \in reading
  BY <1>1 DEF LifeInv, ConnOK
<1> QED
  BY <1>1, <1>4, <1>5, <1>6, SameLife

LEMMA BeginLife ==
  ASSUME EchoInv, LifeInv, BeginFunctors
  PROVE  LifeInv'
<1>1. /\ batch = <<>> /\ held = {} /\ batch' = queue /\ queue' = <<>> /\ phase' = "functors"
      /\ held' = {c \in Clients : Destroys(queue, c)}
      /\ UNCHANGED <<connections, name, state, fd, channel_map, reading, crash, backlog, client, active>>
  BY DEF BeginFunctors, LifeInv, QueuesOK, Destroys, serverVars, connVars, clientVars
<1>2. DestroysOnce(queue') /\ \A c \in Clients : ~Destroys(queue', c) /\ ~Destroys(batch, c)
  BY <1>1, EmptyDestroys
<1>3. \A c \in Clients : ConnOK(c)'
  <2> SUFFICES ASSUME NEW c \in Clients PROVE ConnOK(c)'
    OBVIOUS
  <2>1. ConnOK(c) /\ ~Destroys(queue', c) /\ ~Destroys(batch, c) /\ c \notin held
    BY <1>1, <1>2 DEF LifeInv
  <2>2. Destroys(batch', c) <=> Destroys(queue, c)
    BY <1>1
  <2>3. c \in held' <=> Destroys(queue, c)
    BY <1>1
  <2> QED
    BY <1>1, <2>1, <2>2, <2>3 DEF ConnOK
<1>4. NamesOK' /\ ChannelsOK' /\ FdsApart' /\ QueuesOK'
  BY <1>1, <1>2 DEF LifeInv, NamesOK, ChannelsOK, FdsApart, QueuesOK
<1> QED
  BY <1>1, <1>3, <1>4 DEF LifeInv

LEMMA EndLife ==
  ASSUME EchoInv, LifeInv, EndFunctors
  PROVE  LifeInv'
<1>1. /\ batch = <<>> /\ phase' = "poll" /\ held' = {}
      /\ UNCHANGED <<connections, name, state, channel_map, reading, crash, backlog, client, active,
                     queue, batch>>
      /\ fd' = [c \in Clients |-> IF Alive(c)' THEN fd[c] ELSE NoFd]
  BY DEF EndFunctors, Release, serverVars, clientVars
<1>2. \A c \in Clients : Alive(c)' <=> InMap(connections, c) \/ Destroys(queue, c)
  BY <1>1 DEF Alive, Destroys, InMap
<1>3. \A c \in Clients : ~Destroys(batch, c)
  BY <1>1, EmptyDestroys
<1>4. \A c \in Clients : fd'[c] = IF state[c] = "Connected" THEN fd[c] ELSE NoFd
  BY <1>1, <1>2, <1>3 DEF LifeInv, ConnOK
<1>5. \A c \in Clients : ConnOK(c)'
  <2> SUFFICES ASSUME NEW c \in Clients PROVE ConnOK(c)'
    OBVIOUS
  <2>1. ConnOK(c) /\ ~Destroys(batch, c)
    BY <1>3 DEF LifeInv
  <2> QED
    BY <1>1, <1>4, <2>1 DEF ConnOK
<1>6. ChannelsOK'
  <2>1. \A f \in DOMAIN channel_map : channel_map[f] \in Clients
    BY DEF EchoInv, TypeOK
  <2> QED
    BY <1>1, <1>4, <2>1 DEF LifeInv, ChannelsOK
<1>7. FdsApart'
  BY <1>4 DEF LifeInv, FdsApart
<1>8. NamesOK' /\ QueuesOK'
  BY <1>1 DEF LifeInv, NamesOK, QueuesOK
<1> QED
  BY <1>1, <1>5, <1>6, <1>7, <1>8 DEF LifeInv

LEMMA DestroyLife ==
  ASSUME EchoInv, LifeInv, destroyConnection
  PROVE  LifeInv'
<1> DEFINE c == Head(batch)[2]
<1>0. /\ batch # <<>> /\ batch' = Tail(batch) /\ Head(batch)[1] = "destroy"
      /\ phase = "functors"
      /\ UNCHANGED <<connections, name, fd, held, queue, backlog, client, active, phase>>
  BY DEF destroyConnection, NextFunctor, serverVars, clientVars
<1>1. /\ batch \in Seq(Functors) /\ DestroysOnce(batch)
      /\ state \in [Clients -> {"none", "Connected", "Disconnected"}]
      /\ DOMAIN channel_map \subseteq Fds /\ channel_map \in [DOMAIN channel_map -> Clients]
  BY DEF EchoInv, TypeOK, LifeInv, QueuesOK
<1>2. /\ DestroysOnce(batch') /\ Head(batch) \in Functors
      /\ \A d \in Clients : Destroys(batch', d) <=> Destroys(batch, d) /\ Head(batch) # <<"destroy", d>>
      /\ \A d \in Clients : Head(batch) = <<"destroy", d>> => Destroys(batch, d)
  BY <1>0, <1>1, TailDestroys
<1>3. c \in Clients /\ Head(batch) = <<"destroy", c>>
  BY <1>0, <1>2, FunctorTypes
<1>4. \A d \in Clients : Destroys(batch', d) <=> Destroys(batch, d) /\ d # c
  BY <1>2, <1>3
<1>5. /\ Destroys(batch, c) /\ ConnOK(c)
      /\ state[c] = "Connected" /\ fd[c] \in DOMAIN channel_map /\ channel_map[fd[c]] = c
  BY <1>2, <1>3 DEF LifeInv, ConnOK
<1>6. /\ state' = [state EXCEPT ![c] = "Disconnected"] /\ reading' = reading \ {c}
      /\ channel_map' = Without(channel_map, fd[c]) /\ UNCHANGED crash
  BY <1>5 DEF destroyConnection, removeChannel
<1> HIDE DEF c
<1>7. /\ DOMAIN channel_map' = DOMAIN channel_map \ {fd[c]}
      /\ \A f \in DOMAIN channel_map \ {fd[c]} : channel_map'[f] = channel_map[f]
  BY <1>6 DEF Without
<1>8. state'[c] = "Disconnected" /\ \A d \in Clients : d # c => state'[d] = state[d]
  BY <1>1, <1>3, <1>6
<1>9. ASSUME NEW d \in Clients
      PROVE  ConnOK(d)'
  <2>1. ConnOK(d)
    BY DEF LifeInv
  <2>2. CASE d = c
    BY <1>0, <1>3, <1>4, <1>5, <1>6, <1>8, <2>2 DEF ConnOK
  <2>3. CASE d # c
    <3>1. state[d] = "Connected" => fd[d] # fd[c]
      BY <1>5, <2>1, <2>3 DEF ConnOK
    <3>2. /\ Destroys(batch', d) <=> Destroys(batch, d)
          /\ state'[d] = state[d] /\ (d \in reading' <=> d \in reading)
      BY <1>4, <1>6, <1>8, <2>3
    <3>3. state[d] = "Connected" => fd[d] \in DOMAIN channel_map' /\ channel_map'[fd[d]] = d
      BY <1>7, <2>1, <3>1 DEF ConnOK
    <3> QED
      BY <1>0, <2>1, <3>2, <3>3 DEF ConnOK
  <2> QED
    BY <2>2, <2>3
<1>10. ChannelsOK'
  <2> SUFFICES ASSUME NEW f \in DOMAIN channel_map'
               PROVE  state'[channel_map'[f]] = "Connected" /\ fd'[channel_map'[f]] = f
    BY DEF ChannelsOK
  <2>1. f \in DOMAIN channel_map /\ f # fd[c] /\ channel_map'[f] = channel_map[f]
    BY <1>7
  <2>2. /\ channel_map[f] \in Clients /\ state[channel_map[f]] = "Connected"
        /\ fd[channel_map[f]] = f
    BY <1>1, <2>1 DEF LifeInv, ChannelsOK
  <2>3. channel_map[f] # c
    BY <2>1, <2>2
  <2> QED
    BY <1>0, <1>8, <2>1, <2>2, <2>3
<1>11. NamesOK' /\ FdsApart' /\ QueuesOK'
  BY <1>0, <1>2 DEF LifeInv, NamesOK, FdsApart, QueuesOK
<1> QED
  BY <1>6, <1>9, <1>10, <1>11 DEF LifeInv

LEMMA ReadEndLife ==
  ASSUME EchoInv, LifeInv, NEW c \in Clients, ReadEnd(c)
  PROVE  LifeInv'
<1>0. /\ <<c, "read">> \in active /\ active' = active \ {<<c, "read">>}
      /\ phase = "handle"
      /\ fd' = [d \in Clients |-> IF Alive(d)' THEN fd[d] ELSE NoFd]
      /\ UNCHANGED <<name, state, channel_map, phase, batch, held, backlog, client>>
  BY DEF ReadEnd, Handling, Release, clientVars
<1>1. /\ queue \in Seq(Functors) /\ DestroysOnce(queue) /\ <<"destroy", c>> \in Functors
      /\ fd \in [Clients -> Fds \cup {NoFd}]
  BY FunctorTypes DEF EchoInv, TypeOK, LifeInv, QueuesOK
<1>2. /\ c \in reading /\ InMap(connections, c) /\ state[c] = "Connected"
      /\ ~Destroys(queue, c) /\ ~Destroys(batch, c)
  BY <1>0 DEF LifeInv, ConnOK
<1>3. name[c] \in DOMAIN connections /\ connections[name[c]] = c
  <2>1. PICK k \in DOMAIN connections : connections[k] = c
    BY <1>2 DEF InMap
  <2> QED
    BY <2>1 DEF LifeInv, NamesOK
<1>4. /\ reading' = reading \ {c} /\ connections' = Without(connections, name[c])
      /\ queue' = Append(queue, <<"destroy", c>>) /\ UNCHANGED crash
  BY <1>2, <1>3 DEF ReadEnd, EraseConnection, QueueDestroy
<1>5. /\ DOMAIN connections' = DOMAIN connections \ {name[c]}
      /\ \A k \in DOMAIN connections \ {name[c]} : connections'[k] = connections[k]
  BY <1>4 DEF Without
<1>6. ~InMap(connections', c)
  <2> SUFFICES ASSUME NEW k \in DOMAIN connections', connections'[k] = c PROVE FALSE
    BY DEF InMap
  <2>1. k \in DOMAIN connections /\ k # name[c] /\ connections[k] = c
    BY <1>5
  <2> QED
    BY <2>1 DEF LifeInv, NamesOK
<1>7. \A d \in Clients : d # c => (InMap(connections', d) <=> InMap(connections, d))
  BY <1>3, <1>5 DEF InMap
<1>8. /\ DestroysOnce(queue')
      /\ \A d \in Clients : Destroys(queue', d) <=> Destroys(queue, d) \/ d = c
  <2>1. <<"destroy", c>>[2] = c
    OBVIOUS
  <2>2. DestroysOnce(queue')
    BY <1>1, <1>2, <1>4, <2>1, AppendDestroys
  <2>3. \A d \in Clients : Destroys(queue', d) <=> Destroys(queue, d) \/ <<"destroy", c>> = <<"destroy", d>>
    BY <1>1, <1>4, AppendDestroys
  <2> QED
    BY <2>2, <2>3
<1>9. \A d \in Clients : Alive(d)' <=> InMap(connections', d) \/ d \in held' \/ Destroys(queue', d)
  BY DEF Alive, Destroys, InMap
<1>10. \A d \in Clients : fd'[d] = fd[d]
  <2> SUFFICES ASSUME NEW d \in Clients PROVE fd'[d] = fd[d]
    OBVIOUS
  <2>1. Alive(d) <=> Alive(d)'
    <3>1. Alive(d) <=> InMap(connections, d) \/ d \in held \/ Destroys(queue, d)
      BY DEF Alive, Destroys
    <3> QED
      BY <1>0, <1>2, <1>6, <1>7, <1>8, <1>9, <3>1
  <2>2. Alive(d) <=> fd[d] # NoFd
    BY AliveConnected
  <2> QED
    BY <1>0, <2>1, <2>2
<1>11. ASSUME NEW d \in Clients
       PROVE  ConnOK(d)'
  <2>1. ConnOK(d) /\ fd'[d] = fd[d]
    BY <1>10 DEF LifeInv
  <2>2. CASE d = c
    BY <1>0, <1>2, <1>4, <1>6, <1>8, <2>1, <2>2 DEF ConnOK
  <2>3. CASE d # c
    <3>1. /\ InMap(connections', d) <=> InMap(connections, d)
          /\ Destroys(queue', d) <=> Destroys(queue, d)
          /\ d \in reading' <=> d \in reading
          /\ <<d, "read">> \in active' => <<d, "read">> \in active
      BY <1>0, <1>4, <1>7, <1>8, <2>3
    <3> QED
      BY <1>0, <2>1, <3>1 DEF ConnOK
  <2> QED
    BY <2>2, <2>3
<1>12. NamesOK'
  BY <1>0, <1>5 DEF LifeInv, NamesOK
<1>13. ChannelsOK' /\ FdsApart'
  <2>1. \A f \in DOMAIN channel_map : channel_map[f] \in Clients
    BY DEF EchoInv, TypeOK
  <2> QED
    BY <1>0, <1>10, <2>1 DEF LifeInv, ChannelsOK, FdsApart
<1>14. QueuesOK'
  BY <1>0, <1>8 DEF LifeInv, QueuesOK
<1> QED
  BY <1>4, <1>11, <1>12, <1>13, <1>14 DEF LifeInv

(* The accepted connection gets a free descriptor and its place in         *)
(* connections_ before establishConnection() checks the thread.            *)
LEMMA AcceptEffect ==
  ASSUME EchoInv, LifeInv, handleAccept
  PROVE  \E f \in Fds :
           LET c == Head(backlog) IN
           /\ c \in Clients /\ ConnOK(c) /\ state[c] = "none" /\ ~Holds(backlog', c)
           /\ f # NoFd /\ \A d \in Clients : fd[d] # f
           /\ newConnection(c, f)
           /\ \A d \in Clients : InMap(connections', d) <=> InMap(connections, d) \/ d = c
           /\ NamesOK'
           /\ \A d \in Clients : fd'[d] = IF d = c THEN f ELSE fd[d]
           /\ \A d \in Clients : Alive(d)' <=> Alive(d) \/ d = c
<1>0. PICK f \in Fds :
        /\ IsLowestFree(f) /\ newConnection(Head(backlog), f)
        /\ fd' = [d \in Clients |-> IF d = Head(backlog) THEN f
                                    ELSE IF Alive(d)' THEN fd[d] ELSE NoFd]
  BY DEF handleAccept
<1> DEFINE c == Head(backlog)
<1>1. /\ backlog \in Seq(Clients) /\ backlog # <<>> /\ c \in Clients /\ backlog' = Tail(backlog)
      /\ UNCHANGED <<held, queue>>
  BY BacklogType DEF handleAccept
<1>2. Holds(backlog, c) /\ ~Holds(backlog', c)
  BY <1>1, TailHolds DEF LifeInv, QueuesOK
<1>3. newConnection(c, f) /\ f # NoFd /\ \A d \in Clients : fd[d] # f
  BY <1>0, Distinct DEF IsLowestFree, IsFree
<1>4. fd' = [d \in Clients |-> IF d = c THEN f ELSE IF Alive(d)' THEN fd[d] ELSE NoFd]
  BY <1>0
<1> HIDE DEF c
<1>5. ConnOK(c) /\ state[c] = "none" /\ ~InMap(connections, c)
  BY <1>1, <1>2 DEF LifeInv, ConnOK
<1>6. /\ connections' = Put(connections, next_conn_id, c) /\ next_conn_id \notin DOMAIN connections
      /\ name' = [name EXCEPT ![c] = next_conn_id] /\ name \in [Clients -> Nat]
      /\ \A k \in DOMAIN connections : connections[k] \in Clients
  BY <1>3 DEF newConnection, EchoInv, TypeOK
<1>7. /\ DOMAIN connections' = DOMAIN connections \cup {next_conn_id}
      /\ connections'[next_conn_id] = c
      /\ \A k \in DOMAIN connections : connections'[k] = connections[k]
  BY <1>6 DEF Put
<1>8. \A d \in Clients : InMap(connections', d) <=> InMap(connections, d) \/ d = c
  <2> SUFFICES ASSUME NEW d \in Clients
               PROVE  InMap(connections', d) <=> InMap(connections, d) \/ d = c
    OBVIOUS
  <2>1. InMap(connections, d) => InMap(connections', d)
    BY <1>7 DEF InMap
  <2>2. InMap(connections', c)
    BY <1>7 DEF InMap
  <2>3. InMap(connections', d) => InMap(connections, d) \/ d = c
    BY <1>7 DEF InMap
  <2> QED
    BY <2>1, <2>2, <2>3
<1>9. NamesOK'
  <2> SUFFICES ASSUME NEW k \in DOMAIN connections' PROVE name'[connections'[k]] = k
    BY DEF NamesOK
  <2>1. CASE k = next_conn_id
    BY <1>1, <1>6, <1>7, <2>1
  <2>2. CASE k \in DOMAIN connections
    <3>1. connections[k] \in Clients /\ connections[k] # c /\ name[connections[k]] = k
      BY <1>5, <1>6, <2>2 DEF InMap, LifeInv, NamesOK
    <3> QED
      BY <1>6, <1>7, <2>2, <3>1
  <2> QED
    BY <1>7, <2>1, <2>2
<1>10. \A d \in Clients : Alive(d)' <=> Alive(d) \/ d = c
  <2>1. \A d \in Clients : Alive(d)' <=> InMap(connections', d) \/ d \in held' \/ Destroys(queue', d)
    BY DEF Alive, Destroys, InMap
  <2>2. \A d \in Clients : Alive(d) <=> InMap(connections, d) \/ d \in held \/ Destroys(queue, d)
    BY DEF Alive, Destroys
  <2> QED
    BY <1>1, <1>8, <2>1, <2>2
<1>11. \A d \in Clients : fd'[d] = IF d = c THEN f ELSE fd[d]
  BY <1>4, <1>10, AliveConnected
<1> QED
  BY <1>1, <1>2, <1>3, <1>5, <1>8, <1>9, <1>10, <1>11 DEF c

LEMMA AcceptLife ==
  ASSUME EchoInv, LifeInv, handleAccept
  PROVE  ServerInv'
<1> DEFINE c == Head(backlog)
<1>0. PICK f \in Fds :
        /\ c \in Clients /\ ConnOK(c) /\ state[c] = "none" /\ ~Holds(backlog', c)
        /\ f # NoFd /\ \A d \in Clients : fd[d] # f
        /\ newConnection(c, f)
        /\ \A d \in Clients : InMap(connections', d) <=> InMap(connections, d) \/ d = c
        /\ NamesOK'
        /\ \A d \in Clients : fd'[d] = IF d = c THEN f ELSE fd[d]
        /\ \A d \in Clients : Alive(d)' <=> Alive(d) \/ d = c
  BY AcceptEffect
<1>1. /\ backlog \in Seq(Clients) /\ backlog # <<>> /\ backlog' = Tail(backlog)
      /\ active' = active \ {<<Listener, "read">>}
      /\ UNCHANGED <<phase, batch, held, queue, client>>
      /\ state \in [Clients -> {"none", "Connected", "Disconnected"}]
      /\ \A g \in DOMAIN channel_map : channel_map[g] \in Clients
  BY BacklogType DEF handleAccept, Handling, clientVars, EchoInv, TypeOK
<1>2. /\ \A d \in Clients : Holds(backlog', d) => Holds(backlog, d)
      /\ \A i, j \in DOMAIN backlog' : backlog'[i] = backlog'[j] => i = j
      /\ Holds(backlog, c)
  BY <1>1, TailHolds DEF LifeInv, QueuesOK
<1> HIDE DEF c
<1>3. FdsApart'
  BY <1>0 DEF LifeInv, FdsApart
<1>4. f \notin DOMAIN channel_map
  BY <1>0, <1>1 DEF LifeInv, ChannelsOK
<1>5. \A d \in Clients : Alive(d) <=> fd[d] # NoFd
  BY AliveConnected
<1>6. CASE getNextLoop # 0
  <2>1. NumThreads # 0 /\ crash' = "thread" /\ UNCHANGED <<channel_map, state>>
    BY <1>0, <1>6 DEF newConnection, getNextLoop
  <2>2. \A d \in Clients : Alive(d)' <=> fd'[d] # NoFd
    BY <1>0, <1>5
  <2>3. \A d \in Clients : Alive(d)' <=> InMap(connections', d) \/ d \in held' \/ Destroys(queue', d)
    BY DEF Alive, Destroys, InMap
  <2>4. ASSUME NEW g \in DOMAIN channel_map'
        PROVE  /\ \/ InMap(connections', channel_map'[g]) \/ channel_map'[g] \in held'
                  \/ Destroys(queue', channel_map'[g])
               /\ fd'[channel_map'[g]] = g
    <3>1. g \in DOMAIN channel_map /\ channel_map'[g] = channel_map[g]
      BY <2>1
    <3>2. PICK d \in Clients : d = channel_map[g]
      BY <1>1, <3>1
    <3>3. state[d] = "Connected" /\ fd[d] = g /\ d # c
      BY <1>0, <3>1, <3>2 DEF LifeInv, ChannelsOK
    <3>4. fd[d] # NoFd
      BY <3>3 DEF LifeInv, ConnOK
    <3>5. fd'[d] = g /\ fd'[d] # NoFd
      BY <1>0, <3>3, <3>4
    <3>6. InMap(connections', d) \/ d \in held' \/ Destroys(queue', d)
      BY <2>2, <2>3, <3>5
    <3> QED
      BY <3>1, <3>2, <3>5, <3>6
  <2>5. (\A g \in DOMAIN channel_map : Alive(channel_map[g]) /\ fd[channel_map[g]] = g)'
    BY <2>4 DEF Alive, Destroys
  <2>6. DescriptorsApart'
    BY <1>3, <2>2, <2>5 DEF DescriptorsApart, FdsApart
  <2> QED
    BY <2>1, <2>6 DEF ServerInv
<1>7. CASE getNextLoop = 0
  <2>1. /\ state' = [state EXCEPT ![c] = "Connected"] /\ channel_map' = Put(channel_map, f, c)
        /\ reading' = reading \cup {c} /\ UNCHANGED crash
    BY <1>0, <1>4, <1>7 DEF newConnection
  <2>2. /\ DOMAIN channel_map' = DOMAIN channel_map \cup {f} /\ channel_map'[f] = c
        /\ \A g \in DOMAIN channel_map : channel_map'[g] = channel_map[g]
    BY <1>4, <2>1 DEF Put
  <2>3. state'[c] = "Connected" /\ \A d \in Clients : d # c => state'[d] = state[d]
    BY <1>0, <1>1, <2>1
  <2>4. ASSUME NEW d \in Clients
        PROVE  ConnOK(d)'
    <3>1. ConnOK(d)
      BY DEF LifeInv
    <3>2. <<d, "read">> \in active' => <<d, "read">> \in active
      BY <1>1
    <3>3. CASE d = c
      <4>1. ~Destroys(queue, d) /\ ~Destroys(batch, d) /\ d \notin held /\ client[d] # "new"
        BY <1>0, <1>2, <3>1, <3>3 DEF ConnOK
      <4>2. InMap(connections', d) /\ d \in reading' /\ state'[d] = "Connected" /\ fd'[d] = f /\ ~Holds(backlog', d)
        BY <1>0, <2>1, <2>3, <3>3
      <4> QED
        BY <1>0, <1>1, <2>2, <3>3, <4>1, <4>2 DEF ConnOK
    <3>4. CASE d # c
      <4>1. /\ InMap(connections', d) <=> InMap(connections, d)
            /\ d \in reading' <=> d \in reading
            /\ state'[d] = state[d] /\ fd'[d] = fd[d]
            /\ Holds(backlog', d) => Holds(backlog, d)
        BY <1>0, <1>2, <2>1, <2>3, <3>4
      <4>2. state[d] = "Connected" => fd[d] \in DOMAIN channel_map' /\ channel_map'[fd[d]] = d
        BY <2>2, <3>1 DEF ConnOK
      <4> QED
        BY <1>1, <3>1, <3>2, <4>1, <4>2 DEF ConnOK
    <3> QED
      BY <3>3, <3>4
  <2>5. ChannelsOK'
    <3> SUFFICES ASSUME NEW g \in DOMAIN channel_map'
                 PROVE  state'[channel_map'[g]] = "Connected" /\ fd'[channel_map'[g]] = g
      BY DEF ChannelsOK
    <3>1. CASE g = f
      BY <1>0, <2>2, <2>3, <3>1
    <3>2. CASE g \in DOMAIN channel_map
      <4>1. /\ channel_map[g] \in Clients /\ state[channel_map[g]] = "Connected"
            /\ fd[channel_map[g]] = g /\ channel_map[g] # c
        BY <1>0, <1>1, <3>2 DEF LifeInv, ChannelsOK
      <4> QED
        BY <1>0, <2>2, <2>3, <3>2, <4>1
    <3> QED
      BY <2>2, <3>1, <3>2
  <2>6. QueuesOK'
    BY <1>1, <1>2 DEF LifeInv, QueuesOK
  <2>7. LifeInv'
    BY <1>0, <1>3, <2>1, <2>4, <2>5, <2>6 DEF LifeInv
  <2> QED
    BY <2>7 DEF ServerInv
<1> QED
  BY <1>6, <1>7

LEMMA StepsRun == Next => crash = "no"
  BY DEF Next, LoopStep, start, startListens, loop, startAgain, Poll, acceptFails, handleAccept,
     ReadData, ReadError, ReadEnd, handleWrite, Handling, BeginFunctors, ListenFunctor,
     destroyConnection, NextFunctor, EndFunctors, Connect, ClientStep, ClientSends, ClientReceives,
     ClientCloses, ClientAborts, Running

LEMMA NextLife == EchoInv /\ ServerInv /\ [Next]_vars => ServerInv'
<1> SUFFICES ASSUME EchoInv, ServerInv, [Next]_vars PROVE ServerInv'
  OBVIOUS
<1>1. CASE Next
  <2>1. LifeInv
    BY <1>1, StepsRun DEF ServerInv
  <2>2. CASE handleAccept
    BY <2>1, <2>2, AcceptLife
  <2>3. CASE ~handleAccept
    <3>1. LifeInv'
      BY <1>1, <2>1, <2>3, CalmLife, AcceptFailsLife, ConnectLife, ListenLife, BeginLife, EndLife,
         DestroyLife, ReadEndLife DEF Next, LoopStep
    <3> QED
      BY <3>1 DEF ServerInv
  <2> QED
    BY <2>2, <2>3
<1>2. CASE UNCHANGED vars
  <2>1. CASE LifeInv
    <3>1. LifeInv'
      BY <1>2, <2>1 DEF LifeInv, ConnOK, NamesOK, ChannelsOK, FdsApart, QueuesOK, DestroysOnce,
           Destroys, Holds, InMap, vars, serverVars, connVars, loopVars, clientVars
    <3> QED
      BY <3>1 DEF ServerInv
  <2>2. CASE NumThreads # 0 /\ crash = "thread" /\ DescriptorsApart
    BY <1>2, <2>2 DEF ServerInv, DescriptorsApart, Alive, InMap, vars, serverVars, connVars, loopVars,
         clientVars
  <2> QED
    BY <2>1, <2>2 DEF ServerInv
<1> QED
  BY <1>1, <1>2

-----------------------------------------------------------------------------
(* The theorems *)

LEMMA Inductive == Spec => [](EchoInv /\ ServerInv)
<1>1. Init => EchoInv /\ ServerInv
  BY InitEcho, InitLife DEF ServerInv
<1>2. EchoInv /\ ServerInv /\ [Next]_vars => (EchoInv /\ ServerInv)'
  BY NextEcho, NextLife
<1> QED
  BY <1>1, <1>2, PTL DEF Spec

(* Every variable keeps its type: no client receives more than it sent, no *)
(* socket holds more than it takes, no accept(2) finds an empty backlog,   *)
(* and the numbers in connections_ are below next_conn_id_.                *)
THEOREM TypeCorrect == Spec => []TypeOK
<1>1. EchoInv => TypeOK
  BY DEF EchoInv
<1> QED
  BY <1>1, Inductive, PTL

(* The echo neither loses nor invents a byte of an open client, for any    *)
(* results of read(2) and write(2) and any number of clients.              *)
THEOREM EchoIsConserved == Spec => []EchoConserved
<1>1. EchoInv => EchoConserved
  BY DEF EchoInv, EchoOK, EchoConserved
<1> QED
  BY <1>1, Inductive, PTL

(* Through accept, close, destruction and the reuse of descriptors no      *)
(* descriptor belongs to two connections, none is open without its         *)
(* connection, and the Poller knows only channels of existing connections  *)
(* under the descriptor they have - also when the process ends in          *)
(* newConnection() because the pool has threads.                           *)
THEOREM DescriptorsStayApart == Spec => []DescriptorsApart
<1>1. EchoInv /\ ServerInv => DescriptorsApart
  BY LifeApart DEF EchoInv, ServerInv
<1> QED
  BY <1>1, Inductive, PTL

(* Without I/O threads no assertion of the server, its connections or the  *)
(* Poller fails, however connections come, go and reuse descriptors.       *)
THEOREM SafeWithoutThreads ==
  ASSUME NumThreads = 0
  PROVE  Spec => []NoCrash
<1>1. ServerInv => NoCrash
  BY DEF ServerInv, LifeInv, NoCrash
<1> QED
  BY <1>1, Inductive, PTL

(* Without I/O threads connections_ has exactly the connections that are   *)
(* polled, each under its own name.                                        *)
THEOREM MapStaysCurrent ==
  ASSUME NumThreads = 0
  PROVE  Spec => []MapIsCurrent
<1>1. EchoInv /\ ServerInv => MapIsCurrent
  <2> SUFFICES ASSUME LifeInv, NEW c \in Clients
               PROVE  /\ c \in reading <=> InMap(connections, c)
                      /\ InMap(connections, c) =>
                           name[c] \in DOMAIN connections /\ connections[name[c]] = c
    BY DEF ServerInv, MapIsCurrent
  <2>1. c \in reading <=> InMap(connections, c)
    BY DEF LifeInv, ConnOK
  <2>2. ASSUME InMap(connections, c)
        PROVE  name[c] \in DOMAIN connections /\ connections[name[c]] = c
    BY <2>2 DEF InMap, LifeInv, NamesOK
  <2> QED
    BY <2>1, <2>2
<1> QED
  BY <1>1, Inductive, PTL
=============================================================================
