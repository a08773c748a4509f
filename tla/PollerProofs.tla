---------------------------- MODULE PollerProofs ----------------------------
(***************************************************************************)
(* Proofs about Poller, for any number of channels, any assignment of      *)
(* descriptors to them and any answers of poll(2).                         *)
(***************************************************************************)
EXTENDS Poller, TLAPS

PollEntries == [fd : Int, events : Interest]

LEMMA FdType == \A c \in Channels : Fd[c] \in Nat /\ Fd[c] \in Fds
  BY ChannelsAssumption DEF Fds

-----------------------------------------------------------------------------
(* Types *)

LEMMA InitType == Init => TypeOK
<1> SUFFICES ASSUME Init PROVE TypeOK
  OBVIOUS
<1>1. owner \in [Channels -> BOOLEAN]
  BY DEF Init
<1>2. poll_fds \in Seq([fd : Int, events : Interest]) /\ todo \in Seq(Callbacks)
  BY DEF Init
<1>3. index \in [Channels -> Int]
  BY DEF Init
<1>4. events \in [Channels -> Interest] /\ revents \in [Channels -> SUBSET Bits]
  BY DEF Init, Interest
<1> QED
  BY <1>1, <1>2, <1>3, <1>4 DEF Init, TypeOK, Lives

(* What updateChannel() and removeChannel() leave of the poll set is       *)
(* again a poll set.                                                       *)
LEMMA UpdateType ==
  ASSUME TypeOK, NEW c \in Channels, NEW ev \in Interest,
         UpdateAsserts(c), updateChannel(c, ev)
  PROVE  /\ events' \in [Channels -> Interest]
         /\ index' \in [Channels -> Int]
         /\ poll_fds' \in Seq(PollEntries)
         /\ channel_map' \in [Fds -> Channels \cup {NoChannel}]
<1>0. Fd[c] \in Nat /\ Fd[c] \in Fds /\ Ignored(Fd[c]) \in Int
  BY FdType DEF Ignored
<1>1. events' \in [Channels -> Interest]
  BY DEF updateChannel, TypeOK
<1>2. CASE index[c] < 0
  <2>1. AddEntry(c, ev)
    BY <1>2 DEF updateChannel
  <2>2. [fd |-> Fd[c], events |-> ev] \in PollEntries
    BY <1>0 DEF PollEntries
  <2>3. poll_fds \in Seq(PollEntries) /\ Len(poll_fds) \in Nat
    BY DEF TypeOK, PollEntries
  <2>4. poll_fds' \in Seq(PollEntries)
    BY <2>1, <2>2, <2>3 DEF AddEntry
  <2> QED
    BY <1>0, <1>1, <2>1, <2>3, <2>4 DEF AddEntry, TypeOK
<1>3. CASE ~(index[c] < 0)
  <2>1. ChangeEntry(c, ev) /\ EntryMatches(c)
    BY <1>3 DEF updateChannel, UpdateAsserts
  <2>2. poll_fds \in Seq(PollEntries) /\ Slot(c) \in DOMAIN poll_fds
    BY <2>1 DEF TypeOK, PollEntries, EntryMatches
  <2>3. poll_fds[Slot(c)].fd \in Int
    <3>1. poll_fds[Slot(c)] \in PollEntries
      BY <2>2
    <3> QED
      BY <3>1 DEF PollEntries
  <2>4. [fd |-> EntryFd(c, ev), events |-> ev] \in PollEntries
    BY <1>0, <2>3 DEF PollEntries, EntryFd, Entry
  <2>5. PICK e \in PollEntries : poll_fds' = [poll_fds EXCEPT ![Slot(c)] = e]
    BY <2>1, <2>2, <2>4 DEF ChangeEntry
  <2>6. poll_fds' \in Seq(PollEntries)
    BY <2>2, <2>5
  <2> QED
    BY <1>1, <2>1, <2>6 DEF ChangeEntry, TypeOK
<1> QED
  BY <1>2, <1>3

LEMMA RemoveType ==
  ASSUME TypeOK, MapExact, NEW c \in Channels, RemoveAsserts(c), removeChannel(c)
  PROVE  TypeOK'
<1>1. /\ channel_map' = [channel_map EXCEPT ![Fd[c]] = NoChannel]
      /\ index' = MovedIndex(c)
      /\ poll_fds' = [i \in 1..Len(poll_fds) - 1 |->
                        IF i = Slot(c) THEN poll_fds[Len(poll_fds)] ELSE poll_fds[i]]
      /\ life' = [life EXCEPT ![c] = "removed"]
      /\ UNCHANGED <<owner, events, failed>> /\ UNCHANGED control
  BY DEF removeChannel, Erased
<1>2. poll_fds \in Seq(PollEntries) /\ Slot(c) \in DOMAIN poll_fds
  BY DEF TypeOK, PollEntries, RemoveAsserts, EntryMatches
<1>3. Len(poll_fds) \in Nat /\ Len(poll_fds) - 1 \in Nat
  BY <1>2
<1>4. \A i \in 1..Len(poll_fds) : poll_fds[i] \in PollEntries
  BY <1>2
<1>5. poll_fds' \in Seq(PollEntries)
  BY <1>1, <1>3, <1>4
<1>6. index' \in [Channels -> Int]
  BY <1>1 DEF MovedIndex, TypeOK
<1>7. channel_map' \in [Fds -> Channels \cup {NoChannel}]
  BY <1>1 DEF TypeOK
<1> QED
  BY <1>1, <1>5, <1>6, <1>7 DEF TypeOK, Lives, control, PollEntries

LEMMA ShortSeqs ==
  ASSUME NEW S, NEW x \in S
  PROVE  <<x>> \in Seq(S) /\ <<>> \in Seq(S)
  OBVIOUS

LEMMA TailType ==
  ASSUME NEW S, NEW s \in Seq(S), s # <<>>
  PROVE  Tail(s) \in Seq(S)
  OBVIOUS

LEMMA CallbacksType == \A r : CallbacksFor(r) \in Seq(Callbacks)
<1> SUFFICES ASSUME NEW r PROVE CallbacksFor(r) \in Seq(Callbacks)
  OBVIOUS
<1> DEFINE a == IF "HUP" \in r /\ "IN" \notin r THEN <<"close">> ELSE <<>>
           b == IF r \cap {"ERR", "NVAL"} # {} THEN <<"error">> ELSE <<>>
           d == IF r \cap {"IN", "PRI"} # {} THEN <<"read">> ELSE <<>>
           e == IF "OUT" \in r THEN <<"write">> ELSE <<>>
<1>0. /\ <<"close">> \in Seq(Callbacks) /\ <<"error">> \in Seq(Callbacks)
      /\ <<"read">> \in Seq(Callbacks) /\ <<"write">> \in Seq(Callbacks)
      /\ <<>> \in Seq(Callbacks)
  <2>1. "close" \in Callbacks /\ "error" \in Callbacks /\ "read" \in Callbacks /\ "write" \in Callbacks
    BY DEF Callbacks
  <2> QED
    BY <2>1, ShortSeqs
<1>1. a \in Seq(Callbacks) /\ b \in Seq(Callbacks) /\ d \in Seq(Callbacks) /\ e \in Seq(Callbacks)
  BY <1>0
<1>2. CallbacksFor(r) = a \o b \o d \o e
  BY DEF CallbacksFor
<1> HIDE DEF a, b, d, e
<1>3. a \o b \in Seq(Callbacks)
  BY <1>1
<1>4. (a \o b) \o d \in Seq(Callbacks)
  BY <1>1, <1>3
<1>5. ((a \o b) \o d) \o e \in Seq(Callbacks)
  BY <1>1, <1>4
<1> QED
  BY <1>2, <1>5

LEMMA ReadyType ==
  ASSUME TypeOK, NEW ready \in PollAnswers, NEW i \in DOMAIN poll_fds
  PROVE  ready[i] \subseteq Bits
  BY ReadinessAssumption DEF PollAnswers, TypeOK

LEMMA LoopType ==
  ASSUME TypeOK, IndexInv, LoopStep
  PROVE  TypeOK'
<1>1. CASE poll
  <2> SUFFICES ASSUME NEW ready \in PollAnswers, FillAsserts(ready),
                 active' = {channel_map[poll_fds[i].fd] : i \in Reported(ready)},
                 revents' = [c \in Channels |-> IF c \in active' THEN ready[Slot(c)] ELSE {}],
                 phase' = "dispatch",
                 UNCHANGED <<life, owner, events, index, poll_fds, channel_map, todo, failed>>
          PROVE TypeOK'
    BY <1>1 DEF poll, Abort, TypeOK, Failures, control
  <2>1. active' \subseteq Channels
    BY DEF FillAsserts, TypeOK
  <2>2. \A c \in active' : Slot(c) \in DOMAIN poll_fds
    <3> SUFFICES ASSUME NEW i \in Reported(ready)
                 PROVE  Slot(channel_map[poll_fds[i].fd]) \in DOMAIN poll_fds
      OBVIOUS
    <3>1. /\ poll_fds[i].fd \in Fds /\ channel_map[poll_fds[i].fd] # NoChannel
          /\ channel_map[poll_fds[i].fd] \in Channels
      BY DEF FillAsserts, TypeOK
    <3>2. Registered(channel_map[poll_fds[i].fd])
      BY <3>1 DEF IndexInv, MapExact
    <3> QED
      BY <3>1, <3>2 DEF IndexInv, IndexConsistent, EntryMatches
  <2>3. revents' \in [Channels -> SUBSET Bits]
    BY <2>2, ReadyType
  <2> QED
    BY <2>1, <2>3 DEF TypeOK
<1>2. CASE \E c \in Channels : handleEvents(c)
  <2>1. PICK c \in Channels : handleEvents(c)
    BY <1>2
  <2>2. todo' \in Seq(Callbacks)
    BY <2>1, CallbacksType DEF handleEvents
  <2> QED
    BY <2>1, <2>2 DEF handleEvents, TypeOK
<1>3. CASE CallbackReturns
  <2>1. todo' \in Seq(Callbacks)
    <3>1. todo \in Seq(Callbacks) /\ (todo # <<>> => Tail(todo) \in Seq(Callbacks))
      BY TailType DEF TypeOK
    <3> QED
      BY <1>3, <3>1 DEF CallbackReturns
  <2> QED
    BY <1>3, <2>1 DEF CallbackReturns, TypeOK
<1>4. CASE DispatchEnds \/ FunctorsEnd
  BY <1>4 DEF DispatchEnds, FunctorsEnd, TypeOK
<1> QED
  BY <1>1, <1>2, <1>3, <1>4 DEF LoopStep

-----------------------------------------------------------------------------
(* The poll set *)

LEMMA InitIndex == Init => IndexInv
<1> SUFFICES ASSUME Init PROVE IndexInv
  OBVIOUS
<1>1. DOMAIN poll_fds = {}
  BY DEF Init
<1> QED
  BY <1>1 DEF Init, IndexInv, IndexConsistent, FdsDistinct, MapExact, FreshIndex,
              RegisteredIndex, Registered

(* Undoing Ignored() gives the descriptor back, and tells it from others. *)
LEMMA IgnoredFacts ==
  ASSUME NEW fd \in Nat
  PROVE  /\ Ignored(fd) \in Int /\ Ignored(fd) < 0
         /\ Ignored(Ignored(fd)) = fd
         /\ \A g \in Nat : Ignored(fd) # g /\ (Ignored(fd) = Ignored(g) => fd = g)
  BY DEF Ignored

(* Two registered channels have entries of their own. *)
LEMMA SlotsDistinct ==
  ASSUME TypeOK, IndexInv, NEW c \in Channels, NEW d \in Channels,
         Registered(c), Registered(d), Slot(c) = Slot(d)
  PROVE  c = d
<1>1. Entry(c) = Entry(d)
  BY DEF Entry
<1>2. /\ Entry(c).fd \in {Fd[c], Ignored(Fd[c])}
      /\ Entry(d).fd \in {Fd[d], Ignored(Fd[d])}
  BY DEF IndexInv, IndexConsistent, EntryMatches
<1>3. Fd[c] = Fd[d]
  BY <1>1, <1>2, FdType, IgnoredFacts
<1> QED
  BY <1>3 DEF IndexInv, FdsDistinct

LEMMA NewIndex ==
  ASSUME TypeOK, IndexInv, NEW c \in Channels, newChannel(c), UpdateAsserts(c)
  PROVE  IndexInv'
<1>0. Fd[c] \in Nat /\ Fd[c] \in Fds
  BY FdType
<1>1. life[c] = "unborn" /\ index[c] = -1
  BY DEF newChannel, IndexInv, FreshIndex
<1>2. /\ events' = [events EXCEPT ![c] = {"read"}]
      /\ poll_fds' = Append(poll_fds, [fd |-> Fd[c], events |-> {"read"}])
      /\ index' = [index EXCEPT ![c] = Len(poll_fds)]
      /\ channel_map' = [channel_map EXCEPT ![Fd[c]] = c]
      /\ life' = [life EXCEPT ![c] = "live"]
      /\ channel_map[Fd[c]] = NoChannel
  BY <1>1 DEF newChannel, updateChannel, AddEntry, UpdateAsserts
<1>3. \A d \in Channels : Registered(d) => Fd[d] # Fd[c]
  BY DEF newChannel, Registered, Open
<1>4. poll_fds \in Seq(PollEntries) /\ Len(poll_fds) \in Nat
  BY DEF TypeOK, PollEntries
<1>5. /\ DOMAIN poll_fds' = 1..Len(poll_fds) + 1
      /\ DOMAIN poll_fds = 1..Len(poll_fds)
      /\ \A i \in DOMAIN poll_fds : poll_fds'[i] = poll_fds[i]
      /\ poll_fds'[Len(poll_fds) + 1] = [fd |-> Fd[c], events |-> {"read"}]
  BY <1>2, <1>4
<1>6. \A d \in Channels : Registered(d)' <=> Registered(d) \/ d = c
  BY <1>2 DEF Registered, TypeOK
<1>7. \A d \in Channels \ {c} : Slot(d)' = Slot(d) /\ events'[d] = events[d]
                                 /\ channel_map'[Fd[d]] = (IF Fd[d] = Fd[c] THEN c ELSE channel_map[Fd[d]])
  BY <1>0, <1>2, FdType DEF Slot, TypeOK
<1>8. Slot(c)' = Len(poll_fds) + 1 /\ events'[c] = {"read"} /\ channel_map'[Fd[c]] = c
  BY <1>0, <1>2 DEF Slot, TypeOK
<1>9. \A d \in Channels : Registered(d)' => EntryMatches(d)' /\ Entry(d)'.events = events'[d]
  <2> SUFFICES ASSUME NEW d \in Channels, Registered(d)'
               PROVE  EntryMatches(d)' /\ Entry(d)'.events = events'[d]
    OBVIOUS
  <2>1. CASE d = c
    <3>1. Entry(c)' = [fd |-> Fd[c], events |-> {"read"}]
      BY <1>5, <1>8 DEF Entry
    <3>2. Slot(c)' \in DOMAIN poll_fds'
      BY <1>4, <1>5, <1>8
    <3> QED
      BY <1>8, <2>1, <3>1, <3>2 DEF EntryMatches
  <2>2. CASE d # c
    BY <1>3, <1>5, <1>6, <1>7, <2>2 DEF EntryMatches, Entry, IndexInv, IndexConsistent
  <2> QED
    BY <2>1, <2>2
<1>10. \A i \in DOMAIN poll_fds' : \E d \in Channels : Registered(d)' /\ Slot(d)' = i
  <2> SUFFICES ASSUME NEW i \in DOMAIN poll_fds'
               PROVE  \E d \in Channels : Registered(d)' /\ Slot(d)' = i
    OBVIOUS
  <2>1. CASE i = Len(poll_fds) + 1
    BY <1>6, <1>8, <2>1
  <2>2. CASE i # Len(poll_fds) + 1
    <3>1. i \in DOMAIN poll_fds
      BY <1>4, <1>5, <2>2
    <3>2. PICK d \in Channels : Registered(d) /\ Slot(d) = i
      BY <3>1 DEF IndexInv, IndexConsistent
    <3>3. d # c
      BY <1>1, <3>2 DEF Registered
    <3> QED
      BY <1>6, <1>7, <3>2, <3>3
  <2> QED
    BY <2>1, <2>2
<1>11. FdsDistinct'
  BY <1>3, <1>6 DEF FdsDistinct, IndexInv
<1>12. MapExact'
  <2> SUFFICES ASSUME NEW fd \in Fds, channel_map'[fd] # NoChannel
               PROVE  Registered(channel_map[fd])' /\ Fd[channel_map'[fd]] = fd
    BY DEF MapExact
  <2>1. CASE fd = Fd[c]
    BY <1>6, <1>8, <2>1 DEF Registered
  <2>2. CASE fd # Fd[c]
    <3>1. channel_map'[fd] = channel_map[fd] /\ channel_map[fd] \in Channels
      BY <1>2, <2>2 DEF TypeOK
    <3>2. Registered(channel_map[fd]) /\ Fd[channel_map[fd]] = fd
      BY <3>1 DEF IndexInv, MapExact
    <3>3. life'[channel_map[fd]] \in {"live", "closing"}
      BY <1>2, <3>1, <3>2 DEF Registered, TypeOK
    <3> QED
      BY <3>1, <3>2, <3>3 DEF Registered
  <2> QED
    BY <2>1, <2>2
<1>13. FreshIndex'
  BY <1>2 DEF FreshIndex, IndexInv, TypeOK
<1>14. RegisteredIndex'
  BY <1>2, <1>4 DEF RegisteredIndex, IndexInv, TypeOK
<1> QED
  BY <1>9, <1>10, <1>11, <1>12, <1>13, <1>14 DEF IndexInv, IndexConsistent

(* updateChannel() on a channel that is in the poll set already. *)
LEMMA ChangeIndex ==
  ASSUME TypeOK, IndexInv, NEW c \in Channels, NEW ev \in Interest, Registered(c),
         UpdateAsserts(c), updateChannel(c, ev),
         \A d \in Channels : (Registered(d)' <=> Registered(d))
                             /\ (life'[d] = "unborn" <=> life[d] = "unborn")
  PROVE  IndexInv'
<1>0. Fd[c] \in Nat /\ Ignored(Fd[c]) \in Int
  BY FdType, IgnoredFacts
<1>1. index[c] >= 0 /\ index[c] \in Int
  BY DEF IndexInv, RegisteredIndex, Registered, TypeOK
<1>2. ChangeEntry(c, ev) /\ EntryMatches(c) /\ events' = [events EXCEPT ![c] = ev]
  BY <1>1 DEF updateChannel, UpdateAsserts
<1>3. poll_fds \in Seq(PollEntries) /\ Slot(c) \in DOMAIN poll_fds
  BY <1>2 DEF EntryMatches, TypeOK, PollEntries
<1>4. PICK e : /\ e = [fd |-> EntryFd(c, ev), events |-> ev]
               /\ poll_fds' = [poll_fds EXCEPT ![Slot(c)] = e]
  BY <1>2 DEF ChangeEntry
<1>5. e.events = ev /\ e.fd \in {Fd[c], Ignored(Fd[c])}
  BY <1>2, <1>4 DEF EntryMatches, EntryFd
<1>6. UNCHANGED <<index, channel_map>> /\ \A d \in Channels : Slot(d)' = Slot(d)
  BY <1>2 DEF ChangeEntry, Slot
<1>7. /\ DOMAIN poll_fds' = DOMAIN poll_fds /\ poll_fds'[Slot(c)] = e
      /\ \A i \in DOMAIN poll_fds : i # Slot(c) => poll_fds'[i] = poll_fds[i]
  BY <1>3, <1>4
<1>8. \A d \in Channels : Registered(d)' => EntryMatches(d)' /\ Entry(d)'.events = events'[d]
  <2> SUFFICES ASSUME NEW d \in Channels, Registered(d)'
               PROVE  EntryMatches(d)' /\ Entry(d)'.events = events'[d]
    OBVIOUS
  <2>0. Registered(d)
    OBVIOUS
  <2>1. CASE d = c
    <3>1. Entry(c)' = e /\ events'[c] = ev
      BY <1>2, <1>6, <1>7 DEF Entry, TypeOK
    <3> QED
      BY <1>2, <1>3, <1>5, <1>6, <1>7, <2>1, <3>1 DEF EntryMatches
  <2>2. CASE d # c
    <3>1. Slot(d) # Slot(c) /\ EntryMatches(d) /\ Entry(d).events = events[d]
      BY <2>0, <2>2, SlotsDistinct DEF IndexInv, IndexConsistent
    <3>2. Entry(d)' = Entry(d) /\ events'[d] = events[d]
      BY <1>2, <1>6, <1>7, <2>2, <3>1 DEF Entry, EntryMatches, TypeOK
    <3> QED
      BY <1>6, <1>7, <3>1, <3>2 DEF EntryMatches
  <2> QED
    BY <2>1, <2>2
<1>9. \A i \in DOMAIN poll_fds' : \E d \in Channels : Registered(d)' /\ Slot(d)' = i
  BY <1>6, <1>7 DEF IndexInv, IndexConsistent
<1>10. FdsDistinct'
  BY DEF IndexInv, FdsDistinct
<1>11. MapExact'
  <2> SUFFICES ASSUME NEW fd \in Fds, channel_map[fd] # NoChannel
               PROVE  Registered(channel_map[fd])' /\ Fd[channel_map[fd]] = fd
    BY <1>6 DEF MapExact, Registered
  <2>1. PICK d \in Channels : d = channel_map[fd]
    BY DEF TypeOK
  <2>2. Registered(d) /\ Fd[d] = fd
    BY <2>1 DEF IndexInv, MapExact
  <2> QED
    BY <1>6, <2>1, <2>2 DEF Registered
<1>12. FreshIndex' /\ RegisteredIndex'
  BY <1>6 DEF IndexInv, FreshIndex, RegisteredIndex
<1> QED
  BY <1>8, <1>9, <1>10, <1>11, <1>12 DEF IndexInv, IndexConsistent

(* removeChannel(): m, the channel of the last entry, takes the place of c. *)
LEMMA RemoveMoves ==
  ASSUME TypeOK, IndexInv, NEW c \in Channels, removeChannel(c), RemoveAsserts(c)
  PROVE  \E m \in Channels :
           /\ Registered(m) /\ Slot(m) = Len(poll_fds) /\ (m = c <=> Slot(c) = Len(poll_fds))
           /\ index' = IF Slot(c) = Len(poll_fds) THEN index ELSE [index EXCEPT ![m] = index[c]]
           /\ \A d \in Channels : Registered(d) /\ d # c =>
                /\ Slot(d)' \in 1..Len(poll_fds) - 1
                /\ poll_fds'[Slot(d)'] = Entry(d)
                /\ Slot(d)' = IF d = m THEN Slot(c) ELSE Slot(d)
<1> DEFINE n == Len(poll_fds)
<1>0. poll_fds \in Seq(PollEntries) /\ n \in Nat /\ DOMAIN poll_fds = 1..n
  BY DEF TypeOK, PollEntries
<1>1. /\ channel_map' = [channel_map EXCEPT ![Fd[c]] = NoChannel]
      /\ index' = MovedIndex(c)
      /\ poll_fds' = [i \in 1..n - 1 |-> IF i = Slot(c) THEN poll_fds[n] ELSE poll_fds[i]]
      /\ life' = [life EXCEPT ![c] = "removed"]
      /\ UNCHANGED events
  BY DEF removeChannel, Erased
<1>2. Registered(c) /\ Slot(c) \in 1..n /\ EntryMatches(c) /\ index[c] \in Int
  BY <1>0 DEF removeChannel, Registered, RemoveAsserts, EntryMatches, TypeOK
<1>3. \A d \in Channels : Registered(d)' <=> Registered(d) /\ d # c
  BY <1>1 DEF Registered, TypeOK
<1>4. PICK m \in Channels : Registered(m) /\ Slot(m) = n
  <2>1. n \in DOMAIN poll_fds
    BY <1>0, <1>2
  <2>2. \A i \in DOMAIN poll_fds : \E d \in Channels : Registered(d) /\ Slot(d) = i
    BY DEF IndexInv, IndexConsistent
  <2> QED
    BY <2>1, <2>2
<1>5. channel_map[LastFd] = m
  <2>1. EntryMatches(m) /\ Fd[m] \in Nat
    BY <1>4, FdType DEF IndexInv, IndexConsistent
  <2>2. poll_fds[n].fd \in {Fd[m], Ignored(Fd[m])}
    BY <1>4, <2>1 DEF EntryMatches, Entry
  <2>3. LastFd = Fd[m]
    BY <2>1, <2>2, IgnoredFacts DEF LastFd
  <2> QED
    BY <2>1, <2>3 DEF EntryMatches
<1> HIDE DEF n
<1>6. /\ index' = IF Slot(c) = n THEN index ELSE [index EXCEPT ![m] = index[c]]
      /\ m = c <=> Slot(c) = n
  BY <1>1, <1>2, <1>4, <1>5, SlotsDistinct DEF MovedIndex, n
(* Every other registered channel is at its old place, or - the one that   *)
(* was last - at the place of c.                                           *)
<1>7. ASSUME NEW d \in Channels, Registered(d), d # c
      PROVE  /\ Slot(d)' \in 1..n - 1
             /\ poll_fds'[Slot(d)'] = Entry(d)
             /\ Slot(d)' = IF d = m THEN Slot(c) ELSE Slot(d)
  <2>1. EntryMatches(d) /\ Slot(d) \in 1..n /\ Slot(d) # Slot(c) /\ index[d] \in Int
    BY <1>0, <1>2, <1>7, SlotsDistinct DEF IndexInv, IndexConsistent, EntryMatches, TypeOK
  <2>2. CASE d = m
    <3>1. Slot(c) # n /\ index'[d] = index[c] /\ Slot(d) = n
      BY <1>4, <1>6, <1>7, <2>2 DEF TypeOK
    <3>2. Slot(d)' = Slot(c) /\ Slot(c) \in 1..n - 1
      BY <1>0, <1>2, <3>1 DEF Slot
    <3>3. poll_fds'[Slot(c)] = poll_fds[n]
      BY <1>1, <3>2
    <3> QED
      BY <2>2, <3>1, <3>2, <3>3 DEF Entry
  <2>3. CASE d # m
    <3>1. index'[d] = index[d] /\ Slot(d) # n
      BY <1>4, <1>6, <1>7, <2>3, SlotsDistinct DEF TypeOK
    <3>2. Slot(d)' = Slot(d) /\ Slot(d) \in 1..n - 1
      BY <1>0, <2>1, <3>1 DEF Slot
    <3>3. poll_fds'[Slot(d)] = poll_fds[Slot(d)]
      BY <1>1, <2>1, <3>2
    <3> QED
      BY <2>3, <3>2, <3>3 DEF Entry
  <2> QED
    BY <2>2, <2>3
<1> QED
  BY <1>4, <1>6, <1>7 DEF n

LEMMA RemoveIndex ==
  ASSUME TypeOK, IndexInv, NEW c \in Channels, removeChannel(c), RemoveAsserts(c)
  PROVE  IndexInv'
<1> DEFINE n == Len(poll_fds)
<1>0. poll_fds \in Seq(PollEntries) /\ n \in Nat /\ DOMAIN poll_fds = 1..n
  BY DEF TypeOK, PollEntries
<1>1. /\ channel_map' = [channel_map EXCEPT ![Fd[c]] = NoChannel]
      /\ poll_fds' = [i \in 1..n - 1 |-> IF i = Slot(c) THEN poll_fds[n] ELSE poll_fds[i]]
      /\ life' = [life EXCEPT ![c] = "removed"]
      /\ UNCHANGED events
  BY DEF removeChannel, Erased
<1>2. Registered(c) /\ Slot(c) \in 1..n /\ EntryMatches(c) /\ index[c] \in Int
  BY <1>0 DEF removeChannel, Registered, RemoveAsserts, EntryMatches, TypeOK
<1>3. \A d \in Channels : Registered(d)' <=> Registered(d) /\ d # c
  BY <1>1 DEF Registered, TypeOK
<1>4. PICK m \in Channels :
        /\ Registered(m) /\ Slot(m) = n /\ (m = c <=> Slot(c) = n)
        /\ index' = IF Slot(c) = n THEN index ELSE [index EXCEPT ![m] = index[c]]
        /\ \A d \in Channels : Registered(d) /\ d # c =>
             /\ Slot(d)' \in 1..n - 1
             /\ poll_fds'[Slot(d)'] = Entry(d)
             /\ Slot(d)' = IF d = m THEN Slot(c) ELSE Slot(d)
  BY RemoveMoves
<1> HIDE DEF n
<1>6. /\ index' = IF Slot(c) = n THEN index ELSE [index EXCEPT ![m] = index[c]]
      /\ m = c <=> Slot(c) = n
  BY <1>4
<1>7. ASSUME NEW d \in Channels, Registered(d), d # c
      PROVE  /\ Slot(d)' \in 1..n - 1
             /\ poll_fds'[Slot(d)'] = Entry(d)
             /\ Slot(d)' = IF d = m THEN Slot(c) ELSE Slot(d)
  BY <1>4, <1>7
<1>8. DOMAIN poll_fds' = 1..n - 1
  BY <1>1
<1>9. \A d \in Channels : Registered(d)' => EntryMatches(d)' /\ Entry(d)'.events = events'[d]
  <2> SUFFICES ASSUME NEW d \in Channels, Registered(d)'
               PROVE  EntryMatches(d)' /\ Entry(d)'.events = events'[d]
    OBVIOUS
  <2>1. Registered(d) /\ d # c
    BY <1>3
  <2>2. EntryMatches(d) /\ Entry(d).events = events[d] /\ Fd[d] # Fd[c] /\ Fd[d] \in Fds
    BY <1>2, <2>1, FdType DEF IndexInv, IndexConsistent, FdsDistinct
  <2>3. channel_map'[Fd[d]] = d
    BY <1>1, <2>2 DEF EntryMatches, TypeOK
  <2>4. Entry(d)' = Entry(d) /\ Slot(d)' \in DOMAIN poll_fds'
    BY <1>7, <1>8, <2>1 DEF Entry
  <2> QED
    BY <1>1, <2>2, <2>3, <2>4 DEF EntryMatches
<1>10. \A i \in DOMAIN poll_fds' : \E d \in Channels : Registered(d)' /\ Slot(d)' = i
  <2> SUFFICES ASSUME NEW i \in 1..n - 1
               PROVE  \E d \in Channels : Registered(d)' /\ Slot(d)' = i
    BY <1>8
  <2>0. i \in 1..n /\ i # n
    BY <1>0
  <2>1. CASE i = Slot(c)
    <3>1. m # c
      BY <1>6, <2>0, <2>1
    <3> QED
      BY <1>3, <1>4, <1>7, <2>1, <3>1
  <2>2. CASE i # Slot(c)
    <3>1. PICK d \in Channels : Registered(d) /\ Slot(d) = i
      BY <1>0, <2>0 DEF IndexInv, IndexConsistent
    <3>2. d # c /\ d # m
      BY <1>4, <2>0, <2>2, <3>1
    <3> QED
      BY <1>3, <1>7, <3>1, <3>2
  <2> QED
    BY <2>1, <2>2
<1>11. FdsDistinct'
  BY <1>3 DEF IndexInv, FdsDistinct
<1>12. MapExact'
  <2> SUFFICES ASSUME NEW fd \in Fds, channel_map'[fd] # NoChannel
               PROVE  Registered(channel_map[fd])' /\ Fd[channel_map'[fd]] = fd
    BY DEF MapExact
  <2>1. PICK d \in Channels : d = channel_map'[fd] /\ d = channel_map[fd] /\ fd # Fd[c]
    BY <1>1 DEF TypeOK
  <2>2. Registered(d) /\ Fd[d] = fd /\ d # c
    BY <2>1, ChannelsAssumption DEF IndexInv, MapExact
  <2>3. Registered(d)'
    BY <1>3, <2>2
  <2> QED
    BY <2>1, <2>2, <2>3 DEF Registered
<1>13. FreshIndex'
  <2> SUFFICES ASSUME NEW d \in Channels, life'[d] = "unborn" PROVE index'[d] = -1
    BY DEF FreshIndex
  <2>1. life[d] = "unborn" /\ d # m /\ index[d] = -1
    BY <1>1, <1>4 DEF TypeOK, Registered, IndexInv, FreshIndex
  <2> QED
    BY <1>6, <2>1 DEF TypeOK
<1>14. RegisteredIndex'
  <2> SUFFICES ASSUME NEW d \in Channels, life'[d] # "unborn" PROVE index'[d] >= 0
    BY DEF RegisteredIndex
  <2>1. index[d] >= 0 /\ index[c] >= 0
    BY <1>1, <1>2 DEF IndexInv, RegisteredIndex, Registered, TypeOK
  <2> QED
    BY <1>6, <2>1 DEF TypeOK
<1> QED
  BY <1>9, <1>10, <1>11, <1>12, <1>13, <1>14 DEF IndexInv, IndexConsistent

-----------------------------------------------------------------------------
(* Steps *)

(* Nothing a step without a change of the poll set does touches it. *)
pollset == <<life, events, index, poll_fds, channel_map>>

LEMMA SamePollSet ==
  ASSUME IndexInv, UNCHANGED pollset
  PROVE  IndexInv'
  BY DEF pollset, IndexInv, IndexConsistent, FdsDistinct, MapExact, FreshIndex, RegisteredIndex,
         Registered, EntryMatches, Entry, Slot

LEMMA LoopKeepsPollSet == ASSUME LoopStep PROVE UNCHANGED pollset
  BY DEF LoopStep, poll, handleEvents, CallbackReturns, DispatchEnds, FunctorsEnd, Abort, pollset

(* The five operations that change the interest of a registered channel.   *)
InterestOp(c) ==
  enableReading(c) \/ enableWriting(c) \/ disableReading(c) \/ disableWriting(c) \/ disableAllEvents(c)

LEMMA InterestOps ==
  ASSUME TypeOK, NEW c \in Channels, InterestOp(c)
  PROVE  \E ev \in Interest : ChangeInterest(c, ev)
<1>1. events[c] \in SUBSET {"read", "write"}
  BY DEF TypeOK, Interest
<1>2. /\ events[c] \cup {"read"} \in Interest /\ events[c] \cup {"write"} \in Interest
      /\ events[c] \ {"read"} \in Interest /\ events[c] \ {"write"} \in Interest
      /\ {} \in Interest
  BY <1>1 DEF Interest
<1> QED
  BY <1>2, Zenon DEF InterestOp, enableReading, enableWriting, disableReading, disableWriting, disableAllEvents

Aborts == \E why \in Failures : Abort(why)

LEMMA AbortKeeps == ASSUME TypeOK, Aborts PROVE TypeOK' /\ UNCHANGED pollset
  BY DEF Aborts, Abort, TypeOK, control, pollset

LEMMA FailureType == \A c : Failure(c) \in Failures
  BY DEF Failure, Failures

(* updateChannel() never succeeds on a channel that was removed. *)
LEMMA RemovedIsRefused ==
  ASSUME TypeOK, IndexInv, NEW c \in Channels, life[c] \in {"live", "removed"}, UpdateAsserts(c)
  PROVE  life[c] = "live"
<1>1. index[c] >= 0 /\ index[c] \in Int
  BY DEF IndexInv, RegisteredIndex, TypeOK
<1>2. channel_map[Fd[c]] = c
  BY <1>1 DEF UpdateAsserts, EntryMatches
<1>3. Registered(c)
  BY <1>2, FdType, ChannelsAssumption DEF IndexInv, MapExact
<1> QED
  BY <1>3 DEF Registered

(* The end of a Channel that was removed leaves the poll set alone. *)
LEMMA FreeIndex ==
  ASSUME TypeOK, IndexInv, NEW c \in Channels, life[c] = "removed",
         life' = [life EXCEPT ![c] = "gone"], UNCHANGED <<events, index, poll_fds, channel_map>>
  PROVE  IndexInv'
<1>1. \A d : d \in Channels => (Registered(d)' <=> Registered(d))
                             /\ (life'[d] = "unborn" <=> life[d] = "unborn")
  BY DEF Registered, TypeOK
<1>2. \A d : (EntryMatches(d)' <=> EntryMatches(d)) /\ Entry(d)' = Entry(d) /\ Slot(d)' = Slot(d)
  BY DEF EntryMatches, Entry, Slot
<1>3. IndexConsistent'
  BY <1>1, <1>2 DEF IndexInv, IndexConsistent
<1>4. FdsDistinct'
  BY <1>1 DEF IndexInv, FdsDistinct
<1>5. MapExact'
  <2> SUFFICES ASSUME NEW fd \in Fds, channel_map[fd] # NoChannel
               PROVE  Registered(channel_map[fd])' /\ Fd[channel_map[fd]] = fd
    BY DEF MapExact
  <2>1. PICK d \in Channels : d = channel_map[fd]
    BY DEF TypeOK
  <2>2. Registered(d) /\ Fd[d] = fd
    BY <2>1 DEF IndexInv, MapExact
  <2>3. Registered(d)'
    BY <1>1, <2>2
  <2> QED
    BY <2>1, <2>2, <2>3 DEF Registered
<1>6. FreshIndex' /\ RegisteredIndex'
  BY <1>1 DEF IndexInv, FreshIndex, RegisteredIndex
<1> QED
  BY <1>3, <1>4, <1>5, <1>6 DEF IndexInv

LEMMA ChannelStepInv ==
  ASSUME TypeOK, IndexInv, NEW c \in Channels, ChannelStep(c)
  PROVE  TypeOK' /\ IndexInv'
<1>0. {"read"} \in Interest /\ {} \in Interest
  BY DEF Interest
<1>1. CASE Aborts
  BY <1>1, AbortKeeps, SamePollSet
<1>2. CASE ~Aborts /\ newChannel(c)
  <2>1. UpdateAsserts(c) /\ updateChannel(c, {"read"})
    BY <1>2, FailureType DEF newChannel, Aborts
  <2>2. TypeOK'
    BY <1>0, <1>2, <2>1, UpdateType DEF newChannel, TypeOK, Lives, control, PollEntries
  <2> QED
    BY <1>2, <2>1, <2>2, NewIndex
<1>3. CASE ~Aborts /\ InterestOp(c)
  <2>1. PICK ev \in Interest : ChangeInterest(c, ev)
    BY <1>3, InterestOps
  <2>2. UpdateAsserts(c) /\ updateChannel(c, ev) /\ UNCHANGED life
    BY <1>3, <2>1, FailureType DEF ChangeInterest, Aborts
  <2>22. Registered(c)
    BY <2>1, <2>2, RemovedIsRefused DEF ChangeInterest, Registered
  <2>3. TypeOK'
    BY <1>3, <2>1, <2>2, UpdateType DEF ChangeInterest, TypeOK, control, PollEntries
  <2>4. IndexInv'
    BY <2>2, <2>22, ChangeIndex DEF Registered
  <2> QED
    BY <2>3, <2>4
<1>4. CASE ~Aborts /\ destroyConnection(c)
  <2>1. /\ UpdateAsserts(c) /\ updateChannel(c, {}) /\ Registered(c)
        /\ life[c] = "live" /\ life' = [life EXCEPT ![c] = "closing"]
    BY <1>4, FailureType DEF destroyConnection, Registered, Aborts
  <2>2. TypeOK'
    BY <1>0, <1>4, <2>1, UpdateType DEF destroyConnection, TypeOK, Lives, control, PollEntries
  <2>3. \A d \in Channels : (Registered(d)' <=> Registered(d))
                            /\ (life'[d] = "unborn" <=> life[d] = "unborn")
    BY <2>1 DEF Registered, TypeOK
  <2>4. IndexInv'
    BY <1>0, <2>1, <2>3, ChangeIndex
  <2> QED
    BY <2>2, <2>4
<1>5. CASE ~Aborts /\ removeChannel(c)
  <2>1. RemoveAsserts(c)
    BY <1>5, FailureType DEF removeChannel, Aborts
  <2> QED
    BY <1>5, <2>1, RemoveType, RemoveIndex DEF IndexInv
<1>6. CASE FreeChannel(c)
  <2>1. /\ life[c] = "removed" /\ life' = [life EXCEPT ![c] = "gone"]
        /\ UNCHANGED <<owner, events, index, poll_fds, channel_map, failed>> /\ UNCHANGED control
    BY <1>6 DEF FreeChannel
  <2>2. TypeOK'
    BY <2>1 DEF TypeOK, Lives, control
  <2> QED
    BY <2>1, <2>2, FreeIndex
<1> QED
  BY <1>1, <1>2, <1>3, <1>4, <1>5, <1>6 DEF ChannelStep, InterestOp

LEMMA NextInv == TypeOK /\ IndexInv /\ [Next]_vars => TypeOK' /\ IndexInv'
<1> SUFFICES ASSUME TypeOK, IndexInv, [Next]_vars PROVE TypeOK' /\ IndexInv'
  OBVIOUS
<1>1. CASE LoopStep
  BY <1>1, LoopType, LoopKeepsPollSet, SamePollSet
<1>2. CASE \E c \in Channels : ChannelStep(c)
  BY <1>2, ChannelStepInv
<1>3. CASE UNCHANGED vars
  <2>1. UNCHANGED pollset
    BY <1>3 DEF vars, pollset
  <2> QED
    BY <1>3, <2>1, SamePollSet DEF vars, TypeOK
<1> QED
  BY <1>1, <1>2, <1>3 DEF Next

(* The poll set stays consistent: whatever channels come and go, and       *)
(* whatever descriptors they reuse, index_, poll_fds_ and channel_map_     *)
(* agree after every swap removeChannel() makes.                           *)
THEOREM PollSetConsistent == Spec => [](TypeOK /\ IndexInv)
<1>1. Init => TypeOK /\ IndexInv
  BY InitType, InitIndex
<1> QED
  BY <1>1, NextInv, PTL DEF Spec

(* The types of channels and poll set hold, whatever was registered,       *)
(* changed and removed, and whatever poll(2) reported.                     *)
THEOREM TypeCorrect == Spec => []TypeOK
  BY PollSetConsistent, PTL

-----------------------------------------------------------------------------
(* A channel that asks for nothing *)

LEMMA ChangeSilent ==
  ASSUME TypeOK, IndexInv, DisabledIsSilent, NEW c \in Channels, NEW ev \in Interest,
         Registered(c), UpdateAsserts(c), updateChannel(c, ev),
         \A d \in Channels : Registered(d)' <=> Registered(d)
  PROVE  DisabledIsSilent'
<1>0. Fd[c] \in Nat /\ Ignored(Fd[c]) < 0
  BY FdType, IgnoredFacts
<1>1. index[c] >= 0 /\ index[c] \in Int
  BY DEF IndexInv, RegisteredIndex, Registered, TypeOK
<1>2. /\ EntryMatches(c) /\ events' = [events EXCEPT ![c] = ev] /\ UNCHANGED index
      /\ poll_fds' = [poll_fds EXCEPT ![Slot(c)] = [fd |-> EntryFd(c, ev), events |-> ev]]
  BY <1>1 DEF updateChannel, UpdateAsserts, ChangeEntry
<1>3. poll_fds \in Seq(PollEntries) /\ Slot(c) \in DOMAIN poll_fds
  BY <1>2 DEF EntryMatches, TypeOK, PollEntries
<1> SUFFICES ASSUME NEW d \in Channels, Registered(d), events'[d] = {}
             PROVE  Entry(d)'.fd < 0
  BY DEF DisabledIsSilent
<1>4. CASE d = c
  <2>1. ev = {}
    BY <1>2, <1>4 DEF TypeOK
  <2>2. EntryFd(c, ev) = Ignored(Fd[c])
    BY <2>1 DEF EntryFd
  <2>3. PICK e : e = [fd |-> EntryFd(c, ev), events |-> ev]
    OBVIOUS
  <2>4. Entry(c)' = e /\ e.fd = EntryFd(c, ev)
    BY <1>2, <1>3, <2>3 DEF Entry, Slot
  <2> QED
    BY <1>0, <1>4, <2>2, <2>4
<1>5. CASE d # c
  <2>1. Slot(d) # Slot(c) /\ Slot(d) \in DOMAIN poll_fds
    BY <1>5, SlotsDistinct DEF IndexInv, IndexConsistent, EntryMatches
  <2>2. Entry(d)' = Entry(d) /\ events'[d] = events[d]
    BY <1>2, <1>3, <1>5, <2>1 DEF Entry, Slot, TypeOK
  <2> QED
    BY <2>2 DEF DisabledIsSilent
<1> QED
  BY <1>4, <1>5

LEMMA NewSilent ==
  ASSUME TypeOK, IndexInv, DisabledIsSilent, NEW c \in Channels, newChannel(c), UpdateAsserts(c)
  PROVE  DisabledIsSilent'
<1>1. life[c] = "unborn" /\ index[c] = -1
  BY DEF newChannel, IndexInv, FreshIndex
<1>2. /\ events' = [events EXCEPT ![c] = {"read"}]
      /\ poll_fds' = Append(poll_fds, [fd |-> Fd[c], events |-> {"read"}])
      /\ index' = [index EXCEPT ![c] = Len(poll_fds)]
      /\ life' = [life EXCEPT ![c] = "live"]
  BY <1>1 DEF newChannel, updateChannel, AddEntry
<1>3. poll_fds \in Seq(PollEntries) /\ Len(poll_fds) \in Nat
  BY DEF TypeOK, PollEntries
<1>4. \A i \in DOMAIN poll_fds : poll_fds'[i] = poll_fds[i]
  BY <1>2, <1>3
<1> SUFFICES ASSUME NEW d \in Channels, Registered(d)', events'[d] = {}
             PROVE  Entry(d)'.fd < 0
  BY DEF DisabledIsSilent
<1>5. d # c
  BY <1>2 DEF TypeOK
<1>6. Registered(d) /\ events[d] = {} /\ Slot(d)' = Slot(d)
  BY <1>2, <1>5 DEF Registered, Slot, TypeOK
<1>7. Slot(d) \in DOMAIN poll_fds
  BY <1>6 DEF IndexInv, IndexConsistent, EntryMatches
<1> QED
  BY <1>4, <1>6, <1>7 DEF Entry, DisabledIsSilent

LEMMA RemoveSilent ==
  ASSUME TypeOK, IndexInv, DisabledIsSilent, NEW c \in Channels, removeChannel(c), RemoveAsserts(c)
  PROVE  DisabledIsSilent'
<1>1. life' = [life EXCEPT ![c] = "removed"] /\ UNCHANGED events
  BY DEF removeChannel
<1>2. \A d \in Channels : Registered(d)' => Registered(d) /\ d # c
  BY <1>1 DEF Registered, TypeOK
<1>3. \A d \in Channels : Registered(d) /\ d # c => Entry(d)' = Entry(d)
  BY RemoveMoves DEF Entry
<1> QED
  BY <1>1, <1>2, <1>3 DEF DisabledIsSilent

LEMMA NextSilent == TypeOK /\ IndexInv /\ DisabledIsSilent /\ [Next]_vars => DisabledIsSilent'
<1> SUFFICES ASSUME TypeOK, IndexInv, DisabledIsSilent, [Next]_vars PROVE DisabledIsSilent'
  OBVIOUS
<1>1. CASE UNCHANGED pollset
  BY <1>1 DEF pollset, DisabledIsSilent, Registered, Entry, Slot
<1>2. ASSUME NEW c \in Channels, ChannelStep(c), ~UNCHANGED pollset
      PROVE  DisabledIsSilent'
  <2>0. ~Aborts
    BY <1>2, AbortKeeps
  <2>1. CASE newChannel(c)
    BY <2>0, <2>1, NewSilent, FailureType DEF newChannel, Aborts
  <2>2. CASE InterestOp(c)
    <3>1. PICK ev \in Interest : ChangeInterest(c, ev)
      BY <2>2, InterestOps
    <3>2. UpdateAsserts(c) /\ updateChannel(c, ev) /\ UNCHANGED life
      BY <2>0, <3>1, FailureType DEF ChangeInterest, Aborts
    <3>3. Registered(c)
      BY <3>1, <3>2, RemovedIsRefused DEF ChangeInterest, Registered
    <3> QED
      BY <3>2, <3>3, ChangeSilent DEF Registered
  <2>3. CASE destroyConnection(c)
    <3>1. /\ UpdateAsserts(c) /\ updateChannel(c, {}) /\ Registered(c)
          /\ life[c] = "live" /\ life' = [life EXCEPT ![c] = "closing"]
      BY <2>0, <2>3, FailureType DEF destroyConnection, Registered, Aborts
    <3>2. \A d \in Channels : Registered(d)' <=> Registered(d)
      BY <3>1 DEF Registered, TypeOK
    <3>3. {} \in Interest
      BY DEF Interest
    <3> QED
      BY <3>1, <3>2, <3>3, ChangeSilent
  <2>4. CASE removeChannel(c)
    BY <2>0, <2>4, RemoveSilent, FailureType DEF removeChannel, Aborts
  <2>5. CASE FreeChannel(c)
    <3>1. \A d \in Channels : Registered(d)' <=> Registered(d)
      BY <2>5 DEF FreeChannel, Registered, TypeOK
    <3> QED
      BY <2>5, <3>1 DEF FreeChannel, DisabledIsSilent, Entry, Slot
  <2> QED
    BY <1>2, <2>1, <2>2, <2>3, <2>4, <2>5 DEF ChannelStep, InterestOp
<1>3. UNCHANGED vars => UNCHANGED pollset
  BY DEF vars, pollset
<1> QED
  BY <1>1, <1>2, <1>3, LoopKeepsPollSet DEF Next

(* A channel that asked for nothing - a connection after handleClose() -   *)
(* stays out of poll(2)'s sight: its entry is ignored, wherever the swaps  *)
(* of removeChannel() take it.                                             *)
THEOREM DisabledStaysSilent == Spec => []DisabledIsSilent
<1>1. Init => DisabledIsSilent
  BY DEF Init, DisabledIsSilent, Registered
<1> QED
  BY <1>1, NextSilent, PollSetConsistent, PTL DEF Spec

-----------------------------------------------------------------------------
(* Dispatch *)

DispatchInv == ActiveAlive /\ TeardownApart

(* What a step on channel c does to the state DispatchInv looks at. *)
LEMMA ChannelStepEffect ==
  ASSUME TypeOK, IndexInv, NEW c \in Channels, ChannelStep(c)
  PROVE  /\ UNCHANGED <<active, phase>>
         /\ \/ UNCHANGED <<life, events>>
            \/ /\ life[c] \in {"unborn", "live"} /\ life' = [life EXCEPT ![c] = "live"]
               /\ \E ev \in Interest : events' = [events EXCEPT ![c] = ev]
            \/ /\ life[c] = "live" /\ life' = [life EXCEPT ![c] = "closing"]
               /\ phase = "functors" /\ events' = [events EXCEPT ![c] = {}]
            \/ /\ life[c] = "closing" /\ life' = [life EXCEPT ![c] = "removed"]
               /\ UNCHANGED events
            \/ /\ life[c] = "removed" /\ life' = [life EXCEPT ![c] = "gone"]
               /\ UNCHANGED events
<1>1. CASE newChannel(c)
  BY <1>1 DEF newChannel, updateChannel, Abort, control, Interest
<1>2. CASE InterestOp(c)
  <2>1. PICK ev \in Interest : ChangeInterest(c, ev)
    BY <1>2, InterestOps
  <2>2. life' = life /\ life[c] = "live" => life' = [life EXCEPT ![c] = "live"]
    BY DEF TypeOK
  <2>3. UpdateAsserts(c) => life[c] = "live"
    BY <2>1, RemovedIsRefused DEF ChangeInterest
  <2> QED
    BY <2>1, <2>2, <2>3 DEF ChangeInterest, updateChannel, Abort, control
<1>3. CASE destroyConnection(c)
  BY <1>3 DEF destroyConnection, updateChannel, Abort, control, InFunctors, InUserCode
<1>4. CASE removeChannel(c)
  BY <1>4 DEF removeChannel, Abort, control
<1>5. CASE FreeChannel(c)
  BY <1>5 DEF FreeChannel, control
<1> QED
  BY <1>1, <1>2, <1>3, <1>4, <1>5 DEF ChannelStep, InterestOp

LEMMA LoopDispatch ==
  ASSUME TypeOK, IndexInv, DispatchInv, LoopStep
  PROVE  DispatchInv'
<1>0. UNCHANGED pollset
  BY LoopKeepsPollSet
<1>1. CASE poll
  <2>1. PICK ready \in PollAnswers :
          \/ UNCHANGED <<active, phase>>
          \/ /\ FillAsserts(ready) /\ phase' = "dispatch"
             /\ active' = {channel_map[poll_fds[i].fd] : i \in Reported(ready)}
    BY <1>1 DEF poll, Abort, control
  <2>2. FillAsserts(ready) =>
          \A i \in Reported(ready) : Registered(channel_map[poll_fds[i].fd])
    BY DEF FillAsserts, IndexInv, MapExact
  <2>3. \A c \in Channels : life[c] # "closing"
    BY <1>1 DEF poll, DispatchInv, TeardownApart
  <2>4. \A c \in active' : Registered(c)
    BY <2>1, <2>2 DEF DispatchInv, ActiveAlive
  <2>5. TeardownApart'
    BY <1>0, <2>1, <2>3 DEF pollset, DispatchInv, TeardownApart
  <2> QED
    BY <1>0, <2>4, <2>5 DEF pollset, DispatchInv, ActiveAlive, Registered
<1>2. CASE \E c \in Channels : handleEvents(c)
  BY <1>0, <1>2 DEF handleEvents, pollset, DispatchInv, ActiveAlive, TeardownApart, Registered
<1>3. CASE CallbackReturns
  BY <1>0, <1>3 DEF CallbackReturns, pollset, DispatchInv, ActiveAlive, TeardownApart, Registered
<1>4. CASE DispatchEnds \/ FunctorsEnd
  BY <1>0, <1>4 DEF DispatchEnds, FunctorsEnd, pollset, DispatchInv, ActiveAlive, TeardownApart, Registered
<1> QED
  BY <1>1, <1>2, <1>3, <1>4 DEF LoopStep

LEMMA ChannelDispatch ==
  ASSUME TypeOK, IndexInv, DispatchInv, NEW c \in Channels, ChannelStep(c)
  PROVE  DispatchInv'
<1>1. /\ UNCHANGED <<active, phase>>
      /\ phase = "functors" => active = {}
      /\ \A d \in Channels : life[d] = "closing" => phase = "functors" /\ events[d] = {}
      /\ active \subseteq Channels
  BY ChannelStepEffect DEF DispatchInv, TeardownApart, TypeOK
<1>2. \A d \in active : Registered(d)'
  <2> SUFFICES ASSUME NEW d \in active PROVE life'[d] \in {"live", "closing"}
    BY DEF Registered
  <2>1. life[d] \in {"live", "closing"} /\ phase # "functors"
    BY <1>1 DEF DispatchInv, ActiveAlive, Registered
  <2> QED
    BY <1>1, <2>1, ChannelStepEffect DEF TypeOK
<1>3. \A d \in Channels : life'[d] = "closing" => phase = "functors" /\ events'[d] = {}
  <2> SUFFICES ASSUME NEW d \in Channels, life'[d] = "closing"
               PROVE  phase = "functors" /\ events'[d] = {}
    OBVIOUS
  <2> QED
    BY <1>1, ChannelStepEffect DEF TypeOK
<1> QED
  BY <1>1, <1>2, <1>3 DEF DispatchInv, ActiveAlive, TeardownApart

LEMMA NextDispatch == TypeOK /\ IndexInv /\ DispatchInv /\ [Next]_vars => DispatchInv'
<1> SUFFICES ASSUME TypeOK, IndexInv, DispatchInv, [Next]_vars PROVE DispatchInv'
  OBVIOUS
<1>1. CASE UNCHANGED vars
  BY <1>1 DEF vars, DispatchInv, ActiveAlive, TeardownApart, Registered
<1> QED
  BY <1>1, LoopDispatch, ChannelDispatch DEF Next

LEMMA DispatchCorrect == Spec => []DispatchInv
<1>1. Init => DispatchInv
  BY DEF Init, DispatchInv, ActiveAlive, TeardownApart
<1> QED
  BY <1>1, NextDispatch, PollSetConsistent, PTL DEF Spec

(* No Channel is dispatched after it was removed: since destroyConnection() *)
(* runs in doPendingFunctors() only, active_channels_ never holds a        *)
(* dangling pointer.                                                       *)
THEOREM NoDanglingChannel == Spec => []ActiveAlive
<1>1. DispatchInv => ActiveAlive
  BY DEF DispatchInv
<1> QED
  BY <1>1, DispatchCorrect, PTL

-----------------------------------------------------------------------------
(* Assertions *)

LEMMA UpdateAssertsHold ==
  ASSUME TypeOK, IndexInv, NEW c \in Channels, owner[c],
         \/ Registered(c)
         \/ life[c] = "unborn" /\ \A d \in Channels : Registered(d) => Fd[d] # Fd[c]
  PROVE  UpdateAsserts(c)
<1>1. CASE Registered(c)
  <2>1. EntryMatches(c) /\ index[c] >= 0 /\ index[c] \in Int
    BY <1>1 DEF IndexInv, IndexConsistent, RegisteredIndex, Registered, TypeOK
  <2> QED
    BY <2>1 DEF UpdateAsserts
<1>2. CASE ~Registered(c)
  <2>1. index[c] = -1
    BY <1>2 DEF IndexInv, FreshIndex
  <2>2. channel_map[Fd[c]] = NoChannel
    BY <1>2, FdType DEF IndexInv, MapExact, TypeOK
  <2> QED
    BY <2>1, <2>2 DEF UpdateAsserts
<1> QED
  BY <1>1, <1>2

LEMMA FillAssertsHold ==
  ASSUME TypeOK, IndexInv, NEW ready \in PollAnswers
  PROVE  FillAsserts(ready)
<1> SUFFICES ASSUME NEW i \in Reported(ready)
             PROVE  poll_fds[i].fd \in Fds /\ channel_map[poll_fds[i].fd] # NoChannel
  BY DEF FillAsserts
<1>1. i \in DOMAIN poll_fds /\ ~(poll_fds[i].fd < 0)
  BY DEF Reported, PollAnswers
<1>2. PICK c \in Channels : Registered(c) /\ Slot(c) = i
  BY <1>1 DEF IndexInv, IndexConsistent
<1>3. EntryMatches(c) /\ Fd[c] \in Nat /\ Fd[c] \in Fds
  BY <1>2, FdType DEF IndexInv, IndexConsistent
<1>4. poll_fds[i].fd = Fd[c]
  BY <1>1, <1>2, <1>3, IgnoredFacts DEF EntryMatches, Entry
<1> QED
  BY <1>3, <1>4, ChannelsAssumption DEF EntryMatches

LEMMA NextAsserts ==
  TypeOK /\ IndexInv /\ DispatchInv /\ AssertionsHold /\ [Next]_vars => AssertionsHold'
<1> SUFFICES ASSUME TypeOK, IndexInv, DispatchInv, AssertionsHold, [Next]_vars
             PROVE  AssertionsHold'
  OBVIOUS
<1> USE DEF AssertionsHold
<1>1. CASE LoopStep
  BY <1>1, FillAssertsHold DEF LoopStep, poll, handleEvents, CallbackReturns, DispatchEnds,
                               FunctorsEnd
<1>2. CASE \E c \in Channels : ChannelStep(c)
  <2>1. PICK c \in Channels : ChannelStep(c)
    BY <1>2
  <2>2. CASE newChannel(c)
    <3>1. owner[c] => UpdateAsserts(c)
      BY <2>2, UpdateAssertsHold DEF newChannel, Registered, Open
    <3> QED
      BY <2>2, <3>1 DEF newChannel, Abort, Failure
  <2>3. CASE InterestOp(c)
    <3>1. PICK ev \in Interest : ChangeInterest(c, ev)
      BY <2>3, InterestOps
    <3>2. owner[c] /\ life[c] # "removed" => UpdateAsserts(c)
      BY <3>1, UpdateAssertsHold DEF ChangeInterest, Registered
    <3> QED
      BY <3>1, <3>2 DEF ChangeInterest, Abort, Failure
  <2>4. CASE destroyConnection(c)
    <3>1. owner[c] => UpdateAsserts(c)
      BY <2>4, UpdateAssertsHold DEF destroyConnection, Registered
    <3> QED
      BY <2>4, <3>1 DEF destroyConnection, Abort, Failure
  <2>5. CASE removeChannel(c)
    <3>1. owner[c] => RemoveAsserts(c)
      BY <2>5 DEF removeChannel, RemoveAsserts, Registered, IndexInv, IndexConsistent,
                  DispatchInv, TeardownApart
    <3> QED
      BY <2>5, <3>1 DEF removeChannel, Abort, Failure
  <2>6. CASE FreeChannel(c)
    BY <2>6 DEF FreeChannel
  <2> QED
    BY <2>1, <2>2, <2>3, <2>4, <2>5, <2>6 DEF ChannelStep, InterestOp
<1>3. CASE UNCHANGED vars
  BY <1>3 DEF vars
<1> QED
  BY <1>1, <1>2, <1>3 DEF Next

(* Whatever owner_loop_ holds, and whatever channels come, go and reuse    *)
(* descriptors, the assertions of updateChannel(), removeChannel() and     *)
(* fillActiveChannels() on the poll set fail only for a call on a channel  *)
(* that was removed before.                                                *)
THEOREM OnlyLateCallsFail == Spec => []AssertionsHold
<1>1. Init => AssertionsHold
  BY DEF Init, AssertionsHold
<1> QED
  BY <1>1, NextAsserts, PollSetConsistent, DispatchCorrect, PTL DEF Spec
=============================================================================
