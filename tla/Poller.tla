------------------------------- MODULE Poller -------------------------------
(***************************************************************************)
(* Channel and Poller (src/src/channel.cpp, include/channel.h, poller.cpp) *)
(* as the thread of one EventLoop uses them: the poll set with its O(1)    *)
(* removal, the dispatch of the events poll(2) reported, and the channels  *)
(* that come and go meanwhile.                                             *)
(*                                                                         *)
(* Everything runs in the loop's thread.  What can go wrong is the order:  *)
(* callbacks change the poll set while the channels poll(2) reported are   *)
(* still being dispatched, file descriptors are reused, and the index a    *)
(* channel keeps into poll_fds_ has to follow the swaps of removeChannel().*)
(***************************************************************************)
EXTENDS Integers, Sequences

CONSTANTS
  Channels,     \* Channel objects; each is constructed at most once
  NoChannel,    \* a null Channel*
  Fd,           \* Fd[c]: the descriptor c is constructed with; may be reused
  Readiness     \* the sets of revents poll(2) may report for a descriptor

(* The bits of pollfd.revents that handleEvents() looks at. *)
Bits == {"IN", "PRI", "OUT", "HUP", "ERR", "NVAL"}

ASSUME ChannelsAssumption ==
  /\ NoChannel \notin Channels
  /\ Fd \in [Channels -> Nat]

ASSUME ReadinessAssumption == Readiness \subseteq SUBSET Bits

VARIABLES
  life,         \* "unborn", "live", "closing" (in destroyConnection()),
                \* "removed" (from the poll set) or "gone" (destroyed)
  owner,        \* owner_loop_ == the loop
  events,       \* events_, as a subset of {"read", "write"}
  revents,      \* revents_ while the channel is in active_channels_, then {}
  index,        \* index_
  poll_fds,     \* Poller::poll_fds_: the requested events of each descriptor
  channel_map,  \* Poller::channel_map_; NoChannel where there is no entry
  active,       \* active_channels_ not yet dispatched
  phase,        \* where loop() is
  todo,         \* callbacks handleEvents() has still to make, the running one first
  failed        \* the assertion that ended the process, or "no"

vars == <<life, owner, events, revents, index, poll_fds, channel_map, active, phase, todo, failed>>

Fds == {Fd[c] : c \in Channels}
Interest == SUBSET {"read", "write"}
Callbacks == {"close", "error", "read", "write"}
Lives == {"unborn", "live", "closing", "removed", "gone"}

(* Which assertion ended the process: the one on owner_loop_ in EventLoop, *)
(* one in Poller met by a call on a channel that was removed before, or    *)
(* any other one in Poller.                                                *)
Failures == {"owner", "removed", "poller"}
Running == failed = "no"

(* loop() is in user code: in a callback of handleEvents(), or in          *)
(* doPendingFunctors() (which stands for the time before loop() as well).  *)
InUserCode == phase = "functors" \/ (phase = "callback" /\ todo # <<>>)

(* NoneEvent is never reported: the descriptor is replaced by this one. *)
Ignored(fd) == -fd - 1

TypeOK ==
  /\ life \in [Channels -> Lives]
  /\ owner \in [Channels -> BOOLEAN]
  /\ events \in [Channels -> Interest]
  /\ revents \in [Channels -> SUBSET Bits]
  /\ index \in [Channels -> Int]
  /\ poll_fds \in Seq([fd : Int, events : Interest])
  /\ channel_map \in [Fds -> Channels \cup {NoChannel}]
  /\ active \subseteq Channels
  /\ phase \in {"poll", "dispatch", "callback", "functors"}
  /\ todo \in Seq(Callbacks)
  /\ failed \in Failures \cup {"no"}

(* The constructor of Channel leaves owner_loop_ uninitialised and nothing *)
(* calls setOwnerLoop(): owner[c], the outcome of comparing it with the    *)
(* loop, is whatever the memory holds.                                     *)
Init ==
  /\ life = [c \in Channels |-> "unborn"]
  /\ owner \in [Channels -> BOOLEAN]
  /\ events = [c \in Channels |-> {}]
  /\ revents = [c \in Channels |-> {}]
  /\ index = [c \in Channels |-> -1]
  /\ poll_fds = <<>>
  /\ channel_map = [fd \in Fds |-> NoChannel]
  /\ active = {}
  /\ phase = "functors"
  /\ todo = <<>>
  /\ failed = "no"

control == <<revents, active, phase, todo>>

(* An assert() fails: the process stops. *)
Abort(why) ==
  /\ failed' = why
  /\ UNCHANGED <<life, owner, events, index, poll_fds, channel_map>>
  /\ UNCHANGED control

-----------------------------------------------------------------------------
(* The entry of poll_fds_ that index_ points at; index_ counts from 0. *)
Slot(c) == index[c] + 1
Entry(c) == poll_fds[Slot(c)]

EntryMatches(c) ==
  /\ channel_map[Fd[c]] = c
  /\ Slot(c) \in DOMAIN poll_fds
  /\ Entry(c).fd \in {Fd[c], Ignored(Fd[c])}

(* The assertions of EventLoop::updateChannel() and Poller::updateChannel(), *)
(* and which of them ends the process.                                     *)
UpdateAsserts(c) ==
  /\ owner[c]
  /\ IF index[c] < 0 THEN channel_map[Fd[c]] = NoChannel ELSE EntryMatches(c)

Failure(c) ==
  IF ~owner[c] THEN "owner" ELSE IF life[c] = "removed" THEN "removed" ELSE "poller"

(* A channel that is new to the poller gets an entry at the end. *)
AddEntry(c, ev) ==
  /\ poll_fds' = Append(poll_fds, [fd |-> Fd[c], events |-> ev])
  /\ index' = [index EXCEPT ![c] = Len(poll_fds)]
  /\ channel_map' = [channel_map EXCEPT ![Fd[c]] = c]

(* One it knows has its entry changed in place.  Nothing here turns an     *)
(* ignored descriptor back into a real one.                                *)
KeepEntryFd(c, ev) == Entry(c).fd                   \* mutant
EntryFd(c, ev) == IF ev = {} THEN Ignored(Fd[c]) ELSE Entry(c).fd

ChangeEntry(c, ev) ==
  /\ poll_fds' = [poll_fds EXCEPT ![Slot(c)] = [fd |-> EntryFd(c, ev), events |-> ev]]
  /\ UNCHANGED <<index, channel_map>>

(* Channel::update() with events_ = ev. *)
updateChannel(c, ev) ==
  /\ events' = [events EXCEPT ![c] = ev]
  /\ IF index[c] < 0 THEN AddEntry(c, ev) ELSE ChangeEntry(c, ev)

(* enableReading(), enableWriting(), disableReading(), disableWriting() and *)
(* disableAllEvents().  Nothing keeps them from a channel that was removed *)
(* while its owner lives on: sendInLoop() after destroyConnection() gets   *)
(* there.  During destroyConnection() itself (life "closing") the state    *)
(* Disconnected keeps user code off the channel.                           *)
ChangeInterest(c, ev) ==
  /\ InUserCode /\ life[c] \in {"live", "removed"} /\ Running
  /\ IF UpdateAsserts(c)
     THEN updateChannel(c, ev) /\ UNCHANGED <<life, owner, failed>> /\ UNCHANGED control
     ELSE Abort(Failure(c))

AskForHangups(c) == ChangeInterest(c, events[c] \cup {"read", "rdhup"})  \* mutant
enableReading(c) == ChangeInterest(c, events[c] \cup {"read"})
enableWriting(c) == ChangeInterest(c, events[c] \cup {"write"})
disableReading(c) == ChangeInterest(c, events[c] \ {"read"})
disableWriting(c) == ChangeInterest(c, events[c] \ {"write"})
disableAllEvents(c) == ChangeInterest(c, {})

(* The constructor, and the enableReading() that is the first thing every  *)
(* owner of a Channel does with it (Acceptor::listen(),                    *)
(* establishConnection(), the timer queue's and the wakeup channel's       *)
(* owner).  The kernel hands out a descriptor that is not open.            *)
Open(c) == life[c] \in {"live", "closing", "removed"}

newChannel(c) ==
  /\ InUserCode /\ life[c] = "unborn" /\ Running
  /\ \A d \in Channels : Open(d) => Fd[d] # Fd[c]
  /\ IF UpdateAsserts(c)
     THEN /\ updateChannel(c, {"read"})
          /\ life' = [life EXCEPT ![c] = "live"]
          /\ UNCHANGED <<owner, failed>> /\ UNCHANGED control
     ELSE Abort(Failure(c))

(* TcpConnection::destroyConnection(), which TcpServer queues rather than  *)
(* calls: it runs in doPendingFunctors().  First part: disableAllEvents(), *)
(* after which the state Disconnected keeps others off the channel.        *)
DestroyAtOnce == InUserCode                         \* mutant
InFunctors == phase = "functors"

destroyConnection(c) ==
  /\ InFunctors /\ life[c] = "live" /\ Running
  /\ IF UpdateAsserts(c)
     THEN /\ updateChannel(c, {})
          /\ life' = [life EXCEPT ![c] = "closing"]
          /\ UNCHANGED <<owner, failed>> /\ UNCHANGED control
     ELSE Abort(Failure(c))

(* Its second part, after connection_cb_: EventLoop::removeChannel().      *)
RemoveAsserts(c) ==
  /\ owner[c]
  /\ EntryMatches(c)
  /\ events[c] = {} /\ Entry(c).events = events[c]

(* The last entry takes the place of the removed one, and its channel's    *)
(* index_ is corrected; it is found by undoing Ignored().                  *)
LastFd ==
  LET fd == poll_fds[Len(poll_fds)].fd IN IF fd < 0 THEN Ignored(fd) ELSE fd

IndexNotMoved(c) == index                           \* mutant
MovedIndex(c) ==
  IF Slot(c) = Len(poll_fds) THEN index
  ELSE [index EXCEPT ![channel_map[LastFd]] = index[c]]

NotErased(c) == channel_map                         \* mutant
Erased(c) == [channel_map EXCEPT ![Fd[c]] = NoChannel]

removeChannel(c) ==
  /\ InUserCode /\ life[c] = "closing" /\ Running
  /\ IF RemoveAsserts(c)
     THEN /\ channel_map' = Erased(c)
          /\ index' = MovedIndex(c)
          /\ poll_fds' = [i \in 1..Len(poll_fds) - 1 |->
                            IF i = Slot(c) THEN poll_fds[Len(poll_fds)] ELSE poll_fds[i]]
          /\ life' = [life EXCEPT ![c] = "removed"]
          /\ UNCHANGED <<owner, events, failed>> /\ UNCHANGED control
     ELSE Abort(Failure(c))

(* The last reference to the connection is dropped: the Channel is         *)
(* destroyed and its descriptor closed.                                    *)
FreeChannel(c) ==
  /\ life[c] = "removed" /\ Running
  /\ life' = [life EXCEPT ![c] = "gone"]
  /\ UNCHANGED <<owner, events, index, poll_fds, channel_map, failed>> /\ UNCHANGED control

-----------------------------------------------------------------------------
(* poll(2) reports the requested events and, asked or not, these. *)
Reportable(ev) ==
  (IF "read" \in ev THEN {"IN", "PRI"} ELSE {}) \cup
  (IF "write" \in ev THEN {"OUT"} ELSE {}) \cup {"HUP", "ERR", "NVAL"}

(* ready[i] is what poll(2) can store in the revents of entry i. *)
PollAnswers ==
  {ready \in [DOMAIN poll_fds -> Readiness \cup {{}}] :
     \A i \in DOMAIN poll_fds :
       /\ ready[i] \subseteq Reportable(poll_fds[i].events)
       /\ poll_fds[i].fd < 0 => ready[i] = {}}

Reported(ready) == {i \in DOMAIN poll_fds : ready[i] # {}}

FillAsserts(ready) ==
  \A i \in Reported(ready) : poll_fds[i].fd \in Fds /\ channel_map[poll_fds[i].fd] # NoChannel

(* Poller::poll() and fillActiveChannels(), with active_channels_.clear(). *)
(* The channels are dispatched in the order of poll_fds_; here, in any.    *)
poll ==
  /\ phase = "poll" /\ Running
  /\ \E ready \in PollAnswers :
       IF FillAsserts(ready)
       THEN /\ active' = {channel_map[poll_fds[i].fd] : i \in Reported(ready)}
            /\ revents' = [c \in Channels |-> IF c \in active' THEN ready[Slot(c)] ELSE {}]
            /\ phase' = "dispatch"
            /\ UNCHANGED <<life, owner, events, index, poll_fds, channel_map, todo, failed>>
       ELSE Abort("poller")

(* The callbacks handleEvents() makes for revents_ = r, in their order. *)
CallbacksFor(r) ==
  (IF "HUP" \in r /\ "IN" \notin r THEN <<"close">> ELSE <<>>) \o
  (IF r \cap {"ERR", "NVAL"} # {} THEN <<"error">> ELSE <<>>) \o
  (IF r \cap {"IN", "PRI"} # {} THEN <<"read">> ELSE <<>>) \o
  (IF "OUT" \in r THEN <<"write">> ELSE <<>>)

(* loop() calls handleEvents() of the next active channel.  No callback    *)
(* changes revents_, so what handleEvents() will do is settled here, and   *)
(* the value is not looked at again.                                       *)
handleEvents(c) ==
  /\ phase = "dispatch" /\ c \in active /\ Running
  /\ active' = active \ {c}
  /\ todo' = CallbacksFor(revents[c])
  /\ revents' = [revents EXCEPT ![c] = {}]
  /\ phase' = "callback"
  /\ UNCHANGED <<life, owner, events, index, poll_fds, channel_map, failed>>

(* A callback returns, or handleEvents() does. *)
CallbackReturns ==
  /\ phase = "callback" /\ Running
  /\ IF todo # <<>> THEN todo' = Tail(todo) /\ UNCHANGED phase
                    ELSE phase' = "dispatch" /\ UNCHANGED todo
  /\ UNCHANGED <<life, owner, events, revents, index, poll_fds, channel_map, active, failed>>

(* All dispatched: on to doPendingFunctors(), and from there to poll(). *)
DispatchEnds ==
  /\ phase = "dispatch" /\ active = {} /\ Running
  /\ phase' = "functors"
  /\ UNCHANGED <<life, owner, events, revents, index, poll_fds, channel_map, active, todo, failed>>

FunctorsEnd ==
  /\ phase = "functors" /\ Running
  /\ \A c \in Channels : life[c] # "closing"
  /\ phase' = "poll"
  /\ UNCHANGED <<life, owner, events, revents, index, poll_fds, channel_map, active, todo, failed>>

ChannelStep(c) ==
  \/ newChannel(c)
  \/ enableReading(c) \/ enableWriting(c)
  \/ disableReading(c) \/ disableWriting(c) \/ disableAllEvents(c)
  \/ destroyConnection(c) \/ removeChannel(c) \/ FreeChannel(c)

LoopStep ==
  \/ poll
  \/ \E c \in Channels : handleEvents(c)
  \/ CallbackReturns \/ DispatchEnds \/ FunctorsEnd

Next == LoopStep \/ \E c \in Channels : ChannelStep(c)

Spec == Init /\ [][Next]_vars

-----------------------------------------------------------------------------
(***************************************************************************)
(* Properties                                                              *)
(***************************************************************************)

Registered(c) == life[c] \in {"live", "closing"}

(* index_, poll_fds_ and channel_map_ agree, through every swap of         *)
(* removeChannel() and every reuse of a descriptor: a registered channel   *)
(* finds its own entry at index_, with the events it asked for, and every  *)
(* entry is that of a registered channel.                                  *)
IndexConsistent ==
  /\ \A c \in Channels : Registered(c) => EntryMatches(c) /\ Entry(c).events = events[c]
  /\ \A i \in DOMAIN poll_fds : \E c \in Channels : Registered(c) /\ Slot(c) = i

(* The assertions of Poller::updateChannel(), removeChannel() and          *)
(* fillActiveChannels() on map, index and entry fail in one case only: a   *)
(* call on a channel that was removed before.  This holds whichever        *)
(* owner_loop_ happen to compare equal and whatever callbacks, removals    *)
(* and reuse of descriptors came before.                                   *)
AssertionsHold == failed # "poller"

(* What the assertion at the head of EventLoop::updateChannel() and        *)
(* removeChannel() claims: a channel's owner_loop_ is the loop.            *)
OwnerAsserted == failed # "owner"

(* No dangling Channel* is dispatched: a channel in active_channels_ is    *)
(* still registered when its turn comes.  It is what putting off           *)
(* destroyConnection() with queueInLoop() is for.                          *)
ActiveAlive == \A c \in active : Registered(c)

(* A channel that asked for nothing - a connection after handleClose() -   *)
(* is not reported again, not even for POLLHUP, which poll(2) reports      *)
(* unasked and which would close it a second time.                         *)
DisabledIsSilent ==
  \A c \in Channels : Registered(c) /\ events[c] = {} => Entry(c).fd < 0

(* enableReading() and enableWriting() "register this channel to           *)
(* Poller::poll_fds_": a channel that asked for an event is polled for it. *)
EnabledIsPolled ==
  \A c \in Channels : Registered(c) /\ events[c] # {} => Entry(c).fd = Fd[c]

(* What makes the assertions hold: two registered descriptors differ,      *)
(* channel_map_ holds registered channels only, and index_ is -1 until the *)
(* channel is registered and never again - so a removed channel is taken   *)
(* for a registered one, and found missing in channel_map_.                *)
FdsDistinct ==
  \A c, d \in Channels : Registered(c) /\ Registered(d) /\ Fd[c] = Fd[d] => c = d

MapExact ==
  \A fd \in Fds : channel_map[fd] # NoChannel =>
    Registered(channel_map[fd]) /\ Fd[channel_map[fd]] = fd

FreshIndex == \A c \in Channels : life[c] = "unborn" => index[c] = -1

RegisteredIndex == \A c \in Channels : life[c] # "unborn" => index[c] >= 0

IndexInv == IndexConsistent /\ FdsDistinct /\ MapExact /\ FreshIndex /\ RegisteredIndex

(* What makes ActiveAlive inductive: connections are taken apart only      *)
(* while nothing is waiting to be dispatched.                              *)
TeardownApart ==
  /\ phase \in {"functors", "poll"} => active = {}
  /\ \A c \in Channels : life[c] = "closing" => phase = "functors" /\ events[c] = {}
=============================================================================
