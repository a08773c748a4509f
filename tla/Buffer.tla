------------------------------- MODULE Buffer -------------------------------
(***************************************************************************)
(* Buffer (src/src/include/buffer.h, src/src/buffer.cpp): a vector of      *)
(* bytes and two indices.  Positions are counted from 0 as in the code;    *)
(* the byte at position i is buffer[i + 1].                                *)
(***************************************************************************)
EXTENDS Integers, Sequences

CONSTANTS
  CheapPrependSize,  \* the room kept free in front
  InitialSize,       \* the room behind it in a new buffer
  ExtraSize,         \* the size of extrabuf in readFd()
  Bytes, Zero,       \* what a byte can be; resize() fills with Zero
  MaxLen,            \* bound: bytes handed to one append() or prepend()
  MaxSize,           \* bound: no call that would make the vector longer
  Reserves,          \* the arguments shrink() is called with
  ShrinkAnywhere     \* FALSE: shrink() is called only at reader_idx_ = CheapPrependSize

ASSUME SizesAssumption ==
  /\ CheapPrependSize \in Nat /\ InitialSize \in Nat /\ ExtraSize \in Nat
  /\ MaxLen \in Nat /\ MaxSize \in Nat
  /\ Reserves \subseteq Nat /\ ShrinkAnywhere \in BOOLEAN
  /\ Zero \in Bytes

VARIABLES
  buffer,       \* buffer_
  reader_idx,   \* reader_idx_
  writer_idx,   \* writer_idx_
  failed        \* an assertion failed

vars == <<buffer, reader_idx, writer_idx, failed>>

Data(n) == [1..n -> Bytes]
Fill(n) == [i \in 1..n |-> Zero]

TypeOK ==
  /\ buffer \in Seq(Bytes)
  /\ reader_idx \in Nat /\ writer_idx \in Nat
  /\ failed \in BOOLEAN

Init ==
  /\ buffer = Fill(CheapPrependSize + InitialSize)
  /\ reader_idx = CheapPrependSize
  /\ writer_idx = CheapPrependSize
  /\ failed = FALSE

(* The object as one value, for the functions that call one another. *)
Now == [buffer |-> buffer, reader |-> reader_idx, writer |-> writer_idx]

readableBytes(b) == b.writer - b.reader
writableBytes(b) == Len(b.buffer) - b.writer
prependableBytes(b) == b.reader

(* The bytes from peek() to beginWrite(). *)
Content(b) == SubSeq(b.buffer, b.reader + 1, b.writer)

(* std::copy(): data is stored from position "at" on. *)
Copied(vec, data, at) ==
  [i \in 1..Len(vec) |-> IF i - at \in 1..Len(data) THEN data[i - at] ELSE vec[i]]

Become(b) ==
  /\ buffer' = b.buffer /\ reader_idx' = b.reader /\ writer_idx' = b.writer
  /\ UNCHANGED failed

Abort == failed' = TRUE /\ UNCHANGED <<buffer, reader_idx, writer_idx>>

-----------------------------------------------------------------------------
(* retrieve(), retrieveUntil(): callers take at most what is readable. *)
retrieve(len) ==
  /\ ~failed /\ len <= readableBytes(Now)
  /\ Become([Now EXCEPT !.reader = @ + len])

(* retrieveAll(), retrieveAsString(). *)
WriterToZero == [Now EXCEPT !.reader = CheapPrependSize, !.writer = 0]  \* mutant
Emptied == [Now EXCEPT !.reader = CheapPrependSize, !.writer = CheapPrependSize]

retrieveAll == ~failed /\ Become(Emptied)

(* makeSpace(len): resize() if even the free room in front would not do,   *)
(* else the content moves to the front.                                    *)
IgnoresPrependRoom(b, len) == writableBytes(b) + prependableBytes(b) < len  \* mutant
MustGrow(b, len) == writableBytes(b) + prependableBytes(b) < len + CheapPrependSize

MovedToFront(b) ==
  [buffer |-> Copied(b.buffer, Content(b), CheapPrependSize),
   reader |-> CheapPrependSize,
   writer |-> CheapPrependSize + readableBytes(b)]

MadeSpace(b, len) ==
  IF MustGrow(b, len)
  THEN [b EXCEPT !.buffer = b.buffer \o Fill(b.writer + len - Len(b.buffer))]
  ELSE MovedToFront(b)

(* ensureWritableBytes(len), and the assertions on its way: moving the     *)
(* content gains room, and in the end there is enough.                     *)
EnoughRoom(b, len) == IF writableBytes(b) < len THEN MadeSpace(b, len) ELSE b

RoomAsserts(b, len) ==
  /\ writableBytes(b) < len /\ ~MustGrow(b, len) => CheapPrependSize < b.reader
  /\ writableBytes(EnoughRoom(b, len)) >= len

(* append(): room is made, the data copied in and hasWritten() called. *)
Appended(b, data) ==
  LET r == EnoughRoom(b, Len(data)) IN
  [r EXCEPT !.buffer = Copied(@, data, r.writer), !.writer = @ + Len(data)]

append(data) ==
  /\ ~failed /\ Len(EnoughRoom(Now, Len(data)).buffer) <= MaxSize
  /\ IF RoomAsserts(Now, Len(data)) THEN Become(Appended(Now, data)) ELSE Abort

(* prepend(): callers put back at most prependableBytes(). *)
prepend(data) ==
  /\ ~failed /\ Len(data) <= prependableBytes(Now)
  /\ Become([Now EXCEPT !.reader = @ - Len(data),
                        !.buffer = Copied(@, data, reader_idx - Len(data))])

(* readFd(): readv(2) fills the writable bytes first and then extrabuf;    *)
(* what is in extrabuf is appended, to a buffer that is full by then.      *)
Filled(data) ==
  [Now EXCEPT !.buffer = Copied(@, SubSeq(data, 1, writableBytes(Now)), writer_idx),
              !.writer = Len(buffer)]

DropsExtra(data) == <<>>                                      \* mutant
Extra(data) == SubSeq(data, writableBytes(Now) + 1, Len(data))

readFd(data) ==
  /\ ~failed /\ Len(data) <= writableBytes(Now) + ExtraSize
  /\ IF Len(data) <= writableBytes(Now)
     THEN Become([Now EXCEPT !.buffer = Copied(@, data, writer_idx), !.writer = @ + Len(data)])
     ELSE /\ Len(EnoughRoom(Filled(data), Len(Extra(data))).buffer) <= MaxSize
          /\ IF RoomAsserts(Filled(data), Len(Extra(data)))
             THEN Become(Appended(Filled(data), Extra(data)))
             ELSE Abort

(* shrink(): the content moves to a new vector; the indices stay.  Nothing *)
(* under src/ calls it.                                                    *)
shrink(reserve) ==
  /\ ~failed
  /\ ShrinkAnywhere \/ reader_idx = CheapPrependSize
  /\ CheapPrependSize + readableBytes(Now) + reserve <= MaxSize
  /\ Become([Now EXCEPT !.buffer =
       Copied(Fill(CheapPrependSize + readableBytes(Now) + reserve), Content(Now), CheapPrependSize)])

Next ==
  \/ \E len \in 0..readableBytes(Now) : retrieve(len)
  \/ retrieveAll
  \/ \E n \in 0..MaxLen : \E data \in Data(n) : append(data) \/ prepend(data) \/ readFd(data)
  \/ \E reserve \in Reserves : shrink(reserve)

Spec == Init /\ [][Next]_vars

-----------------------------------------------------------------------------
(***************************************************************************)
(* Properties                                                              *)
(***************************************************************************)

(* The picture in the header, 0 <= readerIndex <= writerIndex <= size, on  *)
(* which the unsigned differences readableBytes() and writableBytes() rest. *)
IndicesOrdered == reader_idx <= writer_idx /\ writer_idx <= Len(buffer)

(* What retrieveAll() needs: the vector never gets shorter than the room   *)
(* in front.                                                               *)
FrontFits == CheapPrependSize <= Len(buffer)

(* The assertions of makeSpace() and ensureWritableBytes() never fail,     *)
(* whatever mixture of appending, prepending and retrieving came before.   *)
AssertionsHold == ~failed

(* Buffer is a queue of bytes, call by call: each adds exactly the bytes   *)
(* it was given, at the end or in front, takes exactly those asked for, or *)
(* leaves the content alone.  Growing the vector, moving the content to    *)
(* the front and the detour of readFd() through extrabuf never lose, add,  *)
(* change or reorder a byte.                                               *)
BQ == INSTANCE ByteQueue WITH content <- Content(Now)

CallByCall ==
  /\ \A len \in 0..readableBytes(Now) : retrieve(len) => BQ!Take(len)
  /\ retrieveAll => BQ!Take(readableBytes(Now))
  /\ \A n \in 0..MaxLen : \A data \in Data(n) :
       /\ append(data) \/ readFd(data) => BQ!Put(data)
       /\ prepend(data) => BQ!PutFront(data)
  /\ \A reserve \in Reserves : shrink(reserve) => UNCHANGED Content(Now)

ImplementsByteQueue ==
  BQ!Init /\ [][BQ!Next(MaxLen)]_(Content(Now)) /\ [][CallByCall]_vars
=============================================================================
