---------------------------- MODULE BufferProofs ----------------------------
(***************************************************************************)
(* Proofs about Buffer for every size of its parts, every set of bytes and *)
(* data of any length: its indices stay in order, its assertions hold, and *)
(* it is a queue of bytes.                                                 *)
(***************************************************************************)
EXTENDS Buffer, SequenceTheorems, TLAPS

(* A buffer, as the functions that call one another see it, is sound when  *)
(* its indices are in order and the room in front is there.                *)
Buffers == [buffer : Seq(Bytes), reader : Nat, writer : Nat]

Sound(b) ==
  /\ b.reader <= b.writer /\ b.writer <= Len(b.buffer)
  /\ CheapPrependSize <= Len(b.buffer)

LEMMA CopiedType ==
  ASSUME NEW vec \in Seq(Bytes), NEW data \in Seq(Bytes), NEW at \in Int
  PROVE  Copied(vec, data, at) \in Seq(Bytes) /\ Len(Copied(vec, data, at)) = Len(vec)
<1> DEFINE f(i) == IF i - at \in 1..Len(data) THEN data[i - at] ELSE vec[i]
<1>1. Len(vec) \in Nat
  OBVIOUS
<1>2. \A i \in 1..Len(vec) : f(i) \in Bytes
  OBVIOUS
<1>3. Copied(vec, data, at) = [i \in 1..Len(vec) |-> f(i)]
  BY DEF Copied
<1> HIDE DEF f
<1> QED
  BY <1>1, <1>2, <1>3

LEMMA ConcatType ==
  ASSUME NEW S, NEW s \in Seq(S), NEW t \in Seq(S)
  PROVE  s \o t \in Seq(S) /\ Len(s \o t) = Len(s) + Len(t)
  OBVIOUS

LEMMA FillType ==
  ASSUME NEW n \in Nat
  PROVE  Fill(n) \in Seq(Bytes) /\ Len(Fill(n)) = n
  BY SizesAssumption DEF Fill

LEMMA ContentType ==
  ASSUME NEW b \in Buffers, Sound(b)
  PROVE  Content(b) \in Seq(Bytes)
<1>1. b.buffer \in Seq(Bytes) /\ b.reader \in Nat /\ b.writer \in Nat
  BY DEF Buffers
<1> QED
  BY <1>1 DEF Content, Sound

(* makeSpace() and ensureWritableBytes(): the assertions on the way hold,  *)
(* and what comes out is a sound buffer with room for len bytes.           *)
LEMMA RoomIsMade ==
  ASSUME NEW b \in Buffers, Sound(b), NEW len \in Nat
  PROVE  /\ RoomAsserts(b, len)
         /\ EnoughRoom(b, len) \in Buffers /\ Sound(EnoughRoom(b, len))
         /\ Len(EnoughRoom(b, len).buffer) - EnoughRoom(b, len).writer >= len
<1>0. /\ b.buffer \in Seq(Bytes) /\ Len(b.buffer) \in Nat
      /\ b.reader \in Nat /\ b.writer \in Nat /\ CheapPrependSize \in Nat
      /\ b.reader <= b.writer /\ b.writer <= Len(b.buffer) /\ CheapPrependSize <= Len(b.buffer)
  BY SizesAssumption DEF Buffers, Sound
<1>1. CASE writableBytes(b) >= len
  <2>1. EnoughRoom(b, len) = b
    BY <1>0, <1>1 DEF EnoughRoom, writableBytes
  <2> QED
    BY <1>0, <1>1, <2>1 DEF RoomAsserts, writableBytes
<1>2. CASE writableBytes(b) < len /\ MustGrow(b, len)
  <2>1. b.writer + len - Len(b.buffer) \in Nat
    BY <1>0, <1>2 DEF writableBytes
  <2>2. PICK z \in Seq(Bytes) : z = Fill(b.writer + len - Len(b.buffer)) /\ Len(z) = b.writer + len - Len(b.buffer)
    BY <2>1, FillType
  <2>3. PICK v : v = b.buffer \o z
    OBVIOUS
  <2>4. v \in Seq(Bytes) /\ Len(v) = b.writer + len
    <3>1. v \in Seq(Bytes) /\ Len(v) = Len(b.buffer) + Len(z)
      BY <1>0, <2>2, <2>3, ConcatType
    <3> QED
      BY <1>0, <2>2, <3>1
  <2>5. EnoughRoom(b, len) = [b EXCEPT !.buffer = v]
    BY <1>2, <2>2, <2>3 DEF EnoughRoom, MadeSpace
  <2>6. EnoughRoom(b, len) \in Buffers /\ EnoughRoom(b, len).buffer = v
        /\ EnoughRoom(b, len).reader = b.reader /\ EnoughRoom(b, len).writer = b.writer
    BY <2>4, <2>5 DEF Buffers
  <2>7. Sound(EnoughRoom(b, len)) /\ Len(v) - b.writer >= len
    <3>1. CheapPrependSize <= b.writer + len /\ (b.writer + len) - b.writer >= len
          /\ b.writer <= b.writer + len
      BY <1>0, <1>2 DEF writableBytes
    <3> QED
      BY <1>0, <2>4, <2>6, <3>1 DEF Sound
  <2> QED
    BY <1>2, <2>6, <2>7 DEF RoomAsserts, writableBytes
<1>3. CASE writableBytes(b) < len /\ ~MustGrow(b, len)
  <2>1. Len(b.buffer) - b.writer + b.reader >= len + CheapPrependSize
        /\ Len(b.buffer) - b.writer < len
    BY <1>0, <1>3 DEF MustGrow, writableBytes, prependableBytes
  <2>2. CheapPrependSize < b.reader
    BY <1>0, <2>1
  <2>3. PICK v : v = Copied(b.buffer, Content(b), CheapPrependSize)
    OBVIOUS
  <2>4. v \in Seq(Bytes) /\ Len(v) = Len(b.buffer)
    BY <1>0, <2>3, CopiedType, ContentType
  <2>5. EnoughRoom(b, len) = [buffer |-> v, reader |-> CheapPrependSize,
                              writer |-> CheapPrependSize + (b.writer - b.reader)]
    BY <1>3, <2>3 DEF EnoughRoom, MadeSpace, MovedToFront, readableBytes
  <2>6. CheapPrependSize + (b.writer - b.reader) \in Nat
    BY <1>0
  <2>7. EnoughRoom(b, len) \in Buffers /\ EnoughRoom(b, len).buffer = v
        /\ EnoughRoom(b, len).reader = CheapPrependSize
        /\ EnoughRoom(b, len).writer = CheapPrependSize + (b.writer - b.reader)
    BY <1>0, <2>4, <2>5, <2>6 DEF Buffers
  <2>8. Sound(EnoughRoom(b, len)) /\ Len(v) - (CheapPrependSize + (b.writer - b.reader)) >= len
    BY <1>0, <2>1, <2>4, <2>7 DEF Sound
  <2> QED
    BY <1>3, <2>2, <2>7, <2>8 DEF RoomAsserts, writableBytes
<1>4. writableBytes(b) \in Int
  BY <1>0 DEF writableBytes
<1> QED
  BY <1>1, <1>2, <1>3, <1>4

LEMMA AppendedSound ==
  ASSUME NEW b \in Buffers, Sound(b), NEW data \in Seq(Bytes)
  PROVE  Appended(b, data) \in Buffers /\ Sound(Appended(b, data))
<1>0. Len(data) \in Nat
  OBVIOUS
<1>1. PICK r \in Buffers : r = EnoughRoom(b, Len(data)) /\ Sound(r) /\ Len(r.buffer) - r.writer >= Len(data)
  BY <1>0, RoomIsMade
<1>2. /\ r.buffer \in Seq(Bytes) /\ Len(r.buffer) \in Nat /\ r.reader \in Nat /\ r.writer \in Nat
      /\ r.reader <= r.writer /\ CheapPrependSize <= Len(r.buffer)
  BY <1>1 DEF Buffers, Sound
<1>3. PICK v \in Seq(Bytes) : v = Copied(r.buffer, data, r.writer) /\ Len(v) = Len(r.buffer)
  BY <1>2, CopiedType
<1>4. PICK w \in Nat : w = r.writer + Len(data)
  BY <1>0, <1>2
<1>6. Appended(b, data) = [r EXCEPT !.buffer = v, !.writer = w]
  BY <1>1, <1>3, <1>4 DEF Appended
<1>5. /\ Appended(b, data) \in Buffers /\ Appended(b, data).buffer = v
      /\ Appended(b, data).reader = r.reader /\ Appended(b, data).writer = w
  BY <1>2, <1>6 DEF Buffers
<1> QED
  BY <1>0, <1>1, <1>2, <1>3, <1>4, <1>5, SizesAssumption DEF Sound

-----------------------------------------------------------------------------
(* Steps *)

BufferInv == TypeOK /\ IndicesOrdered /\ FrontFits /\ ~failed

LEMMA NowSound == BufferInv => Now \in Buffers /\ Sound(Now)
  BY DEF BufferInv, TypeOK, IndicesOrdered, FrontFits, Now, Buffers, Sound

LEMMA BecomeInv ==
  ASSUME BufferInv, NEW b \in Buffers, Sound(b), Become(b)
  PROVE  BufferInv'
  BY DEF BufferInv, TypeOK, IndicesOrdered, FrontFits, Buffers, Sound, Become

LEMMA InitInv == Init => BufferInv
<1> SUFFICES ASSUME Init PROVE BufferInv
  OBVIOUS
<1>1. CheapPrependSize \in Nat /\ InitialSize \in Nat /\ CheapPrependSize + InitialSize \in Nat
  BY SizesAssumption
<1>2. buffer \in Seq(Bytes) /\ Len(buffer) = CheapPrependSize + InitialSize
  BY <1>1, FillType DEF Init
<1>3. reader_idx = CheapPrependSize /\ writer_idx = CheapPrependSize /\ failed = FALSE
  BY DEF Init
<1>4. IndicesOrdered /\ FrontFits
  BY <1>1, <1>2, <1>3 DEF IndicesOrdered, FrontFits
<1>5. TypeOK
  BY <1>1, <1>2, <1>3 DEF TypeOK
<1> QED
  BY <1>3, <1>4, <1>5 DEF BufferInv

LEMMA TakeInv ==
  ASSUME BufferInv, NEW len \in 0..readableBytes(Now), retrieve(len)
  PROVE  BufferInv'
  BY DEF BufferInv, TypeOK, IndicesOrdered, FrontFits, retrieve, readableBytes, Now, Become

LEMMA EmptyInv ==
  ASSUME BufferInv, retrieveAll
  PROVE  BufferInv'
  BY SizesAssumption
     DEF BufferInv, TypeOK, IndicesOrdered, FrontFits, retrieveAll, Emptied, Now, Become

LEMMA AppendInv ==
  ASSUME BufferInv, NEW data \in Seq(Bytes), append(data)
  PROVE  BufferInv'
<1>1. RoomAsserts(Now, Len(data))
  BY NowSound, RoomIsMade
<1>2. Become(Appended(Now, data))
  BY <1>1 DEF append
<1> QED
  BY <1>2, NowSound, AppendedSound, BecomeInv

LEMMA PrependInv ==
  ASSUME BufferInv, NEW data \in Seq(Bytes), prepend(data)
  PROVE  BufferInv'
<1>1. /\ buffer \in Seq(Bytes) /\ reader_idx \in Nat /\ writer_idx \in Nat /\ Len(buffer) \in Nat
      /\ Len(data) \in Nat
  BY DEF BufferInv, TypeOK
<1>2. Len(data) <= reader_idx /\ reader_idx - Len(data) \in Nat
  BY <1>1 DEF prepend, prependableBytes, Now
<1>3. /\ reader_idx' = reader_idx - Len(data) /\ UNCHANGED <<writer_idx, failed>>
      /\ buffer' = Copied(buffer, data, reader_idx - Len(data))
  BY DEF prepend, Become, Now
<1>4. buffer' \in Seq(Bytes) /\ Len(buffer') = Len(buffer)
  BY <1>1, <1>2, <1>3, CopiedType
<1> QED
  BY <1>1, <1>2, <1>3, <1>4 DEF BufferInv, TypeOK, IndicesOrdered, FrontFits

LEMMA ReadInv ==
  ASSUME BufferInv, NEW data \in Seq(Bytes), readFd(data)
  PROVE  BufferInv'
<1>1. /\ buffer \in Seq(Bytes) /\ reader_idx \in Nat /\ writer_idx \in Nat /\ Len(buffer) \in Nat
      /\ Len(data) \in Nat /\ writer_idx <= Len(buffer) /\ reader_idx <= writer_idx
      /\ CheapPrependSize <= Len(buffer)
  BY DEF BufferInv, TypeOK, IndicesOrdered, FrontFits
<1>2. writableBytes(Now) = Len(buffer) - writer_idx
  BY DEF writableBytes, Now
<1>3. CASE Len(data) <= writableBytes(Now)
  <2>1. /\ buffer' = Copied(buffer, data, writer_idx) /\ writer_idx' = writer_idx + Len(data)
        /\ UNCHANGED <<reader_idx, failed>>
    BY <1>3 DEF readFd, Become, Now
  <2>2. buffer' \in Seq(Bytes) /\ Len(buffer') = Len(buffer)
    BY <1>1, <2>1, CopiedType
  <2> QED
    BY <1>1, <1>2, <1>3, <2>1, <2>2 DEF BufferInv, TypeOK, IndicesOrdered, FrontFits
<1>4. CASE ~(Len(data) <= writableBytes(Now))
  <2>1. /\ SubSeq(data, 1, writableBytes(Now)) \in Seq(Bytes)
        /\ Extra(data) \in Seq(Bytes)
    BY <1>1, <1>2, <1>4 DEF Extra
  <2> DEFINE v == Copied(buffer, SubSeq(data, 1, writableBytes(Now)), writer_idx)
  <2>2. v \in Seq(Bytes) /\ Len(v) = Len(buffer)
    <3>1. PICK s \in Seq(Bytes) : s = SubSeq(data, 1, writableBytes(Now))
      BY <2>1
    <3>2. writer_idx \in Int
      BY <1>1
    <3> QED
      BY <1>1, <3>1, <3>2, CopiedType
  <2>3. Filled(data) = [buffer |-> v, reader |-> reader_idx, writer |-> Len(buffer)]
    <3>1. Filled(data) = [Now EXCEPT !.buffer = v, !.writer = Len(buffer)]
      <4>1. Now.buffer = buffer
        BY DEF Now
      <4> QED
        BY <4>1 DEF Filled
    <3> HIDE DEF v
    <3> QED
      BY <3>1 DEF Now
  <2> HIDE DEF v
  <2>4. Filled(data) \in Buffers /\ Sound(Filled(data))
    BY <1>1, <2>2, <2>3 DEF Buffers, Sound
  <2>5. RoomAsserts(Filled(data), Len(Extra(data)))
    BY <2>1, <2>4, RoomIsMade
  <2>6. Become(Appended(Filled(data), Extra(data)))
    BY <1>4, <2>5 DEF readFd
  <2> QED
    BY <2>1, <2>4, <2>6, AppendedSound, BecomeInv
<1> QED
  BY <1>3, <1>4

LEMMA ShrinkInv ==
  ASSUME BufferInv, ~ShrinkAnywhere, NEW reserve \in Nat, shrink(reserve)
  PROVE  BufferInv'
<1>1. /\ reader_idx = CheapPrependSize /\ CheapPrependSize \in Nat /\ writer_idx \in Nat
      /\ reader_idx <= writer_idx
  BY SizesAssumption DEF shrink, BufferInv, TypeOK, IndicesOrdered
<1>2. readableBytes(Now) = writer_idx - reader_idx
  BY DEF readableBytes, Now
<1>3. PICK n \in Nat : n = CheapPrependSize + readableBytes(Now) + reserve
  BY <1>1, <1>2
<1>4. n >= writer_idx /\ n >= CheapPrependSize
  BY <1>1, <1>2, <1>3
<1>5. buffer' = Copied(Fill(n), Content(Now), CheapPrependSize) /\ UNCHANGED <<reader_idx, writer_idx, failed>>
  BY <1>3 DEF shrink, Become, Now
<1>6. buffer' \in Seq(Bytes) /\ Len(buffer') = n
  BY <1>1, <1>3, <1>5, FillType, CopiedType, NowSound, ContentType
<1> QED
  BY <1>1, <1>4, <1>5, <1>6 DEF BufferInv, TypeOK, IndicesOrdered, FrontFits

LEMMA DataType == \A n \in 0..MaxLen : Data(n) \subseteq Seq(Bytes)
  BY SizesAssumption DEF Data

LEMMA NextInv == ~ShrinkAnywhere => (BufferInv /\ [Next]_vars => BufferInv')
<1> SUFFICES ASSUME ~ShrinkAnywhere, BufferInv, [Next]_vars PROVE BufferInv'
  OBVIOUS
<1>1. CASE Next
  <2>2. ASSUME NEW n \in 0..MaxLen, NEW data \in Data(n), append(data) \/ prepend(data) \/ readFd(data)
        PROVE  BufferInv'
    <3>1. data \in Seq(Bytes)
      BY DataType
    <3> QED
      BY <2>2, <3>1, AppendInv, PrependInv, ReadInv
  <2>3. ASSUME NEW reserve \in Reserves, shrink(reserve) PROVE BufferInv'
    BY <2>3, ShrinkInv, SizesAssumption
  <2> QED
    BY <1>1, <2>2, <2>3, TakeInv, EmptyInv DEF Next
<1>2. CASE UNCHANGED vars
  BY <1>2 DEF vars, BufferInv, TypeOK, IndicesOrdered, FrontFits
<1> QED
  BY <1>1, <1>2

LEMMA BufferCorrect == ~ShrinkAnywhere => (Spec => []BufferInv)
<1> SUFFICES ASSUME ~ShrinkAnywhere PROVE Spec => []BufferInv
  OBVIOUS
<1> QED
  BY InitInv, NextInv, PTL DEF Spec

(* The indices stay in order, 0 <= readerIndex <= writerIndex <= size,     *)
(* whatever is appended, prepended, read and retrieved - and shrink() is   *)
(* harmless when it is called with readerIndex = CheapPrependSize.         *)
THEOREM IndicesStayOrdered == ~ShrinkAnywhere => (Spec => []IndicesOrdered)
<1> SUFFICES ASSUME ~ShrinkAnywhere PROVE Spec => []IndicesOrdered
  OBVIOUS
<1>1. BufferInv => IndicesOrdered
  BY DEF BufferInv
<1> QED
  BY <1>1, BufferCorrect, PTL

(* No assertion of makeSpace() or ensureWritableBytes() can fail. *)
THEOREM RoomIsAlwaysMade == ~ShrinkAnywhere => (Spec => []AssertionsHold)
<1> SUFFICES ASSUME ~ShrinkAnywhere PROVE Spec => []AssertionsHold
  OBVIOUS
<1>1. BufferInv => AssertionsHold
  BY DEF BufferInv, AssertionsHold
<1> QED
  BY <1>1, BufferCorrect, PTL

-----------------------------------------------------------------------------
(* What the steps do to the bytes between the indices *)

(* The bytes from position r to position w of a vector. *)
LEMMA Piece ==
  ASSUME NEW vec \in Seq(Bytes), NEW r \in Nat, NEW w \in Nat, r <= w, w <= Len(vec)
  PROVE  /\ SubSeq(vec, r + 1, w) \in Seq(Bytes)
         /\ Len(SubSeq(vec, r + 1, w)) = w - r
         /\ \A i \in 1..(w - r) : SubSeq(vec, r + 1, w)[i] = vec[r + i]
<1>1. PICK m \in Int : m = r + 1
  OBVIOUS
<1>2. w \in Int /\ \A i \in m..w : vec[i] \in Bytes
  BY <1>1
<1>3. /\ SubSeq(vec, m, w) \in Seq(Bytes)
      /\ Len(SubSeq(vec, m, w)) = IF m <= w THEN w - m + 1 ELSE 0
      /\ \A i \in 1..w - m + 1 : SubSeq(vec, m, w)[i] = vec[m + i - 1]
  BY <1>1, <1>2, SubSeqProperties, SMT
<1>4. (IF m <= w THEN w - m + 1 ELSE 0) = w - r /\ w - m + 1 = w - r
  BY <1>1
<1>5. \A i \in 1..(w - r) : m + i - 1 = r + i
  BY <1>1
<1> QED
  BY <1>1, <1>3, <1>4, <1>5

LEMMA PieceIs ==
  ASSUME NEW vec \in Seq(Bytes), NEW r \in Nat, NEW w \in Nat, r <= w, w <= Len(vec),
         NEW s \in Seq(Bytes), Len(s) = w - r, \A i \in 1..(w - r) : vec[r + i] = s[i]
  PROVE  SubSeq(vec, r + 1, w) = s
<1> DEFINE p == SubSeq(vec, r + 1, w)
<1>1. p \in Seq(Bytes) /\ Len(p) = w - r /\ \A i \in 1..(w - r) : p[i] = vec[r + i]
  BY Piece
<1>2. \A i \in 1..Len(p) : p[i] = s[i]
  BY <1>1
<1> HIDE DEF p
<1>3. p = s
  BY <1>1, <1>2, SeqEqual, Zenon
<1> QED
  BY <1>3 DEF p

LEMMA CopiedAt ==
  ASSUME NEW vec \in Seq(Bytes), NEW data \in Seq(Bytes), NEW at \in Int, NEW i \in 1..Len(vec)
  PROVE  Copied(vec, data, at)[i] = IF i - at \in 1..Len(data) THEN data[i - at] ELSE vec[i]
  BY DEF Copied

LEMMA ConcatAt ==
  ASSUME NEW s \in Seq(Bytes), NEW t \in Seq(Bytes), NEW i \in 1..(Len(s) + Len(t))
  PROVE  (s \o t)[i] = IF i <= Len(s) THEN s[i] ELSE t[i - Len(s)]
  BY ConcatProperties, Zenon

(* Data copied behind the content comes after it. *)
LEMMA CopiedBehind ==
  ASSUME NEW vec \in Seq(Bytes), NEW r \in Nat, NEW w \in Nat, r <= w,
         NEW data \in Seq(Bytes), w + Len(data) <= Len(vec)
  PROVE  SubSeq(Copied(vec, data, w), r + 1, w + Len(data)) = SubSeq(vec, r + 1, w) \o data
<1>1. Len(data) \in Nat /\ Len(vec) \in Nat /\ w <= Len(vec) /\ w + Len(data) \in Nat /\ r <= w + Len(data)
  OBVIOUS
<1>2. PICK v \in Seq(Bytes) : v = Copied(vec, data, w) /\ Len(v) = Len(vec)
  BY CopiedType
<1>3. PICK p \in Seq(Bytes) : /\ p = SubSeq(vec, r + 1, w) /\ Len(p) = w - r
                              /\ \A i \in 1..(w - r) : p[i] = vec[r + i]
  <2>1. /\ SubSeq(vec, r + 1, w) \in Seq(Bytes) /\ Len(SubSeq(vec, r + 1, w)) = w - r
        /\ \A i \in 1..(w - r) : SubSeq(vec, r + 1, w)[i] = vec[r + i]
    BY <1>1, Piece
  <2> QED
    BY <2>1, Zenon
<1>4. PICK q \in Seq(Bytes) : q = p \o data /\ Len(q) = Len(p) + Len(data)
  BY ConcatType
<1>9. Len(p) = w - r
  BY <1>3
<1>5. ASSUME NEW i \in 1..((w + Len(data)) - r) PROVE v[r + i] = q[i]
  <2>1. r + i \in 1..Len(vec) /\ i \in 1..(Len(p) + Len(data))
    BY <1>1, <1>9
  <2>2. v[r + i] = IF (r + i) - w \in 1..Len(data) THEN data[(r + i) - w] ELSE vec[r + i]
    BY <1>2, <2>1, CopiedAt
  <2>3. q[i] = IF i <= Len(p) THEN p[i] ELSE data[i - Len(p)]
    BY <1>4, <2>1, ConcatAt
  <2>4. CASE i <= Len(p)
    <3>1. i \in 1..(w - r) /\ (r + i) - w \notin 1..Len(data)
      BY <1>1, <1>9, <2>4
    <3> QED
      BY <1>3, <2>2, <2>3, <2>4, <3>1
  <2>5. CASE ~(i <= Len(p))
    <3>1. (r + i) - w \in 1..Len(data) /\ (r + i) - w = i - Len(p)
      BY <1>1, <1>9, <2>5
    <3> QED
      BY <2>2, <2>3, <2>5, <3>1
  <2> QED
    BY <2>4, <2>5
<1>6. Len(q) = (w + Len(data)) - r
  <2>1. Len(q) = (w - r) + Len(data)
    BY <1>4, <1>9
  <2> QED
    BY <1>1, <2>1
<1>7. PICK e \in Nat : e = w + Len(data)
  BY <1>1
<1>8. SubSeq(v, r + 1, e) = q
  BY <1>1, <1>2, <1>5, <1>6, <1>7, PieceIs
<1> QED
  BY <1>2, <1>3, <1>4, <1>7, <1>8

(* Data copied right in front of the content comes before it. *)
LEMMA CopiedInFront ==
  ASSUME NEW vec \in Seq(Bytes), NEW r \in Nat, NEW w \in Nat, r <= w, w <= Len(vec),
         NEW data \in Seq(Bytes), Len(data) <= r
  PROVE  SubSeq(Copied(vec, data, r - Len(data)), (r - Len(data)) + 1, w)
           = data \o SubSeq(vec, r + 1, w)
<1>1. Len(data) \in Nat /\ Len(vec) \in Nat
  OBVIOUS
<1>7. PICK e \in Nat : e = r - Len(data)
  <2>1. r - Len(data) \in Nat
    BY <1>1
  <2> QED
    BY <2>1
<1>2. PICK v \in Seq(Bytes) : v = Copied(vec, data, e) /\ Len(v) = Len(vec)
  BY CopiedType
<1>3. PICK p \in Seq(Bytes) : /\ p = SubSeq(vec, r + 1, w) /\ Len(p) = w - r
                              /\ \A i \in 1..(w - r) : p[i] = vec[r + i]
  <2>1. /\ SubSeq(vec, r + 1, w) \in Seq(Bytes) /\ Len(SubSeq(vec, r + 1, w)) = w - r
        /\ \A i \in 1..(w - r) : SubSeq(vec, r + 1, w)[i] = vec[r + i]
    BY <1>1, Piece
  <2> QED
    BY <2>1, Zenon
<1>4. PICK q \in Seq(Bytes) : q = data \o p /\ Len(q) = Len(data) + Len(p)
  BY ConcatType
<1>9. Len(p) = w - r
  BY <1>3
<1>5. ASSUME NEW i \in 1..(w - e) PROVE v[e + i] = q[i]
  <2>1. e + i \in 1..Len(vec) /\ i \in 1..(Len(data) + Len(p))
    BY <1>1, <1>7, <1>9
  <2>2. v[e + i] = IF (e + i) - e \in 1..Len(data) THEN data[(e + i) - e] ELSE vec[e + i]
    BY <1>2, <2>1, CopiedAt
  <2>3. q[i] = IF i <= Len(data) THEN data[i] ELSE p[i - Len(data)]
    BY <1>4, <2>1, ConcatAt
  <2>4. CASE i <= Len(data)
    <3>1. (e + i) - e \in 1..Len(data) /\ (e + i) - e = i
      BY <1>1, <2>4
    <3> QED
      BY <2>2, <2>3, <2>4, <3>1
  <2>5. CASE ~(i <= Len(data))
    <3>1. (e + i) - e \notin 1..Len(data) /\ i - Len(data) \in 1..(w - r)
          /\ e + i = r + (i - Len(data))
      BY <1>1, <1>7, <2>5
    <3> QED
      BY <1>3, <2>2, <2>3, <2>5, <3>1
  <2> QED
    BY <2>4, <2>5
<1>6. Len(q) = w - e /\ e <= w
  <2>1. Len(q) = Len(data) + Len(p) /\ Len(p) = w - r
    BY <1>3, <1>4
  <2>2. Len(q) = Len(data) + (w - r)
    BY <2>1
  <2> QED
    BY <1>1, <1>7, <2>2
<1>8. SubSeq(v, e + 1, w) = q
  BY <1>2, <1>5, <1>6, PieceIs
<1> QED
  BY <1>2, <1>3, <1>4, <1>7, <1>8

(* Copied to another place, of the same or another vector, it is the same. *)
LEMMA CopiedWhole ==
  ASSUME NEW vec \in Seq(Bytes), NEW data \in Seq(Bytes), NEW at \in Nat,
         at + Len(data) <= Len(vec)
  PROVE  SubSeq(Copied(vec, data, at), at + 1, at + Len(data)) = data
<1>1. PICK e \in Nat : e = at + Len(data) /\ Len(data) \in Nat
  OBVIOUS
<1>2. PICK v \in Seq(Bytes) : v = Copied(vec, data, at) /\ Len(v) = Len(vec)
  BY CopiedType
<1>3. ASSUME NEW i \in 1..(e - at) PROVE v[at + i] = data[i]
  <2>1. at + i \in 1..Len(vec) /\ (at + i) - at \in 1..Len(data) /\ (at + i) - at = i
    BY <1>1
  <2> QED
    BY <1>2, <2>1, CopiedAt
<1>4. SubSeq(v, at + 1, e) = data
  BY <1>1, <1>2, <1>3, PieceIs
<1> QED
  BY <1>1, <1>2, <1>4

(* A longer vector does not change it. *)
LEMMA GrownBehind ==
  ASSUME NEW vec \in Seq(Bytes), NEW z \in Seq(Bytes),
         NEW r \in Nat, NEW w \in Nat, r <= w, w <= Len(vec)
  PROVE  SubSeq(vec \o z, r + 1, w) = SubSeq(vec, r + 1, w)
<1>1. PICK v \in Seq(Bytes) : v = vec \o z /\ Len(v) = Len(vec) + Len(z)
  BY ConcatType
<1>2. PICK p \in Seq(Bytes) : /\ p = SubSeq(vec, r + 1, w) /\ Len(p) = w - r
                              /\ \A i \in 1..(w - r) : p[i] = vec[r + i]
  <2>1. /\ SubSeq(vec, r + 1, w) \in Seq(Bytes) /\ Len(SubSeq(vec, r + 1, w)) = w - r
        /\ \A i \in 1..(w - r) : SubSeq(vec, r + 1, w)[i] = vec[r + i]
    BY Piece
  <2> QED
    BY <2>1, Zenon
<1>3. ASSUME NEW i \in 1..(w - r) PROVE v[r + i] = p[i]
  <2>1. r + i \in 1..(Len(vec) + Len(z)) /\ r + i <= Len(vec)
    OBVIOUS
  <2> QED
    BY <1>1, <1>2, <2>1, ConcatAt
<1>4. w <= Len(v)
  BY <1>1
<1>5. SubSeq(v, r + 1, w) = p
  BY <1>1, <1>2, <1>3, <1>4, PieceIs
<1> QED
  BY <1>1, <1>2, <1>5

(* Moving the reader on drops as many bytes from the front. *)
LEMMA Dropped ==
  ASSUME NEW vec \in Seq(Bytes), NEW r \in Nat, NEW w \in Nat, r <= w, w <= Len(vec),
         NEW n \in 0..(w - r)
  PROVE  SubSeq(vec, (r + n) + 1, w)
           = SubSeq(SubSeq(vec, r + 1, w), n + 1, Len(SubSeq(vec, r + 1, w)))
<1>1. PICK p \in Seq(Bytes) : /\ p = SubSeq(vec, r + 1, w) /\ Len(p) = w - r
                              /\ \A i \in 1..(w - r) : p[i] = vec[r + i]
  <2>1. /\ SubSeq(vec, r + 1, w) \in Seq(Bytes) /\ Len(SubSeq(vec, r + 1, w)) = w - r
        /\ \A i \in 1..(w - r) : SubSeq(vec, r + 1, w)[i] = vec[r + i]
    BY Piece
  <2> QED
    BY <2>1, Zenon
<1>2. PICK l \in Nat : l = Len(p) /\ l = w - r /\ n <= l /\ n \in Nat
  BY <1>1
<1>3. PICK q \in Seq(Bytes) : /\ q = SubSeq(p, n + 1, l) /\ Len(q) = l - n
                              /\ \A i \in 1..(l - n) : q[i] = p[n + i]
  <2>1. n \in Nat /\ n <= l /\ l <= Len(p)
    BY <1>2
  <2>2. /\ SubSeq(p, n + 1, l) \in Seq(Bytes) /\ Len(SubSeq(p, n + 1, l)) = l - n
        /\ \A i \in 1..(l - n) : SubSeq(p, n + 1, l)[i] = p[n + i]
    BY <2>1, Piece
  <2> QED
    BY <2>2, Zenon
<1>4. PICK m \in Nat : m = r + n /\ m <= w /\ w - m = l - n
  BY <1>2
<1>5. ASSUME NEW i \in 1..(w - m) PROVE vec[m + i] = q[i]
  <2>1. i \in 1..(l - n) /\ n + i \in 1..(w - r) /\ r + (n + i) = m + i
    BY <1>2, <1>4
  <2> QED
    BY <1>1, <1>3, <2>1
<1>6. SubSeq(vec, m + 1, w) = q
  <2>1. Len(q) = w - m /\ m <= w
    BY <1>3, <1>4
  <2> QED
    BY <1>5, <2>1, PieceIs
<1> QED
  BY <1>1, <1>2, <1>3, <1>4, <1>6

(* What readv(2) split over two places is whole again. *)
LEMMA SplitIsWhole ==
  ASSUME NEW c \in Seq(Bytes), NEW data \in Seq(Bytes), NEW n \in 0..Len(data)
  PROVE  (c \o SubSeq(data, 1, n)) \o SubSeq(data, n + 1, Len(data)) = c \o data
<1>0. PICK l \in Nat : l = Len(data) /\ n \in Nat /\ n <= l /\ 0 \in Nat /\ 0 <= n /\ n - 0 = n
  OBVIOUS
<1>1. PICK a \in Seq(Bytes) : /\ a = SubSeq(data, 0 + 1, n) /\ Len(a) = n - 0
                              /\ \A i \in 1..(n - 0) : a[i] = data[0 + i]
  <2>1. n <= Len(data)
    BY <1>0
  <2>2. /\ SubSeq(data, 0 + 1, n) \in Seq(Bytes) /\ Len(SubSeq(data, 0 + 1, n)) = n - 0
        /\ \A i \in 1..(n - 0) : SubSeq(data, 0 + 1, n)[i] = data[0 + i]
    BY <1>0, <2>1, Piece
  <2> QED
    BY <2>2, Zenon
<1>2. PICK b \in Seq(Bytes) : /\ b = SubSeq(data, n + 1, l) /\ Len(b) = l - n
                              /\ \A i \in 1..(l - n) : b[i] = data[n + i]
  <2>1. n <= l /\ l <= Len(data) /\ n \in Nat
    BY <1>0
  <2>2. /\ SubSeq(data, n + 1, l) \in Seq(Bytes) /\ Len(SubSeq(data, n + 1, l)) = l - n
        /\ \A i \in 1..(l - n) : SubSeq(data, n + 1, l)[i] = data[n + i]
    BY <2>1, Piece
  <2> QED
    BY <2>2, Zenon
<1>3. PICK ca \in Seq(Bytes) : ca = c \o a /\ Len(ca) = Len(c) + Len(a)
  BY ConcatType
<1>4. PICK s \in Seq(Bytes) : s = ca \o b /\ Len(s) = Len(ca) + Len(b)
  BY ConcatType
<1>5. PICK t \in Seq(Bytes) : t = c \o data /\ Len(t) = Len(c) + Len(data)
  BY ConcatType
<1>6. PICK k \in Nat : k = Len(c)
  OBVIOUS
<1>7. Len(s) = k + l /\ Len(t) = k + l
  <2>1. Len(a) = n /\ Len(b) = l - n /\ Len(ca) = k + Len(a) /\ Len(s) = Len(ca) + Len(b)
    BY <1>0, <1>1, <1>2, <1>3, <1>4, <1>6
  <2>2. Len(t) = k + l
    BY <1>0, <1>5, <1>6
  <2>3. Len(s) = (k + n) + (l - n)
    BY <2>1
  <2> QED
    BY <1>0, <2>2, <2>3
<1>8. ASSUME NEW i \in 1..Len(s) PROVE s[i] = t[i]
  <2>1. i \in 1..(k + l) /\ i \in 1..(Len(ca) + Len(b)) /\ i \in 1..(Len(c) + Len(data))
    BY <1>0, <1>4, <1>5, <1>6, <1>7
  <2>2. s[i] = IF i <= Len(ca) THEN ca[i] ELSE b[i - Len(ca)]
    BY <1>4, <2>1, ConcatAt
  <2>3. t[i] = IF i <= k THEN c[i] ELSE data[i - k]
    BY <1>5, <1>6, <2>1, ConcatAt
  <2>4. Len(ca) = k + n
    BY <1>0, <1>1, <1>3, <1>6
  <2>5. CASE i <= k + n
    <3>1. i \in 1..(Len(c) + Len(a))
      BY <1>0, <1>1, <1>6, <2>1, <2>5
    <3>2. ca[i] = IF i <= k THEN c[i] ELSE a[i - k]
      BY <1>3, <1>6, <3>1, ConcatAt
    <3>3. i > k => i - k \in 1..(n - 0) /\ 0 + (i - k) = i - k
      BY <1>0, <2>1, <2>5
    <3> QED
      BY <1>1, <1>6, <2>1, <2>2, <2>3, <2>4, <2>5, <3>2, <3>3
  <2>6. CASE ~(i <= k + n)
    <3>1. i - (k + n) \in 1..(l - n) /\ n + (i - (k + n)) = i - k /\ ~(i <= k)
      BY <1>0, <1>6, <2>1, <2>6
    <3> QED
      BY <1>2, <2>2, <2>3, <2>4, <2>6, <3>1
  <2> QED
    BY <2>5, <2>6
<1>9. s = t
  BY <1>7, <1>8, SeqEqual, Zenon
<1>10. a = SubSeq(data, 1, n)
  BY <1>1
<1>11. (c \o a) \o b = c \o data /\ b = SubSeq(data, n + 1, Len(data))
  BY <1>0, <1>2, <1>3, <1>4, <1>5, <1>9
<1> QED
  BY <1>10, <1>11

(* makeSpace() and ensureWritableBytes() leave the content alone. *)
LEMMA RoomKeepsContent ==
  ASSUME NEW b \in Buffers, Sound(b), NEW len \in Nat
  PROVE  Content(EnoughRoom(b, len)) = Content(b)
<1>0. /\ b.buffer \in Seq(Bytes) /\ Len(b.buffer) \in Nat
      /\ b.reader \in Nat /\ b.writer \in Nat /\ CheapPrependSize \in Nat
      /\ b.reader <= b.writer /\ b.writer <= Len(b.buffer) /\ CheapPrependSize <= Len(b.buffer)
  BY SizesAssumption DEF Buffers, Sound
<1>1. CASE ~(writableBytes(b) < len)
  BY <1>1 DEF EnoughRoom
<1>2. CASE writableBytes(b) < len /\ MustGrow(b, len)
  <2>1. b.writer + len - Len(b.buffer) \in Nat
    BY <1>0, <1>2 DEF writableBytes
  <2>2. PICK z \in Seq(Bytes) : z = Fill(b.writer + len - Len(b.buffer))
    BY <2>1, FillType
  <2>3. EnoughRoom(b, len) = [b EXCEPT !.buffer = b.buffer \o z]
    BY <1>2, <2>2 DEF EnoughRoom, MadeSpace
  <2>4. Content(EnoughRoom(b, len)) = SubSeq(b.buffer \o z, b.reader + 1, b.writer)
    BY <2>3 DEF Content, Buffers
  <2>5. SubSeq(b.buffer \o z, b.reader + 1, b.writer) = SubSeq(b.buffer, b.reader + 1, b.writer)
    BY <1>0, GrownBehind
  <2> QED
    BY <2>4, <2>5 DEF Content
<1>3. CASE writableBytes(b) < len /\ ~MustGrow(b, len)
  <2>1. Len(b.buffer) - b.writer + b.reader >= len + CheapPrependSize
    BY <1>0, <1>3 DEF MustGrow, writableBytes, prependableBytes
  <2>2. PICK p \in Seq(Bytes) : p = Content(b) /\ Len(p) = b.writer - b.reader
    BY <1>0, Piece DEF Content
  <2>3. CheapPrependSize + Len(p) <= Len(b.buffer)
    <3>1. CheapPrependSize + (b.writer - b.reader) <= Len(b.buffer)
      BY <1>0, <2>1
    <3> QED
      BY <2>2, <3>1
  <2>4. EnoughRoom(b, len) = [buffer |-> Copied(b.buffer, p, CheapPrependSize),
                              reader |-> CheapPrependSize, writer |-> CheapPrependSize + Len(p)]
    BY <1>3, <2>2 DEF EnoughRoom, MadeSpace, MovedToFront, readableBytes
  <2>5. Content(EnoughRoom(b, len))
          = SubSeq(Copied(b.buffer, p, CheapPrependSize), CheapPrependSize + 1, CheapPrependSize + Len(p))
    <3>1. PICK v : v = Copied(b.buffer, p, CheapPrependSize)
      OBVIOUS
    <3> QED
      <4>1. /\ EnoughRoom(b, len).buffer = v /\ EnoughRoom(b, len).reader = CheapPrependSize
            /\ EnoughRoom(b, len).writer = CheapPrependSize + Len(p)
        BY <2>4, <3>1
      <4> QED
        BY <3>1, <4>1 DEF Content
  <2> QED
    BY <1>0, <2>2, <2>3, <2>5, CopiedWhole
<1> QED
  BY <1>1, <1>2, <1>3

(* append() adds its data at the end, whatever room it had to make. *)
LEMMA AppendedContent ==
  ASSUME NEW b \in Buffers, Sound(b), NEW data \in Seq(Bytes)
  PROVE  Content(Appended(b, data)) = Content(b) \o data
<1>0. Len(data) \in Nat
  OBVIOUS
<1>1. PICK r \in Buffers : r = EnoughRoom(b, Len(data)) /\ Sound(r) /\ Len(r.buffer) - r.writer >= Len(data)
  BY <1>0, RoomIsMade
<1>2. /\ r.buffer \in Seq(Bytes) /\ Len(r.buffer) \in Nat /\ r.reader \in Nat /\ r.writer \in Nat
      /\ r.reader <= r.writer /\ r.writer + Len(data) <= Len(r.buffer)
  BY <1>0, <1>1 DEF Buffers, Sound
<1>3. PICK v : v = Copied(r.buffer, data, r.writer)
  OBVIOUS
<1>4. PICK w : w = r.writer + Len(data)
  OBVIOUS
<1>5. Appended(b, data) = [r EXCEPT !.buffer = v, !.writer = w]
  BY <1>1, <1>3, <1>4 DEF Appended
<1>6. Content(Appended(b, data)) = SubSeq(v, r.reader + 1, w)
  BY <1>5 DEF Content, Buffers
<1>7. SubSeq(v, r.reader + 1, w) = SubSeq(r.buffer, r.reader + 1, r.writer) \o data
  BY <1>2, <1>3, <1>4, CopiedBehind
<1>8. Content(r) = Content(b)
  BY <1>0, <1>1, RoomKeepsContent
<1> QED
  BY <1>6, <1>7, <1>8 DEF Content

-----------------------------------------------------------------------------
(* Steps of Buffer as steps of ByteQueue *)

LEMMA ContentNow == Content(Now) = SubSeq(buffer, reader_idx + 1, writer_idx)
  BY DEF Content, Now

LEMMA ContentNext == Content(Now)' = SubSeq(buffer', reader_idx' + 1, writer_idx')
  BY DEF Content, Now

LEMMA BecomeContent ==
  ASSUME NEW b, Become(b)
  PROVE  Content(Now)' = Content(b)
  BY ContentNext DEF Become, Content

LEMMA Indices ==
  ASSUME BufferInv
  PROVE  /\ buffer \in Seq(Bytes) /\ reader_idx \in Nat /\ writer_idx \in Nat
         /\ reader_idx <= writer_idx /\ writer_idx <= Len(buffer)
         /\ readableBytes(Now) = writer_idx - reader_idx
         /\ writableBytes(Now) = Len(buffer) - writer_idx
         /\ Content(Now) \in Seq(Bytes) /\ Len(Content(Now)) = writer_idx - reader_idx
<1>1. /\ buffer \in Seq(Bytes) /\ reader_idx \in Nat /\ writer_idx \in Nat
      /\ reader_idx <= writer_idx /\ writer_idx <= Len(buffer)
  BY DEF BufferInv, TypeOK, IndicesOrdered
<1>2. readableBytes(Now) = writer_idx - reader_idx /\ writableBytes(Now) = Len(buffer) - writer_idx
  BY DEF readableBytes, writableBytes, Now
<1> QED
  BY <1>1, <1>2, ContentNow, Piece

LEMMA RetrieveTakes ==
  ASSUME BufferInv, NEW len \in 0..readableBytes(Now), retrieve(len)
  PROVE  BQ!Take(len)
<1>1. len \in 0..(writer_idx - reader_idx)
  BY Indices
<1>2. buffer' = buffer /\ writer_idx' = writer_idx /\ reader_idx' = reader_idx + len
  BY DEF retrieve, Become, Now
<1>3. Content(Now)' = SubSeq(buffer, (reader_idx + len) + 1, writer_idx)
  BY <1>2, ContentNext
<1>4. Content(Now)' = SubSeq(Content(Now), len + 1, Len(Content(Now)))
  <2>1. SubSeq(buffer, (reader_idx + len) + 1, writer_idx)
          = SubSeq(SubSeq(buffer, reader_idx + 1, writer_idx), len + 1,
                   Len(SubSeq(buffer, reader_idx + 1, writer_idx)))
    BY <1>1, Indices, Dropped
  <2> QED
    BY <1>3, <2>1, ContentNow
<1> QED
  BY <1>4 DEF BQ!Take

LEMMA RetrieveAllTakes ==
  ASSUME BufferInv, retrieveAll
  PROVE  BQ!Take(readableBytes(Now))
<1>1. buffer' = buffer /\ writer_idx' = CheapPrependSize /\ reader_idx' = CheapPrependSize
  BY DEF retrieveAll, Emptied, Become, Now
<1>2. Content(Now)' = <<>>
  BY <1>1, SizesAssumption, ContentNext
<1>3. readableBytes(Now) = Len(Content(Now)) /\ Len(Content(Now)) \in Nat
  BY Indices
<1>4. SubSeq(Content(Now), Len(Content(Now)) + 1, Len(Content(Now))) = <<>>
  BY <1>3
<1> QED
  BY <1>2, <1>3, <1>4 DEF BQ!Take

LEMMA AppendPuts ==
  ASSUME BufferInv, NEW data \in Seq(Bytes), append(data)
  PROVE  BQ!Put(data)
<1>1. RoomAsserts(Now, Len(data))
  BY NowSound, RoomIsMade
<1>2. Become(Appended(Now, data))
  BY <1>1 DEF append
<1>3. Content(Now)' = Content(Appended(Now, data))
  BY <1>2, BecomeContent
<1>4. Content(Appended(Now, data)) = Content(Now) \o data
  BY NowSound, AppendedContent
<1> QED
  BY <1>3, <1>4 DEF BQ!Put

LEMMA PrependPutsFront ==
  ASSUME BufferInv, NEW data \in Seq(Bytes), prepend(data)
  PROVE  BQ!PutFront(data)
<1>1. Len(data) <= reader_idx
  BY DEF prepend, prependableBytes, Now
<1>2. /\ reader_idx' = reader_idx - Len(data) /\ writer_idx' = writer_idx
      /\ buffer' = Copied(buffer, data, reader_idx - Len(data))
  BY DEF prepend, Become, Now
<1>3. Content(Now)' = SubSeq(Copied(buffer, data, reader_idx - Len(data)), (reader_idx - Len(data)) + 1, writer_idx)
  BY <1>2, ContentNext
<1>4. Content(Now)' = data \o Content(Now)
  <2>1. SubSeq(Copied(buffer, data, reader_idx - Len(data)), (reader_idx - Len(data)) + 1, writer_idx)
          = data \o SubSeq(buffer, reader_idx + 1, writer_idx)
    BY <1>1, Indices, CopiedInFront
  <2> QED
    BY <1>3, <2>1, ContentNow
<1> QED
  BY <1>4 DEF BQ!PutFront

LEMMA ReadPuts ==
  ASSUME BufferInv, NEW data \in Seq(Bytes), readFd(data)
  PROVE  BQ!Put(data)
<1>0. Len(data) \in Nat /\ Len(buffer) \in Nat
  BY Indices
<1>1. CASE Len(data) <= writableBytes(Now)
  <2>1. /\ buffer' = Copied(buffer, data, writer_idx) /\ writer_idx' = writer_idx + Len(data)
        /\ reader_idx' = reader_idx
    BY <1>1 DEF readFd, Become, Now
  <2>2. writer_idx + Len(data) <= Len(buffer)
    BY <1>0, <1>1, Indices
  <2>3. Content(Now)' = Content(Now) \o data
    <3>1. SubSeq(Copied(buffer, data, writer_idx), reader_idx + 1, writer_idx + Len(data))
            = SubSeq(buffer, reader_idx + 1, writer_idx) \o data
      BY <2>2, Indices, CopiedBehind
    <3> QED
      BY <2>1, <3>1, ContentNow, ContentNext
  <2> QED
    BY <2>3 DEF BQ!Put
<1>2. CASE ~(Len(data) <= writableBytes(Now))
  <2>1. PICK n \in 0..Len(data) : n = writableBytes(Now) /\ writer_idx + n = Len(buffer)
    BY <1>0, <1>2, Indices
  <2>2. PICK s \in Seq(Bytes) : s = SubSeq(data, 1, n) /\ Len(s) = n
    <3>1. n \in Nat /\ n <= Len(data) /\ 0 \in Nat /\ 0 <= n
      BY <1>0
    <3>2. SubSeq(data, 0 + 1, n) \in Seq(Bytes) /\ Len(SubSeq(data, 0 + 1, n)) = n - 0
      BY <3>1, Piece
    <3>3. 0 + 1 = 1 /\ n - 0 = n
      BY <3>1
    <3>4. SubSeq(data, 1, n) \in Seq(Bytes) /\ Len(SubSeq(data, 1, n)) = n
      BY <3>2, <3>3
    <3> QED
      BY <3>4, Zenon
  <2>3. Extra(data) = SubSeq(data, n + 1, Len(data)) /\ Extra(data) \in Seq(Bytes)
    BY <1>0, <2>1 DEF Extra
  <2>4. PICK v \in Seq(Bytes) : v = Copied(buffer, s, writer_idx) /\ Len(v) = Len(buffer)
    BY Indices, CopiedType
  <2>5. Filled(data) = [buffer |-> v, reader |-> reader_idx, writer |-> Len(buffer)]
    <3>1. Filled(data) = [Now EXCEPT !.buffer = v, !.writer = Len(buffer)]
      BY <2>1, <2>2, <2>4 DEF Filled, Now
    <3> QED
      BY <3>1 DEF Now
  <2>6. Filled(data) \in Buffers /\ Sound(Filled(data))
    BY <1>0, <2>4, <2>5, Indices DEF Buffers, Sound, BufferInv, FrontFits
  <2>7. Content(Filled(data)) = Content(Now) \o s
    <3>1. Content(Filled(data)) = SubSeq(v, reader_idx + 1, writer_idx + Len(s))
      <4>1. Content(Filled(data)) = SubSeq(v, reader_idx + 1, Len(buffer))
        <5>1. /\ Filled(data).buffer = v /\ Filled(data).reader = reader_idx
              /\ Filled(data).writer = Len(buffer)
          BY <2>5
        <5> QED
          BY <5>1 DEF Content
      <4> QED
        BY <2>1, <2>2, <4>1
    <3>2. writer_idx + Len(s) <= Len(buffer)
      BY <1>0, <2>1, <2>2
    <3> QED
      <4>1. SubSeq(Copied(buffer, s, writer_idx), reader_idx + 1, writer_idx + Len(s))
              = SubSeq(buffer, reader_idx + 1, writer_idx) \o s
        BY <3>2, Indices, CopiedBehind
      <4> QED
        BY <2>4, <3>1, <4>1, ContentNow
  <2>8. RoomAsserts(Filled(data), Len(Extra(data)))
    BY <2>3, <2>6, RoomIsMade
  <2>9. Become(Appended(Filled(data), Extra(data)))
    BY <1>2, <2>8 DEF readFd
  <2>10. Content(Now)' = Content(Filled(data)) \o Extra(data)
    BY <2>3, <2>6, <2>9, BecomeContent, AppendedContent
  <2>11. Content(Now)' = Content(Now) \o data
    <3>1. (Content(Now) \o SubSeq(data, 1, n)) \o SubSeq(data, n + 1, Len(data)) = Content(Now) \o data
      BY Indices, SplitIsWhole
    <3> QED
      BY <2>2, <2>3, <2>7, <2>10, <3>1
  <2> QED
    BY <2>11 DEF BQ!Put
<1> QED
  BY <1>1, <1>2

LEMMA ShrinkKeeps ==
  ASSUME BufferInv, ~ShrinkAnywhere, NEW reserve \in Nat, shrink(reserve)
  PROVE  UNCHANGED Content(Now)
<1>1. reader_idx = CheapPrependSize /\ CheapPrependSize \in Nat
  BY SizesAssumption DEF shrink
<1>2. PICK p \in Seq(Bytes) : p = Content(Now) /\ Len(p) = writer_idx - reader_idx
  BY Indices
<1>3. PICK n \in Nat : n = CheapPrependSize + readableBytes(Now) + reserve
  BY <1>1, Indices
<1>4. buffer' = Copied(Fill(n), p, CheapPrependSize) /\ UNCHANGED <<reader_idx, writer_idx>>
  BY <1>2, <1>3 DEF shrink, Become, Now
<1>5. PICK f \in Seq(Bytes) : f = Fill(n) /\ Len(f) = n
  BY FillType
<1>6. writer_idx = CheapPrependSize + Len(p) /\ CheapPrependSize + Len(p) <= Len(f)
  BY <1>1, <1>2, <1>3, <1>5, Indices
<1>7. Content(Now)' = SubSeq(Copied(f, p, CheapPrependSize), CheapPrependSize + 1, CheapPrependSize + Len(p))
  BY <1>1, <1>4, <1>5, <1>6, ContentNext
<1>8. Content(Now)' = p
  BY <1>1, <1>6, <1>7, CopiedWhole
<1> QED
  BY <1>2, <1>8

LEMMA EachCall == ASSUME BufferInv, ~ShrinkAnywhere PROVE CallByCall
<1>1. ASSUME NEW n \in 0..MaxLen, NEW data \in Data(n)
      PROVE  /\ append(data) \/ readFd(data) => BQ!Put(data)
             /\ prepend(data) => BQ!PutFront(data)
  BY DataType, AppendPuts, ReadPuts, PrependPutsFront
<1>2. ASSUME NEW reserve \in Reserves PROVE shrink(reserve) => UNCHANGED Content(Now)
  BY SizesAssumption, ShrinkKeeps
<1>3. \A len \in 0..readableBytes(Now) : retrieve(len) => BQ!Take(len)
  BY RetrieveTakes
<1>4. retrieveAll => BQ!Take(readableBytes(Now))
  BY RetrieveAllTakes
<1> QED
  BY <1>1, <1>2, <1>3, <1>4 DEF CallByCall

LEMMA StepOrStutter ==
  ASSUME BufferInv, ~ShrinkAnywhere, [Next]_vars
  PROVE  [BQ!Next(MaxLen)]_(Content(Now))
<1>1. ASSUME NEW len \in 0..readableBytes(Now), BQ!Take(len) PROVE BQ!Next(MaxLen)
  <2>1. len \in 0..Len(Content(Now))
    BY Indices
  <2> QED
    BY <1>1, <2>1 DEF BQ!Next
<1>2. ASSUME NEW n \in 0..MaxLen, NEW data \in Data(n), BQ!Put(data) \/ BQ!PutFront(data)
      PROVE  BQ!Next(MaxLen)
  BY <1>2 DEF BQ!Next, Data
<1>3. CASE Next
  <2>1. readableBytes(Now) \in 0..readableBytes(Now)
    BY Indices
  <2> QED
    BY <1>1, <1>2, <1>3, <2>1, EachCall DEF Next, CallByCall
<1>4. CASE UNCHANGED vars
  BY <1>4, ContentNow, ContentNext DEF vars
<1> QED
  BY <1>3, <1>4

(* Buffer is a queue of bytes: growing the vector, moving the content to   *)
(* the front, and readFd()'s detour through extrabuf never lose, add,      *)
(* change or reorder a byte, for any sizes and any data.                   *)
THEOREM BufferIsAQueue == ~ShrinkAnywhere => (Spec => ImplementsByteQueue)
<1> SUFFICES ASSUME ~ShrinkAnywhere PROVE Spec => ImplementsByteQueue
  OBVIOUS
<1>1. Init => BQ!Init
  BY SizesAssumption, ContentNow DEF Init, BQ!Init
<1>2. BufferInv /\ [Next]_vars => [BQ!Next(MaxLen)]_(Content(Now))
  BY StepOrStutter
<1>3. BufferInv => CallByCall
  BY EachCall
<1> QED
  BY <1>1, <1>2, <1>3, BufferCorrect, PTL DEF Spec, ImplementsByteQueue
=============================================================================
