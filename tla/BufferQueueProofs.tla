-------------------------- MODULE BufferQueueProofs --------------------------
(***************************************************************************)
(* Theorems about BufferQueue, for every set of messages and every size of *)
(* the vector given to writev.                                             *)
(***************************************************************************)
EXTENDS BufferQueue, SequenceTheorems, TLAPS

\* What has left the queue is what the socket has taken.
SentInv ==
    Len(wire) = IF queue = <<>> THEN next ELSE queue[1].from + offset

\* No buffer reaches beyond the last byte that was queued.
Below == \A i \in 1..Len(queue) : queue[i].to <= next

IInv == TypeOK /\ OffsetInside /\ SentInv /\ Below /\ DropsOnEmptyHead

-----------------------------------------------------------------------------

LEMMA BytesProperties ==
    ASSUME NEW a \in Nat, NEW b \in Nat, a <= b
    PROVE  Bytes(a, b) \in Seq(Nat) /\ Len(Bytes(a, b)) = b - a
<1>1. b - a \in Nat /\ \A i \in 1..(b - a) : a + i - 1 \in Nat
  OBVIOUS
<1>2. Bytes(a, b) \in [1..(b - a) -> Nat]
  BY <1>1 DEF Bytes
<1>3. Bytes(a, b) \in Seq(Nat)
  BY <1>1, <1>2, SeqDef
<1>4. Len(Bytes(a, b)) \in Nat /\ 1..Len(Bytes(a, b)) = 1..(b - a)
  BY <1>2, <1>3, LenProperties
<1> QED BY <1>1, <1>3, <1>4

LEMMA InitInv == Init => IInv
<1> SUFFICES ASSUME Init PROVE IInv
  OBVIOUS
<1>1. Len(queue) = 0 /\ Len(wire) = 0
  BY DEF Init
<1>2. queue \in Seq(Buffer) /\ wire \in Seq(Nat) /\ rest \in Seq(Nat)
  BY DEF Init
<1> QED
  BY <1>1, <1>2
  DEF Init, IInv, TypeOK, OffsetInside, SentInv, Below, DropsOnEmptyHead

\* The size is positive only if something is queued.
LEMMA SomethingQueued ==
    ASSUME TypeOK, CanWrite
    PROVE  queue # <<>> /\ Len(queue) \in Nat \ {0} /\ queue[1] \in Buffer
<1>1. queue # <<>>
  BY DEF CanWrite, BufferQueueSize
<1> QED BY <1>1, EmptySeq, LenProperties, ElementOfSeq DEF TypeOK

\* advance_offset keeps the shape of the queue and leaves it at byte b.
LEMMA Advanced ==
    ASSUME IInv, CanWrite, ~OutOfBuffer,
           NEW b \in (queue[1].from + offset + 1)..IovEnd,
           AdvanceOffset(b - (queue[1].from + offset))
    PROVE  /\ b \in Nat
           /\ queue' \in Seq(Buffer) /\ offset' \in Nat
           /\ \A i \in 1..Len(queue') :
                 /\ queue'[i].from <= queue'[i].to
                 /\ queue'[i].to = IF i < Len(queue') THEN queue'[i + 1].from ELSE next
                 /\ queue'[i].to <= next
           /\ IF queue' = <<>> THEN offset' = 0 /\ b = next
              ELSE /\ queue'[1].from + offset' = b
                   /\ offset' = 0 \/ queue'[1].from + offset' < queue'[1].to
<1> DEFINE L == Len(queue)
<1>1. /\ queue \in Seq(Buffer) /\ offset \in Nat /\ next \in Nat
      /\ L \in Nat \ {0}
      /\ \A i \in 1..L : queue[i] \in Buffer /\ queue[i].from \in Nat /\ queue[i].to \in Nat
  <2>1. queue \in Seq(Buffer) /\ offset \in Nat /\ next \in Nat /\ L \in Nat \ {0}
    BY SomethingQueued DEF IInv, TypeOK
  <2>2. \A i \in 1..L : queue[i] \in Buffer
    BY <2>1, ElementOfSeq
  <2> QED BY <2>1, <2>2 DEF Buffer
<1>2. \A i \in 1..L : /\ queue[i].from <= queue[i].to
                      /\ queue[i].to = IF i < L THEN queue[i + 1].from ELSE next
                      /\ queue[i].to <= next
  BY DEF IInv, OffsetInside, Below
<1>3. IovEnd \in Nat /\ IovEnd <= next
  <2>1. PICK n \in 1..L : IovEnd = queue[n].to
    BY <1>1, BoundsAssumption DEF IovEnd
  <2> QED BY <2>1, <1>1, <1>2
<1>4. b \in Nat /\ b <= next /\ b > queue[1].from
  BY <1>1, <1>3
<1>5. queue[1].from + offset + (b - (queue[1].from + offset)) = b
  BY <1>1, <1>4
<1>6. PICK k \in 0..L :
         /\ \A j \in 1..k : ~Stays(queue[j], b)
         /\ k < L => Stays(queue[k + 1], b)
         /\ queue' = SubSeq(queue, k + 1, L)
         /\ offset' = IF k < L THEN b - queue[k + 1].from ELSE 0
  BY <1>5 DEF AdvanceOffset
<1>7. CASE k = L
  <2>1. queue' = <<>> /\ Len(queue') = 0
    BY <1>1, <1>6, <1>7, SubSeqEmpty
  <2>2. ~Stays(queue[L], b)
    BY <1>1, <1>6, <1>7
  <2>3. b = next
    BY <2>2, <1>1, <1>2, <1>4 DEF Stays
  <2> QED BY <2>1, <2>3, <1>4, <1>6, <1>7
<1>8. CASE k < L
  <2>1. /\ queue' \in Seq(Buffer)
        /\ Len(queue') = L - k
        /\ \A i \in 1..(L - k) : queue'[i] = queue[k + i]
    <3>1. \A i \in (k + 1)..L : queue[i] \in Buffer
      BY <1>1, (k + 1)..L \subseteq 1..L
    <3>2. k + 1 \in Int /\ L \in Int /\ k + 1 <= L /\ L - (k + 1) + 1 = L - k
      BY <1>1, <1>8
    <3>3. /\ SubSeq(queue, k + 1, L) \in Seq(Buffer)
          /\ Len(SubSeq(queue, k + 1, L)) = L - k
          /\ \A i \in 1..(L - (k + 1) + 1) : SubSeq(queue, k + 1, L)[i] = queue[k + 1 + i - 1]
      BY <3>1, <3>2, SubSeqProperties
    <3>4. \A i \in 1..(L - k) : k + 1 + i - 1 = k + i
      BY <1>1
    <3> QED BY <3>2, <3>3, <3>4, <1>6
  <2>2. b >= queue[k + 1].from
    <3>1. CASE k = 0
      BY <3>1, <1>1, <1>4
    <3>2. CASE k > 0
      <4>1. k \in 1..k /\ k \in 1..L
        BY <3>2, <1>1
      <4>2. ~Stays(queue[k], b)
        BY <4>1, <1>6
      <4>3. queue[k].to = queue[k + 1].from
        BY <4>1, <1>2, <1>8
      <4> QED BY <4>1, <4>2, <4>3, <1>1, <1>4 DEF Stays
    <3> QED BY <3>1, <3>2, <1>1
  <2>3. /\ offset' \in Nat
        /\ queue'[1].from + offset' = b
        /\ offset' = 0 \/ queue'[1].from + offset' < queue'[1].to
    <3>1. Stays(queue[k + 1], b) /\ offset' = b - queue[k + 1].from /\ k + 1 \in 1..L
      BY <1>1, <1>6, <1>8
    <3>2. queue'[1] = queue[k + 1]
      BY <2>1, <1>1, <1>8
    <3> QED BY <3>1, <3>2, <2>2, <1>1, <1>4 DEF Stays
  <2>4. queue' # <<>>
    BY <2>1, <1>1, <1>8
  <2>5. \A i \in 1..Len(queue') :
           /\ queue'[i].from <= queue'[i].to
           /\ queue'[i].to = IF i < Len(queue') THEN queue'[i + 1].from ELSE next
           /\ queue'[i].to <= next
    <3> SUFFICES ASSUME NEW i \in 1..Len(queue')
                 PROVE  /\ queue'[i].from <= queue'[i].to
                        /\ queue'[i].to = IF i < Len(queue') THEN queue'[i + 1].from ELSE next
                        /\ queue'[i].to <= next
      OBVIOUS
    <3>1. k + i \in 1..L /\ queue'[i] = queue[k + i] /\ (i < Len(queue') <=> k + i < L)
      BY <2>1, <1>1, <1>8
    <3>2. i < Len(queue') => queue'[i + 1] = queue[k + i + 1]
      BY <2>1, <1>1, <1>8
    <3> QED BY <3>1, <3>2, <1>2
  <2> QED BY <2>1, <2>3, <2>4, <2>5, <1>4
<1> QED BY <1>1, <1>7, <1>8

\* What a write that succeeds does to the stream.
LEMMA Written ==
    ASSUME IInv, Write
    PROVE  /\ \E b \in (Len(wire) + 1)..next : wire' = wire \o Bytes(Len(wire), b)
           /\ IInv'
<1>1. /\ CanWrite /\ ~OutOfBuffer /\ UNCHANGED <<next, status, rest>>
      /\ queue # <<>> /\ queue \in Seq(Buffer) /\ offset \in Nat /\ next \in Nat
      /\ wire \in Seq(Nat) /\ Len(wire) = queue[1].from + offset
  BY SomethingQueued DEF Write, IInv, TypeOK, SentInv
<1>2. PICK b \in (queue[1].from + offset + 1)..IovEnd :
         /\ wire' = wire \o Bytes(queue[1].from + offset, b)
         /\ AdvanceOffset(b - (queue[1].from + offset))
  BY DEF Write
<1>3. /\ b \in Nat
      /\ queue' \in Seq(Buffer) /\ offset' \in Nat
      /\ \A i \in 1..Len(queue') :
            /\ queue'[i].from <= queue'[i].to
            /\ queue'[i].to = IF i < Len(queue') THEN queue'[i + 1].from ELSE next
            /\ queue'[i].to <= next
      /\ IF queue' = <<>> THEN offset' = 0 /\ b = next
         ELSE /\ queue'[1].from + offset' = b
              /\ offset' = 0 \/ queue'[1].from + offset' < queue'[1].to
  BY <1>1, <1>2, Advanced
<1>4. Len(wire) \in Nat
  BY <1>1, LenProperties
<1>5. wire' = wire \o Bytes(Len(wire), b) /\ Len(wire) < b
  BY <1>1, <1>2, <1>3, <1>4
<1>6. b <= next
  <2>1. CASE queue' = <<>>
    BY <2>1, <1>1, <1>3
  <2>2. CASE queue' # <<>>
    <3>1. 1 \in 1..Len(queue') /\ queue'[1] \in Buffer
      BY <2>2, <1>3, EmptySeq, ElementOfSeq
    <3>2. queue'[1].from <= queue'[1].to /\ queue'[1].to <= next
      BY <3>1, <1>3
    <3>3. /\ queue'[1].from + offset' = b
          /\ offset' = 0 \/ queue'[1].from + offset' < queue'[1].to
      BY <2>2, <1>3
    <3>4. queue'[1].from \in Nat /\ queue'[1].to \in Nat /\ offset' \in Nat /\ next \in Nat
      BY <3>1, <1>1, <1>3 DEF Buffer
    <3> QED BY <3>2, <3>3, <3>4
  <2> QED BY <2>1, <2>2
<1>7. Bytes(Len(wire), b) \in Seq(Nat) /\ Len(Bytes(Len(wire), b)) = b - Len(wire)
  <2>1. Len(wire) <= b
    BY <1>3, <1>4, <1>5
  <2> QED BY <1>3, <1>4, <2>1, BytesProperties
<1>8. wire' \in Seq(Nat) /\ Len(wire') = b
  <2>1. /\ wire \o Bytes(Len(wire), b) \in Seq(Nat)
        /\ Len(wire \o Bytes(Len(wire), b)) = Len(wire) + Len(Bytes(Len(wire), b))
    BY <1>1, <1>7, ConcatProperties
  <2> QED BY <2>1, <1>3, <1>4, <1>5, <1>7
<1>9. TypeOK'
  BY <1>1, <1>3, <1>8 DEF IInv, TypeOK
<1>10. OffsetInside' /\ Below'
  BY <1>1, <1>3 DEF OffsetInside, Below
<1>11. SentInv'
  BY <1>1, <1>3, <1>8 DEF SentInv
<1>12. DropsOnEmptyHead'
  BY <1>1 DEF CanWrite, DropsOnEmptyHead
<1>13. b \in (Len(wire) + 1)..next
  BY <1>1, <1>3, <1>4, <1>5, <1>6
<1>14. \E c \in (Len(wire) + 1)..next : wire' = wire \o Bytes(Len(wire), c)
  BY <1>5, <1>13
<1> QED
  BY <1>9, <1>10, <1>11, <1>12, <1>14 DEF IInv

LEMMA Appended ==
    ASSUME IInv, BufferQueueAppend
    PROVE  IInv' /\ next' \in Nat /\ next' >= next
<1> DEFINE L == Len(queue)
           new == [from |-> next, to |-> next + Head(rest)]
<1>1. /\ queue \in Seq(Buffer) /\ offset \in Nat /\ next \in Nat /\ L \in Nat
      /\ rest \in Seq(Nat) /\ rest # <<>>
      /\ UNCHANGED <<offset, wire, status>>
      /\ next' = next + Head(rest) /\ rest' = Tail(rest) /\ queue' = Append(queue, new)
  BY LenProperties DEF BufferQueueAppend, Append1, IInv, TypeOK
<1>2. Head(rest) \in Nat /\ Tail(rest) \in Seq(Nat)
  BY <1>1, HeadTailProperties
<1>3. next' \in Nat /\ next' >= next /\ new \in Buffer
  BY <1>1, <1>2 DEF Buffer
<1>4. /\ queue' \in Seq(Buffer) /\ Len(queue') = L + 1
      /\ \A i \in 1..L : queue'[i] = queue[i]
      /\ queue'[L + 1] = new
  BY <1>1, <1>3, AppendProperties
<1>5. queue' # <<>>
  <2>1. Len(queue') # 0
    BY <1>1, <1>4
  <2> QED BY <2>1, EmptySeq
<1>6. \A i \in 1..L : /\ queue[i].from <= queue[i].to
                      /\ queue[i].to = IF i < L THEN queue[i + 1].from ELSE next
                      /\ queue[i].to <= next
                      /\ queue[i].from \in Nat /\ queue[i].to \in Nat
  <2>1. \A i \in 1..L : queue[i] \in Buffer
    BY <1>1, ElementOfSeq
  <2> QED BY <2>1 DEF IInv, OffsetInside, Below, Buffer
<1>7. TypeOK'
  BY <1>1, <1>2, <1>3, <1>4 DEF IInv, TypeOK
<1>8. \A i \in 1..(L + 1) :
         /\ queue'[i].from <= queue'[i].to
         /\ queue'[i].to = IF i < L + 1 THEN queue'[i + 1].from ELSE next'
         /\ queue'[i].to <= next'
  <2> SUFFICES ASSUME NEW i \in 1..(L + 1)
               PROVE  /\ queue'[i].from <= queue'[i].to
                      /\ queue'[i].to = IF i < L + 1 THEN queue'[i + 1].from ELSE next'
                      /\ queue'[i].to <= next'
    OBVIOUS
  <2>1. new.from = next /\ new.to = next'
    BY <1>1
  <2>2. CASE i = L + 1
    BY <2>1, <2>2, <1>1, <1>3, <1>4
  <2>3. CASE i = L
    <3>1. i \in 1..L /\ queue'[i] = queue[i] /\ queue'[i + 1].from = next
      BY <2>1, <2>3, <1>1, <1>4
    <3>2. queue[i].from <= queue[i].to /\ queue[i].to = next
      BY <2>3, <3>1, <1>6
    <3> QED BY <2>3, <3>1, <3>2, <1>1, <1>3
  <2>4. CASE i < L
    <3>1. i \in 1..L /\ i + 1 \in 1..L /\ queue'[i] = queue[i] /\ queue'[i + 1] = queue[i + 1]
      BY <2>4, <1>1, <1>4
    <3>2. /\ queue[i].from <= queue[i].to
          /\ queue[i].to = queue[i + 1].from
          /\ queue[i].to <= next /\ queue[i].to \in Nat
      BY <2>4, <3>1, <1>6
    <3>3. queue[i].to <= next'
      BY <3>2, <1>1, <1>3
    <3>4. i < L + 1
      BY <2>4, <1>1
    <3> QED BY <3>1, <3>2, <3>3, <3>4
  <2> QED BY <2>2, <2>3, <2>4, <1>1
<1>9. CASE queue = <<>>
  <2>1. L = 0 /\ offset = 0 /\ Len(wire) = next /\ status # "out_of_buffer"
    BY <1>9 DEF IInv, OffsetInside, SentInv, DropsOnEmptyHead
  <2>2. queue'[1].from = next
    BY <2>1, <1>4
  <2> QED
    BY <2>1, <2>2, <1>1, <1>3, <1>4, <1>5, <1>7, <1>8
    DEF IInv, OffsetInside, Below, SentInv, DropsOnEmptyHead
<1>10. CASE queue # <<>>
  <2>1. 1 \in 1..L /\ queue'[1] = queue[1] /\ L \in 1..L
    BY <1>10, <1>1, <1>4, EmptySeq
  <2>2. SentInv' /\ OffsetInside' /\ Below'
    BY <2>1, <1>1, <1>4, <1>5, <1>8, <1>10 DEF IInv, OffsetInside, Below, SentInv
  <2>3. DropsOnEmptyHead'
    <3> SUFFICES ASSUME status = "out_of_buffer" PROVE DropsOnEmptyHead'
      BY <1>1 DEF DropsOnEmptyHead
    <3>1. queue[1].from = queue[1].to /\ BufferQueueSize > 0
      BY DEF IInv, DropsOnEmptyHead
    <3>2. BufferQueueSize = next - queue[1].from - offset
      BY <2>1, <1>6, <1>10 DEF BufferQueueSize
    <3>3. queue'[Len(queue')].to = next'
      BY <1>1, <1>4, <1>8
    <3>4. BufferQueueSize' = next' - queue[1].from - offset
      BY <2>1, <3>3, <1>1, <1>5 DEF BufferQueueSize
    <3>5. queue[1].from \in Nat
      BY <2>1, <1>6
    <3>6. next - queue[1].from - offset > 0
      BY <3>1, <3>2
    <3>7. next' - queue[1].from - offset > 0
      <4>1. next \in Nat /\ next' \in Nat /\ next' >= next /\ offset \in Nat
        BY <1>1, <1>3
      <4> QED BY <4>1, <3>5, <3>6
    <3>8. BufferQueueSize' > 0
      BY <3>4, <3>7
    <3> QED BY <3>1, <3>8, <2>1, <1>1, <1>5 DEF DropsOnEmptyHead
  <2> QED BY <2>2, <2>3, <1>3, <1>7 DEF IInv
<1> QED BY <1>3, <1>9, <1>10

LEMMA GivenUp ==
    ASSUME IInv, WriteNothing
    PROVE  IInv'
<1>1. /\ CanWrite /\ OutOfBuffer /\ status' = "out_of_buffer"
      /\ UNCHANGED <<queue, offset, next, wire, rest>>
  BY DEF WriteNothing
<1>2. queue # <<>> /\ 1 \in 1..Len(queue) /\ queue[1] \in Buffer /\ offset \in Nat
  BY <1>1, SomethingQueued DEF IInv, TypeOK
<1>3. queue[1].from = queue[1].to /\ offset = 0
  BY <1>1, <1>2 DEF IInv, OffsetInside, OutOfBuffer, Buffer
<1>4. Len(queue) \in 1..Len(queue) /\ queue[Len(queue)].to = next /\ queue[1].to <= next
  BY <1>1, <1>2, SomethingQueued DEF IInv, OffsetInside, Below
<1>5. BufferQueueSize > 0
  BY <1>1, <1>2, <1>3, <1>4 DEF CanWrite, BufferQueueSize, IInv, TypeOK, Buffer
<1>6. DropsOnEmptyHead'
  BY <1>1, <1>2, <1>3, <1>5 DEF DropsOnEmptyHead, BufferQueueSize
<1> QED
  BY <1>1, <1>6 DEF IInv, TypeOK, OffsetInside, SentInv, Below

LEMMA Inductive == IInv /\ [Next]_vars => IInv'
<1> SUFFICES ASSUME IInv, [Next]_vars PROVE IInv'
  OBVIOUS
<1>1. ASSUME NEW m \in Messages, AddMessage(m) PROVE IInv'
  BY <1>1, MessagesAssumption
  DEF AddMessage, IInv, TypeOK, OffsetInside, SentInv, Below, DropsOnEmptyHead, BufferQueueSize
<1>2. CASE BufferQueueAppend
  BY <1>2, Appended
<1>3. CASE Write
  BY <1>3, Written
<1>4. CASE WriteFails
  BY <1>4
  DEF WriteFails, IInv, TypeOK, OffsetInside, SentInv, Below, DropsOnEmptyHead
<1>5. CASE WriteNothing
  BY <1>5, GivenUp
<1>6. CASE UNCHANGED vars
  BY <1>6
  DEF vars, IInv, TypeOK, OffsetInside, SentInv, Below, DropsOnEmptyHead, BufferQueueSize
<1> QED BY <1>1, <1>2, <1>3, <1>4, <1>5, <1>6 DEF Next

\* The invariant every theorem below rests on.
LEMMA Invariance == Spec => []IInv
BY InitInv, Inductive, PTL DEF Spec

-----------------------------------------------------------------------------

\* Every variable keeps its type.
THEOREM Typing == Spec => []TypeOK
<1>1. IInv => TypeOK
  BY DEF IInv
<1> QED BY Invariance, <1>1, PTL

\* buffer_queue_advance_offset leaves the offset inside the first buffer and
\* the buffers in the order they were queued.
THEOREM StaysInside == Spec => []OffsetInside
<1>1. IInv => OffsetInside
  BY DEF IInv
<1> QED BY Invariance, <1>1, PTL

\* buffer_queue_size is the number of bytes queued and not sent.
THEOREM CountsUnsent == Spec => []SizeIsUnsent
<1>1. IInv => SizeIsUnsent
  <2> SUFFICES ASSUME IInv PROVE SizeIsUnsent
    OBVIOUS
  <2>1. offset \in Nat /\ next \in Nat /\ queue \in Seq(Buffer)
    BY DEF IInv, TypeOK
  <2>2. CASE queue = <<>>
    BY <2>1, <2>2 DEF IInv, SentInv, SizeIsUnsent, BufferQueueSize
  <2>3. CASE queue # <<>>
    <3>1. 1 \in 1..Len(queue) /\ Len(queue) \in 1..Len(queue)
      BY <2>1, <2>3, EmptySeq
    <3>2. queue[1] \in Buffer /\ queue[Len(queue)].to = next
      BY <2>1, <3>1, ElementOfSeq DEF IInv, OffsetInside
    <3>3. queue[1].from \in Nat
      BY <3>2 DEF Buffer
    <3> QED BY <2>1, <2>3, <3>2, <3>3 DEF IInv, SentInv, SizeIsUnsent, BufferQueueSize
  <2> QED BY <2>2, <2>3
<1> QED BY Invariance, <1>1, PTL

\* buffer_queue_write gives up only at an empty buffer.
THEOREM GivesUpAtEmpty == Spec => []DropsOnEmptyHead
<1>1. IInv => DropsOnEmptyHead
  BY DEF IInv
<1> QED BY Invariance, <1>1, PTL

\* If no empty buffer is queued, there is none in the queue.
NoneEmpty ==
    /\ \A i \in 1..Len(rest) : rest[i] > 0
    /\ \A i \in 1..Len(queue) : queue[i].from < queue[i].to

\* Where every buffer of every message holds a byte, buffer_queue_write never
\* gives up: a client is lost only when its socket fails.
THEOREM LosesNoClient == Spec => []NoSpuriousDrop
<1> DEFINE Full == \A m \in Messages : \A i \in 1..Len(m) : m[i] > 0
           Inv == Full => NoneEmpty
<1>1. Init => Inv
  <2>1. Init => Len(queue) = 0 /\ Len(rest) = 0
    BY DEF Init
  <2> QED BY <2>1 DEF NoneEmpty
<1>2. IInv /\ Inv /\ [Next]_vars => Inv'
  <2> SUFFICES ASSUME IInv, NoneEmpty, Full, [Next]_vars PROVE NoneEmpty'
    OBVIOUS
  <2>1. /\ queue \in Seq(Buffer) /\ rest \in Seq(Nat) /\ next \in Nat
        /\ Len(queue) \in Nat /\ Len(rest) \in Nat
    BY LenProperties DEF IInv, TypeOK
  <2>2. ASSUME NEW m \in Messages, AddMessage(m) PROVE NoneEmpty'
    BY <2>2 DEF AddMessage, NoneEmpty
  <2>3. CASE BufferQueueAppend
    <3>1. rest # <<>> /\ 1 \in 1..Len(rest) /\ Head(rest) = rest[1]
      BY <2>1, <2>3, EmptySeq DEF BufferQueueAppend
    <3>2. Head(rest) \in Nat /\ Head(rest) > 0
      BY <2>1, <3>1, ElementOfSeq DEF NoneEmpty
    <3>3. \A i \in 1..Len(rest') : rest'[i] > 0
      <4>1. rest' = Tail(rest)
        BY <2>3 DEF BufferQueueAppend
      <4>2. /\ Len(Tail(rest)) = Len(rest) - 1
            /\ \A i \in 1..(Len(rest) - 1) : Tail(rest)[i] = rest[i + 1]
        BY <2>1, <3>1, HeadTailProperties
      <4>3. \A i \in 1..(Len(rest) - 1) : i + 1 \in 1..Len(rest)
        BY <2>1
      <4> QED BY <4>1, <4>2, <4>3 DEF NoneEmpty
    <3>4. \A i \in 1..Len(queue') : queue'[i].from < queue'[i].to
      <4>1. PICK new : /\ queue' = Append(queue, new)
                       /\ new = [from |-> next, to |-> next + Head(rest)]
        BY <2>3 DEF BufferQueueAppend, Append1
      <4>2. new \in Buffer /\ new.from < new.to
        BY <2>1, <3>2, <4>1 DEF Buffer
      <4>3. /\ Len(queue') = Len(queue) + 1
            /\ \A i \in 1..Len(queue) : queue'[i] = queue[i]
            /\ queue'[Len(queue) + 1] = new
        BY <2>1, <4>1, <4>2, AppendProperties
      <4>4. \A i \in 1..Len(queue') : i \in 1..Len(queue) \/ i = Len(queue) + 1
        BY <2>1, <4>3
      <4> QED BY <4>2, <4>3, <4>4 DEF NoneEmpty
    <3> QED BY <3>3, <3>4 DEF NoneEmpty
  <2>4. CASE Write
    <3>1. PICK k \in 0..Len(queue) : queue' = SubSeq(queue, k + 1, Len(queue))
      BY <2>4 DEF Write, AdvanceOffset
    <3>2. \A i \in 1..Len(queue) : queue[i] \in Buffer
      BY <2>1, ElementOfSeq
    <3>3. /\ Len(queue') = IF k + 1 <= Len(queue) THEN Len(queue) - (k + 1) + 1 ELSE 0
          /\ \A i \in 1..(Len(queue) - (k + 1) + 1) : queue'[i] = queue[k + 1 + i - 1]
      <4>1. k + 1 \in Int /\ Len(queue) \in Int
        BY <2>1
      <4>2. \A i \in (k + 1)..Len(queue) : queue[i] \in Buffer
        BY <2>1, <3>2, (k + 1)..Len(queue) \subseteq 1..Len(queue)
      <4> QED BY <3>1, <4>1, <4>2, SubSeqProperties
    <3>4. \A i \in 1..Len(queue') : k + 1 + i - 1 \in 1..Len(queue)
                                    /\ i \in 1..(Len(queue) - (k + 1) + 1)
      BY <2>1, <3>3
    <3>5. \A i \in 1..Len(queue') : queue'[i].from < queue'[i].to
      BY <3>3, <3>4 DEF NoneEmpty
    <3> QED BY <2>4, <3>5 DEF NoneEmpty, Write
  <2>5. CASE WriteFails \/ WriteNothing \/ UNCHANGED vars
    BY <2>5 DEF WriteFails, WriteNothing, vars, NoneEmpty
  <2> QED BY <2>2, <2>3, <2>4, <2>5 DEF Next
<1>3. IInv /\ Inv => NoSpuriousDrop
  <2> SUFFICES ASSUME IInv, NoneEmpty, status = "out_of_buffer" PROVE FALSE
    BY DEF NoSpuriousDrop
  <2>1. queue # <<>> /\ queue[1].from = queue[1].to
    BY DEF IInv, DropsOnEmptyHead
  <2>2. queue \in Seq(Buffer) /\ 1 \in 1..Len(queue) /\ queue[1] \in Buffer
    BY <2>1, EmptySeq, ElementOfSeq DEF IInv, TypeOK
  <2> QED BY <2>1, <2>2 DEF NoneEmpty, Buffer
<1> QED BY Invariance, <1>1, <1>2, <1>3, PTL DEF Spec

\* The socket gets the stream of bytes that was queued, whatever the sizes of
\* the buffers, the size of the vector and the cuts.
THEOREM BufferQueueImplementsStream == Spec => DeliversStream
<1>1. Init => Stream!Init
  BY DEF Init, Stream!Init
<1>2. IInv /\ [Next]_vars => [Stream!Next]_(Stream!vars)
  <2> SUFFICES ASSUME IInv, [Next]_vars PROVE [Stream!Next]_(Stream!vars)
    OBVIOUS
  <2>1. ASSUME NEW m \in Messages, AddMessage(m) PROVE UNCHANGED Stream!vars
    BY <2>1 DEF AddMessage, Stream!vars
  <2>2. CASE BufferQueueAppend
    BY <2>2, Appended DEF BufferQueueAppend, Stream!Next, Stream!Put
  <2>3. CASE Write
    <3>1. PICK b \in (Len(wire) + 1)..next : wire' = wire \o Bytes(Len(wire), b)
      BY <2>3, Written
    <3>2. Bytes(Len(wire), b) = Stream!Bytes(Len(wire), b)
      BY DEF Bytes, Stream!Bytes
    <3>3. UNCHANGED next
      BY <2>3 DEF Write
    <3> QED BY <3>1, <3>2, <3>3 DEF Stream!Next, Stream!Take
  <2>4. CASE WriteFails \/ WriteNothing \/ UNCHANGED vars
    BY <2>4 DEF WriteFails, WriteNothing, vars, Stream!vars
  <2> QED BY <2>1, <2>2, <2>3, <2>4 DEF Next
<1> QED BY Invariance, <1>1, <1>2, PTL DEF Spec, DeliversStream, Stream!Spec
=============================================================================
