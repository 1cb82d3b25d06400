----------------------------- MODULE BufferQueue -----------------------------
(***************************************************************************)
(* The output queue of one client (src/buffer_queue.c) and the handler     *)
(* that empties it into the client's socket (the *_client_write_op's,      *)
(* which are the same).                                                    *)
(*                                                                         *)
(* Bytes are numbered in the order they are queued, and a buffer is the    *)
(* interval [from, to) of the numbers of its bytes; buffers are not        *)
(* modified once they are queued.  A message is queued as several buffers, *)
(* in one go: the thread is in add_message, not in the write handler.  An  *)
(* empty buffer is legal: the data of a chat message may be empty.         *)
(***************************************************************************)
EXTENDS Integers, Sequences, SequencesExt

CONSTANTS
    Messages,    \* the messages that are queued: the sizes of their buffers
    IovMax,      \* CONF_IOV_MAX
    MaxBytes,    \* bound: how many bytes are queued in all
    MaxBuffers   \* bound: how many buffers the queue holds

ASSUME MessagesAssumption == \A m \in Messages : m \in Seq(Nat)

ASSUME BoundsAssumption ==
    /\ IovMax \in Nat \ {0}
    /\ MaxBytes \in Nat
    /\ MaxBuffers \in Nat

VARIABLES
    queue,   \* the buffers, first to be sent first
    offset,  \* q->offset: how much of the first one has been sent
    next,    \* the number of the next byte to be queued
    wire,    \* the bytes the socket has taken
    status,  \* "ok", or why the client was marked corrupt
    rest     \* the buffers that the add_message under way has yet to queue

vars == <<queue, offset, next, wire, status, rest>>

Buffer == [from : Nat, to : Nat]

Bytes(a, b) == [i \in 1..(b - a) |-> a + i - 1]

Init ==
    /\ queue = <<>>
    /\ offset = 0
    /\ next = 0
    /\ wire = <<>>
    /\ status = "ok"
    /\ rest = <<>>

\* add_message begins.  Messages are queued for a corrupt client too.
AddMessage(m) ==
    /\ rest = <<>>
    /\ Len(queue) + Len(m) <= MaxBuffers
    /\ next + FoldSeq(+, 0, m) <= MaxBytes
    /\ rest' = m
    /\ UNCHANGED <<queue, offset, next, wire, status>>

\* The link the new entry gets.
Append1(b) == queue' = Append(queue, b)

BufferQueueAppend ==
    /\ rest # <<>>
    /\ Append1([from |-> next, to |-> next + Head(rest)])
    /\ next' = next + Head(rest)
    /\ rest' = Tail(rest)
    /\ UNCHANGED <<offset, wire, status>>

-----------------------------------------------------------------------------

\* Mutant: the part of the head that is already sent is counted.
BufferQueueSize_whole ==
    IF queue = <<>> THEN 0 ELSE queue[Len(queue)].to - queue[1].from

\* buffer_queue_size.  The buffers of the queue are neighbours (OffsetInside), so
\* that their sizes add up to an interval.
BufferQueueSize ==
    IF queue = <<>> THEN 0 ELSE queue[Len(queue)].to - queue[1].from - offset

\* Mutant: only the first buffer decides whether there is something to send.
CanWrite_head ==
    rest = <<>> /\ status = "ok" /\ queue # <<>> /\ queue[1].to - queue[1].from > offset

CanWrite == rest = <<>> /\ status = "ok" /\ BufferQueueSize # 0

\* iov[0] holds no byte that is still to be sent.
OutOfBuffer == queue[1].to - queue[1].from <= offset

\* Mutant: a buffer that has just been sent whole stays in the queue.
Stays_equal(b, t) == t = b.from \/ b.to >= t

\* The loop of advance_offset ends at b when the bytes below t are sent: no
\* byte is left to account for, or b is not sent whole.
Stays(b, t) == t = b.from \/ b.to > t

\* The last byte one writev may be given: the array has IovMax entries.
IovEnd == LET n == IF Len(queue) < IovMax THEN Len(queue) ELSE IovMax IN queue[n].to

\* Mutant: what was sent of the head before this call is forgotten.
AdvanceOffset_fresh(r) ==
    LET t == queue[1].from + r
    IN  \E k \in 0..Len(queue) :
          /\ \A j \in 1..k : ~Stays(queue[j], t)
          /\ k < Len(queue) => Stays(queue[k + 1], t)
          /\ queue' = SubSeq(queue, k + 1, Len(queue))
          /\ offset' = IF k < Len(queue) THEN t - queue[k + 1].from ELSE 0

\* Mutant: the size is subtracted before the buffer is known to go.
AdvanceOffset_underflow(r) ==
    LET t == queue[1].from + offset + r
    IN  \E k \in 0..Len(queue) :
          /\ \A j \in 1..k : ~Stays(queue[j], t)
          /\ k < Len(queue) => Stays(queue[k + 1], t)
          /\ queue' = SubSeq(queue, k + 1, Len(queue))
          /\ offset' = IF k < Len(queue) THEN t - queue[k + 1].to ELSE 0

\* buffer_queue_advance_offset: k buffers are popped.
AdvanceOffset(r) ==
    LET t == queue[1].from + offset + r
    IN  \E k \in 0..Len(queue) :
          /\ \A j \in 1..k : ~Stays(queue[j], t)
          /\ k < Len(queue) => Stays(queue[k + 1], t)
          /\ queue' = SubSeq(queue, k + 1, Len(queue))
          /\ offset' = IF k < Len(queue) THEN t - queue[k + 1].from ELSE 0

\* writev takes r bytes, as many as the socket has room for.
Write ==
    /\ CanWrite
    /\ ~OutOfBuffer
    /\ \E b \in (queue[1].from + offset + 1)..IovEnd :
          /\ wire' = wire \o Bytes(queue[1].from + offset, b)
          /\ AdvanceOffset(b - (queue[1].from + offset))
    /\ UNCHANGED <<next, status, rest>>

\* writev fails.
WriteFails ==
    /\ CanWrite
    /\ ~OutOfBuffer
    /\ status' = "socket_error"
    /\ UNCHANGED <<queue, offset, next, wire, rest>>

\* buffer_queue_write gives up before writev.
WriteNothing ==
    /\ CanWrite
    /\ OutOfBuffer
    /\ status' = "out_of_buffer"
    /\ UNCHANGED <<queue, offset, next, wire, rest>>

Next ==
    \/ \E m \in Messages : AddMessage(m)
    \/ BufferQueueAppend
    \/ Write \/ WriteFails \/ WriteNothing

Spec == Init /\ [][Next]_vars

\* server_poll calls the handler of a client again and again while it has
\* something to send and its socket has room; the peer goes on reading.
FairSpec ==
    Spec /\ WF_vars(BufferQueueAppend) /\ WF_vars(Write \/ WriteFails \/ WriteNothing)

-----------------------------------------------------------------------------
(* Properties *)

\* Every variable keeps its type.
TypeOK ==
    /\ queue \in Seq(Buffer)
    /\ offset \in Nat
    /\ next \in Nat
    /\ wire \in Seq(Nat)
    /\ status \in {"ok", "out_of_buffer", "socket_error"}
    /\ rest \in Seq(Nat)

\* The buffers follow each other up to the last byte queued, and the offset
\* points inside the head: buffer_queue_size, a difference of unsigned
\* numbers, never wraps, and writev never starts behind the end of a buffer.
OffsetInside ==
    /\ \A i \in 1..Len(queue) :
          /\ queue[i].from <= queue[i].to
          /\ queue[i].to = IF i < Len(queue) THEN queue[i + 1].from ELSE next
    /\ IF queue = <<>> THEN offset = 0
       ELSE offset = 0 \/ queue[1].from + offset < queue[1].to

\* buffer_queue_size is what has been queued and not sent, so can_write is
\* true as long as bytes are left, however the writes were cut.
SizeIsUnsent == BufferQueueSize = next - Len(wire)

\* What makes buffer_queue_write give up, in spite of the bytes that are left,
\* is an empty buffer at the head of the queue and nothing else.
DropsOnEmptyHead ==
    status = "out_of_buffer" =>
        queue # <<>> /\ queue[1].from = queue[1].to /\ BufferQueueSize > 0

\* When no empty buffer is queued, a client is dropped only by its socket.
NoSpuriousDrop ==
    (\A m \in Messages : \A i \in 1..Len(m) : m[i] > 0) => status # "out_of_buffer"

\* However the socket cuts the writes, it gets the bytes that were queued,
\* in order, none lost and none twice.
Stream == INSTANCE ByteStream WITH put <- next, got <- wire

DeliversStream == Stream!Spec

\* A byte that is queued is sent, or the client is dropped.
EverythingSent ==
    \A n \in 1..MaxBytes : next >= n ~> Len(wire) >= n \/ status # "ok"
=============================================================================
