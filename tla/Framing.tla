-------------------------------- MODULE Framing --------------------------------
(***************************************************************************)
(* The input of a connection from a chat client or another server: the     *)
(* buffer the read handler fills and the loop that takes the messages out  *)
(* of it (ichat_client_read_op and ichat_s2s_client_read_op, which are the *)
(* same, over buffer_read and buffer_set_size).                            *)
(*                                                                         *)
(* A message is framed as [number] [NUL] [body].  Bytes are numbered in    *)
(* the order the peer sends them.  A frame is where it starts (`at'), how  *)
(* long the number with its NUL is (`head'), what strtol makes of it       *)
(* (`number', -1 when there is no digit), where the peer's next frame      *)
(* starts (`to'), and whether the body is well formed (`good').            *)
(***************************************************************************)
EXTENDS Integers, Sequences, SequencesExt

CONSTANTS
    Kinds,       \* the frames a peer sends, without their place
    NumberLen,   \* MAX_NUMBER_LEN
    MinMessage,  \* MIN_ICHAT_MESSAGE_LEN
    MaxMessage,  \* MAX_ICHAT_MESSAGE_LEN
    ReadBlock,   \* MAX_READ_BLOCK
    MaxFrames    \* bound: how many frames are sent

\* A peer that means it well sends frames of the size they say.  The smallest
\* of them is not shorter than the longest number the handler waits for.
ASSUME SizesAssumption ==
    /\ NumberLen \in Nat \ {0} /\ MinMessage \in Nat /\ MaxMessage \in Nat
    /\ ReadBlock \in Nat \ {0}
    /\ MaxFrames \in Nat
    /\ MinMessage <= MaxMessage
    /\ MinMessage + 2 >= NumberLen

ASSUME KindsAssumption ==
    /\ Kinds \subseteq [head : Nat, number : Int, len : Nat, good : BOOLEAN]
    /\ \A k \in Kinds : k.head >= 2 /\ k.len > 0
    /\ \A k \in Kinds :
          k.number \in MinMessage..MaxMessage /\ k.head <= NumberLen
              => k.len = k.head + k.number

Open == -1

VARIABLES
    frames,  \* the frames the peer has sent
    end,     \* how many bytes arrive before the connection ends, or Open
    got,     \* how many bytes have been read from the socket
    start,   \* the number of the first byte of impl->bi
    size,    \* buffer_size (impl->bi)
    cut,     \* what was handed to process_message, as [from, to)
    pc,      \* "poll", or "parse" in the loop of the read handler
    corrupt  \* client->corrupt

vars == <<frames, end, got, start, size, cut, pc, corrupt>>

Sent == IF frames = <<>> THEN 0 ELSE Last(frames).to

Init ==
    /\ frames = <<>>
    /\ end = Open
    /\ got = 0
    /\ start = 0
    /\ size = 0
    /\ cut = <<>>
    /\ pc = "poll"
    /\ corrupt = FALSE

\* The peer sends a frame.
Send(k) ==
    /\ end = Open
    /\ Len(frames) < MaxFrames
    /\ frames' = Append(frames, [at     |-> Sent,
                                 head   |-> k.head,
                                 number |-> k.number,
                                 to     |-> Sent + k.len,
                                 good   |-> k.good])
    /\ UNCHANGED <<end, got, start, size, cut, pc, corrupt>>

\* The connection ends, in the middle of a frame or not.
Close ==
    /\ end = Open
    /\ end' \in got..Sent
    /\ UNCHANGED <<frames, got, start, size, cut, pc, corrupt>>

\* buffer_read: the new bytes go behind the old ones.
Fill(r) == size + r

\* buffer_read gets some of the bytes that are there.
Read ==
    /\ pc = "poll"
    /\ ~corrupt
    /\ \E r \in 1..ReadBlock :
          /\ got + r <= IF end = Open THEN Sent ELSE end
          /\ got' = got + r
          /\ size' = Fill(r)
    /\ pc' = "parse"
    /\ UNCHANGED <<frames, end, start, cut, corrupt>>

\* buffer_read finds the end of the connection, or fails.
ReadEnds ==
    /\ pc = "poll"
    /\ ~corrupt
    /\ got = end
    /\ corrupt' = TRUE
    /\ UNCHANGED <<frames, end, got, start, size, cut, pc>>

ReadFails ==
    /\ pc = "poll"
    /\ ~corrupt
    /\ corrupt' = TRUE
    /\ UNCHANGED <<frames, end, got, start, size, cut, pc>>

-----------------------------------------------------------------------------
(* The loop *)

\* The frame at the start of the buffer.
Here == {f \in Range(frames) : f.at = start}

\* Mutant: the number and its NUL are not part of the frame.
Expected_body(f) == f.number

\* expected_buffer_size.
Expected(f) == f.head + f.number

\* memchr finds the NUL.
NumberSeen(f) == size >= NumberLen /\ f.head <= NumberLen

\* Mutant: there is no largest message.
NumberRight_large(f) == f.number >= MinMessage

\* The number is one, and in range.
NumberRight(f) == f.number >= MinMessage /\ f.number <= MaxMessage

\* Mutant: a frame is complete a byte too early.
Complete_early(f) == Expected(f) - 1 <= size

\* Mutant: a frame is complete when the next one has begun.
Complete_late(f) == Expected(f) < size

\* The frame is in the buffer as a whole.
Complete(f) == Expected(f) <= size

\* Nothing more can be taken out of the buffer now.
Wait ==
    /\ pc = "parse"
    /\ \/ size < NumberLen
       \/ \E f \in Here : ~NumberSeen(f)
       \/ \E f \in Here : NumberSeen(f) /\ NumberRight(f) /\ ~Complete(f)
    /\ pc' = "poll"
    /\ UNCHANGED <<frames, end, got, start, size, cut, corrupt>>

\* "header doesn't have header length", "sent bad packet".
BadNumber ==
    /\ pc = "parse"
    /\ \E f \in Here : NumberSeen(f) /\ ~NumberRight(f)
    /\ corrupt' = TRUE
    /\ pc' = "poll"
    /\ UNCHANGED <<frames, end, got, start, size, cut>>

\* Mutant: one message is taken out per read.
Again_once == "poll"

Again == "parse"

\* A message is copied out and processed, and the rest moved to the front.  One
\* that is malformed does not end the loop.
Process ==
    /\ pc = "parse"
    /\ \E f \in Here :
          /\ NumberSeen(f) /\ NumberRight(f) /\ Complete(f)
          /\ cut' = Append(cut, [from |-> start + f.head, to |-> start + Expected(f)])
          /\ corrupt' = (corrupt \/ ~f.good)
          /\ start' = start + Expected(f)
          /\ size' = size - Expected(f)
    /\ pc' = Again
    /\ UNCHANGED <<frames, end, got>>

Next ==
    \/ \E k \in Kinds : Send(k)
    \/ Close
    \/ Read \/ ReadEnds \/ ReadFails
    \/ Wait \/ BadNumber \/ Process

Spec == Init /\ [][Next]_vars

\* server_poll reads from a connection as long as there is something to read.
FairSpec == Spec /\ WF_vars(Read \/ ReadEnds) /\ WF_vars(Wait \/ BadNumber \/ Process)

-----------------------------------------------------------------------------
(* Properties *)

Frame == [at : Nat, head : Nat, number : Int, to : Nat, good : BOOLEAN]

\* Every variable keeps its type.
TypeOK ==
    /\ frames \in Seq(Frame)
    /\ end \in Nat \cup {Open}
    /\ got \in Nat
    /\ start \in Nat
    /\ size \in Nat
    /\ cut \in Seq([from : Nat, to : Nat])
    /\ pc \in {"poll", "parse"}
    /\ corrupt \in BOOLEAN

\* A frame that the loop takes a message from.
Proper(f) == f.head <= NumberLen /\ NumberRight(f)

\* The buffer is the end of what was read, and starts where a frame does.
BufferInPlace ==
    /\ start + size = got
    /\ start = Sent \/ Here # {}

\* The read handler leaves no message in the buffer that is there as a whole:
\* no further byte may come to make it look again.
NothingStuck ==
    pc = "poll" /\ ~corrupt => \A f \in Here : Proper(f) => size < Expected(f)

\* The buffer does not grow beyond a frame, and a read on top of it, unless a
\* number does not end.
InputBounded ==
    (\A f \in Here : f.head <= NumberLen) /\ ~corrupt =>
        size < NumberLen + MaxMessage + IF pc = "poll" THEN 0 ELSE ReadBlock

\* The messages processed are those the peer has sent, in order, each once.
Body(f) == [from |-> f.at + f.head, to |-> f.to]

Messages == INSTANCE MessageStream WITH
                sent    <- [i \in 1..Len(frames) |-> Body(frames[i])],
                handled <- cut

HandlesStream == Messages!Spec

\* The n-th message arrives, and nothing but proper ones before it.
Arrives(n) ==
    /\ Len(frames) >= n
    /\ \A i \in 1..n : Proper(frames[i])
    /\ end = Open \/ end >= frames[n].to

\* Such a message is processed, or the client is dropped.
EverythingHandled ==
    \A n \in 1..MaxFrames :
        Arrives(n) ~> Len(cut) >= n \/ corrupt \/ ~Arrives(n)

=============================================================================
