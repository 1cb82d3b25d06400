-------------------------------- MODULE HopSizes --------------------------------
(***************************************************************************)
(* The sizes of a chat message on its way from server to server: what the  *)
(* readers accept (ichat_client_read_op, ichat_s2s_client_read_op), what   *)
(* add_message asserts, what FORWARD puts in front of a message and what   *)
(* is taken off again (ichat_s2s_client_ops.c).                            *)
(*                                                                         *)
(* The servers stand in a row, and the users write broadcasts.  A message  *)
(* is its size in bytes as ichat_dispatch gets it, with the number of      *)
(* servers it has passed and the size it had when it was written.          *)
(***************************************************************************)
EXTENDS Integers, Sequences, FiniteSets

CONSTANTS
    MinMessage,  \* MIN_ICHAT_MESSAGE_LEN
    MaxMessage,  \* MAX_ICHAT_MESSAGE_LEN
    Powers,      \* bound: the powers of ten that a size may reach, but 1
    Last,        \* the servers are 1..Last
    NameLen,     \* strlen (config->s2s_me->host) of each server
    Sizes,       \* the sizes of the messages the users write
    MaxMessages  \* bound: how many they write

ASSUME SizesAssumption ==
    /\ MinMessage \in Nat /\ MaxMessage \in Nat /\ MinMessage <= MaxMessage
    /\ Powers \subseteq Nat /\ IsFiniteSet(Powers)
    /\ Last \in Nat \ {0}
    /\ NameLen \in [1..Last -> Nat]
    /\ Sizes \subseteq Nat
    /\ MaxMessages \in Nat

Servers == 1..Last

\* The directions of the links, from a server to its neighbour.  The packets of
\* a direction are read by the client of the neighbour.
Ends == {e \in Servers \X Servers : e[2] = e[1] + 1 \/ e[1] = e[2] + 1}

Back(e) == <<e[2], e[1]>>

Message == [size : MinMessage..MaxMessage, first : MinMessage..MaxMessage, hops : Nat]

VARIABLES
    written,  \* how many messages the users have written
    queue,    \* for each direction, the packets that are not read
    up,       \* the directions whose reader is there
    aborted,  \* the servers whose assertion failed, with the message
    dropped,  \* the packets that made their readers drop a connection
    got       \* what the users of each server have received

vars == <<written, queue, up, aborted, dropped, got>>

Init ==
    /\ written = 0
    /\ queue = [e \in Ends |-> <<>>]
    /\ up = Ends
    /\ aborted = {}
    /\ dropped = {}
    /\ got = [s \in Servers |-> {}]

-----------------------------------------------------------------------------
(* Sizes *)

\* number_len.
NumberLen(n) == 1 + Cardinality({p \in Powers : p <= n})

\* ichat_s2s_client_add_message: [server] [timestamp] [FORWARD] [size], each with
\* its NUL, and the message.
CmdSize(s, n) == NameLen[s] + 1 + 17 + 1 + 7 + 1 + NumberLen(n) + 1

PacketSize(s, n) == CmdSize(s, n) + n

\* What is left of a packet when the first three fields are off.
DataSize(n) == NumberLen(n) + 1 + n

\* Mutant: the NUL behind the size is taken off twice.
Stripped_short(n) == DataSize(n) - NumberLen(n) - 2

\* Mutant: the size is added once more.
Stripped_long(n) == DataSize(n) + NumberLen(n) + 1

\* ichat_s2s_client_process_message strips the size, but the buffer it dispatches
\* keeps the size of the data with it.
Stripped(n) == DataSize(n)

\* Mutant: the reader has no upper limit.
Acceptable_large(n) == n >= MinMessage

\* The readers of chat clients and of servers.
Acceptable(n) == n >= MinMessage /\ n <= MaxMessage

\* The assertion of both add_message handlers.
Assertion(n) == n > MinMessage /\ n < MaxMessage

-----------------------------------------------------------------------------
(* Servers *)

\* The other servers that s has clients for.  What is sent where nobody reads is
\* lost.
Targets(s, from) == {e \in up : e[1] = s /\ e[2] # from /\ Back(e) \in up}

ReadBy(s) == {e \in Ends : e[2] = s}

\* ichat_broadcast at server s, of a message from `from' (s itself if a user
\* wrote it), where `rest' is the queues without its packet.
Dispatch(s, from, m, rest) ==
    IF Assertion(m.size)
    THEN /\ got' = [got EXCEPT ![s] = @ \cup {m}]
         /\ queue' = [e \in Ends |-> IF e \in Targets(s, from) THEN Append(rest[e], m)
                                     ELSE rest[e]]
         /\ UNCHANGED <<up, aborted>>
    ELSE /\ aborted' = aborted \cup {[at |-> s, message |-> m]}
         /\ up' = up \ ReadBy(s)
         /\ queue' = [e \in Ends |-> IF e \in ReadBy(s) THEN <<>> ELSE rest[e]]
         /\ UNCHANGED got

Running(s) == \A a \in aborted : a.at # s

\* A user of server s writes a message of n bytes; one that is not acceptable
\* costs him his connection.
Write(s, n) ==
    /\ Running(s)
    /\ written < MaxMessages
    /\ written' = written + 1
    /\ IF Acceptable(n)
       THEN Dispatch(s, s, [size |-> n, first |-> n, hops |-> 0], queue)
       ELSE UNCHANGED <<queue, up, aborted, got>>
    /\ UNCHANGED dropped

\* The size of the first packet of a direction.
Arriving(e) == PacketSize(e[1], Head(queue[e]).size)

\* The first packet of a direction is dispatched by the server it has come to.
Forward(e) ==
    /\ e \in up
    /\ queue[e] # <<>>
    /\ Acceptable(Arriving(e))
    /\ LET m == Head(queue[e]) IN
          Dispatch(e[2], e[1],
                   [m EXCEPT !.size = Stripped(m.size), !.hops = m.hops + 1],
                   [queue EXCEPT ![e] = Tail(@)])
    /\ UNCHANGED <<written, dropped>>

\* "sent bad packet": the reader drops its client.
BadPacket(e) ==
    /\ e \in up
    /\ queue[e] # <<>>
    /\ ~Acceptable(Arriving(e))
    /\ dropped' = dropped \cup {Head(queue[e])}
    /\ up' = up \ {e}
    /\ queue' = [queue EXCEPT ![e] = <<>>]
    /\ UNCHANGED <<written, aborted, got>>

\* A server finds that its neighbour has dropped the connection.
Lose(e) ==
    /\ e \in up
    /\ Back(e) \notin up
    /\ up' = up \ {e}
    /\ queue' = [queue EXCEPT ![e] = <<>>]
    /\ UNCHANGED <<written, aborted, dropped, got>>

\* The link is made again.
Reconnect(e) ==
    /\ {e, Back(e)} \cap up = {}
    /\ Running(e[1]) /\ Running(e[2])
    /\ up' = up \cup {e, Back(e)}
    /\ UNCHANGED <<written, queue, aborted, dropped, got>>

Next ==
    \/ \E s \in Servers, n \in Sizes : Write(s, n)
    \/ \E e \in Ends : Forward(e) \/ BadPacket(e) \/ Lose(e) \/ Reconnect(e)

Spec == Init /\ [][Next]_vars

-----------------------------------------------------------------------------
(* Properties *)

\* The messages that are anywhere.
Known ==
    (UNION {got[s] : s \in Servers})
        \cup (UNION {{queue[e][i] : i \in 1..Len(queue[e])} : e \in Ends})
        \cup dropped \cup {a.message : a \in aborted}

\* Every variable keeps its type: nothing is dispatched or queued that is smaller
\* or larger than a message.
TypeOK ==
    /\ written \in 0..MaxMessages
    /\ queue \in [Ends -> Seq(Message)]
    /\ up \subseteq Ends
    /\ aborted \subseteq [at : Servers, message : Message]
    /\ dropped \subseteq Message
    /\ got \in [Servers -> SUBSET Message]

\* The assertion fails only for what a chat client has written, and only at the
\* two sizes the reader accepts and the assertion does not: whatever a message
\* grows by on its way, a server that passes it on does not abort.
AbortsAtLimits ==
    \A a \in aborted : a.message.hops = 0 /\ a.message.size \in {MinMessage, MaxMessage}

\* A message loses no byte on its way, and grows at each server it passes by no
\* more than the number of the largest one.
GrowthBounded ==
    \A m \in Known :
        m.size - m.first \in 0..(m.hops * (NumberLen(MaxMessage) + 1))

\* No message passes more servers than there are on its way.
HopsBounded == \A m \in Known : m.hops < Last

\* What FORWARD of server s puts in front of the largest message.
Overhead(s) == CmdSize(s, MaxMessage)

\* A link is lost only over a message that was too large when it was written: one
\* that leaves room for the front of a packet, whoever sends it, and for its growth
\* on the way passes.
SmallMessagesPass ==
    \A m \in dropped : \E s \in Servers :
        m.first > MaxMessage - Overhead(s) - (Last - 2) * (NumberLen(MaxMessage) + 1)

=============================================================================
