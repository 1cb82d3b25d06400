---------------------------- MODULE BlockingWrites ----------------------------
(***************************************************************************)
(* Servers joined by links, and the sockets between them and to their chat *)
(* clients.  A socket has room for a limited amount of data, and it blocks *)
(* (IC_nonblock_connect in src/misc.c hands O_NONBLOCK to F_SETFD, accept  *)
(* hands out blocking descriptors): once select has said that there is     *)
(* room, writev returns when all it was given has found a place, and until *)
(* then the one thread of the server does nothing else.                    *)
(*                                                                         *)
(* Messages are counted, not told apart, and every one is a broadcast      *)
(* (ichat_broadcast); a message is what one read gets and what one entry   *)
(* of the vector of writev holds.  Links stay up and are authenticated.    *)
(***************************************************************************)
EXTENDS Integers, FiniteSets

CONSTANTS
    Servers,
    Clients,     \* the chat clients
    Home,        \* the server a chat client is connected to
    Links,       \* the pairs of servers that are linked, as sets
    Room,        \* how many messages fit into a socket
    IovMax,      \* how many messages one writev is given at most
    Nobody,      \* no connection
    MaxMessages  \* bound: how many messages the chat clients send

ASSUME NodesAssumption ==
    /\ Servers \cap Clients = {}
    /\ Nobody \notin Servers \cup Clients
    /\ Home \in [Clients -> Servers]
    /\ \A l \in Links : \E s, t \in Servers : s # t /\ l = {s, t}

ASSUME BoundsAssumption ==
    /\ Room \in Nat \ {0}
    /\ IovMax \in Nat \ {0}
    /\ MaxMessages \in Nat

\* The connections of a server, by what is at the other end.
Peers(s) == {t \in Servers : {s, t} \in Links} \cup {c \in Clients : Home[c] = s}

\* What a server writes to, and everything that is written to.
Outputs == {e \in Servers \X (Servers \cup Clients) : e[2] \in Peers(e[1])}
Edges   == Outputs \cup {<<c, Home[c]>> : c \in Clients}

VARIABLES
    sock,    \* the messages in a socket, on their way
    out,     \* the messages in the output queue of a connection
    writing, \* where the writev under way writes, or Nobody
    left,    \* the messages it has not found room for
    said,    \* history: how many messages the chat clients have sent
    queued   \* history: how many messages were queued for a connection

vars == <<sock, out, writing, left, said, queued>>

Init ==
    /\ sock = [e \in Edges |-> 0]
    /\ out = [e \in Outputs |-> 0]
    /\ writing = [s \in Servers |-> Nobody]
    /\ left = [s \in Servers |-> 0]
    /\ said = 0
    /\ queued = [e \in Outputs |-> 0]

\* The server is in its poll, not inside a writev.
Polling(s) == writing[s] = Nobody

\* ichat_broadcast at s of a message from node n: the local clients, n among
\* them, and the other servers.
Receivers(s, n) == {<<s, p>> : p \in Peers(s) \ ({n} \cap Servers)}

\* A chat client program sends a message.
Say(c) ==
    /\ said < MaxMessages
    /\ sock[<<c, Home[c]>>] < Room
    /\ sock' = [sock EXCEPT ![<<c, Home[c]>>] = @ + 1]
    /\ said' = said + 1
    /\ UNCHANGED <<out, writing, left, queued>>

\* A chat client program reads a message.
Hear(c) ==
    /\ sock[<<Home[c], c>>] > 0
    /\ sock' = [sock EXCEPT ![<<Home[c], c>>] = @ - 1]
    /\ UNCHANGED <<out, writing, left, said, queued>>

\* Mutant: a connection is not read while something is queued for it.
Read_oneatatime(s, n) ==
    /\ Polling(s)
    /\ sock[<<n, s>>] > 0
    /\ out[<<s, n>>] = 0
    /\ sock' = [sock EXCEPT ![<<n, s>>] = @ - 1]
    /\ LET more(f) == [e \in Outputs |-> IF e \in Receivers(s, n) THEN f[e] + 1 ELSE f[e]]
       IN  /\ out' = more(out)
           /\ queued' = more(queued)
    /\ UNCHANGED <<writing, left, said>>

\* The read handler: a message is read and queued for its receivers.
Read(s, n) ==
    /\ Polling(s)
    /\ sock[<<n, s>>] > 0
    /\ sock' = [sock EXCEPT ![<<n, s>>] = @ - 1]
    /\ LET more(f) == [e \in Outputs |-> IF e \in Receivers(s, n) THEN f[e] + 1 ELSE f[e]]
       IN  /\ out' = more(out)
           /\ queued' = more(queued)
    /\ UNCHANGED <<writing, left, said>>

\* Mutant: the vector is one entry longer than the queue.
Gathered_long(e) == IF out[e] < IovMax THEN out[e] + 1 ELSE IovMax

\* get_buffer_queue_iovec: what writev is given.
Gathered(e) == IF out[e] < IovMax THEN out[e] ELSE IovMax

\* can_write, and the answer of select.
Writable(s, n) == out[<<s, n>>] > 0 /\ sock[<<s, n>>] < Room

\* The write handler calls writev.
Write(s, n) ==
    /\ Polling(s)
    /\ Writable(s, n)
    /\ writing' = [writing EXCEPT ![s] = n]
    /\ left' = [left EXCEPT ![s] = Gathered(<<s, n>>)]
    /\ UNCHANGED <<sock, out, said, queued>>

\* Mutant: the kernel takes all of a vector or none of it.
HasRoom_whole(e) == sock[e] + left[e[1]] <= Room

HasRoom(e) == sock[e] < Room

\* The kernel places one more message, and writev returns after the last one.
Place(s) ==
    /\ ~Polling(s)
    /\ LET e == <<s, writing[s]>>
       IN  /\ HasRoom(e)
           /\ sock' = [sock EXCEPT ![e] = @ + 1]
           /\ out' = [out EXCEPT ![e] = @ - 1]
           /\ left' = [left EXCEPT ![s] = @ - 1]
           /\ writing' = [writing EXCEPT ![s] = IF left[s] = 1 THEN Nobody ELSE @]
    /\ UNCHANGED <<said, queued>>

Serve(s) ==
    \/ \E n \in Peers(s) : Read(s, n) \/ Write(s, n)
    \/ Place(s)

Next ==
    \/ \E s \in Servers : Serve(s)
    \/ \E c \in Clients : Say(c) \/ Hear(c)

Spec == Init /\ [][Next]_vars

\* A server that can do something does something; in which order a poll serves
\* the connections that are ready is left open, because the messages come to an
\* end.  Chat clients go on reading, and need not write.
FairSpec ==
    /\ Spec
    /\ \A s \in Servers : WF_vars(Serve(s))
    /\ \A c \in Clients : WF_vars(Hear(c))

-----------------------------------------------------------------------------
(* Properties *)

\* Every variable keeps its type.
TypeOK ==
    /\ sock \in [Edges -> 0..Room]
    /\ out \in [Outputs -> Nat]
    /\ writing \in [Servers -> Servers \cup Clients \cup {Nobody}]
    /\ left \in [Servers -> Nat]
    /\ said \in 0..MaxMessages
    /\ queued \in [Outputs -> Nat]

\* Two servers stand still, each in a writev to the other.
Embrace(s, t) ==
    /\ writing[s] = t /\ sock[<<s, t>>] = Room
    /\ writing[t] = s /\ sock[<<t, s>>] = Room

\* No two servers wait for each other.
NoEmbrace == \A s, t \in Servers : ~Embrace(s, t)

\* What a writev has still to place is in the queue it was gathered from: the
\* queue is not changed under a writev, and advance_offset finds all of it.
WritesWhatIsQueued ==
    \A s \in Servers :
        IF Polling(s) THEN left[s] = 0
        ELSE writing[s] \in Peers(s) /\ left[s] \in 1..out[<<s, writing[s]>>]

\* Two servers get stuck only when each has queued more for the other than fits
\* into the socket between them.
EmbraceNeedsBacklog ==
    \A s, t \in Servers :
        Embrace(s, t) => queued[<<s, t>>] > Room /\ queued[<<t, s>>] > Room

\* The links form no loop: any servers, however many, have one among them with
\* at most one link to the others.
NoLoop ==
    \A S \in (SUBSET Servers) \ {{}} :
        \E s \in S : \A t, u \in Peers(s) \cap S : t = u

\* Each server of S stands in a writev to another one of S and has no room.
Circle(S) ==
    \A s \in S : /\ writing[s] \in S
                 /\ ~HasRoom(<<s, writing[s]>>)

\* Servers that all wait for each other are no more than two, or two of them
\* are stuck in each other already: a longer chain of full sockets ends at a
\* server in its poll, at a chat client or at room, unless the links form a loop.
CirclesArePairs ==
    NoLoop =>
        \A S \in (SUBSET Servers) \ {{}} :
            Circle(S) => \E s, t \in S : Embrace(s, t)

\* Where links form no loop and the chat clients go on reading, a server comes
\* back from its writev, unless two servers somewhere are stuck in each other.
HangsOnlyInPairs ==
    \A s \in Servers : ~Polling(s) ~> Polling(s) \/ ~NoEmbrace

=============================================================================
