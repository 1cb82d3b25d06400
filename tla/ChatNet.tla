------------------------------ MODULE ChatNet ------------------------------
(****************************************************************************)
(* Several ichatd servers joined by links, and the chat clients connected   *)
(* to them: LOGIN and FORWARD between servers, broadcast and unicast.       *)
(*                                                                          *)
(* Link <<a, b>> says that the configuration of a names b.  Each attempt of *)
(* a to connect is a connection of its own with an end on either side; an   *)
(* end stands for the struct client of that server.  What one end has       *)
(* queued and the other has not read yet is the queue of the reading end: a *)
(* FIFO (module BufferQueue shows that the output queue keeps the order).   *)
(* An end may fail at any time, each side notices by itself, and a connects *)
(* again while b may still hold the old connection.  One action handles one *)
(* packet of one server.                                                    *)
(****************************************************************************)
EXTENDS Naturals, Sequences

CONSTANTS
    Servers,      \* the processes
    Links,        \* <<a, b>>: a has a server line for b
    Trusted,      \* the links whose password is the serverpassword of b
    Conns,        \* connections between servers, at most as many as these
    NoLink,       \* the link of a connection not made yet
    Clients,      \* chat clients
    Home,         \* the server a chat client connects to
    Messages,     \* chat messages, each submitted at most once
    Malformed,    \* those that ichat_buffer_to_icc2s rejects
    Author,       \* the chat client that submits a message
    From,         \* the signature in its sender field
    To,           \* the signature in its receiver field
    Sigs,         \* signatures of clients
    NoSig,        \* the empty signature a new chat client has
    Everyone,     \* the receiver of a broadcast: "*" or ""
    Login         \* a LOGIN packet; a FORWARD packet is the message it carries

ASSUME NetworkAssumption ==
    /\ Links \subseteq Servers \X Servers
    /\ Trusted \subseteq Links
    /\ NoLink \notin Links
    /\ Home \in [Clients -> Servers]

ASSUME MessageAssumption ==
    /\ Malformed \subseteq Messages
    /\ Author \in [Messages -> Clients]
    /\ From \in [Messages -> Sigs]
    /\ To \in [Messages -> Sigs \cup {Everyone}]
    /\ NoSig \notin Sigs
    /\ Everyone \notin Sigs
    /\ Login \notin Messages

VARIABLES
    link,           \* what link a connection was made for
    state,          \* the struct client at an end; "closed" once it is corrupt
    authenticated,  \* is_authenticated of an end
    queue,          \* packets on their way to an end
    client,         \* chat clients: state of the connection and sig
    inbox,          \* what a chat client has written and its server not read
    unsent,         \* messages nobody has submitted
    written,        \* history: the messages a chat client has submitted
    received,       \* history: the messages queued for a chat client
    dispatched,     \* history: the messages a server has dispatched
    astray          \* history: the messages under way to the other side of a
                    \* link when the end that made the connection failed

vars == <<link, state, authenticated, queue, client, inbox, unsent,
          written, received, dispatched, astray>>
conns == <<link, state, authenticated>>
history == <<written, received, dispatched>>

Ends == Conns \X {"out", "in"}
NoEnd == <<>>
Packets == Messages \cup {Login}
Out(k) == <<k, "out">>
In(k) == <<k, "in">>
Peer(e) == IF e[2] = "out" THEN In(e[1]) ELSE Out(e[1])
ServerOf(e) == IF e[2] = "out" THEN link[e[1]][1] ELSE link[e[1]][2]

----------------------------------------------------------------------------
Init ==
    /\ link = [k \in Conns |-> NoLink]
    /\ state = [e \in Ends |-> "free"]
    /\ authenticated = [e \in Ends |-> FALSE]
    /\ queue = [e \in Ends |-> <<>>]
    /\ client = [c \in Clients |-> [state |-> "away", sig |-> NoSig]]
    /\ inbox = [c \in Clients |-> <<>>]
    /\ unsent = Messages
    /\ written = [c \in Clients |-> <<>>]
    /\ received = [c \in Clients |-> <<>>]
    /\ dispatched = [s \in Servers |-> {}]
    /\ astray = {}

----------------------------------------------------------------------------
(* Who gets a message.  A corrupt client that is still in clist counts.     *)

InList(s, chat) == {c \in Clients : Home[c] = s /\ chat[c].state # "away"}

LocalReceivers(s, m, chat) ==
    {c \in InList(s, chat) : To[m] = Everyone \/ chat[c].sig = To[m]}

\* Mutant: The originator is not skipped.
OtherServers_echo(s, origin) ==
    {e \in Ends : /\ state[e] = "open"
                  /\ ServerOf(e) = s
                  /\ authenticated[e]}

OtherServers(s, origin) ==
    {e \in Ends : /\ state[e] = "open"
                  /\ ServerOf(e) = s
                  /\ authenticated[e]
                  /\ e # origin}

\* Mutant: A local delivery ends a broadcast, too.
RemoteReceivers_localonly(s, origin, m, locals) ==
    IF locals = {} THEN OtherServers(s, origin) ELSE {}

RemoteReceivers(s, origin, m, locals) ==
    IF To[m] = Everyone \/ locals = {} THEN OtherServers(s, origin) ELSE {}

\* Mutant: The newest message overtakes those in the queue.
Enqueue_front(q, m) == <<m>> \o q

Enqueue(q, m) == Append(q, m)

(* ichat_dispatch at server s of a message that came over end origin, with   *)
(* chat clients chat and packets under way rest.  What is queued for a       *)
(* corrupt client is never sent, and nobody reads at an end that has failed. *)
Dispatch(s, origin, m, chat, rest) ==
    LET locals == LocalReceivers(s, m, chat)
        remotes == RemoteReceivers(s, origin, m, locals)
    IN  /\ received' = [c \in Clients |->
               IF c \in locals /\ chat[c].state = "open"
               THEN Append(received[c], m) ELSE received[c]]
        /\ queue' = [e \in Ends |->
               IF Peer(e) \in remotes /\ state[e] # "closed"
               THEN Enqueue(rest[e], m) ELSE rest[e]]
        /\ dispatched' = [dispatched EXCEPT ![s] = @ \cup {m}]

----------------------------------------------------------------------------
(* Links between servers.                                                   *)

(* start_ichat_s2s_link: at startup, and again some time after the client   *)
(* of the last attempt was destroyed.                                       *)
StartLink(l, k) ==
    /\ link[k] = NoLink
    /\ \A j \in Conns : link[j] = l => state[Out(j)] = "closed"
    /\ link' = [link EXCEPT ![k] = l]
    /\ state' = [state EXCEPT ![Out(k)] = "open", ![In(k)] = "pending"]
    /\ authenticated' = [authenticated EXCEPT ![Out(k)] = TRUE]
    /\ queue' = [queue EXCEPT ![In(k)] = <<Login>>]
    /\ UNCHANGED <<client, inbox, unsent, history, astray>>

Accept(k) ==
    /\ state[In(k)] = "pending"
    /\ state' = [state EXCEPT ![In(k)] = "open"]
    /\ UNCHANGED <<link, authenticated, queue, client, inbox, unsent,
                   history, astray>>

\* Mutant: A client goes on being served after its connection has failed.
Break_served(e) ==
    /\ state[e] = "open"
    /\ state' = [state EXCEPT ![e] = "closed"]
    /\ UNCHANGED <<link, authenticated, queue, client, inbox, unsent, history, astray>>

(* An end fails and its server will drop it.  It reads no more; of what it  *)
(* has sent, the part that has left its output queue may still arrive.      *)
Break(e) ==
    /\ state[e] = "open"
    /\ state' = [state EXCEPT ![e] = "closed"]
    /\ \E n \in 0 .. Len(queue[Peer(e)]) :
          LET left == SubSeq(queue[Peer(e)], 1, n)
          IN  /\ queue' = [queue EXCEPT ![e] = <<>>, ![Peer(e)] = left]
              /\ astray' = IF e[2] = "out"
                           THEN astray \cup ({left[i] : i \in 1 .. n} \ {Login})
                           ELSE astray
    /\ UNCHANGED <<link, authenticated, client, inbox, unsent, history>>

(* The read handler of a server-to-server client takes a packet.            *)
Reading(e) == state[e] = "open" /\ queue[e] # <<>>
Popped(e) == [queue EXCEPT ![e] = Tail(@)]

\* Mutant: Any password will do.
ReadLogin_any(e) ==
    /\ Reading(e)
    /\ Head(queue[e]) = Login
    /\ authenticated' = [authenticated EXCEPT ![e] = TRUE]
    /\ queue' = Popped(e)
    /\ UNCHANGED <<link, state, client, inbox, unsent, history, astray>>

(* A wrong password is logged; the connection stays as it is.               *)
ReadLogin(e) ==
    /\ Reading(e)
    /\ Head(queue[e]) = Login
    /\ authenticated' =
          [authenticated EXCEPT ![e] = @ \/ link[e[1]] \in Trusted]
    /\ queue' = Popped(e)
    /\ UNCHANGED <<link, state, client, inbox, unsent, history, astray>>

ReadForward(e) ==
    /\ Reading(e)
    /\ Head(queue[e]) # Login
    /\ authenticated[e]
    /\ Dispatch(ServerOf(e), e, Head(queue[e]), client, Popped(e))
    /\ UNCHANGED <<conns, client, inbox, unsent, written, astray>>

DropForward(e) ==
    /\ Reading(e)
    /\ Head(queue[e]) # Login
    /\ ~authenticated[e]
    /\ queue' = Popped(e)
    /\ UNCHANGED <<conns, client, inbox, unsent, history, astray>>

----------------------------------------------------------------------------
(* Chat clients.                                                            *)

Connect(c) ==
    /\ client[c].state = "away"
    /\ client' = [client EXCEPT ![c] = [state |-> "open", sig |-> NoSig]]
    /\ UNCHANGED <<conns, queue, inbox, unsent, history, astray>>

Submit(c, m) ==
    /\ client[c].state = "open"
    /\ m \in unsent
    /\ Author[m] = c
    /\ unsent' = unsent \ {m}
    /\ inbox' = [inbox EXCEPT ![c] = Append(@, m)]
    /\ written' = [written EXCEPT ![c] = Append(@, m)]
    /\ UNCHANGED <<conns, queue, client, received, dispatched, astray>>

(* The server registers the sender and dispatches.  The messages one read   *)
(* has taken are handled even if one before them was malformed.             *)
ReadMessage(c) ==
    /\ inbox[c] # <<>>
    /\ LET m == Head(inbox[c])
           known == [client EXCEPT ![c].sig = From[m]]
       IN  /\ m \notin Malformed
           /\ client' = known
           /\ Dispatch(Home[c], NoEnd, m, known, queue)
    /\ inbox' = [inbox EXCEPT ![c] = Tail(@)]
    /\ UNCHANGED <<conns, unsent, written, astray>>

(* The client is corrupt from here on.  The messages the same read has      *)
(* taken are still to come; the rest is lost.                               *)
ReadMalformed(c) ==
    /\ inbox[c] # <<>>
    /\ Head(inbox[c]) \in Malformed
    /\ client' = [client EXCEPT ![c].state = "corrupt"]
    /\ \E n \in 1 .. Len(inbox[c]) :
          inbox' = [inbox EXCEPT ![c] = SubSeq(@, 2, n)]
    /\ UNCHANGED <<conns, queue, unsent, history, astray>>

BreakClient(c) ==
    /\ client[c].state = "open"
    /\ client' = [client EXCEPT ![c].state = "corrupt"]
    /\ inbox' = [inbox EXCEPT ![c] = <<>>]
    /\ UNCHANGED <<conns, queue, unsent, history, astray>>

(* A later poll destroys a corrupt client, once the read is over.           *)
RemoveClient(c) ==
    /\ client[c].state = "corrupt"
    /\ inbox[c] = <<>>
    /\ client' = [client EXCEPT ![c] = [state |-> "away", sig |-> NoSig]]
    /\ UNCHANGED <<conns, queue, inbox, unsent, history, astray>>

----------------------------------------------------------------------------
Read(e) == ReadLogin(e) \/ ReadForward(e) \/ DropForward(e)
ReadClient(c) == ReadMessage(c) \/ ReadMalformed(c)

Next ==
    \/ \E l \in Links, k \in Conns : StartLink(l, k)
    \/ \E k \in Conns : Accept(k)
    \/ \E e \in Ends : Break(e)
    \/ \E e \in Ends : Read(e)
    \/ \E c \in Clients : Connect(c)
    \/ \E c \in Clients, m \in Messages : Submit(c, m)
    \/ \E c \in Clients : ReadClient(c)
    \/ \E c \in Clients : BreakClient(c)
    \/ \E c \in Clients : RemoveClient(c)

Spec == Init /\ [][Next]_vars

(* Every server goes on polling, so what has arrived is read in the end.    *)
FairSpec ==
    /\ Spec
    /\ \A e \in Ends : WF_vars(Read(e))
    /\ \A c \in Clients : WF_vars(ReadClient(c))
----------------------------------------------------------------------------
(* Properties.                                                              *)

(* Every variable has its type, nothing waits for an end that has failed,   *)
(* and only the side that accepts has a backlog.                            *)
TypeOK ==
    /\ link \in [Conns -> Links \cup {NoLink}]
    /\ state \in [Ends -> {"free", "pending", "open", "closed"}]
    /\ authenticated \in [Ends -> BOOLEAN]
    /\ queue \in [Ends -> Seq(Packets)]
    /\ \A k \in Conns : state[Out(k)] # "pending"
    /\ \A e \in Ends : link[e[1]] = NoLink <=> state[e] = "free"
    /\ \A e \in Ends : state[e] \in {"free", "closed"} => queue[e] = <<>>
    /\ client \in [Clients -> [state : {"away", "open", "corrupt"},
                               sig : Sigs \cup {NoSig}]]
    /\ inbox \in [Clients -> Seq(Messages)]
    /\ unsent \in SUBSET Messages
    /\ written \in [Clients -> Seq(Messages)]
    /\ received \in [Clients -> Seq(Messages)]
    /\ dispatched \in [Servers -> SUBSET Messages]
    /\ astray \in SUBSET Messages

(* The links form a forest: seen from any server o, each link leads from a   *)
(* server to one farther away, and no server has two ways back to o.        *)
IsTree ==
    /\ \A l \in Links : <<l[2], l[1]>> \notin Links
    /\ \A o \in Servers : \E toward \in [Servers -> Servers] :
          /\ toward[o] = o
          /\ \A l \in Links :
                \/ toward[l[2]] = l[1] /\ toward[l[1]] # l[2]
                \/ toward[l[1]] = l[2] /\ toward[l[2]] # l[1]

(* On a tree of servers a message reaches a client once at most.  Nothing    *)
(* marks a message as seen: ichat_dispatch only skips the connection it came *)
(* from, which is not enough for a message that was still under way on a    *)
(* connection when its server made a new one for the same link.             *)
AtMostOnce ==
    IsTree =>
        \A c \in Clients : \A i, j \in DOMAIN received[c] :
            i # j /\ received[c][i] = received[c][j] => received[c][i] \in astray

Before(c, m, n) ==
    \E i, j \in DOMAIN received[c] :
        i < j /\ received[c][i] = m /\ received[c][j] = n

(* All clients see the messages of one author in the same order, unless one *)
(* was left behind on an old connection and overtaken on the next.          *)
InOrder ==
    IsTree =>
        \A c, d \in Clients : \A m, n \in Messages \ astray :
            Author[m] = Author[n] /\ Before(c, m, n) => ~Before(d, n, m)

(* On a tree of servers the servers together are one room: each author's    *)
(* messages get to a client in the order he wrote them, none of them twice, *)
(* unless it was left behind on an old connection; and none that he did not *)
(* write, that is malformed, or that is for a signature the client has not  *)
(* used, as ichat_unicast looks at the sig of each client.                  *)
Room == INSTANCE ChatRoom

ServesRoom == Room!Init /\ [][IsTree => Room!Next]_(Room!vars)

(* t can be reached from s over links whose password is right.              *)
Joined(s, t) ==
    \A S \in SUBSET Servers :
        /\ s \in S
        /\ \A l \in Trusted : l[1] \in S <=> l[2] \in S
        => t \in S

(* Servers that disagree on the password of the link between them do not    *)
(* exchange messages, in either direction, although the connection stays    *)
(* up and the side that connected takes it for authenticated.               *)
PasswordSeparates ==
    \A c \in Clients : \A i \in DOMAIN received[c] :
        Joined(Home[Author[received[c][i]]], Home[c])

(* Each link with the right password has a connection in full operation.    *)
AllUp ==
    \A l \in Trusted : \E k \in Conns :
        /\ link[k] = l
        /\ state[Out(k)] = "open" /\ state[In(k)] = "open"
        /\ authenticated[In(k)]

(* c is a receiver of m: m is a broadcast, or c has registered with its     *)
(* receiver's signature and no client of another server has.                *)
Expects(c, m) ==
    /\ m \notin Malformed
    /\ client[c].state = "open"
    /\ \/ To[m] = Everyone
       \/ /\ client[c].sig = To[m]
          /\ \A d \in Clients : client[d].sig = To[m] => Home[d] = Home[c]

Submitted(m) == \E i \in DOMAIN inbox[Author[m]] : inbox[Author[m]][i] = m

(* A message submitted while all links are up reaches its receivers on every *)
(* joined server, as long as the links stay up and the receiver and the     *)
(* author stay connected.                                                   *)
Reaches ==
    \A c \in Clients, m \in Messages :
        Joined(Home[Author[m]], Home[c]) =>
            ( AllUp /\ Submitted(m) /\ Expects(c, m)
              ~> \/ \E i \in DOMAIN received[c] : received[c][i] = m
                 \/ ~AllUp
                 \/ ~Expects(c, m)
                 \/ client[Author[m]].state # "open" )

=============================================================================
