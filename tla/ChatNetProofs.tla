---------------------------- MODULE ChatNetProofs ----------------------------
(****************************************************************************)
(* Proofs about ChatNet, for any servers, links, clients and messages:      *)
(* types, that a wrong password separates servers, and that on a tree of    *)
(* servers a message reaches a client once at most, the messages of one     *)
(* author in one order, and that the servers implement ChatRoom.            *)
(****************************************************************************)
EXTENDS ChatNet, SequenceTheorems, TLAPS

----------------------------------------------------------------------------
(* Ends of connections.                                                     *)

LEMMA EndFacts ==
    \A e \in Ends :
        /\ e[1] \in Conns
        /\ e = Out(e[1]) \/ e = In(e[1])
        /\ e = Out(e[1]) => Peer(e) = In(e[1])
        /\ e = In(e[1]) => Peer(e) = Out(e[1])
        /\ Peer(e) \in Ends /\ Peer(Peer(e)) = e /\ Peer(e) # e
        /\ Peer(e)[1] = e[1]
BY DEF Ends, Out, In, Peer

LEMMA SideFacts ==
    \A k \in Conns :
        /\ Out(k) \in Ends /\ In(k) \in Ends /\ Out(k) # In(k)
        /\ Out(k)[1] = k /\ In(k)[1] = k
        /\ Peer(Out(k)) = In(k) /\ Peer(In(k)) = Out(k)
        /\ ServerOf(Out(k)) = link[k][1] /\ ServerOf(In(k)) = link[k][2]
BY DEF Ends, Out, In, Peer, ServerOf

(* The ends of a connection made for a link are at the servers of the link. *)
LEMMA ServerFacts ==
    ASSUME TypeOK, NEW e \in Ends, state[e] # "free"
    PROVE  /\ link[e[1]] \in Links
           /\ state[Peer(e)] # "free"
           /\ ServerOf(e) \in Servers /\ ServerOf(Peer(e)) \in Servers
           /\ link[e[1]][1] \in Servers /\ link[e[1]][2] \in Servers
           /\ link[e[1]] = <<link[e[1]][1], link[e[1]][2]>>
           /\ \/ /\ e = Out(e[1]) /\ Peer(e) = In(e[1])
                 /\ ServerOf(e) = link[e[1]][1]
                 /\ ServerOf(Peer(e)) = link[e[1]][2]
              \/ /\ e = In(e[1]) /\ Peer(e) = Out(e[1])
                 /\ ServerOf(e) = link[e[1]][2]
                 /\ ServerOf(Peer(e)) = link[e[1]][1]
<1>1. e[1] \in Conns /\ Peer(e) \in Ends /\ Peer(e)[1] = e[1]
  BY EndFacts
<1>2. link[e[1]] # NoLink /\ link[e[1]] \in Links \cup {NoLink}
  BY <1>1 DEF TypeOK
<1>3. link[e[1]] \in Links /\ state[Peer(e)] # "free"
  BY <1>1, <1>2 DEF TypeOK
<1>4. link[e[1]] \in Servers \X Servers
  BY <1>3, NetworkAssumption
<1>5. /\ link[e[1]][1] \in Servers /\ link[e[1]][2] \in Servers
      /\ link[e[1]] = <<link[e[1]][1], link[e[1]][2]>>
  BY <1>4
<1> QED BY <1>1, <1>3, <1>5, EndFacts, SideFacts

----------------------------------------------------------------------------
(* Positions in sequences.                                                  *)

LEMMA AppendAt ==
    ASSUME NEW S, NEW q \in Seq(S), NEW x \in S
    PROVE  /\ Append(q, x) \in Seq(S)
           /\ DOMAIN q = 1 .. Len(q) /\ Len(q) \in Nat
           /\ DOMAIN Append(q, x) = 1 .. (Len(q) + 1)
           /\ \A i \in DOMAIN Append(q, x) :
                 \/ i \in DOMAIN q /\ Append(q, x)[i] = q[i]
                 \/ i = Len(q) + 1 /\ Append(q, x)[i] = x
BY AppendProperties

LEMMA TailAt ==
    ASSUME NEW S, NEW q \in Seq(S), q # <<>>
    PROVE  /\ Tail(q) \in Seq(S)
           /\ 1 \in DOMAIN q /\ Head(q) = q[1] /\ Head(q) \in S
           /\ DOMAIN q = 1 .. Len(q) /\ Len(q) \in Nat
           /\ \A i \in DOMAIN Tail(q) :
                 /\ i \in Nat /\ i + 1 \in DOMAIN q /\ i + 1 # 1
                 /\ Tail(q)[i] = q[i + 1]
BY HeadTailProperties, EmptySeq

LEMMA SubSeqAt ==
    ASSUME NEW S, NEW q \in Seq(S), NEW a \in {1, 2}, NEW n \in 0 .. Len(q)
    PROVE  /\ SubSeq(q, a, n) \in Seq(S)
           /\ DOMAIN q = 1 .. Len(q) /\ Len(q) \in Nat
           /\ \A i \in DOMAIN SubSeq(q, a, n) :
                 /\ i \in Nat /\ i + a - 1 \in DOMAIN q
                 /\ SubSeq(q, a, n)[i] = q[i + a - 1]
                 /\ a = 1 => i \in 1 .. n
<1>1. \A i \in a .. n : q[i] \in S
  BY ElementOfSeq
<1>2. /\ SubSeq(q, a, n) \in Seq(S)
      /\ Len(SubSeq(q, a, n)) = IF a <= n THEN n - a + 1 ELSE 0
      /\ \A i \in 1 .. (n - a + 1) : SubSeq(q, a, n)[i] = q[a + i - 1]
  BY <1>1, SubSeqProperties
<1>3. DOMAIN SubSeq(q, a, n) = 1 .. Len(SubSeq(q, a, n))
  BY <1>2
<1> QED BY <1>2, <1>3
----------------------------------------------------------------------------
(* What ichat_dispatch does.                                                *)

ChatType == [Clients -> [state : {"away", "open", "corrupt"}, sig : Sigs \cup {NoSig}]]

(* A packet of the new queue of end d is an old one or the message, sent    *)
(* from another server's end than the one it came from.                     *)
Queued(s, origin, m, rest) ==
    \A d \in Ends : \A i \in DOMAIN queue'[d] :
        \/ i \in DOMAIN rest[d] /\ queue'[d][i] = rest[d][i]
        \/ /\ Peer(d) \in OtherServers(s, origin) /\ state[d] # "closed"
           /\ i = Len(rest[d]) + 1 /\ queue'[d][i] = m

Delivered(s, m) ==
    \A c \in Clients : \A i \in DOMAIN received'[c] :
        \/ i \in DOMAIN received[c] /\ received'[c][i] = received[c][i]
        \/ /\ Home[c] = s
           /\ i = Len(received[c]) + 1 /\ received'[c][i] = m

LEMMA DispatchFacts ==
    ASSUME TypeOK, NEW s \in Servers, NEW origin, NEW m \in Messages,
           NEW chat \in ChatType, NEW rest \in [Ends -> Seq(Packets)],
           \A e \in Ends : state[e] \in {"free", "closed"} => rest[e] = <<>>,
           Dispatch(s, origin, m, chat, rest)
    PROVE  /\ queue' \in [Ends -> Seq(Packets)]
           /\ \A e \in Ends : state[e] \in {"free", "closed"} => queue'[e] = <<>>
           /\ Queued(s, origin, m, rest)
           /\ received' \in [Clients -> Seq(Messages)]
           /\ Delivered(s, m)
           /\ dispatched' \in [Servers -> SUBSET Messages]
           /\ dispatched' = [dispatched EXCEPT ![s] = @ \cup {m}]
<1> DEFINE locals == LocalReceivers(s, m, chat)
           remotes == RemoteReceivers(s, origin, m, locals)
<1>1. locals \subseteq {c \in Clients : Home[c] = s}
  BY DEF LocalReceivers, InList
<1>2. remotes \subseteq OtherServers(s, origin)
  BY DEF RemoteReceivers
<1>3. /\ received' = [c \in Clients |->
             IF c \in locals /\ chat[c].state = "open"
             THEN Append(received[c], m) ELSE received[c]]
      /\ queue' = [e \in Ends |->
             IF Peer(e) \in remotes /\ state[e] # "closed"
             THEN Append(rest[e], m) ELSE rest[e]]
      /\ dispatched' = [dispatched EXCEPT ![s] = @ \cup {m}]
  BY DEF Dispatch, Enqueue
<1> HIDE DEF locals, remotes
<1>4. m \in Packets
  BY DEF Packets
<1>5. \A e \in Ends : /\ Append(rest[e], m) \in Seq(Packets)
                      /\ \A i \in DOMAIN Append(rest[e], m) :
                           \/ i \in DOMAIN rest[e] /\ Append(rest[e], m)[i] = rest[e][i]
                           \/ i = Len(rest[e]) + 1 /\ Append(rest[e], m)[i] = m
  <2> TAKE e \in Ends
  <2>1. rest[e] \in Seq(Packets)
    OBVIOUS
  <2> QED BY <2>1, <1>4, AppendAt
<1>6. \A c \in Clients : /\ Append(received[c], m) \in Seq(Messages)
                         /\ \A i \in DOMAIN Append(received[c], m) :
                              \/ i \in DOMAIN received[c] /\ Append(received[c], m)[i] = received[c][i]
                              \/ i = Len(received[c]) + 1 /\ Append(received[c], m)[i] = m
  <2> TAKE c \in Clients
  <2>1. received[c] \in Seq(Messages)
    BY DEF TypeOK
  <2> QED BY <2>1, AppendAt
<1>7. queue' \in [Ends -> Seq(Packets)]
  BY <1>3, <1>5
<1>8. ASSUME NEW e \in Ends, state[e] \in {"free", "closed"}
      PROVE  queue'[e] = <<>>
  <2>1. Peer(e) \in OtherServers(s, origin) => state[e] # "free"
    <3>1. Peer(e) \in Ends /\ Peer(Peer(e)) = e
      BY EndFacts
    <3>2. Peer(e) \in OtherServers(s, origin) => state[Peer(e)] # "free"
      BY DEF OtherServers
    <3> QED BY <3>1, <3>2, ServerFacts
  <2> QED BY <1>2, <1>3, <1>8, <2>1
<1>9. Queued(s, origin, m, rest)
  BY <1>2, <1>3, <1>5 DEF Queued
<1>10. received' \in [Clients -> Seq(Messages)]
  <2>1. received \in [Clients -> Seq(Messages)]
    BY DEF TypeOK
  <2> QED BY <2>1, <1>3, <1>6
<1>11. Delivered(s, m)
  BY <1>1, <1>3, <1>6 DEF Delivered
<1>12. dispatched' \in [Servers -> SUBSET Messages]
  BY <1>3 DEF TypeOK
<1> QED BY <1>3, <1>7, <1>8, <1>9, <1>10, <1>11, <1>12

(* The queues after the head of one is taken.                               *)
LEMMA PoppedFacts ==
    ASSUME TypeOK, NEW e \in Ends, Reading(e)
    PROVE  /\ Popped(e) \in [Ends -> Seq(Packets)]
           /\ \A d \in Ends : state[d] \in {"free", "closed"} => Popped(e)[d] = <<>>
           /\ 1 \in DOMAIN queue[e] /\ Head(queue[e]) = queue[e][1]
           /\ Head(queue[e]) \in Packets
           /\ state[e] = "open"
           /\ \A d \in Ends \ {e} : Popped(e)[d] = queue[d]
           /\ \A i \in DOMAIN Popped(e)[e] :
                 /\ i + 1 \in DOMAIN queue[e] /\ i + 1 # 1
                 /\ Popped(e)[e][i] = queue[e][i + 1]
<1>1. queue \in [Ends -> Seq(Packets)] /\ queue[e] \in Seq(Packets)
  BY DEF TypeOK
<1>2. queue[e] # <<>> /\ state[e] = "open"
  BY DEF Reading
<1>3. /\ Tail(queue[e]) \in Seq(Packets)
      /\ 1 \in DOMAIN queue[e] /\ Head(queue[e]) = queue[e][1]
      /\ Head(queue[e]) \in Packets
      /\ \A i \in DOMAIN Tail(queue[e]) :
            /\ i + 1 \in DOMAIN queue[e] /\ i + 1 # 1
            /\ Tail(queue[e])[i] = queue[e][i + 1]
  BY <1>1, <1>2, TailAt
<1>4. Popped(e) = [queue EXCEPT ![e] = Tail(queue[e])]
  BY DEF Popped
<1>5. \A d \in Ends : state[d] \in {"free", "closed"} => queue[d] = <<>>
  BY DEF TypeOK
<1> QED BY <1>1, <1>2, <1>3, <1>4, <1>5
----------------------------------------------------------------------------
(* Types.                                                                   *)

LEMMA TypeInit == Init => TypeOK
BY NetworkAssumption, MessageAssumption, SideFacts, EndFacts DEF Init, TypeOK

LEMMA StartLinkType ==
    ASSUME TypeOK, NEW l \in Links, NEW k \in Conns, StartLink(l, k)
    PROVE  TypeOK'
<1>1. Out(k) \in Ends /\ In(k) \in Ends
  BY SideFacts
<1>2. \A e \in Ends : /\ e[1] = k <=> e \in {Out(k), In(k)}
                      /\ e[1] \in Conns
  BY EndFacts, SideFacts
<1>3. <<Login>> \in Seq(Packets) /\ l # NoLink
  BY NetworkAssumption DEF Packets
<1>4. link' = [link EXCEPT ![k] = l] /\ link' \in [Conns -> Links \cup {NoLink}]
  BY DEF StartLink, TypeOK
<1>5. /\ state' = [state EXCEPT ![Out(k)] = "open", ![In(k)] = "pending"]
      /\ state' \in [Ends -> {"free", "pending", "open", "closed"}]
  BY <1>1 DEF StartLink, TypeOK
<1>6. \A j \in Conns : state'[Out(j)] # "pending"
  <2> TAKE j \in Conns
  <2>1. Out(j) # In(k) /\ Out(j) \in Ends /\ state[Out(j)] # "pending"
    BY SideFacts DEF TypeOK, Out, In
  <2> QED BY <1>1, <1>5, <2>1 DEF TypeOK
<1>7. /\ queue' = [queue EXCEPT ![In(k)] = <<Login>>]
      /\ queue' \in [Ends -> Seq(Packets)]
  BY <1>1, <1>3 DEF StartLink, TypeOK
<1>8. \A e \in Ends : link'[e[1]] = NoLink <=> state'[e] = "free"
  BY <1>1, <1>2, <1>3, <1>4, <1>5, SideFacts DEF TypeOK
<1>9. \A e \in Ends : state'[e] \in {"free", "closed"} => queue'[e] = <<>>
  BY <1>1, <1>5, <1>7, SideFacts DEF TypeOK
<1>10. authenticated' \in [Ends -> BOOLEAN]
  <2>1. authenticated' = [authenticated EXCEPT ![Out(k)] = TRUE]
    BY DEF StartLink
  <2> QED BY <2>1 DEF TypeOK
<1>11. UNCHANGED <<client, inbox, unsent, written, received, dispatched, astray>>
  BY DEF StartLink, history
<1> QED BY <1>4, <1>5, <1>6, <1>7, <1>8, <1>9, <1>10, <1>11 DEF TypeOK

LEMMA AcceptType ==
    ASSUME TypeOK, NEW k \in Conns, Accept(k)
    PROVE  TypeOK'
<1>1. In(k) \in Ends /\ \A j \in Conns : Out(j) # In(k) /\ Out(j) \in Ends
  BY SideFacts DEF Out, In
<1>2. /\ state[In(k)] = "pending" /\ state' = [state EXCEPT ![In(k)] = "open"]
      /\ UNCHANGED <<link, authenticated, queue, client, inbox, unsent,
                     written, received, dispatched, astray>>
  BY DEF Accept, history
<1> QED BY <1>1, <1>2 DEF TypeOK

LEMMA BreakFacts ==
    ASSUME TypeOK, NEW e \in Ends, Break(e)
    PROVE  /\ state' = [state EXCEPT ![e] = "closed"] /\ state[e] = "open"
           /\ UNCHANGED <<link, authenticated, client, inbox, unsent,
                          written, received, dispatched>>
           /\ queue' \in [Ends -> Seq(Packets)]
           /\ queue'[e] = <<>>
           /\ queue[Peer(e)] = <<>> => queue'[Peer(e)] = <<>>
           /\ \A d \in Ends \ {e, Peer(e)} : queue'[d] = queue[d]
           /\ \A d \in Ends : \A i \in DOMAIN queue'[d] :
                 i \in DOMAIN queue[d] /\ queue'[d][i] = queue[d][i]
           /\ astray \subseteq astray'
           /\ astray' \in SUBSET Messages
           /\ e = Out(e[1]) => \A i \in DOMAIN queue'[Peer(e)] :
                 queue'[Peer(e)][i] \in astray' \cup {Login}
<1>1. /\ queue[Peer(e)] \in Seq(Packets)
      /\ queue \in [Ends -> Seq(Packets)]
      /\ Peer(e) \in Ends /\ Peer(e) # e
  BY EndFacts DEF TypeOK
<1>2. PICK n \in 0 .. Len(queue[Peer(e)]) :
          LET left == SubSeq(queue[Peer(e)], 1, n)
          IN  /\ queue' = [queue EXCEPT ![e] = <<>>, ![Peer(e)] = left]
              /\ astray' = IF e[2] = "out"
                           THEN astray \cup ({left[i] : i \in 1 .. n} \ {Login})
                           ELSE astray
  BY DEF Break
<1> DEFINE left == SubSeq(queue[Peer(e)], 1, n)
<1>3. /\ left \in Seq(Packets)
      /\ \A i \in DOMAIN left : /\ i \in DOMAIN queue[Peer(e)]
                                /\ left[i] = queue[Peer(e)][i]
                                /\ i \in 1 .. n
  <2>1. \A i \in DOMAIN left : /\ i \in Nat /\ i + 1 - 1 \in DOMAIN queue[Peer(e)]
                               /\ left[i] = queue[Peer(e)][i + 1 - 1]
                               /\ i \in 1 .. n
    BY <1>1, SubSeqAt
  <2>2. left \in Seq(Packets)
    BY <1>1, SubSeqAt
  <2>3. \A i \in Nat : i + 1 - 1 = i
    OBVIOUS
  <2> QED BY <2>1, <2>2, <2>3
<1>4. \A i \in 1 .. n : left[i] \in Packets
  <2>1. \A i \in 1 .. n : i \in 1 .. Len(queue[Peer(e)])
    BY <1>1
  <2>2. \A i \in 1 .. n : left[i] = queue[Peer(e)][i]
    BY <1>1, <2>1, SubSeqProperties
  <2> QED BY <1>1, <2>1, <2>2, ElementOfSeq
<1>5. /\ queue' = [queue EXCEPT ![e] = <<>>, ![Peer(e)] = left]
      /\ astray' = IF e[2] = "out"
                   THEN astray \cup ({left[i] : i \in 1 .. n} \ {Login})
                   ELSE astray
  BY <1>2
<1>6. queue[Peer(e)] = <<>> => left = <<>>
  BY <1>1, <1>3, EmptySeq
<1> HIDE DEF left
<1>7. /\ astray \subseteq astray' /\ astray' \in SUBSET Messages
  BY <1>4, <1>5 DEF TypeOK, Packets
<1>8. e = Out(e[1]) => e[2] = "out"
  BY DEF Out
<1>9. /\ state' = [state EXCEPT ![e] = "closed"] /\ state[e] = "open"
      /\ UNCHANGED <<link, authenticated, client, inbox, unsent,
                     written, received, dispatched>>
  BY DEF Break, history
<1>10. /\ queue' \in [Ends -> Seq(Packets)]
       /\ queue'[e] = <<>> /\ queue'[Peer(e)] = left
       /\ \A d \in Ends \ {e, Peer(e)} : queue'[d] = queue[d]
  <2>1. /\ queue' = [[queue EXCEPT ![e] = <<>>] EXCEPT ![Peer(e)] = left]
        /\ <<>> \in Seq(Packets)
    BY <1>5
  <2> QED BY <1>1, <1>3, <2>1
<1>11. \A d \in Ends : \A i \in DOMAIN queue'[d] :
           i \in DOMAIN queue[d] /\ queue'[d][i] = queue[d][i]
  <2> TAKE d \in Ends
  <2>1. CASE d = e
    BY <2>1, <1>10
  <2>2. CASE d = Peer(e)
    BY <2>2, <1>3, <1>10
  <2> QED BY <2>1, <2>2, <1>10
<1>12. e = Out(e[1]) => \A i \in DOMAIN queue'[Peer(e)] :
           queue'[Peer(e)][i] \in astray' \cup {Login}
  BY <1>3, <1>5, <1>8, <1>10
<1> QED BY <1>6, <1>7, <1>9, <1>10, <1>11, <1>12

LEMMA BreakType ==
    ASSUME TypeOK, NEW e \in Ends, Break(e)
    PROVE  TypeOK'
<1>1. /\ state' = [state EXCEPT ![e] = "closed"] /\ state[e] = "open"
      /\ UNCHANGED <<link, authenticated, client, inbox, unsent,
                     written, received, dispatched>>
      /\ queue' \in [Ends -> Seq(Packets)]
      /\ queue'[e] = <<>>
      /\ queue[Peer(e)] = <<>> => queue'[Peer(e)] = <<>>
      /\ \A d \in Ends \ {e, Peer(e)} : queue'[d] = queue[d]
      /\ astray' \in SUBSET Messages
  BY BreakFacts
<1>2. Peer(e) \in Ends /\ Peer(e) # e
  BY EndFacts
<1>3. \A d \in Ends : state'[d] \in {"free", "closed"} => queue'[d] = <<>>
  BY <1>1, <1>2 DEF TypeOK
<1>4. \A k \in Conns : state'[Out(k)] # "pending"
  BY <1>1, SideFacts DEF TypeOK
<1> QED BY <1>1, <1>3, <1>4 DEF TypeOK

LEMMA ReadType ==
    ASSUME TypeOK, NEW e \in Ends, Read(e)
    PROVE  TypeOK'
<1>1. Reading(e)
  BY DEF Read, ReadLogin, ReadForward, DropForward
<1>2. /\ Popped(e) \in [Ends -> Seq(Packets)]
      /\ \A d \in Ends : state[d] \in {"free", "closed"} => Popped(e)[d] = <<>>
      /\ Head(queue[e]) \in Packets
      /\ state[e] = "open"
  BY <1>1, PoppedFacts
<1>3. CASE ReadLogin(e)
  <2>1. /\ authenticated' = [authenticated EXCEPT ![e] = @ \/ link[e[1]] \in Trusted]
        /\ queue' = Popped(e)
        /\ UNCHANGED <<link, state, client, inbox, unsent, written, received, dispatched, astray>>
    BY <1>3 DEF ReadLogin, history
  <2>2. authenticated' \in [Ends -> BOOLEAN]
    BY <2>1 DEF TypeOK
  <2> QED BY <1>2, <2>1, <2>2 DEF TypeOK
<1>4. CASE DropForward(e)
  <2>1. /\ queue' = Popped(e)
        /\ UNCHANGED <<link, state, authenticated, client, inbox, unsent,
                       written, received, dispatched, astray>>
    BY <1>4 DEF DropForward, conns, history
  <2> QED BY <1>2, <2>1 DEF TypeOK
<1>5. CASE ReadForward(e)
  <2>1. /\ Dispatch(ServerOf(e), e, Head(queue[e]), client, Popped(e))
        /\ UNCHANGED <<link, state, authenticated, client, inbox, unsent, written, astray>>
        /\ Head(queue[e]) # Login
    BY <1>5 DEF ReadForward, conns
  <2>2. Head(queue[e]) \in Messages
    BY <1>2, <2>1 DEF Packets
  <2>3. ServerOf(e) \in Servers
    BY <1>2, ServerFacts
  <2>4. client \in ChatType
    BY DEF TypeOK, ChatType
  <2>5. /\ queue' \in [Ends -> Seq(Packets)]
        /\ \A d \in Ends : state[d] \in {"free", "closed"} => queue'[d] = <<>>
        /\ received' \in [Clients -> Seq(Messages)]
        /\ dispatched' \in [Servers -> SUBSET Messages]
    BY <1>2, <2>1, <2>2, <2>3, <2>4, DispatchFacts
  <2> QED BY <2>1, <2>5 DEF TypeOK
<1> QED BY <1>3, <1>4, <1>5 DEF Read

(* What a chat client has written is taken in order.                        *)
LEMMA InboxFacts ==
    ASSUME TypeOK, NEW c \in Clients, inbox[c] # <<>>
    PROVE  /\ 1 \in DOMAIN inbox[c] /\ Head(inbox[c]) = inbox[c][1]
           /\ Head(inbox[c]) \in Messages
           /\ Tail(inbox[c]) \in Seq(Messages)
           /\ \A i \in DOMAIN Tail(inbox[c]) :
                 /\ i \in Nat /\ i + 1 \in DOMAIN inbox[c] /\ i + 1 # 1
                 /\ Tail(inbox[c])[i] = inbox[c][i + 1]
<1>1. inbox[c] \in Seq(Messages)
  BY DEF TypeOK
<1> QED BY <1>1, TailAt

LEMMA ReadMessageFacts ==
    ASSUME TypeOK, NEW c \in Clients, ReadMessage(c)
    PROVE  /\ queue' \in [Ends -> Seq(Packets)]
           /\ \A e \in Ends : state[e] \in {"free", "closed"} => queue'[e] = <<>>
           /\ Queued(Home[c], NoEnd, Head(inbox[c]), queue)
           /\ received' \in [Clients -> Seq(Messages)]
           /\ Delivered(Home[c], Head(inbox[c]))
           /\ dispatched' \in [Servers -> SUBSET Messages]
           /\ dispatched' = [dispatched EXCEPT ![Home[c]] = @ \cup {Head(inbox[c])}]
           /\ client' \in ChatType
           /\ inbox' = [inbox EXCEPT ![c] = Tail(@)]
           /\ Home[c] \in Servers /\ inbox[c] # <<>>
           /\ UNCHANGED <<link, state, authenticated, unsent, written, astray>>
<1>1. inbox[c] # <<>>
  BY DEF ReadMessage
<1>2. Head(inbox[c]) \in Messages
  BY <1>1, InboxFacts
<1>3. [client EXCEPT ![c].sig = From[Head(inbox[c])]] \in ChatType
  BY <1>2, MessageAssumption DEF TypeOK, ChatType
<1>4. PICK known \in ChatType :
          /\ client' = known
          /\ Dispatch(Home[c], NoEnd, Head(inbox[c]), known, queue)
  BY <1>2, <1>3 DEF ReadMessage
<1>5. Home[c] \in Servers
  BY NetworkAssumption
<1>6. /\ queue \in [Ends -> Seq(Packets)]
      /\ \A e \in Ends : state[e] \in {"free", "closed"} => queue[e] = <<>>
  BY DEF TypeOK
<1>7. /\ queue' \in [Ends -> Seq(Packets)]
      /\ \A e \in Ends : state[e] \in {"free", "closed"} => queue'[e] = <<>>
      /\ Queued(Home[c], NoEnd, Head(inbox[c]), queue)
      /\ received' \in [Clients -> Seq(Messages)]
      /\ Delivered(Home[c], Head(inbox[c]))
      /\ dispatched' \in [Servers -> SUBSET Messages]
      /\ dispatched' = [dispatched EXCEPT ![Home[c]] = @ \cup {Head(inbox[c])}]
  BY <1>2, <1>4, <1>5, <1>6, DispatchFacts, ZenonT(60)
<1>8. /\ inbox' = [inbox EXCEPT ![c] = Tail(@)]
      /\ UNCHANGED <<link, state, authenticated, unsent, written, astray>>
  BY DEF ReadMessage, conns
<1> QED BY <1>1, <1>4, <1>5, <1>7, <1>8

(* The rest of the messages of one read, after a malformed one.             *)
LEMMA MalformedFacts ==
    ASSUME TypeOK, NEW c \in Clients, ReadMalformed(c)
    PROVE  /\ inbox' \in [Clients -> Seq(Messages)]
           /\ \A d \in Clients \ {c} : inbox'[d] = inbox[d]
           /\ \A i \in DOMAIN inbox'[c] :
                 /\ i \in Nat /\ i + 1 \in DOMAIN inbox[c]
                 /\ inbox'[c][i] = inbox[c][i + 1]
           /\ client' \in ChatType
           /\ UNCHANGED <<link, state, authenticated, queue, unsent,
                          written, received, dispatched, astray>>
<1>1. inbox[c] \in Seq(Messages) /\ inbox \in [Clients -> Seq(Messages)]
  BY DEF TypeOK
<1>2. PICK n \in 1 .. Len(inbox[c]) : inbox' = [inbox EXCEPT ![c] = SubSeq(inbox[c], 2, n)]
  BY DEF ReadMalformed
<1>3. n \in 0 .. Len(inbox[c])
  BY <1>1
<1>4. /\ SubSeq(inbox[c], 2, n) \in Seq(Messages)
      /\ \A i \in DOMAIN SubSeq(inbox[c], 2, n) :
            /\ i \in Nat /\ i + 2 - 1 \in DOMAIN inbox[c]
            /\ SubSeq(inbox[c], 2, n)[i] = inbox[c][i + 2 - 1]
  BY <1>1, <1>3, SubSeqAt
<1>5. \A i \in Nat : i + 2 - 1 = i + 1
  OBVIOUS
<1>6. client' \in ChatType
  BY ZenonT(60) DEF ReadMalformed, ChatType, TypeOK
<1>7. UNCHANGED <<link, state, authenticated, queue, unsent,
                  written, received, dispatched, astray>>
  BY DEF ReadMalformed, conns, history
<1> QED BY <1>1, <1>2, <1>4, <1>5, <1>6, <1>7

LEMMA ClientType ==
    ASSUME TypeOK, NEW c \in Clients,
           \/ Connect(c) \/ ReadClient(c) \/ BreakClient(c) \/ RemoveClient(c)
           \/ \E m \in Messages : Submit(c, m)
    PROVE  TypeOK'
<1>1. CASE ReadMessage(c)
  <2>1. /\ queue' \in [Ends -> Seq(Packets)]
        /\ \A e \in Ends : state[e] \in {"free", "closed"} => queue'[e] = <<>>
        /\ received' \in [Clients -> Seq(Messages)]
        /\ dispatched' \in [Servers -> SUBSET Messages]
        /\ client' \in ChatType
        /\ inbox' = [inbox EXCEPT ![c] = Tail(@)] /\ inbox[c] # <<>>
        /\ UNCHANGED <<link, state, authenticated, unsent, written, astray>>
    BY <1>1, ReadMessageFacts
  <2>2. inbox' \in [Clients -> Seq(Messages)]
    BY <2>1, InboxFacts DEF TypeOK
  <2> QED BY <2>1, <2>2 DEF TypeOK, ChatType
<1>2. CASE ReadMalformed(c)
  BY <1>2, MalformedFacts DEF TypeOK, ChatType
<1>3. CASE Connect(c) \/ RemoveClient(c)
  <2>1. /\ client' = [client EXCEPT ![c] = [state |-> "open", sig |-> NoSig]]
           \/ client' = [client EXCEPT ![c] = [state |-> "away", sig |-> NoSig]]
        /\ UNCHANGED <<link, state, authenticated, queue, inbox, unsent,
                       written, received, dispatched, astray>>
    BY <1>3 DEF Connect, RemoveClient, conns, history
  <2>2. client \in ChatType
    BY DEF TypeOK, ChatType
  <2>3. /\ [state |-> "open", sig |-> NoSig] \in [state : {"away", "open", "corrupt"}, sig : Sigs \cup {NoSig}]
        /\ [state |-> "away", sig |-> NoSig] \in [state : {"away", "open", "corrupt"}, sig : Sigs \cup {NoSig}]
    OBVIOUS
  <2>4. client' \in ChatType
    BY <2>1, <2>2, <2>3 DEF ChatType
  <2> QED BY <2>1, <2>4 DEF TypeOK, ChatType
<1>4. CASE BreakClient(c)
  <2>1. /\ client' = [client EXCEPT ![c].state = "corrupt"]
        /\ inbox' = [inbox EXCEPT ![c] = <<>>]
        /\ UNCHANGED <<link, state, authenticated, queue, unsent,
                       written, received, dispatched, astray>>
    BY <1>4 DEF BreakClient, conns, history
  <2>2. client' \in ChatType
    BY <2>1, ZenonT(60) DEF TypeOK, ChatType
  <2> QED BY <2>1, <2>2 DEF TypeOK, ChatType
<1>5. ASSUME NEW m \in Messages, Submit(c, m)
      PROVE  TypeOK'
  <2>1. /\ unsent' = unsent \ {m}
        /\ inbox' = [inbox EXCEPT ![c] = Append(@, m)]
        /\ written' = [written EXCEPT ![c] = Append(@, m)]
        /\ UNCHANGED <<link, state, authenticated, queue, client,
                       received, dispatched, astray>>
    BY <1>5 DEF Submit, conns, history
  <2> QED BY <2>1 DEF TypeOK
<1> QED BY <1>1, <1>2, <1>3, <1>4, <1>5 DEF ReadClient

LEMMA TypeStep == TypeOK /\ [Next]_vars => TypeOK'
<1> SUFFICES ASSUME TypeOK, [Next]_vars PROVE TypeOK'
  OBVIOUS
<1>1. CASE Next
  BY <1>1, StartLinkType, AcceptType, BreakType, ReadType, ClientType DEF Next
<1>2. CASE UNCHANGED vars
  BY <1>2 DEF vars, TypeOK
<1> QED BY <1>1, <1>2

(* Every variable keeps its type, and an end that has failed has nothing     *)
(* left to read.                                                            *)
THEOREM Typing == Spec => []TypeOK
BY TypeInit, TypeStep, PTL DEF Spec
----------------------------------------------------------------------------
(* Where the messages under way come from.                                  *)

(* What is queued between servers was dispatched by the server that sent    *)
(* it, over an end it takes for authenticated; what a client gets was       *)
(* dispatched by its server.                                                *)
QueuedFrom(e) ==
    \A i \in DOMAIN queue[e] :
        queue[e][i] # Login =>
            authenticated[Peer(e)] /\ queue[e][i] \in dispatched[ServerOf(Peer(e))]

Carried ==
    /\ \A e \in Ends : QueuedFrom(e)
    /\ \A c \in Clients : \A i \in DOMAIN received[c] :
          received[c][i] \in dispatched[Home[c]]
    /\ \A c \in Clients : \A i \in DOMAIN inbox[c] : Author[inbox[c][i]] = c
    /\ \A k \in Conns : authenticated[In(k)] => link[k] \in Trusted

LEMMA CarriedInit == Init => Carried
BY SideFacts DEF Init, Carried, QueuedFrom

(* Carried survives a step that adds nothing to the queues between servers  *)
(* and to what clients receive, and changes no link in use.                 *)
LEMMA CarriedQuiet ==
    ASSUME TypeOK, TypeOK', Carried, received' = received,
           dispatched' = dispatched,
           \A e \in Ends : state[e] # "free" => link'[e[1]] = link[e[1]],
           \A e \in Ends : authenticated[e] => authenticated'[e],
           \A e \in Ends : \A i \in DOMAIN queue'[e] :
               queue'[e][i] # Login => \E j \in DOMAIN queue[e] : queue'[e][i] = queue[e][j],
           \A c \in Clients : \A i \in DOMAIN inbox'[c] : Author[inbox'[c][i]] = c,
           \A k \in Conns : authenticated'[In(k)] => link'[k] \in Trusted
    PROVE  Carried'
<1>1. ASSUME NEW e \in Ends, NEW i \in DOMAIN queue'[e], queue'[e][i] # Login
      PROVE  /\ authenticated'[Peer(e)]
             /\ queue'[e][i] \in dispatched'[ServerOf(Peer(e))']
  <2>1. PICK j \in DOMAIN queue[e] : queue'[e][i] = queue[e][j]
    BY <1>1
  <2>2. authenticated[Peer(e)] /\ queue[e][j] \in dispatched[ServerOf(Peer(e))]
    BY <1>1, <2>1 DEF Carried, QueuedFrom
  <2>3. queue[e] # <<>>
    BY <2>1
  <2>4. state[e] # "free" /\ Peer(e) \in Ends /\ Peer(e)[1] = e[1]
    BY <2>3, EndFacts DEF TypeOK
  <2>5. link'[e[1]] = link[e[1]]
    BY <2>4
  <2>6. ServerOf(Peer(e))' = ServerOf(Peer(e))
    BY <2>4, <2>5 DEF ServerOf
  <2> QED BY <2>1, <2>2, <2>4, <2>6
<1>2. \A c \in Clients : \A i \in DOMAIN received'[c] :
          received'[c][i] \in dispatched'[Home[c]]
  BY DEF Carried
<1> QED BY <1>1, <1>2 DEF Carried, QueuedFrom

(* Carried survives a dispatch.                                             *)
LEMMA CarriedDispatch ==
    ASSUME TypeOK, Carried, NEW s \in Servers, NEW origin, NEW m \in Messages,
           NEW rest \in [Ends -> Seq(Packets)],
           \A e \in Ends : \A i \in DOMAIN rest[e] :
               \E j \in DOMAIN queue[e] : rest[e][i] = queue[e][j],
           Queued(s, origin, m, rest), Delivered(s, m),
           dispatched' = [dispatched EXCEPT ![s] = @ \cup {m}],
           \A c \in Clients : \A i \in DOMAIN inbox'[c] : Author[inbox'[c][i]] = c,
           UNCHANGED <<link, state, authenticated>>
    PROVE  Carried'
<1>1. \A t \in Servers : dispatched[t] \subseteq dispatched'[t] /\ m \in dispatched'[s]
  BY DEF TypeOK
<1>2. ASSUME NEW e \in Ends, NEW i \in DOMAIN queue'[e], queue'[e][i] # Login
      PROVE  /\ authenticated'[Peer(e)]
             /\ queue'[e][i] \in dispatched'[ServerOf(Peer(e))']
  <2>1. ServerOf(Peer(e))' = ServerOf(Peer(e))
    BY DEF ServerOf
  <2>2. CASE i \in DOMAIN rest[e] /\ queue'[e][i] = rest[e][i]
    <3>1. PICK j \in DOMAIN queue[e] : queue'[e][i] = queue[e][j]
      BY <2>2
    <3>2. authenticated[Peer(e)] /\ queue[e][j] \in dispatched[ServerOf(Peer(e))]
      BY <1>2, <3>1 DEF Carried, QueuedFrom
    <3>3. queue[e] # <<>>
      BY <3>1
    <3>4. state[e] # "free"
      BY <3>3 DEF TypeOK
    <3>5. ServerOf(Peer(e)) \in Servers
      BY <3>4, ServerFacts
    <3> QED BY <1>1, <2>1, <3>1, <3>2, <3>5
  <2>3. CASE Peer(e) \in OtherServers(s, origin) /\ queue'[e][i] = m
    <3>1. authenticated[Peer(e)] /\ ServerOf(Peer(e)) = s
      BY <2>3 DEF OtherServers
    <3> QED BY <1>1, <2>1, <2>3, <3>1
  <2> QED BY <2>2, <2>3 DEF Queued
<1>3. ASSUME NEW c \in Clients, NEW i \in DOMAIN received'[c]
      PROVE  received'[c][i] \in dispatched'[Home[c]]
  <2>1. Home[c] \in Servers
    BY NetworkAssumption
  <2>2. CASE i \in DOMAIN received[c] /\ received'[c][i] = received[c][i]
    BY <1>1, <2>1, <2>2 DEF Carried
  <2>3. CASE Home[c] = s /\ received'[c][i] = m
    BY <1>1, <2>3
  <2> QED BY <2>2, <2>3 DEF Delivered
<1>4. \A k \in Conns : authenticated'[In(k)] => link'[k] \in Trusted
  BY DEF Carried
<1> QED BY <1>2, <1>3, <1>4 DEF Carried, QueuedFrom

LEMMA CarriedStartLink ==
    ASSUME TypeOK, TypeOK', Carried, NEW l \in Links, NEW k \in Conns, StartLink(l, k)
    PROVE  Carried'
<1>1. /\ link[k] = NoLink
      /\ link' = [link EXCEPT ![k] = l]
      /\ authenticated' = [authenticated EXCEPT ![Out(k)] = TRUE]
      /\ queue' = [queue EXCEPT ![In(k)] = <<Login>>]
      /\ UNCHANGED <<inbox, received, dispatched>>
  BY DEF StartLink, history
<1>2. Out(k) \in Ends /\ In(k) \in Ends
  BY SideFacts
<1>3. \A e \in Ends : state[e] # "free" => link'[e[1]] = link[e[1]]
  BY <1>1, EndFacts DEF TypeOK
<1>4. \A e \in Ends : authenticated[e] => authenticated'[e]
  BY <1>1 DEF TypeOK
<1>5. \A e \in Ends : \A i \in DOMAIN queue'[e] : queue'[e][i] # Login =>
          \E j \in DOMAIN queue[e] : queue'[e][i] = queue[e][j]
  <2> TAKE e \in Ends
  <2>1. CASE e = In(k)
    <3>1. queue'[e] = <<Login>>
      BY <1>1, <1>2, <2>1 DEF TypeOK
    <3> QED BY <3>1
  <2>2. CASE e # In(k)
    BY <1>1, <2>2 DEF TypeOK
  <2> QED BY <2>1, <2>2
<1>6. \A j \in Conns : authenticated'[In(j)] => link'[j] \in Trusted
  <2> TAKE j \in Conns
  <2>1. authenticated'[In(j)] = authenticated[In(j)]
    <3>1. In(j) \in Ends /\ In(j) # Out(k)
      BY SideFacts DEF In, Out
    <3> QED BY <1>1, <3>1 DEF TypeOK
  <2>2. authenticated[In(j)] => link[j] \in Trusted
    BY DEF Carried
  <2>3. NoLink \notin Trusted
    BY NetworkAssumption
  <2> QED BY <1>1, <2>1, <2>2, <2>3 DEF TypeOK
<1>7. \A c \in Clients : \A i \in DOMAIN inbox'[c] : Author[inbox'[c][i]] = c
  BY <1>1 DEF Carried
<1> QED BY <1>1, <1>3, <1>4, <1>5, <1>6, <1>7, CarriedQuiet

LEMMA CarriedRead ==
    ASSUME TypeOK, TypeOK', Carried, NEW e \in Ends, Read(e)
    PROVE  Carried'
<1>1. Reading(e)
  BY DEF Read, ReadLogin, ReadForward, DropForward
<1>2. /\ Popped(e) \in [Ends -> Seq(Packets)]
      /\ Head(queue[e]) \in Packets /\ state[e] = "open"
      /\ \A d \in Ends \ {e} : Popped(e)[d] = queue[d]
      /\ \A i \in DOMAIN Popped(e)[e] :
            /\ i + 1 \in DOMAIN queue[e]
            /\ Popped(e)[e][i] = queue[e][i + 1]
  BY <1>1, PoppedFacts
<1>3. \A d \in Ends : \A i \in DOMAIN Popped(e)[d] :
          \E j \in DOMAIN queue[d] : Popped(e)[d][i] = queue[d][j]
  BY <1>2
<1>4. \A c \in Clients : \A i \in DOMAIN inbox[c] : Author[inbox[c][i]] = c
  BY DEF Carried
<1>5. \A k \in Conns : authenticated[In(k)] => link[k] \in Trusted
  BY DEF Carried
<1>6. CASE ReadLogin(e)
  <2>1. /\ authenticated' = [authenticated EXCEPT ![e] = @ \/ link[e[1]] \in Trusted]
        /\ queue' = Popped(e)
        /\ UNCHANGED <<link, inbox, received, dispatched>>
    BY <1>6 DEF ReadLogin, history
  <2>2. \A d \in Ends : authenticated[d] => authenticated'[d]
    BY <2>1 DEF TypeOK
  <2>3. ASSUME NEW k \in Conns, authenticated'[In(k)]
        PROVE  link'[k] \in Trusted
    <3>1. In(k) \in Ends /\ In(k)[1] = k
      BY SideFacts
    <3>2. CASE In(k) = e
      BY <1>5, <2>1, <2>3, <3>1, <3>2 DEF TypeOK
    <3>3. CASE In(k) # e
      BY <1>5, <2>1, <2>3, <3>1, <3>3 DEF TypeOK
    <3> QED BY <3>2, <3>3
  <2> QED BY <1>3, <1>4, <2>1, <2>2, <2>3, CarriedQuiet
<1>7. CASE DropForward(e)
  <2>1. /\ queue' = Popped(e)
        /\ UNCHANGED <<link, authenticated, inbox, received, dispatched>>
    BY <1>7 DEF DropForward, conns, history
  <2> QED BY <1>3, <1>4, <1>5, <2>1, CarriedQuiet
<1>8. CASE ReadForward(e)
  <2>1. /\ Dispatch(ServerOf(e), e, Head(queue[e]), client, Popped(e))
        /\ UNCHANGED <<link, state, authenticated, client, inbox, unsent, astray>>
        /\ Head(queue[e]) # Login
    BY <1>8 DEF ReadForward, conns
  <2>2. Head(queue[e]) \in Messages
    BY <1>2, <2>1 DEF Packets
  <2>3. ServerOf(e) \in Servers
    BY <1>2, ServerFacts
  <2>4. client \in ChatType
    BY DEF TypeOK, ChatType
  <2>5. \A d \in Ends : state[d] \in {"free", "closed"} => Popped(e)[d] = <<>>
    BY <1>1, PoppedFacts
  <2>6. /\ Queued(ServerOf(e), e, Head(queue[e]), Popped(e))
        /\ Delivered(ServerOf(e), Head(queue[e]))
        /\ dispatched' = [dispatched EXCEPT ![ServerOf(e)] = @ \cup {Head(queue[e])}]
    BY <1>2, <2>1, <2>2, <2>3, <2>4, <2>5, DispatchFacts
  <2>7. \A c \in Clients : \A i \in DOMAIN inbox'[c] : Author[inbox'[c][i]] = c
    BY <1>4, <2>1
  <2> QED BY <1>2, <1>3, <2>1, <2>2, <2>3, <2>6, <2>7, CarriedDispatch
<1> QED BY <1>6, <1>7, <1>8 DEF Read
LEMMA CarriedReadMessage ==
    ASSUME TypeOK, Carried, NEW c \in Clients, ReadMessage(c)
    PROVE  Carried'
<1>1. /\ Queued(Home[c], NoEnd, Head(inbox[c]), queue)
      /\ Delivered(Home[c], Head(inbox[c]))
      /\ dispatched' = [dispatched EXCEPT ![Home[c]] = @ \cup {Head(inbox[c])}]
      /\ inbox' = [inbox EXCEPT ![c] = Tail(@)]
      /\ Home[c] \in Servers /\ inbox[c] # <<>>
      /\ UNCHANGED <<link, state, authenticated>>
  BY ReadMessageFacts
<1>2. Head(inbox[c]) \in Messages
  BY <1>1, InboxFacts
<1>3. \A d \in Clients : \A i \in DOMAIN inbox'[d] : Author[inbox'[d][i]] = d
  BY <1>1, InboxFacts DEF TypeOK, Carried
<1>4. queue \in [Ends -> Seq(Packets)]
  BY DEF TypeOK
<1>5. \A e \in Ends : \A i \in DOMAIN queue[e] :
          \E j \in DOMAIN queue[e] : queue[e][i] = queue[e][j]
  OBVIOUS
<1> QED BY <1>1, <1>2, <1>3, <1>4, <1>5, CarriedDispatch

LEMMA CarriedClient ==
    ASSUME TypeOK, TypeOK', Carried, NEW c \in Clients,
           \/ Connect(c) \/ ReadMalformed(c) \/ BreakClient(c) \/ RemoveClient(c)
           \/ \E m \in Messages : Submit(c, m)
    PROVE  Carried'
<1>1. UNCHANGED <<link, state, authenticated, queue, received, dispatched>>
  BY DEF Connect, ReadMalformed, BreakClient, RemoveClient, Submit, conns, history
<1>2. \A d \in Clients : \A i \in DOMAIN inbox'[d] : Author[inbox'[d][i]] = d
  <2>1. CASE Connect(c) \/ RemoveClient(c)
    BY <2>1 DEF Connect, RemoveClient, Carried
  <2>2. CASE BreakClient(c)
    BY <2>2 DEF BreakClient, Carried, TypeOK
  <2>3. CASE ReadMalformed(c)
    BY <2>3, MalformedFacts DEF Carried
  <2>4. ASSUME NEW m \in Messages, Submit(c, m)
        PROVE  \A d \in Clients : \A i \in DOMAIN inbox'[d] : Author[inbox'[d][i]] = d
    <3>1. /\ inbox' = [inbox EXCEPT ![c] = Append(@, m)] /\ Author[m] = c
          /\ inbox[c] \in Seq(Messages)
      BY <2>4 DEF Submit, TypeOK
    <3>2. \A i \in DOMAIN Append(inbox[c], m) :
              \/ i \in DOMAIN inbox[c] /\ Append(inbox[c], m)[i] = inbox[c][i]
              \/ i = Len(inbox[c]) + 1 /\ Append(inbox[c], m)[i] = m
      BY <3>1, AppendAt
    <3> QED BY <3>1, <3>2 DEF TypeOK, Carried
  <2> QED BY <2>1, <2>2, <2>3, <2>4
<1>3. \A k \in Conns : authenticated[In(k)] => link[k] \in Trusted
  BY DEF Carried
<1>4. \A e \in Ends : \A i \in DOMAIN queue'[e] :
          queue'[e][i] # Login => \E j \in DOMAIN queue[e] : queue'[e][i] = queue[e][j]
  BY <1>1
<1> QED BY <1>1, <1>2, <1>3, <1>4, CarriedQuiet

LEMMA CarriedStep == TypeOK /\ TypeOK' /\ Carried /\ [Next]_vars => Carried'
<1> SUFFICES ASSUME TypeOK, TypeOK', Carried, [Next]_vars PROVE Carried'
  OBVIOUS
<1>1. /\ \A c \in Clients : \A i \in DOMAIN inbox[c] : Author[inbox[c][i]] = c
      /\ \A k \in Conns : authenticated[In(k)] => link[k] \in Trusted
  BY DEF Carried
<1>2. ASSUME NEW k \in Conns, Accept(k) PROVE Carried'
  <2>1. UNCHANGED <<link, authenticated, queue, inbox, received, dispatched>>
    BY <1>2 DEF Accept, history
  <2> QED BY <1>1, <2>1, CarriedQuiet
<1>3. ASSUME NEW e \in Ends, Break(e) PROVE Carried'
  <2>1. /\ UNCHANGED <<link, authenticated, inbox, received, dispatched>>
        /\ \A d \in Ends : \A i \in DOMAIN queue'[d] :
              i \in DOMAIN queue[d] /\ queue'[d][i] = queue[d][i]
    BY <1>3, BreakFacts
  <2> QED BY <1>1, <2>1, CarriedQuiet
<1>4. CASE UNCHANGED vars
  BY <1>1, <1>4, CarriedQuiet DEF vars
<1>5. CASE Next
  BY <1>2, <1>3, <1>5, CarriedStartLink, CarriedRead, CarriedReadMessage,
     CarriedClient DEF Next, ReadClient
<1> QED BY <1>4, <1>5

----------------------------------------------------------------------------
(* Passwords.                                                               *)

(* A message is dispatched by servers joined to its author's only.          *)
DispatchedJoined ==
    \A s \in Servers : \A m \in dispatched[s] : Joined(Home[Author[m]], s)

LEMMA JoinedSelf == \A s \in Servers : Joined(s, s)
BY DEF Joined

LEMMA JoinedNext ==
    ASSUME NEW o \in Servers, NEW s \in Servers, NEW l \in Trusted, Joined(o, s)
    PROVE  /\ s = l[1] => Joined(o, l[2])
           /\ s = l[2] => Joined(o, l[1])
BY DEF Joined

LEMMA DispatchedStep ==
    TypeOK /\ TypeOK' /\ Carried /\ DispatchedJoined /\ [Next]_vars => DispatchedJoined'
<1> SUFFICES ASSUME TypeOK, TypeOK', Carried, DispatchedJoined, [Next]_vars
             PROVE  DispatchedJoined'
  OBVIOUS
<1>1. ASSUME dispatched' = dispatched PROVE DispatchedJoined'
  BY <1>1 DEF DispatchedJoined
<1>2. ASSUME NEW e \in Ends, ReadForward(e) PROVE DispatchedJoined'
  <2> DEFINE m == Head(queue[e])
  <2>1. Reading(e) /\ m # Login /\ authenticated[e]
        /\ Dispatch(ServerOf(e), e, m, client, Popped(e))
    BY <1>2 DEF ReadForward
  <2>2. 1 \in DOMAIN queue[e] /\ m = queue[e][1] /\ m \in Packets /\ state[e] = "open"
    BY <2>1, PoppedFacts
  <2>3. authenticated[Peer(e)] /\ m \in dispatched[ServerOf(Peer(e))]
    BY <2>1, <2>2 DEF Carried, QueuedFrom
  <2> HIDE DEF m
  <2>4. /\ ServerOf(e) \in Servers /\ ServerOf(Peer(e)) \in Servers /\ e[1] \in Conns
        /\ \/ /\ e = Out(e[1]) /\ Peer(e) = In(e[1])
              /\ ServerOf(e) = link[e[1]][1]
              /\ ServerOf(Peer(e)) = link[e[1]][2]
           \/ /\ e = In(e[1]) /\ Peer(e) = Out(e[1])
              /\ ServerOf(e) = link[e[1]][2]
              /\ ServerOf(Peer(e)) = link[e[1]][1]
    BY <2>2, ServerFacts, EndFacts
  <2>5. link[e[1]] \in Trusted
    BY <2>1, <2>3, <2>4 DEF Carried
  <2>6. m \in Messages /\ Home[Author[m]] \in Servers
    BY <2>1, <2>2, NetworkAssumption, MessageAssumption DEF Packets
  <2>7. Joined(Home[Author[m]], ServerOf(Peer(e)))
    BY <2>3, <2>4 DEF DispatchedJoined
  <2>8. Joined(Home[Author[m]], ServerOf(e))
    BY <2>4, <2>5, <2>6, <2>7, JoinedNext
  <2>9. dispatched' = [dispatched EXCEPT ![ServerOf(e)] = @ \cup {m}]
    BY <2>1 DEF Dispatch
  <2> QED BY <2>4, <2>8, <2>9 DEF TypeOK, DispatchedJoined
<1>3. ASSUME NEW c \in Clients, ReadMessage(c) PROVE DispatchedJoined'
  <2>1. /\ dispatched' = [dispatched EXCEPT ![Home[c]] = @ \cup {Head(inbox[c])}]
        /\ inbox[c] # <<>> /\ Home[c] \in Servers
    BY <1>3, ReadMessageFacts
  <2>2. Author[Head(inbox[c])] = c
    BY <2>1, InboxFacts DEF Carried
  <2>3. Joined(Home[Author[Head(inbox[c])]], Home[c])
    BY <2>1, <2>2, JoinedSelf
  <2> QED BY <2>1, <2>3 DEF TypeOK, DispatchedJoined
<1>4. \/ dispatched' = dispatched
      \/ \E e \in Ends : ReadForward(e)
      \/ \E c \in Clients : ReadMessage(c)
  BY DEF Next, vars, history, StartLink, Accept, Break, Read, ReadLogin, DropForward,
         Connect, Submit, ReadClient, ReadMalformed, BreakClient, RemoveClient
<1> QED BY <1>1, <1>2, <1>3, <1>4

(* The invariant behind the two theorems below.                             *)
Origins == TypeOK /\ Carried /\ DispatchedJoined

LEMMA OriginsInvariant == Spec => []Origins
<1>1. Init => Origins
  BY TypeInit, CarriedInit DEF Origins, Init, DispatchedJoined
<1>2. Origins /\ [Next]_vars => Origins'
  BY TypeStep, CarriedStep, DispatchedStep DEF Origins
<1> QED BY <1>1, <1>2, PTL DEF Spec

(* Whatever the topology and whatever fails, no message gets past a link    *)
(* with a wrong password: ichat_s2s_client_process_message drops FORWARD    *)
(* before LOGIN, and ichat_dispatch does not send to an end that is not     *)
(* authenticated.                                                           *)
THEOREM PasswordsSeparate == Spec => []PasswordSeparates
<1>1. Origins => PasswordSeparates
  <2> SUFFICES ASSUME Origins, NEW c \in Clients, NEW i \in DOMAIN received[c]
               PROVE  Joined(Home[Author[received[c][i]]], Home[c])
    BY DEF PasswordSeparates
  <2>1. received[c][i] \in dispatched[Home[c]] /\ Home[c] \in Servers
    BY NetworkAssumption DEF Origins, Carried
  <2> QED BY <2>1 DEF Origins, DispatchedJoined
<1> QED BY <1>1, OriginsInvariant, PTL
----------------------------------------------------------------------------
(* On a tree of servers.                                                    *)

IsToward(f, o) ==
    /\ f[o] = o
    /\ \A l \in Links : \/ f[l[2]] = l[1] /\ f[l[1]] # l[2]
                        \/ f[l[1]] = l[2] /\ f[l[2]] # l[1]

(* The neighbour of each server on the way to the author of m.              *)
Origin(m) == Home[Author[m]]
Way(m) == CHOOSE f \in [Servers -> Servers] : IsToward(f, Origin(m))

Fresh == Messages \ astray

(* A message under way goes away from its author, to a server that has not  *)
(* dispatched it.                                                           *)
OneWay ==
    \A m \in Fresh : \A e \in Ends : \A i \in DOMAIN queue[e] :
        queue[e][i] = m => /\ Way(m)[ServerOf(e)] = ServerOf(Peer(e))
                           /\ m \notin dispatched[ServerOf(e)]

(* Only one copy of a message is under way to a server.                     *)
OneCopy ==
    \A m \in Fresh : \A e, f \in Ends :
        \A i \in DOMAIN queue[e], j \in DOMAIN queue[f] :
            queue[e][i] = m /\ queue[f][j] = m /\ ServerOf(e) = ServerOf(f)
            => e = f /\ i = j

(* A server that has dispatched a message has it from the one before.       *)
Behind ==
    \A m \in Fresh : \A s \in Servers :
        m \in dispatched[s] /\ s # Origin(m) => m \in dispatched[Way(m)[s]]

(* A message its author's server has not read has not been dispatched there, *)
(* and is not written twice.                                                *)
Unread ==
    \A m \in Fresh :
        /\ m \in unsent => /\ m \notin dispatched[Origin(m)]
                           /\ \A c \in Clients : \A i \in DOMAIN inbox[c] : inbox[c][i] # m
        /\ \A c \in Clients : \A i, j \in DOMAIN inbox[c] :
              /\ inbox[c][i] = m => m \notin dispatched[Origin(m)]
              /\ inbox[c][i] = m /\ inbox[c][j] = m => i = j

(* A link has one client at the side that connects.                         *)
OneOut ==
    \A j, k \in Conns :
        link[j] = link[k] /\ state[Out(j)] = "open" /\ state[Out(k)] = "open" => j = k

(* What is still under way after that client is gone is astray.             *)
LeftBehind ==
    \A k \in Conns : state[Out(k)] = "closed" =>
        \A i \in DOMAIN queue[In(k)] : queue[In(k)][i] \in astray \cup {Login}

ReceivedOnce ==
    \A c \in Clients : \A i, j \in DOMAIN received[c] :
        i # j /\ received[c][i] = received[c][j] => received[c][i] \in astray

LEMMA WayFacts ==
    ASSUME IsTree, NEW m \in Messages
    PROVE  /\ Origin(m) \in Servers
           /\ Way(m) \in [Servers -> Servers]
           /\ Way(m)[Origin(m)] = Origin(m)
           /\ \A l \in Links : \/ Way(m)[l[2]] = l[1] /\ Way(m)[l[1]] # l[2]
                               \/ Way(m)[l[1]] = l[2] /\ Way(m)[l[2]] # l[1]
<1>1. Origin(m) \in Servers
  BY NetworkAssumption, MessageAssumption DEF Origin
<1>2. \E f \in [Servers -> Servers] : IsToward(f, Origin(m))
  BY <1>1 DEF IsTree, IsToward
<1>3. Way(m) \in [Servers -> Servers] /\ IsToward(Way(m), Origin(m))
  BY <1>2 DEF Way
<1> QED BY <1>1, <1>3 DEF IsToward

(* The two sides of a link are different servers, and the two servers have  *)
(* no other link.                                                           *)
LEMMA LinkFacts ==
    ASSUME IsTree, NEW l \in Links
    PROVE  /\ l[1] # l[2]
           /\ \A k \in Links : {k[1], k[2]} = {l[1], l[2]} => k = l
<1>1. \A k \in Links : k = <<k[1], k[2]>>
  BY NetworkAssumption
<1>2. \A k \in Links : <<k[2], k[1]>> \notin Links
  BY DEF IsTree
<1>3. l[1] # l[2]
  BY <1>1, <1>2
<1>4. ASSUME NEW k \in Links, {k[1], k[2]} = {l[1], l[2]} PROVE k = l
  <2>1. \/ k[1] = l[1] /\ k[2] = l[2]
        \/ k[1] = l[2] /\ k[2] = l[1]
    BY <1>4
  <2> QED BY <2>1, <1>1, <1>2
<1> QED BY <1>3, <1>4

(* Where a dispatched message goes: a message that has come the way from    *)
(* its author (or is at the author's server) is not sent back.              *)
CameFrom(s, origin, m) ==
    \/ s = Origin(m)
    \/ /\ origin \in Ends /\ state[origin] = "open"
       /\ ServerOf(origin) = s
       /\ Way(m)[s] = ServerOf(Peer(origin))
       /\ state[Out(origin[1])] = "open"
       /\ m \in dispatched[ServerOf(Peer(origin))]

(* s has sent m to the end d, on the way from the author's server.          *)
SentOn(s, m, d) ==
    /\ ServerOf(d) \in Servers /\ ServerOf(d) # s
    /\ ServerOf(Peer(d)) = s
    /\ Way(m)[ServerOf(d)] = s
    /\ state[Out(d[1])] = "open"
    /\ d[1] \in Conns /\ link[d[1]] \in Links
    /\ {link[d[1]][1], link[d[1]][2]} = {s, ServerOf(d)}

LEMMA Spreads ==
    ASSUME IsTree, TypeOK, OneOut, NEW s \in Servers, NEW origin,
           NEW m \in Messages, CameFrom(s, origin, m),
           NEW d \in Ends, Peer(d) \in OtherServers(s, origin), state[d] # "closed"
    PROVE  SentOn(s, m, d)
<1> DEFINE l == link[d[1]]
           y == ServerOf(d)
<1>1. /\ state[Peer(d)] = "open" /\ ServerOf(Peer(d)) = s /\ Peer(d) # origin
      /\ Peer(d) \in Ends /\ Peer(Peer(d)) = d /\ Peer(d)[1] = d[1] /\ d[1] \in Conns
  BY EndFacts DEF OtherServers
<1>2. state[d] # "free"
  BY <1>1, ServerFacts
<1>3. /\ l \in Links /\ y \in Servers
      /\ \/ d = Out(d[1]) /\ Peer(d) = In(d[1]) /\ y = l[1] /\ s = l[2]
         \/ d = In(d[1]) /\ Peer(d) = Out(d[1]) /\ y = l[2] /\ s = l[1]
  BY <1>1, <1>2, ServerFacts
<1>4. l[1] # l[2] /\ y # s
  BY <1>3, LinkFacts
<1>5. state[Out(d[1])] = "open"
  BY <1>1, <1>2, <1>3 DEF TypeOK
<1>6. {l[1], l[2]} = {s, y}
  BY <1>3
<1>7. Way(m)[y] = s \/ Way(m)[s] = y
  BY <1>3, WayFacts
<1>8. Way(m)[s] # y
  <2> SUFFICES ASSUME Way(m)[s] = y PROVE FALSE
    OBVIOUS
  <2>1. s # Origin(m)
    BY <1>4, WayFacts
  <2>2. /\ origin \in Ends /\ state[origin] = "open" /\ ServerOf(origin) = s
        /\ y = ServerOf(Peer(origin))
        /\ state[Out(origin[1])] = "open" /\ origin[1] \in Conns
    BY <2>1, EndFacts DEF CameFrom
  <2>3. /\ link[origin[1]] \in Links
        /\ \/ /\ origin = Out(origin[1]) /\ s = link[origin[1]][1]
              /\ y = link[origin[1]][2]
           \/ /\ origin = In(origin[1]) /\ s = link[origin[1]][2]
              /\ y = link[origin[1]][1]
    BY <2>2, ServerFacts
  <2>4. link[origin[1]] = l
    BY <1>3, <1>6, <2>3, LinkFacts
  <2>5. origin[1] = d[1]
    BY <1>1, <1>5, <2>2, <2>4 DEF OneOut
  <2>6. origin = Peer(d)
    BY <1>3, <1>4, <2>3, <2>4, <2>5
  <2> QED BY <1>1, <2>6
<1> QED BY <1>1, <1>3, <1>4, <1>5, <1>6, <1>7, <1>8 DEF SentOn
(* The messages of q are those of the queues, sh[d] places on.              *)
Kept(q, sh) ==
    \A d \in Ends : \A i \in DOMAIN q[d] :
        q[d][i] # Login => /\ i + sh[d] \in DOMAIN queue[d]
                           /\ q[d][i] = queue[d][i + sh[d]]

LEMMA TreeQuiet ==
    ASSUME TypeOK, TypeOK', OneWay, OneCopy, Behind, ReceivedOnce,
           NEW sh \in [Ends -> Nat], Kept(queue', sh),
           \A e \in Ends : state[e] # "free" => link'[e[1]] = link[e[1]],
           received' = received, dispatched' = dispatched, astray \subseteq astray'
    PROVE  OneWay' /\ OneCopy' /\ Behind' /\ ReceivedOnce'
<1>1. Fresh' \subseteq Fresh /\ \A m \in Fresh' : m # Login
  BY MessageAssumption DEF Fresh
<1>2. \A e \in Ends : \A i \in DOMAIN queue'[e] : i \in Nat
  BY DEF TypeOK
<1>3. ASSUME NEW m \in Fresh', NEW e \in Ends, NEW i \in DOMAIN queue'[e],
             queue'[e][i] = m
      PROVE  /\ i + sh[e] \in DOMAIN queue[e] /\ queue[e][i + sh[e]] = m
             /\ ServerOf(e)' = ServerOf(e)
             /\ ServerOf(Peer(e))' = ServerOf(Peer(e))
  <2>1. i + sh[e] \in DOMAIN queue[e] /\ queue[e][i + sh[e]] = m
    BY <1>1, <1>3 DEF Kept
  <2>2. state[e] # "free"
    BY <2>1 DEF TypeOK
  <2>3. link'[e[1]] = link[e[1]] /\ Peer(e)[1] = e[1]
    BY <2>2, EndFacts
  <2> QED BY <2>1, <2>3 DEF ServerOf
<1>4. ASSUME NEW m \in Fresh', NEW e \in Ends, NEW i \in DOMAIN queue'[e],
             queue'[e][i] = m
      PROVE  /\ Way(m)[ServerOf(e)'] = ServerOf(Peer(e))'
             /\ m \notin dispatched'[ServerOf(e)']
  BY <1>1, <1>3, <1>4 DEF OneWay
<1>5. ASSUME NEW m \in Fresh', NEW e \in Ends, NEW f \in Ends,
             NEW i \in DOMAIN queue'[e], NEW j \in DOMAIN queue'[f],
             queue'[e][i] = m, queue'[f][j] = m, ServerOf(e)' = ServerOf(f)'
      PROVE  e = f /\ i = j
  <2>1. /\ i + sh[e] \in DOMAIN queue[e] /\ queue[e][i + sh[e]] = m
        /\ j + sh[f] \in DOMAIN queue[f] /\ queue[f][j + sh[f]] = m
        /\ ServerOf(e) = ServerOf(f)
    BY <1>3, <1>5
  <2>2. e = f /\ i + sh[e] = j + sh[f]
    BY <1>1, <2>1 DEF OneCopy
  <2> QED BY <1>2, <2>2
<1>6. Behind'
  BY <1>1 DEF Behind
<1>7. ReceivedOnce'
  BY DEF ReceivedOnce
<1>8. OneWay'
  BY <1>4 DEF OneWay
<1>9. OneCopy'
  BY <1>5 DEF OneCopy
<1> QED BY <1>6, <1>7, <1>8, <1>9

LEMMA TreeDispatch ==
    ASSUME IsTree, TypeOK, TypeOK', Carried, OneWay, OneCopy, Behind, OneOut, ReceivedOnce,
           NEW s \in Servers, NEW origin, NEW m \in Messages,
           NEW rest \in [Ends -> Seq(Packets)],
           NEW sh \in [Ends -> Nat], Kept(rest, sh),
           Queued(s, origin, m, rest), Delivered(s, m),
           dispatched' = [dispatched EXCEPT ![s] = @ \cup {m}],
           UNCHANGED <<link, state, authenticated, astray>>,
           m \in Fresh =>
               /\ m \notin dispatched[s]
               /\ CameFrom(s, origin, m)
               /\ \A d \in Ends : \A i \in DOMAIN rest[d] :
                     rest[d][i] = m => ServerOf(d) # s
    PROVE  OneWay' /\ OneCopy' /\ Behind' /\ ReceivedOnce'
<1>1. /\ Fresh' = Fresh /\ \A n \in Fresh : n # Login /\ n \in Messages
      /\ \A e \in Ends : ServerOf(e)' = ServerOf(e) /\ ServerOf(Peer(e))' = ServerOf(Peer(e))
  BY MessageAssumption DEF Fresh, ServerOf
<1>2. /\ \A t \in Servers : dispatched[t] \subseteq dispatched'[t]
      /\ \A t \in Servers \ {s} : dispatched'[t] = dispatched[t]
      /\ \A n \in Messages \ {m} : \A t \in Servers :
            n \in dispatched'[t] => n \in dispatched[t]
      /\ m \in dispatched'[s]
  BY DEF TypeOK
<1> DEFINE Old(e, i) == i \in DOMAIN rest[e] /\ queue'[e][i] = rest[e][i]
           New(e, i) == /\ Peer(e) \in OtherServers(s, origin) /\ state[e] # "closed"
                        /\ i = Len(rest[e]) + 1 /\ queue'[e][i] = m
<1>3. \A e \in Ends : \A i \in DOMAIN queue'[e] : Old(e, i) \/ New(e, i)
  BY DEF Queued
<1>4. ASSUME NEW n \in Fresh, NEW e \in Ends, NEW i \in DOMAIN queue'[e],
             queue'[e][i] = n, Old(e, i)
      PROVE  /\ i + sh[e] \in DOMAIN queue[e] /\ queue[e][i + sh[e]] = n
             /\ i \in DOMAIN rest[e] /\ rest[e][i] = n
             /\ Way(n)[ServerOf(e)] = ServerOf(Peer(e))
             /\ n \notin dispatched[ServerOf(e)]
             /\ n \in dispatched[ServerOf(Peer(e))]
             /\ ServerOf(e) \in Servers
  <2>1. /\ i + sh[e] \in DOMAIN queue[e] /\ queue[e][i + sh[e]] = n
        /\ i \in DOMAIN rest[e] /\ rest[e][i] = n
    BY <1>1, <1>4 DEF Kept
  <2>2. /\ Way(n)[ServerOf(e)] = ServerOf(Peer(e))
        /\ n \notin dispatched[ServerOf(e)]
    BY <2>1 DEF OneWay
  <2>3. n \in dispatched[ServerOf(Peer(e))]
    BY <1>1, <2>1 DEF Carried, QueuedFrom
  <2>4. state[e] # "free"
    BY <2>1 DEF TypeOK
  <2>5. ServerOf(e) \in Servers
    BY <2>4, ServerFacts
  <2> QED BY <2>1, <2>2, <2>3, <2>5
<1>5. ASSUME m \in Fresh, NEW e \in Ends, NEW i \in DOMAIN queue'[e], New(e, i)
      PROVE  SentOn(s, m, e)
  <2>1. Peer(e) \in OtherServers(s, origin) /\ state[e] # "closed"
    BY <1>5
  <2>2. CameFrom(s, origin, m)
    BY <1>5
  <2> QED BY <2>1, <2>2, Spreads
<1>6. ASSUME m \in Fresh, NEW t \in Servers, t # s, Way(m)[t] = s
      PROVE  m \notin dispatched[t]
  <2>1. t # Origin(m)
    BY <1>1, <1>6, WayFacts
  <2> QED BY <1>6, <2>1 DEF Behind
<1> HIDE DEF Old, New
<1>7. ASSUME NEW n \in Fresh, NEW e \in Ends, NEW i \in DOMAIN queue'[e],
             queue'[e][i] = n
      PROVE  /\ Way(n)[ServerOf(e)] = ServerOf(Peer(e))
             /\ n \notin dispatched'[ServerOf(e)]
  <2>1. CASE Old(e, i)
    <3>1. /\ rest[e][i] = n /\ i \in DOMAIN rest[e]
          /\ Way(n)[ServerOf(e)] = ServerOf(Peer(e))
          /\ n \notin dispatched[ServerOf(e)] /\ ServerOf(e) \in Servers
      BY <1>4, <1>7, <2>1
    <3>2. n = m => ServerOf(e) # s
      BY <3>1
    <3> QED BY <1>1, <1>2, <3>1, <3>2
  <2>2. CASE New(e, i)
    <3>1. n = m
      BY <1>7, <2>2 DEF New
    <3>2. /\ ServerOf(e) \in Servers /\ ServerOf(e) # s
          /\ ServerOf(Peer(e)) = s /\ Way(m)[ServerOf(e)] = s
      BY <1>5, <2>2, <3>1 DEF SentOn
    <3> QED BY <1>2, <1>6, <3>1, <3>2
  <2> QED BY <1>3, <2>1, <2>2
<1>8. OneWay'
  BY <1>1, <1>7 DEF OneWay
(* A copy that was under way before does not go where a new one goes: its    *)
(* sender would be s, which had not dispatched the message.                 *)
<1>9. ASSUME m \in Fresh, NEW e \in Ends, NEW i \in DOMAIN queue'[e],
             queue'[e][i] = m, Old(e, i), NEW f \in Ends,
             NEW j \in DOMAIN queue'[f], New(f, j), ServerOf(e) = ServerOf(f)
      PROVE  FALSE
  <2>1. Way(m)[ServerOf(e)] = ServerOf(Peer(e)) /\ m \in dispatched[ServerOf(Peer(e))]
    BY <1>4, <1>9
  <2>2. Way(m)[ServerOf(f)] = s
    BY <1>5, <1>9 DEF SentOn
  <2>3. ServerOf(Peer(e)) = s
    BY <1>9, <2>1, <2>2
  <2>4. m \notin dispatched[s]
    BY <1>9
  <2> QED BY <2>1, <2>3, <2>4
<1>10. ASSUME m \in Fresh, NEW e \in Ends, NEW i \in DOMAIN queue'[e], New(e, i),
              NEW f \in Ends, NEW j \in DOMAIN queue'[f], New(f, j),
              ServerOf(e) = ServerOf(f)
       PROVE  e = f /\ i = j
  <2>1. /\ ServerOf(e) # s /\ ServerOf(f) # s
        /\ ServerOf(Peer(e)) = s /\ ServerOf(Peer(f)) = s
        /\ state[Out(e[1])] = "open" /\ state[Out(f[1])] = "open"
        /\ link[e[1]] \in Links /\ link[f[1]] \in Links
        /\ {link[e[1]][1], link[e[1]][2]} = {s, ServerOf(e)}
        /\ {link[f[1]][1], link[f[1]][2]} = {s, ServerOf(f)}
    BY <1>5, <1>10 DEF SentOn
  <2>2. {link[f[1]][1], link[f[1]][2]} = {link[e[1]][1], link[e[1]][2]}
    BY <1>10, <2>1
  <2>3. link[e[1]] = link[f[1]]
    BY <2>1, <2>2, LinkFacts
  <2>4. e[1] = f[1]
    BY <2>1, <2>3, EndFacts DEF OneOut
  <2>5. e = f \/ e = Peer(f)
    BY <2>4, EndFacts
  <2>6. e = f
    BY <1>10, <2>1, <2>5
  <2> QED BY <1>10, <2>6 DEF New
<1>11. ASSUME NEW n \in Fresh, NEW e \in Ends, NEW f \in Ends,
              NEW i \in DOMAIN queue'[e], NEW j \in DOMAIN queue'[f],
              queue'[e][i] = n, queue'[f][j] = n, ServerOf(e) = ServerOf(f)
       PROVE  e = f /\ i = j
  <2>1. CASE Old(e, i) /\ Old(f, j)
    <3>1. /\ i + sh[e] \in DOMAIN queue[e] /\ queue[e][i + sh[e]] = n
          /\ j + sh[f] \in DOMAIN queue[f] /\ queue[f][j + sh[f]] = n
      BY <1>4, <1>11, <2>1
    <3>2. e = f /\ i + sh[e] = j + sh[f]
      BY <1>11, <3>1 DEF OneCopy
    <3>3. i \in Nat /\ j \in Nat
      BY DEF TypeOK
    <3> QED BY <3>2, <3>3
  <2>2. CASE New(e, i) \/ New(f, j)
    <3>1. n = m
      BY <1>11, <2>2 DEF New
    <3> QED BY <1>3, <1>9, <1>10, <1>11, <2>2, <3>1
  <2> QED BY <1>3, <2>1, <2>2
<1>12. OneCopy'
  BY <1>1, <1>11 DEF OneCopy
<1>13. ASSUME NEW n \in Fresh, NEW t \in Servers, n \in dispatched'[t], t # Origin(n)
       PROVE  n \in dispatched'[Way(n)[t]]
  <2>1. Way(n)[t] \in Servers
    BY <1>1, WayFacts
  <2>2. CASE n \in dispatched[t]
    BY <1>2, <1>13, <2>1, <2>2 DEF Behind
  <2>3. CASE n \notin dispatched[t]
    <3>1. n = m /\ t = s
      BY <1>1, <1>2, <1>13, <2>3
    <3>2. m \in dispatched[Way(m)[s]]
      BY <1>13, <3>1 DEF CameFrom
    <3> QED BY <1>2, <2>1, <3>1, <3>2
  <2> QED BY <2>2, <2>3
<1>14. Behind'
  BY <1>1, <1>13 DEF Behind
<1>15. ASSUME NEW c \in Clients, NEW i \in DOMAIN received'[c], NEW j \in DOMAIN received'[c],
              i # j, received'[c][i] = received'[c][j], received'[c][i] \notin astray
       PROVE  FALSE
  <2>1. received'[c][i] \in Messages
    BY DEF TypeOK
  <2>2. CASE i \in DOMAIN received[c] /\ received'[c][i] = received[c][i]
             /\ j \in DOMAIN received[c] /\ received'[c][j] = received[c][j]
    BY <1>15, <2>2 DEF ReceivedOnce
  <2>3. ASSUME NEW a \in DOMAIN received[c], received[c][a] = m, Home[c] = s, m \in Fresh
        PROVE  FALSE
    BY <2>3 DEF Carried
  <2>4. m = received'[c][i] => m \in Fresh
    BY <1>15, <2>1 DEF Fresh
  <2> QED BY <1>15, <2>2, <2>3, <2>4 DEF Delivered
<1>16. ReceivedOnce'
  BY <1>15 DEF ReceivedOnce
<1> QED BY <1>8, <1>12, <1>14, <1>16
LEMMA OneOutStep ==
    ASSUME TypeOK, OneOut, [Next]_vars
    PROVE  OneOut'
<1>1. ASSUME link' = link, \A k \in Conns : state'[Out(k)] = "open" => state[Out(k)] = "open"
      PROVE  OneOut'
  BY <1>1 DEF OneOut
<1>2. ASSUME NEW l \in Links, NEW k \in Conns, StartLink(l, k)
      PROVE  OneOut'
  <2>1. /\ link' = [link EXCEPT ![k] = l]
        /\ state' = [state EXCEPT ![Out(k)] = "open", ![In(k)] = "pending"]
        /\ \A j \in Conns : link[j] = l => state[Out(j)] = "closed"
    BY <1>2 DEF StartLink
  <2>2. \A j \in Conns \ {k} : link'[j] = link[j] /\ state'[Out(j)] = state[Out(j)]
    <3> TAKE j \in Conns \ {k}
    <3>1. Out(j) \in Ends /\ Out(j) # Out(k) /\ Out(j) # In(k)
      BY SideFacts DEF Out, In
    <3> QED BY <2>1, <3>1 DEF TypeOK
  <2>3. link'[k] = l
    BY <2>1 DEF TypeOK
  <2> QED BY <2>1, <2>2, <2>3 DEF OneOut
<1>3. ASSUME NEW k \in Conns, Accept(k) PROVE OneOut'
  <2>1. /\ state' = [state EXCEPT ![In(k)] = "open"] /\ link' = link
        /\ \A j \in Conns : Out(j) \in Ends /\ Out(j) # In(k)
    BY <1>3, SideFacts DEF Accept, Out, In
  <2> QED BY <1>1, <2>1 DEF TypeOK
<1>4. ASSUME NEW e \in Ends, Break(e) PROVE OneOut'
  <2>1. state' = [state EXCEPT ![e] = "closed"] /\ link' = link
    BY <1>4 DEF Break
  <2> QED BY <1>1, <2>1, SideFacts DEF TypeOK
<1>5. \/ link' = link /\ state' = state
      \/ \E l \in Links, k \in Conns : StartLink(l, k)
      \/ \E k \in Conns : Accept(k)
      \/ \E e \in Ends : Break(e)
  BY DEF Next, vars, conns, Read, ReadLogin, ReadForward, DropForward, Connect,
         Submit, ReadClient, ReadMessage, ReadMalformed, BreakClient, RemoveClient
<1> QED BY <1>1, <1>2, <1>3, <1>4, <1>5

LEMMA LeftBehindQuiet ==
    ASSUME TypeOK, LeftBehind, astray \subseteq astray',
           \A k \in Conns : state'[Out(k)] = "closed" => state[Out(k)] = "closed",
           \A k \in Conns : \A i \in DOMAIN queue'[In(k)] :
               \/ state'[Out(k)] # "closed"
               \/ \E j \in DOMAIN queue[In(k)] : queue'[In(k)][i] = queue[In(k)][j]
    PROVE  LeftBehind'
BY DEF LeftBehind

LEMMA LeftBehindStep ==
    ASSUME TypeOK, LeftBehind, [Next]_vars
    PROVE  LeftBehind'
<1>1. ASSUME NEW l \in Links, NEW k \in Conns, StartLink(l, k)
      PROVE  LeftBehind'
  <2>1. /\ state' = [state EXCEPT ![Out(k)] = "open", ![In(k)] = "pending"]
        /\ queue' = [queue EXCEPT ![In(k)] = <<Login>>]
        /\ astray' = astray
    BY <1>1 DEF StartLink
  <2>2. Out(k) \in Ends /\ Out(k) # In(k) /\ state'[Out(k)] = "open"
    BY <2>1, SideFacts DEF TypeOK
  <2>3. \A j \in Conns \ {k} : state'[Out(j)] = state[Out(j)] /\ queue'[In(j)] = queue[In(j)]
    <3> TAKE j \in Conns \ {k}
    <3>1. /\ Out(j) \in Ends /\ Out(j) # Out(k) /\ Out(j) # In(k)
          /\ In(j) \in Ends /\ In(j) # In(k)
      BY SideFacts DEF Out, In
    <3> QED BY <2>1, <3>1 DEF TypeOK
  <2> QED BY <2>1, <2>2, <2>3 DEF LeftBehind
<1>2. ASSUME NEW k \in Conns, Accept(k) PROVE LeftBehind'
  <2>1. /\ state' = [state EXCEPT ![In(k)] = "open"]
        /\ queue' = queue /\ astray' = astray
        /\ \A j \in Conns : Out(j) \in Ends /\ Out(j) # In(k)
    BY <1>2, SideFacts DEF Accept, Out, In
  <2> QED BY <2>1 DEF TypeOK, LeftBehind
<1>3. ASSUME NEW e \in Ends, Break(e) PROVE LeftBehind'
  <2>1. /\ state' = [state EXCEPT ![e] = "closed"]
        /\ \A d \in Ends : \A i \in DOMAIN queue'[d] :
              i \in DOMAIN queue[d] /\ queue'[d][i] = queue[d][i]
        /\ astray \subseteq astray'
        /\ e = Out(e[1]) => \A i \in DOMAIN queue'[Peer(e)] :
              queue'[Peer(e)][i] \in astray' \cup {Login}
    BY <1>3, BreakFacts
  <2>2. ASSUME NEW k \in Conns, state'[Out(k)] = "closed", NEW i \in DOMAIN queue'[In(k)]
        PROVE  queue'[In(k)][i] \in astray' \cup {Login}
    <3>1. /\ Out(k) \in Ends /\ In(k) \in Ends /\ Out(k)[1] = k
          /\ Peer(Out(k)) = In(k)
      BY SideFacts
    <3>2. CASE e = Out(k)
      BY <2>1, <2>2, <3>1, <3>2
    <3>3. CASE e # Out(k)
      <4>1. state[Out(k)] = "closed"
        BY <2>1, <2>2, <3>1, <3>3 DEF TypeOK
      <4> QED BY <2>1, <2>2, <3>1, <4>1 DEF LeftBehind
    <3> QED BY <3>2, <3>3
  <2> QED BY <2>2 DEF LeftBehind
<1>4. ASSUME NEW e \in Ends, Read(e) PROVE LeftBehind'
  <2>1. Reading(e) /\ state' = state /\ astray' = astray
    BY <1>4 DEF Read, ReadLogin, ReadForward, DropForward, conns
  <2>2. /\ Popped(e) \in [Ends -> Seq(Packets)]
        /\ Head(queue[e]) \in Packets /\ state[e] = "open"
        /\ \A d \in Ends \ {e} : Popped(e)[d] = queue[d]
        /\ \A i \in DOMAIN Popped(e)[e] :
              /\ i + 1 \in DOMAIN queue[e]
              /\ Popped(e)[e][i] = queue[e][i + 1]
        /\ \A d \in Ends : state[d] \in {"free", "closed"} => Popped(e)[d] = <<>>
    BY <2>1, PoppedFacts
  <2>3. \A d \in Ends : \A i \in DOMAIN Popped(e)[d] :
            \E j \in DOMAIN queue[d] : Popped(e)[d][i] = queue[d][j]
    BY <2>2
  <2>4. CASE ReadLogin(e) \/ DropForward(e)
    <3>1. queue' = Popped(e)
      BY <2>4 DEF ReadLogin, DropForward
    <3>2. \A k \in Conns : In(k) \in Ends
      BY SideFacts
    <3> QED BY <2>1, <2>3, <3>1, <3>2, LeftBehindQuiet
  <2>5. CASE ReadForward(e)
    <3>1. /\ Dispatch(ServerOf(e), e, Head(queue[e]), client, Popped(e))
          /\ Head(queue[e]) # Login
      BY <2>5 DEF ReadForward
    <3>2. /\ Head(queue[e]) \in Messages /\ ServerOf(e) \in Servers /\ client \in ChatType
      BY <2>2, <3>1, ServerFacts DEF Packets, TypeOK, ChatType
    <3>3. Queued(ServerOf(e), e, Head(queue[e]), Popped(e))
      BY <2>2, <3>1, <3>2, DispatchFacts
    <3>4. ASSUME NEW k \in Conns, NEW i \in DOMAIN queue'[In(k)]
          PROVE  \/ state'[Out(k)] # "closed"
                 \/ \E j \in DOMAIN queue[In(k)] : queue'[In(k)][i] = queue[In(k)][j]
      <4>1. In(k) \in Ends /\ Peer(In(k)) = Out(k)
        BY SideFacts
      <4> QED BY <2>1, <2>3, <3>3, <3>4, <4>1 DEF Queued, OtherServers
    <3> QED BY <2>1, <3>4, LeftBehindQuiet
  <2> QED BY <1>4, <2>4, <2>5 DEF Read
<1>5. ASSUME NEW c \in Clients, ReadMessage(c) PROVE LeftBehind'
  <2>1. /\ Queued(Home[c], NoEnd, Head(inbox[c]), queue)
        /\ UNCHANGED <<state, astray>>
    BY <1>5, ReadMessageFacts
  <2>2. ASSUME NEW k \in Conns, NEW i \in DOMAIN queue'[In(k)]
        PROVE  \/ state'[Out(k)] # "closed"
               \/ \E j \in DOMAIN queue[In(k)] : queue'[In(k)][i] = queue[In(k)][j]
    <3>1. In(k) \in Ends /\ Peer(In(k)) = Out(k)
      BY SideFacts
    <3> QED BY <2>1, <2>2, <3>1 DEF Queued, OtherServers
  <2> QED BY <2>1, <2>2, LeftBehindQuiet
<1>6. ASSUME UNCHANGED <<state, queue, astray>> PROVE LeftBehind'
  BY <1>6 DEF LeftBehind
<1>7. \/ UNCHANGED <<state, queue, astray>>
      \/ \E l \in Links, k \in Conns : StartLink(l, k)
      \/ \E k \in Conns : Accept(k)
      \/ \E e \in Ends : Break(e)
      \/ \E e \in Ends : Read(e)
      \/ \E c \in Clients : ReadMessage(c)
  BY DEF Next, vars, conns, Connect, Submit, ReadClient, ReadMalformed, BreakClient,
         RemoveClient
<1> QED BY <1>1, <1>2, <1>3, <1>4, <1>5, <1>6, <1>7
(* Unread survives a step that dispatches nothing and only takes from what   *)
(* clients have written.                                                    *)
LEMMA UnreadQuiet ==
    ASSUME Unread, astray \subseteq astray', dispatched' = dispatched,
           unsent' = unsent, NEW n \in {0, 1}, NEW c \in Clients,
           \A d \in Clients \ {c} : inbox'[d] = inbox[d],
           \A i \in DOMAIN inbox'[c] :
               /\ i \in Nat /\ i + n \in DOMAIN inbox[c]
               /\ inbox'[c][i] = inbox[c][i + n]
    PROVE  Unread'
<1>1. Fresh' \subseteq Fresh
  BY DEF Fresh
<1>2. ASSUME NEW m \in Fresh', NEW d \in Clients, NEW i \in DOMAIN inbox'[d], NEW j \in DOMAIN inbox'[d],
             inbox'[d][i] = m
      PROVE  /\ m \notin dispatched[Origin(m)] /\ m \notin unsent
             /\ inbox'[d][j] = m => i = j
  <2>1. CASE d = c
    <3>1. /\ i \in Nat /\ j \in Nat
          /\ i + n \in DOMAIN inbox[c] /\ j + n \in DOMAIN inbox[c]
          /\ inbox[c][i + n] = m /\ inbox'[c][j] = inbox[c][j + n]
      BY <1>2, <2>1
    <3>2. /\ m \notin dispatched[Origin(m)] /\ m \notin unsent
          /\ inbox[c][j + n] = m => i + n = j + n
      BY <1>1, <3>1 DEF Unread
    <3> QED BY <2>1, <3>1, <3>2
  <2>2. CASE d # c
    <3>1. inbox'[d] = inbox[d]
      BY <2>2
    <3> QED BY <1>1, <1>2, <3>1 DEF Unread
  <2> QED BY <2>1, <2>2
<1>3. \A m \in Fresh' : m \in unsent' => m \notin dispatched'[Origin(m)]
  BY <1>1 DEF Unread
<1> QED BY <1>2, <1>3 DEF Unread

(* Unread survives the dispatch of a message at a server, if this is not its *)
(* author's, or takes the message out of the inbox.                         *)
LEMMA UnreadStep ==
    ASSUME IsTree, TypeOK, TypeOK', Carried, OneWay, Unread, [Next]_vars
    PROVE  Unread'
<1>0. ASSUME UNCHANGED <<dispatched, unsent, inbox>>, astray \subseteq astray' PROVE Unread'
  BY <1>0 DEF Unread, Fresh
<1>1. ASSUME NEW e \in Ends, Break(e) PROVE Unread'
  BY <1>0, <1>1, BreakFacts
<1>2. ASSUME NEW e \in Ends, ReadForward(e) PROVE Unread'
  <2>1. /\ Reading(e)
        /\ dispatched' = [dispatched EXCEPT ![ServerOf(e)] = @ \cup {Head(queue[e])}]
        /\ UNCHANGED <<inbox, unsent, astray>>
    BY <1>2 DEF ReadForward, Dispatch
  <2>2. 1 \in DOMAIN queue[e] /\ Head(queue[e]) = queue[e][1] /\ state[e] = "open"
    BY <2>1, PoppedFacts
  <2>3. ASSUME NEW m \in Fresh, m \in dispatched'[Origin(m)] PROVE m \in dispatched[Origin(m)]
    <3> SUFFICES ASSUME m = Head(queue[e]), ServerOf(e) = Origin(m) PROVE FALSE
      BY <2>1, <2>3 DEF TypeOK
    <3>1. Way(m)[Origin(m)] = ServerOf(Peer(e))
      BY <2>2 DEF OneWay
    <3>2. ServerOf(Peer(e)) = ServerOf(e)
      BY <3>1, WayFacts DEF Fresh
    <3> QED BY <2>2, <3>2, ServerFacts, LinkFacts
  <2> QED BY <2>1, <2>3 DEF Unread, Fresh
<1>3. ASSUME NEW c \in Clients, ReadMessage(c) PROVE Unread'
  <2>1. /\ dispatched' = [dispatched EXCEPT ![Home[c]] = @ \cup {Head(inbox[c])}]
        /\ inbox' = [inbox EXCEPT ![c] = Tail(@)]
        /\ inbox[c] # <<>>
        /\ UNCHANGED <<unsent, astray>>
    BY <1>3, ReadMessageFacts
  <2>2. /\ 1 \in DOMAIN inbox[c] /\ Head(inbox[c]) = inbox[c][1]
        /\ \A i \in DOMAIN Tail(inbox[c]) :
              /\ i \in Nat /\ i + 1 \in DOMAIN inbox[c] /\ i + 1 # 1
              /\ Tail(inbox[c])[i] = inbox[c][i + 1]
    BY <2>1, InboxFacts
  <2>3. /\ inbox'[c] = Tail(inbox[c])
        /\ \A d \in Clients \ {c} : inbox'[d] = inbox[d]
    BY <2>1 DEF TypeOK
  <2>4. \A m \in Fresh : m # Head(inbox[c]) =>
            (m \in dispatched'[Origin(m)] => m \in dispatched[Origin(m)])
    BY <2>1 DEF TypeOK
  <2>5. ASSUME NEW m \in Fresh, NEW d \in Clients, NEW i \in DOMAIN inbox'[d]
        PROVE  inbox'[d][i] = m => m # Head(inbox[c])
    <3> SUFFICES ASSUME inbox'[d][i] = inbox[c][1], m = inbox[c][1] PROVE FALSE
      BY <2>2
    <3>1. CASE d = c
      <4>1. i + 1 \in DOMAIN inbox[c] /\ inbox[c][i + 1] = m /\ i + 1 # 1
        BY <2>2, <2>3, <3>1
      <4> QED BY <2>2, <4>1 DEF Unread
    <3>2. CASE d # c
      <4>1. Author[m] = d /\ Author[m] = c
        BY <2>2, <2>3, <3>2 DEF Carried
      <4> QED BY <3>2, <4>1
    <3> QED BY <3>1, <3>2
  <2>6. ASSUME NEW m \in Fresh, NEW d \in Clients, NEW i \in DOMAIN inbox'[d], NEW j \in DOMAIN inbox'[d],
               inbox'[d][i] = m
        PROVE  /\ m \notin dispatched'[Origin(m)] /\ m \notin unsent
               /\ inbox'[d][j] = m => i = j
    <3>1. m # Head(inbox[c])
      BY <2>5, <2>6
    <3>2. CASE d = c
      <4>1. /\ i \in Nat /\ j \in Nat
            /\ i + 1 \in DOMAIN inbox[c] /\ j + 1 \in DOMAIN inbox[c]
            /\ inbox[c][i + 1] = m /\ inbox'[c][j] = inbox[c][j + 1]
        BY <2>2, <2>3, <2>6, <3>2
      <4>2. /\ m \notin dispatched[Origin(m)] /\ m \notin unsent
            /\ inbox[c][j + 1] = m => i + 1 = j + 1
        BY <4>1 DEF Unread
      <4> QED BY <2>4, <3>1, <3>2, <4>1, <4>2
    <3>3. CASE d # c
      <4>1. /\ m \notin dispatched[Origin(m)] /\ m \notin unsent
            /\ inbox[d][j] = m => i = j
        BY <2>3, <2>6, <3>3 DEF Unread
      <4> QED BY <2>3, <2>4, <3>1, <3>3, <4>1
    <3> QED BY <3>2, <3>3
  <2>7. ASSUME NEW m \in Fresh, m \in unsent PROVE m \notin dispatched'[Origin(m)]
    <3>1. m # Head(inbox[c]) /\ m \notin dispatched[Origin(m)]
      BY <2>2, <2>7 DEF Unread
    <3> QED BY <2>4, <3>1
  <2> QED BY <2>1, <2>6, <2>7 DEF Unread, Fresh
<1>4. ASSUME NEW c \in Clients, NEW m \in Messages, Submit(c, m) PROVE Unread'
  <2>1. /\ m \in unsent /\ unsent' = unsent \ {m}
        /\ inbox' = [inbox EXCEPT ![c] = Append(@, m)]
        /\ UNCHANGED <<dispatched, astray>>
        /\ inbox[c] \in Seq(Messages)
    BY <1>4 DEF Submit, history, TypeOK
  <2>2. \A i \in DOMAIN Append(inbox[c], m) :
            \/ i \in DOMAIN inbox[c] /\ Append(inbox[c], m)[i] = inbox[c][i]
            \/ i = Len(inbox[c]) + 1 /\ Append(inbox[c], m)[i] = m
    BY <2>1, AppendAt
  <2>3. ASSUME NEW n \in Fresh, NEW d \in Clients, NEW i \in DOMAIN inbox'[d], NEW j \in DOMAIN inbox'[d],
               inbox'[d][i] = n
        PROVE  /\ n \notin dispatched[Origin(n)] /\ n \notin unsent'
               /\ inbox'[d][j] = n => i = j
    <3>1. CASE n = m
      <4>1. /\ n \notin dispatched[Origin(n)] /\ n \notin unsent'
            /\ \A a \in Clients : \A k \in DOMAIN inbox[a] : inbox[a][k] # n
        BY <2>1, <3>1 DEF Unread
      <4> QED BY <2>1, <2>2, <2>3, <3>1, <4>1 DEF TypeOK
    <3>2. CASE n # m
      <4>1. /\ i \in DOMAIN inbox[d] /\ inbox[d][i] = n
            /\ inbox'[d][j] = n => j \in DOMAIN inbox[d] /\ inbox[d][j] = n
        BY <2>1, <2>2, <2>3, <3>2 DEF TypeOK
      <4> QED BY <2>1, <4>1 DEF Unread
    <3> QED BY <3>1, <3>2
  <2> QED BY <2>1, <2>3 DEF Unread, Fresh
<1>5. ASSUME NEW c \in Clients, ReadMalformed(c) PROVE Unread'
  <2>1. /\ \A d \in Clients \ {c} : inbox'[d] = inbox[d]
        /\ \A i \in DOMAIN inbox'[c] :
              /\ i \in Nat /\ i + 1 \in DOMAIN inbox[c]
              /\ inbox'[c][i] = inbox[c][i + 1]
        /\ UNCHANGED <<unsent, dispatched, astray>>
    BY <1>5, MalformedFacts
  <2> QED BY <2>1, UnreadQuiet
<1>6. ASSUME NEW c \in Clients, BreakClient(c) PROVE Unread'
  <2>1. /\ inbox' = [inbox EXCEPT ![c] = <<>>]
        /\ UNCHANGED <<unsent, dispatched, astray>>
    BY <1>6 DEF BreakClient, history
  <2>2. /\ \A d \in Clients \ {c} : inbox'[d] = inbox[d]
        /\ inbox'[c] = <<>>
    BY <2>1 DEF TypeOK
  <2> QED BY <2>1, <2>2, UnreadQuiet
<1>7. \/ UNCHANGED <<dispatched, unsent, inbox, astray>>
      \/ \E e \in Ends : Break(e) \/ ReadForward(e)
      \/ \E c \in Clients : ReadMessage(c) \/ ReadMalformed(c) \/ BreakClient(c)
      \/ \E c \in Clients, m \in Messages : Submit(c, m)
  BY DEF Next, vars, history, StartLink, Accept, Read, ReadLogin, DropForward, Connect,
         ReadClient, RemoveClient
<1> QED BY <1>0, <1>1, <1>2, <1>3, <1>4, <1>5, <1>6, <1>7

----------------------------------------------------------------------------
(* The inductive invariant, and at most once.                               *)

TreeInv == OneWay /\ OneCopy /\ Behind /\ Unread /\ OneOut /\ LeftBehind /\ ReceivedOnce

LEMMA TreeInit == Init => TreeInv
<1> SUFFICES ASSUME Init PROVE TreeInv
  OBVIOUS
<1>1. OneWay /\ OneCopy
  BY DEF Init, OneWay, OneCopy
<1>2. Behind /\ Unread
  BY NetworkAssumption, MessageAssumption DEF Init, Behind, Unread, Fresh, Origin
<1>3. OneOut /\ LeftBehind
  BY SideFacts DEF Init, OneOut, LeftBehind
<1>4. ReceivedOnce
  BY DEF Init, ReceivedOnce
<1> QED BY <1>1, <1>2, <1>3, <1>4 DEF TreeInv

(* A fresh message under way is on the one connection of a link.            *)
LEMMA UnderWay ==
    ASSUME TypeOK, Carried, OneWay, LeftBehind, NEW m \in Fresh, NEW e \in Ends,
           NEW i \in DOMAIN queue[e], queue[e][i] = m
    PROVE  /\ Way(m)[ServerOf(e)] = ServerOf(Peer(e))
           /\ m \notin dispatched[ServerOf(e)]
           /\ m \in dispatched[ServerOf(Peer(e))]
           /\ ServerOf(e) \in Servers /\ ServerOf(Peer(e)) \in Servers
           /\ state[Out(e[1])] = "open"
           /\ e[1] \in Conns /\ link[e[1]] \in Links
           /\ {link[e[1]][1], link[e[1]][2]} = {ServerOf(Peer(e)), ServerOf(e)}
<1>1. m # Login /\ m \notin astray
  BY MessageAssumption DEF Fresh
<1>2. /\ Way(m)[ServerOf(e)] = ServerOf(Peer(e))
      /\ m \notin dispatched[ServerOf(e)]
  BY DEF OneWay
<1>3. m \in dispatched[ServerOf(Peer(e))]
  BY <1>1 DEF Carried, QueuedFrom
<1>4. state[e] \notin {"free", "closed"} /\ e[1] \in Conns
  BY EndFacts DEF TypeOK
<1>5. /\ link[e[1]] \in Links /\ state[Peer(e)] # "free"
      /\ ServerOf(e) \in Servers /\ ServerOf(Peer(e)) \in Servers
      /\ \/ /\ e = Out(e[1]) /\ Peer(e) = In(e[1])
            /\ ServerOf(e) = link[e[1]][1]
            /\ ServerOf(Peer(e)) = link[e[1]][2]
         \/ /\ e = In(e[1]) /\ Peer(e) = Out(e[1])
            /\ ServerOf(e) = link[e[1]][2]
            /\ ServerOf(Peer(e)) = link[e[1]][1]
  BY <1>4, ServerFacts
<1>6. {link[e[1]][1], link[e[1]][2]} = {ServerOf(Peer(e)), ServerOf(e)}
  BY <1>5
<1>7. state[Out(e[1])] # "free"
  BY <1>4, <1>5
<1>8. state[Out(e[1])] # "closed"
  <2>1. CASE e = Out(e[1])
    BY <1>4, <2>1
  <2>2. CASE e = In(e[1])
    <3>1. state[Out(e[1])] = "closed" => queue[e][i] \in astray \cup {Login}
      BY <1>4, <2>2 DEF LeftBehind
    <3> QED BY <1>1, <3>1
  <2> QED BY <1>5, <2>1, <2>2
<1>9. state[Out(e[1])] = "open"
  BY <1>4, <1>7, <1>8, SideFacts DEF TypeOK
<1> QED BY <1>2, <1>3, <1>4, <1>5, <1>6, <1>9

(* No message is under way to its author's server.                          *)
LEMMA NotHome ==
    ASSUME IsTree, TypeOK, Carried, OneWay, LeftBehind, NEW m \in Fresh, NEW e \in Ends,
           NEW i \in DOMAIN queue[e], queue[e][i] = m
    PROVE  ServerOf(e) # Origin(m)
<1>1. /\ Way(m)[ServerOf(e)] = ServerOf(Peer(e))
      /\ link[e[1]] \in Links
      /\ {link[e[1]][1], link[e[1]][2]} = {ServerOf(Peer(e)), ServerOf(e)}
  BY UnderWay
<1>2. link[e[1]][1] # link[e[1]][2]
  BY <1>1, LinkFacts
<1>3. Way(m)[Origin(m)] = Origin(m)
  BY WayFacts DEF Fresh
<1> QED BY <1>1, <1>2, <1>3

(* The messages of a queue or an inbox before and after its head is taken.   *)
Still(S) == [x \in S |-> 0]
Shift(S, y) == [x \in S |-> IF x = y THEN 1 ELSE 0]

LEMMA ShiftFacts ==
    ASSUME TypeOK
    PROVE  /\ Still(Ends) \in [Ends -> Nat]
           /\ \A e \in Ends : Shift(Ends, e) \in [Ends -> Nat]
           /\ Kept(queue, Still(Ends))
           /\ \A e \in Ends : Reading(e) => Kept(Popped(e), Shift(Ends, e))
<1>1. \A d \in Ends : \A i \in DOMAIN queue[d] : i + 0 = i
  BY DEF TypeOK
<1>2. Kept(queue, Still(Ends))
  BY <1>1 DEF Kept, Still
<1>3. ASSUME NEW e \in Ends, Reading(e) PROVE Kept(Popped(e), Shift(Ends, e))
  <2>1. /\ Popped(e) \in [Ends -> Seq(Packets)]
        /\ \A d \in Ends \ {e} : Popped(e)[d] = queue[d]
        /\ \A i \in DOMAIN Popped(e)[e] :
              /\ i + 1 \in DOMAIN queue[e]
              /\ Popped(e)[e][i] = queue[e][i + 1]
    BY <1>3, PoppedFacts
  <2> QED BY <1>1, <2>1 DEF Kept, Shift
<1> QED BY <1>2, <1>3 DEF Still, Shift

(* A server takes the fresh message m, which it has not dispatched, from    *)
(* origin and dispatches it.                                                *)
Taken(s, origin, m, rest) ==
    /\ Queued(s, origin, m, rest) /\ Delivered(s, m)
    /\ dispatched' = [dispatched EXCEPT ![s] = @ \cup {m}]
    /\ UNCHANGED <<link, state, authenticated, unsent, astray>>
    /\ m \in Fresh =>
          /\ m \notin dispatched[s]
          /\ CameFrom(s, origin, m)
          /\ \A d \in Ends : \A i \in DOMAIN rest[d] : rest[d][i] = m => ServerOf(d) # s

LEMMA ForwardTaken ==
    ASSUME IsTree, Origins, TreeInv, NEW e \in Ends, ReadForward(e)
    PROVE  /\ Reading(e) /\ Popped(e) \in [Ends -> Seq(Packets)]
           /\ ServerOf(e) \in Servers /\ Head(queue[e]) \in Messages
           /\ Taken(ServerOf(e), e, Head(queue[e]), Popped(e))
           /\ inbox' = inbox
<1>0. TypeOK /\ Carried /\ OneWay /\ OneCopy /\ LeftBehind
  BY DEF Origins, TreeInv
<1>1. /\ Reading(e) /\ Head(queue[e]) # Login
      /\ Dispatch(ServerOf(e), e, Head(queue[e]), client, Popped(e))
      /\ UNCHANGED <<link, state, authenticated, inbox, unsent, astray>>
  BY DEF ReadForward, conns
<1>2. /\ Popped(e) \in [Ends -> Seq(Packets)]
      /\ \A d \in Ends : state[d] \in {"free", "closed"} => Popped(e)[d] = <<>>
      /\ 1 \in DOMAIN queue[e] /\ Head(queue[e]) = queue[e][1]
      /\ Head(queue[e]) \in Packets /\ state[e] = "open"
      /\ \A d \in Ends \ {e} : Popped(e)[d] = queue[d]
      /\ \A i \in DOMAIN Popped(e)[e] :
            /\ i + 1 \in DOMAIN queue[e] /\ i + 1 # 1
            /\ Popped(e)[e][i] = queue[e][i + 1]
  BY <1>0, <1>1, PoppedFacts
<1>3. client \in ChatType
  BY <1>0 DEF TypeOK, ChatType
<1>4. Head(queue[e]) \in Messages /\ ServerOf(e) \in Servers
  BY <1>0, <1>1, <1>2, ServerFacts DEF Packets
<1>5. /\ Queued(ServerOf(e), e, Head(queue[e]), Popped(e))
      /\ Delivered(ServerOf(e), Head(queue[e]))
      /\ dispatched' = [dispatched EXCEPT ![ServerOf(e)] = @ \cup {Head(queue[e])}]
  <2>1. Dispatch(ServerOf(e), e, Head(queue[e]), client, Popped(e))
    BY <1>1
  <2>2. /\ Popped(e) \in [Ends -> Seq(Packets)]
        /\ \A d \in Ends : state[d] \in {"free", "closed"} => Popped(e)[d] = <<>>
    BY <1>2
  <2>3. TypeOK
    BY <1>0
  <2> QED BY <2>1, <2>2, <2>3, <1>3, <1>4, DispatchFacts
<1>6. PICK m \in Messages, s \in Servers : m = Head(queue[e]) /\ s = ServerOf(e)
  BY <1>4
<1>7. ASSUME m \in Fresh
      PROVE  /\ m \notin dispatched[s]
             /\ CameFrom(s, e, m)
             /\ \A d \in Ends : \A i \in DOMAIN Popped(e)[d] :
                   Popped(e)[d][i] = m => ServerOf(d) # s
  <2>1. /\ m \notin dispatched[s] /\ Way(m)[s] = ServerOf(Peer(e))
        /\ m \in dispatched[ServerOf(Peer(e))]
        /\ state[Out(e[1])] = "open"
    BY <1>0, <1>2, <1>6, <1>7, UnderWay
  <2>2. CameFrom(s, e, m)
    BY <1>2, <1>6, <2>1 DEF CameFrom
  <2>3. ASSUME NEW d \in Ends, NEW i \in DOMAIN Popped(e)[d], Popped(e)[d][i] = m,
               ServerOf(d) = s
        PROVE  FALSE
    <3>1. CASE d = e
      <4>1. i + 1 \in DOMAIN queue[e] /\ queue[e][i + 1] = m /\ i + 1 # 1
        BY <1>2, <2>3, <3>1
      <4> QED BY <1>0, <1>2, <1>6, <1>7, <4>1 DEF OneCopy
    <3>2. CASE d # e
      <4>1. i \in DOMAIN queue[d] /\ queue[d][i] = m
        BY <1>2, <2>3, <3>2
      <4> QED BY <1>0, <1>2, <1>6, <1>7, <2>3, <3>2, <4>1 DEF OneCopy
    <3> QED BY <3>1, <3>2
  <2> QED BY <2>1, <2>2, <2>3
<1>8. Taken(s, e, m, Popped(e))
  BY <1>1, <1>5, <1>6, <1>7 DEF Taken
<1> QED BY <1>1, <1>2, <1>4, <1>6, <1>8

LEMMA MessageTaken ==
    ASSUME IsTree, Origins, TreeInv, NEW c \in Clients, ReadMessage(c)
    PROVE  /\ queue \in [Ends -> Seq(Packets)]
           /\ Home[c] \in Servers /\ Head(inbox[c]) \in Messages
           /\ Home[c] = Origin(Head(inbox[c]))
           /\ Taken(Home[c], NoEnd, Head(inbox[c]), queue)
<1>0. TypeOK /\ Carried /\ OneWay /\ Unread /\ LeftBehind
  BY DEF Origins, TreeInv
<1>1. /\ Queued(Home[c], NoEnd, Head(inbox[c]), queue)
      /\ Delivered(Home[c], Head(inbox[c]))
      /\ dispatched' = [dispatched EXCEPT ![Home[c]] = @ \cup {Head(inbox[c])}]
      /\ Home[c] \in Servers /\ inbox[c] # <<>>
      /\ UNCHANGED <<link, state, authenticated, unsent, astray>>
  BY <1>0, ReadMessageFacts
<1>2. 1 \in DOMAIN inbox[c] /\ Head(inbox[c]) = inbox[c][1] /\ Head(inbox[c]) \in Messages
  BY <1>0, <1>1, InboxFacts
<1>3. PICK m \in Messages, s \in Servers : m = Head(inbox[c]) /\ s = Home[c]
  BY <1>1, <1>2
<1>4. s = Origin(m)
  BY <1>0, <1>2, <1>3 DEF Carried, Origin
<1>5. ASSUME m \in Fresh
      PROVE  /\ m \notin dispatched[s]
             /\ CameFrom(s, NoEnd, m)
             /\ \A d \in Ends : \A i \in DOMAIN queue[d] : queue[d][i] = m => ServerOf(d) # s
  <2>1. m \notin dispatched[s]
    BY <1>0, <1>2, <1>3, <1>4, <1>5 DEF Unread
  <2>2. CameFrom(s, NoEnd, m)
    BY <1>4 DEF CameFrom
  <2> QED BY <1>0, <1>4, <1>5, <2>1, <2>2, NotHome
<1>6. Taken(s, NoEnd, m, queue)
  BY <1>1, <1>3, <1>5 DEF Taken
<1> QED BY <1>0, <1>1, <1>2, <1>3, <1>4, <1>6 DEF TypeOK

LEMMA TreeStep ==
    ASSUME IsTree, Origins, Origins', TreeInv, [Next]_vars
    PROVE  OneWay' /\ OneCopy' /\ Behind' /\ ReceivedOnce'
<1>0. /\ TypeOK /\ TypeOK' /\ Carried
      /\ OneWay /\ OneCopy /\ Behind /\ Unread /\ OneOut /\ LeftBehind /\ ReceivedOnce
  BY DEF Origins, TreeInv
<1>1. /\ \A d \in Ends : \A i \in DOMAIN queue'[d] : i + 0 = i
      /\ \A d \in Ends : \A i \in DOMAIN queue[d] : i + 0 = i
  BY <1>0 DEF TypeOK
<1>2. /\ Still(Ends) \in [Ends -> Nat]
      /\ \A e \in Ends : Shift(Ends, e) \in [Ends -> Nat]
      /\ Kept(queue, Still(Ends))
  BY <1>0, ShiftFacts
<1>5. ASSUME NEW l \in Links, NEW k \in Conns, StartLink(l, k)
      PROVE  OneWay' /\ OneCopy' /\ Behind' /\ ReceivedOnce'
  <2>1. /\ link[k] = NoLink /\ link' = [link EXCEPT ![k] = l]
        /\ queue' = [queue EXCEPT ![In(k)] = <<Login>>]
        /\ UNCHANGED <<received, dispatched, astray>>
    BY <1>5 DEF StartLink, history
  <2>2. \A e \in Ends : state[e] # "free" => link'[e[1]] = link[e[1]]
    BY <1>0, <2>1, EndFacts DEF TypeOK
  <2>3. Kept(queue', Still(Ends))
    <3> SUFFICES ASSUME NEW d \in Ends, NEW i \in DOMAIN queue'[d], queue'[d][i] # Login
                 PROVE  /\ i + Still(Ends)[d] \in DOMAIN queue[d]
                        /\ queue'[d][i] = queue[d][i + Still(Ends)[d]]
      BY DEF Kept
    <3>1. d # In(k)
      BY <1>0, <2>1 DEF TypeOK
    <3>2. queue'[d] = queue[d]
      BY <1>0, <2>1, <3>1 DEF TypeOK
    <3> QED BY <1>1, <3>2 DEF Still
  <2> QED BY <1>0, <1>2, <2>1, <2>2, <2>3, TreeQuiet
<1>6. ASSUME NEW e \in Ends, Break(e)
      PROVE  OneWay' /\ OneCopy' /\ Behind' /\ ReceivedOnce'
  <2>1. /\ UNCHANGED <<link, received, dispatched>> /\ astray \subseteq astray'
        /\ \A d \in Ends : \A i \in DOMAIN queue'[d] :
              i \in DOMAIN queue[d] /\ queue'[d][i] = queue[d][i]
    BY <1>0, <1>6, BreakFacts
  <2>2. Kept(queue', Still(Ends))
    BY <1>1, <2>1 DEF Kept, Still
  <2> QED BY <1>0, <1>2, <2>1, <2>2, TreeQuiet
<1>7. ASSUME NEW e \in Ends, ReadLogin(e) \/ DropForward(e)
      PROVE  OneWay' /\ OneCopy' /\ Behind' /\ ReceivedOnce'
  <2>1. /\ Reading(e) /\ queue' = Popped(e)
        /\ UNCHANGED <<link, received, dispatched, astray>>
    BY <1>7 DEF ReadLogin, DropForward, conns, history
  <2>2. Kept(queue', Shift(Ends, e))
    BY <1>0, <2>1, ShiftFacts
  <2> QED BY <1>0, <1>2, <2>1, <2>2, TreeQuiet
<1>8. ASSUME NEW e \in Ends, ReadForward(e)
      PROVE  OneWay' /\ OneCopy' /\ Behind' /\ ReceivedOnce'
  <2>1. /\ Reading(e) /\ Popped(e) \in [Ends -> Seq(Packets)]
        /\ ServerOf(e) \in Servers /\ Head(queue[e]) \in Messages
        /\ Taken(ServerOf(e), e, Head(queue[e]), Popped(e))
    BY <1>8, ForwardTaken
  <2>2. Kept(Popped(e), Shift(Ends, e)) /\ Shift(Ends, e) \in [Ends -> Nat]
    BY <1>0, <2>1, ShiftFacts
  <2>3. PICK m \in Messages, s \in Servers : m = Head(queue[e]) /\ s = ServerOf(e)
    BY <2>1
  <2>4. Taken(s, e, m, Popped(e))
    BY <2>1, <2>3
  <2> QED BY <1>0, <2>1, <2>2, <2>4, TreeDispatch DEF Taken
<1>9. ASSUME NEW c \in Clients, ReadMessage(c)
      PROVE  OneWay' /\ OneCopy' /\ Behind' /\ ReceivedOnce'
  <2>1. /\ queue \in [Ends -> Seq(Packets)]
        /\ Home[c] \in Servers /\ Head(inbox[c]) \in Messages
        /\ Taken(Home[c], NoEnd, Head(inbox[c]), queue)
    BY <1>9, MessageTaken
  <2>2. PICK m \in Messages, s \in Servers : m = Head(inbox[c]) /\ s = Home[c]
    BY <2>1
  <2>3. Taken(s, NoEnd, m, queue)
    BY <2>1, <2>2
  <2> QED BY <1>0, <1>2, <2>1, <2>3, TreeDispatch DEF Taken
<1>10. ASSUME UNCHANGED <<link, queue, received, dispatched, astray>>
       PROVE  OneWay' /\ OneCopy' /\ Behind' /\ ReceivedOnce'
  <2>1. Kept(queue', Still(Ends))
    BY <1>2, <1>10
  <2> QED BY <1>0, <1>2, <1>10, <2>1, TreeQuiet
<1>11. \/ UNCHANGED <<link, queue, received, dispatched, astray>>
       \/ \E l \in Links, k \in Conns : StartLink(l, k)
       \/ \E e \in Ends : Break(e) \/ ReadLogin(e) \/ DropForward(e) \/ ReadForward(e)
       \/ \E c \in Clients : ReadMessage(c)
  BY DEF Next, vars, conns, history, Accept, Read, Connect, Submit, ReadClient,
         ReadMalformed, BreakClient, RemoveClient
<1> QED BY <1>5, <1>6, <1>7, <1>8, <1>9, <1>10, <1>11

LEMMA TreeInvStep ==
    ASSUME IsTree, Origins, Origins', TreeInv, [Next]_vars
    PROVE  TreeInv'
<1>1. OneWay' /\ OneCopy' /\ Behind' /\ ReceivedOnce'
  BY TreeStep
<1>2. Unread' /\ OneOut' /\ LeftBehind'
  BY UnreadStep, OneOutStep, LeftBehindStep DEF Origins, TreeInv
<1> QED BY <1>1, <1>2 DEF TreeInv

(* On a tree of servers no client is sent a message twice, unless the message *)
(* was under way on a connection when the server that made it lost it: the   *)
(* only thing that stops a message from going round is that ichat_dispatch   *)
(* skips the connection it came from.                                        *)
THEOREM AtMostOnceOnTrees == Spec => []AtMostOnce
<1>1. CASE IsTree
  <2>1. Init => TreeInv
    BY TreeInit
  <2>2. Origins /\ Origins' /\ TreeInv /\ [Next]_vars => TreeInv'
    BY <1>1, TreeInvStep
  <2>3. TreeInv => AtMostOnce
    BY DEF TreeInv, ReceivedOnce, AtMostOnce
  <2> QED BY <2>1, <2>2, <2>3, OriginsInvariant, PTL DEF Spec
<1>2. CASE ~IsTree
  <2>1. AtMostOnce
    BY <1>2 DEF AtMostOnce
  <2> QED BY <2>1, PTL
<1> QED BY <1>1, <1>2

----------------------------------------------------------------------------
(* In order.                                                                *)

(* Of two messages of one author, m is ahead of n: n gets to no server that  *)
(* m is still under way to, follows m on the same connection, is written    *)
(* after it, and comes after it wherever both are received.                 *)
AheadOnTheWay(m, n) ==
    \A e \in Ends : \A i \in DOMAIN queue[e] : queue[e][i] = m =>
        /\ n \notin dispatched[ServerOf(e)]
        /\ \A f \in Ends : \A j \in DOMAIN queue[f] :
              queue[f][j] = n /\ ServerOf(f) = ServerOf(e) => e = f /\ i < j

AheadWritten(m, n) ==
    \A c \in Clients : \A i \in DOMAIN inbox[c] : inbox[c][i] = m =>
        /\ \A s \in Servers : n \notin dispatched[s]
        /\ \A j \in DOMAIN inbox[c] : inbox[c][j] = n => i < j

Ahead(m, n) ==
    /\ AheadOnTheWay(m, n)
    /\ AheadWritten(m, n)
    /\ m \in unsent => n \in unsent
    /\ \A c \in Clients : ~Before(c, n, m)

(* m was submitted before n, if n was submitted at all, and is ahead of it.  *)
First(m, n) == Ahead(m, n) /\ (n \in unsent \/ Room!Sooner(m, n))

Ordered ==
    \A m, n \in Fresh : m # n /\ Author[m] = Author[n] => First(m, n) \/ First(n, m)

(* What nobody has submitted is nowhere.                                    *)
Untouched ==
    \A m \in unsent :
        /\ \A s \in Servers : m \notin dispatched[s]
        /\ \A c \in Clients : \A i \in DOMAIN inbox[c] : inbox[c][i] # m

(* What has been submitted is what the clients have written.                *)
Recorded ==
    /\ \A c \in Clients : \A i \in DOMAIN written[c] : written[c][i] \notin unsent
    /\ \A m \in Messages \ unsent : Room!Written(m)

(* What clients have written and is not read is a rest of what it was.      *)
Held(sh) ==
    \A c \in Clients : \A i \in DOMAIN inbox'[c] :
        i + sh[c] \in DOMAIN inbox[c] /\ inbox'[c][i] = inbox[c][i + sh[c]]

LEMMA SameWay ==
    ASSUME NEW m, NEW n, Author[m] = Author[n]
    PROVE  Origin(m) = Origin(n) /\ Way(m) = Way(n)
BY DEF Origin, Way

LEMMA AheadQuiet ==
    ASSUME TypeOK, TypeOK', NEW m \in Messages, NEW n \in Messages, Ahead(m, n),
           NEW sh \in [Ends -> Nat], Kept(queue', sh),
           NEW th \in [Clients -> Nat], Held(th),
           \A e \in Ends : state[e] # "free" => link'[e[1]] = link[e[1]],
           UNCHANGED <<received, dispatched, unsent>>
    PROVE  Ahead(m, n)'
<1>1. m # Login /\ n # Login
  BY MessageAssumption
<1>2. /\ \A e \in Ends : \A i \in DOMAIN queue'[e] : i \in Nat
      /\ \A c \in Clients : \A i \in DOMAIN inbox'[c] : i \in Nat
  BY DEF TypeOK
<1>3. ASSUME NEW x \in {m, n}, NEW e \in Ends, NEW i \in DOMAIN queue'[e], queue'[e][i] = x
      PROVE  /\ i + sh[e] \in DOMAIN queue[e] /\ queue[e][i + sh[e]] = x
             /\ ServerOf(e)' = ServerOf(e)
  <2>1. i + sh[e] \in DOMAIN queue[e] /\ queue[e][i + sh[e]] = x
    BY <1>1, <1>3 DEF Kept
  <2>2. state[e] # "free"
    BY <2>1 DEF TypeOK
  <2> QED BY <2>1, <2>2 DEF ServerOf
<1>4. AheadOnTheWay(m, n)'
  <2> SUFFICES ASSUME NEW e \in Ends, NEW i \in DOMAIN queue'[e], queue'[e][i] = m
               PROVE  /\ n \notin dispatched'[ServerOf(e)']
                      /\ \A f \in Ends : \A j \in DOMAIN queue'[f] :
                            queue'[f][j] = n /\ ServerOf(f)' = ServerOf(e)' => e = f /\ i < j
    BY DEF AheadOnTheWay
  <2>1. /\ i + sh[e] \in DOMAIN queue[e] /\ queue[e][i + sh[e]] = m
        /\ ServerOf(e)' = ServerOf(e)
    BY <1>3
  <2>2. /\ n \notin dispatched[ServerOf(e)]
        /\ \A f \in Ends : \A j \in DOMAIN queue[f] :
              queue[f][j] = n /\ ServerOf(f) = ServerOf(e) => e = f /\ i + sh[e] < j
    BY <2>1 DEF Ahead, AheadOnTheWay
  <2>3. ASSUME NEW f \in Ends, NEW j \in DOMAIN queue'[f], queue'[f][j] = n,
               ServerOf(f)' = ServerOf(e)'
        PROVE  e = f /\ i < j
    <3>1. /\ j + sh[f] \in DOMAIN queue[f] /\ queue[f][j + sh[f]] = n
          /\ ServerOf(f)' = ServerOf(f)
      BY <1>3, <2>3
    <3>2. e = f /\ i + sh[e] < j + sh[f]
      BY <2>1, <2>2, <2>3, <3>1
    <3> QED BY <1>2, <3>2
  <2> QED BY <2>1, <2>2, <2>3
<1>5. AheadWritten(m, n)'
  <2> SUFFICES ASSUME NEW c \in Clients, NEW i \in DOMAIN inbox'[c], inbox'[c][i] = m
               PROVE  /\ \A s \in Servers : n \notin dispatched[s]
                      /\ \A j \in DOMAIN inbox'[c] : inbox'[c][j] = n => i < j
    BY DEF AheadWritten
  <2>1. i + th[c] \in DOMAIN inbox[c] /\ inbox[c][i + th[c]] = m
    BY DEF Held
  <2>2. /\ \A s \in Servers : n \notin dispatched[s]
        /\ \A j \in DOMAIN inbox[c] : inbox[c][j] = n => i + th[c] < j
    BY <2>1 DEF Ahead, AheadWritten
  <2>3. ASSUME NEW j \in DOMAIN inbox'[c], inbox'[c][j] = n PROVE i < j
    <3>1. j + th[c] \in DOMAIN inbox[c] /\ inbox[c][j + th[c]] = n
      BY <2>3 DEF Held
    <3> QED BY <1>2, <2>2, <3>1
  <2> QED BY <2>2, <2>3
<1> QED BY <1>4, <1>5 DEF Ahead, Before

(* The order of two messages of one author survives a dispatch: of the      *)
(* first, which the second has not reached yet, or of the second, once the  *)
(* first has left for wherever it goes from there.                          *)
LEMMA AheadDispatch ==
    ASSUME IsTree, TypeOK, TypeOK', Carried, OneWay, Behind, OneOut, LeftBehind,
           NEW s \in Servers, NEW origin, NEW x \in Messages,
           NEW rest \in [Ends -> Seq(Packets)],
           NEW sh \in [Ends -> Nat], Kept(rest, sh),
           NEW th \in [Clients -> Nat], Held(th),
           Taken(s, origin, x, rest),
           NEW m \in Fresh, NEW n \in Fresh, m # n, Author[m] = Author[n],
           Ahead(m, n),
           x = m => n \notin dispatched[s],
           x = n => /\ m \notin unsent
                    /\ \A c \in Clients : \A i \in DOMAIN inbox'[c] : inbox'[c][i] # m
                    /\ \A d \in Ends : \A i \in DOMAIN rest[d] :
                          rest[d][i] = m => ServerOf(d) # s
    PROVE  Ahead(m, n)'
<1>0. /\ Queued(s, origin, x, rest) /\ Delivered(s, x)
      /\ dispatched' = [dispatched EXCEPT ![s] = @ \cup {x}]
      /\ UNCHANGED <<link, state, unsent>>
      /\ x \in Fresh => CameFrom(s, origin, x)
  BY DEF Taken
<1>1. /\ m # Login /\ n # Login /\ m \in Messages /\ n \in Messages
      /\ \A e \in Ends : ServerOf(e)' = ServerOf(e)
      /\ Way(m) = Way(n) /\ Origin(m) = Origin(n)
  BY <1>0, SameWay, MessageAssumption DEF Fresh, ServerOf
<1>2. /\ \A t \in Servers \ {s} : dispatched'[t] = dispatched[t]
      /\ \A y \in Messages \ {x} : \A t \in Servers :
            y \in dispatched'[t] => y \in dispatched[t]
  BY <1>0 DEF TypeOK
<1>3. /\ \A e \in Ends : \A i \in DOMAIN queue'[e] : i \in Nat
      /\ \A e \in Ends : \A i \in DOMAIN rest[e] : i \in 1 .. Len(rest[e])
      /\ \A e \in Ends : Len(rest[e]) \in Nat
      /\ \A c \in Clients : \A i \in DOMAIN inbox'[c] : i \in Nat
  BY DEF TypeOK
<1> DEFINE Old(e, i) == i \in DOMAIN rest[e] /\ queue'[e][i] = rest[e][i]
           New(e, i) == /\ Peer(e) \in OtherServers(s, origin) /\ state[e] # "closed"
                        /\ i = Len(rest[e]) + 1 /\ queue'[e][i] = x
<1>4. \A e \in Ends : \A i \in DOMAIN queue'[e] : Old(e, i) \/ New(e, i)
  BY <1>0 DEF Queued
<1>5. ASSUME NEW y \in {m, n}, NEW e \in Ends, NEW i \in DOMAIN queue'[e],
             queue'[e][i] = y, Old(e, i)
      PROVE  /\ i + sh[e] \in DOMAIN queue[e] /\ queue[e][i + sh[e]] = y
             /\ i \in DOMAIN rest[e] /\ rest[e][i] = y
             /\ Way(m)[ServerOf(e)] = ServerOf(Peer(e))
             /\ y \in dispatched[ServerOf(Peer(e))]
             /\ ServerOf(e) \in Servers
             /\ state[Out(e[1])] = "open"
             /\ e[1] \in Conns /\ link[e[1]] \in Links
             /\ {link[e[1]][1], link[e[1]][2]} = {ServerOf(Peer(e)), ServerOf(e)}
  <2>1. /\ i + sh[e] \in DOMAIN queue[e] /\ queue[e][i + sh[e]] = y
        /\ i \in DOMAIN rest[e] /\ rest[e][i] = y
    BY <1>1, <1>5 DEF Kept
  <2>2. y \in Fresh
    OBVIOUS
  <2>3. /\ Way(y)[ServerOf(e)] = ServerOf(Peer(e))
        /\ y \in dispatched[ServerOf(Peer(e))]
        /\ ServerOf(e) \in Servers
        /\ state[Out(e[1])] = "open"
        /\ e[1] \in Conns /\ link[e[1]] \in Links
        /\ {link[e[1]][1], link[e[1]][2]} = {ServerOf(Peer(e)), ServerOf(e)}
    BY <2>1, <2>2, UnderWay
  <2> QED BY <1>1, <2>1, <2>3
<1>6. ASSUME x \in {m, n}, NEW e \in Ends, NEW i \in DOMAIN queue'[e], New(e, i)
      PROVE  SentOn(s, x, e) /\ Way(m)[ServerOf(e)] = s
  <2>1. Peer(e) \in OtherServers(s, origin) /\ state[e] # "closed"
    BY <1>6
  <2>2. CameFrom(s, origin, x)
    BY <1>0, <1>6
  <2>3. SentOn(s, x, e)
    BY <2>1, <2>2, Spreads
  <2>4. Way(m) = Way(x)
    BY <1>1, <1>6
  <2>5. Way(m)[ServerOf(e)] = s
    BY <2>3, <2>4 DEF SentOn
  <2> QED BY <2>3, <2>5
<1> HIDE DEF Old, New
(* n is not past s, so it is not where m goes from s.                       *)
<1>7. ASSUME x = m, NEW t \in Servers, t # s, Way(m)[t] = s
      PROVE  n \notin dispatched[t]
  <2>1. t # Origin(n)
    BY <1>1, <1>7, WayFacts
  <2> QED BY <1>1, <1>7, <2>1 DEF Behind
<1>8. ASSUME NEW e \in Ends, NEW i \in DOMAIN queue'[e], queue'[e][i] = m
      PROVE  n \notin dispatched'[ServerOf(e)]
  <2>1. CASE Old(e, i)
    <3>1. /\ i + sh[e] \in DOMAIN queue[e] /\ queue[e][i + sh[e]] = m
          /\ i \in DOMAIN rest[e] /\ rest[e][i] = m
          /\ ServerOf(e) \in Servers
      BY <1>5, <1>8, <2>1
    <3>2. n \notin dispatched[ServerOf(e)]
      BY <3>1 DEF Ahead, AheadOnTheWay
    <3>3. x = n => ServerOf(e) # s
      BY <3>1
    <3> QED BY <1>1, <1>2, <3>1, <3>2, <3>3
  <2>2. CASE New(e, i)
    <3>1. x = m
      BY <1>8, <2>2 DEF New
    <3>2. ServerOf(e) \in Servers /\ ServerOf(e) # s /\ Way(m)[ServerOf(e)] = s
      BY <1>6, <2>2, <3>1 DEF SentOn
    <3> QED BY <1>2, <1>7, <3>1, <3>2
  <2> QED BY <1>4, <2>1, <2>2
<1>9. ASSUME NEW e \in Ends, NEW i \in DOMAIN queue'[e], queue'[e][i] = m,
             NEW f \in Ends, NEW j \in DOMAIN queue'[f], queue'[f][j] = n,
             ServerOf(f) = ServerOf(e)
      PROVE  e = f /\ i < j
  <2>1. CASE Old(e, i) /\ Old(f, j)
    <3>1. /\ i + sh[e] \in DOMAIN queue[e] /\ queue[e][i + sh[e]] = m
          /\ j + sh[f] \in DOMAIN queue[f] /\ queue[f][j + sh[f]] = n
      BY <1>5, <1>9, <2>1
    <3>2. e = f /\ i + sh[e] < j + sh[f]
      BY <1>9, <3>1 DEF Ahead, AheadOnTheWay
    <3> QED BY <1>3, <3>2
  <2>2. CASE New(e, i) /\ Old(f, j)
    <3>1. x = m
      BY <1>9, <2>2 DEF New
    <3>2. Way(m)[ServerOf(e)] = s
      BY <1>6, <2>2, <3>1 DEF SentOn
    <3>3. Way(m)[ServerOf(f)] = ServerOf(Peer(f)) /\ n \in dispatched[ServerOf(Peer(f))]
      BY <1>5, <1>9, <2>2
    <3> QED BY <1>9, <3>1, <3>2, <3>3
  <2>3. CASE Old(e, i) /\ New(f, j)
    <3>1. x = n /\ j = Len(rest[f]) + 1
      BY <1>9, <2>3 DEF New
    <3>2. /\ ServerOf(f) # s /\ ServerOf(Peer(f)) = s /\ Way(m)[ServerOf(f)] = s
          /\ state[Out(f[1])] = "open"
          /\ f[1] \in Conns /\ link[f[1]] \in Links
          /\ {link[f[1]][1], link[f[1]][2]} = {s, ServerOf(f)}
      BY <1>6, <2>3, <3>1 DEF SentOn
    <3>3. /\ i \in DOMAIN rest[e]
          /\ Way(m)[ServerOf(e)] = ServerOf(Peer(e))
          /\ state[Out(e[1])] = "open"
          /\ e[1] \in Conns /\ link[e[1]] \in Links
          /\ {link[e[1]][1], link[e[1]][2]} = {ServerOf(Peer(e)), ServerOf(e)}
      BY <1>5, <1>9, <2>3
    <3>4. link[e[1]] = link[f[1]]
      <4>1. {link[e[1]][1], link[e[1]][2]} = {link[f[1]][1], link[f[1]][2]}
        BY <1>9, <3>2, <3>3
      <4> QED BY <3>2, <3>3, <4>1, LinkFacts
    <3>5. e[1] = f[1]
      BY <3>2, <3>3, <3>4 DEF OneOut
    <3>6. e = f \/ e = Peer(f)
      BY <3>5, EndFacts
    <3>7. e = f
      BY <1>9, <3>2, <3>6
    <3> QED BY <1>3, <3>1, <3>3, <3>7
  <2>4. CASE New(e, i) /\ New(f, j)
    BY <1>9, <2>4 DEF New
  <2> QED BY <1>4, <2>1, <2>2, <2>3, <2>4
<1>10. AheadOnTheWay(m, n)'
  BY <1>1, <1>8, <1>9 DEF AheadOnTheWay
<1>11. AheadWritten(m, n)'
  <2> SUFFICES ASSUME NEW c \in Clients, NEW i \in DOMAIN inbox'[c], inbox'[c][i] = m
               PROVE  /\ \A t \in Servers : n \notin dispatched'[t]
                      /\ \A j \in DOMAIN inbox'[c] : inbox'[c][j] = n => i < j
    BY DEF AheadWritten
  <2>1. i + th[c] \in DOMAIN inbox[c] /\ inbox[c][i + th[c]] = m
    BY DEF Held
  <2>2. /\ \A t \in Servers : n \notin dispatched[t]
        /\ \A j \in DOMAIN inbox[c] : inbox[c][j] = n => i + th[c] < j
    BY <2>1 DEF Ahead, AheadWritten
  <2>3. x # n
    OBVIOUS
  <2>4. ASSUME NEW j \in DOMAIN inbox'[c], inbox'[c][j] = n PROVE i < j
    <3>1. j + th[c] \in DOMAIN inbox[c] /\ inbox[c][j + th[c]] = n
      BY <2>4 DEF Held
    <3> QED BY <1>3, <2>2, <3>1
  <2> QED BY <1>1, <1>2, <2>2, <2>3, <2>4
<1>12. (m \in unsent => n \in unsent)'
  BY <1>0 DEF Ahead
<1>13. ASSUME NEW c \in Clients, Before(c, n, m)'
       PROVE  FALSE
  <2>1. PICK i \in DOMAIN received'[c], j \in DOMAIN received'[c] :
            i < j /\ received'[c][i] = n /\ received'[c][j] = m
    BY <1>13 DEF Before
  <2>2. ~(i \in DOMAIN received[c] /\ received'[c][i] = received[c][i]
          /\ j \in DOMAIN received[c] /\ received'[c][j] = received[c][j])
    BY <2>1 DEF Ahead, Before
  <2>3. received[c] \in Seq(Messages)
    BY DEF TypeOK
  <2>4. \A k \in DOMAIN received[c] : k \in 1 .. Len(received[c])
    BY <2>3
  <2>5. CASE j = Len(received[c]) + 1 /\ Home[c] = s /\ x = m
    <3>1. i \in DOMAIN received[c] /\ received[c][i] = n
      BY <1>0, <1>1, <2>1, <2>5 DEF Delivered
    <3>2. n \in dispatched[s]
      BY <2>5, <3>1 DEF Carried
    <3> QED BY <2>5, <3>2
  <2>6. CASE i = Len(received[c]) + 1 /\ j \in DOMAIN received[c]
    BY <2>1, <2>3, <2>4, <2>6
  <2> QED BY <1>0, <2>1, <2>2, <2>5, <2>6 DEF Delivered
<1> QED BY <1>10, <1>11, <1>12, <1>13 DEF Ahead

(* The order survives that c submits x: what is submitted last comes last.  *)
LEMMA AheadSubmit ==
    ASSUME TypeOK, Carried, Unread, Untouched, NEW c \in Clients, NEW x \in Messages,
           Submit(c, x), NEW m \in Fresh, NEW n \in Fresh, m # n, Ahead(m, n)
    PROVE  Ahead(m, n)' \/ (Ahead(n, m)' /\ m \in unsent')
<1>1. /\ x \in unsent /\ unsent' = unsent \ {x}
      /\ inbox' = [inbox EXCEPT ![c] = Append(@, x)]
      /\ UNCHANGED <<link, queue, received, dispatched>>
      /\ inbox[c] \in Seq(Messages)
  BY DEF Submit, conns, history, TypeOK
<1>2. /\ m # Login /\ n # Login /\ \A e \in Ends : ServerOf(e)' = ServerOf(e)
  BY <1>1, MessageAssumption DEF Fresh, ServerOf
<1>3. /\ \A d \in Clients \ {c} : inbox'[d] = inbox[d]
      /\ \A i \in DOMAIN inbox[c] : i \in Nat /\ i < Len(inbox[c]) + 1
      /\ Len(inbox[c]) \in Nat
      /\ \A i \in DOMAIN inbox'[c] :
            \/ i \in DOMAIN inbox[c] /\ inbox'[c][i] = inbox[c][i]
            \/ i = Len(inbox[c]) + 1 /\ inbox'[c][i] = x
  <2>1. inbox'[c] = Append(inbox[c], x) /\ \A d \in Clients \ {c} : inbox'[d] = inbox[d]
    BY <1>1 DEF TypeOK
  <2> QED BY <1>1, <2>1, AppendAt
(* Nothing has been done with what was unsent.                              *)
<1>4. ASSUME NEW y \in {m, n}, y \in unsent
      PROVE  /\ \A s \in Servers : y \notin dispatched[s]
             /\ \A d \in Clients : \A i \in DOMAIN inbox[d] : inbox[d][i] # y
             /\ \A e \in Ends : \A i \in DOMAIN queue[e] : queue[e][i] # y
             /\ \A d \in Clients : \A i \in DOMAIN received[d] : received[d][i] # y
  <2>1. \A s \in Servers : y \notin dispatched[s]
    BY <1>4 DEF Untouched
  <2>2. ASSUME NEW e \in Ends, NEW i \in DOMAIN queue[e], queue[e][i] = y PROVE FALSE
    <3>1. state[e] # "free"
      BY <2>2 DEF TypeOK
    <3>2. ServerOf(Peer(e)) \in Servers
      BY <3>1, ServerFacts
    <3>3. y \in dispatched[ServerOf(Peer(e))]
      BY <1>2, <2>2 DEF Carried, QueuedFrom
    <3> QED BY <2>1, <3>2, <3>3
  <2>3. ASSUME NEW d \in Clients, NEW i \in DOMAIN received[d] PROVE received[d][i] # y
    BY <2>1, NetworkAssumption DEF Carried
  <2> QED BY <1>4, <2>1, <2>2, <2>3 DEF Unread
<1>5. CASE x # n \/ m \notin unsent
  <2>1. AheadOnTheWay(m, n)'
    <3>1. AheadOnTheWay(m, n)
      BY DEF Ahead
    <3> QED BY <1>1, <1>2, <3>1 DEF AheadOnTheWay
  <2>2. AheadWritten(m, n)'
    <3> SUFFICES ASSUME NEW d \in Clients, NEW i \in DOMAIN inbox'[d], inbox'[d][i] = m
                 PROVE  /\ \A s \in Servers : n \notin dispatched[s]
                        /\ \A j \in DOMAIN inbox'[d] : inbox'[d][j] = n => i < j
      BY <1>1 DEF AheadWritten
    <3>1. CASE i \in DOMAIN inbox[d] /\ inbox[d][i] = m
      <4>1. /\ \A s \in Servers : n \notin dispatched[s]
            /\ \A j \in DOMAIN inbox[d] : inbox[d][j] = n => i < j
        BY <3>1 DEF Ahead, AheadWritten
      <4> QED BY <1>3, <3>1, <4>1
    <3>2. CASE d = c /\ i = Len(inbox[c]) + 1 /\ m = x
      <4>1. n \in unsent
        BY <1>1, <3>2 DEF Ahead
      <4>2. /\ \A s \in Servers : n \notin dispatched[s]
            /\ \A j \in DOMAIN inbox[c] : inbox[c][j] # n
        BY <1>4, <4>1
      <4> QED BY <1>3, <3>2, <4>2
    <3> QED BY <1>3, <3>1, <3>2
  <2>3. (m \in unsent => n \in unsent)'
    BY <1>1, <1>5 DEF Ahead
  <2> QED BY <1>1, <2>1, <2>2, <2>3 DEF Ahead, Before
<1>6. CASE x = n /\ m \in unsent
  <2>1. /\ \A s \in Servers : m \notin dispatched[s]
        /\ \A d \in Clients : \A i \in DOMAIN inbox[d] : inbox[d][i] # m
        /\ \A e \in Ends : \A i \in DOMAIN queue[e] : queue[e][i] # n
        /\ \A d \in Clients : \A i \in DOMAIN received[d] : received[d][i] # n
    BY <1>1, <1>4, <1>6
  <2>2. AheadOnTheWay(n, m)'
    BY <1>1, <2>1 DEF AheadOnTheWay
  <2>3. AheadWritten(n, m)'
    BY <1>1, <1>3, <1>6, <2>1 DEF AheadWritten
  <2>4. (n \in unsent => m \in unsent)'
    BY <1>1, <1>6
  <2>5. \A d \in Clients : ~Before(d, m, n)'
    BY <1>1, <2>1 DEF Before
  <2>6. m \in unsent'
    BY <1>1, <1>6
  <2> QED BY <2>2, <2>3, <2>4, <2>5, <2>6 DEF Ahead
<1> QED BY <1>5, <1>6

(* A message that is read from a connection was dispatched by its sender.   *)
LEMMA HeadDispatched ==
    ASSUME TypeOK, Carried, NEW e \in Ends, ReadForward(e)
    PROVE  /\ ServerOf(Peer(e)) \in Servers
           /\ Head(queue[e]) \in dispatched[ServerOf(Peer(e))]
<1>1. Reading(e) /\ Head(queue[e]) # Login
  BY DEF ReadForward
<1>2. 1 \in DOMAIN queue[e] /\ Head(queue[e]) = queue[e][1] /\ state[e] = "open"
  BY <1>1, PoppedFacts
<1> QED BY <1>1, <1>2, ServerFacts DEF Carried, QueuedFrom

LEMMA UntouchedKept ==
    ASSUME Untouched, unsent' \subseteq unsent,
           \A s \in Servers : \A m \in dispatched'[s] : m \in dispatched[s] \/ m \notin unsent',
           \A c \in Clients : \A i \in DOMAIN inbox'[c] :
               \/ inbox'[c][i] \notin unsent'
               \/ \E d \in Clients : \E j \in DOMAIN inbox[d] : inbox'[c][i] = inbox[d][j]
    PROVE  Untouched'
BY DEF Untouched

LEMMA UntouchedStep ==
    ASSUME TypeOK, Carried, Untouched, [Next]_vars
    PROVE  Untouched'
<1>1. ASSUME UNCHANGED <<dispatched, unsent, inbox>> PROVE Untouched'
  BY <1>1 DEF Untouched
<1>2. ASSUME NEW e \in Ends, ReadForward(e) PROVE Untouched'
  <2>1. /\ dispatched' = [dispatched EXCEPT ![ServerOf(e)] = @ \cup {Head(queue[e])}]
        /\ UNCHANGED <<unsent, inbox>>
    BY <1>2 DEF ReadForward, Dispatch
  <2>2. Head(queue[e]) \notin unsent
    BY <1>2, HeadDispatched DEF Untouched
  <2>3. \A s \in Servers : \A m \in dispatched'[s] : m \in dispatched[s] \/ m \notin unsent'
    BY <2>1, <2>2 DEF TypeOK
  <2> QED BY <2>1, <2>3, UntouchedKept
<1>3. ASSUME NEW c \in Clients, ReadMessage(c) PROVE Untouched'
  <2>1. /\ dispatched' = [dispatched EXCEPT ![Home[c]] = @ \cup {Head(inbox[c])}]
        /\ inbox' = [inbox EXCEPT ![c] = Tail(@)] /\ inbox[c] # <<>>
        /\ unsent' = unsent
    BY <1>3, ReadMessageFacts
  <2>2. /\ 1 \in DOMAIN inbox[c] /\ Head(inbox[c]) = inbox[c][1]
        /\ \A i \in DOMAIN Tail(inbox[c]) :
              i + 1 \in DOMAIN inbox[c] /\ Tail(inbox[c])[i] = inbox[c][i + 1]
    BY <2>1, InboxFacts
  <2>3. Head(inbox[c]) \notin unsent
    BY <2>2 DEF Untouched
  <2>4. \A s \in Servers : \A m \in dispatched'[s] : m \in dispatched[s] \/ m \notin unsent'
    BY <2>1, <2>3 DEF TypeOK
  <2>5. \A d \in Clients : \A i \in DOMAIN inbox'[d] :
            \E j \in DOMAIN inbox[d] : inbox'[d][i] = inbox[d][j]
    BY <2>1, <2>2 DEF TypeOK
  <2> QED BY <2>1, <2>4, <2>5, UntouchedKept
<1>4. ASSUME NEW c \in Clients, ReadMalformed(c) \/ BreakClient(c) PROVE Untouched'
  <2>1. /\ \A d \in Clients : \A i \in DOMAIN inbox'[d] :
              \E j \in DOMAIN inbox[d] : inbox'[d][i] = inbox[d][j]
        /\ UNCHANGED <<dispatched, unsent>>
    <3>1. CASE ReadMalformed(c)
      BY <3>1, MalformedFacts
    <3>2. CASE BreakClient(c)
      BY <3>2 DEF BreakClient, history, TypeOK
    <3> QED BY <1>4, <3>1, <3>2
  <2> QED BY <2>1, UntouchedKept
<1>5. ASSUME NEW c \in Clients, NEW x \in Messages, Submit(c, x) PROVE Untouched'
  <2>1. /\ unsent' = unsent \ {x} /\ dispatched' = dispatched
        /\ inbox' = [inbox EXCEPT ![c] = Append(@, x)]
        /\ inbox[c] \in Seq(Messages)
    BY <1>5 DEF Submit, TypeOK
  <2>2. \A i \in DOMAIN Append(inbox[c], x) :
            \/ i \in DOMAIN inbox[c] /\ Append(inbox[c], x)[i] = inbox[c][i]
            \/ i = Len(inbox[c]) + 1 /\ Append(inbox[c], x)[i] = x
    BY <2>1, AppendAt
  <2>3. \A d \in Clients : \A i \in DOMAIN inbox'[d] :
            \/ inbox'[d][i] = x
            \/ \E j \in DOMAIN inbox[d] : inbox'[d][i] = inbox[d][j]
    BY <2>1, <2>2 DEF TypeOK
  <2> QED BY <2>1, <2>3, UntouchedKept
<1>6. \/ UNCHANGED <<dispatched, unsent, inbox>>
      \/ \E e \in Ends : ReadForward(e)
      \/ \E c \in Clients : ReadMessage(c) \/ ReadMalformed(c) \/ BreakClient(c)
      \/ \E c \in Clients, x \in Messages : Submit(c, x)
  BY DEF Next, vars, history, StartLink, Accept, Break, Read, ReadLogin, DropForward,
         Connect, ReadClient, RemoveClient
<1> QED BY <1>1, <1>2, <1>3, <1>4, <1>5, <1>6

(* Submitting adds to the end of what the author has written.               *)
LEMMA SubmitFacts ==
    ASSUME TypeOK, NEW c \in Clients, NEW x \in Messages, Submit(c, x)
    PROVE  /\ x \in unsent /\ unsent' = unsent \ {x} /\ Author[x] = c
           /\ written' = [written EXCEPT ![c] = Append(@, x)]
           /\ \A d \in Clients \ {c} : written'[d] = written[d]
           /\ Len(written[c]) \in Nat
           /\ \A i \in DOMAIN written[c] : i \in Nat /\ i < Len(written[c]) + 1
           /\ \A i \in DOMAIN written[c] : i \in DOMAIN written'[c]
                                          /\ written'[c][i] = written[c][i]
           /\ \A i \in DOMAIN written'[c] :
                 \/ i \in DOMAIN written[c]
                 \/ i = Len(written[c]) + 1
           /\ Len(written[c]) + 1 \in DOMAIN written'[c]
           /\ written'[c][Len(written[c]) + 1] = x
<1>1. /\ x \in unsent /\ unsent' = unsent \ {x} /\ Author[x] = c
      /\ written' = [written EXCEPT ![c] = Append(@, x)]
  BY DEF Submit
<1>2. written[c] \in Seq(Messages) /\ written'[c] = Append(written[c], x)
  BY <1>1 DEF TypeOK
<1>3. \A d \in Clients \ {c} : written'[d] = written[d]
  BY <1>1 DEF TypeOK
<1> HIDE DEF Submit, TypeOK
<1> QED BY <1>1, <1>2, <1>3, AppendProperties

LEMMA RecordedStep ==
    ASSUME TypeOK, Recorded, [Next]_vars
    PROVE  Recorded'
<1>1. ASSUME UNCHANGED <<written, unsent>> PROVE Recorded'
  BY <1>1 DEF Recorded, Room!Written
<1>2. ASSUME NEW c \in Clients, NEW x \in Messages, Submit(c, x) PROVE Recorded'
  <2>1. ASSUME NEW d \in Clients, NEW i \in DOMAIN written'[d]
        PROVE  written'[d][i] \notin unsent'
    BY <1>2, SubmitFacts DEF Recorded
  <2>2. ASSUME NEW m \in Messages, m \notin unsent' PROVE Room!Written(m)'
    <3>1. Author[m] \in Clients
      BY MessageAssumption
    <3>2. CASE m = x
      BY <1>2, <3>2, SubmitFacts DEF Room!Written
    <3>3. CASE m # x
      <4>1. Room!Written(m)
        BY <1>2, <2>2, <3>3, SubmitFacts DEF Recorded
      <4> QED BY <1>2, <3>1, <4>1, SubmitFacts DEF Room!Written
    <3> QED BY <3>2, <3>3
  <2> QED BY <2>1, <2>2 DEF Recorded
<1>3. \/ UNCHANGED <<written, unsent>>
      \/ \E c \in Clients, x \in Messages : Submit(c, x)
  BY DEF Next, vars, history, StartLink, Accept, Break, Read, ReadLogin, ReadForward,
         DropForward, Connect, ReadClient, ReadMessage, ReadMalformed, BreakClient,
         RemoveClient
<1> QED BY <1>1, <1>2, <1>3

LEMMA AstrayGrows == ASSUME TypeOK, [Next]_vars PROVE astray \subseteq astray'
<1>1. astray' = astray \/ \E e \in Ends : Break(e)
  BY DEF Next, vars, StartLink, Accept, Read, ReadLogin, ReadForward, DropForward,
         Connect, Submit, ReadClient, ReadMessage, ReadMalformed, BreakClient,
         RemoveClient
<1> QED BY <1>1, BreakFacts

LEMMA AheadStep ==
    ASSUME IsTree, Origins, Origins', TreeInv, Untouched, [Next]_vars,
           NEW m \in Fresh, NEW n \in Fresh, m # n, Author[m] = Author[n], Ahead(m, n)
    PROVE  Ahead(m, n)' \/ (Ahead(n, m)' /\ m \in unsent')
<1>0. /\ TypeOK /\ TypeOK' /\ Carried
      /\ OneWay /\ Behind /\ Unread /\ OneOut /\ LeftBehind
  BY DEF Origins, TreeInv
<1>1. /\ Still(Ends) \in [Ends -> Nat] /\ Kept(queue, Still(Ends))
      /\ Still(Clients) \in [Clients -> Nat]
      /\ \A e \in Ends : Shift(Ends, e) \in [Ends -> Nat]
      /\ \A c \in Clients : Shift(Clients, c) \in [Clients -> Nat]
  BY <1>0, ShiftFacts DEF Still, Shift
<1>2. /\ \A d \in Ends : \A i \in DOMAIN queue[d] : i \in Nat /\ i >= 1 /\ i + 0 = i
      /\ \A c \in Clients : \A i \in DOMAIN inbox[c] : i \in Nat /\ i >= 1 /\ i + 0 = i
  BY <1>0 DEF TypeOK
<1>3. ASSUME inbox' = inbox PROVE Held(Still(Clients))
  BY <1>2, <1>3 DEF Held, Still
<1>4. ASSUME NEW sh \in [Ends -> Nat], Kept(queue', sh),
             NEW th \in [Clients -> Nat], Held(th),
             \A e \in Ends : state[e] # "free" => link'[e[1]] = link[e[1]],
             UNCHANGED <<received, dispatched, unsent>>
      PROVE  Ahead(m, n)'
  <2>1. m \in Messages /\ n \in Messages
    BY DEF Fresh
  <2> QED BY <1>0, <1>4, <2>1, AheadQuiet
<1>5. ASSUME NEW l \in Links, NEW k \in Conns, StartLink(l, k) PROVE Ahead(m, n)'
  <2>1. /\ link[k] = NoLink /\ link' = [link EXCEPT ![k] = l]
        /\ queue' = [queue EXCEPT ![In(k)] = <<Login>>]
        /\ UNCHANGED <<received, dispatched, unsent, inbox>>
    BY <1>5 DEF StartLink, history
  <2>2. \A e \in Ends : state[e] # "free" => link'[e[1]] = link[e[1]]
    BY <1>0, <2>1, EndFacts DEF TypeOK
  <2>3. Kept(queue', Still(Ends))
    <3> SUFFICES ASSUME NEW d \in Ends, NEW i \in DOMAIN queue'[d], queue'[d][i] # Login
                 PROVE  /\ i + Still(Ends)[d] \in DOMAIN queue[d]
                        /\ queue'[d][i] = queue[d][i + Still(Ends)[d]]
      BY DEF Kept
    <3>1. d # In(k)
      BY <1>0, <2>1 DEF TypeOK
    <3>2. queue'[d] = queue[d]
      BY <1>0, <2>1, <3>1 DEF TypeOK
    <3> QED BY <1>2, <3>2 DEF Still
  <2>4. Held(Still(Clients))
    BY <1>3, <2>1
  <2> QED BY <1>1, <1>4, <2>1, <2>2, <2>3, <2>4
<1>6. ASSUME NEW e \in Ends, Break(e) PROVE Ahead(m, n)'
  <2>1. /\ UNCHANGED <<link, received, dispatched, unsent, inbox>>
        /\ \A d \in Ends : \A i \in DOMAIN queue'[d] :
              i \in DOMAIN queue[d] /\ queue'[d][i] = queue[d][i]
    BY <1>0, <1>6, BreakFacts
  <2>2. Kept(queue', Still(Ends))
    BY <1>2, <2>1 DEF Kept, Still
  <2>3. Held(Still(Clients))
    BY <1>3, <2>1
  <2> QED BY <1>1, <1>4, <2>1, <2>2, <2>3
<1>7. ASSUME NEW e \in Ends, ReadLogin(e) \/ DropForward(e) PROVE Ahead(m, n)'
  <2>1. /\ Reading(e) /\ queue' = Popped(e)
        /\ UNCHANGED <<link, received, dispatched, unsent, inbox>>
    BY <1>7 DEF ReadLogin, DropForward, conns, history
  <2>2. Kept(queue', Shift(Ends, e))
    BY <1>0, <2>1, ShiftFacts
  <2>3. Held(Still(Clients))
    BY <1>3, <2>1
  <2> QED BY <1>1, <1>4, <2>1, <2>2, <2>3
<1>8. ASSUME NEW c \in Clients, ReadMalformed(c) PROVE Ahead(m, n)'
  <2>1. /\ \A d \in Clients \ {c} : inbox'[d] = inbox[d]
        /\ \A i \in DOMAIN inbox'[c] :
              /\ i \in Nat /\ i + 1 \in DOMAIN inbox[c]
              /\ inbox'[c][i] = inbox[c][i + 1]
        /\ UNCHANGED <<link, queue, received, dispatched, unsent>>
    BY <1>0, <1>8, MalformedFacts
  <2>2. Held(Shift(Clients, c))
    BY <1>2, <2>1 DEF Held, Shift
  <2>3. Kept(queue', Still(Ends))
    BY <1>1, <2>1
  <2> QED BY <1>1, <1>4, <2>1, <2>2, <2>3
<1>9. ASSUME NEW c \in Clients, BreakClient(c) PROVE Ahead(m, n)'
  <2>1. /\ inbox' = [inbox EXCEPT ![c] = <<>>]
        /\ UNCHANGED <<link, queue, received, dispatched, unsent>>
    BY <1>9 DEF BreakClient, conns, history
  <2>2. inbox'[c] = <<>> /\ \A d \in Clients \ {c} : inbox'[d] = inbox[d]
    BY <1>0, <2>1 DEF TypeOK
  <2>3. Held(Still(Clients))
    BY <1>2, <2>2 DEF Held, Still
  <2>4. Kept(queue', Still(Ends))
    BY <1>1, <2>1
  <2> QED BY <1>1, <1>4, <2>1, <2>3, <2>4
<1>10. ASSUME UNCHANGED <<link, queue, received, dispatched, unsent, inbox>>
       PROVE  Ahead(m, n)'
  BY <1>1, <1>3, <1>4, <1>10
<1>11. ASSUME NEW c \in Clients, NEW x \in Messages, Submit(c, x)
       PROVE  Ahead(m, n)' \/ (Ahead(n, m)' /\ m \in unsent')
  BY <1>0, <1>11, AheadSubmit
<1>12. ASSUME NEW e \in Ends, ReadForward(e) PROVE Ahead(m, n)'
  <2>1. /\ Reading(e) /\ Popped(e) \in [Ends -> Seq(Packets)]
        /\ ServerOf(e) \in Servers /\ Head(queue[e]) \in Messages
        /\ Taken(ServerOf(e), e, Head(queue[e]), Popped(e))
        /\ inbox' = inbox
    BY <1>12, ForwardTaken
  <2>2. Kept(Popped(e), Shift(Ends, e))
    BY <1>0, <2>1, ShiftFacts
  <2>3. /\ 1 \in DOMAIN queue[e] /\ Head(queue[e]) = queue[e][1]
        /\ \A d \in Ends : \A i \in DOMAIN Popped(e)[d] :
              \E k \in DOMAIN queue[d] : Popped(e)[d][i] = queue[d][k]
    <3>1. /\ 1 \in DOMAIN queue[e] /\ Head(queue[e]) = queue[e][1]
          /\ \A d \in Ends \ {e} : Popped(e)[d] = queue[d]
          /\ \A i \in DOMAIN Popped(e)[e] :
                /\ i + 1 \in DOMAIN queue[e] /\ Popped(e)[e][i] = queue[e][i + 1]
      BY <1>0, <2>1, PoppedFacts
    <3> QED BY <3>1
  <2>4. PICK x \in Messages, s \in Servers : x = Head(queue[e]) /\ s = ServerOf(e)
    BY <2>1
  <2>5. /\ Taken(s, e, x, Popped(e)) /\ queue[e][1] = x
    BY <2>1, <2>3, <2>4
  <2>6. ASSUME x = m PROVE n \notin dispatched[s]
    BY <2>3, <2>4, <2>5, <2>6 DEF Ahead, AheadOnTheWay
  <2>7. ASSUME x = n
        PROVE  /\ m \notin unsent
               /\ \A c \in Clients : \A i \in DOMAIN inbox'[c] : inbox'[c][i] # m
               /\ \A d \in Ends : \A i \in DOMAIN Popped(e)[d] :
                     Popped(e)[d][i] = m => ServerOf(d) # s
    <3>1. /\ n \in dispatched[ServerOf(Peer(e))] /\ ServerOf(Peer(e)) \in Servers
      BY <1>0, <2>3, <2>5, <2>7, UnderWay
    <3>2. m \notin unsent
      BY <3>1 DEF Untouched, Ahead
    <3>3. \A c \in Clients : \A i \in DOMAIN inbox[c] : inbox[c][i] # m
      BY <3>1 DEF Ahead, AheadWritten
    <3>4. ASSUME NEW d \in Ends, NEW k \in DOMAIN queue[d], queue[d][k] = m, ServerOf(d) = s
          PROVE  FALSE
      <4>1. ServerOf(e) = ServerOf(d) /\ queue[e][1] = n
        BY <2>4, <2>5, <2>7, <3>4
      <4>2. d = e /\ k < 1
        BY <2>3, <3>4, <4>1 DEF Ahead, AheadOnTheWay
      <4> QED BY <1>2, <3>4, <4>2
    <3> QED BY <2>1, <2>3, <3>2, <3>3, <3>4
  <2>8. Held(Still(Clients))
    BY <1>3, <2>1
  <2>9. /\ Shift(Ends, e) \in [Ends -> Nat] /\ Still(Clients) \in [Clients -> Nat]
        /\ Popped(e) \in [Ends -> Seq(Packets)]
    BY <1>1, <2>1
  <2> QED BY <1>0, <2>2, <2>5, <2>6, <2>7, <2>8, <2>9, AheadDispatch
<1>13. ASSUME NEW c \in Clients, ReadMessage(c) PROVE Ahead(m, n)'
  <2>1. /\ queue \in [Ends -> Seq(Packets)]
        /\ Home[c] \in Servers /\ Head(inbox[c]) \in Messages
        /\ Home[c] = Origin(Head(inbox[c]))
        /\ Taken(Home[c], NoEnd, Head(inbox[c]), queue)
    BY <1>13, MessageTaken
  <2>2. inbox' = [inbox EXCEPT ![c] = Tail(@)] /\ inbox[c] # <<>>
    BY <1>13 DEF ReadMessage
  <2>3. /\ 1 \in DOMAIN inbox[c] /\ Head(inbox[c]) = inbox[c][1]
        /\ \A d \in Clients \ {c} : inbox'[d] = inbox[d]
        /\ \A i \in DOMAIN inbox'[c] :
              /\ i \in Nat /\ i + 1 \in DOMAIN inbox[c] /\ i + 1 # 1
              /\ inbox'[c][i] = inbox[c][i + 1]
    BY <1>0, <2>2, InboxFacts DEF TypeOK
  <2>4. Held(Shift(Clients, c))
    BY <1>2, <2>3 DEF Held, Shift
  <2>5. PICK x \in Messages, s \in Servers : x = Head(inbox[c]) /\ s = Home[c]
    BY <2>1
  <2>6. Taken(s, NoEnd, x, queue) /\ inbox[c][1] = x /\ s = Origin(x)
    BY <2>1, <2>3, <2>5
  <2>7. ASSUME x = m PROVE n \notin dispatched[s]
    BY <2>3, <2>6, <2>7 DEF Ahead, AheadWritten
  <2>8. ASSUME x = n
        PROVE  /\ m \notin unsent
               /\ \A d \in Clients : \A i \in DOMAIN inbox'[d] : inbox'[d][i] # m
               /\ \A d \in Ends : \A i \in DOMAIN queue[d] : queue[d][i] = m => ServerOf(d) # s
    <3>1. n \notin unsent
      BY <1>0, <2>3, <2>6, <2>8 DEF Unread
    <3>2. m \notin unsent
      BY <3>1 DEF Ahead
    <3>3. ASSUME NEW d \in Clients, NEW i \in DOMAIN inbox[d], inbox[d][i] = m PROVE FALSE
      <4>1. d = c
        <5>1. Author[m] = d
          BY <1>0, <3>3 DEF Carried
        <5>2. Author[n] = c
          BY <1>0, <2>3, <2>6, <2>8 DEF Carried
        <5> QED BY <5>1, <5>2
      <4>2. i < 1
        BY <2>3, <2>6, <2>8, <3>3, <4>1 DEF Ahead, AheadWritten
      <4> QED BY <1>2, <3>3, <4>2
    <3>4. \A d \in Clients : \A i \in DOMAIN inbox'[d] : inbox'[d][i] # m
      BY <2>3, <3>3
    <3>5. s = Origin(m)
      BY <2>6, <2>8, SameWay
    <3> QED BY <1>0, <3>2, <3>4, <3>5, NotHome
  <2>9. Shift(Clients, c) \in [Clients -> Nat]
    BY <1>1
  <2> QED BY <1>0, <1>1, <2>1, <2>4, <2>6, <2>7, <2>8, <2>9, AheadDispatch
<1>14. \/ UNCHANGED <<link, queue, received, dispatched, unsent, inbox>>
       \/ \E l \in Links, k \in Conns : StartLink(l, k)
       \/ \E e \in Ends : Break(e) \/ ReadLogin(e) \/ DropForward(e) \/ ReadForward(e)
       \/ \E c \in Clients : ReadMessage(c) \/ ReadMalformed(c) \/ BreakClient(c)
       \/ \E c \in Clients, x \in Messages : Submit(c, x)
  BY DEF Next, vars, conns, history, Accept, Read, Connect, ReadClient, RemoveClient
<1> QED BY <1>5, <1>6, <1>7, <1>8, <1>9, <1>10, <1>11, <1>12, <1>13, <1>14

(* What was submitted first stays first; what is submitted now is last.     *)
LEMMA SoonerStep ==
    ASSUME TypeOK, Recorded, [Next]_vars, NEW m \in Messages, NEW n \in Messages,
           m # n, Author[m] = Author[n], m \in unsent => n \in unsent,
           n \in unsent \/ Room!Sooner(m, n), m \in unsent' => n \in unsent'
    PROVE  n \in unsent' \/ Room!Sooner(m, n)'
<1>1. ASSUME UNCHANGED <<written, unsent>> PROVE n \in unsent' \/ Room!Sooner(m, n)'
  BY <1>1 DEF Room!Sooner
<1>2. ASSUME NEW c \in Clients, NEW x \in Messages, Submit(c, x)
      PROVE  n \in unsent' \/ Room!Sooner(m, n)'
  <2>1. /\ x \in unsent /\ unsent' = unsent \ {x} /\ Author[x] = c
        /\ \A d \in Clients \ {c} : written'[d] = written[d]
        /\ \A i \in DOMAIN written[c] : i \in DOMAIN written'[c]
                                       /\ written'[c][i] = written[c][i]
    BY <1>2, SubmitFacts
  <2>2. Author[m] \in Clients
    BY MessageAssumption
  <2>3. CASE Room!Sooner(m, n)
    <3>1. PICK i, j \in DOMAIN written[Author[m]] :
              i < j /\ written[Author[m]][i] = m /\ written[Author[m]][j] = n
      BY <2>3 DEF Room!Sooner
    <3>2. /\ i \in DOMAIN written'[Author[m]] /\ j \in DOMAIN written'[Author[m]]
          /\ written'[Author[m]][i] = m /\ written'[Author[m]][j] = n
      BY <2>1, <2>2, <3>1
    <3> QED BY <3>1, <3>2 DEF Room!Sooner
  <2>4. CASE n \in unsent /\ n = x
    <3>1. m \notin unsent
      BY <2>1, <2>4
    <3>2. PICK i \in DOMAIN written[c] : written[c][i] = m
      BY <2>1, <2>4, <3>1 DEF Recorded, Room!Written
    <3>3. /\ i < Len(written[c]) + 1
          /\ i \in DOMAIN written'[c] /\ written'[c][i] = m
          /\ Len(written[c]) + 1 \in DOMAIN written'[c]
          /\ written'[c][Len(written[c]) + 1] = n
      BY <1>2, <2>4, <3>2, SubmitFacts
    <3> QED BY <2>1, <2>4, <3>3 DEF Room!Sooner
  <2> QED BY <2>1, <2>3, <2>4
<1>3. \/ UNCHANGED <<written, unsent>>
      \/ \E c \in Clients, x \in Messages : Submit(c, x)
  BY DEF Next, vars, history, StartLink, Accept, Break, Read, ReadLogin, ReadForward,
         DropForward, Connect, ReadClient, ReadMessage, ReadMalformed, BreakClient,
         RemoveClient
<1> QED BY <1>1, <1>2, <1>3

LEMMA FirstStep ==
    ASSUME IsTree, Origins, Origins', TreeInv, Untouched, Recorded, [Next]_vars,
           NEW m \in Fresh, NEW n \in Fresh, m # n, Author[m] = Author[n], First(m, n)
    PROVE  First(m, n)' \/ First(n, m)'
<1>1. Ahead(m, n)' \/ (Ahead(n, m)' /\ m \in unsent')
  BY AheadStep DEF First
<1>2. CASE Ahead(m, n)'
  <2>1. /\ TypeOK /\ m \in Messages /\ n \in Messages
        /\ m \in unsent => n \in unsent
        /\ m \in unsent' => n \in unsent'
        /\ n \in unsent \/ Room!Sooner(m, n)
    BY <1>2 DEF First, Ahead, Fresh, Origins
  <2>2. n \in unsent' \/ Room!Sooner(m, n)'
    BY <2>1, SoonerStep
  <2> QED BY <1>2, <2>2 DEF First
<1>3. CASE Ahead(n, m)' /\ m \in unsent'
  BY <1>3 DEF First
<1> QED BY <1>1, <1>2, <1>3

LEMMA OrderedStep ==
    ASSUME IsTree, Origins, Origins', TreeInv, Untouched, Recorded, Ordered, [Next]_vars
    PROVE  Ordered'
<1>1. astray \subseteq astray' /\ Fresh' \subseteq Fresh
  BY AstrayGrows DEF Origins, Fresh
<1>2. ASSUME NEW m \in Fresh', NEW n \in Fresh', m # n, Author[m] = Author[n]
      PROVE  First(m, n)' \/ First(n, m)'
  <2>1. m \in Fresh /\ n \in Fresh
    BY <1>1
  <2>2. First(m, n) \/ First(n, m)
    BY <1>2, <2>1 DEF Ordered
  <2>3. CASE First(m, n)
    BY <1>2, <2>1, <2>3, FirstStep
  <2>4. CASE First(n, m)
    BY <1>2, <2>1, <2>4, FirstStep
  <2> QED BY <2>2, <2>3, <2>4
<1> QED BY <1>2 DEF Ordered

(* The inductive invariant of the order, on a tree and otherwise.           *)
OrderInv == Origins /\ Untouched /\ Recorded /\ (IsTree => TreeInv /\ Ordered)

LEMMA OrderInvariant == Spec => []OrderInv
<1>1. Init => OrderInv
  <2> SUFFICES ASSUME Init PROVE OrderInv
    OBVIOUS
  <2>1. Origins
    BY TypeInit, CarriedInit DEF Origins, Init, DispatchedJoined
  <2>2. Untouched /\ Recorded
    BY DEF Init, Untouched, Recorded
  <2>3. Ordered
    BY DEF Init, Ordered, First, Ahead, AheadOnTheWay, AheadWritten, Before, Fresh
  <2> QED BY <2>1, <2>2, <2>3, TreeInit DEF OrderInv
<1>2. OrderInv /\ [Next]_vars => OrderInv'
  <2> SUFFICES ASSUME OrderInv, [Next]_vars PROVE OrderInv'
    OBVIOUS
  <2>1. Origins'
    BY TypeStep, CarriedStep, DispatchedStep DEF Origins, OrderInv
  <2>2. Untouched' /\ Recorded'
    BY UntouchedStep, RecordedStep DEF Origins, OrderInv
  <2>3. ASSUME IsTree PROVE TreeInv' /\ Ordered'
    BY <2>1, <2>3, TreeInvStep, OrderedStep DEF OrderInv
  <2>4. IsTree' = IsTree
    BY DEF IsTree
  <2> QED BY <2>1, <2>2, <2>3, <2>4 DEF OrderInv
<1> QED BY <1>1, <1>2, PTL DEF Spec

(* On a tree of servers all clients see the messages of one author in the   *)
(* same order, however the links fail, except for messages that were left   *)
(* under way on a connection its maker lost: each server has one connection *)
(* to each neighbour in use, and ichat_dispatch adds to the end of a queue. *)
THEOREM InOrderOnTrees == Spec => []InOrder
<1>1. OrderInv => InOrder
  <2> SUFFICES ASSUME OrderInv, IsTree, NEW c \in Clients, NEW d \in Clients, NEW m \in Fresh,
                      NEW n \in Fresh, Author[m] = Author[n], Before(c, m, n), Before(d, n, m)
               PROVE  FALSE
    BY DEF InOrder, Fresh
  <2>0. Origins /\ TreeInv /\ Ordered
    BY DEF OrderInv
  <2>1. CASE m = n
    <3>1. \A i, j \in DOMAIN received[c] :
              i # j /\ received[c][i] = received[c][j] => received[c][i] \in astray
      BY <2>0 DEF TreeInv, ReceivedOnce
    <3>2. PICK i, j \in DOMAIN received[c] :
              i < j /\ received[c][i] = m /\ received[c][j] = m
      BY <2>1 DEF Before
    <3>3. i # j
      BY <2>0, <3>2 DEF Origins, TypeOK
    <3> QED BY <3>1, <3>2, <3>3 DEF Fresh
  <2>2. CASE m # n
    <3>1. Ahead(m, n) \/ Ahead(n, m)
      BY <2>0, <2>2 DEF Ordered, First
    <3> QED BY <3>1 DEF Ahead
  <2> QED BY <2>1, <2>2
<1> QED BY <1>1, OrderInvariant, PTL

----------------------------------------------------------------------------
(* One room: ChatNet implements ChatRoom.                                   *)

(* A client's signature is that of a message the client has written, and no *)
(* server dispatches a malformed message.                                   *)
Signed(c, sig) == \E i \in DOMAIN written[c] : From[written[c][i]] = sig

Claimed == \A c \in Clients : client[c].sig = NoSig \/ Signed(c, client[c].sig)

WellFormed == \A s \in Servers : dispatched[s] \cap Malformed = {}

LEMMA HeadSigned ==
    ASSUME TypeOK, Carried, Untouched, Recorded, NEW c \in Clients, inbox[c] # <<>>
    PROVE  Signed(c, From[Head(inbox[c])])
<1>1. /\ 1 \in DOMAIN inbox[c] /\ Head(inbox[c]) = inbox[c][1]
      /\ Head(inbox[c]) \in Messages
  BY InboxFacts
<1>2. Author[Head(inbox[c])] = c /\ Head(inbox[c]) \notin unsent
  BY <1>1 DEF Carried, Untouched
<1>3. \E i \in DOMAIN written[c] : written[c][i] = Head(inbox[c])
  BY <1>1, <1>2 DEF Recorded, Room!Written
<1> QED BY <1>3 DEF Signed

LEMMA ClaimedStep ==
    ASSUME TypeOK, Carried, Untouched, Recorded, Claimed, [Next]_vars
    PROVE  Claimed'
<1>1. ASSUME NEW c \in Clients, NEW sig, Signed(c, sig) PROVE Signed(c, sig)'
  <2>1. CASE written' = written
    BY <1>1, <2>1 DEF Signed
  <2>2. ASSUME NEW d \in Clients, NEW x \in Messages, Submit(d, x) PROVE Signed(c, sig)'
    BY <1>1, <2>2, SubmitFacts DEF Signed
  <2>3. written' = written \/ \E d \in Clients, x \in Messages : Submit(d, x)
    BY DEF Next, vars, history, StartLink, Accept, Break, Read, ReadLogin, ReadForward,
           DropForward, Connect, ReadClient, ReadMessage, ReadMalformed, BreakClient,
           RemoveClient
  <2> QED BY <2>1, <2>2, <2>3
<1>2. ASSUME \A c \in Clients : client'[c].sig \in {NoSig, client[c].sig} PROVE Claimed'
  BY <1>1, <1>2 DEF Claimed
<1>3. ASSUME NEW c \in Clients,
             Connect(c) \/ RemoveClient(c) \/ BreakClient(c) \/ ReadMalformed(c)
      PROVE  Claimed'
  <2>1. client \in ChatType
    BY DEF TypeOK, ChatType
  <2>2. \/ client' = [client EXCEPT ![c] = [state |-> "open", sig |-> NoSig]]
        \/ client' = [client EXCEPT ![c] = [state |-> "away", sig |-> NoSig]]
        \/ client' = [client EXCEPT ![c].state = "corrupt"]
    BY <1>3 DEF Connect, RemoveClient, BreakClient, ReadMalformed
  <2>3. \A d \in Clients : client'[d].sig \in {NoSig, client[d].sig}
    BY <2>1, <2>2 DEF ChatType
  <2> QED BY <1>2, <2>3
<1>4. ASSUME NEW c \in Clients, ReadMessage(c) PROVE Claimed'
  <2>1. /\ inbox[c] # <<>> /\ written' = written
        /\ client' = [client EXCEPT ![c].sig = From[Head(inbox[c])]]
    BY <1>4 DEF ReadMessage
  <2>2. Signed(c, From[Head(inbox[c])])
    BY <2>1, HeadSigned
  <2>3. client'[c].sig = From[Head(inbox[c])]
    BY <2>1 DEF TypeOK
  <2>4. \A d \in Clients \ {c} : client'[d] = client[d]
    BY <2>1 DEF TypeOK
  <2> QED BY <1>1, <2>2, <2>3, <2>4 DEF Claimed
<1>5. \/ client' = client
      \/ \E c \in Clients : ReadMessage(c)
      \/ \E c \in Clients :
            Connect(c) \/ RemoveClient(c) \/ BreakClient(c) \/ ReadMalformed(c)
  BY DEF Next, vars, StartLink, Accept, Break, Read, ReadLogin, ReadForward,
         DropForward, Submit, ReadClient
<1> QED BY <1>2, <1>3, <1>4, <1>5

LEMMA ForwardWellFormed ==
    ASSUME TypeOK, Carried, WellFormed, NEW e \in Ends, ReadForward(e)
    PROVE  Head(queue[e]) \notin Malformed
BY HeadDispatched DEF WellFormed

LEMMA WellFormedStep ==
    ASSUME TypeOK, Carried, WellFormed, [Next]_vars
    PROVE  WellFormed'
<1>1. ASSUME NEW e \in Ends, ReadForward(e) PROVE WellFormed'
  <2>1. dispatched' = [dispatched EXCEPT ![ServerOf(e)] = @ \cup {Head(queue[e])}]
    BY <1>1 DEF ReadForward, Dispatch
  <2>2. Head(queue[e]) \notin Malformed
    BY <1>1, ForwardWellFormed
  <2> QED BY <2>1, <2>2 DEF WellFormed, TypeOK
<1>2. ASSUME NEW c \in Clients, ReadMessage(c) PROVE WellFormed'
  <2>1. /\ Head(inbox[c]) \notin Malformed
        /\ dispatched' = [dispatched EXCEPT ![Home[c]] = @ \cup {Head(inbox[c])}]
    BY <1>2 DEF ReadMessage, Dispatch
  <2> QED BY <2>1 DEF WellFormed, TypeOK
<1>3. \/ dispatched' = dispatched
      \/ \E e \in Ends : ReadForward(e)
      \/ \E c \in Clients : ReadMessage(c)
  BY DEF Next, vars, history, StartLink, Accept, Break, Read, ReadLogin, DropForward,
         Connect, Submit, ReadClient, ReadMalformed, BreakClient, RemoveClient
<1> QED BY <1>1, <1>2, <1>3 DEF WellFormed

(* A dispatch is a delivery to the clients of the server, which have not    *)
(* had the message nor a later one of its author.                           *)
LEMMA DeliverStep ==
    ASSUME OrderInv, NEW s \in Servers, NEW origin, NEW m \in Messages, NEW chat, NEW rest,
           Dispatch(s, origin, m, chat, rest), m \notin unsent, m \notin Malformed,
           \A c \in Clients : chat[c].sig = NoSig \/ Signed(c, chat[c].sig),
           m \in Fresh =>
               /\ m \notin dispatched[s]
               /\ \A n \in Fresh : Author[n] = Author[m] /\ n \in dispatched[s]
                                   => Room!Sooner(n, m),
           UNCHANGED <<written, astray>>
    PROVE  Room!Next
<1> DEFINE R == {c \in Clients : c \in LocalReceivers(s, m, chat) /\ chat[c].state = "open"}
<1>1. R \in SUBSET Clients /\ \A c \in R : c \in Clients /\ Home[c] = s
  BY DEF LocalReceivers, InList
<1>2. received' = [c \in Clients |-> IF c \in R THEN Append(received[c], m) ELSE received[c]]
  BY DEF Dispatch
<1> HIDE DEF R
<1>3. Room!Written(m)
  BY DEF OrderInv, Recorded
<1>4. ASSUME m \notin astray, NEW c \in R PROVE Room!InTurn(c, m)
  <2>1. /\ m \in Fresh /\ c \in Clients /\ Home[c] = s
    BY <1>1, <1>4 DEF Fresh
  <2>2. \A n : Room!Got(c, n) => n \in dispatched[s]
    BY <2>1 DEF OrderInv, Origins, Carried, Room!Got
  <2>3. ~Room!Got(c, m)
    BY <2>1, <2>2
  <2>4. \A n \in Messages \ astray :
            Author[n] = Author[m] /\ Room!Got(c, n) => Room!Sooner(n, m)
    BY <2>1, <2>2 DEF Fresh
  <2> QED BY <2>3, <2>4 DEF Room!InTurn
<1>5. ASSUME NEW c \in R PROVE Room!IsFor(c, m)
  <2>1. c \in Clients /\ (To[m] = Everyone \/ chat[c].sig = To[m])
    BY <1>5 DEF R, LocalReceivers, InList
  <2>2. To[m] = Everyone \/ To[m] # NoSig
    BY MessageAssumption
  <2> QED BY <2>1, <2>2 DEF Room!IsFor, Signed
<1>6. Room!Deliver(R, m)
  BY <1>2, <1>3, <1>4, <1>5 DEF Room!Deliver
<1> QED BY <1>1, <1>6 DEF Room!Next

(* A message a server takes from a connection or from its author.           *)
LEMMA ForwardInTurn ==
    ASSUME IsTree, OrderInv, NEW e \in Ends, ReadForward(e),
           NEW s \in Servers, s = ServerOf(e), NEW m \in Messages, m = Head(queue[e])
    PROVE  /\ m \notin unsent
           /\ m \in Fresh =>
                 /\ m \notin dispatched[s]
                 /\ \A n \in Fresh : Author[n] = Author[m] /\ n \in dispatched[s]
                                     => Room!Sooner(n, m)
<1>0. TypeOK /\ Carried /\ Origins /\ TreeInv /\ Ordered /\ Untouched
  BY DEF OrderInv, Origins
<1>1. Reading(e)
  BY DEF ReadForward
<1>2. 1 \in DOMAIN queue[e] /\ queue[e][1] = m
  BY <1>0, <1>1, PoppedFacts
<1>3. m \notin unsent
  BY <1>0, HeadDispatched DEF Untouched
<1>4. ASSUME m \in Fresh PROVE m \notin dispatched[s]
  BY <1>0, <1>4, ForwardTaken DEF Taken
<1>5. ASSUME m \in Fresh, NEW n \in Fresh, Author[n] = Author[m], n \in dispatched[s]
      PROVE  Room!Sooner(n, m)
  <2>1. n # m
    BY <1>4, <1>5
  <2>2. ~Ahead(m, n)
    BY <1>2, <1>5 DEF Ahead, AheadOnTheWay
  <2>3. First(n, m)
    BY <1>0, <1>5, <2>1, <2>2 DEF Ordered, First
  <2> QED BY <1>3, <2>3 DEF First
<1> QED BY <1>3, <1>4, <1>5

LEMMA MessageInTurn ==
    ASSUME IsTree, OrderInv, NEW c \in Clients, ReadMessage(c),
           NEW s \in Servers, s = Home[c], NEW m \in Messages, m = Head(inbox[c])
    PROVE  /\ m \notin unsent
           /\ m \in Fresh =>
                 /\ m \notin dispatched[s]
                 /\ \A n \in Fresh : Author[n] = Author[m] /\ n \in dispatched[s]
                                     => Room!Sooner(n, m)
<1>0. TypeOK /\ Origins /\ TreeInv /\ Ordered /\ Untouched
  BY DEF OrderInv, Origins
<1>1. inbox[c] # <<>>
  BY DEF ReadMessage
<1>2. 1 \in DOMAIN inbox[c] /\ inbox[c][1] = m
  BY <1>0, <1>1, InboxFacts
<1>3. m \notin unsent
  BY <1>0, <1>2 DEF Untouched
<1>4. ASSUME m \in Fresh PROVE m \notin dispatched[s]
  BY <1>0, <1>4, MessageTaken DEF Taken
<1>5. ASSUME m \in Fresh, NEW n \in Fresh, Author[n] = Author[m], n \in dispatched[s]
      PROVE  Room!Sooner(n, m)
  <2>1. n # m
    BY <1>4, <1>5
  <2>2. ~Ahead(m, n)
    BY <1>2, <1>5 DEF Ahead, AheadWritten
  <2>3. First(n, m)
    BY <1>0, <1>5, <2>1, <2>2 DEF Ordered, First
  <2> QED BY <1>3, <2>3 DEF First
<1> QED BY <1>3, <1>4, <1>5

(* What an end leaves behind when it fails was written by somebody.         *)
LEMMA BreakLeaves ==
    ASSUME OrderInv, NEW e \in Ends, Break(e)
    PROVE  Room!Next
<1>0. TypeOK /\ Carried /\ Untouched /\ Recorded
  BY DEF OrderInv, Origins
<1>1. /\ UNCHANGED <<written, received>> /\ astray \subseteq astray'
      /\ astray' \in SUBSET Messages
  BY <1>0, BreakFacts
<1>2. Peer(e) \in Ends /\ queue[Peer(e)] \in Seq(Packets)
  BY <1>0, EndFacts DEF TypeOK
<1>3. PICK n \in 0 .. Len(queue[Peer(e)]) :
          LET left == SubSeq(queue[Peer(e)], 1, n)
          IN  astray' = IF e[2] = "out"
                        THEN astray \cup ({left[i] : i \in 1 .. n} \ {Login})
                        ELSE astray
  BY DEF Break
<1>4. \A i \in 1 .. n : /\ i \in DOMAIN queue[Peer(e)]
                        /\ SubSeq(queue[Peer(e)], 1, n)[i] = queue[Peer(e)][i]
  BY <1>2, SubSeqProperties
<1>5. ASSUME NEW m \in astray' \ astray PROVE Room!Written(m)
  <2>1. PICK i \in DOMAIN queue[Peer(e)] : queue[Peer(e)][i] = m /\ m # Login
    BY <1>3, <1>4, <1>5
  <2>2. state[Peer(e)] # "free"
    BY <1>0, <1>2, <2>1 DEF TypeOK
  <2>3. ServerOf(Peer(Peer(e))) \in Servers
    BY <1>0, <1>2, <2>2, ServerFacts
  <2>4. m \in dispatched[ServerOf(Peer(Peer(e)))]
    BY <1>0, <1>2, <2>1 DEF Carried, QueuedFrom
  <2>5. m \in Messages /\ m \notin unsent
    BY <1>0, <1>1, <1>5, <2>3, <2>4 DEF Untouched
  <2> QED BY <1>0, <2>5 DEF Recorded
<1>6. astray' = astray \cup (astray' \ astray)
  BY <1>1
<1>7. Room!GoAstray(astray' \ astray)
  BY <1>1, <1>5, <1>6 DEF Room!GoAstray
<1> QED BY <1>1, <1>7 DEF Room!Next

LEMMA RoomStep ==
    ASSUME IsTree, OrderInv, Claimed, WellFormed, [Next]_vars
    PROVE  Room!Next \/ UNCHANGED <<written, received, astray>>
<1>0. TypeOK /\ Carried /\ Origins /\ TreeInv
  BY DEF OrderInv, Origins
<1>1. ASSUME NEW c \in Clients, NEW m \in Messages, Submit(c, m) PROVE Room!Next
  <2>1. /\ m \in unsent /\ Author[m] = c
        /\ written' = [written EXCEPT ![Author[m]] = Append(@, m)]
        /\ UNCHANGED <<received, astray>>
    BY <1>1 DEF Submit
  <2>2. ~Room!Written(m)
    BY <1>1, <2>1 DEF OrderInv, Recorded, Room!Written
  <2>3. Room!Write(m)
    BY <2>1, <2>2 DEF Room!Write
  <2> QED BY <2>3 DEF Room!Next
<1>2. ASSUME NEW e \in Ends, ReadForward(e) PROVE Room!Next
  <2>1. PICK s \in Servers, m \in Messages : s = ServerOf(e) /\ m = Head(queue[e])
    BY <1>0, <1>2, ForwardTaken
  <2>2. /\ Dispatch(s, e, m, client, Popped(e))
        /\ UNCHANGED <<written, astray>>
    BY <1>2, <2>1 DEF ReadForward
  <2>3. m \notin Malformed
    BY <1>0, <1>2, <2>1, ForwardWellFormed
  <2>4. \A c \in Clients : client[c].sig = NoSig \/ Signed(c, client[c].sig)
    BY DEF Claimed
  <2> QED BY <1>2, <2>1, <2>2, <2>3, <2>4, ForwardInTurn, DeliverStep
<1>3. ASSUME NEW c \in Clients, ReadMessage(c) PROVE Room!Next
  <2>1. PICK s \in Servers, m \in Messages : s = Home[c] /\ m = Head(inbox[c])
    BY <1>0, <1>3, MessageTaken
  <2>2. /\ inbox[c] # <<>> /\ m \notin Malformed
        /\ client' = [client EXCEPT ![c].sig = From[m]]
        /\ Dispatch(s, NoEnd, m, client', queue)
        /\ UNCHANGED <<written, astray>>
    BY <1>3, <2>1 DEF ReadMessage
  <2>3. \A d \in Clients : client'[d].sig = NoSig \/ Signed(d, client'[d].sig)
    <3>1. Claimed'
      BY ClaimedStep DEF OrderInv, Origins
    <3> QED BY <2>2, <3>1 DEF Claimed, Signed
  <2>4. PICK chat : chat = client'
    OBVIOUS
  <2>5. /\ Dispatch(s, NoEnd, m, chat, queue)
        /\ \A d \in Clients : chat[d].sig = NoSig \/ Signed(d, chat[d].sig)
    BY <2>2, <2>3, <2>4
  <2> QED BY <1>3, <2>1, <2>2, <2>5, MessageInTurn, DeliverStep
<1>4. \/ UNCHANGED <<written, received, astray>>
      \/ \E e \in Ends : Break(e) \/ ReadForward(e)
      \/ \E c \in Clients : ReadMessage(c)
      \/ \E c \in Clients, m \in Messages : Submit(c, m)
  BY DEF Next, vars, history, StartLink, Accept, Read, ReadLogin, DropForward, Connect,
         ReadClient, ReadMalformed, BreakClient, RemoveClient
<1> QED BY <1>1, <1>2, <1>3, <1>4, BreakLeaves

(* On a tree of servers the servers implement ChatRoom: each author's       *)
(* messages get to each client in the order he wrote them and at most once, *)
(* however clients and links come and go, save those left behind on an old  *)
(* connection, and a private message gets only to those who have used the   *)
(* signature it is for.  A server asks nobody and numbers nothing to get    *)
(* there: ichat_dispatch at each hop and the order of each queue suffice.   *)
THEOREM ServersAreOneRoom == Spec => ServesRoom
<1>1. Init => Room!Init
  BY DEF Init, Room!Init
<1>2. Init => Claimed /\ WellFormed
  BY DEF Init, Claimed, WellFormed
<1>3. OrderInv /\ Claimed /\ WellFormed /\ [Next]_vars => Claimed' /\ WellFormed'
  BY ClaimedStep, WellFormedStep DEF OrderInv, Origins
<1>4. OrderInv /\ Claimed /\ WellFormed /\ [Next]_vars => [IsTree => Room!Next]_(Room!vars)
  BY RoomStep DEF Room!vars
<1> QED BY <1>1, <1>2, <1>3, <1>4, OrderInvariant, PTL DEF Spec, ServesRoom
=============================================================================
