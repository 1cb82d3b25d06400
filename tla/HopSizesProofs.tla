---------------------------- MODULE HopSizesProofs ----------------------------
(***************************************************************************)
(* Proofs about HopSizes, for every row of servers, every name and both    *)
(* limits.  The inductive invariant says of a queued message what its      *)
(* direction tells: how many servers it can have passed, and that its size *)
(* satisfies the assertion.                                                *)
(***************************************************************************)
EXTENDS HopSizes, FiniteSetTheorems, TLAPS

\* The most a message grows by at a server.
Step == NumberLen(MaxMessage) + 1

Grown(m) == m.size - m.first \in 0..(m.hops * Step)

\* How many servers lie behind a direction.
Behind(e) == IF e[2] = e[1] + 1 THEN e[1] - 1 ELSE Last - e[1]

Travels(e, m) ==
    /\ m \in Message
    /\ Grown(m)
    /\ Assertion(m.size)
    /\ m.hops <= Behind(e)

TravelInv == \A e \in Ends : \A i \in 1..Len(queue[e]) : Travels(e, queue[e][i])

GotInv == \A s \in Servers : \A m \in got[s] : Grown(m) /\ m.hops < Last

AbortInv ==
    \A a \in aborted : /\ a.message.hops = 0
                       /\ a.message.size = a.message.first
                       /\ a.message.size \in {MinMessage, MaxMessage}

DropInv ==
    \A m \in dropped : /\ Grown(m)
                       /\ m.hops <= Last - 2
                       /\ \E s \in Servers : PacketSize(s, m.size) > MaxMessage

Inv == TypeOK /\ TravelInv /\ GotInv /\ AbortInv /\ DropInv

-----------------------------------------------------------------------------
(* Sizes *)

\* A number has a digit, and a larger one not fewer.
LEMMA NumberLenFacts ==
    /\ \A n \in Nat : NumberLen(n) \in Nat \ {0}
    /\ \A n, k \in Nat : n <= k => NumberLen(n) <= NumberLen(k)
<1> DEFINE Below(n) == {p \in Powers : p <= n}
<1>1. \A n : IsFiniteSet(Below(n)) /\ Cardinality(Below(n)) \in Nat
  BY SizesAssumption, FS_Subset, FS_CardinalityType
<1>2. ASSUME NEW n \in Nat, NEW k \in Nat, n <= k
      PROVE  Cardinality(Below(n)) <= Cardinality(Below(k))
  <2>1. Below(n) \subseteq Below(k)
    <3>1. \A p \in Powers : p \in Nat /\ (p <= n => p <= k)
      BY <1>2, SizesAssumption
    <3> QED BY <3>1
  <2>2. Below(n) \in SUBSET Below(k) /\ IsFiniteSet(Below(k))
    BY <1>1, <2>1
  <2> HIDE DEF Below
  <2> QED BY <2>2, FS_Subset
<1>3. \A n : NumberLen(n) = 1 + Cardinality(Below(n))
  BY DEF NumberLen
<1> HIDE DEF Below
<1> QED BY <1>1, <1>2, <1>3

LEMMA StepType == Step \in Nat
<1>1. MaxMessage \in Nat
  BY SizesAssumption
<1> QED BY <1>1, NumberLenFacts DEF Step

\* More servers, more growth.
LEMMA Growth ==
    ASSUME NEW i \in Nat, NEW j \in Nat, i <= j
    PROVE  /\ i * Step \in Nat
           /\ i * Step <= j * Step
           /\ (i + 1) * Step = i * Step + Step
<1>1. \A k \in Nat : /\ i * k \in Nat
                     /\ i * k <= j * k
                     /\ (i + 1) * k = i * k + k
  OBVIOUS
<1> HIDE DEF Step
<1> QED BY <1>1, StepType

\* A message that a server passes on satisfies the assertion there, and has grown
\* by no more than the number of the largest one.
LEMMA Passed ==
    ASSUME NEW e \in Ends, NEW m, Travels(e, m),
           Acceptable(PacketSize(e[1], m.size))
    PROVE  LET n == [m EXCEPT !.size = Stripped(m.size), !.hops = m.hops + 1]
           IN  /\ n \in Message
               /\ Grown(n)
               /\ Assertion(n.size)
               /\ n.hops = m.hops + 1
<1> DEFINE n == [m EXCEPT !.size = Stripped(m.size), !.hops = m.hops + 1]
           d == NumberLen(m.size)
<1>1. /\ m \in Message
      /\ m.size \in Nat /\ m.first \in Nat /\ m.hops \in Nat
      /\ m.size <= MaxMessage /\ m.size > MinMessage
      /\ MinMessage \in Nat /\ MaxMessage \in Nat
  BY SizesAssumption DEF Travels, Message, Assertion
<1>2. NameLen[e[1]] \in Nat
  BY SizesAssumption DEF Ends, Servers
<1>3. d \in Nat \ {0} /\ d + 1 <= Step
  BY <1>1, NumberLenFacts DEF Step
<1>4. Stripped(m.size) = m.size + d + 1
  BY <1>1, <1>3 DEF Stripped, DataSize
<1>5. m.size + d + 1 < MaxMessage
  BY <1>1, <1>2, <1>3 DEF Acceptable, PacketSize, CmdSize
<1>6. /\ n.size = m.size + d + 1
      /\ n.first = m.first
      /\ n.hops = m.hops + 1
  BY <1>1, <1>4 DEF Message
<1>7. n \in Message
  <2>1. m.size + d + 1 \in MinMessage..MaxMessage /\ m.hops + 1 \in Nat
    BY <1>1, <1>3, <1>5
  <2> QED BY <1>1, <1>4, <2>1 DEF Message
<1>8. Grown(n)
  <2>1. (m.hops + 1) * Step = m.hops * Step + Step /\ m.hops * Step \in Nat
    BY <1>1, Growth
  <2>2. m.size - m.first \in 0..(m.hops * Step)
    BY DEF Travels, Grown
  <2>3. n.size - n.first \in 0..((m.hops + 1) * Step)
    BY <1>1, <1>3, <1>6, <2>1, <2>2, StepType
  <2> QED BY <1>6, <2>3 DEF Grown
<1>9. Assertion(n.size)
  BY <1>1, <1>3, <1>5, <1>6 DEF Assertion
<1> QED BY <1>6, <1>7, <1>8, <1>9

-----------------------------------------------------------------------------
(* Steps *)

LEMMA InitInv == Init => Inv
<1> SUFFICES ASSUME Init PROVE Inv
  OBVIOUS
<1>1. <<>> \in Seq(Message) /\ Len(<<>>) = 0
  OBVIOUS
<1>2. TypeOK
  BY <1>1, SizesAssumption DEF Init, TypeOK
<1>3. TravelInv
  BY <1>1 DEF Init, TravelInv
<1> QED BY <1>2, <1>3 DEF Init, Inv, GotInv, AbortInv, DropInv

\* A queue that loses its first message, or gets one more.
LEMMA QueueSteps ==
    ASSUME NEW e \in Ends, NEW q \in Seq(Message),
           \A i \in 1..Len(q) : Travels(e, q[i])
    PROVE  /\ q # <<>> => /\ Tail(q) \in Seq(Message)
                          /\ \A i \in 1..Len(Tail(q)) : Travels(e, Tail(q)[i])
                          /\ Travels(e, Head(q))
           /\ \A m : Travels(e, m) =>
                 /\ Append(q, m) \in Seq(Message)
                 /\ \A i \in 1..Len(Append(q, m)) : Travels(e, Append(q, m)[i])
<1>1. ASSUME q # <<>>
      PROVE  /\ Tail(q) \in Seq(Message)
             /\ \A i \in 1..Len(Tail(q)) : Travels(e, Tail(q)[i])
             /\ Travels(e, Head(q))
  <2>1. /\ Tail(q) \in Seq(Message)
        /\ Len(Tail(q)) = Len(q) - 1
        /\ \A i \in 1..Len(Tail(q)) : Tail(q)[i] = q[i + 1] /\ i + 1 \in 1..Len(q)
        /\ Head(q) = q[1] /\ 1 \in 1..Len(q)
    BY <1>1
  <2> QED BY <2>1
<1>2. ASSUME NEW m, Travels(e, m)
      PROVE  /\ Append(q, m) \in Seq(Message)
             /\ \A i \in 1..Len(Append(q, m)) : Travels(e, Append(q, m)[i])
  <2>1. m \in Message
    BY <1>2 DEF Travels
  <2>2. /\ Append(q, m) \in Seq(Message)
        /\ \A i \in 1..Len(Append(q, m)) :
              Append(q, m)[i] = m \/ (i \in 1..Len(q) /\ Append(q, m)[i] = q[i])
    BY <2>1
  <2> QED BY <1>2, <2>2
<1> QED BY <1>1, <1>2

\* Server s may dispatch message m of `from': it may go on in every direction it
\* is sent in.
MayDispatch(s, from, m) ==
    /\ m \in Message
    /\ Grown(m)
    /\ m.hops < Last
    /\ Assertion(m.size) \/ /\ m.hops = 0
                            /\ m.size = m.first
                            /\ m.size \in {MinMessage, MaxMessage}
    /\ \A e \in Ends : e[1] = s /\ e[2] # from => m.hops <= Behind(e)

AllTravel(q) ==
    /\ q \in [Ends -> Seq(Message)]
    /\ \A e \in Ends : \A i \in 1..Len(q[e]) : Travels(e, q[e][i])

LEMMA DispatchInv ==
    ASSUME Inv,
           NEW s \in Servers, NEW from, NEW m, NEW rest,
           MayDispatch(s, from, m),
           AllTravel(rest),
           Dispatch(s, from, m, rest),
           written' \in 0..MaxMessages,
           dropped' = dropped
    PROVE  Inv'
<1> USE DEF Inv, MayDispatch, AllTravel
<1>1. CASE Assertion(m.size)
  <2>1. /\ got' = [got EXCEPT ![s] = @ \cup {m}]
        /\ queue' = [e \in Ends |-> IF e \in Targets(s, from) THEN Append(rest[e], m)
                                    ELSE rest[e]]
        /\ UNCHANGED <<up, aborted>>
    BY <1>1 DEF Dispatch
  <2>2. ASSUME NEW e \in Ends
        PROVE  /\ queue'[e] \in Seq(Message)
               /\ \A i \in 1..Len(queue'[e]) : Travels(e, queue'[e][i])
    <3>1. CASE e \in Targets(s, from)
      <4>1. Travels(e, m)
        BY <1>1, <3>1 DEF Targets, Travels
      <4>2. queue'[e] = Append(rest[e], m)
        BY <2>1, <3>1
      <4> QED BY <4>1, <4>2, QueueSteps
    <3>2. CASE e \notin Targets(s, from)
      <4>1. queue'[e] = rest[e]
        BY <2>1, <3>2
      <4> QED BY <4>1
    <3> QED BY <3>1, <3>2
  <2>3. TypeOK'
    BY <2>1, <2>2 DEF TypeOK
  <2>4. TravelInv'
    BY <2>2 DEF TravelInv, Travels, Grown, Assertion, Behind, Step
  <2>5. GotInv'
    BY <2>1 DEF GotInv, Grown, Step, TypeOK
  <2>6. AbortInv' /\ DropInv'
    BY <2>1 DEF AbortInv, DropInv, Grown, Step
  <2> QED BY <2>3, <2>4, <2>5, <2>6
<1>2. CASE ~Assertion(m.size)
  <2>1. /\ aborted' = aborted \cup {[at |-> s, message |-> m]}
        /\ up' = up \ ReadBy(s)
        /\ queue' = [e \in Ends |-> IF e \in ReadBy(s) THEN <<>> ELSE rest[e]]
        /\ got' = got
    BY <1>2 DEF Dispatch
  <2>2. ASSUME NEW e \in Ends
        PROVE  /\ queue'[e] \in Seq(Message)
               /\ \A i \in 1..Len(queue'[e]) : Travels(e, queue'[e][i])
    BY <2>1
  <2>3. TypeOK'
    BY <2>1, <2>2 DEF TypeOK
  <2>4. TravelInv'
    BY <2>2 DEF TravelInv, Travels, Grown, Assertion, Behind, Step
  <2>5. AbortInv'
    BY <1>2, <2>1 DEF AbortInv
  <2>6. GotInv' /\ DropInv'
    BY <2>1 DEF GotInv, DropInv, Grown, Step
  <2> QED BY <2>3, <2>4, <2>5, <2>6
<1> QED BY <1>1, <1>2

LEMMA WriteInv ==
    ASSUME Inv, NEW s \in Servers, NEW n \in Sizes, Write(s, n)
    PROVE  Inv'
<1>1. /\ written \in 0..MaxMessages
      /\ queue \in [Ends -> Seq(Message)]
  BY DEF Inv, TypeOK
<1>2. written' \in 0..MaxMessages /\ dropped' = dropped
  BY <1>1, SizesAssumption DEF Write
<1>3. CASE Acceptable(n)
  <2> DEFINE m == [size |-> n, first |-> n, hops |-> 0]
  <2>1. Dispatch(s, s, m, queue)
    BY <1>3 DEF Write
  <2>2. m \in Message
    BY <1>3, SizesAssumption DEF Acceptable, Message
  <2>3. n \in Nat /\ 0 * Step = 0
    BY SizesAssumption, StepType
  <2>4. Grown(m)
    BY <2>3 DEF Grown
  <2>5. Assertion(m.size) \/ m.size \in {MinMessage, MaxMessage}
    BY <1>3, <2>3, SizesAssumption DEF Acceptable, Assertion
  <2>6. m.hops < Last
    BY SizesAssumption
  <2>7. \A e \in Ends : m.hops <= Behind(e)
    BY SizesAssumption DEF Ends, Servers, Behind
  <2> HIDE DEF m
  <2>8. m.hops = 0 /\ m.size = m.first
    BY DEF m
  <2>9. MayDispatch(s, s, m)
    BY <2>2, <2>4, <2>5, <2>6, <2>7, <2>8 DEF MayDispatch
  <2>10. AllTravel(queue)
    BY <1>1 DEF AllTravel, Inv, TravelInv
  <2> QED BY <1>2, <2>1, <2>9, <2>10, DispatchInv
<1>4. CASE ~Acceptable(n)
  BY <1>2, <1>4 DEF Write, Inv, TypeOK, TravelInv, Travels, GotInv, AbortInv, DropInv,
                    Grown, Step, Assertion, Behind
<1> QED BY <1>3, <1>4

LEMMA ForwardInv ==
    ASSUME Inv, NEW e \in Ends, Forward(e)
    PROVE  Inv'
<1> DEFINE p == Head(queue[e])
           m == [p EXCEPT !.size = Stripped(p.size), !.hops = p.hops + 1]
           rest == [queue EXCEPT ![e] = Tail(@)]
<1>1. queue \in [Ends -> Seq(Message)] /\ queue[e] # <<>>
  BY DEF Inv, TypeOK, Forward
<1>2. /\ Travels(e, p)
      /\ Tail(queue[e]) \in Seq(Message)
      /\ \A i \in 1..Len(Tail(queue[e])) : Travels(e, Tail(queue[e])[i])
  BY <1>1, QueueSteps DEF Inv, TravelInv
<1>3. AllTravel(rest)
  BY <1>1, <1>2 DEF AllTravel, Inv, TravelInv
<1>4. Dispatch(e[2], e[1], m, rest)
  BY DEF Forward
<1>5. /\ m \in Message
      /\ Grown(m)
      /\ Assertion(m.size)
      /\ m.hops = p.hops + 1
  BY <1>2, Passed DEF Forward, Arriving
<1>6. /\ e[1] \in 1..Last /\ e[2] \in 1..Last
      /\ e[2] = e[1] + 1 \/ e[1] = e[2] + 1
      /\ Last \in Nat
      /\ p.hops \in Nat
      /\ p.hops <= Behind(e)
  BY <1>2, SizesAssumption DEF Ends, Servers, Travels, Message
<1>7. m.hops < Last
  BY <1>5, <1>6 DEF Behind
<1>8. ASSUME NEW f \in Ends, f[1] = e[2], f[2] # e[1]
      PROVE  m.hops <= Behind(f)
  <2>1. /\ f[2] \in 1..Last
        /\ f[2] = f[1] + 1 \/ f[1] = f[2] + 1
    BY DEF Ends, Servers
  <2> QED BY <1>5, <1>6, <1>8, <2>1 DEF Behind
<1>9. written' \in 0..MaxMessages /\ dropped' = dropped
  BY DEF Forward, Inv, TypeOK
<1> HIDE DEF p, m, rest
<1>10. MayDispatch(e[2], e[1], m)
  BY <1>5, <1>7, <1>8 DEF MayDispatch
<1> QED BY <1>3, <1>4, <1>6, <1>9, <1>10, DispatchInv DEF Servers

LEMMA LinkInv ==
    ASSUME Inv, NEW e \in Ends, BadPacket(e) \/ Lose(e) \/ Reconnect(e)
    PROVE  Inv'
<1> USE DEF Inv
<1>1. /\ queue \in [Ends -> Seq(Message)]
      /\ up \subseteq Ends
  BY DEF TypeOK
<1>2. Back(e) \in Ends
  BY DEF Back, Ends
<1>3. queue' = queue \/ queue' = [queue EXCEPT ![e] = <<>>]
  BY DEF BadPacket, Lose, Reconnect
<1>4. ASSUME NEW f \in Ends
      PROVE  queue'[f] \in Seq(Message) /\ \A i \in 1..Len(queue'[f]) : Travels(f, queue'[f][i])
  <2>1. queue'[f] = queue[f] \/ queue'[f] = <<>>
    BY <1>1, <1>3
  <2>2. \A i \in 1..Len(queue[f]) : Travels(f, queue[f][i])
    BY DEF TravelInv
  <2>3. <<>> \in Seq(Message) /\ 1..Len(<<>>) = {}
    OBVIOUS
  <2> QED BY <1>1, <2>1, <2>2, <2>3
<1>5. queue' \in [Ends -> Seq(Message)]
  <2>1. <<>> \in Seq(Message)
    OBVIOUS
  <2> QED BY <1>1, <1>3, <2>1
<1>6. TravelInv'
  BY <1>4 DEF TravelInv, Travels, Grown, Assertion, Behind, Step
<1>7. up' \subseteq Ends
  BY <1>1, <1>2 DEF BadPacket, Lose, Reconnect
<1>8. /\ written' = written /\ aborted' = aborted /\ got' = got
  BY DEF BadPacket, Lose, Reconnect
<1>9. GotInv' /\ AbortInv'
  BY <1>8 DEF GotInv, AbortInv, Grown, Step
<1>10. dropped' \subseteq Message /\ DropInv'
  <2>1. CASE Lose(e) \/ Reconnect(e)
    BY <2>1 DEF Lose, Reconnect, TypeOK, DropInv, Grown, Step
  <2>2. CASE BadPacket(e)
    <3> DEFINE m == Head(queue[e])
    <3>1. Travels(e, m)
      BY <1>1, <2>2, QueueSteps DEF BadPacket, TravelInv
    <3>2. m \in Message /\ Grown(m) /\ Assertion(m.size) /\ m.hops <= Behind(e)
      BY <3>1 DEF Travels
    <3>3. dropped' = dropped \cup {m} /\ ~Acceptable(PacketSize(e[1], m.size))
      BY <2>2 DEF BadPacket, Arriving
    <3>4. e[1] \in Servers /\ NameLen[e[1]] \in Nat /\ Last \in Nat
      BY SizesAssumption DEF Ends, Servers
    <3>5. m.size \in Nat /\ m.hops \in Nat /\ MinMessage \in Nat /\ MaxMessage \in Nat
      BY <3>2, SizesAssumption DEF Message
    <3>6. NumberLen(m.size) \in Nat
      BY <3>5, NumberLenFacts
    <3>7. PacketSize(e[1], m.size) > MaxMessage
      BY <3>2, <3>3, <3>4, <3>5, <3>6 DEF Acceptable, Assertion, PacketSize, CmdSize
    <3>8. m.hops <= Last - 2
      <4>1. e[1] \in 1..Last /\ e[2] \in 1..Last /\ (e[2] = e[1] + 1 \/ e[1] = e[2] + 1)
        BY DEF Ends, Servers
      <4> QED BY <3>2, <3>4, <3>5, <4>1 DEF Behind
    <3> HIDE DEF m
    <3>9. dropped' \subseteq Message
      BY <3>2, <3>3 DEF TypeOK
    <3>10. DropInv'
      BY <3>2, <3>3, <3>4, <3>7, <3>8 DEF DropInv, Grown, Step
    <3> QED BY <3>9, <3>10
  <2> QED BY <2>1, <2>2
<1> QED BY <1>5, <1>6, <1>7, <1>8, <1>9, <1>10 DEF TypeOK

LEMMA NextInv == Inv /\ [Next]_vars => Inv'
<1> SUFFICES ASSUME Inv, [Next]_vars PROVE Inv'
  OBVIOUS
<1>1. CASE \E s \in Servers, n \in Sizes : Write(s, n)
  BY <1>1, WriteInv
<1>2. CASE \E e \in Ends : Forward(e) \/ BadPacket(e) \/ Lose(e) \/ Reconnect(e)
  BY <1>2, ForwardInv, LinkInv
<1>3. CASE UNCHANGED vars
  BY <1>3 DEF vars, Inv, TypeOK, TravelInv, Travels, GotInv, AbortInv, DropInv, Grown,
              Step, Assertion, Behind
<1> QED BY <1>1, <1>2, <1>3 DEF Next

THEOREM AlwaysInv == Spec => []Inv
  BY InitInv, NextInv, PTL DEF Spec

-----------------------------------------------------------------------------
(* The properties *)

\* Nothing is dispatched or queued that is smaller or larger than a message.
THEOREM TypeCorrect == Spec => []TypeOK
<1>1. Inv => TypeOK
  BY DEF Inv
<1> QED BY <1>1, AlwaysInv, PTL

\* The assertion of add_message fails only for what a user has just written, at
\* one of the two sizes between which the reader and the assertion differ.
THEOREM OnlyLimitsAbort == Spec => []AbortsAtLimits
<1>1. Inv => AbortsAtLimits
  BY DEF Inv, AbortInv, AbortsAtLimits
<1> QED BY <1>1, AlwaysInv, PTL

\* What Inv says of a message, wherever it is.
LEMMA KnownFacts ==
    ASSUME Inv, NEW m \in Known
    PROVE  Grown(m) /\ m.hops < Last
<1> USE DEF Inv
<1>0. Last \in Nat \ {0}
  BY SizesAssumption
<1>1. CASE \E s \in Servers : m \in got[s]
  BY <1>1 DEF GotInv
<1>2. CASE \E e \in Ends : \E i \in 1..Len(queue[e]) : m = queue[e][i]
  <2>1. PICK e \in Ends : Travels(e, m)
    BY <1>2 DEF TravelInv
  <2>2. /\ e[1] \in 1..Last /\ e[2] \in 1..Last
        /\ e[2] = e[1] + 1 \/ e[1] = e[2] + 1
    BY DEF Ends, Servers
  <2>3. Grown(m) /\ m.hops \in Nat /\ m.hops <= Behind(e)
    BY <2>1 DEF Travels, Message
  <2> QED BY <1>0, <2>2, <2>3 DEF Behind
<1>3. CASE m \in dropped
  <2>1. m.hops \in Nat
    BY <1>3 DEF TypeOK, Message
  <2> QED BY <1>0, <1>3, <2>1 DEF DropInv
<1>4. CASE \E a \in aborted : m = a.message
  <2>1. m.hops = 0 /\ m.size = m.first /\ m.size \in Nat
    BY <1>4, SizesAssumption DEF AbortInv, TypeOK, Message
  <2>2. 0 * Step = 0
    BY StepType
  <2>3. m.hops * Step = 0 /\ m.size - m.first = 0 /\ m.hops < Last
    BY <1>0, <2>1, <2>2
  <2> QED BY <2>3 DEF Grown
<1>5. m \in UNION {got[s] : s \in Servers} => \E s \in Servers : m \in got[s]
  OBVIOUS
<1>6. m \in UNION {{queue[e][i] : i \in 1..Len(queue[e])} : e \in Ends}
         => \E e \in Ends : \E i \in 1..Len(queue[e]) : m = queue[e][i]
  OBVIOUS
<1>7. m \in {a.message : a \in aborted} => \E a \in aborted : m = a.message
  OBVIOUS
<1> QED BY <1>1, <1>2, <1>3, <1>4, <1>5, <1>6, <1>7 DEF Known

\* A message loses nothing on its way, and what it grows by is bounded by the
\* number of servers it has passed.
THEOREM BoundedGrowth == Spec => []GrowthBounded
<1>1. Inv => GrowthBounded
  BY KnownFacts DEF GrowthBounded, Grown, Step
<1> QED BY <1>1, AlwaysInv, PTL

\* No message comes back the way it went.
THEOREM BoundedHops == Spec => []HopsBounded
<1>1. Inv => HopsBounded
  BY KnownFacts DEF HopsBounded
<1> QED BY <1>1, AlwaysInv, PTL

\* A message that leaves room for what the servers put in front of it and for its
\* own growth costs no link.
THEOREM SmallOnesPass == Spec => []SmallMessagesPass
<1>1. ASSUME Inv, NEW m \in dropped
      PROVE  \E s \in Servers : m.first > MaxMessage - Overhead(s) - (Last - 2) * Step
  <2>1. /\ m.size \in Nat /\ m.first \in Nat /\ m.hops \in Nat
        /\ m.size <= MaxMessage
        /\ MaxMessage \in Nat
        /\ Last \in Nat
    BY <1>1, SizesAssumption DEF Inv, TypeOK, Message
  <2>2. PICK s \in Servers : PacketSize(s, m.size) > MaxMessage
    BY <1>1 DEF Inv, DropInv
  <2>3. NameLen[s] \in Nat
    BY SizesAssumption DEF Servers
  <2>4. /\ NumberLen(m.size) \in Nat /\ NumberLen(MaxMessage) \in Nat
        /\ NumberLen(m.size) <= NumberLen(MaxMessage)
    BY <2>1, NumberLenFacts
  <2>5. CmdSize(s, m.size) <= Overhead(s) /\ CmdSize(s, m.size) \in Nat /\ Overhead(s) \in Nat
    BY <2>3, <2>4 DEF CmdSize, Overhead
  <2>6. m.hops <= Last - 2 /\ Last - 2 \in Nat
    BY <1>1, <2>1 DEF Inv, DropInv
  <2>7. /\ m.hops * Step <= (Last - 2) * Step
        /\ m.hops * Step \in Nat
        /\ (Last - 2) * Step \in Nat
    BY <2>1, <2>6, Growth
  <2>8. m.size - m.first <= m.hops * Step
    BY <1>1, <2>1, <2>7 DEF Inv, DropInv, Grown
  <2> QED BY <2>1, <2>2, <2>5, <2>7, <2>8 DEF PacketSize
<1>2. Inv => SmallMessagesPass
  BY <1>1 DEF SmallMessagesPass, Step
<1> QED BY <1>2, AlwaysInv, PTL
=============================================================================
