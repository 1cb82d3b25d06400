------------------------- MODULE BlockingWritesProofs -------------------------
(***************************************************************************)
(* Proofs about BlockingWrites, for every network, every size of a socket  *)
(* and every number of messages.                                           *)
(***************************************************************************)
EXTENDS BlockingWrites, FiniteSetTheorems, NaturalsInduction, TLAPS

\* What is queued for a connection, or has been sent and not read, was queued.
Accounted ==
    \A e \in Outputs : queued[e] >= out[e] + sock[e]

Inv ==
    /\ TypeOK
    /\ WritesWhatIsQueued
    /\ Accounted

\* The connections of the network.
LEMMA NetworkFacts ==
    /\ Room \in Nat \ {0} /\ IovMax \in Nat \ {0} /\ MaxMessages \in Nat
    /\ Nobody \notin Servers \cup Clients
    /\ Servers \cap Clients = {}
    /\ Outputs \subseteq Edges
    /\ \A s \in Servers : \A n \in Peers(s) : /\ <<s, n>> \in Outputs
                                              /\ <<n, s>> \in Edges
                                              /\ n \in Servers \cup Clients
    /\ \A c \in Clients : /\ <<c, Home[c]>> \in Edges
                          /\ <<c, Home[c]>> \notin Outputs
                          /\ <<Home[c], c>> \in Outputs
<1>1. /\ Room \in Nat \ {0} /\ IovMax \in Nat \ {0} /\ MaxMessages \in Nat
      /\ Nobody \notin Servers \cup Clients
      /\ Servers \cap Clients = {}
      /\ Home \in [Clients -> Servers]
  BY NodesAssumption, BoundsAssumption
<1>2. Outputs \subseteq Edges
  BY DEF Edges
<1>3. \A s \in Servers : Peers(s) \subseteq Servers \cup Clients
  BY DEF Peers
<1>4. ASSUME NEW s \in Servers, NEW n \in Peers(s)
      PROVE  <<s, n>> \in Outputs
  BY <1>3, <1>4 DEF Outputs
<1>5. ASSUME NEW s \in Servers, NEW n \in Peers(s)
      PROVE  <<n, s>> \in Edges
  <2>1. CASE n \in Servers
    <3>1. {s, n} \in Links
      BY <1>1, <2>1 DEF Peers
    <3>2. {n, s} = {s, n}
      OBVIOUS
    <3>3. s \in Peers(n)
      BY <3>1, <3>2 DEF Peers
    <3> QED BY <2>1, <3>3, <1>2, <1>4
  <2>2. CASE n \in Clients
    <3>1. Home[n] = s
      BY <1>1, <2>2 DEF Peers
    <3> QED BY <2>2, <3>1 DEF Edges
  <2> QED BY <1>3, <2>1, <2>2
<1>6. ASSUME NEW c \in Clients
      PROVE  /\ <<c, Home[c]>> \in Edges
             /\ <<c, Home[c]>> \notin Outputs
             /\ <<Home[c], c>> \in Outputs
  <2>1. c \in Peers(Home[c]) /\ Home[c] \in Servers
    BY <1>1 DEF Peers
  <2> QED BY <1>1, <1>4, <2>1 DEF Edges, Outputs
<1> QED BY <1>1, <1>2, <1>3, <1>4, <1>5, <1>6

LEMMA InitInv == Init => Inv
  BY NetworkFacts DEF Init, Inv, TypeOK, WritesWhatIsQueued, Accounted, Polling

\* The chat client programs.
LEMMA ClientsInv ==
    ASSUME Inv, NEW c \in Clients, Say(c) \/ Hear(c)
    PROVE  Inv'
<1>1. CASE Say(c)
  <2>1. /\ sock' = [sock EXCEPT ![<<c, Home[c]>>] = @ + 1]
        /\ sock[<<c, Home[c]>>] < Room /\ said < MaxMessages /\ said' = said + 1
        /\ out' = out /\ writing' = writing /\ left' = left /\ queued' = queued
    BY <1>1 DEF Say
  <2>2. TypeOK'
    <3>1. sock[<<c, Home[c]>>] + 1 \in 0..Room /\ said + 1 \in 0..MaxMessages
      <4>1. <<c, Home[c]>> \in Edges /\ Room \in Nat /\ MaxMessages \in Nat
        BY NetworkFacts
      <4>2. sock[<<c, Home[c]>>] \in 0..Room /\ said \in 0..MaxMessages
        BY <4>1 DEF Inv, TypeOK
      <4> QED BY <2>1, <4>1, <4>2
    <3>2. sock' \in [Edges -> 0..Room]
      BY <2>1, <3>1 DEF Inv, TypeOK
    <3>3. said' \in 0..MaxMessages
      BY <2>1, <3>1
    <3>4. /\ out' \in [Outputs -> Nat] /\ queued' \in [Outputs -> Nat]
          /\ writing' \in [Servers -> Servers \cup Clients \cup {Nobody}]
          /\ left' \in [Servers -> Nat]
      BY <2>1, Zenon DEF Inv, TypeOK
    <3> QED BY <3>2, <3>3, <3>4, Zenon DEF TypeOK
  <2>3. Accounted'
    <3> SUFFICES ASSUME NEW e \in Outputs
                 PROVE  queued[e] >= out[e] + sock'[e]
      BY <2>1 DEF Accounted
    <3>1. /\ queued[e] \in Nat /\ out[e] \in Nat /\ sock[e] \in Nat /\ e \in Edges
          /\ queued[e] >= out[e] + sock[e]
      BY NetworkFacts DEF Inv, TypeOK, Accounted
    <3>2. sock'[e] \in Nat /\ sock'[e] = sock[e]
      <4>1. sock'[e] = IF e = <<c, Home[c]>> THEN sock[<<c, Home[c]>>] + 1 ELSE sock[e]
        BY <2>1, <3>1 DEF Inv, TypeOK
      <4>2. e # <<c, Home[c]>>
        BY NetworkFacts
      <4> QED BY <2>1, <3>1, <4>1, <4>2
    <3> QED BY <3>1, <3>2
  <2>4. WritesWhatIsQueued'
    BY <2>1 DEF Inv, WritesWhatIsQueued, Polling
  <2> QED BY <2>2, <2>3, <2>4 DEF Inv
<1>2. CASE Hear(c)
  <2>1. /\ sock' = [sock EXCEPT ![<<Home[c], c>>] = @ - 1]
        /\ sock[<<Home[c], c>>] > 0 /\ said' = said
        /\ out' = out /\ writing' = writing /\ left' = left /\ queued' = queued
    BY <1>2 DEF Hear
  <2>2. TypeOK'
    <3>1. sock[<<Home[c], c>>] - 1 \in 0..Room
      <4>1. <<Home[c], c>> \in Edges /\ Room \in Nat /\ MaxMessages \in Nat
        BY NetworkFacts
      <4>2. sock[<<Home[c], c>>] \in 0..Room /\ said \in 0..MaxMessages
        BY <4>1 DEF Inv, TypeOK
      <4> QED BY <2>1, <4>1, <4>2
    <3>2. sock' \in [Edges -> 0..Room]
      BY <2>1, <3>1 DEF Inv, TypeOK
    <3> QED BY <2>1, <3>2, Zenon DEF Inv, TypeOK
  <2>3. Accounted'
    <3> SUFFICES ASSUME NEW e \in Outputs
                 PROVE  queued[e] >= out[e] + sock'[e]
      BY <2>1 DEF Accounted
    <3>1. /\ queued[e] \in Nat /\ out[e] \in Nat /\ sock[e] \in Nat /\ e \in Edges
          /\ queued[e] >= out[e] + sock[e]
      BY NetworkFacts DEF Inv, TypeOK, Accounted
    <3>2. sock'[e] \in Nat /\ sock'[e] <= sock[e]
      <4>1. sock'[e] = IF e = <<Home[c], c>> THEN sock[<<Home[c], c>>] - 1 ELSE sock[e]
        BY <2>1, <3>1 DEF Inv, TypeOK
      <4> QED BY <2>1, <3>1, <4>1
    <3> QED BY <3>1, <3>2
  <2>4. WritesWhatIsQueued'
    BY <2>1 DEF Inv, WritesWhatIsQueued, Polling
  <2> QED BY <2>2, <2>3, <2>4 DEF Inv
<1> QED BY <1>1, <1>2

\* A message is read, and queued for its receivers.
LEMMA ReadInv ==
    ASSUME Inv, NEW s \in Servers, NEW n \in Peers(s), Read(s, n)
    PROVE  Inv'
<1> DEFINE R == Receivers(s, n)
<1>1. /\ sock' = [sock EXCEPT ![<<n, s>>] = @ - 1]
      /\ sock[<<n, s>>] > 0 /\ said' = said
      /\ out' = [e \in Outputs |-> IF e \in R THEN out[e] + 1 ELSE out[e]]
      /\ queued' = [e \in Outputs |-> IF e \in R THEN queued[e] + 1 ELSE queued[e]]
      /\ writing' = writing /\ left' = left
  BY DEF Read
<1> HIDE DEF R
<1>2. TypeOK'
  <2>1. sock[<<n, s>>] - 1 \in 0..Room
    <3>1. <<n, s>> \in Edges /\ Room \in Nat /\ MaxMessages \in Nat
      BY NetworkFacts
    <3>2. sock[<<n, s>>] \in 0..Room /\ said \in 0..MaxMessages
      BY <3>1 DEF Inv, TypeOK
    <3> QED BY <1>1, <3>1, <3>2
  <2>2. sock' \in [Edges -> 0..Room]
    BY <1>1, <2>1 DEF Inv, TypeOK
  <2>3. out' \in [Outputs -> Nat] /\ queued' \in [Outputs -> Nat]
    BY <1>1 DEF Inv, TypeOK
  <2> QED BY <1>1, <2>2, <2>3 DEF Inv, TypeOK
<1>3. Accounted'
  <2> SUFFICES ASSUME NEW e \in Outputs
               PROVE  queued'[e] >= out'[e] + sock'[e]
    BY DEF Accounted
  <2>1. /\ queued[e] \in Nat /\ out[e] \in Nat /\ sock[e] \in Nat /\ e \in Edges
        /\ queued[e] >= out[e] + sock[e]
    BY NetworkFacts DEF Inv, TypeOK, Accounted
  <2>2. sock'[e] \in Nat /\ sock'[e] <= sock[e]
    BY <1>1, <2>1, NetworkFacts DEF Inv, TypeOK
  <2> QED BY <1>1, <2>1, <2>2
<1>4. WritesWhatIsQueued'
  <2> SUFFICES ASSUME NEW t \in Servers
               PROVE  IF writing[t] = Nobody THEN left[t] = 0
                      ELSE writing[t] \in Peers(t) /\ left[t] \in 1..out'[<<t, writing[t]>>]
    BY <1>1 DEF WritesWhatIsQueued, Polling
  <2>1. IF writing[t] = Nobody THEN left[t] = 0
        ELSE writing[t] \in Peers(t) /\ left[t] \in 1..out[<<t, writing[t]>>]
    BY DEF Inv, WritesWhatIsQueued, Polling
  <2>2. CASE writing[t] # Nobody
    <3>1. <<t, writing[t]>> \in Outputs
      BY <2>1, <2>2, NetworkFacts
    <3>2. out[<<t, writing[t]>>] \in Nat
      BY <3>1 DEF Inv, TypeOK
    <3> QED BY <1>1, <2>1, <2>2, <3>1, <3>2
  <2> QED BY <2>1, <2>2
<1> QED BY <1>2, <1>3, <1>4 DEF Inv

\* The write handler gathers the head of the queue.
LEMMA WriteInv ==
    ASSUME Inv, NEW s \in Servers, NEW n \in Peers(s), Write(s, n)
    PROVE  Inv'
<1>1. /\ writing' = [writing EXCEPT ![s] = n]
      /\ left' = [left EXCEPT ![s] = Gathered(<<s, n>>)]
      /\ sock' = sock /\ out' = out /\ said' = said /\ queued' = queued
      /\ out[<<s, n>>] > 0
  BY DEF Write, Writable
<1>2. <<s, n>> \in Outputs /\ n \in Servers \cup Clients /\ n # Nobody
  BY NetworkFacts
<1>3. Gathered(<<s, n>>) \in 1..out[<<s, n>>]
  BY <1>1, <1>2, NetworkFacts DEF Inv, TypeOK, Gathered
<1>4. TypeOK'
  BY <1>1, <1>2, <1>3 DEF Inv, TypeOK
<1>5. Accounted'
  BY <1>1 DEF Inv, Accounted
<1>6. WritesWhatIsQueued'
  BY <1>1, <1>2, <1>3 DEF Inv, TypeOK, WritesWhatIsQueued, Polling
<1> QED BY <1>4, <1>5, <1>6 DEF Inv

\* The kernel places a message.
LEMMA PlaceInv ==
    ASSUME Inv, NEW s \in Servers, Place(s)
    PROVE  Inv'
<1> DEFINE e == <<s, writing[s]>>
<1>1. writing[s] # Nobody /\ writing[s] \in Peers(s) /\ left[s] \in 1..out[e]
  BY DEF Inv, WritesWhatIsQueued, Place, Polling
<1>2. e \in Outputs /\ e \in Edges
  BY <1>1, NetworkFacts
<1>3. /\ sock[e] < Room
      /\ sock' = [sock EXCEPT ![e] = @ + 1]
      /\ out' = [out EXCEPT ![e] = @ - 1]
      /\ left' = [left EXCEPT ![s] = @ - 1]
      /\ writing' = [writing EXCEPT ![s] = IF left[s] = 1 THEN Nobody ELSE @]
      /\ said' = said /\ queued' = queued
  BY DEF Place, HasRoom
<1>4. /\ out[e] \in Nat /\ sock[e] \in Nat /\ left[s] \in Nat /\ Room \in Nat
  BY <1>2, NetworkFacts DEF Inv, TypeOK
<1> HIDE DEF e
<1>5. TypeOK'
  <2>1. sock' \in [Edges -> 0..Room] /\ out' \in [Outputs -> Nat] /\ left' \in [Servers -> Nat]
    BY <1>1, <1>2, <1>3, <1>4 DEF Inv, TypeOK
  <2>2. writing' \in [Servers -> Servers \cup Clients \cup {Nobody}]
    BY <1>3 DEF Inv, TypeOK
  <2> QED BY <1>3, <2>1, <2>2 DEF Inv, TypeOK
<1>6. Accounted'
  <2> SUFFICES ASSUME NEW f \in Outputs
               PROVE  queued[f] >= out'[f] + sock'[f]
    BY <1>3 DEF Accounted
  <2>1. /\ queued[f] \in Nat /\ out[f] \in Nat /\ sock[f] \in Nat /\ f \in Edges
        /\ queued[f] >= out[f] + sock[f]
    BY NetworkFacts DEF Inv, TypeOK, Accounted
  <2>2. CASE f = e
    <3>1. out'[f] = out[f] - 1 /\ sock'[f] = sock[f] + 1
      BY <1>2, <1>3, <2>2 DEF Inv, TypeOK
    <3> QED BY <2>1, <3>1
  <2>3. CASE f # e
    <3>1. out'[f] = out[f] /\ sock'[f] = sock[f]
      BY <1>2, <1>3, <2>1, <2>3 DEF Inv, TypeOK
    <3> QED BY <2>1, <3>1
  <2> QED BY <2>2, <2>3
<1>7. WritesWhatIsQueued'
  <2> SUFFICES ASSUME NEW t \in Servers
               PROVE  IF writing'[t] = Nobody THEN left'[t] = 0
                      ELSE writing'[t] \in Peers(t) /\ left'[t] \in 1..out'[<<t, writing'[t]>>]
    BY DEF WritesWhatIsQueued, Polling
  <2>1. IF writing[t] = Nobody THEN left[t] = 0
        ELSE writing[t] \in Peers(t) /\ left[t] \in 1..out[<<t, writing[t]>>]
    BY DEF Inv, WritesWhatIsQueued, Polling
  <2>2. CASE t = s
    <3>1. /\ writing'[s] = IF left[s] = 1 THEN Nobody ELSE writing[s]
          /\ left'[s] = left[s] - 1
          /\ out'[e] = out[e] - 1
      BY <1>2, <1>3 DEF Inv, TypeOK
    <3> QED BY <1>1, <1>4, <2>2, <3>1 DEF e
  <2>3. CASE t # s
    <3>1. writing'[t] = writing[t] /\ left'[t] = left[t]
      BY <1>3, <2>3 DEF Inv, TypeOK
    <3>2. <<t, writing[t]>> # e
      BY <2>3 DEF e
    <3>3. writing[t] # Nobody => out'[<<t, writing[t]>>] = out[<<t, writing[t]>>]
      BY <1>3, <2>1, <3>2, NetworkFacts DEF Inv, TypeOK
    <3> QED BY <2>1, <3>1, <3>3
  <2> QED BY <2>2, <2>3
<1> QED BY <1>5, <1>6, <1>7 DEF Inv

LEMMA StepInv == Inv /\ [Next]_vars => Inv'
<1> SUFFICES ASSUME Inv, [Next]_vars PROVE Inv'
  OBVIOUS
<1>1. CASE UNCHANGED vars
  BY <1>1 DEF vars, Inv, TypeOK, WritesWhatIsQueued, Accounted, Polling
<1>2. CASE Next
  BY <1>2, ClientsInv, ReadInv, WriteInv, PlaceInv, Zenon DEF Next, Serve
<1> QED BY <1>1, <1>2

THEOREM AlwaysInv == Spec => []Inv
<1> QED BY InitInv, StepInv, PTL DEF Spec

\* Every variable keeps its type.
THEOREM TypeCorrect == Spec => []TypeOK
<1>1. Inv => TypeOK
  BY DEF Inv
<1> QED BY <1>1, AlwaysInv, PTL

\* The queue is not changed under a writev: what writev places is still there.
THEOREM WritesQueued == Spec => []WritesWhatIsQueued
<1>1. Inv => WritesWhatIsQueued
  BY DEF Inv
<1> QED BY <1>1, AlwaysInv, PTL

\* Two servers are stuck in each other only when each has queued more for the
\* other than the socket between them takes.
THEOREM EmbraceBacklog == Spec => []EmbraceNeedsBacklog
<1>1. Inv => EmbraceNeedsBacklog
  <2>1. ASSUME Inv, NEW s \in Servers, NEW t \in Servers,
               writing[s] = t, sock[<<s, t>>] = Room
        PROVE  queued[<<s, t>>] > Room
    <3>1. t # Nobody
      BY NetworkFacts
    <3>2. t \in Peers(s) /\ left[s] \in 1..out[<<s, t>>]
      BY <2>1, <3>1 DEF Inv, WritesWhatIsQueued, Polling
    <3>3. <<s, t>> \in Outputs
      BY <3>2, NetworkFacts
    <3> QED BY <2>1, <3>2, <3>3, NetworkFacts DEF Inv, TypeOK, Accounted
  <2> QED BY <2>1 DEF EmbraceNeedsBacklog, Embrace
<1> QED BY <1>1, AlwaysInv, PTL

\* A set of finite sets that is not empty has one with the fewest elements.
LEMMA SmallestSet ==
    ASSUME NEW F, F # {}, \A S \in F : IsFiniteSet(S)
    PROVE  \E S \in F : \A T \in F : Cardinality(S) <= Cardinality(T)
<1> DEFINE Sizes == {Cardinality(S) : S \in F}
           Less == {p \in Nat \X Nat : p[1] < p[2]}
<1>1. Sizes \subseteq Nat /\ Sizes # {}
  BY FS_CardinalityType
<1>2. IsWellFoundedOn(Less, Nat)
  BY NatLessThanWellFounded, Zenon DEF OpToRel
<1>3. PICK n \in Sizes : \A k \in Sizes : <<k, n>> \notin Less
  <2> HIDE DEF Sizes, Less
  <2> QED BY <1>1, <1>2, WFMin
<1>4. ASSUME NEW k \in Sizes
      PROVE  n <= k
  <2>1. n \in Nat /\ k \in Nat /\ <<k, n>> \notin Less
    BY <1>1, <1>3
  <2>2. k < n => <<k, n>> \in Less
    BY <2>1
  <2> QED BY <2>1, <2>2
<1> QED BY <1>3, <1>4

\* In a state of the program, servers that all wait for each other.
LEMMA CircleFacts ==
    ASSUME Inv, NEW S \in SUBSET Servers, Circle(S), NEW s \in S
    PROVE  /\ writing[s] \in S /\ writing[s] \in Peers(s)
           /\ s \in Peers(writing[s])
           /\ sock[<<s, writing[s]>>] = Room
<1>1. writing[s] \in S /\ ~(sock[<<s, writing[s]>>] < Room)
  BY DEF Circle, HasRoom
<1>2. writing[s] # Nobody
  BY <1>1, NetworkFacts
<1>3. writing[s] \in Peers(s) /\ <<s, writing[s]>> \in Edges
  BY <1>2, NetworkFacts DEF Inv, WritesWhatIsQueued, Polling
<1>4. sock[<<s, writing[s]>>] \in 0..Room
  BY <1>3 DEF Inv, TypeOK
<1>5. s \in Peers(writing[s])
  <2>1. {s, writing[s]} \in Links
    BY <1>1, <1>3, NetworkFacts DEF Peers
  <2>2. {writing[s], s} = {s, writing[s]}
    OBVIOUS
  <2> QED BY <2>1, <2>2 DEF Peers
<1> QED BY <1>1, <1>3, <1>4, <1>5, NetworkFacts

\* Of the circles the smallest is a pair: a server with one link to the others
\* either hears from the one it writes to, or the others are a circle without it.
LEMMA CirclesArePairsLemma ==
    ASSUME Inv, IsFiniteSet(Servers)
    PROVE  CirclesArePairs
<1> SUFFICES ASSUME NoLoop, NEW C \in (SUBSET Servers) \ {{}}, Circle(C)
             PROVE  \E s, t \in C : Embrace(s, t)
  BY DEF CirclesArePairs
<1> DEFINE Circles == {S \in SUBSET C : S # {} /\ Circle(S)}
<1>1. \A S \in Circles : IsFiniteSet(S)
  BY FS_Subset
<1>2. PICK S \in Circles : \A T \in Circles : Cardinality(S) <= Cardinality(T)
  <2>1. C \in Circles
    OBVIOUS
  <2> HIDE DEF Circles
  <2> QED BY <1>1, <2>1, SmallestSet
<1>3. /\ S \subseteq C /\ S \in (SUBSET Servers) \ {{}} /\ S \in SUBSET Servers
      /\ Circle(S) /\ IsFiniteSet(S)
  BY <1>1
<1>4. PICK s \in S : \A t, u \in Peers(s) \cap S : t = u
  BY <1>3 DEF NoLoop
<1>5. writing[s] \in S /\ s \in Peers(writing[s]) /\ writing[s] \in Peers(s)
      /\ sock[<<s, writing[s]>>] = Room
  BY <1>3, CircleFacts
<1>6. ASSUME NEW t \in S, writing[t] = s
      PROVE  t = writing[s]
  <2>1. t \in Peers(s)
    BY <1>3, <1>6, CircleFacts
  <2> QED BY <1>4, <1>5, <2>1
<1>7. CASE \E t \in S : writing[t] = s
  <2>1. PICK t \in S : writing[t] = s
    BY <1>7
  <2>2. t = writing[s] /\ sock[<<t, s>>] = Room
    BY <1>3, <1>6, <2>1, CircleFacts
  <2> QED BY <1>3, <1>5, <2>1, <2>2 DEF Embrace
<1>8. CASE \A t \in S : writing[t] # s
  <2>1. writing[s] \in S \ {s}
    BY <1>5, <1>8
  <2>2. S \ {s} \in Circles
    BY <1>3, <1>8, <2>1 DEF Circle
  <2>3. Cardinality(S \ {s}) = Cardinality(S) - 1 /\ Cardinality(S) \in Nat
    BY <1>3, FS_RemoveElement, FS_CardinalityType
  <2>4. Cardinality(S) <= Cardinality(S \ {s})
    BY <1>2, <2>2
  <2> QED BY <2>3, <2>4
<1> QED BY <1>7, <1>8

\* However many servers wait for each other, each in a writev to a full socket,
\* two of them are stuck in each other, if the links form no loop.
THEOREM CirclesPair == ASSUME IsFiniteSet(Servers) PROVE Spec => []CirclesArePairs
<1>1. Inv => CirclesArePairs
  BY CirclesArePairsLemma
<1> QED BY <1>1, AlwaysInv, PTL
=============================================================================
