--------------------------- MODULE ServerLoopProofs ---------------------------
(***************************************************************************)
(* Proofs about ServerLoop, for any number of clients and links and any    *)
(* two delays.  The inductive invariant IInv says how the list, the heap,  *)
(* the task queue and the thread's position hang together; the properties  *)
(* of ServerLoop follow from it.                                           *)
(***************************************************************************)
EXTENDS ServerLoop, SequenceTheorems, WellFoundedInduction, TLAPS

-----------------------------------------------------------------------------
(* What the operators on sequences do, that the models of the linked lists *)
(* (server->clist, server->task_queue) are built from                      *)

\* s with the element at position i taken out, position by position.
LEMMA RemoveAtProperties ==
    ASSUME NEW S, NEW s \in Seq(S), NEW i \in 1..Len(s)
    PROVE  /\ RemoveAt(s, i) \in Seq(S)
           /\ Len(RemoveAt(s, i)) = Len(s) - 1
           /\ \A j \in 1..(Len(s) - 1) :
                 RemoveAt(s, i)[j] = IF j < i THEN s[j] ELSE s[j + 1]
<1> DEFINE front == SubSeq(s, 1, i - 1)
           back  == SubSeq(s, i + 1, Len(s))
<1>1. \A j \in 1..Len(s) : s[j] \in S
  BY ElementOfSeq
<1>2. /\ front \in Seq(S)
      /\ Len(front) = i - 1
      /\ \A j \in 1..(i - 1) : front[j] = s[j]
  <2>1. \A j \in 1..(i - 1) : s[j] \in S
    BY <1>1
  <2>2. /\ front \in Seq(S)
        /\ Len(front) = IF 1 <= i - 1 THEN (i - 1) - 1 + 1 ELSE 0
        /\ \A j \in 1..((i - 1) - 1 + 1) : front[j] = s[1 + j - 1]
    BY <2>1, SubSeqProperties
  <2> QED BY <2>2
<1>3. /\ back \in Seq(S)
      /\ Len(back) = Len(s) - i
      /\ \A j \in 1..(Len(s) - i) : back[j] = s[i + j]
  <2>1. \A j \in (i + 1)..Len(s) : s[j] \in S
    BY <1>1
  <2>2. /\ back \in Seq(S)
        /\ Len(back) = IF i + 1 <= Len(s) THEN Len(s) - (i + 1) + 1 ELSE 0
        /\ \A j \in 1..(Len(s) - (i + 1) + 1) : back[j] = s[(i + 1) + j - 1]
    BY <2>1, SubSeqProperties
  <2> QED BY <2>2
<1>4. RemoveAt(s, i) = front \o back
  BY DEF RemoveAt
<1> HIDE DEF front, back
<1>5. /\ front \o back \in Seq(S)
      /\ Len(front \o back) = Len(front) + Len(back)
      /\ \A j \in 1..(Len(front) + Len(back)) :
            (front \o back)[j] = IF j <= Len(front) THEN front[j] ELSE back[j - Len(front)]
  BY <1>2, <1>3, ConcatProperties
<1> QED BY <1>2, <1>3, <1>4, <1>5

\* s with e put in at position i, position by position.
LEMMA InsertAtProperties ==
    ASSUME NEW S, NEW s \in Seq(S), NEW i \in 1..(Len(s) + 1), NEW e \in S
    PROVE  /\ InsertAt(s, i, e) \in Seq(S)
           /\ Len(InsertAt(s, i, e)) = Len(s) + 1
           /\ \A j \in 1..(Len(s) + 1) :
                 InsertAt(s, i, e)[j] = IF j < i THEN s[j] ELSE IF j = i THEN e ELSE s[j - 1]
<1> DEFINE front == SubSeq(s, 1, i - 1)
           back  == SubSeq(s, i, Len(s))
           mid   == front \o <<e>>
<1>1. \A j \in 1..Len(s) : s[j] \in S
  BY ElementOfSeq
<1>2. /\ front \in Seq(S)
      /\ Len(front) = i - 1
      /\ \A j \in 1..(i - 1) : front[j] = s[j]
  <2>1. \A j \in 1..(i - 1) : s[j] \in S
    BY <1>1
  <2>2. /\ front \in Seq(S)
        /\ Len(front) = IF 1 <= i - 1 THEN (i - 1) - 1 + 1 ELSE 0
        /\ \A j \in 1..((i - 1) - 1 + 1) : front[j] = s[1 + j - 1]
    BY <2>1, SubSeqProperties
  <2> QED BY <2>2
<1>3. /\ back \in Seq(S)
      /\ Len(back) = Len(s) - i + 1
      /\ \A j \in 1..(Len(s) - i + 1) : back[j] = s[i + j - 1]
  <2>1. \A j \in i..Len(s) : s[j] \in S
    BY <1>1
  <2>2. /\ back \in Seq(S)
        /\ Len(back) = IF i <= Len(s) THEN Len(s) - i + 1 ELSE 0
        /\ \A j \in 1..(Len(s) - i + 1) : back[j] = s[i + j - 1]
    BY <2>1, SubSeqProperties
  <2> QED BY <2>2
<1>4. InsertAt(s, i, e) = mid \o back
  BY DEF InsertAt
<1> HIDE DEF front, back
<1>5. /\ mid \in Seq(S)
      /\ Len(mid) = i
      /\ \A j \in 1..i : mid[j] = IF j < i THEN s[j] ELSE e
  <2>1. <<e>> \in Seq(S) /\ Len(<<e>>) = 1 /\ <<e>>[1] = e
    OBVIOUS
  <2>2. /\ mid \in Seq(S)
        /\ Len(mid) = Len(front) + 1
        /\ \A j \in 1..(Len(front) + 1) :
              mid[j] = IF j <= Len(front) THEN front[j] ELSE <<e>>[j - Len(front)]
    BY <2>1, <1>2, ConcatProperties
  <2> QED BY <2>1, <2>2, <1>2
<1> HIDE DEF mid
<1>6. /\ mid \o back \in Seq(S)
      /\ Len(mid \o back) = Len(mid) + Len(back)
      /\ \A j \in 1..(Len(mid) + Len(back)) :
            (mid \o back)[j] = IF j <= Len(mid) THEN mid[j] ELSE back[j - Len(mid)]
  BY <1>3, <1>5, ConcatProperties
<1> QED BY <1>3, <1>4, <1>5, <1>6

\* s with e put in front, position by position.
LEMMA ConsProperties ==
    ASSUME NEW S, NEW s \in Seq(S), NEW e \in S
    PROVE  /\ Cons(e, s) \in Seq(S)
           /\ Len(Cons(e, s)) = Len(s) + 1
           /\ \A j \in 1..(Len(s) + 1) :
                 Cons(e, s)[j] = IF j = 1 THEN e ELSE s[j - 1]
BY DEF Cons

-----------------------------------------------------------------------------
(* Lists without duplicates, as sets *)

\* The elements of a sequence, by position.
LEMMA RangeProperties ==
    ASSUME NEW S, NEW s \in Seq(S), NEW x
    PROVE  /\ x \in Range(s) <=> \E i \in 1..Len(s) : s[i] = x
           /\ Range(s) \subseteq S
           /\ IsInjective(s) <=> \A i, j \in 1..Len(s) : s[i] = s[j] => i = j
BY DEF Range, IsInjective

\* list_prepend adds one element, and keeps the list free of duplicates when
\* the element is new.
LEMMA ConsList ==
    ASSUME NEW S, NEW s \in Seq(S), IsInjective(s), NEW e \in S \ Range(s)
    PROVE  /\ Cons(e, s) \in Seq(S)
           /\ Range(Cons(e, s)) = Range(s) \cup {e}
           /\ IsInjective(Cons(e, s))
           /\ Cons(e, s)[1] = e
<1> DEFINE c == Cons(e, s)
<1>1. /\ c \in Seq(S)
      /\ Len(c) = Len(s) + 1
      /\ \A j \in 1..(Len(s) + 1) : c[j] = IF j = 1 THEN e ELSE s[j - 1]
  BY ConsProperties
<1>2. Len(s) \in Nat
  BY LenProperties
<1> HIDE DEF c
<1>3. \A x : x \in Range(c) <=> \E i \in 1..Len(c) : c[i] = x
  BY <1>1, RangeProperties
<1>4. \A x : x \in Range(s) <=> \E i \in 1..Len(s) : s[i] = x
  BY RangeProperties
<1>5. \A x : x \in Range(c) <=> x \in Range(s) \/ x = e
  <2> TAKE x
  <2>1. ASSUME x \in Range(c) PROVE x \in Range(s) \/ x = e
    <3>1. PICK i \in 1..Len(c) : c[i] = x
      BY <2>1, <1>3
    <3>2. CASE i = 1
      BY <3>1, <3>2, <1>1, <1>2
    <3>3. CASE i # 1
      <4>1. i - 1 \in 1..Len(s) /\ s[i - 1] = x
        BY <3>1, <3>3, <1>1, <1>2
      <4> QED BY <4>1, <1>4
    <3> QED BY <3>2, <3>3
  <2>2. ASSUME x \in Range(s) PROVE x \in Range(c)
    <3>1. PICK i \in 1..Len(s) : s[i] = x
      BY <2>2, <1>4
    <3>2. i + 1 \in 1..Len(c) /\ c[i + 1] = x
      BY <3>1, <1>1, <1>2
    <3> QED BY <3>2, <1>3
  <2>3. ASSUME x = e PROVE x \in Range(c)
    <3>1. 1 \in 1..Len(c) /\ c[1] = e
      BY <1>1, <1>2
    <3> QED BY <3>1, <2>3, <1>3
  <2> QED BY <2>1, <2>2, <2>3
<1>6. IsInjective(c)
  <2>1. \A i, j \in 1..Len(s) : s[i] = s[j] => i = j
    BY RangeProperties
  <2>2. \A i \in 1..Len(s) : s[i] # e
    BY <1>4
  <2>3. ASSUME NEW i \in 1..Len(c), NEW j \in 1..Len(c), c[i] = c[j] PROVE i = j
    <3>1. CASE i = 1 /\ j = 1
      BY <3>1
    <3>2. CASE i = 1 /\ j # 1
      <4>1. j - 1 \in 1..Len(s) /\ s[j - 1] = e
        BY <2>3, <3>2, <1>1, <1>2
      <4> QED BY <4>1, <2>2
    <3>3. CASE i # 1 /\ j = 1
      <4>1. i - 1 \in 1..Len(s) /\ s[i - 1] = e
        BY <2>3, <3>3, <1>1, <1>2
      <4> QED BY <4>1, <2>2
    <3>4. CASE i # 1 /\ j # 1
      <4>1. /\ i - 1 \in 1..Len(s)
            /\ j - 1 \in 1..Len(s)
            /\ s[i - 1] = s[j - 1]
        BY <2>3, <3>4, <1>1, <1>2
      <4>2. i - 1 = j - 1
        BY <4>1, <2>1
      <4> QED BY <4>2
    <3> QED BY <3>1, <3>2, <3>3, <3>4
  <2> QED BY <2>3, <1>1, RangeProperties
<1>7. c[1] = e
  BY <1>1, <1>2
<1>8. Range(c) = Range(s) \cup {e}
  BY <1>5
<1> QED BY <1>1, <1>6, <1>7, <1>8 DEF c

\* Taking one element out of a list without duplicates removes it from the
\* list and leaves the list without duplicates.
LEMMA RemoveAtList ==
    ASSUME NEW S, NEW s \in Seq(S), IsInjective(s), NEW i \in 1..Len(s)
    PROVE  /\ RemoveAt(s, i) \in Seq(S)
           /\ Range(RemoveAt(s, i)) = Range(s) \ {s[i]}
           /\ IsInjective(RemoveAt(s, i))
<1> DEFINE r == RemoveAt(s, i)
<1>1. /\ r \in Seq(S)
      /\ Len(r) = Len(s) - 1
      /\ \A j \in 1..(Len(s) - 1) : r[j] = IF j < i THEN s[j] ELSE s[j + 1]
  BY RemoveAtProperties
<1>2. Len(s) \in Nat
  BY LenProperties
<1> HIDE DEF r
<1>3. \A x : x \in Range(r) <=> \E j \in 1..Len(r) : r[j] = x
  BY <1>1, RangeProperties
<1>4. \A x : x \in Range(s) <=> \E j \in 1..Len(s) : s[j] = x
  BY RangeProperties
<1>5. \A j, k \in 1..Len(s) : s[j] = s[k] => j = k
  BY RangeProperties
<1>6. \A j \in 1..Len(r) : \E k \in 1..Len(s) :
            k # i /\ r[j] = s[k] /\ k = IF j < i THEN j ELSE j + 1
  <2> TAKE j \in 1..Len(r)
  <2>1. CASE j < i
    BY <2>1, <1>1, <1>2
  <2>2. CASE ~(j < i)
    <3>1. j + 1 \in 1..Len(s) /\ j + 1 # i /\ r[j] = s[j + 1]
      BY <2>2, <1>1, <1>2
    <3> QED BY <3>1, <2>2
  <2> QED BY <2>1, <2>2
<1>7. \A x : x \in Range(r) <=> x \in Range(s) /\ x # s[i]
  <2> TAKE x
  <2>1. ASSUME x \in Range(r) PROVE x \in Range(s) /\ x # s[i]
    <3>1. PICK j \in 1..Len(r) : r[j] = x
      BY <2>1, <1>3
    <3>2. PICK k \in 1..Len(s) : k # i /\ r[j] = s[k]
      BY <1>6
    <3> QED BY <3>1, <3>2, <1>4, <1>5
  <2>2. ASSUME x \in Range(s), x # s[i] PROVE x \in Range(r)
    <3>1. PICK k \in 1..Len(s) : s[k] = x
      BY <2>2, <1>4
    <3>2. k # i
      BY <3>1, <2>2
    <3>3. CASE k < i
      <4>1. k \in 1..Len(r) /\ r[k] = x
        BY <3>3, <3>1, <1>1, <1>2
      <4> QED BY <4>1, <1>3
    <3>4. CASE k > i
      <4>1. k - 1 \in 1..Len(r) /\ r[k - 1] = x
        BY <3>4, <3>1, <1>1, <1>2
      <4> QED BY <4>1, <1>3
    <3> QED BY <3>2, <3>3, <3>4
  <2> QED BY <2>1, <2>2
<1>8. IsInjective(r)
  <2>1. ASSUME NEW j \in 1..Len(r), NEW k \in 1..Len(r), r[j] = r[k] PROVE j = k
    <3>1. PICK a \in 1..Len(s) : r[j] = s[a] /\ a = IF j < i THEN j ELSE j + 1
      BY <1>6
    <3>2. PICK b \in 1..Len(s) : r[k] = s[b] /\ b = IF k < i THEN k ELSE k + 1
      BY <1>6
    <3>3. a = b
      BY <2>1, <3>1, <3>2, <1>5
    <3> QED BY <3>1, <3>2, <3>3, <1>1, <1>2
  <2> QED BY <2>1, <1>1, RangeProperties
<1>9. Range(r) = Range(s) \ {s[i]}
  BY <1>7
<1> QED BY <1>1, <1>8, <1>9 DEF r

\* Tail is RemoveAt the first position.
LEMMA TailIsRemoveAt ==
    ASSUME NEW S, NEW s \in Seq(S), s # <<>>
    PROVE  /\ Tail(s) = RemoveAt(s, 1)
           /\ Head(s) = s[1]
           /\ 1 \in 1..Len(s)
<1>1. Len(s) \in Nat \ {0}
  BY EmptySeq, LenProperties
<1>2. /\ RemoveAt(s, 1) \in Seq(S)
      /\ Len(RemoveAt(s, 1)) = Len(s) - 1
      /\ \A j \in 1..(Len(s) - 1) : RemoveAt(s, 1)[j] = IF j < 1 THEN s[j] ELSE s[j + 1]
  BY <1>1, RemoveAtProperties
<1>3. /\ Tail(s) \in Seq(S)
      /\ Len(Tail(s)) = Len(s) - 1
      /\ \A j \in 1..Len(Tail(s)) : Tail(s)[j] = s[j + 1]
  BY HeadTailProperties
<1>4. Tail(s) = RemoveAt(s, 1)
  <2>1. \A j \in 1..Len(Tail(s)) : Tail(s)[j] = RemoveAt(s, 1)[j]
    BY <1>1, <1>2, <1>3
  <2> QED BY <1>2, <1>3, <2>1, SeqEqual
<1> QED BY <1>1, <1>4

-----------------------------------------------------------------------------
(* What server_add_task and the passing of time do to the task queue *)

\* Function f is queued; no function is queued twice; the queue is in order.
Queued(q, f) == \E i \in 1..Len(q) : q[i].fun = f
Once(q)      == \A i, j \in 1..Len(q) : q[i].fun = q[j].fun => i = j
Sorted(q)    == \A i, j \in 1..Len(q) : i < j => q[i].rem <= q[j].rem

\* The walk of server_add_task stops somewhere in the queue.
LEMMA PlaceProperties ==
    ASSUME NEW q \in Seq(Task), q # <<>>, NEW t \in Task
    PROVE  /\ Place(q, t) \in 1..Len(q)
           /\ Place(q, t) = Len(q) \/ ~(q[Place(q, t) + 1].rem < t.rem)
           /\ \A j \in 1..(Place(q, t) - 1) : q[j + 1].rem < t.rem
<1>1. Len(q) \in Nat \ {0}
  BY EmptySeq, LenProperties
<1> DEFINE Stops == {k \in 1..Len(q) : k = Len(q) \/ ~(q[k + 1].rem < t.rem)}
<1>2. Stops \subseteq Nat /\ Len(q) \in Stops
  BY <1>1
<1>3. PICK k \in Stops : \A m \in Stops : ~(<<m, k>> \in OpToRel(<, Nat))
  BY <1>2, NatLessThanWellFounded, WFMin
<1>4. \A m \in Stops : ~(m < k)
  BY <1>2, <1>3 DEF OpToRel
<1>5. \A j \in 1..(k - 1) : q[j + 1].rem < t.rem
  <2> TAKE j \in 1..(k - 1)
  <2>1. k \in 1..Len(q)
    OBVIOUS
  <2>2. j \in 1..Len(q) /\ j # Len(q) /\ j < k
    BY <2>1, <1>1
  <2> QED BY <2>2, <1>4
<1>6. \E x \in 1..Len(q) : /\ x = Len(q) \/ ~(q[x + 1].rem < t.rem)
                           /\ \A j \in 1..(x - 1) : q[j + 1].rem < t.rem
  BY <1>5
<1> HIDE DEF Stops
<1> QED BY <1>6, Zenon DEF Place

\* server_add_task puts the new task at one position and keeps the others in
\* their order; in a sorted queue no earlier task is later than it, and no
\* later one earlier.
LEMMA AddTaskInserts ==
    ASSUME NEW q \in Seq(Task), NEW t \in Task
    PROVE  \E p \in 1..(Len(q) + 1) :
              /\ ServerAddTask(q, t) = InsertAt(q, p, t)
              /\ Sorted(q) => /\ \A j \in 1..Len(q) : j < p => q[j].rem <= t.rem
                              /\ \A j \in 1..Len(q) : j >= p => t.rem <= q[j].rem
<1>0. /\ Len(q) \in Nat
      /\ t.rem \in Nat
      /\ \A i \in 1..Len(q) : q[i].rem \in Nat
  <2>1. Len(q) \in Nat /\ \A i \in 1..Len(q) : q[i] \in Task
    BY LenProperties, ElementOfSeq
  <2> QED BY <2>1 DEF Task
<1>1. CASE q = <<>>
  <2>1. InsertAt(q, 1, t) = <<t>>
    <3>1. /\ InsertAt(q, 1, t) \in Seq(Task)
          /\ Len(InsertAt(q, 1, t)) = 1
          /\ InsertAt(q, 1, t)[1] = t
      <4>1. Len(q) = 0
        BY <1>1
      <4>3. 1 \in 1..(Len(q) + 1)
        BY <4>1
      <4>2. /\ InsertAt(q, 1, t) \in Seq(Task)
            /\ Len(InsertAt(q, 1, t)) = Len(q) + 1
            /\ \A j \in 1..(Len(q) + 1) : InsertAt(q, 1, t)[j] =
                  IF j < 1 THEN q[j] ELSE IF j = 1 THEN t ELSE q[j - 1]
        BY <4>3, InsertAtProperties
      <4> QED BY <4>1, <4>2
    <3>2. <<t>> \in Seq(Task) /\ Len(<<t>>) = 1 /\ <<t>>[1] = t
      OBVIOUS
    <3>3. \A i \in 1..Len(<<t>>) : InsertAt(q, 1, t)[i] = <<t>>[i]
      BY <3>1, <3>2
    <3>4. Len(InsertAt(q, 1, t)) = Len(<<t>>)
      BY <3>1, <3>2
    <3>5. \A i \in 1..Len(InsertAt(q, 1, t)) : InsertAt(q, 1, t)[i] = <<t>>[i]
      BY <3>3, <3>4
    <3> QED BY <3>1, <3>2, <3>4, <3>5, SeqEqual
  <2>2. Len(q) = 0
    BY <1>1
  <2>3. ServerAddTask(q, t) = <<t>>
    BY <1>1 DEF ServerAddTask
  <2>4. 1 \in 1..(Len(q) + 1) /\ 1..Len(q) = {}
    BY <2>2
  <2> QED BY <2>1, <2>3, <2>4
<1>2. CASE q # <<>>
  <2> DEFINE k == Place(q, t)
             p == IF q[k].rem < t.rem THEN k + 1 ELSE k
  <2>1. /\ k \in 1..Len(q)
        /\ k = Len(q) \/ ~(q[k + 1].rem < t.rem)
        /\ \A j \in 1..(k - 1) : q[j + 1].rem < t.rem
    BY <1>2, PlaceProperties
  <2>2. ServerAddTask(q, t) = InsertAt(q, p, t)
    BY <1>2 DEF ServerAddTask
  <2> HIDE DEF k
  <2>3. p \in 1..(Len(q) + 1)
    BY <2>1, <1>0
  <2>4. ASSUME Sorted(q), NEW j \in 1..Len(q), j < p PROVE q[j].rem <= t.rem
    <3>1. CASE j = k
      BY <3>1, <2>4, <1>0
    <3>2. CASE j # k
      <4>1. j < k
        BY <3>2, <2>4, <2>1
      <4>2. CASE j = 1
        <5>1. 1 \in 1..(k - 1) /\ q[1 + 1].rem < t.rem
          BY <4>1, <4>2, <2>1
        <5>2. 2 \in 1..Len(q) /\ q[1].rem <= q[2].rem
          BY <5>1, <4>1, <4>2, <2>1, <1>0, <2>4 DEF Sorted
        <5> QED BY <5>1, <5>2, <4>2, <1>0
      <4>3. CASE j # 1
        <5>1. j - 1 \in 1..(k - 1) /\ (j - 1) + 1 = j
          BY <4>1, <4>3, <2>1
        <5>2. q[(j - 1) + 1].rem < t.rem
          BY <5>1, <2>1
        <5> QED BY <5>1, <5>2, <1>0
      <4> QED BY <4>2, <4>3
    <3> QED BY <3>1, <3>2
  <2>5. ASSUME Sorted(q), NEW j \in 1..Len(q), j >= p PROVE t.rem <= q[j].rem
    <3>1. CASE q[k].rem < t.rem
      <4>1. j >= k + 1 /\ k # Len(q) /\ k + 1 \in 1..Len(q)
        BY <3>1, <2>5, <2>1, <1>0
      <4>2. t.rem <= q[k + 1].rem
        BY <4>1, <2>1, <1>0
      <4>3. q[k + 1].rem <= q[j].rem
        BY <4>1, <2>5, <1>0 DEF Sorted
      <4> QED BY <4>1, <4>2, <4>3, <1>0
    <3>2. CASE ~(q[k].rem < t.rem)
      <4>1. j >= k /\ t.rem <= q[k].rem
        BY <3>2, <2>5, <2>1, <1>0
      <4>2. q[k].rem <= q[j].rem
        BY <4>1, <2>5, <2>1, <1>0 DEF Sorted
      <4> QED BY <4>1, <4>2, <2>1, <1>0
    <3> QED BY <3>1, <3>2
  <2> HIDE DEF p
  <2> QED BY <2>2, <2>3, <2>4, <2>5
<1> QED BY <1>1, <1>2

\* What the rest of the server sees of server_add_task: the queue grows by the
\* new task, and stays sorted; no function is queued twice if the new one was
\* not queued.
LEMMA AddTaskProperties ==
    ASSUME NEW q \in Seq(Task), NEW t \in Task
    PROVE  /\ ServerAddTask(q, t) \in Seq(Task)
           /\ \A f : Queued(ServerAddTask(q, t), f) <=> Queued(q, f) \/ f = t.fun
           /\ Once(q) /\ ~Queued(q, t.fun) => Once(ServerAddTask(q, t))
           /\ Sorted(q) => Sorted(ServerAddTask(q, t))
<1> DEFINE r == ServerAddTask(q, t)
<1>1. PICK p \in 1..(Len(q) + 1) :
         /\ r = InsertAt(q, p, t)
         /\ Sorted(q) => /\ \A j \in 1..Len(q) : j < p => q[j].rem <= t.rem
                         /\ \A j \in 1..Len(q) : j >= p => t.rem <= q[j].rem
  BY AddTaskInserts
<1>2. /\ r \in Seq(Task)
      /\ Len(r) = Len(q) + 1
      /\ \A j \in 1..(Len(q) + 1) : r[j] = IF j < p THEN q[j] ELSE IF j = p THEN t ELSE q[j - 1]
  <2>1. /\ InsertAt(q, p, t) \in Seq(Task)
        /\ Len(InsertAt(q, p, t)) = Len(q) + 1
        /\ \A j \in 1..(Len(q) + 1) :
              InsertAt(q, p, t)[j] = IF j < p THEN q[j] ELSE IF j = p THEN t ELSE q[j - 1]
    BY InsertAtProperties
  <2> HIDE DEF r
  <2> QED BY <1>1, <2>1
<1>3. /\ Len(q) \in Nat
      /\ t.rem \in Nat
      /\ \A i \in 1..Len(q) : q[i].rem \in Nat
  <2>1. Len(q) \in Nat /\ \A i \in 1..Len(q) : q[i] \in Task
    BY LenProperties, ElementOfSeq
  <2> QED BY <2>1 DEF Task
<1> HIDE DEF r
<1>4. \A j \in 1..Len(r) :
         \/ j = p /\ r[j] = t
         \/ \E i \in 1..Len(q) : r[j] = q[i] /\ (IF i < p THEN j = i ELSE j = i + 1)
  <2> TAKE j \in 1..Len(r)
  <2>1. CASE j < p
    BY <2>1, <1>2, <1>3
  <2>2. CASE j = p
    BY <2>2, <1>2, <1>3
  <2>3. CASE j > p
    <3>1. j - 1 \in 1..Len(q) /\ r[j] = q[j - 1] /\ ~(j - 1 < p) /\ j = (j - 1) + 1
      BY <2>3, <1>2, <1>3
    <3> QED BY <3>1
  <2> QED BY <2>1, <2>2, <2>3
<1>5. \A i \in 1..Len(q) : \E j \in 1..Len(r) : r[j] = q[i]
  <2> TAKE i \in 1..Len(q)
  <2>1. CASE i < p
    <3>1. i \in 1..(Len(q) + 1) /\ i \in 1..Len(r)
      BY <1>2, <1>3
    <3>2. r[i] = q[i]
      BY <2>1, <3>1, <1>2
    <3> QED BY <3>1, <3>2
  <2>2. CASE i >= p
    <3>1. /\ i + 1 \in 1..(Len(q) + 1) /\ i + 1 \in 1..Len(r)
          /\ ~(i + 1 < p) /\ i + 1 # p /\ (i + 1) - 1 = i
      <4>1. Len(r) = Len(q) + 1 /\ Len(q) \in Nat /\ p \in Nat /\ i \in Nat
        BY <1>2, <1>3
      <4> QED BY <4>1, <2>2
    <3>2. r[i + 1] = q[i]
      BY <3>1, <1>2
    <3> QED BY <3>1, <3>2
  <2> QED BY <2>1, <2>2, <1>3
<1>6. p \in 1..Len(r) /\ r[p] = t
  BY <1>2, <1>3
<1>7. \A f : Queued(r, f) <=> Queued(q, f) \/ f = t.fun
  BY <1>4, <1>5, <1>6 DEF Queued
<1>8. ASSUME Once(q), ~Queued(q, t.fun) PROVE Once(r)
  <2>1. SUFFICES ASSUME NEW i \in 1..Len(r), NEW j \in 1..Len(r), r[i].fun = r[j].fun
                 PROVE  i = j
    BY DEF Once
  <2>2. \A m \in 1..Len(q) : q[m].fun # t.fun
    BY <1>8 DEF Queued
  <2>3. CASE i = p \/ j = p
    BY <2>1, <2>2, <2>3, <1>4
  <2>4. CASE i # p /\ j # p
    <3>1. PICK a \in 1..Len(q) : r[i] = q[a] /\ (IF a < p THEN i = a ELSE i = a + 1)
      BY <2>4, <1>4
    <3>2. PICK b \in 1..Len(q) : r[j] = q[b] /\ (IF b < p THEN j = b ELSE j = b + 1)
      BY <2>4, <1>4
    <3>3. a = b
      BY <2>1, <3>1, <3>2, <1>8 DEF Once
    <3> QED BY <3>1, <3>2, <3>3
  <2> QED BY <2>3, <2>4
<1>9. ASSUME Sorted(q) PROVE Sorted(r)
  <2>1. SUFFICES ASSUME NEW i \in 1..Len(r), NEW j \in 1..Len(r), i < j
                 PROVE  r[i].rem <= r[j].rem
    BY DEF Sorted
  <2>2. \A a, b \in 1..Len(q) : a < b => q[a].rem <= q[b].rem
    BY <1>9 DEF Sorted
  <2>3. CASE i = p
    <3>1. PICK b \in 1..Len(q) : r[j] = q[b] /\ (IF b < p THEN j = b ELSE j = b + 1)
      BY <2>1, <2>3, <1>4
    <3>2. b >= p /\ r[i] = t
      BY <2>1, <2>3, <3>1, <1>6
    <3> QED BY <3>1, <3>2, <1>1, <1>9
  <2>4. CASE j = p
    <3>1. PICK a \in 1..Len(q) : r[i] = q[a] /\ (IF a < p THEN i = a ELSE i = a + 1)
      BY <2>1, <2>4, <1>4
    <3>2. a < p /\ r[j] = t
      BY <2>1, <2>4, <3>1, <1>6
    <3> QED BY <3>1, <3>2, <1>1, <1>9
  <2>5. CASE i # p /\ j # p
    <3>1. PICK a \in 1..Len(q) : r[i] = q[a] /\ (IF a < p THEN i = a ELSE i = a + 1)
      BY <2>5, <1>4
    <3>2. PICK b \in 1..Len(q) : r[j] = q[b] /\ (IF b < p THEN j = b ELSE j = b + 1)
      BY <2>5, <1>4
    <3>3. a < b
      BY <2>1, <3>1, <3>2, <1>3
    <3> QED BY <3>1, <3>2, <3>3, <2>2
  <2> QED BY <2>3, <2>4, <2>5
<1> QED BY <1>2, <1>7, <1>8, <1>9 DEF r

\* server_pop_task takes the first task.
LEMMA PopTaskProperties ==
    ASSUME NEW q \in Seq(Task), q # <<>>
    PROVE  /\ Tail(q) \in Seq(Task)
           /\ q[1] \in Task
           /\ Queued(q, q[1].fun)
           /\ Once(q) => Once(Tail(q)) /\ \A f : Queued(Tail(q), f) <=> Queued(q, f) /\ f # q[1].fun
           /\ Sorted(q) => Sorted(Tail(q))
<1>1. Len(q) \in Nat \ {0}
  BY EmptySeq, LenProperties
<1>2. /\ Tail(q) \in Seq(Task)
      /\ Len(Tail(q)) = Len(q) - 1
      /\ \A i \in 1..Len(Tail(q)) : Tail(q)[i] = q[i + 1]
  BY HeadTailProperties
<1> DEFINE r == Tail(q)
<1> HIDE DEF r
<1>3. /\ Len(r) = Len(q) - 1
      /\ \A i \in 1..Len(r) : i + 1 \in 1..Len(q) /\ r[i] = q[i + 1]
  BY <1>1, <1>2 DEF r
<1>4. 1 \in 1..Len(q) /\ q[1] \in Task
  BY <1>1, ElementOfSeq
<1>5. ASSUME Once(q) PROVE Once(r)
  <2>1. SUFFICES ASSUME NEW i \in 1..Len(r), NEW j \in 1..Len(r), r[i].fun = r[j].fun
                 PROVE  i = j
    BY DEF Once
  <2>2. i + 1 = j + 1
    BY <2>1, <1>3, <1>5 DEF Once
  <2> QED BY <2>2
<1>6. ASSUME Once(q), NEW f PROVE Queued(r, f) <=> Queued(q, f) /\ f # q[1].fun
  <2>1. ASSUME Queued(r, f) PROVE Queued(q, f) /\ f # q[1].fun
    <3>1. PICK i \in 1..Len(r) : r[i].fun = f
      BY <2>1 DEF Queued
    <3>2. i + 1 \in 1..Len(q) /\ q[i + 1].fun = f /\ i + 1 # 1
      BY <3>1, <1>3
    <3> QED BY <3>2, <1>4, <1>6 DEF Once, Queued
  <2>2. ASSUME Queued(q, f), f # q[1].fun PROVE Queued(r, f)
    <3>1. PICK i \in 1..Len(q) : q[i].fun = f
      BY <2>2 DEF Queued
    <3>2. i # 1
      BY <3>1, <2>2
    <3>3. i - 1 \in 1..Len(r) /\ (i - 1) + 1 = i
      BY <3>2, <1>1, <1>3
    <3>4. r[i - 1].fun = f
      BY <3>1, <3>3, <1>3
    <3> QED BY <3>3, <3>4 DEF Queued
  <2> QED BY <2>1, <2>2
<1>7. ASSUME Sorted(q) PROVE Sorted(r)
  <2>1. SUFFICES ASSUME NEW i \in 1..Len(r), NEW j \in 1..Len(r), i < j
                 PROVE  r[i].rem <= r[j].rem
    BY DEF Sorted
  <2>2. /\ i + 1 \in 1..Len(q) /\ j + 1 \in 1..Len(q) /\ i + 1 < j + 1
        /\ r[i] = q[i + 1] /\ r[j] = q[j + 1]
    BY <2>1, <1>3
  <2> QED BY <2>2, <1>7 DEF Sorted
<1>8. Queued(q, q[1].fun)
  BY <1>4 DEF Queued
<1> QED BY <1>2, <1>4, <1>5, <1>6, <1>7, <1>8 DEF r

\* The passing of time changes neither what is queued nor the order.
LEMMA ElapseProperties ==
    ASSUME NEW q \in Seq(Task), NEW d \in Nat
    PROVE  /\ Elapse(q, d) \in Seq(Task)
           /\ \A f : Queued(Elapse(q, d), f) <=> Queued(q, f)
           /\ Once(q) => Once(Elapse(q, d))
           /\ Sorted(q) => Sorted(Elapse(q, d))
<1> DEFINE r == Elapse(q, d)
<1>1. /\ Len(q) \in Nat
      /\ \A i \in 1..Len(q) : q[i] \in Task
  BY LenProperties, ElementOfSeq
<1>2. \A i \in 1..Len(q) :
         [q[i] EXCEPT !.rem = IF q[i].rem > d THEN q[i].rem - d ELSE 0] \in Task
  BY <1>1 DEF Task
<1>3. r \in Seq(Task)
  BY <1>1, <1>2 DEF Elapse
<1>4. Len(r) = Len(q)
  BY <1>1 DEF Elapse
<1>5. \A i \in 1..Len(q) : /\ r[i].fun = q[i].fun
                           /\ r[i].rem = IF q[i].rem > d THEN q[i].rem - d ELSE 0
  BY <1>1 DEF Elapse, Task
<1> HIDE DEF r
<1>6. \A i \in 1..Len(q) : q[i].rem \in Nat
  BY <1>1 DEF Task
<1>7. \A f : Queued(r, f) <=> Queued(q, f)
  BY <1>4, <1>5 DEF Queued
<1>8. Once(q) => Once(r)
  BY <1>4, <1>5 DEF Once
<1>9. Sorted(q) => Sorted(r)
  BY <1>4, <1>5, <1>6 DEF Sorted
<1> QED BY <1>3, <1>7, <1>8, <1>9 DEF r

-----------------------------------------------------------------------------
(* The inductive invariant *)

Early == {"bind_ichat", "bind_s2s", "bind_ctl", "heartbeats"}

\* The list is the set of live cells, each once.
HeapInv ==
    /\ IsInjective(clist)
    /\ InList = Slots \ Free

\* The sets live from the second loop to the end of the third, and inside the
\* loop over the ready clients the cursor is on a live client.
CursorInv ==
    /\ rd \cup wr \subseteq InList
    /\ pc \in {"select", "read", "parse", "write", "error"} \/ rd \cup wr = {}
    /\ pc \in {"read", "parse", "write", "error"} /\ cur # NoSlot => cur \in InList
    /\ pc \in {"parse", "write", "error"} => cur # NoSlot

\* shutdown is set inside the loop over the ready clients, and the dispatcher
\* returns before anything looks at a task or destroys a client.
PhaseInv ==
    /\ shutdown => pc \in {"read", "parse", "write", "error", "polled"} \/ Stopping
    /\ Stopping => shutdown

TaskInv ==
    /\ Sorted(tasks)
    /\ Once(tasks)
    /\ ~Stopping => (Queued(tasks, Heartbeat) <=> pc \notin Early)

\* Clients and tasks share the links out between them.
LinkInv ==
    /\ \A s, t \in Slots :
          client[s].link # NoLink /\ client[t].link = client[s].link => s = t
    /\ \A s \in Slots :
          client[s].link # NoLink =>
              /\ client[s].type # "free"
              /\ client[s].link \in configured \ toStart
              /\ ~Queued(tasks, client[s].link)
    /\ \A f : Queued(tasks, f) => f = Heartbeat \/ f \in configured \ toStart
    /\ ~Stopping =>
          \A l \in configured \ toStart :
              Queued(tasks, l) \/ \E s \in Slots : client[s].link = l

\* Only a link can be without a descriptor, and it is corrupt from the start.
OpenInv ==
    \A s \in Slots : client[s].type # "free" /\ ~client[s].open =>
        client[s].corrupt /\ client[s].link # NoLink

OneLink == \A k, l \in configured : k = l

\* With one link, a client without a descriptor is the head of the list, and
\* is there only between its creation and the next poll.
AbortInv ==
    OneLink =>
        /\ pc # "aborted"
        /\ \A s \in InList : ~client[s].open =>
              pc \in {"links", "schedule", "reap"} /\ s = clist[1]

\* A connection in the read set is not corrupt as long as the loop over the
\* ready clients has not come to it.
ReadInv ==
    /\ pc = "select" => \A s \in rd : client[s].type \in Connections => ~client[s].corrupt
    /\ pc \in {"read", "parse", "write", "error"} =>
          \A i, j \in 1..Len(clist) :
              /\ clist[i] = cur
              /\ i < j \/ (i = j /\ pc = "read")
              /\ clist[j] \in rd
              /\ client[clist[j]].type \in Connections
              => ~client[clist[j]].corrupt

IInv ==
    /\ TypeOK
    /\ HeapInv
    /\ CursorInv
    /\ PhaseInv
    /\ TaskInv
    /\ LinkInv
    /\ OpenInv
    /\ AbortInv
    /\ ReadInv

-----------------------------------------------------------------------------
(* The effects a step may have on the list and on the queue *)

\* The list stands, and a cell changes its flags only; corrupt is never reset.
Shape ==
    /\ clist' = clist
    /\ client' \in [Slots -> Cell]
    /\ \A s \in Slots :
          /\ client'[s].type = client[s].type
          /\ client'[s].link = client[s].link
          /\ client'[s].open = client[s].open
          /\ client[s].corrupt => client'[s].corrupt

\* The queue holds the same tasks.
TaskShape ==
    /\ tasks' \in Seq(Task)
    /\ \A f : Queued(tasks', f) <=> Queued(tasks, f)
    /\ Once(tasks) => Once(tasks')
    /\ Sorted(tasks) => Sorted(tasks')

LEMMA SameShape ==
    ASSUME TypeOK, UNCHANGED <<clist, client>>
    PROVE  Shape
BY DEF TypeOK, Shape

LEMMA SameTasks ==
    ASSUME TypeOK, UNCHANGED tasks
    PROVE  TaskShape
BY DEF TypeOK, TaskShape

LEMMA CorruptShape ==
    ASSUME TypeOK, NEW s \in Slots, Corrupt(s), UNCHANGED clist
    PROVE  Shape
<1>1. client \in [Slots -> Cell] /\ client' = [client EXCEPT ![s].corrupt = TRUE]
  BY DEF TypeOK, Corrupt
<1>2. client' \in [Slots -> Cell]
  BY <1>1 DEF Cell
<1>3. \A t \in Slots :
         /\ client'[t].type = client[t].type
         /\ client'[t].link = client[t].link
         /\ client'[t].open = client[t].open
         /\ client[t].corrupt => client'[t].corrupt
  BY <1>1 DEF Cell
<1> QED BY <1>2, <1>3 DEF Shape

LEMMA ElapseShape ==
    ASSUME TypeOK, NEW d \in 0..MaxElapse, tasks' = Elapse(tasks, d)
    PROVE  TaskShape
<1>1. d \in Nat
  BY DeltaAssumption
<1> QED BY <1>1, ElapseProperties DEF TypeOK, TaskShape

LEMMA HeartbeatIsTask ==
    /\ HeartbeatTask \in Task
    /\ HeartbeatTask.fun = Heartbeat
    /\ \A l \in Links : LinkTask(l) \in Task /\ LinkTask(l).fun = l
BY DeltaAssumption DEF HeartbeatTask, LinkTask, Task

LEMMA NewClientIsCell ==
    ASSUME NEW type \in Connections \cup Listeners, NEW l \in Links \cup {NoLink},
           NEW ok \in BOOLEAN
    PROVE  /\ NewClient(type, l, ok) \in Cell
           /\ NewClient(type, l, ok).type = type
           /\ NewClient(type, l, ok).link = l
           /\ NewClient(type, l, ok).open = ok
           /\ NewClient(type, l, ok).corrupt = ~ok
           /\ type # "free"
BY DEF NewClient, Cell, Connections, Listeners

\* server_add_client.
LEMMA AddClientEffect ==
    ASSUME TypeOK, HeapInv, NEW s \in Slots, NEW c \in Cell, c.type # "free",
           ServerAddClient(s, c)
    PROVE  /\ clist' \in Seq(Slots)
           /\ client' \in [Slots -> Cell]
           /\ HeapInv'
           /\ InList' = InList \cup {s}
           /\ s \notin InList
           /\ clist'[1] = s
           /\ client[s].type = "free"
           /\ client'[s] = c
           /\ \A t \in Slots \ {s} : client'[t] = client[t]
<1>1. /\ clist \in Seq(Slots)
      /\ client \in [Slots -> Cell]
  BY DEF TypeOK
<1>2. /\ s \in Free
      /\ client' = [client EXCEPT ![s] = c]
      /\ clist' = Cons(s, clist)
  BY DEF ServerAddClient
<1>3. s \notin InList /\ client[s].type = "free"
  BY <1>2 DEF HeapInv, Free
<1>4. /\ clist' \in Seq(Slots)
      /\ Range(clist') = Range(clist) \cup {s}
      /\ IsInjective(clist')
      /\ clist'[1] = s
  BY <1>1, <1>2, <1>3, ConsList DEF HeapInv, InList
<1>5. /\ client' \in [Slots -> Cell]
      /\ client'[s] = c
      /\ \A t \in Slots \ {s} : client'[t] = client[t]
  BY <1>1, <1>2
<1>6. Free' = Free \ {s}
  BY <1>5 DEF Free
<1>7. InList' = InList \cup {s}
  BY <1>4 DEF InList
<1>8. InList' = Slots \ Free'
  BY <1>6, <1>7 DEF HeapInv
<1> QED BY <1>3, <1>4, <1>5, <1>7, <1>8 DEF HeapInv

\* client_destroy, of the client at position i of the list.
LEMMA DestroyEffect ==
    ASSUME TypeOK, HeapInv, NEW i \in 1..Len(clist),
           clist' = RemoveAt(clist, i), ClientDestroy(clist[i])
    PROVE  /\ clist[i] \in InList
           /\ clist[i] \in Slots
           /\ clist' \in Seq(Slots)
           /\ client' \in [Slots -> Cell]
           /\ HeapInv'
           /\ InList' = InList \ {clist[i]}
           /\ client'[clist[i]] = Freed
           /\ \A t \in Slots \ {clist[i]} : client'[t] = client[t]
<1>1. /\ clist \in Seq(Slots)
      /\ client \in [Slots -> Cell]
  BY DEF TypeOK
<1> DEFINE s == clist[i]
<1>2. s \in Slots /\ s \in InList
  BY <1>1, ElementOfSeq, RangeProperties DEF InList
<1>3. /\ clist' \in Seq(Slots)
      /\ Range(clist') = Range(clist) \ {s}
      /\ IsInjective(clist')
  BY <1>1, RemoveAtList DEF HeapInv
<1>4. client' = [client EXCEPT ![s] = Freed]
  BY DEF ClientDestroy
<1> HIDE DEF s
<1>5. Freed \in Cell /\ Freed.type = "free"
  BY DEF Freed, Cell
<1>6. /\ client' \in [Slots -> Cell]
      /\ client'[s] = Freed
      /\ \A t \in Slots \ {s} : client'[t] = client[t]
  BY <1>1, <1>2, <1>4, <1>5
<1>7. Free' = Free \cup {s}
  BY <1>2, <1>5, <1>6 DEF Free
<1>8. InList' = InList \ {s}
  BY <1>3 DEF InList
<1>9. InList' = Slots \ Free'
  BY <1>7, <1>8 DEF HeapInv
<1> QED BY <1>2, <1>3, <1>6, <1>8, <1>9 DEF HeapInv, s

\* clnt->next, for a client in the list.
LEMMA NextClientIs ==
    ASSUME TypeOK, HeapInv, cur \in InList
    PROVE  \E i \in 1..Len(clist) :
              /\ clist[i] = cur
              /\ \A j \in 1..Len(clist) : clist[j] = cur => j = i
              /\ NextClient(cur) = IF i = Len(clist) THEN NoSlot ELSE clist[i + 1]
              /\ i # Len(clist) => i + 1 \in 1..Len(clist) /\ clist[i + 1] \in InList
<1>1. clist \in Seq(Slots) /\ Len(clist) \in Nat
  BY LenProperties DEF TypeOK
<1>2. \A x : x \in InList <=> \E i \in 1..Len(clist) : clist[i] = x
  BY <1>1, RangeProperties DEF InList
<1>3. \A i, j \in 1..Len(clist) : clist[i] = clist[j] => i = j
  BY <1>1, RangeProperties DEF HeapInv
<1>4. PICK i \in 1..Len(clist) : clist[i] = cur
  BY <1>2
<1>5. \A j \in 1..Len(clist) : clist[j] = cur => j = i
  BY <1>3, <1>4
<1>6. Position(cur) = i
  BY <1>4, <1>5 DEF Position
<1>7. NextClient(cur) = IF i = Len(clist) THEN NoSlot ELSE clist[i + 1]
  BY <1>6 DEF NextClient
<1>8. i # Len(clist) => i + 1 \in 1..Len(clist)
  BY <1>1
<1> QED BY <1>2, <1>4, <1>5, <1>7, <1>8

-----------------------------------------------------------------------------
(* The invariants of the list and of the links under each effect *)

\* A step that keeps the shape of the list and of the queue keeps HeapInv and
\* the ownership of the links.
LEMMA QuietKeeps ==
    ASSUME IInv, Shape, TaskShape, UNCHANGED <<configured, toStart>>,
           Stopping => Stopping', pc \in Early <=> pc' \in Early
    PROVE  HeapInv' /\ TaskInv' /\ LinkInv' /\ OpenInv' /\ InList' = InList
<1>1. InList' = InList /\ Free' = Free
  BY DEF Shape, InList, Free
<1>2. HeapInv'
  BY <1>1 DEF IInv, HeapInv, Shape
<1>3. TaskInv'
  BY DEF IInv, TaskInv, TaskShape
<1>4. LinkInv'
  BY DEF IInv, LinkInv, Shape, TaskShape
<1>5. OpenInv'
  BY DEF IInv, OpenInv, Shape
<1> QED BY <1>1, <1>2, <1>3, <1>4, <1>5

\* A client that is not an outgoing link is added.
LEMMA AddPlainKeeps ==
    ASSUME IInv, NEW s \in Slots, NEW c \in Cell, c.type # "free", c.link = NoLink, c.open,
           ServerAddClient(s, c), UNCHANGED <<tasks, configured, toStart>>,
           ~Stopping, ~Stopping', pc \in Early <=> pc' \in Early
    PROVE  HeapInv' /\ TaskInv' /\ LinkInv' /\ OpenInv'
<1>1. /\ HeapInv'
      /\ client[s].type = "free"
      /\ client'[s] = c
      /\ \A t \in Slots \ {s} : client'[t] = client[t]
  BY AddClientEffect DEF IInv
<1>2. TaskInv'
  BY DEF IInv, TaskInv
<1>3. LinkInv'
  BY <1>1 DEF IInv, LinkInv
<1>4. OpenInv'
  BY <1>1 DEF IInv, OpenInv
<1> QED BY <1>1, <1>2, <1>3, <1>4

\* The client of link l is added: l was still to be registered, or its task
\* has just left the queue.
LEMMA AddLinkKeeps ==
    ASSUME IInv, NEW l \in Links, StartLink(l), UNCHANGED configured,
           pc \in {"links", "schedule"}, pc' = pc,
           tasks' \in Seq(Task), Once(tasks'), Sorted(tasks'),
           \A f : Queued(tasks', f) <=> Queued(tasks, f) /\ f # l,
           \/ l \in toStart /\ toStart' = toStart \ {l}
           \/ Queued(tasks, l) /\ toStart' = toStart
    PROVE  /\ HeapInv' /\ TaskInv' /\ LinkInv' /\ OpenInv' /\ AbortInv'
           /\ clist' \in Seq(Slots)
           /\ client' \in [Slots -> Cell]
           /\ InList \subseteq InList'
           /\ \A k \in Links : (\E x \in Slots : client'[x].link = k)
                                <=> k = l \/ \E x \in Slots : client[x].link = k
<1>0. ~Stopping /\ pc \notin Early /\ ~Stopping'
  BY DEF Stopping, Early
<1>1. PICK s \in Slots, ok \in BOOLEAN : ServerAddClient(s, NewClient("s2s_client", l, ok))
  BY DEF StartLink
<1> DEFINE c == NewClient("s2s_client", l, ok)
<1>2. /\ c \in Cell
      /\ c.type # "free"
      /\ c.link = l
      /\ ~c.open => c.corrupt
  <2>1. "s2s_client" \in Connections \cup Listeners /\ l \in Links \cup {NoLink}
    BY DEF Connections
  <2> HIDE DEF c
  <2>2. /\ c \in Cell /\ c.type = "s2s_client" /\ c.link = l
        /\ c.open = ok /\ c.corrupt = ~ok
    BY <2>1, NewClientIsCell DEF c
  <2> QED BY <2>2
<1>3. ServerAddClient(s, c)
  BY <1>1
<1> HIDE DEF c
<1>4. /\ HeapInv'
      /\ client[s].type = "free"
      /\ client'[s] = c
      /\ \A t \in Slots \ {s} : client'[t] = client[t]
      /\ clist' \in Seq(Slots)
      /\ client' \in [Slots -> Cell]
      /\ InList' = InList \cup {s}
      /\ clist'[1] = s
  BY <1>2, <1>3, AddClientEffect DEF IInv
<1>5. l # Heartbeat /\ l # NoLink
  BY NullAssumption
<1>6. TaskInv'
  BY <1>0, <1>5 DEF IInv, TaskInv, Early, Stopping
<1>7. \A t \in Slots : client[t].link # l
  BY <1>0, <1>5 DEF IInv, LinkInv
<1>8. l \in configured
  BY <1>0, <1>5 DEF IInv, LinkInv, TypeOK
<1>9. LinkInv'
  <2>1. \A t \in Slots : client'[t].link = IF t = s THEN l ELSE client[t].link
    BY <1>2, <1>4
  <2>2. \A t \in Slots : client'[t].type = "free" => t # s /\ client[t].type = "free"
    BY <1>2, <1>4
  <2>3. l \in configured' \ toStart'
    BY <1>0, <1>5, <1>8 DEF IInv, LinkInv
  <2>4. \A f : f \in configured \ toStart => f \in configured' \ toStart'
    OBVIOUS
  <2>5. \A f : f \in configured' \ toStart' => f = l \/ f \in configured \ toStart
    OBVIOUS
  <2>6. \A x, y \in Slots :
           client'[x].link # NoLink /\ client'[y].link = client'[x].link => x = y
    BY <1>0, <1>7, <2>1 DEF IInv, LinkInv
  <2>7. \A x \in Slots : client'[x].link # NoLink =>
           /\ client'[x].type # "free"
           /\ client'[x].link \in configured' \ toStart'
           /\ ~Queued(tasks', client'[x].link)
    <3> TAKE x \in Slots
    <3>1. CASE x = s
      BY <3>1, <2>1, <2>2, <2>3
    <3>2. CASE x # s
      BY <1>0, <3>2, <2>1, <2>2, <2>4 DEF IInv, LinkInv
    <3> QED BY <3>1, <3>2
  <2>8. \A f : Queued(tasks', f) => f = Heartbeat \/ f \in configured' \ toStart'
    BY <1>0, <2>4 DEF IInv, LinkInv
  <2>9. \A k \in configured' \ toStart' :
           Queued(tasks', k) \/ \E x \in Slots : client'[x].link = k
    <3> TAKE k \in configured' \ toStart'
    <3>1. CASE k = l
      BY <3>1, <2>1
    <3>2. CASE k # l
      <4>1. Queued(tasks, k) \/ \E x \in Slots : client[x].link = k
        BY <1>0, <3>2, <2>5 DEF IInv, LinkInv
      <4>2. \A x \in Slots : client[x].link = k => x # s
        BY <1>0, <1>4, <3>2, <2>5, NullAssumption DEF IInv, LinkInv, TypeOK
      <4> QED BY <3>2, <4>1, <4>2, <2>1
    <3> QED BY <3>1, <3>2
  <2> QED BY <2>6, <2>7, <2>8, <2>9 DEF LinkInv
<1>10. OpenInv'
  BY <1>2, <1>4, <1>5 DEF IInv, OpenInv
<1>11. AbortInv'
  <2>1. \A t \in InList : client[t].open \/ client[t].link # NoLink
    BY DEF IInv, HeapInv, OpenInv, Free
  <2>2. \A t \in Slots : client[t].link # NoLink => client[t].link \in configured
    BY <1>0 DEF IInv, LinkInv
  <2>3. ASSUME OneLink, NEW t \in InList, ~client[t].open PROVE FALSE
    <3>1. t \in Slots /\ client[t].link \in configured
      BY <2>1, <2>2, <2>3 DEF IInv, HeapInv
    <3>2. client[t].link = l
      BY <3>1, <2>3, <1>8 DEF OneLink
    <3> QED BY <3>1, <3>2, <1>7
  <2>4. OneLink' = OneLink
    BY DEF OneLink
  <2>5. \A t \in InList : t \in Slots /\ t # s
    BY <1>4 DEF IInv, HeapInv, Free
  <2> QED BY <1>4, <2>3, <2>4, <2>5 DEF AbortInv
<1>12. \A k \in Links : (\E x \in Slots : client'[x].link = k)
                          <=> k = l \/ \E x \in Slots : client[x].link = k
  <2>1. client'[s].link = l
    BY <1>2, <1>4
  <2>2. client[s].link = NoLink
    BY <1>4 DEF IInv, LinkInv
  <2> QED BY <2>1, <2>2, <1>4, NullAssumption
<1> QED BY <1>4, <1>6, <1>9, <1>10, <1>11, <1>12

\* The client at position i is destroyed by the poll loop: its link, if it has
\* one, passes to a reconnection task.
LEMMA ReapKeeps ==
    ASSUME IInv, NEW i \in 1..Len(clist), clist' = RemoveAt(clist, i),
           ClientDestroy(clist[i]), UNCHANGED <<configured, toStart>>,
           pc = "reap", pc' = "fill"
    PROVE  /\ HeapInv' /\ TaskInv' /\ LinkInv' /\ OpenInv'
           /\ tasks' \in Seq(Task)
           /\ clist[i] \in Slots
           /\ \A t \in Slots : client'[t].link =
                                  IF t = clist[i] THEN NoLink ELSE client[t].link
           /\ \A f : Queued(tasks', f) <=>
                 \/ Queued(tasks, f)
                 \/ client[clist[i]].link # NoLink /\ f = client[clist[i]].link
<1> DEFINE s == clist[i]
<1>1. /\ s \in Slots
      /\ HeapInv'
      /\ client'[s] = Freed
      /\ \A t \in Slots \ {s} : client'[t] = client[t]
  BY DestroyEffect DEF IInv
<1>2. ~shutdown /\ ~Stopping /\ ~Stopping' /\ pc \notin Early /\ pc' \notin Early
  BY DEF IInv, PhaseInv, Stopping, Early
<1> DEFINE l == client[s].link
<1>3. tasks' = IF l # NoLink THEN ServerAddTask(tasks, LinkTask(l)) ELSE tasks
  BY <1>2 DEF ClientDestroy
<1> HIDE DEF s
<1>4. tasks \in Seq(Task) /\ Once(tasks) /\ Sorted(tasks) /\ Queued(tasks, Heartbeat)
  BY <1>2 DEF IInv, TypeOK, TaskInv
<1>5. Freed.link = NoLink /\ Freed.type = "free"
  BY DEF Freed
<1>6. OpenInv'
  BY <1>1, <1>5 DEF IInv, OpenInv
<1>7. CASE l = NoLink
  <2>1. tasks' = tasks
    BY <1>3, <1>7
  <2>2. TaskInv'
    BY <2>1, <1>2, <1>4 DEF TaskInv
  <2>3. LinkInv'
    BY <2>1, <1>1, <1>2, <1>5, <1>7 DEF IInv, LinkInv
  <2> QED BY <2>1, <2>2, <2>3, <1>1, <1>4, <1>5, <1>6, <1>7 DEF s
<1>8. CASE l # NoLink
  <2>1. l \in configured \ toStart /\ ~Queued(tasks, l)
    BY <1>1, <1>2, <1>8 DEF IInv, LinkInv
  <2>2. l \in Links
    BY <2>1 DEF IInv, TypeOK
  <2>3. LinkTask(l) \in Task /\ LinkTask(l).fun = l
    BY <2>2, HeartbeatIsTask
  <2>4. /\ tasks' \in Seq(Task)
        /\ \A f : Queued(tasks', f) <=> Queued(tasks, f) \/ f = l
        /\ Once(tasks')
        /\ Sorted(tasks')
    BY <2>1, <2>3, <1>3, <1>4, <1>8, AddTaskProperties
  <2>5. TaskInv'
    BY <2>4, <1>4, <1>2 DEF TaskInv
  <2>6. \A t \in Slots : client'[t].link = IF t = s THEN NoLink ELSE client[t].link
    BY <1>1, <1>5
  <2>7. \A t \in Slots \ {s} : client[t].link # l
    BY <1>1, <1>2, <1>8 DEF IInv, LinkInv
  <2>8. LinkInv'
    <3>1. \A x, y \in Slots :
             client'[x].link # NoLink /\ client'[y].link = client'[x].link => x = y
      BY <2>6, <1>2 DEF IInv, LinkInv
    <3>2. \A x \in Slots : client'[x].link # NoLink =>
             /\ client'[x].type # "free"
             /\ client'[x].link \in configured' \ toStart'
             /\ ~Queued(tasks', client'[x].link)
      BY <2>4, <2>6, <2>7, <1>1, <1>2 DEF IInv, LinkInv
    <3>3. \A f : Queued(tasks', f) => f = Heartbeat \/ f \in configured' \ toStart'
      BY <2>1, <2>4, <1>2 DEF IInv, LinkInv
    <3>4. ASSUME NEW k \in configured' \ toStart'
          PROVE  Queued(tasks', k) \/ \E x \in Slots : client'[x].link = k
      <4>1. CASE k = l
        BY <4>1, <2>4
      <4>2. CASE k # l
        <5>1. k \in configured \ toStart /\ k # NoLink
          BY NullAssumption DEF IInv, TypeOK
        <5>2. Queued(tasks, k) \/ \E x \in Slots : client[x].link = k
          BY <5>1, <1>2 DEF IInv, LinkInv
        <5>3. \A x \in Slots : client[x].link = k => x # s
          BY <4>2
        <5> QED BY <5>2, <5>3, <2>4, <2>6
      <4> QED BY <4>1, <4>2
    <3> QED BY <3>1, <3>2, <3>3, <3>4 DEF LinkInv
  <2> QED BY <2>4, <2>5, <2>6, <2>8, <1>1, <1>6, <1>8 DEF s
<1> QED BY <1>7, <1>8

-----------------------------------------------------------------------------
(* Steps that keep the shape of the list and of the queue *)

Looping == {"read", "parse", "write", "error"}

LEMMA QuietCursor ==
    ASSUME IInv, Shape, cur' = cur, rd' = rd, wr' = wr, pc \in Looping,
           pc' \in Looping, pc = "read" => pc' = "read" \/ cur # NoSlot
    PROVE  CursorInv'
<1>1. InList' = InList
  BY DEF Shape, InList
<1> QED BY <1>1 DEF IInv, CursorInv, Looping

\* Inside the loop, only the client under the cursor becomes corrupt.
LEMMA QuietRead ==
    ASSUME IInv, Shape, cur' = cur, rd' = rd, pc \in Looping,
           pc' \in {"parse", "write", "error"},
           \A s \in Slots \ {cur} : client'[s].corrupt = client[s].corrupt
    PROVE  ReadInv'
<1>1. clist \in Seq(Slots) /\ \A j \in 1..Len(clist) : clist[j] \in Slots
  BY ElementOfSeq DEF IInv, TypeOK
<1>2. \A i, j \in 1..Len(clist) : clist[i] = clist[j] => i = j
  BY <1>1, RangeProperties DEF IInv, HeapInv
<1>3. SUFFICES ASSUME NEW i \in 1..Len(clist), NEW j \in 1..Len(clist),
                      clist[i] = cur, i < j, clist[j] \in rd,
                      client[clist[j]].type \in Connections
               PROVE  ~client'[clist[j]].corrupt
  BY <1>1 DEF ReadInv, Shape
<1>4. clist[j] # cur /\ clist[j] \in Slots
  <2>1. i # j
    BY <1>1, <1>3, LenProperties
  <2> QED BY <2>1, <1>1, <1>2, <1>3
<1>5. ~client[clist[j]].corrupt
  BY <1>3 DEF IInv, ReadInv, Looping
<1> QED BY <1>4, <1>5

LEMMA QuietAbort ==
    ASSUME IInv, Shape, UNCHANGED configured, pc' # "aborted",
           pc \in {"links", "schedule", "reap"} => pc' \in {"links", "schedule", "reap"}
    PROVE  AbortInv'
<1>1. InList' = InList /\ OneLink' = OneLink
  BY DEF Shape, InList, OneLink
<1>2. \A s \in InList : s \in Slots
  BY DEF IInv, HeapInv
<1> QED BY <1>1, <1>2 DEF IInv, AbortInv, Shape

LEMMA QuietStep ==
    ASSUME IInv, Shape, TaskShape, UNCHANGED <<configured, toStart>>,
           Stopping => Stopping', pc \in Early <=> pc' \in Early,
           pc' \in {"bind_ichat", "bind_s2s", "bind_ctl", "heartbeats", "links",
                    "reap", "fill", "select", "read", "parse", "write", "error",
                    "polled", "schedule", "closing", "killing", "stopped"},
           pc \in {"links", "schedule", "reap"} => pc' \in {"links", "schedule", "reap"},
           shutdown' \in BOOLEAN, cur' \in Slots \cup {NoSlot},
           rd' \in SUBSET Slots, wr' \in SUBSET Slots,
           CursorInv', PhaseInv', ReadInv'
    PROVE  IInv'
<1>1. TypeOK'
  BY DEF IInv, TypeOK, Shape, TaskShape
<1>2. HeapInv' /\ TaskInv' /\ LinkInv' /\ OpenInv'
  BY QuietKeeps
<1>3. AbortInv'
  BY QuietAbort
<1> QED BY <1>1, <1>2, <1>3 DEF IInv

\* A handler of the client under the cursor.
LEMMA HandlerStep ==
    ASSUME IInv, Shape, UNCHANGED <<tasks, configured, toStart, cur, rd, wr>>,
           pc \in Looping, pc' \in {"parse", "write", "error"},
           cur # NoSlot, shutdown' \in BOOLEAN,
           \A s \in Slots \ {cur} : client'[s].corrupt = client[s].corrupt
    PROVE  IInv'
<1>1. TaskShape
  BY SameTasks DEF IInv
<1>2. CursorInv'
  BY QuietCursor DEF Looping
<1>3. ReadInv'
  BY QuietRead
<1>4. PhaseInv'
  BY DEF PhaseInv, Stopping
<1>5. ~Stopping /\ ~Stopping' /\ pc \notin Early /\ pc' \notin Early
  BY DEF Stopping, Early, Looping
<1>6. pc \notin {"links", "schedule", "reap"}
  BY DEF Looping
<1>7. cur' \in Slots \cup {NoSlot} /\ rd' \in SUBSET Slots /\ wr' \in SUBSET Slots
  BY DEF IInv, TypeOK
<1> QED BY <1>1, <1>2, <1>3, <1>4, <1>5, <1>6, <1>7, QuietStep

-----------------------------------------------------------------------------
(* The steps before the dispatcher *)

LEMMA InitIInv == Init => IInv
<1> SUFFICES ASSUME Init PROVE IInv
  OBVIOUS
<1> USE DEF Init
<1>0. Freed \in Cell /\ Freed.type = "free" /\ Freed.link = NoLink
  BY DEF Freed, Cell
<1>1. TypeOK
  <2>1. clist \in Seq(Slots) /\ tasks \in Seq(Task)
    OBVIOUS
  <2>2. client \in [Slots -> Cell]
    BY <1>0
  <2>3. /\ shutdown \in BOOLEAN /\ cur \in Slots \cup {NoSlot}
        /\ rd \in SUBSET Slots /\ wr \in SUBSET Slots
        /\ configured \in SUBSET Links /\ toStart \in SUBSET configured
    OBVIOUS
  <2> QED BY <2>1, <2>2, <2>3 DEF TypeOK
<1>2. InList = {} /\ Free = Slots
  <2>1. clist \in Seq(Slots) /\ 1..Len(clist) = {}
    OBVIOUS
  <2>2. InList = {}
    BY <2>1, RangeProperties DEF InList
  <2>3. \A s \in Slots : client[s].type = "free"
    BY <1>0
  <2>4. Free = Slots
    BY <2>3 DEF Free
  <2> QED BY <2>2, <2>4
<1>3. HeapInv
  BY <1>2 DEF HeapInv, IsInjective
<1>4. CursorInv /\ PhaseInv /\ ReadInv
  BY <1>2 DEF CursorInv, PhaseInv, Stopping, ReadInv
<1>5. \A f : ~Queued(tasks, f)
  BY DEF Queued
<1>6. TaskInv
  BY <1>5 DEF TaskInv, Sorted, Once, Early
<1>7. LinkInv
  BY <1>0, <1>5 DEF LinkInv
<1>8. OpenInv
  BY <1>0 DEF OpenInv
<1>9. AbortInv
  BY <1>2 DEF AbortInv
<1> QED BY <1>1, <1>3, <1>4, <1>6, <1>7, <1>8, <1>9 DEF IInv

LEMMA BindPortStep ==
    ASSUME IInv, NEW here, NEW type \in Listeners, NEW next,
           here \in {"bind_ichat", "bind_s2s", "bind_ctl"},
           next \in {"bind_s2s", "bind_ctl", "heartbeats"},
           BindPort(here, type, next)
    PROVE  IInv'
<1> USE DEF BindPort
<1>1. ~Stopping /\ ~Stopping' /\ pc \in Early /\ pc' \in Early
  BY DEF Stopping, Early
<1>2. PhaseInv' /\ ReadInv'
  BY <1>1 DEF IInv, PhaseInv, ReadInv, Stopping
<1>3. CASE UNCHANGED <<clist, client>>
  <2>1. Shape /\ TaskShape
    BY <1>3, SameShape, SameTasks DEF IInv
  <2>2. CursorInv'
    BY <1>3 DEF IInv, CursorInv, InList
  <2>3. shutdown' \in BOOLEAN /\ cur' \in Slots \cup {NoSlot} /\ rd' \in SUBSET Slots
        /\ wr' \in SUBSET Slots /\ pc \notin {"links", "schedule", "reap"}
    BY DEF IInv, TypeOK
  <2> QED BY <1>1, <1>2, <2>1, <2>2, <2>3, QuietStep
<1>4. CASE \E s \in Slots : ServerAddClient(s, NewClient(type, NoLink, TRUE))
  <2>1. PICK s \in Slots : ServerAddClient(s, NewClient(type, NoLink, TRUE))
    BY <1>4
  <2> DEFINE c == NewClient(type, NoLink, TRUE)
  <2>2. c \in Cell /\ c.type # "free" /\ c.link = NoLink /\ c.open
    <3> HIDE DEF c
    <3>1. type \in Connections \cup Listeners /\ NoLink \in Links \cup {NoLink}
      OBVIOUS
    <3>2. /\ c \in Cell /\ c.type = type /\ c.link = NoLink
          /\ c.open = TRUE /\ type # "free"
      BY <3>1, NewClientIsCell DEF c
    <3> QED BY <3>2
  <2>3. ServerAddClient(s, c)
    BY <2>1
  <2> HIDE DEF c
  <2>4. HeapInv' /\ TaskInv' /\ LinkInv' /\ OpenInv'
    BY <1>1, <2>2, <2>3, AddPlainKeeps
  <2>5. /\ clist' \in Seq(Slots)
        /\ client' \in [Slots -> Cell]
        /\ InList' = InList \cup {s}
        /\ client'[s] = c
        /\ \A t \in Slots \ {s} : client'[t] = client[t]
    BY <2>2, <2>3, AddClientEffect DEF IInv
  <2>6. TypeOK'
    BY <2>5 DEF IInv, TypeOK
  <2>7. CursorInv'
    BY <2>5 DEF IInv, CursorInv
  <2>8. AbortInv'
    <3>1. OneLink' = OneLink
      BY DEF OneLink
    <3>2. \A t \in InList : t \in Slots
      BY DEF IInv, HeapInv
    <3> QED BY <2>2, <2>5, <3>1, <3>2 DEF IInv, AbortInv
  <2> QED BY <1>2, <2>4, <2>6, <2>7, <2>8 DEF IInv
<1> QED BY <1>3, <1>4

LEMMA RegisterHeartbeatsStep ==
    ASSUME IInv, RegisterHeartbeats
    PROVE  IInv'
<1> USE DEF RegisterHeartbeats
<1>1. Shape
  BY SameShape DEF IInv
<1>2. ~Stopping /\ ~Stopping' /\ pc \in Early /\ pc' \notin Early
  BY DEF Stopping, Early
<1>3. tasks \in Seq(Task) /\ Once(tasks) /\ Sorted(tasks) /\ ~Queued(tasks, Heartbeat)
  BY <1>2 DEF IInv, TypeOK, TaskInv
<1>4. /\ tasks' \in Seq(Task)
      /\ \A f : Queued(tasks', f) <=> Queued(tasks, f) \/ f = Heartbeat
      /\ Once(tasks')
      /\ Sorted(tasks')
  BY <1>3, HeartbeatIsTask, AddTaskProperties
<1>5. TypeOK'
  BY <1>4 DEF IInv, TypeOK
<1>6. InList' = InList /\ Free' = Free
  BY DEF InList, Free
<1>7. HeapInv' /\ CursorInv' /\ PhaseInv' /\ OpenInv' /\ ReadInv'
  BY <1>2, <1>6 DEF IInv, HeapInv, CursorInv, PhaseInv, OpenInv, ReadInv, Stopping
<1>8. TaskInv'
  BY <1>2, <1>4 DEF TaskInv
<1>9. LinkInv'
  <2>1. \A k \in configured \ toStart : k # Heartbeat /\ k # NoLink
    BY NullAssumption DEF IInv, TypeOK
  <2> QED BY <1>2, <1>4, <2>1 DEF IInv, LinkInv
<1>10. AbortInv'
  BY <1>1, QuietAbort
<1> QED BY <1>5, <1>7, <1>8, <1>9, <1>10 DEF IInv

LEMMA RegisterLinkStep ==
    ASSUME IInv, RegisterLink
    PROVE  IInv'
<1> USE DEF RegisterLink
<1>1. PICK l \in toStart : toStart' = toStart \ {l} /\ StartLink(l)
  OBVIOUS
<1>2. l \in Links /\ tasks \in Seq(Task) /\ Once(tasks) /\ Sorted(tasks)
  BY DEF IInv, TypeOK, TaskInv
<1>3. ~Stopping /\ ~Stopping'
  BY DEF Stopping
<1>4. ~Queued(tasks, l)
  BY <1>2, <1>3, NullAssumption DEF IInv, LinkInv
<1>5. \A f : Queued(tasks', f) <=> Queued(tasks, f) /\ f # l
  BY <1>4
<1>6. /\ HeapInv' /\ TaskInv' /\ LinkInv' /\ OpenInv' /\ AbortInv'
      /\ clist' \in Seq(Slots)
      /\ client' \in [Slots -> Cell]
      /\ InList \subseteq InList'
  BY <1>1, <1>2, <1>5, AddLinkKeeps
<1>7. TypeOK'
  BY <1>1, <1>6 DEF IInv, TypeOK
<1>8. CursorInv' /\ PhaseInv' /\ ReadInv'
  BY <1>3, <1>6 DEF IInv, CursorInv, PhaseInv, ReadInv, Stopping
<1> QED BY <1>6, <1>7, <1>8 DEF IInv

-----------------------------------------------------------------------------
(* server_poll *)

LEMMA LinksRegisteredStep ==
    ASSUME IInv, LinksRegistered
    PROVE  IInv'
<1> USE DEF LinksRegistered
<1>1. Shape /\ TaskShape
  BY SameShape, SameTasks DEF IInv
<1>2. CursorInv'
  BY DEF IInv, CursorInv, InList
<1>3. PhaseInv' /\ ReadInv'
  BY DEF IInv, PhaseInv, ReadInv, Stopping
<1>4. shutdown' \in BOOLEAN /\ cur' \in Slots \cup {NoSlot} /\ rd' \in SUBSET Slots
      /\ wr' \in SUBSET Slots
  BY DEF IInv, TypeOK
<1>5. ~Stopping /\ pc \notin Early /\ pc' \notin Early
  BY DEF Stopping, Early
<1> QED BY <1>1, <1>2, <1>3, <1>4, <1>5, QuietStep

\* The one client of the only link that may have no descriptor is the first of
\* the list and corrupt: the poll that finds it destroys it.
LEMMA ReapStep ==
    ASSUME IInv, Reap
    PROVE  IInv'
<1>1. PICK i \in 1..Len(clist) :
         /\ client[clist[i]].corrupt
         /\ \A j \in 1..(i - 1) : ~client[clist[j]].corrupt
         /\ clist' = RemoveAt(clist, i)
         /\ ClientDestroy(clist[i])
  BY DEF Reap
<1>2. /\ pc = "reap" /\ pc' = "fill"
      /\ UNCHANGED <<shutdown, cur, rd, wr, configured, toStart>>
  BY DEF Reap
<1>3. HeapInv' /\ TaskInv' /\ LinkInv' /\ OpenInv' /\ tasks' \in Seq(Task)
  BY <1>1, <1>2, ReapKeeps
<1>4. /\ clist[i] \in InList
      /\ clist' \in Seq(Slots)
      /\ client' \in [Slots -> Cell]
      /\ InList' = InList \ {clist[i]}
      /\ \A t \in Slots \ {clist[i]} : client'[t] = client[t]
  BY <1>1, DestroyEffect DEF IInv
<1>5. TypeOK'
  BY <1>2, <1>3, <1>4 DEF IInv, TypeOK
<1>6. CursorInv' /\ PhaseInv' /\ ReadInv'
  BY <1>2 DEF IInv, CursorInv, PhaseInv, ReadInv, Stopping
<1>7. AbortInv'
  <2>1. SUFFICES ASSUME OneLink, NEW t \in InList', ~client'[t].open PROVE FALSE
    BY <1>2 DEF AbortInv, OneLink
  <2>2. t \in InList /\ t # clist[i] /\ t \in Slots
    BY <1>4 DEF IInv, HeapInv
  <2>3. ~client[t].open /\ client[t].type # "free"
    BY <2>1, <2>2, <1>4 DEF IInv, HeapInv, Free
  <2>4. t = clist[1] /\ client[t].corrupt
    BY <2>1, <2>2, <2>3 DEF IInv, AbortInv, OpenInv
  <2>5. i # 1 => 1 \in 1..(i - 1)
    OBVIOUS
  <2> QED BY <2>2, <2>4, <2>5, <1>1
<1> QED BY <1>3, <1>5, <1>6, <1>7 DEF IInv

LEMMA NothingToReapStep ==
    ASSUME IInv, NothingToReap
    PROVE  IInv'
<1> USE DEF NothingToReap
<1>1. Shape /\ TaskShape
  BY SameShape, SameTasks DEF IInv
<1>2. InList' = InList /\ OneLink' = OneLink
  BY DEF InList, OneLink
<1>3. \A s \in InList : client[s].open
  BY DEF IInv, HeapInv, OpenInv, Free
<1>4. AbortInv'
  BY <1>2, <1>3 DEF AbortInv
<1>5. CursorInv' /\ PhaseInv' /\ ReadInv'
  BY <1>2 DEF IInv, CursorInv, PhaseInv, ReadInv, Stopping
<1>6. ~Stopping /\ pc \notin Early /\ pc' \notin Early
  BY DEF Stopping, Early
<1>7. HeapInv' /\ TaskInv' /\ LinkInv' /\ OpenInv'
  BY <1>1, <1>6, QuietKeeps
<1>8. TypeOK'
  BY <1>1 DEF IInv, TypeOK
<1> QED BY <1>4, <1>5, <1>7, <1>8 DEF IInv

\* The assertion can fail only when there are two links.
LEMMA AssertFdStep ==
    ASSUME IInv, AssertFd
    PROVE  IInv'
<1> USE DEF AssertFd
<1>1. Shape /\ TaskShape
  BY SameShape, SameTasks DEF IInv
<1>2. InList' = InList /\ OneLink' = OneLink
  BY DEF InList, OneLink
<1>3. ~OneLink
  BY DEF IInv, AbortInv
<1>4. AbortInv'
  BY <1>2, <1>3 DEF AbortInv
<1>5. CursorInv' /\ PhaseInv' /\ ReadInv'
  BY <1>2 DEF IInv, CursorInv, PhaseInv, ReadInv, Stopping
<1>6. ~Stopping /\ pc \notin Early /\ pc' \notin Early
  BY DEF Stopping, Early
<1>7. HeapInv' /\ TaskInv' /\ LinkInv' /\ OpenInv'
  BY <1>1, <1>6, QuietKeeps
<1>8. TypeOK'
  BY <1>1 DEF IInv, TypeOK
<1> QED BY <1>4, <1>5, <1>7, <1>8 DEF IInv

LEMMA FillStep ==
    ASSUME IInv, Fill
    PROVE  IInv'
<1> USE DEF Fill
<1>1. Shape /\ TaskShape
  BY SameShape, SameTasks DEF IInv
<1>2. InList' = InList
  BY DEF InList
<1>3. \A s \in rd' : client[s].type \in Connections => ~client[s].corrupt
  BY DEF CanRead, Listeners, Connections
<1>4. rd' \subseteq InList /\ wr' \subseteq InList /\ InList \subseteq Slots
  BY DEF IInv, HeapInv
<1>5. CursorInv' /\ PhaseInv'
  BY <1>2, <1>4 DEF IInv, CursorInv, PhaseInv, Stopping
<1>6. ReadInv'
  BY <1>3 DEF ReadInv
<1>7. ~Stopping /\ pc \notin Early /\ pc' \notin Early
  BY DEF Stopping, Early
<1>8. shutdown' \in BOOLEAN /\ cur' \in Slots \cup {NoSlot}
  BY DEF IInv, TypeOK
<1> QED BY <1>1, <1>4, <1>5, <1>6, <1>7, <1>8, QuietStep

LEMMA SelectStep ==
    ASSUME IInv, NEW d \in 0..MaxElapse, Select(d)
    PROVE  IInv'
<1> USE DEF Select
<1>1. Shape /\ TaskShape
  BY SameShape, ElapseShape DEF IInv
<1>2. InList' = InList /\ \A s \in InList : s \in Slots
  BY DEF IInv, HeapInv, InList
<1>3. clist # <<>> => clist[1] \in InList
  <2>1. ASSUME clist # <<>> PROVE clist[1] \in InList
    <3>1. clist \in Seq(Slots)
      BY DEF IInv, TypeOK
    <3>2. 1 \in 1..Len(clist)
      BY <2>1, <3>1, TailIsRemoveAt
    <3> QED BY <3>1, <3>2, RangeProperties DEF InList
  <2> QED BY <2>1
<1>4. cur' \in Slots \cup {NoSlot} /\ (cur' # NoSlot => cur' \in InList)
  BY <1>2, <1>3
<1>5. CursorInv' /\ PhaseInv'
  BY <1>2, <1>4 DEF IInv, CursorInv, PhaseInv, Stopping
<1>6. ReadInv'
  BY DEF IInv, ReadInv
<1>7. ~Stopping /\ pc \notin Early /\ pc' \notin Early
  BY DEF Stopping, Early
<1>8. shutdown' \in BOOLEAN /\ rd' \in SUBSET Slots /\ wr' \in SUBSET Slots
  BY DEF IInv, TypeOK
<1> QED BY <1>1, <1>4, <1>5, <1>6, <1>7, <1>8, QuietStep

LEMMA SelectFailsStep ==
    ASSUME IInv, NEW d \in 0..MaxElapse, SelectFails(d)
    PROVE  IInv'
<1> USE DEF SelectFails
<1>1. Shape /\ TaskShape
  BY SameShape, ElapseShape DEF IInv
<1>2. InList' = InList
  BY DEF InList
<1>3. CursorInv' /\ PhaseInv' /\ ReadInv'
  BY <1>2 DEF IInv, CursorInv, PhaseInv, ReadInv, Stopping
<1>4. ~Stopping /\ pc \notin Early /\ pc' \notin Early
  BY DEF Stopping, Early
<1>5. shutdown' \in BOOLEAN /\ cur' \in Slots \cup {NoSlot}
  BY DEF IInv, TypeOK
<1> QED BY <1>1, <1>3, <1>4, <1>5, QuietStep

LEMMA EndOfListStep ==
    ASSUME IInv, EndOfList
    PROVE  IInv'
<1> USE DEF EndOfList
<1>1. Shape /\ TaskShape
  BY SameShape, SameTasks DEF IInv
<1>2. InList' = InList
  BY DEF InList
<1>3. CursorInv' /\ PhaseInv' /\ ReadInv'
  BY <1>2 DEF IInv, CursorInv, PhaseInv, ReadInv, Stopping
<1>4. ~Stopping /\ pc \notin Early /\ pc' \notin Early
  BY DEF Stopping, Early
<1>5. shutdown' \in BOOLEAN /\ cur' \in Slots \cup {NoSlot}
  BY DEF IInv, TypeOK
<1> QED BY <1>1, <1>3, <1>4, <1>5, QuietStep

-----------------------------------------------------------------------------
(* The loop over the ready clients *)

\* A step inside the loop that changes nothing but the thread's position.
LEMMA LoopMove ==
    ASSUME IInv, pc \in Looping, cur # NoSlot, pc' \in {"parse", "write", "error"},
           UNCHANGED <<clist, client, tasks, shutdown, cur, rd, wr, configured, toStart>>
    PROVE  IInv' /\ Shape
<1>1. Shape
  BY SameShape DEF IInv
<1>2. shutdown' \in BOOLEAN
  BY DEF IInv, TypeOK
<1> QED BY <1>1, <1>2, HandlerStep

\* A step inside the loop that marks the client at the cursor corrupt.
LEMMA LoopCorrupt ==
    ASSUME IInv, pc \in Looping, cur # NoSlot, pc' \in {"parse", "write", "error"},
           Corrupt(cur),
           UNCHANGED <<clist, tasks, shutdown, cur, rd, wr, configured, toStart>>
    PROVE  IInv' /\ Shape
<1>1. cur \in Slots /\ client \in [Slots -> Cell] /\ shutdown' \in BOOLEAN
  BY DEF IInv, TypeOK
<1>2. Shape
  BY <1>1, CorruptShape DEF IInv
<1>3. \A s \in Slots \ {cur} : client'[s].corrupt = client[s].corrupt
  BY <1>1 DEF Corrupt
<1> QED BY <1>1, <1>2, <1>3, HandlerStep

\* A step inside the loop that sets flags other than corrupt.
LEMMA LoopFlags ==
    ASSUME IInv, pc \in Looping, cur # NoSlot, pc' \in {"parse", "write", "error"},
           client' \in [Slots -> Cell],
           \A s \in Slots : /\ client'[s].type = client[s].type
                            /\ client'[s].link = client[s].link
                            /\ client'[s].open = client[s].open
                            /\ client'[s].corrupt = client[s].corrupt,
           UNCHANGED <<clist, tasks, shutdown, cur, rd, wr, configured, toStart>>
    PROVE  IInv' /\ Shape
<1>1. Shape
  BY DEF Shape
<1>2. shutdown' \in BOOLEAN
  BY DEF IInv, TypeOK
<1> QED BY <1>1, <1>2, HandlerStep

\* A listener adds a client in front of the list: the positions of all others
\* move by one, and the new client is not in the read set.
LEMMA AcceptStep ==
    ASSUME IInv, Accept
    PROVE  IInv'
<1>1. /\ pc = "read" /\ cur # NoSlot /\ pc' = "write"
      /\ UNCHANGED <<tasks, shutdown, cur, rd, wr, configured, toStart>>
      /\ client[cur].type \in Listeners
  BY DEF Accept, Readable, Visiting
<1> DEFINE type == AcceptedAs(client[cur].type)
<1>2. PICK s \in Slots : ServerAddClient(s, NewClient(type, NoLink, TRUE))
  BY DEF Accept
<1> DEFINE c == NewClient(type, NoLink, TRUE)
<1>3. type \in Connections \cup Listeners /\ NoLink \in Links \cup {NoLink}
  BY <1>1 DEF AcceptedAs, Listeners, Connections
<1>4. ServerAddClient(s, c)
  BY <1>2
<1> HIDE DEF type
<1>5. c \in Cell /\ c.type # "free" /\ c.link = NoLink /\ c.open /\ ~c.corrupt
  <2> HIDE DEF c
  <2>1. /\ c \in Cell /\ c.type = type /\ c.link = NoLink
        /\ c.open = TRUE /\ c.corrupt = ~TRUE /\ type # "free"
    BY <1>3, NewClientIsCell DEF c
  <2> QED BY <2>1
<1> HIDE DEF c
<1>6. ~Stopping /\ ~Stopping' /\ pc \notin Early /\ pc' \notin Early
  BY <1>1 DEF Stopping, Early
<1>7. HeapInv' /\ TaskInv' /\ LinkInv' /\ OpenInv'
  BY <1>1, <1>4, <1>5, <1>6, AddPlainKeeps
<1>8. /\ clist' \in Seq(Slots)
      /\ client' \in [Slots -> Cell]
      /\ InList' = InList \cup {s}
      /\ s \notin InList
      /\ client'[s] = c
      /\ \A t \in Slots \ {s} : client'[t] = client[t]
  BY <1>4, <1>5, AddClientEffect DEF IInv
<1>9. TypeOK'
  BY <1>1, <1>8 DEF IInv, TypeOK
<1>10. CursorInv' /\ PhaseInv'
  BY <1>1, <1>6, <1>8 DEF IInv, CursorInv, PhaseInv, Stopping
<1>11. AbortInv'
  <2>1. OneLink' = OneLink
    BY <1>1 DEF OneLink
  <2>2. \A t \in InList : t \in Slots
    BY DEF IInv, HeapInv
  <2>3. OneLink => \A t \in InList : client[t].open
    BY <1>1 DEF IInv, AbortInv
  <2>4. OneLink => \A t \in InList' : client'[t].open
    BY <2>2, <2>3, <1>5, <1>8
  <2> QED BY <2>1, <2>4, <1>1 DEF AbortInv
<1>12. ReadInv'
  <2>1. clist \in Seq(Slots) /\ Len(clist) \in Nat
    BY LenProperties DEF IInv, TypeOK
  <2>2. /\ Len(clist') = Len(clist) + 1
        /\ \A j \in 1..(Len(clist) + 1) : clist'[j] = IF j = 1 THEN s ELSE clist[j - 1]
    <3>1. clist' = Cons(s, clist)
      BY <1>4 DEF ServerAddClient
    <3>2. /\ Len(Cons(s, clist)) = Len(clist) + 1
          /\ \A j \in 1..(Len(clist) + 1) :
                Cons(s, clist)[j] = IF j = 1 THEN s ELSE clist[j - 1]
      BY <2>1, ConsProperties
    <3> QED BY <3>1, <3>2
  <2>3. \A j \in 1..Len(clist) : clist[j] \in InList
    BY <2>1, RangeProperties DEF InList
  <2>4. cur \in InList /\ rd \subseteq InList
    BY <1>1 DEF IInv, CursorInv
  <2>5. SUFFICES ASSUME NEW i \in 1..Len(clist'), NEW j \in 1..Len(clist'),
                        clist'[i] = cur, i < j, clist'[j] \in rd,
                        client'[clist'[j]].type \in Connections
                 PROVE  ~client'[clist'[j]].corrupt
    BY <1>1 DEF ReadInv
  <2>6. i # 1 /\ j # 1
    BY <2>2, <2>4, <2>5, <1>8
  <2>7. /\ i - 1 \in 1..Len(clist) /\ j - 1 \in 1..Len(clist) /\ i - 1 < j - 1
        /\ clist[i - 1] = cur /\ clist'[j] = clist[j - 1]
    BY <2>1, <2>2, <2>5, <2>6
  <2>8. clist[j - 1] # s /\ clist[j - 1] \in Slots
    BY <2>3, <2>7, <1>8 DEF IInv, HeapInv
  <2>9. client'[clist'[j]] = client[clist[j - 1]]
    BY <2>7, <2>8, <1>8
  <2> QED BY <2>5, <2>7, <2>9, <1>1 DEF IInv, ReadInv
<1> QED BY <1>7, <1>9, <1>10, <1>11, <1>12 DEF IInv

\* clnt = clnt->next.
LEMMA VisitErrorStep ==
    ASSUME IInv, VisitError
    PROVE  IInv' /\ Shape
<1>1. /\ pc = "error" /\ cur # NoSlot /\ pc' = "read"
      /\ cur' = NextClient(cur)
      /\ UNCHANGED <<clist, tasks, shutdown, rd, wr, configured, toStart>>
      /\ client' = client \/ Corrupt(cur)
  BY DEF VisitError, Visiting
<1>2. /\ cur \in InList /\ cur \in Slots /\ client \in [Slots -> Cell]
      /\ clist \in Seq(Slots) /\ Len(clist) \in Nat
  BY <1>1, LenProperties DEF IInv, CursorInv, TypeOK
<1>3. Shape /\ TaskShape
  BY <1>1, <1>2, SameShape, SameTasks, CorruptShape DEF IInv
<1>4. \A s \in Slots \ {cur} : client'[s].corrupt = client[s].corrupt
  BY <1>1, <1>2 DEF Corrupt
<1>5. PICK i \in 1..Len(clist) :
         /\ clist[i] = cur
         /\ \A j \in 1..Len(clist) : clist[j] = cur => j = i
         /\ NextClient(cur) = IF i = Len(clist) THEN NoSlot ELSE clist[i + 1]
         /\ i # Len(clist) => i + 1 \in 1..Len(clist) /\ clist[i + 1] \in InList
  BY <1>2, NextClientIs DEF IInv
<1>6. cur' \in InList \cup {NoSlot} /\ InList \subseteq Slots /\ InList' = InList
  BY <1>1, <1>5 DEF IInv, HeapInv, InList
<1>7. CursorInv' /\ PhaseInv'
  BY <1>1, <1>6 DEF IInv, CursorInv, PhaseInv, Stopping
<1>8. ReadInv'
  <2>1. SUFFICES ASSUME NEW m \in 1..Len(clist), NEW j \in 1..Len(clist),
                        clist[m] = cur', m < j \/ m = j, clist[j] \in rd,
                        client'[clist[j]].type \in Connections
                 PROVE  ~client'[clist[j]].corrupt
    BY <1>1 DEF ReadInv
  <2>2. clist[m] \in Slots /\ clist[j] \in Slots
    BY <1>2, ElementOfSeq
  <2>3. i # Len(clist) /\ cur' = clist[i + 1]
    BY <2>1, <2>2, <1>1, <1>5, NullAssumption
  <2>4. \A a, b \in 1..Len(clist) : clist[a] = clist[b] => a = b
    BY <1>2, RangeProperties DEF IInv, HeapInv
  <2>5. m = i + 1
    BY <2>1, <2>3, <2>4, <1>5
  <2>6. i < j
    BY <2>1, <2>5, <1>2
  <2>7. clist[j] # cur
    BY <2>6, <1>2, <1>5
  <2>8. client[clist[j]].type \in Connections
    BY <2>1, <2>2, <1>3 DEF Shape
  <2>9. ~client[clist[j]].corrupt
    BY <2>1, <2>6, <2>8, <1>1, <1>5 DEF IInv, ReadInv
  <2> QED BY <2>2, <2>7, <2>9, <1>4
<1>9. ~Stopping /\ pc \notin Early /\ pc' \notin Early
  BY <1>1 DEF Stopping, Early
<1>10. shutdown' \in BOOLEAN /\ rd' \in SUBSET Slots /\ wr' \in SUBSET Slots
  BY <1>1 DEF IInv, TypeOK
<1> QED BY <1>1, <1>3, <1>6, <1>7, <1>8, <1>9, <1>10, QuietStep

LEMMA HandlersStep ==
    ASSUME IInv,
           \/ Skip("read", "write") \/ Skip("write", "error")
           \/ ReadFails \/ ReadData \/ ParseEnd \/ ParseBad \/ Dispatch \/ Login
           \/ Console \/ WriteAll \/ WriteFails
    PROVE  IInv' /\ Shape
<1>1. CASE Skip("read", "write") \/ Skip("write", "error")
  BY <1>1, LoopMove DEF Skip, Visiting, Looping
<1>2. CASE ReadFails
  BY <1>2, LoopCorrupt DEF ReadFails, Readable, Visiting, Looping
<1>3. CASE ReadData
  BY <1>3, LoopMove DEF ReadData, Readable, Visiting, Looping
<1>4. pc = "parse" => cur # NoSlot /\ cur \in Slots
  BY DEF IInv, CursorInv, TypeOK
<1>5. client \in [Slots -> Cell] /\ Slots \cap {NoSlot} = {}
  BY NullAssumption DEF IInv, TypeOK
<1>6. CASE ParseEnd
  BY <1>4, <1>6, LoopMove DEF ParseEnd, Looping
<1>7. CASE ParseBad
  BY <1>4, <1>7, LoopCorrupt DEF ParseBad, Looping
<1>8. CASE Dispatch
  <2>1. PICK to \in Receivers :
           client' = [s \in Slots |-> [client[s] EXCEPT !.pending = @ \/ s \in to]]
    BY <1>8 DEF Dispatch
  <2>2. \A s \in Slots :
           /\ client'[s] \in Cell
           /\ client'[s].type = client[s].type
           /\ client'[s].link = client[s].link
           /\ client'[s].open = client[s].open
           /\ client'[s].corrupt = client[s].corrupt
    <3> TAKE s \in Slots
    <3>1. client'[s] = [client[s] EXCEPT !.pending = client[s].pending \/ s \in to]
      BY <2>1
    <3>2. client[s] \in Cell /\ (client[s].pending \/ s \in to) \in BOOLEAN
      BY <1>5
    <3> HIDE DEF Dispatch
    <3> QED BY <3>1, <3>2 DEF Cell
  <2>3. client' \in [Slots -> Cell]
    BY <2>1, <2>2
  <2> QED BY <2>2, <2>3, <1>4, <1>8, LoopFlags DEF Dispatch, Looping
<1>9. CASE Login
  <2>1. client' = [client EXCEPT ![cur].auth = TRUE] /\ pc = "parse"
    BY <1>9 DEF Login
  <2>2. /\ client' \in [Slots -> Cell]
        /\ \A s \in Slots : /\ client'[s].type = client[s].type
                            /\ client'[s].link = client[s].link
                            /\ client'[s].open = client[s].open
                            /\ client'[s].corrupt = client[s].corrupt
    BY <2>1, <1>4, <1>5 DEF Cell
  <2> QED BY <2>1, <2>2, <1>4, <1>9, LoopFlags DEF Login, Looping
<1>10. CASE Console
  <2>1. /\ pc = "parse" /\ pc' = pc
        /\ UNCHANGED <<clist, tasks, cur, rd, wr, configured, toStart>>
    BY <1>10 DEF Console
  <2>2. CASE client' = [client EXCEPT ![cur].pending = TRUE] /\ UNCHANGED shutdown
    <3>1. /\ client' \in [Slots -> Cell]
          /\ \A s \in Slots : /\ client'[s].type = client[s].type
                              /\ client'[s].link = client[s].link
                              /\ client'[s].open = client[s].open
                              /\ client'[s].corrupt = client[s].corrupt
      BY <2>1, <2>2, <1>4, <1>5 DEF Cell
    <3> QED BY <3>1, <2>1, <2>2, <1>4, LoopFlags DEF Looping
  <2>3. CASE Corrupt(cur) /\ UNCHANGED shutdown
    BY <2>1, <2>3, <1>4, LoopCorrupt DEF Looping
  <2>4. CASE shutdown' = TRUE /\ UNCHANGED client
    <3>1. Shape
      BY <2>1, <2>4, SameShape DEF IInv
    <3> QED BY <3>1, <2>1, <2>4, <1>4, HandlerStep DEF Looping
  <2> QED BY <1>10, <2>2, <2>3, <2>4 DEF Console
<1>11. CASE WriteAll
  <2>1. /\ client' = [client EXCEPT ![cur].pending = FALSE]
        /\ pc = "write" /\ cur # NoSlot
    BY <1>11 DEF WriteAll, Writable, Visiting
  <2>2. cur \in Slots
    BY <2>1 DEF IInv, TypeOK
  <2>3. /\ client' \in [Slots -> Cell]
        /\ \A s \in Slots : /\ client'[s].type = client[s].type
                            /\ client'[s].link = client[s].link
                            /\ client'[s].open = client[s].open
                            /\ client'[s].corrupt = client[s].corrupt
    BY <2>1, <2>2, <1>5 DEF Cell
  <2> QED BY <2>1, <2>3, <1>11, LoopFlags DEF WriteAll, Looping
<1>12. CASE WriteFails
  BY <1>12, LoopCorrupt DEF WriteFails, Writable, Visiting, Looping
<1> QED BY <1>1, <1>2, <1>3, <1>6, <1>7, <1>8, <1>9, <1>10, <1>11, <1>12

-----------------------------------------------------------------------------
(* server_start_dispatcher, server_schedule and server_shutdown *)

LEMMA PolledStep ==
    ASSUME IInv, Polled
    PROVE  IInv'
<1> USE DEF Polled
<1>1. Shape /\ TaskShape
  BY SameShape, SameTasks DEF IInv
<1>2. CursorInv'
  BY DEF IInv, CursorInv, InList
<1>3. PhaseInv' /\ ReadInv'
  BY DEF IInv, PhaseInv, ReadInv, Stopping
<1>4. shutdown' \in BOOLEAN /\ cur' \in Slots \cup {NoSlot} /\ rd' \in SUBSET Slots
      /\ wr' \in SUBSET Slots
  BY DEF IInv, TypeOK
<1>5. ~Stopping /\ pc \notin Early /\ pc' \notin Early /\ pc' \in {"closing", "schedule"}
  BY DEF Stopping, Early
<1> QED BY <1>1, <1>2, <1>3, <1>4, <1>5, QuietStep

LEMMA RunHeartbeatStep ==
    ASSUME IInv, RunHeartbeat
    PROVE  IInv'
<1> USE DEF RunHeartbeat
<1>1. Shape
  BY SameShape DEF IInv
<1>2. ~Stopping /\ ~Stopping' /\ pc \notin Early /\ pc' \notin Early
  BY DEF Stopping, Early
<1>3. tasks \in Seq(Task) /\ tasks # <<>> /\ Once(tasks) /\ Sorted(tasks)
  BY DEF IInv, TypeOK, TaskInv, TaskDue
<1>4. /\ Tail(tasks) \in Seq(Task)
      /\ Once(Tail(tasks)) /\ Sorted(Tail(tasks))
      /\ \A f : Queued(Tail(tasks), f) <=> Queued(tasks, f) /\ f # Heartbeat
      /\ Queued(tasks, Heartbeat)
  BY <1>3, PopTaskProperties
<1>5. /\ tasks' \in Seq(Task)
      /\ \A f : Queued(tasks', f) <=> Queued(Tail(tasks), f) \/ f = Heartbeat
      /\ Once(tasks')
      /\ Sorted(tasks')
  BY <1>4, HeartbeatIsTask, AddTaskProperties
<1>6. TaskShape
  BY <1>4, <1>5 DEF TaskShape
<1>7. CursorInv' /\ PhaseInv' /\ ReadInv'
  BY DEF IInv, CursorInv, PhaseInv, ReadInv, InList, Stopping
<1>8. shutdown' \in BOOLEAN /\ cur' \in Slots \cup {NoSlot} /\ rd' \in SUBSET Slots
      /\ wr' \in SUBSET Slots
  BY DEF IInv, TypeOK
<1> QED BY <1>1, <1>2, <1>6, <1>7, <1>8, QuietStep

LEMMA RunLinkStep ==
    ASSUME IInv, NEW d \in 0..MaxElapse, RunLink(d)
    PROVE  IInv'
<1>1. /\ pc = "schedule" /\ tasks # <<>> /\ tasks[1].fun \in Links
      /\ tasks' = Elapse(Tail(tasks), d)
      /\ StartLink(tasks[1].fun)
      /\ UNCHANGED <<shutdown, pc, cur, rd, wr, configured, toStart>>
  BY DEF RunLink, TaskDue
<1> DEFINE l == tasks[1].fun
<1>2. tasks \in Seq(Task) /\ Once(tasks) /\ Sorted(tasks)
  BY DEF IInv, TypeOK, TaskInv
<1>3. /\ Tail(tasks) \in Seq(Task)
      /\ Once(Tail(tasks)) /\ Sorted(Tail(tasks))
      /\ \A f : Queued(Tail(tasks), f) <=> Queued(tasks, f) /\ f # l
      /\ Queued(tasks, l)
  BY <1>1, <1>2, PopTaskProperties
<1>4. d \in Nat
  BY DeltaAssumption
<1>5. /\ tasks' \in Seq(Task)
      /\ Once(tasks') /\ Sorted(tasks')
      /\ \A f : Queued(tasks', f) <=> Queued(tasks, f) /\ f # l
  BY <1>1, <1>3, <1>4, ElapseProperties
<1>6. l \in Links /\ StartLink(l)
  BY <1>1
<1> HIDE DEF l
<1>7. /\ HeapInv' /\ TaskInv' /\ LinkInv' /\ OpenInv' /\ AbortInv'
      /\ clist' \in Seq(Slots)
      /\ client' \in [Slots -> Cell]
      /\ InList \subseteq InList'
  BY <1>1, <1>3, <1>5, <1>6, AddLinkKeeps
<1>8. TypeOK'
  BY <1>1, <1>5, <1>7 DEF IInv, TypeOK
<1>9. CursorInv' /\ PhaseInv' /\ ReadInv'
  BY <1>1, <1>7 DEF IInv, CursorInv, PhaseInv, ReadInv, Stopping
<1> QED BY <1>7, <1>8, <1>9 DEF IInv

LEMMA ScheduleEndStep ==
    ASSUME IInv, ScheduleEnd
    PROVE  IInv'
<1> USE DEF ScheduleEnd
<1>1. Shape /\ TaskShape
  BY SameShape, SameTasks DEF IInv
<1>2. CursorInv' /\ PhaseInv' /\ ReadInv'
  BY DEF IInv, CursorInv, PhaseInv, ReadInv, InList, Stopping
<1>3. shutdown' \in BOOLEAN /\ cur' \in Slots \cup {NoSlot} /\ rd' \in SUBSET Slots
      /\ wr' \in SUBSET Slots
  BY DEF IInv, TypeOK
<1>4. ~Stopping /\ pc \notin Early /\ pc' \notin Early
  BY DEF Stopping, Early
<1> QED BY <1>1, <1>2, <1>3, <1>4, QuietStep

\* While the server goes down the links are no longer kept.
LEMMA CloseClientStep ==
    ASSUME IInv, CloseClient
    PROVE  IInv'
<1>1. /\ pc = "closing" /\ clist # <<>> /\ pc' = pc
      /\ clist' = Tail(clist)
      /\ ClientDestroy(Head(clist))
      /\ UNCHANGED <<shutdown, cur, rd, wr, configured, toStart>>
  BY DEF CloseClient
<1>2. shutdown /\ Stopping /\ Stopping'
  BY <1>1 DEF IInv, PhaseInv, Stopping
<1>3. tasks' = tasks
  BY <1>1, <1>2 DEF ClientDestroy
<1>4. clist \in Seq(Slots)
  BY DEF IInv, TypeOK
<1>5. 1 \in 1..Len(clist) /\ clist' = RemoveAt(clist, 1) /\ ClientDestroy(clist[1])
  BY <1>1, <1>4, TailIsRemoveAt
<1>6. /\ clist[1] \in Slots
      /\ clist' \in Seq(Slots)
      /\ client' \in [Slots -> Cell]
      /\ HeapInv'
      /\ InList' = InList \ {clist[1]}
      /\ client'[clist[1]] = Freed
      /\ \A t \in Slots \ {clist[1]} : client'[t] = client[t]
  BY <1>5, DestroyEffect DEF IInv
<1>7. TypeOK'
  BY <1>1, <1>3, <1>6 DEF IInv, TypeOK
<1>8. CursorInv' /\ PhaseInv' /\ ReadInv'
  BY <1>1, <1>2, <1>6 DEF IInv, CursorInv, PhaseInv, ReadInv, Stopping
<1>9. TaskInv' /\ LinkInv'
  <2>1. Freed.link = NoLink
    BY DEF Freed
  <2>2. \A t \in Slots : client'[t].link = IF t = clist[1] THEN NoLink ELSE client[t].link
    BY <2>1, <1>6
  <2>3. \A t \in Slots : client'[t].link # NoLink =>
           client'[t].type = client[t].type /\ client'[t].link = client[t].link
    BY <2>2, <1>6
  <2> QED BY <2>2, <2>3, <1>1, <1>2, <1>3 DEF IInv, TaskInv, LinkInv
<1>10. OpenInv'
  <2>1. Freed.type = "free"
    BY DEF Freed
  <2> QED BY <2>1, <1>6 DEF IInv, OpenInv
<1>11. AbortInv'
  <2>1. \A t \in InList' : t \in InList /\ client'[t] = client[t]
    BY <1>6 DEF IInv, HeapInv
  <2> QED BY <2>1, <1>1 DEF IInv, AbortInv, OneLink
<1> QED BY <1>6, <1>7, <1>8, <1>9, <1>10, <1>11 DEF IInv

LEMMA StoppingStep ==
    ASSUME IInv, ClientsClosed \/ KillTask \/ TasksKilled
    PROVE  IInv'
<1>1. /\ pc \in {"closing", "killing"} /\ pc' \in {"killing", "stopped"}
      /\ tasks' = tasks \/ (tasks # <<>> /\ tasks' = Tail(tasks))
      /\ UNCHANGED <<clist, client, shutdown, cur, rd, wr, configured, toStart>>
  BY DEF ClientsClosed, KillTask, TasksKilled
<1>2. Shape
  BY <1>1, SameShape DEF IInv
<1>3. tasks \in Seq(Task) /\ Once(tasks) /\ Sorted(tasks)
  BY DEF IInv, TypeOK, TaskInv
<1>4. /\ tasks' \in Seq(Task) /\ Once(tasks') /\ Sorted(tasks')
      /\ \A f : Queued(tasks', f) => Queued(tasks, f)
  BY <1>1, <1>3, PopTaskProperties
<1>5. Stopping /\ Stopping'
  BY <1>1 DEF Stopping
<1>6. TypeOK'
  BY <1>1, <1>4 DEF IInv, TypeOK
<1>7. InList' = InList /\ Free' = Free
  BY <1>1 DEF InList, Free
<1>8. HeapInv' /\ CursorInv' /\ PhaseInv' /\ OpenInv' /\ ReadInv'
  BY <1>1, <1>5, <1>7
  DEF IInv, HeapInv, CursorInv, PhaseInv, OpenInv, ReadInv, Stopping
<1>9. TaskInv' /\ LinkInv'
  BY <1>1, <1>4, <1>5 DEF IInv, TaskInv, LinkInv
<1>10. AbortInv'
  BY <1>1, <1>2, QuietAbort
<1> QED BY <1>6, <1>8, <1>9, <1>10 DEF IInv

LEMMA StutterStep ==
    ASSUME IInv, UNCHANGED vars
    PROVE  IInv'
<1> USE DEF vars
<1>1. InList' = InList /\ Free' = Free /\ OneLink' = OneLink /\ (Stopping' <=> Stopping)
  BY DEF InList, Free, OneLink, Stopping
<1>2. TypeOK' /\ HeapInv' /\ CursorInv' /\ PhaseInv' /\ TaskInv'
  BY <1>1 DEF IInv, TypeOK, HeapInv, CursorInv, PhaseInv, TaskInv
<1>3. LinkInv' /\ OpenInv' /\ AbortInv' /\ ReadInv'
  BY <1>1 DEF IInv, LinkInv, OpenInv, AbortInv, ReadInv
<1> QED BY <1>2, <1>3 DEF IInv

-----------------------------------------------------------------------------
(* The inductive invariant *)

LEMMA Inductive == IInv /\ [Next]_vars => IInv'
<1> SUFFICES ASSUME IInv, [Next]_vars PROVE IInv'
  OBVIOUS
<1>1. CASE BindPorts
  BY <1>1, BindPortStep DEF BindPorts, Listeners
<1>2. CASE RegisterHeartbeats \/ RegisterLink \/ LinksRegistered
  BY <1>2, RegisterHeartbeatsStep, RegisterLinkStep, LinksRegisteredStep
<1>3. CASE Poll
  <2>1. CASE Reap \/ NothingToReap \/ AssertFd \/ Fill
    BY <2>1, ReapStep, NothingToReapStep, AssertFdStep, FillStep
  <2>2. CASE \E d \in 0..MaxElapse : Select(d) \/ SelectFails(d)
    BY <2>2, SelectStep, SelectFailsStep
  <2>3. CASE EndOfList \/ Accept \/ VisitError
    BY <2>3, EndOfListStep, AcceptStep, VisitErrorStep
  <2>4. CASE \/ Skip("read", "write") \/ Skip("write", "error")
             \/ ReadFails \/ ReadData \/ ParseEnd \/ ParseBad \/ Dispatch \/ Login
             \/ Console \/ WriteAll \/ WriteFails
    BY <2>4, HandlersStep
  <2> QED BY <1>3, <2>1, <2>2, <2>3, <2>4 DEF Poll
<1>4. CASE Schedule
  BY <1>4, RunHeartbeatStep, RunLinkStep, ScheduleEndStep DEF Schedule
<1>5. CASE Polled \/ CloseClient \/ ClientsClosed \/ KillTask \/ TasksKilled
  BY <1>5, PolledStep, CloseClientStep, StoppingStep
<1>6. CASE Ended \/ UNCHANGED vars
  BY <1>6, StutterStep DEF Ended
<1> QED BY <1>1, <1>2, <1>3, <1>4, <1>5, <1>6 DEF Next

\* Every reachable state satisfies the inductive invariant.
THEOREM Invariance == Spec => []IInv
<1>1. Init => IInv
  BY InitIInv
<1>2. IInv /\ [Next]_vars => IInv'
  BY Inductive
<1> QED BY <1>1, <1>2, PTL DEF Spec

-----------------------------------------------------------------------------
(* The properties of ServerLoop, as theorems.  Each follows from the       *)
(* inductive invariant; the last one says that the server implements       *)
(* LinkSupervisor.                                                         *)

\* The variables of the server loop keep their types.
THEOREM Typing == Spec => []TypeOK
<1>1. IInv => TypeOK
  BY DEF IInv
<1> QED BY <1>1, Invariance, PTL

\* A link has a client in the list exactly when a heap cell says so.
LEMMA AttachedIs ==
    ASSUME IInv, ~Stopping, NEW l \in Links
    PROVE  /\ {x \in InList : client[x].link = l} = {x \in Slots : client[x].link = l}
           /\ l # NoLink /\ l # Heartbeat
<1>1. l # NoLink /\ l # Heartbeat
  BY NullAssumption
<1>2. \A x \in Slots : client[x].link = l => x \in InList
  BY <1>1 DEF IInv, LinkInv, HeapInv, Free
<1>3. InList \subseteq Slots
  BY DEF IInv, HeapInv
<1> QED BY <1>1, <1>2, <1>3

\* Whatever fails, a registered link has exactly one owner until the server is
\* stopped: its client or its reconnection task.
THEOREM LinksConserved == Spec => []LinkConservation
<1>1. IInv => LinkConservation
  <2>1. SUFFICES ASSUME IInv, ~Stopping, NEW l \in Links
                 PROVE  IF l \in configured \ toStart
                        THEN \E o \in Owners(l) : Owners(l) = {o}
                        ELSE Owners(l) = {}
    BY DEF LinkConservation
  <2> DEFINE C == {x \in Slots : client[x].link = l}
             T == {x \in 1..Len(tasks) : tasks[x].fun = l}
  <2>2. /\ Owners(l) = {<<"client", s>> : s \in C} \cup {<<"task", i>> : i \in T}
        /\ l # NoLink /\ l # Heartbeat
    BY <2>1, AttachedIs DEF Owners
  <2>3. \A s, t \in C : s = t
    BY <2>1, <2>2 DEF IInv, LinkInv
  <2>4. \A i, j \in T : i = j
    BY <2>1 DEF IInv, TaskInv, Once
  <2>5. C # {} => l \in configured \ toStart /\ T = {}
    BY <2>1, <2>2 DEF IInv, LinkInv, Queued
  <2>6. T # {} => l \in configured \ toStart
    BY <2>1, <2>2 DEF IInv, LinkInv, Queued
  <2>7. l \in configured \ toStart => C # {} \/ T # {}
    BY <2>1 DEF IInv, LinkInv, Queued
  <2> HIDE DEF C, T
  <2>8. CASE C # {}
    <3>1. PICK s \in C : C = {s}
      BY <2>3, <2>8
    <3>2. Owners(l) = {<<"client", s>>}
      BY <3>1, <2>2, <2>5, <2>8
    <3> QED BY <3>2, <2>5, <2>8
  <2>9. CASE C = {} /\ T # {}
    <3>1. PICK i \in T : T = {i}
      BY <2>4, <2>9
    <3>2. Owners(l) = {<<"task", i>>}
      BY <3>1, <2>2, <2>9
    <3> QED BY <3>2, <2>6, <2>9
  <2>10. CASE C = {} /\ T = {}
    BY <2>10, <2>2, <2>7
  <2> QED BY <2>8, <2>9, <2>10
<1> QED BY <1>1, Invariance, PTL

\* While the dispatcher runs, one heartbeat task is queued and only one.
THEOREM HeartbeatKept == Spec => []AlwaysOneHeartbeat
<1>1. IInv => AlwaysOneHeartbeat
  <2>1. SUFFICES ASSUME IInv, pc \notin Early, ~Stopping
                 PROVE  \E i \in 1..Len(tasks) :
                           \A j \in 1..Len(tasks) : tasks[j].fun = Heartbeat <=> j = i
    BY DEF AlwaysOneHeartbeat, Early
  <2>2. Queued(tasks, Heartbeat) /\ Once(tasks)
    BY <2>1 DEF IInv, TaskInv
  <2>3. PICK i \in 1..Len(tasks) : tasks[i].fun = Heartbeat
    BY <2>2 DEF Queued
  <2>4. \A j \in 1..Len(tasks) : tasks[j].fun = Heartbeat <=> j = i
    BY <2>2, <2>3 DEF Once
  <2> QED BY <2>4
<1> QED BY <1>1, Invariance, PTL

\* The head of the task queue is the next task to run.
THEOREM QueueSorted == Spec => []TasksSorted
<1>1. IInv => TasksSorted
  BY DEF IInv, TaskInv, Sorted, TasksSorted
<1> QED BY <1>1, Invariance, PTL

\* Neither the list nor the loop over it ever holds a freed client.
THEOREM NoDangling == Spec => []NoDanglingClient
<1>1. IInv => NoDanglingClient
  BY DEF IInv, HeapInv, CursorInv, NoDanglingClient
<1> QED BY <1>1, Invariance, PTL

\* The read handler of a connection is never run for a corrupt client.
THEOREM ReadsLive == Spec => []ReadOnlyLive
<1>1. IInv => ReadOnlyLive
  <2>1. SUFFICES ASSUME IInv, pc = "read", cur \in rd, client[cur].type \in Connections
                 PROVE  ~client[cur].corrupt
    BY DEF ReadOnlyLive
  <2>2. cur \in InList
    BY <2>1 DEF IInv, CursorInv
  <2>3. PICK i \in 1..Len(clist) : clist[i] = cur
    <3>1. clist \in Seq(Slots)
      BY <2>1 DEF IInv, TypeOK
    <3> QED BY <2>2, <3>1, RangeProperties DEF InList
  <2> QED BY <2>1, <2>3 DEF IInv, ReadInv
<1> QED BY <1>1, Invariance, PTL

\* A server with at most one link never fails the assertion of server_poll.
THEOREM NoAbort == Spec => []OneLinkNeverAborts
<1>1. IInv => OneLinkNeverAborts
  BY DEF IInv, AbortInv, OneLink, OneLinkNeverAborts
<1> QED BY <1>1, Invariance, PTL

-----------------------------------------------------------------------------
(* The end of the server *)

\* close_clients and kill_tasks have emptied their list when they return.
ExitInv ==
    /\ pc \in {"killing", "stopped"} => clist = <<>>
    /\ pc = "stopped" => tasks = <<>>

LEMMA ExitInductive == ExitInv /\ [Next]_vars => ExitInv'
<1> SUFFICES ASSUME ExitInv, [Next]_vars PROVE ExitInv'
  OBVIOUS
<1>1. CASE BindPorts \/ RegisterHeartbeats \/ RegisterLink \/ LinksRegistered
  BY <1>1 DEF BindPorts, BindPort, RegisterHeartbeats, RegisterLink, LinksRegistered,
              ExitInv
<1>2. CASE Poll
  BY <1>2 DEF Poll, Reap, NothingToReap, AssertFd, Fill, Select, SelectFails, EndOfList,
              Skip, Visiting, Accept, Readable, ReadFails, ReadData, ParseEnd, ParseBad,
              Dispatch, Login, Console, WriteAll, Writable, WriteFails, VisitError,
              ExitInv
<1>3. CASE Polled \/ Schedule
  BY <1>3 DEF Polled, Schedule, RunHeartbeat, RunLink, ScheduleEnd, ExitInv
<1>4. CASE CloseClient
  BY <1>4 DEF CloseClient, ExitInv
<1>5. CASE ClientsClosed \/ KillTask \/ TasksKilled
  BY <1>5 DEF ClientsClosed, KillTask, TasksKilled, ExitInv
<1>6. CASE Ended \/ UNCHANGED vars
  BY <1>6 DEF Ended, vars, ExitInv
<1> QED BY <1>1, <1>2, <1>3, <1>4, <1>5, <1>6 DEF Next

\* When server_shutdown returns every client and every task has been freed.
THEOREM ExitsClean == Spec => []CleanExit
<1>1. Init => ExitInv
  BY DEF Init, ExitInv
<1>2. IInv /\ ExitInv => CleanExit
  <2>1. SUFFICES ASSUME IInv, ExitInv, pc = "stopped"
                 PROVE  clist = <<>> /\ tasks = <<>> /\ Free = Slots
    BY DEF CleanExit
  <2>2. clist \in Seq(Slots) /\ 1..Len(clist) = {}
    BY <2>1 DEF ExitInv
  <2>3. InList = {}
    BY <2>2, RangeProperties DEF InList
  <2> QED BY <2>1, <2>3 DEF IInv, HeapInv, ExitInv, Free
<1> QED BY <1>1, <1>2, ExitInductive, Invariance, PTL DEF Spec

-----------------------------------------------------------------------------
(* The server implements LinkSupervisor *)

Attached(l) == \E s \in Slots : client[s].link = l

StateOf(l) == IF Attached(l) THEN "attached"
              ELSE IF Queued(tasks, l) THEN "waiting" ELSE "off"

LEMMA StateIs == IInv => \A l \in Links : LinkState(l) = StateOf(l)
<1> SUFFICES ASSUME IInv, NEW l \in Links PROVE LinkState(l) = StateOf(l)
  OBVIOUS
<1>1. (\E s \in InList : client[s].link = l) <=> Attached(l)
  BY NullAssumption DEF IInv, LinkInv, HeapInv, Free, Attached
<1> QED BY <1>1 DEF LinkState, StateOf, Queued

\* The states of the links before and after a step.
LEMMA StatesAre ==
    ASSUME IInv, IInv'
    PROVE  /\ [l \in Links |-> LinkState(l)] = [l \in Links |-> StateOf(l)]
           /\ [l \in Links |-> LinkState(l)]' = [l \in Links |-> StateOf(l)']
<1>1. \A l \in Links : LinkState(l) = StateOf(l)
  BY StateIs
<1>2. (IInv => \A l \in Links : LinkState(l) = StateOf(l))'
  BY StateIs, PTL
<1>3. \A l \in Links : LinkState(l)' = StateOf(l)'
  BY <1>2
<1> QED BY <1>1, <1>3

\* One link moves.
LEMMA MoveStep ==
    ASSUME IInv, IInv', UNCHANGED shutdown, NEW l \in Links, NEW from, NEW to,
           StateOf(l) = from, StateOf(l)' = to,
           \A k \in Links \ {l} : StateOf(k)' = StateOf(k)
    PROVE  Supervisor!Move(l, from, to)
BY StatesAre DEF Supervisor!Move

\* No link moves.
LEMMA NoMoveStep ==
    ASSUME IInv, IInv', UNCHANGED shutdown,
           \A k \in Links : StateOf(k)' = StateOf(k)
    PROVE  UNCHANGED Supervisor!vars
BY StatesAre DEF Supervisor!vars

LEMMA ShapeStates ==
    ASSUME Shape, TaskShape, NEW k \in Links
    PROVE  StateOf(k)' = StateOf(k)
BY DEF Shape, TaskShape, StateOf, Attached

LEMMA QuietStutters ==
    ASSUME IInv, IInv', Shape, TaskShape, UNCHANGED shutdown
    PROVE  UNCHANGED Supervisor!vars
BY ShapeStates, NoMoveStep

\* A client that is not an outgoing link is added.
LEMMA PlainStutters ==
    ASSUME IInv, IInv', NEW s \in Slots, NEW c \in Cell, c.type # "free", c.link = NoLink,
           ServerAddClient(s, c), UNCHANGED <<tasks, shutdown>>
    PROVE  UNCHANGED Supervisor!vars
<1>1. /\ client[s].type = "free"
      /\ client'[s] = c
      /\ \A t \in Slots \ {s} : client'[t] = client[t]
  BY AddClientEffect DEF IInv
<1>2. \A t \in Slots : client'[t].link = client[t].link
  BY <1>1 DEF IInv, LinkInv
<1>3. \A k \in Links : StateOf(k)' = StateOf(k)
  BY <1>2 DEF StateOf, Attached
<1> QED BY <1>3, NoMoveStep

LEMMA PlainClient ==
    ASSUME NEW type \in Connections \cup Listeners
    PROVE  /\ NewClient(type, NoLink, TRUE) \in Cell
           /\ NewClient(type, NoLink, TRUE).type # "free"
           /\ NewClient(type, NoLink, TRUE).link = NoLink
<1> DEFINE c == NewClient(type, NoLink, TRUE)
<1> HIDE DEF c
<1>1. NoLink \in Links \cup {NoLink} /\ TRUE \in BOOLEAN
  OBVIOUS
<1>2. c \in Cell /\ c.type = type /\ c.link = NoLink /\ type # "free"
  BY <1>1, NewClientIsCell DEF c
<1>3. c \in Cell /\ c.type # "free" /\ c.link = NoLink
  BY <1>2
<1> QED BY <1>3 DEF c

\* The server is up as long as tasks are looked at.
LEMMA UpBefore == IInv /\ pc \in {"links", "reap", "schedule"} => ~shutdown
BY DEF IInv, PhaseInv, Stopping

LEMMA StartRefines ==
    ASSUME IInv, IInv', RegisterLink
    PROVE  Supervisor!Next
<1>1. PICK l \in toStart : toStart' = toStart \ {l} /\ StartLink(l)
  BY DEF RegisterLink
<1>2. pc = "links" /\ UNCHANGED <<tasks, shutdown, pc, configured>>
  BY DEF RegisterLink
<1>3. l \in Links /\ tasks \in Seq(Task) /\ Once(tasks) /\ Sorted(tasks)
  BY DEF IInv, TypeOK, TaskInv
<1>4. ~Queued(tasks, l) /\ ~Attached(l)
  BY <1>3, NullAssumption DEF IInv, LinkInv, Attached
<1>5. \A k \in Links : (\E x \in Slots : client'[x].link = k)
                          <=> k = l \/ \E x \in Slots : client[x].link = k
  BY <1>1, <1>2, <1>3, <1>4, AddLinkKeeps
<1>6. StateOf(l) = "off" /\ StateOf(l)' = "attached"
  BY <1>3, <1>4, <1>5 DEF StateOf, Attached
<1>7. \A k \in Links \ {l} : StateOf(k)' = StateOf(k)
  BY <1>2, <1>5 DEF StateOf, Attached
<1>8. Supervisor!Move(l, "off", "attached")
  BY <1>2, <1>3, <1>6, <1>7, MoveStep
<1> QED BY <1>2, <1>3, <1>8, UpBefore DEF Supervisor!Start, Supervisor!Next

LEMMA RetryRefines ==
    ASSUME IInv, IInv', NEW d \in 0..MaxElapse, RunLink(d)
    PROVE  Supervisor!Next
<1>1. /\ pc = "schedule" /\ tasks # <<>> /\ tasks[1].fun \in Links
      /\ tasks' = Elapse(Tail(tasks), d)
      /\ StartLink(tasks[1].fun)
      /\ UNCHANGED <<shutdown, pc, configured, toStart>>
  BY DEF RunLink, TaskDue
<1>0. PICK l \in Links : tasks[1].fun = l
  BY <1>1
<1>2. tasks \in Seq(Task) /\ Once(tasks) /\ Sorted(tasks)
  BY DEF IInv, TypeOK, TaskInv
<1>3. /\ Tail(tasks) \in Seq(Task)
      /\ Once(Tail(tasks)) /\ Sorted(Tail(tasks))
      /\ \A f : Queued(Tail(tasks), f) <=> Queued(tasks, f) /\ f # l
      /\ Queued(tasks, l)
  BY <1>0, <1>1, <1>2, PopTaskProperties
<1>4. /\ tasks' \in Seq(Task)
      /\ Once(tasks') /\ Sorted(tasks')
      /\ \A f : Queued(tasks', f) <=> Queued(tasks, f) /\ f # l
  <2>1. d \in Nat
    BY DeltaAssumption
  <2> QED BY <2>1, <1>1, <1>3, ElapseProperties
<1>5. l \in Links /\ StartLink(l)
  BY <1>0, <1>1
<1>6. \A k \in Links : (\E x \in Slots : client'[x].link = k)
                          <=> k = l \/ \E x \in Slots : client[x].link = k
  BY <1>1, <1>3, <1>4, <1>5, AddLinkKeeps
<1>7. ~Attached(l)
  BY <1>3, <1>5, NullAssumption DEF IInv, LinkInv, Attached
<1>8. StateOf(l) = "waiting" /\ StateOf(l)' = "attached"
  BY <1>3, <1>5, <1>6, <1>7 DEF StateOf, Attached
<1>9. \A k \in Links \ {l} : StateOf(k)' = StateOf(k)
  BY <1>4, <1>6 DEF StateOf, Attached
<1>10. Supervisor!Move(l, "waiting", "attached")
  BY <1>1, <1>5, <1>8, <1>9, MoveStep
<1> QED BY <1>1, <1>5, <1>10, UpBefore DEF Supervisor!Retry, Supervisor!Next

LEMMA ReapRefines ==
    ASSUME IInv, IInv', Reap
    PROVE  [Supervisor!Next]_(Supervisor!vars)
<1>1. PICK i \in 1..Len(clist) :
         clist' = RemoveAt(clist, i) /\ ClientDestroy(clist[i])
  BY DEF Reap
<1>2. pc = "reap" /\ pc' = "fill" /\ UNCHANGED <<shutdown, configured, toStart>>
  BY DEF Reap
<1>3. PICK s \in Slots, l \in Links \cup {NoLink} :
         /\ client[s].link = l
         /\ \A t \in Slots : client'[t].link = IF t = s THEN NoLink ELSE client[t].link
         /\ \A f : Queued(tasks', f) <=> Queued(tasks, f) \/ (l # NoLink /\ f = l)
  <2>1. client[clist[i]] \in Cell /\ clist[i] \in Slots
    BY <1>1, <1>2, ReapKeeps DEF IInv, TypeOK
  <2>2. client[clist[i]].link \in Links \cup {NoLink}
    BY <2>1 DEF Cell
  <2> QED BY <2>1, <2>2, <1>1, <1>2, ReapKeeps
<1>4. CASE l = NoLink
  <2>1. \A k \in Links : StateOf(k)' = StateOf(k)
    BY <1>3, <1>4, NullAssumption DEF StateOf, Attached
  <2> QED BY <2>1, <1>2, NoMoveStep
<1>5. CASE l # NoLink
  <2>1. l \in Links
    BY <1>5
  <2>2. \A t \in Slots : client[t].link = l => t = s
    BY <1>3, <1>5 DEF IInv, LinkInv
  <2>3. StateOf(l) = "attached"
    BY <1>3 DEF StateOf, Attached
  <2>4. StateOf(l)' = "waiting"
    BY <2>2, <1>3, <1>5 DEF StateOf, Attached
  <2>5. \A k \in Links \ {l} : StateOf(k)' = StateOf(k)
    <3> TAKE k \in Links \ {l}
    <3>1. \A t \in Slots : client'[t].link = k <=> client[t].link = k
      BY <1>3, NullAssumption
    <3>2. Queued(tasks', k) <=> Queued(tasks, k)
      BY <1>3
    <3> QED BY <3>1, <3>2 DEF StateOf, Attached
  <2>6. Supervisor!Move(l, "attached", "waiting")
    BY <2>1, <2>3, <2>4, <2>5, <1>2, MoveStep
  <2> QED BY <2>1, <2>6, <1>2, UpBefore DEF Supervisor!Lose, Supervisor!Next
<1> QED BY <1>4, <1>5

\* The client of a link, or its task, is destroyed while the server goes down.
LEMMA DropRefines ==
    ASSUME IInv, IInv', CloseClient \/ KillTask
    PROVE  [Supervisor!Next]_(Supervisor!vars)
<1>1. shutdown /\ UNCHANGED <<shutdown, configured, toStart>>
  BY DEF CloseClient, KillTask, IInv, PhaseInv, Stopping
<1>2. CASE CloseClient
  <2>1. clist # <<>> /\ clist' = Tail(clist) /\ ClientDestroy(Head(clist))
    BY <1>2 DEF CloseClient
  <2>2. tasks' = tasks
    BY <2>1, <1>1 DEF ClientDestroy
  <2>3. clist \in Seq(Slots)
    BY DEF IInv, TypeOK
  <2>4. 1 \in 1..Len(clist) /\ clist' = RemoveAt(clist, 1) /\ ClientDestroy(clist[1])
    BY <2>1, <2>3, TailIsRemoveAt
  <2>5. PICK s \in Slots, l \in Links \cup {NoLink} :
           /\ client[s].link = l
           /\ \A t \in Slots : client'[t].link = IF t = s THEN NoLink ELSE client[t].link
    <3>1. /\ clist[1] \in Slots
          /\ client'[clist[1]] = Freed
          /\ \A t \in Slots \ {clist[1]} : client'[t] = client[t]
      BY <2>4, DestroyEffect DEF IInv
    <3>2. Freed.link = NoLink
      BY DEF Freed
    <3>3. client[clist[1]] \in Cell
      BY <3>1 DEF IInv, TypeOK
    <3>4. client[clist[1]].link \in Links \cup {NoLink}
      BY <3>3 DEF Cell
    <3> QED BY <3>1, <3>2, <3>4
  <2>6. CASE l = NoLink
    <3>1. \A k \in Links : StateOf(k)' = StateOf(k)
      BY <2>2, <2>5, <2>6, NullAssumption DEF StateOf, Attached
    <3> QED BY <3>1, <1>1, NoMoveStep
  <2>7. CASE l # NoLink
    <3>1. l \in Links /\ ~Queued(tasks, l)
      BY <2>5, <2>7 DEF IInv, LinkInv
    <3>2. \A t \in Slots : client[t].link = l => t = s
      BY <2>5, <2>7 DEF IInv, LinkInv
    <3>3. StateOf(l) = "attached" /\ StateOf(l)' = "off"
      BY <2>2, <2>5, <2>7, <3>1, <3>2 DEF StateOf, Attached
    <3>4. \A k \in Links \ {l} : StateOf(k)' = StateOf(k)
      BY <2>2, <2>5, NullAssumption DEF StateOf, Attached
    <3>5. Supervisor!Move(l, "attached", "off")
      BY <3>1, <3>3, <3>4, <1>1, MoveStep
    <3> QED BY <3>1, <3>5, <1>1 DEF Supervisor!Drop, Supervisor!Next
  <2> QED BY <2>6, <2>7
<1>3. CASE KillTask
  <2>1. tasks # <<>> /\ tasks' = Tail(tasks) /\ UNCHANGED client
    BY <1>3 DEF KillTask
  <2>2. tasks \in Seq(Task) /\ Once(tasks)
    BY DEF IInv, TypeOK, TaskInv
  <2>3. PICK l : l = tasks[1].fun
    OBVIOUS
  <2>4. /\ \A f : Queued(tasks', f) <=> Queued(tasks, f) /\ f # l
        /\ Queued(tasks, l)
    BY <2>1, <2>2, <2>3, PopTaskProperties
  <2>5. CASE l \notin Links
    <3>1. \A k \in Links : StateOf(k)' = StateOf(k)
      BY <2>1, <2>4, <2>5 DEF StateOf, Attached
    <3> QED BY <3>1, <1>1, NoMoveStep
  <2>6. CASE l \in Links
    <3>1. ~Attached(l)
      BY <2>4, <2>6, NullAssumption DEF IInv, LinkInv, Attached
    <3>2. StateOf(l) = "waiting" /\ StateOf(l)' = "off"
      BY <2>1, <2>4, <3>1 DEF StateOf, Attached
    <3>3. \A k \in Links \ {l} : StateOf(k)' = StateOf(k)
      BY <2>1, <2>4 DEF StateOf, Attached
    <3>4. Supervisor!Move(l, "waiting", "off")
      BY <2>6, <3>2, <3>3, <1>1, MoveStep
    <3> QED BY <2>6, <3>4, <1>1 DEF Supervisor!Drop, Supervisor!Next
  <2> QED BY <2>5, <2>6
<1> QED BY <1>2, <1>3

\* The console's "stop", and every handler: no link moves.
LEMMA HandlerRefines ==
    ASSUME IInv, IInv',
           \/ Skip("read", "write") \/ Skip("write", "error")
           \/ ReadFails \/ ReadData \/ ParseEnd \/ ParseBad \/ Dispatch \/ Login
           \/ Console \/ WriteAll \/ WriteFails
    PROVE  [Supervisor!Next]_(Supervisor!vars)
<1>1. Shape
  BY HandlersStep
<1>2. /\ UNCHANGED <<tasks, configured, toStart>>
      /\ shutdown' = shutdown \/ shutdown' = TRUE
  BY DEF Skip, ReadFails, ReadData, ParseEnd, ParseBad, Dispatch, Login, Console, WriteAll,
         WriteFails
<1>3. TaskShape
  BY <1>2, SameTasks DEF IInv
<1>4. \A k \in Links : StateOf(k)' = StateOf(k)
  BY <1>1, <1>3, ShapeStates
<1>5. CASE shutdown' = shutdown
  BY <1>4, <1>5, NoMoveStep
<1>6. CASE ~shutdown /\ shutdown' = TRUE
  <2>1. [l \in Links |-> LinkState(l)]' = [l \in Links |-> LinkState(l)]
    BY <1>4, StatesAre
  <2> QED BY <2>1, <1>6 DEF Supervisor!Stop, Supervisor!Next
<1>7. shutdown \in BOOLEAN
  BY DEF IInv, TypeOK
<1> QED BY <1>2, <1>5, <1>6, <1>7

\* The steps that keep the list, the queue and the flag as they are, but for
\* the order and the times of the tasks.
LEMMA QuietRefines ==
    ASSUME IInv, IInv',
           \/ RegisterHeartbeats \/ LinksRegistered
           \/ NothingToReap \/ AssertFd \/ Fill \/ EndOfList \/ VisitError \/ Polled
           \/ \E d \in 0..MaxElapse : Select(d) \/ SelectFails(d)
           \/ RunHeartbeat \/ ScheduleEnd \/ ClientsClosed \/ TasksKilled
           \/ Ended \/ UNCHANGED vars
    PROVE  UNCHANGED Supervisor!vars
<1>1. UNCHANGED shutdown
  BY DEF RegisterHeartbeats, LinksRegistered, NothingToReap, AssertFd, Fill, EndOfList,
         VisitError, Polled, Select, SelectFails, RunHeartbeat, ScheduleEnd,
         ClientsClosed, TasksKilled, Ended, vars
<1>2. Shape
  <2>1. CASE VisitError
    BY <2>1, VisitErrorStep
  <2>2. CASE ~VisitError
    <3>1. UNCHANGED <<clist, client>>
      BY <2>2 DEF RegisterHeartbeats, LinksRegistered, NothingToReap, AssertFd, Fill,
                  EndOfList, Polled, Select, SelectFails, RunHeartbeat,
                  ScheduleEnd, ClientsClosed, TasksKilled, Ended, vars
    <3> QED BY <3>1, SameShape DEF IInv
  <2> QED BY <2>1, <2>2
<1>3. tasks \in Seq(Task) /\ Once(tasks)
  BY DEF IInv, TypeOK, TaskInv
<1>4. \A k \in Links : Queued(tasks', k) <=> Queued(tasks, k)
  <2>1. CASE RegisterHeartbeats
    BY <2>1, <1>3, HeartbeatIsTask, AddTaskProperties, NullAssumption
    DEF RegisterHeartbeats
  <2>2. CASE RunHeartbeat
    <3>1. tasks # <<>> /\ tasks[1].fun = Heartbeat
          /\ tasks' = ServerAddTask(Tail(tasks), HeartbeatTask)
      BY <2>2 DEF RunHeartbeat, TaskDue
    <3>2. /\ Tail(tasks) \in Seq(Task)
          /\ \A f : Queued(Tail(tasks), f) <=> Queued(tasks, f) /\ f # Heartbeat
      BY <3>1, <1>3, PopTaskProperties
    <3>3. \A f : Queued(tasks', f) <=> Queued(Tail(tasks), f) \/ f = Heartbeat
      BY <3>1, <3>2, HeartbeatIsTask, AddTaskProperties
    <3> QED BY <3>2, <3>3, NullAssumption
  <2>3. CASE \E d \in 0..MaxElapse : Select(d) \/ SelectFails(d)
    <3>1. PICK d \in 0..MaxElapse : tasks' = Elapse(tasks, d)
      BY <2>3 DEF Select, SelectFails
    <3> QED BY <3>1, ElapseShape DEF IInv, TaskShape
  <2>4. CASE UNCHANGED tasks
    BY <2>4
  <2> QED BY <2>1, <2>2, <2>3, <2>4
          DEF LinksRegistered, NothingToReap, AssertFd, Fill, EndOfList, VisitError, Polled,
              ScheduleEnd, ClientsClosed, TasksKilled, Ended, vars
<1>5. \A k \in Links : StateOf(k)' = StateOf(k)
  BY <1>2, <1>4 DEF Shape, StateOf, Attached
<1> QED BY <1>1, <1>5, NoMoveStep

LEMMA AddRefines ==
    ASSUME IInv, IInv', BindPorts \/ Accept
    PROVE  UNCHANGED Supervisor!vars
<1>1. PICK type \in Connections \cup Listeners :
         /\ \/ UNCHANGED <<clist, client>>
            \/ \E s \in Slots : ServerAddClient(s, NewClient(type, NoLink, TRUE))
         /\ UNCHANGED <<tasks, shutdown>>
  <2>1. CASE BindPorts
    BY <2>1 DEF BindPorts, BindPort, Listeners
  <2>2. CASE Accept
    <3>1. AcceptedAs(client[cur].type) \in Connections
      BY <2>2 DEF Accept, AcceptedAs, Listeners, Connections
    <3> QED BY <2>2, <3>1 DEF Accept
  <2> QED BY <2>1, <2>2
<1>2. CASE UNCHANGED <<clist, client>>
  BY <1>1, <1>2, SameShape, SameTasks, QuietStutters DEF IInv
<1>3. CASE \E s \in Slots : ServerAddClient(s, NewClient(type, NoLink, TRUE))
  <2>1. PICK s \in Slots : ServerAddClient(s, NewClient(type, NoLink, TRUE))
    BY <1>3
  <2>2. /\ NewClient(type, NoLink, TRUE) \in Cell
        /\ NewClient(type, NoLink, TRUE).type # "free"
        /\ NewClient(type, NoLink, TRUE).link = NoLink
    BY PlainClient
  <2> QED BY <2>1, <2>2, <1>1, PlainStutters
<1> QED BY <1>1, <1>2, <1>3

LEMMA StepRefines == IInv /\ IInv' /\ [Next]_vars => [Supervisor!Next]_(Supervisor!vars)
<1> SUFFICES ASSUME IInv, IInv', [Next]_vars PROVE [Supervisor!Next]_(Supervisor!vars)
  OBVIOUS
<1>1. CASE BindPorts \/ Accept
  BY <1>1, AddRefines
<1>2. CASE RegisterLink
  BY <1>2, StartRefines
<1>3. CASE Reap
  BY <1>3, ReapRefines
<1>4. CASE \E d \in 0..MaxElapse : RunLink(d)
  BY <1>4, RetryRefines
<1>5. CASE CloseClient \/ KillTask
  BY <1>5, DropRefines
<1>6. CASE \/ Skip("read", "write") \/ Skip("write", "error")
           \/ ReadFails \/ ReadData \/ ParseEnd \/ ParseBad \/ Dispatch \/ Login
           \/ Console \/ WriteAll \/ WriteFails
  BY <1>6, HandlerRefines
<1>7. CASE \/ RegisterHeartbeats \/ LinksRegistered
           \/ NothingToReap \/ AssertFd \/ Fill \/ EndOfList \/ VisitError \/ Polled
           \/ \E d \in 0..MaxElapse : Select(d) \/ SelectFails(d)
           \/ RunHeartbeat \/ ScheduleEnd \/ ClientsClosed \/ TasksKilled
           \/ Ended \/ UNCHANGED vars
  BY <1>7, QuietRefines
<1> QED BY <1>1, <1>2, <1>3, <1>4, <1>5, <1>6, <1>7 DEF Next, Poll, Schedule

\* The detailed server keeps the abstract promise about its links.
THEOREM ServerImplementsSupervisor == Spec => LinksSupervised
<1>1. Init => Supervisor!Init
  <2>1. SUFFICES ASSUME Init PROVE Supervisor!Init
    OBVIOUS
  <2>2. IInv
    BY <2>1, InitIInv
  <2>3. \A l \in Links : StateOf(l) = "off"
    BY <2>1, NullAssumption DEF Init, Freed, StateOf, Attached, Queued
  <2>4. [l \in Links |-> LinkState(l)] = [l \in Links |-> "off"]
    BY <2>2, <2>3, StateIs
  <2> QED BY <2>1, <2>4 DEF Init, Supervisor!Init
<1> QED BY <1>1, StepRefines, Invariance, PTL DEF Spec, LinksSupervised, Supervisor!Spec

-----------------------------------------------------------------------------
(* After "stop" *)

\* A step that queues no task and gives no listed client a link.
LEMMA NothingStarts ==
    ASSUME UNCHANGED tasks, NEW l \in Links,
           \A x \in InList' : client'[x].link = l => x \in InList /\ client[x].link = l
    PROVE  Owners(l)' \subseteq Owners(l)
BY DEF Owners

\* Once the server has been told to stop, no task is queued and no link is
\* started.
THEOREM StopIsFinal == Spec => NothingStartsAfterStop
<1> DEFINE Final == shutdown => /\ Len(tasks') <= Len(tasks)
                                /\ \A l \in Links : Owners(l)' \subseteq Owners(l)
                                     \/ pc = "killing"
<1>1. IInv /\ [Next]_vars => Final
  <2>1. SUFFICES ASSUME IInv, [Next]_vars, shutdown PROVE Final
    OBVIOUS
  <2>2. tasks \in Seq(Task) /\ Len(tasks) \in Nat
    BY <2>1, LenProperties DEF IInv, TypeOK
  <2>3. pc \notin Early \cup {"links", "reap", "fill", "select", "schedule", "aborted"}
    BY <2>1 DEF IInv, PhaseInv, Stopping, Early
  <2>4. CASE /\ UNCHANGED tasks
             /\ InList' \subseteq InList
             /\ \A x \in InList' : client'[x].link = client[x].link
    BY <2>2, <2>4, NothingStarts
  <2>5. ASSUME Shape, UNCHANGED tasks PROVE Final
    <3>1. InList' = InList /\ \A x \in InList : x \in Slots
      BY <2>1, <2>5 DEF Shape, InList, IInv, HeapInv
    <3> QED BY <2>4, <2>5, <3>1 DEF Shape
  <2>6. CASE Accept
    <3>1. AcceptedAs(client[cur].type) \in Connections /\ UNCHANGED tasks
      BY <2>6 DEF Accept, AcceptedAs, Listeners, Connections
    <3>2. PICK type \in Connections, s \in Slots :
             ServerAddClient(s, NewClient(type, NoLink, TRUE))
      BY <2>6, <3>1 DEF Accept
    <3>3. /\ NewClient(type, NoLink, TRUE) \in Cell
          /\ NewClient(type, NoLink, TRUE).type # "free"
          /\ NewClient(type, NoLink, TRUE).link = NoLink
      BY PlainClient
    <3>4. /\ InList' = InList \cup {s}
          /\ client'[s].link = NoLink
          /\ \A t \in Slots \ {s} : client'[t] = client[t]
      BY <2>1, <3>2, <3>3, AddClientEffect DEF IInv
    <3>5. \A x \in InList : x \in Slots
      BY <2>1 DEF IInv, HeapInv
    <3>6. \A l \in Links : \A x \in InList' :
             client'[x].link = l => x \in InList /\ client[x].link = l
      BY <3>4, <3>5, NullAssumption
    <3> QED BY <2>2, <3>1, <3>6, NothingStarts
  <2>7. CASE CloseClient
    <3>1. clist # <<>> /\ clist' = Tail(clist) /\ ClientDestroy(Head(clist))
      BY <2>7 DEF CloseClient
    <3>2. tasks' = tasks
      BY <2>1, <3>1 DEF ClientDestroy
    <3>3. clist \in Seq(Slots)
      BY <2>1 DEF IInv, TypeOK
    <3>4. 1 \in 1..Len(clist) /\ clist' = RemoveAt(clist, 1) /\ ClientDestroy(clist[1])
      BY <3>1, <3>3, TailIsRemoveAt
    <3>5. /\ InList' = InList \ {clist[1]}
          /\ \A t \in Slots \ {clist[1]} : client'[t] = client[t]
      BY <2>1, <3>4, DestroyEffect DEF IInv
    <3>6. \A x \in InList : x \in Slots
      BY <2>1 DEF IInv, HeapInv
    <3> QED BY <2>4, <3>2, <3>5, <3>6
  <2>8. CASE KillTask
    <3>1. pc = "killing" /\ tasks # <<>> /\ tasks' = Tail(tasks)
      BY <2>8 DEF KillTask
    <3>2. Len(tasks') = Len(tasks) - 1
      BY <2>2, <3>1, HeadTailProperties
    <3> QED BY <2>2, <3>1, <3>2
  <2>9. CASE \/ Skip("read", "write") \/ Skip("write", "error")
             \/ ReadFails \/ ReadData \/ ParseEnd \/ ParseBad \/ Dispatch \/ Login
             \/ Console \/ WriteAll \/ WriteFails
    <3>1. UNCHANGED tasks
      BY <2>9 DEF Skip, ReadFails, ReadData, ParseEnd, ParseBad, Dispatch, Login, Console,
                  WriteAll, WriteFails
    <3> QED BY <2>1, <2>5, <2>9, <3>1, HandlersStep
  <2>10. CASE VisitError
    BY <2>1, <2>5, <2>10, VisitErrorStep DEF VisitError
  <2>11. CASE EndOfList \/ Polled \/ ClientsClosed \/ TasksKilled \/ Ended \/ UNCHANGED vars
    <3>1. UNCHANGED <<clist, client, tasks>>
      BY <2>11 DEF EndOfList, Polled, ClientsClosed, TasksKilled, Ended, vars
    <3> QED BY <2>1, <2>5, <3>1, SameShape DEF IInv
  <2> HIDE DEF Final
  <2>12. BindPorts \/ RegisterHeartbeats \/ RegisterLink \/ LinksRegistered
         \/ Reap \/ NothingToReap \/ AssertFd \/ Fill
         \/ (\E d \in 0..MaxElapse : Select(d) \/ SelectFails(d)) \/ Schedule => FALSE
    BY <2>3 DEF BindPorts, BindPort, RegisterHeartbeats, RegisterLink, LinksRegistered,
                Reap, NothingToReap, AssertFd, Fill, Select, SelectFails, Schedule,
                RunHeartbeat, RunLink, ScheduleEnd, Early
  <2> QED BY <2>1, <2>6, <2>7, <2>8, <2>9, <2>10, <2>11, <2>12 DEF Next, Poll
<1>2. Final => [Final]_vars
  OBVIOUS
<1> QED BY <1>1, Invariance, PTL DEF Spec, NothingStartsAfterStop
=============================================================================
