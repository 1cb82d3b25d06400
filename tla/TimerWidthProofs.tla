--------------------------- MODULE TimerWidthProofs ---------------------------
(***************************************************************************)
(* Proofs about TimerWidth.  `Right' says of every queued task that its    *)
(* time was computed from the clock at the moment it was made; what a task *)
(* that runs says about the real time follows from it and from             *)
(* ClockWithin.  That the head of the queue speaks for all of it rests on  *)
(* the queue being sorted by what the clock will say (SortedByTime).       *)
(***************************************************************************)
EXTENDS TimerWidth, SequenceTheorems, WellFoundedInduction, TLAPS

-----------------------------------------------------------------------------
(* The clock *)

LEMMA DivModUnique ==
    ASSUME NEW m \in Nat \ {0}, NEW k \in Nat, NEW r \in 0..(m - 1)
    PROVE  (k * m + r) % m = r /\ (k * m + r) \div m = k
  OBVIOUS

LEMMA DivModValue ==
    ASSUME NEW m \in Nat \ {0}, NEW a \in Nat
    PROVE  /\ a \div m \in Nat
           /\ a % m \in 0..(m - 1)
           /\ a = (a \div m) * m + (a % m)
  OBVIOUS

LEMMA Ranges ==
    /\ Half \in Nat \ {0}
    /\ LongRange = 2 * Half
    /\ ULLRange \in Nat /\ ULLRange >= LongRange
    /\ \A f \in Tasks : Delta[f] \in 1..Half
  BY RangeAssumption, TaskAssumption DEF Half, Tasks

\* GetTimerMS returns an unsigned long long.
LEMMA ClockType ==
    ASSUME NEW t \in Nat
    PROVE  Clock(t) \in 0..(ULLRange - 1)
<1>1. t % LongRange \in 0..(LongRange - 1)
  BY Ranges, DivModValue
<1> QED BY <1>1, Ranges DEF Clock

LEMMA ClockFromRemainder ==
    ASSUME NEW t, NEW k \in Nat, NEW r \in 0..(LongRange - 1), t = k * LongRange + r
    PROVE  Clock(t) = IF r < Half THEN r ELSE ULLRange - LongRange + r
<1>1. LongRange \in Nat \ {0}
  BY Ranges
<1>2. (k * LongRange + r) % LongRange = r
  BY <1>1, DivModUnique
<1>3. t % LongRange = r
  BY <1>2
<1> QED BY <1>3, Zenon DEF Clock

\* The clock at a time that is r milliseconds into its q-th half period.
LEMMA ClockInHalf ==
    ASSUME NEW q \in Nat, NEW r \in 0..(Half - 1)
    PROVE  Clock(q * Half + r) =
              IF q % 2 = 0 THEN r ELSE ULLRange - LongRange + Half + r
<1> DEFINE k == q \div 2
<1>1. k \in Nat /\ q % 2 \in 0..1 /\ q = k * 2 + (q % 2)
  OBVIOUS
<1>2. CASE q % 2 = 0
  <2>1. q * Half + r = k * LongRange + r
    <3>1. q * Half = (k * 2) * Half
      BY <1>1, <1>2
    <3>2. (k * 2) * Half = k * (2 * Half)
      BY <1>1, Ranges
    <3> QED BY <3>1, <3>2, Ranges
  <2>2. r \in 0..(LongRange - 1) /\ LongRange \in Nat \ {0}
    BY Ranges
  <2>3. Clock(q * Half + r) = IF r < Half THEN r ELSE ULLRange - LongRange + r
    BY <1>1, <2>1, <2>2, ClockFromRemainder, Zenon
  <2>4. r < Half
    BY Ranges
  <2> QED BY <1>2, <2>3, <2>4, Zenon
<1>3. CASE q % 2 = 1
  <2>1. q * Half + r = k * LongRange + (Half + r)
    <3>1. q * Half = (k * 2 + 1) * Half
      BY <1>1, <1>3
    <3>2. (k * 2 + 1) * Half = k * (2 * Half) + Half
      BY <1>1, Ranges
    <3>3. k * (2 * Half) \in Nat
      BY <1>1, Ranges
    <3> QED BY <3>1, <3>2, <3>3, Ranges
  <2>2. Half + r \in 0..(LongRange - 1) /\ LongRange \in Nat \ {0}
    BY Ranges
  <2>3. Clock(q * Half + r) = IF Half + r < Half THEN Half + r
                              ELSE ULLRange - LongRange + (Half + r)
    BY <1>1, <2>1, <2>2, ClockFromRemainder, Zenon
  <2> QED BY <1>3, <2>3, Ranges
<1> QED BY <1>1, <1>2, <1>3

\* Between two times of the same half period the clock measures what it should.
LEMMA ClockWithin ==
    ASSUME NEW a \in Nat, NEW b \in Nat, a \div Half = b \div Half
    PROVE  Clock(b) - Clock(a) = b - a
<1> DEFINE q  == a \div Half
           ra == a % Half
           rb == b % Half
<1>1. /\ q \in Nat
      /\ ra \in 0..(Half - 1) /\ rb \in 0..(Half - 1)
      /\ a = q * Half + ra /\ b = q * Half + rb
  BY Ranges, DivModValue
<1>2. q * Half \in Nat
  BY <1>1, Ranges
<1> HIDE DEF q, ra, rb
<1>3. /\ Clock(a) = IF q % 2 = 0 THEN ra ELSE ULLRange - LongRange + Half + ra
      /\ Clock(b) = IF q % 2 = 0 THEN rb ELSE ULLRange - LongRange + Half + rb
  BY <1>1, ClockInHalf
<1> QED BY <1>1, <1>2, <1>3, Ranges

\* What lies between two times of one half period is of that half period.
LEMMA HalfConvex ==
    ASSUME NEW a \in Nat, NEW b \in Nat, NEW c \in Nat,
           a <= b, b <= c, a \div Half = c \div Half
    PROVE  b \div Half = a \div Half
<1>1. /\ a \div Half \in Nat /\ b \div Half \in Nat
      /\ a % Half \in 0..(Half - 1) /\ b % Half \in 0..(Half - 1)
      /\ c % Half \in 0..(Half - 1)
      /\ a = (a \div Half) * Half + (a % Half)
      /\ b = (b \div Half) * Half + (b % Half)
      /\ c = (a \div Half) * Half + (c % Half)
  BY Ranges, DivModValue
<1> DEFINE qa == a \div Half
           qb == b \div Half
<1>2. (qb + 1) * Half = qb * Half + Half /\ (qa + 1) * Half = qa * Half + Half
  BY <1>1, Ranges
<1>3. ASSUME NEW i \in Nat, NEW j \in Nat, i <= j
      PROVE  i * Half <= j * Half
  BY <1>3, Ranges
<1>4. /\ qb * Half \in Nat /\ qa * Half \in Nat
      /\ qa \in Nat /\ qb \in Nat
      /\ qa * Half <= b /\ b < qb * Half + Half
      /\ qb * Half <= b /\ b < qa * Half + Half
  BY <1>1, Ranges
<1> HIDE DEF qa, qb
<1>5. ~(qb + 1 <= qa)
  BY <1>2, <1>3, <1>4, Ranges
<1>6. ~(qa + 1 <= qb)
  BY <1>2, <1>3, <1>4, Ranges
<1> QED BY <1>4, <1>5, <1>6 DEF qa, qb

-----------------------------------------------------------------------------
(* The task queue *)

\* q with t put in at position p, position by position.
LEMMA InsertAtPositions ==
    ASSUME NEW S, NEW q \in Seq(S), NEW p \in 1..(Len(q) + 1), NEW t \in S
    PROVE  /\ InsertAt(q, p, t) \in Seq(S)
           /\ Len(InsertAt(q, p, t)) = Len(q) + 1
           /\ \A j \in 1..(Len(q) + 1) :
                 InsertAt(q, p, t)[j] = IF j < p THEN q[j] ELSE IF j = p THEN t ELSE q[j - 1]
<1> DEFINE before == SubSeq(q, 1, p - 1)
           after  == SubSeq(q, p, Len(q))
           upto   == before \o <<t>>
<1>1. Len(q) \in Nat /\ \A i \in 1..Len(q) : q[i] \in S
  BY LenProperties, ElementOfSeq
<1>2. /\ before \in Seq(S) /\ Len(before) = p - 1
      /\ \A j \in 1..(p - 1) : before[j] = q[j]
  <2>1. \A j \in 1..(p - 1) : q[j] \in S
    BY <1>1
  <2>2. /\ before \in Seq(S)
        /\ Len(before) = IF 1 <= p - 1 THEN (p - 1) - 1 + 1 ELSE 0
        /\ \A j \in 1..((p - 1) - 1 + 1) : before[j] = q[1 + j - 1]
    BY <2>1, SubSeqProperties
  <2> QED BY <2>2
<1>3. /\ after \in Seq(S) /\ Len(after) = Len(q) - p + 1
      /\ \A j \in 1..(Len(q) - p + 1) : after[j] = q[p + j - 1]
  <2>1. \A j \in p..Len(q) : q[j] \in S
    BY <1>1
  <2>2. /\ after \in Seq(S)
        /\ Len(after) = IF p <= Len(q) THEN Len(q) - p + 1 ELSE 0
        /\ \A j \in 1..(Len(q) - p + 1) : after[j] = q[p + j - 1]
    BY <2>1, SubSeqProperties
  <2> QED BY <2>2
<1>4. InsertAt(q, p, t) = upto \o after
  BY DEF InsertAt
<1> HIDE DEF before, after
<1>5. /\ upto \in Seq(S) /\ Len(upto) = p
      /\ \A j \in 1..p : upto[j] = IF j < p THEN q[j] ELSE t
  <2>1. <<t>> \in Seq(S) /\ Len(<<t>>) = 1 /\ <<t>>[1] = t
    OBVIOUS
  <2>2. /\ upto \in Seq(S) /\ Len(upto) = Len(before) + 1
        /\ \A j \in 1..(Len(before) + 1) :
              upto[j] = IF j <= Len(before) THEN before[j] ELSE <<t>>[j - Len(before)]
    BY <2>1, <1>2, ConcatProperties
  <2> QED BY <2>1, <2>2, <1>2
<1> HIDE DEF upto
<1>6. /\ upto \o after \in Seq(S)
      /\ Len(upto \o after) = Len(upto) + Len(after)
      /\ \A j \in 1..(Len(upto) + Len(after)) :
            (upto \o after)[j] = IF j <= Len(upto) THEN upto[j] ELSE after[j - Len(upto)]
  BY <1>3, <1>5, ConcatProperties
<1>7. /\ Len(upto \o after) = Len(q) + 1
      /\ \A j \in 1..(Len(q) + 1) :
            (upto \o after)[j] = IF j < p THEN q[j] ELSE IF j = p THEN t ELSE q[j - 1]
  BY <1>3, <1>5, <1>6
<1> QED BY <1>4, <1>6, <1>7

\* No task is behind one of a later time.
SortedByTime(q) ==
    \A i, j \in 1..Len(q) : i < j => q[i].time <= q[j].time

\* Where t goes: not behind a later task nor in front of an earlier one.
Between(q, p, t) ==
    \A j \in 1..Len(q) : IF j < p THEN q[j].time <= t.time ELSE t.time <= q[j].time

\* server_add_task puts the task into the queue where it belongs.
LEMMA AddInserts ==
    ASSUME NEW S, NEW q \in Seq(S), NEW t \in S, SortedByTime(q),
           t.time \in Nat, \A i \in 1..Len(q) : q[i].time \in Nat
    PROVE  \E p \in 1..(Len(q) + 1) :
              Add(q, t) = InsertAt(q, p, t) /\ Between(q, p, t)
<1>1. CASE q = <<>>
  <2>1. /\ SubSeq(q, 1, 1 - 1) = <<>>
        /\ SubSeq(q, 1, Len(q)) = <<>>
    BY <1>1, SubSeqEmpty
  <2>2. InsertAt(q, 1, t) = <<>> \o <<t>> \o <<>>
    BY <2>1, Zenon DEF InsertAt
  <2>3. InsertAt(q, 1, t) = <<t>>
    BY <2>2, ConcatEmptySeq
  <2>4. 1 \in 1..(Len(q) + 1) /\ Between(q, 1, t)
    BY <1>1 DEF Between
  <2> QED BY <1>1, <2>3, <2>4 DEF Add
<1>2. CASE q # <<>>
  <2> DEFINE Ends == {i \in 1..Len(q) : i = Len(q) \/ q[i + 1].time >= t.time}
             Stop(i) == /\ i = Len(q) \/ q[i + 1].time >= t.time
                        /\ \A j \in 2..i : q[j].time < t.time
  <2>1. Len(q) \in Nat \ {0}
    BY <1>2, EmptySeq, LenProperties
  <2>2. Ends \subseteq Nat /\ Len(q) \in Ends
    BY <2>1
  <2>3. PICK k \in Ends : \A m \in Ends : ~(<<m, k>> \in OpToRel(<, Nat))
    BY <2>2, NatLessThanWellFounded, WFMin
  <2>4. \A m \in Ends : ~(m < k)
    BY <2>2, <2>3 DEF OpToRel
  <2>5. ASSUME NEW j \in 2..k
        PROVE  q[j].time < t.time
    <3>1. k \in 1..Len(q) /\ j - 1 \in 1..Len(q) /\ j - 1 < k /\ j \in 1..Len(q)
      BY <2>1
    <3>2. ~(q[(j - 1) + 1].time >= t.time)
      BY <3>1, <2>4
    <3>3. (j - 1) + 1 = j
      OBVIOUS
    <3> QED BY <3>1, <3>2, <3>3
  <2>6. \E i \in 1..Len(q) : Stop(i)
    BY <2>5
  <2> DEFINE c == CHOOSE i \in 1..Len(q) : Stop(i)
             p == IF q[c].time < t.time THEN c + 1 ELSE c
  <2>7. c \in 1..Len(q) /\ Stop(c)
    BY <2>6
  <2>8. Add(q, t) = InsertAt(q, p, t)
    BY <1>2, Zenon DEF Add
  <2> HIDE DEF c
  <2>9. p \in 1..(Len(q) + 1)
    BY <2>1, <2>7
  <2>10. Between(q, p, t)
    <3> SUFFICES ASSUME NEW j \in 1..Len(q)
                 PROVE  IF j < p THEN q[j].time <= t.time ELSE t.time <= q[j].time
      BY DEF Between
    <3>1. \A i \in 1..Len(q) : i < j => q[i].time <= q[j].time
      BY DEF SortedByTime
    <3>2. \A i \in 1..Len(q) : j < i => q[j].time <= q[i].time
      BY DEF SortedByTime
    <3>3. CASE q[c].time < t.time
      <4>1. CASE j <= c
        <5>1. c \in 1..Len(q) /\ (j = c \/ j < c) /\ j < p
          BY <2>7, <3>3, <4>1
        <5>2. q[j].time <= q[c].time
          BY <3>2, <5>1
        <5> QED BY <3>3, <5>1, <5>2
      <4>2. CASE j > c
        <5>1. c + 1 \in 1..Len(q) /\ c # Len(q) /\ (c + 1 = j \/ c + 1 < j)
          BY <2>1, <2>7, <4>2
        <5>2. q[c + 1].time >= t.time /\ q[c + 1].time <= q[j].time
          BY <2>7, <3>1, <5>1
        <5> QED BY <3>3, <4>2, <5>1, <5>2, <2>7
      <4> QED BY <2>7, <4>1, <4>2
    <3>4. CASE ~(q[c].time < t.time)
      <4>1. c = 1
        <5>1. c \notin 2..c
          BY <2>7, <3>4
        <5> QED BY <2>7, <5>1
      <4>2. t.time <= q[c].time /\ q[c].time <= q[j].time
        BY <2>7, <3>1, <3>4, <4>1
      <4> QED BY <3>4, <4>1, <4>2
    <3> QED BY <3>3, <3>4
  <2> HIDE DEF p
  <2> QED BY <2>8, <2>9, <2>10
<1> QED BY <1>1, <1>2

-----------------------------------------------------------------------------
(* The invariant *)

\* The tasks made up to time n.
Right(n) ==
    {t \in Task : t.at <= n /\ t.time = (Clock(t.at) + Delta[t.fun]) % ULLRange}

EarlyAcross(t, n) ==
    n < DueAt(t) => t.at \div Half # DueAt(t) \div Half

Inv ==
    /\ TypeOK
    /\ now <= MaxNow
    /\ queue \in Seq(Right(now))
    /\ SortedByTime(queue)
    /\ ran.at <= MaxNow
    /\ EarlyOnlyAcrossWrap

LEMMA RightGrows ==
    ASSUME NEW n \in Nat, NEW q \in Seq(Right(n)), NEW m \in Nat, n <= m
    PROVE  q \in Seq(Right(m))
<1>1. \A t \in Right(n) : t \in Right(m)
  BY DEF Right, Task
<1>2. \A i \in 1..Len(q) : q[i] \in Right(m)
  BY <1>1, ElementOfSeq
<1> QED BY <1>2, SeqDef, LenProperties

\* task_create makes a task whose time is right.
LEMMA CreateRight ==
    ASSUME NEW n \in Nat, NEW f \in Tasks
    PROVE  TaskCreate(f, n) \in Right(n)
<1>1. /\ Clock(n) \in 0..(ULLRange - 1) /\ Delta[f] \in 1..Half
      /\ ULLRange \in Nat \ {0}
  BY ClockType, Ranges
<1>2. (Clock(n) + Delta[f]) % ULLRange \in 0..(ULLRange - 1)
  BY <1>1
<1> QED BY <1>2 DEF TaskCreate, Right, Task

\* server_add_task keeps a sorted queue of tasks whose times are right.
LEMMA AddRight ==
    ASSUME NEW n \in Nat, NEW q \in Seq(Right(n)), SortedByTime(q), NEW f \in Tasks
    PROVE  /\ Add(q, TaskCreate(f, n)) \in Seq(Right(n))
           /\ SortedByTime(Add(q, TaskCreate(f, n)))
<1> DEFINE t == TaskCreate(f, n)
           r == Add(q, t)
<1>1. t \in Right(n)
  BY CreateRight
<1>2. \A u \in Right(n) : u.time \in Nat
  BY Ranges DEF Right, Task
<1>3. Len(q) \in Nat /\ t.time \in Nat /\ \A i \in 1..Len(q) : q[i].time \in Nat
  BY <1>1, <1>2, ElementOfSeq, LenProperties
<1> HIDE DEF t
<1>4. PICK p \in 1..(Len(q) + 1) : r = InsertAt(q, p, t) /\ Between(q, p, t)
  BY <1>1, <1>3, AddInserts
<1>5. /\ r \in Seq(Right(n)) /\ Len(r) = Len(q) + 1
      /\ \A j \in 1..(Len(q) + 1) :
            r[j] = IF j < p THEN q[j] ELSE IF j = p THEN t ELSE q[j - 1]
  <2>1. /\ InsertAt(q, p, t) \in Seq(Right(n))
        /\ Len(InsertAt(q, p, t)) = Len(q) + 1
        /\ \A j \in 1..(Len(q) + 1) :
              InsertAt(q, p, t)[j] = IF j < p THEN q[j] ELSE IF j = p THEN t ELSE q[j - 1]
    BY <1>1, InsertAtPositions
  <2> HIDE DEF r
  <2> QED BY <1>4, <2>1
<1> HIDE DEF r
<1>6. ASSUME NEW i \in 1..Len(r), NEW j \in 1..Len(r), i < j
      PROVE  r[i].time <= r[j].time
  <2>1. \A a, b \in 1..Len(q) : a < b => q[a].time <= q[b].time
    BY DEF SortedByTime
  <2>2. /\ \A a \in 1..Len(q) : a < p => q[a].time <= t.time
        /\ \A a \in 1..Len(q) : ~(a < p) => t.time <= q[a].time
    BY <1>4 DEF Between
  <2>3. CASE j < p
    <3>1. /\ i \in 1..Len(q) /\ j \in 1..Len(q)
          /\ r[i] = q[i] /\ r[j] = q[j]
      BY <1>3, <1>5, <1>6, <2>3
    <3> QED BY <1>6, <2>1, <3>1
  <2>4. CASE j = p
    BY <1>3, <1>5, <1>6, <2>2, <2>4
  <2>5. CASE j > p
    <3>1. j - 1 \in 1..Len(q) /\ ~(j - 1 < p) /\ r[j] = q[j - 1]
      BY <1>3, <1>5, <2>5
    <3>2. CASE i = p
      BY <1>3, <1>5, <2>2, <3>1, <3>2
    <3>3. CASE i < p
      <4>1. i \in 1..Len(q) /\ i < j - 1 /\ r[i] = q[i]
        BY <1>3, <1>5, <3>1, <3>3
      <4> QED BY <2>1, <3>1, <4>1
    <3>4. CASE i > p
      <4>1. i - 1 \in 1..Len(q) /\ i - 1 < j - 1 /\ r[i] = q[i - 1]
        BY <1>3, <1>5, <1>6, <3>1, <3>4
      <4> QED BY <2>1, <3>1, <4>1
    <3> QED BY <1>6, <3>2, <3>3, <3>4
  <2> QED BY <1>6, <2>3, <2>4, <2>5
<1>7. SortedByTime(r)
  BY <1>6 DEF SortedByTime
<1> QED BY <1>5, <1>7 DEF r, t

\* server_pop_task leaves a sorted queue.
LEMMA TailSorted ==
    ASSUME NEW S, NEW q \in Seq(S), q # <<>>, SortedByTime(q)
    PROVE  SortedByTime(Tail(q))
<1>1. Len(q) \in Nat /\ Len(Tail(q)) = Len(q) - 1
      /\ \A i \in 1..Len(Tail(q)) : Tail(q)[i] = q[i + 1]
  BY HeadTailProperties, LenProperties
<1> QED BY <1>1 DEF SortedByTime

\* The clock cannot say that a task is due before it is, when its time and the
\* time it is made are of one half period.
LEMMA DueAcross ==
    ASSUME NEW n \in Nat, NEW t \in Right(n), t.time <= Clock(n)
    PROVE  EarlyAcross(t, n)
<1> SUFFICES ASSUME n < DueAt(t), t.at \div Half = DueAt(t) \div Half
             PROVE  FALSE
  BY DEF EarlyAcross
<1>1. /\ t.at \in Nat /\ t.at <= n /\ t.fun \in Tasks /\ Delta[t.fun] \in 1..Half
      /\ t.time = (Clock(t.at) + Delta[t.fun]) % ULLRange
      /\ DueAt(t) \in Nat /\ DueAt(t) = t.at + Delta[t.fun]
  BY Ranges DEF Right, Task, DueAt
<1>2. n \div Half = t.at \div Half
  BY <1>1, HalfConvex
<1>3. /\ Clock(n) - Clock(t.at) = n - t.at
      /\ Clock(DueAt(t)) - Clock(t.at) = Delta[t.fun]
  BY <1>1, <1>2, ClockWithin
<1>4. /\ Clock(n) \in 0..(ULLRange - 1) /\ Clock(t.at) \in 0..(ULLRange - 1)
      /\ Clock(DueAt(t)) \in 0..(ULLRange - 1)
  BY <1>1, ClockType
<1>5. t.time = Clock(DueAt(t))
  <2>1. Clock(t.at) + Delta[t.fun] = Clock(DueAt(t))
    BY <1>1, <1>3, <1>4
  <2>2. \A x \in 0..(ULLRange - 1) : x % ULLRange = x
    BY Ranges
  <2> QED BY <1>1, <1>4, <2>1, <2>2
<1> QED BY <1>1, <1>3, <1>4, <1>5

LEMMA InitInv == Init => Inv
<1> SUFFICES ASSUME Init PROVE Inv
  OBVIOUS
<1>1. now \in Nat /\ now <= MaxNow
  BY RangeAssumption DEF Init
<1>2. Heartbeat \in Tasks /\ NoTask \notin Tasks
  BY TaskAssumption DEF Tasks
<1>3. queue \in Seq(Right(now))
  <2>1. TaskCreate(Heartbeat, now) \in Right(now)
    BY <1>1, <1>2, CreateRight
  <2>2. queue = <<TaskCreate(Heartbeat, now)>>
    BY DEF Init
  <2> QED BY <2>1, <2>2
<1>7. SortedByTime(queue)
  <2>1. Len(queue) = 1
    BY DEF Init
  <2> QED BY <2>1 DEF SortedByTime
<1>4. queue \in Seq(Task)
  BY <1>3, ElementOfSeq, SeqDef, LenProperties DEF Right
<1>5. ran = [fun |-> NoTask, at |-> now, on |-> now] /\ up = Links /\ pc = "poll"
  BY DEF Init
<1>6. TypeOK
  BY <1>1, <1>4, <1>5 DEF TypeOK
<1> QED BY <1>1, <1>3, <1>5, <1>6, <1>7 DEF Inv, EarlyOnlyAcrossWrap

LEMMA StepInv == Inv /\ [Next]_vars => Inv'
<1> SUFFICES ASSUME Inv, [Next]_vars PROVE Inv'
  OBVIOUS
<1>0. /\ now \in Nat /\ now <= MaxNow /\ MaxNow \in Nat
      /\ queue \in Seq(Right(now)) /\ queue \in Seq(Task)
      /\ SortedByTime(queue)
      /\ up \subseteq Links /\ pc \in {"poll", "schedule"}
      /\ ran \in [fun : Tasks \cup {NoTask}, at : Nat, on : Nat] /\ ran.at <= MaxNow
      /\ EarlyOnlyAcrossWrap
      /\ Heartbeat \in Tasks /\ Links \subseteq Tasks /\ NoTask \notin Tasks
  BY RangeAssumption, TaskAssumption DEF Inv, TypeOK, Tasks
<1>a. ASSUME NEW q \in Seq(Right(now))
      PROVE  q \in Seq(Task)
  BY ElementOfSeq, SeqDef, LenProperties DEF Right
<1>1. CASE Tick
  <2>1. now' \in Nat /\ now <= now' /\ now' <= MaxNow
    BY <1>0, <1>1 DEF Tick
  <2>2. queue' \in Seq(Right(now'))
    BY <1>0, <1>1, <2>1, RightGrows DEF Tick
  <2> QED BY <1>0, <1>1, <2>1, <2>2 DEF Tick, Inv, TypeOK, EarlyOnlyAcrossWrap
<1>2. ASSUME NEW l \in Links, LoseLink(l)
      PROVE  Inv'
  <2>1. queue' \in Seq(Right(now)) /\ SortedByTime(queue')
    <3>1. queue' = Add(queue, TaskCreate(l, now)) /\ l \in Tasks
      BY <1>0, <1>2 DEF LoseLink
    <3> QED BY <1>0, <3>1, AddRight, Zenon
  <2>2. queue' \in Seq(Task)
    BY <1>a, <2>1
  <2> QED BY <1>0, <1>2, <2>1, <2>2 DEF LoseLink, Inv, TypeOK, EarlyOnlyAcrossWrap
<1>3. CASE Polled \/ Scheduled
  BY <1>0, <1>3 DEF Polled, Scheduled, Inv, TypeOK, EarlyOnlyAcrossWrap
<1>4. CASE RunTask
  <2> DEFINE t == Head(queue)
  <2>1. /\ t \in Right(now) /\ Tail(queue) \in Seq(Right(now))
        /\ SortedByTime(Tail(queue))
        /\ t.time <= Clock(now) /\ now' = now /\ pc' = pc
        /\ ran' = [fun |-> t.fun, at |-> t.at, on |-> now]
    <3>1. queue # <<>>
      BY <1>4 DEF RunTask, Due
    <3>2. SortedByTime(Tail(queue))
      BY <1>0, <3>1, TailSorted, Zenon
    <3> QED BY <1>0, <1>4, <3>1, <3>2 DEF RunTask, Due
  <2>2. /\ t.fun \in Tasks /\ t.at \in Nat /\ t.at <= now
    BY <2>1 DEF Right, Task
  <2>3. EarlyAcross(t, now)
    BY <1>0, <2>1, DueAcross
  <2>4. /\ queue' \in Seq(Right(now)) /\ SortedByTime(queue')
        /\ up' \subseteq Links
    <3>1. CASE t.fun = Heartbeat
      <4>1. queue' = Add(Tail(queue), TaskCreate(Heartbeat, now)) /\ up' = up
        BY <1>4, <3>1 DEF RunTask
      <4>2. Add(Tail(queue), TaskCreate(Heartbeat, now)) \in Seq(Right(now))
        BY <1>0, <2>1, AddRight, Zenon
      <4>3. SortedByTime(Add(Tail(queue), TaskCreate(Heartbeat, now)))
        BY <1>0, <2>1, AddRight, Zenon
      <4> QED BY <1>0, <4>1, <4>2, <4>3, Zenon
    <3>2. CASE t.fun # Heartbeat
      BY <1>0, <1>4, <2>1, <2>2, <3>2 DEF RunTask, Tasks
    <3> QED BY <3>1, <3>2
  <2>5. queue' \in Seq(Task)
    BY <1>a, <2>4
  <2>6. EarlyOnlyAcrossWrap'
    BY <2>1, <2>3 DEF EarlyOnlyAcrossWrap, EarlyAcross, DueAt
  <2> QED BY <1>0, <2>1, <2>2, <2>4, <2>5, <2>6 DEF Inv, TypeOK
<1>5. CASE UNCHANGED vars
  BY <1>0, <1>5 DEF vars, Inv, TypeOK, EarlyOnlyAcrossWrap
<1> QED BY <1>1, <1>2, <1>3, <1>4, <1>5 DEF Next

THEOREM AlwaysInv == Spec => []Inv
<1> QED BY InitInv, StepInv, PTL DEF Spec

\* Every variable keeps its type.
THEOREM TypeCorrect == Spec => []TypeOK
<1>1. Inv => TypeOK
  BY DEF Inv
<1> QED BY <1>1, AlwaysInv, PTL

\* However narrow a long is, GetTimerMS makes a task run early only across a
\* change of the clock's sign.
THEOREM EarlyOnlyAcross == Spec => []EarlyOnlyAcrossWrap
<1>1. Inv => EarlyOnlyAcrossWrap
  BY DEF Inv
<1> QED BY <1>1, AlwaysInv, PTL

\* Where a long holds every time there will be, no task runs early.
THEOREM NeverEarly ==
    ASSUME \A f \in Tasks : MaxNow + Delta[f] < Half
    PROVE  Spec => []NotEarly
<1>1. Inv => NotEarly
  <2> SUFFICES ASSUME Inv, ran.fun # NoTask, ran.on < ran.at + Delta[ran.fun]
               PROVE  FALSE
    BY Ranges DEF Inv, TypeOK, NotEarly
  <2>1. /\ ran.fun \in Tasks /\ ran.at \in Nat /\ ran.at <= MaxNow /\ MaxNow \in Nat
        /\ Delta[ran.fun] \in 1..Half
        /\ MaxNow + Delta[ran.fun] < Half
    BY RangeAssumption, Ranges DEF Inv, TypeOK
  <2>2. \A a \in 0..(Half - 1) : a \div Half = 0
    BY Ranges
  <2>3. ran.at \div Half = 0 /\ (ran.at + Delta[ran.fun]) \div Half = 0
    BY <2>1, <2>2, Ranges
  <2> QED BY <2>3 DEF Inv, EarlyOnlyAcrossWrap
<1> QED BY <1>1, AlwaysInv, PTL

\* server_schedule goes round without an end in sight only in the last Delta
\* milliseconds before the clock comes back to 0.
THEOREM StormsEndAtZero == Spec => []StormOnlyBeforeZero
<1>1. Inv => StormOnlyBeforeZero
  <2> SUFFICES ASSUME Inv, NEW i \in 1..Len(queue),
                      queue[i].at = now, queue[i].time <= Clock(now)
               PROVE  /\ now % LongRange >= Half
                      /\ (now % LongRange) + Delta[queue[i].fun] >= LongRange
    BY DEF StormOnlyBeforeZero
  <2> DEFINE d == Delta[queue[i].fun]
             c == Clock(now)
             r == now % LongRange
  <2>1. now \in Nat /\ queue[i] \in Right(now)
    BY ElementOfSeq DEF Inv, TypeOK
  <2>2. d \in 1..Half /\ queue[i].time = (c + d) % ULLRange
    BY <2>1, Ranges DEF Right, Task
  <2>3. c \in 0..(ULLRange - 1) /\ r \in 0..(LongRange - 1)
    <3>1. LongRange \in Nat \ {0}
      BY Ranges
    <3> QED BY <2>1, <3>1, ClockType, DivModValue, Zenon
  <2>4. c = IF r < Half THEN r ELSE ULLRange - LongRange + r
    BY DEF Clock
  <2> HIDE DEF d, c, r
  <2>5. c + d >= ULLRange
    <3>1. \A x \in 0..(ULLRange - 1) : x % ULLRange = x
      BY Ranges
    <3>2. ~(c + d \in 0..(ULLRange - 1))
      BY <2>2, <2>3, <3>1 DEF c
    <3> QED BY <2>2, <2>3, <3>2, Ranges
  <2>6. r >= Half /\ r + d >= LongRange
    BY <2>2, <2>3, <2>4, <2>5, Ranges
  <2> QED BY <2>6 DEF r, d
<1> QED BY <1>1, AlwaysInv, PTL

\* A task whose delay is over is due by the clock too, unless the clock came
\* back to 0 since it was made.
LEMMA DueWithin ==
    ASSUME NEW n \in Nat, NEW t \in Right(n),
           DueAt(t) <= n, t.at \div LongRange = n \div LongRange
    PROVE  t.time <= Clock(n)
<1> DEFINE k == n \div LongRange
           a == t.at % LongRange
           b == n % LongRange
           d == Delta[t.fun]
<1>1. /\ t.at \in Nat /\ d \in 1..Half
      /\ t.time = (Clock(t.at) + d) % ULLRange
      /\ t.at + d <= n
  BY Ranges DEF Right, Task, DueAt
<1>2. LongRange \in Nat \ {0}
  BY Ranges
<1>3. /\ k \in Nat /\ a \in 0..(LongRange - 1) /\ b \in 0..(LongRange - 1)
      /\ t.at = k * LongRange + a /\ n = k * LongRange + b
  BY <1>1, <1>2, DivModValue
<1>4. /\ Clock(t.at) = IF a < Half THEN a ELSE ULLRange - LongRange + a
      /\ Clock(n) = IF b < Half THEN b ELSE ULLRange - LongRange + b
  BY DEF Clock
<1>5. a + d <= b
  <2>1. k * LongRange \in Nat
    BY <1>2, <1>3
  <2> HIDE DEF k, a, b, d
  <2> QED BY <1>1, <1>3, <2>1
<1> HIDE DEF k, a, b, d
<1>6. Clock(t.at) + d <= Clock(n)
  BY <1>1, <1>3, <1>4, <1>5, Ranges
<1>7. \A x \in 0..(ULLRange - 1) : x % ULLRange = x
  BY Ranges
<1>8. Clock(t.at) \in 0..(ULLRange - 1) /\ Clock(n) \in 0..(ULLRange - 1)
  BY <1>1, ClockType
<1>9. Clock(t.at) + d \in 0..(ULLRange - 1)
  BY <1>1, <1>6, <1>8, Ranges
<1>10. t.time = Clock(t.at) + d
  BY <1>1, <1>7, <1>9
<1> QED BY <1>6, <1>10

\* server_schedule leaves no task waiting whose delay is over and whose time
\* was computed since the clock last came back to 0, because the task it looks
\* at is the one the clock reaches first.
THEOREM NoneLeftWaiting == Spec => ServedOnTime
<1>1. Inv /\ [Next]_vars =>
         [pc = "schedule" /\ pc' = "poll" =>
            \A i \in 1..Len(queue) :
               DueAt(queue[i]) <= now => queue[i].at \div LongRange # now \div LongRange]_vars
  <2> SUFFICES ASSUME Inv, [Next]_vars, pc = "schedule", pc' = "poll",
                      NEW i \in 1..Len(queue), DueAt(queue[i]) <= now,
                      queue[i].at \div LongRange = now \div LongRange
               PROVE  FALSE
    OBVIOUS
  <2>1. ~Due
    BY DEF Next, Tick, LoseLink, Polled, RunTask, Scheduled, vars
  <2>2. /\ now \in Nat /\ queue \in Seq(Right(now)) /\ SortedByTime(queue)
        /\ \A t \in Right(now) : t.time \in Nat
    BY Ranges DEF Inv, TypeOK, Right, Task
  <2>3. queue[i] \in Right(now) /\ queue[1] \in Right(now) /\ 1 \in 1..Len(queue)
    BY <2>2, ElementOfSeq, LenProperties
  <2>4. queue[i].time <= Clock(now)
    BY <2>2, <2>3, DueWithin
  <2>5. queue[1].time <= queue[i].time
    BY <2>2, <2>3 DEF SortedByTime
  <2>6. queue # <<>> /\ Head(queue) = queue[1]
    BY <2>2, <2>3
  <2>7. /\ Clock(now) \in 0..(ULLRange - 1)
        /\ queue[1].time \in Nat /\ queue[i].time \in Nat
    <3>1. queue[1].time \in Nat /\ queue[i].time \in Nat
      BY <2>2, <2>3, Zenon
    <3> QED BY <2>2, <3>1, ClockType
  <2>8. Head(queue).time <= Clock(now)
    BY <2>4, <2>5, <2>6, <2>7, Ranges
  <2> QED BY <2>1, <2>6, <2>8 DEF Due
<1> QED BY <1>1, AlwaysInv, PTL DEF Spec, ServedOnTime
=============================================================================
