------------------------------ MODULE TimerWidth ------------------------------
(***************************************************************************)
(* The clock of the timed tasks (GetTimerMS in src/misc.c, src/task.c, the *)
(* task queue of src/server.c and what server_poll does with it).          *)
(*                                                                         *)
(* GetTimerMS computes tv_sec*1000 + tv_usec/1000 in a `long' and returns  *)
(* it as an `unsigned long long'.  Where a long is too narrow for the      *)
(* milliseconds since 1970 the product wraps, and a negative result is     *)
(* extended with ones.  `now' is the time that really has passed; the      *)
(* server sees only Clock(now), and every wake-up time is computed from    *)
(* it.  The parts of the loop that have nothing to do with time are in     *)
(* ServerLoop.                                                             *)
(***************************************************************************)
EXTENDS Integers, Sequences, SequencesExt

CONSTANTS
    LongRange,   \* how many values a long has, an even number
    ULLRange,    \* how many values an unsigned long long has
    Heartbeat,   \* the heartbeat task
    Links,       \* the tasks that start a link, one per s2s block
    Delta,       \* the delay task_create is given, for each task
    NoTask,      \* before the first task has run
    MaxNow       \* bound: when the clock stops

Tasks == Links \cup {Heartbeat}

ASSUME RangeAssumption ==
    /\ LongRange \in Nat \ {0} /\ LongRange % 2 = 0
    /\ ULLRange \in Nat /\ ULLRange >= LongRange
    /\ MaxNow \in Nat

ASSUME TaskAssumption ==
    /\ Heartbeat \notin Links
    /\ NoTask \notin Links \cup {Heartbeat}
    /\ Delta \in [Links \cup {Heartbeat} -> 1..(LongRange \div 2)]

VARIABLES
    now,    \* milliseconds since 1970
    queue,  \* server->task_queue
    up,     \* the links that have a client, connected or not
    pc,     \* "poll" in server_poll, "schedule" in server_schedule
    ran     \* the task that has run last, and when

vars == <<now, queue, up, pc, ran>>

Half == LongRange \div 2

\* GetTimerMS at time t.
Clock(t) ==
    LET r == t % LongRange
    IN  IF r < Half THEN r ELSE ULLRange - LongRange + r

\* Mutant: the delay is forgotten.
TaskCreate_nodelta(f, t) == [fun |-> f, time |-> Clock(t), at |-> t]

\* task_create; `at' is when the task was made.
TaskCreate(f, t) ==
    [fun |-> f, time |-> (Clock(t) + Delta[f]) % ULLRange, at |-> t]

\* When a task should run.
DueAt(t) == t.at + Delta[t.fun]

\* Mutant: a task that is earlier than all others goes behind the first.
Add_second(q, t) ==
    IF q = <<>> THEN <<t>>
    ELSE LET k == CHOOSE i \in 1..Len(q) :
                     /\ i = Len(q) \/ q[i + 1].time >= t.time
                     /\ \A j \in 2..i : q[j].time < t.time
         IN  InsertAt(q, k + 1, t)

\* server_add_task: the walk ends at the last task, or before one that is not
\* earlier than t; t goes behind the task it ends at or in front of it.
Add(q, t) ==
    IF q = <<>> THEN <<t>>
    ELSE LET k == CHOOSE i \in 1..Len(q) :
                     /\ i = Len(q) \/ q[i + 1].time >= t.time
                     /\ \A j \in 2..i : q[j].time < t.time
         IN  InsertAt(q, IF q[k].time < t.time THEN k + 1 ELSE k, t)

Init ==
    /\ now \in 0..MaxNow
    /\ queue = <<TaskCreate(Heartbeat, now)>>
    /\ up = Links
    /\ pc = "poll"
    /\ ran = [fun |-> NoTask, at |-> now, on |-> now]

Tick ==
    /\ now < MaxNow
    /\ now' = now + 1
    /\ UNCHANGED <<queue, up, pc, ran>>

\* server_poll destroys the client of a link.
LoseLink(l) ==
    /\ pc = "poll"
    /\ l \in up
    /\ up' = up \ {l}
    /\ queue' = Add(queue, TaskCreate(l, now))
    /\ UNCHANGED <<now, pc, ran>>

\* server_poll returns: select has an answer, or its timeout is over.
Polled ==
    /\ pc = "poll"
    /\ pc' = "schedule"
    /\ UNCHANGED <<now, queue, up, ran>>

\* Mutant: a task may run up to a millisecond before its time.
Due_early == queue # <<>> /\ Head(queue).time <= Clock(now) + 1

Due == queue # <<>> /\ Head(queue).time <= Clock(now)

\* task_run of the head: a heartbeat makes the next one, a link task a client.
RunTask ==
    /\ pc = "schedule"
    /\ Due
    /\ LET t == Head(queue)
       IN  /\ ran' = [fun |-> t.fun, at |-> t.at, on |-> now]
           /\ IF t.fun = Heartbeat
              THEN /\ queue' = Add(Tail(queue), TaskCreate(Heartbeat, now))
                   /\ UNCHANGED up
              ELSE /\ queue' = Tail(queue)
                   /\ up' = up \cup {t.fun}
    /\ UNCHANGED <<now, pc>>

\* server_schedule returns, and server_poll starts again.
Scheduled ==
    /\ pc = "schedule"
    /\ ~Due
    /\ pc' = "poll"
    /\ UNCHANGED <<now, queue, up, ran>>

Next ==
    \/ Tick
    \/ \E l \in Links : LoseLink(l)
    \/ Polled \/ RunTask \/ Scheduled

Spec == Init /\ [][Next]_vars

\* Time passes.  There is always a task in the queue, so that select is always
\* given a timeout.
FairSpec == Spec /\ WF_vars(Tick) /\ WF_vars(Polled) /\ WF_vars(RunTask \/ Scheduled)

-----------------------------------------------------------------------------
(* Properties *)

Task == [fun : Tasks, time : 0..(ULLRange - 1), at : Nat]

\* Every variable keeps its type.
TypeOK ==
    /\ now \in Nat
    /\ queue \in Seq(Task)
    /\ up \subseteq Links
    /\ pc \in {"poll", "schedule"}
    /\ ran \in [fun : Tasks \cup {NoTask}, at : Nat, on : Nat]

\* server.c, on the heartbeat: "5 min".  No task runs before the delay it was
\* given is over.
NotEarly == ran.fun # NoTask => ran.on >= ran.at + Delta[ran.fun]

\* Whatever the width of a long, a task runs early only when the clock changes
\* its sign between the making of the task and the time it is made for.
EarlyOnlyAcrossWrap ==
    ran.fun # NoTask /\ ran.on < ran.at + Delta[ran.fun] =>
        ran.at \div Half # (ran.at + Delta[ran.fun]) \div Half

\* A task is due as soon as it is made, and server_schedule goes round without
\* serving a client, only while the clock is negative and closer to 0 than the
\* delay.
StormOnlyBeforeZero ==
    \A i \in 1..Len(queue) :
        queue[i].at = now /\ queue[i].time <= Clock(now) =>
            /\ now % LongRange >= Half
            /\ (now % LongRange) + Delta[queue[i].fun] >= LongRange

\* When server_schedule goes back to the clients, it has run every task whose
\* delay is over, wherever in the queue, except those made before the clock last
\* came back to 0: these wait until it has gone all the way round.
ServedOnTime ==
    [][pc = "schedule" /\ pc' = "poll" =>
         \A i \in 1..Len(queue) :
             DueAt(queue[i]) <= now => queue[i].at \div LongRange # now \div LongRange]_vars

\* KNOWN-BUGS, on the flood of heartbeats: "[stabilized]".  server_schedule is
\* left again, and the clients are served.
ScheduleEnds == pc = "schedule" ~> pc = "poll"
=============================================================================
