------------------------------ MODULE ServerLoop ------------------------------
(***************************************************************************)
(* The ichatd process: one thread that polls its sockets, runs the I/O     *)
(* handlers of the clients whose sockets are ready, runs the timed tasks   *)
(* that are due, and starts again until the control console asks it to     *)
(* stop (src/server.c, src/poller.c, src/client.c, src/task.c and the      *)
(* handlers of the six kinds of client).                                   *)
(*                                                                         *)
(* A `struct client' is a heap cell.  `clist' is the server's linked list, *)
(* newest client first; `tasks' is server->task_queue.  A task's absolute  *)
(* wake-up time is kept as the time left until it, floored at 0: a new     *)
(* task is never due at once (both deltas are positive), so the order of   *)
(* overdue tasks is the only thing the floor forgets, and no code compares *)
(* two overdue tasks.                                                      *)
(***************************************************************************)
EXTENDS Naturals, Sequences, SequencesExt

CONSTANTS
    Slots,           \* heap cells for clients
    Links,           \* the s2s_block's of the configuration
    Ports,           \* the listeners the configuration gives a port to
    Heartbeat,       \* the heartbeat task function; a link task is its link
    NoLink,          \* link_block of a client that is not an outgoing link
    NoSlot,          \* the null client pointer
    ReconnectDelta,  \* S2S_RECONNECT_DELTA
    HeartbeatDelta,  \* S2S_HEARTBEAT_DELTA
    MaxElapse,       \* bound: the longest time one pass can take
    MaxAccepted      \* bound: accepted connections alive at one time

ASSUME DeltaAssumption ==
    /\ ReconnectDelta \in Nat \ {0}
    /\ HeartbeatDelta \in Nat \ {0}
    /\ MaxElapse \in Nat
    /\ MaxAccepted \in Nat

ASSUME NullAssumption ==
    /\ Heartbeat \notin Links
    /\ NoLink \notin Links
    /\ NoSlot \notin Slots

VARIABLES
    clist,       \* server->clist
    client,      \* the heap cells
    tasks,       \* server->task_queue
    shutdown,    \* server->shutdown
    pc,          \* the statement the thread is about to run
    cur,         \* `clnt' in the last loop of server_poll
    rd, wr,      \* the read and write sets handed to select
    configured,  \* the links of the configuration that have a port
    toStart      \* the ones server_register_s2s_links has not reached

vars == <<clist, client, tasks, shutdown, pc, cur, rd, wr, configured, toStart>>

Listeners   == {"ichat_server", "s2s_server", "ctl_server"}
Connections == {"ichat_client", "s2s_client", "ctl_client"}

\* A heap cell: `open' is fd >= 0, `pending' is buffer_queue_size (bo) > 0.
Cell == [type    : Listeners \cup Connections \cup {"free"},
         link    : Links \cup {NoLink},
         open    : BOOLEAN,
         corrupt : BOOLEAN,
         pending : BOOLEAN,
         auth    : BOOLEAN]

Freed == [type |-> "free", link |-> NoLink, open |-> FALSE,
          corrupt |-> FALSE, pending |-> FALSE, auth |-> FALSE]

Task == [fun : Links \cup {Heartbeat}, rem : Nat]

InList == Range(clist)
Free   == {s \in Slots : client[s].type = "free"}

-----------------------------------------------------------------------------
(* The task queue *)

\* Where the walk of server_add_task stops in a queue that is not empty.
Place(q, t) ==
    CHOOSE k \in 1..Len(q) :
        /\ k = Len(q) \/ ~(q[k + 1].rem < t.rem)
        /\ \A j \in 1..(k - 1) : q[j + 1].rem < t.rem

\* Mutant: append the task, whatever its time.
ServerAddTask_unsorted(q, t) == Append(q, t)

ServerAddTask(q, t) ==
    IF q = <<>> THEN <<t>>
    ELSE LET k == Place(q, t)
         IN  InsertAt(q, IF q[k].rem < t.rem THEN k + 1 ELSE k, t)

\* Mutant: an overdue task's time left wraps instead of staying due.
Elapse_nofloor(q, d) ==
    [i \in 1..Len(q) |-> [q[i] EXCEPT !.rem = q[i].rem - d]]

\* The clock moves d units ahead.
Elapse(q, d) ==
    [i \in 1..Len(q) |->
        [q[i] EXCEPT !.rem = IF q[i].rem > d THEN q[i].rem - d ELSE 0]]

\* Mutant: the new wake-up time is computed too small and is always past.
HeartbeatTask_storm == [fun |-> Heartbeat, rem |-> 0]

HeartbeatTask == [fun |-> Heartbeat, rem |-> HeartbeatDelta]
LinkTask(l)   == [fun |-> l, rem |-> ReconnectDelta]

-----------------------------------------------------------------------------
(* Clients *)

\* client_create for the descriptor of a new socket.
NewClient(type, link, ok) ==
    [type    |-> type,
     link    |-> link,
     open    |-> ok,
     corrupt |-> ~ok,
     pending |-> type = "ctl_client" \/ link # NoLink,  \* banner, LOGIN
     auth    |-> link # NoLink]

\* Mutant: new clients go to the tail of the list.
ServerAddClient_tail(s, c) ==
    /\ s \in Free
    /\ client' = [client EXCEPT ![s] = c]
    /\ clist' = Append(clist, s)

ServerAddClient(s, c) ==
    /\ s \in Free
    /\ client' = [client EXCEPT ![s] = c]
    /\ clist' = Cons(s, clist)

\* Mutant: give up when connect fails, before a client is made.
StartLink_giveup(l) ==
    \/ \E s \in Slots : ServerAddClient(s, NewClient("s2s_client", l, TRUE))
    \/ UNCHANGED <<clist, client>>

\* start_ichat_s2s_link: a client is made even when connect failed, for its
\* destructor holds the reconnection code.
StartLink(l) ==
    \E s \in Slots, ok \in BOOLEAN :
        ServerAddClient(s, NewClient("s2s_client", l, ok))

\* Mutant: no reconnection when the connection attempt itself has failed.
ClientDestroy_connectedonly(s) ==
    /\ client' = [client EXCEPT ![s] = Freed]
    /\ tasks' = IF client[s].link # NoLink /\ client[s].open /\ ~shutdown
                THEN ServerAddTask(tasks, LinkTask(client[s].link))
                ELSE tasks

\* client_destroy; only the destructor of an outgoing link has an effect on
\* the rest of the server.
ClientDestroy(s) ==
    /\ client' = [client EXCEPT ![s] = Freed]
    /\ tasks' = IF client[s].link # NoLink /\ ~shutdown
                THEN ServerAddTask(tasks, LinkTask(client[s].link))
                ELSE tasks

Corrupt(s) == client' = [client EXCEPT ![s].corrupt = TRUE]

-----------------------------------------------------------------------------
(* server_run, before the dispatcher *)

Init ==
    /\ clist = <<>>
    /\ client = [s \in Slots |-> Freed]
    /\ tasks = <<>>
    /\ shutdown = FALSE
    /\ pc = "bind_ichat"
    /\ cur = NoSlot
    /\ rd = {} /\ wr = {}
    /\ configured \in SUBSET Links
    /\ toStart = configured

\* One of the three blocks of server_bind_ports; without a port, or when the
\* socket cannot be had, there is no listener.
BindPort(here, type, next) ==
    /\ pc = here
    /\ pc' = next
    /\ \/ UNCHANGED <<clist, client>>
       \/ /\ type \in Ports
          /\ \E s \in Slots : ServerAddClient(s, NewClient(type, NoLink, TRUE))
    /\ UNCHANGED <<tasks, shutdown, cur, rd, wr, configured, toStart>>

BindPorts ==
    \/ BindPort("bind_ichat", "ichat_server", "bind_s2s")
    \/ BindPort("bind_s2s", "s2s_server", "bind_ctl")
    \/ BindPort("bind_ctl", "ctl_server", "heartbeats")

RegisterHeartbeats ==
    /\ pc = "heartbeats"
    /\ pc' = "links"
    /\ tasks' = ServerAddTask(tasks, HeartbeatTask)
    /\ UNCHANGED <<clist, client, shutdown, cur, rd, wr, configured, toStart>>

\* The configuration may list the links in any order.
RegisterLink ==
    /\ pc = "links"
    /\ \E l \in toStart :
          /\ toStart' = toStart \ {l}
          /\ StartLink(l)
    /\ UNCHANGED <<tasks, shutdown, pc, cur, rd, wr, configured>>

LinksRegistered ==
    /\ pc = "links"
    /\ toStart = {}
    /\ pc' = "reap"
    /\ UNCHANGED <<clist, client, tasks, shutdown, cur, rd, wr, configured, toStart>>

-----------------------------------------------------------------------------
(* server_poll *)

\* Mutant: only the first client of the list is looked at.
Reap_headonly ==
    /\ pc = "reap"
    /\ IF clist # <<>> /\ client[clist[1]].corrupt
       THEN clist' = Tail(clist) /\ ClientDestroy(clist[1])
       ELSE UNCHANGED <<clist, client, tasks>>
    /\ pc' = "fill"
    /\ UNCHANGED <<shutdown, cur, rd, wr, configured, toStart>>

\* The first loop: it breaks at the first corrupt client it has destroyed.
Reap ==
    /\ pc = "reap"
    /\ \E i \in 1..Len(clist) :
          /\ client[clist[i]].corrupt
          /\ \A j \in 1..(i - 1) : ~client[clist[j]].corrupt
          /\ clist' = RemoveAt(clist, i)
          /\ ClientDestroy(clist[i])
    /\ pc' = "fill"
    /\ UNCHANGED <<shutdown, cur, rd, wr, configured, toStart>>

NothingToReap ==
    /\ pc = "reap"
    /\ \A s \in InList : ~client[s].corrupt
    /\ pc' = "fill"
    /\ UNCHANGED <<clist, client, tasks, shutdown, cur, rd, wr, configured, toStart>>

\* assert (clnt->fd >= 0)
AssertFd ==
    /\ pc = "fill"
    /\ \E s \in InList : ~client[s].open
    /\ pc' = "aborted"
    /\ UNCHANGED <<clist, client, tasks, shutdown, cur, rd, wr, configured, toStart>>

CanRead(c)  == c.type \in Listeners \/ ~c.corrupt
CanWrite(c) == c.type \in Connections /\ ~c.corrupt /\ c.pending

\* The second loop.  Every client has an error handler, so the third set is
\* the whole list.
Fill ==
    /\ pc = "fill"
    /\ \A s \in InList : client[s].open
    /\ rd' = {s \in InList : CanRead(client[s])}
    /\ wr' = {s \in InList : CanWrite(client[s])}
    /\ pc' = "select"
    /\ UNCHANGED <<clist, client, tasks, shutdown, cur, configured, toStart>>

\* select returns.  d also stands for the time the handlers of this pass will
\* take: nothing reads the clock before server_schedule does.
Select(d) ==
    /\ pc = "select"
    /\ tasks' = Elapse(tasks, d)
    /\ cur' = IF clist = <<>> THEN NoSlot ELSE clist[1]
    /\ pc' = "read"
    /\ UNCHANGED <<clist, client, shutdown, rd, wr, configured, toStart>>

\* select fails: logged, and server_poll returns.
SelectFails(d) ==
    /\ pc = "select"
    /\ tasks' = Elapse(tasks, d)
    /\ rd' = {} /\ wr' = {}
    /\ pc' = "polled"
    /\ UNCHANGED <<clist, client, shutdown, cur, configured, toStart>>

EndOfList ==
    /\ pc = "read"
    /\ cur = NoSlot
    /\ rd' = {} /\ wr' = {}
    /\ pc' = "polled"
    /\ UNCHANGED <<clist, client, tasks, shutdown, cur, configured, toStart>>

-----------------------------------------------------------------------------
(* server_poll, third loop: the handlers of the client at `cur'.  Readiness *)
(* is chosen here; nothing observes it earlier.                             *)

Visiting(here) == pc = here /\ cur # NoSlot

Skip(here, next) ==
    /\ Visiting(here)
    /\ pc' = next
    /\ UNCHANGED <<clist, client, tasks, shutdown, cur, rd, wr, configured, toStart>>

Readable == Visiting("read") /\ cur \in rd /\ ~client[cur].corrupt

Accepted == {s \in InList : client[s].type \in Connections /\ client[s].link = NoLink}

AcceptedAs(listener) ==
    CASE listener = "ichat_server" -> "ichat_client"
      [] listener = "s2s_server"   -> "s2s_client"
      [] listener = "ctl_server"   -> "ctl_client"

\* The read handler of a listener.  accept fails when it has no descriptor
\* left (MaxAccepted), or for any other reason (then it is a Skip).
Accept ==
    /\ Readable
    /\ Cardinality(Accepted) < MaxAccepted
    /\ client[cur].type \in Listeners
    /\ \E s \in Slots :
          ServerAddClient(s, NewClient(AcceptedAs(client[cur].type), NoLink, TRUE))
    /\ pc' = "write"
    /\ UNCHANGED <<tasks, shutdown, cur, rd, wr, configured, toStart>>

\* Mutant: the read handler destroys the client instead of marking it.
ReadFails_destroys ==
    /\ Readable
    /\ client[cur].type \in Connections
    /\ clist' = SelectSeq(clist, LAMBDA s : s # cur)
    /\ ClientDestroy(cur)
    /\ pc' = "write"
    /\ UNCHANGED <<shutdown, cur, rd, wr, configured, toStart>>

\* buffer_read returns -1 or 0.
ReadFails ==
    /\ Readable
    /\ client[cur].type \in Connections
    /\ Corrupt(cur)
    /\ pc' = "write"
    /\ UNCHANGED <<clist, tasks, shutdown, cur, rd, wr, configured, toStart>>

\* buffer_read returns data: the loop over the messages in the buffer begins.
ReadData ==
    /\ Readable
    /\ client[cur].type \in Connections
    /\ pc' = "parse"
    /\ UNCHANGED <<clist, client, tasks, shutdown, cur, rd, wr, configured, toStart>>

\* No complete message is left.
ParseEnd ==
    /\ pc = "parse"
    /\ pc' = "write"
    /\ UNCHANGED <<clist, client, tasks, shutdown, cur, rd, wr, configured, toStart>>

\* A bad length header ends the loop; a malformed message does not.
ParseBad ==
    /\ pc = "parse"
    /\ client[cur].type \in {"ichat_client", "s2s_client"}
    /\ Corrupt(cur)
    /\ pc' \in {"parse", "write"}
    /\ UNCHANGED <<clist, tasks, shutdown, cur, rd, wr, configured, toStart>>

Locals  == {s \in InList : client[s].type = "ichat_client"}
Remotes == {s \in InList \ {cur} : client[s].type = "s2s_client" /\ client[s].auth}

\* Whom ichat_dispatch may queue the message at `cur' for: nobody (no valid
\* receiver), everybody, the local clients with the receiver's signature or,
\* when there is none, the other servers.
Receivers == {{}, Locals \cup Remotes, Remotes} \cup SUBSET Locals

Dispatch ==
    /\ pc = "parse"
    /\ \/ client[cur].type = "ichat_client"
       \/ client[cur].type = "s2s_client" /\ client[cur].auth
    /\ \E to \in Receivers :
          client' = [s \in Slots |->
                        [client[s] EXCEPT !.pending = @ \/ s \in to]]
    /\ UNCHANGED <<clist, tasks, shutdown, pc, cur, rd, wr, configured, toStart>>

\* A LOGIN message with the right password.
Login ==
    /\ pc = "parse"
    /\ client[cur].type = "s2s_client"
    /\ client' = [client EXCEPT ![cur].auth = TRUE]
    /\ UNCHANGED <<clist, tasks, shutdown, pc, cur, rd, wr, configured, toStart>>

\* A console line: echo, help and an unknown command are answered; exit drops
\* the client; stop asks the dispatcher to return.
Console ==
    /\ pc = "parse"
    /\ client[cur].type = "ctl_client"
    /\ \/ /\ client' = [client EXCEPT ![cur].pending = TRUE]
          /\ UNCHANGED shutdown
       \/ /\ Corrupt(cur)
          /\ UNCHANGED shutdown
       \/ /\ shutdown' = TRUE
          /\ UNCHANGED client
    /\ UNCHANGED <<clist, tasks, pc, cur, rd, wr, configured, toStart>>

Writable == Visiting("write") /\ cur \in wr /\ ~client[cur].corrupt

\* buffer_queue_write sent all that was queued (a part of it: Skip).
WriteAll ==
    /\ Writable
    /\ client' = [client EXCEPT ![cur].pending = FALSE]
    /\ pc' = "error"
    /\ UNCHANGED <<clist, tasks, shutdown, cur, rd, wr, configured, toStart>>

WriteFails ==
    /\ Writable
    /\ Corrupt(cur)
    /\ pc' = "error"
    /\ UNCHANGED <<clist, tasks, shutdown, cur, rd, wr, configured, toStart>>

\* clnt = clnt->next
Position(s) == CHOOSE i \in 1..Len(clist) : clist[i] = s

NextClient(s) ==
    IF Position(s) = Len(clist) THEN NoSlot ELSE clist[Position(s) + 1]

VisitError ==
    /\ Visiting("error")
    /\ \/ UNCHANGED client
       \/ ~client[cur].corrupt /\ Corrupt(cur)
    /\ cur' = NextClient(cur)
    /\ pc' = "read"
    /\ UNCHANGED <<clist, tasks, shutdown, rd, wr, configured, toStart>>

-----------------------------------------------------------------------------
(* server_start_dispatcher and server_schedule *)

\* Mutant: the dispatcher does not look at server->shutdown.
Polled_goon ==
    /\ pc = "polled"
    /\ pc' = "schedule"
    /\ UNCHANGED <<clist, client, tasks, shutdown, cur, rd, wr, configured, toStart>>

Polled ==
    /\ pc = "polled"
    /\ pc' = IF shutdown THEN "closing" ELSE "schedule"
    /\ UNCHANGED <<clist, client, tasks, shutdown, cur, rd, wr, configured, toStart>>

TaskDue == tasks # <<>> /\ tasks[1].rem = 0

\* Mutant: the heartbeat does not register itself again.
RunHeartbeat_once ==
    /\ pc = "schedule"
    /\ TaskDue
    /\ tasks[1].fun = Heartbeat
    /\ tasks' = Tail(tasks)
    /\ UNCHANGED <<clist, client, shutdown, pc, cur, rd, wr, configured, toStart>>

RunHeartbeat ==
    /\ pc = "schedule"
    /\ TaskDue
    /\ tasks[1].fun = Heartbeat
    /\ tasks' = ServerAddTask(Tail(tasks), HeartbeatTask)
    /\ UNCHANGED <<clist, client, shutdown, pc, cur, rd, wr, configured, toStart>>

\* The connection attempt blocks: the socket is not made non-blocking.
RunLink(d) ==
    /\ pc = "schedule"
    /\ TaskDue
    /\ tasks[1].fun \in Links
    /\ tasks' = Elapse(Tail(tasks), d)
    /\ StartLink(tasks[1].fun)
    /\ UNCHANGED <<shutdown, pc, cur, rd, wr, configured, toStart>>

ScheduleEnd ==
    /\ pc = "schedule"
    /\ ~TaskDue
    /\ pc' = "reap"
    /\ UNCHANGED <<clist, client, tasks, shutdown, cur, rd, wr, configured, toStart>>

-----------------------------------------------------------------------------
(* server_shutdown *)

\* Mutant: the clients are unlinked but not destroyed.
CloseClient_leak ==
    /\ pc = "closing"
    /\ clist # <<>>
    /\ clist' = Tail(clist)
    /\ UNCHANGED <<client, tasks, shutdown, pc, cur, rd, wr, configured, toStart>>

CloseClient ==
    /\ pc = "closing"
    /\ clist # <<>>
    /\ clist' = Tail(clist)
    /\ ClientDestroy(Head(clist))
    /\ UNCHANGED <<shutdown, pc, cur, rd, wr, configured, toStart>>

ClientsClosed ==
    /\ pc = "closing"
    /\ clist = <<>>
    /\ pc' = "killing"
    /\ UNCHANGED <<clist, client, tasks, shutdown, cur, rd, wr, configured, toStart>>

KillTask ==
    /\ pc = "killing"
    /\ tasks # <<>>
    /\ tasks' = Tail(tasks)
    /\ UNCHANGED <<clist, client, shutdown, pc, cur, rd, wr, configured, toStart>>

TasksKilled ==
    /\ pc = "killing"
    /\ tasks = <<>>
    /\ pc' = "stopped"
    /\ UNCHANGED <<clist, client, tasks, shutdown, cur, rd, wr, configured, toStart>>

Ended == pc \in {"stopped", "aborted"} /\ UNCHANGED vars

Poll ==
    \/ Reap \/ NothingToReap \/ AssertFd \/ Fill
    \/ \E d \in 0..MaxElapse : Select(d) \/ SelectFails(d)
    \/ EndOfList
    \/ Skip("read", "write") \/ Accept \/ ReadFails \/ ReadData
    \/ ParseEnd \/ ParseBad \/ Dispatch \/ Login \/ Console
    \/ Skip("write", "error") \/ WriteAll \/ WriteFails
    \/ VisitError

Schedule ==
    \/ RunHeartbeat
    \/ \E d \in 0..MaxElapse : RunLink(d)
    \/ ScheduleEnd

Next ==
    \/ BindPorts \/ RegisterHeartbeats \/ RegisterLink \/ LinksRegistered
    \/ Poll \/ Polled \/ Schedule
    \/ CloseClient \/ ClientsClosed \/ KillTask \/ TasksKilled
    \/ Ended

Spec == Init /\ [][Next]_vars

\* The thread does not stop between two statements, a read delivers finitely
\* many messages, and time passes.
TimePasses == \E d \in 1..MaxElapse : Select(d)

Fairness ==
    /\ WF_vars(Next)
    /\ WF_vars(ParseEnd)
    /\ SF_vars(TimePasses)

FairSpec == Spec /\ Fairness

-----------------------------------------------------------------------------
(* Properties *)

\* Every variable keeps its type.
TypeOK ==
    /\ clist \in Seq(Slots)
    /\ client \in [Slots -> Cell]
    /\ tasks \in Seq(Task)
    /\ shutdown \in BOOLEAN
    /\ pc \in {"bind_ichat", "bind_s2s", "bind_ctl", "heartbeats", "links",
               "reap", "fill", "select", "read", "parse", "write", "error",
               "polled", "schedule", "closing", "killing", "stopped", "aborted"}
    /\ cur \in Slots \cup {NoSlot}
    /\ rd \in SUBSET Slots
    /\ wr \in SUBSET Slots
    /\ configured \in SUBSET Links
    /\ toStart \in SUBSET configured

Stopping == pc \in {"closing", "killing", "stopped"}

\* What keeps link l going: its client, or the task that will start it again.
Owners(l) ==
    {<<"client", s>> : s \in {x \in InList : client[x].link = l}}
        \cup {<<"task", i>> : i \in {x \in 1..Len(tasks) : tasks[x].fun = l}}

\* No link of the configuration is forgotten and none is started twice: from
\* its registration until the server stops, each has exactly one owner, a
\* client in the list or a reconnection task, whatever fails in between
\* (ichat_s2s_client_destroy_impl, start_ichat_s2s_link).
LinkConservation ==
    ~Stopping =>
        \A l \in Links :
            IF l \in configured \ toStart
            THEN \E o \in Owners(l) : Owners(l) = {o}
            ELSE Owners(l) = {}

\* The heartbeat re-registers itself: while the dispatcher runs exactly one
\* heartbeat task is queued, so select always has a timeout (poller.c, ptv).
AlwaysOneHeartbeat ==
    pc \notin {"bind_ichat", "bind_s2s", "bind_ctl", "heartbeats"} /\ ~Stopping =>
        \E i \in 1..Len(tasks) :
            \A j \in 1..Len(tasks) : tasks[j].fun = Heartbeat <=> j = i

\* server_add_task keeps the queue in the order of wake-up, which the poll
\* timeout and server_schedule rely on: both look at its head only.
TasksSorted ==
    \A i, j \in 1..Len(tasks) : i < j => tasks[i].rem <= tasks[j].rem

\* The list holds each live client once and no freed one, and the loop that
\* runs the handlers never stands on, or selects for, a client that has been
\* destroyed, though the handlers add clients and the list is singly linked.
NoDanglingClient ==
    /\ IsInjective(clist)
    /\ InList = Slots \ Free
    /\ rd \cup wr \subseteq InList
    /\ pc \in {"read", "parse", "write", "error"} /\ cur # NoSlot => cur \in InList
    /\ pc \in {"parse", "write", "error"} => cur # NoSlot

\* poller.c: "MUST be always true".  A connection whose descriptor is in the
\* read set is not corrupt when its read handler is about to run.
ReadOnlyLive ==
    pc = "read" /\ cur \in rd /\ client[cur].type \in Connections => ~client[cur].corrupt

\* With at most one link the assertion on descriptors in server_poll never
\* fails: a link that could not connect is at the head of the list when the
\* next poll begins, and is the one client that poll destroys.
OneLinkNeverAborts ==
    (\A k, l \in configured : k = l) => pc # "aborted"

\* Once stopped, the server has freed every client and every task.
CleanExit ==
    pc = "stopped" => clist = <<>> /\ tasks = <<>> /\ Free = Slots

\* After "stop" no task is queued and no link is started, by the clients that
\* close while the server goes down, or by anything else.
NothingStartsAfterStop ==
    [][shutdown => /\ Len(tasks') <= Len(tasks)
                   /\ \A l \in Links : Owners(l)' \subseteq Owners(l)
                        \/ pc = "killing"]_vars

\* The supervision of the links, seen from outside.
LinkState(l) ==
    IF \E s \in InList : client[s].link = l THEN "attached"
    ELSE IF \E i \in 1..Len(tasks) : tasks[i].fun = l THEN "waiting"
    ELSE "off"

Supervisor == INSTANCE LinkSupervisor WITH
    state <- [l \in Links |-> LinkState(l)],
    up <- ~shutdown

LinksSupervised == Supervisor!Spec

\* A lost link is tried again, unless the server ends first.
LinkRetried ==
    \A l \in Links :
        LinkState(l) = "waiting" ~> LinkState(l) = "attached" \/ shutdown \/ pc = "aborted"

ClientMade == \E s \in Slots : client[s].type = "free" /\ client'[s].type # "free"

\* A corrupt client is destroyed, or clients keep arriving for ever: each
\* poll destroys one corrupt client only, the newest.
CorruptDestroyed ==
    \/ []<><<ClientMade>>_vars
    \/ \A s \in Slots : client[s].corrupt ~> ~client[s].corrupt \/ pc = "aborted"

\* A "stop" is obeyed.
StopCompletes == shutdown ~> pc = "stopped"
=============================================================================
