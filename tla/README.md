# A TLA+ model of ichatd

ichatd is a chat server: one process, one thread, a `select` loop. This directory
holds TLA+ modules that model it, TLC configurations that check them on small
instances, and proofs of the main results for every value of the constants.
Paths below are relative to the root of the repository.

## 1. The system

| Component | Source | State | Operations |
|---|---|---|---|
| server core | `src/server.c`, `src/list.h` | `clist` (singly linked list, newest first), `task_queue` (sorted), `shutdown` | bind ports, register heartbeat and links, dispatch, schedule, shut down |
| poller | `src/poller.c` | the descriptor sets of one pass | remove a corrupt client, fill, `select`, run the handlers |
| tasks | `src/task.c` | wake-up time, function, data | create, run, destroy |
| clients | `src/client.c`, `src/ops.h` | descriptor, `corrupt`, type, table of handlers, `impl` | create, destroy, `server_add_client`, `server_remove_client` |
| listeners | `src/ichat/server`, `src/ichat/s2s_server`, `src/ctl/server` | none of their own | accept, error |
| chat clients | `src/ichat/client` | input buffer, output queue, signature | read, frame, parse, dispatch, write |
| server-to-server clients and links | `src/ichat/s2s_client` | the same, plus direction and state of the authentication and the `link_block` of an outgoing link | the same, plus LOGIN, FORWARD, reconnection |
| console | `src/ctl/client` | input buffer, output queue | echo, help, exit, stop |
| output queue | `src/buffer_queue.c` | list of buffers, offset in the first one | append, size, gather, write, advance |
| buffers | `src/buffer.c` | bytes, size, reference count | alloc, ref, unref, resize, read, write |
| dispatch and formats | `src/ichat/proto` | none | choose the receivers of a message, parse, build |
| configuration, log, main, rc4 | `src/config.c`, `src/log.c`, `src/main.c`, `src/rc4.c` | options, a log file | parse at startup, print |

How they interact. `server_run` fills `clist` with the listeners, queues the
heartbeat, starts the links and enters the dispatcher: `server_poll`, then
`server_schedule`, until `shutdown` is set. The poller calls the handlers of the
clients through `struct ops`. A handler never destroys a client: it sets
`corrupt`, and a later poll unlinks and destroys it. The read handler of a
listener prepends a client to the list the poller is walking. The read handlers
of connections call `ichat_dispatch`, which appends buffers to the output queues
of other clients through `add_message`. The destructor of an outgoing link
queues a task, and running that task makes a new client: a link goes round
between the list and the task queue for ever. The console's "stop" sets a flag
which the dispatcher looks at after the pass.

There are no threads and no signal handlers, and nothing is persisted. What is
hard within one server is the order in which the handlers of one pass run, several things failing
in the same pass, objects that are added while a list is walked, the life of a
link, and the arithmetic of partial writes. Between servers there is no
acknowledgement and no memory of what was seen: a connection that fails loses an
unknown part of what was sent, either side notices by itself, and the side that
connects may be on its next connection while the other one still reads the last.
`PROJECT.json` lists these hazards
line by line under `hazards`, with the properties that watch each one; where the code
falls into one, and a property makes an exception for it, the hazard has a note instead.

What makes each component correct:

* server core: the list is exactly the live clients; the task queue stays sorted;
  there is always one heartbeat; what is stopped stays stopped and frees everything.
* poller: no handler runs for a destroyed or a corrupt client; a corrupt client is
  destroyed in the end; the assertion on descriptors holds.
* links: never forgotten, never started twice, retried.
* output queue: the socket gets the queued bytes, in order, each once, and all of
  them unless the client is dropped.
* network: on a tree of servers a message reaches each client at most once, in the
  order its author wrote it in and only if it is for him, messages reach their receivers
  while the links stay up, and a wrong password separates servers.
* input: whatever the pieces it arrives in, the messages a peer has sent are handled
  in order, each once, as soon as they are complete, and the buffer stays small.
* sizes: what one server accepts the others accept, and no server aborts over it.
* console: each line is answered once, by what its command says.
* clock: no task is early or late, and the server comes back from its tasks to its clients.
* sockets: a server comes back from its writes.
* configuration: each line of the file does what it says, or is complained about.

## 2. The modules

| Module | What it is |
|---|---|
| `ServerLoop` | the process: core, poller, tasks, clients, links, and the handlers of the six kinds of client with the payload abstracted |
| `LinkSupervisor` | abstract: what the server promises about its outgoing links |
| `MCServerLoop` | the symmetry for TLC |
| `BufferQueue` | the output queue of a client and its write handler |
| `ByteStream` | abstract: what the output queue promises |
| `MCBufferQueue` | messages for TLC |
| `ChatNet` | several servers joined by links, and their chat clients |
| `ChatRoom` | abstract: what the servers together promise the people who chat |
| `MCChatNet` | networks, clients and messages for TLC |
| `TimerWidth`, `MCTimerWidth` | the clock of the timed tasks, in a `long` of a given width |
| `MessageStream` | abstract: what the input of a connection promises |
| `Framing`, `MCFraming` | the input buffer and the loop that cuts it into messages |
| `HopSizes`, `MCHopSizes` | the size of a message from server to server, the limits and the assertion |
| `BlockingWrites`, `MCBlockingWrites` | servers whose sockets have limited room and block |
| `LineServer` | abstract: what the console promises |
| `CtlConsole`, `MCCtlConsole` | the input of the console, its commands and answers |
| `ConfigLines` | abstract: what a line of the configuration file means |
| `ConfigFile`, `MCConfigFile` | the parser of that file, with its one buffer, and what the server starts |
| `ServerLoopProofs`, `BufferQueueProofs`, `ChatNetProofs`, `TimerWidthProofs`, `FramingProofs`, `HopSizesProofs`, `BlockingWritesProofs`, `CtlConsoleProofs` | proofs about the module they are named after |

How the modules fit together. `ServerLoop` is one process with its payload
abstracted; the others open one of its abstractions each, and say what the parts
they leave out may do. `BufferQueue` and `Framing` are the two ends of a connection
seen from a byte: together they justify the FIFO of packets in `ChatNet`.
`TimerWidth` gives `ServerLoop`'s "time left" a clock, `BlockingWrites` gives its
writes a socket that is full, `CtlConsole` opens its action `Console`, `HopSizes`
gives the messages of `ChatNet` a size, and `ConfigFile` is where the ports and
links of `ServerLoop` come from.

Definitions with a suffix (`Reap_headonly`, `ServerAddTask_unsorted`, ...) are
mutants: the same definition with a plausible mistake. No specification uses
them. Each property is paired with one in `PROJECT.json`, which breaks it: the
property does say something about the code.

### ServerLoop

`pc` is the statement the thread is about to run. One action is one statement or
one handler, so TLC sees every order of connects, messages, errors and timeouts.

| Variable | Code |
|---|---|
| `clist` | `server->clist`, a sequence of heap cells, newest first |
| `client` | the heap: type, `link_block`, `fd >= 0`, `corrupt`, `buffer_queue_size (bo) > 0`, `is_authenticated`; a freed cell has type `"free"` |
| `tasks` | `server->task_queue`: function and time left |
| `shutdown` | `server->shutdown` |
| `cur`, `rd`, `wr` | `clnt` and the sets of `server_poll` |
| `configured`, `toStart` | the `s2s_block`s with a port, and those still to be registered |

| Actions | Code |
|---|---|
| `BindPorts`, `RegisterHeartbeats`, `RegisterLink`, `LinksRegistered` | `server_run` |
| `Reap`, `NothingToReap`, `AssertFd`, `Fill`, `Select`, `SelectFails`, `EndOfList` | `server_poll` up to the last loop |
| `Skip`, `Accept`, `ReadFails`, `ReadData`, `ParseEnd`, `ParseBad`, `Dispatch`, `Login`, `Console`, `WriteAll`, `WriteFails`, `VisitError` | the last loop of `server_poll` and the handlers |
| `Polled`, `RunHeartbeat`, `RunLink`, `ScheduleEnd` | `server_start_dispatcher`, `server_schedule` |
| `CloseClient`, `ClientsClosed`, `KillTask`, `TasksKilled` | `server_shutdown` |

Abstractions. A read yields any sequence of messages, well formed or not; a
dispatch queues for any set of clients that `ichat_broadcast` and `ichat_unicast`
can select for some message, corrupt receivers included, as in the code. Message
sizes are left out, so the assertion on sizes in `add_message` is, too (`HopSizes`
has both): the results of `ServerLoop` are about messages strictly between the two
limits. Time
is what is left until a task is due, floored at 0: `server_add_task` never
compares two overdue tasks, because a new task lies in the future. The clock is
exact and does not run backwards; `TimerWidth` has one that wraps. Allocation does
not fail. There are no signal handlers, so that no call is interrupted.

### BufferQueue

Byte *n* of the stream is the *n*-th byte ever queued; a buffer is an interval of
these numbers. `AddMessage` begins an `add_message` and each `BufferQueueAppend`
queues one of its buffers; no write happens in between, for there is one thread.
`Write` is a call of `buffer_queue_write` in which `writev` takes any number of
bytes up to what the vector holds, followed by `advance_offset`; `WriteFails` is
one in which `writev` fails and `WriteNothing` one that gives up before.
`status` is `client->corrupt` with its reason. Buffers are not modified once they
are queued: no caller resizes a buffer it has passed to `buffer_queue_append`.

### ChatNet

`ChatNet` looks at a server from outside: what `ServerLoop` does to one packet is
one action here, and what `BufferQueue` delivers is a FIFO.

| Variable | Code |
|---|---|
| `link` | `impl->link_block` of the connecting end: each attempt is a connection of its own |
| `state` | an end of a connection: not made, in the backlog of the listener, in `clist`, corrupt or destroyed |
| `authenticated` | `impl->is_authenticated` |
| `queue` | of an end: what its peer has in `bo` and sockets and input buffer hold, in packets |
| `client` | a chat client's `struct client` and `impl->sig` |
| `inbox` | what a chat client has written and its server has not handled |
| `unsent` | messages the users have not written yet |
| `written`, `received`, `dispatched`, `astray` | histories, used by the properties only |

| Actions | Code |
|---|---|
| `StartLink` | `start_ichat_s2s_link`, with the LOGIN that `ichat_s2s_client_create_impl` queues; again once the client of the last attempt has failed |
| `Accept`, `Connect` | `ichat_s2s_server_read_op`, `ichat_server_read_op` |
| `ReadLogin`, `ReadForward`, `DropForward` | `ichat_s2s_client_process_message` |
| `Dispatch` | `ichat_dispatch`, `ichat_broadcast`, `ichat_unicast` and the `add_message` of each receiver |
| `ReadMessage`, `ReadMalformed` | `ichat_client_process_message` in the loop of `ichat_client_read_op` |
| `Break`, `BreakClient`, `RemoveClient` | a failed read, write or select marks a client corrupt; a later poll destroys it |
| `Submit` | a user's program writes a message |

Abstractions. A packet is handled in one action; after a malformed message the
rest of the read is handled packet by packet, too, so that other handlers may come
between, which the code does not do: more behaviours, not fewer. When an end fails,
any prefix of what it has sent may still arrive. A failed connect is a connection
whose connecting end fails before anything arrives. The crash and restart of a
server is the failure of all its connections. A message keeps its identity
from hop to hop: what FORWARD does to its size is in `HopSizes`. Servers
send each other well-formed packets. A client that is corrupt and still in `clist`
counts as a local receiver, as in the code.

`ChatRoom` has none of this: users write, and a message is delivered to any set of
clients it is for, to each of them once and after what its author wrote before.
`ServesRoom` says that every step of the network is a step of the room or changes nothing
there, so that a dispatch at one server must not undo what another has promised. A message
for one signature may get to nobody, but never to a client who has not used that signature,
and a malformed one to nobody at all. `InOrder` is what it means for two clients.

`AtMostOnce`, `InOrder` and `ServesRoom` speak of trees of links (`IsTree`) and make one
exception, for messages in `astray`: those under way from the connecting side of a
link when that side lost the connection. The exception is real. The other
side may read such a message after the new connection has logged in;
`ichat_broadcast` skips the old connection, for it is the originator, and sends the
message back over the new one. Without the exception TLC finds an author who
receives a message of his own twice.

### TimerWidth

`GetTimerMS` computes `tv_sec*1000 + tv_usec/1000` in a `long`. `now` is the time that
has really passed and `Clock(now)` what the server sees of it: the low bits, with the
sign extended into an `unsigned long long`. `queue` is `server->task_queue` with real
wake-up times (`server_add_task` compares them as the code does), `up` the links that
have a client, `pc` whether the thread is in `server_poll` or in `server_schedule`,
and `ran` a history of the last task run, with the time it was made.
Actions: `LoseLink` (a link's destructor queues its task), `Polled`, `RunTask` (one
round of `server_schedule`: a heartbeat makes the next one), `Scheduled`, and `Tick`,
which may come between any two of them. `ServedOnTime` says what `Scheduled` leaves behind:
`server_schedule` looks at the head only, and no task behind it may be due, but for those
made before the clock came back to 0, whose times are huge.

### Framing

Bytes are numbered in the order the peer sends them, and a frame is where it starts,
how long its number is, what `strtol` makes of the number, where the peer's next frame
starts and whether the body parses. `got` bytes were read from the socket; `start`
and `size` are the input buffer, whose first byte the handler takes for the start of a
frame; `cut` is what `process_message` was given. `Read`, `ReadEnds` and `ReadFails`
are what `buffer_read` returns; `Wait`, `BadNumber` and `Process` are the ways through
one round of the loop of `ichat_client_read_op` and `ichat_s2s_client_read_op`, which are
the same. `HandlesStream` maps `cut` to the messages `MessageStream` promises.
A peer that states a size sends that many bytes; one that does not is malformed, and
its connection is dropped.

### HopSizes

Servers in a row; a message is its size as `ichat_dispatch` gets it, the size it had
when it was written, and the number of servers it has passed. `queue` holds the packets
of each direction of a link, `up` the directions whose reader is there. `Write` is the
read handler of a chat client with `ichat_broadcast`; `Forward` and `BadPacket` are that
of a server; `Lose` and `Reconnect` are a link that fails and comes back. `PacketSize`
is what `ichat_s2s_client_add_message` frames, `Stripped` what is left of it when
`ichat_s2s_client_process_message` has taken the front off. A server whose assertion
fails is in `aborted`; a packet that makes its reader drop the link is in `dropped`.
Each server is taken to have another chat client that receives every broadcast, so
that the assertion of `ichat_client_add_message` is reached wherever it can be.

### BlockingWrites

`IC_nonblock_connect` and its like set `O_NONBLOCK` with `F_SETFD`, which has no such
flag: the sockets block. Messages are counted: `sock` in each socket, at most `Room`,
and `out` in each output queue. `Write` calls `writev` for what `Gathered` gives it, and
the server stands in that call (`writing`, `left`) until `Place` has found room for all
of it; only then does it read again. `Read` is a read handler with its broadcast.
The links are up and authenticated. `CirclesArePairs` is the safe half of `HangsOnlyInPairs`:
servers that all wait for each other have two among them that are stuck in each other. It
needs links without a loop (`NoLoop`): on a triangle, with six messages, TLC finds each of
three servers writing to the next.

### CtlConsole

The bytes of the lines a user types (`wire` and `bi`), the loop's count `s` of those
not accounted for, the answers queued and got, and the two flags `exit` and `stop` set.
`TakeLine` and `LinesDone` are the loop of `ctl_client_read_op`, with its pointer that never
advances; `IsKw` is the comparison over the length of the shorter string. `Patient`
says that a user types the next line only when he has the answer to the last.
`ServesLines` shows that such a user is served as `LineServer` says.

### ConfigFile

`line` is the one buffer of `parse_config`, a sequence of cells: a word, a gap, a NUL,
the end of a line, or what the stack held before. `ReadLine` is `fgets` and one round of the
loop, `AddServer` is `parse_s2s`, which writes NULs into the buffer, and `SetPort`,
`SetText`, `SetChoice`, `Unknown` and `Complain` the rest of `parse_option`. `Run` is what
`server_run` does with the result: port 0 is neither listened on nor connected to.
`Number` is what `strtol` returns for a word, and `ToInt` what an `int` keeps of that.

`ReadsAsWritten` compares each line with `ConfigLines`, which knows only words and lines and
follows `ichatd.conf`: `userport` is a name of `port`, an option like `serverloops` may be
given, and a word that is no number is a bad value. `MisreadLine` names the lines of which this is
not true, and what becomes of them:

* `NotKnown`: what `ichatd.conf` describes and the code does not know is complained about;
* `PortMisread`: a word that passes for a port (`PassesForPort`: no number at all is 0,
  what follows a number is not looked at, and a number beyond an `int` loses its high bits)
  sets the option to that port;
* `ServerMisread`: such a word, a second gap (`SecondGap`) or a missing password where the
  file ends without a line end (`PasswordBehindEnd`) adds a server all the same, with its host. A second gap in
  front of the port makes that 0. The password is an end of the line, and in the last case
  alone it may be anything.

No line touches an option or a server that is not its own, and apart from these every line,
whatever was in the buffer, means what it says. The defaults are those of the code; where they
differ from `ichatd.conf` section 5 says so.
Left out: a file that cannot be opened, lack of memory, `config_destroy`, numbers beyond a
`long`, and lines longer than the buffer (`LinesAssumption`: `ichatd.conf:4` allows 128 characters,
the buffer has 1024).

## 3. The runs

| Run | What it shows |
|---|---|
| `server_loop` | the safety of one process: no link is lost or doubled, tasks stay sorted with one heartbeat among them, no handler stands on a destroyed client, shutdown frees everything; and `ServerLoop` implements `LinkSupervisor` |
| `server_loop_live` | links are retried, corrupt clients destroyed, "stop" obeyed |
| `buffer_queue` | the queue delivers the stream, whatever the cuts, and all of it; it gives up early only over an empty buffer |
| `chat_net` | on a row of servers nothing is received twice or out of order, with links lost and made again: `ChatNet` implements `ChatRoom` |
| `chat_net_password` | a link with a wrong password passes no message in either direction |
| `chat_net_live` | broadcasts and messages for one client arrive two hops away while the links stay up |
| `framing` | proper, malformed, too short, too long and numberless frames in pieces of every size: messages are handled in order, each once, and none waits in the buffer |
| `hop_sizes` | messages at and around the limits: who aborts, how much a message grows, and which messages cost a link |
| `timer_width` | a clock that wraps: which tasks are early, which are left waiting, when the tasks keep the server from its clients, and that this ends |
| `blocking_writes` | a server hangs in `writev` only behind two that write to each other, each more than the socket takes; servers never wait for each other in a larger circle only |
| `ctl_console` | a user who waits for his answers gets the one to each line, whatever pieces the lines arrive in |
| `config_file` | each line of a file does what `ichatd.conf` says, whatever the lines before it left in the buffer, except three kinds of lines; and what these do instead |

All of them pass. What the code does wrong is stated by properties that say
exactly where it happens, and section 5 lists it.

Bounds, and why they are enough.

* `server_loop`: five cells, two links, a server-to-server and a control listener,
  one accepted connection (1 million states up to symmetry). Two links are the
  least with which links can be confused and with which the cleanup loop leaves a
  client behind; an accepted connection of either kind can fail, log in, stop the
  server and receive messages. A chat client differs from a server-to-server
  client in nothing these properties see, except that it needs no LOGIN; its
  handlers are covered by the proofs. `ReconnectDelta` is 1,
  `HeartbeatDelta` 2 and a pass takes 0 to 2: a task is early, just due, or late,
  and overtakes another or not. Cells and links are symmetric.
* `server_loop_live`: three cells, one link, a control listener; no symmetry. One
  link keeps the assertion of `poller.c:59` out of the way (a theorem, `NoAbort`).
* `buffer_queue`: messages of four buffers with empty data or an empty command,
  and console lines; 10 bytes and 8 buffers, that is two whole messages and more;
  a vector of three entries, shorter than one message.
* `chat_net`: servers *a*, *b*, *c*, where *a* and *c* connect to *b*: the least
  network in which a server passes on what is not its own. Two broadcasts of one
  author are the least that can be out of order; three connections let either link be
  made a second time (1.8 million states up to the symmetry of connections).
  `chat_net_password`: the same, with broadcasts from both ends and a malformed
  message; the password of *c* is wrong. `chat_net_live`: a message from *a* to the
  client at *c*, who registers by sending a broadcast; one connection per link, for
  the property ends when a link does; no symmetry.
* `framing`: three frames of eight kinds: two proper sizes with a number of two bytes and
  one with a number of three, a malformed body, a number below and one above the limits, no
  digit, and a number that does not end. A read takes up to six bytes, a frame has four to
  eight: a read ends within a number, within a body, at the end of a frame, and may hold
  one frame and the start of the next (327 thousand states).
* `hop_sizes`: the limits of the code, four servers with names of different
  length, two messages of twelve sizes: both limits and their neighbours, a size
  that gains a digit on its way, and sizes that the first, the second and no reader
  on the way drops. On a row of four a message is forwarded twice by servers that
  are not its author's.
* `timer_width`: a `long` of three bits, 13 ms: the clock changes to negative, back
  to 0 and to negative again; the heartbeat's delay is 3 and that of the two links 2, so
  that a task may be made and due on either side of each change.
* `blocking_writes`: three servers in a row and a chat client at each end. A
  socket takes one message, a vector has two entries, four messages are written: the
  least with which both ends of a link can have more queued than fits, and a third
  server stands behind them.
* `ctl_console`: four lines out of six: the four commands, a line that is shorter
  than a keyword and starts like one, and an empty one. Keywords have two letters, a
  read takes up to four bytes, a line has one to four.
* `config_file`: every file of one or two lines out of 27, and of three lines out of
  the longer ones, with the last line ended or not, in a buffer of ten cells, which takes the
  longest line. The lines have good, bad and absent values, comments, gaps in front and behind,
  numbers that are no ports, words that only start with a number, a number
  beyond an `int` (of 20 bits), unknown options, a second name, an option that
  only `ichatd.conf` knows, and server lines of two, three and four words with one gap and
  with two. The buffer holds NULs or garbage at first.

Fairness. `ServerLoop`: the thread does not stop between two statements
(`WF(Next)`); a read delivers finitely many messages (`WF(ParseEnd)`), for a read
is bounded by `MAX_READ_BLOCK`; passes over which time advances go on happening
(`SF` of `TimePasses`), which is the clock's doing. Nothing is
assumed of peers and sockets: `CorruptDestroyed` therefore makes an exception for
a server to which clients keep arriving without end, and without it TLC finds the
newest of them destroyed, one per poll, while an older corrupt one stays.
`BufferQueue`: `add_message` runs to its end, and the write handler is called
again as long as it has something to send, which `server_poll` does; that the
peer goes on reading is an assumption about the peer.
`ChatNet`: what has arrived is read (`WF` of `Read` for each end and of `ReadClient`
for each chat client), which is the polling of each server; nothing is assumed of
connections, users or reconnection.
`TimerWidth`: the clock goes on to the bound, and the thread goes on (`Polled`, and
`RunTask` or `Scheduled`). `BlockingWrites`: a server that can do something does
something, and chat clients go on reading; without that TLC finds the server hanging
behind one that does not, as it does in the code. `Framing` and `CtlConsole`: the loop of a handler
runs to its end, and a handler whose descriptor is ready is called, which `server_poll`
does. `ConfigFile`: the parser goes on.

Deadlock. In `ServerLoop` the process may stop, in `"stopped"` or `"aborted"`; there `Ended`
stutters, so that deadlock is checked elsewhere. `ChatNet` and `TimerWidth` are checked
for it. The other models come to an end of themselves: when all bytes, frames, messages or lines
their bounds allow are dealt with, when the connection they are about is gone, or when
two servers are stuck in each other, which is what `blocking_writes` is about.

## 4. The theorems

All are proved by TLAPS from the assumptions the modules state: positive
deltas, null values outside the sets they complete, messages that are sequences
of sizes, a vector of at least one entry, a peer that sends as many bytes as it states, and
what a theorem names itself: a finite number of servers, a user who waits.

`ServerLoop` (`ServerLoopProofs`): every safety property of the run
`server_loop`, `THEOREM Spec => []...` for any number of cells, links and ports,
the refinement `Spec => LinksSupervised`, and two that no run repeats: no read handler runs
for a corrupt connection (`ReadsLive`), and nothing is started after a stop (`StopIsFinal`).
They rest on the invariant `IInv`. The properties are not inductive by themselves. That no link
is lost needs to know which cells are live and that each is in the list once; that
no handler stands on a destroyed client needs what the descriptor sets contain at
each statement; that one link never aborts needs that a client without a
descriptor is corrupt, belongs to a link and is the head of the list whenever a
poll begins. `IInv` is the conjunction of such parts: the heap and the list, the
task queue, the links, the cursor and the sets, the phases of shutdown.
The first part of the module shows once what the sequence operators do to lists without
duplicates, and what `server_add_task` does to a sorted queue.

`BufferQueue` (`BufferQueueProofs`): `SizeIsUnsent`,
`DropsOnEmptyHead`, that the offset stays inside the head (`StaysInside`), that no
client is dropped without its socket failing as long
as no empty buffer is queued (`LosesNoClient`), and the refinement
`Spec => DeliversStream`. The invariant adds `SentInv`, that the queue begins
where the socket left off, and `Below`, that no buffer reaches beyond the last byte
queued. The lemma `Advanced` is the heart: popping buffers while they are sent
whole leaves the queue at the byte where the write ended.

`ChatNet` (`ChatNetProofs`), for any number of servers, links, connections, clients
and messages: `TypeOK`, `PasswordSeparates`, `AtMostOnce`, `InOrder`, and the refinement
`Spec => ServesRoom`. `PasswordSeparates` needs that
whatever a server has dispatched came from a server it is joined to (`Origins`): a
packet under way was dispatched by the sender, and it is read only by an
authenticated end. The invariant behind `AtMostOnce` (`TreeInv`) gives each message
a direction: `Way(m)` maps a server to its neighbour towards the author's server,
which exists because the links are a tree. A message under way always travels away from the
author's server, to a server that has not dispatched it (`OneWay`); at most one copy
is under way to each server (`OneCopy`); a server that has dispatched
it has it from a neighbour that has, too (`Behind`). `IsTree` enters through `LinkFacts` (two servers share
one link) and `WayFacts`; `OneOut` says that a link has one connecting end in
use, and `LeftBehind` that what an abandoned connection still holds is `astray`.
`InOrder` adds that of two messages of one author one is `Ahead` of the other: the
second gets to no server that the first is still under way to, follows it on the same
connection, is written after it and received after it. This survives a dispatch because the
second has not passed the server the first is dispatched at (`Behind`), and because both
leave a server over the one connection in use (`OneOut`). Which one is ahead is decided
when one is submitted, and `Untouched` says that nothing has happened to the other by then.
`First` ties this order to what the author has `written`, which `Recorded` keeps complete.
That is what the refinement needs: where a message is dispatched, no client of that server
has it (`Behind`), and what any of them has of its author is `First`. That a private message
is for those who get it follows from `Claimed`, that a client's signature is that of
something it wrote, and that no malformed message gets there from `WellFormed`. On networks
that are no trees `ServesRoom` promises nothing, and the theorem says nothing.

`Framing` (`FramingProofs`), for any frames and limits: `NothingStuck`, `InputBounded`,
that the buffer is in its place (`InPlace`), and the refinement
`Spec => HandlesStream`. The invariant says that the frames lie in a row without a gap,
that the buffer starts where the first frame does that is not dealt with, and that what was
handed on is the bodies of the frames before.

`HopSizes` (`HopSizesProofs`), for any limits, any number of servers and any names:
`AbortsAtLimits`, `GrowthBounded`, `SmallMessagesPass`, and that a message passes each
server at most once (`BoundedHops`). The invariant bounds the hops of a queued message by the
servers that lie behind its direction, which is why growth adds up to a bound at all, and
says that what is queued satisfies the assertion.

`TimerWidth` (`TimerWidthProofs`), for every width: `TypeOK`, `EarlyOnlyAcrossWrap`,
`StormOnlyBeforeZero`, `ServedOnTime`, and that no task is early if the clock does not reach
the end of its range (`NeverEarly`). The invariant says that each task's wake-up time is what
the clock gave when it was made, plus its delay, modulo the range, and that the queue
is sorted by these times (`SortedByTime`, which `server_add_task` keeps: `AddRight`). `ServedOnTime`
needs the order, for only the head is looked at, and `DueWithin`: a task whose delay
is over is due by the clock, too, if the clock did not come back to 0 in between.

`BlockingWrites` (`BlockingWritesProofs`), for any network: `TypeOK`, `EmbraceNeedsBacklog`, and that
what a `writev` has still to place is in the queue it was gathered from
(`WritesQueued`). For finitely many servers also `CirclesArePairs` (`CirclesPair`): in the
smallest set of servers that wait for each other, the one with a single link to the others
either hears from the one it writes to, and the two are stuck, or is left out of a smaller set.

`CtlConsole` (`CtlConsoleProofs`), for any lines, any keywords and any pieces, and for users
who wait (`Patient`; for others the property is false, see section 5): the refinement
`Spec => ServesLines`. The invariant has two cases. Either every line is answered, and what is left
in the buffer has no byte counted (`Answered`), or one line is owed: its bytes are all in
the buffer or on the wire, in order, and nothing else is (`Owed`, theorem `OneLineOwed`). It follows
that whenever the loop finds the end of a line, the buffer holds that line from its first byte, so
that the pointer that never advances points at the right place.

Only model-checked: the liveness properties (`LinkRetried`, `CorruptDestroyed`,
`StopCompletes`, `EverythingSent`, `Reaches`, `ScheduleEnds`, `EverythingHandled`,
`EveryLineAnswered`, `HangsOnlyInPairs`), which rest on fairness, and the refinement
`ReadsAsWritten`, which would need induction over the text of the file.

## 5. What the code does wrong

Each item but the last was found with TLC, by stating what a comment, an assertion or the documentation
says, and is now described by a property that holds.

| Where | What happens | Described by |
|---|---|---|
| `src/poller.c:44`, `:59` | `// no corrupted clients` is not so: the loop removes one client per pass. When two links cannot connect in the same pass, `assert (clnt->fd >= 0)` fails | `OneLinkNeverAborts`, `CorruptDestroyed` |
| `src/buffer_queue.c:247` | `//out of buffer` is reported for a queue that is not empty, if a write ends in front of an empty buffer: the client is dropped | `DropsOnEmptyHead`, `LosesNoClient` |
| `src/ichat/s2s_server/ichat_s2s_server_ops.c:49` | `serverloops ... default valie 0` (`ichatd.conf:77`): two servers that name each other hold two connections; there is no such option | `AtMostOnce` speaks of trees |
| `src/ichat/client/ichat_client_ops.c:217` | the assertion excludes both limits, the reader accepts them: a chat message of exactly 20 or 4192 bytes aborts the server | `AbortsAtLimits` |
| `src/ichat/s2s_client/ichat_s2s_client_ops.c:119` | `// stripping out message size`: the buffer keeps the size it had with it, so that the message is followed by zeroes, a few more at each server | `GrowthBounded` |
| `src/ichat/s2s_client/ichat_s2s_client_ops.c:200` | `the message will be dropped and connection will be closed` (`ichatd.conf:84`), that of its author; but the limit is applied to a packet with its front, and a message that the author's server accepts costs the link | `SmallMessagesPass` |
| `src/misc.c:105` | with a `long` of 32 bits, in the last 5 minutes before the clock becomes positive again, a heartbeat is due as soon as it is made: `sometimes server hangs writing HEARTBEAT messages to .log` (`KNOWN-BUGS:5`); tasks made before that are left waiting for a whole round of the clock | `EarlyOnlyAcrossWrap`, `StormOnlyBeforeZero`, `ServedOnTime`, `ScheduleEnds` |
| `src/misc.c:70` | `F_SETFD` instead of `F_SETFL`: in spite of the name `IC_nonblock_connect` the sockets block, and two servers with enough for each other wait for ever | `EmbraceNeedsBacklog`, `CirclesArePairs`, `HangsOnlyInPairs` |
| `src/ctl/client/ctl_client_ops.c:129` | of two lines that arrive in one read the first is looked at twice and the second not at all, or cut in the wrong place: a `stop` is lost | `ServesLines`, for `Patient` users |
| `src/config.c:133` | `while (*port == ' ' && *port == '\t')` skips nothing: with two gaps in front of a port the port is 0, the link is not started, and nobody is told | `ReadsAsWritten`, `SecondGap` |
| `src/config.c:145` | `// accept passwordless blocks` (`:139`): the password of such a line is read behind its end, where a longer line may have left something, if the line is the last and has no line end | `ReadsAsWritten`, `PasswordBehindEnd` |
| `src/config.c:193` | a port that is no number is 0, which closes it (`ichatd.conf:9`), and nobody is told; so are a number with something behind it and one beyond an `int` taken for ports | `ReadsAsWritten`, `PassesForPort` |
| `src/config.c:191`, `:307` | `port or userport` (`ichatd.conf:7`): `userport` is an unknown option, and so are `reuseaddress`, `logmessages`, `serverloops`, `maxmsgsize`, `minheaderlength` and `initialmsgbufsize` | `ReadsAsWritten`, `NotKnown` |
| `src/config.h:14`, `:18`, `:20`, `src/config.c:58` | other defaults than `ichatd.conf` states: `serverport` 6767 for 6667 (`:16`), the password (`:32`), `pidfile` (`:63`) and `nullclients` 1 for 0 (`:94`), which nothing reads | the constant `Default`; read in the source, by no run |

## 6. Plan

Done: `ServerLoop` with `LinkSupervisor`; `BufferQueue` with `ByteStream`; `ChatNet`
with `ChatRoom`; `Framing` with `MessageStream`; `HopSizes`; `TimerWidth`; `BlockingWrites`;
`CtlConsole` with `LineServer`; `ConfigFile` with `ConfigLines`; the proofs of section 4.

Left, in this order:

1. `SharedBuffers`: reference counts of buffers shared by several queues, against
   an abstract heap; no use after free, nothing left at the end.
2. `BlockingWrites` inside `ServerLoop`: time that passes in a `writev` or a `connect`.

## 7. Not modelled

* `log.c`, `debug.h`, `main.c`: output and start of the program; nothing reads their state.
* `rc4.c`: called by a test only.
* Payloads: names, timestamps, signatures and texts, beyond what decides who receives
  a message and how large it is.
* Reference counts of buffers (see the plan). A queued buffer is not modified: no caller
  resizes one it has passed to `buffer_queue_append`.
* Allocation failure, descriptors beyond `FD_SETSIZE`, `SIGPIPE`, ports that are in use
  (`bind` and `listen` are not checked), and in the configuration what is named under
  `ConfigFile`.
