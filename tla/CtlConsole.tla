------------------------------- MODULE CtlConsole -------------------------------
(***************************************************************************)
(* The control console of the server (ctl_client_ops.c): the input of one  *)
(* telnet connection, the loop that cuts it into lines, the commands and   *)
(* their answers.                                                          *)
(*                                                                         *)
(* The loop looks for the end of a line from the start of the buffer each  *)
(* time: its pointer never advances, only the count of the bytes that are  *)
(* left goes down.  A user who waits for the answer before he types the    *)
(* next line does not notice.                                              *)
(***************************************************************************)
EXTENDS Integers, Sequences, SequencesExt

CONSTANTS
    Bytes, NewLine,
    Echo, Help, Exit, Stop,  \* the keywords, as sequences of bytes
    Banner, HelpText, UnknownText,  \* the fixed texts
    Lines,      \* the lines a user types, each with its end
    Patient,    \* the user waits for each answer
    ReadBlock,  \* MAX_READ_BLOCK
    MaxLines    \* bound: how many lines are typed

Keywords == {Echo, Help, Exit, Stop}

ASSUME LinesAssumption ==
    /\ NewLine \in Bytes
    /\ Lines \subseteq Seq(Bytes)
    /\ \A line \in Lines :
          /\ line # <<>>
          /\ \A i \in 1..Len(line) : line[i] = NewLine <=> i = Len(line)

ASSUME KeywordsAssumption ==
    /\ Keywords \subseteq Seq(Bytes \ {NewLine})
    /\ \A k, l \in Keywords : IsPrefix(k, l) => k = l
    /\ {Banner, HelpText, UnknownText} \subseteq Seq(Bytes) \ {<<>>}

ASSUME BoundsAssumption ==
    /\ Patient \in BOOLEAN
    /\ ReadBlock \in Nat \ {0}
    /\ MaxLines \in Nat

VARIABLES
    typed,     \* the lines the user has typed
    wire,      \* the bytes that are sent and not read
    bi,        \* the bytes of impl->bi
    s,         \* how many of them the loop has not accounted for
    bo,        \* impl->bo, the banner and the answers that are queued
    got,       \* those the user has got
    pc,        \* "poll", or "lines" in the loop of the read handler
    corrupt,   \* client->corrupt
    shutdown   \* server->shutdown

vars == <<typed, wire, bi, s, bo, got, pc, corrupt, shutdown>>

Init ==
    /\ typed = <<>>
    /\ wire = <<>>
    /\ bi = <<>>
    /\ s = 0
    /\ bo = <<Banner>>
    /\ got = <<>>
    /\ pc = "poll"
    /\ corrupt = FALSE
    /\ shutdown = FALSE

\* The user types a line.
Type(line) ==
    /\ Len(typed) < MaxLines
    /\ Patient => Len(got) = Len(typed) + 1
    /\ typed' = Append(typed, line)
    /\ wire' = wire \o line
    /\ UNCHANGED <<bi, s, bo, got, pc, corrupt, shutdown>>

Polling == pc = "poll" /\ ~corrupt /\ ~shutdown

\* buffer_read gets some of the bytes that are there.
Read ==
    /\ Polling
    /\ \E n \in 1..ReadBlock :
          /\ n <= Len(wire)
          /\ bi' = bi \o SubSeq(wire, 1, n)
          /\ s' = Len(bi) + n
          /\ wire' = SubSeq(wire, n + 1, Len(wire))
    /\ pc' = "lines"
    /\ UNCHANGED <<typed, bo, got, corrupt, shutdown>>

\* buffer_read finds the end of the connection or fails, the write fails, or
\* select reports an exception.
Fail ==
    /\ Polling
    /\ corrupt' = TRUE
    /\ UNCHANGED <<typed, wire, bi, s, bo, got, pc, shutdown>>

-----------------------------------------------------------------------------
(* Commands *)

\* Mutant: one letter is enough.
IsKw_short(keyword, line) == line[1] = keyword[1]

\* IS_KW: strncmp over the length of the shorter one.
IsKw(keyword, line) == IsPrefix(keyword, line) \/ IsPrefix(line, keyword)

Unknown(line) == \A keyword \in Keywords : ~IsKw(keyword, line)

\* What ctl_client_process_message answers.
Response(line) ==
    CASE IsKw(Echo, line) -> line
      [] IsKw(Help, line) -> HelpText
      [] IsKw(Exit, line) \/ IsKw(Stop, line) -> <<>>
      [] Unknown(line) -> UnknownText

ProcessMessage(line) ==
    /\ bo' = Append(bo, Response(line))
    /\ corrupt' = (corrupt \/ IsKw(Exit, line))
    /\ shutdown' = (shutdown \/ IsKw(Stop, line))

-----------------------------------------------------------------------------
(* The loop *)

\* Mutant: the last byte is not looked at.
Ends_strict(n) == {i \in 1..(n - 1) : bi[i] = NewLine}

\* The ends of lines among the first n bytes of the buffer.
Ends(n) == {i \in 1..n : bi[i] = NewLine}

\* memchr (p, '\n', s): the first one.
IsFirstEnd(e) == e \in Ends(s) /\ \A i \in Ends(s) : e <= i

\* s -= end - p.
Rest(e) == s - e

\* A line is found, at the start of the buffer.
TakeLine ==
    /\ pc = "lines"
    /\ \E e \in Ends(s) :
          /\ IsFirstEnd(e)
          /\ ProcessMessage(SubSeq(bi, 1, e))
          /\ s' = Rest(e)
    /\ UNCHANGED <<typed, wire, bi, got, pc>>

\* There is no line left: s bytes stay in the buffer, from its start.
LinesDone ==
    /\ pc = "lines"
    /\ Ends(s) = {}
    /\ bi' = SubSeq(bi, 1, s)
    /\ s' = 0
    /\ pc' = "poll"
    /\ UNCHANGED <<typed, wire, bo, got, corrupt, shutdown>>

-----------------------------------------------------------------------------
(* Answers *)

\* ctl_client_can_write_op: buffer_queue_size is not 0.
Writable == \E i \in 1..Len(bo) : bo[i] # <<>>

\* The user gets some of the answers.  The pass that sees "stop" goes on to the
\* write handler.
Write ==
    /\ pc = "poll" /\ ~corrupt
    /\ Writable
    /\ \E n \in 1..Len(bo) :
          /\ got' = got \o SubSeq(bo, 1, n)
          /\ bo' = SubSeq(bo, n + 1, Len(bo))
    /\ UNCHANGED <<typed, wire, bi, s, pc, corrupt, shutdown>>

Next ==
    \/ \E line \in Lines : Type(line)
    \/ Read \/ Fail
    \/ TakeLine \/ LinesDone
    \/ Write

Spec == Init /\ [][Next]_vars

\* The loop runs to its end, and what can be read or written is, in some pass.
FairSpec ==
    Spec /\ WF_vars(TakeLine \/ LinesDone) /\ WF_vars(Read) /\ WF_vars(Write)

-----------------------------------------------------------------------------
(* Properties *)

\* What the help text says a line is answered by.
Says(keyword, line) == IsPrefix(keyword, line)

HelpReply(line) ==
    CASE Says(Echo, line) -> line
      [] Says(Help, line) -> HelpText
      [] Says(Exit, line) \/ Says(Stop, line) -> <<>>
      [] OTHER -> UnknownText

Server == INSTANCE LineServer WITH
              Reply   <- [line \in Lines |-> HelpReply(line)],
              Exits   <- {line \in Lines : Says(Exit, line)},
              Stops   <- {line \in Lines : Says(Stop, line)},
              lines   <- typed,
              answers <- Tail(got \o bo),
              closed  <- corrupt,
              stopped <- shutdown

\* A user who waits for his answers gets the one to each line, in order.
ServesLines == Server!Spec

\* His n-th line is answered, unless one has closed the connection or stopped
\* the server.
EveryLineAnswered ==
    \A n \in 1..MaxLines :
        Len(typed) >= n ~> Len(got) > n \/ corrupt \/ shutdown

=============================================================================
