------------------------------- MODULE ConfigFile -------------------------------
(***************************************************************************)
(* Reading the configuration file (config.c), and what the server makes of *)
(* it when it starts.                                                      *)
(*                                                                         *)
(* parse_config reads each line into one buffer on its stack, and cuts it  *)
(* into strings by writing NULs into it; what a line does not overwrite is *)
(* left from the lines before.  A cell of the buffer holds a word, a gap,  *)
(* the end of a line, NUL, or what the stack held before.                  *)
(***************************************************************************)
EXTENDS Integers, Sequences, SequencesExt

CONSTANTS
    Gap, NewLine, Comment, Garbage,
    PortOptions, TextOptions, ChoiceOptions,
    OtherNames, FreeOptions,  \* what ichatd.conf describes and the code does not know
    Number,    \* strtol of each word that starts with a number
    Numerals,  \* the words that are numbers from end to end
    IntRange,  \* 2^32: how many values an int has
    PortEnd,   \* 65536
    Default,   \* the options config_alloc sets
    LineSize,  \* sizeof (line)
    Texts      \* the files: their lines, without the ends

NUL == "NUL"

ASSUME OptionsAssumption ==
    /\ DOMAIN Default = PortOptions \cup TextOptions \cup DOMAIN ChoiceOptions
    /\ "server" \notin DOMAIN Default
    /\ (DOMAIN OtherNames \cup FreeOptions) \cap (DOMAIN Default \cup {"server"}) = {}
    /\ \A w \in DOMAIN OtherNames : OtherNames[w] \in DOMAIN Default
    /\ Numerals \subseteq DOMAIN Number
    /\ PortEnd \in Nat \ {0}
    /\ IntRange \in Nat /\ IntRange > 2 * PortEnd

\* "max size for all strings if 128 characters": no line is longer than the buffer.
ASSUME LinesAssumption ==
    /\ LineSize \in Nat
    /\ \A t \in Texts : t # <<>> /\ \A i \in 1..Len(t) : Len(t[i]) + 2 <= LineSize

VARIABLES
    text,     \* the lines of the file
    file,     \* the file: cells that are not read yet
    line,     \* the buffer
    lineNo,   \* line_no
    option,   \* the fields of struct config
    servers,  \* config->s2s_queue, its head first
    stderr,   \* what is complained about
    pc,       \* "parse", "run" or "up"
    links,    \* the servers that are connected to, in order
    ports     \* the options whose ports are listened on

vars == <<text, file, line, lineNo, option, servers, stderr, pc, links, ports>>

\* The last line of a file may lack its end.
Files(t) ==
    LET cells == FlattenSeq([i \in 1..Len(t) |-> t[i] \o <<NewLine>>])
    IN  {cells, SubSeq(cells, 1, Len(cells) - 1)}

Init ==
    /\ text \in Texts
    /\ file \in Files(text)
    /\ line \in {[i \in 1..LineSize |-> c] : c \in {NUL, Garbage}}
    /\ lineNo = 0
    /\ option = Default
    /\ servers = <<>>
    /\ stderr = <<>>
    /\ pc = "parse"
    /\ links = <<>>
    /\ ports = {}

-----------------------------------------------------------------------------
(* Strings in the buffer *)

\* Where the first of the cells C is, from i on.
FirstAt(b, i, C) ==
    CHOOSE j \in i..LineSize : b[j] \in C /\ \A k \in i..(j - 1) : b[k] \notin C

WordEnds  == {NUL, Gap}
NoGaps(b) == Range(b) \ {Gap}

\* The string at i.  One that does not end in the buffer is garbage.
String(b, i) ==
    IF \E j \in i..LineSize : b[j] = NUL
    THEN SubSeq(b, i, FirstAt(b, i, {NUL}) - 1)
    ELSE <<Garbage>>

\* A long that is stored in an int.
ToInt(n) == ((n + IntRange \div 2) % IntRange) - IntRange \div 2

\* strtol skips gaps, and takes what does not start with a number for 0.
Strtol(string) ==
    LET words == SelectSeq(string, LAMBDA c : c # Gap)
    IN  IF words = <<>> \/ Head(words) \notin DOMAIN Number THEN 0
        ELSE ToInt(Number[Head(words)])

\* fgets has read n cells: a line, or as much of it as the buffer takes.
LineLen(n) ==
    /\ n \in 1..(LineSize - 1) /\ n <= Len(file)
    /\ \A i \in 1..(n - 1) : file[i] # NewLine
    /\ file[n] = NewLine \/ n = Len(file) \/ n = LineSize - 1

\* Mutant: the end of the line is moved, not overwritten.
Fetched_moved(n) ==
    LET kept == IF file[n] = NewLine THEN n - 1 ELSE n
    IN  SubSeq(file, 1, kept) \o <<NUL>> \o SubSeq(line, kept + 2, LineSize)

\* The buffer with the n cells, their end cut off.
Fetched(n) ==
    LET kept == IF file[n] = NewLine THEN n - 1 ELSE n
    IN  SubSeq(file, 1, kept) \o [i \in 1..(n + 1 - kept) |-> NUL] \o SubSeq(line, n + 2, LineSize)

-----------------------------------------------------------------------------
(* parse_option *)

IsPort(n) == n >= 0 /\ n < PortEnd

Parsed(o, value) ==
    /\ option' = [option EXCEPT ![o] = value]
    /\ UNCHANGED <<servers, stderr>>

Complain(kind) ==
    /\ stderr' = Append(stderr, [line |-> lineNo + 1, kind |-> kind])
    /\ UNCHANGED <<option, servers>>

SetPort(o, value) ==
    /\ o \in PortOptions
    /\ IF IsPort(Strtol(value)) THEN Parsed(o, Strtol(value)) ELSE Complain("bad value")

SetText(o, value) == o \in TextOptions /\ Parsed(o, value)

SetChoice(o, value) ==
    /\ o \in DOMAIN ChoiceOptions
    /\ IF \E w \in ChoiceOptions[o] : value = <<w>>
       THEN Parsed(o, value) ELSE Complain("bad value")

Unknown(o) ==
    /\ o \notin DOMAIN Default \cup {"server"}
    /\ Complain("unknown option")

\* b->next = config->s2s_queue.
Enqueue(s) == <<s>> \o servers

\* parse_s2s of the string at v.  The gaps that are skipped in front of the port
\* and the password are those that are a space and a tab at once: none.
AddServer(o, b, v) ==
    LET ipEnd   == FirstAt(b, v, WordEnds)
        port    == ipEnd + 1
        portEnd == FirstAt(b, port, WordEnds)
        ip      == [b EXCEPT ![ipEnd] = NUL]
        cut     == [ip EXCEPT ![portEnd] = NUL]
        number  == Strtol(String(cut, port))
        block   == [host |-> String(cut, v), port |-> number, pass |-> String(cut, portEnd + 1)]
    IN  /\ o = "server"
        /\ \/ b[ipEnd] = NUL /\ line' = b /\ Complain("bad value")
           \/ /\ b[ipEnd] # NUL
              /\ \/ b[port] = NUL /\ line' = ip /\ Complain("bad value")
                 \/ /\ b[port] # NUL
                    /\ line' = cut
                    /\ IF IsPort(number)
                       THEN servers' = Enqueue(block) /\ UNCHANGED <<option, stderr>>
                       ELSE Complain("bad value")

-----------------------------------------------------------------------------
(* parse_config *)

\* One round of its loop, with the buffer b.
ParseLine(b) ==
    LET start   == FirstAt(b, 1, NoGaps(b))
        nameEnd == FirstAt(b, start, WordEnds)
        name    == SubSeq(b, start, nameEnd - 1)
        cut     == [b EXCEPT ![nameEnd] = NUL]
        value   == IF b[nameEnd] = NUL THEN nameEnd
                   ELSE FirstAt(cut, nameEnd + 1, NoGaps(cut))
    IN  \/ /\ b[start] \in {NUL, Comment}
           /\ line' = b
           /\ UNCHANGED <<option, servers, stderr>>
        \/ /\ b[start] \notin {NUL, Comment}
           /\ \/ AddServer(name[1], cut, value)
              \/ /\ line' = cut
                 /\ \/ SetPort(name[1], String(cut, value))
                    \/ SetText(name[1], String(cut, value))
                    \/ SetChoice(name[1], String(cut, value))
                    \/ Unknown(name[1])

ReadLine ==
    /\ pc = "parse"
    /\ \E n \in 1..Len(file) :
          /\ LineLen(n)
          /\ ParseLine(Fetched(n))
          /\ file' = SubSeq(file, n + 1, Len(file))
    /\ lineNo' = lineNo + 1
    /\ UNCHANGED <<text, pc, links, ports>>

\* fgets finds the end of the file.
EndOfFile ==
    /\ pc = "parse"
    /\ file = <<>>
    /\ pc' = "run"
    /\ UNCHANGED <<text, file, line, lineNo, option, servers, stderr, links, ports>>

\* server_run: port 0 is not listened on nor connected to.
Run ==
    /\ pc = "run"
    /\ ports' = {o \in PortOptions : option[o] # 0}
    /\ links' = SelectSeq(servers, LAMBDA s : s.port # 0)
    /\ pc' = "up"
    /\ UNCHANGED <<text, file, line, lineNo, option, servers, stderr>>

Next == ReadLine \/ EndOfFile \/ Run

Spec == Init /\ [][Next]_vars /\ WF_vars(Next)

-----------------------------------------------------------------------------
(* Properties *)

\* The lines and what ichatd.conf says of them.
Lines == INSTANCE ConfigLines WITH
             lines      <- text,
             read       <- lineNo,
             servers    <- Reverse(servers),
             complaints <- stderr,
             Number     <- [w \in Numerals |-> Number[w]]

\* Words that ichatd.conf describes are unknown to parse_option (:301).
NotKnown(words) ==
    /\ Head(words) \in DOMAIN OtherNames \cup FreeOptions
    /\ Complain("unknown option")

\* The k-th word is no port, and passes for one (:193).
PassesForPort(l, k) ==
    LET word == IF Len(Lines!Words(l)) < k THEN <<>> ELSE <<Lines!Words(l)[k]>>
    IN  Lines!PortAt(l, k) = {} /\ IsPort(Strtol(word))

PortMisread(l, words) ==
    /\ Head(words) \in PortOptions
    /\ PassesForPort(l, 2)
    /\ Parsed(Head(words), Strtol(Tail(words)))

\* Where in the line a second gap follows the k-th word, which parse_s2s does not skip.
SecondGap(l, k) ==
    {i \in 2..Len(l) : /\ l[i - 1] = Gap /\ l[i] = Gap
                       /\ Len(Lines!Words(SubSeq(l, 1, i))) = k}

\* A server without a password, and no line end behind it (:145).
PasswordBehindEnd(l, words) ==
    /\ Len(words) = 3 /\ Last(l) # Gap
    /\ lineNo + 1 = Len(text) /\ Last(file) # NewLine

\* A server is added with its host, and with port 0 if there is a second gap in
\* front of the port.  The password is an end of the line, where that was read.
ServerMisread(l, words) ==
    /\ Head(words) = "server" /\ Len(words) > 1
    /\ \/ Len(words) > 2 /\ PassesForPort(l, 3)
       \/ PasswordBehindEnd(l, words)
       \/ SecondGap(l, 2) # {} \/ SecondGap(l, 3) # {}
    /\ servers' # <<>> /\ Tail(servers') = servers
    /\ LET new == Head(servers')
       IN  /\ new.host = <<words[2]>>
           /\ new.port = IF SecondGap(l, 2) # {} THEN 0 ELSE Strtol(<<words[3]>>)
           /\ PasswordBehindEnd(l, words) \/ IsSuffix(new.pass, l)
    /\ UNCHANGED <<option, stderr>>

\* The lines that are taken for something else, and for what.
MisreadLine ==
    /\ lineNo < Len(text)
    /\ LET l == text[lineNo + 1]
           words == Lines!Words(l)
       IN  /\ words # <<>>
           /\ NotKnown(words) \/ PortMisread(l, words) \/ ServerMisread(l, words)
    /\ lineNo' = lineNo + 1
    /\ UNCHANGED text

\* Whatever the lines before it have left in the buffer, each line of the file
\* does what ichatd.conf says, or is refused with its number, except those of
\* MisreadLine; and these do what is said there and touch nothing else.
ReadsAsWritten == Lines!Init /\ [][Lines!ReadLine \/ MisreadLine]_(Lines!vars)
=============================================================================
