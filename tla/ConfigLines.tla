------------------------------ MODULE ConfigLines ------------------------------
(***************************************************************************)
(* What a line of the configuration file means (ichatd.conf, the only      *)
(* place where the options are described): words with gaps between them,   *)
(* the first of which names an option.  A line is read after the other,    *)
(* and each one sets its option, adds a server to connect to, or is        *)
(* complained about.                                                       *)
(***************************************************************************)
EXTENDS Integers, Sequences, SequencesExt

CONSTANTS
    Gap,         \* what separates words
    Comment,     \* a word that starts with #
    PortOptions, TextOptions,
    ChoiceOptions,  \* for each of the other options, the words it may be set to
    OtherNames,  \* for each second name of an option, the first one
    FreeOptions, \* options that take effect elsewhere
    Number,      \* the value of each word that is a number
    PortEnd,     \* one more than the largest port
    Default      \* the value of each option

VARIABLES
    lines,       \* the lines of the file
    read,        \* how many have been read
    option,      \* the options
    servers,     \* the servers to connect to
    complaints   \* what was complained about, with the line

vars == <<lines, read, option, servers, complaints>>

Init ==
    /\ read = 0
    /\ option = Default
    /\ servers = <<>>
    /\ complaints = <<>>

Words(line) == SelectSeq(line, LAMBDA c : c # Gap)

\* The line from its k-th word on.
From(line, k) ==
    LET starts == {i \in 1..Len(line) :
                      line[i] # Gap /\ Len(Words(SubSeq(line, 1, i))) = k}
    IN  IF starts = {} THEN <<>>
        ELSE SubSeq(line, CHOOSE i \in starts : TRUE, Len(line))

\* The port that the k-th word of the line is, if it is one.
PortAt(line, k) ==
    IF Len(Words(line)) < k \/ Words(line)[k] \notin DOMAIN Number THEN {}
    ELSE {Number[Words(line)[k]]} \cap 0..(PortEnd - 1)

Named(word) == IF word \in DOMAIN OtherNames THEN OtherNames[word] ELSE word

Set(o, value) ==
    /\ option' = [option EXCEPT ![o] = value]
    /\ UNCHANGED <<servers, complaints>>

Complain(kind) ==
    /\ complaints' = Append(complaints, [line |-> read + 1, kind |-> kind])
    /\ UNCHANGED <<option, servers>>

SetPort(line, o) ==
    /\ o \in PortOptions
    /\ \/ \E n \in PortAt(line, 2) : Set(o, n)
       \/ PortAt(line, 2) = {} /\ Complain("bad value")

SetText(line, o) == o \in TextOptions /\ Set(o, From(line, 2))

SetChoice(line, o) ==
    /\ o \in DOMAIN ChoiceOptions
    /\ IF \E w \in ChoiceOptions[o] : From(line, 2) = <<w>>
       THEN Set(o, From(line, 2)) ELSE Complain("bad value")

AddServer(line, o) ==
    /\ o = "server"
    /\ \/ \E n \in PortAt(line, 3) :
             /\ servers' = Append(servers, [host |-> <<Words(line)[2]>>,
                                            port |-> n,
                                            pass |-> From(line, 4)])
             /\ UNCHANGED <<option, complaints>>
       \/ PortAt(line, 3) = {} /\ Complain("bad value")

LeaveFree(o) == o \in FreeOptions /\ UNCHANGED <<option, servers, complaints>>

Unknown(o) ==
    /\ o \notin DOMAIN Default \cup FreeOptions \cup {"server"}
    /\ Complain("unknown option")

ReadLine ==
    /\ read < Len(lines)
    /\ LET line == lines[read + 1] IN
          IF Words(line) = <<>> \/ Head(Words(line)) = Comment
          THEN UNCHANGED <<option, servers, complaints>>
          ELSE LET o == Named(Head(Words(line))) IN
               \/ SetPort(line, o) \/ SetText(line, o) \/ SetChoice(line, o)
               \/ AddServer(line, o)
               \/ LeaveFree(o) \/ Unknown(o)
    /\ read' = read + 1
    /\ UNCHANGED lines

Spec == Init /\ [][ReadLine]_vars
=============================================================================
