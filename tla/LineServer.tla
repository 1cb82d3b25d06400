------------------------------- MODULE LineServer -------------------------------
(***************************************************************************)
(* What the control console promises its user (the help text of            *)
(* ctl_client_process_message): the lines are answered in order, each once *)
(* and by what its own command says, until one of them closes the          *)
(* connection or stops the server.                                         *)
(***************************************************************************)
EXTENDS Naturals, Sequences, SequencesExt

CONSTANTS
    Reply,  \* the answer to each line
    Exits,  \* the lines that close the connection
    Stops   \* the lines that stop the server

VARIABLES
    lines,    \* the lines the user has typed
    answers,  \* the answers made
    closed,   \* the connection is going down
    stopped   \* the server is going down

vars == <<lines, answers, closed, stopped>>

Init == lines = <<>> /\ answers = <<>> /\ closed = FALSE /\ stopped = FALSE

Type ==
    /\ Len(lines') > Len(lines) /\ IsPrefix(lines, lines')
    /\ UNCHANGED <<answers, closed, stopped>>

Answer ==
    /\ ~closed /\ ~stopped
    /\ Len(answers) < Len(lines)
    /\ LET line == lines[Len(answers) + 1] IN
          /\ answers' = Append(answers, Reply[line])
          /\ closed' = (line \in Exits)
          /\ stopped' = (line \in Stops)
    /\ UNCHANGED lines

Fail == closed' = TRUE /\ UNCHANGED <<lines, answers, stopped>>

Next == Type \/ Answer \/ Fail

Spec == Init /\ [][Next]_vars
=============================================================================
