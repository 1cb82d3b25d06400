------------------------------- MODULE ChatRoom -------------------------------
(****************************************************************************)
(* What the servers together promise the people who chat, without servers,  *)
(* connections or queues: of the messages of one author, each reader gets   *)
(* any one at most once, and those he gets in the order they were written.  *)
(* A message for one signature is for those who have signed with it.        *)
(* A message may miss a reader.  A message that has gone astray is the      *)
(* exception: it may come late, and again.                                  *)
(****************************************************************************)
EXTENDS Naturals, Sequences

CONSTANTS
    Clients,
    Messages,
    Malformed, \* those that are no messages to anybody
    Author,    \* who writes a message
    From,      \* the signature he signs it with
    To,        \* the signature it is for
    Everyone   \* for a broadcast, this instead of a signature

VARIABLES
    written,   \* what each client has written, in order
    received,  \* what each client has got, in order
    astray     \* the messages that nothing is promised of but their author

vars == <<written, received, astray>>

Got(c, m) == \E i \in DOMAIN received[c] : received[c][i] = m

Written(m) == \E i \in DOMAIN written[Author[m]] : written[Author[m]][i] = m

\* m was written before n.
Sooner(m, n) ==
    \E i, j \in DOMAIN written[Author[m]] :
        i < j /\ written[Author[m]][i] = m /\ written[Author[m]][j] = n

Init ==
    /\ written = [c \in Clients |-> <<>>]
    /\ received = [c \in Clients |-> <<>>]
    /\ astray = {}

Write(m) ==
    /\ ~Written(m)
    /\ written' = [written EXCEPT ![Author[m]] = Append(@, m)]
    /\ UNCHANGED <<received, astray>>

\* c has not got m, nor anything that was written after it.
InTurn(c, m) ==
    /\ ~Got(c, m)
    /\ \A n \in Messages \ astray : Author[n] = Author[m] /\ Got(c, n) => Sooner(n, m)

\* m is for everyone, or c has signed with the signature it is for.
IsFor(c, m) ==
    To[m] = Everyone \/ \E i \in DOMAIN written[c] : From[written[c][i]] = To[m]

Deliver(R, m) ==
    /\ Written(m) /\ m \notin Malformed
    /\ \A c \in R : IsFor(c, m)
    /\ m \in astray \/ \A c \in R : InTurn(c, m)
    /\ received' = [c \in Clients |->
                       IF c \in R THEN Append(received[c], m) ELSE received[c]]
    /\ UNCHANGED <<written, astray>>

GoAstray(S) ==
    /\ \A m \in S : Written(m)
    /\ astray' = astray \cup S
    /\ UNCHANGED <<written, received>>

Next ==
    \/ \E m \in Messages : Write(m)
    \/ \E R \in SUBSET Clients, m \in Messages : Deliver(R, m)
    \/ \E S \in SUBSET Messages : GoAstray(S)

Spec == Init /\ [][Next]_vars
=============================================================================
