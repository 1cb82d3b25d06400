---------------------------- MODULE LinkSupervisor ----------------------------
(***************************************************************************)
(* What the server promises about each of its outgoing links: once started *)
(* a link is attached to a client, or waits for its next connection        *)
(* attempt, until the server is told to stop; then no attempt is made.     *)
(* Promised by src/ichat/s2s_client (ichat_s2s_link.c and the destructor in *)
(* ichat_s2s_client_impl.c).                                               *)
(***************************************************************************)
CONSTANT Links

VARIABLES
    state,  \* per link: "off", "attached" or "waiting"
    up      \* the server has not been told to stop

vars == <<state, up>>

Init == state = [l \in Links |-> "off"] /\ up = TRUE

Move(l, from, to) ==
    /\ state[l] = from
    /\ state' = [state EXCEPT ![l] = to]
    /\ UNCHANGED up

Start(l) == up /\ Move(l, "off", "attached")
Lose(l)  == up /\ Move(l, "attached", "waiting")
Retry(l) == up /\ Move(l, "waiting", "attached")

\* The server goes down: the client or the task of a link is destroyed.
Drop(l) == ~up /\ (Move(l, "attached", "off") \/ Move(l, "waiting", "off"))

Stop == up /\ up' = FALSE /\ UNCHANGED state

Next ==
    \/ \E l \in Links : Start(l) \/ Lose(l) \/ Retry(l) \/ Drop(l)
    \/ Stop

Spec == Init /\ [][Next]_vars
=============================================================================
