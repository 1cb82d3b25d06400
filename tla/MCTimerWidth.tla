----------------------------- MODULE MCTimerWidth -----------------------------
(* Instances of TimerWidth for TLC. *)
EXTENDS TimerWidth

\* A heartbeat every 3 ms, a link that is lost is started 2 ms later.
Delays == [f \in Tasks |-> IF f = Heartbeat THEN 3 ELSE 2]
=============================================================================
