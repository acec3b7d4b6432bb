----------------------------- MODULE MCMailbox -----------------------------
(* Model values for Mailbox. *)
EXTENDS Mailbox

CONSTANTS w1, w2, a, b, c

TwoWorkers == {w1, w2}
NoMessage == {}
OneCommand == {a}
TwoCommands == {a, b}
OneReminder == {c}
OnlyC == {c}

\* All messages in lane 0.
OneLane == [m \in Messages |-> 0]
\* The reminder in lane 1, the commands in lane 0.
TwoLanes == [m \in Messages |-> IF m = c THEN 1 ELSE 0]
=============================================================================
