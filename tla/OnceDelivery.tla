---------------------------- MODULE OnceDelivery ----------------------------
(***************************************************************************)
(* What the mailbox promises a sender about one message, whoever delivers  *)
(* it and whatever fails meanwhile: an accepted message is delivered at    *)
(* most once, a cancelled one never, a delivered one stays delivered, and  *)
(* every accepted message is in the end delivered or given up on.          *)
(***************************************************************************)
EXTENDS Naturals

CONSTANTS
  Commands,   \* messages to be delivered now
  Reminders   \* messages to be delivered later, unless cancelled

VARIABLES
  state,      \* of each message, as its sender may observe it
  deliveries  \* how often its effects took place

onceVars == <<state, deliveries>>

Messages == Commands \union Reminders

OnceInit ==
  /\ state = [m \in Messages |-> "unknown"]
  /\ deliveries = [m \in Messages |-> 0]

Move(m, from, to) ==
  /\ state[m] = from
  /\ state' = [state EXCEPT ![m] = to]

Accept(m) == m \in Commands /\ Move(m, "unknown", "due") /\ UNCHANGED deliveries
Plan(m) == m \in Reminders /\ Move(m, "unknown", "waiting") /\ UNCHANGED deliveries
FallDue(m) == Move(m, "waiting", "due") /\ UNCHANGED deliveries
CallOff(m) == Move(m, "waiting", "cancelled") /\ UNCHANGED deliveries
Happen(m) == /\ Move(m, "due", "delivered")
             /\ deliveries' = [deliveries EXCEPT ![m] = @ + 1]
GiveUp(m) == Move(m, "due", "abandoned") /\ UNCHANGED deliveries
Revive(m) == Move(m, "abandoned", "due") /\ UNCHANGED deliveries

OnceNext ==
  \E m \in Messages :
    \/ Accept(m) \/ Plan(m) \/ FallDue(m) \/ CallOff(m)
    \/ Happen(m) \/ GiveUp(m) \/ Revive(m)

OnceSpec == OnceInit /\ [][OnceNext]_onceVars

\* A message that is due gets settled, and one that waits does not wait for
\* ever.
OnceFairness ==
  \A m \in Messages :
    /\ WF_onceVars(Happen(m) \/ GiveUp(m))
    /\ WF_onceVars(FallDue(m) \/ CallOff(m))

LiveOnceSpec == OnceSpec /\ OnceFairness
=============================================================================
