-------------------------- MODULE SpendingAllowance --------------------------
(***************************************************************************)
(* What an owner who gives an agent a budget is promised, with nothing     *)
(* said of days, services or token programs: the agent spends from one pot *)
(* and never beyond a ceiling, the owner may take the pot back whenever it *)
(* likes, and after a revocation the agent spends nothing.                 *)
(***************************************************************************)
EXTENDS Integers

VARIABLES
  open,     \* may the agent spend?  "unopened", "open", "frozen" or "over"
  ceiling,  \* the most the agent may ever spend
  spent,    \* what it has spent
  pot       \* what is there to spend

vars == <<open, ceiling, spent, pot>>

Init == open = "unopened" /\ ceiling = 0 /\ spent = 0 /\ pot = 0

Grant ==
  /\ open = "unopened" /\ open' = "open"
  /\ ceiling' >= 0 /\ pot' >= pot
  /\ UNCHANGED spent

Spend ==
  /\ open = "open"
  /\ \E amount \in 0 .. pot :
       /\ spent' = spent + amount
       /\ pot' = pot - amount
  /\ spent' <= ceiling
  /\ UNCHANGED <<open, ceiling>>

Revise ==
  /\ open \in {"open", "frozen"}
  /\ ceiling' >= spent
  /\ UNCHANGED <<open, spent, pot>>

Freeze == open = "open" /\ open' = "frozen" /\ UNCHANGED <<ceiling, spent, pot>>
Thaw   == open = "frozen" /\ open' = "open" /\ UNCHANGED <<ceiling, spent, pot>>

TopUp   == pot' >= pot /\ UNCHANGED <<open, ceiling, spent>>
Reclaim == pot' = 0 /\ open # "unopened" /\ UNCHANGED <<open, ceiling, spent>>

Revoke ==
  /\ open \in {"open", "frozen"} /\ open' = "over"
  /\ pot' = 0
  /\ UNCHANGED <<ceiling, spent>>

Next == Grant \/ Spend \/ Revise \/ Freeze \/ Thaw \/ TopUp \/ Reclaim \/ Revoke

Spec == Init /\ [][Next]_vars
==============================================================================
