----------------------------- MODULE StreamLedger -----------------------------
(***************************************************************************)
(* What a payment stream promises, without clocks, rates, intervals or     *)
(* token accounts.  A meter runs while the stream is "running" and stands  *)
(* still otherwise.  A settlement always clears the whole debt at once:    *)
(* every unit on the meter is either paid to the merchant or written off,  *)
(* never both, and nothing moves while the stream is halted.  A closed     *)
(* stream is frozen for ever.                                              *)
(***************************************************************************)
EXTENDS Integers

VARIABLES phase,    \* "unopened", "running", "halted" or "closed"
          meter,    \* everything the stream ever accrued
          paid,     \* what the merchant received
          forgiven  \* what was accrued and will never be paid

vars == <<phase, meter, paid, forgiven>>

Init == phase = "unopened" /\ meter = 0 /\ paid = 0 /\ forgiven = 0

Debt == meter - paid - forgiven

Open == /\ phase = "unopened"
        /\ phase' = "running"
        /\ UNCHANGED <<meter, paid, forgiven>>

\* The clock moves.  A clock that steps back takes accrual back with it.
Run == /\ phase = "running"
       /\ meter' \in Int
       /\ UNCHANGED <<phase, paid, forgiven>>

\* The debt is cleared: part of it paid, the rest written off.
Settle == /\ phase = "running"
          /\ phase' \in {"running", "halted", "closed"}
          /\ paid' >= paid
          /\ forgiven' >= forgiven
          /\ Debt' = 0
          /\ UNCHANGED meter

Continue == /\ phase = "halted"
            /\ phase' = "running"
            /\ UNCHANGED <<meter, paid, forgiven>>

Close == /\ phase = "halted"
         /\ phase' = "closed"
         /\ UNCHANGED <<meter, paid, forgiven>>

Next == Open \/ Run \/ Settle \/ Continue \/ Close

Spec == Init /\ [][Next]_vars
=============================================================================
