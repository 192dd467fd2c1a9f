--------------------------- MODULE RecurringPayment ---------------------------
(***************************************************************************)
(* What a subscription promises its two parties, with nothing said of      *)
(* approvals, requests, computations or plans: money moves only when a     *)
(* period falls due, once for each due date, after the previous payment is *)
(* on record, and never more than the subscriber agreed to.                *)
(***************************************************************************)
EXTENDS Integers

VARIABLES
  clock,      \* the time
  live,       \* may the subscription still be billed?
  due,        \* the next due date
  count,      \* payments so far
  recorded,   \* payments on record
  ceiling,    \* the most the subscriber agreed to pay for a period
  credit,     \* owed to the subscriber, used up before money moves
  collected   \* what the merchant got

vars == <<clock, live, due, count, recorded, ceiling, credit, collected>>

Least(a, b) == IF a <= b THEN a ELSE b

Init ==
  /\ live = FALSE
  /\ count = 0 /\ recorded = 0 /\ ceiling = 0 /\ credit = 0 /\ collected = 0

Open ==
  /\ ~live /\ count = 0 /\ live'
  /\ UNCHANGED <<clock, count, recorded, credit, collected>>

Bill ==
  /\ live
  /\ due <= clock
  /\ recorded = count
  /\ \E price \in 0 .. ceiling :
       /\ credit' = credit - Least(price, credit)
       /\ collected' = collected + price - Least(price, credit)
  /\ count' = count + 1
  /\ due' > due
  /\ recorded' \in {recorded, count + 1}
  /\ UNCHANGED <<clock, ceiling>>

Record ==
  /\ recorded' = count
  /\ UNCHANGED <<clock, live, due, count, ceiling, credit, collected>>

\* A new agreement: it never takes credit away, and moves no money.
Amend ==
  /\ live
  /\ ceiling' >= ceiling
  /\ credit' >= credit
  /\ UNCHANGED <<clock, live, due, count, recorded, collected>>

End ==
  /\ ~live'
  /\ UNCHANGED <<clock, due, count, recorded, ceiling, credit, collected>>

Pass ==
  /\ clock' > clock
  /\ UNCHANGED <<live, due, count, recorded, ceiling, credit, collected>>

Next == Open \/ Bill \/ Record \/ Amend \/ End \/ Pass

Spec == Init /\ [][Next]_vars
==============================================================================
