------------------------------- MODULE Totals -------------------------------
(***************************************************************************)
(* The sum of a function over a finite set, as a number of points: f[x]    *)
(* of them above each x.  Nothing here is recursive, so that TotalsProofs  *)
(* can prove of every finite set what a ledger needs of its sums.          *)
(***************************************************************************)
EXTENDS Integers, FiniteSets

Points(f, S) == UNION {{x} \X (1 .. f[x]) : x \in S}

Total(f, S) == Cardinality(Points(f, S))
==============================================================================
