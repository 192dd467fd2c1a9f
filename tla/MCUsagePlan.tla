----------------------------- MODULE MCUsagePlan -----------------------------
(* Every schedule of tiers over a few units. *)
EXTENDS UsagePlan, FiniteSets

T(upTo, rate) == [upTo |-> upTo, rate |-> rate]

\* Every valid list: rates up to MaxRate, bounds up to MaxUnits, the last one
\* perhaps missing.
Rising(b) == LET at[i \in 1 .. Cardinality(b)] ==
                   CHOOSE n \in b : Cardinality({m \in b : m <= n}) = i
             IN at
Lists(bounds) == {[i \in DOMAIN bounds |-> T(bounds[i], rates[i])] :
                    rates \in [DOMAIN bounds -> 0 .. MaxRate]}
ValidLists ==
  UNION {Lists(Rising(b)) \cup Lists(Append(Rising(b), 0)) : b \in SUBSET (1 .. MaxUnits)}

\* Lists to be refused: an unbounded tier in the middle, equal and falling
\* bounds, a rate and a bound outside the envelope, six tiers, none.
BadLists ==
  {<<T(1, 1), T(0, 1), T(2, 1)>>, <<T(0, U64Max)>>, <<T(2, 1), T(2, 2)>>, <<T(3, 1), T(1, 2)>>,
   <<T(1, MaxRate + 1)>>, <<T(MaxUnits + 1, 1)>>,
   <<T(1, 1), T(2, 1), T(3, 1), T(4, 1), T(5, 1), T(0, 1)>>, <<>>}
AllLists == ValidLists \cup BadLists

Rewrites == {<<T(1, 2), T(3, 1)>>, <<T(0, 1)>>, <<T(2, 2)>>, <<T(1, MaxRate + 1)>>,
             <<T(2, 1), T(1, 1)>>}

\* A cap, a rate and a bound that the envelope would refuse.
BeforeEnvelope ==
  {Fresh(<<T(1, 2), T(0, 1)>>, MaxCharge + 1, 1), Fresh(<<T(2, MaxRate + 1)>>, 3, 1),
   Fresh(<<T(1, 1), T(MaxUnits + 1, 2)>>, 3, 1)}
==============================================================================
