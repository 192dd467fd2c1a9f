---------------------------- MODULE UsagePricing ----------------------------
(***************************************************************************)
(* The price of metered usage: what create_usage_plan and                  *)
(* update_usage_plan accept as a schedule of tiers, and what the two       *)
(* encrypted circuits charge for a number of units under an accepted one.  *)
(*                                                                         *)
(* A circuit works on hidden units, so it runs all five tiers whatever the *)
(* plan has and checks no sum: arithmetic wraps at U64Max.  What keeps it  *)
(* from wrapping is the envelope the program accepts schedules in, and the *)
(* clients' promise to report at most MaxUnits (constants.rs).             *)
(*                                                                         *)
(* Pure definitions; UsagePlan applies them to the plan a merchant stores. *)
(* Units above MaxUnits are outside the model.                             *)
(***************************************************************************)
EXTENDS Integers, Sequences, Totals

CONSTANTS
  MaxUnits,            \* MAX_SAFE_USAGE_UNITS
  U64Max               \* 2^64 - 1

ASSUME EnvelopeAssumption == MaxUnits \in Nat \ {0} /\ U64Max \in Nat

\* Rates are bounded so that five full tiers fit a u64.
MaxRate   == (U64Max \div MaxUnits) \div 5
MaxCharge == MaxUnits * MaxRate

TierSlots == 1 .. 5
Tier      == [upTo : Nat, rate : Nat]
NoTier    == [upTo |-> 0, rate |-> 0]

\* What a usage plan stores: five slots of which the first count are used.
Pricing == [tiers : [TierSlots -> Tier], count : Nat, cap : Nat, frequency : Nat]
------------------------------------------------------------------------------
(* What the program accepts. *)

\* validate_usage_tier_boundaries: rising upper bounds; zero, for no bound,
\* only in the last tier.
BoundariesRise(list) ==
  \A i \in 2 .. Len(list) : list[i].upTo # 0 => list[i].upTo > list[i - 1].upTo

UnboundedAnywhere(list) == TRUE
UnboundedLast(list) == \A i \in DOMAIN list : list[i].upTo = 0 => i = Len(list)

ValidBoundaries(list) ==
  /\ Len(list) \in TierSlots
  /\ UnboundedLast(list)
  /\ BoundariesRise(list)

\* validate_usage_pricing_bounds.
CapOnly(list, cap) == cap <= MaxCharge
WithinEnvelope(list, cap) ==
  /\ cap <= MaxCharge
  /\ \A i \in DOMAIN list : list[i].rate <= MaxRate /\ list[i].upTo <= MaxUnits

Padded(list) == [i \in TierSlots |-> IF i <= Len(list) THEN list[i] ELSE NoTier]
Active(p)    == SubSeq(p.tiers, 1, p.count)

Fresh(list, cap, frequency) ==
  [tiers |-> Padded(list), count |-> Len(list), cap |-> cap, frequency |-> frequency]

CanCreate(list, cap, frequency) ==
  /\ ValidBoundaries(list)
  /\ cap > 0 /\ frequency > 0
  /\ WithinEnvelope(list, cap)

(* An update names any of the three parts; None (an empty sequence, or -1)  *)
(* leaves a part as it is.  A new list is checked against the cap to be, and *)
(* a new cap against the list that stays.                                    *)
None      == -1
Keeps     == <<>>
Or(choice, current) == IF choice = None THEN current ELSE choice

\* Checks the caller's list only.
EnvelopeOfNewTiers(p, list, cap) ==
  list # Keeps => WithinEnvelope(list, Or(cap, p.cap))
EnvelopeAfter(p, list, cap) ==
  WithinEnvelope(IF list = Keeps THEN Active(p) ELSE list, Or(cap, p.cap))

CanUpdate(p, list, cap, frequency) ==
  /\ list # Keeps \/ cap # None \/ frequency # None
  /\ list # Keeps => ValidBoundaries(list)
  /\ EnvelopeAfter(p, list, cap)
  /\ cap # 0 /\ frequency # 0

\* A new list overwrites all five slots, the unused ones with zeroes.
NewTiers(p, list) == Padded(list)

Updated(p, list, cap, frequency) ==
  [tiers |-> IF list = Keeps THEN p.tiers ELSE NewTiers(p, list),
   count |-> IF list = Keeps THEN p.count ELSE Len(list),
   cap |-> Or(cap, p.cap), frequency |-> Or(frequency, p.frequency)]
------------------------------------------------------------------------------
(* The circuits. *)

Least(a, b) == IF a <= b THEN a ELSE b
Wrap(n)     == n % (U64Max + 1)

\* A tier ends at its bound; an active tier without one at the units.
UpperEnd(p, units, i) ==
  IF i <= p.count /\ p.tiers[i].upTo = 0 THEN units ELSE Least(units, p.tiers[i].upTo)
LowerEndFromZero(p, i) == 0
LowerEnd(p, i) == IF i = 1 THEN 0 ELSE p.tiers[i - 1].upTo

UnitsInTier(p, units, i) ==
  IF UpperEnd(p, units, i) > LowerEnd(p, i)
  THEN UpperEnd(p, units, i) - LowerEnd(p, i) ELSE 0

TierCharge(p, units, i) ==
  IF i <= p.count THEN UnitsInTier(p, units, i) * p.tiers[i].rate ELSE 0

TierTotal(p, units) ==
  TierCharge(p, units, 1) + TierCharge(p, units, 2) + TierCharge(p, units, 3)
    + TierCharge(p, units, 4) + TierCharge(p, units, 5)

TieredPricing(p, units) == Least(p.cap, Wrap(TierTotal(p, units)))
UsageCharge(p, units)   == Least(p.cap, Wrap(units * p.tiers[1].rate))

\* request_usage_computation picks the circuit by the number of tiers.
CircuitCharge(p, units) ==
  IF p.count = 1 THEN UsageCharge(p, units) ELSE TieredPricing(p, units)
------------------------------------------------------------------------------
(* What the charge should be. *)

\* tiered_pricing_plaintext_model, its saturating sums and its running bound.
Saturated(n) == Least(n, U64Max)

PlaintextTurn(p, units, before, i) ==
  LET tier == p.tiers[i]
      end  == IF tier.upTo = 0 THEN units ELSE Least(units, tier.upTo)
      in   == IF end > before.bound THEN end - before.bound ELSE 0
  IN IF i > p.count THEN before
     ELSE [total |-> Saturated(before.total + Saturated(in * tier.rate)),
           bound |-> IF tier.upTo # 0 THEN tier.upTo ELSE before.bound]

\* Its loop takes as many turns as there are tiers, and no more than five.
PlaintextModel(p, units) ==
  LET one   == PlaintextTurn(p, units, [total |-> 0, bound |-> 0], 1)
      two   == PlaintextTurn(p, units, one, 2)
      three == PlaintextTurn(p, units, two, 3)
      four  == PlaintextTurn(p, units, three, 4)
      five  == PlaintextTurn(p, units, four, 5)
  IN Least(p.cap, five.total)

\* The rate of one unit: that of the first tier that reaches it.
Reaching(p, unit) ==
  {i \in 1 .. p.count : p.tiers[i].upTo = 0 \/ unit <= p.tiers[i].upTo}
RateOf(p, unit) ==
  IF Reaching(p, unit) = {} THEN 0
  ELSE p.tiers[CHOOSE i \in Reaching(p, unit) : \A j \in Reaching(p, unit) : i <= j].rate

\* Each unit at its own rate, up to the cap.
Rates(p, units) == [unit \in 1 .. units |-> RateOf(p, unit)]
MarginalPrice(p, units) == Least(p.cap, Total(Rates(p, units), 1 .. units))

\* A schedule of one tier goes to a circuit that is not given its bound.
WithoutSoleBound(p) ==
  IF p.count = 1 THEN [p EXCEPT !.tiers[1].upTo = 0] ELSE p
==============================================================================
