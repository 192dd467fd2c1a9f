--------------------------- MODULE UsagePlanProofs ---------------------------
(***************************************************************************)
(* Proofs about UsagePlan, for every envelope, every list of tiers and     *)
(* every plan of an older release: types, that a plan's tiers stay a       *)
(* schedule, that no sum of the circuits leaves u64, and that they charge  *)
(* what the plaintext model does and each unit once, at its own rate.      *)
(***************************************************************************)
EXTENDS UsagePlan, SequenceTheorems, TotalsProofs

\* A list of tiers, and what a slot holds of it.
LEMMA TierFacts ==
  /\ NoTier \in Tier
  /\ \A t \in Tier : t.upTo \in Nat /\ t.rate \in Nat
  BY DEF NoTier, Tier

\* The five slots are a sequence.
LEMMA SlotsAreSequence ==
  ASSUME NEW p \in Pricing
  PROVE  /\ p.tiers \in Seq(Tier) /\ Len(p.tiers) = 5
         /\ \A i \in TierSlots : p.tiers[i] \in Tier
         /\ p.count \in Nat /\ p.cap \in Nat /\ p.frequency \in Nat
<1>1. p.tiers \in [1 .. 5 -> Tier]
  BY DEF Pricing, TierSlots
<1>2. p.tiers \in Seq(Tier)
  <2>1. 5 \in Nat
    OBVIOUS
  <2> QED BY <1>1, <2>1, SeqDef, Zenon
<1>5. Len(p.tiers) = 5
  BY <1>1, <1>2, LenProperties
<1>3. \A i \in TierSlots : p.tiers[i] \in Tier
  BY <1>1 DEF TierSlots
<1>4. p.count \in Nat /\ p.cap \in Nat /\ p.frequency \in Nat
  BY DEF Pricing
<1> QED BY <1>2, <1>3, <1>4, <1>5

\* The tiers in use are the first count slots.
LEMMA ActiveTiers ==
  ASSUME NEW p \in Pricing, p.count \in TierSlots
  PROVE  /\ Active(p) \in Seq(Tier) /\ Len(Active(p)) = p.count
         /\ \A i \in 1 .. p.count : Active(p)[i] = p.tiers[i]
<1> DEFINE n == p.count
           s == p.tiers
<1>1. n \in 1 .. 5 /\ \A i \in 1 .. 5 : s[i] \in Tier
  BY SlotsAreSequence DEF TierSlots
<1> HIDE DEF n, s
<1>2. /\ SubSeq(s, 1, n) \in Seq(Tier)
      /\ Len(SubSeq(s, 1, n)) = n
      /\ \A i \in 1 .. n : SubSeq(s, 1, n)[i] = s[i]
  <2>1. \A i \in 1 .. n : s[i] \in Tier
    BY <1>1
  <2>2. n \in Int /\ 1 \in Int /\ 1 <= n
    BY <1>1
  <2>3. /\ SubSeq(s, 1, n) \in Seq(Tier)
        /\ Len(SubSeq(s, 1, n)) = IF 1 <= n THEN n - 1 + 1 ELSE 0
        /\ \A i \in 1 .. n - 1 + 1 : SubSeq(s, 1, n)[i] = s[1 + i - 1]
    BY <2>1, <2>2, SubSeqProperties
  <2> QED BY <2>2, <2>3
<1> QED BY <1>2 DEF n, s, Active

\* A list that fits the slots fills them and leaves the others empty.
LEMMA PaddedTiers ==
  ASSUME NEW l \in Seq(Tier), Len(l) \in TierSlots, NEW cap \in Nat, NEW frequency \in Nat,
         NEW p, p = [tiers |-> Padded(l), count |-> Len(l), cap |-> cap,
                     frequency |-> frequency]
  PROVE  /\ p \in Pricing
         /\ Active(p) = l
         /\ ValidBoundaries(l) => WellTiered(p)
<1>1. Padded(l) \in [TierSlots -> Tier]
  BY TierFacts DEF Padded, TierSlots
<1>2. p \in Pricing
  BY <1>1 DEF Pricing, TierSlots
<1>3. Active(p) \in Seq(Tier) /\ Len(Active(p)) = Len(l)
      /\ \A i \in 1 .. Len(l) : Active(p)[i] = p.tiers[i]
  BY <1>2, ActiveTiers
<1>4. \A i \in 1 .. Len(l) : p.tiers[i] = l[i]
  <2> TAKE i \in 1 .. Len(l)
  <2>1. i \in TierSlots /\ i <= Len(l)
    BY DEF TierSlots
  <2> QED BY <2>1 DEF Padded
<1>5. Active(p) = l
  BY <1>3, <1>4, SeqEqual
<1>6. ValidBoundaries(l) => WellTiered(p)
  <2>1. \A i \in TierSlots : i > Len(l) => p.tiers[i] = NoTier
    BY DEF Padded, TierSlots
  <2> QED BY <1>5, <2>1 DEF WellTiered
<1> QED BY <1>2, <1>5, <1>6
------------------------------------------------------------------------------
(* Plans. *)

\* What holds of the account in every state.
PlanInv == TypeOK /\ SchedulesStaySound

\* create_usage_plan checks the whole list.
LEMMA CreateStep ==
  ASSUME PlanInv, NEW l \in TierLists, NEW cap \in Caps, NEW frequency \in Frequencies,
         Create(l, cap, frequency)
  PROVE  PlanInv'
<1>1. /\ l \in Seq(Tier) /\ cap \in Nat /\ frequency \in Nat
      /\ ValidBoundaries(l) /\ Len(l) \in TierSlots /\ WithinEnvelope(l, cap)
  BY ListsAssumption DEF Create, CanCreate, ValidBoundaries
<1>2. layout' = "V2" /\ inherited' = FALSE
      /\ pricing' = [tiers |-> Padded(l), count |-> Len(l), cap |-> cap,
                     frequency |-> frequency]
  BY DEF Create, Fresh
<1>3. pricing' \in Pricing /\ Active(pricing') = l /\ WellTiered(pricing')
  BY <1>1, <1>2, PaddedTiers
<1>4. pricing'.cap = cap
  BY <1>2
<1>5. (Active(pricing))' = Active(pricing') /\ (WellTiered(pricing))' = WellTiered(pricing')
  BY DEF Active, WellTiered
<1> QED
  BY <1>1, <1>2, <1>3, <1>4, <1>5 DEF PlanInv, TypeOK, SchedulesStaySound, Chargeable

\* update_usage_plan checks the new parts against the ones that stay.
LEMMA UpdateStep ==
  ASSUME PlanInv, NEW l \in RevisedLists \cup {Keeps}, NEW cap \in Caps \cup {None},
         NEW frequency \in Frequencies \cup {None}, Update(l, cap, frequency)
  PROVE  PlanInv'
<1>1. /\ layout # "Absent" /\ pricing \in Pricing /\ WellTiered(pricing)
      /\ pricing.count \in TierSlots
  BY DEF PlanInv, TypeOK, SchedulesStaySound, Update, WellTiered
<1> DEFINE newCap == Or(cap, pricing.cap)
           newFrequency == Or(frequency, pricing.frequency)
<1>2. newCap \in Nat /\ newFrequency \in Nat
  BY <1>1, SlotsAreSequence, ListsAssumption DEF Or
<1>3. /\ layout' = "V2" /\ inherited' = FALSE
      /\ pricing' = [tiers |-> IF l = Keeps THEN pricing.tiers ELSE Padded(l),
                     count |-> IF l = Keeps THEN pricing.count ELSE Len(l),
                     cap |-> newCap, frequency |-> newFrequency]
      /\ l # Keeps => ValidBoundaries(l)
      /\ WithinEnvelope(IF l = Keeps THEN Active(pricing) ELSE l, newCap)
  BY DEF Update, Updated, NewTiers, CanUpdate, EnvelopeAfter
<1>4. (Active(pricing))' = Active(pricing') /\ (WellTiered(pricing))' = WellTiered(pricing')
  BY DEF Active, WellTiered
<1> HIDE DEF newCap, newFrequency
<1>5. CASE l = Keeps
  <2>1. pricing' = [tiers |-> pricing.tiers, count |-> pricing.count, cap |-> newCap,
                    frequency |-> newFrequency]
    BY <1>3, <1>5
  <2>2. pricing' \in Pricing /\ pricing'.cap = newCap
    BY <1>1, <1>2, <2>1 DEF Pricing
  <2>3. Active(pricing') = Active(pricing)
    BY <2>1 DEF Active
  <2>4. WellTiered(pricing')
    BY <1>1, <2>1, <2>3 DEF WellTiered
  <2> QED BY <1>3, <1>4, <1>5, <2>2, <2>3, <2>4 DEF PlanInv, TypeOK, SchedulesStaySound,
                                                Chargeable
<1>6. CASE l # Keeps
  <2>1. l \in Seq(Tier) /\ Len(l) \in TierSlots /\ ValidBoundaries(l)
        /\ WithinEnvelope(l, newCap)
    BY <1>3, <1>6, ListsAssumption DEF ValidBoundaries
  <2>2. pricing' = [tiers |-> Padded(l), count |-> Len(l), cap |-> newCap,
                    frequency |-> newFrequency]
    BY <1>3, <1>6
  <2>3. pricing' \in Pricing /\ Active(pricing') = l /\ WellTiered(pricing')
    BY <1>2, <2>1, <2>2, PaddedTiers
  <2>4. pricing'.cap = newCap
    BY <2>2
  <2> QED BY <1>3, <1>4, <2>1, <2>3, <2>4 DEF PlanInv, TypeOK, SchedulesStaySound,
                                             Chargeable
<1> QED BY <1>5, <1>6

\* Every state of every usage plan satisfies the invariant.
THEOREM PlansHold == Spec => []PlanInv
<1>1. Init => PlanInv
  <2>1. NoPricing \in Pricing
    BY TierFacts DEF NoPricing, Pricing
  <2>2. CASE layout = "Absent" /\ pricing = NoPricing /\ inherited = FALSE
    BY <2>1, <2>2 DEF PlanInv, TypeOK, SchedulesStaySound
  <2>3. CASE layout = "V1" /\ pricing \in OldPricings /\ inherited = TRUE
    BY <2>3, OldPricingsAssumption DEF PlanInv, TypeOK, SchedulesStaySound
  <2> QED BY <2>2, <2>3 DEF Init
<1>2. PlanInv /\ [Next]_vars => PlanInv'
  <2> SUFFICES ASSUME PlanInv, [Next]_vars PROVE PlanInv'
    OBVIOUS
  <2>1. CASE UNCHANGED vars \/ Migrate
    <3>1. /\ layout' \in {layout, "V2"} /\ (layout = "Absent" => layout' = "Absent")
          /\ pricing' = pricing /\ inherited' = inherited
      BY <2>1 DEF vars, Migrate
    <3> QED BY <3>1 DEF PlanInv, TypeOK, SchedulesStaySound, Chargeable, WellTiered,
                        WithinEnvelope, Active
  <2> QED BY <2>1, CreateStep, UpdateStep DEF Next
<1> QED BY <1>1, <1>2, PTL DEF Spec

\* Types, for every list the two instructions are called with.
THEOREM PlanTypes == Spec => []TypeOK
  BY PlansHold, PTL DEF PlanInv

\* Whatever parts are updated in whatever order, the tiers are a schedule and
\* the prices are in the envelope, unless they come from an older release.
THEOREM SchedulesSound == Spec => []SchedulesStaySound
  BY PlansHold, PTL DEF PlanInv
------------------------------------------------------------------------------
(* The circuits' sums. *)

\* Products of natural numbers grow with their factors.
LEMMA ProductGrows ==
  ASSUME NEW a \in Nat, NEW b \in Nat, NEW c \in Nat, NEW d \in Nat, a <= c, b <= d
  PROVE  a * b <= c * d /\ a * b \in Nat
<1>1. a * b <= c * b
  BY SMT
<1>2. c * b <= c * d
  BY SMT
<1>3. a * b \in Nat /\ c * b \in Nat /\ c * d \in Nat
  BY SMT
<1> QED BY <1>1, <1>2, <1>3

\* Five full tiers at the highest rate fit a u64.
LEMMA EnvelopeFits ==
  /\ MaxRate \in Nat /\ MaxCharge \in Nat
  /\ 5 * MaxCharge <= U64Max
<1> DEFINE q == U64Max \div MaxUnits
<1>1. MaxUnits \in Nat \ {0} /\ U64Max \in Nat
  BY EnvelopeAssumption
<1>2. q \in Nat /\ MaxUnits * q <= U64Max
  BY <1>1
<1>3. q \div 5 \in Nat /\ 5 * (q \div 5) <= q
  BY <1>2
<1>4. MaxUnits * (5 * (q \div 5)) <= MaxUnits * q
  <2>1. 5 * (q \div 5) \in Nat
    BY <1>3
  <2> HIDE DEF q
  <2> QED BY <1>1, <1>2, <1>3, <2>1, ProductGrows
<1>5. MaxUnits * (5 * (q \div 5)) = 5 * (MaxUnits * (q \div 5))
  BY <1>1, <1>3
<1>6. MaxRate = q \div 5 /\ MaxCharge = MaxUnits * (q \div 5)
  BY DEF MaxRate, MaxCharge
<1>7. MaxUnits * (q \div 5) \in Nat
  BY <1>1, <1>3
<1> HIDE DEF q
<1> QED BY <1>1, <1>2, <1>3, <1>4, <1>5, <1>6, <1>7

\* In the envelope no tier charges more than a full one.
LEMMA TierFits ==
  ASSUME NEW p \in Pricing, p.count \in TierSlots, WithinEnvelope(Active(p), p.cap),
         NEW units \in 0 .. MaxUnits, NEW i \in TierSlots
  PROVE  TierCharge(p, units, i) \in Nat /\ TierCharge(p, units, i) <= MaxCharge
<1>1. /\ MaxUnits \in Nat /\ units \in Nat /\ units <= MaxUnits
      /\ MaxRate \in Nat /\ MaxCharge \in Nat /\ i \in Nat
      /\ p.count \in Nat
  BY EnvelopeAssumption, EnvelopeFits, SlotsAreSequence DEF TierSlots
<1>2. \A j \in TierSlots : p.tiers[j].upTo \in Nat /\ p.tiers[j].rate \in Nat
  BY SlotsAreSequence, TierFacts
<1>3. UpperEnd(p, units, i) \in Nat /\ UpperEnd(p, units, i) <= units
  BY <1>1, <1>2 DEF UpperEnd, Least
<1>4. LowerEnd(p, i) \in Nat
  BY <1>1, <1>2 DEF LowerEnd, TierSlots
<1>5. UnitsInTier(p, units, i) \in Nat /\ UnitsInTier(p, units, i) <= MaxUnits
  BY <1>1, <1>3, <1>4 DEF UnitsInTier
<1>6. CASE i <= p.count
  <2>1. i \in DOMAIN Active(p) /\ Active(p)[i] = p.tiers[i]
    BY <1>1, <1>6, ActiveTiers DEF TierSlots
  <2>2. p.tiers[i].rate <= MaxRate /\ p.tiers[i].rate \in Nat
    BY <1>2, <2>1 DEF WithinEnvelope
  <2>3. TierCharge(p, units, i) = UnitsInTier(p, units, i) * p.tiers[i].rate
    BY <1>6 DEF TierCharge
  <2> QED BY <1>1, <1>5, <2>2, <2>3, ProductGrows DEF MaxCharge
<1>7. CASE ~ i <= p.count
  BY <1>1, <1>7 DEF TierCharge
<1> QED BY <1>6, <1>7

\* No product and no sum of a circuit leaves u64 while the prices are in the
\* envelope and the units are no more than the clients may report.
THEOREM SumsFit == Spec => []NothingWraps
<1>1. PlanInv => NothingWraps
  <2> SUFFICES ASSUME PlanInv, Chargeable, NEW units \in 0 .. MaxUnits
               PROVE  /\ TierTotal(pricing, units) <= U64Max
                      /\ units * pricing.tiers[1].rate <= U64Max
    BY DEF NothingWraps
  <2>1. /\ pricing \in Pricing /\ pricing.count \in TierSlots
        /\ WithinEnvelope(Active(pricing), pricing.cap)
    BY DEF PlanInv, TypeOK, SchedulesStaySound, Chargeable, WellTiered
  <2>2. \A i \in TierSlots : TierCharge(pricing, units, i) \in Nat
                             /\ TierCharge(pricing, units, i) <= MaxCharge
    BY <2>1, TierFits
  <2>3. 1 \in TierSlots /\ 2 \in TierSlots /\ 3 \in TierSlots /\ 4 \in TierSlots
        /\ 5 \in TierSlots
    BY DEF TierSlots
  <2>4. TierTotal(pricing, units) <= 5 * MaxCharge
    BY <2>2, <2>3, EnvelopeFits DEF TierTotal
  <2>5. TierTotal(pricing, units) \in Nat
    BY <2>2, <2>3 DEF TierTotal
  <2>6. units * pricing.tiers[1].rate <= MaxCharge
        /\ units * pricing.tiers[1].rate \in Nat
    <3>1. 1 \in DOMAIN Active(pricing) /\ Active(pricing)[1] = pricing.tiers[1]
      BY <2>1, ActiveTiers DEF TierSlots
    <3>2. pricing.tiers[1].rate \in Nat /\ pricing.tiers[1].rate <= MaxRate
      BY <2>1, <2>3, <3>1, SlotsAreSequence, TierFacts DEF WithinEnvelope
    <3>3. units \in Nat /\ units <= MaxUnits /\ MaxUnits \in Nat
      BY EnvelopeAssumption
    <3> QED BY <3>2, <3>3, EnvelopeFits, ProductGrows DEF MaxCharge
  <2> QED BY <2>4, <2>5, <2>6, EnvelopeFits, EnvelopeAssumption
<1> QED BY <1>1, PlansHold, PTL
------------------------------------------------------------------------------
(* What the circuits charge.  The tiers of a schedule cut the units into    *)
(* consecutive bands: the band of a tier starts above the bound of the one  *)
(* before and ends at its own, and past the last bound there is no rate.    *)

\* Accepted prices of a well-formed schedule.
Accepted(p) == p \in Pricing /\ WellTiered(p) /\ WithinEnvelope(Active(p), p.cap)

\* Of two tiers in use the first has a bound, below that of the second if it
\* has one, at or below the end of the tier before the second in any case.
LEMMA TiersRise ==
  ASSUME NEW p \in Pricing, WellTiered(p)
  PROVE  /\ p.count \in 1 .. 5
         /\ \A i \in 1 .. 5 : p.tiers[i].upTo \in Nat /\ p.tiers[i].rate \in Nat
         /\ \A i, j \in 1 .. p.count :
              i < j => /\ p.tiers[i].upTo # 0
                       /\ p.tiers[j].upTo # 0 => p.tiers[i].upTo < p.tiers[j].upTo
                       /\ p.tiers[i].upTo <= LowerEnd(p, j)
<1> DEFINE n == p.count
           up(i) == p.tiers[i].upTo
<1>1. n \in 1 .. 5 /\ \A i \in 1 .. 5 : up(i) \in Nat /\ p.tiers[i].rate \in Nat
  BY SlotsAreSequence, TierFacts DEF WellTiered, TierSlots
<1>2. /\ Len(Active(p)) = n /\ \A i \in 1 .. n : Active(p)[i] = p.tiers[i]
      /\ DOMAIN Active(p) = 1 .. n
  <2>1. Active(p) \in Seq(Tier) /\ Len(Active(p)) = n
        /\ \A i \in 1 .. n : Active(p)[i] = p.tiers[i]
    BY ActiveTiers DEF WellTiered
  <2>2. \A s \in Seq(Tier) : DOMAIN s = 1 .. Len(s)
    OBVIOUS
  <2> HIDE DEF n
  <2> QED BY <2>1, <2>2
<1>3. \A i \in 1 .. n : up(i) = 0 => i = n
  BY <1>2 DEF WellTiered, ValidBoundaries, UnboundedLast
<1>4. \A i \in 2 .. n : up(i) # 0 => up(i) > up(i - 1)
  <2> TAKE i \in 2 .. n
  <2>1. i \in 1 .. n /\ i - 1 \in 1 .. n
    BY <1>1
  <2>2. Active(p)[i].upTo # 0 => Active(p)[i].upTo > Active(p)[i - 1].upTo
    BY <1>2 DEF WellTiered, ValidBoundaries, BoundariesRise
  <2> QED BY <1>2, <2>1, <2>2
<1> HIDE DEF up
<1>5. \A i \in 1 .. 5 : i < n => up(i) # 0
  BY <1>1, <1>3
<1>6. /\ 2 < n => up(1) < up(2)
      /\ 3 < n => up(2) < up(3)
      /\ 4 < n => up(3) < up(4)
  BY <1>1, <1>4, <1>5
<1>7. \A i, j \in 1 .. 5 : i <= j /\ j < n => up(i) <= up(j)
  BY <1>1, <1>6
<1>8. ASSUME NEW i \in 1 .. n, NEW j \in 1 .. n, i < j
      PROVE  /\ up(i) # 0
             /\ up(j) # 0 => up(i) < up(j)
             /\ up(i) <= LowerEnd(p, j)
  <2>1. i \in 1 .. 5 /\ j - 1 \in 1 .. 5 /\ i <= j - 1 /\ j - 1 < n /\ j \in 2 .. n
    BY <1>1, <1>8
  <2>2. up(i) <= up(j - 1)
    BY <1>7, <2>1
  <2>3. up(j) # 0 => up(j - 1) < up(j)
    BY <1>4, <2>1
  <2>4. LowerEnd(p, j) = up(j - 1)
    BY <2>1 DEF LowerEnd, up
  <2>5. up(i) \in Nat /\ up(j - 1) \in Nat /\ (j \in 1 .. 5)
    BY <1>1, <2>1
  <2>6. up(j) \in Nat
    BY <1>1, <2>5
  <2>7. i < n
    BY <1>1, <2>1, <1>8
  <2>8. up(i) # 0
    BY <1>5, <2>1, <2>7
  <2>9. up(j) # 0 => up(i) < up(j)
    BY <2>2, <2>3, <2>5, <2>6
  <2>10. up(i) <= LowerEnd(p, j)
    BY <2>2, <2>4
  <2> QED BY <2>8, <2>9, <2>10
<1> QED BY <1>1, <1>8 DEF up

\* No sum of accepted prices wraps: what the circuits are given they charge.
LEMMA NoWrap ==
  ASSUME NEW p, Accepted(p), NEW units \in 0 .. MaxUnits
  PROVE  /\ \A i \in 1 .. 5 : TierCharge(p, units, i) \in Nat
         /\ TierTotal(p, units) \in Nat /\ TierTotal(p, units) <= U64Max
         /\ TieredPricing(p, units) = Least(p.cap, TierTotal(p, units))
         /\ UsageCharge(p, units) = Least(p.cap, units * p.tiers[1].rate)
<1>1. p \in Pricing /\ p.count \in TierSlots /\ WithinEnvelope(Active(p), p.cap)
  BY DEF Accepted, WellTiered
<1>2. \A i \in 1 .. 5 : TierCharge(p, units, i) \in Nat /\ TierCharge(p, units, i) <= MaxCharge
  BY <1>1, TierFits DEF TierSlots
<1>3. TierTotal(p, units) \in Nat /\ TierTotal(p, units) <= 5 * MaxCharge
  BY <1>2, EnvelopeFits DEF TierTotal
<1>4. units * p.tiers[1].rate <= MaxCharge /\ units * p.tiers[1].rate \in Nat
  <2>1. 1 \in DOMAIN Active(p) /\ Active(p)[1] = p.tiers[1] /\ 1 \in TierSlots
    BY <1>1, ActiveTiers DEF TierSlots
  <2>2. p.tiers[1].rate \in Nat /\ p.tiers[1].rate <= MaxRate
    BY <1>1, <2>1, SlotsAreSequence, TierFacts DEF WithinEnvelope
  <2>3. units \in Nat /\ units <= MaxUnits /\ MaxUnits \in Nat
    BY EnvelopeAssumption
  <2> QED BY <2>2, <2>3, EnvelopeFits, ProductGrows DEF MaxCharge
<1>5. \A n \in Nat : n <= U64Max => Wrap(n) = n
  BY EnvelopeAssumption DEF Wrap
<1>6. TierTotal(p, units) <= U64Max /\ units * p.tiers[1].rate <= U64Max
  BY <1>3, <1>4, EnvelopeFits, EnvelopeAssumption
<1> QED BY <1>2, <1>3, <1>4, <1>5, <1>6 DEF TieredPricing, UsageCharge

\* One turn of the plaintext model adds what the circuit charges for that tier,
\* when the running bound is the bound of the slot before.
LEMMA TurnAddsTheTier ==
  ASSUME NEW p, Accepted(p), NEW units \in 0 .. MaxUnits, NEW i \in 1 .. 5,
         NEW before, before.total \in Nat,
         i <= p.count => before.bound = LowerEnd(p, i),
         before.total + TierCharge(p, units, i) <= U64Max,
         NEW after, after = PlaintextTurn(p, units, before, i)
  PROVE  /\ after.total = before.total + TierCharge(p, units, i)
         /\ i + 1 <= p.count => after.bound = LowerEnd(p, i + 1)
<1>1. p \in Pricing /\ WellTiered(p) /\ p.count \in 1 .. 5
      /\ \A j \in 1 .. 5 : p.tiers[j].upTo \in Nat /\ p.tiers[j].rate \in Nat
  BY TiersRise DEF Accepted
<1>2. units \in Nat /\ U64Max \in Nat
  BY EnvelopeAssumption
<1>3. CASE i > p.count
  <2>1. after = before
    BY <1>3 DEF PlaintextTurn
  <2>2. TierCharge(p, units, i) = 0 /\ ~ i + 1 <= p.count
    BY <1>1, <1>3 DEF TierCharge
  <2> QED BY <2>1, <2>2
<1>4. CASE i <= p.count
  <2> DEFINE low  == LowerEnd(p, i)
             up   == p.tiers[i].upTo
             rate == p.tiers[i].rate
             in   == UnitsInTier(p, units, i)
  <2>1. UpperEnd(p, units, i) = IF up = 0 THEN units ELSE Least(units, up)
    BY <1>4 DEF UpperEnd
  <2>2. TierCharge(p, units, i) = in * rate /\ in * rate \in Nat
    BY <1>4, NoWrap DEF TierCharge
  <2>3. before.bound = low
    BY <1>4
  <2>4. /\ after.total = Saturated(before.total + Saturated(in * rate))
        /\ after.bound = IF up # 0 THEN up ELSE before.bound
    <3>1. ~ i > p.count
      BY <1>1, <1>4
    <3> QED BY <2>1, <2>3, <3>1 DEF PlaintextTurn, UnitsInTier
  <2>5. \A n \in Nat : n <= U64Max => Saturated(n) = n
    BY <1>2 DEF Saturated, Least
  <2>6. after.total = before.total + in * rate
    <3> HIDE DEF in, rate
    <3>1. in * rate <= U64Max /\ before.total + in * rate <= U64Max
          /\ before.total + in * rate \in Nat
      BY <1>2, <2>2
    <3> QED BY <2>2, <2>4, <2>5, <3>1
  <2>7. ASSUME i + 1 <= p.count PROVE after.bound = LowerEnd(p, i + 1)
    <3>1. i \in 1 .. p.count /\ i + 1 \in 1 .. p.count /\ i < i + 1
      BY <1>1, <2>7
    <3>2. up # 0
      BY <1>1, <3>1, TiersRise
    <3>3. LowerEnd(p, i + 1) = up
      BY <3>1 DEF LowerEnd
    <3> QED BY <2>4, <3>2, <3>3
  <2> QED BY <2>2, <2>6, <2>7
<1> QED BY <1>1, <1>3, <1>4

\* Five turns charge what the five tiers do.
LEMMA ModelTotals ==
  ASSUME NEW p, Accepted(p), NEW units \in 0 .. MaxUnits
  PROVE  PlaintextModel(p, units) = Least(p.cap, TierTotal(p, units))
<1> DEFINE start == [total |-> 0, bound |-> 0]
           one   == PlaintextTurn(p, units, start, 1)
           two   == PlaintextTurn(p, units, one, 2)
           three == PlaintextTurn(p, units, two, 3)
           four  == PlaintextTurn(p, units, three, 4)
           five  == PlaintextTurn(p, units, four, 5)
           Charge(i) == TierCharge(p, units, i)
<1>1. /\ \A i \in 1 .. 5 : Charge(i) \in Nat
      /\ Charge(1) + Charge(2) + Charge(3) + Charge(4) + Charge(5) <= U64Max
      /\ U64Max \in Nat
  BY NoWrap, EnvelopeAssumption DEF TierTotal
<1>2. ASSUME NEW i \in 1 .. 5, NEW before, before.total \in Nat,
             i <= p.count => before.bound = LowerEnd(p, i),
             before.total + Charge(i) <= U64Max,
             NEW after, after = PlaintextTurn(p, units, before, i)
      PROVE  /\ after.total = before.total + Charge(i)
             /\ i + 1 <= p.count => after.bound = LowerEnd(p, i + 1)
  BY <1>2, TurnAddsTheTier
<1>3. start.total = 0 /\ start.bound = LowerEnd(p, 1)
  BY DEF LowerEnd
<1>9. PlaintextModel(p, units) = Least(p.cap, five.total)
  BY DEF PlaintextModel
<1>10. TierTotal(p, units) = Charge(1) + Charge(2) + Charge(3) + Charge(4) + Charge(5)
  BY DEF TierTotal
<1> HIDE DEF Charge
<1>4. one.total = Charge(1) /\ (2 <= p.count => one.bound = LowerEnd(p, 2))
  <2> HIDE DEF start
  <2>1. 1 \in 1 .. 5 /\ start.total + Charge(1) <= U64Max /\ start.total \in Nat
    BY <1>1, <1>3
  <2> QED BY <1>1, <1>2, <1>3, <2>1
<1> HIDE DEF one
<1>5. two.total = Charge(1) + Charge(2) /\ (3 <= p.count => two.bound = LowerEnd(p, 3))
  <2>1. 2 \in 1 .. 5 /\ one.total + Charge(2) <= U64Max /\ one.total \in Nat
    BY <1>1, <1>4
  <2> QED BY <1>1, <1>2, <1>4, <2>1
<1> HIDE DEF two
<1>6. three.total = Charge(1) + Charge(2) + Charge(3)
      /\ (4 <= p.count => three.bound = LowerEnd(p, 4))
  <2>1. 3 \in 1 .. 5 /\ two.total + Charge(3) <= U64Max /\ two.total \in Nat
    BY <1>1, <1>5
  <2> QED BY <1>1, <1>2, <1>5, <2>1
<1> HIDE DEF three
<1>7. four.total = Charge(1) + Charge(2) + Charge(3) + Charge(4)
      /\ (5 <= p.count => four.bound = LowerEnd(p, 5))
  <2>1. 4 \in 1 .. 5 /\ three.total + Charge(4) <= U64Max /\ three.total \in Nat
    BY <1>1, <1>6
  <2> QED BY <1>1, <1>2, <1>6, <2>1
<1> HIDE DEF four
<1>8. five.total = Charge(1) + Charge(2) + Charge(3) + Charge(4) + Charge(5)
  <2>1. 5 \in 1 .. 5 /\ four.total + Charge(5) <= U64Max /\ four.total \in Nat
    BY <1>1, <1>7
  <2> QED BY <1>1, <1>2, <1>7, <2>1
<1> QED BY <1>8, <1>9, <1>10

\* tiered_pricing and the plaintext model kept beside it agree on every schedule
\* the program has accepted, whatever the envelope.
THEOREM ModelAgrees == Spec => []CircuitMatchesModel
<1>1. PlanInv => CircuitMatchesModel
  <2> SUFFICES ASSUME PlanInv, Chargeable, NEW units \in 0 .. MaxUnits
               PROVE  TieredPricing(pricing, units) = PlaintextModel(pricing, units)
    BY DEF CircuitMatchesModel
  <2>1. Accepted(pricing)
    BY DEF Accepted, PlanInv, TypeOK, SchedulesStaySound, Chargeable
  <2> QED BY <2>1, NoWrap, ModelTotals
<1> QED BY <1>1, PlansHold, PTL
------------------------------------------------------------------------------
(* Each unit once. *)

\* The units a tier charges.
Band(p, units, i) ==
  IF i <= p.count THEN LowerEnd(p, i) + 1 .. UpperEnd(p, units, i) ELSE {}

\* The ends of a band in use are numbers, within the units.
LEMMA BandEnds ==
  ASSUME NEW p \in Pricing, WellTiered(p), NEW units \in Nat, NEW i \in 1 .. 5
  PROVE  /\ LowerEnd(p, i) \in Nat
         /\ UpperEnd(p, units, i) \in Nat /\ UpperEnd(p, units, i) <= units
         /\ Band(p, units, i) \subseteq 1 .. units
         /\ i <= p.count => \A unit \in Nat :
              unit <= UpperEnd(p, units, i)
                <=> unit <= units /\ (p.tiers[i].upTo = 0 \/ unit <= p.tiers[i].upTo)
<1>1. p.count \in 1 .. 5 /\ \A j \in 1 .. 5 : p.tiers[j].upTo \in Nat
  BY TiersRise
<1>2. LowerEnd(p, i) \in Nat
  BY <1>1 DEF LowerEnd
<1>3. UpperEnd(p, units, i) \in Nat /\ UpperEnd(p, units, i) <= units
  BY <1>1 DEF UpperEnd, Least
<1>4. Band(p, units, i) \subseteq 1 .. units
  BY <1>2, <1>3 DEF Band
<1>5. ASSUME i <= p.count, NEW unit \in Nat
      PROVE  unit <= UpperEnd(p, units, i)
               <=> unit <= units /\ (p.tiers[i].upTo = 0 \/ unit <= p.tiers[i].upTo)
  BY <1>1, <1>5 DEF UpperEnd, Least
<1> QED BY <1>2, <1>3, <1>4, <1>5

\* Which units are in a band.
LEMMA InBand ==
  ASSUME NEW p \in Pricing, WellTiered(p), NEW units \in Nat, NEW i \in 1 .. 5,
         NEW unit \in 1 .. units
  PROVE  unit \in Band(p, units, i)
           <=> /\ i <= p.count
               /\ LowerEnd(p, i) < unit
               /\ p.tiers[i].upTo = 0 \/ unit <= p.tiers[i].upTo
<1> DEFINE low == LowerEnd(p, i)
           end == UpperEnd(p, units, i)
<1>1. low \in Nat /\ end \in Nat /\ unit \in Nat /\ unit <= units
  <2>1. low \in Nat /\ end \in Nat
    BY BandEnds
  <2> QED BY <2>1
<1>2. i <= p.count =>
        (unit <= end <=> p.tiers[i].upTo = 0 \/ unit <= p.tiers[i].upTo)
  BY <1>1, BandEnds
<1>3. unit \in Band(p, units, i) <=> i <= p.count /\ unit \in low + 1 .. end
  BY DEF Band
<1> HIDE DEF low, end
<1>4. unit \in low + 1 .. end <=> low < unit /\ unit <= end
  BY <1>1
<1> QED BY <1>2, <1>3, <1>4 DEF low

\* A unit of a band has the rate of its tier: no tier before reaches it.
LEMMA RateInBand ==
  ASSUME NEW p \in Pricing, WellTiered(p), NEW units \in Nat, NEW i \in 1 .. 5,
         NEW unit \in Band(p, units, i)
  PROVE  RateOf(p, unit) = p.tiers[i].rate
<1>1. i \in 1 .. p.count /\ p.count \in 1 .. 5 /\ \A j \in 1 .. 5 : p.tiers[j].upTo \in Nat
  BY TiersRise DEF Band
<1>2. /\ LowerEnd(p, i) \in Nat /\ unit \in 1 .. units
      /\ LowerEnd(p, i) < unit
      /\ p.tiers[i].upTo = 0 \/ unit <= p.tiers[i].upTo
  <2>1. LowerEnd(p, i) \in Nat /\ unit \in 1 .. units
    BY BandEnds
  <2> QED BY <2>1, InBand
<1>3. i \in Reaching(p, unit)
  BY <1>1, <1>2 DEF Reaching
<1>4. \A j \in Reaching(p, unit) : i <= j
  <2> SUFFICES ASSUME NEW j \in 1 .. p.count, j < i
               PROVE  p.tiers[j].upTo # 0 /\ ~ unit <= p.tiers[j].upTo
    BY <1>1 DEF Reaching
  <2>1. p.tiers[j].upTo # 0 /\ p.tiers[j].upTo <= LowerEnd(p, i)
    BY <1>1, TiersRise
  <2> QED BY <1>1, <1>2, <2>1
<1>5. Reaching(p, unit) \subseteq Int
  BY <1>1 DEF Reaching
<1> DEFINE R == Reaching(p, unit)
           first == CHOOSE k \in R : \A j \in R : k <= j
<1>6. first = i
  <2> HIDE DEF R
  <2>1. i \in R /\ (\A j \in R : i <= j) /\ R \subseteq Int
    BY <1>3, <1>4, <1>5 DEF R
  <2>2. first \in R /\ \A j \in R : first <= j
    BY <2>1
  <2> HIDE DEF first
  <2>3. first <= i /\ i <= first /\ first \in Int /\ i \in Int
    BY <2>1, <2>2
  <2> QED BY <2>3
<1>7. RateOf(p, unit) = p.tiers[first].rate
  BY <1>3 DEF RateOf
<1> QED BY <1>6, <1>7

\* A unit of no band is past the last bound, where there is no rate.
LEMMA RatePastBands ==
  ASSUME NEW p \in Pricing, WellTiered(p), NEW units \in Nat, NEW unit \in 1 .. units,
         \A i \in 1 .. 5 : unit \notin Band(p, units, i)
  PROVE  RateOf(p, unit) = 0
<1>1. p.count \in 1 .. 5 /\ \A j \in 1 .. 5 : p.tiers[j].upTo \in Nat
  BY TiersRise
<1>2. ASSUME NEW i \in 1 .. 5, i \in Reaching(p, unit)
      PROVE  i > 1 /\ i - 1 \in Reaching(p, unit)
  <2>1. i \in 1 .. p.count /\ (p.tiers[i].upTo = 0 \/ unit <= p.tiers[i].upTo)
    BY <1>2 DEF Reaching
  <2>2. i <= p.count /\ LowerEnd(p, i) \in Nat
    <3>1. LowerEnd(p, i) \in Nat
      BY BandEnds
    <3> QED BY <1>1, <2>1, <3>1
  <2>3. ~ LowerEnd(p, i) < unit
    BY <2>1, <2>2, InBand
  <2>4. unit <= LowerEnd(p, i)
    BY <2>2, <2>3
  <2>5. i > 1 /\ unit <= p.tiers[i - 1].upTo
    BY <1>1, <2>4 DEF LowerEnd
  <2>6. i - 1 \in 1 .. p.count
    BY <1>1, <2>1, <2>5
  <2> QED BY <2>5, <2>6 DEF Reaching
<1> DEFINE R == Reaching(p, unit)
<1>3. R \subseteq 1 .. 5
  BY <1>1 DEF Reaching
<1>4. R = {}
  <2>1. \A i \in R : i > 1 /\ i - 1 \in R
    BY <1>2, <1>3
  <2> HIDE DEF R
  <2>2. 1 \notin R
    BY <2>1
  <2>3. 2 \notin R
    BY <2>1, <2>2
  <2>4. 3 \notin R
    BY <2>1, <2>3
  <2>5. 4 \notin R
    BY <2>1, <2>4
  <2>6. 5 \notin R
    BY <2>1, <2>5
  <2> QED BY <1>3, <2>2, <2>3, <2>4, <2>5, <2>6
<1> QED BY <1>4 DEF RateOf

\* No unit is in two bands.
LEMMA BandsApart ==
  ASSUME NEW p \in Pricing, WellTiered(p), NEW units \in Nat,
         NEW i \in 1 .. 5, NEW j \in 1 .. 5, i < j
  PROVE  Band(p, units, i) \cap Band(p, units, j) = {}
<1> SUFFICES ASSUME NEW unit \in Band(p, units, i), unit \in Band(p, units, j)
             PROVE  FALSE
  OBVIOUS
<1>1. i \in 1 .. p.count /\ j \in 1 .. p.count /\ p.count \in 1 .. 5
      /\ \A k \in 1 .. 5 : p.tiers[k].upTo \in Nat
  BY TiersRise DEF Band
<1>2. unit \in 1 .. units /\ LowerEnd(p, j) \in Nat
  BY BandEnds
<1>3. LowerEnd(p, j) < unit
  BY <1>2, InBand
<1>4. p.tiers[i].upTo # 0 /\ p.tiers[i].upTo <= LowerEnd(p, j)
  BY <1>1, TiersRise
<1>5. unit <= p.tiers[i].upTo
  BY <1>2, <1>4, InBand
<1> QED BY <1>1, <1>2, <1>3, <1>4, <1>5

\* The units of a band, each at its rate, are what the circuit charges for the tier.
LEMMA BandCharge ==
  ASSUME NEW p \in Pricing, WellTiered(p), NEW units \in Nat, NEW i \in 1 .. 5
  PROVE  Total(Rates(p, units), Band(p, units, i)) = TierCharge(p, units, i)
<1> DEFINE B == Band(p, units, i)
           low == LowerEnd(p, i)
           end == UpperEnd(p, units, i)
           rate == p.tiers[i].rate
<1>1. p.count \in 1 .. 5 /\ rate \in Nat /\ low \in Nat /\ end \in Nat
      /\ B \subseteq 1 .. units
  BY TiersRise, BandEnds
<1>2. CASE i <= p.count
  <2>1. B = low + 1 .. end /\ TierCharge(p, units, i) = UnitsInTier(p, units, i) * rate
    BY <1>2 DEF Band, TierCharge
  <2>2. \A unit \in B : Rates(p, units)[unit] = rate
    BY <1>1, RateInBand DEF Rates
  <2>3. UnitsInTier(p, units, i) = IF end > low THEN end - low ELSE 0
    BY DEF UnitsInTier
  <2> HIDE DEF B, low, end, rate
  <2>4. IsFiniteSet(B) /\ Cardinality(B) = IF end > low THEN end - low ELSE 0
    <3>1. low + 1 \in Int /\ end \in Int
      BY <1>1
    <3>2. IsFiniteSet(B) /\ Cardinality(B) = IF low + 1 > end THEN 0 ELSE end - (low + 1) + 1
      BY <2>1, <3>1, FS_Interval
    <3> QED BY <1>1, <3>2
  <2>5. Total(Rates(p, units), B) = Cardinality(B) * rate
    BY <1>1, <2>2, <2>4, TotalOfConstant
  <2> QED BY <2>1, <2>3, <2>4, <2>5 DEF B
<1>3. CASE ~ i <= p.count
  <2>1. B = {} /\ TierCharge(p, units, i) = 0
    BY <1>3 DEF Band, TierCharge
  <2> QED BY <2>1, TotalOfNone
<1> QED BY <1>2, <1>3

\* Five bands and the units past them: what all units cost at their own rates is
\* what the five tiers charge.
LEMMA BandsCoverUnits ==
  ASSUME NEW p \in Pricing, WellTiered(p), NEW units \in Nat
  PROVE  Total(Rates(p, units), 1 .. units) = TierTotal(p, units)
<1> DEFINE f == Rates(p, units)
           B(i) == Band(p, units, i)
           Two == B(1) \cup B(2)
           Three == Two \cup B(3)
           Four == Three \cup B(4)
           Five == Four \cup B(5)
           Rest == (1 .. units) \ Five
           Charge(i) == TierCharge(p, units, i)
<1>1. \A i \in 1 .. 5 : p.tiers[i].rate \in Nat
  BY TiersRise
<1>2. /\ \A unit \in 1 .. units : f[unit] = RateOf(p, unit)
      /\ \A i \in 1 .. 5 : B(i) \subseteq 1 .. units
  BY BandEnds DEF Rates
<1>3. \A i \in 1 .. 5 : \A unit \in B(i) : f[unit] = p.tiers[i].rate
  BY <1>2, RateInBand
<1>4. \A unit \in Rest : f[unit] = 0
  <2> TAKE unit \in Rest
  <2>1. unit \in 1 .. units /\ \A i \in 1 .. 5 : unit \notin B(i)
    <3>1. \A i \in 1 .. 5 : i = 1 \/ i = 2 \/ i = 3 \/ i = 4 \/ i = 5
      OBVIOUS
    <3> HIDE DEF B
    <3> QED BY <3>1
  <2> QED BY <1>2, <2>1, RatePastBands
<1>5. \A i, j \in 1 .. 5 : i < j => B(i) \cap B(j) = {}
  BY BandsApart
<1>6. \A i \in 1 .. 5 : Total(f, B(i)) = Charge(i)
  BY BandCharge
<1>7. TierTotal(p, units) = Charge(1) + Charge(2) + Charge(3) + Charge(4) + Charge(5)
  BY DEF TierTotal
<1> HIDE DEF f, B, Charge
<1>8. Counts(f, 1 .. units)
  <2>1. IsFiniteSet(1 .. units)
    BY FS_Interval
  <2>2. ASSUME NEW unit \in 1 .. units PROVE f[unit] \in Nat
    <3>1. CASE unit \in Rest
      BY <1>4, <3>1
    <3>2. CASE unit \notin Rest
      <4>1. \E i \in 1 .. 5 : unit \in B(i)
        BY <2>2, <3>2
      <4> QED BY <1>1, <1>3, <4>1
    <3> QED BY <3>1, <3>2
  <2> QED BY <2>1, <2>2 DEF Counts
<1>9. ASSUME NEW T, T \subseteq 1 .. units
      PROVE  Counts(f, T) /\ Total(f, T) \in Nat
  BY <1>8, <1>9, TotalOfPart, TotalIsFinite
<1>10. ASSUME NEW S, NEW T, S \subseteq 1 .. units, T \subseteq 1 .. units, S \cap T = {}
       PROVE  Total(f, S \cup T) = Total(f, S) + Total(f, T)
  BY <1>9, <1>10, TotalOfBoth
<1>11. /\ B(1) \subseteq 1 .. units /\ B(2) \subseteq 1 .. units /\ B(3) \subseteq 1 .. units
       /\ B(4) \subseteq 1 .. units /\ B(5) \subseteq 1 .. units
       /\ B(1) \cap B(2) = {} /\ Two \cap B(3) = {} /\ Three \cap B(4) = {}
       /\ Four \cap B(5) = {}
  BY <1>2, <1>5
<1>12. Total(f, Five) = Charge(1) + Charge(2) + Charge(3) + Charge(4) + Charge(5)
  <2>1. Total(f, Two) = Total(f, B(1)) + Total(f, B(2))
    BY <1>10, <1>11
  <2>2. Two \subseteq 1 .. units /\ Three \subseteq 1 .. units /\ Four \subseteq 1 .. units
    BY <1>11
  <2> HIDE DEF Four
  <2>3. Total(f, Five) = Total(f, Four) + Total(f, B(5))
    BY <1>10, <1>11, <2>2
  <2> USE DEF Four
  <2> HIDE DEF Three
  <2>4. Total(f, Four) = Total(f, Three) + Total(f, B(4))
    BY <1>10, <1>11, <2>2
  <2> USE DEF Three
  <2> HIDE DEF Two
  <2>5. Total(f, Three) = Total(f, Two) + Total(f, B(3))
    BY <1>10, <1>11, <2>2
  <2> HIDE DEF Five, Four, Three
  <2> QED BY <1>6, <2>1, <2>3, <2>4, <2>5
<1>13. Total(f, 1 .. units) = Total(f, Five) + Total(f, Rest)
  <2>1. Five \subseteq 1 .. units
    BY <1>11
  <2> HIDE DEF Five
  <2>2. Five \cup Rest = 1 .. units /\ Five \cap Rest = {} /\ Rest \subseteq 1 .. units
    BY <2>1
  <2> HIDE DEF Rest
  <2> QED BY <1>10, <2>1, <2>2
<1>14. Total(f, Rest) = 0
  BY <1>4, TotalOfZeroes
<1>15. Total(f, Five) \in Nat
  BY <1>9, <1>11
<1> QED BY <1>7, <1>12, <1>13, <1>14, <1>15 DEF f

\* A schedule of one tier without its bound has one rate for every unit.
LEMMA SoleTierCharge ==
  ASSUME NEW p \in Pricing, p.count = 1, NEW units \in Nat,
         NEW q, q = WithoutSoleBound(p)
  PROVE  /\ q.cap = p.cap
         /\ Total(Rates(q, units), 1 .. units) = units * p.tiers[1].rate
<1> DEFINE rate == p.tiers[1].rate
<1>1. rate \in Nat /\ 1 \in TierSlots
  BY SlotsAreSequence, TierFacts DEF TierSlots
<1>2. p.tiers \in [TierSlots -> [upTo : Nat, rate : Nat]]
  BY DEF Pricing, Tier
<1>3. q.cap = p.cap /\ q.count = 1 /\ q.tiers[1].upTo = 0 /\ q.tiers[1].rate = rate
  BY <1>1, <1>2 DEF WithoutSoleBound, Pricing
<1>4. \A unit \in 1 .. units : Rates(q, units)[unit] = rate
  <2> TAKE unit \in 1 .. units
  <2>1. Reaching(q, unit) = {1}
    BY <1>3 DEF Reaching
  <2>2. (CHOOSE i \in {1} : \A j \in {1} : i <= j) = 1
    OBVIOUS
  <2>3. RateOf(q, unit) = q.tiers[1].rate
    BY <2>1, <2>2 DEF RateOf
  <2> QED BY <1>3, <2>3 DEF Rates
<1>5. IsFiniteSet(1 .. units) /\ Cardinality(1 .. units) = units
  BY FS_Interval
<1> HIDE DEF rate
<1>6. Total(Rates(q, units), 1 .. units) = Cardinality(1 .. units) * rate
  BY <1>1, <1>4, <1>5, TotalOfConstant
<1> QED BY <1>3, <1>5, <1>6 DEF rate

\* usage_charge and tiered_pricing charge every unit at the rate of its own tier
\* and no unit twice, for every schedule the program has accepted.
THEOREM EachUnitAtItsRate == Spec => []ChargesEachUnitOnce
<1>1. PlanInv => ChargesEachUnitOnce
  <2> SUFFICES ASSUME PlanInv, Chargeable, NEW units \in 0 .. MaxUnits
               PROVE  CircuitCharge(pricing, units)
                        = MarginalPrice(WithoutSoleBound(pricing), units)
    BY DEF ChargesEachUnitOnce
  <2>1. Accepted(pricing) /\ pricing \in Pricing /\ WellTiered(pricing)
    BY DEF Accepted, PlanInv, TypeOK, SchedulesStaySound, Chargeable
  <2>2. units \in Nat
    BY EnvelopeAssumption
  <2>3. CASE pricing.count = 1
    <3>1. CircuitCharge(pricing, units) = Least(pricing.cap, units * pricing.tiers[1].rate)
      BY <2>1, <2>3, NoWrap DEF CircuitCharge
    <3> QED BY <2>1, <2>2, <2>3, <3>1, SoleTierCharge DEF MarginalPrice
  <2>4. CASE pricing.count # 1
    <3>1. CircuitCharge(pricing, units) = Least(pricing.cap, TierTotal(pricing, units))
      BY <2>1, <2>4, NoWrap DEF CircuitCharge
    <3>2. WithoutSoleBound(pricing) = pricing
      BY <2>4 DEF WithoutSoleBound
    <3> QED BY <2>1, <2>2, <3>1, <3>2, BandsCoverUnits DEF MarginalPrice
  <2> QED BY <2>3, <2>4
<1> QED BY <1>1, PlansHold, PTL
------------------------------------------------------------------------------
(* More use never costs less. *)

\* A tier charges no less when more units are reported.
LEMMA TierGrows ==
  ASSUME NEW p, Accepted(p), NEW u \in 0 .. MaxUnits, NEW v \in 0 .. MaxUnits, u <= v,
         NEW i \in 1 .. 5
  PROVE  TierCharge(p, u, i) <= TierCharge(p, v, i)
<1>1. p \in Pricing /\ p.count \in 1 .. 5 /\ u \in Nat /\ v \in Nat
      /\ \A j \in 1 .. 5 : p.tiers[j].upTo \in Nat /\ p.tiers[j].rate \in Nat
  <2>1. p \in Pricing /\ WellTiered(p) /\ u \in Nat /\ v \in Nat
    BY EnvelopeAssumption DEF Accepted
  <2> QED BY <2>1, TiersRise
<1>2. CASE i <= p.count
  <2>1. /\ UpperEnd(p, u, i) \in Nat /\ UpperEnd(p, v, i) \in Nat
        /\ UpperEnd(p, u, i) <= UpperEnd(p, v, i)
    BY <1>1 DEF UpperEnd, Least
  <2>2. LowerEnd(p, i) \in Nat
    BY <1>1 DEF LowerEnd
  <2>3. /\ UnitsInTier(p, u, i) \in Nat /\ UnitsInTier(p, v, i) \in Nat
        /\ UnitsInTier(p, u, i) <= UnitsInTier(p, v, i)
    BY <2>1, <2>2 DEF UnitsInTier
  <2>4. p.tiers[i].rate \in Nat /\ p.tiers[i].rate <= p.tiers[i].rate
    BY <1>1
  <2>5. UnitsInTier(p, u, i) * p.tiers[i].rate <= UnitsInTier(p, v, i) * p.tiers[i].rate
    BY <2>3, <2>4, ProductGrows
  <2> QED BY <1>2, <2>5 DEF TierCharge
<1>3. CASE ~ i <= p.count
  BY <1>3 DEF TierCharge
<1> QED BY <1>2, <1>3

\* A report of more units is never charged less.
MoreUseCostsNoLess ==
  Chargeable => \A u, v \in 0 .. MaxUnits :
    u <= v => CircuitCharge(pricing, u) <= CircuitCharge(pricing, v)

\* A merchant gains nothing by leaving units out, nor a subscriber by having
\* more of them reported, whatever the tiers of the plan are: a lower rate past
\* a bound is never applied to the units before it.
THEOREM ChargesGrowWithUse == Spec => []MoreUseCostsNoLess
<1>1. PlanInv => MoreUseCostsNoLess
  <2> SUFFICES ASSUME PlanInv, Chargeable, NEW u \in 0 .. MaxUnits, NEW v \in 0 .. MaxUnits,
                      u <= v
               PROVE  CircuitCharge(pricing, u) <= CircuitCharge(pricing, v)
    BY DEF MoreUseCostsNoLess
  <2>1. Accepted(pricing) /\ pricing.cap \in Nat /\ u \in Nat /\ v \in Nat
    BY EnvelopeAssumption DEF Accepted, PlanInv, TypeOK, SchedulesStaySound, Chargeable, Pricing
  <2>2. \A a, b \in Nat : a <= b => Least(pricing.cap, a) <= Least(pricing.cap, b)
    BY <2>1 DEF Least
  <2>3. CASE pricing.count = 1
    <3>1. /\ CircuitCharge(pricing, u) = Least(pricing.cap, u * pricing.tiers[1].rate)
          /\ CircuitCharge(pricing, v) = Least(pricing.cap, v * pricing.tiers[1].rate)
      BY <2>1, <2>3, NoWrap DEF CircuitCharge
    <3>2. pricing.tiers[1].rate \in Nat
      BY <2>1, TiersRise DEF Accepted
    <3>3. /\ u * pricing.tiers[1].rate <= v * pricing.tiers[1].rate
          /\ u * pricing.tiers[1].rate \in Nat /\ v * pricing.tiers[1].rate \in Nat
      BY <2>1, <3>2, ProductGrows
    <3> QED BY <2>2, <3>1, <3>3
  <2>4. CASE pricing.count # 1
    <3>1. /\ CircuitCharge(pricing, u) = Least(pricing.cap, TierTotal(pricing, u))
          /\ CircuitCharge(pricing, v) = Least(pricing.cap, TierTotal(pricing, v))
          /\ TierTotal(pricing, u) \in Nat /\ TierTotal(pricing, v) \in Nat
      BY <2>1, <2>4, NoWrap DEF CircuitCharge
    <3>2. TierTotal(pricing, u) <= TierTotal(pricing, v)
      <4>1. \A i \in 1 .. 5 : /\ TierCharge(pricing, u, i) \in Nat
                              /\ TierCharge(pricing, v, i) \in Nat
                              /\ TierCharge(pricing, u, i) <= TierCharge(pricing, v, i)
        BY <2>1, NoWrap, TierGrows
      <4> QED BY <4>1 DEF TierTotal
    <3> QED BY <2>2, <3>1, <3>2
  <2> QED BY <2>3, <2>4
<1> QED BY <1>1, PlansHold, PTL
==============================================================================
