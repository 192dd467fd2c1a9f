------------------------------ MODULE UsagePlan ------------------------------
(***************************************************************************)
(* One usage plan account: created by its merchant, updated part by part,  *)
(* migrated from an older layout, and priced by the circuits meanwhile.    *)
(* A plan of an older release may hold prices from before the envelope of  *)
(* UsagePricing was introduced.                                            *)
(***************************************************************************)
EXTENDS UsagePricing

CONSTANTS
  TierLists,           \* lists of tiers create_usage_plan may be called with
  RevisedLists,        \* lists update_usage_plan may be called with
  Caps, Frequencies,   \* caps and cadences either may be called with
  OldPricings          \* what plans of an older release may hold

ASSUME ListsAssumption ==
  /\ TierLists \subseteq Seq(Tier) /\ RevisedLists \subseteq Seq(Tier)
  /\ Caps \subseteq Nat /\ Frequencies \subseteq Nat

VARIABLES
  layout,      \* of the account: "Absent", "V1" or "V2"
  pricing,     \* what it holds
  inherited    \* history: it holds the prices of an older release

vars == <<layout, pricing, inherited>>

NoPricing == [tiers |-> [i \in TierSlots |-> NoTier], count |-> 0, cap |-> 0, frequency |-> 0]

\* Older releases took any rates and caps, with the boundaries checked.
WellTiered(p) ==
  /\ p.count \in TierSlots
  /\ ValidBoundaries(Active(p))
  /\ \A i \in TierSlots : i > p.count => p.tiers[i] = NoTier

ASSUME OldPricingsAssumption ==
  OldPricings \subseteq {p \in Pricing : WellTiered(p)}
------------------------------------------------------------------------------
Create(list, cap, frequency) ==
  /\ layout = "Absent"
  /\ CanCreate(list, cap, frequency)
  /\ layout' = "V2"
  /\ pricing' = Fresh(list, cap, frequency)
  /\ inherited' = FALSE

Update(list, cap, frequency) ==
  /\ layout # "Absent"
  /\ CanUpdate(pricing, list, cap, frequency)
  /\ layout' = "V2"
  /\ pricing' = Updated(pricing, list, cap, frequency)
  /\ inherited' = FALSE

\* Anybody may pay for it; the prices are copied.
Migrate ==
  /\ layout # "Absent"
  /\ layout' = "V2"
  /\ UNCHANGED <<pricing, inherited>>

Init ==
  \/ layout = "Absent" /\ pricing = NoPricing /\ inherited = FALSE
  \/ layout = "V1" /\ pricing \in OldPricings /\ inherited = TRUE

Next ==
  \/ \E list \in TierLists, cap \in Caps, frequency \in Frequencies :
       Create(list, cap, frequency)
  \/ \E list \in RevisedLists \cup {Keeps}, cap \in Caps \cup {None},
        frequency \in Frequencies \cup {None} : Update(list, cap, frequency)
  \/ Migrate

Spec == Init /\ [][Next]_vars
------------------------------------------------------------------------------
(* Properties. *)

TypeOK ==
  /\ layout \in {"Absent", "V1", "V2"}
  /\ pricing \in Pricing
  /\ inherited \in BOOLEAN

Chargeable == layout # "Absent" /\ WithinEnvelope(Active(pricing), pricing.cap)

\* create_usage_plan, update_usage_plan, migrate_plan: the tiers stay a schedule
\* whatever parts are updated in whatever order, and only prices inherited from
\* an older release can be outside the envelope.
SchedulesStaySound ==
  layout # "Absent" => WellTiered(pricing) /\ (inherited \/ Chargeable)

\* usage_charge and tiered_pricing, chosen by the number of tiers, charge each
\* unit at its own tier's rate; a bound on a schedule's only tier is ignored.
ChargesEachUnitOnce ==
  Chargeable => \A units \in 0 .. MaxUnits :
    CircuitCharge(pricing, units) = MarginalPrice(WithoutSoleBound(pricing), units)

\* The circuit takes the previous slot's bound, the plaintext model kept beside
\* it a running one and saturating sums: they agree on every plan's schedule.
CircuitMatchesModel ==
  Chargeable => \A units \in 0 .. MaxUnits :
    TieredPricing(pricing, units) = PlaintextModel(pricing, units)

\* validate_usage_pricing_bounds: in an envelope it accepts no product and no
\* sum of a circuit leaves u64, nor does any of their partial sums.
NothingWraps ==
  Chargeable => \A units \in 0 .. MaxUnits :
    /\ TierTotal(pricing, units) <= U64Max
    /\ units * pricing.tiers[1].rate <= U64Max
==============================================================================
