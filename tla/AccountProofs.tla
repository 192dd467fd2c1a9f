---------------------------- MODULE AccountProofs ----------------------------
(***************************************************************************)
(* Proofs about MerchantAccounts, for every set of subscribers, plans and  *)
(* mandates: types, that every handler can load every mandate, that no     *)
(* address is ever used for a second mandate, that every credential is     *)
(* accounted for and that a subscriber can always leave.                   *)
(***************************************************************************)
EXTENDS MerchantAccounts, TotalsProofs

\* Why the addresses of mandates never clash: the counter is above every index
\* ever used, and the layout of a mandate is the layout of its address, so a
\* mandate that may change plan has an address the plan is no part of.
IndexesBelowCounter ==
  \A a \in opened : a.layout = "V2" => a.index < merchant.mandateCount
MandatesWereOpened == DOMAIN mandates \subseteq opened
LayoutsAgree == \A a \in DOMAIN mandates : mandates[a].layout = a.layout

AccountInv ==
  /\ TypeOK
  /\ IndexesBelowCounter
  /\ MandatesWereOpened
  /\ LayoutsAgree
  /\ EveryMandateLoads
------------------------------------------------------------------------------
(* The helpers. *)

\* Addresses are records, and addresses of the two layouts never meet.
LEMMA AddressFacts ==
  /\ \A s \in Subscribers, n \in Nat :
       /\ IndexedAddress(s, n) \in MandateAddresses
       /\ IndexedAddress(s, n).layout = "V2"
       /\ IndexedAddress(s, n).subscriber = s
       /\ IndexedAddress(s, n).index = n
  /\ \A s \in Subscribers, p \in PlanAddresses :
       /\ LegacyAddress(s, p) \in MandateAddresses
       /\ LegacyAddress(s, p).layout = "V1"
       /\ LegacyAddress(s, p).subscriber = s
       /\ LegacyAddress(s, p).plan = p
  BY DEF IndexedAddress, LegacyAddress, MandateAddresses

\* Addresses of plans, and the constants.
LEMMA PlanFacts ==
  /\ \A n \in Nat : FlatAt(n) \in PlanAddresses /\ UsageAt(n) \in PlanAddresses
  /\ UsageIds \subseteq Nat
  /\ OldPlans \subseteq PlanAddresses
  /\ \A p \in PlanAddresses : p.type \in {"Flat", "Usage"}
  BY OldPlansAssumption, AccountBoundsAssumption DEF FlatAt, UsageAt, PlanAddresses

\* The merchant's mint is none, or its own.
LEMMA MintFacts ==
  /\ MerchantMint \in Mints
  /\ MerchantMint # NoMint
  /\ NoMint \notin Mints
  BY DEF Mints, MerchantMint, NoMint, MintOf

\* ensure_merchant_state changes the layout and nothing else.
LEMMA EnsuredFacts ==
  ASSUME TypeOK
  PROVE  /\ Ensured(merchant) \in MerchantType
         /\ Ensured(merchant).mandateCount = merchant.mandateCount
         /\ Ensured(merchant).planCount = merchant.planCount
         /\ Ensured(merchant).mint = merchant.mint
  BY DEF TypeOK, Ensured, MerchantType

\* A credential is always of a mint there is.
LEMMA ResolvedIsMint ==
  ASSUME TypeOK, NEW p \in DOMAIN plans
  PROVE  Resolved(plans[p].mint) \in Mints
<1>1. plans[p].mint \in Mints /\ merchant.mint \in {NoMint, MerchantMint}
  BY DEF TypeOK, PlanType, MerchantType
<1> QED BY <1>1, MintFacts DEF Resolved
------------------------------------------------------------------------------
(* Steps that leave the mandates alone. *)

\* The invariant reads of the merchant only its types and the mandate counter,
\* of the plans only which there are.
LEMMA MerchantAndPlanSteps ==
  ASSUME AccountInv,
         merchant' \in MerchantType,
         merchant'.mandateCount = merchant.mandateCount,
         DOMAIN plans \subseteq DOMAIN plans',
         DOMAIN plans' \subseteq PlanAddresses,
         plans' \in [DOMAIN plans' -> PlanType],
         UNCHANGED <<mandates, credentials, opened, lapsed, burnt>>
  PROVE  AccountInv'
<1>1. TypeOK'
  BY DEF AccountInv, TypeOK
<1>2. EveryMandateLoads'
  BY DEF AccountInv, EveryMandateLoads, Derives
<1> QED BY <1>1, <1>2 DEF AccountInv, IndexesBelowCounter, MandatesWereOpened, LayoutsAgree

LEMMA MerchantSteps ==
  ASSUME AccountInv, InitMerchantCredential \/ CreateStreamMandate
  PROVE  AccountInv'
<1>1. TypeOK
  BY DEF AccountInv
<1>2. merchant \in MerchantType /\ DOMAIN plans \subseteq PlanAddresses
      /\ plans \in [DOMAIN plans -> PlanType]
  BY <1>1 DEF TypeOK
<1>3. UNCHANGED <<plans, mandates, credentials, opened, lapsed, burnt>>
  BY DEF InitMerchantCredential, CreateStreamMandate, history
<1>4. merchant' \in MerchantType /\ merchant'.mandateCount = merchant.mandateCount
  <2>1. CASE InitMerchantCredential
    BY <1>1, <2>1, EnsuredFacts DEF InitMerchantCredential, MerchantType
  <2>2. CASE CreateStreamMandate
    BY <1>2, <2>2 DEF CreateStreamMandate, MerchantType
  <2> QED BY <2>1, <2>2
<1> QED BY <1>2, <1>3, <1>4, MerchantAndPlanSteps

LEMMA PlanSteps ==
  ASSUME AccountInv,
         \/ CreatePlan
         \/ \E id \in UsageIds : CreateUsagePlan(id)
         \/ \E p \in DOMAIN plans : MigratePlan(p) \/ UpdatePlan(p) \/ UpdateUsagePlan(p)
  PROVE  AccountInv'
<1>1. TypeOK
  BY DEF AccountInv
<1>2. merchant \in MerchantType /\ DOMAIN plans \subseteq PlanAddresses
      /\ plans \in [DOMAIN plans -> PlanType]
      /\ merchant.planCount \in Nat /\ merchant.mint \in {NoMint, MerchantMint}
  BY <1>1 DEF TypeOK, MerchantType
<1>3. UNCHANGED <<mandates, credentials, opened, lapsed, burnt>>
  BY DEF CreatePlan, CreateUsagePlan, MigratePlan, UpdatePlan, UpdateUsagePlan, Rewrite,
         history
<1>4. ASSUME NEW p \in PlanAddresses, merchant.mint # NoMint
      PROVE  /\ DOMAIN With(p) = DOMAIN plans \cup {p}
             /\ With(p) \in [DOMAIN plans \cup {p} -> PlanType]
  <2>1. [layout |-> "V2", mint |-> merchant.mint] \in PlanType
    BY <1>2, <1>4, MintFacts DEF PlanType
  <2> QED BY <1>2, <2>1 DEF With
<1>5. CASE CreatePlan
  <2>1. FlatAt(merchant.planCount) \in PlanAddresses
    BY <1>2, PlanFacts
  <2>2. merchant' \in MerchantType /\ merchant'.mandateCount = merchant.mandateCount
    BY <1>1, <1>5, EnsuredFacts DEF CreatePlan, MerchantType
  <2>3. plans' = With(FlatAt(merchant.planCount)) /\ merchant.mint # NoMint
    BY <1>5 DEF CreatePlan
  <2> QED BY <1>2, <1>3, <1>4, <2>1, <2>2, <2>3, MerchantAndPlanSteps
<1>6. CASE \E id \in UsageIds : CreateUsagePlan(id)
  <2>1. PICK id \in UsageIds : CreateUsagePlan(id) BY <1>6
  <2>2. UsageAt(id) \in PlanAddresses
    BY PlanFacts
  <2>3. merchant' \in MerchantType /\ merchant'.mandateCount = merchant.mandateCount
    BY <1>1, <2>1, EnsuredFacts DEF CreateUsagePlan
  <2>4. plans' = With(UsageAt(id)) /\ merchant.mint # NoMint
    BY <2>1 DEF CreateUsagePlan
  <2> QED BY <1>2, <1>3, <1>4, <2>2, <2>3, <2>4, MerchantAndPlanSteps
<1>7. CASE \E p \in DOMAIN plans : MigratePlan(p) \/ UpdatePlan(p) \/ UpdateUsagePlan(p)
  <2>1. PICK p \in DOMAIN plans : Rewrite(p)
    BY <1>7 DEF MigratePlan, UpdatePlan, UpdateUsagePlan
  <2>2. plans[p] \in PlanType
    BY <1>2
  <2>3. InCurrentLayout(plans[p]) \in PlanType
    BY <2>2 DEF InCurrentLayout, PlanType
  <2>4. plans' = [plans EXCEPT ![p] = InCurrentLayout(plans[p])] /\ merchant' = merchant
    BY <2>1 DEF Rewrite
  <2>5. DOMAIN plans' = DOMAIN plans /\ plans' \in [DOMAIN plans -> PlanType]
    BY <1>2, <2>3, <2>4
  <2> QED BY <1>2, <1>3, <2>4, <2>5, MerchantAndPlanSteps
<1> QED BY <1>5, <1>6, <1>7
------------------------------------------------------------------------------
(* Steps of a mandate that stays where it is. *)

\* What a mandate must be for its handlers to load it at address a.
Loads(a, m) ==
  /\ \/ a = LegacyAddress(m.subscriber, m.plan)
     \/ m.layout = "V2" /\ a = IndexedAddress(m.subscriber, m.index)
  /\ m.plan \in DOMAIN plans
  /\ m.billingType = m.plan.type

LEMMA LoadsEvery ==
  EveryMandateLoads <=> \A a \in DOMAIN mandates : Loads(a, mandates[a])
  BY DEF EveryMandateLoads, Derives, Loads

LEMMA MandateInPlace ==
  ASSUME AccountInv, NEW a \in DOMAIN mandates,
         NEW m \in MandateType, m.layout = mandates[a].layout, Loads(a, m),
         mandates' = [mandates EXCEPT ![a] = m],
         credentials' \in [Subscribers -> [Mints -> Nat]],
         lapsed' \in [Subscribers -> Nat],
         UNCHANGED <<merchant, plans, opened, burnt>>
  PROVE  AccountInv'
<1>1. DOMAIN mandates' = DOMAIN mandates /\ mandates' \in [DOMAIN mandates -> MandateType]
  BY DEF AccountInv, TypeOK
<1>2. TypeOK'
  BY <1>1 DEF AccountInv, TypeOK
<1>3. \A b \in DOMAIN mandates' : mandates'[b] = IF b = a THEN m ELSE mandates[b]
  BY <1>1
<1>4. EveryMandateLoads'
  BY <1>1, <1>3, LoadsEvery DEF AccountInv, EveryMandateLoads, Derives, Loads
<1>5. LayoutsAgree'
  BY <1>1, <1>3 DEF AccountInv, LayoutsAgree
<1> QED BY <1>1, <1>2, <1>4, <1>5 DEF AccountInv, IndexesBelowCounter, MandatesWereOpened

\* cancel and admin_cancel, and what billing does.
LEMMA StatusSteps ==
  ASSUME AccountInv, NEW a \in DOMAIN mandates,
         \/ Cancel(a) \/ AdminCancel(a)
         \/ Request(a) \/ UpdateMandate(a)
         \/ \E last \in BOOLEAN : ExecutePull(a, last)
  PROVE  AccountInv'
<1>1. TypeOK /\ mandates[a] \in MandateType /\ Loads(a, mandates[a])
  BY LoadsEvery DEF AccountInv, TypeOK
<1>2. /\ credentials \in [Subscribers -> [Mints -> Nat]] /\ lapsed \in [Subscribers -> Nat]
      /\ mandates[a].subscriber \in Subscribers
  BY <1>1 DEF TypeOK, MandateType
<1>3. ASSUME NEW status \in {"Active", "Cancelled", "Expired"}
      PROVE  LET m == [mandates[a] EXCEPT !.status = status]
             IN  m \in MandateType /\ m.layout = mandates[a].layout /\ Loads(a, m)
  BY <1>1 DEF MandateType, Loads
<1>4. CASE Cancel(a) \/ AdminCancel(a)
  <2> DEFINE mint == Resolved(plans[mandates[a].plan].mint)
  <2>1. mint \in Mints
    BY <1>1, ResolvedIsMint DEF Loads
  <2>2. CancelMandate(a)
    BY <1>4 DEF Cancel, AdminCancel
  <2>3. credentials[mandates[a].subscriber][mint] >= 1
        /\ credentials' = [credentials EXCEPT ![mandates[a].subscriber][mint] = @ - 1]
        /\ mandates' = [mandates EXCEPT ![a] = [mandates[a] EXCEPT !.status = "Cancelled"]]
        /\ UNCHANGED <<merchant, plans, opened, lapsed, burnt>>
    BY <2>2 DEF CancelMandate, history
  <2> HIDE DEF mint
  <2>4. credentials' \in [Subscribers -> [Mints -> Nat]]
    BY <1>2, <2>1, <2>3
  <2> QED BY <1>2, <1>3, <2>3, <2>4, MandateInPlace
<1>5. CASE Request(a)
  <2>1. LET m == [mandates[a] EXCEPT !.used = TRUE]
        IN  m \in MandateType /\ m.layout = mandates[a].layout /\ Loads(a, m)
    BY <1>1 DEF MandateType, Loads
  <2>2. mandates' = [mandates EXCEPT ![a] = [mandates[a] EXCEPT !.used = TRUE]]
        /\ UNCHANGED <<merchant, plans, credentials, opened, lapsed, burnt>>
    BY <1>5 DEF Request, history
  <2> QED BY <1>2, <2>1, <2>2, MandateInPlace
<1>6. CASE UpdateMandate(a)
  <2>1. LET m == [mandates[a] EXCEPT !.grown = TRUE]
        IN  m \in MandateType /\ m.layout = mandates[a].layout /\ Loads(a, m)
    BY <1>1 DEF MandateType, Loads
  <2>2. mandates' = [mandates EXCEPT ![a] = [mandates[a] EXCEPT !.grown = TRUE]]
        /\ UNCHANGED <<merchant, plans, credentials, opened, lapsed, burnt>>
    BY <1>6 DEF UpdateMandate, history
  <2> QED BY <1>2, <2>1, <2>2, MandateInPlace
<1>7. CASE \E last \in BOOLEAN : ExecutePull(a, last)
  <2>1. PICK last \in BOOLEAN : ExecutePull(a, last) BY <1>7
  <2>2. UNCHANGED <<merchant, plans, credentials, opened, burnt>>
        /\ lapsed' = IF last THEN [lapsed EXCEPT ![mandates[a].subscriber] = @ + 1]
                     ELSE lapsed
    BY <2>1 DEF ExecutePull
  <2>3. lapsed' \in [Subscribers -> Nat]
    BY <1>2, <2>2
  <2>4. PICK status \in {"Active", "Expired"} :
          mandates' = [mandates EXCEPT ![a] = [mandates[a] EXCEPT !.status = status]]
    BY <2>1 DEF ExecutePull
  <2> QED BY <1>2, <1>3, <2>2, <2>3, <2>4, MandateInPlace
<1> QED BY <1>4, <1>5, <1>6, <1>7

\* A mandate that changes plan is one of the current layout, at an address by
\* index, so it is still where its handlers look.
LEMMA PlanChangeStep ==
  ASSUME AccountInv, NEW a \in DOMAIN mandates, NEW p \in DOMAIN plans,
         UpdateMandatePlan(a, p)
  PROVE  AccountInv'
<1>1. TypeOK /\ mandates[a] \in MandateType /\ Loads(a, mandates[a])
      /\ p \in PlanAddresses /\ p.type \in {"Flat", "Usage"}
  BY LoadsEvery, PlanFacts DEF AccountInv, TypeOK
<1>2. mandates[a].layout = "V2" /\ a.layout = "V2"
  BY DEF AccountInv, LayoutsAgree, UpdateMandatePlan, MayMove
<1>3. a = IndexedAddress(mandates[a].subscriber, mandates[a].index)
  <2>1. mandates[a].subscriber \in Subscribers /\ mandates[a].plan \in PlanAddresses
    BY <1>1 DEF MandateType
  <2> QED BY <1>1, <1>2, <2>1, AddressFacts DEF Loads
<1>4. Moved(mandates[a], p) \in MandateType
      /\ Moved(mandates[a], p).layout = mandates[a].layout
      /\ Loads(a, Moved(mandates[a], p))
  BY <1>1, <1>2, <1>3 DEF Moved, MandateType, Loads
<1>5. mandates' = [mandates EXCEPT ![a] = Moved(mandates[a], p)]
      /\ UNCHANGED <<merchant, plans, credentials, opened, lapsed, burnt>>
  BY DEF UpdateMandatePlan, history
<1>6. credentials' \in [Subscribers -> [Mints -> Nat]] /\ lapsed' \in [Subscribers -> Nat]
  BY <1>1, <1>5 DEF TypeOK
<1> QED BY <1>4, <1>5, <1>6, MandateInPlace
------------------------------------------------------------------------------
(* Steps that open or close an account. *)

\* The address the counter gives was never used.
LEMMA NextAddressIsNew ==
  ASSUME AccountInv, NEW s \in Subscribers
  PROVE  LET b == IndexedAddress(s, merchant.mandateCount)
         IN  b \in MandateAddresses /\ b.layout = "V2" /\ b.index = merchant.mandateCount
             /\ b.subscriber = s /\ b \notin opened
<1>1. merchant.mandateCount \in Nat
  BY DEF AccountInv, TypeOK, MerchantType
<1> QED BY <1>1, AddressFacts DEF AccountInv, IndexesBelowCounter

\* A mandate put at that address, the old account closed or not.
LEMMA MandateAtNextAddress ==
  ASSUME AccountInv, NEW s \in Subscribers, NEW m \in MandateType, NEW rest,
         rest \subseteq DOMAIN mandates,
         m.layout = "V2", m.subscriber = s, m.index = merchant.mandateCount,
         m.plan \in DOMAIN plans, m.billingType = m.plan.type,
         mandates' = [c \in rest \cup {IndexedAddress(s, merchant.mandateCount)} |->
                        IF c = IndexedAddress(s, merchant.mandateCount) THEN m
                        ELSE mandates[c]],
         merchant' = [merchant EXCEPT !.mandateCount = merchant.mandateCount + 1],
         opened' = opened \cup {IndexedAddress(s, merchant.mandateCount)},
         credentials' \in [Subscribers -> [Mints -> Nat]],
         UNCHANGED <<plans, lapsed, burnt>>
  PROVE  AccountInv'
<1> DEFINE b == IndexedAddress(s, merchant.mandateCount)
<1>1. b \in MandateAddresses /\ b.layout = "V2" /\ b.index = merchant.mandateCount
      /\ b \notin opened
  BY NextAddressIsNew
<1>2. TypeOK /\ mandates \in [DOMAIN mandates -> MandateType]
      /\ DOMAIN mandates \subseteq MandateAddresses
  BY DEF AccountInv, TypeOK
<1>3. merchant' \in MerchantType /\ merchant'.mandateCount = merchant.mandateCount + 1
      /\ merchant.mandateCount \in Nat
  <2>1. merchant \in MerchantType
    BY <1>2 DEF TypeOK
  <2> HIDE DEF b
  <2> QED BY <2>1 DEF MerchantType
<1>4. Loads(b, m)
  BY DEF Loads
<1> HIDE DEF b
<1>5. /\ DOMAIN mandates' = rest \cup {b}
      /\ \A c \in DOMAIN mandates' : mandates'[c] = IF c = b THEN m ELSE mandates[c]
  BY DEF b
<1>6. mandates' \in [DOMAIN mandates' -> MandateType]
      /\ DOMAIN mandates' \subseteq MandateAddresses
  <2>1. \A c \in DOMAIN mandates' : mandates'[c] \in MandateType /\ c \in MandateAddresses
    BY <1>1, <1>2, <1>5
  <2> QED BY <1>5, <2>1 DEF b
<1>7. TypeOK'
  BY <1>1, <1>2, <1>3, <1>6 DEF TypeOK, b
<1>8. EveryMandateLoads'
  BY <1>4, <1>5, LoadsEvery DEF AccountInv, EveryMandateLoads, Derives, Loads
<1>9. IndexesBelowCounter'
  <2>1. \A c \in opened : c \in MandateAddresses
    BY <1>2 DEF TypeOK
  <2> QED BY <1>1, <1>3, <2>1 DEF AccountInv, IndexesBelowCounter, MandateAddresses, b
<1>10. MandatesWereOpened' /\ LayoutsAgree'
  BY <1>1, <1>5 DEF AccountInv, MandatesWereOpened, LayoutsAgree, b
<1> QED BY <1>7, <1>8, <1>9, <1>10 DEF AccountInv

LEMMA SubscribeStep ==
  ASSUME AccountInv, NEW s \in Subscribers, NEW p \in DOMAIN plans, Subscribe(s, p)
  PROVE  AccountInv'
<1> DEFINE a == IndexedAddress(s, merchant.mandateCount)
           mint == Resolved(plans[p].mint)
           m == [layout |-> "V2", subscriber |-> s, plan |-> p, billingType |-> p.type,
                 index |-> merchant.mandateCount, grown |-> TRUE,
                 status |-> "Active", used |-> FALSE]
<1>1. TypeOK /\ p \in PlanAddresses /\ p.type \in {"Flat", "Usage"}
      /\ merchant.mandateCount \in Nat
      /\ credentials \in [Subscribers -> [Mints -> Nat]]
  BY PlanFacts DEF AccountInv, TypeOK, MerchantType
<1>2. m \in MandateType
  BY <1>1 DEF MandateType
<1>3. mint \in Mints
  BY <1>1, ResolvedIsMint
<1>4. /\ credentials' = [credentials EXCEPT ![s][mint] = @ + 1]
      /\ mandates' = [b \in DOMAIN mandates \cup {a} |-> IF b = a THEN m ELSE mandates[b]]
      /\ merchant' = [merchant EXCEPT !.mandateCount = merchant.mandateCount + 1]
      /\ opened' = opened \cup {a}
      /\ UNCHANGED <<plans, lapsed, burnt>>
  BY DEF Subscribe
<1>5. credentials' \in [Subscribers -> [Mints -> Nat]]
  <2> HIDE DEF mint, m, a
  <2> QED BY <1>1, <1>3, <1>4
<1>6. m.layout = "V2" /\ m.subscriber = s /\ m.index = merchant.mandateCount
      /\ m.plan \in DOMAIN plans /\ m.billingType = m.plan.type
  OBVIOUS
<1> HIDE DEF m, mint
<1> QED BY <1>2, <1>4, <1>5, <1>6, MandateAtNextAddress

LEMMA MigrateStep ==
  ASSUME AccountInv, NEW a \in DOMAIN mandates, MigrateMandate(a)
  PROVE  AccountInv'
<1> DEFINE s == mandates[a].subscriber
           b == IndexedAddress(s, merchant.mandateCount)
           m == [mandates[a] EXCEPT !.layout = "V2", !.grown = TRUE, !.index = b.index]
<1>1. TypeOK /\ mandates[a] \in MandateType /\ s \in Subscribers
      /\ merchant.mandateCount \in Nat /\ Loads(a, mandates[a])
      /\ credentials \in [Subscribers -> [Mints -> Nat]]
  BY LoadsEvery DEF AccountInv, TypeOK, MerchantType, MandateType
<1>2. b.index = merchant.mandateCount
  BY <1>1, AddressFacts
<1>3. /\ m \in MandateType /\ m.layout = "V2" /\ m.subscriber = s
      /\ m.index = merchant.mandateCount
      /\ m.plan \in DOMAIN plans /\ m.billingType = m.plan.type
  BY <1>1, <1>2 DEF MandateType, Loads
<1>4. /\ mandates' = [c \in (DOMAIN mandates \ {a}) \cup {b} |->
                        IF c = b THEN m ELSE mandates[c]]
      /\ merchant' = [merchant EXCEPT !.mandateCount = merchant.mandateCount + 1]
      /\ opened' = opened \cup {b}
      /\ UNCHANGED <<plans, credentials, lapsed, burnt>>
  BY DEF MigrateMandate, Migrated
<1>5. DOMAIN mandates \ {a} \subseteq DOMAIN mandates
  OBVIOUS
<1> HIDE DEF m, s
<1> QED BY <1>1, <1>3, <1>4, <1>5, MandateAtNextAddress

LEMMA BurnStep ==
  ASSUME AccountInv, NEW s \in Subscribers, NEW mint \in Mints, BurnCredential(s, mint)
  PROVE  AccountInv'
<1>1. /\ credentials \in [Subscribers -> [Mints -> Nat]] /\ burnt \in [Subscribers -> Nat]
      /\ credentials[s][mint] >= 1
      /\ credentials' = [credentials EXCEPT ![s][mint] = @ - 1]
      /\ burnt' = [burnt EXCEPT ![s] = @ + 1]
      /\ UNCHANGED <<merchant, plans, mandates, opened, lapsed>>
  BY DEF AccountInv, TypeOK, BurnCredential
<1>2. credentials' \in [Subscribers -> [Mints -> Nat]] /\ burnt' \in [Subscribers -> Nat]
  BY <1>1
<1>3. TypeOK'
  BY <1>1, <1>2 DEF AccountInv, TypeOK
<1> QED BY <1>1, <1>3 DEF AccountInv, IndexesBelowCounter, MandatesWereOpened,
           LayoutsAgree, EveryMandateLoads, Derives

LEMMA CloseStep ==
  ASSUME AccountInv, NEW a \in DOMAIN mandates, CloseMandate(a)
  PROVE  AccountInv'
<1>1. mandates' = [b \in DOMAIN mandates \ {a} |-> mandates[b]]
      /\ UNCHANGED <<merchant, plans, credentials, opened, lapsed, burnt>>
  BY DEF CloseMandate, history
<1>2. DOMAIN mandates' \subseteq DOMAIN mandates
      /\ \A b \in DOMAIN mandates' : mandates'[b] = mandates[b]
  BY <1>1
<1>3. TypeOK'
  BY <1>1, <1>2 DEF AccountInv, TypeOK
<1>4. EveryMandateLoads'
  BY <1>1, <1>2 DEF AccountInv, EveryMandateLoads, Derives
<1> QED BY <1>1, <1>2, <1>3, <1>4 DEF AccountInv, IndexesBelowCounter, MandatesWereOpened,
                                      LayoutsAgree
------------------------------------------------------------------------------
(* The theorems. *)

\* What an older release leaves satisfies it.
LEMMA AccountsStart == ASSUME Init PROVE AccountInv
<1>1. PICK layout \in OldLayouts :
        merchant = [NoMerchant EXCEPT !.layout = layout,
                      !.planCount = Cardinality({p \in OldPlans : p.type = "Flat"})]
  BY DEF Init
<1>2. IsFiniteSet({p \in OldPlans : p.type = "Flat"})
  BY OldPlansAssumption, FS_Subset
<1>3. Cardinality({p \in OldPlans : p.type = "Flat"}) \in Nat
  BY <1>2, FS_CardinalityType
<1>4. merchant \in MerchantType /\ merchant.mandateCount = 0
  BY <1>1, <1>3, OldPlansAssumption DEF NoMerchant, MerchantType
<1>5. /\ DOMAIN plans = OldPlans /\ OldPlans \subseteq PlanAddresses
      /\ plans \in [DOMAIN plans -> PlanType]
  <2>1. \A p \in OldPlans : [layout |-> "V1", mint |-> MintOf(p)] \in PlanType
    BY DEF PlanType, Mints
  <2> QED BY <2>1, PlanFacts DEF Init
<1>6. PICK held \in SUBSET (Subscribers \X OldPlans) :
        /\ mandates = [a \in {LegacyAddress(h[1], h[2]) : h \in held} |->
                         [layout |-> "V1", subscriber |-> a.subscriber, plan |-> a.plan,
                          billingType |-> a.plan.type, index |-> 0, grown |-> FALSE,
                          status |-> "Active", used |-> FALSE]]
        /\ credentials = [s \in Subscribers |-> [m \in Mints |->
                            IF \E h \in held : s = h[1] /\ m = MintOf(h[2]) THEN 1 ELSE 0]]
        /\ opened = {LegacyAddress(h[1], h[2]) : h \in held}
  BY DEF Init
<1>7. \A a \in opened : /\ a \in MandateAddresses /\ a.layout = "V1"
                        /\ a.subscriber \in Subscribers /\ a.plan \in OldPlans
                        /\ a = LegacyAddress(a.subscriber, a.plan)
  <2>1. ASSUME NEW h \in held
        PROVE  LET a == LegacyAddress(h[1], h[2])
               IN  /\ a \in MandateAddresses /\ a.layout = "V1"
                   /\ a.subscriber = h[1] /\ a.plan = h[2]
                   /\ h[1] \in Subscribers /\ h[2] \in OldPlans
    <3>1. h[1] \in Subscribers /\ h[2] \in OldPlans
      OBVIOUS
    <3> QED BY <3>1, AddressFacts, PlanFacts
  <2> QED BY <1>6, <2>1
<1>8. /\ DOMAIN mandates = opened
      /\ \A a \in opened :
           mandates[a] = [layout |-> "V1", subscriber |-> a.subscriber, plan |-> a.plan,
                          billingType |-> a.plan.type, index |-> 0, grown |-> FALSE,
                          status |-> "Active", used |-> FALSE]
  BY <1>6
<1>9. \A a \in opened : mandates[a] \in MandateType
  <2> TAKE a \in opened
  <2>1. /\ a.subscriber \in Subscribers /\ a.plan \in PlanAddresses
        /\ a.plan.type \in {"Flat", "Usage"}
    BY <1>7, PlanFacts
  <2>2. mandates[a] = [layout |-> "V1", subscriber |-> a.subscriber, plan |-> a.plan,
                       billingType |-> a.plan.type, index |-> 0, grown |-> FALSE,
                       status |-> "Active", used |-> FALSE]
    BY <1>8
  <2> QED BY <2>1, <2>2 DEF MandateType
<1>10. mandates \in [DOMAIN mandates -> MandateType]
  BY <1>6, <1>8, <1>9
<1>11. credentials \in [Subscribers -> [Mints -> Nat]] /\ lapsed \in [Subscribers -> Nat]
       /\ burnt \in [Subscribers -> Nat]
  BY <1>6 DEF Init
<1>12. TypeOK
  BY <1>4, <1>5, <1>7, <1>8, <1>10, <1>11 DEF TypeOK
<1>13. EveryMandateLoads
  BY <1>5, <1>7, <1>8 DEF EveryMandateLoads, Derives
<1>14. IndexesBelowCounter /\ MandatesWereOpened /\ LayoutsAgree
  BY <1>7, <1>8 DEF IndexesBelowCounter, MandatesWereOpened, LayoutsAgree
<1> QED BY <1>12, <1>13, <1>14 DEF AccountInv

LEMMA AccountSteps == ASSUME AccountInv, [Next]_vars PROVE AccountInv'
<1>1. CASE UNCHANGED vars
  BY <1>1 DEF vars, AccountInv, TypeOK, IndexesBelowCounter, MandatesWereOpened,
              LayoutsAgree, EveryMandateLoads, Derives
<1>2. CASE \E a \in DOMAIN mandates :
             \/ Request(a) \/ UpdateMandate(a)
             \/ \E last \in BOOLEAN : ExecutePull(a, last)
             \/ Cancel(a) \/ AdminCancel(a) \/ CloseMandate(a) \/ MigrateMandate(a)
             \/ \E p \in DOMAIN plans : UpdateMandatePlan(a, p)
  BY <1>2, StatusSteps, CloseStep, MigrateStep, PlanChangeStep
<1>3. CASE \/ InitMerchantCredential \/ CreateStreamMandate \/ CreatePlan
           \/ \E id \in UsageIds : CreateUsagePlan(id)
           \/ \E p \in DOMAIN plans : MigratePlan(p) \/ UpdatePlan(p) \/ UpdateUsagePlan(p)
  BY <1>3, MerchantSteps, PlanSteps
<1>4. CASE \E p \in DOMAIN plans, s \in Subscribers : Subscribe(s, p)
  BY <1>4, SubscribeStep
<1>5. CASE \E s \in Subscribers, mint \in Mints : BurnCredential(s, mint)
  BY <1>5, BurnStep
<1> QED BY <1>1, <1>2, <1>3, <1>4, <1>5 DEF Next

\* Every state of every merchant satisfies the invariant.
THEOREM AccountsHold == Spec => []AccountInv
  BY AccountsStart, AccountSteps, PTL DEF Spec

\* Types, for every merchant.
THEOREM AccountTypes == Spec => []TypeOK
  BY AccountsHold, PTL DEF AccountInv

\* Every handler can load every mandate and with it a plan of its kind.
THEOREM MandatesAlwaysLoad == Spec => []EveryMandateLoads
  BY AccountsHold, PTL DEF AccountInv

\* Only subscribe and migrate_mandate open an account, at an address that no
\* mandate ever had.
LEMMA OpensAtNewAddress ==
  ASSUME AccountInv, [Next]_vars
  PROVE  [\A a \in DOMAIN mandates' \ DOMAIN mandates : a \notin opened]_vars
<1>1. ASSUME NEW s \in Subscribers, NEW p \in DOMAIN plans, Subscribe(s, p)
      PROVE  \A a \in DOMAIN mandates' \ DOMAIN mandates : a \notin opened
  <2>1. DOMAIN mandates' = DOMAIN mandates \cup {IndexedAddress(s, merchant.mandateCount)}
    BY <1>1 DEF Subscribe
  <2> QED BY <2>1, NextAddressIsNew
<1>2. ASSUME NEW a \in DOMAIN mandates, MigrateMandate(a)
      PROVE  \A b \in DOMAIN mandates' \ DOMAIN mandates : b \notin opened
  <2>1. mandates[a].subscriber \in Subscribers
    BY DEF AccountInv, TypeOK, MandateType
  <2>2. DOMAIN mandates' = (DOMAIN mandates \ {a})
          \cup {IndexedAddress(mandates[a].subscriber, merchant.mandateCount)}
    BY <1>2 DEF MigrateMandate, Migrated
  <2> QED BY <2>1, <2>2, NextAddressIsNew
<1>3. CASE \/ UNCHANGED vars
           \/ InitMerchantCredential \/ CreateStreamMandate \/ CreatePlan
           \/ \E id \in UsageIds : CreateUsagePlan(id)
           \/ \E p \in DOMAIN plans : MigratePlan(p) \/ UpdatePlan(p) \/ UpdateUsagePlan(p)
           \/ \E s \in Subscribers, mint \in Mints : BurnCredential(s, mint)
  <2>1. mandates' = mandates
    BY <1>3 DEF BurnCredential, vars, InitMerchantCredential, CreateStreamMandate, CreatePlan,
                CreateUsagePlan, MigratePlan, UpdatePlan, UpdateUsagePlan, Rewrite
  <2> QED BY <2>1
<1>4. CASE \E a \in DOMAIN mandates :
             \/ Request(a) \/ UpdateMandate(a)
             \/ \E last \in BOOLEAN : ExecutePull(a, last)
             \/ Cancel(a) \/ AdminCancel(a) \/ CloseMandate(a)
             \/ \E p \in DOMAIN plans : UpdateMandatePlan(a, p)
  <2>1. DOMAIN mandates' \subseteq DOMAIN mandates
    BY <1>4 DEF Request, UpdateMandate, ExecutePull, Cancel, AdminCancel, CancelMandate,
                CloseMandate, UpdateMandatePlan
  <2> QED BY <2>1
<1> QED BY <1>1, <1>2, <1>3, <1>4 DEF Next

\* No address is used for a second mandate, whatever the merchant account's
\* layout was and however often mandates are closed and migrated.
THEOREM AddressesUsedOnce == Spec => NoAddressTwice
  BY AccountsHold, OpensAtNewAddress, PTL DEF Spec, NoAddressTwice
------------------------------------------------------------------------------
(* Credentials.  Minting, burning, expiry and migration change what one     *)
(* subscriber holds and which of its mandates are active; the two sides of  *)
(* CredentialsAccounted change by the same amount, for that subscriber only.*)

\* The count is of a finite set, and nobody has a credential of the merchant's
\* mint, and no plan names it, before there is one.
ActiveAreFinite == \A s \in Subscribers : IsFiniteSet(ActiveOf(s))
NoMintYet ==
  merchant.mint = NoMint =>
    /\ \A s \in Subscribers : credentials[s][MerchantMint] = 0
    /\ \A p \in DOMAIN plans : plans[p].mint # MerchantMint

CredentialInv ==
  /\ ActiveAreFinite
  /\ NoMintYet
  /\ CredentialsAccounted

\* There are finitely many mints: the merchant's and one for each old plan.
LEMMA MintsAreFinite == IsFiniteSet(Mints)
<1> DEFINE OldMints == {MintOf(p) : p \in OldPlans}
           mintOf   == [p \in OldPlans |-> MintOf(p)]
<1>1. mintOf \in Surjection(OldPlans, OldMints)
  <2>1. mintOf \in [OldPlans -> OldMints]
    OBVIOUS
  <2>2. \A m \in OldMints : \E p \in OldPlans : mintOf[p] = m
    OBVIOUS
  <2> HIDE DEF mintOf, OldMints
  <2> QED BY <2>1, <2>2 DEF Surjection
<1>2. IsFiniteSet(OldMints)
  <2> HIDE DEF mintOf, OldMints
  <2> QED BY <1>1, FS_Surjection, OldPlansAssumption
<1>3. IsFiniteSet(OldMints \cup {MerchantMint})
  <2> HIDE DEF OldMints
  <2> QED BY <1>2, FS_AddElement
<1>4. Mints = OldMints \cup {MerchantMint}
  BY DEF Mints
<1> QED BY <1>3, <1>4

\* What a subscriber holds can be counted.
LEMMA CredentialsCount ==
  ASSUME TypeOK, NEW s \in Subscribers
  PROVE  Counts(credentials[s], Mints) /\ Held(s) \in Nat
<1>1. Counts(credentials[s], Mints)
  BY MintsAreFinite DEF TypeOK, Counts
<1> QED BY <1>1, TotalIsFinite DEF Held

\* A credential more or less of one mint.
LEMMA OneCredential ==
  ASSUME TypeOK, TypeOK', NEW s \in Subscribers, NEW mint \in Mints, NEW n \in Int,
         credentials'[s][mint] = credentials[s][mint] + n,
         \A m \in Mints : m # mint => credentials'[s][m] = credentials[s][m],
         \A t \in Subscribers : t # s => credentials'[t] = credentials[t]
  PROVE  /\ Held(s)' = Held(s) + n
         /\ \A t \in Subscribers : t # s => Held(t)' = Held(t)
<1>1. Counts(credentials[s], Mints) /\ Counts(credentials'[s], Mints)
  BY MintsAreFinite DEF TypeOK, Counts
<1>2. Total(credentials'[s], Mints) = Total(credentials[s], Mints) + n
  BY <1>1, TotalChangesBy
<1> QED BY <1>2 DEF Held

\* A step that leaves the credentials of everybody accounted for if it does so
\* for the one subscriber it is about.
LEMMA OneSubscriber ==
  ASSUME CredentialInv, NoMintYet', NEW s \in Subscribers,
         IsFiniteSet(ActiveOf(s)'),
         Held(s)' + burnt'[s] = Cardinality(ActiveOf(s)') + lapsed'[s],
         \A t \in Subscribers :
           t # s => /\ ActiveOf(t)' = ActiveOf(t) /\ Held(t)' = Held(t)
                    /\ lapsed'[t] = lapsed[t] /\ burnt'[t] = burnt[t]
  PROVE  CredentialInv'
  BY DEF CredentialInv, ActiveAreFinite, CredentialsAccounted

\* A step of one mandate that stays active, or was not active.
LEMMA SameActive ==
  ASSUME NEW a \in DOMAIN mandates, NEW m,
         mandates' = [mandates EXCEPT ![a] = m],
         m.subscriber = mandates[a].subscriber, m.status = mandates[a].status
  PROVE  \A s \in Subscribers : ActiveOf(s)' = ActiveOf(s)
<1>1. /\ DOMAIN mandates' = DOMAIN mandates
      /\ \A b \in DOMAIN mandates : mandates'[b].subscriber = mandates[b].subscriber
                                    /\ mandates'[b].status = mandates[b].status
  <2>1. DOMAIN mandates' = DOMAIN mandates
    OBVIOUS
  <2> QED BY <2>1
<1> QED BY <1>1 DEF ActiveOf

\* A step of one mandate that ends it.
LEMMA OneActiveLess ==
  ASSUME NEW a \in DOMAIN mandates, NEW m, mandates[a].status = "Active",
         mandates' = [mandates EXCEPT ![a] = m],
         m.subscriber = mandates[a].subscriber, m.status # "Active",
         NEW s \in Subscribers, s = mandates[a].subscriber, IsFiniteSet(ActiveOf(s))
  PROVE  /\ IsFiniteSet(ActiveOf(s)')
         /\ Cardinality(ActiveOf(s)') = Cardinality(ActiveOf(s)) - 1
         /\ Cardinality(ActiveOf(s)) \in Nat
         /\ \A t \in Subscribers : t # s => ActiveOf(t)' = ActiveOf(t)
<1>1. DOMAIN mandates' = DOMAIN mandates
      /\ \A b \in DOMAIN mandates : mandates'[b] = IF b = a THEN m ELSE mandates[b]
  OBVIOUS
<1>2. a \in ActiveOf(s) /\ ActiveOf(s)' = ActiveOf(s) \ {a}
  BY <1>1 DEF ActiveOf
<1>3. \A t \in Subscribers : t # s => ActiveOf(t)' = ActiveOf(t)
  BY <1>1 DEF ActiveOf
<1> QED BY <1>2, <1>3, FS_RemoveElement, FS_CardinalityType

\* What an older release leaves: one credential for each mandate, of the mint
\* of its plan.
LEMMA CredentialsStart == ASSUME Init PROVE CredentialInv
<1>1. PICK held \in SUBSET (Subscribers \X OldPlans) :
        /\ mandates = [a \in {LegacyAddress(h[1], h[2]) : h \in held} |->
                         [layout |-> "V1", subscriber |-> a.subscriber, plan |-> a.plan,
                          billingType |-> a.plan.type, index |-> 0, grown |-> FALSE,
                          status |-> "Active", used |-> FALSE]]
        /\ credentials = [s \in Subscribers |-> [m \in Mints |->
                            IF \E h \in held : s = h[1] /\ m = MintOf(h[2]) THEN 1 ELSE 0]]
  BY DEF Init
<1>2. \A h \in held : h[1] \in Subscribers /\ h[2] \in OldPlans /\ h = <<h[1], h[2]>>
  OBVIOUS
<1>3. \A p, q : MintOf(p) = MintOf(q) => p = q
  BY DEF MintOf
<1>4. \A p : MintOf(p) # MerchantMint
  BY DEF MintOf, MerchantMint
<1>5. ASSUME NEW s \in Subscribers
      PROVE  IsFiniteSet(ActiveOf(s)) /\ Held(s) = Cardinality(ActiveOf(s))
  <2> DEFINE Old      == {p \in OldPlans : <<s, p>> \in held}
             mandate  == [p \in Old |-> LegacyAddress(s, p)]
             creds    == [p \in Old |-> <<MintOf(p), 1>>]
             Creds    == Points(credentials[s], Mints)
  <2>1. IsFiniteSet(Old)
    BY OldPlansAssumption, FS_Subset
  <2>2. \A a : a \in ActiveOf(s) <=> \E p \in Old : a = LegacyAddress(s, p)
    <3>1. \A a \in DOMAIN mandates : mandates[a].subscriber = a.subscriber
                                     /\ mandates[a].status = "Active"
      BY <1>1
    <3>2. \A a : a \in ActiveOf(s) <=> a \in DOMAIN mandates /\ a.subscriber = s
      BY <3>1 DEF ActiveOf
    <3>3. \A a : a \in DOMAIN mandates <=> \E h \in held : a = LegacyAddress(h[1], h[2])
      BY <1>1
    <3>4. \A h \in held : LegacyAddress(h[1], h[2]).subscriber = h[1]
      BY <1>2 DEF LegacyAddress
    <3>5. \A a : a \in ActiveOf(s) <=> \E h \in held : h[1] = s /\ a = LegacyAddress(h[1], h[2])
      BY <3>2, <3>3, <3>4
    <3>6. \A h \in held : h[1] = s => h[2] \in Old
      BY <1>2
    <3>7. \A p \in Old : <<s, p>> \in held /\ <<s, p>>[1] = s /\ <<s, p>>[2] = p
      OBVIOUS
    <3>8. ASSUME NEW a, a \in ActiveOf(s) PROVE \E p \in Old : a = LegacyAddress(s, p)
      <4>1. PICK h \in held : h[1] = s /\ a = LegacyAddress(h[1], h[2])
        BY <3>5, <3>8
      <4> HIDE DEF Old
      <4> QED BY <3>6, <4>1
    <3>9. ASSUME NEW p \in Old PROVE LegacyAddress(s, p) \in ActiveOf(s)
      BY <3>5, <3>7
    <3> HIDE DEF Old
    <3> QED BY <3>8, <3>9
  <2>3. mandate \in Bijection(Old, ActiveOf(s))
    <3>1. mandate \in [Old -> ActiveOf(s)]
      BY <2>2
    <3>2. \A a \in ActiveOf(s) : \E p \in Old : mandate[p] = a
      BY <2>2
    <3>3. \A p, q \in Old : mandate[p] = mandate[q] => p = q
      BY DEF LegacyAddress
    <3> HIDE DEF mandate, Old
    <3> QED BY <3>1, <3>2, <3>3 DEF Bijection, Injection, Surjection, IsInjective
  <2>4. \A c : c \in Creds <=> \E p \in Old : c = <<MintOf(p), 1>>
    <3>1. \A m \in Mints : credentials[s][m]
                           = IF \E h \in held : s = h[1] /\ m = MintOf(h[2]) THEN 1 ELSE 0
      BY <1>1
    <3>2. \A m \in Mints : credentials[s][m] \in {0, 1}
      BY <3>1
    <3>3. \A m \in Mints : credentials[s][m] = 1 <=> \E p \in Old : m = MintOf(p)
      <4>1. \A m \in Mints : credentials[s][m] = 1 <=> \E h \in held : s = h[1] /\ m = MintOf(h[2])
        BY <3>1
      <4>2. \A h \in held : h[1] = s => h[2] \in Old
        BY <1>2
      <4>3. \A p \in Old : <<s, p>> \in held /\ <<s, p>>[1] = s /\ <<s, p>>[2] = p
        OBVIOUS
      <4> HIDE DEF Old
      <4> QED BY <4>1, <4>2, <4>3
    <3>4. \A c : c \in Creds <=> \E m \in Mints : credentials[s][m] = 1 /\ c = <<m, 1>>
      <4>1. \A c : c \in Creds <=> \E m \in Mints : \E i \in 1 .. credentials[s][m] : c = <<m, i>>
        BY PointsAbove
      <4>2. \A n \in {0, 1} : \A i : i \in 1 .. n <=> n = 1 /\ i = 1
        OBVIOUS
      <4>3. \A m \in Mints : \A i : i \in 1 .. credentials[s][m] <=> credentials[s][m] = 1 /\ i = 1
        BY <3>2, <4>2
      <4> HIDE DEF Creds
      <4> QED BY <4>1, <4>3
    <3>5. \A p \in Old : MintOf(p) \in Mints
      BY DEF Mints
    <3> HIDE DEF Creds, Old
    <3> QED BY <3>3, <3>4, <3>5
  <2>5. creds \in Bijection(Old, Creds)
    <3>1. creds \in [Old -> Creds]
      <4> HIDE DEF Creds, Old
      <4> QED BY <2>4
    <3>2. \A c \in Creds : \E p \in Old : creds[p] = c
      <4> HIDE DEF Creds, Old
      <4> QED BY <2>4
    <3>3. \A p, q \in Old : creds[p] = creds[q] => p = q
      BY <1>3
    <3> HIDE DEF creds, Creds, Old
    <3> QED BY <3>1, <3>2, <3>3 DEF Bijection, Injection, Surjection, IsInjective
  <2> HIDE DEF mandate, creds, Creds, Old
  <2>6. ExistsBijection(Old, ActiveOf(s)) /\ ExistsBijection(Old, Creds)
    BY <2>3, <2>5 DEF ExistsBijection
  <2>7. /\ IsFiniteSet(ActiveOf(s)) /\ Cardinality(ActiveOf(s)) = Cardinality(Old)
        /\ Cardinality(Creds) = Cardinality(Old)
    BY <2>1, <2>6, FS_Bijection
  <2> QED BY <2>7 DEF Held, Total, Creds
<1>6. ActiveAreFinite /\ CredentialsAccounted
  <2>1. \A s \in Subscribers : lapsed[s] = 0 /\ burnt[s] = 0
    BY DEF Init
  <2>2. \A s \in Subscribers : Cardinality(ActiveOf(s)) \in Nat
    BY <1>5, FS_CardinalityType
  <2> QED BY <1>5, <2>1, <2>2 DEF ActiveAreFinite, CredentialsAccounted
<1>7. NoMintYet
  <2>1. \A s \in Subscribers : credentials[s][MerchantMint] = 0
    BY <1>1, <1>4, MintFacts
  <2>2. \A p \in DOMAIN plans : plans[p].mint # MerchantMint
    BY <1>4 DEF Init
  <2> QED BY <2>1, <2>2 DEF NoMintYet
<1> QED BY <1>6, <1>7 DEF CredentialInv

\* There is a mint of the merchant's own from the step that creates it on.
LEMMA NoMintYetKept ==
  ASSUME AccountInv, AccountInv', NoMintYet, [Next]_vars PROVE NoMintYet'
<1> SUFFICES ASSUME merchant'.mint = NoMint
             PROVE  /\ \A s \in Subscribers : credentials'[s][MerchantMint] = 0
                    /\ \A p \in DOMAIN plans' : plans'[p].mint # MerchantMint
  BY DEF NoMintYet
<1>1. TypeOK /\ TypeOK'
  BY DEF AccountInv
<1>2. merchant.mint = NoMint
  <2>1. CASE InitMerchantCredential
    BY <1>1, <2>1, EnsuredFacts, MintFacts DEF InitMerchantCredential, MerchantType
  <2>2. CASE CreatePlan \/ \E id \in UsageIds : CreateUsagePlan(id)
    BY <1>1, <2>2, EnsuredFacts DEF CreatePlan, CreateUsagePlan, MerchantType
  <2>3. CASE CreateStreamMandate
    BY <1>1, <2>3 DEF CreateStreamMandate, TypeOK, MerchantType
  <2>4. CASE \/ \E s \in Subscribers, p \in DOMAIN plans : Subscribe(s, p)
             \/ \E a \in DOMAIN mandates : MigrateMandate(a)
    BY <1>1, <2>4 DEF Subscribe, MigrateMandate, TypeOK, MerchantType
  <2>5. CASE \/ UNCHANGED vars
             \/ \E s \in Subscribers, m \in Mints : BurnCredential(s, m)
             \/ \E p \in DOMAIN plans : MigratePlan(p) \/ UpdatePlan(p) \/ UpdateUsagePlan(p)
             \/ \E a \in DOMAIN mandates :
                  \/ Request(a) \/ UpdateMandate(a)
                  \/ \E last \in BOOLEAN : ExecutePull(a, last)
                  \/ Cancel(a) \/ AdminCancel(a) \/ CloseMandate(a)
                  \/ \E p \in DOMAIN plans : UpdateMandatePlan(a, p)
    BY <2>5 DEF BurnCredential, vars, MigratePlan, UpdatePlan, UpdateUsagePlan, Rewrite, Request,
       UpdateMandate, ExecutePull, Cancel, AdminCancel, CancelMandate, CloseMandate,
       UpdateMandatePlan
  <2> QED BY <2>1, <2>2, <2>3, <2>4, <2>5 DEF Next
<1>3. /\ \A s \in Subscribers : credentials[s][MerchantMint] = 0
      /\ \A p \in DOMAIN plans : plans[p].mint # MerchantMint
  BY <1>2 DEF NoMintYet
<1>4. ASSUME NEW p \in DOMAIN plans
      PROVE  Resolved(plans[p].mint) \in Mints \ {MerchantMint}
  BY <1>1, <1>2, <1>3, <1>4, ResolvedIsMint DEF Resolved
<1>5. \A s \in Subscribers : credentials'[s][MerchantMint] = 0
  <2>1. CASE \E s \in Subscribers, p \in DOMAIN plans : Subscribe(s, p)
    <3>1. PICK s \in Subscribers, p \in DOMAIN plans : Subscribe(s, p) BY <2>1
    <3> DEFINE mint == Resolved(plans[p].mint)
    <3>2. mint \in Mints \ {MerchantMint}
      BY <1>4
    <3>3. credentials' = [credentials EXCEPT ![s][mint] = @ + 1]
      BY <3>1 DEF Subscribe
    <3> HIDE DEF mint
    <3> QED BY <1>1, <1>3, <3>2, <3>3, MintFacts DEF TypeOK
  <2>2. CASE \E a \in DOMAIN mandates : Cancel(a) \/ AdminCancel(a)
    <3>1. PICK a \in DOMAIN mandates : CancelMandate(a)
      BY <2>2 DEF Cancel, AdminCancel
    <3> DEFINE mint == Resolved(plans[mandates[a].plan].mint)
               s    == mandates[a].subscriber
    <3>2. s \in Subscribers /\ mint \in Mints \ {MerchantMint}
      BY <1>1, <1>4 DEF AccountInv, EveryMandateLoads, TypeOK, MandateType
    <3>3. credentials' = [credentials EXCEPT ![s][mint] = @ - 1]
      BY <3>1 DEF CancelMandate
    <3> HIDE DEF mint, s
    <3> QED BY <1>1, <1>3, <3>2, <3>3, MintFacts DEF TypeOK
  <2>5. CASE \E s \in Subscribers, mint \in Mints : BurnCredential(s, mint)
    <3>1. PICK s \in Subscribers, mint \in Mints : BurnCredential(s, mint) BY <2>5
    <3>2. /\ credentials[s][mint] >= 1
          /\ credentials' = [credentials EXCEPT ![s][mint] = @ - 1]
      BY <3>1 DEF BurnCredential
    <3>3. mint # MerchantMint
      BY <1>3, <3>2
    <3> QED BY <1>1, <1>3, <3>2, <3>3, MintFacts DEF TypeOK
  <2>3. ASSUME credentials' = credentials
        PROVE  \A s \in Subscribers : credentials'[s][MerchantMint] = 0
    BY <1>3, <2>3
  <2>4. CASE \/ UNCHANGED vars
             \/ InitMerchantCredential \/ CreateStreamMandate \/ CreatePlan
             \/ \E id \in UsageIds : CreateUsagePlan(id)
             \/ \E p \in DOMAIN plans : MigratePlan(p) \/ UpdatePlan(p) \/ UpdateUsagePlan(p)
             \/ \E a \in DOMAIN mandates :
                  \/ Request(a) \/ UpdateMandate(a)
                  \/ \E last \in BOOLEAN : ExecutePull(a, last)
                  \/ CloseMandate(a) \/ MigrateMandate(a)
                  \/ \E p \in DOMAIN plans : UpdateMandatePlan(a, p)
    BY <2>3, <2>4 DEF vars, InitMerchantCredential, CreateStreamMandate, CreatePlan,
       CreateUsagePlan, MigratePlan, UpdatePlan, UpdateUsagePlan, Rewrite, Request,
       UpdateMandate, ExecutePull, CloseMandate, MigrateMandate, UpdateMandatePlan
  <2> QED BY <2>1, <2>2, <2>4, <2>5 DEF Next
<1>6. \A p \in DOMAIN plans' : plans'[p].mint # MerchantMint
  <2>1. CASE CreatePlan \/ \E id \in UsageIds : CreateUsagePlan(id)
    BY <1>2, <2>1 DEF CreatePlan, CreateUsagePlan
  <2>2. CASE \E p \in DOMAIN plans : MigratePlan(p) \/ UpdatePlan(p) \/ UpdateUsagePlan(p)
    <3>1. PICK p \in DOMAIN plans : plans' = [plans EXCEPT ![p] = InCurrentLayout(plans[p])]
      BY <2>2 DEF MigratePlan, UpdatePlan, UpdateUsagePlan, Rewrite
    <3>2. plans[p] \in PlanType
      BY <1>1 DEF TypeOK
    <3>3. InCurrentLayout(plans[p]).mint = plans[p].mint
      BY <3>2 DEF InCurrentLayout, PlanType
    <3> QED BY <1>3, <3>1, <3>3
  <2>3. ASSUME plans' = plans PROVE \A p \in DOMAIN plans' : plans'[p].mint # MerchantMint
    BY <1>3, <2>3
  <2>4. CASE \/ UNCHANGED vars
             \/ InitMerchantCredential \/ CreateStreamMandate
             \/ \E s \in Subscribers, m \in Mints : BurnCredential(s, m)
             \/ \E p \in DOMAIN plans, s \in Subscribers : Subscribe(s, p)
             \/ \E a \in DOMAIN mandates :
                  \/ Request(a) \/ UpdateMandate(a)
                  \/ \E last \in BOOLEAN : ExecutePull(a, last)
                  \/ Cancel(a) \/ AdminCancel(a) \/ CloseMandate(a) \/ MigrateMandate(a)
                  \/ \E p \in DOMAIN plans : UpdateMandatePlan(a, p)
    BY <2>3, <2>4 DEF BurnCredential, vars, InitMerchantCredential, CreateStreamMandate, Subscribe,
       Request, UpdateMandate, ExecutePull, Cancel, AdminCancel, CancelMandate,
       CloseMandate, MigrateMandate, UpdateMandatePlan
  <2> QED BY <2>1, <2>2, <2>4 DEF Next
<1> QED BY <1>5, <1>6

\* subscribe mints one credential, whatever mint resolves, for the mandate it
\* opens at an address no mandate is at.
LEMMA SubscribeAccounted ==
  ASSUME AccountInv, AccountInv', CredentialInv, NoMintYet',
         NEW s \in Subscribers, NEW p \in DOMAIN plans, Subscribe(s, p)
  PROVE  CredentialInv'
<1>0. TypeOK /\ TypeOK'
  BY DEF AccountInv
<1>1. PICK mint \in Mints : mint = Resolved(plans[p].mint)
  BY <1>0, ResolvedIsMint
<1>2. PICK a, m : /\ m.subscriber = s /\ m.status = "Active"
      /\ a \notin DOMAIN mandates
      /\ mandates' = [b \in DOMAIN mandates \cup {a} |-> IF b = a THEN m ELSE mandates[b]]
      /\ credentials' = [credentials EXCEPT ![s][mint] = credentials[s][mint] + 1]
      /\ lapsed' = lapsed /\ burnt' = burnt
  BY <1>1 DEF Subscribe
<1>4. credentials[s][mint] \in Nat
  BY <1>0 DEF TypeOK
<1>3. /\ credentials'[s][mint] = credentials[s][mint] + 1
      /\ \A n \in Mints : n # mint => credentials'[s][n] = credentials[s][n]
      /\ \A t \in Subscribers : t # s => credentials'[t] = credentials[t]
  BY <1>0, <1>2 DEF TypeOK
<1>5. Held(s)' = Held(s) + 1 /\ \A t \in Subscribers : t # s => Held(t)' = Held(t)
  BY <1>0, <1>3, OneCredential
<1>6. ActiveOf(s)' = ActiveOf(s) \cup {a} /\ a \notin ActiveOf(s)
      /\ \A t \in Subscribers : t # s => ActiveOf(t)' = ActiveOf(t)
  <2>1. /\ DOMAIN mandates' = DOMAIN mandates \cup {a}
        /\ mandates'[a] = m
        /\ \A b \in DOMAIN mandates : mandates'[b] = mandates[b]
    BY <1>2
  <2> QED BY <1>2, <2>1 DEF ActiveOf
<1>7. IsFiniteSet(ActiveOf(s)')
      /\ Cardinality(ActiveOf(s)') = Cardinality(ActiveOf(s)) + 1
      /\ Cardinality(ActiveOf(s)) \in Nat
  BY <1>6, FS_AddElement, FS_CardinalityType DEF CredentialInv, ActiveAreFinite
<1>8. Held(s)' + burnt'[s] = Cardinality(ActiveOf(s)') + lapsed'[s]
  <2>1. Held(s) + burnt[s] = Cardinality(ActiveOf(s)) + lapsed[s] /\ lapsed[s] \in Nat
        /\ burnt[s] \in Nat /\ Held(s) \in Nat
    BY <1>0, CredentialsCount DEF CredentialInv, CredentialsAccounted, TypeOK
  <2> QED BY <1>2, <1>5, <1>7, <2>1
<1> QED BY <1>2, <1>5, <1>6, <1>7, <1>8, OneSubscriber

\* A cancellation burns one credential for the mandate it ends.
LEMMA CancelAccounted ==
  ASSUME AccountInv, AccountInv', CredentialInv, NoMintYet',
         NEW a \in DOMAIN mandates, CancelMandate(a)
  PROVE  CredentialInv'
<1>0. TypeOK /\ TypeOK' /\ mandates[a] \in MandateType
      /\ mandates[a].subscriber \in Subscribers
      /\ Resolved(plans[mandates[a].plan].mint) \in Mints
  BY ResolvedIsMint DEF AccountInv, EveryMandateLoads, TypeOK, MandateType
<1>1. PICK s \in Subscribers, mint \in Mints, m \in MandateType :
        /\ s = mandates[a].subscriber
        /\ mint = Resolved(plans[mandates[a].plan].mint)
        /\ m = [mandates[a] EXCEPT !.status = "Cancelled"]
  BY <1>0 DEF MandateType
<1>2. /\ mandates[a].status = "Active"
      /\ credentials[s][mint] >= 1
      /\ credentials' = [credentials EXCEPT ![s][mint] = @ - 1]
      /\ mandates' = [mandates EXCEPT ![a] = m]
      /\ lapsed' = lapsed /\ burnt' = burnt
  BY <1>1 DEF CancelMandate, history
<1>3. m.subscriber = mandates[a].subscriber /\ m.status # "Active"
  BY <1>0, <1>1 DEF MandateType
<1>5. credentials[s][mint] \in Nat
  BY <1>0 DEF TypeOK
<1>6. /\ credentials'[s][mint] = credentials[s][mint] + (-1)
      /\ \A n \in Mints : n # mint => credentials'[s][n] = credentials[s][n]
      /\ \A t \in Subscribers : t # s => credentials'[t] = credentials[t]
  BY <1>0, <1>2, <1>5 DEF TypeOK
<1>7. Held(s)' = Held(s) + (-1) /\ \A t \in Subscribers : t # s => Held(t)' = Held(t)
  BY <1>0, <1>6, OneCredential
<1>8. /\ IsFiniteSet(ActiveOf(s)')
      /\ Cardinality(ActiveOf(s)') = Cardinality(ActiveOf(s)) - 1
      /\ Cardinality(ActiveOf(s)) \in Nat
      /\ \A t \in Subscribers : t # s => ActiveOf(t)' = ActiveOf(t)
  BY <1>1, <1>2, <1>3, OneActiveLess DEF CredentialInv, ActiveAreFinite
<1>9. Held(s)' + burnt'[s] = Cardinality(ActiveOf(s)') + lapsed'[s]
  <2>1. Held(s) + burnt[s] = Cardinality(ActiveOf(s)) + lapsed[s] /\ lapsed[s] \in Nat
        /\ burnt[s] \in Nat /\ Held(s) \in Nat
    BY <1>0, CredentialsCount DEF CredentialInv, CredentialsAccounted, TypeOK
  <2> QED BY <1>2, <1>7, <1>8, <2>1
<1> QED BY <1>1, <1>2, <1>7, <1>8, <1>9, OneSubscriber

\* A credential its holder burns moves from what is held to what was burnt.
LEMMA BurnAccounted ==
  ASSUME AccountInv, AccountInv', CredentialInv, NoMintYet',
         NEW s \in Subscribers, NEW mint \in Mints, BurnCredential(s, mint)
  PROVE  CredentialInv'
<1>0. TypeOK /\ TypeOK'
  BY DEF AccountInv
<1>1. /\ credentials' = [credentials EXCEPT ![s][mint] = @ - 1]
      /\ burnt' = [burnt EXCEPT ![s] = @ + 1]
      /\ mandates' = mandates /\ lapsed' = lapsed
  BY DEF BurnCredential
<1>2. credentials[s][mint] \in Nat
  BY <1>0 DEF TypeOK
<1>3. /\ credentials'[s][mint] = credentials[s][mint] + (-1)
      /\ \A n \in Mints : n # mint => credentials'[s][n] = credentials[s][n]
      /\ \A t \in Subscribers : t # s => credentials'[t] = credentials[t]
  BY <1>0, <1>1, <1>2 DEF TypeOK
<1>4. Held(s)' = Held(s) + (-1) /\ \A t \in Subscribers : t # s => Held(t)' = Held(t)
  BY <1>0, <1>3, OneCredential
<1>5. \A t \in Subscribers : ActiveOf(t)' = ActiveOf(t)
  BY <1>1 DEF ActiveOf
<1>6. /\ burnt'[s] = burnt[s] + 1 /\ burnt[s] \in Nat
      /\ \A t \in Subscribers : t # s => burnt'[t] = burnt[t]
  BY <1>0, <1>1 DEF TypeOK
<1>7. IsFiniteSet(ActiveOf(s)')
  BY <1>5 DEF CredentialInv, ActiveAreFinite
<1>8. Held(s)' + burnt'[s] = Cardinality(ActiveOf(s)') + lapsed'[s]
  <2>1. Held(s) + burnt[s] = Cardinality(ActiveOf(s)) + lapsed[s] /\ Held(s) \in Nat
    BY <1>0, CredentialsCount DEF CredentialInv, CredentialsAccounted
  <2> QED BY <1>1, <1>4, <1>5, <1>6, <2>1
<1> QED BY <1>1, <1>4, <1>5, <1>6, <1>7, <1>8, OneSubscriber

\* The last pull of a mandate burns nothing: its credential is one of the
\* lapsed from then on.
LEMMA PullAccounted ==
  ASSUME AccountInv, AccountInv', CredentialInv, NoMintYet',
         NEW a \in DOMAIN mandates, NEW last \in BOOLEAN, ExecutePull(a, last)
  PROVE  CredentialInv'
<1>0. TypeOK /\ mandates[a].subscriber \in Subscribers /\ mandates[a] \in MandateType
  BY DEF AccountInv, TypeOK, MandateType
<1>1. PICK s \in Subscribers, m \in MandateType :
        /\ s = mandates[a].subscriber
        /\ m = [mandates[a] EXCEPT !.status = IF last THEN "Expired" ELSE "Active"]
  BY <1>0 DEF MandateType
<1>2. /\ mandates[a].status = "Active"
      /\ mandates' = [mandates EXCEPT ![a] = m]
      /\ lapsed' = IF last THEN [lapsed EXCEPT ![s] = @ + 1] ELSE lapsed
      /\ credentials' = credentials /\ burnt' = burnt
  BY <1>1 DEF ExecutePull
<1>3. m.subscriber = mandates[a].subscriber
      /\ m.status = IF last THEN "Expired" ELSE "Active"
  BY <1>0, <1>1 DEF MandateType
<1>5. \A t \in Subscribers : Held(t)' = Held(t)
  BY <1>2 DEF Held
<1>6. CASE last = TRUE
  <2>1. /\ IsFiniteSet(ActiveOf(s)')
        /\ Cardinality(ActiveOf(s)') = Cardinality(ActiveOf(s)) - 1
        /\ Cardinality(ActiveOf(s)) \in Nat
        /\ \A t \in Subscribers : t # s => ActiveOf(t)' = ActiveOf(t)
    <3>1. m.status # "Active"
      BY <1>3, <1>6
    <3>2. IsFiniteSet(ActiveOf(s))
      BY DEF CredentialInv, ActiveAreFinite
    <3> QED BY <1>1, <1>2, <1>3, <3>1, <3>2, OneActiveLess
  <2>2. lapsed'[s] = lapsed[s] + 1 /\ \A t \in Subscribers : t # s => lapsed'[t] = lapsed[t]
    BY <1>0, <1>2, <1>6 DEF TypeOK
  <2>3. Held(s) + burnt[s] = Cardinality(ActiveOf(s)) + lapsed[s] /\ lapsed[s] \in Nat
        /\ burnt[s] \in Nat /\ Held(s) \in Nat
    BY <1>0, CredentialsCount DEF CredentialInv, CredentialsAccounted, TypeOK
  <2>4. Held(s)' + burnt'[s] = Cardinality(ActiveOf(s)') + lapsed'[s]
    BY <1>2, <1>5, <2>1, <2>2, <2>3
  <2> QED BY <1>2, <1>5, <2>1, <2>2, <2>4, OneSubscriber
<1>7. CASE last = FALSE
  <2>1. \A t \in Subscribers : ActiveOf(t)' = ActiveOf(t)
    BY <1>2, <1>3, <1>7, SameActive
  <2> QED BY <1>2, <1>5, <1>7, <2>1
         DEF CredentialInv, ActiveAreFinite, CredentialsAccounted
<1> QED BY <1>6, <1>7

\* A migrated mandate is active at its new address if it was at the old one,
\* and its credential stays.
LEMMA MigrationAccounted ==
  ASSUME AccountInv, AccountInv', CredentialInv, NoMintYet',
         NEW a \in DOMAIN mandates, MigrateMandate(a)
  PROVE  CredentialInv'
<1>0. TypeOK /\ mandates[a].subscriber \in Subscribers /\ mandates[a] \in MandateType
  BY DEF AccountInv, TypeOK, MandateType
<1>1. PICK s \in Subscribers, b \in MandateAddresses, m \in MandateType :
        /\ s = mandates[a].subscriber
        /\ b = IndexedAddress(s, merchant.mandateCount)
        /\ m = [mandates[a] EXCEPT !.layout = "V2", !.grown = TRUE, !.index = b.index]
  <2>1. merchant.mandateCount \in Nat
    BY <1>0 DEF TypeOK, MerchantType
  <2>2. IndexedAddress(mandates[a].subscriber, merchant.mandateCount) \in MandateAddresses
    BY <1>0, <2>1, AddressFacts
  <2>3. \A b \in MandateAddresses :
          [mandates[a] EXCEPT !.layout = "V2", !.grown = TRUE, !.index = b.index] \in MandateType
    BY <1>0 DEF MandateType, MandateAddresses
  <2> QED BY <1>0, <2>2, <2>3
<1>2. /\ b \notin DOMAIN mandates
      /\ mandates' = [c \in (DOMAIN mandates \ {a}) \cup {b} |->
                        IF c = b THEN m ELSE mandates[c]]
      /\ credentials' = credentials /\ lapsed' = lapsed /\ burnt' = burnt
  BY <1>1 DEF MigrateMandate, Migrated
<1>3. m.subscriber = s /\ m.status = mandates[a].status
  BY <1>0, <1>1 DEF MandateType
<1>5. \A t \in Subscribers : Held(t)' = Held(t)
  BY <1>2 DEF Held
<1>6. /\ DOMAIN mandates' = (DOMAIN mandates \ {a}) \cup {b}
      /\ mandates'[b] = m
      /\ \A c \in DOMAIN mandates \ {a} : mandates'[c] = mandates[c]
  BY <1>2
<1>7. \A t \in Subscribers : t # s => ActiveOf(t)' = ActiveOf(t)
  BY <1>1, <1>2, <1>3, <1>6 DEF ActiveOf
<1>8. ActiveOf(s)' = IF mandates[a].status = "Active" THEN (ActiveOf(s) \ {a}) \cup {b}
                     ELSE ActiveOf(s)
  BY <1>1, <1>2, <1>3, <1>6 DEF ActiveOf
<1>9. IsFiniteSet(ActiveOf(s)) /\ Cardinality(ActiveOf(s)) \in Nat
  BY FS_CardinalityType DEF CredentialInv, ActiveAreFinite
<1>10. IsFiniteSet(ActiveOf(s)') /\ Cardinality(ActiveOf(s)') = Cardinality(ActiveOf(s))
  <2>1. CASE mandates[a].status = "Active"
    <3>1. a \in ActiveOf(s) /\ b \notin ActiveOf(s) \ {a}
      BY <1>1, <1>2, <2>1 DEF ActiveOf
    <3>2. IsFiniteSet(ActiveOf(s) \ {a})
          /\ Cardinality(ActiveOf(s) \ {a}) = Cardinality(ActiveOf(s)) - 1
      BY <1>9, <3>1, FS_RemoveElement
    <3>3. IsFiniteSet((ActiveOf(s) \ {a}) \cup {b})
          /\ Cardinality((ActiveOf(s) \ {a}) \cup {b}) = Cardinality(ActiveOf(s) \ {a}) + 1
      BY <3>1, <3>2, FS_AddElement
    <3> QED BY <1>8, <1>9, <2>1, <3>2, <3>3
  <2>2. CASE mandates[a].status # "Active"
    BY <1>8, <1>9, <2>2
  <2> QED BY <2>1, <2>2
<1>11. Held(s)' + burnt'[s] = Cardinality(ActiveOf(s)') + lapsed'[s]
  BY <1>2, <1>5, <1>10 DEF CredentialInv, CredentialsAccounted
<1> QED BY <1>2, <1>5, <1>7, <1>10, <1>11, OneSubscriber

\* The other instructions leave the credentials and the active mandates alone.
LEMMA OthersAccounted ==
  ASSUME AccountInv, AccountInv', CredentialInv, NoMintYet',
         \/ UNCHANGED vars
         \/ InitMerchantCredential \/ CreateStreamMandate \/ CreatePlan
         \/ \E id \in UsageIds : CreateUsagePlan(id)
         \/ \E p \in DOMAIN plans : MigratePlan(p) \/ UpdatePlan(p) \/ UpdateUsagePlan(p)
         \/ \E a \in DOMAIN mandates :
              \/ Request(a) \/ UpdateMandate(a) \/ CloseMandate(a)
              \/ \E p \in DOMAIN plans : UpdateMandatePlan(a, p)
  PROVE  CredentialInv'
<1>1. credentials' = credentials /\ lapsed' = lapsed /\ burnt' = burnt
  BY DEF vars, InitMerchantCredential, CreateStreamMandate, CreatePlan, CreateUsagePlan,
     MigratePlan, UpdatePlan, UpdateUsagePlan, Rewrite, Request, UpdateMandate,
     CloseMandate, UpdateMandatePlan, history
<1>2. \A s \in Subscribers : ActiveOf(s)' = ActiveOf(s)
  <2>1. \A a \in DOMAIN mandates : mandates[a] \in MandateType
    BY DEF AccountInv, TypeOK
  <2>2. ASSUME NEW a \in DOMAIN mandates, Request(a)
        PROVE  \A s \in Subscribers : ActiveOf(s)' = ActiveOf(s)
    <3>1. [mandates[a] EXCEPT !.used = TRUE].subscriber = mandates[a].subscriber
          /\ [mandates[a] EXCEPT !.used = TRUE].status = mandates[a].status
      BY <2>1 DEF MandateType
    <3>2. mandates' = [mandates EXCEPT ![a] = [mandates[a] EXCEPT !.used = TRUE]]
      BY <2>2 DEF Request
    <3> QED BY <3>1, <3>2, SameActive
  <2>3. ASSUME NEW a \in DOMAIN mandates, UpdateMandate(a)
        PROVE  \A s \in Subscribers : ActiveOf(s)' = ActiveOf(s)
    <3>1. [mandates[a] EXCEPT !.grown = TRUE].subscriber = mandates[a].subscriber
          /\ [mandates[a] EXCEPT !.grown = TRUE].status = mandates[a].status
      BY <2>1 DEF MandateType
    <3>2. mandates' = [mandates EXCEPT ![a] = [mandates[a] EXCEPT !.grown = TRUE]]
      BY <2>3 DEF UpdateMandate
    <3> QED BY <3>1, <3>2, SameActive
  <2>4. ASSUME NEW a \in DOMAIN mandates, NEW p \in DOMAIN plans, UpdateMandatePlan(a, p)
        PROVE  \A s \in Subscribers : ActiveOf(s)' = ActiveOf(s)
    <3>1. Moved(mandates[a], p).subscriber = mandates[a].subscriber
          /\ Moved(mandates[a], p).status = mandates[a].status
      BY <2>1 DEF Moved, MandateType
    <3>2. mandates' = [mandates EXCEPT ![a] = Moved(mandates[a], p)]
      BY <2>4 DEF UpdateMandatePlan
    <3> QED BY <3>1, <3>2, SameActive
  <2>5. ASSUME NEW a \in DOMAIN mandates, CloseMandate(a)
        PROVE  \A s \in Subscribers : ActiveOf(s)' = ActiveOf(s)
    <3>1. mandates[a].status # "Active"
          /\ mandates' = [b \in DOMAIN mandates \ {a} |-> mandates[b]]
      BY <2>5 DEF CloseMandate
    <3>2. DOMAIN mandates' = DOMAIN mandates \ {a}
          /\ \A b \in DOMAIN mandates \ {a} : mandates'[b] = mandates[b]
      BY <3>1
    <3> QED BY <3>1, <3>2 DEF ActiveOf
  <2>6. ASSUME mandates' = mandates
        PROVE  \A s \in Subscribers : ActiveOf(s)' = ActiveOf(s)
    BY <2>6 DEF ActiveOf
  <2>7. CASE \/ UNCHANGED vars
             \/ InitMerchantCredential \/ CreateStreamMandate \/ CreatePlan
             \/ \E id \in UsageIds : CreateUsagePlan(id)
             \/ \E p \in DOMAIN plans : MigratePlan(p) \/ UpdatePlan(p) \/ UpdateUsagePlan(p)
    BY <2>6, <2>7 DEF vars, InitMerchantCredential, CreateStreamMandate, CreatePlan,
       CreateUsagePlan, MigratePlan, UpdatePlan, UpdateUsagePlan, Rewrite
  <2> QED BY <2>2, <2>3, <2>4, <2>5, <2>7
<1> QED BY <1>1, <1>2 DEF CredentialInv, ActiveAreFinite, CredentialsAccounted, Held

\* Every state of every merchant accounts for the credentials.
LEMMA CredentialsHold == Spec => []CredentialInv
<1>1. Init => CredentialInv
  BY CredentialsStart
<1>2. AccountInv /\ AccountInv' /\ CredentialInv /\ [Next]_vars => CredentialInv'
  <2> SUFFICES ASSUME AccountInv, AccountInv', CredentialInv, [Next]_vars
               PROVE  CredentialInv'
    OBVIOUS
  <2>1. NoMintYet'
    BY NoMintYetKept DEF CredentialInv
  <2>2. CASE \E s \in Subscribers, p \in DOMAIN plans : Subscribe(s, p)
    BY <2>1, <2>2, SubscribeAccounted
  <2>3. CASE \E a \in DOMAIN mandates : Cancel(a) \/ AdminCancel(a)
    BY <2>1, <2>3, CancelAccounted DEF Cancel, AdminCancel
  <2>4. CASE \E a \in DOMAIN mandates, last \in BOOLEAN : ExecutePull(a, last)
    BY <2>1, <2>4, PullAccounted
  <2>5. CASE \E a \in DOMAIN mandates : MigrateMandate(a)
    BY <2>1, <2>5, MigrationAccounted
  <2>6. CASE \/ UNCHANGED vars
             \/ InitMerchantCredential \/ CreateStreamMandate \/ CreatePlan
             \/ \E id \in UsageIds : CreateUsagePlan(id)
             \/ \E p \in DOMAIN plans : MigratePlan(p) \/ UpdatePlan(p) \/ UpdateUsagePlan(p)
             \/ \E a \in DOMAIN mandates :
                  \/ Request(a) \/ UpdateMandate(a) \/ CloseMandate(a)
                  \/ \E p \in DOMAIN plans : UpdateMandatePlan(a, p)
    BY <2>1, <2>6, OthersAccounted
  <2>7. CASE \E s \in Subscribers, mint \in Mints : BurnCredential(s, mint)
    BY <2>1, <2>7, BurnAccounted
  <2> QED BY <2>2, <2>3, <2>4, <2>5, <2>6, <2>7 DEF Next
<1> QED BY <1>1, <1>2, AccountsHold, PTL DEF Spec

\* A subscriber holds exactly one credential for each of its active mandates
\* and one for each that expired, less those it burnt itself, through mint
\* changes, plan changes, migrations and cancellations by either side.
THEOREM CredentialsStayAccounted == Spec => []CredentialsAccounted
  BY CredentialsHold, PTL DEF CredentialInv

\* A subscriber with an active mandate that burnt no credential itself and has
\* none of an old plan's mint has one of the mint that a cancellation burns today.
THEOREM LeavingIsOpen == Spec => []CanAlwaysLeave
<1>1. AccountInv /\ CredentialInv => CanAlwaysLeave
  <2> SUFFICES ASSUME AccountInv, CredentialInv, NEW a \in DOMAIN mandates,
                      mandates[a].status = "Active",
                      burnt[mandates[a].subscriber] = 0,
                      \A p \in OldPlans : credentials[mandates[a].subscriber][MintOf(p)] = 0
               PROVE  credentials[mandates[a].subscriber]
                                 [Resolved(plans[mandates[a].plan].mint)] >= 1
    BY DEF CanAlwaysLeave
  <2> DEFINE s == mandates[a].subscriber
             p == mandates[a].plan
  <2>1. TypeOK /\ s \in Subscribers /\ p \in DOMAIN plans
    BY DEF AccountInv, TypeOK, MandateType, EveryMandateLoads
  <2>2. Held(s) >= 1
    <3>1. a \in ActiveOf(s) /\ IsFiniteSet(ActiveOf(s))
      BY <2>1 DEF ActiveOf, CredentialInv, ActiveAreFinite
    <3>2. Cardinality(ActiveOf(s)) \in Nat /\ Cardinality(ActiveOf(s)) # 0
      BY <3>1, FS_CardinalityType, FS_EmptySet
    <3>3. Held(s) + 0 = Cardinality(ActiveOf(s)) + lapsed[s] /\ lapsed[s] \in Nat
      BY <2>1 DEF CredentialInv, CredentialsAccounted, TypeOK
    <3>4. Held(s) \in Nat
      BY <2>1, CredentialsCount
    <3> QED BY <3>2, <3>3, <3>4
  <2>3. Held(s) = credentials[s][MerchantMint]
    <3>1. Total(credentials[s], Mints \ {MerchantMint}) = 0
      <4>1. \A m \in Mints \ {MerchantMint} : credentials[s][m] = 0
        BY DEF Mints
      <4> QED BY <4>1, TotalOfZeroes
    <3>2. Held(s) = Total(credentials[s], Mints \ {MerchantMint}) + credentials[s][MerchantMint]
      BY <2>1, CredentialsCount, MintFacts, TotalSplits DEF Held
    <3>3. credentials[s][MerchantMint] \in Nat
      BY <2>1, MintFacts DEF TypeOK
    <3> QED BY <3>1, <3>2, <3>3
  <2>4. merchant.mint = MerchantMint
    <3>1. merchant.mint # NoMint
      BY <2>1, <2>2, <2>3 DEF CredentialInv, NoMintYet
    <3> QED BY <2>1, <3>1 DEF TypeOK, MerchantType
  <2>5. Resolved(plans[p].mint) = MerchantMint
    BY <2>4, MintFacts DEF Resolved
  <2> QED BY <2>2, <2>3, <2>5
<1> QED BY <1>1, AccountsHold, CredentialsHold, PTL
==============================================================================
