-------------------------- MODULE MerchantAccounts --------------------------
(***************************************************************************)
(* The accounts of one merchant: MerchantState with its counters and its   *)
(* credential mint, the plans, the mandates of its subscribers in both     *)
(* layouts, and the credentials the subscribers hold.                      *)
(*                                                                         *)
(* An account is found at the address its seeds derive: a flat plan at the *)
(* merchant's plan counter, a usage plan at an id the merchant picks, a    *)
(* mandate at its subscriber and the mandate counter.  Mandates of the     *)
(* older layout sit at their subscriber and plan; no instruction creates   *)
(* them, so the ones of OldPlans and their subscribers are there at Init.  *)
(* Reports, approvals, events and tokens all hang on a mandate's address.  *)
(*                                                                         *)
(* Simplifications.  Of billing (module MandateBilling) only what shows    *)
(* here: counters leave zero, a mandate expires.  Of a plan only its       *)
(* layout and its credential mint (UsagePlan and MandateBilling have the   *)
(* terms).  One billing mint, whose TokenConfig (module Deployment) can    *)
(* only refuse: an instruction refused is one not called.  Each is called  *)
(* by the signer it asks for: the merchant for plans, the subscriber to    *)
(* subscribe, cancel and close, the admin to cancel for it and to migrate. *)
(***************************************************************************)
EXTENDS Integers, FiniteSets, Totals

CONSTANTS
  Subscribers,
  UsageIds,            \* ids a merchant gives its usage plans
  OldPlans,            \* addresses of the plans of an older release
  OldLayouts,          \* layouts the merchant account may start in
  MaxPlans,            \* bound: flat plans
  MaxMandates,         \* bound: mandates opened by index
  MaxStreams           \* bound: streams

Nowhere == [type |-> "Flat", id |-> -1]
FlatAt(n)  == [type |-> "Flat", id |-> n]
UsageAt(n) == [type |-> "Usage", id |-> n]
PlanAddresses == [type : {"Flat", "Usage"}, id : Nat]

ASSUME OldPlansAssumption ==
  /\ OldPlans \subseteq PlanAddresses /\ IsFiniteSet(OldPlans)
  /\ OldLayouts \subseteq {"Absent", "Legacy", "Current"}
  /\ OldPlans # {} => "Absent" \notin OldLayouts
ASSUME AccountBoundsAssumption ==
  /\ MaxPlans \in Nat /\ MaxMandates \in Nat /\ MaxStreams \in Nat
  /\ UsageIds \subseteq Nat

\* Pubkey::default(), the merchant's mint, or the mint of a plan of its own.
NoMint       == [of |-> "nobody", plan |-> Nowhere]
MerchantMint == [of |-> "merchant", plan |-> Nowhere]
MintOf(p)    == [of |-> "plan", plan |-> p]
Mints        == {MerchantMint} \cup {MintOf(p) : p \in OldPlans}

\* Where a mandate may be: by subscriber and plan, or by subscriber and index.
LegacyAddress(s, p)  == [layout |-> "V1", subscriber |-> s, plan |-> p, index |-> 0]
IndexedAddress(s, n) == [layout |-> "V2", subscriber |-> s, plan |-> Nowhere, index |-> n]

VARIABLES
  merchant,        \* the MerchantState account
  plans,           \* the plan accounts by address
  mandates,        \* the mandate accounts by address
  credentials,     \* credentials held, by subscriber and mint
  \* History variables: no action's guard reads them.
  opened,          \* addresses a mandate was ever opened at
  lapsed,          \* mandates of a subscriber that expired
  burnt            \* credentials a subscriber burnt itself

history == <<opened, lapsed, burnt>>
vars    == <<merchant, plans, mandates, credentials, opened, lapsed, burnt>>

NoMerchant == [layout |-> "Absent", mint |-> NoMint, planCount |-> 0,
               mandateCount |-> 0, streamCount |-> 0]
------------------------------------------------------------------------------
(* MerchantState. *)

\* ensure_merchant_state: created, or rewritten in the current layout; an old
\* account has no counters beyond its plans and no mint.
EnsuredForgettingCounters(m) ==
  [m EXCEPT !.layout = "Current", !.mandateCount = 0, !.streamCount = 0]
Ensured(m) == [m EXCEPT !.layout = "Current"]

\* resolve_merchant_credential_mint: the merchant's mint once there is one.
PlanMintFirst(planMint) == IF planMint # NoMint THEN planMint ELSE merchant.mint
Resolved(planMint) == IF merchant.mint # NoMint THEN merchant.mint ELSE planMint

\* Called again, it finds the mint in place and leaves it.
InitMerchantCredential ==
  /\ merchant' = [Ensured(merchant) EXCEPT !.mint = MerchantMint]
  /\ UNCHANGED <<plans, mandates, credentials, history>>

\* A stream takes its address from a counter of its own.
CreateStreamMandate ==
  /\ merchant.layout = "Current"
  /\ merchant.streamCount < MaxStreams                      \* bound
  /\ merchant' = [merchant EXCEPT !.streamCount = @ + 1]
  /\ UNCHANGED <<plans, mandates, credentials, history>>
------------------------------------------------------------------------------
(* Plans. *)

With(p) == [a \in DOMAIN plans \cup {p} |->
              IF a = p THEN [layout |-> "V2", mint |-> merchant.mint] ELSE plans[a]]

\* New plans wait for the merchant's mint.
CreatePlan ==
  /\ FlatAt(merchant.planCount) \notin DOMAIN plans
  /\ merchant.mint # NoMint
  /\ merchant.planCount < MaxPlans                          \* bound
  /\ plans' = With(FlatAt(merchant.planCount))
  /\ merchant' = [Ensured(merchant) EXCEPT !.planCount = @ + 1]
  /\ UNCHANGED <<mandates, credentials, history>>

CreateUsagePlan(id) ==
  /\ UsageAt(id) \notin DOMAIN plans
  /\ merchant.mint # NoMint
  /\ plans' = With(UsageAt(id))
  /\ merchant' = Ensured(merchant)
  /\ UNCHANGED <<mandates, credentials, history>>

\* A plan is rewritten in the current layout with the mint it had.
InCurrentLayout(plan) == [plan EXCEPT !.layout = "V2"]

Rewrite(p) ==
  /\ plans' = [plans EXCEPT ![p] = InCurrentLayout(@)]
  /\ UNCHANGED <<merchant, mandates, credentials, history>>

UpdatePlan(p)      == p.type = "Flat" /\ Rewrite(p)
UpdateUsagePlan(p) == p.type = "Usage" /\ Rewrite(p)

\* Anybody may pay for it; a plan in the current layout is left alone.
MigratePlan(p) == Rewrite(p)
------------------------------------------------------------------------------
(* Mandates and credentials. *)

\* validate_loaded_mandate_address.
Derives(a) ==
  \/ a = LegacyAddress(mandates[a].subscriber, mandates[a].plan)
  \/ /\ mandates[a].layout = "V2"
     /\ a = IndexedAddress(mandates[a].subscriber, mandates[a].index)

Subscribe(s, p) ==
  LET a    == IndexedAddress(s, merchant.mandateCount)
      mint == Resolved(plans[p].mint)
  IN /\ merchant.layout = "Current"
     /\ a \notin DOMAIN mandates
     /\ merchant.mandateCount < MaxMandates                 \* bound
     /\ credentials' = [credentials EXCEPT ![s][mint] = @ + 1]
     /\ mandates' = [b \in DOMAIN mandates \cup {a} |->
                       IF b = a THEN [layout |-> "V2", subscriber |-> s, plan |-> p,
                                      billingType |-> p.type,
                                      index |-> merchant.mandateCount, grown |-> TRUE,
                                      status |-> "Active", used |-> FALSE]
                       ELSE mandates[b]]
     /\ merchant' = [merchant EXCEPT !.mandateCount = @ + 1]
     /\ opened' = opened \cup {a}
     /\ UNCHANGED <<plans, lapsed, burnt>>

\* cancel and admin_cancel burn one credential of the mint that resolves now.
CancelMandate(a) ==
  LET s    == mandates[a].subscriber
      mint == Resolved(plans[mandates[a].plan].mint)
  IN /\ Derives(a)
     /\ mandates[a].billingType = mandates[a].plan.type
     /\ mandates[a].status = "Active"
     /\ credentials[s][mint] >= 1
     /\ credentials' = [credentials EXCEPT ![s][mint] = @ - 1]
     /\ mandates' = [mandates EXCEPT ![a].status = "Cancelled"]
     /\ UNCHANGED <<merchant, plans, history>>

Cancel(a)      == CancelMandate(a)
AdminCancel(a) == CancelMandate(a)

\* A credential cannot be transferred, but Token-2022 lets its holder burn it.
BurnCredential(s, mint) ==
  /\ credentials[s][mint] >= 1
  /\ credentials' = [credentials EXCEPT ![s][mint] = @ - 1]
  /\ burnt' = [burnt EXCEPT ![s] = @ + 1]
  /\ UNCHANGED <<merchant, plans, mandates, opened, lapsed>>

\* The credential of a mandate that expired stays where it is.
CloseMandate(a) ==
  /\ Derives(a)
  /\ mandates[a].status \in {"Cancelled", "Expired"}
  /\ mandates' = [b \in DOMAIN mandates \ {a} |-> mandates[b]]
  /\ UNCHANGED <<merchant, plans, credentials, history>>

\* A mandate of the current layout may change plan: its address has no plan.
AnyLayoutMoves(m) == TRUE
MayMove(m) == m.layout = "V2"

Moved(m, p) == [m EXCEPT !.plan = p, !.billingType = p.type]

\* update_mandate_plan, or a scheduled change that execute_pull applies.
UpdateMandatePlan(a, p) ==
  /\ MayMove(mandates[a]) /\ Derives(a)
  /\ mandates[a].status = "Active"
  /\ mandates' = [mandates EXCEPT ![a] = Moved(@, p)]
  /\ UNCHANGED <<merchant, plans, credentials, history>>

\* It refuses every change of terms, and leaves an account of the older layout
\* with room for the current one, padded with zeroes, still to be read as old.
UpdateMandate(a) ==
  /\ Derives(a)
  /\ mandates[a].status = "Active"
  /\ mandates' = [mandates EXCEPT ![a].grown = TRUE]
  /\ UNCHANGED <<merchant, plans, credentials, history>>

\* What billing does to a mandate.  A request leaves a nonce above zero; a pull
\* counts itself, and the last one expires the mandate.  The layout is kept.
\* The hook reads the mandate in the current layout only, so the account must
\* have its size, unless nothing is charged: a usage charge may be zero.
Request(a) ==
  /\ Derives(a)
  /\ mandates[a].status = "Active"
  /\ mandates' = [mandates EXCEPT ![a].used = TRUE]
  /\ UNCHANGED <<merchant, plans, credentials, history>>

ExecutePull(a, last) ==
  /\ Derives(a)
  /\ mandates[a].status = "Active"
  /\ mandates[a].billingType = mandates[a].plan.type
  /\ mandates[a].used
  /\ mandates[a].grown \/ mandates[a].billingType = "Usage"
  /\ mandates' = [mandates EXCEPT ![a].status = IF last THEN "Expired" ELSE "Active"]
  /\ lapsed' = IF last THEN [lapsed EXCEPT ![mandates[a].subscriber] = @ + 1] ELSE lapsed
  /\ UNCHANGED <<merchant, plans, credentials, opened, burnt>>

\* Reports, approvals and events at the old address would be lost, so a
\* mandate with a history stays.
Movable(m) == ~m.used

\* The mandate takes the next index; the old account is closed.
MigratedLeavingOld(a, b) ==
  [c \in DOMAIN mandates \cup {b} |->
     IF c = b THEN [mandates[a] EXCEPT !.layout = "V2", !.grown = TRUE, !.index = b.index]
     ELSE mandates[c]]
Migrated(a, b) ==
  [c \in (DOMAIN mandates \ {a}) \cup {b} |->
     IF c = b THEN [mandates[a] EXCEPT !.layout = "V2", !.grown = TRUE, !.index = b.index]
     ELSE mandates[c]]

MigrateMandate(a) ==
  LET b == IndexedAddress(mandates[a].subscriber, merchant.mandateCount)
  IN /\ Derives(a)
     /\ mandates[a].layout = "V1"
     /\ Movable(mandates[a])
     /\ merchant.layout = "Current"
     /\ b \notin DOMAIN mandates
     /\ merchant.mandateCount < MaxMandates                 \* bound
     /\ mandates' = Migrated(a, b)
     /\ merchant' = [merchant EXCEPT !.mandateCount = @ + 1]
     /\ opened' = opened \cup {b}
     /\ UNCHANGED <<plans, credentials, lapsed, burnt>>
------------------------------------------------------------------------------
(* What an older release leaves behind: plans with mints of their own, and  *)
(* for some subscribers a mandate of one of them, with its credential.      *)

Init ==
  /\ \E layout \in OldLayouts :
       merchant = [NoMerchant EXCEPT !.layout = layout,
                     !.planCount = Cardinality({p \in OldPlans : p.type = "Flat"})]
  /\ plans = [p \in OldPlans |-> [layout |-> "V1", mint |-> MintOf(p)]]
  /\ \E held \in SUBSET (Subscribers \X OldPlans) :
       /\ mandates = [a \in {LegacyAddress(h[1], h[2]) : h \in held} |->
                        [layout |-> "V1", subscriber |-> a.subscriber, plan |-> a.plan,
                         billingType |-> a.plan.type, index |-> 0, grown |-> FALSE,
                         status |-> "Active", used |-> FALSE]]
       /\ credentials = [s \in Subscribers |-> [m \in Mints |->
                           IF \E h \in held : s = h[1] /\ m = MintOf(h[2]) THEN 1 ELSE 0]]
       /\ opened = {LegacyAddress(h[1], h[2]) : h \in held}
  /\ lapsed = [s \in Subscribers |-> 0]
  /\ burnt = [s \in Subscribers |-> 0]

Next ==
  \/ InitMerchantCredential
  \/ CreateStreamMandate
  \/ CreatePlan
  \/ \E id \in UsageIds : CreateUsagePlan(id)
  \/ \E p \in DOMAIN plans :
       \/ MigratePlan(p) \/ UpdatePlan(p) \/ UpdateUsagePlan(p)
       \/ \E s \in Subscribers : Subscribe(s, p)
  \/ \E s \in Subscribers, mint \in Mints : BurnCredential(s, mint)
  \/ \E a \in DOMAIN mandates :
       \/ Request(a) \/ UpdateMandate(a)
       \/ \E last \in BOOLEAN : ExecutePull(a, last)
       \/ Cancel(a) \/ AdminCancel(a) \/ CloseMandate(a) \/ MigrateMandate(a)
       \/ \E p \in DOMAIN plans : UpdateMandatePlan(a, p)

Spec == Init /\ [][Next]_vars
------------------------------------------------------------------------------
(* Properties. *)

MerchantType ==
  [layout : {"Absent", "Legacy", "Current"}, mint : {NoMint, MerchantMint},
   planCount : Nat, mandateCount : Nat, streamCount : Nat]
PlanType == [layout : {"V1", "V2"}, mint : Mints]
MandateAddresses ==
  [layout : {"V1", "V2"}, subscriber : Subscribers, plan : PlanAddresses \cup {Nowhere},
   index : Nat]
MandateType ==
  [layout : {"V1", "V2"}, subscriber : Subscribers, plan : PlanAddresses,
   billingType : {"Flat", "Usage"}, index : Nat, grown : BOOLEAN,
   status : {"Active", "Cancelled", "Expired"}, used : BOOLEAN]

\* Types; nobody holds less than no credential.
TypeOK ==
  /\ merchant \in MerchantType
  /\ DOMAIN plans \subseteq PlanAddresses
  /\ plans \in [DOMAIN plans -> PlanType]
  /\ DOMAIN mandates \subseteq MandateAddresses
  /\ mandates \in [DOMAIN mandates -> MandateType]
  /\ credentials \in [Subscribers -> [Mints -> Nat]]
  /\ opened \subseteq MandateAddresses
  /\ lapsed \in [Subscribers -> Nat]
  /\ burnt \in [Subscribers -> Nat]

\* subscribe and migrate_mandate take addresses from one counter, which an
\* upgrade of MerchantState rewrites: still no address is used for a second
\* mandate, which would find the first one's reports, approvals and tokens.
NoAddressTwice ==
  [][\A a \in DOMAIN mandates' \ DOMAIN mandates : a \notin opened]_vars

\* validate_loaded_mandate_address, load_plan_account, require_plan_billing_type:
\* every handler can load every mandate there is, and with it a plan of its
\* kind, through plan changes and migrations.
EveryMandateLoads ==
  \A a \in DOMAIN mandates :
    /\ Derives(a)
    /\ mandates[a].plan \in DOMAIN plans
    /\ mandates[a].billingType = mandates[a].plan.type

Held(s) == Total(credentials[s], Mints)
ActiveOf(s) == {a \in DOMAIN mandates : mandates[a].subscriber = s
                                         /\ mandates[a].status = "Active"}

\* subscribe mints, cancel and admin_cancel burn, perhaps of another mint than
\* was minted, expiry burns nothing and migration moves: a subscriber holds one
\* credential for each active mandate and one for each that expired, less those
\* it burnt itself.
CredentialsAccounted ==
  \A s \in Subscribers :
    Held(s) + burnt[s] = Cardinality(ActiveOf(s)) + lapsed[s]

\* cancel burns a credential of the mint that resolves today.  A subscriber
\* that burnt none itself and has none of a plan's own mint has one to burn.
CanAlwaysLeave ==
  \A a \in DOMAIN mandates :
    LET s == mandates[a].subscriber
    IN /\ mandates[a].status = "Active"
       /\ burnt[s] = 0
       /\ \A p \in OldPlans : credentials[s][MintOf(p)] = 0
       => credentials[s][Resolved(plans[mandates[a].plan].mint)] >= 1
==============================================================================
