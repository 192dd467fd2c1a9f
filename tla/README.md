# Vela protocol: TLA+ models, model checks and proofs

Vela is a pair of Solana programs for recurring and metered payments.
`vela-protocol` keeps plans, subscriptions ("mandates"), payment streams and
agent budgets; `vela-transfer-hook` is called by Token-2022 on every transfer of
the wrapped token and refuses the transfers the protocol did not authorise. Part
of a subscription's billing is decided outside the chain: a request instruction
queues an encrypted computation on the Arcium network, which answers later by
calling a callback instruction.

Paths below are relative to `src/programs/vela-protocol/src/` unless they say
otherwise; "the hook" is `src/programs/vela-transfer-hook/src/lib.rs`.

## 1. The system

| Component | State | Operations | What must hold |
|---|---|---|---|
| Payment streams (`instructions/streaming/`, `accounts/stream_account.rs`) | `StreamMandate`: status, rate, maximum rate, `last_settled_ts`, `total_streamed`, cap, `paused_at`, interval; the wrapped tokens its address owns | create, execute (settle), pause, resume, cancel, update rate | no accrual lost, invented or charged twice; total = tokens moved, within the cap; rate within the subscriber's maximum; the hook and the program compute the same limit |
| Subscriptions and billing (`instructions/billing/`, `instructions/plans/`, `proration.rs`) | `VelaMandate` (plan terms, due date, pulls, recorded pulls, credit, pending plan, nonces), `PullApproval`, `UsageReport`, `BillingEvent` | subscribe, request validation, report usage, request computation, three callbacks, execute pull, request record, change, schedule, unschedule plan, update, migrate, cancel (two ways), close | one payment for each due date, only when due, never before the previous one counts as recorded, never above what was signed; a usage payment is the charge computed for its own report |
| Computation requests (`instructions/arcium/`) | `ArciumRequestState` per flow and subject: offset, status | start, validate, complete | every computation is answered at most once; a stale answer is refused |
| Plans (`instructions/plans/*plan*.rs`, `accounts/plan_account.rs`) | `VelaPlan`, `UsagePlan` (five tiers, cap, cadence), in two layouts | create, update in parts, migrate | a revision never raises what a subscriber pays without a signature; tiers stay a schedule whose charge fits a u64 |
| Merchant state (`accounts/merchant_account.rs`) | `MerchantState`: counters of plans, mandates and streams, credential mint; credentials held by subscribers | upgrade its layout, create the mint, resolve a mint | no address used twice; every mandate can be loaded; one credential for each active mandate |
| Agent budgets (`instructions/agent_mandates/`) | `AgentMandate`: daily, lifetime and per-service limits and spending, two kinds of daily window, pacing, status; the wrapped tokens its address owns | create, agent pull, adjust, pause, resume, revoke, drain | limits hold whatever is adjusted; windows record exactly what was pulled; nothing after a revocation; the owner always gets the rest back |
| Wrapped token (`instructions/token/`) | mint, wrapping vault | wrap, unwrap, initialise | every wrapped token is redeemable from the vault the configuration names |
| Transfer hook (the hook) | one `ExtraAccountMetaList` per mint | transfer hook: token switch, stream branch, approval branch; create and extend the list | agrees with the program about every transfer the program makes; its copy of the vault is the configuration's |
| Protocol configuration (`instructions/config/`) | `ProtocolConfig` (paused, mint, vault), `KeeperConfig`, both in two layouts, `TokenConfig` | initialise, update, pause, unpause, upgrade layout | switches stop what they should; an upgrade loses no setting |
| Encrypted circuits (`src/encrypted-ixs`), registration (`init_comp_defs.rs`) | none on chain | validate, usage charge, tiered pricing, record | each unit charged once, at its tier's rate, up to the cap; no sum wraps |
| Dispatch, errors, scripts, client tests | none | | |

How they interact. An instruction is one transaction: it runs alone and an error
undoes everything. Concurrency comes from the order of transactions: subscriber,
merchant, keeper, agent, admin, the network and strangers act in any order, and
every two-step conversation (request and callback, schedule and pull, approval
and pull, report and computation and pull) can be cut by anybody's transaction
and by the passing of time. The program calls Token-2022, which calls the hook,
which reads the program's accounts *as they were before the handler writes them
back*. The clock is the cluster's `unix_timestamp`.

What is hard here, and what the properties are for (each with its line under
`hazards` in `PROJECT.json`): answers that come late, twice or never; a mandate
that is read again in the callback, after somebody changed it; approvals that
expire while the pull is under way, or outlive the terms they were given for;
daily windows renewed lazily by whichever pull comes first; state written back
after the transfer it describes; time boundaries (an interval, a day, an expiry,
a clock that is seen to go back); caps and rounding; burn in one token program
and payout in another; accounts of an older release, which are rewritten in their
new layout by whichever instruction comes first; unchecked arithmetic on hidden
values, kept in range only by what was accepted long before.

## 2. The modules

| Module | Models | Extends |
|---|---|---|
| `StreamLedger` | abstract: a meter, debts cleared all at once, closed is final | |
| `StreamMandate` | one stream, its escrow, the hook's stream branch, clock and switches | |
| `StreamProofs` | nine theorems about `StreamMandate` | `StreamMandate` |
| `MCStream` | instances for TLC | `StreamProofs` |
| `RecurringPayment` | abstract: what a subscription promises, period by period | |
| `MandateBilling` | one subscription with everything that is said about it between chain and network | |
| `BillingProofs` | theorems: types, no early approval, only pulls move money, fair proration | `MandateBilling` |
| `BillingHistory` | theorems: requests, records and periods; consent, computed charges, the contract | `BillingProofs` |
| `MCBilling` | instances for TLC | `MandateBilling` |
| `SpendingAllowance` | abstract: one pot, one ceiling, revocation is final | |
| `AgentMandate` | one agent budget, the other holders of the wrapped token, the vault | `Totals` |
| `AgentProofs` | theorems: types, limits, backing, the allowance, the books, any day | `AgentMandate`, `TotalsProofs` |
| `MCAgent` | instances for TLC | `AgentMandate` |
| `UsagePricing` | what the program accepts as tiers, what the two circuits charge, the plaintext model, a reference price | `Totals` |
| `UsagePlan` | one usage plan account: created, updated in parts, migrated | `UsagePricing` |
| `UsagePlanProofs` | theorems: types, sound schedules, sums that fit, what the circuits charge | `UsagePlan`, `TotalsProofs` |
| `MCUsagePlan` | instances for TLC: all lists of tiers over a few units | `UsagePlan` |
| `MerchantAccounts` | a merchant's counters, plans, all its mandates in both layouts, credentials | `Totals` |
| `AccountProofs` | theorems: types, every mandate loads, no address twice, credentials | `MerchantAccounts`, `TotalsProofs` |
| `MCAccounts` | instances for TLC | `MerchantAccounts` |
| `Deployment` | the configuration accounts, the hook's account lists, the wrapped token and its vault | `Totals` |
| `DeploymentProofs` | theorems: types, lists, upgrades, backing | `Deployment`, `TotalsProofs` |
| `MCDeployment` | instances for TLC | `Deployment` |
| `Totals` | the sum of a function over a finite set, without recursion | |
| `TotalsProofs` | lemmas about such sums | `Totals` |

Conventions. One handler is one action; its guard is the conjunction of the
account constraints and `require!`s, its primed variables are everything the
handler and the calls it makes write. Rust's checked arithmetic appears as a
guard, `Option::None` as `None == -1`. Who signs is a parameter (`who`), and
`"stranger"` tries everything. *History variables* (named in each module) record
what the properties talk about; no guard reads them. Every bound that only keeps
TLC finite is commented `bound` at its guard and named `Max...` (`U64Max`,
`MaxCredit`, `MaxServices` and `Unlimited` are the code's own limits, made
small). Operators with names such as `SettledKeepingClock` are mutated forms: each
stands beside the definition it deforms and shows that a property can fail.

### StreamMandate

`stream` is the account, `escrow` the tokens its address owns, `received` what the
merchant got. `Elapsed`, `Gross`, `Remaining`, `Charge`, `SettleSucceeds`,
`Settled` are the lines of `settle_accrued_in_place`; `HookAllowsStream` is the
hook's own arithmetic on the account before write-back, and `Pay` is the transfer
both must allow. `Create`, `Execute`, `Pause`, `Resume`, `Cancel`, `UpdateRate`
are the handlers. History: `accrued` (the ideal meter, rate times seconds spent
Active), `waived` (accrued and written off), `chargedTo`, `consentedMax`.

`StreamLedger` is implemented with `meter <- accrued`, `paid <- received`,
`forgiven <- waived`: nothing is paid or written off except in a settlement that
leaves no debt, and a closed stream never changes.

Of the clock: `unix_timestamp` is a vote of the cluster and may be seen to go
back, and the code guards against it in places (`checked_sub`, `require! >= 0`), so
the module has `StepBack`, switched by `ClockStepsBack`.

### MandateBilling

`plans`, `mandate`, `approval`, `pending` (the Pending request accounts), `queued`
(computations handed to the network, kept for ever), `reports`, `events`, and the
token account. A request instruction adds to `pending` and `queued`; `Answer(c)`
is the network calling the callback for *any* computation ever queued, at any
time and any number of times: a late, repeated or reordered answer is the same
step, a lost one is a step not taken. What the network computes is a
nondeterministic verdict or charge chosen at the request (the circuit is
deterministic in its inputs). `ExecutePull` applies a due scheduled change,
charges credit and tokens, writes account, report and approval. `Proration` is
`proration.rs` with its rounding toward zero. `TermsHash` keeps of the hash that
equal terms hash equal.

A callback runs with the accounts its request registered, each writable or not, and
declares on its side which must be. `RegisteredWritable` and `DeclaredMut` are those
two lists for the three flows, `AccountsFit` asks that the second is within the
first. For validation and usage it is. `request_billing_record` registers the mandate
read-only (`request_billing_record.rs:158-161`), while `record_billing_event_callback`
declares it `mut` and writes it (`billing_callback.rs:146-147`, `:88`): so that callback
always fails, no `BillingEvent` is ever stored, and a flat pull is the last pull of its
mandate (`records` in section 5, `NothingAfterAFlatPull` in section 4). This is the
module with `ExtraWritable = FALSE`. `TRUE` lets the network pass accounts writable that
were not registered so. It only adds behaviours, so what is safe then is safe of the
code, and it is how `billing_flat` looks at mandates past their first flat pull, which
is also the code once the registration is corrected. All other billing runs, those
about liveness and those of section 5 among them, have `FALSE`; the theorems hold for
both, except where they say so.

`RecurringPayment` is implemented with the due date, the pulls, the records, the
credit and the tokens of the mandate.

### AgentMandate

`mandate` and `services` are the account, `budget` its tokens, `outside` everybody
else's wrapped tokens, `vault` the USDC behind both. `Renewed` and
`ServiceRenewed` are the two lazy resets. `agent_pull` writes, uses and closes
its approval within one transaction, so the approval needs no variable and the
hook's answer is `TransferSucceeds`. `Adjust` has two forms, without and with a
service list; `Relisted` copies entries that stay. History: `drawn` and `paidTo`
(what was pulled at each instant, in all and by service since it was last
listed), `peak`. A service is another party than the mandate's own address, and
the clock does not go back: windows are a day long, against seconds of drift.

### UsagePricing and UsagePlan

`Pricing` is what a `UsagePlan` account stores: five slots, of which `count` are
used. `CanCreate` and `CanUpdate` are the checks of `create_usage_plan.rs` and
`update_usage_plan.rs` (`ValidBoundaries`, `WithinEnvelope`), `Updated` what an
update with any of its three parts leaves. `UsageCharge` and `TieredPricing` are
the circuits of `src/encrypted-ixs/src/lib.rs`, all five tiers computed and wrapping
at `U64Max`; `CircuitCharge` is the choice `request_usage_computation.rs` makes.
`PlaintextModel` is the function the circuits' own tests exercise in their place, the
turns of its loop (`PlaintextTurn`) one after the other. `MarginalPrice` is the
reference: the `Total` of `Rates`, unit by unit the rate of the first tier that
reaches it, up to the cap. `MaxRate` and `MaxCharge` are computed from `MaxUnits` and
`U64Max` as `constants.rs` computes them. `inherited` (history) marks a plan whose
prices are older than the envelope.

`MandateBilling` takes from here only that a charge is between zero and the cap.

### MerchantAccounts

`merchant` is `MerchantState`, `plans` and `mandates` are functions from addresses,
an address being the record of the seeds it is derived from, so two accounts
collide exactly where their seeds are equal. `Ensured` is
`ensure_merchant_state`, `Resolved` is `resolve_merchant_credential_mint`,
`Derives` is `validate_loaded_mandate_address`. Every instruction that opens,
closes, moves, grows or migrates a mandate is an action; of billing there is only
what shows here (`Request` raises a nonce, `ExecutePull` may expire the mandate).
`BurnCredential` is the holder of a credential calling Token-2022 itself: the mint is
non-transferable, which does not keep anybody from burning.
History: `opened`, `lapsed` and `burnt`.

### Deployment

`config`, `keeper`, `tokens` and `lists` are the accounts with their layout (or
size); `wrapped` and `vault` the tokens. The main program loads `ProtocolConfig` in
both layouts and writes the current one; the hook's own loader (`HookLoads`) knows
the current one only. `HookAccepts` is what it asks of every transfer of a mint; what
it asks besides of accounts the program owns is in the mandate modules, whose two
flags (stopped, token off) are `config.paused` and `tokens[m].enabled` here.
History: `told`, what the admin last asked for.

## 3. The runs

Each property's comment in its module says which code it is about. `expect pass`:

| Run | Question | Bounds, and why they are enough |
|---|---|---|
| `stream` | conservation of accrual, books against tokens, hook against program, consent, no double charge, bounded forfeit, refinement of `StreamLedger`; a serviceable stream is settled again and again | rates 0..2, capped and uncapped, intervals 1 and 2 with minimum 2 (so one is refused), 4 seconds, the clock may step back; `U64Max` 6 so that an unsettled uncapped stream outgrows it. Two intervals fit: settle, skip, pause, resume and a second settlement all happen |
| `billing_flat` | requests, approvals, periods, consent, proration, refinement of `RecurringPayment` | `ExtraWritable`, so that flat mandates get past their first pull; two flat plans that differ in price, cadence and trial, a third price by revision, verdicts of both kinds; two requests of each kind (a replaced and a current one); four instants: two periods of the slower plan, approvals that expire (`TTL` 1); the credit limit 2 is reached |
| `billing_usage` | usage payments against reports and computations; a flat pull holds back every later pull, also after a move to the usage plan; the refinement again | callbacks as registered; a flat and a usage plan of different cadence, moved between in both directions, charges 0 and 2 (free, and the cap), a raised cap with another cadence, the switches and both authorities at any moment |
| `billing_live` | a reported period of a funded usage mandate is collected, pull after pull | `FairSpec`, callbacks as registered; one usage plan, charges 0 and 2, four periods, two full charges paid in; six requests so that expired approvals can be asked for again |
| `agent` | limits, windows, backing, any-day bound, refinement of `SpendingAllowance`; an exhausted daily limit renews | `FairSpec`; two services, lists of one and two with different limits, daily limits 1 and 2 moving both ways, a window of 2 in four instants (a window, its renewal on the last instant it can, a day across the boundary), no cooldown and one as long as the window, lifetime cap 3, the admin's switches |
| `usage_plan` | tiers stay a schedule; both circuits charge each unit once and agree with the plaintext model; no sum wraps | every valid list of up to five tiers over 5 units with rates 0..2 (the highest the envelope takes when `U64Max` is 54), eight kinds of invalid list, caps below, at and above the highest, every sequence of updates; three older plans with a cap, a rate and a bound outside the envelope |
| `accounts` | addresses, layouts, plan kinds and credentials stay in step | a merchant account in the older and the current layout, one older plan with and without a mandate, two flat plans and a usage plan, two mandates by index, a stream. One subscriber is enough to look at: addresses, credentials and lapses are each subscriber's own, and the counter they share advances the same way whoever's mandate takes the next index |
| `deployment` | wrapped tokens stay redeemable, lists and upgrades lose nothing | two keys for a wrapped mint (a second initialisation), an SPL mint with six decimals and one without, two keepers, a wallet and an escrow, 3 tokens; new and older deployments |

`expect violation`: four runs in which a statement of the repository is refuted
by what the code does (section 5).

`TypeOK` of `UsagePlan` and `MerchantAccounts` is left to the proofs.

Every property of a passing run has a mutant in `PROJECT.json`: a plausible slip
in a mapped definition that makes TLC find the property violated.

Deadlock is checked in every run except `billing_live` and `records`, which have no plan
revisions and no switches: a closed mandate at the last instant, with its deposits made,
is at rest. `deployment` declares symmetry: keys of new mints and keepers are
interchangeable there, and the run has no liveness property.

Fairness. Nobody is obliged to use the protocol, so fairness is only given to
those whose job it is: the keeper (a bot that calls execute_stream,
request_validation, execute_pull, request_billing_record in a loop), the Arcium
network (answers computations), the agent (asks again) and the clock. All of it
is weak: each action stays enabled until taken or until somebody's step
legitimately withdraws it, and the property says so ("or no longer serviceable",
"or the account cannot pay", "or no longer usable"). `KeeperKeepsUp` needs only
the keeper. `KeeperCollects` is about flat mandates before their first pull and usage mandates
whose merchant has reported the period, with the terms the plan still has; it needs the
keeper's requests and pulls and the network's answers. It runs on one plan: a mandate
moved back and forth between plans asks for an approval each time, and in a model that
counts requests (`MaxRequests`) nobody could ask again. Its flat case is one pull long
(`NothingAfterAFlatPull`), so the plan of the run is a usage plan. `DaysRenew` gives fairness to pulls of more than zero, of budgets
with a minimum of 1: without a minimum, an agent that keeps pulling zero restarts
its own cooldown for ever.

## 4. The proofs

TLC checks small instances; the theorems hold for every value of the constants
that satisfies the modules' named assumptions (natural amounts, a positive
window, a positive minimum interval, funds that fit a u64). No theorem assumes
anything about who acts or in which order, except five about billing, whose
hypothesis rules out the kind of history that a run of section 5 exhibits. Two more are
about the record callback as it is registered (`~ExtraWritable`).

Every safety property of the passing runs is a theorem, three of them under the
hypothesis of one of those five.

`TotalsProofs`. Sums are cardinalities: `Total(f, S)` counts a set with `f[x]` points
above each `x` of `S`. So what a ledger needs of its sums (a disjoint union adds, one
element changed changes the sum by as much, a part is at most the whole, a constant
is a product) follows from the library's facts on finite sets, for every finite set,
where a recursive sum would need induction over data.

`StreamProofs`. The invariant `StreamInv` is `TypeOK` with five strengthenings:
`WellFormed` (an account that exists has a positive rate and a legal interval,
and is Paused exactly when `paused_at` is set: without it `Meters` would not be
the status), `Funded` (escrow and payments never exceed deposits, and the books
are exact: without it the escrow could leave u64), `ClockCovered` (also while
paused, the pause is no earlier than what was dealt with: resume moves
`last_settled_ts` to now, and only `paused_at <= now` makes that safe when the
clock steps back), `Consent` and the conservation law. One lemma,
`SettlementEffect`, says what any settlement does; each instruction's lemma
cites it. From the invariant: `StreamTypes`, `Conservation`, `BooksAreExact`,
`NoDoubleCharge`, `ConsentHolds`, `HookAgreement`, the action property
`ForfeitIsBounded`, and `StreamImplementsLedger`, by showing each action to be a
ledger step or a stutter.

`AgentProofs`. `AgentInv` is `TypeOK`, `WithinLimits`, `FullyBacked` and
`NothingBefore` (an absent account has spent nothing, which the refinement of
the first step needs). `WithinLimits` is inductive because renewing only lowers
what is recorded (`RenewedWithin`, `ServiceRenewedWithin`), a pull checks the
renewed values, and an adjustment compares with the recorded ones
(`ChoiceCovers`, `RelistedWithin`). From it: `AgentTypes`, `LimitsHold`,
`Backing`, `AgentImplementsAllowance`.

`LedgerInv` relates the account to the two histories. `Book` is said once for the
daily window and for each service: the recorded spending is the sum of what was
pulled since the window began, and nothing was pulled after its day, so a renewal
starts from a sum of zero. `BooksAreTrue` is that. `TwoLimitsADay` needs two more
parts, `BeforeWithin` (what a day that began before the window took before it is
within the highest limit) and `DaysWithin` (the bound itself): a day that contains
the new pull begins before the window or in it, and the two sums are added.

`BillingProofs`. `BillingInv` is `TypeOK`, `ApprovedMeansDue` and three
strengthenings: `Tied` (a mandate that was opened has a plan and a period, one
that was not has due date 0), `RequestsTimely` and `ReportsTimely` (a pending
validation and a submitted report are about a period that is over: a callback
compares their period with the mandate's and does not look at the clock, so
without them an approval could come early). Due dates only move forward
(`StillTimely`), which is why what was over stays over across every interleaving.
From it: `BillingTypeOK`, `NoEarlyApproval`, and
the action property `OnlyPullsMoveMoney`, whose core is `ProrationValue`: the
proration is zero from the due date on, which is when an approval that could pay
for it first exists. `ProrationIsFair` says of `proration.rs` that for all prices and
instants the proration has the sign of the difference, is no more than it, and is
the exact share of what is left of the period, rounded toward zero by less than
one unit.

`BillingHistory` builds on it. `HistoryInv` adds to `RecordsSequential`,
`NoPeriodPaidTwice` and `RequestsAnsweredOnce` what makes them inductive:
`PaymentsBehind` (payments are numbered up to `pull_count` and their periods end
before `next_payment_due`), `LastIsFlat` (the pull that waits for its record is
the last one and was flat, whatever the mandate's type is now), `RecordRequests`
(a pending record request is for a pull without record, or an older one),
`Numbered` (nonces grow, so every computation queued is a new one) and `Fresh`.
Instructions that touch none of this are one lemma, `QuietKeeps`. From it:
`AnsweredOnce`, `RecordsFollowPulls`, `PeriodsPaidOnce`, and `ReportsSettledByPull`
(a new report is about a due date no payment has reached, so it is unpaid). These two
invariants were also checked with TLC on the instances of the safety runs of
billing.

Then `BillingHistory` has the positive side of two findings. Each hypothesis
is what the code lacks; the run that violates the property without it shows that it
is needed, and an instance that passes satisfies it.

- `AmountWithinConsent`: if `update_usage_plan` never raises a cap (`CapsNeverRise`;
  `cap` violates it, `billing_flat` has no usage plan), the amount of a mandate stays
  within what its subscriber signed. `ConsentInv` says the same of everything that
  can become the amount: an approval's amount and the cap of a usage plan that is
  scheduled. A flat plan may be revised at will, because a scheduled change to it
  applies only under an approval of its price. From it, `TotalWithinConsent`: all pulls
  together took at most their number times the highest amount signed.
- `SubscriptionKeepsContract`: under the same hypothesis the mandate implements
  `RecurringPayment`. `Subscribe` opens, `ExecutePull` bills, a plan change amends, and
  every other action stutters, each a lemma of its own; the ceiling of `Bill` is
  `ConsentInv`, its order of payment and record is `HistoryInv`. (`billing_usage`
  checks the refinement also while a cap rises, with charges the old cap covers.)
- `PaysComputedWhenApart`: if no flat plan of the merchant, in any revision, has the
  frequency of a usage plan (`CadencesApart`; true of `billing_usage`, false of
  `uncomputed`), every usage payment is the charge computed for its own report.
  `Origins` says where an approval comes from: a computation for its period and
  amount, or a flat plan's period; the program tells the two apart by length alone.
  `UsageMandatePaysComputed` needs no condition on plans: a mandate billed by usage
  all its life (`AlwaysUsage`) pays computed charges only.

And it says what the third finding comes to, for every merchant, keeper and network
that does as it is told (`~ExtraWritable`; every billing run but `billing_flat`): no
billing event is ever stored (`NoRecordArrives`), and so a flat pull is the last pull of
its mandate, also when the mandate moves to a usage plan (`NothingAfterAFlatPull`, from
`RecordsSequential` and `PaymentsBehind`).

`UsagePlanProofs`. `PlanInv` is `TypeOK` and `SchedulesStaySound`. That is inductive
because an update that keeps the tiers checks them again under the new cap, and one
that keeps the cap checks the new tiers under it; `ActiveTiers` and `PaddedTiers`
relate the five slots to the list of tiers in use, without recursion. `SumsFit`
follows: a tier charges at most a full one (`TierFits`), five of which at the highest
rate are at most `U64Max` (`EnvelopeFits`), whatever `MaxUnits` and `U64Max` are.
Since nothing wraps or saturates (`NoWrap`), a turn of the plaintext loop adds what the circuit adds for
its tier (`TurnAddsTheTier`), which is `ModelAgrees`. For `EachUnitAtItsRate` the units
fall into bands, one for each tier: the tiers rise (`TiersRise`), so the bands are
disjoint and cover the units up to the last bound (`BandsApart`, `BandsCoverUnits`),
in its band a unit has the tier's rate (`RateInBand`), past all bands none
(`RatePastBands`), and a band's total is the tier's charge (`BandCharge`).
`ChargesGrowWithUse` says more units never cost less, also when rates fall.

`AccountProofs`. `AccountInv` adds to `TypeOK` and `EveryMandateLoads` three
strengthenings: `IndexesBelowCounter` (every index ever used is below
`mandateCount`, which an upgrade keeps: why the next address is new),
`MandatesWereOpened` and `LayoutsAgree` (a mandate has the layout of its address, so
one that may change plan is not found by its plan). From it: `AccountTypes`,
`MandatesAlwaysLoad`, and the action property `AddressesUsedOnce`. `CredentialInv`
adds to the count itself that a subscriber has finitely many active mandates and
that, before the merchant has a mint, nobody holds a token of it and no plan names
it. Each action moves both sides of the count by the same amount for one
subscriber, by one token of one mint; a token its holder burns moves from what is held
to `burnt`. From it: `CredentialsStayAccounted` and
`LeavingIsOpen`, where the token to burn exists because the count includes the
mandate that is being left.

`DeploymentProofs`. `DeploymentInv` is `TypeOK` with `Blank` (an account that was not
created holds defaults), `OneMint` (the wrapped mints that exist are the configured
one), `NothingBeforeTheMint` (no list and no token of a mint before it is created:
why a list cannot have been copied too early), `ListsNameTheVault` and
`AsTheAdminLeftIt`. From it: `DeploymentTypes`, `ListsAgree`,
`NothingLostInUpgrades`, and `WrappedIsBacked`: `OneMint` and `NothingBeforeTheMint` leave
one mint with holders, `Wrap` and `Unwrap` change its supply and the vault by the same
amount, and a transfer moves points between two holders.

Only model-checked: liveness under fairness (`KeeperKeepsUp`, `KeeperCollects`,
`DaysRenew`), which the prover cannot do, as it cannot do `ENABLED`.

Assumptions of every model: a transaction is atomic; Token-2022 and the SPL token
program move, mint and burn exactly what they are asked or fail; account
addresses derived from seeds are unique. The payment modules (streams, billing,
agents) also assume what `Deployment` and `MerchantAccounts` are about: keys in the
configuration do not change under them, and older layouts load as current ones.

## 5. What the violation runs show

| Run | Property | The statement and what happens |
|---|---|---|
| `schedule` | `ScheduledChangeCovered` | `tests/upgrade_scheduled_autoapply.rs:30` expects a scheduled upgrade to apply at the next due pull. `validation_callback.rs` approves the mandate's amount as it is, the old price; `execute_pull.rs` applies the change first and then compares the new price with that approval. The pull fails until the change is cancelled or applied at once. The test writes its approval by hand, for the new price. |
| `cap` | `WithinConsent` | `update_mandate.rs:85-87` says changes must go through `update_mandate_plan` "so subscriber approval and proration rules apply". A scheduled change copies the plan's terms when it applies; a usage plan's cap raised in between becomes the mandate's although the subscriber agreed to the old one. (For flat plans the approval's amount stops it: `AmountWithinConsent`.) |
| `records` | `RecordsArrive` | `README.md:45` says "Arcium calls record_billing_event_callback -> BillingEvent stored (immutable)", and `qedspecs/50-callbacks.qedspec:97` has the mandate writable in that callback. The request registers it read-only and the callback declares it `mut`, so the network's call fails; with a fair keeper and a fair network no record ever arrives, the request stays Pending, and `execute_pull` refuses every pull after the first flat one. No test runs this callback. With `ExtraWritable` the same property holds of the same instance. |
| `uncomputed` | `UsagePaysComputedCharge` | The comment at `validation_callback.rs:91-95` says a usage mandate on the flat validation path "should not happen -- usage mandates use usage_computation_callback", and within that callback it does not. But an approval given to a flat mandate outlives the change to a usage plan of the same cadence and pays a usage pull without a computation. |

Other behaviour a reader of the code should know, met while modelling; no run is
about it:

- a request whose computation aborts stays Pending: `ArciumRequestStatus::Aborted`
  is never assigned, and a Pending request cannot be started again;
- a mandate moved to a plan with `max_pulls` at or below its pulls stays Active
  but can neither be pulled nor expire; it can be cancelled;
- a record can be asked for only while the plan is flat, and its callback wants the plan
  of the request to be the mandate's still: were the registration corrected, a plan
  change before or after the request would leave the pull without a record, and every
  later pull waiting for it;
- a usage plan revised after a report was submitted makes that report's terms
  hash stale; its address is taken, so the period cannot be billed;
- alternating plans of different cadence can leave credit behind by rounding;
- an uncapped stream left alone until `rate * elapsed` exceeds u64 can no longer
  be settled, paused or cancelled;
- while a due settlement cannot be paid (empty escrow, token off) or the protocol
  is paused, a stream can be neither paused nor cancelled, and its meter runs;
  tokens left in the escrow of a cancelled stream have no instruction that moves
  them;
- `adjust_agent_mandate` compares a new limit with spending that is not renewed
  first: in a new day the owner cannot go below yesterday's spending until the
  agent has pulled once;
- a service taken off an agent's list and listed again starts with nothing spent;
- a plan's only tier may have a bound, which `usage_charge` is not given: units
  above it are charged too (`WithoutSoleBound`);
- `cancel` burns a credential of the mint that resolves then. A subscriber of an
  older release, with a credential of the plan's own mint, has none of the
  merchant's once `init_merchant_credential` made one, and neither the subscriber
  nor the admin can cancel that mandate (`CanAlwaysLeave` says who can);
- a holder may burn its credential in Token-2022 (`burnt`); with none left, neither the
  subscriber nor the admin can cancel the mandate;
- the credential of a mandate that expires is never burnt (`lapsed`);
- `migrate_mandate` refuses mandates with nonces or pulls so that nothing keyed by
  their address is stranded (`migrate_mandate.rs:73-75`); a usage report raises none
  of these, so a mandate with only a report is migrated and the report is left;
- a mandate in the older layout cannot be charged until `update_mandate` has grown
  its account: the hook deserialises the current size only (`grown`);
- plans of an older layout get no billing mint when they are migrated or updated,
  and then any registered mint is accepted for them;
- while `ProtocolConfig` is in its older layout the hook refuses every transfer; any
  admin instruction upgrades it;
- the hook's bypass for the vault never applies: the vault is an account of the SPL
  mint, and the branch asks for the wrapped one;
- `init_wrapped_mint` takes the vault of any SPL mint; with one that has not six
  decimals `wrap` can never succeed, and the choice cannot be undone;
- `README.md:345` says `execute_pull` "is blocked if the previous pull has no finalized
  `BillingEvent`". That is so after a flat pull. A usage pull sets
  `last_billing_recorded_pull` itself (`execute_pull.rs:365-367`) and never gets an
  event; the next one is not blocked. `RecordsSequential` states what holds of both;
- `README.md:339` says usage mandates "require a settled `UsageReport` before
  `request_validation` proceeds to `execute_pull`". The report is settled by
  `execute_pull`, after the payment (`execute_pull.rs:377`); request, callback and pull
  take an unsettled one only, and `request_validation` is for flat plans.
  `SECURITY-AUDIT.md:35` describes it as the code does, and `ReportsSettledByPayment`
  is what holds;
- the repository's README has `create_plan` mint a credential mint (`README.md:58`)
  and credential mints issued per mandate (`:338`); plans now wait for the
  merchant's one mint, and one token of it is issued per mandate.

## 6. What is not modelled, and why

- The circuits' cryptography, the network's protocol and fees: outside this code. Of
  `validate_mandate` only the verdict is used, and its inputs are encrypted by the
  requester, so every verdict is possible; `record_billing_event` packs values.
- Registration of computation definitions (`init_comp_defs.rs`): writes no account
  this program reads.
- Cluster, endpoint, keeper mode, oracle and program ids in the configuration:
  values that are compared with the accounts passed in, and refuse.
- Byte formats: a layout is a name, an upgrade keeps or loses fields.
- The hook's `fallback`, `lib.rs` of the program: dispatch.
- Who pays rent, compute budgets, account sizes: not about the promises above.
- u64 widths in billing and budgets: amounts there are added with `checked_add`,
  an overflow is one more refused instruction; streams, which multiply by time,
  have the width (`U64Max`), and credit, which accumulates, has `MaxCredit`.

## 7. Plan

Done, in this order: streams (most concurrent arithmetic), billing (most
interleaving), agent budgets (most limits), proofs for all three; then usage
pricing with both circuits, a merchant's accounts across releases, the deployment
with the wrapped token, and proofs for these; then the sums (books, credentials,
backing, metered units), and consent, computed charges, records and the contract
of a subscription as theorems.

Left, in order of what it would add:

1. `MandateBilling` and `Deployment` composed in one behaviour, with a change of
   cluster or keeper between a request and its callback.
2. Abstract specifications of a merchant's accounts and of a deployment, as there
   are of streams, subscriptions and budgets.
