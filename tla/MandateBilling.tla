---------------------------- MODULE MandateBilling ----------------------------
(***************************************************************************)
(* One subscription: the VelaMandate account, its PullApproval, its usage  *)
(* reports and billing events, the Arcium requests made for it, the plans  *)
(* it may move between, and the token account its address owns.            *)
(*                                                                         *)
(* A period is billed by a conversation with an external network.  A       *)
(* request instruction stores a pending request and queues a computation;  *)
(* the network answers later, in any order, more than once or never, by    *)
(* calling the callback, and anybody may run another instruction between   *)
(* the two.  Each instruction is one transaction, hence one action.  The   *)
(* computations already queued are kept for ever, so a late or repeated    *)
(* answer is simply another step, and a lost, aborted or refused one (the  *)
(* callback errors and changes nothing) is one that is never taken.        *)
(*                                                                         *)
(* Every plan is Active (no instruction retires one) and is settled in the *)
(* same mint; accounts of older layouts load as current ones.              *)
(***************************************************************************)
EXTENDS Integers, FiniteSets

CONSTANTS
  PlanIds,             \* the merchant's plans
  NoPlan,              \* Pubkey::default()
  FirstTerms,          \* the terms each plan is created with
  Revisions,           \* what update_plan and update_usage_plan (by type) may write
  Charges,             \* what the usage circuits may compute
  Verdicts,            \* what the validation circuit may answer
  Unlimited,           \* u64::MAX, the pull limit of a usage plan
  MaxCredit,           \* u64::MAX, where adding to the credit overflows
  TTL,                 \* life of an approval: 3600 seconds in the code
  Deposits,            \* amounts a wallet may send to the mandate's account
  Interrupts,          \* may the admin switches and the cancellations happen?
  ExtraWritable,       \* may a callback get accounts writable that were registered
                       \* read-only?  Not from a network that does as it is told
  MaxFunds,            \* bound: tokens ever deposited
  MaxRequests,         \* bound: requests of each kind
  MaxTime              \* bound: the last instant of the clock

BillingTypes == {"Flat", "Usage"}
Flows        == {"Validation", "UsageComputation", "BillingRecord"}

\* An amount is the price of a flat plan and the cap of a usage plan.
PlanTerms == [type : BillingTypes, amount : Nat \ {0}, frequency : Nat \ {0},
              maxPulls : Nat \ {0}, trial : Nat]

ASSUME PlansAssumption == /\ NoPlan \notin PlanIds
                          /\ FirstTerms \in [PlanIds -> PlanTerms]
ASSUME RevisionsAssumption ==
  Revisions \subseteq [type : BillingTypes, amount : Nat \ {0}, frequency : Nat \ {0},
                      maxPulls : Nat \ {0}]
ASSUME OutcomesAssumption == Charges \subseteq Nat /\ Verdicts \subseteq {0, 1}
ASSUME DepositsAssumption == Deposits \subseteq Nat
ASSUME LimitsAssumption   == /\ Unlimited \in Nat \ {0} /\ TTL \in Nat \ {0}
                             /\ MaxCredit \in Nat /\ Interrupts \in BOOLEAN
                             /\ ExtraWritable \in BOOLEAN
ASSUME BoundsAssumption   == /\ MaxFunds \in Nat /\ MaxRequests \in Nat
                             /\ MaxTime \in Nat

VARIABLES
  now,           \* Clock::unix_timestamp
  paused,        \* ProtocolConfig.paused
  tokenEnabled,  \* TokenConfig.enabled
  plans,         \* the plan accounts
  mandate,       \* the VelaMandate account
  approval,      \* the PullApproval account
  pending,       \* the ArciumRequestState accounts whose status is Pending
  queued,        \* computations handed to the network
  reports,       \* the UsageReport accounts
  events,        \* pulls that have their BillingEvent
  escrow,        \* wrapped tokens in the account the mandate's address owns
  received,      \* wrapped tokens the merchant got from this mandate
  \* History variables: no action's guard reads them.
  answers,       \* answers of the network a callback accepted
  grantedBy,     \* the computation that wrote the standing approval
  payments,      \* the pulls executed, with the period and amount of each
  consented      \* the highest amount the subscriber's own signature allows

chain    == <<paused, tokenEnabled>>
money    == <<escrow, received>>
requests == <<pending, queued>>
ghosts   == <<answers, grantedBy, payments, consented>>
vars     == <<now, paused, tokenEnabled, plans, mandate, approval, pending,
              queued, reports, events, escrow, received, answers,
              grantedBy, payments, consented>>

Signers  == {"subscriber", "merchant", "keeper", "admin", "stranger"}
Statuses == {"Absent", "Active", "Cancelled", "Expired", "Closed"}

NoMandate ==
  [status |-> "Absent", plan |-> NoPlan, type |-> "Flat", amount |-> 0,
   frequency |-> 0, maxPulls |-> 0, expiry |-> 0, nextDue |-> 0, pulls |-> 0,
   recorded |-> 0, credit |-> 0, pendingPlan |-> NoPlan, pendingAt |-> 0,
   vNonce |-> 0, bNonce |-> 0]

\* bound: does approval.mandate name this mandate (a reset clears it)?
NoApproval == [exists |-> FALSE, bound |-> FALSE, approved |-> FALSE,
               start |-> 0, end |-> 0, validUntil |-> 0, amount |-> 0]

NoComputation == [flow |-> "Validation", subject |-> 0, nonce |-> 0,
                  result |-> 0, plan |-> NoPlan]

Exists(m) == m.status \notin {"Absent", "Closed"}

\* The terms a plan gives a mandate, pending change cleared with them.
WithTerms(m, p) ==
  [m EXCEPT !.plan = p, !.type = plans[p].type, !.amount = plans[p].amount,
            !.frequency = plans[p].frequency, !.maxPulls = plans[p].maxPulls,
            !.pendingPlan = NoPlan, !.pendingAt = 0]
------------------------------------------------------------------------------
(* Periods and approvals. *)

\* mandate_billing_period: labelled by the current due date and frequency.
PeriodStart(m) == m.nextDue - m.frequency
PeriodEnd(m)   == m.nextDue

InForce(m) == m.expiry > 0 => now < m.expiry

\* The approval the program and the hook accept for this mandate now.
ApprovalStands(m) ==
  /\ approval.exists /\ approval.bound /\ approval.approved
  /\ approval.start = PeriodStart(m) /\ approval.end = PeriodEnd(m)
  /\ now <= approval.validUntil

\* A request replaces whatever approval there was by an empty one.
Reset == [NoApproval EXCEPT !.exists = TRUE]

Approve(m, verdict, amount) ==
  [exists |-> TRUE, bound |-> TRUE, approved |-> verdict,
   start |-> PeriodStart(m), end |-> PeriodEnd(m),
   validUntil |-> now + TTL, amount |-> amount]

(* Requests.  An offset hashes the mandate, the subject and the nonce, and  *)
(* the flow has its own seeds, so equal offsets mean an equal request.      *)

Request(c) == [flow |-> c.flow, subject |-> c.subject, nonce |-> c.nonce]

\* A subject may be asked about again once its request was answered.
StartOnlyOnce(c) ==
  /\ \A d \in queued : ~(d.flow = c.flow /\ d.subject = c.subject)
  /\ pending' = pending \cup {Request(c)}
  /\ queued' = queued \cup {c}
Start(c) ==
  /\ \A r \in pending : ~(r.flow = c.flow /\ r.subject = c.subject)
  /\ pending' = pending \cup {Request(c)}
  /\ queued' = queued \cup {c}

\* What a request registers as writable in its callback, and what the callback
\* declares mut; the rest of both lists is the same and read-only.
RegisteredWritable(flow) ==
  CASE flow = "Validation"       -> {"request", "approval"}
    [] flow = "UsageComputation" -> {"request", "approval", "report"}
    [] flow = "BillingRecord"    -> {"request", "event"}
DeclaredMut(flow) ==
  CASE flow = "Validation"       -> {"request", "approval"}
    [] flow = "UsageComputation" -> {"request", "approval", "report"}
    [] flow = "BillingRecord"    -> {"request", "event", "mandate"}
AccountsFit(flow) == ExtraWritable \/ DeclaredMut(flow) \subseteq RegisteredWritable(flow)

\* The callback's accounts pass their constraints, and the stored request is
\* Pending, for the subject they name now, with this computation's offset.
Awaited(c, flow, subject) ==
  /\ AccountsFit(flow)
  /\ c.flow = flow /\ c.subject = subject
  /\ Request(c) \in pending

LeavePending(c) == UNCHANGED pending
Complete(c)     == pending' = pending \ {Request(c)}
------------------------------------------------------------------------------
(* Subscribing and validating. *)

\* Only a flat plan with a trial gives its mandates an expiry.
ExpiryOf(t) ==
  IF t.type = "Flat" /\ t.trial > 0 THEN now + t.trial + t.frequency * t.maxPulls ELSE 0

FirstDue(t) ==
  now + (IF t.type = "Flat" /\ t.trial > 0 THEN t.trial ELSE t.frequency)

Subscribe(p) ==
  /\ mandate.status = "Absent"
  /\ tokenEnabled
  /\ mandate' = [WithTerms(NoMandate, p) EXCEPT
                   !.status = "Active", !.expiry = ExpiryOf(plans[p]),
                   !.nextDue = FirstDue(plans[p])]
  /\ consented' = plans[p].amount
  /\ UNCHANGED <<now, chain, plans, approval, requests, reports, events, money,
                 answers, grantedBy, payments>>

MaySkipDue(m) == TRUE
IsDue(m)      == now >= m.nextDue

\* Permissionless, and allowed while the protocol is paused.
RequestValidation(verdict) ==
  LET c == [flow |-> "Validation", subject |-> mandate.nextDue,
            nonce |-> mandate.vNonce + 1, result |-> verdict, plan |-> NoPlan]
  IN /\ mandate.status = "Active"
     /\ plans[mandate.plan].type = "Flat"
     /\ mandate.amount = plans[mandate.plan].amount
     /\ mandate.pulls < mandate.maxPulls
     /\ InForce(mandate)
     /\ IsDue(mandate)
     /\ ~ApprovalStands(mandate)
     /\ mandate.vNonce < MaxRequests                 \* bound
     /\ Start(c)
     /\ approval' = Reset
     /\ grantedBy' = NoComputation
     /\ mandate' = [mandate EXCEPT !.vNonce = @ + 1]
     /\ UNCHANGED <<now, chain, plans, reports, events, money, answers,
                    payments, consented>>

\* The mandate is read again: its amount and period are today's, not those
\* the network was asked about.
ValidateMandateCallback(c) ==
  /\ mandate.status = "Active"
  /\ Awaited(c, "Validation", mandate.nextDue)
  /\ mandate.type = "Flat"
  /\ approval.exists
  /\ approval' = Approve(mandate, c.result = 1, mandate.amount)
  /\ grantedBy' = c
  /\ Complete(c)
  /\ answers' = answers + 1
  /\ UNCHANGED <<now, chain, plans, mandate, queued, reports, events, money,
                 payments, consented>>
------------------------------------------------------------------------------
(* Usage reports and their computation. *)

\* The terms hash a report commits to.
TermsHash(p) == [plan |-> p, terms |-> plans[p]]

SubmitUsageReport(who) ==
  /\ mandate.status = "Active"
  /\ who = "merchant"
  /\ mandate.type = "Usage" /\ plans[mandate.plan].type = "Usage"
  /\ now >= PeriodEnd(mandate)
  \* The report's address is its mandate and period start, created once.
  /\ \A r \in reports : r.start # PeriodStart(mandate)
  /\ reports' = reports \cup {[start |-> PeriodStart(mandate), end |-> PeriodEnd(mandate),
                               hash |-> TermsHash(mandate.plan), settled |-> FALSE]}
  /\ UNCHANGED <<now, chain, plans, mandate, approval, requests, events, money, ghosts>>

IsCurrent(r) == r.start = PeriodStart(mandate) /\ r.end = PeriodEnd(mandate)

\* The circuits clamp the charge to the plan's cap at the time of the request.
RequestUsageComputation(r, charge) ==
  LET c == [flow |-> "UsageComputation", subject |-> r.start,
            nonce |-> mandate.vNonce + 1, result |-> charge, plan |-> NoPlan]
  IN /\ mandate.status = "Active"
     /\ mandate.type = "Usage"
     /\ ~r.settled
     /\ IsCurrent(r)
     /\ now >= PeriodEnd(mandate)
     /\ r.hash = TermsHash(mandate.plan)
     /\ charge <= plans[mandate.plan].amount
     /\ ~ApprovalStands(mandate)
     /\ mandate.vNonce < MaxRequests                 \* bound
     /\ Start(c)
     /\ approval' = Reset
     /\ grantedBy' = NoComputation
     /\ mandate' = [mandate EXCEPT !.vNonce = @ + 1]
     /\ UNCHANGED <<now, chain, plans, reports, events, money, answers,
                    payments, consented>>

WithinCap(charge) == charge <= mandate.amount

UsageComputationCallback(c, r) ==
  /\ mandate.status = "Active"
  /\ Awaited(c, "UsageComputation", r.start)
  /\ mandate.type = "Usage"
  /\ ~r.settled
  /\ IsCurrent(r)
  /\ WithinCap(c.result)
  /\ approval.exists
  /\ approval' = Approve(mandate, TRUE, c.result)
  /\ grantedBy' = c
  /\ Complete(c)
  /\ answers' = answers + 1
  /\ UNCHANGED <<now, chain, plans, mandate, queued, reports, events, money,
                 payments, consented>>
------------------------------------------------------------------------------
(* The pull. *)

ChangeIsDue(m) == m.pendingPlan # NoPlan /\ now >= m.pendingAt

\* A scheduled change is applied first, with the terms its plan has by now.
Effective(m) == IF ChangeIsDue(m) THEN WithTerms(m, m.pendingPlan) ELSE m

BaseIsTheCap(m) == m.amount
\* A flat pull charges the mandate, a usage pull what was computed.
Base(m) == IF m.type = "Flat" THEN m.amount ELSE approval.amount

CoveredByAnything(m) == TRUE
CoveredByApproval(m) ==
  IF m.type = "Flat" THEN m.amount <= approval.amount ELSE approval.amount <= m.amount

Least(a, b) == IF a <= b THEN a ELSE b

TransferIgnoringBalance(amount) ==
  tokenEnabled /\ ApprovalStands(mandate) /\ amount <= approval.amount
\* The hook checks the mandate as it was before the pull was written back.
TransferSucceeds(amount) ==
  /\ tokenEnabled
  /\ ApprovalStands(mandate)
  /\ amount <= approval.amount
  /\ amount <= escrow

Charge(amount) ==
  /\ amount > 0 => TransferSucceeds(amount)
  /\ escrow' = escrow - amount
  /\ received' = received + amount

\* The account after a pull that used some of its credit.
PulledForgettingRecord(m, used) ==
  [m EXCEPT !.credit = @ - used, !.pulls = @ + 1, !.nextDue = @ + m.frequency,
            !.recorded = m.pulls + 1,
            !.status = IF m.pulls + 1 >= m.maxPulls THEN "Expired" ELSE @]
PulledKeepingDue(m, used) ==
  [m EXCEPT !.credit = @ - used, !.pulls = @ + 1,
            !.recorded = IF m.type = "Usage" THEN m.pulls + 1 ELSE @,
            !.status = IF m.pulls + 1 >= m.maxPulls THEN "Expired" ELSE @]
Pulled(m, used) ==
  [m EXCEPT !.credit = @ - used, !.pulls = @ + 1, !.nextDue = @ + m.frequency,
            !.recorded = IF m.type = "Usage" THEN m.pulls + 1 ELSE @,
            !.status = IF m.pulls + 1 >= m.maxPulls THEN "Expired" ELSE @]

\* A usage pull names the unsettled report of its period, and settles it.
UnsettledReports == {r \in reports : ~r.settled}
CurrentReports == {r \in reports : IsCurrent(r) /\ ~r.settled}
WithSettled    == (reports \ CurrentReports)
                    \cup {[r EXCEPT !.settled = TRUE] : r \in CurrentReports}

ExecutePull(who) ==
  LET m    == Effective(mandate)
      used == Least(Base(m), mandate.credit)
  IN /\ mandate.status = "Active"
     /\ ~paused
     /\ who \in {"keeper", "subscriber"}
     /\ plans[mandate.plan].type = mandate.type
     /\ tokenEnabled
     /\ mandate.recorded = mandate.pulls
     /\ InForce(mandate)
     /\ mandate.pulls < mandate.maxPulls
     /\ IsDue(mandate)
     /\ m.type = mandate.type
     /\ ApprovalStands(mandate)
     /\ mandate.type = "Usage" => CurrentReports # {}
     /\ CoveredByApproval(m)
     /\ Charge(Base(m) - used)
     /\ mandate' = Pulled(m, used)
     /\ reports' = IF mandate.type = "Usage" THEN WithSettled ELSE reports
     /\ approval' = NoApproval
     /\ grantedBy' = NoComputation
     /\ payments' = payments \cup
          {[pull |-> mandate.pulls + 1, type |-> mandate.type,
            start |-> PeriodStart(mandate), end |-> PeriodEnd(mandate),
            base |-> Base(m), grant |-> grantedBy]}
     /\ UNCHANGED <<now, chain, plans, requests, events, answers, consented>>
------------------------------------------------------------------------------
(* The billing record of a flat pull. *)

\* No status is required: the last pull of an expired or cancelled mandate
\* is recorded too.
RequestBillingRecord ==
  LET c == [flow |-> "BillingRecord", subject |-> mandate.pulls,
            nonce |-> mandate.bNonce + 1, result |-> 0, plan |-> mandate.plan]
  IN /\ Exists(mandate)
     /\ mandate.pulls > 0
     /\ plans[mandate.plan].type = "Flat"
     /\ mandate.recorded < mandate.pulls
     /\ mandate.pulls \notin events
     /\ mandate.bNonce < MaxRequests                 \* bound
     /\ Start(c)
     /\ mandate' = [mandate EXCEPT !.bNonce = @ + 1]
     /\ UNCHANGED <<now, chain, plans, approval, reports, events, money, ghosts>>

\* The plan account travels with the computation, fixed when it was queued.  So
\* does the mandate, read-only although it is written here: as registered, the
\* accounts do not fit and the callback always fails.
RecordBillingEventCallback(c) ==
  /\ Exists(mandate)
  /\ Awaited(c, "BillingRecord", mandate.pulls)
  /\ c.plan = mandate.plan
  /\ mandate.pulls \notin events
  /\ events' = events \cup {mandate.pulls}
  /\ mandate' = [mandate EXCEPT !.recorded = mandate.pulls]
  /\ Complete(c)
  /\ answers' = answers + 1
  /\ UNCHANGED <<now, chain, plans, approval, queued, reports, money,
                 grantedBy, payments, consented>>
------------------------------------------------------------------------------
(* Changing plan. *)

IsParty(who) == who \in {"subscriber", "merchant"}

\* A higher amount takes the subscriber's own signature.
AnyPartyMayRaise(who, p) == IsParty(who)
MayMoveTo(who, p) ==
  /\ IsParty(who)
  /\ plans[p].amount > mandate.amount => who = "subscriber"

SignedFor(who, p) ==
  IF who = "subscriber" /\ plans[p].amount > consented THEN plans[p].amount ELSE consented

\* elapsed_in_period: clamped to the period.
Elapsed(m) ==
  IF now <= PeriodStart(m) THEN 0
  ELSE IF now >= m.nextDue THEN m.frequency ELSE now - PeriodStart(m)

\* compute_proration: the unused time at the new amount, less at the old one,
\* rounded toward zero.
ProrationOfElapsed(m, amount) == ((amount - m.amount) * Elapsed(m)) \div m.frequency
Proration(m, amount) ==
  LET unused == m.frequency - Elapsed(m)
  IN IF amount >= m.amount THEN ((amount - m.amount) * unused) \div m.frequency
     ELSE -(((m.amount - amount) * unused) \div m.frequency)

\* Choosing the mandate's own plan succeeds and does nothing.
UpdateMandatePlan(who, p) ==
  LET delta == Proration(mandate, plans[p].amount)
  IN /\ mandate.status = "Active"
     /\ ~paused
     /\ tokenEnabled
     /\ MayMoveTo(who, p)
     /\ p # mandate.plan
     /\ delta > 0 => ApprovalStands(mandate) /\ delta <= approval.amount
     /\ delta < 0 => mandate.credit - delta <= MaxCredit
     /\ Charge(IF delta > 0 THEN delta ELSE 0)
     /\ approval' = IF delta > 0 THEN NoApproval ELSE approval
     /\ grantedBy' = IF delta > 0 THEN NoComputation ELSE grantedBy
     /\ mandate' = [WithTerms(mandate, p) EXCEPT
                      !.credit = @ + (IF delta < 0 THEN -delta ELSE 0)]
     /\ consented' = SignedFor(who, p)
     /\ UNCHANGED <<now, chain, plans, requests, reports, events, answers, payments>>

SchedulePlanChange(who, p) ==
  /\ mandate.status = "Active"
  /\ ~paused
  /\ MayMoveTo(who, p)
  /\ p # mandate.plan
  /\ mandate' = [mandate EXCEPT !.pendingPlan = p, !.pendingAt = mandate.nextDue]
  /\ consented' = SignedFor(who, p)
  /\ UNCHANGED <<now, chain, plans, approval, requests, reports, events, money,
                 answers, grantedBy, payments>>

CancelPlanChange(who) ==
  /\ mandate.status = "Active"
  /\ mandate.pendingPlan # NoPlan
  /\ IsParty(who)
  /\ mandate' = [mandate EXCEPT !.pendingPlan = NoPlan, !.pendingAt = 0]
  /\ UNCHANGED <<now, chain, plans, approval, requests, reports, events, money, ghosts>>

\* update_plan and update_usage_plan rewrite the account every mandate of the
\* plan points at; a usage plan has no pull limit of its own.
UpdatePlan(who, p, revision) ==
  /\ who = "merchant"
  /\ plans[p].type = "Flat" /\ revision.type = "Flat"
  /\ plans' = [plans EXCEPT ![p].amount = revision.amount,
                            ![p].frequency = revision.frequency,
                            ![p].maxPulls = revision.maxPulls]
  /\ UNCHANGED <<now, chain, mandate, approval, requests, reports, events, money, ghosts>>

UpdateUsagePlan(who, p, revision) ==
  /\ who = "merchant"
  /\ plans[p].type = "Usage" /\ revision.type = "Usage"
  /\ plans' = [plans EXCEPT ![p].amount = revision.amount,
                            ![p].frequency = revision.frequency]
  /\ UNCHANGED <<now, chain, mandate, approval, requests, reports, events, money, ghosts>>
------------------------------------------------------------------------------
(* Ending the mandate. *)

CancelMandate ==
  /\ mandate.status = "Active"
  /\ plans[mandate.plan].type = mandate.type
  /\ mandate' = [mandate EXCEPT !.status = "Cancelled"]
  /\ UNCHANGED <<now, chain, plans, approval, requests, reports, events, money, ghosts>>

Cancel(who)      == Interrupts /\ who = "subscriber" /\ CancelMandate
AdminCancel(who) == Interrupts /\ who = "admin" /\ CancelMandate

CloseMandate(who) ==
  /\ mandate.status \in {"Cancelled", "Expired"}
  /\ who = "subscriber"
  \* The account is erased; no handler loads it again.
  /\ mandate' = [mandate EXCEPT !.status = "Closed"]
  /\ UNCHANGED <<now, chain, plans, approval, requests, reports, events, money, ghosts>>
------------------------------------------------------------------------------
(* The surroundings: wallets, the admin, the clock. *)

Fund(amount) ==
  /\ tokenEnabled
  /\ escrow + received + amount <= MaxFunds          \* bound
  /\ escrow' = escrow + amount
  /\ UNCHANGED <<now, chain, plans, mandate, approval, requests, reports, events,
                 received, ghosts>>

SetPaused(flag) ==
  /\ Interrupts
  /\ paused' = flag
  /\ UNCHANGED <<now, tokenEnabled, plans, mandate, approval, requests, reports,
                 events, money, ghosts>>

SetTokenEnabled(flag) ==
  /\ Interrupts
  /\ tokenEnabled' = flag
  /\ UNCHANGED <<now, paused, plans, mandate, approval, requests, reports,
                 events, money, ghosts>>

Tick ==
  /\ now < MaxTime                                   \* bound
  /\ now' = now + 1
  /\ UNCHANGED <<chain, plans, mandate, approval, requests, reports, events, money, ghosts>>
------------------------------------------------------------------------------
Init ==
  /\ now = 0 /\ paused = FALSE /\ tokenEnabled = TRUE
  /\ plans = FirstTerms
  /\ mandate = NoMandate /\ approval = NoApproval
  /\ pending = {} /\ queued = {} /\ reports = {} /\ events = {}
  /\ escrow = 0 /\ received = 0
  /\ answers = 0 /\ grantedBy = NoComputation /\ payments = {} /\ consented = 0

Answer(c) ==
  \/ ValidateMandateCallback(c)
  \/ \E r \in reports : UsageComputationCallback(c, r)
  \/ RecordBillingEventCallback(c)

Next ==
  \/ \E p \in PlanIds : Subscribe(p)
  \/ \E verdict \in Verdicts : RequestValidation(verdict)
  \/ \E r \in reports, charge \in Charges : RequestUsageComputation(r, charge)
  \/ RequestBillingRecord
  \/ \E c \in queued : Answer(c)
  \/ \E who \in Signers : \/ SubmitUsageReport(who) \/ ExecutePull(who)
                          \/ CancelPlanChange(who)
                          \/ Cancel(who) \/ AdminCancel(who) \/ CloseMandate(who)
  \/ \E who \in Signers, p \in PlanIds :
       \/ UpdateMandatePlan(who, p) \/ SchedulePlanChange(who, p)
       \/ \E revision \in Revisions :
            UpdatePlan(who, p, revision) \/ UpdateUsagePlan(who, p, revision)
  \/ \E amount \in Deposits : Fund(amount)
  \/ \E flag \in BOOLEAN : SetPaused(flag) \/ SetTokenEnabled(flag)
  \/ Tick

Spec == Init /\ [][Next]_vars

\* The keeper asks, pulls and asks for the record; the network answers; time
\* passes.  Nobody is obliged to pay money in, report usage or change plan.
FairSpec ==
  /\ Spec
  /\ WF_vars(\E verdict \in Verdicts : RequestValidation(verdict))
  /\ WF_vars(\E r \in reports, charge \in Charges : RequestUsageComputation(r, charge))
  /\ WF_vars(\E c \in queued : Answer(c))
  /\ WF_vars(ExecutePull("keeper"))
  /\ WF_vars(RequestBillingRecord)
  /\ WF_vars(Tick)
------------------------------------------------------------------------------
(* Properties. *)

MandateType ==
  [status : Statuses, plan : PlanIds \cup {NoPlan}, type : BillingTypes,
   amount : Nat, frequency : Nat, maxPulls : Nat, expiry : Nat, nextDue : Nat,
   pulls : Nat, recorded : Nat, credit : Nat,
   pendingPlan : PlanIds \cup {NoPlan}, pendingAt : Nat, vNonce : Nat, bNonce : Nat]

ApprovalType ==
  [exists : BOOLEAN, bound : BOOLEAN, approved : BOOLEAN,
   start : Int, end : Nat, validUntil : Nat, amount : Nat]

RequestType     == [flow : Flows, subject : Int, nonce : Nat]
ComputationType == [flow : Flows, subject : Int, nonce : Nat, result : Nat,
                    plan : PlanIds \cup {NoPlan}]

\* Types; the handlers never overdraw the account nor the credit.
TypeOK ==
  /\ now \in 0 .. MaxTime
  /\ paused \in BOOLEAN /\ tokenEnabled \in BOOLEAN
  /\ plans \in [PlanIds -> PlanTerms]
  /\ mandate \in MandateType
  /\ approval \in ApprovalType
  /\ pending \subseteq RequestType /\ queued \subseteq ComputationType
  /\ events \subseteq Nat
  /\ escrow \in Nat /\ received \in Nat
  /\ answers \in Nat /\ grantedBy \in ComputationType /\ consented \in Nat

\* request_*, start_ and complete_arcium_request: every computation asked for
\* is still pending or was answered exactly once, whatever the network repeats
\* and whichever request replaces which.
RequestsAnsweredOnce == answers + Cardinality(pending) = Cardinality(queued)

\* execute_pull is held back until the previous pull counts as recorded: at
\* most one pull is not, and the flat pulls that are recorded are exactly those
\* with a BillingEvent, through every plan and type change.  This is less than
\* README.md:345 says, that a pull waits for the BillingEvent of the one before: a
\* usage pull counts as recorded when it is executed, and never gets an event.
RecordsSequential ==
  /\ mandate.recorded \in {mandate.pulls - 1, mandate.pulls}
  /\ events = {p.pull : p \in {q \in payments :
                               q.type = "Flat" /\ q.pull <= mandate.recorded}}

\* An answer can only make an approval of a period that is over: request and
\* callback read next_payment_due separately, with plan changes in between.
ApprovedMeansDue ==
  approval.approved => approval.end <= now /\ approval.end <= mandate.nextDue

\* No two pulls settle the period that ends at the same due date, whatever
\* frequencies the plans of the mandate had in between.
NoPeriodPaidTwice ==
  \A p, q \in payments : p.end = q.end => p = q

\* update_mandate_plan has a branch that charges a proration against the
\* period's approval.  Such an approval exists only once the period is over,
\* when the proration is zero: only pulls move money.
OnlyPullsCharge ==
  [][received' > received => mandate'.pulls = mandate.pulls + 1]_vars

\* A merchant can move the mandate and rewrite its plans, but the amount of a
\* mandate never rises above what its subscriber signed.
WithinConsent == mandate.amount <= consented

\* A usage pull pays the charge computed from the report of its own period.
UsagePaysComputedCharge ==
  \A p \in payments : p.type = "Usage" =>
    /\ p.grant.flow = "UsageComputation"
    /\ p.grant.subject = p.start
    /\ p.base = p.grant.result

\* mark_usage_report_settled: a report is settled exactly when a pull paid its
\* own period, although plan changes relabel periods and leave reports behind.
\* README.md:339 has the report settled before the pull; the code settles it in
\* the pull, which takes an unsettled one.
ReportsSettledByPayment ==
  \A r \in reports :
    r.settled <=> \E p \in payments : /\ p.type = "Usage"
                                      /\ p.start = r.start /\ p.end = r.end

\* What the mandate promises its parties, period by period.
Contract == INSTANCE RecurringPayment WITH
  clock <- now, live <- mandate.status = "Active", due <- mandate.nextDue,
  count <- mandate.pulls, recorded <- mandate.recorded, ceiling <- consented,
  credit <- mandate.credit, collected <- received
ImplementsContract == Contract!Spec

\* The keeper's loop and the network's answers collect a period that is due, or
\* reported in a usage plan, although approvals expire and are asked for again:
\* as long as nothing waits for a record, the plan stays, the account can pay
\* and nobody ends the mandate.
Collectable(k, p) ==
  /\ mandate.status = "Active" /\ mandate.plan = p
  /\ mandate.pulls = k /\ mandate.recorded = k
  /\ mandate.nextDue <= MaxTime
  /\ mandate.type = "Usage" => \E r \in CurrentReports : r.hash = TermsHash(p)
KeeperCollects ==
  \A k \in 0 .. MaxTime, p \in PlanIds :
    Collectable(k, p) ~> \/ mandate.pulls > k
                         \/ mandate.status # "Active" \/ mandate.plan # p
                         \/ escrow < mandate.amount

\* schedule_plan_change promises the new plan at the next due pull: an
\* approval that stands when the change is due covers the new price.
ScheduledChangeCovered ==
  mandate.status = "Active" /\ ChangeIsDue(mandate) /\ ApprovalStands(mandate)
    => CoveredByApproval(Effective(mandate))

\* The README's payment flow: the network calls record_billing_event_callback
\* and the BillingEvent of a pull whose record was requested is stored.
RecordsArrive ==
  \A n \in 1 .. MaxTime :
    (\E r \in pending : r.flow = "BillingRecord" /\ r.subject = n)
      ~> n \in events \/ ~Exists(mandate)
==============================================================================
