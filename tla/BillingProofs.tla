---------------------------- MODULE BillingProofs ----------------------------
(***************************************************************************)
(* Theorems about MandateBilling, for every value of its constants: types, *)
(* no early approval, that only pulls move money, and what a plan change   *)
(* is prorated to.                                                         *)
(***************************************************************************)
EXTENDS MandateBilling, TLAPS

\* A mandate that was ever opened points at a plan and has a period.
Tied == /\ mandate.status = "Absent" => mandate.nextDue = 0
        /\ mandate.status # "Absent" => mandate.plan \in PlanIds /\ mandate.frequency # 0

\* Everything that can turn into an approval is about a period that is over.
RequestsTimely == \A r \in pending : r.flow = "Validation" => r.subject <= now
ReportType     == [start : Int, end : Nat, settled : BOOLEAN,
                   hash : [plan : PlanIds, terms : PlanTerms]]
ReportsTimely  == reports \subseteq ReportType /\ \A r \in reports : r.end <= now

\* The inductive invariant.
BillingInv == TypeOK /\ Tied /\ RequestsTimely /\ ReportsTimely /\ ApprovedMeansDue
------------------------------------------------------------------------------
(* The helpers. *)

\* What TypeOK says of each field.
LEMMA FieldTypes ==
  ASSUME TypeOK
  PROVE  /\ now \in Nat /\ now <= MaxTime
         /\ mandate.status \in Statuses /\ mandate.plan \in PlanIds \cup {NoPlan}
         /\ mandate.type \in BillingTypes /\ mandate.amount \in Nat
         /\ mandate.frequency \in Nat /\ mandate.maxPulls \in Nat
         /\ mandate.nextDue \in Nat /\ mandate.pulls \in Nat
         /\ mandate.recorded \in Nat /\ mandate.credit \in Nat
         /\ mandate.pendingPlan \in PlanIds \cup {NoPlan}
         /\ mandate.vNonce \in Nat /\ mandate.bNonce \in Nat
         /\ approval.approved \in BOOLEAN /\ approval.end \in Nat
         /\ approval.amount \in Nat
  BY BoundsAssumption DEF TypeOK, MandateType, ApprovalType

\* The terms of a plan.
LEMMA TermTypes ==
  ASSUME TypeOK, NEW p \in PlanIds
  PROVE  /\ plans[p].type \in BillingTypes /\ plans[p].amount \in Nat
         /\ plans[p].frequency \in Nat /\ plans[p].frequency # 0
         /\ plans[p].maxPulls \in Nat /\ plans[p].trial \in Nat
  BY DEF TypeOK, PlanTerms

\* Taking over a plan's terms touches neither the clock nor the counters.
LEMMA TermsTaken ==
  ASSUME TypeOK, NEW m \in MandateType, NEW p \in PlanIds
  PROVE  /\ WithTerms(m, p) \in MandateType
         /\ WithTerms(m, p).plan = p /\ WithTerms(m, p).frequency = plans[p].frequency
         /\ WithTerms(m, p).status = m.status /\ WithTerms(m, p).nextDue = m.nextDue
         /\ WithTerms(m, p).pulls = m.pulls /\ WithTerms(m, p).recorded = m.recorded
         /\ WithTerms(m, p).credit = m.credit /\ WithTerms(m, p).expiry = m.expiry
<1>1. /\ plans[p].type \in BillingTypes /\ plans[p].amount \in Nat
      /\ plans[p].frequency \in Nat /\ plans[p].maxPulls \in Nat
  BY TermTypes
<1>2. WithTerms(m, p) \in MandateType
  BY <1>1 DEF WithTerms, MandateType
<1>3. /\ WithTerms(m, p).plan = p /\ WithTerms(m, p).frequency = plans[p].frequency
      /\ WithTerms(m, p).status = m.status /\ WithTerms(m, p).nextDue = m.nextDue
      /\ WithTerms(m, p).pulls = m.pulls /\ WithTerms(m, p).recorded = m.recorded
      /\ WithTerms(m, p).credit = m.credit /\ WithTerms(m, p).expiry = m.expiry
  BY DEF WithTerms, MandateType
<1> QED
  BY <1>2, <1>3

\* A quotient of naturals is one.
LEMMA QuotientIsNat ==
  ASSUME NEW a \in Nat, NEW b \in Nat, NEW c \in Nat, c # 0
  PROVE  (a * b) \div c \in Nat
<1>1. a * b \in Nat
  OBVIOUS
<1> QED
  BY <1>1

\* elapsed_in_period is clamped to the period.
LEMMA ElapsedInPeriod ==
  ASSUME TypeOK
  PROVE  Elapsed(mandate) \in Nat /\ Elapsed(mandate) <= mandate.frequency
  BY FieldTypes DEF Elapsed, PeriodStart

\* compute_proration is a whole number, and zero once the period is over.
LEMMA ProrationValue ==
  ASSUME TypeOK, mandate.frequency # 0, NEW amount \in Nat
  PROVE  /\ Proration(mandate, amount) \in Int
         /\ mandate.nextDue <= now => Proration(mandate, amount) = 0
<1> DEFINE unused == mandate.frequency - Elapsed(mandate)
<1>1. /\ unused \in Nat /\ mandate.amount \in Nat /\ mandate.frequency \in Nat
  BY FieldTypes, ElapsedInPeriod
<1>2. mandate.nextDue <= now => unused = 0
  BY FieldTypes DEF Elapsed, PeriodStart
<1> HIDE DEF unused
<1>3. CASE amount >= mandate.amount
  <2>1. Proration(mandate, amount) = ((amount - mandate.amount) * unused) \div mandate.frequency
    BY <1>3 DEF Proration, unused
  <2>2. amount - mandate.amount \in Nat
    BY <1>1, <1>3
  <2>3. ((amount - mandate.amount) * unused) \div mandate.frequency \in Nat
    BY <1>1, <2>2, QuotientIsNat
  <2>4. \A a \in Nat : (a * 0) \div mandate.frequency = 0
    BY <1>1
  <2> QED
    BY <1>2, <2>1, <2>2, <2>3, <2>4
<1>4. CASE ~(amount >= mandate.amount)
  <2>1. Proration(mandate, amount) = -(((mandate.amount - amount) * unused) \div mandate.frequency)
    BY <1>4 DEF Proration, unused
  <2>2. mandate.amount - amount \in Nat
    BY <1>1, <1>4
  <2>3. ((mandate.amount - amount) * unused) \div mandate.frequency \in Nat
    BY <1>1, <2>2, QuotientIsNat
  <2>4. \A a \in Nat : (a * 0) \div mandate.frequency = 0
    BY <1>1
  <2> QED
    BY <1>2, <2>1, <2>2, <2>3, <2>4
<1> QED
  BY <1>3, <1>4
------------------------------------------------------------------------------
(* The invariant is inductive: one lemma for each instruction. *)

\* The invariant, in the parts an instruction changes.
LEMMA Parts ==
  BillingInv <=> /\ now \in 0 .. MaxTime
                 /\ paused \in BOOLEAN /\ tokenEnabled \in BOOLEAN
                 /\ plans \in [PlanIds -> PlanTerms]
                 /\ mandate \in MandateType /\ Tied
                 /\ approval \in ApprovalType /\ ApprovedMeansDue
                 /\ pending \subseteq RequestType /\ queued \subseteq ComputationType
                 /\ RequestsTimely /\ ReportsTimely
                 /\ events \subseteq Nat
                 /\ escrow \in Nat /\ received \in Nat
                 /\ answers \in Nat /\ grantedBy \in ComputationType /\ consented \in Nat
  BY DEF BillingInv, TypeOK

\* The same parts after a step.
LEMMA Assembled ==
  ASSUME now' \in 0 .. MaxTime, paused' \in BOOLEAN, tokenEnabled' \in BOOLEAN,
         plans' \in [PlanIds -> PlanTerms],
         mandate' \in MandateType, Tied',
         approval' \in ApprovalType, ApprovedMeansDue',
         pending' \subseteq RequestType, queued' \subseteq ComputationType,
         RequestsTimely', ReportsTimely',
         events' \subseteq Nat, escrow' \in Nat, received' \in Nat,
         answers' \in Nat, grantedBy' \in ComputationType, consented' \in Nat
  PROVE  BillingInv'
  BY DEF BillingInv, TypeOK

\* A step that leaves clock, requests, reports and approval alone, and does not
\* bring the due date forward, keeps what is timely.
LEMMA StillTimely ==
  ASSUME BillingInv, UNCHANGED <<now, pending, reports, approval>>,
         mandate'.nextDue \in Nat, mandate'.nextDue >= mandate.nextDue
  PROVE  RequestsTimely' /\ ReportsTimely' /\ ApprovedMeansDue'
<1>1. /\ RequestsTimely /\ ReportsTimely /\ ApprovedMeansDue
      /\ mandate.nextDue \in Nat /\ approval.end \in Nat
  BY FieldTypes DEF BillingInv
<1> QED
  BY <1>1 DEF RequestsTimely, ReportsTimely, ApprovedMeansDue

\* The empty approvals of a reset and of a consumed one.
LEMMA EmptyApprovals ==
  /\ Reset \in ApprovalType /\ NoApproval \in ApprovalType
  /\ ~Reset.approved /\ ~NoApproval.approved
  /\ NoComputation \in ComputationType
<1>1. NoApproval \in ApprovalType /\ NoApproval.approved = FALSE
  BY DEF NoApproval, ApprovalType
<1>2. Reset \in ApprovalType
  BY <1>1 DEF Reset, ApprovalType
<1>3. Reset.approved = FALSE
  BY DEF Reset, NoApproval
<1>4. NoComputation \in ComputationType
  BY DEF NoComputation, ComputationType, Flows
<1> QED
  BY <1>1, <1>2, <1>3, <1>4

LEMMA SubscribeKeeps ==
  ASSUME BillingInv, NEW p \in PlanIds, Subscribe(p)
  PROVE  BillingInv'
<1> DEFINE m == WithTerms(NoMandate, p)
<1>1. TypeOK /\ NoMandate \in MandateType /\ now \in Nat
  BY FieldTypes DEF BillingInv, NoMandate, MandateType, Statuses, BillingTypes
<1>2. ExpiryOf(plans[p]) \in Nat /\ FirstDue(plans[p]) \in Nat
  BY <1>1, TermTypes DEF ExpiryOf, FirstDue
<1>3. m \in MandateType /\ m.plan = p /\ m.frequency = plans[p].frequency
  BY <1>1, TermsTaken
<1>4. /\ mandate' = [m EXCEPT !.status = "Active", !.expiry = ExpiryOf(plans[p]),
                              !.nextDue = FirstDue(plans[p])]
      /\ mandate.status = "Absent" /\ consented' = plans[p].amount
  BY DEF Subscribe
<1> HIDE DEF m
<1>5. /\ mandate' \in MandateType
      /\ mandate'.plan = p /\ mandate'.frequency = plans[p].frequency
      /\ mandate'.status = "Active" /\ mandate'.nextDue = FirstDue(plans[p])
  BY <1>2, <1>3, <1>4 DEF MandateType, Statuses
<1>6. Tied'
  BY <1>1, <1>5, TermTypes DEF Tied
<1>7. mandate.nextDue = 0
  BY <1>4 DEF BillingInv, Tied
<1>8. RequestsTimely' /\ ReportsTimely' /\ ApprovedMeansDue'
  BY <1>2, <1>5, <1>7, StillTimely DEF Subscribe, requests
<1>9. consented' \in Nat
  BY <1>1, <1>4, TermTypes
<1> QED
  BY <1>5, <1>6, <1>8, <1>9, Parts, Assembled DEF Subscribe, chain, requests, money

\* A request replaces or keeps the approval, stores itself as pending, and
\* moves a nonce; only one for a period that is over may be for a validation.
LEMMA RequestKeeps ==
  ASSUME BillingInv, NEW c \in ComputationType, Start(c),
         c.flow = "Validation" => c.subject <= now,
         \/ approval' = Reset /\ grantedBy' = NoComputation
         \/ UNCHANGED <<approval, grantedBy>>,
         \/ mandate' = [mandate EXCEPT !.vNonce = @ + 1]
         \/ mandate' = [mandate EXCEPT !.bNonce = @ + 1],
         UNCHANGED <<now, paused, tokenEnabled, plans, reports, events, escrow, received,
                     answers, consented>>
  PROVE  BillingInv'
<1>1. /\ mandate \in MandateType /\ Tied /\ approval \in ApprovalType
      /\ RequestsTimely /\ ReportsTimely /\ ApprovedMeansDue
      /\ pending \subseteq RequestType /\ queued \subseteq ComputationType
      /\ grantedBy \in ComputationType
  BY Parts
<1>2. mandate' \in MandateType /\ mandate'.nextDue = mandate.nextDue
  BY <1>1 DEF MandateType
<1>3. Tied'
  BY <1>1 DEF Tied, MandateType
<1>4. /\ Request(c) \in RequestType
      /\ Request(c).flow = c.flow /\ Request(c).subject = c.subject
  BY DEF Request, RequestType, ComputationType
<1>5. /\ pending' = pending \cup {Request(c)} /\ queued' = queued \cup {c}
      /\ pending' \subseteq RequestType /\ queued' \subseteq ComputationType
  BY <1>1, <1>4 DEF Start
<1>6. RequestsTimely' /\ ReportsTimely'
  BY <1>1, <1>4, <1>5 DEF RequestsTimely, ReportsTimely
<1>7. approval' \in ApprovalType /\ grantedBy' \in ComputationType
  BY <1>1, EmptyApprovals
<1>8. ApprovedMeansDue'
  BY <1>1, <1>2, EmptyApprovals DEF ApprovedMeansDue
<1> QED
  BY <1>2, <1>3, <1>5, <1>6, <1>7, <1>8, Parts, Assembled

\* The three requests: the network is asked about today's period.
LEMMA RequestsKeep ==
  ASSUME BillingInv,
         \/ \E verdict \in Verdicts : RequestValidation(verdict)
         \/ \E r \in reports, charge \in Charges : RequestUsageComputation(r, charge)
         \/ RequestBillingRecord
  PROVE  BillingInv'
<1>0. /\ TypeOK /\ now \in Nat /\ mandate.nextDue \in Nat /\ mandate.pulls \in Nat
      /\ mandate.vNonce \in Nat /\ mandate.bNonce \in Nat /\ mandate.frequency \in Nat
      /\ mandate.plan \in PlanIds \cup {NoPlan}
  BY FieldTypes DEF BillingInv
<1>1. ASSUME NEW verdict \in Verdicts, RequestValidation(verdict) PROVE BillingInv'
  <2> DEFINE c == [flow |-> "Validation", subject |-> mandate.nextDue,
                   nonce |-> mandate.vNonce + 1, result |-> verdict, plan |-> NoPlan]
  <2>1. c \in ComputationType /\ c.flow = "Validation" /\ c.subject = mandate.nextDue
    BY <1>0, OutcomesAssumption DEF ComputationType, Flows
  <2>2. /\ Start(c) /\ approval' = Reset /\ grantedBy' = NoComputation
        /\ mandate' = [mandate EXCEPT !.vNonce = @ + 1]
        /\ mandate.nextDue <= now
        /\ UNCHANGED <<now, paused, tokenEnabled, plans, reports, events, escrow, received,
                       answers, consented>>
    BY <1>0, <1>1 DEF RequestValidation, IsDue, chain, money
  <2> HIDE DEF c
  <2> QED
    BY <2>1, <2>2, RequestKeeps
<1>2. ASSUME NEW r \in reports, NEW charge \in Charges, RequestUsageComputation(r, charge)
      PROVE  BillingInv'
  <2> DEFINE c == [flow |-> "UsageComputation", subject |-> r.start,
                   nonce |-> mandate.vNonce + 1, result |-> charge, plan |-> NoPlan]
  <2>1. r.start \in Int
    BY <1>0, <1>2 DEF RequestUsageComputation, IsCurrent, PeriodStart
  <2>2. c \in ComputationType /\ c.flow = "UsageComputation"
    BY <1>0, <2>1, OutcomesAssumption DEF ComputationType, Flows
  <2>3. /\ Start(c) /\ approval' = Reset /\ grantedBy' = NoComputation
        /\ mandate' = [mandate EXCEPT !.vNonce = @ + 1]
        /\ UNCHANGED <<now, paused, tokenEnabled, plans, reports, events, escrow, received,
                       answers, consented>>
    BY <1>2 DEF RequestUsageComputation, chain, money
  <2> HIDE DEF c
  <2> QED
    BY <2>2, <2>3, RequestKeeps
<1>3. ASSUME RequestBillingRecord PROVE BillingInv'
  <2> DEFINE c == [flow |-> "BillingRecord", subject |-> mandate.pulls,
                   nonce |-> mandate.bNonce + 1, result |-> 0, plan |-> mandate.plan]
  <2>1. c \in ComputationType /\ c.flow = "BillingRecord"
    BY <1>0 DEF ComputationType, Flows
  <2>2. /\ Start(c) /\ UNCHANGED <<approval, grantedBy>>
        /\ mandate' = [mandate EXCEPT !.bNonce = @ + 1]
        /\ UNCHANGED <<now, paused, tokenEnabled, plans, reports, events, escrow, received,
                       answers, consented>>
    BY <1>3 DEF RequestBillingRecord, chain, money, ghosts
  <2> HIDE DEF c
  <2> QED
    BY <2>1, <2>2, RequestKeeps
<1> QED
  BY <1>1, <1>2, <1>3

\* The approval a callback writes is for the mandate's current period, and the
\* network's answer only counts when that period is over.
LEMMA ApprovalGranted ==
  ASSUME BillingInv, NEW c \in queued, Complete(c), mandate.nextDue <= now,
         NEW verdict \in BOOLEAN, NEW amount \in Nat,
         approval' = Approve(mandate, verdict, amount),
         grantedBy' = c, answers' = answers + 1,
         UNCHANGED <<now, paused, tokenEnabled, plans, mandate, queued, reports, events,
                     escrow, received, consented>>
  PROVE  BillingInv'
<1>1. /\ mandate \in MandateType /\ Tied /\ RequestsTimely /\ ReportsTimely
      /\ now \in Nat /\ mandate.nextDue \in Nat /\ mandate.frequency \in Nat
      /\ pending \subseteq RequestType /\ queued \subseteq ComputationType
  BY Parts, FieldTypes DEF BillingInv
<1>2. /\ approval' \in ApprovalType /\ approval'.end = mandate.nextDue
  BY <1>1, LimitsAssumption DEF Approve, ApprovalType, PeriodStart, PeriodEnd
<1>3. ApprovedMeansDue'
  BY <1>1, <1>2 DEF ApprovedMeansDue
<1>4. pending' \subseteq pending
  BY DEF Complete
<1>5. RequestsTimely' /\ ReportsTimely' /\ Tied'
  BY <1>1, <1>4 DEF RequestsTimely, ReportsTimely, Tied
<1> QED
  BY <1>1, <1>2, <1>3, <1>4, <1>5, Parts, Assembled

LEMMA AnswerKeeps ==
  ASSUME BillingInv, NEW c \in queued, Answer(c)
  PROVE  BillingInv'
<1>0. /\ now \in Nat /\ mandate.nextDue \in Nat /\ mandate.amount \in Nat
      /\ c \in ComputationType /\ c.result \in Nat
      /\ RequestsTimely /\ ReportsTimely
  BY Parts, FieldTypes DEF BillingInv, ComputationType
<1>1. ASSUME ValidateMandateCallback(c) PROVE BillingInv'
  <2>1. mandate.nextDue <= now
    BY <1>0, <1>1 DEF ValidateMandateCallback, Awaited, RequestsTimely, Request
  <2>2. /\ Complete(c) /\ approval' = Approve(mandate, c.result = 1, mandate.amount)
        /\ grantedBy' = c /\ answers' = answers + 1
        /\ UNCHANGED <<now, paused, tokenEnabled, plans, mandate, queued, reports, events,
                       escrow, received, consented>>
    BY <1>1 DEF ValidateMandateCallback, chain, money
  <2>3. (c.result = 1) \in BOOLEAN
    BY Zenon
  <2> QED
    BY <1>0, <2>1, <2>2, <2>3, ApprovalGranted
<1>2. ASSUME NEW r \in reports, UsageComputationCallback(c, r) PROVE BillingInv'
  <2>1. mandate.nextDue <= now
    BY <1>0, <1>2 DEF UsageComputationCallback, IsCurrent, ReportsTimely, PeriodEnd
  <2>2. /\ Complete(c) /\ approval' = Approve(mandate, TRUE, c.result)
        /\ grantedBy' = c /\ answers' = answers + 1
        /\ UNCHANGED <<now, paused, tokenEnabled, plans, mandate, queued, reports, events,
                       escrow, received, consented>>
    BY <1>2 DEF UsageComputationCallback, chain, money
  <2> QED
    BY <1>0, <2>1, <2>2, ApprovalGranted
<1>3. ASSUME RecordBillingEventCallback(c) PROVE BillingInv'
  <2>1. /\ mandate \in MandateType /\ mandate.pulls \in Nat /\ Tied
        /\ pending \subseteq RequestType /\ events \subseteq Nat /\ answers \in Nat
    BY Parts, FieldTypes DEF BillingInv
  <2>2. /\ mandate' = [mandate EXCEPT !.recorded = mandate.pulls]
        /\ events' = events \cup {mandate.pulls} /\ answers' = answers + 1
        /\ pending' \subseteq pending
        /\ UNCHANGED <<now, paused, tokenEnabled, plans, approval, queued, reports, escrow,
                       received, grantedBy, consented>>
    BY <1>3 DEF RecordBillingEventCallback, Complete, chain, money
  <2>3. mandate' \in MandateType /\ mandate'.nextDue = mandate.nextDue /\ Tied'
    BY <2>1, <2>2 DEF MandateType, Tied
  <2>4. ApprovedMeansDue' /\ RequestsTimely' /\ ReportsTimely'
    BY <1>0, <2>2, <2>3 DEF BillingInv, ApprovedMeansDue, RequestsTimely, ReportsTimely
  <2>5. pending' \subseteq RequestType /\ events' \subseteq Nat /\ answers' \in Nat
    BY <2>1, <2>2
  <2> QED
    BY <2>2, <2>3, <2>4, <2>5, Parts, Assembled
<1> QED
  BY <1>1, <1>2, <1>3 DEF Answer

\* A report is made once its period is over, with the plan's terms of the day.
LEMMA SubmitUsageReportKeeps ==
  ASSUME BillingInv, NEW who \in Signers, SubmitUsageReport(who)
  PROVE  BillingInv'
<1> DEFINE r == [start |-> PeriodStart(mandate), end |-> PeriodEnd(mandate),
                 hash |-> TermsHash(mandate.plan), settled |-> FALSE]
<1>1. /\ now \in Nat /\ mandate.nextDue \in Nat /\ mandate.frequency \in Nat
      /\ mandate.plan \in PlanIds /\ plans[mandate.plan] \in PlanTerms
      /\ ReportsTimely /\ RequestsTimely /\ ApprovedMeansDue /\ Tied
  BY FieldTypes, Parts DEF BillingInv, Tied, SubmitUsageReport
<1>2. r \in ReportType /\ r.end <= now
  BY <1>1 DEF ReportType, TermsHash, PeriodStart, PeriodEnd, SubmitUsageReport
<1>3. reports' = reports \cup {r}
  BY DEF SubmitUsageReport
<1> HIDE DEF r
<1>4. ReportsTimely'
  BY <1>1, <1>2, <1>3 DEF ReportsTimely, SubmitUsageReport
<1>5. RequestsTimely' /\ ApprovedMeansDue' /\ Tied'
  BY <1>1 DEF SubmitUsageReport, RequestsTimely, ApprovedMeansDue, Tied, requests
<1> QED
  BY <1>4, <1>5, Parts, Assembled DEF SubmitUsageReport, chain, requests, money, ghosts

\* A charge never overdraws the mandate's account: a transfer that would fails.
LEMMA ChargeTyped ==
  ASSUME TypeOK, NEW amount \in Nat, Charge(amount)
  PROVE  escrow' \in Nat /\ received' \in Nat
<1>1. escrow \in Nat /\ received \in Nat
  BY DEF TypeOK
<1>2. amount <= escrow
  BY <1>1 DEF Charge, TransferSucceeds
<1> QED
  BY <1>1, <1>2 DEF Charge

\* The terms a pull is billed on, and the account it leaves.
LEMMA EffectiveTerms ==
  ASSUME BillingInv, mandate.status = "Active"
  PROVE  /\ Effective(mandate) \in MandateType
         /\ Effective(mandate).status = "Active" /\ Effective(mandate).plan \in PlanIds
         /\ Effective(mandate).frequency # 0
         /\ Effective(mandate).nextDue = mandate.nextDue
         /\ Effective(mandate).credit = mandate.credit
         /\ Effective(mandate).pulls = mandate.pulls
<1>1. TypeOK /\ mandate \in MandateType /\ mandate.plan \in PlanIds /\ mandate.frequency # 0
  BY DEF BillingInv, TypeOK, Tied
<1>2. CASE ChangeIsDue(mandate)
  <2>1. mandate.pendingPlan \in PlanIds
    BY <1>1, <1>2, FieldTypes DEF ChangeIsDue
  <2>2. Effective(mandate) = WithTerms(mandate, mandate.pendingPlan)
    BY <1>2 DEF Effective
  <2> QED
    BY <1>1, <2>1, <2>2, TermsTaken, TermTypes
<1>3. CASE ~ChangeIsDue(mandate)
  BY <1>1, <1>3 DEF Effective
<1> QED
  BY <1>2, <1>3

LEMMA PulledTyped ==
  ASSUME NEW m \in MandateType, NEW used \in Nat, used <= m.credit
  PROVE  /\ Pulled(m, used) \in MandateType
         /\ Pulled(m, used).nextDue = m.nextDue + m.frequency
         /\ Pulled(m, used).pulls = m.pulls + 1
         /\ Pulled(m, used).plan = m.plan /\ Pulled(m, used).frequency = m.frequency
         /\ Pulled(m, used).status \in {m.status, "Expired"}
<1>1. /\ m.credit - used \in Nat /\ m.pulls + 1 \in Nat /\ m.nextDue + m.frequency \in Nat
      /\ m.recorded \in Nat /\ m.status \in Statuses /\ "Expired" \in Statuses
  BY DEF MandateType, Statuses
<1> QED
  BY <1>1 DEF Pulled, MandateType

\* Marking a report settled changes nothing else of it.
LEMMA SettledReports ==
  ASSUME ReportsTimely, NEW r \in WithSettled
  PROVE  r \in ReportType /\ r.end <= now
<1>1. CASE r \in reports
  BY <1>1 DEF ReportsTimely
<1>2. CASE r \notin reports
  <2>1. PICK q \in reports : r = [q EXCEPT !.settled = TRUE]
    BY <1>2 DEF WithSettled, CurrentReports
  <2>2. q \in ReportType /\ q.end <= now
    BY DEF ReportsTimely
  <2> QED
    BY <2>1, <2>2 DEF ReportType
<1> QED
  BY <1>1, <1>2
\* A pull moves the due date forward by the period it is billed on, and takes
\* its approval with it.
LEMMA ExecutePullKeeps ==
  ASSUME BillingInv, NEW who \in Signers, ExecutePull(who)
  PROVE  BillingInv'
<1> DEFINE m    == Effective(mandate)
           used == Least(Base(m), mandate.credit)
<1>1. /\ mandate.status = "Active" /\ Charge(Base(m) - used)
      /\ mandate' = Pulled(m, used)
      /\ reports' = reports \/ reports' = WithSettled
      /\ approval' = NoApproval /\ grantedBy' = NoComputation
      /\ UNCHANGED <<now, paused, tokenEnabled, plans, pending, queued, events, answers,
                     consented>>
  BY DEF ExecutePull, chain, requests
<1>2. /\ TypeOK /\ RequestsTimely /\ ReportsTimely /\ mandate.credit \in Nat
      /\ approval.amount \in Nat /\ mandate.nextDue \in Nat
  BY FieldTypes DEF BillingInv
<1>3. /\ m \in MandateType /\ m.status = "Active" /\ m.plan \in PlanIds
      /\ m.frequency # 0 /\ m.credit = mandate.credit
  BY <1>1, EffectiveTerms
<1> HIDE DEF m
<1>4. Base(m) \in Nat
  BY <1>2, <1>3 DEF Base, MandateType
<1>5. used \in Nat /\ used <= m.credit /\ Base(m) - used \in Nat
  BY <1>2, <1>3, <1>4 DEF Least
<1> HIDE DEF used
<1>6. escrow' \in Nat /\ received' \in Nat
  BY <1>1, <1>2, <1>5, ChargeTyped
<1>7. /\ mandate' \in MandateType
      /\ mandate'.plan = m.plan /\ mandate'.frequency = m.frequency
      /\ mandate'.status \in {m.status, "Expired"}
  BY <1>1, <1>3, <1>5, PulledTyped
<1>8. Tied'
  BY <1>3, <1>7 DEF Tied
<1>9. \A r \in reports' : r \in ReportType /\ r.end <= now
  BY <1>1, <1>2, SettledReports DEF ReportsTimely
<1>10. RequestsTimely' /\ ReportsTimely'
  BY <1>1, <1>2, <1>9 DEF RequestsTimely, ReportsTimely
<1>11. approval' \in ApprovalType /\ ApprovedMeansDue' /\ grantedBy' \in ComputationType
  BY <1>1, EmptyApprovals DEF ApprovedMeansDue
<1> QED
  BY <1>1, <1>6, <1>7, <1>8, <1>10, <1>11, Parts, Assembled

\* A plan change keeps the due date; a credit only grows by what the old
\* plan's unused time was worth.
LEMMA UpdateMandatePlanKeeps ==
  ASSUME BillingInv, NEW who \in Signers, NEW p \in PlanIds, UpdateMandatePlan(who, p)
  PROVE  BillingInv'
<1> DEFINE delta == Proration(mandate, plans[p].amount)
           taken == WithTerms(mandate, p)
<1>1. /\ mandate.status = "Active" /\ Charge(IF delta > 0 THEN delta ELSE 0)
      /\ approval' = (IF delta > 0 THEN NoApproval ELSE approval)
      /\ grantedBy' = (IF delta > 0 THEN NoComputation ELSE grantedBy)
      /\ mandate' = [taken EXCEPT !.credit = @ + (IF delta < 0 THEN -delta ELSE 0)]
      /\ consented' = SignedFor(who, p)
      /\ UNCHANGED <<now, paused, tokenEnabled, plans, pending, queued, reports, events,
                     answers>>
  BY DEF UpdateMandatePlan, chain, requests
<1>2. /\ TypeOK /\ mandate \in MandateType /\ mandate.frequency # 0 /\ mandate.nextDue \in Nat
      /\ plans[p].amount \in Nat /\ plans[p].frequency # 0 /\ mandate.credit \in Nat
      /\ ReportsTimely /\ RequestsTimely /\ ApprovedMeansDue
      /\ approval \in ApprovalType /\ grantedBy \in ComputationType /\ consented \in Nat
  BY <1>1, FieldTypes, TermTypes DEF BillingInv, Tied, TypeOK
<1>3. delta \in Int
  BY <1>2, ProrationValue
<1>4. /\ taken \in MandateType /\ taken.plan = p /\ taken.frequency = plans[p].frequency
      /\ taken.status = "Active" /\ taken.nextDue = mandate.nextDue
      /\ taken.credit = mandate.credit
  BY <1>1, <1>2, TermsTaken
<1> HIDE DEF delta, taken
<1>5. escrow' \in Nat /\ received' \in Nat
  BY <1>1, <1>2, <1>3, ChargeTyped
<1>6. taken.credit + (IF delta < 0 THEN -delta ELSE 0) \in Nat
  BY <1>2, <1>3, <1>4
<1>7. /\ mandate' \in MandateType
      /\ mandate'.plan = p /\ mandate'.frequency = plans[p].frequency
      /\ mandate'.status = "Active" /\ mandate'.nextDue = mandate.nextDue
  BY <1>1, <1>4, <1>6 DEF MandateType
<1>8. Tied'
  BY <1>2, <1>7 DEF Tied
<1>9. RequestsTimely' /\ ReportsTimely'
  BY <1>1, <1>2 DEF RequestsTimely, ReportsTimely
<1>10. /\ approval' \in ApprovalType /\ grantedBy' \in ComputationType /\ ApprovedMeansDue'
  BY <1>1, <1>2, <1>7, EmptyApprovals DEF ApprovedMeansDue
<1>11. consented' \in Nat
  BY <1>1, <1>2 DEF SignedFor
<1> QED
  BY <1>1, <1>5, <1>7, <1>8, <1>9, <1>10, <1>11, Parts, Assembled

\* Scheduling or dropping a change writes two fields nothing timely reads.
LEMMA ScheduleKeeps ==
  ASSUME BillingInv, NEW who \in Signers,
         \/ \E p \in PlanIds : SchedulePlanChange(who, p)
         \/ CancelPlanChange(who)
  PROVE  BillingInv'
<1>1. /\ mandate \in MandateType /\ mandate.nextDue \in Nat /\ Tied /\ TypeOK
      /\ consented \in Nat
  BY FieldTypes, Parts DEF BillingInv
<1>2. /\ mandate' \in MandateType /\ consented' \in Nat
      /\ mandate'.nextDue = mandate.nextDue /\ mandate'.status = mandate.status
      /\ mandate'.plan = mandate.plan /\ mandate'.frequency = mandate.frequency
      /\ UNCHANGED <<now, paused, tokenEnabled, plans, approval, pending, queued, reports,
                     events, escrow, received, answers, grantedBy>>
  <2>1. CASE \E p \in PlanIds : SchedulePlanChange(who, p)
    <3>1. PICK p \in PlanIds : SchedulePlanChange(who, p)
      BY <2>1
    <3>2. consented' \in Nat
      BY <1>1, <3>1, TermTypes DEF SchedulePlanChange, SignedFor
    <3> QED
      BY <1>1, <3>1, <3>2 DEF SchedulePlanChange, MandateType, chain, requests, money
  <2>2. CASE CancelPlanChange(who)
    BY <1>1, <2>2 DEF CancelPlanChange, MandateType, chain, requests, money, ghosts
  <2> QED
    BY <2>1, <2>2
<1>3. Tied'
  BY <1>1, <1>2 DEF Tied
<1>4. RequestsTimely' /\ ReportsTimely' /\ ApprovedMeansDue'
  BY <1>1, <1>2, StillTimely
<1> QED
  BY <1>2, <1>3, <1>4, Parts, Assembled
\* A revision writes a plan's account, and no mandate's.
LEMMA RevisionKeeps ==
  ASSUME BillingInv, NEW who \in Signers, NEW p \in PlanIds, NEW revision \in Revisions,
         UpdatePlan(who, p, revision) \/ UpdateUsagePlan(who, p, revision)
  PROVE  BillingInv'
<1>1. /\ plans \in [PlanIds -> PlanTerms] /\ mandate.nextDue \in Nat
      /\ revision.amount \in Nat \ {0} /\ revision.frequency \in Nat \ {0}
      /\ revision.maxPulls \in Nat \ {0}
  BY FieldTypes, Parts, RevisionsAssumption DEF BillingInv
<1>2. plans' \in [PlanIds -> PlanTerms]
  <2>1. CASE UpdatePlan(who, p, revision)
    BY <1>1, <2>1 DEF UpdatePlan, PlanTerms
  <2>2. CASE UpdateUsagePlan(who, p, revision)
    BY <1>1, <2>2 DEF UpdateUsagePlan, PlanTerms
  <2> QED
    BY <2>1, <2>2
<1>3. UNCHANGED <<now, chain, mandate, approval, requests, reports, events, money, ghosts>>
  BY DEF UpdatePlan, UpdateUsagePlan
<1>4. RequestsTimely' /\ ReportsTimely' /\ ApprovedMeansDue' /\ Tied'
  BY <1>1, <1>3, StillTimely, Parts DEF Tied, requests
<1> QED
  BY <1>2, <1>3, <1>4, Parts, Assembled DEF chain, requests, money, ghosts

\* Ending a mandate writes its status only.
LEMMA EndKeeps ==
  ASSUME BillingInv, NEW who \in Signers,
         Cancel(who) \/ AdminCancel(who) \/ CloseMandate(who)
  PROVE  BillingInv'
<1>1. /\ mandate \in MandateType /\ mandate.nextDue \in Nat /\ Tied
  BY FieldTypes, Parts DEF BillingInv
<1>2. /\ mandate.status # "Absent"
      /\ \E s \in {"Cancelled", "Closed"} : mandate' = [mandate EXCEPT !.status = s]
      /\ UNCHANGED <<now, chain, plans, approval, requests, reports, events, money, ghosts>>
  BY DEF Cancel, AdminCancel, CancelMandate, CloseMandate
<1>3. /\ mandate' \in MandateType /\ mandate'.nextDue = mandate.nextDue
      /\ mandate'.plan = mandate.plan /\ mandate'.frequency = mandate.frequency
      /\ mandate'.status # "Absent"
  BY <1>1, <1>2 DEF MandateType, Statuses
<1>4. Tied'
  BY <1>1, <1>2, <1>3 DEF Tied
<1>5. RequestsTimely' /\ ReportsTimely' /\ ApprovedMeansDue'
  BY <1>1, <1>2, <1>3, StillTimely DEF requests
<1> QED
  BY <1>2, <1>3, <1>4, <1>5, Parts, Assembled DEF chain, requests, money, ghosts

\* Deposits, switches and time: what was over stays over.
LEMMA SurroundingsKeep ==
  ASSUME BillingInv,
         \/ \E amount \in Deposits : Fund(amount)
         \/ \E flag \in BOOLEAN : SetPaused(flag) \/ SetTokenEnabled(flag)
         \/ Tick
         \/ UNCHANGED vars
  PROVE  BillingInv'
<1>1. /\ now \in Nat /\ now <= MaxTime /\ mandate.nextDue \in Nat /\ approval.end \in Nat
      /\ Tied /\ escrow \in Nat /\ pending \subseteq RequestType
      /\ reports \subseteq ReportType
      /\ paused \in BOOLEAN /\ tokenEnabled \in BOOLEAN
  BY FieldTypes, Parts DEF BillingInv, ReportsTimely
<1>2. /\ UNCHANGED <<plans, mandate, approval, pending, queued, reports, events, received,
                     answers, grantedBy, consented>>
      /\ now' \in 0 .. MaxTime /\ now' >= now
      /\ escrow' \in Nat /\ paused' \in BOOLEAN /\ tokenEnabled' \in BOOLEAN
  <2>1. CASE \E amount \in Deposits : Fund(amount)
    BY <1>1, <2>1, DepositsAssumption DEF Fund, chain, requests, ghosts
  <2>2. CASE \E flag \in BOOLEAN : SetPaused(flag) \/ SetTokenEnabled(flag)
    BY <1>1, <2>2 DEF SetPaused, SetTokenEnabled, requests, money, ghosts
  <2>3. CASE Tick
    BY <1>1, <2>3, BoundsAssumption DEF Tick, chain, requests, money, ghosts
  <2>4. CASE UNCHANGED vars
    BY <1>1, <2>4, BoundsAssumption DEF vars
  <2> QED
    BY <2>1, <2>2, <2>3, <2>4
<1>3. RequestsTimely'
  BY <1>1, <1>2, Parts DEF RequestsTimely, RequestType
<1>4. ReportsTimely'
  BY <1>1, <1>2, Parts DEF ReportsTimely, ReportType
<1>5. ApprovedMeansDue' /\ Tied'
  BY <1>1, <1>2, Parts DEF ApprovedMeansDue, Tied
<1> QED
  BY <1>2, <1>3, <1>4, <1>5, Parts, Assembled
LEMMA InitHolds ==
  ASSUME Init
  PROVE  BillingInv
<1>1. NoMandate \in MandateType
  BY DEF NoMandate, MandateType, Statuses, BillingTypes
<1>2. /\ now \in 0 .. MaxTime /\ plans \in [PlanIds -> PlanTerms]
      /\ mandate \in MandateType /\ approval \in ApprovalType
      /\ grantedBy \in ComputationType
  BY <1>1, BoundsAssumption, PlansAssumption, EmptyApprovals DEF Init
<1>3. Tied /\ ApprovedMeansDue
  BY EmptyApprovals DEF Init, Tied, NoMandate, ApprovedMeansDue
<1>4. RequestsTimely /\ ReportsTimely
  BY DEF Init, RequestsTimely, ReportsTimely
<1> QED
  BY <1>2, <1>3, <1>4, Parts DEF Init

LEMMA StepKeeps ==
  ASSUME BillingInv, [Next]_vars
  PROVE  BillingInv'
<1>1. ASSUME NEW p \in PlanIds, Subscribe(p) PROVE BillingInv'
  BY <1>1, SubscribeKeeps
<1>2. CASE \/ \E verdict \in Verdicts : RequestValidation(verdict)
           \/ \E r \in reports, charge \in Charges : RequestUsageComputation(r, charge)
           \/ RequestBillingRecord
  BY <1>2, RequestsKeep
<1>3. ASSUME NEW c \in queued, Answer(c) PROVE BillingInv'
  BY <1>3, AnswerKeeps
<1>4. ASSUME NEW who \in Signers,
             \/ SubmitUsageReport(who) \/ ExecutePull(who) \/ CancelPlanChange(who)
             \/ Cancel(who) \/ AdminCancel(who) \/ CloseMandate(who)
      PROVE  BillingInv'
  BY <1>4, SubmitUsageReportKeeps, ExecutePullKeeps, ScheduleKeeps, EndKeeps
<1>5. ASSUME NEW who \in Signers, NEW p \in PlanIds,
             UpdateMandatePlan(who, p) \/ SchedulePlanChange(who, p)
      PROVE  BillingInv'
  BY <1>5, UpdateMandatePlanKeeps, ScheduleKeeps
<1>6. ASSUME NEW who \in Signers, NEW p \in PlanIds, NEW revision \in Revisions,
             UpdatePlan(who, p, revision) \/ UpdateUsagePlan(who, p, revision)
      PROVE  BillingInv'
  BY <1>6, RevisionKeeps
<1>7. CASE \/ \E amount \in Deposits : Fund(amount)
           \/ \E flag \in BOOLEAN : SetPaused(flag) \/ SetTokenEnabled(flag)
           \/ Tick
           \/ UNCHANGED vars
  BY <1>7, SurroundingsKeep
<1> QED
  BY <1>1, <1>2, <1>3, <1>4, <1>5, <1>6, <1>7 DEF Next
------------------------------------------------------------------------------
(* The theorems. *)

\* The inductive invariant of one subscription: types, a plan and a period for
\* every mandate that was opened, and requests, reports and approvals that are
\* about periods already over.
THEOREM BillingInvariant == Spec => []BillingInv
<1>1. Init => BillingInv
  BY InitHolds
<1>2. BillingInv /\ [Next]_vars => BillingInv'
  BY StepKeeps
<1> QED
  BY <1>1, <1>2, PTL DEF Spec

\* Every field of the accounts keeps its type: in particular execute_pull and
\* update_mandate_plan never take more than the account holds or than the
\* credit a plan change left, whatever the plans' terms.
THEOREM BillingTypeOK == Spec => []TypeOK
<1>1. BillingInv => TypeOK
  BY DEF BillingInv
<1> QED
  BY <1>1, BillingInvariant, PTL

\* validate_mandate_callback and the usage callback approve only a period that
\* is over, although the due date they read may not be the one the request
\* read, and a plan change or a pull may come between the two.
THEOREM NoEarlyApproval == Spec => []ApprovedMeansDue
<1>1. BillingInv => ApprovedMeansDue
  BY DEF BillingInv
<1> QED
  BY <1>1, BillingInvariant, PTL

\* A charging plan change needs an approval for the current period; the period
\* is then over, and the proration it would charge is zero.
LEMMA PlanChangeMovesNothing ==
  ASSUME BillingInv, NEW who \in Signers, NEW p \in PlanIds, UpdateMandatePlan(who, p)
  PROVE  received' = received
<1> DEFINE delta == Proration(mandate, plans[p].amount)
<1>1. /\ TypeOK /\ mandate.frequency # 0 /\ plans[p].amount \in Nat
      /\ mandate.nextDue \in Nat /\ received \in Nat
  BY FieldTypes, TermTypes DEF BillingInv, Tied, TypeOK, UpdateMandatePlan
<1>2. delta \in Int /\ (mandate.nextDue <= now => delta = 0)
  BY <1>1, ProrationValue
<1>3. delta > 0 => mandate.nextDue <= now
  BY DEF UpdateMandatePlan, ApprovalStands, PeriodEnd, BillingInv, ApprovedMeansDue
<1>4. received' = received + (IF delta > 0 THEN delta ELSE 0)
  BY DEF UpdateMandatePlan, Charge
<1> HIDE DEF delta
<1> QED
  BY <1>1, <1>2, <1>3, <1>4

LEMMA PullCounts ==
  ASSUME BillingInv, NEW who \in Signers, ExecutePull(who)
  PROVE  mandate'.pulls = mandate.pulls + 1
<1> DEFINE m    == Effective(mandate)
           used == Least(Base(m), mandate.credit)
<1>1. mandate.status = "Active" /\ mandate' = Pulled(m, used)
  BY DEF ExecutePull
<1>2. m \in MandateType /\ m.pulls = mandate.pulls
  BY <1>1, EffectiveTerms
<1> HIDE DEF m, used
<1>3. mandate'.pulls = m.pulls + 1
  BY <1>1, <1>2 DEF Pulled, MandateType
<1> QED
  BY <1>2, <1>3

\* Only execute_pull moves money: the charge branch of update_mandate_plan is
\* never taken with a positive amount, since its approval exists only when the
\* period it prorates is over.
THEOREM OnlyPullsMoveMoney == Spec => OnlyPullsCharge
<1>1. ASSUME BillingInv, [Next]_vars
      PROVE  received' > received => mandate'.pulls = mandate.pulls + 1
  <2>0. received \in Nat /\ ~(received > received)
    BY <1>1 DEF BillingInv, TypeOK
  <2>1. ASSUME NEW who \in Signers, ExecutePull(who)
        PROVE  mandate'.pulls = mandate.pulls + 1
    BY <1>1, <2>1, PullCounts
  <2>2. ASSUME NEW who \in Signers, NEW p \in PlanIds, UpdateMandatePlan(who, p)
        PROVE  received' = received
    BY <1>1, <2>2, PlanChangeMovesNothing
  <2>3. \/ \E who \in Signers : ExecutePull(who)
        \/ \E who \in Signers, p \in PlanIds : UpdateMandatePlan(who, p)
        \/ received' = received
    BY <1>1 DEF Next, vars, Subscribe, RequestValidation, RequestUsageComputation,
                RequestBillingRecord, Answer, ValidateMandateCallback,
                UsageComputationCallback, RecordBillingEventCallback,
                SubmitUsageReport, CancelPlanChange, Cancel, AdminCancel,
                CancelMandate, CloseMandate, SchedulePlanChange, UpdatePlan,
                UpdateUsagePlan, Fund, SetPaused, SetTokenEnabled, Tick, money
  <2> QED
    BY <2>0, <2>1, <2>2, <2>3
<1>2. BillingInv /\ [Next]_vars
        => [received' > received => mandate'.pulls = mandate.pulls + 1]_vars
  BY <1>1
<1> QED
  BY <1>2, BillingInvariant, PTL DEF Spec, OnlyPullsCharge
------------------------------------------------------------------------------
(* What a change of plan in the middle of a period is worth. *)

\* Division of naturals rounds down.
LEMMA QuotientRoundsDown ==
  ASSUME NEW a \in Nat, NEW u \in Nat, NEW f \in Nat, f # 0, u <= f
  PROVE  LET q == (a * u) \div f
         IN  /\ q \in Nat /\ q <= a
             /\ q * f <= a * u /\ a * u < q * f + f
<1> DEFINE n == a * u
           q == n \div f
<1>1. n \in Nat
  OBVIOUS
<1> HIDE DEF n
<1>2. q \in Nat /\ q * f <= n /\ n < q * f + f
  BY <1>1
<1> HIDE DEF q
<1>3. n <= a * f
  BY DEF n
<1>4. q <= a
  <2>1. SUFFICES ASSUME q > a PROVE FALSE
    BY <1>2
  <2>2. q * f >= (a + 1) * f
    BY <1>2, <2>1
  <2>3. (a + 1) * f = a * f + f /\ a * f \in Nat
    OBVIOUS
  <2>4. q * f \in Nat
    BY <1>2
  <2> QED
    BY <1>1, <1>2, <1>3, <2>2, <2>3, <2>4
<1> QED
  BY <1>2, <1>4 DEF q, n

\* compute_proration: the difference of the two amounts for the unused part of
\* the period, rounded toward zero.  It has the sign of the difference, is never
\* more than the difference, and less than one unit short of the exact value: a
\* change neither charges nor credits more than it is worth.
THEOREM ProrationIsFair ==
  ASSUME TypeOK, mandate.frequency # 0, NEW amount \in Nat
  PROVE  LET unused == mandate.frequency - Elapsed(mandate)
             delta  == Proration(mandate, amount)
             up     == amount - mandate.amount
         IN  /\ up >= 0 => /\ 0 <= delta /\ delta <= up
                           /\ delta * mandate.frequency <= up * unused
                           /\ up * unused < delta * mandate.frequency + mandate.frequency
             /\ up <= 0 => /\ delta <= 0 /\ up <= delta
                           /\ (-delta) * mandate.frequency <= (-up) * unused
                           /\ (-up) * unused < (-delta) * mandate.frequency + mandate.frequency
<1> DEFINE f      == mandate.frequency
           unused == f - Elapsed(mandate)
           delta  == Proration(mandate, amount)
           old    == mandate.amount
<1>1. f \in Nat /\ f # 0 /\ unused \in Nat /\ unused <= f /\ old \in Nat
  BY FieldTypes, ElapsedInPeriod
<1>2. delta = IF amount >= old THEN ((amount - old) * unused) \div f
              ELSE -(((old - amount) * unused) \div f)
  BY DEF Proration
<1> HIDE DEF f, unused, delta, old
<1>3. CASE amount >= old
  <2>1. amount - old \in Nat
    BY <1>1, <1>3
  <2>2. /\ delta \in Nat /\ delta <= amount - old
        /\ delta * f <= (amount - old) * unused /\ (amount - old) * unused < delta * f + f
    BY <1>1, <1>2, <1>3, <2>1, QuotientRoundsDown
  <2>3. amount - old <= 0 => /\ delta = 0 /\ amount - old = 0
    BY <1>1, <1>3, <2>1, <2>2
  <2>4. (-0) * f = 0 /\ (-0) * unused = 0 /\ f > 0
    BY <1>1
  <2>5. amount - old <= 0 => /\ (-delta) * f = 0 /\ (-(amount - old)) * unused = 0
    BY <2>3, <2>4
  <2>6. amount - old <= 0 => /\ delta <= 0 /\ amount - old <= delta
                             /\ (-delta) * f <= (-(amount - old)) * unused
                             /\ (-(amount - old)) * unused < (-delta) * f + f
    BY <1>1, <2>3, <2>4, <2>5
  <2> QED
    BY <2>2, <2>6 DEF f, unused, delta, old
<1>4. CASE ~ amount >= old
  <2>1. old - amount \in Nat /\ ~ amount - old >= 0 /\ -(amount - old) = old - amount
    BY <1>1, <1>4
  <2> DEFINE q == ((old - amount) * unused) \div f
  <2>2. /\ q \in Nat /\ q <= old - amount
        /\ q * f <= (old - amount) * unused /\ (old - amount) * unused < q * f + f
    BY <1>1, <2>1, QuotientRoundsDown
  <2>3. delta = -q
    BY <1>2, <1>4
  <2> HIDE DEF q
  <2>4. delta <= 0 /\ amount - old <= delta /\ -delta = q
    BY <1>1, <2>1, <2>2, <2>3
  <2> QED
    BY <2>1, <2>2, <2>4 DEF f, unused, delta, old
<1> QED
  BY <1>1, <1>3, <1>4
==============================================================================
